--------------------------- MODULE I2cTaskProofs ---------------------------
(***************************************************************************)
(* Proofs about I2cTask for every set of requests and replies, both        *)
(* versions of the protocol, every depth of the mailboxes and every number *)
(* of transfers and faults.                                                *)
(***************************************************************************)
EXTENDS I2cTask, TLAPS

Packets == {p \in Transfers : p.size > 0}
Wholes == {Whole(p) : p \in Packets}

(* The first k parts of a packet, and what a receiver knows after them.    *)
Prefix(p, k) == [i \in 1 .. k |-> Part(p, i)]
Partial(p, xfer, k) ==
  [active |-> TRUE, kind |-> p.kind, xfer |-> xfer, total |-> p.size,
   parts |-> Prefix(p, k)]

(* The master's transfer is the newest one.                                *)
WritingOK ==
  \/ writing = None
  \/ /\ writing \in [p : Packets, next : Nat, clean : BOOLEAN]
     /\ writing.next < writing.p.size /\ writing.p.n = xfers
     /\ \E q \in Requests : writing.p = Numbered(q, xfers)

(* The packet being assembled is the beginning of one transfer.            *)
RxOK ==
  \/ rx = NoPacket
  \/ \E p \in Packets, k \in Nat :
       /\ rx = Partial(p, p.n, k) /\ 0 < k /\ k < p.size /\ p.n <= xfers
       /\ writing # None /\ p.n = writing.p.n => p = writing.p

(* A transfer without a fault so far is assembled as far as it is written. *)
CleanOK ==
  writing # None /\ writing.clean /\ writing.next > 0 /\ writing.p.size <= PayloadMax =>
    rx = Partial(writing.p, writing.p.n, writing.next) /\ ~late

RequestInv ==
  /\ xfers \in Nat
  /\ WritingOK /\ RxOK /\ CleanOK
  /\ toNetwork \in Seq(Wholes)

(* Replies no longer than a packet: what the network delivers and what the *)
(* task answers fits, so that nothing is cut or refused when it is staged. *)
RepliesFit == /\ \A size \in ReplySizes : size <= PayloadMax
              /\ \A q \in Requests : q.answer <= PayloadMax
RequestsFit == \A q \in Requests : q.size <= PayloadMax

Sized == {r \in Replies : /\ 0 < r.size /\ r.size <= PayloadMax
                          /\ r.kind = "error" => r.size = 1}
NetFrames == {r \in Sized : r.kind = "data"}

(* A response of which j slots went out.                                   *)
Giving(a, x, j) == [reply |-> a, xfer |-> x, total |-> a.size, next |-> j]

(* The transfer of an answer that was given before the one being written.  *)
Past(x) == x <= xfers /\ (writing # None => x < xfers)

Sendable(t) ==
  \/ t = NoResponse
  \/ \E a \in Sized, x, j \in Nat :
       t = Giving(a, x, j) /\ j < a.size /\ (a.kind = "command" => Past(x))

(* Slots of t are no continuation of a response of this kind and transfer. *)
Foreign(t, kind, x) == t.reply # None /\ (t.reply.kind # kind \/ t.xfer # x)

(* What the master has is the beginning of one response: of the one given  *)
(* out, as far as that went, of one that another kind or transfer replaced *)
(* or, once a slot is lost, of one that cannot be continued any more.      *)
Reads(t) ==
  \/ reading = NoPacket
  \/ \E a \in Sized, x, k \in Nat :
       /\ reading = Partial(a, x, k) /\ 0 < k /\ k < a.size
       /\ a.kind = "command" => Past(x)
       /\ \/ t = Giving(a, x, k)
          \/ lost = 0 /\ Foreign(t, a.kind, x) /\ t.next = 0
          \/ lost = 1 /\ (\/ t.next = 0
                          \/ Foreign(t, a.kind, x)
                          \/ \E j \in Nat : j > k /\ t = Giving(a, x, j))

ReplyInv ==
  /\ lost \in Nat /\ lastXfer \in Nat
  /\ toMaster \in Seq(NetFrames)
  /\ mailbox = None \/ mailbox \in Sized
  /\ Sendable(tx)
  /\ lost <= 1 => Reads(tx) /\ received \subseteq {Whole(a) : a \in Sized}

(* Undisturbed, a mailbox is staged in its own version only, and a frame   *)
(* is read as far as it was given out.                                     *)
ExactInv ==
  /\ delivered \in Seq(NetFrames)
  /\ ~disturbed =>
       /\ lost = 0
       /\ v2 => tx = NoResponse
       /\ ~v2 => mailbox = None
       /\ IsData(tx.reply) /\ tx.next > 0 => reading = Partial(tx.reply, tx.xfer, tx.next)
       /\ frames \in Seq(NetFrames) /\ frames \o Coming = delivered

-----------------------------------------------------------------------------
(* Packets, their parts and slots.                                         *)

LEMMA PrefixFacts ==
  ASSUME NEW p, NEW k \in Nat
  PROVE  /\ Len(Prefix(p, k)) = k
         /\ k > 0 => Prefix(p, k) # <<>> /\ Head(Prefix(p, k)) = Part(p, 1)
         /\ Append(Prefix(p, k), Part(p, k + 1)) = Prefix(p, k + 1)
         /\ Prefix(p, 1) = <<Part(p, 1)>>
         /\ Whole(p) = Prefix(p, p.size)
  BY DEF Prefix, Whole

LEMMA WholeIsWhole ==
  ASSUME NEW p, p.size \in Nat, p.size > 0
  PROVE  WholePacket(Whole(p)) /\ Head(Whole(p)).of = p /\ Whole(p) # <<>>
<1>1. Whole(p) = Prefix(p, p.size)
  BY PrefixFacts
<1>2. Whole(p) # <<>> /\ Head(Whole(p)) = Part(p, 1)
  BY <1>1, PrefixFacts
<1> QED
  BY <1>2 DEF WholePacket, Part

LEMMA WholeFacts ==
  ASSUME NEW p \in Packets
  PROVE  /\ Whole(p) \in Wholes /\ WholePacket(Whole(p))
         /\ Head(Whole(p)).of = p /\ Whole(p) # <<>>
BY WholeIsWhole DEF Packets, Transfers, Wholes

LEMMA RequestFacts ==
  ASSUME NEW q \in Requests, NEW n \in Nat
  PROVE  /\ Numbered(q, n) \in Packets /\ Numbered(q, n).n = n
         /\ Numbered(q, n).size = q.size /\ Numbered(q, n).class = q.class
  BY I2cAssumption DEF Numbered, Packets, Transfers

LEMMA NoneFacts ==
  /\ \A r \in Replies : r # None
  /\ \A w \in [p : Packets, next : Nat, clean : BOOLEAN] : w # None
<1>1. [p : Packets, next : Nat, clean : BOOLEAN]
        \subseteq [p : Transfers, next : Nat, clean : BOOLEAN]
  BY DEF Packets
<1> QED
  BY <1>1, I2cAssumption

(* Pushing out the oldest keeps the others.                                *)
LEMMA ForwardOK ==
  ASSUME NEW x \in Wholes, toNetwork \in Seq(Wholes), Forward(x)
  PROVE  toNetwork' \in Seq(Wholes) /\ toNetwork' # <<>> /\ Last(toNetwork') = x
<1> DEFINE room == IF Len(toNetwork) < Depth THEN toNetwork ELSE Tail(toNetwork)
<1>1. room \in Seq(Wholes)
  <2>1. CASE Len(toNetwork) < Depth
    BY <2>1
  <2>2. CASE ~(Len(toNetwork) < Depth)
    <3>1. toNetwork # <<>>
      BY <2>2, I2cAssumption
    <3> QED
      BY <2>2, <3>1
  <2> QED
    BY <2>1, <2>2
<1>2. toNetwork' = Append(room, x)
  BY DEF Forward
<1> QED
  BY <1>1, <1>2 DEF Last

(* The slot that is written continues the transfer's own packet or none.   *)
LEMMA AssembledOK ==
  ASSUME RequestInv, writing # None
  PROVE  LET w == writing
             a == Assembled(NextSlot)
         IN  /\ a = NoPacket \/ a = Partial(w.p, w.p.n, w.next + 1)
             /\ w.clean /\ w.p.size <= PayloadMax => a = Partial(w.p, w.p.n, w.next + 1)
<1> DEFINE p == writing.p  k == writing.next  s == NextSlot  a == Assembled(NextSlot)
<1>1. p \in Packets /\ k \in Nat /\ p.size \in Nat /\ k < p.size /\ p.n \in Nat
  BY DEF RequestInv, WritingOK, Packets, Transfers
<1>2. /\ s.kind = p.kind /\ s.xfer = p.n /\ s.offset = k /\ s.total = p.size
      /\ s.data = Part(p, k + 1) /\ s.start = (k = 0)
  BY DEF NextSlot, Slot
<1>3. CASE s.total > PayloadMax
  BY <1>1, <1>2, <1>3, I2cAssumption DEF Assembled
<1>4. CASE ~(s.total > PayloadMax) /\ k = 0
  <2>1. a = Started(s)
    BY <1>2, <1>4 DEF Assembled
  <2>2. Started(s) = Partial(p, p.n, 1)
    <3>1. k + 1 = 1
      BY <1>4
    <3>2. s.data = Part(p, 1)
      BY <1>2, <3>1
    <3>3. Prefix(p, 1) = <<s.data>>
      BY <3>2, PrefixFacts
    <3> QED
      BY <1>2, <3>3 DEF Started, Partial
  <2> QED
    BY <1>4, <2>1, <2>2
<1>5. CASE ~(s.total > PayloadMax) /\ k # 0 /\ Continues(s)
  <2>1. a = Extended(rx, s)
    BY <1>2, <1>5 DEF Assembled
  <2>2. rx # NoPacket
    BY <1>5 DEF Continues, NoPacket
  <2>3. PICK q \in Packets, j \in Nat : /\ rx = Partial(q, q.n, j)
                                        /\ q.n = writing.p.n => q = writing.p
    BY <2>2 DEF RequestInv, RxOK
  <2>4. q = p
    BY <1>2, <1>5, <2>3 DEF Continues, Partial
  <2>5. j = k
    BY <1>2, <1>5, <2>3, PrefixFacts DEF Continues, Partial
  <2>6. Extended(Partial(p, p.n, k), s) = Partial(p, p.n, k + 1)
    <3>1. Append(Prefix(p, k), s.data) = Prefix(p, k + 1)
      BY <1>1, <1>2, PrefixFacts
    <3>2. LET r == Partial(p, p.n, k)
          IN  r.kind = p.kind /\ r.xfer = p.n /\ r.total = p.size /\ r.parts = Prefix(p, k)
      BY DEF Partial
    <3> QED
      BY <3>1, <3>2 DEF Extended, Partial
  <2> QED
    BY <2>1, <2>3, <2>4, <2>5, <2>6
<1>6. CASE ~(s.total > PayloadMax) /\ k # 0 /\ ~Continues(s)
  <2>1. a = NoPacket
    BY <1>2, <1>6 DEF Assembled
  <2>2. ~writing.clean
    <3>1. SUFFICES ASSUME writing.clean PROVE FALSE
      OBVIOUS
    <3>2. rx = Partial(p, p.n, k) /\ ~late
      BY <1>1, <1>2, <1>6, <3>1, I2cAssumption DEF RequestInv, CleanOK
    <3>3. Continues(s)
      <4>1. /\ rx.active /\ rx.kind = p.kind /\ rx.xfer = p.n /\ rx.total = p.size
            /\ rx.parts = Prefix(p, k)
        BY <3>2 DEF Partial
      <4>2. Len(Prefix(p, k)) = k
        BY <1>1, PrefixFacts
      <4>3. k + 1 <= p.size
        BY <1>1
      <4> QED
        BY <1>2, <3>2, <4>1, <4>2, <4>3 DEF Continues
    <3> QED
      BY <1>6, <3>3
  <2> QED
    BY <2>1, <2>2
<1> QED
  BY <1>3, <1>4, <1>5, <1>6

(* What one slot does: the packet grows, is complete or, after a fault or  *)
(* when it is too long, is given up.                                       *)
LEMMA HandleSlotCases ==
  ASSUME RequestInv, writing # None, HandleSlot(NextSlot)
  PROVE  LET p == writing.p
             k == writing.next
         IN  \/ /\ k + 1 < p.size /\ rx' = Partial(p, p.n, k + 1) /\ late' = FALSE
                /\ UNCHANGED <<tx, lastXfer, toNetwork>>
             \/ /\ k + 1 = p.size /\ rx' = NoPacket
                /\ lastXfer' = p.n /\ ProcessComplete(Whole(p), p.n)
             \/ /\ ~(writing.clean /\ p.size <= PayloadMax) /\ rx' = NoPacket
                /\ Stage(ErrorReply, lastXfer) /\ UNCHANGED <<lastXfer, toNetwork>>
<1> DEFINE p == writing.p  k == writing.next  s == NextSlot  a == Assembled(NextSlot)
           clean == writing.clean /\ p.size <= PayloadMax
           done == s.end /\ Len(a.parts) = a.total
<1>1. p \in Packets /\ k \in Nat /\ p.size \in Nat /\ k < p.size
  BY DEF RequestInv, WritingOK, Packets, Transfers
<1>2. s.end <=> k + 1 = p.size
  BY DEF NextSlot, Slot
<1>3. /\ a = NoPacket \/ a = Partial(p, p.n, k + 1)
      /\ clean => a = Partial(p, p.n, k + 1)
  BY AssembledOK
<1>4. a = Partial(p, p.n, k + 1) =>
        /\ a.active /\ a.parts = Prefix(p, k + 1) /\ a.total = p.size /\ a.xfer = p.n
  BY DEF Partial
<1>5. Len(Prefix(p, k + 1)) = k + 1 /\ Whole(p) = Prefix(p, p.size)
  <2>1. k + 1 \in Nat
    BY <1>1
  <2>2. Len(Prefix(p, k + 1)) = k + 1
    BY <2>1, PrefixFacts
  <2> QED
    BY <1>1, <2>2, PrefixFacts
<1>6. a = NoPacket => ~a.active
  BY DEF NoPacket
<1>7. late' = FALSE
  BY DEF HandleSlot
<1>8. \/ a.active /\ ~s.end /\ rx' = a /\ UNCHANGED <<tx, lastXfer, toNetwork>>
      \/ /\ a.active /\ done /\ rx' = NoPacket
         /\ lastXfer' = a.xfer /\ ProcessComplete(a.parts, a.xfer)
      \/ /\ ~a.active \/ (s.end /\ ~done)
         /\ rx' = NoPacket /\ Stage(ErrorReply, lastXfer) /\ UNCHANGED <<lastXfer, toNetwork>>
  BY DEF HandleSlot
<1> SUFFICES
      \/ /\ k + 1 < p.size /\ rx' = Partial(p, p.n, k + 1) /\ late' = FALSE
         /\ UNCHANGED <<tx, lastXfer, toNetwork>>
      \/ /\ k + 1 = p.size /\ rx' = NoPacket
         /\ lastXfer' = p.n /\ ProcessComplete(Whole(p), p.n)
      \/ /\ ~clean /\ rx' = NoPacket
         /\ Stage(ErrorReply, lastXfer) /\ UNCHANGED <<lastXfer, toNetwork>>
  OBVIOUS
<1> HIDE DEF p, k, s, a, clean
<1>9. CASE a.active /\ ~s.end /\ rx' = a /\ UNCHANGED <<tx, lastXfer, toNetwork>>
  <2>1. a = Partial(p, p.n, k + 1)
    BY <1>3, <1>6, <1>9
  <2>2. k + 1 < p.size
    BY <1>1, <1>2, <1>9
  <2> QED
    BY <1>7, <1>9, <2>1, <2>2
<1>10. CASE /\ a.active /\ done /\ rx' = NoPacket
            /\ lastXfer' = a.xfer /\ ProcessComplete(a.parts, a.xfer)
  <2>1. a = Partial(p, p.n, k + 1) /\ k + 1 = p.size
    BY <1>2, <1>3, <1>6, <1>10
  <2>2. a.parts = Whole(p) /\ a.xfer = p.n
    BY <1>4, <1>5, <2>1
  <2> QED
    BY <1>10, <2>1, <2>2
<1>11. CASE /\ ~a.active \/ (s.end /\ ~done)
            /\ rx' = NoPacket /\ Stage(ErrorReply, lastXfer) /\ UNCHANGED <<lastXfer, toNetwork>>
  <2>1. ~clean
    <3>1. SUFFICES ASSUME clean PROVE FALSE
      OBVIOUS
    <3>2. a = Partial(p, p.n, k + 1)
      BY <1>3, <3>1
    <3>3. s.end /\ ~done
      BY <1>4, <1>11, <3>2
    <3>4. Len(a.parts) = k + 1 /\ a.total = p.size
      BY <1>4, <1>5, <3>2
    <3> QED
      BY <1>2, <3>3, <3>4
  <2> QED
    BY <1>11, <2>1
<1> QED
  BY <1>8, <1>9, <1>10, <1>11

(* What that does to the packet being assembled and to the queue.          *)
LEMMA HandleSlotOK ==
  ASSUME RequestInv, writing # None, HandleSlot(NextSlot)
  PROVE  LET p == writing.p
             k == writing.next
             clean == writing.clean /\ p.size <= PayloadMax
         IN  /\ \/ rx' = NoPacket
                \/ rx' = Partial(p, p.n, k + 1) /\ k + 1 < p.size
             /\ toNetwork' \in Seq(Wholes)
             /\ clean /\ k + 1 < p.size => rx' = Partial(p, p.n, k + 1) /\ late' = FALSE
             /\ clean /\ k + 1 = p.size /\ p.class = "forward" =>
                  toNetwork' # <<>> /\ Last(toNetwork') = Whole(p)
<1> DEFINE p == writing.p  k == writing.next
           clean == writing.clean /\ p.size <= PayloadMax
<1>1. p \in Packets /\ k \in Nat /\ p.size \in Nat /\ toNetwork \in Seq(Wholes)
  BY DEF RequestInv, WritingOK, Packets, Transfers
<1>2. Whole(p) \in Wholes /\ Head(Whole(p)).of = p
  BY <1>1, WholeFacts
<1>3. Forward(Whole(p)) =>
        toNetwork' \in Seq(Wholes) /\ toNetwork' # <<>> /\ Last(toNetwork') = Whole(p)
  BY <1>1, <1>2, ForwardOK
<1>4. ProcessComplete(Whole(p), p.n) =>
        \/ p.class = "forward" /\ Forward(Whole(p))
        \/ p.class # "forward" /\ toNetwork' = toNetwork
  BY <1>2 DEF ProcessComplete
<1>5. \/ k + 1 < p.size /\ rx' = Partial(p, p.n, k + 1) /\ late' = FALSE /\ toNetwork' = toNetwork
      \/ k + 1 = p.size /\ rx' = NoPacket /\ ProcessComplete(Whole(p), p.n)
      \/ ~clean /\ rx' = NoPacket /\ toNetwork' = toNetwork
  BY HandleSlotCases
<1> SUFFICES
      /\ rx' = NoPacket \/ (rx' = Partial(p, p.n, k + 1) /\ k + 1 < p.size)
      /\ toNetwork' \in Seq(Wholes)
      /\ clean /\ k + 1 < p.size => rx' = Partial(p, p.n, k + 1) /\ late' = FALSE
      /\ clean /\ k + 1 = p.size /\ p.class = "forward" =>
           toNetwork' # <<>> /\ Last(toNetwork') = Whole(p)
  OBVIOUS
<1> HIDE DEF p, k, clean
<1> QED
  BY <1>1, <1>3, <1>4, <1>5

LEMMA RecordOK ==
  ASSUME NEW P, NEW Q, NEW C, NEW w \in [p : P, next : Q, clean : C], NEW n \in Q, NEW c \in C
  PROVE  [w EXCEPT !.next = n, !.clean = c] \in [p : P, next : Q, clean : C]
  OBVIOUS

(* The master goes on with its transfer or ends it.                        *)
LEMMA AdvancedOK ==
  ASSUME RequestInv, writing # None, NEW c \in BOOLEAN, writing' = Advanced(c),
         xfers' = xfers
  PROVE  /\ WritingOK'
         /\ writing' = None <=> writing.next + 1 = writing.p.size
         /\ writing' # None => /\ writing'.p = writing.p
                               /\ writing'.next = writing.next + 1
                               /\ writing'.clean = (writing.clean /\ c)
<1> DEFINE W == [p : Packets, next : Nat, clean : BOOLEAN]
           w == [writing EXCEPT !.next = @ + 1, !.clean = @ /\ c]
<1>1. /\ writing \in W /\ writing.next < writing.p.size /\ writing.p.n = xfers
      /\ \E q \in Requests : writing.p = Numbered(q, xfers)
      /\ writing.p.size \in Nat /\ writing.next \in Nat /\ writing.clean \in BOOLEAN
  BY DEF RequestInv, WritingOK, Packets, Transfers
<1>2. NextSlot.end = (writing.next + 1 = writing.p.size)
  BY DEF NextSlot, Slot
<1>3. CASE writing.next + 1 = writing.p.size
  BY <1>2, <1>3 DEF Advanced, WritingOK
<1>4. CASE writing.next + 1 # writing.p.size
  <2>1. writing' = w
    BY <1>2, <1>4 DEF Advanced
  <2>2. w.p = writing.p /\ w.next = writing.next + 1
    BY <1>1
  <2>3. w.clean = (writing.clean /\ c)
    BY <1>1
  <2>4. w \in W
    <3>1. PICK n \in Nat, b \in BOOLEAN : n = writing.next + 1 /\ b = (writing.clean /\ c)
      BY <1>1
    <3>2. [writing EXCEPT !.next = n, !.clean = b] \in W
      BY <1>1, RecordOK
    <3> QED
      BY <3>1, <3>2, Zenon
  <2>5. w # None
    BY <2>4, NoneFacts
  <2>6. writing.next + 1 < writing.p.size
    BY <1>1, <1>4
  <2> HIDE DEF w
  <2>7. WritingOK'
    BY <1>1, <2>1, <2>2, <2>4, <2>6 DEF WritingOK
  <2> QED
    BY <1>4, <2>1, <2>2, <2>3, <2>5, <2>7
<1> QED
  BY <1>3, <1>4
-----------------------------------------------------------------------------
(* RequestInv is inductive.                                                *)

LEMMA RequestInit == Init => RequestInv
<1> SUFFICES ASSUME Init PROVE RequestInv
  OBVIOUS
<1> QED
  BY DEF Init, RequestInv, WritingOK, RxOK, CleanOK

LEMMA WriteSlotStep == RequestInv /\ WriteSlot => RequestInv'
<1> SUFFICES ASSUME RequestInv, WriteSlot PROVE RequestInv'
  OBVIOUS
<1>1. writing # None /\ writing' = Advanced(TRUE) /\ HandleSlot(NextSlot) /\ xfers' = xfers
  BY DEF WriteSlot
<1> DEFINE p == writing.p  k == writing.next
<1>2. /\ p \in Packets /\ k \in Nat /\ p.size \in Nat /\ k < p.size /\ p.n = xfers
      /\ xfers \in Nat
  BY <1>1 DEF RequestInv, WritingOK, Packets, Transfers
<1>3. /\ WritingOK'
      /\ writing' = None <=> k + 1 = p.size
      /\ writing' # None => /\ writing'.p = p /\ writing'.next = k + 1
                            /\ writing'.clean = (writing.clean /\ TRUE)
  BY <1>1, AdvancedOK
<1>4. /\ rx' = NoPacket \/ (rx' = Partial(p, p.n, k + 1) /\ k + 1 < p.size)
      /\ toNetwork' \in Seq(Wholes)
      /\ writing.clean /\ p.size <= PayloadMax /\ k + 1 < p.size =>
           rx' = Partial(p, p.n, k + 1) /\ late' = FALSE
  BY <1>1, HandleSlotOK
<1>5. RxOK'
  <2>1. CASE rx' = NoPacket
    BY <2>1 DEF RxOK
  <2>2. CASE rx' = Partial(p, p.n, k + 1) /\ k + 1 < p.size
    <3>1. k + 1 \in Nat /\ 0 < k + 1 /\ p.n <= xfers'
      BY <1>1, <1>2
    <3>2. writing' # None => p = writing'.p
      BY <1>3
    <3> QED
      BY <1>2, <2>2, <3>1, <3>2 DEF RxOK
  <2> QED
    BY <1>4, <2>1, <2>2
<1>6. CleanOK'
  <2>1. SUFFICES ASSUME writing' # None, writing'.clean, writing'.p.size <= PayloadMax
                 PROVE  rx' = Partial(writing'.p, writing'.p.n, writing'.next) /\ ~late'
    BY DEF CleanOK
  <2>2. writing.clean
    BY <1>3, <2>1, Zenon
  <2>3. writing'.p = p /\ writing'.next = k + 1 /\ k + 1 # p.size
    BY <1>3, <2>1, Zenon
  <2>4. p.size <= PayloadMax
    BY <2>1, <2>3
  <2>5. k + 1 < p.size
    BY <1>2, <2>3
  <2> QED
    BY <1>4, <2>2, <2>3, <2>4, <2>5
<1> QED
  BY <1>1, <1>2, <1>3, <1>4, <1>5, <1>6 DEF RequestInv

LEMMA RequestStep == RequestInv /\ [Next]_vars => RequestInv'
<1> SUFFICES ASSUME RequestInv, [Next]_vars PROVE RequestInv'
  OBVIOUS
<1>1. xfers \in Nat /\ WritingOK /\ RxOK /\ CleanOK /\ toNetwork \in Seq(Wholes)
  BY DEF RequestInv
<1>2. ASSUME NEW q \in Requests, BeginRequest(q) PROVE RequestInv'
  <2>1. /\ xfers' = xfers + 1 /\ xfers' \in Nat
        /\ writing' = [p |-> Numbered(q, xfers'), next |-> 0, clean |-> TRUE]
        /\ rx' = rx /\ toNetwork' = toNetwork
    BY <1>1, <1>2 DEF BeginRequest, pico
  <2>2. /\ Numbered(q, xfers') \in Packets /\ Numbered(q, xfers').n = xfers'
        /\ Numbered(q, xfers').size \in Nat \ {0}
    BY <2>1, RequestFacts DEF Packets, Transfers
  <2>3. /\ writing'.p = Numbered(q, xfers') /\ writing'.next = 0
        /\ writing' \in [p : Packets, next : Nat, clean : BOOLEAN]
    BY <2>1, <2>2
  <2>4. WritingOK'
    BY <2>1, <2>2, <2>3 DEF WritingOK
  <2>5. RxOK'
    <3>1. CASE rx = NoPacket
      BY <2>1, <3>1 DEF RxOK
    <3>2. ASSUME NEW p \in Packets, NEW k \in Nat,
                 rx = Partial(p, p.n, k), 0 < k, k < p.size, p.n <= xfers
          PROVE  RxOK'
      <4>1. p.n \in Nat
        BY DEF Packets, Transfers
      <4>2. p.n <= xfers' /\ p.n # writing'.p.n
        BY <1>1, <2>1, <2>2, <2>3, <3>2, <4>1
      <4> QED
        BY <2>1, <3>2, <4>2 DEF RxOK
    <3> QED
      BY <1>1, <3>1, <3>2 DEF RxOK
  <2>6. CleanOK'
    BY <2>3 DEF CleanOK
  <2> QED
    BY <1>1, <2>1, <2>4, <2>5, <2>6 DEF RequestInv
<1>3. ASSUME NEW q \in Requests, WriteV2(q) PROVE RequestInv'
  <2>1. /\ xfers' = xfers + 1 /\ xfers' \in Nat /\ writing = None /\ writing' = None
        /\ rx' = rx
    BY <1>1, <1>3 DEF WriteV2
  <2>2. Whole(Numbered(q, xfers')) \in Wholes
    BY <2>1, RequestFacts, WholeFacts
  <2>3. toNetwork' = toNetwork \/ Forward(Whole(Numbered(q, xfers')))
    BY <1>3 DEF WriteV2
  <2>4. toNetwork' \in Seq(Wholes)
    BY <1>1, <2>2, <2>3, ForwardOK
  <2>5. RxOK'
    <3>1. CASE rx = NoPacket
      BY <2>1, <3>1 DEF RxOK
    <3>2. ASSUME NEW p \in Packets, NEW k \in Nat,
                 rx = Partial(p, p.n, k), 0 < k, k < p.size, p.n <= xfers
          PROVE  RxOK'
      <4>1. p.n \in Nat
        BY DEF Packets, Transfers
      <4>2. p.n <= xfers'
        BY <1>1, <2>1, <3>2, <4>1
      <4> QED
        BY <2>1, <3>2, <4>2 DEF RxOK
    <3> QED
      BY <1>1, <3>1, <3>2 DEF RxOK
  <2> QED
    BY <2>1, <2>4, <2>5 DEF RequestInv, WritingOK, CleanOK
<1>4. CASE WriteSlot
  BY <1>4, WriteSlotStep
<1>5. CASE WriteSpoilt
  <2>1. /\ writing # None /\ writing' = Advanced(FALSE) /\ xfers' = xfers
        /\ toNetwork' = toNetwork
        /\ rx' = rx \/ rx' = NoPacket
    BY <1>5 DEF WriteSpoilt, HandleShort, Recover
  <2>2. /\ WritingOK'
        /\ writing' # None => writing'.p = writing.p /\ writing'.clean = (writing.clean /\ FALSE)
    BY <2>1, AdvancedOK
  <2>3. RxOK'
    BY <1>1, <2>1, <2>2 DEF RxOK
  <2>4. CleanOK'
    BY <2>2 DEF CleanOK
  <2> QED
    BY <1>1, <2>1, <2>2, <2>3, <2>4 DEF RequestInv
<1>6. CASE AbandonRequest
  BY <1>1, <1>6 DEF AbandonRequest, pico, RequestInv, WritingOK, RxOK, CleanOK
<1>7. CASE GapTooLong
  <2>1. UNCHANGED <<rx, xfers, toNetwork>>
    BY <1>7 DEF GapTooLong
  <2>2. CASE writing = None
    <3>1. writing' = None
      BY <1>7, <2>2 DEF GapTooLong
    <3> QED
      BY <1>1, <2>1, <3>1 DEF RequestInv, WritingOK, RxOK, CleanOK
  <2>3. CASE writing # None
    <3>1. writing' = [writing EXCEPT !.clean = FALSE]
      BY <1>7, <2>3 DEF GapTooLong
    <3>2. /\ writing \in [p : Packets, next : Nat, clean : BOOLEAN]
          /\ writing.next < writing.p.size /\ writing.p.n = xfers
          /\ \E q \in Requests : writing.p = Numbered(q, xfers)
      BY <1>1, <2>3 DEF WritingOK
    <3>3. /\ writing'.p = writing.p /\ writing'.next = writing.next /\ writing'.clean = FALSE
          /\ writing' \in [p : Packets, next : Nat, clean : BOOLEAN]
      BY <3>1, <3>2
    <3> QED
      BY <1>1, <2>1, <2>3, <3>2, <3>3 DEF RequestInv, WritingOK, RxOK, CleanOK
  <2> QED
    BY <2>2, <2>3
<1>8. CASE SelectV2
  <2>1. /\ writing = None /\ writing' = None /\ xfers' = xfers /\ toNetwork' = toNetwork
        /\ rx' = NoPacket
    BY <1>8 DEF SelectV2
  <2> QED
    BY <1>1, <2>1 DEF RequestInv, WritingOK, RxOK, CleanOK
<1>9. CASE SessionTake
  <2>1. UNCHANGED <<rx, late, writing, xfers>> /\ toNetwork # <<>> /\ toNetwork' = Tail(toNetwork)
    BY <1>9 DEF SessionTake, pico, master
  <2>2. toNetwork' \in Seq(Wholes)
    BY <1>1, <2>1
  <2> QED
    BY <1>1, <2>1, <2>2 DEF RequestInv, WritingOK, RxOK, CleanOK
<1>10. ASSUME UNCHANGED <<rx, late, writing, xfers, toNetwork>> PROVE RequestInv'
  BY <1>1, <1>10 DEF RequestInv, WritingOK, RxOK, CleanOK
<1>11. CASE ReadSlot \/ ReadLost \/ PeekV2 \/ ReadBody \/ AbortBody
            \/ (\E size \in ReplySizes : SessionReply(size)) \/ UNCHANGED vars
  <2>1. UNCHANGED <<rx, late, writing, xfers, toNetwork>>
    BY <1>11 DEF ReadSlot, ReadLost, PeekV2, ReadBody, AbortBody, SessionReply, pico, master, vars
  <2> QED
    BY <1>10, <2>1
<1> QED
  BY <1>2, <1>3, <1>4, <1>5, <1>6, <1>7, <1>8, <1>9, <1>11 DEF Next

(* RequestsWhole: every packet queued for the session is one request, from *)
(* its first part to its last, whatever is lost on the bus.                *)
THEOREM NoTornRequests == Spec => []RequestsWhole
<1>1. RequestInv => RequestsWhole
  <2> SUFFICES ASSUME RequestInv, NEW i \in DOMAIN toNetwork PROVE WholePacket(toNetwork[i])
    BY DEF RequestsWhole
  <2>1. toNetwork[i] \in Wholes
    BY DEF RequestInv
  <2>2. PICK p \in Packets : toNetwork[i] = Whole(p)
    BY <2>1 DEF Wholes
  <2> QED
    BY <2>2, WholeFacts
<1> QED
  BY <1>1, RequestInit, RequestStep, PTL DEF Spec

(* A step other than a written slot keeps the request being written, starts *)
(* one or counts a fault.                                                  *)
LEMMA FaultsCount ==
  ASSUME faults \in Nat, [Next]_vars
  PROVE  /\ faults' \in Nat
         /\ WriteSlot \/ writing' = writing \/ writing = None \/ faults' = faults + 1
<1>1. CASE WriteSpoilt
  BY <1>1 DEF WriteSpoilt
<1>2. CASE AbandonRequest
  BY <1>2 DEF AbandonRequest
<1>3. CASE GapTooLong
  BY <1>3 DEF GapTooLong
<1>4. CASE ReadLost
  BY <1>4 DEF ReadLost
<1>5. CASE AbortBody
  BY <1>5 DEF AbortBody, master
<1>6. CASE WriteSlot
  BY <1>6 DEF WriteSlot
<1>7. CASE ReadSlot \/ SelectV2 \/ PeekV2 \/ ReadBody \/ SessionTake \/ UNCHANGED vars
            \/ \E size \in ReplySizes : SessionReply(size)
  BY <1>7 DEF ReadSlot, SelectV2, PeekV2, ReadBody, SessionTake, SessionReply, master, vars
<1>8. CASE \E q \in Requests : BeginRequest(q) \/ WriteV2(q)
  BY <1>8 DEF BeginRequest, WriteV2
<1> QED
  BY <1>1, <1>2, <1>3, <1>4, <1>5, <1>6, <1>7, <1>8 DEF Next

(* CleanWritesForwarded: a frame whose slots all arrived is queued by its  *)
(* last slot, whatever the task was left with before.                      *)
THEOREM CleanFramesQueued == Spec => CleanWritesForwarded
<1> DEFINE Queued ==
      (/\ writing # None /\ writing' = None /\ faults' = faults
       /\ writing.clean /\ writing.p.class = "forward" /\ writing.p.size <= PayloadMax)
      => toNetwork' # <<>> /\ Last(toNetwork') = Whole(writing.p)
       J == RequestInv /\ faults \in Nat
<1>1. J /\ [Next]_vars => [Queued]_vars
  <2> SUFFICES ASSUME RequestInv, faults \in Nat, Next,
                      writing # None, writing' = None, faults' = faults,
                      writing.clean, writing.p.class = "forward",
                      writing.p.size <= PayloadMax
               PROVE  toNetwork' # <<>> /\ Last(toNetwork') = Whole(writing.p)
    OBVIOUS
  <2>1. CASE WriteSlot
    <3>1. writing' = Advanced(TRUE) /\ HandleSlot(NextSlot) /\ xfers' = xfers
      BY <2>1 DEF WriteSlot
    <3>2. writing.next + 1 = writing.p.size
      BY <3>1, AdvancedOK
    <3> QED
      BY <3>1, <3>2, HandleSlotOK
  <2>2. WriteSlot
    BY FaultsCount
  <2> QED
    BY <2>1, <2>2
<1>2. Init => J
  BY RequestInit DEF Init
<1>3. J /\ [Next]_vars => J'
  BY RequestStep, FaultsCount
<1> QED
  BY <1>1, <1>2, <1>3, PTL DEF Spec, CleanWritesForwarded

-----------------------------------------------------------------------------
(* Replies and what is given out of them.                                  *)

LEMMA SizedFacts ==
  ASSUME NEW a \in Sized
  PROVE  /\ a # None /\ a \in Replies
         /\ a.size \in Nat /\ a.size > 0 /\ a.size <= PayloadMax
         /\ a.kind = "error" => a.size = 1
<1>1. a \in Replies
  BY DEF Sized
<1>2. a # None
  BY <1>1, NoneFacts
<1>3. a.size \in Nat
  BY <1>1 DEF Replies
<1>4. 0 < a.size /\ a.size <= PayloadMax /\ (a.kind = "error" => a.size = 1)
  BY DEF Sized
<1> QED
  BY <1>1, <1>2, <1>3, <1>4

LEMMA GivingFacts ==
  ASSUME NEW a \in Sized, NEW x, NEW j
  PROVE  LET g == Giving(a, x, j)
         IN  /\ g.reply = a /\ g.xfer = x /\ g.total = a.size /\ g.next = j
             /\ g # NoResponse /\ g.reply # None
<1>1. a # None
  BY SizedFacts
<1>2. LET g == Giving(a, x, j)
      IN  g.reply = a /\ g.xfer = x /\ g.total = a.size /\ g.next = j
  BY DEF Giving
<1>3. NoResponse.reply = None
  BY DEF NoResponse
<1> QED
  BY <1>1, <1>2, <1>3

LEMMA PartialFacts ==
  ASSUME NEW a, NEW x, NEW k \in Nat
  PROVE  LET r == Partial(a, x, k)
         IN  /\ r.active /\ r.kind = a.kind /\ r.xfer = x /\ r.total = a.size
             /\ r.parts = Prefix(a, k) /\ Len(r.parts) = k
<1>1. Len(Prefix(a, k)) = k
  BY PrefixFacts
<1> QED
  BY <1>1 DEF Partial

(* A response that was begun is data or an answer: an error has one slot.  *)
LEMMA BegunKind ==
  ASSUME NEW a \in Sized, NEW k \in Nat, 0 < k, k < a.size
  PROVE  a.kind # "error"
BY SizedFacts

LEMMA StageGives ==
  ASSUME NEW r \in Sized, NEW x, Stage(r, x)
  PROVE  tx' = Giving(r, x, 0)
BY SizedFacts, I2cAssumption DEF Stage, Giving

LEMMA ErrorSized == ErrorReply \in Sized /\ ErrorReply.kind = "error"
BY I2cAssumption DEF ErrorReply, Reply, Sized, Replies, Kinds

LEMMA AnswerSized ==
  ASSUME RepliesFit, NEW q \in Requests, NEW n \in Nat
  PROVE  LocalReply(Numbered(q, n)) \in Sized /\ LocalReply(Numbered(q, n)).kind = "command"
<1>1. q.answer \in Nat /\ q.answer > 0 /\ q.answer <= PayloadMax
  BY I2cAssumption DEF RepliesFit
<1>2. Numbered(q, n).answer = q.answer
  BY DEF Numbered
<1> QED
  BY <1>1, <1>2 DEF LocalReply, Reply, Sized, Replies, Kinds

LEMMA FrameSized ==
  ASSUME RepliesFit, NEW size \in ReplySizes, NEW n \in Nat
  PROVE  Reply("data", n, size) \in NetFrames
BY I2cAssumption DEF RepliesFit, Reply, Sized, Replies, NetFrames, Kinds

(* What a read gives out and what is left of it.                           *)
LEMMA CurrentOK ==
  ASSUME Sendable(tx), toMaster \in Seq(NetFrames), lastXfer \in Nat, GiveSlot
  PROVE  /\ Sendable(Current)
         /\ toMaster' \in Seq(NetFrames)
         /\ ~Popped => Current = tx /\ toMaster' = toMaster
         /\ Popped => /\ tx = NoResponse /\ Current.next = 0
                      /\ Current.reply \in NetFrames
                      /\ toMaster = <<Current.reply>> \o toMaster'
         /\ Current = NoResponse => tx = NoResponse /\ tx' = NoResponse /\ toMaster' = toMaster
<1>1. CASE ~Popped
  <2>1. Current = tx /\ toMaster' = toMaster
    BY <1>1 DEF Current, GiveSlot
  <2>2. Current = NoResponse => tx' = NoResponse
    BY DEF GiveSlot, NoResponse
  <2> QED
    BY <1>1, <2>1, <2>2
<1>2. CASE Popped
  <2>1. toMaster # <<>> /\ tx.reply = None /\ toMaster' = Tail(toMaster)
    BY <1>2 DEF Popped, GiveSlot
  <2>2. Head(toMaster) \in NetFrames /\ Tail(toMaster) \in Seq(NetFrames)
        /\ toMaster = <<Head(toMaster)>> \o Tail(toMaster)
    BY <2>1
  <2>3. PICK a \in NetFrames : a = Head(toMaster)
    BY <2>2
  <2>4. a \in Sized /\ a.kind = "data"
    BY DEF NetFrames
  <2>5. Current = Giving(a, lastXfer, 0)
    BY <1>2, <2>3, <2>4, SizedFacts, I2cAssumption DEF Current, Giving
  <2>6. tx = NoResponse
    BY <2>1, GivingFacts DEF Sendable
  <2>7. Sendable(Current)
    <3>1. 0 < a.size /\ lastXfer \in Nat
      BY <2>4, SizedFacts
    <3> QED
      BY <2>4, <2>5, <3>1 DEF Sendable
  <2>8. Current.reply = a /\ Current.next = 0 /\ Current # NoResponse
    BY <2>4, <2>5, GivingFacts
  <2> QED
    BY <1>2, <2>1, <2>2, <2>3, <2>6, <2>7, <2>8
<1> QED
  BY <1>1, <1>2

LEMMA GivenOK ==
  ASSUME GiveSlot, NEW a \in Sized, NEW x \in Nat, NEW j \in Nat, Current = Giving(a, x, j),
         j < a.size
  PROVE  /\ j + 1 = a.size => tx' = NoResponse
         /\ j + 1 < a.size => tx' = Giving(a, x, j + 1)
<1>1. Current.reply = a /\ Current.next = j /\ Current.total = a.size /\ a # None
  BY GivingFacts
<1>2. a.size \in Nat
  BY SizedFacts
<1>3. CASE j + 1 = a.size
  BY <1>1, <1>2, <1>3 DEF GiveSlot
<1>4. CASE j + 1 < a.size
  <2>1. tx' = [Giving(a, x, j) EXCEPT !.next = @ + 1]
    BY <1>1, <1>2, <1>4 DEF GiveSlot
  <2> QED
    BY <1>4, <2>1 DEF Giving
<1> QED
  BY <1>2, <1>3, <1>4

(* A slot the master reads begins a response, continues the one it has or  *)
(* makes it give that up.                                                  *)
LEMMA TakeSlotOK ==
  ASSUME Reads(Current), lost \in Nat, lost <= 1, NEW a \in Sized, NEW x \in Nat, NEW j \in Nat,
         Current = Giving(a, x, j), j < a.size, TakeSlot(Slot(a, x, a.size, j))
  PROVE  /\ \/ reading' = NoPacket /\ UNCHANGED <<received, frames>>
            \/ j + 1 < a.size /\ reading' = Partial(a, x, j + 1) /\ UNCHANGED <<received, frames>>
            \/ j + 1 = a.size /\ reading' = NoPacket /\ Take(Whole(a))
         /\ j = 0 \/ reading = Partial(a, x, j) =>
              \/ j + 1 < a.size /\ reading' = Partial(a, x, j + 1) /\ UNCHANGED <<received, frames>>
              \/ j + 1 = a.size /\ reading' = NoPacket /\ Take(Whole(a))
<1> DEFINE s == Slot(a, x, a.size, j)
           fits == reading.active /\ s.kind = reading.kind /\ s.xfer = reading.xfer
                   /\ s.offset = Len(reading.parts)
           p == IF s.start THEN Started(s) ELSE Extended(reading, s)
           whole == s.end /\ Len(p.parts) = p.total
<1>1. /\ s.kind = a.kind /\ s.xfer = x /\ s.offset = j /\ s.total = a.size
      /\ s.data = Part(a, j + 1)
      /\ s.start <=> j = 0
      /\ s.end <=> j + 1 = a.size
  BY DEF Slot
<1>2. a.size \in Nat /\ a.kind \in Kinds /\ j + 1 \in Nat
  BY SizedFacts DEF Replies
<1>3. Len(Prefix(a, j + 1)) = j + 1 /\ Append(Prefix(a, j), Part(a, j + 1)) = Prefix(a, j + 1)
  BY <1>2, PrefixFacts
<1>4. Whole(a) = Prefix(a, a.size)
  BY <1>2, PrefixFacts
<1>5. reading = Partial(a, x, j) => fits
  <2>1. LET r == Partial(a, x, j)
        IN  r.active /\ r.kind = a.kind /\ r.xfer = x /\ Len(r.parts) = j
    BY PartialFacts
  <2> QED
    BY <1>1, <2>1
<1>6. fits /\ j # 0 => reading = Partial(a, x, j)
  <2>1. SUFFICES ASSUME fits, j # 0 PROVE reading = Partial(a, x, j)
    OBVIOUS
  <2>2. reading # NoPacket
    BY <2>1 DEF NoPacket
  <2>3. PICK b \in Sized, y \in Nat, k \in Nat :
          /\ reading = Partial(b, y, k)
          /\ \/ Current = Giving(b, y, k)
             \/ Foreign(Current, b.kind, y)
             \/ Current.next = 0
             \/ \E i \in Nat : i > k /\ Current = Giving(b, y, i)
    BY <2>2 DEF Reads
  <2>4. reading.kind = b.kind /\ reading.xfer = y /\ Len(reading.parts) = k
    BY <2>3, PartialFacts
  <2>5. b.kind = a.kind /\ y = x /\ k = j
    BY <1>1, <2>1, <2>4
  <2>6. Current.reply = a /\ Current.xfer = x /\ Current.next = j
    BY GivingFacts
  <2>7. ~Foreign(Current, b.kind, y) /\ Current.next # 0
    BY <2>1, <2>5, <2>6 DEF Foreign
  <2>8. ASSUME NEW i \in Nat, Current = Giving(b, y, i) PROVE i = j /\ b = a
    BY <2>6, <2>8, GivingFacts
  <2> QED
    BY <2>3, <2>5, <2>7, <2>8
<1>7. s.start \/ fits => p = Partial(a, x, j + 1)
  <2>1. CASE j = 0
    <3>1. Prefix(a, 1) = <<s.data>>
      BY <1>1, <2>1, PrefixFacts
    <3>2. p = Started(s)
      BY <1>1, <2>1
    <3>3. j + 1 = 1
      BY <2>1
    <3> HIDE DEF s, p
    <3>4. p = Partial(a, x, 1)
      BY <1>1, <3>1, <3>2 DEF Started, Partial
    <3> QED
      BY <3>3, <3>4
  <2>2. CASE j # 0 /\ fits
    <3>1. LET r == Partial(a, x, j)
          IN  r.kind = a.kind /\ r.xfer = x /\ r.total = a.size /\ r.parts = Prefix(a, j)
      BY PartialFacts
    <3>2. p = Extended(Partial(a, x, j), s)
      BY <1>1, <1>6, <2>2
    <3> HIDE DEF s, p
    <3> QED
      BY <1>1, <1>3, <3>1, <3>2 DEF Extended, Partial
  <2> QED
    BY <1>1, <2>1, <2>2
<1>8. s.start \/ fits => p.parts = Prefix(a, j + 1) /\ Len(p.parts) = j + 1 /\ p.total = a.size
  BY <1>2, <1>7, PartialFacts
<1>9. \/ (s.start \/ fits) /\ ~s.end /\ reading' = p /\ UNCHANGED <<received, frames>>
      \/ (s.start \/ fits) /\ s.end /\ whole /\ reading' = NoPacket /\ Take(p.parts)
      \/ (s.start \/ fits) /\ s.end /\ ~whole
      \/ ~(s.start \/ fits) /\ reading' = NoPacket /\ UNCHANGED <<received, frames>>
  BY DEF TakeSlot
<1> HIDE DEF s, fits, p
<1>10. ~((s.start \/ fits) /\ s.end /\ ~whole)
  BY <1>1, <1>8
<1>11. (s.start \/ fits) /\ ~s.end /\ reading' = p /\ UNCHANGED <<received, frames>> =>
         j + 1 < a.size /\ reading' = Partial(a, x, j + 1) /\ UNCHANGED <<received, frames>>
  BY <1>1, <1>2, <1>7
<1>12. (s.start \/ fits) /\ s.end /\ whole /\ reading' = NoPacket /\ Take(p.parts) =>
         j + 1 = a.size /\ reading' = NoPacket /\ Take(Whole(a))
  BY <1>1, <1>4, <1>8
<1>13. j = 0 \/ reading = Partial(a, x, j) => s.start \/ fits
  BY <1>1, <1>5
<1> QED
  BY <1>9, <1>10, <1>11, <1>12, <1>13

-----------------------------------------------------------------------------
(* ReplyInv is inductive.                                                  *)

LEMMA ReplyInit == Init => ReplyInv
<1> SUFFICES ASSUME Init PROVE ReplyInv
  OBVIOUS
<1> QED
  BY DEF Init, ReplyInv, Sendable, Reads

LEMMA PastKept ==
  ASSUME RequestInv, [Next]_vars, NEW x \in Nat, Past(x)
  PROVE  Past(x)'
<1>1. xfers \in Nat /\ x <= xfers /\ (writing # None => x < xfers)
  BY DEF RequestInv, Past
<1>2. ASSUME NEW q \in Requests, BeginRequest(q) \/ WriteV2(q) PROVE Past(x)'
  <2>1. xfers' = xfers + 1
    BY <1>2 DEF BeginRequest, WriteV2
  <2> QED
    BY <1>1, <2>1 DEF Past
<1>3. CASE WriteSlot \/ WriteSpoilt \/ AbandonRequest \/ GapTooLong
  <2>1. (writing # None /\ xfers' = xfers) \/ UNCHANGED <<writing, xfers>>
    BY <1>3 DEF WriteSlot, WriteSpoilt, AbandonRequest, GapTooLong
  <2> QED
    BY <1>1, <2>1 DEF Past
<1>4. CASE ReadSlot \/ ReadLost \/ SelectV2 \/ PeekV2 \/ ReadBody \/ AbortBody \/ SessionTake
           \/ (\E size \in ReplySizes : SessionReply(size)) \/ UNCHANGED vars
  <2>1. UNCHANGED <<writing, xfers>>
    BY <1>4 DEF ReadSlot, ReadLost, SelectV2, PeekV2, ReadBody, AbortBody, SessionTake,
       SessionReply, master, vars
  <2> QED
    BY <1>1, <2>1 DEF Past
<1> QED
  BY <1>2, <1>3, <1>4 DEF Next

(* A step that leaves the staged response alone.                           *)
LEMMA Untouched ==
  ASSUME RequestInv, [Next]_vars, Sendable(tx), tx' = tx, lost' = lost,
         reading' = reading \/ reading' = NoPacket
  PROVE  Sendable(tx)' /\ (Reads(tx) => Reads(tx)')
<1>1. Sendable(tx)'
  BY PastKept DEF Sendable
<1>2. ASSUME Reads(tx) PROVE Reads(tx)'
  <2>1. CASE reading' = NoPacket
    BY <2>1 DEF Reads
  <2>2. CASE reading' = reading
    BY <1>2, <2>2, PastKept DEF Reads, Foreign
  <2> QED
    BY <2>1, <2>2
<1> QED
  BY <1>1, <1>2

(* A step that replaces it by an error or by the answer to the transfer    *)
(* being written, which is newer than any that was given.                  *)
LEMMA Replaced ==
  ASSUME RequestInv, [Next]_vars, lost \in Nat, lost' = lost, reading' = reading,
         NEW r \in Sized, NEW x \in Nat, tx' = Giving(r, x, 0),
         \/ r.kind = "error"
         \/ r.kind = "command" /\ x = xfers /\ writing # None /\ Past(x)'
  PROVE  Sendable(tx)' /\ (lost <= 1 /\ Reads(tx) => Reads(tx)')
<1>1. /\ tx'.reply = r /\ tx'.xfer = x /\ tx'.next = 0 /\ r # None
      /\ 0 < r.size
  BY GivingFacts, SizedFacts
<1>2. Sendable(tx)'
  BY <1>1 DEF Sendable
<1>3. ASSUME Reads(tx), reading # NoPacket, lost <= 1 PROVE Reads(tx)'
  <2>1. PICK a \in Sized, y \in Nat, k \in Nat :
          /\ reading = Partial(a, y, k) /\ 0 < k /\ k < a.size
          /\ a.kind = "command" => Past(y)
    BY <1>3 DEF Reads
  <2>2. a.kind = "command" => Past(y)'
    BY <2>1, PastKept
  <2>3. Foreign(tx, a.kind, y)'
    <3>1. CASE r.kind = "error"
      BY <1>1, <2>1, <3>1, BegunKind DEF Foreign
    <3>2. CASE r.kind = "command" /\ x = xfers /\ writing # None
      <4>1. CASE a.kind = "command"
        <5>1. y < xfers /\ xfers \in Nat
          BY <2>1, <3>2, <4>1 DEF Past, RequestInv
        <5>2. y # x
          BY <3>2, <5>1
        <5> QED
          BY <1>1, <5>2 DEF Foreign
      <4>2. CASE a.kind # "command"
        BY <1>1, <3>2, <4>2 DEF Foreign
      <4> QED
        BY <4>1, <4>2
    <3> QED
      BY <3>1, <3>2
  <2>4. lost' = 0 \/ lost' = 1
    BY <1>3
  <2> QED
    BY <1>1, <2>1, <2>2, <2>3, <2>4 DEF Reads
<1>4. reading = NoPacket => Reads(tx)'
  BY DEF Reads
<1> QED
  BY <1>2, <1>3, <1>4

(* What a written slot stages.                                             *)
LEMMA WriteSlotStages ==
  ASSUME RepliesFit, RequestInv, lastXfer \in Nat, WriteSlot
  PROVE  /\ lastXfer' \in Nat
         /\ \/ tx' = tx
            \/ tx' = Giving(ErrorReply, lastXfer, 0)
            \/ tx' = Giving(ErrorReply, xfers, 0)
            \/ /\ writing' = None
               /\ \E r \in Sized : r.kind = "command" /\ tx' = Giving(r, xfers, 0)
         /\ \/ tx' = tx
            \/ ~writing.clean
            \/ ~(writing.p.size <= PayloadMax)
            \/ NextSlot.end /\ writing.p.class # "forward"
<1>1. /\ writing # None /\ HandleSlot(NextSlot) /\ writing' = Advanced(TRUE) /\ xfers' = xfers
  BY DEF WriteSlot
<1> DEFINE p == writing.p  k == writing.next
<1>2. /\ p \in Packets /\ p.n = xfers /\ xfers \in Nat /\ p.size \in Nat
      /\ \E q \in Requests : p = Numbered(q, xfers)
  BY <1>1 DEF RequestInv, WritingOK, Packets, Transfers
<1>3. NextSlot.end <=> k + 1 = p.size
  BY DEF NextSlot, Slot
<1>4. k + 1 = p.size => writing' = None
  BY <1>1, AdvancedOK
<1>5. \/ UNCHANGED <<tx, lastXfer>>
      \/ k + 1 = p.size /\ lastXfer' = p.n /\ ProcessComplete(Whole(p), p.n)
      \/ /\ ~(writing.clean /\ p.size <= PayloadMax)
         /\ Stage(ErrorReply, lastXfer) /\ lastXfer' = lastXfer
  BY <1>1, HandleSlotCases
<1>6. Head(Whole(p)).of = p
  BY <1>2, WholeFacts
<1>7. LocalReply(p) \in Sized /\ LocalReply(p).kind = "command"
  BY <1>2, AnswerSized
<1>8. ErrorReply \in Sized
  BY ErrorSized
<1>9. CASE UNCHANGED <<tx, lastXfer>>
  BY <1>9
<1>10. CASE k + 1 = p.size /\ lastXfer' = p.n /\ ProcessComplete(Whole(p), p.n)
  <2>1. \/ p.class = "local" /\ Stage(LocalReply(p), xfers)
        \/ tx' = tx
        \/ p.class = "unknown" /\ Stage(ErrorReply, xfers)
    BY <1>2, <1>6, <1>10 DEF ProcessComplete
  <2>2. CASE tx' = tx
    BY <1>2, <1>10, <2>2
  <2>3. CASE p.class = "local" /\ Stage(LocalReply(p), xfers)
    <3>1. tx' = Giving(LocalReply(p), xfers, 0)
      BY <1>7, <2>3, StageGives
    <3> QED
      BY <1>2, <1>3, <1>4, <1>7, <1>10, <2>3, <3>1
  <2>4. CASE p.class = "unknown" /\ Stage(ErrorReply, xfers)
    <3>1. tx' = Giving(ErrorReply, xfers, 0)
      BY <1>8, <2>4, StageGives
    <3> QED
      BY <1>2, <1>3, <1>10, <2>4, <3>1
  <2> QED
    BY <2>1, <2>2, <2>3, <2>4
<1>11. CASE /\ ~(writing.clean /\ p.size <= PayloadMax)
            /\ Stage(ErrorReply, lastXfer) /\ lastXfer' = lastXfer
  <2>1. tx' = Giving(ErrorReply, lastXfer, 0)
    BY <1>8, <1>11, StageGives
  <2> QED
    BY <1>11, <2>1
<1> QED
  BY <1>5, <1>9, <1>10, <1>11

(* What the master has is the beginning of the response a read gives out,  *)
(* too.                                                                    *)
LEMMA CurrentReads ==
  ASSUME Sendable(tx), toMaster \in Seq(NetFrames), lastXfer \in Nat, GiveSlot,
         Reads(tx), lost \in Nat
  PROVE  Reads(Current)
<1>1. CASE ~Popped
  BY <1>1, CurrentOK
<1>2. CASE Popped
  <2>1. tx = NoResponse /\ Current.next = 0
    BY <1>2, CurrentOK
  <2>2. CASE reading = NoPacket
    BY <2>2 DEF Reads
  <2>3. CASE reading # NoPacket
    <3>1. PICK a \in Sized, x \in Nat, k \in Nat :
            /\ reading = Partial(a, x, k) /\ 0 < k /\ k < a.size
            /\ a.kind = "command" => Past(x)
            /\ \/ tx = Giving(a, x, k)
               \/ lost = 0 /\ Foreign(tx, a.kind, x)
               \/ lost = 1
      BY <2>3 DEF Reads
    <3>2. tx # Giving(a, x, k)
      BY <2>1, GivingFacts
    <3>3. ~Foreign(tx, a.kind, x)
      BY <2>1 DEF Foreign, NoResponse
    <3> QED
      BY <2>1, <3>1, <3>2, <3>3 DEF Reads
  <2> QED
    BY <2>2, <2>3
<1> QED
  BY <1>1, <1>2

(* What is left after a slot is given out can still be sent.               *)
LEMMA ReadSends ==
  ASSUME RequestInv, ReplyInv, ReadSlot
  PROVE  Sendable(tx)'
<1>1. /\ GiveSlot /\ Sendable(tx) /\ toMaster \in Seq(NetFrames) /\ lastXfer \in Nat
      /\ UNCHANGED <<writing, xfers>>
  BY DEF ReadSlot, ReplyInv
<1>2. CASE Current = NoResponse
  BY <1>1, <1>2, CurrentOK DEF Sendable
<1>3. CASE Current # NoResponse
  <2>1. PICK a \in Sized, x \in Nat, j \in Nat :
          /\ Current = Giving(a, x, j) /\ j < a.size
          /\ a.kind = "command" => Past(x)
    BY <1>1, <1>3, CurrentOK DEF Sendable
  <2>2. /\ j + 1 = a.size => tx' = NoResponse
        /\ j + 1 < a.size => tx' = Giving(a, x, j + 1)
    BY <1>1, <2>1, GivenOK
  <2>3. a.size \in Nat /\ (j + 1 = a.size \/ j + 1 < a.size) /\ j + 1 \in Nat
    BY <2>1, SizedFacts
  <2>4. a.kind = "command" => Past(x)'
    BY <1>1, <2>1 DEF Past
  <2> QED
    BY <2>2, <2>3, <2>4 DEF Sendable
<1> QED
  BY <1>2, <1>3

(* One slot is given out and read.                                         *)
LEMMA ReadSlotReads ==
  ASSUME RequestInv, ReplyInv, ReadSlot, lost <= 1
  PROVE  Reads(tx)' /\ received' \subseteq {Whole(a) : a \in Sized}
<1>1. /\ GiveSlot /\ Sendable(tx) /\ toMaster \in Seq(NetFrames) /\ lastXfer \in Nat
      /\ lost \in Nat /\ lost' = lost /\ UNCHANGED <<writing, xfers>>
      /\ Reads(tx) /\ received \subseteq {Whole(a) : a \in Sized}
  BY DEF ReadSlot, ReplyInv
<1>2. CASE Current = NoResponse
  <2>1. UNCHANGED <<reading, received>>
    BY <1>2 DEF ReadSlot, NoResponse
  <2>2. tx' = tx
    BY <1>1, <1>2, CurrentOK
  <2>3. [Next]_vars
    BY DEF Next
  <2> QED
    BY <1>1, <2>1, <2>2, <2>3, Untouched
<1>3. CASE Current # NoResponse
  <2>1. Sendable(Current) /\ Reads(Current)
    BY <1>1, CurrentOK, CurrentReads
  <2>2. PICK a \in Sized, x \in Nat, j \in Nat :
          /\ Current = Giving(a, x, j) /\ j < a.size
          /\ a.kind = "command" => Past(x)
    BY <1>3, <2>1 DEF Sendable
  <2>3. TakeSlot(Slot(a, x, a.size, j))
    <3>1. /\ Current.reply = a /\ Current.xfer = x /\ Current.total = a.size
          /\ Current.next = j /\ Current.reply # None
      BY <2>2, GivingFacts
    <3> QED
      BY <3>1 DEF ReadSlot
  <2>4. /\ \/ reading' = NoPacket /\ received' = received
           \/ j + 1 < a.size /\ reading' = Partial(a, x, j + 1) /\ received' = received
           \/ j + 1 = a.size /\ reading' = NoPacket /\ Take(Whole(a))
    BY <1>1, <2>1, <2>2, <2>3, TakeSlotOK
  <2>5. /\ j + 1 = a.size => tx' = NoResponse
        /\ j + 1 < a.size => tx' = Giving(a, x, j + 1)
    BY <1>1, <2>2, GivenOK
  <2>6. a.size \in Nat /\ (j + 1 = a.size \/ j + 1 < a.size) /\ j + 1 \in Nat /\ 0 < j + 1
    BY <2>2, SizedFacts
  <2>7. a.kind = "command" => Past(x)'
    BY <1>1, <2>2 DEF Past
  <2>8. Reads(tx)'
    BY <2>4, <2>5, <2>6, <2>7 DEF Reads
  <2>9. received' \subseteq {Whole(b) : b \in Sized}
    BY <1>1, <2>4 DEF Take
  <2> QED
    BY <2>8, <2>9
<1> QED
  BY <1>2, <1>3

(* One slot is given out and lost.                                         *)
LEMMA ReadLostReads ==
  ASSUME RequestInv, ReplyInv, ReadLost
  PROVE  /\ lost' \in Nat
         /\ Sendable(tx)'
         /\ lost' <= 1 => Reads(tx)' /\ received' \subseteq {Whole(a) : a \in Sized}
<1>1. /\ GiveSlot /\ Sendable(tx) /\ toMaster \in Seq(NetFrames) /\ lastXfer \in Nat
      /\ lost \in Nat /\ UNCHANGED <<writing, xfers, received>>
      /\ reading' = reading \/ reading' = NoPacket
      /\ lost <= 1 => Reads(tx) /\ received \subseteq {Whole(a) : a \in Sized}
  BY DEF ReadLost, ReplyInv
<1>2. CASE Current = NoResponse
  <2>1. lost' = lost
    BY <1>2 DEF ReadLost, NoResponse
  <2>2. tx' = tx
    BY <1>1, <1>2, CurrentOK
  <2>3. [Next]_vars
    BY DEF Next
  <2> QED
    BY <1>1, <2>1, <2>2, <2>3, Untouched
<1>3. CASE Current # NoResponse
  <2>1. Sendable(Current)
    BY <1>1, CurrentOK
  <2>2. PICK a \in Sized, x \in Nat, j \in Nat :
          /\ Current = Giving(a, x, j) /\ j < a.size
          /\ a.kind = "command" => Past(x)
    BY <1>3, <2>1 DEF Sendable
  <2>3. Current.reply = a /\ Current.xfer = x /\ Current.next = j /\ a # None
    BY <2>2, GivingFacts
  <2>4. lost' = lost + 1
    BY <2>3 DEF ReadLost
  <2>5. /\ j + 1 = a.size => tx' = NoResponse
        /\ j + 1 < a.size => tx' = Giving(a, x, j + 1)
    BY <1>1, <2>2, GivenOK
  <2>6. a.size \in Nat /\ (j + 1 = a.size \/ j + 1 < a.size) /\ j + 1 \in Nat
    BY <2>2, SizedFacts
  <2>7. a.kind = "command" => Past(x)'
    BY <1>1, <2>2 DEF Past
  <2>8. Sendable(tx)'
    BY <2>5, <2>6, <2>7 DEF Sendable
  <2>9. ASSUME lost' <= 1, reading' # NoPacket PROVE Reads(tx)'
    <3>1. lost = 0 /\ lost' = 1 /\ reading' = reading
      BY <1>1, <2>4, <2>9
    <3>2. Reads(Current)
      BY <1>1, <3>1, CurrentReads
    <3>3. PICK b \in Sized, y \in Nat, k \in Nat :
            /\ reading = Partial(b, y, k) /\ 0 < k /\ k < b.size
            /\ b.kind = "command" => Past(y)
            /\ Current = Giving(b, y, k) \/ Foreign(Current, b.kind, y)
      BY <2>9, <3>1, <3>2 DEF Reads
    <3>4. b.kind = "command" => Past(y)'
      BY <1>1, <3>3 DEF Past
    <3>5. \/ tx'.next = 0
          \/ Foreign(tx', b.kind, y)
          \/ \E i \in Nat : i > k /\ tx' = Giving(b, y, i)
      <4>1. CASE j + 1 = a.size
        BY <2>5, <4>1 DEF NoResponse
      <4>2. CASE j + 1 < a.size /\ Current = Giving(b, y, k)
        <5>1. b = a /\ y = x /\ k = j
          BY <2>3, <4>2, GivingFacts
        <5>2. j + 1 > k
          BY <5>1
        <5> QED
          BY <2>5, <2>6, <4>2, <5>1, <5>2
      <4>3. CASE j + 1 < a.size /\ Foreign(Current, b.kind, y)
        <5>1. a.kind # b.kind \/ x # y
          BY <2>3, <4>3 DEF Foreign
        <5>2. tx'.reply = a /\ tx'.xfer = x
          BY <2>5, <4>3, GivingFacts
        <5> QED
          BY <2>3, <5>1, <5>2 DEF Foreign
      <4> QED
        BY <2>6, <3>3, <4>1, <4>2, <4>3
    <3> QED
      BY <3>1, <3>3, <3>4, <3>5 DEF Reads, Foreign
  <2>10. reading' = NoPacket => Reads(tx)'
    BY DEF Reads
  <2>11. lost' \in Nat /\ (lost' <= 1 => lost <= 1)
    BY <1>1, <2>4
  <2> QED
    BY <1>1, <2>8, <2>9, <2>10, <2>11
<1> QED
  BY <1>2, <1>3

(* What a version 2 read leaves in the mailbox and in the queue.           *)
LEMMA FillMailboxOK ==
  ASSUME mailbox = None \/ mailbox \in Sized, toMaster \in Seq(NetFrames), FillMailbox
  PROVE  /\ toMaster' \in Seq(NetFrames)
         /\ mailbox' = None \/ mailbox' \in Sized
         /\ \/ UNCHANGED <<mailbox, toMaster>>
            \/ /\ mailbox = None /\ mailbox' \in NetFrames
               /\ toMaster = <<mailbox'>> \o toMaster'
<1>1. CASE mailbox = None /\ toMaster # <<>>
  <2>1. Head(toMaster) \in NetFrames /\ Tail(toMaster) \in Seq(NetFrames)
        /\ toMaster = <<Head(toMaster)>> \o Tail(toMaster)
    BY <1>1
  <2>2. PICK a \in NetFrames : a = Head(toMaster)
    BY <2>1
  <2>3. a \in Sized /\ a.size <= PayloadMax
    BY SizedFacts DEF NetFrames
  <2>4. mailbox' = a /\ toMaster' = Tail(toMaster)
    BY <1>1, <2>2, <2>3 DEF FillMailbox, StageMailbox
  <2> QED
    BY <1>1, <2>1, <2>2, <2>3, <2>4
<1>2. CASE ~(mailbox = None /\ toMaster # <<>>)
  BY <1>2 DEF FillMailbox
<1> QED
  BY <1>1, <1>2

LEMMA WriteV2Mailbox ==
  ASSUME RepliesFit, RequestInv, NEW q \in Requests, WriteV2(q),
         mailbox = None \/ mailbox \in Sized
  PROVE  \/ mailbox' = mailbox
         \/ mailbox = None /\ mailbox' \in Sized /\ mailbox'.kind = "command"
<1>1. q.answer \in Nat /\ q.answer > 0 /\ q.answer <= PayloadMax
  BY I2cAssumption DEF RepliesFit
<1>2. LocalReply(q) \in Sized /\ LocalReply(q).kind = "command"
  BY <1>1 DEF LocalReply, Reply, Sized, Replies, Kinds
<1>3. mailbox' = mailbox \/ (mailbox = None /\ mailbox' = LocalReply(q))
  BY DEF WriteV2, StageMailbox
<1> QED
  BY <1>2, <1>3

LEMMA SessionReplyOK ==
  ASSUME RepliesFit, NEW size \in ReplySizes, SessionReply(size), toMaster \in Seq(NetFrames),
         delivered \in Seq(NetFrames)
  PROVE  \E f \in NetFrames : /\ toMaster' = Append(toMaster, f)
                              /\ delivered' = Append(delivered, f)
<1>1. PICK n \in Nat : n = Len(delivered) + 1
  OBVIOUS
<1>2. Reply("data", n, size) \in NetFrames
  BY FrameSized
<1>3. PICK f \in NetFrames : f = Reply("data", n, size)
  BY <1>2
<1>4. delivered' = Append(delivered, f) /\ toMaster' = Append(toMaster, Last(delivered'))
  BY <1>1, <1>3 DEF SessionReply
<1>5. Last(delivered') = f
  BY <1>4 DEF Last
<1> QED
  BY <1>4, <1>5

LEMMA ReplyStep ==
  ASSUME RepliesFit, RequestInv, ReplyInv, delivered \in Seq(NetFrames), [Next]_vars
  PROVE  ReplyInv' /\ delivered' \in Seq(NetFrames)
<1> DEFINE Read == received \subseteq {Whole(a) : a \in Sized}
<1>1. /\ lost \in Nat /\ lastXfer \in Nat
      /\ toMaster \in Seq(NetFrames)
      /\ mailbox = None \/ mailbox \in Sized
      /\ Sendable(tx)
      /\ lost <= 1 => Reads(tx) /\ Read
  BY DEF ReplyInv
<1>2. ASSUME UNCHANGED <<tx, lost, lastXfer, delivered, received, toMaster, mailbox>>,
             reading' = reading \/ reading' = NoPacket
      PROVE  ReplyInv' /\ delivered' \in Seq(NetFrames)
  BY <1>1, <1>2, Untouched DEF ReplyInv
<1>3. CASE \/ \E q \in Requests : BeginRequest(q)
           \/ AbandonRequest \/ GapTooLong \/ SelectV2 \/ AbortBody \/ SessionTake
           \/ UNCHANGED vars
  <2>1. /\ UNCHANGED <<tx, lost, lastXfer, delivered, received, toMaster, mailbox>>
        /\ reading' = reading \/ reading' = NoPacket
    BY <1>3 DEF BeginRequest, AbandonRequest, GapTooLong, SelectV2, AbortBody, SessionTake,
       pico, master, vars
  <2> QED
    BY <1>2, <2>1
<1>4. ASSUME NEW q \in Requests, WriteV2(q) PROVE ReplyInv' /\ delivered' \in Seq(NetFrames)
  <2>1. /\ UNCHANGED <<tx, lost, lastXfer, delivered, received, toMaster>>
        /\ reading' = reading \/ reading' = NoPacket
    BY <1>4 DEF WriteV2
  <2>2. mailbox' = None \/ mailbox' \in Sized
    BY <1>1, <1>4, WriteV2Mailbox
  <2> QED
    BY <1>1, <2>1, <2>2, Untouched DEF ReplyInv
<1>5. CASE PeekV2
  <2>1. UNCHANGED <<tx, lost, lastXfer, delivered, received, reading>> /\ FillMailbox
    BY <1>5 DEF PeekV2
  <2>2. toMaster' \in Seq(NetFrames) /\ (mailbox' = None \/ mailbox' \in Sized)
    BY <1>1, <2>1, FillMailboxOK
  <2> QED
    BY <1>1, <2>1, <2>2, Untouched DEF ReplyInv
<1>6. CASE ReadBody
  <2>1. /\ UNCHANGED <<tx, lost, lastXfer, delivered, reading, toMaster>>
        /\ mailbox # None /\ mailbox' = None
        /\ received' = received \cup {Whole(mailbox)}
    BY <1>6 DEF ReadBody, Take
  <2>2. Read => Read'
    BY <1>1, <2>1
  <2> QED
    BY <1>1, <2>1, <2>2, Untouched DEF ReplyInv
<1>7. ASSUME NEW size \in ReplySizes, SessionReply(size)
      PROVE  ReplyInv' /\ delivered' \in Seq(NetFrames)
  <2>1. UNCHANGED <<tx, lost, lastXfer, received, reading, mailbox>>
    BY <1>7 DEF SessionReply, pico, master
  <2>2. PICK f \in NetFrames : toMaster' = Append(toMaster, f) /\ delivered' = Append(delivered, f)
    BY <1>1, <1>7, SessionReplyOK
  <2>3. toMaster' \in Seq(NetFrames) /\ delivered' \in Seq(NetFrames)
    BY <1>1, <2>2
  <2> QED
    BY <1>1, <2>1, <2>3, Untouched DEF ReplyInv
<1>8. CASE WriteSlot
  <2>1. UNCHANGED <<mailbox, toMaster, reading, xfers, received, delivered, lost>>
        /\ writing # None
    BY <1>8 DEF WriteSlot
  <2>2. Sendable(tx)' /\ (lost <= 1 => Reads(tx)')
    <3>1. CASE tx' = tx
      BY <1>1, <2>1, <3>1, Untouched
    <3>2. ASSUME NEW x \in Nat, tx' = Giving(ErrorReply, x, 0)
          PROVE  Sendable(tx)' /\ (lost <= 1 => Reads(tx)')
      BY <1>1, <2>1, <3>2, ErrorSized, Replaced
    <3>3. ASSUME NEW r \in Sized, r.kind = "command", tx' = Giving(r, xfers, 0), writing' = None
          PROVE  Sendable(tx)' /\ (lost <= 1 => Reads(tx)')
      <4>1. xfers \in Nat /\ Past(xfers)'
        BY <2>1, <3>3 DEF RequestInv, Past
      <4> QED
        BY <1>1, <2>1, <3>3, <4>1, Replaced
    <3> QED
      BY <1>1, <1>8, <3>1, <3>2, <3>3, WriteSlotStages DEF RequestInv
  <2>3. lastXfer' \in Nat
    BY <1>1, <1>8, WriteSlotStages
  <2> QED
    BY <1>1, <2>1, <2>2, <2>3 DEF ReplyInv
<1>9. CASE WriteSpoilt
  <2>1. /\ UNCHANGED <<lastXfer, mailbox, toMaster, reading, received, delivered, lost>>
        /\ tx' = tx \/ Stage(ErrorReply, lastXfer)
    BY <1>9 DEF WriteSpoilt, HandleShort, Recover
  <2>2. Sendable(tx)' /\ (lost <= 1 => Reads(tx)')
    <3>1. CASE tx' = tx
      BY <1>1, <2>1, <3>1, Untouched
    <3>2. CASE Stage(ErrorReply, lastXfer)
      <4>1. tx' = Giving(ErrorReply, lastXfer, 0)
        BY <3>2, ErrorSized, StageGives
      <4> QED
        BY <1>1, <2>1, <4>1, ErrorSized, Replaced
    <3> QED
      BY <2>1, <3>1, <3>2
  <2> QED
    BY <1>1, <2>1, <2>2 DEF ReplyInv
<1>10. CASE ReadSlot
  <2>1. GiveSlot /\ UNCHANGED <<lastXfer, mailbox, delivered, lost>>
    BY <1>10 DEF ReadSlot
  <2>2. toMaster' \in Seq(NetFrames)
    BY <1>1, <2>1, CurrentOK
  <2>3. Sendable(tx)'
    BY <1>1, <1>10, ReadSends
  <2>4. lost <= 1 => Reads(tx)' /\ Read'
    BY <1>10, ReadSlotReads
  <2> QED
    BY <1>1, <2>1, <2>2, <2>3, <2>4 DEF ReplyInv
<1>11. CASE ReadLost
  <2>1. GiveSlot /\ UNCHANGED <<lastXfer, mailbox, delivered>>
    BY <1>11 DEF ReadLost
  <2>2. toMaster' \in Seq(NetFrames)
    BY <1>1, <2>1, CurrentOK
  <2>3. lost' \in Nat /\ Sendable(tx)' /\ (lost' <= 1 => Reads(tx)' /\ Read')
    BY <1>11, ReadLostReads
  <2> QED
    BY <1>1, <2>1, <2>2, <2>3 DEF ReplyInv
<1> QED
  BY <1>3, <1>4, <1>5, <1>6, <1>7, <1>8, <1>9, <1>10, <1>11 DEF Next

(* ResponsesWhole: what the master takes for a response is one response    *)
(* from its first part to its last, while at most one slot was lost.       *)
THEOREM NoTornResponses ==
  ASSUME RepliesFit
  PROVE  Spec => []ResponsesWhole
<1> DEFINE J == RequestInv /\ ReplyInv /\ delivered \in Seq(NetFrames)
<1>1. Init => J
  BY RequestInit, ReplyInit DEF Init
<1>2. J /\ [Next]_vars => J'
  BY RequestStep, ReplyStep
<1>3. J => ResponsesWhole
  <2> SUFFICES ASSUME ReplyInv, lost <= 1, NEW x \in received PROVE WholePacket(x)
    BY DEF ResponsesWhole
  <2>1. PICK a \in Sized : x = Whole(a)
    BY DEF ReplyInv
  <2> QED
    BY <2>1, SizedFacts, WholeIsWhole
<1> QED
  BY <1>1, <1>2, <1>3, PTL DEF Spec

-----------------------------------------------------------------------------
(* ExactInv is inductive.                                                  *)

(* What was read of the network's frames, with what is coming.             *)
Frame(r) == IF IsData(r) THEN <<r>> ELSE <<>>

LEMMA AppendLast ==
  ASSUME NEW S, NEW s \in Seq(S), NEW t \in Seq(S), NEW e \in S
  PROVE  s \o Append(t, e) = Append(s \o t, e)
OBVIOUS

LEMMA ComingIs == Coming = Frame(tx.reply) \o Frame(mailbox) \o toMaster
BY DEF Coming, Frame

LEMMA NoFrame ==
  /\ Frame(None) = <<>>
  /\ Frame(NoResponse.reply) = <<>>
BY DEF Frame, IsData, NoResponse

LEMMA FrameFacts ==
  ASSUME NEW a \in Sized
  PROVE  /\ Frame(a) = IF a.kind = "data" THEN <<a>> ELSE <<>>
         /\ IsData(a) <=> a.kind = "data"
         /\ Frame(a) \in Seq(NetFrames)
         /\ a.kind = "data" => a \in NetFrames
<1>1. a # None
  BY SizedFacts
<1>2. IsData(a) <=> a.kind = "data"
  BY <1>1 DEF IsData
<1>3. a.kind = "data" => a \in NetFrames
  BY DEF NetFrames
<1>4. Frame(a) = IF a.kind = "data" THEN <<a>> ELSE <<>>
  BY <1>2 DEF Frame
<1> QED
  BY <1>2, <1>3, <1>4

LEMMA FrameOfSent ==
  ASSUME Sendable(tx)
  PROVE  Frame(tx.reply) \in Seq(NetFrames)
<1>1. CASE tx = NoResponse
  BY <1>1, NoFrame
<1>2. ASSUME NEW a \in Sized, NEW x \in Nat, NEW j \in Nat, tx = Giving(a, x, j)
      PROVE  Frame(tx.reply) \in Seq(NetFrames)
  <2>1. tx.reply = a
    BY <1>2, GivingFacts
  <2> QED
    BY <2>1, FrameFacts
<1> QED
  BY <1>1, <1>2 DEF Sendable

LEMMA FrameOfBox ==
  ASSUME NEW m, m = None \/ m \in Sized
  PROVE  Frame(m) \in Seq(NetFrames)
<1>1. CASE m = None
  BY <1>1, NoFrame
<1>2. CASE m \in Sized
  BY <1>2, FrameFacts
<1> QED
  BY <1>1, <1>2

LEMMA NothingStaged ==
  ASSUME Sendable(tx), ~Staged
  PROVE  tx = NoResponse /\ mailbox = None
BY GivingFacts DEF Staged, Sendable

(* Taking a whole response takes the frame, if it is one.                  *)
LEMMA TakeOK ==
  ASSUME NEW a \in Sized, Take(Whole(a)), frames \in Seq(NetFrames)
  PROVE  frames' = frames \o Frame(a) /\ frames' \in Seq(NetFrames)
<1>1. Head(Whole(a)).of = a
  BY SizedFacts, WholeIsWhole
<1>2. frames' = IF a.kind = "data" THEN Append(frames, a) ELSE frames
  BY <1>1 DEF Take
<1>3. CASE a.kind = "data"
  <2>1. a \in NetFrames /\ Frame(a) = <<a>>
    BY <1>3, FrameFacts
  <2>2. Append(frames, a) = frames \o <<a>> /\ Append(frames, a) \in Seq(NetFrames)
    BY <2>1
  <2> QED
    BY <1>2, <1>3, <2>1, <2>2
<1>4. CASE a.kind # "data"
  BY <1>2, <1>4, FrameFacts
<1> QED
  BY <1>3, <1>4

(* What is staged by the task itself is no frame.                          *)
LEMMA OwnReply ==
  ASSUME NEW r \in Sized, NEW x, r.kind \in {"command", "error"}, tx' = Giving(r, x, 0)
  PROVE  Frame(tx'.reply) = <<>> /\ ~IsData(tx'.reply)
<1>1. tx'.reply = r
  BY GivingFacts
<1> QED
  BY <1>1, FrameFacts

LEMMA ExactInit == Init => ExactInv
<1> SUFFICES ASSUME Init PROVE ExactInv
  OBVIOUS
<1>1. frames = <<>> /\ delivered = <<>> /\ toMaster = <<>> /\ mailbox = None /\ tx = NoResponse
  BY DEF Init
<1>2. Coming = <<>>
  BY <1>1, ComingIs, NoFrame
<1>3. ~IsData(tx.reply)
  BY <1>1 DEF NoResponse, IsData
<1> QED
  BY <1>1, <1>2, <1>3 DEF Init, ExactInv

(* A step that touches neither what was taken nor what is coming.          *)
LEMMA SameComing ==
  ASSUME UNCHANGED <<frames, toMaster>>, Frame(tx.reply)' = Frame(tx.reply),
         Frame(mailbox)' = Frame(mailbox)
  PROVE  (frames \o Coming)' = frames \o Coming
BY ComingIs DEF Coming, Frame

LEMMA WriteSlotExact ==
  ASSUME RepliesFit, RequestsFit, RequestInv, ReplyInv, ExactInv, WriteSlot, ~disturbed'
  PROVE  /\ ~v2' /\ mailbox' = None
         /\ IsData(tx.reply)' /\ tx'.next > 0 => reading' = Partial(tx'.reply, tx'.xfer, tx'.next)
         /\ frames' \in Seq(NetFrames) /\ (frames \o Coming)' = delivered'
<1>1. /\ UNCHANGED <<mailbox, toMaster, reading, frames, delivered>>
      /\ ~v2' /\ writing # None
      /\ ~disturbed
      /\ Staged => ~v2 /\ writing.clean /\ ~(NextSlot.end /\ writing.p.class # "forward")
  BY DEF WriteSlot
<1>2. /\ Sendable(tx) /\ lastXfer \in Nat
      /\ ~v2 => mailbox = None
      /\ IsData(tx.reply) /\ tx.next > 0 => reading = Partial(tx.reply, tx.xfer, tx.next)
      /\ frames \in Seq(NetFrames) /\ frames \o Coming = delivered
  BY <1>1 DEF ReplyInv, ExactInv
<1>3. mailbox = None
  BY <1>1, <1>2, NothingStaged
<1>4. CASE tx' = tx
  <2>1. (frames \o Coming)' = frames \o Coming
    BY <1>1, <1>4, SameComing DEF Frame, IsData
  <2> QED
    BY <1>1, <1>2, <1>3, <1>4, <2>1 DEF IsData
<1>5. CASE tx' # tx
  <2>1. writing.p.size <= PayloadMax
    <3>1. PICK q \in Requests : writing.p = Numbered(q, xfers)
      BY <1>1 DEF RequestInv, WritingOK
    <3>2. writing.p.size = q.size
      BY <3>1 DEF Numbered
    <3> QED
      BY <3>2 DEF RequestsFit
  <2>2. tx = NoResponse
    BY <1>1, <1>2, <1>5, <2>1, WriteSlotStages, NothingStaged
  <2>3. Frame(tx'.reply) = <<>> /\ ~IsData(tx'.reply)
    BY <1>2, <1>5, WriteSlotStages, ErrorSized, OwnReply
  <2>4. (frames \o Coming)' = frames \o Coming
    <3>1. Frame(tx.reply)' = <<>> /\ Frame(tx.reply) = <<>>
      BY <2>2, <2>3, NoFrame DEF Frame, IsData
    <3>2. Frame(mailbox)' = Frame(mailbox)
      BY <1>1 DEF Frame, IsData
    <3> QED
      BY <1>1, <3>1, <3>2, SameComing
  <2> QED
    BY <1>1, <1>2, <1>3, <2>3, <2>4 DEF IsData
<1> QED
  BY <1>4, <1>5

(* A read of version 1 takes what it gives out.                            *)
LEMMA ReadSlotExact ==
  ASSUME RequestInv, ReplyInv, ExactInv, ReadSlot, ~disturbed
  PROVE  /\ IsData(tx.reply)' /\ tx'.next > 0 => reading' = Partial(tx'.reply, tx'.xfer, tx'.next)
         /\ frames' \in Seq(NetFrames) /\ (frames \o Coming)' = delivered'
<1>1. /\ GiveSlot /\ ~v2 /\ UNCHANGED <<mailbox, delivered>>
  BY DEF ReadSlot
<1>2. /\ Sendable(tx) /\ lastXfer \in Nat /\ toMaster \in Seq(NetFrames)
      /\ lost = 0 /\ Reads(tx) /\ mailbox = None /\ delivered \in Seq(NetFrames)
      /\ IsData(tx.reply) /\ tx.next > 0 => reading = Partial(tx.reply, tx.xfer, tx.next)
      /\ frames \in Seq(NetFrames) /\ frames \o Coming = delivered
  BY <1>1 DEF ReplyInv, ExactInv
<1>3. toMaster' \in Seq(NetFrames)
  BY <1>1, <1>2, CurrentOK
<1>4. CASE Current = NoResponse
  <2>1. UNCHANGED <<reading, frames>>
    BY <1>4 DEF ReadSlot, NoResponse
  <2>2. tx = NoResponse /\ tx' = NoResponse /\ toMaster' = toMaster
    BY <1>1, <1>2, <1>4, CurrentOK
  <2>3. (frames \o Coming)' = frames \o Coming
    BY <1>1, <2>1, <2>2, SameComing DEF Frame, IsData
  <2>4. ~IsData(tx'.reply)
    BY <2>2 DEF IsData, NoResponse
  <2> QED
    BY <1>1, <1>2, <2>1, <2>3, <2>4 DEF IsData
<1>5. CASE Current # NoResponse
  <2>1. PICK a \in Sized, x \in Nat, j \in Nat : Current = Giving(a, x, j) /\ j < a.size
    BY <1>1, <1>2, <1>5, CurrentOK DEF Sendable
  <2>2. /\ Current.reply = a /\ Current.xfer = x /\ Current.total = a.size
        /\ Current.next = j /\ Current.reply # None
    BY <2>1, GivingFacts
  <2>3. TakeSlot(Slot(a, x, a.size, j))
    BY <2>2 DEF ReadSlot
  <2>4. a.size \in Nat /\ (j + 1 = a.size \/ j + 1 < a.size) /\ j + 1 \in Nat
    BY <2>1, SizedFacts
  <2>5. Frame(a) \o toMaster' = Frame(tx.reply) \o toMaster
    <3>1. CASE Popped
      <4>1. tx = NoResponse /\ a \in NetFrames /\ toMaster = <<a>> \o toMaster'
        BY <1>1, <1>2, <2>2, <3>1, CurrentOK
      <4>2. Frame(a) = <<a>>
        BY <4>1, FrameFacts DEF NetFrames
      <4> QED
        BY <1>2, <4>1, <4>2, NoFrame
    <3>2. CASE ~Popped
      <4>1. tx.reply = a /\ toMaster' = toMaster
        BY <1>1, <1>2, <2>2, <3>2, CurrentOK
      <4> QED
        BY <4>1
    <3> QED
      BY <3>1, <3>2
  <2>6. a.kind = "data" /\ j # 0 => reading = Partial(a, x, j)
    <3>1. CASE Popped
      BY <1>1, <1>2, <2>2, <3>1, CurrentOK
    <3>2. CASE ~Popped
      <4>1. tx.reply = a /\ tx.xfer = x /\ tx.next = j
        BY <1>1, <1>2, <2>2, <3>2, CurrentOK
      <4> QED
        BY <1>2, <2>1, <4>1, FrameFacts
    <3> QED
      BY <3>1, <3>2
  <2>7. Reads(Current)
    BY <1>1, <1>2, CurrentReads
  <2>8. /\ \/ reading' = NoPacket /\ frames' = frames
           \/ j + 1 < a.size /\ reading' = Partial(a, x, j + 1) /\ frames' = frames
           \/ j + 1 = a.size /\ reading' = NoPacket /\ Take(Whole(a))
        /\ a.kind = "data" =>
             \/ j + 1 < a.size /\ reading' = Partial(a, x, j + 1) /\ frames' = frames
             \/ j + 1 = a.size /\ reading' = NoPacket /\ Take(Whole(a))
    BY <1>2, <2>1, <2>3, <2>6, <2>7, TakeSlotOK
  <2>9. /\ j + 1 = a.size => tx' = NoResponse
        /\ j + 1 < a.size => tx' = Giving(a, x, j + 1)
    BY <1>1, <2>1, GivenOK
  <2>10. /\ Coming = Frame(a) \o toMaster'
         /\ Coming' = Frame(tx'.reply) \o toMaster'
    <3>1. Frame(mailbox) = <<>> /\ Frame(mailbox') = <<>>
      BY <1>1, <1>2, NoFrame
    <3>2. Coming = Frame(tx.reply) \o toMaster
      <4>1. Frame(tx.reply) \in Seq(NetFrames)
        BY <1>2, FrameOfSent
      <4> QED
        BY <1>2, <3>1, <4>1, ComingIs
    <3>3. Coming' = Frame(tx'.reply) \o <<>> \o toMaster'
      BY <3>1 DEF Coming, Frame
    <3>4. Frame(tx'.reply) \in Seq(NetFrames)
      <4>1. CASE tx' = NoResponse
        BY <4>1, NoFrame
      <4>2. CASE tx' = Giving(a, x, j + 1)
        <5>1. tx'.reply = a
          BY <4>2, GivingFacts
        <5> QED
          BY <5>1, FrameFacts
      <4> QED
        BY <2>4, <2>9, <4>1, <4>2
    <3> QED
      BY <1>3, <2>5, <3>2, <3>3, <3>4
  <2>11. CASE j + 1 = a.size
    <3>1. frames' = frames \o Frame(a) /\ frames' \in Seq(NetFrames)
      <4>1. CASE Take(Whole(a))
        BY <1>2, <4>1, TakeOK
      <4>2. CASE frames' = frames /\ a.kind # "data"
        BY <1>2, <4>2, FrameFacts
      <4> QED
        BY <2>4, <2>8, <2>11, <4>1, <4>2
    <3>2. tx'.reply = None /\ ~IsData(tx'.reply) /\ Coming' = toMaster'
      BY <1>3, <2>9, <2>10, <2>11, NoFrame DEF NoResponse, IsData
    <3>3. frames \o Coming = frames' \o toMaster'
      <4>1. Frame(a) \in Seq(NetFrames)
        BY FrameFacts
      <4>2. frames \o (Frame(a) \o toMaster') = (frames \o Frame(a)) \o toMaster'
        BY <1>2, <1>3, <4>1
      <4> QED
        BY <2>10, <3>1, <4>2
    <3> QED
      BY <1>1, <1>2, <3>1, <3>2, <3>3 DEF IsData
  <2>12. CASE j + 1 < a.size
    <3>1. tx'.reply = a /\ tx'.xfer = x /\ tx'.next = j + 1
      BY <2>4, <2>9, <2>12, GivingFacts
    <3>2. frames' = frames
      BY <2>4, <2>8, <2>12
    <3>3. a.kind = "data" => reading' = Partial(a, x, j + 1)
      BY <2>4, <2>8, <2>12
    <3>4. (frames \o Coming)' = frames \o Coming
      BY <2>10, <3>1, <3>2
    <3>5. IsData(tx.reply)' => a.kind = "data"
      BY <3>1 DEF IsData
    <3> QED
      BY <1>1, <1>2, <3>1, <3>2, <3>3, <3>4, <3>5
  <2> QED
    BY <2>4, <2>11, <2>12
<1> QED
  BY <1>4, <1>5

LEMMA ExactStep ==
  ASSUME RepliesFit, RequestsFit, RequestInv, ReplyInv, ExactInv, [Next]_vars
  PROVE  ExactInv'
<1> DEFINE Begun == IsData(tx.reply) /\ tx.next > 0 => reading = Partial(tx.reply, tx.xfer, tx.next)
           Exact == /\ lost = 0
                    /\ v2 => tx = NoResponse
                    /\ ~v2 => mailbox = None
                    /\ Begun
                    /\ frames \in Seq(NetFrames) /\ frames \o Coming = delivered
<1>1. /\ toMaster \in Seq(NetFrames) /\ lastXfer \in Nat /\ Sendable(tx)
      /\ mailbox = None \/ mailbox \in Sized
      /\ delivered \in Seq(NetFrames)
  BY DEF ReplyInv, ExactInv
<1>2. delivered' \in Seq(NetFrames)
  BY <1>1, ReplyStep
<1>3. SUFFICES ASSUME ~disturbed' PROVE Exact'
  BY <1>2 DEF ExactInv
<1>4. ~disturbed => Exact
  BY DEF ExactInv
<1>5. NoResponse.reply = None /\ ~IsData(NoResponse.reply)
  BY DEF NoResponse, IsData
<1>6. ASSUME ~disturbed, UNCHANGED <<tx, lost, reading, frames, delivered, toMaster>>,
             UNCHANGED <<v2, mailbox>>
      PROVE  Exact'
  <2>1. (frames \o Coming)' = frames \o Coming
    BY <1>6, SameComing DEF Frame, IsData
  <2> QED
    BY <1>4, <1>6, <2>1 DEF IsData
<1>7. CASE \/ \E q \in Requests : BeginRequest(q)
           \/ AbandonRequest \/ GapTooLong \/ AbortBody \/ SessionTake \/ UNCHANGED vars
  <2>1. /\ disturbed' = disturbed
        /\ UNCHANGED <<tx, lost, reading, frames, delivered, toMaster>>
        /\ UNCHANGED <<v2, mailbox>>
    BY <1>7 DEF BeginRequest, AbandonRequest, GapTooLong, AbortBody, SessionTake, pico, master, vars
  <2> QED
    BY <1>3, <1>6, <2>1
<1>8. CASE WriteSlot
  <2>1. ~disturbed /\ lost' = lost
    BY <1>3, <1>8 DEF WriteSlot
  <2> QED
    BY <1>3, <1>4, <1>8, <2>1, WriteSlotExact
<1>9. CASE WriteSpoilt
  <2>1. /\ UNCHANGED <<v2, mailbox, toMaster, reading, frames, delivered, lost>>
        /\ ~disturbed
        /\ \/ tx' = tx
           \/ ~v2 /\ ~Staged /\ Stage(ErrorReply, lastXfer)
    <3>1. \/ UNCHANGED <<tx, disturbed>>
          \/ (HandleShort \/ Recover) /\ disturbed' = (disturbed \/ (Staged /\ ~v2))
      BY <1>9 DEF WriteSpoilt
    <3>2. CASE UNCHANGED <<tx, disturbed>>
      BY <1>3, <1>9, <3>2 DEF WriteSpoilt
    <3>3. CASE (HandleShort \/ Recover) /\ disturbed' = (disturbed \/ (Staged /\ ~v2))
      <4>1. tx' = tx \/ (~v2 /\ Stage(ErrorReply, lastXfer))
        BY <3>3 DEF HandleShort, Recover
      <4>2. ~disturbed /\ ~(Staged /\ ~v2)
        BY <1>3, <3>3
      <4> QED
        BY <1>9, <4>1, <4>2 DEF WriteSpoilt
    <3> QED
      BY <3>1, <3>2, <3>3
  <2>2. CASE tx' = tx
    BY <1>6, <2>1, <2>2
  <2>3. CASE ~v2 /\ ~Staged /\ Stage(ErrorReply, lastXfer)
    <3>1. tx = NoResponse /\ mailbox = None
      BY <1>1, <2>3, NothingStaged
    <3>2. tx' = Giving(ErrorReply, lastXfer, 0)
      BY <2>3, ErrorSized, StageGives
    <3>3. Frame(tx'.reply) = <<>> /\ ~IsData(tx'.reply)
      BY <3>2, ErrorSized, OwnReply
    <3>4. (frames \o Coming)' = frames \o Coming
      <4>1. Frame(tx.reply)' = Frame(tx.reply)
        BY <3>1, <3>3, NoFrame DEF Frame, IsData
      <4>2. Frame(mailbox)' = Frame(mailbox)
        BY <2>1 DEF Frame, IsData
      <4> QED
        BY <2>1, <4>1, <4>2, SameComing
    <3> QED
      BY <1>4, <2>1, <2>3, <3>1, <3>3, <3>4 DEF IsData
  <2> QED
    BY <2>1, <2>2, <2>3
<1>10. CASE SelectV2
  <2>1. /\ UNCHANGED <<tx, mailbox, toMaster, frames, delivered, lost>>
        /\ v2' /\ ~disturbed /\ ~Staged
    BY <1>3, <1>10 DEF SelectV2
  <2>2. tx = NoResponse /\ mailbox = None
    BY <1>1, <2>1, NothingStaged
  <2>3. (frames \o Coming)' = frames \o Coming
    BY <2>1, SameComing DEF Frame, IsData
  <2>4. ~IsData(tx.reply)'
    BY <1>5, <2>1, <2>2 DEF IsData
  <2> QED
    BY <1>4, <2>1, <2>2, <2>3, <2>4
<1>11. ASSUME NEW q \in Requests, WriteV2(q) PROVE Exact'
  <2>1. /\ UNCHANGED <<tx, toMaster, frames, delivered, lost>>
        /\ v2' /\ ~disturbed /\ (Staged => v2)
    BY <1>3, <1>11 DEF WriteV2
  <2>2. tx = NoResponse
    BY <1>1, <1>4, <2>1, NothingStaged
  <2>3. ~IsData(tx.reply)'
    BY <1>5, <2>1, <2>2 DEF IsData
  <2>4. Frame(mailbox)' = Frame(mailbox)
    <3>1. CASE mailbox' = mailbox
      BY <3>1 DEF Frame, IsData
    <3>2. CASE mailbox = None /\ mailbox' \in Sized /\ mailbox'.kind = "command"
      BY <3>2, FrameFacts, NoFrame DEF Frame, IsData
    <3> QED
      BY <1>1, <1>11, <3>1, <3>2, WriteV2Mailbox
  <2>5. (frames \o Coming)' = frames \o Coming
    <3>1. Frame(tx.reply)' = Frame(tx.reply)
      BY <2>1 DEF Frame, IsData
    <3> QED
      BY <2>1, <2>4, <3>1, SameComing
  <2> QED
    BY <1>4, <2>1, <2>2, <2>3, <2>5
<1>12. CASE PeekV2
  <2>1. /\ UNCHANGED <<tx, frames, delivered, lost, v2>>
        /\ v2 /\ ~disturbed /\ FillMailbox
    BY <1>3, <1>12 DEF PeekV2
  <2>2. tx = NoResponse /\ tx' = NoResponse
    BY <1>4, <2>1
  <2>3. ~IsData(tx.reply)'
    BY <1>5, <2>2 DEF IsData
  <2>4. Coming = Frame(mailbox) \o toMaster /\ Coming' = Frame(mailbox') \o toMaster'
    <3>1. Frame(mailbox) \in Seq(NetFrames) /\ Frame(mailbox') \in Seq(NetFrames)
      BY <1>1, <2>1, FillMailboxOK, FrameOfBox
    <3>2. toMaster' \in Seq(NetFrames)
      BY <1>1, <2>1, FillMailboxOK
    <3>3. Coming = <<>> \o Frame(mailbox) \o toMaster
      BY <2>2, ComingIs, NoFrame
    <3>4. Coming' = <<>> \o Frame(mailbox') \o toMaster'
      BY <1>5, <2>2 DEF Coming, Frame
    <3> QED
      BY <1>1, <3>1, <3>2, <3>3, <3>4
  <2>5. Coming' = Coming
    <3>1. CASE UNCHANGED <<mailbox, toMaster>>
      BY <2>4, <3>1
    <3>2. CASE /\ mailbox = None /\ mailbox' \in NetFrames
               /\ toMaster = <<mailbox'>> \o toMaster'
      <4>1. Frame(mailbox') = <<mailbox'>>
        BY <3>2, FrameFacts DEF NetFrames
      <4> QED
        BY <1>1, <2>4, <3>2, <4>1, NoFrame
    <3> QED
      BY <1>1, <2>1, <3>1, <3>2, FillMailboxOK
  <2> QED
    BY <1>4, <2>1, <2>2, <2>3, <2>5
<1>13. CASE ReadBody
  <2>1. /\ UNCHANGED <<tx, toMaster, delivered, lost, v2>>
        /\ v2 /\ ~disturbed /\ mailbox # None /\ mailbox' = None /\ Take(Whole(mailbox))
    BY <1>3, <1>13 DEF ReadBody
  <2>2. tx = NoResponse /\ frames \in Seq(NetFrames) /\ frames \o Coming = delivered /\ lost = 0
    BY <1>4, <2>1
  <2>3. ~IsData(tx.reply)'
    BY <1>5, <2>1, <2>2 DEF IsData
  <2>4. PICK a \in Sized : a = mailbox
    BY <1>1, <2>1
  <2>5. frames' = frames \o Frame(a) /\ frames' \in Seq(NetFrames) /\ Frame(a) \in Seq(NetFrames)
    BY <2>1, <2>2, <2>4, TakeOK, FrameFacts
  <2>6. Coming = Frame(a) \o toMaster /\ Coming' = toMaster'
    <3>1. Coming = <<>> \o Frame(a) \o toMaster
      BY <2>2, <2>4, ComingIs, NoFrame
    <3>2. Coming' = <<>> \o <<>> \o toMaster'
      BY <1>5, <2>1, <2>2, NoFrame DEF Coming, Frame, IsData
    <3> QED
      BY <1>1, <2>1, <2>5, <3>1, <3>2
  <2>7. frames' \o Coming' = frames \o Coming
    <3>1. frames \o (Frame(a) \o toMaster) = (frames \o Frame(a)) \o toMaster
      BY <1>1, <2>2, <2>5
    <3> QED
      BY <2>1, <2>5, <2>6, <3>1
  <2> QED
    BY <2>1, <2>2, <2>3, <2>5, <2>7
<1>14. ASSUME NEW size \in ReplySizes, SessionReply(size) PROVE Exact'
  <2>1. UNCHANGED <<tx, mailbox, reading, frames, lost, v2, disturbed>> /\ ~disturbed
    BY <1>3, <1>14 DEF SessionReply, pico, master
  <2>2. PICK f \in NetFrames : toMaster' = Append(toMaster, f) /\ delivered' = Append(delivered, f)
    BY <1>1, <1>14, SessionReplyOK
  <2>3. PICK F \in Seq(NetFrames) : Coming = F \o toMaster /\ Coming' = F \o toMaster'
    <3>1. Frame(tx.reply) \in Seq(NetFrames) /\ Frame(mailbox) \in Seq(NetFrames)
      BY <1>1, FrameOfSent, FrameOfBox
    <3>2. Frame(tx.reply) \o Frame(mailbox) \in Seq(NetFrames)
      BY <3>1
    <3>3. Coming' = Frame(tx.reply) \o Frame(mailbox) \o toMaster'
      BY <2>1 DEF Coming, Frame, IsData
    <3> QED
      BY <3>2, <3>3, ComingIs
  <2>4. frames \in Seq(NetFrames) /\ frames \o Coming = delivered
    BY <1>4, <2>1
  <2>5. frames \o (F \o Append(toMaster, f)) = Append(frames \o (F \o toMaster), f)
    <3>1. F \o toMaster \in Seq(NetFrames)
      BY <1>1
    <3>2. F \o Append(toMaster, f) = Append(F \o toMaster, f)
      BY <1>1, AppendLast
    <3>3. frames \o Append(F \o toMaster, f) = Append(frames \o (F \o toMaster), f)
      BY <2>4, <3>1, AppendLast
    <3> QED
      BY <3>2, <3>3
  <2>6. frames' \o Coming' = delivered'
    BY <2>1, <2>2, <2>3, <2>4, <2>5
  <2> QED
    BY <1>4, <2>1, <2>4, <2>6 DEF IsData
<1>15. CASE ReadSlot
  <2>1. UNCHANGED <<mailbox, lost, v2, disturbed>> /\ ~v2 /\ ~disturbed
    BY <1>3, <1>15 DEF ReadSlot
  <2> QED
    BY <1>4, <1>15, <2>1, ReadSlotExact
<1>16. CASE ReadLost
  <2>1. /\ UNCHANGED <<mailbox, v2, frames, delivered>> /\ ~v2 /\ GiveSlot
        /\ ~disturbed /\ Current.reply = None /\ lost' = lost
    BY <1>3, <1>16 DEF ReadLost
  <2>2. Current = NoResponse
    BY <1>1, <2>1, CurrentOK, GivingFacts DEF Sendable
  <2>3. tx = NoResponse /\ tx' = NoResponse /\ toMaster' = toMaster
    BY <1>1, <2>1, <2>2, CurrentOK
  <2>4. (frames \o Coming)' = frames \o Coming
    BY <2>1, <2>3, SameComing DEF Frame, IsData
  <2>5. ~IsData(tx.reply)'
    BY <1>5, <2>3 DEF IsData
  <2> QED
    BY <1>4, <2>1, <2>4, <2>5
<1> QED
  BY <1>7, <1>8, <1>9, <1>10, <1>11, <1>12, <1>13, <1>14, <1>15, <1>16 DEF Next

(* RepliesExact: every frame from the network is read once and in order,   *)
(* or is coming, until a fault or the master disturbs what is staged.      *)
THEOREM RepliesOnce ==
  ASSUME RepliesFit, RequestsFit
  PROVE  Spec => []RepliesExact
<1> DEFINE J == RequestInv /\ ReplyInv /\ ExactInv
<1>1. Init => J
  BY RequestInit, ReplyInit, ExactInit
<1>2. J /\ [Next]_vars => J'
  BY RequestStep, ReplyStep, ExactStep DEF ExactInv
<1>3. J => RepliesExact
  BY DEF ExactInv, RepliesExact
<1> QED
  BY <1>1, <1>2, <1>3, PTL DEF Spec
=============================================================================
