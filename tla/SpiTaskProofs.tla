--------------------------- MODULE SpiTaskProofs ---------------------------
(***************************************************************************)
(* Proofs about SpiTask for every set of requests, every length of a       *)
(* transaction, every size of the replies and every depth of the mailboxes.*)
(***************************************************************************)
EXTENDS SpiTask, TLAPS

Frames == [magic : Magics, payload : Seq(Bytes)]
Responses == [kind : {"data", "command"}, n : 0 .. MaxReplies, size : Nat]
Replies == {r \in Responses : r.n > 0}

Typed ==
  /\ staged \in Responses
  /\ pending = None \/ pending \in Replies
  /\ toNetwork \in Seq(Frames) /\ Len(toNetwork) <= Depth
  /\ toMaster \in Seq(Replies) /\ Len(toMaster) <= Depth
  /\ delivered \in Seq(Replies) /\ Len(delivered) <= MaxReplies
  /\ received \in Seq(Replies)
  /\ forwarded \in Seq(Frames) /\ sent \in Seq(Frames)
  /\ disturbed \in BOOLEAN

(* A frame of the network is staged only while it is kept for the master,  *)
(* and as long as the master plays along nothing else is.                  *)
StagedOK ==
  /\ pending = None => staged.n = 0
  /\ ~disturbed /\ pending # None => staged = pending

SpiInv == Typed /\ StagedOK /\ PulledExact /\ ForwardedWhole

-----------------------------------------------------------------------------
(* The constants and the sequences.                                        *)

LEMMA RequestFacts ==
  ASSUME NEW q \in Requests
  PROVE  /\ q.magic \in Magics
         /\ q.payload \in Seq(Bytes) /\ Len(q.payload) \in Nat /\ Size(q) \in Nat \ {0}
  BY SpiAssumption DEF Size

LEMMA ResponseFacts ==
  /\ Empty \in Responses /\ LocalReply \in Responses
  /\ Empty.n = 0 /\ LocalReply.n = 0
  /\ None \notin Responses
<1>1. 0 \in 0 .. MaxReplies /\ 1 \in Nat /\ CommandSize \in Nat
  BY SpiAssumption
<1>2. Empty \in Responses /\ LocalReply \in Responses /\ Empty.n = 0 /\ LocalReply.n = 0
  BY <1>1 DEF Empty, LocalReply, Response, Responses
<1>3. 0 .. MaxReplies \subseteq Nat
  BY SpiAssumption
<1>4. None \notin Responses
  BY <1>3, SpiAssumption DEF Responses
<1> QED
  BY <1>2, <1>4

LEMMA TailFacts ==
  ASSUME NEW S, NEW s \in Seq(S), s # <<>>
  PROVE  /\ Head(s) \in S /\ Tail(s) \in Seq(S) /\ Len(Tail(s)) = Len(s) - 1
         /\ <<Head(s)>> \o Tail(s) = s /\ Len(s) \in Nat \ {0}
  OBVIOUS

LEMMA AppendFacts ==
  ASSUME NEW S, NEW s \in Seq(S), NEW e \in S
  PROVE  /\ Append(s, e) \in Seq(S) /\ Len(Append(s, e)) = Len(s) + 1
         /\ Append(s, e) = s \o <<e>> /\ Len(s) \in Nat
  OBVIOUS

LEMMA ConcatFacts ==
  ASSUME NEW S, NEW s \in Seq(S), NEW t \in Seq(S), NEW u \in Seq(S)
  PROVE  (s \o t) \o u = s \o (t \o u)
  OBVIOUS

-----------------------------------------------------------------------------
(* What finalize_transaction makes of a request.                           *)

(* A request that came whole is the one the master sent.                   *)
LEMMA WholeRequest ==
  ASSUME NEW q \in Requests, NEW came \in Nat, came >= Size(q)
  PROVE  /\ Seen(q, came).payload = q.payload
         /\ Complete(q, came) /\ came # 0
<1>1. /\ q.payload \in Seq(Bytes) /\ Len(q.payload) \in Nat
      /\ \A i \in DOMAIN q.payload : i \in 1 .. Len(q.payload)
      /\ q.payload = [i \in DOMAIN q.payload |-> q.payload[i]]
  BY RequestFacts
<1>2. \A i \in DOMAIN q.payload : 1 + i <= came
  BY <1>1 DEF Size
<1>3. Seen(q, came).payload = q.payload
  BY <1>1, <1>2 DEF Seen, Arrived
<1>4. Complete(q, came) /\ came # 0
  BY SpiAssumption, RequestFacts DEF Complete
<1> QED
  BY <1>3, <1>4

(* A cut one keeps its length, and its bytes are zero or the ones sent.    *)
LEMMA SeenFacts ==
  ASSUME NEW q \in Requests, NEW came \in Nat
  PROVE  /\ Content(Seen(q, came)) \in Frames
         /\ Seen(q, came).magic = IF q.magic = "doubled" THEN "command" ELSE q.magic
<1> DEFINE f == Seen(q, came).payload  n == Len(q.payload)
<1>1. q.payload \in Seq(Bytes) /\ n \in Nat /\ DOMAIN q.payload = 1 .. n
  BY RequestFacts
<1>2. \A i \in 1 .. n : q.payload[i] \in Bytes
  BY <1>1
<1>3. "nul" \in Bytes
  BY DEF Bytes
<1>4. f = [i \in 1 .. n |-> IF 1 + i <= came THEN q.payload[i] ELSE "nul"]
  BY <1>1 DEF Seen, Arrived
<1>5. f \in [1 .. n -> Bytes]
  BY <1>2, <1>3, <1>4
<1>6. f \in Seq(Bytes)
  BY <1>1, <1>5
<1>7. Seen(q, came).magic = IF q.magic = "doubled" THEN "command" ELSE q.magic
  BY DEF Seen
<1>8. Seen(q, came).magic \in Magics
  BY <1>7, RequestFacts DEF Magics
<1> QED
  BY <1>6, <1>7, <1>8 DEF Content, Frames

(* The line of a pull is a command.                                        *)
LEMMA PullIsCommand ==
  ASSUME NEW p \in Seq(Bytes), IsPull(p)
  PROVE  StartsWithSlash(p)
<1>1. PICK i \in DOMAIN p :
        /\ i + 1 \in DOMAIN p /\ p[i] = "/" /\ p[i + 1] = "pull"
        /\ \A j \in DOMAIN p \ {i, i + 1} : p[j] = "eol"
  BY DEF IsPull
<1>2. \A j \in DOMAIN p : p[j] # "bin"
  BY <1>1
<1>3. \A j \in 1 .. i - 1 : p[j] = "eol"
  <2>1. \A j \in 1 .. i - 1 : j \in DOMAIN p \ {i, i + 1}
    OBVIOUS
  <2> QED
    BY <1>1, <2>1
<1> QED
  BY <1>1, <1>2, <1>3 DEF StartsWithSlash

(* The whole line "/pull" is answered with the response that is kept or    *)
(* with the next one.                                                      *)
LEMMA PullAnswered ==
  ASSUME NEW q \in Requests, NEW came \in Nat, NEW units \in Nat, Finalize(q, came, units),
         q.magic = "command", IsPull(q.payload), came >= Size(q)
  PROVE  Pull(units)
<1>1. Seen(q, came).payload = q.payload /\ Complete(q, came) /\ ~Nothing(q, came)
  BY WholeRequest DEF Nothing
<1>2. Seen(q, came).magic = "command"
  BY SeenFacts
<1>3. FinalizeComplete(q, came, units)
  BY <1>1 DEF Finalize
<1> QED
  BY <1>1, <1>2, <1>3 DEF FinalizeComplete

(* Only a frame for the network is queued.                                 *)
LEMMA FinalizeCases ==
  ASSUME NEW q \in Requests, NEW came \in Nat, NEW units \in Nat, Finalize(q, came, units)
  PROVE  \/ Answer(Empty, units) \/ Answer(LocalReply, units) \/ Pull(units)
         \/ /\ Forward(q, came, units) /\ Complete(q, came)
            /\ ForNetwork(Seen(q, came))
<1>1. CASE Nothing(q, came) \/ ~Complete(q, came)
  BY <1>1 DEF Finalize, CommandOrPull
<1>2. CASE Complete(q, came) /\ FinalizeComplete(q, came, units)
  BY <1>2 DEF FinalizeComplete, CommandOrPull, ForwardStrict, ForNetwork, Strict
<1> QED
  BY <1>1, <1>2 DEF Finalize

(* And every one that came whole.                                          *)
LEMMA WholeForwarded ==
  ASSUME NEW q \in Requests, NEW came \in Nat, NEW units \in Nat, Finalize(q, came, units),
         came >= Size(q), ForNetwork(Seen(q, came))
  PROVE  Forward(q, came, units)
<1> DEFINE x == Seen(q, came)
<1>1. x.magic \in {"data", "command"} /\ x.payload # <<>> /\ Strict(x)
  BY DEF ForNetwork, Strict
<1>2. Complete(q, came) /\ ~Nothing(q, came)
  BY <1>1, WholeRequest, SeenFacts DEF Nothing
<1>3. FinalizeComplete(q, came, units)
  BY <1>2 DEF Finalize
<1>4. x.payload \in Seq(Bytes)
  BY SeenFacts DEF Content, Frames
<1>5. x.magic = "command" => ~StartsWithSlash(x.payload) /\ ~IsPull(x.payload)
  BY <1>4, PullIsCommand DEF ForNetwork
<1>6. x.magic = "data" => ~HasCommand(x)
  BY DEF ForNetwork
<1>7. ForwardStrict(q, came, units)
  BY <1>1, <1>3, <1>5, <1>6 DEF FinalizeComplete
<1> QED
  BY <1>1, <1>7 DEF ForwardStrict

(* The frames for the network that come whole are queued, and nothing else *)
(* is taken for one.                                                       *)
LEMMA ForwardStep ==
  ASSUME NEW q \in Requests, NEW came \in Nat, NEW units \in Nat,
         Finalize(q, came, units), ForwardedWhole,
         sent' = IF came >= Size(q) /\ ForNetwork(Seen(q, came))
                 THEN Append(sent, Content(Seen(q, came))) ELSE sent
  PROVE  ForwardedWhole'
<1> DEFINE whole == came >= Size(q)
           c == Content(Seen(q, came))
<1>1. forwarded = sent /\ \A r \in cut : r.magic = "doubled" \/ Size(r) <= ScanFloor
  BY DEF ForwardedWhole
<1>2. CASE whole /\ ForNetwork(Seen(q, came))
  <2>1. forwarded' = Append(forwarded, c) /\ cut' = cut
    BY <1>2, WholeForwarded DEF Forward
  <2> QED
    BY <1>1, <1>2, <2>1 DEF ForwardedWhole
<1>3. CASE ~(whole /\ ForNetwork(Seen(q, came)))
  <2>1. sent' = sent
    BY <1>3
  <2>2. CASE Answer(Empty, units) \/ Answer(LocalReply, units) \/ Pull(units)
    <3>1. forwarded' = forwarded /\ cut' = cut
      BY <2>2 DEF Answer, Pull
    <3> QED
      BY <1>1, <2>1, <3>1 DEF ForwardedWhole
  <2>3. CASE /\ Forward(q, came, units) /\ Complete(q, came)
             /\ ForNetwork(Seen(q, came))
    <3>1. ~whole /\ forwarded' = forwarded /\ cut' = cut \cup {q}
      BY <1>3, <2>3 DEF Forward
    <3>2. q.magic = "doubled" \/ Size(q) <= ScanFloor
      BY <2>3, <3>1, RequestFacts, SpiAssumption DEF Complete
    <3> QED
      BY <1>1, <2>1, <3>1, <3>2 DEF ForwardedWhole
  <2> QED
    BY <2>2, <2>3, FinalizeCases
<1> QED
  BY <1>2, <1>3

(* What a transaction does to the response that was staged: read in full   *)
(* it is forgotten, else it is kept for the next pull.                     *)
LEMMA PendingFacts ==
  ASSUME Typed, StagedOK, NEW units \in Nat
  PROVE  /\ StillPending(units) \in {None, pending}
         /\ Written(units) => StillPending(units) = None
         /\ ~Written(units) /\ ~disturbed => StillPending(units) = pending
<1>1. pending # None /\ ~disturbed => staged # Empty
  BY ResponseFacts DEF Typed, StagedOK, Replies
<1> QED
  BY <1>1 DEF StillPending, AfterTransfer

(* What a transaction does beside finalize_transaction.                    *)
Step(q, skew, units, came) ==
  /\ Finalize(q, came, units) /\ delivered' = delivered
  /\ sent' = IF came >= Size(q) /\ ForNetwork(Seen(q, came))
             THEN Append(sent, Content(Seen(q, came))) ELSE sent
  /\ received' = IF Written(units) /\ staged.n > 0 THEN Append(received, staged)
                 ELSE received
  /\ ~disturbed' => /\ ~disturbed
                    /\ pending # None /\ staged = pending /\ ~Written(units)
                         => /\ q.magic = "command" /\ IsPull(q.payload)
                            /\ came >= Size(q)

LEMMA TransactionFacts ==
  ASSUME NEW q \in Requests, NEW skew \in Nat, NEW units \in Nat,
         Transaction(q, skew, units)
  PROVE  \E came \in Nat : Step(q, skew, units, came)
<1> DEFINE came == IF units > skew THEN units - skew ELSE 0
<1>1. came \in Nat
  OBVIOUS
<1>2. Step(q, skew, units, came)
  BY DEF Transaction, Step
<1> QED
  BY <1>1, <1>2

LEMMA TransactionTypes ==
  ASSUME NEW q \in Requests, NEW skew \in Nat, NEW units \in Nat,
         Transaction(q, skew, units), Typed, StagedOK
  PROVE  Typed'
<1>1. PICK came \in Nat : Step(q, skew, units, came)
  BY TransactionFacts
<1> USE DEF Step
<1>2. StillPending(units) = None \/ StillPending(units) \in Replies
  BY PendingFacts DEF Typed
<1>3. Depth \in Nat \ {0}
  BY SpiAssumption
<1>4. /\ staged' \in Responses /\ (pending' = None \/ pending' \in Replies)
      /\ toMaster' \in Seq(Replies) /\ Len(toMaster') <= Depth
      /\ toNetwork' \in Seq(Frames) /\ Len(toNetwork') <= Depth
      /\ forwarded' \in Seq(Frames)
  <2>1. CASE Answer(Empty, units) \/ Answer(LocalReply, units)
    BY <1>2, <2>1, ResponseFacts DEF Answer, Typed
  <2>2. CASE Pull(units)
    <3>1. UNCHANGED <<toNetwork, forwarded>>
      BY <2>2 DEF Pull
    <3>2. CASE StillPending(units) # None
      <4>1. pending' = StillPending(units) /\ staged' = StillPending(units)
            /\ toMaster' = toMaster
        BY <2>2, <3>2 DEF Pull
      <4> QED
        BY <1>2, <3>1, <3>2, <4>1 DEF Typed, Replies
    <3>3. CASE StillPending(units) = None /\ toMaster # <<>>
      <4>1. pending' = Head(toMaster) /\ staged' = Head(toMaster)
            /\ toMaster' = Tail(toMaster)
        BY <2>2, <3>3 DEF Pull
      <4>2. Head(toMaster) \in Replies /\ Tail(toMaster) \in Seq(Replies)
            /\ Len(Tail(toMaster)) = Len(toMaster) - 1 /\ Len(toMaster) \in Nat
        BY <3>3, TailFacts DEF Typed
      <4> QED
        BY <1>3, <3>1, <4>1, <4>2 DEF Typed, Replies
    <3>4. CASE StillPending(units) = None /\ toMaster = <<>>
      <4>1. pending' = None /\ staged' = Empty /\ toMaster' = toMaster
        BY <2>2, <3>4 DEF Pull
      <4> QED
        BY <3>1, <4>1, ResponseFacts DEF Typed
    <3> QED
      BY <3>2, <3>3, <3>4
  <2>3. CASE Forward(q, came, units)
    <3> DEFINE c == Content(Seen(q, came))
               room == IF Len(toNetwork) < Depth THEN toNetwork ELSE Tail(toNetwork)
    <3>1. c \in Frames
      BY SeenFacts
    <3>2. /\ toNetwork' = Append(room, c) /\ staged' = Empty /\ toMaster' = toMaster
          /\ pending' = StillPending(units)
          /\ forwarded' \in {forwarded, Append(forwarded, c)}
      BY <2>3 DEF Forward
    <3> HIDE DEF c
    <3>3. room \in Seq(Frames) /\ Len(room) < Depth /\ Len(room) \in Nat
      <4>1. CASE Len(toNetwork) < Depth
        BY <4>1 DEF Typed
      <4>2. CASE ~(Len(toNetwork) < Depth)
        <5>1. toNetwork \in Seq(Frames) /\ Len(toNetwork) = Depth /\ toNetwork # <<>>
          BY <1>3, <4>2 DEF Typed
        <5>2. Tail(toNetwork) \in Seq(Frames) /\ Len(Tail(toNetwork)) = Len(toNetwork) - 1
          BY <5>1, TailFacts
        <5> QED
          BY <1>3, <4>2, <5>1, <5>2
      <4> QED
        BY <4>1, <4>2
    <3> HIDE DEF room
    <3>4. toNetwork' \in Seq(Frames) /\ Len(toNetwork') <= Depth
      BY <1>3, <3>1, <3>2, <3>3, AppendFacts
    <3>5. forwarded' \in Seq(Frames)
      BY <3>1, <3>2, AppendFacts DEF Typed
    <3> QED
      BY <1>2, <3>2, <3>4, <3>5, ResponseFacts DEF Typed
  <2> QED
    BY <1>1, <2>1, <2>2, <2>3, FinalizeCases
<1>5. received' \in Seq(Replies)
  <2>1. staged.n > 0 => staged \in Replies
    BY DEF Typed, Replies
  <2>2. received' = received \/ (staged.n > 0 /\ received' = Append(received, staged))
    BY <1>1
  <2> QED
    BY <2>1, <2>2, AppendFacts DEF Typed
<1>6. sent' \in Seq(Frames)
  <2>1. sent' = sent \/ sent' = Append(sent, Content(Seen(q, came)))
    BY <1>1
  <2> QED
    BY <2>1, SeenFacts, AppendFacts DEF Typed
<1>7. disturbed' \in BOOLEAN
  BY DEF Transaction
<1> QED
  BY <1>1, <1>4, <1>5, <1>6, <1>7 DEF Typed

(* A reply moves on from the mailbox to the master, or stays where it is.  *)
LEMMA TransactionPulls ==
  ASSUME NEW q \in Requests, NEW skew \in Nat, NEW units \in Nat,
         Transaction(q, skew, units), SpiInv
  PROVE  StagedOK' /\ PulledExact'
<1> DEFINE Kept(p) == IF p = None THEN <<>> ELSE <<p>>
           got == Written(units) /\ staged.n > 0
<1>1. Typed /\ StagedOK /\ PulledExact
  BY DEF SpiInv
<1> PICK came \in Nat : Step(q, skew, units, came)
  BY TransactionFacts
<1>2. /\ Finalize(q, came, units) /\ delivered' = delivered
      /\ received' = IF got THEN Append(received, staged) ELSE received
  BY DEF Step
<1>3. \/ Answer(Empty, units) \/ Answer(LocalReply, units) \/ Pull(units)
      \/ Forward(q, came, units)
  BY <1>2, FinalizeCases
<1>4. \/ staged'.n = 0 /\ pending' = StillPending(units) /\ toMaster' = toMaster
      \/ Pull(units)
  BY <1>3, ResponseFacts DEF Answer, Forward
<1>5. CASE disturbed'
  <2>1. PulledExact'
    BY <1>5 DEF PulledExact
  <2>2. pending' = None => staged'.n = 0
    <3>1. CASE Pull(units)
      <4>1. toMaster # <<>> => Head(toMaster) # None
        BY <1>1, TailFacts, ResponseFacts DEF Typed, Replies
      <4> QED
        BY <3>1, <4>1, ResponseFacts DEF Pull
    <3> QED
      BY <1>4, <3>1
  <2> QED
    BY <1>5, <2>1, <2>2 DEF StagedOK
<1>6. CASE ~disturbed'
  <2>1. /\ ~disturbed
        /\ pending # None /\ staged = pending /\ ~Written(units)
             => q.magic = "command" /\ IsPull(q.payload) /\ came >= Size(q)
    BY <1>6 DEF Step
  <2>2. received \o Kept(pending) \o toMaster = delivered
    BY <1>1, <2>1 DEF PulledExact
  <2>3. pending # None => staged = pending /\ pending \in Replies /\ pending.n > 0
    BY <1>1, <2>1 DEF Typed, StagedOK, Replies
  <2>4. /\ received' \o Kept(StillPending(units)) \o toMaster = delivered
        /\ StillPending(units) # None => Pull(units)
    <3>1. CASE pending = None
      <4>1. StillPending(units) = None /\ ~got
        BY <1>1, <3>1, PendingFacts DEF StagedOK, Typed, Responses
      <4> QED
        BY <1>2, <2>2, <3>1, <4>1
    <3>2. CASE pending # None /\ Written(units)
      <4>1. StillPending(units) = None /\ got
        BY <1>1, <2>3, <3>2, PendingFacts
      <4>2. received' = received \o <<pending>>
        BY <1>1, <1>2, <2>3, <3>2, <4>1, AppendFacts DEF Typed
      <4>3. received' \in Seq(Replies)
        BY <1>1, TransactionTypes DEF Typed
      <4>4. received' \o <<>> = received'
        BY <4>3
      <4> QED
        BY <2>2, <3>2, <4>1, <4>2, <4>4
    <3>3. CASE pending # None /\ ~Written(units)
      <4>1. StillPending(units) = pending /\ ~got
        BY <1>1, <2>1, <3>3, PendingFacts
      <4>2. Pull(units)
        BY <1>2, <2>1, <2>3, <3>3, PullAnswered
      <4> QED
        BY <1>2, <2>2, <3>3, <4>1, <4>2
    <3> QED
      BY <3>1, <3>2, <3>3
  <2>5. CASE /\ staged'.n = 0 /\ pending' = StillPending(units) /\ toMaster' = toMaster
             /\ ~Pull(units)
    <3>1. pending' = None
      BY <2>4, <2>5
    <3> QED
      BY <1>2, <2>4, <2>5, <3>1 DEF StagedOK, PulledExact
  <2>6. CASE Pull(units)
    <3>1. CASE StillPending(units) # None
      <4>1. pending' = StillPending(units) /\ staged' = pending' /\ toMaster' = toMaster
        BY <2>6, <3>1 DEF Pull
      <4> QED
        BY <1>2, <2>4, <3>1, <4>1 DEF StagedOK, PulledExact
    <3>2. CASE StillPending(units) = None /\ toMaster # <<>>
      <4>1. pending' = Head(toMaster) /\ staged' = pending' /\ toMaster' = Tail(toMaster)
        BY <2>6, <3>2 DEF Pull
      <4>2. <<Head(toMaster)>> \o Tail(toMaster) = toMaster /\ Head(toMaster) \in Replies
            /\ Tail(toMaster) \in Seq(Replies)
        BY <1>1, <3>2, TailFacts DEF Typed
      <4>3. received' \in Seq(Replies)
        BY <1>1, TransactionTypes DEF Typed
      <4>4. received' \o <<>> = received' /\ pending' # None
        BY <4>1, <4>2, <4>3, ResponseFacts DEF Replies
      <4>5. (received' \o <<Head(toMaster)>>) \o Tail(toMaster)
              = received' \o (<<Head(toMaster)>> \o Tail(toMaster))
        <5>1. <<Head(toMaster)>> \in Seq(Replies)
          BY <4>2
        <5> QED
          BY SMTT(30), <4>2, <4>3, <5>1, ConcatFacts
      <4>6. received' \o toMaster = delivered
        BY <2>4, <3>2, <4>4
      <4> QED
        BY <1>2, <4>1, <4>2, <4>4, <4>5, <4>6 DEF StagedOK, PulledExact
    <3>3. CASE StillPending(units) = None /\ toMaster = <<>>
      <4>1. pending' = None /\ staged' = Empty /\ toMaster' = toMaster
        BY <2>6, <3>3 DEF Pull
      <4> QED
        BY <1>2, <2>4, <3>3, <4>1, ResponseFacts DEF StagedOK, PulledExact
    <3> QED
      BY <3>1, <3>2, <3>3
  <2> QED
    BY <1>4, <2>5, <2>6
<1> QED
  BY <1>5, <1>6

LEMMA TakeStep ==
  ASSUME SpiInv, SessionTake
  PROVE  SpiInv'
<1>1. toNetwork' \in Seq(Frames) /\ Len(toNetwork') <= Depth
  <2>1. toNetwork \in Seq(Frames) /\ toNetwork # <<>> /\ Len(toNetwork) <= Depth
    BY DEF SpiInv, Typed, SessionTake
  <2>2. Tail(toNetwork) \in Seq(Frames) /\ Len(Tail(toNetwork)) = Len(toNetwork) - 1
        /\ Len(toNetwork) \in Nat
    BY <2>1, TailFacts
  <2> QED
    BY <2>1, <2>2, SpiAssumption DEF SessionTake
<1>2. UNCHANGED <<staged, pending, toMaster, sent, forwarded, cut, delivered, received,
                  disturbed>>
  BY DEF SessionTake
<1>3. Typed'
  BY <1>1, <1>2 DEF SpiInv, Typed
<1>4. StagedOK' /\ PulledExact' /\ ForwardedWhole'
  BY <1>2 DEF SpiInv, StagedOK, PulledExact, ForwardedWhole
<1> QED
  BY <1>3, <1>4 DEF SpiInv

LEMMA ReplyStep ==
  ASSUME SpiInv, NEW size \in ReplySizes, SessionReply(size)
  PROVE  SpiInv'
<1> DEFINE r == Response("data", Len(delivered) + 1, size)
<1>1. Typed /\ PulledExact
  BY DEF SpiInv
<1>2. delivered \in Seq(Replies) /\ toMaster \in Seq(Replies) /\ received \in Seq(Replies)
  BY <1>1 DEF Typed
<1>3. r \in Replies
  <2>1. Len(delivered) < MaxReplies /\ Len(delivered) \in Nat /\ MaxReplies \in Nat
    BY <1>2, SpiAssumption DEF SessionReply
  <2>2. Len(delivered) + 1 \in 0 .. MaxReplies /\ Len(delivered) + 1 > 0 /\ size \in Nat
    BY <2>1, SpiAssumption
  <2> QED
    BY <2>2 DEF Response, Responses, Replies
<1> HIDE DEF r
<1>4. delivered' = Append(delivered, r)
  BY DEF SessionReply, r
<1>5. toMaster' = Append(toMaster, r)
  <2>1. Append(delivered, r)[Len(Append(delivered, r))] = r
    BY <1>2, <1>3
  <2> QED
    BY <1>4, <2>1 DEF SessionReply, Last
<1>6. UNCHANGED <<staged, pending, toNetwork, sent, forwarded, cut, received, disturbed>>
  BY DEF SessionReply
<1>7. Typed'
  <2>1. delivered' \in Seq(Replies) /\ toMaster' \in Seq(Replies)
        /\ Len(delivered') = Len(delivered) + 1 /\ Len(toMaster') = Len(toMaster) + 1
        /\ Len(delivered) \in Nat /\ Len(toMaster) \in Nat
    BY <1>2, <1>3, <1>4, <1>5, AppendFacts
  <2>2. Len(delivered') <= MaxReplies /\ Len(toMaster') <= Depth
    BY <2>1, SpiAssumption DEF SessionReply
  <2> QED
    BY <1>1, <1>6, <2>1, <2>2 DEF Typed
<1>8. PulledExact'
  <2>1. SUFFICES ASSUME ~disturbed
                 PROVE  received \o (IF pending = None THEN <<>> ELSE <<pending>>)
                          \o toMaster' = delivered'
    BY <1>6 DEF PulledExact
  <2> DEFINE got == received \o (IF pending = None THEN <<>> ELSE <<pending>>)
  <2>2. got \in Seq(Replies) /\ got \o toMaster = delivered
    BY <1>1, <1>2, <2>1 DEF Typed, PulledExact
  <2>3. PICK k \in Seq(Replies) : k = got
    BY <2>2
  <2> HIDE DEF got
  <2>4. (k \o toMaster) \o <<r>> = k \o (toMaster \o <<r>>)
    BY SMTT(30), <1>2, <1>3
  <2>5. got \o toMaster' = delivered'
    BY <1>2, <1>3, <1>4, <1>5, <2>2, <2>3, <2>4, AppendFacts
  <2> QED
    BY <2>5 DEF got
<1>9. StagedOK' /\ ForwardedWhole'
  BY <1>6 DEF SpiInv, StagedOK, ForwardedWhole
<1> QED
  BY <1>7, <1>8, <1>9 DEF SpiInv

LEMMA SpiSafe == Spec => []SpiInv
<1>1. Init => SpiInv
  <2> SUFFICES ASSUME Init PROVE SpiInv
    OBVIOUS
  <2>1. staged \in Responses /\ pending = None /\ disturbed \in BOOLEAN
    BY ResponseFacts DEF Init
  <2>2. /\ toNetwork \in Seq(Frames) /\ Len(toNetwork) <= Depth
        /\ toMaster \in Seq(Replies) /\ Len(toMaster) <= Depth
        /\ delivered \in Seq(Replies) /\ Len(delivered) <= MaxReplies
    BY SpiAssumption DEF Init
  <2>3. /\ received \in Seq(Replies)
        /\ forwarded \in Seq(Frames) /\ sent \in Seq(Frames)
    BY DEF Init
  <2>4. StagedOK /\ PulledExact /\ ForwardedWhole
    BY ResponseFacts DEF Init, StagedOK, PulledExact, ForwardedWhole
  <2> QED
    BY <2>1, <2>2, <2>3, <2>4 DEF SpiInv, Typed
<1>2. SpiInv /\ [Next]_vars => SpiInv'
  <2> SUFFICES ASSUME SpiInv, [Next]_vars PROVE SpiInv'
    OBVIOUS
  <2>1. ASSUME NEW q \in Requests, NEW skew \in 0 .. MaxSkew, NEW units \in 0 .. MaxUnits,
               Transaction(q, skew, units)
        PROVE  SpiInv'
    <3>1. skew \in Nat /\ units \in Nat
      BY SpiAssumption
    <3>2. ForwardedWhole'
      <4>1. PICK came \in Nat : Step(q, skew, units, came)
        BY <2>1, <3>1, TransactionFacts
      <4> QED
        BY <3>1, <4>1, ForwardStep DEF Step, SpiInv
    <3> QED
      BY <2>1, <3>1, <3>2, TransactionTypes, TransactionPulls DEF SpiInv
  <2>2. CASE SessionTake
    BY <2>2, TakeStep
  <2>3. CASE \E size \in ReplySizes : SessionReply(size)
    BY <2>3, ReplyStep
  <2>4. CASE UNCHANGED vars
    BY <2>4 DEF vars, SpiInv, Typed, StagedOK, PulledExact, ForwardedWhole
  <2> QED
    BY <2>1, <2>2, <2>3, <2>4 DEF Next
<1> QED
  BY <1>1, <1>2, PTL DEF Spec

-----------------------------------------------------------------------------
(* The theorems.                                                           *)

(***************************************************************************)
(* SpiTypes: in every execution the mailboxes stay within their depth and  *)
(* what is staged or kept is a reply of the network or a local one.        *)
(***************************************************************************)
THEOREM SpiTypes == Spec => []TypeOK
<1>1. SpiInv => TypeOK
  BY DEF SpiInv, Typed, TypeOK, IsResponse, Responses, Replies
<1> QED
  BY <1>1, SpiSafe, PTL

(***************************************************************************)
(* PullsExact: however the master cuts its transactions, it gets every     *)
(* frame of the network once and in order, as long as it pulls again what  *)
(* it read in part.                                                        *)
(***************************************************************************)
THEOREM PullsExact == Spec => []PulledExact
<1>1. SpiInv => PulledExact
  BY DEF SpiInv
<1> QED
  BY <1>1, SpiSafe, PTL

(***************************************************************************)
(* FramesForwarded: whatever bytes the requests hold and however they are  *)
(* cut, the frames for the network that came whole are queued in order     *)
(* with the bytes the master sent, and nothing else that came whole is; a  *)
(* queued frame that did not has no more than ScanFloor units or had lost  *)
(* its magic.                                                              *)
(***************************************************************************)
THEOREM FramesForwarded == Spec => []ForwardedWhole
<1>1. SpiInv => ForwardedWhole
  BY DEF SpiInv
<1> QED
  BY <1>1, SpiSafe, PTL
=============================================================================
