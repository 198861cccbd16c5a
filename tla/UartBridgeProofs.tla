-------------------------- MODULE UartBridgeProofs --------------------------
(***************************************************************************)
(* Proofs about UartBridge for every depth of the mailboxes and every      *)
(* number of sessions and frames.                                          *)
(***************************************************************************)
EXTENDS UartBridge, TLAPS

(* The members of TypeOK, each on its own.                                 *)
Typed ==
  /\ linkActive \in BOOLEAN /\ phase \in Phases
  /\ toNetwork \in Seq(FrameSet) /\ Len(toNetwork) <= Depth
  /\ toUart \in Seq(FrameSet) /\ Len(toUart) <= Depth
  /\ sending \in Seq(FrameSet) /\ Len(sending) <= 1
  /\ pushing \in Seq(FrameSet) /\ Len(pushing) <= 1
  /\ held \in Seq(FrameSet) /\ Len(held) <= 1
  /\ writing \in Seq(FrameSet) /\ Len(writing) <= 1
  /\ epoch \in 0 .. MaxEpoch
  /\ upCount \in 0 .. MaxUp /\ downCount \in 0 .. MaxDown /\ localCount \in 0 .. MaxLocal
  /\ admitted \in Seq(FrameSet) /\ sent \in Seq(FrameSet) /\ written \in Seq(FrameSet)

(* LINK_ACTIVE is set in a session, and until whoever ends it clears it.   *)
FlagOK ==
  /\ linkActive => phase \in {"session", "closing", "cancelled"}
  /\ phase = "session" => linkActive

(* The loops of forward_tcp hold a frame only in a session.                *)
LoopsOK == phase # "session" => sending = <<>> /\ pushing = <<>>

(* No frame is of a session to come.                                       *)
EpochsOK ==
  /\ held # <<>> => held[1].epoch <= epoch
  /\ \A i \in 1 .. Len(toNetwork) : toNetwork[i].epoch <= epoch

(* Behind the drain there is at most one frame, queued or held.            *)
DrainedOK == phase \in {"connect", "handshake"} => Len(toNetwork) + Len(held) <= 1

(* A session uploads what it admitted, behind one stale frame at most; as  *)
(* long as that one is held there is nothing else.                         *)
SessionOK ==
  phase = "session" =>
    /\ \A i \in 1 .. Len(admitted) : Current(admitted[i])
    /\ held # <<>> /\ ~Current(held[1]) => Upload = <<>> /\ admitted = <<>>
    /\ UploadExact

UpInv == Typed /\ FlagOK /\ LoopsOK /\ EpochsOK /\ DrainedOK /\ SessionOK

(* A downlink frame comes before another one, and is in a sequence.        *)
Before(f, g) == f.epoch < g.epoch \/ (f.epoch = g.epoch /\ f.n < g.n)
In(f, s) == f.kind = "down" /\ \E i \in 1 .. Len(s) : s[i] = f
Somewhere(f) == In(f, written) \/ In(f, writing) \/ In(f, toUart) \/ In(f, pushing)

Sorted(s) ==
  \A i, j \in 1 .. Len(s) :
    i < j /\ s[i].kind = "down" /\ s[j].kind = "down" => Before(s[i], s[j])
Ahead(s, t) == \A f, g \in FrameSet : In(f, s) /\ In(g, t) => Before(f, g)

(* The frames are in the order in which the peer sent them, from the UART  *)
(* back to the session.                                                    *)
OrderOK ==
  /\ Sorted(written) /\ Sorted(toUart)
  /\ Ahead(written, writing) /\ Ahead(written, toUart) /\ Ahead(written, pushing)
  /\ Ahead(writing, toUart) /\ Ahead(writing, pushing) /\ Ahead(toUart, pushing)

(* One is there only with the one before it; none is of a later session or *)
(* has a number that was not yet given.                                    *)
Rooted(f) ==
  /\ f.n >= 1 /\ f.epoch <= epoch /\ (f.epoch = epoch => f.n <= downCount)
  /\ f.n > 1 => Somewhere(Frame("down", f.epoch, f.n - 1))

ChainOK ==
  /\ \A i \in 1 .. Len(written) : written[i].kind = "down"
  /\ \A f \in FrameSet : Somewhere(f) => Rooted(f)
  /\ phase = "session" /\ downCount > 0 => Somewhere(Frame("down", epoch, downCount))

DownInv == Typed /\ OrderOK /\ ChainOK

-----------------------------------------------------------------------------
(* Append leaves the elements where they are and puts the new one last.    *)
LEMMA AppendFacts ==
  ASSUME NEW S, NEW s \in Seq(S), NEW e \in S
  PROVE  /\ Append(s, e) \in Seq(S)
         /\ Len(Append(s, e)) = Len(s) + 1
         /\ \A i \in 1 .. Len(s) : Append(s, e)[i] = s[i]
         /\ Append(s, e)[Len(s) + 1] = e
  OBVIOUS

(* Tail drops the first element and moves the others up by one.            *)
LEMMA TailFacts ==
  ASSUME NEW S, NEW s \in Seq(S), s # <<>>
  PROVE  /\ Len(s) \in Nat \ {0}
         /\ s[1] \in S /\ Head(s) = s[1]
         /\ Tail(s) \in Seq(S)
         /\ Len(Tail(s)) = Len(s) - 1
         /\ \A i \in 1 .. Len(s) - 1 : Tail(s)[i] = s[i + 1]
  OBVIOUS

(* A sequence of one element.                                              *)
LEMMA OneFacts ==
  ASSUME NEW S, NEW e \in S
  PROVE  <<e>> \in Seq(S) /\ Len(<<e>>) = 1 /\ <<e>>[1] = e /\ <<e>> # <<>>
  OBVIOUS

(* A sequence of none.                                                     *)
LEMMA NoneFacts ==
  ASSUME NEW S
  PROVE  <<>> \in Seq(S) /\ Len(<<>>) = 0
  OBVIOUS

(* Nothing but the empty sequence has no element.                          *)
LEMMA EmptyFacts ==
  ASSUME NEW S, NEW s \in Seq(S)
  PROVE  s = <<>> <=> Len(s) = 0
  OBVIOUS

(* A sequence that has room for one element and is not empty.              *)
LEMMA SlotFacts ==
  ASSUME NEW S, NEW s \in Seq(S), Len(s) <= 1, s # <<>>
  PROVE  Len(s) = 1 /\ s[1] \in S /\ Head(s) = s[1] /\ Tail(s) = <<>>
<1>1. Len(s) = 1 /\ s[1] \in S /\ Head(s) = s[1] /\ Tail(s) \in Seq(S) /\ Len(Tail(s)) = 0
  OBVIOUS
<1> QED
  BY <1>1, EmptyFacts

(* Frame makes a frame.                                                    *)
LEMMA FrameFacts ==
  ASSUME NEW k \in {"up", "down", "reply"}, NEW e \in 0 .. MaxEpoch,
         NEW n \in 0 .. MaxUp + MaxDown + MaxLocal
  PROVE  /\ Frame(k, e, n) \in FrameSet
         /\ Frame(k, e, n).kind = k /\ Frame(k, e, n).epoch = e /\ Frame(k, e, n).n = n
  BY DEF Frame, FrameSet

LEMMA TypedIsTypeOK == Typed <=> TypeOK
  BY DEF Typed, TypeOK

LEMMA InitTyped == Init => Typed
<1> SUFFICES ASSUME Init PROVE Typed
  OBVIOUS
<1>1. linkActive \in BOOLEAN /\ phase \in Phases
  BY DEF Init, Phases
<1> QED
  BY <1>1, UartAssumption, NoneFacts DEF Init, Typed

LEMMA TypedKept == Typed /\ [Next]_vars => Typed'
<1> SUFFICES ASSUME Typed, [Next]_vars PROVE Typed'
  OBVIOUS
<1> USE DEF Typed
<1>0. /\ Depth \in Nat \ {0}
      /\ MaxEpoch \in Nat /\ MaxUp \in Nat /\ MaxDown \in Nat /\ MaxLocal \in Nat
  BY UartAssumption
<1>1. CASE ReceiveData
  <2>1. upCount + 1 \in 0 .. MaxUp + MaxDown + MaxLocal
    BY <1>1, <1>0 DEF ReceiveData
  <2>2. Frame("up", epoch, upCount + 1) \in FrameSet
    BY <2>1, FrameFacts
  <2>3. held' \in Seq(FrameSet) /\ Len(held') <= 1
    BY <2>2, <1>1, OneFacts DEF ReceiveData
  <2> QED
    BY <2>3, <1>1, <1>0 DEF ReceiveData, core0
<1>2. CASE AdmitUart
  <2>1. held[1] \in FrameSet /\ held' \in Seq(FrameSet) /\ Len(held') <= 1
    BY <1>2, TailFacts, NoneFacts DEF AdmitUart
  <2>2. CASE Len(toNetwork) < Depth
    <3>1. \A s \in Seq(FrameSet) : /\ Append(s, held[1]) \in Seq(FrameSet)
                                   /\ Len(Append(s, held[1])) = Len(s) + 1
      BY <2>1, AppendFacts
    <3>2. toNetwork' = Append(toNetwork, held[1])
      BY <1>2, <2>2, <1>0 DEF AdmitUart
    <3>3. toNetwork' \in Seq(FrameSet) /\ Len(toNetwork') <= Depth
      BY <3>1, <3>2, <2>2, <1>0
    <3>4. admitted' = Append(admitted, held[1]) \/ admitted' = admitted
      BY <1>2 DEF AdmitUart
    <3>5. admitted' \in Seq(FrameSet)
      BY <3>1, <3>4
    <3> QED
      BY <1>2, <2>1, <3>3, <3>5 DEF AdmitUart, core0, counts
  <2>3. CASE toNetwork' = toNetwork /\ admitted' = admitted
    BY <1>2, <2>1, <2>3 DEF AdmitUart, core0, counts
  <2> QED
    BY <1>2, <2>2, <2>3 DEF AdmitUart
<1>3. CASE ReceiveLocal
  <2>1. localCount + 1 \in 0 .. MaxUp + MaxDown + MaxLocal
    BY <1>3, <1>0 DEF ReceiveLocal
  <2>2. Frame("reply", epoch, localCount + 1) \in FrameSet
    BY <2>1, FrameFacts
  <2>3. toUart' \in Seq(FrameSet) /\ Len(toUart') <= Depth
    BY <2>2, <1>3, <1>0, AppendFacts DEF ReceiveLocal
  <2> QED
    BY <2>3, <1>3, <1>0 DEF ReceiveLocal, core0, core1
<1>4. CASE TransmitPop
  <2>1. writing' \in Seq(FrameSet) /\ Len(writing') <= 1
    BY <1>4, TailFacts, OneFacts DEF TransmitPop
  <2>2. toUart' \in Seq(FrameSet) /\ Len(toUart') <= Depth
    BY <1>4, <1>0, TailFacts DEF TransmitPop
  <2> QED
    BY <1>4, <2>1, <2>2 DEF TransmitPop, core0, counts
<1>5. CASE TransmitWrite
  <2>1. written' \in Seq(FrameSet)
    BY <1>5, TailFacts, AppendFacts DEF TransmitWrite
  <2> QED
    BY <1>5, <2>1 DEF TransmitWrite, core0, counts
<1>6. CASE Start \/ Connect \/ Close \/ Reconnect \/ RunAgain
  BY <1>6 DEF Start, Connect, Close, Reconnect, RunAgain, core1, counts, Phases
<1>7. CASE Drain
  <2>1. CASE toNetwork # <<>> /\ toNetwork' = Tail(toNetwork)
    BY <2>1, <1>7, <1>0, TailFacts DEF Drain, core1, counts, Phases
  <2>2. CASE toNetwork' = toNetwork
    BY <2>2, <1>7 DEF Drain, core1, counts, Phases
  <2> QED
    BY <1>7, <2>1, <2>2 DEF Drain
<1>8. CASE Handshake
  <2>1. linkActive' \in BOOLEAN /\ phase' \in Phases
    BY <1>8 DEF Handshake, Phases
  <2>2. epoch' \in 0 .. MaxEpoch /\ downCount' \in 0 .. MaxDown
    <3>1. \/ epoch' = epoch /\ downCount' = downCount
          \/ epoch < MaxEpoch /\ epoch' = epoch + 1 /\ downCount' = 0
      BY <1>8 DEF Handshake
    <3>2. epoch \in 0 .. MaxEpoch /\ downCount \in 0 .. MaxDown
      OBVIOUS
    <3> HIDE DEF Typed
    <3> QED
      BY <1>0, <3>1, <3>2
  <2>3. admitted' \in Seq(FrameSet) /\ sent' \in Seq(FrameSet)
    BY <1>8, NoneFacts DEF Handshake
  <2> QED
    BY <1>8, <2>1, <2>2, <2>3 DEF Handshake, core1
<1>9. CASE SendPop
  <2>1. sending' \in Seq(FrameSet) /\ Len(sending') <= 1
    BY <1>9, TailFacts, OneFacts DEF SendPop
  <2>2. toNetwork' \in Seq(FrameSet) /\ Len(toNetwork') <= Depth
    BY <1>9, <1>0, TailFacts DEF SendPop
  <2> QED
    BY <1>9, <2>1, <2>2 DEF SendPop, core1, counts
<1>10. CASE SendWrite
  <2>1. sent' \in Seq(FrameSet)
    BY <1>10, TailFacts, AppendFacts DEF SendWrite
  <2> QED
    BY <1>10, <2>1 DEF SendWrite, core1, counts
<1>11. CASE ReceiveFrame
  <2>1. downCount + 1 \in 0 .. MaxUp + MaxDown + MaxLocal
    BY <1>11, <1>0 DEF ReceiveFrame
  <2>2. Frame("down", epoch, downCount + 1) \in FrameSet
    BY <2>1, FrameFacts
  <2>3. pushing' \in Seq(FrameSet) /\ Len(pushing') <= 1
    BY <2>2, <1>11, OneFacts DEF ReceiveFrame
  <2> QED
    BY <2>3, <1>11, <1>0 DEF ReceiveFrame, core1
<1>12. CASE PushDown
  <2>1. toUart' \in Seq(FrameSet) /\ Len(toUart') <= Depth
    BY <1>12, <1>0, TailFacts, AppendFacts DEF PushDown
  <2> QED
    BY <1>12, <2>1 DEF PushDown, core1, counts
<1>13. CASE SessionEnds \/ AddressChange
  <2>1. sending' = <<>> /\ pushing' = <<>>
    BY <1>13 DEF SessionEnds, AddressChange
  <2>2. <<>> \in Seq(FrameSet) /\ Len(<<>>) <= 1
    BY NoneFacts
  <2> QED
    BY <1>13, <2>1, <2>2 DEF SessionEnds, AddressChange, core1, counts, Phases
<1>14. CASE UNCHANGED vars
  BY <1>14 DEF vars
<1> QED
  BY <1>1, <1>2, <1>3, <1>4, <1>5, <1>6, <1>7, <1>8, <1>9, <1>10, <1>11, <1>12,
     <1>13, <1>14 DEF Next, Core0, Core1

(***************************************************************************)
(* UartTypes: every variable keeps its type, and no mailbox or loop holds  *)
(* more frames than it has room for.                                       *)
(***************************************************************************)
THEOREM UartTypes == Spec => []TypeOK
<1>1. Spec => []Typed
  BY InitTyped, TypedKept, PTL DEF Spec
<1> QED
  BY <1>1, TypedIsTypeOK, PTL


-----------------------------------------------------------------------------
(* The upload.                                                             *)

(* Popping moves the border between what is sent and what is queued.       *)
LEMMA PopKeepsUpload ==
  ASSUME NEW S, NEW a \in Seq(S), NEW t \in Seq(S), t # <<>>
  PROVE  a \o <<Head(t)>> \o Tail(t) = a \o <<>> \o t
  OBVIOUS

(* So does the end of a write.                                             *)
LEMMA WriteKeepsUpload ==
  ASSUME NEW S, NEW a \in Seq(S), NEW e \in S, NEW t \in Seq(S)
  PROVE  Append(a, e) \o <<>> \o t = a \o <<e>> \o t
  OBVIOUS

(* What is queued last is uploaded last.                                   *)
LEMMA QueueGrowsUpload ==
  ASSUME NEW S, NEW a \in Seq(S), NEW b \in Seq(S), NEW t \in Seq(S), NEW e \in S
  PROVE  a \o b \o Append(t, e) = Append(a \o b \o t, e)
  OBVIOUS

LEMMA UploadTyped == Typed => Upload \in Seq(FrameSet)
  BY DEF Typed, Upload

(* Append and Tail commute on what is not empty.                           *)
LEMMA TailOfAppend ==
  ASSUME NEW S, NEW s \in Seq(S), s # <<>>, NEW e \in S
  PROVE  Tail(Append(s, e)) = Append(Tail(s), e) /\ Head(Append(s, e)) = Head(s)
  OBVIOUS

LEMMA InitUpInv == Init => UpInv
<1> SUFFICES ASSUME Init PROVE UpInv
  OBVIOUS
<1>1. Typed
  BY InitTyped
<1> QED
  BY <1>1 DEF Init, UpInv, FlagOK, LoopsOK, EpochsOK, DrainedOK, SessionOK

LEMMA FlagKept == FlagOK /\ [Next]_vars => FlagOK'
  BY DEF FlagOK, Next, Core0, Core1, ReceiveData, AdmitUart, ReceiveLocal, TransmitPop, TransmitWrite, Start, Drain, Connect,
        Handshake, SendPop, SendWrite, ReceiveFrame, PushDown, SessionEnds, Close, Reconnect,
        AddressChange, RunAgain, core0, core1, counts, vars

LEMMA LoopsKept == LoopsOK /\ [Next]_vars => LoopsOK'
  BY DEF LoopsOK, Next, Core0, Core1, ReceiveData, AdmitUart, ReceiveLocal, TransmitPop, TransmitWrite, Start, Drain, Connect,
        Handshake, SendPop, SendWrite, ReceiveFrame, PushDown, SessionEnds, Close, Reconnect,
        AddressChange, RunAgain, core0, core1, counts, vars

LEMMA EpochsKept == Typed /\ EpochsOK /\ [Next]_vars => EpochsOK'
<1> SUFFICES ASSUME Typed, EpochsOK, [Next]_vars PROVE EpochsOK'
  OBVIOUS
<1>a. \A f \in FrameSet : f.epoch \in Nat
  BY UartAssumption DEF FrameSet
<1>b. epoch' = epoch \/ epoch' = epoch + 1
  BY DEF Next, Core0, Core1, ReceiveData, AdmitUart, ReceiveLocal, TransmitPop, TransmitWrite, Start, Drain, Connect,
        Handshake, SendPop, SendWrite, ReceiveFrame, PushDown, SessionEnds, Close, Reconnect,
        AddressChange, RunAgain, core0, core1, counts, vars
<1>0. /\ epoch \in Nat /\ epoch' \in Nat /\ epoch <= epoch'
      /\ toNetwork \in Seq(FrameSet) /\ held \in Seq(FrameSet)
      /\ \A f \in FrameSet : f.epoch \in Nat
  BY <1>a, <1>b, UartAssumption DEF Typed
<1>1. CASE ReceiveData
  <2>1. held' = <<>> \/ (held' = <<Frame("up", epoch, upCount + 1)>> /\ epoch' = epoch)
    BY <1>1 DEF ReceiveData
  <2>2. Frame("up", epoch, upCount + 1).epoch = epoch
    BY DEF Frame
  <2> QED
    BY <1>0, <1>1, <2>1, <2>2 DEF ReceiveData, EpochsOK
<1>2. CASE AdmitUart
  <2>1. held[1] \in FrameSet /\ held[1].epoch <= epoch /\ held' = <<>> /\ epoch' = epoch
    BY <1>0, <1>2, TailFacts DEF AdmitUart, EpochsOK
  <2>2. toNetwork' = toNetwork \/ toNetwork' = Append(toNetwork, held[1])
    BY <1>2 DEF AdmitUart
  <2>3. CASE toNetwork' = Append(toNetwork, held[1])
    BY <1>0, <2>1, <2>3, AppendFacts DEF EpochsOK
  <2> QED
    BY <2>1, <2>2, <2>3 DEF EpochsOK
<1>3. CASE Drain \/ SendPop
  <2>1. /\ held' = held /\ epoch' = epoch
        /\ toNetwork' = toNetwork \/ (toNetwork # <<>> /\ toNetwork' = Tail(toNetwork))
    BY <1>3 DEF Drain, SendPop, core1
  <2>2. CASE toNetwork # <<>> /\ toNetwork' = Tail(toNetwork)
    BY <1>0, <2>1, <2>2, TailFacts DEF EpochsOK
  <2> QED
    BY <2>1, <2>2 DEF EpochsOK
<1>4. CASE held' = held /\ toNetwork' = toNetwork
  <2>1. held # <<>> => held[1] \in FrameSet
    BY <1>0, TailFacts
  <2>2. \A i \in 1 .. Len(toNetwork) : toNetwork[i] \in FrameSet
    BY <1>0
  <2> QED
    BY <1>0, <1>4, <2>1, <2>2 DEF EpochsOK
<1> QED
  BY <1>1, <1>2, <1>3, <1>4 DEF Next, Core0, Core1, ReceiveData, AdmitUart, ReceiveLocal, TransmitPop, TransmitWrite, Start, Drain, Connect,
        Handshake, SendPop, SendWrite, ReceiveFrame, PushDown, SessionEnds, Close, Reconnect,
        AddressChange, RunAgain, core0, core1, counts, vars

LEMMA DrainedKept == Typed /\ FlagOK /\ DrainedOK /\ [Next]_vars => DrainedOK'
<1> SUFFICES ASSUME Typed, FlagOK, DrainedOK, [Next]_vars PROVE DrainedOK'
  OBVIOUS
<1>0. /\ toNetwork \in Seq(FrameSet) /\ Len(toNetwork) \in Nat
      /\ held \in Seq(FrameSet) /\ Len(held) \in Nat /\ Len(held) <= 1
      /\ Len(<<>>) = 0
  BY DEF Typed
<1>1. CASE ReceiveData
  BY <1>0, <1>1 DEF ReceiveData, DrainedOK, FlagOK, core0
<1>2. CASE AdmitUart
  <2>a. held # <<>> /\ held' = <<>> /\ phase' = phase
    BY <1>2 DEF AdmitUart, core0
  <2>1. held # <<>> /\ held' = <<>> /\ Len(held) = 1 /\ held[1] \in FrameSet /\ phase' = phase
    BY <1>0, <2>a, SlotFacts
  <2>2. toNetwork' = toNetwork \/ toNetwork' = Append(toNetwork, held[1])
    BY <1>2 DEF AdmitUart
  <2>3. Len(toNetwork') <= Len(toNetwork) + 1
    BY <1>0, <2>1, <2>2, AppendFacts
  <2>4. Len(toNetwork') \in Nat
    BY <1>0, <2>1, <2>2, AppendFacts
  <2> QED
    BY <1>0, <2>1, <2>3, <2>4 DEF DrainedOK
<1>3. CASE Drain
  BY <1>0, <1>3 DEF Drain, DrainedOK, core1
<1>4. CASE /\ held' = held /\ toNetwork' = toNetwork
           /\ phase' \in {"connect", "handshake"} => phase \in {"connect", "handshake"}
  BY <1>4 DEF DrainedOK
<1>5. CASE SendPop
  BY <1>5 DEF SendPop, DrainedOK
<1> QED
  BY <1>1, <1>2, <1>3, <1>4, <1>5 DEF Next, Core0, Core1, ReceiveData, AdmitUart, ReceiveLocal, TransmitPop, TransmitWrite, Start, Drain, Connect,
        Handshake, SendPop, SendWrite, ReceiveFrame, PushDown, SessionEnds, Close, Reconnect,
        AddressChange, RunAgain, core0, core1, counts, vars

(* A session begins with at most one frame, and that one is stale.         *)
LEMMA SessionBegins ==
  ASSUME Typed, LoopsOK, EpochsOK, DrainedOK, Handshake, phase' = "session"
  PROVE  SessionOK'
<1>1. /\ sent' = <<>> /\ sending' = <<>> /\ admitted' = <<>>
      /\ toNetwork' = toNetwork /\ held' = held /\ epoch' = epoch + 1
      /\ Len(toNetwork) + Len(held) <= 1
  BY DEF Handshake, LoopsOK, DrainedOK, core1
<1>2. /\ toNetwork \in Seq(FrameSet) /\ Len(toNetwork) \in Nat
      /\ held \in Seq(FrameSet) /\ Len(held) \in Nat /\ epoch \in Nat
      /\ \A f \in FrameSet : f.epoch \in Nat
  BY UartAssumption DEF Typed, FrameSet
<1>3. Upload' = toNetwork
  BY <1>1, <1>2 DEF Upload
<1>4. \A i \in 1 .. Len(admitted') : Current(admitted[i])'
  BY <1>1
<1>5. held' # <<>> => Upload' = <<>>
  BY <1>1, <1>2, <1>3, TailFacts
<1>6. Fresh(Upload)' = <<>>
  <2>1. CASE toNetwork = <<>>
    BY <2>1, <1>3 DEF Fresh
  <2>2. CASE toNetwork # <<>>
    <3>1. Len(toNetwork) <= 1
      BY <1>1, <1>2
    <3>2. /\ Len(toNetwork) = 1 /\ toNetwork[1] \in FrameSet
          /\ Head(toNetwork) = toNetwork[1] /\ Tail(toNetwork) = <<>>
      BY <2>2, <3>1, <1>2, SlotFacts
    <3>3. toNetwork[1].epoch # epoch + 1
      BY <3>2, <1>2 DEF EpochsOK
    <3> QED
      BY <2>2, <3>2, <3>3, <1>1, <1>3 DEF Fresh, Current
  <2> QED
    BY <2>1, <2>2
<1> QED
  BY <1>1, <1>4, <1>5, <1>6 DEF SessionOK, UploadExact

(* The UART's frame joins the upload, or waits no longer for a full mailbox. *)
LEMMA SessionAdmits ==
  ASSUME Typed, SessionOK, AdmitUart
  PROVE  SessionOK'
<1> SUFFICES ASSUME phase = "session"
             PROVE  SessionOK'
  BY DEF AdmitUart, core0, SessionOK
<1>1. /\ held # <<>> /\ held' = <<>> /\ epoch' = epoch
      /\ sent' = sent /\ sending' = sending
  BY DEF AdmitUart, core0
<1>2. /\ \A i \in 1 .. Len(admitted) : Current(admitted[i])
      /\ ~Current(held[1]) => Upload = <<>> /\ admitted = <<>>
      /\ Fresh(Upload) = admitted
  BY <1>1 DEF SessionOK, UploadExact
<1>3. /\ held[1] \in FrameSet /\ Upload \in Seq(FrameSet) /\ admitted \in Seq(FrameSet)
      /\ toNetwork \in Seq(FrameSet)
  BY <1>1, TailFacts, UploadTyped DEF Typed
<1>4. CASE Upload' = Upload /\ admitted' = admitted
  BY <1>1, <1>2, <1>4 DEF SessionOK, UploadExact, Fresh, Current
<1>5. CASE /\ toNetwork' = Append(toNetwork, held[1])
           /\ admitted' = IF Current(held[1]) THEN Append(admitted, held[1]) ELSE admitted
  <2>1. Upload' = Append(Upload, held[1])
    <3>1. sent \in Seq(FrameSet) /\ sending \in Seq(FrameSet)
      BY DEF Typed
    <3>2. sent \o sending \o Append(toNetwork, held[1]) = Append(sent \o sending \o toNetwork, held[1])
      <4>1. PICK e \in FrameSet : e = held[1]
        BY <1>3
      <4>2. sent \o sending \o Append(toNetwork, e) = Append(sent \o sending \o toNetwork, e)
        BY <1>3, <3>1, QueueGrowsUpload
      <4> QED
        BY <4>1, <4>2
    <3> QED
      BY <3>2, <1>1, <1>5 DEF Upload
  <2>2. CASE ~Current(held[1])
    <3>1. Upload = <<>> /\ admitted = <<>> /\ admitted' = <<>>
      BY <2>2, <1>2, <1>5
    <3>2. Upload' = <<held[1]>>
      BY <2>1, <3>1
    <3>3. Upload' # <<>> /\ Head(Upload') = held[1] /\ Tail(Upload') = <<>>
      BY <3>2, <1>3
    <3>4. Fresh(Upload)' = <<>>
      BY <3>3, <2>2, <1>1 DEF Fresh, Current
    <3> QED
      BY <3>1, <3>4, <1>1 DEF SessionOK, UploadExact
  <2>3. CASE Current(held[1])
    <3>1. admitted' = Append(admitted, held[1])
      BY <2>3, <1>5
    <3>2. Fresh(Upload)' = Append(Fresh(Upload), held[1])
      <4>1. CASE Upload = <<>>
        <5>1. Upload' # <<>> /\ Head(Upload') = held[1] /\ Fresh(Upload) = <<>>
              /\ Upload' = Append(<<>>, held[1])
          BY <4>1, <2>1, <1>3 DEF Fresh
        <5> QED
          BY <5>1, <2>3, <1>1 DEF Fresh, Current
      <4>2. CASE Upload # <<>>
        <5>1. /\ Upload' # <<>> /\ Head(Upload') = Head(Upload)
              /\ Tail(Upload') = Append(Tail(Upload), held[1])
          BY <4>2, <2>1, <1>3, TailOfAppend, AppendFacts
        <5> QED
          BY <5>1, <4>2, <2>1, <1>1 DEF Fresh, Current
      <4> QED
        BY <4>1, <4>2
    <3>3. \A i \in 1 .. Len(admitted') : Current(admitted[i])'
      BY <3>1, <2>3, <1>1, <1>2, <1>3, AppendFacts DEF Current
    <3> QED
      BY <3>1, <3>2, <3>3, <1>1, <1>2 DEF SessionOK, UploadExact
  <2> QED
    BY <2>2, <2>3
<1> QED
  BY <1>4, <1>5 DEF AdmitUart, Upload, Current, core0

LEMMA SessionKept ==
  Typed /\ FlagOK /\ LoopsOK /\ EpochsOK /\ DrainedOK /\ SessionOK /\ [Next]_vars => SessionOK'
<1> SUFFICES ASSUME Typed, FlagOK, LoopsOK, EpochsOK, DrainedOK, SessionOK, [Next]_vars
             PROVE  SessionOK'
  OBVIOUS
<1>1. CASE phase' # "session"
  BY <1>1 DEF SessionOK
<1>2. CASE Handshake /\ phase' = "session"
  BY <1>2, SessionBegins
<1>3. CASE AdmitUart
  BY <1>3, SessionAdmits
<1>4. CASE ReceiveData
  <2> SUFFICES ASSUME phase = "session"
               PROVE  SessionOK'
    BY <1>4 DEF ReceiveData, core0, SessionOK
  <2>1. /\ held' = <<Frame("up", epoch, upCount + 1)>> /\ epoch' = epoch /\ phase' = phase
        /\ sent' = sent /\ sending' = sending /\ toNetwork' = toNetwork /\ admitted' = admitted
    BY <1>4 DEF ReceiveData, core0, FlagOK
  <2>2. Current(held[1])'
    BY <2>1 DEF Current, Frame
  <2> QED
    BY <2>1, <2>2 DEF SessionOK, UploadExact, Upload, Fresh, Current
<1>5. CASE SendPop
  <2>1. /\ phase = "session" /\ phase' = phase /\ epoch' = epoch /\ held' = held
        /\ admitted' = admitted
        /\ sending = <<>> /\ toNetwork # <<>> /\ sent' = sent
        /\ sending' = <<Head(toNetwork)>> /\ toNetwork' = Tail(toNetwork)
    BY <1>5 DEF SendPop, core1
  <2>2. sent \in Seq(FrameSet) /\ toNetwork \in Seq(FrameSet)
    BY DEF Typed
  <2>3. Upload' = Upload
    BY <2>1, <2>2, PopKeepsUpload DEF Upload
  <2> QED
    BY <2>1, <2>3 DEF SessionOK, UploadExact, Fresh, Current
<1>6. CASE SendWrite
  <2>1. /\ phase = "session" /\ phase' = phase /\ epoch' = epoch /\ held' = held
        /\ admitted' = admitted
        /\ sending # <<>> /\ sending' = <<>> /\ sent' = Append(sent, sending[1])
        /\ toNetwork' = toNetwork
    BY <1>6 DEF SendWrite, core1
  <2>2. /\ sent \in Seq(FrameSet) /\ toNetwork \in Seq(FrameSet)
        /\ sending \in Seq(FrameSet) /\ Len(sending) <= 1
    BY DEF Typed
  <2>3. sending[1] \in FrameSet /\ sending = <<sending[1]>>
    BY <2>1, <2>2, SlotFacts
  <2>4. Append(sent, sending[1]) \o <<>> \o toNetwork = sent \o <<sending[1]>> \o toNetwork
    BY <2>2, <2>3, WriteKeepsUpload
  <2>5. Upload' = Upload
    BY <2>1, <2>3, <2>4 DEF Upload
  <2> QED
    BY <2>1, <2>5 DEF SessionOK, UploadExact, Fresh, Current
<1>7. CASE /\ phase' = phase /\ epoch' = epoch /\ held' = held /\ admitted' = admitted
           /\ sent' = sent /\ sending' = sending /\ toNetwork' = toNetwork
  BY <1>7 DEF SessionOK, UploadExact, Upload, Fresh, Current
<1>8. CASE Start \/ Drain \/ Connect \/ SessionEnds \/ Close \/ Reconnect \/ AddressChange
           \/ RunAgain
  <2>1. phase' # "session"
    BY <1>8 DEF Start, Drain, Connect, SessionEnds, Close, Reconnect, AddressChange, RunAgain
  <2> QED
    BY <2>1 DEF SessionOK
<1> QED
  BY <1>1, <1>2, <1>3, <1>4, <1>5, <1>6, <1>7, <1>8
  DEF Next, Core0, Core1, ReceiveLocal, TransmitPop, TransmitWrite, ReceiveFrame, PushDown,
      core0, core1, vars

LEMMA UpInvariance == Spec => []UpInv
<1>1. UpInv /\ [Next]_vars => UpInv'
  BY TypedKept, FlagKept, LoopsKept, EpochsKept, DrainedKept, SessionKept DEF UpInv
<1> QED
  BY <1>1, InitUpInv, PTL DEF Spec

(***************************************************************************)
(* SessionUploads: in a session the frames written to TCP, the one being   *)
(* written and those in TO_NETWORK are the ones that TO_NETWORK accepted   *)
(* in the session, once and in order, behind one stale frame at most.      *)
(***************************************************************************)
THEOREM SessionUploads == Spec => []UploadExact
<1>1. UpInv => UploadExact
  BY DEF UpInv, SessionOK, UploadExact
<1> QED
  BY <1>1, UpInvariance, PTL

(***************************************************************************)
(* OneStale: of the frames that a session has written or will write, only  *)
(* the first can have been received before the session.                    *)
(***************************************************************************)
THEOREM OneStale == Spec => []AtMostOneStale
<1>1. UpInv => AtMostOneStale
  <2> SUFFICES ASSUME UpInv, phase = "session", NEW i \in DOMAIN Upload, i # 1
               PROVE  Current(Upload[i])
    BY DEF AtMostOneStale, Stale
  <2>1. Upload \in Seq(FrameSet)
    BY UploadTyped DEF UpInv
  <2>2. /\ \A j \in 1 .. Len(admitted) : Current(admitted[j])
        /\ Fresh(Upload) = admitted
    BY DEF UpInv, SessionOK, UploadExact
  <2>3. i \in 2 .. Len(Upload) /\ Upload # <<>> /\ Len(Upload) \in Nat
    BY <2>1
  <2>4. CASE Fresh(Upload) = Upload
    BY <2>2, <2>3, <2>4
  <2>5. CASE Fresh(Upload) = Tail(Upload)
    <3>1. /\ Len(Tail(Upload)) = Len(Upload) - 1
          /\ \A j \in 1 .. Len(Upload) - 1 : Tail(Upload)[j] = Upload[j + 1]
      BY <2>1, <2>3, TailFacts
    <3>2. i - 1 \in 1 .. Len(admitted) /\ admitted[i - 1] = Upload[i]
      BY <2>2, <2>3, <2>5, <3>1
    <3> QED
      BY <2>2, <3>2
  <2> QED
    BY <2>4, <2>5 DEF Fresh
<1> QED
  BY <1>1, UpInvariance, PTL

-----------------------------------------------------------------------------
(* The downlink.                                                           *)

LEMMA InNone ==
  ASSUME NEW f
  PROVE  ~In(f, <<>>)
  BY DEF In

LEMMA InOne ==
  ASSUME NEW f, NEW e
  PROVE  In(f, <<e>>) <=> f = e /\ e.kind = "down"
  BY DEF In

LEMMA InAppend ==
  ASSUME NEW S, NEW s \in Seq(S), NEW e \in S, NEW f
  PROVE  In(f, Append(s, e)) <=> In(f, s) \/ (f = e /\ e.kind = "down")
<1>1. /\ Len(s) \in Nat /\ Len(Append(s, e)) = Len(s) + 1
      /\ \A i \in 1 .. Len(s) : Append(s, e)[i] = s[i]
      /\ Append(s, e)[Len(s) + 1] = e
  OBVIOUS
<1>2. ASSUME In(f, s) PROVE In(f, Append(s, e))
  BY <1>1, <1>2 DEF In
<1>3. ASSUME f = e, e.kind = "down" PROVE In(f, Append(s, e))
  <2>1. Len(s) + 1 \in 1 .. Len(Append(s, e))
    BY <1>1
  <2> QED
    BY <2>1, <1>1, <1>3 DEF In
<1>4. ASSUME In(f, Append(s, e)) PROVE In(f, s) \/ (f = e /\ e.kind = "down")
  <2>1. PICK i \in 1 .. Len(s) + 1 : Append(s, e)[i] = f
    BY <1>1, <1>4 DEF In
  <2>2. CASE i = Len(s) + 1
    BY <2>1, <2>2, <1>1, <1>4 DEF In
  <2>3. CASE i \in 1 .. Len(s)
    BY <2>1, <2>3, <1>1, <1>4 DEF In
  <2> QED
    BY <2>2, <2>3, <1>1
<1> QED
  BY <1>2, <1>3, <1>4

LEMMA InTail ==
  ASSUME NEW S, NEW s \in Seq(S), s # <<>>, NEW f
  PROVE  In(f, s) <=> In(f, <<Head(s)>>) \/ In(f, Tail(s))
<1>1. /\ Len(s) \in Nat \ {0} /\ Head(s) = s[1] /\ Len(Tail(s)) = Len(s) - 1
      /\ \A i \in 1 .. Len(s) - 1 : Tail(s)[i] = s[i + 1]
  BY TailFacts
<1>2. ASSUME In(f, s) PROVE In(f, <<Head(s)>>) \/ In(f, Tail(s))
  <2>1. PICK i \in 1 .. Len(s) : s[i] = f
    BY <1>2 DEF In
  <2>2. CASE i = 1
    BY <2>1, <2>2, <1>1, <1>2, InOne DEF In
  <2>3. CASE i > 1
    <3>1. i - 1 \in 1 .. Len(Tail(s)) /\ Tail(s)[i - 1] = f
      BY <2>1, <2>3, <1>1
    <3> QED
      BY <3>1, <1>2 DEF In
  <2> QED
    BY <2>2, <2>3
<1>3. ASSUME In(f, <<Head(s)>>) PROVE In(f, s)
  <2>1. f = s[1] /\ f.kind = "down" /\ 1 \in 1 .. Len(s)
    BY <1>1, <1>3, InOne
  <2> QED
    BY <2>1 DEF In
<1>4. ASSUME In(f, Tail(s)) PROVE In(f, s)
  <2>1. PICK i \in 1 .. Len(s) - 1 : Tail(s)[i] = f
    BY <1>1, <1>4 DEF In
  <2>2. i + 1 \in 1 .. Len(s) /\ s[i + 1] = f
    BY <2>1, <1>1
  <2> QED
    BY <2>2, <1>4 DEF In
<1> QED
  BY <1>2, <1>3, <1>4

(* A sorted sequence stays sorted when its first frame is taken, and that  *)
(* frame is before the others.                                             *)
LEMMA SortedTail ==
  ASSUME NEW s \in Seq(FrameSet), s # <<>>, Sorted(s)
  PROVE  Sorted(Tail(s)) /\ Ahead(<<Head(s)>>, Tail(s))
<1>1. /\ Len(s) \in Nat \ {0} /\ Head(s) = s[1] /\ Len(Tail(s)) = Len(s) - 1
      /\ \A i \in 1 .. Len(s) - 1 : Tail(s)[i] = s[i + 1]
  BY TailFacts
<1>2. Sorted(Tail(s))
  <2> SUFFICES ASSUME NEW i \in 1 .. Len(s) - 1, NEW j \in 1 .. Len(s) - 1, i < j,
                      s[i + 1].kind = "down", s[j + 1].kind = "down"
               PROVE  Before(s[i + 1], s[j + 1])
    BY <1>1 DEF Sorted
  <2>1. i + 1 \in 1 .. Len(s) /\ j + 1 \in 1 .. Len(s) /\ i + 1 < j + 1
    BY <1>1
  <2> QED
    BY <2>1 DEF Sorted
<1>3. Ahead(<<Head(s)>>, Tail(s))
  <2> SUFFICES ASSUME NEW f, NEW g, In(f, <<Head(s)>>), In(g, Tail(s))
               PROVE  Before(f, g)
    BY DEF Ahead
  <2>1. f = s[1] /\ f.kind = "down" /\ g.kind = "down"
    BY <1>1, InOne DEF In
  <2>2. PICK j \in 1 .. Len(s) - 1 : Tail(s)[j] = g
    BY <1>1 DEF In
  <2>3. 1 \in 1 .. Len(s) /\ j + 1 \in 1 .. Len(s) /\ 1 < j + 1 /\ s[j + 1] = g
    BY <1>1, <2>2
  <2> QED
    BY <2>1, <2>3 DEF Sorted
<1> QED
  BY <1>2, <1>3

(* A frame that none of a sorted sequence is behind may follow.            *)
LEMMA SortedAppend ==
  ASSUME NEW s \in Seq(FrameSet), NEW e \in FrameSet, Sorted(s), Ahead(s, <<e>>)
  PROVE  Sorted(Append(s, e))
<1>1. /\ Len(s) \in Nat /\ Len(Append(s, e)) = Len(s) + 1
      /\ \A i \in 1 .. Len(s) : Append(s, e)[i] = s[i] /\ s[i] \in FrameSet
      /\ Append(s, e)[Len(s) + 1] = e
  OBVIOUS
<1> SUFFICES ASSUME NEW i \in 1 .. Len(s) + 1, NEW j \in 1 .. Len(s) + 1, i < j,
                    Append(s, e)[i].kind = "down", Append(s, e)[j].kind = "down"
             PROVE  Before(Append(s, e)[i], Append(s, e)[j])
  BY <1>1 DEF Sorted
<1>2. i \in 1 .. Len(s) /\ Append(s, e)[i] = s[i] /\ s[i] \in FrameSet
  BY <1>1
<1>3. CASE j = Len(s) + 1
  <2>1. In(s[i], s) /\ In(e, <<e>>)
    BY <1>1, <1>2, <1>3, InOne DEF In
  <2> QED
    BY <2>1, <1>1, <1>2, <1>3 DEF Ahead
<1>4. CASE j \in 1 .. Len(s)
  BY <1>1, <1>2, <1>4 DEF Sorted
<1> QED
  BY <1>1, <1>3, <1>4

LEMMA InitDownInv == Init => DownInv
<1> SUFFICES ASSUME Init PROVE DownInv
  OBVIOUS
<1>1. Typed /\ written = <<>> /\ writing = <<>> /\ toUart = <<>> /\ pushing = <<>> /\ downCount = 0
  BY InitTyped DEF Init
<1>2. \A f : ~In(f, written) /\ ~In(f, writing) /\ ~In(f, toUart) /\ ~In(f, pushing)
  BY <1>1, InNone
<1>3. Sorted(written) /\ Sorted(toUart) /\ Len(written) = 0
  BY <1>1 DEF Sorted
<1> QED
  BY <1>1, <1>2, <1>3 DEF DownInv, OrderOK, ChainOK, Ahead, Somewhere

(* Frames that only move between the places keep order and chain.          *)
LEMMA MoveKeepsChain ==
  ASSUME ChainOK, \A f \in FrameSet : Somewhere(f)' <=> Somewhere(f),
         \A i \in 1 .. Len(written') : written'[i].kind = "down",
         phase' = phase, epoch' = epoch, downCount' = downCount, Typed
  PROVE  ChainOK'
<1>1. \A f \in FrameSet : f.kind = "down" /\ f.n > 1 => Frame("down", f.epoch, f.n - 1) \in FrameSet
  BY UartAssumption DEF Frame, FrameSet
<1>2. downCount > 0 => Frame("down", epoch, downCount) \in FrameSet
  BY UartAssumption DEF Frame, FrameSet, Typed
<1>3. \A f \in FrameSet : Somewhere(f)' => Rooted(f)'
  <2> SUFFICES ASSUME NEW f \in FrameSet, Somewhere(f)
               PROVE  Rooted(f)'
    OBVIOUS
  <2>1. Rooted(f) /\ f.kind = "down"
    BY DEF ChainOK, Somewhere, In
  <2>2. f.n > 1 => Somewhere(Frame("down", f.epoch, f.n - 1))'
    BY <2>1, <1>1 DEF Rooted
  <2> QED
    BY <2>1, <2>2 DEF Rooted
<1>4. phase' = "session" /\ downCount' > 0 => Somewhere(Frame("down", epoch, downCount))'
  BY <1>2 DEF ChainOK
<1> QED
  BY <1>3, <1>4 DEF ChainOK

LEMMA DownPop ==
  ASSUME DownInv, TransmitPop
  PROVE  OrderOK' /\ ChainOK'
<1>1. /\ writing = <<>> /\ toUart # <<>> /\ writing' = <<Head(toUart)>> /\ toUart' = Tail(toUart)
      /\ written' = written /\ pushing' = pushing
      /\ phase' = phase /\ epoch' = epoch /\ downCount' = downCount
      /\ toUart \in Seq(FrameSet)
  BY DEF TransmitPop, core0, counts, DownInv, Typed
<1>2. \A f : /\ ~In(f, writing)
             /\ In(f, toUart) <=> In(f, writing') \/ In(f, toUart')
  BY <1>1, InNone, InTail
<1>3. Sorted(toUart') /\ Ahead(writing', toUart')
  BY <1>1, SortedTail DEF DownInv, OrderOK
<1>4. OrderOK'
  BY <1>1, <1>2, <1>3 DEF DownInv, OrderOK, Ahead
<1>5. \A f \in FrameSet : Somewhere(f)' <=> Somewhere(f)
  BY <1>1, <1>2 DEF Somewhere
<1> QED
  BY <1>1, <1>4, <1>5, MoveKeepsChain DEF DownInv, ChainOK

LEMMA DownWrite ==
  ASSUME DownInv, TransmitWrite
  PROVE  OrderOK' /\ ChainOK'
<1> DEFINE w == writing[1]
<1>1. /\ writing # <<>> /\ writing' = <<>> /\ toUart' = toUart /\ pushing' = pushing
      /\ written' = IF w.kind = "down" THEN Append(written, w) ELSE written
      /\ phase' = phase /\ epoch' = epoch /\ downCount' = downCount
      /\ written \in Seq(FrameSet) /\ writing \in Seq(FrameSet) /\ Len(writing) <= 1
  BY DEF TransmitWrite, core0, counts, DownInv, Typed
<1>2. w \in FrameSet /\ writing = <<w>>
  BY <1>1, SlotFacts
<1>3. \A f : /\ In(f, writing) <=> f = w /\ w.kind = "down"
             /\ ~In(f, writing')
             /\ In(f, written') <=> In(f, written) \/ In(f, writing)
  <2> TAKE f
  <2>1. In(f, writing) <=> f = w /\ w.kind = "down"
    BY <1>2, InOne
  <2>2. ~In(f, writing')
    BY <1>1, InNone
  <2>3. w.kind = "down" => (In(f, written') <=> In(f, written) \/ f = w)
    BY <1>1, <1>2, InAppend
  <2> QED
    BY <2>1, <2>2, <2>3, <1>1
<1>4. Sorted(written')
  <2>1. Ahead(written, <<w>>)
    BY <1>2 DEF DownInv, OrderOK
  <2> QED
    BY <2>1, <1>1, <1>2, SortedAppend DEF DownInv, OrderOK
<1>5. OrderOK'
  BY <1>1, <1>3, <1>4 DEF DownInv, OrderOK, Ahead
<1>6. \A f \in FrameSet : Somewhere(f)' <=> Somewhere(f)
  BY <1>1, <1>3 DEF Somewhere
<1>7. \A i \in 1 .. Len(written') : written'[i].kind = "down"
  BY <1>1, <1>2, AppendFacts DEF DownInv, ChainOK
<1> QED
  BY <1>1, <1>5, <1>6, <1>7, MoveKeepsChain DEF DownInv

(* A reply goes into TO_UART between the downlink frames.                  *)
LEMMA DownReply ==
  ASSUME DownInv, ReceiveLocal
  PROVE  OrderOK' /\ ChainOK'
<1> DEFINE r == Frame("reply", epoch, localCount + 1)
<1>1. /\ writing' = writing /\ written' = written /\ pushing' = pushing
      /\ toUart' = toUart \/ toUart' = Append(toUart, r)
      /\ phase' = phase /\ epoch' = epoch /\ downCount' = downCount
      /\ toUart \in Seq(FrameSet)
  BY DEF ReceiveLocal, core0, core1, DownInv, Typed
<1>2. r \in FrameSet /\ r.kind = "reply"
  <2>1. epoch \in 0 .. MaxEpoch /\ localCount + 1 \in 0 .. MaxUp + MaxDown + MaxLocal
    BY UartAssumption DEF ReceiveLocal, DownInv, Typed
  <2> QED
    BY <2>1, FrameFacts
<1> HIDE DEF r
<1>3. \A f : In(f, toUart') <=> In(f, toUart)
  <2> TAKE f
  <2>1. In(f, Append(toUart, r)) <=> In(f, toUart) \/ (f = r /\ r.kind = "down")
    BY <1>1, <1>2, InAppend
  <2> QED
    BY <2>1, <1>1, <1>2
<1>4. Sorted(toUart')
  <2>1. Ahead(toUart, <<r>>)
    BY <1>2, InOne DEF Ahead
  <2> QED
    BY <2>1, <1>1, <1>2, SortedAppend DEF DownInv, OrderOK
<1>5. OrderOK'
  BY <1>1, <1>3, <1>4 DEF DownInv, OrderOK, Ahead
<1>6. \A f \in FrameSet : Somewhere(f)' <=> Somewhere(f)
  BY <1>1, <1>3 DEF Somewhere
<1> QED
  BY <1>1, <1>5, <1>6, MoveKeepsChain DEF DownInv, ChainOK

LEMMA DownPush ==
  ASSUME DownInv, PushDown
  PROVE  OrderOK' /\ ChainOK'
<1> DEFINE p == pushing[1]
<1>1. /\ writing' = writing /\ written' = written /\ pushing # <<>> /\ pushing' = <<>>
      /\ toUart' = Append(toUart, p)
      /\ phase' = phase /\ epoch' = epoch /\ downCount' = downCount
      /\ toUart \in Seq(FrameSet) /\ pushing \in Seq(FrameSet) /\ Len(pushing) <= 1
  BY DEF PushDown, core1, counts, DownInv, Typed
<1>2. p \in FrameSet /\ pushing = <<p>>
  BY <1>1, SlotFacts
<1>3. \A f : /\ ~In(f, pushing')
             /\ In(f, toUart') <=> In(f, toUart) \/ In(f, pushing)
  BY <1>1, <1>2, InNone, InOne, InAppend
<1>4. Sorted(toUart')
  <2>1. Ahead(toUart, <<p>>)
    BY <1>2 DEF DownInv, OrderOK
  <2> QED
    BY <2>1, <1>1, <1>2, SortedAppend DEF DownInv, OrderOK
<1>5. OrderOK'
  BY <1>1, <1>3, <1>4 DEF DownInv, OrderOK, Ahead
<1>6. \A f \in FrameSet : Somewhere(f)' <=> Somewhere(f)
  BY <1>1, <1>3 DEF Somewhere
<1> QED
  BY <1>1, <1>5, <1>6, MoveKeepsChain DEF DownInv, ChainOK

(* The peer's next frame is behind all others.                             *)
LEMMA DownReceive ==
  ASSUME DownInv, ReceiveFrame
  PROVE  OrderOK' /\ ChainOK'
<1> DEFINE p == Frame("down", epoch, downCount + 1)
<1>1. /\ writing' = writing /\ written' = written /\ toUart' = toUart
      /\ pushing = <<>> /\ pushing' = <<p>>
      /\ phase = "session" /\ phase' = phase /\ epoch' = epoch /\ downCount' = downCount + 1
      /\ epoch \in Nat /\ downCount \in Nat
  BY UartAssumption DEF ReceiveFrame, core1, DownInv, Typed
<1>2. p \in FrameSet /\ p.kind = "down" /\ p.epoch = epoch /\ p.n = downCount + 1
  <2>1. epoch \in 0 .. MaxEpoch /\ downCount + 1 \in 0 .. MaxUp + MaxDown + MaxLocal
    BY UartAssumption DEF ReceiveFrame, DownInv, Typed
  <2> QED
    BY <2>1, FrameFacts
<1>3. \A f \in FrameSet : f.epoch \in Nat /\ f.n \in Nat
  BY UartAssumption DEF FrameSet
<1> HIDE DEF p
<1>4. \A f : /\ ~In(f, pushing)
             /\ In(f, pushing') <=> f = p
  BY <1>1, <1>2, InNone, InOne
<1>5. \A f \in FrameSet : Somewhere(f) => Before(f, p)
  <2> SUFFICES ASSUME NEW f \in FrameSet, Somewhere(f)
               PROVE  Before(f, p)
    OBVIOUS
  <2>1. f.epoch <= epoch /\ (f.epoch = epoch => f.n <= downCount)
    BY DEF DownInv, ChainOK, Rooted
  <2> QED
    BY <2>1, <1>1, <1>2, <1>3 DEF Before
<1>6. OrderOK'
  <2>1. \A s \in {written, writing, toUart} : \A f \in FrameSet : In(f, s) => Before(f, p)
    BY <1>5 DEF Somewhere
  <2> QED
    BY <2>1, <1>1, <1>4 DEF DownInv, OrderOK, Ahead
<1>7. \A f : Somewhere(f)' <=> Somewhere(f) \/ f = p
  BY <1>1, <1>4 DEF Somewhere
<1>8. \A f \in FrameSet : Somewhere(f)' => Rooted(f)'
  <2> SUFFICES ASSUME NEW f \in FrameSet, Somewhere(f)'
               PROVE  Rooted(f)'
    OBVIOUS
  <2>1. CASE Somewhere(f)
    <3>1. Rooted(f)
      BY <2>1 DEF DownInv, ChainOK
    <3> QED
      BY <3>1, <1>1, <1>3, <1>7 DEF Rooted
  <2>2. CASE f = p
    <3>1. downCount > 0 => Somewhere(Frame("down", epoch, downCount))
      BY <1>1 DEF DownInv, ChainOK
    <3>2. p.n - 1 = downCount
      BY <1>1, <1>2
    <3> QED
      BY <2>2, <3>1, <3>2, <1>1, <1>2, <1>7 DEF Rooted
  <2> QED
    BY <2>1, <2>2, <1>7
<1>9. Somewhere(Frame("down", epoch, downCount))'
  BY <1>1, <1>7 DEF p
<1> QED
  BY <1>1, <1>6, <1>8, <1>9 DEF DownInv, ChainOK

(* The end of a session loses at most the last frame.                      *)
LEMMA DownEnds ==
  ASSUME DownInv, SessionEnds \/ AddressChange
  PROVE  OrderOK' /\ ChainOK'
<1>1. /\ writing' = writing /\ written' = written /\ toUart' = toUart /\ pushing' = <<>>
      /\ phase' # "session" /\ epoch' = epoch /\ downCount' = downCount
  BY DEF SessionEnds, AddressChange, core1, counts
<1>2. \A f : ~In(f, pushing')
  BY <1>1, InNone
<1>3. OrderOK'
  BY <1>1, <1>2 DEF DownInv, OrderOK, Ahead
<1>4. \A f \in FrameSet : /\ f.epoch \in Nat /\ f.n \in Nat
                          /\ f.n > 1 => Frame("down", f.epoch, f.n - 1) \in FrameSet
                          /\ Frame("down", f.epoch, f.n - 1).epoch = f.epoch
                          /\ Frame("down", f.epoch, f.n - 1).n = f.n - 1
  BY UartAssumption DEF FrameSet, Frame
<1>5. ASSUME NEW f \in FrameSet, Somewhere(f)'
      PROVE  Rooted(f)'
  <2> DEFINE g == Frame("down", f.epoch, f.n - 1)
  <2>1. In(f, written) \/ In(f, writing) \/ In(f, toUart)
    BY <1>1, <1>2, <1>5 DEF Somewhere
  <2>2. Rooted(f)
    BY <2>1 DEF Somewhere, DownInv, ChainOK
  <2>3. g.epoch = f.epoch /\ g.n = f.n - 1 /\ (f.n > 1 => g \in FrameSet /\ Somewhere(g))
    BY <1>4, <2>2 DEF Rooted
  <2> HIDE DEF g
  <2>4. f.n > 1 => ~In(g, pushing)
    <3>1. ~Before(f, g)
      BY <1>4, <2>3 DEF Before
    <3> QED
      BY <3>1, <2>1, <2>3 DEF DownInv, OrderOK, Ahead
  <2>5. f.n > 1 => Somewhere(g)'
    BY <2>3, <2>4, <1>1 DEF Somewhere
  <2> QED
    BY <2>2, <2>5, <1>1 DEF Rooted, g
<1> QED
  BY <1>1, <1>3, <1>5 DEF DownInv, ChainOK

LEMMA DownKept == DownInv /\ [Next]_vars => OrderOK' /\ ChainOK'
<1> SUFFICES ASSUME DownInv, [Next]_vars
             PROVE  OrderOK' /\ ChainOK'
  OBVIOUS
<1>1. CASE TransmitPop \/ TransmitWrite \/ ReceiveLocal \/ PushDown \/ ReceiveFrame
           \/ SessionEnds \/ AddressChange
  BY <1>1, DownPop, DownWrite, DownReply, DownPush, DownReceive, DownEnds
<1>2. CASE Handshake
  <2>1. /\ writing' = writing /\ written' = written /\ toUart' = toUart /\ pushing' = pushing
        /\ \/ epoch' = epoch /\ downCount' = downCount /\ phase' # "session"
           \/ epoch' = epoch + 1 /\ downCount' = 0
    BY <1>2 DEF Handshake, core1
  <2>2. OrderOK'
    BY <2>1 DEF DownInv, OrderOK, Ahead
  <2>3. \A f \in FrameSet : f.epoch \in Nat /\ f.n \in Nat
    BY UartAssumption DEF FrameSet
  <2>4. epoch \in Nat
    BY UartAssumption DEF DownInv, Typed
  <2>5. \A f : Somewhere(f)' <=> Somewhere(f)
    BY <2>1 DEF Somewhere
  <2>6. \A f \in FrameSet : Somewhere(f)' => Rooted(f)'
    BY <2>1, <2>3, <2>4, <2>5 DEF DownInv, ChainOK, Rooted
  <2> QED
    BY <2>1, <2>2, <2>6 DEF DownInv, ChainOK
<1>3. CASE /\ writing' = writing /\ written' = written /\ toUart' = toUart /\ pushing' = pushing
           /\ epoch' = epoch /\ downCount' = downCount
           /\ phase' = "session" => phase = "session"
  <2>1. OrderOK'
    BY <1>3 DEF DownInv, OrderOK, Ahead
  <2> QED
    BY <2>1, <1>3 DEF DownInv, ChainOK, Rooted, Somewhere
<1> QED
  BY <1>1, <1>2, <1>3
  DEF Next, Core0, Core1, ReceiveData, AdmitUart, Start, Drain, Connect, SendPop, SendWrite,
      Close, Reconnect, RunAgain, core0, core1, counts, vars

LEMMA DownInvariance == Spec => []DownInv
<1>1. DownInv /\ [Next]_vars => DownInv'
  BY TypedKept, DownKept DEF DownInv
<1> QED
  BY <1>1, InitDownInv, PTL DEF Spec

(***************************************************************************)
(* DownlinkInOrder: what uart_transmit writes to the UART is what the peer *)
(* sent, in that order and within a session without a gap, whatever the    *)
(* local replies between and however often sessions end.                   *)
(***************************************************************************)
THEOREM DownlinkInOrder == Spec => []DownInOrder
<1>1. DownInv => DownInOrder
  <2>0. DownInv => DOMAIN written = 1 .. Len(written)
    BY DEF DownInv, Typed
  <2> SUFFICES ASSUME DownInv, NEW i \in 1 .. Len(written)
               PROVE  \/ i > 1 /\ written[i - 1].epoch = written[i].epoch
                               /\ written[i].n = written[i - 1].n + 1
                      \/ written[i].n = 1
                         /\ (i > 1 => written[i - 1].epoch < written[i].epoch)
    BY <2>0 DEF DownInOrder
  <2> DEFINE f == written[i]
             g == Frame("down", f.epoch, f.n - 1)
  <2>1. /\ Len(written) \in Nat
        /\ \A j \in 1 .. Len(written) : written[j] \in FrameSet /\ written[j].kind = "down"
    BY DEF DownInv, Typed, ChainOK
  <2>2. \A x \in FrameSet : x.epoch \in Nat /\ x.n \in Nat
    BY UartAssumption DEF FrameSet
  <2>3. \A j \in 1 .. Len(written) : Rooted(written[j]) /\ In(written[j], written)
    <3>1. \A j \in 1 .. Len(written) : In(written[j], written)
      BY <2>1 DEF In
    <3> QED
      BY <3>1, <2>1 DEF DownInv, ChainOK, Somewhere
  <2>4. \A j, k \in 1 .. Len(written) : j < k => Before(written[j], written[k])
    BY <2>1 DEF DownInv, OrderOK, Sorted
  <2>5. i > 1 => i - 1 \in 1 .. Len(written) /\ i - 1 < i
    BY <2>1
  <2>6. CASE f.n = 1
    <3>1. i > 1 => /\ Before(written[i - 1], f) /\ written[i - 1].n >= 1
                   /\ written[i - 1] \in FrameSet
      BY <2>1, <2>3, <2>4, <2>5 DEF Rooted
    <3> QED
      BY <3>1, <2>1, <2>2, <2>6 DEF Before
  <2>7. CASE f.n > 1
    <3>1. g \in FrameSet /\ g.epoch = f.epoch /\ g.n = f.n - 1
      BY <2>1, <2>7, UartAssumption DEF Frame, FrameSet
    <3>2. Somewhere(g)
      BY <2>3, <2>7 DEF Rooted
    <3> HIDE DEF f, g
    <3>3. f \in FrameSet /\ In(f, written)
      BY <2>1, <2>3 DEF f
    <3>4. ~Before(f, g)
      BY <3>1, <3>3, <2>2 DEF Before
    <3>5. In(g, written)
      BY <3>1, <3>2, <3>3, <3>4 DEF Somewhere, DownInv, OrderOK, Ahead
    <3>6. PICK j \in 1 .. Len(written) : written[j] = g
      BY <3>5 DEF In
    <3>7. j < i
      <4>1. ~(i < j)
        BY <3>4, <3>6, <2>4 DEF f
      <4>2. i # j
        BY <3>1, <3>3, <3>6, <2>2 DEF f
      <4> QED
        BY <4>1, <4>2, <2>1
    <3>8. j = i - 1
      <4> SUFFICES ASSUME j < i - 1
                   PROVE  FALSE
        BY <3>7, <2>1
      <4>1. i - 1 \in 1 .. Len(written) /\ i - 1 < i
        BY <3>7, <2>1
      <4>2. Before(g, written[i - 1]) /\ Before(written[i - 1], f) /\ written[i - 1] \in FrameSet
        BY <4>1, <3>6, <2>1, <2>4 DEF f
      <4> QED
        BY <4>2, <3>1, <3>3, <2>2 DEF Before
    <3> QED
      BY <3>1, <3>3, <3>6, <3>7, <3>8, <2>2 DEF f
  <2> QED
    BY <2>1, <2>2, <2>3, <2>6, <2>7 DEF Rooted
<1> QED
  BY <1>1, DownInvariance, PTL
=============================================================================
