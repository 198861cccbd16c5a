----------------------------- MODULE UartBridge -----------------------------
(***************************************************************************)
(* The UART bridge: core 1 owns the UART (bridge/uart.rs uart_receive and  *)
(* uart_transmit), core 0 owns the TCP session (run and                    *)
(* uart_mailbox.rs forward_tcp), and two mailboxes cross between the cores.*)
(* The cores really run in parallel, so every access to shared state is a  *)
(* step: LINK_ACTIVE is loaded in one step of core 1 and the frame it let  *)
(* through is pushed in a later one.  Core 0 is a cooperative executor:    *)
(* what run does between two awaits is split only where core 1 can see it. *)
(*                                                                         *)
(* A mailbox is the FIFO of Depth frames that Mailbox is proved to be; a   *)
(* frame is its kind, the session in which it was received and a number.   *)
(*                                                                         *)
(* Definitions named ...Fault are variants a mistake in the code could     *)
(* introduce; no specification uses them, they show what each property     *)
(* would notice.                                                           *)
(***************************************************************************)
EXTENDS Naturals, Sequences, FiniteSets

CONSTANTS
  Depth,      (* frames a mailbox holds                                    *)
  MaxEpoch,   (* bound: TCP sessions                                       *)
  MaxUp,      (* bound: data frames the UART host sends in all             *)
  MaxDown,    (* bound: frames the peer sends in one session               *)
  MaxLocal    (* bound: local commands the UART host sends                 *)

ASSUME UartAssumption ==
  /\ Depth \in Nat \ {0}
  /\ MaxEpoch \in Nat /\ MaxUp \in Nat /\ MaxDown \in Nat /\ MaxLocal \in Nat

VARIABLES
  linkActive, (* LINK_ACTIVE, the flag both cores read                     *)
  toNetwork,  (* TO_NETWORK: upload frames                                 *)
  toUart,     (* TO_UART: downlink frames and local replies                *)
  phase,      (* where run() is on core 0                                  *)
  sending,    (* the frame the send loop has popped and is writing         *)
  pushing,    (* the frame the receive loop has read and is pushing        *)
  held,       (* the data frame uart_receive holds after the flag let it by *)
  writing,    (* the packet uart_transmit has popped and is writing        *)
  epoch,      (* history: sessions started so far                          *)
  upCount,    (* history: data frames received from the UART               *)
  downCount,  (* history: frames read from TCP in this session             *)
  localCount, (* history: local commands received                         *)
  admitted,   (* history: this session's frames accepted by TO_NETWORK     *)
  sent,       (* history: frames written to TCP in this session            *)
  written     (* history: downlink frames written to the UART              *)

core0 == <<phase, sending, pushing>>
core1 == <<held, writing>>
counts == <<upCount, downCount, localCount>>
vars == <<linkActive, toNetwork, toUart, phase, sending, pushing, held, writing,
          epoch, upCount, downCount, localCount, admitted, sent, written>>

Phases == {"start", "drain", "connect", "handshake", "session", "closing",
           "delay", "cancelled"}

Frame(kind, e, n) == [kind |-> kind, epoch |-> e, n |-> n]

-----------------------------------------------------------------------------
(* Core 1, uart_receive.                                                   *)

(* A data frame is complete and LINK_ACTIVE is loaded: without a session   *)
(* the frame is dropped here.                                              *)
ReceiveData ==
  /\ held = <<>>
  /\ upCount < MaxUp
  /\ upCount' = upCount + 1
  /\ held' = IF linkActive THEN <<Frame("up", epoch, upCount')>> ELSE <<>>
  /\ UNCHANGED <<linkActive, toNetwork, toUart, core0, writing, epoch,
                 downCount, localCount, admitted, sent, written>>

(* A full mailbox discards its oldest frame, as the bus mailboxes do.      *)
AdmitEvictsFault ==
  /\ held # <<>>
  /\ held' = <<>>
  /\ toNetwork' = Append(IF Len(toNetwork) < Depth THEN toNetwork ELSE Tail(toNetwork),
                         held[1])
  /\ admitted' = IF held[1].epoch = epoch THEN Append(admitted, held[1]) ELSE admitted
  /\ UNCHANGED <<linkActive, toUart, core0, writing, epoch, counts, sent, written>>

(* admit_uart: the held frame goes to TO_NETWORK whatever the flag says by *)
(* now; a full mailbox refuses the new frame.                              *)
AdmitUart ==
  /\ held # <<>>
  /\ held' = <<>>
  /\ \/ /\ Len(toNetwork) < Depth
        /\ toNetwork' = Append(toNetwork, held[1])
        /\ admitted' = IF held[1].epoch = epoch THEN Append(admitted, held[1])
                       ELSE admitted
     \/ /\ Len(toNetwork) >= Depth
        /\ UNCHANGED <<toNetwork, admitted>>
  /\ UNCHANGED <<linkActive, toUart, core0, writing, epoch, counts, sent, written>>

(* A local command is answered through TO_UART; a full mailbox drops the   *)
(* answer rather than stop the reception.                                  *)
ReceiveLocal ==
  /\ held = <<>>
  /\ localCount < MaxLocal
  /\ localCount' = localCount + 1
  /\ toUart' = IF Len(toUart) < Depth
               THEN Append(toUart, Frame("reply", epoch, localCount'))
               ELSE toUart
  /\ UNCHANGED <<linkActive, toNetwork, core0, core1, epoch, upCount, downCount,
                 admitted, sent, written>>

(* Core 1, uart_transmit.                                                  *)
TransmitPop ==
  /\ writing = <<>>
  /\ toUart # <<>>
  /\ writing' = <<Head(toUart)>>
  /\ toUart' = Tail(toUart)
  /\ UNCHANGED <<linkActive, toNetwork, core0, held, epoch, counts, admitted,
                 sent, written>>

TransmitWrite ==
  /\ writing # <<>>
  /\ writing' = <<>>
  /\ written' = IF writing[1].kind = "down" THEN Append(written, writing[1])
                ELSE written
  /\ UNCHANGED <<linkActive, toNetwork, toUart, core0, held, epoch, counts,
                 admitted, sent>>

-----------------------------------------------------------------------------
(* Core 0, run.                                                            *)

Start ==
  /\ phase = "start"
  /\ linkActive' = FALSE
  /\ phase' = "drain"
  /\ UNCHANGED <<toNetwork, toUart, sending, pushing, core1, epoch, counts,
                 admitted, sent, written>>

(* TO_NETWORK is not drained.                                              *)
DrainFault ==
  /\ phase = "drain"
  /\ phase' = "connect"
  /\ UNCHANGED <<linkActive, toNetwork, toUart, sending, pushing, core1, epoch,
                 counts, admitted, sent, written>>

(* The drain pops until it finds the mailbox empty; core 1 can push        *)
(* between two pops.                                                       *)
Drain ==
  /\ phase = "drain"
  /\ \/ /\ toNetwork # <<>>
        /\ toNetwork' = Tail(toNetwork)
        /\ UNCHANGED phase
     \/ /\ toNetwork = <<>>
        /\ phase' = "connect"
        /\ UNCHANGED toNetwork
  /\ UNCHANGED <<linkActive, toUart, sending, pushing, core1, epoch, counts,
                 admitted, sent, written>>

(* connect_with_timeout, or accept on the server.                          *)
Connect ==
  /\ phase = "connect"
  /\ phase' \in {"handshake", "closing"}
  /\ UNCHANGED <<linkActive, toNetwork, toUart, sending, pushing, core1, epoch,
                 counts, admitted, sent, written>>

Handshake ==
  /\ phase = "handshake"
  /\ \/ /\ epoch < MaxEpoch
        /\ phase' = "session"
        /\ linkActive' = TRUE
        /\ epoch' = epoch + 1
        /\ downCount' = 0
        /\ admitted' = <<>>
        /\ sent' = <<>>
     \/ /\ phase' = "closing"
        /\ UNCHANGED <<linkActive, epoch, downCount, admitted, sent>>
  /\ UNCHANGED <<toNetwork, toUart, sending, pushing, core1, upCount, localCount,
                 written>>

(* One loop serves both directions: no upload while a downlink waits.      *)
SendPopFault ==
  /\ phase = "session"
  /\ sending = <<>> /\ pushing = <<>>
  /\ toNetwork # <<>>
  /\ sending' = <<Head(toNetwork)>>
  /\ toNetwork' = Tail(toNetwork)
  /\ UNCHANGED <<linkActive, toUart, phase, pushing, core1, epoch, counts,
                 admitted, sent, written>>

(* forward_tcp's send loop: pop, then write; the write returns when TCP    *)
(* has taken the whole frame.                                              *)
SendPop ==
  /\ phase = "session"
  /\ sending = <<>>
  /\ toNetwork # <<>>
  /\ sending' = <<Head(toNetwork)>>
  /\ toNetwork' = Tail(toNetwork)
  /\ UNCHANGED <<linkActive, toUart, phase, pushing, core1, epoch, counts,
                 admitted, sent, written>>

SendWrite ==
  /\ phase = "session"
  /\ sending # <<>>
  /\ sent' = Append(sent, sending[1])
  /\ sending' = <<>>
  /\ UNCHANGED <<linkActive, toNetwork, toUart, phase, pushing, core1, epoch,
                 counts, admitted, written>>

(* forward_tcp's receive loop: read a frame, then push it, waiting for     *)
(* space.                                                                  *)
ReceiveFrame ==
  /\ phase = "session"
  /\ pushing = <<>>
  /\ downCount < MaxDown
  /\ downCount' = downCount + 1
  /\ pushing' = <<Frame("down", epoch, downCount')>>
  /\ UNCHANGED <<linkActive, toNetwork, toUart, phase, sending, core1, epoch,
                 upCount, localCount, admitted, sent, written>>

(* A downlink frame that finds the mailbox full is given up.               *)
PushDownDropsFault ==
  /\ phase = "session"
  /\ pushing # <<>>
  /\ toUart' = IF Len(toUart) < Depth THEN Append(toUart, pushing[1]) ELSE toUart
  /\ pushing' = <<>>
  /\ UNCHANGED <<linkActive, toNetwork, phase, sending, core1, epoch, counts,
                 admitted, sent, written>>

(* One loop serves both directions: no downlink while an upload waits.     *)
PushDownFault ==
  /\ phase = "session"
  /\ pushing # <<>> /\ sending = <<>>
  /\ Len(toUart) < Depth
  /\ toUart' = Append(toUart, pushing[1])
  /\ pushing' = <<>>
  /\ UNCHANGED <<linkActive, toNetwork, phase, sending, core1, epoch, counts,
                 admitted, sent, written>>

(* push: the receive loop waits until TO_UART takes the frame.             *)
PushDown ==
  /\ phase = "session"
  /\ pushing # <<>>
  /\ Len(toUart) < Depth
  /\ toUart' = Append(toUart, pushing[1])
  /\ pushing' = <<>>
  /\ UNCHANGED <<linkActive, toNetwork, phase, sending, core1, epoch, counts,
                 admitted, sent, written>>

(* Either loop fails: select drops the other one and the frames both hold. *)
SessionEnds ==
  /\ phase = "session"
  /\ phase' = "closing"
  /\ sending' = <<>>
  /\ pushing' = <<>>
  /\ UNCHANGED <<linkActive, toNetwork, toUart, core1, epoch, counts, admitted,
                 sent, written>>

(* LINK_ACTIVE is cleared before abort and flush.                          *)
Close ==
  /\ phase = "closing"
  /\ linkActive' = FALSE
  /\ phase' = "delay"
  /\ UNCHANGED <<toNetwork, toUart, sending, pushing, core1, epoch, counts,
                 admitted, sent, written>>

(* abort, flush and the reconnect delay are over.                          *)
Reconnect ==
  /\ phase = "delay"
  /\ phase' = "start"
  /\ UNCHANGED <<linkActive, toNetwork, toUart, sending, pushing, core1, epoch,
                 counts, admitted, sent, written>>

(* wait_address_change wins app()'s select: run is dropped at whatever     *)
(* await it stands ...                                                     *)
AddressChange ==
  /\ phase \in {"connect", "handshake", "session", "delay"}
  /\ phase' = "cancelled"
  /\ sending' = <<>>
  /\ pushing' = <<>>
  /\ UNCHANGED <<linkActive, toNetwork, toUart, core1, epoch, counts, admitted,
                 sent, written>>

(* ... and app() clears the flag and, once the network is configured, runs *)
(* the bridge again.                                                       *)
RunAgain ==
  /\ phase = "cancelled"
  /\ linkActive' = FALSE
  /\ phase' = "start"
  /\ UNCHANGED <<toNetwork, toUart, sending, pushing, core1, epoch, counts,
                 admitted, sent, written>>

-----------------------------------------------------------------------------
Init ==
  /\ linkActive = FALSE
  /\ toNetwork = <<>> /\ toUart = <<>>
  /\ phase = "start"
  /\ sending = <<>> /\ pushing = <<>>
  /\ held = <<>> /\ writing = <<>>
  /\ epoch = 0
  /\ upCount = 0 /\ downCount = 0 /\ localCount = 0
  /\ admitted = <<>> /\ sent = <<>> /\ written = <<>>

Core1 == ReceiveData \/ AdmitUart \/ ReceiveLocal \/ TransmitPop \/ TransmitWrite

Core0 ==
  \/ Start \/ Drain \/ Connect \/ Handshake
  \/ SendPop \/ SendWrite \/ ReceiveFrame \/ PushDown
  \/ SessionEnds \/ Close \/ Reconnect \/ AddressChange \/ RunAgain

Next == Core0 \/ Core1

Spec == Init /\ [][Next]_vars

(***************************************************************************)
(* The executors poll every woken task: uart_transmit takes a queued       *)
(* packet, the send loop a queued frame, and a push that finds room ends.  *)
(* How fast the peer and the UART take bytes (SendWrite, TransmitWrite) is *)
(* left to the properties.                                                 *)
(***************************************************************************)
Fairness == WF_vars(TransmitPop) /\ WF_vars(SendPop) /\ WF_vars(PushDown)

FairSpec == Spec /\ Fairness

-----------------------------------------------------------------------------
(* Properties.                                                             *)

FrameSet == [kind : {"up", "down", "reply"}, epoch : 0 .. MaxEpoch,
             n : 0 .. MaxUp + MaxDown + MaxLocal]

TypeOK ==
  /\ linkActive \in BOOLEAN
  /\ toNetwork \in Seq(FrameSet) /\ Len(toNetwork) <= Depth
  /\ toUart \in Seq(FrameSet) /\ Len(toUart) <= Depth
  /\ phase \in Phases
  /\ \A s \in {sending, pushing, held, writing} : s \in Seq(FrameSet) /\ Len(s) <= 1
  /\ epoch \in 0 .. MaxEpoch
  /\ upCount \in 0 .. MaxUp /\ downCount \in 0 .. MaxDown
  /\ localCount \in 0 .. MaxLocal
  /\ \A s \in {admitted, sent, written} : s \in Seq(FrameSet)

Current(f) == f.epoch = epoch

Stale(s) == {i \in DOMAIN s : ~Current(s[i])}

(* Everything the session has taken or will take from TO_NETWORK.          *)
Upload == sent \o sending \o toNetwork

(***************************************************************************)
(* AtMostOneStale: a session sends at most one frame that the UART         *)
(* received before it started, and sends it first (run drains TO_NETWORK   *)
(* while uart_receive may already hold one frame the flag let through).    *)
(***************************************************************************)
AtMostOneStale ==
  phase = "session" => Stale(Upload) \subseteq {1}

(* Without the frame of an earlier session that may come first.            *)
Fresh(s) == IF s # <<>> /\ ~Current(Head(s)) THEN Tail(s) ELSE s

(***************************************************************************)
(* UploadExact: while a session lasts, every frame of the session that     *)
(* TO_NETWORK accepted is written, being written or still queued, once and *)
(* in order, and besides them only one stale frame in front of them        *)
(* (forward_tcp's send loop never loses or reorders one).                  *)
(***************************************************************************)
UploadExact == phase = "session" => Fresh(Upload) = admitted

(***************************************************************************)
(* DownInOrder: the UART host gets the downlink frames in the order the    *)
(* peer sent them, and within one session without a gap: only what the     *)
(* session's end caught before TO_UART accepted it is missing.             *)
(***************************************************************************)
DownInOrder ==
  \A i \in DOMAIN written :
    LET f == written[i] IN
      \/ i > 1 /\ written[i - 1].epoch = f.epoch /\ f.n = written[i - 1].n + 1
      \/ f.n = 1 /\ (i > 1 => written[i - 1].epoch < f.epoch)

(***************************************************************************)
(* UploadFlows: while the peer takes bytes, a queued upload frame is sent  *)
(* or the session ends, even if the UART host reads nothing and TO_UART is *)
(* full ("a full downlink queue never stops upload", forward_tcp).         *)
(***************************************************************************)
UploadFlows ==
  WF_vars(SendWrite) =>
    (phase = "session" /\ toNetwork # <<>>) ~>
      (phase # "session" \/ toNetwork = <<>>)

(***************************************************************************)
(* DownFlows: while the UART takes bytes, a frame read from TCP reaches    *)
(* TO_UART or the session ends, even if the peer takes no bytes ("awaiting *)
(* TCP send capacity never prevents TCP receive", forward_tcp).            *)
(***************************************************************************)
DownFlows ==
  WF_vars(TransmitWrite) =>
    (phase = "session" /\ pushing # <<>>) ~> pushing = <<>>

(***************************************************************************)
(* NoStaleUpload: a session sends only what was received while it was up.  *)
(***************************************************************************)
NoStaleUpload == \A i \in DOMAIN sent : Current(sent[i])
=============================================================================
