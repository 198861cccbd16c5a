----------------------------- MODULE UsbBridge -----------------------------
(***************************************************************************)
(* bridge/usb.rs: the bridge between a USB serial port and TCP.  What the   *)
(* host types is forwarded, except lines that begin with a slash, which are *)
(* commands for the board and answered on USB.  The recogniser works byte   *)
(* by byte across packets and gives back what it held when a line turns out *)
(* to be data.                                                              *)
(*                                                                          *)
(* Bytes are classes: "/", another printable "x", carriage return "r", line *)
(* feed "n" and binary "b".  Bytes from the network are only counted.       *)
(***************************************************************************)
EXTENDS Integers, Sequences, SequencesExt

CONSTANTS
  CommandMax,   \* capacity of the command buffer (256)
  PacketMax,    \* bytes of a USB packet (64)
  Window,       \* room for bytes that TCP has not taken yet
  MaxNet,       \* bound: bytes the peer sends
  MaxEnds       \* bound: sessions that end

ASSUME UsbAssumption == CommandMax \in Nat \ {0} /\ Window \in Nat \ {0}

VARIABLES
  typed,      \* what the host still has to send
  endpoint,   \* the packet that waits in the OUT endpoint
  usbStage,   \* connect, handshake; of a session: select, input, down; close
  packet,     \* the rest of the packet in hand
  lineStart, active, buf,  \* LocalCommandState
  todo,       \* bytes that write_socket has yet to write
  answer,     \* the command whose answer is being written to USB
  inFlight,   \* bytes in TCP's buffer
  net, netSent,  \* bytes that the peer sent: unread, and all of them
  link,       \* LINK_ACTIVE
  seen, sent, answered,  \* history of this session
  ends

usb == <<typed, endpoint, usbStage, packet, lineStart, active, buf, todo, answer,
         inFlight, net, netSent, link, seen, sent, answered, ends>>

Recogniser == <<lineStart, active, buf>>
Work == <<packet, todo, answer>>
Log == <<seen, sent, answered>>
Wires == <<typed, endpoint, inFlight, net, netSent>>

InSession == usbStage \in {"select", "input", "down"}
Printable == {"/", "x"}
Bytes == Printable \cup {"r", "n", "b"}

UsbStart(texts) ==
  /\ typed \in texts
  /\ endpoint = <<>> /\ usbStage = "connect" /\ packet = <<>>
  /\ lineStart = TRUE /\ active = FALSE /\ buf = <<>>
  /\ todo = <<>> /\ answer = <<>>
  /\ inFlight = 0 /\ net = 0 /\ netSent = 0 /\ link = FALSE
  /\ seen = <<>> /\ sent = <<>> /\ answered = <<>> /\ ends = 0

----------------------------------------------------------------------------
\* The host and the peer.

HostSends ==
  /\ endpoint = <<>>
  /\ \E n \in 1..PacketMax :
       /\ n <= Len(typed)
       /\ endpoint' = SubSeq(typed, 1, n) /\ typed' = SubSeq(typed, n + 1, Len(typed))
  /\ UNCHANGED <<usbStage, Recogniser, Work, inFlight, net, netSent, link, Log, ends>>

PeerSends ==
  /\ InSession /\ netSent < MaxNet
  /\ net' = net + 1 /\ netSent' = netSent + 1
  /\ UNCHANGED <<typed, endpoint, usbStage, Recogniser, Work, inFlight, link, Log, ends>>

PeerTakes ==
  /\ inFlight > 0 /\ inFlight' = inFlight - 1
  /\ UNCHANGED <<typed, endpoint, usbStage, Recogniser, Work, net, netSent, link, Log, ends>>

----------------------------------------------------------------------------
\* Connections.

Connect ==
  /\ usbStage = "connect" /\ usbStage' = "handshake"
  /\ UNCHANGED <<Wires, Recogniser, Work, link, Log, ends>>

\* A session begins with a new LocalCommandState.
Greet ==
  /\ usbStage = "handshake" /\ usbStage' = "select"
  /\ link' = TRUE
  /\ lineStart' = TRUE /\ active' = FALSE /\ buf' = <<>>
  /\ seen' = <<>> /\ sent' = <<>> /\ answered' = <<>>
  /\ UNCHANGED <<Wires, Work, ends>>

\* End of stream, a time-out or an error of either side, at any await: what was
\* in hand is lost with the session.
SessionEnds ==
  /\ usbStage = "handshake" \/ InSession
  /\ ends < MaxEnds /\ ends' = ends + 1
  /\ usbStage' = "close"
  /\ packet' = <<>> /\ todo' = <<>> /\ answer' = <<>>
  /\ inFlight' = 0 /\ net' = 0
  /\ UNCHANGED <<typed, endpoint, Recogniser, netSent, link, Log>>

Close ==
  /\ usbStage = "close" /\ usbStage' = "connect"
  /\ link' = FALSE
  /\ UNCHANGED <<Wires, Recogniser, Work, Log, ends>>

\* The application drops run_client or run_server and starts it again.
AddressLost ==
  /\ ends < MaxEnds /\ ends' = ends + 1
  /\ usbStage' = "connect" /\ link' = FALSE
  /\ packet' = <<>> /\ todo' = <<>> /\ answer' = <<>>
  /\ inFlight' = 0 /\ net' = 0
  /\ UNCHANGED <<typed, endpoint, Recogniser, netSent, Log>>

----------------------------------------------------------------------------
\* The session.

\* select polls USB first.
ReadPacket ==
  /\ usbStage = "select" /\ endpoint # <<>>
  /\ usbStage' = "input" /\ packet' = endpoint /\ endpoint' = <<>>
  /\ UNCHANGED <<typed, inFlight, net, netSent, Recogniser, todo, answer, link, Log, ends>>

ReadSocket ==
  /\ usbStage = "select" /\ endpoint = <<>> /\ net > 0
  /\ usbStage' = "down" /\ net' = 0
  /\ UNCHANGED <<typed, endpoint, inFlight, netSent, Recogniser, Work, link, Log, ends>>

\* The host reads what came from the network.
WriteUsb ==
  /\ usbStage = "down" /\ usbStage' = "select"
  /\ UNCHANGED <<Wires, Recogniser, Work, link, Log, ends>>

\* The next byte b of the packet, when everything before it has been written.
Take(b) ==
  /\ usbStage = "input" /\ todo = <<>> /\ answer = <<>>
  /\ packet # <<>> /\ b = Head(packet)
  /\ packet' = Tail(packet) /\ seen' = Append(seen, b)
  /\ UNCHANGED <<Wires, usbStage, link, sent, ends>>

CommandEnds ==
  /\ active /\ Take("n")
  /\ answer' = buf /\ answered' = Append(answered, buf)
  /\ active' = FALSE /\ buf' = <<>> /\ lineStart' = TRUE
  /\ UNCHANGED todo

CommandSkips == active /\ Take("r") /\ UNCHANGED <<Recogniser, todo, answer, answered>>

CommandGrows ==
  /\ active /\ Len(buf) < CommandMax
  /\ \E b \in Printable : Take(b) /\ buf' = Append(buf, b)
  /\ UNCHANGED <<lineStart, active, todo, answer, answered>>

\* A bug the code does not have: the rest of the line counts as a new line.
FlushFault(b) ==
  /\ todo' = Append(buf, b)
  /\ active' = FALSE /\ buf' = <<>> /\ UNCHANGED lineStart

\* flush_command_bytes, and the byte that did not fit.
Flush(b) ==
  /\ todo' = Append(buf, b)
  /\ active' = FALSE /\ buf' = <<>> /\ lineStart' = FALSE

NoCommand ==
  /\ active
  /\ \E b \in {"b"} \cup IF Len(buf) = CommandMax THEN Printable ELSE {} :
       Take(b) /\ Flush(b)
  /\ UNCHANGED <<answer, answered>>

CommandBegins ==
  /\ ~active /\ lineStart /\ Take("/")
  /\ active' = TRUE /\ buf' = <<"/">>
  /\ UNCHANGED <<lineStart, todo, answer, answered>>

Forward ==
  /\ ~active
  /\ \E b \in Bytes :
       /\ ~(lineStart /\ b = "/") /\ Take(b)
       /\ todo' = <<b>>
       /\ lineStart' = (b = "n" \/ (b = "r" /\ lineStart))
  /\ UNCHANGED <<active, buf, answer, answered>>

\* A bug the code does not have: the write waits for room for all its bytes.
WriteSocketFault ==
  /\ todo # <<>> /\ inFlight + Len(todo) <= Window
  /\ sent' = sent \o todo /\ todo' = <<>>
  /\ inFlight' = inFlight + Len(todo)
  /\ UNCHANGED <<typed, endpoint, usbStage, packet, answer, net, netSent, Recogniser,
                 link, seen, answered, ends>>

\* One write takes as many bytes as there is room for.
WriteSocket ==
  /\ todo # <<>>
  /\ \E n \in 1..Len(todo) :
       /\ inFlight + n <= Window
       /\ sent' = sent \o SubSeq(todo, 1, n) /\ todo' = SubSeq(todo, n + 1, Len(todo))
       /\ inFlight' = inFlight + n
  /\ UNCHANGED <<typed, endpoint, usbStage, packet, answer, net, netSent, Recogniser,
                 link, seen, answered, ends>>

\* The host reads the answer.
WriteAnswer ==
  /\ answer # <<>> /\ answer' = <<>>
  /\ UNCHANGED <<Wires, usbStage, packet, todo, Recogniser, link, Log, ends>>

InputDone ==
  /\ usbStage = "input" /\ packet = <<>> /\ todo = <<>> /\ answer = <<>>
  /\ usbStage' = "select"
  /\ UNCHANGED <<Wires, Recogniser, Work, link, Log, ends>>

HandleByte ==
  CommandEnds \/ CommandSkips \/ CommandGrows \/ NoCommand \/ CommandBegins \/ Forward

UsbNext ==
  \/ HostSends \/ PeerSends \/ PeerTakes
  \/ Connect \/ Greet \/ SessionEnds \/ Close \/ AddressLost
  \/ ReadPacket \/ ReadSocket \/ WriteUsb
  \/ HandleByte \/ WriteSocket \/ WriteAnswer \/ InputDone

\* The executor polls the session, the peer acknowledges, and the host reads.
UsbFairness ==
  /\ WF_usb(ReadPacket \/ ReadSocket) /\ WF_usb(HandleByte) /\ WF_usb(InputDone)
  /\ WF_usb(WriteSocket) /\ WF_usb(PeerTakes)
  /\ WF_usb(WriteUsb) /\ WF_usb(WriteAnswer)

----------------------------------------------------------------------------
\* What a session has to do with the bytes it has seen, line by line and each
\* line as a whole.

WithoutReturns(bytes) ==
  FlattenSeq([i \in 1..Len(bytes) |-> IF bytes[i] = "r" THEN <<>> ELSE <<bytes[i]>>])

Text(line, i) == WithoutReturns(SubSeq(line, 1, i))

\* Where the line's first byte is that is not a carriage return, or 0.
Body(line) == SelectInSeq(line, LAMBDA b : b # "r")

\* The bytes at which a line cannot be a command any more: a binary one, or one
\* more than the command buffer holds.
Breaks(line) ==
  {i \in 1..Len(line) :
     line[i] = "b" \/ (line[i] \in Printable /\ Len(Text(line, i)) > CommandMax)}

Nothing == [out |-> <<>>, commands |-> <<>>, held |-> <<>>]

\* Leading carriage returns are data; a line that then begins with a slash is a
\* command, without its carriage returns, unless it breaks.  What may become a
\* command is held until the line has ended.
LineMeaning(line, ended) ==
  LET lead == SubSeq(line, 1, Body(line) - 1)
      text == Text(line, Len(line))
      stop == Min(Breaks(line))
      data(bytes) == [Nothing EXCEPT !.out = bytes \o IF ended THEN <<"n">> ELSE <<>>]
  IN  IF Body(line) = 0 THEN data(line)
      ELSE IF line[Body(line)] # "/" THEN data(line)
      ELSE IF Breaks(line) # {}
           THEN data((lead \o Text(line, stop - 1)) \o SubSeq(line, stop, Len(line)))
      ELSE IF ended THEN [out |-> lead, commands |-> <<text>>, held |-> <<>>]
      ELSE [out |-> lead, commands |-> <<>>, held |-> text]

\* The bytes behind the last line feed among the first i.
LineTo(bytes, i) ==
  SubSeq(bytes, Max({0} \cup {j \in 1..i : bytes[j] = "n"}) + 1, i)

EndedAt(bytes, i) ==
  IF bytes[i] = "n" THEN LineMeaning(LineTo(bytes, i - 1), TRUE) ELSE Nothing

Meaning(bytes) ==
  LET rest == LineMeaning(LineTo(bytes, Len(bytes)), FALSE)
  IN  [out |-> FlattenSeq([i \in 1..Len(bytes) |-> EndedAt(bytes, i).out]) \o rest.out,
       commands |-> FlattenSeq([i \in 1..Len(bytes) |-> EndedAt(bytes, i).commands])
                      \o rest.commands,
       held |-> rest.held]

\* Within a session every byte is forwarded once and in order, answered as part
\* of a command or held, as the lines say, however the bytes are cut into
\* packets and writes (handle_usb_input).
UsbExact ==
  InSession =>
    LET meaning == Meaning(seen)
    IN  /\ sent \o todo = meaning.out
        /\ answered = meaning.commands
        /\ buf = meaning.held /\ active = (meaning.held # <<>>)

\* While peer and host read, no packet is stuck, however small the window, and
\* what came from the network reaches the host.
UsbFlows ==
  /\ (packet # <<>>) ~> (packet = <<>>)
  /\ (net > 0) ~> (net = 0 \/ ~InSession)
=============================================================================
