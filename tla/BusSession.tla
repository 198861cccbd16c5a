----------------------------- MODULE BusSession -----------------------------
(***************************************************************************)
(* The I2C and SPI sessions (bridge/i2c.rs, bridge/spi.rs) of two boards,  *)
(* a client and a server, over one TCP connection: connecting, the         *)
(* handshake of exchange_link_handshake, the session loop that serves the  *)
(* bus and the network by turns, the frame reader below it                 *)
(* (protocol/stream.rs), and the ends of all of them.                      *)
(*                                                                         *)
(* A board runs one task; one step is what it does between two awaits.     *)
(* TCP carries chunks: a frame is a header chunk and as many chunks as its *)
(* payload needs, numbered so that a frame that is torn or skipped is      *)
(* visible.  What a connection holds on its way to a board (the sender's   *)
(* buffer and the receiver's) is bounded by Window.  A mailbox is a FIFO;  *)
(* of the transmit mailbox only the length matters.                        *)
(*                                                                         *)
(* Definitions named ...Fault are variants a mistake in the code could     *)
(* introduce; no specification uses them, they show what each property     *)
(* would notice.                                                           *)
(***************************************************************************)
EXTENDS Naturals, Sequences, SequencesExt

CONSTANTS
  Setups,       (* the upstreams of the two boards                         *)
  Requests,     (* from the bus: the chunks of a payload, 0 for a command  *)
  Largest,      (* per bus: the longest payload of a packet and of net_buf *)
  RxDepth, TxDepth,
  Window,
  MaxRequests,  (* bound, per setup: the requests of each board's bus      *)
  MaxConnections (* bound: TCP connections                                 *)

Boards == {"client", "server"}
Buses == {"i2c", "spi"}

ASSUME BusSessionAssumption ==
  /\ Setups \subseteq [Boards -> Buses]
  /\ Requests \subseteq Nat
  /\ Largest \in [Buses -> Nat \ {0}]
  /\ {RxDepth, TxDepth, Window} \subseteq Nat \ {0}
  /\ MaxRequests \in [Setups -> [Boards -> Nat]] /\ MaxConnections \in Nat

VARIABLES
  bus,         (* the upstream of each board                               *)
  pc,          (* where its task is                                        *)
  rx,          (* requests from the bus, oldest first                      *)
  tx,          (* responses to the bus                                     *)
  link,        (* LINK_ACTIVE                                              *)
  sock,        (* closed, open, or reset by the other side                 *)
  stream,      (* chunks on the way to a board                             *)
  partial,     (* chunks its FrameReader and net_buf hold                  *)
  writing,     (* chunks its write_bridge_frame has still to write         *)
  wrote,       (* history: number of the last frame it began to write      *)
  next,        (* history: number of the frame it reads next               *)
  asked,       (* history: requests its bus has made                       *)
  connections  (* history: connections made                                *)

mailboxes == <<rx, tx, asked>>
wire == <<sock, stream, connections>>
frames == <<partial, writing, wrote, next>>
vars == <<bus, pc, rx, tx, link, sock, stream, partial, writing, wrote, next, asked, connections>>

Peer(b) == IF b = "client" THEN "server" ELSE "client"

(* Frame 0 is the handshake's magic.                                       *)
Chunk(n, part, size) == [n |-> n, part |-> part, size |-> size]
Frame(n, size) == [i \in 1 .. size + 1 |-> Chunk(n, i - 1, size)]
Magic == Frame(0, 0)

HasSpace(b) == tx[b] < TxDepth
Connected(b) == sock[b] = "open" /\ sock[Peer(b)] = "open"

-----------------------------------------------------------------------------
(* The bus.                                                                *)

(* A request reaches the session's mailbox, which keeps the newest.        *)
Request(b, r) ==
  /\ r <= Largest[bus[b]]
  /\ asked[b] < MaxRequests[bus][b] /\ asked' = [asked EXCEPT ![b] = @ + 1]
  /\ rx' = [rx EXCEPT ![b] = Append(IF Len(@) = RxDepth THEN Tail(@) ELSE @, r)]
  /\ UNCHANGED <<bus, pc, tx, link, wire, frames>>

Pull(b) ==
  /\ tx[b] > 0
  /\ tx' = [tx EXCEPT ![b] = @ - 1]
  /\ UNCHANGED <<bus, pc, rx, asked, link, wire, frames>>

-----------------------------------------------------------------------------
(* TCP.                                                                    *)

(* What a board sends to a peer that is gone is lost.                      *)
Send(b, c) ==
  stream' = IF Connected(b) THEN [stream EXCEPT ![Peer(b)] = Append(@, c)] ELSE stream
CanSend(b) == sock[b] = "open" /\ Len(stream[Peer(b)]) < Window

(* A connection whose other end is gone is reset, by a packet of that end, *)
(* the keep-alive or the session's time-out; what was on the way may       *)
(* arrive or not.                                                          *)
Reset(b) ==
  /\ sock[b] = "open" /\ sock[Peer(b)] # "open"
  /\ sock' = [sock EXCEPT ![b] = "reset"]
  /\ \E n \in 0 .. Len(stream[b]) : stream' = [stream EXCEPT ![b] = SubSeq(@, 1, n)]
  /\ UNCHANGED <<bus, pc, mailboxes, link, connections, frames>>

(* socket.abort() and the end of the session's variables.                  *)
Abort(b) ==
  /\ sock' = [sock EXCEPT ![b] = "closed"]
  /\ stream' = [stream EXCEPT ![b] = <<>>]
  /\ partial' = [partial EXCEPT ![b] = <<>>]
  /\ writing' = [writing EXCEPT ![b] = <<>>]
  /\ link' = [link EXCEPT ![b] = FALSE]
  /\ UNCHANGED <<wrote, next, connections>>

-----------------------------------------------------------------------------
(* Before a session.                                                       *)

Goto(b, place) == pc' = [pc EXCEPT ![b] = place]

(* startup_delay_ms and reconnect_delay_ms.                                *)
Delay(b) ==
  /\ pc[b] = "delay" /\ Goto(b, "await")
  /\ UNCHANGED <<bus, mailboxes, link, wire, frames>>

(* An SPI board looks for a request first.                                 *)
Waits(b) == pc[b] = "await" /\ (bus[b] = "spi" => rx[b] = <<>>)

(* connect_with_timeout fails, or accept does.                             *)
DialFails(b) ==
  /\ Waits(b) /\ Goto(b, "delay")
  /\ UNCHANGED <<bus, mailboxes, link, wire, frames>>

Connect ==
  /\ \A b \in Boards : Waits(b) /\ sock[b] = "closed"
  /\ connections < MaxConnections /\ connections' = connections + 1
  /\ sock' = [b \in Boards |-> "open"]
  /\ stream' = [b \in Boards |-> <<>>]
  /\ wrote' = [b \in Boards |-> 0] /\ next' = [b \in Boards |-> 0]
  /\ pc' = [client |-> "greet", server |-> "greeting"]
  /\ UNCHANGED <<bus, mailboxes, link, partial, writing>>

(* An SPI board answers requests that come before there is a socket; the   *)
(* connect or accept under way is dropped.                                 *)
EarlyRequest(b) ==
  /\ bus[b] = "spi" /\ pc[b] = "await" /\ rx[b] # <<>>
  /\ rx' = [rx EXCEPT ![b] = Tail(@)]
  /\ Goto(b, "reply")
  /\ UNCHANGED <<bus, tx, asked, link, wire, frames>>

EarlyReply(b) ==
  /\ pc[b] = "reply" /\ HasSpace(b)
  /\ tx' = [tx EXCEPT ![b] = @ + 1]
  /\ Goto(b, "await")
  /\ UNCHANGED <<bus, rx, asked, link, wire, frames>>

(* The client takes the magic's way out for the answer.                    *)
GreetFault ==
  /\ pc["client"] = "greet" /\ CanSend("client")
  /\ Send("client", Magic[1])
  /\ next' = [next EXCEPT !["client"] = 1]
  /\ link' = [link EXCEPT !["client"] = TRUE]
  /\ Goto("client", "loop")
  /\ UNCHANGED <<bus, mailboxes, sock, connections, partial, writing, wrote>>

(* exchange_link_handshake: the client writes the magic and waits for it,  *)
(* the server waits and answers.                                           *)
Greet ==
  /\ pc["client"] = "greet" /\ CanSend("client")
  /\ Send("client", Magic[1])
  /\ Goto("client", "greeting")
  /\ UNCHANGED <<bus, mailboxes, link, sock, connections, frames>>

Greeted(b) ==
  /\ pc[b] = "greeting" /\ stream[b] # <<>> /\ Head(stream[b]) = Magic[1]
  /\ stream' = [c \in Boards |->
       IF c = b THEN Tail(stream[b])
       ELSE IF b = "server" /\ Connected(b) THEN Append(stream[c], Magic[1]) ELSE stream[c]]
  /\ next' = [next EXCEPT ![b] = 1]
  /\ link' = [link EXCEPT ![b] = TRUE]
  /\ Goto(b, "loop")
  /\ UNCHANGED <<bus, mailboxes, sock, connections, partial, writing, wrote>>

(* The time is up or the connection is lost.                               *)
GreetingFails(b) ==
  /\ pc[b] \in {"greet", "greeting"}
  /\ Goto(b, "close")
  /\ UNCHANGED <<bus, mailboxes, link, wire, frames>>

-----------------------------------------------------------------------------
(* The session loop.                                                       *)

CheckFault(b) ==
  /\ pc[b] = "loop"
  /\ Goto(b, "select")
  /\ UNCHANGED <<bus, mailboxes, link, wire, frames>>

(* A response that may not fit stops the reading.                          *)
Check(b) ==
  /\ pc[b] = "loop"
  /\ Goto(b, IF HasSpace(b) THEN "select" ELSE "paused")
  /\ UNCHANGED <<bus, mailboxes, link, wire, frames>>

Resume(b) ==
  /\ pc[b] = "paused" /\ rx[b] = <<>> /\ HasSpace(b)
  /\ Goto(b, "loop")
  /\ UNCHANGED <<bus, mailboxes, link, wire, frames>>

(* The order of the session's select, which looks at its first future      *)
(* first: I2C takes requests, SPI reads.                                   *)
PopFirstFault(b) == TRUE
PopFirst(b) == bus[b] = "i2c"

Readable(b) == stream[b] # <<>> \/ sock[b] = "reset"
MayPop(b) == rx[b] # <<>> /\ (pc[b] = "paused" \/ PopFirst(b) \/ ~Readable(b))
MayRead(b) == pc[b] = "select" /\ Readable(b) /\ (~PopFirst(b) \/ rx[b] = <<>>)

(* The reader begins again after every select.                             *)
TakeRequestFault(b) ==
  /\ pc[b] \in {"select", "paused"} /\ MayPop(b)
  /\ rx' = [rx EXCEPT ![b] = Tail(@)]
  /\ LET r == Head(rx[b])
     IN  IF r = 0
         THEN Goto(b, "push") /\ UNCHANGED <<writing, wrote>>
         ELSE /\ Goto(b, "write")
              /\ wrote' = [wrote EXCEPT ![b] = @ + 1]
              /\ writing' = [writing EXCEPT ![b] = Frame(wrote'[b], r)]
  /\ partial' = [partial EXCEPT ![b] = <<>>]
  /\ UNCHANGED <<bus, tx, asked, link, wire, next>>

(* handle_i2c_request and handle_spi_request: the read is dropped; data is *)
(* written to the peer and a command answered, and nothing else is served  *)
(* until that is done.                                                     *)
TakeRequest(b) ==
  /\ pc[b] \in {"select", "paused"} /\ MayPop(b)
  /\ rx' = [rx EXCEPT ![b] = Tail(@)]
  /\ LET r == Head(rx[b])
     IN  IF r = 0
         THEN Goto(b, "push") /\ UNCHANGED <<writing, wrote>>
         ELSE /\ Goto(b, "write")
              /\ wrote' = [wrote EXCEPT ![b] = @ + 1]
              /\ writing' = [writing EXCEPT ![b] = Frame(wrote'[b], r)]
  /\ UNCHANGED <<bus, tx, asked, link, wire, partial, next>>

Write(b) ==
  /\ pc[b] = "write" /\ CanSend(b)
  /\ Send(b, Head(writing[b]))
  /\ writing' = [writing EXCEPT ![b] = Tail(@)]
  /\ Goto(b, IF Len(writing[b]) = 1 THEN "loop" ELSE "write")
  /\ UNCHANGED <<bus, mailboxes, link, sock, connections, partial, wrote, next>>

WriteFails(b) ==
  /\ pc[b] = "write" /\ sock[b] = "reset"
  /\ Goto(b, "close")
  /\ UNCHANGED <<bus, mailboxes, link, wire, frames>>

Push(b) ==
  /\ pc[b] = "push" /\ HasSpace(b)
  /\ tx' = [tx EXCEPT ![b] = @ + 1]
  /\ Goto(b, "loop")
  /\ UNCHANGED <<bus, rx, asked, link, wire, frames>>

(* A frame is complete: it is queued, and the session ends if it cannot.   *)
Deliver(b) ==
  /\ partial' = [partial EXCEPT ![b] = <<>>]
  /\ next' = [next EXCEPT ![b] = @ + 1]
  /\ IF HasSpace(b)
     THEN tx' = [tx EXCEPT ![b] = @ + 1] /\ Goto(b, "loop")
     ELSE UNCHANGED tx /\ Goto(b, "close")

(* FrameReader: its progress survives a dropped read.  A chunk that is no  *)
(* header where one is due, or a frame too long for the buffer, ends the   *)
(* session.                                                                *)
ReadChunk(b) ==
  LET c == Head(stream[b])
      got == Append(partial[b], c)
      bad == partial[b] = <<>> /\ (c.n = 0 \/ c.part # 0 \/ c.size > Largest[bus[b]])
  IN  /\ MayRead(b) /\ stream[b] # <<>>
      /\ stream' = [stream EXCEPT ![b] = Tail(@)]
      /\ \/ /\ bad /\ Goto(b, "close")
            /\ UNCHANGED <<tx, partial, next>>
         \/ /\ ~bad /\ Len(got) = got[1].size + 1
            /\ Deliver(b)
         \/ /\ ~bad /\ Len(got) < got[1].size + 1
            /\ partial' = [partial EXCEPT ![b] = got]
            /\ UNCHANGED <<pc, tx, next>>
      /\ UNCHANGED <<bus, rx, asked, link, sock, connections, writing, wrote>>

ReadFails(b) ==
  /\ MayRead(b) /\ stream[b] = <<>>
  /\ Goto(b, "close")
  /\ UNCHANGED <<bus, mailboxes, link, wire, frames>>

(* A client pauses before it connects again, a server listens at once.     *)
Close(b) ==
  /\ pc[b] = "close"
  /\ Abort(b)
  /\ Goto(b, IF b = "client" THEN "delay" ELSE "await")
  /\ UNCHANGED <<bus, mailboxes>>

(* An address change drops the task wherever it waits (main.rs).           *)
AddressChange(b) ==
  /\ pc[b] \notin {"close", "delay"}
  /\ Abort(b)
  /\ Goto(b, "delay")
  /\ UNCHANGED <<bus, mailboxes>>

-----------------------------------------------------------------------------

Init ==
  /\ bus \in Setups
  /\ pc = [client |-> "delay", server |-> "await"]
  /\ rx = [b \in Boards |-> <<>>] /\ tx = [b \in Boards |-> 0]
  /\ link = [b \in Boards |-> FALSE]
  /\ sock = [b \in Boards |-> "closed"] /\ stream = [b \in Boards |-> <<>>]
  /\ partial = [b \in Boards |-> <<>>] /\ writing = [b \in Boards |-> <<>>]
  /\ wrote = [b \in Boards |-> 0] /\ next = [b \in Boards |-> 0]
  /\ asked = [b \in Boards |-> 0] /\ connections = 0

Session(b) ==
  \/ Check(b) \/ Resume(b) \/ TakeRequest(b) \/ Write(b) \/ WriteFails(b)
  \/ Push(b) \/ ReadChunk(b) \/ ReadFails(b) \/ Close(b)

Next ==
  \/ Connect \/ Greet
  \/ \E b \in Boards :
       \/ Pull(b) \/ (\E r \in Requests : Request(b, r)) \/ Reset(b)
       \/ Delay(b) \/ DialFails(b) \/ EarlyRequest(b) \/ EarlyReply(b)
       \/ Greeted(b) \/ GreetingFails(b) \/ Session(b) \/ AddressChange(b)

Own(b) == Session(b) \/ EarlyRequest(b) \/ EarlyReply(b) \/ Reset(b) \/ Pull(b)

(* The executor runs a woken task, a dead connection is noticed, and the   *)
(* masters read their responses: no board stands still while one of these  *)
(* can be done.                                                            *)
Spec == Init /\ [][Next]_vars /\ \A b \in Boards : WF_vars(Own(b))

-----------------------------------------------------------------------------
(* Properties.                                                             *)

Places == {"delay", "await", "reply", "greet", "greeting", "loop", "select", "paused",
           "write", "push", "close"}

(* TypeOK: the state keeps its types, and a session that reads has room    *)
(* for the frame it may complete, whatever it served since it looked.      *)
TypeOK ==
  /\ bus \in Setups /\ pc \in [Boards -> Places]
  /\ link \in [Boards -> BOOLEAN] /\ sock \in [Boards -> {"closed", "open", "reset"}]
  /\ \A b \in Boards :
       /\ rx[b] \in Seq(Requests) /\ Len(rx[b]) <= RxDepth
       /\ tx[b] \in 0 .. TxDepth
       /\ Len(stream[b]) <= Window
       /\ pc[b] = "select" => HasSpace(b)

(* What chunk comes after another one.                                     *)
Follows(c, d) ==
  IF c.part < c.size THEN d = [c EXCEPT !.part = @ + 1]
  ELSE d.n = c.n + 1 /\ d.part = 0

(* What a board has of a frame, what is on the way to it, and what its     *)
(* peer has yet to write.                                                  *)
Line(b) == partial[b] \o stream[b] \o (IF Connected(b) THEN writing[Peer(b)] ELSE <<>>)

(* StreamExact: what a board has of a frame, what is on the way to it and  *)
(* what its peer has yet to write are whole frames in order, beginning     *)
(* with the one that is due, through dropped reads, partial writes and     *)
(* resets; the magic is in front of them.                                  *)
StreamExact ==
  \A b \in Boards :
    LET line == Line(b)
    IN  sock[b] # "closed" /\ pc[b] # "close" /\ line # <<>> =>
          /\ line[1].n = next[b] /\ line[1].part = 0
          /\ \A i \in 1 .. Len(line) - 1 : Follows(line[i], line[i + 1])
          /\ Connected(b) => LET last == line[Len(line)]
                             IN  last.part = last.size /\ last.n = wrote[Peer(b)]

(* Flows: between SPI boards that never have to pause, every frame that    *)
(* one begins to write is read by the other, or that session ends.  And    *)
(* an SPI board whose master reads its responses is not kept from          *)
(* connecting by the requests it answers before there is a connection,     *)
(* once no more requests come.                                             *)
Flows ==
  \A b \in Boards :
    /\ (\A c \in Boards : bus[c] = "spi") /\ [](\A c \in Boards : HasSpace(c)) =>
         (link[b] /\ next[b] <= wrote[Peer(b)] ~> next[b] > wrote[Peer(b)] \/ ~link[b])
    /\ bus[b] = "spi" => []<>(pc[b] # "reply" /\ (pc[b] = "await" => rx[b] = <<>>))

(* Implements: the sessions implement a link that hands whole frames over, *)
(* each once and in its turn (FrameLink).  A board that is about to close  *)
(* has left, and a frame is on the way to a board while its last chunk is  *)
(* on the line.                                                            *)
Up(b) == sock[b] # "closed" /\ pc[b] # "close"
Met(b) == Up(b) /\ link[b]
Whole(l) ==
  {[n |-> l[i].n, size |-> l[i].size] :
     i \in {j \in 1 .. Len(l) : l[j].part = l[j].size /\ l[j].n # 0}}
Way(b) == IF Up(b) THEN Whole(Line(b)) ELSE {}

Pair == INSTANCE FrameLink WITH
  Sizes <- Requests \ {0},
  up <- [b \in Boards |-> Up(b)], joined <- [b \in Boards |-> Met(b)],
  begun <- wrote, due <- next, way <- [b \in Boards |-> Way(b)]

Implements == Pair!Spec
=============================================================================
