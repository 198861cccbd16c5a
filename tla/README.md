# PICO-FI in TLA+

PICO-FI is firmware for an RP2040 with a W5500 Ethernet controller. It carries whole frames
between a local bus (UART, I2C, SPI or USB) and one TCP connection to another board or a ground
station. Core 0 runs every task on one cooperative executor: between two awaits a task is atomic
with respect to the others on that core. Core 1 is started only for the UART upstream and runs
the UART's two loops truly in parallel with core 0. Almost everything that can go wrong is an
order of steps: a frame let through by a flag that changes meanwhile, a wake-up sent after a lock
is released, a future dropped by a `select` with a frame in its hands, an offer that arrives late.

All paths below are relative to the crate's `src/` directory.

## Inventory

| Component | State | Operations | Interacts with | What makes it correct |
|---|---|---|---|---|
| Mailboxes (`bridge/overwrite_queue.rs`) | byte ring, length queue, `ready` and `space` signals | `push`, `try_push`, `push_overwrite`, `try_pop`, `pop`, `wait_for_space` | every bus task and every session, across cores for the UART | frames leave whole, once, in order; only `push_overwrite` loses accepted frames; no sleeper is forgotten |
| UART bridge (`bridge/uart.rs`, `bridge/uart_mailbox.rs`) | `LINK_ACTIVE`, `TO_NETWORK`, `TO_UART`, phase of `run` | receive, admit, local reply, transmit, drain, connect, handshake, two session loops, close | mailboxes, TCP, address changes | exact, ordered streams in a session; neither direction stops the other; nothing old in a new session |
| Automatic addressing (`protocol/auto_address.rs`, `arp_guard.rs`, `net.rs` `auto_address_task`) | policy phase and deadlines, probe flags, stack configuration | one poll of the policy, one service of the driver, one received frame | DHCP client, ARP, sessions (`LINK_ACTIVE`), discovery | nothing claimed unprobed or left undefended, healthy sessions kept, an address is always found |
| Network helpers (`net.rs`) | none of its own | bring-up, connect with timeout, handshake, frame write | sessions | both ends agree that a session exists |
| Frame reader (`protocol/stream.rs`) | header, progress | `read`, cancelled at any byte | UART and TCP streams | resynchronises without losing an intact frame |
| I2C slave task (`bridge/i2c_task.rs`, `protocol/i2c_packet.rs`) | packet being assembled, packet being sent, version 2 mailbox | slots, version 2 packets, recovery | I2C mailboxes | packets are assembled and answered whole, an undisturbed reply arrives once |
| I2C and SPI sessions (`bridge/i2c.rs`, `bridge/spi.rs`) | reader progress | session loop, requests before a connection | bus mailboxes, TCP | backpressure instead of loss; progress |
| SPI slave task (`bridge/spi_hw_task.rs`, `protocol/duplex.rs`, `bridge/spi_pio.rs`) | staged response, pulled response | transactions | SPI mailboxes | a pulled response survives until it is read |
| USB bridge (`bridge/usb.rs`) | state of the command recogniser, packet and write in hand | input, flush, answer, session | USB host, TCP | every typed byte is forwarded or answered once and in order; no direction is stuck |
| LAN discovery (`lan_discovery.rs`, `protocol/discovery.rs`) | peer and expiry, best offer, response count | query round, settle, answer | address changes, sessions | a peer is fresh, an offer is used, answers are limited |
| Application loop (`main.rs`) | none | restart of the bridge on an address change | all | every run starts with the flag cleared |
| LED (`main.rs` `heartbeat_task`, `bridge/commands.rs`, `bridge/test.rs`) | pin, command cell, reported state, heartbeat's mode | a command, one beat, the commands of test mode | every task that answers commands, `LINK_ACTIVE` | the last command wins and the report is true |
| Configuration, shell, storage (`config.rs`, `config_record.rs`, `storage.rs`, `shell.rs`) | flash record, line in hand, configuration, deadline | load, save, reset, each command, start | start-up | a boot finds the new record, the old one or none; what runs is what the next boot runs; the shell ends |

Hard behaviour, in short: parallel cores and late signals (mailboxes), check-then-act on a flag
across cores and cancellation at every await (UART bridge), deadlines against late frames and a
driver that may not be able to transmit (addressing), aborted bus transactions (I2C, SPI),
mutual waiting of two boards (sessions), power loss between erase and write (storage), a stream cut
at any byte by noise, errors and dropped reads (frame reader, USB).
`PROJECT.json` lists each at its line.

## Modules

| Module | What it models |
|---|---|
| `BoundedFifo` | The promise of a mailbox: a queue of at most `Depth` frames, delivered in order, whole and once; a lossy one may drop its oldest frame. |
| `Mailbox` | `OverwriteQueue` in detail: the ring's bytes, the length queue, both signals, and a task inside each operation. |
| `MCMailbox` | Small values for `Mailbox`. |
| `MailboxProofs` | The theorems about `Mailbox`, including that it implements `BoundedFifo`. |
| `UartBridge` | Both cores of the UART bridge over two FIFO mailboxes, through sessions, reconnects and address changes. |
| `AutoAddress` | The addressing policy, the task that executes its actions, the driver wrapper, and their environment. |
| `I2cTask`, `MCI2cTask` | The I2C slave task in both protocol versions, with its bus master, between its two mailboxes; small requests for it. |
| `SpiTask`, `MCSpiTask` | The SPI slave task's transactions, between its two mailboxes; small frames for it. |
| `Discovery`, `MCDiscovery` | The discovery task as client and as server, with ground stations, sessions and changes of address; small networks for it. |
| `FrameLink` | The promise of two sessions to each other: every frame that one begins to send is handed to the other whole, once and in its turn, until one of them leaves. |
| `BusSession`, `MCBusSession` | The I2C and SPI sessions of two boards over one TCP connection, with handshake and frame reader; a small instance. |
| `ConfigStore` | Start-up: the flash record with power losses and firmware updates, the shell and its commands. |
| `FrameReader` | The parser of the byte stream, for the UART (which resynchronises) and for TCP. |
| `UsbBridge` | The USB bridge's session with its command recogniser, between host and peer. |
| `Led` | The LED under `heartbeat_task` and in test mode. |
| `LocalSide`, `MCLocalSide` | These four, one of them running in each behaviour; small values for them. |
| `UartBridgeProofs`, `AutoAddressProofs`, `I2cTaskProofs`, `SpiTaskProofs`, `DiscoveryProofs`, `BusSessionProofs`, `LocalSideProofs` | The theorems about the module each is named after; the last one about all four parts of `LocalSide`. |

Names follow the code. Definitions whose name ends in `Fault` are variants that a plausible
mistake would produce; no specification uses them, they record which mistake each property
notices (`PROJECT.json`, "mutants").

### Mailbox

A lock section is one step, because every access is inside a critical section that excludes the
other core; the signal after it is a step of its own. A task's `pc` says where it is in the
operation: `push` is `check` (look for space), `spacePoll`/`spaceParked` (the future waits),
`try`, `sigReady`; `pop` is `pop`, `readyPoll`/`readyParked`, `sigSpace`. `push_overwrite` is
`evict` (one step per discarded frame, holding the lock) and `sigReady`. `CancelPush` and
`CancelPop` are the futures that a `select` drops while they wait. A signal is latched and has
one slot, as in embassy-sync: `None`, `Waiting` (a waker is registered) or `Signaled`.
`content` is a history variable with the accepted frames themselves; `Layout` ties the ring to it.

The constants say which tasks use a mailbox, because the code's mailboxes differ: the UART pair
has a blocking, a refusing producer and one consumer; the bus receive mailboxes have
`push_overwrite` and one consumer; the bus transmit mailboxes a blocking producer and one
consumer. `MailboxAssumption` states just that, and that a ring and a queue have room for
something. `try_pop` returning `None` for a frame that cannot be rebuilt is not modelled: every
frame in the ring was written by `insert` from a valid one, which is what `Layout` shows.

### UartBridge

Core 1 is `ReceiveData` (a frame is complete and the flag is loaded), `AdmitUart` (the push),
`ReceiveLocal`, `TransmitPop`, `TransmitWrite`. Core 0 is `run`: `Start`, `Drain`, `Connect`,
`Handshake`, the session's two loops (`SendPop`, `SendWrite`; `ReceiveFrame`, `PushDown`),
`SessionEnds`, `Close`, `Reconnect`; and `main.rs`: `AddressChange` drops `run` at an await,
`RunAgain` clears the flag and runs it again. Mailboxes are FIFOs of `Depth` frames, which is
what `MailboxProofs` justifies; the byte bound is folded into the frame bound. Frames carry the
session in which they were received, so that properties can speak of old ones. `Fresh` is what a
session has uploaded and still holds without the one stale frame that may be in front, so
`UploadExact` compares the rest with what the session admitted.

### AutoAddress

Each arm of `tick`, together with what `auto_address_task` does for the returned action, is one
operator (`LinkLost`, `StartDhcp`, `DhcpLeased`, `DhcpTimeout`, `Choose`, `ProbeConflict`,
`Probe`, `ProbeSent`, `ProbeUnsent`, `Claim`, `GiveUp`, `Announce`, `EndDhcpProbe`, `DhcpProbe`,
`FallbackWaits`, `Waits`); `OfferTaken` is `dhcp_offered`. `Tick` is one poll, `Service` is
`ArpGuard::service`, `InspectArp` and `InspectOffer` are a received frame seen by `inspect`.
Deadlines are the time left. One `Elapse` is a unit of time far longer than the 20 ms between
polls, so the task polls at least once per unit (`ticked`); and because `request` wakes the
network runner, a request that the driver can send is sent before the next poll
(`~Serviceable` in `Tick` and `Elapse`). A driver that cannot transmit (`txReady`) is the other
case. The data of a phase that ends is gone, as in the Rust enum. A transaction number stands for
a DISCOVER; two numbers suffice when an offer does not stay on the wire for two probe intervals
(at least 30 s). An attempt's number stands for its candidate address: consecutive candidates
differ, which is all the policy relies on. The jitter derived from the MAC address is left out.
`wire`, `seen`, `burst`, `calm` and `online` are histories: the probes that left the driver, the
conflict it saw, the candidates tried in a row, the time spent waiting for the next one, and the time
since the claim as far as the probe interval.

### I2cTask

One bus transaction is one step, because `i2c_poll_task` handles a write, or stages and gives out
a slot, without an await in between. `HandleSlot` is `handle_write_slot` with `push_slot`
(`Assembled`) and `process_complete_packet` (`ProcessComplete`); `HandleShort` a write that does
not decode, `Recover` an error of the controller. `GiveSlot` is `stage_response_packet` and
`next_slot_bytes`: it moves on even if the slot is lost (`ReadLost`). Version 2 is `SelectV2`,
`WriteV2`, and a read in two parts, because the master decides after the header whether it reads
the body: `PeekV2`, then `ReadBody` or `AbortBody`. The master of the slots is
`host/i2c_backend.rs` (`BeginRequest`, `WriteSlot`, `TakeSlot`), which may give up
(`AbandonRequest`) or be slow (`GapTooLong`, the 50 ms limit). A request carries the class that
parsing gives it and not its bytes; a payload is as many parts as it has slots, so that a packet
made of two others, with a gap, or with a part twice is visible. The session is `SessionTake` and
`SessionReply`. Of what the master took for whole responses, `received` is the set and `frames` the
sequence of those that came from the network; `delivered` is what the network side sent.

`disturbed` records the cases in which the code gives no promise about a staged response: a
version 1 slot is lost on the way, the master changes the protocol, or it completes a command or
a broken transfer. Outside them `RepliesExact` says that nothing from the network is lost,
doubled or reordered, through aborted version 2 reads and interleaved writes.

### SpiTask

SPI is full duplex: the response staged before is clocked out while the request comes in, and
only afterwards is the request looked at. `Transaction(q, skew, units)` is that whole round, of any
length the master chooses: `Finalize` and `FinalizeComplete` are `finalize_transaction` with its
cases (nothing, partial, command, data, no request), `AfterTransfer` and `StillPending` are
`should_preserve_staged_response` and the loop's handling of `pending_pull_response`, `Pull` is
`pull_queued_response`. A request is a header, the payload it announces and what is clocked out
behind it (`rest`), counted in units of four bytes; a unit is a class of bytes, chosen so that
printable, line end, zero, UTF-8 and other bytes stay apart. `Scanned` is what
`extract_ascii_command` searches: the header, of which only the length's low byte can be a slash
(`length`; the high byte is zero then, since a frame has at most 256 bytes of payload), and the
first `ScanUnits` units behind it. `Strict` is `is_strict_forward_frame`.

`normalize_request_frame` finds a magic behind stray bytes and rebuilds a command frame that lost
its magic from its doubled length. The first is `skew`, units of zeros before the frame, the second
the magic "doubled"; frames with a "swapped" magic, which the parser knows and
`is_strict_forward_frame` does not, can be commands but are never queued. A frame that is no request ("other") is one with another magic
or a length beyond the maximum, whose first eight bytes are not all zero.

In the code `finalize_transaction` answers every transaction, so a preserved response decides only
whether the pulled one is kept. `sent` is every frame for the network (`ForNetwork`) that the master
clocked out whole, `forwarded` every one that was queued, and `cut` the requests that were queued
although they came cut.

### Discovery

One loop of `discovery_task` up to its `select` is `ClientLoop` or `ServerLoop`, a received
message is `ClientReceive` or `ServerReceive`; `seen` is what the loop has read of `LINK_ACTIVE`,
which the code uses again after the `select`. `Ask` is the block that sends a query, `Publish`
the block that closes the window. `main.rs` restarts the bridge (`AppRuns`, `AddressChange`), the
addressing policy clears the peer when it gives an address up (`ConfigLost`; a lost DHCP lease
does not clear it), and `Dial`, `DialEnds` and `SessionEnds` are the bridge. Deadlines are the
time left; one `Elapse` is half a second, in which every board loops. The offers carry the age of
the query they answered, a history value. Offers to a number that is used again are dropped,
because the real number is a time stamp. A lost message is one that is not read in time. Cable
loss with the configuration kept is left out: `discovery_task` does not look at the link.

### BusSession

A board's session is one task, so `pc` says at which await it stands: `delay`, `await` (connect
or accept), `reply` (an SPI request answered before there is a socket), `greet` and `greeting`
(`exchange_link_handshake`), `loop`, `select`, `paused` (waiting for room), `write`
(`write_bridge_frame`), `push` (a blocking push), `close`. `PopFirst` is the order of the
session's `select`: I2C takes requests first, SPI reads first, and the first future that is ready
wins. `partial` is what `FrameReader` and `net_buf` keep when the `select` drops the read. Both
transmit paths of a connection are one bounded sequence of chunks, because a sender's and a
receiver's buffer differ only in what a reset may lose, and `Reset` may lose any end of it. The
room of a mailbox is counted in frames: `has_space_for` asks for the largest frame, and a smaller
answer that would still fit is not told apart. Time-outs may happen at any time. Whether a second
`connect` on the socket of a dropped one can succeed is the TCP library's affair; `DialFails`
covers either answer.

`FrameLink` knows no chunks, buffers, handshake bytes or mailboxes: an end is connected (`up`) and knows
that it is in a session (`joined`), has begun so many frames, waits for the frame with a certain number,
and a set of frames is on the way to it. When an end has left, any number of the newest frames on the way
to the other may be lost; a new connection begins with none. `Implements` maps a board's socket and flag to
`up` and `joined`, and takes a frame to be on the way to a board while its last chunk is on the board's
line (`Way`), from the step in which the peer begins to write it: the chunks that the reader holds, that
are under way and that are not written yet are one sequence (`Line`). A board that is about to close counts
as having left already.

### ConfigStore

A record has three parts, because the properties tell apart magic and version, the settings and
the checksum; an erase or a write that power interrupts leaves each part as it was, as it was to
become, or garbled (`Interrupted`), and the checksum is taken to distinguish all settings.
`BootConfig` is the choice in `main.rs`, `Parse` and `Apply` are `parse_command` and
`apply_command` on words instead of characters, and `EnterSet`, `EnterReset`, `EnterStart`,
`EnterQuery` are the arms of the shell's `match`. A `set` goes through two steps of flash,
`Erase` and `Write`. `Update` is firmware with other compiled defaults that finds the record of
the firmware before. The shell window is one deadline that passes at any time; `read_line_with_timeout`
looks at it only in a pause (`Pause`) and `configuration_shell` only between lines (`NextLine`).
`legal` is the history that `BootsWhole` compares with: what was stored last, what is being stored,
and nothing.

### FrameReader

Bytes are small numbers, so that magic, length and payload overlap as on the wire. `HeaderByte`
is one iteration of the header loop with its two comparisons, `PayloadBytes` one read of any length,
`TooLong`, `ReadFails` and `EndOfStream` the errors; `Drop` is the future that a `select` drops. The
caller of the UART calls again after an error, the one of TCP ends its session (`failed`). `Scan`
is the reference: what a parser that has all bytes at once finds. `Resyncs` says which frames the
UART may lose: those that start within a payload buffer's length (`Capacity`) of the stray bytes, and
the one a read error falls in; every later frame is returned. It speaks of frames without a magic in
their payloads (`Clear`), since a reader that starts in the middle cannot tell such bytes from a frame, and
of magics like the UART's (`MagicsApart`): `A5 5A` and `A6 5B` (`bridge/uart.rs`) do not overlap, and a
magic taken for a length does not fit the buffer of 4096 bytes. TLC evaluates both for the run's values
(`MCFramesClear`).

### UsbBridge

`select` is `ReadPacket` or `ReadSocket`, and USB is looked at first. `handle_usb_input` takes one
byte per step, `Take`, and has six cases (`CommandEnds`, `CommandSkips`, `CommandGrows`, `NoCommand`,
`CommandBegins`, `Forward`); the next byte waits until the write (`WriteSocket`) or the answer
(`WriteAnswer`) of the one before is done. Bytes are classes. A session ends at any await and its
packet, its write and the recogniser go with it; what waits in the endpoint is read by the next
session. `Meaning` is the reference: what a whole text means, line by line.

### Led and LocalSide

`LED_COMMAND` is one cell with the code of `auto` as its empty value. `Heartbeat` is one round of
`heartbeat_task` up to its timer; its activity pulse is left out because nothing raises it. The test
mode is `TestBegins`, `TestCommand`, `TestBlink` with `Blinks` for its toggles, and `TestEnds`,
which may drop a blink. The four local parts share no state: the shell has ended before a bridge
runs and only one bridge runs. `LocalSide` therefore lets each behaviour run one of them, which
checks them together without a product of their states.

## Runs

| Run | Instance | Shows |
|---|---|---|
| `mailbox_uart` | ring of 4 bytes, 2 frames, frames of 0 to 5 bytes, one task of each kind | `Layout`, no lost wake-up on either side, refinement of the FIFO, a blocked `push` returns once its rival rests |
| `mailbox_bus_rx` | same ring, `push_overwrite` and a consumer | eviction finds room, `pop` returns |
| `uart_bridge` | mailboxes of 2, 2 sessions, 3 uploads, 2 downlinks per session, 1 local reply | exact and ordered streams, at most one stale frame, progress of each direction without the other |
| `uart_stale` (violation) | the same without downlinks | a frame of the previous session is sent in the next one |
| `auto_address` | unit-scaled deadlines, pause after 2 candidates, 3 candidates, 1 doubling | probed claims, defended addresses, current offers, rate limit, healthy sessions kept; an address is always found, an idle fallback is given up |
| `i2c_task` | both versions, packets of 1 and 2 slots, 2 requests of every class, 3 replies, 2 faults, mailboxes of 1 | requests and responses whole, replies exactly once, a clean transfer is forwarded, polling drains the replies |
| `spi_task` | transactions of 0 to 4 units, requests of 1 to 4, one unit of skew, a scan of 2 units, replies of 2 and 4, 2 requests, 3 replies, mailboxes of 1 | pulled responses survive until read in full, exactly the whole strict frames without a command are queued, in order, and only frames of 2 units or without magic with bytes that never came |
| `bus_session` | both I2C, both SPI, or one of each; packets of 1 and 2 chunks, 2 chunks on the way, 2 requests per SPI board of two and 1 per board elsewhere, mailboxes of 1 and 2, 2 connections | frames whole and in order, refinement of the link (each frame handed over once and in its turn), room for what is read, SPI boards never wait for each other, early requests do not keep a board from connecting |
| `discovery` | two networks, a client, a server board, a ground station, one lost address, messages read late by the client | a known peer answered a recent query, an offer is used before the next query |
| `picos_meet` (violation) | one network, a client and a server board, every message read at once | the two boards never discover each other |
| `local_side` | two firmware builds, two boots, two changes, seven lines (one of nine words); all noises of up to 2 bytes and false headers before 0 to 3 frames, one read error; all texts of 3 byte classes and four longer ones, packets of 3, room for 1 byte, one end of session; four LED commands | a boot finds a whole record, what runs is what the next boot runs, the shell ends; the reader is exact and resynchronises; USB input is forwarded or answered exactly and never stuck; the LED obeys |
| `led_auto` (violation) | three LED commands | after `/led auto` the heartbeat does not come back |

Why the bounds are enough. A ring of four bytes with frames of one to four bytes reaches every
relation of head, tail and ring end (wrap inside a frame, exactly at its end, a full ring), a
length queue of two is full before and after the bytes are, and the rejected lengths 0 and 5 are
offered. No byte occurs in two frames, so a mixed frame is visible. Two frames per UART mailbox
and three uploads fill `TO_NETWORK` and overflow it; two sessions are one change of session, and
what a session inherits depends only on the one before. In `AutoAddress` the scaled deadlines
keep the order of the real ones (window < probe interval < idle time), a pause after two
candidates instead of ten is reached through conflicts, time-outs and claims, and one doubling
shows the back-off. `MaxEpoch`, `MaxUp`, `MaxDown` and `MaxLocal` bound the UART bridge and stand
in the guards of the actions that count. In `I2cTask` two slots per packet are a first, a last and
a missing one; two transfers and two faults are an abandoned or spoilt transfer and the one that
meets its remains; three replies into a mailbox of one are one staged, one queued and one waiting.
`ResponsesWhole` needs `lost <= 1`: after two lost slots the host can join two responses, because
both carry the transfer id of the last request. In `SpiTask` a reply of four units is longer than
the pull of three, so it can be read in part and pulled again; `ScanFloor` is the eight bytes that
`finish_transaction` always takes as received. The 96 bytes of the scan are the header and 2 units, so
a data frame of 3 units has a slash behind the scan; among the requests are a slash as length byte, as the last unit
scanned, as a line of its own and in a command frame that is no text. Two requests into a mailbox of one overflow it, and three
replies are one kept, one queued and one waiting. In `Discovery` the window, the query interval and
the life of a peer are 1, 2 and 5 half seconds (400, 1000 and 2500 ms); one lost address (`MaxChanges`) is one
window that spans two networks; `Late` says who may read a message in a later unit. The second in which a server limits its
answers (`AnswerWindow`) is one unit: the client board never depends on it.
In `BusSession` the way holds one SPI frame, so that a second one waits and an I2C frame of three
chunks is written in parts; two requests of each of two SPI boards are
one frame on the way and one that no longer fits, which is what `Flows` is about, and elsewhere one request of each
board, in two connections, is a frame that a reset, a dropped read or an own write can interrupt; an I2C frame of two chunks is too long for an SPI board's `net_buf` and ends its session.

In `ConfigStore` two boots are one that stores and one that finds; a power loss may hit every step
of the first, and of the second after an update. `MaxLines` counts changes only. In `FrameReader`
a buffer of 5 bytes admits every false length that swallows the frame behind it, a part of it, or two;
the first frame of three is the one that noise may cost and the others must be found. In `UsbBridge`
a buffer of 2 is full after a slash and a letter, and packets of 1 to 3 bytes cut the texts at every
byte. `MaxFails`, `MaxEnds`, `MaxNet`, `MaxLed`, `MaxBoots` and `MaxLines` stand in the guards of
the actions that count.

The type invariants of `Mailbox`, `UartBridge`, `AutoAddress`, `I2cTask` and `SpiTask` are not among
the properties of the runs. Those of `Mailbox`, `UartBridge` and `SpiTask` are proved; the other two hold
in the instances above.

`mailbox_uart` and the first two UART properties are about steps of both cores; the temporal ones
separate the directions: `UploadFlows` assumes only that the peer takes bytes, `DownFlows` only
that the UART does, so a design in which one loop serves both directions fails them.

Fairness. The executors poll every woken task and an operation runs on to its next await, so the
internal steps of an operation are weakly fair; nobody is obliged to start a `push`. In `Mailbox`
the consumer is strongly fair because `push_overwrite` holds the lock for several model steps
that the code runs without interruption, which would otherwise disable the consumer again and
again. In `UartBridge` only the pops and the push are fair; how fast TCP or the UART takes bytes
is a hypothesis of each property. In `AutoAddress` the poll, time and the driver are weakly fair.
In `I2cTask` the master keeps reading (`ReadWell`), which is what `RepliesDrain` is conditional on.
In `Discovery` every loop, the bridge's look at the address, reading and time are weakly fair;
`GroundAsks`, sessions and address changes are not. In `BusSession` one weak fairness per board says
that it does not stand still while its session can move, a dead connection can be noticed or its master
can read; connecting and the bus's requests are not fair. In `ConfigStore` time passes, the flash
operations (which block the processor) end, and the line has pauses of 100 ms: without one the code
does not look at its deadline. In `UsbBridge` the session is polled, the peer takes bytes and the host
reads; typing and sending are free. In `Led` the heartbeat comes back from its timers.

### Findings

`uart_stale`: `uart_receive` loads `LINK_ACTIVE` (`bridge/uart.rs:44`) and pushes afterwards.
Between the two, core 0 can end the session, and `run` can clear the flag and drain `TO_NETWORK`
(line 100); the frame lands behind the drain and is the first one of the next session. The
comment on line 99 promises that disconnected telemetry does not delay fresh data.
`AtMostOneStale` shows the extent: one frame, at the head, never more. For a client the
reconnect delay makes the window practically unreachable after an ordinary end; an address
change has no such delay.

`led_auto`: `/led auto` stores the code 0 and is answered with "ok led auto"
(`bridge/commands.rs:104`), but `take_led_command` (line 19) takes 0 for an empty cell, so the arm
of `heartbeat_task` that sets `auto_mode` (`main.rs:214`) is never reached. Once an LED command was given,
the heartbeat is off until the board restarts.

`picos_meet`: `ETHERNET.md:24` says that two Pico-Fi devices use the same policy, with opposite
TCP roles and discovery on. A server board answers only queries of ground stations
(`lan_discovery.rs:113`) and `compatible_offer` takes only offers of the other party, so the
client board asks for ever. With both conditions dropped the property holds.

What `discovery` does not promise: a peer belongs to the network the client is on. An offer in
hand survives `clear_peer` and is published when the window closes, also after an address change;
`PeerFresh` bounds how long such a peer can be dialled.

What `bus_session` does not promise: progress between I2C boards. The I2C loop takes the next
request before it reads, and it does not read while it writes. When both masters send more than
the connection holds, both boards stand in `write` and neither reads; the masters' reading does not
help, only an address change or a time-out of TCP does. The mutant of `Flows` is this order put
into the SPI loop, and its counterexample is that wait. SPI boards are exposed to it as well once
both have paused for a full mailbox, which is why `Flows` speaks of boards that need not pause. The
UART bridge has two loops for this reason.

What else was met while modelling, without a run of its own:

- `I2C_PROTOCOL.md:142` says that an active multi-slot response finishes before another packet is
  staged. `process_complete_packet` stages a local command's answer, and `handle_write_slot` an error,
  over whatever is being read (`bridge/i2c_task.rs:475`, `:453`). The bundled host reads an answer to
  its end before it writes. `RepliesExact` speaks of the undisturbed replies.
- `SPI_PROTOCOL.md:91` accepts `0xA5` with arbitrary payload. `finalize_transaction` looks for a
  command in every data frame (`bridge/spi_hw_task.rs:403`), anywhere in its first 96 bytes and from
  the first byte of the header on (`:472`), and answers such a frame instead of forwarding it. In
  particular no payload of 47 bytes is ever forwarded as data, whatever it holds: its length is
  `0x2f 0x00`, a slash and a line end, and the answer is that of the unknown command "/". A frame
  followed by non-zero bytes in the same transaction, or with its magic swapped, is dropped without
  a word (`:412`). `ForwardedWhole` speaks of all the others, and of command frames that begin with
  no slash; of those, one whose magic was lost can be forwarded with zeros for bytes that never came
  (`bridge/spi_pio.rs:148`).
- `SPI_PROTOCOL.md:108-112` says that both SPI queues drop old frames when a new one would exceed
  the byte cap. The ingress queue does (`push_overwrite`, `Forward`); the response queue does not: a session
  waits until there is room before it reads the network (`bridge/spi.rs:181`), which is the guard of
  `SessionReply`. So `PulledExact` says nothing of a full response queue beyond that nothing is lost
  while the session waits.
- `UART_PROTOCOL.md:112-114` and `host/README.md:43` say that UART egress drops whole queued frames
  when its queue is full, and `I2C_PROTOCOL.md:161-163` that it rejects new ones and the session
  fails. `forward_tcp` waits in `push` (`bridge/uart_mailbox.rs:98`), so that TCP holds the peer
  back, as `ETHERNET.md:58-59` says and as the comment at `bridge/uart_mailbox.rs:1` requires; only
  a local reply is dropped at a full queue (`bridge/uart.rs:41`). `DownInOrder` follows the code: a
  full `TO_UART` costs no frame of the peer.
- Builds whose compiled upstream is I2C or SPI never load the record (`main.rs:264`) although their
  shell saves one: a `set` lasts until the next boot. `RunsWhatBootsNext` excepts them.
- A shell line of more than eight words does not fit the parser's list: `collect` panics
  (`config.rs:134`), which halts the board, although `shell.rs` calls its window the maximum time the
  shell may delay start-up. `BoardStarts` excepts it.
- In test mode `led blink` stores "off" also when the LED was lit before and is again
  (`bridge/test.rs:118`), and a session begins with "off" whatever the pin: `LedObeys` speaks of a
  session that has set the LED and not blinked since.
- A second LED command within one beat replaces the first in the cell, and carriage returns inside
  a USB line that turns out to be data are not given back (`bridge/usb.rs:91`); `UsbExact`'s reference
  says so.
- A USB host that never stops sending keeps the downlink waiting, since `select` prefers it
  (`bridge/usb.rs:170`).
- The I2C session reads network frames of up to 4096 bytes (`bridge/i2c.rs:143`), but neither version
  carries the longest ones: `Mailbox::stage` refuses more than 4092 after the frame was popped
  (`bridge/i2c_task.rs:376`, `protocol/i2c_packet.rs:5`), and version 1 cuts them
  (`build_frame_into`, `protocol/i2c.rs:71`). Hence the hypotheses `RepliesFit` and `RequestsFit` of
  two theorems below, which the sizes of the run satisfy.

## Proofs

Every theorem holds for all values of the constants that satisfy the module's assumption
(`MailboxAssumption`, `UartAssumption`, ...): that depths, sizes and durations are numbers, positive
where the code has a positive constant, and ordered as the code's are (the probe window is shorter
than the probe interval, that shorter than the idle time, the settle time shorter than the query gap), and that `None` is none of the values it stands
beside. Each safety theorem is
proved in the same way: an inductive invariant that implies the property, one lemma per action or
per group of actions that change the same thing, and a last step of temporal logic. The bounds of
the runs are constants like the others, so the theorems speak of any number of sessions, frames,
transfers, faults and connections.

### Mailbox

`MailboxProofs` proves, for every queue depth, ring size, set of frames and assignment of tasks:

- `MailboxTypes`, `MailboxLayout`, `PopIsWoken`, `PushIsWoken`, `OverwriteFindsRoom`: the
  types and the four invariants of the runs;
- `MailboxIsFifo`: the ring with its signals implements `BoundedFifo`.

The inductive invariant is
`IInv == RingOK /\ ControlOK /\ OffersOK /\ NoLostReady /\ NoLostSpace`. `TypeOK` and `Layout`
alone are not inductive: that `head` and `used` stay in range after a discard needs the lengths
to add up to `used`, which `RingOK` states through the position of each frame; that an insert
writes no byte of a queued frame needs that the frame on offer fits, and that it is admissible
needs `OffersOK`. `InsertKeepsRing` and `DiscardKeepsRing` carry the ring arithmetic (with
`ModIsWrap` and `WrapShift` for the wrap), `ReadyKept` and `SpaceKept` the two wake-up arguments:
whoever inserted since the consumer saw an empty queue still has to signal, or has signalled and
nobody consumed the signal; symmetrically for space, where it is essential that no mailbox mixes
`push_overwrite`, which makes room without signalling it, with a blocking `push`. `FrontIsOldest`
shows that what `try_pop` reads is the oldest accepted frame, and `FifoStep` maps every step to a
step of the FIFO or a stutter.

### UartBridge

`UartTypes`, `SessionUploads` (`UploadExact`), `OneStale` (`AtMostOneStale`) and `DownlinkInOrder`
(`DownInOrder`). The two directions have an invariant each. That of the uploads, `UpInv`, must say
what happens between two sessions: core 1 can be about to push at any moment, so what makes a
session's stream exact is `DrainedOK`, that from the drain to the handshake at most one frame is
queued or held, together with `FlagOK`, that nobody loads a true flag there. `SessionOK` then says
that as long as the held frame is a stale one, nothing of the session was admitted yet, so it can
only come first. For the downlink `OrderOK` orders the four places a frame passes from the session
to the UART, and `ChainOK` says that a frame is nowhere without the one before it: `DownInOrder`
speaks of what was written only, and the frame that follows may be in any of the four places.

### AutoAddress

`AlwaysDefended` (`Defended`), `OffersCurrent` (`OfferCurrent`), `CandidatesLimited` (`RateLimited`),
and the action properties `ClaimsProbed` (`ClaimProbed`) and `HealthyAddressKept` (`HealthyKept`), from
one invariant, `AddressInv`. `WatchOK` ties the policy to the driver: from the choice of a candidate
to the end of its use the driver watches that address, and the policy's conflict flag says what the
driver has seen. `ProbesOK` counts probes on the wire against those the policy has counted, one
behind while a request is pending. `XidOK` says that a transaction is open only while its window is.
`BurstOK` is the argument of the rate limit: since the attempt counter's last multiple of
`PauseEvery`, or with the long pause due. It needs the remainder of the counter after a step, also
where the counter wraps (`NextRemainder`, `NextAttempt`): the wrap ends in 0, a multiple of
`PauseEvery`, so a pause comes early there and never late. `IntervalOK` says that a window opens no
earlier than an interval after the claim.

### I2cTask

- `NoTornRequests` (`RequestsWhole`) and `CleanFramesQueued` (`CleanWritesForwarded`), without further
  hypotheses. In `RequestInv` the packet under assembly is always a prefix of one transfer (`RxOK`): a
  transfer that was abandoned leaves such a prefix, and the next one either starts with slot 0 or
  does not continue it, since its number is newer. `CleanOK` says that a transfer without a fault is
  assembled as far as it was written, whatever was left in the task before. `HandleSlotCases` states what
  a slot can do to the task once and for all.
- `NoTornResponses` (`ResponsesWhole`), for replies that fit a packet (`RepliesFit`). In `ReplyInv` what the
  master has is a prefix of the response being given out, or of one that was replaced (`Foreign`), or,
  after a lost slot, of one that cannot be continued (`Reads`). That an answer's transfer number is an old one
  once another transfer has begun (`Past`) is what keeps two answers apart. `Replaced` and `ReadLostReads`
  are the two hard steps.
- `RepliesOnce` (`RepliesExact`), for replies and requests that fit. `ExactInv` adds that while nothing is
  disturbed the frames read, the one being given out, the one staged and the queued ones are together what
  the network delivered. A request that is too long is answered with an error over whatever is staged, hence
  `RequestsFit`.

### SpiTask

`SpiTypes`, `PullsExact` (`PulledExact`) and `FramesForwarded` (`ForwardedWhole`), for every set of
requests, length of the scan and skew. `FinalizeCases` and `WholeForwarded` are the two halves of the last:
only frames for the network are queued, and every one that came whole is. `SpiInv` adds to the
two properties the types and `StagedOK`: a response of the network is staged only while it is also kept as
`pending_pull_response`, and is the kept one until the master disturbs it. `FinalizeCases` lists what a
transaction of any length does with the request, `TransactionPulls` what it does with the response.

### Discovery

`PeersFresh` (`PeerFresh`). A peer is published when its window closes, which may be long after the offer when
a session or an address change comes between. `PeerInv` says how old an offer in hand is: as old as its
query, as long as no new query is due (`BestOK`); and that the age of a known peer and the time it is still
known add up to less than a query gap and a life (`PeerOK`).

### BusSession

`SessionTypes` (`TypeOK`) and `StreamsExact` (`StreamExact`), from `LinkInv` and `RoomOK`. `Line(b)` is what
board `b` holds of a frame, what is on the way to it and what its peer still has to write. `LineOK` says that
the line is in order and ends with the last frame its peer began. It is not inductive by itself: a line that
is empty says nothing about the numbers of the two boards, which `DueOK` does (the next frame is the one the
peer will write), except before the peer has greeted (`SilentOK`); a read that was dropped must hold the
beginning of just the frame that is due, or the last chunk of it could complete another (`PartialOK`); and a
new connection must find nothing of the one before (`ClosedOK`, `WritingOK`). `OrderedGrows`,
`OrderedDrops`, `OrderedPrefix` and `GotBegins` say what happens to an ordered line when a frame is begun,
when one is complete, when a reset cuts the line, and when a reader takes a chunk; `OtherEnd` what a step of
one board leaves of the other.

`SessionsCarryFrames` (`Implements`): the sessions implement `FrameLink`. This needs, besides `LinkInv`, what
the boards know of each other (`JoinInv`): a board serves its bus with the flag set and greets with it clear,
a board that knows its connection to be reset has a peer that is closed, and nothing is on the way to a
client before the server has answered. `Whole(l)` are the frames whose last chunk is in `l`; `WholeJoins`
takes it through the concatenations of which a line consists, so that moving a chunk along the line changes
nothing (`WholeMagic`, `WholeFrame` for what is put on it). Two lemmas use the order of the line: by
`NumbersGrow` a chunk that ends a frame has a smaller number than all chunks behind it, so that taking the
frame in front takes that frame only (`FrontGone`), and that what a reset cuts off are the newest frames
(`CutLine`). Then each action is a step of the link or a stutter (`PairDials`, `PairGreeted`, `PairTakes`,
`PairReads`, `PairReset`, `PairEnds` and so on), and `PairStep` combines them.

### ConfigStore

`RecordIsWhole` (`BootsWhole`) and `ShellAgreesWithBoot` (`RunsWhatBootsNext`). In `StoreInv`, `FlashOK` says
that no blank or garbled sector passes its checksum, `ChangeOK` which records a change under way may leave
behind, and `AgreeOK` that between two changes the shell's configuration is what the next boot would find.
`CutErase` and `CutWrite` go through what an interrupted erase or write can leave of each part.

### FrameReader

`ReaderReturnsExactly` (`ReaderExact`), for all magics, buffers, streams and cuts, and `ReaderRecovers`
(`Resyncs`), for magics and frames as described above. `Scan` is a recursive function over the positions
of its input, and the reader has only a part of that input at any time. `ReaderInv` therefore speaks of
everything that may still follow (`Ahead`): whatever bytes `t` come after the bytes `b` taken so far, the
frames returned, followed by what the reference finds from the beginning of the frame in hand, are what it
finds in all of `b \o t`. A byte that breaks a header moves that beginning to the next place where a magic may
begin (`AheadResync`), a length that does not fit moves it behind the header (`AheadTooLong`), and a frame that
is complete moves it behind the payload (`AheadFinds`). An error makes the bytes taken so far the whole
input of the reference (`AheadFails`). That the reference is a function at all, and that it looks only at the
bytes from its place on, are induction over data; the library's induction theorems cannot be used (they take
an operator), so `Least` gets the least-number principle from the well-foundedness of `<`, `Induct` induction over a
set of numbers, and `Recursion` and `RecursionUnique` that a recursive function exists and is unique.

For `Resyncs` the input is laid out frame by frame (`LaidOut`): a magic is found only where a frame begins.
`RestFound` follows: from the start of frame `k` the reference finds that frame and all behind it.
`ComesCloser` says that from every earlier place it takes a step forward that does not go past that start; the
hypotheses are what it needs, because a length read from stray bytes and the first bytes of a frame is
either too long or ends within `Capacity` bytes. `Recovers` puts the steps together.

### UsbBridge

`UsbForwardsExactly` (`UsbExact`), for every text and every cut into packets and writes. `UsbInv` says of a session
that what was sent, is being written and was answered is what the bytes seen mean (`Told`), and that the
recogniser's state is a property of the line in hand (`Known`): nothing but line ends so far (`Opening`), a command that may
still become one (`Holding`, with the bytes held back in `buf`), or data (`Passing`). `OpeningMeans`,
`HoldingMeans` and `PassingMeans` evaluate the reference for the three kinds of line, and each of the six cases of a
byte takes a line of one kind to one of the same or another kind, or ends it (`SessionMore`, `SessionEnd`).

### Led

`TestLedKnown` (`TestOnShows`, the safety part of `LedObeys`), from `LedInv`: what the test mode reports is the
pin as long as it is sure of it, because then no blink runs and the heartbeat leaves the pin alone.

### What is only model-checked

Every liveness property, because the prover has no ENABLED: `UploadFlows` and `DownFlows`, the addressing
properties that end in an address (`AddressFound`, `IdleRetries`), `RepliesDrain`, `OfferUsed`, `Flows`,
`BoardStarts`, `UsbFlows`, `PushReturns` and `PopReturns`, and the part of `LedObeys` about where the LED ends
up. Every safety property of every run is stated by a theorem. The type invariants of `AutoAddress` and
`I2cTask` bound histories and are not used by any theorem: what their proofs need of the types is in
`AddressInv`, `RequestInv` and `ReplyInv`.

## Not modelled

Register and PIO access, the W5500 driver and TCP itself (bytes arrive in order or the session ends);
text of the shell and of replies (`render_config`, the banner), statistics counters; the SPI
diagnostics (`bridge/spi_diag.rs`), echo and static test modes, which answer from one buffer without a
queue; in SPI, blanks around a command line and a magic that happens to stand inside the bytes of
another frame; the reset into the boot loader over I2C; `hardware_mac` and
`boot_network_seed`, pure hashes; pin and clock set-up in `main.rs`. Of the host-side programs only
the I2C slots are modelled; the others are ends of the cable, and the models let a master do
anything they could do. Of `BytePacketRing` nothing is: it is compiled for tests only. Errors of the
flash driver are left out: it reports none for an aligned sector.

## Plan

Nothing outside that list is left to model. What is left are further theorems:

1. `UartBridge`: an abstract link for its two directions, as `FrameLink` is for the buses, over `BoundedFifo`
   mailboxes, so that the refinement of `Mailbox` and the bridge's exactness compose.
2. `I2cTask`: `RepliesOnce` without `RepliesFit`, as a statement about what is lost of a reply that does not
   fit, rather than that nothing is.
