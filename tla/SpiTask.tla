------------------------------- MODULE SpiTask -------------------------------
(***************************************************************************)
(* The SPI slave task (bridge/spi_hw_task.rs spi_poll_task) between its bus *)
(* master and the two SPI mailboxes.  SPI is full duplex: while the master *)
(* clocks a request in, the response staged beforehand is clocked out, and *)
(* only then is the request looked at and the next response staged.  One   *)
(* transaction with what the task does after it is one step; there is no   *)
(* await in between.                                                       *)
(*                                                                         *)
(* A request is a header, the payload it announces and whatever the master *)
(* clocks out behind it, counted in units of four bytes; the master decides *)
(* how many units a transaction has, so a request can be cut and a response *)
(* can be read in part.  Bytes stand for a unit by their class, because the *)
(* task looks for commands in every byte of a frame, the header's length   *)
(* included.  Clock edges can also put zero bytes before a frame ("skew")  *)
(* or mangle its magic; normalize_request_frame repairs some of that.      *)
(*                                                                         *)
(* Definitions named ...Fault are variants a mistake in the code could     *)
(* introduce; no specification uses them, they show what each property     *)
(* would notice.                                                           *)
(***************************************************************************)
EXTENDS Naturals, Sequences, SequencesExt

CONSTANTS
  Requests,         (* frames the master sends                             *)
  ReplySizes,       (* sizes of the network's frames, in units             *)
  CommandSize,      (* size of the answer to a local command               *)
  ScanFloor,        (* units finish_transaction takes as received          *)
  ScanUnits,        (* units behind the header that are searched for a     *)
                    (* command                                             *)
  MaxSkew,          (* bound: zero units before a frame                    *)
  MaxUnits,         (* bound: units of a transaction                       *)
  Depth,            (* frames a mailbox holds                              *)
  MaxSends,         (* bound: requests other than polls and pulls          *)
  MaxReplies,       (* bound: frames the network side delivers             *)
  None

(* The slash, the word "pull", other printable text, line ends (CR and    *)
(* LF), zero, and the rest: "ctrl" may stand in a UTF-8 text, "bin" not.   *)
Bytes == {"/", "pull", "text", "eol", "nul", "ctrl", "bin"}

(* The two kinds of request with their magic in order or swapped, a command *)
(* whose magic was lost and its length doubled, frames that are no request, *)
(* and nothing but zeros.                                                  *)
Magics == {"data", "command", "swapped data", "swapped command", "doubled", "other",
           "idle"}

(* length is the low byte of the length, a slash for a payload of 47 bytes. *)
ASSUME SpiAssumption ==
  /\ \A q \in Requests : /\ q.magic \in Magics /\ q.length \in {"/", "bin"}
                         /\ q.payload \in Seq(Bytes) /\ q.rest \in Seq(Bytes)
  /\ ReplySizes \subseteq Nat \ {0, 1}
  /\ CommandSize \in Nat \ {0} /\ ScanFloor \in Nat \ {0}
  /\ ScanUnits \in Nat /\ MaxSkew \in Nat /\ MaxUnits \in Nat
  /\ Depth \in Nat \ {0} /\ MaxSends \in Nat /\ MaxReplies \in Nat
  /\ None \notin [kind : {"data", "command"}, n : Nat, size : Nat]

VARIABLES
  staged,      (* the response of the next transaction                     *)
  pending,     (* pending_pull_response                                    *)
  toNetwork,   (* frames for the session (push_overwrite)                  *)
  toMaster,    (* replies from the session                                 *)
  sends,       (* history: requests other than polls and pulls             *)
  sent,        (* history: frames for the network that the master clocked  *)
               (* out whole                                                *)
  forwarded,   (* history: frames that came whole and were queued          *)
  cut,         (* history: requests that were queued and did not come whole *)
  delivered,   (* history: frames the network side delivered               *)
  received,    (* history: data frames the master clocked in whole         *)
  disturbed    (* history: the master read a pulled response in part and   *)
               (* then sent something that was no pull                     *)

vars == <<staged, pending, toNetwork, toMaster, sends, sent, forwarded, cut, delivered,
          received, disturbed>>

Response(kind, n, size) == [kind |-> kind, n |-> n, size |-> size]
Empty == Response("data", 0, 1)
LocalReply == Response("command", 0, CommandSize)

Size(q) == 1 + Len(q.payload)

(* What has come of a part that begins after so many units: the rest of    *)
(* the buffer is zero.                                                     *)
Arrived(part, before, came) ==
  [i \in DOMAIN part |-> IF before + i <= came THEN part[i] ELSE "nul"]

(* The frame in the buffer.  A doubled one is rebuilt from as many bytes as *)
(* it announces (recover_missing_magic_command_frame).                     *)
Seen(q, came) ==
  [magic |-> IF q.magic = "doubled" THEN "command" ELSE q.magic,
   length |-> q.length,
   payload |-> Arrived(q.payload, 1, came),
   rest |-> IF q.magic = "doubled" THEN <<>> ELSE Arrived(q.rest, Size(q), came)]

-----------------------------------------------------------------------------
(* Commands inside a frame.                                                *)

(* The units from i to the next line end.                                  *)
Line(t, i) ==
  LET ends == {j \in i .. Len(t) : t[j] \in {"nul", "eol"}}
  IN  IF ends = {} THEN SubSeq(t, i, Len(t))
      ELSE SubSeq(t, i, (CHOOSE j \in ends : \A k \in ends : j <= k) - 1)

Printable(t) == \A i \in DOMAIN t : t[i] \in {"/", "pull", "text"}

Slashes(t) == {i \in DOMAIN t : t[i] = "/" /\ Printable(Line(t, i))}

(* The frame's first 96 bytes.  Of the header only the low byte of the     *)
(* length can be a slash, and the zero of its high byte follows.           *)
Scanned(x) ==
  LET body == x.payload \o x.rest
  IN  <<x.length, "nul">>
        \o (IF Len(body) <= ScanUnits THEN body ELSE SubSeq(body, 1, ScanUnits))

(* extract_ascii_command: the first slash from which on all is printable,  *)
(* wherever it stands.                                                     *)
HasCommand(x) == Slashes(Scanned(x)) # {}
Command(x) ==
  LET found == Slashes(Scanned(x))
  IN  Line(Scanned(x), CHOOSE i \in found : \A j \in found : i <= j)

(* trim_ascii_line and starts_with('/'): a text, a slash after line ends   *)
(* (blanks around a line are left out).                                    *)
StartsWithSlash(p) ==
  /\ \A i \in DOMAIN p : p[i] # "bin"
  /\ \E i \in DOMAIN p : p[i] = "/" /\ \A j \in 1 .. i - 1 : p[j] = "eol"

(* The line "/pull", between line ends.                                    *)
IsPull(p) ==
  \E i \in DOMAIN p :
    /\ i + 1 \in DOMAIN p /\ p[i] = "/" /\ p[i + 1] = "pull"
    /\ \A j \in DOMAIN p \ {i, i + 1} : p[j] = "eol"

(* is_strict_forward_frame: the magic in order, and nothing behind it.     *)
Strict(x) ==
  /\ x.magic \in {"data", "command"}
  /\ \A i \in DOMAIN x.rest : x.rest[i] = "nul"

(* The frames that are for the network.                                    *)
ForNetwork(x) ==
  /\ Strict(x) /\ x.payload # <<>>
  /\ IF x.magic = "data" THEN ~HasCommand(x) ELSE ~StartsWithSlash(x.payload)

-----------------------------------------------------------------------------
(* finish_transaction: what kind of request came in.                       *)

Nothing(q, came) == q.magic = "idle" \/ came = 0

(* One byte short of a frame is a whole frame.                             *)
CompleteFault(q, came) ==
  q.magic = "doubled" \/ (IF came < ScanFloor THEN ScanFloor ELSE came) + 1 >= Size(q)

(* Eight bytes count as received even if there were fewer, and of a doubled *)
(* frame all that it announces.                                            *)
Complete(q, came) ==
  q.magic = "doubled" \/ (IF came < ScanFloor THEN ScanFloor ELSE came) >= Size(q)

(* The staged response went out in full.                                   *)
Written(units) == units >= staged.size

(* A response of which part was read stays staged (should_preserve_...);   *)
(* finish_transaction and spi_poll_task leave the empty one otherwise.     *)
AfterTransfer(units) ==
  IF staged # Empty /\ ~Written(units) THEN staged ELSE Empty

(* The pulled response is forgotten after every transaction.               *)
StillPendingFault(units) == None

(* The pulled response is forgotten once the empty one is staged.          *)
StillPending(units) == IF AfterTransfer(units) = Empty THEN None ELSE pending

-----------------------------------------------------------------------------
(* finalize_transaction.                                                   *)

Answer(r, units) ==
  /\ staged' = r
  /\ pending' = StillPending(units)
  /\ UNCHANGED <<toNetwork, toMaster, forwarded, cut>>

(* pull_queued_response: the pulled response again, or the next one.       *)
Pull(units) ==
  LET kept == StillPending(units)
  IN  /\ UNCHANGED <<toNetwork, forwarded, cut>>
      /\ \/ /\ kept # None
            /\ pending' = kept /\ staged' = kept
            /\ UNCHANGED toMaster
         \/ /\ kept = None /\ toMaster # <<>>
            /\ pending' = Head(toMaster) /\ staged' = Head(toMaster)
            /\ toMaster' = Tail(toMaster)
         \/ /\ kept = None /\ toMaster = <<>>
            /\ pending' = None /\ staged' = Empty
            /\ UNCHANGED toMaster

(* from_raw_frame: what is queued of a frame.                              *)
Content(x) == [magic |-> x.magic, payload |-> x.payload]

(* A frame for the network: queued, the oldest making room.                *)
Forward(q, came, units) ==
  LET c == Content(Seen(q, came))
      whole == came >= Size(q)
  IN  /\ toNetwork' = Append(IF Len(toNetwork) < Depth THEN toNetwork ELSE Tail(toNetwork), c)
      /\ forwarded' = IF whole THEN Append(forwarded, c) ELSE forwarded
      /\ cut' = IF whole THEN cut ELSE cut \cup {q}
      /\ staged' = Empty
      /\ pending' = StillPending(units)
      /\ UNCHANGED toMaster

(* A frame that holds no command: anything but a strict one is dropped.    *)
ForwardStrict(q, came, units) ==
  LET x == Seen(q, came)
  IN  IF x.payload # <<>> /\ Strict(x) THEN Forward(q, came, units)
      ELSE Answer(Empty, units)

CommandOrPull(x, units) ==
  IF IsPull(Command(x)) THEN Pull(units) ELSE Answer(LocalReply, units)

FinalizeComplete(q, came, units) ==
  LET x == Seen(q, came)
  IN  \/ /\ x.magic \in {"command", "swapped command"}
         /\ IF IsPull(x.payload) THEN Pull(units)
            ELSE IF StartsWithSlash(x.payload) THEN Answer(LocalReply, units)
            ELSE ForwardStrict(q, came, units)
      \/ /\ x.magic \in {"data", "swapped data"}
         /\ IF HasCommand(x) THEN CommandOrPull(x, units)
            ELSE ForwardStrict(q, came, units)
      \/ /\ x.magic = "other"
         /\ Answer(LocalReply, units)

Finalize(q, came, units) ==
  LET x == Seen(q, came)
  IN  \/ Nothing(q, came) /\ Answer(Empty, units)
      \/ /\ ~Nothing(q, came) /\ ~Complete(q, came)
         /\ IF HasCommand(x) THEN CommandOrPull(x, units) ELSE Answer(LocalReply, units)
      \/ ~Nothing(q, came) /\ Complete(q, came) /\ FinalizeComplete(q, came, units)

(* One transaction of so many units, the first of which may be skew: only  *)
(* a magic in order is found behind it (normalize_request_frame).          *)
Transaction(q, skew, units) ==
  LET came == IF units > skew THEN units - skew ELSE 0
      whole == came >= Size(q)
      x == Seen(q, came)
      pull == q.magic = "command" /\ IsPull(q.payload)
      readInPart == pending # None /\ staged = pending /\ ~Written(units)
  IN  /\ skew > 0 => q.magic \in {"data", "command"}
      /\ sends' = IF pull \/ q.magic = "idle" THEN sends ELSE sends + 1
      /\ sends' <= MaxSends
      /\ Finalize(q, came, units)
      /\ sent' = IF whole /\ ForNetwork(x) THEN Append(sent, Content(x)) ELSE sent
      /\ received' = IF Written(units) /\ staged.n > 0 THEN Append(received, staged)
                     ELSE received
      /\ disturbed' = (disturbed \/ (readInPart /\ ~(pull /\ whole)))
      /\ UNCHANGED delivered

-----------------------------------------------------------------------------
(* The bridge session at the other end of the mailboxes.                   *)

SessionTake ==
  /\ toNetwork # <<>>
  /\ toNetwork' = Tail(toNetwork)
  /\ UNCHANGED <<staged, pending, toMaster, sends, sent, forwarded, cut, delivered,
                 received, disturbed>>

SessionReply(size) ==
  /\ Len(delivered) < MaxReplies
  /\ Len(toMaster) < Depth
  /\ delivered' = Append(delivered, Response("data", Len(delivered) + 1, size))
  /\ toMaster' = Append(toMaster, Last(delivered'))
  /\ UNCHANGED <<staged, pending, toNetwork, sends, sent, forwarded, cut, received,
                 disturbed>>

Init ==
  /\ staged = Empty /\ pending = None
  /\ toNetwork = <<>> /\ toMaster = <<>>
  /\ sends = 0 /\ sent = <<>> /\ forwarded = <<>> /\ cut = {}
  /\ delivered = <<>> /\ received = <<>>
  /\ disturbed = FALSE

Next ==
  \/ \E q \in Requests, skew \in 0 .. MaxSkew, units \in 0 .. MaxUnits :
       Transaction(q, skew, units)
  \/ SessionTake
  \/ \E size \in ReplySizes : SessionReply(size)

Spec == Init /\ [][Next]_vars

-----------------------------------------------------------------------------
(* Properties.                                                             *)

IsResponse(r) == r.kind \in {"data", "command"} /\ r.n \in 0 .. MaxReplies

(* TypeOK: the state keeps its types and no mailbox exceeds its depth.     *)
TypeOK ==
  /\ IsResponse(staged)
  /\ pending = None \/ (IsResponse(pending) /\ pending.n > 0)
  /\ Len(toNetwork) <= Depth /\ Len(toMaster) <= Depth
  /\ disturbed \in BOOLEAN

(* PulledExact: every frame from the network reaches the master once and   *)
(* in order, or is pulled and still kept for it, or waits; a response read *)
(* in part is given again to the next pull.  Excepted are masters that     *)
(* read a pulled response in part and then send anything but a pull.       *)
PulledExact ==
  ~disturbed => received \o (IF pending = None THEN <<>> ELSE <<pending>>) \o toMaster
                = delivered

(* ForwardedWhole: the frames for the network that are clocked in whole are *)
(* queued in order with the bytes the master sent, and nothing else that   *)
(* came whole is.  They are the strict data frames without a command in    *)
(* their first 96 bytes, length byte included, and the strict command      *)
(* frames whose text does not begin with a slash.  Only frames of at most  *)
(* ScanFloor units, and those whose magic was lost, can be queued with     *)
(* bytes that never arrived.                                               *)
ForwardedWhole ==
  /\ forwarded = sent
  /\ \A q \in cut : q.magic = "doubled" \/ Size(q) <= ScanFloor
=============================================================================
