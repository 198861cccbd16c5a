---------------------------- MODULE FrameReader ----------------------------
(***************************************************************************)
(* protocol/stream.rs: the reader that cuts a byte stream into frames.  It  *)
(* keeps its progress in itself because its caller drops the future of      *)
(* `read` at any await; the UART's reader resynchronises after bytes that   *)
(* belong to no frame and after errors (bridge/uart.rs uart_receive), the   *)
(* one of TCP fails at the first of them.                                   *)
(*                                                                          *)
(* A frame is two bytes of magic, a length of two bytes, low byte first,    *)
(* and the payload.  The bytes here are small numbers, so that magic,       *)
(* lengths and payload overlap as they do on the wire.                      *)
(***************************************************************************)
EXTENDS Integers, Sequences, SequencesExt

CONSTANTS
  Magics,     \* the pairs of bytes a frame can begin with
  Capacity,   \* length of the caller's payload buffer
  MaxFails    \* bound: read errors of the UART

ASSUME ReaderAssumption ==
  /\ Magics \subseteq Nat \X Nat
  /\ Capacity \in Nat \ {0} /\ MaxFails \in Nat

VARIABLES
  noise, frames,   \* what the other end sends: stray bytes, then frames
  resync,          \* the reader of the UART
  pos,             \* bytes consumed
  header, payload, \* progress inside a frame
  polling,         \* a call of read is in progress
  got,             \* frames returned, as <<kind, payload>>
  failed,          \* read returned an error to a caller that stops (TCP)
  cut, kept, fails \* history: the last read error, and what was got before it

reader == <<noise, frames, resync, pos, header, payload, polling, got, failed,
            cut, kept, fails>>

Wire(frame) ==
  <<frame[1][1], frame[1][2], Len(frame[2]) % 256, Len(frame[2]) \div 256>> \o frame[2]

OnWire(fs) == FlattenSeq([i \in 1..Len(fs) |-> Wire(fs[i])])

input == noise \o OnWire(frames)

FirstBytes == {m[1] : m \in Magics}

LengthOf(h) == h[3] + 256 * h[4]

----------------------------------------------------------------------------
\* Streams: the stray bytes and the frames are chosen when the stream begins.
ReaderStart(noises, sequences, readers) ==
  /\ noise \in noises /\ frames \in sequences
  /\ resync \in readers
  /\ pos = 0 /\ header = <<>> /\ payload = <<>>
  /\ polling = FALSE /\ got = <<>> /\ failed = FALSE
  /\ cut = 0 /\ kept = <<>> /\ fails = 0

Source == <<noise, frames, resync>>
History == <<cut, kept, fails>>

Call ==
  /\ ~polling /\ ~failed
  /\ polling' = TRUE
  /\ UNCHANGED <<Source, pos, header, payload, got, failed, History>>

\* A bug the code does not have: progress lives in the call.
DropFault ==
  /\ polling
  /\ polling' = FALSE /\ header' = <<>> /\ payload' = <<>>
  /\ UNCHANGED <<Source, pos, got, failed, History>>

\* The caller drops the future; everything read so far stays.
Drop ==
  /\ polling
  /\ polling' = FALSE
  /\ UNCHANGED <<Source, pos, header, payload, got, failed, History>>

\* The header after a byte that does not continue it.
Resynced(h) == IF Last(h) \in FirstBytes THEN <<Last(h)>> ELSE <<>>

\* A bug the code does not have: the second byte is not compared.
MatchesFault(h) == h[1] \in FirstBytes

\* The header agrees with one of the magics so far.
Matches(h) == \E m \in Magics : \A i \in DOMAIN h \cap {1, 2} : h[i] = m[i]

HeaderByte ==
  /\ polling /\ Len(header) < 4 /\ pos < Len(input)
  /\ pos' = pos + 1
  /\ LET h == Append(header, input[pos + 1])
     IN  IF Matches(h)
         THEN header' = h /\ UNCHANGED <<polling, failed>>
         ELSE IF resync
              THEN header' = Resynced(h) /\ UNCHANGED <<polling, failed>>
              ELSE header' = <<>> /\ polling' = FALSE /\ failed' = TRUE
  /\ UNCHANGED <<Source, payload, got, History>>

TooLong ==
  /\ polling /\ Len(header) = 4 /\ LengthOf(header) > Capacity
  /\ header' = <<>> /\ polling' = FALSE /\ failed' = ~resync
  /\ UNCHANGED <<Source, pos, payload, got, History>>

\* One read of the input returns any number of the missing bytes.
PayloadBytes ==
  /\ polling /\ Len(header) = 4
  /\ \E n \in 1..(LengthOf(header) - Len(payload)) :
       /\ LengthOf(header) <= Capacity /\ pos + n <= Len(input)
       /\ payload' = payload \o SubSeq(input, pos + 1, pos + n)
       /\ pos' = pos + n
  /\ UNCHANGED <<Source, header, polling, got, failed, History>>

Return ==
  /\ polling /\ Len(header) = 4 /\ LengthOf(header) = Len(payload)
  /\ got' = Append(got, <<header[1], payload>>)
  /\ header' = <<>> /\ payload' = <<>> /\ polling' = FALSE
  /\ UNCHANGED <<Source, pos, failed, History>>

\* The reader waits for the input.
Reading ==
  IF Len(header) < 4 THEN TRUE
  ELSE LengthOf(header) <= Capacity /\ Len(payload) < LengthOf(header)

\* The read of the input fails: an overrun or a framing error of the UART.
ReadFails ==
  /\ polling /\ resync /\ fails < MaxFails /\ Reading
  /\ header' = <<>> /\ payload' = <<>> /\ polling' = FALSE
  /\ cut' = pos /\ kept' = got /\ fails' = fails + 1
  /\ UNCHANGED <<Source, pos, got, failed>>

\* TCP's end of stream is an error as well.
EndOfStream ==
  /\ polling /\ ~resync /\ pos = Len(input) /\ Reading
  /\ header' = <<>> /\ payload' = <<>> /\ polling' = FALSE /\ failed' = TRUE
  /\ UNCHANGED <<Source, pos, got, History>>

ReaderNext ==
  \/ Call \/ Drop \/ HeaderByte \/ TooLong \/ PayloadBytes \/ Return
  \/ ReadFails \/ EndOfStream

----------------------------------------------------------------------------
\* What a reader that has all bytes at once finds in them: it looks for the
\* leftmost magic, takes the frame behind it if it fits, and goes on after it.
AtMagic(bytes, i) == i < Len(bytes) /\ <<bytes[i], bytes[i + 1]>> \in Magics
LengthAt(bytes, i) == bytes[i + 2] + 256 * bytes[i + 3]
FrameAt(bytes, i) ==
  <<bytes[i], SubSeq(bytes, i + 4, i + 3 + LengthAt(bytes, i))>>

FoundAt(bytes, again, from, i) ==
  IF i > Len(bytes) THEN <<>>
  ELSE IF ~AtMagic(bytes, i) THEN IF again THEN from[i + 1] ELSE <<>>
  ELSE IF i + 3 > Len(bytes) THEN <<>>
  ELSE IF LengthAt(bytes, i) > Capacity THEN IF again THEN from[i + 4] ELSE <<>>
  ELSE IF i + 3 + LengthAt(bytes, i) > Len(bytes) THEN <<>>
  ELSE <<FrameAt(bytes, i)>> \o from[i + 4 + LengthAt(bytes, i)]

ScanFrom(bytes, again) ==
  LET from[i \in Nat \ {0}] == FoundAt(bytes, again, from, i) IN from

Scan(bytes, again) == ScanFrom(bytes, again)[1]

\* The reader returns what is in the bytes it has consumed, whatever bytes each
\* read returns and wherever its future is dropped; a complete frame is not
\* returned before its last call ends.
ReaderExact ==
  LET whole == Len(header) = 4 /\ LengthOf(header) = Len(payload)
  IN  kept \o Scan(SubSeq(input, cut + 1, pos), resync)
        = got \o IF whole THEN <<<<header[1], payload>>>> ELSE <<>>

\* The bytes of fs before its frame k.
Before(fs, k) == Len(FlattenSeq([i \in 1..(k - 1) |-> Wire(fs[i])]))

\* No magic begins inside a magic, and no magic read as a length fits: the UART's
\* are A5 5A and A6 5B (bridge/uart.rs), its payloads have at most 4096 bytes.
MagicsApart ==
  \A m, n \in Magics : m[2] # n[1] /\ 256 * m[1] > Capacity /\ 256 * m[2] > Capacity

\* Frames of which none is too long and none has a magic in it.
Clear(fs) ==
  /\ \A k \in 1..Len(fs) : fs[k][1] \in Magics /\ Len(fs[k][2]) <= Capacity
  /\ \A i \in 1..Len(OnWire(fs)) :
       AtMagic(OnWire(fs), i) => \E k \in 1..Len(fs) : i = Before(fs, k) + 1

\* Stray bytes cost the UART only frames that start within Capacity bytes of
\* them, and an error only the frame it falls in: every later one is returned
\* (UART_PROTOCOL.md:47 promises that they no longer poison the framing for
\* good).  Frames that are Clear.
Resyncs ==
  LET start(k) == Len(noise) + Before(frames, k)
      due(k) == start(k) >= cut /\ (cut < Len(noise) => start(k) >= Len(noise) + Capacity)
      sent == [i \in 1..Len(frames) |-> <<frames[i][1][1], frames[i][2]>>]
  IN  resync /\ pos = Len(input) /\ header = <<>> =>
        \A k \in 1..Len(frames) : due(k) => IsSuffix(SubSeq(sent, k, Len(frames)), got)
=============================================================================
