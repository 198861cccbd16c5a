----------------------------- MODULE MCMailbox -----------------------------
(* TLC instances of Mailbox: a ring of four bytes and two frames, frames   *)
(* of every length up to one byte too many, no byte twice in two frames.   *)
EXTENDS Mailbox

MCN == 2
MCB == 4
MCByte == 0 .. 10
MCFrames == {<<>>, <<1>>, <<2, 3>>, <<4, 5, 6>>, <<7, 8, 9, 10>>, <<1, 2, 3, 4, 5>>}
=============================================================================
