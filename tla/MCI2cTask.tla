----------------------------- MODULE MCI2cTask -----------------------------
(* TLC instances of I2cTask: frames and commands of one and two slots.     *)
EXTENDS I2cTask

Request(kind, class, size, answer) ==
  [kind |-> kind, class |-> class, size |-> size, answer |-> answer]

MCRequests == {Request("data", "forward", 2, 1), Request("command", "local", 1, 2)}
MCOdd == {Request("data", "empty", 1, 1), Request("other", "unknown", 1, 1)}
MCAll == MCRequests \cup MCOdd
MCSizes == {1, 2}
=============================================================================
