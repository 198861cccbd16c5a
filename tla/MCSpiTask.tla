----------------------------- MODULE MCSpiTask -----------------------------
(* TLC instances of SpiTask: polls, pulls, local commands, and frames of    *)
(* every kind with and without a slash in their length or their bytes.     *)
EXTENDS SpiTask

Request(magic, payload) ==
  [magic |-> magic, length |-> "bin", payload |-> payload, rest |-> <<>>]

MCPoll == Request("idle", <<"nul">>)
MCPull == Request("command", <<"/", "pull">>)
MCPing == Request("command", <<"/", "text">>)

(* Data frames: the short ones can lose their payload, "/" may be searched *)
(* or stand behind the scan, be the length or the line of a pull.          *)
MCData == {Request("data", <<>>), Request("data", <<"bin">>),
           Request("data", <<"/", "pull">>),
           Request("data", <<"bin", "/", "pull">>),
           Request("data", <<"bin", "eol", "/">>),
           [Request("data", <<"bin", "text">>) EXCEPT !.length = "/"],
           [Request("data", <<"bin">>) EXCEPT !.rest = <<"ctrl">>],
           Request("swapped data", <<"bin">>)}

(* Command frames: a slash in what is no text makes no command.            *)
MCCommands == {MCPull, MCPing, Request("command", <<>>), Request("command", <<"text">>),
               Request("command", <<"eol", "/", "pull">>),
               Request("command", <<"/", "bin">>),
               Request("doubled", <<"text", "text">>)}

MCRequests == {MCPoll, Request("other", <<"bin">>)} \cup MCData \cup MCCommands

(* The longer reply outlasts a pull: the master reads it in part.          *)
MCSizes == {2, 4}
=============================================================================
