----------------------------- MODULE FrameLink -----------------------------
(***************************************************************************)
(* What the sessions of two boards (bridge/i2c.rs, bridge/spi.rs) promise  *)
(* each other, with no chunks, buffers, handshake bytes or mailboxes: an   *)
(* end joins a connection after the other one where the protocol says so,  *)
(* and a frame that one end begins to send is handed to the other whole,   *)
(* once and in its turn.  Only when an end leaves may frames be lost that  *)
(* are still on the way, and then always the newest.                       *)
(***************************************************************************)
EXTENDS Naturals

CONSTANT Sizes  (* of the frames' payloads                                 *)

Ends == {"client", "server"}
Other(e) == IF e = "client" THEN "server" ELSE "client"

VARIABLES
  up,      (* up[e]: the end has a connection                              *)
  joined,  (* and knows that it is a session                               *)
  begun,   (* number of the last frame it began to send                    *)
  due,     (* number of the frame it receives next, 0 before it has joined *)
  way      (* way[e]: the frames on their way to it                        *)

linkVars == <<up, joined, begun, due, way>>

Init ==
  /\ up = [e \in Ends |-> FALSE] /\ joined = [e \in Ends |-> FALSE]
  /\ begun = [e \in Ends |-> 0] /\ due = [e \in Ends |-> 0]
  /\ way = [e \in Ends |-> {}]

(* Nothing of an earlier connection is left in a new one.                  *)
Connect ==
  /\ \A e \in Ends : ~up[e]
  /\ up' = [e \in Ends |-> TRUE]
  /\ begun' = [e \in Ends |-> 0] /\ due' = [e \in Ends |-> 0]
  /\ way' = [e \in Ends |-> {}]
  /\ UNCHANGED joined

(* The client joins on the server's answer.                                *)
Join(e) ==
  /\ up[e] /\ ~joined[e]
  /\ e = "client" => due["server"] > 0
  /\ joined' = [joined EXCEPT ![e] = TRUE]
  /\ due' = [due EXCEPT ![e] = 1]
  /\ UNCHANGED <<up, begun, way>>

(* What is sent to an end that has left is lost.                           *)
Begin(e, size) ==
  /\ joined[e]
  /\ begun' = [begun EXCEPT ![e] = @ + 1]
  /\ way' = IF up[Other(e)]
            THEN [way EXCEPT ![Other(e)] = @ \cup {[n |-> begun'[e], size |-> size]}]
            ELSE way
  /\ UNCHANGED <<up, joined, due>>

Receive(e, f) ==
  /\ joined[e] /\ f \in way[e] /\ f.n = due[e]
  /\ way' = [way EXCEPT ![e] = @ \ {f}]
  /\ due' = [due EXCEPT ![e] = @ + 1]
  /\ UNCHANGED <<up, joined, begun>>

(* What is left of fs when some of the newest frames are lost.             *)
Oldest(fs) == {kept \in SUBSET fs : \A f \in kept, g \in fs \ kept : f.n < g.n}

Lose(e) ==
  /\ ~up[Other(e)]
  /\ \E kept \in Oldest(way[e]) : way' = [way EXCEPT ![e] = kept]
  /\ UNCHANGED <<up, joined, begun, due>>

Leave(e) ==
  /\ up[e]
  /\ up' = [up EXCEPT ![e] = FALSE] /\ joined' = [joined EXCEPT ![e] = FALSE]
  /\ \E kept \in Oldest(way[Other(e)]) :
       way' = [way EXCEPT ![e] = {}, ![Other(e)] = kept]
  /\ UNCHANGED <<begun, due>>

Next ==
  \/ Connect
  \/ \E e \in Ends :
       \/ Join(e) \/ (\E size \in Sizes : Begin(e, size))
       \/ (\E f \in way[e] : Receive(e, f)) \/ Lose(e) \/ Leave(e)

Spec == Init /\ [][Next]_linkVars
=============================================================================
