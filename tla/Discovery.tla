------------------------------ MODULE Discovery ------------------------------
(***************************************************************************)
(* LAN discovery (lan_discovery.rs discovery_task, protocol/discovery.rs):  *)
(* a disconnected TCP client asks once per second who could be its peer,   *)
(* servers answer, and the best answer of a short window becomes the peer  *)
(* that connect_with_timeout dials.  Beside the client board there are     *)
(* boards configured as servers, which run the same task, and ground       *)
(* stations, which speak the same protocol.  The application loop of       *)
(* main.rs restarts the bridge when the address changes; sessions come and *)
(* go.                                                                     *)
(*                                                                         *)
(* One loop of the task, up to its select, is one step, and so is a        *)
(* received message.  Deadlines are the time left in units that are long   *)
(* against the 50 ms of the select and the 20 ms of wait_address_change:   *)
(* every board loops at least once in a unit.  A message may be read late  *)
(* by those of Late, even after the address has changed (the socket keeps  *)
(* four), or never.                                                        *)
(*                                                                         *)
(* Definitions named ...Fault are variants a mistake in the code could     *)
(* introduce; no specification uses them, they show what each property     *)
(* would notice.                                                           *)
(***************************************************************************)
EXTENDS Naturals

CONSTANTS
  Networks,     (* addresses the client may have, each of another network  *)
  Hosts,        (* servers: identity, party, network                       *)
  Own,          (* identity of the client board                            *)
  Settle,       (* 400 ms: the window for offers                           *)
  QueryGap,     (* 1 s: between two queries                                *)
  Life,         (* 2500 ms: how long a peer is known                       *)
  AnswerWindow, (* 1 s: of a server's limit                                *)
  MaxAnswers,   (* 4: answers in that window                               *)
  Late,         (* assumption: who may read a message in a later unit      *)
  MaxChanges,   (* bound: configurations lost                              *)
  None

Boards == {h \in Hosts : h.party = "pico"}
Self == [id |-> Own, party |-> "pico"]

ASSUME DiscoveryAssumption ==
  /\ \A h \in Hosts : /\ h.id \in Nat /\ h.id # Own
                      /\ h.party \in {"pico", "ground"} /\ h.net \in Networks
  /\ Own \in Nat /\ None \notin Networks \cup Hosts
  /\ {Settle, QueryGap, Life, AnswerWindow, MaxAnswers} \subseteq Nat \ {0}
  /\ Settle < QueryGap
  /\ Late \subseteq Boards \cup {Self} /\ MaxChanges \in Nat

VARIABLES
  config,     (* the client's address, or None                             *)
  app,        (* the address the bridge runs with, None before it runs     *)
  link,       (* LINK_ACTIVE                                               *)
  dialing,    (* connect_with_timeout is under way                         *)
  query,      (* number of the query that offers must answer, 0 for none   *)
  nextQuery,  (* time left to the next query                               *)
  settle,     (* time left to the end of the window, or None               *)
  best,       (* the best offer of the window: its host and its age        *)
  peer,       (* PEER: a host and the age of the query it answered         *)
  expires,    (* EXPIRES: time left                                        *)
  seen,       (* the client's select: LINK_ACTIVE as its loop has read it, *)
              (* None when it is not in the select                         *)
  responses, window, (* each server board's limit                          *)
  listening,  (* server boards in their select                             *)
  polled,     (* who has looped or asked in this unit                      *)
  air,        (* messages on the way or in a socket                        *)
  changes     (* history: configurations lost                              *)

network == <<config, app, changes>>
store == <<peer, expires>>
round == <<query, nextQuery, settle, best>>
servers == <<responses, window, listening>>
vars == <<config, app, link, dialing, query, nextQuery, settle, best, peer, expires,
          seen, responses, window, listening, polled, air, changes>>

Message(kind, from, n, to) ==
  [kind |-> kind, party |-> from.party, from |-> from, nonce |-> n, to |-> to]

(* No offer is older than this when it no longer matters how old it is.    *)
MaxAge == QueryGap + Life + 1
Older(x) == IF x = None THEN None
            ELSE [x EXCEPT !.age = IF @ < MaxAge THEN @ + 1 ELSE @]
Less(t) == IF t = 0 THEN 0 ELSE t - 1

-----------------------------------------------------------------------------
(* The peer.                                                               *)

ClearPeer == peer' = None /\ expires' = 0

(* peer(): nothing once it has expired.                                    *)
Known == expires > 0 /\ peer # None

-----------------------------------------------------------------------------
(* discovery_task of the client.                                           *)

(* Two numbers tell a query from the one before; by the time one is used   *)
(* again, offers to it are no longer on the way.                           *)
NextNonce == IF query = 1 THEN 2 ELSE 1

(* The query goes to everyone on the network.                              *)
Query ==
  /\ query' = NextNonce
  /\ nextQuery' = QueryGap
  /\ air' = {m \in air : m.nonce # query'}
            \cup {Message("query", Self, query', h) : h \in {x \in Hosts : x.net = config}}
  /\ UNCHANGED store

(* Offers to the query before are kept.                                    *)
AskFault == Query /\ settle' = Settle /\ UNCHANGED best

(* The window ends with the next query.                                    *)
AskLateFault == Query /\ settle' = QueryGap /\ best' = None

(* A new query begins a new window.                                        *)
Ask == Query /\ settle' = Settle /\ best' = None

(* The window is over: the best offer is the peer.                         *)
Publish ==
  /\ IF best = None THEN UNCHANGED store
     ELSE peer' = best /\ expires' = Life
  /\ best' = None
  /\ settle' = None
  /\ UNCHANGED <<query, nextQuery, air>>

Idle == UNCHANGED <<round, store, air>>

(* One loop, up to the select; without an address, up to the pause.        *)
ClientLoop ==
  /\ polled' = polled \cup {Self}
  /\ UNCHANGED <<network, link, dialing, servers>>
  /\ \/ config = None /\ ClearPeer /\ seen' = None /\ UNCHANGED <<round, air>>
     \/ /\ config # None
        /\ seen' = link
        /\ \/ ~link /\ nextQuery = 0 /\ Ask
           \/ ~link /\ nextQuery > 0 /\ settle = 0 /\ Publish
           \/ (link \/ (nextQuery > 0 /\ settle # 0)) /\ Idle

(* Message::compatible_offer.                                              *)
Compatible(m) ==
  /\ m.kind = "offer" /\ m.party # Self.party
  /\ query # 0 /\ m.nonce = query
  /\ m.from.id # Own

(* A message for the client: the offer with the lowest identity is kept.   *)
(* At the very end of the window it may be in time or late.                *)
ClientReceive(m) ==
  /\ seen # None /\ seen' = None
  /\ m \in air /\ m.to = Self
  /\ air' = air \ {m}
  /\ LET wanted == /\ ~seen /\ settle # None
                   /\ Compatible(m)
                   /\ best # None => m.from.id < best.host.id
         taken == best' = [host |-> m.from, age |-> QueryGap - nextQuery]
     IN  \/ wanted /\ taken
         \/ (~wanted \/ settle = 0) /\ UNCHANGED best
  /\ UNCHANGED <<network, link, dialing, query, nextQuery, settle, store, servers, polled>>

-----------------------------------------------------------------------------
(* discovery_task of a board that is a server.                             *)

ServerLoop(b) ==
  /\ polled' = polled \cup {b}
  /\ listening' = listening \cup {b}
  /\ IF window[b] = 0
     THEN /\ window' = [window EXCEPT ![b] = AnswerWindow]
          /\ responses' = [responses EXCEPT ![b] = 0]
     ELSE UNCHANGED <<window, responses>>
  /\ UNCHANGED <<network, link, dialing, round, store, seen, air>>

(* A server board answers ground stations, and not too often.              *)
Answers(b, m) ==
  /\ m.kind = "query" /\ m.party = "ground"
  /\ m.from.id # b.id
  /\ responses[b] < MaxAnswers

ServerReceive(b, m) ==
  /\ b \in listening /\ listening' = listening \ {b}
  /\ m \in air /\ m.to = b
  /\ IF Answers(b, m)
     THEN /\ responses' = [responses EXCEPT ![b] = @ + 1]
          /\ air' = (air \ {m}) \cup {Message("offer", b, m.nonce, m.from)}
     ELSE UNCHANGED responses /\ air' = air \ {m}
  /\ UNCHANGED <<network, link, dialing, round, store, seen, window, polled>>

-----------------------------------------------------------------------------
(* Ground stations: they answer boards, and ask them with a number of      *)
(* their own, once a unit at most; they use the answers as they like.      *)

GroundAnswers(h, m) ==
  /\ h.party = "ground"
  /\ m \in air /\ m.to = h
  /\ air' = IF m.kind = "query" /\ m.party = "pico"
            THEN (air \ {m}) \cup {Message("offer", h, m.nonce, m.from)}
            ELSE air \ {m}
  /\ UNCHANGED <<network, link, dialing, round, store, seen, servers, polled>>

GroundAsks(h) ==
  /\ h.party = "ground"
  /\ h \notin polled /\ polled' = polled \cup {h}
  /\ \A m \in air : m.nonce # 0
  /\ air' = air \cup {Message("query", h, 0, b) : b \in {x \in Boards : x.net = h.net}}
            \cup (IF config = h.net THEN {Message("query", h, 0, Self)} ELSE {})
  /\ UNCHANGED <<network, link, dialing, round, store, seen, servers>>

-----------------------------------------------------------------------------
(* The bridge: main.rs and connect_with_timeout.                           *)

AppRuns ==
  /\ app = None /\ config # None
  /\ app' = config
  /\ UNCHANGED <<config, changes, link, dialing, round, store, seen, servers, polled, air>>

(* wait_address_change ends the bridge.                                    *)
AddressChange ==
  /\ app # None /\ config # app
  /\ app' = None /\ link' = FALSE /\ dialing' = FALSE
  /\ ClearPeer
  /\ UNCHANGED <<config, changes, round, seen, servers, polled, air>>

Dial ==
  /\ app # None /\ ~link /\ ~dialing
  /\ Known
  /\ dialing' = TRUE
  /\ UNCHANGED <<network, link, round, store, seen, servers, polled, air>>

DialEnds ==
  /\ dialing
  /\ dialing' = FALSE
  /\ link' \in BOOLEAN
  /\ UNCHANGED <<network, round, store, seen, servers, polled, air>>

SessionEnds ==
  /\ link
  /\ link' = FALSE
  /\ UNCHANGED <<network, dialing, round, store, seen, servers, polled, air>>

-----------------------------------------------------------------------------
(* Addresses and time.                                                     *)

(* The addressing policy gives an address up and clears the peer, or DHCP  *)
(* loses its lease.                                                        *)
ConfigLost ==
  /\ config # None /\ changes < MaxChanges
  /\ config' = None /\ changes' = changes + 1
  /\ ClearPeer \/ UNCHANGED store
  /\ UNCHANGED <<app, link, dialing, round, seen, servers, polled, air>>

ConfigFound(n) ==
  /\ config = None
  /\ config' = n
  /\ UNCHANGED <<app, changes, link, dialing, round, store, seen, servers, polled, air>>

(* A unit passes: every board has looped and the bridge has seen a change. *)
Elapse ==
  /\ Boards \cup {Self} \subseteq polled /\ polled' = {}
  /\ app # None => app = config
  /\ \A m \in air : m.to \in Late \/ (m.to = Self /\ config = None)
  /\ nextQuery' = Less(nextQuery)
  /\ settle' = IF settle = None THEN None ELSE Less(settle)
  /\ best' = Older(best) /\ peer' = Older(peer)
  /\ expires' = Less(expires)
  /\ window' = [b \in Boards |-> Less(window[b])]
  /\ UNCHANGED <<network, link, dialing, query, seen, responses, listening, air>>

Init ==
  /\ config \in Networks /\ app = None /\ link = FALSE /\ dialing = FALSE
  /\ query = 0 /\ nextQuery = 0 /\ settle = None /\ best = None
  /\ peer = None /\ expires = 0 /\ seen = None
  /\ responses = [b \in Boards |-> 0] /\ window = [b \in Boards |-> 0]
  /\ listening = {} /\ polled = {} /\ air = {} /\ changes = 0

Read == \E m \in air : \/ ClientReceive(m)
                        \/ \E b \in Boards : ServerReceive(b, m)
                        \/ \E h \in Hosts : GroundAnswers(h, m)

Next ==
  \/ ClientLoop \/ (\E b \in Boards : ServerLoop(b))
  \/ Read \/ (\E h \in Hosts : GroundAsks(h))
  \/ AppRuns \/ AddressChange \/ Dial \/ DialEnds \/ SessionEnds
  \/ ConfigLost \/ (\E n \in Networks : ConfigFound(n)) \/ Elapse

(* The executor runs every board's loop, the bridge looks every 20 ms,     *)
(* what can be read is read, and time passes.                              *)
Spec ==
  /\ Init /\ [][Next]_vars
  /\ WF_vars(ClientLoop) /\ (\A b \in Boards : WF_vars(ServerLoop(b)))
  /\ WF_vars(AddressChange) /\ WF_vars(Read) /\ WF_vars(Elapse)

-----------------------------------------------------------------------------
(* Properties.                                                             *)

(* PeerFresh: a known peer has answered a query of at most QueryGap + Life *)
(* ago, whatever sessions and address changes stopped the rounds between   *)
(* the offer and its publication.                                          *)
PeerFresh == Known => peer.age < QueryGap + Life

(* OfferUsed: an offer of this window leads to a peer, unless a session    *)
(* begins or the address is lost: the next query never discards it first.  *)
OfferUsed ==
  best # None /\ best.age <= Settle /\ seen = FALSE ~> Known \/ link \/ config = None

(* PicosMeet: two boards with opposite roles on one network discover each  *)
(* other (ETHERNET.md, Router arrival and removal).                        *)
PicosMeet == (\E b \in Boards : b.net = config) ~> Known \/ link \/ config = None
=============================================================================
