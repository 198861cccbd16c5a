-------------------------- MODULE DiscoveryProofs --------------------------
(***************************************************************************)
(* Proofs about Discovery for all networks, hosts and durations, whoever   *)
(* reads messages late and however often addresses are lost.               *)
(***************************************************************************)
EXTENDS Discovery, TLAPS

Offers == [host : Hosts \cup {Self}, age : Nat]

Typed ==
  /\ nextQuery \in 0 .. QueryGap /\ expires \in 0 .. Life
  /\ best = None \/ best \in Offers
  /\ peer = None \/ peer \in Offers
  /\ \A m \in air : m.from \in Hosts \cup {Self}

(* An offer in hand is as old as its query, as long as no new one is due.  *)
BestOK == best # None /\ nextQuery > 0 => best.age = QueryGap - nextQuery

(* A peer's age and the time it is still known add up to less than an      *)
(* interval and a life.                                                    *)
PeerOK == Known => peer.age + expires < QueryGap + Life

PeerInv == Typed /\ BestOK /\ PeerOK

-----------------------------------------------------------------------------

LEMMA Durations ==
  /\ QueryGap \in Nat /\ QueryGap > 0 /\ Life \in Nat /\ Life > 0
BY DiscoveryAssumption

(* What Older does to an offer.                                            *)
LEMMA OlderFacts ==
  ASSUME NEW x, x = None \/ x \in Offers
  PROVE  /\ Older(x) = None \/ Older(x) \in Offers
         /\ x = None => Older(x) = None
         /\ x # None => /\ Older(x) \in Offers
                        /\ x.age < MaxAge => Older(x).age = x.age + 1
                        /\ Older(x).age <= x.age + 1
<1>1. CASE x = None
  BY <1>1 DEF Older
<1>2. CASE x # None
  <2>1. x \in Offers /\ x.age \in Nat /\ MaxAge \in Nat
    BY <1>2, Durations DEF Offers, MaxAge
  <2>2. Older(x) = [x EXCEPT !.age = IF @ < MaxAge THEN @ + 1 ELSE @]
    BY <1>2 DEF Older
  <2>3. PICK n \in Nat : /\ Older(x) = [x EXCEPT !.age = n]
                         /\ x.age < MaxAge => n = x.age + 1
                         /\ n <= x.age + 1
    BY <2>1, <2>2
  <2>4. Older(x) \in Offers /\ Older(x).age = n
    BY <2>1, <2>3 DEF Offers
  <2> QED
    BY <1>2, <2>3, <2>4
<1> QED
  BY <1>1, <1>2

LEMMA InitPeer == Init => PeerInv
BY Durations DEF Init, PeerInv, Typed, BestOK, PeerOK, Known

LEMMA LoopStep ==
  ASSUME PeerInv, ClientLoop
  PROVE  PeerInv'
<1>1. CASE config = None
  BY <1>1, Durations DEF ClientLoop, ClearPeer, PeerInv, Typed, BestOK, PeerOK, Known, round
<1>2. CASE config # None /\ Ask
  <2>1. /\ nextQuery' = QueryGap /\ best' = None /\ UNCHANGED <<peer, expires>>
    BY <1>2 DEF Ask, Query, store
  <2>2. \A m \in air' : m.from \in Hosts \cup {Self}
    BY <1>2 DEF Ask, Query, Message, PeerInv, Typed
  <2> QED
    BY <2>1, <2>2, Durations DEF PeerInv, Typed, BestOK, PeerOK, Known
<1>3. CASE config # None /\ nextQuery > 0 /\ Publish
  BY <1>3, Durations DEF Publish, store, PeerInv, Typed, BestOK, PeerOK, Known, Offers
<1>4. CASE config # None /\ Idle
  BY <1>4 DEF Idle, round, store, PeerInv, Typed, BestOK, PeerOK, Known
<1> QED
  BY <1>1, <1>2, <1>3, <1>4 DEF ClientLoop

LEMMA ReceiveStep ==
  ASSUME PeerInv, NEW m, ClientReceive(m)
  PROVE  PeerInv'
<1>1. /\ UNCHANGED <<nextQuery, peer, expires>> /\ air' \subseteq air
      /\ m \in air
  BY DEF ClientReceive, store
<1>2. CASE best' = best
  BY <1>1, <1>2 DEF PeerInv, Typed, BestOK, PeerOK, Known
<1>3. CASE best' = [host |-> m.from, age |-> QueryGap - nextQuery]
  <2>1. m.from \in Hosts \cup {Self} /\ QueryGap - nextQuery \in Nat
    BY <1>1, Durations DEF PeerInv, Typed
  <2>2. best' \in Offers /\ best'.age = QueryGap - nextQuery
    BY <1>3, <2>1 DEF Offers
  <2> QED
    BY <1>1, <2>2 DEF PeerInv, Typed, BestOK, PeerOK, Known
<1> QED
  BY <1>2, <1>3 DEF ClientReceive

LEMMA ElapseStep ==
  ASSUME PeerInv, Elapse
  PROVE  PeerInv'
<1>1. /\ nextQuery' = Less(nextQuery) /\ expires' = Less(expires)
      /\ best' = Older(best) /\ peer' = Older(peer) /\ air' = air
  BY DEF Elapse
<1>2. Typed'
  <2>1. nextQuery' \in 0 .. QueryGap /\ expires' \in 0 .. Life
    BY <1>1, Durations DEF PeerInv, Typed, Less
  <2>2. (best = None \/ best \in Offers) /\ (peer = None \/ peer \in Offers)
    BY DEF PeerInv, Typed
  <2>3. (best' = None \/ best' \in Offers) /\ (peer' = None \/ peer' \in Offers)
    BY <1>1, <2>2, OlderFacts
  <2> QED
    BY <1>1, <2>1, <2>3 DEF PeerInv, Typed
<1>3. BestOK'
  <2> SUFFICES ASSUME best' # None, nextQuery' > 0 PROVE best'.age = QueryGap - nextQuery'
    BY DEF BestOK
  <2>1. best # None /\ best \in Offers
    BY <1>1, OlderFacts DEF PeerInv, Typed
  <2>2. nextQuery > 0 /\ nextQuery' = nextQuery - 1 /\ nextQuery \in 0 .. QueryGap
    BY <1>1 DEF Less, PeerInv, Typed
  <2>3. best.age = QueryGap - nextQuery
    BY <2>1, <2>2 DEF PeerInv, BestOK
  <2>4. best.age < MaxAge
    BY <2>2, <2>3, Durations DEF MaxAge
  <2>5. best'.age = best.age + 1
    BY <1>1, <2>1, <2>4, OlderFacts
  <2> QED
    BY <2>2, <2>3, <2>5, Durations
<1>4. PeerOK'
  <2> SUFFICES ASSUME Known' PROVE peer'.age + expires' < QueryGap + Life
    BY DEF PeerOK
  <2>1. peer # None /\ peer \in Offers /\ peer'.age <= peer.age + 1 /\ peer'.age \in Nat
    BY <1>1, OlderFacts DEF Known, PeerInv, Typed, Offers
  <2>2. expires > 0 /\ expires' = expires - 1 /\ expires \in 0 .. Life
    BY <1>1 DEF Known, Less, PeerInv, Typed
  <2>3. peer.age + expires < QueryGap + Life /\ peer.age \in Nat
    BY <2>1, <2>2 DEF PeerInv, PeerOK, Known, Offers
  <2> QED
    BY <2>1, <2>2, <2>3, Durations
<1> QED
  BY <1>2, <1>3, <1>4 DEF PeerInv

LEMMA PeerStep == PeerInv /\ [Next]_vars => PeerInv'
<1> SUFFICES ASSUME PeerInv, [Next]_vars PROVE PeerInv'
  OBVIOUS
<1>1. CASE ClientLoop
  BY <1>1, LoopStep
<1>2. ASSUME NEW m \in air, ClientReceive(m) PROVE PeerInv'
  BY <1>2, ReceiveStep
<1>3. CASE Elapse
  BY <1>3, ElapseStep
<1>4. ASSUME UNCHANGED <<nextQuery, best, peer, expires>>,
             \A m \in air' : m.from \in Hosts \cup {Self}
      PROVE  PeerInv'
  BY <1>4 DEF PeerInv, Typed, BestOK, PeerOK, Known
<1>5. ASSUME UNCHANGED <<nextQuery, best>>, ClearPeer, air' = air PROVE PeerInv'
  BY <1>5, Durations DEF ClearPeer, PeerInv, Typed, BestOK, PeerOK, Known
<1>6. \A m \in air : m.from \in Hosts \cup {Self}
  BY DEF PeerInv, Typed
<1>7. ASSUME NEW b \in Boards, ServerLoop(b) PROVE PeerInv'
  BY <1>4, <1>6, <1>7 DEF ServerLoop, round, store
<1>8. ASSUME NEW m \in air, NEW b \in Boards, ServerReceive(b, m) PROVE PeerInv'
  BY <1>4, <1>6, <1>8 DEF ServerReceive, round, store, Message, Boards
<1>9. ASSUME NEW m \in air, NEW h \in Hosts, GroundAnswers(h, m) PROVE PeerInv'
  BY <1>4, <1>6, <1>9 DEF GroundAnswers, round, store, Message
<1>10. ASSUME NEW h \in Hosts, GroundAsks(h) PROVE PeerInv'
  BY <1>4, <1>6, <1>10 DEF GroundAsks, round, store, Message
<1>11. CASE AppRuns \/ Dial \/ DialEnds \/ SessionEnds \/ UNCHANGED vars
            \/ \E n \in Networks : ConfigFound(n)
  BY <1>4, <1>6, <1>11
     DEF AppRuns, Dial, DialEnds, SessionEnds, ConfigFound, round, store, vars
<1>12. CASE AddressChange
  BY <1>5, <1>12 DEF AddressChange, round
<1>13. CASE ConfigLost
  BY <1>4, <1>5, <1>6, <1>13 DEF ConfigLost, round, store
<1> QED
  BY <1>1, <1>2, <1>3, <1>7, <1>8, <1>9, <1>10, <1>11, <1>12, <1>13 DEF Next, Read

(* PeerFresh: the peer a board dials answered a recent query, whatever     *)
(* sessions and address changes came between the offer and its use.        *)
THEOREM PeersFresh == Spec => []PeerFresh
<1>1. PeerInv => PeerFresh
  <2> SUFFICES ASSUME PeerInv, Known PROVE peer.age < QueryGap + Life
    BY DEF PeerFresh
  <2>1. peer \in Offers /\ expires \in Nat
    BY DEF PeerInv, Typed, Known
  <2> QED
    BY <2>1, Durations DEF PeerInv, PeerOK, Offers
<1> QED
  BY <1>1, InitPeer, PeerStep, PTL DEF Spec
=============================================================================
