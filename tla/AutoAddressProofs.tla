------------------------- MODULE AutoAddressProofs -------------------------
(***************************************************************************)
(* Proofs about AutoAddress for all durations, every bound on the          *)
(* candidates in a row and every size of the attempt counter.              *)
(***************************************************************************)
EXTENDS AutoAddress, Integers, TLAPS

Watching == {"ProbeDelay", "ProbeTx", "ClaimDelay", "Fallback"}

Configs == [kind : {"none", "dhcp", "lease", "static"}, ip : Ips \cup {NoIp}]

Typed ==
  /\ phase \in Phases
  /\ timer \in Nat /\ probes \in 0 .. 2
  /\ attempt \in Ips
  /\ nextProbe \in Int /\ window \in 0 .. Closed
  /\ candidate \in Ips \cup {NoIp}
  /\ command \in {"none", "probe", "announce"}
  /\ conflict \in BOOLEAN /\ seen \in BOOLEAN
  /\ config \in Configs
  /\ lastXid \in {1, 2}
  /\ wire \in 0 .. 3
  /\ failed \in Nat
  /\ burst \in Nat /\ calm \in Nat /\ online \in Nat

(* From the candidate's choice to the end of its use the driver watches it *)
(* and the policy's conflict flag says what the driver has seen.           *)
WatchOK == phase \in Watching => candidate = address /\ seen = conflict

StaticOK == config.kind = "static" => phase = "Fallback" /\ config.ip = address

(* The policy counts a probe only when it left the driver.                 *)
ProbesOK ==
  /\ phase = "ProbeDelay" => wire >= probes
  /\ phase = "ProbeTx" => /\ command # "announce"
                          /\ wire >= IF pending THEN probes ELSE probes + 1
  /\ phase = "ClaimDelay" => wire = 3

(* A transaction is open only while the fallback's window is.              *)
XidOK ==
  /\ xid # 0 => phase = "Fallback" /\ xid = lastXid /\ window # Closed
  /\ OfferCurrent

Steps == attempt % PauseEvery

(* The candidates tried without a long pause are those since the attempt   *)
(* counter's last multiple of PauseEvery, or they came to it and the long  *)
(* pause is due.                                                           *)
BurstOK ==
  /\ phase \in {"Down", "StartDhcp", "Dhcp", "Leased", "Fallback"} => burst = 0
  /\ phase = "Choose" => \/ burst <= Steps
                         \/ Steps = 0 /\ burst <= PauseEvery /\ timer + calm >= RetryPause
  /\ phase \in {"ProbeDelay", "ProbeTx", "ClaimDelay"} =>
       burst <= Steps \/ (Steps = 0 /\ burst <= PauseEvery)

(* No window opens before the fallback lasted a probe interval.            *)
IntervalOK ==
  phase = "Fallback" =>
    /\ nextProbe + online >= Interval
    /\ window # Closed => online >= Interval

AddressInv ==
  /\ Typed /\ WatchOK /\ StaticOK /\ ProbesOK /\ XidOK /\ BurstOK /\ IntervalOK

-----------------------------------------------------------------------------
(* Arithmetic.                                                             *)

LEMMA Multiple ==
  ASSUME NEW P \in Nat \ {0}, NEW k \in Int
  PROVE  (k >= 2 => P * k >= P + P) /\ (k <= -1 => P * k <= -P)
  BY Z3

(* The remainder of the next number.                                       *)
LEMMA NextRemainder ==
  ASSUME NEW a \in Nat, NEW P \in Nat \ {0}
  PROVE  (a + 1) % P \in {0, (a % P) + 1} /\ a % P \in 0 .. P - 1
<1> DEFINE r == a % P  q == a \div P  r1 == (a + 1) % P  q1 == (a + 1) \div P
<1>1. a = P * q + r /\ q \in Int /\ r \in 0 .. P - 1
  BY Z3
<1>2. a + 1 = P * q1 + r1 /\ q1 \in Int /\ r1 \in 0 .. P - 1
  BY Z3
<1> HIDE DEF r, q, r1, q1
<1>3. P * (q1 - q) = P * q1 - P * q
  BY <1>1, <1>2, Z3
<1>4. P * (q1 - q) = r + 1 - r1
  BY <1>1, <1>2, <1>3
<1>5. q1 - q \in {0, 1}
  BY <1>1, <1>2, <1>4, Multiple
<1> QED
  BY <1>1, <1>2, <1>4, <1>5 DEF r1, r

(* The attempt after this one, the counter's wrap included.                *)
LEMMA NextAttempt ==
  ASSUME Typed
  PROVE  /\ (attempt + 1) % Cycle \in Ips
         /\ ((attempt + 1) % Cycle) % PauseEvery \in {0, Steps + 1}
         /\ Steps \in 0 .. PauseEvery - 1
<1> USE AutoAddressAssumption
<1>1. /\ attempt \in Nat /\ attempt <= Cycle - 1
      /\ Cycle \in Nat \ {0} /\ PauseEvery \in Nat \ {0}
  BY DEF Typed, Ips
<1>2. (attempt + 1) % Cycle \in 0 .. Cycle - 1
  BY <1>1, Z3
<1>3. CASE attempt + 1 = Cycle
  <2>1. (attempt + 1) % Cycle = 0 /\ 0 % PauseEvery = 0
    BY <1>1, <1>3, Z3
  <2> QED
    BY <1>1, <1>2, <2>1, NextRemainder DEF Ips, Steps
<1>4. CASE attempt + 1 # Cycle
  <2>1. attempt + 1 < Cycle
    BY <1>1, <1>4
  <2>2. (attempt + 1) % Cycle = attempt + 1
    BY <1>1, <2>1, Z3
  <2> QED
    BY <1>1, <1>2, <2>2, NextRemainder DEF Ips, Steps
<1> QED
  BY <1>3, <1>4

LEMMA IntervalIsInt ==
  /\ Typed => Interval \in Int
  /\ failed' = failed => Interval' = Interval
<1>1. \A n \in Nat : 2 ^ n \in Int
  BY Z3
<1>2. ProbeInterval \in Int /\ MaxShift \in Nat
  BY AutoAddressAssumption
<1>3. Typed => AtMost(failed, MaxShift) \in Nat
  BY <1>2 DEF Typed, AtMost
<1> QED
  BY <1>1, <1>2, <1>3 DEF Interval

LEMMA Constants ==
  /\ {DhcpTime, TxTime, ProbeGap, ClaimTime, AnnounceGap, IdleTime, ProbeInterval,
      ProbeWindow, RetryPause, PauseEvery, Cycle} \subseteq Nat
  /\ PauseEvery > 0 /\ RetryPause > 0 /\ Cycle > 0
  /\ ProbeWindow > 0 /\ ProbeWindow < Closed /\ Closed \in Nat \ {0}
  BY AutoAddressAssumption DEF Closed

LEMMA ConfigFacts ==
  ASSUME NEW kind \in {"none", "dhcp", "lease", "static"}, NEW ip \in Ips \cup {NoIp}
  PROVE  Config(kind, ip) \in Configs
  BY DEF Config, Configs

-----------------------------------------------------------------------------
(* The steps.                                                              *)

LEMMA InitAddress == Init => AddressInv
<1> SUFFICES ASSUME Init PROVE AddressInv
  OBVIOUS
<1>1. Typed
  <2>1. config \in Configs
    BY ConfigFacts DEF Init
  <2>2. attempt \in Ips
    BY Constants DEF Init, Ips
  <2>3. window \in 0 .. Closed
    BY Constants DEF Init
  <2>4. phase \in Phases /\ timer \in Nat /\ probes \in 0 .. 2 /\ nextProbe \in Int
    BY DEF Init, Phases
  <2>5. /\ candidate \in Ips \cup {NoIp} /\ command \in {"none", "probe", "announce"}
        /\ conflict \in BOOLEAN /\ seen \in BOOLEAN
    BY DEF Init
  <2>6. /\ lastXid \in {1, 2} /\ wire \in 0 .. 3 /\ failed \in Nat
        /\ burst \in Nat /\ calm \in Nat /\ online \in Nat
    BY DEF Init
  <2> QED
    BY <2>1, <2>2, <2>3, <2>4, <2>5, <2>6 DEF Typed
<1>2. WatchOK /\ StaticOK /\ ProbesOK /\ XidOK /\ BurstOK /\ IntervalOK
  BY DEF Init, WatchOK, StaticOK, ProbesOK, XidOK, OfferCurrent, BurstOK, IntervalOK,
         Watching, Config
<1> QED
  BY <1>1, <1>2 DEF AddressInv

(* What Clear leaves, whatever the policy does next.                       *)
LEMMA ClearedOK ==
  ASSUME AddressInv, Clear, dhcpOffer' = FALSE, phase' \in Phases \ Watching,
         phase' # "Leased", timer' \in Nat, probes' \in 0 .. 2,
         UNCHANGED <<attempt, nextProbe, lastXid, wire, seen, online>>,
         window' \in 0 .. Closed, failed' \in Nat, burst' \in Nat, calm' \in Nat, BurstOK'
  PROVE  AddressInv'
<1>1. config' \in Configs
  BY ConfigFacts DEF Clear
<1>2. Typed'
  BY <1>1 DEF AddressInv, Typed, Clear, ClearProbe
<1>3. WatchOK' /\ StaticOK' /\ ProbesOK' /\ XidOK' /\ IntervalOK'
  BY DEF Clear, ClearProbe, StopDhcpProbe, Config, WatchOK, StaticOK, ProbesOK, XidOK,
         OfferCurrent, IntervalOK, Watching
<1> QED
  BY <1>2, <1>3 DEF AddressInv

LEMMA OfferTakenStep ==
  ASSUME AddressInv, OfferTaken, dhcpOffer' = FALSE
  PROVE  AddressInv'
<1>1. phase' = "StartDhcp" /\ timer' = 0 /\ probes' = 0 /\ burst' = 0
  BY DEF OfferTaken, Enter, EnterProbe, history, AddressInv, BurstOK
<1>2. BurstOK' /\ phase' \in Phases \ Watching
  BY <1>1 DEF BurstOK, Phases, Watching
<1>3. UNCHANGED <<attempt, nextProbe, lastXid, wire, seen, online>>
  BY DEF OfferTaken, addressing, history
<1>4. window' \in 0 .. Closed /\ failed' \in Nat /\ burst' \in Nat /\ calm' \in Nat
  BY <1>1, Constants DEF OfferTaken, history, AddressInv, Typed
<1>5. Clear
  BY DEF OfferTaken
<1>6. phase' # "Leased" /\ timer' \in Nat /\ probes' \in 0 .. 2
  BY <1>1
<1> QED
  BY <1>2, <1>3, <1>4, <1>5, <1>6, ClearedOK

LEMMA LinkLostStep ==
  ASSUME AddressInv, LinkLost, dhcpOffer' = FALSE
  PROVE  AddressInv'
<1>1. phase' = "Down" /\ timer' = 0 /\ probes' = 0 /\ burst' = 0 /\ calm' = 0
  BY DEF LinkLost, Enter, EnterProbe
<1>2. BurstOK' /\ phase' \in Phases \ Watching
  BY <1>1 DEF BurstOK, Phases, Watching
<1>3. UNCHANGED <<attempt, nextProbe, lastXid, wire, seen, online>>
  BY DEF LinkLost, addressing, probing
<1>4. window' \in 0 .. Closed /\ failed' \in Nat /\ burst' \in Nat /\ calm' \in Nat
  BY <1>1 DEF LinkLost, probing, migration, AddressInv, Typed
<1>5. Clear
  BY DEF LinkLost
<1>6. phase' # "Leased" /\ timer' \in Nat /\ probes' \in 0 .. 2
  BY <1>1
<1> QED
  BY <1>2, <1>3, <1>4, <1>5, <1>6, ClearedOK

LEMMA DhcpTimeoutStep ==
  ASSUME AddressInv, DhcpTimeout, dhcpOffer' = FALSE
  PROVE  AddressInv'
<1>1. phase' = "Choose" /\ timer' = 0 /\ probes' = 0 /\ burst' = 0
  BY DEF DhcpTimeout, Enter, EnterProbe, history, AddressInv, BurstOK
<1>2. Steps' >= 0
  BY NextAttempt DEF AddressInv, DhcpTimeout, addressing, Steps
<1>3. BurstOK' /\ phase' \in Phases \ Watching
  BY <1>1, <1>2 DEF BurstOK, Phases, Watching
<1>4. UNCHANGED <<attempt, nextProbe, lastXid, wire, seen, online>>
  BY DEF DhcpTimeout, addressing, probing, history
<1>5. failed' \in Nat
  BY AutoAddressAssumption DEF DhcpTimeout, AtMost, AddressInv, Typed
<1>6. window' \in 0 .. Closed /\ burst' \in Nat /\ calm' \in Nat
  BY DEF DhcpTimeout, probing, history, AddressInv, Typed
<1>7. Clear
  BY DEF DhcpTimeout
<1>8. phase' # "Leased" /\ timer' \in Nat /\ probes' \in 0 .. 2
  BY <1>1
<1> QED
  BY <1>3, <1>4, <1>5, <1>6, <1>7, <1>8, ClearedOK

LEMMA GiveUpStep ==
  ASSUME AddressInv, GiveUp, dhcpOffer' = FALSE
  PROVE  AddressInv'
<1>1. phase' = "StartDhcp" /\ timer' = 0 /\ probes' = 0 /\ burst' = 0
  BY DEF GiveUp, Enter, EnterProbe, history, AddressInv, BurstOK
<1>2. BurstOK' /\ phase' \in Phases \ Watching
  BY <1>1 DEF BurstOK, Phases, Watching
<1>3. UNCHANGED <<attempt, nextProbe, lastXid, wire, seen, online>>
  BY DEF GiveUp, addressing, probing, history
<1>4. window' \in 0 .. Closed /\ failed' \in Nat /\ burst' \in Nat /\ calm' \in Nat
  BY DEF GiveUp, probing, migration, history, AddressInv, Typed
<1>5. Clear
  BY DEF GiveUp
<1>6. phase' # "Leased" /\ timer' \in Nat /\ probes' \in 0 .. 2
  BY <1>1
<1> QED
  BY <1>2, <1>3, <1>4, <1>5, <1>6, ClearedOK

(* A candidate is given up.                                                *)
LEMMA RetryStep ==
  ASSUME AddressInv, Retry, dhcpOffer' = FALSE,
         phase \in {"ProbeDelay", "ProbeTx", "ClaimDelay"}
  PROVE  AddressInv'
<1>1. phase' = "Choose" /\ probes' = 0
  BY DEF Retry, Enter, EnterProbe
<1>2. timer' = IF Steps = 0 THEN RetryPause ELSE 0
  BY DEF Retry, Enter, EnterProbe, Steps
<1>3. burst' = burst /\ calm' = calm /\ Steps' = Steps
  BY DEF Retry, history, addressing, Steps
<1>4. burst <= Steps \/ (Steps = 0 /\ burst <= PauseEvery)
  BY DEF AddressInv, BurstOK
<1>5. Steps = 0 => timer' + calm' >= RetryPause
  BY <1>2, <1>3, Constants DEF AddressInv, Typed
<1>6. BurstOK' /\ phase' \in Phases \ Watching
  BY <1>1, <1>3, <1>4, <1>5 DEF BurstOK, Phases, Watching
<1>7. UNCHANGED <<attempt, nextProbe, lastXid, wire, seen, online>>
  BY DEF Retry, addressing, probing, history
<1>8. /\ window' \in 0 .. Closed /\ failed' \in Nat
      /\ burst' \in Nat /\ calm' \in Nat /\ timer' \in Nat
  BY <1>2, Constants DEF Retry, probing, migration, history, AddressInv, Typed
<1>9. Clear
  BY DEF Retry
<1>10. phase' # "Leased" /\ timer' \in Nat /\ probes' \in 0 .. 2
  BY <1>1, <1>8
<1> QED
  BY <1>6, <1>7, <1>8, <1>9, <1>10, ClearedOK

LEMMA StartDhcpStep ==
  ASSUME AddressInv, StartDhcp, dhcpOffer' = FALSE
  PROVE  AddressInv'
<1>1. phase' = "Dhcp" /\ timer' = DhcpTime /\ probes' = 0
  BY DEF StartDhcp, Enter, EnterProbe
<1>2. burst' = 0
  BY DEF StartDhcp, history, AddressInv, BurstOK
<1>3. Typed'
  <2>1. config' \in Configs
    BY ConfigFacts DEF StartDhcp
  <2>2. /\ phase' \in Phases /\ timer' \in Nat
        /\ probes' \in 0 .. 2 /\ window' \in 0 .. Closed
    BY <1>1, Constants DEF Phases, StartDhcp
  <2>3. candidate' = NoIp /\ command' = "none" /\ conflict' = FALSE
    BY DEF StartDhcp, ClearProbe
  <2>4. UNCHANGED <<attempt, nextProbe, failed, lastXid, wire, seen, burst, calm, online>>
    BY DEF StartDhcp, addressing, migration, history
  <2> QED
    BY <2>1, <2>2, <2>3, <2>4 DEF AddressInv, Typed
<1>4. WatchOK' /\ StaticOK' /\ ProbesOK' /\ XidOK' /\ BurstOK' /\ IntervalOK'
  BY <1>1, <1>2
  DEF StartDhcp, ClearProbe, StopDhcpProbe, Config, WatchOK, StaticOK, ProbesOK, XidOK,
      OfferCurrent, BurstOK, IntervalOK, Watching
<1> QED
  BY <1>3, <1>4 DEF AddressInv

LEMMA DhcpLeasedStep ==
  ASSUME AddressInv, DhcpLeased, dhcpOffer' = FALSE
  PROVE  AddressInv'
  BY DEF DhcpLeased, EnterProbe, Enter, configured, AddressInv, Typed, WatchOK, StaticOK,
         ProbesOK, XidOK, OfferCurrent, BurstOK, IntervalOK, Watching, Phases,
         addressing, probing, arp, dhcp, history

(* The next candidate is one more in a row, unless the long pause was made.*)
LEMMA ChooseStep ==
  ASSUME AddressInv, Choose, dhcpOffer' = FALSE
  PROVE  AddressInv'
<1>1. phase' = "ProbeDelay" /\ timer' = 0 /\ probes' = 0 /\ phase = "Choose" /\ timer = 0
  BY DEF Choose, Enter, EnterProbe
<1>2. attempt' \in Ips /\ Steps' \in {0, Steps + 1} /\ Steps \in 0 .. PauseEvery - 1
  BY NextAttempt DEF AddressInv, Choose, Steps
<1>3. Typed'
  <2>1. burst' \in Nat /\ calm' \in Nat
    BY DEF Choose, AddressInv, Typed
  <2>2. phase' \in Phases /\ timer' \in Nat /\ probes' \in 0 .. 2
    BY <1>1 DEF Phases
  <2>3. candidate' \in Ips /\ conflict' = FALSE /\ seen' = FALSE /\ wire' = 0
    BY DEF Choose, AddressInv, Typed
  <2>4. UNCHANGED <<nextProbe, window, failed, command, config, lastXid, online>>
    BY DEF Choose, probing, migration
  <2>5. attempt' \in Ips
    BY <1>2
  <2>6. Typed
    BY DEF AddressInv
  <2>7. candidate' \in Ips \cup {NoIp} /\ conflict' \in BOOLEAN /\ seen' \in BOOLEAN
    BY <2>3
  <2>8. /\ nextProbe' \in Int /\ window' \in 0 .. Closed /\ failed' \in Nat
    BY <2>4, <2>6 DEF Typed
  <2>9. /\ command' \in {"none", "probe", "announce"} /\ config' \in Configs
        /\ lastXid' \in {1, 2} /\ online' \in Nat /\ wire' \in 0 .. 3
    BY <2>3, <2>4, <2>6 DEF Typed
  <2> QED
    BY <2>1, <2>2, <2>5, <2>7, <2>8, <2>9 DEF Typed
<1>4. BurstOK'
  <2>1. CASE calm >= RetryPause
    <3>1. burst' = 1
      BY <2>1 DEF Choose
    <3> QED
      BY <1>1, <1>2, <3>1, Constants DEF BurstOK
  <2>2. CASE ~(calm >= RetryPause)
    <3>1. burst' = burst + 1
      BY <2>2 DEF Choose
    <3>2. burst <= Steps
      BY <1>1, <2>2, Constants DEF AddressInv, Typed, BurstOK
    <3> QED
      BY <1>1, <1>2, <3>1, <3>2, Constants DEF BurstOK, AddressInv, Typed
  <2> QED
    BY <2>1, <2>2
<1>5. WatchOK' /\ IntervalOK'
  BY <1>1 DEF Choose, WatchOK, IntervalOK
<1>6. StaticOK' /\ ProbesOK'
  BY <1>1 DEF Choose, AddressInv, StaticOK, ProbesOK
<1>7. XidOK'
  BY <1>1 DEF Choose, XidOK, OfferCurrent, AddressInv, dhcp
<1> QED
  BY <1>3, <1>4, <1>5, <1>6, <1>7 DEF AddressInv

LEMMA ProbeStep ==
  ASSUME AddressInv, Probe, dhcpOffer' = FALSE
  PROVE  AddressInv'
  BY Constants
  DEF Probe, EnterProbe, AddressInv, Typed, WatchOK, StaticOK, ProbesOK, XidOK,
      OfferCurrent, BurstOK, IntervalOK, Watching, Phases, Steps, pending, addressing,
      probing, migration, dhcp, history

LEMMA ProbeSentStep ==
  ASSUME AddressInv, ProbeSent, dhcpOffer' = FALSE
  PROVE  AddressInv'
  BY Constants
  DEF ProbeSent, EnterProbe, Enter, AddressInv, Typed, WatchOK, StaticOK, ProbesOK,
      XidOK, OfferCurrent, BurstOK, IntervalOK, Watching, Phases, Steps, pending,
      addressing, probing, migration, arp, dhcp, history

LEMMA ClaimStep ==
  ASSUME AddressInv, Claim, dhcpOffer' = FALSE
  PROVE  AddressInv'
<1>1. phase' = "Fallback" /\ timer' = 0 /\ probes' = 0 /\ phase = "ClaimDelay"
  BY DEF Claim, Enter, EnterProbe
<1>2. candidate = address /\ seen = conflict
  BY <1>1 DEF AddressInv, WatchOK, Watching
<1>3. config' = Config("static", address) /\ config' \in Configs
  BY <1>2, ConfigFacts DEF Claim, AddressInv, Typed
<1>4. /\ nextProbe' = Interval' /\ Interval \in Int
      /\ window' = Closed /\ burst' = 0 /\ online' = 0
  BY IntervalIsInt DEF Claim, migration, AddressInv
<1>5. Typed'
  <2>1. phase' \in Phases /\ timer' \in Nat /\ probes' \in 0 .. 2
    BY <1>1 DEF Phases
  <2>2. nextProbe' \in Int /\ window' \in 0 .. Closed /\ burst' \in Nat /\ online' \in Nat
    BY <1>4, Constants, IntervalIsInt DEF Claim, migration
  <2>3. UNCHANGED <<attempt, candidate, command, conflict, seen, lastXid, wire, failed,
                    calm>>
    BY DEF Claim, addressing, migration, arp
  <2> QED
    BY <1>3, <2>1, <2>2, <2>3 DEF AddressInv, Typed
<1>6. WatchOK' /\ StaticOK' /\ ProbesOK' /\ BurstOK'
  BY <1>1, <1>2, <1>3, <1>4
  DEF Claim, Config, WatchOK, StaticOK, ProbesOK, BurstOK, addressing, arp
<1>7. XidOK'
  BY <1>1 DEF Claim, XidOK, OfferCurrent, AddressInv, dhcp
<1>8. IntervalOK'
  <2>1. Interval' = Interval
    BY IntervalIsInt DEF Claim, migration
  <2>2. nextProbe' + online' >= Interval'
    BY <1>4, <2>1
  <2> QED
    BY <1>4, <2>2 DEF IntervalOK
<1> QED
  BY <1>5, <1>6, <1>7, <1>8 DEF AddressInv

LEMMA AnnounceStep ==
  ASSUME AddressInv, Announce, dhcpOffer' = FALSE
  PROVE  AddressInv'
  BY Constants, IntervalIsInt
  DEF Announce, FallbackHolds, AddressInv, Typed, WatchOK, StaticOK, ProbesOK,
      XidOK, OfferCurrent, BurstOK, IntervalOK, addressing, probing, migration, dhcp,
      history

LEMMA EndDhcpProbeStep ==
  ASSUME AddressInv, EndDhcpProbe, dhcpOffer' = FALSE
  PROVE  AddressInv'
  BY Constants, IntervalIsInt
  DEF EndDhcpProbe, FallbackHolds, StopDhcpProbe, AddressInv, Typed, WatchOK, StaticOK,
      ProbesOK, XidOK, OfferCurrent, BurstOK, IntervalOK, addressing, migration, arp,
      history

(* The window opens when the time to the next probe has passed.            *)
LEMMA DhcpProbeStep ==
  ASSUME AddressInv, DhcpProbe, dhcpOffer' = FALSE
  PROVE  AddressInv'
  BY Constants, IntervalIsInt
  DEF DhcpProbe, FallbackHolds, DhcpProbeDue, AddressInv, Typed, WatchOK, StaticOK,
      ProbesOK, XidOK, OfferCurrent, BurstOK, IntervalOK, addressing, migration, arp,
      history

LEMMA UnchangedStep ==
  ASSUME AddressInv, dhcpOffer' \in {FALSE, dhcpOffer},
         UNCHANGED <<phase, timer, probes, addressing, probing, migration, arp, dhcp,
                     config, lastXid, history>>
  PROVE  AddressInv'
<1>1. UNCHANGED <<phase, timer, probes, attempt, address, nextProbe, window, failed>>
  BY DEF addressing, probing, migration
<1>2. UNCHANGED <<candidate, command, conflict, xid, dhcpPending>>
  BY DEF arp, dhcp
<1>3. UNCHANGED <<config, lastXid, wire, seen, burst, calm, online>>
  BY DEF history
<1>4. Typed' /\ WatchOK' /\ StaticOK' /\ ProbesOK'
  BY <1>1, <1>2, <1>3
  DEF AddressInv, Typed, WatchOK, StaticOK, ProbesOK, pending
<1>5. XidOK'
  <2>1. CASE dhcpOffer' = FALSE
    BY <1>1, <1>2, <1>3, <2>1 DEF AddressInv, XidOK, OfferCurrent
  <2>2. CASE dhcpOffer' = dhcpOffer
    BY <1>1, <1>2, <1>3, <2>2 DEF AddressInv, XidOK, OfferCurrent
  <2> QED
    BY <2>1, <2>2
<1>6. BurstOK'
  BY <1>1, <1>3 DEF AddressInv, BurstOK, Steps
<1>7. IntervalOK'
  <2>1. Interval' = Interval
    BY <1>1, IntervalIsInt
  <2> QED
    BY <1>1, <1>3, <2>1 DEF AddressInv, IntervalOK
<1> QED
  BY <1>4, <1>5, <1>6, <1>7 DEF AddressInv

LEMMA ServiceStep ==
  ASSUME AddressInv, Service
  PROVE  AddressInv'
<1>1. UNCHANGED <<phase, timer, probes, attempt, address, nextProbe, window, failed>>
  BY DEF Service, addressing, probing, migration
<1>2. UNCHANGED <<candidate, conflict, xid, dhcpOffer>>
  BY DEF Service
<1>3. UNCHANGED <<config, lastXid, seen, burst, calm, online>>
  BY DEF Service
<1>4. \/ command' = "none" /\ UNCHANGED dhcpPending
         /\ wire' = IF command = "probe" THEN AtMost(wire + 1, 3) ELSE wire
      \/ dhcpPending' = FALSE /\ UNCHANGED <<command, wire>>
  BY DEF Service
<1>5. Typed' /\ ProbesOK'
  BY <1>1, <1>2, <1>3, <1>4 DEF AddressInv, Typed, ProbesOK, pending, AtMost
<1>6. WatchOK' /\ StaticOK'
  BY <1>1, <1>2, <1>3 DEF AddressInv, WatchOK, StaticOK
<1>7. XidOK'
  BY <1>1, <1>2, <1>3, <1>4 DEF AddressInv, XidOK, OfferCurrent
<1>8. BurstOK'
  BY <1>1, <1>3 DEF AddressInv, BurstOK, Steps
<1>9. IntervalOK'
  <2>1. Interval' = Interval
    BY <1>1, IntervalIsInt
  <2> QED
    BY <1>1, <1>3, <2>1 DEF AddressInv, IntervalOK
<1> QED
  BY <1>5, <1>6, <1>7, <1>8, <1>9 DEF AddressInv

(* A unit of time passes: what a deadline loses, the time that was waited  *)
(* gains.                                                                  *)
LEMMA ElapseStep ==
  ASSUME AddressInv, Elapse
  PROVE  AddressInv'
<1>1. UNCHANGED <<phase, probes, attempt, address, failed, wire, seen, burst>>
  BY DEF Elapse, addressing, migration
<1>2. UNCHANGED <<candidate, command, conflict, xid, dhcpPending, dhcpOffer, config,
                  lastXid>>
  BY DEF Elapse, arp, dhcp, network
<1>3. timer' = Less(timer) /\ window' = (IF window = Closed THEN Closed ELSE Less(window))
  BY DEF Elapse
<1>4. /\ calm' = IF phase = "Choose" THEN AtMost(calm + 1, RetryPause) ELSE calm
      /\ online' = IF phase = "Fallback" /\ online < Interval THEN online + 1 ELSE online
      /\ nextProbe' = IF phase = "Fallback" THEN Less(nextProbe) ELSE nextProbe
  BY DEF Elapse
<1>5. Typed'
  <2>1. timer' \in Nat /\ window' \in 0 .. Closed /\ nextProbe' \in Int
    BY <1>3, <1>4, Constants DEF AddressInv, Typed, Less
  <2>2. calm' \in Nat /\ online' \in Nat
    BY <1>4, Constants DEF AddressInv, Typed, AtMost
  <2> QED
    BY <1>1, <1>2, <2>1, <2>2 DEF AddressInv, Typed
<1>6. WatchOK' /\ StaticOK'
  BY <1>1, <1>2 DEF AddressInv, WatchOK, StaticOK
<1>7. ProbesOK'
  BY <1>1, <1>2 DEF AddressInv, ProbesOK, pending
<1>8. window # Closed => window' # Closed
  <2>1. CASE window = Closed
    BY <2>1
  <2>2. CASE window # Closed
    BY <1>3, <2>2, Constants DEF AddressInv, Typed, Less
  <2> QED
    BY <2>1, <2>2
<1>9. XidOK'
  BY <1>1, <1>2, <1>8 DEF AddressInv, XidOK, OfferCurrent
<1>10. BurstOK'
  <2>1. Steps' = Steps
    BY <1>1 DEF Steps
  <2>2. phase = "Choose" /\ timer + calm >= RetryPause => timer' + calm' >= RetryPause
    BY <1>3, <1>4, Constants DEF AddressInv, Typed, Less, AtMost
  <2> QED
    BY <1>1, <2>1, <2>2 DEF AddressInv, BurstOK
<1>11. IntervalOK'
  <2>1. Interval' = Interval /\ Interval \in Int
    BY <1>1, IntervalIsInt DEF AddressInv
  <2>2. phase = "Fallback" => nextProbe' + online' >= Interval
    BY <1>4, <2>1 DEF AddressInv, Typed, IntervalOK, Less
  <2>3. phase = "Fallback" /\ window' # Closed => online' >= Interval
    BY <1>3, <1>4, <2>1 DEF AddressInv, Typed, IntervalOK
  <2> QED
    BY <1>1, <2>1, <2>2, <2>3 DEF IntervalOK
<1> QED
  BY <1>5, <1>6, <1>7, <1>9, <1>10, <1>11 DEF AddressInv

(* The environment: a conflict is seen by the driver and the policy's flag *)
(* at once.                                                                *)
LEMMA ConflictStep ==
  ASSUME AddressInv, NEW ip \in Ips, InspectArp(ip)
  PROVE  AddressInv'
<1>1. UNCHANGED <<phase, timer, probes, attempt, address, nextProbe, window, failed>>
  BY DEF InspectArp, addressing, probing, migration
<1>2. UNCHANGED <<candidate, command, xid, dhcpPending, dhcpOffer>>
  BY DEF InspectArp, dhcp
<1>3. UNCHANGED <<config, lastXid, wire, burst, calm, online>>
  BY DEF InspectArp, network
<1>4. conflict' = TRUE /\ seen' = TRUE
  BY DEF InspectArp
<1>5. Typed' /\ WatchOK' /\ StaticOK' /\ ProbesOK'
  BY <1>1, <1>2, <1>3, <1>4
  DEF AddressInv, Typed, WatchOK, StaticOK, ProbesOK, pending
<1>6. XidOK'
  BY <1>1, <1>2, <1>3 DEF AddressInv, XidOK, OfferCurrent
<1>7. BurstOK'
  BY <1>1, <1>3 DEF AddressInv, BurstOK, Steps
<1>8. IntervalOK'
  <2>1. Interval' = Interval
    BY <1>1, IntervalIsInt
  <2> QED
    BY <1>1, <1>3, <2>1 DEF AddressInv, IntervalOK
<1> QED
  BY <1>5, <1>6, <1>7, <1>8 DEF AddressInv

(* An offer in time is one for the transaction whose window is open.       *)
LEMMA OfferStep ==
  ASSUME AddressInv, NEW x \in {1, 2}, InspectOffer(x)
  PROVE  AddressInv'
<1>1. UNCHANGED <<phase, timer, probes, attempt, address, nextProbe, window, failed>>
  BY DEF InspectOffer, addressing, probing, migration
<1>2. UNCHANGED <<candidate, command, conflict, xid, dhcpPending>>
  BY DEF InspectOffer, arp, dhcp
<1>3. UNCHANGED <<config, lastXid, wire, seen, burst, calm, online>>
  BY DEF InspectOffer, history
<1>4. dhcpOffer' = (dhcpOffer \/ (x = xid /\ ~dhcpPending))
  BY DEF InspectOffer
<1>5. Typed' /\ WatchOK' /\ StaticOK' /\ ProbesOK'
  BY <1>1, <1>2, <1>3
  DEF AddressInv, Typed, WatchOK, StaticOK, ProbesOK, pending
<1>6. XidOK'
  <2>1. xid # 0 => phase = "Fallback" /\ xid = lastXid /\ window # Closed
    BY DEF AddressInv, XidOK
  <2>2. dhcpOffer' => dhcpOffer \/ (xid # 0 /\ ~dhcpPending)
    <3>1. x # 0
      OBVIOUS
    <3> QED
      BY <1>4, <3>1, Zenon
  <2>3. dhcpOffer' => xid = lastXid /\ ~dhcpPending /\ window # Closed
    BY <2>1, <2>2 DEF AddressInv, XidOK, OfferCurrent
  <2> QED
    BY <1>1, <1>2, <1>3, <2>1, <2>3 DEF XidOK, OfferCurrent
<1>7. BurstOK'
  BY <1>1, <1>3 DEF AddressInv, BurstOK, Steps
<1>8. IntervalOK'
  <2>1. Interval' = Interval
    BY <1>1, IntervalIsInt
  <2> QED
    BY <1>1, <1>3, <2>1 DEF AddressInv, IntervalOK
<1> QED
  BY <1>5, <1>6, <1>7, <1>8 DEF AddressInv

LEMMA LeaseStep ==
  ASSUME AddressInv, Lease
  PROVE  AddressInv'
<1>1. UNCHANGED <<phase, timer, probes, attempt, address, nextProbe, window, failed>>
  BY DEF Lease, internals, addressing, probing, migration
<1>2. UNCHANGED <<candidate, command, conflict, xid, dhcpPending, dhcpOffer>>
  BY DEF Lease, internals, arp, dhcp
<1>3. UNCHANGED <<lastXid, wire, seen, burst, calm, online>>
  BY DEF Lease, internals, network, history
<1>4. config' \in Configs /\ config'.kind # "static"
  BY ConfigFacts DEF Lease, Config
<1>5. Typed' /\ WatchOK' /\ StaticOK' /\ ProbesOK'
  BY <1>1, <1>2, <1>3, <1>4
  DEF AddressInv, Typed, WatchOK, StaticOK, ProbesOK, pending
<1>6. XidOK'
  BY <1>1, <1>2, <1>3 DEF AddressInv, XidOK, OfferCurrent
<1>7. BurstOK'
  BY <1>1, <1>3 DEF AddressInv, BurstOK, Steps
<1>8. IntervalOK'
  <2>1. Interval' = Interval
    BY <1>1, IntervalIsInt
  <2> QED
    BY <1>1, <1>3, <2>1 DEF AddressInv, IntervalOK
<1> QED
  BY <1>5, <1>6, <1>7, <1>8 DEF AddressInv

LEMMA PolicyStep ==
  ASSUME AddressInv, PolicyTick, dhcpOffer' = FALSE
  PROVE  AddressInv'
<1>1. CASE LinkLost
  BY <1>1, LinkLostStep
<1>2. CASE StartDhcp
  BY <1>2, StartDhcpStep
<1>3. CASE DhcpLeased
  BY <1>3, DhcpLeasedStep
<1>4. CASE DhcpTimeout
  BY <1>4, DhcpTimeoutStep
<1>5. CASE Choose
  BY <1>5, ChooseStep
<1>6. CASE ProbeConflict
  BY <1>6, RetryStep DEF ProbeConflict
<1>7. CASE Probe
  BY <1>7, ProbeStep
<1>8. CASE ProbeSent
  BY <1>8, ProbeSentStep
<1>9. CASE ProbeUnsent
  BY <1>9, RetryStep DEF ProbeUnsent
<1>10. CASE Claim
  BY <1>10, ClaimStep
<1>11. CASE GiveUp
  BY <1>11, GiveUpStep
<1>12. CASE Announce
  BY <1>12, AnnounceStep
<1>13. CASE EndDhcpProbe
  BY <1>13, EndDhcpProbeStep
<1>14. CASE DhcpProbe
  BY <1>14, DhcpProbeStep
<1>15. CASE FallbackWaits
  BY <1>15, UnchangedStep DEF FallbackWaits
<1>16. CASE Waits
  BY <1>16, UnchangedStep DEF Waits
<1> QED
  BY <1>1, <1>2, <1>3, <1>4, <1>5, <1>6, <1>7, <1>8, <1>9, <1>10, <1>11, <1>12, <1>13,
     <1>14, <1>15, <1>16 DEF PolicyTick

LEMMA AddressStep ==
  ASSUME AddressInv, [Next]_vars
  PROVE  AddressInv'
<1>1. CASE Tick
  <2>1. dhcpOffer' = FALSE /\ (OfferTaken \/ PolicyTick)
    BY <1>1 DEF Tick
  <2> QED
    BY <2>1, OfferTakenStep, PolicyStep
<1>2. CASE Elapse
  BY <1>2, ElapseStep
<1>3. CASE Service
  BY <1>3, ServiceStep
<1>4. CASE \E ip \in Ips : InspectArp(ip)
  BY <1>4, ConflictStep
<1>5. CASE \E x \in {1, 2} : InspectOffer(x)
  BY <1>5, OfferStep
<1>6. CASE Lease
  BY <1>6, LeaseStep
<1>7. CASE LinkChange \/ TxChange \/ SessionChange
  <2>1. UNCHANGED internals /\ config' = config
    BY <1>7 DEF LinkChange, TxChange, SessionChange
  <2>2. dhcpOffer' = dhcpOffer /\ lastXid' = lastXid
    BY <2>1 DEF internals, network
  <2>3. UNCHANGED <<phase, timer, probes, addressing, probing, migration, arp, dhcp,
                    history>>
    BY <2>1 DEF internals
  <2> QED
    BY <2>1, <2>2, <2>3, UnchangedStep
<1>8. CASE UNCHANGED vars
  <2>1. UNCHANGED <<phase, timer, probes, addressing, probing, migration, arp, dhcp,
                    dhcpOffer, config, network, history>>
    BY <1>8 DEF vars
  <2>2. lastXid' = lastXid
    BY <2>1 DEF network
  <2> QED
    BY <2>1, <2>2, UnchangedStep
<1> QED
  BY <1>1, <1>2, <1>3, <1>4, <1>5, <1>6, <1>7, <1>8 DEF Next, Environment

LEMMA AddressSafe == Spec => []AddressInv
<1>1. Init => AddressInv
  BY InitAddress
<1>2. AddressInv /\ [Next]_vars => AddressInv'
  BY AddressStep
<1> QED
  BY <1>1, <1>2, PTL DEF Spec

-----------------------------------------------------------------------------
(* The theorems.                                                           *)

(***************************************************************************)
(* AlwaysDefended: in every execution a link-local address in use is the   *)
(* one the driver watches, and a conflict it received is still flagged.    *)
(***************************************************************************)
THEOREM AlwaysDefended == Spec => []Defended
<1>1. AddressInv => Defended
  BY DEF AddressInv, Typed, WatchOK, StaticOK, Watching, Defended
<1> QED
  BY <1>1, AddressSafe, PTL

(***************************************************************************)
(* OffersCurrent: an offer is flagged only for the DISCOVER sent last, and *)
(* only while its window is open, however late offers arrive.              *)
(***************************************************************************)
THEOREM OffersCurrent == Spec => []OfferCurrent
<1>1. AddressInv => OfferCurrent
  BY DEF AddressInv, XidOK
<1> QED
  BY <1>1, AddressSafe, PTL

(***************************************************************************)
(* CandidatesLimited: whatever the conflicts and missing transmissions, no *)
(* more than PauseEvery candidates fail in a row without the long pause,   *)
(* also across the wrap of the attempt counter.                            *)
(***************************************************************************)
THEOREM CandidatesLimited == Spec => []RateLimited
<1>1. AddressInv => RateLimited
  BY NextAttempt, Constants DEF AddressInv, Typed, Phases, BurstOK, RateLimited
<1> QED
  BY <1>1, AddressSafe, PTL

(***************************************************************************)
(* ClaimsProbed: an address is claimed only after three probes for it left *)
(* the driver and while no conflict with it was received.                  *)
(***************************************************************************)
THEOREM ClaimsProbed == Spec => ClaimProbed
<1> DEFINE Probed == config.kind # "static" /\ config'.kind = "static" =>
                       wire = 3 /\ ~seen /\ config'.ip = candidate
<1>1. AddressInv /\ [Next]_vars => [Probed]_vars
  <2> SUFFICES ASSUME AddressInv, [Next]_vars, config.kind # "static",
                      config'.kind = "static"
               PROVE  wire = 3 /\ ~seen /\ config'.ip = candidate
    OBVIOUS
  <2>1. CASE Tick
    <3>1. CASE OfferTaken
      BY <3>1 DEF OfferTaken, Clear, Config
    <3>2. CASE LinkLost \/ DhcpTimeout \/ GiveUp
      BY <3>2 DEF LinkLost, DhcpTimeout, GiveUp, Clear, Config
    <3>3. CASE ProbeConflict \/ ProbeUnsent
      BY <3>3 DEF ProbeConflict, ProbeUnsent, Retry, Clear, Config
    <3>4. CASE StartDhcp
      BY <3>4 DEF StartDhcp, Config
    <3>5. CASE DhcpLeased \/ Choose \/ Probe \/ ProbeSent \/ Announce
      BY <3>5 DEF DhcpLeased, Choose, Probe, ProbeSent, Announce
    <3>6. CASE EndDhcpProbe \/ DhcpProbe \/ FallbackWaits \/ Waits
      BY <3>6 DEF EndDhcpProbe, DhcpProbe, FallbackWaits, Waits
    <3>7. CASE Claim
      BY <3>7 DEF Claim, AddressInv, Typed, WatchOK, ProbesOK, Watching, Config
    <3> QED
      BY <2>1, <3>1, <3>2, <3>3, <3>4, <3>5, <3>6, <3>7 DEF Tick, PolicyTick
  <2>2. CASE Lease
    BY <2>2 DEF Lease, Config
  <2>3. CASE Elapse \/ Service
    BY <2>3 DEF Elapse, Service
  <2>4. CASE (\E ip \in Ips : InspectArp(ip)) \/ (\E x \in {1, 2} : InspectOffer(x))
    BY <2>4 DEF InspectArp, InspectOffer
  <2>5. CASE LinkChange \/ TxChange \/ SessionChange \/ UNCHANGED vars
    BY <2>5 DEF LinkChange, TxChange, SessionChange, vars
  <2> QED
    BY <2>1, <2>2, <2>3, <2>4, <2>5 DEF Next, Environment
<1> QED
  BY <1>1, AddressSafe, PTL DEF Spec, ClaimProbed

(***************************************************************************)
(* HealthyAddressKept: a fallback address with a link, no conflict and a   *)
(* session is given up only for an offer in its window, after it lasted    *)
(* the probe interval of its failed migrations.                            *)
(***************************************************************************)
THEOREM HealthyAddressKept == Spec => HealthyKept
<1> DEFINE Kept == config.kind = "static" /\ config'.kind # "static" =>
                     \/ ~link \/ seen \/ (~connected /\ idle = 0)
                     \/ dhcpOffer /\ window > 0 /\ online >= Interval
<1>1. AddressInv /\ [Next]_vars => [Kept]_vars
  <2> SUFFICES ASSUME AddressInv, [Next]_vars, config.kind = "static",
                      config'.kind # "static"
               PROVE  \/ ~link \/ seen \/ (~connected /\ idle = 0)
                      \/ dhcpOffer /\ window > 0 /\ online >= Interval
    OBVIOUS
  <2>1. phase = "Fallback"
    BY DEF AddressInv, StaticOK
  <2>2. CASE Tick
    <3>1. CASE OfferTaken
      <4>1. dhcpOffer /\ window \notin {0, Closed}
        BY <3>1 DEF OfferTaken
      <4>2. window > 0
        BY <4>1 DEF AddressInv, Typed
      <4>3. online >= Interval
        BY <2>1, <4>1 DEF AddressInv, IntervalOK
      <4> QED
        BY <4>1, <4>2, <4>3
    <3>2. CASE LinkLost
      BY <3>2 DEF LinkLost
    <3>3. CASE GiveUp
      BY <2>1, <3>3 DEF GiveUp, configured, AddressInv, Typed, WatchOK, Watching
    <3>4. CASE StartDhcp \/ DhcpLeased \/ DhcpTimeout \/ Choose
      BY <2>1, <3>4 DEF StartDhcp, DhcpLeased, DhcpTimeout, Choose
    <3>5. CASE ProbeConflict \/ Probe \/ ProbeSent \/ ProbeUnsent \/ Claim
      BY <2>1, <3>5 DEF ProbeConflict, Probe, ProbeSent, ProbeUnsent, Claim
    <3>6. CASE Announce \/ EndDhcpProbe \/ DhcpProbe \/ FallbackWaits \/ Waits
      BY <3>6 DEF Announce, EndDhcpProbe, DhcpProbe, FallbackWaits, Waits
    <3> QED
      BY <2>2, <3>1, <3>2, <3>3, <3>4, <3>5, <3>6 DEF Tick, PolicyTick
  <2>3. CASE Lease
    BY <2>3 DEF Lease
  <2>4. CASE Elapse \/ Service
    BY <2>4 DEF Elapse, Service
  <2>5. CASE (\E ip \in Ips : InspectArp(ip)) \/ (\E x \in {1, 2} : InspectOffer(x))
    BY <2>5 DEF InspectArp, InspectOffer
  <2>6. CASE LinkChange \/ TxChange \/ SessionChange \/ UNCHANGED vars
    BY <2>6 DEF LinkChange, TxChange, SessionChange, vars
  <2> QED
    BY <2>2, <2>3, <2>4, <2>5, <2>6 DEF Next, Environment
<1> QED
  BY <1>1, AddressSafe, PTL DEF Spec, HealthyKept
=============================================================================
