---------------------------- MODULE AutoAddress ----------------------------
(***************************************************************************)
(* Automatic IPv4 addressing: the policy of protocol/auto_address.rs, the  *)
(* task of net.rs that polls it every 20 ms and carries out its actions,   *)
(* and the driver wrapper of arp_guard.rs that sends the probes and looks  *)
(* at every received frame.  The three share the ProbeState flags and the  *)
(* stack's configuration; link, DHCP servers, other hosts and the bridge's *)
(* TCP session are the environment.                                        *)
(*                                                                         *)
(* All of it runs on core 0's cooperative executor: one poll of the task,  *)
(* one service of the driver and one received frame are one step each.     *)
(* Deadlines are the time left, in units far longer than 20 ms: the task   *)
(* polls at least once in every unit, and the network runner, which        *)
(* request() wakes, transmits before the next poll if the driver can.      *)
(***************************************************************************)
EXTENDS Naturals

CONSTANTS
  DhcpTime,      (* 10 s: how long DHCP may take                           *)
  TxTime,        (* 2 s: how long a probe may wait for the driver          *)
  ProbeGap,      (* 1 s: between two probes                                *)
  ClaimTime,     (* 3 s: after the last probe                              *)
  AnnounceGap,   (* 2 s: between the announcements                         *)
  IdleTime,      (* 60 s: a fallback address without a session             *)
  ProbeInterval, (* 15 s: between two DHCP probes                          *)
  ProbeWindow,   (* 4 s: how long a DHCP probe may be answered             *)
  RetryPause,    (* 60 s: the pause after PauseEvery candidates            *)
  PauseEvery,    (* 10                                                     *)
  MaxShift,      (* 4: the probe interval doubles at most so often         *)
  Cycle          (* 2^32: candidates before the attempt counter wraps      *)

ASSUME AutoAddressAssumption ==
  /\ {DhcpTime, TxTime, ProbeGap, ClaimTime, AnnounceGap, IdleTime, ProbeInterval,
      ProbeWindow, RetryPause, PauseEvery, Cycle} \subseteq Nat \ {0}
  /\ MaxShift \in Nat
  /\ PauseEvery <= Cycle
  /\ ProbeWindow < ProbeInterval /\ ProbeInterval < IdleTime

VARIABLES
  phase,      (* the policy's Phase; Online is Leased or Fallback          *)
  timer,      (* time left to the phase's deadline, or to the announcement *)
  probes,     (* ARP probes sent for the candidate                         *)
  idle,       (* time left until a session-less fallback is given up       *)
  announce,   (* announcements still to be made                            *)
  attempt,    (* the next candidate's number                               *)
  address,    (* the candidate, or the address claimed                     *)
  nextProbe,  (* time left to the next DHCP probe                          *)
  window,     (* time left to answer the DHCP probe, or Closed             *)
  migrating,  (* an offer, not a failure, made the policy leave fallback   *)
  failed,     (* failed migrations, as far as they count                   *)
  candidate,  (* ProbeState: the address the driver watches, or NoIp       *)
  command,    (* ProbeState: what the driver is asked to send              *)
  conflict,   (* ProbeState: another host uses or probes the candidate     *)
  xid,        (* ProbeState: the DHCP probe's transaction, 0 for none      *)
  dhcpPending,(* ProbeState: the DISCOVER is still to be sent              *)
  dhcpOffer,  (* ProbeState: a valid offer was received                    *)
  config,     (* the stack's IPv4 configuration                            *)
  link, connected, txReady, (* what the policy and the driver find         *)
  offers,     (* transactions whose offers are on the wire                 *)
  lastXid,    (* the transaction of the last DISCOVER                      *)
  ticked,     (* the task was polled in this unit of time                  *)
  wire,       (* history: probes for the candidate that left the driver    *)
  seen,       (* history: a conflict with the candidate was received       *)
  burst,      (* history: candidates tried since the last long pause       *)
  calm,       (* history: time spent waiting for the next candidate        *)
  online      (* history: time since the claim, up to the probe interval   *)

addressing == <<attempt, address>>
probing == <<nextProbe, window>>
migration == <<migrating, failed>>
fallback == <<idle, announce>>
arp == <<candidate, command, conflict>>
dhcp == <<xid, dhcpPending>>
outside == <<link, connected, txReady>>
network == <<offers, lastXid>>
history == <<wire, seen, burst, calm, online>>
vars == <<phase, timer, probes, fallback, addressing, probing, migration, arp, dhcp,
          dhcpOffer, config, outside, network, ticked, history>>

Phases == {"Down", "StartDhcp", "Dhcp", "Choose", "ProbeDelay", "ProbeTx",
           "ClaimDelay", "Leased", "Fallback"}

Ips == 0 .. Cycle - 1
NoIp == Cycle
Closed == ProbeInterval   (* no window is that long *)

Config(kind, ip) == [kind |-> kind, ip |-> ip]
configured == config.kind \in {"lease", "static"}
pending == command # "none"

AtMost(n, m) == IF n < m THEN n ELSE m
Less(n) == IF n > 0 THEN n - 1 ELSE 0

(* probe_interval, without the jitter.                                     *)
Interval == ProbeInterval * 2 ^ AtMost(failed, MaxShift)

-----------------------------------------------------------------------------
(* ProbeState.                                                             *)

(* The transaction stays open.                                             *)
StopDhcpProbeFault == xid' = xid /\ dhcpPending' = FALSE /\ dhcpOffer' = FALSE

StopDhcpProbe == xid' = 0 /\ dhcpPending' = FALSE /\ dhcpOffer' = FALSE

ClearProbe ==
  /\ StopDhcpProbe
  /\ command' = "none"
  /\ candidate' = NoIp
  /\ conflict' = FALSE

(* ArpGuard::service: with a link and a free transmit buffer the ARP       *)
(* command goes out, else the DISCOVER.                                    *)
Serviceable ==
  link /\ txReady /\ (dhcpPending \/ (pending /\ candidate # NoIp))

Service ==
  /\ Serviceable
  /\ \/ /\ pending /\ candidate # NoIp
        /\ command' = "none"
        /\ wire' = IF command = "probe" THEN AtMost(wire + 1, 3) ELSE wire
        /\ UNCHANGED <<dhcpPending, offers>>
     \/ /\ ~(pending /\ candidate # NoIp)
        /\ dhcpPending' = FALSE
        /\ offers' \in {offers, offers \cup {xid}}
        /\ UNCHANGED <<command, wire>>
  /\ UNCHANGED <<phase, timer, probes, fallback, addressing, probing, migration,
                 candidate, conflict, xid, dhcpOffer, config, outside, lastXid,
                 ticked, seen, burst, calm, online>>

(* inspect sees an ARP frame of another host that uses or probes ip.       *)
InspectArp(ip) ==
  /\ link
  /\ candidate = ip
  /\ conflict' = TRUE
  /\ seen' = TRUE
  /\ UNCHANGED <<phase, timer, probes, fallback, addressing, probing, migration,
                 candidate, command, dhcp, dhcpOffer, config, outside, network,
                 ticked, wire, burst, calm, online>>

(* inspect sees an offer, late or twice perhaps.                           *)
InspectOffer(x) ==
  /\ link
  /\ x \in offers
  /\ offers' \in {offers, offers \ {x}}
  /\ dhcpOffer' = (dhcpOffer \/ (x = xid /\ ~dhcpPending))
  /\ UNCHANGED <<phase, timer, probes, fallback, addressing, probing, migration, arp,
                 dhcp, config, outside, lastXid, ticked, history>>

-----------------------------------------------------------------------------
(* The policy: each operator is one arm of tick, with what                 *)
(* auto_address_task does for the action it returns.                       *)

(* A phase, its deadline, and what the phase's own data are at first.      *)
EnterProbe(p, t, sent) ==
  /\ phase' = p
  /\ timer' = t
  /\ probes' = sent
  /\ idle' = IF p = "Fallback" THEN IdleTime ELSE 0
  /\ announce' = IF p = "Fallback" THEN 2 ELSE 0

Enter(p, t) == EnterProbe(p, t, 0)

(* Action::Clear.                                                          *)
Clear == ClearProbe /\ config' = Config("none", NoIp)

(* The window's end is not looked at.                                      *)
OfferTakenFault ==
  /\ dhcpOffer /\ phase = "Fallback" /\ window # Closed
  /\ window' = Closed
  /\ migrating' = TRUE
  /\ Enter("StartDhcp", 0)
  /\ Clear
  /\ UNCHANGED <<addressing, nextProbe, failed, lastXid, history>>

(* An offer for the transaction in its window interrupts a fallback.       *)
OfferTaken ==
  /\ dhcpOffer /\ phase = "Fallback" /\ window \notin {0, Closed}
  /\ window' = Closed
  /\ migrating' = TRUE
  /\ Enter("StartDhcp", 0)
  /\ Clear
  /\ UNCHANGED <<addressing, nextProbe, failed, lastXid, history>>

LinkLost ==
  /\ ~link /\ phase # "Down"
  /\ Enter("Down", 0)
  /\ Clear
  /\ burst' = 0
  /\ calm' = 0
  /\ UNCHANGED <<addressing, probing, migration, lastXid, wire, seen, online>>

StartDhcp ==
  /\ link /\ phase \in {"Down", "StartDhcp"}
  /\ window' = Closed
  /\ Enter("Dhcp", DhcpTime)
  /\ ClearProbe
  /\ config' = Config("dhcp", NoIp)
  /\ UNCHANGED <<addressing, nextProbe, migration, lastXid, history>>

DhcpLeased ==
  /\ link /\ phase = "Dhcp" /\ configured
  /\ migrating' = FALSE
  /\ failed' = 0
  /\ Enter("Leased", 0)
  /\ UNCHANGED <<addressing, probing, arp, dhcp, config, lastXid,
                 history>>

(* DHCP is tried again instead of a link-local candidate.                  *)
DhcpForeverFault ==
  /\ link /\ phase = "Dhcp" /\ ~configured /\ timer = 0
  /\ failed' = IF migrating THEN AtMost(failed + 1, MaxShift) ELSE failed
  /\ migrating' = FALSE
  /\ Enter("StartDhcp", 0)
  /\ Clear
  /\ UNCHANGED <<addressing, probing, lastXid, history>>

DhcpTimeout ==
  /\ link /\ phase = "Dhcp" /\ ~configured /\ timer = 0
  /\ failed' = IF migrating THEN AtMost(failed + 1, MaxShift) ELSE failed
  /\ migrating' = FALSE
  /\ Enter("Choose", 0)
  /\ Clear
  /\ UNCHANGED <<addressing, probing, lastXid, history>>

(* The next candidate; consecutive attempts have different addresses, and  *)
(* the attempt's number stands for its address.                            *)
Choose ==
  /\ link /\ phase = "Choose" /\ timer = 0
  /\ address' = attempt
  /\ attempt' = (attempt + 1) % Cycle
  /\ Enter("ProbeDelay", 0)
  /\ candidate' = attempt
  /\ conflict' = FALSE
  /\ wire' = 0
  /\ seen' = FALSE
  /\ burst' = IF calm >= RetryPause THEN 1 ELSE burst + 1
  /\ calm' = 0
  /\ UNCHANGED <<probing, migration, command, dhcp, config, lastXid, online>>

RetryFault ==
  /\ Enter("Choose", 0)
  /\ Clear
  /\ UNCHANGED <<addressing, probing, migration, lastXid, history>>

(* retry: every PauseEvery attempts it waits.                              *)
Retry ==
  /\ Enter("Choose", IF attempt % PauseEvery = 0 THEN RetryPause ELSE 0)
  /\ Clear
  /\ UNCHANGED <<addressing, probing, migration, lastXid, history>>

ProbeConflict ==
  /\ link /\ phase \in {"ProbeDelay", "ProbeTx", "ClaimDelay"} /\ conflict
  /\ Retry

Probe ==
  /\ link /\ phase = "ProbeDelay" /\ ~conflict /\ timer = 0
  /\ EnterProbe("ProbeTx", TxTime, probes)
  /\ command' = "probe"
  /\ UNCHANGED <<addressing, probing, migration, candidate, conflict,
                 dhcp, config, lastXid, history>>

ProbeSent ==
  /\ link /\ phase = "ProbeTx" /\ ~conflict /\ ~pending
  /\ \/ probes + 1 = 3 /\ Enter("ClaimDelay", ClaimTime)
     \/ probes + 1 # 3 /\ EnterProbe("ProbeDelay", ProbeGap, probes + 1)
  /\ UNCHANGED <<addressing, probing, migration, arp, dhcp, config, lastXid,
                 history>>

ProbeUnsent ==
  /\ link /\ phase = "ProbeTx" /\ ~conflict /\ pending /\ timer = 0
  /\ Retry

(* The delay after the last probe does not look for conflicts.             *)
ClaimFault ==
  /\ link /\ phase = "ClaimDelay" /\ timer = 0
  /\ nextProbe' = Interval
  /\ window' = Closed
  /\ Enter("Fallback", 0)
  /\ config' = Config("static", address)
  /\ burst' = 0
  /\ online' = 0
  /\ UNCHANGED <<addressing, migration, arp, dhcp, lastXid, wire, seen, calm>>

(* The claim ends the probing: the driver stops watching the address.      *)
ClaimBlindFault ==
  /\ link /\ phase = "ClaimDelay" /\ ~conflict /\ timer = 0
  /\ nextProbe' = Interval
  /\ window' = Closed
  /\ Enter("Fallback", 0)
  /\ ClearProbe
  /\ config' = Config("static", address)
  /\ burst' = 0
  /\ online' = 0
  /\ UNCHANGED <<addressing, migration, lastXid, wire, seen, calm>>

Claim ==
  /\ link /\ phase = "ClaimDelay" /\ ~conflict /\ timer = 0
  /\ nextProbe' = Interval
  /\ window' = Closed
  /\ Enter("Fallback", 0)
  /\ config' = Config("static", address)
  /\ burst' = 0
  /\ online' = 0
  /\ UNCHANGED <<addressing, migration, arp, dhcp, lastXid, wire, seen, calm>>

(* Online, and the address is lost, contested or idle for too long.        *)
GiveUp ==
  /\ link
  /\ \/ phase = "Leased" /\ ~configured
     \/ phase = "Fallback" /\ (conflict \/ ~configured \/ (~connected /\ idle = 0))
  /\ Enter("StartDhcp", 0)
  /\ Clear
  /\ UNCHANGED <<addressing, probing, migration, lastXid, history>>

FallbackHolds ==
  link /\ phase = "Fallback" /\ ~conflict /\ configured /\ (connected \/ idle > 0)

AnnounceDue == announce > 0 /\ timer = 0 /\ ~pending
EndDue == ~AnnounceDue /\ window = 0
DhcpProbeDue == ~AnnounceDue /\ window = Closed /\ nextProbe = 0 /\ ~pending

StillIdle == idle' = IF connected THEN IdleTime ELSE idle

Announce ==
  /\ FallbackHolds /\ AnnounceDue
  /\ StillIdle
  /\ announce' = announce - 1
  /\ timer' = IF announce > 1 THEN AnnounceGap ELSE 0
  /\ command' = "announce"
  /\ UNCHANGED <<phase, probes, addressing, probing, migration, candidate, conflict, dhcp,
                 config, lastXid, history>>

EndDhcpProbe ==
  /\ FallbackHolds /\ EndDue
  /\ StillIdle
  /\ window' = Closed
  /\ StopDhcpProbe
  /\ UNCHANGED <<phase, timer, probes, announce, addressing, nextProbe, migration, arp,
                 config, lastXid, history>>

(* A DHCP probe counts as activity.                                        *)
DhcpProbeFault ==
  /\ FallbackHolds /\ DhcpProbeDue
  /\ idle' = IdleTime
  /\ nextProbe' = Interval
  /\ window' = ProbeWindow
  /\ lastXid' = 3 - lastXid
  /\ xid' = lastXid'
  /\ dhcpPending' = TRUE
  /\ UNCHANGED <<phase, timer, probes, announce, addressing, migration, arp, config,
                 history>>

(* request_dhcp_probe.  A transaction number is reused by the next but one *)
(* DISCOVER, when no offer for the older one is on its way any more.       *)
DhcpProbe ==
  /\ FallbackHolds /\ DhcpProbeDue
  /\ StillIdle
  /\ nextProbe' = Interval
  /\ window' = ProbeWindow
  /\ lastXid' = 3 - lastXid
  /\ xid' = lastXid'
  /\ dhcpPending' = TRUE
  /\ UNCHANGED <<phase, timer, probes, announce, addressing, migration, arp, config,
                 history>>

FallbackWaits ==
  /\ FallbackHolds /\ ~AnnounceDue /\ ~EndDue /\ ~DhcpProbeDue
  /\ StillIdle
  /\ UNCHANGED <<phase, timer, probes, announce, addressing, probing, migration, arp,
                 dhcp, config, lastXid, history>>

(* The arms that return Action::None and change nothing.                   *)
Waits ==
  /\ \/ ~link /\ phase = "Down"
     \/ link /\ phase = "Dhcp" /\ ~configured /\ timer > 0
     \/ link /\ phase = "Choose" /\ timer > 0
     \/ link /\ phase \in {"ProbeDelay", "ClaimDelay"} /\ ~conflict /\ timer > 0
     \/ link /\ phase = "ProbeTx" /\ ~conflict /\ pending /\ timer > 0
     \/ link /\ phase = "Leased" /\ configured
  /\ UNCHANGED <<phase, timer, probes, fallback, addressing, probing, migration, arp,
                 dhcp, config, lastXid, history>>

PolicyTick ==
  \/ LinkLost \/ StartDhcp \/ DhcpLeased \/ DhcpTimeout \/ Choose
  \/ ProbeConflict \/ Probe \/ ProbeSent \/ ProbeUnsent \/ Claim \/ GiveUp
  \/ Announce \/ EndDhcpProbe \/ DhcpProbe \/ FallbackWaits \/ Waits

(* One poll of auto_address_task: take_dhcp_offer, and tick unless the     *)
(* offer already made the policy act.                                      *)
Tick ==
  /\ ~Serviceable
  /\ \/ OfferTaken
     \/ ~(dhcpOffer /\ phase = "Fallback" /\ window \notin {0, Closed}) /\ PolicyTick
  /\ dhcpOffer' = FALSE
  /\ ticked' = TRUE
  /\ offers' = IF lastXid' = lastXid THEN offers ELSE offers \ {lastXid'}
  /\ UNCHANGED outside

-----------------------------------------------------------------------------
(* Time and the environment.                                               *)

Elapse ==
  /\ ticked /\ ~Serviceable
  /\ ticked' = FALSE
  /\ timer' = Less(timer)
  /\ idle' = IF phase = "Fallback" THEN Less(idle) ELSE idle
  /\ nextProbe' = IF phase = "Fallback" THEN Less(nextProbe) ELSE nextProbe
  /\ window' = IF window = Closed THEN Closed ELSE Less(window)
  /\ calm' = IF phase = "Choose" THEN AtMost(calm + 1, RetryPause) ELSE calm
  /\ online' = IF phase = "Fallback" /\ online < Interval THEN online + 1 ELSE online
  /\ UNCHANGED <<phase, probes, announce, addressing, migration, arp, dhcp, dhcpOffer,
                 config, outside, network, wire, seen, burst>>

internals == <<phase, timer, probes, fallback, addressing, probing, migration, arp,
               dhcp, dhcpOffer, network, ticked, history>>

(* The stack's DHCP client gets or loses its lease.                        *)
Lease ==
  /\ link
  /\ \/ config.kind = "dhcp" /\ config' = Config("lease", NoIp)
     \/ config.kind = "lease" /\ config' = Config("dhcp", NoIp)
  /\ UNCHANGED <<internals, outside>>

LinkChange == link' = ~link /\ UNCHANGED <<internals, config, connected, txReady>>

TxChange == txReady' = ~txReady /\ UNCHANGED <<internals, config, link, connected>>

(* The bridge's TCP session, which needs an address to begin.              *)
SessionChange ==
  /\ connected \/ configured
  /\ connected' = ~connected
  /\ UNCHANGED <<internals, config, link, txReady>>

Init ==
  /\ phase = "Down" /\ timer = 0 /\ probes = 0 /\ idle = 0 /\ announce = 0
  /\ attempt = 0 /\ address = NoIp
  /\ nextProbe = 0 /\ window = Closed
  /\ migrating = FALSE /\ failed = 0
  /\ candidate = NoIp /\ command = "none" /\ conflict = FALSE
  /\ xid = 0 /\ dhcpPending = FALSE /\ dhcpOffer = FALSE
  /\ config = Config("none", NoIp)
  /\ link \in BOOLEAN /\ connected = FALSE /\ txReady = TRUE
  /\ offers = {} /\ lastXid = 2
  /\ ticked = FALSE
  /\ wire = 0 /\ seen = FALSE /\ burst = 0 /\ calm = 0 /\ online = 0

Environment ==
  \/ \E ip \in Ips : InspectArp(ip)
  \/ \E x \in {1, 2} : InspectOffer(x)
  \/ Lease \/ LinkChange \/ TxChange \/ SessionChange

Next == Tick \/ Elapse \/ Service \/ Environment

Spec == Init /\ [][Next]_vars

(* The executor polls the task's timer and the network runner; time passes. *)
FairSpec == Spec /\ WF_vars(Tick) /\ WF_vars(Elapse) /\ WF_vars(Service)

-----------------------------------------------------------------------------
(* Properties.                                                             *)

TypeOK ==
  /\ phase \in Phases
  /\ timer \in 0 .. DhcpTime + TxTime + ProbeGap + ClaimTime + AnnounceGap + RetryPause
  /\ probes \in 0 .. 2 /\ announce \in 0 .. 2
  /\ idle \in 0 .. IdleTime
  /\ attempt \in Ips /\ address \in Ips \cup {NoIp}
  /\ nextProbe \in 0 .. ProbeInterval * 2 ^ MaxShift
  /\ window \in 0 .. ProbeWindow \cup {Closed}
  /\ migrating \in BOOLEAN /\ failed \in 0 .. MaxShift
  /\ candidate \in Ips \cup {NoIp}
  /\ command \in {"none", "probe", "announce"}
  /\ conflict \in BOOLEAN
  /\ xid \in 0 .. 2 /\ dhcpPending \in BOOLEAN /\ dhcpOffer \in BOOLEAN
  /\ config \in [kind : {"none", "dhcp", "lease", "static"}, ip : Ips \cup {NoIp}]
  /\ link \in BOOLEAN /\ connected \in BOOLEAN /\ txReady \in BOOLEAN
  /\ offers \subseteq {1, 2} /\ lastXid \in {1, 2} /\ ticked \in BOOLEAN
  /\ wire \in 0 .. 3 /\ seen \in BOOLEAN
  /\ burst \in Nat /\ calm \in 0 .. RetryPause
  /\ online \in 0 .. ProbeInterval * 2 ^ MaxShift

(***************************************************************************)
(* Defended: as long as the stack uses a link-local address the driver     *)
(* watches that very address for conflicts, and a conflict it has seen is  *)
(* never forgotten while the address is in use (ProbeState against the     *)
(* policy and the stack, over every retry, migration and link loss).       *)
(***************************************************************************)
Defended ==
  config.kind = "static" =>
    /\ phase = "Fallback"
    /\ candidate = config.ip
    /\ seen => conflict

(***************************************************************************)
(* OfferCurrent: the offer flag speaks of the DISCOVER that was sent last  *)
(* and whose window the policy still has open, never of an earlier one     *)
(* (stop_dhcp_probe, request_dhcp_probe and clear against late offers).    *)
(***************************************************************************)
OfferCurrent ==
  dhcpOffer => xid = lastXid /\ ~dhcpPending /\ window # Closed

(***************************************************************************)
(* RateLimited: while the link stays up no more than PauseEvery candidates *)
(* in a row fail before a pause of RetryPause (retry), even with rounds of *)
(* missing transmissions among the conflicts.                              *)
(***************************************************************************)
RateLimited == burst <= PauseEvery

(***************************************************************************)
(* ClaimProbed: an address is claimed only after three probes for it have  *)
(* left the driver and no conflict with it was received since it became    *)
(* the candidate, not even after the last probe.                           *)
(***************************************************************************)
ClaimProbed ==
  [][config.kind # "static" /\ config'.kind = "static" =>
       wire = 3 /\ ~seen /\ config'.ip = candidate]_vars

(***************************************************************************)
(* HealthyKept: a fallback address with a link, without a conflict and     *)
(* with a session is taken away only for an offer in its window, and not   *)
(* before it lasted a probe interval, which doubles with every failed      *)
(* migration ("the only reason to interrupt a healthy IPv4LL session",     *)
(* dhcp_offered).                                                          *)
(***************************************************************************)
HealthyKept ==
  [][config.kind = "static" /\ config'.kind # "static" =>
       \/ ~link \/ seen \/ (~connected /\ idle = 0)
       \/ dhcpOffer /\ window > 0 /\ online >= Interval]_vars

(***************************************************************************)
(* AddressFound: with a link, a driver that transmits and candidates       *)
(* nobody else uses, the board always gets an address again, with a DHCP   *)
(* server or without one, whatever the server offers and takes back.       *)
(***************************************************************************)
AddressFound ==
  <>[](link /\ txReady /\ ~conflict) => []<>configured

(***************************************************************************)
(* IdleRetries: with a link and a driver that transmits, a fallback        *)
(* address without a session does not last: the policy gives it up for     *)
(* another try of DHCP (the idle limit of tick, whatever announcements and *)
(* DHCP probes happen meanwhile).                                          *)
(***************************************************************************)
IdleRetries ==
  <>[](link /\ txReady /\ phase = "Fallback") => []<>connected
=============================================================================
