-------------------------- MODULE LocalSideProofs --------------------------
(***************************************************************************)
(* Proofs about the parts of a board on its own side of a session: the      *)
(* configuration record and the shell (ConfigStore), for every firmware,    *)
(* every stored record and every set of lines; the reader of a byte stream  *)
(* (FrameReader), for every stream, every choice of magics and every        *)
(* capacity; the USB bridge (UsbBridge), for every text that a host types   *)
(* and every capacity of the command buffer; and the LED (Led).             *)
(***************************************************************************)
EXTENDS LocalSide, WellFoundedInduction, TLAPS

(* No sector passes for a whole record whose settings were lost, and the   *)
(* one that does holds a configuration.                                    *)
FlashOK(f) ==
  /\ f.sum # Checksum(Blank) /\ f.sum # Checksum(Garbled)
  /\ Decode(f) # None => IsConfig(Decode(f)[1])

(* While the sector is changed, legal knows what may come of it.           *)
ChangeOK ==
  /\ stage = "erase" => /\ None \in legal
                        /\ IF storing THEN Some(config) \in legal ELSE config = compiled
  /\ stage = "write" => flash = Erased /\ {None, Some(config)} \subseteq legal

(* Between two changes the shell shows what the next boot will find.       *)
AgreeOK ==
  compiled.upstream \notin BusModes =>
    /\ stage = "shell" => config = BootConfig
    /\ stage = "run" => config = Addressed(BootConfig)

StoreInv ==
  /\ IsConfig(compiled) /\ IsConfig(config)
  /\ FlashOK(flash) /\ BootsWhole /\ ChangeOK /\ AgreeOK

-----------------------------------------------------------------------------
(* The record.                                                             *)

LEMMA PartsDiffer ==
  /\ Blank # Garbled /\ Blank # Current /\ Garbled # Current
  /\ \A x : Blank # Checksum(x) /\ Garbled # Checksum(x)
  /\ \A x : <<"settings", x>> # Blank /\ <<"settings", x>> # Garbled
  /\ \A x, y : Checksum(x) = Checksum(y) => x = y
<1>1. <<>> # <<"garbled">> /\ <<>> # <<"PCFG2">> /\ <<"garbled">> # <<"PCFG2">>
  OBVIOUS
<1>2. \A x : <<>> # <<"fnv", x>> /\ <<"garbled">> # <<"fnv", x>>
  OBVIOUS
<1>3. \A x : <<"settings", x>> # <<>> /\ <<"settings", x>> # <<"garbled">>
  OBVIOUS
<1>4. \A x, y : <<"fnv", x>> = <<"fnv", y>> => x = y
  OBVIOUS
<1> QED
  BY <1>1, <1>2, <1>3, <1>4 DEF Blank, Garbled, Current, Checksum

LEMMA NoneIsNotSome ==
  ASSUME NEW c
  PROVE  None # Some(c) /\ Some(c)[1] = c
  BY DEF None, Some

LEMMA ChangedConfig ==
  ASSUME NEW c, IsConfig(c), NEW f \in Fields, NEW v, f = "discovery" => v \in BOOLEAN
  PROVE  IsConfig([c EXCEPT ![f] = v])
<1> DEFINE d == [c EXCEPT ![f] = v]
<1>1. DOMAIN c = Fields /\ d = [g \in Fields |-> IF g = f THEN v ELSE c[g]]
  BY DEF IsConfig
<1>2. d = [g \in Fields |-> d[g]]
  BY <1>1
<1>3. "discovery" \in Fields
  BY DEF Fields
<1>4. CASE f = "discovery"
  BY <1>1, <1>2, <1>3, <1>4 DEF IsConfig
<1>5. CASE f # "discovery"
  BY <1>1, <1>2, <1>3, <1>5 DEF IsConfig
<1> QED
  BY <1>4, <1>5

(* What decode_record makes of a whole record is a configuration.          *)
LEMMA DecodedRecord ==
  ASSUME NEW s, s = [f \in Fields |-> s[f]]
  PROVE  /\ Decode(Record(s)) = Some([s EXCEPT !.discovery = @ = "a5"])
         /\ IsConfig([s EXCEPT !.discovery = @ = "a5"])
<1>1. Decode(Record(s)) = Some([s EXCEPT !.discovery = @ = "a5"])
  BY DEF Decode, Record, Current
<1> DEFINE d == [s EXCEPT !.discovery = @ = "a5"]
<1>2. DOMAIN s = Fields /\ "discovery" \in Fields
  BY DEF Fields
<1>3. d = [g \in Fields |-> d[g]]
  BY <1>2
<1>4. d.discovery = (s.discovery = "a5")
  BY <1>2
<1>5. d.discovery \in BOOLEAN
  BY <1>4
<1> QED
  BY <1>1, <1>3, <1>5 DEF IsConfig

(* A configuration survives the way into the flash and back.               *)
LEMMA DecodedConfig ==
  ASSUME NEW c, IsConfig(c)
  PROVE  Decode(Encode(c)) = Some(c)
<1> DEFINE s == [c EXCEPT !.discovery = IF @ THEN "a5" ELSE "00"]
           d == [s EXCEPT !.discovery = @ = "a5"]
<1>1. DOMAIN c = Fields /\ "discovery" \in Fields
  BY DEF Fields, IsConfig
<1>2. DOMAIN s = Fields /\ s = [f \in Fields |-> s[f]]
  BY <1>1
<1>3. Decode(Encode(c)) = Some(d)
  BY <1>2, DecodedRecord DEF Encode
<1>4. d.discovery = (s.discovery = "a5")
  BY <1>1, <1>2
<1>5. s.discovery = IF c.discovery THEN "a5" ELSE "00"
  BY <1>1
<1>6. d.discovery = c.discovery
  BY <1>4, <1>5 DEF IsConfig
<1>7. \A f \in Fields : d[f] = c[f]
  BY <1>1, <1>6
<1>8. d = [f \in Fields |-> c[f]]
  BY <1>1, <1>2, <1>7
<1> QED
  BY <1>3, <1>8 DEF IsConfig

LEMMA DecodedErased == Decode(Erased) = None /\ FlashOK(Erased)
<1>1. Decode(Erased) = None
  BY PartsDiffer DEF Decode, Erased
<1> QED
  BY <1>1, PartsDiffer DEF FlashOK, Erased

LEMMA EncodedOK ==
  ASSUME NEW c, IsConfig(c)
  PROVE  FlashOK(Encode(c))
<1>1. \E s : Encode(c).sum = Checksum(<<"settings", s>>)
  BY DEF Encode, Record
<1>2. Decode(Encode(c)) = Some(c)
  BY DecodedConfig
<1> QED
  BY <1>1, <1>2, PartsDiffer, NoneIsNotSome DEF FlashOK

(* An erase that is cut short leaves the old record or none.               *)
LEMMA CutErase ==
  ASSUME NEW f, FlashOK(f), NEW g \in Interrupted(f, Erased)
  PROVE  FlashOK(g) /\ Decode(g) \in {None, Decode(f)}
<1>1. /\ g.id \in {f.id, Blank, Garbled} /\ g.body \in {f.body, Blank, Garbled}
      /\ g.sum \in {f.sum, Blank, Garbled}
  BY DEF Interrupted, Between, Erased
<1>2. g.sum # Checksum(Blank) /\ g.sum # Checksum(Garbled)
  BY <1>1, PartsDiffer DEF FlashOK
<1>3. CASE g.id = Current /\ g.sum = Checksum(g.body)
  <2>1. g.id = f.id /\ g.sum = f.sum /\ g.body = f.body
    BY <1>1, <1>2, <1>3, PartsDiffer
  <2>2. Decode(g) = Decode(f)
    BY <2>1 DEF Decode
  <2> QED
    BY <1>2, <2>2 DEF FlashOK
<1>4. CASE ~(g.id = Current /\ g.sum = Checksum(g.body))
  <2>1. Decode(g) = None
    BY <1>4 DEF Decode
  <2> QED
    BY <1>2, <2>1 DEF FlashOK
<1> QED
  BY <1>3, <1>4

(* A write that is cut short leaves the new record or none.                *)
LEMMA CutWrite ==
  ASSUME NEW c, IsConfig(c), NEW g \in Interrupted(Erased, Encode(c))
  PROVE  FlashOK(g) /\ Decode(g) \in {None, Some(c)}
<1> DEFINE e == Encode(c)
<1>0. FlashOK(e) /\ Decode(e) = Some(c)
  BY EncodedOK, DecodedConfig
<1> HIDE DEF e
<1>1. /\ g.id \in {e.id, Blank, Garbled} /\ g.body \in {e.body, Blank, Garbled}
      /\ g.sum \in {e.sum, Blank, Garbled}
  BY DEF Interrupted, Between, Erased, e
<1>2. g.sum # Checksum(Blank) /\ g.sum # Checksum(Garbled)
  BY <1>0, <1>1, PartsDiffer DEF FlashOK
<1>3. CASE g.id = Current /\ g.sum = Checksum(g.body)
  <2>1. g.id = e.id /\ g.sum = e.sum /\ g.body = e.body
    BY <1>1, <1>2, <1>3, PartsDiffer
  <2>2. Decode(g) = Decode(e)
    BY <2>1 DEF Decode
  <2> QED
    BY <1>0, <1>2, <2>2 DEF FlashOK
<1>4. CASE ~(g.id = Current /\ g.sum = Checksum(g.body))
  <2>1. Decode(g) = None
    BY <1>4 DEF Decode
  <2> QED
    BY <1>2, <2>1 DEF FlashOK
<1> QED
  BY <1>3, <1>4

-----------------------------------------------------------------------------
(* Commands.                                                               *)

(* A command leaves a configuration.                                       *)
LEMMA AppliedConfig ==
  ASSUME NEW c, IsConfig(c), NEW p, p[1] \in {"address", "bridge", "upstream", "discovery"}
  PROVE  IsConfig(Apply(c, p))
<1> DEFINE value == IF p[1] = "discovery" THEN p[2] = "on" ELSE p[2]
           changed == [c EXCEPT ![p[1]] = value]
<1>1. p[1] \in Fields /\ (p[1] = "discovery" => value \in BOOLEAN)
  BY DEF Fields
<1> HIDE DEF value
<1>2. IsConfig(changed)
  BY <1>1, ChangedConfig
<1>3. "discovery" \in Fields /\ TRUE \in BOOLEAN
  BY DEF Fields
<1> HIDE DEF changed
<1>4. IsConfig([changed EXCEPT !["discovery"] = TRUE])
  BY <1>2, <1>3, ChangedConfig
<1> QED
  BY <1>2, <1>4 DEF Apply, value, changed

-----------------------------------------------------------------------------
(* The steps.                                                              *)

LEMMA BootedConfig ==
  ASSUME StoreInv
  PROVE  IsConfig(BootConfig)
  BY DEF StoreInv, FlashOK, BootConfig

LEMMA AddressedConfig ==
  ASSUME NEW c, IsConfig(c)
  PROVE  IsConfig(Addressed(c))
<1>1. "mac" \in Fields /\ "mac" # "discovery"
  BY DEF Fields
<1>2. IsConfig([c EXCEPT !["mac"] = "uid"])
  BY <1>1, ChangedConfig
<1> QED
  BY <1>2 DEF Addressed

LEMMA InitStoreInv == StoreStart(Builds, Inherited) => StoreInv
<1> SUFFICES ASSUME StoreStart(Builds, Inherited)
             PROVE  StoreInv
  OBVIOUS
<1>1. IsConfig(compiled) /\ IsConfig(config) /\ BootsWhole
  BY StoreAssumption DEF StoreStart, BootsWhole
<1>2. FlashOK(flash)
  <2>1. CASE flash = Erased
    BY <2>1, DecodedErased
  <2>2. ASSUME NEW s \in OldSettings, flash = [Record(s) EXCEPT !.id = <<"PCFG1">>]
        PROVE  FlashOK(flash)
    <3>1. flash.id = <<"PCFG1">> /\ flash.sum = Checksum(<<"settings", s>>)
      BY <2>2 DEF Record
    <3>2. flash.id # Current
      BY <3>1 DEF Current
    <3>3. Decode(flash) = None
      BY <3>2 DEF Decode
    <3> QED
      BY <3>1, <3>3, PartsDiffer DEF FlashOK
  <2>3. ASSUME NEW s \in OldSettings, flash = [Record(s) EXCEPT !.id = Current]
        PROVE  FlashOK(flash)
    <3>1. flash = Record(s)
      BY <2>3 DEF Record
    <3>2. flash.sum = Checksum(<<"settings", s>>)
      BY <3>1 DEF Record
    <3>3. /\ Decode(flash) = Some([s EXCEPT !.discovery = @ = "a5"])
          /\ IsConfig([s EXCEPT !.discovery = @ = "a5"])
      BY <3>1, StoreAssumption, DecodedRecord
    <3> QED
      BY <3>2, <3>3, PartsDiffer, NoneIsNotSome DEF FlashOK
  <2> QED
    BY <2>1, <2>2, <2>3 DEF StoreStart, Inherited
<1> QED
  BY <1>1, <1>2 DEF StoreStart, StoreInv, ChangeOK, AgreeOK

(* The power fails in the middle of whatever the board does.               *)
LEMMA PowerLossKeeps ==
  ASSUME StoreInv, PowerLoss
  PROVE  StoreInv'
<1>1. stage' = "off" /\ config' = compiled /\ compiled' = compiled /\ legal' = legal
  BY DEF PowerLoss
<1>2. FlashOK(flash') /\ Decode(flash') \in legal
  <2>1. CASE stage = "erase"
    <3>1. flash' \in Interrupted(flash, Erased)
      BY <2>1 DEF PowerLoss
    <3>2. FlashOK(flash') /\ Decode(flash') \in {None, Decode(flash)}
      BY <3>1, CutErase DEF StoreInv
    <3> QED
      BY <2>1, <3>2 DEF StoreInv, ChangeOK, BootsWhole
  <2>2. CASE stage = "write"
    <3>1. flash' \in Interrupted(Erased, Encode(config))
      BY <2>2 DEF PowerLoss, StoreInv, ChangeOK
    <3>2. FlashOK(flash') /\ Decode(flash') \in {None, Some(config)}
      BY <3>1, CutWrite DEF StoreInv
    <3> QED
      BY <2>2, <3>2 DEF StoreInv, ChangeOK
  <2>3. CASE stage \notin {"erase", "write"}
    <3>1. flash' = flash
      BY <2>3 DEF PowerLoss
    <3> QED
      BY <3>1 DEF StoreInv, BootsWhole
  <2> QED
    BY <2>1, <2>2, <2>3
<1> QED
  BY <1>1, <1>2 DEF StoreInv, BootsWhole, ChangeOK, AgreeOK

(* The shell goes on or ends without a change of the configuration.        *)
LEMMA ShellKeeps ==
  ASSUME StoreInv, stage = "shell", flash' = flash, legal' = legal, compiled' = compiled,
         \/ stage' = "shell" /\ config' = config
         \/ stage' = "run" /\ config' = Addressed(config)
         \/ stage' = "halted" /\ config' = config
  PROVE  StoreInv'
<1>1. IsConfig(config')
  BY AddressedConfig DEF StoreInv
<1>2. BootConfig' = BootConfig
  BY DEF BootConfig
<1> QED
  BY <1>1, <1>2 DEF StoreInv, BootsWhole, ChangeOK, AgreeOK

LEMMA BeginEraseKeeps ==
  ASSUME StoreInv, NEW c, IsConfig(c), NEW save \in BOOLEAN, BeginErase(c, save),
         ~save => c = compiled
  PROVE  StoreInv'
<1>1. /\ stage' = "erase" /\ config' = c /\ storing' = save
      /\ legal' = {Decode(flash), None} \cup IF save THEN {Some(c)} ELSE {}
      /\ compiled' = compiled /\ flash' = flash
  BY DEF BeginErase
<1>2. IsConfig(compiled') /\ IsConfig(config') /\ FlashOK(flash')
  BY <1>1 DEF StoreInv
<1>3. BootsWhole'
  BY <1>1 DEF BootsWhole
<1>4. ChangeOK'
  BY <1>1 DEF ChangeOK
<1> QED
  BY <1>1, <1>2, <1>3, <1>4 DEF StoreInv, AgreeOK

LEMMA EraseKeeps ==
  ASSUME StoreInv, Erase
  PROVE  StoreInv'
<1>1. stage = "erase" /\ flash' = Erased /\ compiled' = compiled
  BY DEF Erase
<1>2. Decode(flash') = None /\ FlashOK(flash')
  BY <1>1, DecodedErased
<1>3. CASE storing
  <2>1. stage' = "write" /\ config' = config /\ legal' = legal
    BY <1>3 DEF Erase
  <2> QED
    BY <1>1, <1>2, <1>3, <2>1 DEF StoreInv, BootsWhole, ChangeOK, AgreeOK
<1>4. CASE ~storing
  <2>1. /\ config = compiled /\ legal' = {None}
        /\ \/ stage' = "run" /\ config' = Addressed(config)
           \/ stage' = "shell" /\ config' = config
    BY <1>1, <1>4 DEF Erase, NextLine, Begin, StoreInv, ChangeOK
  <2>2. BootConfig' = compiled
    BY <1>1, <1>2 DEF BootConfig
  <2>3. IsConfig(config')
    BY <2>1, AddressedConfig DEF StoreInv
  <2> QED
    BY <1>1, <1>2, <2>1, <2>2, <2>3 DEF StoreInv, BootsWhole, ChangeOK, AgreeOK
<1> QED
  BY <1>3, <1>4

LEMMA WriteKeeps ==
  ASSUME StoreInv, Write
  PROVE  StoreInv'
<1>1. /\ flash' = Encode(config) /\ compiled' = compiled /\ legal' = {Some(config)}
      /\ \/ stage' = "run" /\ config' = Addressed(config)
         \/ stage' = "shell" /\ config' = config
  BY DEF Write, NextLine, Begin
<1>2. Decode(flash') = Some(config) /\ FlashOK(flash')
  BY <1>1, DecodedConfig, EncodedOK DEF StoreInv
<1>3. compiled.upstream \notin BusModes => BootConfig' = config
  BY <1>1, <1>2, NoneIsNotSome DEF BootConfig
<1>4. IsConfig(config')
  BY <1>1, AddressedConfig DEF StoreInv
<1> QED
  BY <1>1, <1>2, <1>3, <1>4 DEF StoreInv, BootsWhole, ChangeOK, AgreeOK

LEMMA StoreStep == StoreInv /\ [StoreNext]_store => StoreInv'
<1> SUFFICES ASSUME StoreInv, [StoreNext]_store
             PROVE  StoreInv'
  OBVIOUS
<1>1. CASE Boot
  <2>1. /\ stage' = "shell" /\ config' = BootConfig /\ compiled' = compiled /\ flash' = flash
        /\ legal' = legal
    BY <1>1 DEF Boot
  <2>2. IsConfig(config') /\ BootConfig' = BootConfig
    BY <2>1, BootedConfig DEF BootConfig
  <2> QED
    BY <2>1, <2>2 DEF StoreInv, BootsWhole, ChangeOK, AgreeOK
<1>2. CASE Update
  <2>1. IsConfig(compiled') /\ stage' = "off" /\ config' = config /\ flash' = flash /\ legal' = legal
    BY <1>2, StoreAssumption DEF Update
  <2> QED
    BY <2>1 DEF StoreInv, BootsWhole, ChangeOK, AgreeOK
<1>3. CASE PowerLoss
  BY <1>3, PowerLossKeeps
<1>4. CASE Noise \/ Pause \/ ReadError \/ EnterQuery \/ EnterStart \/ EnterTooLong
  <2>1. /\ stage = "shell" /\ flash' = flash /\ legal' = legal /\ compiled' = compiled
        /\ \/ stage' = "shell" /\ config' = config
           \/ stage' = "run" /\ config' = Addressed(config)
           \/ stage' = "halted" /\ config' = config
    BY <1>4 DEF Noise, Pause, ReadError, EnterQuery, EnterStart, EnterTooLong, Entered,
                NextLine, Begin
  <2> QED
    BY <2>1, ShellKeeps
<1>5. CASE EnterReset
  <2>1. BeginErase(compiled, FALSE) /\ IsConfig(compiled)
    BY <1>5 DEF EnterReset, StoreInv
  <2> QED
    BY <2>1, BeginEraseKeeps
<1>6. CASE EnterSet
  <2>1. BeginErase(Apply(config, Parse(words)), TRUE)
    BY <1>6 DEF EnterSet
  <2>2. IsConfig(Apply(config, Parse(words)))
    BY <1>6, AppliedConfig DEF EnterSet, Entered, StoreInv
  <2> QED
    BY <2>1, <2>2, BeginEraseKeeps
<1>7. CASE Erase
  BY <1>7, EraseKeeps
<1>8. CASE Write
  BY <1>8, WriteKeeps
<1>9. CASE /\ flash' = flash /\ legal' = legal /\ compiled' = compiled /\ stage' = stage
           /\ config' = config /\ storing' = storing
  BY <1>9 DEF StoreInv, BootsWhole, ChangeOK, AgreeOK, BootConfig
<1> QED
  BY <1>1, <1>2, <1>3, <1>4, <1>5, <1>6, <1>7, <1>8, <1>9
  DEF StoreNext, DeadlinePasses, Rubout, Type, store

LEMMA StoreInvariance == StoreSpec => []StoreInv
  BY InitStoreInv, StoreStep, PTL DEF StoreSpec

(***************************************************************************)
(* RecordIsWhole: whenever the power fails, in an erase, in a write or     *)
(* between them, the next boot decodes the configuration stored last, the  *)
(* one being stored, or none.                                              *)
(***************************************************************************)
THEOREM RecordIsWhole == StoreSpec => []BootsWhole
<1>1. StoreInv => BootsWhole
  BY DEF StoreInv
<1> QED
  BY <1>1, StoreInvariance, PTL

(***************************************************************************)
(* ShellAgreesWithBoot: a UART or USB build runs the bridge with the       *)
(* configuration that its next boot will load.                             *)
(***************************************************************************)
THEOREM ShellAgreesWithBoot == StoreSpec => []RunsWhatBootsNext
<1>1. StoreInv => RunsWhatBootsNext
  BY DEF StoreInv, AgreeOK, RunsWhatBootsNext
<1> QED
  BY <1>1, StoreInvariance, PTL

-----------------------------------------------------------------------------
LEMMA Below ==
  ASSUME NEW x \in Nat, NEW n \in Nat, x < n + 1
  PROVE  x = n \/ x < n
OBVIOUS

(* Induction over the naturals for a set instead of a predicate.           *)
LEMMA Least ==
  ASSUME NEW T \in SUBSET Nat, T # {}
  PROVE  \E m \in T : \A k \in T : m <= k
<1> DEFINE R == {p \in Nat \X Nat : p[1] < p[2]}
<1>1. IsWellFoundedOn(R, Nat)
  BY NatLessThanWellFounded DEF OpToRel
<1>2. PICK x \in T : \A y \in T : ~(<<y, x>> \in R)
  <2> HIDE DEF R
  <2> QED
    BY <1>1, WFMin
<1>3. ASSUME NEW y \in T PROVE x <= y
  <2>1. <<y, x>> \in Nat \X Nat /\ <<y, x>>[1] = y /\ <<y, x>>[2] = x
    OBVIOUS
  <2>2. ~(y < x)
    BY <1>2, <2>1
  <2> QED
    BY <2>2
<1> QED
  BY <1>3

LEMMA Induct ==
  ASSUME NEW T \in SUBSET Nat, 0 \in T, \A n \in T : n + 1 \in T
  PROVE  T = Nat
<1> SUFFICES ASSUME T # Nat PROVE FALSE
  OBVIOUS
<1> DEFINE U == Nat \ T
<1>1. U \in SUBSET Nat /\ U # {}
  OBVIOUS
<1>2. PICK m \in U : \A k \in U : m <= k
  <2> HIDE DEF U
  <2> QED
    BY <1>1, Least
<1>3. m - 1 \in Nat /\ m - 1 \notin U
  BY <1>2
<1>4. m - 1 \in T /\ (m - 1) + 1 = m
  BY <1>3
<1> QED
  BY <1>2, <1>4

(* A recursive definition G has a solution when the rank falls with every  *)
(* call: G[<<f, i>>] looks at f[j] only if j has a lower rank than i.      *)
Depends(G, I, F, r) ==
  \A g, h \in [I -> F], i \in I :
    (\A j \in I : r[j] < r[i] => g[j] = h[j]) => G[<<g, i>>] = G[<<h, i>>]

Ranked(G, I, F, m, r) ==
  /\ m \in Nat /\ r \in [I -> 0 .. m] /\ F # {}
  /\ G \in [[I -> F] \X I -> F] /\ Depends(G, I, F, r)

Solution(g, G, I, F) == g \in [I -> F] /\ \A i \in I : g[i] = G[<<g, i>>]

LEMMA Recursion ==
  ASSUME NEW I, NEW F, NEW m, NEW r, NEW G, Ranked(G, I, F, m, r)
  PROVE  \E g : Solution(g, G, I, F)
<1> /\ m \in Nat /\ r \in [I -> 0 .. m] /\ F # {}
    /\ G \in [[I -> F] \X I -> F] /\ Depends(G, I, F, r)
  BY DEF Ranked
<1> PICK e \in F : TRUE
  OBVIOUS
<1> DEFINE Solves(g, k) == \A i \in I : r[i] < k => g[i] = G[<<g, i>>]
           T == {k \in Nat : \E g \in [I -> F] : Solves(g, k)}
<1>0. \A i \in I : r[i] \in Nat /\ r[i] <= m
  OBVIOUS
<1>1. 0 \in T
  <2>1. [i \in I |-> e] \in [I -> F]
    OBVIOUS
  <2>2. Solves([i \in I |-> e], 0)
    BY <1>0
  <2> QED
    BY <2>1, <2>2
<1>2. ASSUME NEW k \in T PROVE k + 1 \in T
  <2>1. PICK g \in [I -> F] : Solves(g, k)
    OBVIOUS
  <2> DEFINE h == [i \in I |-> IF r[i] = k THEN G[<<g, i>>] ELSE g[i]]
  <2>2. h \in [I -> F] /\ \A i \in I : h[i] = IF r[i] = k THEN G[<<g, i>>] ELSE g[i]
    OBVIOUS
  <2> HIDE DEF h
  <2>3. ASSUME NEW i \in I, r[i] < k + 1 PROVE h[i] = G[<<h, i>>]
    <3>1. ASSUME NEW j \in I, r[j] < r[i] PROVE h[j] = g[j]
      <4>1. r[j] # k
        BY <1>0, <2>3, <3>1
      <4> QED
        BY <2>2, <4>1
    <3>2. G[<<h, i>>] = G[<<g, i>>]
      BY <2>2, <3>1 DEF Depends
    <3>3. r[i] = k \/ r[i] < k
      <4>1. PICK x \in Nat, n \in Nat : x = r[i] /\ n = k
        BY <1>0
      <4>2. x < n + 1
        BY <2>3, <4>1
      <4>3. x = n \/ x < n
        BY <4>2, Below
      <4> QED
        BY <4>1, <4>3
    <3> QED
      BY <2>1, <2>2, <3>2, <3>3
  <2> QED
    BY <2>2, <2>3
<1>3. T = Nat
  <2>1. T \in SUBSET Nat
    OBVIOUS
  <2> HIDE DEF T
  <2> QED
    BY <1>1, <1>2, <2>1, Induct
<1>4. m + 1 \in T
  <2> HIDE DEF T
  <2> QED
    BY <1>3
<1>5. PICK g \in [I -> F] : Solves(g, m + 1)
  BY <1>4
<1>6. \A i \in I : r[i] < m + 1
  BY <1>0
<1> QED
  BY <1>5, <1>6 DEF Solution

(* It has no other one, with values in F or not.                           *)
Follows(f, g, G, I, r) ==
  \A i \in I : (\A j \in I : r[j] < r[i] => f[j] = g[j]) => f[i] = G[<<g, i>>]

LEMMA RecursionUnique ==
  ASSUME NEW I, NEW F, NEW m, NEW r, NEW G, Ranked(G, I, F, m, r),
         NEW g, Solution(g, G, I, F), NEW f, Follows(f, g, G, I, r)
  PROVE  \A i \in I : f[i] = g[i]
<1> /\ m \in Nat /\ r \in [I -> 0 .. m]
    /\ \A i \in I : g[i] = G[<<g, i>>]
    /\ \A i \in I : (\A j \in I : r[j] < r[i] => f[j] = g[j]) => f[i] = G[<<g, i>>]
  BY DEF Ranked, Solution, Follows
<1> SUFFICES ASSUME NEW i0 \in I, f[i0] # g[i0] PROVE FALSE
  OBVIOUS
<1> DEFINE T == {k \in Nat : \E i \in I : r[i] = k /\ f[i] # g[i]}
<1>1. T \in SUBSET Nat /\ T # {}
  OBVIOUS
<1>2. PICK k \in T : \A l \in T : k <= l
  <2> HIDE DEF T
  <2> QED
    BY <1>1, Least
<1>3. PICK i \in I : r[i] = k /\ f[i] # g[i]
  BY <1>2
<1>4. \A j \in I : r[j] < r[i] => f[j] = g[j]
  BY <1>2, <1>3
<1> QED
  BY <1>3, <1>4

-----------------------------------------------------------------------------
(* The reference: what a reader that has all bytes finds.                  *)

Found == Nat \X Seq(Nat)
Places == Nat \ {0}

LEMMA Elements ==
  ASSUME NEW h \in Seq(Nat)
  PROVE  \A j \in 1 .. Len(h) : h[j] \in Nat
OBVIOUS

LEMMA BytesTaken ==
  ASSUME NEW bytes \in Seq(Nat), NEW i \in Nat, NEW j \in Nat, i >= 1, j <= Len(bytes)
  PROVE  /\ SubSeq(bytes, i, j) \in Seq(Nat)
         /\ i <= Len(bytes) => bytes[i] \in Nat
OBVIOUS

LEMMA FrameAtTyped ==
  ASSUME NEW bytes \in Seq(Nat), NEW i \in Places, i + 3 <= Len(bytes)
  PROVE  /\ LengthAt(bytes, i) \in Nat
         /\ i + 3 + LengthAt(bytes, i) <= Len(bytes) => FrameAt(bytes, i) \in Found
<1>1. Len(bytes) \in Nat /\ i \in Nat /\ i >= 1
  BY DEF Places
<1>2. bytes[i] \in Nat /\ bytes[i + 2] \in Nat /\ bytes[i + 3] \in Nat
  <2>1. i \in 1 .. Len(bytes) /\ i + 2 \in 1 .. Len(bytes) /\ i + 3 \in 1 .. Len(bytes)
    BY <1>1
  <2> QED
    BY <2>1, Elements
<1>3. LengthAt(bytes, i) \in Nat
  <2>1. PICK x \in Nat, y \in Nat : x = bytes[i + 2] /\ y = bytes[i + 3]
    BY <1>2
  <2>2. x + 256 * y \in Nat
    OBVIOUS
  <2> QED
    BY <2>1, <2>2 DEF LengthAt
<1>4. ASSUME i + 3 + LengthAt(bytes, i) <= Len(bytes) PROVE FrameAt(bytes, i) \in Found
  <2>1. SubSeq(bytes, i + 4, i + 3 + LengthAt(bytes, i)) \in Seq(Nat)
    <3>1. i + 4 \in Nat /\ i + 3 + LengthAt(bytes, i) \in Nat /\ i + 4 >= 1
      BY <1>1, <1>3
    <3> QED
      BY <1>4, <3>1, BytesTaken
  <2> QED
    BY <1>2, <2>1 DEF FrameAt, Found
<1> QED
  BY <1>3, <1>4

LEMMA FoundAtTyped ==
  ASSUME NEW bytes \in Seq(Nat), NEW again \in BOOLEAN, NEW g \in [Places -> Seq(Found)],
         NEW i \in Places
  PROVE  FoundAt(bytes, again, g, i) \in Seq(Found)
<1>1. Len(bytes) \in Nat /\ i \in Nat /\ i >= 1
  BY DEF Places
<1>2. g[i + 1] \in Seq(Found) /\ g[i + 4] \in Seq(Found) /\ <<>> \in Seq(Found)
  <2>1. i + 1 \in Places /\ i + 4 \in Places
    BY <1>1 DEF Places
  <2> QED
    BY <2>1
<1>3. ASSUME i + 3 <= Len(bytes), i + 3 + LengthAt(bytes, i) <= Len(bytes)
      PROVE  <<FrameAt(bytes, i)>> \o g[i + 4 + LengthAt(bytes, i)] \in Seq(Found)
  <2>1. LengthAt(bytes, i) \in Nat /\ FrameAt(bytes, i) \in Found
    BY <1>3, FrameAtTyped
  <2>2. i + 4 + LengthAt(bytes, i) \in Places
    BY <1>1, <2>1 DEF Places
  <2>3. PICK x \in Found, s \in Seq(Found) : x = FrameAt(bytes, i) /\ s = g[i + 4 + LengthAt(bytes, i)]
    BY <2>1, <2>2
  <2>4. <<x>> \o s \in Seq(Found)
    OBVIOUS
  <2> QED
    BY <2>3, <2>4
<1>4. i + 3 > Len(bytes) \/ i + 3 <= Len(bytes)
  BY <1>1
<1>5. i + 3 <= Len(bytes) => \/ i + 3 + LengthAt(bytes, i) > Len(bytes)
                             \/ i + 3 + LengthAt(bytes, i) <= Len(bytes)
  <2>1. ASSUME i + 3 <= Len(bytes) PROVE LengthAt(bytes, i) \in Nat
    BY <2>1, FrameAtTyped
  <2> QED
    BY <1>1, <2>1
<1> QED
  BY <1>2, <1>3, <1>4, <1>5 DEF FoundAt

(* A place looks at later ones only, and not beyond the end.               *)
SameAfter(bytes, g, h, i) == \A j \in Places : i <= Len(bytes) /\ j > i => g[j] = h[j]

LEMMA FoundAtLater ==
  ASSUME NEW bytes \in Seq(Nat), NEW again \in BOOLEAN, NEW g, NEW h, NEW i \in Places,
         SameAfter(bytes, g, h, i)
  PROVE  FoundAt(bytes, again, g, i) = FoundAt(bytes, again, h, i)
<1>1. Len(bytes) \in Nat /\ i \in Nat /\ i >= 1
  BY DEF Places
<1>2. CASE i > Len(bytes)
  BY <1>2 DEF FoundAt
<1>3. CASE i <= Len(bytes)
  <2>1. g[i + 1] = h[i + 1] /\ g[i + 4] = h[i + 4]
    <3>1. i + 1 \in Places /\ i + 1 > i /\ i + 4 \in Places /\ i + 4 > i
      BY <1>1 DEF Places
    <3> QED
      BY <1>3, <3>1 DEF SameAfter
  <2>2. i + 3 <= Len(bytes) => g[i + 4 + LengthAt(bytes, i)] = h[i + 4 + LengthAt(bytes, i)]
    <3> SUFFICES ASSUME i + 3 <= Len(bytes)
                 PROVE  g[i + 4 + LengthAt(bytes, i)] = h[i + 4 + LengthAt(bytes, i)]
      OBVIOUS
    <3>1. LengthAt(bytes, i) \in Nat
      BY FrameAtTyped
    <3>2. i + 4 + LengthAt(bytes, i) \in Places /\ i + 4 + LengthAt(bytes, i) > i
      BY <1>1, <3>1 DEF Places
    <3> QED
      BY <1>3, <3>2 DEF SameAfter
  <2>3. i + 3 > Len(bytes) \/ i + 3 <= Len(bytes)
    BY <1>1
  <2> QED
    BY <2>1, <2>2, <2>3 DEF FoundAt
<1> QED
  BY <1>1, <1>2, <1>3

LEMMA ScanEquation ==
  ASSUME NEW bytes \in Seq(Nat), NEW again \in BOOLEAN
  PROVE  /\ ScanFrom(bytes, again) \in [Places -> Seq(Found)]
         /\ \A i \in Places : ScanFrom(bytes, again)[i] = FoundAt(bytes, again, ScanFrom(bytes, again), i)
<1> DEFINE n == Len(bytes)
           F == Seq(Found)
           r == [i \in Places |-> IF i > n THEN 0 ELSE n + 1 - i]
           G == [x \in [Places -> F] \X Places |-> FoundAt(bytes, again, x[1], x[2])]
<1>1. n \in Nat /\ \A i \in Places : i \in Nat /\ i >= 1
  BY DEF Places
<1>2. /\ r \in [Places -> 0 .. n]
      /\ \A i \in Places : r[i] = IF i > n THEN 0 ELSE n + 1 - i
  BY <1>1
<1>3. \A g \in [Places -> F], i \in Places : G[<<g, i>>] = FoundAt(bytes, again, g, i)
  <2>1. ASSUME NEW g \in [Places -> F], NEW i \in Places
        PROVE  G[<<g, i>>] = FoundAt(bytes, again, g, i)
    <3>1. <<g, i>> \in [Places -> F] \X Places
      OBVIOUS
    <3> QED
      BY <3>1
  <2> QED
    BY <2>1, Zenon
<1>4. G \in [[Places -> F] \X Places -> F]
  <2>1. ASSUME NEW x \in [Places -> F] \X Places
        PROVE  FoundAt(bytes, again, x[1], x[2]) \in F
    <3>1. x[1] \in [Places -> F] /\ x[2] \in Places
      OBVIOUS
    <3> QED
      BY <3>1, FoundAtTyped
  <2> QED
    BY <2>1
<1> HIDE DEF G
<1>5. \A i, j \in Places : i <= n /\ j > i => r[j] < r[i]
  BY <1>1, <1>2, SMTT(30)
<1> HIDE DEF r
<1>6. Depends(G, Places, F, r)
  <2>1. ASSUME NEW g \in [Places -> F], NEW h \in [Places -> F], NEW i \in Places,
               \A j \in Places : r[j] < r[i] => g[j] = h[j]
        PROVE  G[<<g, i>>] = G[<<h, i>>]
    <3>1. SameAfter(bytes, g, h, i)
      BY <1>5, <2>1 DEF SameAfter
    <3>2. FoundAt(bytes, again, g, i) = FoundAt(bytes, again, h, i)
      BY <3>1, FoundAtLater
    <3> QED
      BY <1>3, <3>2
  <2> QED
    BY <2>1 DEF Depends
<1>7. Ranked(G, Places, F, n, r)
  <2>1. <<>> \in F
    OBVIOUS
  <2>2. n \in Nat /\ r \in [Places -> 0 .. n]
    BY <1>1, <1>2
  <2> HIDE DEF n, F
  <2> QED
    BY <1>4, <1>6, <2>1, <2>2 DEF Ranked
<1>8. PICK g \in [Places -> F] : \A i \in Places : g[i] = G[<<g, i>>]
  <2> HIDE DEF n, F
  <2>1. PICK g : Solution(g, G, Places, F)
    BY <1>7, Recursion
  <2> QED
    BY <2>1 DEF Solution
<1> DEFINE f == ScanFrom(bytes, again)
<1>9. f = [i \in Places |-> FoundAt(bytes, again, f, i)]
  <2>1. g = [i \in Places |-> FoundAt(bytes, again, g, i)]
    BY <1>3, <1>8
  <2>2. f = CHOOSE x : x = [i \in Places |-> FoundAt(bytes, again, x, i)]
    BY DEF ScanFrom, Places
  <2> HIDE DEF f
  <2> QED
    BY <2>1, <2>2
<1>10. \A i \in Places : f[i] = FoundAt(bytes, again, f, i)
  <2> HIDE DEF f
  <2> QED
    BY <1>9
<1> HIDE DEF f
<1>11. \A i \in Places : f[i] = g[i]
  <2>1. ASSUME NEW i \in Places, \A j \in Places : r[j] < r[i] => f[j] = g[j]
        PROVE  f[i] = G[<<g, i>>]
    <3>1. SameAfter(bytes, f, g, i)
      BY <1>5, <2>1 DEF SameAfter
    <3>2. FoundAt(bytes, again, f, i) = FoundAt(bytes, again, g, i)
      BY <3>1, FoundAtLater
    <3> QED
      BY <1>3, <1>10, <3>2
  <2> HIDE DEF n, F
  <2>2. Follows(f, g, G, Places, r)
    BY <2>1 DEF Follows
  <2>3. Solution(g, G, Places, F)
    BY <1>8 DEF Solution
  <2> QED
    BY <1>7, <2>2, <2>3, RecursionUnique
<1>12. f = [i \in Places |-> f[i]]
  BY <1>9
<1>13. f \in [Places -> Seq(Found)]
  BY <1>11, <1>12
<1> QED
  BY <1>10, <1>13 DEF f

LEMMA ScanUnfolds ==
  ASSUME NEW w \in Seq(Nat), NEW again \in BOOLEAN, NEW p \in Places
  PROVE  /\ ScanFrom(w, again)[p] \in Seq(Found)
         /\ p > Len(w) => ScanFrom(w, again)[p] = <<>>
         /\ p <= Len(w) /\ ~AtMagic(w, p) =>
              ScanFrom(w, again)[p] = IF again THEN ScanFrom(w, again)[p + 1] ELSE <<>>
         /\ AtMagic(w, p) /\ p + 3 > Len(w) => ScanFrom(w, again)[p] = <<>>
         /\ AtMagic(w, p) /\ p + 3 <= Len(w) /\ LengthAt(w, p) > Capacity =>
              ScanFrom(w, again)[p] = IF again THEN ScanFrom(w, again)[p + 4] ELSE <<>>
         /\ AtMagic(w, p) /\ p + 3 <= Len(w) /\ LengthAt(w, p) <= Capacity
            /\ p + 3 + LengthAt(w, p) > Len(w) => ScanFrom(w, again)[p] = <<>>
         /\ AtMagic(w, p) /\ p + 3 + LengthAt(w, p) <= Len(w)
            /\ LengthAt(w, p) <= Capacity /\ p + 3 <= Len(w) =>
              ScanFrom(w, again)[p] =
                <<FrameAt(w, p)>> \o ScanFrom(w, again)[p + 4 + LengthAt(w, p)]
<1>1. ScanFrom(w, again) \in [Places -> Seq(Found)]
      /\ ScanFrom(w, again)[p] = FoundAt(w, again, ScanFrom(w, again), p)
  BY ScanEquation
<1>2. Len(w) \in Nat /\ p \in Nat /\ p >= 1
  BY DEF Places
<1>3. AtMagic(w, p) => p < Len(w)
  BY DEF AtMagic
<1>4. p + 3 <= Len(w) => LengthAt(w, p) \in Nat
  BY FrameAtTyped
<1>5. Capacity \in Nat
  BY ReaderAssumption
<1> DEFINE f == ScanFrom(w, again)
<1>6. f \in [Places -> Seq(Found)] /\ f[p] = FoundAt(w, again, f, p)
  BY <1>1
<1> HIDE DEF f
<1>7. f[p] \in Seq(Found)
  BY <1>6
<1>10. /\ p > Len(w) => f[p] = <<>>
       /\ p <= Len(w) /\ ~AtMagic(w, p) => f[p] = IF again THEN f[p + 1] ELSE <<>>
  BY <1>2, <1>6 DEF FoundAt
<1>8. /\ AtMagic(w, p) /\ p + 3 > Len(w) => f[p] = <<>>
      /\ AtMagic(w, p) /\ p + 3 <= Len(w) /\ LengthAt(w, p) > Capacity =>
           f[p] = IF again THEN f[p + 4] ELSE <<>>
  BY <1>2, <1>3, <1>6 DEF FoundAt
<1>9. /\ AtMagic(w, p) /\ p + 3 <= Len(w) /\ LengthAt(w, p) <= Capacity
         /\ p + 3 + LengthAt(w, p) > Len(w) => f[p] = <<>>
      /\ AtMagic(w, p) /\ p + 3 + LengthAt(w, p) <= Len(w)
         /\ LengthAt(w, p) <= Capacity /\ p + 3 <= Len(w) =>
           f[p] = <<FrameAt(w, p)>> \o f[p + 4 + LengthAt(w, p)]
  <2> SUFFICES ASSUME AtMagic(w, p), p + 3 <= Len(w), LengthAt(w, p) <= Capacity
               PROVE  /\ p + 3 + LengthAt(w, p) > Len(w) => f[p] = <<>>
                      /\ p + 3 + LengthAt(w, p) <= Len(w) =>
                           f[p] = <<FrameAt(w, p)>> \o f[p + 4 + LengthAt(w, p)]
    OBVIOUS
  <2>1. PICK l \in Nat, n \in Nat : l = LengthAt(w, p) /\ n = Len(w)
    BY <1>2, <1>4
  <2>2. ~(p > n) /\ ~(p + 3 > n) /\ ~(l > Capacity)
    BY <1>2, <1>3, <1>5, <2>1
  <2>3. f[p] = IF p + 3 + l > n THEN <<>> ELSE <<FrameAt(w, p)>> \o f[p + 4 + l]
    BY <1>6, <2>1, <2>2 DEF FoundAt
  <2>4. p + 3 + l <= n => ~(p + 3 + l > n)
    BY <1>2
  <2> QED
    BY <2>1, <2>3, <2>4
<1> QED
  BY <1>7, <1>8, <1>9, <1>10 DEF f

LEMMA ScanFrame ==
  ASSUME NEW w \in Seq(Nat), NEW again \in BOOLEAN, NEW p \in Places, NEW n \in Nat,
         AtMagic(w, p), p + 3 <= Len(w), LengthAt(w, p) = n, n <= Capacity, p + 3 + n <= Len(w)
  PROVE  ScanFrom(w, again)[p] = <<FrameAt(w, p)>> \o ScanFrom(w, again)[p + 4 + n]
<1> DEFINE f == ScanFrom(w, again)
<1>1. f[p] = FoundAt(w, again, f, p)
  BY ScanEquation
<1> HIDE DEF f
<1>2. Len(w) \in Nat /\ p \in Nat /\ Capacity \in Nat
  BY ReaderAssumption DEF Places
<1>3. ~(p > Len(w)) /\ ~(p + 3 > Len(w)) /\ ~(n > Capacity) /\ ~(p + 3 + n > Len(w))
  BY <1>2
<1>4. f[p] = <<FrameAt(w, p)>> \o f[p + 4 + n]
  BY <1>1, <1>3 DEF FoundAt
<1> QED
  BY <1>4 DEF f

(* In the bytes w the header h and the payload y of a frame whose first    *)
(* byte is at p; Held if nothing follows them.                             *)
Inside(w, p, h, y) ==
  /\ w \in Seq(Nat) /\ h \in Seq(Nat) /\ y \in Seq(Nat) /\ p \in Places
  /\ p + Len(h) + Len(y) <= Len(w) + 1
  /\ \A j \in 1 .. Len(h) : w[p + j - 1] = h[j]
  /\ \A j \in 1 .. Len(y) : w[p + Len(h) + j - 1] = y[j]

Held(b, p, h, y) == Inside(b, p, h, y) /\ Len(b) + 1 = p + Len(h) + Len(y)

LEMMA PlaceWithin ==
  ASSUME NEW p \in Nat, NEW n \in Nat, NEW l \in Nat, NEW j \in 1 .. n,
         p >= 1, p + n <= l + 1
  PROVE  p + j - 1 \in 1 .. l
OBVIOUS

LEMMA HeldHeader ==
  ASSUME NEW b, NEW p, NEW h, NEW c \in Nat, Held(b, p, h, <<>>)
  PROVE  Held(Append(b, c), p, Append(h, c), <<>>)
<1>1. /\ b \in Seq(Nat) /\ h \in Seq(Nat) /\ p \in Nat /\ p >= 1 /\ Len(b) + 1 = p + Len(h)
      /\ \A j \in 1 .. Len(h) : b[p + j - 1] = h[j]
  BY DEF Held, Inside, Places
<1>2. /\ Append(b, c) \in Seq(Nat) /\ Append(h, c) \in Seq(Nat)
      /\ Len(Append(b, c)) = Len(b) + 1 /\ Len(Append(h, c)) = Len(h) + 1
      /\ \A i \in 1 .. Len(b) : Append(b, c)[i] = b[i]
      /\ Append(b, c)[Len(b) + 1] = c
      /\ \A i \in 1 .. Len(h) : Append(h, c)[i] = h[i]
      /\ Append(h, c)[Len(h) + 1] = c
  BY <1>1
<1>3. Len(b) \in Nat /\ Len(h) \in Nat
  BY <1>1
<1>4. ASSUME NEW j \in 1 .. Len(h) + 1 PROVE Append(b, c)[p + j - 1] = Append(h, c)[j]
  <2>1. CASE j = Len(h) + 1
    <3>1. p + j - 1 = Len(b) + 1
      BY <1>1, <1>3, <2>1
    <3> QED
      BY <1>2, <2>1, <3>1
  <2>2. CASE j # Len(h) + 1
    <3>1. j \in 1 .. Len(h)
      BY <1>3, <2>2
    <3>2. p \in Nat /\ p >= 1 /\ p + Len(h) <= Len(b) + 1
      BY <1>1, <1>3
    <3>3. p + j - 1 \in 1 .. Len(b)
      BY <1>3, <3>1, <3>2, PlaceWithin
    <3> QED
      BY <1>1, <1>2, <3>1, <3>3
  <2> QED
    BY <2>1, <2>2
<1> QED
  BY <1>1, <1>2, <1>3, <1>4, SMTT(30) DEF Held, Inside, Places

LEMMA Concat ==
  ASSUME NEW x \in Seq(Nat), NEW y \in Seq(Nat)
  PROVE  /\ x \o y \in Seq(Nat) /\ Len(x \o y) = Len(x) + Len(y)
         /\ \A i \in 1 .. Len(x) : (x \o y)[i] = x[i]
         /\ \A i \in 1 .. Len(y) : (x \o y)[Len(x) + i] = y[i]
<1>1. x \o y \in Seq(Nat) /\ Len(x \o y) = Len(x) + Len(y)
  OBVIOUS
<1>2. \A i \in 1 .. Len(x) : (x \o y)[i] = x[i]
  OBVIOUS
<1>3. \A i \in 1 .. Len(y) : (x \o y)[Len(x) + i] = y[i]
  OBVIOUS
<1> QED
  BY <1>1, <1>2, <1>3

LEMMA Followed ==
  ASSUME NEW x \in Seq(Nat), NEW y \in Seq(Nat)
  PROVE  \E z \in Seq(Nat) : /\ z = x \o y /\ Len(z) = Len(x) + Len(y)
                             /\ \A i \in 1 .. Len(x) : z[i] = x[i]
                             /\ \A i \in 1 .. Len(y) : z[Len(x) + i] = y[i]
<1>1. /\ x \o y \in Seq(Nat) /\ Len(x \o y) = Len(x) + Len(y)
      /\ \A i \in 1 .. Len(x) : (x \o y)[i] = x[i]
      /\ \A i \in 1 .. Len(y) : (x \o y)[Len(x) + i] = y[i]
  BY Concat
<1>2. PICK z \in Seq(Nat) : z = x \o y
  BY <1>1
<1> QED
  BY <1>1, <1>2

LEMMA HeldPayload ==
  ASSUME NEW b, NEW p, NEW h, NEW y, NEW s \in Seq(Nat), Held(b, p, h, y)
  PROVE  Held(b \o s, p, h, y \o s)
<1>1. /\ b \in Seq(Nat) /\ h \in Seq(Nat) /\ y \in Seq(Nat) /\ p \in Nat /\ p >= 1 /\ p \in Places
      /\ Len(b) + 1 = p + Len(h) + Len(y)
  BY DEF Held, Inside, Places
<1>2. PICK l \in Nat, m \in Nat, n \in Nat, o \in Nat :
        l = Len(b) /\ m = Len(h) /\ n = Len(y) /\ o = Len(s)
  BY <1>1
<1>3. p \in Nat /\ p >= 1 /\ l + 1 = p + m + n
  BY <1>1, <1>2
<1>4. /\ \A j \in 1 .. m : b[p + j - 1] = h[j]
      /\ \A j \in 1 .. n : b[p + m + j - 1] = y[j]
  BY <1>2 DEF Held, Inside
<1>5. PICK u \in Seq(Nat) : /\ u = b \o s /\ Len(u) = l + o
                            /\ \A i \in 1 .. l : u[i] = b[i]
                            /\ \A i \in 1 .. o : u[l + i] = s[i]
  <2>1. PICK u \in Seq(Nat) : /\ u = b \o s /\ Len(u) = Len(b) + Len(s)
                              /\ \A i \in 1 .. Len(b) : u[i] = b[i]
                              /\ \A i \in 1 .. Len(s) : u[Len(b) + i] = s[i]
    BY <1>1, Followed
  <2> QED
    BY <1>2, <2>1
<1>6. PICK v \in Seq(Nat) : /\ v = y \o s /\ Len(v) = n + o
                            /\ \A i \in 1 .. n : v[i] = y[i]
                            /\ \A i \in 1 .. o : v[n + i] = s[i]
  <2>1. PICK v \in Seq(Nat) : /\ v = y \o s /\ Len(v) = Len(y) + Len(s)
                              /\ \A i \in 1 .. Len(y) : v[i] = y[i]
                              /\ \A i \in 1 .. Len(s) : v[Len(y) + i] = s[i]
    BY <1>1, Followed
  <2> QED
    BY <1>2, <2>1
<1>7. ASSUME NEW j \in 1 .. m PROVE u[p + j - 1] = h[j]
  <2>1. p + m <= l + 1
    BY <1>3
  <2>2. p + j - 1 \in 1 .. l
    BY <1>3, <2>1, PlaceWithin
  <2> QED
    BY <1>4, <1>5, <2>2
<1>8. ASSUME NEW j \in 1 .. n + o PROVE u[p + m + j - 1] = v[j]
  <2>1. CASE j <= n
    <3>1. j \in 1 .. n
      BY <2>1
    <3>2. p + m \in Nat /\ p + m >= 1 /\ (p + m) + n <= l + 1
      BY <1>3
    <3>3. p + m + j - 1 \in 1 .. l
      BY <3>1, <3>2, PlaceWithin
    <3> QED
      BY <1>4, <1>5, <1>6, <3>1, <3>3
  <2>2. CASE j > n
    <3>1. j - n \in 1 .. o /\ j = n + (j - n)
      BY <2>2
    <3>2. PICK i \in 1 .. o : j = n + i
      BY <3>1
    <3>3. p + m + j - 1 = l + i
      BY <1>3, <3>2
    <3> QED
      BY <1>5, <1>6, <3>2, <3>3
  <2> QED
    BY <2>1, <2>2
<1>9. (l + o) + 1 = p + m + (n + o) /\ p + m + (n + o) <= (l + o) + 1
  BY <1>3
<1>10. Inside(u, p, h, v)
  BY <1>1, <1>2, <1>5, <1>6, <1>7, <1>8, <1>9 DEF Inside
<1>11. Len(u) + 1 = p + Len(h) + Len(v)
  BY <1>2, <1>5, <1>6, <1>9
<1> QED
  BY <1>5, <1>6, <1>10, <1>11 DEF Held

LEMMA HeldNothing ==
  ASSUME NEW b \in Seq(Nat)
  PROVE  Held(b, Len(b) + 1, <<>>, <<>>)
<1>1. Len(b) \in Nat /\ <<>> \in Seq(Nat) /\ Len(<<>>) = 0
  OBVIOUS
<1>2. \A y : 1 .. 0 = {} /\ y \notin {}
  OBVIOUS
<1> QED
  BY <1>1, <1>2 DEF Held, Inside, Places

LEMMA HeldLast ==
  ASSUME NEW b \in Seq(Nat), NEW c \in Nat
  PROVE  Held(Append(b, c), Len(b) + 1, <<c>>, <<>>)
<1>1. Held(Append(b, c), Len(b) + 1, Append(<<>>, c), <<>>)
  BY HeldNothing, HeldHeader
<1>2. Append(<<>>, c) = <<c>>
  OBVIOUS
<1> QED
  BY <1>1, <1>2

(* Whatever follows what is held does not change it.                       *)
LEMMA HeldInside ==
  ASSUME NEW b, NEW p, NEW h, NEW y, NEW t \in Seq(Nat), Held(b, p, h, y)
  PROVE  Inside(b \o t, p, h, y)
<1>1. /\ b \in Seq(Nat) /\ h \in Seq(Nat) /\ y \in Seq(Nat) /\ p \in Nat /\ p >= 1 /\ p \in Places
      /\ Len(b) + 1 = p + Len(h) + Len(y)
  BY DEF Held, Inside, Places
<1>2. PICK l \in Nat, m \in Nat, n \in Nat, o \in Nat :
        l = Len(b) /\ m = Len(h) /\ n = Len(y) /\ o = Len(t)
  BY <1>1
<1>3. p \in Nat /\ p >= 1 /\ l + 1 = p + m + n
  BY <1>1, <1>2
<1>4. /\ \A j \in 1 .. m : b[p + j - 1] = h[j]
      /\ \A j \in 1 .. n : b[p + m + j - 1] = y[j]
  BY <1>2 DEF Held, Inside
<1>5. PICK w \in Seq(Nat) : w = b \o t /\ Len(w) = l + o /\ \A i \in 1 .. l : w[i] = b[i]
  <2>1. /\ b \o t \in Seq(Nat) /\ Len(b \o t) = Len(b) + Len(t)
        /\ \A i \in 1 .. Len(b) : (b \o t)[i] = b[i]
    BY <1>1, Concat
  <2>2. PICK w \in Seq(Nat) : w = b \o t
    BY <2>1
  <2> QED
    BY <1>2, <2>1, <2>2
<1>6. ASSUME NEW j \in 1 .. m PROVE w[p + j - 1] = h[j]
  <2>1. p + m <= l + 1
    BY <1>3
  <2>2. p + j - 1 \in 1 .. l
    BY <1>3, <2>1, PlaceWithin
  <2> QED
    BY <1>4, <1>5, <2>2
<1>7. ASSUME NEW j \in 1 .. n PROVE w[p + m + j - 1] = y[j]
  <2>1. p + m \in Nat /\ p + m >= 1 /\ (p + m) + n <= l + 1
    BY <1>3
  <2>2. p + m + j - 1 \in 1 .. l
    BY <2>1, PlaceWithin
  <2> QED
    BY <1>4, <1>5, <2>2
<1>8. p + m + n <= (l + o) + 1
  BY <1>3
<1>9. Inside(w, p, h, y)
  BY <1>1, <1>2, <1>5, <1>6, <1>7, <1>8 DEF Inside
<1> QED
  BY <1>5, <1>9

LEMMA InsideFacts ==
  ASSUME NEW w, NEW p, NEW h, NEW y, Inside(w, p, h, y)
  PROVE  /\ w \in Seq(Nat) /\ h \in Seq(Nat) /\ y \in Seq(Nat) /\ p \in Places
         /\ p \in Nat /\ p >= 1 /\ Len(w) \in Nat /\ Len(h) \in Nat /\ Len(y) \in Nat
         /\ p + Len(h) + Len(y) <= Len(w) + 1
         /\ Len(h) >= 1 => w[p] = h[1]
         /\ Len(h) >= 2 => w[p + 1] = h[2]
<1>1. /\ w \in Seq(Nat) /\ h \in Seq(Nat) /\ y \in Seq(Nat) /\ p \in Places
      /\ p \in Nat /\ p >= 1
      /\ p + Len(h) + Len(y) <= Len(w) + 1
  BY DEF Inside, Places
<1>2. Len(w) \in Nat /\ Len(h) \in Nat /\ Len(y) \in Nat
  BY <1>1
<1>3. \A j \in 1 .. Len(h) : w[p + j - 1] = h[j]
  BY DEF Inside
<1>4. p + 1 - 1 = p /\ p + 2 - 1 = p + 1 
  BY <1>1
<1>5. /\ Len(h) >= 1 => 1 \in 1 .. Len(h)
      /\ Len(h) >= 2 => 2 \in 1 .. Len(h)
  BY <1>2
<1> QED
  BY <1>1, <1>2, <1>3, <1>4, <1>5

LEMMA MagicFacts ==
  ASSUME NEW c, NEW d
  PROVE  /\ <<c, d>> \in Magics <=> \E m \in Magics : m[1] = c /\ m[2] = d
         /\ c \in FirstBytes <=> \E m \in Magics : m[1] = c
<1>1. \A m \in Magics : m = <<m[1], m[2]>>
  BY ReaderAssumption
<1> QED
  BY <1>1 DEF FirstBytes

LEMMA MatchFacts ==
  ASSUME NEW h \in Seq(Nat)
  PROVE  /\ Len(h) = 1 => (Matches(h) <=> h[1] \in FirstBytes)
         /\ Len(h) >= 2 => (Matches(h) <=> <<h[1], h[2]>> \in Magics)
<1>1. DOMAIN h = 1 .. Len(h) /\ Len(h) \in Nat
  OBVIOUS
<1>2. ASSUME Len(h) = 1 PROVE Matches(h) <=> h[1] \in FirstBytes
  <2>1. DOMAIN h \cap {1, 2} = {1}
    BY <1>1, <1>2
  <2> QED
    BY <2>1 DEF Matches, FirstBytes
<1>3. ASSUME Len(h) >= 2 PROVE Matches(h) <=> <<h[1], h[2]>> \in Magics
  <2>1. DOMAIN h \cap {1, 2} = {1, 2}
    BY <1>1, <1>3
  <2>2. Matches(h) <=> \E m \in Magics : \A i \in {1, 2} : h[i] = m[i]
    BY <2>1 DEF Matches
  <2>3. Matches(h) <=> \E m \in Magics : m[1] = h[1] /\ m[2] = h[2]
    BY <2>2
  <2>4. <<h[1], h[2]>> \in Magics <=> \E m \in Magics : m[1] = h[1] /\ m[2] = h[2]
    BY MagicFacts
  <2> QED
    BY <2>3, <2>4
<1> QED
  BY <1>2, <1>3

LEMMA NotEmpty ==
  ASSUME NEW h \in Seq(Nat)
  PROVE  h = <<>> <=> Len(h) = 0
OBVIOUS


LEMMA InsideBytes ==
  ASSUME NEW w, NEW p, NEW h, NEW y, Inside(w, p, h, y), Len(h) = 4
  PROVE  h \in Seq(Nat) /\ w[p] = h[1] /\ w[p + 1] = h[2] /\ w[p + 2] = h[3] /\ w[p + 3] = h[4]
<1>1. h \in Seq(Nat) /\ p \in Nat
  BY DEF Inside, Places
<1>3. \A j \in 1 .. 4 : w[p + j - 1] = h[j]
  BY DEF Inside
<1>4. p + 1 - 1 = p /\ p + 2 - 1 = p + 1 /\ p + 3 - 1 = p + 2 /\ p + 4 - 1 = p + 3
  BY <1>1
<1>5. w[p + 1 - 1] = h[1] /\ w[p + 2 - 1] = h[2] /\ w[p + 3 - 1] = h[3] /\ w[p + 4 - 1] = h[4]
  BY <1>3
<1> QED
  BY <1>1, <1>4, <1>5

LEMMA FourBytes ==
  ASSUME NEW h \in Seq(Nat), Len(h) = 4
  PROVE  h[3] \in Nat /\ h[4] \in Nat
<1>1. \A j \in 1 .. Len(h) : h[j] \in Nat
  BY Elements
<1>2. 3 \in 1 .. 4 /\ 4 \in 1 .. 4
  OBVIOUS
<1> QED
  BY <1>1, <1>2

LEMMA LengthTyped ==
  ASSUME NEW h \in Seq(Nat), Len(h) = 4
  PROVE  LengthOf(h) \in Nat
<1>1. PICK x \in Nat, y \in Nat : h[3] = x /\ h[4] = y
  BY FourBytes
<1>2. x + 256 * y \in Nat
  OBVIOUS
<1> QED
  BY <1>1, <1>2 DEF LengthOf

LEMMA SameBytes ==
  ASSUME NEW x \in Seq(Nat), NEW y \in Seq(Nat), Len(x) = Len(y),
         \A j \in 1 .. Len(y) : x[j] = y[j]
  PROVE  x = y
BY SMTT(30)

LEMMA BytesBetween ==
  ASSUME NEW w \in Seq(Nat), NEW i \in Nat, NEW n \in Nat, NEW k \in Nat,
         i >= 1, k <= Len(w), k - i + 1 = n
  PROVE  /\ SubSeq(w, i, k) \in Seq(Nat) /\ Len(SubSeq(w, i, k)) = n
         /\ \A j \in 1 .. n : SubSeq(w, i, k)[j] = w[i + j - 1]
<1>1. SubSeq(w, i, k) \in Seq(Nat)
  OBVIOUS
<1>2. Len(SubSeq(w, i, k)) = n
  OBVIOUS
<1>3. \A j \in 1 .. n : SubSeq(w, i, k)[j] = w[i + j - 1]
  BY SMTT(30)
<1> QED
  BY <1>1, <1>2, <1>3

(* What is found from x on, by a reader that goes on.                      *)
GoesOn(again, x) == IF again THEN x ELSE <<>>
Resumes(again) == \A x : GoesOn(again, x) = x
Stops(again) == \A x : GoesOn(again, x) = <<>>

LEMMA NoMagicThere ==
  ASSUME NEW w, NEW p, NEW h, NEW again \in BOOLEAN, Inside(w, p, h, <<>>), Len(h) >= 1, ~Matches(h)
  PROVE  ScanFrom(w, again)[p] = GoesOn(again, ScanFrom(w, again)[p + 1])
<1>1. /\ w \in Seq(Nat) /\ h \in Seq(Nat) /\ p \in Places /\ p \in Nat
      /\ Len(w) \in Nat /\ Len(h) \in Nat /\ p + Len(h) + Len(<<>>) <= Len(w) + 1
  BY InsideFacts
<1>2. p <= Len(w)
  <2>1. Len(<<>>) = 0
    OBVIOUS
  <2>2. p + Len(h) <= Len(w) + 1
    BY <1>1, <2>1
  <2> QED
    BY <1>1, <2>2
<1>3. w[p] = h[1] /\ (Len(h) >= 2 => w[p + 1] = h[2])
  BY InsideFacts
<1>4. ~AtMagic(w, p)
  <2>1. CASE Len(h) = 1
    <3>1. h[1] \notin FirstBytes
      BY <1>1, <2>1, MatchFacts
    <3>2. <<w[p], w[p + 1]>> \notin Magics
      <4> SUFFICES ASSUME <<w[p], w[p + 1]>> \in Magics PROVE FALSE
        OBVIOUS
      <4>1. \E m \in Magics : m[1] = w[p]
        BY MagicFacts
      <4> QED
        BY <1>3, <3>1, <4>1, MagicFacts
    <3> QED
      BY <3>2 DEF AtMagic
  <2>2. CASE Len(h) >= 2
    <3>1. <<h[1], h[2]>> \notin Magics
      BY <1>1, <2>2, MatchFacts
    <3> QED
      BY <1>3, <2>2, <3>1 DEF AtMagic
  <2>3. Len(h) = 1 \/ Len(h) >= 2
    <3>1. Len(h) \in Nat
      BY <1>1
    <3> QED
      BY <3>1
  <2> QED
    BY <2>1, <2>2, <2>3
<1> QED
  BY <1>1, <1>2, <1>4, ScanUnfolds DEF GoesOn

(* A header that is complete.                                              *)
LEMMA HeaderThere ==
  ASSUME NEW w, NEW p, NEW h, NEW y, Inside(w, p, h, y), Len(h) = 4, Matches(h)
  PROVE  /\ AtMagic(w, p) /\ p + 3 <= Len(w) /\ LengthAt(w, p) = LengthOf(h)
         /\ LengthOf(h) \in Nat /\ w[p] = h[1]
         /\ p + 3 + Len(y) <= Len(w) /\ Len(y) \in Nat /\ Len(w) \in Nat /\ p \in Nat
<1>1. /\ p \in Nat /\ Len(w) \in Nat /\ Len(y) \in Nat
      /\ p + Len(h) + Len(y) <= Len(w) + 1
  BY InsideFacts
<1>2. p + 3 <= Len(w) /\ p < Len(w) /\ p + 3 + Len(y) <= Len(w)
  <2>1. p + 4 + Len(y) <= Len(w) + 1
    BY <1>1
  <2> QED
    BY <1>1, <2>1
<1>3. h \in Seq(Nat) /\ w[p] = h[1] /\ w[p + 1] = h[2] /\ w[p + 2] = h[3] /\ w[p + 3] = h[4]
  BY InsideBytes
<1>4. <<h[1], h[2]>> \in Magics
  <2>1. Len(h) >= 2
    OBVIOUS
  <2> QED
    BY <1>3, <2>1, MatchFacts
<1>5. LengthOf(h) \in Nat
  <2>1. h[3] \in Nat /\ h[4] \in Nat
    BY <1>3, FourBytes
  <2> QED
    BY <2>1 DEF LengthOf
<1>6. LengthAt(w, p) = LengthOf(h)
  BY <1>3 DEF LengthAt, LengthOf
<1> QED
  BY <1>1, <1>2, <1>3, <1>4, <1>5, <1>6 DEF AtMagic

LEMMA TooLongThere ==
  ASSUME NEW w, NEW p, NEW h, NEW y, NEW again \in BOOLEAN, Inside(w, p, h, y),
         Len(h) = 4, Matches(h), LengthOf(h) > Capacity
  PROVE  ScanFrom(w, again)[p] = GoesOn(again, ScanFrom(w, again)[p + 4])
<1>1. w \in Seq(Nat) /\ p \in Places
  BY InsideFacts
<1>2. AtMagic(w, p) /\ p + 3 <= Len(w) /\ LengthAt(w, p) > Capacity
  BY HeaderThere
<1> QED
  BY <1>1, <1>2, ScanUnfolds DEF GoesOn

Whole(h, y) == Len(h) = 4 /\ LengthOf(h) = Len(y)

(* What a whole frame is found to be.                                      *)
One(h, y) == <<<<h[1], y>>>>

(* A length the payload array can hold.                                   *)
Fits(h) == LengthOf(h) <= Capacity

(* A reader at the header's first byte finds that frame and goes on after   *)
(* it.                                                                      *)
FindsFrame(w, p, h, y, again) ==
  ScanFrom(w, again)[p] = One(h, y) \o ScanFrom(w, again)[p + 4 + Len(y)]

LEMMA FrameThere ==
  ASSUME NEW w, NEW p, NEW h, NEW y, NEW again \in BOOLEAN, Inside(w, p, h, y),
         Whole(h, y), Matches(h), Fits(h)
  PROVE  FindsFrame(w, p, h, y, again)
<1>1. w \in Seq(Nat) /\ y \in Seq(Nat) /\ p \in Places
  BY InsideFacts
<1>2. /\ AtMagic(w, p) /\ p + 3 <= Len(w) /\ LengthAt(w, p) = Len(y) /\ w[p] = h[1]
      /\ p + 3 + Len(y) <= Len(w) /\ Len(y) \in Nat /\ Len(w) \in Nat /\ p \in Nat
  BY HeaderThere DEF Whole
<1>3. SubSeq(w, p + 4, p + 3 + Len(y)) = y
  <2>1. PICK n \in Nat, i \in Nat, k \in Nat : n = Len(y) /\ i = p + 4 /\ k = p + 3 + n
    BY <1>2
  <2>2. i >= 1 /\ k <= Len(w) /\ k - i + 1 = n
    BY <1>2, <2>1
  <2>3. /\ SubSeq(w, i, k) \in Seq(Nat) /\ Len(SubSeq(w, i, k)) = n
        /\ \A j \in 1 .. n : SubSeq(w, i, k)[j] = w[i + j - 1]
    BY <1>1, <2>2, BytesBetween
  <2>4. PICK z \in Seq(Nat) : z = SubSeq(w, i, k)
    BY <2>3
  <2>5. \A j \in 1 .. n : w[p + 4 + j - 1] = y[j]
    BY <2>1 DEF Inside, Whole
  <2>6. Len(z) = Len(y) /\ \A j \in 1 .. Len(y) : z[j] = y[j]
    BY <2>1, <2>3, <2>4, <2>5
  <2>7. z = y
    BY <1>1, <2>6, SameBytes
  <2> QED
    BY <2>1, <2>4, <2>7
<1>4. FrameAt(w, p) = <<h[1], y>>
  BY <1>2, <1>3 DEF FrameAt
<1>5. Len(y) <= Capacity
  BY DEF Whole, Fits
<1>6. ScanFrom(w, again)[p] = <<FrameAt(w, p)>> \o ScanFrom(w, again)[p + 4 + Len(y)]
  BY <1>1, <1>2, <1>5, ScanFrame, ZenonT(60)
<1> QED
  BY <1>4, <1>6 DEF One, FindsFrame

(* Nothing is found in what is not complete.                               *)
Partly(h, y) ==
  /\ Len(h) >= 1 => Matches(h)
  /\ Len(h) <= 4
  /\ Len(y) > 0 => Len(h) = 4 /\ LengthOf(h) <= Capacity
  /\ Len(h) = 4 /\ LengthOf(h) <= Capacity => Len(y) <= LengthOf(h)

LEMMA NothingYet ==
  ASSUME NEW b, NEW p, NEW h, NEW y, NEW again \in BOOLEAN, Held(b, p, h, y),
         Partly(h, y), ~(Len(h) = 4 /\ Len(y) = LengthOf(h))
  PROVE  ScanFrom(b, again)[p] = <<>>
<1>1. Inside(b, p, h, y) /\ Len(b) + 1 = p + Len(h) + Len(y)
  BY DEF Held
<1>2. /\ b \in Seq(Nat) /\ h \in Seq(Nat) /\ p \in Places
      /\ Len(b) \in Nat /\ Len(h) \in Nat /\ Len(y) \in Nat /\ p \in Nat
  BY <1>1, InsideFacts
<1>3. CASE Len(h) = 0
  <2>1. Len(y) = 0
    BY <1>2, <1>3 DEF Partly
  <2>2. p > Len(b)
    BY <1>1, <1>2, <1>3, <2>1
  <2> QED
    BY <1>2, <2>2, ScanUnfolds
<1>4. CASE Len(h) = 1 \/ Len(h) = 2 \/ Len(h) = 3
  <2>0. PICK n \in 1 .. 3 : n = Len(h)
    BY <1>4
  <2>1. Len(y) = 0 /\ Matches(h)
    <3>1. n >= 1 /\ n # 4
      BY <2>0, SMTT(30)
    <3>2. Matches(h) /\ ~(Len(y) > 0)
      BY <2>0, <3>1 DEF Partly
    <3>3. Len(y) \in Nat
      BY <1>2
    <3> QED
      BY <3>2, <3>3
  <2>2. p <= Len(b) /\ p + 3 > Len(b)
    <3>1. Len(b) + 1 = p + n + 0
      BY <1>1, <2>0, <2>1
    <3>2. PICK l \in Nat : l = Len(b) /\ l + 1 = p + n + 0
      BY <1>2, <3>1
    <3>3. n \in Nat /\ n >= 1 /\ n <= 3 /\ p \in Nat
      BY <1>2
    <3>4. p <= l /\ p + 3 > l
      BY <3>2, <3>3
    <3> QED
      BY <3>2, <3>4
  <2>3. CASE AtMagic(b, p)
    BY <1>2, <2>2, <2>3, ScanUnfolds
  <2>4. CASE ~AtMagic(b, p)
    <3>1. CASE Len(h) = 1
      <4>1. p + 1 > Len(b)
        <5>1. Len(b) + 1 = p + 1 + 0
          BY <1>1, <2>1, <3>1
        <5> QED
          BY <1>2, <5>1
      <4>2. p + 1 \in Places
        BY <1>2 DEF Places
      <4>3. ScanFrom(b, again)[p + 1] = <<>>
        BY <1>2, <4>1, <4>2, ScanUnfolds
      <4> QED
        BY <1>2, <2>2, <2>4, <4>3, ScanUnfolds
    <3>2. CASE Len(h) >= 2
      <4>1. b[p] = h[1] /\ b[p + 1] = h[2]
        <5>1. /\ Len(h) >= 1 => b[p] = h[1]
              /\ Len(h) >= 2 => b[p + 1] = h[2]
          BY <1>1, InsideFacts
        <5> QED
          BY <1>2, <3>2, <5>1
      <4>2. p < Len(b)
        <5>1. Len(b) + 1 = p + Len(h) + 0
          BY <1>1, <2>1
        <5> QED
          BY <1>2, <3>2, <5>1
      <4>3. <<h[1], h[2]>> \in Magics
        BY <1>2, <2>1, <3>2, MatchFacts
      <4> QED
        BY <2>4, <4>1, <4>2, <4>3 DEF AtMagic
    <3> QED
      BY <1>4, <3>1, <3>2
  <2> QED
    BY <2>3, <2>4
<1>5. CASE Len(h) = 4
  <2>1. Matches(h)
    BY <1>5 DEF Partly
  <2>2. AtMagic(b, p) /\ p + 3 <= Len(b) /\ LengthAt(b, p) = LengthOf(h) /\ LengthOf(h) \in Nat
    BY <1>1, <1>5, <2>1, HeaderThere
  <2>3. CASE LengthOf(h) > Capacity
    <3>1. Len(y) = 0
      BY <1>2, <1>5, <2>2, <2>3, ReaderAssumption DEF Partly
    <3>2. p + 4 > Len(b) /\ p + 4 \in Places
      <4>1. Len(b) + 1 = p + 4 + 0
        BY <1>1, <1>5, <3>1
      <4> QED
        BY <1>2, <4>1 DEF Places
    <3>3. ScanFrom(b, again)[p + 4] = <<>>
      BY <1>2, <3>2, ScanUnfolds
    <3>4. ScanFrom(b, again)[p] = GoesOn(again, ScanFrom(b, again)[p + 4])
      BY <1>1, <1>5, <2>1, <2>3, TooLongThere
    <3> QED
      BY <3>3, <3>4 DEF GoesOn
  <2>4. CASE LengthOf(h) <= Capacity
    <3>1. Len(y) < LengthOf(h)
      <4>1. Len(y) <= LengthOf(h) /\ Len(y) # LengthOf(h)
        BY <1>5, <2>4 DEF Partly
      <4> QED
        BY <1>2, <2>2, <4>1
    <3>2. p + 3 + LengthAt(b, p) > Len(b)
      <4>1. Len(b) + 1 = p + 4 + Len(y)
        BY <1>1, <1>5
      <4>2. PICK m \in Nat, n \in Nat : m = Len(y) /\ n = LengthOf(h) /\ m < n
        BY <1>2, <2>2, <3>1
      <4>3. p + 3 + n > Len(b)
        BY <1>2, <4>1, <4>2
      <4> QED
        BY <2>2, <4>2, <4>3
    <3> QED
      BY <1>2, <2>2, <2>4, <3>2, ScanUnfolds
  <2> QED
    BY <2>2, <2>3, <2>4, ReaderAssumption
<1>6. Len(h) <= 4
  BY DEF Partly
<1>7. PICK n \in Nat : n = Len(h) /\ n <= 4
  BY <1>2, <1>6
<1>8. n = 0 \/ n = 1 \/ n = 2 \/ n = 3 \/ n = 4
  BY <1>7
<1> QED
  BY <1>3, <1>4, <1>5, <1>7, <1>8

-----------------------------------------------------------------------------
(* The input is a sequence of bytes.                                       *)

LEMMA JoinTyped ==
  ASSUME NEW S, NEW x \in Seq(S), NEW y \in Seq(S)
  PROVE  x \o y \in Seq(S)
OBVIOUS

Associates(x, y, z) == (x \o y) \o z = x \o (y \o z)

LEMMA JoinAssociates ==
  ASSUME NEW S, NEW x \in Seq(S), NEW y \in Seq(S), NEW z \in Seq(S)
  PROVE  Associates(x, y, z)
BY SMTT(30) DEF Associates

LEMMA JoinOne ==
  ASSUME NEW S, NEW x \in Seq(S), NEW e \in S
  PROVE  Append(x, e) = x \o <<e>> /\ <<e>> \in Seq(S) /\ Append(x, e) \in Seq(S)
OBVIOUS

LEMMA EmptySeq ==
  ASSUME NEW S, NEW x \in Seq(S), Len(x) = 0
  PROVE  x = <<>>
OBVIOUS

(* The recursive function inside FlattenSeq.                               *)
Flattens(f, seqs) ==
  \A i \in 1 .. Len(seqs) : f[i] = IF i = 1 THEN seqs[i] ELSE f[i - 1] \o seqs[i]

LEMMA FlattenSteps ==
  ASSUME NEW S, NEW seqs \in Seq(Seq(S)), Len(seqs) # 0
  PROVE  \E f : /\ Flattens(f, seqs) /\ FlattenSeq(seqs) = f[Len(seqs)]
               /\ \A i \in 1 .. Len(seqs) : f[i] \in Seq(S)
<1> DEFINE n == Len(seqs)
           I == 1 .. n
           F == Seq(S)
           Step(f, i) == IF i = 1 THEN seqs[i] ELSE f[i - 1] \o seqs[i]
           r == [i \in I |-> i]
           G == [x \in [I -> F] \X I |-> Step(x[1], x[2])]
<1>1. n \in Nat /\ \A i \in I : seqs[i] \in F
  OBVIOUS
<1>2. n # 0
  OBVIOUS
<1>4. \A i \in I : i \in Nat /\ i <= n /\ (i # 1 => i - 1 \in I /\ i - 1 < i)
  BY <1>1
<1>5. \A u, v \in F : u \o v \in F
  OBVIOUS
<1>6. ASSUME NEW g \in [I -> F], NEW i \in I PROVE Step(g, i) \in F
  <2> HIDE DEF I, F
  <2>1. CASE i = 1
    BY <1>1, <2>1
  <2>2. CASE i # 1
    BY <1>1, <1>4, <1>5, <2>2
  <2> QED
    BY <2>1, <2>2
<1>7. G \in [[I -> F] \X I -> F] /\ \A g \in [I -> F], i \in I : G[<<g, i>>] = Step(g, i)
  <2> HIDE DEF I, F, Step
  <2>1. \A x \in [I -> F] \X I : x[1] \in [I -> F] /\ x[2] \in I
    OBVIOUS
  <2>2. \A g \in [I -> F], i \in I : <<g, i>> \in [I -> F] \X I /\ <<g, i>>[1] = g /\ <<g, i>>[2] = i
    OBVIOUS
  <2> QED
    BY <1>6, <2>1, <2>2
<1> HIDE DEF G
<1>8. r \in [I -> 0 .. n] /\ \A i \in I : r[i] = i
  <2>1. \A i \in I : i \in 0 .. n
    BY <1>4, <1>1
  <2> HIDE DEF I
  <2> QED
    BY <2>1
<1> HIDE DEF r
<1>9. Depends(G, I, F, r)
  <2>1. ASSUME NEW g \in [I -> F], NEW h \in [I -> F], NEW i \in I,
               \A j \in I : r[j] < r[i] => g[j] = h[j]
        PROVE  G[<<g, i>>] = G[<<h, i>>]
    <3> HIDE DEF I, F
    <3>1. i # 1 => g[i - 1] = h[i - 1]
      BY <1>4, <1>8, <2>1
    <3>2. Step(g, i) = Step(h, i)
      BY <3>1
    <3>3. G[<<g, i>>] = Step(g, i)
      BY <1>7
    <3>4. G[<<h, i>>] = Step(h, i)
      BY <1>7
    <3> HIDE DEF Step
    <3> QED
      BY <3>2, <3>3, <3>4
  <2> QED
    BY <2>1 DEF Depends
<1>10. Ranked(G, I, F, n, r)
  <2>1. <<>> \in F
    OBVIOUS
  <2> HIDE DEF n, I, F
  <2> QED
    BY <1>1, <1>7, <1>8, <1>9, <2>1 DEF Ranked
<1>11. PICK g \in [I -> F] : \A i \in I : g[i] = G[<<g, i>>]
  <2> HIDE DEF n, I, F
  <2>1. PICK g : Solution(g, G, I, F)
    BY <1>10, Recursion
  <2> QED
    BY <2>1 DEF Solution
<1> DEFINE f == CHOOSE x : x = [i \in I |-> Step(x, i)]
<1>12. FlattenSeq(seqs) = f[n]
  BY <1>2 DEF FlattenSeq
<1>13. f = [i \in I |-> Step(f, i)]
  <2>1. g = [i \in I |-> Step(g, i)]
    <3> HIDE DEF I, F, Step
    <3> QED
      BY <1>7, <1>11
  <2> HIDE DEF I, F, Step
  <2> QED
    BY <2>1
<1>14. \A i \in I : f[i] = Step(f, i)
  <2> HIDE DEF f
  <2> QED
    BY <1>13
<1> HIDE DEF f
<1> DEFINE T == {k \in Nat : k \in I => f[k] \in F}
<1>15. 0 \in T
  BY <1>4
<1>16. ASSUME NEW k \in T PROVE k + 1 \in T
  <2> SUFFICES ASSUME k + 1 \in I PROVE f[k + 1] \in F
    OBVIOUS
  <2>1. CASE k = 0
    BY <1>1, <1>14, <2>1, SMTT(30)
  <2>2. CASE k # 0
    <3>1. k \in I /\ k + 1 # 1 /\ (k + 1) - 1 = k
      BY <1>1, <2>2
    <3>2. f[k + 1] = f[k] \o seqs[k + 1]
      BY <1>14, <3>1
    <3>3. f[k] \in F /\ seqs[k + 1] \in F
      BY <1>1, <3>1
    <3> HIDE DEF F
    <3> QED
      BY <1>5, <3>2, <3>3
  <2> QED
    BY <2>1, <2>2
<1>17. T = Nat
  <2>1. T \in SUBSET Nat
    OBVIOUS
  <2> HIDE DEF T
  <2> QED
    BY <1>15, <1>16, <2>1, Induct
<1>18. \A i \in I : f[i] \in F
  <2>1. \A i \in I : i \in Nat
    BY <1>4
  <2> HIDE DEF I, F
  <2> QED
    BY <1>17, <2>1
<1> QED
  BY <1>12, <1>14, <1>18 DEF Flattens

LEMMA FlattenTyped ==
  ASSUME NEW S, NEW seqs \in Seq(Seq(S))
  PROVE  FlattenSeq(seqs) \in Seq(S)
<1>1. CASE Len(seqs) = 0
  BY <1>1 DEF FlattenSeq
<1>2. CASE Len(seqs) # 0
  <2>1. PICK f : /\ FlattenSeq(seqs) = f[Len(seqs)]
                 /\ \A i \in 1 .. Len(seqs) : f[i] \in Seq(S)
    BY <1>2, FlattenSteps
  <2>2. Len(seqs) \in 1 .. Len(seqs)
    BY <1>2
  <2> QED
    BY <2>1, <2>2
<1> QED
  BY <1>1, <1>2

LEMMA FlattenAppend ==
  ASSUME NEW S, NEW seqs \in Seq(Seq(S)), NEW x \in Seq(S)
  PROVE  FlattenSeq(Append(seqs, x)) = FlattenSeq(seqs) \o x
<1>1. PICK n \in Nat : n = Len(seqs)
  OBVIOUS
<1>2. PICK more \in Seq(Seq(S)) : more = Append(seqs, x)
  <2>1. Append(seqs, x) \in Seq(Seq(S))
    BY JoinOne
  <2> QED
    BY <2>1
<1>3. /\ Len(more) = n + 1 /\ more[n + 1] = x
      /\ \A i \in 1 .. n : more[i] = seqs[i]
  BY <1>1, <1>2
<1>4. PICK g : /\ Flattens(g, more) /\ FlattenSeq(more) = g[n + 1]
               /\ \A i \in 1 .. n + 1 : g[i] \in Seq(S)
  <2>1. Len(more) # 0
    BY <1>3
  <2> QED
    BY <1>3, <2>1, FlattenSteps
<1>5. CASE n = 0
  <2>1. g[1] = x
    BY <1>3, <1>4, <1>5 DEF Flattens
  <2>2. seqs = <<>>
    BY <1>1, <1>5, EmptySeq
  <2>3. FlattenSeq(seqs) = <<>>
    BY <2>2 DEF FlattenSeq
  <2>4. <<>> \o x = x
    OBVIOUS
  <2> QED
    BY <1>2, <1>4, <1>5, <2>1, <2>3, <2>4
<1>6. CASE n # 0
  <2>1. PICK f : Flattens(f, seqs) /\ FlattenSeq(seqs) = f[n]
    BY <1>1, <1>6, FlattenSteps
  <2> DEFINE T == {k \in Nat : k \in 1 .. n => f[k] = g[k]}
  <2>2. 0 \in T
    OBVIOUS
  <2>3. ASSUME NEW k \in T PROVE k + 1 \in T
    <3> SUFFICES ASSUME k + 1 \in 1 .. n PROVE f[k + 1] = g[k + 1]
      OBVIOUS
    <3>1. k \in Nat /\ (k + 1) - 1 = k /\ k + 1 \in 1 .. n + 1 /\ (k # 0 => k \in 1 .. n)
      OBVIOUS
    <3>2. /\ f[k + 1] = IF k + 1 = 1 THEN seqs[k + 1] ELSE f[k] \o seqs[k + 1]
          /\ g[k + 1] = IF k + 1 = 1 THEN more[k + 1] ELSE g[k] \o more[k + 1]
      BY <1>1, <1>3, <1>4, <2>1, <3>1 DEF Flattens
    <3>3. more[k + 1] = seqs[k + 1]
      BY <1>3
    <3>4. k + 1 # 1 => f[k] = g[k]
      BY <3>1
    <3> QED
      BY <3>2, <3>3, <3>4
  <2>4. T = Nat
    <3>1. T \in SUBSET Nat
      OBVIOUS
    <3> HIDE DEF T
    <3> QED
      BY <2>2, <2>3, <3>1, Induct
  <2>5. f[n] = g[n]
    <3>1. n \in 1 .. n
      BY <1>6
    <3> QED
      BY <2>4, <3>1
  <2>6. g[n + 1] = g[n] \o x
    <3>1. n + 1 \in 1 .. n + 1 /\ n + 1 # 1 /\ (n + 1) - 1 = n
      BY <1>6
    <3> QED
      BY <1>3, <1>4, <3>1 DEF Flattens
  <2> QED
    BY <1>2, <1>4, <2>1, <2>5, <2>6
<1> QED
  BY <1>5, <1>6

-----------------------------------------------------------------------------
(* What the reader knows when it has taken the bytes b: k was returned     *)
(* before them, g in all, and p is where the frame begins of which it      *)
(* holds h and y; whatever follows, the frames still to be found are those *)
(* from p.                                                                 *)
Ahead(b, p, h, y, again, k, g) ==
  /\ Held(b, p, h, y) /\ Partly(h, y)
  /\ again \in BOOLEAN /\ k \in Seq(Found) /\ g \in Seq(Found)
  /\ \A t \in Seq(Nat) : k \o Scan(b \o t, again) = g \o ScanFrom(b \o t, again)[p]

LEMMA ByteJoins ==
  ASSUME NEW b \in Seq(Nat), NEW c \in Nat, NEW t \in Seq(Nat)
  PROVE  /\ Append(b, c) \o t = b \o (<<c>> \o t) /\ <<c>> \o t \in Seq(Nat)
         /\ Append(b, c) \o t \in Seq(Nat)
<1>1. Append(b, c) = b \o <<c>> /\ <<c>> \in Seq(Nat)
  BY JoinOne
<1>2. (b \o <<c>>) \o t = b \o (<<c>> \o t)
  <2>1. Associates(b, <<c>>, t)
    BY <1>1, JoinAssociates
  <2> QED
    BY <2>1 DEF Associates
<1>3. <<c>> \o t \in Seq(Nat)
  BY <1>1, JoinTyped
<1>4. b \o (<<c>> \o t) \in Seq(Nat)
  BY <1>3, JoinTyped
<1> QED
  BY <1>1, <1>2, <1>3, <1>4

LEMMA AheadStart ==
  ASSUME NEW again \in BOOLEAN, NEW k \in Seq(Found)
  PROVE  Ahead(<<>>, 1, <<>>, <<>>, again, k, k)
<1>1. Held(<<>>, 1, <<>>, <<>>)
  <2>1. <<>> \in Seq(Nat) /\ Len(<<>>) + 1 = 1
    OBVIOUS
  <2> QED
    BY <2>1, HeldNothing
<1>2. Partly(<<>>, <<>>)
  <2>1. Len(<<>>) = 0
    OBVIOUS
  <2> QED
    BY <2>1 DEF Partly
<1> QED
  BY <1>1, <1>2 DEF Ahead, Scan

(* A further byte of the header.                                           *)
LEMMA AheadByte ==
  ASSUME NEW b, NEW p, NEW h, NEW again, NEW k, NEW g, Ahead(b, p, h, <<>>, again, k, g),
         NEW c \in Nat, Len(h) < 4, Matches(Append(h, c))
  PROVE  Ahead(Append(b, c), p, Append(h, c), <<>>, again, k, g)
<1>1. Held(Append(b, c), p, Append(h, c), <<>>)
  BY HeldHeader DEF Ahead
<1>2. b \in Seq(Nat) /\ h \in Seq(Nat)
  BY DEF Ahead, Held, Inside
<1>3. Partly(Append(h, c), <<>>)
  <2>1. Len(<<>>) = 0 /\ Len(Append(h, c)) = Len(h) + 1 /\ Len(h) \in Nat
    BY <1>2
  <2>2. Len(Append(h, c)) <= 4
    BY <2>1
  <2>3. ASSUME Len(Append(h, c)) = 4 PROVE 0 <= LengthOf(Append(h, c))
    <3>0. Append(h, c) \in Seq(Nat)
      BY <1>2
    <3>1. PICK a \in Seq(Nat) : a = Append(h, c) /\ Len(a) = 4
      BY <2>3, <3>0
    <3>2. LengthOf(a) \in Nat
      BY <3>1, FourBytes DEF LengthOf
    <3> QED
      BY <3>1, <3>2
  <2> QED
    BY <2>1, <2>2, <2>3 DEF Partly
<1>4. ASSUME NEW t \in Seq(Nat)
      PROVE  k \o Scan(Append(b, c) \o t, again) = g \o ScanFrom(Append(b, c) \o t, again)[p]
  <2>1. Append(b, c) \o t = b \o (<<c>> \o t) /\ <<c>> \o t \in Seq(Nat)
    BY <1>2, ByteJoins
  <2>2. PICK s \in Seq(Nat) : s = <<c>> \o t
    BY <2>1
  <2> QED
    BY <2>1, <2>2 DEF Ahead
<1> QED
  BY <1>1, <1>3, <1>4 DEF Ahead

(* A byte after which the header agrees with no magic.                     *)
LEMMA NoMatch ==
  ASSUME NEW h \in Seq(Nat), NEW c \in Nat, Len(h) >= 1 => Matches(h), ~Matches(Append(h, c))
  PROVE  Len(h) = 0 \/ Len(h) = 1
<1> SUFFICES ASSUME Len(h) >= 2 PROVE FALSE
  <2>1. PICK n \in Nat : n = Len(h)
    OBVIOUS
  <2>2. n = 0 \/ n = 1 \/ n >= 2
    BY <2>1
  <2> QED
    BY <2>1, <2>2
<1>1. <<h[1], h[2]>> \in Magics
  BY MatchFacts
<1>2. PICK a \in Seq(Nat) : a = Append(h, c) /\ Len(a) >= 2 /\ a[1] = h[1] /\ a[2] = h[2]
  <2>1. Append(h, c) \in Seq(Nat) /\ Len(Append(h, c)) = Len(h) + 1
        /\ \A i \in 1 .. Len(h) : Append(h, c)[i] = h[i]
    OBVIOUS
  <2>2. 1 \in 1 .. Len(h) /\ 2 \in 1 .. Len(h) /\ Len(h) + 1 >= 2
    OBVIOUS
  <2> QED
    BY <2>1, <2>2
<1>3. Matches(a)
  BY <1>1, <1>2, MatchFacts
<1> QED
  BY <1>2, <1>3

LEMMA AheadNoMatch ==
  ASSUME NEW b, NEW p, NEW h, NEW again, NEW k, NEW g, Ahead(b, p, h, <<>>, again, k, g),
         NEW c \in Nat, ~Matches(Append(h, c)), NEW t \in Seq(Nat)
  PROVE  k \o Scan(Append(b, c) \o t, again)
           = g \o GoesOn(again, ScanFrom(Append(b, c) \o t, again)[p + 1])
<1>1. Held(Append(b, c), p, Append(h, c), <<>>)
  BY HeldHeader DEF Ahead
<1>2. b \in Seq(Nat) /\ h \in Seq(Nat)
  BY DEF Ahead, Held, Inside
<1>3. Inside(Append(b, c) \o t, p, Append(h, c), <<>>)
  BY <1>1, HeldInside
<1>4. /\ Append(b, c) \o t = b \o (<<c>> \o t) /\ <<c>> \o t \in Seq(Nat)
      /\ Append(b, c) \o t \in Seq(Nat)
  BY <1>2, ByteJoins
<1>5. PICK w \in Seq(Nat), s \in Seq(Nat) : w = Append(b, c) \o t /\ s = <<c>> \o t
  BY <1>4
<1>6. k \o Scan(w, again) = g \o ScanFrom(w, again)[p]
  BY <1>4, <1>5 DEF Ahead
<1>7. ScanFrom(w, again)[p] = GoesOn(again, ScanFrom(w, again)[p + 1])
  <2>1. Len(Append(h, c)) >= 1
    BY <1>2
  <2>2. again \in BOOLEAN
    BY DEF Ahead
  <2> QED
    BY <1>3, <1>5, <2>1, <2>2, NoMagicThere
<1> QED
  BY <1>5, <1>6, <1>7

LEMMA AheadResync ==
  ASSUME NEW b, NEW p, NEW h, NEW again, NEW k, NEW g, Ahead(b, p, h, <<>>, again, k, g),
         NEW c \in Nat, ~Matches(Append(h, c)), Resumes(again)
  PROVE  \E q : Ahead(Append(b, c), q, Resynced(Append(h, c)), <<>>, again, k, g)
<1>1. b \in Seq(Nat) /\ h \in Seq(Nat) /\ p \in Nat /\ Len(b) + 1 = p + Len(h) + Len(<<>>)
      /\ (Len(h) >= 1 => Matches(h)) /\ k \in Seq(Found) /\ g \in Seq(Found)
  BY DEF Ahead, Held, Inside, Places, Partly
<1>2. Len(h) = 0 \/ Len(h) = 1
  BY <1>1, NoMatch
<1>3. Last(Append(h, c)) = c
  BY <1>1 DEF Last
<1>4. Append(b, c) \in Seq(Nat) /\ Len(Append(b, c)) = Len(b) + 1 /\ Len(b) \in Nat /\ Len(<<>>) = 0
  BY <1>1
<1>5. <<c>> \in Seq(Nat) /\ Len(<<c>>) = 1 /\ <<c>>[1] = c
  OBVIOUS
<1>6. Matches(<<c>>) <=> c \in FirstBytes
  BY <1>5, MatchFacts
<1>7. CASE c \in FirstBytes
  <2>1. Len(h) = 1
    <3> SUFFICES ASSUME Len(h) = 0 PROVE FALSE
      BY <1>2
    <3>1. Append(h, c) = <<c>>
      BY <1>1, NotEmpty
    <3> QED
      BY <1>6, <1>7, <3>1
  <2>2. p + 1 = Len(b) + 1
    BY <1>1, <1>4, <2>1
  <2>3. Held(Append(b, c), Len(b) + 1, <<c>>, <<>>)
    BY <1>1, HeldLast
  <2>4. Partly(<<c>>, <<>>)
    BY <1>4, <1>5, <1>6, <1>7 DEF Partly
  <2>5. ASSUME NEW t \in Seq(Nat)
        PROVE  k \o Scan(Append(b, c) \o t, again)
                 = g \o ScanFrom(Append(b, c) \o t, again)[Len(b) + 1]
    <3>1. k \o Scan(Append(b, c) \o t, again) = g \o ScanFrom(Append(b, c) \o t, again)[p + 1]
      <4>1. k \o Scan(Append(b, c) \o t, again)
              = g \o GoesOn(again, ScanFrom(Append(b, c) \o t, again)[p + 1])
        BY AheadNoMatch, SMTT(30)
      <4> QED
        BY <4>1 DEF Resumes
    <3> QED
      BY <2>2, <3>1
  <2>6. Ahead(Append(b, c), Len(b) + 1, <<c>>, <<>>, again, k, g)
    BY <1>1, <2>3, <2>4, <2>5 DEF Ahead
  <2> QED
    BY <1>3, <1>7, <2>6 DEF Resynced
<1>8. CASE c \notin FirstBytes
  <2>1. Held(Append(b, c), (Len(b) + 1) + 1, <<>>, <<>>)
    BY <1>4, HeldNothing
  <2>2. Partly(<<>>, <<>>)
    BY <1>4 DEF Partly
  <2>3. ASSUME NEW t \in Seq(Nat)
        PROVE  k \o Scan(Append(b, c) \o t, again)
                 = g \o ScanFrom(Append(b, c) \o t, again)[(Len(b) + 1) + 1]
    <3>1. k \o Scan(Append(b, c) \o t, again) = g \o ScanFrom(Append(b, c) \o t, again)[p + 1]
      <4>1. k \o Scan(Append(b, c) \o t, again)
              = g \o GoesOn(again, ScanFrom(Append(b, c) \o t, again)[p + 1])
        BY AheadNoMatch
      <4> QED
        BY <4>1 DEF Resumes
    <3>2. CASE Len(h) = 0
      <4>1. p + 1 = (Len(b) + 1) + 1
        BY <1>1, <1>4, <3>2
      <4> QED
        BY <3>1, <4>1
    <3>3. CASE Len(h) = 1
      <4>1. p + 1 = Len(b) + 1
        BY <1>1, <1>4, <3>3
      <4>2. Inside(Append(b, c) \o t, Len(b) + 1, <<c>>, <<>>)
        BY <1>1, HeldLast, HeldInside
      <4>3. ScanFrom(Append(b, c) \o t, again)[Len(b) + 1]
              = ScanFrom(Append(b, c) \o t, again)[(Len(b) + 1) + 1]
        <5>1. again \in BOOLEAN /\ Len(<<c>>) >= 1 /\ ~Matches(<<c>>)
          BY <1>5, <1>6, <1>8 DEF Ahead
        <5>2. PICK w : w = Append(b, c) \o t
          OBVIOUS
        <5>3. Inside(w, Len(b) + 1, <<c>>, <<>>)
          BY <4>2, <5>2
        <5>4. ScanFrom(w, again)[Len(b) + 1] = GoesOn(again, ScanFrom(w, again)[(Len(b) + 1) + 1])
          BY <5>1, <5>3, NoMagicThere
        <5> QED
          BY <5>2, <5>4 DEF Resumes
      <4> QED
        BY <3>1, <4>1, <4>3
    <3> QED
      BY <1>2, <3>2, <3>3
  <2>4. Ahead(Append(b, c), (Len(b) + 1) + 1, <<>>, <<>>, again, k, g)
    BY <1>1, <2>1, <2>2, <2>3 DEF Ahead
  <2> QED
    BY <1>3, <1>8, <2>4 DEF Resynced
<1> QED
  BY <1>7, <1>8

LEMMA AheadBytes ==
  ASSUME NEW b, NEW p, NEW h, NEW y, NEW again, NEW k, NEW g, Ahead(b, p, h, y, again, k, g)
  PROVE  /\ b \in Seq(Nat) /\ h \in Seq(Nat) /\ y \in Seq(Nat) /\ p \in Nat
         /\ Len(b) \in Nat /\ Len(h) \in Nat /\ Len(y) \in Nat
         /\ Len(b) + 1 = p + Len(h) + Len(y)
<1>1. /\ b \in Seq(Nat) /\ h \in Seq(Nat) /\ y \in Seq(Nat) /\ p \in Nat
      /\ Len(b) + 1 = p + Len(h) + Len(y)
  BY DEF Ahead, Held, Inside, Places
<1> QED
  BY <1>1

LEMMA AheadHeader ==
  ASSUME NEW b, NEW p, NEW h, NEW y, NEW again, NEW k, NEW g, Ahead(b, p, h, y, again, k, g),
         Len(h) = 4
  PROVE  Len(b) + 1 = p + 4 + Len(y)
<1>1. Len(b) + 1 = p + Len(h) + Len(y)
  BY DEF Ahead, Held
<1> QED
  BY <1>1

(* A header that promises too much.                                        *)
LEMMA AheadTooLong ==
  ASSUME NEW b, NEW p, NEW h, NEW y, NEW again, NEW k, NEW g, Ahead(b, p, h, y, again, k, g),
         Len(h) = 4, LengthOf(h) > Capacity, NEW t \in Seq(Nat)
  PROVE  /\ Len(y) = 0
         /\ k \o Scan(b \o t, again) = g \o GoesOn(again, ScanFrom(b \o t, again)[Len(b) + 1])
<1>1. Matches(h)
  BY DEF Ahead, Partly
<1>2. b \in Seq(Nat) /\ p \in Nat /\ Len(b) \in Nat /\ Len(y) \in Nat
  BY AheadBytes
<1>3. Len(y) = 0
  <2>1. h \in Seq(Nat)
    BY AheadBytes
  <2>2. LengthOf(h) \in Nat
    BY <2>1, LengthTyped
  <2>3. ~(LengthOf(h) <= Capacity)
    BY <2>2, ReaderAssumption
  <2>4. ~(Len(y) > 0)
    BY <2>3 DEF Ahead, Partly
  <2> QED
    BY <1>2, <2>4
<1>4. p + 4 = Len(b) + 1
  <2>1. Len(b) + 1 = p + 4 + 0
    BY <1>3, AheadHeader
  <2> QED
    BY <1>2, <2>1
<1>5. again \in BOOLEAN
  BY DEF Ahead
<1>6. Inside(b \o t, p, h, y)
  BY HeldInside DEF Ahead
<1>7. PICK w : w = b \o t
  OBVIOUS
<1>8. Inside(w, p, h, y)
  BY <1>6, <1>7
<1>9. ScanFrom(w, again)[p] = GoesOn(again, ScanFrom(w, again)[p + 4])
  BY <1>1, <1>5, <1>8, TooLongThere
<1>10. k \o Scan(w, again) = g \o ScanFrom(w, again)[p]
  BY <1>7 DEF Ahead
<1> QED
  BY <1>3, <1>4, <1>7, <1>9, <1>10

LEMMA AheadSkips ==
  ASSUME NEW b, NEW p, NEW h, NEW y, NEW again, NEW k, NEW g, Ahead(b, p, h, y, again, k, g),
         Len(h) = 4, LengthOf(h) > Capacity, Resumes(again)
  PROVE  Ahead(b, Len(b) + 1, <<>>, <<>>, again, k, g)
<1>1. b \in Seq(Nat)
  BY AheadBytes
<1>2. Held(b, Len(b) + 1, <<>>, <<>>)
  BY <1>1, HeldNothing
<1>3. Partly(<<>>, <<>>)
  <2>1. Len(<<>>) = 0
    OBVIOUS
  <2> QED
    BY <2>1 DEF Partly
<1>4. ASSUME NEW t \in Seq(Nat)
      PROVE  k \o Scan(b \o t, again) = g \o ScanFrom(b \o t, again)[Len(b) + 1]
  <2>1. k \o Scan(b \o t, again) = g \o GoesOn(again, ScanFrom(b \o t, again)[Len(b) + 1])
    BY AheadTooLong, SMTT(30)
  <2> QED
    BY <2>1 DEF Resumes
<1> QED
  BY <1>2, <1>3, <1>4 DEF Ahead

(* Some bytes of the payload.                                              *)
LEMMA AheadPayload ==
  ASSUME NEW b, NEW p, NEW h, NEW y, NEW again, NEW k, NEW g, Ahead(b, p, h, y, again, k, g),
         Len(h) = 4, LengthOf(h) <= Capacity,
         NEW s \in Seq(Nat), Len(y) + Len(s) <= LengthOf(h)
  PROVE  Ahead(b \o s, p, h, y \o s, again, k, g)
<1>1. Held(b \o s, p, h, y \o s)
  BY HeldPayload DEF Ahead
<1>2. b \in Seq(Nat) /\ y \in Seq(Nat)
  BY AheadBytes
<1>3. Len(y \o s) = Len(y) + Len(s)
  BY <1>2
<1>4. Partly(h, y \o s)
  BY <1>3 DEF Ahead, Partly
<1>5. ASSUME NEW t \in Seq(Nat)
      PROVE  k \o Scan((b \o s) \o t, again) = g \o ScanFrom((b \o s) \o t, again)[p]
  <2>0. b \in Seq(Nat)
    BY <1>2
  <2>1. (b \o s) \o t = b \o (s \o t)
    <3>1. Associates(b, s, t)
      BY <2>0, JoinAssociates
    <3> QED
      BY <3>1 DEF Associates
  <2>3. s \o t \in Seq(Nat)
    BY JoinTyped
  <2>2. PICK u \in Seq(Nat) : u = s \o t
    BY <2>3
  <2> QED
    BY <2>1, <2>2 DEF Ahead
<1> QED
  BY <1>1, <1>4, <1>5 DEF Ahead

(* A whole frame.                                                          *)
LEMMA AheadFrame ==
  ASSUME NEW b, NEW p, NEW h, NEW y, NEW again, NEW k, NEW g, Ahead(b, p, h, y, again, k, g),
         Whole(h, y)
  PROVE  Ahead(b, Len(b) + 1, <<>>, <<>>, again, k, Append(g, <<h[1], y>>))
<1>1. /\ b \in Seq(Nat) /\ h \in Seq(Nat) /\ y \in Seq(Nat) /\ p \in Nat
      /\ Len(b) \in Nat /\ Len(y) \in Nat
  BY AheadBytes
<1>2. again \in BOOLEAN /\ k \in Seq(Found) /\ g \in Seq(Found)
  BY DEF Ahead
<1>3. Held(b, Len(b) + 1, <<>>, <<>>)
  BY <1>1, HeldNothing
<1>4. Partly(<<>>, <<>>)
  <2>1. Len(<<>>) = 0
    OBVIOUS
  <2> QED
    BY <2>1 DEF Partly
<1>5. LengthOf(h) <= Capacity
  <2> SUFFICES ASSUME LengthOf(h) > Capacity PROVE FALSE
    BY <1>1, ReaderAssumption DEF Whole
  <2>1. Len(y) = 0
    <3>1. <<>> \in Seq(Nat)
      OBVIOUS
    <3> QED
      BY <3>1, AheadTooLong DEF Whole
  <2>2. LengthOf(h) = 0
    BY <2>1 DEF Whole
  <2> QED
    BY <2>2, ReaderAssumption
<1>6. <<h[1], y>> \in Found
  <2>1. h[1] \in Nat
    <3>1. 1 \in 1 .. Len(h)
      BY DEF Whole
    <3> QED
      BY <1>1, <3>1, Elements
  <2> QED
    BY <1>1, <2>1 DEF Found
<1>7. PICK e \in Found : e = <<h[1], y>>
  BY <1>6
<1>8. Append(g, e) \in Seq(Found)
  BY <1>2, <1>7
<1>9. p + 4 + Len(y) = Len(b) + 1
  <2>1. Len(b) + 1 = p + 4 + Len(y)
    BY AheadHeader DEF Whole
  <2> QED
    BY <2>1
<1>10. Matches(h) /\ Fits(h)
  BY <1>5 DEF Ahead, Partly, Whole, Fits
<1>11. ASSUME NEW t \in Seq(Nat)
       PROVE  k \o Scan(b \o t, again) = Append(g, e) \o ScanFrom(b \o t, again)[Len(b) + 1]
  <2>1. Inside(b \o t, p, h, y)
    BY HeldInside DEF Ahead
  <2>2. b \o t \in Seq(Nat)
    BY <1>1, JoinTyped
  <2>3. PICK w \in Seq(Nat) : w = b \o t
    BY <2>2
  <2>4. ScanFrom(w, again)[p] = <<e>> \o ScanFrom(w, again)[Len(b) + 1]
    <3>1. Inside(w, p, h, y)
      BY <2>1, <2>3
    <3>2. ScanFrom(w, again)[p] = One(h, y) \o ScanFrom(w, again)[p + 4 + Len(y)]
      <4>1. again \in BOOLEAN
        BY <1>2
      <4>2. FindsFrame(w, p, h, y, again)
        BY <4>1, <1>10, <3>1, FrameThere
      <4> QED
        BY <4>2 DEF FindsFrame
    <3> QED
      BY <1>7, <1>9, <3>2 DEF One
  <2>5. PICK z \in Seq(Found) : z = ScanFrom(w, again)[Len(b) + 1]
    <3>1. Len(b) + 1 \in Places
      BY <1>1 DEF Places
    <3> QED
      BY <1>2, <3>1, ScanUnfolds
  <2>6. g \o (<<e>> \o z) = Append(g, e) \o z
    <3>1. <<e>> \in Seq(Found) /\ Append(g, e) = g \o <<e>>
      BY <1>2, JoinOne
    <3>2. (g \o <<e>>) \o z = g \o (<<e>> \o z)
      <4>1. Associates(g, <<e>>, z)
        BY <1>2, <3>1, JoinAssociates
      <4> QED
        BY <4>1 DEF Associates
    <3> QED
      BY <3>1, <3>2
  <2>7. k \o Scan(w, again) = g \o ScanFrom(w, again)[p]
    BY <2>3 DEF Ahead
  <2> QED
    BY <2>3, <2>4, <2>5, <2>6, <2>7
<1>12. Ahead(b, Len(b) + 1, <<>>, <<>>, again, k, Append(g, e))
  BY <1>2, <1>3, <1>4, <1>8, <1>11 DEF Ahead
<1> QED
  BY <1>7, <1>12

(* What is found in the bytes themselves.                                  *)
LEMMA AheadFinds ==
  ASSUME NEW b, NEW p, NEW h, NEW y, NEW again, NEW k, NEW g, Ahead(b, p, h, y, again, k, g)
  PROVE  k \o Scan(b, again)
           = g \o IF Whole(h, y) THEN <<<<h[1], y>>>> ELSE <<>>
<1>1. b \in Seq(Nat) /\ Len(b) \in Nat
  BY AheadBytes
<1>2. again \in BOOLEAN /\ k \in Seq(Found) /\ g \in Seq(Found)
  BY DEF Ahead
<1>3. b \o <<>> = b /\ <<>> \in Seq(Nat)
  BY <1>1
<1>4. k \o Scan(b, again) = g \o ScanFrom(b, again)[p]
  BY <1>3 DEF Ahead
<1>5. CASE Whole(h, y)
  <2>1. ScanFrom(b, again)[Len(b) + 1] = <<>>
    <3>1. Len(b) + 1 \in Places /\ Len(b) + 1 > Len(b)
      BY <1>1 DEF Places
    <3> QED
      BY <1>1, <1>2, <3>1, ScanUnfolds
  <2>2. Ahead(b, Len(b) + 1, <<>>, <<>>, again, k, Append(g, <<h[1], y>>))
    BY <1>5, AheadFrame
  <2>3. k \o Scan(b, again) = Append(g, <<h[1], y>>) \o ScanFrom(b, again)[Len(b) + 1]
    BY <1>3, <2>2 DEF Ahead
  <2>4. PICK e : e = <<h[1], y>>
    OBVIOUS
  <2>5. Append(g, e) \in Seq(Found)
    BY <2>2, <2>4 DEF Ahead
  <2>6. Append(g, e) \o <<>> = Append(g, e)
    BY <2>5
  <2>7. Append(g, e) = g \o <<e>>
    BY <1>2
  <2> QED
    BY <1>5, <2>1, <2>3, <2>4, <2>6, <2>7
<1>6. CASE ~(Whole(h, y))
  <2>1. ScanFrom(b, again)[p] = <<>>
    BY <1>2, <1>6, NothingYet DEF Ahead, Whole
  <2> QED
    BY <1>4, <1>6, <2>1
<1> QED
  BY <1>5, <1>6

-----------------------------------------------------------------------------
(* The reader.                                                             *)

Frames == (Nat \X Nat) \X Seq(Nat)

Streams == noise \in Seq(Nat) /\ frames \in Seq(Frames)

taken == SubSeq(input, cut + 1, pos)

ReaderInv ==
  /\ Streams
  /\ resync \in BOOLEAN /\ polling \in BOOLEAN /\ failed \in BOOLEAN
  /\ cut \in Nat /\ pos \in Nat /\ cut <= pos /\ pos <= Len(input)
  /\ ~failed => \E p : Ahead(taken, p, header, payload, resync, kept, got)
  /\ failed => /\ ~polling /\ header = <<>>
               /\ kept \o Scan(taken, resync) = got \o <<>>

LEMMA WireTyped ==
  ASSUME NEW f \in Frames
  PROVE  Wire(f) \in Seq(Nat)
<1>1. f[1][1] \in Nat /\ f[1][2] \in Nat /\ f[2] \in Seq(Nat)
  BY DEF Frames
<1>2. PICK n \in Nat : n = Len(f[2])
  BY <1>1
<1>3. n % 256 \in Nat /\ n \div 256 \in Nat
  <2>1. n % 256 \in Nat
    OBVIOUS
  <2>2. n \div 256 \in Nat
    OBVIOUS
  <2> QED
    BY <2>1, <2>2
<1>4. <<f[1][1], f[1][2], n % 256, n \div 256>> \in Seq(Nat)
  BY <1>1, <1>3
<1>5. Wire(f) = <<f[1][1], f[1][2], n % 256, n \div 256>> \o f[2]
  BY <1>2 DEF Wire
<1> QED
  BY <1>1, <1>4, <1>5, JoinTyped

LEMMA InputTyped ==
  ASSUME Streams
  PROVE  input \in Seq(Nat)
<1> DEFINE seqs == [i \in 1 .. Len(frames) |-> Wire(frames[i])]
<1>1. Len(frames) \in Nat /\ \A i \in 1 .. Len(frames) : frames[i] \in Frames
  BY DEF Streams
<1>2. \A i \in 1 .. Len(frames) : Wire(frames[i]) \in Seq(Nat)
  BY <1>1, WireTyped
<1>3. seqs \in [1 .. Len(frames) -> Seq(Nat)]
  BY <1>2
<1>4. seqs \in Seq(Seq(Nat))
  BY <1>1, <1>3
<1> HIDE DEF seqs
<1>5. FlattenSeq(seqs) \in Seq(Nat)
  BY <1>4, FlattenTyped
<1>6. noise \o FlattenSeq(seqs) \in Seq(Nat)
  BY <1>5, JoinTyped DEF Streams
<1> QED
  BY <1>6 DEF input, OnWire, seqs

LEMMA SubSeqFacts ==
  ASSUME NEW s \in Seq(Nat), NEW i \in Nat, NEW j \in Nat, i <= j, j <= Len(s)
  PROVE  /\ SubSeq(s, i + 1, j) \in Seq(Nat) /\ Len(SubSeq(s, i + 1, j)) = j - i
         /\ \A k \in 1 .. j - i : SubSeq(s, i + 1, j)[k] = s[i + k]
<1>1. SubSeq(s, i + 1, j) \in Seq(Nat)
  OBVIOUS
<1>2. Len(SubSeq(s, i + 1, j)) = j - i
  OBVIOUS
<1>3. \A k \in 1 .. j - i : SubSeq(s, i + 1, j)[k] = s[i + k]
  OBVIOUS
<1> QED
  BY <1>1, <1>2, <1>3

LEMMA SubSeqGrows ==
  ASSUME NEW s \in Seq(Nat), NEW i \in Nat, NEW j \in Nat, NEW m \in Nat,
         i <= j, j <= m, m <= Len(s)
  PROVE  SubSeq(s, i + 1, m) = SubSeq(s, i + 1, j) \o SubSeq(s, j + 1, m)
<1>1. Len(s) \in Nat /\ i <= m /\ j <= Len(s)
  OBVIOUS
<1>2. PICK x \in Seq(Nat), y \in Seq(Nat), z \in Seq(Nat) :
        x = SubSeq(s, i + 1, m) /\ y = SubSeq(s, i + 1, j) /\ z = SubSeq(s, j + 1, m)
  <2>1. /\ SubSeq(s, i + 1, m) \in Seq(Nat) /\ SubSeq(s, i + 1, j) \in Seq(Nat)
        /\ SubSeq(s, j + 1, m) \in Seq(Nat)
    BY <1>1, SubSeqFacts
  <2> QED
    BY <2>1
<1>3. Len(x) = m - i /\ \A k \in 1 .. m - i : x[k] = s[i + k]
  <2>1. /\ Len(SubSeq(s, i + 1, m)) = m - i
        /\ \A k \in 1 .. m - i : SubSeq(s, i + 1, m)[k] = s[i + k]
    BY <1>1, SubSeqFacts
  <2> QED
    BY <1>2, <2>1
<1>4. Len(y) = j - i /\ \A k \in 1 .. j - i : y[k] = s[i + k]
  <2>1. /\ Len(SubSeq(s, i + 1, j)) = j - i
        /\ \A k \in 1 .. j - i : SubSeq(s, i + 1, j)[k] = s[i + k]
    BY <1>1, SubSeqFacts
  <2> QED
    BY <1>2, <2>1
<1>5. Len(z) = m - j /\ \A k \in 1 .. m - j : z[k] = s[j + k]
  <2>1. /\ Len(SubSeq(s, j + 1, m)) = m - j
        /\ \A k \in 1 .. m - j : SubSeq(s, j + 1, m)[k] = s[j + k]
    BY <1>1, SubSeqFacts
  <2> QED
    BY <1>2, <2>1
<1>6. /\ y \o z \in Seq(Nat) /\ Len(y \o z) = Len(y) + Len(z)
      /\ \A k \in 1 .. Len(y) : (y \o z)[k] = y[k]
      /\ \A k \in 1 .. Len(z) : (y \o z)[Len(y) + k] = z[k]
  BY SMTT(30)
<1>7. PICK u \in Seq(Nat) : u = y \o z
  BY <1>6
<1>8. Len(u) = m - i
  <2>1. Len(u) = (j - i) + (m - j)
    BY <1>4, <1>5, <1>6, <1>7
  <2> QED
    BY <2>1
<1>9. ASSUME NEW k \in 1 .. m - i PROVE x[k] = u[k]
  <2>1. CASE k <= j - i
    <3>1. k \in 1 .. j - i
      BY <2>1
    <3> QED
      BY <1>3, <1>4, <1>6, <1>7, <3>1
  <2>2. CASE k > j - i
    <3>1. PICK l \in 1 .. m - j : k = (j - i) + l
      <4>1. k - (j - i) \in 1 .. m - j /\ k = (j - i) + (k - (j - i))
        BY <2>2
      <4> QED
        BY <4>1
    <3>2. u[k] = s[j + l]
      BY <1>4, <1>5, <1>6, <1>7, <3>1
    <3>3. i + k = j + l
      BY <3>1
    <3> QED
      BY <1>3, <3>2, <3>3
  <2> QED
    BY <2>1, <2>2
<1>10. x = u
  <2>1. Len(x) = Len(u) /\ \A k \in 1 .. Len(u) : x[k] = u[k]
    BY <1>3, <1>8, <1>9
  <2> QED
    BY <2>1, SameBytes
<1> QED
  BY <1>2, <1>7, <1>10

LEMMA SubSeqNext ==
  ASSUME NEW s \in Seq(Nat), NEW i \in Nat, NEW j \in Nat, i <= j, j < Len(s)
  PROVE  s[j + 1] \in Nat /\ SubSeq(s, i + 1, j + 1) = Append(SubSeq(s, i + 1, j), s[j + 1])
<1>1. Len(s) \in Nat /\ j + 1 <= Len(s) /\ j + 1 \in 1 .. Len(s) /\ j <= j + 1 /\ j + 1 \in Nat
  OBVIOUS
<1>2. s[j + 1] \in Nat
  BY <1>1, Elements
<1>3. SubSeq(s, i + 1, j + 1) = SubSeq(s, i + 1, j) \o SubSeq(s, j + 1, j + 1)
  BY <1>1, SubSeqGrows, SMTT(30)
<1>4. SubSeq(s, j + 1, j + 1) = <<s[j + 1]>>
  <2>1. PICK x \in Seq(Nat) : x = SubSeq(s, j + 1, j + 1)
    <3>1. SubSeq(s, j + 1, j + 1) \in Seq(Nat)
      BY <1>1, SubSeqFacts
    <3> QED
      BY <3>1
  <2>2. Len(x) = (j + 1) - j /\ \A k \in 1 .. (j + 1) - j : x[k] = s[j + k]
    BY <1>1, <2>1, SubSeqFacts
  <2>3. (j + 1) - j = 1 /\ 1 \in 1 .. 1
    OBVIOUS
  <2>4. Len(x) = 1 /\ x[1] = s[j + 1]
    BY <2>2, <2>3
  <2>5. PICK c \in Nat : c = s[j + 1]
    BY <1>2
  <2>6. <<c>> \in Seq(Nat) /\ Len(<<c>>) = 1 /\ <<c>>[1] = c
    OBVIOUS
  <2>7. \A k \in 1 .. 1 : k = 1
    OBVIOUS
  <2>8. x = <<c>>
    BY <2>4, <2>5, <2>6, <2>7, SameBytes
  <2> QED
    BY <2>1, <2>5, <2>8
<1>5. SubSeq(s, i + 1, j) \in Seq(Nat)
  BY <1>1, SubSeqFacts
<1> QED
  BY <1>2, <1>3, <1>4, <1>5, JoinOne

LEMMA AheadFails ==
  ASSUME NEW b, NEW p, NEW h, NEW again, NEW k, NEW g, Ahead(b, p, h, <<>>, again, k, g),
         NEW c \in Nat, ~Matches(Append(h, c)), Stops(again)
  PROVE  k \o Scan(Append(b, c), again) = g \o <<>>
<1>1. b \in Seq(Nat)
  BY AheadBytes
<1>2. PICK w \in Seq(Nat) : w = Append(b, c)
  <2>1. Append(b, c) \in Seq(Nat)
    BY <1>1
  <2> QED
    BY <2>1
<1>3. PICK t \in Seq(Nat) : t = <<>> /\ w \o t = w
  <2>1. <<>> \in Seq(Nat) /\ w \o <<>> = w
    OBVIOUS
  <2> QED
    BY <2>1
<1>4. k \o Scan(Append(b, c) \o t, again)
        = g \o GoesOn(again, ScanFrom(Append(b, c) \o t, again)[p + 1])
  BY AheadNoMatch, SMTT(30)
<1>5. k \o Scan(Append(b, c) \o t, again) = g \o <<>>
  BY <1>4 DEF Stops
<1> QED
  BY <1>2, <1>3, <1>5

LEMMA AheadGivesUp ==
  ASSUME NEW b, NEW p, NEW h, NEW y, NEW again, NEW k, NEW g, Ahead(b, p, h, y, again, k, g),
         Len(h) = 4, LengthOf(h) > Capacity, Stops(again)
  PROVE  k \o Scan(b, again) = g \o <<>>
<1>1. b \in Seq(Nat)
  BY AheadBytes
<1>3. PICK t \in Seq(Nat) : t = <<>> /\ b \o t = b
  <2>1. <<>> \in Seq(Nat) /\ b \o <<>> = b
    BY <1>1
  <2> QED
    BY <2>1
<1>4. k \o Scan(b \o t, again) = g \o GoesOn(again, ScanFrom(b \o t, again)[Len(b) + 1])
  BY AheadTooLong
<1>5. k \o Scan(b \o t, again) = g \o <<>>
  BY <1>4 DEF Stops
<1> QED
  BY <1>3, <1>5

LEMMA SameInput ==
  ASSUME UNCHANGED Source
  PROVE  /\ noise' = noise /\ frames' = frames /\ resync' = resync
         /\ input' = input /\ (Streams' <=> Streams)
<1>1. noise' = noise /\ frames' = frames /\ resync' = resync
  BY DEF Source
<1> QED
  BY <1>1 DEF input, Streams

(* What all steps but the reads of bytes leave alone.                      *)
LEMMA SameTaken ==
  ASSUME UNCHANGED Source, pos' = pos, cut' = cut
  PROVE  taken' = taken
<1>1. input' = input
  BY SameInput
<1> QED
  BY <1>1 DEF taken

LEMMA SameReader ==
  ASSUME ReaderInv, UNCHANGED reader
  PROVE  ReaderInv'
<1>1. /\ UNCHANGED Source /\ pos' = pos /\ cut' = cut /\ kept' = kept /\ got' = got
      /\ header' = header /\ payload' = payload /\ polling' = polling /\ failed' = failed
  BY DEF reader, Source
<1>2. taken' = taken
  BY <1>1, SameTaken
<1>3. input' = input /\ (Streams' <=> Streams)
  BY <1>1, SameInput
<1>4. resync' = resync
  BY <1>1, SameInput
<1> QED
  BY <1>1, <1>2, <1>3, <1>4 DEF ReaderInv

(* Call and Drop leave everything read where it is.                        *)
LEMMA CallKeeps ==
  ASSUME ReaderInv, Call \/ Drop
  PROVE  ReaderInv'
<1>1. /\ UNCHANGED Source /\ pos' = pos /\ cut' = cut /\ kept' = kept /\ got' = got
      /\ header' = header /\ payload' = payload /\ failed' = failed
  BY DEF Call, Drop, History
<1>2. taken' = taken
  BY <1>1, SameTaken
<1>3. resync' = resync /\ input' = input /\ (Streams' <=> Streams)
  BY <1>1, SameInput
<1>4. ~failed /\ polling' \in BOOLEAN
  BY DEF Call, Drop, ReaderInv
<1> QED
  BY <1>1, <1>2, <1>3, <1>4 DEF ReaderInv

LEMMA ByteKeeps ==
  ASSUME ReaderInv, HeaderByte
  PROVE  ReaderInv'
<1>1. PICK c : c = input[pos + 1]
  OBVIOUS
<1>2. ~failed /\ Streams /\ resync \in BOOLEAN /\ polling \in BOOLEAN
      /\ cut \in Nat /\ pos \in Nat /\ cut <= pos
  BY DEF HeaderByte, ReaderInv
<1>3. PICK p : Ahead(taken, p, header, payload, resync, kept, got)
  BY <1>2 DEF ReaderInv
<1>4. input \in Seq(Nat) /\ Len(header) < 4 /\ pos < Len(input) /\ pos' = pos + 1
      /\ UNCHANGED Source /\ cut' = cut /\ kept' = kept /\ got' = got /\ payload' = payload
  BY <1>2, InputTyped DEF HeaderByte, History
<1>5. resync' = resync /\ input' = input /\ (Streams' <=> Streams)
  BY <1>4, SameInput
<1>6. c \in Nat /\ taken' = Append(taken, c)
  BY <1>1, <1>2, <1>4, <1>5, SubSeqNext DEF taken
<1>7. pos' \in Nat /\ cut' <= pos' /\ pos' <= Len(input')
  <2>1. Len(input) \in Nat
    BY <1>4
  <2> QED
    BY <1>2, <1>4, <1>5, <2>1
<1>8. payload = <<>>
  <2>1. ~(Len(payload) > 0)
    <3>1. Len(header) # 4
      <4>1. Len(header) \in Nat
        BY <1>3, AheadBytes
      <4>2. Len(header) < 4
        BY <1>4
      <4> QED
        BY <4>1, <4>2
    <3> QED
      BY <1>3, <3>1 DEF Ahead, Partly
  <2>2. payload \in Seq(Nat)
    BY <1>3, AheadBytes
  <2> QED
    BY <2>1, <2>2
<1>9. Ahead(taken, p, header, <<>>, resync, kept, got)
  BY <1>3, <1>8
<1>10. header \in Seq(Nat)
  BY <1>3, AheadBytes
<1>11. CASE Matches(Append(header, c))
  <2>1. header' = Append(header, c) /\ UNCHANGED <<polling, failed>>
    BY <1>1, <1>11 DEF HeaderByte
  <2>2. Ahead(Append(taken, c), p, Append(header, c), <<>>, resync, kept, got)
    BY <1>4, <1>6, <1>9, <1>11, AheadByte
  <2>3. Ahead(taken', p, header', payload', resync', kept', got')
    BY <1>4, <1>5, <1>6, <1>8, <2>1, <2>2
  <2> QED
    BY <1>2, <1>4, <1>5, <1>7, <2>1, <2>3 DEF ReaderInv
<1>12. CASE ~Matches(Append(header, c)) /\ resync
  <2>1. header' = Resynced(Append(header, c)) /\ UNCHANGED <<polling, failed>>
    BY <1>1, <1>12 DEF HeaderByte
  <2>2. Resumes(resync)
    BY <1>12 DEF GoesOn, Resumes
  <2>3. ~Matches(Append(header, c))
    BY <1>12
  <2>4. PICK q : Ahead(Append(taken, c), q, Resynced(Append(header, c)), <<>>, resync, kept, got)
    BY <1>6, <1>9, <2>2, <2>3, AheadResync
  <2>5. Ahead(taken', q, header', payload', resync', kept', got')
    BY <1>4, <1>5, <1>6, <1>8, <2>1, <2>4
  <2> QED
    BY <1>2, <1>4, <1>5, <1>7, <2>1, <2>5 DEF ReaderInv
<1>13. CASE ~Matches(Append(header, c)) /\ ~resync
  <2>1. header' = <<>> /\ polling' = FALSE /\ failed' = TRUE
    BY <1>1, <1>13 DEF HeaderByte
  <2>2. Stops(resync)
    BY <1>13 DEF GoesOn, Stops
  <2>3. ~Matches(Append(header, c))
    BY <1>13
  <2>8. kept \o Scan(Append(taken, c), resync) = got \o <<>>
    BY <1>6, <1>9, <2>2, <2>3, AheadFails
  <2>9. kept' \o Scan(taken', resync') = got' \o <<>>
    BY <1>4, <1>5, <1>6, <2>8
  <2> QED
    BY <1>2, <1>4, <1>5, <1>7, <2>1, <2>9 DEF ReaderInv
<1> QED
  BY <1>2, <1>11, <1>12, <1>13

LEMMA TooLongKeeps ==
  ASSUME ReaderInv, TooLong
  PROVE  ReaderInv'
<1>1. ~failed /\ Streams /\ resync \in BOOLEAN /\ polling \in BOOLEAN
      /\ cut \in Nat /\ pos \in Nat /\ cut <= pos /\ pos <= Len(input)
  BY DEF TooLong, ReaderInv
<1>2. PICK p : Ahead(taken, p, header, payload, resync, kept, got)
  BY <1>1 DEF ReaderInv
<1>3. /\ Len(header) = 4 /\ LengthOf(header) > Capacity
      /\ header' = <<>> /\ polling' = FALSE /\ failed' = ~resync
      /\ UNCHANGED Source /\ pos' = pos /\ cut' = cut /\ kept' = kept /\ got' = got
      /\ payload' = payload
  BY DEF TooLong, History
<1>4. resync' = resync /\ input' = input /\ (Streams' <=> Streams) /\ taken' = taken
  BY <1>3, SameInput, SameTaken
<1>5. payload = <<>>
  <2>1. payload \in Seq(Nat) /\ <<>> \in Seq(Nat)
    BY <1>2, AheadBytes
  <2>2. Len(payload) = 0
    BY <1>2, <1>3, <2>1, AheadTooLong
  <2> QED
    BY <2>1, <2>2
<1>6. CASE resync
  <2>1. Resumes(resync)
    BY <1>6 DEF GoesOn, Resumes
  <2>2. Ahead(taken, Len(taken) + 1, <<>>, <<>>, resync, kept, got)
    BY <1>2, <1>3, <2>1, AheadSkips
  <2>3. Ahead(taken', Len(taken) + 1, header', payload', resync', kept', got')
    BY <1>3, <1>4, <1>5, <2>2
  <2> QED
    BY <1>1, <1>3, <1>4, <1>6, <2>3 DEF ReaderInv
<1>7. CASE ~resync
  <2>1. Stops(resync)
    BY <1>7 DEF GoesOn, Stops
  <2>4. kept \o Scan(taken, resync) = got \o <<>>
    <3>1. Len(header) = 4 /\ LengthOf(header) > Capacity
      BY <1>3
    <3> QED
      BY <1>2, <2>1, <3>1, AheadGivesUp
  <2>5. kept' \o Scan(taken', resync') = got' \o <<>>
    BY <1>3, <1>4, <2>4
  <2> QED
    BY <1>1, <1>3, <1>4, <1>7, <2>5 DEF ReaderInv
<1> QED
  BY <1>1, <1>6, <1>7

LEMMA PayloadKeeps ==
  ASSUME ReaderInv, PayloadBytes
  PROVE  ReaderInv'
<1>1. ~failed /\ Streams /\ resync \in BOOLEAN /\ polling \in BOOLEAN
      /\ cut \in Nat /\ pos \in Nat /\ cut <= pos /\ pos <= Len(input)
  BY DEF PayloadBytes, ReaderInv
<1>2. PICK p : Ahead(taken, p, header, payload, resync, kept, got)
  BY <1>1 DEF ReaderInv
<1>3. PICK n \in 1 .. (LengthOf(header) - Len(payload)) :
        /\ LengthOf(header) <= Capacity /\ pos + n <= Len(input)
        /\ payload' = payload \o SubSeq(input, pos + 1, pos + n)
        /\ pos' = pos + n
  BY DEF PayloadBytes
<1>4. /\ Len(header) = 4
      /\ UNCHANGED Source /\ cut' = cut /\ kept' = kept /\ got' = got
      /\ header' = header /\ polling' = polling /\ failed' = failed
  BY DEF PayloadBytes, History
<1>5. resync' = resync /\ input' = input /\ (Streams' <=> Streams)
  BY <1>4, SameInput
<1>6. header \in Seq(Nat) /\ payload \in Seq(Nat) /\ Len(payload) \in Nat
  BY <1>2, AheadBytes
<1>7. LengthOf(header) \in Nat
  BY <1>4, <1>6, LengthTyped
<1>8. n \in Nat /\ n >= 1 /\ Len(payload) + n <= LengthOf(header)
  BY <1>6, <1>7
<1>9. input \in Seq(Nat) /\ Len(input) \in Nat
  BY <1>1, InputTyped
<1>10. PICK m \in Nat : m = pos + n /\ pos <= m /\ m <= Len(input) /\ cut <= m
  BY <1>1, <1>3, <1>8, <1>9
<1>11. PICK s \in Seq(Nat) : s = SubSeq(input, pos + 1, m) /\ Len(s) = n
  <2>1. SubSeq(input, pos + 1, m) \in Seq(Nat) /\ Len(SubSeq(input, pos + 1, m)) = m - pos
    BY <1>1, <1>9, <1>10, SubSeqFacts
  <2>2. m - pos = n
    BY <1>1, <1>8, <1>10
  <2> QED
    BY <2>1, <2>2
<1>12. taken' = taken \o s
  <2>1. SubSeq(input, cut + 1, m) = SubSeq(input, cut + 1, pos) \o SubSeq(input, pos + 1, m)
    <3>1. cut \in Nat /\ pos \in Nat /\ cut <= pos
      BY <1>1
    <3>2. input \in Seq(Nat)
      BY <1>9
    <3> QED
      BY <1>10, <3>1, <3>2, SubSeqGrows, SMTT(30)
  <2> QED
    BY <1>3, <1>4, <1>5, <1>10, <1>11, <2>1 DEF taken
<1>13. Ahead(taken \o s, p, header, payload \o s, resync, kept, got)
  BY <1>2, <1>3, <1>4, <1>8, <1>11, AheadPayload
<1>14. Ahead(taken', p, header', payload', resync', kept', got')
  BY <1>3, <1>4, <1>5, <1>10, <1>11, <1>12, <1>13
<1>15. pos' \in Nat /\ cut' <= pos' /\ pos' <= Len(input')
  BY <1>3, <1>4, <1>5, <1>10
<1> QED
  BY <1>1, <1>4, <1>5, <1>14, <1>15 DEF ReaderInv

LEMMA ReturnKeeps ==
  ASSUME ReaderInv, Return
  PROVE  ReaderInv'
<1>1. ~failed /\ Streams /\ resync \in BOOLEAN /\ polling \in BOOLEAN
      /\ cut \in Nat /\ pos \in Nat /\ cut <= pos /\ pos <= Len(input)
  BY DEF Return, ReaderInv
<1>2. PICK p : Ahead(taken, p, header, payload, resync, kept, got)
  BY <1>1 DEF ReaderInv
<1>3. Whole(header, payload)
  BY DEF Return, Whole
<1>4. /\ got' = Append(got, <<header[1], payload>>)
      /\ header' = <<>> /\ payload' = <<>> /\ polling' = FALSE
      /\ UNCHANGED Source /\ pos' = pos /\ cut' = cut /\ kept' = kept /\ failed' = failed
  BY DEF Return, History
<1>5. resync' = resync /\ input' = input /\ (Streams' <=> Streams) /\ taken' = taken
  BY <1>4, SameInput, SameTaken
<1>6. Ahead(taken, Len(taken) + 1, <<>>, <<>>, resync, kept, Append(got, <<header[1], payload>>))
  BY <1>2, <1>3, AheadFrame
<1>7. Ahead(taken', Len(taken) + 1, header', payload', resync', kept', got')
  BY <1>4, <1>5, <1>6
<1> QED
  BY <1>1, <1>4, <1>5, <1>7 DEF ReaderInv

(* After an error of the UART everything taken before is history.          *)
LEMMA FailKeeps ==
  ASSUME ReaderInv, ReadFails
  PROVE  ReaderInv'
<1>1. ~failed /\ Streams /\ resync \in BOOLEAN /\ polling \in BOOLEAN
      /\ cut \in Nat /\ pos \in Nat /\ cut <= pos /\ pos <= Len(input)
  BY DEF ReadFails, ReaderInv
<1>2. PICK p : Ahead(taken, p, header, payload, resync, kept, got)
  BY <1>1 DEF ReaderInv
<1>3. /\ header' = <<>> /\ payload' = <<>> /\ polling' = FALSE
      /\ cut' = pos /\ kept' = got
      /\ UNCHANGED Source /\ pos' = pos /\ got' = got /\ failed' = failed
  BY DEF ReadFails
<1>4. resync' = resync /\ input' = input /\ (Streams' <=> Streams)
  BY <1>3, SameInput
<1>5. taken' = <<>>
  <2>1. SubSeq(input, pos + 1, pos) = <<>>
    <3>1. input \in Seq(Nat)
      BY <1>1, InputTyped
    <3> QED
      BY <1>1, <3>1
  <2> QED
    BY <1>3, <1>4, <2>1 DEF taken
<1>6. Ahead(<<>>, 1, <<>>, <<>>, resync, got, got)
  BY <1>1, <1>2, AheadStart DEF Ahead
<1>7. Ahead(taken', 1, header', payload', resync', kept', got')
  BY <1>3, <1>4, <1>5, <1>6
<1>8. cut' \in Nat /\ pos' \in Nat /\ cut' <= pos' /\ pos' <= Len(input')
  BY <1>1, <1>3, <1>4
<1> QED
  BY <1>1, <1>3, <1>4, <1>7, <1>8 DEF ReaderInv

(* The end of a stream of TCP.                                             *)
LEMMA EndKeeps ==
  ASSUME ReaderInv, EndOfStream
  PROVE  ReaderInv'
<1>1. ~failed /\ Streams /\ resync \in BOOLEAN /\ polling \in BOOLEAN
      /\ cut \in Nat /\ pos \in Nat /\ cut <= pos /\ pos <= Len(input)
  BY DEF EndOfStream, ReaderInv
<1>2. PICK p : Ahead(taken, p, header, payload, resync, kept, got)
  BY <1>1 DEF ReaderInv
<1>3. ~Whole(header, payload)
  <2>1. Len(header) \in Nat /\ Len(payload) \in Nat
    BY <1>2, AheadBytes
  <2>2. Reading
    BY DEF EndOfStream
  <2> SUFFICES ASSUME Whole(header, payload) PROVE FALSE
    OBVIOUS
  <2>3. PICK n \in Nat : n = Len(payload)
    BY <2>1
  <2>4. Len(header) = 4 /\ LengthOf(header) = n
    BY <2>3 DEF Whole
  <2>5. n < n
    BY <2>2, <2>3, <2>4 DEF Reading
  <2> QED
    BY <2>5
<1>4. /\ header' = <<>> /\ polling' = FALSE /\ failed' = TRUE
      /\ UNCHANGED Source /\ pos' = pos /\ cut' = cut /\ kept' = kept /\ got' = got
  BY DEF EndOfStream, History
<1>5. resync' = resync /\ input' = input /\ (Streams' <=> Streams) /\ taken' = taken
  BY <1>4, SameInput, SameTaken
<1>6. kept \o Scan(taken, resync) = got \o <<>>
  BY <1>2, <1>3, AheadFinds
<1>7. kept' \o Scan(taken', resync') = got' \o <<>>
  BY <1>4, <1>5, <1>6
<1> QED
  BY <1>1, <1>4, <1>5, <1>7 DEF ReaderInv

LEMMA StreamBegins ==
  ASSUME NEW A \in SUBSET Seq(Nat), NEW B \in SUBSET Seq(Frames), NEW C \in SUBSET BOOLEAN,
         ReaderStart(A, B, C)
  PROVE  ReaderInv
<1>1. /\ Streams /\ resync \in BOOLEAN /\ polling = FALSE /\ failed = FALSE
      /\ pos = 0 /\ cut = 0 /\ header = <<>> /\ payload = <<>> /\ got = <<>> /\ kept = <<>>
  BY DEF ReaderStart, Streams
<1>2. input \in Seq(Nat) /\ Len(input) \in Nat
  BY <1>1, InputTyped
<1>3. taken = <<>>
  <2>1. SubSeq(input, 0 + 1, 0) = <<>>
    BY <1>2
  <2> QED
    BY <1>1, <2>1 DEF taken
<1>4. <<>> \in Seq(Found)
  OBVIOUS
<1>5. Ahead(<<>>, 1, <<>>, <<>>, resync, <<>>, <<>>)
  BY <1>1, <1>4, AheadStart
<1>6. Ahead(taken, 1, header, payload, resync, kept, got)
  BY <1>1, <1>3, <1>5
<1>7. cut \in Nat /\ pos \in Nat /\ cut <= pos /\ pos <= Len(input)
  BY <1>1, <1>2
<1>8. Streams /\ resync \in BOOLEAN /\ polling \in BOOLEAN /\ failed \in BOOLEAN /\ ~failed
  BY <1>1
<1> QED
  BY <1>6, <1>7, <1>8 DEF ReaderInv

LEMMA ReaderInit ==
  ASSUME LocalInit
  PROVE  ReaderInv
<1>1. \/ ReaderStart({<<>>}, {<<>>}, {TRUE})
      \/ ReaderStart(Noises, FrameLists, BOOLEAN)
  BY DEF LocalInit, ReaderOff
<1>2. {<<>>} \in SUBSET Seq(Nat) /\ {<<>>} \in SUBSET Seq(Frames) /\ {TRUE} \in SUBSET BOOLEAN
  OBVIOUS
<1>3. Noises \in SUBSET Seq(Nat) /\ FrameLists \in SUBSET Seq(Frames) /\ BOOLEAN \in SUBSET BOOLEAN
  BY LocalAssumption DEF Frames
<1> QED
  BY <1>1, <1>2, <1>3, StreamBegins

LEMMA ReaderStep ==
  ASSUME ReaderInv, [LocalNext]_local
  PROVE  ReaderInv'
<1>1. CASE ReaderNext
  BY <1>1, CallKeeps, ByteKeeps, TooLongKeeps, PayloadKeeps, ReturnKeeps, FailKeeps, EndKeeps
     DEF ReaderNext
<1>2. CASE UNCHANGED reader
  BY <1>2, SameReader
<1>3. ReaderNext \/ UNCHANGED reader
  BY DEF LocalNext, local
<1> QED
  BY <1>1, <1>2, <1>3

(* The reader returns, frame by frame, what a reader that has all the      *)
(* bytes at once finds in those it has taken, for every stream, every      *)
(* buffer and wherever its future is dropped.                              *)
THEOREM ReaderReturnsExactly == LocalSpec => []ReaderExact
<1>1. LocalInit => ReaderInv
  BY ReaderInit
<1>2. ReaderInv /\ [LocalNext]_local => ReaderInv'
  BY ReaderStep
<1>3. ReaderInv => ReaderExact
  <2> SUFFICES ASSUME ReaderInv PROVE ReaderExact
    OBVIOUS
  <2>1. failed \in BOOLEAN
    BY DEF ReaderInv
  <2>2. CASE ~failed
    <3>1. PICK p : Ahead(taken, p, header, payload, resync, kept, got)
      BY <2>2 DEF ReaderInv
    <3> QED
      BY <3>1, AheadFinds DEF ReaderExact, taken, Whole
  <2>3. CASE failed
    <3>1. header = <<>> /\ kept \o Scan(taken, resync) = got \o <<>>
      BY <2>3 DEF ReaderInv
    <3>2. Len(<<>>) # 4
      OBVIOUS
    <3> QED
      BY <3>1, <3>2 DEF ReaderExact, taken
  <2> QED
    BY <2>1, <2>2, <2>3
<1> QED
  BY <1>1, <1>2, <1>3, PTL DEF LocalSpec

-----------------------------------------------------------------------------
(***************************************************************************)
(* The bytes that a USB host types (UsbBridge).  Meaning reads them line by *)
(* line; the recogniser reads them byte by byte.  The lemmas say how what a *)
(* line means changes with one more byte, and the invariant that the       *)
(* recogniser knows of the line it is in what it needs to follow.           *)
(***************************************************************************)

LEMMA ByteAt ==
  ASSUME NEW S, NEW s \in Seq(S)
  PROVE  Len(s) \in Nat /\ \A i \in 1 .. Len(s) : s[i] \in S
OBVIOUS

LEMMA Appended ==
  ASSUME NEW S, NEW s \in Seq(S), NEW b \in S
  PROVE  /\ Append(s, b) \in Seq(S) /\ Len(Append(s, b)) = Len(s) + 1 /\ Len(s) \in Nat
         /\ Append(s, b)[Len(s) + 1] = b
         /\ \A i \in 1 .. Len(s) : Append(s, b)[i] = s[i]
OBVIOUS

LEMMA LastOfMap ==
  ASSUME NEW S, NEW n \in Nat, NEW f \in [1 .. n + 1 -> S]
  PROVE  /\ [i \in 1 .. n |-> f[i]] \in Seq(S) /\ f[n + 1] \in S
         /\ f = Append([i \in 1 .. n |-> f[i]], f[n + 1])
<1>1. PICK g \in [1 .. n -> S] : g = [i \in 1 .. n |-> f[i]]
  <2>1. \A i \in 1 .. n : i \in 1 .. n + 1
    OBVIOUS
  <2> QED
    BY <2>1
<1>2. g \in Seq(S) /\ Len(g) = n
  OBVIOUS
<1>3. n + 1 \in 1 .. n + 1
  OBVIOUS
<1>4. f[n + 1] \in S
  BY <1>3
<1>5. PICK a \in Seq(S) : a = Append(g, f[n + 1])
  <2>1. Append(g, f[n + 1]) \in Seq(S)
    BY <1>2, <1>4, JoinOne
  <2> QED
    BY <2>1
<1>6. DOMAIN a = 1 .. n + 1 /\ a = [i \in 1 .. n + 1 |-> a[i]]
  BY <1>2, <1>4, <1>5
<1>7. \A i \in 1 .. n + 1 : a[i] = f[i]
  BY <1>1, <1>2, <1>4, <1>5
<1>8. a = f
  BY <1>6, <1>7
<1> QED
  BY <1>1, <1>2, <1>4, <1>5, <1>8

(* FlattenSeq of what each of n + 1 places contributes.                    *)
LEMMA FlattenLast ==
  ASSUME NEW S, NEW n \in Nat, NEW f \in [1 .. n + 1 -> Seq(S)]
  PROVE  /\ FlattenSeq(f) = FlattenSeq([i \in 1 .. n |-> f[i]]) \o f[n + 1]
         /\ FlattenSeq([i \in 1 .. n |-> f[i]]) \in Seq(S) /\ f[n + 1] \in Seq(S)
<1>1. PICK g \in Seq(Seq(S)), x \in Seq(S) :
        g = [i \in 1 .. n |-> f[i]] /\ x = f[n + 1] /\ f = Append(g, x)
  <2>1. /\ [i \in 1 .. n |-> f[i]] \in Seq(Seq(S)) /\ f[n + 1] \in Seq(S)
        /\ f = Append([i \in 1 .. n |-> f[i]], f[n + 1])
    BY LastOfMap
  <2> QED
    BY <2>1
<1>2. FlattenSeq(Append(g, x)) = FlattenSeq(g) \o x /\ FlattenSeq(g) \in Seq(S)
  BY FlattenAppend, FlattenTyped
<1> QED
  BY <1>1, <1>2

LEMMA FlattenNothing ==
  ASSUME NEW f, f = <<>>
  PROVE  FlattenSeq(f) = <<>>
<1>1. Len(<<>>) = 0
  OBVIOUS
<1> QED
  BY <1>1 DEF FlattenSeq

-----------------------------------------------------------------------------
(* The bytes of a text that count.                                          *)
Counted(b) == IF b = "r" THEN <<>> ELSE <<b>>

LEMMA CountedTyped ==
  ASSUME NEW b \in Bytes
  PROVE  Counted(b) \in Seq(Bytes)
BY DEF Counted

LEMMA TextTyped ==
  ASSUME NEW s \in Seq(Bytes)
  PROVE  WithoutReturns(s) \in Seq(Bytes)
<1>1. [i \in 1 .. Len(s) |-> IF s[i] = "r" THEN <<>> ELSE <<s[i]>>]
        = [i \in 1 .. Len(s) |-> Counted(s[i])]
  BY DEF Counted
<1>2. \A i \in 1 .. Len(s) : Counted(s[i]) \in Seq(Bytes)
  BY ByteAt, CountedTyped
<1>3. [i \in 1 .. Len(s) |-> Counted(s[i])] \in Seq(Seq(Bytes))
  BY <1>2, ByteAt
<1> QED
  BY <1>1, <1>3, FlattenTyped DEF WithoutReturns

LEMMA TextNothing == WithoutReturns(<<>>) = <<>>
<1>1. Len(<<>>) = 0
  OBVIOUS
<1>2. [i \in 1 .. Len(<<>>) |-> IF <<>>[i] = "r" THEN <<>> ELSE <<<<>>[i]>>] = <<>>
  BY <1>1
<1> QED
  BY <1>2, FlattenNothing DEF WithoutReturns

LEMMA TextGrows ==
  ASSUME NEW s \in Seq(Bytes), NEW b \in Bytes
  PROVE  WithoutReturns(Append(s, b)) = WithoutReturns(s) \o Counted(b)
<1>1. PICK n \in Nat : n = Len(s)
  BY ByteAt
<1>2. PICK a \in Seq(Bytes) : /\ a = Append(s, b) /\ Len(a) = n + 1 /\ a[n + 1] = b
                              /\ \A i \in 1 .. n : a[i] = s[i]
  <2>1. /\ Append(s, b) \in Seq(Bytes) /\ Len(Append(s, b)) = Len(s) + 1
        /\ Append(s, b)[Len(s) + 1] = b /\ \A i \in 1 .. Len(s) : Append(s, b)[i] = s[i]
    BY Appended
  <2> QED
    BY <1>1, <2>1
<1>3. PICK f : f = [i \in 1 .. n + 1 |-> Counted(a[i])]
  OBVIOUS
<1>4. f \in [1 .. n + 1 -> Seq(Bytes)]
  <2>1. \A i \in 1 .. n + 1 : Counted(a[i]) \in Seq(Bytes)
    BY <1>2, ByteAt, CountedTyped
  <2> QED
    BY <1>3, <2>1
<1>5. WithoutReturns(a) = FlattenSeq(f)
  <2>1. f = [i \in 1 .. Len(a) |-> IF a[i] = "r" THEN <<>> ELSE <<a[i]>>]
    BY <1>2, <1>3 DEF Counted
  <2> QED
    BY <2>1 DEF WithoutReturns
<1>6. WithoutReturns(s) = FlattenSeq([i \in 1 .. n |-> f[i]])
  <2>1. [i \in 1 .. n |-> f[i]] = [i \in 1 .. Len(s) |-> IF s[i] = "r" THEN <<>> ELSE <<s[i]>>]
    <3>1. \A i \in 1 .. n : i \in 1 .. n + 1
      OBVIOUS
    <3>2. \A i \in 1 .. n : f[i] = IF s[i] = "r" THEN <<>> ELSE <<s[i]>>
      BY <1>2, <1>3, <3>1 DEF Counted
    <3> QED
      BY <1>1, <3>2
  <2> QED
    BY <2>1 DEF WithoutReturns
<1>7. f[n + 1] = Counted(b)
  <2>1. n + 1 \in 1 .. n + 1
    OBVIOUS
  <2> QED
    BY <1>2, <1>3, <2>1
<1>8. FlattenSeq(f) = FlattenSeq([i \in 1 .. n |-> f[i]]) \o f[n + 1]
  BY <1>4, FlattenLast
<1> QED
  BY <1>2, <1>5, <1>6, <1>7, <1>8

-----------------------------------------------------------------------------
(* Parts of a sequence that grows by one byte.                              *)
LEMMA PartFacts ==
  ASSUME NEW S, NEW s \in Seq(S), NEW m \in Nat, NEW i \in Nat,
         m >= 1, i <= Len(s), m <= i + 1
  PROVE  /\ SubSeq(s, m, i) \in Seq(S) /\ Len(SubSeq(s, m, i)) = i - m + 1
         /\ \A k \in 1 .. i - m + 1 : SubSeq(s, m, i)[k] = s[m + k - 1]
<1>1. SubSeq(s, m, i) \in Seq(S)
  BY SMTT(30)
<1>2. Len(SubSeq(s, m, i)) = i - m + 1
  BY SMTT(30)
<1>3. \A k \in 1 .. i - m + 1 : SubSeq(s, m, i)[k] = s[m + k - 1]
  BY SMTT(30)
<1> QED
  BY <1>1, <1>2, <1>3

LEMMA SameSeq ==
  ASSUME NEW S, NEW x \in Seq(S), NEW y \in Seq(S), NEW n \in Nat, Len(x) = n, Len(y) = n,
         \A k \in 1 .. n : x[k] = y[k]
  PROVE  x = y
BY SMTT(30)

LEMMA PartKept ==
  ASSUME NEW S, NEW s \in Seq(S), NEW b \in S, NEW m \in Nat, NEW i \in Nat,
         m >= 1, i <= Len(s), m <= i + 1
  PROVE  SubSeq(Append(s, b), m, i) = SubSeq(s, m, i)
<1>1. PICK a \in Seq(S) : /\ a = Append(s, b) /\ Len(a) = Len(s) + 1
                          /\ \A k \in 1 .. Len(s) : a[k] = s[k]
  <2>1. /\ Append(s, b) \in Seq(S) /\ Len(Append(s, b)) = Len(s) + 1
        /\ \A k \in 1 .. Len(s) : Append(s, b)[k] = s[k]
    BY Appended
  <2> QED
    BY <2>1
<1>2. Len(s) \in Nat
  BY ByteAt
<1>3. i <= Len(a)
  BY <1>1, <1>2
<1>4. PICK n \in Nat : n = i - m + 1
  <2>1. i - m + 1 \in Nat
    OBVIOUS
  <2> QED
    BY <2>1
<1>5. /\ SubSeq(a, m, i) \in Seq(S) /\ Len(SubSeq(a, m, i)) = n
      /\ \A k \in 1 .. n : SubSeq(a, m, i)[k] = a[m + k - 1]
  BY <1>3, <1>4, PartFacts
<1>6. /\ SubSeq(s, m, i) \in Seq(S) /\ Len(SubSeq(s, m, i)) = n
      /\ \A k \in 1 .. n : SubSeq(s, m, i)[k] = s[m + k - 1]
  BY <1>4, PartFacts
<1>7. \A k \in 1 .. n : m + k - 1 \in 1 .. Len(s)
  BY <1>2, <1>4
<1>8. \A k \in 1 .. n : SubSeq(a, m, i)[k] = SubSeq(s, m, i)[k]
  BY <1>1, <1>5, <1>6, <1>7
<1>9. PICK x \in Seq(S), y \in Seq(S) : x = SubSeq(a, m, i) /\ y = SubSeq(s, m, i)
  BY <1>5, <1>6
<1>10. x = y
  BY <1>5, <1>6, <1>8, <1>9, SameSeq
<1> QED
  BY <1>1, <1>9, <1>10

LEMMA PartGrows ==
  ASSUME NEW S, NEW s \in Seq(S), NEW b \in S, NEW m \in Nat, m >= 1, m <= Len(s) + 1
  PROVE  SubSeq(Append(s, b), m, Len(s) + 1) = Append(SubSeq(s, m, Len(s)), b)
<1>1. PICK l \in Nat : l = Len(s)
  BY ByteAt
<1>2. PICK a \in Seq(S) : /\ a = Append(s, b) /\ Len(a) = l + 1 /\ a[l + 1] = b
                          /\ \A k \in 1 .. l : a[k] = s[k]
  <2>1. /\ Append(s, b) \in Seq(S) /\ Len(Append(s, b)) = Len(s) + 1
        /\ Append(s, b)[Len(s) + 1] = b /\ \A k \in 1 .. Len(s) : Append(s, b)[k] = s[k]
    BY Appended
  <2> QED
    BY <1>1, <2>1
<1>3. PICK n \in Nat : n = l - m + 1
  <2>1. l - m + 1 \in Nat
    BY <1>1
  <2> QED
    BY <2>1
<1>4. /\ SubSeq(s, m, l) \in Seq(S) /\ Len(SubSeq(s, m, l)) = n
      /\ \A k \in 1 .. n : SubSeq(s, m, l)[k] = s[m + k - 1]
  BY <1>1, <1>3, PartFacts
<1>5. PICK p \in Seq(S) : p = SubSeq(s, m, l)
  BY <1>4
<1>6. PICK x \in Seq(S) : /\ x = Append(p, b) /\ Len(x) = n + 1 /\ x[n + 1] = b
                          /\ \A k \in 1 .. n : x[k] = s[m + k - 1]
  <2>1. /\ Append(p, b) \in Seq(S) /\ Len(Append(p, b)) = Len(p) + 1
        /\ Append(p, b)[Len(p) + 1] = b /\ \A k \in 1 .. Len(p) : Append(p, b)[k] = p[k]
    BY Appended
  <2>2. Len(p) = n /\ \A k \in 1 .. n : p[k] = s[m + k - 1]
    BY <1>4, <1>5
  <2>3. \A k \in 1 .. n : Append(p, b)[k] = s[m + k - 1]
    BY <2>1, <2>2
  <2> QED
    BY <2>1, <2>2, <2>3
<1>7. /\ SubSeq(a, m, l + 1) \in Seq(S) /\ Len(SubSeq(a, m, l + 1)) = n + 1
      /\ \A k \in 1 .. n + 1 : SubSeq(a, m, l + 1)[k] = a[m + k - 1]
  <2>1. l + 1 \in Nat /\ l + 1 <= Len(a) /\ m <= (l + 1) + 1 /\ (l + 1) - m + 1 = n + 1
    BY <1>1, <1>2, <1>3
  <2> QED
    BY <2>1, PartFacts
<1>8. PICK y \in Seq(S) : y = SubSeq(a, m, l + 1)
  BY <1>7
<1>9. \A k \in 1 .. n + 1 : x[k] = y[k]
  <2>1. ASSUME NEW k \in 1 .. n + 1 PROVE x[k] = y[k]
    <3>1. CASE k \in 1 .. n
      <4>1. m + k - 1 \in 1 .. l
        BY <1>1, <1>3, <3>1
      <4> QED
        BY <1>2, <1>6, <1>7, <1>8, <3>1, <4>1
    <3>2. CASE k = n + 1
      <4>1. m + k - 1 = l + 1
        BY <1>3, <3>2
      <4> QED
        BY <1>2, <1>6, <1>7, <1>8, <3>2, <4>1
    <3> QED
      BY <3>1, <3>2
  <2> QED
    BY <2>1
<1>10. x = y
  <2>1. n + 1 \in Nat
    OBVIOUS
  <2> QED
    BY <1>6, <1>7, <1>8, <1>9, <2>1, SameSeq
<1> QED
  BY <1>1, <1>2, <1>5, <1>6, <1>8, <1>10

LEMMA PartEnds ==
  ASSUME NEW S, NEW s \in Seq(S)
  PROVE  SubSeq(s, 1, Len(s)) = s /\ SubSeq(s, Len(s) + 1, Len(s)) = <<>>
<1>1. PICK n \in Nat : n = Len(s)
  BY ByteAt
<1>2. /\ SubSeq(s, 1, n) \in Seq(S) /\ Len(SubSeq(s, 1, n)) = n - 1 + 1
      /\ \A k \in 1 .. n - 1 + 1 : SubSeq(s, 1, n)[k] = s[1 + k - 1]
  BY <1>1, PartFacts
<1>3. PICK x \in Seq(S) : x = SubSeq(s, 1, n)
  BY <1>2
<1>4. x = s
  <2>1. Len(x) = n /\ \A k \in 1 .. n : x[k] = s[k]
    BY <1>2, <1>3
  <2> QED
    BY <1>1, <2>1, SameSeq
<1>5. SubSeq(s, n + 1, n) \in Seq(S) /\ Len(SubSeq(s, n + 1, n)) = 0
  <2>1. n + 1 \in Nat /\ n + 1 >= 1 /\ n + 1 <= n + 1 /\ n - (n + 1) + 1 = 0
    OBVIOUS
  <2> QED
    BY <1>1, <2>1, PartFacts
<1>6. SubSeq(s, n + 1, n) = <<>>
  BY <1>5, EmptySeq
<1> QED
  BY <1>1, <1>3, <1>4, <1>6

-----------------------------------------------------------------------------
(* The least and the greatest element.                                      *)
LEMMA LeastThere ==
  ASSUME NEW T \in SUBSET Nat, T # {}
  PROVE  Min(T) \in T /\ \A k \in T : Min(T) <= k
<1>1. \E m \in T : \A k \in T : m <= k
  BY Least
<1> QED
  BY <1>1 DEF Min

LEMMA LeastIs ==
  ASSUME NEW T \in SUBSET Nat, NEW m \in T, \A k \in T : m <= k
  PROVE  Min(T) = m
<1>1. Min(T) \in T /\ \A k \in T : Min(T) <= k
  BY LeastThere
<1>2. Min(T) \in Nat /\ m \in Nat /\ Min(T) <= m /\ m <= Min(T)
  BY <1>1
<1> QED
  BY <1>2

LEMMA GreatestThere ==
  ASSUME NEW n \in Nat, NEW T \in SUBSET (0 .. n), T # {}
  PROVE  Max(T) \in T /\ \A k \in T : Max(T) >= k
<1>1. PICK U \in SUBSET Nat : U = {n - k : k \in T}
  <2>1. \A k \in T : n - k \in Nat
    OBVIOUS
  <2>2. {n - k : k \in T} \in SUBSET Nat
    BY <2>1
  <2> QED
    BY <2>2
<1>2. U # {}
  BY <1>1
<1>3. PICK m \in U : \A k \in U : m <= k
  BY <1>2, Least
<1>4. PICK g \in T : m = n - g
  BY <1>1, <1>3
<1>5. ASSUME NEW k \in T PROVE g >= k
  <2>1. n - k \in U /\ n \in Nat /\ k \in Nat /\ g \in Nat
    BY <1>1
  <2>2. n - g <= n - k
    BY <1>3, <1>4, <2>1
  <2> QED
    BY <2>1, <2>2
<1>6. \E x \in T : \A k \in T : x >= k
  BY <1>5
<1> QED
  BY <1>6 DEF Max

LEMMA GreatestIs ==
  ASSUME NEW n \in Nat, NEW T \in SUBSET (0 .. n), NEW m \in T, \A k \in T : m >= k
  PROVE  Max(T) = m
<1>1. Max(T) \in T /\ \A k \in T : Max(T) >= k
  BY GreatestThere
<1>2. PICK x \in T : x = Max(T)
  BY <1>1
<1>3. x \in Nat /\ m \in Nat /\ x <= m /\ m <= x
  BY <1>1, <1>2
<1> QED
  BY <1>2, <1>3

-----------------------------------------------------------------------------
(* A line that grows by one byte.                                           *)
LEMMA TextPart ==
  ASSUME NEW l \in Seq(Bytes), NEW i \in 0 .. Len(l)
  PROVE  SubSeq(l, 1, i) \in Seq(Bytes) /\ Text(l, i) \in Seq(Bytes)
<1>1. i \in Nat /\ 1 >= 1 /\ i <= Len(l) /\ 1 <= i + 1
  BY ByteAt
<1>2. SubSeq(l, 1, i) \in Seq(Bytes)
  BY <1>1, PartFacts
<1> QED
  BY <1>2, TextTyped DEF Text

LEMMA TextKept ==
  ASSUME NEW l \in Seq(Bytes), NEW b \in Bytes, NEW i \in 0 .. Len(l)
  PROVE  Text(Append(l, b), i) = Text(l, i)
<1>1. i \in Nat /\ 1 >= 1 /\ i <= Len(l) /\ 1 <= i + 1
  BY ByteAt
<1>2. SubSeq(Append(l, b), 1, i) = SubSeq(l, 1, i)
  BY <1>1, PartKept
<1> QED
  BY <1>2 DEF Text

LEMMA TextWhole ==
  ASSUME NEW l \in Seq(Bytes)
  PROVE  Text(l, Len(l)) = WithoutReturns(l)
<1>1. SubSeq(l, 1, Len(l)) = l
  BY PartEnds
<1> QED
  BY <1>1 DEF Text

Solid(l) == {i \in 1 .. Len(l) : l[i] # "r"}

LEMMA BodyIs ==
  ASSUME NEW l
  PROVE  Body(l) = IF Solid(l) # {} THEN Min(Solid(l)) ELSE 0
BY DEF Body, SelectInSeq, Solid

LEMMA BodyFacts ==
  ASSUME NEW l \in Seq(Bytes)
  PROVE  /\ Len(l) \in Nat /\ Body(l) \in 0 .. Len(l)
         /\ Body(l) # 0 => Body(l) \in Solid(l) /\ \A k \in Solid(l) : Body(l) <= k
         /\ Body(l) = 0 => Solid(l) = {}
<1>1. Len(l) \in Nat
  BY ByteAt
<1>2. Solid(l) \in SUBSET Nat /\ Solid(l) \subseteq 1 .. Len(l)
  BY <1>1 DEF Solid
<1>3. CASE Solid(l) = {}
  <2>1. Body(l) = 0
    BY <1>3, BodyIs
  <2> QED
    BY <1>1, <1>3, <2>1
<1>4. CASE Solid(l) # {}
  <2>1. Min(Solid(l)) \in Solid(l) /\ \A k \in Solid(l) : Min(Solid(l)) <= k
    BY <1>2, <1>4, LeastThere
  <2>2. Body(l) = Min(Solid(l))
    BY <1>4, BodyIs
  <2>3. Body(l) \in 1 .. Len(l)
    BY <1>2, <2>1, <2>2
  <2>4. Body(l) # 0 /\ Body(l) \in 0 .. Len(l)
    BY <1>1, <2>3
  <2> QED
    BY <1>1, <2>1, <2>2, <2>4
<1> QED
  BY <1>3, <1>4

LEMMA SolidGrows ==
  ASSUME NEW l \in Seq(Bytes), NEW b \in Bytes
  PROVE  Solid(Append(l, b)) = Solid(l) \cup IF b = "r" THEN {} ELSE {Len(l) + 1}
<1>1. PICK n \in Nat : n = Len(l)
  BY ByteAt
<1>2. /\ Len(Append(l, b)) = n + 1 /\ Append(l, b)[n + 1] = b
      /\ \A i \in 1 .. n : Append(l, b)[i] = l[i]
  BY <1>1, Appended
<1>3. \A i : i \in 1 .. n + 1 <=> i \in 1 .. n \/ i = n + 1
  OBVIOUS
<1> QED
  BY <1>1, <1>2, <1>3 DEF Solid

LEMMA BodyGrows ==
  ASSUME NEW l \in Seq(Bytes), NEW b \in Bytes
  PROVE  /\ Body(l) # 0 => Body(Append(l, b)) = Body(l)
         /\ Body(l) = 0 /\ b = "r" => Body(Append(l, b)) = 0
         /\ Body(l) = 0 /\ b # "r" => Body(Append(l, b)) = Len(l) + 1
<1>1. /\ Len(l) \in Nat /\ Body(l) \in 0 .. Len(l)
      /\ Body(l) # 0 => Body(l) \in Solid(l) /\ \A k \in Solid(l) : Body(l) <= k
      /\ Body(l) = 0 => Solid(l) = {}
  BY BodyFacts
<1>2. Solid(Append(l, b)) = Solid(l) \cup IF b = "r" THEN {} ELSE {Len(l) + 1}
  BY SolidGrows
<1>3. Solid(l) \subseteq 1 .. Len(l)
  BY DEF Solid
<1>4. CASE Body(l) # 0
  <2>1. Solid(Append(l, b)) \in SUBSET Nat
    BY <1>1, <1>2, <1>3
  <2>2. Body(l) \in Solid(Append(l, b)) /\ \A k \in Solid(Append(l, b)) : Body(l) <= k
    BY <1>1, <1>2, <1>4
  <2>3. Min(Solid(Append(l, b))) = Body(l)
    BY <2>1, <2>2, LeastIs
  <2> QED
    BY <1>4, <2>2, <2>3, BodyIs
<1>5. CASE Body(l) = 0 /\ b = "r"
  <2>1. Solid(Append(l, b)) = {}
    BY <1>1, <1>2, <1>5
  <2> QED
    BY <1>5, <2>1, BodyIs
<1>6. CASE Body(l) = 0 /\ b # "r"
  <2>1. PICK m \in Nat : m = Len(l) + 1
    BY <1>1
  <2>2. Solid(Append(l, b)) = {m}
    BY <1>1, <1>2, <1>6, <2>1
  <2>3. Min({m}) = m
    <3>1. {m} \in SUBSET Nat /\ m \in {m} /\ \A k \in {m} : m <= k
      OBVIOUS
    <3> QED
      BY <3>1, LeastIs
  <2>4. Body(Append(l, b)) = m
    BY <2>2, <2>3, BodyIs
  <2> QED
    BY <1>6, <2>1, <2>4
<1> QED
  BY <1>4, <1>5, <1>6

(* The byte b is the one that shows that the line is no command.            *)
BreaksOff(l, b) ==
  b = "b" \/ (b \in Printable /\ Len(WithoutReturns(Append(l, b))) > CommandMax)

LEMMA BreaksGrow ==
  ASSUME NEW l \in Seq(Bytes), NEW b \in Bytes
  PROVE  Breaks(Append(l, b)) = Breaks(l) \cup IF BreaksOff(l, b) THEN {Len(l) + 1} ELSE {}
<1>1. PICK n \in Nat : n = Len(l)
  BY ByteAt
<1>2. /\ Append(l, b) \in Seq(Bytes) /\ Len(Append(l, b)) = n + 1 /\ Append(l, b)[n + 1] = b
      /\ \A i \in 1 .. n : Append(l, b)[i] = l[i]
  BY <1>1, Appended
<1>3. \A i \in 1 .. n : Text(Append(l, b), i) = Text(l, i)
  <2>1. \A i \in 1 .. n : i \in 0 .. Len(l)
    BY <1>1
  <2> QED
    BY <2>1, TextKept
<1>4. Text(Append(l, b), n + 1) = WithoutReturns(Append(l, b))
  BY <1>2, TextWhole
<1>5. \A i : i \in 1 .. n + 1 <=> i \in 1 .. n \/ i = n + 1
  OBVIOUS
<1>6. ASSUME NEW i
      PROVE  i \in Breaks(Append(l, b))
               <=> i \in Breaks(l) \cup IF BreaksOff(l, b) THEN {Len(l) + 1} ELSE {}
  <2>1. CASE i \in 1 .. n
    <3>1. i # n + 1 /\ i \in 1 .. n + 1
      BY <2>1
    <3>2. i \in Breaks(Append(l, b)) <=> i \in Breaks(l)
      BY <1>1, <1>2, <1>3, <2>1, <3>1 DEF Breaks
    <3> QED
      BY <1>1, <3>1, <3>2
  <2>2. CASE i = n + 1
    <3>1. i \notin 1 .. n /\ i \in 1 .. n + 1
      BY <2>2
    <3>2. i \notin Breaks(l)
      BY <1>1, <3>1 DEF Breaks
    <3>3. i \in Breaks(Append(l, b)) <=> BreaksOff(l, b)
      BY <1>2, <1>4, <2>2, <3>1 DEF Breaks, BreaksOff
    <3> QED
      BY <1>1, <2>2, <3>2, <3>3
  <2>3. CASE i \notin 1 .. n /\ i # n + 1
    <3>1. i \notin Breaks(l) /\ i \notin Breaks(Append(l, b))
      BY <1>1, <1>2, <1>5, <2>3 DEF Breaks
    <3> QED
      BY <1>1, <2>3, <3>1
  <2> QED
    BY <2>1, <2>2, <2>3
<1> QED
  BY <1>6

-----------------------------------------------------------------------------
(* What the recogniser knows of the line l: nothing yet, a command that may *)
(* still come, or that the line is data.                                    *)
Lead(l) == SubSeq(l, 1, Body(l) - 1)
Opening(l) == Body(l) = 0 /\ WithoutReturns(l) = <<>>
Holding(l) == Body(l) # 0 /\ l[Body(l)] = "/" /\ Breaks(l) = {}
Passing(l) == Body(l) # 0 /\ (l[Body(l)] # "/" \/ Breaks(l) # {})

Given(l) == (Lead(l) \o Text(l, Min(Breaks(l)) - 1)) \o SubSeq(l, Min(Breaks(l)), Len(l))
Passed(l) == IF l[Body(l)] # "/" THEN l ELSE Given(l)

Data(bytes, ended) == [Nothing EXCEPT !.out = bytes \o IF ended THEN <<"n">> ELSE <<>>]
Command(l) == [out |-> Lead(l), commands |-> <<WithoutReturns(l)>>, held |-> <<>>]
HeldBack(l) == [out |-> Lead(l), commands |-> <<>>, held |-> WithoutReturns(l)]

LEMMA OpeningMeans ==
  ASSUME NEW l, Body(l) = 0, NEW e
  PROVE  LineMeaning(l, e) = Data(l, e)
BY DEF LineMeaning, Data

LEMMA PassingMeans ==
  ASSUME NEW l, Passing(l), NEW e
  PROVE  LineMeaning(l, e) = Data(Passed(l), e)
BY DEF LineMeaning, Data, Passed, Given, Passing, Lead

LEMMA HoldingMeans ==
  ASSUME NEW l \in Seq(Bytes), Holding(l)
  PROVE  LineMeaning(l, TRUE) = Command(l) /\ LineMeaning(l, FALSE) = HeldBack(l)
<1>1. Text(l, Len(l)) = WithoutReturns(l)
  BY TextWhole
<1> QED
  BY <1>1 DEF LineMeaning, Holding, Command, HeldBack, Lead

LEMMA LeadTyped ==
  ASSUME NEW l \in Seq(Bytes), Body(l) # 0
  PROVE  Lead(l) \in Seq(Bytes)
<1>1. Body(l) - 1 \in 0 .. Len(l)
  BY BodyFacts
<1> QED
  BY <1>1, TextPart DEF Lead

LEMMA BreakFacts ==
  ASSUME NEW l \in Seq(Bytes), Breaks(l) # {}
  PROVE  Min(Breaks(l)) \in Breaks(l) /\ Min(Breaks(l)) \in 1 .. Len(l)
         /\ \A k \in Breaks(l) : Min(Breaks(l)) <= k
<1>1. Breaks(l) \subseteq 1 .. Len(l) /\ Len(l) \in Nat
  BY ByteAt DEF Breaks
<1>2. Breaks(l) \in SUBSET Nat
  BY <1>1
<1> QED
  BY <1>1, <1>2, LeastThere

LEMMA PassedTyped ==
  ASSUME NEW l \in Seq(Bytes), Passing(l)
  PROVE  Passed(l) \in Seq(Bytes)
<1>1. CASE l[Body(l)] # "/"
  BY <1>1 DEF Passed
<1>2. CASE l[Body(l)] = "/"
  <2>1. PICK m \in 1 .. Len(l) : m = Min(Breaks(l))
    BY <1>2, BreakFacts DEF Passing
  <2>2. Lead(l) \in Seq(Bytes)
    BY LeadTyped DEF Passing
  <2>3. Text(l, m - 1) \in Seq(Bytes)
    <3>1. m - 1 \in 0 .. Len(l)
      BY <2>1, ByteAt
    <3> QED
      BY <3>1, TextPart
  <2>4. SubSeq(l, m, Len(l)) \in Seq(Bytes)
    <3>1. m \in Nat /\ Len(l) \in Nat /\ m >= 1 /\ Len(l) <= Len(l) /\ m <= Len(l) + 1
      BY <2>1, ByteAt
    <3> QED
      BY <3>1, PartFacts
  <2>5. Lead(l) \o Text(l, m - 1) \in Seq(Bytes)
    BY <2>2, <2>3, JoinTyped
  <2>6. (Lead(l) \o Text(l, m - 1)) \o SubSeq(l, m, Len(l)) \in Seq(Bytes)
    BY <2>4, <2>5, JoinTyped
  <2> QED
    BY <1>2, <2>1, <2>6 DEF Passed, Given
<1> QED
  BY <1>1, <1>2

(* The meaning of a line is bytes and commands.                             *)
LEMMA MeaningTyped ==
  ASSUME NEW l \in Seq(Bytes), NEW e \in BOOLEAN
  PROVE  LineMeaning(l, e).out \in Seq(Bytes) /\ LineMeaning(l, e).commands \in Seq(Seq(Bytes))
<1>1. ASSUME NEW d \in Seq(Bytes)
      PROVE  Data(d, e).out \in Seq(Bytes) /\ Data(d, e).commands \in Seq(Seq(Bytes))
  <2>1. Data(d, e).out = d \o (IF e THEN <<"n">> ELSE <<>>) /\ Data(d, e).commands = <<>>
    BY DEF Data, Nothing
  <2>2. PICK x \in Seq(Bytes) : x = IF e THEN <<"n">> ELSE <<>>
    <3>1. "n" \in Bytes
      BY DEF Bytes
    <3>2. <<"n">> \in Seq(Bytes) /\ <<>> \in Seq(Bytes)
      BY <3>1
    <3> QED
      BY <3>2
  <2>3. d \o x \in Seq(Bytes)
    BY JoinTyped
  <2> QED
    BY <2>1, <2>2, <2>3
<1>2. CASE Body(l) = 0
  <2>1. LineMeaning(l, e) = Data(l, e)
    BY <1>2, OpeningMeans
  <2> QED
    BY <1>1, <2>1
<1>3. CASE Passing(l)
  <2>1. LineMeaning(l, e) = Data(Passed(l), e)
    BY <1>3, PassingMeans
  <2> QED
    BY <1>1, <1>3, <2>1, PassedTyped
<1>4. CASE Holding(l)
  <2>1. LineMeaning(l, e) = IF e THEN Command(l) ELSE HeldBack(l)
    BY <1>4, HoldingMeans
  <2>2. Lead(l) \in Seq(Bytes)
    BY <1>4, LeadTyped DEF Holding
  <2>3. PICK t \in Seq(Bytes) : t = WithoutReturns(l)
    BY TextTyped
  <2>4. <<t>> \in Seq(Seq(Bytes)) /\ <<>> \in Seq(Seq(Bytes))
    OBVIOUS
  <2> QED
    BY <2>1, <2>2, <2>3, <2>4 DEF Command, HeldBack
<1> QED
  BY <1>2, <1>3, <1>4 DEF Passing, Holding

LEMMA BodyKept ==
  ASSUME NEW l \in Seq(Bytes), NEW b \in Bytes, Body(l) # 0
  PROVE  /\ Body(Append(l, b)) = Body(l) /\ Lead(Append(l, b)) = Lead(l)
         /\ Append(l, b)[Body(l)] = l[Body(l)]
<1>1. PICK k \in 1 .. Len(l) : k = Body(l)
  BY BodyFacts
<1>2. Body(Append(l, b)) = k
  BY <1>1, BodyGrows
<1>3. Append(l, b)[k] = l[k]
  BY Appended
<1>4. SubSeq(Append(l, b), 1, k - 1) = SubSeq(l, 1, k - 1)
  <2>1. k - 1 \in Nat /\ 1 >= 1 /\ k - 1 <= Len(l) /\ 1 <= (k - 1) + 1
    BY ByteAt
  <2> QED
    BY <2>1, PartKept
<1> QED
  BY <1>1, <1>2, <1>3, <1>4 DEF Lead

LEMMA OpeningReturns ==
  ASSUME NEW l \in Seq(Bytes), Opening(l)
  PROVE  Opening(Append(l, "r"))
<1>1. "r" \in Bytes /\ Counted("r") = <<>>
  BY DEF Bytes, Counted
<1>2. Body(Append(l, "r")) = 0
  BY <1>1, BodyGrows DEF Opening
<1>3. WithoutReturns(Append(l, "r")) = WithoutReturns(l) \o <<>>
  BY <1>1, TextGrows
<1>4. <<>> \o <<>> = <<>>
  OBVIOUS
<1> QED
  BY <1>2, <1>3, <1>4 DEF Opening

LEMMA OpeningText ==
  ASSUME NEW l \in Seq(Bytes), Opening(l), NEW b \in Bytes, b # "r"
  PROVE  /\ Body(Append(l, b)) = Len(l) + 1 /\ Append(l, b)[Len(l) + 1] = b /\ Len(l) \in Nat
         /\ WithoutReturns(Append(l, b)) = <<b>> /\ Lead(Append(l, b)) = l
<1>1. Body(Append(l, b)) = Len(l) + 1 /\ Append(l, b)[Len(l) + 1] = b /\ Len(l) \in Nat
  BY BodyGrows, Appended DEF Opening
<1>2. WithoutReturns(Append(l, b)) = WithoutReturns(l) \o Counted(b)
  BY TextGrows
<1>3. Counted(b) = <<b>>
  BY DEF Counted
<1>4. <<>> \o <<b>> = <<b>>
  OBVIOUS
<1>5. SubSeq(Append(l, b), 1, Len(l)) = l
  <2>1. SubSeq(Append(l, b), 1, Len(l)) = SubSeq(l, 1, Len(l))
    <3>1. Len(l) \in Nat /\ 1 >= 1 /\ Len(l) <= Len(l) /\ 1 <= Len(l) + 1
      BY <1>1
    <3> QED
      BY <3>1, PartKept
  <2> QED
    BY <2>1, PartEnds
<1>6. (Len(l) + 1) - 1 = Len(l)
  BY <1>1
<1> QED
  BY <1>1, <1>2, <1>3, <1>4, <1>5, <1>6 DEF Opening, Lead

LEMMA OpeningSlash ==
  ASSUME NEW l \in Seq(Bytes), Opening(l)
  PROVE  /\ Holding(Append(l, "/")) /\ Lead(Append(l, "/")) = l
         /\ WithoutReturns(Append(l, "/")) = <<"/">>
<1>1. "/" \in Bytes /\ "/" # "r" /\ "/" # "b"
  BY DEF Bytes, Printable
<1>2. /\ Body(Append(l, "/")) = Len(l) + 1 /\ Append(l, "/")[Len(l) + 1] = "/" /\ Len(l) \in Nat
      /\ WithoutReturns(Append(l, "/")) = <<"/">> /\ Lead(Append(l, "/")) = l
  BY <1>1, OpeningText
<1>3. ~BreaksOff(l, "/")
  <2>1. ~(Len(<<"/">>) > CommandMax)
    BY UsbAssumption
  <2> QED
    BY <1>1, <1>2, <2>1 DEF BreaksOff
<1>4. Breaks(l) = {}
  <2>1. Solid(l) = {}
    BY BodyFacts DEF Opening
  <2> QED
    BY <2>1 DEF Breaks, Solid, Printable
<1>5. Breaks(Append(l, "/")) = {}
  BY <1>1, <1>3, <1>4, BreaksGrow
<1>6. Len(l) + 1 # 0
  BY <1>2
<1> QED
  BY <1>2, <1>5, <1>6 DEF Holding

LEMMA OpeningData ==
  ASSUME NEW l \in Seq(Bytes), Opening(l), NEW b \in Bytes, b \notin {"r", "/"}
  PROVE  Passing(Append(l, b)) /\ Passed(Append(l, b)) = Append(l, b)
<1>1. /\ Body(Append(l, b)) = Len(l) + 1 /\ Append(l, b)[Len(l) + 1] = b /\ Len(l) \in Nat
  BY OpeningText
<1>2. Len(l) + 1 # 0
  BY <1>1
<1> QED
  BY <1>1, <1>2 DEF Passing, Passed

(* A byte that does not break the command off.                              *)
LEMMA HoldingGrows ==
  ASSUME NEW l \in Seq(Bytes), Holding(l), NEW b \in Bytes, ~BreaksOff(l, b)
  PROVE  /\ Holding(Append(l, b)) /\ Lead(Append(l, b)) = Lead(l)
         /\ WithoutReturns(Append(l, b)) = WithoutReturns(l) \o Counted(b)
<1>1. Breaks(Append(l, b)) = {}
  BY BreaksGrow DEF Holding
<1>2. WithoutReturns(Append(l, b)) = WithoutReturns(l) \o Counted(b)
  BY TextGrows
<1> QED
  BY <1>1, <1>2, BodyKept DEF Holding

(* The byte that does: what was held is data, and so is the byte.           *)
LEMMA HoldingBreaks ==
  ASSUME NEW l \in Seq(Bytes), Holding(l), NEW b \in Bytes, BreaksOff(l, b)
  PROVE  /\ Passing(Append(l, b))
         /\ Passed(Append(l, b)) = (Lead(l) \o WithoutReturns(l)) \o <<b>>
<1>1. PICK n \in Nat : n = Len(l)
  BY ByteAt
<1>2. PICK a \in Seq(Bytes) : a = Append(l, b) /\ Len(a) = n + 1
  <2>1. Append(l, b) \in Seq(Bytes) /\ Len(Append(l, b)) = Len(l) + 1
    BY Appended
  <2> QED
    BY <1>1, <2>1
<1>3. Breaks(a) = {n + 1}
  BY <1>1, <1>2, BreaksGrow DEF Holding
<1>4. Min(Breaks(a)) = n + 1
  <2>1. {n + 1} \in SUBSET Nat /\ n + 1 \in {n + 1} /\ \A k \in {n + 1} : n + 1 <= k
    OBVIOUS
  <2>2. Min({n + 1}) = n + 1
    BY <2>1, LeastIs
  <2> QED
    BY <1>3, <2>2
<1>5. Body(a) = Body(l) /\ Lead(a) = Lead(l) /\ a[Body(a)] = "/" /\ Body(a) # 0
  BY <1>2, BodyKept DEF Holding
<1>6. Text(a, n) = WithoutReturns(l)
  <2>1. n \in 0 .. Len(l)
    BY <1>1
  <2>2. Text(Append(l, b), n) = Text(l, n)
    BY <2>1, TextKept
  <2> QED
    BY <1>1, <1>2, <2>2, TextWhole
<1>7. SubSeq(a, n + 1, n + 1) = <<b>>
  <2>1. n + 1 \in Nat /\ n + 1 >= 1 /\ n + 1 <= Len(l) + 1
    BY <1>1
  <2>2. SubSeq(Append(l, b), n + 1, Len(l) + 1) = Append(SubSeq(l, n + 1, Len(l)), b)
    BY <2>1, PartGrows
  <2>3. SubSeq(l, Len(l) + 1, Len(l)) = <<>>
    BY PartEnds
  <2>4. Append(<<>>, b) = <<b>>
    OBVIOUS
  <2> QED
    BY <1>1, <1>2, <2>2, <2>3, <2>4
<1>8. (n + 1) - 1 = n
  OBVIOUS
<1>9. Passed(a) = (Lead(l) \o WithoutReturns(l)) \o <<b>>
  BY <1>2, <1>4, <1>5, <1>6, <1>7, <1>8 DEF Passed, Given
<1>10. Passing(a)
  BY <1>3, <1>5 DEF Passing
<1> QED
  BY <1>2, <1>9, <1>10

(* Everything after that is data.                                           *)
LEMMA PassingGrows ==
  ASSUME NEW l \in Seq(Bytes), Passing(l), NEW b \in Bytes
  PROVE  Passing(Append(l, b)) /\ Passed(Append(l, b)) = Append(Passed(l), b)
<1>1. Body(Append(l, b)) = Body(l) /\ Lead(Append(l, b)) = Lead(l)
      /\ Append(l, b)[Body(l)] = l[Body(l)] /\ Body(l) # 0
  BY BodyKept DEF Passing
<1>2. CASE l[Body(l)] # "/"
  BY <1>1, <1>2 DEF Passing, Passed
<1>3. CASE l[Body(l)] = "/"
  <2>1. Breaks(l) # {}
    BY <1>3 DEF Passing
  <2>2. PICK m \in 1 .. Len(l) : m = Min(Breaks(l)) /\ m \in Breaks(l) /\ \A k \in Breaks(l) : m <= k
    BY <2>1, BreakFacts
  <2>3. PICK n \in Nat : n = Len(l) /\ m \in Nat /\ m >= 1 /\ m <= n
    BY <2>2, ByteAt
  <2>4. PICK a \in Seq(Bytes) : a = Append(l, b) /\ Len(a) = n + 1
    <3>1. Append(l, b) \in Seq(Bytes) /\ Len(Append(l, b)) = Len(l) + 1
      BY Appended
    <3> QED
      BY <2>3, <3>1
  <2>5. Min(Breaks(a)) = m /\ Breaks(a) # {}
    <3>1. Breaks(a) = Breaks(l) \cup IF BreaksOff(l, b) THEN {n + 1} ELSE {}
      BY <2>3, <2>4, BreaksGrow
    <3>2. Breaks(l) \subseteq 1 .. n
      BY <2>3 DEF Breaks
    <3>3. Breaks(a) \in SUBSET Nat
      BY <2>3, <3>1, <3>2
    <3>4. m \in Breaks(a) /\ \A k \in Breaks(a) : m <= k
      BY <2>2, <2>3, <3>1
    <3> QED
      BY <3>3, <3>4, LeastIs
  <2>6. Text(a, m - 1) = Text(l, m - 1)
    <3>1. m - 1 \in 0 .. Len(l)
      BY <2>3
    <3> QED
      BY <2>4, <3>1, TextKept
  <2>7. SubSeq(a, m, n + 1) = Append(SubSeq(l, m, n), b)
    <3>1. m <= Len(l) + 1
      BY <2>3
    <3> QED
      BY <2>3, <2>4, <3>1, PartGrows
  <2>8. PICK x \in Seq(Bytes) : x = Lead(l) \o Text(l, m - 1)
    <3>1. m - 1 \in 0 .. Len(l)
      BY <2>3
    <3>2. Lead(l) \in Seq(Bytes) /\ Text(l, m - 1) \in Seq(Bytes)
      BY <1>1, <3>1, LeadTyped, TextPart
    <3>3. Lead(l) \o Text(l, m - 1) \in Seq(Bytes)
      BY <3>2, JoinTyped
    <3> QED
      BY <3>3
  <2>9. PICK y \in Seq(Bytes) : y = SubSeq(l, m, n)
    <3>1. n <= Len(l) /\ m <= n + 1
      BY <2>3
    <3>2. SubSeq(l, m, n) \in Seq(Bytes)
      BY <2>3, <3>1, PartFacts
    <3> QED
      BY <3>2
  <2>10. x \o Append(y, b) = Append(x \o y, b)
    <3>1. <<b>> \in Seq(Bytes) /\ Append(y, b) = y \o <<b>>
      BY JoinOne
    <3>2. x \o y \in Seq(Bytes)
      BY JoinTyped
    <3>3. Append(x \o y, b) = (x \o y) \o <<b>>
      BY <3>2, JoinOne
    <3>4. (x \o y) \o <<b>> = x \o (y \o <<b>>)
      <4>1. Associates(x, y, <<b>>)
        BY <3>1, JoinAssociates
      <4> QED
        BY <4>1 DEF Associates
    <3> QED
      BY <3>1, <3>3, <3>4
  <2>11. Passed(l) = x \o y
    BY <1>3, <2>2, <2>3, <2>8, <2>9 DEF Passed, Given
  <2>12. Passed(a) = x \o Append(y, b)
    BY <1>1, <1>3, <2>4, <2>5, <2>6, <2>7, <2>8, <2>9 DEF Passed, Given
  <2>13. Passing(a)
    BY <1>1, <2>4, <2>5 DEF Passing
  <2> QED
    BY <2>4, <2>10, <2>11, <2>12, <2>13
<1> QED
  BY <1>2, <1>3

-----------------------------------------------------------------------------
(* The lines of the bytes s.                                                *)
Feeds(s, i) == {0} \cup {j \in 1 .. i : s[j] = "n"}
Outs(s) == FlattenSeq([i \in 1 .. Len(s) |-> EndedAt(s, i).out])
Commands(s) == FlattenSeq([i \in 1 .. Len(s) |-> EndedAt(s, i).commands])
Line(s) == LineTo(s, Len(s))

LEMMA LineIs ==
  ASSUME NEW s, NEW i
  PROVE  LineTo(s, i) = SubSeq(s, Max(Feeds(s, i)) + 1, i)
BY DEF LineTo, Feeds

LEMMA FeedFacts ==
  ASSUME NEW s, NEW i \in Nat
  PROVE  /\ Feeds(s, i) \in SUBSET (0 .. i) /\ Feeds(s, i) # {}
         /\ Max(Feeds(s, i)) \in 0 .. i
<1>1. Feeds(s, i) \in SUBSET (0 .. i) /\ Feeds(s, i) # {}
  BY DEF Feeds
<1>2. Max(Feeds(s, i)) \in Feeds(s, i)
  BY <1>1, GreatestThere
<1> QED
  BY <1>1, <1>2

LEMMA LineTyped ==
  ASSUME NEW s \in Seq(Bytes), NEW i \in 0 .. Len(s)
  PROVE  LineTo(s, i) \in Seq(Bytes)
<1>1. i \in Nat /\ i <= Len(s)
  BY ByteAt
<1>2. PICK m \in 0 .. i : m = Max(Feeds(s, i))
  BY <1>1, FeedFacts
<1>3. m + 1 \in Nat /\ m + 1 >= 1 /\ m + 1 <= i + 1
  BY <1>1, <1>2
<1>4. SubSeq(s, m + 1, i) \in Seq(Bytes)
  BY <1>1, <1>3, PartFacts
<1> QED
  BY <1>2, <1>4, LineIs

LEMMA FeedsKept ==
  ASSUME NEW s \in Seq(Bytes), NEW b \in Bytes, NEW i \in 0 .. Len(s)
  PROVE  Feeds(Append(s, b), i) = Feeds(s, i)
<1>1. \A j \in 1 .. i : Append(s, b)[j] = s[j]
  <2>1. \A j \in 1 .. Len(s) : Append(s, b)[j] = s[j]
    BY Appended
  <2>2. Len(s) \in Nat
    BY ByteAt
  <2>3. \A j \in 1 .. i : j \in 1 .. Len(s)
    BY <2>2
  <2> QED
    BY <2>1, <2>3
<1> QED
  BY <1>1 DEF Feeds

LEMMA LineKept ==
  ASSUME NEW s \in Seq(Bytes), NEW b \in Bytes, NEW i \in 0 .. Len(s)
  PROVE  LineTo(Append(s, b), i) = LineTo(s, i)
<1>1. i \in Nat /\ i <= Len(s)
  BY ByteAt
<1>2. PICK m \in 0 .. i : m = Max(Feeds(s, i))
  BY <1>1, FeedFacts
<1>3. m + 1 \in Nat /\ m + 1 >= 1 /\ m + 1 <= i + 1
  BY <1>1, <1>2
<1>4. SubSeq(Append(s, b), m + 1, i) = SubSeq(s, m + 1, i)
  BY <1>1, <1>3, PartKept
<1>5. LineTo(Append(s, b), i) = SubSeq(Append(s, b), m + 1, i)
  BY <1>2, FeedsKept, LineIs
<1>6. LineTo(s, i) = SubSeq(s, m + 1, i)
  BY <1>2, LineIs
<1> QED
  BY <1>4, <1>5, <1>6

LEMMA EndedKept ==
  ASSUME NEW s \in Seq(Bytes), NEW b \in Bytes, NEW i \in 1 .. Len(s)
  PROVE  EndedAt(Append(s, b), i) = EndedAt(s, i)
<1>1. i - 1 \in 0 .. Len(s)
  BY ByteAt
<1>2. LineTo(Append(s, b), i - 1) = LineTo(s, i - 1)
  BY <1>1, LineKept
<1>3. Append(s, b)[i] = s[i]
  BY Appended
<1> QED
  BY <1>2, <1>3 DEF EndedAt

LEMMA LineGrows ==
  ASSUME NEW s \in Seq(Bytes), NEW b \in Bytes, b # "n"
  PROVE  Line(Append(s, b)) = Append(Line(s), b)
<1>1. PICK n \in Nat : n = Len(s)
  BY ByteAt
<1>2. PICK a \in Seq(Bytes) : a = Append(s, b) /\ Len(a) = n + 1 /\ a[n + 1] = b
  <2>1. Append(s, b) \in Seq(Bytes) /\ Len(Append(s, b)) = Len(s) + 1 /\ Append(s, b)[Len(s) + 1] = b
    BY Appended
  <2> QED
    BY <1>1, <2>1
<1>3. Feeds(a, n + 1) = Feeds(s, n)
  <2>1. Feeds(a, n) = Feeds(s, n)
    <3>1. n \in 0 .. Len(s)
      BY <1>1
    <3> QED
      BY <1>2, <3>1, FeedsKept
  <2>2. \A j : j \in 1 .. n + 1 <=> j \in 1 .. n \/ j = n + 1
    OBVIOUS
  <2>3. Feeds(a, n + 1) = Feeds(a, n)
    BY <1>2, <2>2 DEF Feeds
  <2> QED
    BY <2>1, <2>3
<1>4. PICK m \in 0 .. n : m = Max(Feeds(s, n))
  BY FeedFacts
<1>5. m + 1 \in Nat /\ m + 1 >= 1 /\ m + 1 <= Len(s) + 1
  BY <1>1, <1>4
<1>6. SubSeq(Append(s, b), m + 1, Len(s) + 1) = Append(SubSeq(s, m + 1, Len(s)), b)
  BY <1>5, PartGrows
<1>7. Line(a) = SubSeq(a, m + 1, n + 1)
  BY <1>2, <1>3, <1>4, LineIs DEF Line
<1>8. Line(s) = SubSeq(s, m + 1, n)
  BY <1>1, <1>4, LineIs DEF Line
<1> QED
  BY <1>1, <1>2, <1>6, <1>7, <1>8

LEMMA LineEnds ==
  ASSUME NEW s \in Seq(Bytes)
  PROVE  Line(Append(s, "n")) = <<>>
<1>1. PICK n \in Nat : n = Len(s)
  BY ByteAt
<1>2. "n" \in Bytes
  BY DEF Bytes
<1>3. PICK a \in Seq(Bytes) : a = Append(s, "n") /\ Len(a) = n + 1 /\ a[n + 1] = "n"
  <2>1. /\ Append(s, "n") \in Seq(Bytes) /\ Len(Append(s, "n")) = Len(s) + 1
        /\ Append(s, "n")[Len(s) + 1] = "n"
    BY <1>2, Appended
  <2> QED
    BY <1>1, <2>1
<1>4. PICK m \in Nat : m = n + 1
  OBVIOUS
<1>5. Max(Feeds(a, m)) = m
  <2>1. Feeds(a, m) \in SUBSET (0 .. m)
    BY FeedFacts
  <2>2. m \in Feeds(a, m)
    <3>1. m \in 1 .. m
      BY <1>4
    <3> QED
      BY <1>3, <1>4, <3>1 DEF Feeds
  <2>3. \A k \in Feeds(a, m) : m >= k
    BY <2>1
  <2> QED
    BY <2>1, <2>2, <2>3, GreatestIs
<1>6. SubSeq(a, m + 1, m) = <<>>
  BY <1>3, <1>4, PartEnds
<1>7. Line(a) = SubSeq(a, m + 1, m)
  BY <1>3, <1>4, <1>5, LineIs DEF Line
<1> QED
  BY <1>3, <1>6, <1>7

LEMMA EndedTyped ==
  ASSUME NEW s \in Seq(Bytes), NEW i \in 1 .. Len(s)
  PROVE  EndedAt(s, i).out \in Seq(Bytes) /\ EndedAt(s, i).commands \in Seq(Seq(Bytes))
<1>1. CASE s[i] = "n"
  <2>1. i - 1 \in 0 .. Len(s)
    BY ByteAt
  <2>2. LineTo(s, i - 1) \in Seq(Bytes)
    BY <2>1, LineTyped
  <2>3. EndedAt(s, i) = LineMeaning(LineTo(s, i - 1), TRUE)
    BY <1>1 DEF EndedAt
  <2> QED
    BY <2>2, <2>3, MeaningTyped
<1>2. CASE s[i] # "n"
  <2>1. EndedAt(s, i) = Nothing
    BY <1>2 DEF EndedAt
  <2>2. <<>> \in Seq(Bytes) /\ <<>> \in Seq(Seq(Bytes))
    OBVIOUS
  <2> QED
    BY <2>1, <2>2 DEF Nothing
<1> QED
  BY <1>1, <1>2

(* What has come out of the lines that have ended.                          *)
LEMMA GoneTyped ==
  ASSUME NEW s \in Seq(Bytes)
  PROVE  Outs(s) \in Seq(Bytes) /\ Commands(s) \in Seq(Seq(Bytes))
<1>1. \A i \in 1 .. Len(s) : /\ EndedAt(s, i).out \in Seq(Bytes)
                             /\ EndedAt(s, i).commands \in Seq(Seq(Bytes))
  BY EndedTyped
<1>2. [i \in 1 .. Len(s) |-> EndedAt(s, i).out] \in Seq(Seq(Bytes))
  BY <1>1, ByteAt
<1>3. [i \in 1 .. Len(s) |-> EndedAt(s, i).commands] \in Seq(Seq(Seq(Bytes)))
  BY <1>1, ByteAt
<1> QED
  BY <1>2, <1>3, FlattenTyped DEF Outs, Commands

LEMMA GoneGrows ==
  ASSUME NEW s \in Seq(Bytes), NEW b \in Bytes
  PROVE  /\ Outs(Append(s, b)) = Outs(s) \o EndedAt(Append(s, b), Len(s) + 1).out
         /\ Commands(Append(s, b)) = Commands(s) \o EndedAt(Append(s, b), Len(s) + 1).commands
<1>1. PICK n \in Nat : n = Len(s)
  BY ByteAt
<1>2. PICK a \in Seq(Bytes) : a = Append(s, b) /\ Len(a) = n + 1
  <2>1. Append(s, b) \in Seq(Bytes) /\ Len(Append(s, b)) = Len(s) + 1
    BY Appended
  <2> QED
    BY <1>1, <2>1
<1>3. \A i \in 1 .. n + 1 : /\ EndedAt(a, i).out \in Seq(Bytes)
                            /\ EndedAt(a, i).commands \in Seq(Seq(Bytes))
  BY <1>2, EndedTyped
<1>4. \A i \in 1 .. n : EndedAt(a, i) = EndedAt(s, i) /\ i \in 1 .. n + 1
  <2>1. \A i \in 1 .. Len(s) : EndedAt(Append(s, b), i) = EndedAt(s, i)
    BY EndedKept
  <2> QED
    BY <1>1, <1>2, <2>1
<1>5. n + 1 \in 1 .. n + 1
  OBVIOUS
<1>6. PICK f : f = [i \in 1 .. n + 1 |-> EndedAt(a, i).out]
  OBVIOUS
<1>7. FlattenSeq(f) = FlattenSeq([i \in 1 .. n |-> f[i]]) \o f[n + 1]
  <2>1. f \in [1 .. n + 1 -> Seq(Bytes)]
    BY <1>3, <1>6
  <2> QED
    BY <2>1, FlattenLast
<1>8. [i \in 1 .. n |-> f[i]] = [i \in 1 .. Len(s) |-> EndedAt(s, i).out]
  BY <1>1, <1>4, <1>6
<1>9. f[n + 1] = EndedAt(a, n + 1).out
  BY <1>5, <1>6
<1>10. Outs(a) = FlattenSeq(f)
  BY <1>2, <1>6 DEF Outs
<1>11. Outs(a) = Outs(s) \o EndedAt(a, n + 1).out
  BY <1>7, <1>8, <1>9, <1>10 DEF Outs
<1>12. PICK g : g = [i \in 1 .. n + 1 |-> EndedAt(a, i).commands]
  OBVIOUS
<1>13. FlattenSeq(g) = FlattenSeq([i \in 1 .. n |-> g[i]]) \o g[n + 1]
  <2>1. g \in [1 .. n + 1 -> Seq(Seq(Bytes))]
    BY <1>3, <1>12
  <2> QED
    BY <2>1, FlattenLast
<1>14. [i \in 1 .. n |-> g[i]] = [i \in 1 .. Len(s) |-> EndedAt(s, i).commands]
  BY <1>1, <1>4, <1>12
<1>15. g[n + 1] = EndedAt(a, n + 1).commands
  BY <1>5, <1>12
<1>16. Commands(a) = FlattenSeq(g)
  BY <1>2, <1>12 DEF Commands
<1>17. Commands(a) = Commands(s) \o EndedAt(a, n + 1).commands
  BY <1>13, <1>14, <1>15, <1>16 DEF Commands
<1> QED
  BY <1>1, <1>2, <1>11, <1>17

LEMMA NothingJoins ==
  ASSUME NEW S, NEW s \in Seq(S)
  PROVE  s \o <<>> = s /\ <<>> \o s = s
OBVIOUS

LEMMA LineGoesOn ==
  ASSUME NEW s \in Seq(Bytes), NEW b \in Bytes, b # "n"
  PROVE  /\ Outs(Append(s, b)) = Outs(s) /\ Commands(Append(s, b)) = Commands(s)
         /\ Line(Append(s, b)) = Append(Line(s), b)
<1>1. Append(s, b)[Len(s) + 1] = b
  BY Appended
<1>2. EndedAt(Append(s, b), Len(s) + 1) = Nothing
  BY <1>1 DEF EndedAt
<1>3. Outs(Append(s, b)) = Outs(s) \o <<>> /\ Commands(Append(s, b)) = Commands(s) \o <<>>
  <2>1. /\ Outs(Append(s, b)) = Outs(s) \o Nothing.out
        /\ Commands(Append(s, b)) = Commands(s) \o Nothing.commands
    BY <1>2, GoneGrows
  <2>2. Nothing.out = <<>> /\ Nothing.commands = <<>>
    BY DEF Nothing
  <2> QED
    BY <2>1, <2>2
<1>4. Outs(s) \in Seq(Bytes) /\ Commands(s) \in Seq(Seq(Bytes))
  BY GoneTyped
<1>5. Outs(s) \o <<>> = Outs(s) /\ Commands(s) \o <<>> = Commands(s)
  BY <1>4, NothingJoins
<1> QED
  BY <1>3, <1>5, LineGrows

(* What a line means so far, and what if it ends.                           *)
SoFar(l) == LineMeaning(l, FALSE)
AtEnd(l) == LineMeaning(l, TRUE)

LEMMA SoFarTyped ==
  ASSUME NEW l \in Seq(Bytes)
  PROVE  SoFar(l).out \in Seq(Bytes)
BY MeaningTyped DEF SoFar

LEMMA LineDone ==
  ASSUME NEW s \in Seq(Bytes)
  PROVE  /\ Outs(Append(s, "n")) = Outs(s) \o AtEnd(Line(s)).out
         /\ Commands(Append(s, "n")) = Commands(s) \o AtEnd(Line(s)).commands
         /\ Line(Append(s, "n")) = <<>>
<1>1. "n" \in Bytes
  BY DEF Bytes
<1>2. Append(s, "n")[Len(s) + 1] = "n" /\ Len(s) \in Nat
  BY <1>1, Appended
<1>3. (Len(s) + 1) - 1 = Len(s) /\ Len(s) \in 0 .. Len(s)
  BY <1>2
<1>4. LineTo(Append(s, "n"), Len(s)) = Line(s)
  BY <1>1, <1>3, LineKept DEF Line
<1>5. EndedAt(Append(s, "n"), Len(s) + 1) = AtEnd(Line(s))
  BY <1>2, <1>3, <1>4 DEF EndedAt, AtEnd
<1> QED
  BY <1>1, <1>5, GoneGrows, LineEnds

LEMMA NoBytes ==
  /\ Outs(<<>>) = <<>> /\ Commands(<<>>) = <<>> /\ Line(<<>>) = <<>>
  /\ Opening(<<>>)
<1>1. Len(<<>>) = 0 /\ <<>> \in Seq(Bytes)
  OBVIOUS
<1>2. Outs(<<>>) = <<>> /\ Commands(<<>>) = <<>>
  BY <1>1, FlattenNothing DEF Outs, Commands
<1>3. Line(<<>>) = <<>>
  <2>1. Feeds(<<>>, 0) = {0}
    BY DEF Feeds
  <2>2. Max({0}) = 0
    <3>1. {0} \in SUBSET (0 .. 0) /\ 0 \in {0} /\ \A k \in {0} : 0 >= k
      OBVIOUS
    <3> QED
      BY <3>1, GreatestIs
  <2>3. SubSeq(<<>>, 1, 0) = <<>>
    BY <1>1, PartEnds
  <2>4. LineTo(<<>>, 0) = SubSeq(<<>>, 0 + 1, 0)
    BY <2>1, <2>2, LineIs
  <2>5. LineTo(<<>>, 0) = <<>>
    BY <2>3, <2>4
  <2> QED
    BY <1>1, <2>5 DEF Line
<1>4. Solid(<<>>) = {}
  BY <1>1 DEF Solid
<1> QED
  BY <1>2, <1>3, <1>4, BodyIs, TextNothing DEF Opening

-----------------------------------------------------------------------------
(* What a line has put out, as far as it has come and when it ends.         *)
LEMMA FieldsAre ==
  ASSUME NEW r, NEW o, NEW c, NEW h, r = [out |-> o, commands |-> c, held |-> h]
  PROVE  r.out = o /\ r.commands = c /\ r.held = h
OBVIOUS

LEMMA DataIs ==
  ASSUME NEW d \in Seq(Bytes)
  PROVE  /\ Data(d, FALSE) = [out |-> d, commands |-> <<>>, held |-> <<>>]
         /\ Data(d, TRUE) = [out |-> d \o <<"n">>, commands |-> <<>>, held |-> <<>>]
<1>1. d \o <<>> = d
  BY NothingJoins
<1>2. Data(d, FALSE) = [Nothing EXCEPT !.out = d] /\ Data(d, TRUE) = [Nothing EXCEPT !.out = d \o <<"n">>]
  BY <1>1 DEF Data
<1>3. ASSUME NEW x
      PROVE  [Nothing EXCEPT !.out = x] = [out |-> x, commands |-> <<>>, held |-> <<>>]
  BY DEF Nothing
<1> QED
  BY <1>2, <1>3

LEMMA OpeningOut ==
  ASSUME NEW l \in Seq(Bytes), Opening(l)
  PROVE  /\ SoFar(l) = [out |-> l, commands |-> <<>>, held |-> <<>>]
         /\ AtEnd(l) = [out |-> l \o <<"n">>, commands |-> <<>>, held |-> <<>>]
BY OpeningMeans, DataIs DEF Opening, SoFar, AtEnd

LEMMA PassingOut ==
  ASSUME NEW l \in Seq(Bytes), Passing(l)
  PROVE  /\ SoFar(l) = [out |-> Passed(l), commands |-> <<>>, held |-> <<>>]
         /\ AtEnd(l)
              = [out |-> Passed(l) \o <<"n">>, commands |-> <<>>, held |-> <<>>]
<1>1. Passed(l) \in Seq(Bytes)
  BY PassedTyped
<1> QED
  BY <1>1, PassingMeans, DataIs DEF SoFar, AtEnd

LEMMA HoldingOut ==
  ASSUME NEW l \in Seq(Bytes), Holding(l)
  PROVE  AtEnd(l) = Command(l) /\ SoFar(l) = HeldBack(l)
BY HoldingMeans DEF SoFar, AtEnd

(* What was put out of the bytes s, and what the recogniser knows.          *)
Told(s, gone, replies) ==
  gone = Outs(s) \o SoFar(Line(s)).out /\ replies = Commands(s)

Known(l, start, held, text) ==
  IF held THEN Holding(l) /\ text = WithoutReturns(l) /\ text # <<>>
  ELSE text = <<>> /\ IF start THEN Opening(l) ELSE Passing(l)

(* A byte that puts out x within a line.                                    *)
LEMMA ToldMore ==
  ASSUME NEW s \in Seq(Bytes), NEW b \in Bytes, b # "n", NEW gone \in Seq(Bytes), NEW replies,
         Told(s, gone, replies), NEW x \in Seq(Bytes),
         SoFar(Append(Line(s), b)).out = SoFar(Line(s)).out \o x
  PROVE  Told(Append(s, b), gone \o x, replies)
<1>1. PICK o \in Seq(Bytes) : o = Outs(s)
  BY GoneTyped
<1>2. Line(s) \in Seq(Bytes)
  <2>1. Len(s) \in 0 .. Len(s)
    BY ByteAt
  <2> QED
    BY <2>1, LineTyped DEF Line
<1>3. PICK y \in Seq(Bytes) : y = SoFar(Line(s)).out
  BY <1>2, SoFarTyped
<1>4. gone \o x = o \o (y \o x)
  <2>1. gone = o \o y
    BY <1>1, <1>3 DEF Told
  <2>2. Associates(o, y, x)
    BY JoinAssociates
  <2> QED
    BY <2>1, <2>2 DEF Associates
<1>5. Outs(Append(s, b)) = o /\ Commands(Append(s, b)) = Commands(s)
      /\ Line(Append(s, b)) = Append(Line(s), b)
  BY <1>1, LineGoesOn
<1> QED
  BY <1>3, <1>4, <1>5 DEF Told

(* The line feed puts out x and answers the commands c.                     *)
LEMMA ToldEnd ==
  ASSUME NEW s \in Seq(Bytes), NEW gone \in Seq(Bytes), NEW replies, Told(s, gone, replies),
         NEW x \in Seq(Bytes), NEW c,
         AtEnd(Line(s)).out = SoFar(Line(s)).out \o x,
         AtEnd(Line(s)).commands = c
  PROVE  Told(Append(s, "n"), gone \o x, replies \o c)
<1>1. PICK o \in Seq(Bytes) : o = Outs(s)
  BY GoneTyped
<1>2. Line(s) \in Seq(Bytes)
  <2>1. Len(s) \in 0 .. Len(s)
    BY ByteAt
  <2> QED
    BY <2>1, LineTyped DEF Line
<1>3. PICK y \in Seq(Bytes) : y = SoFar(Line(s)).out
  BY <1>2, SoFarTyped
<1>4. PICK z \in Seq(Bytes) : z = gone \o x /\ z = o \o (y \o x)
  <2>1. gone = o \o y
    BY <1>1, <1>3 DEF Told
  <2>2. gone \o x = o \o (y \o x)
    <3>1. Associates(o, y, x)
      BY JoinAssociates
    <3> QED
      BY <2>1, <3>1 DEF Associates
  <2>3. gone \o x \in Seq(Bytes)
    BY JoinTyped
  <2> QED
    BY <2>2, <2>3
<1>5. Outs(Append(s, "n")) = z /\ Commands(Append(s, "n")) = replies \o c
  BY <1>1, <1>3, <1>4, LineDone DEF Told
<1>6. SoFar(Line(Append(s, "n"))).out = <<>>
  <2>1. PICK e \in Seq(Bytes) : e = <<>>
    <3>1. <<>> \in Seq(Bytes)
      OBVIOUS
    <3> QED
      BY <3>1
  <2>2. Opening(e)
    BY <2>1, NoBytes
  <2>3. SoFar(e) = [out |-> e, commands |-> <<>>, held |-> <<>>]
    BY <2>2, OpeningOut
  <2>4. Line(Append(s, "n")) = e
    BY <2>1, LineDone
  <2>5. SoFar(e).out = e
    BY <2>3, FieldsAre
  <2> QED
    BY <2>1, <2>4, <2>5
<1>7. z \o <<>> = z
  BY NothingJoins
<1> QED
  BY <1>4, <1>5, <1>6, <1>7 DEF Told

-----------------------------------------------------------------------------
(* The state of a session: every byte of seen is accounted for.             *)
Session(s, gone, replies, start, held, text) ==
  Told(s, gone, replies) /\ Known(Line(s), start, held, text)

LEMMA SessionLine ==
  ASSUME NEW s \in Seq(Bytes)
  PROVE  Line(s) \in Seq(Bytes)
<1>1. Len(s) \in 0 .. Len(s)
  BY ByteAt
<1> QED
  BY <1>1, LineTyped DEF Line

LEMMA SessionStarts == Session(<<>>, <<>>, <<>>, TRUE, FALSE, <<>>)
<1>1. PICK e \in Seq(Bytes) : e = <<>>
  <2>1. <<>> \in Seq(Bytes)
    OBVIOUS
  <2> QED
    BY <2>1
<1>2. Opening(e)
  BY <1>1, NoBytes
<1>3. SoFar(e) = [out |-> e, commands |-> <<>>, held |-> <<>>]
  BY <1>2, OpeningOut
<1>4. SoFar(e).out = e
  BY <1>3, FieldsAre
<1>5. Line(e) = e /\ Outs(e) = e /\ Commands(e) = e
  BY <1>1, NoBytes
<1>6. e \o e = e
  BY <1>1
<1>7. Told(e, e, e)
  BY <1>4, <1>5, <1>6 DEF Told
<1>8. Known(Line(e), TRUE, FALSE, e)
  BY <1>1, <1>2, <1>5 DEF Known
<1> QED
  BY <1>1, <1>7, <1>8 DEF Session

(* The byte b puts out x, and the recogniser then knows the new line.       *)
LEMMA SessionMore ==
  ASSUME NEW s \in Seq(Bytes), NEW b \in Bytes, b # "n", NEW gone \in Seq(Bytes), NEW replies,
         Told(s, gone, replies), NEW x \in Seq(Bytes), NEW start, NEW held, NEW text,
         SoFar(Append(Line(s), b)).out = SoFar(Line(s)).out \o x,
         Known(Append(Line(s), b), start, held, text)
  PROVE  Session(Append(s, b), gone \o x, replies, start, held, text)
<1>1. Told(Append(s, b), gone \o x, replies)
  BY ToldMore
<1>2. Line(Append(s, b)) = Append(Line(s), b)
  BY LineGoesOn
<1> QED
  BY <1>1, <1>2 DEF Session

LEMMA SessionEnd ==
  ASSUME NEW s \in Seq(Bytes), NEW gone \in Seq(Bytes), NEW replies, Told(s, gone, replies),
         NEW x \in Seq(Bytes), NEW c,
         AtEnd(Line(s)).out = SoFar(Line(s)).out \o x,
         AtEnd(Line(s)).commands = c
  PROVE  Session(Append(s, "n"), gone \o x, replies \o c, TRUE, FALSE, <<>>)
<1>1. Told(Append(s, "n"), gone \o x, replies \o c)
  BY ToldEnd
<1>2. Line(Append(s, "n")) = <<>>
  BY LineDone
<1>3. Known(<<>>, TRUE, FALSE, <<>>)
  BY NoBytes DEF Known
<1>4. Known(Line(Append(s, "n")), TRUE, FALSE, <<>>)
  BY <1>2, <1>3
<1> QED
  BY <1>1, <1>4 DEF Session

LEMMA EndsCommand ==
  ASSUME NEW s \in Seq(Bytes), NEW gone \in Seq(Bytes), NEW replies, NEW start, NEW text,
         Session(s, gone, replies, start, TRUE, text)
  PROVE  Session(Append(s, "n"), gone \o <<>>, replies \o <<text>>, TRUE, FALSE, <<>>)
<1>1. PICK l \in Seq(Bytes) : l = Line(s)
  BY SessionLine
<1>2. Holding(l) /\ text = WithoutReturns(l) /\ Told(s, gone, replies)
  BY <1>1 DEF Session, Known
<1>3. PICK y \in Seq(Bytes) : y = Lead(l)
  BY <1>2, LeadTyped DEF Holding
<1>4. y \o <<>> = y
  BY NothingJoins
<1>5. AtEnd(l) = Command(l) /\ SoFar(l) = HeldBack(l)
  BY <1>2, HoldingOut
<1>6. AtEnd(l).out = y /\ SoFar(l).out = y
      /\ AtEnd(l).commands = <<text>>
  BY <1>2, <1>3, <1>5, FieldsAre DEF Command, HeldBack
<1>7. AtEnd(Line(s)).out = SoFar(Line(s)).out \o <<>>
      /\ AtEnd(Line(s)).commands = <<text>>
  BY <1>1, <1>4, <1>6
<1>8. <<>> \in Seq(Bytes)
  OBVIOUS
<1> QED
  BY <1>2, <1>7, <1>8, SessionEnd

(* A byte that the command may have, or that does not count.                *)
LEMMA GrowsCommand ==
  ASSUME NEW s \in Seq(Bytes), NEW gone \in Seq(Bytes), NEW replies, NEW start, NEW text,
         Session(s, gone, replies, start, TRUE, text),
         NEW b \in Bytes, b # "n", ~BreaksOff(Line(s), b)
  PROVE  Session(Append(s, b), gone \o <<>>, replies, start, TRUE, text \o Counted(b))
<1>1. PICK l \in Seq(Bytes) : l = Line(s)
  BY SessionLine
<1>2. Holding(l) /\ text = WithoutReturns(l) /\ Told(s, gone, replies)
  BY <1>1 DEF Session, Known
<1>3. PICK y \in Seq(Bytes) : y = Lead(l)
  BY <1>2, LeadTyped DEF Holding
<1>4. PICK m \in Seq(Bytes) : m = Append(l, b)
  <2>1. Append(l, b) \in Seq(Bytes)
    BY Appended
  <2> QED
    BY <2>1
<1>5. Holding(m) /\ Lead(m) = y /\ WithoutReturns(m) = text \o Counted(b)
  BY <1>1, <1>2, <1>3, <1>4, HoldingGrows
<1>6. SoFar(l) = HeldBack(l) /\ SoFar(m) = HeldBack(m)
  BY <1>2, <1>5, HoldingOut
<1>7. SoFar(l).out = y /\ SoFar(m).out = y
  BY <1>3, <1>5, <1>6, FieldsAre DEF HeldBack
<1>8. y \o <<>> = y
  BY NothingJoins
<1>9. SoFar(Append(Line(s), b)).out = SoFar(Line(s)).out \o <<>>
  BY <1>1, <1>4, <1>7, <1>8
<1>10. text \o Counted(b) # <<>>
  <2>1. text \in Seq(Bytes) /\ text # <<>>
    BY <1>1, <1>2, TextTyped DEF Session, Known
  <2>2. Counted(b) \in Seq(Bytes)
    BY CountedTyped
  <2> QED
    BY <2>1, <2>2, SMTT(30)
<1>11. Known(Append(Line(s), b), start, TRUE, text \o Counted(b))
  BY <1>1, <1>4, <1>5, <1>10 DEF Known
<1>12. <<>> \in Seq(Bytes)
  OBVIOUS
<1> QED
  BY <1>2, <1>9, <1>11, <1>12, SessionMore

(* A byte with which the line turns out to be data.                         *)
LEMMA BreaksCommand ==
  ASSUME NEW s \in Seq(Bytes), NEW gone \in Seq(Bytes), NEW replies, NEW start,
         NEW text \in Seq(Bytes), Session(s, gone, replies, start, TRUE, text),
         NEW b \in Bytes, b # "n", BreaksOff(Line(s), b)
  PROVE  Session(Append(s, b), gone \o Append(text, b), replies, FALSE, FALSE, <<>>)
<1>1. PICK l \in Seq(Bytes) : l = Line(s)
  BY SessionLine
<1>2. Holding(l) /\ text = WithoutReturns(l) /\ Told(s, gone, replies)
  BY <1>1 DEF Session, Known
<1>3. PICK y \in Seq(Bytes) : y = Lead(l)
  BY <1>2, LeadTyped DEF Holding
<1>4. PICK m \in Seq(Bytes) : m = Append(l, b)
  <2>1. Append(l, b) \in Seq(Bytes)
    BY Appended
  <2> QED
    BY <2>1
<1>5. Passing(m) /\ Passed(m) = (y \o text) \o <<b>>
  BY <1>1, <1>2, <1>3, <1>4, HoldingBreaks
<1>6. PICK x \in Seq(Bytes) : x = Append(text, b) /\ (y \o text) \o <<b>> = y \o x
  <2>1. <<b>> \in Seq(Bytes) /\ Append(text, b) = text \o <<b>>
    BY JoinOne
  <2>2. (y \o text) \o <<b>> = y \o (text \o <<b>>)
    <3>1. Associates(y, text, <<b>>)
      BY <2>1, JoinAssociates
    <3> QED
      BY <3>1 DEF Associates
  <2>3. Append(text, b) \in Seq(Bytes)
    BY Appended
  <2> QED
    BY <2>1, <2>2, <2>3
<1>7. SoFar(l) = HeldBack(l)
      /\ SoFar(m) = [out |-> Passed(m), commands |-> <<>>, held |-> <<>>]
  BY <1>2, <1>5, HoldingOut, PassingOut
<1>8. SoFar(l).out = y /\ SoFar(m).out = y \o x
  <2>1. SoFar(l).out = y
    BY <1>3, <1>7, FieldsAre DEF HeldBack
  <2>2. SoFar(m).out = Passed(m)
    BY <1>7, FieldsAre
  <2> QED
    BY <1>5, <1>6, <2>1, <2>2
<1>9. SoFar(Append(Line(s), b)).out = SoFar(Line(s)).out \o x
  BY <1>1, <1>4, <1>8
<1>10. Known(Append(Line(s), b), FALSE, FALSE, <<>>)
  BY <1>1, <1>4, <1>5 DEF Known
<1>11. Session(Append(s, b), gone \o x, replies, FALSE, FALSE, <<>>)
  BY <1>2, <1>9, <1>10, SessionMore
<1> QED
  BY <1>6, <1>11

LEMMA BeginsCommand ==
  ASSUME NEW s \in Seq(Bytes), NEW gone \in Seq(Bytes), NEW replies, NEW text,
         Session(s, gone, replies, TRUE, FALSE, text)
  PROVE  Session(Append(s, "/"), gone \o <<>>, replies, TRUE, TRUE, <<"/">>)
<1>1. PICK l \in Seq(Bytes) : l = Line(s)
  BY SessionLine
<1>2. Opening(l) /\ Told(s, gone, replies)
  BY <1>1 DEF Session, Known
<1>3. "/" \in Bytes /\ "/" # "n"
  BY DEF Bytes, Printable
<1>4. PICK m \in Seq(Bytes) : m = Append(l, "/")
  <2>1. Append(l, "/") \in Seq(Bytes)
    BY <1>3, Appended
  <2> QED
    BY <2>1
<1>5. Holding(m) /\ Lead(m) = l /\ WithoutReturns(m) = <<"/">>
  BY <1>2, <1>4, OpeningSlash
<1>6. SoFar(m) = HeldBack(m)
      /\ SoFar(l) = [out |-> l, commands |-> <<>>, held |-> <<>>]
  BY <1>2, <1>5, HoldingOut, OpeningOut
<1>7. SoFar(m).out = l /\ SoFar(l).out = l
  BY <1>5, <1>6, FieldsAre DEF HeldBack
<1>8. l \o <<>> = l
  BY NothingJoins
<1>9. SoFar(Append(Line(s), "/")).out = SoFar(Line(s)).out \o <<>>
  BY <1>1, <1>4, <1>7, <1>8
<1>10. Known(Append(Line(s), "/"), TRUE, TRUE, <<"/">>)
  <2>1. <<"/">> # <<>>
    OBVIOUS
  <2> QED
    BY <1>1, <1>4, <1>5, <2>1 DEF Known
<1>11. <<>> \in Seq(Bytes)
  OBVIOUS
<1> QED
  BY <1>2, <1>3, <1>9, <1>10, <1>11, SessionMore

(* A byte that is data: before the line's text, or of a line that is data.  *)
LEMMA PassesByte ==
  ASSUME NEW s \in Seq(Bytes), NEW gone \in Seq(Bytes), NEW replies, NEW text,
         NEW start \in BOOLEAN, Session(s, gone, replies, start, FALSE, text),
         NEW b \in Bytes, ~(start /\ b = "/")
  PROVE  Session(Append(s, b), gone \o <<b>>, replies,
                 b = "n" \/ (b = "r" /\ start), FALSE, <<>>)
<1>1. PICK l \in Seq(Bytes) : l = Line(s)
  BY SessionLine
<1>2. Told(s, gone, replies) /\ IF start THEN Opening(l) ELSE Passing(l)
  BY <1>1 DEF Session, Known
<1>3. PICK y \in Seq(Bytes) : /\ SoFar(l).out = y /\ AtEnd(l).out = y \o <<"n">>
                              /\ AtEnd(l).commands = <<>>
                              /\ y = IF start THEN l ELSE Passed(l)
  <2>1. CASE start
    <3>1. /\ SoFar(l) = [out |-> l, commands |-> <<>>, held |-> <<>>]
          /\ AtEnd(l) = [out |-> l \o <<"n">>, commands |-> <<>>, held |-> <<>>]
      BY <1>2, <2>1, OpeningOut
    <3>2. SoFar(l).out = l /\ AtEnd(l).out = l \o <<"n">>
          /\ AtEnd(l).commands = <<>>
      BY <3>1, FieldsAre
    <3> QED
      BY <2>1, <3>2
  <2>2. CASE ~start
    <3>1. PICK d \in Seq(Bytes) : d = Passed(l)
      BY <1>2, <2>2, PassedTyped
    <3>2. /\ SoFar(l) = [out |-> d, commands |-> <<>>, held |-> <<>>]
          /\ AtEnd(l) = [out |-> d \o <<"n">>, commands |-> <<>>, held |-> <<>>]
      BY <1>2, <2>2, <3>1, PassingOut
    <3>3. SoFar(l).out = d /\ AtEnd(l).out = d \o <<"n">>
          /\ AtEnd(l).commands = <<>>
      BY <3>2, FieldsAre
    <3> QED
      BY <2>2, <3>1, <3>3
  <2> QED
    BY <2>1, <2>2
<1>4. <<b>> \in Seq(Bytes)
  BY JoinOne
<1>5. CASE b = "n"
  <2>1. AtEnd(Line(s)).out = SoFar(Line(s)).out \o <<b>>
        /\ AtEnd(Line(s)).commands = <<>>
    BY <1>1, <1>3, <1>5
  <2>2. Session(Append(s, "n"), gone \o <<b>>, replies \o <<>>, TRUE, FALSE, <<>>)
    BY <1>2, <1>4, <2>1, SessionEnd
  <2>3. replies \o <<>> = replies
    <3>1. replies \in Seq(Seq(Bytes))
      BY <1>2, GoneTyped DEF Told
    <3> QED
      BY <3>1, NothingJoins
  <2>4. (b = "n" \/ (b = "r" /\ start)) = TRUE
    BY <1>5
  <2> QED
    BY <1>5, <2>2, <2>3, <2>4
<1>6. CASE b # "n"
  <2>1. PICK m \in Seq(Bytes) : m = Append(l, b)
    <3>1. Append(l, b) \in Seq(Bytes)
      BY Appended
    <3> QED
      BY <3>1
  <2>2. y \o <<b>> = Append(y, b)
    BY JoinOne
  <2>3. CASE start /\ b = "r"
    <3>1. Opening(m)
      BY <1>2, <2>1, <2>3, OpeningReturns
    <3>2. SoFar(m) = [out |-> m, commands |-> <<>>, held |-> <<>>]
      BY <3>1, OpeningOut
    <3>3. SoFar(m).out = m
      BY <3>2, FieldsAre
    <3>4. SoFar(Append(Line(s), b)).out = SoFar(Line(s)).out \o <<b>>
      BY <1>1, <1>3, <2>1, <2>2, <2>3, <3>3
    <3>5. Known(Append(Line(s), b), TRUE, FALSE, <<>>)
      BY <1>1, <2>1, <3>1 DEF Known
    <3>6. Session(Append(s, b), gone \o <<b>>, replies, TRUE, FALSE, <<>>)
      BY <1>2, <1>4, <1>6, <3>4, <3>5, SessionMore
    <3>7. (b = "n" \/ (b = "r" /\ start)) = TRUE
      BY <2>3
    <3> QED
      BY <3>6, <3>7
  <2>4. CASE ~(start /\ b = "r")
    <3>1. Passing(m) /\ Passed(m) = Append(y, b)
      <4>1. CASE start
        <5>1. b \notin {"r", "/"}
          BY <2>4, <4>1
        <5> QED
          BY <1>2, <1>3, <2>1, <4>1, <5>1, OpeningData
      <4>2. CASE ~start
        BY <1>2, <1>3, <2>1, <4>2, PassingGrows
      <4> QED
        BY <4>1, <4>2
    <3>2. SoFar(m) = [out |-> Passed(m), commands |-> <<>>, held |-> <<>>]
      BY <3>1, PassingOut
    <3>3. SoFar(m).out = Append(y, b)
      BY <3>1, <3>2, FieldsAre
    <3>4. SoFar(Append(Line(s), b)).out = SoFar(Line(s)).out \o <<b>>
      BY <1>1, <1>3, <2>1, <2>2, <3>3
    <3>5. Known(Append(Line(s), b), FALSE, FALSE, <<>>)
      BY <1>1, <2>1, <3>1 DEF Known
    <3>6. Session(Append(s, b), gone \o <<b>>, replies, FALSE, FALSE, <<>>)
      BY <1>2, <1>4, <1>6, <3>4, <3>5, SessionMore
    <3>7. (b = "n" \/ (b = "r" /\ start)) = FALSE
      BY <1>6, <2>4
    <3> QED
      BY <3>6, <3>7
  <2> QED
    BY <2>3, <2>4
<1> QED
  BY <1>5, <1>6

-----------------------------------------------------------------------------
(* The inductive invariant.                                                 *)
UsbTyped ==
  /\ typed \in Seq(Bytes) /\ endpoint \in Seq(Bytes) /\ packet \in Seq(Bytes)
  /\ seen \in Seq(Bytes) /\ sent \in Seq(Bytes) /\ todo \in Seq(Bytes) /\ buf \in Seq(Bytes)
  /\ lineStart \in BOOLEAN /\ active \in BOOLEAN

UsbInv ==
  /\ UsbTyped
  /\ InSession => Session(seen, sent \o todo, answered, lineStart, active, buf)
  /\ ~InSession => todo = <<>>

LEMMA UsbStarts ==
  ASSUME NEW T, T \subseteq Seq(Bytes), UsbStart(T)
  PROVE  UsbInv
<1>1. <<>> \in Seq(Bytes)
  OBVIOUS
<1>2. UsbTyped
  BY <1>1 DEF UsbStart, UsbTyped
<1>3. ~InSession /\ todo = <<>>
  BY DEF UsbStart, InSession
<1> QED
  BY <1>2, <1>3 DEF UsbInv

(* Steps that leave the session's account alone.                            *)
LEMMA UsbSame ==
  ASSUME UsbInv, UNCHANGED <<todo, Recogniser, Log>>,
         typed' \in Seq(Bytes), endpoint' \in Seq(Bytes), packet' \in Seq(Bytes),
         InSession' \in BOOLEAN, InSession' => InSession, ~InSession' => todo = <<>>
  PROVE  UsbInv'
<1>1. seen' = seen /\ sent' = sent /\ answered' = answered /\ todo' = todo
      /\ lineStart' = lineStart /\ active' = active /\ buf' = buf
  BY DEF Recogniser, Log
<1>2. UsbTyped'
  BY <1>1 DEF UsbInv, UsbTyped
<1>3. ASSUME InSession' PROVE Session(seen', sent' \o todo', answered', lineStart', active', buf')
  BY <1>1, <1>3 DEF UsbInv
<1>4. ~InSession' => todo' = <<>>
  BY <1>1
<1> QED
  BY <1>2, <1>3, <1>4 DEF UsbInv

LEMMA HostSendsKeeps ==
  ASSUME UsbInv, HostSends
  PROVE  UsbInv'
<1>1. PICK n \in 1 .. PacketMax :
        /\ n <= Len(typed)
        /\ endpoint' = SubSeq(typed, 1, n) /\ typed' = SubSeq(typed, n + 1, Len(typed))
  BY DEF HostSends
<1>2. typed \in Seq(Bytes) /\ packet \in Seq(Bytes) /\ Len(typed) \in Nat
  BY ByteAt DEF UsbInv, UsbTyped
<1>3. n \in Nat /\ 1 >= 1 /\ n >= 1 /\ n <= Len(typed) /\ 1 <= n + 1 /\ n + 1 >= 1
      /\ n + 1 \in Nat /\ n + 1 <= Len(typed) + 1
  BY <1>1, <1>2
<1>4. SubSeq(typed, 1, n) \in Seq(Bytes)
  BY <1>2, <1>3, PartFacts
<1>5. SubSeq(typed, n + 1, Len(typed)) \in Seq(Bytes)
  <2>1. Len(typed) <= Len(typed)
    BY <1>2
  <2> QED
    BY <1>2, <1>3, <2>1, PartFacts
<1>6. UNCHANGED <<todo, Recogniser, Log>> /\ usbStage' = usbStage /\ packet' = packet
  BY DEF HostSends, Work
<1>7. InSession' \in BOOLEAN /\ InSession' = InSession
  BY <1>6 DEF InSession
<1>8. ~InSession' => todo = <<>>
  BY <1>7 DEF UsbInv
<1> QED
  BY <1>1, <1>2, <1>4, <1>5, <1>6, <1>7, <1>8, UsbSame

(* The steps of the connection and of the peer, except Greet.               *)
Around == PeerSends \/ PeerTakes \/ Connect \/ Close \/ ReadPacket \/ ReadSocket \/ WriteUsb
            \/ WriteAnswer \/ InputDone

LEMMA AroundKeeps ==
  ASSUME UsbInv, Around
  PROVE  UsbInv'
<1> USE DEF Work, Wires
<1>1. /\ typed \in Seq(Bytes) /\ endpoint \in Seq(Bytes) /\ packet \in Seq(Bytes)
      /\ <<>> \in Seq(Bytes)
  BY DEF UsbInv, UsbTyped
<1>2. UNCHANGED <<todo, Recogniser, Log, typed>>
  BY DEF Around, PeerSends, PeerTakes, Connect, Close, ReadPacket, ReadSocket, WriteUsb,
         WriteAnswer, InputDone
<1>3. endpoint' \in {endpoint, <<>>} /\ packet' \in {packet, endpoint}
  BY DEF Around, PeerSends, PeerTakes, Connect, Close, ReadPacket, ReadSocket, WriteUsb,
         WriteAnswer, InputDone
<1>4. InSession' \in BOOLEAN /\ InSession' = InSession
  BY DEF Around, PeerSends, PeerTakes, Connect, Close, ReadPacket, ReadSocket, WriteUsb,
         WriteAnswer, InputDone, InSession
<1>5. ~InSession' => todo = <<>>
  BY <1>4 DEF UsbInv
<1>6. typed' \in Seq(Bytes) /\ endpoint' \in Seq(Bytes) /\ packet' \in Seq(Bytes)
  BY <1>1, <1>2, <1>3
<1>7. UNCHANGED <<todo, Recogniser, Log>>
  BY <1>2
<1> QED
  BY <1>4, <1>5, <1>6, <1>7, UsbSame

LEMMA GreetKeeps ==
  ASSUME UsbInv, Greet
  PROVE  UsbInv'
<1>1. PICK e \in Seq(Bytes) : e = <<>>
  <2>1. <<>> \in Seq(Bytes)
    OBVIOUS
  <2> QED
    BY <2>1
<1>2. todo = e
  BY <1>1 DEF UsbInv, InSession, Greet
<1>3. /\ seen' = e /\ sent' = e /\ answered' = e /\ todo' = e /\ buf' = e
      /\ lineStart' = TRUE /\ active' = FALSE /\ UNCHANGED <<typed, endpoint, packet>>
  BY <1>1, <1>2 DEF Greet, Work, Wires
<1>4. UsbTyped'
  BY <1>3 DEF UsbInv, UsbTyped
<1>5. Session(e, e, e, TRUE, FALSE, e)
  BY <1>1, SessionStarts
<1>6. e \o e = e
  BY <1>1
<1>7. Session(seen', sent' \o todo', answered', lineStart', active', buf')
  BY <1>3, <1>5, <1>6
<1>8. InSession'
  BY DEF Greet, InSession
<1> QED
  BY <1>4, <1>7, <1>8 DEF UsbInv

LEMMA LossKeeps ==
  ASSUME UsbInv, SessionEnds \/ AddressLost
  PROVE  UsbInv'
<1>1. <<>> \in Seq(Bytes)
  OBVIOUS
<1>2. /\ packet' = <<>> /\ todo' = <<>> /\ UNCHANGED <<typed, endpoint, Recogniser, Log>>
      /\ usbStage' \in {"close", "connect"}
  BY DEF SessionEnds, AddressLost
<1>3. UsbTyped'
  BY <1>1, <1>2 DEF UsbInv, UsbTyped, Recogniser, Log
<1>4. ~InSession'
  BY <1>2 DEF InSession
<1> QED
  BY <1>2, <1>3, <1>4 DEF UsbInv

(* A write takes the first bytes of what is to be written.                  *)
LEMMA PutKeeps ==
  ASSUME UsbInv, WriteSocket
  PROVE  UsbInv'
<1>1. PICK n \in 1 .. Len(todo) :
        sent' = sent \o SubSeq(todo, 1, n) /\ todo' = SubSeq(todo, n + 1, Len(todo))
  BY DEF WriteSocket
<1>2. sent \in Seq(Bytes) /\ todo \in Seq(Bytes) /\ Len(todo) \in Nat
  BY ByteAt DEF UsbInv, UsbTyped
<1>3. PICK x \in Seq(Bytes), y \in Seq(Bytes) :
        x = SubSeq(todo, 1, n) /\ y = SubSeq(todo, n + 1, Len(todo)) /\ x \o y = todo
  <2>1. SubSeq(todo, 1, n) \in Seq(Bytes)
    BY <1>2, PartFacts
  <2>2. SubSeq(todo, n + 1, Len(todo)) \in Seq(Bytes)
    BY <1>2, PartFacts
  <2>3. SubSeq(todo, 1, n) \o SubSeq(todo, n + 1, Len(todo)) = todo
    BY <1>2, SMTT(30)
  <2> QED
    BY <2>1, <2>2, <2>3
<1>4. sent' \in Seq(Bytes) /\ todo' \in Seq(Bytes)
  BY <1>1, <1>2, <1>3, JoinTyped
<1>5. sent' \o todo' = sent \o todo
  <2>1. (sent \o x) \o y = sent \o (x \o y)
    <3>1. Associates(sent, x, y)
      BY <1>2, JoinAssociates
    <3> QED
      BY <3>1 DEF Associates
  <2> QED
    BY <1>1, <1>3, <2>1
<1>6. UNCHANGED <<typed, endpoint, packet, seen, answered, usbStage, Recogniser>>
  BY DEF WriteSocket
<1>7. UsbTyped'
  BY <1>4, <1>6 DEF UsbInv, UsbTyped, Recogniser
<1>8. InSession /\ InSession'
  BY <1>6 DEF UsbInv, InSession, WriteSocket
<1>9. Session(seen', sent' \o todo', answered', lineStart', active', buf')
  BY <1>5, <1>6, <1>8 DEF UsbInv, Recogniser
<1> QED
  BY <1>7, <1>8, <1>9 DEF UsbInv

(* A byte of the packet.                                                    *)
LEMMA TakeFacts ==
  ASSUME UsbInv, NEW b \in Bytes, Take(b)
  PROVE  /\ InSession /\ InSession'
         /\ seen \in Seq(Bytes) /\ sent \in Seq(Bytes) /\ buf \in Seq(Bytes)
         /\ Session(seen, sent, answered, lineStart, active, buf)
         /\ seen' = Append(seen, b) /\ sent' = sent
         /\ typed' \in Seq(Bytes) /\ endpoint' \in Seq(Bytes) /\ packet' \in Seq(Bytes)
         /\ seen' \in Seq(Bytes)
<1>1. UsbTyped /\ todo = <<>> /\ packet # <<>> /\ InSession
  BY DEF UsbInv, Take, InSession
<1>2. sent \o todo = sent
  <2>1. sent \in Seq(Bytes)
    BY <1>1 DEF UsbTyped
  <2> QED
    BY <1>1, <2>1, NothingJoins
<1>3. Session(seen, sent, answered, lineStart, active, buf)
  BY <1>1, <1>2 DEF UsbInv
<1>4. /\ seen' = Append(seen, b) /\ packet' = Tail(packet)
      /\ UNCHANGED <<typed, endpoint, usbStage, sent>>
  BY DEF Take, Wires
<1>5. InSession'
  BY <1>1, <1>4 DEF InSession
<1>6. Tail(packet) \in Seq(Bytes)
  <2>1. packet \in Seq(Bytes)
    BY <1>1 DEF UsbTyped
  <2> QED
    BY <1>1, <2>1
<1>7. seen \in Seq(Bytes) /\ buf \in Seq(Bytes) /\ sent \in Seq(Bytes)
      /\ typed \in Seq(Bytes) /\ endpoint \in Seq(Bytes)
  BY <1>1 DEF UsbTyped
<1>8. Append(seen, b) \in Seq(Bytes)
  BY <1>7, Appended
<1> QED
  BY <1>1, <1>3, <1>4, <1>5, <1>6, <1>7, <1>8

(* What is left to show of a step that takes a byte.                        *)
LEMMA TakeKeeps ==
  ASSUME UsbInv, NEW b \in Bytes, Take(b), NEW x \in Seq(Bytes), todo' = x, buf' \in Seq(Bytes),
         lineStart' \in BOOLEAN, active' \in BOOLEAN,
         Session(Append(seen, b), sent \o x, answered', lineStart', active', buf')
  PROVE  UsbInv'
<1>1. /\ InSession' /\ seen' = Append(seen, b) /\ sent' = sent /\ sent \in Seq(Bytes)
      /\ typed' \in Seq(Bytes) /\ endpoint' \in Seq(Bytes) /\ packet' \in Seq(Bytes)
      /\ seen' \in Seq(Bytes)
  BY TakeFacts
<1>2. UsbTyped'
  BY <1>1 DEF UsbTyped
<1>3. Session(seen', sent' \o todo', answered', lineStart', active', buf')
  BY <1>1
<1> QED
  BY <1>1, <1>2, <1>3 DEF UsbInv

LEMMA CommandEndsKeeps ==
  ASSUME UsbInv, CommandEnds
  PROVE  UsbInv'
<1>1. /\ active /\ Take("n") /\ answered' = Append(answered, buf)
      /\ active' = FALSE /\ buf' = <<>> /\ lineStart' = TRUE /\ todo' = todo
  BY DEF CommandEnds
<1>2. "n" \in Bytes
  BY DEF Bytes
<1>3. /\ seen \in Seq(Bytes) /\ sent \in Seq(Bytes) /\ buf \in Seq(Bytes)
      /\ Session(seen, sent, answered, lineStart, TRUE, buf)
  <2>1. active = TRUE
    BY <1>1 DEF UsbInv, UsbTyped
  <2> QED
    BY <1>1, <1>2, <2>1, TakeFacts
<1>4. Session(Append(seen, "n"), sent \o <<>>, answered \o <<buf>>, TRUE, FALSE, <<>>)
  BY <1>3, EndsCommand
<1>5. answered' = answered \o <<buf>>
  <2>1. answered \in Seq(Seq(Bytes))
    BY <1>3, GoneTyped DEF Session, Told
  <2>2. Append(answered, buf) = answered \o <<buf>>
    BY <1>3, <2>1, JoinOne
  <2> QED
    BY <1>1, <2>2
<1>6. todo' = <<>> /\ <<>> \in Seq(Bytes)
  <2>1. todo = <<>>
    BY <1>1 DEF Take
  <2> QED
    BY <1>1, <2>1
<1>7. /\ buf' \in Seq(Bytes) /\ lineStart' \in BOOLEAN /\ active' \in BOOLEAN
      /\ Session(Append(seen, "n"), sent \o <<>>, answered', lineStart', active', buf')
  BY <1>1, <1>4, <1>5, <1>6
<1> QED
  BY <1>1, <1>2, <1>6, <1>7, TakeKeeps

LEMMA CommandSkipsKeeps ==
  ASSUME UsbInv, CommandSkips
  PROVE  UsbInv'
<1>1. /\ active /\ Take("r") /\ UNCHANGED <<lineStart, active, buf, todo, answered>>
  BY DEF CommandSkips, Recogniser
<1>2. "r" \in Bytes /\ "r" # "n" /\ Counted("r") = <<>>
  BY DEF Bytes, Counted
<1>3. active = TRUE /\ lineStart \in BOOLEAN
  BY <1>1 DEF UsbInv, UsbTyped
<1>4. /\ seen \in Seq(Bytes) /\ sent \in Seq(Bytes) /\ buf \in Seq(Bytes)
      /\ Session(seen, sent, answered, lineStart, TRUE, buf)
  BY <1>1, <1>2, <1>3, TakeFacts
<1>5. ~BreaksOff(Line(seen), "r")
  BY DEF BreaksOff, Printable
<1>6. Session(Append(seen, "r"), sent \o <<>>, answered, lineStart, TRUE, buf \o Counted("r"))
  BY <1>2, <1>4, <1>5, GrowsCommand
<1>7. buf \o Counted("r") = buf
  BY <1>2, <1>4, NothingJoins
<1>8. todo' = <<>> /\ <<>> \in Seq(Bytes)
  <2>1. todo = <<>>
    BY <1>1 DEF Take
  <2> QED
    BY <1>1, <2>1
<1>9. /\ buf' \in Seq(Bytes) /\ lineStart' \in BOOLEAN /\ active' \in BOOLEAN
      /\ Session(Append(seen, "r"), sent \o <<>>, answered', lineStart', active', buf')
  BY <1>1, <1>3, <1>4, <1>6, <1>7
<1> QED
  BY <1>1, <1>2, <1>8, <1>9, TakeKeeps

(* Whether a printable byte breaks the command off is a matter of room.     *)
LEMMA RoomFor ==
  ASSUME NEW l \in Seq(Bytes), NEW b \in Printable
  PROVE  /\ b \in Bytes /\ b # "n" /\ Counted(b) = <<b>> /\ b # "b"
         /\ BreaksOff(l, b) <=> Len(WithoutReturns(l)) >= CommandMax
<1>1. b \in Bytes /\ b # "n" /\ b # "b" /\ b # "r" /\ Counted(b) = <<b>>
  BY DEF Printable, Bytes, Counted
<1>2. PICK t \in Seq(Bytes) : t = WithoutReturns(l)
  BY TextTyped
<1>3. WithoutReturns(Append(l, b)) = Append(t, b)
  <2>1. WithoutReturns(Append(l, b)) = t \o <<b>>
    BY <1>1, <1>2, TextGrows
  <2> QED
    BY <1>1, <2>1, JoinOne
<1>4. PICK k \in Nat : k = Len(t) /\ Len(Append(t, b)) = k + 1
  BY <1>1, Appended
<1>5. BreaksOff(l, b) <=> k + 1 > CommandMax
  BY <1>1, <1>3, <1>4 DEF BreaksOff
<1>6. CommandMax \in Nat
  BY UsbAssumption
<1> QED
  BY <1>1, <1>2, <1>4, <1>5, <1>6

LEMMA HeldText ==
  ASSUME NEW s, NEW gone, NEW replies, NEW start, NEW text,
         Session(s, gone, replies, start, TRUE, text)
  PROVE  text = WithoutReturns(Line(s))
BY DEF Session, Known

LEMMA CommandGrowsKeeps ==
  ASSUME UsbInv, CommandGrows
  PROVE  UsbInv'
<1>1. PICK b \in Printable : Take(b) /\ buf' = Append(buf, b)
  BY DEF CommandGrows
<1>2. /\ active /\ Len(buf) < CommandMax /\ UNCHANGED <<lineStart, active, todo, answered>>
  BY DEF CommandGrows
<1>3. active = TRUE /\ lineStart \in BOOLEAN
  BY <1>2 DEF UsbInv, UsbTyped
<1>4. b \in Bytes /\ b # "n"
  BY DEF Printable, Bytes
<1>5. /\ seen \in Seq(Bytes) /\ sent \in Seq(Bytes) /\ buf \in Seq(Bytes)
      /\ Session(seen, sent, answered, lineStart, TRUE, buf)
  BY <1>1, <1>3, <1>4, TakeFacts
<1>6. PICK l \in Seq(Bytes) : l = Line(seen) /\ buf = WithoutReturns(l)
  BY <1>5, SessionLine, HeldText
<1>7. ~BreaksOff(l, b) /\ Counted(b) = <<b>>
  <2>1. Len(buf) \in Nat /\ CommandMax \in Nat
    BY <1>5, ByteAt, UsbAssumption
  <2>2. ~(Len(WithoutReturns(l)) >= CommandMax)
    BY <1>2, <1>6, <2>1
  <2> QED
    BY <2>2, RoomFor
<1>8. Session(Append(seen, b), sent \o <<>>, answered, lineStart, TRUE, buf \o <<b>>)
  BY <1>4, <1>5, <1>6, <1>7, GrowsCommand
<1>9. buf \o <<b>> = Append(buf, b) /\ Append(buf, b) \in Seq(Bytes)
  BY <1>4, <1>5, JoinOne
<1>10. todo' = <<>> /\ <<>> \in Seq(Bytes)
  <2>1. todo = <<>>
    BY <1>1 DEF Take
  <2> QED
    BY <1>2, <2>1
<1>11. /\ buf' \in Seq(Bytes) /\ lineStart' \in BOOLEAN /\ active' \in BOOLEAN
       /\ Session(Append(seen, b), sent \o <<>>, answered', lineStart', active', buf')
  BY <1>1, <1>2, <1>3, <1>8, <1>9
<1> QED
  BY <1>1, <1>4, <1>10, <1>11, TakeKeeps

LEMMA NoCommandKeeps ==
  ASSUME UsbInv, NoCommand
  PROVE  UsbInv'
<1>1. PICK b \in {"b"} \cup IF Len(buf) = CommandMax THEN Printable ELSE {} :
        Take(b) /\ Flush(b)
  BY DEF NoCommand
<1>2. active /\ answered' = answered
  BY DEF NoCommand
<1>3. active = TRUE /\ lineStart \in BOOLEAN
  BY <1>2 DEF UsbInv, UsbTyped
<1>4. b \in Bytes /\ b # "n" /\ (b = "b" \/ (b \in Printable /\ Len(buf) = CommandMax))
  BY DEF Printable, Bytes
<1>5. /\ seen \in Seq(Bytes) /\ sent \in Seq(Bytes) /\ buf \in Seq(Bytes)
      /\ Session(seen, sent, answered, lineStart, TRUE, buf)
  BY <1>1, <1>3, <1>4, TakeFacts
<1>6. PICK l \in Seq(Bytes) : l = Line(seen) /\ buf = WithoutReturns(l)
  BY <1>5, SessionLine, HeldText
<1>7. BreaksOff(l, b)
  <2>1. CASE b = "b"
    BY <2>1 DEF BreaksOff
  <2>2. CASE b \in Printable /\ Len(buf) = CommandMax
    <3>1. Len(WithoutReturns(l)) >= CommandMax
      BY <1>6, <2>2, UsbAssumption
    <3> QED
      BY <2>2, <3>1, RoomFor
  <2> QED
    BY <1>4, <2>1, <2>2
<1>8. Session(Append(seen, b), sent \o Append(buf, b), answered, FALSE, FALSE, <<>>)
  BY <1>4, <1>5, <1>6, <1>7, BreaksCommand
<1>9. PICK x \in Seq(Bytes) : x = Append(buf, b)
  <2>1. Append(buf, b) \in Seq(Bytes)
    BY <1>4, <1>5, Appended
  <2> QED
    BY <2>1
<1>10. todo' = x /\ active' = FALSE /\ buf' = <<>> /\ lineStart' = FALSE
  BY <1>1, <1>9 DEF Flush
<1>11. <<>> \in Seq(Bytes)
  OBVIOUS
<1>12. /\ buf' \in Seq(Bytes) /\ lineStart' \in BOOLEAN /\ active' \in BOOLEAN
       /\ Session(Append(seen, b), sent \o x, answered', lineStart', active', buf')
  BY <1>2, <1>8, <1>9, <1>10, <1>11
<1> QED
  BY <1>1, <1>4, <1>10, <1>12, TakeKeeps

LEMMA CommandBeginsKeeps ==
  ASSUME UsbInv, CommandBegins
  PROVE  UsbInv'
<1>1. /\ ~active /\ lineStart /\ Take("/") /\ active' = TRUE /\ buf' = <<"/">>
      /\ UNCHANGED <<lineStart, todo, answered>>
  BY DEF CommandBegins
<1>2. "/" \in Bytes
  BY DEF Bytes, Printable
<1>3. active = FALSE /\ lineStart = TRUE
  BY <1>1 DEF UsbInv, UsbTyped
<1>4. /\ seen \in Seq(Bytes) /\ sent \in Seq(Bytes)
      /\ Session(seen, sent, answered, TRUE, FALSE, buf)
  BY <1>1, <1>2, <1>3, TakeFacts
<1>5. Session(Append(seen, "/"), sent \o <<>>, answered, TRUE, TRUE, <<"/">>)
  BY <1>4, BeginsCommand
<1>6. <<"/">> \in Seq(Bytes)
  BY <1>2
<1>7. todo' = <<>> /\ <<>> \in Seq(Bytes)
  <2>1. todo = <<>>
    BY <1>1 DEF Take
  <2> QED
    BY <1>1, <2>1
<1>8. /\ buf' \in Seq(Bytes) /\ lineStart' \in BOOLEAN /\ active' \in BOOLEAN
      /\ Session(Append(seen, "/"), sent \o <<>>, answered', lineStart', active', buf')
  BY <1>1, <1>3, <1>5, <1>6
<1> QED
  BY <1>1, <1>2, <1>7, <1>8, TakeKeeps

LEMMA ForwardKeeps ==
  ASSUME UsbInv, Forward
  PROVE  UsbInv'
<1>1. PICK b \in Bytes : /\ ~(lineStart /\ b = "/") /\ Take(b) /\ todo' = <<b>>
                         /\ lineStart' = (b = "n" \/ (b = "r" /\ lineStart))
  BY DEF Forward
<1>2. ~active /\ UNCHANGED <<active, buf, answered>>
  BY DEF Forward
<1>3. active = FALSE /\ lineStart \in BOOLEAN
  BY <1>2 DEF UsbInv, UsbTyped
<1>4. /\ seen \in Seq(Bytes) /\ sent \in Seq(Bytes) /\ buf \in Seq(Bytes)
      /\ Session(seen, sent, answered, lineStart, FALSE, buf)
  BY <1>1, <1>3, TakeFacts
<1>5. Session(Append(seen, b), sent \o <<b>>, answered,
              b = "n" \/ (b = "r" /\ lineStart), FALSE, <<>>)
  BY <1>1, <1>3, <1>4, PassesByte
<1>6. buf = <<>>
  BY <1>4 DEF Session, Known
<1>7. PICK x \in Seq(Bytes) : x = <<b>>
  <2>1. <<b>> \in Seq(Bytes)
    OBVIOUS
  <2> QED
    BY <2>1
<1>8. Session(Append(seen, b), sent \o x, answered', lineStart', active', buf')
  BY <1>1, <1>2, <1>3, <1>5, <1>6, <1>7
<1>9. buf' \in Seq(Bytes) /\ lineStart' \in BOOLEAN /\ active' \in BOOLEAN /\ todo' = x
  BY <1>1, <1>2, <1>3, <1>4, <1>7
<1> QED
  BY <1>1, <1>8, <1>9, TakeKeeps

LEMMA UsbStutters ==
  ASSUME UsbInv, UNCHANGED usb
  PROVE  UsbInv'
BY DEF usb, Recogniser, Log, UsbInv, UsbTyped, InSession

LEMMA UsbInit == LocalInit => UsbInv
<1>1. <<>> \in Seq(Bytes)
  OBVIOUS
<1>2. {<<>>} \subseteq Seq(Bytes) /\ Texts \subseteq Seq(Bytes)
  BY <1>1, LocalAssumption
<1> QED
  BY <1>2, UsbStarts DEF LocalInit, UsbOff

LEMMA UsbStep ==
  ASSUME UsbInv, [LocalNext]_local
  PROVE  UsbInv'
<1>1. UsbNext \/ UNCHANGED usb
  BY DEF LocalNext, local
<1>2. CASE UNCHANGED usb
  BY <1>2, UsbStutters
<1>3. CASE UsbNext
  BY <1>3, HostSendsKeeps, AroundKeeps, GreetKeeps, LossKeeps, CommandEndsKeeps,
     CommandSkipsKeeps, CommandGrowsKeeps, NoCommandKeeps, CommandBeginsKeeps, ForwardKeeps,
     PutKeeps
     DEF UsbNext, HandleByte, Around
<1> QED
  BY <1>1, <1>2, <1>3

(* The account of a session, read as what its bytes mean.                   *)
LEMMA UsbMeans == UsbInv => UsbExact
<1> SUFFICES ASSUME UsbInv, InSession PROVE UsbExact
  BY DEF UsbExact
<1>1. Session(seen, sent \o todo, answered, lineStart, active, buf)
  BY DEF UsbInv
<1>2. seen \in Seq(Bytes) /\ lineStart \in BOOLEAN /\ active \in BOOLEAN
  BY DEF UsbInv, UsbTyped
<1>3. PICK l \in Seq(Bytes) : l = Line(seen)
  BY <1>2, SessionLine
<1>4. PICK out : out = SoFar(l).out
  OBVIOUS
<1>5. SoFar(l).commands = <<>> /\ SoFar(l).held = buf /\ active = (buf # <<>>)
  <2>1. CASE active
    <3>1. Holding(l) /\ buf = WithoutReturns(l) /\ buf # <<>>
      BY <1>1, <1>3, <2>1 DEF Session, Known
    <3>2. SoFar(l) = HeldBack(l)
      BY <3>1, HoldingOut
    <3>3. SoFar(l).commands = <<>> /\ SoFar(l).held = buf
      BY <3>1, <3>2, FieldsAre DEF HeldBack
    <3> QED
      BY <1>2, <2>1, <3>1, <3>3
  <2>2. CASE ~active
    <3>1. buf = <<>> /\ (Opening(l) \/ Passing(l))
      BY <1>1, <1>3, <2>2 DEF Session, Known
    <3>2. PICK d : SoFar(l) = [out |-> d, commands |-> <<>>, held |-> <<>>]
      BY <3>1, OpeningOut, PassingOut
    <3>3. SoFar(l).commands = <<>> /\ SoFar(l).held = buf
      BY <3>1, <3>2, FieldsAre
    <3> QED
      BY <1>2, <2>2, <3>1, <3>3
  <2> QED
    BY <2>1, <2>2
<1>6. sent \o todo = Outs(seen) \o out /\ answered = Commands(seen)
  BY <1>1, <1>3, <1>4 DEF Session, Told
<1>7. Commands(seen) \o <<>> = Commands(seen)
  <2>1. Commands(seen) \in Seq(Seq(Bytes))
    BY <1>2, GoneTyped
  <2> QED
    BY <2>1, NothingJoins
<1>8. Meaning(seen) = [out |-> Outs(seen) \o out, commands |-> Commands(seen) \o <<>>,
                       held |-> buf]
  BY <1>3, <1>4, <1>5 DEF Meaning, Outs, Commands, Line, SoFar
<1>9. /\ Meaning(seen).out = Outs(seen) \o out /\ Meaning(seen).commands = Commands(seen) \o <<>>
      /\ Meaning(seen).held = buf
  BY <1>8, FieldsAre
<1> QED
  BY <1>5, <1>6, <1>7, <1>9 DEF UsbExact

(* Every byte that a USB host types in a session is forwarded once and in   *)
(* order, answered as part of a command, or held, as the lines say, however *)
(* the bytes are cut into packets and writes, for every text and every      *)
(* capacity of the command buffer (handle_usb_input).                       *)
THEOREM UsbForwardsExactly == LocalSpec => []UsbExact
<1>1. UsbInv /\ [LocalNext]_local => UsbInv'
  BY UsbStep
<1> QED
  BY <1>1, UsbInit, UsbMeans, PTL DEF LocalSpec

-----------------------------------------------------------------------------
(* The LED in test mode: only a session that has set the LED is sure of it, *)
(* and neither a blink nor the heartbeat then drives the pin.               *)
LedInv ==
  /\ pin \in BOOLEAN /\ testOn \in BOOLEAN /\ session \in BOOLEAN /\ sure \in BOOLEAN
  /\ session => mode = "test"
  /\ sure => session /\ blink = 0
  /\ TestOnShows

LEMMA DrivenTyped ==
  ASSUME NEW level \in BOOLEAN, NEW command
  PROVE  /\ Driven(level, command) \in BOOLEAN
         /\ command = "on" => Driven(level, command) = TRUE
         /\ command = "off" => Driven(level, command) = FALSE
BY DEF Driven

LEMMA HeartbeatKeeps ==
  ASSUME LedInv, Heartbeat
  PROVE  LedInv'
<1>1. mode = "bridge" /\ mode' = mode /\ UNCHANGED <<session, testOn, blink, sure>>
  BY DEF Heartbeat, Test
<1>2. ~session /\ ~sure
  BY <1>1 DEF LedInv
<1>3. PICK level \in BOOLEAN : level = Driven(pin, TakeLedCommand)
  BY DrivenTyped DEF LedInv
<1>4. pin' = IF AutoAfter(TakeLedCommand) THEN linkUp /\ ~level ELSE level
  BY <1>3 DEF Heartbeat
<1>5. pin' \in BOOLEAN
  BY <1>3, <1>4
<1> QED
  BY <1>1, <1>2, <1>5 DEF LedInv, TestOnShows

LEMMA TestCommandKeeps ==
  ASSUME LedInv, NEW command \in {"off", "on", "toggle"}, TestCommand(command)
  PROVE  LedInv'
<1>1. /\ session /\ blink = 0 /\ UNCHANGED <<mode, session, blink>>
      /\ pin' = Driven(pin, command) /\ testOn' = Driven(testOn, command)
      /\ sure' = (command # "toggle" \/ sure)
  BY DEF TestCommand
<1>2. pin \in BOOLEAN /\ testOn \in BOOLEAN /\ sure \in BOOLEAN /\ TestOnShows
  BY DEF LedInv
<1>3. pin' \in BOOLEAN /\ testOn' \in BOOLEAN /\ sure' \in BOOLEAN
  BY <1>1, <1>2, DrivenTyped
<1>4. ASSUME sure' PROVE testOn' = pin'
  <2>1. CASE command = "toggle"
    <3>1. testOn = pin
      BY <1>1, <1>2, <1>4, <2>1 DEF TestOnShows
    <3> QED
      BY <1>1, <3>1
  <2>2. CASE command # "toggle"
    BY <1>1, <1>2, <2>2, DrivenTyped
  <2> QED
    BY <2>1, <2>2
<1> QED
  BY <1>1, <1>3, <1>4 DEF LedInv, TestOnShows

LEMMA LedInit == LocalInit => LedInv
BY DEF LocalInit, LedOff, LedStart, LedInv, TestOnShows

LEMMA LedStep ==
  ASSUME LedInv, [LocalNext]_local
  PROVE  LedInv'
<1> USE DEF LedInv, TestOnShows
<1>1. LedNext \/ UNCHANGED led
  BY DEF LocalNext, local
<1>2. CASE UNCHANGED led
  BY <1>2 DEF led
<1>3. ASSUME NEW command, LedAnswer(command) PROVE LedInv'
  BY <1>3 DEF LedAnswer, Test
<1>4. CASE LinkChange
  BY <1>4 DEF LinkChange, Test
<1>5. CASE Heartbeat
  BY <1>5, HeartbeatKeeps
<1>6. CASE TestBegins
  BY <1>6 DEF TestBegins
<1>7. CASE TestEnds
  BY <1>7 DEF TestEnds
<1>8. ASSUME NEW command \in {"off", "on", "toggle"}, TestCommand(command) PROVE LedInv'
  BY <1>8, TestCommandKeeps
<1>9. CASE TestBlink
  BY <1>9 DEF TestBlink
<1>10. CASE Blinks
  BY <1>10 DEF Blinks
<1> QED
  BY <1>1, <1>2, <1>3, <1>4, <1>5, <1>6, <1>7, <1>8, <1>9, <1>10 DEF LedNext

(* Once a session of the test mode has set the LED, led_on is what the LED  *)
(* shows until the next blink (handle_command).                             *)
THEOREM TestLedKnown == LocalSpec => []TestOnShows
<1>1. LedInv /\ [LocalNext]_local => LedInv'
  BY LedStep
<1>2. LedInv => TestOnShows
  BY DEF LedInv
<1> QED
  BY <1>1, <1>2, LedInit, PTL DEF LocalSpec

-----------------------------------------------------------------------------
(***************************************************************************)
(* The reader of the UART recovers (FrameReader's Resyncs).  What it finds  *)
(* is known (ReaderExact); the lemmas say what there is to find in frames   *)
(* laid out one behind the other, after stray bytes or cut anywhere: from   *)
(* the start of a frame on exactly the frames from there, and from every    *)
(* place before a frame that is due it moves closer without passing it.     *)
(***************************************************************************)

(* Where the frames of a list begin.                                        *)
Pre(fs, m) == FlattenSeq([i \in 1 .. m |-> Wire(fs[i])])

LEMMA JoinFacts ==
  ASSUME NEW x \in Seq(Nat), NEW y \in Seq(Nat)
  PROVE  /\ Len(x \o y) = Len(x) + Len(y) /\ Len(x) \in Nat /\ Len(y) \in Nat
         /\ \A i \in 1 .. Len(x) : (x \o y)[i] = x[i]
         /\ \A i \in 1 .. Len(y) : (x \o y)[Len(x) + i] = y[i]
OBVIOUS

LEMMA WireFacts ==
  ASSUME NEW f \in Frames
  PROVE  /\ Wire(f) \in Seq(Nat) /\ Len(Wire(f)) = 4 + Len(f[2]) /\ Len(f[2]) \in Nat
         /\ Wire(f)[1] = f[1][1] /\ Wire(f)[2] = f[1][2]
         /\ Wire(f)[3] + 256 * Wire(f)[4] = Len(f[2])
         /\ \A j \in 1 .. Len(f[2]) : Wire(f)[4 + j] = f[2][j]
<1>1. PICK a \in Nat, b \in Nat, y \in Seq(Nat), n \in Nat :
        a = f[1][1] /\ b = f[1][2] /\ y = f[2] /\ n = Len(y)
  <2>1. f[1][1] \in Nat /\ f[1][2] \in Nat /\ f[2] \in Seq(Nat)
    BY DEF Frames
  <2>2. Len(f[2]) \in Nat
    BY <2>1
  <2> QED
    BY <2>1, <2>2
<1>2. PICK c \in Nat, d \in Nat : c = n % 256 /\ d = n \div 256 /\ c + 256 * d = n
  <2>1. n % 256 \in Nat /\ n \div 256 \in Nat
    OBVIOUS
  <2>2. (n % 256) + 256 * (n \div 256) = n
    OBVIOUS
  <2> QED
    BY <2>1, <2>2
<1>3. Wire(f) = <<a, b, c, d>> \o y
  BY <1>1, <1>2 DEF Wire
<1>4. PICK h \in Seq(Nat) : h = <<a, b, c, d>>
  <2>1. <<a, b, c, d>> \in Seq(Nat)
    OBVIOUS
  <2> QED
    BY <2>1
<1>5. Len(h) = 4 /\ h[1] = a /\ h[2] = b /\ h[3] = c /\ h[4] = d
  BY <1>4
<1>6. PICK z \in Seq(Nat) : z = h \o y
  <2>1. h \o y \in Seq(Nat)
    BY JoinTyped
  <2> QED
    BY <2>1
<1>7. /\ Len(z) = 4 + n /\ \A i \in 1 .. 4 : z[i] = h[i]
      /\ \A j \in 1 .. n : z[4 + j] = y[j]
  <2>1. /\ Len(h \o y) = Len(h) + Len(y)
        /\ \A i \in 1 .. Len(h) : (h \o y)[i] = h[i]
        /\ \A i \in 1 .. Len(y) : (h \o y)[Len(h) + i] = y[i]
    BY JoinFacts
  <2> QED
    BY <1>1, <1>5, <1>6, <2>1
<1>8. Wire(f) = z
  BY <1>3, <1>4, <1>6
<1>9. z[1] = a /\ z[2] = b /\ z[3] = c /\ z[4] = d
  BY <1>5, <1>7
<1> QED
  BY <1>1, <1>2, <1>7, <1>8, <1>9

LEMMA PreGrows ==
  ASSUME NEW fs \in Seq(Frames), NEW m \in Nat, m + 1 <= Len(fs)
  PROVE  /\ Pre(fs, m + 1) = Pre(fs, m) \o Wire(fs[m + 1])
         /\ Pre(fs, m) \in Seq(Nat) /\ Wire(fs[m + 1]) \in Seq(Nat)
<1> DEFINE f == [i \in 1 .. m + 1 |-> Wire(fs[i])]
<1>1. \A i \in 1 .. m + 1 : fs[i] \in Frames
  OBVIOUS
<1>2. \A i \in 1 .. m + 1 : Wire(fs[i]) \in Seq(Nat)
  BY <1>1, WireTyped
<1>3. f \in [1 .. m + 1 -> Seq(Nat)]
  BY <1>2
<1>4. f[m + 1] = Wire(fs[m + 1]) /\ [i \in 1 .. m |-> f[i]] = [i \in 1 .. m |-> Wire(fs[i])]
  OBVIOUS
<1>5. Pre(fs, m + 1) = FlattenSeq(f) /\ Pre(fs, m) = FlattenSeq([i \in 1 .. m |-> f[i]])
  BY <1>4 DEF Pre
<1>6. /\ FlattenSeq(f) = FlattenSeq([i \in 1 .. m |-> f[i]]) \o f[m + 1]
      /\ FlattenSeq([i \in 1 .. m |-> f[i]]) \in Seq(Nat) /\ f[m + 1] \in Seq(Nat)
  <2> HIDE DEF f
  <2> QED
    BY <1>3, FlattenLast
<1> QED
  BY <1>4, <1>5, <1>6

(* The frames follow each other: frame k has its bytes behind the first     *)
(* Before(fs, k).                                                           *)
LaidOut(fs, m) ==
  /\ Pre(fs, m) \in Seq(Nat) /\ Len(Pre(fs, m)) \in Nat
  /\ Len(Pre(fs, 0)) = 0
  /\ \A k \in 1 .. m :
       /\ Len(Pre(fs, k - 1)) \in Nat /\ Len(Pre(fs, k)) \in Nat
       /\ Len(Pre(fs, k)) = Len(Pre(fs, k - 1)) + 4 + Len(fs[k][2])
       /\ Len(Pre(fs, k)) <= Len(Pre(fs, m))
       /\ \A j \in 1 .. 4 + Len(fs[k][2]) :
            Pre(fs, m)[Len(Pre(fs, k - 1)) + j] = Wire(fs[k])[j]

LEMMA PreNothing ==
  ASSUME NEW fs
  PROVE  LaidOut(fs, 0)
<1>1. [i \in 1 .. 0 |-> Wire(fs[i])] = <<>>
  OBVIOUS
<1>2. Pre(fs, 0) = <<>>
  BY <1>1, FlattenNothing DEF Pre
<1>3. <<>> \in Seq(Nat) /\ Len(<<>>) = 0
  OBVIOUS
<1>4. Pre(fs, 0) \in Seq(Nat) /\ Len(Pre(fs, 0)) = 0 /\ Len(Pre(fs, 0)) \in Nat
  BY <1>2, <1>3
<1>5. \A k \in 1 .. 0 : FALSE
  OBVIOUS
<1> QED
  BY <1>4, <1>5 DEF LaidOut

LEMMA LaidOutMore ==
  ASSUME NEW fs \in Seq(Frames), NEW m \in Nat, m + 1 <= Len(fs), LaidOut(fs, m)
  PROVE  LaidOut(fs, m + 1)
<1>1. PICK x \in Seq(Nat), y \in Seq(Nat) :
        x = Pre(fs, m) /\ y = Wire(fs[m + 1]) /\ Pre(fs, m + 1) = x \o y
  BY PreGrows
<1>2. PICK a \in Nat, n \in Nat : a = Len(x) /\ n = Len(fs[m + 1][2]) /\ Len(y) = 4 + n
  <2>1. fs[m + 1] \in Frames
    OBVIOUS
  <2>2. Len(y) = 4 + Len(fs[m + 1][2]) /\ Len(fs[m + 1][2]) \in Nat
    BY <1>1, <2>1, WireFacts
  <2>3. Len(x) \in Nat
    OBVIOUS
  <2> QED
    BY <2>2, <2>3
<1>3. PICK z \in Seq(Nat) : z = x \o y
  <2>1. x \o y \in Seq(Nat)
    BY JoinTyped
  <2> QED
    BY <2>1
<1>4. /\ Len(z) = a + 4 + n
      /\ \A i \in 1 .. a : z[i] = x[i]
      /\ \A i \in 1 .. 4 + n : z[a + i] = y[i]
  <2>1. /\ Len(x \o y) = Len(x) + Len(y)
        /\ \A i \in 1 .. Len(x) : (x \o y)[i] = x[i]
        /\ \A i \in 1 .. Len(y) : (x \o y)[Len(x) + i] = y[i]
    BY JoinFacts
  <2>2. Len(x) = a /\ Len(y) = 4 + n
    BY <1>2
  <2>3. Len(z) = a + (4 + n)
    BY <1>3, <2>1, <2>2
  <2>4. \A i \in 1 .. a : z[i] = x[i]
    BY <1>3, <2>1, <2>2
  <2>5. \A i \in 1 .. 4 + n : z[a + i] = y[i]
    BY <1>3, <2>1, <2>2
  <2>6. a + (4 + n) = a + 4 + n
    OBVIOUS
  <2> QED
    BY <2>3, <2>4, <2>5, <2>6
<1>5. Pre(fs, m + 1) = z
  BY <1>1, <1>3
<1>6. Len(Pre(fs, 0)) = 0
  BY DEF LaidOut
<1>7. ASSUME NEW k \in 1 .. m
      PROVE  /\ Len(Pre(fs, k - 1)) \in Nat /\ Len(Pre(fs, k)) \in Nat
             /\ Len(Pre(fs, k)) = Len(Pre(fs, k - 1)) + 4 + Len(fs[k][2])
             /\ Len(Pre(fs, k)) <= Len(z)
             /\ \A j \in 1 .. 4 + Len(fs[k][2]) :
                  z[Len(Pre(fs, k - 1)) + j] = Wire(fs[k])[j]
  <2>1. PICK b \in Nat, c \in Nat, l \in Nat :
          /\ b = Len(Pre(fs, k - 1)) /\ c = Len(Pre(fs, k)) /\ l = Len(fs[k][2])
          /\ c = b + 4 + l /\ c <= a
          /\ \A j \in 1 .. 4 + l : x[b + j] = Wire(fs[k])[j]
    <3>1. fs[k] \in Frames
      OBVIOUS
    <3>2. Len(fs[k][2]) \in Nat
      BY <3>1, WireFacts
    <3>3. /\ Len(Pre(fs, k - 1)) \in Nat /\ Len(Pre(fs, k)) \in Nat
          /\ Len(Pre(fs, k)) = Len(Pre(fs, k - 1)) + 4 + Len(fs[k][2])
          /\ Len(Pre(fs, k)) <= Len(x)
          /\ \A j \in 1 .. 4 + Len(fs[k][2]) :
               x[Len(Pre(fs, k - 1)) + j] = Wire(fs[k])[j]
      BY <1>1 DEF LaidOut
    <3> QED
      BY <1>2, <3>2, <3>3
  <2>2. \A j \in 1 .. 4 + l : b + j \in 1 .. a
    <3>1. c = b + 4 + l /\ c <= a
      BY <2>1
    <3> QED
      BY <3>1
  <2>3. \A j \in 1 .. 4 + l : z[b + j] = Wire(fs[k])[j]
    BY <1>4, <2>1, <2>2
  <2>4. c <= Len(z)
    <3>1. c <= a /\ Len(z) = a + 4 + n
      BY <1>4, <2>1
    <3> QED
      BY <3>1
  <2> QED
    BY <2>1, <2>3, <2>4
<1>8. /\ Len(Pre(fs, (m + 1) - 1)) \in Nat /\ Len(Pre(fs, m + 1)) \in Nat
      /\ Len(Pre(fs, m + 1)) = Len(Pre(fs, (m + 1) - 1)) + 4 + Len(fs[m + 1][2])
      /\ Len(Pre(fs, m + 1)) <= Len(z)
      /\ \A j \in 1 .. 4 + Len(fs[m + 1][2]) :
           z[Len(Pre(fs, (m + 1) - 1)) + j] = Wire(fs[m + 1])[j]
  <2>1. (m + 1) - 1 = m
    OBVIOUS
  <2>2. Pre(fs, (m + 1) - 1) = x
    BY <1>1, <2>1
  <2>3. Len(z) \in Nat /\ Len(z) <= Len(z)
    BY <1>4
  <2>4. Len(z) = a + 4 + n /\ a \in Nat
    BY <1>4
  <2>5. \A j \in 1 .. 4 + n : z[a + j] = y[j]
    BY <1>4
  <2> QED
    BY <1>1, <1>2, <1>5, <2>2, <2>3, <2>4, <2>5
<1>9. \A k \in 1 .. m + 1 : k \in 1 .. m \/ k = m + 1
  OBVIOUS
<1>10. z \in Seq(Nat) /\ Len(z) \in Nat
  BY <1>4
<1> QED
  BY <1>5, <1>6, <1>7, <1>8, <1>9, <1>10 DEF LaidOut

LEMMA AllLaidOut ==
  ASSUME NEW fs \in Seq(Frames)
  PROVE  \A m \in 0 .. Len(fs) : LaidOut(fs, m)
<1> DEFINE T == {m \in Nat : m <= Len(fs) => LaidOut(fs, m)}
<1>1. 0 \in T
  BY PreNothing
<1>2. ASSUME NEW m \in T PROVE m + 1 \in T
  <2> SUFFICES ASSUME m + 1 <= Len(fs) PROVE LaidOut(fs, m + 1)
    OBVIOUS
  <2>1. m <= Len(fs)
    OBVIOUS
  <2> QED
    BY <2>1, LaidOutMore
<1>3. T \in SUBSET Nat
  OBVIOUS
<1>4. T = Nat
  <2> HIDE DEF T
  <2> QED
    BY <1>1, <1>2, <1>3, Induct
<1> QED
  BY <1>4

(* What is left of n stray bytes and the frames fs once c bytes are gone,   *)
(* and where in it frame k begins.                                          *)
Remains(u, fs, n, c) ==
  /\ u \in Seq(Nat) /\ fs \in Seq(Frames) /\ n \in Nat /\ c \in Nat
  /\ Len(u) + c = n + Len(OnWire(fs))
  /\ \A i \in 1 .. Len(OnWire(fs)) : n + i > c => u[n + i - c] = OnWire(fs)[i]

StartIn(fs, n, c, k) == n + Len(Pre(fs, k - 1)) + 1 - c

Sent(f) == <<f[1][1], f[2]>>

(* A frame in the bytes u at p.                                             *)
HasFrame(u, p, f, l) ==
  /\ u \in Seq(Nat) /\ f \in Frames /\ f[1] \in Magics
  /\ p \in Nat /\ p >= 1 /\ l \in Nat /\ l = Len(f[2]) /\ l <= Capacity
  /\ p + 3 + l <= Len(u)
  /\ \A j \in 1 .. 4 + l : u[p + j - 1] = Wire(f)[j]

LEMMA FrameFits ==
  ASSUME NEW p \in Nat, NEW l \in Nat, NEW m \in Nat, p >= 1, p + 3 + l <= m
  PROVE  /\ p < m /\ p + 3 <= m /\ p <= m
         /\ p + 4 \in Nat /\ p + 3 + l \in Nat /\ p + 4 >= 1
         /\ (p + 3 + l) - (p + 4) + 1 = l /\ p + 4 <= p + 3 + l + 1
OBVIOUS

LEMMA FrameThereIs ==
  ASSUME NEW u, NEW f, NEW p, NEW l, HasFrame(u, p, f, l)
  PROVE  /\ ScanFrom(u, TRUE)[p] = <<Sent(f)>> \o ScanFrom(u, TRUE)[p + 4 + l]
         /\ Sent(f) \in Found
<1>0. /\ u \in Seq(Nat) /\ f \in Frames /\ f[1] \in Magics
      /\ p \in Nat /\ p >= 1 /\ l \in Nat /\ l = Len(f[2]) /\ l <= Capacity
      /\ p + 3 + l <= Len(u)
  BY DEF HasFrame
<1>1. PICK a \in Nat, b \in Nat, y \in Seq(Nat) :
        a = f[1][1] /\ b = f[1][2] /\ y = f[2] /\ f[1] = <<a, b>>
  <2>1. f[1][1] \in Nat /\ f[1][2] \in Nat /\ f[2] \in Seq(Nat) /\ f[1] = <<f[1][1], f[1][2]>>
    BY <1>0 DEF Frames
  <2> QED
    BY <2>1
<1>2. PICK m \in Nat : m = Len(u) /\ p + 3 + l <= m
  <2>1. Len(u) \in Nat
    BY <1>0
  <2> QED
    BY <1>0, <2>1
<1>3. /\ Wire(f)[1] = a /\ Wire(f)[2] = b /\ Wire(f)[3] + 256 * Wire(f)[4] = l
      /\ \A j \in 1 .. l : Wire(f)[4 + j] = y[j]
  <2>1. /\ Wire(f)[1] = f[1][1] /\ Wire(f)[2] = f[1][2]
        /\ Wire(f)[3] + 256 * Wire(f)[4] = Len(f[2])
        /\ \A j \in 1 .. Len(f[2]) : Wire(f)[4 + j] = f[2][j]
    BY <1>0, WireFacts
  <2> QED
    BY <1>0, <1>1, <2>1
<1>4. u[p] = a /\ u[p + 1] = b /\ u[p + 2] = Wire(f)[3] /\ u[p + 3] = Wire(f)[4]
  <2>1. 1 \in 1 .. 4 + l /\ 2 \in 1 .. 4 + l /\ 3 \in 1 .. 4 + l /\ 4 \in 1 .. 4 + l
    BY <1>0
  <2>2. p + 1 - 1 = p /\ p + 2 - 1 = p + 1 /\ p + 3 - 1 = p + 2 /\ p + 4 - 1 = p + 3
    BY <1>0
  <2>3. /\ u[p + 1 - 1] = Wire(f)[1] /\ u[p + 2 - 1] = Wire(f)[2]
        /\ u[p + 3 - 1] = Wire(f)[3] /\ u[p + 4 - 1] = Wire(f)[4]
    BY <2>1 DEF HasFrame
  <2> QED
    BY <1>3, <2>2, <2>3
<1>5. AtMagic(u, p)
  <2>1. p < m
    BY <1>0, <1>2, FrameFits
  <2>2. <<u[p], u[p + 1]>> \in Magics
    BY <1>0, <1>1, <1>4
  <2> QED
    BY <1>2, <2>1, <2>2 DEF AtMagic
<1>6. LengthAt(u, p) = l
  BY <1>3, <1>4 DEF LengthAt
<1>7. SubSeq(u, p + 4, p + 3 + l) = y
  <2>1. p + 4 \in Nat /\ p + 3 + l \in Nat /\ p + 4 >= 1 /\ (p + 3 + l) - (p + 4) + 1 = l
        /\ p + 4 <= p + 3 + l + 1 /\ p + 3 + l <= Len(u)
    <3>1. p \in Nat /\ l \in Nat /\ p >= 1 /\ p + 3 + l <= m
      BY <1>0, <1>2
    <3>2. p + 4 \in Nat /\ p + 3 + l \in Nat /\ p + 4 >= 1
      BY <3>1, FrameFits
    <3>3. (p + 3 + l) - (p + 4) + 1 = l /\ p + 4 <= p + 3 + l + 1
      BY <3>1, FrameFits
    <3> QED
      BY <1>0, <3>2, <3>3
  <2>2. /\ SubSeq(u, p + 4, p + 3 + l) \in Seq(Nat) /\ Len(SubSeq(u, p + 4, p + 3 + l)) = l
        /\ \A j \in 1 .. l : SubSeq(u, p + 4, p + 3 + l)[j] = u[p + 4 + j - 1]
    <3>1. PICK i \in Nat, k \in Nat :
            i = p + 4 /\ k = p + 3 + l /\ i >= 1 /\ k <= Len(u) /\ k - i + 1 = l /\ i <= k + 1
      BY <2>1
    <3>2. /\ u \in Seq(Nat) /\ l \in Nat
          /\ i >= 1 /\ k <= Len(u) /\ k - i + 1 = l /\ i <= k + 1
      BY <1>0, <3>1
    <3>3. /\ SubSeq(u, i, k) \in Seq(Nat) /\ Len(SubSeq(u, i, k)) = l
          /\ \A j \in 1 .. l : SubSeq(u, i, k)[j] = u[i + j - 1]
      <4>1. SubSeq(u, i, k) \in Seq(Nat) /\ Len(SubSeq(u, i, k)) = k - i + 1
        BY <3>2, PartFacts
      <4>2. \A j \in 1 .. k - i + 1 : SubSeq(u, i, k)[j] = u[i + j - 1]
        BY <3>2, PartFacts
      <4> QED
        BY <3>2, <4>1, <4>2
    <3> QED
      BY <3>1, <3>3
  <2>3. ASSUME NEW j \in 1 .. l PROVE u[p + 4 + j - 1] = y[j]
    <3>1. 4 + j \in 1 .. 4 + l /\ p + (4 + j) - 1 = p + 4 + j - 1
      BY <1>0
    <3>2. u[p + (4 + j) - 1] = Wire(f)[4 + j]
      BY <3>1 DEF HasFrame
    <3> QED
      BY <1>3, <3>1, <3>2
  <2>4. \A j \in 1 .. l : SubSeq(u, p + 4, p + 3 + l)[j] = y[j]
    BY <2>2, <2>3
  <2>5. Len(y) = l
    BY <1>0, <1>1
  <2> QED
    BY <2>2, <2>4, <2>5, SameBytes
<1>8. FrameAt(u, p) = Sent(f)
  BY <1>1, <1>4, <1>6, <1>7 DEF FrameAt, Sent
<1>9. p + 3 <= Len(u) /\ p \in Places
  <2>1. p + 3 <= m
    BY <1>0, <1>2, FrameFits
  <2> QED
    BY <1>0, <1>2, <2>1 DEF Places
<1>10. ScanFrom(u, TRUE)[p] = <<FrameAt(u, p)>> \o ScanFrom(u, TRUE)[p + 4 + l]
  BY <1>0, <1>2, <1>5, <1>6, <1>9, ScanFrame
<1>12. Sent(f) \in Found
  BY <1>1 DEF Sent, Found
<1> QED
  BY <1>8, <1>10, <1>12

Behind(u, fs, n, c, k) ==
  /\ StartIn(fs, n, c, k) \in Places /\ StartIn(fs, n, c, k + 1) \in Places
  /\ StartIn(fs, n, c, k) <= Len(u) /\ Sent(fs[k]) \in Found
  /\ ScanFrom(u, TRUE)[StartIn(fs, n, c, k)] =
       <<Sent(fs[k])>> \o ScanFrom(u, TRUE)[StartIn(fs, n, c, k + 1)]

LEMMA FrameBehind ==
  ASSUME NEW u, NEW fs, NEW n, NEW c, Remains(u, fs, n, c), Clear(fs),
         NEW k \in 1 .. Len(fs), StartIn(fs, n, c, k) >= 1
  PROVE  Behind(u, fs, n, c, k)
<1>1. /\ u \in Seq(Nat) /\ fs \in Seq(Frames) /\ n \in Nat /\ c \in Nat
      /\ Len(u) + c = n + Len(OnWire(fs))
      /\ \A i \in 1 .. Len(OnWire(fs)) : n + i > c => u[n + i - c] = OnWire(fs)[i]
  BY DEF Remains
<1>2. OnWire(fs) = Pre(fs, Len(fs))
  BY DEF OnWire, Pre
<1>3. fs[k] \in Frames /\ Len(fs[k][2]) \in Nat
  <2>1. fs[k] \in Frames
    BY <1>1
  <2> QED
    BY <2>1, WireFacts
<1>3a. /\ OnWire(fs) \in Seq(Nat) /\ Len(OnWire(fs)) \in Nat
       /\ Len(Pre(fs, k - 1)) \in Nat /\ Len(Pre(fs, k)) \in Nat
       /\ Len(Pre(fs, k)) = Len(Pre(fs, k - 1)) + 4 + Len(fs[k][2])
       /\ Len(Pre(fs, k)) <= Len(OnWire(fs))
       /\ \A j \in 1 .. 4 + Len(fs[k][2]) :
            OnWire(fs)[Len(Pre(fs, k - 1)) + j] = Wire(fs[k])[j]
  <2>1. LaidOut(fs, Len(fs))
    <3>1. Len(fs) \in 0 .. Len(fs)
      BY <1>1
    <3> QED
      BY <1>1, <3>1, AllLaidOut
  <2> QED
    BY <1>2, <2>1 DEF LaidOut
<1>3b. PICK l \in Nat : l = Len(fs[k][2])
  BY <1>3
<1>3c. PICK a \in Nat, b \in Nat : a = Len(Pre(fs, k - 1)) /\ b = Len(Pre(fs, k))
  BY <1>3a
<1>3d. PICK o \in Seq(Nat), m \in Nat, z \in Nat :
         o = OnWire(fs) /\ m = Len(o) /\ z = Len(u)
  <2>1. Len(u) \in Nat
    BY <1>1
  <2> QED
    BY <1>3a, <2>1
<1>4. /\ o = OnWire(fs) /\ a = Len(Pre(fs, k - 1)) /\ b = Len(Pre(fs, k))
      /\ l = Len(fs[k][2]) /\ b = a + 4 + l /\ m = Len(o) /\ b <= m /\ z = Len(u)
      /\ \A j \in 1 .. 4 + l : o[a + j] = Wire(fs[k])[j]
  <2>1. b = a + 4 + l /\ b <= m
    BY <1>3a, <1>3b, <1>3c, <1>3d
  <2>2. \A j \in 1 .. 4 + l : o[a + j] = Wire(fs[k])[j]
    BY <1>3a, <1>3b, <1>3c, <1>3d
  <2> QED
    BY <1>3b, <1>3c, <1>3d, <2>1, <2>2
<1>5. PICK p \in Nat : p = StartIn(fs, n, c, k) /\ p = n + a + 1 - c /\ p >= 1
  <2>1. StartIn(fs, n, c, k) = n + a + 1 - c
    BY <1>4 DEF StartIn
  <2>2. n + a + 1 - c \in Int
    BY <1>1
  <2> QED
    BY <2>1, <2>2
<1>6. n \in Nat /\ c \in Nat /\ z + c = n + m /\ b = a + 4 + l /\ b <= m
  BY <1>1, <1>4
<1>7. p + 3 + l <= z /\ p + 4 + l = n + b + 1 - c
  BY <1>5, <1>6
<1>8. ASSUME NEW j \in 1 .. 4 + l PROVE u[p + j - 1] = Wire(fs[k])[j]
  <2>1. a + j \in 1 .. m /\ n + (a + j) > c /\ n + (a + j) - c = p + j - 1
    BY <1>5, <1>6
  <2>2. u[n + (a + j) - c] = o[a + j]
    BY <1>1, <1>4, <2>1
  <2> QED
    BY <1>4, <2>1, <2>2
<1>9. StartIn(fs, n, c, k + 1) = p + 4 + l
  <2>1. (k + 1) - 1 = k
    OBVIOUS
  <2> QED
    BY <1>4, <1>7, <2>1 DEF StartIn
<1>10. fs[k][1] \in Magics /\ l <= Capacity
  BY <1>4 DEF Clear
<1>11. HasFrame(u, p, fs[k], l)
  BY <1>1, <1>3, <1>4, <1>5, <1>7, <1>8, <1>10 DEF HasFrame
<1>12. /\ ScanFrom(u, TRUE)[p] = <<Sent(fs[k])>> \o ScanFrom(u, TRUE)[p + 4 + l]
       /\ Sent(fs[k]) \in Found
  <2>1. PICK e : e = fs[k]
    OBVIOUS
  <2>2. HasFrame(u, p, e, l)
    BY <1>11, <2>1
  <2>3. /\ ScanFrom(u, TRUE)[p] = <<Sent(e)>> \o ScanFrom(u, TRUE)[p + 4 + l]
        /\ Sent(e) \in Found
    BY <2>2, FrameThereIs
  <2> QED
    BY <2>1, <2>3
<1>13. p \in Places /\ p + 4 + l \in Places /\ p <= z
  BY <1>5, <1>7, SMTT(30) DEF Places
<1> QED
  BY <1>4, <1>5, <1>9, <1>12, <1>13 DEF Behind

LEMMA FirstOfPart ==
  ASSUME NEW S, NEW s \in Seq(S), NEW n \in Nat, n = Len(s), NEW k \in 1 .. n
  PROVE  SubSeq(s, k, n) = <<s[k]>> \o SubSeq(s, k + 1, n)
<1>1. /\ SubSeq(s, k, n) \in Seq(S) /\ Len(SubSeq(s, k, n)) = n - k + 1
      /\ \A i \in 1 .. n - k + 1 : SubSeq(s, k, n)[i] = s[k + i - 1]
  <2>1. k \in Nat /\ k >= 1 /\ n <= Len(s) /\ k <= n + 1
    OBVIOUS
  <2> QED
    BY <2>1, PartFacts
<1>2. PICK y \in Seq(S), m \in Nat :
        /\ m = n - k /\ y = SubSeq(s, k + 1, n) /\ Len(y) = m
        /\ \A i \in 1 .. m : y[i] = s[k + i]
  <2>1. /\ k + 1 \in Nat /\ k + 1 >= 1 /\ n <= Len(s) /\ k + 1 <= n + 1
        /\ n - (k + 1) + 1 = n - k /\ n - k \in Nat
    OBVIOUS
  <2>2. /\ SubSeq(s, k + 1, n) \in Seq(S) /\ Len(SubSeq(s, k + 1, n)) = n - (k + 1) + 1
        /\ \A i \in 1 .. n - (k + 1) + 1 : SubSeq(s, k + 1, n)[i] = s[k + 1 + i - 1]
    BY <2>1, PartFacts
  <2>3. ASSUME NEW i \in 1 .. n - k PROVE SubSeq(s, k + 1, n)[i] = s[k + i]
    <3>1. k + 1 + i - 1 = k + i /\ i \in 1 .. n - (k + 1) + 1
      OBVIOUS
    <3>2. SubSeq(s, k + 1, n)[i] = s[k + 1 + i - 1]
      BY <2>2, <3>1
    <3> QED
      BY <3>1, <3>2
  <2>4. Len(SubSeq(s, k + 1, n)) = n - k
    BY <2>1, <2>2
  <2> QED
    BY <2>1, <2>2, <2>3, <2>4
<1>3. PICK z \in Seq(S) :
        /\ z = <<s[k]>> \o y /\ Len(z) = m + 1
        /\ z[1] = s[k] /\ \A i \in 1 .. m : z[1 + i] = y[i]
  <2>1. s[k] \in S /\ <<s[k]>> \in Seq(S)
    OBVIOUS
  <2>2. <<s[k]>> \o y \in Seq(S)
    BY <2>1
  <2>3. /\ Len(<<s[k]>> \o y) = m + 1 /\ (<<s[k]>> \o y)[1] = s[k]
        /\ \A i \in 1 .. m : (<<s[k]>> \o y)[1 + i] = y[i]
    BY <1>2, <2>1
  <2> QED
    BY <2>2, <2>3
<1>4. ASSUME NEW i \in 1 .. m + 1 PROVE z[i] = s[k + i - 1]
  <2>1. CASE i = 1
    BY <1>3, <2>1
  <2>2. CASE i # 1
    <3>1. i - 1 \in 1 .. m /\ 1 + (i - 1) = i /\ k + (i - 1) = k + i - 1
      BY <2>2
    <3> QED
      BY <1>2, <1>3, <3>1
  <2> QED
    BY <2>1, <2>2
<1>5. n - k + 1 = m + 1 /\ m + 1 \in Nat
  BY <1>2
<1>6. SubSeq(s, k, n) = z
  <2>1. SubSeq(s, k, n) \in Seq(S) /\ Len(SubSeq(s, k, n)) = m + 1 /\ Len(z) = m + 1
    BY <1>1, <1>3, <1>5
  <2>2. ASSUME NEW i \in 1 .. m + 1 PROVE SubSeq(s, k, n)[i] = z[i]
    BY <1>1, <1>4, <1>5
  <2> QED
    BY <1>5, <2>1, <2>2, SameSeq
<1> QED
  BY <1>2, <1>3, <1>6

SentAll(fs) == [i \in 1 .. Len(fs) |-> Sent(fs[i])]

LEMMA SentTyped ==
  ASSUME NEW fs \in Seq(Frames)
  PROVE  /\ SentAll(fs) \in Seq(Found) /\ Len(SentAll(fs)) = Len(fs) /\ Len(fs) \in Nat
         /\ \A i \in 1 .. Len(fs) : SentAll(fs)[i] = Sent(fs[i])
<1>1. \A i \in 1 .. Len(fs) : fs[i] \in Frames
  OBVIOUS
<1>2. \A f \in Frames : Sent(f) \in Found
  BY DEF Frames, Sent, Found
<1>3. SentAll(fs) \in [1 .. Len(fs) -> Found]
  BY <1>1, <1>2 DEF SentAll
<1>4. Len(fs) \in Nat
  OBVIOUS
<1> QED
  BY <1>3, <1>4 DEF SentAll

LEMMA LastStart ==
  ASSUME NEW u, NEW fs, NEW n, NEW c, Remains(u, fs, n, c)
  PROVE  StartIn(fs, n, c, Len(fs) + 1) = Len(u) + 1
<1>1. /\ u \in Seq(Nat) /\ fs \in Seq(Frames) /\ n \in Nat /\ c \in Nat
      /\ Len(u) + c = n + Len(OnWire(fs))
  BY DEF Remains
<1>2. (Len(fs) + 1) - 1 = Len(fs) /\ Len(u) \in Nat /\ Len(fs) \in 0 .. Len(fs)
  BY <1>1
<1>3. Len(Pre(fs, Len(fs))) \in Nat
  BY <1>1, <1>2, AllLaidOut DEF LaidOut
<1>4. OnWire(fs) = Pre(fs, Len(fs))
  BY DEF OnWire, Pre
<1>5. PICK z \in Nat, m \in Nat : z = Len(u) /\ m = Len(Pre(fs, Len(fs))) /\ z + c = n + m
  BY <1>1, <1>2, <1>3, <1>4
<1>6. n + m + 1 - c = z + 1
  <2>1. n \in Nat /\ c \in Nat /\ z + c = n + m
    BY <1>1, <1>5
  <2> QED
    BY <2>1
<1> QED
  BY <1>2, <1>5, <1>6 DEF StartIn

(* Behind a frame that starts in what is left, every frame is found.        *)
LEMMA RestFound ==
  ASSUME NEW u, NEW fs, NEW n, NEW c, Remains(u, fs, n, c), Clear(fs),
         NEW k \in 1 .. Len(fs) + 1, StartIn(fs, n, c, k) >= 1
  PROVE  ScanFrom(u, TRUE)[StartIn(fs, n, c, k)] = SubSeq(SentAll(fs), k, Len(fs))
<1> DEFINE Right(i) ==
             i \in 1 .. Len(fs) + 1 /\ StartIn(fs, n, c, i) >= 1 =>
               ScanFrom(u, TRUE)[StartIn(fs, n, c, i)] = SubSeq(SentAll(fs), i, Len(fs))
           T == {d \in Nat : Right(Len(fs) + 1 - d)}
<1>1. u \in Seq(Nat) /\ fs \in Seq(Frames) /\ Len(fs) \in Nat /\ Len(u) \in Nat
  BY DEF Remains
<1>2. Right(Len(fs) + 1)
  <2>1. Len(u) + 1 \in Places /\ Len(u) + 1 > Len(u)
    BY <1>1 DEF Places
  <2>2. ScanFrom(u, TRUE)[Len(u) + 1] = <<>>
    BY <1>1, <2>1, ScanUnfolds
  <2>3. SubSeq(SentAll(fs), Len(fs) + 1, Len(fs)) = <<>>
    BY <1>1
  <2> QED
    BY <2>2, <2>3, LastStart
<1>3. ASSUME NEW i \in 1 .. Len(fs), Right(i + 1) PROVE Right(i)
  <2> SUFFICES ASSUME StartIn(fs, n, c, i) >= 1
               PROVE  ScanFrom(u, TRUE)[StartIn(fs, n, c, i)] = SubSeq(SentAll(fs), i, Len(fs))
    OBVIOUS
  <2>1. Behind(u, fs, n, c, i)
    BY FrameBehind
  <2>2. StartIn(fs, n, c, i + 1) >= 1 /\ i + 1 \in 1 .. Len(fs) + 1
    BY <1>1, <2>1 DEF Behind, Places
  <2>3. ScanFrom(u, TRUE)[StartIn(fs, n, c, i + 1)] = SubSeq(SentAll(fs), i + 1, Len(fs))
    BY <1>3, <2>2
  <2>4. SubSeq(SentAll(fs), i, Len(fs)) =
          <<SentAll(fs)[i]>> \o SubSeq(SentAll(fs), i + 1, Len(fs))
    BY <1>1, SentTyped, FirstOfPart
  <2>5. SentAll(fs)[i] = Sent(fs[i])
    BY <1>1, SentTyped
  <2> QED
    BY <2>1, <2>3, <2>4, <2>5 DEF Behind
<1>4. 0 \in T
  <2>1. Len(fs) + 1 - 0 = Len(fs) + 1
    BY <1>1
  <2> HIDE DEF Right
  <2> QED
    BY <1>2, <2>1
<1>5. ASSUME NEW d \in T PROVE d + 1 \in T
  <2>1. d \in Nat /\ Right(Len(fs) + 1 - d)
    OBVIOUS
  <2>2. CASE d < Len(fs)
    <3>1. /\ Len(fs) - d \in 1 .. Len(fs) /\ (Len(fs) - d) + 1 = Len(fs) + 1 - d
          /\ Len(fs) + 1 - (d + 1) = Len(fs) - d
      BY <1>1, <2>1, <2>2
    <3> HIDE DEF Right
    <3>2. Right(Len(fs) - d)
      BY <1>3, <2>1, <3>1
    <3> QED
      BY <2>1, <3>1, <3>2
  <2>3. CASE ~(d < Len(fs))
    <3>1. Len(fs) + 1 - (d + 1) \notin 1 .. Len(fs) + 1
      BY <1>1, <2>1, <2>3
    <3>2. Right(Len(fs) + 1 - (d + 1)) /\ d + 1 \in Nat
      <4>1. PICK v : v = Len(fs) + 1 - (d + 1)
        OBVIOUS
      <4>2. v \notin 1 .. Len(fs) + 1
        BY <3>1, <4>1
      <4>3. Right(v)
        BY <4>2
      <4> HIDE DEF Right
      <4> QED
        BY <2>1, <4>1, <4>3
    <3> HIDE DEF Right
    <3> QED
      BY <3>2
  <2> QED
    BY <2>2, <2>3
<1>6. T = Nat
  <2>1. T \in SUBSET Nat
    OBVIOUS
  <2> HIDE DEF T
  <2> QED
    BY <1>4, <1>5, <2>1, Induct
<1>7. Len(fs) + 1 - k \in Nat /\ Len(fs) + 1 - (Len(fs) + 1 - k) = k
  BY <1>1
<1>8. Right(k)
  <2> HIDE DEF Right
  <2> QED
    BY <1>6, <1>7
<1> QED
  BY <1>8

LEMMA StartsInOrder ==
  ASSUME NEW u, NEW fs, NEW n, NEW c, Remains(u, fs, n, c),
         NEW j \in 1 .. Len(fs), NEW k \in 1 .. Len(fs),
         StartIn(fs, n, c, j) < StartIn(fs, n, c, k)
  PROVE  StartIn(fs, n, c, j + 1) <= StartIn(fs, n, c, k)
<1>1. fs \in Seq(Frames) /\ n \in Nat /\ c \in Nat /\ Len(fs) \in Nat
  BY DEF Remains
<1>2. ASSUME NEW v \in 1 .. Len(fs), NEW w \in 1 .. Len(fs), v < w
      PROVE  Len(Pre(fs, v)) <= Len(Pre(fs, w - 1))
  <2>1. w - 1 \in 0 .. Len(fs) /\ v \in 1 .. w - 1
    BY <1>1, <1>2
  <2>2. LaidOut(fs, w - 1)
    BY <1>1, <2>1, AllLaidOut
  <2> QED
    BY <2>1, <2>2 DEF LaidOut
<1>3. ASSUME NEW v \in 1 .. Len(fs)
      PROVE  /\ Len(Pre(fs, v - 1)) \in Nat /\ Len(Pre(fs, v)) \in Nat
             /\ Len(Pre(fs, v - 1)) <= Len(Pre(fs, v))
  <2>1. Len(fs) \in 0 .. Len(fs) /\ fs[v] \in Frames
    BY <1>1
  <2>2. Len(fs[v][2]) \in Nat
    BY <2>1, WireFacts
  <2>3. LaidOut(fs, Len(fs))
    BY <1>1, <2>1, AllLaidOut
  <2>4. /\ Len(Pre(fs, v - 1)) \in Nat /\ Len(Pre(fs, v)) \in Nat
        /\ Len(Pre(fs, v)) = Len(Pre(fs, v - 1)) + 4 + Len(fs[v][2])
    BY <2>3 DEF LaidOut
  <2>5. PICK a \in Nat, b \in Nat, l \in Nat :
          a = Len(Pre(fs, v - 1)) /\ b = Len(Pre(fs, v)) /\ b = a + 4 + l
    BY <2>2, <2>4
  <2>6. a <= b
    BY <2>5
  <2> QED
    BY <2>5, <2>6
<1>4. PICK a \in Nat, b \in Nat, e \in Nat, f \in Nat :
        /\ a = Len(Pre(fs, j - 1)) /\ b = Len(Pre(fs, j))
        /\ e = Len(Pre(fs, k - 1)) /\ f = Len(Pre(fs, k)) /\ a <= b /\ e <= f
  BY <1>3
<1>5. (j + 1) - 1 = j
  OBVIOUS
<1>6. /\ StartIn(fs, n, c, j) = n + a + 1 - c /\ StartIn(fs, n, c, j + 1) = n + b + 1 - c
      /\ StartIn(fs, n, c, k) = n + e + 1 - c
  BY <1>4, <1>5 DEF StartIn
<1>7. a < e
  BY <1>1, <1>6
<1>8. j < k
  <2>1. CASE j = k
    BY <1>4, <1>7, <2>1
  <2>2. CASE k < j
    <3>1. f <= a
      BY <1>2, <1>4, <2>2
    <3> QED
      BY <1>4, <1>7, <3>1
  <2> QED
    BY <2>1, <2>2
<1>9. b <= e
  BY <1>2, <1>4, <1>8
<1> QED
  BY <1>1, <1>6, <1>9

(* The reader goes on at t: it has found nothing, or one frame.             *)
GoesOnAt(u, q, t) ==
  \E x \in Seq(Found) : ScanFrom(u, TRUE)[q] = x \o ScanFrom(u, TRUE)[t]

LEMMA GoesOnSame ==
  ASSUME NEW u \in Seq(Nat), NEW q, NEW t \in Places,
         ScanFrom(u, TRUE)[q] = ScanFrom(u, TRUE)[t]
  PROVE  GoesOnAt(u, q, t)
<1>1. ScanFrom(u, TRUE)[t] \in Seq(Found)
  BY ScanUnfolds
<1>2. <<>> \o ScanFrom(u, TRUE)[t] = ScanFrom(u, TRUE)[t] /\ <<>> \in Seq(Found)
  BY <1>1, NothingJoins
<1> QED
  BY <1>2 DEF GoesOnAt

LEMMA GoesOnFrame ==
  ASSUME NEW u, NEW q, NEW t, NEW e \in Found,
         ScanFrom(u, TRUE)[q] = <<e>> \o ScanFrom(u, TRUE)[t]
  PROVE  GoesOnAt(u, q, t)
<1>1. <<e>> \in Seq(Found)
  OBVIOUS
<1> QED
  BY <1>1 DEF GoesOnAt

(* A magic behind the stray bytes begins a frame.                           *)
LEMMA MagicOfFrame ==
  ASSUME NEW u, NEW fs, NEW n, NEW c, Remains(u, fs, n, c), Clear(fs),
         NEW q \in Nat, q >= 1, q + c > n, AtMagic(u, q)
  PROVE  \E j \in 1 .. Len(fs) : q = StartIn(fs, n, c, j)
<1>1. /\ u \in Seq(Nat) /\ fs \in Seq(Frames) /\ n \in Nat /\ c \in Nat
      /\ Len(u) + c = n + Len(OnWire(fs))
      /\ \A i \in 1 .. Len(OnWire(fs)) : n + i > c => u[n + i - c] = OnWire(fs)[i]
  BY DEF Remains
<1>2. q < Len(u) /\ <<u[q], u[q + 1]>> \in Magics
  BY DEF AtMagic
<1>3. PICK z \in Nat, m \in Nat : z = Len(u) /\ m = Len(OnWire(fs)) /\ z + c = n + m
  <2>1. Len(u) \in Nat /\ OnWire(fs) \in Seq(Nat)
    <3>1. Len(fs) \in 0 .. Len(fs)
      BY <1>1
    <3>2. OnWire(fs) = Pre(fs, Len(fs))
      BY DEF OnWire, Pre
    <3> QED
      <4>1. LaidOut(fs, Len(fs))
        BY <1>1, <3>1, AllLaidOut
      <4>2. OnWire(fs) \in Seq(Nat)
        BY <3>2, <4>1 DEF LaidOut
      <4> QED
        BY <1>1, <4>2
  <2>2. Len(OnWire(fs)) \in Nat
    BY <2>1
  <2> QED
    BY <1>1, <2>1, <2>2
<1>4. PICK i \in Nat : i = q + c - n /\ i >= 1 /\ i < m
  BY <1>1, <1>2, <1>3
<1>5. n + i > c /\ n + i - c = q /\ n + (i + 1) > c /\ n + (i + 1) - c = q + 1
  <2>1. n \in Nat /\ c \in Nat /\ i = q + c - n
    BY <1>1, <1>4
  <2> QED
    BY <2>1
<1>6. u[q] = OnWire(fs)[i] /\ u[q + 1] = OnWire(fs)[i + 1]
  <2>1. i \in 1 .. m /\ i + 1 \in 1 .. m
    BY <1>4
  <2>2. u[n + i - c] = OnWire(fs)[i] /\ u[n + (i + 1) - c] = OnWire(fs)[i + 1]
    BY <1>1, <1>3, <1>5, <2>1
  <2> QED
    BY <1>5, <2>2
<1>7. AtMagic(OnWire(fs), i) /\ i \in 1 .. Len(OnWire(fs))
  BY <1>2, <1>3, <1>4, <1>6 DEF AtMagic
<1>8. PICK j \in 1 .. Len(fs) : i = Before(fs, j) + 1
  BY <1>7 DEF Clear
<1>9. Before(fs, j) = Len(Pre(fs, j - 1))
  BY DEF Before, Pre
<1>10. StartIn(fs, n, c, j) = n + Before(fs, j) + 1 - c
  BY <1>9 DEF StartIn
<1>11. Before(fs, j) = i - 1
  <2>1. Before(fs, j) \in Nat
    <3>1. LaidOut(fs, Len(fs))
      <4>1. Len(fs) \in 0 .. Len(fs)
        BY <1>1
      <4> QED
        BY <1>1, <4>1, AllLaidOut
    <3> QED
      BY <1>9, <3>1 DEF LaidOut
  <2> QED
    BY <1>8, <2>1
<1>12. q = n + (i - 1) + 1 - c
  BY <1>1, <1>4
<1> QED
  BY <1>10, <1>11, <1>12

LEMMA HeaderCounts ==
  ASSUME NEW b \in Nat, NEW l \in Nat, NEW e, e = b + 4 + l
  PROVE  /\ e \in Nat /\ e >= 4 /\ b + 4 <= e
         /\ \A w \in Nat : e <= w => b + 4 <= w
OBVIOUS

(* What of a frame falls behind the bytes of a magic among the stray ones.  *)
LEMMA FirstFrame ==
  ASSUME NEW u, NEW fs, NEW n, NEW c, Remains(u, fs, n, c), Clear(fs), c < n,
         NEW k \in 1 .. Len(fs), Len(Pre(fs, k - 1)) >= Capacity
  PROVE  /\ Len(Pre(fs, k - 1)) \in Nat /\ Len(Pre(fs, k - 1)) >= 4
         /\ n + Len(Pre(fs, k - 1)) + 4 <= Len(u) + c
         /\ fs[1][1] \in Magics /\ u[n + 1 - c] = fs[1][1][1] /\ u[n + 2 - c] = fs[1][1][2]
<1>1. /\ u \in Seq(Nat) /\ fs \in Seq(Frames) /\ n \in Nat /\ c \in Nat
      /\ Len(u) + c = n + Len(OnWire(fs))
      /\ \A i \in 1 .. Len(OnWire(fs)) : n + i > c => u[n + i - c] = OnWire(fs)[i]
  BY DEF Remains
<1>2. LaidOut(fs, Len(fs)) /\ LaidOut(fs, k - 1) /\ OnWire(fs) = Pre(fs, Len(fs))
  <2>1. Len(fs) \in 0 .. Len(fs) /\ k - 1 \in 0 .. Len(fs)
    BY <1>1
  <2> QED
    BY <1>1, <2>1, AllLaidOut DEF OnWire, Pre
<1>3. PICK a \in Nat, m \in Nat, z \in Nat :
        /\ a = Len(Pre(fs, k - 1)) /\ m = Len(OnWire(fs)) /\ z = Len(u)
        /\ a + 4 <= m /\ z + c = n + m
  <2>1. fs[k] \in Frames /\ Len(u) \in Nat
    BY <1>1
  <2>2. Len(fs[k][2]) \in Nat
    BY <2>1, WireFacts
  <2>3. /\ Len(Pre(fs, k - 1)) \in Nat /\ Len(Pre(fs, k)) \in Nat /\ Len(OnWire(fs)) \in Nat
        /\ Len(Pre(fs, k)) = Len(Pre(fs, k - 1)) + 4 + Len(fs[k][2])
        /\ Len(Pre(fs, k)) <= Len(OnWire(fs))
    BY <1>2 DEF LaidOut
  <2>4. Len(Pre(fs, k - 1)) + 4 <= Len(OnWire(fs))
    <3>1. PICK b \in Nat, e \in Nat, w \in Nat, l \in Nat :
            /\ b = Len(Pre(fs, k - 1)) /\ e = Len(Pre(fs, k)) /\ w = Len(OnWire(fs))
            /\ l = Len(fs[k][2]) /\ e = b + 4 + l /\ e <= w
      BY <2>2, <2>3
    <3>2. b + 4 <= w
      BY <3>1, HeaderCounts
    <3> QED
      BY <3>1, <3>2
  <2> QED
    BY <1>1, <2>1, <2>3, <2>4
<1>4. k # 1
  <2>1. Len(Pre(fs, 0)) = 0
    BY <1>2 DEF LaidOut
  <2>2. 1 - 1 = 0 /\ ~(0 >= Capacity)
    BY ReaderAssumption
  <2> QED
    BY <2>1, <2>2
<1>5. a >= 4
  <2>1. 1 \in 1 .. k - 1 /\ fs[1] \in Frames
    BY <1>1, <1>4
  <2>2. /\ Len(Pre(fs, 1 - 1)) \in Nat /\ Len(Pre(fs, 1)) \in Nat
        /\ Len(Pre(fs, 1)) = Len(Pre(fs, 1 - 1)) + 4 + Len(fs[1][2])
        /\ Len(Pre(fs, 1)) <= Len(Pre(fs, k - 1))
    BY <1>2, <2>1 DEF LaidOut
  <2>3. Len(fs[1][2]) \in Nat
    BY <2>1, WireFacts
  <2>4. Len(Pre(fs, 1)) >= 4
    <3>1. PICK b \in Nat, l \in Nat, e \in Nat :
            /\ b = Len(Pre(fs, 1 - 1)) /\ l = Len(fs[1][2]) /\ e = Len(Pre(fs, 1))
            /\ e = b + 4 + l
      BY <2>2, <2>3
    <3>2. e >= 4
      <4>1. e = b + 4 + l
        BY <3>1
      <4> QED
        BY <4>1, HeaderCounts
    <3> QED
      BY <3>1, <3>2
  <2> QED
    BY <1>3, <2>2, <2>4
<1>6. OnWire(fs)[1] = fs[1][1][1] /\ OnWire(fs)[2] = fs[1][1][2]
  <2>1. 1 \in 1 .. Len(fs) /\ fs[1] \in Frames
    BY <1>1
  <2>2. Len(fs[1][2]) \in Nat /\ Wire(fs[1])[1] = fs[1][1][1] /\ Wire(fs[1])[2] = fs[1][1][2]
    BY <2>1, WireFacts
  <2>3. 1 \in 1 .. 4 + Len(fs[1][2]) /\ 2 \in 1 .. 4 + Len(fs[1][2])
    BY <2>2
  <2>4. Len(Pre(fs, 1 - 1)) = 0
    <3>1. 1 - 1 = 0
      OBVIOUS
    <3> QED
      BY <1>2, <3>1 DEF LaidOut
  <2>5. /\ OnWire(fs)[Len(Pre(fs, 1 - 1)) + 1] = Wire(fs[1])[1]
        /\ OnWire(fs)[Len(Pre(fs, 1 - 1)) + 2] = Wire(fs[1])[2]
    <3>1. \A j \in 1 .. 4 + Len(fs[1][2]) :
            Pre(fs, Len(fs))[Len(Pre(fs, 1 - 1)) + j] = Wire(fs[1])[j]
      BY <1>2, <2>1 DEF LaidOut
    <3> QED
      BY <1>2, <2>3, <3>1
  <2>6. 0 + 1 = 1 /\ 0 + 2 = 2
    OBVIOUS
  <2> QED
    BY <2>2, <2>4, <2>5, <2>6
<1>7. u[n + 1 - c] = OnWire(fs)[1] /\ u[n + 2 - c] = OnWire(fs)[2]
  <2>1. 1 \in 1 .. m /\ 2 \in 1 .. m
    BY <1>3, <1>5
  <2>2. n + 1 > c /\ n + 2 > c
    BY <1>1
  <2> QED
    BY <1>1, <1>3, <2>1, <2>2
<1>8. fs[1][1] \in Magics
  <2>1. 1 \in 1 .. Len(fs)
    BY <1>1
  <2> QED
    BY <2>1 DEF Clear
<1>9. n + a + 4 <= z + c
  BY <1>1, <1>3
<1> QED
  BY <1>3, <1>5, <1>6, <1>7, <1>8, <1>9

(* A length with a byte of a magic at its high end does not fit.            *)
LEMMA MagicIsLong ==
  ASSUME MagicsApart, NEW m \in Magics, NEW low \in Nat, NEW high,
         high = m[1] \/ high = m[2]
  PROVE  low + 256 * high > Capacity
<1>1. m[1] \in Nat /\ m[2] \in Nat /\ Capacity \in Nat
  BY ReaderAssumption
<1>2. 256 * m[1] > Capacity /\ 256 * m[2] > Capacity
  BY DEF MagicsApart
<1>3. PICK b \in Nat : b = high /\ 256 * b > Capacity
  BY <1>1, <1>2
<1> QED
  BY <1>1, <1>3

LEMMA Farther ==
  ASSUME NEW p \in Nat, NEW q \in Nat, q < p, q + 1 # p, q + 2 # p, q + 3 # p
  PROVE  q + 3 < p
OBVIOUS

(* A header among the stray bytes that fits lies within them.               *)
LEMMA HeaderInNoise ==
  ASSUME MagicsApart, NEW u \in Seq(Nat), NEW p \in Nat, NEW q \in Nat, NEW m \in Magics,
         AtMagic(u, q), q >= 1, q < p, p + 1 <= Len(u), q + 3 <= Len(u),
         u[p] = m[1], u[p + 1] = m[2], LengthAt(u, q) <= Capacity
  PROVE  q + 3 < p
<1>1. LengthAt(u, q) = u[q + 2] + 256 * u[q + 3]
  BY DEF LengthAt
<1>2. u[q + 2] \in Nat
  <2>1. q + 2 \in 1 .. Len(u)
    OBVIOUS
  <2> QED
    BY <2>1, Elements
<1>3. q + 1 # p
  <2> SUFFICES ASSUME q + 1 = p PROVE FALSE
    OBVIOUS
  <2>1. <<u[q], m[1]>> \in Magics
    BY DEF AtMagic
  <2>2. <<u[q], m[1]>>[2] = m[1]
    OBVIOUS
  <2> QED
    BY <2>1, <2>2, SMTT(30) DEF MagicsApart
<1>4. LengthAt(u, q) \in Nat /\ Capacity \in Nat
  <2>1. q \in Places
    BY DEF Places
  <2> QED
    BY <2>1, FrameAtTyped, ReaderAssumption
<1>5. ~(u[q + 2] + 256 * u[q + 3] > Capacity)
  BY <1>1, <1>4
<1>6. q + 2 # p
  <2> SUFFICES ASSUME q + 2 = p PROVE FALSE
    OBVIOUS
  <2>1. u[q + 3] = m[2]
    <3>1. q + 3 = p + 1
      OBVIOUS
    <3> QED
      BY <3>1
  <2>2. u[q + 2] + 256 * u[q + 3] > Capacity
    BY <1>2, <2>1, MagicIsLong, SMTT(30)
  <2> QED
    BY <1>5, <2>2
<1>7. q + 3 # p
  <2> SUFFICES ASSUME q + 3 = p PROVE FALSE
    OBVIOUS
  <2>1. u[q + 3] = m[1]
    OBVIOUS
  <2>2. u[q + 2] + 256 * u[q + 3] > Capacity
    BY <1>2, <2>1, MagicIsLong, SMTT(30)
  <2> QED
    BY <1>5, <2>2
<1> QED
  BY <1>3, <1>6, <1>7, Farther

LEMMA FrameEndsBefore ==
  ASSUME NEW p \in Nat, NEW q \in Nat, NEW l \in Nat, NEW a \in Nat, NEW z \in Nat,
         q + 3 < p, l <= a, p + a + 3 <= z
  PROVE  q + 3 + l <= z /\ q + 4 + l <= p + a /\ q < q + 4 + l
OBVIOUS

LEMMA MagicInNoise ==
  ASSUME NEW u, NEW fs, NEW n, NEW c, Remains(u, fs, n, c), Clear(fs), MagicsApart,
         NEW k \in 1 .. Len(fs), Len(Pre(fs, k - 1)) >= Capacity,
         NEW q \in Nat, q >= 1, q + c <= n, AtMagic(u, q)
  PROVE  \E t \in Places : q < t /\ t <= StartIn(fs, n, c, k) /\ GoesOnAt(u, q, t)
<1>1. u \in Seq(Nat) /\ n \in Nat /\ c \in Nat /\ Len(u) \in Nat /\ Capacity \in Nat
  BY ReaderAssumption DEF Remains
<1>2. c < n
  BY <1>1
<1>3. PICK a \in Nat, z \in Nat, p \in Nat :
        /\ a = Len(Pre(fs, k - 1)) /\ z = Len(u) /\ p = n + 1 - c
        /\ a >= 4 /\ a >= Capacity /\ n + a + 4 <= z + c
  <2>1. n + 1 - c \in Nat
    BY <1>1, <1>2
  <2> QED
    BY <1>1, <1>2, <2>1, FirstFrame
<1>4. fs[1][1] \in Magics /\ u[p] = fs[1][1][1] /\ u[p + 1] = fs[1][1][2]
  <2>1. n + 2 - c = p + 1
    BY <1>1, <1>3
  <2> QED
    BY <1>2, <1>3, <2>1, FirstFrame, SMTT(30)
<1>5. q < p /\ p + 1 <= z /\ q + 3 <= z /\ p + a + 3 <= z
  BY <1>1, <1>3, SMTT(30)
<1>6. StartIn(fs, n, c, k) = p + a
  BY <1>1, <1>3 DEF StartIn
<1>7. q \in Places /\ q + 4 \in Places
  BY DEF Places
<1>8. PICK l \in Nat : l = LengthAt(u, q)
  BY <1>1, <1>3, <1>5, <1>7, FrameAtTyped
<1>9. CASE l > Capacity
  <2>1. ScanFrom(u, TRUE)[q] = ScanFrom(u, TRUE)[q + 4]
    BY <1>1, <1>3, <1>5, <1>7, <1>8, <1>9, ScanUnfolds
  <2>2. GoesOnAt(u, q, q + 4)
    BY <1>1, <1>7, <2>1, GoesOnSame
  <2>3. q < q + 4 /\ q + 4 <= p + a
    BY <1>3, <1>5, SMTT(30)
  <2> QED
    BY <1>6, <1>7, <2>2, <2>3
<1>10. CASE l <= Capacity
  <2>1. q + 3 < p
    BY <1>1, <1>3, <1>4, <1>5, <1>8, <1>10, HeaderInNoise
  <2>2. q + 3 + l <= z /\ q + 4 + l <= p + a /\ q < q + 4 + l
    <3>1. l <= a /\ p + a + 3 <= z
      BY <1>1, <1>3, <1>5, <1>10
    <3> QED
      BY <2>1, <3>1, FrameEndsBefore
  <2>3. q + 4 + l \in Places
    BY DEF Places
  <2>4. ScanFrom(u, TRUE)[q] = <<FrameAt(u, q)>> \o ScanFrom(u, TRUE)[q + 4 + l]
    BY <1>1, <1>3, <1>5, <1>7, <1>8, <1>10, <2>2, ScanFrame, ZenonT(60)
  <2>5. FrameAt(u, q) \in Found
    BY <1>1, <1>3, <1>5, <1>7, <1>8, <2>2, FrameAtTyped
  <2>6. GoesOnAt(u, q, q + 4 + l)
    BY <2>4, <2>5, GoesOnFrame
  <2> QED
    BY <1>6, <2>2, <2>3, <2>6
<1> QED
  BY <1>1, <1>9, <1>10

(* From every place before a frame that is due the reader comes closer to   *)
(* it, and never goes past it.                                              *)
LEMMA ComesCloser ==
  ASSUME NEW u, NEW fs, NEW n, NEW c, Remains(u, fs, n, c), Clear(fs), MagicsApart,
         NEW k \in 1 .. Len(fs), c < n => Len(Pre(fs, k - 1)) >= Capacity,
         NEW q \in Nat, q >= 1, q < StartIn(fs, n, c, k)
  PROVE  \E t \in Places : q < t /\ t <= StartIn(fs, n, c, k) /\ GoesOnAt(u, q, t)
<1>1. u \in Seq(Nat) /\ n \in Nat /\ c \in Nat /\ Len(u) \in Nat
  BY DEF Remains
<1>2. Behind(u, fs, n, c, k)
  <2>1. StartIn(fs, n, c, k) \in Int
    <3>1. Len(Pre(fs, k - 1)) \in Nat
      <4>1. fs \in Seq(Frames) /\ Len(fs) \in 0 .. Len(fs)
        BY DEF Remains
      <4>2. LaidOut(fs, Len(fs))
        BY <4>1, AllLaidOut
      <4> QED
        BY <4>2 DEF LaidOut
    <3> QED
      BY <1>1, <3>1 DEF StartIn
  <2>2. StartIn(fs, n, c, k) >= 1
    BY <2>1
  <2> QED
    BY <2>2, FrameBehind
<1>3. PICK s \in Nat, z \in Nat : s = StartIn(fs, n, c, k) /\ z = Len(u) /\ s <= z /\ q < s
  BY <1>1, <1>2 DEF Behind, Places
<1>4. CASE ~AtMagic(u, q)
  <2>1. q \in Places /\ q + 1 \in Places
    BY DEF Places
  <2>2. ScanFrom(u, TRUE)[q] = ScanFrom(u, TRUE)[q + 1]
    <3>1. q <= z
      BY <1>3
    <3> QED
      BY <1>1, <1>3, <1>4, <2>1, <3>1, ScanUnfolds
  <2>3. GoesOnAt(u, q, q + 1)
    BY <1>1, <2>1, <2>2, GoesOnSame
  <2>4. q < q + 1 /\ q + 1 <= s
    BY <1>3
  <2> QED
    BY <1>3, <2>1, <2>3, <2>4
<1>5. CASE AtMagic(u, q) /\ q + c <= n
  <2>1. c < n
    BY <1>1, <1>5
  <2> QED
    BY <1>5, <2>1, MagicInNoise
<1>6. CASE AtMagic(u, q) /\ q + c > n
  <2>1. PICK j \in 1 .. Len(fs) : q = StartIn(fs, n, c, j)
    BY <1>6, MagicOfFrame
  <2>2. StartIn(fs, n, c, j) >= 1 /\ StartIn(fs, n, c, j) < StartIn(fs, n, c, k)
    BY <2>1
  <2>3. Behind(u, fs, n, c, j)
    BY <2>2, FrameBehind
  <2>4. StartIn(fs, n, c, j + 1) <= s
    BY <1>3, <2>2, StartsInOrder
  <2>5. GoesOnAt(u, q, StartIn(fs, n, c, j + 1))
    BY <2>1, <2>3, GoesOnFrame DEF Behind
  <2>6. q < StartIn(fs, n, c, j + 1)
    <3>1. fs \in Seq(Frames) /\ Len(fs) \in 0 .. Len(fs)
      BY DEF Remains
    <3>2. LaidOut(fs, Len(fs)) /\ fs[j] \in Frames
      BY <3>1, AllLaidOut
    <3>3. PICK a \in Nat, b \in Nat, l \in Nat :
            a = Len(Pre(fs, j - 1)) /\ b = Len(Pre(fs, j)) /\ b = a + 4 + l
      <4>1. Len(fs[j][2]) \in Nat
        BY <3>2, WireFacts
      <4>2. /\ Len(Pre(fs, j - 1)) \in Nat /\ Len(Pre(fs, j)) \in Nat
            /\ Len(Pre(fs, j)) = Len(Pre(fs, j - 1)) + 4 + Len(fs[j][2])
        BY <3>2 DEF LaidOut
      <4> QED
        BY <4>1, <4>2
    <3>4. StartIn(fs, n, c, j) = n + a + 1 - c /\ StartIn(fs, n, c, j + 1) = n + b + 1 - c
      <4>1. (j + 1) - 1 = j
        OBVIOUS
      <4> QED
        BY <3>3, <4>1 DEF StartIn
    <3>5. n + a + 1 - c < n + b + 1 - c
      BY <1>1, <3>3
    <3> QED
      BY <2>1, <3>4, <3>5
  <2>7. StartIn(fs, n, c, j + 1) \in Places
    BY <2>3 DEF Behind
  <2> QED
    BY <1>3, <2>4, <2>5, <2>6, <2>7
<1>7. q + c <= n \/ q + c > n
  BY <1>1
<1> QED
  BY <1>4, <1>5, <1>6, <1>7

Ends(r, y) == r \in Seq(Found) /\ \E x \in Seq(Found) : y = x \o r

LEMMA EndsMore ==
  ASSUME NEW r, NEW y, NEW x \in Seq(Found), Ends(r, y)
  PROVE  Ends(r, x \o y)
<1>1. PICK v \in Seq(Found) : r \in Seq(Found) /\ y = v \o r
  BY DEF Ends
<1>2. Associates(x, v, r)
  BY <1>1, JoinAssociates
<1>3. x \o y = (x \o v) \o r
  BY <1>1, <1>2 DEF Associates
<1>4. x \o v \in Seq(Found)
  BY JoinTyped
<1> QED
  BY <1>1, <1>3, <1>4 DEF Ends

LEMMA Recovers ==
  ASSUME NEW u, NEW fs, NEW n, NEW c, Remains(u, fs, n, c), Clear(fs), MagicsApart,
         NEW k \in 1 .. Len(fs), c < n => Len(Pre(fs, k - 1)) >= Capacity,
         NEW s \in Places, s = StartIn(fs, n, c, k)
  PROVE  Ends(ScanFrom(u, TRUE)[s], ScanFrom(u, TRUE)[1])
<1> DEFINE B == {d \in Nat : d < s /\ ~Ends(ScanFrom(u, TRUE)[s], ScanFrom(u, TRUE)[s - d])}
<1>1. s \in Nat /\ s >= 1 /\ u \in Seq(Nat)
  BY DEF Places, Remains
<1>2. B = {}
  <2> SUFFICES ASSUME B # {} PROVE FALSE
    OBVIOUS
  <2>1. PICK d \in B : \A e \in B : d <= e
    <3>1. B \in SUBSET Nat
      OBVIOUS
    <3> HIDE DEF B
    <3> QED
      BY <3>1, Least
  <2>2. d \in Nat /\ d < s /\ ~Ends(ScanFrom(u, TRUE)[s], ScanFrom(u, TRUE)[s - d])
    BY <2>1
  <2>3. CASE d = 0
    <3>1. s - d = s
      BY <1>1, <2>3
    <3>2. ScanFrom(u, TRUE)[s] \in Seq(Found)
      BY <1>1, ScanUnfolds
    <3>3. ScanFrom(u, TRUE)[s] = <<>> \o ScanFrom(u, TRUE)[s] /\ <<>> \in Seq(Found)
      BY <3>2, NothingJoins
    <3> QED
      BY <2>2, <3>1, <3>2, <3>3 DEF Ends
  <2>4. CASE d # 0
    <3>1. PICK q \in Nat : q = s - d /\ q >= 1 /\ q < s
      BY <1>1, <2>2, <2>4
    <3>2. PICK t \in Places : q < t /\ t <= s /\ GoesOnAt(u, q, t)
      BY <3>1, ComesCloser
    <3>3. t \in Nat
      BY DEF Places
    <3>4. PICK e \in Nat : e = s - t /\ e < d /\ e < s /\ s - e = t
      BY <1>1, <2>2, <3>1, <3>2, <3>3
    <3>5. e \notin B
      <4>1. ~(d <= e)
        BY <2>2, <3>4
      <4> HIDE DEF B
      <4> QED
        BY <2>1, <4>1
    <3>6. Ends(ScanFrom(u, TRUE)[s], ScanFrom(u, TRUE)[t])
      BY <3>4, <3>5
    <3>7. PICK x \in Seq(Found) : ScanFrom(u, TRUE)[q] = x \o ScanFrom(u, TRUE)[t]
      BY <3>2 DEF GoesOnAt
    <3>8. Ends(ScanFrom(u, TRUE)[s], ScanFrom(u, TRUE)[q])
      BY <3>6, <3>7, EndsMore
    <3> QED
      BY <2>2, <3>1, <3>8
  <2> QED
    BY <2>3, <2>4
<1>3. s - 1 \in Nat /\ s - 1 < s /\ s - (s - 1) = 1
  BY <1>1
<1>4. s - 1 \notin B
  BY <1>2
<1>5. Ends(ScanFrom(u, TRUE)[s], ScanFrom(u, TRUE)[s - (s - 1)])
  BY <1>3, <1>4
<1> QED
  BY <1>3, <1>5

LEMMA EndIsSuffix ==
  ASSUME NEW r, NEW y, Ends(r, y)
  PROVE  IsSuffix(r, y)
<1>1. PICK x \in Seq(Found) : r \in Seq(Found) /\ y = x \o r
  BY DEF Ends
<1>2. PICK n \in Nat, m \in Nat : n = Len(r) /\ m = Len(x)
  BY <1>1
<1>3. /\ y \in Seq(Found) /\ Len(y) = m + n
      /\ \A i \in 1 .. n : y[m + i] = r[i]
  BY <1>1, <1>2
<1>4. PICK v \in Seq(Found) : v = Reverse(r) /\ Len(v) = n /\ \A i \in 1 .. n : v[i] = r[n - i + 1]
  <2>1. \A i \in 1 .. n : r[n - i + 1] \in Found
    <3>1. ASSUME NEW i \in 1 .. n PROVE r[n - i + 1] \in Found
      <4>1. n - i + 1 \in 1 .. n
        OBVIOUS
      <4> QED
        BY <1>1, <1>2, <4>1, ByteAt
    <3> QED
      BY <3>1
  <2>2. Reverse(r) \in [1 .. n -> Found]
    BY <1>2, <2>1 DEF Reverse
  <2>3. Reverse(r) \in Seq(Found) /\ Len(Reverse(r)) = n
    BY <2>2
  <2>4. \A i \in 1 .. n : Reverse(r)[i] = r[n - i + 1]
    BY <1>2 DEF Reverse
  <2> QED
    BY <2>3, <2>4
<1>5. PICK w \in Seq(Found) :
        w = Reverse(y) /\ Len(w) = m + n /\ \A i \in 1 .. m + n : w[i] = y[m + n - i + 1]
  <2>1. \A i \in 1 .. m + n : y[m + n - i + 1] \in Found
    <3>1. ASSUME NEW i \in 1 .. m + n PROVE y[m + n - i + 1] \in Found
      <4>1. m + n - i + 1 \in 1 .. m + n
        OBVIOUS
      <4> QED
        BY <1>3, <4>1, ByteAt
    <3> QED
      BY <3>1
  <2>2. Reverse(y) \in [1 .. m + n -> Found]
    BY <1>3, <2>1 DEF Reverse
  <2>3. m + n \in Nat
    OBVIOUS
  <2>4. Reverse(y) \in Seq(Found) /\ Len(Reverse(y)) = m + n
    BY <2>2, <2>3
  <2>5. \A i \in 1 .. m + n : Reverse(y)[i] = y[m + n - i + 1]
    BY <1>3 DEF Reverse
  <2> QED
    BY <2>4, <2>5
<1>6. ASSUME NEW i \in 1 .. n PROVE w[i] = v[i]
  <2>1. i \in 1 .. m + n /\ n - i + 1 \in 1 .. n /\ m + n - i + 1 = m + (n - i + 1)
    OBVIOUS
  <2>2. w[i] = y[m + (n - i + 1)]
    BY <1>5, <2>1
  <2>3. y[m + (n - i + 1)] = r[n - i + 1]
    BY <1>3, <2>1
  <2> QED
    BY <1>4, <2>2, <2>3
<1>7. n <= m + n
  OBVIOUS
<1>8. SubSeq(v, 1, n) = SubSeq(w, 1, n)
  <2>1. /\ SubSeq(v, 1, n) \in Seq(Found) /\ Len(SubSeq(v, 1, n)) = n - 1 + 1
        /\ \A i \in 1 .. n - 1 + 1 : SubSeq(v, 1, n)[i] = v[1 + i - 1]
    BY <1>4, PartFacts
  <2>2. /\ SubSeq(w, 1, n) \in Seq(Found) /\ Len(SubSeq(w, 1, n)) = n - 1 + 1
        /\ \A i \in 1 .. n - 1 + 1 : SubSeq(w, 1, n)[i] = w[1 + i - 1]
    BY <1>5, <1>7, PartFacts
  <2>3. n - 1 + 1 = n
    OBVIOUS
  <2>4. ASSUME NEW i \in 1 .. n PROVE SubSeq(v, 1, n)[i] = SubSeq(w, 1, n)[i]
    <3>1. 1 + i - 1 = i /\ i \in 1 .. n - 1 + 1
      OBVIOUS
    <3> QED
      BY <1>6, <2>1, <2>2, <3>1
  <2> QED
    BY <2>1, <2>2, <2>3, <2>4, SameSeq
<1> QED
  BY <1>4, <1>5, <1>7, <1>8 DEF IsSuffix, IsPrefix

(* The list of frames stays, and the reader of the UART never gives up.     *)
StaysOn == frames \in FrameLists \cup {<<>>} /\ ~(resync /\ failed)

LEMMA StaysOnInit ==
  ASSUME LocalInit
  PROVE  StaysOn
<1>1. \/ ReaderStart({<<>>}, {<<>>}, {TRUE})
      \/ ReaderStart(Noises, FrameLists, BOOLEAN)
  BY DEF LocalInit, ReaderOff
<1>2. frames \in FrameLists \cup {<<>>} /\ failed = FALSE
  BY <1>1 DEF ReaderStart
<1> QED
  BY <1>2 DEF StaysOn

LEMMA StaysOnStep ==
  ASSUME StaysOn, [LocalNext]_local
  PROVE  StaysOn'
<1>1. ReaderNext \/ UNCHANGED reader
  BY DEF LocalNext, local
<1>2. CASE UNCHANGED reader
  BY <1>2 DEF StaysOn, reader
<1>3. CASE Call \/ Drop \/ PayloadBytes \/ Return \/ ReadFails
  BY <1>3 DEF StaysOn, Call, Drop, PayloadBytes, Return, ReadFails, Source
<1>4. CASE HeaderByte
  BY <1>4 DEF StaysOn, HeaderByte, Source
<1>5. CASE TooLong
  BY <1>5 DEF StaysOn, TooLong, Source
<1>6. CASE EndOfStream
  BY <1>6 DEF StaysOn, EndOfStream, Source
<1> QED
  BY <1>1, <1>2, <1>3, <1>4, <1>5, <1>6 DEF ReaderNext

LEMMA WhatRemains ==
  ASSUME Streams, cut \in Nat, cut <= Len(input)
  PROVE  Remains(SubSeq(input, cut + 1, Len(input)), frames, Len(noise), cut)
<1>1. /\ noise \in Seq(Nat) /\ frames \in Seq(Frames) /\ OnWire(frames) \in Seq(Nat)
      /\ input \in Seq(Nat)
  <2>1. noise \in Seq(Nat) /\ frames \in Seq(Frames)
    BY DEF Streams
  <2>2. LaidOut(frames, Len(frames))
    <3>1. Len(frames) \in 0 .. Len(frames)
      BY <2>1
    <3> QED
      BY <2>1, <3>1, AllLaidOut
  <2>3. OnWire(frames) = Pre(frames, Len(frames))
    BY DEF OnWire, Pre
  <2> QED
    BY <2>1, <2>2, <2>3, InputTyped DEF LaidOut
<1>2. PICK n \in Nat, m \in Nat, z \in Nat, w \in Seq(Nat) :
        /\ n = Len(noise) /\ m = Len(OnWire(frames)) /\ z = n + m /\ w = input /\ z = Len(w)
        /\ \A i \in 1 .. m : w[n + i] = OnWire(frames)[i]
  <2>1. /\ Len(noise \o OnWire(frames)) = Len(noise) + Len(OnWire(frames))
        /\ Len(noise) \in Nat /\ Len(OnWire(frames)) \in Nat
        /\ \A i \in 1 .. Len(OnWire(frames)) :
             (noise \o OnWire(frames))[Len(noise) + i] = OnWire(frames)[i]
    BY <1>1, JoinFacts
  <2>2. input = noise \o OnWire(frames)
    BY DEF input
  <2>3. Len(noise) + Len(OnWire(frames)) \in Nat
    BY <2>1
  <2> QED
    BY <1>1, <2>1, <2>2, <2>3
<1>3. PICK u \in Seq(Nat) :
        /\ u = SubSeq(input, cut + 1, Len(input)) /\ Len(u) = z - cut
        /\ \A i \in 1 .. z - cut : u[i] = w[cut + i]
  <2>1. cut <= z /\ z <= Len(w)
    BY <1>2
  <2>2. /\ SubSeq(w, cut + 1, z) \in Seq(Nat) /\ Len(SubSeq(w, cut + 1, z)) = z - cut
        /\ \A i \in 1 .. z - cut : SubSeq(w, cut + 1, z)[i] = w[cut + i]
    BY <2>1, SubSeqFacts
  <2> QED
    BY <1>2, <2>2
<1>4. Len(u) + cut = n + m
  <2>1. z - cut + cut = n + m
    BY <1>2
  <2> QED
    BY <1>3, <2>1
<1>5. ASSUME NEW i \in 1 .. m, n + i > cut PROVE u[n + i - cut] = OnWire(frames)[i]
  <2>1. n + i - cut \in 1 .. z - cut /\ cut + (n + i - cut) = n + i
    BY <1>2, <1>5
  <2>2. u[n + i - cut] = w[cut + (n + i - cut)]
    BY <1>3, <2>1
  <2> QED
    BY <1>2, <2>1, <2>2
<1>6. Remains(u, frames, n, cut)
  BY <1>1, <1>2, <1>4, <1>5 DEF Remains
<1> QED
  BY <1>2, <1>3, <1>6

LEMMA ReaderResyncs ==
  ASSUME ReaderInv, ReaderExact, StaysOn, MagicsApart, \A fs \in FrameLists : Clear(fs)
  PROVE  Resyncs
<1> DEFINE returned == [i \in 1 .. Len(frames) |-> <<frames[i][1][1], frames[i][2]>>]
<1>1. SUFFICES ASSUME resync, pos = Len(input), header = <<>>, NEW k \in 1 .. Len(frames),
                      Len(noise) + Before(frames, k) >= cut,
                      cut < Len(noise) => Len(noise) + Before(frames, k) >= Len(noise) + Capacity
               PROVE  IsSuffix(SubSeq(returned, k, Len(frames)), got)
  BY DEF Resyncs
<1>2. Streams /\ cut \in Nat /\ cut <= Len(input) /\ noise \in Seq(Nat) /\ frames \in Seq(Frames)
  BY <1>1 DEF ReaderInv, Streams
<1>3. Clear(frames)
  <2>1. frames # <<>>
    OBVIOUS
  <2> QED
    BY <2>1 DEF StaysOn
<1>4. returned = SentAll(frames)
  BY DEF SentAll, Sent
<1> HIDE DEF returned
<1>5. PICK u, n : /\ u = SubSeq(input, cut + 1, Len(input)) /\ n = Len(noise)
                  /\ Remains(u, frames, n, cut)
  BY <1>2, WhatRemains
<1>6. PICK a \in Nat : a = Before(frames, k) /\ a = Len(Pre(frames, k - 1))
  <2>1. Before(frames, k) = Len(Pre(frames, k - 1))
    BY DEF Before, Pre
  <2>2. LaidOut(frames, Len(frames))
    <3>1. Len(frames) \in 0 .. Len(frames)
      BY <1>2
    <3> QED
      BY <1>2, <3>1, AllLaidOut
  <2> QED
    BY <2>1, <2>2 DEF LaidOut
<1>7. n \in Nat /\ n + a >= cut /\ (cut < n => a >= Capacity)
  <2>1. n \in Nat /\ n + a >= cut /\ (cut < n => n + a >= n + Capacity)
    BY <1>1, <1>2, <1>5, <1>6
  <2>2. Capacity \in Nat
    BY ReaderAssumption
  <2> QED
    BY <2>1, <2>2
<1>8. PICK s \in Nat : s = StartIn(frames, n, cut, k) /\ s >= 1
  <2>1. StartIn(frames, n, cut, k) = n + a + 1 - cut
    BY <1>6 DEF StartIn
  <2>2. n + a + 1 - cut \in Nat /\ n + a + 1 - cut >= 1
    BY <1>2, <1>7
  <2> QED
    BY <2>1, <2>2
<1>9. Ends(ScanFrom(u, TRUE)[s], ScanFrom(u, TRUE)[1])
  <2>1. s \in Places
    BY <1>8 DEF Places
  <2>2. cut < n => Len(Pre(frames, k - 1)) >= Capacity
    BY <1>6, <1>7
  <2> QED
    BY <1>3, <1>5, <1>8, <2>1, <2>2, Recovers
<1>10. ScanFrom(u, TRUE)[s] = SubSeq(SentAll(frames), k, Len(frames))
  <2>1. k \in 1 .. Len(frames) + 1
    BY <1>2
  <2> QED
    BY <1>3, <1>5, <1>8, <2>1, RestFound
<1>11. got = kept \o ScanFrom(u, TRUE)[1] /\ kept \in Seq(Found)
  <2>1. PICK p : Ahead(taken, p, header, payload, resync, kept, got)
    BY <1>1 DEF ReaderInv, StaysOn
  <2>2. kept \in Seq(Found) /\ got \in Seq(Found)
    BY <2>1 DEF Ahead
  <2>3. resync = TRUE
    BY <1>1 DEF ReaderInv
  <2>4. kept \o Scan(u, TRUE) = got \o <<>>
    <3>1. Len(header) # 4
      BY <1>1
    <3> QED
      BY <1>1, <1>5, <2>3, <3>1 DEF ReaderExact
  <2>5. got \o <<>> = got
    BY <2>2, NothingJoins
  <2> QED
    BY <2>2, <2>4, <2>5 DEF Scan
<1>12. Ends(SubSeq(returned, k, Len(frames)), got)
  BY <1>4, <1>9, <1>10, <1>11, EndsMore
<1> QED
  BY <1>12, EndIsSuffix

(* The reader of the UART recovers, for all frames whose magics and lengths *)
(* are the UART's and whose payloads hold no magic: every frame behind the  *)
(* one an error fell in, and every frame from Capacity bytes behind the     *)
(* stray ones, is returned.                                                 *)
THEOREM ReaderRecovers ==
  ASSUME MagicsApart, \A fs \in FrameLists : Clear(fs)
  PROVE  LocalSpec => []Resyncs
<1>1. LocalInit => ReaderInv /\ StaysOn
  BY ReaderInit, StaysOnInit
<1>2. ReaderInv /\ StaysOn /\ [LocalNext]_local => ReaderInv' /\ StaysOn'
  BY ReaderStep, StaysOnStep
<1>3. ReaderInv /\ StaysOn /\ ReaderExact => Resyncs
  BY ReaderResyncs
<1> QED
  BY <1>1, <1>2, <1>3, ReaderReturnsExactly, PTL DEF LocalSpec
=============================================================================
