---------------------------- MODULE ConfigStore ----------------------------
(***************************************************************************)
(* Start-up of a board (main.rs `app`): the configuration record in flash   *)
(* (storage.rs, config_record.rs), the shell on the boot UART (shell.rs)    *)
(* and its commands (config.rs), with power losses at any step and new      *)
(* firmware in between.                                                     *)
(*                                                                          *)
(* A line is a sequence of words; words stand for the strings the parsers   *)
(* accept, by kind.  The record has three parts that a power loss can leave *)
(* in different states: magic and version, the settings, the checksum.  The *)
(* checksum is taken to tell apart all settings.                            *)
(***************************************************************************)
EXTENDS Integers, Sequences

CONSTANTS
  Builds,       \* configurations a firmware can be compiled with
  OldSettings,  \* settings that earlier firmware may have stored
  Hosts,        \* words that are dotted quads; "0.0.0.0" is unspecified
  Cidrs,        \* words of the form a.b.c.d/p with p <= 32
  Ports,        \* words that are 16 bit numbers
  Lines,        \* lines that somebody types
  MaxWords,     \* capacity of the parser's list of words (8)
  MaxLines,     \* bound: lines that change the configuration, per boot
  MaxBoots      \* bound: boots

\* BridgeConfig.
Fields == {"mac", "address", "bridge", "upstream", "uart", "discovery"}
IsConfig(c) == c = [f \in Fields |-> c[f]] /\ c.discovery \in BOOLEAN

ASSUME StoreAssumption ==
  /\ \A c \in Builds : IsConfig(c)
  /\ \A s \in OldSettings : s = [f \in Fields |-> s[f]]

VARIABLES
  compiled,   \* BridgeConfig::default() of the firmware in place
  flash,      \* the reserved sector
  stage,      \* off, shell, erase, write, run, or halted by a panic
  config,     \* the configuration of the shell, then of the bridge
  traffic,    \* abort_on_non_shell_byte: the boot UART also carries data
  late,       \* the shell's deadline has passed
  words,      \* the line typed so far
  storing,    \* the erase belongs to a save and not to a reset
  legal,      \* history: what the next boot may find
  lines, boots

store == <<compiled, flash, stage, config, traffic, late, words, storing,
           legal, lines, boots>>

MacUnset == "00"

\* One string per mode that `set upstream` accepts.
UpstreamOf ==
  [uart |-> "uart", i2c |-> "i2c", usb |-> "usb", test |-> "test", spi |-> "spi",
   spi_echo |-> "spi_echo", spiecho |-> "spi_echo",
   spi_static |-> "spi_static", spistatic |-> "spi_static",
   spi_line_high |-> "spi_line_high", spilinehigh |-> "spi_line_high",
   spi_line |-> "spi_line_high"]

BusModes == {"i2c", "spi", "spi_echo", "spi_static", "spi_line_high"}

----------------------------------------------------------------------------
\* The record.  Each part is a tuple: of its contents, of nothing when it is
\* erased, of a mark when an erase or a write of it did not finish.

Blank == <<>>
Garbled == <<"garbled">>
Current == <<"PCFG2">>
Checksum(body) == <<"fnv", body>>

Record(settings) ==
  LET body == <<"settings", settings>>
  IN  [id |-> Current, body |-> body, sum |-> Checksum(body)]

Encode(c) == Record([c EXCEPT !.discovery = IF @ THEN "a5" ELSE "00"])

Erased == [id |-> Blank, body |-> Blank, sum |-> Blank]

\* None, or Some configuration.
None == <<>>
Some(c) == <<c>>

\* A decoder that trusts magic and version alone.
DecodeFault(f) ==
  IF f.id # Current THEN None
  ELSE IF f.body \in {Blank, Garbled} THEN Some([compiled EXCEPT !.address = Garbled])
  ELSE Some([f.body[2] EXCEPT !.discovery = @ = "a5"])

Decode(f) ==
  IF f.id # Current \/ f.sum # Checksum(f.body) THEN None
  ELSE Some([f.body[2] EXCEPT !.discovery = @ = "a5"])

\* What an interrupted change from `a` to `b` can leave of one part.
Between(a, b) == IF a = b THEN {a} ELSE {a, b, Garbled}

Interrupted(f, g) ==
  [id : Between(f.id, g.id), body : Between(f.body, g.body),
   sum : Between(f.sum, g.sum)]

\* The configuration a boot starts its shell with.
BootConfig ==
  LET stored == Decode(flash)
  IN  IF compiled.upstream \in BusModes \/ stored = None
      THEN compiled ELSE stored[1]

\* The hardware's address replaces an unset one when the shell has ended.
Addressed(c) == IF c.mac = MacUnset THEN [c EXCEPT !.mac = "uid"] ELSE c

----------------------------------------------------------------------------
\* Commands: a field of the configuration and its new value, or one word.

Parse(w) ==
  CASE w \in {<<"help">>, <<"show">>, <<"start">>, <<"reset">>} -> w
    [] w \in {<<"set", "auto">>, <<"set", "dhcp">>} -> <<"address", <<w[2]>>>>
    [] w \in {<<"set", "discovery", "on">>, <<"set", "discovery", "off">>} -> Tail(w)
    [] w = <<"set", "discover">> -> <<"bridge", <<"client", "0.0.0.0", "9000">>>>
    [] /\ Len(w) = 5 /\ SubSeq(w, 1, 2) = <<"set", "static">>
       /\ w[3] \in Cidrs /\ {w[4], w[5]} \subseteq Hosts ->
         <<"address", SubSeq(w, 2, 5)>>
    [] /\ Len(w) = 4 /\ SubSeq(w, 1, 2) = <<"set", "client">>
       /\ w[3] \in Hosts /\ w[4] \in Ports -> <<"bridge", SubSeq(w, 2, 4)>>
    [] /\ Len(w) = 3 /\ SubSeq(w, 1, 2) = <<"set", "server">>
       /\ w[3] \in Ports -> <<"bridge", SubSeq(w, 2, 3)>>
    [] /\ Len(w) = 3 /\ SubSeq(w, 1, 2) = <<"set", "upstream">>
       /\ w[3] \in DOMAIN UpstreamOf -> <<"upstream", UpstreamOf[w[3]]>>
    [] OTHER -> <<"error">>

Apply(c, command) ==
  LET key == command[1]
      value == IF key = "discovery" THEN command[2] = "on" ELSE command[2]
      changed == [c EXCEPT ![key] = value]
  IN  IF key = "bridge" /\ SubSeq(value, 1, 2) = <<"client", "0.0.0.0">>
      THEN [changed EXCEPT !.discovery = TRUE]
      ELSE changed

----------------------------------------------------------------------------
\* Power and firmware.

\* A sector never written, or written by earlier firmware.
Inherited ==
  {Erased} \cup {[Record(s) EXCEPT !.id = version] :
                   s \in OldSettings, version \in {<<"PCFG1">>, Current}}

StoreStart(builds, sectors) ==
  /\ compiled \in builds /\ flash \in sectors
  /\ stage = "off" /\ config = compiled /\ traffic = FALSE /\ late = FALSE
  /\ words = <<>> /\ storing = FALSE /\ legal = {Decode(flash)}
  /\ lines = 0 /\ boots = 0

Boot ==
  /\ stage = "off" /\ boots < MaxBoots
  /\ boots' = boots + 1 /\ lines' = 0
  /\ stage' = "shell" /\ config' = BootConfig
  /\ traffic' = (BootConfig.upstream = "uart")
  /\ late' = FALSE /\ words' = <<>>
  /\ UNCHANGED <<compiled, flash, storing, legal>>

Update ==
  /\ stage = "off" /\ compiled' \in Builds
  /\ UNCHANGED <<flash, stage, config, traffic, late, words, storing, legal,
                 lines, boots>>

PowerLoss ==
  /\ stage # "off"
  /\ stage' = "off"
  /\ flash' \in CASE stage = "erase" -> Interrupted(flash, Erased)
                  [] stage = "write" -> Interrupted(flash, Encode(config))
                  [] OTHER -> {flash}
  /\ config' = compiled /\ traffic' = FALSE /\ late' = FALSE
  /\ words' = <<>> /\ storing' = FALSE /\ lines' = 0
  /\ UNCHANGED <<compiled, legal, boots>>

----------------------------------------------------------------------------
\* The shell.

DeadlinePasses ==
  /\ stage \in {"shell", "erase", "write"} /\ ~late
  /\ late' = TRUE
  /\ UNCHANGED <<compiled, flash, stage, config, traffic, words, storing, legal,
                 lines, boots>>

Begin(c) == stage' = "run" /\ config' = Addressed(c)

\* The head of the shell's loop.
NextLine(c) ==
  /\ words' = <<>>
  /\ IF late THEN Begin(c) ELSE stage' = "shell" /\ config' = c

\* Only words that lead to one of Lines are typed.
Type(word) ==
  /\ stage = "shell"
  /\ words' = Append(words, word)
  /\ \E l \in Lines : Len(l) >= Len(words') /\ SubSeq(l, 1, Len(words')) = words'
  /\ UNCHANGED <<compiled, flash, stage, config, traffic, late, storing, legal,
                 lines, boots>>

Rubout ==
  /\ stage = "shell" /\ words # <<>>
  /\ words' = SubSeq(words, 1, Len(words) - 1)
  /\ UNCHANGED <<compiled, flash, stage, config, traffic, late, storing, legal,
                 lines, boots>>

\* A byte that no line contains: data for the bridge, or noise that is skipped.
Noise ==
  /\ stage = "shell" /\ traffic
  /\ words' = <<>> /\ Begin(config)
  /\ UNCHANGED <<compiled, flash, traffic, late, storing, legal, lines, boots>>

\* A bug the code does not have: a line in progress is never given up.
PauseFault ==
  /\ stage = "shell" /\ late /\ words = <<>>
  /\ NextLine(config)
  /\ UNCHANGED <<compiled, flash, traffic, late, storing, legal, lines, boots>>

\* 100 ms without a byte; before the deadline the reader just goes on.
Pause ==
  /\ stage = "shell" /\ late
  /\ NextLine(config)
  /\ UNCHANGED <<compiled, flash, traffic, late, storing, legal, lines, boots>>

ReadError ==
  /\ stage = "shell"
  /\ NextLine(config)
  /\ UNCHANGED <<compiled, flash, traffic, late, storing, legal, lines, boots>>

Entered(commands) ==
  stage = "shell" /\ Len(words) <= MaxWords /\ Parse(words)[1] \in commands

\* Nine words: collecting them into the parser's list panics.
EnterTooLong ==
  /\ stage = "shell" /\ Len(words) > MaxWords
  /\ stage' = "halted"
  /\ UNCHANGED <<compiled, flash, config, traffic, late, words, storing, legal,
                 lines, boots>>

EnterQuery ==
  /\ Entered({"help", "show", "error"})
  /\ NextLine(config)
  /\ UNCHANGED <<compiled, flash, traffic, late, storing, legal, lines, boots>>

EnterStart ==
  /\ Entered({"start"})
  /\ words' = <<>> /\ Begin(config)
  /\ UNCHANGED <<compiled, flash, traffic, late, storing, legal, lines, boots>>

\* Both changes of the sector begin by erasing it.
BeginErase(c, save) ==
  /\ lines < MaxLines /\ lines' = lines + 1
  /\ stage' = "erase" /\ words' = <<>>
  /\ config' = c /\ storing' = save
  /\ legal' = {Decode(flash), None} \cup IF save THEN {Some(c)} ELSE {}
  /\ UNCHANGED <<compiled, flash, traffic, late, boots>>

EnterReset == Entered({"reset"}) /\ BeginErase(compiled, FALSE)

EnterSet ==
  /\ Entered({"address", "bridge", "upstream", "discovery"})
  /\ BeginErase(Apply(config, Parse(words)), TRUE)

Erase ==
  /\ stage = "erase"
  /\ flash' = Erased
  /\ IF storing
     THEN stage' = "write" /\ UNCHANGED <<config, words, legal>>
     ELSE NextLine(config) /\ legal' = {None}
  /\ UNCHANGED <<compiled, traffic, late, storing, lines, boots>>

\* A bug the code does not have: the new settings are applied, the old stored.
WriteFault ==
  /\ stage = "write"
  /\ flash' = Encode(BootConfig)
  /\ NextLine(config) /\ legal' = {Some(config)}
  /\ UNCHANGED <<compiled, traffic, late, storing, lines, boots>>

Write ==
  /\ stage = "write"
  /\ flash' = Encode(config)
  /\ NextLine(config) /\ legal' = {Some(config)}
  /\ UNCHANGED <<compiled, traffic, late, storing, lines, boots>>

\* All the words that occur in a line.
Vocabulary == UNION {{l[i] : i \in 1..Len(l)} : l \in Lines}

StoreNext ==
  \/ Boot \/ Update \/ PowerLoss
  \/ DeadlinePasses \/ Pause \/ ReadError \/ Noise \/ Rubout
  \/ \E word \in Vocabulary : Type(word)
  \/ EnterTooLong \/ EnterQuery \/ EnterStart \/ EnterReset \/ EnterSet
  \/ Erase \/ Write

\* Time passes, the processor runs, and a line has pauses of 100 ms: the only
\* thing the shell's deadline cannot do without.
StoreFairness ==
  WF_store(DeadlinePasses) /\ WF_store(Pause) /\ WF_store(Erase) /\ WF_store(Write)

StoreSpec == StoreStart(Builds, Inherited) /\ [][StoreNext]_store /\ StoreFairness

----------------------------------------------------------------------------
\* Whatever step the power failed at, the next boot finds the configuration
\* stored last, the one being stored, or none, and never a mixture: the erase
\* and the write of save() and the checksum of decode_record.
BootsWhole == Decode(flash) \in legal

\* A board that reads its flash (all builds but I2C and SPI) runs what the next
\* boot will run: the shell's commands, the save after each of them, reset, and
\* the round trip through the record agree.
RunsWhatBootsNext ==
  stage = "run" /\ compiled.upstream \notin BusModes => config = Addressed(BootConfig)

\* The shell only delays the bridge: it ends whatever is typed, also in the
\* middle of a line, unless a line of more than MaxWords words is entered.
BoardStarts ==
  stage \in {"shell", "erase", "write"} ~> (stage \in {"run", "off"} \/ Len(words) > MaxWords)
=============================================================================
