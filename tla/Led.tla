-------------------------------- MODULE Led --------------------------------
(***************************************************************************)
(* The status LED.  In the bridge modes heartbeat_task (main.rs) owns it    *)
(* and takes commands that another task, for UART on the other core, puts   *)
(* into one atomic cell when it answers "/led ..." (bridge/commands.rs).    *)
(* In test mode there is no heartbeat and a TCP session drives the pin      *)
(* itself (bridge/test.rs).                                                 *)
(***************************************************************************)
EXTENDS Integers

CONSTANT MaxLed   \* bound: commands that are answered

VARIABLES
  mode,       \* "bridge" or "test"
  pin,        \* the LED is lit
  ledCommand, \* LED_COMMAND: the code of auto is also "nothing there"
  ledState,   \* LED_STATE, which "/led status" reports
  ledAuto, ledOn,  \* auto_mode and led_on of heartbeat_task
  linkUp,     \* LINK_ACTIVE
  last,       \* history: the last command that was answered with "ok"
  answers,    \* how many were
  session, testOn, \* test mode: a session is open, its led_on
  blink,      \* toggles that a blink command has left
  sure        \* history: this session has set the LED and not blinked since

led == <<mode, pin, ledCommand, ledState, ledAuto, ledOn, linkUp, last, answers,
         session, testOn, blink, sure>>

Heart == <<ledCommand, ledState, ledAuto, ledOn, linkUp>>
Test == <<session, testOn, blink, sure>>

LedStart(modes) ==
  /\ mode \in modes /\ pin = FALSE
  /\ ledCommand = "auto" /\ ledState = FALSE /\ ledAuto = TRUE /\ ledOn = FALSE
  /\ linkUp = FALSE /\ last = "none" /\ answers = 0
  /\ session = FALSE /\ testOn = FALSE /\ blink = 0 /\ sure = FALSE

----------------------------------------------------------------------------
\* Bridge modes.

LedAnswer(command) ==
  /\ mode = "bridge" /\ answers < MaxLed
  /\ ledCommand' = command /\ last' = command /\ answers' = answers + 1
  /\ UNCHANGED <<mode, pin, ledState, ledAuto, ledOn, linkUp, Test>>

LinkChange ==
  /\ mode = "bridge" /\ linkUp' = ~linkUp
  /\ UNCHANGED <<mode, pin, ledCommand, ledState, ledAuto, ledOn, last, answers, Test>>

\* take_led_command empties the cell by storing the code of auto.
TakeLedCommand == IF ledCommand = "auto" THEN "none" ELSE ledCommand

\* A bug the code does not have: a command does not stop the heartbeat.
AutoAfterFault(command) == ledAuto

AutoAfter(command) ==
  CASE command = "none" -> ledAuto
    [] command \in {"off", "on", "toggle"} -> FALSE
    [] OTHER -> TRUE

Driven(level, command) ==
  CASE command = "off" -> FALSE
    [] command = "on" -> TRUE
    [] command = "toggle" -> ~level
    [] OTHER -> level

\* One round of the loop, up to the timer at its end.
Heartbeat ==
  LET command == TakeLedCommand
      beat(level) == IF AutoAfter(command) THEN linkUp /\ ~level ELSE level
  IN  /\ mode = "bridge"
      /\ ledCommand' = "auto"
      /\ ledAuto' = AutoAfter(command)
      /\ pin' = beat(Driven(pin, command))
      /\ ledOn' = beat(Driven(ledOn, command)) /\ ledState' = ledOn'
      /\ UNCHANGED <<mode, linkUp, last, answers, Test>>

----------------------------------------------------------------------------
\* Test mode.

TestBegins ==
  /\ mode = "test" /\ ~session
  /\ session' = TRUE /\ testOn' = FALSE /\ sure' = FALSE
  /\ UNCHANGED <<mode, pin, Heart, last, answers, blink>>

\* Also in the middle of a blink, when the address changes.
TestEnds ==
  /\ session /\ session' = FALSE /\ blink' = 0 /\ sure' = FALSE
  /\ UNCHANGED <<mode, pin, Heart, last, answers, testOn>>

TestCommand(command) ==
  /\ session /\ blink = 0 /\ answers < MaxLed /\ answers' = answers + 1
  /\ pin' = Driven(pin, command) /\ testOn' = Driven(testOn, command)
  /\ sure' = (command # "toggle" \/ sure)
  /\ UNCHANGED <<mode, Heart, last, session, blink>>

\* Four times on and off again, with a delay after each.
TestBlink ==
  /\ session /\ blink = 0 /\ answers < MaxLed /\ answers' = answers + 1
  /\ blink' = 8 /\ sure' = FALSE
  /\ UNCHANGED <<mode, pin, Heart, last, session, testOn>>

Blinks ==
  /\ blink > 0 /\ blink' = blink - 1
  /\ pin' = ~pin
  /\ testOn' = (blink > 1 /\ testOn)
  /\ UNCHANGED <<mode, Heart, last, answers, session, sure>>

LedNext ==
  \/ \E command \in {"auto", "off", "on", "toggle"} : LedAnswer(command)
  \/ LinkChange \/ Heartbeat
  \/ TestBegins \/ TestEnds
  \/ \E command \in {"off", "on", "toggle"} : TestCommand(command)
  \/ TestBlink \/ Blinks

\* heartbeat_task comes back from each of its timers.
LedFairness == WF_led(Heartbeat)

LedSpec == LedStart({"bridge", "test"}) /\ [][LedNext]_led /\ LedFairness

----------------------------------------------------------------------------
\* In test mode led_on is the LED's state once the session has set it, until a
\* blink, which stores "off" whatever the pin returns to (handle_command).
TestOnShows == sure => testOn = pin

\* An LED that was told "on" or "off" last ends up, and stays, in that state,
\* whatever was in the cell and the heartbeat before (heartbeat_task), and the
\* test mode knows the LED's state.
LedObeys ==
  /\ <>[](last = "on") => <>[](pin /\ ledState)
  /\ <>[](last = "off") => <>[](~pin /\ ~ledState)
  /\ []TestOnShows

\* What "ok led auto" (commands.rs:104) says of the board: the heartbeat is on
\* again unless a newer command came.
LedAutoObeyed == (last = "auto") ~> (ledAuto \/ last # "auto")
=============================================================================
