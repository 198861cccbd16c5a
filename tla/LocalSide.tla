----------------------------- MODULE LocalSide -----------------------------
(***************************************************************************)
(* The parts of a board on its own side of a session: start-up and its      *)
(* shell, the reader of the UART and of TCP, the USB bridge, the LED.  They *)
(* share no state while they run: the shell has ended and its configuration *)
(* is fixed before run_bridge_mode (main.rs) picks one bridge, and neither  *)
(* the reader nor the USB bridge looks at the LED.  A behaviour therefore   *)
(* runs one of them, and all are checked in one run.                        *)
(***************************************************************************)
EXTENDS ConfigStore, FrameReader, UsbBridge, Led

CONSTANTS
  Noises,      \* stray bytes before the frames
  FrameLists,  \* frames that the other end sends
  Texts        \* what a USB host types

\* What is sent consists of bytes.
ASSUME LocalAssumption ==
  /\ Noises \subseteq Seq(Nat)
  /\ FrameLists \subseteq Seq((Nat \X Nat) \X Seq(Nat))
  /\ Texts \subseteq Seq(Bytes)

VARIABLE part

local == <<part, store, reader, usb, led>>

StoreOff == StoreStart({CHOOSE b \in Builds : TRUE}, {Erased})
ReaderOff == ReaderStart({<<>>}, {<<>>}, {TRUE})
UsbOff == UsbStart({<<>>})
LedOff == LedStart({"bridge"})

LocalInit ==
  \/ part = "start" /\ StoreStart(Builds, Inherited) /\ ReaderOff /\ UsbOff /\ LedOff
  \/ part = "reader" /\ ReaderStart(Noises, FrameLists, BOOLEAN) /\ StoreOff /\ UsbOff /\ LedOff
  \/ part = "usb" /\ UsbStart(Texts) /\ StoreOff /\ ReaderOff /\ LedOff
  \/ part = "led" /\ LedStart({"bridge", "test"}) /\ StoreOff /\ ReaderOff /\ UsbOff

LocalNext ==
  \/ part = "start" /\ StoreNext /\ UNCHANGED <<part, reader, usb, led>>
  \/ part = "reader" /\ ReaderNext /\ UNCHANGED <<part, store, usb, led>>
  \/ part = "usb" /\ UsbNext /\ UNCHANGED <<part, store, reader, led>>
  \/ part = "led" /\ LedNext /\ UNCHANGED <<part, store, reader, usb>>

LocalSpec ==
  /\ LocalInit /\ [][LocalNext]_local
  /\ StoreFairness /\ UsbFairness /\ LedFairness
=============================================================================
