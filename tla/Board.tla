-------------------------------- MODULE Board --------------------------------
(***************************************************************************)
(* The devices behind the I/O ports.  io_v2_read and io_v2_write           *)
(* (io_new.cpp) hand an access to the device that owns the port on this    *)
(* machine; no device looks at the state of another, so a behaviour here   *)
(* is one of a program that drives one of them, the driver, on one         *)
(* machine, both chosen at the start.                                      *)
(***************************************************************************)
EXTENDS Timers, Keypad, Uart, Dsp, Banks

CONSTANT Boards   \* the <<machine, driver>> looked at

Devices == {"timers", "keypad", "uart", "dsp", "banks"}
ASSUME BoardsAssumption == Boards \subseteq Machines \X Devices

VARIABLE driver

boardVars == <<machine, driver, timerVars, portVars, uartVars, dspVars, bankVars>>

BoardTypeOK ==
  /\ <<machine, driver>> \in Boards
  /\ TimersTypeOK /\ KeypadTypeOK /\ UartTypeOK /\ DspTypeOK /\ BanksTypeOK

BoardInit ==
  /\ \E b \in Boards : machine = b[1] /\ driver = b[2]
  /\ TimersInit /\ KeypadInit /\ UartInit /\ BanksInit
  /\ IF driver = "dsp" THEN DspInit ELSE DspInit /\ polite

BoardNext ==
  /\ UNCHANGED <<machine, driver>>
  /\ \/ /\ driver = "timers" /\ TimersNext
        /\ UNCHANGED <<portVars, uartVars, dspVars, bankVars>>
     \/ /\ driver = "keypad" /\ KeypadNext
        /\ UNCHANGED <<timerVars, uartVars, dspVars, bankVars>>
     \/ /\ driver = "uart" /\ UartNext
        /\ UNCHANGED <<timerVars, portVars, dspVars, bankVars>>
     \/ /\ driver = "dsp" /\ DspNext
        /\ UNCHANGED <<timerVars, portVars, uartVars, bankVars>>
     \/ /\ driver = "banks" /\ BanksNext
        /\ UNCHANGED <<timerVars, portVars, uartVars, dspVars>>

BoardSpec == BoardInit /\ [][BoardNext]_boardVars
=============================================================================
