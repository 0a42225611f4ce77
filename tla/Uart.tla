-------------------------------- MODULE Uart --------------------------------
(***************************************************************************)
(* The serial port of the nc1020, nc2000 and nc3000: ports 3a to 3d, which *)
(* the register bk switches between four banks, and the host's port behind *)
(* them (iv_uart.cpp, built with ENABLE_SERIAL_PORT, the port open).       *)
(*                                                                         *)
(* A byte in the host's receive buffer is TRUE if it arrived while the     *)
(* UART was enabled the way it is now.  Registers that are only stored and *)
(* read back (CSTOP, CSTART, IRCR, RESERVED, MSR, GPC, P05, FCR, IER and   *)
(* the clock bit of IVR) are left out, and so is what is sent, which keeps *)
(* no state.                                                               *)
(***************************************************************************)
EXTENDS Integers, Sequences, SequencesExt, Models

CONSTANTS
  uart_advance,   \* the host's port follows the parameters
  SP_BUFFER,      \* bound: bytes in the host's receive buffer
  BSRWritten,     \* inputs: baud rate selections
  LCRWritten      \* inputs: line controls

ASSUME UartAssumption ==
  /\ uart_advance \in BOOLEAN /\ SP_BUFFER \in Nat
  /\ BSRWritten \cup LCRWritten \subseteq 0..255

VARIABLES
  bk,
  TMR_UARTE,       \* bit 5 of TMR
  MCR_4,           \* bit 4 of MCR
  BSR, LCR,
  current,         \* baud selection, word length, stop bits and parity of the host's port
  sp_input,        \* the host's receive buffer
  said_ready,      \* history: the program saw a byte waiting and lost nothing since
  got,             \* history: what the last access read from port 3a
  said_line        \* history: the program set a parameter since the last reset

uartVars == <<bk, TMR_UARTE, MCR_4, BSR, LCR, current, sp_input,
              said_ready, got, said_line>>

is_read_ready == sp_input # <<>>

\* what handle_uart_parameter_change makes of the two registers.  Selections
\* above 12 are 12, and a parity that does not exist is none
Line(bsr, lcr) ==
  LET parity == (lcr \div 4) % 8
  IN [baud |-> IF bsr % 16 > 12 THEN 12 ELSE bsr % 16,
      wordlen |-> IF lcr % 2 = 1 THEN 8 ELSE 7,
      stopbits |-> IF (lcr \div 2) % 2 = 1 THEN 2 ELSE 1,
      parity |-> IF parity \in {1, 3, 5, 7} THEN parity ELSE 0]

UartTypeOK ==
  /\ bk \in 0..3
  /\ TMR_UARTE \in BOOLEAN /\ MCR_4 \in BOOLEAN
  /\ BSR \in 0..255 /\ LCR \in 0..255
  /\ current \in [baud : 0..12, wordlen : {7, 8}, stopbits : {1, 2}, parity : {0, 1, 3, 5, 7}]
  /\ sp_input \in BoundedSeq(BOOLEAN, SP_BUFFER)
  /\ got \in {"byte", "stale", "ff", "none"}
  /\ said_ready \in BOOLEAN /\ said_line \in BOOLEAN

UartInit ==
  /\ bk = 0 /\ TMR_UARTE = FALSE /\ MCR_4 = FALSE
  /\ BSR = 0 /\ LCR = 0
  /\ current = [baud |-> 1, wordlen |-> 8, stopbits |-> 1, parity |-> 0]
  /\ sp_input = <<>>
  /\ said_ready = FALSE /\ got = "none" /\ said_line = FALSE

----------------------------------------------------------------------------

\* read_3a in bank 0 is a byte from the host, or 0xff
Read3a ==
  /\ bk = 0
  /\ IF TMR_UARTE /\ is_read_ready
     THEN /\ sp_input' = Tail(sp_input)
          /\ got' = IF Head(sp_input) THEN "byte" ELSE "stale"
     ELSE /\ got' = "ff"
          /\ UNCHANGED sp_input
  /\ said_ready' = FALSE
  /\ UNCHANGED <<bk, TMR_UARTE, MCR_4, BSR, LCR, current, said_line>>

\* variant: bytes are announced whether the UART is enabled or not
DataReadyUnlessEmpty == is_read_ready

DataReady == TMR_UARTE /\ is_read_ready

\* LSR, and MCR, whose bit 4 says the same
Read3b ==
  /\ bk = 0
  /\ said_ready' = (said_ready \/ DataReady)
  /\ got' = "none"
  /\ UNCHANGED <<bk, TMR_UARTE, MCR_4, BSR, LCR, current, sp_input, said_line>>

Read3c ==
  /\ bk = 0
  /\ MCR_4' = DataReady
  /\ said_ready' = (said_ready \/ MCR_4')
  /\ got' = "none"
  /\ UNCHANGED <<bk, TMR_UARTE, BSR, LCR, current, sp_input, said_line>>

\* variant: what the register held is applied, and then it is written
handle_uart_parameter_change_first ==
  /\ current' = IF uart_advance THEN Line(BSR, LCR) ELSE current
  /\ said_line' = TRUE

handle_uart_parameter_change ==
  /\ current' = IF uart_advance THEN Line(BSR', LCR') ELSE current
  /\ said_line' = TRUE

\* write_3a in bank 1.  The register keeps the bits that read back
WriteBSR(value) ==
  /\ bk = 1
  /\ BSR' = value - 16 * ((value \div 16) % 4)
  /\ got' = "none"
  /\ UNCHANGED <<bk, TMR_UARTE, MCR_4, LCR, sp_input, said_ready>>
  /\ handle_uart_parameter_change

\* write_3b in bank 0
WriteLCR(value) ==
  /\ bk = 0
  /\ LCR' = value
  /\ got' = "none"
  /\ UNCHANGED <<bk, TMR_UARTE, MCR_4, BSR, sp_input, said_ready>>
  /\ handle_uart_parameter_change

\* write_3c in bank 0: the bit that is read back is whatever was written
WriteMCR(bit) ==
  /\ bk = 0
  /\ MCR_4' = bit
  /\ got' = "none"
  /\ UNCHANGED <<bk, TMR_UARTE, BSR, LCR, current, sp_input, said_ready, said_line>>

\* variant: what waits is dropped when the UART is disabled, and not when it is enabled
LeftAtDisable(enable) ==
  IF enable THEN [i \in DOMAIN sp_input |-> sp_input[i] /\ TMR_UARTE] ELSE <<>>

\* clear_read_buffer at a change, and once more at every disable
LeftAfter(enable) ==
  IF enable # TMR_UARTE \/ ~enable THEN <<>> ELSE sp_input

\* write_3c in bank 2
WriteTMR(enable) ==
  /\ bk = 2
  /\ TMR_UARTE' = enable
  /\ sp_input' = LeftAfter(enable)
  /\ said_ready' = (said_ready /\ enable /\ TMR_UARTE)
  /\ got' = "none"
  /\ UNCHANGED <<bk, MCR_4, BSR, LCR, current, said_line>>

\* write_3d selects the next bank, whatever else it writes
Write3d(new_bk) ==
  /\ bk' = new_bk
  /\ got' = "none"
  /\ UNCHANGED <<TMR_UARTE, MCR_4, BSR, LCR, current, sp_input, said_ready, said_line>>

\* a byte from outside
Receive ==
  /\ Len(sp_input) < SP_BUFFER
  /\ sp_input' = Append(sp_input, TMR_UARTE)
  /\ got' = "none"
  /\ UNCHANGED <<bk, TMR_UARTE, MCR_4, BSR, LCR, current, said_ready, said_line>>

\* nc2k_states.reset clears the registers; the host's port is left as it is
UartColdReset ==
  /\ bk' = 0 /\ TMR_UARTE' = FALSE /\ MCR_4' = FALSE
  /\ BSR' = 0 /\ LCR' = 0
  /\ sp_input' = [i \in DOMAIN sp_input |-> FALSE]
  /\ said_ready' = FALSE /\ got' = "none" /\ said_line' = FALSE
  /\ UNCHANGED current

UartNext ==
  /\ ~pc1000mode
  /\ \/ Read3a \/ Read3b \/ Read3c
     \/ \E value \in BSRWritten : WriteBSR(value)
     \/ \E value \in LCRWritten : WriteLCR(value)
     \/ \E bit \in BOOLEAN : WriteMCR(bit)
     \/ \E enable \in BOOLEAN : WriteTMR(enable)
     \/ \E new_bk \in 0..3 : Write3d(new_bk)
     \/ Receive
     \/ UartColdReset

----------------------------------------------------------------------------
(* Properties.                                                             *)

\* A byte the program reads arrived while the UART was enabled: what came before,
\* while it was off or before a reset that turned it off and left the
\* host's buffer alone, is gone (iv_uart.cpp:434).
ReceivedWhileEnabled == got # "stale"

\* A byte that was announced is there when the program reads it: between the status
\* read and the data read nothing takes it, neither other accesses nor banks
\* switched to and fro, unless the program turns the UART off (iv_uart.cpp:343, 266).
AnnouncedByteIsThere == [][said_ready /\ got' # "none" => got' = "byte"]_uartVars

\* Once the program has set a parameter, the host's port has all of the parameters
\* the registers show: the two registers are applied together, and a reset,
\* which clears them and does not touch the port, is made good by either
\* write (iv_uart.cpp:178, 316).
LineAsProgrammed == uart_advance /\ said_line => current = Line(BSR, LCR)
=============================================================================
