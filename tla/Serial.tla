------------------------------- MODULE Serial -------------------------------
(***************************************************************************)
(* The serial port COM1: the transmitting half of a 16550 UART and the     *)
(* driver serial.c.  The UART sends the characters of its FIFO one by one; *)
(* its line status says only whether the FIFO is empty.  A character that  *)
(* is written to a full FIFO is lost; one that is written while the        *)
(* divisor latch is open changes the line's speed instead.                 *)
(***************************************************************************)
EXTENDS Naturals, Sequences

CONSTANTS
  FifoDepth,   \* characters the UART's FIFO holds (16)
  ByteSize     \* values of a byte (256)

ASSUME SerialAssumption ==
  /\ FifoDepth \in Nat \ {0}
  /\ ByteSize \in Nat /\ ByteSize > 1

VARIABLES
  uart,      \* its registers: divisor latch open, the divisor's bytes, FIFO on
  fifo,      \* the characters waiting, oldest first
  line,      \* the characters sent
  written    \* history: the characters the driver has written

serialVars == <<uart, fifo, line, written>>

(* The UART. *)

Room == IF uart.fifoOn THEN FifoDepth ELSE 1

Divisor == uart.high * ByteSize + uart.low

Transmit ==
  /\ fifo # <<>>
  /\ line' = Append(line, Head(fifo))
  /\ fifo' = Tail(fifo)
  /\ UNCHANGED <<uart, written>>

(* A character at the data port. *)
OutbData(c) ==
  /\ fifo' = IF ~uart.dlab /\ Len(fifo) < Room THEN Append(fifo, c) ELSE fifo
  /\ written' = Append(written, c)
  /\ UNCHANGED <<uart, line>>

(* The line status register, of which the driver looks at bit 5. *)
TransmitterEmpty == 32
LineStatus == IF fifo = <<>> THEN TransmitterEmpty ELSE 0

(* What a write to one of the other ports, or to the divisor latch, does.  *)
Register(port, value) ==
  \/ port = "line" /\ uart' = [uart EXCEPT !.dlab = (value >= 128)]
  \/ port = "fifo" /\ uart' = [uart EXCEPT !.fifoOn = (value % 2 = 1)]
  \/ port = "modem" /\ UNCHANGED uart
  \/ port = "data" /\ uart' = IF uart.dlab THEN [uart EXCEPT !.low = value] ELSE uart
  \/ port = "data+1" /\ uart' = IF uart.dlab THEN [uart EXCEPT !.high = value] ELSE uart
-----------------------------------------------------------------------------
(* serial.c *)

Out(port, value) == [port |-> port, value |-> value]

(* Mutant: the two bytes change places, as in iso/boot/serial.c. *)
serial_configure_baud_rateSwapped(divisor) ==
  << Out("line", 128), Out("data", divisor \div ByteSize),
     Out("data+1", divisor % ByteSize), Out("line", 3) >>

serial_configure_baud_rate(divisor) ==
  << Out("line", 128), Out("data", divisor % ByteSize),
     Out("data+1", divisor \div ByteSize), Out("line", 3) >>

serial_configure_line == << Out("line", 3) >>

(* Mutant: the FIFO is reset but not enabled. *)
serial_configure_fifoOff == << Out("fifo", 198) >>

serial_configure_fifo == << Out("fifo", 199) >>

serial_configure_modem == << Out("modem", 11) >>

SERIAL_BAUD_115200 == 1

(* The port writes of serial_init, in order. *)
serial_init ==
  serial_configure_baud_rate(SERIAL_BAUD_115200) \o serial_configure_line
    \o serial_configure_fifo \o serial_configure_modem

(* Mutant: it looks at bit 0, which says that a character was received. *)
serial_is_transmit_fifo_emptyReceived(status) == status % 2 = 1

serial_is_transmit_fifo_empty(status) == (status \div 32) % 2 = 1

(* How many characters of a string serial_write and serial_write_no_limit  *)
(* send.                                                                   *)
serial_write(length, max_len) == IF length < max_len THEN length ELSE max_len

serial_write_no_limit(length) == length
=============================================================================
