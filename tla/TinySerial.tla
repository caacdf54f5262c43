------------------------------ MODULE TinySerial ------------------------------
(***************************************************************************)
(* tiny_serial: a UART driver without a UART.  A timer that adds itself    *)
(* again sends what the serial core has put into the circular transmit     *)
(* buffer of the port.  One processor: no handler runs into a step.        *)
(***************************************************************************)
EXTENDS Integers, Sequences

CONSTANTS
  Size,      \* UART_XMIT_SIZE
  FifoSizes, \* the fifo sizes setserial may set
  MaxChars   \* bound: characters written

VARIABLES
  started,   \* between tiny_startup and tiny_shutdown
  rxtimer,   \* "none", "idle" (allocated) or "pending"
  fifosize,
  x_char,    \* a flow control character waits to be sent
  stopped,   \* uart_tx_stopped
  xmit, xhead, xtail,        \* the transmit buffer
  written, dropped, tx       \* ghosts: characters written, dropped and sent

port  == <<started, rxtimer, fifosize, x_char, stopped>>
xbuf  == <<xmit, xhead, xtail>>
chars == <<written, dropped, tx>>
vars  == <<port, xbuf, chars>>

Init ==
  /\ started = FALSE /\ rxtimer = "none"
  /\ fifosize = 0 /\ x_char = FALSE /\ stopped = FALSE
  /\ xmit = [i \in 0 .. Size - 1 |-> 0] /\ xhead = 0 /\ xtail = 0
  /\ written = 0 /\ dropped = 0 /\ tx = <<>>

(* uart_circ_chars_pending                                                 *)
Pending == (xhead - xtail) % Size

-----------------------------------------------------------------------------
(* The first timer is allocated; a failure fails the open.                 *)
tiny_startup ==
  /\ ~started
  /\ \/ started' = TRUE /\ rxtimer' = "pending"
     \/ rxtimer = "none" /\ UNCHANGED <<started, rxtimer>>
  /\ UNCHANGED <<fifosize, x_char, stopped, xbuf, chars>>

tiny_shutdown ==
  /\ started /\ started' = FALSE
  /\ rxtimer' = "idle"                                       \* del_timer
  /\ xhead' = 0 /\ xtail' = 0 /\ dropped' = dropped + Pending
  /\ UNCHANGED <<fifosize, x_char, stopped, xmit, written, tx>>

(* The serial core: uart_write, and what stops and configures the port.    *)
uart_write ==
  /\ started /\ written < MaxChars /\ Pending < Size - 1
  /\ xmit' = [xmit EXCEPT ![xhead] = written + 1]
  /\ xhead' = (xhead + 1) % Size
  /\ written' = written + 1
  /\ UNCHANGED <<port, xtail, dropped, tx>>

uart_control ==
  /\ started
  /\ \/ x_char' = TRUE /\ UNCHANGED <<stopped, fifosize>>
     \/ stopped' = ~stopped /\ UNCHANGED <<x_char, fifosize>>
     \/ fifosize' \in FifoSizes /\ UNCHANGED <<x_char, stopped>>
  /\ UNCHANGED <<started, rxtimer, xbuf, chars>>

Atleast1(n) == IF n < 1 THEN 1 ELSE n

\* Mutant: the loop does not look whether the buffer is empty.
BurstFull == Atleast1(fifosize \div 2)

(* How many characters the do-while loop sends: one at least, and then up  *)
(* to half the fifo while there are any.                                   *)
Burst ==
  IF Atleast1(fifosize \div 2) < Pending THEN Atleast1(fifosize \div 2) ELSE Pending

tiny_tx_chars ==
  IF x_char THEN x_char' = FALSE /\ UNCHANGED <<xtail, tx>>
  ELSE /\ IF Pending = 0 \/ stopped THEN UNCHANGED <<xtail, tx>>
          ELSE /\ tx' = tx \o [i \in 1 .. Burst |-> xmit[(xtail + i - 1) % Size]]
               /\ xtail' = (xtail + Burst) % Size
       /\ UNCHANGED x_char

(* The handler adds the timer again and sends.                             *)
tiny_timer ==
  /\ rxtimer = "pending"
  /\ tiny_tx_chars
  /\ UNCHANGED <<started, rxtimer, fifosize, stopped, xmit, xhead, written, dropped>>

Next == \/ tiny_startup \/ tiny_shutdown \/ tiny_timer
        \/ uart_write \/ uart_control

-----------------------------------------------------------------------------
(* Every character written is sent once, in order, waits in the buffer, or *)
(* was dropped when the port was shut down.                                *)
CharsSent ==
  /\ \A i, j \in DOMAIN tx : i < j => tx[i] < tx[j]
  /\ written = Len(tx) + Pending + dropped
=============================================================================
