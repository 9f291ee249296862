-------------------------------- MODULE Uart --------------------------------
(***************************************************************************)
(* Console output (kernel/uart.c, consolewrite of kernel/console.c):       *)
(* writers put characters into a ring and start the UART; its interrupt    *)
(* when the transmit register is empty sends the next one.  Echoing and    *)
(* printing write to the register directly (uartputc_sync), without the    *)
(* lock.  The handler runs on one CPU at a time, until plic_complete.      *)
(***************************************************************************)
EXTENDS Naturals, Sequences

CONSTANTS
  Procs,             \* the processes that write,
  Intr,              \*   and the interrupt handler
  Chars,
  UART_TX_BUF_SIZE,
  Wrap,              \* 2^64, a multiple of UART_TX_BUF_SIZE
  MaxWrite,          \* bound: characters of a write
  MaxEcho            \* bound: characters echoed or printed

VARIABLES
  uart_tx_buf, uart_tx_w, uart_tx_r,
  txlock,            \* holder of uart_tx_lock, 0 for nobody
  at,                \* where writers and handler are
  left,              \* characters that a writer has still to write
  idle,              \* LSR_TX_IDLE: the transmit register is empty
  irq,               \* the interrupt for that is pending
  echoed             \* characters echoed

vars == <<uart_tx_buf, uart_tx_w, uart_tx_r, txlock, at, left, idle, irq, echoed>>
ring == <<uart_tx_buf, uart_tx_w, uart_tx_r>>

Init ==
  /\ uart_tx_buf = [k \in 0 .. UART_TX_BUF_SIZE - 1 |-> 0]
  /\ uart_tx_w = 0 /\ uart_tx_r = 0
  /\ txlock = 0
  /\ at = [a \in Procs \union {Intr} |-> "idle"]
  /\ left = [p \in Procs |-> 0]
  /\ idle = TRUE /\ irq = FALSE
  /\ echoed = 0

Plus(a, n) == (a + n) % Wrap
Full == uart_tx_w = Plus(uart_tx_r, UART_TX_BUF_SIZE)

consolewrite(p, n) ==
  /\ at[p] = "idle"
  /\ at' = [at EXCEPT ![p] = "put"]
  /\ left' = [left EXCEPT ![p] = n]
  /\ UNCHANGED <<ring, txlock, idle, irq, echoed>>

(* copyin fails: what is left is not written.                              *)
CopyFails(p) ==
  /\ at[p] = "put"
  /\ at' = [at EXCEPT ![p] = "idle"]
  /\ left' = [left EXCEPT ![p] = 0]
  /\ UNCHANGED <<ring, txlock, idle, irq, echoed>>

(* uartputc: sleep while the buffer is full, else store and uartstart.     *)
uartputc(p, c) ==
  /\ at[p] \in {"put", "awake"} /\ txlock = 0
  /\ IF Full
     THEN at' = [at EXCEPT ![p] = "asleep"] /\ UNCHANGED <<ring, txlock>>
     ELSE /\ uart_tx_buf' = [uart_tx_buf EXCEPT ![uart_tx_w % UART_TX_BUF_SIZE] = c]
          /\ uart_tx_w' = Plus(uart_tx_w, 1)
          /\ txlock' = p
          /\ at' = [at EXCEPT ![p] = "start"]
          /\ UNCHANGED uart_tx_r
  /\ UNCHANGED <<left, idle, irq, echoed>>

(* wakeup(&uart_tx_r)                                                      *)
Woken == [a \in DOMAIN at |-> IF at[a] = "asleep" THEN "awake" ELSE at[a]]

(* Mutant of Send: the character is taken from where the next one goes.    *)
Send_FromEnd(a) ==
  /\ at[a] = "start" /\ uart_tx_w # uart_tx_r /\ idle
  /\ uart_tx_w' = (uart_tx_w + Wrap - 1) % Wrap
  /\ at' = Woken
  /\ idle' = FALSE /\ irq' = FALSE
  /\ UNCHANGED <<uart_tx_buf, uart_tx_r, txlock, left, echoed>>

(* uartstart, a character waiting and the register empty: send it, look    *)
(* again.                                                                  *)
Send(a) ==
  /\ at[a] = "start" /\ uart_tx_w # uart_tx_r /\ idle
  /\ uart_tx_r' = Plus(uart_tx_r, 1)
  /\ at' = Woken
  /\ idle' = FALSE /\ irq' = FALSE
  /\ UNCHANGED <<uart_tx_buf, uart_tx_w, txlock, left, echoed>>

(* uartstart returns: nothing is waiting (reading ISR acknowledges the     *)
(* interrupt) or the register is full; the lock is released.               *)
Started(a) ==
  /\ at[a] = "start" /\ (uart_tx_w = uart_tx_r \/ ~idle)
  /\ irq' = IF uart_tx_w = uart_tx_r THEN FALSE ELSE irq
  /\ txlock' = 0
  /\ IF a = Intr THEN at' = [at EXCEPT ![a] = "idle"] /\ UNCHANGED left
     ELSE /\ left' = [left EXCEPT ![a] = @ - 1]
          /\ at' = [at EXCEPT ![a] = IF left[a] > 1 THEN "put" ELSE "idle"]
  /\ UNCHANGED <<ring, idle, echoed>>

(* uartintr, for this interrupt or one for input, which consoleintr has    *)
(* dealt with.                                                             *)
uartintr ==
  /\ at[Intr] = "idle" /\ txlock = 0
  /\ txlock' = Intr
  /\ at' = [at EXCEPT ![Intr] = "start"]
  /\ UNCHANGED <<ring, left, idle, irq, echoed>>

(* uartputc_sync writes to the register when it finds it empty.            *)
uartputc_sync ==
  /\ idle /\ echoed < MaxEcho
  /\ idle' = FALSE /\ irq' = FALSE
  /\ echoed' = echoed + 1
  /\ UNCHANGED <<ring, txlock, at, left>>

(* The device has sent the character.                                      *)
Transmit ==
  /\ ~idle
  /\ idle' = TRUE /\ irq' = TRUE
  /\ UNCHANGED <<ring, txlock, at, left, echoed>>

Next ==
  \/ \E p \in Procs :
       \/ \E n \in 1 .. MaxWrite : consolewrite(p, n)
       \/ CopyFails(p)
       \/ \E c \in Chars : uartputc(p, c)
  \/ \E a \in Procs \union {Intr} : Send(a) \/ Started(a)
  \/ uartintr \/ uartputc_sync \/ Transmit

Spec == Init /\ [][Next]_vars

(* The device sends, a pending interrupt is taken (every holder of the     *)
(* lock gives it up, and interrupts are only off for that long), and code  *)
(* that holds a spinlock runs on.                                          *)
Fairness ==
  /\ WF_vars(Transmit)
  /\ SF_vars(uartintr /\ irq)
  /\ \A a \in Procs \union {Intr} : WF_vars(Send(a) \/ Started(a))

FairSpec == Spec /\ Fairness
-----------------------------------------------------------------------------
(* Characters in the buffer are sent, whoever finds the register full and  *)
(* whichever character the interrupt is for: there is never a character    *)
(* waiting with no interrupt to come.                                      *)
HeadSent == []<>(uart_tx_r = uart_tx_w) \/ []<><<uart_tx_r' # uart_tx_r>>_vars

Waiting == (uart_tx_w + Wrap - uart_tx_r) % Wrap
Fifo == INSTANCE Fifo WITH
  q <- [k \in 1 .. Waiting |-> uart_tx_buf[Plus(uart_tx_r, k - 1) % UART_TX_BUF_SIZE]],
  Size <- UART_TX_BUF_SIZE

(* Output is in order and nothing is sent twice or lost, across the wrap   *)
(* of the indices and with several writers.                                *)
ImplementsFifo == Fifo!Spec
=============================================================================
