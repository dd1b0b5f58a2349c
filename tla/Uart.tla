------------------------------- MODULE Uart -------------------------------
(***************************************************************************)
(* Transmission of the UART driver (drivers/uart/uart.c), which prints     *)
(* what the system logs.  A thread that prints fills uart_tx_buf, which    *)
(* the handler moves to the FIFO of the UART, or, in the build without     *)
(* IMX_UART_USE_TXBUFF, the FIFO itself; it sleeps when there is no room.  *)
(* Threads take turns under dputs_lock (debug.c), so that there is one     *)
(* writer; interrupt handlers print to the FIFO behind its back.           *)
(*                                                                         *)
(* uart_spinlock makes a step of the writer, up to its sleep, and one of   *)
(* the handler indivisible.  Characters are counted.                       *)
(***************************************************************************)
EXTENDS Integers

CONSTANTS Cap,        \* room of uart_tx_buf, the 511 of TXBUF_SIZE
          FifoSize,   \* IMX_UART_TX_FIFO_SIZE
          Threshold,  \* IMX_UART_TXTL_THRESHOLD
          MaxText,    \* bound: characters printed at once
          MaxPuts,    \* bound: texts
          TxBuffs,    \* subset of BOOLEAN: builds with IMX_UART_USE_TXBUFF or without
          Prompts     \* subset of BOOLEAN: does a writer that is woken run before the
                      \* handler has drained the buffer

UartAssumption ==
    /\ {Cap, MaxText} \subseteq Nat \ {0} /\ MaxPuts \in Nat
    /\ FifoSize \in Nat /\ Threshold \in 1..FifoSize - 1 /\ FifoSize - Threshold < Cap
    /\ TxBuffs \subseteq BOOLEAN /\ Prompts \subseteq BOOLEAN

VARIABLES
    txBuffered, \* imx_tx_buffered
    promptly,   \* a value of Prompts
    txBuf,      \* characters in uart_tx_buf
    fifo,       \* characters in the FIFO
    trdyen,     \* UCR1_TRDYEN, the interrupt that there is room
    dputc,      \* is uart_dputc_event signaled
    upc,        \* control point of the writer
    text,       \* its local len
    wasEmpty,   \* its local empty
    puts        \* texts so far (bound)

build == <<txBuffered, promptly>>
vars == <<build, txBuf, fifo, trdyen, dputc, upc, text, wasEmpty, puts>>

\* imx_uart_init; the interrupt that it enables has found nothing to do.
Init ==
    /\ txBuffered \in TxBuffs /\ promptly \in Prompts
    /\ txBuf = 0 /\ fifo = 0 /\ trdyen = FALSE
    /\ dputc = TRUE
    /\ upc = "idle" /\ text = 0 /\ wasEmpty = FALSE /\ puts = 0

Least(a, b) == IF a < b THEN a ELSE b

\* Mutant: the FIFO is filled as if it were empty
ChunkWhole == FifoSize

\* What the handler moves to the FIFO at once
Chunk == FifoSize - Threshold

\* The UART sends a character.
Shift ==
    /\ fifo > 0
    /\ fifo' = fifo - 1
    /\ UNCHANGED <<build, txBuf, trdyen, dputc, upc, text, wasEmpty, puts>>

\* platform_dputs_irq, platform_dputs: a caller that must not sleep spins.
PutsIrq ==
    /\ puts < MaxPuts /\ fifo < FifoSize
    /\ fifo' = fifo + 1 /\ puts' = puts + 1
    /\ UNCHANGED <<build, txBuf, trdyen, dputc, upc, text, wasEmpty>>

(***************************************************************************)
(* The writer                                                              *)
(***************************************************************************)

\* platform_dputs_thread: the lock is got.
Puts(n) ==
    /\ upc = "idle" /\ puts < MaxPuts
    /\ upc' = "puts" /\ text' = n /\ puts' = puts + 1
    /\ UNCHANGED <<build, txBuf, fifo, trdyen, dputc, wasEmpty>>

\* Either it is done or it sleeps.
Went(n) ==
    /\ text' = text - n
    /\ upc' = IF n = text THEN "idle" ELSE "wait"

\* Mutant: the interrupt stays as it is
Keeps(first) == trdyen

Enables(first) == trdyen \/ first

\* imx_dputs_buffered: whether the buffer was empty is found out once.
Fill ==
    /\ upc \in {"puts", "again"} /\ txBuffered
    /\ LET n == Least(text, Cap - txBuf)
           empty == IF upc = "puts" THEN txBuf = 0 ELSE wasEmpty IN
       /\ txBuf' = txBuf + n /\ Went(n)
       /\ trdyen' = Enables(empty /\ n > 0)
       /\ wasEmpty' = (empty /\ n = 0)
    /\ UNCHANGED <<build, fifo, dputc, puts>>

\* imx_dputs_unbuffered
FillFifo ==
    /\ upc \in {"puts", "again"} /\ ~txBuffered
    /\ LET n == Least(text, FifoSize - fifo) IN
       /\ fifo' = fifo + n /\ Went(n)
       /\ trdyen' = (trdyen \/ n < text)
    /\ UNCHANGED <<build, txBuf, dputc, wasEmpty, puts>>

\* The event is reset by the thread that it wakes.
Woken ==
    /\ upc = "wait" /\ dputc
    /\ dputc' = FALSE /\ upc' = "again"
    /\ UNCHANGED <<build, txBuf, fifo, trdyen, text, wasEmpty, puts>>

Writer == Fill \/ FillFifo \/ Woken

(***************************************************************************)
(* uart_irq_handler                                                        *)
(***************************************************************************)

Moved == Least(txBuf, Chunk)

\* The level of the FIFO is below the threshold (USR1_TRDY).
IsrBuffered ==
    /\ trdyen /\ txBuffered /\ fifo < Threshold
    /\ promptly /\ upc # "idle" => txBuf > Chunk
    /\ dputc' = (dputc \/ txBuf = Cap)
    /\ fifo' = fifo + Moved /\ txBuf' = txBuf - Moved
    /\ trdyen' = (txBuf # Moved)
    /\ UNCHANGED <<build, upc, text, wasEmpty, puts>>

IsrUnbuffered ==
    /\ trdyen /\ ~txBuffered /\ fifo < FifoSize
    /\ dputc' = TRUE /\ trdyen' = FALSE
    /\ UNCHANGED <<build, txBuf, fifo, upc, text, wasEmpty, puts>>

Isr == IsrBuffered \/ IsrUnbuffered

-----------------------------------------------------------------------------
Next == Shift \/ PutsIrq \/ (\E n \in 1..MaxText : Puts(n)) \/ Writer \/ Isr

(***************************************************************************)
(* The UART sends, its interrupt is taken, and a writer that is woken      *)
(* runs.                                                                   *)
(***************************************************************************)
Fairness == WF_vars(Shift) /\ WF_vars(Writer) /\ WF_vars(Isr)

Spec == Init /\ [][Next]_vars /\ Fairness

(***************************************************************************)
(* Properties                                                              *)
(***************************************************************************)

\* Every variable has its type; the FIFO and the buffer are never overrun.
TypeOK ==
    /\ txBuffered \in TxBuffs /\ promptly \in Prompts
    /\ txBuf \in 0..Cap /\ fifo \in 0..FifoSize
    /\ trdyen \in BOOLEAN /\ dputc \in BOOLEAN
    /\ upc \in {"idle", "puts", "wait", "again"} /\ text \in 0..MaxText
    /\ wasEmpty \in BOOLEAN /\ puts \in 0..MaxPuts

(***************************************************************************)
(* All that is printed goes out and every writer returns, whichever text   *)
(* meets a buffer that is empty, full or being drained, when a writer that *)
(* is woken runs before the rest of the buffer is gone.                    *)
(***************************************************************************)
TextGoesOut == <>[](promptly => upc = "idle" /\ txBuf = 0 /\ fifo = 0)
=============================================================================
