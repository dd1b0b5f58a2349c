----------------------------- MODULE MCDevices -----------------------------
(***************************************************************************)
(* SDMA, I2C and the UART, for TLC.  They have a model each and share      *)
(* nothing, so that their product is not explored: in a behaviour one of   *)
(* them moves, and the others stay in their initial state, where none of   *)
(* their fair actions is enabled.                                          *)
(***************************************************************************)
EXTENDS Integers, Sequences

CONSTANTS Cyclic, Finite, EventZero, LastChan, NrBd, Totals, Roughs, MaxPeriods, MaxErrors,
          SdmaOps,
          Threads, Kinds, MaxLen, MaxNacks, MaxFaults, MaxXfers,
          Cap, FifoSize, Threshold, MaxText, MaxPuts, TxBuffs, Prompts

VARIABLES
    moves,  \* the one that moves
    \* of SDMA
    avail, desc, bd, count, index, position, on, events, pending, isr, mem, elapsed, rem, nr,
    done, pc, chan, ops, good, errors, rough,
    \* of I2C
    asserts, fsm, xfer, wait, mutex, iien, flags, bus, wire, waking, xpc, call, retries, xret,
    xfers, faults, late, moved, refused, wrong, i2cHalted,
    \* of the UART
    txBuffered, promptly, txBuf, fifo, trdyen, dputc, upc, text, wasEmpty, puts

Dma == INSTANCE Sdma WITH MaxOps <- SdmaOps
Bus == INSTANCE I2c
Console == INSTANCE Uart

ASSUME DevicesAssumption ==
    Dma!SdmaAssumption /\ Bus!I2cAssumption /\ Console!UartAssumption

dmaVars ==
    <<avail, desc, bd, count, index, position, on, events, pending, isr, mem, elapsed, rem, nr,
      done, pc, chan, ops, good, errors, rough>>
busVars ==
    <<asserts, fsm, xfer, wait, mutex, iien, flags, bus, wire, waking, xpc, call, retries, xret,
      xfers, faults, late, moved, refused, wrong, i2cHalted>>
consoleVars ==
    <<txBuffered, promptly, txBuf, fifo, trdyen, dputc, upc, text, wasEmpty, puts>>
vars == <<moves, dmaVars, busVars, consoleVars>>

\* The builds of those that do not move are fixed.
Init ==
    /\ moves \in {"dma", "bus", "console"}
    /\ Dma!Init /\ Bus!Init /\ Console!Init
    /\ moves # "dma" => ~rough
    /\ moves # "bus" => asserts
    /\ moves # "console" => txBuffered /\ promptly

DmaNext == moves = "dma" /\ Dma!Next /\ UNCHANGED <<moves, busVars, consoleVars>>
BusNext == moves = "bus" /\ Bus!Next /\ UNCHANGED <<moves, dmaVars, consoleVars>>
ConsoleNext == moves = "console" /\ Console!Next /\ UNCHANGED <<moves, dmaVars, busVars>>
Next == DmaNext \/ BusNext \/ ConsoleNext

Spec == Init /\ [][Next]_vars /\ Dma!Fairness /\ Bus!Fairness /\ Console!Fairness

-----------------------------------------------------------------------------
\* The variables of the three models have their types.
TypeOK == Dma!TypeOK /\ Bus!TypeOK /\ Console!TypeOK

\* The properties of SDMA and of I2C, stated there.
PeriodsCounted == Dma!PeriodsCounted
DescAlive == Dma!DescAlive
OkIsWhole == Bus!OkIsWhole
TransferEnds == Dma!TransferEnds

\* The calls that wait for a device return: those on the I2C bus, and those
\* that print, whose text goes out.
CallsEnd == Bus!CallsEnd /\ Console!TextGoesOut
=============================================================================
