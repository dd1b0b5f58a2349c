------------------------------ MODULE MCAudio ------------------------------
(***************************************************************************)
(* The two directions of the audio ports, for TLC.  They have a model each *)
(* and share nothing, so that their product is not explored: in a          *)
(* behaviour one of them moves, and the other stays in its initial state,  *)
(* where none of its fair actions is enabled.                              *)
(***************************************************************************)
EXTENDS Integers

CONSTANTS Ratio, Prefill, NrPeriods, Room, Silences, Modes, MaxLate, MaxPosts, MaxUnits, TxOps,
          RxRoom, Watermark, Lens, Burst, RxPeriods, MaxSem, RxOps

VARIABLES
    moves,  \* the one that moves
    \* of the transmit side
    mode, txPerm, silence, txHw, txBuf, slot, txChan, played, elapsed, txSem, asleep, flushed, want,
    closing, calls, units, heard, spoilt, excess, underrun, drain, due, missed, txHalted,
    \* of the receive side
    driver, perm, hw, rx, chan, ahead, sem, take, pc, len, left, ret, caller, ops, thrown, halted

Tx == INSTANCE Playback WITH MaxOps <- TxOps, perm <- txPerm, hw <- txHw
Rx == INSTANCE Capture WITH Room <- RxRoom, NrPeriods <- RxPeriods, MaxOps <- RxOps

ASSUME AudioAssumption == Tx!PlaybackAssumption /\ Rx!CaptureAssumption

txVars ==
    <<mode, txPerm, silence, txHw, txBuf, slot, txChan, played, elapsed, txSem, asleep, flushed, want,
      closing, calls, units, heard, spoilt, excess, underrun, drain, due, missed, txHalted>>
rxVars ==
    <<driver, perm, hw, rx, chan, ahead, sem, take, pc, len, left, ret, caller, ops, thrown,
      halted>>
vars == <<moves, txVars, rxVars>>

\* The build and the configuration of the one that does not move are fixed.
Init ==
    /\ moves \in {"tx", "rx"}
    /\ Tx!Init /\ Rx!Init
    /\ moves = "rx" => mode = "copy" /\ txPerm /\ silence = 0
    /\ moves = "tx" => driver = "pdm"

TxNext == moves = "tx" /\ Tx!Next /\ UNCHANGED <<moves, rxVars>>
RxNext == moves = "rx" /\ Rx!Next /\ UNCHANGED <<moves, txVars>>
Next == TxNext \/ RxNext

Spec == Init /\ [][Next]_vars /\ Tx!Fairness /\ Rx!Fairness

-----------------------------------------------------------------------------
\* The variables of the two models have their types.
TypeOK == Tx!TypeOK /\ Rx!TypeOK

\* The properties of the two models, stated there.
PlayedInOrder == Tx!PlayedInOrder
DrainIsComplete == Tx!DrainIsComplete
ReadIsCovered == Rx!ReadIsCovered
FlushHasReader == Rx!FlushHasReader

\* FlushEnds of the transmit side and ReadReturns of the receive side in one:
\* of the one that does not move nothing is on.
CallsEnd == (Tx!FlushIsOn \/ Rx!ReadIsOn) ~> (Tx!FlushIsOver /\ Rx!ReadIsOver)
=============================================================================
