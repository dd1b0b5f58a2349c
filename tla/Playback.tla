------------------------------ MODULE Playback ------------------------------
(***************************************************************************)
(* The transmit side of SAI with DMA (drivers/sai/sai.c).  A client writes *)
(* to tx_circ_buf; the cyclic DMA plays one period after the other; after  *)
(* each of them a worker thread reads one period from the circular buffer. *)
(* With a private buffer the worker copies it into the ring of the DMA, a  *)
(* few periods ahead of what is played; with zero copy the DMA plays the   *)
(* circular buffer itself and the worker only advances its read pointer.   *)
(*                                                                         *)
(* The unit of data is one DMA period, numbered when it is written; 0 is   *)
(* silence.  Chained SAIs and the interrupt without DMA are left out.      *)
(***************************************************************************)
EXTENDS Integers, Sequences

CONSTANTS Ratio,     \* IMX_SAI_DMA_PERIOD_RATIO: DMA periods of a period
          Prefill,   \* dma_period_prefill
          NrPeriods, \* dma_nr_periods
          Room,      \* DMA periods in tx_circ_buf
          Silences,  \* flush_silence_periods, one of them
          Modes,     \* dma_mode: "copy" or "zero"
          MaxLate,   \* bound: DMA periods that the worker is behind
          MaxPosts,  \* bound: DMA periods played while it sleeps in an assertion
          MaxUnits,  \* bound: units written
          MaxOps     \* bound: calls of setup, stop, flush, drop, close; stalls

PlaybackAssumption ==
    /\ {Ratio, Prefill, NrPeriods, MaxLate, Room} \subseteq Nat \ {0}
    /\ MaxPosts \in Nat /\ MaxLate <= MaxPosts
    /\ Silences \subseteq Nat /\ {MaxUnits, MaxOps} \subseteq Nat
    /\ Modes \subseteq {"copy", "zero"}
    /\ Prefill <= NrPeriods /\ Room % NrPeriods = 0 /\ Prefill < Room

VARIABLES
    mode,     \* sai_tx_handle.dma_mode
    perm,     \* built with IMX_SAI_PERMISSIVE
    silence,  \* flush_silence_periods
    hw,       \* flags of tx_hw_state; "Request", "Error": what the port enables
    txBuf,    \* tx_circ_buf: its cells, where it is read, cells in use
    slot,     \* the private buffer of the DMA
    txChan,   \* the DMA channel
    played,   \* DMA periods played since the setup, modulo Room
    elapsed,  \* dma_period_elapsed, modulo Room
    txSem,    \* dma_period_sem
    asleep,   \* the worker sleeps in SAI_ASSERT, with tx_lock
    flushed,  \* flushed_with_silence
    want,     \* units that the writer still has, after its test of the room
    closing,  \* the call that has to reset the buffer
    calls,    \* calls and stalls so far (bound)
    units,    \* history: units written
    heard,    \* history: the last of them that was played or given up, before an underrun
    spoilt,   \* history: one of them was skipped or played again, before an underrun
    excess,   \* history: posts of an earlier stream that were there at the setup
    underrun, \* history: an underrun of this stream for which nothing was injected
    drain,    \* history: what the last SAI_EVENT_DRAIN came after
    due,      \* history: units written when the flush began
    missed,   \* history: how many of them had not been played at the SAI_EVENT_DRAIN
    txHalted  \* an assertion or a panic

port == <<mode, perm, silence>>
writer == <<want, units>>
ring == <<played, elapsed, txSem, asleep>>
history == <<heard, spoilt, excess, underrun, drain, due, missed>>
vars == <<port, hw, txBuf, slot, txChan, ring, flushed, writer, closing, calls, history, txHalted>>

Cells == 0 .. Room - 1
Cleared == [cell |-> [i \in Cells |-> 0], read |-> 0, used |-> 0]
NoSlots == [i \in 0 .. NrPeriods - 1 |-> 0]

Init ==
    /\ mode \in Modes /\ perm \in BOOLEAN /\ silence \in Silences
    /\ hw = {} /\ txBuf = Cleared /\ slot = NoSlots
    /\ txChan = "none" /\ played = 0 /\ elapsed = 0 /\ txSem = 0 /\ asleep = FALSE
    /\ flushed = FALSE
    /\ want = 0 /\ units = 0
    /\ closing = "none" /\ calls = 0
    /\ heard = 0 /\ spoilt = FALSE /\ excess = 0 /\ underrun = FALSE
    /\ drain = "none" /\ due = 0 /\ missed = 0
    /\ txHalted = "none"

Live == txHalted = "none"
Call == Live /\ closing = "none" /\ calls < MaxOps /\ calls' = calls + 1

\* A call, or the interrupt handler, gets tx_lock.
Locks == ~asleep

(***************************************************************************)
(* The circular buffer, as the driver uses it; one cell stays empty        *)
(***************************************************************************)
Space(b) == Room - 1 - b.used

RoomFor(b, n) == IF n <= Space(b) THEN n ELSE Space(b)

\* The cell that is d cells behind the write pointer.
Behind(b, i) == (i - b.read - b.used) % Room

Written(b, us) ==
    LET n == RoomFor(b, Len(us)) IN
    [b EXCEPT !.cell = [i \in Cells |-> IF Behind(b, i) < n THEN us[Behind(b, i) + 1] ELSE @[i]],
              !.used = @ + n]

\* Mutant: an empty buffer is read as well
SkipAlways(b) == [b EXCEPT !.read = (@ + 1) % Room, !.used = @ - 1]

Skip(b) == IF b.used = 0 THEN b ELSE [b EXCEPT !.read = (@ + 1) % Room, !.used = @ - 1]
Zeros(n) == [i \in 1 .. n |-> 0]

(***************************************************************************)
(* The DMA                                                                 *)
(***************************************************************************)
Playing == IF mode = "zero" THEN txBuf.cell[played] ELSE slot[played % NrPeriods]

\* The period of the private buffer that was not filled when the ending zeros
\* were added still holds what was played a ring before.
Replayed == mode = "copy" /\ flushed /\ silence > 0 /\ Playing <= heard
InOrder == Playing \in {0, heard + 1} \/ Replayed \/ drain = "drop"

\* A period has been played; the callback of the DMA takes no lock.  MaxLate: a
\* worker that is awake is not later than the prefill allows.
TxPeriod ==
    /\ Live
    /\ txChan = "run" /\ {"Started", "Request"} \subseteq hw
    /\ txSem < IF asleep THEN MaxPosts ELSE MaxLate
    /\ played' = (played + 1) % Room
    /\ txSem' = txSem + 1
    /\ IF underrun THEN UNCHANGED <<heard, spoilt>>
       ELSE /\ heard' = IF Playing > heard THEN Playing ELSE heard
            /\ spoilt' = (spoilt \/ ~InOrder)
    /\ UNCHANGED <<port, hw, txBuf, slot, txChan, elapsed, asleep, flushed, writer, closing, calls,
                   excess, underrun, drain, due, missed, txHalted>>

\* The FIFO runs empty.  In a flush this is its end; otherwise it is logged.
Drained(how) ==
    /\ Locks /\ {"Started", "Error", "Flushing"} \subseteq hw
    /\ hw' = hw \ {"Error", "Flushing"}
    /\ drain' = IF drain = "drop" THEN drain ELSE how
    /\ missed' = IF due > heard /\ ~underrun THEN due - heard ELSE 0
    /\ UNCHANGED <<port, txBuf, slot, txChan, ring, flushed, writer, closing, heard, spoilt, excess,
                   underrun, due, txHalted>>

FifoEmpty ==
    /\ Live /\ (txChan # "run" \/ "Request" \notin hw)
    /\ Drained("flush") /\ UNCHANGED calls

\* The FIFO runs empty because the bus or the DMA was late.
FifoStall ==
    /\ Live /\ txChan = "run" /\ "Request" \in hw
    /\ calls < MaxOps /\ calls' = calls + 1
    /\ Drained("stall")

(***************************************************************************)
(* The worker: imx_sai_pop_from_tx_circ_buffer, under the lock             *)
(***************************************************************************)
Short == txBuf.used = 0

\* Mutant: only an empty buffer counts as an underrun of zero copy
LowIfEmpty == mode = "zero" /\ txBuf.used = 0

Low == mode = "zero" /\ txBuf.used < Prefill

Into(u) == IF mode = "copy" THEN slot' = [slot EXCEPT ![elapsed % NrPeriods] = u]
           ELSE UNCHANGED slot
Read == IF Short THEN UNCHANGED slot ELSE Into(txBuf.cell[txBuf.read])

Woken ==
    /\ Live /\ ~asleep /\ txSem > 0
    /\ txSem' = txSem - 1
    /\ UNCHANGED <<port, played, writer, closing, calls, heard, spoilt, excess, drain, due, missed>>

TxDiscard ==
    /\ Woken /\ "Opened" \notin hw
    /\ UNCHANGED <<hw, txBuf, slot, txChan, elapsed, asleep, flushed, underrun, txHalted>>

Pops == Woken /\ "Opened" \in hw
Pop == Pops /\ elapsed' = (elapsed + 1) % Room /\ UNCHANGED asleep

PopPeriod ==
    /\ Pop /\ ~Short /\ ~Low
    /\ txBuf' = Skip(txBuf) /\ Read
    /\ UNCHANGED <<hw, txChan, flushed, underrun, txHalted>>

\* Mutant: the flag is not set
NeverFlushed == FALSE

ZerosWritten == TRUE

\* The first underrun of a flush adds the ending zeros; what was to be filled now is not.
PopEndingZeros ==
    /\ Pop /\ (Short \/ Low) /\ "Flushing" \in hw /\ ~flushed
    /\ txBuf' = Written(Skip(txBuf), Zeros(silence * Ratio)) /\ Read
    /\ flushed' = ZerosWritten
    /\ UNCHANGED <<hw, txChan, underrun, txHalted>>

\* The next one stops the requests and pauses the channel, which a stop may have taken.
PopStopRequests ==
    /\ Pop /\ (Short \/ Low) /\ "Flushing" \in hw /\ flushed
    /\ txBuf' = Skip(txBuf) /\ Read
    /\ hw' = hw \ {"Request"}
    /\ txChan' = IF txChan = "run" THEN "paused" ELSE txChan
    /\ txHalted' = IF txChan = "none" THEN "no_channel" ELSE "none"
    /\ UNCHANGED <<flushed, underrun>>

\* Underrun without a flush: the permissive driver injects silence.
PopInject ==
    /\ Pop /\ (Short \/ Low) /\ "Flushing" \notin hw /\ perm
    /\ IF mode = "copy" THEN Into(0) /\ UNCHANGED txBuf
       ELSE /\ txBuf' = LET b == Written(Skip(txBuf), Zeros(Ratio))
                        IN IF Short THEN Skip(b) ELSE b
            /\ UNCHANGED slot
    /\ UNCHANGED <<hw, txChan, flushed, underrun, txHalted>>

\* The other one asserts that it could read a period, and goes on.  With zero
\* copy it can for as long as the prefill lasts, when the DMA has already
\* overtaken the writer.
PopAssert ==
    /\ Pop /\ ~Short /\ Low /\ "Flushing" \notin hw /\ ~perm
    /\ txBuf' = Skip(txBuf) /\ Read
    /\ underrun' = TRUE
    /\ UNCHANGED <<hw, txChan, flushed, txHalted>>

\* If it could not, the slot keeps what it holds, and the worker sleeps, with
\* the lock, before it counts the period.  Who wants the lock meanwhile spins
\* with interrupts masked, perhaps on the processor whose timer is to wake the
\* worker: nothing says that it resumes.
PopSleep ==
    /\ Pops /\ Short /\ "Flushing" \notin hw /\ ~perm
    /\ asleep' = TRUE /\ underrun' = TRUE
    /\ UNCHANGED <<hw, txBuf, slot, txChan, elapsed, flushed, txHalted>>

PopResume ==
    /\ Live /\ asleep
    /\ asleep' = FALSE /\ elapsed' = (elapsed + 1) % Room
    /\ UNCHANGED <<port, hw, txBuf, slot, txChan, played, txSem, flushed, writer, closing, calls,
                   history, txHalted>>

(***************************************************************************)
(* Calls of the client                                                     *)
(*                                                                         *)
(* Only the worker and the DMA run beside it: it writes to a port that is  *)
(* set up, sets up one that it has just opened or stopped, and neither     *)
(* writes nor starts any more between a drop and a stop.                   *)
(***************************************************************************)
TxOpen ==
    /\ Live /\ Locks /\ closing = "none" /\ "Opened" \notin hw
    /\ hw' = (hw \cup {"Opened"}) \ {"Prepared", "Started"}
    /\ txBuf' = Cleared /\ heard' = units
    /\ UNCHANGED <<port, slot, txChan, ring, flushed, writer, closing, calls, spoilt, excess,
                   underrun, drain, due, missed, txHalted>>

\* The worker is ahead of the DMA by the prefill.  No lock is taken, unless
\* IMX_SAI_TX_SETUP_LOCK is defined: a worker that sleeps counts its period in
\* the new stream.
TxSetup ==
    /\ Call /\ "Opened" \in hw /\ "Started" \notin hw /\ txChan = "none" /\ want = 0
    /\ hw' = hw \cup {"Prepared"}
    /\ txBuf' = [txBuf EXCEPT !.read = 0, !.used = IF mode = "zero" THEN Prefill ELSE 0]
    /\ slot' = IF mode = "copy" THEN NoSlots ELSE slot
    /\ txChan' = "paused" /\ played' = 0 /\ elapsed' = Prefill
    /\ heard' = units /\ excess' = txSem /\ spoilt' = FALSE /\ underrun' = asleep
    /\ UNCHANGED <<port, txSem, asleep, flushed, writer, closing, drain, due, missed, txHalted>>

\* Mutant: the ending zeros are taken for written
AlwaysFlushed == TRUE

NoEndingZeros == silence = 0

\* Starting in the middle of a flush is a panic.
TxStart ==
    /\ Live /\ Locks /\ closing = "none" /\ {"Opened", "Prepared"} \subseteq hw /\ "Started" \notin hw
    /\ drain # "drop"
    /\ flushed' = NoEndingZeros
    /\ IF "Flushing" \in hw
       THEN txHalted' = "flushing" /\ UNCHANGED <<hw, txChan>>
       ELSE /\ hw' = hw \cup {"Started", "Request", "Error"}
            /\ txChan' = IF txChan = "paused" THEN "run" ELSE txChan
            /\ UNCHANGED txHalted
    /\ drain' = "none"
    /\ UNCHANGED <<port, txBuf, slot, ring, writer, closing, calls, heard, spoilt, excess, underrun,
                   due, missed>>

\* Under the lock the port and the channel stop; the posts of the semaphore stay.
Stopped ==
    /\ hw' = hw \ {"Started", "Flushing", "Request", "Error"}
    /\ txChan' = "none"

TxStop ==
    /\ Call /\ Locks /\ "Opened" \in hw /\ want = 0
    /\ Stopped
    /\ closing' = "stop"
    /\ UNCHANGED <<port, txBuf, slot, ring, flushed, writer, history, txHalted>>

\* The buffer is reset after the lock was given up; a close takes it again.
TxReset ==
    /\ Live /\ closing # "none" /\ (closing = "close" => Locks)
    /\ txBuf' = Cleared /\ heard' = units
    /\ slot' = IF mode = "copy" THEN NoSlots ELSE slot
    /\ hw' = IF closing = "close" THEN hw \ {"Opened"} ELSE hw
    /\ closing' = "none" /\ drain' = "none"
    /\ UNCHANGED <<port, txChan, ring, flushed, writer, calls, spoilt, excess, underrun, due, missed,
                   txHalted>>

TxFlush ==
    /\ Call /\ Locks /\ "Opened" \in hw
    /\ hw' = IF "Started" \in hw THEN hw \cup {"Flushing"} ELSE hw
    /\ due' = IF "Flushing" \in hw \/ underrun THEN due ELSE units
    /\ UNCHANGED <<port, txBuf, slot, txChan, ring, flushed, writer, closing, heard, spoilt, excess,
                   underrun, drain, missed, txHalted>>

TxDrop ==
    /\ Call /\ Locks /\ "Opened" \in hw /\ want = 0
    /\ hw' = IF "Started" \in hw THEN hw \cup {"Flushing"} ELSE hw
    /\ txBuf' = [txBuf EXCEPT !.used = 0]
    /\ drain' = "drop"
    /\ UNCHANGED <<port, slot, txChan, ring, flushed, writer, closing, heard, spoilt, excess, underrun,
                   due, missed, txHalted>>

\* A port that is started is stopped first; the channel of another one is kept.
TxClose ==
    /\ Call /\ Locks /\ "Opened" \in hw /\ want = 0
    /\ IF "Started" \in hw THEN Stopped /\ closing' = "close"
       ELSE hw' = hw \ {"Opened"} /\ UNCHANGED <<txChan, closing>>
    /\ UNCHANGED <<port, txBuf, slot, ring, flushed, writer, history, txHalted>>

\* The writer tests the room, and drops all it has when it is too small.
TxWrite ==
    /\ Live /\ closing = "none" /\ {"Opened", "Prepared"} \subseteq hw /\ txChan # "none"
    /\ want = 0 /\ drain # "drop"
    /\ \E n \in 1 .. Ratio :
         /\ units + n <= MaxUnits
         /\ want' = IF n > Space(txBuf) THEN 0 ELSE n
    /\ UNCHANGED <<port, hw, txBuf, slot, txChan, ring, flushed, units, closing, calls, history, txHalted>>

\* Meanwhile the worker may have written silence: the rest is tested again.
TxCopy ==
    /\ Live /\ want > 0
    /\ LET n == RoomFor(txBuf, want)
           us == [i \in 1 .. n |-> units + i]
       IN /\ txBuf' = Written(txBuf, us)
          /\ units' = units + n
          /\ want' = IF want - n > Space(txBuf') THEN 0 ELSE want - n
    /\ UNCHANGED <<port, hw, slot, txChan, ring, flushed, closing, calls, history, txHalted>>

Worker == TxDiscard \/ PopPeriod \/ PopEndingZeros \/ PopStopRequests \/ PopInject \/ PopAssert
          \/ PopSleep

Next ==
    \/ TxPeriod \/ FifoEmpty \/ FifoStall \/ Worker \/ PopResume
    \/ TxOpen \/ TxSetup \/ TxStart \/ TxStop \/ TxReset \/ TxFlush \/ TxDrop \/ TxClose
    \/ TxWrite \/ TxCopy

\* The DMA plays, an empty FIFO is reported, the worker gets the processor.
Fairness ==
    /\ WF_vars(TxPeriod) /\ WF_vars(FifoEmpty) /\ WF_vars(Worker)
    /\ WF_vars(TxReset) /\ WF_vars(TxCopy)

Spec == Init /\ [][Next]_vars /\ Fairness

(***************************************************************************)
(* Properties                                                              *)
(***************************************************************************)
\* Every variable has its type.
TypeOK ==
    /\ mode \in Modes /\ perm \in BOOLEAN /\ silence \in Silences
    /\ hw \subseteq {"Opened", "Prepared", "Started", "Flushing", "Request", "Error"}
    /\ txBuf \in [cell : [Cells -> 0 .. MaxUnits], read : Cells, used : 0 .. Room - 1]
    /\ slot \in [0 .. NrPeriods - 1 -> 0 .. MaxUnits]
    /\ txChan \in {"none", "paused", "run"}
    /\ played \in Cells /\ elapsed \in 0 .. Room /\ txSem \in 0 .. MaxPosts
    /\ asleep \in BOOLEAN
    /\ flushed \in BOOLEAN /\ want \in 0 .. Ratio /\ closing \in {"none", "stop", "close"}
    /\ calls \in 0 .. MaxOps /\ units \in 0 .. MaxUnits /\ heard \in 0 .. MaxUnits
    /\ {spoilt, underrun} \subseteq BOOLEAN /\ excess \in 0 .. MaxPosts
    /\ {due, missed} \subseteq 0 .. MaxUnits /\ drain \in {"none", "flush", "stall", "drop"}
    /\ txHalted \in {"none", "no_channel", "flushing"}

\* A stream begins with at most one post that an earlier one has left behind,
\* for which the private buffer has a slot.
FewLeft == excess <= 1 /\ Prefill + excess <= NrPeriods

\* As long as the worker is not later than the prefill allows, what is played
\* is what was written, in its order, nothing twice and nothing left out; silence
\* may come in between.  This is said of streams without an underrun for which
\* nothing was injected: such a one makes the DMA play a slot again, or run into
\* what it has played.
PlayedInOrder == ~underrun /\ FewLeft => ~spoilt

\* What a flush cuts off: the prefill less the ending zeros.  For each post that
\* an earlier stream left behind the worker is one period further ahead.
Ahead == Prefill - 1 + excess
CutOff == IF Ahead > silence * Ratio THEN Ahead - silence * Ratio ELSE 0

\* When SAI_EVENT_DRAIN comes at the end of a flush, everything that was written
\* before has been played but for the tail.
DrainIsComplete == ~underrun /\ FewLeft /\ drain = "flush" => missed <= CutOff

\* A flush ends, with SAI_EVENT_DRAIN or with a stop: the flag does not keep a
\* later start from working.  (After a first end the errors are no longer enabled.)
FlushIsOn   == {"Flushing", "Error"} \subseteq hw
FlushIsOver == "Flushing" \notin hw \/ txHalted # "none"
FlushEnds == FlushIsOn ~> FlushIsOver

\* No assertion fails at a port that is stopped.
QuietWhenStopped == asleep => "Started" \in hw
=============================================================================
