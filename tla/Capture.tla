------------------------------ MODULE Capture ------------------------------
(***************************************************************************)
(* The receive side of the three audio drivers that fill a circular buffer *)
(* from an interrupt or from a DMA worker thread and let one reader wait   *)
(* for it: SAI (drivers/sai/sai.c), PDM (drivers/pdm/pdm.c) and S/PDIF     *)
(* (drivers/spdif/spdif.c).  They were written from one another and differ *)
(* in what they do when the buffer is full, when the port is stopped or    *)
(* flushed under a reader, and in who restarts what: each difference is an *)
(* action or an operator of its own.                                       *)
(*                                                                         *)
(* The unit of data is one DMA period, or one sample of the FIFO; only its *)
(* amount is kept.  The three kinds of spin lock sections are atomic.      *)
(***************************************************************************)
EXTENDS Integers

CONSTANTS Room,       \* units that rx_circ_buf holds
          Watermark,  \* handle->cbuf_watermark
          Lens,       \* lengths that readers ask for
          Burst,      \* units of one FIFO interrupt
          NrPeriods,  \* dma_nr_periods
          MaxSem,     \* bound: periods that the worker is behind
          MaxOps      \* bound: calls of stop, flush, close and errors

CaptureAssumption ==
    /\ {Room, Watermark, Burst, NrPeriods, MaxSem, MaxOps} \subseteq Nat
    /\ Lens \subseteq 1 .. Room
    /\ Watermark <= Room /\ Burst \in 1 .. Room

VARIABLES
    driver,  \* "sai", "pdm" or "spdif"
    perm,    \* SAI built with IMX_SAI_PERMISSIVE
    hw,      \* flags of the hw_state, under their names in SAI
    rx,      \* buffer, xfer_remaining, rx_wait and the flag Flushing
    chan,    \* the DMA channel, or "pio"
    ahead,   \* desc->period_elapsed - dma_period_elapsed
    sem,     \* dma_period_sem
    take,    \* local period_elapsed of the worker, -1 outside of its loop
    pc,      \* control point of the reader
    len,     \* length of the read
    left,    \* local remaining of the read
    ret,     \* local ret of the read
    caller,  \* the call of the control thread that is in progress
    ops,     \* calls and errors so far (bound)
    thrown,  \* history: a read that had all its data emptied the buffer
    halted   \* an assertion or a panic

port   == <<driver, perm>>
dma    == <<chan, ahead, sem>>
reader == <<pc, len, left, ret>>
vars == <<port, hw, rx, dma, take, reader, caller, ops, thrown, halted>>

ERR_IO == -2
ERR_CANCELLED == -1

Init ==
    /\ driver \in {"sai", "pdm", "spdif"} /\ perm \in BOOLEAN
    /\ driver # "sai" => ~perm
    /\ hw = {}
    /\ rx = [used |-> 0, xfer |-> 0, event |-> FALSE, flushing |-> FALSE, cut |-> FALSE]
    /\ chan \in IF driver = "pdm" THEN {"pio"} ELSE {"pio", "none"}
    /\ ahead = 0 /\ sem = 0 /\ take = -1
    /\ pc = "idle" /\ len = 0 /\ left = 0 /\ ret = 0
    /\ caller = "none" /\ ops = 0 /\ thrown = FALSE /\ halted = "none"

Alive == halted = "none"
Is(d) == Alive /\ driver = d
Max0(n) == IF n > 0 THEN n ELSE 0
Reading == left > 0

(***************************************************************************)
(* Into the circular buffer: the whole of a burst or of a period at once   *)
(***************************************************************************)

\* Mutant: the room is not tested
FitsAlways(r, n) == n > 0

Fits(r, n) == r.used + n <= Room

\* What does not fit empties the buffer of the permissive SAI driver, and is
\* dropped by the others.  A reader that counted on what was in it is marked.
Stored(r, n) ==
    IF Fits(r, n) THEN [r EXCEPT !.used = @ + n]
    ELSE IF perm THEN [r EXCEPT !.used = n, !.cut = @ \/ Reading]
    ELSE r

\* Mutant: what is dropped is counted as well
WrittenAll(r, n) == n

Written(r, n) == IF Fits(r, n) \/ perm THEN n ELSE 0

\* SAI counts whatever was asked for, the others only while a read is on.
Counts(r) == r.xfer > 0 /\ (driver = "sai" \/ "Busy" \in hw)

Wakes(r) == r.xfer <= 0 \/ r.used > Watermark

Push(r, n) ==
    LET s == [Stored(r, n) EXCEPT !.xfer = @ - Written(r, n)]
    IN IF Counts(r) THEN [s EXCEPT !.xfer = Max0(@), !.event = @ \/ Wakes(s)]
       ELSE Stored(r, n)

\* A flush that meets data: SAI and the FIFO interrupt of S/PDIF cancel the read.
Cancelled(r) == [r EXCEPT !.xfer = ERR_CANCELLED, !.event = TRUE]
SaiDiscard(r) == IF r.xfer > 0 THEN Cancelled(r) ELSE r

\* The S/PDIF worker also ends a flush that has nobody left to cancel.
SpdifDiscard(r) == IF "Busy" \in hw /\ r.xfer > 0 THEN Cancelled(r)
                   ELSE [r EXCEPT !.flushing = FALSE]

Discard(r) == IF driver = "sai" THEN SaiDiscard(r) ELSE SpdifDiscard(r)
Period(r) == IF r.flushing THEN Discard(r) ELSE Push(r, 1)
Periods(r, n) ==
    LET after[i \in 0 .. n] == IF i = 0 THEN r ELSE Period(after[i - 1]) IN after[n]

\* The SAI driver that is not permissive asserts that everything was written.
Overflow(n) == driver = "sai" /\ ~perm /\ ~rx.flushing /\ ~Fits(rx, n)

(***************************************************************************)
(* Interrupts without DMA                                                  *)
(***************************************************************************)
Fifo ==
    /\ chan = "pio"
    /\ rx' = IF ~rx.flushing THEN Push(rx, Burst)
             ELSE IF rx.xfer = 0 THEN rx ELSE Cancelled(rx)
    /\ halted' = IF Overflow(Burst) THEN "overflow" ELSE "none"
    /\ UNCHANGED <<port, hw, dma, take, reader, caller, ops, thrown>>

SaiIrq == Is("sai") /\ "Running" \in hw /\ Fifo
PdmIrq == Is("pdm") /\ {"Open", "Started"} \subseteq hw /\ Fifo
SpdifIrq == Is("spdif") /\ {"Open", "Started", "Locked"} \subseteq hw /\ Fifo

\* An error aborts the read.
Aborted == [rx EXCEPT !.xfer = ERR_IO, !.event = TRUE]

\* A FIFO error stops the SAI hardware as well.
SaiError ==
    /\ Is("sai") /\ "Running" \in hw
    /\ ops < MaxOps /\ ops' = ops + 1
    /\ hw' = hw \ {"Running"}
    /\ rx' = Aborted
    /\ UNCHANGED <<port, dma, take, reader, caller, thrown, halted>>

\* An error of the S/PDIF receiver aborts the read and stops nothing.
SpdifError ==
    /\ Is("spdif") /\ {"Started", "Busy"} \subseteq hw
    /\ ops < MaxOps /\ ops' = ops + 1
    /\ rx' = Aborted
    /\ UNCHANGED <<port, hw, dma, take, reader, caller, thrown, halted>>

\* With DMA only the interrupts of the S/PDIF PLL tell of its lock; a stop
\* disables them and only a setup enables them again.
LockIsTold == IF chan = "pio" THEN "Started" \in hw ELSE "LockIrq" \in hw

LockGain ==
    /\ Is("spdif") /\ "Locked" \notin hw
    /\ LockIsTold
    /\ hw' = hw \cup {"Locked"}
    /\ UNCHANGED <<port, rx, dma, take, reader, caller, ops, thrown, halted>>

\* The loss is one of the errors of the receiver.
LockLoss ==
    /\ Is("spdif") /\ "Locked" \in hw
    /\ ops < MaxOps /\ ops' = ops + 1
    /\ hw' = hw \ {"Locked"}
    /\ rx' = IF LockIsTold /\ "Busy" \in hw THEN Aborted ELSE rx
    /\ UNCHANGED <<port, dma, take, reader, caller, thrown, halted>>

(***************************************************************************)
(* DMA and its worker thread                                               *)
(***************************************************************************)

\* A period ends; without a callback ("mute") nobody is told.
DmaPeriod ==
    /\ Alive
    /\ chan \in {"run", "mute"}
    /\ IF driver = "sai" THEN "Running" \in hw ELSE "Started" \in hw
    /\ ahead < NrPeriods /\ sem < MaxSem
    /\ ahead' = ahead + 1
    /\ sem' = IF chan = "run" THEN sem + 1 ELSE sem
    /\ UNCHANGED <<port, hw, rx, chan, take, reader, caller, ops, thrown, halted>>

\* The worker compares the two counts without the lock.  It asserts, or
\* panics, when the difference, which is unsigned, is out of range; a
\* descriptor that has just been freed can hold anything.
WorkerTake ==
    /\ Alive
    /\ take = -1 /\ sem > 0
    /\ sem' = sem - 1
    /\ \E n \in (IF chan = "none" THEN 0 .. NrPeriods + 1 ELSE {ahead}) :
         IF n \in 0 .. NrPeriods
         THEN take' = n /\ UNCHANGED halted
         ELSE halted' = "elapsed" /\ UNCHANGED take
    /\ UNCHANGED <<port, hw, rx, chan, ahead, reader, caller, ops, thrown>>

\* SAI: a buffer that was freed in the meantime is written all the same.
SaiWork ==
    /\ Is("sai") /\ take >= 0
    /\ rx' = Periods(rx, take)
    /\ ahead' = ahead - take
    /\ halted' = IF take > 0 /\ "Open" \notin hw THEN "freed"
                 ELSE IF Overflow(take) THEN "overflow" ELSE "none"
    /\ take' = -1
    /\ UNCHANGED <<port, hw, chan, sem, reader, caller, ops, thrown>>

\* S/PDIF: without a lock the periods are skipped, all of them.
SpdifWork ==
    /\ Is("spdif") /\ take >= 0
    /\ IF "Locked" \in hw
       THEN rx' = Periods(rx, take) /\ ahead' = ahead - take
       ELSE ahead' = 0 /\ UNCHANGED rx
    /\ take' = -1
    /\ UNCHANGED <<port, hw, chan, sem, reader, caller, ops, thrown, halted>>

\* The channel is terminated and its descriptor freed; the count of the worker
\* starts again, before or after what the worker adds to it meanwhile; then
\* there is a new descriptor.
DmaFree == chan' = "none" /\ ahead' = 0 /\ UNCHANGED sem
DmaNew(state) == chan' = state /\ ahead' \in {0, ahead} /\ UNCHANGED sem

(***************************************************************************)
(* Calls of the owner of the port                                          *)
(*                                                                         *)
(* A client opens, configures and closes a port while nobody reads from    *)
(* it; stop and flush may come at any time, from another thread.           *)
(***************************************************************************)
Quiet == pc = "idle" /\ caller = "none"
Call == ops < MaxOps /\ ops' = ops + 1

Open ==
    /\ Quiet /\ "Open" \notin hw
    /\ hw' = hw \cup {"Open"}
    /\ rx' = [rx EXCEPT !.used = 0]
    /\ UNCHANGED <<port, dma, take, reader, caller, ops, thrown, halted>>

SaiOpen == Is("sai") /\ Open
PdmOpen == Is("pdm") /\ Open
SpdifOpen == Is("spdif") /\ Open

\* SAI asserts that the port is not started.  With DMA the old channel is
\* terminated and its descriptor freed before there is a new one.
SaiSetup ==
    /\ Is("sai") /\ Quiet /\ "Open" \in hw
    /\ "Started" \in hw => "Ready" \notin hw
    /\ "Ready" \notin hw \/ ops < MaxOps
    /\ ops' = IF "Ready" \in hw THEN ops + 1 ELSE ops
    /\ IF "Started" \in hw
       THEN halted' = "setup" /\ UNCHANGED <<hw, dma, caller>>
       ELSE /\ UNCHANGED halted
            /\ IF chan = "pio"
               THEN hw' = hw \cup {"Ready"} /\ UNCHANGED <<dma, caller>>
               ELSE caller' = "setup" /\ DmaFree /\ UNCHANGED hw
    /\ UNCHANGED <<port, rx, take, reader, thrown>>

SaiSetupEnd ==
    /\ Is("sai") /\ caller = "setup"
    /\ DmaNew("paused")
    /\ hw' = hw \cup {"Ready"}
    /\ caller' = "none"
    /\ UNCHANGED <<port, rx, take, reader, ops, thrown, halted>>

PdmSetup ==
    /\ Is("pdm") /\ Quiet /\ "Open" \in hw /\ "Ready" \notin hw
    /\ hw' = hw \cup {"Ready"}
    /\ UNCHANGED <<port, rx, dma, take, reader, caller, ops, thrown, halted>>

\* S/PDIF changes the channel inside of one critical section.
SpdifSetup ==
    /\ Is("spdif") /\ Quiet /\ "Open" \in hw /\ "Started" \notin hw
    /\ "Ready" \notin hw \/ ops < MaxOps
    /\ ops' = IF "Ready" \in hw THEN ops + 1 ELSE ops
    /\ hw' = (hw \cup {"Ready", "LockIrq"}) \ {"Locked"}
    /\ IF chan = "pio" THEN UNCHANGED dma
       ELSE chan' = "paused" /\ ahead' = 0 /\ UNCHANGED sem
    /\ UNCHANGED <<port, rx, take, reader, caller, thrown, halted>>

StartHw(h) == IF "Started" \in h THEN h \cup {"Running"} ELSE h
Resumed == IF chan = "paused" THEN "run" ELSE chan

\* The start of each driver, which a read of SAI and S/PDIF calls as well.
Started ==
    /\ hw' = IF driver = "sai" THEN StartHw(hw \cup {"Started"}) ELSE hw \cup {"Started"}
    /\ chan' = Resumed

Start ==
    /\ caller = "none"
    /\ {"Open", "Ready"} \subseteq hw /\ "Started" \notin hw
    /\ Started
    /\ UNCHANGED <<port, rx, ahead, sem, take, reader, caller, ops, thrown, halted>>

SaiStart == Is("sai") /\ pc \notin {"free", "new"} /\ Start
PdmStart == Is("pdm") /\ Start
SpdifStart == Is("spdif") /\ Start

Halt == [rx EXCEPT !.xfer = ERR_IO]

\* Pausing the channel that a failed read has just given up is a call through NULL.
SaiStop ==
    /\ Is("sai") /\ caller = "none" /\ {"Open", "Started"} \subseteq hw /\ Call
    /\ rx' = Halt
    /\ hw' = hw \ {"Running", "Started"}
    /\ chan' = IF chan \in {"run", "mute"} THEN "paused" ELSE chan
    /\ halted' = IF chan = "none" THEN "no_channel" ELSE "none"
    /\ caller' = "stop"
    /\ UNCHANGED <<port, ahead, sem, take, reader, thrown>>

PdmStop ==
    /\ Is("pdm") /\ caller = "none" /\ "Started" \in hw /\ Call
    /\ rx' = Halt
    /\ hw' = hw \ {"Started"}
    /\ caller' = "stop"
    /\ UNCHANGED <<port, dma, take, reader, thrown, halted>>

SpdifStop ==
    /\ Is("spdif") /\ caller = "none" /\ "Started" \in hw /\ Call
    /\ rx' = Halt
    /\ hw' = hw \ {"Started", "Locked", "LockIrq"}
    /\ chan' = IF chan = "run" THEN "paused" ELSE chan
    /\ caller' = "stop"
    /\ UNCHANGED <<port, ahead, sem, take, reader, thrown, halted>>

\* The reader is woken outside of the critical section.
StopSignal ==
    /\ Alive /\ caller = "stop"
    /\ rx' = [rx EXCEPT !.event = TRUE]
    /\ caller' = "none"
    /\ UNCHANGED <<port, hw, dma, take, reader, ops, thrown, halted>>

Emptied == [rx EXCEPT !.used = 0, !.cut = @ \/ Reading]
Flushed(on) == IF on THEN [rx EXCEPT !.flushing = TRUE] ELSE Emptied

SaiFlush ==
    /\ Is("sai") /\ caller = "none" /\ "Open" \in hw /\ Call
    /\ rx' = Flushed(rx.xfer > 0)
    /\ UNCHANGED <<port, hw, dma, take, reader, caller, thrown, halted>>

SpdifFlush ==
    /\ Is("spdif") /\ caller = "none" /\ "Open" \in hw /\ Call
    /\ rx' = Flushed("Busy" \in hw)
    /\ UNCHANGED <<port, hw, dma, take, reader, caller, thrown, halted>>

\* SAI stops a port that is started and running, and none after a FIFO error.
SaiClose ==
    /\ Is("sai") /\ Quiet /\ "Open" \in hw /\ Call
    /\ LET stops == {"Started", "Running"} \subseteq hw IN
       /\ hw' = hw \ ({"Open", "Ready"} \cup IF stops THEN {"Started", "Running"} ELSE {})
       /\ rx' = IF stops THEN [Halt EXCEPT !.event = TRUE] ELSE rx
       /\ chan' = IF stops /\ chan \in {"run", "mute"} THEN "paused" ELSE chan
    /\ UNCHANGED <<port, ahead, sem, take, reader, caller, thrown, halted>>

\* PDM and S/PDIF free the buffer or forget it, and stop nothing.
Close ==
    /\ Quiet /\ "Open" \in hw /\ Call
    /\ hw' = hw \ {"Open"}
    /\ UNCHANGED <<port, rx, dma, take, reader, caller, thrown, halted>>

PdmClose == Is("pdm") /\ Close
SpdifClose == Is("spdif") /\ Close

(***************************************************************************)
(* The read of SAI                                                         *)
(***************************************************************************)

\* What is not in the buffer yet, when a read begins.
Missing(r, n) == Max0(n - r.used)

\* Mutant: what is in the buffer is asked for again
AskedAll(n) == [rx EXCEPT !.xfer = n, !.cut = FALSE]

Asked(n) == [rx EXCEPT !.xfer = Missing(rx, n), !.cut = FALSE]
MayRead == Quiet /\ {"Open", "Ready"} \subseteq hw

SaiRead ==
    /\ Is("sai") /\ MayRead
    /\ \E n \in Lens : rx' = Asked(n) /\ len' = n /\ left' = n
    /\ hw' = StartHw(hw)
    /\ pc' = "check"
    /\ UNCHANGED <<port, dma, take, ret, caller, ops, thrown, halted>>

\* A port that was stopped in the meantime is started again.
SaiAutostart ==
    /\ Is("sai") /\ pc = "check"
    /\ IF "Started" \in hw THEN UNCHANGED <<hw, chan>> ELSE Started
    /\ pc' = "copy"
    /\ UNCHANGED <<port, rx, ahead, sem, take, len, left, ret, caller, ops, thrown, halted>>

\* cbuf_read, for which no lock is needed; all three drivers.
Copy ==
    /\ Alive /\ pc = "copy"
    /\ LET n == IF left < rx.used THEN left ELSE rx.used IN
       /\ left' = left - n
       /\ rx' = [rx EXCEPT !.used = @ - n]
    /\ pc' = IF left' > 0 THEN "wait" ELSE "end"
    /\ UNCHANGED <<port, hw, dma, take, len, ret, caller, ops, thrown, halted>>

\* The event of SAI stays signaled until the read is over.
Wake ==
    /\ Alive /\ pc = "wait" /\ rx.event
    /\ rx' = [rx EXCEPT !.event = driver = "sai"]
    /\ pc' = IF rx.xfer < 0 THEN "end" ELSE "copy"
    /\ UNCHANGED <<port, hw, dma, take, len, left, ret, caller, ops, thrown, halted>>

\* SAI reads the result without the lock, and takes the lock to clear it.
SaiResult ==
    /\ Is("sai") /\ pc = "end"
    /\ ret' = rx.xfer
    /\ pc' = "finish"
    /\ UNCHANGED <<port, hw, rx, dma, take, len, left, caller, ops, thrown, halted>>

\* Mutant: the flag Flushing is forgotten
FlushingStays(r) == [r EXCEPT !.used = 0]

EndFlush(r) == [r EXCEPT !.used = 0, !.flushing = FALSE]

\* The buffer is emptied at the end of a read that has got all it asked for.
Throws(result) == left = 0 /\ result > 0 /\ rx.used > 0

SaiFinish ==
    /\ Is("sai") /\ pc = "finish"
    /\ LET r == [rx EXCEPT !.xfer = 0, !.event = FALSE]
       IN rx' = IF ret = 0 THEN r ELSE EndFlush(r)
    /\ thrown' = (thrown \/ Throws(ret))
    /\ chan' = IF ret # 0 /\ chan = "run" THEN "mute" ELSE chan
    /\ pc' = IF ret = 0 THEN "idle" ELSE IF chan = "pio" THEN "restart" ELSE "free"
    /\ left' = 0
    /\ UNCHANGED <<port, hw, ahead, sem, take, len, ret, caller, ops, halted>>

\* Mutant: the hardware stays stopped after an error
RestartedNot(h) == h

Restarted(h) == StartHw(h)

\* After an error the DMA channel is replaced, without the lock.
SaiFree ==
    /\ Is("sai") /\ pc = "free"
    /\ DmaFree
    /\ pc' = "new"
    /\ UNCHANGED <<port, hw, rx, take, len, left, ret, caller, ops, thrown, halted>>

SaiNew ==
    /\ Is("sai") /\ pc = "new"
    /\ DmaNew("run")
    /\ pc' = "restart"
    /\ UNCHANGED <<port, hw, rx, take, len, left, ret, caller, ops, thrown, halted>>

\* IMX_SAI_READ_SILENT_RETRY: the read starts again, for all of its length.
SaiRestart ==
    /\ Is("sai") /\ pc = "restart"
    /\ IF ret < 0
       THEN /\ hw' = Restarted(hw)
            /\ rx' = [rx EXCEPT !.xfer = len, !.cut = FALSE]
            /\ left' = len /\ pc' = "check"
       ELSE pc' = "idle" /\ UNCHANGED <<hw, rx, left>>
    /\ ret' = 0
    /\ UNCHANGED <<port, dma, take, len, caller, ops, thrown, halted>>

(***************************************************************************)
(* The reads of PDM and S/PDIF                                             *)
(***************************************************************************)

\* PDM sets Busy after it has given up the lock, and asserts that it is on.
PdmRead ==
    /\ Is("pdm") /\ MayRead /\ "Started" \in hw
    /\ \E n \in Lens : rx' = Asked(n) /\ len' = n /\ left' = n
    /\ pc' = "check"
    /\ UNCHANGED <<port, hw, dma, take, ret, caller, ops, thrown, halted>>

PdmBusy ==
    /\ Is("pdm") /\ pc = "check"
    /\ IF "Started" \in hw
       THEN hw' = hw \cup {"Busy"} /\ pc' = "copy" /\ UNCHANGED halted
       ELSE halted' = "not_on" /\ UNCHANGED <<hw, pc>>
    /\ UNCHANGED <<port, rx, dma, take, len, left, ret, caller, ops, thrown>>

\* S/PDIF starts a stopped port before it takes the lock.
SpdifRead ==
    /\ Is("spdif") /\ MayRead
    /\ IF "Started" \in hw THEN UNCHANGED <<hw, chan>> ELSE Started
    /\ pc' = "check"
    /\ UNCHANGED <<port, rx, ahead, sem, take, len, left, ret, caller, ops, thrown, halted>>

SpdifBusy ==
    /\ Is("spdif") /\ pc = "check"
    /\ hw' = hw \cup {"Busy"}
    /\ \E n \in Lens : rx' = Asked(n) /\ len' = n /\ left' = n
    /\ pc' = "copy"
    /\ UNCHANGED <<port, dma, take, ret, caller, ops, thrown, halted>>

TimeOut ==
    /\ Alive /\ driver # "sai" /\ pc = "wait" /\ ~rx.event
    /\ pc' = "end"
    /\ UNCHANGED <<port, hw, rx, dma, take, len, left, ret, caller, ops, thrown, halted>>

\* The end of both, in one critical section.  PDM has no flush to end.
Ended ==
    /\ rx' = [(IF rx.xfer = 0 THEN [rx EXCEPT !.flushing = FALSE] ELSE EndFlush(rx)) EXCEPT !.xfer = 0]
    /\ hw' = hw \ {"Busy"}
    /\ thrown' = (thrown \/ Throws(rx.xfer))
    /\ left' = 0
    /\ pc' = "idle"
    /\ UNCHANGED <<port, dma, take, len, ret, caller, ops, halted>>

PdmEnd == Is("pdm") /\ pc = "end" /\ Ended
SpdifEnd == Is("spdif") /\ pc = "end" /\ Ended

(***************************************************************************)
(* The whole                                                               *)
(***************************************************************************)
Interrupt == SaiIrq \/ PdmIrq \/ SpdifIrq
Worker == WorkerTake \/ SaiWork \/ SpdifWork
SaiReader == SaiAutostart \/ SaiResult \/ SaiFinish \/ SaiFree \/ SaiNew \/ SaiRestart
OtherReader == PdmBusy \/ SpdifBusy \/ TimeOut \/ PdmEnd \/ SpdifEnd
Reader == Copy \/ Wake \/ SaiReader \/ OtherReader

Owner ==
    \/ SaiOpen \/ PdmOpen \/ SpdifOpen
    \/ SaiSetup \/ SaiSetupEnd \/ PdmSetup \/ SpdifSetup
    \/ SaiStart \/ PdmStart \/ SpdifStart
    \/ SaiStop \/ PdmStop \/ SpdifStop \/ StopSignal
    \/ SaiFlush \/ SpdifFlush
    \/ SaiClose \/ PdmClose \/ SpdifClose

Next ==
    \/ Interrupt \/ SaiError \/ SpdifError \/ LockGain \/ LockLoss
    \/ DmaPeriod \/ Worker
    \/ Owner
    \/ SaiRead \/ PdmRead \/ SpdifRead \/ Reader

\* The hardware delivers while it runs, threads get the processor, and a
\* thread that has called stop or setup goes on.
Fairness ==
    /\ WF_vars(Interrupt) /\ WF_vars(DmaPeriod) /\ WF_vars(Worker)
    /\ WF_vars(Reader) /\ WF_vars(StopSignal) /\ WF_vars(SaiSetupEnd)

Spec == Init /\ [][Next]_vars /\ Fairness

(***************************************************************************)
(* Properties                                                              *)
(***************************************************************************)
\* Every variable has its type; the buffer never holds more than it has room for.
TypeOK ==
    /\ driver \in {"sai", "pdm", "spdif"} /\ perm \in BOOLEAN
    /\ hw \subseteq {"Open", "Ready", "Started", "Running", "Busy", "Locked", "LockIrq"}
    /\ rx \in [used : 0 .. Room, xfer : ERR_IO .. Room, event : BOOLEAN,
               flushing : BOOLEAN, cut : BOOLEAN]
    /\ chan \in {"pio", "none", "paused", "run", "mute"}
    /\ ahead \in -((MaxSem + 1) * NrPeriods) .. NrPeriods /\ sem \in 0 .. MaxSem /\ take \in -1 .. NrPeriods
    /\ pc \in {"idle", "check", "copy", "wait", "end", "finish", "free", "new", "restart"}
    /\ len \in {0} \cup Lens /\ left \in 0 .. Room /\ ret \in ERR_IO .. Room
    /\ caller \in {"none", "setup", "stop"} /\ ops \in 0 .. MaxOps
    /\ halted \in {"none", "overflow", "elapsed", "freed", "setup", "no_channel", "not_on"}

\* What a reader still needs is in the buffer or in xfer_remaining, so that it is
\* not left short by the units that came between the computation of
\* xfer_remaining and the wait, nor by those that were dropped: unless the
\* buffer was emptied under it.  A read of S/PDIF that gets all of its data
\* leaves the rest to the next one.
ReadIsCovered ==
    /\ Reading /\ pc \in {"check", "copy", "wait"} /\ ~rx.cut /\ rx.xfer >= 0
        => left <= rx.used + rx.xfer
    /\ driver = "spdif" => ~thrown

\* A flush ends with the read that it cancels: otherwise all data is discarded
\* until somebody reads again.
FlushHasReader == rx.flushing => pc # "idle"

\* A read returns, whatever stops, flushes and errors come in between, unless
\* an assertion fails or the buffer was emptied under a reader of SAI, which
\* then waits without a timeout for data that nobody counts.
ReadIsOn   == pc # "idle"
ReadIsOver == pc = "idle" \/ halted # "none" \/ rx.cut
ReadReturns == ReadIsOn ~> ReadIsOver

\* The worker thread of SAI is never more than dma_nr_periods behind, nor ahead.
ElapsedInRange == ~(driver = "sai" /\ halted = "elapsed")
=============================================================================
