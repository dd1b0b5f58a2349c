------------------------------ MODULE SpdifCs ------------------------------
(***************************************************************************)
(* Channel status of an S/PDIF receiver (drivers/spdif_cs/spdif_cs.c and   *)
(* the part of drivers/spdif/spdif.c that follows the lock of the DPLL).   *)
(* The S/PDIF driver finds the rate of the line; the status driver then    *)
(* samples the line through a SAI of its own, decodes the status in a      *)
(* polling thread, and gives it back to the S/PDIF driver, whose DMA       *)
(* worker notices the change and tells the application.                    *)
(*                                                                         *)
(* Five actors: the interrupt handler, the DMA worker, the thread that     *)
(* runs deferred calls, the polling thread and the application.  What a    *)
(* status says is a value; a sample is decoded to the status of the line.  *)
(***************************************************************************)
EXTENDS Integers, Sequences

CONSTANTS Lines,       \* statuses the line may have
          Rates,       \* sample rates the line may have
          RateTable,   \* the rates in rate_table of the status driver
          Redundancy,  \* cs->redundancy
          Prompts,     \* is a new rate handled before the clock goes again
          MaxTurns     \* bound: changes of the DPLL and of the line, starts of the port and
                       \* samples of a locked line that are not decoded

ASSUME SpdifCsAssumption ==
    /\ Rates # {} /\ "none" \notin Rates /\ RateTable \subseteq Rates
    /\ Lines # {} /\ "zero" \notin Lines /\ "error" \notin Lines
    /\ Redundancy \in Nat \ {0} /\ Prompts \subseteq BOOLEAN
    /\ MaxTurns \in Nat

VARIABLES
    prompt,   \* a value of Prompts
    dpll,     \* has the DPLL locked
    line,     \* status on the line
    rate,     \* its sample rate
    \* the S/PDIF driver, with DMA to a private buffer
    port,     \* "stopped", "ready" (kSPDIF_Ready, lock interrupts on), "on"
    locked,   \* kSPDIF_Locked
    warm,     \* kSPDIF_Warmup
    fs,       \* clk_fs_rate, or NoRate
    shown,    \* its current cs_buff
    given,    \* its next cs_buff
    worker,   \* control point of imx_spdif_dma_worker_thread
    dpcs,     \* the deferred calls queued
    dpc,      \* control point of the thread that runs them
    apc,      \* control point of the application
    told,     \* the status last told to the application
    \* the status driver, its fields of struct spdif_cs_s
    active,   \* SPDIF_CS_ST_ACTIVE
    event,    \* is event signaled
    sai,      \* "closed", "open", "prepared" (kSAI_hw_Prepared)
    cur,      \* cs_current
    csBuff,   \* cs_buff
    csData,   \* cs_data
    csRate,   \* spdif_rate, or NoRate
    count,    \* redundancy_count
    tpc,      \* control point of spdif_cs_thread
    sample,   \* what osr_buff decodes to, or "error"; a local that is not used any more is reset
    seen,     \* the value of count that the thread has read
    spdifHalted, \* an assertion has failed
    turns,    \* so far (bound)
    streak,   \* history: status decoded last since the start, how often in a row
    crossed,  \* history: a start has met a "round" of the thread, then its "count"; or "no"
    trusted   \* history: whatever was published had been decoded often enough

env == <<prompt, dpll, line, rate>>
driver == <<port, locked, warm, fs, shown, given>>
status == <<active, event, sai, cur, csBuff, csData, csRate, count>>
thread == <<tpc, sample, seen>>
history == <<streak, crossed, trusted>>
vars == <<env, driver, worker, dpcs, dpc, apc, told, status, thread, spdifHalted, turns, history>>

Zero == "zero"    \* a buffer that is cleared
Error == "error"
NoRate == "none"
NoStreak == [v |-> Zero, n |-> 0]

Init ==
    /\ prompt \in Prompts /\ dpll = FALSE /\ line = CHOOSE l \in Lines : TRUE
    /\ rate \in Rates /\ fs = NoRate /\ csRate = NoRate
    /\ port = "stopped" /\ locked = FALSE /\ warm = FALSE /\ shown = Zero /\ given = Zero
    /\ worker = "idle" /\ dpcs = <<>> /\ dpc = "idle" /\ apc = "idle" /\ told = Zero
    /\ active = FALSE /\ event = FALSE /\ sai = "closed"
    /\ cur = 0 /\ csBuff = [i \in 0..1 |-> Zero] /\ csData = Zero /\ count = 0
    /\ tpc = "wait" /\ sample = Error /\ seen = 0 /\ spdifHalted = FALSE
    /\ turns = 0
    /\ streak = NoStreak /\ crossed = "no" /\ trusted = TRUE

Alive == ~spdifHalted
Turn == turns < MaxTurns /\ turns' = turns + 1
MutexFree == dpc # "clear" /\ tpc # "reading"

\* A start of the status driver is on its way.
RateInHand == worker \in {"period", "rate"} \/ dpc # "idle" \/ \E i \in DOMAIN dpcs : dpcs[i] = "rate"

(***************************************************************************)
(* The line                                                                *)
(***************************************************************************)
DpllChange ==
    /\ Alive /\ Turn
    /\ dpll' = ~dpll
    /\ UNCHANGED <<prompt, line, rate, driver, worker, dpcs, dpc, apc, told, status, thread,
                   spdifHalted, history>>

\* A line that changes its rate is lost first.
LineChange ==
    /\ Alive /\ Turn
    /\ line' \in Lines /\ rate' \in (IF dpll THEN {rate} ELSE Rates)
    /\ <<line', rate'>> # <<line, rate>>
    /\ UNCHANGED <<prompt, dpll, driver, worker, dpcs, dpc, apc, told, status, thread,
                   spdifHalted, history>>

(***************************************************************************)
(* The S/PDIF driver                                                       *)
(***************************************************************************)

\* The handler, which rx_lock makes one step with respect to the worker.
IsrLocked ==
    /\ Alive /\ port # "stopped" /\ dpll /\ ~locked
    /\ locked' = TRUE
    /\ UNCHANGED <<env, port, warm, fs, shown, given, worker, dpcs, dpc, apc, told, status, thread,
                   spdifHalted, turns, history>>

\* The status is cleared, "to force update on relock".
IsrLost ==
    /\ Alive /\ port # "stopped" /\ ~dpll /\ locked
    /\ prompt => worker # "rate"
    /\ locked' = FALSE /\ warm' = FALSE
    /\ shown' = Zero /\ given' = Zero
    /\ dpcs' = dpcs \o <<"lost", "change">>
    /\ UNCHANGED <<env, port, fs, worker, dpc, apc, told, status, thread, spdifHalted, turns,
                   history>>

\* A period of the DMA: the worker reads the descriptor without the lock.  It
\* finds no period for a post that a stop has left behind, which does nothing.
WorkerWake ==
    /\ port = "on" /\ worker = "idle"
    /\ worker' = "period"
    /\ UNCHANGED <<env, driver, dpcs, dpc, apc, told, status, thread, spdifHalted, turns, history>>

\* SPDIF_GetRxSampleRate: any, where the DPLL has just lost the line
Measured == IF dpll THEN {rate} ELSE Rates

\* With the lock held the period ends the warm-up, or is pushed, or, where the
\* DPLL is not known to be locked, thrown away.
WorkerPeriod ==
    /\ worker = "period"
    /\ IF locked
       THEN /\ warm' = TRUE
            /\ IF warm THEN worker' = "parse" /\ UNCHANGED fs
               ELSE worker' = "rate" /\ fs' \in Measured
       ELSE worker' = "idle" /\ UNCHANGED <<warm, fs>>
    /\ UNCHANGED <<env, port, locked, shown, given, dpcs, dpc, apc, told, status, thread,
                   spdifHalted, turns, history>>

\* imx_spdif_cs_parse, for a driver that has the status driver
WorkerParse ==
    /\ worker = "parse"
    /\ shown' = given
    /\ worker' = IF shown = given THEN "idle" ELSE "change"
    /\ UNCHANGED <<env, port, locked, warm, fs, given, dpcs, dpc, apc, told, status, thread,
                   spdifHalted, turns, history>>

\* The lock has been given up when the call is queued.
WorkerQueue ==
    /\ worker \in {"rate", "change"}
    /\ dpcs' = Append(dpcs, worker)
    /\ worker' = "idle"
    /\ UNCHANGED <<env, driver, dpc, apc, told, status, thread, spdifHalted, turns, history>>

Worker == Alive /\ (WorkerWake \/ WorkerPeriod \/ WorkerParse \/ WorkerQueue)

(***************************************************************************)
(* The application                                                         *)
(***************************************************************************)
RxSetup ==
    /\ Alive /\ apc = "idle" /\ port = "stopped"
    /\ port' = "ready" /\ locked' = FALSE /\ warm' = FALSE
    /\ UNCHANGED <<env, fs, shown, given, worker, dpcs, dpc, apc, told, status, thread, spdifHalted,
                   turns, history>>

RxStart ==
    /\ Alive /\ apc = "idle" /\ port = "ready" /\ Turn
    /\ port' = "on"
    /\ shown' = Zero /\ given' = Zero
    /\ UNCHANGED <<env, locked, warm, fs, worker, dpcs, dpc, apc, told, status, thread, spdifHalted,
                   history>>

RxStop ==
    /\ Alive /\ apc = "idle" /\ port = "on"
    /\ prompt => ~RateInHand
    /\ port' = "stopped" /\ locked' = FALSE /\ warm' = FALSE /\ apc' = "stop"
    /\ UNCHANGED <<env, fs, shown, given, worker, dpcs, dpc, told, status, thread, spdifHalted,
                   turns, history>>

(***************************************************************************)
(* The operations of the status driver                                     *)
(***************************************************************************)

\* spdif_cs_stop, all of it under the mutex
Stop ==
    /\ MutexFree
    /\ active' = FALSE
    /\ event' = (event /\ ~active)
    /\ sai' = IF active THEN "closed" ELSE sai
    /\ UNCHANGED <<cur, csBuff, csData, csRate, count>>

RxStopStatus ==
    /\ Alive /\ apc = "stop" /\ Stop
    /\ apc' = "idle"
    /\ UNCHANGED <<env, driver, worker, dpcs, dpc, told, thread, spdifHalted, turns, history>>

\* The next deferred call is taken from the queue, and the mutex where it needs it.
Take(call) == dpc = "idle" /\ dpcs # <<>> /\ Head(dpcs) = call /\ dpcs' = Tail(dpcs)

\* imx_spdif_cs_change_cb
DpcChange ==
    /\ Take("change")
    /\ told' = shown
    /\ UNCHANGED <<env, driver, worker, dpc, apc, status, thread, spdifHalted, turns, history>>

DpcLost ==
    /\ Take("lost") /\ Stop
    /\ UNCHANGED <<env, driver, worker, dpc, apc, told, thread, spdifHalted, turns, history>>

\* spdif_cs_data_cb and the callback of the S/PDIF driver
DpcData ==
    /\ Take("data") /\ MutexFree
    /\ given' = IF active THEN csData ELSE given
    /\ UNCHANGED <<env, port, locked, warm, fs, shown, worker, dpc, apc, told, status, thread,
                   spdifHalted, turns, history>>

\* Mutant: the rates of the table are the ones that are refused
InverseTable == Rates \ RateTable

Supported == RateTable

(***************************************************************************)
(* spdif_cs_start, for the rate that was measured last.  A rate that is    *)
(* not in the table is refused, without the mutex, and who called does not *)
(* look at the result.  The thread does not hold the mutex when it         *)
(* decodes, so that it may be anywhere in a round while the buffers are    *)
(* cleared, the first of them before the second.                           *)
(***************************************************************************)
DpcStart ==
    /\ Take("rate")
    /\ IF fs \notin Supported
       THEN UNCHANGED <<active, dpc, csBuff, csRate, history>>
       ELSE /\ MutexFree
            /\ active' = TRUE
            /\ IF active
               THEN UNCHANGED <<dpc, csBuff, csRate, history>>
               ELSE /\ dpc' = "clear" /\ csRate' = fs
                    /\ csBuff' = [csBuff EXCEPT ![cur] = Zero]
                    /\ crossed' = (IF tpc = "wait" THEN "no" ELSE "round") /\ streak' = NoStreak
                    /\ UNCHANGED trusted
    /\ UNCHANGED <<env, driver, worker, apc, told, event, sai, cur, csData, count, thread,
                   spdifHalted, turns>>

\* Mutant: what was reported is not forgotten
KeepsData(v) == csData

Forgotten(v) == v

DpcClear ==
    /\ dpc = "clear"
    /\ csBuff' = [csBuff EXCEPT ![1 - cur] = Zero]
    /\ csData' = Forgotten(Zero)
    /\ count' = 0 /\ sai' = "open"
    /\ dpc' = "signal"
    /\ UNCHANGED <<env, driver, worker, dpcs, apc, told, active, event, cur, csRate, thread,
                   spdifHalted, turns, history>>

DpcSignal ==
    /\ dpc = "signal"
    /\ event' = TRUE
    /\ dpc' = "idle"
    /\ UNCHANGED <<env, driver, worker, dpcs, apc, told, active, sai, cur, csBuff, csData, csRate,
                   count, thread, spdifHalted, turns, history>>

Dpc ==
    Alive /\ (DpcChange \/ DpcLost \/ DpcData \/ DpcStart \/ DpcClear \/ DpcSignal)

(***************************************************************************)
(* spdif_cs_thread                                                         *)
(***************************************************************************)

\* Another round, after the polling interval.
Again ==
    /\ tpc' = "wait"
    /\ crossed' = IF crossed = "round" THEN "count" ELSE crossed
    /\ UNCHANGED <<streak, trusted>>

Goto(label) == tpc' = label /\ UNCHANGED history

\* The thread wakes up and sets the SAI up, with the mutex held.
Configure ==
    /\ tpc = "wait" /\ event /\ MutexFree
    /\ IF active THEN Goto("acquire") /\ sai' = "prepared" ELSE Again /\ UNCHANGED sai
    /\ UNCHANGED <<env, driver, worker, dpcs, dpc, apc, told, active, event, cur, csBuff, csData,
                   csRate, count, sample, seen, spdifHalted, turns>>

\* Mutant: the state is checked before the setup only
StaysActive == TRUE

StillActive == active

\* class_sai_start asserts kSAI_hw_Prepared.
Acquire ==
    /\ tpc = "acquire" /\ MutexFree
    /\ IF StillActive
       THEN Goto("reading") /\ spdifHalted' = (sai # "prepared")
       ELSE Again /\ UNCHANGED spdifHalted
    /\ UNCHANGED <<env, driver, worker, dpcs, dpc, apc, told, status, sample, seen, turns>>

\* What is read at the rate of another line does not decode.
ReadDone ==
    /\ tpc = "reading"
    /\ Goto("decode")
    /\ \/ sample' = (IF dpll /\ rate = csRate THEN line ELSE Error) /\ UNCHANGED turns
       \/ sample' = Error /\ dpll /\ Turn
    /\ UNCHANGED <<env, driver, worker, dpcs, dpc, apc, told, status, seen, spdifHalted>>

Decode ==
    /\ tpc = "decode" /\ sample' = Error
    /\ IF sample = Error
       THEN Again /\ UNCHANGED csBuff
       ELSE /\ tpc' = "compare"
            /\ csBuff' = [csBuff EXCEPT ![1 - cur] = sample]
            /\ streak' = [v |-> sample,
                          n |-> IF streak.v # sample THEN 1
                                ELSE IF streak.n < Redundancy THEN streak.n + 1 ELSE streak.n]
            /\ UNCHANGED <<crossed, trusted>>
    /\ UNCHANGED <<env, driver, worker, dpcs, dpc, apc, told, active, event, sai, cur, csData,
                   csRate, count, seen, spdifHalted, turns>>

\* Mutant: a new status goes on with the count of the old one
Restarted(c) == c

Recount(c) == 0

\* spdif_cs_process_cs_buff: the new status, where it differs, is current now.
Compare ==
    /\ tpc = "compare"
    /\ tpc' = "count"
    /\ IF csBuff[0] # csBuff[1]
       THEN /\ cur' = 1 - cur /\ count' = Recount(count)
            /\ crossed' = IF crossed = "count" THEN "no" ELSE crossed
       ELSE UNCHANGED <<cur, count, crossed>>
    /\ UNCHANGED <<env, driver, worker, dpcs, dpc, apc, told, active, event, sai, csBuff, csData,
                   csRate, sample, seen, spdifHalted, turns, streak, trusted>>

\* Mutant: the count goes on when it is reached
BelowOrAt(c) == c =< Redundancy

Below(c) == c < Redundancy

CountRead ==
    /\ tpc = "count"
    /\ IF Below(count) THEN Goto("store") /\ seen' = count ELSE Again /\ UNCHANGED seen
    /\ UNCHANGED <<env, driver, worker, dpcs, dpc, apc, told, status, sample, spdifHalted, turns>>

CountStore ==
    /\ tpc = "store"
    /\ count' = seen + 1 /\ seen' = 0
    /\ Goto("check")
    /\ UNCHANGED <<env, driver, worker, dpcs, dpc, apc, told, active, event, sai, cur, csBuff,
                   csData, csRate, sample, spdifHalted, turns>>

Notifies == count = Redundancy /\ csData # csBuff[cur]

Check ==
    /\ tpc = "check"
    /\ IF Notifies THEN Goto("publish") ELSE Again
    /\ UNCHANGED <<env, driver, worker, dpcs, dpc, apc, told, status, sample, seen, spdifHalted,
                   turns>>

Publish ==
    /\ tpc = "publish" /\ MutexFree
    /\ csData' = csBuff[cur]
    /\ tpc' = "queue"
    /\ trusted' = (trusted /\ (crossed # "no" \/ streak = [v |-> csBuff[cur], n |-> Redundancy]))
    /\ UNCHANGED <<env, driver, worker, dpcs, dpc, apc, told, active, event, sai, cur, csBuff,
                   csRate, count, sample, seen, spdifHalted, turns, streak, crossed>>

QueueData ==
    /\ tpc = "queue"
    /\ dpcs' = Append(dpcs, "data")
    /\ Again
    /\ UNCHANGED <<env, driver, worker, dpc, apc, told, status, sample, seen, spdifHalted, turns>>

Thread ==
    Alive /\ (Configure \/ Acquire \/ ReadDone \/ Decode \/ Compare \/ CountRead
              \/ CountStore \/ Check \/ Publish \/ QueueData)

-----------------------------------------------------------------------------
Next ==
    \/ DpllChange \/ LineChange
    \/ IsrLocked \/ IsrLost \/ Worker
    \/ RxSetup \/ RxStart \/ RxStop \/ RxStopStatus
    \/ Dpc \/ Thread

(***************************************************************************)
(* An interrupt that is pending is taken, the DMA goes on, the threads     *)
(* run.  The polling thread sleeps between two rounds, so that the thread  *)
(* of the deferred calls gets the mutex, however often it was taken.       *)
(***************************************************************************)
Fairness ==
    /\ WF_vars(IsrLocked) /\ WF_vars(IsrLost)
    /\ WF_vars(Worker) /\ SF_vars(Dpc) /\ WF_vars(Thread)

Spec == Init /\ [][Next]_vars /\ Fairness

(***************************************************************************)
(* Properties                                                              *)
(***************************************************************************)
Shown == Lines \cup {Zero}

\* Every variable has its type.
TypeOK ==
    /\ prompt \in Prompts /\ dpll \in BOOLEAN /\ line \in Lines
    /\ rate \in Rates /\ {fs, csRate} \subseteq Rates \cup {NoRate}
    /\ port \in {"stopped", "ready", "on"} /\ locked \in BOOLEAN /\ warm \in BOOLEAN
    /\ {shown, given, told, csData} \subseteq Shown
    /\ worker \in {"idle", "period", "parse", "rate", "change"}
    /\ dpcs \in Seq({"rate", "lost", "change", "data"})
    /\ dpc \in {"idle", "clear", "signal"}
    /\ apc \in {"idle", "stop"}
    /\ active \in BOOLEAN /\ event \in BOOLEAN /\ sai \in {"closed", "open", "prepared"}
    /\ cur \in 0..1 /\ csBuff \in [0..1 -> Shown]
    /\ count \in 0..Redundancy /\ seen \in 0..Redundancy
    /\ tpc \in {"wait", "acquire", "reading", "decode", "compare", "count", "store", "check",
                "publish", "queue"}
    /\ sample \in Lines \cup {Error} /\ spdifHalted \in BOOLEAN
    /\ turns \in 0..MaxTurns
    /\ streak \in [v : Shown, n : 0..Redundancy] /\ crossed \in {"no", "round", "count"} /\ trusted \in BOOLEAN

(***************************************************************************)
(* The SAI is open whenever the thread starts and reads it: "operated      *)
(* within locked in case driver is concurrently stopped and SAI driver     *)
(* closed", by a lost clock or by the application.                         *)
(***************************************************************************)
SaiIsOpen == tpc = "reading" => sai # "closed"

(***************************************************************************)
(* A status is published when it has been decoded Redundancy times in a    *)
(* row since the driver was started, except after a start that has met the *)
(* thread in a round, which then counts until the status changes.          *)
(***************************************************************************)
RedundantReport == trusted

(***************************************************************************)
(* The status of a line that stays locked, under a port that stays on, is  *)
(* told to the application, whatever it was told before, when its rate has *)
(* been measured and is in the table of the driver, and when new rates are *)
(* handled before the clock is lost or the port is stopped again.  At a    *)
(* rate that is not in the table nothing is ever told.                     *)
(***************************************************************************)
SteadyIsReported ==
    <>[](prompt /\ Alive /\ port = "on" /\ dpll /\ fs = rate /\ rate \in RateTable)
        => <>[](told = line)
=============================================================================
