-------------------------------- MODULE Sdma --------------------------------
(***************************************************************************)
(* The SDMA driver (drivers/sdma/sdma.c) with its two kinds of clients:    *)
(* the audio ports, whose cyclic transfers run until they are terminated,  *)
(* and the input of the ASRC (drivers/asrc/asrc.c), whose transfer has an  *)
(* end: its callback stops giving buffer descriptors back.                 *)
(*                                                                         *)
(* The SDMA engine completes the periods of a channel in the order of its  *)
(* ring of buffer descriptors and latches an interrupt; the handler runs   *)
(* on one CPU while the clients run on others.  The spin lock of the       *)
(* driver is held by the handler from the choice of a channel to the end   *)
(* of its loop; the sections that clients run under it are atomic.         *)
(*                                                                         *)
(* A descriptor is known by the client that allocated it.                  *)
(***************************************************************************)
EXTENDS Integers, FiniteSets

CONSTANTS Cyclic,     \* clients with a cyclic transfer: SAI, S/PDIF
          Finite,     \* clients whose transfer has an end: the ASRC input
          EventZero,  \* clients whose DMA event is number 0
          LastChan,   \* FSL_FEATURE_SDMA_MODULE_CHANNEL - 1
          NrBd,       \* periods of a transfer
          Totals,     \* lengths of the transfers of Finite, in periods
          Roughs,     \* may periods fail, and the handler be rough
          MaxPeriods, \* bound: periods of one cyclic transfer
          MaxErrors,  \* bound: periods that end in error
          MaxOps      \* bound: requests, starts and resumes

Clients == Cyclic \cup Finite
Chans == 1 .. LastChan
Bds == 0 .. NrBd - 1

SdmaAssumption ==
    /\ {LastChan, NrBd} \subseteq Nat \ {0} /\ {MaxPeriods, MaxErrors, MaxOps} \subseteq Nat
    /\ Totals \subseteq Nat \ {0} /\ Roughs \subseteq BOOLEAN
    /\ Cyclic \cap Finite = {} /\ EventZero \subseteq Clients
    /\ "none" \notin Clients

None == "none"

VARIABLES
    avail,     \* chan->chan_available
    desc,      \* chan->desc
    bd,        \* the bits Done and Error of each buffer descriptor
    count,     \* handle->bdCount
    index,     \* handle->bdIndex
    position,  \* the current descriptor of the engine, in the control block
    on,        \* the channel is enabled
    events,    \* CHNENBL: the channels that the event of a client triggers
    pending,   \* the interrupt status register
    isr,       \* locals of the handler
    mem,       \* is the dma_descriptor of the client allocated
    elapsed,   \* desc->period_elapsed
    rem,       \* rx_dma_rem_size, in periods
    nr,        \* dma_rx_nr_periods
    done,      \* dma_rx_completion_event
    pc, chan,  \* control point of the client, its channel
    ops,       \* calls so far (bound)
    good,      \* history: periods completed without error since prepare
    errors,    \* history: periods that ended in error
    rough       \* one of Roughs, fixed

hw      == <<position, on, pending, good, errors>>
handle  == <<bd, count, index>>
clients == <<mem, rem, nr, done, pc, chan, ops>>
vars == <<avail, desc, handle, hw, events, isr, elapsed, clients, rough>>

IsrIdle == [todo |-> {}, chan |-> 0, desc |-> None, bd |-> 0, step |-> "idle", release |-> TRUE]

Init ==
    /\ avail = [c \in Chans |-> TRUE]
    /\ desc = [c \in Chans |-> None]
    /\ bd = [c \in Chans |-> [i \in Bds |-> {}]]
    /\ count = [c \in Chans |-> 1]
    /\ index = [c \in Chans |-> 0] /\ position = [c \in Chans |-> 0]
    /\ on = [c \in Chans |-> FALSE]
    /\ events = [k \in Clients |-> {}]
    /\ pending = {} /\ isr = IsrIdle
    /\ mem = [k \in Clients |-> FALSE]
    /\ elapsed = [k \in Clients |-> 0]
    /\ rem = [k \in Clients |-> 0] /\ nr = [k \in Clients |-> NrBd]
    /\ done = [k \in Clients |-> FALSE]
    /\ pc = [k \in Clients |-> "idle"] /\ chan = [k \in Clients |-> 0]
    /\ ops = 0
    /\ good = [c \in Chans |-> 0] /\ errors = 0
    /\ rough \in Roughs

Locked == isr.step \in {"loop", "after"}

\* Mutant: the end of the ring is not looked at
NextUnwrapped(c, i) == i + 1

NextBd(c, i) == (i + 1) % count[c]

(***************************************************************************)
(* The engine                                                              *)
(***************************************************************************)

\* It stops at a buffer descriptor that has not been given back to it.  Where
\* the run is not rough, the handler has run since the last period.
Completes(c) ==
    /\ on[c] /\ "Done" \in bd[c][position[c]]
    /\ rough \/ (c \notin pending \cup isr.todo /\ isr.chan # c)

DmaPeriod(c) ==
    /\ Completes(c) /\ (desc[c] \in Cyclic => good[c] < MaxPeriods)
    /\ bd' = [bd EXCEPT ![c][position[c]] = @ \ {"Done"}]
    /\ good' = [good EXCEPT ![c] = @ + 1]
    /\ position' = [position EXCEPT ![c] = NextBd(c, @)]
    /\ pending' = pending \cup {c}
    /\ UNCHANGED <<avail, desc, count, index, on, errors, events, isr, elapsed, clients, rough>>

DmaError(c) ==
    /\ rough /\ Completes(c) /\ errors < MaxErrors
    /\ bd' = [bd EXCEPT ![c][position[c]] = {"Error"}]
    /\ errors' = errors + 1
    /\ position' = [position EXCEPT ![c] = NextBd(c, @)]
    /\ pending' = pending \cup {c}
    /\ UNCHANGED <<avail, desc, count, index, on, good, events, isr, elapsed, clients, rough>>

\* SDMA_DisableChannel: handle->eventSource is never set, event 0 is disabled.
Disabled(c) ==
    /\ on' = [on EXCEPT ![c] = FALSE]
    /\ events' = [k \in Clients |-> IF k \in EventZero THEN events[k] \ {c} ELSE events[k]]

(***************************************************************************)
(* imx_sdma_isr                                                            *)
(***************************************************************************)

\* The status is read and cleared before the channels are looked at.
IsrEnter ==
    /\ isr.step = "idle" /\ pending # {}
    /\ isr' = [IsrIdle EXCEPT !.todo = pending, !.step = "next"]
    /\ pending' = {}
    /\ UNCHANGED <<avail, desc, handle, position, on, good, errors, events, elapsed, clients, rough>>

IsrNext ==
    /\ isr.step = "next"
    /\ IF isr.todo = {} THEN isr' = IsrIdle
       ELSE LET c == CHOOSE c \in isr.todo : \A d \in isr.todo : c <= d IN
            isr' = [isr EXCEPT !.todo = @ \ {c}, !.chan = c, !.desc = desc[c],
                               !.bd = index[c], !.step = "loop"]
    /\ UNCHANGED <<avail, desc, handle, hw, events, elapsed, clients, rough>>

IsrUnlock == [IsrIdle EXCEPT !.todo = isr.todo, !.step = "next"]

HasWork ==
    /\ ~avail[isr.chan] /\ isr.desc # None
    /\ "Done" \notin bd[isr.chan][isr.bd]

IsrLeave ==
    /\ isr.step = "loop" /\ ~HasWork
    /\ isr' = IsrUnlock
    /\ UNCHANGED <<avail, desc, handle, hw, events, elapsed, clients, rough>>

\* Mutant: the descriptor that the last period needs is kept as well
NeededLess(k, left) == nr[k] < left

Needed(k, left) == nr[k] <= left

\* imx_asrc_rx_dma_cb: the descriptors that no later period needs are kept;
\* after the last period the channel is paused and the thread woken.
AsrcCallback(k, c, ok) ==
    LET left == rem[k] - 1
        last == ok /\ left = 0
    IN /\ rem' = IF ok THEN [rem EXCEPT ![k] = left] ELSE rem
       /\ isr' = [isr EXCEPT !.step = "after", !.release = ok /\ Needed(k, left)]
       /\ IF last THEN Disabled(chan[k]) ELSE UNCHANGED <<on, events>>
       /\ desc' = IF last THEN [desc EXCEPT ![chan[k]] = None] ELSE desc
       /\ done' = IF last THEN [done EXCEPT ![k] = TRUE] ELSE done

\* The callbacks of the audio drivers post a semaphore, whatever the status.
AudioCallback ==
    /\ isr' = [isr EXCEPT !.step = "after", !.release = TRUE]
    /\ UNCHANGED <<rem, on, events, desc, done>>

\* Mutant: a period that failed is counted too
CountedAlways(k, ok) == [elapsed EXCEPT ![k] = @ + 1]

Counted(k, ok) == IF ok THEN [elapsed EXCEPT ![k] = @ + 1] ELSE elapsed

\* One completed buffer descriptor: it is counted, and the client is called.
IsrPeriod ==
    /\ isr.step = "loop" /\ HasWork
    /\ LET c == isr.chan
           k == isr.desc
           ok == "Error" \notin bd[c][isr.bd]
       IN /\ bd' = [bd EXCEPT ![c][isr.bd] = @ \ {"Error"}]
          /\ elapsed' = Counted(k, ok)
          /\ index' = [index EXCEPT ![c] = NextBd(c, @)]
          /\ IF k \in Cyclic THEN AudioCallback ELSE AsrcCallback(k, c, ok)
    /\ UNCHANGED <<avail, count, position, pending, good, errors, mem, nr, pc, chan, ops, rough>>

Onwards == IF isr.release THEN [isr EXCEPT !.step = "loop", !.bd = index[isr.chan]]
           ELSE IsrUnlock

\* The descriptor of the client is read once more, for the zero-copy callback;
\* then the buffer descriptor is given back, or marked and the loop left.
IsrGiveBack ==
    /\ isr.step = "after"
    /\ bd' = [bd EXCEPT ![isr.chan][isr.bd] = @ \cup {IF isr.release THEN "Done" ELSE "Error"}]
    /\ isr' = Onwards
    /\ UNCHANGED <<avail, desc, count, index, hw, events, elapsed, clients, rough>>

Isr == IsrEnter \/ IsrNext \/ IsrLeave \/ IsrPeriod \/ IsrGiveBack

(***************************************************************************)
(* The operations of the driver, called by a client                        *)
(***************************************************************************)
Call == ops < MaxOps /\ ops' = ops + 1
Goto(k, at) == pc' = [pc EXCEPT ![k] = at]

RequestChannel(k) ==
    /\ pc[k] = "idle" /\ Call
    /\ Goto(k, "scan") /\ chan' = [chan EXCEPT ![k] = 1]
    /\ UNCHANGED <<avail, desc, handle, hw, events, isr, elapsed, mem, rem, nr, done, rough>>

\* The first available channel is allocated: zeroed descriptors, a ring of one
\* and the engine at its start.  When none is available the last is returned.
RequestScan(k) ==
    /\ pc[k] = "scan" /\ ~Locked
    /\ LET c == chan[k] IN
       IF avail[c]
       THEN /\ avail' = [avail EXCEPT ![c] = FALSE]
            /\ bd' = [bd EXCEPT ![c] = [i \in Bds |-> {}]]
            /\ count' = [count EXCEPT ![c] = 1]
            /\ index' = [index EXCEPT ![c] = 0]
            /\ position' = [position EXCEPT ![c] = 0]
            /\ Goto(k, "got") /\ UNCHANGED chan
       ELSE /\ IF c < LastChan THEN chan' = [chan EXCEPT ![k] = c + 1] /\ UNCHANGED pc
               ELSE Goto(k, "got") /\ UNCHANGED chan
            /\ UNCHANGED <<avail, handle, position>>
    /\ UNCHANGED <<desc, on, pending, good, errors, events, isr, elapsed, mem, rem, nr, done, ops,
                   rough>>

\* imx_sdma_prepare_dma_cyclic, without a lock: a new descriptor, all buffer
\* descriptors given to the engine, the handler at the first one.  The engine
\* stays where it is.  The event of the client is enabled for the channel.
Prepared(k, c, n) ==
    /\ mem' = [mem EXCEPT ![k] = TRUE]
    /\ elapsed' = [elapsed EXCEPT ![k] = 0]
    /\ bd' = [bd EXCEPT ![c] = [i \in Bds |-> IF i < n THEN {"Done"} ELSE @[i]]]
    /\ count' = [count EXCEPT ![c] = n]
    /\ index' = [index EXCEPT ![c] = 0]
    /\ events' = [events EXCEPT ![k] = @ \cup {c}]
    /\ good' = [good EXCEPT ![c] = 0]

\* An audio port; the ring is as long as its configuration says.
PrepareCyclic(k) ==
    /\ k \in Cyclic /\ pc[k] = "got"
    /\ Prepared(k, chan[k], NrBd)
    /\ Goto(k, "ready")
    /\ UNCHANGED <<avail, desc, position, on, pending, errors, isr, rem, nr, done, chan, ops, rough>>

\* imx_asrc_dma_start: a transfer shorter than the ring shortens the ring, of
\* the later transfers as well.
PrepareFinite(k) ==
    /\ k \in Finite /\ pc[k] = "got" /\ Call
    /\ \E total \in Totals :
         LET n == IF nr[k] > total THEN total ELSE nr[k] IN
         /\ nr' = [nr EXCEPT ![k] = n]
         /\ rem' = [rem EXCEPT ![k] = total]
         /\ Prepared(k, chan[k], n)
    /\ Goto(k, "ready")
    /\ UNCHANGED <<avail, desc, position, on, pending, errors, isr, done, chan, rough>>

\* imx_sdma_submit and imx_sdma_resume_channel
Submit(k) ==
    /\ pc[k] = "ready"
    /\ desc' = [desc EXCEPT ![chan[k]] = k]
    /\ on' = [on EXCEPT ![chan[k]] = TRUE]
    /\ Goto(k, "run")
    /\ UNCHANGED <<avail, handle, position, pending, good, errors, events, isr, elapsed, mem, rem,
                   nr, done, chan, ops, rough>>

Pause(k) ==
    /\ k \in Cyclic /\ pc[k] = "run"
    /\ Disabled(chan[k])
    /\ Goto(k, "paused")
    /\ UNCHANGED <<avail, desc, handle, position, pending, good, errors, isr, elapsed, mem, rem, nr,
                   done, chan, ops, rough>>

Resume(k) ==
    /\ pc[k] = "paused" /\ Call
    /\ on' = [on EXCEPT ![chan[k]] = TRUE]
    /\ Goto(k, "run")
    /\ UNCHANGED <<avail, desc, handle, position, pending, good, errors, events, isr, elapsed, mem,
                   rem, nr, done, chan, rough>>

\* What the descriptor held is gone with it.
Freed(k) == mem' = [mem EXCEPT ![k] = FALSE] /\ elapsed' = [elapsed EXCEPT ![k] = 0]

\* The channel is disabled before the lock is taken.
Terminate(k) ==
    /\ pc[k] \in IF k \in Cyclic THEN {"run", "paused"} ELSE {"got"}
    /\ Disabled(chan[k])
    /\ Goto(k, "terminate")
    /\ UNCHANGED <<avail, desc, handle, position, pending, good, errors, isr, elapsed, mem, rem, nr,
                   done, chan, ops, rough>>

\* Mutant: the channel is released without waiting for the handler
FreeNow(k) ==
    /\ pc[k] = "terminate"
    /\ avail' = [avail EXCEPT ![chan[k]] = TRUE]
    /\ desc' = [desc EXCEPT ![chan[k]] = None]
    /\ Freed(k)
    /\ good' = [good EXCEPT ![chan[k]] = 0]
    /\ Goto(k, "idle") /\ chan' = [chan EXCEPT ![k] = 0]
    /\ UNCHANGED <<handle, position, on, pending, errors, events, isr, rem, nr, done, ops, rough>>

\* Under the lock; then the client frees its descriptor.
TerminateEnd(k) ==
    /\ pc[k] = "terminate" /\ ~Locked
    /\ avail' = [avail EXCEPT ![chan[k]] = TRUE]
    /\ desc' = [desc EXCEPT ![chan[k]] = None]
    /\ Freed(k)
    /\ good' = [good EXCEPT ![chan[k]] = 0]
    /\ Goto(k, "idle") /\ chan' = [chan EXCEPT ![k] = 0]
    /\ UNCHANGED <<handle, position, on, pending, errors, events, isr, rem, nr, done, ops, rough>>

\* imx_asrc_start is woken and frees the descriptor; the channel stays.
Completed(k) ==
    /\ k \in Finite /\ pc[k] = "run" /\ done[k]
    /\ rough \/ isr.step # "after"
    /\ done' = [done EXCEPT ![k] = FALSE]
    /\ Freed(k)
    /\ Goto(k, "got")
    /\ UNCHANGED <<avail, desc, handle, hw, events, isr, rem, nr, chan, ops, rough>>

Client(k) ==
    \/ RequestChannel(k) \/ RequestScan(k) \/ PrepareCyclic(k) \/ PrepareFinite(k) \/ Submit(k)
    \/ Pause(k) \/ Resume(k) \/ Terminate(k) \/ TerminateEnd(k) \/ Completed(k)

Next ==
    \/ \E c \in Chans : DmaPeriod(c) \/ DmaError(c)
    \/ Isr
    \/ \E k \in Clients : Client(k)

Progress(k) == RequestScan(k) \/ TerminateEnd(k) \/ Completed(k) \/ Submit(k)

\* The engine and the handler make progress, and a thread that is woken or that
\* waits for the lock gets on; nobody has to start, pause or stop a transfer.
Fairness ==
    /\ \A c \in Chans : WF_vars(DmaPeriod(c))
    /\ WF_vars(Isr)
    /\ \A k \in Clients : WF_vars(Progress(k))

Spec == Init /\ [][Next]_vars /\ Fairness

-----------------------------------------------------------------------------
\* Every variable has its type.
TypeOK ==
    /\ avail \in [Chans -> BOOLEAN] /\ on \in [Chans -> BOOLEAN]
    /\ desc \in [Chans -> Clients \cup {None}]
    /\ bd \in [Chans -> [Bds -> SUBSET {"Done", "Error"}]]
    /\ count \in [Chans -> 1 .. NrBd] /\ index \in [Chans -> Bds] /\ position \in [Chans -> Bds]
    /\ events \in [Clients -> SUBSET Chans] /\ pending \in SUBSET Chans
    /\ isr \in [todo : SUBSET Chans, chan : Chans \cup {0}, desc : Clients \cup {None}, bd : Bds,
                step : {"idle", "next", "loop", "after"}, release : BOOLEAN]
    /\ mem \in [Clients -> BOOLEAN] /\ done \in [Clients -> BOOLEAN]
    /\ elapsed \in [Clients -> Nat] /\ rem \in [Clients -> Nat] /\ nr \in [Clients -> 1 .. NrBd]
    /\ pc \in [Clients -> {"idle", "scan", "got", "ready", "run", "paused", "terminate"}]
    /\ chan \in [Clients -> Chans \cup {0}] /\ ops \in 0 .. MaxOps
    /\ good \in [Chans -> Nat] /\ errors \in 0 .. MaxErrors /\ rough \in BOOLEAN

Owns(k, c) == chan[k] = c /\ pc[k] \notin {"idle", "scan"}

\* Completed buffer descriptors of a channel that the handler has not counted
Uncounted(c) ==
    {i \in Bds : /\ bd[c][i] = {}
                 /\ ~(isr.step = "after" /\ isr.chan = c /\ isr.bd = i)}

(***************************************************************************)
(* Every period that the engine completed for an audio port without error  *)
(* is either counted by the handler or still in the ring: none is skipped  *)
(* and none counted twice, however far the engine is ahead, whichever      *)
(* interrupts are merged, and across pauses and changes of the channel.    *)
(***************************************************************************)
PeriodsCounted ==
    \A k \in Cyclic, c \in Chans :
        Owns(k, c) /\ pc[k] \in {"ready", "run", "paused"} =>
            good[c] = elapsed[k] + Cardinality(Uncounted(c))

(***************************************************************************)
(* The handler works on the descriptor of an audio port only while the     *)
(* port has it: a port that terminates its channel frees the descriptor    *)
(* at once, on another CPU, maybe in the middle of an interrupt.           *)
(***************************************************************************)
DescAlive == isr.desc \in Cyclic => mem[isr.desc] /\ chan[isr.desc] = isr.chan

(***************************************************************************)
(* What SDMA_DisableChannel says ("Clear the event map"): a channel that   *)
(* one client uses is triggered by no event of another.                    *)
(***************************************************************************)
EventMapCleared == \A j, k \in Clients : pc[k] = "run" /\ chan[k] \in events[j] => j = k

(***************************************************************************)
(* A transfer of the ASRC ends, if the run is not a rough one and the      *)
(* engine starts it at the buffer descriptor that the handler looks at     *)
(* first.  When the engine is more than one period ahead, the handler      *)
(* leaves its loop at the first descriptor that is not given back, the     *)
(* engine stops, and the rest is never looked at; a period that fails is   *)
(* never done again.  A transfer is prepared with the handler at           *)
(* descriptor 0 but with the engine where the one before left it, which is *)
(* not 0 when the length of that one was no multiple of the ring.          *)
(***************************************************************************)
TransferEnds ==
    \A k \in Finite :
        ~rough /\ pc[k] = "ready" /\ position[chan[k]] = index[chan[k]] ~> pc[k] = "got"
=============================================================================
