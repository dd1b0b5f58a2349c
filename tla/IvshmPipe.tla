----------------------------- MODULE IvshmPipe -----------------------------
(***************************************************************************)
(* The ivshmem pipe: two peers that share a memory region and one state    *)
(* register each (dev/ivshmem/ivshmem-pipe.c; both peers run this code,    *)
(* one under Little Kernel and one under Linux).                           *)
(*                                                                         *)
(* Per peer there is the boot code (ivshm_pipe_init), the interrupt        *)
(* handler (ivshm_pipe_isr), the pipe thread (ivshm_pipe_thread with       *)
(* ivshm_pipe_fsm and the receiving half of ivshm_pipe_poll) and one       *)
(* writer (ivshm_tx_frame with ivshm_notify_tx, serialised by              *)
(* tx_free_lock).  A peer may be restarted, its memory half and the other  *)
(* peer surviving.  What a frame is made of is modelled in IvshmVring.     *)
(***************************************************************************)
EXTENDS Integers

CONSTANTS MaxRestarts,   \* bound: restarts of a cell in a behaviour
          Writers,       \* bound: the peers whose services write
          MaxFrames,     \* bound: frames a peer publishes in one session
          ShmFits,       \* half of the shared region holds the smallest rings
          CalmWindow,    \* no interrupt hits a cell between the moment it enables
                         \* interrupts and the moment it sets itself to RESET
          QuietBoot,     \* a cell boots only when its peer has come to rest
          RestartInRun   \* a cell restarts only while its peer is in RUN

ASSUME PipeAssumption ==
    /\ MaxRestarts \in Nat
    /\ Writers \subseteq {0, 1}
    /\ MaxFrames \in Nat
    /\ ShmFits \in BOOLEAN
    /\ CalmWindow \in BOOLEAN
    /\ QuietBoot \in BOOLEAN
    /\ RestartInRun \in BOOLEAN

Peers == {0, 1}
Other(p) == 1 - p

RESET == 0
INIT  == 1
READY == 2
RUN   == 3
States == RESET..RUN

U16 == 65536   \* ring indices are u16
Index == 0..U16 - 1

VARIABLES
    boot,          \* progress of ivshm_pipe_init
    geometry,      \* vrsize, qlen and qsize have been computed
    lstate,        \* info->lstate
    reg,           \* the state register the hypervisor publishes for the peer
    rstate,        \* info->rstate: last peer state the FSM has seen
    stateChange,   \* info->state_change
    dataAvail,     \* info->data_available
    sem,           \* count of info->semwait
    pend,          \* an interrupt is latched for this peer
    tpc,           \* control point of the pipe thread
    seen,          \* local rstate of ivshm_pipe_fsm
    target,        \* state ivshm_pipe_fsm is about to publish
    doPoll,        \* local data_available of ivshm_pipe_thread
    services,      \* the services of the peer are enabled
    availIdx,      \* vr.avail->idx in the peer's half, written by its tx
    lastAvail,     \* rx.last_avail_idx
    availEvent,    \* vring_avail_event(rx), in the peer's half
    numAdded,      \* tx.num_added
    wpc,           \* control point of the peer's writer
    restarts       \* restarts so far (bound)

bootVars  == <<boot, geometry>>
localVars == <<lstate, rstate, services>>
eventVars == <<stateChange, dataAvail, sem>>
threadVars == <<tpc, seen, target, doPoll>>
ringVars  == <<availIdx, lastAvail, availEvent, numAdded>>
vars == <<bootVars, localVars, reg, eventVars, pend, threadVars, ringVars,
          wpc, restarts>>

Init ==
    /\ boot        = [p \in Peers |-> "off"]
    /\ geometry    = [p \in Peers |-> FALSE]
    /\ lstate      = [p \in Peers |-> RESET]
    /\ reg         = [p \in Peers |-> RESET]
    /\ rstate      = [p \in Peers |-> RESET]
    /\ stateChange = [p \in Peers |-> 0]
    /\ dataAvail   = [p \in Peers |-> 0]
    /\ sem         = [p \in Peers |-> 0]
    /\ pend        = [p \in Peers |-> FALSE]
    /\ tpc         = [p \in Peers |-> "wait"]
    /\ seen        = [p \in Peers |-> RESET]
    /\ target      = [p \in Peers |-> RESET]
    /\ doPoll      = [p \in Peers |-> FALSE]
    /\ services    = [p \in Peers |-> FALSE]
    /\ availIdx    = [p \in Peers |-> 0]
    /\ lastAvail   = [p \in Peers |-> 0]
    /\ availEvent  = [p \in Peers |-> 0]
    /\ numAdded    = [p \in Peers |-> 0]
    /\ wpc         = [p \in Peers |-> "idle"]
    /\ restarts    = 0

(***************************************************************************)
(* Helpers                                                                 *)
(***************************************************************************)

\* q handles interrupts already, and has not yet initialised its state.
InWindow(q) == boot[q] \in {"calc", "reset"}

\* The hypervisor raises an interrupt for q; it is lost while q has not
\* enabled its interrupts, and coalesces with one that is already latched.
Raise(q) ==
    /\ CalmWindow => ~InWindow(q)
    /\ pend' = [pend EXCEPT ![q] = @ \/ boot[q] # "off"]

\* ivshm_get_rstate
PeerState(p) == reg[Other(p)]

\* ivshm_rx_avail
RxAvail(p) == availIdx[Other(p)] # lastAvail[p]

\* Mutant: only the local state is looked at
CheckStateLocalOnly(p) == lstate[p] # RUN

\* ivshm_pipe_check_state
CheckState(p) == PeerState(p) # rstate[p] \/ lstate[p] # RUN

\* ivshm_pipe_set_state: the local copy, then the register.  Writing the
\* register raises an interrupt for the peer when the value changes.
SetState(p, s) ==
    /\ lstate' = [lstate EXCEPT ![p] = s]
    /\ reg' = [reg EXCEPT ![p] = s]
    /\ IF reg[p] # s THEN Raise(Other(p)) ELSE UNCHANGED pend

\* vring_need_event, in u16 arithmetic
NeedEvent(event, new, old) ==
    (new - event - 1) % U16 < (new - old) % U16

\* Nothing is left to do at q: no latched interrupt, no wake-up to consume,
\* the thread waits and no write is in progress.
AtRest(q) ==
    \/ boot[q] = "off"
    \/ /\ boot[q] = "done"
       /\ tpc[q] = "wait"
       /\ sem[q] = 0
       /\ ~pend[q]
       /\ wpc[q] = "idle"

(***************************************************************************)
(* Boot: ivshm_pipe_init.  The thread exists from the first step on, and   *)
(* interrupts are enabled by it, before the geometry is computed and       *)
(* before the state is set to RESET.                                       *)
(***************************************************************************)

BootIrq(p) ==
    /\ boot[p] = "off"
    /\ QuietBoot => AtRest(Other(p))
    /\ boot' = [boot EXCEPT ![p] = "calc"]
    /\ UNCHANGED <<geometry, localVars, reg, eventVars, pend, threadVars,
                   ringVars, wpc, restarts>>

\* ivshm_calc_qsize gives up on a region that is too small, and nobody looks
\* at its result
Calc(p) == geometry' = [geometry EXCEPT ![p] = ShmFits]

BootCalc(p) ==
    /\ boot[p] = "calc"
    /\ Calc(p)
    /\ boot' = [boot EXCEPT ![p] = "reset"]
    /\ UNCHANGED <<localVars, reg, eventVars, pend, threadVars, ringVars,
                   wpc, restarts>>

BootReset(p) ==
    /\ boot[p] = "reset"
    /\ SetState(p, RESET)
    /\ boot' = [boot EXCEPT ![p] = "check"]
    /\ UNCHANGED <<geometry, rstate, services, eventVars, threadVars,
                   ringVars, wpc, restarts>>

BootCheck(p) ==
    /\ boot[p] = "check"
    /\ IF CheckState(p)
         THEN /\ stateChange' = [stateChange EXCEPT ![p] = @ + 1]
              /\ boot' = [boot EXCEPT ![p] = "post"]
         ELSE /\ boot' = [boot EXCEPT ![p] = "done"]
              /\ UNCHANGED stateChange
    /\ UNCHANGED <<geometry, localVars, reg, dataAvail, sem, pend,
                   threadVars, ringVars, wpc, restarts>>

BootPost(p) ==
    /\ boot[p] = "post"
    /\ sem' = [sem EXCEPT ![p] = @ + 1]
    /\ boot' = [boot EXCEPT ![p] = "done"]
    /\ UNCHANGED <<geometry, localVars, reg, stateChange, dataAvail, pend,
                   threadVars, ringVars, wpc, restarts>>

(***************************************************************************)
(* Interrupt handler: ivshm_pipe_isr, under info->lock                     *)
(***************************************************************************)

\* Mutant: the semaphore is posted for a change of state only
PostsForState(state, data) == state

Posts(state, data) == state \/ data

Isr(p) ==
    /\ pend[p]
    /\ pend' = [pend EXCEPT ![p] = FALSE]
    /\ LET state == CheckState(p)
           data  == lstate[p] = RUN /\ RxAvail(p)
       IN  /\ stateChange' = [stateChange EXCEPT ![p] = IF state THEN @ + 1 ELSE @]
           /\ dataAvail' = [dataAvail EXCEPT ![p] = IF data THEN @ + 1 ELSE @]
           /\ sem' = [sem EXCEPT ![p] = IF Posts(state, data) THEN @ + 1 ELSE @]
    /\ UNCHANGED <<bootVars, localVars, reg, threadVars, ringVars, wpc,
                   restarts>>

(***************************************************************************)
(* The pipe thread                                                         *)
(***************************************************************************)

\* sem_timedwait returns because the semaphore was posted
Wake(p) ==
    /\ boot[p] # "off"
    /\ tpc[p] = "wait"
    /\ sem[p] > 0
    /\ sem' = [sem EXCEPT ![p] = @ - 1]
    /\ tpc' = [tpc EXCEPT ![p] = "take"]
    /\ UNCHANGED <<bootVars, localVars, reg, stateChange, dataAvail, pend,
                   seen, target, doPoll, ringVars, wpc, restarts>>

\* Mutant: a timeout is not a reason to poll
PollsNever(p) == FALSE

PollsOnTimeout(p) == lstate[p] = RUN

\* sem_timedwait returns ERR_TIMED_OUT: in RUN the thread polls anyway
Timeout(p) ==
    /\ boot[p] # "off"
    /\ tpc[p] = "wait"
    /\ sem[p] = 0
    /\ doPoll' = [doPoll EXCEPT ![p] = PollsOnTimeout(p)]
    /\ tpc' = [tpc EXCEPT ![p] = "take"]
    /\ UNCHANGED <<bootVars, localVars, reg, eventVars, pend, seen, target,
                   ringVars, wpc, restarts>>

\* Where the thread goes once it knows what there is to do
Dispatch(fsm, poll) == IF fsm THEN "fsm" ELSE IF poll THEN "poll" ELSE "wait"

\* Mutant: the counter is decremented without a test
LessOne(n) == n - 1

\* The counter of an event after one has been taken
Taken(n) == IF n > 0 THEN n - 1 ELSE n

\* Under info->lock: take one event of each kind
Take(p) ==
    /\ tpc[p] = "take"
    /\ LET fsm  == stateChange[p] > 0
           poll == doPoll[p] \/ dataAvail[p] > 0
       IN  /\ doPoll' = [doPoll EXCEPT ![p] = poll]
           /\ stateChange' = [stateChange EXCEPT ![p] = Taken(@)]
           /\ dataAvail' = [dataAvail EXCEPT ![p] = Taken(@)]
           /\ tpc' = [tpc EXCEPT ![p] = Dispatch(fsm, poll)]
    /\ UNCHANGED <<bootVars, localVars, reg, sem, pend, seen, target,
                   ringVars, wpc, restarts>>

\* ivshm_pipe_fsm reads the peer's register once
FsmRead(p) ==
    /\ tpc[p] = "fsm"
    /\ seen' = [seen EXCEPT ![p] = PeerState(p)]
    /\ tpc' = [tpc EXCEPT ![p] = "act"]
    /\ UNCHANGED <<bootVars, localVars, reg, eventVars, pend, target,
                   doPoll, ringVars, wpc, restarts>>

\* Mutants: an off-by-one in the test of RESET; a test for equality in INIT;
\* RUN entered on a peer that is only INIT
LeavesResetLate(s) == s <= READY
LeavesInitExact(s) == s = INIT
LeavesReadyEarly(s) == s >= INIT

\* Whether a peer seen in s lets the FSM leave RESET, INIT and READY
LeavesReset(s) == s < READY
LeavesInit(s) == s > RESET
LeavesReady(s) == s >= READY

\* The state the FSM moves to from what it has seen, lstate[p] for none
FsmTarget(p) ==
    CASE lstate[p] = RESET /\ LeavesReset(seen[p]) -> INIT
      [] lstate[p] = INIT  /\ LeavesInit(seen[p])  -> READY
      [] lstate[p] = READY /\ LeavesReady(seen[p]) -> RUN
      [] lstate[p] = RUN   /\ seen[p] = RESET      -> RESET
      [] OTHER -> lstate[p]

\* The FSM is about to initialise the queues
Reinitialising(p) ==
    tpc[p] = "act" /\ lstate[p] = INIT /\ FsmTarget(p) = READY

\* Mutant: the local receive queue is kept
KeepRx(p) == lastAvail' = lastAvail

\* ivshm_init_queue, of the receive queue
InitRx(p) == lastAvail' = [lastAvail EXCEPT ![p] = 0]

\* ivshm_init_queues: zero the own half, which holds the avail index of tx
\* and the event index of rx, and both local queues
InitQueues(p) ==
    /\ availIdx' = [availIdx EXCEPT ![p] = 0]
    /\ availEvent' = [availEvent EXCEPT ![p] = 0]
    /\ InitRx(p)
    /\ numAdded' = [numAdded EXCEPT ![p] = 0]

\* Where the FSM goes from its switch.  Queues of length 0 are never linked:
\* the loop runs to num - 1, which is unsigned, and off the mapping (what it
\* writes on its way is at none of the offsets of an index).
AfterSwitch(p) ==
    CASE FsmTarget(p) = lstate[p] -> "store"
      [] Reinitialising(p) /\ ~geometry[p] -> "wild"
      [] OTHER -> "pub"

\* The switch of ivshm_pipe_fsm: the work that goes with a transition is
\* done before the new state is published
FsmAct(p) ==
    /\ tpc[p] = "act"
    /\ target' = [target EXCEPT ![p] = FsmTarget(p)]
    /\ IF Reinitialising(p)
         THEN InitQueues(p)
         ELSE UNCHANGED ringVars
    /\ services' = [services EXCEPT ![p] =
           CASE FsmTarget(p) = RUN   /\ lstate[p] = READY -> TRUE
             [] FsmTarget(p) = RESET /\ lstate[p] = RUN   -> FALSE
             [] OTHER -> @]
    /\ tpc' = [tpc EXCEPT ![p] = AfterSwitch(p)]
    /\ UNCHANGED <<bootVars, lstate, rstate, reg, eventVars, pend, seen,
                   doPoll, wpc, restarts>>

FsmPublish(p) ==
    /\ tpc[p] = "pub"
    /\ SetState(p, target[p])
    /\ tpc' = [tpc EXCEPT ![p] = "store"]
    /\ UNCHANGED <<bootVars, rstate, services, eventVars, seen, target,
                   doPoll, ringVars, wpc, restarts>>

\* info->rstate = rstate, and back to the thread (the locals of the FSM are
\* gone)
FsmStore(p) ==
    /\ tpc[p] = "store"
    /\ rstate' = [rstate EXCEPT ![p] = seen[p]]
    /\ seen' = [seen EXCEPT ![p] = RESET]
    /\ target' = [target EXCEPT ![p] = RESET]
    /\ tpc' = [tpc EXCEPT ![p] = Dispatch(FALSE, doPoll[p])]
    /\ UNCHANGED <<bootVars, lstate, services, reg, eventVars, pend, doPoll,
                   ringVars, wpc, restarts>>

\* ivshm_rx_desc: nothing to read ends the poll; the slot of a frame that
\* is not there (its half has been zeroed) is a bad descriptor, and ends
\* it too, with the index moved on and no event index written.
PollDesc(p) ==
    /\ tpc[p] = "poll"
    /\ IF RxAvail(p)
         THEN /\ lastAvail' = [lastAvail EXCEPT ![p] = (@ + 1) % U16]
              /\ IF lastAvail[p] < availIdx[Other(p)]
                   THEN /\ tpc' = [tpc EXCEPT ![p] = "enable"]
                        /\ UNCHANGED doPoll
                   ELSE /\ tpc' = [tpc EXCEPT ![p] = "wait"]
                        /\ doPoll' = [doPoll EXCEPT ![p] = FALSE]
         ELSE /\ tpc' = [tpc EXCEPT ![p] = "wait"]
              /\ doPoll' = [doPoll EXCEPT ![p] = FALSE]
              /\ UNCHANGED lastAvail
    /\ UNCHANGED <<bootVars, localVars, reg, eventVars, pend, seen, target,
                   availIdx, availEvent, numAdded, wpc, restarts>>

\* ivshm_enable_rx_irq, then ivshm_rx_avail decides whether to go on (the
\* test is made again by PollDesc)
PollEnable(p) ==
    /\ tpc[p] = "enable"
    /\ availEvent' = [availEvent EXCEPT ![p] = lastAvail[p]]
    /\ tpc' = [tpc EXCEPT ![p] = "poll"]
    /\ UNCHANGED <<bootVars, localVars, reg, eventVars, pend, seen, target,
                   doPoll, availIdx, lastAvail, numAdded, wpc, restarts>>

(***************************************************************************)
(* The writer: ivshm_tx_frame.  A service writes while it is enabled; it   *)
(* does not look at the state again before it publishes.                   *)
(***************************************************************************)

WriteBegin(p) ==
    /\ wpc[p] = "idle"
    /\ services[p]
    /\ p \in Writers
    /\ availIdx[p] < MaxFrames
    /\ wpc' = [wpc EXCEPT ![p] = "publish"]
    /\ UNCHANGED <<bootVars, localVars, reg, eventVars, pend, threadVars,
                   ringVars, restarts>>

WritePublish(p) ==
    /\ wpc[p] = "publish"
    /\ availIdx' = [availIdx EXCEPT ![p] = (@ + 1) % U16]
    /\ numAdded' = [numAdded EXCEPT ![p] = @ + 1]
    /\ wpc' = [wpc EXCEPT ![p] = "notify"]
    /\ UNCHANGED <<bootVars, localVars, reg, eventVars, pend, threadVars,
                   lastAvail, availEvent, restarts>>

\* ivshm_notify_tx
WriteNotify(p) ==
    /\ wpc[p] = "notify"
    /\ IF NeedEvent(availEvent[Other(p)], availIdx[p], (availIdx[p] - numAdded[p]) % U16)
         THEN Raise(Other(p))
         ELSE UNCHANGED pend
    /\ numAdded' = [numAdded EXCEPT ![p] = 0]
    /\ wpc' = [wpc EXCEPT ![p] = "idle"]
    /\ UNCHANGED <<bootVars, localVars, reg, eventVars, threadVars, availIdx,
                   lastAvail, availEvent, restarts>>

(***************************************************************************)
(* Restart of a cell: everything of its own is lost, its register falls    *)
(* back to RESET and the peer is interrupted.  The shared halves stay.     *)
(***************************************************************************)

Restart(p) ==
    /\ restarts < MaxRestarts
    /\ boot[p] # "off"
    /\ RestartInRun => lstate[Other(p)] = RUN
    /\ CalmWindow => ~InWindow(Other(p))
    /\ restarts' = restarts + 1
    /\ boot' = [boot EXCEPT ![p] = "off"]
    /\ geometry' = [geometry EXCEPT ![p] = FALSE]
    /\ lstate' = [lstate EXCEPT ![p] = RESET]
    /\ reg' = [reg EXCEPT ![p] = RESET]
    /\ rstate' = [rstate EXCEPT ![p] = RESET]
    /\ services' = [services EXCEPT ![p] = FALSE]
    /\ stateChange' = [stateChange EXCEPT ![p] = 0]
    /\ dataAvail' = [dataAvail EXCEPT ![p] = 0]
    /\ sem' = [sem EXCEPT ![p] = 0]
    /\ pend' = [q \in Peers |-> IF q = p THEN FALSE
                                ELSE pend[q] \/ (reg[p] # RESET /\ boot[q] # "off")]
    /\ tpc' = [tpc EXCEPT ![p] = "wait"]
    /\ seen' = [seen EXCEPT ![p] = RESET]
    /\ target' = [target EXCEPT ![p] = RESET]
    /\ doPoll' = [doPoll EXCEPT ![p] = FALSE]
    /\ lastAvail' = [lastAvail EXCEPT ![p] = 0]
    /\ numAdded' = [numAdded EXCEPT ![p] = 0]
    /\ wpc' = [wpc EXCEPT ![p] = "idle"]
    /\ UNCHANGED <<availIdx, availEvent>>

Boot(p) == BootIrq(p) \/ BootCalc(p) \/ BootReset(p) \/ BootCheck(p) \/ BootPost(p)
Fsm(p) == FsmRead(p) \/ FsmAct(p) \/ FsmPublish(p) \/ FsmStore(p)
Poll(p) == PollDesc(p) \/ PollEnable(p)
Thread(p) == Wake(p) \/ Take(p) \/ Fsm(p) \/ Poll(p)
Write(p) == WriteBegin(p) \/ WritePublish(p) \/ WriteNotify(p)

Next == \E p \in Peers :
    Boot(p) \/ Isr(p) \/ Thread(p) \/ Timeout(p) \/ Write(p) \/ Restart(p)

\* Boot code, interrupts, a thread with work and a write that has begun all
\* run; the wait of the thread times out.  Nothing obliges a service to
\* write or a cell to restart.
Fairness == \A p \in Peers :
    /\ SF_vars(BootIrq(p))
    /\ WF_vars(Boot(p))
    /\ WF_vars(Isr(p))
    /\ WF_vars(Thread(p))
    /\ WF_vars(Timeout(p))
    /\ WF_vars(WritePublish(p) \/ WriteNotify(p))

Spec == Init /\ [][Next]_vars
FairSpec == Spec /\ Fairness

(***************************************************************************)
(* Properties                                                              *)
(***************************************************************************)

\* Every variable holds a value of its type.
TypeOK ==
    /\ boot \in [Peers -> {"off", "calc", "reset", "check", "post", "done"}]
    /\ geometry \in [Peers -> BOOLEAN]
    /\ lstate \in [Peers -> States]
    /\ reg \in [Peers -> States]
    /\ rstate \in [Peers -> States]
    /\ stateChange \in [Peers -> Nat]
    /\ dataAvail \in [Peers -> Nat]
    /\ sem \in [Peers -> Nat]
    /\ pend \in [Peers -> BOOLEAN]
    /\ tpc \in [Peers -> {"wait", "take", "fsm", "act", "pub", "store", "poll", "enable",
                       "wild"}]
    /\ seen \in [Peers -> States]
    /\ target \in [Peers -> States]
    /\ doPoll \in [Peers -> BOOLEAN]
    /\ services \in [Peers -> BOOLEAN]
    /\ availIdx \in [Peers -> Index]
    /\ lastAvail \in [Peers -> Index]
    /\ availEvent \in [Peers -> Index]
    /\ numAdded \in [Peers -> Nat]
    /\ wpc \in [Peers -> {"idle", "publish", "notify"}]
    /\ restarts \in 0..MaxRestarts

\* p is READY and has seen its peer READY: it is going to enter RUN.
Acked(p) ==
    /\ lstate[p] = READY
    /\ \/ tpc[p] = "act" /\ seen[p] >= READY
       \/ tpc[p] = "pub" /\ target[p] = RUN

\* ivshm_init_queues zeroes half of the shared region, so it must not run
\* while the peer is in RUN, or is about to be, on the strength of what
\* that half held before.
HalfInUse(p) == lstate[p] = RUN \/ Acked(p)
NoReinitInUse ==
    \A p \in Peers : Reinitialising(p) => ~HalfInUse(Other(p))

\* An event counted for the thread has a wake-up that has not been consumed
\* yet, whatever way the handler, the boot code and timeouts interleave: no
\* event is left behind to be found by the next interrupt only.
EventHasWakeup ==
    \A p \in Peers :
        LET owed == sem[p] + (IF tpc[p] = "take" THEN 1 ELSE 0)
                           + (IF boot[p] = "post" THEN 1 ELSE 0)
        IN  stateChange[p] <= owed /\ dataAvail[p] <= owed

\* A peer in RUN whose partner has fallen back to RESET is going to find
\* out: an interrupt is latched, an event is counted, or the thread is in
\* the middle of the FSM.
ResetIsNoticed ==
    \A p \in Peers :
        lstate[p] = RUN /\ PeerState(p) = RESET =>
            \/ pend[p]
            \/ stateChange[p] > 0
            \/ tpc[p] = "fsm"
            \/ tpc[p] = "act" /\ seen[p] = RESET
            \/ tpc[p] = "pub" /\ target[p] = RESET

\* Once both peers have passed READY, the receive index of each agrees with
\* what the other has published in this session.
RingsInStep ==
    (\A p \in Peers : lstate[p] >= READY) =>
        \A p \in Peers : /\ lastAvail[p] <= availIdx[Other(p)]
                         /\ availEvent[p] <= lastAvail[p]

\* What the handshake promises, whatever the registers and interrupts do: a
\* half is made fresh only while the peer is outside of a session.
Session == INSTANCE IvshmSession WITH
    fresh <- [p \in Peers |-> lstate[p] >= READY],
    acked <- [p \in Peers |-> Acked(p)],
    open  <- [p \in Peers |-> lstate[p] = RUN]
SessionSpec == Session!Spec

\* The handshake completes, and completes again after a restart.
BothReachRun == <>[](\A p \in Peers : lstate[p] = RUN)

\* A frame that is published is received, or the session it belongs to ends,
\* although an interrupt that comes before RUN is not counted as data.
Unread(p) == lstate[p] = RUN /\ availIdx[p] # lastAvail[Other(p)]
FramesDelivered ==
    \A p \in Peers : Unread(p) ~> ~Unread(p)

(***************************************************************************)
(* The inductive invariant behind the handshake, for CalmWindow.  Its      *)
(* heart is HeldBack: while a peer uses the session, or has decided to,    *)
(* the other one is past initialising its half or is held in RESET.        *)
(***************************************************************************)

\* Nothing has happened at a cell that has not set itself to RESET yet.
BootInv(p) ==
    boot[p] \in {"off", "calc", "reset"} =>
        /\ lstate[p] = RESET /\ tpc[p] \in {"wait", "take"}
        /\ stateChange[p] = 0 /\ dataAvail[p] = 0 /\ sem[p] = 0
        /\ ~pend[p] /\ ~doPoll[p]

\* The register shows the local state.
RegisterInv(p) == reg[p] = lstate[p]

\* What is about to be published is the successor of the state.
PublishInv(p) ==
    tpc[p] = "pub" =>
        <<lstate[p], target[p]>> \in
            {<<RESET, INIT>>, <<INIT, READY>>, <<READY, RUN>>, <<RUN, RESET>>}

\* p is past initialising its half, or is in RESET and not leaving it.
Past(p) ==
    \/ lstate[p] \in {READY, RUN}
    \/ /\ lstate[p] = RESET
       /\ ~(tpc[p] = "act" /\ seen[p] < READY)
       /\ tpc[p] # "pub"
HeldBack(p) == HalfInUse(Other(p)) => Past(p)

\* A peer leaves RUN only for a partner that is, and stays, in RESET.
LeaveInv(p) ==
    lstate[p] = RUN /\ ((tpc[p] = "act" /\ seen[p] = RESET) \/ tpc[p] = "pub")
        => lstate[Other(p)] = RESET

PeerInv(p) ==
    /\ BootInv(p) /\ RegisterInv(p) /\ PublishInv(p)
    /\ HeldBack(p) /\ LeaveInv(p)

HandshakeInv == TypeOK /\ \A p \in Peers : PeerInv(p)
=============================================================================
