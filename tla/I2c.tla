-------------------------------- MODULE I2c --------------------------------
(***************************************************************************)
(* The I2C controller driver (drivers/i2c/i2c.c).  Threads that read and   *)
(* write the devices of a bus take turns under a mutex; the transfer of    *)
(* one of them is moved on by the interrupt of each byte, through the      *)
(* states of state->fsm_state, and the thread waits for its end for one    *)
(* second.  The handler may run on another CPU than the thread.            *)
(*                                                                         *)
(* Bytes have no values; the device, the other masters and the delays of   *)
(* both are the environment.  The handler is one step up to its signal.    *)
(***************************************************************************)
EXTENDS Integers, FiniteSets

CONSTANTS Threads,
          Kinds,     \* subset of "read_reg", "write_reg", "read", "write"
          MaxLen,    \* bytes of one transfer
          MaxNacks,  \* the 5 of imx_i2c_do_xfer
          MaxFaults, \* bound: late, lost and refused bytes
          MaxXfers   \* bound: transfers

I2cAssumption ==
    /\ Kinds \subseteq {"read_reg", "write_reg", "read", "write"}
    /\ MaxLen \in Nat \ {0} /\ {MaxNacks, MaxFaults, MaxXfers} \subseteq Nat

VARIABLES
    asserts,   \* built with DEBUG_ASSERT
    fsm,       \* state->fsm_state
    xfer,      \* state->xfer
    wait,      \* is state->wait signaled
    mutex,     \* threads in state->mutex
    iien,      \* is the interrupt of the controller enabled
    flags,     \* the status register: "IIF", "IAL", "RXAK"
    bus,       \* "free", "other"; "ours": MSTA is set
    wire,      \* is a byte on its way: "still", "shifting", "stuck"
    waking,    \* the handler is about to signal the event
    xpc,       \* control point of each thread
    call,      \* its transfer
    retries,   \* its local retries
    xret,      \* its local ret
    xfers,     \* transfers so far (bound)
    faults,    \* faults so far (bound)
    late,      \* history: a wait has timed out
    moved,     \* history: bytes moved since the start of the transfer
    refused,   \* history: the address, or a byte but the last, was refused
    wrong,     \* history: NO_ERROR for a transfer that was not made
    i2cHalted  \* an assertion or a panic

controller == <<iien, flags, bus, wire>>
state == <<fsm, xfer, wait, waking>>
threads == <<mutex, xpc, call, retries, xret>>
bounds == <<xfers, faults>>
seen == <<late, moved, refused, wrong>>
vars == <<asserts, controller, state, threads, bounds, seen, i2cHalted>>

NO_ERROR == "no_error"
NoCall == [kind |-> "read", len |-> 1]
NoXfer == [read |-> FALSE, reg |-> FALSE, len |-> 0, status |-> NO_ERROR]

Init ==
    /\ asserts \in BOOLEAN
    /\ fsm = "idle" /\ xfer = NoXfer /\ wait = FALSE /\ mutex = {}
    /\ iien = FALSE /\ flags = {} /\ bus = "free" /\ wire = "still" /\ waking = FALSE
    /\ xpc = [t \in Threads |-> "idle"] /\ call = [t \in Threads |-> NoCall]
    /\ retries = [t \in Threads |-> 0] /\ xret = [t \in Threads |-> NO_ERROR]
    /\ xfers = 0 /\ faults = 0
    /\ late = FALSE /\ moved = 0 /\ refused = FALSE /\ wrong = FALSE
    /\ i2cHalted = "none"

Alive == i2cHalted = "none"
Fault == faults < MaxFaults /\ faults' = faults + 1
Goto(t, label) == xpc' = [xpc EXCEPT ![t] = label]

(***************************************************************************)
(* The bus                                                                 *)
(***************************************************************************)

\* A byte is done; a device may refuse one that it is sent.
ByteDone ==
    /\ Alive /\ wire = "shifting"
    /\ wire' = "still" /\ flags' = flags \cup {"IIF"}
    /\ UNCHANGED <<asserts, iien, bus, state, threads, bounds, seen, i2cHalted>>

Refused ==
    /\ Alive /\ wire = "shifting" /\ fsm # "rx" /\ Fault
    /\ wire' = "still" /\ flags' = flags \cup {"IIF", "RXAK"}
    /\ refused' = (refused \/ fsm # "tx" \/ xfer.len > 0)
    /\ UNCHANGED <<asserts, iien, bus, state, threads, xfers, late, moved, wrong, i2cHalted>>

\* Another master has won: the controller is none any more.
ArbitrationLost ==
    /\ Alive /\ wire = "shifting" /\ Fault
    /\ wire' = "still" /\ flags' = flags \cup {"IIF", "IAL"} /\ bus' = "other"
    /\ UNCHANGED <<asserts, iien, state, threads, xfers, seen, i2cHalted>>

\* A device holds the clock for good.
Stuck ==
    /\ Alive /\ wire = "shifting" /\ Fault
    /\ wire' = "stuck"
    /\ UNCHANGED <<asserts, iien, flags, bus, state, threads, xfers, seen, i2cHalted>>

OtherDone ==
    /\ Alive /\ bus = "other"
    /\ bus' = "free"
    /\ UNCHANGED <<asserts, iien, flags, wire, state, threads, bounds, seen, i2cHalted>>

(***************************************************************************)
(* The handler                                                             *)
(***************************************************************************)
Set(s, status) == fsm' = s /\ xfer' = [xfer EXCEPT !.status = status]

\* The transfer is over: the interrupt is disabled, then the event is signaled.
Over(s, status) ==
    /\ Set(s, status)
    /\ iien' = FALSE /\ waking' = TRUE
    /\ UNCHANGED <<wire, moved, i2cHalted>>

\* The next byte is on its way, in either direction.
Shift(s, n) ==
    /\ fsm' = s /\ xfer' = [xfer EXCEPT !.len = @ - n, !.status = NO_ERROR]
    /\ wire' = "shifting" /\ moved' = moved + n
    /\ UNCHANGED <<iien, waking, i2cHalted>>

\* Mutant: the refusal of the address is ignored as well
IgnoresAll == TRUE

IgnoresNak == (fsm = "tx" /\ xfer.len = 0) \/ (fsm = "rx" /\ xfer.len = 1)

\* What the acknowledged address leads to.
Addressed ==
    IF fsm # "address" THEN fsm
    ELSE IF xfer.reg THEN "command" ELSE IF xfer.read THEN "set_rx" ELSE "tx"

\* Mutant: the last byte is not waited for
EndsEarly(n) == n <= 1

Ends(n) == n = 0

\* What the acknowledged byte leads to.  The bus is ours when a read restarts
\* it: who loses it sets IAL, which Isr looks at first, so that the test for
\* "Bus ownership lost" of the code finds nothing.
Step ==
    \/ /\ Addressed = "command"
       /\ Shift(IF xfer.read THEN "rx_address" ELSE "tx", 0)
    \/ /\ Addressed = "tx" /\ ~Ends(xfer.len)
       /\ Shift("tx", 1)
    \/ Addressed = "tx" /\ Ends(xfer.len) /\ Over("done", NO_ERROR)
    \/ /\ fsm = "rx_address" /\ bus = "ours"
       /\ Shift("set_rx", 0)
    \/ /\ Addressed = "set_rx"
       /\ Shift("rx", 0)
    \/ /\ fsm = "rx" /\ xfer.len > 1
       /\ Shift("rx", 1)
    \/ /\ fsm = "rx" /\ xfer.len = 1
       /\ fsm' = "done" /\ xfer' = [xfer EXCEPT !.len = 0, !.status = NO_ERROR]
       /\ iien' = FALSE /\ waking' = TRUE /\ moved' = moved + 1
       /\ UNCHANGED <<wire, i2cHalted>>
    \/ /\ fsm \in {"idle", "done", "error"}
       /\ i2cHalted' = "panic"
       /\ UNCHANGED <<fsm, xfer, iien, waking, wire, moved>>

\* Losing the arbitration resets the controller, which is a master no more.
Isr ==
    /\ Alive /\ iien /\ "IIF" \in flags /\ ~waking
    /\ flags' = {}
    /\ IF "IAL" \in flags THEN Over("error", "cancelled")
       ELSE IF "RXAK" \in flags /\ ~IgnoresNak THEN Over("error", "nack")
       ELSE Step
    /\ UNCHANGED <<asserts, bus, wait, threads, bounds, late, refused, wrong>>

IsrSignal ==
    /\ Alive /\ waking
    /\ wait' = TRUE /\ waking' = FALSE
    /\ UNCHANGED <<asserts, controller, fsm, xfer, threads, bounds, seen, i2cHalted>>

(***************************************************************************)
(* imx_i2c_do_xfer                                                         *)
(***************************************************************************)
Call(t) ==
    /\ Alive /\ xpc[t] = "idle" /\ xfers < MaxXfers
    /\ xfers' = xfers + 1
    /\ \E k \in Kinds, n \in 1 .. MaxLen : call' = [call EXCEPT ![t] = [kind |-> k, len |-> n]]
    /\ Goto(t, "lock")
    /\ UNCHANGED <<asserts, controller, state, mutex, retries, xret, faults, seen, i2cHalted>>

Acquire(t) ==
    /\ Alive /\ xpc[t] = "lock" /\ mutex = {}
    /\ mutex' = {t}
    /\ retries' = [retries EXCEPT ![t] = 0]
    /\ Goto(t, "poll")
    /\ UNCHANGED <<asserts, controller, state, call, xret, bounds, seen, i2cHalted>>

\* imx_i2c_do_xfer_stream sets the flags of a read only: those of a write are
\* what happens to be on the stack.
FlagsOf(k) ==
    CASE k = "read_reg" -> {<<TRUE, TRUE>>}
      [] k = "write_reg" -> {<<FALSE, TRUE>>}
      [] k = "read" -> {<<TRUE, FALSE>>}
      [] k = "write" -> BOOLEAN \X BOOLEAN

\* The thread has polled the bus, without a bound, until it was free.
Begin(t) ==
    /\ Alive /\ xpc[t] = "poll" /\ bus = "free"
    /\ \E f \in FlagsOf(call[t].kind) :
         xfer' = [read |-> f[1], reg |-> f[2], len |-> call[t].len, status |-> NO_ERROR]
    /\ fsm' = "address" /\ moved' = 0 /\ refused' = FALSE
    /\ flags' = {} /\ iien' = TRUE /\ bus' = "ours" /\ wire' = "shifting"
    /\ Goto(t, "wait")
    /\ UNCHANGED <<asserts, wait, waking, mutex, call, retries, xret, bounds, late, wrong,
                   i2cHalted>>

Woken(t) ==
    /\ Alive /\ xpc[t] = "wait" /\ wait
    /\ xret' = [xret EXCEPT ![t] = NO_ERROR]
    /\ Goto(t, "unsignal")
    /\ UNCHANGED <<asserts, controller, state, mutex, call, retries, bounds, seen, i2cHalted>>

\* The wait ends after a second, whatever the bus is just doing.
TimeOut(t) ==
    /\ Alive /\ xpc[t] = "wait" /\ ~wait
    /\ IF wire = "stuck" THEN UNCHANGED faults ELSE Fault
    /\ xret' = [xret EXCEPT ![t] = "timed_out"]
    /\ late' = TRUE
    /\ Goto(t, "unsignal")
    /\ UNCHANGED <<asserts, controller, state, mutex, call, retries, xfers, moved, refused, wrong,
                   i2cHalted>>

Unsignal(t) ==
    /\ Alive /\ xpc[t] = "unsignal"
    /\ wait' = FALSE
    /\ Goto(t, "result")
    /\ UNCHANGED <<asserts, controller, fsm, xfer, waking, mutex, call, retries, xret, bounds,
                   seen, i2cHalted>>

Result(t) ==
    /\ Alive /\ xpc[t] = "result"
    /\ IF xret[t] = "timed_out"
       THEN iien' = FALSE /\ UNCHANGED <<xret, i2cHalted>>
       ELSE /\ xret' = [xret EXCEPT ![t] = xfer.status]
            /\ i2cHalted' = IF asserts /\ (fsm = "done") # (xfer.status = NO_ERROR)
                            THEN "assert" ELSE "none"
            /\ UNCHANGED iien
    /\ Goto(t, "finish")
    /\ UNCHANGED <<asserts, flags, bus, wire, state, mutex, call, retries, bounds, seen>>

NeedsStop == fsm = "done" \/ xfer.status = "nack"

\* Mutant: a refused transfer keeps the bus
StopIfDone == IF fsm = "done" /\ bus = "ours" THEN "free" ELSE bus

AfterStop == IF NeedsStop /\ bus = "ours" THEN "free" ELSE bus

\* A transfer that lost the arbitration is done again whatever retries was.
TriesAgain(t) ==
    xfer.status = "cancelled" \/ (xfer.status = "nack" /\ retries[t] < MaxNacks)

Whole(t) ==
    /\ moved = call[t].len /\ ~refused
    /\ <<xfer.read, xfer.reg>> \in FlagsOf(call[t].kind)

FinishRetry(t) ==
    /\ TriesAgain(t)
    /\ retries' = [retries EXCEPT ![t] = IF xfer.status = "nack" THEN @ + 1 ELSE 1]
    /\ Goto(t, "poll")
    /\ UNCHANGED <<mutex, call, xret, moved, refused, wrong>>

FinishReturn(t) ==
    /\ ~TriesAgain(t)
    /\ wrong' = (wrong \/ (xret[t] = NO_ERROR /\ ~Whole(t)))
    /\ Goto(t, "idle") /\ mutex' = {}
    /\ call' = [call EXCEPT ![t] = NoCall]
    /\ retries' = [retries EXCEPT ![t] = 0] /\ xret' = [xret EXCEPT ![t] = NO_ERROR]
    /\ moved' = 0 /\ refused' = FALSE

Finish(t) ==
    /\ Alive /\ xpc[t] = "finish"
    /\ bus' = AfterStop
    /\ wire' = IF NeedsStop THEN "still" ELSE wire
    /\ fsm' = "idle" /\ xfer' = [xfer EXCEPT !.status = NO_ERROR]
    /\ FinishRetry(t) \/ FinishReturn(t)
    /\ UNCHANGED <<asserts, iien, flags, wait, waking, bounds, late, i2cHalted>>

Environment == ByteDone \/ Refused \/ ArbitrationLost \/ Stuck \/ OtherDone
Thread(t) ==
    Acquire(t) \/ Begin(t) \/ Woken(t) \/ TimeOut(t) \/ Unsignal(t) \/ Result(t) \/ Finish(t)

Next == Environment \/ Isr \/ IsrSignal \/ \E t \in Threads : Call(t) \/ Thread(t)

\* A byte that does not get stuck is done, other masters leave the bus, and the
\* handler and the threads get on.
Fairness ==
    /\ WF_vars(ByteDone) /\ WF_vars(OtherDone) /\ WF_vars(Isr) /\ WF_vars(IsrSignal)
    /\ \A t \in Threads : WF_vars(Thread(t))

Spec == Init /\ [][Next]_vars /\ Fairness

(***************************************************************************)
(* Properties                                                              *)
(***************************************************************************)
\* Every variable has its type.
TypeOK ==
    /\ asserts \in BOOLEAN /\ wait \in BOOLEAN /\ iien \in BOOLEAN /\ waking \in BOOLEAN
    /\ fsm \in {"idle", "error", "address", "command", "tx", "rx_address", "set_rx", "rx", "done"}
    /\ xfer \in [read : BOOLEAN, reg : BOOLEAN, len : 0 .. MaxLen,
                 status : {NO_ERROR, "cancelled", "nack"}]
    /\ mutex \in SUBSET Threads /\ flags \subseteq {"IIF", "IAL", "RXAK"}
    /\ bus \in {"free", "other", "ours"} /\ wire \in {"still", "shifting", "stuck"}
    /\ xpc \in [Threads -> {"idle", "lock", "poll", "wait", "unsignal", "result", "finish"}]
    /\ call \in [Threads -> [kind : Kinds \cup {"read"}, len : 1 .. MaxLen]]
    /\ retries \in [Threads -> 0 .. MaxNacks + 1]
    /\ xret \in [Threads -> {NO_ERROR, "timed_out", "cancelled", "nack"}]
    /\ xfers \in 0 .. MaxXfers /\ faults \in 0 .. MaxFaults
    /\ {late, refused} \subseteq BOOLEAN /\ moved \in 0 .. MaxLen /\ wrong \in BOOLEAN
    /\ i2cHalted \in {"none", "assert", "panic"}

\* A call that returns NO_ERROR has moved all its bytes in the direction that
\* its own flags say, whichever threads were in between, and the device has
\* taken the address and all bytes but maybe the last; neither does an assertion
\* of imx_i2c_do_xfer fail nor does the handler meet a state that is "not
\* supposed to happen".  An earlier wait that timed out while the handler was
\* about to signal takes this back: the event is then there too early.
OkIsWhole == late \/ (~wrong /\ Alive)

\* Every call returns, unless a wait has timed out: the transfer is then left
\* on the bus without a stop, and the next call polls for a free bus for ever.
CallsEnd == \A t \in Threads : xpc[t] # "idle" ~> xpc[t] = "idle" \/ late
=============================================================================
