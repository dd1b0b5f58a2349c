---------------------------- MODULE IvshmSerial ----------------------------
(***************************************************************************)
(* The receiving half of the serial service: the endpoint thread in        *)
(* ivshm_serial_consume against an application that registers and          *)
(* unregisters a callback or reads the internal buffer                     *)
(* (dev/ivshmem/services/serial/ivshmem-serial.c).                         *)
(*                                                                         *)
(* The unit of data is what one frame carries; frames are numbered in the  *)
(* order in which they arrive.                                             *)
(***************************************************************************)
EXTENDS Integers, Sequences, FiniteSets

CONSTANTS MaxFrames,    \* bound: frames that arrive
          MaxSwitches,  \* bound: calls that register or unregister
          Capacity,     \* frames that rx_cbuf holds
          CbMax         \* frames handed over by one callback while draining

SerialAssumption ==
    /\ MaxFrames \in Nat
    /\ MaxSwitches \in Nat
    /\ Capacity \in Nat \ {0}
    /\ CbMax \in Nat \ {0}

VARIABLES
    arrived,   \* frames taken by the endpoint thread so far
    epc,       \* control point of the endpoint thread
    rxCb,      \* service->rx_cb is not NULL
    bufferRx,  \* service->buffer_rx
    cbuf,      \* the contents of service->rx_cbuf
    lock,      \* service->rx_cbuf_lock is held by the application
    apc,       \* control point of the application
    left,      \* local nchars_buffered of ivshm_serial_register_rx_cb
    switches,  \* calls of register and unregister so far (bound)
    dropped,   \* history: the application has unregistered a callback
    handled,   \* history: what the application was given, in order
    lost,      \* history: frames dropped because there was no callback
    failed     \* an assertion, or a call through NULL

consumerVars == <<arrived, epc, lost, failed>>
modeVars == <<rxCb, bufferRx>>
appVars  == <<apc, left, switches, dropped>>
vars == <<consumerVars, modeVars, cbuf, lock, appVars, handled>>

Init ==
    /\ arrived = 0 /\ epc = "idle" /\ lost = {} /\ failed = "none"
    /\ rxCb = FALSE /\ bufferRx = TRUE
    /\ cbuf = <<>> /\ lock = FALSE
    /\ apc = "idle" /\ left = 0 /\ switches = 0 /\ dropped = FALSE
    /\ handled = <<>>

Running == failed = "none"

(***************************************************************************)
(* ivshm_serial_consume                                                    *)
(***************************************************************************)

\* A frame arrives, and buffer_rx is read.
Consume ==
    /\ Running
    /\ epc = "idle"
    /\ arrived < MaxFrames
    /\ arrived' = arrived + 1
    /\ epc' = IF bufferRx THEN "buffer" ELSE "test"
    /\ UNCHANGED <<lost, failed, modeVars, cbuf, lock, appVars, handled>>

\* Mutant: the room in the buffer is not looked at
FitsAlways == TRUE

Fits == Len(cbuf) < Capacity

\* Buffered mode: the frame is written under rx_cbuf_lock, and must fit.
Buffer ==
    /\ Running
    /\ epc = "buffer"
    /\ ~lock
    /\ IF Fits
       THEN cbuf' = Append(cbuf, arrived) /\ UNCHANGED failed
       ELSE failed' = "full" /\ UNCHANGED cbuf
    /\ epc' = "idle"
    /\ UNCHANGED <<arrived, lost, modeVars, lock, appVars, handled>>

\* Callback mode: the frame is dropped when there is no callback.
TestCallback ==
    /\ Running
    /\ epc = "test"
    /\ epc' = IF rxCb THEN "call" ELSE "idle"
    /\ lost' = IF rxCb THEN lost ELSE lost \cup {arrived}
    /\ UNCHANGED <<arrived, failed, modeVars, cbuf, lock, appVars, handled>>

\* The callback is called.  The pointer was cleared since the test: the build
\* either kept the value it tested, or reads it again and calls through NULL.
RunCallback ==
    /\ Running
    /\ epc = "call"
    /\ epc' = "idle"
    /\ \/ handled' = Append(handled, arrived) /\ UNCHANGED failed
       \/ ~rxCb /\ failed' = "null_call" /\ UNCHANGED handled
    /\ UNCHANGED <<arrived, lost, modeVars, cbuf, lock, appVars>>

(***************************************************************************)
(* ivshm_serial_register_rx_cb                                             *)
(***************************************************************************)

\* Mutant: the mode is left before the callback is stored
ModeFirst == bufferRx' = FALSE /\ UNCHANGED rxCb

StoreCallback == rxCb' = TRUE /\ UNCHANGED bufferRx

Register ==
    /\ Running
    /\ apc = "idle"
    /\ switches < MaxSwitches
    /\ switches' = switches + 1
    /\ StoreCallback
    /\ apc' = "mode"
    /\ UNCHANGED <<consumerVars, cbuf, lock, left, dropped, handled>>

RegisterMode ==
    /\ Running
    /\ apc = "mode"
    /\ bufferRx' = FALSE
    /\ apc' = "lock"
    /\ UNCHANGED <<consumerVars, rxCb, cbuf, lock, left, switches, dropped, handled>>

\* The data in the buffer is counted once, under the lock.
RegisterLock ==
    /\ Running
    /\ apc = "lock"
    /\ ~lock
    /\ lock' = TRUE
    /\ left' = Len(cbuf)
    /\ apc' = "drain"
    /\ UNCHANGED <<consumerVars, modeVars, cbuf, switches, dropped, handled>>

\* Mutant: what was handed over stays in the buffer
Peeked(n) == cbuf

\* The buffer once its first n frames were read
Rest(n) == SubSeq(cbuf, n + 1, Len(cbuf))

\* A piece of the buffer is handed to the callback.
Drain ==
    /\ Running
    /\ apc = "drain"
    /\ left > 0
    /\ LET n == IF left > CbMax THEN CbMax ELSE left IN
       /\ handled' = handled \o SubSeq(cbuf, 1, n)
       /\ cbuf' = Rest(n)
       /\ left' = left - n
    /\ UNCHANGED <<consumerVars, modeVars, lock, apc, switches, dropped>>

RegisterEnd ==
    /\ Running
    /\ apc = "drain"
    /\ left = 0
    /\ lock' = FALSE
    /\ apc' = "idle"
    /\ UNCHANGED <<consumerVars, modeVars, cbuf, left, switches, dropped, handled>>

(***************************************************************************)
(* ivshm_serial_unregister_rx_cb, ivshm_serial_getchars_noblock            *)
(***************************************************************************)

Unregister ==
    /\ Running
    /\ apc = "idle"
    /\ switches < MaxSwitches
    /\ switches' = switches + 1
    /\ dropped' = TRUE
    /\ bufferRx' = TRUE
    /\ apc' = "clear"
    /\ UNCHANGED <<consumerVars, rxCb, cbuf, lock, left, handled>>

UnregisterClear ==
    /\ Running
    /\ apc = "clear"
    /\ rxCb' = FALSE
    /\ apc' = "idle"
    /\ UNCHANGED <<consumerVars, bufferRx, cbuf, lock, left, switches, dropped, handled>>

\* The application reads what its buffer has room for.
GetChars ==
    /\ Running
    /\ apc = "idle"
    /\ ~lock
    /\ \E n \in 1..Len(cbuf) :
          /\ handled' = handled \o SubSeq(cbuf, 1, n)
          /\ cbuf' = Rest(n)
    /\ UNCHANGED <<consumerVars, modeVars, lock, appVars>>

Next ==
    \/ Consume \/ Buffer \/ TestCallback \/ RunCallback
    \/ Register \/ RegisterMode \/ RegisterLock \/ Drain \/ RegisterEnd
    \/ Unregister \/ UnregisterClear \/ GetChars

Spec == Init /\ [][Next]_vars

(***************************************************************************)
(* Properties                                                              *)
(***************************************************************************)

Frames == 1..MaxFrames

\* Every variable holds a value of its type: in particular the buffer and the
\* count of what is left to drain stay within rx_cbuf.
TypeOK ==
    /\ arrived \in 0..MaxFrames /\ epc \in {"idle", "buffer", "test", "call"}
    /\ rxCb \in BOOLEAN /\ bufferRx \in BOOLEAN /\ lock \in BOOLEAN
    /\ cbuf \in Seq(Frames) /\ Len(cbuf) =< Capacity
    /\ apc \in {"idle", "mode", "lock", "drain", "clear"}
    /\ left \in 0..Capacity /\ switches \in 0..MaxSwitches /\ dropped \in BOOLEAN
    /\ handled \in Seq(Frames) /\ lost \subseteq Frames
    /\ failed \in {"none", "full", "null_call"}

\* The places at which frame n is
Places(n) ==
    {<<"buffer", i>> : i \in {i \in DOMAIN cbuf : cbuf[i] = n}}
    \cup {<<"handled", i>> : i \in {i \in DOMAIN handled : handled[i] = n}}
    \cup {<<"endpoint", i>> : i \in {i \in {n} : epc # "idle" /\ n = arrived}}
    \cup {<<"lost", i>> : i \in {n} \cap lost}

(***************************************************************************)
(* However the application switches between the two modes, a frame that    *)
(* has arrived is at one place: it is not handed over twice.               *)
(***************************************************************************)
OnePlace == Running => \A n \in 1..arrived : Cardinality(Places(n)) = 1

(***************************************************************************)
(* An application that registers a callback and keeps it loses no frame.   *)
(***************************************************************************)
NothingLost == ~dropped => lost = {} /\ failed # "null_call"

=============================================================================
