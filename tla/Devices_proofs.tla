--------------------------- MODULE Devices_proofs ---------------------------
(***************************************************************************)
(* Proofs about SDMA, I2C and the UART, in the composition that TLC        *)
(* explores.                                                               *)
(***************************************************************************)
EXTENDS MCDevices, FiniteSets, FiniteSetTheorems, WellFoundedInduction, NaturalsInduction, TLAPS

(***************************************************************************)
(* SDMA.  A descriptor that a channel or the handler refers to is that of  *)
(* the client that has the channel, since a client that terminates it      *)
(* waits for the handler; the transfer of the ASRC has periods left as     *)
(* long as the handler may work on it.                                     *)
(***************************************************************************)
ClientStep(k) ==
    /\ pc[k] # "idle" => chan[k] \in Dma!Chans
    /\ k \in Cyclic => /\ ~done[k]
                       /\ pc[k] \in {"ready", "run", "paused", "terminate"} => mem[k]
    /\ k \in Finite => /\ pc[k] \in {"ready", "run"} /\ ~done[k] => rem[k] > 0
                       /\ done[k] => pc[k] = "run"
                       /\ pc[k] # "paused"
ClientSteps == \A k \in Dma!Clients : ClientStep(k)

\* The client k has its transfer on the channel c, which is not over.
Transfers(k, c) ==
    /\ chan[k] = c
    /\ k \in Cyclic => pc[k] \in {"run", "paused", "terminate"}
    /\ k \in Finite => pc[k] = "run" /\ ~done[k]

DescOfOwner == \A c \in Dma!Chans : desc[c] \in Dma!Clients => Transfers(desc[c], c)

HandlerSteps ==
    /\ isr.step \in {"idle", "next"} => isr.desc = "none"
    /\ isr.step \in {"loop", "after"} => isr.chan \in Dma!Chans
    /\ isr.step = "after" => isr.desc \in Dma!Clients
    /\ isr.desc \in Dma!Clients =>
          /\ Dma!Owns(isr.desc, isr.chan)
          /\ isr.release => Transfers(isr.desc, isr.chan)
    /\ isr.step # "after" \/ isr.desc \in Cyclic => isr.release

DmaInv == Dma!TypeOK /\ ClientSteps /\ DescOfOwner /\ HandlerSteps

(***************************************************************************)
(* A channel has one client, unless RequestScan returned the last channel  *)
(* to one more.                                                            *)
(***************************************************************************)
NoSharing ==
    \A j, k \in Dma!Clients, c \in Dma!Chans : Dma!Owns(j, c) /\ Dma!Owns(k, c) => j = k

OwnedIsTaken == \A k \in Dma!Clients, c \in Dma!Chans : Dma!Owns(k, c) => ~avail[c]

\* The audio port k has its periods on the channel c.
Plays(k, c) == k \in Cyclic /\ Dma!Owns(k, c) /\ pc[k] \in {"ready", "run", "paused"}

RingAt(k, c) ==
    /\ \A i \in Dma!Bds : ~("Done" \in bd[c][i] /\ "Error" \in bd[c][i])
    /\ isr.step = "after" /\ isr.chan = c => bd[c][isr.bd] = {}
    /\ good[c] = elapsed[k] + Cardinality(Dma!Uncounted(c))

RingInStep == \A k \in Dma!Clients, c \in Dma!Chans : Plays(k, c) => RingAt(k, c)

CountInv == OwnedIsTaken /\ RingInStep

\* Of two clients at most one is beyond the first channel.
Beyond(k) == pc[k] # "idle" /\ chan[k] > 1
OneBeyond ==
    /\ OwnedIsTaken
    /\ \A c \in Dma!Chans : ~avail[c] => \E k \in Dma!Clients : Dma!Owns(k, c)
    /\ \A k \in Dma!Clients : pc[k] # "idle" => chan[k] =< 2
    /\ \A j, k \in Dma!Clients : Beyond(j) /\ Beyond(k) => j = k
    /\ NoSharing

(***************************************************************************)
(* I2C.                                                                    *)
(***************************************************************************)
InXfer == {"wait", "unsignal", "result", "finish"}

XferMutex ==
    /\ \A t \in Threads : xpc[t] \notin {"idle", "lock"} <=> t \in mutex
    /\ \A s, t \in mutex : s = t

MovedInLen == moved + xfer.len =< MaxLen

\* No transfer is on the bus.
Rests == ~iien /\ ~wait /\ ~waking /\ wire = "still" /\ fsm = "idle"

\* The flags of the transfer are those of the call of t.
Directed(t) == <<xfer.read, xfer.reg>> \in Bus!FlagsOf(call[t].kind)

\* The transfer of t is on the bus, and the handler has not come to its end.
UnderWay(t) ==
    /\ xpc[t] = "wait" /\ iien /\ ~wait /\ ~waking
    /\ fsm \in {"address", "tx", "rx_address", "set_rx", "rx"} /\ xfer.status = "no_error"
    /\ fsm # "tx" => xfer.len > 0
    /\ wire = "still" <=> "IIF" \in flags
    /\ moved + xfer.len = call[t].len
    /\ refused => "RXAK" \in flags /\ (fsm # "tx" \/ xfer.len > 0)
    /\ "RXAK" \in flags => fsm # "rx" /\ "IIF" \in flags
    /\ "IAL" \in flags => "IIF" \in flags

\* The handler has: the thread is woken once, and the result stays.
HasEnded(t) ==
    /\ ~iien /\ wire = "still"
    /\ waking => xpc[t] = "wait" /\ ~wait
    /\ wait => xpc[t] \in {"wait", "unsignal"}
    /\ xpc[t] = "wait" => waking \/ wait
    /\ \/ fsm = "done" /\ xfer.status = "no_error" /\ moved = call[t].len /\ ~refused
       \/ fsm = "error" /\ xfer.status \in {"nack", "cancelled"}
    /\ xpc[t] \in {"unsignal", "result"} => xret[t] = "no_error"
    /\ xpc[t] = "finish" => xret[t] = xfer.status

\* The state of the bus and of the thread that has it, as long as no wait has
\* timed out.
XferState ==
    /\ ~wrong /\ i2cHalted = "none"
    /\ \A t \in Threads : xpc[t] # "idle" => call[t].kind \in Kinds
    /\ (\A t \in Threads : xpc[t] \notin InXfer) => Rests
    /\ \A t \in Threads : xpc[t] \in InXfer =>
          /\ Directed(t)
          /\ UnderWay(t) \/ HasEnded(t)

BusInv == Bus!TypeOK /\ XferMutex /\ MovedInLen /\ (late \/ XferState)

-----------------------------------------------------------------------------
\* What the three devices need of their constants is assumed of them.
LEMMA DevAssumed ==
  /\ LastChan \in Nat \ {0} /\ NrBd \in Nat \ {0}
  /\ MaxPeriods \in Nat /\ MaxErrors \in Nat /\ SdmaOps \in Nat
  /\ Totals \subseteq Nat \ {0} /\ Roughs \subseteq BOOLEAN
  /\ Cyclic \cap Finite = {} /\ "none" \notin Dma!Clients
  /\ Kinds \subseteq {"read_reg", "write_reg", "read", "write"}
  /\ MaxLen \in Nat \ {0} /\ MaxNacks \in Nat /\ MaxFaults \in Nat /\ MaxXfers \in Nat
  /\ Cap \in Nat \ {0} /\ MaxText \in Nat \ {0} /\ MaxPuts \in Nat
  /\ FifoSize \in Nat /\ Threshold \in 1..FifoSize - 1
  BY DevicesAssumption DEF DevicesAssumption, Dma!SdmaAssumption, Bus!I2cAssumption,
       Console!UartAssumption

\* The handler looks at the lowest channel first; there is one.
LEMMA Lowest ==
  ASSUME NEW T \in SUBSET Dma!Chans, T # {}
  PROVE  (CHOOSE c \in T : \A d \in T : c <= d) \in T
<1>1. Dma!Chans \subseteq Nat
  BY DevAssumed DEF Dma!Chans
<1>2. PICK x \in T : \A y \in T : ~(<<y, x>> \in OpToRel(<, Nat))
  BY <1>1, WFMin, NatLessThanWellFounded
<1>3. \A y \in T : x <= y
  <2> TAKE y \in T
  <2>1. x \in Nat /\ y \in Nat
    BY <1>1
  <2>2. ~(y < x)
    BY <1>2, <2>1 DEF OpToRel
  <2>3. QED
    BY <2>1, <2>2
<1>4. QED
  BY <1>3

\* The handler and the engine go round the ring.
LEMMA NextBdInRing ==
  ASSUME NEW i \in Dma!Bds, NEW c \in Dma!Chans, Dma!TypeOK
  PROVE  Dma!NextBd(c, i) \in Dma!Bds
<1>1. count[c] \in 1..NrBd /\ i \in 0..NrBd - 1 /\ NrBd \in Nat
  BY DevAssumed DEF Dma!TypeOK, Dma!Bds
<1>2. \A m \in Nat, n \in 1..NrBd : m % n \in 0..NrBd - 1
  BY <1>1
<1>3. i + 1 \in Nat
  BY <1>1
<1>4. (i + 1) % count[c] \in 0..NrBd - 1
  BY <1>1, <1>2, <1>3
<1>5. QED
  BY <1>4 DEF Dma!NextBd, Dma!Bds

\* The SDMA starts in its invariant.
LEMMA DmaInit == Dma!Init => DmaInv
<1> SUFFICES ASSUME Dma!Init PROVE DmaInv
  OBVIOUS
<1> USE DevAssumed DEF Dma!Init
<1>1. 0 \in Dma!Bds /\ 1 \in 1..NrBd /\ NrBd \in 1..NrBd
  BY DEF Dma!Bds
<1>2. isr \in [todo : SUBSET Dma!Chans, chan : Dma!Chans \cup {0},
               desc : Dma!Clients \cup {"none"}, bd : Dma!Bds,
               step : {"idle", "next", "loop", "after"}, release : BOOLEAN]
  BY <1>1 DEF Dma!IsrIdle, Dma!None
<1>3. Dma!TypeOK
  BY <1>1, <1>2 DEF Dma!TypeOK, Dma!None
<1>4. ClientSteps
  BY DEF ClientSteps, ClientStep, Dma!Clients
<1>5. DescOfOwner
  BY DEF DescOfOwner, Dma!None
<1>6. HandlerSteps
  BY DEF HandlerSteps, Dma!IsrIdle, Dma!None, Dma!Clients
<1>7. QED
  BY <1>3, <1>4, <1>5, <1>6 DEF DmaInv

-----------------------------------------------------------------------------
\* The parts of the invariant that a step which does not touch them keeps
LEMMA DmaKeeps ==
  ASSUME DmaInv
  PROVE  /\ UNCHANGED <<pc, chan, done, mem, rem>> => ClientSteps'
         /\ UNCHANGED <<pc, chan, done, desc>> => DescOfOwner'
         /\ UNCHANGED <<pc, chan, done, isr>> => HandlerSteps'
  BY DEF DmaInv, ClientSteps, ClientStep, DescOfOwner, HandlerSteps, Transfers, Dma!Owns

\* A period or an error of the engine keeps the invariant.
LEMMA DmaEngineStep ==
  ASSUME DmaInv, NEW c \in Dma!Chans, Dma!DmaPeriod(c) \/ Dma!DmaError(c)
  PROVE  DmaInv'
<1>1. UNCHANGED <<pc, chan, done, mem, rem, desc, isr>>
  BY DEF Dma!DmaPeriod, Dma!DmaError, Dma!clients
<1>2. Dma!TypeOK'
  <2>1. Dma!NextBd(c, position[c]) \in Dma!Bds /\ position[c] \in Dma!Bds
    BY NextBdInRing DEF DmaInv, Dma!TypeOK
  <2>2. CASE Dma!DmaPeriod(c)
    <3>1. bd' \in [Dma!Chans -> [Dma!Bds -> SUBSET {"Done", "Error"}]]
      BY <2>1, <2>2 DEF Dma!DmaPeriod, DmaInv, Dma!TypeOK
    <3>2. position' \in [Dma!Chans -> Dma!Bds] /\ good' \in [Dma!Chans -> Nat]
          /\ pending' \in SUBSET Dma!Chans
      BY <2>1, <2>2 DEF Dma!DmaPeriod, DmaInv, Dma!TypeOK
    <3>3. QED
      BY <2>2, <3>1, <3>2 DEF Dma!DmaPeriod, DmaInv, Dma!TypeOK, Dma!clients
  <2>3. CASE Dma!DmaError(c)
    <3>1. bd' \in [Dma!Chans -> [Dma!Bds -> SUBSET {"Done", "Error"}]]
      BY <2>1, <2>3 DEF Dma!DmaError, DmaInv, Dma!TypeOK
    <3>2. position' \in [Dma!Chans -> Dma!Bds] /\ errors' \in 0..MaxErrors
          /\ pending' \in SUBSET Dma!Chans
      BY <2>1, <2>3, DevAssumed DEF Dma!DmaError, DmaInv, Dma!TypeOK
    <3>3. QED
      BY <2>3, <3>1, <3>2 DEF Dma!DmaError, DmaInv, Dma!TypeOK, Dma!clients
  <2>4. QED
    BY <2>2, <2>3
<1>3. QED
  BY <1>1, <1>2, DmaKeeps DEF DmaInv

-----------------------------------------------------------------------------
(***************************************************************************)
(* imx_sdma_isr                                                            *)
(***************************************************************************)
IsrType ==
    [todo : SUBSET Dma!Chans, chan : Dma!Chans \cup {0}, desc : Dma!Clients \cup {"none"},
     bd : Dma!Bds, step : {"idle", "next", "loop", "after"}, release : BOOLEAN]

\* So does the entry of the interrupt handler.
LEMMA DmaIsrEnter == DmaInv /\ Dma!IsrEnter => DmaInv'
<1> SUFFICES ASSUME DmaInv, Dma!IsrEnter PROVE DmaInv'
  OBVIOUS
<1>1. /\ isr' = [Dma!IsrIdle EXCEPT !.todo = pending, !.step = "next"]
      /\ pending' = {}
      /\ UNCHANGED <<avail, desc, bd, count, index, position, on, good, errors, events, elapsed,
                     mem, rem, nr, done, pc, chan, ops, rough>>
  BY DEF Dma!IsrEnter, Dma!handle, Dma!clients
<1>2. 0 \in Dma!Bds
  BY DevAssumed DEF Dma!Bds
<1>3. isr' \in IsrType
  BY <1>1, <1>2 DEF DmaInv, Dma!TypeOK, IsrType, Dma!IsrIdle, Dma!None
<1>4. Dma!TypeOK'
  BY <1>1, <1>3 DEF DmaInv, Dma!TypeOK, IsrType, Dma!None
<1>5. isr'.step = "next" /\ isr'.desc = "none" /\ isr'.release
  BY <1>1 DEF Dma!IsrIdle, Dma!None
<1>6. HandlerSteps'
  BY <1>5, DevAssumed DEF HandlerSteps, Dma!Clients
<1>7. QED
  BY <1>1, <1>4, <1>6, DmaKeeps DEF DmaInv

\* So does the choice of its next channel, which locks it.
LEMMA DmaIsrNext == DmaInv /\ Dma!IsrNext => DmaInv'
<1> SUFFICES ASSUME DmaInv, Dma!IsrNext PROVE DmaInv'
  OBVIOUS
<1>1. UNCHANGED <<avail, desc, bd, count, index, position, on, good, errors, events, elapsed,
                  mem, rem, nr, done, pc, chan, ops, rough, pending>>
  BY DEF Dma!IsrNext, Dma!handle, Dma!clients, Dma!hw
<1>2. CASE isr.todo = {}
  <2>1. isr' = Dma!IsrIdle
    BY <1>2 DEF Dma!IsrNext
  <2>2. 0 \in Dma!Bds
    BY DevAssumed DEF Dma!Bds
  <2>3. Dma!TypeOK'
    BY <1>1, <2>1, <2>2 DEF DmaInv, Dma!TypeOK, Dma!IsrIdle, Dma!None
  <2>4. HandlerSteps'
    BY <2>1, DevAssumed DEF HandlerSteps, Dma!Clients, Dma!IsrIdle, Dma!None
  <2>5. QED
    BY <1>1, <2>3, <2>4, DmaKeeps DEF DmaInv
<1>3. CASE isr.todo # {}
  <2>1. isr \in IsrType /\ isr.step = "next" /\ isr.release
    BY DEF DmaInv, HandlerSteps, Dma!TypeOK, IsrType, Dma!None, Dma!IsrNext
  <2>2. PICK c \in Dma!Chans : isr' = [isr EXCEPT !.todo = isr.todo \ {c}, !.chan = c,
                                    !.desc = desc[c], !.bd = index[c], !.step = "loop"]
    BY <1>3, <2>1, Lowest DEF Dma!IsrNext, IsrType
  <2>3. PICK k \in Dma!Clients \cup {"none"} : k = desc[c]
    BY DEF DmaInv, Dma!TypeOK, Dma!None
  <2>4. index[c] \in Dma!Bds
    BY DEF DmaInv, Dma!TypeOK
  <2>5. isr' \in IsrType
    BY <2>1, <2>2, <2>3, <2>4 DEF IsrType
  <2>6. Dma!TypeOK'
    BY <1>1, <2>5 DEF DmaInv, Dma!TypeOK, IsrType, Dma!None
  <2>7. isr'.step = "loop" /\ isr'.chan = c /\ isr'.desc = k /\ isr'.release
    BY <2>1, <2>2, <2>3 DEF IsrType
  <2>8. k \in Dma!Clients => Transfers(k, c) /\ Dma!Owns(k, c)
    BY <2>3 DEF DmaInv, DescOfOwner, Transfers, Dma!Owns, Dma!Clients
  <2>9. k \in Dma!Clients => Transfers(k, c)' /\ Dma!Owns(k, c)'
    BY <1>1, <2>8 DEF Transfers, Dma!Owns
  <2>10. HandlerSteps'
    BY <2>7, <2>9 DEF HandlerSteps, Transfers, Dma!Owns
  <2>11. QED
    BY <1>1, <2>6, <2>10, DmaKeeps DEF DmaInv
<1>4. QED
  BY <1>2, <1>3

\* So does every unlocking of the channel by the handler.
LEMMA DmaIsrUnlock ==
  ASSUME DmaInv, isr' = Dma!IsrUnlock,
         bd' \in [Dma!Chans -> [Dma!Bds -> SUBSET {"Done", "Error"}]],
         UNCHANGED <<avail, desc, count, index, position, on, good, errors, events, elapsed,
                     mem, rem, nr, done, pc, chan, ops, rough, pending>>
  PROVE  DmaInv'
<1>1. isr' = [Dma!IsrIdle EXCEPT !.todo = isr.todo, !.step = "next"] /\ isr \in IsrType
  BY DEF Dma!IsrUnlock, DmaInv, Dma!TypeOK, IsrType, Dma!None
<1>2. 0 \in Dma!Bds
  BY DevAssumed DEF Dma!Bds
<1>3. isr' \in IsrType
  BY <1>1, <1>2 DEF IsrType, Dma!IsrIdle, Dma!None
<1>4. Dma!TypeOK'
  BY <1>3 DEF DmaInv, Dma!TypeOK, IsrType, Dma!None
<1>5. isr'.step = "next" /\ isr'.desc = "none" /\ isr'.release
  BY <1>1 DEF Dma!IsrIdle, Dma!None
<1>6. HandlerSteps'
  BY <1>5, DevAssumed DEF HandlerSteps, Dma!Clients
<1>7. QED
  BY <1>4, <1>6, DmaKeeps DEF DmaInv

\* So does the end of the scan of a channel.
LEMMA DmaIsrLeave == DmaInv /\ Dma!IsrLeave => DmaInv'
<1> SUFFICES ASSUME DmaInv, Dma!IsrLeave PROVE DmaInv'
  OBVIOUS
<1>1. isr' = Dma!IsrUnlock /\ bd' = bd
      /\ UNCHANGED <<avail, desc, count, index, position, on, good, errors, events, elapsed,
                     mem, rem, nr, done, pc, chan, ops, rough, pending>>
  BY DEF Dma!IsrLeave, Dma!handle, Dma!clients, Dma!hw
<1>2. bd \in [Dma!Chans -> [Dma!Bds -> SUBSET {"Done", "Error"}]]
  BY DEF DmaInv, Dma!TypeOK
<1>3. QED
  BY <1>1, <1>2, DmaIsrUnlock

\* So does a descriptor that is given back to the engine.
LEMMA DmaIsrGiveBack == DmaInv /\ Dma!IsrGiveBack => DmaInv'
<1> SUFFICES ASSUME DmaInv, Dma!IsrGiveBack PROVE DmaInv'
  OBVIOUS
<1>1. /\ bd' = [bd EXCEPT ![isr.chan][isr.bd] =
                   bd[isr.chan][isr.bd] \cup {IF isr.release THEN "Done" ELSE "Error"}]
      /\ isr' = Dma!Onwards /\ isr.step = "after"
      /\ UNCHANGED <<avail, desc, count, index, position, on, good, errors, events, elapsed,
                     mem, rem, nr, done, pc, chan, ops, rough, pending>>
  BY DEF Dma!IsrGiveBack, Dma!handle, Dma!clients, Dma!hw
<1>2. isr \in IsrType /\ isr.chan \in Dma!Chans
  BY <1>1 DEF DmaInv, HandlerSteps, Dma!TypeOK, IsrType, Dma!None
<1>3. bd' \in [Dma!Chans -> [Dma!Bds -> SUBSET {"Done", "Error"}]]
  BY <1>1, <1>2 DEF DmaInv, Dma!TypeOK, IsrType
<1>4. CASE ~isr.release
  BY <1>1, <1>3, <1>4, DmaIsrUnlock DEF Dma!Onwards
<1>5. CASE isr.release
  <2>1. isr' = [isr EXCEPT !.step = "loop", !.bd = index[isr.chan]]
    BY <1>1, <1>5 DEF Dma!Onwards
  <2>2. index[isr.chan] \in Dma!Bds
    BY <1>2 DEF DmaInv, Dma!TypeOK
  <2>3. isr' \in IsrType
    BY <1>2, <2>1, <2>2 DEF IsrType
  <2>4. Dma!TypeOK'
    BY <1>1, <1>3, <2>3 DEF DmaInv, Dma!TypeOK, IsrType, Dma!None
  <2>5. isr'.step = "loop" /\ isr'.chan = isr.chan /\ isr'.desc = isr.desc /\ isr'.release
    BY <1>2, <1>5, <2>1 DEF IsrType
  <2>6. HandlerSteps'
    BY <1>1, <1>2, <1>5, <2>5 DEF DmaInv, HandlerSteps, Transfers, Dma!Owns
  <2>7. QED
    BY <1>1, <2>4, <2>6, DmaKeeps DEF DmaInv
<1>6. QED
  BY <1>4, <1>5

\* What IsrPeriod finds, and does in any case
LEMMA DmaPeriodIs ==
  ASSUME DmaInv, Dma!IsrPeriod
  PROVE  /\ isr \in IsrType /\ isr.step = "loop" /\ isr.chan \in Dma!Chans
         /\ isr.desc \in Dma!Clients /\ isr.release
         /\ ~("Done" \in bd[isr.chan][isr.bd])
         /\ Transfers(isr.desc, isr.chan) /\ chan[isr.desc] = isr.chan
         /\ bd' = [bd EXCEPT ![isr.chan][isr.bd] = bd[isr.chan][isr.bd] \ {"Error"}]
         /\ bd' \in [Dma!Chans -> [Dma!Bds -> SUBSET {"Done", "Error"}]]
         /\ index' \in [Dma!Chans -> Dma!Bds] /\ elapsed' \in [Dma!Clients -> Nat]
         /\ elapsed' = Dma!Counted(isr.desc, "Error" \notin bd[isr.chan][isr.bd])
         /\ UNCHANGED <<avail, count, position, pending, good, errors, mem, nr, pc, chan, ops,
                        rough>>
<1>1. isr \in IsrType /\ isr.step = "loop" /\ isr.chan \in Dma!Chans /\ isr.desc # "none"
  BY DEF DmaInv, HandlerSteps, Dma!TypeOK, IsrType, Dma!None, Dma!IsrPeriod, Dma!HasWork
<1>2. isr.desc \in Dma!Clients /\ isr.release /\ isr.bd \in Dma!Bds
  BY <1>1 DEF IsrType, DmaInv, HandlerSteps
<1>3. Transfers(isr.desc, isr.chan) /\ chan[isr.desc] = isr.chan
  BY <1>1, <1>2 DEF DmaInv, HandlerSteps, Dma!Owns
<1>4. /\ bd' = [bd EXCEPT ![isr.chan][isr.bd] = bd[isr.chan][isr.bd] \ {"Error"}]
      /\ index' = [index EXCEPT ![isr.chan] = Dma!NextBd(isr.chan, index[isr.chan])]
      /\ elapsed' = Dma!Counted(isr.desc, "Error" \notin bd[isr.chan][isr.bd])
      /\ ~("Done" \in bd[isr.chan][isr.bd])
      /\ UNCHANGED <<avail, count, position, pending, good, errors, mem, nr, pc, chan, ops, rough>>
  BY DEF Dma!IsrPeriod, Dma!HasWork
<1>5. bd' \in [Dma!Chans -> [Dma!Bds -> SUBSET {"Done", "Error"}]]
  BY <1>1, <1>2, <1>4 DEF DmaInv, Dma!TypeOK
<1>6. index' \in [Dma!Chans -> Dma!Bds]
  <2>1. index[isr.chan] \in Dma!Bds
    BY <1>1 DEF DmaInv, Dma!TypeOK
  <2>2. Dma!NextBd(isr.chan, index[isr.chan]) \in Dma!Bds
    BY <1>1, <2>1, NextBdInRing DEF DmaInv
  <2>3. QED
    BY <1>4, <2>2 DEF DmaInv, Dma!TypeOK
<1>7. elapsed' \in [Dma!Clients -> Nat]
  BY <1>2, <1>4 DEF DmaInv, Dma!TypeOK, Dma!Counted
<1>8. QED
  BY <1>1, <1>2, <1>3, <1>4, <1>5, <1>6, <1>7

\* So does the count of a period, whose client is still there.
LEMMA DmaIsrPeriod == DmaInv /\ Dma!IsrPeriod => DmaInv'
<1> SUFFICES ASSUME DmaInv, Dma!IsrPeriod PROVE DmaInv'
  OBVIOUS
<1>1. PICK k \in Dma!Clients : k = isr.desc
  BY DmaPeriodIs
<1>2. PICK c \in Dma!Chans : c = isr.chan
  BY DmaPeriodIs
<1>3. /\ isr \in IsrType /\ isr.release /\ Transfers(k, c) /\ chan[k] = c /\ isr.step = "loop"
      /\ Dma!Owns(k, c)
  BY <1>1, <1>2, DmaPeriodIs DEF DmaInv, HandlerSteps
<1>4. CASE k \in Cyclic
  <2>1. /\ isr' = [isr EXCEPT !.step = "after", !.release = TRUE]
        /\ UNCHANGED <<rem, on, events, desc, done>>
    BY <1>1, <1>4 DEF Dma!IsrPeriod, Dma!AudioCallback
  <2>2. isr' \in IsrType
    BY <1>3, <2>1 DEF IsrType
  <2>3. Dma!TypeOK'
    BY <2>1, <2>2, DmaPeriodIs DEF DmaInv, Dma!TypeOK, IsrType, Dma!None
  <2>4. isr'.step = "after" /\ isr'.chan = c /\ isr'.desc = k /\ isr'.release
    BY <1>1, <1>2, <1>3, <2>1 DEF IsrType
  <2>5. UNCHANGED <<pc, chan, done, mem, rem, desc>>
    BY <2>1, DmaPeriodIs
  <2>6. HandlerSteps'
    BY <1>3, <2>4, <2>5 DEF HandlerSteps, Transfers, Dma!Owns
  <2>7. QED
    BY <2>3, <2>5, <2>6, DmaKeeps DEF DmaInv
<1>5. CASE k \in Finite
  <2> DEFINE ok == "Error" \notin bd[c][isr.bd]
             left == rem[k] - 1
             last == ok /\ left = 0
  <2>1. /\ rem' = IF ok THEN [rem EXCEPT ![k] = left] ELSE rem
        /\ isr' = [isr EXCEPT !.step = "after", !.release = ok /\ Dma!Needed(k, left)]
        /\ IF last THEN Dma!Disabled(c) ELSE UNCHANGED <<on, events>>
        /\ desc' = IF last THEN [desc EXCEPT ![c] = "none"] ELSE desc
        /\ done' = IF last THEN [done EXCEPT ![k] = TRUE] ELSE done
    <3>1. k \notin Cyclic
      BY <1>5, DevAssumed
    <3>2. QED
      BY <1>1, <1>2, <1>3, <3>1 DEF Dma!IsrPeriod, Dma!AsrcCallback, Dma!None
  <2>2. rem[k] \in Nat /\ rem[k] > 0 /\ pc[k] = "run" /\ ~done[k] /\ nr[k] \in Nat /\ nr[k] >= 1
    BY <1>3, <1>5, DevAssumed DEF DmaInv, Dma!TypeOK, ClientSteps, ClientStep, Transfers
  <2>3. left \in Nat /\ (last => ~Dma!Needed(k, left))
    BY <2>2 DEF Dma!Needed
  <2>4. Dma!Needed(k, left) \in BOOLEAN /\ ok \in BOOLEAN
    BY DEF Dma!Needed
  <2>5. \E b \in BOOLEAN : /\ isr' = [isr EXCEPT !.step = "after", !.release = b]
                           /\ b => ~last
    BY <2>1, <2>3, <2>4
  <2>6. isr' \in IsrType /\ isr'.step = "after" /\ isr'.chan = c /\ isr'.desc = k
        /\ (isr'.release => ~last)
    BY <1>1, <1>2, <1>3, <2>5 DEF IsrType
  <2>7. rem' \in [Dma!Clients -> Nat]
    BY <2>1, <2>3 DEF DmaInv, Dma!TypeOK
  <2>8. done' \in [Dma!Clients -> BOOLEAN] /\ desc' \in [Dma!Chans -> Dma!Clients \cup {"none"}]
    BY <2>1 DEF DmaInv, Dma!TypeOK, Dma!None
  <2>9. on' \in [Dma!Chans -> BOOLEAN] /\ events' \in [Dma!Clients -> SUBSET Dma!Chans]
    <3> HIDE DEF ok, left, last
    <3>1. on \in [Dma!Chans -> BOOLEAN] /\ events \in [Dma!Clients -> SUBSET Dma!Chans]
      BY DEF DmaInv, Dma!TypeOK
    <3>2. Dma!Disabled(c) => /\ on' \in [Dma!Chans -> BOOLEAN]
                             /\ events' \in [Dma!Clients -> SUBSET Dma!Chans]
      BY <3>1 DEF Dma!Disabled
    <3>3. QED
      BY <2>1, <3>1, <3>2
  <2>10. Dma!TypeOK'
    <3> HIDE DEF ok, left, last
    <3>1. QED
      BY <2>6, <2>7, <2>8, <2>9, DmaPeriodIs DEF DmaInv, Dma!TypeOK, IsrType, Dma!None
  <2>11. UNCHANGED <<pc, chan, mem>>
    BY DmaPeriodIs
  <2>12. \A j \in Dma!Clients : j # k => rem'[j] = rem[j] /\ done'[j] = done[j]
    BY <2>1 DEF DmaInv, Dma!TypeOK
  <2>13. k \notin Cyclic
    BY <1>5, DevAssumed
  <2>14. CASE last
    <3>1. desc' = [desc EXCEPT ![c] = "none"] /\ done'[k]
      BY <2>1, <2>14 DEF DmaInv, Dma!TypeOK
    <3>2. ~isr'.release
      BY <2>6, <2>14
    <3> HIDE DEF ok, left, last
    <3>3. ClientSteps'
      <4> SUFFICES ASSUME NEW j \in Dma!Clients PROVE ClientStep(j)'
        BY DEF ClientSteps
      <4>1. CASE j = k
        BY <1>5, <2>2, <2>11, <2>13, <3>1, <4>1 DEF DmaInv, ClientSteps, ClientStep
      <4>2. CASE j # k
        BY <2>11, <2>12, <4>2 DEF DmaInv, ClientSteps, ClientStep
      <4>3. QED
        BY <4>1, <4>2
    <3>4. DescOfOwner'
      <4>1. ASSUME NEW d \in Dma!Chans, NEW j \in Dma!Clients, desc'[d] = j
            PROVE  Transfers(j, d)'
        <5>1. d # c /\ desc[d] = j
          BY <3>1, <4>1, DevAssumed DEF DmaInv, Dma!TypeOK
        <5>2. Transfers(j, d)
          BY <5>1 DEF DmaInv, DescOfOwner
        <5>3. j # k
          BY <1>3, <5>1, <5>2 DEF Transfers
        <5>4. QED
          BY <2>11, <2>12, <5>2, <5>3 DEF Transfers
      <4>2. QED
        BY <4>1 DEF DescOfOwner, Transfers
    <3>5. HandlerSteps'
      BY <1>3, <2>6, <2>11, <2>13, <3>2 DEF HandlerSteps, Dma!Owns
    <3>6. QED
      BY <2>10, <3>3, <3>4, <3>5 DEF DmaInv
  <2>15. CASE ~last
    <3>1. desc' = desc /\ done' = done
      BY <2>1, <2>15
    <3>2. rem'[k] > 0
      BY <2>1, <2>2, <2>15 DEF DmaInv, Dma!TypeOK
    <3> HIDE DEF ok, left, last
    <3>3. ClientSteps'
      <4> SUFFICES ASSUME NEW j \in Dma!Clients PROVE ClientStep(j)'
        BY DEF ClientSteps
      <4>1. CASE j = k
        BY <1>5, <2>2, <2>11, <2>13, <3>1, <3>2, <4>1 DEF DmaInv, ClientSteps, ClientStep
      <4>2. CASE j # k
        BY <2>11, <2>12, <4>2 DEF DmaInv, ClientSteps, ClientStep
      <4>3. QED
        BY <4>1, <4>2
    <3>4. DescOfOwner'
      BY <2>11, <3>1, DmaKeeps DEF DmaInv
    <3>5. HandlerSteps'
      BY <1>3, <2>6, <2>11, <2>13, <3>1 DEF HandlerSteps, Dma!Owns, Transfers
    <3>6. QED
      BY <2>10, <3>3, <3>4, <3>5 DEF DmaInv
  <2>16. QED
    BY <2>14, <2>15
<1>6. QED
  BY <1>4, <1>5 DEF Dma!Clients

-----------------------------------------------------------------------------
(***************************************************************************)
(* The operations of the clients                                           *)
(***************************************************************************)
LEMMA DmaClientStep ==
  ASSUME DmaInv, NEW k \in Dma!Clients, Dma!TypeOK', isr' = isr, ClientStep(k)',
         \A j \in Dma!Clients : j # k => /\ pc'[j] = pc[j] /\ chan'[j] = chan[j]
                                         /\ done'[j] = done[j] /\ mem'[j] = mem[j]
                                         /\ rem'[j] = rem[j],
         \A c \in Dma!Chans : desc'[c] = k => Transfers(k, c)',
         \A c \in Dma!Chans : desc'[c] \in {desc[c], "none", k},
         isr.desc = k => Dma!Owns(k, isr.chan)' /\ (isr.release => Transfers(k, isr.chan)')
  PROVE  DmaInv'
<1>1. ClientSteps'
  <2>1. ASSUME NEW j \in Dma!Clients, j # k PROVE ClientStep(j)'
    BY <2>1 DEF DmaInv, ClientSteps, ClientStep
  <2>2. QED
    BY <2>1 DEF ClientSteps
<1>2. DescOfOwner'
  <2>1. ASSUME NEW d \in Dma!Chans, NEW j \in Dma!Clients, desc'[d] = j, j # k
        PROVE  Transfers(j, d)'
    <3>1. desc[d] = j
      BY <2>1, DevAssumed
    <3>2. Transfers(j, d)
      BY <3>1 DEF DmaInv, DescOfOwner
    <3>3. QED
      BY <2>1, <3>2 DEF Transfers
  <2>2. QED
    BY <2>1 DEF DescOfOwner, Transfers
<1>3. HandlerSteps'
  <2>1. ASSUME NEW j \in Dma!Clients, isr.desc = j, j # k
        PROVE  Dma!Owns(j, isr.chan)' /\ (isr.release => Transfers(j, isr.chan)')
    <3>1. Dma!Owns(j, isr.chan) /\ (isr.release => Transfers(j, isr.chan))
      BY <2>1 DEF DmaInv, HandlerSteps
    <3>2. QED
      BY <2>1, <3>1 DEF Transfers, Dma!Owns
  <2>2. isr.desc \in Dma!Clients =>
          Dma!Owns(isr.desc, isr.chan)' /\ (isr.release => Transfers(isr.desc, isr.chan)')
    BY <2>1 DEF Transfers, Dma!Owns
  <2>3. QED
    BY <2>2 DEF DmaInv, HandlerSteps, Transfers, Dma!Owns
<1>4. QED
  BY <1>1, <1>2, <1>3 DEF DmaInv

\* A client that has no transfer is in neither place.
LEMMA NotTransferring ==
  ASSUME DmaInv, NEW k \in Dma!Clients, \A c : ~Transfers(k, c)
  PROVE  /\ \A c \in Dma!Chans : desc[c] # k
         /\ isr.desc = k => ~isr.release /\ k \notin Cyclic /\ Dma!Owns(k, isr.chan)
  BY DEF DmaInv, DescOfOwner, HandlerSteps

\* So does a client that looks for a channel.
LEMMA DmaRequest ==
  ASSUME DmaInv, NEW k \in Dma!Clients, Dma!RequestChannel(k) \/ Dma!RequestScan(k)
  PROVE  DmaInv'
<1>1. pc[k] \in {"idle", "scan"} /\ isr' = isr /\ desc' = desc
      /\ UNCHANGED <<done, mem, rem, nr, events, elapsed, on, pending, good, errors, rough>>
  BY DEF Dma!RequestChannel, Dma!RequestScan, Dma!hw
<1>2. \A c : ~Transfers(k, c) /\ ~Dma!Owns(k, c)
  BY <1>1, DevAssumed DEF Transfers, Dma!Owns, Dma!Clients
<1>3. /\ pc' = [pc EXCEPT ![k] = pc'[k]] /\ chan' = [chan EXCEPT ![k] = chan'[k]]
      /\ pc'[k] \in {"scan", "got"} /\ chan'[k] \in Dma!Chans
      /\ ops' \in 0..SdmaOps
      /\ avail' \in [Dma!Chans -> BOOLEAN] /\ count' \in [Dma!Chans -> 1..NrBd]
      /\ bd' \in [Dma!Chans -> [Dma!Bds -> SUBSET {"Done", "Error"}]]
      /\ index' \in [Dma!Chans -> Dma!Bds] /\ position' \in [Dma!Chans -> Dma!Bds]
  <2> USE DevAssumed DEF Dma!Goto
  <2>1. 0 \in Dma!Bds /\ 1 \in 1..NrBd /\ 1 \in Dma!Chans
    BY DEF Dma!Bds, Dma!Chans
  <2>2. CASE Dma!RequestChannel(k)
    BY <2>1, <2>2 DEF Dma!RequestChannel, Dma!Call, DmaInv, Dma!TypeOK, Dma!handle, Dma!hw
  <2>3. CASE Dma!RequestScan(k) /\ avail[chan[k]]
    <3>1. chan[k] \in Dma!Chans
      BY <2>3 DEF Dma!RequestScan, DmaInv, ClientSteps, ClientStep
    <3>2. /\ avail' = [avail EXCEPT ![chan[k]] = FALSE]
          /\ bd' = [bd EXCEPT ![chan[k]] = [i \in Dma!Bds |-> {}]]
          /\ count' = [count EXCEPT ![chan[k]] = 1]
          /\ index' = [index EXCEPT ![chan[k]] = 0]
          /\ position' = [position EXCEPT ![chan[k]] = 0]
          /\ pc' = [pc EXCEPT ![k] = "got"] /\ chan' = chan /\ ops' = ops
      BY <2>3 DEF Dma!RequestScan
    <3>3. [i \in Dma!Bds |-> {}] \in [Dma!Bds -> SUBSET {"Done", "Error"}]
      OBVIOUS
    <3>4. bd' \in [Dma!Chans -> [Dma!Bds -> SUBSET {"Done", "Error"}]]
      BY <3>1, <3>2, <3>3 DEF DmaInv, Dma!TypeOK
    <3>5. QED
      BY <2>1, <3>1, <3>2, <3>4 DEF DmaInv, Dma!TypeOK
  <2>4. CASE Dma!RequestScan(k) /\ ~avail[chan[k]]
    <3>1. chan[k] \in Dma!Chans
      BY <2>4 DEF Dma!RequestScan, DmaInv, ClientSteps, ClientStep
    <3>2. chan[k] < LastChan => chan[k] + 1 \in Dma!Chans
      BY <3>1 DEF Dma!Chans
    <3>3. QED
      BY <2>4, <3>1, <3>2 DEF Dma!RequestScan, DmaInv, Dma!TypeOK, Dma!handle
  <2>5. QED
    BY <2>2, <2>3, <2>4
<1>4. Dma!TypeOK'
  <2>1. /\ pc' \in [Dma!Clients -> {"idle", "scan", "got", "ready", "run", "paused", "terminate"}]
        /\ chan' \in [Dma!Clients -> Dma!Chans \cup {0}]
    <3>1. PICK p \in {"scan", "got"}, c \in Dma!Chans :
             pc' = [pc EXCEPT ![k] = p] /\ chan' = [chan EXCEPT ![k] = c]
      BY <1>3
    <3>2. QED
      BY <3>1 DEF DmaInv, Dma!TypeOK
  <2>2. QED
    BY <1>1, <1>3, <2>1 DEF DmaInv, Dma!TypeOK
<1>5. \A j \in Dma!Clients : j # k => pc'[j] = pc[j] /\ chan'[j] = chan[j]
  BY <1>3 DEF DmaInv, Dma!TypeOK
<1>6. ClientStep(k)'
  BY <1>1, <1>3 DEF DmaInv, ClientSteps, ClientStep
<1>7. QED
  BY <1>1, <1>2, <1>4, <1>5, <1>6, NotTransferring, DmaClientStep

\* So does the preparation of a transfer.
LEMMA DmaPrepare ==
  ASSUME DmaInv, NEW k \in Dma!Clients, Dma!PrepareCyclic(k) \/ Dma!PrepareFinite(k)
  PROVE  DmaInv'
<1>1. pc[k] = "got" /\ pc' = [pc EXCEPT ![k] = "ready"]
      /\ UNCHANGED <<avail, desc, position, on, pending, errors, isr, done, chan, rough>>
  BY DEF Dma!PrepareCyclic, Dma!PrepareFinite, Dma!Goto
<1>2. \A c : ~Transfers(k, c)
  BY <1>1, DevAssumed DEF Transfers, Dma!Clients
<1>3. chan[k] \in Dma!Chans
  BY <1>1 DEF DmaInv, ClientSteps, ClientStep
<1>4. PICK n \in 1..NrBd : Dma!Prepared(k, chan[k], n) /\ n \in Nat
  <2>1. CASE Dma!PrepareCyclic(k)
    BY <2>1, DevAssumed DEF Dma!PrepareCyclic
  <2>2. CASE Dma!PrepareFinite(k)
    <3>1. nr[k] \in 1..NrBd
      BY DEF DmaInv, Dma!TypeOK
    <3>2. QED
      BY <2>2, <3>1, DevAssumed DEF Dma!PrepareFinite
  <2>3. QED
    BY <2>1, <2>2
<1>5. /\ rem' \in [Dma!Clients -> Nat] /\ nr' \in [Dma!Clients -> 1..NrBd] /\ ops' \in 0..SdmaOps
      /\ \A j \in Dma!Clients : j # k => rem'[j] = rem[j]
      /\ k \in Finite => rem'[k] > 0
  <2>1. CASE Dma!PrepareCyclic(k)
    BY <2>1, DevAssumed DEF Dma!PrepareCyclic, DmaInv, Dma!TypeOK
  <2>2. CASE Dma!PrepareFinite(k)
    <3>1. nr[k] \in 1..NrBd /\ nr \in [Dma!Clients -> 1..NrBd] /\ rem \in [Dma!Clients -> Nat]
          /\ ops \in 0..SdmaOps
      BY DEF DmaInv, Dma!TypeOK
    <3>2. PICK total \in Totals :
             /\ nr' = [nr EXCEPT ![k] = IF nr[k] > total THEN total ELSE nr[k]]
             /\ rem' = [rem EXCEPT ![k] = total]
      BY <2>2 DEF Dma!PrepareFinite
    <3>3. (IF nr[k] > total THEN total ELSE nr[k]) \in 1..NrBd /\ total \in Nat /\ total > 0
      BY <3>1, DevAssumed
    <3>4. ops' \in 0..SdmaOps
      BY <2>2, <3>1, DevAssumed DEF Dma!PrepareFinite, Dma!Call
    <3>5. QED
      BY <3>1, <3>2, <3>3, <3>4
  <2>3. QED
    BY <2>1, <2>2
<1>6. /\ bd' \in [Dma!Chans -> [Dma!Bds -> SUBSET {"Done", "Error"}]]
      /\ mem' \in [Dma!Clients -> BOOLEAN] /\ elapsed' \in [Dma!Clients -> Nat]
      /\ count' \in [Dma!Chans -> 1..NrBd] /\ index' \in [Dma!Chans -> Dma!Bds]
      /\ events' \in [Dma!Clients -> SUBSET Dma!Chans] /\ good' \in [Dma!Chans -> Nat]
      /\ mem'[k] /\ \A j \in Dma!Clients : j # k => mem'[j] = mem[j]
  <2>1. 0 \in Dma!Bds
    BY DevAssumed DEF Dma!Bds
  <2>2. [i \in Dma!Bds |-> IF i < n THEN {"Done"} ELSE bd[chan[k]][i]]
          \in [Dma!Bds -> SUBSET {"Done", "Error"}]
    BY <1>3 DEF DmaInv, Dma!TypeOK
  <2>3. bd' \in [Dma!Chans -> [Dma!Bds -> SUBSET {"Done", "Error"}]]
    BY <1>3, <1>4, <2>2 DEF Dma!Prepared, DmaInv, Dma!TypeOK
  <2>4. QED
    BY <1>3, <1>4, <2>1, <2>3 DEF Dma!Prepared, DmaInv, Dma!TypeOK
<1>7. Dma!TypeOK'
  BY <1>1, <1>5, <1>6 DEF DmaInv, Dma!TypeOK
<1>8. \A j \in Dma!Clients : j # k => pc'[j] = pc[j]
  BY <1>1 DEF DmaInv, Dma!TypeOK
<1>9. pc'[k] = "ready"
  BY <1>1 DEF DmaInv, Dma!TypeOK
<1>10. ClientStep(k)'
  BY <1>1, <1>3, <1>5, <1>6, <1>9 DEF DmaInv, ClientSteps, ClientStep
<1>11. isr.desc = k => Dma!Owns(k, isr.chan)' /\ ~isr.release
  BY <1>1, <1>2, <1>9, NotTransferring DEF Dma!Owns
<1>12. QED
  BY <1>1, <1>2, <1>5, <1>6, <1>7, <1>8, <1>10, <1>11, NotTransferring, DmaClientStep

\* The operations that leave the ring and the lengths as they are
LEMMA DmaOperation ==
  ASSUME DmaInv, NEW k \in Dma!Clients,
         Dma!Submit(k) \/ Dma!Pause(k) \/ Dma!Resume(k) \/ Dma!Terminate(k) \/ Dma!Completed(k)
  PROVE  DmaInv'
<1>1. /\ pc' = [pc EXCEPT ![k] = pc'[k]] /\ pc[k] \in {"ready", "run", "paused", "got"}
      /\ pc'[k] \in {"run", "paused", "terminate", "got"}
      /\ UNCHANGED <<avail, bd, count, index, position, pending, errors, good, isr, rem, nr, chan,
                     rough>>
  BY DEF Dma!Submit, Dma!Pause, Dma!Resume, Dma!Terminate, Dma!Completed, Dma!Goto, Dma!handle,
         Dma!hw, Dma!Clients, DmaInv, Dma!TypeOK
<1>2. chan[k] \in Dma!Chans
  BY <1>1 DEF DmaInv, ClientSteps, ClientStep
<1>3. ops' \in 0..SdmaOps
  BY DevAssumed DEF Dma!Submit, Dma!Pause, Dma!Resume, Dma!Terminate, Dma!Completed, Dma!Call,
         DmaInv, Dma!TypeOK
<1>4. on' \in [Dma!Chans -> BOOLEAN] /\ events' \in [Dma!Clients -> SUBSET Dma!Chans]
  <2>1. on \in [Dma!Chans -> BOOLEAN] /\ events \in [Dma!Clients -> SUBSET Dma!Chans]
    BY DEF DmaInv, Dma!TypeOK
  <2>2. CASE Dma!Disabled(chan[k])
    BY <2>1, <2>2 DEF Dma!Disabled
  <2>3. CASE ~Dma!Disabled(chan[k])
    BY <1>2, <2>1, <2>3 DEF Dma!Submit, Dma!Pause, Dma!Resume, Dma!Terminate, Dma!Completed, Dma!hw
  <2>4. QED
    BY <2>2, <2>3
<1>5. pc' \in [Dma!Clients -> {"idle", "scan", "got", "ready", "run", "paused", "terminate"}]
      /\ \A j \in Dma!Clients : j # k => pc'[j] = pc[j]
  BY <1>1 DEF DmaInv, Dma!TypeOK
<1>6. Dma!Owns(k, isr.chan) => Dma!Owns(k, isr.chan)'
  BY <1>1 DEF Dma!Owns
<1>7. CASE Dma!Submit(k)
  <2>1. /\ pc[k] = "ready" /\ pc'[k] = "run" /\ desc' = [desc EXCEPT ![chan[k]] = k]
        /\ UNCHANGED <<mem, done, elapsed>>
    BY <1>5, <1>7 DEF Dma!Submit, Dma!Goto, Dma!clients, DmaInv, Dma!TypeOK
  <2>2. Dma!TypeOK'
    BY <1>1, <1>2, <1>3, <1>4, <1>5, <2>1 DEF DmaInv, Dma!TypeOK
  <2>3. ClientStep(k)' /\ Transfers(k, chan[k])'
    BY <1>1, <1>2, <2>1 DEF DmaInv, ClientSteps, ClientStep, Transfers
  <2>4. \A c : ~Transfers(k, c)
    BY <2>1, DevAssumed DEF Transfers, Dma!Clients
  <2>5. \A c \in Dma!Chans : desc'[c] \in {desc[c], k} /\ (desc'[c] = k => c = chan[k])
    BY <1>2, <2>1, <2>4, NotTransferring DEF DmaInv, Dma!TypeOK
  <2>6. \A c \in Dma!Chans : desc'[c] = k => Transfers(k, c)'
    BY <1>1, <2>3, <2>5 DEF Transfers
  <2>7. isr.desc = k => Dma!Owns(k, isr.chan)' /\ ~isr.release
    BY <1>6, <2>4, NotTransferring
  <2>8. QED
    BY <1>1, <1>5, <2>1, <2>2, <2>3, <2>5, <2>6, <2>7, DmaClientStep
<1>8. CASE Dma!Completed(k)
  <2>1. /\ pc'[k] = "got" /\ desc' = desc /\ done[k] /\ done' = [done EXCEPT ![k] = FALSE]
        /\ k \in Finite /\ mem' = [mem EXCEPT ![k] = FALSE] /\ elapsed' = [elapsed EXCEPT ![k] = 0]
    BY <1>5, <1>8 DEF Dma!Completed, Dma!Goto, Dma!Freed, DmaInv, Dma!TypeOK
  <2>2. Dma!TypeOK'
    BY <1>1, <1>2, <1>3, <1>4, <1>5, <2>1 DEF DmaInv, Dma!TypeOK
  <2>3. ClientStep(k)'
    BY <1>1, <1>2, <2>1, DevAssumed DEF DmaInv, Dma!TypeOK, ClientSteps, ClientStep
  <2>4. \A c : ~Transfers(k, c)
    BY <2>1 DEF Transfers
  <2>5. isr.desc = k => Dma!Owns(k, isr.chan)' /\ ~isr.release
    BY <1>6, <2>4, NotTransferring
  <2>6. \A j \in Dma!Clients : j # k => mem'[j] = mem[j] /\ done'[j] = done[j]
    BY <2>1 DEF DmaInv, Dma!TypeOK
  <2>7. QED
    BY <1>1, <1>5, <2>1, <2>2, <2>3, <2>4, <2>5, <2>6, NotTransferring, DmaClientStep
<1>9. CASE Dma!Pause(k) \/ Dma!Resume(k) \/ Dma!Terminate(k)
  <2>1. UNCHANGED <<mem, done, elapsed, desc>>
    BY <1>9 DEF Dma!Pause, Dma!Resume, Dma!Terminate
  <2>2. Dma!TypeOK'
    BY <1>1, <1>2, <1>3, <1>4, <1>5, <2>1 DEF DmaInv, Dma!TypeOK
  <2>3. CASE k \in Cyclic
    <3>1. pc[k] \in {"run", "paused"} /\ pc'[k] \in {"run", "paused", "terminate"}
      BY <1>5, <1>9, <2>3 DEF Dma!Pause, Dma!Resume, Dma!Terminate, Dma!Goto, DmaInv, Dma!TypeOK
    <3>2. ClientStep(k)' /\ \A c : Transfers(k, c) => Transfers(k, c)'
      BY <1>1, <1>2, <2>1, <2>3, <3>1, DevAssumed DEF DmaInv, ClientSteps, ClientStep, Transfers
    <3>3. \A c \in Dma!Chans : desc[c] = k => Transfers(k, c)
      BY DEF DmaInv, DescOfOwner
    <3>4. isr.desc = k => Dma!Owns(k, isr.chan) /\ (isr.release => Transfers(k, isr.chan))
      BY DEF DmaInv, HandlerSteps
    <3>5. isr.desc = k => Dma!Owns(k, isr.chan)' /\ (isr.release => Transfers(k, isr.chan)')
      BY <1>1, <1>6, <3>2, <3>4 DEF Transfers
    <3>6. QED
      BY <1>1, <1>5, <2>1, <2>2, <3>2, <3>3, <3>5, DmaClientStep
  <2>4. CASE k \in Finite
    <3>1. pc[k] = "got" /\ pc'[k] = "terminate"
      BY <1>5, <1>9, <2>4, DevAssumed DEF Dma!Pause, Dma!Resume, Dma!Terminate, Dma!Goto, DmaInv,
           Dma!TypeOK, ClientSteps, ClientStep
    <3>2. ClientStep(k)' /\ \A c : ~Transfers(k, c)
      BY <1>1, <1>2, <2>1, <2>4, <3>1, DevAssumed DEF DmaInv, ClientSteps, ClientStep, Transfers
    <3>3. isr.desc = k => Dma!Owns(k, isr.chan)' /\ ~isr.release
      BY <1>6, <3>2, NotTransferring
    <3>4. QED
      BY <1>1, <1>5, <2>1, <2>2, <3>2, <3>3, NotTransferring, DmaClientStep
  <2>5. QED
    BY <2>3, <2>4 DEF Dma!Clients
<1>10. QED
  BY <1>7, <1>8, <1>9

\* So does the end of a transfer, for which the handler is off the channel.
LEMMA DmaTerminateEnd ==
  ASSUME DmaInv, NEW k \in Dma!Clients, Dma!TerminateEnd(k)
  PROVE  DmaInv'
<1>1. /\ pc[k] = "terminate" /\ isr.step \notin {"loop", "after"}
      /\ avail' = [avail EXCEPT ![chan[k]] = TRUE]
      /\ desc' = [desc EXCEPT ![chan[k]] = "none"]
      /\ mem' = [mem EXCEPT ![k] = FALSE] /\ elapsed' = [elapsed EXCEPT ![k] = 0]
      /\ good' = [good EXCEPT ![chan[k]] = 0]
      /\ pc' = [pc EXCEPT ![k] = "idle"] /\ chan' = [chan EXCEPT ![k] = 0]
      /\ UNCHANGED <<bd, count, index, position, on, pending, errors, events, isr, rem, nr, done,
                     ops, rough>>
  BY DEF Dma!TerminateEnd, Dma!Locked, Dma!Freed, Dma!Goto, Dma!handle, Dma!None
<1>2. chan[k] \in Dma!Chans
  BY <1>1 DEF DmaInv, ClientSteps, ClientStep
<1>3. Dma!TypeOK'
  BY <1>1, <1>2 DEF DmaInv, Dma!TypeOK, Dma!None
<1>4. pc'[k] = "idle" /\ \A j \in Dma!Clients : j # k => /\ pc'[j] = pc[j] /\ chan'[j] = chan[j]
                                                         /\ mem'[j] = mem[j]
  BY <1>1 DEF DmaInv, Dma!TypeOK
<1>5. ClientStep(k)'
  BY <1>1, <1>4 DEF DmaInv, ClientSteps, ClientStep
<1>6. \A c \in Dma!Chans : desc[c] = k => c = chan[k]
  BY DEF DmaInv, DescOfOwner, Transfers
<1>7. \A c \in Dma!Chans : desc'[c] \in {desc[c], "none"} /\ desc'[c] # k
  BY <1>1, <1>2, <1>6, DevAssumed DEF DmaInv, Dma!TypeOK
<1>8. isr.desc # k
  BY <1>1, DevAssumed DEF DmaInv, Dma!TypeOK, HandlerSteps
<1>9. QED
  BY <1>1, <1>3, <1>4, <1>5, <1>7, <1>8, DmaClientStep

-----------------------------------------------------------------------------
\* The invariant of the SDMA is inductive.
LEMMA DmaStep == DmaInv /\ [Dma!Next]_(Dma!vars) => DmaInv'
<1> SUFFICES ASSUME DmaInv, [Dma!Next]_(Dma!vars) PROVE DmaInv'
  OBVIOUS
<1>1. CASE UNCHANGED Dma!vars
  <2>1. Dma!TypeOK' /\ UNCHANGED <<pc, chan, done, mem, rem, desc, isr>>
    BY <1>1 DEF DmaInv, Dma!TypeOK, Dma!vars, Dma!handle, Dma!hw, Dma!clients
  <2>2. QED
    BY <2>1, DmaKeeps DEF DmaInv
<1>2. CASE \E c \in Dma!Chans : Dma!DmaPeriod(c) \/ Dma!DmaError(c)
  BY <1>2, DmaEngineStep
<1>3. CASE Dma!Isr
  BY <1>3, DmaIsrEnter, DmaIsrNext, DmaIsrLeave, DmaIsrPeriod, DmaIsrGiveBack DEF Dma!Isr
<1>4. ASSUME NEW k \in Dma!Clients, Dma!Client(k) PROVE DmaInv'
  BY <1>4, DmaRequest, DmaPrepare, DmaOperation, DmaTerminateEnd DEF Dma!Client
<1>5. QED
  BY <1>1, <1>2, <1>3, <1>4 DEF Dma!Next

\* A step of the devices is a step of the SDMA or leaves it alone.
LEMMA DmaMoves == [Next]_vars => [Dma!Next]_(Dma!vars)
  BY DEF Next, DmaNext, BusNext, ConsoleNext, vars, dmaVars, Dma!vars, Dma!handle, Dma!hw,
         Dma!clients

\* The SDMA keeps its inductive invariant beside the other devices: the handler works for a
\* client that waits for it before it frees its descriptors (sdma.c).
THEOREM DmaInvariant == Spec => []DmaInv
<1>1. Init => DmaInv
  BY DmaInit DEF Init
<1>2. DmaInv /\ [Next]_vars => DmaInv'
  BY DmaStep, DmaMoves
<1>3. QED
  BY <1>1, <1>2, PTL DEF Spec

(***************************************************************************)
(* An audio port that terminates its channel frees no descriptor that the  *)
(* handler works on, whichever channels are shared and however the         *)
(* terminations meet an interrupt that another CPU is handling.  It says   *)
(* nothing of the ASRC, which does not terminate under the lock.           *)
(***************************************************************************)
THEOREM DevicesDescAlive == Spec => []DescAlive
<1>1. DmaInv => DescAlive
  <2> SUFFICES ASSUME DmaInv, isr.desc \in Cyclic
               PROVE  mem[isr.desc] /\ chan[isr.desc] = isr.chan
    BY DEF DescAlive, Dma!DescAlive
  <2>1. PICK k \in Dma!Clients : k = isr.desc /\ k \in Cyclic
    BY DEF Dma!Clients
  <2>2. Transfers(k, isr.chan)
    BY <2>1 DEF DmaInv, HandlerSteps
  <2>3. QED
    BY <2>1, <2>2 DEF DmaInv, ClientSteps, ClientStep, Transfers
<1>2. QED
  BY <1>1, DmaInvariant, PTL

-----------------------------------------------------------------------------
(***************************************************************************)
(* The periods of a port: an action changes the ring, the number of good   *)
(* periods and the number of counted ones together.                        *)
(***************************************************************************)
LEMMA RingIsFinite ==
  ASSUME NEW c
  PROVE  /\ IsFiniteSet(Dma!Uncounted(c)) /\ Cardinality(Dma!Uncounted(c)) \in Nat
         /\ Dma!Cardinality(Dma!Uncounted(c)) = Cardinality(Dma!Uncounted(c))
<1>1. Dma!Uncounted(c) \subseteq 0..NrBd - 1
  BY DEF Dma!Uncounted, Dma!Bds
<1>2. IsFiniteSet(0..NrBd - 1)
  BY DevAssumed, FS_Interval
<1>3. IsFiniteSet(Dma!Uncounted(c))
  BY <1>1, <1>2, FS_Subset
<1>4. QED
  BY <1>3, FS_CardinalityType DEF Dma!Cardinality, Cardinality

\* The handler gives back no descriptor of the channel c.
NoneGivenBack(c) == ~(isr.step = "after" /\ isr.chan = c)

\* The descriptors of a channel that nothing touches stay accounted for.
LEMMA RingKept ==
  ASSUME NEW k, NEW c, RingAt(k, c), bd'[c] = bd[c], good'[c] = good[c], elapsed'[k] = elapsed[k],
         isr' = isr \/ (NoneGivenBack(c) /\ NoneGivenBack(c)')
  PROVE  RingAt(k, c)'
<1>1. Dma!Uncounted(c)' = Dma!Uncounted(c)
  BY DEF Dma!Uncounted, NoneGivenBack
<1>2. QED
  BY <1>1 DEF RingAt, NoneGivenBack

\* The engine keeps the periods of a channel accounted for.
LEMMA DmaEngineCounts ==
  ASSUME DmaInv, CountInv, NEW d \in Dma!Chans, Dma!DmaPeriod(d) \/ Dma!DmaError(d)
  PROVE  CountInv'
<1>1. UNCHANGED <<pc, chan, elapsed, isr, avail>>
  BY DEF Dma!DmaPeriod, Dma!DmaError, Dma!clients
<1>2. OwnedIsTaken'
  BY <1>1 DEF CountInv, OwnedIsTaken, Dma!Owns
<1>3. ASSUME NEW k \in Dma!Clients, NEW c \in Dma!Chans, Plays(k, c)' PROVE RingAt(k, c)'
  <2>1. RingAt(k, c)
    BY <1>1, <1>3 DEF CountInv, RingInStep, Plays, Dma!Owns
  <2>2. CASE c # d
    <3>1. bd'[c] = bd[c] /\ good'[c] = good[c]
      BY <2>2 DEF Dma!DmaPeriod, Dma!DmaError, DmaInv, Dma!TypeOK
    <3>2. QED
      BY <1>1, <2>1, <3>1, RingKept
  <2>3. CASE c = d
    <3>1. PICK p \in Dma!Bds : p = position[c]
      BY DEF DmaInv, Dma!TypeOK
    <3>2. "Done" \in bd[c][p] /\ "Error" \notin bd[c][p]
      BY <2>1, <2>3, <3>1 DEF Dma!DmaPeriod, Dma!DmaError, Dma!Completes, RingAt
    <3>3. bd[c][p] \subseteq {"Done", "Error"}
      BY DEF DmaInv, Dma!TypeOK
    <3>4. bd[c][p] = {"Done"}
      BY <3>2, <3>3
    <3>5. \A i \in Dma!Bds : i # p => bd'[c][i] = bd[c][i]
      BY <2>3, <3>1 DEF Dma!DmaPeriod, Dma!DmaError, DmaInv, Dma!TypeOK
    <3>6. ~(isr.step = "after" /\ isr.chan = c /\ isr.bd = p)
      BY <2>1, <3>2 DEF RingAt
    <3>7. isr.bd \in Dma!Bds
      BY DEF DmaInv, Dma!TypeOK
    <3>8. p \notin Dma!Uncounted(c)
      BY <3>4 DEF Dma!Uncounted
    <3>9. CASE Dma!DmaPeriod(d)
      <4>1. bd'[c][p] = {} /\ good'[c] = good[c] + 1
        BY <2>3, <3>1, <3>4, <3>9 DEF Dma!DmaPeriod, DmaInv, Dma!TypeOK
      <4>2. Dma!Uncounted(c)' = Dma!Uncounted(c) \cup {p}
        BY <1>1, <3>5, <3>6, <4>1 DEF Dma!Uncounted
      <4>3. Cardinality(Dma!Uncounted(c)') = Cardinality(Dma!Uncounted(c)) + 1
        BY <3>8, <4>2, RingIsFinite, FS_AddElement
      <4>4. elapsed[k] \in Nat /\ good[c] \in Nat /\ Cardinality(Dma!Uncounted(c)) \in Nat
        BY RingIsFinite DEF DmaInv, Dma!TypeOK
      <4>5. good[c] = elapsed[k] + Cardinality(Dma!Uncounted(c))
        BY <2>1 DEF RingAt
      <4>6. good'[c] = elapsed'[k] + Cardinality(Dma!Uncounted(c)')
        BY <1>1, <4>1, <4>3, <4>4, <4>5
      <4>7. QED
        BY <1>1, <2>1, <3>5, <3>6, <3>7, <4>1, <4>6 DEF RingAt
    <3>10. CASE Dma!DmaError(d)
      <4>1. bd'[c][p] = {"Error"} /\ good'[c] = good[c]
        BY <2>3, <3>1, <3>10 DEF Dma!DmaError, DmaInv, Dma!TypeOK
      <4>2. Dma!Uncounted(c)' = Dma!Uncounted(c)
        BY <1>1, <3>4, <3>5, <4>1 DEF Dma!Uncounted
      <4>3. QED
        BY <1>1, <2>1, <3>5, <3>6, <3>7, <4>1, <4>2 DEF RingAt
    <3>11. QED
      BY <3>9, <3>10
  <2>4. QED
    BY <2>2, <2>3
<1>4. QED
  BY <1>2, <1>3 DEF CountInv, RingInStep

\* So does the interrupt handler, if no channel is shared.
LEMMA DmaIsrCounts ==
  ASSUME DmaInv, CountInv, NoSharing, Dma!Isr
  PROVE  CountInv'
<1>1. UNCHANGED <<pc, chan, avail, good>>
  BY DEF Dma!Isr, Dma!IsrEnter, Dma!IsrNext, Dma!IsrLeave, Dma!IsrPeriod, Dma!IsrGiveBack,
         Dma!clients, Dma!hw
<1>2. OwnedIsTaken'
  BY <1>1 DEF CountInv, OwnedIsTaken, Dma!Owns
<1>3. ASSUME NEW k \in Dma!Clients, NEW c \in Dma!Chans, Plays(k, c)' PROVE RingAt(k, c)'
  <2>1. Plays(k, c) /\ RingAt(k, c)
    BY <1>1, <1>3 DEF CountInv, RingInStep, Plays, Dma!Owns
  <2>2. isr \in IsrType
    BY DEF DmaInv, Dma!TypeOK, IsrType, Dma!None
  <2>3. CASE Dma!IsrEnter \/ Dma!IsrNext \/ Dma!IsrLeave
    <3>1. UNCHANGED <<bd, elapsed>> /\ isr.step # "after"
      BY <2>3 DEF Dma!IsrEnter, Dma!IsrNext, Dma!IsrLeave, Dma!handle
    <3>2. isr'.step # "after"
      <4>1. CASE Dma!IsrEnter
        BY <4>1 DEF Dma!IsrEnter, Dma!IsrIdle
      <4>2. CASE Dma!IsrLeave
        BY <4>2 DEF Dma!IsrLeave, Dma!IsrUnlock, Dma!IsrIdle
      <4>3. CASE Dma!IsrNext /\ isr.todo = {}
        BY <4>3 DEF Dma!IsrNext, Dma!IsrIdle
      <4>4. CASE Dma!IsrNext /\ isr.todo # {}
        <5>1. PICK d \in Dma!Chans :
                 isr' = [isr EXCEPT !.todo = isr.todo \ {d}, !.chan = d, !.desc = desc[d],
                                    !.bd = index[d], !.step = "loop"]
          BY <2>2, <4>4, Lowest DEF Dma!IsrNext, IsrType
        <5>2. QED
          BY <2>2, <5>1 DEF IsrType
      <4>5. QED
        BY <2>3, <4>1, <4>2, <4>3, <4>4
    <3>3. QED
      BY <1>1, <2>1, <3>1, <3>2, RingKept DEF NoneGivenBack
  <2>4. CASE Dma!IsrPeriod
    <3>1. PICK j \in Dma!Clients, d \in Dma!Chans, p \in Dma!Bds :
             j = isr.desc /\ d = isr.chan /\ p = isr.bd
      BY <2>2, <2>4, DmaPeriodIs DEF IsrType
    <3>2. Dma!Owns(j, d) /\ Transfers(j, d)
      BY <2>4, <3>1, DmaPeriodIs DEF DmaInv, HandlerSteps
    <3>3. isr'.step = "after" /\ isr'.chan = d /\ isr'.bd = p /\ isr.step = "loop"
      <4>1. PICK r : isr' = [isr EXCEPT !.step = "after", !.release = r]
        BY <2>4 DEF Dma!IsrPeriod, Dma!AudioCallback, Dma!AsrcCallback
      <4>2. QED
        BY <2>2, <2>4, <3>1, <4>1, DmaPeriodIs DEF IsrType
    <3>4. bd' = [bd EXCEPT ![d][p] = bd[d][p] \ {"Error"}] /\ "Done" \notin bd[d][p]
          /\ elapsed' = Dma!Counted(j, "Error" \notin bd[d][p])
      BY <2>4, <3>1, DmaPeriodIs
    <3>5. CASE d # c
      <4>1. j # k
        BY <2>1, <3>2, <3>5 DEF Plays, Dma!Owns
      <4>2. bd'[c] = bd[c] /\ elapsed'[k] = elapsed[k]
        BY <3>4, <3>5, <4>1 DEF Dma!Counted, DmaInv, Dma!TypeOK
      <4>3. QED
        BY <1>1, <2>1, <3>3, <3>5, <4>2, RingKept DEF NoneGivenBack
    <3>6. CASE d = c
      <4>1. j = k
        BY <2>1, <3>2, <3>6 DEF Plays, NoSharing
      <4>2. bd[c][p] \subseteq {"Done", "Error"}
        BY DEF DmaInv, Dma!TypeOK
      <4>3. bd'[c][p] = {} /\ \A i \in Dma!Bds : i # p => bd'[c][i] = bd[c][i]
        BY <3>4, <3>6, <4>2 DEF DmaInv, Dma!TypeOK
      <4>4. elapsed[k] \in Nat /\ good[c] \in Nat /\ Cardinality(Dma!Uncounted(c)) \in Nat
        BY RingIsFinite DEF DmaInv, Dma!TypeOK
      <4>5. good[c] = elapsed[k] + Cardinality(Dma!Uncounted(c))
        BY <2>1 DEF RingAt
      <4>6. CASE "Error" \notin bd[c][p]
        <5>1. bd[c][p] = {}
          BY <3>4, <3>6, <4>2, <4>6
        <5>2. p \in Dma!Uncounted(c)
          BY <3>3, <5>1 DEF Dma!Uncounted
        <5>3. Dma!Uncounted(c)' = Dma!Uncounted(c) \ {p}
          BY <3>3, <3>6, <4>3, <5>1 DEF Dma!Uncounted
        <5>4. Cardinality(Dma!Uncounted(c)') = Cardinality(Dma!Uncounted(c)) - 1
          BY <5>2, <5>3, RingIsFinite, FS_RemoveElement
        <5>5. elapsed'[k] = elapsed[k] + 1
          BY <3>4, <3>6, <4>1, <4>6 DEF Dma!Counted, DmaInv, Dma!TypeOK
        <5>6. good'[c] = elapsed'[k] + Cardinality(Dma!Uncounted(c)')
          BY <1>1, <4>4, <4>5, <5>4, <5>5
        <5>7. QED
          BY <2>1, <3>3, <4>3, <5>6 DEF RingAt
      <4>7. CASE "Error" \in bd[c][p]
        <5>1. elapsed' = elapsed
          BY <3>4, <3>6, <4>7 DEF Dma!Counted
        <5>2. Dma!Uncounted(c)' = Dma!Uncounted(c)
          BY <3>3, <3>6, <4>3, <4>7 DEF Dma!Uncounted
        <5>3. QED
          BY <1>1, <2>1, <3>3, <4>3, <5>1, <5>2 DEF RingAt
      <4>8. QED
        BY <4>6, <4>7
    <3>7. QED
      BY <3>5, <3>6
  <2>5. CASE Dma!IsrGiveBack
    <3>1. PICK j \in Dma!Clients, d \in Dma!Chans, p \in Dma!Bds :
             j = isr.desc /\ d = isr.chan /\ p = isr.bd
      BY <2>2, <2>5 DEF IsrType, DmaInv, HandlerSteps, Dma!IsrGiveBack
    <3>2. Dma!Owns(j, d) /\ isr.step = "after"
      BY <2>5, <3>1 DEF DmaInv, HandlerSteps, Dma!IsrGiveBack
    <3>3. isr'.step # "after"
      BY <2>2, <2>5 DEF Dma!IsrGiveBack, Dma!Onwards, Dma!IsrUnlock, Dma!IsrIdle, IsrType
    <3>4. UNCHANGED elapsed
          /\ bd' = [bd EXCEPT ![d][p] = bd[d][p] \cup {IF isr.release THEN "Done" ELSE "Error"}]
      BY <2>5, <3>1 DEF Dma!IsrGiveBack
    <3>5. CASE d # c
      <4>1. bd'[c] = bd[c]
        BY <3>4, <3>5 DEF DmaInv, Dma!TypeOK
      <4>2. QED
        BY <1>1, <2>1, <3>1, <3>3, <3>4, <3>5, <4>1, RingKept DEF NoneGivenBack
    <3>6. CASE d = c
      <4>1. j = k
        BY <2>1, <3>2, <3>6 DEF Plays, NoSharing
      <4>2. isr.release
        BY <2>1, <3>1, <4>1 DEF Plays, DmaInv, HandlerSteps
      <4>3. bd[c][p] = {}
        BY <2>1, <3>1, <3>2, <3>6 DEF RingAt
      <4>4. bd'[c][p] = {"Done"} /\ \A i \in Dma!Bds : i # p => bd'[c][i] = bd[c][i]
        BY <3>4, <3>6, <4>2, <4>3 DEF DmaInv, Dma!TypeOK
      <4>5. Dma!Uncounted(c)' = Dma!Uncounted(c)
        BY <3>1, <3>2, <3>3, <3>6, <4>4 DEF Dma!Uncounted
      <4>6. QED
        BY <1>1, <2>1, <3>3, <3>4, <4>4, <4>5 DEF RingAt
    <3>7. QED
      BY <3>5, <3>6
  <2>6. QED
    BY <2>3, <2>4, <2>5 DEF Dma!Isr
<1>4. QED
  BY <1>2, <1>3 DEF CountInv, RingInStep

\* A channel that a client owns is taken, if no channel is shared.
LEMMA DmaTaken ==
  ASSUME DmaInv, CountInv, NoSharing, NEW j \in Dma!Clients, Dma!Client(j)
  PROVE  OwnedIsTaken'
<1> SUFFICES ASSUME NEW k \in Dma!Clients, NEW c \in Dma!Chans, Dma!Owns(k, c)'
             PROVE  ~avail'[c]
  BY DEF OwnedIsTaken
<1>1. Dma!Owns(k, c) => ~avail[c]
  BY DEF CountInv, OwnedIsTaken
<1>2. CASE Dma!RequestScan(j)
  <2>1. chan[j] \in Dma!Chans /\ pc[j] = "scan"
    BY <1>2 DEF Dma!RequestScan, DmaInv, ClientSteps, ClientStep
  <2>2. CASE k = j
    <3>1. chan'[j] = c /\ pc'[j] # "scan"
      BY <2>2 DEF Dma!Owns
    <3>2. CASE avail[chan[j]]
      <4>1. avail' = [avail EXCEPT ![chan[j]] = FALSE] /\ chan' = chan
        BY <1>2, <3>2 DEF Dma!RequestScan
      <4>2. QED
        BY <3>1, <4>1 DEF DmaInv, Dma!TypeOK
    <3>3. CASE ~avail[chan[j]]
      <4>1. avail' = avail /\ chan' = chan
        BY <1>2, <2>1, <3>1, <3>3 DEF Dma!RequestScan
      <4>2. QED
        BY <3>1, <3>3, <4>1
    <3>4. QED
      BY <3>2, <3>3
  <2>3. CASE k # j
    <3>1. Dma!Owns(k, c)
      BY <1>2, <2>3 DEF Dma!RequestScan, Dma!Goto, Dma!Owns, DmaInv, Dma!TypeOK
    <3>2. avail'[c] => avail[c]
      BY <1>2 DEF Dma!RequestScan, DmaInv, Dma!TypeOK
    <3>3. QED
      BY <1>1, <3>1, <3>2
  <2>4. QED
    BY <2>2, <2>3
<1>3. CASE Dma!TerminateEnd(j)
  <2>1. /\ pc[j] = "terminate" /\ pc' = [pc EXCEPT ![j] = "idle"] /\ chan' = [chan EXCEPT ![j] = 0]
        /\ avail' = [avail EXCEPT ![chan[j]] = TRUE]
    BY <1>3 DEF Dma!TerminateEnd, Dma!Goto
  <2>2. k # j /\ Dma!Owns(k, c)
    BY <2>1 DEF Dma!Owns, DmaInv, Dma!TypeOK
  <2>3. chan[j] # c
    BY <2>1, <2>2 DEF Dma!Owns, NoSharing
  <2>4. QED
    BY <1>1, <2>1, <2>2, <2>3 DEF DmaInv, Dma!TypeOK
<1>4. CASE ~Dma!RequestScan(j) /\ ~Dma!TerminateEnd(j)
  <2>1. avail' = avail
    BY <1>4 DEF Dma!Client, Dma!RequestChannel, Dma!PrepareCyclic, Dma!PrepareFinite, Dma!Submit,
         Dma!Pause, Dma!Resume, Dma!Terminate, Dma!Completed
  <2>2. /\ \A i \in Dma!Clients : i # j => pc'[i] = pc[i]
        /\ Dma!RequestChannel(j) \/ (pc[j] \notin {"idle", "scan"} /\ chan' = chan)
    BY <1>4 DEF Dma!Client, Dma!RequestChannel, Dma!PrepareCyclic, Dma!PrepareFinite, Dma!Submit,
         Dma!Pause, Dma!Resume, Dma!Terminate, Dma!Completed, Dma!Goto, DmaInv, Dma!TypeOK,
         Dma!Clients
  <2>3. CASE Dma!RequestChannel(j)
    <3>1. pc' = [pc EXCEPT ![j] = "scan"] /\ chan' = [chan EXCEPT ![j] = 1]
      BY <2>3 DEF Dma!RequestChannel, Dma!Goto
    <3>2. Dma!Owns(k, c)
      BY <3>1 DEF Dma!Owns, DmaInv, Dma!TypeOK
    <3>3. QED
      BY <1>1, <2>1, <3>2
  <2>4. CASE pc[j] \notin {"idle", "scan"} /\ chan' = chan
    <3>1. Dma!Owns(k, c)
      BY <2>2, <2>4 DEF Dma!Owns, DmaInv, Dma!TypeOK
    <3>2. QED
      BY <1>1, <2>1, <3>1
  <2>5. QED
    BY <2>2, <2>3, <2>4
<1>5. QED
  BY <1>2, <1>3, <1>4

\* So does a step of a client, if no channel is shared.
LEMMA DmaClientCounts ==
  ASSUME DmaInv, CountInv, NoSharing, NEW j \in Dma!Clients, Dma!Client(j)
  PROVE  CountInv'
<1>1. ASSUME NEW k \in Dma!Clients, NEW c \in Dma!Chans, Plays(k, c)' PROVE RingAt(k, c)'
  <2>1. isr' = isr
    BY DEF Dma!Client, Dma!RequestChannel, Dma!RequestScan, Dma!PrepareCyclic, Dma!PrepareFinite,
         Dma!Submit, Dma!Pause, Dma!Resume, Dma!Terminate, Dma!TerminateEnd, Dma!Completed
  <2>2. CASE Dma!PrepareCyclic(j) \/ Dma!PrepareFinite(j)
    <3>1. pc[j] = "got" /\ pc' = [pc EXCEPT ![j] = "ready"] /\ chan' = chan
      BY <2>2 DEF Dma!PrepareCyclic, Dma!PrepareFinite, Dma!Goto
    <3>2. PICK n : Dma!Prepared(j, chan[j], n) /\ (j \in Cyclic => n = NrBd)
      BY <2>2, DevAssumed DEF Dma!PrepareCyclic, Dma!PrepareFinite
    <3>3. CASE k = j
      <4>1. chan[j] = c /\ j \in Cyclic
        BY <1>1, <3>1, <3>3 DEF Plays, Dma!Owns
      <4>2. \A i \in Dma!Bds : i < NrBd
        BY DevAssumed DEF Dma!Bds
      <4>3. \A i \in Dma!Bds : bd'[c][i] = {"Done"}
        BY <3>2, <4>1, <4>2 DEF Dma!Prepared, DmaInv, Dma!TypeOK
      <4>4. elapsed'[k] = 0 /\ good'[c] = 0
        BY <3>2, <3>3, <4>1 DEF Dma!Prepared, DmaInv, Dma!TypeOK
      <4>5. Dma!Uncounted(c)' = {}
        BY <4>3 DEF Dma!Uncounted
      <4>6. Cardinality(Dma!Uncounted(c)') = 0
        BY <4>5, FS_EmptySet
      <4>7. ~(isr.step = "after" /\ isr.chan = c)
        <5>1. Dma!Owns(j, c) /\ ~Transfers(j, c)
          BY <3>1, <4>1 DEF Dma!Owns, Transfers
        <5>2. ASSUME isr.step = "after", isr.chan = c PROVE FALSE
          <6>1. PICK i \in Dma!Clients : i = isr.desc
            BY <5>2 DEF DmaInv, HandlerSteps
          <6>2. Dma!Owns(i, c) /\ (isr.release => Transfers(i, c))
            BY <5>2, <6>1 DEF DmaInv, HandlerSteps
          <6>3. i = j
            BY <5>1, <6>2 DEF NoSharing
          <6>4. isr.release
            BY <4>1, <6>1, <6>3 DEF DmaInv, HandlerSteps
          <6>5. QED
            BY <5>1, <6>2, <6>3, <6>4
        <5>3. QED
          BY <5>2
      <4>8. QED
        BY <2>1, <4>3, <4>4, <4>6, <4>7 DEF RingAt
    <3>4. CASE k # j
      <4>1. Plays(k, c)
        BY <1>1, <3>1, <3>4 DEF Plays, Dma!Owns, DmaInv, Dma!TypeOK
      <4>2. chan[j] # c
        BY <3>1, <3>4, <4>1 DEF Plays, Dma!Owns, NoSharing
      <4>3. RingAt(k, c)
        BY <4>1 DEF CountInv, RingInStep
      <4>4. bd'[c] = bd[c] /\ good'[c] = good[c] /\ elapsed'[k] = elapsed[k]
        BY <3>2, <3>4, <4>2 DEF Dma!Prepared, DmaInv, Dma!TypeOK
      <4>5. QED
        BY <2>1, <4>3, <4>4, RingKept
    <3>5. QED
      BY <3>3, <3>4
  <2>3. CASE Dma!RequestChannel(j) \/ Dma!RequestScan(j)
    <3>1. /\ pc[j] \in {"idle", "scan"} /\ pc'[j] \in {"scan", "got"}
          /\ \A i \in Dma!Clients : i # j => pc'[i] = pc[i] /\ chan'[i] = chan[i]
          /\ UNCHANGED <<good, elapsed>>
      BY <2>3 DEF Dma!RequestChannel, Dma!RequestScan, Dma!Goto, Dma!hw, DmaInv, Dma!TypeOK
    <3>2. k # j /\ Plays(k, c)
      BY <1>1, <3>1 DEF Plays, Dma!Owns, DmaInv, Dma!TypeOK
    <3>3. bd'[c] = bd[c]
      <4>1. ~avail[c]
        BY <3>2 DEF Plays, CountInv, OwnedIsTaken
      <4>2. CASE Dma!RequestChannel(j)
        BY <4>2 DEF Dma!RequestChannel, Dma!handle
      <4>3. CASE Dma!RequestScan(j) /\ avail[chan[j]]
        <5>1. bd' = [bd EXCEPT ![chan[j]] = [i \in Dma!Bds |-> {}]]
          BY <4>3 DEF Dma!RequestScan
        <5>2. QED
          BY <4>1, <4>3, <5>1 DEF DmaInv, Dma!TypeOK
      <4>4. CASE Dma!RequestScan(j) /\ ~avail[chan[j]]
        BY <4>4 DEF Dma!RequestScan, Dma!handle
      <4>5. QED
        BY <2>3, <4>2, <4>3, <4>4
    <3>4. QED
      BY <2>1, <3>1, <3>2, <3>3, RingKept DEF CountInv, RingInStep
  <2>4. CASE Dma!TerminateEnd(j)
    <3>1. /\ pc[j] = "terminate" /\ pc' = [pc EXCEPT ![j] = "idle"]
          /\ chan' = [chan EXCEPT ![j] = 0] /\ good' = [good EXCEPT ![chan[j]] = 0]
          /\ elapsed' = [elapsed EXCEPT ![j] = 0] /\ bd' = bd
      BY <2>4 DEF Dma!TerminateEnd, Dma!Goto, Dma!Freed, Dma!handle
    <3>2. k # j /\ Plays(k, c)
      BY <1>1, <3>1 DEF Plays, Dma!Owns, DmaInv, Dma!TypeOK
    <3>3. chan[j] # c
      BY <3>1, <3>2 DEF Plays, Dma!Owns, NoSharing
    <3>4. good'[c] = good[c] /\ elapsed'[k] = elapsed[k]
      BY <3>1, <3>2, <3>3 DEF DmaInv, Dma!TypeOK
    <3>5. QED
      BY <2>1, <3>1, <3>2, <3>4, RingKept DEF CountInv, RingInStep
  <2>5. CASE Dma!Submit(j) \/ Dma!Pause(j) \/ Dma!Resume(j) \/ Dma!Terminate(j)
    <3>1. /\ pc' = [pc EXCEPT ![j] = pc'[j]] /\ pc[j] \in {"ready", "run", "paused", "got"}
          /\ pc[j] = "got" => pc'[j] = "terminate"
          /\ UNCHANGED <<bd, good, elapsed, chan>>
      BY <2>5 DEF Dma!Submit, Dma!Pause, Dma!Resume, Dma!Terminate, Dma!Goto, Dma!handle, Dma!hw,
           Dma!clients, DmaInv, Dma!TypeOK
    <3>2. Plays(k, c)
      BY <1>1, <3>1 DEF Plays, Dma!Owns, DmaInv, Dma!TypeOK
    <3>3. QED
      BY <2>1, <3>1, <3>2, RingKept DEF CountInv, RingInStep
  <2>6. CASE Dma!Completed(j)
    <3>1. /\ pc' = [pc EXCEPT ![j] = "got"] /\ elapsed' = [elapsed EXCEPT ![j] = 0]
          /\ UNCHANGED <<bd, good, chan>>
      BY <2>6 DEF Dma!Completed, Dma!Goto, Dma!Freed, Dma!handle, Dma!hw
    <3>2. k # j /\ Plays(k, c)
      BY <1>1, <3>1 DEF Plays, Dma!Owns, DmaInv, Dma!TypeOK
    <3>3. elapsed'[k] = elapsed[k]
      BY <3>1, <3>2 DEF DmaInv, Dma!TypeOK
    <3>4. QED
      BY <2>1, <3>1, <3>2, <3>3, RingKept DEF CountInv, RingInStep
  <2>7. QED
    BY <2>2, <2>3, <2>4, <2>5, <2>6 DEF Dma!Client
<1>2. QED
  BY <1>1, DmaTaken DEF CountInv, RingInStep

\* Every period is counted or still in the ring after each step, if no channel is shared.
LEMMA DmaCountStep == DmaInv /\ CountInv /\ NoSharing /\ [Dma!Next]_(Dma!vars) => CountInv'
<1> SUFFICES ASSUME DmaInv, CountInv, NoSharing, [Dma!Next]_(Dma!vars) PROVE CountInv'
  OBVIOUS
<1>1. CASE UNCHANGED Dma!vars
  <2>1. ASSUME NEW k \in Dma!Clients, NEW c \in Dma!Chans, Plays(k, c)' PROVE RingAt(k, c)'
    BY <1>1, <2>1, RingKept DEF CountInv, RingInStep, Plays, Dma!Owns, Dma!vars, Dma!handle, Dma!hw,
         Dma!clients
  <2>2. OwnedIsTaken'
    BY <1>1 DEF CountInv, OwnedIsTaken, Dma!Owns, Dma!vars, Dma!clients
  <2>3. QED
    BY <2>1, <2>2 DEF CountInv, RingInStep
<1>2. QED
  BY <1>1, DmaEngineCounts, DmaIsrCounts, DmaClientCounts DEF Dma!Next

(***************************************************************************)
(* As long as no channel has two clients, every period that the engine     *)
(* has completed without error for an audio port is counted once or still  *)
(* to be found in the ring, for rings of any length, any number of ports   *)
(* and channels, and any interleaving of the engine, the handler and the   *)
(* operations.                                                             *)
(***************************************************************************)
THEOREM DevicesPeriodsCounted == Spec /\ []NoSharing => []PeriodsCounted
<1>1. Init => CountInv
  <2> SUFFICES ASSUME Init PROVE CountInv
    OBVIOUS
  <2>1. \A k \in Dma!Clients : pc[k] = "idle"
    BY DEF Init, Dma!Init
  <2>2. QED
    BY <2>1 DEF CountInv, OwnedIsTaken, RingInStep, Plays, Dma!Owns
<1>2. DmaInv /\ CountInv /\ NoSharing /\ [Next]_vars => CountInv'
  BY DmaCountStep, DmaMoves
<1>3. CountInv => PeriodsCounted
  <2> SUFFICES ASSUME CountInv, NEW k \in Cyclic, NEW c \in Dma!Chans, Dma!Owns(k, c),
                      pc[k] \in {"ready", "run", "paused"}
               PROVE  good[c] = elapsed[k] + Dma!Cardinality(Dma!Uncounted(c))
    BY DEF PeriodsCounted, Dma!PeriodsCounted
  <2>1. RingAt(k, c)
    BY DEF CountInv, RingInStep, Plays, Dma!Clients
  <2>2. QED
    BY <2>1, RingIsFinite DEF RingAt
<1>4. QED
  BY <1>1, <1>2, <1>3, DmaInvariant, PTL DEF Spec

-----------------------------------------------------------------------------
(***************************************************************************)
(* Two clients never share a channel, if there are two: of them at most    *)
(* one is beyond the first.                                                *)
(***************************************************************************)
TwoClients == LastChan >= 2 /\ \E a, b : Dma!Clients = {a, b}

\* A scan for a channel keeps one channel beyond the two clients.
LEMMA OneBeyondScan ==
  ASSUME TwoClients, DmaInv, OneBeyond, NEW j \in Dma!Clients, Dma!RequestScan(j)
  PROVE  OneBeyond'
<1>1. PICK c \in Dma!Chans : c = chan[j] /\ c =< 2 /\ c >= 1
  BY DEF Dma!RequestScan, DmaInv, ClientSteps, ClientStep, OneBeyond, Dma!Chans
<1>2. pc[j] = "scan" /\ 1 \in Dma!Chans /\ 2 \in Dma!Chans
  BY DevAssumed DEF Dma!RequestScan, TwoClients, Dma!Chans
<1>3. \A i \in Dma!Clients : i # j => pc'[i] = pc[i] /\ chan'[i] = chan[i]
  BY DEF Dma!RequestScan, Dma!Goto, DmaInv, Dma!TypeOK
<1>4. CASE avail[c]
  <2>1. avail' = [avail EXCEPT ![c] = FALSE] /\ pc'[j] = "got" /\ chan'[j] = c
    BY <1>1, <1>4 DEF Dma!RequestScan, Dma!Goto, DmaInv, Dma!TypeOK
  <2>2. \A i \in Dma!Clients : ~Dma!Owns(i, c)
    BY <1>4 DEF OneBeyond, OwnedIsTaken
  <2>3. \A i \in Dma!Clients, d \in Dma!Chans :
           Dma!Owns(i, d)' <=> (i = j /\ d = c) \/ Dma!Owns(i, d)
    BY <1>1, <1>2, <1>3, <2>1 DEF Dma!Owns
  <2>4. \A i \in Dma!Clients : Beyond(i)' <=> Beyond(i)
    BY <1>1, <1>2, <1>3, <2>1 DEF Beyond
  <2>5. OwnedIsTaken' /\ NoSharing'
    <3>1. \A d \in Dma!Chans : avail'[d] <=> d # c /\ avail[d]
      BY <2>1 DEF DmaInv, Dma!TypeOK
    <3>2. OwnedIsTaken'
      BY <2>3, <3>1 DEF OwnedIsTaken, OneBeyond
    <3>3. ASSUME NEW i \in Dma!Clients, NEW m \in Dma!Clients, NEW d \in Dma!Chans,
                 Dma!Owns(i, d)', Dma!Owns(m, d)'
          PROVE  i = m
      <4>1. CASE d = c
        BY <2>2, <2>3, <3>3, <4>1
      <4>2. CASE d # c
        BY <2>3, <3>3, <4>2 DEF OneBeyond, NoSharing
      <4>3. QED
        BY <4>1, <4>2
    <3>4. QED
      BY <3>2, <3>3 DEF NoSharing
  <2>6. \A d \in Dma!Chans : ~avail'[d] => \E i \in Dma!Clients : Dma!Owns(i, d)'
    BY <2>1, <2>3 DEF OneBeyond, DmaInv, Dma!TypeOK
  <2>7. \A i \in Dma!Clients : pc'[i] # "idle" => chan'[i] =< 2
    BY <1>1, <1>3, <2>1 DEF OneBeyond
  <2>8. QED
    BY <2>4, <2>5, <2>6, <2>7 DEF OneBeyond
<1>5. CASE ~avail[c]
  <2>1. PICK k \in Dma!Clients : Dma!Owns(k, c)
    BY <1>5 DEF OneBeyond
  <2>2. k # j /\ \A i \in Dma!Clients : i \in {j, k}
    BY <1>2, <2>1 DEF Dma!Owns, TwoClients
  <2>3. c = 1
    <3>1. Beyond(k) /\ Beyond(j) => k = j
      BY DEF OneBeyond
    <3>2. CASE c = 2
      <4>1. chan[k] = 2 /\ chan[j] = 2 /\ pc[k] # "idle" /\ pc[j] # "idle"
        BY <1>1, <1>2, <2>1, <3>2 DEF Dma!Owns
      <4>2. QED
        BY <2>2, <3>1, <4>1 DEF Beyond
    <3>3. QED
      BY <1>1, <3>2 DEF Dma!Chans
  <2>4. chan'[j] = 2 /\ pc'[j] = "scan" /\ avail' = avail
    <3>1. c < LastChan /\ c + 1 = 2
      BY <2>3, DevAssumed DEF TwoClients
    <3>2. chan' = [chan EXCEPT ![j] = 2] /\ pc' = pc /\ avail' = avail
      BY <1>1, <1>5, <3>1 DEF Dma!RequestScan
    <3>3. QED
      BY <1>2, <3>2 DEF DmaInv, Dma!TypeOK
  <2>5. \A i \in Dma!Clients, d \in Dma!Chans : Dma!Owns(i, d)' <=> Dma!Owns(i, d)
    BY <1>2, <1>3, <2>4 DEF Dma!Owns
  <2>6. ~Beyond(k)' /\ \A i \in Dma!Clients : pc'[i] # "idle" => chan'[i] =< 2
    <3>1. chan'[k] = 1
      BY <1>3, <2>1, <2>2, <2>3 DEF Dma!Owns
    <3>2. ~Beyond(k)'
      BY <3>1 DEF Beyond
    <3>3. QED
      BY <2>2, <2>4, <3>1, <3>2
  <2>7. OwnedIsTaken' /\ NoSharing'
    BY <2>4, <2>5 DEF OwnedIsTaken, NoSharing, OneBeyond
  <2>8. \A d \in Dma!Chans : ~avail'[d] => \E i \in Dma!Clients : Dma!Owns(i, d)'
    BY <2>4, <2>5 DEF OneBeyond
  <2>9. \A i, m \in Dma!Clients : Beyond(i)' /\ Beyond(m)' => i = m
    BY <2>2, <2>6
  <2>10. QED
    BY <2>6, <2>7, <2>8, <2>9 DEF OneBeyond
<1>6. QED
  BY <1>4, <1>5

\* So does every other step of a client.
LEMMA OneBeyondClient ==
  ASSUME TwoClients, DmaInv, OneBeyond, NEW j \in Dma!Clients, Dma!Client(j)
  PROVE  OneBeyond'
<1>1. CASE Dma!RequestChannel(j)
  <2>1. /\ pc[j] = "idle" /\ pc' = [pc EXCEPT ![j] = "scan"] /\ chan' = [chan EXCEPT ![j] = 1]
        /\ avail' = avail
    BY <1>1 DEF Dma!RequestChannel, Dma!Goto
  <2>2. \A i \in Dma!Clients, d \in Dma!Chans : Dma!Owns(i, d)' <=> Dma!Owns(i, d)
    BY <2>1 DEF Dma!Owns, DmaInv, Dma!TypeOK
  <2>3. \A i \in Dma!Clients : /\ Beyond(i)' => Beyond(i)
                               /\ pc'[i] # "idle" => chan'[i] =< 2
    BY <2>1 DEF Beyond, OneBeyond, DmaInv, Dma!TypeOK
  <2>4. QED
    BY <2>1, <2>2, <2>3 DEF OneBeyond, OwnedIsTaken, NoSharing
<1>2. CASE Dma!TerminateEnd(j)
  <2>1. /\ pc[j] = "terminate" /\ pc' = [pc EXCEPT ![j] = "idle"]
        /\ chan' = [chan EXCEPT ![j] = 0] /\ avail' = [avail EXCEPT ![chan[j]] = TRUE]
    BY <1>2 DEF Dma!TerminateEnd, Dma!Goto
  <2>2. PICK c \in Dma!Chans : c = chan[j]
    BY <2>1 DEF DmaInv, ClientSteps, ClientStep
  <2>3. Dma!Owns(j, c)
    BY <2>1, <2>2 DEF Dma!Owns
  <2>4. \A i \in Dma!Clients, d \in Dma!Chans : Dma!Owns(i, d)' <=> i # j /\ Dma!Owns(i, d)
    BY <2>1 DEF Dma!Owns, DmaInv, Dma!TypeOK
  <2>5. \A i \in Dma!Clients : /\ Beyond(i)' => Beyond(i)
                               /\ pc'[i] # "idle" => chan'[i] =< 2
    BY <2>1 DEF Beyond, OneBeyond, DmaInv, Dma!TypeOK
  <2>6. \A i \in Dma!Clients : Dma!Owns(i, c) => i = j
    BY <2>3 DEF OneBeyond, NoSharing
  <2>7. \A i \in Dma!Clients : Dma!Owns(i, c) /\ i # j => FALSE
    BY <2>6
  <2>8. OwnedIsTaken' /\ NoSharing'
    BY <2>1, <2>2, <2>4, <2>7 DEF OneBeyond, OwnedIsTaken, NoSharing, DmaInv, Dma!TypeOK
  <2>9. \A d \in Dma!Chans : ~avail'[d] => \E i \in Dma!Clients : Dma!Owns(i, d)'
    <3> SUFFICES ASSUME NEW d \in Dma!Chans, ~avail'[d]
                 PROVE  \E i \in Dma!Clients : Dma!Owns(i, d)'
      OBVIOUS
    <3>1. d # c /\ ~avail[d]
      BY <2>1, <2>2 DEF DmaInv, Dma!TypeOK
    <3>2. PICK i \in Dma!Clients : Dma!Owns(i, d)
      BY <3>1 DEF OneBeyond
    <3>3. i # j
      BY <2>2, <3>1, <3>2 DEF Dma!Owns
    <3>4. QED
      BY <2>4, <3>2, <3>3
  <2>10. QED
    BY <2>5, <2>8, <2>9 DEF OneBeyond
<1>3. CASE ~Dma!RequestChannel(j) /\ ~Dma!RequestScan(j) /\ ~Dma!TerminateEnd(j)
  <2>1. /\ avail' = avail /\ chan' = chan
        /\ \A i \in Dma!Clients : i # j => pc'[i] = pc[i]
        /\ pc[j] \notin {"idle", "scan"} /\ pc'[j] \notin {"idle", "scan"}
    BY <1>3 DEF Dma!Client, Dma!PrepareCyclic, Dma!PrepareFinite, Dma!Submit, Dma!Pause,
         Dma!Resume, Dma!Terminate, Dma!Completed, Dma!Goto, Dma!clients, DmaInv, Dma!TypeOK,
         Dma!Clients
  <2>2. \A i \in Dma!Clients, d \in Dma!Chans : Dma!Owns(i, d)' <=> Dma!Owns(i, d)
    BY <2>1 DEF Dma!Owns
  <2>3. \A i \in Dma!Clients : /\ Beyond(i)' => Beyond(i)
                               /\ pc'[i] # "idle" => chan'[i] =< 2
    BY <2>1 DEF Beyond, OneBeyond
  <2>4. QED
    BY <2>1, <2>2, <2>3 DEF OneBeyond, OwnedIsTaken, NoSharing
<1>4. QED
  BY <1>1, <1>2, <1>3, OneBeyondScan

(***************************************************************************)
(* A port and the ASRC, or two ports, have a channel each, however their   *)
(* requests and terminations interleave with the search of the other, so   *)
(* that the run devices is one of those of the theorem before.             *)
(***************************************************************************)
THEOREM DevicesNoSharing == TwoClients => (Spec => []NoSharing)
<1> SUFFICES ASSUME TwoClients PROVE Spec => []NoSharing
  OBVIOUS
<1>1. Init => OneBeyond
  <2> SUFFICES ASSUME Init PROVE OneBeyond
    OBVIOUS
  <2>1. \A k \in Dma!Clients : pc[k] = "idle"
    BY DEF Init, Dma!Init
  <2>2. \A c \in Dma!Chans : avail[c]
    BY DEF Init, Dma!Init
  <2>3. QED
    BY <2>1, <2>2 DEF OneBeyond, OwnedIsTaken, NoSharing, Beyond, Dma!Owns
<1>2. DmaInv /\ OneBeyond /\ [Next]_vars => OneBeyond'
  <2> SUFFICES ASSUME DmaInv, OneBeyond, [Dma!Next]_(Dma!vars) PROVE OneBeyond'
    BY DmaMoves
  <2>1. CASE UNCHANGED <<pc, chan, avail>>
    BY <2>1 DEF OneBeyond, OwnedIsTaken, NoSharing, Beyond, Dma!Owns
  <2>2. CASE UNCHANGED Dma!vars
    BY <2>1, <2>2 DEF Dma!vars, Dma!clients
  <2>3. CASE \E c \in Dma!Chans : Dma!DmaPeriod(c) \/ Dma!DmaError(c)
    BY <2>1, <2>3 DEF Dma!DmaPeriod, Dma!DmaError, Dma!clients
  <2>4. CASE Dma!Isr
    BY <2>1, <2>4 DEF Dma!Isr, Dma!IsrEnter, Dma!IsrNext, Dma!IsrLeave, Dma!IsrPeriod,
         Dma!IsrGiveBack, Dma!clients
  <2>5. QED
    BY <2>2, <2>3, <2>4, OneBeyondClient DEF Dma!Next
<1>3. OneBeyond => NoSharing
  BY DEF OneBeyond
<1>4. QED
  BY <1>1, <1>2, <1>3, DmaInvariant, PTL DEF Spec

\* With the theorem before, what the two clients of the run find
COROLLARY TwoClientsCounted == TwoClients => (Spec => []PeriodsCounted)
<1> SUFFICES ASSUME TwoClients PROVE Spec => []PeriodsCounted
  OBVIOUS
<1>1. Spec => []NoSharing
  BY DevicesNoSharing
<1>2. QED
  BY <1>1, DevicesPeriodsCounted, PTL

-----------------------------------------------------------------------------
(***************************************************************************)
(* I2C: the types, and that threads take turns                             *)
(***************************************************************************)
BusTypes == Bus!TypeOK /\ XferMutex /\ MovedInLen

\* The I2C bus starts in its invariant.
LEMMA BusInit == Bus!Init => BusInv
<1> SUFFICES ASSUME Bus!Init PROVE BusInv
  OBVIOUS
<1> USE DevAssumed DEF Bus!Init, Bus!NO_ERROR, Bus!NoXfer, Bus!NoCall
<1>1. 1 \in 1..MaxLen /\ 0 \in 0..MaxLen /\ 0 \in 0..MaxNacks + 1 /\ 0 \in 0..MaxXfers
      /\ 0 \in 0..MaxFaults
  OBVIOUS
<1>2. Bus!TypeOK
  BY <1>1 DEF Bus!TypeOK
<1>3. XferMutex /\ MovedInLen
  BY DEF XferMutex, MovedInLen
<1>4. XferState
  BY DEF XferState, InXfer, Rests
<1>5. QED
  BY <1>2, <1>3, <1>4 DEF BusInv

\* The wire and the peer keep the types of the bus.
LEMMA BusTypesEnvironment == BusTypes /\ Bus!Environment => BusTypes'
<1> SUFFICES ASSUME BusTypes, Bus!Environment PROVE BusTypes'
  OBVIOUS
<1>1. UNCHANGED <<asserts, fsm, xfer, wait, waking, mutex, xpc, call, retries, xret, xfers,
                  moved, iien, wrong, late, i2cHalted>>
  BY DEF Bus!Environment, Bus!ByteDone, Bus!Refused, Bus!ArbitrationLost, Bus!Stuck, Bus!OtherDone,
         Bus!state, Bus!threads, Bus!bounds, Bus!seen
<1>2. refused' \in BOOLEAN /\ faults' \in 0..MaxFaults /\ flags' \subseteq {"IIF", "IAL", "RXAK"}
      /\ bus' \in {"free", "other", "ours"} /\ wire' \in {"still", "shifting", "stuck"}
  <2>1. refused \in BOOLEAN /\ faults \in 0..MaxFaults /\ flags \subseteq {"IIF", "IAL", "RXAK"}
        /\ bus \in {"free", "other", "ours"} /\ wire \in {"still", "shifting", "stuck"}
    BY DEF BusTypes, Bus!TypeOK
  <2>2. refused' \in BOOLEAN
    BY <2>1 DEF Bus!Environment, Bus!ByteDone, Bus!Refused, Bus!ArbitrationLost, Bus!Stuck,
         Bus!OtherDone, Bus!seen
  <2>3. faults' \in 0..MaxFaults
    BY <2>1, DevAssumed DEF Bus!Environment, Bus!ByteDone, Bus!Refused, Bus!ArbitrationLost,
         Bus!Stuck, Bus!OtherDone, Bus!Fault, Bus!bounds
  <2>4. QED
    BY <2>1, <2>2, <2>3 DEF Bus!Environment, Bus!ByteDone, Bus!Refused, Bus!ArbitrationLost,
         Bus!Stuck, Bus!OtherDone
<1>3. QED
  BY <1>1, <1>2 DEF BusTypes, Bus!TypeOK, XferMutex, MovedInLen

\* What a step of the handler does to the transfer
LEMMA BusStepIs ==
  ASSUME Bus!TypeOK, MovedInLen,
         \/ Bus!Over("error", "cancelled") \/ Bus!Over("error", "nack") \/ Bus!Step
  PROVE  /\ fsm' \in {"idle", "error", "address", "command", "tx", "rx_address", "set_rx", "rx",
                      "done"}
         /\ \E n \in 0..MaxLen, s \in {"no_error", "cancelled", "nack"} :
               xfer' = [xfer EXCEPT !.len = n, !.status = s]
         /\ iien' \in BOOLEAN /\ waking' \in BOOLEAN
         /\ wire' \in {"still", "shifting", "stuck"} /\ i2cHalted' \in {"none", "assert", "panic"}
         /\ moved' \in 0..MaxLen /\ moved' + xfer'.len =< MaxLen
<1> DEFINE OverS(s, st) == /\ fsm' = s /\ xfer' = [xfer EXCEPT !.status = st]
                           /\ iien' = FALSE /\ waking' = TRUE
                           /\ UNCHANGED <<wire, moved, i2cHalted>>
           ShiftS(s, n) == /\ fsm' = s
                           /\ xfer' = [xfer EXCEPT !.len = xfer.len - n, !.status = "no_error"]
                           /\ wire' = "shifting" /\ moved' = moved + n
                           /\ UNCHANGED <<iien, waking, i2cHalted>>
<1>1. /\ xfer \in [read : BOOLEAN, reg : BOOLEAN, len : 0..MaxLen,
                   status : {"no_error", "cancelled", "nack"}]
      /\ moved \in 0..MaxLen /\ moved + xfer.len =< MaxLen /\ xfer.len \in 0..MaxLen
      /\ MaxLen \in Nat
  BY DevAssumed DEF Bus!TypeOK, MovedInLen, Bus!NO_ERROR
<1>2. /\ iien \in BOOLEAN /\ waking \in BOOLEAN /\ wire \in {"still", "shifting", "stuck"}
      /\ i2cHalted \in {"none", "assert", "panic"}
      /\ fsm \in {"idle", "error", "address", "command", "tx", "rx_address", "set_rx", "rx", "done"}
  BY DEF Bus!TypeOK
<1>3. \A m \in 0..MaxLen, s \in {"no_error", "cancelled", "nack"} :
         /\ [xfer EXCEPT !.len = m, !.status = s].len = m
         /\ [xfer EXCEPT !.status = s] = [xfer EXCEPT !.len = xfer.len, !.status = s]
         /\ [xfer EXCEPT !.status = s].len = xfer.len
  BY <1>1
<1>4. \/ \E s \in {"error", "done"}, st \in {"no_error", "cancelled", "nack"} : OverS(s, st)
      \/ \E s \in {"tx", "rx_address", "set_rx", "rx"}, n \in {0, 1} :
            ShiftS(s, n) /\ (n = 1 => xfer.len > 0)
      \/ /\ xfer.len = 1 /\ fsm' = "done" /\ xfer' = [xfer EXCEPT !.len = 0, !.status = "no_error"]
         /\ iien' = FALSE /\ waking' = TRUE /\ moved' = moved + 1 /\ UNCHANGED <<wire, i2cHalted>>
      \/ i2cHalted' = "panic" /\ UNCHANGED <<fsm, xfer, iien, waking, wire, moved>>
  BY <1>1 DEF Bus!Over, Bus!Set, Bus!Step, Bus!Shift, Bus!Ends, Bus!NO_ERROR
<1> DEFINE Becomes(n, s) == /\ xfer' = [xfer EXCEPT !.len = n, !.status = s]
                            /\ moved' \in 0..MaxLen /\ moved' + n =< MaxLen
<1>5. ASSUME NEW s \in {"error", "done"}, NEW st \in {"no_error", "cancelled", "nack"}, OverS(s, st)
      PROVE  /\ Becomes(xfer.len, st)
             /\ fsm' \in {"error", "done"} /\ UNCHANGED <<wire, i2cHalted>>
             /\ iien' = FALSE /\ waking' = TRUE
  BY <1>1, <1>3, <1>5
<1>6. ASSUME NEW s \in {"tx", "rx_address", "set_rx", "rx"}, NEW n \in {0, 1},
             ShiftS(s, n), n = 1 => xfer.len > 0
      PROVE  /\ xfer.len - n \in 0..MaxLen /\ Becomes(xfer.len - n, "no_error")
             /\ fsm' \in {"tx", "rx_address", "set_rx", "rx"} /\ wire' = "shifting"
             /\ UNCHANGED <<iien, waking, i2cHalted>>
  <2>1. /\ xfer.len - n \in 0..MaxLen /\ moved + n \in 0..MaxLen
        /\ (moved + n) + (xfer.len - n) =< MaxLen
    BY <1>1, <1>6
  <2>2. QED
    BY <1>6, <2>1
<1>7. ASSUME xfer.len = 1, moved' = moved + 1,
             xfer' = [xfer EXCEPT !.len = 0, !.status = "no_error"]
      PROVE  Becomes(0, "no_error")
  BY <1>1, <1>7
<1>8. ASSUME xfer' = xfer, moved' = moved
      PROVE  Becomes(xfer.len, xfer.status) /\ xfer.status \in {"no_error", "cancelled", "nack"}
  <2>1. xfer = [xfer EXCEPT !.len = xfer.len, !.status = xfer.status]
    BY <1>1
  <2>2. QED
    BY <1>1, <1>8, <2>1
<1>9. \E n \in 0..MaxLen, s \in {"no_error", "cancelled", "nack"} : Becomes(n, s)
  <2> HIDE DEF Becomes
  <2>1. 0 \in 0..MaxLen
    BY <1>1
  <2>2. QED
    BY <1>1, <1>4, <1>5, <1>6, <1>7, <1>8, <2>1
<1>10. /\ fsm' \in {"idle", "error", "address", "command", "tx", "rx_address", "set_rx", "rx",
                     "done"}
       /\ iien' \in BOOLEAN /\ waking' \in BOOLEAN
       /\ wire' \in {"still", "shifting", "stuck"} /\ i2cHalted' \in {"none", "assert", "panic"}
  BY <1>2, <1>4
<1>11. QED
  BY <1>3, <1>9, <1>10

\* So does the interrupt handler.
LEMMA BusTypesIsr == BusTypes /\ (Bus!Isr \/ Bus!IsrSignal) => BusTypes'
<1> SUFFICES ASSUME BusTypes, Bus!Isr \/ Bus!IsrSignal PROVE BusTypes'
  OBVIOUS
<1>1. CASE Bus!Isr
  <2>1. UNCHANGED <<asserts, bus, wait, mutex, xpc, call, retries, xret, xfers, faults, late,
                    refused, wrong>>
        /\ flags' = {}
    BY <1>1 DEF Bus!Isr, Bus!threads, Bus!bounds
  <2>2. /\ fsm' \in {"idle", "error", "address", "command", "tx", "rx_address", "set_rx", "rx",
                     "done"}
        /\ \E n \in 0..MaxLen, s \in {"no_error", "cancelled", "nack"} :
              xfer' = [xfer EXCEPT !.len = n, !.status = s]
        /\ iien' \in BOOLEAN /\ waking' \in BOOLEAN
        /\ wire' \in {"still", "shifting", "stuck"} /\ i2cHalted' \in {"none", "assert", "panic"}
        /\ moved' \in 0..MaxLen /\ moved' + xfer'.len =< MaxLen
    BY <1>1, BusStepIs DEF Bus!Isr, BusTypes
  <2>3. xfer' \in [read : BOOLEAN, reg : BOOLEAN, len : 0..MaxLen,
                   status : {"no_error", "cancelled", "nack"}]
    BY <2>2 DEF BusTypes, Bus!TypeOK, Bus!NO_ERROR
  <2>4. QED
    BY <2>1, <2>2, <2>3 DEF BusTypes, Bus!TypeOK, XferMutex, MovedInLen, Bus!NO_ERROR
<1>2. CASE Bus!IsrSignal
  <2>1. /\ wait' = TRUE /\ waking' = FALSE
        /\ UNCHANGED <<asserts, iien, flags, bus, wire, fsm, xfer, mutex, xpc, call, retries, xret,
                       xfers, faults, late, moved, refused, wrong, i2cHalted>>
    BY <1>2 DEF Bus!IsrSignal, Bus!controller, Bus!threads, Bus!bounds, Bus!seen
  <2>2. QED
    <3>1. wait' \in BOOLEAN /\ waking' \in BOOLEAN
      BY <2>1
    <3>2. Bus!TypeOK'
      BY <2>1, <3>1 DEF BusTypes, Bus!TypeOK
    <3>3. XferMutex' /\ MovedInLen'
      BY <2>1 DEF BusTypes, XferMutex, MovedInLen
    <3>4. QED
      BY <3>2, <3>3 DEF BusTypes
<1>3. QED
  BY <1>1, <1>2

\* So does a thread.
LEMMA BusTypesThread ==
  ASSUME BusTypes, NEW t \in Threads, Bus!Call(t) \/ Bus!Thread(t)
  PROVE  BusTypes'
<1> USE DevAssumed DEF Bus!NO_ERROR, Bus!Goto, BusTypes
<1>1. CASE Bus!Call(t)
  <2>1. PICK k \in Kinds, n \in 1..MaxLen : call' = [call EXCEPT ![t] = [kind |-> k, len |-> n]]
    BY <1>1 DEF Bus!Call
  <2>2. call' \in [Threads -> [kind : Kinds \cup {"read"}, len : 1..MaxLen]]
    BY <2>1 DEF Bus!TypeOK
  <2>3. xfers' \in 0..MaxXfers /\ xpc[t] = "idle" /\ xpc' = [xpc EXCEPT ![t] = "lock"]
        /\ UNCHANGED <<asserts, iien, flags, bus, wire, fsm, xfer, wait, waking, mutex, retries,
                       xret, faults, late, moved, refused, wrong, i2cHalted>>
    BY <1>1 DEF Bus!Call, Bus!controller, Bus!state, Bus!seen, Bus!TypeOK
  <2>4. QED
    BY <2>2, <2>3 DEF Bus!TypeOK, XferMutex, MovedInLen
<1>2. CASE Bus!Acquire(t)
  BY <1>2 DEF Bus!Acquire, Bus!controller, Bus!state, Bus!bounds, Bus!seen, Bus!TypeOK, XferMutex,
       MovedInLen
<1>3. CASE Bus!Begin(t)
  <2>1. call[t].len \in 1..MaxLen /\ call[t].kind \in {"read_reg", "write_reg", "read", "write"}
    BY DEF Bus!TypeOK
  <2>2. Bus!FlagsOf(call[t].kind) \subseteq BOOLEAN \X BOOLEAN
    <3>1. <<TRUE, TRUE>> \in BOOLEAN \X BOOLEAN /\ <<FALSE, TRUE>> \in BOOLEAN \X BOOLEAN
          /\ <<TRUE, FALSE>> \in BOOLEAN \X BOOLEAN
      OBVIOUS
    <3>2. QED
      BY <2>1, <3>1 DEF Bus!FlagsOf
  <2>3. PICK f \in BOOLEAN \X BOOLEAN :
           xfer' = [read |-> f[1], reg |-> f[2], len |-> call[t].len, status |-> "no_error"]
    BY <1>3, <2>2 DEF Bus!Begin
  <2>4. xfer' \in [read : BOOLEAN, reg : BOOLEAN, len : 0..MaxLen,
                   status : {"no_error", "cancelled", "nack"}] /\ xfer'.len \in 0..MaxLen
    BY <2>1, <2>3
  <2>5. moved' = 0 /\ moved' \in 0..MaxLen /\ moved' + xfer'.len =< MaxLen
    BY <1>3, <2>4 DEF Bus!Begin
  <2>6. QED
    <3>1. /\ fsm' = "address" /\ refused' = FALSE /\ flags' = {} /\ iien' = TRUE
          /\ bus' = "ours" /\ wire' = "shifting"
          /\ xpc[t] = "poll" /\ xpc' = [xpc EXCEPT ![t] = "wait"]
          /\ UNCHANGED <<asserts, wait, waking, mutex, call, retries, xret, xfers, faults, late,
                         wrong, i2cHalted>>
      BY <1>3 DEF Bus!Begin, Bus!bounds
    <3>2. refused' \in BOOLEAN /\ iien' \in BOOLEAN
      BY <3>1
    <3>3. Bus!TypeOK'
      BY <2>4, <2>5, <3>1, <3>2 DEF Bus!TypeOK
    <3>4. XferMutex' /\ MovedInLen'
      BY <2>5, <3>1 DEF Bus!TypeOK, XferMutex, MovedInLen
    <3>5. QED
      BY <3>3, <3>4
<1>4. CASE Bus!Woken(t)
  BY <1>4 DEF Bus!Woken, Bus!controller, Bus!state, Bus!bounds, Bus!seen, Bus!TypeOK, XferMutex,
       MovedInLen
<1>5. CASE Bus!TimeOut(t)
  <2>1. faults' \in 0..MaxFaults
    BY <1>5 DEF Bus!TimeOut, Bus!Fault, Bus!TypeOK
  <2>2. QED
    BY <1>5, <2>1 DEF Bus!TimeOut, Bus!controller, Bus!state, Bus!TypeOK, XferMutex, MovedInLen
<1>6. CASE Bus!Unsignal(t)
  <2>1. /\ xpc[t] = "unsignal" /\ wait' = FALSE /\ xpc' = [xpc EXCEPT ![t] = "result"]
        /\ UNCHANGED <<asserts, iien, flags, bus, wire, fsm, xfer, waking, mutex, call, retries,
                       xret, xfers, faults, late, moved, refused, wrong, i2cHalted>>
    BY <1>6 DEF Bus!Unsignal, Bus!controller, Bus!bounds, Bus!seen
  <2>2. wait' \in BOOLEAN
    BY <2>1
  <2>3. Bus!TypeOK'
    BY <2>1, <2>2 DEF Bus!TypeOK
  <2>4. XferMutex' /\ MovedInLen'
    BY <2>1 DEF Bus!TypeOK, XferMutex, MovedInLen
  <2>5. QED
    BY <2>3, <2>4
<1>7. CASE Bus!Result(t)
  <2>1. xfer.status \in {"no_error", "cancelled", "nack"}
    BY DEF Bus!TypeOK
  <2>2. xret' \in [Threads -> {"no_error", "timed_out", "cancelled", "nack"}]
        /\ iien' \in BOOLEAN /\ i2cHalted' \in {"none", "assert", "panic"}
    <3>1. CASE xret[t] = "timed_out"
      BY <1>7, <3>1 DEF Bus!Result, Bus!TypeOK
    <3>2. CASE xret[t] # "timed_out"
      BY <1>7, <2>1, <3>2 DEF Bus!Result, Bus!TypeOK
    <3>3. QED
      BY <3>1, <3>2
  <2>3. xpc[t] = "result" /\ xpc' = [xpc EXCEPT ![t] = "finish"]
        /\ UNCHANGED <<asserts, flags, bus, wire, fsm, xfer, wait, waking, mutex, call, retries,
                       xfers, faults, late, moved, refused, wrong>>
    BY <1>7 DEF Bus!Result, Bus!state, Bus!bounds, Bus!seen
  <2>4. QED
    BY <2>2, <2>3 DEF Bus!TypeOK, XferMutex, MovedInLen
<1>8. CASE Bus!Finish(t)
  <2>1. /\ xpc[t] = "finish" /\ bus' \in {"free", "other", "ours"}
        /\ wire' \in {"still", "shifting", "stuck"}
        /\ fsm' = "idle" /\ xfer' = [xfer EXCEPT !.status = "no_error"]
        /\ UNCHANGED <<asserts, iien, flags, wait, waking, xfers, faults, late, i2cHalted>>
    BY <1>8 DEF Bus!Finish, Bus!AfterStop, Bus!TypeOK, Bus!bounds
  <2>2. xfer' \in [read : BOOLEAN, reg : BOOLEAN, len : 0..MaxLen,
                   status : {"no_error", "cancelled", "nack"}] /\ xfer'.len = xfer.len
        /\ xfer.len \in 0..MaxLen
    BY <2>1 DEF Bus!TypeOK
  <2>3. CASE Bus!FinishRetry(t)
    <3>1. retries[t] \in 0..MaxNacks + 1 /\ retries \in [Threads -> 0..MaxNacks + 1]
      BY DEF Bus!TypeOK
    <3>2. xfer.status = "nack" => retries[t] < MaxNacks
      BY <2>3 DEF Bus!FinishRetry, Bus!TriesAgain
    <3>3. (IF xfer.status = "nack" THEN retries[t] + 1 ELSE 1) \in 0..MaxNacks + 1
      BY <3>1, <3>2
    <3>4. retries' \in [Threads -> 0..MaxNacks + 1]
      BY <2>3, <3>1, <3>3 DEF Bus!FinishRetry
    <3>5. QED
      BY <2>1, <2>2, <2>3, <3>4 DEF Bus!FinishRetry, Bus!TypeOK, XferMutex, MovedInLen
  <2>4. CASE Bus!FinishReturn(t)
    <3>1. wrong' \in BOOLEAN /\ moved' = 0 /\ refused' = FALSE /\ mutex' = {}
          /\ xpc' = [xpc EXCEPT ![t] = "idle"]
          /\ retries' \in [Threads -> 0..MaxNacks + 1]
          /\ xret' \in [Threads -> {"no_error", "timed_out", "cancelled", "nack"}]
      BY <2>4 DEF Bus!FinishReturn, Bus!TypeOK
    <3>2. call' \in [Threads -> [kind : Kinds \cup {"read"}, len : 1..MaxLen]]
      BY <2>4 DEF Bus!FinishReturn, Bus!NoCall, Bus!TypeOK
    <3>3. moved' + xfer'.len =< MaxLen /\ moved' \in 0..MaxLen
      BY <2>2, <3>1
    <3>4. \A s \in Threads : xpc[s] \notin {"idle", "lock"} => s = t
      BY <2>1 DEF XferMutex
    <3>5. XferMutex'
      BY <3>1, <3>4 DEF XferMutex, Bus!TypeOK
    <3>6. QED
      BY <2>1, <2>2, <3>1, <3>2, <3>3, <3>5 DEF Bus!TypeOK, MovedInLen
  <2>5. QED
    BY <1>8, <2>3, <2>4 DEF Bus!Finish
<1>9. QED
  BY <1>1, <1>2, <1>3, <1>4, <1>5, <1>6, <1>7, <1>8 DEF Bus!Thread

-----------------------------------------------------------------------------
(***************************************************************************)
(* The transfer, until a wait has timed out                                *)
(***************************************************************************)

\* The thread that has the bus, if any: nothing but its transfer counts.
LEMMA XferOfOne ==
  ASSUME XferMutex', NEW t \in Threads, xpc'[t] \in InXfer, ~wrong', i2cHalted' = "none",
         \A s \in Threads : xpc'[s] # "idle" => call'[s].kind \in Kinds,
         Directed(t)',
         UnderWay(t)' \/ HasEnded(t)'
  PROVE  XferState'
<1>1. \A s \in Threads : xpc'[s] \in InXfer => s = t
  BY DEF XferMutex, InXfer
<1>2. QED
  BY <1>1 DEF XferState, InXfer, UnderWay, HasEnded

\* The direction of a transfer depends on the call and on the transfer only.
LEMMA DirectedKept ==
  ASSUME NEW t \in Threads, Directed(t), call' = call, xfer'.read = xfer.read, xfer'.reg = xfer.reg
  PROVE  Directed(t)'
  BY DEF Directed, Bus!FlagsOf

\* Whatever moves on the bus, or is signaled, is the transfer of one thread.
LEMMA XferOwner ==
  ASSUME XferState, ~Rests
  PROVE  \E t \in Threads : /\ xpc[t] \in InXfer
                            /\ Directed(t)
                            /\ UnderWay(t) \/ HasEnded(t)
  BY DEF XferState

\* The wire keeps the state of the transfer.
LEMMA XferEnvironment ==
  ASSUME BusTypes, XferMutex', XferState, Bus!Environment
  PROVE  XferState'
<1>1. UNCHANGED <<fsm, xfer, wait, waking, xpc, call, xret, moved, iien, wrong, i2cHalted>>
  BY DEF Bus!Environment, Bus!ByteDone, Bus!Refused, Bus!ArbitrationLost, Bus!Stuck, Bus!OtherDone,
         Bus!state, Bus!threads, Bus!seen
<1>2. CASE Bus!OtherDone
  <2>1. UNCHANGED <<wire, flags, refused>>
    BY <1>2 DEF Bus!OtherDone, Bus!seen
  <2>2. \A t \in Threads : Directed(t) => Directed(t)'
    BY <1>1, DirectedKept
  <2>3. QED
    BY <1>1, <2>1, <2>2 DEF XferState, Rests, UnderWay, HasEnded
<1>3. CASE wire = "shifting"
  <2>1. PICK t \in Threads : /\ xpc[t] \in InXfer
                             /\ Directed(t)
                             /\ UnderWay(t)
    BY <1>3, XferOwner DEF Rests, HasEnded
  <2>2. flags \subseteq {"IIF", "IAL", "RXAK"} /\ "IIF" \notin flags /\ "IAL" \notin flags
        /\ "RXAK" \notin flags
    BY <1>3, <2>1 DEF BusTypes, Bus!TypeOK, UnderWay
  <2>3. UnderWay(t)'
    <3>1. ~refused
      BY <2>1, <2>2 DEF UnderWay
    <3>2. CASE Bus!ByteDone
      <4>1. wire' = "still" /\ flags' = flags \cup {"IIF"} /\ refused' = refused
        BY <3>2 DEF Bus!ByteDone, Bus!seen
      <4>2. QED
        BY <1>1, <2>1, <2>2, <3>1, <4>1 DEF UnderWay
    <3>3. CASE Bus!Refused
      <4>1. wire' = "still" /\ flags' = flags \cup {"IIF", "RXAK"} /\ fsm # "rx"
            /\ refused' = (refused \/ fsm # "tx" \/ xfer.len > 0)
        BY <3>3 DEF Bus!Refused
      <4>2. QED
        BY <1>1, <2>1, <2>2, <3>1, <4>1 DEF UnderWay
    <3>4. CASE Bus!ArbitrationLost
      <4>1. wire' = "still" /\ flags' = flags \cup {"IIF", "IAL"} /\ refused' = refused
        BY <3>4 DEF Bus!ArbitrationLost, Bus!seen
      <4>2. QED
        BY <1>1, <2>1, <2>2, <3>1, <4>1 DEF UnderWay
    <3>5. CASE Bus!Stuck
      <4>1. wire' = "stuck" /\ flags' = flags /\ refused' = refused
        BY <3>5 DEF Bus!Stuck, Bus!seen
      <4>2. QED
        BY <1>1, <2>1, <2>2, <3>1, <4>1 DEF UnderWay
    <3>6. CASE Bus!OtherDone
      <4>1. wire' = wire /\ flags' = flags /\ refused' = refused
        BY <3>6 DEF Bus!OtherDone, Bus!seen
      <4>2. QED
        BY <1>1, <2>1, <4>1 DEF UnderWay
    <3>7. QED
      BY <3>2, <3>3, <3>4, <3>5, <3>6 DEF Bus!Environment
  <2>4. QED
    BY <1>1, <2>1, <2>3, DirectedKept, XferOfOne DEF XferState
<1>4. QED
  BY <1>2, <1>3 DEF Bus!Environment, Bus!ByteDone, Bus!Refused, Bus!ArbitrationLost, Bus!Stuck

\* The last step of the handler, and those before it
LEMMA XferIsr ==
  ASSUME BusTypes, XferMutex', XferState, Bus!Isr
  PROVE  XferState'
<1>1. UNCHANGED <<wait, xpc, call, xret, wrong, refused>> /\ flags' = {} /\ iien /\ "IIF" \in flags
      /\ ~waking
  BY DEF Bus!Isr, Bus!threads
<1>2. PICK t \in Threads : /\ xpc[t] \in InXfer
                           /\ Directed(t)
                           /\ UnderWay(t)
  BY <1>1, XferOwner DEF Rests, HasEnded
<1>3. /\ xfer \in [read : BOOLEAN, reg : BOOLEAN, len : 0..MaxLen,
                   status : {"no_error", "cancelled", "nack"}]
      /\ xfer.len \in Nat /\ moved \in Nat /\ moved + xfer.len = call[t].len
      /\ call[t].len \in Nat
  BY <1>2, DevAssumed DEF BusTypes, Bus!TypeOK, Bus!NO_ERROR, UnderWay
<1>4. /\ xpc[t] = "wait" /\ ~wait /\ wire = "still" /\ i2cHalted = "none"
      /\ fsm \in {"address", "tx", "rx_address", "set_rx", "rx"} /\ xfer.status = "no_error"
      /\ fsm # "tx" => xfer.len > 0
      /\ refused => "RXAK" \in flags /\ (fsm # "tx" \/ xfer.len > 0)
      /\ "RXAK" \in flags => fsm # "rx"
  BY <1>1, <1>2 DEF UnderWay, XferState
<1>5. ASSUME NEW s \in {"nack", "cancelled"}, Bus!Over("error", s) PROVE XferState'
  <2>1. /\ fsm' = "error" /\ xfer' = [xfer EXCEPT !.status = s] /\ iien' = FALSE /\ waking' = TRUE
        /\ UNCHANGED <<wire, moved, i2cHalted>>
    BY <1>5 DEF Bus!Over, Bus!Set
  <2>2. xfer'.status = s /\ xfer'.read = xfer.read /\ xfer'.reg = xfer.reg
    BY <1>3, <2>1
  <2>3. HasEnded(t)'
    BY <1>1, <1>4, <2>1, <2>2 DEF HasEnded
  <2>4. QED
    BY <1>1, <1>2, <1>4, <2>1, <2>2, <2>3, DirectedKept, XferOfOne DEF XferState
<1>6. ASSUME Bus!Step, "RXAK" \in flags => Bus!IgnoresNak PROVE XferState'
  <2>1. ~refused
    BY <1>4, <1>6 DEF Bus!IgnoresNak
  <2>2. ASSUME NEW s \in {"tx", "rx_address", "set_rx", "rx"}, NEW n \in {0, 1}, Bus!Shift(s, n),
               n = 1 => xfer.len > 0, s # "tx" => xfer.len - n > 0
        PROVE  XferState'
    <3>1. /\ fsm' = s /\ xfer' = [xfer EXCEPT !.len = xfer.len - n, !.status = "no_error"]
          /\ wire' = "shifting" /\ moved' = moved + n /\ UNCHANGED <<iien, waking, i2cHalted>>
      BY <2>2 DEF Bus!Shift, Bus!NO_ERROR
    <3>2. /\ xfer'.status = "no_error" /\ xfer'.read = xfer.read /\ xfer'.reg = xfer.reg
          /\ xfer'.len = xfer.len - n
      BY <1>3, <3>1
    <3>3. moved' + xfer'.len = call[t].len
      BY <1>3, <3>1, <3>2
    <3>4. UnderWay(t)'
      BY <1>1, <1>4, <2>1, <2>2, <3>1, <3>2, <3>3 DEF UnderWay
    <3>5. QED
      BY <1>1, <1>2, <1>4, <3>1, <3>2, <3>4, DirectedKept, XferOfOne DEF XferState
  <2>3. CASE Bus!Addressed = "tx" /\ Bus!Ends(xfer.len) /\ Bus!Over("done", "no_error")
    <3>1. /\ fsm' = "done" /\ xfer' = [xfer EXCEPT !.status = "no_error"] /\ iien' = FALSE
          /\ waking' = TRUE /\ UNCHANGED <<wire, moved, i2cHalted>>
      BY <2>3 DEF Bus!Over, Bus!Set
    <3>2. /\ xfer'.status = "no_error" /\ xfer'.read = xfer.read /\ xfer'.reg = xfer.reg
      BY <1>3, <3>1
    <3>3. moved' = call[t].len
      BY <1>3, <2>3, <3>1 DEF Bus!Ends
    <3>4. HasEnded(t)'
      BY <1>1, <1>4, <2>1, <3>1, <3>2, <3>3 DEF HasEnded
    <3>5. QED
      BY <1>1, <1>2, <1>4, <3>1, <3>2, <3>4, DirectedKept, XferOfOne DEF XferState
  <2>4. CASE /\ fsm = "rx" /\ xfer.len = 1
             /\ fsm' = "done" /\ xfer' = [xfer EXCEPT !.len = 0, !.status = "no_error"]
             /\ iien' = FALSE /\ waking' = TRUE /\ moved' = moved + 1
             /\ UNCHANGED <<wire, i2cHalted>>
    <3>1. /\ xfer'.status = "no_error" /\ xfer'.read = xfer.read /\ xfer'.reg = xfer.reg
      BY <1>3, <2>4
    <3>2. moved' = call[t].len
      BY <1>3, <2>4
    <3>3. HasEnded(t)'
      BY <1>1, <1>4, <2>1, <2>4, <3>1, <3>2 DEF HasEnded
    <3>4. QED
      BY <1>1, <1>2, <1>4, <2>4, <3>1, <3>3, DirectedKept, XferOfOne DEF XferState
  <2>5. fsm # "tx" /\ Bus!Addressed = "tx" => xfer.len > 0
    BY <1>4
  <2>6. CASE Bus!Addressed = "command" /\ Bus!Shift(IF xfer.read THEN "rx_address" ELSE "tx", 0)
    <3>1. xfer.len > 0 /\ xfer.len - 0 > 0
      BY <1>3, <1>4, <2>6 DEF Bus!Addressed
    <3>2. QED
      BY <2>2, <2>6, <3>1
  <2>7. CASE Bus!Addressed = "tx" /\ ~Bus!Ends(xfer.len) /\ Bus!Shift("tx", 1)
    <3>1. xfer.len > 0
      BY <1>3, <2>7 DEF Bus!Ends
    <3>2. QED
      BY <2>2, <2>7, <3>1
  <2>8. CASE (fsm = "rx_address" /\ Bus!Shift("set_rx", 0))
             \/ (Bus!Addressed = "set_rx" /\ Bus!Shift("rx", 0))
    <3>1. xfer.len > 0 /\ xfer.len - 0 > 0
      BY <1>3, <1>4, <2>8 DEF Bus!Addressed
    <3>2. QED
      BY <2>2, <2>8, <3>1
  <2>9. CASE fsm = "rx" /\ xfer.len > 1 /\ Bus!Shift("rx", 1)
    <3>1. xfer.len > 0 /\ xfer.len - 1 > 0
      BY <1>3, <2>9
    <3>2. QED
      BY <2>2, <2>9, <3>1
  <2>10. QED
    BY <1>4, <1>6, <2>3, <2>4, <2>6, <2>7, <2>8, <2>9 DEF Bus!Step, Bus!NO_ERROR
<1>7. QED
  BY <1>5, <1>6 DEF Bus!Isr

\* So does the signal of the interrupt handler.
LEMMA XferSignal ==
  ASSUME BusTypes, XferMutex', XferState, Bus!IsrSignal
  PROVE  XferState'
<1>1. /\ waking /\ wait' = TRUE /\ waking' = FALSE
      /\ UNCHANGED <<iien, flags, wire, fsm, xfer, xpc, call, xret, moved, refused, wrong,
                     i2cHalted>>
  BY DEF Bus!IsrSignal, Bus!controller, Bus!threads, Bus!seen
<1>2. PICK t \in Threads : /\ xpc[t] \in InXfer
                           /\ Directed(t)
                           /\ HasEnded(t)
  BY <1>1, XferOwner DEF Rests, UnderWay
<1>3. HasEnded(t)'
  BY <1>1, <1>2 DEF HasEnded
<1>4. QED
  BY <1>1, <1>2, <1>3, DirectedKept, XferOfOne DEF XferState

\* A thread that has no transfer on the bus leaves it as it is.
LEMMA XferOthers ==
  ASSUME XferState, NEW t \in Threads, xpc[t] \notin InXfer, xpc'[t] \notin InXfer,
         \A s \in Threads : s # t => xpc'[s] = xpc[s] /\ call'[s] = call[s] /\ xret'[s] = xret[s],
         xpc'[t] # "idle" => call'[t].kind \in Kinds,
         UNCHANGED <<iien, flags, wire, fsm, xfer, wait, waking, moved, refused, wrong, i2cHalted>>
  PROVE  XferState'
<1>1. \A s \in Threads : s # t => (Directed(s) => Directed(s)')
  BY DEF Directed, Bus!FlagsOf
<1>2. \A s \in Threads : s # t => /\ UnderWay(s) => UnderWay(s)'
                                  /\ HasEnded(s) => HasEnded(s)'
  BY DEF UnderWay, HasEnded
<1>3. (\A s \in Threads : xpc'[s] \notin InXfer) => (\A s \in Threads : xpc[s] \notin InXfer)
  OBVIOUS
<1>4. QED
  BY <1>1, <1>2, <1>3 DEF XferState, Rests

\* The thread t has the mutex, and no other has a transfer.
LEMMA XferAlone ==
  ASSUME XferMutex, NEW t \in Threads, xpc[t] \notin {"idle", "lock"}
  PROVE  \A s \in Threads : s # t => xpc[s] \in {"idle", "lock"}
  BY DEF XferMutex

\* So does a thread that asks for the bus.
LEMMA XferCall ==
  ASSUME BusTypes, XferState, NEW t \in Threads, Bus!Call(t) \/ Bus!Acquire(t)
  PROVE  XferState'
<1>1. CASE Bus!Call(t)
  <2>1. PICK k \in Kinds, n \in 1..MaxLen : call' = [call EXCEPT ![t] = [kind |-> k, len |-> n]]
    BY <1>1 DEF Bus!Call
  <2>2. /\ xpc[t] = "idle" /\ xpc' = [xpc EXCEPT ![t] = "lock"]
        /\ UNCHANGED <<iien, flags, wire, fsm, xfer, wait, waking, xret, moved, refused, wrong,
                       i2cHalted>>
    BY <1>1 DEF Bus!Call, Bus!Goto, Bus!controller, Bus!state, Bus!seen
  <2>3. call'[t].kind \in Kinds /\ xpc'[t] = "lock"
        /\ \A s \in Threads : s # t => xpc'[s] = xpc[s] /\ call'[s] = call[s]
    BY <2>1, <2>2 DEF BusTypes, Bus!TypeOK
  <2>4. QED
    BY <2>2, <2>3, XferOthers DEF InXfer
<1>2. CASE Bus!Acquire(t)
  <2>1. /\ xpc[t] = "lock" /\ xpc' = [xpc EXCEPT ![t] = "poll"]
        /\ UNCHANGED <<iien, flags, wire, fsm, xfer, wait, waking, call, xret, moved, refused,
                       wrong, i2cHalted>>
    BY <1>2 DEF Bus!Acquire, Bus!Goto, Bus!controller, Bus!state, Bus!seen
  <2>2. call'[t].kind \in Kinds /\ xpc'[t] = "poll" /\ \A s \in Threads : s # t => xpc'[s] = xpc[s]
    BY <2>1 DEF BusTypes, Bus!TypeOK, XferState
  <2>3. QED
    BY <2>1, <2>2, XferOthers DEF InXfer
<1>3. QED
  BY <1>1, <1>2

\* The thread that has the bus starts a transfer of its own.
LEMMA XferBegin ==
  ASSUME BusTypes, XferMutex', XferState, NEW t \in Threads, Bus!Begin(t)
  PROVE  XferState'
<1>1. /\ xpc[t] = "poll" /\ xpc' = [xpc EXCEPT ![t] = "wait"]
      /\ fsm' = "address" /\ moved' = 0 /\ refused' = FALSE
      /\ flags' = {} /\ iien' = TRUE /\ wire' = "shifting"
      /\ UNCHANGED <<wait, waking, call, wrong, i2cHalted>>
  BY DEF Bus!Begin, Bus!Goto
<1>2. \A s \in Threads : xpc[s] \notin InXfer
  BY <1>1, XferAlone DEF BusTypes, InXfer
<1>3. ~wait /\ ~waking /\ ~wrong /\ i2cHalted = "none"
  BY <1>2 DEF XferState, Rests
<1>4. xpc'[t] = "wait" /\ \A s \in Threads : s # t => xpc'[s] = xpc[s]
  BY <1>1 DEF BusTypes, Bus!TypeOK
<1>5. call[t].kind \in {"read_reg", "write_reg", "read", "write"} /\ call[t].len \in 1..MaxLen
  BY DevAssumed DEF BusTypes, Bus!TypeOK
<1>6. PICK f \in Bus!FlagsOf(call[t].kind) :
         xfer' = [read |-> f[1], reg |-> f[2], len |-> call[t].len, status |-> "no_error"]
  BY DEF Bus!Begin, Bus!NO_ERROR
<1>7. f = <<f[1], f[2]>>
  <2>1. \/ f = <<TRUE, TRUE>> \/ f = <<FALSE, TRUE>> \/ f = <<TRUE, FALSE>>
        \/ f \in BOOLEAN \X BOOLEAN
    BY <1>5 DEF Bus!FlagsOf
  <2>2. CASE f \in BOOLEAN \X BOOLEAN
    <3>1. PICK a \in BOOLEAN, b \in BOOLEAN : f = <<a, b>>
      BY <2>2
    <3>2. QED
      BY <3>1
  <2>3. CASE f = <<TRUE, TRUE>>
    BY <2>3
  <2>4. CASE f = <<FALSE, TRUE>>
    BY <2>4
  <2>5. CASE f = <<TRUE, FALSE>>
    BY <2>5
  <2>6. QED
    BY <2>1, <2>2, <2>3, <2>4, <2>5, Zenon
<1>8. xfer'.read = f[1] /\ xfer'.reg = f[2] /\ xfer'.len = call[t].len /\ xfer'.status = "no_error"
  BY <1>6
<1>9. Directed(t)'
  <2>1. <<f[1], f[2]>> \in Bus!FlagsOf(call[t].kind)
    BY <1>6, <1>7
  <2>2. QED
    BY <1>1, <1>8, <2>1 DEF Directed, Bus!FlagsOf
<1>10. UnderWay(t)'
  <2>1. 0 + call[t].len = call[t].len /\ call[t].len > 0
    BY <1>5, DevAssumed
  <2>2. QED
    BY <1>1, <1>3, <1>4, <1>8, <2>1 DEF UnderWay
<1>11. \A s \in Threads : xpc'[s] # "idle" => call'[s].kind \in Kinds
  BY <1>1, <1>4 DEF XferState
<1>12. QED
  BY <1>1, <1>3, <1>4, <1>9, <1>10, <1>11, XferOfOne DEF InXfer

\* The thread that is woken looks at the result, and keeps the bus until then.
LEMMA XferResult ==
  ASSUME BusTypes, XferMutex', XferState, NEW t \in Threads,
         Bus!Woken(t) \/ Bus!Unsignal(t) \/ Bus!Result(t)
  PROVE  XferState'
<1>1. /\ xpc[t] \in {"wait", "unsignal", "result"} /\ (xpc[t] = "wait" => wait)
      /\ UNCHANGED <<flags, wire, fsm, xfer, waking, call, moved, refused, wrong>>
  BY DEF Bus!Woken, Bus!Unsignal, Bus!Result, Bus!controller, Bus!state, Bus!seen
<1>2. HasEnded(t) /\ Directed(t)
  BY <1>1 DEF XferState, UnderWay, InXfer
<1>3. \A s \in Threads : s # t => xpc'[s] = xpc[s]
  BY DEF Bus!Woken, Bus!Unsignal, Bus!Result, Bus!Goto, BusTypes, Bus!TypeOK
<1>4. xpc'[t] \in {"unsignal", "result", "finish"}
  BY DEF Bus!Woken, Bus!Unsignal, Bus!Result, Bus!Goto, BusTypes, Bus!TypeOK
<1>5. i2cHalted' = "none" /\ HasEnded(t)'
  <2>1. ~wrong /\ i2cHalted = "none"
    BY DEF XferState
  <2>2. CASE Bus!Woken(t)
    <3>1. xpc'[t] = "unsignal" /\ xret'[t] = "no_error" /\ UNCHANGED <<iien, wait, i2cHalted>>
      BY <2>2 DEF Bus!Woken, Bus!Goto, Bus!controller, Bus!state, Bus!NO_ERROR, BusTypes, Bus!TypeOK
    <3>2. ~waking
      BY <1>2, <2>2 DEF HasEnded, Bus!Woken
    <3>3. QED
      BY <1>1, <1>2, <2>1, <3>1, <3>2 DEF HasEnded
  <2>3. CASE Bus!Unsignal(t)
    <3>1. xpc'[t] = "result" /\ xpc[t] = "unsignal" /\ wait' = FALSE
          /\ UNCHANGED <<xret, iien, i2cHalted>>
      BY <2>3 DEF Bus!Unsignal, Bus!Goto, Bus!controller, BusTypes, Bus!TypeOK
    <3>2. QED
      BY <1>1, <1>2, <2>1, <3>1 DEF HasEnded
  <2>4. CASE Bus!Result(t)
    <3>1. xret[t] = "no_error" /\ xpc[t] = "result"
      BY <1>2, <2>4 DEF HasEnded, Bus!Result
    <3>2. (fsm = "done") = (xfer.status = "no_error")
      BY <1>2 DEF HasEnded
    <3>3. xpc'[t] = "finish" /\ xret'[t] = xfer.status /\ UNCHANGED <<iien, wait>>
          /\ i2cHalted' = "none"
      BY <2>4, <3>1, <3>2 DEF Bus!Result, Bus!Goto, Bus!state, Bus!NO_ERROR, BusTypes, Bus!TypeOK
    <3>4. QED
      BY <1>1, <1>2, <3>1, <3>3 DEF HasEnded
  <2>5. QED
    BY <2>2, <2>3, <2>4
<1>6. Directed(t)' /\ ~wrong'
  BY <1>1, <1>2, DirectedKept DEF XferState
<1>7. \A s \in Threads : xpc'[s] # "idle" => call'[s].kind \in Kinds
  BY <1>1, <1>3 DEF XferState
<1>8. QED
  BY <1>4, <1>5, <1>6, <1>7, XferOfOne DEF InXfer

\* The thread that finishes leaves the bus at rest, or starts again.
LEMMA XferFinish ==
  ASSUME BusTypes, XferState, NEW t \in Threads, Bus!Finish(t)
  PROVE  XferState'
<1>1. /\ xpc[t] = "finish" /\ fsm' = "idle" /\ wire' \in {"still", wire}
      /\ xfer' = [xfer EXCEPT !.status = "no_error"]
      /\ Bus!FinishRetry(t) \/ Bus!FinishReturn(t)
      /\ UNCHANGED <<iien, wait, waking, i2cHalted>>
  BY DEF Bus!Finish, Bus!NO_ERROR
<1>2. HasEnded(t) /\ Directed(t)
  BY <1>1 DEF XferState, UnderWay, InXfer
<1>3. Rests'
  BY <1>1, <1>2 DEF HasEnded, Rests
<1>4. xpc'[t] \in {"poll", "idle"} /\ (xpc'[t] = "poll" => call' = call)
      /\ \A s \in Threads : s # t => xpc'[s] = xpc[s] /\ call'[s] = call[s]
  BY <1>1 DEF Bus!FinishRetry, Bus!FinishReturn, Bus!Goto, BusTypes, Bus!TypeOK
<1>5. \A s \in Threads : xpc'[s] \notin InXfer
  BY <1>1, <1>4, XferAlone DEF BusTypes, InXfer
<1>6. ~wrong'
  <2>1. CASE Bus!FinishRetry(t)
    BY <2>1 DEF Bus!FinishRetry, XferState
  <2>2. CASE Bus!FinishReturn(t)
    <3>1. xret[t] = "no_error" => Bus!Whole(t)
      BY <1>1, <1>2 DEF HasEnded, Directed, Bus!Whole
    <3>2. QED
      BY <2>2, <3>1 DEF Bus!FinishReturn, Bus!NO_ERROR, XferState
  <2>3. QED
    BY <1>1, <2>1, <2>2
<1>7. \A s \in Threads : xpc'[s] # "idle" => call'[s].kind \in Kinds
  BY <1>1, <1>4 DEF XferState
<1>8. QED
  BY <1>1, <1>3, <1>5, <1>6, <1>7 DEF XferState

-----------------------------------------------------------------------------
\* The invariant of the I2C bus is inductive.
LEMMA BusStep == BusInv /\ [Bus!Next]_(Bus!vars) => BusInv'
<1> SUFFICES ASSUME BusInv, [Bus!Next]_(Bus!vars) PROVE BusInv'
  OBVIOUS
<1>1. CASE UNCHANGED Bus!vars
  <2>1. BusTypes' /\ (late => late')
    BY <1>1 DEF BusInv, BusTypes, Bus!TypeOK, XferMutex, MovedInLen, Bus!vars, Bus!controller,
         Bus!state, Bus!threads, Bus!bounds, Bus!seen
  <2>2. UNCHANGED <<iien, flags, wire, fsm, xfer, wait, waking, moved, refused, wrong, i2cHalted,
                    xpc, call, xret>>
    BY <1>1 DEF Bus!vars, Bus!controller, Bus!state, Bus!threads, Bus!seen
  <2>3. XferState => XferState'
    <3>1. \A t \in Threads : Directed(t) => Directed(t)'
      BY <2>2, DirectedKept
    <3>2. QED
      BY <2>2, <3>1 DEF XferState, Rests, UnderWay, HasEnded
  <2>4. QED
    BY <2>1, <2>3 DEF BusInv, BusTypes
<1>2. CASE Bus!Next
  <2>1. BusTypes
    BY DEF BusInv, BusTypes
  <2>2. BusTypes'
    BY <1>2, <2>1, BusTypesEnvironment, BusTypesIsr, BusTypesThread DEF Bus!Next
  <2>3. late => late'
    <3>1. \A t \in Threads : Bus!Call(t) \/ Bus!Thread(t) => (late => late')
      BY DEF Bus!Call, Bus!Thread, Bus!Acquire, Bus!Begin, Bus!Woken, Bus!TimeOut, Bus!Unsignal,
           Bus!Result, Bus!Finish, Bus!seen
    <3>2. Bus!Environment \/ Bus!Isr \/ Bus!IsrSignal => (late => late')
      BY DEF Bus!Environment, Bus!ByteDone, Bus!Refused, Bus!ArbitrationLost, Bus!Stuck,
           Bus!OtherDone, Bus!Isr, Bus!IsrSignal, Bus!seen
    <3>3. QED
      BY <1>2, <3>1, <3>2 DEF Bus!Next
  <2>4. ASSUME XferState, ~late' PROVE XferState'
    <3>1. XferMutex'
      BY <2>2 DEF BusTypes
    <3>2. ASSUME NEW t \in Threads, Bus!Call(t) \/ Bus!Thread(t) PROVE XferState'
      <4>1. ~Bus!TimeOut(t)
        BY <2>4 DEF Bus!TimeOut
      <4>2. QED
        BY <2>1, <2>4, <3>1, <3>2, <4>1, XferCall, XferBegin, XferResult, XferFinish DEF Bus!Thread
    <3>3. QED
      BY <1>2, <2>1, <2>4, <3>1, <3>2, XferEnvironment, XferIsr, XferSignal DEF Bus!Next
  <2>5. QED
    BY <2>2, <2>3, <2>4 DEF BusInv, BusTypes
<1>3. QED
  BY <1>1, <1>2

\* A step of the devices is a step of the bus or leaves it alone.
LEMMA BusMoves == [Next]_vars => [Bus!Next]_(Bus!vars)
  BY DEF Next, DmaNext, BusNext, ConsoleNext, vars, busVars, Bus!vars, Bus!controller, Bus!state,
       Bus!threads, Bus!bounds, Bus!seen

\* The I2C bus keeps its inductive invariant beside the other devices: the transfer under
\* way is the one its thread has asked for (i2c.c).
THEOREM BusInvariant == Spec => []BusInv
<1>1. Init => BusInv
  BY BusInit DEF Init
<1>2. BusInv /\ [Next]_vars => BusInv'
  BY BusStep, BusMoves
<1>3. QED
  BY <1>1, <1>2, PTL DEF Spec

(***************************************************************************)
(* Until a wait has timed out, NO_ERROR means that all bytes have moved as *)
(* the flags of the call say, in any direction if these are uninitialised  *)
(* as those of a stream write are, and were acknowledged, and neither      *)
(* assertion nor panic is reached, for any number of threads, lengths and  *)
(* retries.                                                                *)
(***************************************************************************)
THEOREM DevicesOkIsWhole == Spec => []OkIsWhole
<1>1. BusInv => OkIsWhole
  BY DEF BusInv, XferState, OkIsWhole, Bus!OkIsWhole, Bus!Alive
<1>2. QED
  BY <1>1, BusInvariant, PTL

-----------------------------------------------------------------------------
(***************************************************************************)
(* The UART                                                                *)
(***************************************************************************)
LEMMA ConsoleInit == Console!Init => Console!TypeOK
<1> USE DevAssumed DEF Console!Init, Console!TypeOK
<1>1. 0 \in 0..Cap /\ 0 \in 0..FifoSize /\ 0 \in 0..MaxText /\ 0 \in 0..MaxPuts
  OBVIOUS
<1>2. QED
  BY <1>1

\* Every step of the UART keeps its types.
LEMMA ConsoleStep == Console!TypeOK /\ [Console!Next]_(Console!vars) => Console!TypeOK'
<1> SUFFICES ASSUME Console!TypeOK, [Console!Next]_(Console!vars) PROVE Console!TypeOK'
  OBVIOUS
<1> USE DevAssumed DEF Console!TypeOK, Console!build
<1>1. \A a, b \in Int : /\ Console!Least(a, b) =< a /\ Console!Least(a, b) =< b
                        /\ Console!Least(a, b) \in {a, b}
  BY DEF Console!Least
<1>2. CASE Console!Shift \/ Console!PutsIrq
  BY <1>2 DEF Console!Shift, Console!PutsIrq
<1>3. CASE \E n \in 1..MaxText : Console!Puts(n)
  BY <1>3 DEF Console!Puts
<1>4. CASE Console!Fill
  <2>1. PICK n \in Int : /\ n = Console!Least(text, Cap - txBuf)
                         /\ txBuf' = txBuf + n /\ Console!Went(n)
    BY <1>1, <1>4 DEF Console!Fill
  <2>2. n =< text /\ n =< Cap - txBuf /\ n >= 0
    BY <1>1, <2>1
  <2>3. txBuf' \in 0..Cap /\ text' \in 0..MaxText /\ upc' \in {"idle", "wait"}
    BY <2>1, <2>2 DEF Console!Went
  <2>4. trdyen' \in BOOLEAN /\ wasEmpty' \in BOOLEAN
    BY <1>4 DEF Console!Fill, Console!Enables
  <2>5. QED
    BY <1>4, <2>3, <2>4 DEF Console!Fill
<1>5. CASE Console!FillFifo
  <2>1. PICK n \in Int : /\ n = Console!Least(text, FifoSize - fifo)
                         /\ fifo' = fifo + n /\ Console!Went(n)
    BY <1>1, <1>5 DEF Console!FillFifo
  <2>2. n =< text /\ n =< FifoSize - fifo /\ n >= 0
    BY <1>1, <2>1
  <2>3. fifo' \in 0..FifoSize /\ text' \in 0..MaxText /\ upc' \in {"idle", "wait"}
    BY <2>1, <2>2 DEF Console!Went
  <2>4. trdyen' \in BOOLEAN
    BY <1>5 DEF Console!FillFifo
  <2>5. QED
    BY <1>5, <2>3, <2>4 DEF Console!FillFifo
<1>6. CASE Console!Woken
  BY <1>6 DEF Console!Woken
<1>7. CASE Console!IsrBuffered
  <2>1. PICK n \in Int : n = Console!Moved
    BY <1>1 DEF Console!Moved, Console!Chunk
  <2>2. n =< txBuf /\ n =< FifoSize - Threshold /\ n >= 0
    BY <1>1, <2>1 DEF Console!Moved, Console!Chunk
  <2>3. fifo' = fifo + n /\ txBuf' = txBuf - n /\ fifo < Threshold
    BY <1>7, <2>1 DEF Console!IsrBuffered
  <2>4. fifo' \in 0..FifoSize /\ txBuf' \in 0..Cap
    BY <2>2, <2>3
  <2>5. trdyen' \in BOOLEAN /\ dputc' \in BOOLEAN
    BY <1>7 DEF Console!IsrBuffered
  <2>6. QED
    BY <1>7, <2>4, <2>5 DEF Console!IsrBuffered
<1>8. CASE Console!IsrUnbuffered
  BY <1>8 DEF Console!IsrUnbuffered
<1>9. CASE UNCHANGED Console!vars
  BY <1>9 DEF Console!vars
<1>10. QED
  BY <1>2, <1>3, <1>4, <1>5, <1>6, <1>7, <1>8, <1>9
     DEF Console!Next, Console!Writer, Console!Isr

(***************************************************************************)
(* The variables of the three models have their types for all values of    *)
(* the constants; in particular the FIFO and the buffer of the UART are    *)
(* never overrun, whoever fills them, and the number of periods that the   *)
(* ASRC expects never falls below 0.                                       *)
(***************************************************************************)
THEOREM DevicesTypes == Spec => []TypeOK
<1>1. Init => Console!TypeOK
  BY ConsoleInit DEF Init
<1>2. [Next]_vars => [Console!Next]_(Console!vars)
  BY DEF Next, DmaNext, BusNext, ConsoleNext, vars, consoleVars, Console!vars, Console!build
<1>3. Console!TypeOK /\ [Next]_vars => Console!TypeOK'
  BY <1>2, ConsoleStep
<1>4. DmaInv /\ BusInv /\ Console!TypeOK => TypeOK
  BY DEF DmaInv, BusInv, TypeOK
<1>5. QED
  BY <1>1, <1>3, <1>4, DmaInvariant, BusInvariant, PTL DEF Spec
=============================================================================
