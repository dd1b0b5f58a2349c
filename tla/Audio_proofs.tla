---------------------------- MODULE Audio_proofs ----------------------------
(***************************************************************************)
(* Proofs about the two directions of the audio ports, for every value of  *)
(* the constants.                                                          *)
(*                                                                         *)
(* Capture: what a reader still needs is in the buffer or counted down     *)
(* (ReadIsCovered), and a flush ends with its read (FlushHasReader).  Both *)
(* rest on Received, which says what interrupts and the worker may change, *)
(* and on ReadInv, which ties the count of a read to where its reader is.  *)
(*                                                                         *)
(* Playback: what is played is what was written, in its order              *)
(* (PlayedInOrder), and the event of a drain comes when it has been played *)
(* (DrainIsComplete).  Both follow from PlaybackInv: the slots of the DMA, *)
(* the private buffer and the zeros behind it are one stream (StreamInv),  *)
(* unless an underrun went unnoticed.                                      *)
(***************************************************************************)
EXTENDS MCAudio, Sequences, WellFoundedInduction, NaturalsInduction, TLAPS

\* What the proofs use of the constants of the capture side
LEMMA RxAssumed ==
  /\ RxRoom \in Nat /\ Watermark \in Nat /\ Burst \in Nat /\ RxPeriods \in Nat
  /\ MaxSem \in Nat /\ RxOps \in Nat
  /\ Lens \subseteq 1 .. RxRoom /\ Burst >= 1 /\ Burst <= RxRoom
  BY AudioAssumption DEF AudioAssumption, Rx!CaptureAssumption

\* A set of numbers that is not empty has a least one.
LEMMA Least ==
  ASSUME NEW T \in SUBSET Nat, T # {}
  PROVE  \E m \in T : \A k \in T : m <= k
<1>1. PICK m \in T : \A k \in T : ~(<<k, m>> \in OpToRel(<, Nat))
  BY WFMin, NatLessThanWellFounded
<1>2. \A k \in T : m <= k
  <2> TAKE k \in T
  <2>1. m \in Nat /\ k \in Nat
    OBVIOUS
  <2>2. ~(k < m)
    BY <1>1, <2>1 DEF OpToRel
  <2>3. QED
    BY <2>1, <2>2
<1>3. QED
  BY <1>2

-----------------------------------------------------------------------------
(***************************************************************************)
(* The capture side                                                        *)
(***************************************************************************)

\* The reader, between the moment it has told the driver how much it needs and
\* the one it looks at the result.
Asking == {"check", "copy", "wait", "end", "finish"}

\* What the driver counts down belongs to a read that is on; a flush is marked
\* only while something can still be cancelled, and the result that the reader
\* takes says so.  Nothing is left to be copied while no read is on.
ReadInv ==
    /\ rx.xfer > 0 => pc \in Asking
    /\ "Busy" \in hw => pc \in {"copy", "wait", "end"} /\ driver # "sai"
    /\ driver = "sai" /\ rx.flushing => rx.xfer # 0 /\ pc \in Asking
    /\ pc = "finish" /\ ret = 0 => rx.xfer <= 0 /\ ~rx.flushing
    /\ pc \in {"finish", "free", "new", "restart"} => driver = "sai"
    /\ driver # "sai" /\ rx.flushing => pc \in {"copy", "wait", "end"}
    /\ pc \in {"idle", "free", "new", "restart"} => left = 0
    /\ pc = "check" /\ driver = "spdif" => left = 0
    /\ perm => driver = "sai"

\* A read of S/PDIF is asked for no more than what it still needs.
AskedOnce ==
    driver = "spdif" =>
        /\ pc \in {"copy", "wait", "end"} => "Busy" \in hw
        /\ pc \in {"copy", "wait", "end"} /\ rx.xfer > 0 => rx.used + rx.xfer <= left

\* How far the counts of the worker have run ahead of those of the engine:
\* once the descriptor is freed, by at most dma_nr_periods for each post that
\* was left.
Lag == ahead - (IF take > 0 THEN take ELSE 0)
LagInv ==
    /\ Lag >= -((MaxSem + 1) * RxPeriods)
    /\ chan = "none" => Lag >= -((MaxSem + 1 - sem) * RxPeriods)

CaptureInv ==
    Rx!TypeOK /\ ReadInv /\ AskedOnce /\ LagInv /\ ReadIsCovered

-----------------------------------------------------------------------------
\* The record of what is received, and what of it stays when data arrives: a
\* read that is not cut short still finds what it needs, and none is asked for
\* more than before.
Buffers == [used : 0 .. RxRoom, xfer : -2 .. RxRoom, event : BOOLEAN, flushing : BOOLEAN,
            cut : BOOLEAN]
Received(r, s) ==
    /\ s \in Buffers
    /\ s.xfer > 0 => r.xfer > 0
    /\ r.xfer = 0 => s.xfer = 0
    /\ s.flushing => r.flushing
    /\ s.flushing /\ r.xfer # 0 => s.xfer # 0
    /\ left > 0 /\ ~s.cut /\ s.xfer >= 0 =>
         ~r.cut /\ r.xfer >= 0 /\ r.used + r.xfer <= s.used + s.xfer
    /\ driver = "spdif" /\ "Busy" \in hw /\ s.xfer > 0 => s.used + s.xfer <= r.used + r.xfer

\* What is received in turn is received.
LEMMA ReceivedAll ==
  ASSUME NEW r \in Buffers, NEW s, NEW t, Received(r, s), Received(s, t)
  PROVE  Received(r, t)
  BY DEF Received, Buffers

\* A burst or a period that is pushed is received: it is counted down only if it
\* is stored, and whoever is cut short is marked.
LEMMA PushReceives ==
  ASSUME NEW r \in Buffers, NEW n \in 1 .. RxRoom, perm => driver = "sai", ~r.flushing
  PROVE  Received(r, Rx!Push(r, n))
<1> DEFINE s == Rx!Stored(r, n)
           w == Rx!Written(r, n)
           x == IF r.xfer - w > 0 THEN r.xfer - w ELSE 0
<1>1. /\ s \in Buffers /\ s.xfer = r.xfer /\ ~s.flushing /\ w \in {0, n}
      /\ r.cut => s.cut
      /\ left > 0 /\ ~s.cut => s.used = r.used + w
      /\ driver = "spdif" => s.used = r.used + w
  <2>1. CASE r.used + n <= RxRoom
    <3>1. s = [r EXCEPT !.used = r.used + n] /\ w = n
      BY <2>1 DEF Rx!Stored, Rx!Written, Rx!Fits
    <3> HIDE DEF s, w
    <3>2. QED
      BY <2>1, <3>1, RxAssumed DEF Buffers
  <2>2. CASE ~(r.used + n <= RxRoom) /\ perm
    <3>1. s = [r EXCEPT !.used = n, !.cut = r.cut \/ left > 0] /\ w = n
      BY <2>2 DEF Rx!Stored, Rx!Written, Rx!Fits, Rx!Reading
    <3> HIDE DEF s, w
    <3>2. PICK c \in BOOLEAN : c = (r.cut \/ left > 0)
      OBVIOUS
    <3>3. s = [r EXCEPT !.used = n, !.cut = c]
      BY <3>1, <3>2
    <3>4. s \in Buffers /\ s.xfer = r.xfer /\ s.flushing = r.flushing /\ s.used = n /\ s.cut = c
      <4>1. n \in 0 .. RxRoom
        BY RxAssumed
      <4>2. QED
        BY <3>3, <4>1 DEF Buffers
    <3>5. (left > 0 => s.cut) /\ (r.cut => s.cut)
      BY <3>2, <3>4
    <3>6. QED
      BY <2>2, <3>1, <3>4, <3>5
  <2>3. CASE ~(r.used + n <= RxRoom) /\ ~perm
    <3>1. s = r /\ w = 0
      BY <2>3 DEF Rx!Stored, Rx!Written, Rx!Fits
    <3> HIDE DEF s, w
    <3>2. QED
      BY <3>1, RxAssumed DEF Buffers
  <2>4. QED
    BY <2>1, <2>2, <2>3
<1> HIDE DEF s, w
<1>2. CASE Rx!Counts(r)
  <2>1. /\ Rx!Push(r, n) = [s EXCEPT !.xfer = x, !.event = Rx!Push(r, n).event]
        /\ Rx!Push(r, n).event \in BOOLEAN
    BY <1>1, <1>2 DEF Rx!Push, s, w, Rx!Max0, Rx!Wakes, Buffers
  <2>2. r.xfer > 0
    BY <1>2 DEF Rx!Counts
  <2>3. x \in 0 .. RxRoom /\ x <= r.xfer /\ (x > 0 => x = r.xfer - w) /\ x + w >= r.xfer
    BY <1>1, <2>2, RxAssumed DEF Buffers
  <2> HIDE DEF x
  <2>4. PICK e \in BOOLEAN : Rx!Push(r, n) = [s EXCEPT !.xfer = x, !.event = e]
    BY <2>1
  <2> DEFINE p == [s EXCEPT !.xfer = x, !.event = e]
  <2>n. x \in -2 .. RxRoom
    BY <2>3, RxAssumed
  <2>5. /\ p \in Buffers /\ p.xfer = x /\ p.used = s.used /\ p.cut = s.cut
        /\ p.flushing = s.flushing
    BY <1>1, <2>n DEF Buffers
  <2> HIDE DEF p
  <2>6. Received(r, p)
    BY <1>1, <2>2, <2>3, <2>5 DEF Received, Buffers
  <2>7. QED
    BY <2>4, <2>6 DEF p
<1>3. CASE ~Rx!Counts(r)
  <2>1. Rx!Push(r, n) = s
    BY <1>3 DEF Rx!Push, s
  <2>2. r.xfer <= 0 \/ (driver # "sai" /\ "Busy" \notin hw)
    BY <1>3 DEF Rx!Counts, Buffers
  <2>3. QED
    BY <1>1, <2>1, <2>2, RxAssumed DEF Received, Buffers
<1>4. QED
  BY <1>2, <1>3

\* What a read cancelled by a flush, or nothing at all, changes.
LEMMA CancelReceives ==
  ASSUME NEW r \in Buffers
  PROVE  /\ Received(r, r)
         /\ r.xfer # 0 => Received(r, Rx!Cancelled(r))
         /\ r.flushing => Received(r, [r EXCEPT !.flushing = FALSE])
<1>1. Received(r, r)
  BY DEF Received, Buffers
<1>2. ASSUME r.xfer # 0 PROVE Received(r, Rx!Cancelled(r))
  <2>1. Rx!Cancelled(r) = [r EXCEPT !.xfer = -1, !.event = TRUE]
    BY DEF Rx!Cancelled, Rx!ERR_CANCELLED
  <2>2. -1 \in -2 .. RxRoom
    BY RxAssumed
  <2>3. PICK s : s = Rx!Cancelled(r)
    OBVIOUS
  <2>4. s \in Buffers /\ s.xfer = -1 /\ s.flushing = r.flushing
    BY <2>1, <2>2, <2>3 DEF Buffers
  <2>5. Received(r, s)
    BY <1>2, <2>4 DEF Received
  <2>6. QED
    BY <2>3, <2>5
<1>3. ASSUME r.flushing PROVE Received(r, [r EXCEPT !.flushing = FALSE])
  <2>1. PICK s : s = [r EXCEPT !.flushing = FALSE]
    OBVIOUS
  <2>2. s \in Buffers /\ s.xfer = r.xfer /\ s.flushing = FALSE /\ s.used = r.used /\ s.cut = r.cut
    BY <2>1 DEF Buffers
  <2>3. r.xfer \in Int /\ r.used \in Int
    BY DEF Buffers
  <2>4. Received(r, s)
    BY <2>2, <2>3 DEF Received
  <2>5. QED
    BY <2>1, <2>4
<1>4. QED
  BY <1>1, <1>2, <1>3

\* A period that has elapsed
LEMMA PeriodReceives ==
  ASSUME NEW r \in Buffers, perm => driver = "sai"
  PROVE  Received(r, Rx!Period(r))
<1>1. CASE r.flushing
  <2>1. Rx!Period(r) \in {r, Rx!Cancelled(r), [r EXCEPT !.flushing = FALSE]}
    BY <1>1 DEF Rx!Period, Rx!Discard, Rx!SaiDiscard, Rx!SpdifDiscard
  <2>2. Rx!Period(r) = Rx!Cancelled(r) => r.xfer # 0 \/ Rx!Period(r) = r
                                          \/ Rx!Period(r) = [r EXCEPT !.flushing = FALSE]
    BY <1>1 DEF Rx!Period, Rx!Discard, Rx!SaiDiscard, Rx!SpdifDiscard, Buffers
  <2>3. QED
    BY <1>1, <2>1, <2>2, CancelReceives
<1>2. CASE ~r.flushing
  <2>1. 1 \in 1 .. RxRoom
    BY RxAssumed
  <2>2. QED
    BY <1>2, <2>1, PushReceives DEF Rx!Period
<1>3. QED
  BY <1>1, <1>2

\* The function by which Periods goes through them
After(f, r, n) == f = [i \in 0 .. n |-> IF i = 0 THEN r ELSE Rx!Period(f[i - 1])]

\* The function that Periods names exists: were there a least number of periods
\* without one, the function for one period less could be extended.
LEMMA AfterExists ==
  ASSUME NEW r, NEW n \in Nat
  PROVE  \E f : After(f, r, n)
<1> DEFINE T == {m \in Nat : ~\E f : After(f, r, m)}
<1>1. SUFFICES ASSUME T # {} PROVE FALSE
  OBVIOUS
<1>2. PICK m \in T : \A k \in T : m <= k
  BY <1>1, Least
<1>3. m # 0
  <2>1. After([i \in 0 .. 0 |-> r], r, 0)
    BY DEF After
  <2>2. QED
    BY <2>1
<1>4. m \in Nat /\ m - 1 \in Nat
  BY <1>2, <1>3
<1>5. m - 1 \notin T
  BY <1>2, <1>4
<1>6. PICK f : After(f, r, m - 1)
  BY <1>4, <1>5
<1> DEFINE h == [i \in 0 .. m |-> IF i < m THEN f[i] ELSE Rx!Period(f[m - 1])]
<1>7. ASSUME NEW i \in 0 .. m PROVE h[i] = IF i = 0 THEN r ELSE Rx!Period(h[i - 1])
  BY <1>3, <1>4, <1>6 DEF After
<1>8. After(h, r, m)
  BY <1>7 DEF After
<1>9. QED
  BY <1>4, <1>8

\* The periods that the worker takes at once are received, one after the other.
LEMMA PeriodsReceive ==
  ASSUME NEW r \in Buffers, NEW n \in Nat, perm => driver = "sai"
  PROVE  Received(r, Rx!Periods(r, n))
<1> DEFINE f == CHOOSE f : After(f, r, n)
<1>1. After(f, r, n)
  BY AfterExists
<1>2. Rx!Periods(r, n) = f[n]
  BY DEF Rx!Periods, After
<1> HIDE DEF f
<1>3. f[0] = r /\ \A i \in 0 .. n : i # 0 => f[i] = Rx!Period(f[i - 1])
  BY <1>1 DEF After
<1> DEFINE T == {i \in 0 .. n : ~Received(r, f[i])}
<1>4. SUFFICES ASSUME T # {} PROVE FALSE
  BY <1>2
<1>5. PICK m \in T : \A k \in T : m <= k
  <2>1. T \in SUBSET Nat
    OBVIOUS
  <2>2. QED
    BY <1>4, <2>1, Least
<1>6. m \in 0 .. n /\ m # 0
  BY <1>3, <1>5, CancelReceives
<1>7. m - 1 \in 0 .. n /\ ~(m <= m - 1)
  BY <1>6
<1>8. Received(r, f[m - 1])
  BY <1>5, <1>7
<1>9. Received(f[m - 1], f[m])
  <2>1. f[m - 1] \in Buffers
    BY <1>8 DEF Received
  <2>2. QED
    BY <1>3, <1>6, <2>1, PeriodReceives
<1>10. Received(r, f[m])
  <2>1. f[m - 1] \in Buffers
    BY <1>8 DEF Received
  <2>2. QED
    BY <1>8, <1>9, <2>1, ReceivedAll
<1>11. QED
  BY <1>5, <1>10

-----------------------------------------------------------------------------
(***************************************************************************)
(* What has been received when a step is over, by what the step does       *)
(***************************************************************************)

\* An interrupt without DMA changes nothing else.
LEMMA FifoReceives ==
  ASSUME Rx!TypeOK, perm => driver = "sai", Rx!Fifo
  PROVE  Received(rx, rx') /\ UNCHANGED <<driver, perm, hw, chan, ahead, sem, take, pc, len, left,
                                          ret, caller, ops, thrown>>
         /\ halted' \in {"none", "overflow"}
<1>1. rx \in Buffers
  BY DEF Rx!TypeOK, Buffers, Rx!ERR_IO
<1>2. rx' = IF ~rx.flushing THEN Rx!Push(rx, Burst)
            ELSE IF rx.xfer = 0 THEN rx ELSE Rx!Cancelled(rx)
  BY DEF Rx!Fifo
<1>3. Received(rx, rx')
  <2>1. CASE ~rx.flushing
    <3>1. Burst \in 1 .. RxRoom
      BY RxAssumed
    <3>2. QED
      BY <1>1, <1>2, <2>1, <3>1, PushReceives
  <2>2. CASE rx.flushing
    BY <1>1, <1>2, <2>2, CancelReceives
  <2>3. QED
    BY <2>1, <2>2
<1>4. QED
  BY <1>3 DEF Rx!Fifo, Rx!port, Rx!dma, Rx!reader

\* Nor does the worker, apart from its own counts.
LEMMA WorkReceives ==
  ASSUME Rx!TypeOK, perm => driver = "sai", Rx!SaiWork \/ Rx!SpdifWork
  PROVE  /\ Received(rx, rx')
         /\ take >= 0 /\ take' = -1 /\ ahead' \in {ahead - take, 0}
         /\ driver = "sai" => ahead' = ahead - take
         /\ UNCHANGED <<driver, perm, hw, chan, sem, pc, len, left, ret, caller, ops, thrown>>
         /\ halted' \in {"none", "overflow", "freed"}
<1>1. rx \in Buffers /\ take \in Int
  BY DEF Rx!TypeOK, Buffers, Rx!ERR_IO
<1>2. take >= 0 /\ rx' \in {rx, Rx!Periods(rx, take)}
  BY DEF Rx!SaiWork, Rx!SpdifWork
<1>3. Received(rx, rx')
  <2>1. take \in Nat
    BY <1>1, <1>2
  <2>2. QED
    BY <1>1, <1>2, <2>1, CancelReceives, PeriodsReceive
<1>4. halted' \in {"none", "overflow", "freed"}
  BY DEF Rx!SaiWork, Rx!SpdifWork, Rx!Is, Rx!Alive
<1>5. QED
  BY <1>2, <1>3, <1>4 DEF Rx!SaiWork, Rx!SpdifWork, Rx!Is, Rx!port, Rx!reader

-----------------------------------------------------------------------------
(***************************************************************************)
(* The types                                                               *)
(***************************************************************************)
\* Every step of the capture side keeps its types.
LEMMA CaptureTypeStep ==
  ASSUME CaptureInv, [Rx!Next]_(Rx!vars)
  PROVE  Rx!TypeOK' /\ (perm => driver = "sai")'
<1> DEFINE Flags == {"Open", "Ready", "Started", "Running", "Busy", "Locked", "LockIrq"}
<1> USE DEF Rx!port, Rx!dma, Rx!reader, Rx!Is, Rx!Alive, Rx!ERR_IO
<1>0. /\ Rx!TypeOK /\ (perm => driver = "sai") /\ rx \in Buffers
      /\ rx.used \in 0 .. RxRoom /\ rx.xfer \in -2 .. RxRoom /\ left \in 0 .. RxRoom
      /\ -2 \in -2 .. RxRoom /\ 0 \in -2 .. RxRoom /\ 0 \in 0 .. RxRoom
      /\ \A n \in Lens : n \in 0 .. RxRoom /\ n \in -2 .. RxRoom
  BY RxAssumed DEF CaptureInv, ReadInv, Rx!TypeOK, Buffers
<1>c. PICK c \in BOOLEAN : c = (rx.cut \/ left > 0)
  OBVIOUS
<1>a. ASSUME NEW n \in Lens
      PROVE  \E x \in 0 .. RxRoom : Rx!Asked(n) = [rx EXCEPT !.xfer = x, !.cut = FALSE]
  <2>1. Rx!Missing(rx, n) \in 0 .. RxRoom
    BY <1>0, RxAssumed DEF Rx!Missing, Rx!Max0
  <2>2. QED
    BY <2>1 DEF Rx!Asked
<1>1. CASE UNCHANGED Rx!vars
  BY <1>0, <1>1 DEF Rx!vars, Rx!TypeOK
<1>2. CASE Rx!Interrupt
  <2>1. Rx!Fifo
    BY <1>2 DEF Rx!Interrupt, Rx!SaiIrq, Rx!PdmIrq, Rx!SpdifIrq
  <2>2. Received(rx, rx') /\ rx' \in Buffers
    BY <1>0, <2>1, FifoReceives DEF Received
  <2>3. /\ UNCHANGED <<driver, perm, hw, chan, ahead, sem, take, pc, len, left, ret, caller, ops>>
        /\ halted' \in {"none", "overflow"}
    BY <1>0, <2>1, FifoReceives
  <2>4. QED
    BY <1>0, <2>2, <2>3 DEF Rx!TypeOK, Buffers
<1>3. CASE Rx!SaiError \/ Rx!SpdifError
  <2>1. rx' \in Buffers
    BY <1>0, <1>3 DEF Rx!SaiError, Rx!SpdifError, Rx!Aborted, Buffers
  <2>2. QED
    BY <1>0, <1>3, <2>1, RxAssumed
       DEF Rx!SaiError, Rx!SpdifError, Rx!Aborted, Rx!TypeOK, Buffers
<1>4. CASE Rx!LockGain \/ Rx!LockLoss
  <2>1. CASE Rx!LockGain
    BY <1>0, <2>1, RxAssumed DEF Rx!LockGain, Rx!TypeOK
  <2>2. CASE Rx!LockLoss
    <3>1. rx' \in Buffers
      BY <1>0, <2>2 DEF Rx!LockLoss, Rx!Aborted, Buffers
    <3>2. QED
      BY <1>0, <2>2, <3>1, RxAssumed DEF Rx!LockLoss, Rx!TypeOK, Buffers
  <2>3. QED
    BY <1>4, <2>1, <2>2
<1>5. CASE Rx!DmaPeriod
  BY <1>0, <1>5, RxAssumed DEF Rx!DmaPeriod, Rx!TypeOK
<1>6. CASE Rx!WorkerTake
  BY <1>0, <1>6, RxAssumed DEF Rx!WorkerTake, Rx!TypeOK
<1>7. CASE Rx!SaiWork \/ Rx!SpdifWork
  <2>1. Received(rx, rx') /\ rx' \in Buffers
    BY <1>0, <1>7, WorkReceives DEF Received
  <2>2. ahead' \in -((MaxSem + 1) * RxPeriods) .. RxPeriods
    <3>1. ahead \in Int /\ take \in Int /\ ahead <= RxPeriods /\ take >= 0
          /\ ahead' \in {ahead - take, 0}
      BY <1>0, <1>7, WorkReceives, RxAssumed DEF Rx!TypeOK
    <3>2. ahead - take >= -((MaxSem + 1) * RxPeriods)
      <4>1. Lag = ahead - take
        BY <3>1 DEF Lag
      <4>2. QED
        BY <4>1 DEF CaptureInv, LagInv
    <3>3. (MaxSem + 1) * RxPeriods \in Nat
      BY RxAssumed
    <3>4. QED
      BY <3>1, <3>2, <3>3, RxAssumed
  <2>3. /\ UNCHANGED <<driver, perm, hw, chan, sem, pc, len, left, ret, caller, ops>>
        /\ halted' \in {"none", "overflow", "freed"} /\ take' = -1
    BY <1>0, <1>7, WorkReceives
  <2>4. -1 \in -1 .. RxPeriods
    BY RxAssumed
  <2>5. QED
    BY <1>0, <2>1, <2>2, <2>3, <2>4 DEF Rx!TypeOK, Buffers
<1>8. CASE Rx!SaiOpen \/ Rx!PdmOpen \/ Rx!SpdifOpen \/ Rx!PdmSetup \/ Rx!SpdifSetup
  BY <1>0, <1>8, RxAssumed
     DEF Rx!SaiOpen, Rx!PdmOpen, Rx!SpdifOpen, Rx!Open, Rx!PdmSetup, Rx!SpdifSetup, Rx!TypeOK
<1>9. CASE Rx!SaiSetup \/ Rx!SaiSetupEnd
  <2>1. (MaxSem + 1) * RxPeriods \in Nat
    BY RxAssumed
  <2>2. CASE Rx!SaiSetup
    <3>1. /\ hw' \in {hw, hw \cup {"Ready"}} /\ chan' \in {chan, "none"} /\ ahead' \in {ahead, 0}
          /\ caller' \in {caller, "setup"} /\ halted' \in {"none", "setup"}
          /\ UNCHANGED <<driver, perm, rx, sem, take, pc, len, left, ret>>
      BY <2>2 DEF Rx!SaiSetup, Rx!DmaFree
    <3>2. ops' \in 0 .. RxOps
      BY <1>0, <2>2, RxAssumed DEF Rx!SaiSetup, Rx!TypeOK
    <3>3. 0 \in -((MaxSem + 1) * RxPeriods) .. RxPeriods
      BY <2>1, RxAssumed
    <3>4. QED
      BY <1>0, <3>1, <3>2, <3>3 DEF Rx!TypeOK
  <2>3. CASE Rx!SaiSetupEnd
    BY <1>0, <2>1, <2>3, RxAssumed DEF Rx!SaiSetupEnd, Rx!DmaNew, Rx!TypeOK
  <2>4. QED
    BY <1>9, <2>2, <2>3
<1>10. CASE Rx!SaiStart \/ Rx!PdmStart \/ Rx!SpdifStart \/ Rx!SpdifRead \/ Rx!SaiAutostart
  <2>1. CASE Rx!SaiStart
    BY <1>0, <2>1, RxAssumed
       DEF Rx!SaiStart, Rx!Start, Rx!Started, Rx!StartHw, Rx!Resumed, Rx!TypeOK
  <2>2. CASE Rx!PdmStart
    BY <1>0, <2>2, RxAssumed
       DEF Rx!PdmStart, Rx!Start, Rx!Started, Rx!StartHw, Rx!Resumed, Rx!TypeOK
  <2>3. CASE Rx!SpdifStart
    BY <1>0, <2>3, RxAssumed
       DEF Rx!SpdifStart, Rx!Start, Rx!Started, Rx!StartHw, Rx!Resumed, Rx!TypeOK
  <2>4. CASE Rx!SpdifRead
    BY <1>0, <2>4, RxAssumed DEF Rx!SpdifRead, Rx!Started, Rx!StartHw, Rx!Resumed, Rx!TypeOK
  <2>5. CASE Rx!SaiAutostart
    BY <1>0, <2>5, RxAssumed DEF Rx!SaiAutostart, Rx!Started, Rx!StartHw, Rx!Resumed, Rx!TypeOK
  <2>6. QED
    BY <1>10, <2>1, <2>2, <2>3, <2>4, <2>5
<1>11. CASE Rx!SaiStop \/ Rx!PdmStop \/ Rx!SpdifStop \/ Rx!StopSignal
  <2>1. CASE Rx!SaiStop
    BY <1>0, <2>1, RxAssumed DEF Rx!SaiStop, Rx!Call, Rx!Halt, Rx!TypeOK
  <2>2. CASE Rx!PdmStop
    BY <1>0, <2>2, RxAssumed DEF Rx!PdmStop, Rx!Call, Rx!Halt, Rx!TypeOK
  <2>3. CASE Rx!SpdifStop
    BY <1>0, <2>3, RxAssumed DEF Rx!SpdifStop, Rx!Call, Rx!Halt, Rx!TypeOK
  <2>4. CASE Rx!StopSignal
    BY <1>0, <2>4, RxAssumed DEF Rx!StopSignal, Rx!TypeOK
  <2>5. QED
    BY <1>11, <2>1, <2>2, <2>3, <2>4
<1>12. CASE Rx!SaiFlush \/ Rx!SpdifFlush
  <2>1. rx' \in {[rx EXCEPT !.flushing = TRUE], [rx EXCEPT !.used = 0, !.cut = c]}
    BY <1>c, <1>12 DEF Rx!SaiFlush, Rx!SpdifFlush, Rx!Flushed, Rx!Emptied, Rx!Reading
  <2>2. rx' \in Buffers
    BY <1>0, <2>1 DEF Buffers
  <2>3. /\ ops' \in 0 .. RxOps
        /\ UNCHANGED <<driver, perm, hw, chan, ahead, sem, take, pc, len, left, ret, caller,
                       halted>>
    BY <1>0, <1>12, RxAssumed DEF Rx!SaiFlush, Rx!SpdifFlush, Rx!Call, Rx!TypeOK
  <2>4. QED
    BY <1>0, <2>2, <2>3 DEF Rx!TypeOK, Buffers
<1>13. CASE Rx!SaiClose
  <2>1. rx' \in {rx, [rx EXCEPT !.xfer = -2, !.event = TRUE]}
    BY <1>13 DEF Rx!SaiClose, Rx!Halt
  <2>2. rx' \in Buffers
    BY <1>0, <2>1 DEF Buffers
  <2>3. chan' \in {chan, "paused"} /\ hw' \subseteq hw
    BY <1>13 DEF Rx!SaiClose
  <2>4. QED
    BY <1>0, <1>13, <2>2, <2>3, RxAssumed DEF Rx!SaiClose, Rx!Call, Rx!TypeOK, Buffers
<1>14. CASE Rx!PdmClose \/ Rx!SpdifClose
  <2>1. CASE Rx!PdmClose
    BY <1>0, <2>1, RxAssumed DEF Rx!PdmClose, Rx!Close, Rx!Call, Rx!TypeOK
  <2>2. CASE Rx!SpdifClose
    BY <1>0, <2>2, RxAssumed DEF Rx!SpdifClose, Rx!Close, Rx!Call, Rx!TypeOK
  <2>3. QED
    BY <1>14, <2>1, <2>2
<1>15. CASE Rx!SaiRead \/ Rx!PdmRead \/ Rx!SpdifBusy
  <2>1. PICK n \in Lens : rx' = Rx!Asked(n) /\ len' = n /\ left' = n
    BY <1>15 DEF Rx!SaiRead, Rx!PdmRead, Rx!SpdifBusy
  <2>2. PICK x \in 0 .. RxRoom : rx' = [rx EXCEPT !.xfer = x, !.cut = FALSE]
    BY <1>a, <2>1
  <2>3. x \in -2 .. RxRoom
    BY RxAssumed
  <2>4. rx' \in Buffers
    BY <1>0, <2>2, <2>3 DEF Buffers
  <2>5. /\ hw' \in {hw, hw \cup {"Running"}, hw \cup {"Busy"}} /\ pc' \in {"check", "copy"}
        /\ UNCHANGED <<driver, perm, chan, ahead, sem, take, ret, caller, ops, halted>>
    BY <1>15 DEF Rx!SaiRead, Rx!PdmRead, Rx!SpdifBusy, Rx!StartHw
  <2>6. QED
    BY <1>0, <2>1, <2>4, <2>5, RxAssumed DEF Rx!TypeOK, Buffers
<1>16. CASE Rx!Copy \/ Rx!Wake \/ Rx!TimeOut \/ Rx!SaiResult \/ Rx!PdmBusy
  BY <1>0, <1>16, RxAssumed
     DEF Rx!Copy, Rx!Wake, Rx!TimeOut, Rx!SaiResult, Rx!PdmBusy, Rx!TypeOK, Buffers
<1>17. CASE Rx!SaiFinish \/ Rx!PdmEnd \/ Rx!SpdifEnd
  <2>1. \E u \in {0, rx.used}, f \in {FALSE, rx.flushing}, e \in {FALSE, rx.event} :
          rx' = [rx EXCEPT !.used = u, !.xfer = 0, !.flushing = f, !.event = e]
    BY <1>0, <1>17 DEF Rx!SaiFinish, Rx!PdmEnd, Rx!SpdifEnd, Rx!Ended, Rx!EndFlush, Buffers
  <2>2. rx' \in Buffers
    BY <1>0, <2>1 DEF Buffers
  <2>3. QED
    BY <1>0, <1>17, <2>2, RxAssumed
       DEF Rx!SaiFinish, Rx!PdmEnd, Rx!SpdifEnd, Rx!Ended, Rx!TypeOK, Buffers
<1>18. CASE Rx!SaiFree \/ Rx!SaiNew
  <2>1. (MaxSem + 1) * RxPeriods \in Nat
    BY RxAssumed
  <2>2. CASE Rx!SaiFree
    BY <1>0, <2>1, <2>2, RxAssumed DEF Rx!SaiFree, Rx!DmaFree, Rx!TypeOK
  <2>3. CASE Rx!SaiNew
    BY <1>0, <2>1, <2>3, RxAssumed DEF Rx!SaiNew, Rx!DmaNew, Rx!TypeOK
  <2>4. QED
    BY <1>18, <2>2, <2>3
<1>19. CASE Rx!SaiRestart
  <2>1. rx' \in {rx, [rx EXCEPT !.xfer = len, !.cut = FALSE]} /\ left' \in {left, len}
        /\ hw' \in {hw, hw \cup {"Running"}} /\ pc' \in {"check", "idle"}
        /\ ret' = 0 /\ UNCHANGED <<driver, perm, chan, ahead, sem, take, len, caller, ops, halted>>
    BY <1>19 DEF Rx!SaiRestart, Rx!Restarted, Rx!StartHw
  <2>2. len \in -2 .. RxRoom /\ len \in 0 .. RxRoom
    BY <1>0 DEF Rx!TypeOK
  <2>3. rx' \in Buffers
    BY <1>0, <2>1, <2>2 DEF Buffers
  <2>4. QED
    BY <1>0, <2>1, <2>2, <2>3 DEF Rx!TypeOK, Buffers
<1>20. QED
  BY <1>1, <1>2, <1>3, <1>4, <1>5, <1>6, <1>7, <1>8, <1>9, <1>10, <1>11, <1>12, <1>13, <1>14,
     <1>15, <1>16, <1>17, <1>18, <1>19
     DEF Rx!Next, Rx!Worker, Rx!Reader, Rx!SaiReader, Rx!OtherReader, Rx!Owner

-----------------------------------------------------------------------------
(***************************************************************************)
(* How far the worker is behind                                            *)
(***************************************************************************)
\* The bounds of the lag, for the posts that are left.
LEMMA LagBounds ==
  ASSUME NEW s \in 0 .. MaxSem
  PROVE  /\ (MaxSem + 1 - s) * RxPeriods \in Nat /\ (MaxSem + 1) * RxPeriods \in Nat
         /\ (MaxSem + 1 - s) * RxPeriods >= RxPeriods
         /\ (MaxSem + 1 - s) * RxPeriods <= (MaxSem + 1) * RxPeriods
         /\ s > 0 => (MaxSem + 1 - (s - 1)) * RxPeriods = (MaxSem + 1 - s) * RxPeriods + RxPeriods
<1>1. PICK d \in Nat : d = MaxSem - s
  BY RxAssumed
<1>2. (MaxSem + 1 - s) * RxPeriods = d * RxPeriods + RxPeriods
  BY <1>1, RxAssumed
<1>3. (MaxSem + 1) * RxPeriods = (MaxSem + 1 - s) * RxPeriods + s * RxPeriods
  BY RxAssumed
<1>4. d * RxPeriods \in Nat /\ s * RxPeriods \in Nat
  BY <1>1, RxAssumed
<1>5. (MaxSem + 1 - (s - 1)) * RxPeriods = (MaxSem + 1 - s) * RxPeriods + RxPeriods
  BY RxAssumed
<1>6. QED
  BY <1>2, <1>3, <1>4, <1>5, RxAssumed

\* The worker stays within the bounds of the lag.
LEMMA LagStep ==
  ASSUME CaptureInv, [Rx!Next]_(Rx!vars)
  PROVE  LagInv'
<1> USE DEF Rx!port, Rx!dma, Rx!reader, Rx!Is, Rx!Alive
<1> DEFINE most == (MaxSem + 1) * RxPeriods
           bound == (MaxSem + 1 - sem) * RxPeriods
<1>0. /\ ahead \in Int /\ take \in Int /\ sem \in 0 .. MaxSem /\ ahead <= RxPeriods
      /\ take <= RxPeriods /\ RxPeriods \in Nat
      /\ most \in Nat /\ bound \in Nat /\ bound >= RxPeriods /\ bound <= most
      /\ Lag >= -most /\ (chan = "none" => Lag >= -bound)
      /\ -most \in Int /\ -bound \in Int
  BY LagBounds, RxAssumed DEF CaptureInv, Rx!TypeOK, LagInv
<1>1. ASSUME UNCHANGED <<ahead, take>>, chan' = "none" => chan = "none" /\ sem' = sem
      PROVE  LagInv'
  BY <1>0, <1>1 DEF LagInv, Lag
<1>2. ASSUME ahead' = 0, take' = take, sem' = sem PROVE LagInv'
  <2>1. Lag' >= -RxPeriods
    BY <1>0, <1>2 DEF Lag
  <2>2. QED
    BY <1>0, <1>2, <2>1 DEF LagInv, Lag
<1>3. CASE Rx!DmaPeriod
  <2>1. chan # "none" /\ chan' = chan /\ ahead' = ahead + 1 /\ take' = take
    BY <1>3 DEF Rx!DmaPeriod
  <2>2. QED
    BY <1>0, <2>1 DEF LagInv, Lag
<1>4. CASE Rx!WorkerTake
  <2>1. /\ take = -1 /\ sem > 0 /\ sem' = sem - 1 /\ chan' = chan /\ ahead' = ahead
        /\ take' = -1 \/ (take' \in 0 .. RxPeriods /\ (chan # "none" => take' = ahead))
    BY <1>4 DEF Rx!WorkerTake
  <2>2. (MaxSem + 1 - sem') * RxPeriods = bound + RxPeriods
    BY <1>0, <2>1, LagBounds
  <2>3. Lag = ahead /\ Lag' >= ahead - RxPeriods /\ (chan # "none" => Lag' \in {ahead, 0})
    BY <1>0, <2>1 DEF Lag
  <2> HIDE DEF most, bound
  <2>4. Lag' >= -most
    <3>1. CASE chan = "none"
      <4>1. bound + RxPeriods <= most
        BY <1>0, <2>1, LagBounds, RxAssumed DEF most, bound
      <4>2. QED
        BY <1>0, <2>1, <2>3, <3>1, <4>1 DEF Lag
    <3>2. CASE chan # "none"
      BY <1>0, <2>3, <3>2
    <3>3. QED
      BY <3>1, <3>2
  <2>5. chan = "none" => Lag' >= -(bound + RxPeriods)
    BY <1>0, <2>1, <2>3 DEF Lag
  <2>6. QED
    BY <2>1, <2>2, <2>4, <2>5 DEF LagInv, most
<1>5. CASE Rx!SaiWork \/ Rx!SpdifWork
  <2>1. take >= 0 /\ take' = -1 /\ chan' = chan /\ sem' = sem
    BY <1>5, WorkReceives DEF CaptureInv, ReadInv
  <2>2. ahead' = ahead - take \/ ahead' = 0
    BY <1>5, WorkReceives DEF CaptureInv, ReadInv
  <2>3. Lag = ahead - take
    BY <1>0, <2>1 DEF Lag
  <2>4. CASE ahead' = ahead - take
    <3>1. Lag' = ahead - take
      BY <1>0, <2>1, <2>4 DEF Lag
    <3>2. QED
      BY <1>0, <2>1, <2>3, <3>1 DEF LagInv
  <2>5. CASE ahead' = 0
    <3>1. Lag' = 0
      BY <2>1, <2>5 DEF Lag
    <3>2. QED
      BY <1>0, <2>1, <3>1 DEF LagInv
  <2>6. QED
    BY <2>2, <2>4, <2>5
<1>6. CASE Rx!SaiSetup \/ Rx!SaiFree
  BY <1>1, <1>2, <1>6 DEF Rx!SaiSetup, Rx!SaiFree, Rx!DmaFree
<1>7. CASE Rx!SaiSetupEnd \/ Rx!SaiNew
  BY <1>1, <1>2, <1>7 DEF Rx!SaiSetupEnd, Rx!SaiNew, Rx!DmaNew
<1>8. CASE Rx!SpdifSetup
  BY <1>1, <1>2, <1>8 DEF Rx!SpdifSetup
<1>9. CASE UNCHANGED Rx!vars \/ Rx!Interrupt
  BY <1>1, <1>9 DEF Rx!vars, Rx!Interrupt, Rx!SaiIrq, Rx!PdmIrq, Rx!SpdifIrq, Rx!Fifo
<1>10. CASE Rx!SaiError \/ Rx!SpdifError \/ Rx!LockGain \/ Rx!LockLoss
  BY <1>1, <1>10 DEF Rx!SaiError, Rx!SpdifError, Rx!LockGain, Rx!LockLoss
<1>11. CASE \/ Rx!SaiOpen \/ Rx!PdmOpen \/ Rx!SpdifOpen \/ Rx!PdmSetup \/ Rx!SaiStart
            \/ Rx!PdmStart \/ Rx!SpdifStart
  BY <1>1, <1>11
     DEF Rx!SaiOpen, Rx!PdmOpen, Rx!SpdifOpen, Rx!Open, Rx!PdmSetup, Rx!SaiStart, Rx!PdmStart,
         Rx!SpdifStart, Rx!Start, Rx!Started, Rx!Resumed
<1>12. CASE \/ Rx!SaiStop \/ Rx!PdmStop \/ Rx!SpdifStop \/ Rx!StopSignal \/ Rx!SaiFlush
            \/ Rx!SpdifFlush \/ Rx!SaiClose \/ Rx!PdmClose \/ Rx!SpdifClose
  BY <1>1, <1>12
     DEF Rx!SaiStop, Rx!PdmStop, Rx!SpdifStop, Rx!StopSignal, Rx!SaiFlush, Rx!SpdifFlush,
         Rx!SaiClose, Rx!PdmClose, Rx!SpdifClose, Rx!Close
<1>13. CASE Rx!SaiRead \/ Rx!PdmRead \/ Rx!SpdifRead \/ Rx!Copy \/ Rx!Wake \/ Rx!OtherReader
  BY <1>1, <1>13
     DEF Rx!SaiRead, Rx!PdmRead, Rx!SpdifRead, Rx!Copy, Rx!Wake, Rx!OtherReader, Rx!PdmBusy,
         Rx!SpdifBusy, Rx!TimeOut, Rx!PdmEnd, Rx!SpdifEnd, Rx!Ended, Rx!Started, Rx!Resumed
<1>14. CASE Rx!SaiAutostart \/ Rx!SaiResult \/ Rx!SaiFinish \/ Rx!SaiRestart
  BY <1>1, <1>14
     DEF Rx!SaiAutostart, Rx!SaiResult, Rx!SaiFinish, Rx!SaiRestart, Rx!Started, Rx!Resumed
<1>15. QED
  BY <1>3, <1>4, <1>5, <1>6, <1>7, <1>8, <1>9, <1>10, <1>11, <1>12, <1>13, <1>14
     DEF Rx!Next, Rx!Worker, Rx!Owner, Rx!Reader, Rx!SaiReader

-----------------------------------------------------------------------------
(***************************************************************************)
(* What the reader relies on                                               *)
(***************************************************************************)

\* What arrives, and everything that leaves the buffer and the reader alone,
\* takes nothing from a read.
LEMMA ReceivedKeeps ==
  ASSUME CaptureInv, Received(rx, rx'), UNCHANGED <<driver, perm, pc, left, ret, thrown>>,
         "Busy" \in hw' <=> "Busy" \in hw
  PROVE  ReadInv' /\ AskedOnce' /\ ReadIsCovered'
<1>0. /\ rx \in Buffers /\ left \in Int /\ ReadInv /\ AskedOnce /\ ReadIsCovered
      /\ rx.used \in Int /\ rx.xfer \in Int /\ rx' \in Buffers
  BY RxAssumed DEF CaptureInv, Rx!TypeOK, Rx!ERR_IO, Received, Buffers
<1>1. ReadInv'
  BY <1>0, RxAssumed DEF ReadInv, Received, Asking, Buffers
<1>2. AskedOnce'
  BY <1>0, RxAssumed DEF AskedOnce, Received, Buffers
<1>3. ReadIsCovered'
  BY <1>0, RxAssumed DEF ReadIsCovered, Rx!ReadIsCovered, Rx!Reading, Received, Buffers
<1>4. QED
  BY <1>1, <1>2, <1>3

\* An error or a stop cancels the read that is on.
LEMMA CancelKeeps ==
  ASSUME CaptureInv, NEW e \in BOOLEAN, rx' = [rx EXCEPT !.xfer = -2, !.event = e],
         UNCHANGED <<driver, perm, pc, left, ret, thrown>>, "Busy" \in hw' <=> "Busy" \in hw
  PROVE  ReadInv' /\ AskedOnce' /\ ReadIsCovered'
<1>0. /\ rx \in Buffers /\ ReadInv /\ AskedOnce /\ ReadIsCovered
      /\ rx'.xfer = -2 /\ rx'.flushing = rx.flushing
  BY RxAssumed DEF CaptureInv, Rx!TypeOK, Rx!ERR_IO, Buffers
<1>1. ReadInv'
  BY <1>0, RxAssumed DEF ReadInv, Asking
<1>2. AskedOnce'
  BY <1>0, RxAssumed DEF AskedOnce
<1>3. ReadIsCovered'
  BY <1>0, RxAssumed DEF ReadIsCovered, Rx!ReadIsCovered
<1>4. QED
  BY <1>1, <1>2, <1>3

\* No step leaves a reader short of what it was promised.
LEMMA CaptureReadStep ==
  ASSUME CaptureInv, [Rx!Next]_(Rx!vars)
  PROVE  ReadInv' /\ AskedOnce' /\ ReadIsCovered'
<1> USE DEF Rx!port, Rx!dma, Rx!reader, Rx!Is, Rx!Alive, Rx!ERR_IO
<1>0. /\ rx \in Buffers /\ ReadInv /\ AskedOnce /\ ReadIsCovered
      /\ rx.used \in 0 .. RxRoom /\ rx.xfer \in -2 .. RxRoom /\ left \in 0 .. RxRoom
      /\ len \in 0 .. RxRoom /\ RxRoom \in Nat /\ \A n \in Lens : n \in 1 .. RxRoom
      /\ rx.event \in BOOLEAN /\ Rx!TypeOK /\ (perm => driver = "sai")
  BY RxAssumed DEF CaptureInv, ReadInv, Rx!TypeOK, Buffers
<1>1. Received(rx, rx)
  BY <1>0, CancelReceives
<1>2. ASSUME UNCHANGED <<rx, driver, perm, pc, left, ret, thrown>>, "Busy" \in hw' <=> "Busy" \in hw
      PROVE  ReadInv' /\ AskedOnce' /\ ReadIsCovered'
  BY <1>1, <1>2, ReceivedKeeps
<1>3. CASE UNCHANGED Rx!vars
  BY <1>2, <1>3 DEF Rx!vars
<1>4. CASE Rx!Interrupt
  <2>1. Rx!Fifo
    BY <1>4 DEF Rx!Interrupt, Rx!SaiIrq, Rx!PdmIrq, Rx!SpdifIrq
  <2>2. QED
    BY <1>0, <2>1, FifoReceives, ReceivedKeeps
<1>5. CASE Rx!SaiWork \/ Rx!SpdifWork
  BY <1>0, <1>5, WorkReceives, ReceivedKeeps
<1>6. CASE Rx!SaiError \/ Rx!SpdifError
  BY <1>6, CancelKeeps DEF Rx!SaiError, Rx!SpdifError, Rx!Aborted
<1>7. CASE Rx!SaiStop \/ Rx!PdmStop \/ Rx!SpdifStop
  <2>1. rx' = [rx EXCEPT !.xfer = -2]
    BY <1>7 DEF Rx!SaiStop, Rx!PdmStop, Rx!SpdifStop, Rx!Halt
  <2>2. rx' = [rx EXCEPT !.xfer = -2, !.event = rx.event]
    BY <1>0, <2>1 DEF Buffers
  <2>3. UNCHANGED <<driver, perm, pc, left, ret, thrown>> /\ ("Busy" \in hw' <=> "Busy" \in hw)
    BY <1>7 DEF Rx!SaiStop, Rx!PdmStop, Rx!SpdifStop
  <2>4. QED
    BY <1>0, <2>2, <2>3, CancelKeeps
<1>8. CASE Rx!StopSignal
  <2>1. rx' = [rx EXCEPT !.event = TRUE]
    BY <1>8 DEF Rx!StopSignal
  <2>3. /\ rx' \in Buffers /\ rx'.used = rx.used /\ rx'.xfer = rx.xfer
        /\ rx'.flushing = rx.flushing /\ rx'.cut = rx.cut
    BY <1>0, <2>1 DEF Buffers
  <2>4. Received(rx, rx')
    BY <1>0, <2>3 DEF Received
  <2>2. QED
    BY <1>8, <2>4, ReceivedKeeps DEF Rx!StopSignal
<1>9. CASE Rx!LockGain \/ Rx!LockLoss \/ Rx!DmaPeriod \/ Rx!WorkerTake
  <2>1. CASE Rx!LockLoss /\ rx' = Rx!Aborted
    BY <2>1, CancelKeeps DEF Rx!LockLoss, Rx!Aborted
  <2>2. CASE rx' = rx
    BY <1>2, <1>9, <2>2 DEF Rx!LockGain, Rx!LockLoss, Rx!DmaPeriod, Rx!WorkerTake
  <2>3. QED
    BY <1>9, <2>1, <2>2 DEF Rx!LockGain, Rx!LockLoss, Rx!DmaPeriod, Rx!WorkerTake
<1>10. CASE Rx!SaiSetup \/ Rx!SaiSetupEnd \/ Rx!PdmSetup \/ Rx!SpdifSetup
  BY <1>2, <1>10 DEF Rx!SaiSetup, Rx!SaiSetupEnd, Rx!PdmSetup, Rx!SpdifSetup
<1>11. CASE Rx!SaiStart \/ Rx!PdmStart \/ Rx!SpdifStart
  BY <1>2, <1>11
     DEF Rx!SaiStart, Rx!PdmStart, Rx!SpdifStart, Rx!Start, Rx!Started, Rx!StartHw
<1>12. CASE Rx!PdmClose \/ Rx!SpdifClose
  BY <1>2, <1>12 DEF Rx!PdmClose, Rx!SpdifClose, Rx!Close
<1>13. CASE Rx!SaiClose
  <2>1. /\ rx' = rx \/ rx' = [rx EXCEPT !.xfer = -2, !.event = TRUE]
        /\ UNCHANGED <<driver, perm, pc, left, ret, thrown>> /\ ("Busy" \in hw' <=> "Busy" \in hw)
    BY <1>13 DEF Rx!SaiClose, Rx!Halt
  <2>2. QED
    BY <1>0, <1>2, <2>1, CancelKeeps
<1>14. CASE Rx!SaiOpen \/ Rx!PdmOpen \/ Rx!SpdifOpen
  <2>1. /\ pc = "idle" /\ rx' = [rx EXCEPT !.used = 0]
        /\ UNCHANGED <<driver, perm, pc, left, ret, thrown>> /\ ("Busy" \in hw' <=> "Busy" \in hw)
    BY <1>14 DEF Rx!SaiOpen, Rx!PdmOpen, Rx!SpdifOpen, Rx!Open, Rx!Quiet
  <2>2. rx'.xfer = rx.xfer /\ rx'.flushing = rx.flushing
    BY <1>0, <2>1 DEF Buffers
  <2>3. QED
    BY <1>0, <2>1, <2>2 DEF ReadInv, Asking, AskedOnce, ReadIsCovered, Rx!ReadIsCovered
<1>15. CASE Rx!SaiFlush \/ Rx!SpdifFlush
  <2>0. UNCHANGED <<driver, perm, hw, pc, left, ret, thrown>>
    BY <1>15 DEF Rx!SaiFlush, Rx!SpdifFlush
  <2>1. \/ /\ rx' = [rx EXCEPT !.flushing = TRUE]
           /\ (driver = "sai" /\ rx.xfer > 0) \/ (driver = "spdif" /\ "Busy" \in hw)
        \/ /\ rx' = [rx EXCEPT !.used = 0, !.cut = rx.cut \/ left > 0]
           /\ driver = "sai" \/ "Busy" \notin hw
    BY <1>15 DEF Rx!SaiFlush, Rx!SpdifFlush, Rx!Flushed, Rx!Emptied, Rx!Reading
  <2>2. CASE /\ rx' = [rx EXCEPT !.flushing = TRUE]
             /\ (driver = "sai" /\ rx.xfer > 0) \/ (driver = "spdif" /\ "Busy" \in hw)
    <3>1. rx'.xfer = rx.xfer /\ rx'.used = rx.used /\ rx'.cut = rx.cut
      BY <1>0, <2>2 DEF Buffers
    <3>2. ReadInv'
      BY <1>0, <2>0, <2>2, <3>1 DEF ReadInv, Asking
    <3>3. AskedOnce' /\ ReadIsCovered'
      BY <1>0, <2>0, <3>1 DEF AskedOnce, ReadIsCovered, Rx!ReadIsCovered, Rx!Reading
    <3>4. QED
      BY <3>2, <3>3
  <2>3. CASE /\ rx' = [rx EXCEPT !.used = 0, !.cut = rx.cut \/ left > 0]
             /\ driver = "sai" \/ "Busy" \notin hw
    <3>1. PICK c \in BOOLEAN : c = (rx.cut \/ left > 0)
      OBVIOUS
    <3>2. rx' = [rx EXCEPT !.used = 0, !.cut = c]
      BY <2>3, <3>1
    <3>3. rx'.xfer = rx.xfer /\ rx'.flushing = rx.flushing /\ rx'.cut = c
      BY <1>0, <3>2 DEF Buffers
    <3>4. left > 0 => rx'.cut
      BY <3>1, <3>3
    <3>5. QED
      BY <1>0, <2>0, <2>3, <3>3, <3>4
         DEF ReadInv, Asking, AskedOnce, ReadIsCovered, Rx!ReadIsCovered, Rx!Reading
  <2>4. QED
    BY <2>1, <2>2, <2>3
<1>16. CASE Rx!SaiRead \/ Rx!PdmRead \/ Rx!SpdifBusy
  <2>1. PICK n \in Lens : rx' = Rx!Asked(n) /\ left' = n
    BY <1>16 DEF Rx!SaiRead, Rx!PdmRead, Rx!SpdifBusy
  <2>2. n \in 1 .. RxRoom
    BY <1>0, <2>1
  <2>3. PICK x \in 0 .. RxRoom : x = Rx!Missing(rx, n)
    BY <1>0, <2>2 DEF Rx!Missing, Rx!Max0
  <2>4. rx.used + x >= n /\ (x > 0 => rx.used + x = n)
    BY <1>0, <2>2, <2>3 DEF Rx!Missing, Rx!Max0
  <2>5. /\ rx'.xfer = x /\ rx'.used = rx.used /\ rx'.flushing = rx.flushing /\ ~rx'.cut
    BY <1>0, <2>1, <2>3 DEF Rx!Asked, Buffers
  <2>6. /\ ~rx.flushing /\ UNCHANGED <<driver, perm, ret, thrown>>
        /\ "Busy" \notin hw
        /\ driver # "spdif" => pc' = "check" /\ ("Busy" \in hw' <=> "Busy" \in hw)
        /\ driver = "spdif" => pc' = "copy" /\ "Busy" \in hw'
    BY <1>0, <1>16
       DEF Rx!SaiRead, Rx!PdmRead, Rx!SpdifBusy, Rx!MayRead, Rx!Quiet, Rx!StartHw, ReadInv, Asking
  <2>7. ReadInv'
    BY <1>0, <2>5, <2>6 DEF ReadInv, Asking
  <2>8. AskedOnce'
    BY <1>0, <2>1, <2>4, <2>5, <2>6 DEF AskedOnce
  <2>9. ReadIsCovered'
    BY <1>0, <2>1, <2>2, <2>4, <2>5, <2>6 DEF ReadIsCovered, Rx!ReadIsCovered, Rx!Reading
  <2>10. QED
    BY <2>7, <2>8, <2>9
<1>17. CASE Rx!SpdifRead
  <2>1. /\ driver = "spdif" /\ pc = "idle" /\ pc' = "check" /\ left = 0
        /\ UNCHANGED <<rx, driver, perm, left, ret, thrown>> /\ ("Busy" \in hw' <=> "Busy" \in hw)
    BY <1>0, <1>17
       DEF Rx!SpdifRead, Rx!MayRead, Rx!Quiet, Rx!Started, Rx!StartHw, ReadInv
  <2>2. QED
    BY <1>0, <2>1 DEF ReadInv, Asking, AskedOnce, ReadIsCovered, Rx!ReadIsCovered, Rx!Reading
<1>18. CASE Rx!SaiAutostart \/ Rx!PdmBusy
  <2>1. /\ driver # "spdif" /\ pc = "check" /\ pc' \in {"check", "copy"}
        /\ UNCHANGED <<rx, driver, perm, left, ret, thrown>>
        /\ "Busy" \in hw' => driver # "sai" /\ pc' = "copy"
    BY <1>0, <1>18
       DEF Rx!SaiAutostart, Rx!PdmBusy, Rx!Started, Rx!StartHw, ReadInv, Asking
  <2>2. QED
    BY <1>0, <2>1 DEF ReadInv, Asking, AskedOnce, ReadIsCovered, Rx!ReadIsCovered, Rx!Reading
<1>19. CASE Rx!Copy
  <2>1. PICK n \in 0 .. RxRoom : n <= left /\ n <= rx.used /\ left' = left - n
                                 /\ rx' = [rx EXCEPT !.used = rx.used - n]
    BY <1>0, <1>19 DEF Rx!Copy
  <2>2. /\ rx'.xfer = rx.xfer /\ rx'.used = rx.used - n /\ rx'.flushing = rx.flushing
        /\ rx'.cut = rx.cut
    BY <1>0, <2>1 DEF Buffers
  <2>3. /\ pc = "copy" /\ pc' \in {"wait", "end"}
        /\ UNCHANGED <<driver, perm, hw, ret, thrown>>
    BY <1>19 DEF Rx!Copy
  <2>4. ReadInv'
    BY <1>0, <2>2, <2>3 DEF ReadInv, Asking
  <2>5. AskedOnce'
    BY <1>0, <2>1, <2>2, <2>3 DEF AskedOnce
  <2>6. ReadIsCovered'
    BY <1>0, <2>1, <2>2, <2>3 DEF ReadIsCovered, Rx!ReadIsCovered, Rx!Reading
  <2>7. QED
    BY <2>4, <2>5, <2>6
<1>20. CASE Rx!Wake \/ Rx!TimeOut
  <2>1. /\ rx'.xfer = rx.xfer /\ rx'.used = rx.used /\ rx'.flushing = rx.flushing
        /\ rx'.cut = rx.cut /\ pc = "wait" /\ pc' \in {"copy", "end"}
        /\ UNCHANGED <<driver, perm, hw, left, ret, thrown>>
    BY <1>0, <1>20 DEF Rx!Wake, Rx!TimeOut, Buffers
  <2>2. QED
    BY <1>0, <2>1 DEF ReadInv, Asking, AskedOnce, ReadIsCovered, Rx!ReadIsCovered, Rx!Reading
<1>21. CASE Rx!SaiResult
  <2>1. /\ driver = "sai" /\ pc = "end" /\ pc' = "finish" /\ ret' = rx.xfer
        /\ UNCHANGED <<rx, driver, perm, hw, left, thrown>>
    BY <1>21 DEF Rx!SaiResult
  <2>2. QED
    BY <1>0, <2>1 DEF ReadInv, Asking, AskedOnce, ReadIsCovered, Rx!ReadIsCovered, Rx!Reading
<1>22. CASE Rx!SaiFinish
  <2>1. /\ driver = "sai" /\ pc = "finish" /\ pc' \in {"idle", "restart", "free"} /\ left' = 0
        /\ UNCHANGED <<driver, perm, hw, ret>>
    BY <1>22 DEF Rx!SaiFinish
  <2>2. rx'.xfer = 0 /\ ~rx'.flushing
    <3>1. CASE ret = 0
      <4>1. rx' = [rx EXCEPT !.xfer = 0, !.event = FALSE] /\ ~rx.flushing
        BY <1>0, <1>22, <3>1 DEF Rx!SaiFinish, ReadInv
      <4>2. QED
        BY <1>0, <4>1 DEF Buffers
    <3>2. CASE ret # 0
      <4>1. rx' = [[rx EXCEPT !.xfer = 0, !.event = FALSE] EXCEPT !.used = 0, !.flushing = FALSE]
        BY <1>22, <3>2 DEF Rx!SaiFinish, Rx!EndFlush
      <4>2. QED
        BY <1>0, <4>1 DEF Buffers
    <3>3. QED
      BY <3>1, <3>2
  <2>3. QED
    BY <1>0, <2>1, <2>2 DEF ReadInv, Asking, AskedOnce, ReadIsCovered, Rx!ReadIsCovered
<1>23. CASE Rx!SaiFree \/ Rx!SaiNew
  <2>1. /\ driver = "sai" /\ pc \in {"free", "new"} /\ pc' \in {"new", "restart"}
        /\ UNCHANGED <<rx, driver, perm, hw, left, ret, thrown>>
    BY <1>23 DEF Rx!SaiFree, Rx!SaiNew
  <2>2. QED
    BY <1>0, <2>1 DEF ReadInv, Asking, AskedOnce, ReadIsCovered, Rx!ReadIsCovered
<1>24. CASE Rx!SaiRestart
  <2>1. /\ driver = "sai" /\ pc = "restart" /\ ~rx.flushing /\ "Busy" \notin hw'
        /\ UNCHANGED <<driver, perm, thrown>>
    BY <1>0, <1>24 DEF Rx!SaiRestart, Rx!Restarted, Rx!StartHw, ReadInv, Asking
  <2>2. CASE ret < 0
    <3>1. rx' = [rx EXCEPT !.xfer = len, !.cut = FALSE] /\ left' = len /\ pc' = "check"
      BY <1>24, <2>2 DEF Rx!SaiRestart
    <3>2. rx'.xfer = len /\ rx'.used = rx.used /\ ~rx'.flushing
      BY <1>0, <2>1, <3>1 DEF Buffers
    <3>3. QED
      BY <1>0, <2>1, <3>1, <3>2
         DEF ReadInv, Asking, AskedOnce, ReadIsCovered, Rx!ReadIsCovered, Rx!Reading
  <2>3. CASE ~(ret < 0)
    <3>1. UNCHANGED <<rx, left>> /\ pc' = "idle"
      BY <1>24, <2>3 DEF Rx!SaiRestart
    <3>2. QED
      BY <1>0, <2>1, <3>1
         DEF ReadInv, Asking, AskedOnce, ReadIsCovered, Rx!ReadIsCovered
  <2>4. QED
    BY <2>2, <2>3
<1>25. CASE Rx!PdmEnd \/ Rx!SpdifEnd
  <2>1. /\ driver # "sai" /\ pc = "end" /\ pc' = "idle" /\ left' = 0 /\ "Busy" \notin hw'
        /\ UNCHANGED <<driver, perm, ret>>
    BY <1>25 DEF Rx!PdmEnd, Rx!SpdifEnd, Rx!Ended
  <2>2. rx'.xfer = 0 /\ ~rx'.flushing
    <3>1. CASE rx.xfer = 0
      <4>1. rx' = [[rx EXCEPT !.flushing = FALSE] EXCEPT !.xfer = 0]
        BY <1>25, <3>1 DEF Rx!PdmEnd, Rx!SpdifEnd, Rx!Ended
      <4>2. QED
        BY <1>0, <4>1 DEF Buffers
    <3>2. CASE rx.xfer # 0
      <4>1. rx' = [[rx EXCEPT !.used = 0, !.flushing = FALSE] EXCEPT !.xfer = 0]
        BY <1>25, <3>2 DEF Rx!PdmEnd, Rx!SpdifEnd, Rx!Ended, Rx!EndFlush
      <4>2. QED
        BY <1>0, <4>1 DEF Buffers
    <3>3. QED
      BY <3>1, <3>2
  <2>3. driver = "spdif" => ~thrown'
    <3> SUFFICES ASSUME driver = "spdif" PROVE ~thrown'
      OBVIOUS
    <3>1. rx.xfer > 0 => rx.used + rx.xfer <= left
      BY <1>0, <2>1 DEF AskedOnce
    <3>2. ~Rx!Throws(rx.xfer)
      BY <1>0, <3>1 DEF Rx!Throws
    <3>3. QED
      BY <1>0, <1>25, <3>2
         DEF Rx!PdmEnd, Rx!SpdifEnd, Rx!Ended, ReadIsCovered, Rx!ReadIsCovered
  <2>4. QED
    BY <1>0, <2>1, <2>2, <2>3 DEF ReadInv, Asking, AskedOnce, ReadIsCovered, Rx!ReadIsCovered
<1>26. QED
  BY <1>3, <1>4, <1>5, <1>6, <1>7, <1>8, <1>9, <1>10, <1>11, <1>12, <1>13, <1>14, <1>15, <1>16,
     <1>17, <1>18, <1>19, <1>20, <1>21, <1>22, <1>23, <1>24, <1>25
     DEF Rx!Next, Rx!Worker, Rx!Reader, Rx!SaiReader, Rx!OtherReader, Rx!Owner

\* The invariant holds at the start.
LEMMA CaptureInit ==
  ASSUME Rx!Init
  PROVE  CaptureInv
<1>1. Rx!TypeOK
  <2>1. (MaxSem + 1) * RxPeriods \in Nat
    BY RxAssumed
  <2>2. QED
    BY <2>1, RxAssumed DEF Rx!Init, Rx!TypeOK, Rx!ERR_IO
<1>2. ReadInv /\ AskedOnce /\ ReadIsCovered
  BY DEF Rx!Init, ReadInv, AskedOnce, ReadIsCovered, Rx!ReadIsCovered, Rx!Reading
<1>3. LagInv
  <2>1. (MaxSem + 1 - 0) * RxPeriods \in Nat /\ (MaxSem + 1) * RxPeriods \in Nat
    BY RxAssumed
  <2>2. Lag = 0 /\ sem = 0
    BY DEF Rx!Init, Lag
  <2>3. QED
    BY <2>1, <2>2 DEF LagInv
<1>4. QED
  BY <1>1, <1>2, <1>3 DEF CaptureInv

\* Every step of the capture side keeps it.
LEMMA CaptureStep ==
  ASSUME CaptureInv, [Rx!Next]_(Rx!vars)
  PROVE  CaptureInv'
  BY CaptureTypeStep, LagStep, CaptureReadStep DEF CaptureInv

\* Whatever the three receive drivers do, the invariant of the capture side
\* holds.
THEOREM CaptureInvariant == Spec => []CaptureInv
<1>1. Init => CaptureInv
  BY CaptureInit DEF Init
<1>2. CaptureInv /\ [Next]_vars => CaptureInv'
  <2> SUFFICES ASSUME CaptureInv, [Next]_vars PROVE CaptureInv'
    OBVIOUS
  <2>1. [Rx!Next]_(Rx!vars)
    BY DEF Next, TxNext, RxNext, vars, rxVars, Rx!vars, Rx!port, Rx!dma, Rx!reader
  <2>2. QED
    BY <2>1, CaptureStep
<1>3. QED
  BY <1>1, <1>2, PTL DEF Spec

\* What a reader still needs is in the buffer or still counted down, and a read
\* of S/PDIF that gets all of its data leaves the rest to the next one.
THEOREM ReadsAreCovered == Spec => []ReadIsCovered
  BY CaptureInvariant, PTL DEF CaptureInv

\* A flush of the input ends with the read that it cancels.
THEOREM FlushesHaveReader == Spec => []FlushHasReader
<1>1. CaptureInv => FlushHasReader
  BY DEF CaptureInv, ReadInv, Asking, FlushHasReader, Rx!FlushHasReader, Rx!TypeOK
<1>2. QED
  BY <1>1, CaptureInvariant, PTL

-----------------------------------------------------------------------------
(***************************************************************************)
(* The playback side                                                       *)
(***************************************************************************)

\* What the proofs use of the constants of the playback side
LEMMA TxAssumed ==
  /\ Ratio \in Nat \ {0} /\ Prefill \in Nat \ {0} /\ NrPeriods \in Nat \ {0}
  /\ Room \in Nat \ {0} /\ MaxLate \in Nat \ {0} /\ MaxPosts \in Nat /\ MaxLate <= MaxPosts
  /\ MaxUnits \in Nat /\ TxOps \in Nat
  /\ Silences \subseteq Nat /\ Modes \subseteq {"copy", "zero"}
  /\ Prefill <= NrPeriods /\ Room % NrPeriods = 0 /\ Prefill < Room
  BY AudioAssumption DEF AudioAssumption, Tx!PlaybackAssumption

\* Remainders, for the two turns of a ring that a driver sees at once
LEMMA Modulo ==
  ASSUME NEW W \in Nat \ {0}, NEW x \in Int
  PROVE  /\ x % W \in 0 .. W - 1
         /\ 0 <= x /\ x < W => x % W = x
         /\ W <= x /\ x < 2 * W => x % W = x - W
         /\ x < 0 /\ -W <= x => x % W = x + W
  OBVIOUS

-----------------------------------------------------------------------------
\* What the types rest on: a writer has tested the bound of the units, and a
\* flush counts units that were written.
TxTypes ==
    /\ Tx!TypeOK
    /\ units + want <= MaxUnits

\* A buffer of the playback side
TxBuffers == [cell : [Tx!Cells -> 0 .. MaxUnits], read : Tx!Cells, used : 0 .. Room - 1]

\* Writing and skipping, field by field
LEMMA WrittenIs ==
  ASSUME NEW b \in TxBuffers, NEW us, NEW m \in Nat, Len(us) = m,
         \A j \in 1 .. m : us[j] \in 0 .. MaxUnits
  PROVE  LET n == Tx!RoomFor(b, m) IN
         /\ n \in 0 .. m /\ n <= Room - 1 - b.used /\ (m <= Room - 1 - b.used => n = m)
         /\ Tx!Written(b, us) \in TxBuffers
         /\ Tx!Written(b, us).read = b.read /\ Tx!Written(b, us).used = b.used + n
         /\ \A i \in Tx!Cells :
              Tx!Written(b, us).cell[i] = IF Tx!Behind(b, i) < n THEN us[Tx!Behind(b, i) + 1]
                                          ELSE b.cell[i]
<1> DEFINE n == Tx!RoomFor(b, m)
           c == [i \in Tx!Cells |-> IF Tx!Behind(b, i) < n THEN us[Tx!Behind(b, i) + 1]
                                    ELSE b.cell[i]]
<1>1. /\ n \in 0 .. m /\ n <= Room - 1 - b.used /\ (m <= Room - 1 - b.used => n = m)
  BY TxAssumed DEF Tx!RoomFor, Tx!Space, TxBuffers
<1>2. Tx!Written(b, us) = [b EXCEPT !.cell = c, !.used = b.used + n]
  BY DEF Tx!Written
<1> HIDE DEF n
<1>3. c \in [Tx!Cells -> 0 .. MaxUnits]
  <2> SUFFICES ASSUME NEW i \in Tx!Cells PROVE c[i] \in 0 .. MaxUnits
    OBVIOUS
  <2>1. Tx!Behind(b, i) \in Nat
    <3>1. i - b.read - b.used \in Int
      BY TxAssumed DEF TxBuffers, Tx!Cells
    <3>2. (i - b.read - b.used) % Room \in 0 .. Room - 1
      BY <3>1, Modulo, TxAssumed
    <3>3. QED
      BY <3>2, TxAssumed DEF Tx!Behind
  <2>2. CASE Tx!Behind(b, i) < n
    <3>1. Tx!Behind(b, i) + 1 \in 1 .. m
      BY <1>1, <2>1, <2>2
    <3>2. QED
      BY <2>2, <3>1
  <2>3. CASE ~(Tx!Behind(b, i) < n)
    BY <2>3 DEF TxBuffers
  <2>4. QED
    BY <2>2, <2>3
<1>4. b.used + n \in 0 .. Room - 1
  BY <1>1, TxAssumed DEF TxBuffers
<1> HIDE DEF c
<1>5. /\ Tx!Written(b, us) \in TxBuffers /\ Tx!Written(b, us).cell = c
      /\ Tx!Written(b, us).read = b.read /\ Tx!Written(b, us).used = b.used + n
  BY <1>2, <1>3, <1>4 DEF TxBuffers
<1>6. \A i \in Tx!Cells : c[i] = IF Tx!Behind(b, i) < n THEN us[Tx!Behind(b, i) + 1]
                                 ELSE b.cell[i]
  BY DEF c
<1>7. QED
  BY <1>1, <1>5, <1>6 DEF n

\* Skipping a period moves on the reader of the buffer and touches no cell.
LEMMA SkipIs ==
  ASSUME NEW b \in TxBuffers
  PROVE  /\ Tx!Skip(b) \in TxBuffers /\ Tx!Skip(b).cell = b.cell
         /\ b.used = 0 => Tx!Skip(b) = b
         /\ b.used > 0 => /\ Tx!Skip(b).read = (b.read + 1) % Room
                          /\ Tx!Skip(b).used = b.used - 1
<1>1. CASE b.used = 0
  BY <1>1 DEF Tx!Skip
<1>2. CASE b.used # 0
  <2>1. b.read + 1 \in Int /\ b.used - 1 \in 0 .. Room - 1
    BY <1>2, TxAssumed DEF TxBuffers, Tx!Cells
  <2>2. (b.read + 1) % Room \in Tx!Cells
    BY <2>1, Modulo, TxAssumed DEF Tx!Cells
  <2>3. Tx!Skip(b) = [b EXCEPT !.read = (b.read + 1) % Room, !.used = b.used - 1]
    BY <1>2 DEF Tx!Skip
  <2>4. QED
    BY <1>2, <2>1, <2>2, <2>3 DEF TxBuffers
<1>3. QED
  BY <1>1, <1>2

\* A run of silence
LEMMA ZerosAre ==
  ASSUME NEW n \in Nat
  PROVE  Len(Tx!Zeros(n)) = n /\ \A j \in 1 .. n : Tx!Zeros(n)[j] = 0
  BY DEF Tx!Zeros

\* The period that is played, and where the worker puts the next one
LEMMA SlotsAre ==
  ASSUME Tx!TypeOK
  PROVE  /\ txBuf \in TxBuffers
         /\ Tx!Playing \in 0 .. MaxUnits
         /\ \A i \in Int : i % NrPeriods \in 0 .. NrPeriods - 1 /\ i % Room \in Tx!Cells
<1>1. \A i \in Int : i % NrPeriods \in 0 .. NrPeriods - 1 /\ i % Room \in Tx!Cells
  BY Modulo, TxAssumed DEF Tx!Cells
<1>2. txBuf \in TxBuffers
  BY DEF Tx!TypeOK, TxBuffers
<1>3. Tx!Playing \in 0 .. MaxUnits
  <2>1. played \in Int
    BY TxAssumed DEF Tx!TypeOK, Tx!Cells
  <2>2. played % NrPeriods \in 0 .. NrPeriods - 1
    BY <1>1, <2>1
  <2>3. QED
    BY <2>2 DEF Tx!Playing, Tx!TypeOK
<1>4. QED
  BY <1>1, <1>2, <1>3

\* What a write adds to the buffer
LEMMA CopyTypes ==
  ASSUME TxTypes, Tx!TxCopy
  PROVE  \E n \in 0 .. want : \E us :
           /\ n <= Room - 1 - txBuf.used /\ (n < want => n = Room - 1 - txBuf.used)
           /\ Len(us) = n /\ (\A j \in 1 .. n : us[j] = units + j)
           /\ txBuf' = Tx!Written(txBuf, us) /\ txBuf' \in TxBuffers
           /\ txBuf'.used = txBuf.used + n /\ txBuf'.read = txBuf.read
           /\ Tx!RoomFor(txBuf, n) = n
           /\ units' = units + n /\ units' \in 0 .. MaxUnits
           /\ want' \in {0, want - n} /\ want' \in 0 .. Ratio /\ units' + want' <= MaxUnits
<1>1. /\ txBuf \in TxBuffers /\ want \in Nat /\ units \in Nat /\ units + want <= MaxUnits
      /\ want \in 0 .. Ratio
  BY SlotsAre DEF TxTypes, Tx!TypeOK
<1>2. PICK n \in 0 .. want : /\ n = Tx!RoomFor(txBuf, want) /\ n <= Room - 1 - txBuf.used
                             /\ (n < want => n = Room - 1 - txBuf.used)
                             /\ Tx!RoomFor(txBuf, n) = n
  BY <1>1, TxAssumed DEF Tx!RoomFor, Tx!Space, TxBuffers
<1>3. PICK us : us = [i \in 1 .. n |-> units + i]
  OBVIOUS
<1>4. Len(us) = n /\ \A j \in 1 .. n : us[j] = units + j /\ us[j] \in 0 .. MaxUnits
  BY <1>1, <1>2, <1>3, TxAssumed
<1>5. /\ txBuf' = Tx!Written(txBuf, us) /\ units' = units + n
      /\ want' \in {0, want - n}
  BY <1>2, <1>3 DEF Tx!TxCopy
<1>6. /\ txBuf' \in TxBuffers /\ txBuf'.used = txBuf.used + n /\ txBuf'.read = txBuf.read
  <2>1. n \in Nat
    BY <1>2
  <2>2. QED
    BY <1>1, <1>2, <1>4, <1>5, <2>1, WrittenIs
<1>7. want' \in 0 .. Ratio /\ units' \in 0 .. MaxUnits /\ units' + want' <= MaxUnits
  BY <1>1, <1>2, <1>5, TxAssumed
<1>8. QED
  BY <1>2, <1>4, <1>5, <1>6, <1>7

\* What the ending zeros, and those of the permissive driver, add to it
LEMMA ZerosTyped ==
  ASSUME NEW b \in TxBuffers, NEW n \in Nat
  PROVE  Tx!Written(Tx!Skip(b), Tx!Zeros(n)) \in TxBuffers
<1>1. /\ Tx!Skip(b) \in TxBuffers /\ Len(Tx!Zeros(n)) = n
      /\ \A j \in 1 .. n : Tx!Zeros(n)[j] \in 0 .. MaxUnits
  BY SkipIs, ZerosAre, TxAssumed
<1>2. QED
  BY <1>1, WrittenIs

\* Every step of the playback side keeps its types.
LEMMA TxTypeStep ==
  ASSUME TxTypes, [Tx!Next]_(Tx!vars)
  PROVE  TxTypes'
<1> USE DEF Tx!port, Tx!writer, Tx!ring, Tx!history, Tx!Live
<1>i. /\ calls \in 0 .. TxOps /\ TxOps \in Nat /\ due \in 0 .. MaxUnits /\ heard \in 0 .. MaxUnits
      /\ units \in 0 .. MaxUnits /\ MaxUnits \in Nat /\ want \in 0 .. Ratio /\ Ratio \in Nat
      /\ missed \in 0 .. MaxUnits
  BY TxAssumed DEF TxTypes, Tx!TypeOK
<1>c. Tx!Cells \subseteq 0 .. Room /\ 0 \in Tx!Cells
  BY TxAssumed DEF Tx!Cells
<1>0. /\ Tx!TypeOK /\ units + want <= MaxUnits /\ txBuf \in TxBuffers
      /\ Tx!Playing \in 0 .. MaxUnits
      /\ txBuf.cell[txBuf.read] \in 0 .. MaxUnits
      /\ \A i \in Int : i % NrPeriods \in 0 .. NrPeriods - 1 /\ i % Room \in Tx!Cells
      /\ 0 \in 0 .. MaxUnits /\ Tx!Cells \subseteq 0 .. Room /\ 0 \in Tx!Cells
  <2>1. /\ Tx!TypeOK /\ units + want <= MaxUnits /\ txBuf \in TxBuffers
        /\ Tx!Playing \in 0 .. MaxUnits
        /\ \A i \in Int : i % NrPeriods \in 0 .. NrPeriods - 1 /\ i % Room \in Tx!Cells
    BY SlotsAre DEF TxTypes
  <2>2. txBuf.cell[txBuf.read] \in 0 .. MaxUnits
    BY <2>1 DEF TxBuffers
  <2>3. QED
    BY <1>i, <1>c, <2>1, <2>2
<1>1. CASE UNCHANGED Tx!vars
  BY <1>0, <1>1 DEF Tx!vars, TxTypes, Tx!TypeOK
<1>2. CASE Tx!TxPeriod
  <2>1. played + 1 \in Int
    BY <1>0, TxAssumed DEF Tx!TypeOK, Tx!Cells
  <2>2. played' \in Tx!Cells
    BY <1>0, <1>2, <2>1 DEF Tx!TxPeriod
  <2>3. heard' \in 0 .. MaxUnits /\ txSem' \in 0 .. MaxPosts /\ spoilt' \in BOOLEAN
    <3>1. heard' \in 0 .. MaxUnits
      BY <1>0, <1>2 DEF Tx!TxPeriod, Tx!TypeOK
    <3>2. txSem' \in 0 .. MaxPosts
      BY <1>0, <1>2, TxAssumed DEF Tx!TxPeriod, Tx!TypeOK
    <3>3. spoilt' \in BOOLEAN
      BY <1>0, <1>2 DEF Tx!TxPeriod, Tx!TypeOK
    <3>4. QED
      BY <3>1, <3>2, <3>3
  <2>4. UNCHANGED <<mode, txPerm, silence, txHw, txBuf, slot, txChan, elapsed, asleep, flushed, want,
                    units, closing, calls, excess, underrun, drain, due, missed, txHalted>>
    BY <1>2 DEF Tx!TxPeriod
  <2>5. QED
    BY <1>0, <2>2, <2>3, <2>4 DEF TxTypes, Tx!TypeOK
<1>3. CASE Tx!FifoEmpty \/ Tx!FifoStall
  <2>1. \E how \in {"flush", "stall"} : Tx!Drained(how)
    BY <1>3 DEF Tx!FifoEmpty, Tx!FifoStall
  <2>2. missed' \in 0 .. MaxUnits
    BY <1>i, <2>1 DEF Tx!Drained
  <2>3. drain' \in {"none", "flush", "stall", "drop"} /\ txHw' \subseteq txHw
    BY <1>0, <2>1 DEF Tx!Drained, Tx!TypeOK
  <2>4. calls' \in 0 .. TxOps
    BY <1>i, <1>3 DEF Tx!FifoEmpty, Tx!FifoStall
  <2>5. UNCHANGED <<mode, txPerm, silence, txBuf, slot, txChan, played, elapsed, txSem, asleep, flushed,
                    want, units, closing, heard, spoilt, excess, underrun, due, txHalted>>
    BY <2>1 DEF Tx!Drained
  <2>6. QED
    BY <1>0, <2>2, <2>3, <2>4, <2>5 DEF TxTypes, Tx!TypeOK
<1>4. CASE Tx!Worker
  <2>1. Tx!Woken
    BY <1>4 DEF Tx!Worker, Tx!TxDiscard, Tx!PopPeriod, Tx!PopEndingZeros, Tx!PopStopRequests,
                Tx!PopInject, Tx!PopAssert, Tx!PopSleep, Tx!Pops, Tx!Pop
  <2>2. txSem' \in 0 .. MaxPosts
    BY <1>0, <2>1, TxAssumed DEF Tx!Woken, Tx!TypeOK
  <2>3. elapsed' \in 0 .. Room
    <3>1. elapsed + 1 \in Int
      BY <1>0, TxAssumed DEF Tx!TypeOK
    <3>2. elapsed' \in {elapsed, (elapsed + 1) % Room}
      BY <1>4 DEF Tx!Worker, Tx!TxDiscard, Tx!PopPeriod, Tx!PopEndingZeros, Tx!PopStopRequests,
                  Tx!PopInject, Tx!PopAssert, Tx!PopSleep, Tx!Pops, Tx!Pop
    <3>3. elapsed \in 0 .. Room /\ (elapsed + 1) % Room \in 0 .. Room
      BY <1>0, <3>1 DEF Tx!TypeOK
    <3>4. QED
      BY <3>2, <3>3
  <2>4. slot' \in [0 .. NrPeriods - 1 -> 0 .. MaxUnits]
    <3>1. elapsed % NrPeriods \in 0 .. NrPeriods - 1
      <4>1. elapsed \in Int
        BY <1>0, TxAssumed DEF Tx!TypeOK
      <4>2. QED
        BY <1>0, <4>1
    <3>2. \E u \in 0 .. MaxUnits : slot' \in {slot, [slot EXCEPT ![elapsed % NrPeriods] = u]}
      BY <1>0, <1>4
         DEF Tx!Worker, Tx!TxDiscard, Tx!PopPeriod, Tx!PopEndingZeros, Tx!PopStopRequests,
             Tx!PopInject, Tx!PopAssert, Tx!PopSleep, Tx!Read, Tx!Into
    <3>3. QED
      BY <1>0, <3>1, <3>2 DEF Tx!TypeOK
  <2>5. txBuf' \in TxBuffers
    <3>1. Tx!Skip(txBuf) \in TxBuffers
      BY <1>0, SkipIs
    <3>2. silence * Ratio \in Nat /\ Ratio \in Nat
      BY <1>0, TxAssumed DEF Tx!TypeOK
    <3>3. CASE Tx!PopEndingZeros
      BY <1>0, <3>2, <3>3, ZerosTyped DEF Tx!PopEndingZeros
    <3>4. CASE Tx!PopInject
      <4>1. PICK b \in TxBuffers : b = Tx!Written(Tx!Skip(txBuf), Tx!Zeros(Ratio))
        BY <1>0, <3>2, ZerosTyped
      <4>2. Tx!Skip(b) \in TxBuffers
        BY SkipIs
      <4>3. txBuf' \in {txBuf, b, Tx!Skip(b)}
        BY <3>4, <4>1 DEF Tx!PopInject
      <4>4. QED
        BY <1>0, <4>2, <4>3
    <3>5. CASE Tx!TxDiscard \/ Tx!PopPeriod \/ Tx!PopStopRequests \/ Tx!PopAssert \/ Tx!PopSleep
      BY <1>0, <3>1, <3>5 DEF Tx!TxDiscard, Tx!PopPeriod, Tx!PopStopRequests, Tx!PopAssert, Tx!PopSleep
    <3>6. QED
      BY <1>4, <3>3, <3>4, <3>5 DEF Tx!Worker
  <2>6. /\ txHw' \subseteq txHw /\ txChan' \in {txChan, "paused"} /\ flushed' \in BOOLEAN
        /\ {underrun', asleep'} \subseteq BOOLEAN /\ txHalted' \in {"none", "no_channel"}
    <3>1. txHw' \subseteq txHw /\ txChan' \in {txChan, "paused"}
      BY <1>4 DEF Tx!Worker, Tx!TxDiscard, Tx!PopPeriod, Tx!PopEndingZeros, Tx!PopStopRequests,
                  Tx!PopInject, Tx!PopAssert, Tx!PopSleep, Tx!Pop
    <3>2. flushed' \in BOOLEAN
      BY <1>0, <1>4
         DEF Tx!Worker, Tx!TxDiscard, Tx!PopPeriod, Tx!PopEndingZeros, Tx!PopStopRequests,
             Tx!PopInject, Tx!PopAssert, Tx!PopSleep, Tx!ZerosWritten, Tx!TypeOK
    <3>3. {underrun', asleep'} \subseteq BOOLEAN
      BY <1>0, <1>4
         DEF Tx!Worker, Tx!TxDiscard, Tx!PopPeriod, Tx!PopEndingZeros, Tx!PopStopRequests,
             Tx!PopInject, Tx!PopAssert, Tx!PopSleep, Tx!Pop, Tx!TypeOK
    <3>4. txHalted' \in {"none", "no_channel"}
      BY <1>0, <1>4, <2>1
         DEF Tx!Worker, Tx!TxDiscard, Tx!PopPeriod, Tx!PopEndingZeros, Tx!PopStopRequests,
             Tx!PopInject, Tx!PopAssert, Tx!PopSleep, Tx!Woken, Tx!Pops, Tx!Pop
    <3>5. QED
      BY <3>1, <3>2, <3>3, <3>4
  <2>7. UNCHANGED <<mode, txPerm, silence, played, want, units, closing, calls, heard, spoilt,
                    excess, drain, due, missed>>
    BY <2>1 DEF Tx!Woken
  <2>8. QED
    BY <1>0, <2>2, <2>3, <2>4, <2>5, <2>6, <2>7 DEF TxTypes, Tx!TypeOK, TxBuffers
<1>5. CASE Tx!TxOpen
  <2>1. Tx!Cleared \in TxBuffers
    BY <1>0, TxAssumed DEF Tx!Cleared, TxBuffers
  <2>2. QED
    BY <1>0, <1>5, <2>1 DEF Tx!TxOpen, TxTypes, Tx!TypeOK, TxBuffers
<1>6. CASE Tx!TxSetup
  <2>1. PICK u \in {0, Prefill} : txBuf' = [txBuf EXCEPT !.read = 0, !.used = u]
    BY <1>6 DEF Tx!TxSetup
  <2>2. u \in 0 .. Room - 1 /\ Prefill \in 0 .. Room
    BY TxAssumed
  <2>3. txBuf' \in TxBuffers
    BY <1>0, <2>1, <2>2 DEF TxBuffers
  <2>4. slot' \in [0 .. NrPeriods - 1 -> 0 .. MaxUnits]
    BY <1>0, <1>6 DEF Tx!TxSetup, Tx!NoSlots, Tx!TypeOK
  <2>5. calls' \in 0 .. TxOps
    BY <1>i, <1>6 DEF Tx!TxSetup, Tx!Call
  <2>6. /\ txHw' = txHw \cup {"Prepared"} /\ txChan' = "paused" /\ played' = 0
        /\ elapsed' = Prefill /\ heard' = units /\ excess' = txSem
        /\ spoilt' = FALSE /\ underrun' = asleep
        /\ UNCHANGED <<mode, txPerm, silence, txSem, asleep, flushed, want, units, closing, drain,
                       due, missed, txHalted>>
    BY <1>6 DEF Tx!TxSetup
  <2>7. QED
    BY <1>0, <2>2, <2>3, <2>4, <2>5, <2>6 DEF TxTypes, Tx!TypeOK, TxBuffers
<1>7. CASE Tx!TxStart
  <2>1. /\ txHw' \subseteq txHw \cup {"Started", "Request", "Error"} /\ txChan' \in {txChan, "run"}
        /\ txHalted' \in {"none", "flushing"} /\ drain' = "none"
        /\ UNCHANGED <<mode, txPerm, silence, txBuf, slot, played, elapsed, txSem, asleep, want, units,
                       closing, calls, heard, spoilt, excess, underrun, due, missed>>
    BY <1>7 DEF Tx!TxStart
  <2>2. flushed' \in BOOLEAN
    BY <1>7 DEF Tx!TxStart, Tx!NoEndingZeros
  <2>3. QED
    BY <1>0, <2>1, <2>2 DEF TxTypes, Tx!TypeOK
<1>8. CASE Tx!TxStop \/ Tx!TxClose
  <2>1. calls' \in 0 .. TxOps
    BY <1>i, <1>8 DEF Tx!TxStop, Tx!TxClose, Tx!Call
  <2>2. /\ txHw' \subseteq txHw /\ txChan' \in {txChan, "none"}
        /\ closing' \in {closing, "stop", "close"}
        /\ UNCHANGED <<mode, txPerm, silence, txBuf, slot, played, elapsed, txSem, asleep, flushed, want,
                       units, heard, spoilt, excess, underrun, drain, due, missed, txHalted>>
    BY <1>8 DEF Tx!TxStop, Tx!TxClose, Tx!Stopped
  <2>3. /\ txChan' \in {"none", "paused", "run"} /\ closing' \in {"none", "stop", "close"}
        /\ txHw' \subseteq {"Opened", "Prepared", "Started", "Flushing", "Request", "Error"}
    BY <1>0, <2>2 DEF Tx!TypeOK
  <2>4. QED
    BY <1>0, <2>1, <2>2, <2>3 DEF TxTypes, Tx!TypeOK
<1>9. CASE Tx!TxReset
  <2>1. Tx!Cleared \in TxBuffers
    BY <1>0, TxAssumed DEF Tx!Cleared, TxBuffers
  <2>2. slot' \in [0 .. NrPeriods - 1 -> 0 .. MaxUnits]
    BY <1>0, <1>9 DEF Tx!TxReset, Tx!NoSlots, Tx!TypeOK
  <2>3. /\ txBuf' = Tx!Cleared /\ heard' = units /\ txHw' \subseteq txHw /\ closing' = "none"
        /\ drain' = "none"
        /\ UNCHANGED <<mode, txPerm, silence, txChan, played, elapsed, txSem, asleep, flushed, want,
                       units, calls, spoilt, excess, underrun, due, missed, txHalted>>
    BY <1>9 DEF Tx!TxReset
  <2>4. QED
    BY <1>0, <2>1, <2>2, <2>3 DEF TxTypes, Tx!TypeOK, TxBuffers
<1>10. CASE Tx!TxFlush
  <2>1. calls' \in 0 .. TxOps
    BY <1>i, <1>10 DEF Tx!TxFlush, Tx!Call
  <2>2. /\ txHw' \subseteq txHw \cup {"Flushing"} /\ due' \in {due, units}
        /\ UNCHANGED <<mode, txPerm, silence, txBuf, slot, txChan, played, elapsed, txSem, asleep, flushed,
                       want, units, closing, heard, spoilt, excess, underrun, drain, missed,
                       txHalted>>
    BY <1>10 DEF Tx!TxFlush
  <2>3. QED
    BY <1>0, <2>1, <2>2 DEF TxTypes, Tx!TypeOK
<1>11. CASE Tx!TxDrop
  <2>1. calls' \in 0 .. TxOps
    BY <1>i, <1>11 DEF Tx!TxDrop, Tx!Call
  <2>2. txBuf' = [txBuf EXCEPT !.used = 0] /\ 0 \in 0 .. Room - 1
    BY <1>11, TxAssumed DEF Tx!TxDrop
  <2>3. txBuf' \in TxBuffers
    BY <1>0, <2>2 DEF TxBuffers
  <2>4. /\ txHw' \subseteq txHw \cup {"Flushing"} /\ drain' = "drop"
        /\ UNCHANGED <<mode, txPerm, silence, slot, txChan, played, elapsed, txSem, asleep, flushed, want,
                       units, closing, heard, spoilt, excess, underrun, due, missed, txHalted>>
    BY <1>11 DEF Tx!TxDrop
  <2>5. QED
    BY <1>0, <2>1, <2>3, <2>4 DEF TxTypes, Tx!TypeOK, TxBuffers
<1>12. CASE Tx!TxWrite
  <2>1. PICK n \in 1 .. Ratio : units + n <= MaxUnits /\ want' \in {0, n}
    BY <1>12 DEF Tx!TxWrite
  <2>2. want' \in 0 .. Ratio /\ units + want' <= MaxUnits
    <3>1. CASE want' = 0
      BY <1>i, <3>1
    <3>2. CASE want' = n
      BY <1>i, <2>1, <3>2
    <3>3. QED
      BY <2>1, <3>1, <3>2
  <2>3. UNCHANGED <<mode, txPerm, silence, txHw, txBuf, slot, txChan, played, elapsed, txSem, asleep,
                    flushed, units, closing, calls, heard, spoilt, excess, underrun, drain, due,
                    missed, txHalted>>
    BY <1>12 DEF Tx!TxWrite
  <2>4. QED
    BY <1>0, <2>2, <2>3 DEF TxTypes, Tx!TypeOK
<1>13. CASE Tx!TxCopy
  <2>1. /\ txBuf' \in TxBuffers /\ units' \in 0 .. MaxUnits /\ want' \in 0 .. Ratio
        /\ units' + want' <= MaxUnits
    BY <1>13, CopyTypes
  <2>2. UNCHANGED <<mode, txPerm, silence, txHw, slot, txChan, played, elapsed, txSem, asleep, flushed,
                    closing, calls, heard, spoilt, excess, underrun, drain, due, missed, txHalted>>
    BY <1>13 DEF Tx!TxCopy
  <2>3. QED
    BY <1>0, <2>1, <2>2 DEF TxTypes, Tx!TypeOK, TxBuffers
<1>14. CASE Tx!PopResume
  <2>1. elapsed + 1 \in Int
    BY <1>0, TxAssumed DEF Tx!TypeOK
  <2>2. elapsed' \in 0 .. Room
    BY <1>0, <1>14, <2>1 DEF Tx!PopResume
  <2>3. /\ asleep' = FALSE
        /\ UNCHANGED <<mode, txPerm, silence, txHw, txBuf, slot, txChan, played, txSem, flushed,
                       want, units, closing, calls, heard, spoilt, excess, underrun, drain, due,
                       missed, txHalted>>
    BY <1>14 DEF Tx!PopResume
  <2>4. QED
    BY <1>0, <2>2, <2>3 DEF TxTypes, Tx!TypeOK
<1>15. QED
  BY <1>1, <1>2, <1>3, <1>4, <1>5, <1>6, <1>7, <1>8, <1>9, <1>10, <1>11, <1>12, <1>13, <1>14
     DEF Tx!Next

\* They hold at the start.
LEMMA TxTypeInit ==
  ASSUME Tx!Init
  PROVE  TxTypes
<1>1. Tx!Cleared \in TxBuffers /\ Tx!NoSlots \in [0 .. NrPeriods - 1 -> 0 .. MaxUnits]
  BY TxAssumed DEF Tx!Cleared, Tx!NoSlots, TxBuffers, Tx!Cells
<1>2. /\ 0 \in 0 .. MaxUnits /\ 0 \in 0 .. Room /\ 0 \in 0 .. MaxPosts /\ 0 \in 0 .. TxOps
      /\ 0 \in Tx!Cells /\ 0 \in 0 .. Ratio /\ 0 + 0 <= MaxUnits
  BY TxAssumed DEF Tx!Cells
<1>3. mode \in {"copy", "zero"}
  BY TxAssumed DEF Tx!Init
<1>4. QED
  BY <1>1, <1>2, <1>3 DEF Tx!Init, TxTypes, Tx!TypeOK, TxBuffers

\* The variables of both directions have their types, for every size of the
\* buffers, of the prefill and of the bounds.
THEOREM AudioTypes == Spec => []TypeOK
<1>1. Init => CaptureInv /\ TxTypes
  BY CaptureInit, TxTypeInit DEF Init
<1>2. CaptureInv /\ TxTypes /\ [Next]_vars => (CaptureInv /\ TxTypes)'
  <2> SUFFICES ASSUME CaptureInv, TxTypes, [Next]_vars PROVE (CaptureInv /\ TxTypes)'
    OBVIOUS
  <2>1. [Rx!Next]_(Rx!vars)
    BY DEF Next, TxNext, RxNext, vars, rxVars, Rx!vars, Rx!port, Rx!dma, Rx!reader
  <2>2. [Tx!Next]_(Tx!vars)
    BY DEF Next, TxNext, RxNext, vars, txVars, Tx!vars, Tx!port, Tx!ring, Tx!writer, Tx!history
  <2>3. QED
    BY <2>1, <2>2, CaptureStep, TxTypeStep
<1>3. CaptureInv /\ TxTypes => TypeOK
  BY DEF CaptureInv, TxTypes, TypeOK
<1>4. QED
  BY <1>1, <1>2, <1>3, PTL DEF Spec

-----------------------------------------------------------------------------
(***************************************************************************)
(* Places in a ring                                                        *)
(***************************************************************************)
\* A remainder, and what is taken away
LEMMA Remainder ==
  ASSUME NEW W \in Nat \ {0}, NEW x \in Int
  PROVE  \E q \in Int : x = W * q + (x % W) /\ x % W \in 0 .. W - 1
<1>1. x \div W \in Int
  OBVIOUS
<1>2. x = W * (x \div W) + (x % W)
  <2>1. W \in Int /\ W > 0
    OBVIOUS
  <2>2. PICK q \in Int, r \in Int : q = x \div W /\ r = x % W
    BY <1>1
  <2>3. x = W * q + r
    BY <2>1, <2>2
  <2>4. QED
    BY <2>2, <2>3
<1>3. x % W \in 0 .. W - 1
  OBVIOUS
<1>4. QED
  BY <1>1, <1>2, <1>3

\* There is only one.
LEMMA RemainderUnique ==
  ASSUME NEW W \in Nat \ {0}, NEW q \in Int, NEW r \in 0 .. W - 1
  PROVE  (W * q + r) % W = r
<1>0. W \in Int /\ q \in Int /\ W * q \in Int /\ r \in Int
  OBVIOUS
<1>1. PICK x \in Int : x = W * q + r
  BY <1>0
<1>2. PICK p \in Int : x = W * p + (x % W) /\ x % W \in 0 .. W - 1
  BY Remainder
<1>3. PICK d \in Int : d = q - p
  OBVIOUS
<1>4. W * d = (x % W) - r
  <2>1. W * d = W * q - W * p
    BY <1>3
  <2>2. W * q + r = W * p + (x % W)
    BY <1>1, <1>2
  <2>3. PICK a \in Int, b \in Int, s \in Int : a = W * q /\ b = W * p /\ s = x % W
    BY <1>0, <1>2
  <2>4. a + r = b + s /\ W * d = a - b
    BY <2>1, <2>2, <2>3
  <2>5. W * d = s - r
    <3>1. a - b = s - r
      BY <1>0, <2>4
    <3>2. QED
      BY <2>4, <3>1
  <2>6. QED
    BY <2>3, <2>5
<1>5. d < 1
  <2>1. d >= 1 => W * d >= W
    OBVIOUS
  <2>2. QED
    BY <1>2, <1>4, <2>1
<1>6. d > -1
  <2>1. d <= -1 => W * d <= -W
    <3>1. PICK k \in Int : k = -d
      OBVIOUS
    <3>2. W * d = -(W * k) /\ (k >= 1 => W * k >= W)
      BY <3>1
    <3>3. QED
      BY <3>1, <3>2
  <2>2. QED
    BY <1>2, <1>4, <2>1
<1>7. d = 0 /\ W * 0 = 0
  BY <1>5, <1>6
<1>8. QED
  BY <1>1, <1>2, <1>4, <1>7

\* Whole turns of a ring make no difference,
LEMMA RemainderShift ==
  ASSUME NEW W \in Nat \ {0}, NEW x \in Int, NEW q \in Int
  PROVE  (x + W * q) % W = x % W
<1>1. PICK p \in Int : x = W * p + (x % W) /\ x % W \in 0 .. W - 1
  BY Remainder
<1>2. PICK r \in 0 .. W - 1 : r = x % W
  BY <1>1
<1>3. x + W * q = W * (p + q) + r
  BY <1>1, <1>2
<1>4. p + q \in Int
  OBVIOUS
<1>5. QED
  BY <1>2, <1>3, <1>4, RemainderUnique

\* nor does it matter when they are taken away.
LEMMA RemainderPlus ==
  ASSUME NEW W \in Nat \ {0}, NEW x \in Int, NEW y \in Int
  PROVE  ((x % W) + y) % W = (x + y) % W
<1>1. PICK p \in Int : x = W * p + (x % W) /\ x % W \in 0 .. W - 1
  BY Remainder
<1>2. PICK z \in Int : z = (x % W) + y
  BY <1>1
<1>3. x + y = z + W * p
  BY <1>1, <1>2
<1>4. QED
  BY <1>2, <1>3, RemainderShift

\* Two places less than a turn apart are different.
LEMMA RemainderSame ==
  ASSUME NEW W \in Nat \ {0}, NEW x \in Int, NEW y \in Int, x % W = y % W, x - y < W, y - x < W
  PROVE  x = y
<1>1. PICK p \in Int : x = W * p + (x % W) /\ x % W \in 0 .. W - 1
  BY Remainder
<1>2. PICK q \in Int : y = W * q + (y % W)
  BY Remainder
<1>3. PICK d \in Int : d = p - q
  OBVIOUS
<1>4. W * d = x - y
  <2>1. W * d = W * p - W * q
    BY <1>3
  <2>2. QED
    BY <1>1, <1>2, <2>1
<1>5. d < 1 /\ d > -1
  <2>1. d >= 1 => W * d >= W
    OBVIOUS
  <2>2. d <= -1 => W * d <= -W
    <3>1. PICK k \in Int : k = -d
      OBVIOUS
    <3>2. W * d = -(W * k) /\ (k >= 1 => W * k >= W)
      BY <3>1
    <3>3. QED
      BY <3>1, <3>2
  <2>3. QED
    BY <1>4, <2>1, <2>2
<1>6. W * d = 0
  BY <1>5
<1>7. QED
  BY <1>4, <1>6

\* A ring that goes into another a whole number of times
LEMMA RemainderNested ==
  ASSUME NEW W \in Nat \ {0}, NEW N \in Nat \ {0}, W % N = 0, NEW x \in Int
  PROVE  (x % W) % N = x % N
<1>1. PICK m \in Int : W = N * m + (W % N)
  <2>1. W \in Int
    OBVIOUS
  <2>2. QED
    BY <2>1, Remainder
<1>2. PICK p \in Int : x = W * p + (x % W) /\ x % W \in 0 .. W - 1
  BY Remainder
<1>3. PICK r \in Int : r = x % W
  BY <1>2
<1>4. x = r + N * (m * p)
  <2>1. W = N * m
    BY <1>1
  <2>2. (N * m) * p = N * (m * p)
    OBVIOUS
  <2>3. QED
    BY <1>2, <1>3, <2>1, <2>2
<1>5. m * p \in Int
  OBVIOUS
<1>6. (r + N * (m * p)) % N = r % N
  BY <1>5, RemainderShift
<1>7. QED
  BY <1>3, <1>4, <1>6

-----------------------------------------------------------------------------
(***************************************************************************)
(* What the playback side will play                                        *)
(***************************************************************************)

\* The worker is not later than the prefill allows, and the zeros that end a
\* flush fit behind the prefill.
Punctual == MaxLate < Prefill /\ 2 * Prefill <= Room + 1

\* The stream is one of those that the properties speak of, and the worker has
\* kept up with it.
Paced == Tx!FewLeft /\ txSem <= MaxLate

\* What the flags, the channel and the calls under way say of each other.
PortInv ==
    /\ \A f \in {"Flushing", "Request", "Error"} : f \in txHw => "Started" \in txHw
    /\ "Started" \in txHw => {"Opened", "Prepared"} \subseteq txHw
    /\ txChan = "run" => "Request" \in txHw
    /\ txChan = "paused" /\ "Started" \in txHw => "Request" \notin txHw
    /\ txChan = "paused" /\ "Error" \in txHw => "Flushing" \in txHw
    /\ closing # "none" => txChan = "none" /\ "Started" \notin txHw /\ want = 0
    /\ want > 0 => txChan # "none" /\ drain # "drop"
    /\ due <= units
    /\ txChan = "none" /\ closing = "none" =>
         heard = units /\ \A i \in Tx!Cells : txBuf.cell[i] = 0

\* What a flush has done so far.
FlushInv ==
    /\ "Started" \in txHw /\ silence = 0 => flushed
    /\ "Error" \in txHw /\ "Flushing" \notin txHw /\ flushed => silence = 0
    /\ "Error" \in txHw => drain \in {"none", "drop"}
    /\ drain = "flush" /\ closing = "none" => "Started" \in txHw

\* The DMA plays the stream that was set up, or will once it is started.
Streams ==
    /\ txHalted = "none" /\ txChan # "none" /\ drain # "drop"
    /\ {"Opened", "Prepared"} \subseteq txHw
    /\ "Started" \in txHw => "Request" \in txHw

\* Periods that the worker is ahead of the DMA
Ready == Prefill + excess - txSem

\* Periods that will be played, and the i-th of them
QLen == IF mode = "copy" THEN Ready + txBuf.used ELSE txBuf.used + excess - txSem
Coming(i) ==
    IF mode = "zero" THEN txBuf.cell[(played + i) % Room]
    ELSE IF i < Ready THEN slot[(played + i) % NrPeriods]
    ELSE txBuf.cell[(txBuf.read + (i - Ready)) % Room]
Queue == [i \in 0 .. QLen - 1 |-> Coming(i)]

\* Units up to this one are not played again but where the ending zeros left a
\* slot as it was.
Mark == IF mode = "copy" /\ flushed /\ silence > 0 /\ "Started" \in txHw THEN heard ELSE 0

\* The n periods of c tell the units that follow h, up to u: once i of them
\* have been played, g[i] is the last unit that was.
Tells(c, n, g, h, u, mark) ==
    /\ n \in Nat /\ h \in Nat /\ g[0] = h /\ g[n] = u
    /\ \A i \in 0 .. n - 1 :
         /\ c[i] \in Nat
         /\ \/ g[i + 1] = g[i] /\ c[i] <= mark
            \/ g[i + 1] = g[i] + 1 /\ c[i] = g[i + 1]
Follows(g) == Tells(Queue, QLen, g, heard, units, Mark)

\* The ending zeros come behind all that was written before the flush.
Padding == {"Flushing", "Error"} \subseteq txHw /\ flushed /\ silence > 0
Padded(g) ==
    Padding => \/ due <= heard
               \/ \E e \in 0 .. QLen : due <= g[e] /\ QLen - e >= Tx!Ahead - Tx!CutOff

\* Where the worker and the DMA are in the two rings.
StreamInv ==
    /\ elapsed = (played + Ready) % Room
    /\ mode = "zero" => txBuf.used >= Prefill - 1
                        /\ txBuf.read = (played + (excess - txSem)) % Room
    /\ mode = "copy" => \A i \in Ready .. NrPeriods - 1 : slot[(played + i) % NrPeriods] <= heard

\* Once the requests are stopped, what is left is what a flush cuts off.
StoppedInv ==
    /\ txHalted = "none" /\ drain # "drop" /\ txChan = "paused"
    /\ {"Started", "Flushing", "Error"} \subseteq txHw
    => due - heard <= Tx!CutOff

StreamOK == Streams => StreamInv /\ \E g : Follows(g) /\ Padded(g)

PlaybackInv ==
    /\ TxTypes /\ PortInv /\ FlushInv
    /\ asleep => underrun
    /\ ~underrun /\ Tx!FewLeft
         => txSem <= MaxLate /\ ~spoilt /\ StreamOK /\ StoppedInv /\ DrainIsComplete

-----------------------------------------------------------------------------
\* A line of periods, and what is added to it or taken from it

\* Each period is a unit further at most.
LEMMA TellsGrows ==
  ASSUME NEW c, NEW n, NEW g, NEW h, NEW u, NEW mark, Tells(c, n, g, h, u, mark)
  PROVE  \A i \in 0 .. n : g[i] \in Nat /\ h <= g[i] /\ g[i] <= h + i
<1> DEFINE T == {i \in 0 .. n : ~(g[i] \in Nat /\ h <= g[i] /\ g[i] <= h + i)}
<1>1. SUFFICES ASSUME T # {} PROVE FALSE
  OBVIOUS
<1>2. n \in Nat /\ h \in Nat /\ g[0] = h
  BY DEF Tells
<1>3. PICK m \in T : \A k \in T : m <= k
  <2>1. T \in SUBSET Nat
    BY <1>2
  <2> HIDE DEF T
  <2>2. QED
    BY <1>1, <2>1, Least
<1>4. m # 0
  BY <1>2, <1>3
<1>5. m - 1 \in 0 .. n - 1 /\ (m - 1) + 1 = m
  BY <1>2, <1>3, <1>4
<1>6. m - 1 \notin T
  BY <1>3, <1>5, <1>2
<1>7. g[m - 1] \in Nat /\ h <= g[m - 1] /\ g[m - 1] <= h + (m - 1)
  BY <1>2, <1>5, <1>6
<1>8. g[m] = g[m - 1] \/ g[m] = g[m - 1] + 1
  BY <1>5 DEF Tells
<1>9. m \in 0 .. n /\ ~(g[m] \in Nat /\ h <= g[m] /\ g[m] <= h + m)
  BY <1>3
<1>10. QED
  BY <1>2, <1>4, <1>7, <1>8, <1>9

\* The first period has been played.
LEMMA TellsFirst ==
  ASSUME NEW c, NEW d, NEW n \in Nat \ {0}, NEW g, NEW h, NEW u, NEW mark \in Nat,
         NEW low \in Nat, Tells(c, n, g, h, u, mark), mark <= low,
         \A i \in 0 .. n - 2 : d[i] = c[i + 1]
  PROVE  /\ c[0] \in Nat /\ ((c[0] <= mark /\ g[1] = h) \/ (c[0] = h + 1 /\ g[1] = h + 1))
         /\ Tells(d, n - 1, [i \in 0 .. n - 1 |-> g[i + 1]], g[1], u, low)
<1> DEFINE f == [i \in 0 .. n - 1 |-> g[i + 1]]
<1>1. 0 \in 0 .. n - 1 /\ 0 + 1 = 1 /\ 1 \in 0 .. n
  OBVIOUS
<1>2. c[0] \in Nat /\ ((g[1] = h /\ c[0] <= mark) \/ (g[1] = h + 1 /\ c[0] = g[1]))
  BY <1>1 DEF Tells
<1>3. g[1] \in Nat
  BY <1>1, TellsGrows
<1>4. f[0] = g[1] /\ f[n - 1] = u
  <2>1. (n - 1) + 1 = n /\ n - 1 \in 0 .. n - 1
    OBVIOUS
  <2>2. QED
    BY <1>1, <2>1 DEF Tells
<1>5. ASSUME NEW i \in 0 .. (n - 1) - 1
      PROVE  /\ d[i] \in Nat
             /\ (f[i + 1] = f[i] /\ d[i] <= low) \/ (f[i + 1] = f[i] + 1 /\ d[i] = f[i + 1])
  <2>1. i \in 0 .. n - 2 /\ i \in 0 .. n - 1 /\ i + 1 \in 0 .. n - 1
    OBVIOUS
  <2>2. f[i] = g[i + 1] /\ f[i + 1] = g[(i + 1) + 1] /\ d[i] = c[i + 1]
    BY <2>1
  <2>3. /\ c[i + 1] \in Nat
        /\ \/ g[(i + 1) + 1] = g[i + 1] /\ c[i + 1] <= mark
           \/ g[(i + 1) + 1] = g[i + 1] + 1 /\ c[i + 1] = g[(i + 1) + 1]
    BY <2>1 DEF Tells
  <2>4. QED
    BY <2>2, <2>3
<1> HIDE DEF f
<1>6. Tells(d, n - 1, f, g[1], u, low)
  BY <1>3, <1>4, <1>5 DEF Tells
<1>7. QED
  BY <1>2, <1>6 DEF f

\* The same line, with more units behind the mark
LEMMA TellsSame ==
  ASSUME NEW c, NEW d, NEW n, NEW g, NEW h, NEW u, NEW mark \in Nat, NEW low \in Nat,
         Tells(c, n, g, h, u, mark), mark <= low, \A i \in 0 .. n - 1 : d[i] = c[i]
  PROVE  Tells(d, n, g, h, u, low)
  BY DEF Tells

\* What m periods add behind n others: new units, or silence
Adds(d, n, m, u, v, mark) ==
    \/ v = u + m /\ \A j \in 0 .. m - 1 : d[n + j] = u + j + 1
    \/ v = u /\ \A j \in 0 .. m - 1 : d[n + j] \in Nat /\ d[n + j] <= mark

\* The first n periods are the same.
Agree(c, d, n) == \A i \in 0 .. n - 1 : d[i] = c[i]

\* m periods are added.
LEMMA TellsMore ==
  ASSUME NEW c, NEW d, NEW n \in Nat, NEW g, NEW h, NEW u \in Nat, NEW m \in Nat,
         NEW mark \in Nat,
         NEW v \in Nat, Tells(c, n, g, h, u, mark), Adds(d, n, m, u, v, mark),
         Agree(c, d, n)
  PROVE  \E f : Tells(d, n + m, f, h, v, mark) /\ Agree(g, f, n + 1)
<1>0. /\ v = u \/ v = u + m
      /\ v = u + m => \A j \in 0 .. m - 1 : d[n + j] = u + j + 1
      /\ v # u + m => \A j \in 0 .. m - 1 : d[n + j] \in Nat /\ d[n + j] <= mark
  <2>1. m = 0 => \A j \in 0 .. m - 1 : d[n + j] = u + j + 1
    OBVIOUS
  <2>2. m # 0 => u # u + m
    OBVIOUS
  <2>3. QED
    BY <2>1, <2>2 DEF Adds
<1> DEFINE f == [i \in 0 .. n + m |-> IF i <= n THEN g[i] ELSE IF v = u + m THEN u + (i - n) ELSE u]
<1>1. n \in Nat /\ h \in Nat /\ g[0] = h /\ g[n] = u /\ u \in Nat /\ n + m \in Nat
  <2>1. n \in Nat /\ h \in Nat /\ g[0] = h /\ g[n] = u
    BY DEF Tells
  <2>2. n \in 0 .. n
    BY <2>1
  <2>3. g[n] \in Nat
    BY <2>1, <2>2, TellsGrows
  <2>4. QED
    BY <2>1, <2>3
<1>2. \A i \in 0 .. n : f[i] = g[i]
  BY <1>1
<1>3. f[0] = h /\ f[n + m] = v
  <2>1. f[0] = h
    BY <1>1, <1>2
  <2>2. CASE m = 0
    <3>1. n + m = n /\ v = u /\ n \in 0 .. n
      BY <1>0, <1>1, <2>2
    <3>2. QED
      BY <1>1, <1>2, <2>1, <3>1
  <2>3. CASE m # 0
    <3>1. n + m \in 0 .. n + m /\ ~(n + m <= n) /\ (n + m) - n = m
      BY <1>1, <2>3
    <3>2. QED
      BY <1>0, <2>1, <3>1
  <2>4. QED
    BY <2>2, <2>3
<1>4. ASSUME NEW i \in 0 .. n + m - 1
      PROVE  /\ d[i] \in Nat
             /\ (f[i + 1] = f[i] /\ d[i] <= mark) \/ (f[i + 1] = f[i] + 1 /\ d[i] = f[i + 1])
  <2>1. i \in Nat /\ i \in 0 .. n + m /\ i + 1 \in 0 .. n + m
    BY <1>1
  <2>2. CASE i < n
    <3>1. i \in 0 .. n - 1 /\ i \in 0 .. n /\ i + 1 \in 0 .. n
      BY <1>1, <2>1, <2>2
    <3>2. /\ c[i] \in Nat
          /\ (g[i + 1] = g[i] /\ c[i] <= mark) \/ (g[i + 1] = g[i] + 1 /\ c[i] = g[i + 1])
      BY <3>1 DEF Tells
    <3>3. f[i] = g[i] /\ f[i + 1] = g[i + 1] /\ d[i] = c[i]
      BY <1>2, <3>1 DEF Agree
    <3>4. QED
      BY <3>2, <3>3
  <2>3. CASE ~(i < n)
    <3>1. PICK j \in 0 .. m - 1 : i = n + j
      <4>1. i - n \in 0 .. m - 1 /\ n + (i - n) = i
        BY <1>1, <2>1, <2>3
      <4>2. QED
        BY <4>1
    <3>2. CASE v = u + m
      <4>1. f[i] = u + j
        <5>1. i <= n => i = n /\ j = 0
          BY <1>1, <3>1
        <5>2. ~(i <= n) => f[i] = u + (i - n) /\ i - n = j
          BY <1>1, <2>1, <3>1, <3>2
        <5>3. QED
          BY <1>1, <1>2, <2>1, <5>1, <5>2
      <4>2. f[i + 1] = u + j + 1
        <5>1. ~(i + 1 <= n) /\ (i + 1) - n = j + 1
          BY <1>1, <3>1
        <5>2. QED
          BY <1>1, <2>1, <3>2, <5>1
      <4>3. d[i] = u + j + 1
        BY <1>0, <3>1, <3>2
      <4>4. QED
        BY <1>1, <4>1, <4>2, <4>3
    <3>3. CASE v # u + m
      <4>0. v = u
        BY <1>0, <3>3
      <4>1. f[i] = u
        <5>1. i <= n => i = n
          BY <1>1, <3>1
        <5>2. ~(i <= n) => f[i] = u
          BY <1>1, <2>1, <3>3
        <5>3. QED
          BY <1>1, <1>2, <2>1, <5>1, <5>2
      <4>2. f[i + 1] = u
        <5>1. ~(i + 1 <= n)
          BY <1>1, <3>1
        <5>2. QED
          BY <1>1, <2>1, <3>3, <5>1
      <4>3. d[i] \in Nat /\ d[i] <= mark
        BY <1>0, <3>1, <3>3
      <4>4. QED
        BY <4>1, <4>2, <4>3
    <3>4. QED
      BY <3>2, <3>3
  <2>4. QED
    BY <2>2, <2>3
<1> HIDE DEF f
<1>5. Tells(d, n + m, f, h, v, mark)
  BY <1>1, <1>3, <1>4 DEF Tells
<1>6. Agree(g, f, n + 1)
  BY <1>1, <1>2 DEF Agree
<1>7. QED
  BY <1>5, <1>6

-----------------------------------------------------------------------------
\* The numbers of a stream that begins with few posts left
LEMMA Numbers ==
  ASSUME TxTypes, Paced, Punctual
  PROVE  /\ Ready \in 1 .. NrPeriods /\ Ready = Prefill + excess - txSem
         /\ QLen = IF mode = "copy" THEN Ready + txBuf.used ELSE txBuf.used + (excess - txSem)
         /\ txSem \in Nat /\ excess \in 0 .. 1 /\ excess - txSem \in Int
         /\ txBuf \in TxBuffers /\ txBuf.used \in 0 .. Room - 1 /\ txBuf.read \in Tx!Cells
         /\ heard \in Nat /\ units \in Nat /\ due \in Nat /\ Mark \in Nat /\ Mark <= heard
         /\ played \in Tx!Cells /\ played \in Int /\ elapsed \in Int /\ silence \in Nat
         /\ Room \in Nat \ {0} /\ NrPeriods \in Nat \ {0} /\ Prefill \in Nat \ {0}
         /\ Ratio \in Nat \ {0}
         /\ Prefill < Room /\ 2 * Prefill <= Room + 1 /\ txSem < Prefill
         /\ mode \in {"copy", "zero"} /\ QLen \in Int
<1>1. /\ txSem \in 0 .. MaxPosts /\ excess \in 0 .. MaxPosts /\ {MaxLate, MaxPosts} \subseteq Nat
      /\ mode \in Modes
      /\ txBuf \in TxBuffers /\ heard \in Nat /\ units \in Nat /\ due \in Nat /\ played \in Tx!Cells
      /\ elapsed \in Int /\ silence \in Nat
  BY TxAssumed DEF TxTypes, Tx!TypeOK, TxBuffers
<1>2. Prefill \in Nat \ {0} /\ NrPeriods \in Nat \ {0} /\ Room \in Nat \ {0} /\ Prefill < Room
      /\ Ratio \in Nat \ {0} /\ Modes \subseteq {"copy", "zero"}
  BY TxAssumed
<1>3. Ready \in 1 .. NrPeriods /\ Ready = Prefill + excess - txSem /\ txSem < Prefill
      /\ excess \in 0 .. 1
  BY <1>1, <1>2 DEF Ready, Paced, Tx!FewLeft, Punctual
<1>4. txBuf.used \in 0 .. Room - 1 /\ txBuf.read \in Tx!Cells
  BY <1>1 DEF TxBuffers
<1>5. Mark \in Nat /\ Mark <= heard
  BY <1>1 DEF Mark
<1>6. QLen = IF mode = "copy" THEN Ready + txBuf.used ELSE txBuf.used + (excess - txSem)
  BY <1>1, <1>4 DEF QLen
<1>7. played \in Int
  BY <1>1, <1>2 DEF Tx!Cells
<1>8. QLen \in Int
  BY <1>1, <1>3, <1>4, <1>6
<1>9. QED
  BY <1>1, <1>2, <1>3, <1>4, <1>5, <1>6, <1>7, <1>8 DEF Punctual

\* The private buffer goes into the circular buffer a whole number of times.
LEMMA SlotAt ==
  ASSUME NEW x \in Int, NEW i \in Int
  PROVE  /\ ((x % Room) + i) % NrPeriods = (x + i) % NrPeriods
         /\ ((x % Room) + i) % Room = (x + i) % Room
         /\ (x % Room) % NrPeriods = x % NrPeriods
<1>1. Room \in Nat \ {0} /\ NrPeriods \in Nat \ {0} /\ Room % NrPeriods = 0
  BY TxAssumed
<1>2. PICK y \in Int : y = x % Room
  BY <1>1, Modulo
<1>3. y % NrPeriods = x % NrPeriods
  BY <1>1, <1>2, RemainderNested
<1>4. ((y % NrPeriods) + i) % NrPeriods = (y + i) % NrPeriods
  BY <1>1, RemainderPlus
<1>5. ((x % NrPeriods) + i) % NrPeriods = (x + i) % NrPeriods
  BY <1>1, RemainderPlus
<1>6. ((x % Room) + i) % Room = (x + i) % Room
  BY <1>1, RemainderPlus
<1>7. QED
  BY <1>2, <1>3, <1>4, <1>5, <1>6

\* What is written lies behind what is in the buffer, and nothing else changes.
LEMMA WrittenAt ==
  ASSUME NEW b \in TxBuffers, NEW us, NEW m \in Nat, Len(us) = m,
         \A j \in 1 .. m : us[j] \in 0 .. MaxUnits, NEW k \in -1 .. Room - 2
  PROVE  Tx!Written(b, us).cell[(b.read + k) % Room] =
           IF b.used <= k /\ k < b.used + Tx!RoomFor(b, m) THEN us[(k - b.used) + 1]
           ELSE b.cell[(b.read + k) % Room]
<1>1. PICK n \in 0 .. m : n = Tx!RoomFor(b, m) /\ n <= Room - 1 - b.used
  BY WrittenIs
<1>2. /\ Room \in Nat \ {0} /\ b.used \in 0 .. Room - 1 /\ b.read \in Int /\ b.read + k \in Int
      /\ n \in Nat
  BY <1>1, TxAssumed DEF TxBuffers, Tx!Cells
<1>3. PICK i \in Tx!Cells : i = (b.read + k) % Room
  BY <1>2, Modulo DEF Tx!Cells
<1>4. Tx!Behind(b, i) = (k - b.used) % Room
  <2>1. PICK r \in Int, u \in Int : r = b.read /\ u = b.used
    BY <1>2
  <2>2. PICK x \in Int, y \in Int : x = r + k /\ y = 0 - (r + u)
    BY <1>2
  <2>3. ((x % Room) + y) % Room = (x + y) % Room
    BY <1>2, RemainderPlus
  <2>4. i \in Int /\ x % Room = i
    BY <1>2, <1>3, <2>1, <2>2 DEF Tx!Cells
  <2>5. x + y = k - u /\ i + y = i - r - u
    BY <2>2, <2>4
  <2>6. QED
    BY <2>1, <2>3, <2>4, <2>5 DEF Tx!Behind
<1>5. Tx!Behind(b, i) < n <=> b.used <= k /\ k < b.used + n
  <2>1. PICK x \in Int : x = k - b.used /\ -Room <= x /\ x < Room
    BY <1>2
  <2>2. CASE x < 0
    <3>1. x % Room = x + Room
      BY <1>2, <2>1, <2>2, Modulo
    <3>2. ~(b.used <= k) /\ ~(x + Room < n)
      BY <1>1, <1>2, <2>1, <2>2
    <3>3. QED
      BY <1>4, <2>1, <3>1, <3>2
  <2>3. CASE ~(x < 0)
    <3>1. 0 <= x /\ x < Room
      BY <2>1, <2>3
    <3>2. x % Room = x
      BY <1>2, <3>1, Modulo
    <3>3. Tx!Behind(b, i) = x
      BY <1>4, <2>1, <3>2
    <3>4. QED
      BY <1>1, <1>2, <2>1, <3>1, <3>3
  <2>4. QED
    BY <2>2, <2>3
<1>6. b.used <= k => Tx!Behind(b, i) = k - b.used
  <2>1. HAVE b.used <= k
  <2>2. PICK x \in Int : x = k - b.used /\ 0 <= x /\ x < Room
    BY <1>2, <2>1
  <2>3. QED
    BY <1>2, <1>4, <2>2, Modulo
<1>7. Tx!Written(b, us).cell[i] = IF Tx!Behind(b, i) < n THEN us[Tx!Behind(b, i) + 1] ELSE b.cell[i]
  BY <1>1, WrittenIs
<1>8. QED
  BY <1>1, <1>3, <1>5, <1>6, <1>7

\* There is always something to play, and the periods are typed.
LEMMA QueueIs ==
  ASSUME TxTypes, Paced, Punctual
  PROVE  /\ \A i \in 0 .. QLen - 1 : Queue[i] = Coming(i) /\ Queue[i] \in Nat
         /\ StreamInv => QLen \in Nat /\ (txSem < MaxLate => QLen > 0)
<1>1. ASSUME NEW i \in 0 .. QLen - 1 PROVE Coming(i) \in Nat
  <2>1. i \in Int /\ played + i \in Int /\ txBuf.read + (i - Ready) \in Int
    BY <1>1, Numbers, TxAssumed DEF Tx!Cells
  <2>2. /\ (played + i) % Room \in Tx!Cells /\ (txBuf.read + (i - Ready)) % Room \in Tx!Cells
        /\ (played + i) % NrPeriods \in 0 .. NrPeriods - 1
    BY <2>1, SlotsAre DEF TxTypes
  <2>3. \A x \in Tx!Cells : txBuf.cell[x] \in Nat
    BY Numbers, TxAssumed DEF TxBuffers
  <2>4. \A x \in 0 .. NrPeriods - 1 : slot[x] \in Nat
    BY TxAssumed DEF TxTypes, Tx!TypeOK
  <2>5. QED
    BY <2>2, <2>3, <2>4 DEF Coming
<1>2. StreamInv => QLen \in Nat /\ (txSem < MaxLate => QLen > 0)
  <2> HAVE StreamInv
  <2>1. MaxLate \in Nat /\ MaxLate < Prefill
    BY TxAssumed DEF Punctual
  <2>2. CASE mode = "copy"
    BY <2>2, Numbers
  <2>3. CASE mode = "zero"
    <3>1. txBuf.used >= Prefill - 1 /\ QLen = txBuf.used + (excess - txSem)
      BY <2>3, Numbers DEF StreamInv
    <3>2. QED
      BY <2>1, <3>1, Numbers
  <2>4. QED
    BY <2>2, <2>3, Numbers
<1>3. QED
  BY <1>1, <1>2 DEF Queue

-----------------------------------------------------------------------------
(***************************************************************************)
(* A period is played                                                      *)
(***************************************************************************)

\* The private buffer, after a period was played: all slots ahead of the worker
\* are still those that it filled.
LEMMA PlaysSlots ==
  ASSUME TxTypes, Paced, Punctual, Streams, StreamInv, Tx!TxPeriod, Paced', TxTypes'
  PROVE  /\ Ready' = Ready - 1 /\ QLen' = QLen - 1 /\ QLen \in Nat \ {0}
         /\ \A i \in 0 .. QLen - 2 : Queue'[i] = Queue[i + 1]
         /\ Tx!Playing = Queue[0]
         /\ elapsed' = (played' + Ready') % Room
         /\ mode = "zero" => txBuf.read = (played' + (excess - txSem')) % Room
<1>1. /\ played' = (played + 1) % Room /\ txSem' = txSem + 1 /\ txSem < MaxLate
      /\ UNCHANGED <<mode, txBuf, slot, elapsed, excess, silence, units>>
  BY Numbers, TxAssumed DEF Paced, Tx!TxPeriod, Tx!port, Tx!writer
<1>2. QLen \in Nat \ {0} /\ QLen \in Int
  BY <1>1, QueueIs, Numbers
<1>3. Ready' = Ready - 1
  BY <1>1, Numbers DEF Ready
<1>4. QLen' = QLen - 1
  <2>1. QLen' = IF mode = "copy" THEN (Ready - 1) + txBuf.used
                   ELSE txBuf.used + excess - (txSem + 1)
    BY <1>1, <1>3 DEF QLen
  <2>2. QED
    BY <2>1, Numbers
<1>5. ASSUME NEW i \in 0 .. QLen - 2 PROVE Coming(i)' = Coming(i + 1)
  <2>1. /\ ((played + 1) % Room) + i \in Int /\ played + 1 \in Int /\ i \in Int
        /\ (played + 1) + i = played + (i + 1)
    <3>1. played + 1 \in Int /\ i \in Int /\ (played + 1) + i = played + (i + 1)
      BY <1>2, Numbers
    <3>2. (played + 1) % Room \in Int
      BY <3>1, TxAssumed
    <3>3. QED
      BY <3>1, <3>2
  <2>2. CASE mode = "zero"
    <3>1. Coming(i)' = txBuf.cell[(((played + 1) % Room) + i) % Room]
      BY <1>1, <2>2 DEF Coming
    <3>2. (((played + 1) % Room) + i) % Room = (played + (i + 1)) % Room
      BY <2>1, SlotAt
    <3>3. QED
      BY <2>2, <3>1, <3>2 DEF Coming
  <2>3. CASE mode = "copy"
    <3>1. i < Ready - 1 <=> i + 1 < Ready
      BY <2>1, Numbers
    <3>2. CASE i + 1 < Ready
      <4>1. Coming(i)' = slot[(((played + 1) % Room) + i) % NrPeriods]
        BY <1>1, <1>3, <2>3, <3>1, <3>2 DEF Coming
      <4>2. (((played + 1) % Room) + i) % NrPeriods = (played + (i + 1)) % NrPeriods
        BY <2>1, SlotAt
      <4>3. QED
        BY <2>3, <3>2, <4>1, <4>2 DEF Coming
    <3>3. CASE ~(i + 1 < Ready)
      <4>1. i - (Ready - 1) = (i + 1) - Ready
        BY <2>1, Numbers
      <4>2. QED
        BY <1>1, <1>3, <2>3, <3>1, <3>3, <4>1 DEF Coming
    <3>4. QED
      BY <3>2, <3>3
  <2>4. QED
    BY <2>2, <2>3, Numbers
<1>6. \A i \in 0 .. QLen - 2 : Queue'[i] = Queue[i + 1]
  <2> TAKE i \in 0 .. QLen - 2
  <2>1. i \in 0 .. QLen' - 1 /\ i + 1 \in 0 .. QLen - 1
    BY <1>2, <1>4
  <2>2. Queue'[i] = Coming(i)'
    BY <2>1 DEF Queue
  <2>3. QED
    BY <1>5, <2>1, <2>2, QueueIs
<1>7. Tx!Playing = Queue[0]
  <2>1. 0 \in 0 .. QLen - 1 /\ played + 0 = played
    BY <1>2, Numbers
  <2>2. Queue[0] = Coming(0)
    BY <2>1, QueueIs
  <2>3. played % Room = played
    <3>1. played \in Int /\ 0 <= played /\ played < Room /\ Room \in Nat \ {0}
      BY Numbers DEF Tx!Cells
    <3>2. QED
      BY <3>1, Modulo
  <2>4. 0 < Ready
    BY Numbers
  <2>5. Coming(0) = IF mode = "zero" THEN txBuf.cell[played] ELSE slot[played % NrPeriods]
    BY <2>1, <2>3, <2>4 DEF Coming
  <2>6. QED
    BY <2>2, <2>5 DEF Tx!Playing
<1>8. elapsed' = (played' + Ready') % Room
  <2>1. played + 1 \in Int /\ Ready - 1 \in Int /\ (played + 1) + (Ready - 1) = played + Ready
    BY Numbers
  <2>2. (((played + 1) % Room) + (Ready - 1)) % Room = (played + Ready) % Room
    BY <2>1, SlotAt
  <2>3. QED
    BY <1>1, <1>3, <2>2 DEF StreamInv
<1>9. mode = "zero" => txBuf.read = (played' + (excess - txSem')) % Room
  <2> HAVE mode = "zero"
  <2>1. PICK x \in Int : x = excess - txSem
    BY Numbers
  <2>2. excess - (txSem + 1) = x - 1 /\ played + 1 \in Int /\ (played + 1) + (x - 1) = played + x
    BY <2>1, Numbers
  <2>3. (((played + 1) % Room) + (x - 1)) % Room = (played + x) % Room
    BY <2>2, SlotAt
  <2>4. QED
    BY <1>1, <2>1, <2>2, <2>3 DEF StreamInv
<1>10. QED
  BY <1>2, <1>3, <1>4, <1>6, <1>7, <1>8, <1>9

\* What is played is the next unit, silence, or a slot that the ending zeros left.
LEMMA Plays ==
  ASSUME PlaybackInv, Paced, Punctual, Tx!TxPeriod, Paced', TxTypes', ~underrun
  PROVE  ~spoilt' /\ StreamOK'
<1>1. /\ txChan = "run" /\ {"Started", "Request"} \subseteq txHw /\ txHalted = "none"
      /\ heard' = (IF Tx!Playing > heard THEN Tx!Playing ELSE heard)
      /\ spoilt' = (spoilt \/ ~Tx!InOrder)
      /\ UNCHANGED <<mode, silence, txHw, txBuf, slot, txChan, flushed, units, excess, drain, due,
                     txHalted>>
  BY DEF Tx!TxPeriod, Tx!port, Tx!writer, Tx!Live
<1>2. CASE drain = "drop"
  <2>1. ~spoilt' /\ ~Streams'
    BY <1>1, <1>2 DEF PlaybackInv, Paced, Streams, Tx!InOrder
  <2>2. QED
    BY <2>1 DEF StreamOK
<1>3. CASE drain # "drop"
  <2>1. Streams /\ TxTypes
    BY <1>1, <1>3 DEF PlaybackInv, PortInv, Streams
  <2>2. StreamInv
    BY <2>1 DEF PlaybackInv, Paced, StreamOK
  <2>3. PICK g : Follows(g) /\ Padded(g)
    BY <2>1 DEF PlaybackInv, Paced, StreamOK
  <2>4. /\ Ready' = Ready - 1 /\ QLen' = QLen - 1 /\ QLen \in Nat \ {0}
        /\ \A i \in 0 .. QLen - 2 : Queue'[i] = Queue[i + 1]
        /\ Tx!Playing = Queue[0]
        /\ elapsed' = (played' + Ready') % Room
        /\ mode = "zero" => txBuf.read = (played' + (excess - txSem')) % Room
    BY <2>1, <2>2, PlaysSlots
  <2>a. PICK n \in Nat \ {0} : n = QLen
    BY <2>4
  <2>b. PICK m \in Nat : m = Mark
    BY <2>1, Numbers
  <2>c. Tells(Queue, n, g, heard, units, m)
    BY <2>3, <2>a, <2>b DEF Follows
  <2>d. PICK h \in Nat : h = g[1]
    <3>1. 1 \in 0 .. n
      OBVIOUS
    <3>2. \A i \in 0 .. n : g[i] \in Nat
      BY <2>c, TellsGrows
    <3>3. QED
      BY <3>1, <3>2
  <2>e. PICK f : f = [i \in 0 .. n - 1 |-> g[i + 1]]
    OBVIOUS
  <2>5. n = QLen /\ h = g[1] /\ f = [i \in 0 .. n - 1 |-> g[i + 1]] /\ m = Mark
    BY <2>a, <2>b, <2>d, <2>e
  <2>f. PICK d : d = Queue'
    OBVIOUS
  <2>g. \A i \in 0 .. n - 2 : d[i] = Queue[i + 1]
    BY <2>4, <2>a, <2>f
  <2>6. /\ Queue[0] \in Nat
        /\ ((Queue[0] <= m /\ h = heard) \/ (Queue[0] = heard + 1 /\ h = heard + 1))
    <3>1. 0 \in 0 .. n - 1 /\ 0 + 1 = 1
      OBVIOUS
    <3>2. Queue[0] \in Nat /\ ((Queue[0] <= m /\ g[1] = heard)
                              \/ (Queue[0] = heard + 1 /\ g[1] = heard + 1))
      BY <2>c, <3>1 DEF Tells
    <3>3. QED
      BY <2>d, <3>2
  <2>7. heard' = h /\ heard <= h
    <3>1. m <= heard /\ heard \in Nat
      BY <2>1, <2>5, Numbers
    <3>2. QED
      BY <1>1, <2>4, <2>6, <3>1
  <2>8. ~spoilt'
    <3>1. CASE Queue[0] = heard + 1
      BY <1>1, <2>4, <3>1 DEF PlaybackInv, Paced, Tx!InOrder
    <3>2. CASE Queue[0] <= m
      <4>1. CASE m = 0
        <5>1. Queue[0] = 0
          BY <2>6, <3>2, <4>1
        <5>2. QED
          BY <1>1, <2>4, <5>1 DEF PlaybackInv, Paced, Tx!InOrder
      <4>2. CASE m # 0
        <5>1. mode = "copy" /\ flushed /\ silence > 0 /\ m = heard
          BY <2>5, <4>2 DEF Mark
        <5>2. Tx!Replayed
          BY <2>4, <3>2, <5>1 DEF Tx!Replayed
        <5>3. QED
          BY <1>1, <5>2 DEF PlaybackInv, Paced, Tx!InOrder
      <4>3. QED
        BY <4>1, <4>2
    <3>3. QED
      BY <2>6, <3>1, <3>2
  <2>9. PICK low \in Nat : low = Mark' /\ m <= low
    <3>1. Mark' \in Nat
      BY Numbers, TxAssumed DEF TxTypes, Tx!TypeOK, Mark
    <3>2. m <= Mark'
      BY <1>1, <2>1, <2>5, <2>7, Numbers DEF Mark
    <3>3. QED
      BY <3>1, <3>2
  <2>10. Follows(f)'
    <3>1. Tells(d, n - 1, [i \in 0 .. n - 1 |-> g[i + 1]], g[1], units, low)
      BY <2>9, <2>c, <2>g, TellsFirst
    <3>2. QED
      BY <1>1, <2>4, <2>5, <2>7, <2>9, <2>f, <3>1 DEF Follows
  <2>11. Padded(f)'
    <3> SUFFICES ASSUME Padding'
                 PROVE  due <= h \/ \E e \in 0 .. n - 1 :
                          due <= f[e] /\ (n - 1) - e >= Tx!Ahead - Tx!CutOff
      BY <1>1, <2>4, <2>5, <2>7 DEF Padded, Tx!Ahead, Tx!CutOff
    <3>1. Padding /\ due \in Nat /\ heard \in Nat
      BY <1>1, <2>1, Numbers DEF Padding
    <3>2. CASE due <= heard
      BY <2>7, <3>1, <3>2
    <3>3. ASSUME NEW e \in 0 .. QLen, due <= g[e], QLen - e >= Tx!Ahead - Tx!CutOff
          PROVE  due <= h \/ \E k \in 0 .. n - 1 :
                   due <= f[k] /\ (n - 1) - k >= Tx!Ahead - Tx!CutOff
      <4>1. CASE e = 0
        <5>1. g[0] = heard
          BY <2>3 DEF Follows, Tells
        <5>2. QED
          BY <2>7, <3>1, <3>3, <4>1, <5>1
      <4>2. CASE e # 0
        <5>1. e - 1 \in 0 .. n - 1 /\ (e - 1) + 1 = e /\ (n - 1) - (e - 1) = QLen - e
          BY <2>5, <4>2
        <5>2. f[e - 1] = g[e]
          BY <2>5, <5>1
        <5>3. QED
          BY <3>3, <5>1, <5>2
      <4>3. QED
        BY <4>1, <4>2
    <3>4. QED
      BY <2>3, <3>1, <3>2, <3>3 DEF Padded
  <2>12. StreamInv'
    <3>1. /\ elapsed' = (played' + Ready') % Room
          /\ mode' = "zero" => /\ txBuf'.used >= Prefill - 1
                               /\ txBuf'.read = (played' + (excess' - txSem')) % Room
      BY <1>1, <2>2, <2>4 DEF StreamInv
    <3>2. ASSUME mode = "copy", NEW i \in Ready - 1 .. NrPeriods - 1
          PROVE  slot[(played' + i) % NrPeriods] <= heard'
      <4>1. played' = (played + 1) % Room
        BY DEF Tx!TxPeriod
      <4>2. i \in Int /\ i + 1 \in Int /\ played + 1 \in Int /\ (played + 1) + i = played + (i + 1)
            /\ Ready \in 1 .. NrPeriods
        BY <2>1, Numbers
      <4>3. (played' + i) % NrPeriods = (played + (i + 1)) % NrPeriods
        BY <4>1, <4>2, SlotAt
      <4>4. (played + (i + 1)) % NrPeriods \in 0 .. NrPeriods - 1
        <5>1. PICK x \in Int : x = played + (i + 1)
          BY <2>1, <4>2, Numbers
        <5>2. x % NrPeriods \in 0 .. NrPeriods - 1
          BY <2>1, Numbers, Modulo
        <5>3. QED
          BY <5>1, <5>2
      <4>5. CASE i + 1 <= NrPeriods - 1
        <5>1. i + 1 \in Ready .. NrPeriods - 1
          BY <4>2, <4>5, <2>1, Numbers
        <5>2. slot[(played + (i + 1)) % NrPeriods] <= heard
          BY <2>2, <3>2, <5>1 DEF StreamInv
        <5>3. slot[(played + (i + 1)) % NrPeriods] \in Nat
          <6>1. \A x \in 0 .. NrPeriods - 1 : slot[x] \in 0 .. MaxUnits
            BY <2>1 DEF TxTypes, Tx!TypeOK
          <6>2. \A x \in 0 .. MaxUnits : x \in Nat
            OBVIOUS
          <6>3. QED
            BY <4>4, <6>1, <6>2
        <5>4. QED
          BY <2>1, <2>7, <4>3, <5>2, <5>3, Numbers
      <4>6. CASE ~(i + 1 <= NrPeriods - 1)
        <5>1. i + 1 = NrPeriods
          BY <2>1, <4>2, <4>6, Numbers
        <5>2. (played + NrPeriods * 1) % NrPeriods = played % NrPeriods
          <6>1. NrPeriods \in Nat \ {0} /\ played \in Int /\ 1 \in Int
            BY <2>1, Numbers
          <6>2. QED
            BY <6>1, RemainderShift
        <5>3. NrPeriods * 1 = NrPeriods
          BY <2>1, Numbers
        <5>4. slot[(played' + i) % NrPeriods] = Tx!Playing
          BY <3>2, <4>3, <5>1, <5>2, <5>3 DEF Tx!Playing
        <5>5. QED
          BY <1>1, <2>1, <2>4, <2>6, <5>4, Numbers
      <4>7. QED
        BY <4>5, <4>6
    <3>3. QED
      BY <1>1, <2>4, <3>1, <3>2 DEF StreamInv
  <2>13. QED
    BY <2>8, <2>10, <2>11, <2>12 DEF StreamOK
<1>4. QED
  BY <1>2, <1>3

-----------------------------------------------------------------------------
(***************************************************************************)
(* What the worker and the writer do to the two rings                      *)
(***************************************************************************)

\* What is in the buffer b begins x places behind p.
At(b, p, x) == b.read = (p + x) % Room

\* us are m periods.
Periods(us, m) == Len(us) = m /\ \A j \in 1 .. m : us[j] \in 0 .. MaxUnits

\* The cells that are written, counted from a place p
LEMMA WrittenBehind ==
  ASSUME NEW b \in TxBuffers, NEW us, NEW m \in Nat, Periods(us, m),
         NEW p \in Int, NEW x \in Int, At(b, p, x),
         NEW i \in Int, -1 <= i - x, i - x <= Room - 2
  PROVE  Tx!Written(b, us).cell[(p + i) % Room] =
           IF b.used + x <= i /\ i < b.used + x + Tx!RoomFor(b, m) THEN us[(i - (b.used + x)) + 1]
           ELSE b.cell[(p + i) % Room]
<1>1. PICK k \in -1 .. Room - 2 : k = i - x
  BY TxAssumed
<1>2. p + x \in Int /\ k \in Int /\ (p + x) + k = p + i
  BY <1>1, TxAssumed
<1>3. (((p + x) % Room) + k) % Room = (p + i) % Room
  <2>1. PICK y \in Int : y = p + x
    OBVIOUS
  <2>2. ((y % Room) + k) % Room = (y + k) % Room
    BY <1>2, SlotAt
  <2>3. QED
    BY <1>2, <2>1, <2>2
<1>4. PICK n \in Int, v \in Int : n = Tx!RoomFor(b, m) /\ v = b.used
  <2>1. Tx!RoomFor(b, m) \in 0 .. m
    BY WrittenIs DEF Periods
  <2>2. b.used \in Int
    BY TxAssumed DEF TxBuffers
  <2>3. QED
    BY <2>1, <2>2
<1>5. (v <= k /\ k < v + n <=> v + x <= i /\ i < v + x + n) /\ k - v = i - (v + x)
  BY <1>1, <1>2, <1>4
<1>6. Tx!Written(b, us).cell[(b.read + k) % Room] =
        IF b.used <= k /\ k < b.used + Tx!RoomFor(b, m) THEN us[(k - b.used) + 1]
        ELSE b.cell[(b.read + k) % Room]
  BY WrittenAt DEF Periods
<1>7. QED
  BY <1>3, <1>4, <1>5, <1>6 DEF At

\* The worker takes a post: it is one period further ahead of the DMA.
LEMMA Popped ==
  ASSUME TxTypes, Paced, Paced', TxTypes', Punctual, StreamInv, Tx!Pop
  PROVE  /\ UNCHANGED <<mode, silence, played, units, heard, spoilt, excess, drain, due, missed>>
         /\ txSem \in Nat \ {0} /\ txSem' = txSem - 1
         /\ Ready' = Ready + 1 /\ Ready + 1 \in 1 .. NrPeriods
         /\ elapsed' = (played' + Ready') % Room
         /\ elapsed % NrPeriods = (played + Ready) % NrPeriods
<1>1. /\ UNCHANGED <<mode, silence, played, units, heard, spoilt, excess, drain, due, missed>>
      /\ txSem > 0 /\ txSem' = txSem - 1 /\ elapsed' = (elapsed + 1) % Room
  BY DEF Tx!Pop, Tx!Pops, Tx!Woken, Tx!port, Tx!writer
<1>2. txSem \in Nat \ {0}
  BY <1>1, Numbers
<1>3. Ready' = Ready + 1
  BY <1>1, Numbers DEF Ready
<1>4. Ready' <= NrPeriods
  <2>1. txSem' \in Nat /\ Prefill + excess' <= NrPeriods /\ Ready' = Prefill + excess - (txSem - 1)
    BY <1>1, <1>2, Numbers DEF Paced, Tx!FewLeft, Ready
  <2>2. QED
    BY <1>1, <1>2, <2>1, Numbers
<1>5. Ready + 1 \in 1 .. NrPeriods
  BY <1>3, <1>4, Numbers
<1>6. elapsed = (played + Ready) % Room /\ played + Ready \in Int /\ Ready \in Int
  BY Numbers DEF StreamInv
<1>7. (((played + Ready) % Room) + 1) % Room = ((played + Ready) + 1) % Room
  BY <1>6, SlotAt
<1>8. (played + Ready) + 1 = played + (Ready + 1)
  BY <1>6, Numbers
<1>9. ((played + Ready) % Room) % NrPeriods = (played + Ready) % NrPeriods
  BY <1>6, SlotAt
<1>10. QED
  BY <1>1, <1>2, <1>3, <1>5, <1>6, <1>7, <1>8, <1>9

\* It fills the slot behind those that are ready, and no other.
LEMMA SlotPut ==
  ASSUME TxTypes, Paced, Punctual, NEW u, Ready + 1 \in 1 .. NrPeriods,
         elapsed % NrPeriods = (played + Ready) % NrPeriods,
         slot' = [slot EXCEPT ![elapsed % NrPeriods] = u]
  PROVE  /\ slot'[(played + Ready) % NrPeriods] = u
         /\ \A i \in 0 .. NrPeriods - 1 :
              i # Ready => slot'[(played + i) % NrPeriods] = slot[(played + i) % NrPeriods]
<1>1. slot \in [0 .. NrPeriods - 1 -> 0 .. MaxUnits]
  BY DEF TxTypes, Tx!TypeOK
<1>2. ASSUME NEW i \in 0 .. NrPeriods - 1
      PROVE  /\ (played + i) % NrPeriods \in 0 .. NrPeriods - 1
             /\ i # Ready => (played + i) % NrPeriods # (played + Ready) % NrPeriods
  <2>1. PICK x \in Int, y \in Int : x = played + i /\ y = played + Ready /\ x - y < NrPeriods
                                    /\ y - x < NrPeriods /\ (x = y => i = Ready)
    <3>1. PICK p \in Int, k \in Int, n \in Int : p = played /\ k = Ready /\ n = NrPeriods
                                                /\ 1 <= k /\ k + 1 <= n
      BY Numbers
    <3>2. i \in Int /\ 0 <= i /\ i < n
      BY <3>1
    <3>3. (p + i) - (p + k) < n /\ (p + k) - (p + i) < n /\ (p + i = p + k => i = k)
      BY <3>1, <3>2
    <3>4. QED
      BY <3>1, <3>2, <3>3
  <2>2. NrPeriods \in Nat \ {0}
    BY TxAssumed
  <2>3. x % NrPeriods \in 0 .. NrPeriods - 1
    BY <2>2, Modulo
  <2>4. x % NrPeriods = y % NrPeriods => x = y
    BY <2>1, <2>2, RemainderSame
  <2>5. QED
    BY <2>1, <2>3, <2>4
<1>3. Ready \in 0 .. NrPeriods - 1
  BY Numbers
<1>4. QED
  BY <1>1, <1>2, <1>3

\* What it reads is what would have come next from the circular buffer.
LEMMA PopsSame ==
  ASSUME TxTypes, Paced, Paced', TxTypes', Punctual, Streams, StreamInv, Tx!PopPeriod
  PROVE  /\ QLen' = QLen /\ Queue' = Queue
         /\ StreamInv'
<1>1. /\ Tx!Pop /\ txBuf' = Tx!Skip(txBuf) /\ txBuf.used # 0 /\ ~Tx!Low
      /\ mode = "copy" => slot' = [slot EXCEPT ![elapsed % NrPeriods] = txBuf.cell[txBuf.read]]
      /\ mode # "copy" => slot' = slot
  BY DEF Tx!PopPeriod, Tx!Read, Tx!Into, Tx!Short
<1>2. /\ UNCHANGED <<mode, played, heard, excess>> /\ txSem' = txSem - 1 /\ txSem \in Nat \ {0}
      /\ Ready' = Ready + 1 /\ Ready + 1 \in 1 .. NrPeriods
      /\ elapsed' = (played' + Ready') % Room
      /\ elapsed % NrPeriods = (played + Ready) % NrPeriods
  BY <1>1, Popped
<1>3. /\ txBuf \in TxBuffers /\ txBuf.used \in Nat \ {0} /\ txBuf.read \in Int
      /\ txBuf'.cell = txBuf.cell /\ txBuf'.used = txBuf.used - 1
      /\ txBuf'.read = (txBuf.read + 1) % Room
  <2>1. txBuf \in TxBuffers /\ txBuf.used \in Nat \ {0} /\ txBuf.read \in Int
    BY <1>1, Numbers DEF Tx!Cells
  <2>2. txBuf.used > 0
    BY <2>1
  <2>3. QED
    BY <1>1, <2>1, <2>2, SkipIs
<1>4. QLen' = QLen /\ QLen \in Int
  <2>1. QLen' = IF mode = "copy" THEN (Ready + 1) + (txBuf.used - 1)
                ELSE (txBuf.used - 1) + excess - (txSem - 1)
    BY <1>2, <1>3 DEF QLen
  <2>2. QED
    BY <1>3, <2>1, Numbers
<1>5. ASSUME NEW i \in 0 .. QLen - 1 PROVE Coming(i)' = Coming(i)
  <2>1. CASE mode = "zero"
    BY <1>2, <1>3, <2>1 DEF Coming
  <2>2. CASE mode = "copy"
    <3>1. CASE i < Ready
      <4>1. i \in 0 .. NrPeriods - 1 /\ i # Ready /\ i < Ready + 1
        BY <1>2, <1>4, <3>1, Numbers
      <4>2. slot'[(played + i) % NrPeriods] = slot[(played + i) % NrPeriods]
        BY <1>1, <1>2, <2>2, <4>1, SlotPut
      <4>3. QED
        BY <1>2, <2>2, <3>1, <4>1, <4>2 DEF Coming
    <3>2. CASE i = Ready
      <4>1. slot'[(played + i) % NrPeriods] = txBuf.cell[txBuf.read]
        BY <1>1, <1>2, <2>2, <3>2, SlotPut
      <4>2. i - Ready = 0 /\ txBuf.read + 0 = txBuf.read /\ ~(i < Ready) /\ i < Ready + 1
        BY <1>3, <3>2, Numbers
      <4>3. txBuf.read % Room = txBuf.read
        <5>1. 0 <= txBuf.read /\ txBuf.read < Room
          BY Numbers DEF Tx!Cells
        <5>2. QED
          BY <1>3, <5>1, Modulo, TxAssumed
      <4>4. QED
        BY <1>2, <2>2, <4>1, <4>2, <4>3 DEF Coming
    <3>3. CASE i > Ready
      <4>1. PICK k \in Int : k = i - Ready /\ ~(i < Ready) /\ ~(i < Ready + 1)
                             /\ i - (Ready + 1) = k - 1
        BY <1>4, <3>3, Numbers
      <4>2. txBuf.read + 1 \in Int /\ k - 1 \in Int /\ (txBuf.read + 1) + (k - 1) = txBuf.read + k
        BY <1>3
      <4>3. (((txBuf.read + 1) % Room) + (k - 1)) % Room = (txBuf.read + k) % Room
        <5>1. PICK y \in Int, z \in Int : y = txBuf.read + 1 /\ z = k - 1
          BY <4>2
        <5>2. ((y % Room) + z) % Room = (y + z) % Room
          BY SlotAt
        <5>3. QED
          BY <4>2, <5>1, <5>2
      <4>4. QED
        BY <1>2, <1>3, <2>2, <4>1, <4>3 DEF Coming
    <3>4. QED
      BY <3>1, <3>2, <3>3, <1>4, Numbers
  <2>3. QED
    BY <2>1, <2>2, Numbers
<1>6. Queue' = Queue
  BY <1>4, <1>5 DEF Queue
<1>7. ASSUME mode = "zero"
      PROVE  txBuf'.used >= Prefill - 1 /\ txBuf'.read = (played' + (excess' - txSem')) % Room
  <2>1. txBuf.used >= Prefill
    BY <1>1, <1>7, Numbers DEF Tx!Low
  <2>2. PICK x \in Int : x = excess - txSem
    BY Numbers
  <2>3. excess - (txSem - 1) = x + 1 /\ played + x \in Int /\ (played + x) + 1 = played + (x + 1)
    BY <1>2, <2>2, Numbers
  <2>4. (((played + x) % Room) + 1) % Room = (played + (x + 1)) % Room
    BY <2>3, SlotAt
  <2>5. txBuf.read = (played + x) % Room
    BY <1>7, <2>2 DEF StreamInv
  <2>6. txBuf'.read = (played' + (excess' - txSem')) % Room
    BY <1>2, <1>3, <2>3, <2>4, <2>5
  <2>7. QED
    BY <1>3, <2>1, <2>6, Numbers
<1>8. ASSUME mode = "copy", NEW i \in Ready + 1 .. NrPeriods - 1
      PROVE  slot'[(played' + i) % NrPeriods] <= heard'
  <2>1. i \in Ready .. NrPeriods - 1 /\ i \in 0 .. NrPeriods - 1 /\ i # Ready
    BY <1>8, Numbers
  <2>2. slot'[(played + i) % NrPeriods] = slot[(played + i) % NrPeriods]
    BY <1>1, <1>2, <1>8, <2>1, SlotPut
  <2>3. slot[(played + i) % NrPeriods] <= heard
    BY <1>8, <2>1 DEF StreamInv
  <2>4. QED
    BY <1>2, <2>2, <2>3
<1>9. StreamInv'
  BY <1>2, <1>7, <1>8 DEF StreamInv
<1>10. QED
  BY <1>4, <1>6, <1>9

\* More periods behind the same ones tell the same, and then what they add.
LEMMA FollowsMore ==
  ASSUME NEW g, Follows(g), NEW m \in Nat, QLen' = QLen + m, heard' = heard, units \in Nat,
         \A i \in 0 .. QLen - 1 : Queue'[i] = Queue[i],
         NEW l \in Nat, NEW low \in Nat, l = Mark, low = Mark', l <= low,
         \/ /\ units' = units
            /\ \A j \in 0 .. m - 1 : Queue'[QLen + j] \in Nat /\ Queue'[QLen + j] <= low
         \/ units' = units + m /\ \A j \in 0 .. m - 1 : Queue'[QLen + j] = units + j + 1
  PROVE  \E f : Follows(f)' /\ \A i \in 0 .. QLen : f[i] = g[i]
<1>0. PICK n \in Nat, u \in Nat : n = QLen /\ u = units
  BY DEF Follows, Tells
<1>1. PICK c, d, h : c = Queue /\ d = Queue' /\ n = QLen /\ u = units /\ h = heard
  BY <1>0
<1>2. Tells(c, n, g, h, u, l)
  BY <1>1 DEF Follows
<1>3. \A i \in 0 .. n - 1 : c[i] = c[i]
  OBVIOUS
<1>4. Tells(c, n, g, h, u, low)
  BY <1>2, <1>3, TellsSame
<1>5. PICK v \in Nat : v = units'
  BY <1>1
<1>6. Adds(d, n, m, u, v, low)
  BY <1>1, <1>5 DEF Adds
<1>7. Agree(c, d, n)
  BY <1>1 DEF Agree
<1>8. PICK f : Tells(d, n + m, f, h, v, low) /\ Agree(g, f, n + 1)
  BY <1>0, <1>4, <1>5, <1>6, <1>7, TellsMore
<1>9. Follows(f)'
  BY <1>1, <1>5, <1>8 DEF Follows
<1>10. \A i \in 0 .. QLen : f[i] = g[i]
  BY <1>0, <1>8 DEF Agree
<1>11. QED
  BY <1>9, <1>10

\* The private buffer, when the circular buffer is empty: the slot that could
\* not be filled is kept or silenced, and silence may follow it.
LEMMA PopsSlot ==
  ASSUME TxTypes, Paced, Paced', TxTypes', Punctual, StreamInv, Tx!Pop, mode = "copy",
         txBuf.used = 0, NEW k \in Nat, txBuf'.used = k, txBuf'.read = txBuf.read,
         \A j \in 0 .. k - 1 : txBuf'.cell[(txBuf.read + j) % Room] = 0,
         NEW low \in Nat, low <= heard,
         (slot' = slot /\ low = heard) \/ slot' = [slot EXCEPT ![elapsed % NrPeriods] = 0]
  PROVE  /\ StreamInv' /\ QLen' = QLen + (k + 1) /\ QLen = Ready
         /\ \A i \in 0 .. QLen - 1 : Queue'[i] = Queue[i]
         /\ \A j \in 0 .. k : Queue'[QLen + j] \in Nat /\ Queue'[QLen + j] <= low
<1>1. /\ UNCHANGED <<mode, played, heard, excess>> /\ txSem' = txSem - 1 /\ txSem \in Nat \ {0}
      /\ Ready' = Ready + 1 /\ Ready + 1 \in 1 .. NrPeriods
      /\ elapsed' = (played' + Ready') % Room
      /\ elapsed % NrPeriods = (played + Ready) % NrPeriods
  BY Popped
<1>2. /\ Ready \in 1 .. NrPeriods - 1 /\ QLen = Ready /\ QLen' = Ready + 1 + k
      /\ heard \in Nat /\ txBuf.read \in Int
  BY <1>1, Numbers DEF QLen, Tx!Cells
<1>3. ASSUME NEW i \in 0 .. NrPeriods - 1, i # Ready
      PROVE  slot'[(played + i) % NrPeriods] = slot[(played + i) % NrPeriods]
  BY <1>1, <1>3, SlotPut
<1>4. slot[(played + Ready) % NrPeriods] \in Nat /\ slot[(played + Ready) % NrPeriods] <= heard
  <2>1. slot[(played + Ready) % NrPeriods] <= heard
    BY <1>2 DEF StreamInv
  <2>2. (played + Ready) % NrPeriods \in 0 .. NrPeriods - 1
    <3>1. PICK x \in Int : x = played + Ready
      BY Numbers
    <3>2. QED
      BY <3>1, Modulo, TxAssumed
  <2>3. \A x \in 0 .. NrPeriods - 1 : slot[x] \in 0 .. MaxUnits
    BY DEF TxTypes, Tx!TypeOK
  <2>4. \A x \in 0 .. MaxUnits : x \in Nat
    OBVIOUS
  <2>5. QED
    BY <2>1, <2>2, <2>3, <2>4
<1>5. slot'[(played + Ready) % NrPeriods] \in Nat /\ slot'[(played + Ready) % NrPeriods] <= low
  <2>1. CASE slot' = slot /\ low = heard
    BY <1>4, <2>1
  <2>2. CASE slot' = [slot EXCEPT ![elapsed % NrPeriods] = 0]
    <3>1. slot'[(played + Ready) % NrPeriods] = 0
      BY <1>1, <2>2, SlotPut
    <3>2. QED
      BY <3>1
  <2>3. QED
    BY <2>1, <2>2
<1>6. \A i \in 0 .. QLen - 1 : Queue'[i] = Queue[i]
  <2> TAKE i \in 0 .. QLen - 1
  <2>1. i \in 0 .. QLen' - 1 /\ i < Ready /\ i < Ready + 1 /\ i \in 0 .. NrPeriods - 1 /\ i # Ready
    BY <1>2, TxAssumed
  <2>2. Queue'[i] = slot'[(played + i) % NrPeriods]
    BY <1>1, <2>1 DEF Queue, Coming
  <2>3. Queue[i] = slot[(played + i) % NrPeriods]
    BY <2>1 DEF Queue, Coming
  <2>4. QED
    BY <1>3, <2>1, <2>2, <2>3
<1>7. \A j \in 0 .. k : Queue'[QLen + j] \in Nat /\ Queue'[QLen + j] <= low
  <2> TAKE j \in 0 .. k
  <2>1. QLen + j \in 0 .. QLen' - 1
    BY <1>2
  <2>2. CASE j = 0
    <3>1. QLen + j = Ready /\ Ready < Ready + 1
      BY <1>2, <2>2
    <3>2. Queue'[QLen + j] = slot'[(played + Ready) % NrPeriods]
      BY <1>1, <2>1, <3>1 DEF Queue, Coming
    <3>3. QED
      BY <1>5, <3>2
  <2>3. CASE j # 0
    <3>1. ~(QLen + j < Ready + 1) /\ (QLen + j) - (Ready + 1) = j - 1 /\ j - 1 \in 0 .. k - 1
      BY <1>2, <2>3
    <3>2. Queue'[QLen + j] = txBuf'.cell[(txBuf.read + (j - 1)) % Room]
      BY <1>1, <2>1, <3>1 DEF Queue, Coming
    <3>3. QED
      BY <3>1, <3>2
  <2>4. QED
    BY <2>2, <2>3
<1>8. ASSUME NEW i \in Ready + 1 .. NrPeriods - 1
      PROVE  slot'[(played' + i) % NrPeriods] <= heard'
  <2>1. i \in Ready .. NrPeriods - 1 /\ i \in 0 .. NrPeriods - 1 /\ i # Ready
    BY <1>2
  <2>2. slot[(played + i) % NrPeriods] <= heard
    BY <2>1 DEF StreamInv
  <2>3. QED
    BY <1>1, <1>3, <2>1, <2>2
<1>9. StreamInv'
  BY <1>1, <1>8 DEF StreamInv
<1>10. QED
  BY <1>2, <1>6, <1>7, <1>9

\* Zero copy, when less than the prefill is left: the worker writes silence
\* behind it and takes one period.
LEMMA PopsZeros ==
  ASSUME TxTypes, Paced, Paced', TxTypes', Punctual, StreamInv, Tx!Pop, mode = "zero",
         txBuf.used < Prefill, NEW n \in Nat \ {0},
         txBuf' = Tx!Written(Tx!Skip(txBuf), Tx!Zeros(n))
  PROVE  /\ StreamInv' /\ QLen \in Nat /\ txBuf.used > 0 /\ QLen < Tx!Ahead
         /\ \A i \in 0 .. QLen - 1 : Queue'[i] = Queue[i]
         /\ \E m \in Nat : /\ QLen' = QLen + m /\ (m >= n \/ m >= Tx!Ahead)
                           /\ \A j \in 0 .. m - 1 : Queue'[QLen + j] = 0
<1>1. /\ UNCHANGED <<mode, played, heard, excess>> /\ txSem' = txSem - 1 /\ txSem \in Nat \ {0}
      /\ elapsed' = (played' + Ready') % Room
  BY Popped
<1>2. PICK x \in Int : x = excess - txSem
  BY Numbers
<1>3. /\ txBuf.used = Prefill - 1 /\ Prefill >= 2 /\ txBuf.read = (played + x) % Room
      /\ x + 1 <= 1 /\ QLen = txBuf.used + x /\ played \in Int /\ 2 * Prefill <= Room + 1
      /\ Tx!Ahead = Prefill - 1 + excess /\ Tx!Ahead <= Prefill /\ Prefill \in Nat /\ Room \in Nat
  <2>1. MaxLate >= 1 /\ MaxLate < Prefill /\ MaxLate \in Nat
    BY TxAssumed DEF Punctual
  <2>2. txBuf.used >= Prefill - 1 /\ txBuf.read = (played + x) % Room
    BY <1>2 DEF StreamInv
  <2>3. QED
    BY <1>1, <1>2, <2>1, <2>2, Numbers DEF Tx!Ahead
<1>4. PICK b \in TxBuffers : /\ b = Tx!Skip(txBuf) /\ b.used = Prefill - 2 /\ b.cell = txBuf.cell
                             /\ b.read = (played + (x + 1)) % Room
  <2>1. txBuf \in TxBuffers /\ txBuf.used > 0
    BY <1>3, Numbers
  <2>2. (((played + x) % Room) + 1) % Room = (played + (x + 1)) % Room
    <3>1. PICK y \in Int : y = played + x
      BY <1>3
    <3>2. ((y % Room) + 1) % Room = (y + 1) % Room
      BY SlotAt
    <3>3. y + 1 = played + (x + 1)
      BY <1>3, <3>1
    <3>4. QED
      BY <3>1, <3>2, <3>3
  <2>3. QED
    BY <1>3, <2>1, <2>2, SkipIs
<1>5. PICK us : us = Tx!Zeros(n) /\ Periods(us, n) /\ \A j \in 1 .. n : us[j] = 0
  BY ZerosAre, TxAssumed DEF Periods
<1>6. PICK m \in Nat : /\ m = Tx!RoomFor(b, n) /\ m <= n /\ m <= Room + 1 - Prefill
                       /\ m >= 1 /\ (m >= n \/ m >= Tx!Ahead)
  <2>1. Tx!RoomFor(b, n) = IF n <= Room - 1 - b.used THEN n ELSE Room - 1 - b.used
    BY DEF Tx!RoomFor, Tx!Space
  <2>2. PICK m \in Int : m = IF n <= Room - 1 - b.used THEN n ELSE Room - 1 - b.used
    <3>1. PICK k \in Int : k = Room - 1 - b.used
      <4>1. Room - 1 - b.used = Room + 1 - Prefill /\ Room + 1 - Prefill \in Int
        BY <1>3, <1>4
      <4>2. QED
        BY <4>1
    <3>2. (IF n <= k THEN n ELSE k) \in Int
      OBVIOUS
    <3>3. QED
      BY <3>1, <3>2
  <2>3. m \in Nat /\ m <= n /\ m <= Room + 1 - Prefill /\ m >= 1 /\ (m >= n \/ m >= Tx!Ahead)
    <3>1. PICK a \in Int : a = Tx!Ahead
      BY <1>3, Numbers
    <3>2. QED
      BY <1>3, <1>4, <2>2, <3>1
  <2>4. QED
    BY <2>1, <2>2, <2>3
<1>7. txBuf'.read = b.read /\ txBuf'.used = (Prefill - 2) + m
  BY <1>4, <1>5, <1>6, WrittenIs DEF Periods
<1>8. QLen' = QLen + m /\ QLen \in Nat /\ QLen < Tx!Ahead
  <2>1. QLen' = txBuf'.used + excess - (txSem - 1)
    BY <1>1 DEF QLen
  <2>2. QLen \in Nat
    BY QueueIs
  <2>3. QED
    BY <1>1, <1>2, <1>3, <1>7, <2>1, <2>2, Numbers
<1>9. ASSUME NEW i \in 0 .. QLen + m - 1
      PROVE  Queue'[i] = IF i < QLen THEN txBuf.cell[(played + i) % Room] ELSE 0
  <2>1. i \in Int /\ -1 <= i - (x + 1) /\ i - (x + 1) <= Room - 2 /\ x + 1 \in Int
        /\ b.used + (x + 1) = QLen
    BY <1>3, <1>4, <1>6, <1>8
  <2>2. PICK y \in Int : y = x + 1 /\ At(b, played, y) /\ -1 <= i - y /\ i - y <= Room - 2
    BY <1>4, <2>1 DEF At
  <2>3. Tx!Written(b, us).cell[(played + i) % Room] =
          IF b.used + y <= i /\ i < b.used + y + Tx!RoomFor(b, n)
          THEN us[(i - (b.used + y)) + 1] ELSE b.cell[(played + i) % Room]
    <3>1. PICK p \in Int, k \in Int : p = played /\ k = i
      BY <1>3, <2>1
    <3>2. At(b, p, y) /\ -1 <= k - y /\ k - y <= Room - 2 /\ Periods(us, n) /\ n \in Nat
      BY <1>5, <2>2, <3>1
    <3>3. Tx!Written(b, us).cell[(p + k) % Room] =
            IF b.used + y <= k /\ k < b.used + y + Tx!RoomFor(b, n)
            THEN us[(k - (b.used + y)) + 1] ELSE b.cell[(p + k) % Room]
      BY <1>4, <2>2, <3>1, <3>2, WrittenBehind
    <3>4. QED
      BY <3>1, <3>3
  <2>4. Queue'[i] = txBuf'.cell[(played + i) % Room]
    BY <1>1, <1>8, <1>9 DEF Queue, Coming
  <2>5. CASE i < QLen
    BY <1>4, <1>5, <1>8, <2>1, <2>2, <2>3, <2>4, <2>5
  <2>6. CASE ~(i < QLen)
    <3>1. (i - QLen) + 1 \in 1 .. n
      BY <1>6, <1>8, <2>1, <2>6
    <3>2. QED
      BY <1>4, <1>5, <1>6, <1>8, <2>1, <2>2, <2>3, <2>4, <2>6, <3>1
  <2>7. QED
    BY <2>5, <2>6
<1>10. \A i \in 0 .. QLen - 1 : Queue'[i] = Queue[i]
  <2> TAKE i \in 0 .. QLen - 1
  <2>1. i \in 0 .. QLen + m - 1 /\ i < QLen
    BY <1>8
  <2>2. QED
    BY <1>9, <2>1 DEF Queue, Coming
<1>11. \A j \in 0 .. m - 1 : Queue'[QLen + j] = 0
  <2> TAKE j \in 0 .. m - 1
  <2>1. QLen + j \in 0 .. QLen + m - 1 /\ ~(QLen + j < QLen)
    BY <1>8
  <2>2. QED
    BY <1>9, <2>1
<1>12. StreamInv'
  <2>1. txBuf'.used >= Prefill - 1
    BY <1>3, <1>6, <1>7
  <2>2. excess' - txSem' = x + 1
    BY <1>1, <1>2, Numbers
  <2>3. QED
    BY <1>1, <1>4, <1>7, <2>1, <2>2 DEF StreamInv
<1>13. QED
  <2>1. txBuf.used > 0
    BY <1>3
  <2>2. \E k \in Nat : /\ QLen' = QLen + k /\ (k >= n \/ k >= Tx!Ahead)
                      /\ \A j \in 0 .. k - 1 : Queue'[QLen + j] = 0
    BY <1>6, <1>8, <1>11
  <2>3. QED
    BY <1>8, <1>10, <1>12, <2>1, <2>2

-----------------------------------------------------------------------------
(***************************************************************************)
(* The stream goes on                                                      *)
(***************************************************************************)

\* What a flush cuts off, and what the ending zeros make up for
LEMMA Cut ==
  ASSUME TxTypes, Paced, Punctual
  PROVE  /\ Tx!Ahead \in Nat /\ Tx!Ahead <= Prefill /\ Tx!Ahead = Prefill - 1 + excess
         /\ Tx!CutOff \in 0 .. Tx!Ahead
         /\ silence * Ratio \in Nat /\ Tx!Ahead - Tx!CutOff <= silence * Ratio
         /\ silence = 0 => Tx!CutOff = Tx!Ahead
         /\ silence > 0 => silence * Ratio > 0
<1>1. Tx!Ahead \in Nat /\ Tx!Ahead <= Prefill /\ Tx!Ahead = Prefill - 1 + excess
  BY Numbers DEF Tx!Ahead
<1>2. PICK s \in Nat, r \in Nat \ {0} : s = silence /\ r = Ratio
  BY Numbers
<1>3. s * r \in Nat /\ (s = 0 => s * r = 0) /\ (s > 0 => s * r > 0)
  BY <1>2
<1>4. PICK n \in Nat : n = silence * Ratio /\ (s = 0 => n = 0) /\ (s > 0 => n > 0)
  BY <1>2, <1>3
<1>5. Tx!CutOff = IF Tx!Ahead > n THEN Tx!Ahead - n ELSE 0
  BY <1>4 DEF Tx!CutOff
<1>6. QED
  BY <1>1, <1>2, <1>4, <1>5

\* Nothing changes what will be played.
LEMMA StreamSame ==
  ASSUME StreamOK, Streams' => Streams, Mark' = Mark, Padding' => Padding /\ due' = due,
         UNCHANGED <<mode, silence, txBuf, slot, played, elapsed, txSem, units, heard, excess>>
  PROVE  StreamOK'
<1> SUFFICES ASSUME Streams'
             PROVE  StreamInv' /\ \E g : Follows(g)' /\ Padded(g)'
  BY DEF StreamOK
<1>1. Ready' = Ready
  BY DEF Ready
<1>2. QLen' = QLen
  BY <1>1 DEF QLen
<1>3. Queue' = Queue
  BY <1>1, <1>2 DEF Queue, Coming
<1>4. StreamInv'
  BY <1>1 DEF StreamOK, StreamInv
<1>5. PICK g : Follows(g) /\ Padded(g)
  BY DEF StreamOK
<1>6. Follows(g)'
  BY <1>2, <1>3, <1>5 DEF Follows
<1>7. Padded(g)'
  BY <1>2, <1>5 DEF Padded, Tx!Ahead, Tx!CutOff
<1>8. QED
  BY <1>4, <1>6, <1>7

\* A worker that goes on has not paused the channel.
LEMMA WorkerKeeps ==
  ASSUME Tx!Worker
  PROVE  /\ UNCHANGED <<mode, silence, played, units, heard, spoilt, excess, drain, due, missed>>
         /\ Streams' => Streams
         /\ underrun => underrun'
<1>1. Tx!Woken
  BY DEF Tx!Worker, Tx!TxDiscard, Tx!PopPeriod, Tx!PopEndingZeros, Tx!PopStopRequests, Tx!PopInject,
         Tx!PopAssert, Tx!PopSleep, Tx!Pops, Tx!Pop
<1>2. txHalted = "none"
      /\ UNCHANGED <<mode, silence, played, units, heard, spoilt, excess, drain, due, missed>>
  BY <1>1 DEF Tx!Woken, Tx!Live, Tx!port, Tx!writer
<1>3. underrun => underrun'
  BY DEF Tx!Worker, Tx!TxDiscard, Tx!PopPeriod, Tx!PopEndingZeros, Tx!PopStopRequests, Tx!PopInject,
         Tx!PopAssert, Tx!PopSleep
<1>4. ASSUME Streams' PROVE Streams
  <2>1. txHw' \subseteq txHw /\ (txHw' = txHw \/ "Request" \notin txHw')
        /\ (txChan' = txChan \/ txChan = "run") /\ ("Started" \in txHw <=> "Started" \in txHw')
    <3>1. CASE Tx!PopStopRequests
      BY <3>1 DEF Tx!PopStopRequests
    <3>2. CASE ~Tx!PopStopRequests
      BY <3>2 DEF Tx!Worker, Tx!TxDiscard, Tx!PopPeriod, Tx!PopEndingZeros, Tx!PopInject,
                  Tx!PopAssert, Tx!PopSleep
    <3>3. QED
      BY <3>1, <3>2
  <2>2. txHalted' = "none" /\ txChan' # "none" /\ drain' # "drop"
        /\ {"Opened", "Prepared"} \subseteq txHw' /\ ("Started" \in txHw' => "Request" \in txHw')
    BY <1>4 DEF Streams
  <2>3. QED
    BY <1>2, <2>1, <2>2 DEF Streams
<1>5. QED
  BY <1>2, <1>3, <1>4

\* The worker reads a period.
LEMMA PopPeriodKeeps ==
  ASSUME PlaybackInv, StreamOK, Paced, Paced', TxTypes', Punctual, Tx!PopPeriod
  PROVE  StreamOK'
<1> SUFFICES ASSUME Streams'
             PROVE  StreamInv' /\ \E g : Follows(g)' /\ Padded(g)'
  BY DEF StreamOK
<1>1. TxTypes /\ Streams /\ StreamInv
  BY WorkerKeeps DEF Tx!Worker, PlaybackInv, StreamOK
<1>2. QLen' = QLen /\ Queue' = Queue /\ StreamInv'
  BY <1>1, PopsSame
<1>3. UNCHANGED <<mode, silence, units, heard, excess, due, txHw, flushed>>
  BY WorkerKeeps DEF Tx!Worker, Tx!PopPeriod
<1>4. PICK g : Follows(g) /\ Padded(g)
  BY <1>1 DEF StreamOK
<1>5. Follows(g)'
  BY <1>2, <1>3, <1>4 DEF Follows, Mark
<1>6. Padded(g)'
  BY <1>2, <1>3, <1>4 DEF Padded, Padding, Tx!Ahead, Tx!CutOff
<1>7. QED
  BY <1>2, <1>5, <1>6

\* The first underrun of a flush: the ending zeros come behind all units.
LEMMA PopEndingZerosKeeps ==
  ASSUME PlaybackInv, StreamOK, Paced, Paced', TxTypes', Punctual, Tx!PopEndingZeros
  PROVE  StreamOK'
<1> SUFFICES ASSUME Streams'
             PROVE  StreamInv' /\ \E g : Follows(g)' /\ Padded(g)'
  BY DEF StreamOK
<1>1. TxTypes /\ Streams /\ StreamInv
  BY WorkerKeeps DEF Tx!Worker, PlaybackInv, StreamOK
<1>2. /\ UNCHANGED <<mode, silence, units, heard, excess, due, txHw>> /\ flushed'
      /\ Tx!Pop /\ "Flushing" \in txHw /\ ~flushed
      /\ txBuf' = Tx!Written(Tx!Skip(txBuf), Tx!Zeros(silence * Ratio))
  BY WorkerKeeps DEF Tx!Worker, Tx!PopEndingZeros, Tx!ZerosWritten
<1>3. PICK g : Follows(g) /\ Padded(g)
  BY <1>1 DEF StreamOK
<1>4. "Started" \in txHw /\ silence \in Nat \ {0}
  BY <1>1, <1>2, Numbers DEF PlaybackInv, PortInv, FlushInv
<1>5. Mark = 0 /\ units \in Nat /\ heard \in Nat /\ due \in Nat /\ due <= units
  BY <1>1, <1>2, Numbers DEF Mark, PlaybackInv, PortInv
<1>6. PICK n \in Nat \ {0} : n = silence * Ratio /\ Tx!Ahead - Tx!CutOff <= n
  BY <1>1, <1>4, Cut
<1>7. PICK low \in Nat : low = Mark' /\ low = (IF mode = "copy" THEN heard ELSE 0)
  BY <1>2, <1>4, <1>5 DEF Mark
<1>8. /\ StreamInv' /\ QLen \in Nat /\ \A i \in 0 .. QLen - 1 : Queue'[i] = Queue[i]
      /\ \E m \in Nat : /\ QLen' = QLen + m /\ (m >= n \/ m >= Tx!Ahead)
                        /\ \A j \in 0 .. m - 1 : Queue'[QLen + j] \in Nat /\ Queue'[QLen + j] <= low
  <2>1. CASE mode = "zero"
    <3>1. txBuf.used < Prefill
      BY <1>1, Numbers DEF Tx!PopEndingZeros, Tx!Short, Tx!Low
    <3>2. /\ StreamInv' /\ QLen \in Nat /\ \A i \in 0 .. QLen - 1 : Queue'[i] = Queue[i]
          /\ \E m \in Nat : /\ QLen' = QLen + m /\ (m >= n \/ m >= Tx!Ahead)
                            /\ \A j \in 0 .. m - 1 : Queue'[QLen + j] = 0
      BY <1>1, <1>2, <1>6, <2>1, <3>1, PopsZeros
    <3>3. \A x \in {0} : x \in Nat /\ x <= low
      BY <1>7
    <3>4. QED
      BY <3>2, <3>3
  <2>2. CASE mode = "copy"
    <3>1. txBuf.used = 0 /\ slot' = slot
      BY <2>2 DEF Tx!PopEndingZeros, Tx!Short, Tx!Low, Tx!Read
    <3>2. /\ txBuf \in TxBuffers /\ Tx!Skip(txBuf) = txBuf /\ txBuf.read \in Int /\ Room \in Nat
          /\ Prefill < Room /\ Prefill \in Nat
      BY <1>1, <3>1, Numbers, SkipIs DEF Tx!Cells
    <3>3. PICK us : us = Tx!Zeros(n) /\ Len(us) = n
                    /\ \A j \in 1 .. n : us[j] = 0 /\ us[j] \in 0 .. MaxUnits
      BY ZerosAre, TxAssumed
    <3>4. PICK k \in Nat : k = Tx!RoomFor(txBuf, n) /\ k <= n /\ k <= Room - 1
                           /\ (k >= n \/ k >= Room - 1)
      <4>1. Tx!RoomFor(txBuf, n) = IF n <= Room - 1 - txBuf.used THEN n ELSE Room - 1 - txBuf.used
        BY DEF Tx!RoomFor, Tx!Space
      <4>2. QED
        BY <3>1, <3>2, <4>1
    <3>5. txBuf' = Tx!Written(txBuf, us) /\ txBuf'.read = txBuf.read /\ txBuf'.used = k
      BY <1>2, <1>6, <3>1, <3>2, <3>3, <3>4, WrittenIs
    <3>6. ASSUME NEW j \in 0 .. k - 1 PROVE txBuf'.cell[(txBuf.read + j) % Room] = 0
      <4>1. j \in -1 .. Room - 2 /\ (j - 0) + 1 \in 1 .. n /\ 0 <= j /\ j < 0 + k
        BY <3>2, <3>4
      <4>2. Tx!Written(txBuf, us).cell[(txBuf.read + j) % Room] =
              IF txBuf.used <= j /\ j < txBuf.used + Tx!RoomFor(txBuf, n)
              THEN us[(j - txBuf.used) + 1] ELSE txBuf.cell[(txBuf.read + j) % Room]
        BY <3>2, <3>3, <4>1, WrittenAt
      <4>3. QED
        BY <3>1, <3>3, <3>4, <3>5, <4>1, <4>2
    <3>7. low <= heard /\ low = heard
      BY <1>5, <1>7, <2>2
    <3>8. /\ StreamInv' /\ QLen' = QLen + (k + 1) /\ QLen = Ready
          /\ \A i \in 0 .. QLen - 1 : Queue'[i] = Queue[i]
          /\ \A j \in 0 .. k : Queue'[QLen + j] \in Nat /\ Queue'[QLen + j] <= low
      BY <1>1, <1>2, <2>2, <3>1, <3>5, <3>6, <3>7, PopsSlot
    <3>9. PICK m \in Nat : m = k + 1 /\ m - 1 = k /\ (m >= n \/ m >= Tx!Ahead)
      BY <1>1, <3>2, <3>4, Cut
    <3>10. QLen \in Nat
      BY <1>1, <3>8, Numbers
    <3>11. QED
      BY <3>8, <3>9, <3>10
  <2>3. QED
    BY <1>1, <2>1, <2>2, Numbers
<1>9. PICK m \in Nat :
        /\ QLen' = QLen + m /\ (m >= n \/ m >= Tx!Ahead)
        /\ \A j \in 0 .. m - 1 : Queue'[QLen + j] \in Nat /\ Queue'[QLen + j] <= low
  BY <1>8
<1>10. PICK f : Follows(f)' /\ \A i \in 0 .. QLen : f[i] = g[i]
  <2>1. PICK l \in Nat : l = Mark /\ l <= low
    BY <1>5, <1>7
  <2>2. QED
    BY <1>2, <1>3, <1>5, <1>7, <1>8, <1>9, <2>1, FollowsMore
<1>11. Padded(f)'
  <2>1. g[QLen] = units
    BY <1>3 DEF Follows, Tells
  <2>2. QLen \in 0 .. QLen' /\ due <= f[QLen] /\ QLen' - QLen = m
    BY <1>5, <1>8, <1>9, <1>10, <2>1
  <2>3. m >= Tx!Ahead - Tx!CutOff
    BY <1>1, <1>6, <1>9, Cut
  <2>4. Tx!Ahead' = Tx!Ahead /\ Tx!CutOff' = Tx!CutOff
    BY <1>2 DEF Tx!Ahead, Tx!CutOff
  <2>5. QED
    BY <1>2, <2>2, <2>3, <2>4 DEF Padded
<1>12. QED
  BY <1>8, <1>10, <1>11

\* An underrun without a flush: the permissive driver adds silence.
LEMMA PopInjectKeeps ==
  ASSUME PlaybackInv, StreamOK, Paced, Paced', TxTypes', Punctual, Tx!PopInject
  PROVE  StreamOK'
<1> SUFFICES ASSUME Streams'
             PROVE  StreamInv' /\ \E g : Follows(g)' /\ Padded(g)'
  BY DEF StreamOK
<1>1. TxTypes /\ Streams /\ StreamInv
  BY WorkerKeeps DEF Tx!Worker, PlaybackInv, StreamOK
<1>2. /\ UNCHANGED <<mode, silence, units, heard, excess, due, txHw, flushed>>
      /\ Tx!Pop /\ "Flushing" \notin txHw
  BY WorkerKeeps DEF Tx!Worker, Tx!PopInject
<1>3. PICK g : Follows(g) /\ Padded(g)
  BY <1>1 DEF StreamOK
<1>4. units \in Nat /\ heard \in Nat
  BY <1>1, Numbers
<1>5. PICK l \in Nat, low \in Nat : l = Mark /\ low = Mark' /\ l <= low
  <2>1. Mark' = Mark /\ Mark \in Nat
    BY <1>1, <1>2, Numbers DEF Mark
  <2>2. QED
    BY <2>1
<1>6. /\ StreamInv' /\ QLen \in Nat /\ \A i \in 0 .. QLen - 1 : Queue'[i] = Queue[i]
      /\ \E m \in Nat : /\ QLen' = QLen + m
                        /\ \A j \in 0 .. m - 1 : Queue'[QLen + j] \in Nat /\ Queue'[QLen + j] <= low
  <2>1. CASE mode = "zero"
    <3>1. txBuf.used < Prefill /\ Ratio \in Nat \ {0}
      BY <1>1, Numbers DEF Tx!PopInject, Tx!Short, Tx!Low
    <3>2. txBuf.used > 0
      <4>1. MaxLate >= 1 /\ MaxLate < Prefill /\ txBuf.used >= Prefill - 1 /\ MaxLate \in Nat
        BY <1>1, <2>1, TxAssumed DEF Punctual, StreamInv
      <4>2. QED
        BY <1>1, <4>1, Numbers
    <3>3. txBuf' = Tx!Written(Tx!Skip(txBuf), Tx!Zeros(Ratio))
      <4>1. txBuf.used # 0
        BY <1>1, <3>2, Numbers
      <4>2. QED
        BY <2>1, <4>1 DEF Tx!PopInject, Tx!Short
    <3>4. /\ StreamInv' /\ QLen \in Nat /\ \A i \in 0 .. QLen - 1 : Queue'[i] = Queue[i]
          /\ \E m \in Nat : /\ QLen' = QLen + m /\ (m >= Ratio \/ m >= Tx!Ahead)
                            /\ \A j \in 0 .. m - 1 : Queue'[QLen + j] = 0
      BY <1>1, <1>2, <2>1, <3>1, <3>3, PopsZeros
    <3>5. \A x \in {0} : x \in Nat /\ x <= low
      BY <1>5
    <3>6. QED
      BY <3>4, <3>5
  <2>2. CASE mode = "copy"
    <3>1. txBuf.used = 0 /\ txBuf' = txBuf /\ slot' = [slot EXCEPT ![elapsed % NrPeriods] = 0]
      BY <2>2 DEF Tx!PopInject, Tx!Short, Tx!Low, Tx!Into
    <3>2. PICK k \in Nat, o \in Nat : k = 0 /\ txBuf'.used = k /\ o = 0 /\ o <= heard
      BY <1>4, <3>1
    <3>3. txBuf'.read = txBuf.read
          /\ \A j \in 0 .. k - 1 : txBuf'.cell[(txBuf.read + j) % Room] = 0
      BY <3>1, <3>2
    <3>4. /\ StreamInv' /\ QLen' = QLen + (k + 1) /\ QLen = Ready
          /\ \A i \in 0 .. QLen - 1 : Queue'[i] = Queue[i]
          /\ \A j \in 0 .. k : Queue'[QLen + j] \in Nat /\ Queue'[QLen + j] <= o
      BY <1>1, <1>2, <2>2, <3>1, <3>2, <3>3, PopsSlot
    <3>5. QLen \in Nat
      BY <1>1, <3>4, Numbers
    <3>6. PICK m \in Nat : m = 1 /\ QLen' = QLen + m
      BY <3>2, <3>4
    <3>7. \A j \in 0 .. m - 1 : Queue'[QLen + j] \in Nat /\ Queue'[QLen + j] <= low
      <4> TAKE j \in 0 .. m - 1
      <4>1. j \in 0 .. k
        BY <3>2, <3>6
      <4>2. QED
        BY <1>5, <3>2, <3>4, <4>1
    <3>8. QED
      BY <3>4, <3>5, <3>6, <3>7
  <2>3. QED
    BY <1>1, <2>1, <2>2, Numbers
<1>7. PICK m \in Nat :
        /\ QLen' = QLen + m
        /\ \A j \in 0 .. m - 1 : Queue'[QLen + j] \in Nat /\ Queue'[QLen + j] <= low
  BY <1>6
<1>8. PICK f : Follows(f)' /\ \A i \in 0 .. QLen : f[i] = g[i]
  BY <1>2, <1>3, <1>4, <1>5, <1>6, <1>7, FollowsMore
<1>9. Padded(f)'
  BY <1>2 DEF Padded, Padding
<1>10. QED
  BY <1>6, <1>8, <1>9

\* When the requests are stopped, what is left is the prefill less the zeros.
LEMMA PopStopRequestsStops ==
  ASSUME PlaybackInv, StreamOK, StoppedInv, Paced, Punctual, Tx!PopStopRequests
  PROVE  StreamOK' /\ StoppedInv'
<1>1. /\ UNCHANGED <<mode, silence, units, heard, excess, due, drain>> /\ txSem > 0
      /\ flushed /\ "Flushing" \in txHw /\ "Started" \in txHw /\ txHw' = txHw \ {"Request"}
      /\ txChan' = IF txChan = "run" THEN "paused" ELSE txChan
      /\ {"Opened", "Prepared"} \subseteq txHw /\ txHalted = "none"
  BY WorkerKeeps DEF Tx!Worker, Tx!PopStopRequests, Tx!Pop, Tx!Pops, Tx!Woken, Tx!Live,
                     PlaybackInv, PortInv
<1>2. StreamOK'
  BY <1>1 DEF StreamOK, Streams
<1>3. Tx!CutOff' = Tx!CutOff
  BY <1>1 DEF Tx!CutOff, Tx!Ahead
<1>4. CASE txChan # "run"
  <2>1. SUFFICES ASSUME txHalted' = "none", drain' # "drop", txChan' = "paused",
                        {"Started", "Flushing", "Error"} \subseteq txHw'
                 PROVE  due' - heard' <= Tx!CutOff'
    BY <1>2 DEF StoppedInv
  <2>2. txHalted = "none" /\ drain # "drop" /\ txChan = "paused"
        /\ {"Started", "Flushing", "Error"} \subseteq txHw
    BY <1>1, <1>4, <2>1
  <2>3. due - heard <= Tx!CutOff
    BY <2>2 DEF StoppedInv
  <2>4. QED
    BY <1>1, <1>3, <2>3
<1>5. CASE txChan = "run"
  <2>0. SUFFICES ASSUME drain # "drop", "Error" \in txHw PROVE due - heard <= Tx!CutOff
    <3>1. SUFFICES ASSUME txHalted' = "none", drain' # "drop", txChan' = "paused",
                          {"Started", "Flushing", "Error"} \subseteq txHw'
                   PROVE  due' - heard' <= Tx!CutOff'
      BY <1>2 DEF StoppedInv
    <3>2. drain # "drop" /\ "Error" \in txHw
      BY <1>1, <3>1
    <3>3. QED
      BY <1>1, <1>3, <3>2
  <2>1. Streams /\ TxTypes
    BY <1>1, <1>5, <2>0 DEF Streams, PlaybackInv, PortInv
  <2>2. PICK g : Follows(g) /\ Padded(g)
    BY <2>1 DEF StreamOK
  <2>3. /\ heard \in Nat /\ due \in Nat /\ units \in Nat /\ due <= units /\ silence \in Nat
        /\ Tx!CutOff \in 0 .. Tx!Ahead /\ Tx!Ahead \in Nat /\ (silence = 0 => Tx!CutOff = Tx!Ahead)
    BY <2>1, Numbers, Cut DEF PlaybackInv, PortInv
  <2>4. QLen \in Nat /\ QLen <= Tx!Ahead
    <3>1. QLen \in Nat
      BY <2>1, QueueIs DEF StreamOK
    <3>2. CASE mode = "copy"
      <4>1. txBuf.used = 0
        BY <3>2 DEF Tx!PopStopRequests, Tx!Short, Tx!Low
      <4>2. QED
        <5>1. QLen = Ready + txBuf.used /\ Ready \in Int /\ Ready = Prefill + excess - txSem
          BY <2>1, <3>2, Numbers
        <5>2. txSem >= 1 /\ txSem \in Int /\ excess \in Int /\ Prefill \in Int
          BY <1>1, <2>1, Numbers
        <5>3. Tx!Ahead = Prefill - 1 + excess
          BY <2>1, Cut
        <5>4. QED
          BY <3>1, <4>1, <5>1, <5>2, <5>3
    <3>3. CASE mode = "zero"
      <4>1. txBuf.used < Prefill
        BY <2>1, Numbers DEF Tx!PopStopRequests, Tx!Short, Tx!Low
      <4>2. QED
        BY <1>1, <2>1, <3>1, <3>3, <4>1, Numbers, Cut
    <3>4. QED
      BY <2>1, <3>2, <3>3, Numbers
  <2>5. \A i \in 0 .. QLen : g[i] \in Nat /\ g[i] <= heard + i
    BY <2>2, TellsGrows DEF Follows
  <2>6. CASE silence = 0
    <3>1. g[QLen] = units /\ QLen \in 0 .. QLen
      BY <2>2, <2>4 DEF Follows, Tells
    <3>2. units <= heard + QLen
      BY <2>5, <3>1
    <3>3. QED
      BY <2>3, <2>4, <2>6, <3>2
  <2>7. CASE silence # 0
    <3>1. Padding
      BY <1>1, <2>0, <2>3, <2>7 DEF Padding
    <3>2. CASE due <= heard
      BY <2>3, <3>2
    <3>3. ASSUME NEW e \in 0 .. QLen, due <= g[e], QLen - e >= Tx!Ahead - Tx!CutOff
          PROVE  due - heard <= Tx!CutOff
      <4>1. g[e] \in Nat /\ g[e] <= heard + e
        BY <2>5
      <4>2. QED
        BY <2>3, <2>4, <3>3, <4>1
    <3>4. QED
      BY <2>2, <3>1, <3>2, <3>3 DEF Padded
  <2>8. QED
    BY <2>6, <2>7
<1>6. QED
  BY <1>2, <1>4, <1>5

\* The writer adds units behind all that is to be played.
LEMMA TxCopyKeeps ==
  ASSUME PlaybackInv, StreamOK, Paced, Paced', TxTypes', Punctual, Tx!TxCopy
  PROVE  StreamOK'
<1> SUFFICES ASSUME Streams'
             PROVE  StreamInv' /\ \E g : Follows(g)' /\ Padded(g)'
  BY DEF StreamOK
<1>1. /\ UNCHANGED <<mode, silence, slot, played, elapsed, txSem, heard, excess, due, txHw, flushed,
                     txChan, drain, txHalted>>
      /\ want > 0
  BY DEF Tx!TxCopy, Tx!port, Tx!ring, Tx!history
<1>2. TxTypes /\ Streams /\ StreamInv
  BY <1>1 DEF Streams, PlaybackInv, StreamOK
<1>3. PICK g : Follows(g) /\ Padded(g)
  BY <1>2 DEF StreamOK
<1>4. /\ want \in Nat /\ units \in Nat /\ heard \in Nat /\ units + want <= MaxUnits
      /\ MaxUnits \in Nat /\ txBuf \in TxBuffers /\ txBuf.used \in 0 .. Room - 1
      /\ Room \in Nat \ {0} /\ txBuf.read \in Int /\ played \in Int
  <2>1. want \in 0 .. Ratio /\ units + want <= MaxUnits
    BY <1>2 DEF TxTypes, Tx!TypeOK
  <2>2. txBuf \in TxBuffers /\ txBuf.used \in 0 .. Room - 1 /\ txBuf.read \in Tx!Cells
        /\ units \in Nat /\ heard \in Nat /\ played \in Int
    BY <1>2, Numbers
  <2>3. \A x \in Tx!Cells : x \in Int
    BY DEF Tx!Cells
  <2>4. QED
    BY <2>1, <2>2, <2>3, TxAssumed
<1>5. PICK n \in Nat : n = Tx!RoomFor(txBuf, want) /\ n <= want /\ n <= Room - 1 - txBuf.used
  <2>1. Tx!RoomFor(txBuf, want) = IF want <= Room - 1 - txBuf.used THEN want
                                  ELSE Room - 1 - txBuf.used
    BY DEF Tx!RoomFor, Tx!Space
  <2>2. QED
    BY <1>4, <2>1
<1>6. PICK us : us = [i \in 1 .. n |-> units + i]
  OBVIOUS
<1>7. txBuf' = Tx!Written(txBuf, us) /\ units' = units + n
  BY <1>5, <1>6 DEF Tx!TxCopy
<1>8. Periods(us, n) /\ \A j \in 1 .. n : us[j] = units + j
  BY <1>4, <1>5, <1>6 DEF Periods
<1>9. Tx!RoomFor(txBuf, n) = n
  BY <1>5 DEF Tx!RoomFor, Tx!Space
<1>10. txBuf'.read = txBuf.read /\ txBuf'.used = txBuf.used + n
  <2>1. Len(us) = n /\ \A j \in 1 .. n : us[j] \in 0 .. MaxUnits
    BY <1>8 DEF Periods
  <2>2. Tx!Written(txBuf, us).read = txBuf.read
        /\ Tx!Written(txBuf, us).used = txBuf.used + Tx!RoomFor(txBuf, n)
    BY <1>4, <2>1, WrittenIs
  <2>3. QED
    BY <1>7, <1>9, <2>2
<1>11. Ready' = Ready /\ Ready \in Int /\ Ready >= 1
  BY <1>1, <1>2, Numbers DEF Ready
<1>12. StreamInv'
  BY <1>1, <1>2, <1>4, <1>5, <1>10, <1>11, Numbers DEF StreamInv
<1>13. QLen' = QLen + n /\ QLen \in Nat
  <2>1. QLen' = IF mode = "copy" THEN Ready + (txBuf.used + n)
                ELSE (txBuf.used + n) + excess - txSem
    BY <1>1, <1>10, <1>11 DEF QLen
  <2>2. QLen \in Nat
    BY <1>2, QueueIs
  <2>3. QED
    BY <1>2, <2>1, <2>2, Numbers
<1>14. ASSUME NEW i \in 0 .. QLen + n - 1
       PROVE  Queue'[i] = IF i < QLen THEN Coming(i) ELSE units + (i - QLen) + 1
  <2>1. i \in Int /\ Queue'[i] = Coming(i)'
    BY <1>13 DEF Queue
  <2>2. ASSUME NEW p \in Int, NEW x \in Int, NEW k \in Int, At(txBuf, p, x), -1 <= k - x,
               k < txBuf.used + n + x
        PROVE  txBuf'.cell[(p + k) % Room] =
                 IF k < txBuf.used + x THEN txBuf.cell[(p + k) % Room]
                 ELSE units + (k - (txBuf.used + x)) + 1
    <3>1. k - x <= Room - 2
      BY <1>4, <1>5, <2>2
    <3>2. Tx!Written(txBuf, us).cell[(p + k) % Room] =
            IF txBuf.used + x <= k /\ k < txBuf.used + x + Tx!RoomFor(txBuf, n)
            THEN us[(k - (txBuf.used + x)) + 1] ELSE txBuf.cell[(p + k) % Room]
      BY <1>4, <1>8, <2>2, <3>1, WrittenBehind
    <3>3. CASE k < txBuf.used + x
      BY <1>4, <1>7, <2>2, <3>2, <3>3
    <3>4. CASE ~(k < txBuf.used + x)
      <4>1. (k - (txBuf.used + x)) + 1 \in 1 .. n
        BY <1>4, <2>2, <3>4
      <4>2. us[(k - (txBuf.used + x)) + 1] = units + ((k - (txBuf.used + x)) + 1)
        BY <1>8, <4>1
      <4>3. QED
        BY <1>4, <1>7, <1>9, <2>2, <3>2, <3>4, <4>2
    <3>5. QED
      BY <3>3, <3>4
  <2>3. CASE mode = "zero"
    <3>1. PICK x \in Int : x = excess - txSem
      BY <1>2, Numbers
    <3>2. At(txBuf, played, x) /\ QLen = txBuf.used + x /\ x <= 1
      BY <1>2, <2>3, <3>1, Numbers DEF At, StreamInv
    <3>3. -1 <= i - x /\ i < txBuf.used + n + x
      BY <1>4, <1>13, <2>1, <3>2
    <3>4. txBuf'.cell[(played + i) % Room] =
            IF i < txBuf.used + x THEN txBuf.cell[(played + i) % Room]
            ELSE units + (i - (txBuf.used + x)) + 1
      BY <1>4, <2>1, <2>2, <3>2, <3>3
    <3>5. QED
      BY <1>1, <2>1, <2>3, <3>2, <3>4 DEF Coming
  <2>4. CASE mode = "copy"
    <3>1. QLen = Ready + txBuf.used
      BY <1>2, <2>4, Numbers
    <3>2. CASE i < Ready
      <4>1. i < QLen
        BY <1>4, <1>11, <2>1, <3>1, <3>2
      <4>2. QED
        BY <1>1, <1>11, <2>1, <2>4, <3>2, <4>1 DEF Coming
    <3>3. CASE ~(i < Ready)
      <4>1. PICK k \in Int, o \in Int :
              k = i - Ready /\ o = 0 /\ -1 <= k - o /\ k < txBuf.used + n + o
              /\ (k < txBuf.used + o <=> i < QLen) /\ k - (txBuf.used + o) = i - QLen
        BY <1>4, <1>11, <1>13, <2>1, <3>1, <3>3
      <4>2. At(txBuf, txBuf.read, o)
        <5>1. 0 <= txBuf.read /\ txBuf.read < Room /\ txBuf.read + o = txBuf.read
          BY <1>2, <4>1, Numbers DEF Tx!Cells
        <5>2. QED
          BY <1>4, <5>1, Modulo DEF At
      <4>3. txBuf'.cell[(txBuf.read + k) % Room] =
              IF k < txBuf.used + o THEN txBuf.cell[(txBuf.read + k) % Room]
              ELSE units + (k - (txBuf.used + o)) + 1
        <5>1. PICK p \in Int : p = txBuf.read
          BY <1>4
        <5>2. At(txBuf, p, o)
          BY <4>2, <5>1
        <5>3. txBuf'.cell[(p + k) % Room] =
                IF k < txBuf.used + o THEN txBuf.cell[(p + k) % Room]
                ELSE units + (k - (txBuf.used + o)) + 1
          BY <2>2, <4>1, <5>2
        <5>4. QED
          BY <5>1, <5>3
      <4>4. QED
        BY <1>1, <1>10, <1>11, <2>1, <2>4, <3>3, <4>1, <4>3 DEF Coming
    <3>4. QED
      BY <3>2, <3>3
  <2>5. QED
    BY <1>2, <2>3, <2>4, Numbers
<1>15. \A i \in 0 .. QLen - 1 : Queue'[i] = Queue[i]
  <2> TAKE i \in 0 .. QLen - 1
  <2>1. i \in 0 .. QLen + n - 1 /\ i < QLen
    BY <1>13
  <2>2. QED
    BY <1>14, <2>1 DEF Queue
<1>16. \A j \in 0 .. n - 1 : Queue'[QLen + j] = units + j + 1
  <2> TAKE j \in 0 .. n - 1
  <2>1. QLen + j \in 0 .. QLen + n - 1 /\ ~(QLen + j < QLen) /\ (QLen + j) - QLen = j
    BY <1>13
  <2>2. QED
    BY <1>14, <2>1
<1>17. PICK l \in Nat, low \in Nat : l = Mark /\ low = Mark' /\ l <= low
  <2>1. Mark' = Mark /\ Mark \in Nat
    BY <1>1, <1>2, Numbers DEF Mark
  <2>2. QED
    BY <2>1
<1>18. PICK f : Follows(f)' /\ \A i \in 0 .. QLen : f[i] = g[i]
  BY <1>1, <1>3, <1>4, <1>7, <1>13, <1>15, <1>16, <1>17, FollowsMore
<1>19. Padded(f)'
  <2> SUFFICES ASSUME Padding
               PROVE  due <= heard \/ \E e \in 0 .. QLen + n :
                        due <= f[e] /\ (QLen + n) - e >= Tx!Ahead - Tx!CutOff
    BY <1>1, <1>13 DEF Padded, Padding, Tx!Ahead, Tx!CutOff
  <2>1. ASSUME NEW e \in 0 .. QLen, due <= g[e], QLen - e >= Tx!Ahead - Tx!CutOff
        PROVE  e \in 0 .. QLen + n /\ due <= f[e] /\ (QLen + n) - e >= Tx!Ahead - Tx!CutOff
    <3>1. PICK a \in Int : a = Tx!Ahead - Tx!CutOff
      BY <1>2, Cut
    <3>2. QED
      BY <1>13, <1>18, <2>1, <3>1
  <2>2. QED
    BY <1>3, <2>1 DEF Padded
<1>20. QED
  BY <1>12, <1>18, <1>19

\* A stream that was set up begins with the prefill, all of it silence.
LEMMA TxSetupKeeps ==
  ASSUME TxTypes, PortInv, Tx!TxSetup
  PROVE  StreamOK'
<1>1. /\ UNCHANGED <<mode, silence, txSem, units, due>> /\ "Started" \notin txHw
      /\ txHw' = txHw \cup {"Prepared"} /\ txChan = "none" /\ closing = "none"
      /\ txBuf' = [txBuf EXCEPT !.read = 0, !.used = IF mode = "zero" THEN Prefill ELSE 0]
      /\ slot' = (IF mode = "copy" THEN Tx!NoSlots ELSE slot)
      /\ played' = 0 /\ elapsed' = Prefill /\ heard' = units /\ excess' = txSem
  BY DEF Tx!TxSetup, Tx!Call, Tx!port, Tx!writer
<1>2. /\ txSem \in Nat /\ units \in Nat /\ mode \in {"copy", "zero"} /\ txBuf \in TxBuffers
      /\ Prefill \in Nat \ {0} /\ Room \in Nat \ {0} /\ NrPeriods \in Nat \ {0}
      /\ Prefill <= NrPeriods /\ Prefill < Room
  <2>1. mode \in Modes /\ txSem \in 0 .. MaxPosts /\ units \in 0 .. MaxUnits /\ txBuf \in TxBuffers
    BY DEF TxTypes, Tx!TypeOK, TxBuffers
  <2>2. QED
    BY <2>1, TxAssumed
<1>3. txBuf'.cell = txBuf.cell /\ txBuf'.read = 0
      /\ txBuf'.used = IF mode = "zero" THEN Prefill ELSE 0
  BY <1>1, <1>2 DEF TxBuffers
<1>4. \A i \in Tx!Cells : txBuf.cell[i] = 0
  BY <1>1 DEF PortInv
<1>5. Ready' = Prefill /\ QLen' = Prefill /\ excess' - txSem' = 0
  <2>1. Prefill + txSem - txSem = Prefill /\ Prefill + 0 = Prefill /\ txSem - txSem = 0
    BY <1>2
  <2>2. Ready' = Prefill
    BY <1>1, <2>1 DEF Ready
  <2>3. QED
    BY <1>1, <1>2, <1>3, <2>1, <2>2 DEF QLen
<1>6. ASSUME NEW i \in 0 .. NrPeriods - 1
      PROVE  mode = "copy" => slot'[(played' + i) % NrPeriods] = 0
  <2>1. (0 + i) % NrPeriods \in 0 .. NrPeriods - 1
    BY <1>2, Modulo
  <2>2. QED
    BY <1>1, <2>1 DEF Tx!NoSlots
<1>7. ASSUME NEW i \in 0 .. Prefill - 1 PROVE Queue'[i] = 0
  <2>1. i \in 0 .. QLen' - 1 /\ i < Ready' /\ i \in 0 .. NrPeriods - 1
    BY <1>2, <1>5
  <2>2. Queue'[i] = IF mode = "zero" THEN txBuf.cell[(0 + i) % Room]
                   ELSE slot'[(played' + i) % NrPeriods]
    BY <1>1, <1>3, <2>1 DEF Queue, Coming
  <2>3. (0 + i) % Room \in Tx!Cells
    BY <1>2, Modulo DEF Tx!Cells
  <2>4. QED
    BY <1>2, <1>4, <1>6, <2>1, <2>2, <2>3
<1>8. PICK g : g = [i \in 0 .. Prefill |-> units]
  OBVIOUS
<1>9. Follows(g)'
  <2>1. g[0] = heard' /\ g[QLen'] = units'
    BY <1>1, <1>2, <1>5, <1>8
  <2>2. ASSUME NEW i \in 0 .. QLen' - 1 PROVE g[i + 1] = g[i] /\ Queue'[i] = 0
    <3>1. i \in 0 .. Prefill - 1 /\ i \in 0 .. Prefill /\ i + 1 \in 0 .. Prefill
      BY <1>2, <1>5
    <3>2. QED
      BY <1>7, <1>8, <3>1
  <2>3. Mark' = 0 /\ 0 <= 0 /\ 0 \in Nat
    BY <1>1 DEF Mark
  <2>4. QLen' \in Nat /\ heard' \in Nat
    BY <1>1, <1>2, <1>5
  <2>5. QED
    BY <2>1, <2>2, <2>3, <2>4 DEF Follows, Tells
<1>10. Padded(g)'
  BY <1>1 DEF Padded, Padding, PortInv
<1>11. StreamInv'
  <2>1. Prefill % Room = Prefill /\ 0 % Room = 0
    BY <1>2, Modulo
  <2>2. elapsed' = (played' + Ready') % Room
    BY <1>1, <1>2, <1>5, <2>1
  <2>3. mode' = "zero" => txBuf'.used >= Prefill - 1
                          /\ txBuf'.read = (played' + (excess' - txSem')) % Room
    BY <1>1, <1>2, <1>3, <1>5, <2>1
  <2>4. ASSUME mode' = "copy", NEW i \in Ready' .. NrPeriods - 1
        PROVE  slot'[(played' + i) % NrPeriods] <= heard'
    <3>1. i \in 0 .. NrPeriods - 1
      BY <1>2, <1>5
    <3>2. QED
      BY <1>1, <1>2, <1>6, <2>4, <3>1
  <2>5. QED
    BY <2>2, <2>3, <2>4 DEF StreamInv
<1>12. QED
  BY <1>9, <1>10, <1>11 DEF StreamOK

-----------------------------------------------------------------------------
(***************************************************************************)
(* The flags and the calls                                                 *)
(***************************************************************************)

\* Silence is written to a buffer that holds nothing else.
LEMMA StaysSilent ==
  ASSUME NEW b \in TxBuffers, \A i \in Tx!Cells : b.cell[i] = 0, NEW n \in Nat
  PROVE  \A i \in Tx!Cells : Tx!Written(b, Tx!Zeros(n)).cell[i] = 0
<1>1. PICK us : /\ us = Tx!Zeros(n) /\ Len(us) = n
                /\ \A j \in 1 .. n : us[j] = 0 /\ us[j] \in 0 .. MaxUnits
  BY ZerosAre, TxAssumed
<1>2. PICK k \in 0 .. n : k = Tx!RoomFor(b, n)
  BY <1>1, WrittenIs
<1>3. \A i \in Tx!Cells :
        Tx!Written(b, us).cell[i] = IF Tx!Behind(b, i) < k THEN us[Tx!Behind(b, i) + 1]
                                    ELSE b.cell[i]
  BY <1>1, <1>2, WrittenIs
<1>4. ASSUME NEW i \in Tx!Cells PROVE Tx!Behind(b, i) \in Nat
  <2>1. PICK x \in Int : x = i - b.read - b.used
    BY TxAssumed DEF TxBuffers, Tx!Cells
  <2>2. x % Room \in 0 .. Room - 1
    BY TxAssumed, Modulo
  <2>3. QED
    BY <2>1, <2>2, TxAssumed DEF Tx!Behind
<1>5. ASSUME NEW i \in Tx!Cells, Tx!Behind(b, i) < k PROVE us[Tx!Behind(b, i) + 1] = 0
  <2>1. Tx!Behind(b, i) + 1 \in 1 .. n
    BY <1>2, <1>4, <1>5
  <2>2. QED
    BY <1>1, <2>1
<1>6. QED
  BY <1>1, <1>3, <1>5

\* While no channel is held, what the worker does adds nothing but silence.
Quiet == \A i \in Tx!Cells : txBuf.cell[i] = 0

\* The worker leaves a buffer that holds nothing but zeros as it is, or adds zeros.
LEMMA WorkerQuiet ==
  ASSUME TxTypes, Quiet, Tx!Worker
  PROVE  Quiet'
<1>1. /\ txBuf \in TxBuffers /\ Tx!Skip(txBuf) \in TxBuffers /\ Tx!Skip(txBuf).cell = txBuf.cell
      /\ silence * Ratio \in Nat /\ Ratio \in Nat
  <2>1. txBuf \in TxBuffers /\ silence \in Silences
    BY DEF TxTypes, Tx!TypeOK, TxBuffers
  <2>2. silence \in Nat /\ Ratio \in Nat
    BY <2>1, TxAssumed
  <2>3. silence * Ratio \in Nat
    BY <2>2
  <2>4. QED
    BY <2>1, <2>2, <2>3, SkipIs
<1>2. ASSUME NEW n \in Nat
      PROVE  /\ \A i \in Tx!Cells : Tx!Written(Tx!Skip(txBuf), Tx!Zeros(n)).cell[i] = 0
             /\ Tx!Written(Tx!Skip(txBuf), Tx!Zeros(n)) \in TxBuffers
  <2>1. \A i \in Tx!Cells : Tx!Skip(txBuf).cell[i] = 0
    BY <1>1 DEF Quiet
  <2>2. PICK us : us = Tx!Zeros(n) /\ Len(us) = n /\ \A j \in 1 .. n : us[j] \in 0 .. MaxUnits
    BY ZerosAre, TxAssumed
  <2>3. Tx!Written(Tx!Skip(txBuf), us) \in TxBuffers
    BY <1>1, <2>2, WrittenIs
  <2>4. QED
    BY <1>1, <2>1, <2>2, <2>3, StaysSilent
<1>3. CASE Tx!TxDiscard \/ Tx!PopPeriod \/ Tx!PopStopRequests \/ Tx!PopAssert \/ Tx!PopSleep
  BY <1>1, <1>3
     DEF Tx!TxDiscard, Tx!PopPeriod, Tx!PopStopRequests, Tx!PopAssert, Tx!PopSleep, Quiet
<1>4. CASE Tx!PopEndingZeros
  BY <1>1, <1>2, <1>4 DEF Tx!PopEndingZeros, Quiet
<1>5. CASE Tx!PopInject
  <2>1. \/ txBuf' = txBuf \/ txBuf' = Tx!Written(Tx!Skip(txBuf), Tx!Zeros(Ratio))
        \/ txBuf' = Tx!Skip(Tx!Written(Tx!Skip(txBuf), Tx!Zeros(Ratio)))
    BY <1>5 DEF Tx!PopInject
  <2>2. PICK b \in TxBuffers : b = Tx!Written(Tx!Skip(txBuf), Tx!Zeros(Ratio))
                               /\ \A i \in Tx!Cells : b.cell[i] = 0
    BY <1>1, <1>2
  <2>3. Tx!Skip(b).cell = b.cell
    BY SkipIs
  <2>4. QED
    BY <2>1, <2>2, <2>3 DEF Quiet
<1>6. QED
  BY <1>3, <1>4, <1>5 DEF Tx!Worker

\* Each step keeps what the flags, the channel and the calls say of each other,
\* and what a flush has done so far.
LEMMA PortStep ==
  ASSUME TxTypes, PortInv, FlushInv, [Tx!Next]_(Tx!vars)
  PROVE  PortInv' /\ FlushInv'
<1> USE DEF PortInv, FlushInv, Tx!port, Tx!writer, Tx!ring, Tx!history, Tx!Live
<1>0. units \in Nat /\ due \in Nat /\ heard \in Nat /\ want \in Nat /\ silence \in Nat
      /\ txChan \in {"none", "paused", "run"} /\ flushed \in BOOLEAN
  <2>1. /\ units \in 0 .. MaxUnits /\ due \in 0 .. MaxUnits /\ heard \in 0 .. MaxUnits
        /\ want \in 0 .. Ratio /\ silence \in Silences
        /\ txChan \in {"none", "paused", "run"} /\ flushed \in BOOLEAN
    BY DEF TxTypes, Tx!TypeOK
  <2>2. QED
    BY <2>1, TxAssumed
<1>1. CASE UNCHANGED Tx!vars
  BY <1>1 DEF Tx!vars
<1>2. CASE Tx!TxPeriod
  BY <1>2 DEF Tx!TxPeriod
<1>3. CASE Tx!FifoEmpty \/ Tx!FifoStall
  <2>1. /\ {"Started", "Error", "Flushing"} \subseteq txHw /\ txHw' = txHw \ {"Error", "Flushing"}
        /\ drain' \in {drain, "flush", "stall"}
        /\ UNCHANGED <<silence, txBuf, txChan, flushed, want, units, closing, heard, due>>
        /\ (drain = "drop" => drain' = "drop")
    BY <1>3 DEF Tx!FifoEmpty, Tx!FifoStall, Tx!Drained
  <2>2. drain = "drop" \/ want >= 0
    BY <1>0
  <2>3. QED
    BY <2>1
<1>4. CASE Tx!Worker
  <2>1. /\ UNCHANGED <<silence, want, units, closing, heard, drain, due>>
        /\ "Opened" \in txHw \/ UNCHANGED <<txHw, txChan, flushed>>
    BY <1>4 DEF Tx!Worker, Tx!TxDiscard, Tx!PopPeriod, Tx!PopEndingZeros, Tx!PopStopRequests,
                Tx!PopInject, Tx!PopAssert, Tx!PopSleep, Tx!Pop, Tx!Pops, Tx!Woken
  <2>2. Quiet => Quiet'
    BY <1>4, WorkerQuiet
  <2>3. \/ txHw' = txHw /\ txChan' = txChan /\ flushed' = flushed
        \/ txHw' = txHw /\ txChan' = txChan /\ flushed' = TRUE /\ "Flushing" \in txHw
        \/ /\ txHw' = txHw \ {"Request"} /\ flushed' = flushed /\ flushed /\ "Flushing" \in txHw
           /\ txChan' = IF txChan = "run" THEN "paused" ELSE txChan
    BY <1>4 DEF Tx!Worker, Tx!TxDiscard, Tx!PopPeriod, Tx!PopEndingZeros, Tx!PopStopRequests,
                Tx!PopInject, Tx!PopAssert, Tx!PopSleep, Tx!ZerosWritten
  <2>4. txChan' = "none" => txChan = "none"
    BY <2>3
  <2>5. (txChan' = "none" /\ closing' = "none" => heard' = units' /\ Quiet')
    BY <2>1, <2>2, <2>4 DEF Quiet
  <2>6. QED
    BY <2>1, <2>3, <2>5 DEF Quiet
<1>5. CASE Tx!TxOpen
  BY <1>5, TxAssumed DEF Tx!TxOpen, Tx!Cleared
<1>6. CASE Tx!TxSetup
  BY <1>6 DEF Tx!TxSetup, Tx!Call
<1>7. CASE Tx!TxStart
  BY <1>0, <1>7 DEF Tx!TxStart, Tx!NoEndingZeros
<1>8. CASE Tx!TxStop
  BY <1>8 DEF Tx!TxStop, Tx!Stopped, Tx!Call
<1>9. CASE Tx!TxClose
  BY <1>9 DEF Tx!TxClose, Tx!Stopped, Tx!Call
<1>10. CASE Tx!TxReset
  BY <1>10 DEF Tx!TxReset, Tx!Cleared
<1>11. CASE Tx!TxFlush
  BY <1>0, <1>11 DEF Tx!TxFlush, Tx!Call
<1>12. CASE Tx!TxDrop
  <2>1. txBuf'.cell = txBuf.cell
    BY <1>12 DEF Tx!TxDrop, TxTypes, Tx!TypeOK
  <2>2. QED
    BY <1>0, <1>12, <2>1 DEF Tx!TxDrop, Tx!Call
<1>13. CASE Tx!TxWrite
  <2>1. UNCHANGED <<silence, txHw, txBuf, txChan, flushed, units, closing, heard, drain, due>>
        /\ txChan # "none" /\ drain # "drop" /\ closing = "none"
    BY <1>13 DEF Tx!TxWrite
  <2>2. QED
    BY <2>1
<1>14. CASE Tx!TxCopy
  <2>1. /\ UNCHANGED <<silence, txHw, txChan, flushed, closing, heard, drain, due>> /\ want > 0
        /\ units' = units + Tx!RoomFor(txBuf, want)
    BY <1>14 DEF Tx!TxCopy
  <2>2. Tx!RoomFor(txBuf, want) \in Nat
    <3>1. txBuf.used \in 0 .. Room - 1
      BY DEF TxTypes, Tx!TypeOK
    <3>2. QED
      BY <1>0, <3>1, TxAssumed DEF Tx!RoomFor, Tx!Space
  <2>3. due' <= units' /\ closing = "none" /\ txChan # "none" /\ drain # "drop"
    BY <1>0, <2>1, <2>2
  <2>4. QED
    BY <2>1, <2>3
<1>15. CASE Tx!PopResume
  BY <1>15 DEF Tx!PopResume
<1>16. QED
  BY <1>1, <1>2, <1>3, <1>4, <1>5, <1>6, <1>7, <1>8, <1>9, <1>10, <1>11, <1>12, <1>13, <1>14,
     <1>15 DEF Tx!Next

-----------------------------------------------------------------------------
(***************************************************************************)
(* What is written is played                                               *)
(***************************************************************************)

\* No step of the model but those of the FIFO reports the end of a flush.
LEMMA DrainSame ==
  ASSUME DrainIsComplete, UNCHANGED <<excess, silence, missed>>, underrun => underrun',
         drain' = "flush" => drain = "flush"
  PROVE  DrainIsComplete'
<1>1. Tx!CutOff' = Tx!CutOff
  BY DEF Tx!CutOff, Tx!Ahead
<1>2. QED
  BY <1>1 DEF DrainIsComplete, Tx!DrainIsComplete, Tx!FewLeft

\* What a stopped port owes does not change in a step that leaves it stopped.
LEMMA StoppedSame ==
  ASSUME StoppedInv, UNCHANGED <<excess, silence, heard>>,
         /\ txHalted' = "none" /\ drain' # "drop" /\ txChan' = "paused"
         /\ {"Started", "Flushing", "Error"} \subseteq txHw'
         => /\ txHalted = "none" /\ drain # "drop" /\ txChan = "paused"
            /\ {"Started", "Flushing", "Error"} \subseteq txHw
            /\ due' = due
  PROVE  StoppedInv'
<1>1. Tx!CutOff' = Tx!CutOff
  BY DEF Tx!CutOff, Tx!Ahead
<1>2. SUFFICES ASSUME txHalted' = "none", drain' # "drop", txChan' = "paused",
                      {"Started", "Flushing", "Error"} \subseteq txHw'
               PROVE  due' - heard' <= Tx!CutOff'
  BY DEF StoppedInv
<1>3. due' = due /\ due - heard <= Tx!CutOff
  BY <1>2 DEF StoppedInv
<1>4. QED
  BY <1>1, <1>3

\* At the end of a flush what was not played is what the stop of the requests left.
LEMMA FifoDrains ==
  ASSUME PlaybackInv, StoppedInv, DrainIsComplete, Paced, Punctual, ~underrun,
         Tx!FifoEmpty \/ Tx!FifoStall
  PROVE  DrainIsComplete'
<1>1. /\ {"Started", "Error", "Flushing"} \subseteq txHw /\ txHalted = "none"
      /\ missed' = (IF due > heard THEN due - heard ELSE 0)
      /\ UNCHANGED <<excess, silence>>
  BY DEF Tx!FifoEmpty, Tx!FifoStall, Tx!Drained, Tx!Live, Tx!port
<1>2. Tx!CutOff' = Tx!CutOff
  BY <1>1 DEF Tx!CutOff, Tx!Ahead
<1>3. SUFFICES ASSUME drain' = "flush" PROVE missed' <= Tx!CutOff
  BY <1>2 DEF DrainIsComplete, Tx!DrainIsComplete
<1>4. Tx!FifoEmpty /\ drain # "drop"
  BY <1>1, <1>3 DEF PlaybackInv, FlushInv, Tx!FifoEmpty, Tx!FifoStall, Tx!Drained
<1>5. txChan # "run" /\ txChan \in {"none", "paused", "run"}
  BY <1>4 DEF Tx!FifoEmpty, PlaybackInv, PortInv, TxTypes, Tx!TypeOK
<1>6. TxTypes /\ due \in Nat /\ heard \in Nat /\ Tx!CutOff \in Nat
  BY Numbers, Cut DEF PlaybackInv
<1>7. CASE txChan = "paused"
  <2>1. due - heard <= Tx!CutOff
    BY <1>1, <1>4, <1>7 DEF StoppedInv
  <2>2. QED
    BY <1>1, <1>6, <2>1
<1>8. CASE txChan = "none"
  <2>1. heard = units /\ due <= units
    BY <1>1, <1>8 DEF PlaybackInv, PortInv
  <2>2. QED
    BY <1>1, <1>6, <2>1
<1>9. QED
  BY <1>5, <1>7, <1>8

\* The invariant holds at the start,
LEMMA PlaybackInit ==
  ASSUME Init
  PROVE  PlaybackInv
<1>1. TxTypes
  BY TxTypeInit DEF Init
<1>2. /\ txHw = {} /\ txBuf = Tx!Cleared /\ txChan = "none" /\ want = 0 /\ units = 0 /\ due = 0
      /\ closing = "none" /\ heard = 0 /\ ~spoilt /\ drain = "none" /\ flushed = FALSE
      /\ asleep = FALSE /\ txSem = 0
  BY DEF Init, Tx!Init
<1>3. PortInv /\ FlushInv
  BY <1>2 DEF PortInv, FlushInv, Tx!Cleared
<1>4. StreamOK /\ StoppedInv /\ DrainIsComplete
  BY <1>2 DEF StreamOK, Streams, StoppedInv, DrainIsComplete, Tx!DrainIsComplete
<1>5. txSem <= MaxLate
  BY <1>2, TxAssumed
<1>6. QED
  BY <1>1, <1>2, <1>3, <1>4, <1>5 DEF PlaybackInv

\* and a setup begins anew: nothing of an earlier stream counts.
LEMMA SetupStep ==
  ASSUME PlaybackInv, Tx!TxSetup
  PROVE  PlaybackInv'
<1>1. TxTypes' /\ PortInv' /\ FlushInv'
  BY TxTypeStep, PortStep DEF PlaybackInv, Tx!Next
<1>2. /\ "Started" \notin txHw' /\ closing = "none" /\ "Started" \notin txHw /\ drain' = drain
      /\ spoilt' = FALSE /\ underrun' = asleep /\ excess' = txSem
      /\ UNCHANGED <<txSem, asleep>>
  BY DEF Tx!TxSetup, Tx!Call
<1>3. asleep' => underrun'
  BY <1>2
<1>4. StreamOK' /\ StoppedInv'
  BY <1>2, TxSetupKeeps DEF PlaybackInv, StoppedInv
<1>5. DrainIsComplete'
  BY <1>2 DEF PlaybackInv, FlushInv, DrainIsComplete, Tx!DrainIsComplete
<1>6. Tx!FewLeft' => txSem' <= MaxLate
  <2>1. txSem \in Nat
    BY TxAssumed DEF PlaybackInv, TxTypes, Tx!TypeOK
  <2>2. QED
    BY <1>2, <2>1, TxAssumed DEF Tx!FewLeft
<1>7. QED
  BY <1>1, <1>2, <1>3, <1>4, <1>5, <1>6 DEF PlaybackInv

\* Every other step keeps what is said of a stream without an underrun.
LEMMA PlaybackStep ==
  ASSUME PlaybackInv, Punctual, [Tx!Next]_(Tx!vars), ~Tx!TxSetup
  PROVE  PlaybackInv'
<1>1. TxTypes' /\ PortInv' /\ FlushInv'
  BY TxTypeStep, PortStep DEF PlaybackInv
<1>2. /\ (underrun => underrun') /\ (asleep' => underrun') /\ excess' = excess
      /\ Tx!TxPeriod \/ txSem' \in {txSem, txSem - 1}
  <2>1. CASE Tx!Worker
    <3>1. (underrun => underrun') /\ excess' = excess
      BY <2>1, WorkerKeeps
    <3>2. txSem' = txSem - 1 /\ (asleep' => underrun')
      BY <2>1 DEF Tx!Worker, Tx!TxDiscard, Tx!PopPeriod, Tx!PopEndingZeros, Tx!PopStopRequests,
                  Tx!PopInject, Tx!PopAssert, Tx!PopSleep, Tx!Pop, Tx!Pops, Tx!Woken
    <3>3. QED
      BY <3>1, <3>2
  <2>2. CASE Tx!TxPeriod
    <3>1. UNCHANGED <<underrun, asleep, excess>>
      BY <2>2 DEF Tx!TxPeriod
    <3>2. QED
      BY <2>2, <3>1 DEF PlaybackInv
  <2>3. CASE ~Tx!Worker /\ ~Tx!TxPeriod
    <3>1. UNCHANGED <<underrun, excess, txSem>> /\ (asleep' => asleep)
      BY <2>3 DEF Tx!Next, Tx!vars, Tx!ring, Tx!history, Tx!FifoEmpty, Tx!FifoStall, Tx!Drained,
                  Tx!TxOpen, Tx!TxStart, Tx!TxStop, Tx!TxReset, Tx!TxFlush, Tx!TxDrop,
                  Tx!TxClose, Tx!TxWrite, Tx!TxCopy, Tx!PopResume
    <3>2. QED
      BY <3>1 DEF PlaybackInv
  <2>4. QED
    BY <2>1, <2>2, <2>3
<1> SUFFICES ASSUME ~underrun', Tx!FewLeft'
             PROVE  txSem' <= MaxLate /\ ~spoilt' /\ StreamOK' /\ StoppedInv' /\ DrainIsComplete'
  BY <1>1, <1>2 DEF PlaybackInv
<1> USE DEF Tx!port, Tx!writer, Tx!ring, Tx!history, Tx!Live
<1>3. /\ TxTypes /\ PortInv /\ FlushInv /\ ~underrun /\ Paced
      /\ ~spoilt /\ StreamOK /\ StoppedInv /\ DrainIsComplete
  BY <1>2 DEF PlaybackInv, Paced, Tx!FewLeft
<1>s. txSem' <= MaxLate /\ Paced'
  <2>1. txSem \in Nat /\ MaxLate \in Nat /\ txSem <= MaxLate
    BY <1>3, TxAssumed DEF TxTypes, Tx!TypeOK, Paced
  <2>2. CASE Tx!TxPeriod
    <3>1. txSem < MaxLate /\ txSem' = txSem + 1
      BY <1>3, <2>2 DEF PlaybackInv, Tx!TxPeriod
    <3>2. QED
      BY <2>1, <3>1 DEF Paced
  <2>3. CASE ~Tx!TxPeriod
    BY <1>2, <1>3, <2>1, <2>3 DEF Paced
  <2>4. QED
    BY <2>2, <2>3
<1> SUFFICES ~spoilt' /\ StreamOK' /\ StoppedInv' /\ DrainIsComplete'
  BY <1>s
<1>4. CASE UNCHANGED Tx!vars
  <2>1. /\ UNCHANGED <<mode, silence, txHw, txBuf, slot, txChan, played, elapsed, txSem, flushed>>
        /\ UNCHANGED <<units, heard, spoilt, excess, underrun, drain, due, missed, txHalted>>
    BY <1>4 DEF Tx!vars
  <2>2. StreamOK'
    BY <1>3, <2>1, StreamSame DEF Streams, Mark, Padding
  <2>3. StoppedInv' /\ DrainIsComplete'
    BY <1>3, <2>1, StoppedSame, DrainSame
  <2>4. QED
    BY <1>3, <2>1, <2>2, <2>3
<1>5. CASE Tx!TxPeriod
  <2>1. ~spoilt' /\ StreamOK'
    BY <1>1, <1>3, <1>5, <1>s, Plays
  <2>2. StoppedInv'
    BY <1>5 DEF Tx!TxPeriod, StoppedInv
  <2>3. DrainIsComplete'
    BY <1>2, <1>3, <1>5, DrainSame DEF Tx!TxPeriod
  <2>4. QED
    BY <2>1, <2>2, <2>3
<1>6. CASE Tx!FifoEmpty \/ Tx!FifoStall
  <2>1. /\ UNCHANGED <<mode, silence, txBuf, slot, txChan, played, elapsed, txSem, flushed>>
        /\ UNCHANGED <<units, heard, spoilt, excess, underrun, due, txHalted>>
        /\ txHw' = txHw \ {"Error", "Flushing"} /\ (drain = "drop" => drain' = "drop")
    BY <1>6 DEF Tx!FifoEmpty, Tx!FifoStall, Tx!Drained
  <2>2. (Streams' => Streams) /\ Mark' = Mark /\ ~Padding'
    BY <2>1 DEF Streams, Mark, Padding
  <2>3. StreamOK'
    BY <1>3, <2>1, <2>2, StreamSame
  <2>4. StoppedInv'
    BY <2>1 DEF StoppedInv
  <2>5. DrainIsComplete'
    BY <1>3, <1>6, FifoDrains
  <2>6. QED
    BY <1>3, <2>1, <2>3, <2>4, <2>5
<1>7. CASE Tx!Worker
  <2>1. /\ UNCHANGED <<mode, silence, played, units, heard, spoilt, excess, drain, due, missed>>
        /\ Streams' => Streams
    BY <1>7, WorkerKeeps
  <2>2. DrainIsComplete'
    BY <1>2, <1>3, <2>1, DrainSame
  <2>3. StreamOK' /\ StoppedInv'
    <3>1. CASE Tx!TxDiscard
      <4>1. ~Streams' /\ UNCHANGED <<txHw, txChan, txHalted>>
        BY <3>1 DEF Tx!TxDiscard, Streams
      <4>2. QED
        BY <1>3, <2>1, <4>1, StoppedSame DEF StreamOK
    <3>2. CASE Tx!PopPeriod
      <4>1. UNCHANGED <<txHw, txChan, txHalted>>
        BY <3>2 DEF Tx!PopPeriod
      <4>2. QED
        BY <1>1, <1>3, <2>1, <3>2, <4>1, <1>s, PopPeriodKeeps, StoppedSame
    <3>3. CASE Tx!PopEndingZeros
      <4>1. UNCHANGED <<txHw, txChan, txHalted>>
        BY <3>3 DEF Tx!PopEndingZeros
      <4>2. QED
        BY <1>1, <1>3, <2>1, <3>3, <4>1, <1>s, PopEndingZerosKeeps, StoppedSame
    <3>4. CASE Tx!PopStopRequests
      BY <1>3, <3>4, PopStopRequestsStops
    <3>5. CASE Tx!PopInject
      <4>1. UNCHANGED <<txHw, txChan, txHalted>>
        BY <3>5 DEF Tx!PopInject
      <4>2. QED
        BY <1>1, <1>3, <2>1, <3>5, <4>1, <1>s, PopInjectKeeps, StoppedSame
    <3>6. CASE Tx!PopAssert \/ Tx!PopSleep
      BY <3>6 DEF Tx!PopAssert, Tx!PopSleep
    <3>7. QED
      BY <1>7, <3>1, <3>2, <3>3, <3>4, <3>5, <3>6 DEF Tx!Worker
  <2>4. QED
    BY <1>3, <2>1, <2>2, <2>3
<1>8. CASE Tx!TxOpen
  <2>1. /\ "Prepared" \notin txHw' /\ "Started" \notin txHw'
        /\ UNCHANGED <<silence, spoilt, excess, drain, missed>>
    BY <1>8 DEF Tx!TxOpen
  <2>2. QED
    BY <1>2, <1>3, <2>1, DrainSame DEF StreamOK, Streams, StoppedInv
<1>9. CASE Tx!PopResume
  BY <1>3, <1>9 DEF PlaybackInv, Tx!PopResume
<1>10. CASE Tx!TxStart
  <2>1. /\ UNCHANGED <<mode, silence, txBuf, slot, played, elapsed, txSem>>
        /\ UNCHANGED <<units, heard, spoilt, excess, underrun, due, missed>>
        /\ drain' = "none" /\ drain # "drop" /\ txHalted = "none" /\ "Started" \notin txHw
        /\ {"Opened", "Prepared"} \subseteq txHw /\ (flushed' => silence = 0)
        /\ txChan' = "paused" => txHalted' = "flushing"
        /\ txChan' = "none" => txChan = "none"
        /\ txChan = "none" => txChan' = "none"
    BY <1>10 DEF Tx!TxStart, Tx!NoEndingZeros
  <2>2. Streams' => Streams
    BY <2>1 DEF Streams
  <2>3. Mark' = Mark /\ ~Padding'
    <3>1. silence \in Nat
      BY <1>3, Numbers
    <3>2. QED
      BY <2>1, <3>1 DEF Mark, Padding
  <2>4. StreamOK'
    BY <1>3, <2>1, <2>2, <2>3, StreamSame
  <2>5. StoppedInv' /\ DrainIsComplete'
    BY <2>1 DEF StoppedInv, DrainIsComplete, Tx!DrainIsComplete
  <2>6. QED
    BY <1>3, <2>1, <2>4, <2>5
<1>11. CASE Tx!TxStop \/ Tx!TxClose
  <2>1. /\ UNCHANGED <<silence, spoilt, excess, drain, missed>>
        /\ txChan' = "none" \/ {"Opened", "Started"} \cap txHw' = {}
    BY <1>11 DEF Tx!TxStop, Tx!TxClose, Tx!Stopped
  <2>2. QED
    BY <1>2, <1>3, <2>1, DrainSame DEF StreamOK, Streams, StoppedInv
<1>12. CASE Tx!TxReset
  <2>1. UNCHANGED <<spoilt, txChan>> /\ txChan = "none" /\ drain' = "none"
    BY <1>3, <1>12 DEF Tx!TxReset, PortInv
  <2>2. QED
    BY <1>3, <2>1 DEF StreamOK, Streams, StoppedInv, DrainIsComplete, Tx!DrainIsComplete
<1>13. CASE Tx!TxFlush
  <2>1. /\ UNCHANGED <<mode, silence, txBuf, slot, txChan, played, elapsed, txSem, flushed>>
        /\ UNCHANGED <<units, heard, spoilt, excess, underrun, drain, missed, txHalted>>
        /\ txHw' = (IF "Started" \in txHw THEN txHw \cup {"Flushing"} ELSE txHw)
        /\ due' = (IF "Flushing" \in txHw THEN due ELSE units)
    BY <1>3, <1>13 DEF Tx!TxFlush
  <2>2. (Streams' => Streams) /\ Mark' = Mark
    BY <2>1 DEF Streams, Mark
  <2>3. Padding' => Padding /\ due' = due
    <3>1. silence \in Nat
      BY <1>3, Numbers
    <3>2. QED
      BY <1>3, <2>1, <3>1 DEF Padding, FlushInv
  <2>4. StreamOK'
    BY <1>3, <2>1, <2>2, <2>3, StreamSame
  <2>5. StoppedInv'
    BY <1>3, <2>1, StoppedSame DEF PortInv
  <2>6. DrainIsComplete'
    BY <1>2, <1>3, <2>1, DrainSame
  <2>7. QED
    BY <1>3, <2>1, <2>4, <2>5, <2>6
<1>14. CASE Tx!TxDrop
  <2>1. UNCHANGED spoilt /\ drain' = "drop"
    BY <1>14 DEF Tx!TxDrop
  <2>2. QED
    BY <1>3, <2>1 DEF StreamOK, Streams, StoppedInv, DrainIsComplete, Tx!DrainIsComplete
<1>15. CASE Tx!TxWrite
  <2>1. /\ UNCHANGED <<mode, silence, txHw, txBuf, slot, txChan, played, elapsed, txSem, flushed>>
        /\ UNCHANGED <<units, heard, spoilt, excess, underrun, drain, due, missed, txHalted>>
    BY <1>15 DEF Tx!TxWrite
  <2>2. StreamOK'
    BY <1>3, <2>1, StreamSame DEF Streams, Mark, Padding
  <2>3. StoppedInv' /\ DrainIsComplete'
    BY <1>3, <2>1, StoppedSame, DrainSame
  <2>4. QED
    BY <1>3, <2>1, <2>2, <2>3
<1>16. CASE Tx!TxCopy
  <2>1. UNCHANGED <<silence, txHw, txChan, heard, spoilt, excess, drain, due, missed, txHalted>>
    BY <1>16 DEF Tx!TxCopy
  <2>2. StreamOK'
    BY <1>1, <1>3, <1>16, <1>s, TxCopyKeeps
  <2>3. StoppedInv' /\ DrainIsComplete'
    BY <1>2, <1>3, <2>1, StoppedSame, DrainSame
  <2>4. QED
    BY <1>3, <2>1, <2>2, <2>3
<1>17. QED
  BY <1>4, <1>5, <1>6, <1>7, <1>8, <1>9, <1>10, <1>11, <1>12, <1>13, <1>14, <1>15, <1>16
     DEF Tx!Next

\* A step of the two models is one of the playback side, or leaves it alone.
LEMMA PlaybackNext ==
  ASSUME PlaybackInv, Punctual, [Next]_vars
  PROVE  PlaybackInv'
<1>1. [Tx!Next]_(Tx!vars)
  BY DEF Next, TxNext, RxNext, vars, txVars, Tx!vars, Tx!port, Tx!ring, Tx!writer, Tx!history
<1>2. QED
  BY <1>1, PlaybackStep, SetupStep

\* In a stream without an underrun for which nothing was injected, and with at
\* most one post left behind by an earlier one, what is played is what was
\* written, in its order, nothing twice and nothing left out, in both modes of
\* the DMA, for every size of the rings, of the prefill and of the ending zeros,
\* however flushes, stops, drops, and underruns of earlier streams come in between.
THEOREM PlaysInOrder ==
  ASSUME Punctual
  PROVE  Spec => []PlayedInOrder
<1>1. Init => PlaybackInv
  BY PlaybackInit
<1>2. PlaybackInv /\ [Next]_vars => PlaybackInv'
  BY PlaybackNext
<1>3. PlaybackInv => PlayedInOrder
  BY DEF PlaybackInv, PlayedInOrder, Tx!PlayedInOrder
<1>4. QED
  BY <1>1, <1>2, <1>3, PTL DEF Spec

\* At the SAI_EVENT_DRAIN that ends a flush of such a stream all that was written
\* before it has been played, but for what the prefill is longer than the zeros.
THEOREM DrainsCompletely ==
  ASSUME Punctual
  PROVE  Spec => []DrainIsComplete
<1>1. Init => PlaybackInv
  BY PlaybackInit
<1>2. PlaybackInv /\ [Next]_vars => PlaybackInv'
  BY PlaybackNext
<1>3. PlaybackInv => DrainIsComplete
  BY DEF PlaybackInv, DrainIsComplete, Tx!DrainIsComplete
<1>4. QED
  BY <1>1, <1>2, <1>3, PTL DEF Spec
=============================================================================
