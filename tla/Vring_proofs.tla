---------------------------- MODULE Vring_proofs ----------------------------
(***************************************************************************)
(* The theorems about the rings of one direction of the ivshmem pipe, for  *)
(* every value of the constants of MCVring: types, the place of every      *)
(* descriptor, that the rings implement the channel of IvshmChannel, and   *)
(* that callers which keep one frame outstanding never reach a BUG_ON.     *)
(*                                                                         *)
(* The work is done in IvshmVring_proofs.  Here its lemmas are instantiated *)
(* as MCVring instantiates the rings, T for Tight and P for Paced.         *)
(***************************************************************************)
EXTENDS MCVring, Sequences, FiniteSets, TLAPS

T == INSTANCE IvshmVring_proofs
P == INSTANCE IvshmVring_proofs WITH Num <- PacedNum, Size <- PacedSize, MaxLen <- 1,
                                     Wrap <- PacedWrap, Credit <- 1

-----------------------------------------------------------------------------
(***************************************************************************)
(* What the two instances of the rings are is what the lemmas are about.   *)
(***************************************************************************)
\* The rings whose callers go ahead: their constants are admitted.
LEMMA TightAssumed == T!VringAssumption
  BY VringsAssumption DEF Tight!VringAssumption, T!VringAssumption, Tight!Pipe, T!Pipe,
                          Tight!None, T!None

\* They begin,
LEMMA TightInit == Tight!Init => T!Init
  BY DEF Tight!Init, T!Init, Tight!Threads, T!Threads, Tight!Desc, T!Desc, Tight!NoFrame,
         T!NoFrame, Tight!NoBatch, T!NoBatch, Tight!Pipe, T!Pipe, Tight!None, T!None

\* move,
LEMMA TightSteps == [Tight!Next]_Tight!vars => [T!Next]_T!vars
  BY DEF Tight!Next, T!Next, Tight!Write, T!Write, Tight!Poll, T!Poll, Tight!CleanBegin,
         T!CleanBegin, Tight!CleanEntry, T!CleanEntry, Tight!CleanEnd, T!CleanEnd, Tight!Splice,
         T!Splice, Tight!WriteCheck, T!WriteCheck, Tight!TxTake, T!TxTake, Tight!TxCopy, T!TxCopy,
         Tight!TxPublish, T!TxPublish, Tight!RxDesc, T!RxDesc, Tight!RxPush, T!RxPush, Tight!RxFinish,
         T!RxFinish, Tight!Threads, T!Threads, Tight!Desc, T!Desc, Tight!NoFrame, T!NoFrame,
         Tight!NoBatch, T!NoBatch, Tight!Inc, T!Inc, Tight!Place, T!Place, Tight!TxSpace, T!TxSpace,
         Tight!TxOk, T!TxOk, Tight!DescOk, T!DescOk, Tight!Outstanding, T!Outstanding, Tight!UsedDesc,
         T!UsedDesc, Tight!UsedOk, T!UsedOk, Tight!Entries, T!Entries, Tight!TailAfter, T!TailAfter,
         Tight!Link, T!Link, Tight!AfterClean, T!AfterClean, Tight!Freed, T!Freed, Tight!Cells, T!Cells,
         Tight!Copied, T!Copied, Tight!vars, T!vars, Tight!ring, T!ring, Tight!free, T!free, Tight!locks,
         T!locks, Tight!rx, T!rx, Tight!Pipe, T!Pipe, Tight!None, T!None, Tight!Cardinality,
         T!Cardinality

\* have their types
LEMMA TightTypes == T!TypeOK => Tight!TypeOK
  BY DEF Tight!TypeOK, T!TypeOK, Tight!Positions, T!Positions, Tight!Desc, T!Desc, Tight!Index,
         T!Index, Tight!Threads, T!Threads, Tight!None, T!None, Tight!Pipe, T!Pipe

\* and their properties in the same way.
LEMMA TightCleans == T!CleanGoesThrough => Tight!CleanGoesThrough
  BY DEF Tight!CleanGoesThrough, T!CleanGoesThrough, Tight!UsedOk, T!UsedOk, Tight!UsedDesc,
         T!UsedDesc, Tight!DescOk, T!DescOk, Tight!Place, T!Place, Tight!Threads, T!Threads, Tight!Pipe,
         T!Pipe

\* Their descriptors are held at the same places,
LEMMA TightHolders ==
  ASSUME \A d \in T!Desc : T!Cardinality(T!Holders(d)) = 1
  PROVE  Tight!HeldOnce
<1>1. \A d : T!Holders(d) = Tight!Holders(d)
  BY DEF Tight!Holders, T!Holders, Tight!Chain, T!Chain, Tight!Between, T!Between, Tight!Unclean,
         T!Unclean, Tight!Threads, T!Threads, Tight!Pipe, T!Pipe, Tight!None, T!None, Tight!Index,
         T!Index
<1>2. \A S : T!Cardinality(S) = Tight!Cardinality(S)
  BY DEF T!Cardinality, Tight!Cardinality
<1>3. T!Desc = Tight!Desc
  BY DEF T!Desc, Tight!Desc
<1>4. QED
  BY <1>1, <1>2, <1>3 DEF Tight!HeldOnce

\* and the same frames are in flight.
LEMMA TightInFlight == T!InFlight = Tight!InFlight
  BY DEF Tight!InFlight, T!InFlight, Tight!Content, T!Content, Tight!Cells, T!Cells

\* The rings whose callers keep one frame outstanding: their constants are admitted.
LEMMA PacedAssumed == P!VringAssumption
  BY VringsAssumption DEF Paced!VringAssumption, P!VringAssumption, Paced!Pipe, P!Pipe,
                          Paced!None, P!None

\* They begin,
LEMMA PacedInit == Paced!Init => P!Init
  BY DEF Paced!Init, P!Init, Paced!Threads, P!Threads, Paced!Desc, P!Desc, Paced!NoFrame,
         P!NoFrame, Paced!NoBatch, P!NoBatch, Paced!Pipe, P!Pipe, Paced!None, P!None

\* move
LEMMA PacedSteps == [Paced!Next]_Paced!vars => [P!Next]_P!vars
  BY DEF Paced!Next, P!Next, Paced!Write, P!Write, Paced!Poll, P!Poll, Paced!CleanBegin,
         P!CleanBegin, Paced!CleanEntry, P!CleanEntry, Paced!CleanEnd, P!CleanEnd, Paced!Splice,
         P!Splice, Paced!WriteCheck, P!WriteCheck, Paced!TxTake, P!TxTake, Paced!TxCopy, P!TxCopy,
         Paced!TxPublish, P!TxPublish, Paced!RxDesc, P!RxDesc, Paced!RxPush, P!RxPush, Paced!RxFinish,
         P!RxFinish, Paced!Threads, P!Threads, Paced!Desc, P!Desc, Paced!NoFrame, P!NoFrame,
         Paced!NoBatch, P!NoBatch, Paced!Inc, P!Inc, Paced!Place, P!Place, Paced!TxSpace, P!TxSpace,
         Paced!TxOk, P!TxOk, Paced!DescOk, P!DescOk, Paced!Outstanding, P!Outstanding, Paced!UsedDesc,
         P!UsedDesc, Paced!UsedOk, P!UsedOk, Paced!Entries, P!Entries, Paced!TailAfter, P!TailAfter,
         Paced!Link, P!Link, Paced!AfterClean, P!AfterClean, Paced!Freed, P!Freed, Paced!Cells, P!Cells,
         Paced!Copied, P!Copied, Paced!vars, P!vars, Paced!ring, P!ring, Paced!free, P!free, Paced!locks,
         P!locks, Paced!rx, P!rx, Paced!Pipe, P!Pipe, Paced!None, P!None, Paced!Cardinality,
         P!Cardinality

\* and have their types in the same way.
LEMMA PacedTypes == P!TypeOK => Paced!TypeOK
  BY DEF Paced!TypeOK, P!TypeOK, Paced!Positions, P!Positions, Paced!Desc, P!Desc, Paced!Index,
         P!Index, Paced!Threads, P!Threads, Paced!None, P!None, Paced!Pipe, P!Pipe

-----------------------------------------------------------------------------
(***************************************************************************)
(* The instance that runs keeps the invariant of the rings, and the paced  *)
(* one that of its counts.                                                 *)
(***************************************************************************)
VringInv ==
    IF paced THEN P!RingInv /\ (PacedNum >= 4 => P!CountInv)
             ELSE T!RingInv

\* Only the instance that runs moves.
LEMMA WhoMoves ==
  ASSUME [Next]_vars, paced \in BOOLEAN
  PROVE  /\ paced' = paced
         /\ ~paced => [T!Next]_T!vars
         /\ paced => [P!Next]_P!vars
<1>1. CASE TightNext
  BY <1>1, TightSteps DEF TightNext
<1>2. CASE PacedNext
  BY <1>2, PacedSteps DEF PacedNext
<1>3. CASE UNCHANGED vars
  <2>1. UNCHANGED ringVars /\ paced' = paced
    BY <1>3 DEF vars
  <2>2. UNCHANGED T!vars /\ UNCHANGED P!vars
    BY <2>1 DEF ringVars, T!vars, T!ring, T!free, T!locks, T!rx,
                P!vars, P!ring, P!free, P!locks, P!rx
  <2>3. QED
    BY <2>1, <2>2
<1>4. QED
  BY <1>1, <1>2, <1>3 DEF Next

\* Both instances begin in their invariant.
LEMMA VringInvInit ==
  ASSUME Init
  PROVE  VringInv /\ paced \in BOOLEAN
<1>1. CASE paced = FALSE /\ Tight!Init
  BY <1>1, TightInit, TightAssumed, T!RingInit DEF VringInv
<1>2. CASE paced = TRUE /\ Paced!Init
  BY <1>2, PacedInit, PacedAssumed, P!RingInit, P!CountInit DEF VringInv
<1>3. QED
  BY <1>1, <1>2 DEF Init

\* The instance that runs keeps its invariant.
LEMMA VringInvStep ==
  ASSUME VringInv, paced \in BOOLEAN, [Next]_vars
  PROVE  VringInv' /\ paced' \in BOOLEAN
<1>1. CASE paced
  <2>1. paced' = paced /\ [P!Next]_P!vars /\ P!RingInv /\ (PacedNum >= 4 => P!CountInv)
    BY <1>1, WhoMoves DEF VringInv
  <2>2. P!RingInv'
    BY <2>1, PacedAssumed, P!RingStep
  <2>3. PacedNum >= 4 => P!CountInv'
    BY <2>1, PacedAssumed, P!CountStep
  <2>4. QED
    BY <1>1, <2>1, <2>2, <2>3 DEF VringInv
<1>2. CASE ~paced
  <2>1. paced' = paced /\ [T!Next]_T!vars /\ T!RingInv
    BY <1>2, WhoMoves DEF VringInv
  <2>2. T!RingInv'
    BY <2>1, TightAssumed, T!RingStep
  <2>3. QED
    BY <1>2, <2>1, <2>2 DEF VringInv
<1>3. QED
  BY <1>1, <1>2

\* The invariant of the rings holds in every state.
LEMMA VringAlways == Spec => [](VringInv /\ paced \in BOOLEAN)
<1>1. Init => VringInv /\ paced \in BOOLEAN
  BY VringInvInit
<1>2. VringInv /\ paced \in BOOLEAN /\ [Next]_vars => (VringInv /\ paced \in BOOLEAN)'
  BY VringInvStep
<1>3. QED
  BY <1>1, <1>2, PTL DEF Spec

\* Every variable of the rings stays in its type, in particular head and tail
\* stay inside the data ring, in either instance.
THEOREM VringTypes == Spec => []TypeOK
<1>1. VringInv /\ paced \in BOOLEAN => TypeOK
  <2>1. T!RingInv => Tight!TypeOK
    BY TightTypes DEF T!RingInv
  <2>2. P!RingInv => Paced!TypeOK
    BY PacedTypes DEF P!RingInv
  <2>3. QED
    BY <2>1, <2>2 DEF VringInv, TypeOK
<1>2. QED
  BY <1>1, VringAlways, PTL

\* Every descriptor is in exactly one place at every moment: none leaks and none
\* is used for two frames, for any number of writers, descriptors and frames.
THEOREM VringHeldOnce == Spec => []HeldOnce
<1>1. VringInv /\ paced \in BOOLEAN => HeldOnce
  BY TightAssumed, T!RingHolds, TightHolders DEF VringInv, HeldOnce
<1>2. QED
  BY <1>1, VringAlways, PTL

\* ivshm_tx_clean never meets a "bad tx descriptor": the tail follows the head
\* frame by frame, for any sizes of the rings and of the frames.
THEOREM VringCleans == Spec => []CleanGoesThrough
<1>1. VringInv /\ paced \in BOOLEAN => CleanGoesThrough
  BY TightAssumed, T!RingCleans, TightCleans DEF VringInv, CleanGoesThrough
<1>2. QED
  BY <1>1, VringAlways, PTL

(***************************************************************************)
(* Neither BUG_ON of the transmitter is reached while callers keep one     *)
(* frame outstanding, whatever the pipe thread cleans beside them: for any *)
(* number of writers and rings of four descriptors or more.  With three    *)
(* ivshm_tx_frame finds the free list empty, although no more than one     *)
(* frame is ever under way.                                                *)
(***************************************************************************)
THEOREM VringNoBug == PacedNum >= 4 => (Spec => []NoBugOn)
<1> SUFFICES ASSUME PacedNum >= 4 PROVE Spec => []NoBugOn
  OBVIOUS
<1>1. VringInv /\ paced \in BOOLEAN => NoBugOn
  BY DEF VringInv, NoBugOn, P!CountInv, Paced!NoBugOn
<1>2. QED
  BY <1>1, VringAlways, PTL

-----------------------------------------------------------------------------
(***************************************************************************)
(* The rings implement the channel.                                        *)
(***************************************************************************)
\* Every step of the rings is one of the channel, or leaves it alone.
LEMMA VringRefines ==
  ASSUME VringInv, paced \in BOOLEAN, [Next]_vars,
         ~paced => T!InFlightOK, (~paced => T!InFlightOK)'
  PROVE  [Channel!Next]_(Channel!vars)
<1>1. CASE paced
  <2>1. paced' = paced
    BY WhoMoves
  <2>2. QED
    BY <1>1, <2>1 DEF Channel!vars
<1>2. CASE ~paced
  <2>1. paced' = paced /\ ~paced' /\ T!RingInv /\ [T!Next]_T!vars
    BY <1>2, WhoMoves DEF VringInv
  <2>2. T!InFlightOK /\ T!InFlightOK'
    BY <1>2, <2>1
  <2>3. \/ /\ Len(Tight!InFlight) < Num /\ Tight!InFlight' = Append(Tight!InFlight, sent)
           /\ sent' = (sent + 1) % Wrap /\ got' = got
        \/ /\ Tight!InFlight # <<>> /\ Head(Tight!InFlight) = got
           /\ Tight!InFlight' = Tail(Tight!InFlight)
           /\ got' = (got + 1) % Wrap /\ sent' = sent
        \/ UNCHANGED <<Tight!InFlight, sent, got>>
    <3>1. T!InFlight = Tight!InFlight /\ T!InFlight' = Tight!InFlight'
      BY DEF Tight!InFlight, T!InFlight, Tight!Content, T!Content, Tight!Cells, T!Cells
    <3>2. QED
      BY <2>1, <2>2, <3>1, TightAssumed, T!InFlightStep
  <2>4. QED
    BY <1>2, <2>1, <2>3 DEF Channel!Next, Channel!Send, Channel!Receive, Channel!vars
<1>3. QED
  BY <1>1, <1>2

(***************************************************************************)
(* The rings implement a channel: the receiver reads each frame whole, once *)
(* and in the order in which it was queued, for any number of writers and  *)
(* descriptors and frames of any length.  ivshm_tx_frame does not look     *)
(* whether the data ring has room: that it is Roomy is what keeps a frame  *)
(* from being overwritten before it is read.                               *)
(***************************************************************************)
THEOREM VringChannel == T!Roomy => (Spec => ChannelSpec)
<1> SUFFICES ASSUME T!Roomy PROVE Spec => ChannelSpec
  OBVIOUS
<1>1. VringInv => (~paced => T!InFlightOK)
  BY TightAssumed, T!InFlightIs DEF VringInv
<1>2. Init => Channel!Init
  <2> SUFFICES ASSUME Init PROVE Channel!Init
    OBVIOUS
  <2>1. CASE paced
    BY <2>1 DEF Channel!Init
  <2>2. CASE ~paced
    <3>1. T!InFlightOK /\ sent = 0 /\ got = 0
      BY <1>1, <2>2, VringInvInit DEF Init, Tight!Init
    <3>2. T!InFlight = T!Numbers(0, T!Unread)
      BY <3>1 DEF T!InFlightOK
    <3>3. T!Unread = 0
      <4>1. Wrap \in Nat \ {0}
        BY TightAssumed, T!Assumed
      <4>2. 0 - 0 = 0 /\ 0 % Wrap = 0
        BY <4>1
      <4>3. QED
        BY <3>1, <4>2 DEF T!Unread
    <3>4. T!Numbers(0, 0) = <<>>
      BY DEF T!Numbers
    <3>5. Tight!InFlight = <<>>
      BY <3>2, <3>3, <3>4, TightInFlight
    <3>6. QED
      BY <2>2, <3>1, <3>5 DEF Channel!Init
  <2>3. QED
    BY <2>1, <2>2
<1>3. /\ VringInv /\ paced \in BOOLEAN /\ [Next]_vars
      /\ (~paced => T!InFlightOK) /\ (~paced => T!InFlightOK)'
      => [Channel!Next]_(Channel!vars)
  BY VringRefines
<1>4. QED
  BY <1>1, <1>2, <1>3, VringAlways, PTL DEF Spec, ChannelSpec, Channel!Spec
=============================================================================
