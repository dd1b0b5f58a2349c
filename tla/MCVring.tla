------------------------------ MODULE MCVring ------------------------------
(***************************************************************************)
(* Two instances of IvshmVring for TLC, one of which runs in a behaviour:  *)
(* tight rings whose callers go ahead until an assertion stops them, and   *)
(* callers that keep one frame outstanding, on rings of four descriptors.  *)
(***************************************************************************)
EXTENDS Integers, TLC

CONSTANTS Writers,
          Num, Size, MaxLen, Wrap, Credit,
          PacedNum, PacedSize, PacedWrap

VARIABLES paced,   \* which instance runs
          desc, avail, availIdx, used, usedIdx, usedEvent, mem, freeHead, numFree, lastUsed,
          head, tail, cleanLock, freeLock, pc, clean, frame, lastAvail, rpc, rdesc, halted,
          sent, got

Tight == INSTANCE VringView
Paced == INSTANCE VringView WITH Num <- PacedNum, Size <- PacedSize, MaxLen <- 1,
                                 Wrap <- PacedWrap, Credit <- 1

ASSUME VringsAssumption == Tight!VringAssumption /\ Paced!VringAssumption

ringVars ==
    <<desc, avail, availIdx, used, usedIdx, usedEvent, mem, freeHead, numFree, lastUsed, head,
      tail, cleanLock, freeLock, pc, clean, frame, lastAvail, rpc, rdesc, halted, sent, got>>
vars == <<paced, ringVars>>

Init ==
    \/ paced = FALSE /\ Tight!Init
    \/ paced = TRUE /\ Paced!Init

TightNext == ~paced /\ Tight!Next /\ UNCHANGED paced
PacedNext == paced /\ Paced!Next /\ UNCHANGED paced
Next == TightNext \/ PacedNext

Spec == Init /\ [][Next]_vars

Symmetry == Permutations(Writers)
View == <<paced, IF paced THEN Paced!View ELSE Tight!View>>

-----------------------------------------------------------------------------
\* The variables have their types, in either instance.
TypeOK == IF paced THEN Paced!TypeOK ELSE Tight!TypeOK

\* Every descriptor is in exactly one place at every moment, while callers
\* write without waiting.
HeldOnce == ~paced => Tight!HeldOnce

\* ivshm_tx_clean never meets a "bad tx descriptor".
CleanGoesThrough == ~paced => Tight!CleanGoesThrough

\* The assertions BUG_ON(tx->num_free < 1) and BUG_ON(tx->num_free > vr->num)
\* hold when callers keep one frame outstanding.
NoBugOn == paced => Paced!NoBugOn

(***************************************************************************)
(* The tight rings implement a channel: what the receiver reads for each   *)
(* frame, up to the moment it has copied it, is what was queued, whole and *)
(* in order.                                                               *)
(***************************************************************************)
Channel == INSTANCE IvshmChannel WITH
    chan <- IF paced THEN <<>> ELSE Tight!InFlight, Capacity <- Num,
    sent <- IF paced THEN 0 ELSE sent, got <- IF paced THEN 0 ELSE got
ChannelSpec == Channel!Spec
=============================================================================
