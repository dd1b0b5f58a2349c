-------------------------- MODULE IvshmPipe_proofs --------------------------
(***************************************************************************)
(* Proofs about the pipe, for every number of restarts and frames: types,  *)
(* the pairing of events with wake-ups, the handshake invariant, that a    *)
(* reset is noticed, that the rings agree from one session to the next,    *)
(* and that the handshake implements IvshmSession.                         *)
(***************************************************************************)
EXTENDS IvshmPipe, TLAPS

LEMMA OtherPeer == ASSUME NEW p \in Peers
                   PROVE  Other(p) \in Peers /\ Other(p) # p /\ Other(Other(p)) = p
  BY DEF Peers, Other

LEMMA StateValues == RESET \in States /\ INIT \in States /\ READY \in States /\ RUN \in States
  BY DEF States, RESET, INIT, READY, RUN

LEMMA IndexType == 0 \in Index /\ \A n \in Index : (n + 1) % U16 \in Index
<1>1. 0 \in Index
  BY DEF Index, U16
<1>2. ASSUME NEW n \in Index PROVE (n + 1) % U16 \in Index
  <2>1. n + 1 \in Int /\ U16 \in Nat /\ U16 > 0
    BY DEF Index, U16
  <2>2. \A a \in Int, b \in Nat : b > 0 => a % b \in 0..b - 1
    OBVIOUS
  <2> QED BY <2>1, <2>2 DEF Index
<1> QED BY <1>1, <1>2

\* Raising an interrupt only marks it pending.
LEMMA RaiseType == ASSUME TypeOK, NEW q \in Peers, Raise(q)
                   PROVE  pend' \in [Peers -> BOOLEAN]
  BY Zenon DEF TypeOK, Raise

\* Setting a state keeps the types of what it sets.
LEMMA SetStateType ==
    ASSUME TypeOK, NEW p \in Peers, NEW s \in States, SetState(p, s)
    PROVE  /\ lstate' \in [Peers -> States]
           /\ reg' \in [Peers -> States]
           /\ pend' \in [Peers -> BOOLEAN]
<1>1. lstate' \in [Peers -> States] /\ reg' \in [Peers -> States]
  BY DEF SetState, TypeOK
<1>2. pend' \in [Peers -> BOOLEAN]
  BY RaiseType, OtherPeer DEF SetState, TypeOK
<1> QED BY <1>1, <1>2

LEMMA FsmTargetType == ASSUME TypeOK, NEW p \in Peers PROVE FsmTarget(p) \in States
  BY StateValues DEF FsmTarget, LeavesReset, LeavesInit, LeavesReady, TypeOK

LEMMA InitType == Init => TypeOK
  BY StateValues, IndexType, PipeAssumption DEF Init, TypeOK

LEMMA TypeStep == TypeOK /\ [Next]_vars => TypeOK'
<1> SUFFICES ASSUME TypeOK, [Next]_vars PROVE TypeOK'
  OBVIOUS
<1> USE DEF bootVars, localVars, eventVars, threadVars, ringVars
<1>1. ASSUME NEW p \in Peers, BootIrq(p) PROVE TypeOK'
  BY <1>1 DEF TypeOK, BootIrq
<1>2. ASSUME NEW p \in Peers, BootCalc(p) PROVE TypeOK'
  BY <1>2, PipeAssumption DEF TypeOK, BootCalc, Calc
<1>3. ASSUME NEW p \in Peers, BootReset(p) PROVE TypeOK'
  BY <1>3, SetStateType, StateValues DEF TypeOK, BootReset
<1>4. ASSUME NEW p \in Peers, BootCheck(p) PROVE TypeOK'
  BY <1>4 DEF TypeOK, BootCheck
<1>5. ASSUME NEW p \in Peers, BootPost(p) PROVE TypeOK'
  BY <1>5 DEF TypeOK, BootPost
<1>6. ASSUME NEW p \in Peers, Isr(p) PROVE TypeOK'
  BY <1>6 DEF TypeOK, Isr, Posts
<1>7. ASSUME NEW p \in Peers, Wake(p) PROVE TypeOK'
  BY <1>7 DEF TypeOK, Wake
<1>8. ASSUME NEW p \in Peers, Timeout(p) PROVE TypeOK'
  <2>1. doPoll' \in [Peers -> BOOLEAN]
    BY <1>8, Zenon DEF TypeOK, Timeout, PollsOnTimeout
  <2> QED BY <1>8, <2>1 DEF TypeOK, Timeout, PollsOnTimeout
<1>9. ASSUME NEW p \in Peers, Take(p) PROVE TypeOK'
  <2>1. doPoll' \in [Peers -> BOOLEAN]
    <3>1. (stateChange[p] > 0) \in BOOLEAN /\ (doPoll[p] \/ dataAvail[p] > 0) \in BOOLEAN
      OBVIOUS
    <3> QED BY <1>9, <3>1, Zenon DEF TypeOK, Take, Taken
  <2>2. stateChange' \in [Peers -> Nat] /\ dataAvail' \in [Peers -> Nat]
    BY <1>9 DEF TypeOK, Take, Taken
  <2>3. tpc' \in [Peers -> {"wait", "take", "fsm", "act", "pub", "store", "poll", "enable", "wild"}]
    BY <1>9 DEF TypeOK, Take, Taken, Dispatch
  <2> QED BY <1>9, <2>1, <2>2, <2>3 DEF TypeOK, Take, Taken
<1>10. ASSUME NEW p \in Peers, FsmRead(p) PROVE TypeOK'
  BY <1>10, OtherPeer DEF TypeOK, FsmRead, PeerState
<1>11. ASSUME NEW p \in Peers, FsmAct(p) PROVE TypeOK'
  <2>1. target' \in [Peers -> States]
    BY <1>11, FsmTargetType DEF TypeOK, FsmAct, AfterSwitch, Reinitialising
  <2>2. services' \in [Peers -> BOOLEAN]
    BY <1>11 DEF TypeOK, FsmAct, AfterSwitch, Reinitialising
  <2>3. /\ availIdx' \in [Peers -> Index]
        /\ lastAvail' \in [Peers -> Index]
        /\ availEvent' \in [Peers -> Index]
        /\ numAdded' \in [Peers -> Nat]
    BY <1>11, IndexType DEF TypeOK, FsmAct, AfterSwitch, Reinitialising, InitQueues, InitRx
  <2> QED BY <1>11, <2>1, <2>2, <2>3 DEF TypeOK, FsmAct, AfterSwitch, Reinitialising
<1>12. ASSUME NEW p \in Peers, FsmPublish(p) PROVE TypeOK'
  <2>1. target[p] \in States
    BY DEF TypeOK
  <2> QED BY <1>12, <2>1, SetStateType DEF TypeOK, FsmPublish
<1>13. ASSUME NEW p \in Peers, FsmStore(p) PROVE TypeOK'
  BY <1>13, StateValues DEF TypeOK, FsmStore, Dispatch
<1>14. ASSUME NEW p \in Peers, PollDesc(p) PROVE TypeOK'
  <2>1. lastAvail' \in [Peers -> Index]
    BY <1>14, IndexType DEF TypeOK, PollDesc
  <2> QED BY <1>14, <2>1 DEF TypeOK, PollDesc
<1>15. ASSUME NEW p \in Peers, PollEnable(p) PROVE TypeOK'
  BY <1>15 DEF TypeOK, PollEnable
<1>16. ASSUME NEW p \in Peers, WriteBegin(p) PROVE TypeOK'
  BY <1>16 DEF TypeOK, WriteBegin
<1>17. ASSUME NEW p \in Peers, WritePublish(p) PROVE TypeOK'
  <2>1. availIdx' \in [Peers -> Index]
    BY <1>17, IndexType DEF TypeOK, WritePublish
  <2> QED BY <1>17, <2>1 DEF TypeOK, WritePublish
<1>18. ASSUME NEW p \in Peers, WriteNotify(p) PROVE TypeOK'
  <2>1. pend' \in [Peers -> BOOLEAN]
    BY <1>18, RaiseType, OtherPeer DEF TypeOK, WriteNotify
  <2> QED BY <1>18, <2>1 DEF TypeOK, WriteNotify
<1>19. ASSUME NEW p \in Peers, Restart(p) PROVE TypeOK'
  <2>1. pend' \in [Peers -> BOOLEAN]
    BY <1>19, Zenon DEF TypeOK, Restart
  <2>2. restarts' \in 0..MaxRestarts
    BY <1>19, PipeAssumption DEF TypeOK, Restart
  <2>3. lastAvail' \in [Peers -> Index] /\ numAdded' \in [Peers -> Nat]
    BY <1>19, IndexType DEF TypeOK, Restart
  <2> QED BY <1>19, <2>1, <2>2, <2>3, StateValues DEF TypeOK, Restart
<1>20. CASE UNCHANGED vars
  BY <1>20 DEF TypeOK, vars
<1> QED BY <1>1, <1>2, <1>3, <1>4, <1>5, <1>6, <1>7, <1>8, <1>9, <1>10, <1>11,
           <1>12, <1>13, <1>14, <1>15, <1>16, <1>17, <1>18, <1>19, <1>20
        DEF Next, Boot, Thread, Fsm, Poll, Write

\* Every reachable state is well typed, for any bound on restarts and frames.
THEOREM TypeCorrect == Spec => []TypeOK
<1> QED BY InitType, TypeStep, PTL DEF Spec

\* There are only a peer and its partner.
LEMMA BothPeers ==
    ASSUME NEW p \in Peers
    PROVE  /\ Other(p) \in Peers /\ Other(p) # p /\ Other(Other(p)) = p
           /\ \A r \in Peers : r = p \/ r = Other(p)
  BY DEF Peers, Other

\* Every step keeps the part of the invariant of either peer.
LEMMA HandshakeStep ==
    ASSUME CalmWindow, HandshakeInv, TypeOK', [Next]_vars
    PROVE  \A r \in Peers : PeerInv(r)'
<1> USE DEF bootVars, localVars, eventVars, threadVars, ringVars, RESET, INIT, READY, RUN,
            States, TypeOK, HandshakeInv, PeerInv, BootInv, RegisterInv,
            PublishInv, LeaveInv, HeldBack, HalfInUse, Acked, Past
<1>1. ASSUME NEW p \in Peers, BootIrq(p), NEW r \in Peers PROVE PeerInv(r)'
  BY <1>1, BothPeers DEF BootIrq
<1>2. ASSUME NEW p \in Peers, BootCalc(p), NEW r \in Peers PROVE PeerInv(r)'
  BY <1>2, BothPeers DEF BootCalc, Calc
<1>3. ASSUME NEW p \in Peers, BootReset(p), NEW r \in Peers PROVE PeerInv(r)'
  BY <1>3, BothPeers DEF BootReset, SetState, Raise, InWindow
<1>4. ASSUME NEW p \in Peers, BootCheck(p), NEW r \in Peers PROVE PeerInv(r)'
  BY <1>4, BothPeers DEF BootCheck
<1>5. ASSUME NEW p \in Peers, BootPost(p), NEW r \in Peers PROVE PeerInv(r)'
  BY <1>5, BothPeers DEF BootPost
<1>6. ASSUME NEW p \in Peers, Isr(p), NEW r \in Peers PROVE PeerInv(r)'
  BY <1>6, BothPeers DEF Isr, Posts
<1>7. ASSUME NEW p \in Peers, Wake(p), NEW r \in Peers PROVE PeerInv(r)'
  BY <1>7, BothPeers DEF Wake
<1>8. ASSUME NEW p \in Peers, Timeout(p), NEW r \in Peers PROVE PeerInv(r)'
  BY <1>8, BothPeers DEF Timeout, PollsOnTimeout
<1>9. ASSUME NEW p \in Peers, Take(p), NEW r \in Peers PROVE PeerInv(r)'
  BY <1>9, BothPeers DEF Take, Taken, Dispatch
<1>10. ASSUME NEW p \in Peers, FsmRead(p), NEW r \in Peers PROVE PeerInv(r)'
  BY <1>10, BothPeers DEF FsmRead, PeerState
<1>11. ASSUME NEW p \in Peers, FsmAct(p), NEW r \in Peers PROVE PeerInv(r)'
  BY <1>11, BothPeers DEF FsmAct, AfterSwitch, Reinitialising, FsmTarget, LeavesReset, LeavesInit, LeavesReady, InitQueues, InitRx
<1>12. ASSUME NEW p \in Peers, FsmPublish(p), NEW r \in Peers PROVE PeerInv(r)'
  BY <1>12, BothPeers DEF FsmPublish, SetState, Raise, InWindow
<1>13. ASSUME NEW p \in Peers, FsmStore(p), NEW r \in Peers PROVE PeerInv(r)'
  BY <1>13, BothPeers DEF FsmStore, Dispatch
<1>14. ASSUME NEW p \in Peers, PollDesc(p), NEW r \in Peers PROVE PeerInv(r)'
  BY <1>14, BothPeers DEF PollDesc
<1>15. ASSUME NEW p \in Peers, PollEnable(p), NEW r \in Peers PROVE PeerInv(r)'
  BY <1>15, BothPeers DEF PollEnable
<1>16. ASSUME NEW p \in Peers, WriteBegin(p), NEW r \in Peers PROVE PeerInv(r)'
  BY <1>16, BothPeers DEF WriteBegin
<1>17. ASSUME NEW p \in Peers, WritePublish(p), NEW r \in Peers PROVE PeerInv(r)'
  BY <1>17, BothPeers DEF WritePublish
<1>18. ASSUME NEW p \in Peers, WriteNotify(p), NEW r \in Peers PROVE PeerInv(r)'
  BY <1>18, BothPeers DEF WriteNotify, Raise, InWindow
<1>19. ASSUME NEW p \in Peers, Restart(p), NEW r \in Peers PROVE PeerInv(r)'
  BY <1>19, BothPeers DEF Restart, InWindow

<1>20. CASE UNCHANGED vars
  BY <1>20 DEF vars
<1> QED BY <1>1, <1>2, <1>3, <1>4, <1>5, <1>6, <1>7, <1>8, <1>9, <1>10, <1>11,
           <1>12, <1>13, <1>14, <1>15, <1>16, <1>17, <1>18, <1>19, <1>20
        DEF Next, Boot, Thread, Fsm, Poll, Write

\* The handshake invariant holds as long as no interrupt hits a cell while
\* it boots.
THEOREM Handshake == ASSUME CalmWindow PROVE Spec => []HandshakeInv
<1>1. Init => HandshakeInv
  <2> SUFFICES ASSUME Init PROVE HandshakeInv
    OBVIOUS
  <2>1. TypeOK
    BY InitType
  <2>2. ASSUME NEW p \in Peers PROVE PeerInv(p)
    BY BothPeers DEF Init, PeerInv, BootInv, RegisterInv, PublishInv,
       LeaveInv, HeldBack, HalfInUse, Acked, Past, RESET, READY, RUN
  <2> QED BY <2>1, <2>2 DEF HandshakeInv
<1>2. HandshakeInv /\ [Next]_vars => HandshakeInv'
  BY TypeStep, HandshakeStep DEF HandshakeInv
<1> QED BY <1>1, <1>2, PTL DEF Spec

\* No peer zeroes its half of the memory while the other one uses it,
\* however interrupts, threads and restarts interleave.
THEOREM NoReinit == ASSUME CalmWindow PROVE Spec => []NoReinitInUse
<1>1. HandshakeInv => NoReinitInUse
  BY BothPeers DEF HandshakeInv, PeerInv, HeldBack, Past, NoReinitInUse,
     Reinitialising, RESET, INIT, READY, RUN, FsmTarget, LeavesReset, LeavesInit, LeavesReady
<1> QED BY <1>1, Handshake, PTL

\* Every counted event keeps a wake-up to go with it.
LEMMA WakeupStep ==
    ASSUME TypeOK, TypeOK', EventHasWakeup, [Next]_vars PROVE EventHasWakeup'
<1> USE DEF bootVars, localVars, eventVars, threadVars, ringVars, TypeOK, EventHasWakeup
<1>1. ASSUME NEW p \in Peers, BootIrq(p) PROVE EventHasWakeup'
  BY <1>1 DEF BootIrq
<1>2. ASSUME NEW p \in Peers, BootCalc(p) PROVE EventHasWakeup'
  BY <1>2 DEF BootCalc, Calc
<1>3. ASSUME NEW p \in Peers, BootReset(p) PROVE EventHasWakeup'
  BY <1>3 DEF BootReset, SetState
<1>4. ASSUME NEW p \in Peers, BootCheck(p) PROVE EventHasWakeup'
  BY <1>4 DEF BootCheck
<1>5. ASSUME NEW p \in Peers, BootPost(p) PROVE EventHasWakeup'
  BY <1>5 DEF BootPost
<1>6. ASSUME NEW p \in Peers, Isr(p) PROVE EventHasWakeup'
  BY <1>6 DEF Isr, Posts
<1>7. ASSUME NEW p \in Peers, Wake(p) PROVE EventHasWakeup'
  BY <1>7 DEF Wake
<1>8. ASSUME NEW p \in Peers, Timeout(p) PROVE EventHasWakeup'
  BY <1>8 DEF Timeout, PollsOnTimeout
<1>9. ASSUME NEW p \in Peers, Take(p) PROVE EventHasWakeup'
  BY <1>9 DEF Take, Taken, Dispatch
<1>10. ASSUME NEW p \in Peers, FsmRead(p) PROVE EventHasWakeup'
  BY <1>10 DEF FsmRead
<1>11. ASSUME NEW p \in Peers, FsmAct(p) PROVE EventHasWakeup'
  BY <1>11 DEF FsmAct, AfterSwitch, Reinitialising
<1>12. ASSUME NEW p \in Peers, FsmPublish(p) PROVE EventHasWakeup'
  BY <1>12 DEF FsmPublish
<1>13. ASSUME NEW p \in Peers, FsmStore(p) PROVE EventHasWakeup'
  BY <1>13 DEF FsmStore, Dispatch
<1>14. ASSUME NEW p \in Peers, PollDesc(p) PROVE EventHasWakeup'
  BY <1>14 DEF PollDesc
<1>15. ASSUME NEW p \in Peers, PollEnable(p) PROVE EventHasWakeup'
  BY <1>15 DEF PollEnable
<1>16. ASSUME NEW p \in Peers, WriteBegin(p) PROVE EventHasWakeup'
  BY <1>16 DEF WriteBegin
<1>17. ASSUME NEW p \in Peers, WritePublish(p) PROVE EventHasWakeup'
  BY <1>17 DEF WritePublish
<1>18. ASSUME NEW p \in Peers, WriteNotify(p) PROVE EventHasWakeup'
  BY <1>18 DEF WriteNotify
<1>19. ASSUME NEW p \in Peers, Restart(p) PROVE EventHasWakeup'
  BY <1>19 DEF Restart
<1>20. CASE UNCHANGED vars
  BY <1>20 DEF vars
<1> QED BY <1>1, <1>2, <1>3, <1>4, <1>5, <1>6, <1>7, <1>8, <1>9, <1>10, <1>11,
           <1>12, <1>13, <1>14, <1>15, <1>16, <1>17, <1>18, <1>19, <1>20
        DEF Next, Boot, Thread, Fsm, Poll, Write

\* An event is never left behind without a wake-up, whatever the environment
\* does.
THEOREM Wakeups == Spec => []EventHasWakeup
<1>1. Init => EventHasWakeup
  BY DEF Init, EventHasWakeup
<1>2. TypeOK /\ TypeOK' /\ EventHasWakeup /\ [Next]_vars => EventHasWakeup'
  BY WakeupStep
<1> QED BY <1>1, <1>2, TypeCorrect, PTL DEF Spec

(***************************************************************************)
(* Sessions that follow one another                                        *)
(***************************************************************************)

(***************************************************************************)
(* A peer in READY or RUN has seen, and remembers, a partner that is not   *)
(* in RESET.  This is where RestartInRun is used: a partner that restarts  *)
(* twice while this peer is in READY leaves it with RESET for the state it *)
(* remembers, and the interrupt that reports the second restart is taken   *)
(* for a spurious one when this peer has just entered RUN.                 *)
(***************************************************************************)
Onward(p) ==
    /\ lstate[p] = INIT /\ ((tpc[p] = "act" /\ seen[p] > RESET) \/ tpc[p] = "pub")
           => seen[p] > RESET /\ lstate[Other(p)] > RESET
    /\ lstate[p] = READY => lstate[Other(p)] > RESET
    /\ lstate[p] = READY /\ tpc[p] = "pub" => lstate[Other(p)] >= READY

Remembers(p) ==
    /\ lstate[p] = READY /\ tpc[p] \in {"act", "pub", "store"} => seen[p] > RESET
    /\ lstate[p] = RUN /\ tpc[p] = "store" => seen[p] > RESET
    /\ lstate[p] = READY /\ tpc[p] # "store" => rstate[p] > RESET
    /\ lstate[p] = RUN => rstate[p] > RESET

\* What ResetIsNoticed says of one peer
Noticed(p) ==
    lstate[p] = RUN /\ PeerState(p) = RESET =>
        \/ pend[p]
        \/ stateChange[p] > 0
        \/ tpc[p] = "fsm"
        \/ tpc[p] = "act" /\ seen[p] = RESET
        \/ tpc[p] = "pub" /\ target[p] = RESET

NoticeInv == \A p \in Peers : Onward(p) /\ Remembers(p) /\ Noticed(p)


\* Every step keeps what a peer remembers of its partner, and that it will notice.
LEMMA NoticeStep ==
    ASSUME CalmWindow, RestartInRun, HandshakeInv, HandshakeInv', NoticeInv, [Next]_vars
    PROVE  NoticeInv'
<1> USE DEF bootVars, localVars, eventVars, threadVars, ringVars, RESET, INIT, READY, RUN,
            States, TypeOK, HandshakeInv, PeerInv, BootInv, RegisterInv,
            PublishInv, LeaveInv, HeldBack, HalfInUse, Acked, Past, PeerState,
            NoticeInv, Onward, Remembers, Noticed
<1>1. ASSUME NEW p \in Peers, BootIrq(p), NEW r \in Peers PROVE (Onward(r) /\ Remembers(r) /\ Noticed(r))'
  BY <1>1, BothPeers DEF BootIrq
<1>2. ASSUME NEW p \in Peers, BootCalc(p), NEW r \in Peers PROVE (Onward(r) /\ Remembers(r) /\ Noticed(r))'
  BY <1>2, BothPeers DEF BootCalc, Calc
<1>3. ASSUME NEW p \in Peers, BootReset(p), NEW r \in Peers PROVE (Onward(r) /\ Remembers(r) /\ Noticed(r))'
  BY <1>3, BothPeers DEF BootReset, SetState, Raise, InWindow
<1>4. ASSUME NEW p \in Peers, BootCheck(p), NEW r \in Peers PROVE (Onward(r) /\ Remembers(r) /\ Noticed(r))'
  BY <1>4, BothPeers DEF BootCheck
<1>5. ASSUME NEW p \in Peers, BootPost(p), NEW r \in Peers PROVE (Onward(r) /\ Remembers(r) /\ Noticed(r))'
  BY <1>5, BothPeers DEF BootPost
<1>6. ASSUME NEW p \in Peers, Isr(p), NEW r \in Peers PROVE (Onward(r) /\ Remembers(r) /\ Noticed(r))'
  BY <1>6, BothPeers DEF Isr, Posts, CheckState
<1>7. ASSUME NEW p \in Peers, Wake(p), NEW r \in Peers PROVE (Onward(r) /\ Remembers(r) /\ Noticed(r))'
  BY <1>7, BothPeers DEF Wake
<1>8. ASSUME NEW p \in Peers, Timeout(p), NEW r \in Peers PROVE (Onward(r) /\ Remembers(r) /\ Noticed(r))'
  BY <1>8, BothPeers DEF Timeout, PollsOnTimeout
<1>9. ASSUME NEW p \in Peers, Take(p), NEW r \in Peers PROVE (Onward(r) /\ Remembers(r) /\ Noticed(r))'
  BY <1>9, BothPeers DEF Take, Taken, Dispatch
<1>10. ASSUME NEW p \in Peers, FsmRead(p), NEW r \in Peers PROVE (Onward(r) /\ Remembers(r) /\ Noticed(r))'
  BY <1>10, BothPeers DEF FsmRead
<1>11. ASSUME NEW p \in Peers, FsmAct(p), NEW r \in Peers PROVE (Onward(r) /\ Remembers(r) /\ Noticed(r))'
  BY <1>11, BothPeers DEF FsmAct, AfterSwitch, Reinitialising, FsmTarget, LeavesReset, LeavesInit, LeavesReady, InitQueues, InitRx
<1>12. ASSUME NEW p \in Peers, FsmPublish(p), NEW r \in Peers PROVE (Onward(r) /\ Remembers(r) /\ Noticed(r))'
  BY <1>12, BothPeers DEF FsmPublish, SetState, Raise, InWindow
<1>13. ASSUME NEW p \in Peers, FsmStore(p), NEW r \in Peers PROVE (Onward(r) /\ Remembers(r) /\ Noticed(r))'
  BY <1>13, BothPeers DEF FsmStore, Dispatch
<1>14. ASSUME NEW p \in Peers, PollDesc(p), NEW r \in Peers PROVE (Onward(r) /\ Remembers(r) /\ Noticed(r))'
  BY <1>14, BothPeers DEF PollDesc
<1>15. ASSUME NEW p \in Peers, PollEnable(p), NEW r \in Peers PROVE (Onward(r) /\ Remembers(r) /\ Noticed(r))'
  BY <1>15, BothPeers DEF PollEnable
<1>16. ASSUME NEW p \in Peers, WriteBegin(p), NEW r \in Peers PROVE (Onward(r) /\ Remembers(r) /\ Noticed(r))'
  BY <1>16, BothPeers DEF WriteBegin
<1>17. ASSUME NEW p \in Peers, WritePublish(p), NEW r \in Peers PROVE (Onward(r) /\ Remembers(r) /\ Noticed(r))'
  BY <1>17, BothPeers DEF WritePublish
<1>18. ASSUME NEW p \in Peers, WriteNotify(p), NEW r \in Peers PROVE (Onward(r) /\ Remembers(r) /\ Noticed(r))'
  BY <1>18, BothPeers DEF WriteNotify, Raise, InWindow
<1>19. ASSUME NEW p \in Peers, Restart(p), NEW r \in Peers PROVE (Onward(r) /\ Remembers(r) /\ Noticed(r))'
  <2>1. CASE r = p
    BY <1>19, <2>1, BothPeers DEF Restart, InWindow
  <2>2. CASE r = Other(p)
    <3>1. /\ UNCHANGED <<rstate[r], tpc[r], seen[r], target[r], stateChange[r], lstate[r]>>
          /\ lstate'[p] = RESET /\ reg'[p] = RESET /\ lstate[r] = RUN
      BY <1>19, <2>2, BothPeers DEF Restart
    <3>2. pend'[r] = (pend[r] \/ (reg[p] # RESET /\ boot[r] # "off"))
      BY <1>19, <2>2, BothPeers DEF Restart
    <3>3. Onward(r)' /\ Remembers(r)'
      BY <3>1
    <3>4. Noticed(r)'
      BY <2>2, <3>1, <3>2, BothPeers
    <3>5. QED
      BY <3>3, <3>4
  <2>3. QED
    BY <2>1, <2>2, BothPeers
<1>20. CASE UNCHANGED vars
  BY <1>20 DEF vars
<1> QED BY <1>1, <1>2, <1>3, <1>4, <1>5, <1>6, <1>7, <1>8, <1>9, <1>10, <1>11,
           <1>12, <1>13, <1>14, <1>15, <1>16, <1>17, <1>18, <1>19, <1>20
        DEF Next, Boot, Thread, Fsm, Poll, Write

(***************************************************************************)
(* With QuietBoot nothing of an older session is left at a peer once its   *)
(* partner boots: it is outside of RUN, has no data to poll for, and its   *)
(* writer is idle.  A peer in READY about to enter RUN may write already.  *)
(***************************************************************************)
Cleared(p) ==
    /\ dataAvail[p] = 0 /\ ~doPoll[p] /\ tpc[p] \notin {"poll", "enable"}
    /\ lstate[p] # READY \/ tpc[p] # "pub" => wpc[p] = "idle"

ClearInv(p) ==
    /\ boot[Other(p)] # "off" /\ lstate[p] # RUN => Cleared(p)
    /\ boot[Other(p)] # "off" /\ HalfInUse(p) => lstate[Other(p)] >= READY
    /\ services[p] => (lstate[p] = RUN) = (tpc[p] # "pub") /\ lstate[p] \in {READY, RUN}
    /\ boot[p] = "off" => wpc[p] = "idle"
    /\ doPoll[p] => tpc[p] # "wait"

\* p has zeroed its half and its receive queue for the session.
Prepared(p) == lstate[p] >= READY \/ (lstate[p] = INIT /\ tpc[p] = "pub")

\* The receive index starts at 0 and follows the index of the partner.
IndexInv(p) ==
    boot[Other(p)] # "off" /\ Prepared(p) =>
        /\ availEvent[p] <= lastAvail[p]
        /\ lstate[p] # RUN => lastAvail[p] = 0
        /\ lstate[p] = RUN => lastAvail[p] <= availIdx[Other(p)]

\* The index of a session does not wrap.
WriteInv(p) ==
    /\ availIdx[p] <= MaxFrames
    /\ wpc[p] = "publish" => availIdx[p] < MaxFrames

\* A peer that is at rest while its partner is in RESET is outside of the session.
LEMMA RestsOutside ==
    ASSUME HandshakeInv, NoticeInv, EventHasWakeup, NEW p \in Peers,
           ClearInv(p), AtRest(p), lstate[Other(p)] = RESET
    PROVE  lstate[p] \notin {READY, RUN} /\ dataAvail[p] = 0 /\ ~doPoll[p]
<1> USE DEF RESET, INIT, READY, RUN, States, TypeOK, HandshakeInv, PeerInv, BootInv, RegisterInv
<1>1. boot[p] = "off" => lstate[p] = RESET /\ dataAvail[p] = 0 /\ ~doPoll[p]
  OBVIOUS
<1>2. CASE boot[p] = "done" /\ tpc[p] = "wait" /\ sem[p] = 0 /\ ~pend[p]
  <2>1. stateChange[p] = 0 /\ dataAvail[p] = 0
    BY <1>2 DEF EventHasWakeup
  <2>2. ~doPoll[p]
    BY <1>2 DEF ClearInv
  <2>3. lstate[p] # READY
    BY DEF NoticeInv, Onward
  <2>4. lstate[p] # RUN
    BY <1>2, <2>1, BothPeers DEF NoticeInv, Noticed, PeerState
  <2>5. QED
    BY <2>1, <2>2, <2>3, <2>4
<1>3. QED
  BY <1>1, <1>2 DEF AtRest

\* Every step keeps a peer clear of the session before.
LEMMA ClearStep ==
    ASSUME CalmWindow, RestartInRun, QuietBoot,
           HandshakeInv, HandshakeInv', NoticeInv, EventHasWakeup, \A r \in Peers : ClearInv(r), [Next]_vars
    PROVE  \A r \in Peers : ClearInv(r)'
<1> USE DEF bootVars, localVars, eventVars, threadVars, ringVars, RESET, INIT, READY, RUN, States,
            TypeOK, HandshakeInv, PeerInv, BootInv, RegisterInv, PublishInv, LeaveInv, HalfInUse, Acked,
            ClearInv, Cleared
<1>1. ASSUME NEW p \in Peers, BootIrq(p), NEW r \in Peers PROVE ClearInv(r)'
  <2>1. \A q \in Peers : lstate'[q] = lstate[q] /\ tpc'[q] = tpc[q] /\ seen'[q] = seen[q] /\ target'[q] = target[q]
    BY <1>1 DEF BootIrq
  <2>2. lstate[p] = RESET /\ AtRest(Other(p)) /\ boot[p] = "off"
    BY <1>1 DEF BootIrq
  <2>3. lstate[Other(p)] \notin {READY, RUN} /\ Cleared(Other(p))
    <3>1. /\ Other(p) \in Peers /\ Other(Other(p)) = p /\ ClearInv(Other(p))
          /\ AtRest(Other(p)) /\ lstate[Other(Other(p))] = RESET
      BY <2>2, BothPeers
    <3>2. lstate[Other(p)] \notin {READY, RUN} /\ dataAvail[Other(p)] = 0 /\ ~doPoll[Other(p)]
      BY <3>1, RestsOutside
    <3>3. QED
      BY <3>1, <3>2 DEF AtRest
  <2>4. QED
    BY <1>1, <2>1, <2>2, <2>3, BothPeers DEF BootIrq
<1>2. ASSUME NEW p \in Peers, BootCalc(p), NEW r \in Peers PROVE ClearInv(r)'
  BY <1>2, BothPeers DEF BootCalc, Calc
<1>3. ASSUME NEW p \in Peers, BootReset(p), NEW r \in Peers PROVE ClearInv(r)'
  BY <1>3, BothPeers DEF BootReset, SetState, Raise, InWindow
<1>4. ASSUME NEW p \in Peers, BootCheck(p), NEW r \in Peers PROVE ClearInv(r)'
  BY <1>4, BothPeers DEF BootCheck
<1>5. ASSUME NEW p \in Peers, BootPost(p), NEW r \in Peers PROVE ClearInv(r)'
  BY <1>5, BothPeers DEF BootPost
<1>6. ASSUME NEW p \in Peers, Isr(p), NEW r \in Peers PROVE ClearInv(r)'
  BY <1>6, BothPeers DEF Isr, Posts, CheckState
<1>7. ASSUME NEW p \in Peers, Wake(p), NEW r \in Peers PROVE ClearInv(r)'
  BY <1>7, BothPeers DEF Wake
<1>8. ASSUME NEW p \in Peers, Timeout(p), NEW r \in Peers PROVE ClearInv(r)'
  BY <1>8, BothPeers DEF Timeout, PollsOnTimeout
<1>9. ASSUME NEW p \in Peers, Take(p), NEW r \in Peers PROVE ClearInv(r)'
  BY <1>9, BothPeers DEF Take, Taken, Dispatch
<1>10. ASSUME NEW p \in Peers, FsmRead(p), NEW r \in Peers PROVE ClearInv(r)'
  BY <1>10, BothPeers DEF FsmRead, PeerState
<1>11. ASSUME NEW p \in Peers, FsmAct(p), NEW r \in Peers PROVE ClearInv(r)'
  BY <1>11, BothPeers DEF FsmAct, AfterSwitch, Reinitialising, FsmTarget, LeavesReset, LeavesInit, LeavesReady, InitQueues, InitRx
<1>12. ASSUME NEW p \in Peers, FsmPublish(p), NEW r \in Peers PROVE ClearInv(r)'
  <2>1. /\ tpc[p] = "pub" /\ lstate' = [lstate EXCEPT ![p] = target[p]] /\ tpc' = [tpc EXCEPT ![p] = "store"]
        /\ UNCHANGED <<boot, dataAvail, doPoll, services, wpc, seen, target>>
    BY <1>12 DEF FsmPublish, SetState
  <2>2. <<lstate[p], target[p]>> \in
            {<<RESET, INIT>>, <<INIT, READY>>, <<READY, RUN>>, <<RUN, RESET>>}
    BY <2>1
  <2>3. \/ ~services[p] /\ wpc[p] = "idle" /\ target[p] # RUN
        \/ lstate[p] = READY
        \/ boot[Other(p)] = "off"
    BY <2>1, <2>2
  <2>4. boot[Other(r)]' # "off" /\ lstate'[r] # RUN => Cleared(r)'
    BY <2>1, <2>2, <2>3, BothPeers
  <2>5. boot[Other(r)]' # "off" /\ HalfInUse(r)' => lstate'[Other(r)] >= READY
    BY <2>1, <2>2, BothPeers
  <2>6. services'[r] => (lstate'[r] = RUN) = (tpc'[r] # "pub") /\ lstate'[r] \in {READY, RUN}
    BY <2>1, <2>2, BothPeers
  <2>7. QED
    BY <2>1, <2>4, <2>5, <2>6
<1>13. ASSUME NEW p \in Peers, FsmStore(p), NEW r \in Peers PROVE ClearInv(r)'
  BY <1>13, BothPeers DEF FsmStore, Dispatch
<1>14. ASSUME NEW p \in Peers, PollDesc(p), NEW r \in Peers PROVE ClearInv(r)'
  BY <1>14, BothPeers DEF PollDesc
<1>15. ASSUME NEW p \in Peers, PollEnable(p), NEW r \in Peers PROVE ClearInv(r)'
  BY <1>15, BothPeers DEF PollEnable
<1>16. ASSUME NEW p \in Peers, WriteBegin(p), NEW r \in Peers PROVE ClearInv(r)'
  BY <1>16, BothPeers DEF WriteBegin
<1>17. ASSUME NEW p \in Peers, WritePublish(p), NEW r \in Peers PROVE ClearInv(r)'
  BY <1>17, BothPeers DEF WritePublish
<1>18. ASSUME NEW p \in Peers, WriteNotify(p), NEW r \in Peers PROVE ClearInv(r)'
  BY <1>18, BothPeers DEF WriteNotify, Raise, InWindow
<1>19. ASSUME NEW p \in Peers, Restart(p), NEW r \in Peers PROVE ClearInv(r)'
  BY <1>19, BothPeers DEF Restart, InWindow
<1>20. CASE UNCHANGED vars
  BY <1>20 DEF vars
<1> QED BY <1>1, <1>2, <1>3, <1>4, <1>5, <1>6, <1>7, <1>8, <1>9, <1>10, <1>11,
           <1>12, <1>13, <1>14, <1>15, <1>16, <1>17, <1>18, <1>19, <1>20
        DEF Next, Boot, Thread, Fsm, Poll, Write

\* An index that is not the last one of its width does not wrap.
LEMMA NextIndex ==
    ASSUME NEW n \in Nat, n + 1 < U16
    PROVE  (n + 1) % U16 = n + 1
  BY DEF U16

\* An index that is not beyond another one and not equal to it is behind it.
LEMMA Behind ==
    ASSUME NEW m \in Nat, NEW n \in Nat, m <= n, n # m
    PROVE  m < n
  OBVIOUS

\* An index is a natural number below 2^16.
LEMMA IndexNat ==
    ASSUME TypeOK, NEW q \in Peers
    PROVE  /\ availIdx[q] \in Nat /\ lastAvail[q] \in Nat /\ availEvent[q] \in Nat
           /\ availIdx[q] < U16
<1>1. \A n \in Index : n \in Nat /\ n < U16
  BY DEF Index, U16
<1>2. QED
  BY <1>1 DEF TypeOK

\* Every step keeps the index of a session from wrapping.
LEMMA WriteStep ==
    ASSUME MaxFrames < U16, TypeOK, \A r \in Peers : WriteInv(r), [Next]_vars
    PROVE  \A r \in Peers : WriteInv(r)'
<1> USE DEF bootVars, localVars, eventVars, threadVars, ringVars, TypeOK, WriteInv
<1>0. MaxFrames \in Nat /\ \A q \in Peers : availIdx[q] \in Nat
  BY PipeAssumption, IndexNat
<1>1. ASSUME NEW p \in Peers, BootIrq(p), NEW r \in Peers PROVE WriteInv(r)'
  BY <1>1, BothPeers DEF BootIrq
<1>2. ASSUME NEW p \in Peers, BootCalc(p), NEW r \in Peers PROVE WriteInv(r)'
  BY <1>2, BothPeers DEF BootCalc, Calc
<1>3. ASSUME NEW p \in Peers, BootReset(p), NEW r \in Peers PROVE WriteInv(r)'
  BY <1>3, BothPeers DEF BootReset, SetState, Raise, InWindow
<1>4. ASSUME NEW p \in Peers, BootCheck(p), NEW r \in Peers PROVE WriteInv(r)'
  BY <1>4, BothPeers DEF BootCheck
<1>5. ASSUME NEW p \in Peers, BootPost(p), NEW r \in Peers PROVE WriteInv(r)'
  BY <1>5, BothPeers DEF BootPost
<1>6. ASSUME NEW p \in Peers, Isr(p), NEW r \in Peers PROVE WriteInv(r)'
  BY <1>6, BothPeers DEF Isr, Posts, CheckState
<1>7. ASSUME NEW p \in Peers, Wake(p), NEW r \in Peers PROVE WriteInv(r)'
  BY <1>7, BothPeers DEF Wake
<1>8. ASSUME NEW p \in Peers, Timeout(p), NEW r \in Peers PROVE WriteInv(r)'
  BY <1>8, BothPeers DEF Timeout, PollsOnTimeout
<1>9. ASSUME NEW p \in Peers, Take(p), NEW r \in Peers PROVE WriteInv(r)'
  BY <1>9, BothPeers DEF Take, Taken, Dispatch
<1>10. ASSUME NEW p \in Peers, FsmRead(p), NEW r \in Peers PROVE WriteInv(r)'
  BY <1>10, BothPeers DEF FsmRead
<1>11. ASSUME NEW p \in Peers, FsmAct(p), NEW r \in Peers PROVE WriteInv(r)'
  BY <1>0, <1>11 DEF FsmAct, AfterSwitch, Reinitialising, InitQueues, InitRx
<1>12. ASSUME NEW p \in Peers, FsmPublish(p), NEW r \in Peers PROVE WriteInv(r)'
  BY <1>12, BothPeers DEF FsmPublish, SetState, Raise, InWindow
<1>13. ASSUME NEW p \in Peers, FsmStore(p), NEW r \in Peers PROVE WriteInv(r)'
  BY <1>13, BothPeers DEF FsmStore, Dispatch
<1>14. ASSUME NEW p \in Peers, PollDesc(p), NEW r \in Peers PROVE WriteInv(r)'
  BY <1>14, BothPeers DEF PollDesc
<1>15. ASSUME NEW p \in Peers, PollEnable(p), NEW r \in Peers PROVE WriteInv(r)'
  BY <1>15, BothPeers DEF PollEnable
<1>16. ASSUME NEW p \in Peers, WriteBegin(p), NEW r \in Peers PROVE WriteInv(r)'
  BY <1>16 DEF WriteBegin
<1>17. ASSUME NEW p \in Peers, WritePublish(p), NEW r \in Peers PROVE WriteInv(r)'
  <2>1. availIdx[p] \in Nat /\ availIdx[p] < MaxFrames /\ availIdx[p] + 1 <= MaxFrames
    BY <1>0, <1>17 DEF WritePublish
  <2>2. (availIdx[p] + 1) % U16 = availIdx[p] + 1
    <3>1. availIdx[p] + 1 < U16
      BY <1>0, <2>1 DEF U16
    <3>2. QED
      BY <1>0, <3>1, NextIndex
  <2>3. QED
    BY <1>17, <2>1, <2>2 DEF WritePublish
<1>18. ASSUME NEW p \in Peers, WriteNotify(p), NEW r \in Peers PROVE WriteInv(r)'
  BY <1>18, BothPeers DEF WriteNotify, Raise, InWindow
<1>19. ASSUME NEW p \in Peers, Restart(p), NEW r \in Peers PROVE WriteInv(r)'
  BY <1>19, BothPeers DEF Restart, InWindow
<1>20. CASE UNCHANGED vars
  BY <1>20 DEF vars
<1> QED BY <1>1, <1>2, <1>3, <1>4, <1>5, <1>6, <1>7, <1>8, <1>9, <1>10, <1>11,
           <1>12, <1>13, <1>14, <1>15, <1>16, <1>17, <1>18, <1>19, <1>20
        DEF Next, Boot, Thread, Fsm, Poll, Write

\* Every step keeps the two indices of a ring in step.
LEMMA IndexStep ==
    ASSUME CalmWindow, RestartInRun, QuietBoot, MaxFrames < U16, HandshakeInv, HandshakeInv', NoticeInv,
           EventHasWakeup, \A r \in Peers : ClearInv(r) /\ ClearInv(r)' /\ WriteInv(r) /\ IndexInv(r), [Next]_vars
    PROVE  \A r \in Peers : IndexInv(r)'
<1> USE DEF bootVars, localVars, eventVars, threadVars, ringVars, RESET, INIT, READY, RUN, States,
            TypeOK, HandshakeInv, PeerInv, BootInv, PublishInv, LeaveInv, HeldBack, Past, HalfInUse, Acked,
            ClearInv, Cleared, IndexInv, Prepared
<1>0. \A q \in Peers : availIdx[q] \in Nat /\ lastAvail[q] \in Nat /\ availEvent[q] \in Nat
  BY IndexNat
<1>1. ASSUME NEW p \in Peers, BootIrq(p), NEW r \in Peers PROVE IndexInv(r)'
  <2>1. UNCHANGED <<lstate, tpc, ringVars>> /\ AtRest(Other(p)) /\ boot[p] = "off"
        /\ \A q \in Peers : q # p => boot'[q] = boot[q]
    BY <1>1 DEF BootIrq
  <2>2. ~Prepared(Other(p))
    <3>1. /\ Other(p) \in Peers /\ Other(Other(p)) = p /\ ClearInv(Other(p))
          /\ AtRest(Other(p)) /\ lstate[Other(Other(p))] = RESET
      BY <2>1, BothPeers
    <3>2. lstate[Other(p)] \notin {READY, RUN}
      BY <3>1, RestsOutside
    <3>3. tpc[Other(p)] # "pub"
      BY <3>1 DEF AtRest
    <3>4. QED
      BY <3>1, <3>2, <3>3
  <2>3. CASE r = p
    BY <2>1, <2>3, BothPeers
  <2>4. CASE r = Other(p)
    BY <2>1, <2>2, <2>4
  <2>5. QED
    BY <2>3, <2>4, BothPeers
<1>2. ASSUME NEW p \in Peers, BootCalc(p), NEW r \in Peers PROVE IndexInv(r)'
  BY <1>2, BothPeers DEF BootCalc, Calc
<1>3. ASSUME NEW p \in Peers, BootReset(p), NEW r \in Peers PROVE IndexInv(r)'
  BY <1>3, BothPeers DEF BootReset, SetState, Raise, InWindow
<1>4. ASSUME NEW p \in Peers, BootCheck(p), NEW r \in Peers PROVE IndexInv(r)'
  BY <1>4, BothPeers DEF BootCheck
<1>5. ASSUME NEW p \in Peers, BootPost(p), NEW r \in Peers PROVE IndexInv(r)'
  BY <1>5, BothPeers DEF BootPost
<1>6. ASSUME NEW p \in Peers, Isr(p), NEW r \in Peers PROVE IndexInv(r)'
  BY <1>6, BothPeers DEF Isr, Posts, CheckState
<1>7. ASSUME NEW p \in Peers, Wake(p), NEW r \in Peers PROVE IndexInv(r)'
  BY <1>7, BothPeers DEF Wake
<1>8. ASSUME NEW p \in Peers, Timeout(p), NEW r \in Peers PROVE IndexInv(r)'
  BY <1>8, BothPeers DEF Timeout, PollsOnTimeout
<1>9. ASSUME NEW p \in Peers, Take(p), NEW r \in Peers PROVE IndexInv(r)'
  BY <1>9, BothPeers DEF Take, Taken, Dispatch
<1>10. ASSUME NEW p \in Peers, FsmRead(p), NEW r \in Peers PROVE IndexInv(r)'
  BY <1>10, BothPeers DEF FsmRead
<1>11. ASSUME NEW p \in Peers, FsmAct(p), NEW r \in Peers PROVE IndexInv(r)'
  <2>1. /\ UNCHANGED <<boot, lstate>> /\ tpc[p] = "act" /\ tpc'[p] \in {"store", "pub", "wild"}
        /\ \A q \in Peers : q # p => /\ tpc'[q] = tpc[q] /\ availIdx'[q] = availIdx[q]
                                     /\ lastAvail'[q] = lastAvail[q] /\ availEvent'[q] = availEvent[q]
    BY <1>11 DEF FsmAct, AfterSwitch, Reinitialising, InitQueues, InitRx
  <2>2. CASE lstate[p] = INIT /\ tpc'[p] # "store"
    <3>1. seen[p] > RESET /\ FsmTarget(p) = READY
      BY <1>11, <2>2 DEF FsmAct, AfterSwitch, Reinitialising, FsmTarget, LeavesInit
    <3>2. availIdx'[p] = 0 /\ lastAvail'[p] = 0 /\ availEvent'[p] = 0
      BY <1>11, <2>2, <3>1 DEF FsmAct, AfterSwitch, Reinitialising, InitQueues, InitRx
    <3>3. lstate[Other(p)] # RUN
      BY <2>2, BothPeers
    <3>4. CASE r = p
      BY <2>1, <2>2, <3>2, <3>4
    <3>5. CASE r = Other(p)
      BY <2>1, <3>3, <3>5, BothPeers
    <3>6. QED
      BY <3>4, <3>5, BothPeers
  <2>3. CASE ~(lstate[p] = INIT /\ tpc'[p] # "store")
    <3>1. UNCHANGED ringVars
      <4>1. tpc'[p] = AfterSwitch(p)
        BY <1>11 DEF FsmAct
      <4>2. ~Reinitialising(p)
        BY <2>3, <4>1 DEF AfterSwitch, Reinitialising
      <4>3. QED
        BY <1>11, <4>2 DEF FsmAct
    <3>2. Prepared(r)' => Prepared(r)
      BY <2>1, <2>3
    <3>3. QED
      BY <2>1, <3>1, <3>2
  <2>4. QED
    BY <2>2, <2>3
<1>12. ASSUME NEW p \in Peers, FsmPublish(p), NEW r \in Peers PROVE IndexInv(r)'
  <2>1. /\ tpc[p] = "pub" /\ lstate' = [lstate EXCEPT ![p] = target[p]] /\ tpc' = [tpc EXCEPT ![p] = "store"]
        /\ UNCHANGED <<boot, ringVars>>
    BY <1>12 DEF FsmPublish, SetState
  <2>2. <<lstate[p], target[p]>> \in
            {<<RESET, INIT>>, <<INIT, READY>>, <<READY, RUN>>, <<RUN, RESET>>}
    BY <2>1
  <2>3. CASE r = p
    BY <1>0, <2>1, <2>2, <2>3, BothPeers
  <2>4. CASE r # p
    BY <2>1, <2>4
  <2>5. QED
    BY <2>3, <2>4
<1>13. ASSUME NEW p \in Peers, FsmStore(p), NEW r \in Peers PROVE IndexInv(r)'
  BY <1>13, BothPeers DEF FsmStore, Dispatch
<1>14. ASSUME NEW p \in Peers, PollDesc(p), NEW r \in Peers PROVE IndexInv(r)'
  <2>1. CASE r # p
    BY <1>14, <2>1 DEF PollDesc
  <2>2. CASE r = p /\ boot[Other(p)] = "off"
    BY <1>14, <2>2 DEF PollDesc
  <2>3. CASE r = p /\ boot[Other(p)] # "off"
    <3>1. lstate[p] = RUN /\ lastAvail[p] <= availIdx[Other(p)] /\ availEvent[p] <= lastAvail[p]
      BY <1>14, <2>3 DEF PollDesc
    <3>2. UNCHANGED <<boot, lstate, availIdx>>
      BY <1>14 DEF PollDesc
    <3>3. lastAvail[p] < availIdx[Other(p)] => (lastAvail[p] + 1) % U16 = lastAvail[p] + 1
      <4> SUFFICES ASSUME lastAvail[p] < availIdx[Other(p)]
                   PROVE  (lastAvail[p] + 1) % U16 = lastAvail[p] + 1
        OBVIOUS
      <4>0. U16 \in Nat
        BY DEF U16
      <4>1. lastAvail[p] \in Nat /\ availIdx[Other(p)] \in Nat /\ availIdx[Other(p)] < U16
        BY <1>0, BothPeers, IndexNat, Zenon
      <4>2. QED
        BY <4>0, <4>1, NextIndex
    <3>4. /\ lastAvail'[p] = lastAvail[p] \/ (lastAvail'[p] = lastAvail[p] + 1 /\ lastAvail[p] < availIdx[Other(p)])
          /\ availEvent' = availEvent
      <4>1. lastAvail[p] \in Nat /\ availIdx[Other(p)] \in Nat
        BY <1>0, BothPeers
      <4>2. RxAvail(p) => lastAvail[p] < availIdx[Other(p)]
        BY <3>1, <4>1, Behind, Zenon DEF RxAvail
      <4>3. QED
        BY <1>14, <3>3, <4>2 DEF PollDesc
    <3>5. /\ availEvent'[p] <= lastAvail'[p] /\ lastAvail'[p] <= availIdx'[Other(p)] /\ lstate'[p] = RUN
      <4>1. lastAvail[p] \in Nat /\ availIdx[Other(p)] \in Nat /\ availEvent[p] \in Nat
        BY <1>0, BothPeers
      <4>2. QED
        BY <3>1, <3>2, <3>4, <4>1
    <3>6. QED
      BY <2>3, <3>5
  <2>9. QED
    BY <2>1, <2>2, <2>3
<1>15. ASSUME NEW p \in Peers, PollEnable(p), NEW r \in Peers PROVE IndexInv(r)'
  <2>1. CASE r # p
    BY <1>15, <2>1 DEF PollEnable
  <2>2. CASE r = p /\ boot[Other(p)] = "off"
    BY <1>15, <2>2 DEF PollEnable
  <2>3. CASE r = p /\ boot[Other(p)] # "off"
    <3>1. lstate[p] = RUN /\ lastAvail[p] <= availIdx[Other(p)] /\ availEvent[p] <= lastAvail[p]
      BY <1>15, <2>3 DEF PollEnable
    <3>2. UNCHANGED <<boot, lstate, availIdx>>
      BY <1>15 DEF PollEnable
    <3>9. QED
      BY <1>0, <1>15, <2>3, <3>1, <3>2, BothPeers DEF PollEnable
  <2>9. QED
    BY <2>1, <2>2, <2>3
<1>16. ASSUME NEW p \in Peers, WriteBegin(p), NEW r \in Peers PROVE IndexInv(r)'
  BY <1>16, BothPeers DEF WriteBegin
<1>17. ASSUME NEW p \in Peers, WritePublish(p), NEW r \in Peers PROVE IndexInv(r)'
  <2>1. availIdx[p] < MaxFrames /\ MaxFrames \in Nat
    BY <1>17, PipeAssumption DEF WritePublish, WriteInv
  <2>2. (availIdx[p] + 1) % U16 = availIdx[p] + 1
    <3>1. availIdx[p] + 1 < U16
      BY <1>0, <2>1 DEF U16
    <3>2. QED
      BY <1>0, <3>1, NextIndex
  <2>3. /\ availIdx' = [availIdx EXCEPT ![p] = availIdx[p] + 1]
        /\ UNCHANGED <<boot, lstate, tpc, lastAvail, availEvent>>
    BY <1>17, <2>2 DEF WritePublish
  <2>4. availIdx[Other(r)] <= availIdx'[Other(r)]
    BY <1>0, <2>3, BothPeers
  <2>5. QED
    BY <1>0, <2>3, <2>4, BothPeers
<1>18. ASSUME NEW p \in Peers, WriteNotify(p), NEW r \in Peers PROVE IndexInv(r)'
  BY <1>18, BothPeers DEF WriteNotify, Raise, InWindow
<1>19. ASSUME NEW p \in Peers, Restart(p), NEW r \in Peers PROVE IndexInv(r)'
  BY <1>19, BothPeers DEF Restart, InWindow
<1>20. CASE UNCHANGED vars
  BY <1>20 DEF vars
<1> QED BY <1>1, <1>2, <1>3, <1>4, <1>5, <1>6, <1>7, <1>8, <1>9, <1>10, <1>11,
           <1>12, <1>13, <1>14, <1>15, <1>16, <1>17, <1>18, <1>19, <1>20
        DEF Next, Boot, Thread, Fsm, Poll, Write

\* The invariant of the rings over sessions that follow one another
RingLifeInv == \A p \in Peers : ClearInv(p) /\ WriteInv(p) /\ IndexInv(p)

\* A peer in RUN finds out that its partner has fallen back to RESET, however
\* interrupts, thread and restarts interleave, for any number of restarts that
\* meet the partner in RUN.
THEOREM ResetNoticed ==
    ASSUME CalmWindow, RestartInRun
    PROVE  Spec => []ResetIsNoticed
<1>1. Init => NoticeInv
  BY BothPeers DEF Init, NoticeInv, Onward, Remembers, Noticed, RESET, INIT, READY, RUN
<1>2. HandshakeInv /\ HandshakeInv' /\ NoticeInv /\ [Next]_vars => NoticeInv'
  BY NoticeStep
<1>3. NoticeInv => ResetIsNoticed
  BY DEF NoticeInv, Noticed, ResetIsNoticed
<1> QED BY <1>1, <1>2, <1>3, Handshake, PTL DEF Spec

\* The receive index of a peer stays in step with what its partner has published
\* in the session, although neither the halves of the memory nor the registers
\* of a peer that restarts are told apart from those of the session before: for
\* any number of restarts and as many frames a session as the indices can count.
THEOREM RingsAgree ==
    ASSUME CalmWindow, RestartInRun, QuietBoot, MaxFrames < U16
    PROVE  Spec => []RingsInStep
<1>1. Init => NoticeInv /\ RingLifeInv
  BY BothPeers, PipeAssumption
     DEF Init, NoticeInv, Onward, Remembers, Noticed, RingLifeInv, ClearInv, Cleared, HalfInUse,
         Acked, WriteInv, IndexInv, Prepared, RESET, INIT, READY, RUN
<1>2. HandshakeInv /\ HandshakeInv' /\ NoticeInv /\ [Next]_vars => NoticeInv'
  BY NoticeStep
<1>3. HandshakeInv /\ HandshakeInv' /\ EventHasWakeup /\ NoticeInv /\ RingLifeInv /\ [Next]_vars
      => RingLifeInv'
  <2> SUFFICES ASSUME HandshakeInv, HandshakeInv', EventHasWakeup, NoticeInv, RingLifeInv, [Next]_vars
               PROVE  RingLifeInv'
    OBVIOUS
  <2>1. \A p \in Peers : ClearInv(p)'
    BY ClearStep DEF RingLifeInv
  <2>2. \A p \in Peers : WriteInv(p)'
    BY WriteStep DEF RingLifeInv, HandshakeInv
  <2>3. \A p \in Peers : IndexInv(p)'
    BY <2>1, IndexStep DEF RingLifeInv
  <2>4. QED
    BY <2>1, <2>2, <2>3 DEF RingLifeInv
<1>4. HandshakeInv /\ RingLifeInv => RingsInStep
  <2> SUFFICES ASSUME HandshakeInv, RingLifeInv, \A p \in Peers : lstate[p] >= READY, NEW p \in Peers
               PROVE  lastAvail[p] <= availIdx[Other(p)] /\ availEvent[p] <= lastAvail[p]
    BY DEF RingsInStep
  <2>1. TypeOK /\ lstate[p] >= READY /\ lstate[Other(p)] >= READY /\ Other(p) \in Peers
    BY BothPeers DEF HandshakeInv
  <2>2. boot[Other(p)] # "off"
    BY <2>1 DEF HandshakeInv, PeerInv, BootInv, RESET, READY
  <2>3. IndexInv(p) /\ Prepared(p)
    BY <2>1 DEF RingLifeInv, Prepared
  <2>4. availIdx[Other(p)] \in Nat /\ lastAvail[p] \in Nat
    BY <2>1, IndexNat
  <2>5. QED
    BY <2>1, <2>2, <2>3, <2>4 DEF IndexInv, TypeOK, States, RESET, READY, RUN
<1> QED BY <1>1, <1>2, <1>3, <1>4, Handshake, Wakeups, PTL DEF Spec

(***************************************************************************)
(* The handshake implements the abstract session.                          *)
(***************************************************************************)

FreshBar == [p \in Peers |-> lstate[p] >= READY]
AckedBar == [p \in Peers |-> Acked(p)]
OpenBar  == [p \in Peers |-> lstate[p] = RUN]
SameSession == UNCHANGED <<FreshBar, AckedBar, OpenBar>>

\* A step that leaves every peer's state and decision alone is a stutter.
LEMMA SessionStutter ==
    ASSUME \A r \in Peers : lstate'[r] = lstate[r] /\ (Acked(r)' <=> Acked(r))
    PROVE  SameSession
<1>1. \A r \in Peers : (Acked(r)' = Acked(r))
  BY Zenon DEF Acked
<1> QED BY <1>1, Zenon DEF SameSession, FreshBar, AckedBar, OpenBar

\* The steps that do not show in the abstract session.
LEMMA QuietSteps ==
    ASSUME CalmWindow, HandshakeInv, NEW p \in Peers,
           \/ BootIrq(p) \/ BootCalc(p) \/ BootReset(p) \/ BootCheck(p)
           \/ BootPost(p) \/ Isr(p) \/ Wake(p) \/ Timeout(p) \/ Take(p)
           \/ FsmAct(p) \/ FsmStore(p) \/ PollDesc(p) \/ PollEnable(p) \/ Write(p)
    PROVE  SameSession
<1> USE DEF bootVars, localVars, eventVars, threadVars, ringVars, TypeOK, HandshakeInv,
            PeerInv, BootInv, Acked, States, RESET, INIT, READY, RUN
<1> SUFFICES ASSUME NEW r \in Peers
             PROVE  lstate'[r] = lstate[r] /\ (Acked(r)' <=> Acked(r))
  BY SessionStutter
<1>1. CASE BootIrq(p)
  BY <1>1 DEF BootIrq
<1>2. CASE BootCalc(p)
  BY <1>2 DEF BootCalc, Calc
<1>3. CASE BootReset(p)
  BY <1>3 DEF BootReset, SetState
<1>4. CASE BootCheck(p)
  BY <1>4 DEF BootCheck
<1>5. CASE BootPost(p)
  BY <1>5 DEF BootPost
<1>6. CASE Isr(p)
  BY <1>6 DEF Isr, Posts
<1>7. CASE Wake(p)
  BY <1>7 DEF Wake
<1>8. CASE Timeout(p)
  BY <1>8 DEF Timeout, PollsOnTimeout
<1>9. CASE Take(p)
  BY <1>9 DEF Take, Taken, Dispatch
<1>10. CASE FsmAct(p)
  BY <1>10 DEF FsmAct, AfterSwitch, Reinitialising, FsmTarget, LeavesReset, LeavesInit, LeavesReady
<1>11. CASE FsmStore(p)
  BY <1>11 DEF FsmStore, Dispatch
<1>12. CASE PollDesc(p)
  BY <1>12 DEF PollDesc
<1>13. CASE PollEnable(p)
  BY <1>13 DEF PollEnable
<1>14. CASE Write(p)
  BY <1>14 DEF Write, WriteBegin, WritePublish, WriteNotify
<1> QED BY <1>1, <1>2, <1>3, <1>4, <1>5, <1>6, <1>7, <1>8, <1>9, <1>10, <1>11, <1>12, <1>13, <1>14

\* Reading the register is an Observe when it decides for RUN.
LEMMA ReadRefines ==
    ASSUME HandshakeInv, NEW p \in Peers, FsmRead(p)
    PROVE  SameSession \/ Session!Observe(p)
<1> USE DEF localVars, TypeOK, HandshakeInv, PeerInv, RegisterInv, Acked, States,
            RESET, INIT, READY, RUN, FsmRead, PeerState
<1>1. \A r \in Peers : lstate'[r] = lstate[r] /\ (r # p => (Acked(r)' <=> Acked(r)))
  OBVIOUS
<1>2. ~Acked(p)
  OBVIOUS
<1>3. CASE ~Acked(p)'
  BY <1>1, <1>2, <1>3, SessionStutter
<1>4. CASE Acked(p)'
  <2>1. lstate[p] = READY /\ lstate[Other(p)] >= READY
    BY <1>4, BothPeers
  <2>2. FreshBar[p] /\ FreshBar[Other(p)] /\ ~OpenBar[p]
    <3>1. lstate[p] >= READY /\ lstate[p] # RUN /\ Other(p) \in Peers
      BY <2>1, BothPeers
    <3> HIDE DEF READY, RUN
    <3> QED BY <2>1, <3>1, Zenon DEF FreshBar, OpenBar
  <2>3. UNCHANGED <<FreshBar, OpenBar>>
    BY <1>1, Zenon DEF FreshBar, OpenBar
  <2>4. AckedBar' = [AckedBar EXCEPT ![p] = TRUE]
    <3>1. \A r \in Peers : Acked(r)' = IF r = p THEN TRUE ELSE Acked(r)
      BY <1>1, <1>4, Zenon DEF Acked
    <3> QED BY <3>1, Zenon DEF AckedBar
  <2> QED BY <2>2, <2>3, <2>4, Zenon DEF Session!Observe, Session!Other, Other, FreshBar, AckedBar, OpenBar
<1> QED BY <1>3, <1>4

\* The three abstract variables after a step, from what it does to each peer.
LEMMA FreshKept ==
    ASSUME \A r \in Peers : (lstate'[r] >= READY) = (lstate[r] >= READY)
    PROVE  FreshBar' = FreshBar
  BY Zenon DEF FreshBar

\* A session stays open to whom it was as long as RUN is neither entered nor left.
LEMMA OpenKept ==
    ASSUME \A r \in Peers : (lstate'[r] = RUN) = (lstate[r] = RUN)
    PROVE  OpenBar' = OpenBar
  BY Zenon DEF OpenBar

\* What a peer has read of its partner shows in the session by Acked only.
LEMMA AckedKept ==
    ASSUME \A r \in Peers : (Acked(r)' = Acked(r))
    PROVE  AckedBar' = AckedBar
  BY Zenon DEF AckedBar

\* A peer has a fresh half exactly from READY on.
LEMMA FreshSet ==
    ASSUME NEW p \in Peers, NEW b \in BOOLEAN,
           \A r \in Peers : r # p => lstate'[r] = lstate[r],
           (lstate'[p] >= READY) = b
    PROVE  FreshBar' = [FreshBar EXCEPT ![p] = b]
  BY Zenon DEF FreshBar

\* A session is open to a peer exactly in RUN.
LEMMA OpenSet ==
    ASSUME NEW p \in Peers, NEW b \in BOOLEAN,
           \A r \in Peers : r # p => lstate'[r] = lstate[r],
           (lstate'[p] = RUN) = b
    PROVE  OpenBar' = [OpenBar EXCEPT ![p] = b]
  BY Zenon DEF OpenBar

\* A peer that reads, or forgets, its partner changes its own mark only.
LEMMA AckedSet ==
    ASSUME NEW p \in Peers, NEW b \in BOOLEAN,
           \A r \in Peers : (Acked(r)' = (IF r = p THEN b ELSE Acked(r)))
    PROVE  AckedBar' = [AckedBar EXCEPT ![p] = b]
  BY Zenon DEF AckedBar

\* Publishing a state is a Refresh, an Open, a Close, or does not show.
LEMMA PublishRefines ==
    ASSUME HandshakeInv, NEW p \in Peers, FsmPublish(p)
    PROVE  SameSession \/ Session!Next
<1> DEFINE q == Other(p)
<1>1. /\ q \in Peers /\ q # p /\ p = Other(q)
      /\ \A r \in Peers : r = p \/ r = q
      /\ \A r \in Peers : lstate'[r] = IF r = p THEN target[p] ELSE lstate[r]
      /\ \A r \in Peers : lstate[r] \in States
  BY BothPeers DEF HandshakeInv, TypeOK, FsmPublish, SetState
<1>2. <<lstate[p], target[p]>> \in
          {<<RESET, INIT>>, <<INIT, READY>>, <<READY, RUN>>, <<RUN, RESET>>}
  BY DEF HandshakeInv, PeerInv, PublishInv, FsmPublish
<1>0. \A r \in Peers : r # p => lstate'[r] = lstate[r]
  BY <1>1
<1>3. /\ Acked(p) = (lstate[p] = READY /\ target[p] = RUN)
      /\ \A r \in Peers : (Acked(r)' = (IF r = p THEN FALSE ELSE Acked(r)))
  BY <1>1 DEF HandshakeInv, TypeOK, FsmPublish, Acked
<1>4. CASE lstate[p] = RESET /\ target[p] = INIT
  <2>1. FreshBar' = FreshBar
    <3>1. \A r \in Peers : (lstate'[r] >= READY) = (lstate[r] >= READY)
      BY <1>1, <1>4 DEF RESET, INIT, READY, States
    <3> QED BY <3>1, FreshKept, Zenon
  <2>2. OpenBar' = OpenBar
    <3>1. \A r \in Peers : (lstate'[r] = RUN) = (lstate[r] = RUN)
      BY <1>1, <1>4 DEF RESET, INIT, RUN
    <3> QED BY <3>1, OpenKept, Zenon
  <2>3. AckedBar' = AckedBar
    <3>1. ~Acked(p)
      BY <1>4 DEF Acked, RESET, READY
    <3>2. \A r \in Peers : (Acked(r)' = Acked(r))
      BY <1>3, <3>1, Zenon DEF Acked
    <3> QED BY <3>2, AckedKept, Zenon
  <2> QED BY <2>1, <2>2, <2>3 DEF SameSession
<1>5. CASE lstate[p] = INIT /\ target[p] = READY
  <2>1. FreshBar' = [FreshBar EXCEPT ![p] = TRUE]
    <3>1. (lstate'[p] >= READY) = TRUE
      BY <1>1, <1>5 DEF INIT, READY, States
    <3> QED BY <3>1, <1>0, FreshSet, Zenon
  <2>2. OpenBar' = OpenBar
    <3>1. \A r \in Peers : (lstate'[r] = RUN) = (lstate[r] = RUN)
      BY <1>1, <1>5 DEF INIT, READY, RUN
    <3> QED BY <3>1, OpenKept, Zenon
  <2>3. AckedBar' = AckedBar
    <3>1. ~Acked(p)
      BY <1>5 DEF Acked, INIT, READY
    <3>2. \A r \in Peers : (Acked(r)' = Acked(r))
      BY <1>3, <3>1, Zenon DEF Acked
    <3> QED BY <3>2, AckedKept, Zenon
  <2>4. ~FreshBar[p]
    <3>1. ~(lstate[p] >= READY)
      BY <1>5 DEF INIT, READY
    <3> QED BY <3>1, Zenon DEF FreshBar
  <2>5. ~OpenBar[q] /\ ~AckedBar[q]
    <3>1. ~HalfInUse(q)
      BY <1>5 DEF HandshakeInv, PeerInv, HeldBack, Past, FsmPublish, INIT, READY,
         RUN, RESET
    <3>2. lstate[q] # RUN /\ ~Acked(q)
      BY <3>1 DEF HalfInUse
    <3> QED BY <1>1, <3>2, Zenon DEF OpenBar, AckedBar
  <2>6. Session!Refresh(p)
    BY <2>1, <2>2, <2>3, <2>4, <2>5, Zenon
    DEF Session!Refresh, Session!Other, Other, FreshBar, OpenBar, AckedBar
  <2> QED BY <2>6 DEF Session!Next, Session!Peers, Peers
<1>6. CASE lstate[p] = READY /\ target[p] = RUN
  <2>1. FreshBar' = FreshBar
    <3>1. \A r \in Peers : (lstate'[r] >= READY) = (lstate[r] >= READY)
      BY <1>1, <1>6 DEF READY, RUN, States
    <3> QED BY <3>1, FreshKept, Zenon
  <2>2. OpenBar' = [OpenBar EXCEPT ![p] = TRUE]
    BY <1>1, <1>6, OpenSet
  <2>3. AckedBar' = [AckedBar EXCEPT ![p] = FALSE]
    BY <1>3, AckedSet
  <2>4. AckedBar[p]
    BY <1>3, <1>6, Zenon DEF AckedBar
  <2>5. Session!Open(p)
    BY <2>1, <2>2, <2>3, <2>4, Zenon DEF Session!Open, FreshBar, OpenBar, AckedBar
  <2> QED BY <2>5 DEF Session!Next, Session!Peers, Peers
<1>7. CASE lstate[p] = RUN /\ target[p] = RESET
  <2>1. FreshBar' = [FreshBar EXCEPT ![p] = FALSE]
    <3>1. (lstate'[p] >= READY) = FALSE
      BY <1>1, <1>7 DEF RESET, READY, RUN, States
    <3> QED BY <3>1, <1>0, FreshSet, Zenon
  <2>2. OpenBar' = [OpenBar EXCEPT ![p] = FALSE]
    <3>1. (lstate'[p] = RUN) = FALSE
      BY <1>1, <1>7 DEF RESET, RUN
    <3> QED BY <3>1, <1>0, OpenSet, Zenon
  <2>3. AckedBar' = AckedBar
    <3>1. ~Acked(p)
      BY <1>7 DEF Acked, RUN, READY
    <3>2. \A r \in Peers : (Acked(r)' = Acked(r))
      BY <1>3, <3>1, Zenon DEF Acked
    <3> QED BY <3>2, AckedKept, Zenon
  <2>4. OpenBar[p]
    BY <1>7, Zenon DEF OpenBar
  <2>5. ~FreshBar[q]
    <3>1. lstate[q] = RESET
      BY <1>7 DEF HandshakeInv, PeerInv, LeaveInv, FsmPublish
    <3>2. ~(lstate[q] >= READY)
      BY <3>1 DEF RESET, READY
    <3> QED BY <1>1, <3>2, Zenon DEF FreshBar
  <2>6. Session!Close(p)
    BY <2>1, <2>2, <2>3, <2>4, <2>5, Zenon
    DEF Session!Close, Session!Other, Other, FreshBar, OpenBar, AckedBar
  <2> QED BY <2>6 DEF Session!Next, Session!Peers, Peers
<1> QED BY <1>2, <1>4, <1>5, <1>6, <1>7

\* A restart is a Fail.
LEMMA RestartRefines ==
    ASSUME HandshakeInv, NEW p \in Peers, Restart(p)
    PROVE  Session!Fail(p)
<1>1. /\ \A r \in Peers : lstate'[r] = IF r = p THEN RESET ELSE lstate[r]
      /\ \A r \in Peers : (Acked(r)' = (IF r = p THEN FALSE ELSE Acked(r)))
      /\ \A r \in Peers : lstate[r] \in States
  BY DEF HandshakeInv, TypeOK, Restart, Acked, RESET, READY
<1>0. \A r \in Peers : r # p => lstate'[r] = lstate[r]
  BY <1>1
<1>2. FreshBar' = [FreshBar EXCEPT ![p] = FALSE]
  <2>1. (lstate'[p] >= READY) = FALSE
    BY <1>1 DEF RESET, READY, States
  <2> QED BY <2>1, <1>0, FreshSet, Zenon
<1>3. OpenBar' = [OpenBar EXCEPT ![p] = FALSE]
  <2>1. (lstate'[p] = RUN) = FALSE
    BY <1>1 DEF RESET, RUN
  <2> QED BY <2>1, <1>0, OpenSet, Zenon
<1>4. AckedBar' = [AckedBar EXCEPT ![p] = FALSE]
  BY <1>1, AckedSet
<1> QED BY <1>2, <1>3, <1>4, Zenon DEF Session!Fail, FreshBar, OpenBar, AckedBar

\* The register handshake implements the abstract session: a half is made
\* fresh only outside of the peer's session, and a peer leaves a session only
\* after its partner has.
THEOREM HandshakeImplementsSession == ASSUME CalmWindow PROVE Spec => SessionSpec
<1>1. Init => Session!Init
  <2> SUFFICES ASSUME Init PROVE Session!Init
    OBVIOUS
  <2>1. /\ \A r \in Peers : (lstate[r] >= READY) = FALSE
        /\ \A r \in Peers : (lstate[r] = RUN) = FALSE
        /\ \A r \in Peers : Acked(r) = FALSE
    BY DEF Init, Acked, RESET, READY, RUN
  <2> QED BY <2>1, Zenon DEF Session!Init, Session!Peers, Peers
<1>2. HandshakeInv /\ [Next]_vars => [Session!Next]_(Session!sessionVars)
  <2> SUFFICES ASSUME HandshakeInv, [Next]_vars
               PROVE  SameSession \/ Session!Next
    BY Zenon DEF SameSession, Session!sessionVars, FreshBar, AckedBar, OpenBar
  <2>1. CASE UNCHANGED vars
    BY <2>1, SessionStutter DEF vars, localVars, threadVars, Acked
  <2>2. ASSUME NEW p \in Peers, FsmRead(p) PROVE SameSession \/ Session!Next
    BY <2>2, ReadRefines DEF Session!Next, Session!Peers, Peers
  <2>3. ASSUME NEW p \in Peers, FsmPublish(p) PROVE SameSession \/ Session!Next
    BY <2>3, PublishRefines
  <2>4. ASSUME NEW p \in Peers, Restart(p) PROVE SameSession \/ Session!Next
    BY <2>4, RestartRefines DEF Session!Next, Session!Peers, Peers
  <2>5. ASSUME NEW p \in Peers,
               \/ BootIrq(p) \/ BootCalc(p) \/ BootReset(p) \/ BootCheck(p)
               \/ BootPost(p) \/ Isr(p) \/ Wake(p) \/ Timeout(p) \/ Take(p)
               \/ FsmAct(p) \/ FsmStore(p) \/ PollDesc(p) \/ PollEnable(p) \/ Write(p)
        PROVE  SameSession \/ Session!Next
    BY <2>5, QuietSteps
  <2> QED BY <2>1, <2>2, <2>3, <2>4, <2>5 DEF Next, Boot, Thread, Fsm, Poll
<1> QED BY <1>1, <1>2, Handshake, PTL DEF Spec, SessionSpec, Session!Spec
=============================================================================
