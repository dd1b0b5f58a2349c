------------------------ MODULE IvshmSession_proofs ------------------------
(***************************************************************************)
(* Proofs about the abstract handshake.                                    *)
(***************************************************************************)
EXTENDS IvshmSession, TLAPS

\* A session never uses a half its owner has not zeroed: the reason why the
\* handshake publishes READY only after ivshm_init_queues.
THEOREM SessionUsesFreshHalf == Spec => [](TypeOK /\ UsesFreshHalf)
<1>1. Init => TypeOK /\ UsesFreshHalf
  BY DEF Init, TypeOK, UsesFreshHalf
<1>2. TypeOK /\ UsesFreshHalf /\ [Next]_sessionVars => (TypeOK /\ UsesFreshHalf)'
  <2> SUFFICES ASSUME TypeOK, UsesFreshHalf, [Next]_sessionVars
               PROVE  (TypeOK /\ UsesFreshHalf)'
    OBVIOUS
  <2> USE DEF TypeOK, UsesFreshHalf
  <2>1. ASSUME NEW p \in Peers, Refresh(p) PROVE (TypeOK /\ UsesFreshHalf)'
    BY <2>1 DEF Refresh
  <2>2. ASSUME NEW p \in Peers, Observe(p) PROVE (TypeOK /\ UsesFreshHalf)'
    BY <2>2 DEF Observe
  <2>3. ASSUME NEW p \in Peers, Open(p) PROVE (TypeOK /\ UsesFreshHalf)'
    BY <2>3 DEF Open
  <2>4. ASSUME NEW p \in Peers, Close(p) PROVE (TypeOK /\ UsesFreshHalf)'
    BY <2>4 DEF Close
  <2>5. ASSUME NEW p \in Peers, Fail(p) PROVE (TypeOK /\ UsesFreshHalf)'
    BY <2>5 DEF Fail
  <2>6. CASE UNCHANGED sessionVars
    BY <2>6 DEF sessionVars
  <2> QED BY <2>1, <2>2, <2>3, <2>4, <2>5, <2>6 DEF Next
<1> QED BY <1>1, <1>2, PTL DEF Spec
=============================================================================
