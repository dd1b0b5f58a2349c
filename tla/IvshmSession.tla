---------------------------- MODULE IvshmSession ----------------------------
(***************************************************************************)
(* What the ivshmem handshake promises, without registers, interrupts or   *)
(* threads.  Each of two peers owns half of the shared memory.  A half is  *)
(* fresh once its owner has zeroed it for a new session; a session is open *)
(* at a peer while that peer uses both halves.                             *)
(***************************************************************************)
EXTENDS Integers

VARIABLES fresh,   \* the peer's half was zeroed for this session
          acked,   \* the peer has seen both halves fresh
          open     \* the peer is using the session

sessionVars == <<fresh, acked, open>>

Peers == {0, 1}
Other(p) == 1 - p

Init ==
    /\ fresh = [p \in Peers |-> FALSE]
    /\ acked = [p \in Peers |-> FALSE]
    /\ open  = [p \in Peers |-> FALSE]

\* p may zero its half only while the other peer neither uses it nor has
\* decided to use what it held before.
Refresh(p) ==
    /\ ~fresh[p]
    /\ ~open[Other(p)] /\ ~acked[Other(p)]
    /\ fresh' = [fresh EXCEPT ![p] = TRUE]
    /\ UNCHANGED <<acked, open>>

Observe(p) ==
    /\ fresh[p] /\ fresh[Other(p)] /\ ~open[p]
    /\ acked' = [acked EXCEPT ![p] = TRUE]
    /\ UNCHANGED <<fresh, open>>

Open(p) ==
    /\ acked[p]
    /\ open' = [open EXCEPT ![p] = TRUE]
    /\ acked' = [acked EXCEPT ![p] = FALSE]
    /\ UNCHANGED fresh

\* p leaves the session once its peer has left it
Close(p) ==
    /\ open[p] /\ ~fresh[Other(p)]
    /\ fresh' = [fresh EXCEPT ![p] = FALSE]
    /\ open'  = [open EXCEPT ![p] = FALSE]
    /\ UNCHANGED acked

\* p is restarted
Fail(p) ==
    /\ fresh' = [fresh EXCEPT ![p] = FALSE]
    /\ acked' = [acked EXCEPT ![p] = FALSE]
    /\ open'  = [open EXCEPT ![p] = FALSE]

Next == \E p \in Peers :
    Refresh(p) \/ Observe(p) \/ Open(p) \/ Close(p) \/ Fail(p)

Spec == Init /\ [][Next]_sessionVars

TypeOK ==
    /\ fresh \in [Peers -> BOOLEAN]
    /\ acked \in [Peers -> BOOLEAN]
    /\ open  \in [Peers -> BOOLEAN]

\* A peer that is in a session, or about to be, has zeroed its half for it,
\* and is not both.
UsesFreshHalf ==
    \A p \in Peers : /\ open[p] \/ acked[p] => fresh[p]
                     /\ ~(open[p] /\ acked[p])
=============================================================================
