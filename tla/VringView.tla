----------------------------- MODULE VringView -----------------------------
(***************************************************************************)
(* What tells two states of IvshmVring apart: memory that is overwritten   *)
(* before anything reads it again is left out of View.                     *)
(***************************************************************************)
EXTENDS IvshmVring

\* Descriptors whose address and length are still read
Filled == {d \in Desc : \E h \in Holders(d) : h[1] \in {"fill", "avail", "receiver", "used"}}

\* Descriptors whose next field is still read
Linked == {Chain(freeHead)[i] : i \in 0..numFree - 2}
          \cup UNION {{Chain(clean[t].top)[i] : i \in 0..clean[t].num - 2} : t \in Threads}

\* Cells whose bytes are still read
Live == UNION {Cells(d) : d \in {d \in Desc : \E h \in Holders(d) :
                                    h[1] \in {"fill", "avail", "receiver"}}}

LiveDesc(d) ==
    CASE d \in Filled -> <<desc[d].addr, desc[d].len>>
      [] d \in Linked -> <<desc[d].next>>
      [] OTHER        -> <<>>

View ==
    <<[d \in Desc |-> LiveDesc(d)],
      {<<k, avail[k % Num]>> : k \in Between(lastAvail, availIdx)}, availIdx,
      {<<k, used[k % Num]>> : k \in Between(Unclean, usedIdx)}, usedIdx,
      {<<c, mem[c]>> : c \in Live},
      IF numFree = 0 THEN 0 ELSE freeHead, numFree, lastUsed, head, tail,
      locks, pc, clean, frame, rx, halted, sent>>
=============================================================================
