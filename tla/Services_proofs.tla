-------------------------- MODULE Services_proofs ---------------------------
(***************************************************************************)
(* Proofs about the serial, the rpc and the binary service and about the   *)
(* endpoint, for every value of the constants.  The theorems are about the *)
(* specification of MCServices, in which one of them moves; each has an    *)
(* inductive invariant of its own, which the steps of the others leave     *)
(* alone.  The types of all that MCServices composes follow from the       *)
(* invariants of its parts.                                                *)
(***************************************************************************)
EXTENDS MCServices, SequenceTheorems, FiniteSetTheorems, FunctionTheorems, TLAPS

-----------------------------------------------------------------------------
\* What the two ends of a queue do to its entries
LEMMA AppendIs ==
  ASSUME NEW S, NEW s \in Seq(S), NEW e \in S
  PROVE  /\ Append(s, e) \in Seq(S)
         /\ Len(s) \in Nat /\ Len(Append(s, e)) = Len(s) + 1
         /\ \A i \in 1..Len(s) : Append(s, e)[i] = s[i] /\ s[i] \in S
         /\ Append(s, e)[Len(s) + 1] = e
         /\ \A i \in 1..Len(Append(s, e)) : i \in 1..Len(s) \/ i = Len(s) + 1
  OBVIOUS

\* What the head and the tail of a sequence are.
LEMMA TailIs ==
  ASSUME NEW S, NEW s \in Seq(S), s # <<>>
  PROVE  /\ Head(s) = s[1] /\ Head(s) \in S /\ 1 \in 1..Len(s)
         /\ Len(s) \in Nat /\ Len(Tail(s)) = Len(s) - 1 /\ Tail(s) \in Seq(S)
         /\ \A i \in 1..Len(Tail(s)) : /\ Tail(s)[i] = s[i + 1]
                                       /\ i + 1 \in 1..Len(s) /\ i + 1 > 1
  OBVIOUS

\* The entries of a sequence are in its set.
LEMMA EntriesAre ==
  ASSUME NEW S, NEW s \in Seq(S)
  PROVE  Len(s) \in Nat /\ \A i \in 1..Len(s) : s[i] \in S
  OBVIOUS

(***************************************************************************)
(* The serial service                                                      *)
(***************************************************************************)

\* The lock is held while the buffer is drained, to which nothing is added.
SerialLock ==
    /\ lock <=> serialApc = "drain"
    /\ lock => left = Len(cbuf)
    /\ serialEpc # "idle" => arrived > 0

\* The frame that the endpoint thread has in hand
InHand == IF serialEpc = "idle" THEN {} ELSE {arrived}

Injective(s) == \A i, j \in 1..Len(s) : s[i] = s[j] => i = j

\* Where frame n is
InBuffer(n)  == \E i \in 1..Len(cbuf) : cbuf[i] = n
IsHandled(n) == \E i \in 1..Len(handled) : handled[i] = n

SerialPlace ==
    /\ Injective(cbuf) /\ Injective(handled)
    /\ \A i \in 1..Len(cbuf) : cbuf[i] \in 1..arrived /\ cbuf[i] \notin InHand \cup lost
    /\ \A i \in 1..Len(handled) : handled[i] \in 1..arrived /\ handled[i] \notin InHand \cup lost
    /\ \A i \in 1..Len(cbuf), j \in 1..Len(handled) : cbuf[i] # handled[j]
    /\ lost \subseteq 1..arrived /\ lost \cap InHand = {}
    /\ InHand \subseteq 1..arrived
    /\ \A n \in 1..arrived : InBuffer(n) \/ IsHandled(n) \/ n \in lost \/ n \in InHand

SerialKept ==
    ~dropped => /\ ~bufferRx \/ serialApc = "mode" \/ serialEpc \in {"test", "call"} => rxCb
                /\ serialApc # "clear"
                /\ lost = {} /\ serialFailed # "null_call"

SerialInv == Serial!TypeOK /\ SerialLock /\ (Serial!Running => SerialPlace) /\ SerialKept

-----------------------------------------------------------------------------
\* What the serial service needs of its constants is assumed of them.
LEMMA SerialAssumed == Serial!SerialAssumption
  BY ServicesAssumption DEF ServicesAssumption

\* What is handed over leaves the front of the buffer.
LEMMA Split ==
  ASSUME NEW S, NEW s \in Seq(S), NEW t \in Seq(S), NEW n \in 0..Len(s)
  PROVE  /\ t \o SubSeq(s, 1, n) \in Seq(S)
         /\ Len(t \o SubSeq(s, 1, n)) = Len(t) + n
         /\ \A i \in 1..Len(t) : (t \o SubSeq(s, 1, n))[i] = t[i]
         /\ \A i \in 1..n : (t \o SubSeq(s, 1, n))[Len(t) + i] = s[i]
         /\ SubSeq(s, n + 1, Len(s)) \in Seq(S)
         /\ Len(SubSeq(s, n + 1, Len(s))) = Len(s) - n
         /\ \A i \in 1..Len(s) - n : SubSeq(s, n + 1, Len(s))[i] = s[n + i]
<1>1. Len(s) \in Nat /\ \A i \in 1..Len(s) : s[i] \in S
  OBVIOUS
<1>2. /\ SubSeq(s, 1, n) \in Seq(S) /\ Len(SubSeq(s, 1, n)) = n
      /\ \A i \in 1..n : SubSeq(s, 1, n)[i] = s[i]
  BY <1>1, SubSeqProperties
<1>3. /\ SubSeq(s, n + 1, Len(s)) \in Seq(S)
      /\ Len(SubSeq(s, n + 1, Len(s))) = Len(s) - n
      /\ \A i \in 1..Len(s) - n : SubSeq(s, n + 1, Len(s))[i] = s[n + i]
  BY <1>1, SubSeqProperties
<1>4. QED
  BY <1>1, <1>2, <1>3, ConcatProperties

\* Every step of the serial service keeps its types and its lock.
LEMMA SerialTypeStep ==
  ASSUME Serial!TypeOK, SerialLock, [Serial!Next]_(Serial!vars)
  PROVE  Serial!TypeOK' /\ SerialLock'
<1>1. CASE Serial!Consume
  BY <1>1, SerialAssumed
     DEF Serial!Consume, Serial!modeVars, Serial!appVars, Serial!Running, Serial!TypeOK,
         Serial!Frames, Serial!SerialAssumption, SerialLock
<1>2. CASE Serial!Buffer
  <2>1. arrived \in Serial!Frames /\ cbuf \in Seq(Serial!Frames) /\ Len(cbuf) =< CbufRoom
    BY <1>2, SerialAssumed
       DEF Serial!Buffer, Serial!TypeOK, SerialLock, Serial!Frames, Serial!SerialAssumption
  <2>2. cbuf' \in Seq(Serial!Frames) /\ Len(cbuf') =< CbufRoom
    BY <1>2, <2>1, SerialAssumed DEF Serial!Buffer, Serial!Fits, Serial!SerialAssumption
  <2>3. serialFailed' \in {"none", "full", "null_call"}
    BY <1>2 DEF Serial!Buffer, Serial!TypeOK
  <2>4. QED
    BY <1>2, <2>2, <2>3
       DEF Serial!Buffer, Serial!modeVars, Serial!appVars, Serial!TypeOK, SerialLock
<1>3. CASE Serial!TestCallback
  BY <1>3, SerialAssumed
     DEF Serial!TestCallback, Serial!modeVars, Serial!appVars, Serial!Running,
         Serial!TypeOK, Serial!Frames, Serial!SerialAssumption, SerialLock
<1>4. CASE Serial!RunCallback
  <2>1. arrived \in Serial!Frames /\ handled \in Seq(Serial!Frames)
    BY <1>4, SerialAssumed
       DEF Serial!RunCallback, Serial!TypeOK, SerialLock, Serial!Frames, Serial!SerialAssumption
  <2>2. handled' \in Seq(Serial!Frames)
    BY <1>4, <2>1 DEF Serial!RunCallback
  <2>3. serialFailed' \in {"none", "full", "null_call"}
    BY <1>4 DEF Serial!RunCallback, Serial!TypeOK
  <2>4. QED
    BY <1>4, <2>2, <2>3
       DEF Serial!RunCallback, Serial!modeVars, Serial!appVars, Serial!TypeOK, SerialLock
<1>5. CASE Serial!Register
  BY <1>5, SerialAssumed
     DEF Serial!Register, Serial!StoreCallback, Serial!consumerVars, Serial!Running,
         Serial!TypeOK, Serial!Frames, Serial!SerialAssumption, SerialLock
<1>6. CASE Serial!RegisterMode
  BY <1>6, SerialAssumed
     DEF Serial!RegisterMode, Serial!consumerVars, Serial!Running, Serial!TypeOK,
         Serial!Frames, Serial!SerialAssumption, SerialLock
<1>7. CASE Serial!RegisterLock
  BY <1>7, SerialAssumed
     DEF Serial!RegisterLock, Serial!consumerVars, Serial!modeVars, Serial!Running,
         Serial!TypeOK, Serial!Frames, Serial!SerialAssumption, SerialLock
<1>8. CASE Serial!Drain
  <2>1. left = Len(cbuf) /\ left \in Nat /\ CbMax \in Nat \ {0}
    BY <1>8, SerialAssumed
       DEF Serial!Drain, Serial!TypeOK, SerialLock, Serial!SerialAssumption
  <2>2. PICK n \in 0..Len(cbuf) : n = IF left > CbMax THEN CbMax ELSE left
    BY <2>1
  <2>3. /\ handled' = handled \o SubSeq(cbuf, 1, n)
        /\ cbuf' = SubSeq(cbuf, n + 1, Len(cbuf))
        /\ left' = left - n
    BY <1>8, <2>2 DEF Serial!Drain, Serial!Rest
  <2>4. cbuf \in Seq(Serial!Frames) /\ handled \in Seq(Serial!Frames)
    BY DEF Serial!TypeOK
  <2>5. /\ cbuf' \in Seq(Serial!Frames) /\ handled' \in Seq(Serial!Frames)
        /\ Len(cbuf') = Len(cbuf) - n
    BY <2>3, <2>4, Split
  <2>6. /\ left' \in 0..CbufRoom /\ left' = Len(cbuf') /\ Len(cbuf') =< CbufRoom
    BY <2>1, <2>3, <2>5, SerialAssumed DEF Serial!TypeOK, Serial!SerialAssumption
  <2>7. QED
    BY <1>8, <2>5, <2>6
       DEF Serial!Drain, Serial!consumerVars, Serial!modeVars, Serial!TypeOK, SerialLock
<1>9. CASE Serial!RegisterEnd
  BY <1>9, SerialAssumed
     DEF Serial!RegisterEnd, Serial!consumerVars, Serial!modeVars, Serial!Running,
         Serial!TypeOK, Serial!Frames, Serial!SerialAssumption, SerialLock
<1>10. CASE Serial!Unregister
  BY <1>10, SerialAssumed
     DEF Serial!Unregister, Serial!consumerVars, Serial!Running, Serial!TypeOK,
         Serial!Frames, Serial!SerialAssumption, SerialLock
<1>11. CASE Serial!UnregisterClear
  BY <1>11, SerialAssumed
     DEF Serial!UnregisterClear, Serial!consumerVars, Serial!Running, Serial!TypeOK,
         Serial!Frames, Serial!SerialAssumption, SerialLock
<1>12. CASE Serial!GetChars
  <2>1. cbuf \in Seq(Serial!Frames) /\ handled \in Seq(Serial!Frames)
    BY DEF Serial!TypeOK
  <2>2. PICK n \in 1..Len(cbuf) : /\ handled' = handled \o SubSeq(cbuf, 1, n)
                                  /\ cbuf' = SubSeq(cbuf, n + 1, Len(cbuf))
    BY <1>12 DEF Serial!GetChars, Serial!Rest
  <2>3. n \in 0..Len(cbuf)
    BY <2>1
  <2>4. /\ cbuf' \in Seq(Serial!Frames) /\ handled' \in Seq(Serial!Frames)
        /\ Len(cbuf') = Len(cbuf) - n
    BY <2>1, <2>2, <2>3, Split
  <2>5. Len(cbuf') =< CbufRoom
    BY <2>3, <2>4, SerialAssumed DEF Serial!TypeOK, Serial!SerialAssumption
  <2>6. QED
    BY <1>12, <2>4, <2>5
       DEF Serial!GetChars, Serial!consumerVars, Serial!modeVars, Serial!appVars,
           Serial!TypeOK, SerialLock
<1>13. CASE UNCHANGED Serial!vars
  BY <1>13
     DEF Serial!vars, Serial!consumerVars, Serial!modeVars, Serial!appVars, Serial!TypeOK,
         SerialLock
<1>14. QED
  BY <1>1, <1>2, <1>3, <1>4, <1>5, <1>6, <1>7, <1>8, <1>9, <1>10, <1>11, <1>12, <1>13
     DEF Serial!Next

\* Frames that are handed over keep their one place.
LEMMA HandOver ==
  ASSUME SerialPlace, NEW n \in 0..Len(cbuf),
         cbuf \in Seq(Serial!Frames), handled \in Seq(Serial!Frames),
         handled' = handled \o SubSeq(cbuf, 1, n),
         cbuf' = SubSeq(cbuf, n + 1, Len(cbuf)),
         UNCHANGED <<arrived, serialEpc, lost>>
  PROVE  SerialPlace'
<1>1. /\ Len(handled) \in Nat /\ Len(cbuf) \in Nat /\ n \in Nat /\ n =< Len(cbuf)
      /\ Len(handled') = Len(handled) + n
      /\ \A i \in 1..Len(handled) : handled'[i] = handled[i]
      /\ \A i \in 1..n : handled'[Len(handled) + i] = cbuf[i]
      /\ Len(cbuf') = Len(cbuf) - n
      /\ \A i \in 1..Len(cbuf') : cbuf'[i] = cbuf[n + i]
  BY Split
<1>2. InHand' = InHand
  BY DEF InHand
\* Where an entry of the new sequences comes from
<1>3. \A i \in 1..Len(handled') : \/ i \in 1..Len(handled) /\ handled'[i] = handled[i]
                                 \/ /\ i - Len(handled) \in 1..n
                                    /\ handled'[i] = cbuf[i - Len(handled)]
  <2> TAKE i \in 1..Len(handled')
  <2>1. CASE i =< Len(handled)
    BY <1>1, <2>1
  <2>2. CASE i > Len(handled)
    <3>1. i - Len(handled) \in 1..n /\ i = Len(handled) + (i - Len(handled))
      BY <1>1, <2>2
    <3>2. QED
      BY <1>1, <3>1
  <2>3. QED
    BY <1>1, <2>1, <2>2
<1>4. \A i \in 1..Len(cbuf') : n + i \in 1..Len(cbuf) /\ n + i > n /\ cbuf'[i] = cbuf[n + i]
  BY <1>1
<1>5. Injective(cbuf')
  BY <1>1, <1>4 DEF SerialPlace, Injective
<1>6. Injective(handled')
  <2> SUFFICES ASSUME NEW i \in 1..Len(handled'), NEW j \in 1..Len(handled'),
                      handled'[i] = handled'[j]
               PROVE  i = j
    BY DEF Injective
  <2>1. CASE i \in 1..Len(handled) /\ j \in 1..Len(handled)
    BY <1>1, <2>1 DEF SerialPlace, Injective
  <2>2. CASE i \notin 1..Len(handled) /\ j \notin 1..Len(handled)
    <3>1. /\ i - Len(handled) \in 1..Len(cbuf) /\ j - Len(handled) \in 1..Len(cbuf)
          /\ cbuf[i - Len(handled)] = cbuf[j - Len(handled)]
      BY <1>1, <1>3, <2>2
    <3>2. i - Len(handled) = j - Len(handled)
      BY <3>1 DEF SerialPlace, Injective
    <3>3. QED
      BY <1>1, <3>2
  <2>3. CASE i \in 1..Len(handled) /\ j \notin 1..Len(handled)
    <3>1. j - Len(handled) \in 1..Len(cbuf) /\ handled[i] = cbuf[j - Len(handled)]
      BY <1>1, <1>3, <2>3
    <3>2. QED
      BY <2>3, <3>1 DEF SerialPlace
  <2>4. CASE i \notin 1..Len(handled) /\ j \in 1..Len(handled)
    <3>1. i - Len(handled) \in 1..Len(cbuf) /\ handled[j] = cbuf[i - Len(handled)]
      BY <1>1, <1>3, <2>4
    <3>2. QED
      BY <2>4, <3>1 DEF SerialPlace
  <2>5. QED
    BY <2>1, <2>2, <2>3, <2>4
<1>7. \A i \in 1..Len(cbuf') : cbuf'[i] \in 1..arrived /\ cbuf'[i] \notin InHand \cup lost
  BY <1>4 DEF SerialPlace
<1>8. \A i \in 1..Len(handled') : /\ handled'[i] \in 1..arrived
                                 /\ handled'[i] \notin InHand \cup lost
  <2> TAKE i \in 1..Len(handled')
  <2>1. CASE i \in 1..Len(handled)
    BY <1>1, <2>1 DEF SerialPlace
  <2>2. CASE i - Len(handled) \in 1..n /\ handled'[i] = cbuf[i - Len(handled)]
    <3>1. i - Len(handled) \in 1..Len(cbuf)
      BY <1>1, <2>2
    <3>2. QED
      BY <2>2, <3>1 DEF SerialPlace
  <2>3. QED
    BY <1>3, <2>1, <2>2
<1>9. \A i \in 1..Len(cbuf'), j \in 1..Len(handled') : cbuf'[i] # handled'[j]
  <2> TAKE i \in 1..Len(cbuf'), j \in 1..Len(handled')
  <2>1. CASE j \in 1..Len(handled)
    BY <1>1, <1>4, <2>1 DEF SerialPlace
  <2>2. CASE j - Len(handled) \in 1..n /\ handled'[j] = cbuf[j - Len(handled)]
    <3>1. /\ j - Len(handled) \in 1..Len(cbuf) /\ n + i \in 1..Len(cbuf)
          /\ j - Len(handled) # n + i
      <4>1. j - Len(handled) \in 1..n /\ n + i \in 1..Len(cbuf) /\ n + i > n
        BY <1>4, <2>2
      <4>2. QED
        BY <4>1, <1>1
    <3>2. cbuf[j - Len(handled)] # cbuf[n + i]
      BY <3>1 DEF SerialPlace, Injective
    <3>3. QED
      BY <1>4, <2>2, <3>2
  <2>3. QED
    BY <1>3, <2>1, <2>2
<1>10. \A m \in 1..arrived : InBuffer(m)' \/ IsHandled(m)' \/ m \in lost \/ m \in InHand
  <2> TAKE m \in 1..arrived
  <2>1. CASE InBuffer(m)
    <3>1. PICK i \in 1..Len(cbuf) : cbuf[i] = m
      BY <2>1 DEF InBuffer
    <3>2. CASE i =< n
      <4>1. Len(handled) + i \in 1..Len(handled') /\ handled'[Len(handled) + i] = m
        BY <1>1, <3>1, <3>2
      <4>2. QED
        BY <4>1 DEF IsHandled
    <3>3. CASE i > n
      <4>1. i - n \in 1..Len(cbuf') /\ cbuf'[i - n] = cbuf[n + (i - n)] /\ n + (i - n) = i
        BY <1>1, <3>1, <3>3
      <4>2. QED
        BY <3>1, <4>1 DEF InBuffer
    <3>4. QED
      BY <1>1, <3>2, <3>3
  <2>2. CASE IsHandled(m)
    BY <1>1, <2>2 DEF IsHandled
  <2>3. QED
    BY <2>1, <2>2 DEF SerialPlace
<1>11. QED
  BY <1>2, <1>5, <1>6, <1>7, <1>8, <1>9, <1>10 DEF SerialPlace

\* Every step keeps the place of the received bytes while the service runs.
LEMMA SerialPlaceStep ==
  ASSUME Serial!TypeOK, SerialLock, Serial!Running => SerialPlace, [Serial!Next]_(Serial!vars)
  PROVE  (Serial!Running => SerialPlace)'
<1>1. CASE Serial!Consume
  <2>1. /\ SerialPlace /\ arrived \in Nat /\ arrived' = arrived + 1
        /\ serialEpc = "idle" /\ serialEpc' # "idle"
        /\ UNCHANGED <<lost, cbuf, handled>>
    BY <1>1, SerialAssumed
       DEF Serial!Consume, Serial!TypeOK, Serial!SerialAssumption, Serial!Running
  <2>2. InHand = {} /\ InHand' = {arrived + 1}
    BY <2>1 DEF InHand
  <2>3. \A m \in 1..arrived' : m \in 1..arrived \/ m \in InHand'
    BY <2>1, <2>2
  <2>4. \A m : InBuffer(m)' = InBuffer(m) /\ IsHandled(m)' = IsHandled(m)
    BY <2>1 DEF InBuffer, IsHandled
  <2>5. QED
    BY <2>1, <2>2, <2>3, <2>4 DEF SerialPlace, Injective
<1>2. CASE Serial!Buffer
  <2> SUFFICES ASSUME Serial!Running' PROVE SerialPlace'
    OBVIOUS
  <2>1. /\ SerialPlace /\ cbuf \in Seq(Serial!Frames)
        /\ serialEpc = "buffer" /\ serialEpc' = "idle" /\ cbuf' = Append(cbuf, arrived)
        /\ UNCHANGED <<arrived, lost, handled>>
    BY <1>2 DEF Serial!Buffer, Serial!TypeOK, Serial!Running
  <2>2. InHand = {arrived} /\ InHand' = {} /\ arrived \in 1..arrived
    BY <2>1 DEF InHand, SerialPlace
  <2>3. /\ Len(cbuf) \in Nat /\ Len(cbuf') = Len(cbuf) + 1
        /\ \A i \in 1..Len(cbuf) : cbuf'[i] = cbuf[i]
        /\ cbuf'[Len(cbuf) + 1] = arrived
    BY <2>1
  <2>4. \A i \in 1..Len(cbuf') : i \in 1..Len(cbuf) \/ i = Len(cbuf) + 1
    BY <2>3
  <2>5. Injective(cbuf')
    BY <2>2, <2>3, <2>4, <2>1 DEF SerialPlace, Injective
  <2>6. \A i \in 1..Len(cbuf') : /\ cbuf'[i] \in 1..arrived /\ cbuf'[i] \notin lost
                                /\ \A j \in 1..Len(handled) : cbuf'[i] # handled[j]
    BY <2>1, <2>2, <2>3, <2>4 DEF SerialPlace
  <2>7. \A m \in 1..arrived : InBuffer(m)' \/ IsHandled(m) \/ m \in lost
    <3> TAKE m \in 1..arrived
    <3>1. CASE m \in InHand
      <4>1. Len(cbuf) + 1 \in 1..Len(cbuf') /\ cbuf'[Len(cbuf) + 1] = m
        BY <2>2, <2>3, <3>1
      <4>2. QED
        BY <4>1 DEF InBuffer
    <3>2. CASE InBuffer(m)
      <4>1. PICK i \in 1..Len(cbuf) : cbuf[i] = m
        BY <3>2 DEF InBuffer
      <4>2. i \in 1..Len(cbuf') /\ cbuf'[i] = m
        BY <2>3, <4>1
      <4>3. QED
        BY <4>2 DEF InBuffer
    <3>3. QED
      BY <2>1, <3>1, <3>2 DEF SerialPlace
  <2>8. QED
    BY <2>1, <2>2, <2>5, <2>6, <2>7 DEF SerialPlace, Injective, IsHandled
<1>3. CASE Serial!TestCallback
  <2>1. /\ SerialPlace /\ serialEpc = "test"
        /\ serialEpc' = (IF rxCb THEN "call" ELSE "idle")
        /\ lost' = (IF rxCb THEN lost ELSE lost \cup {arrived})
        /\ UNCHANGED <<arrived, cbuf, handled>>
    BY <1>3 DEF Serial!TestCallback, Serial!Running
  <2>2. InHand = {arrived} /\ InHand' \cup lost' = InHand \cup lost /\ InHand' \cap lost' = {}
    BY <2>1 DEF InHand, SerialPlace
  <2>3. \A m : InBuffer(m)' = InBuffer(m) /\ IsHandled(m)' = IsHandled(m)
    BY <2>1 DEF InBuffer, IsHandled
  <2>4. QED
    BY <2>1, <2>2, <2>3 DEF SerialPlace, Injective
<1>4. CASE Serial!RunCallback
  <2> SUFFICES ASSUME Serial!Running' PROVE SerialPlace'
    OBVIOUS
  <2>1. /\ SerialPlace /\ handled \in Seq(Serial!Frames)
        /\ serialEpc = "call" /\ serialEpc' = "idle" /\ handled' = Append(handled, arrived)
        /\ UNCHANGED <<arrived, lost, cbuf>>
    BY <1>4 DEF Serial!RunCallback, Serial!TypeOK, Serial!Running
  <2>2. InHand = {arrived} /\ InHand' = {} /\ arrived \in 1..arrived
    BY <2>1 DEF InHand, SerialPlace
  <2>3. /\ Len(handled) \in Nat /\ Len(handled') = Len(handled) + 1
        /\ \A i \in 1..Len(handled) : handled'[i] = handled[i]
        /\ handled'[Len(handled) + 1] = arrived
    BY <2>1
  <2>4. \A i \in 1..Len(handled') : i \in 1..Len(handled) \/ i = Len(handled) + 1
    BY <2>3
  <2>5. Injective(handled')
    BY <2>2, <2>3, <2>4, <2>1 DEF SerialPlace, Injective
  <2>6. \A i \in 1..Len(handled') : /\ handled'[i] \in 1..arrived /\ handled'[i] \notin lost
                                   /\ \A j \in 1..Len(cbuf) : cbuf[j] # handled'[i]
    BY <2>1, <2>2, <2>3, <2>4 DEF SerialPlace
  <2>7. \A m \in 1..arrived : IsHandled(m)' \/ InBuffer(m) \/ m \in lost
    <3> TAKE m \in 1..arrived
    <3>1. CASE m \in InHand
      <4>1. Len(handled) + 1 \in 1..Len(handled') /\ handled'[Len(handled) + 1] = m
        BY <2>2, <2>3, <3>1
      <4>2. QED
        BY <4>1 DEF IsHandled
    <3>2. CASE IsHandled(m)
      <4>1. PICK i \in 1..Len(handled) : handled[i] = m
        BY <3>2 DEF IsHandled
      <4>2. i \in 1..Len(handled') /\ handled'[i] = m
        BY <2>3, <4>1
      <4>3. QED
        BY <4>2 DEF IsHandled
    <3>3. QED
      BY <2>1, <3>1, <3>2 DEF SerialPlace
  <2>8. QED
    BY <2>1, <2>2, <2>5, <2>6, <2>7 DEF SerialPlace, Injective, InBuffer
<1>5. CASE Serial!Drain
  <2>1. left = Len(cbuf) /\ left \in Nat /\ CbMax \in Nat \ {0}
    BY <1>5, SerialAssumed
       DEF Serial!Drain, Serial!TypeOK, SerialLock, Serial!SerialAssumption
  <2>2. PICK n \in 0..Len(cbuf) : n = IF left > CbMax THEN CbMax ELSE left
    BY <2>1
  <2>3. /\ handled' = handled \o SubSeq(cbuf, 1, n)
        /\ cbuf' = SubSeq(cbuf, n + 1, Len(cbuf))
    BY <1>5, <2>2 DEF Serial!Drain, Serial!Rest
  <2>4. QED
    BY <1>5, <2>3, HandOver
       DEF Serial!Drain, Serial!consumerVars, Serial!TypeOK, Serial!Running
<1>6. CASE Serial!GetChars
  <2>1. PICK n \in 1..Len(cbuf) : /\ handled' = handled \o SubSeq(cbuf, 1, n)
                                  /\ cbuf' = SubSeq(cbuf, n + 1, Len(cbuf))
    BY <1>6 DEF Serial!GetChars, Serial!Rest
  <2>2. cbuf \in Seq(Serial!Frames) /\ handled \in Seq(Serial!Frames)
    BY DEF Serial!TypeOK
  <2>3. n \in 0..Len(cbuf)
    BY <2>2
  <2>4. QED
    BY <1>6, <2>1, <2>2, <2>3, HandOver
       DEF Serial!GetChars, Serial!consumerVars, Serial!Running
<1>7. ASSUME UNCHANGED <<arrived, serialEpc, lost, serialFailed, cbuf, handled>>
      PROVE  (Serial!Running => SerialPlace)'
  BY <1>7 DEF Serial!Running, SerialPlace, Injective, InHand, InBuffer, IsHandled
<1>8. CASE Serial!Register \/ Serial!RegisterMode \/ Serial!RegisterLock \/ Serial!RegisterEnd
           \/ Serial!Unregister \/ Serial!UnregisterClear \/ UNCHANGED Serial!vars
  BY <1>7, <1>8
     DEF Serial!Register, Serial!RegisterMode, Serial!RegisterLock, Serial!RegisterEnd,
         Serial!Unregister, Serial!UnregisterClear, Serial!vars, Serial!consumerVars
<1>9. QED
  BY <1>1, <1>2, <1>3, <1>4, <1>5, <1>6, <1>8 DEF Serial!Next

\* Every step keeps what has been handed over.
LEMMA SerialKeptStep ==
  ASSUME Serial!TypeOK, SerialKept, [Serial!Next]_(Serial!vars)
  PROVE  SerialKept'
<1> USE DEF SerialKept, Serial!consumerVars, Serial!modeVars, Serial!appVars
<1>1. CASE Serial!Consume \/ Serial!Buffer
  BY <1>1 DEF Serial!Consume, Serial!Buffer, Serial!TypeOK
<1>2. CASE Serial!TestCallback
  BY <1>2 DEF Serial!TestCallback, Serial!TypeOK
<1>3. CASE Serial!RunCallback
  BY <1>3 DEF Serial!RunCallback, Serial!TypeOK
<1>4. CASE Serial!Register \/ Serial!RegisterMode \/ Serial!RegisterLock \/ Serial!RegisterEnd
  BY <1>4 DEF Serial!Register, Serial!RegisterMode, Serial!RegisterLock, Serial!RegisterEnd,
              Serial!StoreCallback
<1>5. CASE Serial!Drain \/ Serial!GetChars
  BY <1>5 DEF Serial!Drain, Serial!GetChars
<1>6. CASE Serial!Unregister \/ Serial!UnregisterClear
  BY <1>6 DEF Serial!Unregister, Serial!UnregisterClear
<1>7. CASE UNCHANGED Serial!vars
  BY <1>7 DEF Serial!vars
<1>8. QED
  BY <1>1, <1>2, <1>3, <1>4, <1>5, <1>6, <1>7 DEF Serial!Next

\* A frame whose places are all the same has one place.
LEMMA OneOfPlaces ==
  ASSUME Serial!TypeOK, SerialPlace
  PROVE  \A n \in 1..arrived : Cardinality(Serial!Places(n)) = 1
<1> TAKE n \in 1..arrived
<1>1. /\ cbuf \in Seq(Serial!Frames) /\ handled \in Seq(Serial!Frames)
      /\ DOMAIN cbuf = 1..Len(cbuf) /\ DOMAIN handled = 1..Len(handled)
  BY DEF Serial!TypeOK
<1>2. \A p : p \in Serial!Places(n) <=>
        \/ \E i \in 1..Len(cbuf) : p = <<"buffer", i>> /\ cbuf[i] = n
        \/ \E i \in 1..Len(handled) : p = <<"handled", i>> /\ handled[i] = n
        \/ p = <<"endpoint", n>> /\ n \in InHand
        \/ p = <<"lost", n>> /\ n \in lost
  BY <1>1 DEF Serial!Places, InHand
<1>3. \E p : p \in Serial!Places(n)
  BY <1>2 DEF SerialPlace, InBuffer, IsHandled
<1>4. \A p, q : p \in Serial!Places(n) /\ q \in Serial!Places(n) => p = q
  BY <1>2 DEF SerialPlace, Injective
<1>5. PICK p : Serial!Places(n) = {p}
  BY <1>3, <1>4
<1>6. QED
  BY <1>5, FS_Singleton

\* The serial service starts in its invariant.
LEMMA SerialInit == Serial!Init => SerialInv
<1> SUFFICES ASSUME Serial!Init PROVE SerialInv
  OBVIOUS
<1> USE SerialAssumed DEF Serial!Init, Serial!SerialAssumption
<1>1. dropped \in BOOLEAN /\ rxCb \in BOOLEAN /\ bufferRx \in BOOLEAN /\ lock \in BOOLEAN
  OBVIOUS
<1>2. cbuf \in Seq(Serial!Frames) /\ handled \in Seq(Serial!Frames) /\ Len(cbuf) = 0
      /\ Len(handled) = 0
  OBVIOUS
<1>3. Serial!TypeOK
  BY <1>1, <1>2 DEF Serial!TypeOK
<1>4. SerialLock
  BY <1>2 DEF SerialLock
<1>5. SerialPlace
  BY <1>2 DEF SerialPlace, Injective, InHand
<1>6. SerialKept
  BY DEF SerialKept
<1>7. QED
  BY <1>3, <1>4, <1>5, <1>6 DEF SerialInv

\* The invariant of the serial service is inductive.
LEMMA SerialStep == SerialInv /\ [Serial!Next]_(Serial!vars) => SerialInv'
  BY SerialTypeStep, SerialPlaceStep, SerialKeptStep DEF SerialInv

\* What a step of the services is to the serial service
LEMMA SerialMoves == [Next]_vars => [Serial!Next]_(Serial!vars)
  BY DEF Next, BinaryNext, RpcNext, SerialNext, EndpointNext, vars, serialVars,
         Serial!vars, Serial!consumerVars, Serial!modeVars, Serial!appVars

\* The serial service keeps its inductive invariant beside the other services: each byte is
\* in one place between the pipe and the application (ivshmem-serial.c).
THEOREM SerialInvariant == Spec => []SerialInv
<1>1. Init => SerialInv
  BY SerialInit DEF Init
<1>2. SerialInv /\ [Next]_vars => SerialInv'
  BY SerialStep, SerialMoves
<1>3. QED
  BY <1>1, <1>2, PTL DEF Spec

(***************************************************************************)
(* A frame that has arrived is at one place, whatever the order in which   *)
(* the endpoint thread, and an application that switches between the two   *)
(* modes, run; and one that keeps its callback loses none.                 *)
(***************************************************************************)
THEOREM ServicesNothingLost == Spec => []NothingLost
<1>1. SerialInv => Serial!OnePlace
  <2> SUFFICES ASSUME SerialInv, Serial!Running
               PROVE  \A n \in 1..arrived : Cardinality(Serial!Places(n)) = 1
    BY DEF Serial!OnePlace, Cardinality, Serial!Cardinality
  <2>1. Serial!TypeOK /\ SerialPlace
    BY DEF SerialInv
  <2>2. QED
    BY <2>1, OneOfPlaces
<1>2. SerialInv => Serial!NothingLost
  BY DEF SerialInv, SerialKept, Serial!NothingLost
<1>3. SerialInv => NothingLost
  BY <1>1, <1>2 DEF NothingLost
<1>4. QED
  BY <1>3, SerialInvariant, PTL

-----------------------------------------------------------------------------
(***************************************************************************)
(* The rpc service                                                         *)
(***************************************************************************)

\* The client that is in a call holds the mutex.
RpcMutex ==
    \A c \in Clients :
        /\ pc[c] # "idle" => mutex = c /\ size[c] \in Sizes /\ tid > 0
        /\ pc[c] = "send" => result[c] = 0
        /\ pc[c] \in {"wait", "check", "copy"} => size[c] # 0
        /\ pc[c] \in {"wait", "check"} => rpcRetry[c] \in 0..Retries

\* A message carries the call that it answers, and that of the peer none.
WellFormed(m) ==
    /\ m.call \in 0..MaxCalls
    /\ m.type = "REPLY" => m.call = m.tid /\ m.tid > 0
    /\ m.type = "CALL"  => m.call = 0 /\ m.id = 0
    /\ m.type = "zero"  => m.tid = 0 /\ m.id = -1

RpcMessages ==
    /\ WellFormed(buf)
    /\ \A i \in 1..Len(answers) : WellFormed(answers[i]) /\ answers[i].type # "zero"

\* The replies that have woken, or are about to wake, a client that has not
\* run since
Tokens == (IF event THEN 1 ELSE 0) + (IF epc = "dispatch" /\ buf.type = "REPLY" THEN 1 ELSE 0)

\* And those that client c has met since it began to wait
Met(c) == (Retries - rpcRetry[c]) + (IF pc[c] = "check" THEN 1 ELSE 0)

(***************************************************************************)
(* The responses to the calls up to d have been stored; those to the later *)
(* ones come in order, each once, and the number of times that a client    *)
(* was woken up is no more than d.                                         *)
(***************************************************************************)
Answered(d) ==
    /\ \A i \in 1..Len(answers) : answers[i].type = "REPLY" => answers[i].tid \in d + 1..tid
    /\ \A i \in 1..Len(requests) : requests[i].tid \in d + 1..tid
    /\ \A i, j \in 1..Len(answers) :
          i < j /\ answers[i].type = "REPLY" /\ answers[j].type = "REPLY"
          => answers[i].tid < answers[j].tid
    /\ \A i, j \in 1..Len(requests) : i < j => requests[i].tid < requests[j].tid
    /\ \A i \in 1..Len(answers), j \in 1..Len(requests) :
          answers[i].type = "REPLY" => answers[i].tid < requests[j].tid
    /\ buf.type = "REPLY" => buf.tid = d
    /\ Tokens =< d

RpcClients(d) ==
    \A c \in Clients :
        /\ pc[c] = "send" =>
              /\ d < tid
              /\ \A i \in 1..Len(answers) : answers[i].type = "REPLY" => answers[i].tid < tid
              /\ \A i \in 1..Len(requests) : requests[i].tid < tid
        /\ pc[c] \in {"wait", "check"} => Tokens + Met(c) =< d
        /\ pc[c] = "copy" => d = tid /\ buf.type # "zero"

RpcInv ==
    /\ Rpc!TypeOK /\ RpcMutex /\ RpcMessages
    /\ Retries >= MaxCalls - 1 => \E d \in 0..tid : Answered(d) /\ RpcClients(d)

-----------------------------------------------------------------------------
\* What the rpc service needs of its constants is assumed of them.
LEMMA RpcAssumed == Rpc!RpcAssumption
  BY ServicesAssumption DEF ServicesAssumption

\* What the fields of a request and of a message are
LEMMA RequestIs ==
  ASSUME NEW r \in [id : Sizes, tid : 1..MaxCalls]
  PROVE  /\ r.id \in Sizes \cup {0, -1} /\ r.id \in Nat /\ r.tid \in Nat
         /\ r.id \in Sizes /\ r.tid \in 1..MaxCalls
<1>1. r.id \in Sizes /\ r.tid \in 1..MaxCalls
  OBVIOUS
<1>2. Sizes \subseteq Nat
  BY RpcAssumed DEF Rpc!RpcAssumption
<1>3. r.id \in Nat
  BY <1>1, <1>2
<1>4. r.tid \in Nat
  BY <1>1
<1>5. QED
  BY <1>1, <1>3, <1>4

\* The types of the fields of a message.
LEMMA MessageIs ==
  ASSUME NEW m \in Rpc!Messages
  PROVE  /\ m.type \in {"zero", "REPLY", "CALL"} /\ m.id \in Sizes \cup {0, -1}
         /\ m.len \in Nat /\ m.tid \in Nat /\ m.call \in Nat
  BY DEF Rpc!Messages

\* Replies and events of the peer are messages.
LEMMA PeerMessages ==
  /\ \A r \in [id : Sizes, tid : 1..MaxCalls] :
        Rpc!Message("REPLY", r.id, r.id, r.tid, r.tid) \in Rpc!Messages
  /\ \A n \in Nat : Rpc!Message("CALL", 0, EventSize, n, 0) \in Rpc!Messages
  BY RequestIs, RpcAssumed DEF Rpc!Message, Rpc!Messages, Rpc!RpcAssumption

\* The rpc service starts in its invariant.
LEMMA RpcInit == Rpc!Init => RpcInv
<1> SUFFICES ASSUME Rpc!Init PROVE RpcInv
  OBVIOUS
<1> USE RpcAssumed DEF Rpc!Init, Rpc!RpcAssumption
<1>1. buf \in Rpc!Messages
  BY DEF Rpc!Messages, Rpc!Message
<1>2. event \in BOOLEAN /\ panicked \in BOOLEAN
  OBVIOUS
<1>3. Rpc!TypeOK
  BY <1>1, <1>2 DEF Rpc!TypeOK, Rpc!NoOne
<1>4. RpcMutex
  BY DEF RpcMutex
<1>5. RpcMessages
  BY DEF RpcMessages, WellFormed, Rpc!Message
<1>6. Answered(0) /\ RpcClients(0)
  BY DEF Answered, RpcClients, Tokens, Rpc!Message
<1>7. QED
  BY <1>3, <1>4, <1>5, <1>6 DEF RpcInv

\* Every step of the rpc service keeps its types and its mutex.
LEMMA RpcTypeStep ==
  ASSUME Rpc!TypeOK, RpcMutex, RpcMessages, [Rpc!Next]_(Rpc!vars)
  PROVE  Rpc!TypeOK' /\ RpcMutex'
<1> USE RpcAssumed DEF Rpc!TypeOK, RpcMutex, Rpc!RpcAssumption, Rpc!NoOne
<1>1. ASSUME NEW c \in Clients, Rpc!Call(c) PROVE Rpc!TypeOK' /\ RpcMutex'
  BY <1>1 DEF Rpc!Call, Rpc!Cleared, Rpc!Message, Rpc!Messages
<1>2. ASSUME NEW c \in Clients, Rpc!Send(c) PROVE Rpc!TypeOK' /\ RpcMutex'
  BY <1>2 DEF Rpc!Send
<1>3. ASSUME NEW c \in Clients, Rpc!Wake(c) PROVE Rpc!TypeOK' /\ RpcMutex'
  BY <1>3 DEF Rpc!Wake
<1>4. ASSUME NEW c \in Clients, Rpc!TimeOut(c) PROVE Rpc!TypeOK' /\ RpcMutex'
  BY <1>4 DEF Rpc!TimeOut, Rpc!Return
<1>5. ASSUME NEW c \in Clients, Rpc!Check(c) PROVE Rpc!TypeOK' /\ RpcMutex'
  <2>1. /\ pc[c] = "check" /\ mutex = c /\ size[c] \in Sizes /\ tid > 0
        /\ rpcRetry[c] \in 0..Retries
        /\ UNCHANGED <<tid, size, result, buf, event, epc, requests, answers, events, panicked>>
    BY <1>5 DEF Rpc!Check
  <2>2. PICK n \in 0..Retries \cup {Rpc!UintMax} :
          /\ rpcRetry' = [rpcRetry EXCEPT ![c] = n]
          /\ Rpc!Wrong(c) /\ rpcRetry[c] > 0 => n \in 0..Retries
    <3> DEFINE counted == IF Rpc!Wrong(c) THEN Rpc!Decrement(rpcRetry[c]) ELSE rpcRetry[c]
               n    == IF buf.len > size[c] THEN rpcRetry[c] ELSE counted
    <3>1. rpcRetry' = [rpcRetry EXCEPT ![c] = n]
      BY <1>5 DEF Rpc!Check
    <3>2. /\ n \in 0..Retries \cup {Rpc!UintMax}
          /\ Rpc!Wrong(c) /\ rpcRetry[c] > 0 => n \in 0..Retries
      BY <2>1 DEF Rpc!Decrement
    <3> HIDE DEF n, counted
    <3>3. QED
      BY <3>1, <3>2
  <2>3. rpcRetry' \in [Clients -> 0..Retries \cup {Rpc!UintMax}]
    BY <2>2
  <2>4. \/ \E what \in {"too_long", "internal", "not_ready"} : Rpc!Return(c, what)
        \/ Rpc!GoOn(c, "wait") /\ Rpc!Wrong(c) /\ rpcRetry[c] > 0
        \/ Rpc!GoOn(c, "copy")
    BY <1>5 DEF Rpc!Check
  <2>5. CASE \E what \in {"too_long", "internal", "not_ready"} : Rpc!Return(c, what)
    BY <2>1, <2>2, <2>3, <2>5 DEF Rpc!Return
  <2>6. CASE Rpc!GoOn(c, "wait") /\ Rpc!Wrong(c) /\ rpcRetry[c] > 0
    BY <2>1, <2>2, <2>3, <2>6 DEF Rpc!GoOn
  <2>7. CASE Rpc!GoOn(c, "copy")
    BY <2>1, <2>2, <2>3, <2>7 DEF Rpc!GoOn
  <2>8. QED
    BY <2>4, <2>5, <2>6, <2>7
<1>6. ASSUME NEW c \in Clients, Rpc!Copy(c) PROVE Rpc!TypeOK' /\ RpcMutex'
  BY <1>6 DEF Rpc!Copy, Rpc!Return, RpcMessages, WellFormed
<1>7. CASE Rpc!Store
  BY <1>7 DEF Rpc!Store, Rpc!clientVars
<1>8. CASE Rpc!Dispatch
  BY <1>8 DEF Rpc!Dispatch, Rpc!clientVars
<1>9. CASE Rpc!PeerReply
  <2>1. /\ Head(requests) \in [id : Sizes, tid : 1..MaxCalls]
        /\ requests' \in Seq([id : Sizes, tid : 1..MaxCalls])
    BY <1>9, TailIs DEF Rpc!PeerReply
  <2>2. PICK r \in [id : Sizes, tid : 1..MaxCalls] :
          answers' = Append(answers, Rpc!Message("REPLY", r.id, r.id, r.tid, r.tid))
    BY <1>9, <2>1 DEF Rpc!PeerReply
  <2>3. answers' \in Seq(Rpc!Messages)
    BY <2>2, PeerMessages
  <2>4. QED
    BY <1>9, <2>1, <2>3 DEF Rpc!PeerReply, Rpc!clientVars
<1>10. CASE Rpc!PeerCall
  BY <1>10 DEF Rpc!PeerCall, Rpc!clientVars, Rpc!Message, Rpc!Messages
<1>11. CASE UNCHANGED Rpc!vars
  BY <1>11 DEF Rpc!vars, Rpc!clientVars
<1>12. ASSUME NEW c \in Clients, Rpc!SendOnly(c) PROVE Rpc!TypeOK' /\ RpcMutex'
  BY <1>12 DEF Rpc!SendOnly, Rpc!Return
<1>13. QED
  BY <1>1, <1>2, <1>3, <1>4, <1>5, <1>6, <1>7, <1>8, <1>9, <1>10, <1>11, <1>12 DEF Rpc!Next

\* Every step keeps what the messages under way may be.
LEMMA RpcMessagesStep ==
  ASSUME Rpc!TypeOK, RpcMessages, [Rpc!Next]_(Rpc!vars)
  PROVE  RpcMessages'
<1> USE RpcAssumed DEF Rpc!TypeOK, RpcMessages, Rpc!RpcAssumption
<1>1. ASSUME NEW c \in Clients, Rpc!Call(c) PROVE RpcMessages'
  BY <1>1 DEF Rpc!Call, Rpc!Cleared, Rpc!Message, WellFormed
<1>2. ASSUME UNCHANGED <<buf, answers>> PROVE RpcMessages'
  BY <1>2
<1>3. ASSUME NEW c \in Clients,
             \/ Rpc!Send(c) \/ Rpc!SendOnly(c) \/ Rpc!Wake(c) \/ Rpc!TimeOut(c) \/ Rpc!Check(c)
             \/ Rpc!Copy(c)
      PROVE  RpcMessages'
  BY <1>2, <1>3 DEF Rpc!Send, Rpc!SendOnly, Rpc!Wake, Rpc!TimeOut, Rpc!Check, Rpc!Copy
<1>4. CASE Rpc!Store
  BY <1>4, TailIs DEF Rpc!Store
<1>5. CASE Rpc!Dispatch
  BY <1>2, <1>5 DEF Rpc!Dispatch
<1>6. ASSUME NEW m \in Rpc!Messages, answers' = Append(answers, m), UNCHANGED buf,
             WellFormed(m), m.type # "zero"
      PROVE  RpcMessages'
  BY <1>6, AppendIs
<1>7. CASE Rpc!PeerReply
  <2>1. Head(requests) \in [id : Sizes, tid : 1..MaxCalls]
    BY <1>7, TailIs DEF Rpc!PeerReply
  <2>2. PICK r \in [id : Sizes, tid : 1..MaxCalls] :
          answers' = Append(answers, Rpc!Message("REPLY", r.id, r.id, r.tid, r.tid))
    BY <1>7, <2>1 DEF Rpc!PeerReply
  <2>3. PICK m \in Rpc!Messages : m = Rpc!Message("REPLY", r.id, r.id, r.tid, r.tid)
    BY PeerMessages
  <2>4. WellFormed(m) /\ m.type # "zero"
    BY <2>3, RequestIs DEF Rpc!Message, WellFormed
  <2>5. QED
    BY <1>6, <1>7, <2>2, <2>3, <2>4 DEF Rpc!PeerReply
<1>8. CASE Rpc!PeerCall
  <2>1. PICK m \in Rpc!Messages : m = Rpc!Message("CALL", 0, EventSize, events + 1, 0)
    BY PeerMessages
  <2>2. WellFormed(m) /\ m.type # "zero"
    BY <2>1 DEF Rpc!Message, WellFormed
  <2>3. QED
    BY <1>6, <1>8, <2>1, <2>2 DEF Rpc!PeerCall
<1>9. CASE UNCHANGED Rpc!vars
  BY <1>2, <1>9 DEF Rpc!vars
<1>10. QED
  BY <1>1, <1>3, <1>4, <1>5, <1>7, <1>8, <1>9 DEF Rpc!Next

\* While the retries last, every step keeps the calls answered in their order.
LEMMA RpcAnsweredStep ==
  ASSUME Rpc!TypeOK, RpcMutex, RpcMessages, [Rpc!Next]_(Rpc!vars), Retries >= MaxCalls - 1,
         NEW d \in 0..tid, Answered(d), RpcClients(d)
  PROVE  \E e \in 0..tid' : Answered(e)' /\ RpcClients(e)'
<1> USE RpcAssumed DEF Rpc!RpcAssumption
<1>1. /\ tid \in 0..MaxCalls /\ tid \in Nat /\ d \in Nat /\ d =< tid /\ Retries \in Nat
      /\ pc \in [Clients -> {"idle", "send", "wait", "check", "copy"}]
      /\ rpcRetry \in [Clients -> 0..Retries \cup {Rpc!UintMax}]
      /\ answers \in Seq(Rpc!Messages) /\ Len(answers) \in Nat
      /\ requests \in Seq([id : Sizes, tid : 1..MaxCalls]) /\ Len(requests) \in Nat
      /\ \A i \in 1..Len(answers) : answers[i] \in Rpc!Messages /\ answers[i].tid \in Nat
      /\ \A i \in 1..Len(requests) : requests[i].tid \in Nat
      /\ buf.tid \in Nat /\ Tokens \in 0..2
  <2>1. /\ tid \in 0..MaxCalls /\ tid \in Nat /\ d \in Nat /\ d =< tid /\ Retries \in Nat
        /\ pc \in [Clients -> {"idle", "send", "wait", "check", "copy"}]
        /\ rpcRetry \in [Clients -> 0..Retries \cup {Rpc!UintMax}]
        /\ answers \in Seq(Rpc!Messages) /\ buf \in Rpc!Messages
        /\ requests \in Seq([id : Sizes, tid : 1..MaxCalls])
    BY DEF Rpc!TypeOK
  <2>2. /\ Len(answers) \in Nat /\ Len(requests) \in Nat
        /\ \A i \in 1..Len(answers) : answers[i] \in Rpc!Messages
        /\ \A i \in 1..Len(requests) : requests[i] \in [id : Sizes, tid : 1..MaxCalls]
    BY <2>1, EntriesAre
  <2>3. Tokens \in 0..2
    BY DEF Tokens
  <2>4. QED
    BY <2>1, <2>2, <2>3, RequestIs, MessageIs
<1>2. ASSUME NEW c \in Clients, Rpc!Call(c) PROVE Answered(d)' /\ RpcClients(d)' /\ d \in 0..tid'
  <2>1. /\ tid' = tid + 1 /\ buf'.type = "zero" /\ \A x \in Clients : pc[x] = "idle"
        /\ pc' = [pc EXCEPT ![c] = "send"]
        /\ UNCHANGED <<event, epc, requests, answers>>
    BY <1>2 DEF Rpc!Call, Rpc!Cleared, Rpc!Message, RpcMutex, Rpc!NoOne
  <2>2. Tokens' =< d
    BY <1>1, <2>1 DEF Tokens, Answered
  <2>3. Answered(d)'
    BY <1>1, <2>1, <2>2 DEF Answered
  <2>4. RpcClients(d)'
    BY <1>1, <2>1 DEF Answered, RpcClients
  <2>5. QED
    BY <1>1, <2>1, <2>3, <2>4
<1>3. ASSUME NEW c \in Clients, Rpc!Send(c) PROVE Answered(d)' /\ RpcClients(d)'
  <2>1. /\ tid' = tid /\ pc' = [pc EXCEPT ![c] = "wait"] /\ pc[c] = "send"
        /\ rpcRetry' = [rpcRetry EXCEPT ![c] = Retries]
        /\ UNCHANGED <<event, epc, buf, answers>>
    BY <1>3 DEF Rpc!Send
  <2>2. PICK r \in [id : Sizes, tid : 1..MaxCalls] : /\ r.tid = tid
                                                    /\ requests' = Append(requests, r)
    <3>1. tid \in 1..MaxCalls /\ size[c] \in Sizes
      BY <1>1, <2>1 DEF RpcMutex
    <3>2. [id |-> size[c], tid |-> tid] \in [id : Sizes, tid : 1..MaxCalls]
      BY <3>1
    <3>3. QED
      BY <1>3, <3>2 DEF Rpc!Send
  <2>3. /\ Len(requests') = Len(requests) + 1 /\ requests'[Len(requests) + 1].tid = tid
        /\ \A i \in 1..Len(requests) : requests'[i] = requests[i]
        /\ \A i \in 1..Len(requests') : i \in 1..Len(requests) \/ i = Len(requests) + 1
    BY <1>1, <2>2, AppendIs
  <2>4. /\ d < tid
        /\ \A i \in 1..Len(answers) : answers[i].type = "REPLY" => answers[i].tid < tid
        /\ \A i \in 1..Len(requests) : requests[i].tid < tid
    BY <2>1 DEF RpcClients
  <2>5. Tokens' = Tokens
    BY <2>1 DEF Tokens
  <2>6. Answered(d)'
    <3>1. \A i \in 1..Len(requests') : requests'[i].tid \in d + 1..tid
      <4>1. tid \in d + 1..tid
        BY <1>1, <2>4
      <4>2. \A i \in 1..Len(requests) : requests[i].tid \in d + 1..tid
        BY DEF Answered
      <4>3. QED
        BY <2>3, <4>1, <4>2
    <3>2. \A i, j \in 1..Len(requests') : i < j => requests'[i].tid < requests'[j].tid
      <4> TAKE i, j \in 1..Len(requests')
      <4>1. CASE i \in 1..Len(requests) /\ j \in 1..Len(requests)
        BY <2>3, <4>1 DEF Answered
      <4>2. CASE i \in 1..Len(requests) /\ j = Len(requests) + 1
        BY <2>3, <2>4, <4>2
      <4>3. CASE i = Len(requests) + 1
        BY <1>1, <2>3, <4>3
      <4>4. QED
        BY <2>3, <4>1, <4>2, <4>3
    <3>3. \A i \in 1..Len(answers), j \in 1..Len(requests') :
            answers[i].type = "REPLY" => answers[i].tid < requests'[j].tid
      BY <1>1, <2>3, <2>4 DEF Answered
    <3>4. QED
      BY <2>1, <2>5, <3>1, <3>2, <3>3 DEF Answered
  <2>7. \A x \in Clients : x # c => pc[x] = "idle"
    BY <2>1 DEF RpcMutex
  <2>8. Met(c)' = 0
    BY <1>1, <2>1 DEF Met
  <2>9. RpcClients(d)'
    BY <1>1, <2>1, <2>5, <2>7, <2>8 DEF RpcClients, Answered
  <2>10. QED
    BY <2>6, <2>9
<1>4. ASSUME NEW c \in Clients, UNCHANGED <<tid, requests, answers, buf, epc>>, Tokens' =< Tokens,
             Tokens' \in 0..2, pc[c] # "idle",
             \A x \in Clients : x # c => pc'[x] = pc[x],
             pc'[c] \in {"wait", "check"} => Tokens' + Met(c)' =< d,
             pc'[c] = "copy" => d = tid /\ buf.type # "zero",
             pc'[c] # "send"
      PROVE  Answered(d)' /\ RpcClients(d)'
  <2>1. \A x \in Clients : x # c => pc[x] = "idle"
    BY <1>4 DEF RpcMutex
  <2>2. Answered(d)'
    BY <1>1, <1>4 DEF Answered
  <2>3. RpcClients(d)'
    BY <1>4, <2>1 DEF RpcClients
  <2>4. QED
    BY <2>2, <2>3
<1>5. ASSUME NEW c \in Clients, Rpc!Wake(c) PROVE Answered(d)' /\ RpcClients(d)'
  <2>1. /\ pc' = [pc EXCEPT ![c] = "check"] /\ pc[c] = "wait" /\ event /\ event' = FALSE
        /\ UNCHANGED <<tid, rpcRetry, buf, epc, requests, answers>>
    BY <1>5 DEF Rpc!Wake
  <2>2. Tokens' = Tokens - 1
    BY <2>1 DEF Tokens
  <2>3. Met(c)' = Met(c) + 1 /\ Met(c) \in Nat
    BY <1>1, <2>1 DEF Met, RpcMutex
  <2>4. Tokens + Met(c) =< d /\ Tokens' \in 0..2
    BY <2>1 DEF RpcClients, Tokens
  <2>5. Tokens' =< Tokens /\ Tokens' + Met(c)' =< d
    BY <1>1, <2>2, <2>3, <2>4
  <2>6. QED
    BY <1>1, <1>4, <2>1, <2>4, <2>5
<1>6. ASSUME NEW c \in Clients, Rpc!TimeOut(c) \/ Rpc!Copy(c) \/ Rpc!SendOnly(c)
      PROVE  Answered(d)' /\ RpcClients(d)'
  <2>1. /\ pc' = [pc EXCEPT ![c] = "idle"] /\ pc[c] # "idle"
        /\ UNCHANGED <<tid, buf, event, epc, requests, answers>>
    BY <1>6 DEF Rpc!TimeOut, Rpc!Copy, Rpc!SendOnly, Rpc!Return
  <2>2. Tokens' = Tokens
    BY <2>1 DEF Tokens
  <2>3. QED
    BY <1>1, <1>4, <2>1, <2>2
<1>7. ASSUME NEW c \in Clients, Rpc!Check(c) PROVE Answered(d)' /\ RpcClients(d)'
  <2>1. /\ pc[c] = "check" /\ rpcRetry[c] \in 0..Retries
        /\ size[c] \in Sizes \ {0}
        /\ UNCHANGED <<tid, buf, event, epc, requests, answers>>
    BY <1>7 DEF Rpc!Check, RpcMutex
  <2>2. Tokens' = Tokens
    BY <2>1 DEF Tokens
  <2>3. CASE pc' = [pc EXCEPT ![c] = "idle"]
    BY <1>1, <1>4, <2>1, <2>2, <2>3
  <2>4. CASE /\ pc' = [pc EXCEPT ![c] = "wait"]
             /\ rpcRetry' = [rpcRetry EXCEPT ![c] = rpcRetry[c] - 1] /\ rpcRetry[c] > 0
    <3>1. Met(c)' = Met(c)
      BY <1>1, <2>1, <2>4 DEF Met
    <3>2. Tokens + Met(c) =< d
      BY <2>1 DEF RpcClients
    <3>3. Tokens' + Met(c)' =< d
      BY <2>2, <3>1, <3>2
    <3>4. /\ \A x \in Clients : x # c => pc'[x] = pc[x]
          /\ pc'[c] = "wait"
      BY <1>1, <2>4
    <3>5. Tokens' =< Tokens /\ Tokens' \in 0..2
      BY <1>1, <2>2
    <3>6. QED
      BY <1>4, <2>1, <3>3, <3>4, <3>5
  <2>5. CASE /\ pc' = [pc EXCEPT ![c] = "copy"] /\ buf.id = size[c]
             /\ Rpc!Wrong(c) => rpcRetry[c] = 0
    <3>1. buf.type = "REPLY"
      <4>1. buf.id # 0 /\ buf.id # -1
        BY <2>1, <2>5, RpcAssumed DEF Rpc!RpcAssumption
      <4>2. buf.type \in {"zero", "REPLY", "CALL"}
        BY MessageIs DEF Rpc!TypeOK
      <4>3. QED
        BY <4>1, <4>2 DEF RpcMessages, WellFormed
    <3>2. buf.tid = d
      BY <3>1 DEF Answered
    <3>3. CASE Rpc!Wrong(c)
      <4>1. Met(c) = Retries + 1
        BY <1>1, <2>1, <2>5, <3>3 DEF Met
      <4>2. Tokens + Met(c) =< d
        BY <2>1 DEF RpcClients
      <4>3. d = tid
        BY <1>1, <4>1, <4>2
      <4>4. QED
        BY <3>2, <3>3, <4>3 DEF Rpc!Wrong
    <3>4. CASE ~Rpc!Wrong(c)
      BY <1>1, <1>4, <2>1, <2>2, <2>5, <3>1, <3>2, <3>4 DEF Rpc!Wrong
    <3>5. QED
      BY <3>3, <3>4
  <2>6. QED
    <3>2. CASE buf.len > size[c]
      <4>1. pc' = [pc EXCEPT ![c] = "idle"]
        BY <1>7, <3>2 DEF Rpc!Check, Rpc!Return
      <4>2. QED
        BY <2>3, <4>1
    <3>3. CASE ~(buf.len > size[c]) /\ Rpc!Wrong(c) /\ rpcRetry[c] > 0
      <4>1. pc' = [pc EXCEPT ![c] = "wait"]
        BY <1>7, <3>3 DEF Rpc!Check, Rpc!GoOn
      <4>2. Rpc!Decrement(rpcRetry[c]) = rpcRetry[c] - 1
        BY <2>1, <3>3 DEF Rpc!Decrement
      <4>3. rpcRetry' = [rpcRetry EXCEPT ![c] = rpcRetry[c] - 1]
        BY <1>7, <3>3, <4>2 DEF Rpc!Check
      <4>4. QED
        BY <2>4, <3>3, <4>1, <4>3
    <3>4. CASE ~(buf.len > size[c]) /\ ~(Rpc!Wrong(c) /\ rpcRetry[c] > 0)
      <4>1. Rpc!Wrong(c) => rpcRetry[c] = 0
        BY <2>1, <3>4
      <4>2. pc' = [pc EXCEPT ![c] = "idle"] \/ (pc' = [pc EXCEPT ![c] = "copy"] /\ buf.id = size[c])
        BY <1>7, <3>4 DEF Rpc!Check, Rpc!Return, Rpc!GoOn
      <4>3. QED
        BY <2>3, <2>5, <4>1, <4>2
    <3>5. QED
      BY <3>2, <3>3, <3>4
<1>8. ASSUME Rpc!Store PROVE \E e \in 0..tid' : Answered(e)' /\ RpcClients(e)'
  <2>1. /\ buf' = answers[1] /\ 1 \in 1..Len(answers)
        /\ Len(answers') = Len(answers) - 1
        /\ \A i \in 1..Len(answers') : /\ answers'[i] = answers[i + 1]
                                       /\ i + 1 \in 1..Len(answers) /\ i + 1 > 1
        /\ epc = "idle" /\ epc' = "dispatch" /\ UNCHANGED <<tid, pc, rpcRetry, event, requests>>
    BY <1>1, <1>8, TailIs DEF Rpc!Store, Rpc!clientVars
  <2>2. \A c \in Clients : Met(c)' = Met(c)
    BY <2>1 DEF Met
  <2>3. CASE answers[1].type = "REPLY"
    <3>1. answers[1].tid \in d + 1..tid /\ answers[1].tid \in Nat
      BY <1>1, <2>1, <2>3 DEF Answered
    <3>2. PICK e \in d + 1..tid : e = answers[1].tid
      BY <3>1
    <3>3. e \in 0..tid' /\ e > d /\ e \in Nat
      BY <1>1, <2>1, <3>2
    <3>4. Tokens' =< Tokens + 1
      BY <1>1, <2>1 DEF Tokens
    <3>5. Answered(e)'
      <4>1. \A i \in 1..Len(answers') : answers'[i].type = "REPLY" => answers'[i].tid \in e + 1..tid
        <5> TAKE i \in 1..Len(answers')
        <5> HAVE answers'[i].type = "REPLY"
        <5>1. answers[1].tid < answers[i + 1].tid /\ answers[i + 1].tid \in d + 1..tid
          BY <2>1, <2>3 DEF Answered
        <5>2. PICK t \in d + 1..tid : t = answers[i + 1].tid
          BY <5>1
        <5>3. e < t
          BY <3>2, <5>1, <5>2
        <5>4. t \in e + 1..tid
          BY <1>1, <3>3, <5>3
        <5>5. answers'[i].tid = t
          BY <2>1, <5>2
        <5>6. QED
          BY <2>1, <5>4, <5>5
      <4>2. \A i \in 1..Len(requests) : requests[i].tid \in e + 1..tid
        <5> TAKE i \in 1..Len(requests)
        <5>1. answers[1].tid < requests[i].tid /\ requests[i].tid \in d + 1..tid
          BY <2>1, <2>3 DEF Answered
        <5>2. PICK t \in d + 1..tid : t = requests[i].tid
          BY <5>1
        <5>3. e < t
          BY <3>2, <5>1, <5>2
        <5>4. t \in e + 1..tid
          BY <1>1, <3>3, <5>3
        <5>5. QED
          BY <5>2, <5>4
      <4>3. \A i, j \in 1..Len(answers') :
              i < j /\ answers'[i].type = "REPLY" /\ answers'[j].type = "REPLY"
              => answers'[i].tid < answers'[j].tid
        <5> TAKE i, j \in 1..Len(answers')
        <5>1. i + 1 \in 1..Len(answers) /\ j + 1 \in 1..Len(answers) /\ (i < j => i + 1 < j + 1)
          BY <2>1
        <5>2. QED
          BY <2>1, <5>1 DEF Answered
      <4>4. \A i \in 1..Len(answers'), j \in 1..Len(requests) :
              answers'[i].type = "REPLY" => answers'[i].tid < requests[j].tid
        BY <2>1 DEF Answered
      <4>5. Tokens' =< e
        BY <1>1, <2>1, <3>3, <3>4 DEF Answered, Tokens
      <4>6. QED
        BY <2>1, <3>2, <4>1, <4>2, <4>3, <4>4, <4>5 DEF Answered
    <3>6. RpcClients(e)'
      <4> SUFFICES ASSUME NEW c \in Clients
                   PROVE  /\ pc[c] = "send" => 
                               /\ e < tid
                               /\ \A i \in 1..Len(answers') :
                                     answers'[i].type = "REPLY" => answers'[i].tid < tid
                               /\ \A i \in 1..Len(requests) : requests[i].tid < tid
                          /\ pc[c] \in {"wait", "check"} => Tokens' + Met(c) =< e
                          /\ pc[c] = "copy" => FALSE
        BY <2>1, <2>2 DEF RpcClients
      <4>1. CASE pc[c] = "send"
        BY <2>1, <2>3, <3>2, <4>1 DEF RpcClients
      <4>2. CASE pc[c] \in {"wait", "check"}
        <5>1. Met(c) \in Nat
          BY <1>1, <4>2 DEF Met, RpcMutex
        <5>2. Tokens + Met(c) =< d
          BY <4>2 DEF RpcClients
        <5>3. Tokens' \in Nat
          BY <2>1 DEF Tokens
        <5>4. QED
          BY <1>1, <3>3, <3>4, <4>2, <5>1, <5>2, <5>3
      <4>3. CASE pc[c] = "copy"
        BY <1>1, <3>3, <2>1, <4>3 DEF RpcClients
      <4>4. QED
        BY <4>1, <4>2, <4>3
    <3>7. QED
      BY <3>3, <3>5, <3>6
  <2>4. CASE answers[1].type # "REPLY"
    <3>1. Tokens' = Tokens
      BY <2>1, <2>4 DEF Tokens
    <3>2. \A i, j \in 1..Len(answers') :
            i < j /\ answers'[i].type = "REPLY" /\ answers'[j].type = "REPLY"
            => answers'[i].tid < answers'[j].tid
      <4> TAKE i, j \in 1..Len(answers')
      <4>1. i + 1 \in 1..Len(answers) /\ j + 1 \in 1..Len(answers) /\ (i < j => i + 1 < j + 1)
        BY <2>1
      <4>2. QED
        BY <2>1, <4>1 DEF Answered
    <3>3. Answered(d)'
      BY <2>1, <2>4, <3>1, <3>2 DEF Answered
    <3>4. buf'.type # "zero"
      BY <2>1 DEF RpcMessages
    <3>5. RpcClients(d)'
      BY <2>1, <2>2, <3>1, <3>4 DEF RpcClients
    <3>6. QED
      BY <2>1, <3>3, <3>5
  <2>5. QED
    BY <2>3, <2>4
<1>9. ASSUME Rpc!Dispatch PROVE Answered(d)' /\ RpcClients(d)'
  <2>1. /\ epc = "dispatch" /\ epc' = "idle"
        /\ buf.type = "REPLY" => event' = TRUE
        /\ buf.type # "REPLY" => event' = event
        /\ UNCHANGED <<tid, pc, rpcRetry, buf, requests, answers>>
    BY <1>9 DEF Rpc!Dispatch, Rpc!clientVars, Rpc!TypeOK
  <2>2. Tokens' =< Tokens /\ Tokens' \in 0..2
    <3>1. CASE buf.type = "REPLY"
      <4>1. Tokens = (IF event THEN 1 ELSE 0) + 1 /\ Tokens' = 1
        BY <2>1, <3>1 DEF Tokens
      <4>2. QED
        BY <4>1
    <3>2. CASE buf.type # "REPLY"
      <4>1. Tokens' = Tokens
        BY <2>1, <3>2 DEF Tokens
      <4>2. QED
        BY <1>1, <4>1
    <3>3. QED
      BY <3>1, <3>2
  <2>3. \A c \in Clients : pc[c] \in {"wait", "check"} => Met(c)' = Met(c) /\ Met(c) \in Nat
    BY <1>1, <2>1 DEF Met, RpcMutex
  <2>4. Answered(d)'
    BY <1>1, <2>1, <2>2 DEF Answered
  <2>5. RpcClients(d)'
    BY <1>1, <2>1, <2>2, <2>3 DEF RpcClients
  <2>6. QED
    BY <2>4, <2>5
<1>10. ASSUME Rpc!PeerReply PROVE Answered(d)' /\ RpcClients(d)'
  <2>1. /\ 1 \in 1..Len(requests) /\ Len(requests') = Len(requests) - 1
        /\ Head(requests) = requests[1]
        /\ \A i \in 1..Len(requests') : /\ requests'[i] = requests[i + 1]
                                        /\ i + 1 \in 1..Len(requests) /\ i + 1 > 1
        /\ UNCHANGED <<tid, pc, rpcRetry, buf, event, epc>>
    BY <1>1, <1>10, TailIs DEF Rpc!PeerReply, Rpc!clientVars
  <2>2. PICK m \in Rpc!Messages : /\ answers' = Append(answers, m)
                                  /\ m.type = "REPLY" /\ m.tid = requests[1].tid
    <3>1. requests[1] \in [id : Sizes, tid : 1..MaxCalls]
      BY <1>1, <2>1, EntriesAre
    <3>2. PICK r \in [id : Sizes, tid : 1..MaxCalls] : r = requests[1]
      BY <3>1
    <3>3. PICK m \in Rpc!Messages : m = Rpc!Message("REPLY", r.id, r.id, r.tid, r.tid)
      BY PeerMessages
    <3>4. m.type = "REPLY" /\ m.tid = r.tid
      BY <3>3 DEF Rpc!Message
    <3>5. QED
      BY <1>10, <2>1, <3>2, <3>3, <3>4 DEF Rpc!PeerReply
  <2>3. /\ Len(answers') = Len(answers) + 1 /\ answers'[Len(answers) + 1] = m
        /\ \A i \in 1..Len(answers) : answers'[i] = answers[i]
        /\ \A i \in 1..Len(answers') : i \in 1..Len(answers) \/ i = Len(answers) + 1
    BY <1>1, <2>2, AppendIs
  <2>4. Tokens' = Tokens /\ \A c \in Clients : Met(c)' = Met(c)
    BY <2>1 DEF Tokens, Met
  <2>5. Answered(d)'
    <3>1. \A i \in 1..Len(answers') : answers'[i].type = "REPLY" => answers'[i].tid \in d + 1..tid
      BY <2>1, <2>2, <2>3 DEF Answered
    <3>2. \A i, j \in 1..Len(requests') : i < j => requests'[i].tid < requests'[j].tid
      <4> TAKE i, j \in 1..Len(requests')
      <4>1. i + 1 \in 1..Len(requests) /\ j + 1 \in 1..Len(requests) /\ (i < j => i + 1 < j + 1)
        BY <2>1
      <4>2. QED
        BY <2>1, <4>1 DEF Answered
    <3>3. \A i, j \in 1..Len(answers') :
            i < j /\ answers'[i].type = "REPLY" /\ answers'[j].type = "REPLY"
            => answers'[i].tid < answers'[j].tid
      <4> TAKE i, j \in 1..Len(answers')
      <4>1. CASE j \in 1..Len(answers) /\ i \in 1..Len(answers)
        BY <2>3, <4>1 DEF Answered
      <4>2. CASE j = Len(answers) + 1 /\ i \in 1..Len(answers)
        BY <2>1, <2>2, <2>3, <4>2 DEF Answered
      <4>3. CASE i = Len(answers) + 1
        BY <1>1, <2>3, <4>3
      <4>4. QED
        BY <2>3, <4>1, <4>2, <4>3
    <3>4. \A i \in 1..Len(answers'), j \in 1..Len(requests') :
            answers'[i].type = "REPLY" => answers'[i].tid < requests'[j].tid
      BY <2>1, <2>2, <2>3 DEF Answered
    <3>5. \A i \in 1..Len(requests') : requests'[i].tid \in d + 1..tid
      BY <2>1 DEF Answered
    <3>6. QED
      BY <2>1, <2>4, <3>1, <3>2, <3>3, <3>4, <3>5 DEF Answered
  <2>6. RpcClients(d)'
    <3> SUFFICES ASSUME NEW c \in Clients, pc[c] = "send"
                 PROVE  /\ \A i \in 1..Len(answers') :
                              answers'[i].type = "REPLY" => answers'[i].tid < tid
                        /\ \A i \in 1..Len(requests') : requests'[i].tid < tid
      BY <2>1, <2>4 DEF RpcClients
    <3>1. /\ \A i \in 1..Len(answers) : answers[i].type = "REPLY" => answers[i].tid < tid
          /\ \A i \in 1..Len(requests) : requests[i].tid < tid
      BY DEF RpcClients
    <3>2. \A i \in 1..Len(answers') : answers'[i].type = "REPLY" => answers'[i].tid < tid
      BY <2>1, <2>2, <2>3, <3>1
    <3>3. \A i \in 1..Len(requests') : requests'[i].tid < tid
      BY <2>1, <3>1
    <3>4. QED
      BY <3>2, <3>3
  <2>7. QED
    BY <2>5, <2>6
<1>11. ASSUME Rpc!PeerCall PROVE Answered(d)' /\ RpcClients(d)'
  <2>1. UNCHANGED <<tid, pc, rpcRetry, buf, event, epc, requests>>
    BY <1>11 DEF Rpc!PeerCall, Rpc!clientVars
  <2>2. PICK m \in Rpc!Messages : answers' = Append(answers, m) /\ m.type = "CALL"
    <3>1. events + 1 \in Nat
      BY DEF Rpc!TypeOK
    <3>2. PICK m \in Rpc!Messages : m = Rpc!Message("CALL", 0, EventSize, events + 1, 0)
      BY <3>1, PeerMessages
    <3>3. QED
      BY <1>11, <3>2 DEF Rpc!PeerCall, Rpc!Message
  <2>3. /\ Len(answers') = Len(answers) + 1 /\ answers'[Len(answers) + 1] = m
        /\ \A i \in 1..Len(answers) : answers'[i] = answers[i]
        /\ \A i \in 1..Len(answers') : i \in 1..Len(answers) \/ i = Len(answers) + 1
    BY <1>1, <2>2, AppendIs
  <2>4. \A i \in 1..Len(answers') : answers'[i].type = "REPLY" => i \in 1..Len(answers) /\ answers'[i] = answers[i]
    BY <2>2, <2>3
  <2>5. Tokens' = Tokens /\ \A c \in Clients : Met(c)' = Met(c)
    BY <2>1 DEF Tokens, Met
  <2>6. Answered(d)'
    BY <2>1, <2>4, <2>5 DEF Answered
  <2>7. RpcClients(d)'
    BY <2>1, <2>4, <2>5 DEF RpcClients
  <2>8. QED
    BY <2>6, <2>7
<1>12. ASSUME UNCHANGED Rpc!vars PROVE Answered(d)' /\ RpcClients(d)'
  BY <1>12 DEF Rpc!vars, Rpc!clientVars, Answered, RpcClients, Tokens, Met
<1>13. CASE UNCHANGED tid
  BY <1>1, <1>2, <1>3, <1>5, <1>6, <1>7, <1>8, <1>9, <1>10, <1>11, <1>12, <1>13 DEF Rpc!Next
<1>14. CASE tid' # tid
  <2>1. PICK c \in Clients : Rpc!Call(c)
    BY <1>14 DEF Rpc!Next, Rpc!Send, Rpc!SendOnly, Rpc!Wake, Rpc!TimeOut, Rpc!Check, Rpc!Copy, Rpc!Store, Rpc!Dispatch,
                 Rpc!PeerReply, Rpc!PeerCall, Rpc!vars, Rpc!clientVars
  <2>2. QED
    BY <1>2, <2>1
<1>15. QED
  BY <1>13, <1>14

\* The invariant of the rpc service is inductive.
LEMMA RpcStep == RpcInv /\ [Rpc!Next]_(Rpc!vars) => RpcInv'
<1> SUFFICES ASSUME RpcInv, [Rpc!Next]_(Rpc!vars) PROVE RpcInv'
  OBVIOUS
<1>1. Rpc!TypeOK' /\ RpcMutex' /\ RpcMessages'
  BY RpcTypeStep, RpcMessagesStep DEF RpcInv
<1>2. ASSUME Retries >= MaxCalls - 1
      PROVE  \E e \in 0..tid' : Answered(e)' /\ RpcClients(e)'
  <2>1. PICK d \in 0..tid : Answered(d) /\ RpcClients(d)
    BY <1>2 DEF RpcInv
  <2>2. QED
    BY <1>2, <2>1, RpcAnsweredStep DEF RpcInv
<1>3. QED
  BY <1>1, <1>2 DEF RpcInv

\* A step of the services is a step of the rpc service or leaves it alone.
LEMMA RpcMoves == [Next]_vars => [Rpc!Next]_(Rpc!vars)
  BY DEF Next, BinaryNext, RpcNext, SerialNext, EndpointNext, vars, rpcVars,
         Rpc!vars, Rpc!clientVars

\* The rpc service keeps its inductive invariant beside the other services: one caller holds
\* the mutex, and the replies under way are of the calls before its own (ivshmem-rpc.c).
THEOREM RpcInvariant == Spec => []RpcInv
<1>1. Init => RpcInv
  BY RpcInit DEF Init
<1>2. RpcInv /\ [Next]_vars => RpcInv'
  BY RpcStep, RpcMoves
<1>3. QED
  BY <1>1, <1>2, PTL DEF Spec

\* The client copies the response to its own call, or a call of the peer.
LEMMA CopiesOwn ==
  ASSUME RpcInv, Retries >= MaxCalls - 1, NEW c \in Clients, Rpc!Copy(c)
  PROVE  result'[c] \in {0, tid}
<1>1. PICK d \in 0..tid : Answered(d) /\ RpcClients(d)
  BY DEF RpcInv
<1>2. d = tid /\ buf.type # "zero"
  BY <1>1 DEF Rpc!Copy, RpcClients
<1>3. buf.call \in {0, tid}
  <2>1. buf.type \in {"zero", "REPLY", "CALL"}
    BY MessageIs DEF RpcInv, Rpc!TypeOK
  <2>2. QED
    BY <1>1, <1>2, <2>1 DEF Answered, RpcInv, RpcMessages, WellFormed
<1>4. result'[c] = buf.call
  BY DEF Rpc!Copy, RpcInv, Rpc!TypeOK
<1>5. QED
  BY <1>3, <1>4

(***************************************************************************)
(* A call that succeeds never returns the payload of the response to       *)
(* another call, as long as no more calls are made than responses with a   *)
(* wrong tid are skipped: beyond that, retry wraps around and the run      *)
(* rpc_stale finds the response to an earlier call taken.                  *)
(***************************************************************************)
THEOREM ServicesOwnReply == Retries >= MaxCalls - 1 => (Spec => OwnReply)
<1> SUFFICES ASSUME Retries >= MaxCalls - 1 PROVE Spec => OwnReply
  OBVIOUS
<1>1. RpcInv /\ [Next]_vars =>
        [\A c \in Clients : outcome'[c] = "ok" /\ outcome[c] # "ok" => result'[c] \in {0, tid}]_(Rpc!vars)
  <2> SUFFICES ASSUME RpcInv, Rpc!Next, NEW c \in Clients, outcome'[c] = "ok", outcome[c] # "ok"
               PROVE  result'[c] \in {0, tid}
    BY RpcMoves
  <2>1. outcome \in [Clients -> {"none", "ok", "timed_out", "too_long", "internal", "not_ready"}]
    BY DEF RpcInv, Rpc!TypeOK
  <2>2. CASE \E x \in Clients : Rpc!Copy(x)
    <3>1. PICK x \in Clients : Rpc!Copy(x)
      BY <2>2
    <3>2. x = c
      BY <2>1, <3>1 DEF Rpc!Copy, Rpc!Return
    <3>3. QED
      BY <3>1, <3>2, CopiesOwn
  <2>3. CASE \E x \in Clients : Rpc!SendOnly(x)
    <3>1. PICK x \in Clients : Rpc!SendOnly(x)
      BY <2>3
    <3>2. x = c
      BY <2>1, <3>1 DEF Rpc!SendOnly, Rpc!Return
    <3>3. QED
      BY <3>1, <3>2 DEF Rpc!SendOnly, RpcInv, RpcMutex
  <2>4. CASE \E x \in Clients : Rpc!Call(x) \/ Rpc!Send(x) \/ Rpc!Wake(x) \/ Rpc!TimeOut(x) \/ Rpc!Check(x)
    BY <2>1, <2>4 DEF Rpc!Call, Rpc!Send, Rpc!Wake, Rpc!TimeOut, Rpc!Check, Rpc!Return, Rpc!GoOn
  <2>5. CASE Rpc!Store \/ Rpc!Dispatch \/ Rpc!PeerReply \/ Rpc!PeerCall
    BY <2>5 DEF Rpc!Store, Rpc!Dispatch, Rpc!PeerReply, Rpc!PeerCall, Rpc!clientVars
  <2>6. QED
    BY <2>2, <2>3, <2>4, <2>5 DEF Rpc!Next
<1>2. QED
  BY <1>1, RpcInvariant, PTL DEF Spec, OwnReply, Rpc!OwnReply

-----------------------------------------------------------------------------
(***************************************************************************)
(* The binary service                                                      *)
(***************************************************************************)

\* The hypotheses of the theorems: no packet number wraps around, and a chunk
\* that is sent again is not taken for the first one of a buffer.
NoWrap   == \A n \in Lengths : n < PktWrap
NoResend == Late => 1 \notin Lengths

\* The number of buffers that the transmission thread has taken
Taken == Len(length) - Len(pktList)

\* What the transmission thread works on
BinarySender ==
    /\ tpc # "wait" => current \in Binary!Buffers /\ retry > 0
    /\ \A c \in Callers : cpc[c] = "copy" => cbuffer[c] \in Binary!Buffers

BinaryQueue ==
    /\ Len(pktList) =< Len(length) /\ Len(length) =< MaxBuffers
    /\ \A i \in 1..Len(pktList) : pktList[i] = Taken + i
    /\ tpc # "wait" => /\ current = Taken /\ current > 0
                       /\ offset < length[current] /\ lastPkt = offset + 1

\* A chunk of a buffer that the thread has taken
IsChunk(c) == c[1] \in 1..Taken /\ c[2] \in 1..length[c[1]]

\* It is the last one of its buffer; <<0, 0>> stands before the first buffer.
Ended(c) == c[1] = 0 \/ c[2] = length[c[1]]

Follows(c, d) == IF Ended(c) THEN d = <<c[1] + 1, 1>> ELSE d = <<c[1], c[2] + 1>>

\* What is sent after c: the next chunk, or c once more
MayFollow(c, d) == Follows(c, d) \/ (Late /\ d = c)

LastStored == IF stored = <<>> THEN <<0, 0>> ELSE stored[Len(stored)]
LastSent == IF data = <<>> THEN LastStored ELSE data[Len(data)].chunk

\* The receiver's buffer holds the stream, from its first chunk on.
StoredStream ==
    /\ \A i \in 1..Len(stored) : IsChunk(stored[i])
    /\ \A i \in 1..Len(stored) - 1 : Follows(stored[i], stored[i + 1])
    /\ stored # <<>> => stored[1] = <<1, 1>>

\* And the channel what comes next, with repetitions.
SentStream ==
    /\ \A i \in 1..Len(data) :
          LET c == data[i].chunk IN
          /\ IsChunk(c) /\ data[i].pkt = c[2]
          /\ data[i].hdr = IF c[2] < length[c[1]] THEN "SOH" ELSE "EOT"
    /\ data # <<>> => MayFollow(LastStored, data[1].chunk)
    /\ \A i \in 1..Len(data) - 1 : MayFollow(data[i].chunk, data[i + 1].chunk)

\* The two ends know where they are.
ReceiverEnd ==
    /\ rstate = "RESET" <=> Ended(LastStored)
    /\ rstate = "RECEIVING" => rlast = LastStored[2]

SenderEnd ==
    /\ tpc = "wait" => LastSent[1] = Taken /\ Ended(LastSent)
    /\ tpc = "ack"  => LastSent = <<current, offset + 1>>
    /\ tpc = "send" => \/ Late /\ LastSent = <<current, offset + 1>>
                       \/ offset = 0 /\ LastSent[1] = current - 1 /\ Ended(LastSent)
                       \/ offset > 0 /\ LastSent = <<current, offset>>

\* Without timeouts one frame, or its acknowledgement, is under way.
BinaryTurn ==
    ~Late => /\ Len(data) + acks + (IF apc = "post" THEN 1 ELSE 0) + semAck
                  = (IF tpc = "ack" THEN 1 ELSE 0)
             /\ apc = "post" \/ semAck > 0 => ack = "ACK"

\* With one caller, a packet is counted once its payload is there.
BinaryCopied ==
    /\ \A c \in Callers : cpc[c] # "idle" =>
          semQueue = Len(pktList) - 1 /\ cbuffer[c] = Len(length)
    /\ (\A c \in Callers : cpc[c] = "idle") => semQueue = Len(pktList)
    /\ \A n \in 1..Len(length) :
          n \in copied \/ (n = Len(length) /\ \E c \in Callers : cpc[c] = "copy")

\* What is sent has been copied.
SentCopied == \A i \in 1..Len(data) : data[i].chunk[1] \in copied

OneCaller == \A c, d \in Callers : c = d

BinaryInv ==
    /\ Binary!TypeOK /\ BinarySender
    /\ NoWrap /\ NoResend =>
          /\ StoredStream
          /\ Binary!Running => BinaryQueue /\ SentStream /\ ReceiverEnd /\ SenderEnd /\ BinaryTurn
          /\ ~(Late /\ NoOverwrite) => Binary!CountedIsStored
          /\ OneCaller => (Binary!Running => BinaryCopied) /\ SentCopied

\* What the binary service needs of its constants is assumed of them.
LEMMA BinaryAssumed == Binary!BinaryAssumption
  BY ServicesAssumption DEF ServicesAssumption

\* Every step of the binary service keeps its types and its sender.
LEMMA BinaryTypeStep ==
  ASSUME Binary!TypeOK, BinarySender, [Binary!Next]_(Binary!vars)
  PROVE  Binary!TypeOK' /\ BinarySender'
<1> USE BinaryAssumed
    DEF Binary!TypeOK, BinarySender, Binary!BinaryAssumption, Binary!queueVars,
        Binary!sendVars, Binary!ackVars, Binary!recvVars
<1>1. ASSUME NEW c \in Callers, Binary!Queue(c) PROVE Binary!TypeOK' /\ BinarySender'
  <2>1. Len(length) \in Nat /\ Len(length) + 1 \in Binary!Buffers
    BY <1>1 DEF Binary!Queue, Binary!Buffers
  <2>2. length' \in Seq(Lengths) /\ pktList' \in Seq(Binary!Buffers)
    BY <1>1, <2>1, AppendIs DEF Binary!Queue
  <2>3. /\ cpc' \in [Callers -> {"idle", "copy", "post"}]
        /\ cbuffer' \in [Callers -> Binary!Buffers \cup {0}]
        /\ \A x \in Callers : cpc'[x] = "copy" => cbuffer'[x] \in Binary!Buffers
    BY <1>1, <2>1 DEF Binary!Queue
  <2>4. QED
    BY <1>1, <2>2, <2>3 DEF Binary!Queue, Binary!Queued
<1>2. ASSUME NEW c \in Callers, Binary!Copy(c) PROVE Binary!TypeOK' /\ BinarySender'
  BY <1>2 DEF Binary!Copy
<1>3. ASSUME NEW c \in Callers, Binary!Post(c) PROVE Binary!TypeOK' /\ BinarySender'
  BY <1>3 DEF Binary!Post
<1>4. CASE Binary!TxTake
  <2>1. CASE pktList = <<>>
    BY <1>4, <2>1 DEF Binary!TxTake
  <2>2. CASE pktList # <<>>
    <3>1. Head(pktList) \in Binary!Buffers /\ Tail(pktList) \in Seq(Binary!Buffers)
      BY <2>2, TailIs
    <3>2. 1 \in Binary!Numbers /\ MaxRetry \in 0..MaxRetry /\ MaxRetry > 0 /\ semQueue - 1 \in Nat
      BY <1>4 DEF Binary!Numbers, Binary!TxTake
    <3>3. /\ current' \in Binary!Buffers /\ pktList' \in Seq(Binary!Buffers)
          /\ lastPkt' \in Binary!Numbers /\ retry' \in 0..MaxRetry /\ retry' > 0
          /\ offset' = 0 /\ semQueue' \in Nat /\ tpc' = "send"
      BY <1>4, <2>2, <3>1, <3>2 DEF Binary!TxTake
    <3>4. QED
      BY <1>4, <2>2, <3>3 DEF Binary!TxTake
  <2>3. QED
    BY <2>1, <2>2
<1>5. CASE Binary!TxSend
  BY <1>5 DEF Binary!TxSend, Binary!Packets, Binary!Chunks
<1>6. CASE Binary!TxAcked
  BY <1>6 DEF Binary!TxAcked, Binary!Again, Binary!Return, Binary!Numbers
<1>7. CASE Binary!TxTimeout
  BY <1>7 DEF Binary!TxTimeout, Binary!Again, Binary!Return, Binary!Numbers
<1>8. CASE Binary!AckStore
  BY <1>8 DEF Binary!AckStore
<1>9. CASE Binary!AckPost
  BY <1>9 DEF Binary!AckPost, Binary!Acked
<1>10. CASE Binary!RxConsume
  <2>1. Head(data) \in Binary!Packets /\ data' \in Seq(Binary!Packets)
    BY <1>10, TailIs DEF Binary!RxConsume
  <2>2. PICK p \in Binary!Packets : p = Head(data)
    BY <2>1
  <2>3. p.chunk \in Binary!Chunks /\ p.pkt \in Binary!Numbers
    BY DEF Binary!Packets
  <2>4. Append(stored, p.chunk) \in Seq(Binary!Chunks) /\ Binary!Level(level) \in 0..Capacity
    BY <2>3, AppendIs DEF Binary!Level
  <2>5. /\ acks' \in Nat /\ rstate' \in {"RESET", "RECEIVING"}
        /\ failed' \in {"none", "no_packet", "not_all_sent", "first_packet", "full"}
    BY <1>10 DEF Binary!RxConsume
  <2>6. rlast' \in Binary!Numbers /\ level' \in 0..Capacity /\ stored' \in Seq(Binary!Chunks)
    BY <1>10, <2>2, <2>3, <2>4 DEF Binary!RxConsume, Binary!Store
  <2>7. QED
    BY <1>10, <2>1, <2>5, <2>6 DEF Binary!RxConsume
<1>11. CASE Binary!Read
  BY <1>11 DEF Binary!Read
<1>12. CASE UNCHANGED Binary!vars
  BY <1>12 DEF Binary!vars
<1>13. QED
  BY <1>1, <1>2, <1>3, <1>4, <1>5, <1>6, <1>7, <1>8, <1>9, <1>10, <1>11, <1>12
     DEF Binary!Next

\* What has been taken stays so, and only TxTake takes more.
LEMMA TakenKept ==
  ASSUME Binary!TypeOK, BinaryQueue, [Binary!Next]_(Binary!vars)
  PROVE  /\ \A i \in 1..Len(length) : length'[i] = length[i]
         /\ Len(length') >= Len(length)
         /\ \/ Taken' = Taken
            \/ Binary!TxTake /\ pktList # <<>> /\ Taken' = Taken + 1
<1> USE DEF Binary!TypeOK
<1>1. /\ Len(length) \in Nat /\ Len(pktList) \in Nat
  OBVIOUS
<1>2. ASSUME NEW c \in Callers, Binary!Queue(c)
      PROVE  /\ \A i \in 1..Len(length) : length'[i] = length[i]
             /\ Len(length') >= Len(length) /\ Taken' = Taken
  <2>1. PICK n \in Lengths : length' = Append(length, n)
    BY <1>2 DEF Binary!Queue
  <2>2. /\ Len(length') = Len(length) + 1
        /\ \A i \in 1..Len(length) : length'[i] = length[i]
    BY <2>1, AppendIs
  <2>3. Len(length) + 1 \in Binary!Buffers
    BY <1>1, <1>2, BinaryAssumed DEF Binary!Queue, Binary!Buffers, Binary!BinaryAssumption
  <2>4. Len(pktList') = Len(pktList) + 1
    BY <1>2, <2>3, AppendIs DEF Binary!Queue
  <2>5. QED
    BY <1>1, <2>2, <2>4 DEF Taken
<1>3. CASE Binary!TxTake
  <2>1. length' = length
    BY <1>3 DEF Binary!TxTake
  <2>2. CASE pktList = <<>>
    <3>1. pktList' = pktList
      BY <1>3, <2>2 DEF Binary!TxTake
    <3>2. QED
      BY <1>1, <2>1, <3>1 DEF Taken
  <2>3. CASE pktList # <<>>
    <3>1. Len(pktList') = Len(pktList) - 1
      BY <1>3, <2>3, TailIs DEF Binary!TxTake
    <3>2. Taken' = Taken + 1
      BY <1>1, <2>1, <3>1 DEF Taken
    <3>3. QED
      BY <1>1, <1>3, <2>1, <2>3, <3>2
  <2>4. QED
    BY <2>2, <2>3
<1>4. ASSUME UNCHANGED <<length, pktList>>
      PROVE  /\ \A i \in 1..Len(length) : length'[i] = length[i]
             /\ Len(length') >= Len(length) /\ Taken' = Taken
  BY <1>1, <1>4 DEF Taken
<1>5. CASE \/ \E c \in Callers : Binary!Copy(c) \/ Binary!Post(c)
           \/ Binary!TxSend \/ Binary!TxAcked \/ Binary!TxTimeout
           \/ Binary!AckStore \/ Binary!AckPost \/ Binary!RxConsume \/ Binary!Read
           \/ UNCHANGED Binary!vars
  <2>1. UNCHANGED <<length, pktList>>
    BY <1>5 DEF Binary!Copy, Binary!Post, Binary!TxSend, Binary!TxAcked, Binary!TxTimeout,
                Binary!AckStore, Binary!AckPost, Binary!RxConsume, Binary!Read, Binary!vars,
                Binary!queueVars
  <2>2. QED
    BY <1>4, <2>1
<1>6. QED
  BY <1>2, <1>3, <1>5 DEF Binary!Next

\* More is queued and taken: what is known of a chunk stays so.
LEMMA ChunksKept ==
  ASSUME Binary!TypeOK, BinaryQueue, [Binary!Next]_(Binary!vars)
  PROVE  /\ Taken \in Nat /\ Taken =< Len(length) /\ Taken' \in Nat /\ Taken' >= Taken
         /\ \A c : IsChunk(c) => IsChunk(c)'
         /\ \A c : c[1] \in 0..Taken => (Ended(c)' <=> Ended(c))
         /\ \A n \in 1..Taken : length'[n] = length[n] /\ length[n] \in Lengths
<1>1. /\ Len(length) \in Nat /\ Len(pktList) \in Nat /\ Len(pktList) =< Len(length)
      /\ \A i \in 1..Len(length) : length[i] \in Lengths
  BY EntriesAre DEF BinaryQueue, Binary!TypeOK
<1>2. Taken \in Nat /\ Taken =< Len(length)
  BY <1>1 DEF Taken
<1>3. Taken' \in Nat /\ Taken' >= Taken
  <2>1. Taken' = Taken \/ Taken' = Taken + 1
    BY TakenKept
  <2>2. QED
    BY <1>2, <2>1
<1>4. \A n \in 1..Taken : length'[n] = length[n] /\ length[n] \in Lengths
  <2> TAKE n \in 1..Taken
  <2>1. n \in 1..Len(length)
    BY <1>1, <1>2
  <2>2. QED
    BY <1>1, <2>1, TakenKept
<1>5. \A c : IsChunk(c) => IsChunk(c)'
  BY <1>2, <1>3, <1>4 DEF IsChunk
<1>6. \A c : c[1] \in 0..Taken => (Ended(c)' <=> Ended(c))
  <2> TAKE c
  <2> HAVE c[1] \in 0..Taken
  <2>1. CASE c[1] = 0
    BY <2>1 DEF Ended
  <2>2. CASE c[1] \in 1..Taken
    BY <1>4, <2>2 DEF Ended
  <2>3. QED
    BY <1>2, <2>1, <2>2
<1>7. QED
  BY <1>2, <1>3, <1>4, <1>5, <1>6

\* The buffer that is being received has a length.
LEMMA CurrentLength ==
  ASSUME Binary!TypeOK, BinaryQueue, tpc # "wait"
  PROVE  /\ current \in 1..Len(length) /\ current \in Nat /\ offset \in Nat
         /\ length[current] \in Lengths /\ length[current] \in Nat \ {0}
<1>1. /\ Len(length) \in Nat /\ Len(pktList) \in Nat /\ offset \in Nat
      /\ \A i \in 1..Len(length) : length[i] \in Lengths
  BY EntriesAre DEF Binary!TypeOK
<1>2. current \in 1..Len(length)
  BY <1>1 DEF BinaryQueue, Taken
<1>3. Lengths \subseteq Nat \ {0}
  BY BinaryAssumed DEF Binary!BinaryAssumption
<1>4. length[current] \in Lengths /\ length[current] \in Nat \ {0}
  BY <1>1, <1>2, <1>3
<1>5. current \in Nat
  BY <1>1, <1>2
<1>6. QED
  BY <1>1, <1>2, <1>4, <1>5

\* Every step keeps the queue of fragments and acknowledgements, if no number wraps.
LEMMA BinaryQueueStep ==
  ASSUME Binary!TypeOK, BinarySender, NoWrap, BinaryQueue, [Binary!Next]_(Binary!vars),
         Binary!Running'
  PROVE  BinaryQueue'
<1>1. /\ Len(length) \in Nat /\ Len(pktList) \in Nat /\ Taken \in Nat /\ Taken =< Len(length)
      /\ Len(length) = Taken + Len(pktList) /\ Len(length) =< MaxBuffers
  BY DEF BinaryQueue, Taken, Binary!TypeOK
<1>a. \A i \in 1..Len(pktList) : pktList[i] = Taken + i
  BY DEF BinaryQueue
<1>b. \A i \in 1..Len(length) : length[i] \in Lengths /\ length[i] \in Nat \ {0}
  BY EntriesAre, BinaryAssumed DEF Binary!BinaryAssumption, Binary!TypeOK
<1>2. ASSUME UNCHANGED <<length, pktList>>,
             tpc' # "wait" => /\ current' = current /\ tpc # "wait"
                              /\ offset' < length[current] /\ lastPkt' = offset' + 1
      PROVE  BinaryQueue'
  <2>1. Taken' = Taken
    BY <1>2 DEF Taken
  <2>2. QED
    BY <1>2, <2>1 DEF BinaryQueue
<1>3. ASSUME NEW c \in Callers, Binary!Queue(c) PROVE BinaryQueue'
  <2>1. PICK n \in Lengths : length' = Append(length, n)
    BY <1>3 DEF Binary!Queue
  <2>2. Len(length') = Len(length) + 1
    BY <2>1, AppendIs DEF Binary!TypeOK
  <2>3. Len(length) + 1 \in Binary!Buffers /\ Len(length') =< MaxBuffers
    BY <1>1, <1>3, <2>2, BinaryAssumed DEF Binary!Queue, Binary!Buffers, Binary!BinaryAssumption
  <2>4. /\ Len(pktList') = Len(pktList) + 1
        /\ \A i \in 1..Len(pktList) : pktList'[i] = pktList[i]
        /\ pktList'[Len(pktList) + 1] = Len(length) + 1
        /\ \A i \in 1..Len(pktList') : i \in 1..Len(pktList) \/ i = Len(pktList) + 1
    BY <1>3, <2>3, AppendIs DEF Binary!Queue, Binary!TypeOK
  <2>5. Taken' = Taken
    BY <1>1, <2>2, <2>4 DEF Taken
  <2>6. \A i \in 1..Len(pktList') : pktList'[i] = Taken' + i
    BY <1>1, <1>a, <2>4, <2>5
  <2>7. tpc # "wait" => length'[current] = length[current]
    <3> SUFFICES ASSUME tpc # "wait" PROVE length'[current] = length[current]
      OBVIOUS
    <3>1. current \in 1..Len(length)
      BY <1>1 DEF BinaryQueue
    <3>2. QED
      BY <3>1, TakenKept
  <2>8. Len(pktList') =< Len(length')
    BY <1>1, <2>2, <2>4
  <2>9. UNCHANGED <<tpc, current, lastPkt, retry, offset>>
    BY <1>3 DEF Binary!Queue, Binary!sendVars
  <2>10. QED
    BY <2>3, <2>5, <2>6, <2>7, <2>8, <2>9 DEF BinaryQueue
<1>4. CASE Binary!TxTake
  <2>1. pktList # <<>>
    BY <1>4 DEF Binary!TxTake, Binary!Running
  <2>2. /\ Len(pktList') = Len(pktList) - 1 /\ 1 \in 1..Len(pktList)
        /\ \A i \in 1..Len(pktList') : /\ pktList'[i] = pktList[i + 1]
                                       /\ i + 1 \in 1..Len(pktList)
        /\ current' = pktList[1]
    <3>1. pktList' = Tail(pktList) /\ current' = Head(pktList)
      BY <1>4, <2>1 DEF Binary!TxTake
    <3>2. pktList \in Seq(Binary!Buffers)
      BY DEF Binary!TypeOK
    <3>3. QED
      BY <2>1, <3>1, <3>2, TailIs
  <2>3. lastPkt' = 1 /\ offset' = 0 /\ length' = length
    BY <1>4, <2>1 DEF Binary!TxTake
  <2>4. Taken' = Taken + 1
    BY <1>1, <2>2, <2>3 DEF Taken
  <2>5. current' = Taken + 1
    BY <1>1, <1>a, <2>2, <2>3
  <2>6. Taken + 1 \in 1..Len(length)
    BY <1>1, <2>2
  <2>7. \A i \in 1..Len(pktList') : pktList'[i] = Taken' + i
    <3> TAKE i \in 1..Len(pktList')
    <3>1. pktList'[i] = Taken + (i + 1)
      BY <1>a, <2>2, <2>3
    <3>2. QED
      BY <1>1, <2>2, <2>3, <2>4, <3>1
  <2>8. length[current'] \in Nat \ {0}
    BY <1>b, <2>5, <2>6
  <2>9. Len(pktList') =< Len(length)
    BY <1>1, <2>2, <2>3
  <2>10. /\ current' = Taken' /\ current' > 0 /\ offset' < length'[current']
         /\ lastPkt' = offset' + 1
    BY <1>1, <2>3, <2>4, <2>5, <2>8
  <2>11. QED
    BY <1>1, <2>3, <2>7, <2>9, <2>10 DEF BinaryQueue
<1>5. CASE Binary!TxAcked
  <2>1. tpc = "ack" /\ offset < length[current] /\ lastPkt = offset + 1
        /\ UNCHANGED <<length, pktList>>
    BY <1>5 DEF Binary!TxAcked, BinaryQueue, Binary!queueVars
  <2>2. length[current] \in Nat /\ length[current] < PktWrap /\ offset \in Nat
    <3>1. current \in 1..Len(length)
      BY <1>1, <2>1 DEF BinaryQueue
    <3>2. QED
      BY <1>b, <3>1 DEF NoWrap, Binary!TypeOK
  <2>3. CASE tpc' = "wait" \/ UNCHANGED <<current, offset, lastPkt>>
    BY <1>2, <2>1, <2>3
  <2>4. CASE ~(tpc' = "wait" \/ UNCHANGED <<current, offset, lastPkt>>)
    <3>1. /\ current' = current /\ lastPkt' = (lastPkt + 1) % PktWrap /\ offset' = offset + 1
          /\ offset + 1 # length[current]
      BY <1>5, <2>4 DEF Binary!TxAcked, Binary!Again, Binary!Return
    <3>2. offset + 1 < length[current] /\ lastPkt + 1 \in 0..PktWrap - 1
      BY <2>1, <2>2, <3>1, BinaryAssumed DEF Binary!BinaryAssumption
    <3>3. (lastPkt + 1) % PktWrap = lastPkt + 1
      BY <3>2, BinaryAssumed DEF Binary!BinaryAssumption
    <3>4. QED
      BY <1>2, <2>1, <3>1, <3>2, <3>3
  <2>5. QED
    BY <2>3, <2>4
<1>6. CASE Binary!TxTimeout
  BY <1>2, <1>6 DEF Binary!TxTimeout, Binary!Again, Binary!Return, BinaryQueue, Binary!queueVars
<1>7. CASE Binary!TxSend
  BY <1>2, <1>7 DEF Binary!TxSend, BinaryQueue, Binary!queueVars
<1>8. CASE \/ \E c \in Callers : Binary!Copy(c) \/ Binary!Post(c)
           \/ Binary!AckStore \/ Binary!AckPost \/ Binary!RxConsume \/ Binary!Read
           \/ UNCHANGED Binary!vars
  <2>1. UNCHANGED <<length, pktList, tpc, current, offset, lastPkt>>
    BY <1>8 DEF Binary!Copy, Binary!Post, Binary!AckStore, Binary!AckPost, Binary!RxConsume,
                Binary!Read, Binary!vars, Binary!queueVars, Binary!sendVars
  <2>2. QED
    BY <1>2, <2>1 DEF BinaryQueue
<1>9. QED
  BY <1>3, <1>4, <1>5, <1>6, <1>7, <1>8 DEF Binary!Next

\* The stream stays what it is while nothing is sent or received.
LEMMA StreamKept ==
  ASSUME Binary!TypeOK, BinaryQueue, [Binary!Next]_(Binary!vars), StoredStream
  PROVE  /\ LastStored[1] \in 0..Taken
         /\ stored' = stored => StoredStream' /\ LastStored' = LastStored
         /\ UNCHANGED <<data, stored>> /\ SentStream => SentStream' /\ LastSent' = LastSent
<1> USE ChunksKept
<1>1. LastStored[1] \in 0..Taken
  <2>1. CASE stored = <<>>
    BY <2>1 DEF LastStored
  <2>2. CASE stored # <<>>
    <3>1. Len(stored) \in 1..Len(stored)
      BY <2>2 DEF Binary!TypeOK
    <3>2. QED
      BY <2>2, <3>1 DEF LastStored, StoredStream, IsChunk
  <2>3. QED
    BY <2>1, <2>2
<1>2. \A c, d : IsChunk(c) /\ Follows(c, d) => Follows(c, d)'
  BY DEF IsChunk, Follows
<1>3. ASSUME stored' = stored PROVE StoredStream' /\ LastStored' = LastStored
  <2>1. \A i \in 1..Len(stored) - 1 : i \in 1..Len(stored)
    BY DEF Binary!TypeOK
  <2>2. QED
    BY <1>2, <1>3, <2>1 DEF StoredStream, LastStored
<1>4. ASSUME UNCHANGED <<data, stored>>, SentStream PROVE SentStream' /\ LastSent' = LastSent
  <2>1. LastStored' = LastStored /\ LastSent' = LastSent
    BY <1>4 DEF LastStored, LastSent
  <2>2. \A c, d : c[1] \in 0..Taken /\ MayFollow(c, d) => MayFollow(c, d)'
    BY DEF MayFollow, Follows
  <2>3. data # <<>> => MayFollow(LastStored, data[1].chunk)'
    BY <1>1, <1>4, <2>1, <2>2 DEF SentStream
  <2>4. \A i \in 1..Len(data) - 1 : MayFollow(data[i].chunk, data[i + 1].chunk)'
    <3> TAKE i \in 1..Len(data) - 1
    <3>1. i \in 1..Len(data)
      BY DEF Binary!TypeOK
    <3>2. data[i].chunk[1] \in 0..Taken
      BY <1>4, <3>1 DEF SentStream, IsChunk
    <3>3. QED
      BY <1>4, <2>2, <3>2 DEF SentStream
  <2>5. \A c : IsChunk(c) => length'[c[1]] = length[c[1]]
    BY DEF IsChunk
  <2>6. ASSUME NEW i \in 1..Len(data')
        PROVE  /\ IsChunk(data[i].chunk)' /\ data'[i].pkt = data'[i].chunk[2]
               /\ data'[i].hdr = IF data'[i].chunk[2] < length'[data'[i].chunk[1]] THEN "SOH" ELSE "EOT"
    <3>1. /\ IsChunk(data[i].chunk) /\ data[i].pkt = data[i].chunk[2]
          /\ data[i].hdr = IF data[i].chunk[2] < length[data[i].chunk[1]] THEN "SOH" ELSE "EOT"
      BY <1>4 DEF SentStream
    <3>2. IsChunk(data[i].chunk)' /\ length'[data[i].chunk[1]] = length[data[i].chunk[1]]
      BY <1>4, <2>5, <3>1
    <3>3. QED
      BY <1>4, <3>1, <3>2
  <2>7. SentStream'
    BY <1>4, <2>3, <2>4, <2>6 DEF SentStream
  <2>8. QED
    BY <2>1, <2>7
<1>5. QED
  BY <1>1, <1>3, <1>4

\* A chunk is sent.
LEMMA StreamSend ==
  ASSUME Binary!TypeOK, BinarySender, BinaryQueue, StoredStream, SentStream, SenderEnd,
         Binary!TxSend
  PROVE  SentStream' /\ LastSent' = <<current, offset + 1>>
<1> DEFINE chunk == <<current, offset + 1>>
<1>1. /\ tpc = "send" /\ lastPkt = offset + 1 /\ current = Taken /\ current > 0
      /\ offset < length[current] /\ UNCHANGED <<length, pktList, stored>>
  BY DEF Binary!TxSend, BinaryQueue, Binary!queueVars, Binary!recvVars
<1>2. PICK p \in Binary!Packets :
         /\ data' = Append(data, p) /\ p.chunk = chunk /\ p.pkt = offset + 1
         /\ p.hdr = IF offset + 1 < length[current] THEN "SOH" ELSE "EOT"
  <2>1. chunk \in Binary!Chunks /\ lastPkt \in Binary!Numbers
    BY <1>1 DEF BinarySender, Binary!Chunks, Binary!TypeOK
  <2>2. [hdr |-> IF offset + 1 < length[current] THEN "SOH" ELSE "EOT", pkt |-> lastPkt, chunk |-> chunk]
          \in Binary!Packets
    BY <2>1 DEF Binary!Packets
  <2> HIDE DEF chunk
  <2>3. QED
    BY <1>1, <2>2 DEF Binary!TxSend, chunk
<1>3. /\ Len(data) \in Nat /\ Len(data') = Len(data) + 1
      /\ \A i \in 1..Len(data) : data'[i] = data[i]
      /\ data'[Len(data) + 1] = p
      /\ \A i \in 1..Len(data') : i \in 1..Len(data) \/ i = Len(data) + 1
  BY <1>2, AppendIs DEF Binary!TypeOK
<1>4. Taken' = Taken /\ LastStored' = LastStored
  BY <1>1 DEF Taken, LastStored
<1>5. \A c, d : /\ IsChunk(c)' <=> IsChunk(c)
                /\ Ended(c)' <=> Ended(c)
                /\ MayFollow(c, d)' <=> MayFollow(c, d)
  BY <1>1, <1>4 DEF IsChunk, Ended, MayFollow, Follows
<1>6. IsChunk(chunk)
  <2>1. length[current] \in Nat /\ offset \in Nat /\ current \in Nat
    BY <1>1, CurrentLength
  <2>2. QED
    BY <1>1, <2>1 DEF IsChunk
<1>7. MayFollow(LastSent, chunk)
  <2>1. CASE Late /\ LastSent = chunk
    BY <2>1 DEF MayFollow
  <2>2. CASE offset = 0 /\ LastSent[1] = current - 1 /\ Ended(LastSent)
    <3>1. chunk = <<LastSent[1] + 1, 1>>
      BY <1>1, <2>2 DEF BinarySender, Binary!Buffers
    <3>2. QED
      BY <2>2, <3>1 DEF MayFollow, Follows
  <2>3. CASE offset > 0 /\ LastSent = <<current, offset>>
    <3>1. ~Ended(LastSent)
      <4>1. LastSent[1] = current /\ LastSent[2] = offset
        BY <2>3
      <4>2. length[current] \in Nat /\ offset \in Nat
        BY <1>1, CurrentLength
      <4>3. QED
        BY <1>1, <4>1, <4>2 DEF Ended
    <3>2. QED
      BY <2>3, <3>1 DEF MayFollow, Follows
  <2>4. QED
    BY <1>1, <2>1, <2>2, <2>3 DEF SenderEnd
<1> HIDE DEF chunk
<1>8. LastSent' = chunk
  <2>1. data' # <<>>
    BY <1>3
  <2>2. QED
    BY <1>2, <1>3, <2>1 DEF LastSent
<1>9. data' # <<>> => MayFollow(LastStored, data'[1].chunk)
  <2>1. CASE data = <<>>
    <3>1. LastSent = LastStored /\ Len(data) = 0
      BY <2>1 DEF LastSent
    <3>2. data'[1].chunk = chunk
      BY <1>2, <1>3, <3>1
    <3>3. QED
      BY <1>7, <3>1, <3>2
  <2>2. CASE data # <<>>
    <3>1. 1 \in 1..Len(data)
      BY <2>2, <1>3 DEF Binary!TypeOK
    <3>2. QED
      BY <1>3, <2>2, <3>1 DEF SentStream
  <2>3. QED
    BY <2>1, <2>2
<1>10. \A i \in 1..Len(data') - 1 : MayFollow(data'[i].chunk, data'[i + 1].chunk)
  <2> TAKE i \in 1..Len(data') - 1
  <2>1. CASE i \in 1..Len(data) - 1
    <3>1. i \in 1..Len(data) /\ i + 1 \in 1..Len(data)
      BY <1>3, <2>1
    <3>2. QED
      BY <1>3, <2>1, <3>1 DEF SentStream
  <2>2. CASE i = Len(data)
    <3>1. i \in 1..Len(data) /\ data # <<>>
      BY <1>3, <2>2
    <3>2. data'[i].chunk = LastSent /\ data'[i + 1].chunk = chunk
      BY <1>2, <1>3, <2>2, <3>1 DEF LastSent
    <3>3. QED
      BY <1>7, <3>2
  <2>3. QED
    BY <1>3, <2>1, <2>2
<1>11. \A i \in 1..Len(data') :
          /\ IsChunk(data'[i].chunk) /\ data'[i].pkt = data'[i].chunk[2]
          /\ data'[i].hdr = IF data'[i].chunk[2] < length[data'[i].chunk[1]] THEN "SOH" ELSE "EOT"
  <2> TAKE i \in 1..Len(data')
  <2>1. CASE i \in 1..Len(data)
    BY <1>3, <2>1 DEF SentStream
  <2>2. CASE i = Len(data) + 1
    <3>1. data'[i] = p /\ p.chunk[1] = current /\ p.chunk[2] = offset + 1
      BY <1>2, <1>3, <2>2 DEF chunk
    <3>2. QED
      BY <1>2, <1>6, <3>1
  <2>3. QED
    BY <1>3, <2>1, <2>2
<1>12. QED
  BY <1>1, <1>4, <1>5, <1>8, <1>9, <1>10, <1>11 DEF SentStream, chunk

\* A packet is received: stored, when it is the next one; skipped, when it has
\* been sent again; or it stops the system.
LEMMA StreamReceive ==
  ASSUME Binary!TypeOK, BinaryQueue, NoResend, StoredStream, SentStream, ReceiverEnd,
         Binary!RxConsume
  PROVE  /\ StoredStream'
         /\ \A i \in 1..Len(stored) : stored'[i] = stored[i] /\ i \in 1..Len(stored')
         /\ \/ \E i \in 1..Len(stored') : stored'[i] = data[1].chunk
            \/ ~Binary!Running' /\ NoOverwrite
         /\ Binary!Running' => SentStream' /\ LastSent' = LastSent /\ ReceiverEnd'
<1>1. PICK p \in Binary!Packets : p = Head(data) /\ p = data[1] /\ 1 \in 1..Len(data)
  BY TailIs DEF Binary!RxConsume, Binary!TypeOK
<1>2. /\ Len(data') = Len(data) - 1 /\ Len(data) \in Nat /\ data # <<>>
      /\ \A i \in 1..Len(data') : data'[i] = data[i + 1] /\ i + 1 \in 1..Len(data) /\ i + 1 > 1
  BY TailIs DEF Binary!RxConsume, Binary!TypeOK
<1>3. /\ IsChunk(p.chunk) /\ p.pkt = p.chunk[2]
      /\ p.hdr = IF p.chunk[2] < length[p.chunk[1]] THEN "SOH" ELSE "EOT"
      /\ MayFollow(LastStored, p.chunk)
  BY <1>1, <1>2 DEF SentStream
<1>4. UNCHANGED <<length, pktList>> /\ Taken' = Taken
  BY DEF Binary!RxConsume, Binary!queueVars, Taken
<1>5. \A c, d : /\ IsChunk(c)' <=> IsChunk(c)
                /\ Ended(c)' <=> Ended(c)
                /\ Follows(c, d)' <=> Follows(c, d)
                /\ MayFollow(c, d)' <=> MayFollow(c, d)
  BY <1>4 DEF IsChunk, Ended, MayFollow, Follows
<1>6. /\ p.chunk[1] \in Nat /\ p.chunk[1] # 0 /\ p.chunk[2] \in Nat /\ p.chunk[2] > 0
      /\ length[p.chunk[1]] \in Nat \ {0} /\ length[p.chunk[1]] \in Lengths
      /\ p.chunk[2] =< length[p.chunk[1]]
  <2>1. p.chunk[1] \in 1..Len(length) /\ p.chunk[2] \in 1..length[p.chunk[1]]
    BY <1>3 DEF IsChunk, Taken, BinaryQueue, Binary!TypeOK
  <2>2. length[p.chunk[1]] \in Lengths
    BY <2>1, EntriesAre DEF Binary!TypeOK
  <2>3. length[p.chunk[1]] \in Nat \ {0}
    BY <2>2, BinaryAssumed DEF Binary!BinaryAssumption
  <2>4. QED
    BY <2>1, <2>2, <2>3
<1>7. Len(stored) \in Nat /\ p.chunk \in Binary!Chunks /\ stored \in Seq(Binary!Chunks)
  BY DEF Binary!TypeOK, Binary!Packets
<1>8. ASSUME stored' = stored
      PROVE  /\ StoredStream' /\ LastStored' = LastStored
             /\ \A i \in 1..Len(stored) : stored'[i] = stored[i] /\ i \in 1..Len(stored')
  BY <1>5, <1>8 DEF StoredStream, LastStored
\* What comes after the first packet follows it.
<1>9. ASSUME LastStored' = p.chunk PROVE SentStream' /\ LastSent' = LastSent
  <2>1. ASSUME NEW i \in 1..Len(data')
        PROVE  /\ IsChunk(data[i].chunk)' /\ data'[i].pkt = data'[i].chunk[2]
               /\ data'[i].hdr = IF data'[i].chunk[2] < length'[data'[i].chunk[1]] THEN "SOH" ELSE "EOT"
    <3>1. i + 1 \in 1..Len(data) /\ data'[i] = data[i + 1]
      BY <1>2
    <3>2. /\ IsChunk(data[i + 1].chunk) /\ data[i + 1].pkt = data[i + 1].chunk[2]
          /\ data[i + 1].hdr = IF data[i + 1].chunk[2] < length[data[i + 1].chunk[1]]
                               THEN "SOH" ELSE "EOT"
      BY <3>1 DEF SentStream
    <3>3. QED
      BY <1>4, <1>5, <3>1, <3>2
  <2>2. ASSUME data' # <<>> PROVE MayFollow(LastStored, data[1].chunk)'
    <3>1. 1 \in 1..Len(data') /\ 1 \in 1..Len(data) - 1
      BY <1>2, <2>2 DEF Binary!RxConsume, Binary!TypeOK
    <3>2. MayFollow(p.chunk, data'[1].chunk)
      BY <1>1, <1>2, <3>1 DEF SentStream
    <3>3. QED
      BY <1>5, <1>9, <3>2
  <2>3. ASSUME NEW i \in 1..Len(data') - 1 PROVE MayFollow(data[i].chunk, data[i + 1].chunk)'
    <3>1. i \in 1..Len(data') /\ i + 1 \in 1..Len(data') /\ i + 1 \in 1..Len(data) - 1
      BY <1>2
    <3>2. MayFollow(data[i + 1].chunk, data[(i + 1) + 1].chunk)
      BY <3>1 DEF SentStream
    <3>3. QED
      BY <1>2, <1>5, <3>1, <3>2
  <2>4. SentStream'
    BY <2>1, <2>2, <2>3 DEF SentStream
  <2>5. LastSent' = LastSent
    <3>1. CASE data' = <<>>
      <4>1. Len(data) = 1
        BY <1>2, <3>1
      <4>2. QED
        BY <1>1, <1>2, <1>9, <3>1, <4>1 DEF LastSent
    <3>2. CASE data' # <<>>
      <4>1. Len(data') \in 1..Len(data') /\ Len(data') + 1 = Len(data)
        BY <1>2, <3>2 DEF Binary!RxConsume, Binary!TypeOK
      <4>2. data'[Len(data')] = data[Len(data)]
        BY <1>2, <4>1
      <4>3. QED
        BY <1>2, <3>2, <4>2 DEF LastSent
    <3>3. QED
      BY <3>1, <3>2
  <2>6. QED
    BY <2>4, <2>5
<1>10. CASE ~Follows(LastStored, p.chunk)
  <2>1. Late /\ p.chunk = LastStored
    BY <1>3, <1>10 DEF MayFollow
  <2>2. stored # <<>>
    BY <1>6, <2>1 DEF LastStored
  <2>3. \E i \in 1..Len(stored) : stored[i] = p.chunk
    <3>1. Len(stored) \in 1..Len(stored)
      BY <1>7, <2>2
    <3>2. QED
      BY <2>1, <2>2, <3>1 DEF LastStored
  <2>4. CASE rstate = "RESET"
    <3>1. p.chunk[2] = length[p.chunk[1]]
      BY <1>6, <2>1, <2>4 DEF ReceiverEnd, Ended
    <3>2. p.pkt # 1
      BY <1>3, <1>6, <2>1, <3>1 DEF NoResend
    <3>3. failed' = "first_packet" /\ stored' = stored
      BY <1>1, <2>4, <3>2 DEF Binary!RxConsume, Binary!recvVars
    <3>4. QED
      BY <1>1, <1>8, <2>3, <3>3 DEF Binary!Running
  <2>5. CASE rstate # "RESET"
    <3>1. rstate = "RECEIVING" /\ rlast = p.pkt /\ ~Ended(p.chunk)
      BY <1>3, <2>1, <2>5 DEF ReceiverEnd, Binary!TypeOK
    <3>2. p.pkt # rlast + 1
      BY <1>3, <1>6, <3>1
    <3>3. ~Binary!Fresh(p)
      BY <3>1, <3>2 DEF Binary!Fresh
    <3>4. p.hdr = "SOH"
      BY <1>3, <1>6, <3>1 DEF Ended
    <3>5. stored' = stored /\ rlast' = rlast /\ rstate' = "RECEIVING"
      BY <1>1, <3>1, <3>3, <3>4 DEF Binary!RxConsume
    <3>6. ReceiverEnd'
      BY <1>5, <1>8, <2>1, <3>1, <3>5 DEF ReceiverEnd
    <3>7. QED
      BY <1>1, <1>8, <1>9, <2>1, <2>3, <3>5, <3>6
  <2>6. QED
    BY <2>4, <2>5
<1>11. CASE Follows(LastStored, p.chunk)
  <2>1. Binary!Fresh(p) /\ ~(rstate = "RESET" /\ p.pkt # 1)
    <3>1. CASE Ended(LastStored)
      BY <1>3, <1>11, <3>1 DEF ReceiverEnd, Follows, Binary!Fresh
    <3>2. CASE ~Ended(LastStored)
      <4>1. rstate = "RECEIVING" /\ rlast = LastStored[2] /\ p.chunk[2] = LastStored[2] + 1
        BY <1>11, <3>2 DEF ReceiverEnd, Follows, Binary!TypeOK
      <4>2. QED
        BY <1>3, <4>1 DEF Binary!Fresh
    <3>3. QED
      BY <3>1, <3>2
  <2>2. CASE level = Capacity /\ NoOverwrite
    <3>1. failed' = "full" /\ stored' = stored
      BY <1>1, <2>1, <2>2 DEF Binary!RxConsume, Binary!recvVars
    <3>2. QED
      BY <1>8, <2>2, <3>1 DEF Binary!Running
  <2>3. CASE ~(level = Capacity /\ NoOverwrite)
    <3>1. /\ stored' = Append(stored, p.chunk) /\ rlast' = p.pkt
          /\ rstate' = IF p.hdr = "EOT" THEN "RESET" ELSE "RECEIVING"
      BY <1>1, <2>1, <2>3 DEF Binary!RxConsume, Binary!Store
    <3>2. /\ Len(stored') = Len(stored) + 1
          /\ \A i \in 1..Len(stored) : stored'[i] = stored[i]
          /\ stored'[Len(stored) + 1] = p.chunk
          /\ \A i \in 1..Len(stored') : i \in 1..Len(stored) \/ i = Len(stored) + 1
      BY <1>7, <3>1, AppendIs
    <3>3. LastStored' = p.chunk
      <4>1. stored' # <<>>
        BY <1>7, <3>2
      <4>2. QED
        BY <1>7, <3>2, <4>1 DEF LastStored
    <3>4. StoredStream'
      <4>1. ASSUME NEW i \in 1..Len(stored') PROVE IsChunk(stored[i])'
        BY <1>3, <1>5, <3>2 DEF StoredStream
      <4>2. ASSUME NEW i \in 1..Len(stored') - 1 PROVE Follows(stored[i], stored[i + 1])'
        <5>1. CASE i = Len(stored)
          <6>1. i \in 1..Len(stored) /\ stored # <<>>
            BY <1>7, <3>2, <5>1
          <6>2. stored'[i] = LastStored /\ stored'[i + 1] = p.chunk
            BY <3>2, <5>1, <6>1 DEF LastStored
          <6>3. QED
            BY <1>5, <1>11, <6>2
        <5>2. CASE i \in 1..Len(stored) - 1
          <6>1. i \in 1..Len(stored) /\ i + 1 \in 1..Len(stored)
            BY <1>7, <5>2
          <6>2. QED
            BY <1>5, <3>2, <5>2, <6>1 DEF StoredStream
        <5>3. QED
          BY <1>7, <3>2, <5>1, <5>2
      <4>3. stored'[1] = <<1, 1>>
        <5>1. CASE stored = <<>>
          <6>1. Len(stored) = 0 /\ LastStored = <<0, 0>> /\ Ended(LastStored)
            BY <5>1 DEF LastStored, Ended
          <6>2. QED
            BY <1>11, <3>2, <6>1 DEF Follows
        <5>2. CASE stored # <<>>
          <6>1. 1 \in 1..Len(stored)
            BY <1>7, <5>2
          <6>2. QED
            BY <3>2, <5>2, <6>1 DEF StoredStream
        <5>3. QED
          BY <5>1, <5>2
      <4>4. QED
        BY <4>1, <4>2, <4>3 DEF StoredStream
    <3>5. ReceiverEnd'
      <4>1. Ended(p.chunk) <=> ~(p.chunk[2] < length[p.chunk[1]])
        BY <1>6 DEF Ended
      <4>2. QED
        BY <1>3, <1>5, <3>1, <3>3, <4>1 DEF ReceiverEnd
    <3>6. Len(stored) + 1 \in 1..Len(stored') /\ \A i \in 1..Len(stored) : i \in 1..Len(stored')
      BY <1>7, <3>2
    <3>7. QED
      BY <1>1, <1>9, <3>2, <3>3, <3>4, <3>5, <3>6
  <2>4. QED
    BY <2>2, <2>3
<1>12. QED
  BY <1>10, <1>11

\* Every step keeps the two ends of the stream in step, if nothing is sent twice.
LEMMA SenderEndStep ==
  ASSUME Binary!TypeOK, BinarySender, NoWrap, NoResend, BinaryQueue, StoredStream, SentStream,
         ReceiverEnd, SenderEnd, BinaryTurn, [Binary!Next]_(Binary!vars), Binary!Running'
  PROVE  SentStream' /\ ReceiverEnd' /\ SenderEnd' /\ StoredStream'
<1> USE TakenKept, ChunksKept, StreamKept
<1>1. LastSent[1] \in 0..Taken
  <2>1. CASE data = <<>>
    BY <2>1 DEF LastSent
  <2>2. CASE data # <<>>
    <3>1. Len(data) \in 1..Len(data)
      BY <2>2 DEF Binary!TypeOK
    <3>2. QED
      BY <2>2, <3>1 DEF LastSent, SentStream, IsChunk
  <2>3. QED
    BY <2>1, <2>2
<1>3. ASSUME UNCHANGED <<data, stored, rstate, rlast>>
      PROVE  /\ SentStream' /\ ReceiverEnd' /\ StoredStream' /\ LastSent' = LastSent
             /\ Ended(LastSent)' <=> Ended(LastSent)
  BY <1>1, <1>3 DEF ReceiverEnd
<1>4. ASSUME UNCHANGED <<data, stored, rstate, rlast, tpc, current, offset>>, Taken' = Taken
      PROVE  SentStream' /\ ReceiverEnd' /\ SenderEnd' /\ StoredStream'
  BY <1>3, <1>4 DEF SenderEnd
<1>5. CASE \/ \E c \in Callers : Binary!Queue(c) \/ Binary!Copy(c) \/ Binary!Post(c)
           \/ Binary!AckStore \/ Binary!AckPost \/ Binary!Read \/ UNCHANGED Binary!vars
  <2>1. UNCHANGED <<data, stored, rstate, rlast, tpc, current, offset>>
    BY <1>5 DEF Binary!Queue, Binary!Copy, Binary!Post, Binary!AckStore, Binary!AckPost,
                Binary!Read, Binary!vars, Binary!recvVars, Binary!sendVars
  <2>2. Taken' = Taken
    <3>1. CASE Binary!TxTake
      <4>1. tpc' # tpc
        BY <3>1 DEF Binary!TxTake, Binary!Running
      <4>2. QED
        BY <2>1, <4>1
    <3>2. QED
      BY <3>1
  <2>3. QED
    BY <1>4, <2>1, <2>2
<1>6. CASE Binary!TxTake
  <2>1. /\ tpc = "wait" /\ tpc' = "send" /\ offset' = 0
        /\ UNCHANGED <<data, stored, rstate, rlast>>
    BY <1>6 DEF Binary!TxTake, Binary!Running, Binary!recvVars
  <2>2. LastSent[1] = Taken /\ Ended(LastSent)
    BY <2>1 DEF SenderEnd
  <2>3. current' = Taken' /\ Taken' = Taken + 1
    <3>1. pktList # <<>> /\ length' = length
      BY <1>6 DEF Binary!TxTake, Binary!Running
    <3>2. Len(pktList') = Len(pktList) - 1 /\ Len(pktList) \in Nat /\ Len(length) \in Nat
      BY <1>6, <3>1, TailIs DEF Binary!TxTake, Binary!TypeOK
    <3>3. Taken' = Taken + 1
      BY <3>1, <3>2 DEF Taken
    <3>4. BinaryQueue'
      BY BinaryQueueStep
    <3>5. QED
      BY <2>1, <3>3, <3>4 DEF BinaryQueue
  <2>4. LastSent'[1] = current' - 1
    BY <1>3, <2>1, <2>2, <2>3
  <2>5. QED
    BY <1>3, <2>1, <2>2, <2>4 DEF SenderEnd
<1>7. CASE Binary!TxSend
  <2>1. SentStream' /\ LastSent' = <<current, offset + 1>>
    BY <1>7, StreamSend
  <2>2. UNCHANGED <<stored, rstate, rlast, current, offset>> /\ tpc' = "ack"
    BY <1>7 DEF Binary!TxSend, Binary!recvVars
  <2>3. QED
    BY <2>1, <2>2 DEF SenderEnd, ReceiverEnd
<1>8. CASE Binary!TxAcked \/ Binary!TxTimeout
  <2>1. UNCHANGED <<length, pktList, data, stored, rstate, rlast>> /\ Taken' = Taken /\ tpc = "ack"
    BY <1>8 DEF Binary!TxAcked, Binary!TxTimeout, Binary!recvVars, Binary!queueVars, Taken
  <2>2. LastSent = <<current, offset + 1>> /\ offset < length[current] /\ current = Taken
    BY <2>1 DEF SenderEnd, BinaryQueue
  <2>3. offset \in Nat
    BY DEF Binary!TypeOK
  <2>4. ~Late => ack = "ACK" /\ Binary!TxAcked
    <3> SUFFICES ASSUME ~Late PROVE ack = "ACK" /\ Binary!TxAcked
      OBVIOUS
    <3>1. Binary!TxAcked /\ semAck > 0
      BY <1>8 DEF Binary!TxTimeout, Binary!TxAcked
    <3>2. QED
      BY <3>1 DEF BinaryTurn
  <2>5. CASE tpc' = "send" /\ UNCHANGED <<current, offset>> /\ Late
    BY <1>3, <2>1, <2>2, <2>5 DEF SenderEnd
  <2>6. CASE tpc' = "send" /\ current' = current /\ offset' = offset + 1
    BY <1>3, <2>1, <2>2, <2>3, <2>6 DEF SenderEnd
  <2>7. CASE tpc' = "wait" /\ offset + 1 = length[current]
    <3>1. LastSent[1] = Taken /\ Ended(LastSent)
      BY <2>2, <2>7 DEF Ended
    <3>2. QED
      BY <1>3, <2>1, <2>7, <3>1 DEF SenderEnd
  <2>8. QED
    <3>1. offset # length[current]
      BY <2>2, <2>3
    <3>2. CASE Binary!Again /\ Late
      BY <2>1, <2>5, <3>1, <3>2 DEF Binary!Again, Binary!Return, Binary!Running
    <3>3. CASE Binary!TxAcked /\ ack = "ACK"
      BY <2>6, <2>7, <3>3 DEF Binary!TxAcked, Binary!Return
    <3>4. CASE Binary!TxAcked /\ ack # "ACK"
      BY <2>4, <3>2, <3>4 DEF Binary!TxAcked
    <3>5. CASE Binary!TxTimeout
      BY <3>2, <3>5 DEF Binary!TxTimeout
    <3>6. QED
      BY <1>8, <3>3, <3>4, <3>5
<1>9. CASE Binary!RxConsume
  <2>1. SentStream' /\ LastSent' = LastSent /\ ReceiverEnd' /\ StoredStream'
    BY <1>9, StreamReceive
  <2>2. UNCHANGED <<length, pktList, tpc, current, offset>> /\ Taken' = Taken
    BY <1>9 DEF Binary!RxConsume, Binary!sendVars, Binary!queueVars, Taken
  <2>3. Ended(LastSent)' <=> Ended(LastSent)
    BY <2>1, <2>2 DEF Ended
  <2>4. QED
    BY <2>1, <2>2, <2>3 DEF SenderEnd
<1>10. QED
  BY <1>5, <1>6, <1>7, <1>8, <1>9 DEF Binary!Next

\* Every step keeps the turn of the sender and of the receiver.
LEMMA BinaryTurnStep ==
  ASSUME Binary!TypeOK, BinaryTurn, SenderEnd, [Binary!Next]_(Binary!vars), Binary!Running'
  PROVE  BinaryTurn'
<1> SUFFICES ASSUME ~Late PROVE BinaryTurn'
  BY DEF BinaryTurn
<1>1. /\ Len(data) \in Nat /\ acks \in Nat /\ semAck \in Nat /\ data \in Seq(Binary!Packets)
      /\ Len(data) + acks + (IF apc = "post" THEN 1 ELSE 0) + semAck
           = (IF tpc = "ack" THEN 1 ELSE 0)
      /\ apc = "post" \/ semAck > 0 => ack = "ACK"
      /\ apc \in {"idle", "post"}
  BY DEF BinaryTurn, Binary!TypeOK
<1>2. ASSUME UNCHANGED <<data, acks, apc, semAck, ack>>, tpc' = "ack" <=> tpc = "ack"
      PROVE  BinaryTurn'
  BY <1>1, <1>2 DEF BinaryTurn
<1>3. CASE \/ \E c \in Callers : Binary!Queue(c) \/ Binary!Copy(c) \/ Binary!Post(c)
           \/ Binary!TxTake \/ Binary!Read \/ UNCHANGED Binary!vars
  BY <1>2, <1>3
     DEF Binary!Queue, Binary!Copy, Binary!Post, Binary!TxTake, Binary!Read, Binary!vars,
         Binary!sendVars, Binary!ackVars
<1>4. CASE Binary!TxSend
  <2>1. /\ tpc = "send" /\ tpc' = "ack" /\ UNCHANGED <<acks, apc, semAck>>
    BY <1>4 DEF Binary!TxSend
  <2>2. Len(data') = Len(data) + 1
    <3>1. PICK p : data' = Append(data, p)
      BY <1>4 DEF Binary!TxSend
    <3>2. QED
      BY <1>1, <3>1
  <2>3. QED
    BY <1>1, <2>1, <2>2 DEF BinaryTurn
<1>5. CASE Binary!TxAcked
  <2>1. /\ tpc = "ack" /\ semAck > 0 /\ semAck' = semAck - 1 /\ UNCHANGED <<data, acks, apc, ack>>
    BY <1>5 DEF Binary!TxAcked
  <2>2. tpc' # "ack"
    BY <1>1, <1>5, <2>1 DEF Binary!TxAcked, Binary!Return
  <2>3. QED
    BY <1>1, <2>1, <2>2 DEF BinaryTurn
<1>6. CASE Binary!AckStore \/ Binary!AckPost
  BY <1>1, <1>6
     DEF Binary!AckStore, Binary!AckPost, Binary!Acked, Binary!sendVars, BinaryTurn
<1>7. CASE Binary!RxConsume
  <2>1. Len(data') = Len(data) - 1
    BY <1>1, <1>7, TailIs DEF Binary!RxConsume
  <2>2. acks' = acks + 1
    BY <1>7 DEF Binary!RxConsume, Binary!Running
  <2>3. UNCHANGED <<tpc, apc, semAck, ack>>
    BY <1>7 DEF Binary!RxConsume, Binary!sendVars, Binary!ackVars
  <2>4. QED
    BY <1>1, <2>1, <2>2, <2>3 DEF BinaryTurn
<1>8. CASE Binary!TxTimeout
  BY <1>8 DEF Binary!TxTimeout
<1>9. QED
  BY <1>3, <1>4, <1>5, <1>6, <1>7, <1>8 DEF Binary!Next

\* The chunk is in the receiver's buffer, or on its way there.
IsThere(c) == \/ \E i \in 1..Len(stored) : stored[i] = c
              \/ \E i \in 1..Len(data) : data[i].chunk = c

\* The bytes that are counted are there: the property, byte by byte.
LEMMA CountedIsThere ==
  ASSUME Binary!TypeOK
  PROVE  Binary!CountedIsStored <=> (tpc # "wait" => \A n \in 1..offset : IsThere(<<current, n>>))
<1>1. DOMAIN stored = 1..Len(stored) /\ DOMAIN data = 1..Len(data)
  BY DEF Binary!TypeOK
<1>2. \A c : c \in Binary!StoredChunks <=> \E i \in 1..Len(stored) : stored[i] = c
  BY <1>1 DEF Binary!StoredChunks
<1>3. \A c : IsThere(c) <=> c \in Binary!StoredChunks \/ \E i \in DOMAIN data : data[i].chunk = c
  BY <1>1, <1>2 DEF IsThere
<1>4. QED
  BY <1>3 DEF Binary!CountedIsStored

\* What has been counted stays in the channel or in the buffer.
LEMMA CountedStep ==
  ASSUME Binary!TypeOK, BinarySender, NoWrap, NoResend, ~(Late /\ NoOverwrite), StoredStream,
         Binary!Running => BinaryQueue /\ SentStream /\ ReceiverEnd /\ SenderEnd /\ BinaryTurn,
         Binary!CountedIsStored, [Binary!Next]_(Binary!vars)
  PROVE  Binary!CountedIsStored'
<1>1. /\ data \in Seq(Binary!Packets) /\ stored \in Seq(Binary!Chunks)
      /\ data' \in Seq(Binary!Packets) /\ stored' \in Seq(Binary!Chunks) /\ offset \in Nat
  BY BinaryTypeStep DEF Binary!TypeOK
<1>2. tpc # "wait" => \A n \in 1..offset : IsThere(<<current, n>>)
  BY CountedIsThere
<1>3. ASSUME tpc' # "wait" => \A n \in 1..offset' : IsThere(<<current, n>>)'
      PROVE  Binary!CountedIsStored'
  <2>1. (Binary!CountedIsStored <=> (tpc # "wait" => \A n \in 1..offset : IsThere(<<current, n>>)))'
    BY BinaryTypeStep, CountedIsThere, PTL
  <2>2. QED
    BY <1>3, <2>1
<1>4. ASSUME \A c : IsThere(c) => IsThere(c)', UNCHANGED <<current, offset>>,
             tpc' # "wait" => tpc # "wait"
      PROVE  Binary!CountedIsStored'
  <2>1. ASSUME tpc' # "wait", NEW n \in 1..offset' PROVE IsThere(<<current, n>>)'
    <3>1. PICK c : c = <<current, n>>
      OBVIOUS
    <3>2. IsThere(c) /\ c = <<current', n>>
      BY <1>2, <1>4, <2>1, <3>1
    <3>3. QED
      BY <1>4, <3>2
  <2>2. QED
    BY <1>3, <2>1
<1>5. ASSUME UNCHANGED <<data, stored>> PROVE \A c : IsThere(c) => IsThere(c)'
  BY <1>5 DEF IsThere
<1>6. CASE \/ \E c \in Callers : Binary!Queue(c) \/ Binary!Copy(c) \/ Binary!Post(c)
           \/ Binary!AckStore \/ Binary!AckPost \/ Binary!Read \/ UNCHANGED Binary!vars
  <2>1. UNCHANGED <<data, stored, tpc, current, offset>>
    BY <1>6 DEF Binary!Queue, Binary!Copy, Binary!Post, Binary!AckStore, Binary!AckPost,
                Binary!Read, Binary!vars, Binary!recvVars, Binary!sendVars
  <2>2. QED
    BY <1>4, <1>5, <2>1
<1>7. CASE Binary!TxTake
  <2>1. tpc' = "wait" \/ offset' = 0
    BY <1>7 DEF Binary!TxTake, Binary!sendVars
  <2>2. QED
    BY <1>3, <2>1
<1>8. CASE Binary!TxSend
  <2>1. UNCHANGED <<stored, current, offset>> /\ tpc = "send" /\ \E p : data' = Append(data, p)
    BY <1>8 DEF Binary!TxSend, Binary!recvVars
  <2>2. \A i \in 1..Len(data) : data'[i] = data[i] /\ i \in 1..Len(data')
    BY <1>1, <2>1
  <2>3. \A c : IsThere(c) => IsThere(c)'
    BY <2>1, <2>2 DEF IsThere
  <2>4. QED
    BY <1>4, <2>1, <2>3
<1>9. CASE Binary!TxAcked \/ Binary!TxTimeout
  <2>1. UNCHANGED <<data, stored>> /\ tpc = "ack" /\ Binary!Running
    BY <1>9 DEF Binary!TxAcked, Binary!TxTimeout, Binary!recvVars
  <2>2. CASE tpc' = "wait"
    BY <1>3, <2>2
  <2>3. CASE UNCHANGED <<current, offset>>
    BY <1>4, <1>5, <2>1, <2>3
  <2>4. CASE current' = current /\ offset' = offset + 1
    <3>1. LastSent = <<current, offset + 1>> /\ current > 0
      BY <2>1 DEF SenderEnd, BinaryQueue
    <3>2. IsThere(LastSent)
      <4>1. CASE data # <<>>
        <5>1. Len(data) \in 1..Len(data)
          BY <1>1, <4>1
        <5>2. QED
          BY <4>1, <5>1 DEF LastSent, IsThere
      <4>2. CASE data = <<>> /\ stored # <<>>
        <5>1. Len(stored) \in 1..Len(stored)
          BY <1>1, <4>2
        <5>2. QED
          BY <4>2, <5>1 DEF LastSent, LastStored, IsThere
      <4>3. CASE data = <<>> /\ stored = <<>>
        BY <3>1, <4>3 DEF LastSent, LastStored
      <4>4. QED
        BY <4>1, <4>2, <4>3
    <3>3. \A n \in 1..offset' : n \in 1..offset \/ n = offset + 1
      BY <1>1, <2>4
    <3>4. QED
      BY <1>2, <1>3, <1>5, <2>1, <2>4, <3>1, <3>2, <3>3
  <2>5. QED
    BY <1>9, <2>2, <2>3, <2>4 DEF Binary!TxAcked, Binary!TxTimeout, Binary!Again, Binary!Return
<1>10. CASE Binary!RxConsume
  <2>1. UNCHANGED <<tpc, current, offset>> /\ Binary!Running /\ data # <<>>
    BY <1>10 DEF Binary!RxConsume, Binary!sendVars
  <2>2. /\ \A i \in 1..Len(stored) : stored'[i] = stored[i] /\ i \in 1..Len(stored')
        /\ \/ \E i \in 1..Len(stored') : stored'[i] = data[1].chunk
           \/ ~Binary!Running' /\ NoOverwrite
    BY <1>10, <2>1, StreamReceive
  <2>3. \A i \in 1..Len(data) : i = 1 \/ (i - 1 \in 1..Len(data') /\ data'[i - 1] = data[i])
    <3>1. /\ Len(data') = Len(data) - 1 /\ Len(data) \in Nat
          /\ \A i \in 1..Len(data') : data'[i] = data[i + 1]
      BY <1>1, <1>10, <2>1, TailIs DEF Binary!RxConsume
    <3>2. QED
      BY <3>1
  <2>4. CASE \E i \in 1..Len(stored') : stored'[i] = data[1].chunk
    <3>1. \A c : IsThere(c) => IsThere(c)'
      BY <2>2, <2>3, <2>4 DEF IsThere
    <3>2. QED
      BY <1>4, <2>1, <3>1
  \* Without timeouts only the chunk that is not counted yet is under way.
  <2>5. CASE ~Late
    <3>1. Len(data) = 1 /\ tpc = "ack"
      <4>1. /\ Len(data) \in Nat /\ Len(data) # 0 /\ acks \in Nat /\ semAck \in Nat
        BY <1>1, <2>1 DEF Binary!TypeOK
      <4>2. Len(data) + acks + (IF apc = "post" THEN 1 ELSE 0) + semAck
              = (IF tpc = "ack" THEN 1 ELSE 0)
        BY <2>1, <2>5 DEF BinaryTurn
      <4>3. PICK k \in 0..1 : k = IF apc = "post" THEN 1 ELSE 0
        OBVIOUS
      <4>4. CASE tpc = "ack"
        BY <4>1, <4>2, <4>3, <4>4
      <4>5. CASE tpc # "ack"
        <5>1. Len(data) + acks + k + semAck = 0
          BY <4>2, <4>3, <4>5
        <5>2. QED
          BY <4>1, <5>1
      <4>6. QED
        BY <4>4, <4>5
    <3>2. data[1].chunk = <<current, offset + 1>>
      BY <2>1, <3>1 DEF SenderEnd, LastSent
    <3>3. ASSUME NEW n \in 1..offset PROVE IsThere(<<current, n>>)'
      <4>1. PICK c : c = <<current, n>>
        OBVIOUS
      <4>2. c # data[1].chunk /\ IsThere(c) /\ c = <<current', n>>
        BY <1>1, <1>2, <2>1, <3>1, <3>2, <4>1
      <4>3. \A i \in 1..Len(data) : i = 1
        BY <3>1
      <4>4. \E i \in 1..Len(stored) : stored[i] = c
        BY <4>2, <4>3 DEF IsThere
      <4>5. QED
        BY <2>2, <4>2, <4>4 DEF IsThere
    <3>4. QED
      BY <1>3, <2>1, <3>3
  <2>6. QED
    BY <2>2, <2>4, <2>5
<1>11. QED
  BY <1>6, <1>7, <1>8, <1>9, <1>10 DEF Binary!Next

\* Every step of one caller keeps the copied buffers whole and in order.
LEMMA CopiedStep ==
  ASSUME Binary!TypeOK, OneCaller, BinaryQueue, BinaryCopied, [Binary!Next]_(Binary!vars),
         Binary!Running'
  PROVE  BinaryCopied'
<1>1. /\ Len(length) \in Nat /\ Len(pktList) \in Nat /\ semQueue \in Nat
      /\ pktList \in Seq(Binary!Buffers) /\ length \in Seq(Lengths)
      /\ cpc \in [Callers -> {"idle", "copy", "post"}]
      /\ cbuffer \in [Callers -> Binary!Buffers \cup {0}]
  BY DEF Binary!TypeOK
<1>2. ASSUME NEW c \in Callers, Binary!Queue(c) PROVE BinaryCopied'
  <2>1. \A x \in Callers : x = c /\ cpc[x] = "idle"
    BY <1>2 DEF OneCaller, Binary!Queue
  <2>2. semQueue = Len(pktList) /\ \A n \in 1..Len(length) : n \in copied
    BY <2>1 DEF BinaryCopied
  <2>3. Len(length') = Len(length) + 1
    <3>1. PICK n \in Lengths : length' = Append(length, n)
      BY <1>2 DEF Binary!Queue
    <3>2. QED
      BY <1>1, <3>1, AppendIs
  <2>4. Len(pktList') = Len(pktList) + 1
    <3>1. Len(length) + 1 \in Binary!Buffers
      BY <1>1, <1>2, BinaryAssumed DEF Binary!Queue, Binary!Buffers, Binary!BinaryAssumption
    <3>2. QED
      BY <1>1, <1>2, <3>1, AppendIs DEF Binary!Queue
  <2>5. semQueue' = semQueue /\ copied' = copied /\ cpc'[c] = "copy" /\ cbuffer'[c] = Len(length) + 1
    BY <1>1, <1>2 DEF Binary!Queue, Binary!Queued
  <2>6. \A n \in 1..Len(length') : n \in 1..Len(length) \/ n = Len(length) + 1
    BY <1>1, <2>3
  <2>7. semQueue' = Len(pktList') - 1
    BY <1>1, <2>2, <2>4, <2>5
  <2>8. QED
    BY <2>1, <2>2, <2>3, <2>5, <2>6, <2>7 DEF BinaryCopied
<1>3. ASSUME NEW c \in Callers, Binary!Copy(c) PROVE BinaryCopied'
  <2>1. /\ \A x \in Callers : x = c
        /\ cpc[c] = "copy" /\ cpc'[c] = "post" /\ copied' = copied \cup {cbuffer[c]}
        /\ UNCHANGED <<length, pktList, semQueue, cbuffer>>
    BY <1>1, <1>3 DEF OneCaller, Binary!Copy
  <2>2. semQueue = Len(pktList) - 1 /\ cbuffer[c] = Len(length)
    BY <2>1 DEF BinaryCopied
  <2>3. \A n \in 1..Len(length) : n \in copied'
    BY <2>1, <2>2 DEF BinaryCopied
  <2>4. QED
    BY <2>1, <2>2, <2>3 DEF BinaryCopied
<1>4. ASSUME NEW c \in Callers, Binary!Post(c) PROVE BinaryCopied'
  <2>1. /\ \A x \in Callers : x = c
        /\ cpc[c] = "post" /\ cpc'[c] = "idle" /\ semQueue' = semQueue + 1
        /\ UNCHANGED <<length, pktList, copied>>
    BY <1>1, <1>4 DEF OneCaller, Binary!Post
  <2>2. semQueue' = Len(pktList)
    BY <1>1, <2>1 DEF BinaryCopied
  <2>3. \A n \in 1..Len(length) : n \in copied
    BY <2>1 DEF BinaryCopied
  <2>4. QED
    BY <2>1, <2>2, <2>3 DEF BinaryCopied
<1>5. CASE Binary!TxTake
  <2>1. /\ pktList # <<>> /\ semQueue' = semQueue - 1 /\ pktList' = Tail(pktList)
        /\ UNCHANGED <<length, copied, cpc, cbuffer>>
    BY <1>5 DEF Binary!TxTake, Binary!Running
  <2>2. Len(pktList') = Len(pktList) - 1
    BY <1>1, <2>1, TailIs
  <2>3. /\ semQueue = Len(pktList) => semQueue' = Len(pktList')
        /\ semQueue = Len(pktList) - 1 => semQueue' = Len(pktList') - 1
    <3>1. semQueue' = semQueue - 1
      BY <2>1
    <3> HIDE <1>5
    <3>2. QED
      BY <1>1, <2>2, <3>1
  <2>4. QED
    BY <2>1, <2>3 DEF BinaryCopied
<1>6. CASE \/ Binary!TxSend \/ Binary!TxAcked \/ Binary!TxTimeout
           \/ Binary!AckStore \/ Binary!AckPost \/ Binary!RxConsume \/ Binary!Read
           \/ UNCHANGED Binary!vars
  <2>1. UNCHANGED <<length, copied, pktList, semQueue, cpc, cbuffer>>
    BY <1>6 DEF Binary!TxSend, Binary!TxAcked, Binary!TxTimeout, Binary!AckStore, Binary!AckPost,
                Binary!RxConsume, Binary!Read, Binary!vars, Binary!queueVars
  <2>2. QED
    BY <2>1 DEF BinaryCopied
<1>7. QED
  BY <1>2, <1>3, <1>4, <1>5, <1>6 DEF Binary!Next

\* Every step keeps the relation of what was sent to what is copied.
LEMMA SentCopiedStep ==
  ASSUME Binary!TypeOK, BinarySender, Binary!Running => BinaryQueue /\ BinaryCopied, SentCopied,
         [Binary!Next]_(Binary!vars)
  PROVE  SentCopied'
<1>1. data \in Seq(Binary!Packets) /\ Len(data) \in Nat
  BY DEF Binary!TypeOK
<1>2. CASE Binary!TxSend
  <2>1. current = Taken /\ current > 0 /\ tpc # "wait" /\ BinaryQueue /\ BinaryCopied
        /\ copied' = copied
    BY <1>2 DEF Binary!TxSend, BinaryQueue, Binary!queueVars
  <2>2. current \in copied
    <3>1. /\ current \in 1..Len(length) /\ semQueue \in Nat /\ Len(pktList) \in Nat
          /\ Len(length) \in Nat
      BY <2>1, CurrentLength DEF Binary!TypeOK
    <3>2. ASSUME NEW c \in Callers, cpc[c] = "copy" PROVE current # Len(length)
      <4>1. Len(pktList) > 0
        BY <2>1, <3>1, <3>2 DEF BinaryCopied
      <4>2. QED
        BY <2>1, <3>1, <4>1 DEF Taken
    <3>3. QED
      BY <2>1, <3>1, <3>2 DEF BinaryCopied
  <2>3. PICK p \in Binary!Packets : data' = Append(data, p) /\ p.chunk = <<current, offset + 1>>
    <3>1. <<current, offset + 1>> \in Binary!Chunks /\ lastPkt \in Binary!Numbers
      BY <2>1 DEF BinarySender, Binary!Chunks, Binary!TypeOK
    <3> DEFINE chunk == <<current, offset + 1>>
    <3>2. [hdr |-> IF offset + 1 < length[current] THEN "SOH" ELSE "EOT", pkt |-> lastPkt,
           chunk |-> chunk] \in Binary!Packets
      <4>1. chunk \in Binary!Chunks
        BY <3>1
      <4> HIDE DEF chunk
      <4>2. QED
        BY <3>1, <4>1 DEF Binary!Packets
    <3> HIDE DEF chunk
    <3>3. QED
      BY <1>2, <3>2 DEF Binary!TxSend, chunk
  <2>4. /\ \A i \in 1..Len(data') : i \in 1..Len(data) \/ i = Len(data) + 1
        /\ \A i \in 1..Len(data) : data'[i] = data[i]
        /\ data'[Len(data) + 1] = p
    BY <1>1, <2>3, AppendIs
  <2>5. p.chunk[1] = current
    BY <2>3
  <2>6. QED
    BY <2>1, <2>2, <2>4, <2>5 DEF SentCopied
<1>3. CASE Binary!RxConsume
  <2>1. /\ \A i \in 1..Len(data') : data'[i] = data[i + 1] /\ i + 1 \in 1..Len(data)
        /\ copied' = copied
    BY <1>1, <1>3, TailIs DEF Binary!RxConsume, Binary!queueVars
  <2>2. QED
    BY <2>1 DEF SentCopied
<1>4. CASE \/ \E c \in Callers : Binary!Queue(c) \/ Binary!Copy(c) \/ Binary!Post(c)
           \/ Binary!TxTake \/ Binary!TxAcked \/ Binary!TxTimeout
           \/ Binary!AckStore \/ Binary!AckPost \/ Binary!Read \/ UNCHANGED Binary!vars
  <2>1. data' = data
    BY <1>4 DEF Binary!Queue, Binary!Copy, Binary!Post, Binary!TxTake, Binary!TxAcked,
                Binary!TxTimeout, Binary!AckStore, Binary!AckPost, Binary!Read, Binary!vars
  <2>2. copied \subseteq copied'
    BY <1>4 DEF Binary!Queue, Binary!Copy, Binary!Post, Binary!TxTake, Binary!TxAcked,
                Binary!TxTimeout, Binary!AckStore, Binary!AckPost, Binary!Read, Binary!vars,
                Binary!queueVars
  <2>3. QED
    BY <2>1, <2>2 DEF SentCopied
<1>5. QED
  BY <1>2, <1>3, <1>4 DEF Binary!Next

\* The binary service starts in its invariant.
LEMMA BinaryInit == Binary!Init => BinaryInv
<1> SUFFICES ASSUME Binary!Init PROVE BinaryInv
  OBVIOUS
<1> USE DEF Binary!Init
<1>1. /\ length = <<>> /\ pktList = <<>> /\ data = <<>> /\ stored = <<>>
      /\ Len(length) = 0 /\ Len(pktList) = 0 /\ Len(data) = 0 /\ Len(stored) = 0
      /\ length \in Seq(Lengths) /\ pktList \in Seq(Binary!Buffers)
      /\ data \in Seq(Binary!Packets) /\ stored \in Seq(Binary!Chunks)
  OBVIOUS
<1>2. Binary!TypeOK
  <2>1. 0 \in Binary!Numbers /\ 0 \in 0..MaxRetry /\ 0 \in 0..Capacity
    BY BinaryAssumed DEF Binary!BinaryAssumption, Binary!Numbers
  <2>2. QED
    BY <1>1, <2>1 DEF Binary!TypeOK
<1>3. BinarySender
  BY DEF BinarySender
<1>4. StoredStream /\ SentStream /\ SentCopied
  BY <1>1 DEF StoredStream, SentStream, SentCopied
<1>5. BinaryQueue
  BY <1>1, BinaryAssumed DEF BinaryQueue, Binary!BinaryAssumption
<1>6. ReceiverEnd /\ SenderEnd
  BY <1>1 DEF ReceiverEnd, SenderEnd, LastSent, LastStored, Ended, Taken
<1>7. BinaryTurn
  BY <1>1 DEF BinaryTurn
<1>8. BinaryCopied
  BY <1>1 DEF BinaryCopied
<1>9. Binary!CountedIsStored
  BY DEF Binary!CountedIsStored
<1>10. QED
  BY <1>2, <1>3, <1>4, <1>5, <1>6, <1>7, <1>8, <1>9 DEF BinaryInv

\* The invariant of the binary service is inductive.
LEMMA BinaryStep == BinaryInv /\ [Binary!Next]_(Binary!vars) => BinaryInv'
<1> SUFFICES ASSUME BinaryInv, [Binary!Next]_(Binary!vars) PROVE BinaryInv'
  OBVIOUS
<1>1. Binary!TypeOK /\ BinarySender
  BY DEF BinaryInv
<1>2. Binary!TypeOK' /\ BinarySender'
  BY <1>1, BinaryTypeStep
<1> SUFFICES ASSUME NoWrap, NoResend
             PROVE  /\ StoredStream'
                    /\ (Binary!Running => /\ BinaryQueue /\ SentStream /\ ReceiverEnd /\ SenderEnd
                                          /\ BinaryTurn)'
                    /\ ~(Late /\ NoOverwrite) => Binary!CountedIsStored'
                    /\ OneCaller => (Binary!Running => BinaryCopied)' /\ SentCopied'
  BY <1>2 DEF BinaryInv
<1>3. /\ StoredStream
      /\ Binary!Running => BinaryQueue /\ SentStream /\ ReceiverEnd /\ SenderEnd /\ BinaryTurn
      /\ ~(Late /\ NoOverwrite) => Binary!CountedIsStored
      /\ OneCaller => (Binary!Running => BinaryCopied) /\ SentCopied
  BY DEF BinaryInv
<1>4. UNCHANGED Binary!vars \/ Binary!Running
  BY DEF Binary!Next, Binary!Queue, Binary!Copy, Binary!Post, Binary!TxTake, Binary!TxSend,
         Binary!TxAcked, Binary!TxTimeout, Binary!AckStore, Binary!AckPost, Binary!RxConsume,
         Binary!Read
<1>5. StoredStream'
  <2>1. CASE UNCHANGED Binary!vars
    BY <1>3, <2>1
       DEF StoredStream, IsChunk, Follows, Ended, Taken, Binary!vars, Binary!queueVars,
           Binary!recvVars
  <2>2. CASE Binary!Running /\ Binary!RxConsume
    BY <1>1, <1>3, <2>2, StreamReceive
  <2>3. CASE Binary!Running /\ stored' = stored
    BY <1>1, <1>3, <2>3, StreamKept
  <2>4. CASE ~Binary!RxConsume /\ ~UNCHANGED Binary!vars
    <3>1. stored' = stored
      BY <2>4 DEF Binary!Next, Binary!Queue, Binary!Copy, Binary!Post, Binary!TxTake,
         Binary!TxSend, Binary!TxAcked, Binary!TxTimeout, Binary!AckStore, Binary!AckPost,
         Binary!Read, Binary!recvVars
    <3>2. QED
      BY <1>4, <2>3, <2>4, <3>1
  <2>5. QED
    BY <1>4, <2>1, <2>2, <2>4
<1>6. ASSUME Binary!Running', Binary!Running
      PROVE  (BinaryQueue /\ SentStream /\ ReceiverEnd /\ SenderEnd /\ BinaryTurn)'
  BY <1>1, <1>3, <1>6, BinaryQueueStep, SenderEndStep, BinaryTurnStep
<1>7. Binary!Running' => Binary!Running
  BY <1>4 DEF Binary!Running, Binary!vars
<1>8. ~(Late /\ NoOverwrite) => Binary!CountedIsStored'
  BY <1>1, <1>3, CountedStep
<1>9. OneCaller => (Binary!Running => BinaryCopied)' /\ SentCopied'
  <2> SUFFICES ASSUME OneCaller PROVE (Binary!Running => BinaryCopied)' /\ SentCopied'
    OBVIOUS
  <2>1. Binary!Running' => BinaryCopied'
    BY <1>1, <1>3, <1>7, CopiedStep
  <2>2. SentCopied'
    BY <1>1, <1>3, SentCopiedStep
  <2>3. QED
    BY <2>1, <2>2
<1>10. QED
  BY <1>5, <1>6, <1>7, <1>8, <1>9

\* A step of the services is a step of the binary service or leaves it alone.
LEMMA BinaryMoves == [Next]_vars => [Binary!Next]_(Binary!vars)
  BY DEF Next, BinaryNext, RpcNext, SerialNext, EndpointNext, vars, binaryVars,
         Binary!vars, Binary!queueVars, Binary!sendVars, Binary!ackVars, Binary!recvVars

\* The binary service keeps its inductive invariant beside the other services: the fragments
\* under way continue what the receiver has stored (ivshmem-binary.c).
THEOREM BinaryInvariant == Spec => []BinaryInv
<1>1. Init => BinaryInv
  BY BinaryInit DEF Init
<1>2. BinaryInv /\ [Next]_vars => BinaryInv'
  BY BinaryStep, BinaryMoves
<1>3. QED
  BY <1>1, <1>2, PTL DEF Spec

(***************************************************************************)
(* The receiver stores the buffers in the order in which they were queued, *)
(* chunk after chunk, and a chunk is sent once its payload was copied: for *)
(* buffers of fewer than PktWrap chunks, of more than one if an answer can *)
(* be late, and one caller of cipc_write_buf.                              *)
(***************************************************************************)
THEOREM ServicesInOrder == NoWrap /\ NoResend /\ OneCaller => (Spec => []InOrder)
<1> SUFFICES ASSUME NoWrap, NoResend, OneCaller PROVE Spec => []InOrder
  OBVIOUS
<1>1. BinaryInv => InOrder
  <2> SUFFICES ASSUME BinaryInv PROVE Binary!InOrder
    BY DEF InOrder
  <2>1. /\ StoredStream /\ SentCopied /\ DOMAIN stored = 1..Len(stored) /\ Len(stored) \in Nat
        /\ DOMAIN data = 1..Len(data) /\ stored \in Seq(Binary!Chunks)
    BY DEF BinaryInv, Binary!TypeOK
  <2>2. ASSUME NEW i \in 1..Len(stored)
        PROVE  IF i = 1 THEN stored[i][1] = 1 /\ stored[i][2] = 1
               ELSE \/ stored[i - 1] = <<stored[i][1], stored[i][2] - 1>>
                    \/ /\ stored[i][2] = 1 /\ stored[i][1] > 1
                       /\ stored[i - 1] = <<stored[i][1] - 1, length[stored[i][1] - 1]>>
    <3>1. CASE i = 1
      BY <2>1, <3>1 DEF StoredStream
    <3>2. CASE i # 1
      <4>1. i - 1 \in 1..Len(stored) - 1 /\ (i - 1) + 1 = i /\ i - 1 \in 1..Len(stored)
        BY <2>1, <3>2
      <4>2. Follows(stored[i - 1], stored[i]) /\ IsChunk(stored[i - 1])
        BY <2>1, <4>1 DEF StoredStream
      <4>3. PICK b \in Nat, n \in Nat : stored[i - 1] = <<b, n>> /\ b # 0
        <5>1. stored[i - 1] \in Binary!Chunks
          BY <2>1, <4>1, EntriesAre
        <5>2. PICK b \in Binary!Buffers, n \in Nat : stored[i - 1] = <<b, n>>
          BY <5>1 DEF Binary!Chunks
        <5>3. b \in Nat /\ b # 0
          BY BinaryAssumed DEF Binary!Buffers, Binary!BinaryAssumption
        <5>4. QED
          BY <5>2, <5>3
      <4>4. CASE n = length[b]
        <5>1. stored[i] = <<b + 1, 1>>
          BY <4>2, <4>3, <4>4 DEF Follows, Ended
        <5>2. stored[i][1] = b + 1 /\ stored[i][2] = 1
          BY <5>1
        <5>3. b + 1 > 1 /\ (b + 1) - 1 = b
          BY <4>3
        <5>4. stored[i - 1] = <<(b + 1) - 1, length[(b + 1) - 1]>>
          BY <4>3, <4>4, <5>3
        <5> HIDE <5>1
        <5>5. QED
          BY <3>2, <5>2, <5>3, <5>4
      <4>5. CASE n # length[b]
        <5>1. stored[i] = <<b, n + 1>>
          BY <4>2, <4>3, <4>5 DEF Follows, Ended
        <5>2. QED
          BY <3>2, <4>3, <5>1
      <4>6. QED
        BY <4>4, <4>5
    <3>3. QED
      BY <3>1, <3>2
  <2>3. QED
    BY <2>1, <2>2 DEF Binary!InOrder, SentCopied
<1>2. QED
  BY <1>1, BinaryInvariant, PTL

(***************************************************************************)
(* What the sender has counted as sent is in the receiver's buffer, or on  *)
(* its way there, whatever acknowledgements are late: for the same         *)
(* buffers, and an endpoint that overwrites its oldest data (or answers    *)
(* that come in time).                                                     *)
(***************************************************************************)
THEOREM ServicesCounted ==
  NoWrap /\ NoResend /\ ~(Late /\ NoOverwrite) => (Spec => []CountedIsStored)
<1> SUFFICES ASSUME NoWrap, NoResend, ~(Late /\ NoOverwrite) PROVE Spec => []CountedIsStored
  OBVIOUS
<1>1. BinaryInv => CountedIsStored
  BY DEF BinaryInv, CountedIsStored
<1>2. QED
  BY <1>1, BinaryInvariant, PTL

-----------------------------------------------------------------------------
(***************************************************************************)
(* The endpoint                                                            *)
(***************************************************************************)

\* The cells of a packet lie one behind the other, and a packet behind the
\* last cell of the one before.
CellsInOrder ==
    /\ \A i \in 1..Len(ring) : ring[i].pos \in 1..ring[i].len
    /\ ring # <<>> => ring[1].pos = 1
    /\ \A i \in 1..Len(ring) - 1 : ring[i].pos = ring[i].len => ring[i + 1].pos = 1
    /\ \A i \in 1..Len(ring) : \A j \in i..Len(ring) :
         ring[i].pos = 1 /\ j - i < ring[i].len =>
           ring[j].pos = j - i + 1 /\ ring[j].len = ring[i].len

\* The last cell is that of a packet, but for the part of a packet that is
\* being pushed.
Partly == ppc = "write" /\ pushLeft < plen

LastCell ==
    /\ ppc = "write" => plen \in Lens /\ pushLeft \in 1..plen
    /\ Partly => ring # <<>>
    /\ ring # <<>> =>
         IF Partly THEN ring[Len(ring)].pos = plen - pushLeft /\ ring[Len(ring)].len = plen
         ELSE ring[Len(ring)].pos = ring[Len(ring)].len

\* Counts of the semaphore, and what was taken or will be posted
Counts == sem + (IF endpointPc \in {"peek", "read"} THEN 1 ELSE 0) + (IF ppc = "post" THEN 1 ELSE 0)

\* f enumerates the ends of the n complete packets, which are numbered on
\* from got.
Enumerates(f, n) ==
    /\ f \in [1..n -> 1..Len(ring)]
    /\ \A i \in 1..n : ring[f[i]].pos = ring[f[i]].len
    /\ \A i \in 1..n : ring[f[i]].pkt = (got + i - 1) % Wrap
    /\ \A i, j \in 1..n : i < j => f[i] < f[j]
    /\ \A e \in 1..Len(ring) : ring[e].pos = ring[e].len => \E i \in 1..n : f[i] = e

Enumerated ==
    \E n \in 0..Credit : \E f \in [1..n -> 1..Len(ring)] :
        /\ Enumerates(f, n)
        /\ sent = (got + n) % Wrap
        /\ ppc = "write" => n < Credit
        /\ alive => Counts =< n

EndpointMemory ==
    /\ exists => alive
    /\ ppc # "idle" => alive
    /\ ppc = "free" => ~exists
    /\ ~alive => ring = <<>> /\ sent = 0 /\ got = 0
    /\ Endpoint!Linux /\ ~alive => endpointPc \in {"none", "gone"}
    /\ alive /\ endpointPc = "read" => ring # <<>> /\ rest = ring[1].len
    /\ endpointFailed # "bad_packet"
    /\ Endpoint!Linux => endpointFailed # "freed"

EndpointInv ==
    /\ Endpoint!TypeOK
    /\ CellsInOrder /\ LastCell /\ Enumerated /\ EndpointMemory

\* Frame numbers
LEMMA Modulo ==
  ASSUME NEW W \in Nat, NEW x \in Int
  PROVE  /\ W > 0 => x % W \in 0..W - 1
         /\ 0 =< x /\ x < W => x % W = x
         /\ W > 0 /\ W =< x /\ x < 2 * W => x % W = x - W
         /\ W > 0 /\ x < 0 /\ -W =< x => x % W = x + W
  OBVIOUS

\* Numbers of W values that follow each other, on from x.
LEMMA Numbering ==
  ASSUME NEW W \in Nat, NEW x \in 0..W - 1, NEW n \in 0..W - 1
  PROVE  /\ (((x + n) % W) + 1) % W = (x + n + 1) % W
         /\ (((x + n) % W) - x) % W = n
         /\ n > 0 => (x + n) % W = (((x + 1) % W) + (n - 1)) % W
<1>1. \A y \in 0..2 * W - 1 : y % W = IF y < W THEN y ELSE y - W
  <2> TAKE y \in 0..2 * W - 1
  <2>1. y \in Int /\ 0 =< y /\ y < 2 * W /\ W > 0
    OBVIOUS
  <2>2. QED
    BY <2>1, Modulo
<1>2. PICK z \in 0..2 * W - 1 : z = x + n /\ z + 1 \in 0..2 * W - 1
  OBVIOUS
<1>3. PICK r \in 0..W - 1 : r = z % W /\ r = IF z < W THEN z ELSE z - W
  BY <1>1
<1>4. (r + 1) % W = (z + 1) % W
  <2>1. (z + 1) % W = IF z + 1 < W THEN z + 1 ELSE z + 1 - W
    <3>1. z + 1 \in 0..2 * W - 1
      BY <1>2
    <3>2. QED
      BY <1>1, <3>1
  <2>2. r + 1 \in 0..2 * W - 1
    OBVIOUS
  <2>3. (r + 1) % W = IF r + 1 < W THEN r + 1 ELSE r + 1 - W
    BY <1>1, <2>2
  <2>4. QED
    BY <1>2, <1>3, <2>1, <2>3
<1>5. (r - x) % W = n
  <2>1. PICK y \in Int : y = r - x /\ -W =< y /\ y < W
    OBVIOUS
  <2>2. y % W = IF y < 0 THEN y + W ELSE y
    <3>1. W > 0
      OBVIOUS
    <3>2. CASE y < 0
      BY <2>1, <3>1, <3>2, Modulo
    <3>3. CASE 0 =< y
      <4>1. y \in 0..2 * W - 1 /\ y < W
        BY <2>1, <3>3
      <4>2. y % W = y
        BY <1>1, <4>1
      <4>3. QED
        BY <3>3, <4>2
    <3>4. QED
      BY <2>1, <3>2, <3>3
  <2>3. QED
    BY <1>2, <1>3, <2>1, <2>2
<1>6. ASSUME n > 0 PROVE r = (((x + 1) % W) + (n - 1)) % W
  <2>1. x + 1 \in 0..2 * W - 1
    OBVIOUS
  <2>2. PICK y \in 0..W - 1 : y = (x + 1) % W /\ y = IF x + 1 < W THEN x + 1 ELSE x + 1 - W
    BY <1>1, <2>1
  <2>3. y + (n - 1) \in 0..2 * W - 1
    BY <1>6
  <2>4. (y + (n - 1)) % W = IF y + (n - 1) < W THEN y + (n - 1) ELSE y + (n - 1) - W
    BY <1>1, <2>3
  <2>5. r = (y + (n - 1)) % W
    BY <1>2, <1>3, <2>2, <2>4
  <2>6. QED
    BY <2>2, <2>5
<1>7. x + n + 1 = z + 1
  BY <1>2
<1>8. QED
  BY <1>2, <1>3, <1>4, <1>5, <1>6, <1>7

\* What the endpoint needs of its constants is assumed of them.
LEMMA EndpointAssumed ==
  /\ Lens \subseteq 1..BufSize - 1 /\ BufSize \in Nat /\ BufSize > 0
  /\ Credit \in Nat /\ Wrap \in Nat /\ Credit < Wrap /\ MaxCycles \in Nat
  /\ Builds \subseteq {"LK", "permissive", "Linux"}
  BY ServicesAssumption DEF ServicesAssumption, Endpoint!EndpointAssumption

\* What cbuf_write does
LEMMA PartWritten ==
  ASSUME Endpoint!TypeOK, LastCell, Endpoint!PushWrite, endpointFailed' = "none"
  PROVE  \E n \in 1..pushLeft :
           /\ ring' \in Seq(Endpoint!CellType) /\ Len(ring') =< capacity' /\ capacity' \in Nat
           /\ Len(ring) \in Nat /\ Len(ring') = Len(ring) + n
           /\ \A i \in 1..Len(ring) : ring'[i] = ring[i]
           /\ \A i \in 1..n : /\ ring'[Len(ring) + i].pkt = sent
                              /\ ring'[Len(ring) + i].pos = plen - pushLeft + i
                              /\ ring'[Len(ring) + i].len = plen
           /\ pushLeft' = pushLeft - n
           /\ IF pushLeft' = 0 THEN ppc' = "post" /\ sent' = (sent + 1) % Wrap /\ plen' = 0
                               ELSE UNCHANGED <<ppc, sent, plen>>
<1> DEFINE n == Endpoint!Fitting(pushLeft)
<1>1. /\ plen \in Lens /\ pushLeft \in 1..plen /\ plen \in 1..BufSize - 1
      /\ Len(ring) \in Nat /\ capacity \in Nat /\ Len(ring) =< capacity
      /\ ring \in Seq(Endpoint!CellType) /\ sent \in 0..Wrap - 1
  BY EndpointAssumed DEF Endpoint!TypeOK, LastCell, Endpoint!PushWrite
<1>2. Endpoint!Room \in Nat /\ Endpoint!Room >= Len(ring)
  BY <1>1 DEF Endpoint!Room
<1>3. n \in 0..pushLeft /\ Len(ring) + n =< Endpoint!Room
  BY <1>1, <1>2 DEF Endpoint!Fitting
<1>4. n # 0
  BY DEF Endpoint!PushWrite
<1>5. /\ capacity' = Endpoint!Room /\ ring' = ring \o Endpoint!Cells(n)
      /\ pushLeft' = pushLeft - n
      /\ IF pushLeft - n = 0 THEN ppc' = "post" /\ sent' = (sent + 1) % Wrap /\ plen' = 0
                             ELSE UNCHANGED <<ppc, sent, plen>>
  BY <1>4 DEF Endpoint!PushWrite, Endpoint!Left
<1> HIDE DEF n
<1>6. \A i \in 1..n : [pkt |-> sent, pos |-> plen - pushLeft + i, len |-> plen] \in Endpoint!CellType
  <2> TAKE i \in 1..n
  <2>1. plen - pushLeft + i \in 1..BufSize
    BY <1>1, <1>3, EndpointAssumed
  <2>2. QED
    BY <1>1, <2>1 DEF Endpoint!CellType
<1>7. /\ Endpoint!Cells(n) \in Seq(Endpoint!CellType) /\ Len(Endpoint!Cells(n)) = n
      /\ \A i \in 1..n : Endpoint!Cells(n)[i] = [pkt |-> sent, pos |-> plen - pushLeft + i, len |-> plen]
  BY <1>3, <1>6 DEF Endpoint!Cells
<1>8. PICK t \in Seq(Endpoint!CellType) : t = Endpoint!Cells(n)
  BY <1>7
<1>9. /\ ring' \in Seq(Endpoint!CellType) /\ Len(ring') = Len(ring) + n
      /\ \A i \in 1..Len(ring') : ring'[i] = IF i =< Len(ring) THEN ring[i] ELSE t[i - Len(ring)]
  BY <1>1, <1>5, <1>7, <1>8, ConcatProperties
<1>10. \A i \in 1..Len(ring) : ring'[i] = ring[i]
  <2>1. \A i \in 1..Len(ring) : i \in 1..Len(ring') /\ i =< Len(ring)
    BY <1>1, <1>3, <1>9
  <2>2. QED
    BY <1>9, <2>1
<1>11. ASSUME NEW i \in 1..n PROVE ring'[Len(ring) + i] = [pkt |-> sent, pos |-> plen - pushLeft + i, len |-> plen]
  <2>1. Len(ring) + i \in 1..Len(ring') /\ ~(Len(ring) + i =< Len(ring)) /\ (Len(ring) + i) - Len(ring) = i
    BY <1>1, <1>3, <1>9
  <2>2. ring'[Len(ring) + i] = t[i]
    BY <1>9, <2>1
  <2>3. QED
    BY <1>7, <1>8, <2>2
<1>12. n \in 1..pushLeft /\ Len(ring') =< capacity' /\ capacity' \in Nat
  BY <1>1, <1>2, <1>3, <1>4, <1>5, <1>9
<1>13. \A i \in 1..n : /\ ring'[Len(ring) + i].pkt = sent
                       /\ ring'[Len(ring) + i].pos = plen - pushLeft + i
                       /\ ring'[Len(ring) + i].len = plen
  <2> TAKE i \in 1..n
  <2>1. PICK x : x = plen - pushLeft + i
    OBVIOUS
  <2>2. ring'[Len(ring) + i] = [pkt |-> sent, pos |-> x, len |-> plen]
    BY <1>11, <2>1
  <2>3. QED
    BY <2>1, <2>2
<1>14. QED
  BY <1>1, <1>5, <1>9, <1>10, <1>12, <1>13

\* A packet is complete in the buffer when it is counted, and comes first.
LEMMA FirstIsWhole ==
  ASSUME Endpoint!TypeOK, CellsInOrder, ring # <<>>,
         NEW n \in Nat, n > 0, NEW f, Enumerates(f, n)
  PROVE  ring[1].len \in 1..Len(ring) /\ f[1] = ring[1].len /\ Len(ring) \in Nat
<1> DEFINE L == ring[1].len
<1>1. /\ Len(ring) \in Nat /\ 1 \in 1..Len(ring)
      /\ L \in Lens /\ L \in Nat /\ L >= 1 /\ ring[1].pos = 1
  <2>1. 1 \in 1..Len(ring) /\ ring[1] \in Endpoint!CellType /\ Len(ring) \in Nat
    BY DEF Endpoint!TypeOK
  <2>2. ring[1].len \in Lens /\ ring[1].pos = 1
    BY <2>1 DEF Endpoint!CellType, CellsInOrder
  <2>3. ring[1].len \in Nat /\ ring[1].len >= 1
    <3>1. ring[1].len \in 1..BufSize - 1
      BY <2>2, EndpointAssumed
    <3>2. QED
      BY <3>1, EndpointAssumed
  <2>4. QED
    BY <2>1, <2>2, <2>3
<1>2. /\ \A j \in 1..Len(ring) : j - 1 < L => ring[j].pos = j - 1 + 1 /\ ring[j].len = L
  BY <1>1 DEF CellsInOrder
<1> HIDE DEF L
<1>3. 1 \in 1..n /\ f[1] \in 1..Len(ring) /\ ring[f[1]].pos = ring[f[1]].len
  BY DEF Enumerates
<1>4. ~(f[1] < L)
  <2> SUFFICES ASSUME f[1] < L PROVE FALSE
    OBVIOUS
  <2>1. f[1] - 1 < L
    BY <1>1, <1>3
  <2>2. ring[f[1]].pos = f[1] - 1 + 1 /\ ring[f[1]].len = L
    BY <1>2, <1>3, <2>1
  <2>3. f[1] - 1 + 1 = f[1] /\ f[1] # L
    BY <1>1, <1>3
  <2>4. QED
    BY <1>3, <2>2, <2>3
<1>5. L \in 1..Len(ring)
  BY <1>1, <1>3, <1>4
<1>6. ring[L].pos = ring[L].len
  <2>1. L - 1 < L /\ L - 1 + 1 = L
    BY <1>1
  <2>2. QED
    BY <1>2, <1>5, <2>1
<1>7. PICK i \in 1..n : f[i] = L
  BY <1>5, <1>6 DEF Enumerates
<1>8. i = 1
  <2>1. 1 < i => f[1] < f[i]
    BY <1>3 DEF Enumerates
  <2>2. QED
    BY <1>4, <1>7, <2>1
<1>9. QED
  BY <1>1, <1>5, <1>7, <1>8 DEF L

\* What cbuf_read does: a packet that is counted is read at once.
LEMMA PacketRead ==
  ASSUME EndpointInv, Endpoint!ThreadRead
  PROVE  /\ ring # <<>> /\ rest = ring[1].len /\ rest \in 1..Len(ring) /\ Len(ring) \in Nat
         /\ ring' \in Seq(Endpoint!CellType) /\ Len(ring') = Len(ring) - rest
         /\ \A i \in 1..Len(ring') : /\ ring'[i] = ring[i + rest]
                                     /\ i + rest \in 1..Len(ring)
         /\ rest' = 0 /\ endpointPc' = "consume" /\ got' = (got + 1) % Wrap
<1>1. Endpoint!TypeOK /\ CellsInOrder /\ ring # <<>> /\ rest = ring[1].len /\ alive
  BY DEF EndpointInv, EndpointMemory, Endpoint!ThreadRead
<1>n. PICK n \in Nat : n > 0 /\ \E f : Enumerates(f, n)
  <2>1. PICK n \in 0..Credit : Counts =< n /\ \E f : Enumerates(f, n)
    BY <1>1 DEF EndpointInv, Enumerated
  <2>2. Counts >= 1
    <3>1. endpointPc = "read" /\ sem \in Nat
      BY <1>1 DEF Endpoint!TypeOK, Endpoint!ThreadRead
    <3> HIDE <1>1
    <3>2. QED
      BY <3>1 DEF Counts
  <2>3. n > 0 /\ n \in Nat
    <3>1. Counts \in Int
      BY <1>1 DEF Counts, Endpoint!TypeOK
    <3>2. QED
      BY <2>1, <2>2, <3>1, EndpointAssumed
  <2>4. QED
    BY <2>1, <2>3
<1>2. PICK f : n \in Nat /\ n > 0 /\ Enumerates(f, n)
  BY <1>n
<1>3. rest \in 1..Len(ring) /\ Len(ring) \in Nat
  BY <1>1, <1>2, FirstIsWhole
<1>4. (IF Len(ring) < rest THEN Len(ring) ELSE rest) = rest
  BY <1>3
<1>5. /\ ring' = SubSeq(ring, rest + 1, Len(ring)) /\ rest' = rest - rest
      /\ endpointPc' = "consume" /\ got' = (got + 1) % Wrap
  BY <1>4 DEF Endpoint!ThreadRead
<1>6. ring \in Seq(Endpoint!CellType)
  BY <1>1 DEF Endpoint!TypeOK
<1>7. /\ ring' \in Seq(Endpoint!CellType) /\ Len(ring') = Len(ring) - rest
      /\ \A i \in 1..Len(ring') : /\ ring'[i] = ring[i + rest]
                                  /\ i + rest \in 1..Len(ring)
  <2> DEFINE m == rest + 1
             s == ring'
  <2>1. m \in 1..Len(ring) + 1 /\ Len(ring) \in 0..Len(ring)
    BY <1>3
  <2>2. /\ SubSeq(ring, m, Len(ring)) \in Seq(Endpoint!CellType)
        /\ Len(SubSeq(ring, m, Len(ring))) = IF m <= Len(ring) THEN Len(ring) - m + 1 ELSE 0
        /\ \A i \in 1..Len(ring) - m + 1 : SubSeq(ring, m, Len(ring))[i] = ring[m + i - 1]
    <3> HIDE DEF m
    <3>1. \A i \in m..Len(ring) : ring[i] \in Endpoint!CellType
      BY <1>6, <2>1, EntriesAre
    <3>2. QED
      BY <1>6, <2>1, <3>1, SubSeqProperties
  <2>3. Len(ring') = Len(ring) - rest
    BY <1>3, <1>5, <2>2
  <2>4. ASSUME NEW i \in 1..Len(ring') PROVE ring'[i] = ring[i + rest] /\ i + rest \in 1..Len(ring)
    <3>1. i \in 1..Len(ring) - m + 1 /\ m + i - 1 = i + rest /\ i + rest \in 1..Len(ring)
      BY <1>3, <2>3
    <3>2. QED
      BY <1>5, <2>2, <3>1
  <2>5. QED
    BY <1>5, <2>2, <2>3, <2>4
<1>8. QED
  BY <1>1, <1>3, <1>5, <1>7

\* A message with its end fits in the buffer and leaves a byte of it.
LEMMA LensAre == BufSize \in Nat /\ \A n \in Lens : n \in Nat /\ 1 =< n /\ n < BufSize
  BY EndpointAssumed

\* A whole message is pushed after the ones that are in the buffer, and keeps their order.
LEMMA CellsPushed ==
  ASSUME EndpointInv, Endpoint!PushWrite, endpointFailed' = "none"
  PROVE  CellsInOrder' /\ LastCell'
<1>1. Endpoint!TypeOK /\ CellsInOrder /\ LastCell /\ ppc = "write"
  BY DEF EndpointInv, Endpoint!PushWrite
<1>2. PICK n \in 1..pushLeft :
           /\ Len(ring) \in Nat /\ Len(ring') = Len(ring) + n
           /\ \A i \in 1..Len(ring) : ring'[i] = ring[i]
           /\ \A i \in 1..n : /\ ring'[Len(ring) + i].pos = plen - pushLeft + i
                              /\ ring'[Len(ring) + i].len = plen
           /\ pushLeft' = pushLeft - n
           /\ IF pushLeft' = 0 THEN ppc' = "post" /\ plen' = 0 ELSE UNCHANGED <<ppc, plen>>
  BY <1>1, PartWritten
<1>3. PICK len \in Nat : len = Len(ring)
  BY <1>2
<1>4. /\ plen \in Nat /\ pushLeft \in 1..plen /\ plen \in Lens
      /\ pushLeft < plen => ring # <<>> /\ ring[len].pos = plen - pushLeft /\ ring[len].len = plen
      /\ ring # <<>> /\ pushLeft = plen => ring[len].pos = ring[len].len
      /\ ring # <<>> => len > 0
      /\ len > 0 => ring # <<>>
  <2>1. plen \in Lens /\ pushLeft \in 1..plen /\ plen \in Nat
    BY <1>1, LensAre DEF LastCell
  <2>2. ring # <<>> <=> len > 0
    BY <1>1, <1>3 DEF Endpoint!TypeOK
  <2>3. Partly <=> pushLeft < plen
    BY <1>1 DEF Partly
  <2>4. QED
    BY <1>1, <1>3, <2>1, <2>2, <2>3 DEF LastCell
<1>5. /\ \A i \in 1..Len(ring') : i \in 1..len \/ i - len \in 1..n
      /\ \A i \in 1..len : ring'[i] = ring[i] /\ i \in 1..Len(ring')
      /\ \A i \in 1..n : ring'[len + i].pos = plen - pushLeft + i /\ ring'[len + i].len = plen
      /\ Len(ring') = len + n /\ n \in Nat /\ n =< pushLeft /\ n >= 1
  BY <1>2, <1>3, <1>4
<1>6. ASSUME NEW i \in 1..Len(ring'), i \notin 1..len
      PROVE  i - len \in 1..n /\ ring'[i].pos = plen - pushLeft + (i - len) /\ ring'[i].len = plen
  <2>1. i - len \in 1..n /\ len + (i - len) = i
    BY <1>5, <1>6
  <2>2. QED
    BY <1>5, <2>1
<1>7. /\ \A i \in 1..len : ring[i].pos \in 1..ring[i].len
      /\ len > 0 => ring[1].pos = 1
      /\ \A i \in 1..len - 1 : ring[i].pos = ring[i].len => ring[i + 1].pos = 1
      /\ \A i \in 1..len : \A j \in i..len :
          ring[i].pos = 1 /\ j - i < ring[i].len => ring[j].pos = j - i + 1 /\ ring[j].len = ring[i].len
      /\ \A i \in 1..len : ring[i].len \in Nat
  <2>1. \A i \in 1..len : ring[i].len \in Nat
    <3>1. \A i \in 1..len : ring[i] \in Endpoint!CellType
      BY <1>1, <1>3, EntriesAre DEF Endpoint!TypeOK
    <3>2. QED
      BY <3>1, LensAre DEF Endpoint!CellType
  <2>2. QED
    BY <1>1, <1>3, <1>4, <2>1 DEF CellsInOrder
<1>8. \A i \in 1..Len(ring') : ring'[i].pos \in 1..ring'[i].len
  <2> TAKE i \in 1..Len(ring')
  <2>1. CASE i \in 1..len
    BY <1>5, <1>7, <2>1
  <2>2. CASE i \notin 1..len
    BY <1>4, <1>5, <1>6, <2>2
  <2>3. QED
    BY <2>1, <2>2
<1>9. ring'[1].pos = 1
  <2>1. CASE len > 0
    BY <1>5, <1>7, <2>1
  <2>2. CASE len = 0
    BY <1>4, <1>5, <2>2
  <2>3. QED
    BY <2>1, <2>2
<1>10. ASSUME NEW i \in 1..Len(ring') - 1, ring'[i].pos = ring'[i].len PROVE ring'[i + 1].pos = 1
  <2>1. i \in 1..Len(ring') /\ i + 1 \in 1..Len(ring') /\ i \in Nat
    BY <1>5
  <2>2. CASE i \in 1..len /\ i + 1 \in 1..len
    BY <1>5, <1>7, <1>10, <2>2
  <2>3. CASE i = len /\ len > 0
    <3>1. ring[len].pos = ring[len].len
      BY <1>5, <1>10, <2>3
    <3>2. pushLeft = plen
      BY <1>4, <3>1
    <3>3. QED
      BY <1>4, <1>5, <2>3, <3>2
  <2>4. CASE i \notin 1..len
    <3>1. plen - pushLeft + (i - len) = plen /\ i - len \in 1..n
      BY <1>6, <1>10, <2>1, <2>4
    <3>2. i + 1 - len \in 1..n
      BY <1>5, <2>1, <3>1
    <3>3. PICK k \in 1..n : k = i - len /\ k + 1 \in 1..n
      BY <1>3, <1>5, <2>1, <3>1, <3>2
    <3>4. plen - pushLeft + k # plen
      BY <1>4, <1>5, <3>3
    <3>5. QED
      BY <3>1, <3>3, <3>4
  <2>5. QED
    BY <2>1, <2>2, <2>3, <2>4
<1>11. ASSUME NEW i \in 1..Len(ring'), NEW j \in i..Len(ring'), ring'[i].pos = 1, j - i < ring'[i].len
       PROVE  ring'[j].pos = j - i + 1 /\ ring'[j].len = ring'[i].len
  <2>1. j \in 1..Len(ring') /\ i \in Nat /\ j \in Nat
    BY <1>5
  <2>2. CASE j \in 1..len
    <3>1. i \in 1..len /\ j \in i..len
      BY <1>5, <2>2
    <3>2. ring'[i] = ring[i] /\ ring'[j] = ring[j]
      BY <1>5, <2>2, <3>1
    <3>3. QED
      BY <1>7, <1>11, <3>1, <3>2
  <2>3. CASE i \in 1..len /\ j \notin 1..len
    <3>1. len \in i..len /\ len - i < ring[i].len /\ len > 0 /\ ring[i].pos = 1
      BY <1>5, <1>7, <1>11, <2>1, <2>3
    <3>2. ring[len].pos = len - i + 1 /\ ring[len].len = ring[i].len
      BY <1>7, <2>3, <3>1
    <3>3. ring'[j].pos = plen - pushLeft + (j - len) /\ ring'[j].len = plen
      BY <1>6, <2>1, <2>3
    <3>4. len - i + 1 < ring[i].len
      BY <1>5, <1>7, <1>11, <2>1, <2>3
    <3>5. pushLeft < plen
      BY <1>4, <3>1, <3>2, <3>4
    <3>6. plen = ring[i].len /\ plen - pushLeft = len - i + 1
      BY <1>4, <3>2, <3>5
    <3>7. ring'[i] = ring[i]
      BY <1>5, <2>3
    <3>8. plen - pushLeft + (j - len) = j - i + 1
      BY <1>3, <1>4, <2>1, <3>6
    <3>9. QED
      BY <3>3, <3>6, <3>7, <3>8
  <2>4. CASE i \notin 1..len
    <3>1. j \notin 1..len
      BY <2>1, <2>4
    <3>2. /\ ring'[i].len = plen /\ plen - pushLeft + (i - len) = 1
          /\ ring'[j].pos = plen - pushLeft + (j - len) /\ ring'[j].len = plen
      BY <1>6, <1>11, <2>1, <2>4, <3>1
    <3>3. plen - pushLeft + (j - len) = j - i + 1
      <4>1. PICK p \in Nat : p = plen - pushLeft
        BY <1>4
      <4>2. p + (i - len) = 1 => p + (j - len) = j - i + 1
        BY <1>3, <2>1
      <4>3. QED
        BY <3>2, <4>1, <4>2
    <3>4. QED
      BY <3>2, <3>3
  <2>5. QED
    BY <2>2, <2>3, <2>4
<1>12. CellsInOrder'
  BY <1>8, <1>9, <1>10, <1>11 DEF CellsInOrder
<1>13. LastCell'
  <2>1. /\ Len(ring') \in 1..Len(ring') /\ Len(ring') \notin 1..len /\ Len(ring') - len = n /\ ring' # <<>>
    <3>1. Len(ring') \in 1..Len(ring') /\ Len(ring') \notin 1..len /\ Len(ring') - len = n
      BY <1>5
    <3>2. QED
      BY <3>1
  <2>2. ring'[Len(ring')].pos = plen - pushLeft + n /\ ring'[Len(ring')].len = plen
    BY <1>6, <2>1
  <2>3. CASE pushLeft' = 0
    <3>1. ppc' = "post" /\ plen - pushLeft + n = plen
      BY <1>2, <1>4, <2>3
    <3>2. QED
      BY <2>2, <3>1 DEF LastCell, Partly
  <2>4. CASE pushLeft' # 0
    <3>1. /\ ppc' = "write" /\ plen' = plen /\ pushLeft' \in 1..plen /\ pushLeft' < plen
          /\ plen - pushLeft + n = plen - pushLeft'
      BY <1>1, <1>2, <1>4, <1>5, <2>4
    <3>2. QED
      BY <1>4, <2>1, <2>2, <3>1 DEF LastCell, Partly
  <2>5. QED
    BY <2>3, <2>4
<1>14. QED
  BY <1>12, <1>13

\* The thread reads the first message of the buffer, or what is left of it.
LEMMA CellsRead ==
  ASSUME EndpointInv, Endpoint!ThreadRead
  PROVE  CellsInOrder' /\ LastCell'
<1>1. /\ CellsInOrder /\ LastCell /\ Len(ring) \in Nat
      /\ UNCHANGED <<ppc, plen, pushLeft>>
  BY DEF EndpointInv, Endpoint!TypeOK, Endpoint!ThreadRead, Endpoint!pipeVars
<1>2. PICK n \in 1..Len(ring) :
        /\ n = rest /\ ring # <<>> /\ n = ring[1].len /\ ring' \in Seq(Endpoint!CellType)
        /\ Len(ring') = Len(ring) - n
        /\ \A i \in 1..Len(ring') : ring'[i] = ring[i + n] /\ i + n \in 1..Len(ring)
  BY PacketRead
<1>3. PICK len \in Nat : len = Len(ring)
  BY <1>1
<1>4. /\ \A i \in 1..len : ring[i].pos \in 1..ring[i].len
      /\ \A i \in 1..len - 1 : ring[i].pos = ring[i].len => ring[i + 1].pos = 1
      /\ \A i \in 1..len : \A j \in i..len :
          ring[i].pos = 1 /\ j - i < ring[i].len => ring[j].pos = j - i + 1 /\ ring[j].len = ring[i].len
      /\ ring[1].pos = 1
  BY <1>1, <1>2, <1>3 DEF CellsInOrder
<1>5. \A i \in 1..Len(ring') : ring'[i] = ring[i + n] /\ i + n \in 1..len
  BY <1>2, <1>3
<1>6. n \in 1..len /\ Len(ring') = len - n
  BY <1>2, <1>3
<1>7. ring[n].pos = ring[n].len
  <2>1. 1 \in 1..len /\ n \in 1..len /\ n - 1 < n /\ n - 1 + 1 = n
    BY <1>6
  <2>2. ring[n].pos = n - 1 + 1 /\ ring[n].len = n
    BY <1>2, <1>4, <2>1
  <2>3. QED
    BY <2>1, <2>2
<1>8. \A i \in 1..Len(ring') : ring'[i].pos \in 1..ring'[i].len
  BY <1>4, <1>5
<1>9. ring' # <<>> => ring'[1].pos = 1
  <2> SUFFICES ASSUME ring' # <<>> PROVE ring'[1].pos = 1
    OBVIOUS
  <2>1. 1 \in 1..Len(ring')
    BY <1>2
  <2>2. n \in 1..len - 1 /\ 1 + n = n + 1
    BY <1>6, <2>1
  <2>3. ring[n + 1].pos = 1
    BY <1>4, <1>7, <2>2
  <2>4. QED
    BY <1>5, <2>1, <2>2, <2>3
<1>10. ASSUME NEW i \in 1..Len(ring') - 1, ring'[i].pos = ring'[i].len PROVE ring'[i + 1].pos = 1
  <2>1. i \in 1..Len(ring') /\ i + 1 \in 1..Len(ring') /\ i + n \in 1..len - 1
        /\ (i + n) + 1 = (i + 1) + n
    BY <1>6
  <2>2. ring'[i] = ring[i + n] /\ ring'[i + 1] = ring[(i + n) + 1]
    <3>1. ring'[i] = ring[i + n] /\ ring'[i + 1] = ring[(i + 1) + n]
      BY <1>5, <2>1
    <3>2. QED
      BY <2>1, <3>1
  <2>3. QED
    BY <1>4, <1>10, <2>1, <2>2
<1>11. ASSUME NEW i \in 1..Len(ring'), NEW j \in i..Len(ring'), ring'[i].pos = 1, j - i < ring'[i].len
       PROVE  ring'[j].pos = j - i + 1 /\ ring'[j].len = ring'[i].len
  <2>1. j \in 1..Len(ring') /\ i + n \in 1..len /\ j + n \in (i + n)..len /\ (j + n) - (i + n) = j - i
    BY <1>6
  <2>2. ring'[i] = ring[i + n] /\ ring'[j] = ring[j + n]
    BY <1>5, <2>1
  <2>3. ring[j + n].pos = (j + n) - (i + n) + 1 /\ ring[j + n].len = ring[i + n].len
    BY <1>4, <1>11, <2>1, <2>2
  <2>4. QED
    BY <2>1, <2>2, <2>3
<1>12. CellsInOrder'
  BY <1>8, <1>9, <1>10, <1>11 DEF CellsInOrder
<1>13. LastCell'
  <2>1. Partly' <=> Partly
    BY <1>1 DEF Partly
  <2>2. len \in 1..len /\ ring # <<>>
    <3>1. len \in 1..len
      BY <1>6
    <3>2. QED
      BY <1>2, <3>1
  <2>3. CASE n = len
    <3>1. ~Partly
      <4> SUFFICES ASSUME Partly PROVE FALSE
        OBVIOUS
      <4>1. ring[len].pos = plen - pushLeft /\ ring[len].len = plen /\ pushLeft \in 1..plen /\ plen \in Nat
        BY <1>1, <1>3, <2>2, LensAre DEF LastCell, Partly
      <4>2. ring[len].pos # ring[len].len
        BY <4>1
      <4>3. QED
        BY <1>7, <2>3, <4>2
    <3>2. ring' = <<>>
      BY <1>2, <1>6, <2>3
    <3>3. QED
      BY <1>1, <2>1, <3>1, <3>2 DEF LastCell
  <2>4. CASE n # len
    <3>1. Len(ring') \in 1..Len(ring') /\ Len(ring') + n = len
      BY <1>6, <2>4
    <3>2. ring'[Len(ring')] = ring[len] /\ ring' # <<>>
      BY <1>5, <3>1
    <3>3. QED
      BY <1>1, <1>3, <2>1, <2>2, <3>2 DEF LastCell
  <2>5. QED
    BY <2>3, <2>4
<1>14. QED
  BY <1>12, <1>13

\* The packets are counted as their last cell is written, and as they are read.
LEMMA EnumPushed ==
  ASSUME EndpointInv, Endpoint!PushWrite, endpointFailed' = "none",
         NEW n \in Nat, n < Wrap, NEW f, Enumerates(f, n), sent = (got + n) % Wrap
  PROVE  /\ ppc' = "write" => Enumerates(f, n)' /\ sent' = (got' + n) % Wrap /\ f \in [1..n -> 1..Len(ring')]
         /\ ppc' # "write" => /\ sent' = (got' + (n + 1)) % Wrap /\ ppc' = "post"
                              /\ \E g \in [1..n + 1 -> 1..Len(ring')] : Enumerates(g, n + 1)'
<1>1. Endpoint!TypeOK /\ LastCell /\ ppc = "write" /\ got' = got /\ got \in 0..Wrap - 1
  BY DEF EndpointInv, Endpoint!PushWrite, Endpoint!TypeOK
<1>2. PICK m \in 1..pushLeft :
           /\ Len(ring) \in Nat /\ Len(ring') = Len(ring) + m
           /\ \A i \in 1..Len(ring) : ring'[i] = ring[i]
           /\ \A i \in 1..m : /\ ring'[Len(ring) + i].pkt = sent
                              /\ ring'[Len(ring) + i].pos = plen - pushLeft + i
                              /\ ring'[Len(ring) + i].len = plen
           /\ pushLeft' = pushLeft - m
           /\ IF pushLeft' = 0 THEN ppc' = "post" /\ sent' = (sent + 1) % Wrap
                               ELSE UNCHANGED <<ppc, sent>>
  BY <1>1, PartWritten
<1>3. PICK len \in Nat : len = Len(ring)
  BY <1>2
<1>4. plen \in Nat /\ pushLeft \in 1..plen
  BY <1>1, LensAre DEF LastCell
<1>5. /\ \A i \in 1..len : ring'[i] = ring[i] /\ i \in 1..Len(ring')
      /\ Len(ring') = len + m /\ m \in Nat
  BY <1>2, <1>3, <1>4
<1>6. ASSUME NEW e \in 1..Len(ring'), e \notin 1..len
      PROVE  /\ ring'[e].pos = ring'[e].len <=> e - len = pushLeft
             /\ ring'[e].pkt = sent /\ e - len \in 1..m
  <2>1. PICK i \in 1..m : i = e - len /\ len + i = e
    BY <1>5, <1>6
  <2>2. ring'[e].pos = plen - pushLeft + i /\ ring'[e].len = plen /\ ring'[e].pkt = sent
    BY <1>2, <1>3, <2>1
  <2>3. plen - pushLeft + i = plen <=> i = pushLeft
    BY <1>4
  <2>4. QED
    BY <2>1, <2>2, <2>3
<1>7. /\ \A i \in 1..n : f[i] \in 1..len
      /\ \A i \in 1..n : ring[f[i]].pos = ring[f[i]].len /\ ring[f[i]].pkt = (got + i - 1) % Wrap
      /\ \A i, j \in 1..n : i < j => f[i] < f[j]
      /\ \A e \in 1..len : ring[e].pos = ring[e].len => \E i \in 1..n : f[i] = e
      /\ f \in [1..n -> 1..len]
  BY <1>3 DEF Enumerates
<1>8. CASE pushLeft' # 0
  <2>1. ppc' = "write" /\ sent' = sent /\ m < pushLeft
    BY <1>1, <1>2, <1>4, <1>8
  <2>2. f \in [1..n -> 1..Len(ring')]
    BY <1>5, <1>7
  <2>3. \A i \in 1..n : ring'[f[i]] = ring[f[i]]
    BY <1>5, <1>7
  <2>4. \A e \in 1..Len(ring') : ring'[e].pos = ring'[e].len => \E i \in 1..n : f[i] = e
    <3> SUFFICES ASSUME NEW e \in 1..Len(ring'), ring'[e].pos = ring'[e].len
                 PROVE  \E i \in 1..n : f[i] = e
      OBVIOUS
    <3>1. e \in 1..len
      BY <1>4, <1>6, <2>1
    <3>2. QED
      BY <1>5, <1>7, <3>1
  <2>5. Enumerates(f, n)'
    BY <1>1, <1>7, <2>2, <2>3, <2>4 DEF Enumerates
  <2>6. QED
    BY <1>1, <2>1, <2>2, <2>5
<1>9. CASE pushLeft' = 0
  <2>1. m = pushLeft /\ ppc' = "post" /\ sent' = (sent + 1) % Wrap
    BY <1>2, <1>4, <1>9
  <2>2. PICK last \in 1..Len(ring') : last = len + m /\ last \notin 1..len /\ last - len = pushLeft
    <3>1. m \in 1..m /\ m \in Nat /\ m >= 1
      BY <1>4
    <3>2. len + m \in 1..len + m /\ len + m \notin 1..len /\ (len + m) - len = m
      BY <3>1
    <3>3. QED
      BY <1>5, <2>1, <3>2
  <2> DEFINE g == [i \in 1..n + 1 |-> IF i = n + 1 THEN last ELSE f[i]]
  <2>3. /\ \A i \in 1..n : i \in 1..n + 1 /\ i # n + 1 /\ n + 1 \in 1..n + 1
        /\ \A i \in 1..n + 1 : i \in 1..n \/ i = n + 1
    OBVIOUS
  <2>4. /\ \A i \in 1..n : g[i] = f[i] /\ g[i] \in 1..len
        /\ g[n + 1] = last
    BY <1>7, <2>3
  <2>5. g \in [1..n + 1 -> 1..Len(ring')]
    BY <1>5, <1>7, <2>3
  <2> HIDE DEF g
  <2>6. ASSUME NEW i \in 1..n + 1
        PROVE  ring'[g[i]].pos = ring'[g[i]].len /\ ring'[g[i]].pkt = (got + i - 1) % Wrap
    <3>1. CASE i \in 1..n
      <4>1. ring'[g[i]] = ring[f[i]]
        BY <1>5, <1>7, <2>4, <3>1
      <4>2. QED
        BY <1>7, <3>1, <4>1
    <3>2. CASE i = n + 1
      <4>1. ring'[last].pos = ring'[last].len /\ ring'[last].pkt = sent
        BY <1>6, <2>2
      <4>2. got + i - 1 = got + n
        BY <1>1, <3>2
      <4>3. QED
        BY <2>4, <3>2, <4>1, <4>2
    <3>3. QED
      BY <2>3, <3>1, <3>2
  <2>7. \A i, j \in 1..n + 1 : i < j => g[i] < g[j]
    <3> SUFFICES ASSUME NEW i \in 1..n + 1, NEW j \in 1..n + 1, i < j PROVE g[i] < g[j]
      OBVIOUS
    <3>1. i \in 1..n
      OBVIOUS
    <3>2. CASE j \in 1..n
      BY <1>7, <2>4, <3>1, <3>2
    <3>3. CASE j = n + 1
      BY <2>2, <2>4, <3>1, <3>3
    <3>4. QED
      BY <2>3, <3>2, <3>3
  <2>8. \A e \in 1..Len(ring') : ring'[e].pos = ring'[e].len => \E i \in 1..n + 1 : g[i] = e
    <3> SUFFICES ASSUME NEW e \in 1..Len(ring'), ring'[e].pos = ring'[e].len
                 PROVE  \E i \in 1..n + 1 : g[i] = e
      OBVIOUS
    <3>1. CASE e \in 1..len
      BY <1>5, <1>7, <2>3, <2>4, <3>1
    <3>2. CASE e \notin 1..len
      <4>1. e = last
        BY <1>4, <1>5, <1>6, <2>2, <3>2
      <4>2. QED
        BY <2>3, <2>4, <4>1
    <3>3. QED
      BY <3>1, <3>2
  <2>9. Enumerates(g, n + 1)'
    BY <1>1, <2>5, <2>6, <2>7, <2>8 DEF Enumerates
  <2>10. sent' = (got' + (n + 1)) % Wrap
    <3>1. n \in 0..Wrap - 1
      BY EndpointAssumed
    <3>2. (((got + n) % Wrap) + 1) % Wrap = (got + n + 1) % Wrap
      BY <1>1, <3>1, Numbering, EndpointAssumed
    <3>3. got + n + 1 = got + (n + 1)
      BY <1>1
    <3>4. QED
      BY <1>1, <2>1, <3>2, <3>3
  <2>11. QED
    BY <2>1, <2>5, <2>9, <2>10
<1>10. QED
  BY <1>8, <1>9

\* Reading the first of n messages leaves the n - 1 that follow it.
LEMMA EnumRead ==
  ASSUME EndpointInv, Endpoint!ThreadRead,
         NEW n \in Nat, n > 0, n < Wrap, NEW f, Enumerates(f, n), sent = (got + n) % Wrap
  PROVE  /\ sent' = (got' + (n - 1)) % Wrap
         /\ \E g \in [1..n - 1 -> 1..Len(ring')] : Enumerates(g, n - 1)'
<1>1. /\ Endpoint!TypeOK /\ CellsInOrder /\ sent' = sent /\ got \in 0..Wrap - 1
      /\ got' = (got + 1) % Wrap /\ Len(ring) \in Nat
  BY PacketRead DEF EndpointInv, Endpoint!TypeOK, Endpoint!ThreadRead
<1>2. PICK m \in 1..Len(ring) :
        /\ ring # <<>> /\ m = ring[1].len /\ Len(ring') = Len(ring) - m
        /\ \A i \in 1..Len(ring') : ring'[i] = ring[i + m] /\ i + m \in 1..Len(ring)
  BY PacketRead
<1>3. f[1] = m
  BY <1>1, <1>2, FirstIsWhole
<1>4. PICK len \in Nat : len = Len(ring)
  BY <1>1
<1>5. /\ \A i \in 1..n : f[i] \in 1..len
      /\ \A i \in 1..n : ring[f[i]].pos = ring[f[i]].len /\ ring[f[i]].pkt = (got + i - 1) % Wrap
      /\ \A i, j \in 1..n : i < j => f[i] < f[j]
      /\ \A e \in 1..len : ring[e].pos = ring[e].len => \E i \in 1..n : f[i] = e
  BY <1>4 DEF Enumerates
<1>6. /\ \A i \in 1..Len(ring') : ring'[i] = ring[i + m] /\ i + m \in 1..len
      /\ m \in 1..len /\ Len(ring') = len - m
  BY <1>2, <1>4
<1>7. PICK g : g = [i \in 1..n - 1 |-> f[i + 1] - m]
  OBVIOUS
<1>8. ASSUME NEW i \in 1..n - 1
      PROVE  i + 1 \in 1..n /\ g[i] = f[i + 1] - m /\ g[i] \in 1..Len(ring') /\ g[i] + m = f[i + 1]
  <2>1. i + 1 \in 1..n /\ 1 \in 1..n /\ 1 < i + 1 /\ g[i] = f[i + 1] - m
    BY <1>7
  <2>2. m < f[i + 1] /\ f[i + 1] \in 1..len
    BY <1>3, <1>5, <2>1
  <2>3. PICK x \in 1..len : x = f[i + 1] /\ m < x
    BY <2>2
  <2>4. x - m \in 1..Len(ring') /\ (x - m) + m = x
    <3>1. m \in Nat /\ x \in Nat /\ x =< len /\ Len(ring') = len - m
      BY <1>6
    <3>2. m < x
      BY <2>3
    <3>3. x - m \in Nat /\ x - m >= 1 /\ x - m =< len - m /\ (x - m) + m = x
      BY <3>1, <3>2
    <3>4. QED
      BY <3>1, <3>3
  <2>5. QED
    BY <2>1, <2>3, <2>4
<1>9. g \in [1..n - 1 -> 1..Len(ring')]
  BY <1>7, <1>8
<1>10. ASSUME NEW i \in 1..n - 1
       PROVE  ring'[g[i]].pos = ring'[g[i]].len /\ ring'[g[i]].pkt = (got' + i - 1) % Wrap
  <2>1. ring'[g[i]] = ring[f[i + 1]]
    BY <1>6, <1>8
  <2>2. ring[f[i + 1]].pos = ring[f[i + 1]].len /\ ring[f[i + 1]].pkt = (got + (i + 1) - 1) % Wrap
    BY <1>5, <1>8
  <2>3. i \in 0..Wrap - 1 /\ i > 0 /\ got + (i + 1) - 1 = got + i
    BY <1>1, EndpointAssumed
  <2>4. (got + i) % Wrap = (((got + 1) % Wrap) + (i - 1)) % Wrap
    BY <1>1, <2>3, Numbering, EndpointAssumed
  <2>5. PICK h \in Int : h = got'
    <3>1. PICK k \in Int : k = got + 1
      BY <1>1
    <3>2. k % Wrap \in Int
      BY <1>1, Modulo, EndpointAssumed
    <3>3. QED
      BY <1>1, <3>1, <3>2
  <2>6. h + (i - 1) = h + i - 1
    BY <2>3
  <2>7. QED
    BY <1>1, <2>1, <2>2, <2>3, <2>4, <2>5, <2>6
<1>11. \A i, j \in 1..n - 1 : i < j => g[i] < g[j]
  <2> SUFFICES ASSUME NEW i \in 1..n - 1, NEW j \in 1..n - 1, i < j PROVE g[i] < g[j]
    OBVIOUS
  <2>1. f[i + 1] < f[j + 1] /\ f[i + 1] \in 1..len /\ f[j + 1] \in 1..len
    BY <1>5, <1>8
  <2>2. QED
    BY <1>6, <1>8, <2>1
<1>12. ASSUME NEW e \in 1..Len(ring'), ring'[e].pos = ring'[e].len PROVE \E i \in 1..n - 1 : g[i] = e
  <2>1. e + m \in 1..len /\ ring[e + m].pos = ring[e + m].len
    BY <1>6, <1>12
  <2>2. PICK j \in 1..n : f[j] = e + m
    BY <1>5, <2>1
  <2>3. j # 1
    BY <1>3, <1>6, <2>2
  <2>4. j - 1 \in 1..n - 1 /\ (j - 1) + 1 = j
    BY <2>3
  <2>5. g[j - 1] = f[j] - m
    BY <1>8, <2>4
  <2>6. QED
    BY <1>6, <2>2, <2>4, <2>5
<1>13. Enumerates(g, n - 1)'
  BY <1>9, <1>10, <1>11, <1>12 DEF Enumerates
<1>14. sent' = (got' + (n - 1)) % Wrap
  <2>1. n \in 0..Wrap - 1
    BY EndpointAssumed
  <2>2. QED
    BY <1>1, <2>1, Numbering, EndpointAssumed
<1>15. QED
  BY <1>9, <1>13, <1>14

\* The endpoint starts in its invariant.
LEMMA EndpointInit == Endpoint!Init => EndpointInv
<1> SUFFICES ASSUME Endpoint!Init PROVE EndpointInv
  OBVIOUS
<1> USE DEF Endpoint!Init
<1>1. /\ ring = <<>> /\ Len(ring) = 0 /\ ring \in Seq(Endpoint!CellType)
      /\ sent = 0 /\ got = 0 /\ 0 \in 0..Wrap - 1
  BY EndpointAssumed
<1>2. Endpoint!TypeOK
  <2>1. capacity \in Nat /\ Len(ring) =< capacity
    BY <1>1, EndpointAssumed
  <2>2. 0 \in 0..BufSize /\ 0 \in 0..MaxCycles /\ build \in Builds
    BY EndpointAssumed
  <2>3. QED
    BY <1>1, <2>1, <2>2 DEF Endpoint!TypeOK
<1>3. CellsInOrder /\ LastCell /\ EndpointMemory
  BY <1>1 DEF CellsInOrder, LastCell, Partly, EndpointMemory, Endpoint!Linux
<1>4. Enumerated
  <2>1. PICK f : f = [i \in 1..0 |-> 1]
    OBVIOUS
  <2>2. 0 \in 0..Credit /\ 0 % Wrap = 0 /\ f \in [1..0 -> 1..Len(ring)]
    BY <2>1, Modulo, EndpointAssumed
  <2>3. Enumerates(f, 0)
    BY <1>1, <2>2 DEF Enumerates
  <2>4. sent = (got + 0) % Wrap /\ ppc # "write" /\ ~alive
    BY <1>1, <2>2
  <2>5. QED
    BY <2>2, <2>3, <2>4 DEF Enumerated
<1>5. QED
  BY <1>2, <1>3, <1>4 DEF EndpointInv

\* The buffer stays as it is.
LEMMA EnumKept ==
  ASSUME UNCHANGED <<ring, got, sent>>, NEW n, NEW f, Enumerates(f, n)
  PROVE  Enumerates(f, n)'
  BY DEF Enumerates

\* The order of the buffer depends on the buffer and the push only.
LEMMA BufferKept ==
  ASSUME CellsInOrder, LastCell, UNCHANGED <<ring, plen, pushLeft>>, Partly' <=> Partly,
         ppc' = "write" => ppc = "write"
  PROVE  CellsInOrder' /\ LastCell'
  BY DEF CellsInOrder, LastCell

\* The steps that leave the buffer alone, given what they do to the counts
LEMMA EnumeratedKept ==
  ASSUME Enumerated, UNCHANGED <<ring, got, sent>>,
         alive' => alive /\ Counts' =< Counts /\ Counts' \in Int, Counts \in Int,
         ppc' = "write" => ppc = "write"
  PROVE  Enumerated'
<1>1. PICK n \in 0..Credit : \E f \in [1..n -> 1..Len(ring)] :
        /\ Enumerates(f, n) /\ sent = (got + n) % Wrap
        /\ ppc = "write" => n < Credit
        /\ alive => Counts =< n
  BY DEF Enumerated
<1>2. PICK f \in [1..n -> 1..Len(ring)] :
        /\ Enumerates(f, n) /\ sent = (got + n) % Wrap
        /\ ppc = "write" => n < Credit
        /\ alive => Counts =< n
  BY <1>1
<1>3. Enumerates(f, n)'
  BY <1>2, EnumKept
<1>4. alive' => Counts' =< n
  BY <1>2, EndpointAssumed
<1>5. f \in [1..n -> 1..Len(ring')]
  OBVIOUS
<1>6. QED
  BY <1>2, <1>3, <1>4, <1>5 DEF Enumerated

\* An empty buffer
LEMMA EnumeratedNothing ==
  ASSUME ring' = <<>>, sent' = 0, got' = 0, ppc' # "write", alive' => Counts' = 0
  PROVE  Enumerated'
<1>1. PICK f : f = [i \in 1..0 |-> 1]
  OBVIOUS
<1>2. 0 \in 0..Credit /\ 0 % Wrap = 0 /\ f \in [1..0 -> 1..Len(ring')] /\ Len(ring') = 0
  BY <1>1, Modulo, EndpointAssumed
<1>3. Enumerates(f, 0)'
  BY <1>2 DEF Enumerates
<1>4. sent' = (got' + 0) % Wrap /\ (alive' => Counts' =< 0)
  BY <1>2
<1>5. QED
  BY <1>2, <1>3, <1>4 DEF Enumerated

\* Every step of the endpoint keeps its types.
LEMMA EndpointTypeStep ==
  ASSUME EndpointInv, [Endpoint!Next]_(Endpoint!vars)
  PROVE  Endpoint!TypeOK'
<1> USE EndpointAssumed
    DEF Endpoint!TypeOK, Endpoint!memory, Endpoint!buffer, Endpoint!pipeVars, Endpoint!threadVars
<1>1. Endpoint!TypeOK /\ CellsInOrder /\ LastCell
  BY DEF EndpointInv
<1>2. CASE Endpoint!Create
  <2>1. BufSize - 1 \in Nat /\ 0 \in 0..BufSize
    OBVIOUS
  <2>2. ring = <<>> /\ Len(ring) = 0
    BY <1>2 DEF EndpointInv, EndpointMemory, Endpoint!Create
  <2>3. /\ ring' \in Seq(Endpoint!CellType) /\ capacity' \in Nat /\ Len(ring') =< capacity'
        /\ sem' \in Nat /\ rest' \in 0..BufSize
    BY <1>1, <1>2, <2>1, <2>2 DEF Endpoint!Create
  <2>4. /\ exists' \in BOOLEAN /\ alive' \in BOOLEAN /\ stop' \in BOOLEAN /\ endpointPc' = "loop"
        /\ UNCHANGED <<build, ppc, plen, pushLeft, cycles, sent, got, endpointFailed>>
    BY <1>2 DEF Endpoint!Create
  <2>5. QED
    BY <1>1, <2>3, <2>4
<1>3. CASE Endpoint!Push
  BY <1>1, <1>3 DEF Endpoint!Push
<1>4. CASE Endpoint!PushWrite /\ endpointFailed' = "none"
  <2>1. /\ ring' \in Seq(Endpoint!CellType) /\ Len(ring') =< capacity' /\ capacity' \in Nat
        /\ pushLeft' \in 0..BufSize
        /\ ppc' \in {"write", "post"} /\ plen' \in Lens \cup {0}
        /\ sent' = (sent + 1) % Wrap \/ sent' = sent
    <3>1. PICK n \in 1..pushLeft :
            /\ ring' \in Seq(Endpoint!CellType) /\ Len(ring') =< capacity' /\ capacity' \in Nat
            /\ pushLeft' = pushLeft - n
            /\ IF pushLeft' = 0 THEN ppc' = "post" /\ sent' = (sent + 1) % Wrap /\ plen' = 0
                                ELSE UNCHANGED <<ppc, sent, plen>>
      BY <1>1, <1>4, PartWritten
    <3>2. pushLeft' \in 0..BufSize
      BY <1>1, <3>1
    <3>3. ppc = "write" /\ plen \in Lens \cup {0}
      BY <1>1, <1>4 DEF Endpoint!PushWrite
    <3>4. QED
      BY <3>1, <3>2, <3>3
  <2>2. sent' \in 0..Wrap - 1
    <3>1. PICK k \in Int : k = sent + 1
      BY <1>1
    <3>2. k % Wrap \in 0..Wrap - 1
      BY Modulo
    <3>3. QED
      BY <1>1, <2>1, <3>1, <3>2
  <2>3. UNCHANGED <<build, exists, alive, sem, stop, endpointPc, rest, cycles, got>>
    BY <1>4 DEF Endpoint!PushWrite
  <2>4. QED
    BY <1>1, <1>4, <2>1, <2>2, <2>3
<1>5. CASE Endpoint!PushWrite /\ endpointFailed' # "none"
  <2>1. /\ UNCHANGED <<ring, pushLeft, ppc, plen, sent, build, exists, alive, sem, stop,
                       endpointPc, rest, cycles, got>>
        /\ endpointFailed' = "full" /\ capacity' = Endpoint!Room
    BY <1>5 DEF Endpoint!PushWrite, Endpoint!Running
  <2>2. Endpoint!Room \in Nat /\ Len(ring) =< Endpoint!Room
    BY <1>1 DEF Endpoint!Room
  <2>3. QED
    BY <1>1, <2>1, <2>2
<1>6. CASE Endpoint!PushPost
  BY <1>1, <1>6 DEF Endpoint!PushPost, Endpoint!Post
<1>7. CASE Endpoint!Destroy
  <2>1. stop' \in BOOLEAN /\ exists' \in BOOLEAN
    BY <1>7 DEF Endpoint!Destroy, Endpoint!Linux
  <2>2. cycles' \in 0..MaxCycles
    BY <1>1, <1>7 DEF Endpoint!Destroy
  <2>3. /\ ppc' = "free"
        /\ UNCHANGED <<build, alive, ring, capacity, sem, plen, pushLeft, endpointPc, rest, sent, got,
                       endpointFailed>>
    BY <1>7 DEF Endpoint!Destroy
  <2>4. QED
    BY <1>1, <2>1, <2>2, <2>3
<1>8. CASE Endpoint!DestroyFree
  <2>1. ring' = <<>> /\ Len(ring') = 0 /\ ring' \in Seq(Endpoint!CellType) /\ 0 \in 0..Wrap - 1
    BY <1>8 DEF Endpoint!DestroyFree
  <2>2. /\ alive' \in BOOLEAN /\ ppc' = "idle" /\ sent' = 0 /\ got' = 0
        /\ UNCHANGED <<build, exists, capacity, sem, stop, plen, pushLeft, endpointPc, rest, cycles,
                       endpointFailed>>
    BY <1>8 DEF Endpoint!DestroyFree
  <2>3. Len(ring') =< capacity'
    BY <1>1, <2>1, <2>2
  <2>4. QED
    BY <1>1, <2>1, <2>2, <2>3
<1>9. CASE Endpoint!ThreadPeek
  <2>1. CASE endpointPc' = endpointPc
    BY <1>1, <1>9, <2>1 DEF Endpoint!ThreadPeek
  <2>2. CASE endpointPc' # endpointPc
    <3>1. ring # <<>> /\ endpointPc' = "read" /\ rest' = ring[1].len /\ UNCHANGED endpointFailed
      BY <1>9, <2>2 DEF Endpoint!ThreadPeek, Endpoint!LengthOf
    <3>2. ring[1].len \in 0..BufSize
      <4>1. ring[1] \in Endpoint!CellType
        BY <1>1, <3>1
      <4>2. QED
        BY <4>1, LensAre DEF Endpoint!CellType
    <3>3. QED
      BY <1>1, <1>9, <3>1, <3>2 DEF Endpoint!ThreadPeek
  <2>3. QED
    BY <2>1, <2>2
<1>10. CASE Endpoint!ThreadRead
  <2>1. /\ ring' \in Seq(Endpoint!CellType) /\ Len(ring') =< Len(ring) /\ rest' = 0
        /\ endpointPc' = "consume" /\ got' = (got + 1) % Wrap /\ Len(ring') \in Nat
    BY <1>10, PacketRead
  <2>2. got' \in 0..Wrap - 1
    <3>1. PICK k \in Int : k = got + 1
      BY <1>1
    <3>2. k % Wrap \in 0..Wrap - 1
      BY Modulo
    <3>3. QED
      BY <2>1, <3>1, <3>2
  <2>3. /\ UNCHANGED <<build, exists, alive, capacity, sem, stop, ppc, plen, pushLeft, cycles,
                       sent, endpointFailed>>
        /\ Len(ring') =< capacity' /\ rest' \in 0..BufSize
    BY <1>1, <1>10, <2>1 DEF Endpoint!ThreadRead
  <2>4. QED
    BY <1>1, <2>1, <2>2, <2>3
<1>11. CASE Endpoint!ThreadLoop
  BY <1>1, <1>11 DEF Endpoint!ThreadLoop
<1>12. CASE Endpoint!ThreadWake
  BY <1>1, <1>12 DEF Endpoint!ThreadWake
<1>13. CASE Endpoint!ThreadTimeout
  BY <1>1, <1>13 DEF Endpoint!ThreadTimeout
<1>14. CASE Endpoint!ThreadConsume
  BY <1>1, <1>14 DEF Endpoint!ThreadConsume
<1>15. CASE Endpoint!ThreadFreed
  BY <1>1, <1>15 DEF Endpoint!ThreadFreed
<1>16. CASE UNCHANGED Endpoint!vars
  BY <1>1, <1>16 DEF Endpoint!vars
<1>17. QED
  BY <1>2, <1>3, <1>4, <1>5, <1>6, <1>7, <1>8, <1>9, <1>10, <1>11, <1>12, <1>13, <1>14, <1>15,
     <1>16 DEF Endpoint!Next, Endpoint!Pipe, Endpoint!Thread

\* Every step keeps the buffer and its user within the memory of the endpoint.
LEMMA EndpointMemoryStep ==
  ASSUME EndpointInv, [Endpoint!Next]_(Endpoint!vars)
  PROVE  EndpointMemory'
<1> USE DEF EndpointMemory, Endpoint!memory, Endpoint!buffer, Endpoint!pipeVars,
            Endpoint!threadVars, Endpoint!Linux
<1>1. Endpoint!TypeOK /\ CellsInOrder /\ LastCell /\ EndpointMemory
  BY DEF EndpointInv
<1>2. CASE Endpoint!ThreadPeek
  <2>1. ring # <<>> /\ ring[1].pos = 1 /\ ring[1].len < BufSize
    <3>n. PICK n \in 0..Credit : Counts =< n /\ \E f : Enumerates(f, n)
      BY <1>2 DEF EndpointInv, Enumerated, Endpoint!ThreadPeek
    <3>1. PICK f : n \in 0..Credit /\ Counts =< n /\ Enumerates(f, n)
      BY <3>n
    <3>2. Counts >= 1
      <4>1. endpointPc = "peek" /\ sem \in Nat
        BY <1>1, <1>2 DEF Endpoint!TypeOK, Endpoint!ThreadPeek
      <4> HIDE <1>2
      <4>2. QED
        BY <4>1 DEF Counts
    <3>3. 1 \in 1..n
      <4>1. Counts \in Int
        BY <1>1 DEF Counts, Endpoint!TypeOK
      <4>2. QED
        BY <3>1, <3>2, <4>1, EndpointAssumed
    <3>4. f[1] \in 1..Len(ring) /\ ring \in Seq(Endpoint!CellType)
      BY <1>1, <3>1, <3>3 DEF Enumerates, Endpoint!TypeOK
    <3>5. ring # <<>> /\ 1 \in 1..Len(ring)
      BY <3>4
    <3>6. ring[1] \in Endpoint!CellType
      BY <3>4, <3>5, EntriesAre
    <3>7. ring[1].len < BufSize
      BY <3>6, LensAre DEF Endpoint!CellType
    <3>8. QED
      BY <1>1, <3>5, <3>7 DEF CellsInOrder
  <2>2. ~(ring[1].len >= BufSize)
    <3>1. ring[1].len \in Nat
      <4>1. ring[1] \in Endpoint!CellType
        BY <1>1, <2>1 DEF Endpoint!TypeOK
      <4>2. QED
        BY <4>1, LensAre DEF Endpoint!CellType
    <3>2. QED
      BY <2>1, <3>1, LensAre
  <2>3. rest' = ring[1].len /\ UNCHANGED <<endpointFailed, ring, alive, exists, build, ppc, sent, got>>
    BY <1>2, <2>1, <2>2 DEF Endpoint!ThreadPeek, Endpoint!LengthOf
  <2>4. alive
    BY <1>2 DEF Endpoint!ThreadPeek
  <2>5. QED
    BY <1>1, <2>1, <2>3, <2>4
<1>3. CASE Endpoint!ThreadRead
  <2>1. endpointPc' = "consume" /\ alive
    BY <1>3, PacketRead DEF Endpoint!ThreadRead
  <2>2. UNCHANGED <<endpointFailed, alive, exists, build, ppc>>
    BY <1>3 DEF Endpoint!ThreadRead
  <2>3. QED
    BY <1>1, <2>1, <2>2
<1>4. CASE Endpoint!PushWrite
  <2>1. /\ UNCHANGED <<alive, exists, build, endpointPc, rest>> /\ ppc = "write"
        /\ endpointFailed' \in {"none", "full"} /\ ppc' \in {"write", "post"}
    BY <1>4 DEF Endpoint!PushWrite, Endpoint!Running
  <2>2. alive
    BY <1>1, <2>1
  <2>3. ASSUME endpointPc = "read" PROVE ring' # <<>> /\ rest = ring'[1].len
    <3>1. CASE ring' = ring
      BY <1>1, <2>2, <2>3, <3>1
    <3>2. CASE ring' # ring
      <4>1. endpointFailed' = "none"
        BY <1>4, <3>2 DEF Endpoint!PushWrite, Endpoint!Running
      <4>2. /\ \A i \in 1..Len(ring) : ring'[i] = ring[i]
            /\ Len(ring) \in Nat /\ Len(ring') > Len(ring)
        <5>1. PICK n \in 1..pushLeft :
                /\ \A i \in 1..Len(ring) : ring'[i] = ring[i]
                /\ Len(ring) \in Nat /\ Len(ring') = Len(ring) + n
          BY <1>1, <1>4, <4>1, PartWritten
        <5>2. n > 0 /\ n \in Nat
          BY <1>1, <5>1 DEF Endpoint!TypeOK
        <5>3. QED
          BY <5>1, <5>2
      <4>3. 1 \in 1..Len(ring) /\ ring # <<>> /\ rest = ring[1].len
        BY <1>1, <2>2, <2>3 DEF Endpoint!TypeOK
      <4>4. ring' # <<>>
        <5>1. Len(ring') # 0
          BY <4>2
        <5>2. QED
          BY <5>1
      <4>5. QED
        BY <4>2, <4>3, <4>4
    <3>3. QED
      BY <3>1, <3>2
  <2>4. QED
    BY <1>1, <2>1, <2>2, <2>3
<1>5. CASE Endpoint!Create
  BY <1>1, <1>5 DEF Endpoint!Create
<1>6. CASE Endpoint!Push
  BY <1>1, <1>6 DEF Endpoint!Push
<1>7. CASE Endpoint!PushPost
  BY <1>1, <1>7 DEF Endpoint!PushPost
<1>8. CASE Endpoint!Destroy
  BY <1>1, <1>8 DEF Endpoint!Destroy
<1>9. CASE Endpoint!DestroyFree
  <2>1. /\ ~alive' /\ ppc' = "idle" /\ ring' = <<>> /\ sent' = 0 /\ got' = 0
        /\ UNCHANGED <<build, exists, endpointPc, rest, endpointFailed>>
    BY <1>9 DEF Endpoint!DestroyFree
  <2>2. ~exists
    BY <1>1, <1>9 DEF Endpoint!DestroyFree
  <2>3. build = "Linux" => endpointPc = "gone"
    BY <1>9 DEF Endpoint!DestroyFree, Endpoint!MayFree
  <2>4. QED
    BY <1>1, <2>1, <2>2, <2>3
<1>10. CASE Endpoint!ThreadLoop \/ Endpoint!ThreadWake \/ Endpoint!ThreadTimeout \/ Endpoint!ThreadConsume
  BY <1>1, <1>10 DEF Endpoint!ThreadLoop, Endpoint!ThreadWake, Endpoint!ThreadTimeout,
                     Endpoint!ThreadConsume
<1>11. CASE Endpoint!ThreadFreed
  BY <1>1, <1>11 DEF Endpoint!ThreadFreed
<1>12. CASE UNCHANGED Endpoint!vars
  BY <1>1, <1>12 DEF Endpoint!vars
<1>13. QED
  BY <1>2, <1>3, <1>4, <1>5, <1>6, <1>7, <1>8, <1>9, <1>10, <1>11, <1>12
     DEF Endpoint!Next, Endpoint!Pipe, Endpoint!Thread

\* Every step keeps the count of the messages between the two ends.
LEMMA EnumeratedStep ==
  ASSUME EndpointInv, [Endpoint!Next]_(Endpoint!vars)
  PROVE  Enumerated'
<1> USE DEF Endpoint!memory, Endpoint!buffer, Endpoint!pipeVars, Endpoint!threadVars
<1>1. /\ Endpoint!TypeOK /\ CellsInOrder /\ LastCell /\ EndpointMemory /\ Enumerated
      /\ sem \in Nat /\ Counts \in Int
  BY DEF EndpointInv, Endpoint!TypeOK, Counts
<1>2. PICK n \in 0..Credit : \E f \in [1..n -> 1..Len(ring)] :
        /\ Enumerates(f, n) /\ sent = (got + n) % Wrap
        /\ ppc = "write" => n < Credit
        /\ alive => Counts =< n
  BY <1>1 DEF Enumerated
<1>3. PICK f \in [1..n -> 1..Len(ring)] :
        /\ Enumerates(f, n) /\ sent = (got + n) % Wrap
        /\ ppc = "write" => n < Credit
        /\ alive => Counts =< n
  BY <1>2
<1>4. n \in Nat /\ n < Wrap /\ n \in 0..Wrap - 1 /\ got \in 0..Wrap - 1
  BY <1>1, EndpointAssumed DEF Endpoint!TypeOK
<1>5. CASE Endpoint!Create
  <2>1. /\ ring = <<>> /\ ring' = <<>> /\ sent' = 0 /\ got' = 0 /\ ppc' # "write"
        /\ sem' = 0 /\ endpointPc' = "loop" /\ ppc' = "idle"
    BY <1>1, <1>5 DEF Endpoint!Create, EndpointMemory
  <2>2. Counts' = 0
    BY <2>1 DEF Counts
  <2>3. QED
    BY <2>1, <2>2, EnumeratedNothing
<1>6. CASE Endpoint!Push
  <2>1. /\ UNCHANGED <<ring, got, sent, alive, sem, endpointPc>> /\ ppc = "idle" /\ ppc' = "write"
        /\ (sent - got) % Wrap < Credit
    BY <1>6 DEF Endpoint!Push
  <2>2. n < Credit
    <3>1. (((got + n) % Wrap) - got) % Wrap = n
      BY <1>4, Numbering, EndpointAssumed
    <3>2. QED
      BY <1>3, <2>1, <3>1
  <2>3. Counts' = Counts
    BY <2>1 DEF Counts
  <2>4. Enumerates(f, n)'
    BY <1>3, <2>1, EnumKept
  <2>5. QED
    BY <1>3, <2>1, <2>2, <2>3, <2>4 DEF Enumerated
<1>7. CASE Endpoint!PushWrite /\ endpointFailed' = "none"
  <2>1. ppc = "write" /\ got' = got /\ UNCHANGED <<alive, sem, endpointPc>> /\ n < Credit
    BY <1>3, <1>7 DEF Endpoint!PushWrite
  <2>2. CASE ppc' = "write"
    <3>1. Enumerates(f, n)' /\ sent' = (got' + n) % Wrap /\ f \in [1..n -> 1..Len(ring')]
      BY <1>3, <1>4, <1>7, <2>2, EnumPushed
    <3>2. Counts' = Counts
      BY <2>1, <2>2 DEF Counts
    <3>3. QED
      BY <1>3, <2>1, <3>1, <3>2 DEF Enumerated
  <2>3. CASE ppc' # "write"
    <3>1. /\ sent' = (got' + (n + 1)) % Wrap /\ ppc' = "post"
          /\ \E g \in [1..n + 1 -> 1..Len(ring')] : Enumerates(g, n + 1)'
      BY <1>3, <1>4, <1>7, <2>3, EnumPushed
    <3>2. Counts' = Counts + 1
      BY <1>1, <2>1, <3>1 DEF Counts
    <3>3. n + 1 \in 0..Credit /\ (alive' => Counts' =< n + 1)
      BY <1>1, <1>3, <1>4, <2>1, <3>2, EndpointAssumed
    <3>4. QED
      BY <2>3, <3>1, <3>3 DEF Enumerated
  <2>4. QED
    BY <2>2, <2>3
<1>8. CASE Endpoint!PushWrite /\ endpointFailed' # "none"
  <2>1. UNCHANGED <<ring, ppc, sent, got, alive, sem, endpointPc>>
    BY <1>8 DEF Endpoint!PushWrite, Endpoint!Running
  <2>2. Counts' = Counts
    BY <2>1 DEF Counts
  <2>3. QED
    BY <1>1, <2>1, <2>2, EnumeratedKept
<1>9. CASE Endpoint!PushPost
  <2>1. /\ UNCHANGED <<ring, sent, got, alive, endpointPc>> /\ ppc = "post" /\ ppc' = "idle"
        /\ sem' = sem + 1
    BY <1>9 DEF Endpoint!PushPost, Endpoint!Post
  <2>2. Counts' = Counts
    BY <1>1, <2>1 DEF Counts
  <2>3. QED
    BY <1>1, <2>1, <2>2, EnumeratedKept
<1>10. CASE Endpoint!Destroy
  <2>1. /\ UNCHANGED <<ring, sent, got, alive, sem, endpointPc>> /\ ppc = "idle" /\ ppc' = "free"
    BY <1>10 DEF Endpoint!Destroy
  <2>2. Counts' = Counts
    BY <2>1 DEF Counts
  <2>3. QED
    BY <1>1, <2>1, <2>2, EnumeratedKept
<1>11. CASE Endpoint!DestroyFree
  <2>1. ring' = <<>> /\ sent' = 0 /\ got' = 0 /\ ppc' = "idle" /\ ~alive'
    BY <1>11 DEF Endpoint!DestroyFree
  <2>2. QED
    BY <2>1, EnumeratedNothing
<1>12. CASE Endpoint!ThreadWake
  <2>1. /\ UNCHANGED <<ring, sent, got, alive, ppc>> /\ endpointPc = "wait" /\ endpointPc' = "peek"
        /\ sem' = sem - 1
    BY <1>12 DEF Endpoint!ThreadWake
  <2>2. Counts' = Counts
    BY <1>1, <2>1 DEF Counts
  <2>3. QED
    BY <1>1, <2>1, <2>2, EnumeratedKept
<1>13. CASE Endpoint!ThreadPeek
  <2>1. /\ UNCHANGED <<ring, sent, got, alive, ppc, sem>> /\ endpointPc = "peek"
        /\ endpointPc' \in {"peek", "read"}
    BY <1>13 DEF Endpoint!ThreadPeek
  <2>2. Counts' = Counts
    BY <2>1 DEF Counts
  <2>3. QED
    BY <1>1, <2>1, <2>2, EnumeratedKept
<1>14. CASE Endpoint!ThreadRead
  <2>1. /\ UNCHANGED <<sent, alive, ppc, sem>> /\ endpointPc = "read" /\ alive
        /\ endpointPc' = "consume"
    BY <1>14, PacketRead DEF Endpoint!ThreadRead
  <2>2. Counts' = Counts - 1
    BY <1>1, <2>1 DEF Counts
  <2>3. Counts >= 1
    BY <1>1, <2>1 DEF Counts, Endpoint!TypeOK
  <2>4. n > 0 /\ n - 1 \in 0..Credit /\ Counts' =< n - 1 /\ (ppc' = "write" => n - 1 < Credit)
    BY <1>1, <1>3, <1>4, <2>1, <2>2, <2>3, EndpointAssumed
  <2>5. /\ sent' = (got' + (n - 1)) % Wrap
        /\ \E g \in [1..n - 1 -> 1..Len(ring')] : Enumerates(g, n - 1)'
    BY <1>3, <1>4, <1>14, <2>4, EnumRead
  <2>6. QED
    BY <2>4, <2>5 DEF Enumerated
<1>15. CASE Endpoint!ThreadLoop \/ Endpoint!ThreadTimeout \/ Endpoint!ThreadConsume
  <2>1. /\ UNCHANGED <<ring, sent, got, alive, ppc, sem>> /\ endpointPc \notin {"peek", "read"}
        /\ endpointPc' \notin {"peek", "read"}
    BY <1>15 DEF Endpoint!ThreadLoop, Endpoint!ThreadTimeout, Endpoint!ThreadConsume
  <2>2. Counts' = Counts
    BY <2>1 DEF Counts
  <2>3. QED
    BY <1>1, <2>1, <2>2, EnumeratedKept
<1>16. CASE Endpoint!ThreadFreed \/ UNCHANGED Endpoint!vars
  <2>1. UNCHANGED <<ring, sent, got, alive, ppc, sem, endpointPc>>
    BY <1>16 DEF Endpoint!ThreadFreed, Endpoint!vars
  <2>2. Counts' = Counts
    BY <2>1 DEF Counts
  <2>3. QED
    BY <1>1, <2>1, <2>2, EnumeratedKept
<1>17. QED
  BY <1>5, <1>6, <1>7, <1>8, <1>9, <1>10, <1>11, <1>12, <1>13, <1>14, <1>15, <1>16
     DEF Endpoint!Next, Endpoint!Pipe, Endpoint!Thread

\* Every step keeps the order of the messages in the buffer.
LEMMA CellsStep ==
  ASSUME EndpointInv, [Endpoint!Next]_(Endpoint!vars)
  PROVE  CellsInOrder' /\ LastCell'
<1> USE DEF Endpoint!memory, Endpoint!buffer, Endpoint!pipeVars, Endpoint!threadVars
<1>1. CellsInOrder /\ LastCell /\ EndpointMemory /\ Endpoint!TypeOK
  BY DEF EndpointInv
<1>2. CASE Endpoint!PushWrite /\ endpointFailed' = "none"
  BY <1>2, CellsPushed
<1>3. CASE Endpoint!ThreadRead
  BY <1>3, CellsRead
<1>4. CASE Endpoint!Push
  <2>1. /\ ring' = ring /\ ppc = "idle" /\ ppc' = "write" /\ plen' \in Lens /\ pushLeft' = plen'
    BY <1>4 DEF Endpoint!Push
  <2>2. pushLeft' \in 1..plen' /\ ~Partly' /\ ~Partly
    BY <2>1, LensAre DEF Partly
  <2>3. QED
    BY <1>1, <2>1, <2>2 DEF CellsInOrder, LastCell
<1>5. CASE Endpoint!Create \/ Endpoint!PushPost \/ Endpoint!Destroy
  <2>1. UNCHANGED <<ring, plen, pushLeft>> /\ ppc # "write" /\ ppc' # "write"
    BY <1>5 DEF Endpoint!Create, Endpoint!PushPost, Endpoint!Destroy
  <2>2. QED
    BY <1>1, <2>1, BufferKept DEF Partly
<1>6. CASE Endpoint!DestroyFree
  <2>1. ring' = <<>> /\ ppc' = "idle" /\ Len(ring') = 0
    BY <1>6 DEF Endpoint!DestroyFree
  <2>2. QED
    BY <2>1 DEF CellsInOrder, LastCell, Partly
<1>7. CASE \/ Endpoint!PushWrite /\ endpointFailed' # "none"
           \/ Endpoint!ThreadLoop \/ Endpoint!ThreadWake \/ Endpoint!ThreadTimeout
           \/ Endpoint!ThreadPeek \/ Endpoint!ThreadConsume \/ Endpoint!ThreadFreed
           \/ UNCHANGED Endpoint!vars
  <2>1. UNCHANGED <<ring, plen, pushLeft, ppc>>
    BY <1>7 DEF Endpoint!PushWrite, Endpoint!Running, Endpoint!ThreadLoop, Endpoint!ThreadWake,
                Endpoint!ThreadTimeout, Endpoint!ThreadPeek, Endpoint!ThreadConsume,
                Endpoint!ThreadFreed, Endpoint!vars
  <2>2. QED
    BY <1>1, <2>1, BufferKept DEF Partly
<1>8. QED
  BY <1>2, <1>3, <1>4, <1>5, <1>6, <1>7
     DEF Endpoint!Next, Endpoint!Pipe, Endpoint!Thread

\* The invariant of the endpoint is inductive.
LEMMA EndpointStep == EndpointInv /\ [Endpoint!Next]_(Endpoint!vars) => EndpointInv'
  BY EndpointTypeStep, EndpointMemoryStep, EnumeratedStep, CellsStep DEF EndpointInv

\* A step of the services is a step of the endpoint or leaves it alone.
LEMMA EndpointMoves == [Next]_vars => [Endpoint!Next]_(Endpoint!vars)
  BY DEF Next, BinaryNext, RpcNext, SerialNext, EndpointNext, vars, endpointVars,
         Endpoint!vars, Endpoint!memory, Endpoint!buffer, Endpoint!pipeVars, Endpoint!threadVars

\* The endpoint keeps its inductive invariant beside the other services: the buffer holds
\* the messages in the order of their pushes, and the thread is at the first (ivshmem-endpoint.c).
THEOREM EndpointInvariant == Spec => []EndpointInv
<1>1. Init => EndpointInv
  BY EndpointInit DEF Init
<1>2. EndpointInv /\ [Next]_vars => EndpointInv'
  BY EndpointStep, EndpointMoves
<1>3. QED
  BY <1>1, <1>2, PTL DEF Spec

\* The complete packets are those that the enumeration names.
LEMMA CompleteIs ==
  ASSUME Endpoint!TypeOK, NEW n \in Nat, NEW f, Enumerates(f, n)
  PROVE  /\ Cardinality(Endpoint!Ends) = n
         /\ Endpoint!Complete = [i \in 1..n |-> (got + i - 1) % Wrap]
<1>1. /\ DOMAIN ring = 1..Len(ring) /\ Len(ring) \in Nat
      /\ f \in [1..n -> 1..Len(ring)]
      /\ \A i \in 1..n : ring[f[i]].pos = ring[f[i]].len /\ ring[f[i]].pkt = (got + i - 1) % Wrap
      /\ \A i, j \in 1..n : i < j => f[i] < f[j]
      /\ \A e \in 1..Len(ring) : ring[e].pos = ring[e].len => \E i \in 1..n : f[i] = e
  BY DEF Endpoint!TypeOK, Enumerates
<1>2. /\ \A e \in Endpoint!Ends : \E i \in 1..n : f[i] = e
      /\ \A i \in 1..n : f[i] \in Endpoint!Ends
  BY <1>1 DEF Endpoint!Ends
<1>3. ASSUME NEW k \in 0..n
      PROVE  Cardinality({f[i] : i \in 1..k}) = k
  <2> DEFINE S == {f[i] : i \in 1..k}
             g == [i \in 1..k |-> f[i]]
  <2>1. \A i \in 1..k : i \in 1..n /\ f[i] \in Int
    BY <1>1
  <2>2. g \in [1..k -> S] /\ \A s \in S : \E i \in 1..k : g[i] = s
    OBVIOUS
  <2>3. \A i, j \in 1..k : i # j => g[i] # g[j]
    <3> SUFFICES ASSUME NEW i \in 1..k, NEW j \in 1..k, i # j PROVE f[i] # f[j]
      OBVIOUS
    <3>1. f[i] \in Int /\ f[j] \in Int /\ i \in 1..n /\ j \in 1..n
      BY <2>1
    <3>2. f[i] < f[j] \/ f[j] < f[i]
      <4>1. i < j \/ j < i
        OBVIOUS
      <4>2. QED
        BY <1>1, <3>1, <4>1
    <3>3. QED
      BY <3>1, <3>2
  <2> HIDE DEF g, S
  <2>4. ExistsBijection(1..k, S)
    <3>1. g \in Bijection(1..k, S)
      BY <2>2, <2>3, Fun_IsBij
    <3>2. QED
      BY <3>1 DEF ExistsBijection
  <2>5. QED
    <3>1. Cardinality(S) = k
      BY <2>4, FS_CountingElements
    <3>2. QED
      BY <3>1 DEF S
<1>4. Cardinality(Endpoint!Ends) = n
  <2>1. Endpoint!Ends = {f[i] : i \in 1..n}
    BY <1>2
  <2>2. QED
    BY <1>3, <2>1
<1>5. ASSUME NEW i \in 1..n PROVE Endpoint!Rank(f[i]) = i
  <2>1. {d \in Endpoint!Ends : d =< f[i]} = {f[j] : j \in 1..i}
    <3>1. ASSUME NEW d \in Endpoint!Ends, d =< f[i] PROVE \E j \in 1..i : d = f[j]
      <4>1. PICK j \in 1..n : f[j] = d
        BY <1>2
      <4>2. ~(i < j)
        <5>1. i < j => f[i] < f[j]
          BY <1>1
        <5>2. f[i] \in Int /\ f[j] \in Int
          BY <1>1
        <5>3. QED
          BY <3>1, <4>1, <5>1, <5>2
      <4>3. j \in 1..i
        BY <4>2
      <4>4. QED
        BY <4>1, <4>3
    <3>2. ASSUME NEW j \in 1..i PROVE f[j] \in Endpoint!Ends /\ f[j] =< f[i]
      <4>1. j \in 1..n /\ f[j] \in Int /\ f[i] \in Int
        BY <1>1
      <4>2. CASE j = i
        BY <1>2, <4>1, <4>2
      <4>3. CASE j < i
        BY <1>1, <1>2, <4>1, <4>3
      <4>4. QED
        BY <4>2, <4>3
    <3>3. QED
      BY <3>1, <3>2
  <2>2. Cardinality({f[j] : j \in 1..i}) = i
    BY <1>3
  <2>3. QED
    BY <2>1, <2>2 DEF Endpoint!Rank, Cardinality, Endpoint!Cardinality
<1>6. ASSUME NEW i \in 1..n
      PROVE  (CHOOSE e \in Endpoint!Ends : Endpoint!Rank(e) = i) = f[i]
  <2>1. \A e \in Endpoint!Ends : Endpoint!Rank(e) = i => e = f[i]
    BY <1>2, <1>5
  <2>2. \E e \in Endpoint!Ends : Endpoint!Rank(e) = i
    BY <1>2, <1>5
  <2>3. QED
    BY <2>1, <2>2
<1>7. ASSUME NEW i \in 1..n
      PROVE  ring[CHOOSE e \in Endpoint!Ends : Endpoint!Rank(e) = i].pkt = (got + i - 1) % Wrap
  BY <1>1, <1>6
<1>8. Endpoint!Complete = [i \in 1..n |-> (got + i - 1) % Wrap]
  BY <1>4, <1>7 DEF Endpoint!Complete, Cardinality, Endpoint!Cardinality
<1>9. QED
  BY <1>4, <1>8

(***************************************************************************)
(* A count of the semaphore stands for a packet that is complete in the    *)
(* buffer, so that the assertions of ivshm_endpoint_pkt_read hold; and in  *)
(* the Linux build nothing is freed under the thread: for every length,    *)
(* size and number of packets ahead.                                       *)
(***************************************************************************)
THEOREM ServicesComplete == Spec => []CountedIsComplete
<1>1. EndpointInv => CountedIsComplete
  <2> SUFFICES ASSUME EndpointInv PROVE Endpoint!CountedIsComplete
    BY DEF CountedIsComplete
  <2>1. PICK n \in 0..Credit : (alive => Counts =< n) /\ \E f : Enumerates(f, n)
    BY DEF EndpointInv, Enumerated
  <2>2. Len(Endpoint!Complete) = n
    <3>1. n \in Nat /\ Endpoint!TypeOK
      BY EndpointAssumed DEF EndpointInv
    <3>2. Endpoint!Complete = [i \in 1..n |-> (got + i - 1) % Wrap]
      BY <2>1, <3>1, CompleteIs
    <3>3. QED
      BY <3>1, <3>2
  <2>3. alive => sem + (IF endpointPc \in {"peek", "read"} THEN 1 ELSE 0) =< n
    BY <2>1, EndpointAssumed DEF Counts, EndpointInv, Endpoint!TypeOK
  <2>4. QED
    BY <2>2, <2>3 DEF EndpointInv, EndpointMemory, Endpoint!CountedIsComplete
<1>2. QED
  BY <1>1, EndpointInvariant, PTL

\* n frames, numbered on from g
Numbers(g, n) == [i \in 1..n |-> (g + i - 1) % Wrap]

\* What is complete, as an operator that can be primed
CompleteOK == \A n \in Nat : \A f : Enumerates(f, n) => Endpoint!Complete = Numbers(got, n)

\* What the thread has counted is whole wherever the invariant holds.
LEMMA CompleteNow == EndpointInv => CompleteOK
  BY CompleteIs DEF EndpointInv, CompleteOK, Numbers

\* A sequence of numbers that follow each other
LEMMA NumbersAre ==
  ASSUME NEW g \in 0..Wrap - 1, NEW n \in 0..Wrap - 1
  PROVE  /\ Len(Numbers(g, n)) = n /\ Numbers(g, 0) = <<>>
         /\ Append(Numbers(g, n), (g + n) % Wrap) = Numbers(g, n + 1)
         /\ n > 0 => /\ Numbers(g, n) # <<>> /\ Head(Numbers(g, n)) = g
                     /\ Tail(Numbers(g, n)) = Numbers((g + 1) % Wrap, n - 1)
<1> PICK W \in Nat : W = Wrap
  BY EndpointAssumed
<1> PICK s : s = [i \in 1..n |-> (g + i - 1) % W]
  OBVIOUS
<1>1. ASSUME NEW i \in Nat PROVE (g + i - 1) % W \in 0..W - 1
  <2>1. PICK k \in Int : k = g + i - 1
    OBVIOUS
  <2>2. k % W \in 0..W - 1
    BY Modulo
  <2>3. QED
    BY <2>1, <2>2
<1>2. s \in Seq(0..W - 1) /\ Len(s) = n /\ \A i \in 1..n : s[i] = (g + i - 1) % W
  BY <1>1
<1>3. Append(s, (g + n) % W) = [i \in 1..n + 1 |-> (g + i - 1) % W]
  <2>1. PICK e \in 0..W - 1 : e = (g + n) % W
    <3>1. n + 1 \in Nat /\ g + (n + 1) - 1 = g + n
      OBVIOUS
    <3>2. (g + (n + 1) - 1) % W \in 0..W - 1
      BY <1>1, <3>1
    <3>3. QED
      BY <3>1, <3>2
  <2>2. /\ Append(s, e) \in Seq(0..W - 1) /\ Len(Append(s, e)) = n + 1
        /\ \A i \in 1..n : Append(s, e)[i] = s[i]
        /\ Append(s, e)[n + 1] = e
    BY <1>2, AppendIs
  <2>3. \A i \in 1..n + 1 : Append(s, e)[i] = (g + i - 1) % W
    <3> TAKE i \in 1..n + 1
    <3>1. CASE i \in 1..n
      BY <1>2, <2>2, <3>1
    <3>2. CASE i = n + 1
      <4>1. g + i - 1 = g + n
        BY <3>2
      <4>2. QED
        BY <2>1, <2>2, <3>2, <4>1
    <3>3. QED
      BY <3>1, <3>2
  <2>4. DOMAIN Append(s, e) = 1..n + 1 /\ Append(s, e) = [i \in DOMAIN Append(s, e) |-> Append(s, e)[i]]
    BY <2>2
  <2>5. QED
    BY <2>1, <2>3, <2>4
<1>4. ASSUME n > 0
      PROVE  /\ s # <<>> /\ Head(s) = g
             /\ Tail(s) = [i \in 1..n - 1 |-> (((g + 1) % W) + i - 1) % W]
  <2>1. s # <<>>
    BY <1>2, <1>4
  <2>2. /\ Head(s) = s[1] /\ Len(Tail(s)) = n - 1 /\ Tail(s) \in Seq(0..W - 1)
        /\ \A i \in 1..n - 1 : Tail(s)[i] = s[i + 1]
    <3>1. s \in Seq(0..W - 1) /\ Len(s) = n
      BY <1>2
    <3>2. /\ Head(s) = s[1] /\ Len(Tail(s)) = Len(s) - 1 /\ Tail(s) \in Seq(0..W - 1)
          /\ \A i \in 1..Len(Tail(s)) : Tail(s)[i] = s[i + 1]
      BY <2>1, <3>1, TailIs
    <3>3. QED
      BY <3>1, <3>2
  <2>3. Head(s) = g
    <3>1. 1 \in 1..n /\ g + 1 - 1 = g
      BY <1>4
    <3>2. g % W = g
      <4>1. g \in Int /\ 0 =< g /\ g < W
        OBVIOUS
      <4>2. QED
        BY <4>1, Modulo
    <3>3. QED
      BY <1>2, <2>2, <3>1, <3>2
  <2>4. ASSUME NEW i \in 1..n - 1 PROVE Tail(s)[i] = (((g + 1) % W) + i - 1) % W
    <3>1. i + 1 \in 1..n /\ i \in 0..W - 1 /\ i > 0 /\ g + (i + 1) - 1 = g + i
      OBVIOUS
    <3>2. Tail(s)[i] = (g + i) % W
      BY <1>2, <2>2, <3>1
    <3>3. (g + i) % W = (((g + 1) % W) + (i - 1)) % W
      BY <3>1, Numbering
    <3>4. PICK h \in Int : h = (g + 1) % W
      <4>1. 2 \in Nat /\ (g + 2) - 1 = g + 1
        OBVIOUS
      <4>2. (g + 2 - 1) % W \in 0..W - 1
        BY <1>1, <4>1
      <4>3. QED
        BY <4>1, <4>2
    <3>5. h + (i - 1) = h + i - 1
      BY <3>1
    <3>6. QED
      BY <3>2, <3>3, <3>4, <3>5
  <2>5. DOMAIN Tail(s) = 1..n - 1 /\ Tail(s) = [i \in DOMAIN Tail(s) |-> Tail(s)[i]]
    BY <2>2
  <2>6. QED
    BY <2>1, <2>3, <2>4, <2>5
<1>5. s = Numbers(g, n) /\ Numbers(g, 0) = <<>>
  BY DEF Numbers
<1>6. Len(Numbers(g, n)) = n
  BY <1>2, <1>5
<1>7. Append(Numbers(g, n), (g + n) % Wrap) = Numbers(g, n + 1)
  BY <1>3, <1>5 DEF Numbers
<1>8. ASSUME n > 0
      PROVE  /\ Numbers(g, n) # <<>> /\ Head(Numbers(g, n)) = g
             /\ Tail(Numbers(g, n)) = Numbers((g + 1) % Wrap, n - 1)
  BY <1>4, <1>5, <1>8 DEF Numbers
<1>9. QED
  BY <1>5, <1>6, <1>7, <1>8

\* Every step of the endpoint is one of the channel, or leaves it alone.
LEMMA EndpointRefines ==
  ASSUME EndpointInv, CompleteOK, CompleteOK', [Endpoint!Next]_(Endpoint!vars)
  PROVE  [Endpoint!Channel!Next]_(Endpoint!Channel!vars)
<1> USE DEF Endpoint!memory, Endpoint!buffer, Endpoint!pipeVars, Endpoint!threadVars
<1> DEFINE chan == Endpoint!Complete
<1>1. /\ Endpoint!TypeOK /\ EndpointMemory
      /\ got \in 0..Wrap - 1 /\ sent \in 0..Wrap - 1
  BY DEF EndpointInv, Endpoint!TypeOK
<1>2. PICK n \in 0..Credit : \E f \in [1..n -> 1..Len(ring)] :
        /\ Enumerates(f, n) /\ sent = (got + n) % Wrap
        /\ ppc = "write" => n < Credit
        /\ alive => Counts =< n
  BY DEF EndpointInv, Enumerated
<1>3. PICK f \in [1..n -> 1..Len(ring)] :
        /\ Enumerates(f, n) /\ sent = (got + n) % Wrap
        /\ ppc = "write" => n < Credit
        /\ alive => Counts =< n
  BY <1>2
<1>4. n \in Nat /\ n < Wrap /\ n \in 0..Wrap - 1 /\ Wrap \in Nat /\ Credit \in Nat
  BY EndpointAssumed
<1>5. chan = Numbers(got, n)
  BY <1>3, <1>4 DEF CompleteOK
<1>6. CASE Endpoint!PushWrite /\ endpointFailed' = "none" /\ ppc' # "write"
  <2>1. PICK g : Enumerates(g, n + 1)'
    BY <1>3, <1>4, <1>6, EnumPushed
  <2>2. n + 1 \in Nat /\ got' = got /\ n < Credit
    BY <1>3, <1>4, <1>6 DEF Endpoint!PushWrite
  <2>3. chan' = Numbers(got, n + 1)
    BY <2>1, <2>2 DEF CompleteOK
  <2>4. sent' = (sent + 1) % Wrap
    <3>1. LastCell /\ ppc = "write"
      BY <1>6 DEF EndpointInv, Endpoint!PushWrite
    <3>2. IF pushLeft' = 0 THEN sent' = (sent + 1) % Wrap ELSE ppc' = ppc
      BY <1>1, <1>6, <3>1, PartWritten
    <3>3. QED
      BY <1>6, <3>1, <3>2
  <2>5. Len(chan) < Credit /\ chan' = Append(chan, sent)
    BY <1>1, <1>3, <1>4, <1>5, <2>2, <2>3, NumbersAre
  <2>6. QED
    BY <2>2, <2>4, <2>5 DEF Endpoint!Channel!Next, Endpoint!Channel!Send
<1>7. CASE Endpoint!ThreadRead
  <2>1. n > 0
    <3>1. PICK m \in 0..Credit : m = n
      OBVIOUS
    <3>2. alive /\ endpointPc = "read" /\ sem \in Nat /\ Counts =< n
      BY <1>1, <1>3, <1>7 DEF Endpoint!TypeOK, Endpoint!ThreadRead
    <3>3. Counts >= 1
      <4> HIDE <1>7
      <4>1. QED
        BY <3>2 DEF Counts
    <3>4. Counts \in Int
      BY <1>1 DEF Counts, Endpoint!TypeOK
    <3>5. QED
      BY <1>4, <3>2, <3>3, <3>4
  <2>2. PICK g : Enumerates(g, n - 1)'
    BY <1>3, <1>4, <1>7, <2>1, EnumRead
  <2>3. n - 1 \in Nat /\ got' = (got + 1) % Wrap /\ sent' = sent
    BY <1>4, <1>7, <2>1, PacketRead DEF Endpoint!ThreadRead
  <2>4. chan' = Numbers((got + 1) % Wrap, n - 1)
    BY <2>2, <2>3 DEF CompleteOK
  <2>5. chan # <<>> /\ Head(chan) = got /\ chan' = Tail(chan)
    <3> HIDE DEF chan
    <3>1. QED
      BY <1>1, <1>4, <1>5, <2>1, <2>4, NumbersAre
  <2>6. QED
    BY <2>3, <2>5 DEF Endpoint!Channel!Next, Endpoint!Channel!Receive
<1>8. CASE Endpoint!DestroyFree
  <2>1. ring' = <<>> /\ sent' = 0 /\ got' = 0 /\ Len(ring') = 0
    BY <1>8 DEF Endpoint!DestroyFree
  <2>2. PICK g : g = [i \in 1..0 |-> 1]
    OBVIOUS
  <2>3. Enumerates(g, 0)'
    BY <2>1, <2>2 DEF Enumerates
  <2>4. chan' = <<>>
    <3>1. 0 \in Nat
      OBVIOUS
    <3>2. chan' = Numbers(got', 0)
      BY <2>3, <3>1 DEF CompleteOK
    <3>3. QED
      BY <3>2 DEF Numbers
  <2>5. QED
    BY <2>1, <2>4 DEF Endpoint!Channel!Next, Endpoint!Channel!Close
<1>9. CASE Endpoint!PushWrite /\ endpointFailed' = "none" /\ ppc' = "write"
  <2>1. Enumerates(f, n)' /\ UNCHANGED <<sent, got>>
    <3>1. Enumerates(f, n)'
      BY <1>3, <1>4, <1>9, EnumPushed
    <3>2. QED
      BY <1>9, <3>1 DEF Endpoint!PushWrite
  <2>2. chan' = chan
    BY <1>4, <1>5, <2>1 DEF CompleteOK
  <2>3. QED
    BY <2>1, <2>2 DEF Endpoint!Channel!vars
<1>10. CASE \/ Endpoint!PushWrite /\ endpointFailed' # "none"
            \/ Endpoint!Create \/ Endpoint!Push \/ Endpoint!PushPost \/ Endpoint!Destroy
            \/ Endpoint!ThreadLoop \/ Endpoint!ThreadWake \/ Endpoint!ThreadTimeout
            \/ Endpoint!ThreadPeek \/ Endpoint!ThreadConsume \/ Endpoint!ThreadFreed
            \/ UNCHANGED Endpoint!vars
  <2>1. UNCHANGED <<ring, sent, got>>
    BY <1>10 DEF Endpoint!PushWrite, Endpoint!Running, Endpoint!Create, Endpoint!Push,
                 Endpoint!PushPost, Endpoint!Destroy, Endpoint!ThreadLoop, Endpoint!ThreadWake,
                 Endpoint!ThreadTimeout, Endpoint!ThreadPeek, Endpoint!ThreadConsume,
                 Endpoint!ThreadFreed, Endpoint!vars
  <2>2. Enumerates(f, n)'
    BY <1>3, <2>1, EnumKept
  <2>3. chan' = chan
    BY <1>4, <1>5, <2>1, <2>2 DEF CompleteOK
  <2>4. QED
    BY <2>1, <2>3 DEF Endpoint!Channel!vars
<1>11. QED
  BY <1>6, <1>7, <1>8, <1>9, <1>10 DEF Endpoint!Next, Endpoint!Pipe, Endpoint!Thread

(***************************************************************************)
(* The buffer implements a channel: the endpoint's thread reads the        *)
(* packets that the pipe pushed, whole and in the order in which they were *)
(* pushed, into however many parts they are written and whatever lengths   *)
(* their headers announce.                                                 *)
(***************************************************************************)
THEOREM ServicesChannel == Spec => ChannelSpec
<1>1. Init => Endpoint!Channel!Init
  <2> SUFFICES ASSUME Init PROVE Endpoint!Channel!Init
    OBVIOUS
  <2>1. EndpointInv /\ sent = 0 /\ got = 0 /\ ring = <<>>
    BY EndpointInit DEF Init, Endpoint!Init
  <2>2. PICK g : g = [i \in 1..0 |-> 1]
    OBVIOUS
  <2>3. Enumerates(g, 0)
    BY <2>1, <2>2 DEF Enumerates
  <2>4. Endpoint!Complete = Numbers(got, 0) /\ 0 \in Nat
    BY <2>1, <2>3, CompleteNow DEF CompleteOK
  <2>5. Endpoint!Complete = <<>>
    BY <2>4 DEF Numbers
  <2>6. QED
    BY <2>1, <2>5 DEF Endpoint!Channel!Init
<1>2. EndpointInv /\ CompleteOK /\ CompleteOK' /\ [Next]_vars
        => [Endpoint!Channel!Next]_(Endpoint!Channel!vars)
  BY EndpointRefines, EndpointMoves
<1>3. QED
  BY <1>1, <1>2, CompleteNow, EndpointInvariant, PTL
     DEF Spec, ChannelSpec, Endpoint!ChannelSpec, Endpoint!Channel!Spec

(***************************************************************************)
(* Every variable of the four models has its type, for every value of the  *)
(* constants: in particular no buffer ever holds more than it has room     *)
(* for, and no number leaves its range.                                    *)
(***************************************************************************)
THEOREM ServicesTypes == Spec => []TypeOK
<1>1. BinaryInv /\ RpcInv /\ SerialInv /\ EndpointInv => TypeOK
  BY DEF BinaryInv, RpcInv, SerialInv, EndpointInv, TypeOK
<1>2. QED
  BY <1>1, BinaryInvariant, RpcInvariant, SerialInvariant, EndpointInvariant, PTL
=============================================================================
