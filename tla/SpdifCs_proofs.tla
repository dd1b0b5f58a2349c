--------------------------- MODULE SpdifCs_proofs ---------------------------
(***************************************************************************)
(* Proofs about the channel status, for any number of statuses, changes    *)
(* and repetitions: types, that the SAI is open when it is read, and that  *)
(* a status is decoded often enough before it is reported.                 *)
(***************************************************************************)
EXTENDS SpdifCs, TLAPS

(***************************************************************************)
(* The thread that is about to count has not reached the limit yet, though *)
(* the count may have been reset behind its back.                          *)
(***************************************************************************)
StoreInv == tpc = "store" => seen < Redundancy

(***************************************************************************)
(* The flag ACTIVE stands for a SAI that is open, but inside of            *)
(* spdif_cs_start, and the thread reads with the mutex and the flag.       *)
(***************************************************************************)
SaiInv ==
    /\ active /\ dpc # "clear" => sai # "closed"
    /\ tpc = "reading" => active /\ dpc # "clear"

\* The count after one more
More(c) == IF c < Redundancy THEN c + 1 ELSE Redundancy

(***************************************************************************)
(* Where no start has met the thread in a round (crossed = "no"), the      *)
(* count is no more than what was decoded in a row, at every point of a    *)
(* round.                                                                  *)
(***************************************************************************)
Current == streak.v = csBuff[cur] /\ count <= streak.n

AtStart == dpc = "clear" => tpc = "wait" /\ streak = NoStreak /\ csBuff[cur] = Zero

AtRest == tpc \in {"wait", "acquire", "reading", "decode"} /\ dpc # "clear" => Current

AtCompare ==
    tpc = "compare" /\ streak.v = csBuff[cur] => More(count) <= streak.n

AtCount ==
    /\ tpc \in {"count", "store", "check", "publish", "queue"} => Current
    /\ tpc = "count" => More(count) <= streak.n
    /\ tpc = "store" => seen = count /\ More(count) <= streak.n
    /\ tpc = "publish" => count = Redundancy

CountInv ==
    /\ trusted
    /\ dpc = "clear" /\ crossed # "round" => tpc = "wait"
    /\ tpc = "compare" /\ crossed # "round" => csBuff[1 - cur] = streak.v /\ streak.n >= 1
    /\ crossed = "no" => AtStart /\ AtRest /\ AtCompare /\ AtCount

Inv == TypeOK /\ StoreInv /\ SaiInv /\ CountInv

-----------------------------------------------------------------------------
\* Types: the initial state, and every step
LEMMA TypeInit == Init => TypeOK
  BY SpdifCsAssumption DEF Init, TypeOK, Shown, Zero, Error, NoStreak

\* Every step keeps the types, given what the thread is about to store.
LEMMA TypeStep ==
  ASSUME TypeOK, StoreInv, [Next]_vars
  PROVE  TypeOK'
<1>1. CASE DpllChange
  BY <1>1, SpdifCsAssumption
     DEF DpllChange, Turn, TypeOK, Shown, driver, status, thread, history
<1>2. CASE LineChange
  BY <1>2, SpdifCsAssumption
     DEF LineChange, Turn, TypeOK, Shown, driver, status, thread, history
<1>3. CASE IsrLocked
  BY <1>3, SpdifCsAssumption
     DEF IsrLocked, TypeOK, Shown, env, status, thread, history
<1>4. CASE IsrLost
  <2>1. dpcs' \in Seq({"rate", "lost", "change", "data"})
    BY <1>4 DEF IsrLost, TypeOK
  <2>2. locked' \in BOOLEAN /\ warm' \in BOOLEAN
    BY <1>4 DEF IsrLost
  <2>3. /\ shown' = Zero /\ given' = Zero
        /\ UNCHANGED <<env, port, fs, worker, dpc, apc, told, status, thread, spdifHalted, turns,
                       history>>
    BY <1>4 DEF IsrLost
  <2>4. QED
    BY <2>1, <2>2, <2>3, SpdifCsAssumption
       DEF TypeOK, Shown, Zero, env, status, thread, history
<1>5. CASE WorkerPeriod
  <2>1. warm' \in BOOLEAN
    BY <1>5, Zenon DEF WorkerPeriod, TypeOK
  <2>2. fs' \in Rates \cup {NoRate} /\ worker' \in {"idle", "parse", "rate"}
    BY <1>5 DEF WorkerPeriod, Measured, TypeOK
  <2>3. UNCHANGED <<env, port, locked, shown, given, dpcs, dpc, apc, told, status, thread,
                    spdifHalted, turns, history>>
    BY <1>5 DEF WorkerPeriod
  <2>4. QED
    BY <2>1, <2>2, <2>3 DEF TypeOK, Shown, env, status, thread, history
<1>6. CASE WorkerParse
  BY <1>6, SpdifCsAssumption
     DEF WorkerParse, TypeOK, Shown, env, status, thread, history
<1>7. CASE WorkerQueue
  BY <1>7, SpdifCsAssumption
     DEF WorkerQueue, TypeOK, Shown, env, driver, status, thread, history
<1>8. CASE RxSetup
  <2>1. locked' \in BOOLEAN /\ warm' \in BOOLEAN
    BY <1>8 DEF RxSetup
  <2>2. QED
    BY <1>8, <2>1, SpdifCsAssumption
       DEF RxSetup, TypeOK, Shown, env, status, thread, history
<1>9. CASE RxStart
  BY <1>9, SpdifCsAssumption
     DEF RxStart, Turn, TypeOK, Shown, Zero, env, status, thread, history
<1>10. CASE RxStop
  <2>1. locked' \in BOOLEAN /\ warm' \in BOOLEAN
    BY <1>10 DEF RxStop
  <2>2. QED
    BY <1>10, <2>1, SpdifCsAssumption
       DEF RxStop, TypeOK, Shown, env, status, thread, history
<1>11. CASE RxStopStatus
  <2>1. active' \in BOOLEAN /\ event' \in BOOLEAN
    BY <1>11, Zenon DEF RxStopStatus, Stop, TypeOK
  <2>2. QED
    BY <1>11, <2>1, SpdifCsAssumption
       DEF RxStopStatus, Stop, TypeOK, Shown, env, driver, thread, history
<1>12. CASE DpcChange
  BY <1>12, SpdifCsAssumption
     DEF DpcChange, Take, TypeOK, Shown, env, driver, status, thread, history
<1>13. CASE DpcLost
  <2>1. active' \in BOOLEAN /\ event' \in BOOLEAN
    BY <1>13, Zenon DEF DpcLost, Stop, TypeOK
  <2>2. QED
    BY <1>13, <2>1, SpdifCsAssumption
       DEF DpcLost, Stop, Take, TypeOK, Shown, env, driver, thread, history
<1>14. CASE DpcData
  BY <1>14, SpdifCsAssumption
     DEF DpcData, Take, MutexFree, TypeOK, Shown, env, status, thread, history
<1>15. CASE DpcStart
  <2>1. active' \in BOOLEAN
    BY <1>15, Zenon DEF DpcStart, TypeOK
  <2>2. dpc' \in {"idle", "clear", "signal"} /\ csRate' \in Rates \cup {NoRate}
    BY <1>15 DEF DpcStart, TypeOK
  <2>3. csBuff' \in [0..1 -> Shown]
    BY <1>15 DEF DpcStart, TypeOK, Shown
  <2>4. /\ streak' \in [v : Shown, n : 0..Redundancy]
        /\ crossed' \in {"no", "round", "count"}
        /\ trusted' = trusted
    BY <1>15, SpdifCsAssumption DEF DpcStart, TypeOK, Shown, NoStreak, history
  <2>5. /\ dpcs' = Tail(dpcs) /\ dpcs # <<>>
        /\ UNCHANGED <<env, driver, worker, apc, told, event, sai, cur, csData, count, thread,
                       spdifHalted, turns>>
    BY <1>15 DEF DpcStart, Take
  <2>6. QED
    BY <2>1, <2>2, <2>3, <2>4, <2>5, SpdifCsAssumption
       DEF TypeOK, Shown, env, driver, thread
<1>16. CASE DpcClear
  BY <1>16, SpdifCsAssumption
     DEF DpcClear, Forgotten, TypeOK, Shown, Zero, env, driver, thread, history
<1>17. CASE DpcSignal
  BY <1>17, SpdifCsAssumption
     DEF DpcSignal, TypeOK, Shown, env, driver, thread, history
<1>18. CASE Configure
  BY <1>18, SpdifCsAssumption
     DEF Configure, Again, Goto, MutexFree, TypeOK, Shown, env, driver, history
<1>19. CASE Acquire
  <2>1. spdifHalted' \in BOOLEAN
    BY <1>19, Zenon DEF Acquire, TypeOK
  <2>2. QED
    BY <1>19, <2>1, SpdifCsAssumption
       DEF Acquire, Again, Goto, TypeOK, Shown, env, driver, status, history
<1>20. CASE ReadDone
  BY <1>20, SpdifCsAssumption
     DEF ReadDone, Goto, Turn, TypeOK, Shown, Error, env, driver, status, history
<1>21. CASE Decode
  BY <1>21, SpdifCsAssumption
     DEF Decode, Again, TypeOK, Shown, Error, env, driver
<1>22. CASE Compare
  BY <1>22, SpdifCsAssumption
     DEF Compare, Recount, TypeOK, Shown, env, driver
<1>23. CASE CountRead
  BY <1>23, SpdifCsAssumption
     DEF CountRead, Again, Goto, Below, TypeOK, Shown, env, driver, status, history
<1>24. CASE CountStore
  BY <1>24, SpdifCsAssumption
     DEF CountStore, Goto, TypeOK, StoreInv, Shown, env, driver, history
<1>25. CASE Check
  BY <1>25, SpdifCsAssumption
     DEF Check, Again, Goto, Notifies, TypeOK, Shown, env, driver, status, history
<1>26. CASE Publish
  BY <1>26, SpdifCsAssumption
     DEF Publish, MutexFree, TypeOK, Shown, env, driver
<1>27. CASE QueueData
  BY <1>27, SpdifCsAssumption
     DEF QueueData, Again, TypeOK, Shown, env, driver, status
<1>28. CASE UNCHANGED vars
  BY <1>28
     DEF vars, TypeOK, Shown, env, driver, status, thread, history
<1>29. CASE WorkerWake
  BY <1>29, SpdifCsAssumption
     DEF WorkerWake, TypeOK, Shown, env, driver, status, thread, history
<1>30. QED
  BY <1>1, <1>2, <1>3, <1>4, <1>5, <1>6, <1>7, <1>8, <1>9, <1>10, <1>11, <1>12, <1>13,
     <1>14, <1>15, <1>16, <1>17, <1>18, <1>19, <1>20, <1>21, <1>22, <1>23, <1>24, <1>25,
     <1>26, <1>27, <1>28, <1>29
     DEF Next, Worker, Dpc, Thread

\* Every step keeps the thread below the limit when it is about to count.
LEMMA StoreStep ==
  ASSUME TypeOK, StoreInv, [Next]_vars
  PROVE  StoreInv'
<1>1. CASE DpllChange
  BY <1>1 DEF DpllChange, Turn, StoreInv, driver, status, thread, history
<1>2. CASE LineChange
  BY <1>2 DEF LineChange, Turn, StoreInv, driver, status, thread, history
<1>3. CASE IsrLocked
  BY <1>3 DEF IsrLocked, StoreInv, env, status, thread, history
<1>4. CASE IsrLost
  BY <1>4 DEF IsrLost, StoreInv, env, status, thread, history
<1>5. CASE WorkerPeriod
  BY <1>5 DEF WorkerPeriod, StoreInv, env, status, thread, history
<1>6. CASE WorkerParse
  BY <1>6 DEF WorkerParse, StoreInv, env, status, thread, history
<1>7. CASE WorkerQueue
  BY <1>7 DEF WorkerQueue, StoreInv, env, driver, status, thread, history
<1>8. CASE RxSetup
  BY <1>8 DEF RxSetup, StoreInv, env, status, thread, history
<1>9. CASE RxStart
  BY <1>9 DEF RxStart, Turn, StoreInv, env, status, thread, history
<1>10. CASE RxStop
  BY <1>10 DEF RxStop, StoreInv, env, status, thread, history
<1>11. CASE RxStopStatus
  BY <1>11 DEF RxStopStatus, Stop, MutexFree, StoreInv, env, driver, thread, history
<1>12. CASE DpcChange
  BY <1>12 DEF DpcChange, Take, StoreInv, env, driver, status, thread, history
<1>13. CASE DpcLost
  BY <1>13 DEF DpcLost, Take, Stop, MutexFree, StoreInv, env, driver, thread, history
<1>14. CASE DpcData
  BY <1>14 DEF DpcData, Take, MutexFree, StoreInv, env, status, thread, history
<1>15. CASE DpcStart
  BY <1>15 DEF DpcStart, Take, MutexFree, StoreInv, env, driver, thread, history
<1>16. CASE DpcClear
  BY <1>16 DEF DpcClear, Forgotten, StoreInv, env, driver, thread, history
<1>17. CASE DpcSignal
  BY <1>17 DEF DpcSignal, StoreInv, env, driver, thread, history
<1>18. CASE Configure
  BY <1>18 DEF Configure, Again, Goto, MutexFree, StoreInv, env, driver, history
<1>19. CASE Acquire
  BY <1>19
     DEF Acquire, Again, Goto, MutexFree, StillActive, StoreInv, env, driver, status,
         history
<1>20. CASE ReadDone
  BY <1>20 DEF ReadDone, Goto, Turn, StoreInv, env, driver, status, history
<1>21. CASE Decode
  BY <1>21 DEF Decode, Again, StoreInv, env, driver
<1>22. CASE Compare
  BY <1>22 DEF Compare, Recount, StoreInv, env, driver
<1>23. CASE CountRead
  BY <1>23 DEF CountRead, Again, Goto, Below, StoreInv, env, driver, status, history
<1>24. CASE CountStore
  BY <1>24 DEF CountStore, Goto, StoreInv, env, driver, history
<1>25. CASE Check
  BY <1>25 DEF Check, Again, Goto, Notifies, StoreInv, env, driver, status, history
<1>26. CASE Publish
  BY <1>26 DEF Publish, MutexFree, StoreInv, env, driver
<1>27. CASE QueueData
  BY <1>27 DEF QueueData, Again, StoreInv, env, driver, status
<1>28. CASE UNCHANGED vars
  BY <1>28 DEF vars, StoreInv, env, driver, status, thread, history
<1>29. CASE WorkerWake
  BY <1>29 DEF WorkerWake, StoreInv, env, driver, status, thread, history
<1>30. QED
  BY <1>1, <1>2, <1>3, <1>4, <1>5, <1>6, <1>7, <1>8, <1>9, <1>10, <1>11, <1>12, <1>13,
     <1>14, <1>15, <1>16, <1>17, <1>18, <1>19, <1>20, <1>21, <1>22, <1>23, <1>24, <1>25,
     <1>26, <1>27, <1>28, <1>29
     DEF Next, Worker, Dpc, Thread

\* Every step keeps the SAI open for a reader.
LEMMA SaiStep ==
  ASSUME TypeOK, SaiInv, [Next]_vars
  PROVE  SaiInv'
<1>1. CASE DpllChange
  BY <1>1 DEF DpllChange, Turn, TypeOK, SaiInv, driver, status, thread, history
<1>2. CASE LineChange
  BY <1>2 DEF LineChange, Turn, TypeOK, SaiInv, driver, status, thread, history
<1>3. CASE IsrLocked
  BY <1>3 DEF IsrLocked, TypeOK, SaiInv, env, status, thread, history
<1>4. CASE IsrLost
  BY <1>4 DEF IsrLost, TypeOK, SaiInv, env, status, thread, history
<1>5. CASE WorkerPeriod
  BY <1>5 DEF WorkerPeriod, TypeOK, SaiInv, env, status, thread, history
<1>6. CASE WorkerParse
  BY <1>6 DEF WorkerParse, TypeOK, SaiInv, env, status, thread, history
<1>7. CASE WorkerQueue
  BY <1>7 DEF WorkerQueue, TypeOK, SaiInv, env, driver, status, thread, history
<1>8. CASE RxSetup
  BY <1>8 DEF RxSetup, TypeOK, SaiInv, env, status, thread, history
<1>9. CASE RxStart
  BY <1>9 DEF RxStart, Turn, TypeOK, SaiInv, env, status, thread, history
<1>10. CASE RxStop
  BY <1>10 DEF RxStop, TypeOK, SaiInv, env, status, thread, history
<1>11. CASE RxStopStatus
  BY <1>11 DEF RxStopStatus, Stop, MutexFree, TypeOK, SaiInv, env, driver, thread, history
<1>12. CASE DpcChange
  BY <1>12 DEF DpcChange, Take, TypeOK, SaiInv, env, driver, status, thread, history
<1>13. CASE DpcLost
  BY <1>13 DEF DpcLost, Take, Stop, MutexFree, TypeOK, SaiInv, env, driver, thread, history
<1>14. CASE DpcData
  BY <1>14 DEF DpcData, Take, MutexFree, TypeOK, SaiInv, env, status, thread, history
<1>15. CASE DpcStart
  BY <1>15 DEF DpcStart, Take, MutexFree, TypeOK, SaiInv, env, driver, thread, history
<1>16. CASE DpcClear
  BY <1>16 DEF DpcClear, Forgotten, TypeOK, SaiInv, env, driver, thread, history
<1>17. CASE DpcSignal
  BY <1>17 DEF DpcSignal, TypeOK, SaiInv, env, driver, thread, history
<1>18. CASE Configure
  BY <1>18 DEF Configure, Again, Goto, MutexFree, TypeOK, SaiInv, env, driver, history
<1>19. CASE Acquire
  BY <1>19
     DEF Acquire, Again, Goto, MutexFree, StillActive, TypeOK, SaiInv, env, driver, status,
         history
<1>20. CASE ReadDone
  BY <1>20 DEF ReadDone, Goto, Turn, TypeOK, SaiInv, env, driver, status, history
<1>21. CASE Decode
  BY <1>21 DEF Decode, Again, TypeOK, SaiInv, env, driver
<1>22. CASE Compare
  BY <1>22 DEF Compare, Recount, TypeOK, SaiInv, env, driver
<1>23. CASE CountRead
  BY <1>23 DEF CountRead, Again, Goto, Below, TypeOK, SaiInv, env, driver, status, history
<1>24. CASE CountStore
  BY <1>24 DEF CountStore, Goto, TypeOK, SaiInv, env, driver, history
<1>25. CASE Check
  BY <1>25 DEF Check, Again, Goto, Notifies, TypeOK, SaiInv, env, driver, status, history
<1>26. CASE Publish
  BY <1>26 DEF Publish, MutexFree, TypeOK, SaiInv, env, driver
<1>27. CASE QueueData
  BY <1>27 DEF QueueData, Again, TypeOK, SaiInv, env, driver, status
<1>28. CASE UNCHANGED vars
  BY <1>28 DEF vars, TypeOK, SaiInv, env, driver, status, thread, history
<1>29. CASE WorkerWake
  BY <1>29 DEF WorkerWake, TypeOK, SaiInv, env, driver, status, thread, history
<1>30. QED
  BY <1>1, <1>2, <1>3, <1>4, <1>5, <1>6, <1>7, <1>8, <1>9, <1>10, <1>11, <1>12, <1>13,
     <1>14, <1>15, <1>16, <1>17, <1>18, <1>19, <1>20, <1>21, <1>22, <1>23, <1>24, <1>25,
     <1>26, <1>27, <1>28, <1>29
     DEF Next, Worker, Dpc, Thread

(***************************************************************************)
(* Every step keeps the count below the streak: where no start has met a   *)
(* round, only Decode lengthens the streak, and only after it the count    *)
(* goes on.                                                                *)
(***************************************************************************)
LEMMA CountStep ==
  ASSUME TypeOK, StoreInv, CountInv, [Next]_vars
  PROVE  CountInv'
<1>1. CASE DpllChange
  BY <1>1, SpdifCsAssumption
     DEF DpllChange, TypeOK, CountInv, AtStart, AtRest, AtCompare, AtCount, Current, More,
         NoStreak, Zero, Shown, driver, status, thread, history
<1>2. CASE LineChange
  BY <1>2, SpdifCsAssumption
     DEF LineChange, TypeOK, CountInv, AtStart, AtRest, AtCompare, AtCount, Current, More,
         NoStreak, Zero, Shown, driver, status, thread, history
<1>3. CASE IsrLocked
  BY <1>3, SpdifCsAssumption
     DEF IsrLocked, TypeOK, CountInv, AtStart, AtRest, AtCompare, AtCount, Current, More,
         NoStreak, Zero, Shown, env, status, thread, history
<1>4. CASE IsrLost
  BY <1>4, SpdifCsAssumption
     DEF IsrLost, TypeOK, CountInv, AtStart, AtRest, AtCompare, AtCount, Current, More,
         NoStreak, Zero, Shown, env, status, thread, history
<1>5. CASE WorkerPeriod
  BY <1>5, SpdifCsAssumption
     DEF WorkerPeriod, TypeOK, CountInv, AtStart, AtRest, AtCompare, AtCount, Current, More,
         NoStreak, Zero, Shown, env, status, thread, history
<1>6. CASE WorkerParse
  BY <1>6, SpdifCsAssumption
     DEF WorkerParse, TypeOK, CountInv, AtStart, AtRest, AtCompare, AtCount, Current, More,
         NoStreak, Zero, Shown, env, status, thread, history
<1>7. CASE WorkerQueue
  BY <1>7, SpdifCsAssumption
     DEF WorkerQueue, TypeOK, CountInv, AtStart, AtRest, AtCompare, AtCount, Current, More,
         NoStreak, Zero, Shown, env, driver, status, thread, history
<1>8. CASE RxSetup
  BY <1>8, SpdifCsAssumption
     DEF RxSetup, TypeOK, CountInv, AtStart, AtRest, AtCompare, AtCount, Current, More,
         NoStreak, Zero, Shown, env, status, thread, history
<1>9. CASE RxStart
  BY <1>9, SpdifCsAssumption
     DEF RxStart, TypeOK, CountInv, AtStart, AtRest, AtCompare, AtCount, Current, More,
         NoStreak, Zero, Shown, env, status, thread, history
<1>10. CASE RxStop
  BY <1>10, SpdifCsAssumption
     DEF RxStop, TypeOK, CountInv, AtStart, AtRest, AtCompare, AtCount, Current, More,
         NoStreak, Zero, Shown, env, status, thread, history
<1>11. CASE RxStopStatus
  BY <1>11, SpdifCsAssumption
     DEF RxStopStatus, Stop, MutexFree, TypeOK, CountInv, AtStart, AtRest, AtCompare,
         AtCount, Current, More, NoStreak, Zero, Shown, env, driver, thread, history
<1>12. CASE DpcChange
  BY <1>12, SpdifCsAssumption
     DEF DpcChange, Take, TypeOK, CountInv, AtStart, AtRest, AtCompare, AtCount, Current,
         More, NoStreak, Zero, Shown, env, driver, status, thread, history
<1>13. CASE DpcLost
  BY <1>13, SpdifCsAssumption
     DEF DpcLost, Take, Stop, MutexFree, TypeOK, CountInv, AtStart, AtRest, AtCompare,
         AtCount, Current, More, NoStreak, Zero, Shown, env, driver, thread, history
<1>14. CASE DpcData
  BY <1>14, SpdifCsAssumption
     DEF DpcData, Take, MutexFree, TypeOK, CountInv, AtStart, AtRest, AtCompare, AtCount,
         Current, More, NoStreak, Zero, Shown, env, status, thread, history
<1>15. CASE DpcStart
  BY <1>15, SpdifCsAssumption
     DEF DpcStart, Take, MutexFree, TypeOK, CountInv, AtStart, AtRest, AtCompare, AtCount,
         Current, More, NoStreak, Zero, Shown, env, driver, thread, history
<1>16. CASE DpcClear
  BY <1>16, SpdifCsAssumption
     DEF DpcClear, Forgotten, TypeOK, CountInv, AtStart, AtRest, AtCompare, AtCount,
         Current, More, NoStreak, Zero, Shown, env, driver, thread, history
<1>17. CASE DpcSignal
  BY <1>17, SpdifCsAssumption
     DEF DpcSignal, TypeOK, CountInv, AtStart, AtRest, AtCompare, AtCount, Current, More,
         NoStreak, Zero, Shown, env, driver, thread, history
<1>18. CASE Configure
  BY <1>18, SpdifCsAssumption
     DEF Configure, Again, Goto, MutexFree, TypeOK, CountInv, AtStart, AtRest, AtCompare,
         AtCount, Current, More, NoStreak, Zero, Shown, env, driver, history
<1>19. CASE Acquire
  BY <1>19, SpdifCsAssumption
     DEF Acquire, Again, Goto, MutexFree, StillActive, TypeOK, CountInv, AtStart, AtRest,
         AtCompare, AtCount, Current, More, NoStreak, Zero, Shown, env, driver, status,
         history
<1>20. CASE ReadDone
  BY <1>20, SpdifCsAssumption
     DEF ReadDone, Goto, TypeOK, CountInv, AtStart, AtRest, AtCompare, AtCount, Current,
         More, NoStreak, Zero, Shown, env, driver, status, history
<1>21. CASE Decode
  <2>1. CASE sample = Error
    BY <1>21, <2>1
       DEF Decode, Again, TypeOK, CountInv, AtStart, AtRest, AtCompare, AtCount, Current,
           More, driver
  <2>2. CASE sample # Error
    <3>1. /\ cur \in 0..1 /\ 1 - cur \in 0..1 /\ cur # 1 - cur
          /\ csBuff \in [0..1 -> Shown] /\ streak \in [v : Shown, n : 0..Redundancy]
          /\ count \in 0..Redundancy /\ Redundancy \in Nat \ {0}
      BY SpdifCsAssumption DEF TypeOK
    <3>2. /\ tpc = "decode" /\ tpc' = "compare"
          /\ UNCHANGED <<cur, count, dpc, crossed, trusted>>
          /\ csBuff' = [csBuff EXCEPT ![1 - cur] = sample]
          /\ streak' = [v |-> sample,
                        n |-> IF streak.v # sample THEN 1
                              ELSE IF streak.n < Redundancy THEN streak.n + 1 ELSE streak.n]
      BY <1>21, <2>2 DEF Decode
    <3>3. csBuff'[1 - cur] = sample /\ csBuff'[cur] = csBuff[cur]
      BY <3>1, <3>2
    <3>4. streak'.v = sample /\ streak'.n >= 1
      BY <3>1, <3>2
    <3>5. dpc # "clear" \/ crossed = "round"
      BY <3>2 DEF CountInv
    <3>6. CASE crossed = "no"
      <4>1. Current
        BY <3>2, <3>5, <3>6 DEF CountInv, AtRest
      <4>2. streak'.v = csBuff'[cur] => More(count) =< streak'.n
        BY <4>1, <3>1, <3>2, <3>3 DEF Current, More
      <4>3. QED
        BY <4>2, <3>2, <3>3, <3>4, <3>5, <3>6
           DEF CountInv, AtStart, AtRest, AtCompare, AtCount, More
    <3>7. CASE crossed # "no"
      BY <3>2, <3>3, <3>4, <3>5, <3>7 DEF CountInv
    <3>8. QED
      BY <3>6, <3>7
  <2>3. QED
    BY <2>1, <2>2
<1>22. CASE Compare
  BY <1>22, SpdifCsAssumption
     DEF Compare, Recount, TypeOK, CountInv, AtStart, AtRest, AtCompare, AtCount, Current,
         More, NoStreak, Zero, Shown, env, driver
<1>23. CASE CountRead
  BY <1>23, SpdifCsAssumption
     DEF CountRead, Again, Goto, Below, TypeOK, CountInv, AtStart, AtRest, AtCompare,
         AtCount, Current, More, NoStreak, Zero, Shown, env, driver, status, history
<1>24. CASE CountStore
  BY <1>24, SpdifCsAssumption
     DEF CountStore, Goto, TypeOK, StoreInv, CountInv, AtStart, AtRest, AtCompare, AtCount,
         Current, More, Shown, env, driver, history
<1>25. CASE Check
  BY <1>25, SpdifCsAssumption
     DEF Check, Again, Goto, Notifies, TypeOK, CountInv, AtStart, AtRest, AtCompare,
         AtCount, Current, More, NoStreak, Zero, Shown, env, driver, status, history
<1>26. CASE Publish
  <2>1. trusted'
    <3>1. CASE crossed = "no"
      <4>1. streak.v = csBuff[cur] /\ count =< streak.n /\ count = Redundancy
        BY <1>26, <3>1 DEF Publish, CountInv, AtCount, Current
      <4>2. streak \in [v : Shown, n : 0..Redundancy] /\ Redundancy \in Nat
        BY SpdifCsAssumption DEF TypeOK
      <4>3. streak.n = Redundancy
        BY <4>1, <4>2
      <4>4. streak = [v |-> csBuff[cur], n |-> Redundancy]
        BY <4>1, <4>2, <4>3
      <4>5. QED
        BY <1>26, <4>4 DEF Publish, CountInv
    <3>2. CASE crossed # "no"
      BY <1>26, <3>2 DEF Publish, CountInv
    <3>3. QED
      BY <3>1, <3>2
  <2>2. /\ tpc = "publish" /\ tpc' = "queue"
        /\ UNCHANGED <<cur, csBuff, count, dpc, crossed, streak>>
    BY <1>26 DEF Publish
  <2>3. QED
    BY <2>1, <2>2 DEF CountInv, AtStart, AtRest, AtCompare, AtCount, Current, More
<1>27. CASE QueueData
  BY <1>27, SpdifCsAssumption
     DEF QueueData, Again, TypeOK, CountInv, AtStart, AtRest, AtCompare, AtCount, Current,
         More, NoStreak, Zero, Shown, env, driver, status
<1>28. CASE UNCHANGED vars
  BY <1>28
     DEF vars, CountInv, AtStart, AtRest, AtCompare, AtCount, Current, status, thread,
         history
<1>29. CASE WorkerWake
  BY <1>29
     DEF WorkerWake, CountInv, AtStart, AtRest, AtCompare, AtCount, Current, status, thread,
         history
<1>30. QED
  BY <1>1, <1>2, <1>3, <1>4, <1>5, <1>6, <1>7, <1>8, <1>9, <1>10, <1>11, <1>12, <1>13,
     <1>14, <1>15, <1>16, <1>17, <1>18, <1>19, <1>20, <1>21, <1>22, <1>23, <1>24, <1>25,
     <1>26, <1>27, <1>28, <1>29
     DEF Next, Worker, Dpc, Thread

-----------------------------------------------------------------------------
\* The invariant of the specification
LEMMA InvInit == Init => Inv
  BY TypeInit, SpdifCsAssumption
     DEF Init, Inv, StoreInv, SaiInv, CountInv, AtStart, AtRest, AtCompare, AtCount,
         Current, NoStreak, Zero

\* Every step keeps the invariant.
LEMMA InvStep == Inv /\ [Next]_vars => Inv'
  BY TypeStep, StoreStep, SaiStep, CountStep DEF Inv

\* The invariant holds in every state.
LEMMA Invariance == Spec => []Inv
  BY InvInit, InvStep, PTL DEF Spec

(***************************************************************************)
(* Every variable has its type: the count of a status stays within the     *)
(* redundancy, although a start resets it behind the back of the thread.   *)
(***************************************************************************)
THEOREM TypeCorrect == Spec => []TypeOK
  BY Invariance, PTL DEF Inv

(***************************************************************************)
(* The SAI is open whenever the thread reads it, whatever the order of     *)
(* lost clocks, starts and stops.                                          *)
(***************************************************************************)
THEOREM OpenWhenRead == Spec => []SaiIsOpen
<1>1. Inv => SaiIsOpen
  BY DEF Inv, SaiInv, SaiIsOpen
<1>2. QED
  BY <1>1, Invariance, PTL

(***************************************************************************)
(* What the thread publishes has been decoded Redundancy times in a row,   *)
(* unless a start has met it in a round.                                   *)
(***************************************************************************)
THEOREM Redundant == Spec => []RedundantReport
<1>1. Inv => RedundantReport
  BY DEF Inv, CountInv, RedundantReport
<1>2. QED
  BY <1>1, Invariance, PTL
=============================================================================
