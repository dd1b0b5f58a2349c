------------------------- MODULE IvshmVring_proofs --------------------------
(***************************************************************************)
(* Proofs about the rings of one direction of the ivshmem pipe, for every  *)
(* value of the constants that VringAssumption admits: the types, the      *)
(* place of every descriptor, what lies in the data ring, and, for callers *)
(* that keep one frame outstanding, that a descriptor is always free.      *)
(* Vring_proofs draws the theorems about the two instances of MCVring.     *)
(***************************************************************************)
EXTENDS IvshmVring, FiniteSetTheorems, NaturalsInduction, WellFoundedInduction, TLAPS

\* A set of numbers that is not empty has a least one.
LEMMA Least ==
  ASSUME NEW T \in SUBSET Nat, T # {}
  PROVE  \E m \in T : \A k \in T : m <= k
<1>1. PICK m \in T : \A k \in T : ~(<<k, m>> \in OpToRel(<, Nat))
  BY WFMin, NatLessThanWellFounded
<1>2. \A k \in T : m <= k
  <2> TAKE k \in T
  <2>1. m \in Nat /\ k \in Nat
    OBVIOUS
  <2>2. ~(k < m)
    BY <1>1, <2>1 DEF OpToRel
  <2>3. QED
    BY <2>1, <2>2
<1>3. QED
  BY <1>2

\* A remainder, and what is taken away
LEMMA Remainder ==
  ASSUME NEW W \in Nat \ {0}, NEW x \in Int
  PROVE  \E q \in Int : x = W * q + (x % W) /\ x % W \in 0 .. W - 1
<1>1. x \div W \in Int
  OBVIOUS
<1>2. x = W * (x \div W) + (x % W)
  <2>1. W \in Int /\ W > 0
    OBVIOUS
  <2>2. PICK q \in Int, r \in Int : q = x \div W /\ r = x % W
    BY <1>1
  <2>3. x = W * q + r
    BY <2>1, <2>2
  <2>4. QED
    BY <2>2, <2>3
<1>3. x % W \in 0 .. W - 1
  OBVIOUS
<1>4. QED
  BY <1>1, <1>2, <1>3

\* There is only one.
LEMMA RemainderUnique ==
  ASSUME NEW W \in Nat \ {0}, NEW q \in Int, NEW r \in 0 .. W - 1
  PROVE  (W * q + r) % W = r
<1>0. W \in Int /\ q \in Int /\ W * q \in Int /\ r \in Int
  OBVIOUS
<1>1. PICK x \in Int : x = W * q + r
  BY <1>0
<1>2. PICK p \in Int : x = W * p + (x % W) /\ x % W \in 0 .. W - 1
  BY Remainder
<1>3. PICK d \in Int : d = q - p
  OBVIOUS
<1>4. W * d = (x % W) - r
  <2>1. W * d = W * q - W * p
    BY <1>3
  <2>2. W * q + r = W * p + (x % W)
    BY <1>1, <1>2
  <2>3. PICK a \in Int, b \in Int, s \in Int : a = W * q /\ b = W * p /\ s = x % W
    BY <1>0, <1>2
  <2>4. a + r = b + s /\ W * d = a - b
    BY <2>1, <2>2, <2>3
  <2>5. W * d = s - r
    <3>1. a - b = s - r
      BY <1>0, <2>4
    <3>2. QED
      BY <2>4, <3>1
  <2>6. QED
    BY <2>3, <2>5
<1>5. d < 1
  <2>1. d >= 1 => W * d >= W
    OBVIOUS
  <2>2. QED
    BY <1>2, <1>4, <2>1
<1>6. d > -1
  <2>1. d <= -1 => W * d <= -W
    <3>1. PICK k \in Int : k = -d
      OBVIOUS
    <3>2. W * d = -(W * k) /\ (k >= 1 => W * k >= W)
      BY <3>1
    <3>3. QED
      BY <3>1, <3>2
  <2>2. QED
    BY <1>2, <1>4, <2>1
<1>7. d = 0 /\ W * 0 = 0
  BY <1>5, <1>6
<1>8. QED
  BY <1>1, <1>2, <1>4, <1>7

\* Whole turns of a ring make no difference,
LEMMA RemainderShift ==
  ASSUME NEW W \in Nat \ {0}, NEW x \in Int, NEW q \in Int
  PROVE  (x + W * q) % W = x % W
<1>1. PICK p \in Int : x = W * p + (x % W) /\ x % W \in 0 .. W - 1
  BY Remainder
<1>2. PICK r \in 0 .. W - 1 : r = x % W
  BY <1>1
<1>3. x + W * q = W * (p + q) + r
  BY <1>1, <1>2
<1>4. p + q \in Int
  OBVIOUS
<1>5. QED
  BY <1>2, <1>3, <1>4, RemainderUnique

\* nor does it matter when they are taken away.
LEMMA RemainderPlus ==
  ASSUME NEW W \in Nat \ {0}, NEW x \in Int, NEW y \in Int
  PROVE  ((x % W) + y) % W = (x + y) % W
<1>1. PICK p \in Int : x = W * p + (x % W) /\ x % W \in 0 .. W - 1
  BY Remainder
<1>2. PICK z \in Int : z = (x % W) + y
  BY <1>1
<1>3. x + y = z + W * p
  BY <1>1, <1>2
<1>4. QED
  BY <1>2, <1>3, RemainderShift

\* Two places less than a turn apart are different.
LEMMA RemainderSame ==
  ASSUME NEW W \in Nat \ {0}, NEW x \in Int, NEW y \in Int, x % W = y % W, x - y < W, y - x < W
  PROVE  x = y
<1>1. PICK p \in Int : x = W * p + (x % W) /\ x % W \in 0 .. W - 1
  BY Remainder
<1>2. PICK q \in Int : y = W * q + (y % W)
  BY Remainder
<1>3. PICK d \in Int : d = p - q
  OBVIOUS
<1>4. W * d = x - y
  <2>1. W * d = W * p - W * q
    BY <1>3
  <2>2. QED
    BY <1>1, <1>2, <2>1
<1>5. d < 1 /\ d > -1
  <2>1. d >= 1 => W * d >= W
    OBVIOUS
  <2>2. d <= -1 => W * d <= -W
    <3>1. PICK k \in Int : k = -d
      OBVIOUS
    <3>2. W * d = -(W * k) /\ (k >= 1 => W * k >= W)
      BY <3>1
    <3>3. QED
      BY <3>1, <3>2
  <2>3. QED
    BY <1>4, <2>1, <2>2
<1>6. W * d = 0
  BY <1>5
<1>7. QED
  BY <1>4, <1>6

\* A ring that goes into another a whole number of times
LEMMA RemainderNested ==
  ASSUME NEW W \in Nat \ {0}, NEW N \in Nat \ {0}, W % N = 0, NEW x \in Int
  PROVE  (x % W) % N = x % N
<1>1. PICK m \in Int : W = N * m + (W % N)
  <2>1. W \in Int
    OBVIOUS
  <2>2. QED
    BY <2>1, Remainder
<1>2. PICK p \in Int : x = W * p + (x % W) /\ x % W \in 0 .. W - 1
  BY Remainder
<1>3. PICK r \in Int : r = x % W
  BY <1>2
<1>4. x = r + N * (m * p)
  <2>1. W = N * m
    BY <1>1
  <2>2. (N * m) * p = N * (m * p)
    OBVIOUS
  <2>3. QED
    BY <1>2, <1>3, <2>1, <2>2
<1>5. m * p \in Int
  OBVIOUS
<1>6. (r + N * (m * p)) % N = r % N
  BY <1>5, RemainderShift
<1>7. QED
  BY <1>3, <1>4, <1>6

-----------------------------------------------------------------------------
\* What the proofs use of the constants
LEMMA Assumed ==
  ASSUME VringAssumption
  PROVE
  /\ Pipe \notin Writers /\ None \notin Writers
  /\ Num \in Nat \ {0} /\ Size \in Nat \ {0} /\ Wrap \in Nat \ {0} /\ Credit \in Nat
  /\ MaxLen \in Nat /\ 1 <= MaxLen /\ MaxLen <= Size
  /\ Num < Wrap /\ Wrap % Num = 0
  BY DEF VringAssumption

\* The n-th entry lies at the same place of a ring, whether n is taken modulo
\* Wrap first or not.
LEMMA Turn ==
  ASSUME VringAssumption, NEW x \in Nat
  PROVE  /\ Inc(x % Wrap) = (x + 1) % Wrap
         /\ x % Wrap \in Index
         /\ (x % Wrap) % Num = x % Num
         /\ x % Num \in Desc
<1>0. Wrap \in Nat \ {0} /\ Num \in Nat \ {0} /\ x \in Int /\ 1 \in Int
  BY Assumed
<1>1. Inc(x % Wrap) = (x + 1) % Wrap
  <2>1. ((x % Wrap) + 1) % Wrap = (x + 1) % Wrap
    BY <1>0, RemainderPlus
  <2>2. QED
    BY <2>1 DEF Inc
<1>2. x % Wrap \in Index
  <2>1. x % Wrap \in 0 .. Wrap - 1
    BY <1>0, Remainder
  <2>2. QED
    BY <2>1, Assumed DEF Desc, Index
<1>3. (x % Wrap) % Num = x % Num
  BY <1>0, Assumed, RemainderNested
<1>4. x % Num \in Desc
  <2>1. x % Num \in 0 .. Num - 1
    BY <1>0, Remainder
  <2>2. QED
    BY <2>1, Assumed DEF Desc, Index
<1>5. QED
  BY <1>1, <1>2, <1>3, <1>4

\* Entries that are less than a round of the ring apart lie at different places.
LEMMA Apart ==
  ASSUME VringAssumption, NEW x \in Nat, NEW y \in Nat, x # y, x - y < Num, y - x < Num
  PROVE  x % Num # y % Num
<1>1. Num \in Nat \ {0} /\ x \in Int /\ y \in Int
  BY Assumed
<1>2. x % Num = y % Num => x = y
  BY <1>1, RemainderSame
<1>3. QED
  BY <1>2

\* The distance of two indices is that of the counts they stand for.
LEMMA Distance ==
  ASSUME VringAssumption, NEW x \in Nat, NEW y \in Nat, x <= y, y - x < Wrap
  PROVE  /\ ((y % Wrap) - (x % Wrap)) % Wrap = y - x
         /\ x % Wrap = y % Wrap => x = y
<1>0. Wrap \in Nat \ {0} /\ x \in Int /\ y \in Int
  BY Assumed
<1>1. PICK r \in Int : r = x % Wrap
  BY Turn, Assumed DEF Index
<1>2. PICK p \in Int : x = Wrap * p + r
  BY <1>0, <1>1, Remainder
<1>3. ((y % Wrap) - r) % Wrap = (y - r) % Wrap
  <2>0. -r \in Int
    OBVIOUS
  <2>1. ((y % Wrap) + (-r)) % Wrap = (y + (-r)) % Wrap
    BY <1>0, <2>0, RemainderPlus
  <2>2. (y % Wrap) \in Int
    BY Turn, Assumed DEF Index
  <2>3. (y % Wrap) + (-r) = (y % Wrap) - r /\ y + (-r) = y - r
    BY <2>2
  <2>4. QED
    BY <2>1, <2>3
<1>4. (y - r) % Wrap = y - x
  <2>1. y - r = Wrap * p + (y - x)
    BY <1>2, Assumed
  <2>2. y - x \in 0 .. Wrap - 1
    BY Assumed
  <2>3. QED
    BY <2>1, <2>2, RemainderUnique, Assumed
<1>5. x % Wrap = y % Wrap => x = y
  <2>1. x - y < Wrap /\ y - x < Wrap
    BY Assumed
  <2>2. QED
    BY <1>0, <2>1, RemainderSame
<1>6. QED
  BY <1>1, <1>3, <1>4, <1>5

-----------------------------------------------------------------------------
(***************************************************************************)
(* Types                                                                   *)
(***************************************************************************)
\* A frame that is placed stays in the data ring.
LEMMA Placed ==
  ASSUME VringAssumption, NEW p \in Positions, NEW n \in 0 .. MaxLen
  PROVE  /\ Place(p, n) \in Positions /\ Place(p, n) + n \in Positions
         /\ n >= 1 => Place(p, n) < Size
BY Assumed DEF Place, Positions

\* An index that is advanced is one, and so is a place in the rings.
LEMMA IncIndex ==
  ASSUME VringAssumption, NEW i \in Index
  PROVE  Inc(i) \in Index /\ i % Num \in Desc
<1>1. PICK W \in Int : W = Wrap /\ W > 0
  BY Assumed
<1>2. PICK N \in Int : N = Num /\ N > 0
  BY Assumed
<1>3. PICK x \in Int : x = i
  BY Assumed DEF Index
<1>4. (x + 1) % W \in 0 .. W - 1 /\ x % N \in 0 .. N - 1
  BY <1>1, <1>2
<1>5. QED
  BY <1>1, <1>2, <1>3, <1>4 DEF Inc, Desc, Index

\* The record of a thread that cleans nothing
LEMMA NoBatchType ==
  ASSUME VringAssumption
  PROVE  NoBatch \in [limit : Index, last : Index, num : Nat, first : Desc, top : Desc]
<1>1. 0 \in Index /\ 0 \in Desc
  BY Assumed DEF Index, Desc
<1>2. QED
  BY <1>1 DEF NoBatch

\* Every step keeps the types.
LEMMA TypesStep ==
  ASSUME VringAssumption, TypeOK, [Next]_vars
  PROVE  TypeOK'
<1> USE DEF TypeOK
<1>1. ASSUME NEW w \in Writers, Write(w)
      PROVE  TypeOK'
  <2>1. PICK len \in 1 .. MaxLen : frame' = [frame EXCEPT ![w].len = len]
    BY <1>1 DEF Write
  <2>2. frame' \in [Threads -> [len : 1 .. MaxLen, d : Desc]]
    BY <2>1 DEF Threads
  <2>3. QED
    BY <1>1, <2>2 DEF Write, ring, free, locks, rx, Threads
<1>2. ASSUME NEW w \in Writers, WriteCheck(w)
      PROVE  TypeOK'
  BY <1>2 DEF WriteCheck, ring, free, locks, rx, Threads
<1>3. ASSUME NEW w \in Writers, TxTake(w)
      PROVE  TypeOK'
  <2>1. CASE numFree < 1
    BY <1>3, <2>1 DEF TxTake, ring, free, locks, rx
  <2>2. CASE ~(numFree < 1)
    <3>1. frame[w].len \in 1 .. MaxLen /\ w \in Threads
      BY DEF Threads
    <3>2. PICK n \in 1 .. MaxLen : n = frame[w].len
      BY <3>1
    <3>a. n \in 0 .. MaxLen /\ head \in Positions
      BY Assumed
    <3>b. Place(head, n) \in Positions /\ Place(head, n) + n \in Positions
      BY <3>a, Placed
    <3>c. PICK at \in Positions : at = Place(head, n)
      BY <3>b
    <3>3. at + n \in Positions
      BY <3>b, <3>c
    <3>4. desc' \in [Desc -> [addr : Positions, len : 0 .. MaxLen, next : Desc]]
      <4>1. desc' = [desc EXCEPT ![freeHead].addr = at, ![freeHead].len = n]
        BY <1>3, <2>2, <3>2, <3>c DEF TxTake
      <4>2. PICK f \in [Desc -> [addr : Positions, len : 0 .. MaxLen, next : Desc]], d \in Desc :
               f = desc /\ d = freeHead
        OBVIOUS
      <4>3. [f EXCEPT ![d].addr = at, ![d].len = n]
              \in [Desc -> [addr : Positions, len : 0 .. MaxLen, next : Desc]]
        BY <3>a, <3>c
      <4>4. QED
        BY <4>1, <4>2, <4>3
    <3>5. head' \in Positions
      BY <1>3, <2>2, <3>2, <3>c, <3>3 DEF TxTake
    <3>6. numFree' \in Nat /\ freeHead' \in Desc /\ freeLock' \in Writers \cup {None}
      BY <1>3, <2>2 DEF TxTake
    <3>7. frame' \in [Threads -> [len : 1 .. MaxLen, d : Desc]]
      <4>1. frame' = [frame EXCEPT ![w].d = freeHead]
        BY <1>3, <2>2 DEF TxTake
      <4>2. QED
        BY <3>1, <4>1
    <3>8. pc' \in [Threads -> {"idle", "clean", "cleaning", "splice", "check",
                           "frame", "copy", "publish"}]
      BY <1>3, <2>2, <3>1 DEF TxTake
    <3>9. QED
      BY <1>3, <2>2, <3>4, <3>5, <3>6, <3>7, <3>8 DEF TxTake, ring, free, locks, rx
  <2>3. QED
    BY <2>1, <2>2
<1>4. ASSUME NEW w \in Writers, TxCopy(w)
      PROVE  TypeOK'
  BY <1>4 DEF TxCopy, ring, free, locks, rx, Threads
<1>5. ASSUME NEW w \in Writers, TxPublish(w)
      PROVE  TypeOK'
  <2>1. Inc(availIdx) \in Index /\ Inc(sent) \in Index
    BY IncIndex
  <2>2. availIdx % Num \in Desc
    BY IncIndex
  <2>3. NoFrame \in [len : 1 .. MaxLen, d : Desc]
    BY Assumed DEF NoFrame, Desc
  <2>4. frame[w].d \in Desc /\ w \in Threads
    BY DEF Threads
  <2>5. avail' \in [Desc -> Desc] /\ availIdx' \in Index /\ sent' \in Index
    BY <1>5, <2>1, <2>2, <2>4 DEF TxPublish
  <2>6. frame' \in [Threads -> [len : 1 .. MaxLen, d : Desc]]
    BY <1>5, <2>3, <2>4 DEF TxPublish
  <2>7. QED
    BY <1>5, <2>4, <2>5, <2>6 DEF TxPublish, ring, free, locks, rx
<1>6. CASE Poll
  BY <1>6 DEF Poll, ring, free, locks, rx, Threads
<1>7. ASSUME NEW t \in Threads, CleanBegin(t)
      PROVE  TypeOK'
  <2>1. [NoBatch EXCEPT !.limit = usedIdx, !.last = lastUsed]
          = [limit |-> usedIdx, last |-> lastUsed, num |-> 0, first |-> 0, top |-> 0]
    <3>1. NoBatch \in [limit : Index, last : Index, num : Nat, first : Desc, top : Desc]
      BY NoBatchType
    <3>2. usedIdx \in Index /\ lastUsed \in Index
      OBVIOUS
    <3>3. NoBatch.num = 0 /\ NoBatch.first = 0 /\ NoBatch.top = 0
      BY DEF NoBatch
    <3>4. PICK b \in [limit : Index, last : Index, num : Nat, first : Desc, top : Desc],
                x \in Index, y \in Index : b = NoBatch /\ x = usedIdx /\ y = lastUsed
      BY <3>1, <3>2
    <3>5. PICK q : q = [b EXCEPT !.limit = x, !.last = y]
      OBVIOUS
    <3>6. q = [limit |-> x, last |-> y, num |-> b.num, first |-> b.first, top |-> b.top]
      BY <3>5
    <3>7. QED
      BY <3>3, <3>4, <3>5, <3>6
  <2>2. 0 \in Desc
    BY Assumed DEF Desc
  <2>3. clean' \in [Threads -> [limit : Index, last : Index, num : Nat,
                              first : Desc, top : Desc]]
    <3>1. clean' = [clean EXCEPT ![t] =
             [limit |-> usedIdx, last |-> lastUsed, num |-> 0, first |-> 0, top |-> 0]]
      BY <1>7, <2>1 DEF CleanBegin
    <3>2. usedIdx \in Index /\ lastUsed \in Index
      OBVIOUS
    <3>3. QED
      BY <2>2, <3>1, <3>2
  <2>4. QED
    BY <1>7, <2>3 DEF CleanBegin, ring, free, locks, rx
<1>8. ASSUME NEW t \in Threads, CleanEntry(t)
      PROVE  TypeOK'
  <2>1. clean[t].last \in Index /\ clean[t].num \in Nat /\ clean[t].top \in Desc
    OBVIOUS
  <2>2. UsedDesc(t) \in Desc
    <3>1. clean[t].last % Num \in Desc
      BY <2>1, IncIndex
    <3>2. QED
      BY <3>1 DEF UsedDesc
  <2>3. desc[UsedDesc(t)].len \in 0 .. MaxLen
    BY <2>2
  <2>4. tail' \in Positions
    BY <1>8, <2>3, Placed DEF CleanEntry, TailAfter
  <2>5. desc' \in [Desc -> [addr : Positions, len : 0 .. MaxLen, next : Desc]]
    <3>1. CASE clean[t].num = 0
      BY <1>8, <3>1 DEF CleanEntry, Link
    <3>2. CASE clean[t].num # 0
      <4>1. desc' = [desc EXCEPT ![UsedDesc(t)].next = clean[t].top]
        BY <1>8, <3>2 DEF CleanEntry, Link
      <4>2. PICK f \in [Desc -> [addr : Positions, len : 0 .. MaxLen, next : Desc]],
                d \in Desc, x \in Desc : f = desc /\ d = UsedDesc(t) /\ x = clean[t].top
        BY <2>1, <2>2
      <4>3. [f EXCEPT ![d].next = x] \in [Desc -> [addr : Positions, len : 0 .. MaxLen, next : Desc]]
        OBVIOUS
      <4>4. QED
        BY <4>1, <4>2, <4>3
    <3>3. QED
      BY <3>1, <3>2
  <2>6. Inc(clean[t].last) \in Index
    BY <2>1, IncIndex
  <2>7. clean' \in [Threads -> [limit : Index, last : Index, num : Nat,
                              first : Desc, top : Desc]]
    <3>1. clean[t] \in [limit : Index, last : Index, num : Nat, first : Desc, top : Desc]
      OBVIOUS
    <3>2. PICK f \in Desc : f = IF clean[t].num = 0 THEN UsedDesc(t) ELSE clean[t].first
      BY <2>2
    <3>3. QED
      <4>1. clean' = [clean EXCEPT ![t].last = Inc(clean[t].last), ![t].num = clean[t].num + 1,
                                   ![t].first = f, ![t].top = UsedDesc(t)]
        BY <1>8, <3>2 DEF CleanEntry
      <4>2. clean[t].num + 1 \in Nat
        BY <2>1
      <4>3. PICK g \in [Threads -> [limit : Index, last : Index, num : Nat, first : Desc, top : Desc]],
                x \in Index, y \in Nat, z \in Desc :
                g = clean /\ x = Inc(clean[t].last) /\ y = clean[t].num + 1 /\ z = UsedDesc(t)
        BY <2>2, <2>6, <4>2
      <4>4. PICK h1 \in [Threads -> [limit : Index, last : Index, num : Nat, first : Desc, top : Desc]] :
               h1 = [g EXCEPT ![t].last = x]
        OBVIOUS
      <4>5. PICK h2 \in [Threads -> [limit : Index, last : Index, num : Nat, first : Desc, top : Desc]] :
               h2 = [h1 EXCEPT ![t].num = y]
        OBVIOUS
      <4>6. PICK h3 \in [Threads -> [limit : Index, last : Index, num : Nat, first : Desc, top : Desc]] :
               h3 = [h2 EXCEPT ![t].first = f]
        OBVIOUS
      <4>7. PICK h4 \in [Threads -> [limit : Index, last : Index, num : Nat, first : Desc, top : Desc]] :
               h4 = [h3 EXCEPT ![t].top = z]
        OBVIOUS
      <4>8. clean' = h4
        BY <4>1, <4>3, <4>4, <4>5, <4>6, <4>7
      <4>9. QED
        BY <4>8
  <2>8. QED
    BY <1>8, <2>4, <2>5, <2>7 DEF CleanEntry, ring, free, locks, rx
<1>9. ASSUME NEW t \in Threads, CleanEnd(t)
      PROVE  TypeOK'
  <2>1. NoBatch \in [limit : Index, last : Index, num : Nat, first : Desc, top : Desc]
    BY NoBatchType
  <2>2. clean' \in [Threads -> [limit : Index, last : Index, num : Nat,
                              first : Desc, top : Desc]]
    <3>1. 0 \in Index /\ clean[t] \in [limit : Index, last : Index, num : Nat,
                                      first : Desc, top : Desc]
      BY Assumed DEF Index
    <3>2. CASE clean[t].num > 0
      <4>1. clean' = [clean EXCEPT ![t].limit = 0, ![t].last = 0]
        BY <1>9, <3>2 DEF CleanEnd
      <4>2. QED
        BY <3>1, <4>1
    <3>3. CASE ~(clean[t].num > 0)
      BY <1>9, <2>1, <3>3 DEF CleanEnd
    <3>4. QED
      BY <3>2, <3>3
  <2>3. pc' \in [Threads -> {"idle", "clean", "cleaning", "splice", "check",
                           "frame", "copy", "publish"}]
    BY <1>9 DEF CleanEnd, AfterClean
  <2>4. QED
    BY <1>9, <2>2, <2>3 DEF CleanEnd, ring, free, locks, rx
<1>10. ASSUME NEW t \in Threads, Splice(t)
       PROVE  TypeOK'
  <2>1. NoBatch \in [limit : Index, last : Index, num : Nat, first : Desc, top : Desc]
    BY NoBatchType
  <2>2. clean[t].first \in Desc /\ clean[t].top \in Desc /\ clean[t].num \in Nat
    OBVIOUS
  <2>3. desc' \in [Desc -> [addr : Positions, len : 0 .. MaxLen, next : Desc]]
    <3>1. desc' = [desc EXCEPT ![clean[t].first].next = freeHead]
      BY <1>10 DEF Splice
    <3>2. PICK f \in [Desc -> [addr : Positions, len : 0 .. MaxLen, next : Desc]],
              d \in Desc, x \in Desc : f = desc /\ d = clean[t].first /\ x = freeHead
      BY <2>2
    <3>3. [f EXCEPT ![d].next = x] \in [Desc -> [addr : Positions, len : 0 .. MaxLen, next : Desc]]
      OBVIOUS
    <3>4. QED
      BY <3>1, <3>2, <3>3
  <2>4. freeHead' \in Desc /\ numFree' \in Nat /\ halted' \in BOOLEAN
    BY <1>10, <2>2 DEF Splice, Freed
  <2>5. clean' \in [Threads -> [limit : Index, last : Index, num : Nat,
                              first : Desc, top : Desc]]
    BY <1>10, <2>1 DEF Splice
  <2>6. pc' \in [Threads -> {"idle", "clean", "cleaning", "splice", "check",
                           "frame", "copy", "publish"}]
    BY <1>10 DEF Splice, AfterClean
  <2>7. QED
    BY <1>10, <2>3, <2>4, <2>5, <2>6 DEF Splice, ring, free, locks, rx
<1>11. CASE RxDesc
  <2>1. lastAvail % Num \in Desc /\ Inc(lastAvail) \in Index
    BY IncIndex
  <2>2. QED
    BY <1>11, <2>1 DEF RxDesc, ring, free, locks, rx
<1>12. CASE RxPush
  <2>1. Inc(got) \in Index
    BY IncIndex
  <2>2. QED
    BY <1>12, <2>1 DEF RxPush, ring, free, locks, rx
<1>13. CASE RxFinish
  <2>1. usedIdx % Num \in Desc /\ Inc(usedIdx) \in Index /\ 0 \in Desc
    <3>1. 0 \in Desc
      BY Assumed DEF Desc
    <3>2. QED
      BY <3>1, IncIndex
  <2>2. QED
    BY <1>13, <2>1 DEF RxFinish, ring, free, locks, rx
<1>14. CASE UNCHANGED vars
  BY <1>14 DEF vars, ring, free, locks, rx
<1>15. QED
  BY <1>1, <1>2, <1>3, <1>4, <1>5, <1>6, <1>7, <1>8, <1>9, <1>10, <1>11, <1>12, <1>13,
     <1>14 DEF Next

\* and Init establishes them.
LEMMA TypesInit ==
  ASSUME VringAssumption, Init
  PROVE  TypeOK
<1>1. 0 \in Desc /\ 0 \in Index /\ 0 \in Positions /\ 1 \in 1 .. MaxLen /\ 0 \in 0 .. MaxLen
  BY Assumed DEF Desc, Index, Positions
<1>2. NoBatch \in [limit : Index, last : Index, num : Nat, first : Desc, top : Desc]
  BY <1>1 DEF NoBatch
<1>3. NoFrame \in [len : 1 .. MaxLen, d : Desc]
  BY <1>1 DEF NoFrame
<1>4. desc \in [Desc -> [addr : Positions, len : 0 .. MaxLen, next : Desc]]
  <2>1. \A d \in Desc : (IF d = Num - 1 THEN 0 ELSE d + 1) \in Desc
    BY Assumed DEF Desc
  <2>2. QED
    BY <1>1, <2>1 DEF Init
<1>5. numFree \in Nat
  BY Assumed DEF Init
<1>6. QED
  BY <1>1, <1>2, <1>3, <1>4, <1>5 DEF Init, TypeOK

-----------------------------------------------------------------------------
(***************************************************************************)
(* The invariant                                                           *)
(*                                                                         *)
(* The entries of the rings are counted from the start of the session: c   *)
(* entries have been cleaned, u given back, l taken by the receiver and a  *)
(* published.  e[k] is the descriptor of entry k, st[k] the position at    *)
(* which the data ring stood before it, and at[d] the place of descriptor  *)
(* d.                                                                      *)
(***************************************************************************)
Ring(k) == <<"ring", None, k>>
Free(h) == <<"free", None, h>>
Batch(t, h) == <<"batch", t, h>>

\* The entries that exist, with the one that a writer is filling
Top(a) == IF freeLock = None THEN a ELSE a + 1

\* The oldest entry that the receiver has not copied
First(u, l) == IF rpc = "push" THEN u ELSE l

\* A lock is held by the thread that is in its critical section; a thread has a
\* batch only while it cleans, or between the two critical sections.
LockInv ==
    /\ \A t \in Threads : pc[t] = "cleaning" <=> cleanLock = t
    /\ \A t \in Threads : pc[t] \in {"copy", "publish"} <=> freeLock = t
    /\ \A t \in Threads : clean[t].num > 0 => pc[t] \in {"cleaning", "splice"}
    /\ \A t \in Threads : pc[t] = "splice" => clean[t].num > 0
    /\ pc[Pipe] \in {"idle", "clean", "cleaning", "splice"}

\* The indices are the counts modulo Wrap, and no more entries exist than there
\* are descriptors.
Counts(c, u, l, a) ==
    /\ c <= u /\ u <= l /\ l <= a
    /\ Top(a) - c <= Num
    /\ Unclean = c % Wrap /\ usedIdx = u % Wrap
    /\ lastAvail = l % Wrap /\ availIdx = a % Wrap
    /\ l = (IF rpc = "idle" THEN u ELSE u + 1)
    /\ sent = a % Wrap /\ got = First(u, l) % Wrap

\* A thread cleans up to what had been given back when it began.
Limits(c, u) ==
    \A t \in Threads : pc[t] = "cleaning" => \E m \in c .. u : clean[t].limit = m % Wrap

\* Where the descriptor of an entry is found
Indexed(c, u, l, a, e) ==
    /\ \A k \in c .. u - 1 : used[k % Num] = e[k]
    /\ rpc # "idle" => rdesc = e[u]
    /\ \A k \in l .. a - 1 : avail[k % Num] = e[k]
    /\ freeLock # None => frame[freeLock].d = e[a]

\* Every descriptor has one place: an entry, or a height in the free list or in
\* the batch of a thread.
Located(c, a, e, at) ==
    /\ \A d, f \in Desc : at[d] = at[f] => d = f
    /\ \A k \in c .. Top(a) - 1 : at[e[k]] = Ring(k)
    /\ \A d \in Desc :
          \/ \E k \in c .. Top(a) - 1 : at[d] = Ring(k)
          \/ \E h \in 0 .. numFree - 1 : at[d] = Free(h)
          \/ \E t \in Threads : \E h \in 0 .. clean[t].num - 1 : at[d] = Batch(t, h)

\* The free list and the batches are linked from the top down.
FreeList(at) ==
    /\ numFree > 0 => at[freeHead] = Free(numFree - 1)
    /\ \A d \in Desc, h \in Nat : at[d] = Free(h + 1) => at[desc[d].next] = Free(h)

BatchList(at) ==
    \A t \in Threads :
       /\ clean[t].num > 0 => /\ at[clean[t].top] = Batch(t, clean[t].num - 1)
                              /\ at[clean[t].first] = Batch(t, 0)
       /\ \A d \in Desc, h \in Nat : at[d] = Batch(t, h + 1) => at[desc[d].next] = Batch(t, h)

\* The frames lie in the data ring in the order of their entries, from tail to
\* head.
InOrder(c, a, e, st) ==
    /\ st[c] = tail /\ st[Top(a)] = head
    /\ \A k \in c .. Top(a) - 1 :
          /\ desc[e[k]].len \in 1 .. MaxLen
          /\ desc[e[k]].addr = Place(st[k], desc[e[k]].len)
          /\ st[k + 1] = desc[e[k]].addr + desc[e[k]].len

(***************************************************************************)
(* The data ring has room for all the frames that are under way at a time, *)
(* with the cells left over where the ring wraps: for a frame in each      *)
(* descriptor, or for those that the callers keep outstanding.             *)
(***************************************************************************)
Roomy == \E n \in {Num, Credit} : (n + 1) * MaxLen <= Size + 1

\* The writers in ivshm_write
Active == {w \in Writers : pc[w] # "idle"}

\* The callers keep to their credit: the entries from f on are not read yet.
Pending(f, a) == IsFiniteSet(Active) /\ Cardinality(Active) + (a - f) <= Credit

\* From the beginning of a frame at p to the head h there are at most n cells,
\* and those left over where the ring wraps; the head is not inside the frame.
Clear(p, len, h, n) ==
    \/ p + len <= h /\ h - p <= n
    \/ h <= p /\ h + Size - p <= n + MaxLen - 1

\* The entries that are not read yet: each is in its slot, the head is clear of
\* its frame, its cells hold its number once they are written, and the frame
\* that a writer fills is beside them.
Shown(f, a, e) == \A k \in f .. a - 1 : avail[k % Num] = e[k]

AllClear(f, a, e) ==
    \A k \in f .. Top(a) - 1 :
       Clear(desc[e[k]].addr, desc[e[k]].len, head, (Top(a) - k) * MaxLen)

Stored(f, a, e) ==
    \A k \in f .. Top(a) - 1 :
       k < a \/ (\E w \in Writers : pc[w] = "publish") =>
          \A x \in Cells(e[k]) : mem[x] = k % Wrap

Beside(f, a, e) ==
    freeLock # None => \A k \in f .. a - 1 : \A x \in Cells(e[k]) : x \notin Cells(e[a])

Laid(f, a, e) == Shown(f, a, e) /\ AllClear(f, a, e) /\ Stored(f, a, e) /\ Beside(f, a, e)

Flight(u, l, a, e) ==
    Pending(First(u, l), a) /\ (Roomy => Laid(First(u, l), a, e))

\* All of it
Whole(c, u, l, a, e, at, st) ==
    /\ Counts(c, u, l, a) /\ Limits(c, u) /\ Indexed(c, u, l, a, e)
    /\ Located(c, a, e, at) /\ FreeList(at) /\ BatchList(at)
    /\ InOrder(c, a, e, st) /\ Flight(u, l, a, e)

RingInv ==
    /\ TypeOK /\ LockInv
    /\ \E c, u, l, a \in Nat, e \in [Nat -> Desc], st \in [Nat -> Positions] :
          \E at : Whole(c, u, l, a, e, at, st)

-----------------------------------------------------------------------------
(***************************************************************************)
(* What the actions do to the records                                      *)
(***************************************************************************)
\* Beginning to clean: the batch is empty.
LEMMA DoBegin ==
  ASSUME TypeOK, NEW t \in Threads, CleanBegin(t)
  PROVE  /\ clean'[t].limit = usedIdx /\ clean'[t].last = lastUsed /\ clean'[t].num = 0
         /\ \A s \in Threads : s # t => clean'[s] = clean[s]
<1>1. clean' = [clean EXCEPT ![t] = [NoBatch EXCEPT !.limit = usedIdx, !.last = lastUsed]]
  BY DEF CleanBegin
<1>2. PICK q : q = [NoBatch EXCEPT !.limit = usedIdx, !.last = lastUsed]
  OBVIOUS
<1>3. q.limit = usedIdx /\ q.last = lastUsed /\ q.num = 0
  BY <1>2 DEF NoBatch
<1>4. QED
  BY <1>1, <1>2, <1>3 DEF TypeOK

\* An entry is cleaned: its descriptor is put on top of the batch.
LEMMA DoEntry ==
  ASSUME VringAssumption, TypeOK, NEW t \in Threads, CleanEntry(t)
  PROVE  /\ UsedDesc(t) \in Desc
         /\ clean'[t].limit = clean[t].limit /\ clean'[t].last = Inc(clean[t].last)
         /\ clean'[t].num = clean[t].num + 1 /\ clean'[t].top = UsedDesc(t)
         /\ clean'[t].first = IF clean[t].num = 0 THEN UsedDesc(t) ELSE clean[t].first
         /\ \A s \in Threads : s # t => clean'[s] = clean[s]
         /\ \A d \in Desc : desc'[d].addr = desc[d].addr /\ desc'[d].len = desc[d].len
         /\ \A d \in Desc : d # UsedDesc(t) => desc'[d].next = desc[d].next
         /\ clean[t].num > 0 => desc'[UsedDesc(t)].next = clean[t].top
<1>1. UsedDesc(t) \in Desc
  <2>1. clean[t].last \in Index
    BY DEF TypeOK
  <2>2. clean[t].last % Num \in Desc
    BY <2>1, IncIndex
  <2>3. QED
    BY <2>2 DEF UsedDesc, TypeOK
<1>2. PICK x, y, z, f : x = Inc(clean[t].last) /\ y = clean[t].num + 1 /\ z = UsedDesc(t)
                      /\ f = IF clean[t].num = 0 THEN UsedDesc(t) ELSE clean[t].first
  OBVIOUS
<1>3. clean' = [clean EXCEPT ![t].last = x, ![t].num = y, ![t].first = f, ![t].top = z]
  BY <1>2 DEF CleanEntry
<1>4. clean \in [Threads -> [limit : Index, last : Index, num : Nat, first : Desc, top : Desc]]
  BY DEF TypeOK
<1>5. /\ clean'[t].limit = clean[t].limit /\ clean'[t].last = x /\ clean'[t].num = y
      /\ clean'[t].first = f /\ clean'[t].top = z
      /\ \A s \in Threads : s # t => clean'[s] = clean[s]
  <2>1. PICK g \in [Threads -> [limit : Index, last : Index, num : Nat, first : Desc, top : Desc]] :
           g = clean
    BY <1>4
  <2>2. PICK h : h = [g EXCEPT ![t].last = x, ![t].num = y, ![t].first = f, ![t].top = z]
    OBVIOUS
  <2>3. /\ h[t].limit = g[t].limit /\ h[t].last = x /\ h[t].num = y
        /\ h[t].first = f /\ h[t].top = z
        /\ \A s \in Threads : s # t => h[s] = g[s]
    BY <2>2
  <2>4. QED
    BY <1>3, <2>1, <2>2, <2>3
<1>6. desc \in [Desc -> [addr : Positions, len : 0 .. MaxLen, next : Desc]]
  BY DEF TypeOK
<1>7. CASE clean[t].num = 0
  <2>1. desc' = desc
    BY <1>7 DEF CleanEntry, Link
  <2>2. QED
    BY <1>1, <1>2, <1>5, <1>7, <2>1
<1>8. CASE clean[t].num # 0
  <2>0. PICK x1 : x1 = clean[t].top
    OBVIOUS
  <2>1. PICK p \in Desc : p = UsedDesc(t)
    BY <1>1
  <2>2. desc' = [desc EXCEPT ![p].next = x1]
    BY <1>8, <2>0, <2>1 DEF CleanEntry, Link
  <2>3. PICK f1 \in [Desc -> [addr : Positions, len : 0 .. MaxLen, next : Desc]] : f1 = desc
    BY <1>6
  <2>4. PICK g1 : g1 = [f1 EXCEPT ![p].next = x1]
    OBVIOUS
  <2>5. /\ \A d \in Desc : g1[d].addr = f1[d].addr /\ g1[d].len = f1[d].len
        /\ \A d \in Desc : d # p => g1[d].next = f1[d].next
        /\ g1[p].next = x1
    BY <2>4
  <2>6. QED
    BY <1>1, <1>2, <1>5, <2>0, <2>1, <2>2, <2>3, <2>4, <2>5
<1>9. QED
  BY <1>7, <1>8

\* Cleaning ends: the batch is kept, or is empty.
LEMMA DoEnd ==
  ASSUME TypeOK, NEW t \in Threads, CleanEnd(t)
  PROVE  /\ clean'[t].num = clean[t].num
         /\ clean[t].num > 0 => /\ clean'[t].top = clean[t].top
                                /\ clean'[t].first = clean[t].first
         /\ \A s \in Threads : s # t => clean'[s] = clean[s]
<1>1. clean \in [Threads -> [limit : Index, last : Index, num : Nat, first : Desc, top : Desc]]
  BY DEF TypeOK
<1>2. CASE clean[t].num > 0
  <2>1. PICK g \in [Threads -> [limit : Index, last : Index, num : Nat, first : Desc, top : Desc]] :
           g = clean
    BY <1>1
  <2>2. PICK h : h = [g EXCEPT ![t].limit = 0, ![t].last = 0]
    OBVIOUS
  <2>3. /\ h[t].num = g[t].num /\ h[t].first = g[t].first /\ h[t].top = g[t].top
        /\ \A s \in Threads : s # t => h[s] = g[s]
    BY <2>2
  <2>4. clean' = [clean EXCEPT ![t].limit = 0, ![t].last = 0]
    BY <1>2 DEF CleanEnd
  <2>5. QED
    BY <2>1, <2>2, <2>3, <2>4
<1>3. CASE ~(clean[t].num > 0)
  <2>1. clean' = [clean EXCEPT ![t] = NoBatch]
    BY <1>3 DEF CleanEnd
  <2>2. clean[t].num = 0
    BY <1>1, <1>3
  <2>3. QED
    BY <1>1, <1>3, <2>1, <2>2 DEF NoBatch
<1>4. QED
  BY <1>2, <1>3

\* A batch is put in front of the free list.
LEMMA DoSplice ==
  ASSUME TypeOK, NEW t \in Threads, Splice(t)
  PROVE  /\ clean'[t].num = 0
         /\ \A s \in Threads : s # t => clean'[s] = clean[s]
         /\ \A d \in Desc : desc'[d].addr = desc[d].addr /\ desc'[d].len = desc[d].len
         /\ \A d \in Desc : d # clean[t].first => desc'[d].next = desc[d].next
         /\ desc'[clean[t].first].next = freeHead
<1>1. clean' = [clean EXCEPT ![t] = NoBatch]
  BY DEF Splice
<1>2. clean'[t].num = 0 /\ \A s \in Threads : s # t => clean'[s] = clean[s]
  BY <1>1 DEF TypeOK, NoBatch
<1>0. PICK x1 : x1 = freeHead
  OBVIOUS
<1>3. PICK p \in Desc : p = clean[t].first
  BY DEF TypeOK
<1>4. desc' = [desc EXCEPT ![p].next = x1]
  BY <1>0, <1>3 DEF Splice
<1>5. PICK f1 \in [Desc -> [addr : Positions, len : 0 .. MaxLen, next : Desc]] : f1 = desc
  BY DEF TypeOK
<1>6. PICK g1 : g1 = [f1 EXCEPT ![p].next = x1]
  OBVIOUS
<1>7. /\ \A d \in Desc : g1[d].addr = f1[d].addr /\ g1[d].len = f1[d].len
      /\ \A d \in Desc : d # p => g1[d].next = f1[d].next
      /\ g1[p].next = x1
  BY <1>6
<1>8. QED
  BY <1>0, <1>2, <1>3, <1>4, <1>5, <1>6, <1>7

\* A descriptor is taken from the free list and filled.
LEMMA DoTake ==
  ASSUME TypeOK, NEW w \in Writers, TxTake(w), numFree >= 1
  PROVE  /\ freeHead' = desc[freeHead].next
         /\ frame'[w].d = freeHead
         /\ desc'[freeHead].addr = Place(head, frame[w].len)
         /\ desc'[freeHead].len = frame[w].len
         /\ head' = Place(head, frame[w].len) + frame[w].len
         /\ \A d \in Desc : d # freeHead => desc'[d] = desc[d]
         /\ \A d \in Desc : desc'[d].next = desc[d].next
<1>1. ~(numFree < 1)
  BY DEF TypeOK
<1>0. PICK x, y : x = Place(head, frame[w].len) /\ y = frame[w].len
  OBVIOUS
<1>2. PICK p \in Desc : p = freeHead
  BY DEF TypeOK
<1>3. desc' = [desc EXCEPT ![p].addr = x, ![p].len = y]
  BY <1>0, <1>1, <1>2 DEF TxTake
<1>4. PICK f1 \in [Desc -> [addr : Positions, len : 0 .. MaxLen, next : Desc]] : f1 = desc
  BY DEF TypeOK
<1>5. PICK g1 : g1 = [f1 EXCEPT ![p].addr = x, ![p].len = y]
  OBVIOUS
<1>6. /\ \A d \in Desc : d # p => g1[d] = f1[d]
      /\ \A d \in Desc : g1[d].next = f1[d].next
      /\ g1[p].addr = x /\ g1[p].len = y
  BY <1>5
<1>7. frame' = [frame EXCEPT ![w].d = freeHead]
  BY <1>1 DEF TxTake
<1>8. frame'[w].d = freeHead
  BY <1>7 DEF TypeOK, Threads
<1>9. freeHead' = desc[freeHead].next /\ head' = Place(head, frame[w].len) + frame[w].len
  BY <1>1 DEF TxTake
<1>10. QED
  BY <1>0, <1>2, <1>3, <1>4, <1>5, <1>6, <1>8, <1>9

-----------------------------------------------------------------------------
(***************************************************************************)
(* The locks                                                               *)
(***************************************************************************)
LEMMA LocksStep ==
  ASSUME VringAssumption, TypeOK, LockInv, [Next]_vars
  PROVE  LockInv'
<1> USE DEF LockInv
<1>0. /\ Pipe \notin Writers /\ None \notin Threads /\ Pipe \in Threads /\ Writers \subseteq Threads
      /\ pc \in [Threads -> {"idle", "clean", "cleaning", "splice", "check",
                             "frame", "copy", "publish"}]
      /\ \A t \in Threads : clean[t].num \in Nat
  BY Assumed DEF Threads, TypeOK, Pipe, None
<1>1. ASSUME NEW w \in Writers, Write(w)
      PROVE  LockInv'
  BY <1>0, <1>1 DEF Write, locks
<1>2. ASSUME NEW w \in Writers, WriteCheck(w)
      PROVE  LockInv'
  BY <1>0, <1>2 DEF WriteCheck, locks
<1>3. ASSUME NEW w \in Writers, TxTake(w)
      PROVE  LockInv'
  <2>1. CASE numFree < 1
    BY <1>0, <1>3, <2>1 DEF TxTake
  <2>2. CASE ~(numFree < 1)
    BY <1>0, <1>3, <2>2 DEF TxTake
  <2>3. QED
    BY <2>1, <2>2
<1>4. ASSUME NEW w \in Writers, TxCopy(w)
      PROVE  LockInv'
  BY <1>0, <1>4 DEF TxCopy, locks
<1>5. ASSUME NEW w \in Writers, TxPublish(w)
      PROVE  LockInv'
  BY <1>0, <1>5 DEF TxPublish
<1>6. CASE Poll
  BY <1>0, <1>6 DEF Poll, locks
<1>7. ASSUME NEW t \in Threads, CleanBegin(t)
      PROVE  LockInv'
  <2>1. /\ pc' = [pc EXCEPT ![t] = "cleaning"] /\ pc[t] = "clean" /\ cleanLock = None
        /\ cleanLock' = t /\ freeLock' = freeLock
    BY <1>7 DEF CleanBegin
  <2>2. clean'[t].num = 0 /\ \A s \in Threads : s # t => clean'[s] = clean[s]
    BY <1>7, DoBegin
  <2>3. QED
    BY <1>0, <2>1, <2>2
<1>8. ASSUME NEW t \in Threads, CleanEntry(t)
      PROVE  LockInv'
  <2>1. pc' = pc /\ pc[t] = "cleaning" /\ cleanLock' = cleanLock /\ freeLock' = freeLock
    BY <1>8 DEF CleanEntry, locks
  <2>2. \A s \in Threads : s # t => clean'[s] = clean[s]
    BY <1>8, DoEntry
  <2>3. QED
    BY <1>0, <2>1, <2>2
<1>9. ASSUME NEW t \in Threads, CleanEnd(t)
      PROVE  LockInv'
  <2>1. /\ pc' = [pc EXCEPT ![t] = IF clean[t].num > 0 THEN "splice" ELSE AfterClean(t)]
        /\ pc[t] = "cleaning" /\ cleanLock' = None /\ freeLock' = freeLock
    BY <1>9 DEF CleanEnd
  <2>2. clean'[t].num = clean[t].num /\ \A s \in Threads : s # t => clean'[s] = clean[s]
    BY <1>9, DoEnd
  <2>3. AfterClean(t) \in {"idle", "check"} /\ (t = Pipe => AfterClean(t) = "idle")
    BY DEF AfterClean
  <2>4. QED
    BY <1>0, <2>1, <2>2, <2>3
<1>10. ASSUME NEW t \in Threads, Splice(t)
       PROVE  LockInv'
  <2>1. /\ pc' = [pc EXCEPT ![t] = AfterClean(t)] /\ pc[t] = "splice"
        /\ cleanLock' = cleanLock /\ freeLock' = freeLock
    BY <1>10 DEF Splice, locks
  <2>2. clean'[t].num = 0 /\ \A s \in Threads : s # t => clean'[s] = clean[s]
    BY <1>10, DoSplice
  <2>3. AfterClean(t) \in {"idle", "check"} /\ (t = Pipe => AfterClean(t) = "idle")
    BY DEF AfterClean
  <2>4. QED
    BY <1>0, <2>1, <2>2, <2>3
<1>11. CASE RxDesc \/ RxPush \/ RxFinish
  BY <1>11 DEF RxDesc, RxPush, RxFinish, locks
<1>12. CASE UNCHANGED vars
  BY <1>12 DEF vars, locks
<1>13. QED
  BY <1>1, <1>2, <1>3, <1>4, <1>5, <1>6, <1>7, <1>8, <1>9, <1>10, <1>11, <1>12 DEF Next

-----------------------------------------------------------------------------
(***************************************************************************)
(* The counts                                                              *)
(***************************************************************************)
\* No more entries with different descriptors than there are descriptors
LEMMA Fits ==
  ASSUME VringAssumption, NEW c \in Nat, NEW n \in Nat, NEW e \in [Nat -> Desc],
         \A k, j \in c .. n - 1 : e[k] = e[j] => k = j
  PROVE  n - c <= Num
<1>1. SUFFICES ASSUME n - c > Num
               PROVE  FALSE
  BY Assumed
<1>2. PICK S : S = c .. n - 1
  OBVIOUS
<1>3. IsFiniteSet(S) /\ Cardinality(S) = n - c
  <2>1. c \in Int /\ n - 1 \in Int
    OBVIOUS
  <2>2. IsFiniteSet(c .. n - 1) /\ Cardinality(c .. n - 1) = IF c > n - 1 THEN 0 ELSE (n - 1) - c + 1
    BY <2>1, FS_Interval
  <2>3. ~(c > n - 1)
    BY <1>1, Assumed
  <2>4. QED
    BY <1>2, <2>2, <2>3
<1>4. IsFiniteSet(Desc) /\ Cardinality(Desc) = Num
  <2>1. 0 \in Int /\ Num - 1 \in Int
    BY Assumed
  <2>2. IsFiniteSet(0 .. Num - 1) /\ Cardinality(0 .. Num - 1)
                                         = IF 0 > Num - 1 THEN 0 ELSE (Num - 1) - 0 + 1
    BY <2>1, FS_Interval
  <2>3. QED
    BY <2>2, Assumed DEF Desc
<1>5. PICK f \in [S -> Desc] : f = [k \in S |-> e[k]]
  <2>1. \A k \in S : e[k] \in Desc
    BY <1>2
  <2>2. QED
    BY <2>1
<1>6. Cardinality(Desc) < Cardinality(S)
  BY <1>1, <1>3, <1>4
<1>7. \E x, y \in S : x # y /\ f[x] = f[y]
  BY <1>3, <1>4, <1>6, FS_PigeonHole
<1>8. QED
  BY <1>2, <1>5, <1>7

\* Steps that leave the indices and the locks alone, or move only one of them
LEMMA CountsSame ==
  ASSUME NEW c \in Nat, NEW u \in Nat, NEW l \in Nat, NEW a \in Nat, Counts(c, u, l, a),
         Top(a)' - c <= Num, Unclean' = Unclean,
         UNCHANGED <<usedIdx, lastAvail, availIdx, rpc, sent, got>>
  PROVE  Counts(c, u, l, a)'
BY DEF Counts, First

\* A thread that starts to clean takes the counts as they are.
LEMMA CountsBegin ==
  ASSUME VringAssumption, TypeOK, LockInv, NEW t \in Threads, CleanBegin(t),
         NEW c \in Nat, NEW u \in Nat, NEW l \in Nat, NEW a \in Nat,
         Counts(c, u, l, a), Limits(c, u)
  PROVE  Counts(c, u, l, a)' /\ Limits(c, u)'
<1>1. /\ cleanLock = None /\ cleanLock' = t /\ pc' = [pc EXCEPT ![t] = "cleaning"]
      /\ UNCHANGED <<lastUsed, usedIdx, lastAvail, availIdx, rpc, sent, got, freeLock>>
  BY DEF CleanBegin, ring, rx
<1>2. clean'[t].last = lastUsed /\ clean'[t].limit = usedIdx
      /\ \A s \in Threads : s # t => clean'[s] = clean[s]
  BY DoBegin
<1>3. t # None
  BY Assumed DEF Threads, Pipe, None
<1>4. Unclean = lastUsed /\ Unclean' = lastUsed
  BY <1>1, <1>2, <1>3 DEF Unclean
<1>5. Top(a)' = Top(a)
  BY <1>1 DEF Top
<1>6. Counts(c, u, l, a)'
  BY <1>1, <1>4, <1>5, CountsSame DEF Counts
<1>7. c <= u /\ usedIdx = u % Wrap
  BY DEF Counts
<1>8. Limits(c, u)'
  <2> SUFFICES ASSUME NEW s \in Threads, pc'[s] = "cleaning"
               PROVE  \E m \in c .. u : clean'[s].limit = m % Wrap
    BY DEF Limits
  <2>1. CASE s = t
    <3>1. u \in c .. u
      BY <1>7
    <3>2. QED
      BY <1>2, <1>7, <2>1, <3>1
  <2>2. CASE s # t
    BY <1>1, <1>2, <2>2 DEF Limits, TypeOK
  <2>3. QED
    BY <2>1, <2>2
<1>9. QED
  BY <1>6, <1>8

\* An entry that the thread looks at is in the used ring, and is the oldest.
LEMMA EntryIsUsed ==
  ASSUME VringAssumption, TypeOK, LockInv, NEW t \in Threads,
         pc[t] = "cleaning", clean[t].last # clean[t].limit,
         NEW c \in Nat, NEW u \in Nat, NEW l \in Nat, NEW a \in Nat, NEW e \in [Nat -> Desc],
         Counts(c, u, l, a), Limits(c, u), Indexed(c, u, l, a, e)
  PROVE  c < u /\ clean[t].last = c % Wrap /\ UsedDesc(t) = e[c]
<1>1. cleanLock = t /\ t # None
  BY Assumed DEF LockInv, Threads, Pipe, None
<1>2. clean[t].last = c % Wrap
  BY <1>1 DEF Counts, Unclean
<1>3. PICK m \in c .. u : clean[t].limit = m % Wrap
  BY DEF Limits
<1>4. c < u
  BY <1>2, <1>3
<1>5. used[c % Num] = e[c]
  BY <1>4 DEF Indexed
<1>6. clean[t].last % Num = c % Num
  BY <1>2, Turn
<1>7. QED
  BY <1>2, <1>4, <1>5, <1>6 DEF UsedDesc

\* The next entry that a thread cleans is entry c, which the receiver has given back.
LEMMA CountsEntry ==
  ASSUME VringAssumption, TypeOK, LockInv, NEW t \in Threads, CleanEntry(t),
         NEW c \in Nat, NEW u \in Nat, NEW l \in Nat, NEW a \in Nat, NEW e \in [Nat -> Desc],
         Counts(c, u, l, a), Limits(c, u), Indexed(c, u, l, a, e)
  PROVE  Counts(c + 1, u, l, a)' /\ Limits(c + 1, u)' /\ Indexed(c + 1, u, l, a, e)' /\ c < u
         /\ UsedDesc(t) = e[c]
<1>1. /\ pc[t] = "cleaning" /\ clean[t].last # clean[t].limit
      /\ UNCHANGED <<pc, cleanLock, freeLock, usedIdx, lastAvail, availIdx, rpc, rdesc, sent, got,
                     used, avail, frame>>
  BY DEF CleanEntry, ring, rx, locks, Entries
<1>2. c < u /\ clean[t].last = c % Wrap /\ UsedDesc(t) = e[c]
  BY <1>1, EntryIsUsed
<1>3. /\ clean'[t].last = Inc(clean[t].last) /\ clean'[t].limit = clean[t].limit
      /\ \A s \in Threads : s # t => clean'[s] = clean[s]
  BY DoEntry
<1>4. cleanLock = t /\ t # None
  BY <1>1, Assumed DEF LockInv, Threads, Pipe, None
<1>5. Unclean' = (c + 1) % Wrap
  <2>1. Inc(c % Wrap) = (c + 1) % Wrap
    BY Turn
  <2>2. QED
    BY <1>1, <1>2, <1>3, <1>4, <2>1 DEF Unclean
<1>6. Top(a)' = Top(a) /\ Top(a) \in Nat
  BY <1>1 DEF Top
<1>7. Counts(c + 1, u, l, a)'
  <2>1. Top(a)' - (c + 1) <= Num
    BY <1>6, Assumed DEF Counts
  <2>2. First(u, l)' = First(u, l)
    BY <1>1 DEF First
  <2>3. QED
    BY <1>1, <1>2, <1>5, <2>1, <2>2 DEF Counts
<1>8. Limits(c + 1, u)'
  <2> SUFFICES ASSUME NEW s \in Threads, pc'[s] = "cleaning"
               PROVE  \E m \in c + 1 .. u : clean'[s].limit = m % Wrap
    BY DEF Limits
  <2>1. s = t
    BY <1>1, <1>4 DEF LockInv
  <2>2. PICK m \in c .. u : clean[t].limit = m % Wrap
    BY <1>1 DEF Limits
  <2>3. m # c
    BY <1>1, <1>2, <2>2
  <2>4. m \in c + 1 .. u
    BY <2>3
  <2>5. QED
    BY <1>3, <2>1, <2>2, <2>4
<1>9. Indexed(c + 1, u, l, a, e)'
  BY <1>1 DEF Indexed
<1>10. QED
  BY <1>2, <1>7, <1>8, <1>9

\* A thread that has cleaned what it saw stores the count of the cleaned entries.
LEMMA CountsEnd ==
  ASSUME VringAssumption, TypeOK, LockInv, NEW t \in Threads, CleanEnd(t),
         NEW c \in Nat, NEW u \in Nat, NEW l \in Nat, NEW a \in Nat,
         Counts(c, u, l, a), Limits(c, u)
  PROVE  Counts(c, u, l, a)' /\ Limits(c, u)'
<1>1. /\ pc[t] = "cleaning" /\ cleanLock' = None /\ lastUsed' = clean[t].last
      /\ pc' = [pc EXCEPT ![t] = IF clean[t].num > 0 THEN "splice" ELSE AfterClean(t)]
      /\ UNCHANGED <<usedIdx, lastAvail, availIdx, rpc, sent, got, freeLock>>
  BY DEF CleanEnd, ring, rx
<1>2. \A s \in Threads : s # t => clean'[s] = clean[s]
  BY DoEnd
<1>3. cleanLock = t /\ t # None
  BY <1>1, Assumed DEF LockInv, Threads, Pipe, None
<1>4. Unclean' = Unclean
  BY <1>1, <1>3 DEF Unclean
<1>5. Top(a)' = Top(a)
  BY <1>1 DEF Top
<1>6. Counts(c, u, l, a)'
  BY <1>1, <1>4, <1>5, CountsSame DEF Counts
<1>7. Limits(c, u)'
  <2>1. \A s \in Threads : pc'[s] # "cleaning"
    BY <1>1, <1>3 DEF LockInv, TypeOK, AfterClean
  <2>2. QED
    BY <2>1 DEF Limits
<1>8. QED
  BY <1>6, <1>7

\* A step that does not work on the rings
LEMMA CountsQuiet ==
  ASSUME TypeOK, LockInv,
         NEW c \in Nat, NEW u \in Nat, NEW l \in Nat, NEW a \in Nat, NEW e \in [Nat -> Desc],
         Counts(c, u, l, a), Limits(c, u), Indexed(c, u, l, a, e),
         UNCHANGED <<lastUsed, cleanLock, freeLock, usedIdx, lastAvail, availIdx, rpc, rdesc, sent,
                     got, used, avail>>,
         \A s \in Threads : pc'[s] = "cleaning" => pc[s] = "cleaning",
         \A s \in Threads : pc[s] = "cleaning" => clean'[s] = clean[s],
         \A s \in Threads : frame'[s].d = frame[s].d
  PROVE  Counts(c, u, l, a)' /\ Limits(c, u)' /\ Indexed(c, u, l, a, e)'
<1>1. Top(a)' = Top(a)
  BY DEF Top
<1>2. Unclean' = Unclean
  <2>1. CASE cleanLock = None
    BY <2>1 DEF Unclean
  <2>2. CASE cleanLock # None
    <3>1. cleanLock \in Threads
      BY <2>2 DEF TypeOK
    <3>2. pc[cleanLock] = "cleaning"
      BY <3>1 DEF LockInv
    <3>3. QED
      BY <2>2, <3>1, <3>2 DEF Unclean
  <2>3. QED
    BY <2>1, <2>2
<1>3. Counts(c, u, l, a)'
  BY <1>1, <1>2, CountsSame DEF Counts
<1>4. Limits(c, u)'
  BY DEF Limits
<1>5. Indexed(c, u, l, a, e)'
  BY DEF Indexed, TypeOK, Threads
<1>6. QED
  BY <1>3, <1>4, <1>5

\* A descriptor is taken for a new entry.
LEMMA CountsTake ==
  ASSUME VringAssumption, TypeOK, LockInv, NEW w \in Writers, TxTake(w), numFree >= 1,
         NEW c \in Nat, NEW u \in Nat, NEW l \in Nat, NEW a \in Nat, NEW e \in [Nat -> Desc],
         Counts(c, u, l, a), Limits(c, u), Indexed(c, u, l, a, e), a + 1 - c <= Num,
         NEW f \in [Nat -> Desc], f = [e EXCEPT ![a] = freeHead]
  PROVE  Counts(c, u, l, a)' /\ Limits(c, u)' /\ Indexed(c, u, l, a, f)'
<1>1. /\ freeLock' = w
      /\ UNCHANGED <<lastUsed, clean, cleanLock, usedIdx, lastAvail, availIdx, rpc, rdesc, sent,
                     got, used, avail>>
      /\ pc' = [pc EXCEPT ![w] = "copy"]
  BY DEF TxTake, ring, rx, TypeOK
<1>2. frame'[w].d = freeHead
  BY DoTake
<1>3. Top(a)' = a + 1
  BY <1>1, Assumed DEF Top
<1>4. Counts(c, u, l, a)'
  <2>1. Unclean' = Unclean
    BY <1>1 DEF Unclean
  <2>2. QED
    BY <1>1, <1>3, <2>1, CountsSame
<1>5. Limits(c, u)'
  BY <1>1 DEF Limits, TypeOK
<1>6. Indexed(c, u, l, a, f)'
  <2>1. c <= u /\ u <= l /\ l <= a /\ l = (IF rpc = "idle" THEN u ELSE u + 1)
    BY DEF Counts
  <2>2. \A k \in Nat : k # a => f[k] = e[k]
    OBVIOUS
  <2>3. f[a] = freeHead
    OBVIOUS
  <2>4. \A k \in c .. u - 1 : used[k % Num] = f[k]
    BY <2>1, <2>2 DEF Indexed
  <2>5. \A k \in l .. a - 1 : avail[k % Num] = f[k]
    BY <2>1, <2>2 DEF Indexed
  <2>6. rpc # "idle" => rdesc = f[u]
    BY <2>1, <2>2 DEF Indexed
  <2>7. QED
    BY <1>1, <1>2, <2>3, <2>4, <2>5, <2>6 DEF Indexed
<1>7. QED
  BY <1>4, <1>5, <1>6

\* The entry is published.
LEMMA CountsPublish ==
  ASSUME VringAssumption, TypeOK, LockInv, NEW w \in Writers, TxPublish(w),
         NEW c \in Nat, NEW u \in Nat, NEW l \in Nat, NEW a \in Nat, NEW e \in [Nat -> Desc],
         Counts(c, u, l, a), Limits(c, u), Indexed(c, u, l, a, e)
  PROVE  Counts(c, u, l, a + 1)' /\ Limits(c, u)' /\ Indexed(c, u, l, a + 1, e)'
         /\ freeLock = w /\ Top(a + 1)' = a + 1 /\ Top(a) = a + 1
<1>1. /\ avail' = [avail EXCEPT ![availIdx % Num] = frame[w].d]
      /\ availIdx' = Inc(availIdx) /\ sent' = Inc(sent) /\ freeLock' = None
      /\ pc[w] = "publish" /\ pc' = [pc EXCEPT ![w] = "idle"]
      /\ UNCHANGED <<lastUsed, clean, cleanLock, usedIdx, lastAvail, rpc, rdesc, got, used>>
  BY DEF TxPublish, rx
<1>2. freeLock = w /\ w # None
  BY <1>1, Assumed DEF LockInv, Threads
<1>3. Top(a) = a + 1 /\ Top(a + 1)' = a + 1
  BY <1>1, <1>2 DEF Top
<1>4. Inc(a % Wrap) = (a + 1) % Wrap /\ (a % Wrap) % Num = a % Num /\ a % Num \in Desc
  BY Turn
<1>5. Counts(c, u, l, a + 1)'
  <2>1. Unclean' = Unclean
    BY <1>1 DEF Unclean
  <2>2. First(u, l)' = First(u, l)
    BY <1>1 DEF First
  <2>3. QED
    BY <1>1, <1>3, <1>4, <2>1, <2>2 DEF Counts
<1>6. Limits(c, u)'
  BY <1>1 DEF Limits, TypeOK
<1>7. Indexed(c, u, l, a + 1, e)'
  <2>1. c <= l /\ a + 1 - c <= Num /\ availIdx = a % Wrap
    BY <1>3 DEF Counts
  <2>2. frame[w].d = e[a]
    BY <1>2 DEF Indexed
  <2>3. avail' = [avail EXCEPT ![a % Num] = e[a]]
    BY <1>1, <1>4, <2>1, <2>2
  <2>4. avail \in [Desc -> Desc]
    BY DEF TypeOK
  <2>5. \A k \in l .. a : avail'[k % Num] = e[k]
    <3> SUFFICES ASSUME NEW k \in l .. a
                 PROVE  avail'[k % Num] = e[k]
      OBVIOUS
    <3>1. CASE k = a
      BY <1>4, <2>3, <2>4, <3>1
    <3>2. CASE k # a
      <4>1. k \in Nat /\ k \in l .. a - 1 /\ a - k < Num /\ k - a < Num
        BY <2>1, <3>2, Assumed
      <4>2. k % Num # a % Num
        BY <3>2, <4>1, Apart
      <4>3. k % Num \in Desc
        BY <4>1, Turn
      <4>4. avail[k % Num] = e[k]
        BY <4>1 DEF Indexed
      <4>5. QED
        BY <2>3, <2>4, <4>2, <4>3, <4>4
    <3>3. QED
      BY <3>1, <3>2
  <2>6. QED
    BY <1>1, <2>5 DEF Indexed
<1>8. QED
  BY <1>2, <1>3, <1>5, <1>6, <1>7

\* The receiver takes the next entry.
LEMMA CountsDesc ==
  ASSUME VringAssumption, TypeOK, LockInv, RxDesc,
         NEW c \in Nat, NEW u \in Nat, NEW l \in Nat, NEW a \in Nat, NEW e \in [Nat -> Desc],
         Counts(c, u, l, a), Limits(c, u), Indexed(c, u, l, a, e), l < a => DescOk(e[l])
  PROVE  /\ Counts(c, u, l + 1, a)' /\ Limits(c, u)' /\ Indexed(c, u, l + 1, a, e)'
         /\ rpc' = "push" /\ l = u /\ l < a
<1>1. /\ rpc = "idle" /\ availIdx # lastAvail /\ rdesc' = avail[lastAvail % Num]
      /\ lastAvail' = Inc(lastAvail) /\ rpc' = IF DescOk(rdesc') THEN "push" ELSE "idle"
      /\ UNCHANGED <<lastUsed, clean, cleanLock, freeLock, usedIdx, availIdx, sent, got, used, avail,
                     pc, frame, desc>>
  BY DEF RxDesc, ring, locks
<1>2. /\ l = u /\ c <= u /\ l <= a /\ Top(a) - c <= Num /\ lastAvail = l % Wrap /\ availIdx = a % Wrap
      /\ got = l % Wrap
  BY <1>1 DEF Counts, First
<1>3. l < a
  BY <1>1, <1>2
<1>4. rdesc' = e[l]
  <2>1. (l % Wrap) % Num = l % Num
    BY Turn
  <2>2. l \in l .. a - 1
    BY <1>3
  <2>3. QED
    BY <1>1, <1>2, <2>1, <2>2 DEF Indexed
<1>5. rpc' = "push"
  BY <1>1, <1>3, <1>4
<1>6. Inc(l % Wrap) = (l + 1) % Wrap
  BY Turn
<1>7. Counts(c, u, l + 1, a)'
  <2>1. Unclean' = Unclean /\ Top(a)' = Top(a)
    BY <1>1 DEF Unclean, Top
  <2>2. First(u, l + 1)' = u
    BY <1>5 DEF First
  <2>3. QED
    BY <1>1, <1>2, <1>3, <1>5, <1>6, <2>1, <2>2 DEF Counts
<1>8. Limits(c, u)'
  BY <1>1 DEF Limits
<1>9. Indexed(c, u, l + 1, a, e)'
  BY <1>1, <1>2, <1>4 DEF Indexed
<1>10. QED
  BY <1>2, <1>3, <1>5, <1>7, <1>8, <1>9

\* It has copied the frame.
LEMMA CountsPush ==
  ASSUME VringAssumption, TypeOK, LockInv, RxPush,
         NEW c \in Nat, NEW u \in Nat, NEW l \in Nat, NEW a \in Nat, NEW e \in [Nat -> Desc],
         Counts(c, u, l, a), Limits(c, u), Indexed(c, u, l, a, e)
  PROVE  Counts(c, u, l, a)' /\ Limits(c, u)' /\ Indexed(c, u, l, a, e)'
<1>1. /\ rpc = "push" /\ rpc' = "finish" /\ got' = Inc(got)
      /\ UNCHANGED <<lastUsed, clean, cleanLock, freeLock, usedIdx, lastAvail, availIdx, sent, rdesc,
                     used, avail, pc, frame>>
  BY DEF RxPush, ring, locks
<1>2. l = u + 1 /\ got = u % Wrap
  BY <1>1 DEF Counts, First
<1>3. Inc(u % Wrap) = l % Wrap
  BY <1>2, Turn
<1>4. Counts(c, u, l, a)'
  <2>1. Unclean' = Unclean /\ Top(a)' = Top(a) /\ First(u, l)' = l
    BY <1>1 DEF Unclean, Top, First
  <2>2. QED
    BY <1>1, <1>2, <1>3, <2>1 DEF Counts
<1>5. Limits(c, u)' /\ Indexed(c, u, l, a, e)'
  BY <1>1 DEF Limits, Indexed
<1>6. QED
  BY <1>4, <1>5

\* It gives the entry back.
LEMMA CountsFinish ==
  ASSUME VringAssumption, TypeOK, LockInv, RxFinish,
         NEW c \in Nat, NEW u \in Nat, NEW l \in Nat, NEW a \in Nat, NEW e \in [Nat -> Desc],
         Counts(c, u, l, a), Limits(c, u), Indexed(c, u, l, a, e)
  PROVE  Counts(c, l, l, a)' /\ Limits(c, l)' /\ Indexed(c, l, l, a, e)'
<1>1. /\ rpc = "finish" /\ rpc' = "idle" /\ used' = [used EXCEPT ![usedIdx % Num] = rdesc]
      /\ usedIdx' = Inc(usedIdx)
      /\ UNCHANGED <<lastUsed, clean, cleanLock, freeLock, lastAvail, availIdx, sent, got,
                     avail, pc, frame>>
  BY DEF RxFinish, locks
<1>2. /\ l = u + 1 /\ got = l % Wrap /\ usedIdx = u % Wrap /\ c <= u /\ l <= a /\ Top(a) - c <= Num
      /\ Top(a) >= a
  BY <1>1 DEF Counts, First, Top
<1>3. Inc(u % Wrap) = l % Wrap /\ (u % Wrap) % Num = u % Num /\ u % Num \in Desc
  BY <1>2, Turn
<1>4. Counts(c, l, l, a)'
  <2>1. Unclean' = Unclean /\ Top(a)' = Top(a) /\ First(l, l)' = l
    BY <1>1 DEF Unclean, Top, First
  <2>2. QED
    BY <1>1, <1>2, <1>3, <2>1 DEF Counts
<1>5. Limits(c, l)'
  <2>1. \A m \in c .. u : m \in c .. l
    BY <1>2
  <2>2. QED
    BY <1>1, <2>1 DEF Limits
<1>6. Indexed(c, l, l, a, e)'
  <2>1. rdesc = e[u]
    BY <1>1 DEF Indexed
  <2>2. used' = [used EXCEPT ![u % Num] = e[u]] /\ used \in [Desc -> Desc]
    BY <1>1, <1>2, <1>3, <2>1 DEF TypeOK
  <2>3. \A k \in c .. l - 1 : used'[k % Num] = e[k]
    <3> SUFFICES ASSUME NEW k \in c .. l - 1
                 PROVE  used'[k % Num] = e[k]
      OBVIOUS
    <3>1. CASE k = u
      BY <1>3, <2>2, <3>1
    <3>2. CASE k # u
      <4>1. k \in Nat /\ k \in c .. u - 1 /\ u - k < Num /\ k - u < Num
        <5>1. PICK T \in Int : T = Top(a)
          BY DEF Top
        <5>2. QED
          BY <1>2, <3>2, <5>1, Assumed
      <4>2. k % Num # u % Num
        BY <3>2, <4>1, Apart
      <4>3. k % Num \in Desc
        BY <4>1, Turn
      <4>4. used[k % Num] = e[k]
        BY <4>1 DEF Indexed
      <4>5. QED
        BY <2>2, <4>2, <4>3, <4>4
    <3>3. QED
      BY <3>1, <3>2
  <2>4. QED
    BY <1>1, <2>3 DEF Indexed
<1>7. QED
  BY <1>4, <1>5, <1>6

-----------------------------------------------------------------------------
(***************************************************************************)
(* The places of the descriptors                                           *)
(***************************************************************************)
\* Places are told apart by their kind, their thread and their number.
LEMMA Kinds ==
  /\ \A k, j : Ring(k) = Ring(j) => k = j
  /\ \A k, j : Free(k) = Free(j) => k = j
  /\ \A t, s, k, j : Batch(t, k) = Batch(s, j) => t = s /\ k = j
  /\ \A k, j : Ring(k) # Free(j)
  /\ \A t, k, j : Ring(k) # Batch(t, j) /\ Free(k) # Batch(t, j)
BY DEF Ring, Free, Batch

\* What the invariant says about the places, in one piece
Places(c, a, e, at) == Located(c, a, e, at) /\ FreeList(at) /\ BatchList(at)

\* A step that moves no descriptor
LEMMA PlacesQuiet ==
  ASSUME TypeOK, NEW c \in Nat, NEW a \in Nat, NEW b \in Nat, NEW e \in [Nat -> Desc], NEW at,
         Places(c, a, e, at), Top(b)' = Top(a), numFree' = numFree, freeHead' = freeHead,
         \A s \in Threads : clean'[s].num = clean[s].num,
         \A s \in Threads : clean[s].num > 0 =>
            clean'[s].top = clean[s].top /\ clean'[s].first = clean[s].first,
         \A d \in Desc : desc'[d].next = desc[d].next
  PROVE  Places(c, b, e, at)'
<1>1. Located(c, b, e, at)'
  BY DEF Places, Located
<1>2. FreeList(at)'
  BY DEF Places, FreeList
<1>3. BatchList(at)'
  BY DEF Places, BatchList
<1>4. QED
  BY <1>1, <1>2, <1>3 DEF Places

\* An entry that is cleaned goes to the batch.
LEMMA PlacesEntry ==
  ASSUME VringAssumption, TypeOK, NEW t \in Threads, CleanEntry(t),
         NEW c \in Nat, NEW a \in Nat, NEW e \in [Nat -> Desc], NEW at,
         Places(c, a, e, at), c < Top(a), UsedDesc(t) = e[c],
         NEW at2, at2 = [d \in Desc |-> IF d = e[c] THEN Batch(t, clean[t].num) ELSE at[d]]
  PROVE  Places(c + 1, a, e, at2)'
<1>1. /\ clean'[t].num = clean[t].num + 1 /\ clean'[t].top = e[c]
      /\ clean'[t].first = IF clean[t].num = 0 THEN e[c] ELSE clean[t].first
      /\ \A s \in Threads : s # t => clean'[s] = clean[s]
      /\ \A d \in Desc : d # e[c] => desc'[d].next = desc[d].next
      /\ clean[t].num > 0 => desc'[e[c]].next = clean[t].top
  BY DoEntry
<1>2. UNCHANGED <<freeLock, numFree, freeHead>>
  BY DEF CleanEntry, locks, free
<1>3. /\ e[c] \in Desc /\ clean[t].num \in Nat /\ Top(a) \in Nat /\ numFree \in Nat /\ freeHead \in Desc
      /\ \A s \in Threads : clean[s].num \in Nat /\ clean[s].top \in Desc /\ clean[s].first \in Desc
      /\ \A d \in Desc : desc[d].next \in Desc
  BY DEF TypeOK, Top
<1>4. Top(a)' = Top(a)
  BY <1>2 DEF Top
<1>5. at[e[c]] = Ring(c)
  <2>1. c \in c .. Top(a) - 1
    BY <1>3
  <2>2. QED
    BY <2>1 DEF Places, Located
<1>6. /\ at2[e[c]] = Batch(t, clean[t].num)
      /\ \A d \in Desc : d # e[c] => at2[d] = at[d]
  BY <1>3
<1>7. \A d \in Desc : at[d] # Batch(t, clean[t].num)
  <2> SUFFICES ASSUME NEW d \in Desc, at[d] = Batch(t, clean[t].num)
               PROVE  FALSE
    OBVIOUS
  <2>1. \/ \E k \in c .. Top(a) - 1 : at[d] = Ring(k)
        \/ \E h \in 0 .. numFree - 1 : at[d] = Free(h)
        \/ \E s \in Threads : \E h \in 0 .. clean[s].num - 1 : at[d] = Batch(s, h)
    BY DEF Places, Located
  <2>2. QED
    BY <1>3, <2>1, Kinds
<1>8. Located(c + 1, a, e, at2)'
  <2>1. \A d, f \in Desc : at2[d] = at2[f] => d = f
    <3> SUFFICES ASSUME NEW d \in Desc, NEW f \in Desc, at2[d] = at2[f]
                 PROVE  d = f
      OBVIOUS
    <3>1. \A x, y \in Desc : at[x] = at[y] => x = y
      BY DEF Places, Located
    <3>2. QED
      BY <1>6, <1>7, <3>1
  <2>2. \A k \in c + 1 .. Top(a) - 1 : at2[e[k]] = Ring(k)
    <3> SUFFICES ASSUME NEW k \in c + 1 .. Top(a) - 1
                 PROVE  at2[e[k]] = Ring(k)
      OBVIOUS
    <3>1. k \in c .. Top(a) - 1 /\ k # c /\ k \in Nat /\ e[k] \in Desc
      BY <1>3
    <3>2. at[e[k]] = Ring(k)
      BY <3>1 DEF Places, Located
    <3>3. e[k] # e[c]
      BY <1>5, <3>1, <3>2, Kinds
    <3>4. QED
      BY <1>6, <3>1, <3>2, <3>3
  <2>3. ASSUME NEW d \in Desc
        PROVE  \/ \E k \in c + 1 .. Top(a) - 1 : at2[d] = Ring(k)
               \/ \E h \in 0 .. numFree - 1 : at2[d] = Free(h)
               \/ \E s \in Threads : \E h \in 0 .. clean'[s].num - 1 : at2[d] = Batch(s, h)
    <3>1. CASE d = e[c]
      <4>1. clean[t].num \in 0 .. clean'[t].num - 1
        BY <1>1, <1>3
      <4>2. QED
        BY <1>6, <3>1, <4>1
    <3>2. CASE d # e[c]
      <4>1. at2[d] = at[d]
        BY <1>6, <3>2
      <4>2. CASE \E k \in c .. Top(a) - 1 : at[d] = Ring(k)
        <5>1. PICK k \in c .. Top(a) - 1 : at[d] = Ring(k)
          BY <4>2
        <5>2. k # c
          <6>1. \A x, y \in Desc : at[x] = at[y] => x = y
            BY DEF Places, Located
          <6>2. QED
            BY <1>3, <1>5, <3>2, <5>1, <6>1
        <5>3. k \in c + 1 .. Top(a) - 1
          BY <1>3, <5>2
        <5>4. QED
          BY <4>1, <5>1, <5>3
      <4>3. CASE \E h \in 0 .. numFree - 1 : at[d] = Free(h)
        BY <4>1, <4>3
      <4>4. CASE \E s \in Threads : \E h \in 0 .. clean[s].num - 1 : at[d] = Batch(s, h)
        <5>1. PICK s \in Threads, h \in Int : h \in 0 .. clean[s].num - 1 /\ at[d] = Batch(s, h)
          BY <4>4
        <5>2. h \in 0 .. clean'[s].num - 1
          <6>1. CASE s = t
            BY <1>1, <1>3, <5>1, <6>1
          <6>2. CASE s # t
            BY <1>1, <5>1, <6>2
          <6>3. QED
            BY <6>1, <6>2
        <5>3. QED
          BY <4>1, <5>1, <5>2
      <4>5. QED
        BY <4>2, <4>3, <4>4 DEF Places, Located
    <3>3. QED
      BY <3>1, <3>2
  <2>4. QED
    BY <1>2, <1>4, <2>1, <2>2, <2>3 DEF Located
<1>9. FreeList(at2)'
  <2>1. numFree > 0 => at2[freeHead] = Free(numFree - 1)
    BY <1>3, <1>5, <1>6, Kinds DEF Places, FreeList
  <2>2. ASSUME NEW d \in Desc, NEW h \in Nat, at2[d] = Free(h + 1)
        PROVE  at2[desc'[d].next] = Free(h)
    <3>1. d # e[c] /\ at[d] = Free(h + 1)
      BY <1>6, <2>2, Kinds
    <3>2. at[desc[d].next] = Free(h)
      BY <3>1 DEF Places, FreeList
    <3>3. desc[d].next # e[c]
      BY <1>5, <3>2, Kinds
    <3>4. QED
      BY <1>1, <1>3, <1>6, <3>1, <3>2, <3>3
  <2>3. QED
    BY <1>2, <2>1, <2>2 DEF FreeList
<1>10. BatchList(at2)'
  <2> SUFFICES ASSUME NEW s \in Threads
               PROVE  /\ clean'[s].num > 0 => /\ at2[clean'[s].top] = Batch(s, clean'[s].num - 1)
                                              /\ at2[clean'[s].first] = Batch(s, 0)
                      /\ \A d \in Desc, h \in Nat :
                            at2[d] = Batch(s, h + 1) => at2[desc'[d].next] = Batch(s, h)
    BY DEF BatchList
  <2>1. /\ clean[s].num > 0 => /\ at[clean[s].top] = Batch(s, clean[s].num - 1)
                               /\ at[clean[s].first] = Batch(s, 0)
        /\ \A d \in Desc, h \in Nat : at[d] = Batch(s, h + 1) => at[desc[d].next] = Batch(s, h)
    BY DEF Places, BatchList
  <2>2. \A d \in Desc : \A h : at[d] = Batch(s, h) => at2[d] = Batch(s, h)
    BY <1>5, <1>6, Kinds
  <2>3. clean'[s].num > 0 => at2[clean'[s].top] = Batch(s, clean'[s].num - 1)
    <3>1. CASE s = t
      <4>1. clean[t].num \in Nat /\ clean'[t].num = clean[t].num + 1 /\ clean'[t].top = e[c]
        BY <1>1, <1>3
      <4>2. clean'[t].num - 1 = clean[t].num
        BY <4>1
      <4>3. QED
        BY <1>6, <3>1, <4>1, <4>2
    <3>2. CASE s # t
      BY <1>1, <1>3, <2>1, <2>2, <3>2
    <3>3. QED
      BY <3>1, <3>2
  <2>4. clean'[s].num > 0 => at2[clean'[s].first] = Batch(s, 0)
    <3>1. CASE s = t /\ clean[t].num = 0
      BY <1>1, <1>3, <1>6, <3>1
    <3>2. CASE s = t /\ clean[t].num # 0
      BY <1>1, <1>3, <2>1, <2>2, <3>2
    <3>3. CASE s # t
      BY <1>1, <1>3, <2>1, <2>2, <3>3
    <3>4. QED
      BY <3>1, <3>2, <3>3
  <2>5. ASSUME NEW d \in Desc, NEW h \in Nat, at2[d] = Batch(s, h + 1)
        PROVE  at2[desc'[d].next] = Batch(s, h)
    <3>1. CASE d = e[c]
      <4>1. s = t /\ h + 1 = clean[t].num
        BY <1>6, <2>5, <3>1, Kinds
      <4>2. clean[t].num > 0 /\ clean[t].num - 1 = h
        BY <4>1
      <4>3. at[clean[t].top] = Batch(t, h)
        BY <2>1, <4>1, <4>2
      <4>4. desc'[d].next = clean[t].top
        BY <1>1, <3>1, <4>2
      <4>5. QED
        BY <1>3, <2>2, <4>1, <4>3, <4>4
    <3>2. CASE d # e[c]
      <4>1. at[d] = Batch(s, h + 1)
        BY <1>6, <2>5, <3>2
      <4>2. at[desc[d].next] = Batch(s, h)
        BY <2>1, <4>1
      <4>3. QED
        BY <1>1, <1>3, <2>2, <3>2, <4>2
    <3>3. QED
      BY <3>1, <3>2
  <2>6. QED
    BY <2>3, <2>4, <2>5
<1>11. QED
  BY <1>8, <1>9, <1>10 DEF Places

\* A batch goes to the free list.
LEMMA PlacesSplice ==
  ASSUME TypeOK, LockInv, NEW t \in Threads, Splice(t),
         NEW c \in Nat, NEW a \in Nat, NEW e \in [Nat -> Desc], NEW at,
         Places(c, a, e, at), NEW at2,
         at2 = [d \in Desc |-> IF \E h \in Nat : at[d] = Batch(t, h)
                               THEN Free(numFree + at[d][3]) ELSE at[d]]
  PROVE  Places(c, a, e, at2)'
<1>1. /\ clean'[t].num = 0
      /\ \A s \in Threads : s # t => clean'[s] = clean[s]
      /\ \A d \in Desc : d # clean[t].first => desc'[d].next = desc[d].next
      /\ desc'[clean[t].first].next = freeHead
  BY DoSplice
<1>2. freeLock' = freeLock /\ numFree' = numFree + clean[t].num /\ freeHead' = clean[t].top
  BY DEF Splice, locks, Freed
<1>3. /\ clean[t].num \in Nat /\ Top(a) \in Nat /\ numFree \in Nat /\ freeHead \in Desc
      /\ \A s \in Threads : clean[s].num \in Nat /\ clean[s].top \in Desc /\ clean[s].first \in Desc
      /\ \A d \in Desc : desc[d].next \in Desc
  BY DEF TypeOK, Top
<1>4. Top(a)' = Top(a) /\ clean[t].num > 0
  BY <1>2 DEF Top, Splice, LockInv
<1>5. /\ \A d \in Desc, h \in Nat : at[d] = Batch(t, h) => at2[d] = Free(numFree + h)
      /\ \A d \in Desc : (\A h \in Nat : at[d] # Batch(t, h)) => at2[d] = at[d]
  <2>1. \A h : Batch(t, h)[3] = h
    BY DEF Batch
  <2>2. QED
    BY <2>1
<1>6. /\ \A d \in Desc : \A k : at[d] = Ring(k) => at2[d] = Ring(k)
      /\ \A d \in Desc : \A h : at[d] = Free(h) => at2[d] = Free(h)
      /\ \A d \in Desc, s \in Threads : \A h : at[d] = Batch(s, h) /\ s # t => at2[d] = Batch(s, h)
  <2>1. ASSUME NEW d \in Desc, \A h \in Nat : at[d] # Batch(t, h)
        PROVE  at2[d] = at[d]
    BY <1>5, <2>1
  <2>2. \A d \in Desc : \A k : at[d] = Ring(k) => at2[d] = Ring(k)
    BY <2>1, Kinds
  <2>3. \A d \in Desc : \A h : at[d] = Free(h) => at2[d] = Free(h)
    BY <2>1, Kinds
  <2>4. \A d \in Desc, s \in Threads : \A h : at[d] = Batch(s, h) /\ s # t => at2[d] = Batch(s, h)
    BY <2>1, Kinds
  <2>5. QED
    BY <2>2, <2>3, <2>4
<1>7. \A d, f \in Desc : at[d] = at[f] => d = f
  BY DEF Places, Located
<1>8. ASSUME NEW d \in Desc
      PROVE  \/ \E k \in c .. Top(a) - 1 : at[d] = Ring(k) /\ at2[d] = Ring(k)
             \/ \E h \in 0 .. numFree - 1 : at[d] = Free(h) /\ at2[d] = Free(h)
             \/ \E h \in 0 .. clean[t].num - 1 : at[d] = Batch(t, h) /\ at2[d] = Free(numFree + h)
             \/ \E s \in Threads : \E h \in 0 .. clean[s].num - 1 :
                   s # t /\ at[d] = Batch(s, h) /\ at2[d] = Batch(s, h)
  <2>1. CASE \E k \in c .. Top(a) - 1 : at[d] = Ring(k)
    BY <1>6, <2>1
  <2>2. CASE \E h \in 0 .. numFree - 1 : at[d] = Free(h)
    BY <1>6, <2>2
  <2>3. CASE \E s \in Threads : \E h \in 0 .. clean[s].num - 1 : at[d] = Batch(s, h)
    <3>1. PICK s \in Threads : \E h \in 0 .. clean[s].num - 1 : at[d] = Batch(s, h)
      BY <2>3
    <3>2. PICK h \in 0 .. clean[s].num - 1 : at[d] = Batch(s, h)
      BY <3>1
    <3>3. h \in Nat
      BY <1>3
    <3>4. CASE s = t
      BY <1>5, <3>2, <3>3, <3>4
    <3>5. CASE s # t
      BY <1>6, <3>2, <3>5
    <3>6. QED
      BY <3>4, <3>5
  <2>4. QED
    BY <2>1, <2>2, <2>3 DEF Places, Located
<1>9. Located(c, a, e, at2)'
  <2>1. \A d, f \in Desc : at2[d] = at2[f] => d = f
    <3> SUFFICES ASSUME NEW d \in Desc, NEW f \in Desc, at2[d] = at2[f]
                 PROVE  at[d] = at[f]
      BY <1>7
    <3>1. CASE \E k \in c .. Top(a) - 1 : at[d] = Ring(k) /\ at2[d] = Ring(k)
      BY <1>8, <3>1, Kinds
    <3>2. CASE \E h \in 0 .. numFree - 1 : at[d] = Free(h) /\ at2[d] = Free(h)
      <4>1. PICK h \in 0 .. numFree - 1 : at[d] = Free(h) /\ at2[d] = Free(h)
        BY <3>2
      <4>2. \A i \in 0 .. clean[t].num - 1 : h # numFree + i
        BY <1>3
      <4>3. QED
        BY <1>8, <4>1, <4>2, Kinds
    <3>3. CASE \E h \in 0 .. clean[t].num - 1 : at[d] = Batch(t, h) /\ at2[d] = Free(numFree + h)
      <4>1. PICK h \in 0 .. clean[t].num - 1 : at[d] = Batch(t, h) /\ at2[d] = Free(numFree + h)
        BY <3>3
      <4>2. \A i \in 0 .. numFree - 1 : i # numFree + h
        BY <1>3
      <4>3. \A i \in 0 .. clean[t].num - 1 : numFree + i = numFree + h => i = h
        BY <1>3
      <4>4. QED
        BY <1>8, <4>1, <4>2, <4>3, Kinds
    <3>4. CASE \E s \in Threads : \E h \in 0 .. clean[s].num - 1 :
                   s # t /\ at[d] = Batch(s, h) /\ at2[d] = Batch(s, h)
      BY <1>8, <3>4, Kinds
    <3>5. QED
      BY <1>8, <3>1, <3>2, <3>3, <3>4
  <2>2. \A k \in c .. Top(a) - 1 : at2[e[k]] = Ring(k)
    BY <1>3, <1>6 DEF Places, Located
  <2>3. ASSUME NEW d \in Desc
        PROVE  \/ \E k \in c .. Top(a) - 1 : at2[d] = Ring(k)
               \/ \E h \in 0 .. numFree' - 1 : at2[d] = Free(h)
               \/ \E s \in Threads : \E h \in 0 .. clean'[s].num - 1 : at2[d] = Batch(s, h)
    <3>1. CASE \E h \in 0 .. numFree - 1 : at[d] = Free(h) /\ at2[d] = Free(h)
      <4>1. \A h \in 0 .. numFree - 1 : h \in 0 .. numFree' - 1
        BY <1>2, <1>3
      <4>2. QED
        BY <3>1, <4>1
    <3>2. CASE \E h \in 0 .. clean[t].num - 1 : at[d] = Batch(t, h) /\ at2[d] = Free(numFree + h)
      <4>1. \A h \in 0 .. clean[t].num - 1 : numFree + h \in 0 .. numFree' - 1
        BY <1>2, <1>3
      <4>2. QED
        BY <3>2, <4>1
    <3>3. CASE \E s \in Threads : \E h \in 0 .. clean[s].num - 1 :
                   s # t /\ at[d] = Batch(s, h) /\ at2[d] = Batch(s, h)
      BY <1>1, <3>3
    <3>4. QED
      BY <1>8, <3>1, <3>2, <3>3
  <2>4. QED
    BY <1>4, <2>1, <2>2, <2>3 DEF Located
<1>10. FreeList(at2)'
  <2>1. at2[clean[t].top] = Free(numFree' - 1)
    <3>1. PICK h \in Nat : h = clean[t].num - 1
      BY <1>3, <1>4
    <3>2. at[clean[t].top] = Batch(t, h)
      BY <1>4, <3>1 DEF Places, BatchList
    <3>3. numFree + h = numFree' - 1
      BY <1>2, <1>3, <3>1
    <3>4. QED
      BY <1>3, <1>5, <3>2, <3>3
  <2>2. ASSUME NEW d \in Desc, NEW h \in Nat, at2[d] = Free(h + 1)
        PROVE  at2[desc'[d].next] = Free(h)
    <3>0. at[clean[t].first] = Batch(t, 0)
      BY <1>4 DEF Places, BatchList
    <3>1. CASE at[d] = Free(h + 1)
      <4>1. d # clean[t].first
        BY <3>0, <3>1, Kinds
      <4>2. at[desc[d].next] = Free(h)
        BY <3>1 DEF Places, FreeList
      <4>3. QED
        BY <1>1, <1>3, <1>6, <4>1, <4>2
    <3>2. CASE \E i \in 0 .. clean[t].num - 1 : at[d] = Batch(t, i) /\ at2[d] = Free(numFree + i)
      <4>1. PICK i \in 0 .. clean[t].num - 1 : at[d] = Batch(t, i) /\ at2[d] = Free(numFree + i)
        BY <3>2
      <4>2. numFree + i = h + 1 /\ i \in Nat
        BY <1>3, <2>2, <4>1, Kinds
      <4>3. CASE i = 0
        <5>1. d = clean[t].first
          BY <1>3, <1>7, <3>0, <4>1, <4>3
        <5>2. numFree > 0 /\ numFree - 1 = h
          BY <1>3, <4>2, <4>3
        <5>3. at[freeHead] = Free(h)
          BY <5>2 DEF Places, FreeList
        <5>4. QED
          BY <1>1, <1>3, <1>6, <5>1, <5>3
      <4>4. CASE i # 0
        <5>0. i - 1 \in Nat
          BY <4>2, <4>4
        <5>1. PICK j \in Nat : i = j + 1
          BY <4>2, <5>0
        <5>2. d # clean[t].first
          BY <3>0, <4>1, <4>4, Kinds
        <5>3. at[desc[d].next] = Batch(t, j)
          BY <4>1, <5>1 DEF Places, BatchList
        <5>4. numFree + j = h
          BY <1>3, <4>2, <5>1
        <5>5. QED
          BY <1>1, <1>3, <1>5, <5>2, <5>3, <5>4
      <4>5. QED
        BY <4>3, <4>4
    <3>3. QED
      BY <1>8, <2>2, <3>1, <3>2, Kinds
  <2>3. QED
    BY <1>2, <2>1, <2>2 DEF FreeList
<1>11. BatchList(at2)'
  <2> SUFFICES ASSUME NEW s \in Threads
               PROVE  /\ clean'[s].num > 0 => /\ at2[clean'[s].top] = Batch(s, clean'[s].num - 1)
                                              /\ at2[clean'[s].first] = Batch(s, 0)
                      /\ \A d \in Desc, h \in Nat :
                            at2[d] = Batch(s, h + 1) => at2[desc'[d].next] = Batch(s, h)
    BY DEF BatchList
  <2>1. CASE s = t
    <3>1. \A d \in Desc : \A h : at2[d] # Batch(t, h)
      <4> SUFFICES ASSUME NEW d \in Desc
                   PROVE  \A h : at2[d] # Batch(t, h)
        OBVIOUS
      <4>1. CASE \E k \in c .. Top(a) - 1 : at[d] = Ring(k) /\ at2[d] = Ring(k)
        BY <4>1, Kinds
      <4>2. CASE \E h \in 0 .. numFree - 1 : at[d] = Free(h) /\ at2[d] = Free(h)
        BY <4>2, Kinds
      <4>3. CASE \E h \in 0 .. clean[t].num - 1 : at[d] = Batch(t, h) /\ at2[d] = Free(numFree + h)
        BY <4>3, Kinds
      <4>4. CASE \E r \in Threads : \E h \in 0 .. clean[r].num - 1 :
                   r # t /\ at[d] = Batch(r, h) /\ at2[d] = Batch(r, h)
        BY <4>4, Kinds
      <4>5. QED
        BY <1>8, <4>1, <4>2, <4>3, <4>4
    <3>2. QED
      BY <1>1, <2>1, <3>1
  <2>2. CASE s # t
    <3>1. /\ clean[s].num > 0 => /\ at[clean[s].top] = Batch(s, clean[s].num - 1)
                                 /\ at[clean[s].first] = Batch(s, 0)
          /\ \A d \in Desc, h \in Nat : at[d] = Batch(s, h + 1) => at[desc[d].next] = Batch(s, h)
      BY DEF Places, BatchList
    <3>2. ASSUME NEW d \in Desc, NEW h \in Nat, at2[d] = Batch(s, h + 1)
          PROVE  at2[desc'[d].next] = Batch(s, h)
      <4>1. at[d] = Batch(s, h + 1)
        BY <1>8, <2>2, <3>2, Kinds
      <4>2. d # clean[t].first
        BY <1>4, <2>2, <4>1, Kinds DEF Places, BatchList
      <4>3. QED
        BY <1>1, <1>3, <1>6, <2>2, <3>1, <4>1, <4>2
    <3>3. clean'[s] = clean[s]
      BY <1>1, <2>2
    <3>4. clean[s].num > 0 => at2[clean[s].top] = Batch(s, clean[s].num - 1)
      BY <1>3, <1>6, <2>2, <3>1
    <3>5. clean[s].num > 0 => at2[clean[s].first] = Batch(s, 0)
      BY <1>3, <1>6, <2>2, <3>1
    <3>6. QED
      BY <3>2, <3>3, <3>4, <3>5
  <2>3. QED
    BY <2>1, <2>2
<1>12. QED
  BY <1>9, <1>10, <1>11 DEF Places

\* A descriptor goes from the free list to a new entry.
LEMMA PlacesTake ==
  ASSUME VringAssumption, TypeOK, NEW w \in Writers, TxTake(w), numFree >= 1,
         NEW c \in Nat, NEW a \in Nat, NEW e \in [Nat -> Desc], NEW at, c <= a,
         Places(c, a, e, at),
         NEW f \in [Nat -> Desc], f = [e EXCEPT ![a] = freeHead],
         NEW at2, at2 = [d \in Desc |-> IF d = freeHead THEN Ring(a) ELSE at[d]]
  PROVE  Places(c, a, f, at2)' /\ a + 1 - c <= Num
<1>1. /\ freeHead' = desc[freeHead].next
      /\ \A d \in Desc : desc'[d].next = desc[d].next
  BY DoTake
<1>2. freeLock = None /\ freeLock' = w /\ numFree' = numFree - 1 /\ clean' = clean
  BY DEF TxTake, TypeOK
<1>3. /\ Top(a)' = a + 1 /\ Top(a) = a /\ numFree \in Nat /\ freeHead \in Desc
      /\ \A s \in Threads : clean[s].num \in Nat /\ clean[s].top \in Desc /\ clean[s].first \in Desc
      /\ \A d \in Desc : desc[d].next \in Desc
  BY <1>2, Assumed DEF TypeOK, Top
<1>4. at[freeHead] = Free(numFree - 1)
  BY <1>3 DEF Places, FreeList
<1>5. at2[freeHead] = Ring(a) /\ \A d \in Desc : d # freeHead => at2[d] = at[d]
  BY <1>3
<1>6. \A d, g \in Desc : at[d] = at[g] => d = g
  BY DEF Places, Located
<1>7. f[a] = freeHead /\ \A k \in c .. a - 1 : f[k] = e[k] /\ e[k] \in Desc /\ at[e[k]] = Ring(k)
  BY <1>3 DEF Places, Located
<1>8. ASSUME NEW d \in Desc
      PROVE  \/ \E k \in c .. a - 1 : at[d] = Ring(k)
             \/ \E h \in 0 .. numFree - 1 : at[d] = Free(h)
             \/ \E t \in Threads : \E h \in 0 .. clean[t].num - 1 : at[d] = Batch(t, h)
  BY <1>3 DEF Places, Located
<1>9. \A d \in Desc : at[d] # Ring(a)
  <2> SUFFICES ASSUME NEW d \in Desc, at[d] = Ring(a)
               PROVE  FALSE
    OBVIOUS
  <2>1. CASE \E k \in c .. a - 1 : at[d] = Ring(k)
    <3>1. PICK k \in c .. a - 1 : at[d] = Ring(k)
      BY <2>1
    <3>2. k # a
      BY <3>1
    <3>3. QED
      BY <3>1, <3>2, Kinds
  <2>2. CASE \E h \in 0 .. numFree - 1 : at[d] = Free(h)
    BY <2>2, Kinds
  <2>3. CASE \E t \in Threads : \E h \in 0 .. clean[t].num - 1 : at[d] = Batch(t, h)
    BY <2>3, Kinds
  <2>4. QED
    BY <1>8, <2>1, <2>2, <2>3
<1>10. Located(c, a, f, at2)'
  <2>1. \A d, g \in Desc : at2[d] = at2[g] => d = g
    BY <1>5, <1>6, <1>9
  <2>2. ASSUME NEW k \in c .. a
        PROVE  at2[f[k]] = Ring(k)
    <3>1. CASE k = a
      BY <1>5, <1>7, <3>1
    <3>2. CASE k # a
      <4>1. k \in c .. a - 1
        BY <3>2
      <4>2. f[k] # freeHead
        BY <1>4, <1>7, <4>1, Kinds
      <4>3. QED
        BY <1>5, <1>7, <4>1, <4>2
    <3>3. QED
      BY <3>1, <3>2
  <2>3. ASSUME NEW d \in Desc
        PROVE  \/ \E k \in c .. a : at2[d] = Ring(k)
               \/ \E h \in 0 .. numFree' - 1 : at2[d] = Free(h)
               \/ \E t \in Threads : \E h \in 0 .. clean[t].num - 1 : at2[d] = Batch(t, h)
    <3>1. CASE d = freeHead
      <4>1. a \in c .. a
        OBVIOUS
      <4>2. QED
        BY <1>5, <3>1, <4>1
    <3>2. CASE d # freeHead
      <4>1. at2[d] = at[d]
        BY <1>5, <3>2
      <4>2. CASE \E k \in c .. a - 1 : at[d] = Ring(k)
        <5>1. \A k \in c .. a - 1 : k \in c .. a
          OBVIOUS
        <5>2. QED
          BY <4>1, <4>2, <5>1
      <4>3. CASE \E h \in 0 .. numFree - 1 : at[d] = Free(h)
        <5>1. PICK h \in 0 .. numFree - 1 : at[d] = Free(h)
          BY <4>3
        <5>2. h # numFree - 1
          BY <1>3, <1>4, <1>6, <3>2, <5>1
        <5>3. h \in 0 .. numFree' - 1
          BY <1>2, <1>3, <5>2
        <5>4. QED
          BY <4>1, <5>1, <5>3
      <4>4. CASE \E t \in Threads : \E h \in 0 .. clean[t].num - 1 : at[d] = Batch(t, h)
        BY <4>1, <4>4
      <4>5. QED
        BY <1>8, <4>2, <4>3, <4>4
    <3>3. QED
      BY <3>1, <3>2
  <2>4. Top(a)' - 1 = a
    BY <1>3
  <2>5. QED
    BY <1>2, <2>1, <2>2, <2>3, <2>4 DEF Located
<1>11. FreeList(at2)'
  <2>1. ASSUME NEW d \in Desc, NEW h, at[d] = Free(h), h # numFree - 1
        PROVE  at2[d] = Free(h)
    BY <1>4, <1>5, <2>1, Kinds
  <2>2. ASSUME numFree' > 0
        PROVE  at2[freeHead'] = Free(numFree' - 1)
    <3>1. PICK h \in Nat : numFree - 1 = h + 1
      BY <1>2, <1>3, <2>2
    <3>2. at[desc[freeHead].next] = Free(h)
      BY <1>3, <1>4, <3>1 DEF Places, FreeList
    <3>3. h # numFree - 1 /\ h = numFree' - 1
      BY <1>2, <1>3, <3>1
    <3>4. QED
      BY <1>1, <1>3, <2>1, <3>2, <3>3
  <2>3. ASSUME NEW d \in Desc, NEW h \in Nat, at2[d] = Free(h + 1)
        PROVE  at2[desc'[d].next] = Free(h)
    <3>1. d # freeHead /\ at[d] = Free(h + 1)
      BY <1>5, <2>3, Kinds
    <3>2. at[desc[d].next] = Free(h)
      BY <3>1 DEF Places, FreeList
    <3>3. h # numFree - 1
      <4>1. PICK i \in 0 .. numFree - 1 : h + 1 = i
        BY <1>8, <3>1, Kinds
      <4>2. QED
        BY <1>3, <4>1
    <3>4. QED
      BY <1>1, <1>3, <2>1, <3>2, <3>3
  <2>4. QED
    BY <2>2, <2>3 DEF FreeList
<1>12. BatchList(at2)'
  <2>1. \A d \in Desc : \A s, h : at2[d] = Batch(s, h) <=> at[d] = Batch(s, h)
    BY <1>4, <1>5, Kinds
  <2> SUFFICES ASSUME NEW s \in Threads
               PROVE  /\ clean[s].num > 0 => /\ at2[clean[s].top] = Batch(s, clean[s].num - 1)
                                             /\ at2[clean[s].first] = Batch(s, 0)
                      /\ \A d \in Desc, h \in Nat :
                            at2[d] = Batch(s, h + 1) => at2[desc'[d].next] = Batch(s, h)
    BY <1>2 DEF BatchList
  <2>2. /\ clean[s].num > 0 => /\ at[clean[s].top] = Batch(s, clean[s].num - 1)
                               /\ at[clean[s].first] = Batch(s, 0)
        /\ \A d \in Desc, h \in Nat : at[d] = Batch(s, h + 1) => at[desc[d].next] = Batch(s, h)
    BY DEF Places, BatchList
  <2>3. clean[s].top \in Desc /\ clean[s].first \in Desc
    BY <1>3
  <2>4. clean[s].num > 0 => at2[clean[s].top] = Batch(s, clean[s].num - 1)
                            /\ at2[clean[s].first] = Batch(s, 0)
    BY <2>1, <2>2, <2>3
  <2>5. ASSUME NEW d \in Desc, NEW h \in Nat, at2[d] = Batch(s, h + 1)
        PROVE  at2[desc'[d].next] = Batch(s, h)
    <3>1. at[d] = Batch(s, h + 1)
      BY <2>1, <2>5
    <3>2. at[desc[d].next] = Batch(s, h)
      BY <2>2, <3>1
    <3>3. desc'[d].next = desc[d].next /\ desc[d].next \in Desc
      BY <1>1, <1>3
    <3>4. QED
      BY <2>1, <3>2, <3>3
  <2>6. QED
    BY <2>4, <2>5
<1>13. a + 1 - c <= Num
  <2>1. PICK n \in Nat : n = a + 1
    OBVIOUS
  <2>2. \A k, j \in c .. n - 1 : f[k] = f[j] => k = j
    <3> SUFFICES ASSUME NEW k \in c .. n - 1, NEW j \in c .. n - 1, f[k] = f[j]
                 PROVE  k = j
      OBVIOUS
    <3>1. k \in c .. a /\ j \in c .. a
      BY <2>1
    <3>2. CASE k = a /\ j = a
      BY <3>2
    <3>3. CASE k # a /\ j # a
      <4>1. k \in c .. a - 1 /\ j \in c .. a - 1
        BY <3>1, <3>3
      <4>2. QED
        BY <1>7, <4>1, Kinds
    <3>4. CASE k = a /\ j # a
      <4>1. j \in c .. a - 1
        BY <3>1, <3>4
      <4>2. QED
        BY <1>4, <1>7, <3>4, <4>1, Kinds
    <3>5. CASE k # a /\ j = a
      <4>1. k \in c .. a - 1
        BY <3>1, <3>5
      <4>2. QED
        BY <1>4, <1>7, <3>5, <4>1, Kinds
    <3>6. QED
      BY <3>2, <3>3, <3>4, <3>5
  <2>3. n - c <= Num
    BY <2>2, Fits
  <2>4. QED
    BY <2>1, <2>3
<1>14. QED
  BY <1>10, <1>11, <1>12, <1>13 DEF Places

-----------------------------------------------------------------------------
(***************************************************************************)
(* The data ring                                                           *)
(***************************************************************************)
\* A step that neither places a frame nor takes one away
LEMMA OrderQuiet ==
  ASSUME TypeOK, NEW c \in Nat, NEW a \in Nat, NEW b \in Nat, NEW e \in [Nat -> Desc],
         NEW st \in [Nat -> Positions], InOrder(c, a, e, st),
         Top(b)' = Top(a), tail' = tail, head' = head,
         \A d \in Desc : desc'[d].addr = desc[d].addr /\ desc'[d].len = desc[d].len
  PROVE  InOrder(c, b, e, st)'
<1>1. \A k \in c .. Top(a) - 1 : e[k] \in Desc
  BY DEF Top
<1>2. QED
  BY <1>1 DEF InOrder

\* The oldest frame leaves the ring: the tail goes where the head went.
LEMMA OrderEntry ==
  ASSUME VringAssumption, TypeOK, NEW t \in Threads, CleanEntry(t),
         NEW c \in Nat, NEW a \in Nat,
         NEW e \in [Nat -> Desc],
         NEW st \in [Nat -> Positions], InOrder(c, a, e, st), c < Top(a), UsedDesc(t) = e[c]
  PROVE  InOrder(c + 1, a, e, st)'
<1>1. /\ tail' = TailAfter(desc[UsedDesc(t)].len)
      /\ UNCHANGED <<head, freeLock>>
  BY DEF CleanEntry, locks
<1>2. \A d \in Desc : desc'[d].addr = desc[d].addr /\ desc'[d].len = desc[d].len
  BY DoEntry
<1>3. Top(a)' = Top(a) /\ Top(a) \in Nat
  BY <1>1 DEF Top
<1>4. c \in c .. Top(a) - 1
  BY <1>3
<1>5. st[c + 1] = tail'
  BY <1>1, <1>4 DEF InOrder, TailAfter
<1>6. \A k \in c + 1 .. Top(a) - 1 : k \in c .. Top(a) - 1 /\ e[k] \in Desc
  BY <1>3
<1>7. QED
  BY <1>1, <1>2, <1>3, <1>5, <1>6 DEF InOrder

\* A frame is placed at the head.
LEMMA OrderTake ==
  ASSUME VringAssumption, TypeOK, NEW w \in Writers, TxTake(w), numFree >= 1,
         NEW c \in Nat, NEW a \in Nat, NEW e \in [Nat -> Desc], NEW at, c <= a,
         Places(c, a, e, at),
         NEW st \in [Nat -> Positions], InOrder(c, a, e, st),
         NEW f \in [Nat -> Desc], f = [e EXCEPT ![a] = freeHead],
         NEW st2, st2 = [st EXCEPT ![a + 1] = head']
  PROVE  InOrder(c, a, f, st2)'
<1>1. /\ desc'[freeHead].addr = Place(head, frame[w].len)
      /\ desc'[freeHead].len = frame[w].len
      /\ head' = Place(head, frame[w].len) + frame[w].len
      /\ \A d \in Desc : d # freeHead => desc'[d] = desc[d]
  BY DoTake
<1>2. freeLock = None /\ freeLock' = w /\ tail' = tail
  BY DEF TxTake, TypeOK
<1>3. Top(a)' = a + 1 /\ Top(a) = a
  BY <1>2, Assumed DEF Top
<1>4. frame[w].len \in 1 .. MaxLen
  BY DEF TypeOK, Threads
<1>5. st2[a + 1] = head' /\ \A k \in Nat : k # a + 1 => st2[k] = st[k]
  OBVIOUS
<1>6. st[c] = tail /\ st[a] = head
  BY <1>3 DEF InOrder
<1>7. ASSUME NEW k \in c .. a
      PROVE  /\ desc'[f[k]].len \in 1 .. MaxLen
             /\ desc'[f[k]].addr = Place(st2[k], desc'[f[k]].len)
             /\ st2[k + 1] = desc'[f[k]].addr + desc'[f[k]].len
  <2>1. CASE k = a
    <3>1. f[k] = freeHead /\ st2[k] = head /\ st2[k + 1] = head'
      BY <1>5, <1>6, <2>1
    <3>2. QED
      BY <1>1, <1>4, <3>1
  <2>2. CASE k # a
    <3>1. k \in c .. a - 1 /\ k \in Nat /\ k + 1 # a + 1 /\ k # a + 1
      BY <2>2
    <3>2. f[k] = e[k] /\ st2[k] = st[k] /\ st2[k + 1] = st[k + 1] /\ e[k] \in Desc
      BY <1>5, <2>2, <3>1
    <3>3. at[e[k]] = Ring(k)
      BY <1>3, <3>1 DEF Places, Located
    <3>4. e[k] # freeHead
      BY <3>3, Kinds DEF Places, FreeList, TypeOK
    <3>5. desc'[e[k]] = desc[e[k]]
      BY <1>1, <3>2, <3>4
    <3>6. /\ desc[e[k]].len \in 1 .. MaxLen
          /\ desc[e[k]].addr = Place(st[k], desc[e[k]].len)
          /\ st[k + 1] = desc[e[k]].addr + desc[e[k]].len
      BY <1>3, <3>1 DEF InOrder
    <3>7. QED
      BY <3>2, <3>5, <3>6
  <2>3. QED
    BY <2>1, <2>2
<1>8. st2[c] = tail' /\ st2[a + 1] = head'
  BY <1>2, <1>5, <1>6
<1>9. Top(a)' - 1 = a
  BY <1>3
<1>10. QED
  BY <1>3, <1>7, <1>8, <1>9 DEF InOrder

\* Every frame lies inside of the ring.
LEMMA OrderBounds ==
  ASSUME VringAssumption, TypeOK, NEW c \in Nat, NEW a \in Nat, NEW e \in [Nat -> Desc],
         NEW st \in [Nat -> Positions], InOrder(c, a, e, st), NEW k \in c .. Top(a) - 1
  PROVE  /\ DescOk(e[k]) /\ desc[e[k]].len \in 1 .. MaxLen
         /\ desc[e[k]].addr \in Nat /\ desc[e[k]].addr + desc[e[k]].len <= Size
<1>1. k \in Nat
  OBVIOUS
<1>2. PICK n \in 1 .. MaxLen : n = desc[e[k]].len /\ desc[e[k]].addr = Place(st[k], n)
  BY DEF InOrder
<1>3. PICK p \in Positions : p = st[k]
  BY <1>1
<1>4. Place(p, n) \in Positions /\ Place(p, n) + n \in Positions /\ Place(p, n) < Size
  BY Placed, Assumed
<1>5. QED
  BY <1>2, <1>3, <1>4, Assumed DEF DescOk, Positions

\* The check of ivshm_tx_clean passes.
LEMMA OrderPasses ==
  ASSUME VringAssumption, TypeOK, NEW t \in Threads, NEW c \in Nat, NEW a \in Nat,
         NEW e \in [Nat -> Desc],
         NEW st \in [Nat -> Positions], InOrder(c, a, e, st), c < Top(a), UsedDesc(t) = e[c]
  PROVE  UsedOk(t)
<1>1. c \in c .. Top(a) - 1
  BY DEF Top
<1>2. DescOk(e[c])
  BY <1>1, OrderBounds
<1>3. desc[e[c]].addr = Place(tail, desc[e[c]].len)
  BY <1>1 DEF InOrder
<1>4. QED
  BY <1>2, <1>3 DEF UsedOk

-----------------------------------------------------------------------------
(***************************************************************************)
(* The frames that are not read yet                                        *)
(***************************************************************************)
\* A frame of `more' cells is placed at the head h: the frame of len cells at p
\* stays clear of the head and is not overwritten.
LEMMA StaysClear ==
  ASSUME VringAssumption, NEW h \in Positions, NEW p \in Nat, NEW n \in Nat, NEW len \in 1 .. MaxLen,
         NEW more \in 1 .. MaxLen, p + len <= Size, Clear(p, len, h, n),
         n + 2 * MaxLen <= Size + 1
  PROVE  /\ Clear(p, len, Place(h, more) + more, n + MaxLen)
         /\ \A x \in p .. p + len - 1 : x \notin Place(h, more) .. Place(h, more) + more - 1
<1> PICK M \in Nat, S \in Nat : M = MaxLen /\ S = Size
  BY Assumed
<1>1. CASE S - h < more
  <2>1. Place(h, more) = 0
    BY <1>1 DEF Place
  <2>2. h \in 0 .. S /\ more \in 1 .. M /\ len \in 1 .. M
    BY DEF Positions
  <2>3. p + len <= h /\ h - p <= n
    BY <1>1, <2>2 DEF Clear
  <2>4. more <= p /\ more + S - p <= n + M + M - 1
    BY <1>1, <2>2, <2>3
  <2>5. QED
    BY <2>1, <2>2, <2>4 DEF Clear
<1>2. CASE ~(S - h < more)
  <2>1. Place(h, more) = h
    BY <1>2 DEF Place
  <2>2. h \in 0 .. S /\ more \in 1 .. M /\ len \in 1 .. M
    BY DEF Positions
  <2>3. CASE p + len <= h /\ h - p <= n
    BY <2>1, <2>2, <2>3 DEF Clear
  <2>4. CASE h <= p /\ h + S - p <= n + M - 1
    <3>1. h + more <= p
      BY <2>2, <2>4
    <3>2. QED
      BY <2>1, <2>2, <2>4, <3>1 DEF Clear
  <2>5. QED
    BY <2>3, <2>4 DEF Clear
<1>3. QED
  BY <1>1, <1>2

\* What a roomy ring gives: the frames from entry k on, and two more, fit.
LEMMA RoomyFits ==
  ASSUME VringAssumption, Roomy, NEW j \in Nat, j + 1 <= Num, j + 1 <= Credit
  PROVE  j * MaxLen \in Nat /\ j * MaxLen + 2 * MaxLen <= Size + 1
<1>1. PICK n \in {Num, Credit} : (n + 1) * MaxLen <= Size + 1
  BY DEF Roomy
<1>2. PICK m \in Nat : m = n - (j + 1)
  BY Assumed
<1>3. n + 1 = j + 2 + m
  BY <1>2, Assumed
<1>4. PICK M \in Nat : M = MaxLen
  BY Assumed
<1>5. (j + 2 + m) * M = j * M + 2 * M + m * M /\ m * M \in Nat /\ j * M \in Nat
  OBVIOUS
<1>6. QED
  BY <1>1, <1>3, <1>4, <1>5, Assumed

\* A step that leaves the entries and the memory alone
LEMMA LaidQuiet ==
  ASSUME NEW f \in Nat, NEW a \in Nat, NEW e \in [Nat -> Desc], Laid(f, a, e),
         UNCHANGED <<freeLock, avail, mem, head>>,
         \A d \in Desc : desc'[d].addr = desc[d].addr /\ desc'[d].len = desc[d].len,
         \A w \in Writers : pc'[w] = "publish" <=> pc[w] = "publish"
  PROVE  Laid(f, a, e)'
<1>1. Top(a)' = Top(a) /\ Top(a) \in Nat
  BY DEF Top
<1>2. \A k \in f .. Top(a) - 1 : e[k] \in Desc
  BY <1>1
<1>3. \A d \in Desc : Cells(d)' = Cells(d)
  BY DEF Cells
<1>4. Shown(f, a, e)'
  BY DEF Laid, Shown
<1>5. AllClear(f, a, e)'
  BY <1>1, <1>2 DEF Laid, AllClear, Clear
<1>6. Stored(f, a, e)'
  BY <1>1, <1>2, <1>3 DEF Laid, Stored
<1>7. Beside(f, a, e)'
  <2>1. e[a] \in Desc /\ \A k \in f .. a - 1 : e[k] \in Desc
    OBVIOUS
  <2>2. QED
    BY <1>3, <2>1 DEF Laid, Beside
<1>8. QED
  BY <1>4, <1>5, <1>6, <1>7 DEF Laid

\* And that leaves the callers alone
LEMMA FlightQuiet ==
  ASSUME NEW u \in Nat, NEW l \in Nat, NEW a \in Nat, NEW e \in [Nat -> Desc],
         Flight(u, l, a, e), NEW v \in Nat, NEW m \in Nat, First(v, m)' = First(u, l),
         UNCHANGED <<freeLock, avail, mem, head>>,
         \A d \in Desc : desc'[d].addr = desc[d].addr /\ desc'[d].len = desc[d].len,
         \A w \in Writers : /\ pc'[w] = "idle" <=> pc[w] = "idle"
                            /\ pc'[w] = "publish" <=> pc[w] = "publish"
  PROVE  Flight(v, m, a, e)'
<1>1. PICK f \in Nat : f = First(u, l)
  BY DEF First
<1>2. Active' = Active
  BY DEF Active
<1>3. Pending(f, a) => Pending(f, a)'
  BY <1>2 DEF Pending
<1>4. Laid(f, a, e) => Laid(f, a, e)'
  BY LaidQuiet
<1>5. QED
  BY <1>1, <1>3, <1>4 DEF Flight, Roomy

\* A caller goes on only within its credit.
LEMMA FlightWrite ==
  ASSUME VringAssumption, TypeOK, NEW w \in Writers, Write(w),
         NEW c \in Nat, NEW u \in Nat, NEW l \in Nat, NEW a \in Nat, NEW e \in [Nat -> Desc],
         Counts(c, u, l, a), Flight(u, l, a, e)
  PROVE  Flight(u, l, a, e)'
<1>1. PICK f \in Nat : f = First(u, l)
  BY DEF First
<1>2. /\ pc[w] = "idle" /\ pc' = [pc EXCEPT ![w] = "clean"] /\ Outstanding < Credit
      /\ UNCHANGED <<freeLock, avail, mem, head, desc, rpc>>
  BY DEF Write, locks, ring, rx
<1>3. \A x \in Writers : /\ pc'[x] = "publish" <=> pc[x] = "publish"
                         /\ x # w => pc'[x] = pc[x]
                         /\ pc'[w] = "clean"
  BY <1>2 DEF TypeOK, Threads
<1>4. First(u, l)' = First(u, l)
  BY <1>2 DEF First
<1>5. Pending(f, a)'
  <2>1. (sent - got) % Wrap = a - f
    <3>1. f <= a /\ a - f < Wrap /\ sent = a % Wrap /\ got = f % Wrap
      BY <1>1, Assumed DEF Counts, First, Top
    <3>2. QED
      BY <3>1, Distance
  <2>2. IsFiniteSet(Active)
    BY DEF Flight, Pending
  <2>3. Cardinality(Active) + (a - f) < Credit
    BY <1>2, <2>1 DEF Outstanding, Active
  <2>4. Active' = Active \cup {w} /\ w \notin Active
    <3>1. \A x \in Writers : pc'[x] # "idle" <=> pc[x] # "idle" \/ x = w
      BY <1>2, <1>3
    <3>2. QED
      BY <1>2, <3>1 DEF Active
  <2>5. IsFiniteSet(Active') /\ Cardinality(Active') = Cardinality(Active) + 1
    BY <2>2, <2>4, FS_AddElement
  <2>6. Cardinality(Active) \in Nat
    BY <2>2, FS_CardinalityType
  <2>7. QED
    BY <2>3, <2>5, <2>6, Assumed DEF Pending
<1>6. Laid(f, a, e) => Laid(f, a, e)'
  BY <1>2, <1>3, LaidQuiet
<1>7. QED
  BY <1>1, <1>4, <1>5, <1>6 DEF Flight, Roomy

\* A frame is placed beside those that are not read yet.
LEMMA FlightTake ==
  ASSUME VringAssumption, TypeOK, LockInv, NEW w \in Writers, TxTake(w), numFree >= 1,
         NEW c \in Nat, NEW u \in Nat, NEW l \in Nat, NEW a \in Nat, NEW e \in [Nat -> Desc],
         NEW at, NEW st \in [Nat -> Positions],
         Counts(c, u, l, a), Places(c, a, e, at), InOrder(c, a, e, st), a + 1 - c <= Num,
         Flight(u, l, a, e), NEW g \in [Nat -> Desc], g = [e EXCEPT ![a] = freeHead]
  PROVE  Flight(u, l, a, g)'
<1>1. PICK f \in Nat : f = First(u, l)
  BY DEF First
<1>2. /\ freeLock = None /\ freeLock' = w /\ pc[w] = "frame" /\ pc' = [pc EXCEPT ![w] = "copy"]
      /\ UNCHANGED <<avail, mem, rpc>>
  BY DEF TxTake, TypeOK, ring, rx
<1>3. \A x \in Writers : /\ pc'[x] = "idle" <=> pc[x] = "idle"
                         /\ pc[x] # "publish" /\ pc'[x] # "publish"
  <2>1. \A x \in Writers : freeLock # x
    BY <1>2, Assumed
  <2>2. \A x \in Writers : pc[x] # "publish"
    BY <2>1 DEF LockInv, Threads
  <2>3. QED
    BY <1>2, <2>2 DEF TypeOK, Threads
<1>4. First(u, l)' = f /\ Active' = Active
  BY <1>1, <1>2, <1>3 DEF First, Active
<1>5. c <= f /\ f <= a /\ Top(a) = a /\ Top(a)' = a + 1
  BY <1>1, <1>2, Assumed DEF Counts, First, Top
<1>6. Pending(f, a) /\ Pending(f, a)'
  BY <1>1, <1>4 DEF Flight, Pending
<1>7. /\ desc'[freeHead].addr = Place(head, frame[w].len)
      /\ desc'[freeHead].len = frame[w].len
      /\ head' = Place(head, frame[w].len) + frame[w].len
      /\ \A d \in Desc : d # freeHead => desc'[d] = desc[d]
  BY DoTake
<1>8. PICK more \in 1 .. MaxLen : more = frame[w].len
  BY DEF TypeOK, Threads
<1>9. g[a] = freeHead /\ \A k \in f .. a - 1 : g[k] = e[k]
  OBVIOUS
<1>10. ASSUME NEW k \in f .. a - 1
       PROVE  /\ desc'[e[k]] = desc[e[k]] /\ Cells(e[k])' = Cells(e[k])
              /\ desc[e[k]].len \in 1 .. MaxLen /\ desc[e[k]].addr \in Nat
              /\ desc[e[k]].addr + desc[e[k]].len <= Size
  <2>1. k \in c .. Top(a) - 1 /\ k \in Nat
    BY <1>5
  <2>2. at[e[k]] = Ring(k)
    BY <2>1 DEF Places, Located
  <2>3. e[k] # freeHead
    BY <2>2, Kinds DEF Places, FreeList, TypeOK
  <2>4. desc'[e[k]] = desc[e[k]]
    BY <1>7, <2>1, <2>3
  <2>5. QED
    BY <2>1, <2>4, OrderBounds DEF Cells
<1>11. ASSUME Roomy, Laid(f, a, e), NEW k \in f .. a - 1
       PROVE  /\ Clear(desc[e[k]].addr, desc[e[k]].len, head', (a + 1 - k) * MaxLen)
              /\ \A x \in Cells(e[k]) : x \notin Place(head, more) .. Place(head, more) + more - 1
  <2>1. Clear(desc[e[k]].addr, desc[e[k]].len, head, (a - k) * MaxLen)
    BY <1>5, <1>11 DEF Laid, AllClear
  <2>2. (a - k) * MaxLen \in Nat /\ (a - k) * MaxLen + 2 * MaxLen <= Size + 1
    <3>1. a - k \in Nat /\ (a - k) + 1 <= Num
      BY <1>5, Assumed
    <3>2. (a - k) + 1 <= Credit
      <4>1. w \in Active
        BY <1>2 DEF Active
      <4>2. Cardinality(Active) \in Nat /\ Cardinality(Active) # 0
        BY <1>6, <4>1, FS_CardinalityType, FS_EmptySet DEF Pending
      <4>3. QED
        BY <1>6, <4>2, Assumed DEF Pending
    <3>3. QED
      BY <1>11, <3>1, <3>2, RoomyFits
  <2>3. PICK n \in Nat, p \in Nat, len \in 1 .. MaxLen :
          n = (a - k) * MaxLen /\ p = desc[e[k]].addr /\ len = desc[e[k]].len
    BY <1>10, <2>2
  <2>4. /\ Clear(p, len, Place(head, more) + more, n + MaxLen)
        /\ \A x \in p .. p + len - 1 : x \notin Place(head, more) .. Place(head, more) + more - 1
    BY <1>10, <2>1, <2>2, <2>3, StaysClear DEF TypeOK
  <2>5. (a + 1 - k) * MaxLen = n + MaxLen
    <3>1. PICK i \in Nat, M \in Nat : i = a - k /\ M = MaxLen /\ a + 1 - k = i + 1
      BY <1>5, Assumed
    <3>2. (i + 1) * M = i * M + M
      OBVIOUS
    <3>3. QED
      BY <2>3, <3>1, <3>2
  <2>6. QED
    BY <1>7, <1>8, <2>3, <2>4, <2>5 DEF Cells
<1>12. ASSUME Roomy, Laid(f, a, e) PROVE Laid(f, a, g)'
  <2>1. Shown(f, a, g)'
    BY <1>2, <1>9, <1>12 DEF Laid, Shown
  <2>2. AllClear(f, a, g)'
    <3>1. ASSUME NEW k \in f .. a
          PROVE  Clear(desc'[g[k]].addr, desc'[g[k]].len, head', (a + 1 - k) * MaxLen)
      <4>1. CASE k = a
        <5>1. PICK p \in Nat : p = Place(head, more)
          <6>1. head \in Positions
            BY DEF TypeOK
          <6>2. Place(head, more) \in Positions
            BY <6>1, Placed
          <6>3. QED
            BY <6>2, Assumed DEF Positions
        <5>2. head' = p + more /\ desc'[g[k]].addr = p /\ desc'[g[k]].len = more
          BY <1>7, <1>8, <1>9, <4>1, <5>1
        <5>3. (a + 1 - k) * MaxLen = MaxLen
          <6>1. a + 1 - k = 1
            BY <4>1
          <6>2. QED
            BY <6>1, Assumed
        <5>4. QED
          BY <5>2, <5>3, Assumed DEF Clear
      <4>2. CASE k # a
        <5>1. k \in f .. a - 1
          BY <4>2
        <5>2. QED
          BY <1>9, <1>10, <1>11, <1>12, <5>1
      <4>3. QED
        BY <4>1, <4>2
    <3>2. Top(a)' = a + 1 /\ (a + 1) - 1 = a
      BY <1>5
    <3>3. QED
      BY <3>1, <3>2 DEF AllClear
  <2>3. Stored(f, a, g)'
    <3>1. ASSUME NEW k \in f .. a - 1, NEW x \in Cells(e[k]) PROVE mem[x] = k % Wrap
      BY <1>5, <1>12, <3>1 DEF Laid, Stored
    <3>2. ASSUME NEW k \in f .. a, k < a
          PROVE  \A x \in Cells(g[k])' : mem'[x] = k % Wrap
      <4>1. k \in f .. a - 1
        BY <3>2
      <4>2. Cells(g[k])' = Cells(e[k])
        BY <1>9, <1>10, <4>1
      <4>3. QED
        BY <1>2, <3>1, <4>1, <4>2
    <3>3. QED
      BY <1>3, <1>5, <3>2 DEF Stored
  <2>4. Beside(f, a, g)'
    <3>1. Cells(g[a])' = Place(head, more) .. Place(head, more) + more - 1
      BY <1>7, <1>8, <1>9 DEF Cells
    <3>2. \A k \in f .. a - 1 : Cells(g[k])' = Cells(e[k])
      BY <1>9, <1>10
    <3>3. QED
      BY <1>11, <1>12, <3>1, <3>2 DEF Beside
  <2>5. QED
    BY <2>1, <2>2, <2>3, <2>4 DEF Laid
<1>13. QED
  BY <1>1, <1>4, <1>6, <1>12 DEF Flight, Roomy

\* A frame is written: its cells get its number, those of the others stay.
LEMMA FlightCopy ==
  ASSUME VringAssumption, TypeOK, LockInv, NEW w \in Writers, TxCopy(w),
         NEW c \in Nat, NEW u \in Nat, NEW l \in Nat, NEW a \in Nat, NEW e \in [Nat -> Desc],
         NEW st \in [Nat -> Positions],
         Counts(c, u, l, a), Indexed(c, u, l, a, e), InOrder(c, a, e, st), Flight(u, l, a, e)
  PROVE  Flight(u, l, a, e)'
<1>1. PICK f \in Nat : f = First(u, l)
  BY DEF First
<1>2. /\ pc[w] = "copy" /\ pc' = [pc EXCEPT ![w] = "publish"]
      /\ mem' = [x \in DOMAIN mem |-> IF x \in Cells(frame[w].d) THEN sent ELSE mem[x]]
      /\ UNCHANGED <<freeLock, avail, head, desc, rpc>>
  BY DEF TxCopy, Copied, locks, ring, rx
<1>3. freeLock = w /\ freeLock # None
  BY <1>2, Assumed DEF LockInv, Threads
<1>4. frame[w].d = e[a] /\ sent = a % Wrap
  BY <1>3 DEF Indexed, Counts
<1>5. c <= f /\ f <= a /\ Top(a) = a + 1 /\ Top(a)' = a + 1
  BY <1>1, <1>2, <1>3 DEF Counts, First, Top
<1>6. First(u, l)' = f /\ Active' = Active
  <2>1. \A x \in Writers : pc'[x] # "idle" <=> pc[x] # "idle"
    BY <1>2 DEF TypeOK, Threads
  <2>2. QED
    BY <1>1, <1>2, <2>1 DEF First, Active
<1>7. \A d : Cells(d)' = Cells(d)
  BY <1>2 DEF Cells
<1>8. ASSUME NEW k \in f .. a, NEW x \in Cells(e[k]) PROVE x \in DOMAIN mem
  <2>1. k \in c .. Top(a) - 1
    BY <1>5
  <2>2. desc[e[k]].len \in 1 .. MaxLen /\ desc[e[k]].addr \in Nat
        /\ desc[e[k]].addr + desc[e[k]].len <= Size
    BY <2>1, OrderBounds
  <2>3. x \in 0 .. Size - 1
    BY <2>2, Assumed DEF Cells
  <2>4. QED
    BY <2>3 DEF TypeOK
<1>9. ASSUME Laid(f, a, e) PROVE Laid(f, a, e)'
  <2>1. Shown(f, a, e)'
    BY <1>2, <1>9 DEF Laid, Shown
  <2>2. AllClear(f, a, e)'
    BY <1>2, <1>5, <1>9 DEF Laid, AllClear, Clear
  <2>3. Beside(f, a, e)'
    BY <1>2, <1>7, <1>9 DEF Laid, Beside
  <2>4. ASSUME NEW k \in f .. a, NEW x \in Cells(e[k]) PROVE mem'[x] = k % Wrap
    <3>1. x \in DOMAIN mem
      BY <1>8
    <3>2. CASE k = a
      BY <1>2, <1>4, <3>1, <3>2
    <3>3. CASE k # a
      <4>1. k \in f .. a - 1 /\ k \in f .. Top(a) - 1 /\ k < a
        BY <1>5, <3>3
      <4>2. x \notin Cells(e[a])
        BY <1>3, <1>9, <4>1 DEF Laid, Beside
      <4>3. mem[x] = k % Wrap
        BY <1>9, <4>1 DEF Laid, Stored
      <4>4. QED
        BY <1>2, <1>4, <3>1, <4>2, <4>3
    <3>4. QED
      BY <3>2, <3>3
  <2>5. Stored(f, a, e)'
    BY <1>5, <1>7, <2>4 DEF Stored
  <2>6. QED
    BY <2>1, <2>2, <2>3, <2>5 DEF Laid
<1>10. Pending(f, a)'
  BY <1>1, <1>6 DEF Flight, Pending
<1>11. QED
  BY <1>1, <1>6, <1>9, <1>10 DEF Flight, Roomy

\* A frame is published: it is whole, and its slot is none of the others.
LEMMA FlightPublish ==
  ASSUME VringAssumption, TypeOK, LockInv, NEW w \in Writers, TxPublish(w),
         NEW c \in Nat, NEW u \in Nat, NEW l \in Nat, NEW a \in Nat, NEW e \in [Nat -> Desc],
         Counts(c, u, l, a), Indexed(c, u, l, a, e), Flight(u, l, a, e)
  PROVE  Flight(u, l, a + 1, e)'
<1>1. PICK f \in Nat : f = First(u, l)
  BY DEF First
<1>2. /\ pc[w] = "publish" /\ pc' = [pc EXCEPT ![w] = "idle"] /\ freeLock' = None
      /\ avail' = [avail EXCEPT ![availIdx % Num] = frame[w].d]
      /\ UNCHANGED <<mem, head, desc, rpc>>
  BY DEF TxPublish, rx
<1>3. freeLock = w /\ freeLock # None
  BY <1>2, Assumed DEF LockInv, Threads
<1>4. frame[w].d = e[a] /\ availIdx = a % Wrap
  BY <1>3 DEF Indexed, Counts
<1>5. c <= f /\ f <= a /\ Top(a) = a + 1 /\ Top(a + 1)' = a + 1 /\ a + 1 - c <= Num
  BY <1>1, <1>2, <1>3 DEF Counts, First, Top
<1>6. First(u, l)' = f
  BY <1>1, <1>2 DEF First
<1>7. \A d : Cells(d)' = Cells(d)
  BY <1>2 DEF Cells
<1>8. ASSUME Laid(f, a, e) PROVE Laid(f, a + 1, e)'
  <2>1. avail' = [avail EXCEPT ![a % Num] = e[a]] /\ a % Num \in Desc
    BY <1>2, <1>4, Turn
  <2>2. ASSUME NEW k \in f .. a PROVE avail'[k % Num] = e[k]
    <3>1. CASE k = a
      BY <2>1, <3>1 DEF TypeOK
    <3>2. CASE k # a
      <4>1. k \in f .. a - 1 /\ k \in Nat
        BY <3>2
      <4>2. k % Num # a % Num
        <5>1. k # a /\ k - a < Num /\ a - k < Num
          BY <1>5, <3>2, <4>1, Assumed
        <5>2. QED
          BY <4>1, <5>1, Apart
      <4>3. k % Num \in Desc /\ avail[k % Num] = e[k]
        BY <1>8, <4>1, Turn DEF Laid, Shown
      <4>4. QED
        BY <2>1, <4>2, <4>3 DEF TypeOK
    <3>3. QED
      BY <3>1, <3>2
  <2>3. Shown(f, a + 1, e)'
    <3>1. (a + 1) - 1 = a
      OBVIOUS
    <3>2. QED
      BY <2>2, <3>1 DEF Shown
  <2>4. AllClear(f, a + 1, e)'
    BY <1>2, <1>5, <1>8 DEF Laid, AllClear, Clear
  <2>5. Stored(f, a + 1, e)'
    BY <1>2, <1>5, <1>7, <1>8 DEF Laid, Stored
  <2>6. Beside(f, a + 1, e)'
    BY <1>2 DEF Beside
  <2>7. QED
    BY <2>3, <2>4, <2>5, <2>6 DEF Laid
<1>9. Pending(f, a + 1)'
  <2>1. IsFiniteSet(Active) /\ Cardinality(Active) + (a - f) <= Credit
    BY <1>1 DEF Flight, Pending
  <2>2. Active' = Active \ {w} /\ w \in Active
    <3>1. \A x \in Writers : pc'[x] # "idle" <=> pc[x] # "idle" /\ x # w
      BY <1>2 DEF TypeOK, Threads
    <3>2. QED
      BY <1>2, <3>1 DEF Active
  <2>3. IsFiniteSet(Active') /\ Cardinality(Active') = Cardinality(Active) - 1
    BY <2>1, <2>2, FS_RemoveElement
  <2>4. Cardinality(Active) \in Nat
    BY <2>1, FS_CardinalityType
  <2>5. QED
    BY <2>1, <2>3, <2>4, Assumed DEF Pending
<1>10. QED
  BY <1>1, <1>6, <1>8, <1>9 DEF Flight, Roomy

\* The receiver has read a frame.
LEMMA FlightPush ==
  ASSUME VringAssumption, RxPush,
         NEW c \in Nat, NEW u \in Nat, NEW l \in Nat, NEW a \in Nat, NEW e \in [Nat -> Desc],
         Counts(c, u, l, a), Flight(u, l, a, e)
  PROVE  Flight(u, l, a, e)'
<1>1. First(u, l) = u /\ First(u, l)' = u + 1 /\ u + 1 <= a
  BY DEF RxPush, First, Counts
<1>2. UNCHANGED <<freeLock, avail, mem, head, desc, pc>>
  BY DEF RxPush, locks, ring
<1>3. Laid(u, a, e) => Laid(u + 1, a, e)
  <2>1. \A b \in Nat : \A k \in u + 1 .. b - 1 : k \in u .. b - 1
    OBVIOUS
  <2>2. Top(a) \in Nat
    BY DEF Top
  <2>3. QED
    BY <2>1, <2>2 DEF Laid, Shown, AllClear, Stored, Beside
<1>4. Laid(u + 1, a, e) => Laid(u + 1, a, e)'
  BY <1>2, LaidQuiet
<1>5. Pending(u, a) => Pending(u + 1, a)'
  <2>1. Active' = Active
    BY <1>2 DEF Active
  <2>2. SUFFICES ASSUME Pending(u, a) PROVE Pending(u + 1, a)'
    OBVIOUS
  <2>3. Cardinality(Active) \in Nat
    BY <2>2, FS_CardinalityType DEF Pending
  <2>4. QED
    BY <2>1, <2>2, <2>3, Assumed DEF Pending
<1>6. QED
  BY <1>1, <1>3, <1>4, <1>5 DEF Flight, Roomy

\* The steps that have nothing to do with the frames under way
LEMMA FlightOthers ==
  ASSUME VringAssumption, TypeOK, NEW u \in Nat, NEW l \in Nat, NEW a \in Nat, NEW e \in [Nat -> Desc],
         Flight(u, l, a, e),
         \/ \E w \in Writers : WriteCheck(w)
         \/ Poll
         \/ \E t \in Threads : CleanBegin(t) \/ CleanEntry(t) \/ CleanEnd(t) \/ Splice(t)
         \/ UNCHANGED vars
  PROVE  Flight(u, l, a, e)'
<1> DEFINE Stays == \A w \in Writers : /\ pc'[w] = "idle" <=> pc[w] = "idle"
                                       /\ pc'[w] = "publish" <=> pc[w] = "publish"
           Same == \A d \in Desc : desc'[d].addr = desc[d].addr /\ desc'[d].len = desc[d].len
<1>1. UNCHANGED <<freeLock, avail, mem, head, rpc>>
  BY DEF WriteCheck, Poll, CleanBegin, CleanEntry, CleanEnd, Splice, vars, ring, rx, locks
<1>2. ASSUME \/ \E w \in Writers : WriteCheck(w)
             \/ Poll
             \/ UNCHANGED vars
      PROVE  Same /\ Stays
  <2>1. desc' = desc
    BY <1>2 DEF WriteCheck, Poll, vars
  <2>2. Stays
    BY <1>2, Assumed DEF WriteCheck, Poll, vars, TypeOK, Threads
  <2>3. QED
    BY <2>1, <2>2
<1>3. ASSUME NEW t \in Threads, CleanBegin(t) PROVE Same /\ Stays
  BY <1>3 DEF CleanBegin, TypeOK, Threads
<1>4. ASSUME NEW t \in Threads, CleanEntry(t) PROVE Same /\ Stays
  <2>1. Same
    BY <1>4, DoEntry
  <2>2. pc' = pc
    BY <1>4 DEF CleanEntry
  <2>3. QED
    BY <2>1, <2>2
<1>5. ASSUME NEW t \in Threads, CleanEnd(t) PROVE Same /\ Stays
  <2>1. desc' = desc
    BY <1>5 DEF CleanEnd
  <2>2. pc[t] = "cleaning"
        /\ (pc' = [pc EXCEPT ![t] = "splice"] \/ pc' = [pc EXCEPT ![t] = AfterClean(t)])
    BY <1>5 DEF CleanEnd
  <2>3. t \in Writers => AfterClean(t) = "check"
    BY Assumed DEF AfterClean
  <2>4. Stays
    BY <2>2, <2>3 DEF TypeOK, Threads
  <2>5. QED
    BY <2>1, <2>4
<1>6. ASSUME NEW t \in Threads, Splice(t) PROVE Same /\ Stays
  <2>1. Same
    BY <1>6, DoSplice
  <2>2. pc[t] = "splice" /\ pc' = [pc EXCEPT ![t] = AfterClean(t)]
    BY <1>6 DEF Splice
  <2>3. t \in Writers => AfterClean(t) = "check"
    BY Assumed DEF AfterClean
  <2>4. Stays
    BY <2>2, <2>3 DEF TypeOK, Threads
  <2>5. QED
    BY <2>1, <2>4
<1>7. Same /\ Stays
  BY <1>2, <1>3, <1>4, <1>5, <1>6
<1>8. First(u, l)' = First(u, l)
  BY <1>1 DEF First
<1>9. QED
  BY <1>1, <1>7, <1>8, FlightQuiet

\* The receiver takes the next frame, or gives back one that it has read.
LEMMA FlightReceiver ==
  ASSUME NEW u \in Nat, NEW l \in Nat, NEW a \in Nat, NEW e \in [Nat -> Desc],
         Flight(u, l, a, e), l = (IF rpc = "idle" THEN u ELSE u + 1)
  PROVE  /\ RxDesc /\ rpc' = "push" => Flight(u, l + 1, a, e)'
         /\ RxFinish => Flight(l, l, a, e)'
<1>1. ASSUME RxDesc, rpc' = "push" PROVE Flight(u, l + 1, a, e)'
  <2>1. First(u, l + 1)' = First(u, l) /\ UNCHANGED <<freeLock, avail, mem, head, desc, pc>>
    BY <1>1 DEF RxDesc, First, ring, locks
  <2>2. l + 1 \in Nat
    OBVIOUS
  <2>3. QED
    BY <2>1, <2>2, FlightQuiet
<1>2. ASSUME RxFinish PROVE Flight(l, l, a, e)'
  <2>1. First(l, l)' = First(u, l) /\ UNCHANGED <<freeLock, avail, mem, head, desc, pc>>
    BY <1>2 DEF RxFinish, First, locks
  <2>2. QED
    BY <2>1, FlightQuiet
<1>3. QED
  BY <1>1, <1>2

-----------------------------------------------------------------------------
(***************************************************************************)
(* The invariant is inductive                                              *)
(***************************************************************************)
\* At the start every descriptor is free.
LEMMA RingInit ==
  ASSUME VringAssumption, Init
  PROVE  RingInv
<1>1. TypeOK
  BY TypesInit
<1>2. LockInv
  BY Assumed DEF Init, LockInv, Threads, None, Pipe, NoBatch
<1>3. PICK c \in Nat : c = 0
  OBVIOUS
<1>4. PICK e \in [Nat -> Desc] : e = [k \in Nat |-> 0]
  <2>1. 0 \in Desc
    BY Assumed DEF Desc
  <2>2. QED
    BY <2>1
<1>5. PICK st \in [Nat -> Positions] : st = [k \in Nat |-> 0]
  <2>1. 0 \in Positions
    BY Assumed DEF Positions
  <2>2. QED
    BY <2>1
<1>6. PICK at : at = [d \in Desc |-> Free(Num - 1 - d)]
  OBVIOUS
<1>7. Top(c) = 0 /\ freeLock = None /\ cleanLock = None /\ rpc = "idle"
  BY <1>3 DEF Init, Top
<1>8. 0 % Wrap = 0
  BY Assumed
<1>9. Counts(c, c, c, c)
  BY <1>3, <1>7, <1>8, Assumed DEF Init, Counts, Unclean, First
<1>10. Limits(c, c)
  BY DEF Init, Limits
<1>11. Indexed(c, c, c, c, e)
  BY <1>3, <1>7 DEF Indexed
<1>12. Places(c, c, e, at)
  <2>1. numFree = Num /\ freeHead = 0 /\ \A t \in Threads : clean[t].num = 0
    BY DEF Init, NoBatch
  <2>2. \A d \in Desc : at[d] = Free(Num - 1 - d) /\ Num - 1 - d \in 0 .. Num - 1
    <3>1. \A d \in Desc : Num - 1 - d \in 0 .. Num - 1
      BY Assumed DEF Desc
    <3>2. QED
      BY <1>6, <3>1
  <2>3. \A d, f \in Desc : Num - 1 - d = Num - 1 - f => d = f
    BY Assumed DEF Desc
  <2>4. Located(c, c, e, at)
    <3>1. \A d, f \in Desc : at[d] = at[f] => d = f
      BY <2>2, <2>3, Kinds
    <3>2. \A k \in c .. Top(c) - 1 : at[e[k]] = Ring(k)
      BY <1>3, <1>7
    <3>3. \A d \in Desc : \E h \in 0 .. numFree - 1 : at[d] = Free(h)
      BY <2>1, <2>2
    <3>4. QED
      BY <3>1, <3>2, <3>3 DEF Located
  <2>5. FreeList(at)
    <3>1. at[freeHead] = Free(numFree - 1)
      <4>1. 0 \in Desc /\ Num - 1 - 0 = Num - 1
        BY Assumed DEF Desc
      <4>2. QED
        BY <2>1, <2>2, <4>1
    <3>2. ASSUME NEW d \in Desc, NEW h \in Nat, at[d] = Free(h + 1)
          PROVE  at[desc[d].next] = Free(h)
      <4>1. h + 1 = Num - 1 - d
        BY <2>2, <3>2, Kinds
      <4>2. d # Num - 1 /\ d + 1 \in Desc /\ Num - 1 - (d + 1) = h
        BY <4>1, Assumed DEF Desc
      <4>3. desc[d].next = d + 1
        BY <4>2 DEF Init
      <4>4. QED
        BY <2>2, <4>2, <4>3
    <3>3. QED
      BY <3>1, <3>2 DEF FreeList
  <2>6. BatchList(at)
    BY <2>1, <2>2, Kinds DEF BatchList
  <2>7. QED
    BY <2>4, <2>5, <2>6 DEF Places
<1>13. InOrder(c, c, e, st)
  BY <1>3, <1>5, <1>7 DEF Init, InOrder
<1>14. Flight(c, c, c, e)
  <2>1. First(c, c) = 0
    BY <1>3 DEF First
  <2>2. Active = {}
    BY DEF Init, Active, Threads
  <2>3. IsFiniteSet(Active) /\ Cardinality(Active) = 0
    BY <2>2, FS_EmptySet
  <2>4. Pending(0, c)
    BY <1>3, <2>3, Assumed DEF Pending
  <2>5. Laid(0, c, e)
    BY <1>3, <1>7 DEF Laid, Shown, AllClear, Stored, Beside
  <2>6. QED
    BY <2>1, <2>4, <2>5 DEF Flight
<1>15. Whole(c, c, c, c, e, at, st)
  BY <1>9, <1>10, <1>11, <1>12, <1>13, <1>14 DEF Whole, Places
<1>16. QED
  BY <1>1, <1>2, <1>15 DEF RingInv

\* Every step of the instance keeps the invariant of the rings, with its counts moved on.
LEMMA RingStep ==
  ASSUME VringAssumption, RingInv, [Next]_vars
  PROVE  RingInv'
<1>1. TypeOK /\ LockInv /\ TypeOK' /\ LockInv'
  BY TypesStep, LocksStep DEF RingInv
<1>2. PICK c \in Nat, u \in Nat, l \in Nat, a \in Nat, e \in [Nat -> Desc], st \in [Nat -> Positions] :
         \E at : Whole(c, u, l, a, e, at, st)
  BY DEF RingInv
<1>3. PICK at : Whole(c, u, l, a, e, at, st)
  BY <1>2
<1>4. /\ Counts(c, u, l, a) /\ Limits(c, u) /\ Indexed(c, u, l, a, e)
      /\ Places(c, a, e, at) /\ InOrder(c, a, e, st) /\ Flight(u, l, a, e)
  BY <1>3 DEF Whole, Places
<1>5. c <= u /\ u <= l /\ l <= a /\ (Top(a) = a \/ Top(a) = a + 1)
  BY <1>4 DEF Counts, Top
<1>6. SUFFICES \E c2, u2, l2, a2 \in Nat, e2 \in [Nat -> Desc], st2 \in [Nat -> Positions] : \E at2 :
                  /\ Counts(c2, u2, l2, a2)' /\ Limits(c2, u2)' /\ Indexed(c2, u2, l2, a2, e2)'
                  /\ Places(c2, a2, e2, at2)' /\ InOrder(c2, a2, e2, st2)'
                  /\ Flight(u2, l2, a2, e2)'
  <2>1. PICK c2 \in Nat, u2 \in Nat, l2 \in Nat, a2 \in Nat, e2 \in [Nat -> Desc], st2 \in [Nat -> Positions] :
           \E at2 : /\ Counts(c2, u2, l2, a2)' /\ Limits(c2, u2)' /\ Indexed(c2, u2, l2, a2, e2)'
                    /\ Places(c2, a2, e2, at2)' /\ InOrder(c2, a2, e2, st2)'
                    /\ Flight(u2, l2, a2, e2)'
    BY <1>6
  <2>2. \E at2 : Whole(c2, u2, l2, a2, e2, at2, st2)'
    BY <2>1 DEF Whole, Places
  <2>3. QED
    BY <1>1, <2>2 DEF RingInv
<1>7. ASSUME UNCHANGED <<lastUsed, cleanLock, freeLock, usedIdx, lastAvail, availIdx, rpc, rdesc, sent,
                         got, used, avail, desc, clean, free, head, tail>>,
             \A s \in Threads : pc'[s] = "cleaning" => pc[s] = "cleaning",
             \A s \in Threads : frame'[s].d = frame[s].d
      PROVE  /\ Counts(c, u, l, a)' /\ Limits(c, u)' /\ Indexed(c, u, l, a, e)'
             /\ Places(c, a, e, at)' /\ InOrder(c, a, e, st)'
  <2>1. Top(a)' = Top(a) /\ freeHead' = freeHead /\ numFree' = numFree
    BY <1>7 DEF Top, free
  <2>2. Counts(c, u, l, a)' /\ Limits(c, u)' /\ Indexed(c, u, l, a, e)'
    BY <1>1, <1>4, <1>7, CountsQuiet
  <2>3. Places(c, a, e, at)'
    BY <1>1, <1>4, <1>7, <2>1, PlacesQuiet
  <2>4. InOrder(c, a, e, st)'
    BY <1>1, <1>4, <1>7, <2>1, OrderQuiet
  <2>5. QED
    BY <2>2, <2>3, <2>4
<1>8. ASSUME NEW w \in Writers, Write(w)
      PROVE  /\ Counts(c, u, l, a)' /\ Limits(c, u)' /\ Indexed(c, u, l, a, e)'
             /\ Places(c, a, e, at)' /\ InOrder(c, a, e, st)' /\ Flight(u, l, a, e)'
  <2>1. UNCHANGED <<lastUsed, cleanLock, freeLock, usedIdx, lastAvail, availIdx, rpc, rdesc, sent,
                    got, used, avail, desc, clean, free, head, tail>>
    BY <1>8 DEF Write, ring, rx, locks
  <2>2. \A s \in Threads : pc'[s] = "cleaning" => pc[s] = "cleaning"
    BY <1>1, <1>8 DEF Write, TypeOK
  <2>3. \A s \in Threads : frame'[s].d = frame[s].d
    <3>1. PICK n \in 1 .. MaxLen : frame' = [frame EXCEPT ![w].len = n]
      BY <1>8 DEF Write
    <3>2. frame \in [Threads -> [len : 1 .. MaxLen, d : Desc]]
      BY <1>1 DEF TypeOK
    <3>3. PICK f \in [Threads -> [len : 1 .. MaxLen, d : Desc]] : f = frame
      BY <3>2
    <3>4. PICK g : g = [f EXCEPT ![w].len = n]
      OBVIOUS
    <3>5. \A s \in Threads : g[s].d = f[s].d
      BY <3>4
    <3>6. QED
      BY <3>1, <3>3, <3>4, <3>5
  <2>4. Flight(u, l, a, e)'
    BY <1>1, <1>4, <1>8, FlightWrite
  <2>5. QED
    BY <1>7, <2>1, <2>2, <2>3, <2>4
<1>9. ASSUME \/ \E w \in Writers : WriteCheck(w) \/ TxCopy(w)
             \/ Poll
             \/ UNCHANGED vars
      PROVE  /\ Counts(c, u, l, a)' /\ Limits(c, u)' /\ Indexed(c, u, l, a, e)'
             /\ Places(c, a, e, at)' /\ InOrder(c, a, e, st)' /\ Flight(u, l, a, e)'
  <2>1. UNCHANGED <<lastUsed, cleanLock, freeLock, usedIdx, lastAvail, availIdx, rpc, rdesc, sent,
                    got, used, avail, desc, clean, free, head, tail, frame>>
    BY <1>9 DEF WriteCheck, TxCopy, Poll, vars, ring, rx, locks
  <2>2. \A s \in Threads : pc'[s] = "cleaning" => pc[s] = "cleaning"
    BY <1>1, <1>9 DEF WriteCheck, TxCopy, Poll, vars, TypeOK
  <2>3. Flight(u, l, a, e)'
    <3>1. CASE \E w \in Writers : TxCopy(w)
      BY <1>1, <1>4, <3>1, FlightCopy
    <3>2. CASE ~\E w \in Writers : TxCopy(w)
      BY <1>1, <1>4, <1>9, <3>2, FlightOthers
    <3>3. QED
      BY <3>1, <3>2
  <2>4. QED
    BY <1>7, <2>1, <2>2, <2>3
<1>10. ASSUME NEW w \in Writers, TxTake(w)
       PROVE  \E e2 \in [Nat -> Desc], st2 \in [Nat -> Positions] : \E at2 :
                  /\ Counts(c, u, l, a)' /\ Limits(c, u)' /\ Indexed(c, u, l, a, e2)'
                  /\ Places(c, a, e2, at2)' /\ InOrder(c, a, e2, st2)' /\ Flight(u, l, a, e2)'
  <2>1. CASE numFree < 1
    <3>1. UNCHANGED <<lastUsed, cleanLock, freeLock, usedIdx, lastAvail, availIdx, rpc, rdesc, sent,
                      got, used, avail, desc, clean, free, head, tail, frame, pc>>
      BY <1>10, <2>1 DEF TxTake, ring, rx, free
    <3>2. /\ Counts(c, u, l, a)' /\ Limits(c, u)' /\ Indexed(c, u, l, a, e)'
          /\ Places(c, a, e, at)' /\ InOrder(c, a, e, st)'
      BY <1>7, <3>1
    <3>3. UNCHANGED <<mem, desc>> /\ First(u, l)' = First(u, l)
      BY <1>10, <2>1, <3>1 DEF TxTake, First
    <3>4. Flight(u, l, a, e)'
      BY <1>4, <3>1, <3>3, FlightQuiet
    <3>5. QED
      BY <3>2, <3>4
  <2>2. CASE ~(numFree < 1)
    <3>1. numFree >= 1
      BY <1>1, <2>2 DEF TypeOK
    <3>2. PICK f \in [Nat -> Desc] : f = [e EXCEPT ![a] = freeHead]
      <4>1. freeHead \in Desc
        BY <1>1 DEF TypeOK
      <4>2. QED
        BY <4>1
    <3>3. PICK st2 \in [Nat -> Positions] : st2 = [st EXCEPT ![a + 1] = head']
      <4>1. head' \in Positions
        BY <1>1 DEF TypeOK
      <4>2. QED
        BY <4>1
    <3>4. PICK at2 : at2 = [d \in Desc |-> IF d = freeHead THEN Ring(a) ELSE at[d]]
      OBVIOUS
    <3>5. c <= a
      BY <1>5
    <3>6. Places(c, a, f, at2)' /\ a + 1 - c <= Num
      BY <1>1, <1>4, <1>10, <3>1, <3>2, <3>4, <3>5, PlacesTake
    <3>7. Counts(c, u, l, a)' /\ Limits(c, u)' /\ Indexed(c, u, l, a, f)'
      BY <1>1, <1>4, <1>10, <3>1, <3>2, <3>6, CountsTake
    <3>8. InOrder(c, a, f, st2)'
      BY <1>1, <1>4, <1>10, <3>1, <3>2, <3>3, <3>5, OrderTake
    <3>9. Flight(u, l, a, f)'
      BY <1>1, <1>4, <1>10, <3>1, <3>2, <3>6, FlightTake
    <3>10. QED
      BY <3>6, <3>7, <3>8, <3>9
  <2>3. QED
    BY <2>1, <2>2
<1>11. ASSUME NEW w \in Writers, TxPublish(w)
       PROVE  /\ Counts(c, u, l, a + 1)' /\ Limits(c, u)' /\ Indexed(c, u, l, a + 1, e)'
              /\ Places(c, a + 1, e, at)' /\ InOrder(c, a + 1, e, st)' /\ Flight(u, l, a + 1, e)'
  <2>1. /\ Counts(c, u, l, a + 1)' /\ Limits(c, u)' /\ Indexed(c, u, l, a + 1, e)'
        /\ Top(a + 1)' = a + 1 /\ Top(a) = a + 1
    BY <1>1, <1>4, <1>11, CountsPublish
  <2>2. UNCHANGED <<desc, numFree, freeHead, head, tail, clean>>
    BY <1>11 DEF TxPublish, free
  <2>3. a + 1 \in Nat
    OBVIOUS
  <2>4. Places(c, a + 1, e, at)'
    BY <1>1, <1>4, <2>1, <2>2, <2>3, PlacesQuiet
  <2>5. InOrder(c, a + 1, e, st)'
    BY <1>1, <1>4, <2>1, <2>2, <2>3, OrderQuiet
  <2>6. Flight(u, l, a + 1, e)'
    BY <1>1, <1>4, <1>11, FlightPublish
  <2>7. QED
    BY <2>1, <2>4, <2>5, <2>6
<1>12. ASSUME NEW t \in Threads, CleanBegin(t)
       PROVE  /\ Counts(c, u, l, a)' /\ Limits(c, u)' /\ Indexed(c, u, l, a, e)'
              /\ Places(c, a, e, at)' /\ InOrder(c, a, e, st)' /\ Flight(u, l, a, e)'
  <2>1. /\ UNCHANGED <<desc, numFree, freeHead, head, tail, freeLock, used, avail, rpc, rdesc, frame>>
        /\ pc[t] = "clean"
    BY <1>12 DEF CleanBegin, free, ring, rx
  <2>2. Counts(c, u, l, a)' /\ Limits(c, u)'
    BY <1>1, <1>4, <1>12, CountsBegin
  <2>3. Indexed(c, u, l, a, e)'
    BY <1>4, <2>1 DEF Indexed
  <2>4. clean'[t].num = 0 /\ \A s \in Threads : s # t => clean'[s] = clean[s]
    BY <1>1, <1>12, DoBegin
  <2>5. clean[t].num = 0
    BY <1>1, <2>1 DEF LockInv, TypeOK
  <2>6. Top(a)' = Top(a)
    BY <2>1 DEF Top
  <2>7. Places(c, a, e, at)'
    <3>1. \A s \in Threads : clean'[s].num = clean[s].num
      BY <2>4, <2>5
    <3>2. \A s \in Threads : clean[s].num > 0 =>
             clean'[s].top = clean[s].top /\ clean'[s].first = clean[s].first
      BY <2>4, <2>5
    <3>3. /\ \A d \in Desc : desc'[d].next = desc[d].next
          /\ numFree' = numFree /\ freeHead' = freeHead
      BY <2>1
    <3>4. TypeOK /\ Places(c, a, e, at)
      BY <1>1, <1>4
    <3>5. QED
      BY <2>6, <3>1, <3>2, <3>3, <3>4, PlacesQuiet
  <2>8. InOrder(c, a, e, st)'
    BY <1>1, <1>4, <2>1, <2>6, OrderQuiet
  <2>9. Flight(u, l, a, e)'
    BY <1>1, <1>4, <1>12, FlightOthers
  <2>10. QED
    BY <2>2, <2>3, <2>7, <2>8, <2>9
<1>13. ASSUME NEW t \in Threads, CleanEntry(t)
       PROVE  \E at2 :
              /\ Counts(c + 1, u, l, a)' /\ Limits(c + 1, u)' /\ Indexed(c + 1, u, l, a, e)'
              /\ Places(c + 1, a, e, at2)' /\ InOrder(c + 1, a, e, st)' /\ Flight(u, l, a, e)'
  <2>1. /\ Counts(c + 1, u, l, a)' /\ Limits(c + 1, u)' /\ Indexed(c + 1, u, l, a, e)'
        /\ c < u /\ UsedDesc(t) = e[c]
    BY <1>1, <1>4, <1>13, CountsEntry
  <2>2. c < Top(a)
    BY <1>5, <2>1
  <2>3. PICK at2 : at2 = [d \in Desc |-> IF d = e[c] THEN Batch(t, clean[t].num) ELSE at[d]]
    OBVIOUS
  <2>4. Places(c + 1, a, e, at2)'
    BY <1>1, <1>4, <1>13, <2>1, <2>2, <2>3, PlacesEntry
  <2>5. InOrder(c + 1, a, e, st)'
    BY <1>1, <1>4, <1>13, <2>1, <2>2, OrderEntry
  <2>6. Flight(u, l, a, e)'
    BY <1>1, <1>4, <1>13, FlightOthers
  <2>7. QED
    BY <2>1, <2>4, <2>5, <2>6
<1>14. ASSUME NEW t \in Threads, CleanEnd(t)
       PROVE  /\ Counts(c, u, l, a)' /\ Limits(c, u)' /\ Indexed(c, u, l, a, e)'
              /\ Places(c, a, e, at)' /\ InOrder(c, a, e, st)' /\ Flight(u, l, a, e)'
  <2>1. UNCHANGED <<desc, numFree, freeHead, head, tail, freeLock, used, avail, rpc, rdesc, frame>>
    BY <1>14 DEF CleanEnd, free, ring, rx
  <2>2. Counts(c, u, l, a)' /\ Limits(c, u)'
    BY <1>1, <1>4, <1>14, CountsEnd
  <2>3. Indexed(c, u, l, a, e)'
    BY <1>4, <2>1 DEF Indexed
  <2>4. /\ clean'[t].num = clean[t].num
        /\ clean[t].num > 0 => clean'[t].top = clean[t].top /\ clean'[t].first = clean[t].first
        /\ \A s \in Threads : s # t => clean'[s] = clean[s]
    BY <1>1, <1>14, DoEnd
  <2>5. Top(a)' = Top(a)
    BY <2>1 DEF Top
  <2>6. Places(c, a, e, at)'
    BY <1>1, <1>4, <2>1, <2>4, <2>5, PlacesQuiet
  <2>7. InOrder(c, a, e, st)'
    BY <1>1, <1>4, <2>1, <2>5, OrderQuiet
  <2>8. Flight(u, l, a, e)'
    BY <1>1, <1>4, <1>14, FlightOthers
  <2>9. QED
    BY <2>2, <2>3, <2>6, <2>7, <2>8
<1>15. ASSUME NEW t \in Threads, Splice(t)
       PROVE  \E at2 :
              /\ Counts(c, u, l, a)' /\ Limits(c, u)' /\ Indexed(c, u, l, a, e)'
              /\ Places(c, a, e, at2)' /\ InOrder(c, a, e, st)' /\ Flight(u, l, a, e)'
  <2>1. /\ UNCHANGED <<lastUsed, cleanLock, freeLock, usedIdx, lastAvail, availIdx, rpc, rdesc, sent,
                       got, used, avail, head, tail, frame>>
        /\ pc' = [pc EXCEPT ![t] = AfterClean(t)] /\ pc[t] = "splice"
    BY <1>15 DEF Splice, ring, rx, locks
  <2>2. /\ \A s \in Threads : s # t => clean'[s] = clean[s]
        /\ \A d \in Desc : desc'[d].addr = desc[d].addr /\ desc'[d].len = desc[d].len
    BY <1>1, <1>15, DoSplice
  <2>3. \A s \in Threads : pc'[s] = "cleaning" => pc[s] = "cleaning"
    BY <1>1, <2>1 DEF TypeOK, AfterClean
  <2>4. \A s \in Threads : pc[s] = "cleaning" => clean'[s] = clean[s]
    BY <2>1, <2>2
  <2>5. Counts(c, u, l, a)' /\ Limits(c, u)' /\ Indexed(c, u, l, a, e)'
    BY <1>1, <1>4, <2>1, <2>3, <2>4, CountsQuiet
  <2>6. PICK at2 : at2 = [d \in Desc |-> IF \E h \in Nat : at[d] = Batch(t, h)
                                         THEN Free(numFree + at[d][3]) ELSE at[d]]
    OBVIOUS
  <2>7. Places(c, a, e, at2)'
    BY <1>1, <1>4, <1>15, <2>6, PlacesSplice
  <2>8. Top(a)' = Top(a)
    BY <2>1 DEF Top
  <2>9. InOrder(c, a, e, st)'
    BY <1>1, <1>4, <2>1, <2>2, <2>8, OrderQuiet
  <2>10. Flight(u, l, a, e)'
    BY <1>1, <1>4, <1>15, FlightOthers
  <2>11. QED
    BY <2>5, <2>7, <2>9, <2>10
<1>16. CASE RxDesc
  <2>1. l < a => DescOk(e[l])
    <3>1. l < a => l \in c .. Top(a) - 1
      BY <1>5
    <3>2. QED
      BY <1>1, <1>4, <3>1, OrderBounds
  <2>2. Counts(c, u, l + 1, a)' /\ Limits(c, u)' /\ Indexed(c, u, l + 1, a, e)'
    BY <1>1, <1>4, <1>16, <2>1, CountsDesc
  <2>3. UNCHANGED <<desc, numFree, freeHead, head, tail, clean, freeLock>>
    BY <1>16 DEF RxDesc, free, locks
  <2>4. Top(a)' = Top(a)
    BY <2>3 DEF Top
  <2>5. Places(c, a, e, at)'
    BY <1>1, <1>4, <2>3, <2>4, PlacesQuiet
  <2>6. InOrder(c, a, e, st)'
    BY <1>1, <1>4, <2>3, <2>4, OrderQuiet
  <2>7. l + 1 \in Nat
    OBVIOUS
  <2>8. Flight(u, l + 1, a, e)'
    <3>1. l = (IF rpc = "idle" THEN u ELSE u + 1)
      BY <1>4 DEF Counts
    <3>2. rpc' = "push"
      <4>1. rpc = "idle" /\ rdesc' = avail[lastAvail % Num] /\ availIdx # lastAvail
            /\ rpc' = IF DescOk(rdesc') THEN "push" ELSE "idle"
        BY <1>16 DEF RxDesc
      <4>2. l < a /\ avail[l % Num] = e[l] /\ lastAvail % Num = l % Num
        <5>1. lastAvail = l % Wrap /\ availIdx = a % Wrap /\ l <= a
          BY <1>4 DEF Counts
        <5>2. l # a
          BY <4>1, <5>1
        <5>3. l < a
          BY <5>1, <5>2
        <5>4. avail[l % Num] = e[l]
          BY <1>4, <5>3 DEF Indexed
        <5>5. QED
          BY <5>1, <5>3, <5>4, Turn
      <4>3. QED
        BY <2>1, <4>1, <4>2
    <3>3. QED
      BY <1>4, <1>16, <3>1, <3>2, FlightReceiver
  <2>9. QED
    BY <2>2, <2>5, <2>6, <2>7, <2>8
<1>17. CASE RxPush
  <2>1. Counts(c, u, l, a)' /\ Limits(c, u)' /\ Indexed(c, u, l, a, e)'
    BY <1>1, <1>4, <1>17, CountsPush
  <2>2. UNCHANGED <<desc, numFree, freeHead, head, tail, clean, freeLock>>
    BY <1>17 DEF RxPush, free, locks
  <2>3. Top(a)' = Top(a)
    BY <2>2 DEF Top
  <2>4. Places(c, a, e, at)'
    BY <1>1, <1>4, <2>2, <2>3, PlacesQuiet
  <2>5. InOrder(c, a, e, st)'
    BY <1>1, <1>4, <2>2, <2>3, OrderQuiet
  <2>6. Flight(u, l, a, e)'
    BY <1>4, <1>17, FlightPush
  <2>7. QED
    BY <2>1, <2>4, <2>5, <2>6
<1>18. CASE RxFinish
  <2>1. Counts(c, l, l, a)' /\ Limits(c, l)' /\ Indexed(c, l, l, a, e)'
    BY <1>1, <1>4, <1>18, CountsFinish
  <2>2. UNCHANGED <<desc, numFree, freeHead, head, tail, clean, freeLock>>
    BY <1>18 DEF RxFinish, free, locks
  <2>3. Top(a)' = Top(a)
    BY <2>2 DEF Top
  <2>4. Places(c, a, e, at)'
    BY <1>1, <1>4, <2>2, <2>3, PlacesQuiet
  <2>5. InOrder(c, a, e, st)'
    BY <1>1, <1>4, <2>2, <2>3, OrderQuiet
  <2>6. Flight(l, l, a, e)'
    <3>1. l = (IF rpc = "idle" THEN u ELSE u + 1)
      BY <1>4 DEF Counts
    <3>2. QED
      BY <1>4, <1>18, <3>1, FlightReceiver
  <2>7. QED
    BY <2>1, <2>4, <2>5, <2>6
<1>19. a + 1 \in Nat /\ c + 1 \in Nat
  OBVIOUS
<1>20. CASE \/ \E w \in Writers : Write(w) \/ WriteCheck(w) \/ TxCopy(w)
            \/ Poll
            \/ UNCHANGED vars
  BY <1>8, <1>9, <1>20
<1>21. CASE \E w \in Writers : TxTake(w)
  BY <1>10, <1>21
<1>22. CASE \E w \in Writers : TxPublish(w)
  BY <1>11, <1>19, <1>22
<1>23. CASE \E t \in Threads : CleanBegin(t) \/ CleanEnd(t)
  BY <1>12, <1>14, <1>23
<1>24. CASE \E t \in Threads : CleanEntry(t)
  BY <1>13, <1>19, <1>24
<1>25. CASE \E t \in Threads : Splice(t)
  BY <1>15, <1>25
<1>26. QED
  BY <1>16, <1>17, <1>18, <1>20, <1>21, <1>22, <1>23, <1>24, <1>25 DEF Next

-----------------------------------------------------------------------------
(***************************************************************************)
(* Where a descriptor is                                                   *)
(***************************************************************************)
\* The entry that is cleaned next passes the checks.
LEMMA RingCleans ==
  ASSUME VringAssumption, RingInv
  PROVE  CleanGoesThrough
<1>1. SUFFICES ASSUME NEW t \in Threads, pc[t] = "cleaning", clean[t].last # clean[t].limit
               PROVE  UsedOk(t)
  BY DEF CleanGoesThrough
<1>2. PICK c \in Nat, u \in Nat, l \in Nat, a \in Nat, e \in [Nat -> Desc], st \in [Nat -> Positions] :
         \E at : Whole(c, u, l, a, e, at, st)
  BY DEF RingInv
<1>3. /\ Counts(c, u, l, a) /\ Limits(c, u) /\ Indexed(c, u, l, a, e)
      /\ InOrder(c, a, e, st) /\ TypeOK /\ LockInv
  BY <1>2 DEF Whole, RingInv
<1>4. c < u /\ UsedDesc(t) = e[c]
  <2>1. cleanLock = t /\ t # None
    BY <1>1, <1>3, Assumed DEF LockInv, Threads, Pipe, None
  <2>2. clean[t].last = c % Wrap
    BY <1>3, <2>1 DEF Counts, Unclean
  <2>3. PICK m \in c .. u : clean[t].limit = m % Wrap
    BY <1>1, <1>3 DEF Limits
  <2>4. c < u
    BY <1>1, <2>2, <2>3
  <2>5. used[c % Num] = e[c]
    BY <1>3, <2>4 DEF Indexed
  <2>6. clean[t].last % Num = c % Num
    BY <2>2, Turn
  <2>7. QED
    BY <2>4, <2>5, <2>6 DEF UsedDesc
<1>5. c < Top(a)
  BY <1>3, <1>4 DEF Counts, Top
<1>6. QED
  BY <1>3, <1>4, <1>5, OrderPasses

\* Between the counts x and y, the indices of the entries are those of Between.
LEMMA BetweenCounts ==
  ASSUME VringAssumption, NEW x \in Nat, NEW y \in Nat, x <= y, y - x < Wrap
  PROVE  Between(x % Wrap, y % Wrap) = {k % Wrap : k \in x .. y - 1}
<1>1. ((y % Wrap) - (x % Wrap)) % Wrap = y - x
  BY Distance
<1>2. Wrap \in Nat \ {0} /\ x \in Int
  BY Assumed
<1>3. ASSUME NEW k \in x .. y - 1
      PROVE  k % Wrap \in Between(x % Wrap, y % Wrap)
  <2>1. k \in Nat /\ x <= k /\ k - x < Wrap
    BY <1>2
  <2>2. ((k % Wrap) - (x % Wrap)) % Wrap = k - x /\ k % Wrap \in Index
    BY <2>1, Distance, Turn
  <2>3. k - x < y - x
    OBVIOUS
  <2>4. QED
    BY <1>1, <2>2, <2>3 DEF Between
<1>4. ASSUME NEW i \in Between(x % Wrap, y % Wrap)
      PROVE  \E k \in x .. y - 1 : i = k % Wrap
  <2>1. i \in Index /\ (i - (x % Wrap)) % Wrap < y - x
    BY <1>1 DEF Between
  <2>2. PICK W \in Nat \ {0} : W = Wrap
    BY <1>2
  <2>3. PICK q \in Int : x = W * q + (x % W) /\ x % W \in 0 .. W - 1
    BY <1>2, <2>2, Remainder
  <2>4. PICK r \in 0 .. W - 1 : r = x % W
    BY <2>3
  <2>5. i \in 0 .. W - 1
    BY <2>1, <2>2 DEF Index
  <2>6. i - r \in Int
    BY <2>4, <2>5
  <2>7. PICK p \in Int : i - r = W * p + ((i - r) % W) /\ (i - r) % W \in 0 .. W - 1
    BY <2>6, Remainder
  <2>8. PICK s \in 0 .. W - 1 : s = (i - r) % W
    BY <2>7
  <2>9. x + s = i + W * (q - p)
    <3>1. x = W * q + r /\ i - r = W * p + s
      BY <2>3, <2>4, <2>7, <2>8
    <3>2. W * q \in Int /\ W * p \in Int /\ W * (q - p) = W * q - W * p
      OBVIOUS
    <3>3. QED
      BY <3>1, <3>2, <2>5
  <2>10. (x + s) % W = i
    <3>1. W * (q - p) + i = x + s
      <4>1. W * (q - p) \in Int
        OBVIOUS
      <4>2. QED
        BY <2>9, <2>5, <4>1
    <3>2. q - p \in Int
      OBVIOUS
    <3>3. QED
      BY <2>5, <3>1, <3>2, RemainderUnique
  <2>11. s < y - x
    BY <2>1, <2>2, <2>4, <2>8
  <2>12. x + s \in x .. y - 1
    BY <2>11
  <2>13. QED
    BY <2>2, <2>10, <2>12
<1>5. QED
  BY <1>3, <1>4 DEF Between

\* The function that Chain names exists: were there a least length without one,
\* the function for one descriptor less could be extended.
Below(d) == desc[d].next
Links(f, d, n) == f = [i \in 0 .. n |-> IF i = 0 THEN d ELSE Below(f[i - 1])]

\* A chain of any length can be followed from any descriptor.
LEMMA LinksExist ==
  ASSUME NEW d, NEW n \in Nat
  PROVE  \E f : Links(f, d, n)
<1> DEFINE T == {m \in Nat : ~\E f : Links(f, d, m)}
<1>1. SUFFICES ASSUME T # {} PROVE FALSE
  OBVIOUS
<1>2. PICK m \in T : \A k \in T : m <= k
  BY <1>1, Least
<1>3. m # 0
  <2>1. Links([i \in 0 .. 0 |-> d], d, 0)
    BY DEF Links
  <2>2. QED
    BY <2>1
<1>4. m \in Nat /\ m - 1 \in Nat
  BY <1>2, <1>3
<1>5. m - 1 \notin T
  BY <1>2, <1>4
<1>6. PICK f : Links(f, d, m - 1)
  BY <1>4, <1>5
<1> DEFINE h == [i \in 0 .. m |-> IF i < m THEN f[i] ELSE Below(f[m - 1])]
<1>7. ASSUME NEW i \in 0 .. m PROVE h[i] = IF i = 0 THEN d ELSE Below(h[i - 1])
  BY <1>3, <1>4, <1>6 DEF Links
<1>8. Links(h, d, m)
  BY <1>7 DEF Links
<1>9. QED
  BY <1>4, <1>8

\* Chain goes from a descriptor to its next one, link by link.
LEMMA ChainLinks ==
  ASSUME VringAssumption, NEW d
  PROVE  /\ Chain(d)[0] = d
         /\ \A i \in 1 .. Num : Chain(d)[i] = desc[Chain(d)[i - 1]].next
<1> DEFINE f == CHOOSE f : Links(f, d, Num)
<1>1. Links(f, d, Num)
  BY LinksExist, Assumed
<1>2. Chain(d) = f
  BY DEF Chain, Links, Below
<1> HIDE DEF f
<1>3. QED
  BY <1>1, <1>2, Assumed DEF Links, Below

\* A list of n descriptors that is linked from the top down holds, i descriptors
\* below its top, the one at height n - 1 - i; and n is at most Num.
LEMMA ChainGoesDown ==
  ASSUME VringAssumption, TypeOK, NEW d \in Desc, NEW n \in Nat, NEW at, NEW p, n > 0 => at[d] = p[n - 1],
         \A f \in Desc, h \in Nat : at[f] = p[h + 1] => at[desc[f].next] = p[h],
         \A h, k \in Nat : p[h] = p[k] => h = k
  PROVE  /\ n <= Num
         /\ \A i \in 0 .. n - 1 : Chain(d)[i] \in Desc /\ at[Chain(d)[i]] = p[n - 1 - i]
<1>0. Num \in Nat \ {0}
  BY Assumed
<1> DEFINE Good(i) == Chain(d)[i] \in Desc /\ at[Chain(d)[i]] = p[n - 1 - i]
           T == {i \in 0 .. Num : i < n /\ ~Good(i)}
<1>1. T = {}
  <2>1. SUFFICES ASSUME T # {} PROVE FALSE
    OBVIOUS
  <2>2. PICK m \in T : \A k \in T : m <= k
    <3>1. T \in SUBSET Nat
      OBVIOUS
    <3>2. QED
      BY <2>1, <3>1, Least
  <2>3. m # 0
    <3>1. ASSUME n > 0 PROVE Good(0)
      BY <3>1, ChainLinks
    <3>2. QED
      BY <2>2, <3>1
  <2>4. m \in 1 .. Num /\ m < n /\ m - 1 \in 0 .. Num /\ m - 1 \notin T /\ m - 1 < n
    BY <1>0, <2>2, <2>3
  <2>5. Good(m - 1)
    BY <2>4
  <2>6. Chain(d)[m] = desc[Chain(d)[m - 1]].next
    BY <2>4, ChainLinks
  <2>7. Chain(d)[m] \in Desc
    BY <2>5, <2>6 DEF TypeOK
  <2>8. n - 1 - m \in Nat /\ n - 1 - (m - 1) = (n - 1 - m) + 1
    BY <2>4
  <2>9. PICK f \in Desc, h \in Nat : f = Chain(d)[m - 1] /\ h = n - 1 - m
    BY <2>5, <2>8
  <2>10. at[f] = p[h + 1]
    BY <2>5, <2>8, <2>9
  <2>11. at[desc[f].next] = p[h]
    BY <2>10
  <2>12. Good(m)
    BY <2>6, <2>7, <2>9, <2>11
  <2>13. QED
    BY <2>2, <2>12
<1> HIDE DEF Good
<1>2. \A i \in 0 .. Num : i < n => Good(i)
  BY <1>1
<1>3. n <= Num
  <2>1. SUFFICES ASSUME n > Num PROVE FALSE
    BY <1>0
  <2>2. \A i \in 0 .. Num : Good(i)
    BY <1>0, <1>2, <2>1
  <2> DEFINE e == [k \in Nat |-> IF k <= Num THEN Chain(d)[k] ELSE d]
  <2>3. e \in [Nat -> Desc]
    <3>1. ASSUME NEW k \in Nat PROVE e[k] \in Desc
      BY <1>0, <2>2 DEF Good
    <3>2. QED
      BY <3>1
  <2>4. ASSUME NEW k \in 0 .. (Num + 1) - 1, NEW j \in 0 .. (Num + 1) - 1, e[k] = e[j]
        PROVE  k = j
    <3>1. k \in 0 .. Num /\ j \in 0 .. Num /\ e[k] = Chain(d)[k] /\ e[j] = Chain(d)[j]
      BY <1>0
    <3>2. p[n - 1 - k] = p[n - 1 - j]
      BY <2>2, <2>4, <3>1 DEF Good
    <3>3. n - 1 - k \in Nat /\ n - 1 - j \in Nat
      BY <1>0, <2>1, <3>1
    <3>4. n - 1 - k = n - 1 - j
      BY <3>2, <3>3
    <3>5. QED
      BY <1>0, <3>1, <3>4
  <2> HIDE DEF e
  <2>5. Num + 1 \in Nat /\ 0 \in Nat
    BY <1>0
  <2>6. (Num + 1) - 0 <= Num
    BY <2>3, <2>4, <2>5, Fits
  <2>7. QED
    BY <1>0, <2>6
<1>4. QED
  BY <1>0, <1>2, <1>3 DEF Good

\* The indices of the entries in S
Indices(S) == {k % Wrap : k \in S}

\* What Holders collects of descriptor d
FreeOf(d) == {i \in 0 .. numFree - 1 : Chain(freeHead)[i] = d}
BatchOf(t, d) == {i \in 0 .. clean[t].num - 1 : Chain(clean[t].top)[i] = d}
FillOf(d) == {w \in Writers : pc[w] \in {"copy", "publish"} /\ frame[w].d = d}
AvailOf(d) == {k \in Between(lastAvail, availIdx) : avail[k % Num] = d}
ReceiverOf(d) == {k \in {0} : rpc # "idle" /\ rdesc = d}
UsedOf(d) == {k \in Between(Unclean, usedIdx) : used[k % Num] = d}

\* The same, from the counts and the places of the invariant
FreeAt(at, d) == {i \in 0 .. numFree - 1 : at[d] = Free(numFree - 1 - i)}
BatchAt(at, t, d) == {i \in 0 .. clean[t].num - 1 : at[d] = Batch(t, clean[t].num - 1 - i)}
FillAt(a, e, d) == {w \in Writers : freeLock = w /\ e[a] = d}
EntryAt(x, y, e, d) == {k \in x .. y - 1 : e[k] = d}
ReceiverAt(u, l, e, d) == {k \in {0} : u < l /\ e[u] = d}

\* Holders in terms of them
LEMMA HoldersAre ==
  ASSUME NEW d, NEW x
  PROVE  x \in Holders(d) <=>
            \/ \E i \in FreeOf(d) : x = <<"free", i>>
            \/ \E t \in Threads : \E i \in BatchOf(t, d) : x = <<t, i>>
            \/ \E i \in FillOf(d) : x = <<"fill", i>>
            \/ \E i \in AvailOf(d) : x = <<"avail", i>>
            \/ \E i \in ReceiverOf(d) : x = <<"receiver", 0>>
            \/ \E i \in UsedOf(d) : x = <<"used", i>>
BY DEF Holders, FreeOf, BatchOf, FillOf, AvailOf, ReceiverOf, UsedOf

\* The descriptors of the free list and of the batches are where their chains
\* say.
LEMMA FreePlaces ==
  ASSUME VringAssumption, TypeOK, NEW c \in Nat, NEW a \in Nat, NEW e \in [Nat -> Desc], NEW at,
         Located(c, a, e, at), FreeList(at), NEW d \in Desc
  PROVE  FreeOf(d) = FreeAt(at, d)
<1>0. PICK p : p = [h \in Nat |-> Free(h)]
  OBVIOUS
<1>1. freeHead \in Desc /\ numFree \in Nat
  BY DEF TypeOK
<1>2. numFree > 0 => at[freeHead] = p[numFree - 1]
  BY <1>0, <1>1 DEF FreeList
<1>a. \A f \in Desc, h \in Nat : at[f] = p[h + 1] => at[desc[f].next] = p[h]
  BY <1>0 DEF FreeList
<1>b. \A h, k \in Nat : p[h] = p[k] => h = k
  BY <1>0, Kinds
<1>3. \A i \in 0 .. numFree - 1 :
         Chain(freeHead)[i] \in Desc /\ at[Chain(freeHead)[i]] = p[numFree - 1 - i]
  BY <1>1, <1>2, <1>a, <1>b, ChainGoesDown
<1>4. ASSUME NEW i \in 0 .. numFree - 1
      PROVE  Chain(freeHead)[i] = d <=> at[d] = Free(numFree - 1 - i)
  <2>1. p[numFree - 1 - i] = Free(numFree - 1 - i)
    BY <1>0, <1>1
  <2>2. \A f \in Desc : at[f] = at[d] => f = d
    BY DEF Located
  <2>3. QED
    BY <1>3, <2>1, <2>2
<1>5. QED
  BY <1>4 DEF FreeOf, FreeAt

\* The descriptors reached from the top of a thread's batch are those whose place is the batch.
LEMMA BatchPlaces ==
  ASSUME VringAssumption, TypeOK, NEW c \in Nat, NEW a \in Nat, NEW e \in [Nat -> Desc], NEW at,
         Located(c, a, e, at), BatchList(at), NEW d \in Desc, NEW t \in Threads
  PROVE  BatchOf(t, d) = BatchAt(at, t, d)
<1>0. PICK p : p = [h \in Nat |-> Batch(t, h)]
  OBVIOUS
<1>1. PICK f0 \in Desc, n \in Nat : f0 = clean[t].top /\ n = clean[t].num
  BY DEF TypeOK
<1>2. n > 0 => at[f0] = p[n - 1]
  BY <1>0, <1>1 DEF BatchList
<1>a. \A f \in Desc, h \in Nat : at[f] = p[h + 1] => at[desc[f].next] = p[h]
  BY <1>0 DEF BatchList
<1>b. \A h, k \in Nat : p[h] = p[k] => h = k
  BY <1>0, Kinds
<1>3. \A i \in 0 .. n - 1 : Chain(f0)[i] \in Desc /\ at[Chain(f0)[i]] = p[n - 1 - i]
  BY <1>2, <1>a, <1>b, ChainGoesDown
<1>4. ASSUME NEW i \in 0 .. n - 1
      PROVE  Chain(f0)[i] = d <=> at[d] = Batch(t, n - 1 - i)
  <2>1. p[n - 1 - i] = Batch(t, n - 1 - i)
    BY <1>0, <1>1
  <2>2. \A f \in Desc : at[f] = at[d] => f = d
    BY DEF Located
  <2>3. QED
    BY <1>3, <2>1, <2>2
<1>5. {i \in 0 .. n - 1 : Chain(f0)[i] = d} = {i \in 0 .. n - 1 : at[d] = Batch(t, n - 1 - i)}
  BY <1>4
<1>6. QED
  BY <1>1, <1>5 DEF BatchOf, BatchAt

\* The descriptors of the entries are where the rings, the writer and the
\* receiver have them.
LEMMA EntryPlaces ==
  ASSUME VringAssumption, TypeOK, LockInv,
         NEW c \in Nat, NEW u \in Nat, NEW l \in Nat, NEW a \in Nat, NEW e \in [Nat -> Desc],
         Counts(c, u, l, a), Indexed(c, u, l, a, e), NEW d \in Desc
  PROVE  /\ UsedOf(d) = Indices(EntryAt(c, u, e, d)) /\ AvailOf(d) = Indices(EntryAt(l, a, e, d))
         /\ ReceiverOf(d) = ReceiverAt(u, l, e, d) /\ FillOf(d) = FillAt(a, e, d)
<1>1. /\ c <= u /\ u <= l /\ l <= a /\ a - c < Wrap
      /\ Unclean = c % Wrap /\ usedIdx = u % Wrap /\ lastAvail = l % Wrap /\ availIdx = a % Wrap
      /\ l = (IF rpc = "idle" THEN u ELSE u + 1)
  BY Assumed DEF Counts, Top
<1>2. /\ Between(Unclean, usedIdx) = {k % Wrap : k \in c .. u - 1}
      /\ Between(lastAvail, availIdx) = {k % Wrap : k \in l .. a - 1}
  <2>1. u - c < Wrap /\ a - l < Wrap
    BY <1>1, Assumed
  <2>2. QED
    BY <1>1, <2>1, BetweenCounts
<1>3. ASSUME NEW k \in c .. u - 1
      PROVE  used[(k % Wrap) % Num] = e[k]
  BY <1>3, Turn DEF Indexed
<1>4. ASSUME NEW k \in l .. a - 1
      PROVE  avail[(k % Wrap) % Num] = e[k]
  BY <1>4, Turn DEF Indexed
<1>5. {k \in {0} : rpc # "idle" /\ rdesc = d} = {k \in {0} : u < l /\ e[u] = d}
  BY <1>1 DEF Indexed
<1>6. {w \in Writers : pc[w] \in {"copy", "publish"} /\ frame[w].d = d}
        = {w \in Writers : freeLock = w /\ e[a] = d}
  <2>1. ASSUME NEW w \in Writers
        PROVE  (pc[w] \in {"copy", "publish"} /\ frame[w].d = d) <=> (freeLock = w /\ e[a] = d)
    <3>1. pc[w] \in {"copy", "publish"} <=> freeLock = w
      BY DEF LockInv, Threads
    <3>2. w # None
      BY Assumed
    <3>3. freeLock = w => frame[w].d = e[a]
      BY <3>2 DEF Indexed
    <3>4. QED
      BY <3>1, <3>3
  <2>2. QED
    BY <2>1
<1>7. {k \in Between(Unclean, usedIdx) : used[k % Num] = d}
        = {k % Wrap : k \in {k \in c .. u - 1 : e[k] = d}}
  BY <1>2, <1>3
<1>8. {k \in Between(lastAvail, availIdx) : avail[k % Num] = d}
        = {k % Wrap : k \in {k \in l .. a - 1 : e[k] = d}}
  BY <1>2, <1>4
<1>9. QED
  BY <1>5, <1>6, <1>7, <1>8
     DEF UsedOf, AvailOf, ReceiverOf, FillOf, Indices, EntryAt, ReceiverAt, FillAt

\* Six disjoint kinds of places, one of them holds d.
LEMMA RingHolds ==
  ASSUME VringAssumption, RingInv
  PROVE  \A d \in Desc : Cardinality(Holders(d)) = 1
<1>1. PICK c \in Nat, u \in Nat, l \in Nat, a \in Nat, e \in [Nat -> Desc], st \in [Nat -> Positions] :
         \E at : Whole(c, u, l, a, e, at, st)
  BY DEF RingInv
<1>2. PICK at : Whole(c, u, l, a, e, at, st)
  BY <1>1
<1>3. TypeOK /\ LockInv
  BY DEF RingInv
<1>4. Counts(c, u, l, a) /\ Indexed(c, u, l, a, e) /\ Located(c, a, e, at)
      /\ FreeList(at) /\ BatchList(at)
  BY <1>2 DEF Whole
<1>5. SUFFICES ASSUME NEW d \in Desc
               PROVE  \E x : Holders(d) = {x}
  BY FS_Singleton
<1> DEFINE At(x) == \/ \E i \in FreeAt(at, d) : x = <<"free", i>>
                    \/ \E t \in Threads : \E i \in BatchAt(at, t, d) : x = <<t, i>>
                    \/ \E i \in FillAt(a, e, d) : x = <<"fill", i>>
                    \/ \E i \in EntryAt(l, a, e, d) : x = <<"avail", i % Wrap>>
                    \/ \E i \in ReceiverAt(u, l, e, d) : x = <<"receiver", 0>>
                    \/ \E i \in EntryAt(c, u, e, d) : x = <<"used", i % Wrap>>
<1>a. \A x : x \in Holders(d) <=> At(x)
  <2> TAKE x
  <2>1. FreeOf(d) = FreeAt(at, d)
    BY <1>3, <1>4, FreePlaces
  <2>2. \A t \in Threads : BatchOf(t, d) = BatchAt(at, t, d)
    BY <1>3, <1>4, BatchPlaces
  <2>3. /\ UsedOf(d) = Indices(EntryAt(c, u, e, d)) /\ AvailOf(d) = Indices(EntryAt(l, a, e, d))
        /\ ReceiverOf(d) = ReceiverAt(u, l, e, d) /\ FillOf(d) = FillAt(a, e, d)
    BY <1>3, <1>4, EntryPlaces
  <2>4. (\E i \in AvailOf(d) : x = <<"avail", i>>)
           <=> \E i \in EntryAt(l, a, e, d) : x = <<"avail", i % Wrap>>
    BY <2>3 DEF Indices
  <2>5. (\E i \in UsedOf(d) : x = <<"used", i>>)
           <=> \E i \in EntryAt(c, u, e, d) : x = <<"used", i % Wrap>>
    BY <2>3 DEF Indices
  <2>6. QED
    BY <2>1, <2>2, <2>3, <2>4, <2>5, HoldersAre
<1>b. ASSUME NEW y, \A x : At(x) <=> x = y
      PROVE  \E x : Holders(d) = {x}
  <2> HIDE DEF At
  <2>1. \A x : x \in Holders(d) <=> x = y
    BY <1>a, <1>b
  <2>2. Holders(d) = {y}
    BY <2>1
  <2>3. QED
    BY <2>2
<1>7. /\ c <= u /\ u <= l /\ l <= a /\ l <= u + 1 /\ (Top(a) = a \/ Top(a) = a + 1)
      /\ Top(a) = a <=> freeLock = None
  BY <1>4 DEF Counts, Top
<1>8. \A k \in c .. Top(a) - 1 : e[k] = d <=> at[d] = Ring(k)
  <2>1. \A k \in c .. Top(a) - 1 : at[e[k]] = Ring(k) /\ e[k] \in Desc
    BY <1>4 DEF Located
  <2>2. \A f \in Desc : at[f] = at[d] => f = d
    BY <1>4 DEF Located
  <2>3. QED
    BY <2>1, <2>2
<1>9. /\ freeLock \in Writers \cup {None} /\ numFree \in Nat /\ None \notin Writers
      /\ \A t \in Threads : clean[t].num \in Nat
  BY <1>3, Assumed DEF TypeOK
<1>10. CASE \E k \in c .. Top(a) - 1 : at[d] = Ring(k)
  <2>1. PICK k \in c .. Top(a) - 1 : at[d] = Ring(k)
    BY <1>10
  <2>2. FreeAt(at, d) = {} /\ \A t \in Threads : BatchAt(at, t, d) = {}
    BY <2>1, Kinds DEF FreeAt, BatchAt
  <2>3. \A j \in c .. Top(a) - 1 : e[j] = d <=> j = k
    BY <1>8, <2>1, Kinds
  <2>4. k \in Int /\ c <= k /\ k <= Top(a) - 1
    BY <1>7
  <2>5. CASE k < u
    <3>1. /\ FillAt(a, e, d) = {} /\ EntryAt(l, a, e, d) = {}
          /\ ReceiverAt(u, l, e, d) = {} /\ EntryAt(c, u, e, d) = {k}
      BY <1>7, <1>9, <2>3, <2>4, <2>5 DEF FillAt, EntryAt, ReceiverAt
    <3>2. \A x : At(x) <=> x = <<"used", k % Wrap>>
      BY <2>2, <3>1
    <3>3. QED
      BY <1>b, <3>2
  <2>6. CASE u <= k /\ k < l
    <3>1. /\ FillAt(a, e, d) = {} /\ EntryAt(l, a, e, d) = {}
          /\ ReceiverAt(u, l, e, d) = {0} /\ EntryAt(c, u, e, d) = {}
      BY <1>7, <1>9, <2>3, <2>4, <2>6 DEF FillAt, EntryAt, ReceiverAt
    <3>2. \A x : At(x) <=> x = <<"receiver", 0>>
      BY <2>2, <3>1
    <3>3. QED
      BY <1>b, <3>2
  <2>7. CASE l <= k /\ k < a
    <3>1. /\ FillAt(a, e, d) = {} /\ EntryAt(l, a, e, d) = {k}
          /\ ReceiverAt(u, l, e, d) = {} /\ EntryAt(c, u, e, d) = {}
      BY <1>7, <1>9, <2>3, <2>4, <2>7 DEF FillAt, EntryAt, ReceiverAt
    <3>2. \A x : At(x) <=> x = <<"avail", k % Wrap>>
      BY <2>2, <3>1
    <3>3. QED
      BY <1>b, <3>2
  <2>8. CASE a <= k
    <3>1. /\ FillAt(a, e, d) = {freeLock} /\ EntryAt(l, a, e, d) = {}
          /\ ReceiverAt(u, l, e, d) = {} /\ EntryAt(c, u, e, d) = {}
      BY <1>7, <1>9, <2>3, <2>4, <2>8 DEF FillAt, EntryAt, ReceiverAt
    <3>2. \A x : At(x) <=> x = <<"fill", freeLock>>
      BY <2>2, <3>1
    <3>3. QED
      BY <1>b, <3>2
  <2>9. QED
    <3>1. u \in Int /\ l \in Int /\ a \in Int
      OBVIOUS
    <3>2. k < u \/ (u <= k /\ k < l) \/ (l <= k /\ k < a) \/ a <= k
      BY <2>4, <3>1
    <3>3. QED
      BY <3>2, <2>5, <2>6, <2>7, <2>8
<1>11. CASE \E h \in 0 .. numFree - 1 : at[d] = Free(h)
  <2>1. PICK h \in 0 .. numFree - 1 : at[d] = Free(h)
    BY <1>11
  <2>2. \A t \in Threads : BatchAt(at, t, d) = {}
    BY <2>1, Kinds DEF BatchAt
  <2>3. \A k \in c .. Top(a) - 1 : e[k] # d
    BY <1>8, <2>1, Kinds
  <2>4. /\ FillAt(a, e, d) = {} /\ EntryAt(l, a, e, d) = {}
        /\ ReceiverAt(u, l, e, d) = {} /\ EntryAt(c, u, e, d) = {}
    BY <1>7, <1>9, <2>3 DEF FillAt, EntryAt, ReceiverAt
  <2>5. FreeAt(at, d) = {numFree - 1 - h}
    BY <1>9, <2>1, Kinds DEF FreeAt
  <2>6. \A x : At(x) <=> x = <<"free", numFree - 1 - h>>
    BY <2>2, <2>4, <2>5
  <2>7. QED
    BY <1>b, <2>6
<1>12. CASE \E t \in Threads : \E h \in 0 .. clean[t].num - 1 : at[d] = Batch(t, h)
  <2>1. PICK t \in Threads, h \in Nat : h \in 0 .. clean[t].num - 1 /\ at[d] = Batch(t, h)
    BY <1>9, <1>12
  <2>2. FreeAt(at, d) = {} /\ \A s \in Threads : s # t => BatchAt(at, s, d) = {}
    BY <2>1, Kinds DEF FreeAt, BatchAt
  <2>3. \A k \in c .. Top(a) - 1 : e[k] # d
    BY <1>8, <2>1, Kinds
  <2>4. /\ FillAt(a, e, d) = {} /\ EntryAt(l, a, e, d) = {}
        /\ ReceiverAt(u, l, e, d) = {} /\ EntryAt(c, u, e, d) = {}
    BY <1>7, <1>9, <2>3 DEF FillAt, EntryAt, ReceiverAt
  <2>5. BatchAt(at, t, d) = {clean[t].num - 1 - h}
    BY <1>9, <2>1, Kinds DEF BatchAt
  <2>6. \A x : At(x) <=> x = <<t, clean[t].num - 1 - h>>
    BY <2>2, <2>4, <2>5
  <2>7. QED
    BY <1>b, <2>6
<1>13. QED
  BY <1>4, <1>10, <1>11, <1>12 DEF Located

-----------------------------------------------------------------------------
(***************************************************************************)
(* The channel                                                             *)
(***************************************************************************)
\* n frames, numbered on from g
Numbers(g, n) == [i \in 1 .. n |-> (g + i - 1) % Wrap]

\* The frames that are queued and not read
Unread == (sent - got) % Wrap

\* A sequence of numbers that follow each other
LEMMA NumbersAre ==
  ASSUME VringAssumption, NEW g \in Index, NEW n \in Nat
  PROVE  /\ Len(Numbers(g, n)) = n
         /\ Append(Numbers(g, n), (g + n) % Wrap) = Numbers(g, n + 1)
         /\ n > 0 => /\ Numbers(g, n) # <<>> /\ Head(Numbers(g, n)) = g
                     /\ Tail(Numbers(g, n)) = Numbers((g + 1) % Wrap, n - 1)
<1>1. ASSUME NEW i \in Nat, NEW h \in Index PROVE (h + i - 1) % Wrap \in Index
  <2>1. Wrap \in Nat \ {0} /\ h + i - 1 \in Int
    BY Assumed DEF Index
  <2>2. (h + i - 1) % Wrap \in 0 .. Wrap - 1
    BY <2>1, Remainder
  <2>3. QED
    BY <2>2 DEF Index
<1>2. PICK s : s = Numbers(g, n)
  OBVIOUS
<1>3. s \in Seq(Index) /\ Len(s) = n /\ \A i \in 1 .. n : s[i] = (g + i - 1) % Wrap
  BY <1>1, <1>2 DEF Numbers
<1>4. PICK v \in Index : v = (g + n) % Wrap
  <2>1. (g + (n + 1) - 1) % Wrap \in Index /\ g + (n + 1) - 1 = g + n
    BY <1>1, Assumed DEF Index
  <2>2. QED
    BY <2>1
<1>5. Append(s, v) = Numbers(g, n + 1)
  <2>1. PICK r : r = Numbers(g, n + 1)
    OBVIOUS
  <2>2. r \in Seq(Index) /\ Len(r) = n + 1 /\ \A i \in 1 .. n + 1 : r[i] = (g + i - 1) % Wrap
    BY <1>1, <2>1 DEF Numbers
  <2>3. \A i \in 1 .. n : r[i] = s[i]
    BY <1>3, <2>2
  <2>4. r[n + 1] = v
    <3>1. n + 1 \in 1 .. n + 1 /\ g + (n + 1) - 1 = g + n
      BY Assumed DEF Index
    <3>2. QED
      BY <1>4, <2>2, <3>1
  <2>5. Append(s, v) = r
    BY <1>3, <2>2, <2>3, <2>4
  <2>6. QED
    BY <2>1, <2>5
<1>6. ASSUME n > 0
      PROVE  s # <<>> /\ Head(s) = g /\ Tail(s) = Numbers((g + 1) % Wrap, n - 1)
  <2>1. PICK h \in Index : h = (g + 1) % Wrap
    <3>1. (g + 2 - 1) % Wrap \in Index /\ g + 2 - 1 = g + 1
      BY <1>1, Assumed DEF Index
    <3>2. QED
      BY <3>1
  <2>2. n - 1 \in Nat
    BY <1>6
  <2>3. PICK r : r = Numbers(h, n - 1)
    OBVIOUS
  <2>4. r \in Seq(Index) /\ Len(r) = n - 1 /\ \A i \in 1 .. n - 1 : r[i] = (h + i - 1) % Wrap
    BY <1>1, <2>2, <2>3 DEF Numbers
  <2>5. Tail(s) \in Seq(Index) /\ Len(Tail(s)) = n - 1 /\ s # <<>> /\ Head(s) = s[1]
        /\ \A i \in 1 .. n - 1 : Tail(s)[i] = s[i + 1]
    BY <1>3, <1>6
  <2>6. s[1] = g
    <3>1. 1 \in 1 .. n /\ g + 1 - 1 = g
      BY <1>6, Assumed DEF Index
    <3>2. g % Wrap = g
      BY Assumed DEF Index
    <3>3. QED
      BY <1>3, <3>1, <3>2
  <2>7. ASSUME NEW i \in 1 .. n - 1 PROVE Tail(s)[i] = r[i]
    <3>1. i + 1 \in 1 .. n /\ g + (i + 1) - 1 = (g + 1) + (i - 1) /\ h + i - 1 = h + (i - 1)
      BY Assumed DEF Index
    <3>2. (((g + 1) % Wrap) + (i - 1)) % Wrap = ((g + 1) + (i - 1)) % Wrap
      <4>1. Wrap \in Nat \ {0} /\ g + 1 \in Int /\ i - 1 \in Int
        BY Assumed DEF Index
      <4>2. QED
        BY <4>1, RemainderPlus
    <3>3. QED
      BY <1>3, <2>1, <2>4, <2>5, <3>1, <3>2
  <2>8. Tail(s) = r
    BY <2>2, <2>4, <2>5, <2>7
  <2>9. QED
    BY <2>1, <2>3, <2>5, <2>6, <2>8
<1>7. QED
  BY <1>2, <1>3, <1>4, <1>5, <1>6

\* What the rings hold: the frames from got on, whole and in order.
InFlightOK == InFlight = Numbers(got, Unread)

\* What lies in the data ring, not yet read, is the frames from got on, by number.
LEMMA InFlightIs ==
  ASSUME VringAssumption
  PROVE  RingInv /\ Roomy => InFlightOK
<1> SUFFICES ASSUME RingInv, Roomy PROVE InFlightOK
  OBVIOUS
<1>1. PICK c \in Nat, u \in Nat, l \in Nat, a \in Nat, e \in [Nat -> Desc], st \in [Nat -> Positions] :
         \E at : Whole(c, u, l, a, e, at, st)
  BY DEF RingInv
<1>2. /\ TypeOK /\ Counts(c, u, l, a) /\ InOrder(c, a, e, st) /\ Flight(u, l, a, e)
  BY <1>1 DEF RingInv, Whole
<1>3. PICK f \in Nat : f = First(u, l)
  BY DEF First
<1>4. c <= f /\ f <= a /\ a - f < Wrap /\ Top(a) \in {a, a + 1}
  BY <1>2, <1>3, Assumed DEF Counts, First, Top
<1>5. Laid(f, a, e)
  BY <1>2, <1>3 DEF Flight
<1>6. PICK first \in Index : first = IF rpc = "push" THEN (lastAvail - 1) % Wrap ELSE lastAvail
  <2>1. lastAvail \in Index /\ lastAvail - 1 \in Int
    BY <1>2, Assumed DEF TypeOK, Index
  <2>2. (lastAvail - 1) % Wrap \in 0 .. Wrap - 1
    BY <2>1, Assumed, Remainder
  <2>3. QED
    BY <2>1, <2>2 DEF Index
<1>7. first = f % Wrap
  <2>1. CASE rpc = "push"
    <3>1. l = u + 1 /\ f = u /\ lastAvail = l % Wrap
      BY <1>2, <1>3, <2>1 DEF Counts, First
    <3>2. ((l % Wrap) + (-1)) % Wrap = (l + (-1)) % Wrap
      <4>1. Wrap \in Nat \ {0} /\ l \in Int /\ -1 \in Int
        BY Assumed
      <4>2. QED
        BY <4>1, RemainderPlus
    <3>3. (l % Wrap) + (-1) = lastAvail - 1 /\ l + (-1) = f
      BY <1>2, <3>1, Assumed DEF TypeOK, Index
    <3>4. QED
      BY <1>6, <2>1, <3>2, <3>3
  <2>2. CASE rpc # "push"
    BY <1>2, <1>3, <1>6, <2>2 DEF Counts, First
  <2>3. QED
    BY <2>1, <2>2
<1>8. (availIdx - first) % Wrap = a - f /\ Unread = a - f
  <2>1. availIdx = a % Wrap /\ sent = a % Wrap /\ got = f % Wrap
    BY <1>2, <1>3 DEF Counts
  <2>2. QED
    BY <1>4, <1>7, <2>1, Distance DEF Unread
<1>9. ASSUME NEW i \in 1 .. a - f
      PROVE  Content(avail[(first + i - 1) % Num]) = (got + i - 1) % Wrap
  <2>1. PICK k \in f .. a - 1 : k = f + i - 1
    OBVIOUS
  <2>2. k \in Nat /\ k \in c .. Top(a) - 1 /\ k \in f .. Top(a) - 1 /\ k < a /\ e[k] \in Desc
    BY <1>4, <2>1
  <2>3. (first + i - 1) % Wrap = k % Wrap
    <3>1. ((f % Wrap) + (i - 1)) % Wrap = (f + (i - 1)) % Wrap
      <4>1. Wrap \in Nat \ {0} /\ f \in Int /\ i - 1 \in Int
        BY Assumed
      <4>2. QED
        BY <4>1, RemainderPlus
    <3>2. first + (i - 1) = first + i - 1 /\ f + (i - 1) = k
      BY <2>1, Assumed DEF Index
    <3>3. QED
      BY <1>7, <3>1, <3>2
  <2>4. (first + i - 1) % Num = k % Num
    <3>1. Wrap \in Nat \ {0} /\ Num \in Nat \ {0} /\ Wrap % Num = 0
          /\ first + i - 1 \in Int /\ k \in Int
      BY <2>2, Assumed DEF Index
    <3>2. ((first + i - 1) % Wrap) % Num = (first + i - 1) % Num /\ (k % Wrap) % Num = k % Num
      BY <3>1, RemainderNested
    <3>3. QED
      BY <2>3, <3>2
  <2>5. avail[k % Num] = e[k]
    BY <1>5, <2>1 DEF Laid, Shown
  <2>6. \A x \in Cells(e[k]) : mem[x] = k % Wrap
    BY <1>5, <2>2 DEF Laid, Stored
  <2>7. desc[e[k]].addr \in Cells(e[k])
    <3>1. desc[e[k]].len \in 1 .. MaxLen /\ desc[e[k]].addr \in Nat
      BY <1>2, <2>2, OrderBounds
    <3>2. QED
      BY <3>1, Assumed DEF Cells
  <2>8. Content(e[k]) = k % Wrap
    BY <2>6, <2>7 DEF Content
  <2>9. got = first
    BY <1>2, <1>3, <1>7 DEF Counts
  <2>10. QED
    BY <2>3, <2>4, <2>5, <2>8, <2>9
<1>10. InFlight = [i \in 1 .. a - f |-> Content(avail[(first + i - 1) % Num])]
  BY <1>6, <1>8 DEF InFlight
<1>11. QED
  BY <1>8, <1>9, <1>10 DEF InFlightOK, Numbers

\* A frame is queued, or delivered, or neither.
LEMMA UnreadStep ==
  ASSUME VringAssumption, RingInv, [Next]_vars
  PROVE  /\ got \in Index /\ Unread \in Nat /\ sent = (got + Unread) % Wrap
         /\ \/ Unread < Num /\ sent' = (sent + 1) % Wrap /\ got' = got /\ Unread' = Unread + 1
            \/ Unread > 0 /\ got' = (got + 1) % Wrap /\ sent' = sent /\ Unread' = Unread - 1
            \/ UNCHANGED <<sent, got>>
<1>1. PICK c \in Nat, u \in Nat, l \in Nat, a \in Nat, e \in [Nat -> Desc], st \in [Nat -> Positions] :
         \E at : Whole(c, u, l, a, e, at, st)
  BY DEF RingInv
<1>2. TypeOK /\ LockInv /\ Counts(c, u, l, a)
  BY <1>1 DEF RingInv, Whole
<1>3. PICK f \in Nat : f = First(u, l)
  BY DEF First
<1>4. c <= f /\ f <= a /\ Top(a) - c <= Num /\ sent = a % Wrap /\ got = f % Wrap /\ Top(a) \in {a, a + 1}
  BY <1>2, <1>3 DEF Counts, First, Top
<1>5. Unread = a - f
  <2>1. a - f < Wrap
    BY <1>4, Assumed
  <2>2. QED
    BY <1>4, <2>1, Distance DEF Unread
<1>6. got \in Index /\ Unread \in Nat
  BY <1>2, <1>4, <1>5 DEF TypeOK
<1>7. sent = (got + Unread) % Wrap
  <2>1. ((f % Wrap) + (a - f)) % Wrap = (f + (a - f)) % Wrap
    <3>1. Wrap \in Nat \ {0} /\ f \in Int /\ a - f \in Int
      BY Assumed
    <3>2. QED
      BY <3>1, RemainderPlus
  <2>2. f + (a - f) = a
    OBVIOUS
  <2>3. QED
    BY <1>4, <1>5, <2>1, <2>2
<1>8. ASSUME NEW w \in Writers, TxPublish(w)
      PROVE  Unread < Num /\ sent' = (sent + 1) % Wrap /\ got' = got /\ Unread' = Unread + 1
  <2>1. pc[w] = "publish" /\ sent' = Inc(sent) /\ got' = got
    BY <1>8 DEF TxPublish, rx
  <2>2. Top(a) = a + 1
    BY <1>2, <2>1, Assumed DEF LockInv, Threads, Top
  <2>3. Unread < Num /\ a + 1 - f < Wrap /\ f <= a + 1 /\ a + 1 \in Nat
    BY <1>4, <1>5, <2>2, Assumed
  <2>4. sent' = (a + 1) % Wrap
    BY <1>4, <2>1, Turn
  <2>5. (((a + 1) % Wrap) - (f % Wrap)) % Wrap = a + 1 - f
    BY <2>3, Distance
  <2>6. Unread' = Unread + 1
    BY <1>4, <1>5, <2>1, <2>4, <2>5 DEF Unread
  <2>7. QED
    BY <2>1, <2>3, <2>6 DEF Inc
<1>9. ASSUME RxPush
      PROVE  Unread > 0 /\ got' = (got + 1) % Wrap /\ sent' = sent /\ Unread' = Unread - 1
  <2>1. rpc = "push" /\ got' = Inc(got) /\ sent' = sent
    BY <1>9 DEF RxPush
  <2>2. f + 1 <= a
    BY <1>2, <1>3, <2>1 DEF Counts, First
  <2>3. Unread > 0 /\ a - (f + 1) < Wrap /\ f + 1 \in Nat
    BY <1>4, <1>5, <2>2, Assumed
  <2>4. got' = (f + 1) % Wrap
    BY <1>4, <2>1, Turn
  <2>5. ((a % Wrap) - ((f + 1) % Wrap)) % Wrap = a - (f + 1)
    BY <2>2, <2>3, Distance
  <2>6. Unread' = Unread - 1
    BY <1>4, <1>5, <2>1, <2>4, <2>5 DEF Unread
  <2>7. QED
    BY <2>1, <2>3, <2>6 DEF Inc
<1>10. ASSUME \/ \E w \in Writers : Write(w) \/ WriteCheck(w) \/ TxTake(w) \/ TxCopy(w)
              \/ Poll
              \/ \E t \in Threads : CleanBegin(t) \/ CleanEntry(t) \/ CleanEnd(t) \/ Splice(t)
              \/ RxDesc
              \/ RxFinish
              \/ UNCHANGED vars
       PROVE  UNCHANGED <<sent, got>>
  BY <1>10 DEF Write, WriteCheck, TxTake, TxCopy, Poll, CleanBegin, CleanEntry, CleanEnd, Splice,
               RxDesc, RxFinish, vars, rx
<1>11. QED
  BY <1>6, <1>7, <1>8, <1>9, <1>10 DEF Next

\* A step queues a frame behind those in flight, delivers the oldest one, or
\* leaves them alone.
LEMMA InFlightStep ==
  ASSUME VringAssumption, RingInv, [Next]_vars, InFlightOK, InFlightOK'
  PROVE  \/ /\ Len(InFlight) < Num /\ InFlight' = Append(InFlight, sent)
            /\ sent' = (sent + 1) % Wrap /\ got' = got
         \/ /\ InFlight # <<>> /\ Head(InFlight) = got /\ InFlight' = Tail(InFlight)
            /\ got' = (got + 1) % Wrap /\ sent' = sent
         \/ UNCHANGED <<InFlight, sent, got>>
<1>1. /\ got \in Index /\ Unread \in Nat /\ sent = (got + Unread) % Wrap
      /\ \/ Unread < Num /\ sent' = (sent + 1) % Wrap /\ got' = got /\ Unread' = Unread + 1
         \/ Unread > 0 /\ got' = (got + 1) % Wrap /\ sent' = sent /\ Unread' = Unread - 1
         \/ UNCHANGED <<sent, got>>
  BY UnreadStep
<1>2. InFlight = Numbers(got, Unread) /\ InFlight' = Numbers(got', Unread')
  BY DEF InFlightOK, Numbers
<1>3. PICK n \in Nat : n = Unread
  BY <1>1
<1>4. CASE Unread < Num /\ sent' = (sent + 1) % Wrap /\ got' = got /\ Unread' = Unread + 1
  BY <1>1, <1>2, <1>3, <1>4, NumbersAre
<1>5. CASE Unread > 0 /\ got' = (got + 1) % Wrap /\ sent' = sent /\ Unread' = Unread - 1
  BY <1>1, <1>2, <1>3, <1>5, NumbersAre
<1>6. CASE UNCHANGED <<sent, got>>
  <2>1. Unread' = Unread
    BY <1>6 DEF Unread
  <2>2. InFlight' = InFlight
    BY <1>2, <1>6, <2>1
  <2>3. QED
    BY <1>6, <2>2
<1>7. QED
  BY <1>1, <1>4, <1>5, <1>6

-----------------------------------------------------------------------------
(***************************************************************************)
(* Callers that keep one frame outstanding                                 *)
(***************************************************************************)
\* The entries that are not cleaned, and those that a thread which cleans has
\* still before it
Uncleaned == (availIdx - Unclean) % Wrap
Left(t) == (clean[t].limit - clean[t].last) % Wrap

\* The writers that have cleaned, and the descriptor that one of them fills
Cleaned(w) == pc[w] \in {"splice", "check", "frame", "copy", "publish"}
Filling(w) == IF pc[w] \in {"copy", "publish"} THEN 1 ELSE 0

\* Every descriptor is free, in an entry that is not cleaned, in the batch of the
\* pipe thread or with the one writer that there is.
Accounted ==
    /\ (\A w \in Writers : pc[w] = "idle") => numFree + Uncleaned + clean[Pipe].num = Num
    /\ \A w \in Writers :
          pc[w] # "idle" =>
             numFree + Uncleaned + clean[Pipe].num + clean[w].num + Filling(w) = Num

(***************************************************************************)
(* A writer begins when the frame before its own has been read, and cleans *)
(* all but that one: when it publishes its own two entries are not cleaned, *)
(* and the pipe thread never holds more than two descriptors back.         *)
(***************************************************************************)
CountInv ==
    /\ ~halted
    /\ Uncleaned <= 2
    /\ \A w \in Writers : Cleaned(w) => Uncleaned <= 1
    /\ \A w \in Writers : pc[w] = "cleaning" => Uncleaned - Left(w) <= 1
    /\ clean[Pipe].num <= 2
    /\ pc[Pipe] = "cleaning" => clean[Pipe].num + Left(Pipe) <= 2
    /\ Accounted

\* An index that advances towards another comes one closer to it,
LEMMA OneLess ==
  ASSUME VringAssumption, NEW i \in Index, NEW j \in Index, (j - i) % Wrap > 0
  PROVE  (j - Inc(i)) % Wrap = ((j - i) % Wrap) - 1
<1>1. PICK W \in Nat \ {0} : W = Wrap
  BY Assumed
<1>2. i \in Int /\ j \in Int /\ j - i \in Int /\ i + 1 \in Int
  BY Assumed DEF Index
<1>3. PICK q \in Int : j - i = W * q + ((j - i) % W) /\ (j - i) % W \in 0 .. W - 1
  BY <1>2, Remainder
<1>4. PICK p \in Int : i + 1 = W * p + ((i + 1) % W) /\ (i + 1) % W \in 0 .. W - 1
  BY <1>2, Remainder
<1>5. PICK n \in Int, m \in Int : n = (j - i) % W /\ m = (i + 1) % W
  BY <1>3, <1>4
<1>6. n - 1 \in 0 .. W - 1
  BY <1>1, <1>3, <1>5
<1>7. j - m = W * (q + p) + (n - 1)
  <2>1. W * (q + p) = W * q + W * p
    OBVIOUS
  <2>2. PICK x \in Int, y \in Int : x = W * q /\ y = W * p
    OBVIOUS
  <2>3. j - i = x + n /\ i + 1 = y + m
    BY <1>3, <1>4, <1>5, <2>2
  <2>4. j - m = (x + y) + (n - 1)
    BY <1>2, <2>3
  <2>5. QED
    BY <2>1, <2>2, <2>4
<1>8. (W * (q + p) + (n - 1)) % W = n - 1
  <2>1. q + p \in Int
    OBVIOUS
  <2>2. QED
    BY <1>6, <2>1, RemainderUnique
<1>9. QED
  BY <1>1, <1>5, <1>7, <1>8 DEF Inc

\* and one that it comes from is left behind by one more.
LEMMA OneMore ==
  ASSUME VringAssumption, NEW i \in Index, NEW j \in Index, (j - i) % Wrap < Wrap - 1
  PROVE  (Inc(j) - i) % Wrap = ((j - i) % Wrap) + 1
<1>1. PICK W \in Nat \ {0} : W = Wrap
  BY Assumed
<1>2. i \in Int /\ j \in Int /\ j - i \in Int /\ j + 1 \in Int
  BY Assumed DEF Index
<1>3. PICK q \in Int : j - i = W * q + ((j - i) % W) /\ (j - i) % W \in 0 .. W - 1
  BY <1>2, Remainder
<1>4. PICK p \in Int : j + 1 = W * p + ((j + 1) % W) /\ (j + 1) % W \in 0 .. W - 1
  BY <1>2, Remainder
<1>5. PICK n \in Int, m \in Int : n = (j - i) % W /\ m = (j + 1) % W
  BY <1>3, <1>4
<1>6. n + 1 \in 0 .. W - 1
  BY <1>1, <1>3, <1>5
<1>7. m - i = W * (q - p) + (n + 1)
  <2>1. W * (q - p) = W * q - W * p
    OBVIOUS
  <2>2. PICK x \in Int, y \in Int : x = W * q /\ y = W * p
    OBVIOUS
  <2>3. j - i = x + n /\ j + 1 = y + m
    BY <1>3, <1>4, <1>5, <2>2
  <2>4. m - i = (x - y) + (n + 1)
    BY <1>2, <2>3
  <2>5. QED
    BY <2>1, <2>2, <2>4
<1>8. (W * (q - p) + (n + 1)) % W = n + 1
  <2>1. q - p \in Int
    OBVIOUS
  <2>2. QED
    BY <1>6, <2>1, RemainderUnique
<1>9. QED
  BY <1>1, <1>5, <1>7, <1>8 DEF Inc

\* There is one writer at a time, and what was published before is read.
LEMMA Alone ==
  ASSUME Credit = 1, NEW f \in Nat, NEW a \in Nat, f <= a, Pending(f, a),
         NEW w \in Writers, pc[w] # "idle"
  PROVE  a = f /\ \A v \in Writers : pc[v] # "idle" => v = w
<1>1. {w} \in SUBSET Active /\ IsFiniteSet(Active)
  BY DEF Active, Pending
<1>2. Cardinality({w}) = 1 /\ Cardinality({w}) <= Cardinality(Active)
  BY <1>1, FS_Subset, FS_Singleton
<1>3. Cardinality(Active) \in Nat
  BY <1>1, FS_CardinalityType
<1>4. a = f /\ Cardinality(Active) = 1
  BY <1>2, <1>3 DEF Pending
<1>5. Active = {w}
  BY <1>1, <1>2, <1>4, FS_Subset
<1>6. QED
  BY <1>4, <1>5 DEF Active

\* What the indices say of the entries that are not cleaned
LEMMA Spans ==
  ASSUME VringAssumption, Credit = 1, RingInv
  PROVE  /\ Uncleaned \in 0 .. Num
         /\ \A t \in Threads : pc[t] = "cleaning" => Left(t) \in 0 .. Uncleaned
         /\ cleanLock = None =>
               /\ (usedIdx - lastUsed) % Wrap \in 0 .. Uncleaned
               /\ \A w \in Writers :
                     pc[w] # "idle" => Uncleaned - ((usedIdx - lastUsed) % Wrap) <= 1
         /\ \A v, w \in Writers : pc[v] # "idle" /\ pc[w] # "idle" => v = w
<1>1. PICK c \in Nat, u \in Nat, l \in Nat, a \in Nat, e \in [Nat -> Desc], st \in [Nat -> Positions] :
         \E at : Whole(c, u, l, a, e, at, st)
  BY DEF RingInv
<1>2. Counts(c, u, l, a) /\ Limits(c, u) /\ Flight(u, l, a, e) /\ TypeOK /\ LockInv
  BY <1>1 DEF Whole, RingInv
<1>3. /\ c <= u /\ u <= l /\ l <= a /\ a - c <= Num /\ l = (IF rpc = "idle" THEN u ELSE u + 1)
      /\ Unclean = c % Wrap /\ usedIdx = u % Wrap /\ availIdx = a % Wrap
  BY <1>2, Assumed DEF Counts, Top
<1>4. /\ Num \in Nat /\ Wrap \in Nat /\ Num < Wrap
      /\ First(u, l) \in Nat /\ First(u, l) <= a /\ First(u, l) - u <= 1
  BY <1>3, Assumed DEF First
<1>5. Uncleaned = a - c
  <2>1. a - c < Wrap /\ c <= a
    BY <1>3, <1>4
  <2>2. QED
    BY <1>3, <2>1, Distance DEF Uncleaned
<1>6. ASSUME NEW t \in Threads, pc[t] = "cleaning"
      PROVE  Left(t) \in 0 .. Uncleaned
  <2>1. PICK m \in c .. u : clean[t].limit = m % Wrap
    BY <1>2, <1>6 DEF Limits
  <2>2. cleanLock = t /\ t # None
    BY <1>2, <1>6, Assumed DEF LockInv, Threads, Pipe, None
  <2>3. clean[t].last = c % Wrap
    BY <1>3, <2>2 DEF Unclean
  <2>4. m \in Nat /\ c <= m /\ m - c < Wrap
    BY <1>3, <1>4, <2>1
  <2>5. Left(t) = m - c
    BY <2>1, <2>3, <2>4, Distance DEF Left
  <2>6. QED
    BY <1>3, <1>5, <2>1, <2>5
<1>7. ASSUME cleanLock = None
      PROVE  (usedIdx - lastUsed) % Wrap = u - c
  <2>1. lastUsed = c % Wrap
    BY <1>3, <1>7 DEF Unclean
  <2>2. u - c < Wrap
    BY <1>3, <1>4
  <2>3. QED
    BY <1>3, <2>1, <2>2, Distance
<1>8. \A w \in Writers : pc[w] # "idle" =>
         a = First(u, l) /\ \A v \in Writers : pc[v] # "idle" => v = w
  BY <1>2, <1>4, Alone DEF Flight
<1>9. QED
  BY <1>3, <1>4, <1>5, <1>6, <1>7, <1>8

\* A step that touches neither the indices nor a thread that cleans
LEMMA UncleanedSame ==
  ASSUME TypeOK, LockInv, UNCHANGED <<availIdx, lastUsed, cleanLock>>,
         \A t \in Threads : pc[t] = "cleaning" => clean'[t] = clean[t]
  PROVE  /\ Uncleaned' = Uncleaned
         /\ \A t \in Threads : pc[t] = "cleaning" => Left(t)' = Left(t)
<1>1. Unclean' = Unclean
  <2>1. cleanLock # None => clean'[cleanLock] = clean[cleanLock]
    BY DEF TypeOK, LockInv
  <2>2. QED
    BY <2>1 DEF Unclean
<1>2. QED
  BY <1>1 DEF Uncleaned, Left

\* An entry is cleaned: one less is left.
LEMMA UncleanedEntry ==
  ASSUME VringAssumption, Credit = 1, RingInv, NEW t \in Threads, CleanEntry(t)
  PROVE  /\ Uncleaned > 0 /\ Left(t) > 0
         /\ Uncleaned' = Uncleaned - 1 /\ Left(t)' = Left(t) - 1
<1>1. TypeOK /\ LockInv /\ pc[t] = "cleaning" /\ clean[t].last # clean[t].limit
  BY DEF RingInv, CleanEntry, Entries
<1>2. cleanLock = t /\ t # None /\ UNCHANGED <<cleanLock, availIdx>>
  BY <1>1, Assumed DEF LockInv, Threads, Pipe, None, CleanEntry, locks, ring
<1>3. clean[t].last \in Index /\ clean[t].limit \in Index /\ availIdx \in Index
  BY <1>1 DEF TypeOK
<1>4. clean'[t].last = Inc(clean[t].last) /\ clean'[t].limit = clean[t].limit
  BY <1>1, DoEntry
<1>5. Left(t) \in 0 .. Uncleaned /\ Uncleaned \in 0 .. Num
  BY <1>1, Spans
<1>6. Left(t) # 0
  <2>1. PICK W \in Nat \ {0} : W = Wrap
    BY Assumed
  <2>2. PICK x \in 0 .. W - 1, y \in 0 .. W - 1 : x = clean[t].last /\ y = clean[t].limit
    BY <1>3, <2>1 DEF Index
  <2>a. PICK d \in Int : d = y - x
    OBVIOUS
  <2>3. PICK q \in Int : d = W * q + (d % W)
    BY Remainder
  <2>4. d % W = 0 => y = x
    <3>1. W * q < W /\ -W < W * q => q = 0
      <4>1. q >= 1 => W * q >= W
        OBVIOUS
      <4>2. q <= -1 => W * q <= -W
        <5>1. PICK k \in Int : k = -q
          OBVIOUS
        <5>2. W * q = -(W * k) /\ (k >= 1 => W * k >= W)
          BY <5>1
        <5>3. QED
          BY <5>1, <5>2
      <4>3. QED
        BY <4>1, <4>2
    <3>2. d < W /\ -W < d
      BY <2>a
    <3>3. q = 0 => W * q = 0
      OBVIOUS
    <3>4. d % W = 0 => d = 0
      BY <2>3, <3>1, <3>2, <3>3
    <3>5. QED
      BY <2>a, <3>4
  <2>5. QED
    BY <1>1, <2>1, <2>2, <2>a, <2>4 DEF Left
<1>7. Left(t)' = Left(t) - 1
  BY <1>3, <1>4, <1>5, <1>6, OneLess DEF Left
<1>8. Uncleaned' = Uncleaned - 1
  <2>1. Unclean = clean[t].last /\ Unclean' = Inc(clean[t].last)
    BY <1>2, <1>4 DEF Unclean
  <2>2. Uncleaned > 0
    BY <1>5, <1>6
  <2>3. QED
    BY <1>2, <1>3, <2>1, <2>2, OneLess DEF Uncleaned
<1>9. QED
  BY <1>5, <1>6, <1>7, <1>8

\* No writer is under way when another one begins.
LEMMA AllIdle ==
  ASSUME VringAssumption, Credit = 1, RingInv, Outstanding < Credit
  PROVE  \A w \in Writers : pc[w] = "idle"
<1>1. PICK c \in Nat, u \in Nat, l \in Nat, a \in Nat, e \in [Nat -> Desc], st \in [Nat -> Positions] :
         \E at : Whole(c, u, l, a, e, at, st)
  BY DEF RingInv
<1>2. IsFiniteSet(Active)
  BY <1>1 DEF Whole, Flight, Pending
<1>3. (sent - got) % Wrap \in Nat
  <2>1. PICK W \in Nat \ {0}, d \in Int : W = Wrap /\ d = sent - got
    BY Assumed DEF RingInv, TypeOK, Index
  <2>2. d % W \in 0 .. W - 1
    BY Remainder
  <2>3. QED
    BY <2>1, <2>2
<1>4. Cardinality(Active) \in Nat
  BY <1>2, FS_CardinalityType
<1>5. Cardinality(Active) = 0
  BY <1>3, <1>4 DEF Outstanding, Active
<1>6. QED
  BY <1>2, <1>5, FS_EmptySet DEF Active

\* Every step keeps the counts.
LEMMA CountStep ==
  ASSUME VringAssumption, Credit = 1, Num >= 4, RingInv, CountInv, [Next]_vars
  PROVE  CountInv'
<1> USE DEF CountInv, Accounted, Cleaned, Filling
<1>0. /\ Pipe \notin Writers /\ None \notin Threads /\ Pipe \in Threads /\ Writers \subseteq Threads
      /\ pc \in [Threads -> {"idle", "clean", "cleaning", "splice", "check",
                             "frame", "copy", "publish"}]
      /\ \A t \in Threads : clean[t].num \in Nat
      /\ numFree \in Nat /\ Num \in Nat
      /\ TypeOK /\ LockInv
  BY Assumed DEF Threads, TypeOK, Pipe, None, RingInv
<1>a. \A t \in Threads : /\ pc[t] = "cleaning" <=> cleanLock = t
                         /\ clean[t].num > 0 => pc[t] \in {"cleaning", "splice"}
  BY <1>0 DEF LockInv
<1>b. /\ Uncleaned \in Nat
      /\ \A t \in Threads : pc[t] = "cleaning" => Left(t) \in Nat /\ Left(t) <= Uncleaned
      /\ \A v, w \in Writers : pc[v] # "idle" /\ pc[w] # "idle" => v = w
  BY <1>0, Spans
<1>1. ASSUME NEW w \in Writers, Write(w)
      PROVE  CountInv'
  <2>1. Uncleaned' = Uncleaned /\ \A t \in Threads : pc[t] = "cleaning" => Left(t)' = Left(t)
    BY <1>0, <1>1, UncleanedSame DEF Write, locks, ring
  <2>2. pc' = [pc EXCEPT ![w] = "clean"] /\ pc[w] = "idle" /\ UNCHANGED <<clean, numFree, halted>>
    BY <1>1 DEF Write, free
  <2>3. \A v \in Writers : pc[v] = "idle"
    BY <1>1, AllIdle DEF Write
  <2>4. clean[w].num = 0
    BY <1>0, <1>a, <2>2
  <2>5. QED
    BY <1>0, <1>b, <2>1, <2>2, <2>3, <2>4
<1>2. ASSUME NEW w \in Writers, WriteCheck(w)
      PROVE  CountInv'
  <2>1. Uncleaned' = Uncleaned /\ \A t \in Threads : pc[t] = "cleaning" => Left(t)' = Left(t)
    BY <1>0, <1>2, UncleanedSame DEF WriteCheck, locks, ring
  <2>2. pc' = [pc EXCEPT ![w] = "frame"] /\ pc[w] = "check" /\ UNCHANGED <<clean, numFree, halted>>
    BY <1>2 DEF WriteCheck, free
  <2>3. QED
    BY <1>0, <1>b, <2>1, <2>2
<1>3. ASSUME NEW w \in Writers, TxTake(w)
      PROVE  CountInv'
  <2>1. pc[w] = "frame" /\ clean[w].num = 0
    BY <1>0, <1>3, <1>a DEF TxTake
  <2>2. numFree >= 1
    BY <1>0, <1>b, <2>1
  <2>3. Uncleaned' = Uncleaned /\ \A t \in Threads : pc[t] = "cleaning" => Left(t)' = Left(t)
    BY <1>0, <1>3, UncleanedSame DEF TxTake, ring
  <2>4. /\ pc' = [pc EXCEPT ![w] = "copy"] /\ numFree' = numFree - 1
        /\ UNCHANGED <<clean, halted>>
    BY <1>0, <1>3, <2>2 DEF TxTake
  <2>5. QED
    BY <1>0, <1>b, <2>1, <2>2, <2>3, <2>4
<1>4. ASSUME NEW w \in Writers, TxCopy(w)
      PROVE  CountInv'
  <2>1. Uncleaned' = Uncleaned /\ \A t \in Threads : pc[t] = "cleaning" => Left(t)' = Left(t)
    BY <1>0, <1>4, UncleanedSame DEF TxCopy, locks, ring
  <2>2. pc' = [pc EXCEPT ![w] = "publish"] /\ pc[w] = "copy" /\ UNCHANGED <<clean, numFree, halted>>
    BY <1>4 DEF TxCopy, free
  <2>3. QED
    BY <1>0, <1>b, <2>1, <2>2
<1>5. ASSUME NEW w \in Writers, TxPublish(w)
      PROVE  CountInv'
  <2>1. /\ pc' = [pc EXCEPT ![w] = "idle"] /\ pc[w] = "publish" /\ availIdx' = Inc(availIdx)
        /\ UNCHANGED <<clean, numFree, halted, cleanLock, lastUsed>>
    BY <1>5 DEF TxPublish, free
  <2>2. Uncleaned <= 1 /\ clean[w].num = 0
    BY <1>0, <1>a, <2>1
  <2>3. Uncleaned' = Uncleaned + 1
    <3>1. Unclean' = Unclean /\ Unclean \in Index /\ availIdx \in Index
      BY <1>0, <2>1 DEF Unclean, TypeOK
    <3>2. Uncleaned < Wrap - 1
      BY <2>2, <1>b, Assumed
    <3>3. QED
      BY <2>1, <3>1, <3>2, OneMore DEF Uncleaned
  <2>4. \A t \in Threads : Left(t)' = Left(t)
    BY <2>1 DEF Left
  <2>5. \A v \in Writers : pc'[v] = "idle"
    BY <1>0, <1>b, <2>1
  <2>6. QED
    BY <1>0, <1>b, <2>1, <2>2, <2>3, <2>4, <2>5
<1>6. CASE Poll
  <2>1. Uncleaned' = Uncleaned /\ \A t \in Threads : pc[t] = "cleaning" => Left(t)' = Left(t)
    BY <1>0, <1>6, UncleanedSame DEF Poll, locks, ring
  <2>2. pc' = [pc EXCEPT ![Pipe] = "clean"] /\ UNCHANGED <<clean, numFree, halted>>
    BY <1>6 DEF Poll, free
  <2>3. QED
    BY <1>0, <1>b, <2>1, <2>2
<1>7. ASSUME NEW t \in Threads, CleanBegin(t)
      PROVE  CountInv'
  <2>1. /\ pc' = [pc EXCEPT ![t] = "cleaning"] /\ pc[t] = "clean"
        /\ cleanLock = None /\ cleanLock' = t /\ UNCHANGED <<availIdx, numFree, halted>>
    BY <1>7 DEF CleanBegin, ring, free
  <2>2. /\ clean'[t].limit = usedIdx /\ clean'[t].last = lastUsed /\ clean'[t].num = 0
        /\ \A s \in Threads : s # t => clean'[s] = clean[s]
    BY <1>0, <1>7, DoBegin
  <2>3. clean[t].num = 0
    BY <1>0, <1>a, <2>1
  <2>4. Uncleaned' = Uncleaned
    <3>1. t # None
      BY <1>0
    <3>2. Unclean' = Unclean
      BY <2>1, <2>2, <3>1 DEF Unclean
    <3>3. QED
      BY <2>1, <3>2 DEF Uncleaned
  <2>5. Left(t)' = (usedIdx - lastUsed) % Wrap
    BY <2>2 DEF Left
  <2>6. /\ Left(t)' \in Nat /\ Left(t)' <= Uncleaned
        /\ \A w \in Writers : pc[w] # "idle" => Uncleaned - Left(t)' <= 1
    BY <1>b, <2>1, <2>5, Spans
  <2>7. \A s \in Threads : pc[s] # "cleaning"
    BY <1>0, <1>a, <2>1
  <2>8. \A s \in Threads : clean'[s].num = clean[s].num
    BY <2>2, <2>3
  <2>9. CASE t = Pipe
    BY <1>0, <1>b, <2>1, <2>3, <2>4, <2>6, <2>7, <2>8, <2>9
  <2>10. CASE t \in Writers
    BY <1>0, <1>b, <2>1, <2>4, <2>6, <2>7, <2>8, <2>10
  <2>11. QED
    BY <2>9, <2>10 DEF Threads
<1>8. ASSUME NEW t \in Threads, CleanEntry(t)
      PROVE  CountInv'
  <2>1. /\ pc' = pc /\ pc[t] = "cleaning" /\ UNCHANGED <<numFree, halted>>
        /\ clean'[t].num = clean[t].num + 1
        /\ \A s \in Threads : s # t => clean'[s] = clean[s]
    <3>1. pc' = pc /\ pc[t] = "cleaning" /\ UNCHANGED <<numFree, halted>>
      BY <1>8 DEF CleanEntry, free
    <3>2. QED
      BY <1>0, <1>8, <3>1, DoEntry
  <2>2. /\ Uncleaned > 0 /\ Left(t) > 0
        /\ Uncleaned' = Uncleaned - 1 /\ Left(t)' = Left(t) - 1
    BY <1>8, UncleanedEntry
  <2>3. \A s \in Threads : pc[s] = "cleaning" => s = t
    BY <1>a, <2>1
  <2>4. CASE t = Pipe
    BY <1>0, <1>b, <2>1, <2>2, <2>3, <2>4
  <2>5. CASE t \in Writers
    BY <1>0, <1>b, <2>1, <2>2, <2>3, <2>5
  <2>6. QED
    BY <2>4, <2>5 DEF Threads
<1>9. ASSUME NEW t \in Threads, CleanEnd(t)
      PROVE  CountInv'
  <2>1. /\ pc' = [pc EXCEPT ![t] = IF clean[t].num > 0 THEN "splice" ELSE AfterClean(t)]
        /\ pc[t] = "cleaning" /\ cleanLock' = None /\ lastUsed' = clean[t].last
        /\ UNCHANGED <<availIdx, numFree, halted>> /\ ~Entries(t)
    BY <1>9 DEF CleanEnd, ring, free
  <2>2. clean'[t].num = clean[t].num /\ \A s \in Threads : s # t => clean'[s] = clean[s]
    BY <1>0, <1>9, DoEnd
  <2>3. AfterClean(t) \in {"idle", "check"} /\ (t = Pipe <=> AfterClean(t) = "idle")
    BY DEF AfterClean
  <2>4. clean[t].last = clean[t].limit
    BY <2>1, RingCleans DEF CleanGoesThrough, Entries
  <2>5. Left(t) = 0
    <3>1. PICK i \in Int : i = clean[t].last
      BY <1>0 DEF TypeOK, Index
    <3>2. i - i = 0 /\ 0 % Wrap = 0
      BY Assumed
    <3>3. QED
      BY <2>4, <3>1, <3>2 DEF Left
  <2>6. Uncleaned' = Uncleaned
    <3>1. cleanLock = t /\ t # None
      BY <1>0, <1>a, <2>1
    <3>2. Unclean' = Unclean
      BY <2>1, <3>1 DEF Unclean
    <3>3. QED
      BY <2>1, <3>2 DEF Uncleaned
  <2>7. \A s \in Threads : pc'[s] # "cleaning" /\ clean'[s].num = clean[s].num
    BY <1>0, <1>a, <2>1, <2>2, <2>3
  <2>8. CASE t = Pipe
    BY <1>0, <1>b, <2>1, <2>3, <2>5, <2>6, <2>7, <2>8
  <2>9. CASE t \in Writers
    BY <1>0, <1>b, <2>1, <2>3, <2>5, <2>6, <2>7, <2>9
  <2>10. QED
    BY <2>8, <2>9 DEF Threads
<1>10. ASSUME NEW t \in Threads, Splice(t)
       PROVE  CountInv'
  <2>1. /\ pc' = [pc EXCEPT ![t] = AfterClean(t)] /\ pc[t] = "splice"
        /\ numFree' = numFree + clean[t].num /\ halted' = (numFree' > Num)
        /\ UNCHANGED <<availIdx, lastUsed, cleanLock>>
    BY <1>10 DEF Splice, Freed, locks, ring
  <2>2. clean'[t].num = 0 /\ \A s \in Threads : s # t => clean'[s] = clean[s]
    BY <1>0, <1>10, DoSplice
  <2>3. AfterClean(t) \in {"idle", "check"} /\ (t = Pipe <=> AfterClean(t) = "idle")
    BY DEF AfterClean
  <2>4. Uncleaned' = Uncleaned /\ \A s \in Threads : pc[s] = "cleaning" => Left(s)' = Left(s)
    BY <1>0, <2>1, <2>2, UncleanedSame
  <2>5. CASE t = Pipe
    <3>1. \A w \in Writers : pc'[w] = pc[w] /\ clean'[w] = clean[w]
      BY <1>0, <2>1, <2>2, <2>5
    <3>2. pc'[Pipe] = "idle" /\ clean'[Pipe].num = 0 /\ numFree' = numFree + clean[Pipe].num
      BY <1>0, <2>1, <2>2, <2>3, <2>5
    <3>3. numFree' <= Num
      BY <1>0, <1>b, <3>2
    <3>4. ~halted' /\ Uncleaned' = Uncleaned /\ numFree' \in Nat
      <4>1. numFree' \in Nat /\ ~(numFree' > Num)
        BY <1>0, <3>2, <3>3
      <4>2. ~halted'
        BY <2>1, <4>1, Zenon
      <4>3. QED
        BY <2>4, <4>1, <4>2
    <3>5. \A w \in Writers : pc'[w] = "cleaning" => Left(w)' = Left(w)
      BY <1>0, <2>4, <3>1
    <3>6. Accounted'
      BY <1>0, <1>b, <3>1, <3>2, <3>4
    <3>7. QED
      BY <1>0, <1>b, <3>1, <3>2, <3>4, <3>5, <3>6
  <2>6. CASE t \in Writers
    <3>1. /\ \A w \in Writers : w # t => pc'[w] = "idle"
          /\ pc'[t] = "check" /\ pc'[Pipe] = pc[Pipe] /\ clean'[Pipe] = clean[Pipe]
      BY <1>0, <1>b, <2>1, <2>2, <2>3, <2>6
    <3>2. numFree' + Uncleaned + clean[Pipe].num = Num
      BY <1>0, <1>b, <2>1, <2>6
    <3>3. numFree' <= Num /\ clean'[t].num = 0
      BY <1>0, <1>b, <2>1, <2>2, <3>2
    <3>4. ~halted' /\ Uncleaned' = Uncleaned /\ Uncleaned <= 1
      <4>1. ~(numFree' > Num)
        BY <1>0, <2>1, <3>3
      <4>2. ~halted'
        BY <2>1, <4>1, Zenon
      <4>3. QED
        BY <1>0, <2>1, <2>4, <2>6, <4>2
    <3>5. Left(Pipe)' = Left(Pipe) \/ pc[Pipe] # "cleaning"
      BY <1>0, <2>4
    <3>6. Accounted'
      <4>1. \A w \in Writers : pc'[w] # "idle" => w = t
        BY <3>1
      <4>2. pc'[t] # "idle" /\ Filling(t)' = 0
        BY <3>1
      <4>3. numFree' + Uncleaned' + clean'[Pipe].num + clean'[t].num + Filling(t)' = Num
        BY <1>0, <1>b, <2>1, <3>1, <3>2, <3>3, <3>4, <4>2
      <4>4. QED
        BY <2>6, <4>1, <4>2, <4>3
    <3>7. QED
      BY <1>0, <1>b, <3>1, <3>4, <3>5, <3>6
  <2>7. QED
    BY <2>5, <2>6 DEF Threads
<1>11. CASE RxDesc \/ RxPush \/ RxFinish
  <2>1. UNCHANGED <<pc, clean, numFree, halted, availIdx, lastUsed, cleanLock>>
    BY <1>11 DEF RxDesc, RxPush, RxFinish, ring, locks, free
  <2>2. Uncleaned' = Uncleaned /\ \A t \in Threads : pc[t] = "cleaning" => Left(t)' = Left(t)
    BY <1>0, <2>1, UncleanedSame
  <2>3. QED
    BY <1>0, <2>1, <2>2
<1>12. CASE UNCHANGED vars
  <2>1. UNCHANGED <<pc, clean, numFree, halted, availIdx, lastUsed, cleanLock>>
    BY <1>12 DEF vars, ring, locks, free
  <2>2. Uncleaned' = Uncleaned /\ \A t \in Threads : pc[t] = "cleaning" => Left(t)' = Left(t)
    BY <1>0, <2>1, UncleanedSame
  <2>3. QED
    BY <1>0, <2>1, <2>2
<1>13. QED
  BY <1>1, <1>2, <1>3, <1>4, <1>5, <1>6, <1>7, <1>8, <1>9, <1>10, <1>11, <1>12 DEF Next

\* Nothing is under way at the start.
LEMMA CountInit ==
  ASSUME VringAssumption, Init
  PROVE  CountInv
<1>1. /\ ~halted /\ numFree = Num /\ availIdx = 0 /\ Unclean = 0 /\ Num \in Nat
      /\ \A t \in Threads : pc[t] = "idle" /\ clean[t].num = 0
  BY Assumed DEF Init, Unclean, NoBatch
<1>2. Uncleaned = 0
  <2>1. 0 - 0 = 0 /\ 0 % Wrap = 0
    BY Assumed
  <2>2. QED
    BY <1>1, <2>1 DEF Uncleaned
<1>3. QED
  BY <1>1, <1>2 DEF CountInv, Accounted, Cleaned, Threads

=============================================================================
