-------------------------- MODULE TsdbHeaderProofs --------------------------
(***************************************************************************)
(* Lemmas about the ring arithmetic of a header, for any capacity and any  *)
(* number of laps: where records are, and what a write does to that.       *)
(***************************************************************************)
EXTENDS TsdbHeader, TLAPS

-----------------------------------------------------------------------------
(* Remainders *)

LEMMA QuotientRemainder ==
  ASSUME NEW m \in Nat \ {0}, NEW a \in Nat
  PROVE  /\ a % m \in 0 .. m - 1
         /\ a \div m \in Nat
         /\ a = m * (a \div m) + (a % m)
  OBVIOUS

LEMMA RemainderUnique ==
  ASSUME NEW m \in Nat \ {0}, NEW p \in Int, NEW r \in Int,
         NEW a \in 0 .. m - 1, NEW b \in 0 .. m - 1, m * p + a = m * r + b
  PROVE  a = b
<1>1. m * (p - r) = b - a
  OBVIOUS
<1>2. CASE p = r
  BY <1>2
<1>3. CASE p > r
  <2>1. m * (p - r) >= m
    BY <1>3
  <2> QED BY <1>1, <2>1
<1>4. CASE p < r
  <2>1. m * (r - p) >= m
    BY <1>4
  <2>2. m * (r - p) = a - b
    BY <1>1
  <2> QED BY <2>1, <2>2
<1> QED BY <1>2, <1>3, <1>4

LEMMA RemainderNext ==
  ASSUME NEW m \in Nat \ {0}, NEW a \in Nat
  PROVE  (a + 1) % m = IF a % m = m - 1 THEN 0 ELSE (a % m) + 1
<1>1. a % m \in 0 .. m - 1 /\ a \div m \in Nat /\ a = m * (a \div m) + (a % m)
  BY QuotientRemainder
<1>2. \A b \in Nat : /\ b % m \in 0 .. m - 1 /\ b \div m \in Nat
                    /\ b = m * (b \div m) + (b % m)
  BY QuotientRemainder
<1>3. /\ (a + 1) % m \in 0 .. m - 1 /\ (a + 1) \div m \in Nat
      /\ a + 1 = m * ((a + 1) \div m) + ((a + 1) % m)
  BY ONLY <1>2, a \in Nat, a + 1 \in Nat
<1>4. CASE a % m = m - 1
  <2>1. a + 1 = m * ((a \div m) + 1) + 0
    BY <1>1, <1>4
  <2>2. m * ((a + 1) \div m) + ((a + 1) % m) = m * ((a \div m) + 1) + 0
    BY <1>3, <2>1
  <2>3. (a \div m) + 1 \in Int /\ (a + 1) \div m \in Int /\ 0 \in 0 .. m - 1
    BY <1>1, <1>3
  <2>4. (a + 1) % m = 0
    BY ONLY <1>3, <2>2, <2>3, m \in Nat \ {0}, RemainderUnique
  <2> QED BY <1>4, <2>4
<1>5. CASE a % m # m - 1
  <2>1. a + 1 = m * (a \div m) + ((a % m) + 1)
    BY <1>1
  <2>2. (a % m) + 1 \in 0 .. m - 1
    BY <1>1, <1>5
  <2> QED BY <1>1, <1>3, <1>5, <2>1, <2>2, RemainderUnique
<1> QED BY <1>4, <1>5

LEMMA RemainderBelow ==
  ASSUME NEW a \in Nat, NEW m \in Nat, a < m
  PROVE  a % m = a
  OBVIOUS

LEMMA RemainderOnce ==
  ASSUME NEW a \in Nat, NEW m \in Nat, m > 0, m <= a, a < 2 * m
  PROVE  a % m = a - m
  OBVIOUS

-----------------------------------------------------------------------------
(* Slots of a ring *)

(* The header's fields as numbers. *)
LEMMA HeaderNumbers ==
  ASSUME NEW h, RingHeader(h)
  PROVE  /\ h.max \in Nat /\ h.total \in Nat /\ h.oldest \in Nat
         /\ h.evictions \in Nat /\ h.oldestTs \in Nat /\ h.newestTs \in Nat
         /\ Available(h) \in Nat
         /\ Available(h) <= MaxSlots
         /\ h.max > 0 => h.oldest < h.max /\ Available(h) <= h.max
         /\ h.max > 0 /\ Available(h) < h.max => h.oldest = 0
<1>1. h \in Header
  BY DEF RingHeader
<1>2. /\ h.max \in Nat /\ h.total \in Nat /\ h.oldest \in Nat
      /\ h.evictions \in Nat /\ h.oldestTs \in Nat /\ h.newestTs \in Nat
  BY <1>1 DEF Header
<1>3. Available(h) \in Nat /\ Available(h) <= MaxSlots
  BY <1>2, MaxSlotsAssumption DEF RingHeader, Available, Unlimited
<1>4. ASSUME h.max > 0
      PROVE  h.oldest < h.max /\ Available(h) <= h.max /\ (Available(h) < h.max => h.oldest = 0)
  <2>1. h.total % h.max \in 0 .. h.max - 1
    BY <1>2, <1>4, QuotientRemainder
  <2> QED BY <1>2, <1>4, <2>1 DEF RingHeader, Available, Unlimited, IsEviction
<1> QED BY <1>2, <1>3, <1>4

LEMMA SlotCases ==
  ASSUME NEW h, RingHeader(h), NEW k \in Nat, k <= Available(h)
  PROVE  PhysicalIdx(h, k) = IF h.max = 0 THEN k
                             ELSE IF h.oldest + k < h.max THEN h.oldest + k
                             ELSE h.oldest + k - h.max
<1>1. CASE h.max = 0
  BY <1>1 DEF PhysicalIdx, Unlimited
<1>2. CASE h.max # 0
  <2>1. h.max \in Nat /\ h.oldest \in Nat /\ h.oldest < h.max /\ k <= h.max
    BY <1>2, HeaderNumbers
  <2>2. PhysicalIdx(h, k) = (h.oldest + k) % h.max
    BY <1>2 DEF PhysicalIdx, Unlimited
  <2>3. CASE h.oldest + k < h.max
    BY <1>2, <2>1, <2>2, <2>3, RemainderBelow
  <2>4. CASE h.oldest + k >= h.max
    <3>1. (h.oldest + k) % h.max = h.oldest + k - h.max
      BY <2>1, <2>4, RemainderOnce
    <3> QED BY <1>2, <2>1, <2>2, <2>4, <3>1
  <2> QED BY <2>1, <2>3, <2>4
<1> QED BY <1>1, <1>2

(* Readable records are in slots of the data area, no two in the same. *)
LEMMA SlotsExist ==
  ASSUME NEW h, RingHeader(h), NEW k \in Nat, k < Available(h)
  PROVE  PhysicalIdx(h, k) \in Slots
<1>1. h.max \in Nat /\ h.oldest \in Nat /\ Available(h) \in Nat /\ Available(h) <= MaxSlots
      /\ (h.max > 0 => h.oldest < h.max /\ Available(h) <= h.max)
  BY HeaderNumbers
<1>2. h.max <= MaxSlots
  BY DEF RingHeader
<1>3. PhysicalIdx(h, k) = IF h.max = 0 THEN k
                          ELSE IF h.oldest + k < h.max THEN h.oldest + k
                          ELSE h.oldest + k - h.max
  BY <1>1, SlotCases
<1> QED BY <1>1, <1>2, <1>3, MaxSlotsAssumption DEF Slots

LEMMA SlotsDiffer ==
  ASSUME NEW h, RingHeader(h), NEW k \in Nat, NEW l \in Nat,
         k < Available(h), l < Available(h), k # l
  PROVE  PhysicalIdx(h, k) # PhysicalIdx(h, l)
<1>1. h.max \in Nat /\ h.oldest \in Nat /\ Available(h) \in Nat
      /\ (h.max > 0 => h.oldest < h.max /\ Available(h) <= h.max)
  BY HeaderNumbers
<1>2. /\ PhysicalIdx(h, k) = IF h.max = 0 THEN k
                             ELSE IF h.oldest + k < h.max THEN h.oldest + k
                             ELSE h.oldest + k - h.max
      /\ PhysicalIdx(h, l) = IF h.max = 0 THEN l
                             ELSE IF h.oldest + l < h.max THEN h.oldest + l
                             ELSE h.oldest + l - h.max
  BY <1>1, SlotCases
<1> QED BY <1>1, <1>2

(* The cursor of tsdb_query_next moves from a record to the one after it. *)
LEMMA SlotAfter ==
  ASSUME NEW h, RingHeader(h), NEW k \in Nat, k + 1 < Available(h),
         NEW s, s = PhysicalIdx(h, k)
  PROVE  PhysicalIdx(h, k + 1) = IF Unlimited(h) THEN s + 1 ELSE (s + 1) % h.max
<1>1. h.max \in Nat /\ h.oldest \in Nat /\ Available(h) \in Nat
      /\ (h.max > 0 => h.oldest < h.max /\ Available(h) <= h.max)
  BY HeaderNumbers
<1>2. s = IF h.max = 0 THEN k
          ELSE IF h.oldest + k < h.max THEN h.oldest + k
          ELSE h.oldest + k - h.max
  BY <1>1, SlotCases
<1>3. PhysicalIdx(h, k + 1) = IF h.max = 0 THEN k + 1
                              ELSE IF h.oldest + (k + 1) < h.max THEN h.oldest + (k + 1)
                              ELSE h.oldest + (k + 1) - h.max
  BY <1>1, SlotCases
<1>4. CASE h.max = 0
  BY <1>2, <1>3, <1>4 DEF Unlimited
<1>5. CASE h.max # 0
  <2>1. s \in 0 .. h.max - 1
    BY <1>1, <1>2, <1>5
  <2>2. CASE s + 1 < h.max
    <3>1. (s + 1) % h.max = s + 1
      BY <1>1, <2>1, <2>2, RemainderBelow
    <3> QED BY <1>1, <1>2, <1>3, <1>5, <2>2, <3>1 DEF Unlimited
  <2>3. CASE s + 1 = h.max
    <3>1. (s + 1) % h.max = 0
      BY <1>1, <1>5, <2>1, <2>3, RemainderOnce
    <3> QED BY <1>1, <1>2, <1>3, <1>5, <2>3, <3>1 DEF Unlimited
  <2> QED BY <1>1, <2>1, <2>2, <2>3
<1> QED BY <1>4, <1>5

-----------------------------------------------------------------------------
(* What a write does to the ring *)

LEMMA AdvancedFields ==
  ASSUME NEW h \in Header, NEW ts, NEW d
  PROVE  LET a == Advanced(h, ts, d) IN
         /\ a.max = h.max /\ a.total = h.total + 1 /\ a.newestTs = ts
         /\ a.oldest = IF IsEviction(h) THEN (h.oldest + 1) % h.max ELSE h.oldest
         /\ a.oldestTs = IF IsEviction(h) THEN d[(h.oldest + 1) % h.max]
                         ELSE IF h.total = 0 THEN ts ELSE h.oldestTs
         /\ a.evictions = IF IsEviction(h) THEN h.evictions + 1 ELSE h.evictions
         /\ a = [max |-> a.max, total |-> a.total, oldest |-> a.oldest,
                 evictions |-> a.evictions, oldestTs |-> a.oldestTs, newestTs |-> a.newestTs]
<1> DEFINE e == Evicted(h)
<1>1. /\ e \in [max : Nat, total : Nat, oldest : {e.oldest}, evictions : {e.evictions},
               oldestTs : Nat, newestTs : Nat]
      /\ e.max = h.max /\ e.total = h.total /\ e.oldestTs = h.oldestTs
      /\ e.oldest = IF IsEviction(h) THEN (h.oldest + 1) % h.max ELSE h.oldest
      /\ e.evictions = IF IsEviction(h) THEN h.evictions + 1 ELSE h.evictions
  <2>1. CASE IsEviction(h)
    BY <2>1 DEF Header, Evicted
  <2>2. CASE ~IsEviction(h)
    BY <2>2 DEF Header, Evicted
  <2> QED BY <2>1, <2>2
<1> HIDE DEF e
<1>2. Advanced(h, ts, d) =
        [e EXCEPT !.total = @ + 1, !.newestTs = ts,
                  !.oldestTs = IF IsEviction(h) THEN d[e.oldest]
                               ELSE IF h.total = 0 THEN ts ELSE @]
  BY DEF Advanced, e
<1> QED BY <1>1, <1>2

(* oldest_record_idx after a write is still the slot overwritten next. *)
LEMMA NextOldest ==
  ASSUME NEW h, RingHeader(h), h.max > 0
  PROVE  (IF h.total >= h.max THEN (h.oldest + 1) % h.max ELSE h.oldest)
           = IF h.total + 1 >= h.max THEN (h.total + 1) % h.max ELSE 0
<1>1. h.max \in Nat /\ h.total \in Nat /\ h.oldest \in Nat
  BY HeaderNumbers
<1>2. h.oldest = IF h.total >= h.max THEN h.total % h.max ELSE 0
  BY <1>1 DEF RingHeader, IsEviction, Unlimited
<1>3. CASE h.total >= h.max
  <2>1. h.oldest = h.total % h.max /\ h.oldest \in 0 .. h.max - 1
    BY <1>1, <1>2, <1>3, QuotientRemainder
  <2>2. (h.total + 1) % h.max = IF h.oldest = h.max - 1 THEN 0 ELSE h.oldest + 1
    <3>1. h.max \in Nat \ {0} /\ h.total \in Nat
      BY <1>1
    <3>2. (h.total + 1) % h.max
            = IF h.total % h.max = h.max - 1 THEN 0 ELSE (h.total % h.max) + 1
      BY ONLY <3>1, RemainderNext
    <3> QED BY <2>1, <3>2
  <2>3. (h.oldest + 1) % h.max = IF h.oldest = h.max - 1 THEN 0 ELSE h.oldest + 1
    <3>1. h.oldest % h.max = h.oldest
      BY <1>1, <2>1, RemainderBelow
    <3>2. h.max \in Nat \ {0} /\ h.oldest \in Nat
      BY <1>1
    <3>3. (h.oldest + 1) % h.max
            = IF h.oldest % h.max = h.max - 1 THEN 0 ELSE (h.oldest % h.max) + 1
      BY ONLY <3>2, RemainderNext
    <3> QED BY <3>1, <3>3
  <2> QED BY <1>1, <1>3, <2>2, <2>3
<1>4. CASE h.total + 1 = h.max
  <2>1. (h.total + 1) % h.max = 0
    BY <1>1, <1>4, RemainderOnce
  <2> QED BY <1>1, <1>2, <1>4, <2>1
<1>5. CASE h.total + 1 < h.max
  BY <1>1, <1>2, <1>5
<1> QED BY <1>1, <1>3, <1>4, <1>5

LEMMA AdvancedRing ==
  ASSUME NEW h, RingHeader(h), Unlimited(h) => h.total < MaxSlots,
         NEW ts \in Nat, NEW d \in [Slots -> Nat]
  PROVE  RingHeader(Advanced(h, ts, d))
<1> DEFINE a == Advanced(h, ts, d)
<1>1. h.max \in Nat /\ h.total \in Nat /\ h.oldest \in Nat
      /\ h.evictions \in Nat /\ h.oldestTs \in Nat /\ h \in Header /\ h.max <= MaxSlots
  BY HeaderNumbers DEF RingHeader
<1>2. /\ a.max = h.max /\ a.total = h.total + 1 /\ a.newestTs = ts
      /\ a.oldest = IF IsEviction(h) THEN (h.oldest + 1) % h.max ELSE h.oldest
      /\ a.oldestTs = IF IsEviction(h) THEN d[(h.oldest + 1) % h.max]
                      ELSE IF h.total = 0 THEN ts ELSE h.oldestTs
      /\ a.evictions = IF IsEviction(h) THEN h.evictions + 1 ELSE h.evictions
      /\ a = [max |-> a.max, total |-> a.total, oldest |-> a.oldest,
              evictions |-> a.evictions, oldestTs |-> a.oldestTs, newestTs |-> a.newestTs]
  BY <1>1, AdvancedFields
<1> HIDE DEF a
<1>3. h.max > 0 => (h.oldest + 1) % h.max \in 0 .. h.max - 1
  BY <1>1, QuotientRemainder
<1>4. a \in Header
  <2>1. a.max \in Nat /\ a.total \in Nat /\ a.newestTs \in Nat /\ a.evictions \in Nat
    BY <1>1, <1>2
  <2>2. a.oldest \in Nat
    BY <1>1, <1>2, <1>3 DEF IsEviction, Unlimited
  <2>3. a.oldestTs \in Nat
    <3>1. IsEviction(h) => (h.oldest + 1) % h.max \in Slots
      BY <1>1, <1>3, MaxSlotsAssumption DEF IsEviction, Unlimited, Slots
    <3> QED BY <1>1, <1>2, <3>1
  <2> QED BY <1>2, <2>1, <2>2, <2>3 DEF Header
<1>5. a.oldest = IF IsEviction(a) THEN a.total % a.max ELSE 0
  <2>1. CASE h.max = 0
    BY <1>2, <2>1 DEF RingHeader, IsEviction, Unlimited
  <2>2. CASE h.max > 0
    <3>1. (IF h.total >= h.max THEN (h.oldest + 1) % h.max ELSE h.oldest)
             = IF h.total + 1 >= h.max THEN (h.total + 1) % h.max ELSE 0
      BY <2>2, NextOldest
    <3> QED BY <1>1, <1>2, <2>2, <3>1 DEF IsEviction, Unlimited
  <2> QED BY <1>1, <2>1, <2>2
<1>6. a.max <= MaxSlots /\ (Unlimited(a) => a.total <= MaxSlots)
  BY <1>1, <1>2, MaxSlotsAssumption DEF Unlimited
<1>7. RingHeader(a)
  BY <1>4, <1>5, <1>6 DEF RingHeader
<1> QED BY <1>7 DEF a

(* After a write the newest record is in the slot that was written, and    *)
(* the others are where they were, one position earlier when the oldest    *)
(* has been overwritten.                                                   *)
LEMMA SlotsShift ==
  ASSUME NEW h, RingHeader(h), NEW a, RingHeader(a), a.max = h.max, a.total = h.total + 1
  PROVE  LET m == Available(a)
             d == Available(h) + 1 - Available(a)
         IN  /\ m \in Nat \ {0} /\ d \in 0 .. 1
             /\ SlotAt(a, m) = RecordIdx(h)
             /\ \A k \in 1 .. m - 1 :
                  /\ k + d \in 1 .. Available(h)
                  /\ SlotAt(a, k) = SlotAt(h, k + d)
                  /\ SlotAt(a, k) # RecordIdx(h)
<1>1. /\ h.max \in Nat /\ h.total \in Nat /\ h.oldest \in Nat /\ a.oldest \in Nat
      /\ Available(a) \in Nat /\ Available(h) \in Nat
      /\ (h.max > 0 => h.oldest < h.max /\ a.oldest < h.max
                       /\ Available(h) <= h.max /\ Available(a) <= h.max)
  BY HeaderNumbers
<1>2. /\ Available(h) = IF h.max = 0 \/ h.total < h.max THEN h.total ELSE h.max
      /\ Available(a) = IF h.max = 0 \/ h.total + 1 < h.max THEN h.total + 1 ELSE h.max
  BY DEF Available, Unlimited
<1>3. \A k \in 1 .. Available(h) :
        SlotAt(h, k) = IF h.max = 0 THEN k - 1
                       ELSE IF h.oldest + (k - 1) < h.max THEN h.oldest + (k - 1)
                       ELSE h.oldest + (k - 1) - h.max
  BY <1>1, SlotCases DEF SlotAt
<1>4. \A k \in 1 .. Available(a) :
        SlotAt(a, k) = IF h.max = 0 THEN k - 1
                       ELSE IF a.oldest + (k - 1) < h.max THEN a.oldest + (k - 1)
                       ELSE a.oldest + (k - 1) - h.max
  BY <1>1, SlotCases DEF SlotAt
<1>5. CASE h.max = 0
  <2>1. RecordIdx(h) = h.total
    BY <1>5 DEF RecordIdx, Unlimited
  <2> QED BY <1>1, <1>2, <1>3, <1>4, <1>5, <2>1
<1>6. CASE h.max > 0
  <2>1. RecordIdx(h) = h.total % h.max /\ RecordIdx(h) \in 0 .. h.max - 1
    BY <1>1, <1>6, QuotientRemainder DEF RecordIdx, Unlimited
  <2>2. /\ h.oldest = IF h.total >= h.max THEN RecordIdx(h) ELSE 0
        /\ a.oldest = IF h.total + 1 >= h.max THEN (h.total + 1) % h.max ELSE 0
    BY <1>1, <1>6, <2>1 DEF RingHeader, IsEviction, Unlimited
  <2>3. (h.total + 1) % h.max = IF RecordIdx(h) = h.max - 1 THEN 0 ELSE RecordIdx(h) + 1
    <3>1. h.max \in Nat \ {0} /\ h.total \in Nat
      BY <1>1, <1>6
    <3>2. (h.total + 1) % h.max
            = IF h.total % h.max = h.max - 1 THEN 0 ELSE (h.total % h.max) + 1
      BY ONLY <3>1, RemainderNext
    <3> QED BY <2>1, <3>2
  <2>4. h.total < h.max => RecordIdx(h) = h.total
    BY <1>1, <2>1, RemainderBelow
  <2>5. a.oldest = IF h.total + 1 >= h.max /\ RecordIdx(h) # h.max - 1
                     THEN RecordIdx(h) + 1 ELSE 0
    BY <2>2, <2>3
  <2>6. CASE h.total < h.max
    <3>1. a.oldest = 0 /\ h.oldest = 0
      BY <1>1, <2>1, <2>2, <2>4, <2>5, <2>6
    <3>2. Available(h) = h.total /\ Available(a) = h.total + 1
      BY <1>1, <1>2, <1>6, <2>6
    <3>3. \A k \in 1 .. Available(h) : SlotAt(h, k) = k - 1
      BY <1>1, <1>3, <1>6, <3>1
    <3>4. \A k \in 1 .. Available(a) : SlotAt(a, k) = k - 1
      BY <1>1, <1>4, <1>6, <3>1
    <3> QED BY <1>1, <2>4, <2>6, <3>2, <3>3, <3>4
  <2>7. CASE h.total >= h.max
    <3>1. /\ h.oldest = RecordIdx(h)
          /\ a.oldest = IF RecordIdx(h) = h.max - 1 THEN 0 ELSE RecordIdx(h) + 1
      BY <1>1, <2>1, <2>2, <2>5, <2>7
    <3>2. Available(h) = h.max /\ Available(a) = h.max
      BY <1>1, <1>2, <1>6, <2>7
    <3> DEFINE r == RecordIdx(h)
    <3>3. \A k \in 1 .. h.max :
            SlotAt(h, k) = IF r + (k - 1) < h.max THEN r + (k - 1) ELSE r + (k - 1) - h.max
      BY <1>3, <1>6, <3>1, <3>2
    <3>4. \A k \in 1 .. h.max : SlotAt(a, k) = IF r + k < h.max THEN r + k ELSE r + k - h.max
      <4>1. CASE r = h.max - 1
        <5>1. a.oldest = 0
          BY <3>1, <4>1
        <5> QED BY <1>1, <1>4, <1>6, <3>2, <4>1, <5>1
      <4>2. CASE r # h.max - 1
        <5>1. a.oldest = r + 1
          BY <3>1, <4>2
        <5> HIDE DEF r
        <5> QED BY <1>1, <1>4, <1>6, <3>2, <5>1, <2>1 DEF r
      <4> QED BY <4>1, <4>2
    <3>5. r \in 0 .. h.max - 1
      BY <2>1
    <3> HIDE DEF r
    <3>6. SlotAt(a, h.max) = r
      BY <1>1, <1>6, <3>4, <3>5
    <3>7. \A k \in 1 .. h.max - 1 :
            /\ k + 1 \in 1 .. h.max /\ SlotAt(a, k) = SlotAt(h, k + 1) /\ SlotAt(a, k) # r
      <4> SUFFICES ASSUME NEW k \in 1 .. h.max - 1
                   PROVE  k + 1 \in 1 .. h.max /\ SlotAt(a, k) = SlotAt(h, k + 1) /\ SlotAt(a, k) # r
        OBVIOUS
      <4>1. k \in 1 .. h.max /\ k + 1 \in 1 .. h.max
        BY <1>1
      <4>2. SlotAt(h, k + 1) = IF r + k < h.max THEN r + k ELSE r + k - h.max
        BY <1>1, <3>3, <3>5, <4>1
      <4> QED BY <1>1, <3>4, <3>5, <4>1, <4>2
    <3> QED BY <1>1, <1>6, <3>2, <3>6, <3>7 DEF r
  <2> QED BY <1>1, <2>6, <2>7
<1> QED BY <1>1, <1>5, <1>6

(* The slot written exists. *)
LEMMA SlotWritten ==
  ASSUME NEW h, RingHeader(h), Unlimited(h) => h.total < MaxSlots
  PROVE  RecordIdx(h) \in Slots
<1>1. h.max \in Nat /\ h.total \in Nat /\ h.max <= MaxSlots
  BY HeaderNumbers DEF RingHeader
<1>2. h.max # 0 => h.total % h.max \in 0 .. h.max - 1
  BY <1>1, QuotientRemainder
<1> QED BY <1>1, <1>2, MaxSlotsAssumption DEF RecordIdx, Unlimited, Slots
=============================================================================
