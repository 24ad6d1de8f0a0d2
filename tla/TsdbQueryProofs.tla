-------------------------- MODULE TsdbQueryProofs ---------------------------
(***************************************************************************)
(* Theorems about the query iterator: it stays inside the data area, it    *)
(* returns exactly the records of its window, and the aggregates built on  *)
(* it are those of the window, for every capacity, block size, window and  *)
(* number of laps of the ring.                                             *)
(***************************************************************************)
EXTENDS TsdbQueryInv, TsdbHeaderProofs, FiniteSetTheorems, FunctionTheorems

-----------------------------------------------------------------------------
(* The cursor stays inside the data area *)

LEMMA BlockNumber ==
  ASSUME NEW s \in Nat
  PROVE  Block(s) \in Nat
<1>1. Rpb \in Nat \ {0}
  BY QueryAssumption
<1>2. s \div Rpb \in Nat
  BY <1>1, QuotientRemainder
<1> QED BY <1>2 DEF Block

LEMMA EmptyRing ==
  ASSUME NEW m \in 0 .. MaxSlots
  PROVE  RingHeader(EmptyHeader(m)) /\ Available(EmptyHeader(m)) = 0
<1>1. m \in Nat /\ m <= MaxSlots /\ MaxSlots \in Nat
  BY MaxSlotsAssumption
<1> QED BY <1>1 DEF RingHeader, EmptyHeader, Header, Unlimited, IsEviction, Available

LEMMA NoQueryFields ==
  /\ NoQuery \in Iterator /\ NoQuery.hdr = EmptyHeader(0) /\ NoQuery.slot = 0
  /\ NoQuery.block = Block(0) /\ NoQuery.scanned = 0 /\ NoQuery.loaded = FALSE
<1>1. Block(0) = 0
  <2>1. Rpb \in Nat \ {0}
    BY QueryAssumption
  <2> QED BY <2>1 DEF Block
<1>2. NoBuffer \in [Slots -> Nat] /\ NoBuffer \in [Slots -> Values \cup {0}]
  BY DEF NoBuffer
<1>3. EmptyHeader(0) \in Header
  BY DEF EmptyHeader, Header
<1> QED BY <1>1, <1>2, <1>3 DEF NoQuery, Iterator

LEMMA NoQueryCursor ==
  ASSUME NEW c, c = NoQuery
  PROVE  /\ c \in Iterator /\ RingHeader(c.hdr) /\ Available(c.hdr) = 0
         /\ c.scanned = 0 /\ c.slot = 0 /\ c.block = Block(c.slot) /\ ~c.loaded
<1>1. 0 \in 0 .. MaxSlots
  BY MaxSlotsAssumption
<1>2. RingHeader(EmptyHeader(0)) /\ Available(EmptyHeader(0)) = 0
  BY <1>1, EmptyRing
<1> QED BY <1>2, NoQueryFields

LEMMA CellInit == Init => CellInv
<1> SUFFICES ASSUME Init PROVE CellInv
  OBVIOUS
<1>1. PICK m \in Capacities : hdr = EmptyHeader(m)
  BY DEF Init
<1>2. m \in 0 .. MaxSlots /\ MaxTs \in Nat
  BY QueryAssumption
<1>3. RingHeader(hdr) /\ hdr.newestTs = 0
  BY <1>1, <1>2, EmptyRing DEF EmptyHeader
<1>4. /\ q \in Iterator /\ RingHeader(q.hdr) /\ Available(q.hdr) = 0
      /\ q.scanned = 0 /\ q.block = Block(q.slot)
  BY NoQueryCursor DEF Init
<1>5. data \in [Slots -> 0 .. MaxTs] /\ vals \in [Slots -> Values \cup {0}]
  BY <1>2 DEF Init, NoBuffer
<1>6. TypeOK
  BY <1>3, <1>4, <1>5 DEF TypeOK, Init, RingHeader
<1>7. CursorInv
  BY <1>4 DEF CursorInv, Init
<1> QED BY <1>2, <1>3, <1>6, <1>7 DEF CellInv

(* What CellInv needs of a cursor: its slot is the one of its position. *)
LEMMA CursorInside ==
  ASSUME NEW c \in Iterator, RingHeader(c.hdr), c.scanned <= Available(c.hdr),
         c.scanned < Available(c.hdr) => c.slot = PhysicalIdx(c.hdr, c.scanned)
  PROVE  c.scanned < Available(c.hdr) => c.slot \in Slots
<1>1. c.scanned \in Nat
  BY DEF Iterator
<1> QED BY <1>1, SlotsExist

LEMMA CellWrite ==
  ASSUME CellInv, Write
  PROVE  CellInv'
<1>1. PICK ts \in 1 .. MaxTs, v \in Values, blockRead \in BOOLEAN :
        ts >= hdr.newestTs /\ WriteRecord(ts, v, blockRead)
  BY DEF Write
<1>2. /\ RingHeader(hdr) /\ TypeOK /\ CursorInv /\ MaxTs \in Nat
      /\ UNCHANGED <<pc, q, seek, acc, out, view, status>>
  BY QueryAssumption DEF CellInv, Write
<1>3. Unlimited(hdr) => hdr.total < MaxSlots
  BY DEF Write
<1>4. data' \in [Slots -> 0 .. MaxTs] /\ vals' \in [Slots -> Values \cup {0}]
  <2>1. data \in [Slots -> 0 .. MaxTs] /\ vals \in [Slots -> Values \cup {0}]
    BY <1>2 DEF TypeOK
  <2> QED BY <1>1, <1>2, <2>1 DEF WriteRecord
<1>5. hdr' = Advanced(hdr, ts, data')
  BY <1>1 DEF WriteRecord
<1>6. RingHeader(hdr')
  <2>1. ts \in Nat /\ data' \in [Slots -> Nat]
    BY <1>2, <1>4
  <2> QED BY <1>2, <1>3, <1>5, <2>1, AdvancedRing
<1>7. hdr'.newestTs = ts
  BY <1>2, <1>5, AdvancedFields DEF RingHeader
<1>8. TypeOK'
  BY <1>2, <1>4, <1>6 DEF TypeOK, RingHeader
<1>9. CursorInv'
  BY <1>2 DEF CursorInv
<1> QED BY <1>1, <1>2, <1>6, <1>7, <1>8, <1>9 DEF CellInv

(* An action that leaves the database alone keeps CellInv when it moves    *)
(* the cursor to a record of the walk.                                     *)
LEMMA CellKept ==
  ASSUME CellInv, UNCHANGED <<data, vals, hdr>>,
         pc' \in {"none", "seek", "open", "scan"},
         status' \in {"running", "ended", "failed"},
         q' \in Iterator, RingHeader(q'.hdr), q'.block = Block(q'.slot),
         q'.scanned <= Available(q'.hdr),
         q'.scanned < Available(q'.hdr) => q'.slot = PhysicalIdx(q'.hdr, q'.scanned),
         seek' \in [lo : Nat, hi : Nat],
         pc' = "seek" => seek'.lo <= seek'.hi /\ seek'.hi <= Available(q'.hdr)
  PROVE  CellInv'
<1>1. q'.scanned < Available(q'.hdr) => q'.slot \in Slots
  BY CursorInside
<1>2. TypeOK'
  BY <1>1 DEF CellInv, TypeOK
<1>3. CursorInv'
  BY DEF CursorInv
<1> QED BY <1>2, <1>3 DEF CellInv

LEMMA CellQueryInit ==
  ASSUME CellInv, QueryInit
  PROVE  CellInv'
<1>1. PICK start \in 0 .. MaxTs, end \in 0 .. MaxTs :
        /\ q' = [NoQuery EXCEPT !.start = start, !.end = end, !.hdr = hdr,
                                !.slot = FirstSlot(hdr), !.block = Block(FirstSlot(hdr))]
        /\ pc' = IF Available(hdr) > 0 /\ start > hdr.oldestTs THEN "seek" ELSE "open"
  BY DEF QueryInit
<1>2. RingHeader(hdr) /\ hdr \in Header /\ MaxTs \in Nat
  BY QueryAssumption DEF CellInv, RingHeader
<1>3. Available(hdr) \in Nat /\ hdr.oldest \in Nat /\ hdr.max \in Nat
  BY <1>2, HeaderNumbers
<1>4. FirstSlot(hdr) \in Nat /\ Block(FirstSlot(hdr)) \in Nat
  BY <1>3, BlockNumber DEF FirstSlot
<1>5. /\ q' \in Iterator /\ q'.hdr = hdr /\ q'.slot = FirstSlot(hdr)
      /\ q'.block = Block(FirstSlot(hdr)) /\ q'.scanned = 0
  <2>1. start \in Nat /\ end \in Nat
    BY <1>2
  <2> DEFINE f == FirstSlot(hdr)
             b == Block(f)
  <2>2. f \in Nat /\ b \in Nat
    BY <1>4
  <2>3. q' = [NoQuery EXCEPT !.start = start, !.end = end, !.hdr = hdr, !.slot = f, !.block = b]
    BY <1>1
  <2>4. NoQuery \in Iterator /\ NoQuery.scanned = 0
    BY NoQueryFields
  <2> HIDE DEF f, b
  <2>5. q' \in Iterator /\ q'.hdr = hdr /\ q'.slot = f /\ q'.block = b /\ q'.scanned = 0
    BY <1>2, <2>1, <2>2, <2>3, <2>4 DEF Iterator
  <2> QED BY <2>5 DEF f, b
<1>6. 0 < Available(hdr) => FirstSlot(hdr) = PhysicalIdx(hdr, 0)
  <2>1. PhysicalIdx(hdr, 0) = IF hdr.max = 0 THEN 0
                              ELSE IF hdr.oldest + 0 < hdr.max THEN hdr.oldest + 0
                              ELSE hdr.oldest + 0 - hdr.max
    BY <1>2, <1>3, SlotCases
  <2> QED BY <1>2, <1>3, <2>1, HeaderNumbers DEF FirstSlot, Unlimited
<1>7. seek' = [lo |-> 0, hi |-> Available(hdr)] /\ status' = "running"
      /\ UNCHANGED <<data, vals, hdr>>
  BY DEF QueryInit
<1> QED BY <1>1, <1>2, <1>3, <1>5, <1>6, <1>7, CellKept

(* A position is a place to start, and so is the end. *)
LEMMA StartInside ==
  ASSUME CellInv, NEW k \in Nat, k <= Available(q.hdr), StartAt(k)
  PROVE  /\ q' \in Iterator /\ q'.hdr = q.hdr /\ q'.block = Block(q'.slot)
         /\ q'.scanned = k /\ q'.slot = PhysicalIdx(q.hdr, k)
         /\ q'.start = q.start /\ q'.end = q.end /\ q'.loaded = q.loaded
         /\ q'.ts = q.ts /\ q'.val = q.val
         /\ pc' = "open"
<1>1. q \in Iterator /\ RingHeader(q.hdr)
  BY DEF CellInv, TypeOK, CursorInv
<1>2. PhysicalIdx(q.hdr, k) \in Nat
  <2>1. q.hdr.max \in Nat /\ q.hdr.oldest \in Nat /\ Available(q.hdr) \in Nat
        /\ (q.hdr.max > 0 => q.hdr.oldest < q.hdr.max /\ Available(q.hdr) <= q.hdr.max)
    BY <1>1, HeaderNumbers
  <2>2. PhysicalIdx(q.hdr, k) = IF q.hdr.max = 0 THEN k
                                ELSE IF q.hdr.oldest + k < q.hdr.max THEN q.hdr.oldest + k
                                ELSE q.hdr.oldest + k - q.hdr.max
    BY <1>1, <2>1, SlotCases
  <2> QED BY <2>1, <2>2
<1> DEFINE s == PhysicalIdx(q.hdr, k)
<1>3. q' = [q EXCEPT !.slot = s, !.block = Block(s), !.scanned = k] /\ pc' = "open"
  BY Zenon DEF StartAt
<1>4. s \in Nat /\ Block(s) \in Nat
  BY <1>2, BlockNumber
<1> HIDE DEF s
<1>5. /\ q' \in Iterator /\ q'.slot = s /\ q'.block = Block(s) /\ q'.scanned = k
      /\ q'.hdr = q.hdr /\ q'.start = q.start /\ q'.end = q.end /\ q'.loaded = q.loaded
      /\ q'.ts = q.ts /\ q'.val = q.val
  BY <1>1, <1>3, <1>4 DEF Iterator
<1> QED BY <1>3, <1>5 DEF s

(* The middle of the interval. *)
LEMMA Middle ==
  ASSUME NEW lo \in Nat, NEW hi \in Nat, lo < hi
  PROVE  LET mid == lo + (hi - lo) \div 2 IN mid \in Nat /\ lo <= mid /\ mid < hi
<1>1. hi - lo \in Nat
  OBVIOUS
<1>2. /\ (hi - lo) \div 2 \in Nat /\ (hi - lo) % 2 \in 0 .. 1
      /\ hi - lo = 2 * ((hi - lo) \div 2) + ((hi - lo) % 2)
  <2>1. \A b \in Nat : b \div 2 \in Nat /\ b % 2 \in 0 .. 1 /\ b = 2 * (b \div 2) + (b % 2)
    OBVIOUS
  <2> QED BY ONLY <1>1, <2>1
<1> QED BY <1>2

LEMMA CellProbe ==
  ASSUME CellInv, Probe
  PROVE  CellInv'
<1> DEFINE mid == seek.lo + (seek.hi - seek.lo) \div 2
           ts  == data[PhysicalIdx(q.hdr, mid)]
<1>1. /\ RingHeader(q.hdr) /\ q \in Iterator /\ q.block = Block(q.slot)
      /\ q.scanned <= Available(q.hdr)
      /\ (q.scanned < Available(q.hdr) => q.slot = PhysicalIdx(q.hdr, q.scanned))
      /\ seek \in [lo : Nat, hi : Nat] /\ pc = "seek"
      /\ seek.lo <= seek.hi /\ seek.hi <= Available(q.hdr)
      /\ status \in {"running", "ended", "failed"}
  BY DEF CellInv, TypeOK, CursorInv, Probe
<1>2. UNCHANGED <<data, vals, hdr, status>> /\ seek.lo < seek.hi
  BY DEF Probe
<1>3. Available(q.hdr) \in Nat
  BY <1>1, HeaderNumbers
<1>4. mid \in Nat /\ seek.lo <= mid /\ mid < seek.hi
  BY <1>1, <1>2, Middle
<1>5. \/ StartAt(0) /\ UNCHANGED seek
      \/ seek' = [seek EXCEPT !.lo = mid + 1] /\ UNCHANGED <<pc, q>>
      \/ seek' = [seek EXCEPT !.hi = mid] /\ UNCHANGED <<pc, q>>
  BY Zenon DEF Probe
<1> HIDE DEF mid, ts
<1>6. CASE StartAt(0) /\ UNCHANGED seek
  <2>1. /\ q' \in Iterator /\ q'.hdr = q.hdr /\ q'.block = Block(q'.slot)
        /\ q'.scanned = 0 /\ q'.slot = PhysicalIdx(q.hdr, 0) /\ pc' = "open"
    BY <1>3, <1>6, StartInside
  <2> QED BY <1>1, <1>2, <1>3, <1>6, <2>1, CellKept
<1>7. CASE seek' = [seek EXCEPT !.lo = mid + 1] /\ UNCHANGED <<pc, q>>
  <2>1. seek' \in [lo : Nat, hi : Nat] /\ seek'.lo = mid + 1 /\ seek'.hi = seek.hi
    BY <1>1, <1>4, <1>7
  <2>2. seek'.lo <= seek'.hi
    BY <1>1, <1>4, <2>1
  <2> QED BY <1>1, <1>2, <1>7, <2>1, <2>2, CellKept
<1>8. CASE seek' = [seek EXCEPT !.hi = mid] /\ UNCHANGED <<pc, q>>
  <2>1. seek' \in [lo : Nat, hi : Nat] /\ seek'.lo = seek.lo /\ seek'.hi = mid
    BY <1>1, <1>4, <1>8
  <2>2. seek'.lo <= seek'.hi /\ seek'.hi <= Available(q.hdr)
    BY <1>1, <1>3, <1>4, <2>1
  <2> QED BY <1>1, <1>2, <1>8, <2>1, <2>2, CellKept
<1> QED BY <1>5, <1>6, <1>7, <1>8

LEMMA CellSeekReturns ==
  ASSUME CellInv, SeekReturns
  PROVE  CellInv'
<1>1. /\ RingHeader(q.hdr) /\ seek \in [lo : Nat, hi : Nat]
      /\ seek.lo <= seek.hi /\ seek.hi <= Available(q.hdr)
      /\ status \in {"running", "ended", "failed"}
  BY DEF CellInv, TypeOK, CursorInv, SeekReturns
<1>2. UNCHANGED <<data, vals, hdr, seek, status>> /\ StartAt(seek.lo)
  BY DEF SeekReturns
<1>3. Available(q.hdr) \in Nat
  BY <1>1, HeaderNumbers
<1>4. seek.lo \in Nat /\ seek.lo <= Available(q.hdr)
  BY <1>1, <1>3
<1>5. /\ q' \in Iterator /\ q'.hdr = q.hdr /\ q'.block = Block(q'.slot)
      /\ q'.scanned = seek.lo /\ q'.slot = PhysicalIdx(q.hdr, seek.lo) /\ pc' = "open"
  BY <1>2, <1>4, StartInside
<1> QED BY <1>1, <1>2, <1>4, <1>5, CellKept

(* The steps that leave the cursor alone. *)
LEMMA CellCursorKept ==
  ASSUME CellInv, UNCHANGED <<data, vals, hdr, q, seek>>, pc' \in {"open", "scan"},
         status' \in {"running", "ended", "failed"}
  PROVE  CellInv'
<1>1. /\ RingHeader(q.hdr) /\ q \in Iterator /\ q.block = Block(q.slot)
      /\ q.scanned <= Available(q.hdr)
      /\ (q.scanned < Available(q.hdr) => q.slot = PhysicalIdx(q.hdr, q.scanned))
      /\ seek \in [lo : Nat, hi : Nat]
  BY DEF CellInv, TypeOK, CursorInv
<1> QED BY <1>1, CellKept

LEMMA CellQueryClose ==
  ASSUME CellInv, QueryClose
  PROVE  CellInv'
<1>1. seek \in [lo : Nat, hi : Nat]
  BY DEF CellInv, CursorInv
<1>2. /\ q' = NoQuery /\ pc' = "none" /\ status' = "running"
      /\ UNCHANGED <<data, vals, hdr, seek>>
  BY DEF QueryClose
<1>3. /\ q' \in Iterator /\ RingHeader(q'.hdr) /\ Available(q'.hdr) = 0
      /\ q'.scanned = 0 /\ q'.slot = 0 /\ q'.block = Block(q'.slot)
  BY <1>2, NoQueryCursor
<1> QED BY <1>1, <1>2, <1>3, CellKept

(* Loading a block changes nothing but the buffer. *)
LEMMA LoadedFields ==
  ASSUME CellInv
  PROVE  /\ Loaded \in Iterator /\ Loaded.loaded = TRUE
         /\ Loaded.start = q.start /\ Loaded.end = q.end /\ Loaded.hdr = q.hdr
         /\ Loaded.slot = q.slot /\ Loaded.block = q.block /\ Loaded.scanned = q.scanned
         /\ q.loaded => Loaded.ts = q.ts /\ Loaded.val = q.val
         /\ ~q.loaded =>
              /\ Loaded.ts = [s \in Slots |-> IF Block(s) = q.block THEN data[s] ELSE 0]
              /\ Loaded.val = [s \in Slots |-> IF Block(s) = q.block THEN vals[s] ELSE 0]
<1>1. q \in Iterator /\ data \in [Slots -> 0 .. MaxTs] /\ vals \in [Slots -> Values \cup {0}]
  BY DEF CellInv, TypeOK
<1>2. CASE q.loaded
  BY <1>1, <1>2 DEF Loaded, Iterator
<1>3. CASE ~q.loaded
  <2> DEFINE t == [s \in Slots |-> IF Block(s) = q.block THEN data[s] ELSE 0]
             v == [s \in Slots |-> IF Block(s) = q.block THEN vals[s] ELSE 0]
  <2>1. MaxTs \in Nat
    BY QueryAssumption
  <2>2. t \in [Slots -> Nat] /\ v \in [Slots -> Values \cup {0}]
    BY <1>1, <2>1
  <2>3. Loaded = [q EXCEPT !.loaded = TRUE, !.ts = t, !.val = v]
    BY <1>3, Zenon DEF Loaded
  <2> HIDE DEF t, v
  <2>4. /\ Loaded \in Iterator /\ Loaded.loaded = TRUE
        /\ Loaded.start = q.start /\ Loaded.end = q.end /\ Loaded.hdr = q.hdr
        /\ Loaded.slot = q.slot /\ Loaded.block = q.block /\ Loaded.scanned = q.scanned
        /\ Loaded.ts = t /\ Loaded.val = v
    BY <1>1, <2>2, <2>3 DEF Iterator
  <2> QED BY <1>3, <2>4 DEF t, v
<1> QED BY <1>2, <1>3

LEMMA MovedFields ==
  ASSUME CellInv, NEW c \in Iterator, c.scanned = q.scanned, c.hdr = q.hdr,
         q.scanned < Available(q.hdr), NEW e, e = Moved(c)
  PROVE  /\ e \in Iterator /\ e.start = c.start /\ e.end = c.end /\ e.hdr = q.hdr
         /\ e.scanned = q.scanned + 1 /\ e.block = Block(e.slot)
         /\ e.scanned < Available(q.hdr) => e.slot = PhysicalIdx(q.hdr, e.scanned)
         /\ e.loaded = (e.block = q.block) /\ e.ts = c.ts /\ e.val = c.val
<1> DEFINE n == NextSlot
           b == Block(n)
           l == (b = q.block)
           k == c.scanned + 1
<1>1. /\ RingHeader(q.hdr) /\ q.slot = PhysicalIdx(q.hdr, q.scanned) /\ q.scanned \in Nat
  BY DEF CellInv, TypeOK, CursorInv, Iterator
<1>2. q.slot \in Slots /\ q.slot \in Nat
  BY <1>1, SlotsExist DEF Slots
<1>3. n \in Nat
  <2>1. q.hdr.max \in Nat
    BY <1>1, HeaderNumbers
  <2>2. q.hdr.max # 0 => (q.slot + 1) % q.hdr.max \in 0 .. q.hdr.max - 1
    <3>1. \A x \in Nat : q.hdr.max # 0 => x % q.hdr.max \in 0 .. q.hdr.max - 1
      BY <2>1, QuotientRemainder
    <3>2. q.slot + 1 \in Nat
      BY <1>2
    <3> QED BY ONLY <3>1, <3>2
  <2> QED BY <1>2, <2>1, <2>2 DEF NextSlot, Unlimited
<1>4. b \in Nat
  BY <1>3, BlockNumber
<1>5. q.scanned + 1 < Available(q.hdr) => n = PhysicalIdx(q.hdr, q.scanned + 1)
  <2> SUFFICES ASSUME q.scanned + 1 < Available(q.hdr)
               PROVE  n = PhysicalIdx(q.hdr, q.scanned + 1)
    OBVIOUS
  <2>1. PhysicalIdx(q.hdr, q.scanned + 1)
          = IF Unlimited(q.hdr) THEN q.slot + 1 ELSE (q.slot + 1) % q.hdr.max
    BY <1>1, SlotAfter
  <2> QED BY <2>1, Zenon DEF NextSlot
<1>6. e = [c EXCEPT !.slot = n, !.block = b, !.scanned = k, !.loaded = l]
  BY Zenon DEF Moved
<1>7. l \in BOOLEAN /\ k \in Nat
  BY DEF Iterator
<1> HIDE DEF n, b, l, k
<1>8. /\ e \in Iterator /\ e.start = c.start /\ e.end = c.end /\ e.hdr = c.hdr
      /\ e.slot = n /\ e.block = b /\ e.scanned = k
      /\ e.loaded = l /\ e.ts = c.ts /\ e.val = c.val
  BY <1>3, <1>4, <1>6, <1>7 DEF Iterator
<1>9. e.block = Block(e.slot) /\ e.loaded = (e.block = q.block) /\ e.scanned = q.scanned + 1
  BY <1>8 DEF b, l, k
<1> QED BY <1>5, <1>8, <1>9

LEMMA ScanMoves ==
  ASSUME CellInv, ScanSlot
  PROVE  /\ q' \in Iterator /\ q'.start = q.start /\ q'.end = q.end /\ q'.hdr = q.hdr
         /\ q'.scanned = q.scanned + 1 /\ q'.block = Block(q'.slot)
         /\ q'.scanned < Available(q.hdr) => q'.slot = PhysicalIdx(q.hdr, q'.scanned)
         /\ q'.loaded = (q'.block = q.block) /\ q'.ts = Loaded.ts /\ q'.val = Loaded.val
<1>1. q' = Moved(Loaded) /\ q.scanned < Available(q.hdr)
  BY DEF ScanSlot
<1> QED BY <1>1, LoadedFields, MovedFields

LEMMA CellScanSlot ==
  ASSUME CellInv, ScanSlot
  PROVE  CellInv'
<1>1. /\ RingHeader(q.hdr) /\ seek \in [lo : Nat, hi : Nat] /\ q.scanned \in Nat
      /\ status \in {"running", "ended", "failed"}
  BY DEF CellInv, TypeOK, CursorInv, Iterator
<1>2. /\ pc = "scan" /\ q.scanned < Available(q.hdr)
      /\ UNCHANGED <<data, vals, hdr, seek>>
  BY DEF ScanSlot
<1>3. pc' \in {"scan", "open"} /\ status' \in {"running", "ended", "failed"}
  BY <1>1, <1>2, Zenon DEF ScanSlot, NotFound
<1>4. /\ q' \in Iterator /\ q'.hdr = q.hdr /\ q'.scanned = q.scanned + 1
      /\ q'.block = Block(q'.slot)
      /\ (q'.scanned < Available(q.hdr) => q'.slot = PhysicalIdx(q.hdr, q'.scanned))
  BY ScanMoves
<1>5. q'.scanned <= Available(q'.hdr)
  <2>1. Available(q.hdr) \in Nat
    BY <1>1, HeaderNumbers
  <2> QED BY <1>1, <1>2, <1>4, <2>1
<1> QED BY <1>1, <1>2, <1>3, <1>4, <1>5, CellKept

LEMMA CellStep == CellInv /\ [Next]_vars => CellInv'
<1> SUFFICES ASSUME CellInv, [Next]_vars PROVE CellInv'
  OBVIOUS
<1>1. CASE Write
  BY <1>1, CellWrite
<1>2. CASE QueryInit
  BY <1>2, CellQueryInit
<1>3. CASE Probe
  BY <1>3, CellProbe
<1>4. CASE SeekReturns
  BY <1>4, CellSeekReturns
<1>5. CASE QueryNext
  <2>1. status \in {"running", "ended", "failed"}
    BY DEF CellInv, TypeOK
  <2> QED BY <1>5, <2>1, CellCursorKept DEF QueryNext
<1>6. CASE QueryClose
  BY <1>6, CellQueryClose
<1>7. CASE Exhausted
  BY <1>7, CellCursorKept DEF Exhausted, NotFound
<1>8. CASE BlockUnreadable
  BY <1>8, CellCursorKept DEF BlockUnreadable, NotFound
<1>9. CASE ScanSlot
  BY <1>9, CellScanSlot
<1>10. CASE UNCHANGED vars
  BY <1>10 DEF vars, CellInv, TypeOK, CursorInv
<1> QED BY <1>1, <1>2, <1>3, <1>4, <1>5, <1>6, <1>7, <1>8, <1>9, <1>10 DEF Next

(* The iterator of tsdb_query_next never leaves the data area and never    *)
(* counts past the records it set out to scan, whatever is written while   *)
(* the query is open and whichever blocks cannot be read.                  *)
THEOREM IteratorStaysInside == Spec => []TypeOK
<1>1. CellInv => TypeOK
  BY DEF CellInv
<1> QED BY <1>1, CellInit, CellStep, PTL DEF Spec

-----------------------------------------------------------------------------
(* Order and contents *)

LEMMA MatchingMember ==
  ASSUME NEW k
  PROVE  k \in Matching <=>
           k \in DOMAIN view /\ view[k].ts # 0 /\ q.start <= view[k].ts /\ view[k].ts <= q.end
  BY DEF Matching, InWindow

(* A slot after a write: the new record, or what was there, or a hole. *)
LEMMA WrittenSlots ==
  ASSUME CellInv, NEW ts, NEW v, NEW blockRead, WriteRecord(ts, v, blockRead)
  PROVE  /\ RecordIdx(hdr) \in Slots => data'[RecordIdx(hdr)] = ts
         /\ \A s \in Slots : s # RecordIdx(hdr) => data'[s] \in {0, data[s]}
         /\ blockRead => \A s \in Slots : s # RecordIdx(hdr) => data'[s] = data[s] /\ vals'[s] = vals[s]
         /\ hdr' = Advanced(hdr, ts, data')
<1> DEFINE n == RecordIdx(hdr)
<1>1. \A s \in Slots :
        data'[s] = IF s = n THEN ts ELSE IF ~blockRead /\ Block(s) = Block(n) THEN 0 ELSE data[s]
  BY Zenon DEF WriteRecord
<1>2. \A s \in Slots :
        vals'[s] = IF s = n THEN v ELSE IF ~blockRead /\ Block(s) = Block(n) THEN 0 ELSE vals[s]
  BY Zenon DEF WriteRecord
<1>3. hdr' = Advanced(hdr, ts, data')
  BY DEF WriteRecord
<1> HIDE DEF n
<1>4. /\ n \in Slots => data'[n] = ts
      /\ \A s \in Slots : s # n => data'[s] \in {0, data[s]}
      /\ blockRead => \A s \in Slots : s # n => data'[s] = data[s] /\ vals'[s] = vals[s]
  BY <1>1, <1>2
<1> QED BY <1>3, <1>4 DEF n

LEMMA RecordSlots ==
  ASSUME NEW h, RingHeader(h), NEW k \in 1 .. Available(h)
  PROVE  SlotAt(h, k) \in Slots
<1>1. Available(h) \in Nat
  BY HeaderNumbers
<1>2. k - 1 \in Nat /\ k - 1 < Available(h)
  BY <1>1
<1> QED BY <1>2, SlotsExist DEF SlotAt

LEMMA OrderWrite ==
  ASSUME CellInv, CellInv', OrderInv, Write
  PROVE  OrderInv'
<1>1. PICK ts \in 1 .. MaxTs, v \in Values, blockRead \in BOOLEAN :
        ts >= hdr.newestTs /\ WriteRecord(ts, v, blockRead)
  BY DEF Write
<1>2. RingHeader(hdr) /\ RingHeader(hdr') /\ data \in [Slots -> 0 .. MaxTs] /\ MaxTs \in Nat
  BY QueryAssumption DEF CellInv, TypeOK
<1>3. RecordIdx(hdr) \in Slots
  BY <1>2, SlotWritten DEF Write
<1>4. /\ data'[RecordIdx(hdr)] = ts
      /\ \A s \in Slots : s # RecordIdx(hdr) => data'[s] \in {0, data[s]}
      /\ hdr' = Advanced(hdr, ts, data')
  BY <1>1, <1>3, WrittenSlots
<1>5. hdr'.max = hdr.max /\ hdr'.total = hdr.total + 1 /\ hdr'.newestTs = ts
  BY <1>2, <1>4, AdvancedFields DEF RingHeader
<1>6. ts \in Nat /\ hdr.newestTs \in Nat
  BY <1>1, <1>2, HeaderNumbers
<1>7. \A s \in Slots : data[s] \in Nat /\ data[s] <= ts
  BY <1>1, <1>2, <1>6 DEF OrderInv
<1>8. \A s \in Slots : data'[s] <= ts
  BY <1>4, <1>6, <1>7
<1> DEFINE m == Available(hdr')
           d == Available(hdr) + 1 - Available(hdr')
<1>9. /\ m \in Nat \ {0} /\ d \in 0 .. 1
      /\ SlotAt(hdr', m) = RecordIdx(hdr)
      /\ \A k \in 1 .. m - 1 : /\ k + d \in 1 .. Available(hdr)
                               /\ SlotAt(hdr', k) = SlotAt(hdr, k + d)
                               /\ SlotAt(hdr', k) # RecordIdx(hdr)
  BY <1>2, <1>5, SlotsShift
<1> HIDE DEF d, m
<1>10. ASSUME NEW i \in 1 .. m, NEW j \in 1 .. m, i < j,
              data'[SlotAt(hdr', i)] # 0, data'[SlotAt(hdr', j)] # 0
       PROVE  data'[SlotAt(hdr', i)] <= data'[SlotAt(hdr', j)]
  <2>1. i \in 1 .. m - 1
    BY <1>9, <1>10
  <2>2. i + d \in 1 .. Available(hdr) /\ SlotAt(hdr', i) = SlotAt(hdr, i + d)
        /\ SlotAt(hdr', i) # RecordIdx(hdr)
    BY <1>9, <2>1
  <2>3. SlotAt(hdr, i + d) \in Slots
    BY <1>2, <2>2, RecordSlots
  <2>4. data'[SlotAt(hdr', i)] = data[SlotAt(hdr, i + d)]
    BY <1>4, <1>10, <2>2, <2>3
  <2>5. CASE j = m
    BY <1>4, <1>7, <1>9, <2>3, <2>4, <2>5
  <2>6. CASE j # m
    <3>1. j \in 1 .. m - 1
      BY <1>9, <2>6
    <3>2. j + d \in 1 .. Available(hdr) /\ SlotAt(hdr', j) = SlotAt(hdr, j + d)
          /\ SlotAt(hdr', j) # RecordIdx(hdr)
      BY <1>9, <3>1
    <3>3. SlotAt(hdr, j + d) \in Slots
      BY <1>2, <3>2, RecordSlots
    <3>4. data'[SlotAt(hdr', j)] = data[SlotAt(hdr, j + d)]
      BY <1>4, <1>10, <3>2, <3>3
    <3>5. i + d < j + d
      BY <1>9, <1>10
    <3> QED BY <1>10, <2>2, <2>4, <3>2, <3>4, <3>5 DEF OrderInv
  <2> QED BY <2>5, <2>6
<1> QED BY <1>5, <1>8, <1>10 DEF OrderInv, m

(* The slots of the records of a query on an unlimited log, whose writes   *)
(* go past them all.                                                       *)
LEMMA ViewWrite ==
  ASSUME CellInv, CellInv', ViewInv, Write, "nestedring" \notin Env
  PROVE  ViewInv'
<1>1. PICK ts \in 1 .. MaxTs, v \in Values, blockRead \in BOOLEAN :
        /\ blockRead \/ pc = "none"
        /\ WriteRecord(ts, v, blockRead)
  BY DEF Write
<1>2. /\ UNCHANGED <<pc, q, view>> /\ RingHeader(hdr) /\ RingHeader(q.hdr)
      /\ (pc = "none" \/ Unlimited(hdr))
  BY DEF Write, CellInv, CursorInv
<1>3. CASE pc = "none"
  BY <1>2, <1>3 DEF ViewInv
<1>4. CASE pc # "none"
  <2>1. /\ DOMAIN view = 1 .. Available(q.hdr) /\ q.hdr.max = hdr.max
        /\ q.hdr.total <= hdr.total
        /\ \A i, j \in DOMAIN view :
             i < j /\ view[i].ts # 0 /\ view[j].ts # 0 => view[i].ts <= view[j].ts
        /\ \A k \in DOMAIN view : /\ view[k].ts = data[SlotAt(q.hdr, k)]
                                  /\ view[k].val = vals[SlotAt(q.hdr, k)]
    BY <1>4 DEF ViewInv
  <2>2. hdr.max = 0 /\ hdr.total \in Nat /\ q.hdr.total \in Nat
    BY <1>2, <1>4, HeaderNumbers DEF Unlimited
  <2>3. hdr'.max = hdr.max /\ hdr'.total = hdr.total + 1
    BY <1>1, <1>2, WrittenSlots, AdvancedFields DEF RingHeader
  <2>4. RecordIdx(hdr) = hdr.total /\ Available(q.hdr) = q.hdr.total
    BY <2>1, <2>2 DEF RecordIdx, Available, Unlimited
  <2>5. ASSUME NEW k \in DOMAIN view
        PROVE  SlotAt(q.hdr, k) \in Slots /\ SlotAt(q.hdr, k) # RecordIdx(hdr)
    <3>1. SlotAt(q.hdr, k) = k - 1
      BY <2>1, <2>2 DEF SlotAt, PhysicalIdx, Unlimited
    <3>2. SlotAt(q.hdr, k) \in Slots
      BY <1>2, <2>1, RecordSlots
    <3> QED BY <2>1, <2>2, <2>4, <3>1, <3>2
  <2>6. \A s \in Slots : s # RecordIdx(hdr) => data'[s] = data[s] /\ vals'[s] = vals[s]
    BY <1>1, <1>4, WrittenSlots
  <2>7. \A k \in DOMAIN view : /\ view[k].ts = data'[SlotAt(q.hdr, k)]
                               /\ view[k].val = vals'[SlotAt(q.hdr, k)]
    BY <2>1, <2>5, <2>6
  <2>8. q.hdr.max = hdr'.max /\ q.hdr.total <= hdr'.total
    BY <2>1, <2>2, <2>3
  <2> QED BY <1>2, <2>1, <2>7, <2>8 DEF ViewInv
<1> QED BY <1>3, <1>4

LEMMA WindowWrite ==
  ASSUME CellInv, CellInv', WindowInv, Write, "nestedring" \notin Env
  PROVE  WindowInv'
<1>1. OrderInv' /\ ViewInv'
  BY OrderWrite, ViewWrite DEF WindowInv
<1>2. UNCHANGED <<pc, q, seek, out, view, status>> /\ Matching' = Matching
  BY DEF Write, Matching
<1>3. BufferInv' /\ SeekInv' /\ ScanInv'
  BY <1>2 DEF WindowInv, BufferInv, SeekInv, ScanInv
<1> QED BY <1>1, <1>3 DEF WindowInv

LEMMA WindowInit == Init => WindowInv
<1> SUFFICES ASSUME Init PROVE WindowInv
  OBVIOUS
<1>1. PICK m \in Capacities : hdr = EmptyHeader(m)
  BY DEF Init
<1>2. m \in 0 .. MaxSlots
  BY QueryAssumption
<1>3. Available(hdr) = 0 /\ hdr.newestTs = 0
  BY <1>1, <1>2, EmptyRing DEF EmptyHeader
<1>4. Available(q.hdr) = 0 /\ ~q.loaded
  BY NoQueryCursor DEF Init
<1>5. OrderInv
  BY <1>3 DEF OrderInv, Init, NoBuffer
<1>6. DOMAIN view = {} /\ 1 .. 0 = {} /\ out = << >> /\ DOMAIN out = {}
  BY DEF Init
<1>7. ViewInv
  BY <1>4, <1>6 DEF ViewInv, Init
<1>8. Matching = {}
  BY <1>6 DEF Matching
<1>9. BufferInv /\ SeekInv
  BY <1>4 DEF BufferInv, SeekInv, Init
<1>10. ScanInv
  BY <1>6, <1>8 DEF ScanInv
<1> QED BY <1>5, <1>7, <1>9, <1>10 DEF WindowInv

-----------------------------------------------------------------------------
(* The bisection *)

LEMMA WindowQueryInit ==
  ASSUME CellInv, CellInv', WindowInv, QueryInit
  PROVE  WindowInv'
<1>1. /\ view' = Records /\ out' = << >> /\ status' = "running"
      /\ UNCHANGED <<data, vals, hdr>> /\ seek'.lo = 0
  BY DEF QueryInit
<1>2. RingHeader(hdr) /\ hdr \in Header
  BY DEF CellInv, RingHeader
<1>3. q'.hdr = hdr /\ q'.loaded = FALSE /\ q'.scanned = 0
  <2> DEFINE f == FirstSlot(hdr)
             b == Block(f)
  <2>1. PICK start \in 0 .. MaxTs, end \in 0 .. MaxTs :
          q' = [NoQuery EXCEPT !.start = start, !.end = end, !.hdr = hdr,
                               !.slot = f, !.block = b]
    BY DEF QueryInit
  <2> HIDE DEF f, b
  <2> QED BY <2>1, NoQueryFields DEF Iterator
<1>4. Available(hdr) \in Nat
  BY <1>2, HeaderNumbers
<1>5. /\ DOMAIN view' = 1 .. Available(hdr)
      /\ \A k \in 1 .. Available(hdr) : /\ view'[k].ts = data[SlotAt(hdr, k)]
                                        /\ view'[k].val = vals[SlotAt(hdr, k)]
  BY <1>1 DEF Records, SlotAt
<1>6. OrderInv'
  BY <1>1 DEF WindowInv, OrderInv
<1>7. ViewInv'
  <2>1. hdr.total <= hdr.total
    BY <1>2, HeaderNumbers
  <2>2. \A i, j \in 1 .. Available(hdr) :
          i < j /\ view'[i].ts # 0 /\ view'[j].ts # 0 => view'[i].ts <= view'[j].ts
    BY <1>5 DEF WindowInv, OrderInv
  <2> QED BY <1>1, <1>3, <1>5, <2>1, <2>2 DEF ViewInv
<1>8. BufferInv'
  BY <1>3 DEF BufferInv
<1>9. \A k \in Matching' : k \in Nat /\ k > 0
  BY <1>4, <1>5 DEF Matching
<1>10. SeekInv'
  BY <1>1, <1>3, <1>9 DEF SeekInv
<1>11. ScanInv'
  <2>1. DOMAIN out' = {} /\ out' \in Seq([pos : Nat, ts : Nat, val : Values \cup {0}])
    BY <1>1
  <2>2. \A k \in Matching' : ~(k <= q'.scanned)
    BY <1>3, <1>9
  <2> QED BY <1>1, <2>1, <2>2 DEF ScanInv
<1> QED BY <1>6, <1>7, <1>8, <1>10, <1>11 DEF WindowInv

(* A step that leaves the database, the window and the records of the      *)
(* query alone.                                                            *)
LEMMA RecordsKept ==
  ASSUME WindowInv, UNCHANGED <<data, vals, hdr, view>>, q'.hdr = q.hdr,
         q'.start = q.start, q'.end = q.end, pc # "none"
  PROVE  OrderInv' /\ ViewInv' /\ Matching' = Matching
<1>1. OrderInv'
  BY DEF WindowInv, OrderInv
<1>2. ViewInv'
  BY DEF WindowInv, ViewInv
<1>3. Matching' = Matching
  BY DEF Matching
<1> QED BY <1>1, <1>2, <1>3

(* The seek ends at a position before which there is nothing to return. *)
LEMMA WindowStart ==
  ASSUME CellInv, WindowInv, pc = "seek", NEW n \in Nat, n <= seek.lo, n <= Available(q.hdr),
         StartAt(n), UNCHANGED <<data, vals, hdr, out, view, status>>
  PROVE  WindowInv'
<1>1. /\ q'.hdr = q.hdr /\ q'.scanned = n /\ q'.start = q.start /\ q'.end = q.end
      /\ q'.loaded = q.loaded /\ pc' = "open"
  BY StartInside
<1>2. ~q.loaded /\ out = << >> /\ status = "running" /\ \A k \in Matching : k > seek.lo
  BY DEF WindowInv, SeekInv
<1>3. OrderInv' /\ ViewInv' /\ Matching' = Matching
  BY <1>1, RecordsKept
<1>4. BufferInv' /\ SeekInv'
  BY <1>1, <1>2 DEF BufferInv, SeekInv
<1>5. ScanInv'
  <2>1. DOMAIN out' = {} /\ out' \in Seq([pos : Nat, ts : Nat, val : Values \cup {0}])
    BY <1>2
  <2>2. \A k \in Matching : k \in Nat /\ seek.lo \in Nat
    <3>1. DOMAIN view = 1 .. Available(q.hdr) /\ seek \in [lo : Nat, hi : Nat]
      BY DEF WindowInv, ViewInv, CellInv, CursorInv
    <3> QED BY <3>1 DEF Matching
  <2>3. \A k \in Matching : ~(k <= n)
    BY <1>2, <2>2
  <2> QED BY <1>1, <1>2, <1>3, <2>1, <2>3 DEF ScanInv
<1> QED BY <1>3, <1>4, <1>5 DEF WindowInv

LEMMA WindowProbe ==
  ASSUME CellInv, CellInv', WindowInv, Probe
  PROVE  WindowInv'
<1> DEFINE mid == seek.lo + (seek.hi - seek.lo) \div 2
           ts  == data[PhysicalIdx(q.hdr, mid)]
<1>1. /\ RingHeader(q.hdr) /\ q \in Iterator /\ pc = "seek" /\ seek \in [lo : Nat, hi : Nat]
      /\ seek.hi <= Available(q.hdr) /\ seek.lo < seek.hi
      /\ data \in [Slots -> 0 .. MaxTs] /\ MaxTs \in Nat
      /\ UNCHANGED <<data, vals, hdr, out, view, status>>
  BY QueryAssumption DEF CellInv, TypeOK, CursorInv, Probe
<1>2. mid \in Nat /\ seek.lo <= mid /\ mid < seek.hi
  BY <1>1, Middle
<1>3. \/ StartAt(0)
      \/ ts # 0 /\ ts < q.start /\ seek' = [seek EXCEPT !.lo = mid + 1] /\ UNCHANGED <<pc, q>>
      \/ seek' = [seek EXCEPT !.hi = mid] /\ UNCHANGED <<pc, q>>
  BY Zenon DEF Probe, BeforeWindow
<1>4. Available(q.hdr) \in Nat
  BY <1>1, HeaderNumbers
<1>5. PhysicalIdx(q.hdr, mid) = SlotAt(q.hdr, mid + 1)
  BY <1>2 DEF SlotAt
<1>6. ts = data[SlotAt(q.hdr, mid + 1)]
  BY <1>5
<1> HIDE DEF mid, ts
<1>7. CASE StartAt(0)
  BY <1>1, <1>4, <1>7, WindowStart
<1>8. CASE ts # 0 /\ ts < q.start /\ seek' = [seek EXCEPT !.lo = mid + 1] /\ UNCHANGED <<pc, q>>
  <2>1. seek'.lo = mid + 1 /\ mid + 1 \in 1 .. Available(q.hdr)
    BY <1>1, <1>2, <1>4, <1>8
  <2>2. /\ DOMAIN view = 1 .. Available(q.hdr) /\ view[mid + 1].ts = ts
        /\ \A i, j \in DOMAIN view :
             i < j /\ view[i].ts # 0 /\ view[j].ts # 0 => view[i].ts <= view[j].ts
        /\ \A k \in DOMAIN view : view[k].ts = data[SlotAt(q.hdr, k)]
    BY <1>1, <1>6, <2>1 DEF WindowInv, ViewInv
  <2>3. \A k \in DOMAIN view : view[k].ts \in Nat
    <3> SUFFICES ASSUME NEW k \in DOMAIN view PROVE view[k].ts \in Nat
      OBVIOUS
    <3>1. SlotAt(q.hdr, k) \in Slots
      BY <1>1, <2>2, RecordSlots
    <3> QED BY <1>1, <2>2, <3>1
  <2>4. ASSUME NEW k \in Matching PROVE k > mid + 1
    <3>1. /\ k \in DOMAIN view /\ view[k].ts # 0 /\ q.start <= view[k].ts
          /\ k \in Nat /\ view[k].ts \in Nat /\ ts \in Nat /\ q.start \in Nat
      BY <1>1, <1>4, <2>1, <2>2, <2>3, MatchingMember DEF Iterator
    <3>2. k # mid + 1
      BY <1>8, <2>2, <3>1
    <3>3. ~(k < mid + 1)
      <4>1. k < mid + 1 => view[k].ts <= ts
        BY <1>8, <2>1, <2>2, <3>1
      <4> QED BY <1>8, <3>1, <4>1
    <3> QED BY <1>2, <3>1, <3>2, <3>3
  <2>5. OrderInv' /\ ViewInv' /\ Matching' = Matching
    BY <1>1, <1>8, RecordsKept
  <2>6. BufferInv' /\ ScanInv'
    BY <1>1, <1>8, <2>5 DEF WindowInv, BufferInv, ScanInv
  <2>7. SeekInv'
    BY <1>1, <1>8, <2>1, <2>4, <2>5 DEF WindowInv, SeekInv
  <2> QED BY <2>5, <2>6, <2>7 DEF WindowInv
<1>9. CASE seek' = [seek EXCEPT !.hi = mid] /\ UNCHANGED <<pc, q>>
  <2>1. seek'.lo = seek.lo
    BY <1>1, <1>9
  <2>2. OrderInv' /\ ViewInv' /\ Matching' = Matching
    BY <1>1, <1>9, RecordsKept
  <2>3. BufferInv' /\ ScanInv'
    BY <1>1, <1>9, <2>2 DEF WindowInv, BufferInv, ScanInv
  <2>4. SeekInv'
    BY <1>1, <1>9, <2>1, <2>2 DEF WindowInv, SeekInv
  <2> QED BY <2>2, <2>3, <2>4 DEF WindowInv
<1> QED BY <1>3, <1>7, <1>8, <1>9

LEMMA WindowSeekReturns ==
  ASSUME CellInv, WindowInv, SeekReturns
  PROVE  WindowInv'
<1>1. /\ RingHeader(q.hdr) /\ pc = "seek" /\ seek \in [lo : Nat, hi : Nat]
      /\ seek.lo <= seek.hi /\ seek.hi <= Available(q.hdr)
      /\ UNCHANGED <<data, vals, hdr, out, view, status>> /\ StartAt(seek.lo)
  BY DEF CellInv, CursorInv, SeekReturns
<1>2. Available(q.hdr) \in Nat
  BY <1>1, HeaderNumbers
<1>3. seek.lo \in Nat /\ seek.lo <= seek.lo /\ seek.lo <= Available(q.hdr)
  BY <1>1, <1>2
<1> QED BY <1>1, <1>3, WindowStart

-----------------------------------------------------------------------------
(* The scan *)

LEMMA WindowQueryClose ==
  ASSUME WindowInv, QueryClose
  PROVE  WindowInv'
<1>1. /\ q' = NoQuery /\ view' = << >> /\ out' = << >> /\ status' = "running" /\ pc' = "none"
      /\ UNCHANGED <<data, vals, hdr>>
  BY DEF QueryClose
<1>2. Available(q'.hdr) = 0 /\ ~q'.loaded
  BY <1>1, NoQueryCursor
<1>3. DOMAIN view' = {} /\ 1 .. 0 = {} /\ DOMAIN out' = {}
  BY <1>1
<1>4. Matching' = {}
  BY <1>3 DEF Matching
<1>5. OrderInv' /\ ViewInv'
  BY <1>1, <1>2, <1>3 DEF WindowInv, OrderInv, ViewInv
<1>6. BufferInv' /\ SeekInv'
  BY <1>1, <1>2 DEF BufferInv, SeekInv
<1>7. ScanInv'
  BY <1>1, <1>3, <1>4 DEF ScanInv
<1> QED BY <1>5, <1>6, <1>7 DEF WindowInv

(* The steps that leave the cursor alone; an end is only reported when no  *)
(* record is left.                                                         *)
LEMMA WindowCursorKept ==
  ASSUME WindowInv, UNCHANGED <<data, vals, hdr, q, out, view>>,
         pc \in {"open", "scan"}, pc' \in {"open", "scan"},
         status' = status \/ status' = "failed" \/ (\A k \in Matching : k <= q.scanned)
  PROVE  WindowInv'
<1>1. OrderInv' /\ ViewInv' /\ Matching' = Matching
  BY RecordsKept
<1>2. BufferInv' /\ SeekInv'
  BY DEF WindowInv, BufferInv, SeekInv
<1>3. ScanInv'
  BY <1>1 DEF WindowInv, ScanInv
<1> QED BY <1>1, <1>2, <1>3 DEF WindowInv

LEMMA WindowExhausted ==
  ASSUME CellInv, WindowInv, Exhausted
  PROVE  WindowInv'
<1>1. /\ pc = "scan" /\ pc' = "open" /\ q.scanned >= Available(q.hdr) /\ q \in Iterator
      /\ UNCHANGED <<data, vals, hdr, q, out, view>> /\ RingHeader(q.hdr)
  BY DEF Exhausted, NotFound, CellInv, TypeOK, CursorInv
<1>2. Available(q.hdr) \in Nat /\ q.scanned \in Nat
  BY <1>1, HeaderNumbers DEF Iterator
<1>3. DOMAIN view = 1 .. Available(q.hdr)
  BY DEF WindowInv, ViewInv
<1>4. \A k \in Matching : k <= q.scanned
  BY <1>1, <1>2, <1>3 DEF Matching
<1> QED BY <1>1, <1>4, WindowCursorKept

(* The record under the cursor comes out of the buffer as it was when the  *)
(* query began.                                                            *)
LEMMA BufferTrue ==
  ASSUME CellInv, WindowInv, pc = "scan", NEW k \in DOMAIN view,
         Block(SlotAt(q.hdr, k)) = q.block
  PROVE  /\ Loaded.ts[SlotAt(q.hdr, k)] = view[k].ts
         /\ Loaded.val[SlotAt(q.hdr, k)] = view[k].val
<1> DEFINE s == SlotAt(q.hdr, k)
<1>1. /\ DOMAIN view = 1 .. Available(q.hdr)
      /\ view[k].ts = data[s] /\ view[k].val = vals[s]
  BY DEF WindowInv, ViewInv
<1>2. s \in Slots
  BY <1>1, RecordSlots DEF CellInv, CursorInv
<1>3. Block(s) = q.block
  OBVIOUS
<1>4. q.loaded => q.ts[s] = view[k].ts /\ q.val[s] = view[k].val
  BY DEF WindowInv, BufferInv
<1> HIDE DEF s
<1>5. CASE q.loaded
  <2>1. Loaded.ts = q.ts /\ Loaded.val = q.val
    BY <1>5, LoadedFields
  <2> QED BY <1>4, <1>5, <2>1 DEF s
<1>6. CASE ~q.loaded
  <2>1. /\ Loaded.ts = [x \in Slots |-> IF Block(x) = q.block THEN data[x] ELSE 0]
        /\ Loaded.val = [x \in Slots |-> IF Block(x) = q.block THEN vals[x] ELSE 0]
    BY <1>6, LoadedFields
  <2>2. Loaded.ts[s] = data[s] /\ Loaded.val[s] = vals[s]
    BY <1>2, <1>3, <2>1
  <2> QED BY <1>1, <2>2 DEF s
<1> QED BY <1>5, <1>6

(* What a step of the scan does, said of the records of the query. *)
LEMMA ScanReads ==
  ASSUME CellInv, WindowInv, ScanSlot
  PROVE  LET n == q.scanned + 1 IN
         /\ n \in DOMAIN view /\ n \in Nat /\ q.scanned \in Nat
         /\ q.slot = SlotAt(q.hdr, n) /\ Block(q.slot) = q.block
         /\ view[n].ts \in Nat /\ view[n].val \in Values \cup {0}
         /\ \/ /\ n \notin Matching
               /\ UNCHANGED <<pc, acc, out, status>>
            \/ /\ view[n].ts # 0 /\ view[n].ts > q.end
               /\ pc' = "open" /\ status' = "ended" /\ UNCHANGED <<acc, out>>
            \/ /\ n \in Matching
               /\ out' = Append(out, [pos |-> n, ts |-> view[n].ts, val |-> view[n].val])
               /\ acc' = Accumulated(acc, view[n].val)
               /\ pc' = "open" /\ UNCHANGED status
<1> DEFINE n == q.scanned + 1
           ts == Loaded.ts[q.slot]
           v == Loaded.val[q.slot]
<1>1. /\ pc = "scan" /\ q.scanned < Available(q.hdr) /\ RingHeader(q.hdr)
      /\ q.slot = PhysicalIdx(q.hdr, q.scanned) /\ q.block = Block(q.slot)
      /\ data \in [Slots -> 0 .. MaxTs] /\ vals \in [Slots -> Values \cup {0}]
      /\ q.scanned \in Nat /\ q.start \in Nat /\ q.end \in Nat /\ MaxTs \in Nat
  BY QueryAssumption DEF ScanSlot, CellInv, TypeOK, CursorInv, Iterator
<1>2. /\ DOMAIN view = 1 .. Available(q.hdr)
      /\ \A k \in DOMAIN view : /\ view[k].ts = data[SlotAt(q.hdr, k)]
                                /\ view[k].val = vals[SlotAt(q.hdr, k)]
  BY <1>1 DEF WindowInv, ViewInv
<1>3. n \in DOMAIN view /\ n \in Nat
  <2>1. Available(q.hdr) \in Nat
    BY <1>1, HeaderNumbers
  <2> QED BY <1>1, <1>2, <2>1
<1>4. q.slot = SlotAt(q.hdr, n)
  <2>1. n - 1 = q.scanned
    BY <1>1
  <2> QED BY <1>1, <2>1 DEF SlotAt
<1>5. view[n].ts \in Nat /\ view[n].val \in Values \cup {0}
  <2>1. q.slot \in Slots
    BY <1>1, SlotsExist
  <2> QED BY <1>1, <1>2, <1>3, <1>4, <2>1
<1>6. ts = view[n].ts /\ v = view[n].val
  BY <1>1, <1>3, <1>4, BufferTrue
<1>7. \/ /\ ts = 0 \/ (ts <= q.end /\ ts < q.start)
         /\ UNCHANGED <<pc, acc, out, status>>
      \/ /\ ts # 0 /\ ts > q.end
         /\ pc' = "open" /\ status' = "ended" /\ UNCHANGED <<acc, out>>
      \/ /\ InWindow(q.start, q.end, ts)
         /\ out' = Append(out, [pos |-> n, ts |-> ts, val |-> v])
         /\ acc' = Accumulated(acc, v)
         /\ pc' = "open"
         /\ UNCHANGED status
  BY Zenon DEF ScanSlot, NotFound
<1> HIDE DEF ts, v
<1>8. n \in Matching <=> InWindow(q.start, q.end, ts)
  BY <1>3, <1>6 DEF Matching
<1>9. InWindow(q.start, q.end, ts) <=> ts # 0 /\ q.start <= ts /\ ts <= q.end
  BY DEF InWindow
<1>10. ts = 0 \/ (ts <= q.end /\ ts < q.start) => n \notin Matching
  BY <1>1, <1>5, <1>6, <1>8, <1>9
<1>11. Block(q.slot) = q.block
  BY <1>1
<1> HIDE DEF n
<1>12. \/ n \notin Matching /\ UNCHANGED <<pc, acc, out, status>>
       \/ /\ view[n].ts # 0 /\ view[n].ts > q.end
          /\ pc' = "open" /\ status' = "ended" /\ UNCHANGED <<acc, out>>
       \/ /\ n \in Matching
          /\ out' = Append(out, [pos |-> n, ts |-> view[n].ts, val |-> view[n].val])
          /\ acc' = Accumulated(acc, view[n].val)
          /\ pc' = "open" /\ UNCHANGED status
  BY <1>6, <1>7, <1>8, <1>10, Zenon
<1> QED BY <1>1, <1>3, <1>4, <1>5, <1>11, <1>12 DEF n

LEMMA BufferScan ==
  ASSUME CellInv, WindowInv, ScanSlot
  PROVE  BufferInv'
<1>1. /\ q'.hdr = q.hdr /\ q'.loaded = (q'.block = q.block)
      /\ q'.ts = Loaded.ts /\ q'.val = Loaded.val
  BY ScanMoves
<1>2. view' = view /\ pc = "scan"
  BY DEF ScanSlot
<1>3. ASSUME NEW k \in DOMAIN view, q'.loaded, Block(SlotAt(q.hdr, k)) = q'.block
      PROVE  q'.ts[SlotAt(q.hdr, k)] = view[k].ts /\ q'.val[SlotAt(q.hdr, k)] = view[k].val
  <2>1. Block(SlotAt(q.hdr, k)) = q.block
    BY <1>1, <1>3
  <2> QED BY <1>1, <1>2, <2>1, BufferTrue
<1> QED BY <1>1, <1>2, <1>3 DEF BufferInv

(* The three outcomes of a step of the scan: the record is passed over,    *)
(* ends the scan, or is returned.                                          *)
LEMMA ScanScan ==
  ASSUME CellInv, WindowInv, ScanSlot
  PROVE  ScanInv'
<1> DEFINE n == q.scanned + 1
<1>1. /\ q'.scanned = q.scanned + 1 /\ q'.start = q.start /\ q'.end = q.end
  BY ScanMoves
<1>2. /\ n \in DOMAIN view /\ n \in Nat /\ q.scanned \in Nat
      /\ view[n].ts \in Nat /\ view[n].val \in Values \cup {0}
      /\ \/ n \notin Matching /\ UNCHANGED <<out, status>>
         \/ /\ view[n].ts # 0 /\ view[n].ts > q.end
            /\ status' = "ended" /\ UNCHANGED out
         \/ /\ n \in Matching
            /\ out' = Append(out, [pos |-> n, ts |-> view[n].ts, val |-> view[n].val])
            /\ UNCHANGED status
  BY ScanReads
<1>3. /\ view' = view /\ pc = "scan" /\ Matching' = Matching
  BY <1>1 DEF ScanSlot, Matching
<1>4. /\ out \in Seq([pos : Nat, ts : Nat, val : Values \cup {0}])
      /\ \A i \in DOMAIN out :
           /\ out[i].pos \in Matching
           /\ out[i].pos <= q.scanned
           /\ out[i].ts = view[out[i].pos].ts
           /\ out[i].val = view[out[i].pos].val
      /\ \A i, j \in DOMAIN out : i < j => out[i].pos < out[j].pos
      /\ \A k \in Matching : k <= q.scanned => \E i \in DOMAIN out : out[i].pos = k
      /\ status = "ended" => \A k \in Matching : k <= q.scanned
  BY <1>3 DEF WindowInv, ScanInv
<1>5. \A k \in Matching : k \in Nat
  BY DEF WindowInv, ViewInv, Matching
<1>6. \A i \in DOMAIN out : out[i].pos \in Nat /\ out[i].pos <= n
  BY <1>2, <1>4, <1>5
<1>7. status = "ended" => \A k \in Matching : k <= n
  BY <1>2, <1>4, <1>5
<1>8. q'.scanned = n
  BY <1>1
<1>9. \A k \in Matching : k <= n => k <= q.scanned \/ k = n
  BY <1>2, <1>5
<1> HIDE DEF n
<1>10. CASE n \notin Matching /\ UNCHANGED <<out, status>>
  <2>1. \A k \in Matching : k <= n => \E i \in DOMAIN out : out[i].pos = k
    BY <1>4, <1>9, <1>10
  <2> QED BY <1>3, <1>4, <1>6, <1>7, <1>8, <1>10, <2>1, Zenon DEF ScanInv
<1>11. CASE view[n].ts # 0 /\ view[n].ts > q.end /\ status' = "ended" /\ UNCHANGED out
  <2>1. \A k \in Matching : k <= n
    <3> SUFFICES ASSUME NEW k \in Matching PROVE k <= n
      OBVIOUS
    <3>1. k \in DOMAIN view /\ k \in Nat /\ view[k].ts # 0 /\ view[k].ts <= q.end
      BY <1>5, MatchingMember
    <3>2. n < k => view[n].ts <= view[k].ts
      BY <1>2, <1>3, <1>11, <3>1 DEF WindowInv, ViewInv
    <3>3. view[k].ts \in Nat /\ q.end \in Nat
      <4>1. /\ RingHeader(q.hdr) /\ data \in [Slots -> 0 .. MaxTs] /\ MaxTs \in Nat
            /\ q \in Iterator
        BY QueryAssumption DEF CellInv, TypeOK, CursorInv
      <4>2. view[k].ts = data[SlotAt(q.hdr, k)] /\ k \in 1 .. Available(q.hdr)
        BY <1>3, <3>1 DEF WindowInv, ViewInv
      <4>3. SlotAt(q.hdr, k) \in Slots
        BY <4>1, <4>2, RecordSlots
      <4> QED BY <4>1, <4>2, <4>3 DEF Iterator
    <3> QED BY <1>2, <1>11, <3>1, <3>2, <3>3
  <2>2. n \notin Matching
    <3>1. q.end \in Nat
      BY DEF CellInv, TypeOK, Iterator
    <3> QED BY <1>2, <1>11, <3>1, MatchingMember
  <2>3. \A k \in Matching : k <= n => \E i \in DOMAIN out : out[i].pos = k
    BY <1>4, <1>9, <2>2
  <2> QED BY <1>3, <1>4, <1>6, <1>8, <1>11, <2>1, <2>3, Zenon DEF ScanInv
<1>12. CASE /\ n \in Matching
            /\ out' = Append(out, [pos |-> n, ts |-> view[n].ts, val |-> view[n].val])
            /\ UNCHANGED status
  <2> DEFINE R == [pos : Nat, ts : Nat, val : Values \cup {0}]
             r == [pos |-> n, ts |-> view[n].ts, val |-> view[n].val]
             l == Len(out)
  <2>1. out \in Seq(R) /\ r \in R
    BY <1>2, <1>4
  <2>2. r.pos = n /\ r.ts = view[n].ts /\ r.val = view[n].val
    OBVIOUS
  <2>3. out' = Append(out, r)
    BY <1>12
  <2> HIDE DEF R, r
  <2>4. /\ l \in Nat /\ DOMAIN out = 1 .. l /\ out' \in Seq(R) /\ DOMAIN out' = 1 .. l + 1
        /\ \A i \in 1 .. l : out'[i] = out[i]
        /\ out'[l + 1] = r
    BY <2>1, <2>3
  <2> HIDE DEF l
  <2>5. \A i \in DOMAIN out' : i \in DOMAIN out \/ i = l + 1
    BY <2>4
  <2>6. DOMAIN out \subseteq DOMAIN out' /\ l + 1 \in DOMAIN out'
    BY <2>4
  <2>7. \A i \in DOMAIN out' :
          /\ out'[i].pos \in Matching
          /\ out'[i].pos <= n
          /\ out'[i].ts = view[out'[i].pos].ts
          /\ out'[i].val = view[out'[i].pos].val
    <3> SUFFICES ASSUME NEW i \in DOMAIN out'
                 PROVE  /\ out'[i].pos \in Matching /\ out'[i].pos <= n
                        /\ out'[i].ts = view[out'[i].pos].ts
                        /\ out'[i].val = view[out'[i].pos].val
      OBVIOUS
    <3>1. CASE i \in DOMAIN out
      <4>1. out'[i] = out[i]
        BY <2>4, <3>1
      <4> QED BY <1>4, <1>6, <3>1, <4>1
    <3>2. CASE i = l + 1
      <4>1. n <= n
        BY <1>2
      <4>2. out'[i].pos = n /\ out'[i].ts = view[n].ts /\ out'[i].val = view[n].val
        BY <2>2, <2>4, <3>2
      <4>3. n \in Matching
        BY <1>12
      <4> QED BY <4>1, <4>2, <4>3, Zenon
    <3> QED BY <2>5, <3>1, <3>2
  <2>8. \A i, j \in DOMAIN out' : i < j => out'[i].pos < out'[j].pos
    <3> SUFFICES ASSUME NEW i \in DOMAIN out', NEW j \in DOMAIN out', i < j
                 PROVE  out'[i].pos < out'[j].pos
      OBVIOUS
    <3>1. i \in 1 .. l /\ out'[i] = out[i]
      BY <2>4
    <3>2. CASE j \in 1 .. l
      BY <1>4, <2>4, <3>1, <3>2
    <3>3. CASE j = l + 1
      <4>1. out[i].pos <= q.scanned /\ out[i].pos \in Nat /\ out'[j].pos = n
        BY <1>4, <1>6, <2>2, <2>4, <3>1, <3>3
      <4> QED BY <1>2, <3>1, <4>1 DEF n
    <3> QED BY <2>4, <3>2, <3>3
  <2>9. \A k \in Matching : k <= n => \E i \in DOMAIN out' : out'[i].pos = k
    <3> SUFFICES ASSUME NEW k \in Matching, k <= n
                 PROVE  \E i \in DOMAIN out' : out'[i].pos = k
      OBVIOUS
    <3>1. CASE k <= q.scanned
      <4>1. PICK i \in DOMAIN out : out[i].pos = k
        BY <1>4, <3>1
      <4>2. i \in DOMAIN out' /\ out'[i].pos = k
        BY <2>4, <2>6, <4>1
      <4> QED BY <4>2
    <3>2. CASE k = n
      BY <2>2, <2>4, <2>6, <3>2
    <3> QED BY <1>9, <3>1, <3>2
  <2>10. out' \in Seq([pos : Nat, ts : Nat, val : Values \cup {0}])
    BY <2>4 DEF R
  <2>11. status' = status
    BY <1>12
  <2> QED BY <1>3, <1>7, <1>8, <2>7, <2>8, <2>9, <2>10, <2>11, Zenon DEF ScanInv
<1> QED BY <1>2, <1>10, <1>11, <1>12 DEF n

LEMMA WindowScanSlot ==
  ASSUME CellInv, WindowInv, ScanSlot
  PROVE  WindowInv'
<1>1. q'.hdr = q.hdr /\ q'.start = q.start /\ q'.end = q.end
  BY ScanMoves
<1>2. UNCHANGED <<data, vals, hdr, view>> /\ pc = "scan"
  BY DEF ScanSlot
<1>3. OrderInv' /\ ViewInv'
  BY <1>1, <1>2, RecordsKept
<1>4. pc' # "seek"
  BY <1>2, Zenon DEF ScanSlot, NotFound
<1>5. SeekInv'
  BY <1>4 DEF SeekInv
<1> QED BY <1>3, <1>5, BufferScan, ScanScan DEF WindowInv

LEMMA WindowStep ==
  ASSUME "nestedring" \notin Env
  PROVE  CellInv /\ WindowInv /\ [Next]_vars => WindowInv'
<1> SUFFICES ASSUME CellInv, WindowInv, [Next]_vars PROVE WindowInv'
  OBVIOUS
<1>0. CellInv'
  BY CellStep
<1>1. CASE Write
  BY <1>0, <1>1, WindowWrite
<1>2. CASE QueryInit
  BY <1>0, <1>2, WindowQueryInit
<1>3. CASE Probe
  BY <1>0, <1>3, WindowProbe
<1>4. CASE SeekReturns
  BY <1>4, WindowSeekReturns
<1>5. CASE QueryNext
  BY <1>5, WindowCursorKept DEF QueryNext
<1>6. CASE QueryClose
  BY <1>6, WindowQueryClose
<1>7. CASE Exhausted
  BY <1>7, WindowExhausted
<1>8. CASE BlockUnreadable
  BY <1>8, WindowCursorKept DEF BlockUnreadable, NotFound
<1>9. CASE ScanSlot
  BY <1>9, WindowScanSlot
<1>10. CASE UNCHANGED vars
  BY <1>10 DEF vars, WindowInv, OrderInv, ViewInv, BufferInv, SeekInv, ScanInv, Matching
<1> QED BY <1>1, <1>2, <1>3, <1>4, <1>5, <1>6, <1>7, <1>8, <1>9, <1>10 DEF Next

(* In a state of the walk the records returned are the first of the        *)
(* window; the bisection's states have returned nothing.                   *)
LEMMA WindowExact ==
  ASSUME CellInv, WindowInv
  PROVE  QueryExact
<1>1. /\ \A i \in DOMAIN out :
           /\ out[i].pos \in Matching
           /\ out[i].pos <= q.scanned
           /\ out[i].ts = view[out[i].pos].ts
           /\ out[i].val = view[out[i].pos].val
      /\ \A i, j \in DOMAIN out : i < j => out[i].pos < out[j].pos
      /\ pc # "seek" => \A k \in Matching :
           k <= q.scanned => \E i \in DOMAIN out : out[i].pos = k
      /\ status = "ended" => \A k \in Matching : k <= q.scanned
  BY DEF WindowInv, ScanInv
<1>2. \A k \in Matching : k \in Nat
  BY DEF WindowInv, ViewInv, Matching
<1>3. q.scanned \in Nat
  BY DEF CellInv, TypeOK, Iterator
<1>4. ASSUME NEW k \in Matching,
             (\E i \in DOMAIN out : k <= out[i].pos) \/ status = "ended"
      PROVE  \E i \in DOMAIN out : out[i].pos = k
  <2>1. pc # "seek"
    <3>1. pc = "seek" => DOMAIN out = {} /\ status = "running"
      BY DEF WindowInv, SeekInv
    <3> QED BY <1>4, <3>1
  <2>2. k <= q.scanned
    <3>1. CASE status = "ended"
      BY <1>1, <3>1
    <3>2. CASE \E i \in DOMAIN out : k <= out[i].pos
      <4>1. PICK i \in DOMAIN out : k <= out[i].pos
        BY <3>2
      <4>2. out[i].pos \in Nat /\ out[i].pos <= q.scanned /\ k \in Nat
        BY <1>1, <1>2
      <4> QED BY <1>3, <4>1, <4>2
    <3> QED BY <1>4, <3>1, <3>2
  <2> QED BY <1>1, <2>1, <2>2
<1> QED BY <1>1, <1>4 DEF QueryExact

(* tsdb_query_next returns the records of its window, all of them, each    *)
(* once and in order, for every capacity, block size and window, after any *)
(* number of laps of the ring, with holes and unreadable blocks.  Only     *)
(* writes into a ring while it is being read are excluded.                 *)
THEOREM QueryIsExact == "nestedring" \notin Env => (Spec => []QueryExact)
<1> SUFFICES ASSUME "nestedring" \notin Env PROVE Spec => []QueryExact
  OBVIOUS
<1> DEFINE J == CellInv /\ WindowInv
<1>1. Init => J
  BY CellInit, WindowInit
<1>2. J /\ [Next]_vars => J'
  BY CellStep, WindowStep
<1>3. J => QueryExact
  BY WindowExact
<1> HIDE DEF J
<1> QED BY <1>1, <1>2, <1>3, PTL DEF Spec

-----------------------------------------------------------------------------
(* Aggregates *)

LEMMA ValueNumbers ==
  ASSUME NEW v \in Values \cup {0}
  PROVE  v \in Int /\ MinInt <= v /\ v <= MaxInt
  BY QueryAssumption DEF MinInt

LEMMA AccInit == Init => AccInv
<1> SUFFICES ASSUME Init PROVE AccInv
  OBVIOUS
<1>1. out = << >> /\ acc = NoRecords /\ DOMAIN out = {} /\ Len(out) = 0
  BY DEF Init
<1>2. acc.count = 0
  BY <1>1 DEF NoRecords
<1> QED BY <1>1, <1>2, Zenon DEF AccInv

LEMMA AccStart ==
  ASSUME out' = << >>, acc' = NoRecords
  PROVE  AccInv'
<1>1. DOMAIN out' = {} /\ Len(out') = 0
  OBVIOUS
<1>2. acc'.count = 0
  BY DEF NoRecords
<1> QED BY <1>1, <1>2, Zenon DEF AccInv

LEMMA AccScanSlot ==
  ASSUME CellInv, WindowInv, AccInv, ScanSlot
  PROVE  AccInv'
<1> DEFINE n == q.scanned + 1
           v == view[n].val
<1>1. /\ v \in Values \cup {0} /\ n \in Nat /\ view[n].ts \in Nat
      /\ \/ UNCHANGED <<acc, out>>
         \/ /\ out' = Append(out, [pos |-> n, ts |-> view[n].ts, val |-> v])
            /\ acc' = Accumulated(acc, v)
  BY ScanReads
<1>2. CASE UNCHANGED <<acc, out>>
  BY <1>2 DEF AccInv
<1>3. CASE /\ out' = Append(out, [pos |-> n, ts |-> view[n].ts, val |-> v])
           /\ acc' = Accumulated(acc, v)
  <2> DEFINE R == [pos : Nat, ts : Nat, val : Values \cup {0}]
             r == [pos |-> n, ts |-> view[n].ts, val |-> v]
             l == Len(out)
  <2>1. out \in Seq(R) /\ r \in R
    BY <1>1 DEF WindowInv, ScanInv
  <2>2. r.val = v /\ out' = Append(out, r)
    BY <1>3
  <2>3. \A i \in DOMAIN out : out[i].val \in Values \cup {0}
    <3>1. \A i \in DOMAIN out : out[i] \in R
      <4> HIDE DEF R
      <4> QED BY <2>1
    <3> QED BY <3>1
  <2>4. v \in Int /\ MinInt <= v /\ v <= MaxInt
    BY <1>1, ValueNumbers
  <2>5. \A i \in DOMAIN out : out[i].val \in Int
    BY <2>3, ValueNumbers
  <2> HIDE DEF R, r, v, n
  <2>6. /\ l \in Nat /\ DOMAIN out = 1 .. l /\ DOMAIN out' = 1 .. l + 1 /\ Len(out') = l + 1
        /\ \A i \in 1 .. l : out'[i] = out[i]
        /\ out'[l + 1] = r /\ out' # << >>
        /\ (l = 0 <=> out = << >>)
    BY <2>1, <2>2
  <2>7. /\ acc'.min = IF v < acc.min THEN v ELSE acc.min
        /\ acc'.max = IF v > acc.max THEN v ELSE acc.max
        /\ acc'.count = acc.count + 1
        /\ acc'.first = IF acc.count = 0 THEN v ELSE acc.first
        /\ acc'.last = v
    BY <1>3 DEF Accumulated
  <2> HIDE DEF l
  <2>8. acc.count = l
    BY DEF AccInv, l
  <2>9. out'[l + 1].val = v
    BY <2>2, <2>6
  <2>10. CASE l = 0
    <3>1. acc.min = MaxInt /\ acc.max = MinInt
      BY <2>6, <2>10 DEF AccInv, NoRecords
    <3>2. acc'.min = v /\ acc'.max = v /\ acc'.first = v /\ acc'.count = 1
      <4>1. MaxInt \in Int /\ MinInt \in Int
        BY QueryAssumption DEF MinInt
      <4> QED BY <2>4, <2>7, <2>8, <2>10, <3>1, <4>1
    <3>3. DOMAIN out' = {1} /\ out'[1].val = v /\ Len(out') = 1 /\ 1 \in DOMAIN out' /\ v <= v
      BY <2>4, <2>6, <2>9, <2>10
    <3> QED BY <2>6, <2>7, <3>2, <3>3 DEF AccInv
  <2>11. CASE l # 0
    <3>1. /\ \A i \in DOMAIN out : acc.min <= out[i].val /\ out[i].val <= acc.max
          /\ acc.first = out[1].val
      BY <2>6, <2>11 DEF AccInv
    <3>2. PICK a \in DOMAIN out : acc.min = out[a].val
      BY <2>6, <2>11 DEF AccInv
    <3>3. PICK b \in DOMAIN out : acc.max = out[b].val
      BY <2>6, <2>11 DEF AccInv
    <3>4. acc.min \in Int /\ acc.max \in Int
      BY <2>5, <3>2, <3>3
    <3>5. acc'.min <= v /\ acc'.min <= acc.min /\ v <= acc'.max /\ acc.max <= acc'.max
          /\ acc'.min \in Int /\ acc'.max \in Int
      BY <2>4, <2>7, <3>4
    <3>6. \A i \in DOMAIN out' : acc'.min <= out'[i].val /\ out'[i].val <= acc'.max
      <4> SUFFICES ASSUME NEW i \in DOMAIN out'
                   PROVE  acc'.min <= out'[i].val /\ out'[i].val <= acc'.max
        OBVIOUS
      <4>1. CASE i = l + 1
        BY <2>9, <3>5, <4>1
      <4>2. CASE i \in 1 .. l
        <5>1. out'[i].val = out[i].val /\ out[i].val \in Int
          BY <2>5, <2>6, <4>2
        <5>2. acc.min <= out[i].val /\ out[i].val <= acc.max
          BY <2>6, <3>1, <4>2
        <5> QED BY <3>4, <3>5, <5>1, <5>2
      <4> QED BY <2>6, <4>1, <4>2
    <3>7. a \in DOMAIN out' /\ b \in DOMAIN out' /\ l + 1 \in DOMAIN out'
          /\ out'[a] = out[a] /\ out'[b] = out[b]
      BY <2>6, <3>2, <3>3
    <3>8. \E i \in DOMAIN out' : acc'.min = out'[i].val
      BY <2>7, <2>9, <3>2, <3>7
    <3>9. \E i \in DOMAIN out' : acc'.max = out'[i].val
      BY <2>7, <2>9, <3>3, <3>7
    <3>10. acc'.first = out'[1].val
      <4>1. 1 \in 1 .. l
        BY <2>6, <2>11
      <4> QED BY <2>6, <2>7, <2>8, <2>11, <3>1, <4>1
    <3>11. acc'.last = out'[Len(out')].val /\ acc'.count = Len(out')
      BY <2>6, <2>7, <2>8, <2>9
    <3> QED BY <2>6, <3>6, <3>8, <3>9, <3>10, <3>11 DEF AccInv
  <2> QED BY <2>10, <2>11
<1> QED BY <1>1, <1>2, <1>3

LEMMA AccStep == CellInv /\ WindowInv /\ AccInv /\ [Next]_vars => AccInv'
<1> SUFFICES ASSUME CellInv, WindowInv, AccInv, [Next]_vars PROVE AccInv'
  OBVIOUS
<1>1. CASE QueryInit \/ QueryClose
  BY <1>1, AccStart DEF QueryInit, QueryClose
<1>2. CASE ScanSlot
  BY <1>2, AccScanSlot
<1>3. CASE UNCHANGED <<acc, out>>
  BY <1>3 DEF AccInv
<1>4. \/ QueryInit \/ QueryClose \/ ScanSlot \/ UNCHANGED <<acc, out>>
  <2>1. Probe => UNCHANGED <<acc, out>>
    BY DEF Probe
  <2>2. Write \/ SeekReturns \/ QueryNext => UNCHANGED <<acc, out>>
    BY DEF Write, SeekReturns, QueryNext
  <2>3. Exhausted \/ BlockUnreadable => UNCHANGED <<acc, out>>
    BY DEF Exhausted, BlockUnreadable, NotFound
  <2> QED BY <2>1, <2>2, <2>3 DEF Next, vars
<1> QED BY <1>1, <1>2, <1>3, <1>4

(* A number that fits the result type is not changed by the cast. *)
LEMMA CastFits ==
  ASSUME NEW x \in 0 .. MaxInt
  PROVE  Cast(x) = x
<1>1. MaxInt \in Nat /\ x \in Nat /\ x <= MaxInt
  BY QueryAssumption
<1>2. x - MinInt = x + MaxInt + 1
  BY <1>1 DEF MinInt
<1> DEFINE y == x + MaxInt + 1
           m == 2 * (MaxInt + 1)
<1>3. y \in Nat /\ m \in Nat /\ y < m
  BY <1>1
<1>4. y % m = y
  BY ONLY <1>3, RemainderBelow
<1>5. Cast(x) = (y % m) + MinInt
  BY <1>2 DEF Cast
<1> QED BY <1>1, <1>4, <1>5 DEF MinInt

(* As many records have been returned as the window has. *)
LEMMA ReturnedAll ==
  ASSUME CellInv, WindowInv, status = "ended"
  PROVE  /\ Len(out) \in Nat /\ DOMAIN out = 1 .. Len(out)
         /\ \A k \in Matching : k \in Nat /\ \E i \in DOMAIN out : out[i].pos = k
         /\ IsFiniteSet(Matching) /\ Cardinality(Matching) = Len(out)
         /\ Len(out) <= MaxInt
<1> DEFINE l == Len(out)
           f == [i \in 1 .. l |-> out[i].pos]
<1>1. QueryExact
  BY WindowExact
<1>2. out \in Seq([pos : Nat, ts : Nat, val : Values \cup {0}])
  BY DEF WindowInv, ScanInv
<1>3. l \in Nat /\ DOMAIN out = 1 .. l
  BY <1>2
<1>4. \A k \in Matching : \E i \in DOMAIN out : out[i].pos = k
  BY <1>1 DEF QueryExact
<1>5. \A i \in 1 .. l : out[i].pos \in Matching
  BY <1>1, <1>3 DEF QueryExact
<1>6. /\ DOMAIN view = 1 .. Available(q.hdr) /\ Matching \subseteq DOMAIN view
      /\ RingHeader(q.hdr)
  BY DEF WindowInv, ViewInv, Matching, CellInv, CursorInv
<1>7. \A i, j \in 1 .. l : out[i].pos = out[j].pos => i = j
  <2> SUFFICES ASSUME NEW i \in 1 .. l, NEW j \in 1 .. l, i # j PROVE out[i].pos # out[j].pos
    OBVIOUS
  <2>1. i < j \/ j < i
    BY <1>3
  <2>2. /\ i < j => out[i].pos < out[j].pos
        /\ j < i => out[j].pos < out[i].pos
    BY <1>1, <1>3 DEF QueryExact
  <2>3. out[i].pos \in Nat /\ out[j].pos \in Nat
    BY <1>5, <1>6
  <2> QED BY <2>1, <2>2, <2>3
<1>8. f \in [1 .. l -> Matching] /\ \A i \in 1 .. l : f[i] = out[i].pos
  BY <1>5
<1>9. ExistsBijection(1 .. l, Matching)
  <2> HIDE DEF f, l
  <2>1. \A a, b \in 1 .. l : f[a] = f[b] => a = b
    BY <1>7, <1>8
  <2>2. \A k \in Matching : \E i \in 1 .. l : f[i] = k
    BY <1>3, <1>4, <1>8
  <2>3. f \in Bijection(1 .. l, Matching)
    BY <1>8, <2>1, <2>2, Fun_IsBij
  <2> QED BY <2>3 DEF ExistsBijection
<1> HIDE DEF f, l
<1>10. IsFiniteSet(1 .. l) /\ Cardinality(1 .. l) = l
  <2>1. 1 \in Int /\ l \in Int
    BY <1>3
  <2>2. IsFiniteSet(1 .. l) /\ Cardinality(1 .. l) = IF 1 > l THEN 0 ELSE l - 1 + 1
    BY ONLY <2>1, FS_Interval
  <2> QED BY <1>3, <2>2
<1>11. IsFiniteSet(Matching) /\ Cardinality(Matching) = l
  BY <1>9, <1>10, FS_Bijection
<1>12. l <= MaxInt
  <2>1. Available(q.hdr) \in Nat /\ Available(q.hdr) <= MaxSlots
    BY <1>6, HeaderNumbers
  <2>2. IsFiniteSet(1 .. Available(q.hdr))
        /\ Cardinality(1 .. Available(q.hdr)) = Available(q.hdr)
    BY <2>1, FS_Interval
  <2>3. Cardinality(Matching) <= Available(q.hdr)
    <3>1. Matching \in SUBSET (1 .. Available(q.hdr))
      BY <1>6
    <3>2. Cardinality(Matching) <= Cardinality(1 .. Available(q.hdr))
      BY ONLY <2>2, <3>1, FS_Subset
    <3> QED BY <2>2, <3>2
  <2> QED BY <1>3, <1>11, <2>1, <2>3, QueryAssumption, MaxSlotsAssumption
<1> QED BY <1>3, <1>4, <1>6, <1>11, <1>12 DEF l

LEMMA WindowAggregates ==
  ASSUME CellInv, WindowInv, AccInv
  PROVE  AggregatesTrue
<1> SUFFICES ASSUME status = "ended"
             PROVE  /\ Result(acc, "COUNT") = Cardinality(Matching)
                    /\ \A k \in Matching : /\ Result(acc, "MIN") <= view[k].val
                                           /\ view[k].val <= Result(acc, "MAX")
                    /\ Matching # {} =>
                         \E min, max, first, last \in Matching :
                           /\ Result(acc, "MIN") = view[min].val
                           /\ Result(acc, "MAX") = view[max].val
                           /\ Result(acc, "FIRST") = view[first].val
                           /\ Result(acc, "LAST") = view[last].val
                           /\ \A k \in Matching : first <= k /\ k <= last
  BY DEF AggregatesTrue
<1> DEFINE l == Len(out)
<1>1. /\ l \in Nat /\ DOMAIN out = 1 .. l
      /\ \A k \in Matching : k \in Nat /\ \E i \in DOMAIN out : out[i].pos = k
      /\ IsFiniteSet(Matching) /\ Cardinality(Matching) = l /\ l <= MaxInt
  BY ReturnedAll
<1>2. acc.count = l
  BY DEF AccInv
<1>3. /\ \A i \in DOMAIN out : out[i].pos \in Matching /\ out[i].val = view[out[i].pos].val
      /\ \A i, j \in DOMAIN out : i < j => out[i].pos < out[j].pos
  BY WindowExact DEF QueryExact
<1>4. l # 0 => out # << >>
  <2>1. Len(<< >>) = 0
    OBVIOUS
  <2> QED BY <2>1
<1>5. /\ \A i \in DOMAIN out : acc.min <= out[i].val /\ out[i].val <= acc.max
      /\ l # 0 => /\ \E i \in DOMAIN out : acc.min = out[i].val
                  /\ \E i \in DOMAIN out : acc.max = out[i].val
                  /\ acc.first = out[1].val
                  /\ acc.last = out[l].val
  BY <1>4 DEF AccInv
<1> HIDE DEF l
<1>6. CASE l = 0
  <2>1. Matching = {}
    <3>1. Cardinality(Matching) = 0 /\ IsFiniteSet(Matching)
      BY <1>1, <1>6
    <3> QED BY ONLY <3>1, FS_EmptySet, Zenon
  <2>2. Result(acc, "COUNT") = 0
    BY <1>2, <1>6 DEF Result
  <2> QED BY <1>1, <1>6, <2>1, <2>2
<1>7. CASE l # 0
  <2>1. Result(acc, "COUNT") = l
    <3>1. Result(acc, "COUNT") = Cast(l)
      BY <1>2, <1>7, Zenon DEF Result
    <3>2. l \in 0 .. MaxInt
      BY <1>1, QueryAssumption
    <3> QED BY <3>1, <3>2, CastFits
  <2>2. /\ Result(acc, "MIN") = acc.min /\ Result(acc, "MAX") = acc.max
        /\ Result(acc, "FIRST") = acc.first /\ Result(acc, "LAST") = acc.last
    BY <1>2, <1>7 DEF Result
  <2>3. ASSUME NEW k \in Matching
        PROVE  acc.min <= view[k].val /\ view[k].val <= acc.max
    <3>1. PICK i \in DOMAIN out : out[i].pos = k
      BY <1>1
    <3> QED BY <1>3, <1>5, <3>1
  <2>4. PICK a \in DOMAIN out : acc.min = out[a].val
    BY <1>5, <1>7
  <2>5. PICK b \in DOMAIN out : acc.max = out[b].val
    BY <1>5, <1>7
  <2>6. 1 \in DOMAIN out /\ l \in DOMAIN out
    BY <1>1, <1>7
  <2>7. ASSUME NEW k \in Matching
        PROVE  out[1].pos <= k /\ k <= out[l].pos
    <3>1. PICK i \in DOMAIN out : out[i].pos = k
      BY <1>1
    <3>2. i \in 1 .. l /\ (i = 1 \/ 1 < i) /\ (i = l \/ i < l)
      BY <1>1, <3>1
    <3>3. out[1].pos \in Nat /\ out[l].pos \in Nat /\ k \in Nat
      BY <1>1, <1>3, <2>6
    <3>4. i = 1 \/ out[1].pos < out[i].pos
      BY <1>3, <2>6, <3>1, <3>2
    <3>5. i = l \/ out[i].pos < out[l].pos
      BY <1>3, <2>6, <3>1, <3>2
    <3> QED BY <3>1, <3>3, <3>4, <3>5
  <2> DEFINE pa == out[a].pos
             pb == out[b].pos
             pf == out[1].pos
             pl == out[l].pos
  <2>8. /\ pa \in Matching /\ pb \in Matching /\ pf \in Matching /\ pl \in Matching
        /\ acc.min = view[pa].val /\ acc.max = view[pb].val
        /\ acc.first = view[pf].val /\ acc.last = view[pl].val
    BY <1>3, <1>5, <1>7, <2>4, <2>5, <2>6
  <2>9. \A k \in Matching : pf <= k /\ k <= pl
    BY <2>7
  <2> HIDE DEF pa, pb, pf, pl
  <2>10. \E min, max, first, last \in Matching :
           /\ Result(acc, "MIN") = view[min].val
           /\ Result(acc, "MAX") = view[max].val
           /\ Result(acc, "FIRST") = view[first].val
           /\ Result(acc, "LAST") = view[last].val
           /\ \A k \in Matching : first <= k /\ k <= last
    BY <2>2, <2>8, <2>9
  <2> QED BY <1>1, <2>1, <2>2, <2>3, <2>10
<1> QED BY <1>6, <1>7

(* COUNT, MIN, MAX, FIRST and LAST of a completed tsdb_aggregate_h are     *)
(* those of the records in its window, for every window, capacity and set  *)
(* of values, under the hypothesis of QueryIsExact.                        *)
THEOREM AggregatesAreTrue == "nestedring" \notin Env => (Spec => []AggregatesTrue)
<1> SUFFICES ASSUME "nestedring" \notin Env PROVE Spec => []AggregatesTrue
  OBVIOUS
<1> DEFINE J == CellInv /\ WindowInv /\ AccInv
<1>1. Init => J
  BY CellInit, WindowInit, AccInit
<1>2. J /\ [Next]_vars => J'
  BY CellStep, WindowStep, AccStep
<1>3. J => AggregatesTrue
  BY WindowAggregates
<1> HIDE DEF J
<1> QED BY <1>1, <1>2, <1>3, PTL DEF Spec
=============================================================================
