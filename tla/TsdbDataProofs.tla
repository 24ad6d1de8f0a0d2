--------------------------- MODULE TsdbDataProofs ---------------------------
(***************************************************************************)
(* Theorems about the records.  Those that a power cut leaves: none that   *)
(* was acknowledged is lost but by eviction, they are in order but for the *)
(* slot of a write in progress, and they move only as the records of the   *)
(* abstract RingLog do.  Those that the open handle shows: the newest      *)
(* acknowledged ones, with the timestamps of the first and the last.       *)
(***************************************************************************)
EXTENDS TsdbRingProofs, TsdbHeaderProofs, SequenceTheorems, FiniteSetTheorems,
        FunctionTheorems

-----------------------------------------------------------------------------
(* Records and their slots *)

(* A number of records that two laps of the ring, or the data area of an   *)
(* unlimited database, have room for.                                      *)
Fits(n) ==
  /\ n \in Nat
  /\ ConfigMax = 0 => n <= MaxSlots
  /\ ConfigMax > 0 => n <= 2 * ConfigMax

LEMMA WindowSlots ==
  ASSUME NEW n, Fits(n)
  PROVE  /\ Start(n) \in Nat
         /\ \A k \in Window(n) : k \in Nat /\ SlotOf(k) \in Slots
         /\ \A k \in Body(n) : k \in Nat /\ k \in Window(n)
         /\ \A k, l \in Window(n) : SlotOf(k) = SlotOf(l) => k = l
         /\ FullAt(n) => Start(n) \in Window(n) /\ Start(n) \notin Body(n)
         /\ \A k \in Window(n) : k \in Body(n) \/ (FullAt(n) /\ k = Start(n))
<1>1. ConfigMax \in Nat /\ MaxSlots \in Nat /\ ConfigMax <= MaxSlots
  BY StoreAssumption, MaxSlotsAssumption
<1> QED BY <1>1 DEF Fits, Start, Window, Body, SlotOf, FullAt, Slots

(* The slot of the next record: it is that of the oldest one in a full     *)
(* ring, and a free one otherwise.                                         *)
LEMMA NextSlot ==
  ASSUME NEW n, Fits(n), Fits(n + 1)
  PROVE  /\ SlotOf(n) \in Slots
         /\ \A k \in Body(n) : SlotOf(k) # SlotOf(n)
         /\ FullAt(n) => SlotOf(Start(n)) = SlotOf(n)
         /\ n \in Window(n + 1)
         /\ \A k \in Window(n + 1) : k \in Body(n) \/ k = n
         /\ \A k \in Body(n) : k \in Window(n + 1)
         /\ FullAt(n) => FullAt(n + 1)
<1>1. ConfigMax \in Nat /\ MaxSlots \in Nat /\ ConfigMax <= MaxSlots
  BY StoreAssumption, MaxSlotsAssumption
<1> QED BY <1>1 DEF Fits, Start, Window, Body, SlotOf, FullAt, Slots

(* What a reader of a header sees are the records of its window. *)
LEMMA WalkIsWindow ==
  ASSUME NEW h \in Header, WellFormed(h), h.max = ConfigMax, Fits(h.total),
         NEW i \in 1 .. Available(h)
  PROVE  /\ Start(h.total) + i - 1 \in Window(h.total)
         /\ PhysicalIdx(h, i - 1) = SlotOf(Start(h.total) + i - 1)
<1> DEFINE n == h.total
           c == ConfigMax
<1>1. n \in Nat /\ c \in Nat /\ h.oldest \in Nat /\ i \in Nat /\ i - 1 \in Nat /\ i <= Available(h)
  BY StoreAssumption DEF Header, Available, Unlimited
<1>2. CASE c = 0
  BY <1>1, <1>2 DEF Available, Unlimited, PhysicalIdx, Start, FullAt, SlotOf, Window
<1>3. CASE c > 0 /\ n < c
  <2>1. h.oldest = 0 /\ Available(h) = n
    BY <1>1, <1>3 DEF WellFormed, Aligned, IsEviction, Available, Unlimited
  <2>2. (0 + (i - 1)) % c = i - 1
    BY <1>1, <1>3, <2>1, ModBelow
  <2> QED BY <1>1, <1>3, <2>1, <2>2
      DEF Unlimited, PhysicalIdx, Start, FullAt, SlotOf, Window
<1>4. CASE c > 0 /\ n >= c
  <2>1. Available(h) = c /\ h.oldest = n % c
    BY <1>1, <1>4 DEF WellFormed, Aligned, IsEviction, RecordIdx, Available, Unlimited
  <2>2. Start(n) = n - c /\ n <= 2 * c
    BY <1>1, <1>4 DEF Start, FullAt, Fits
  <2>3. PhysicalIdx(h, i - 1) = (h.oldest + (i - 1)) % c
    BY <1>1, <1>4 DEF PhysicalIdx, Unlimited
  <2>4. CASE n < 2 * c
    <3>1. h.oldest = n - c
      BY <1>1, <1>4, <2>1, <2>4, ModOnce
    <3> DEFINE k == n - c + (i - 1)
    <3>2. k \in Nat /\ k < 2 * c /\ h.oldest + (i - 1) = k /\ n - c + i - 1 = k
      BY <1>1, <1>4, <2>1, <2>4, <3>1
    <3>3. k % c = IF k < c THEN k ELSE k - c
      <4> HIDE DEF k
      <4>1. CASE k < c
        BY <1>1, <3>2, <4>1, ModBelow
      <4>2. CASE ~(k < c)
        BY <1>1, <1>4, <3>2, <4>2, ModOnce
      <4> QED BY <4>1, <4>2
    <3> QED BY <1>1, <1>4, <2>1, <2>2, <2>3, <3>2, <3>3 DEF SlotOf, Window
  <2>5. CASE n = 2 * c
    <3>1. h.oldest = 0
      BY <1>1, <1>4, <2>1, <2>5, ModTwice
    <3>2. (0 + (i - 1)) % c = i - 1
      BY <1>1, <1>4, <2>1, ModBelow
    <3> QED BY <1>1, <1>4, <2>1, <2>2, <2>3, <2>5, <3>1, <3>2 DEF SlotOf, Window
  <2> QED BY <1>1, <2>2, <2>4, <2>5
<1> QED BY <1>1, <1>2, <1>3, <1>4

LEMMA WindowSize ==
  ASSUME NEW h \in Header, h.max = ConfigMax
  PROVE  /\ Available(h) \in Nat
         /\ Available(h) = h.total - Start(h.total)
         /\ IsEviction(h) <=> FullAt(h.total)
         /\ FullAt(h.total) => Available(h) = ConfigMax
<1>1. h.total \in Nat /\ ConfigMax \in Nat
  BY StoreAssumption DEF Header
<1> QED BY <1>1 DEF Available, Start, FullAt, IsEviction, Unlimited

-----------------------------------------------------------------------------
(* What the two halves of a write do to the log *)

LEMMA AtNat ==
  ASSUME NEW n, Fits(n), NEW d \in [Slots -> Nat]
  PROVE  \A k \in Window(n) : At(d, k) \in Nat
  BY WindowSlots DEF At

(* The block is written and the header is not: in a full ring the record   *)
(* takes the place of the oldest one, which all the others are younger     *)
(* than, otherwise the log does not see it.                                *)
LEMMA BlockKeepsLog ==
  ASSUME NEW n, Fits(n), Fits(n + 1), NEW d \in [Slots -> Nat], NEW e \in [Slots -> Nat],
         NEW r \in Nat, NEW a \in SUBSET Nat, NEW low \in Nat,
         e = [d EXCEPT ![SlotOf(n)] = r],
         \A s \in Slots : d[s] < r, low < r, \A t \in a : t < r,
         OrderInv(d, a, low, n), KeptInv(d, a, n)
  PROVE  /\ OrderInv(e, a, low, n) /\ KeptInv(e, a, n)
         /\ At(e, n) = r /\ Sorted(e, Window(n + 1))
<1>1. At(e, n) = r /\ (FullAt(n) => At(e, Start(n)) = r)
  BY NextSlot DEF At
<1>2. \A k \in Body(n) : At(e, k) = At(d, k) /\ At(d, k) < r /\ At(d, k) \in Nat
  BY NextSlot, WindowSlots DEF At
<1>3. \A k \in Window(n) : At(d, k) \in Nat /\ At(d, k) < r
  BY WindowSlots DEF At
<1>4. \A k \in Window(n) : k \in Body(n) \/ (FullAt(n) /\ k = Start(n))
  BY WindowSlots
<1>5. Sorted(e, Body(n))
  BY <1>2 DEF Sorted, OrderInv
<1>6. ASSUME NEW k \in Window(n) PROVE At(e, k) > low
  <2>1. At(d, k) > low
    BY DEF OrderInv
  <2> QED BY <1>1, <1>2, <1>4, <2>1
<1>7. OrderInv(e, a, low, n)
  <2>1. r \notin a
    OBVIOUS
  <2>2. ASSUME FullAt(n), NEW k \in Body(n)
        PROVE  At(e, Start(n)) # At(e, k) /\ At(e, Start(n)) \notin a
    <3>1. At(e, Start(n)) = r
      BY <1>1, <2>2
    <3>2. At(e, k) \in Nat /\ At(e, k) < r
      BY <1>2, <2>2
    <3> QED BY <2>1, <3>1, <3>2
  <2> QED BY <1>5, <1>6, <2>2 DEF OrderInv
<1>8. KeptInv(e, a, n)
  <2> SUFFICES ASSUME NEW t \in a
               PROVE  \/ \E k \in Window(n) : At(e, k) = t
                      \/ FullAt(n) /\ \A k \in Window(n) : t < At(e, k)
    BY DEF KeptInv
  <2>1. CASE \E k \in Body(n) : At(d, k) = t
    BY <1>2, <2>1, WindowSlots
  <2>2. CASE FullAt(n) /\ At(d, Start(n)) = t
    <3>1. \A k \in Body(n) : t < At(d, k)
      BY <2>2 DEF OrderInv
    <3> QED BY <1>1, <1>2, <1>4, <2>2, <3>1
  <2>3. CASE FullAt(n) /\ \A k \in Window(n) : t < At(d, k)
    <3>1. \A k \in Body(n) : t < At(e, k)
      BY <1>2, <2>3, WindowSlots
    <3> QED BY <1>1, <1>4, <2>3, <3>1
  <2> QED BY <1>4, <2>1, <2>2, <2>3 DEF KeptInv
<1>9. Sorted(e, Window(n + 1))
  <2> SUFFICES ASSUME NEW k \in Window(n + 1), NEW l \in Window(n + 1), k < l
               PROVE  At(e, k) < At(e, l)
    BY DEF Sorted
  <2>1. n \in Nat /\ k \in Nat /\ l \in Nat /\ k < n
    <3>1. n \in Nat /\ k \in Nat /\ l \in Nat /\ Start(n + 1) \in Nat
      BY WindowSlots DEF Fits
    <3> QED BY <3>1 DEF Window
  <2>2. k \in Body(n) /\ (l \in Body(n) \/ l = n)
    BY <2>1, NextSlot
  <2> QED BY <1>1, <1>2, <1>5, <2>2 DEF Sorted
<1> QED BY <1>1, <1>7, <1>8, <1>9

(* A log that is in order satisfies the invariant of one that may not be. *)
LEMMA SortedIsOrdered ==
  ASSUME NEW n, Fits(n), NEW d \in [Slots -> Nat], NEW a, NEW low \in Nat,
         Sorted(d, Window(n)), \A k \in Window(n) : At(d, k) > low
  PROVE  OrderInv(d, a, low, n)
<1>1. Sorted(d, Body(n))
  BY WindowSlots DEF Sorted
<1>2. ASSUME FullAt(n), NEW k \in Body(n) PROVE At(d, Start(n)) < At(d, k)
  <2>1. Start(n) < k
    BY <1>2, WindowSlots, StoreAssumption DEF Body, Fits, FullAt
  <2> QED BY <1>2, <2>1, WindowSlots DEF Sorted
<1>3. ASSUME FullAt(n), NEW k \in Body(n) PROVE At(d, Start(n)) # At(d, k)
  BY <1>2, <1>3, AtNat, WindowSlots
<1> QED BY <1>1, <1>2, <1>3 DEF OrderInv

(* The header is on disk: the record in the block is the newest one of the *)
(* log, and may be acknowledged.                                           *)
LEMMA HeaderTurnsLog ==
  ASSUME NEW n, Fits(n), Fits(n + 1), NEW d \in [Slots -> Nat], NEW r \in Nat,
         NEW a \in SUBSET Nat, NEW b \in SUBSET (a \cup {r}), NEW low \in Nat,
         low < r, \A t \in a : t < r,
         At(d, n) = r, Sorted(d, Window(n + 1)),
         OrderInv(d, a, low, n), KeptInv(d, a, n)
  PROVE  OrderInv(d, b, low, n + 1) /\ KeptInv(d, b, n + 1)
<1>1. \A k \in Window(n + 1) : k \in Body(n) \/ k = n
  BY NextSlot
<1>2. \A k \in Window(n + 1) : At(d, k) > low
  BY <1>1, WindowSlots DEF OrderInv
<1>3. OrderInv(d, b, low, n + 1)
  BY <1>2, SortedIsOrdered
<1>4. FullAt(n) => At(d, Start(n)) = r
  BY NextSlot DEF At
<1>5. KeptInv(d, b, n + 1)
  <2> SUFFICES ASSUME NEW t \in b
               PROVE  \/ \E k \in Window(n + 1) : At(d, k) = t
                      \/ FullAt(n + 1) /\ \A k \in Window(n + 1) : t < At(d, k)
    BY DEF KeptInv
  <2>1. CASE t = r
    BY <2>1, NextSlot
  <2>2. CASE t \in a
    <3>1. t < r /\ t # r
      BY <2>2
    <3>2. CASE \E k \in Window(n) : At(d, k) = t
      <4>1. PICK k \in Window(n) : At(d, k) = t
        BY <3>2
      <4>2. k \in Body(n)
        BY <1>4, <3>1, <4>1, WindowSlots
      <4> QED BY <4>1, <4>2, NextSlot
    <3>3. CASE FullAt(n) /\ \A k \in Window(n) : t < At(d, k)
      <4>1. \A k \in Body(n) : t < At(d, k)
        BY <3>3, WindowSlots
      <4> QED BY <1>1, <3>1, <3>3, <4>1, NextSlot
    <3> QED BY <2>2, <3>2, <3>3 DEF KeptInv
  <2> QED BY <2>1, <2>2
<1> QED BY <1>3, <1>5

(* Acknowledging a record that is in an ordered log. *)
LEMMA AckKeepsLog ==
  ASSUME NEW n, Fits(n), NEW d \in [Slots -> Nat], NEW r, NEW a, NEW low \in Nat,
         NEW k \in Window(n), At(d, k) = r, Sorted(d, Window(n)),
         OrderInv(d, a, low, n), KeptInv(d, a, n)
  PROVE  OrderInv(d, a \cup {r}, low, n) /\ KeptInv(d, a \cup {r}, n)
<1>1. OrderInv(d, a \cup {r}, low, n)
  BY SortedIsOrdered DEF OrderInv
<1>2. KeptInv(d, a \cup {r}, n)
  BY DEF KeptInv
<1> QED BY <1>1, <1>2

-----------------------------------------------------------------------------
(* Steps of the engine *)

(* The invariants of the headers, together. *)
HeaderInv == TypeInv /\ DurableInv /\ RingInv /\ PlainInv /\ HomeInv

LEMMA HeaderInit == Init => HeaderInv
  BY TypeInit, DurableInit, RingInit, PlainInit, HomeInit DEF HeaderInv

LEMMA HeaderStep ==
  ASSUME PlainFaults, HeaderInv, [Next]_vars
  PROVE  HeaderInv'
<1> USE DEF HeaderInv
<1>1. TypeInv'
  BY TypeStep
<1>2. DurableInv'
  BY <1>1, DurableStep DEF PlainFaults
<1>3. RingInv'
  BY <1>1, RingStep DEF PlainFaults, TolerableFaults, CountersMove
<1>4. PlainInv'
  BY PlainStep
<1>5. HomeInv'
  BY <1>1, <1>2, <1>4, HomeStep
<1> QED BY <1>1, <1>2, <1>3, <1>4, <1>5

(* A header that is well formed, of the right capacity and type. *)
Regular(h) == h \in Header /\ h.max = ConfigMax /\ WellFormed(h) /\ Fits(h.total)

LEMMA RegularHeader ==
  ASSUME NEW h, HdrOK(h), h.max = ConfigMax, WellFormed(h)
  PROVE  Regular(h)
<1>1. ConfigMax \in Nat
  BY StoreAssumption
<1> QED BY <1>1 DEF Regular, HdrOK, Header, WellFormed, Sane, Fits

LEMMA RecoveredRegular ==
  ASSUME HeaderInv
  PROVE  /\ Regular(Recovered)
         /\ file.state # "ready" => Recovered.total = 0
         /\ HandleLive => Regular(db.hdr)
         /\ pc = "block" => Fits(db.hdr.total + 1)
<1> USE DEF HeaderInv
<1>1. HandleLive => Regular(db.hdr)
  BY RegularHeader DEF PlainInv, RingInv, TypeInv
<1>2. ASSUME pc = "block" PROVE Fits(db.hdr.total + 1)
  <2>1. Regular(db.hdr)
    BY <1>1, <1>2 DEF HandleLive, Writing
  <2>2. /\ ConfigMax > 0 => db.hdr.total < 2 * ConfigMax
        /\ ConfigMax = 0 => db.hdr.total < MaxSlots
    BY <1>2, <2>1 DEF RingInv, TypeInv, Unlimited, Regular
  <2>3. ConfigMax \in Nat /\ MaxSlots \in Nat /\ db.hdr.total \in Nat
    BY <2>1, StoreAssumption, MaxSlotsAssumption DEF Regular, Fits
  <2> QED BY <2>2, <2>3 DEF Fits
<1>3. CASE file.state # "ready"
  <2>1. Recovered = EmptyHeader(ConfigMax)
    BY <1>3 DEF Recovered
  <2>2. HdrOK(Recovered) /\ WellFormed(Recovered) /\ Recovered.max = ConfigMax
        /\ Recovered.total = 0
    BY <2>1, EmptyHdrOK, CleanWellFormed DEF EmptyHeader
  <2> QED BY <1>1, <1>2, <2>2, RegularHeader
<1>4. CASE file.state = "ready"
  <2>1. CASE Recovered = file.hdr
    BY <1>1, <1>2, <1>4, <2>1, RegularHeader DEF PlainInv, RingInv, TypeInv
  <2>2. CASE \E x \in Valid(side, legacy) : Recovered = x.hdr
    <3>1. PICK x \in Valid(side, legacy) : Recovered = x.hdr
      BY <2>2
    <3>2. PICK n \in {0, 1} : x = side[n] \/ x = legacy[n]
      BY DiskTypes, ValidElement
    <3>3. HdrOK(x.hdr) /\ WellFormed(x.hdr) /\ x.hdr.max = ConfigMax
      BY <3>2 DEF PlainInv, RingInv, TypeInv
    <3> QED BY <1>1, <1>2, <1>4, <3>1, <3>3, RegularHeader
  <2> QED BY <1>4, <2>1, <2>2, RecoveredIsChosen
<1> QED BY <1>3, <1>4

(* Steps that touch neither the records nor how many of them count. *)
LEMMA QuietStep ==
  ASSUME LogInv, data' = data, acked' = acked, floor' = floor, clock' = clock,
         Recovered'.total = Recovered.total, pc' \notin {"block"} \cup Putting,
         HandleLive' /\ db'.stale =>
           HandleLive /\ db.stale /\ db'.hdr.total = db.hdr.total
  PROVE  LogInv'
<1>1. OrderInv(data, acked, floor, Recovered.total)'
  BY DEF LogInv
<1>2. KeptInv(data, acked, Recovered.total)'
  BY DEF LogInv
<1>3. ClockInv'
  BY DEF LogInv, ClockInv
<1>4. HealedInv'
  BY DEF LogInv, HealedInv
<1> QED BY <1>1, <1>2, <1>3, <1>4 DEF LogInv

(* Steps of tsdb_sidecar_write that change nothing a power cut would see. *)
LEMMA PuttingStep ==
  ASSUME LogInv, data' = data, acked' = acked, floor' = floor, clock' = clock, rec' = rec,
         Recovered'.total = Recovered.total, pc \in Putting, pc' \in Putting,
         db'.hdr.total = db.hdr.total
  PROVE  LogInv'
<1>1. OrderInv(data, acked, floor, Recovered.total)'
  BY DEF LogInv
<1>2. KeptInv(data, acked, Recovered.total)'
  BY DEF LogInv
<1>3. ClockInv'
  BY DEF LogInv, ClockInv, Putting
<1>4. HealedInv'
  BY DEF LogInv, HealedInv
<1> QED BY <1>1, <1>2, <1>3, <1>4 DEF LogInv

(* Steps after which there are no records. *)
LEMMA ResetStep ==
  ASSUME Recovered'.total = 0, acked' = {}, floor' <= clock',
         pc' \notin {"block"} \cup Putting, ~HandleLive'
  PROVE  LogInv'
<1>1. Window(0) = {} /\ Body(0) = {} /\ ~FullAt(0)
  BY StoreAssumption DEF Window, Body, Start, FullAt
<1>2. OrderInv(data, acked, floor, Recovered.total)'
  BY <1>1 DEF OrderInv, Sorted
<1>3. KeptInv(data, acked, Recovered.total)'
  BY DEF KeptInv
<1>4. ClockInv' /\ HealedInv'
  BY DEF ClockInv, HealedInv
<1> QED BY <1>2, <1>3, <1>4 DEF LogInv

LEMMA LogInit == Init => LogInv
<1> SUFFICES ASSUME Init PROVE LogInv
  OBVIOUS
<1>1. Recovered.total = 0
  BY DEF Init, Recovered, EmptyHeader
<1>2. Window(0) = {} /\ Body(0) = {} /\ ~FullAt(0)
  BY StoreAssumption DEF Window, Body, Start, FullAt
<1>3. OrderInv(data, acked, floor, Recovered.total)
  BY <1>1, <1>2 DEF OrderInv, Sorted
<1>4. KeptInv(data, acked, Recovered.total)
  BY DEF KeptInv, Init
<1>5. ClockInv /\ HealedInv
  BY DEF ClockInv, HealedInv, Init, Putting, HandleLive, Writing
<1> QED BY <1>3, <1>4, <1>5 DEF LogInv

(* The block of a record, when blocks can be read. *)
LEMMA BlockWritten ==
  ASSUME PlainFaults, HeaderInv, WriteBlock
  PROVE  data' = [data EXCEPT ![SlotOf(db.hdr.total)] = rec]
<1> DEFINE n == db.hdr.total
<1>1. pc = "block"
  BY DEF WriteBlock
<1>2. Regular(db.hdr) /\ Fits(n + 1)
  BY <1>1, RecoveredRegular DEF HandleLive, Writing
<1>3. n \in Nat /\ ConfigMax \in Nat /\ db.hdr.max = ConfigMax
      /\ (ConfigMax > 0 => n < 2 * ConfigMax)
  BY <1>2, StoreAssumption DEF Regular, Fits
<1>4. RecordIdx(db.hdr) = SlotOf(n)
  <2>1. CASE ConfigMax = 0
    BY <1>3, <2>1 DEF RecordIdx, Unlimited, SlotOf
  <2>2. CASE ConfigMax > 0 /\ n < ConfigMax
    BY <1>3, <2>2, ModBelow DEF RecordIdx, Unlimited, SlotOf
  <2>3. CASE ConfigMax > 0 /\ n >= ConfigMax
    BY <1>3, <2>3, ModOnce DEF RecordIdx, Unlimited, SlotOf
  <2> QED BY <1>3, <2>1, <2>2, <2>3
<1>5. data' = DataWith(RecordIdx(db.hdr), rec, TRUE)
  BY DEF WriteBlock, Outcomes, PlainFaults
<1>6. data \in [Slots -> Nat]
  BY DEF HeaderInv, TypeInv, TypeOK
<1> QED BY <1>4, <1>5, <1>6 DEF DataWith

(* Every step but a write of a block or of a slot is quiet, or there are   *)
(* no records afterwards.                                                  *)
LEMMA LogStep ==
  ASSUME PlainFaults, HeaderInv, HeaderInv', LogInv, [Next]_vars
  PROVE  LogInv'
<1> USE DEF Goto
<1> DEFINE n == Recovered.total
           m == db.hdr.total
<1>a. TypeInv /\ DurableInv /\ RingInv /\ PlainInv /\ HomeInv
  BY DEF HeaderInv
<1>b. TypeInv' /\ DurableInv' /\ RingInv' /\ PlainInv' /\ HomeInv'
  BY DEF HeaderInv
<1>c. /\ data \in [Slots -> Nat] /\ rec \in Nat /\ clock \in Nat /\ floor \in Nat
      /\ acked \in SUBSET Nat /\ db \in Handle /\ m \in Nat /\ n \in Nat
      /\ \A s \in Slots : data[s] <= clock
  BY <1>a, DiskTypes, RecoveredRegular DEF TypeInv, TypeOK, Regular, Fits
<1>d. OrderInv(data, acked, floor, n) /\ KeptInv(data, acked, n) /\ ClockInv /\ HealedInv
  BY DEF LogInv
<1>e. ControlInv /\ RemoveInv /\ SaneDisk
  BY <1>a DEF DurableInv
<1>f. UNCHANGED <<file, side, legacy>> => Recovered' = Recovered
  BY <1>a, SameDisk
<1>g. HandleLive /\ pc \notin Putting => Recovered = db.hdr
  BY <1>a DEF HomeInv
<1>h. HandleLive' /\ pc' \notin Putting => Recovered' = db'.hdr
  BY <1>b DEF HomeInv
<1>i. n = 0 => acked = {}
  <2>1. Window(0) = {} /\ ~FullAt(0)
    BY StoreAssumption DEF Window, Start, FullAt
  <2> QED BY <1>d, <2>1 DEF KeptInv
<1>j. /\ file.state # "ready" => n = 0
      /\ file'.state # "ready" => Recovered'.total = 0
  BY DEF Recovered, EmptyHeader
<1>1. CASE CreateFile
  <2>1. /\ file.state # "ready" /\ file'.state = "empty" /\ op' = "create" /\ pc' = "remove"
        /\ acked' = acked /\ floor' = floor /\ clock' = clock
    BY <1>1 DEF CreateFile, hist
  <2>2. acked' = {} /\ Recovered'.total = 0
    BY <1>i, <1>j, <2>1
  <2> QED BY <1>d, <2>1, <2>2, ResetStep DEF ClockInv, HandleLive, Writing, Putting
<1>2. CASE WriteInitialHeader
  <2>1. /\ pc = "initial" /\ op = "create" /\ file.state # "ready" /\ n = 0
        /\ db = NewHandle(EmptyHeader(ConfigMax))
        /\ data' = data /\ acked' = acked /\ floor' = floor /\ clock' = clock
    BY <1>2, <1>a, <1>e, <1>j
    DEF WriteInitialHeader, ControlInv, RemoveInv, PlainInv, hist
  <2>2. ~db.stale /\ m = 0
    BY <2>1 DEF NewHandle, EmptyHeader
  <2>3. CASE pc' = "idle" /\ db' = db
    <3>1. Recovered'.total = 0
      BY <1>h, <2>2, <2>3 DEF HandleLive, Putting
    <3> QED BY <2>1, <2>2, <2>3, <3>1, QuietStep DEF Putting
  <2>4. CASE pc' = "closed" /\ file' = file
    <3>1. Recovered'.total = 0
      BY <1>j, <2>1, <2>4
    <3> QED BY <2>1, <2>4, <3>1, QuietStep DEF HandleLive, Writing, Putting
  <2> QED BY <1>2, <2>3, <2>4 DEF WriteInitialHeader
<1>3. CASE OpenExisting
  <2>1. /\ UNCHANGED <<file, side, legacy, data, acked, floor, clock>> /\ pc' = "idle"
        /\ db' = OpenedHandle
    BY <1>3 DEF OpenExisting, disk, hist
  <2>2. ~db'.stale
    BY <2>1 DEF OpenedHandle, NewHandle
  <2> QED BY <1>f, <2>1, <2>2, QuietStep DEF Putting
<1>4. CASE OpenReconstruct
  BY <1>4, <1>e DEF OpenReconstruct, SaneDisk
<1>5. CASE WriteStart
  <2>1. /\ UNCHANGED <<file, side, legacy, data, acked, floor, db>>
        /\ pc = "idle" /\ pc' = "block" /\ clock' = clock + 1 /\ rec' = clock + 1
    BY <1>5 DEF WriteStart, ReserveBreached, PlainFaults, disk
  <2>2. Recovered' = Recovered
    BY <1>f, <2>1
  <2>3. OrderInv(data, acked, floor, Recovered.total)'
    BY <1>d, <2>1, <2>2
  <2>4. KeptInv(data, acked, Recovered.total)'
    BY <1>d, <2>1, <2>2
  <2>5. \A t \in acked : t <= clock + 1 /\ t < clock + 1
    BY <1>c, <1>d DEF ClockInv
  <2>6. ClockInv'
    BY <1>c, <1>d, <2>1, <2>5 DEF ClockInv, Putting
  <2>7. HealedInv'
    BY <1>d, <2>1 DEF HealedInv, Putting, HandleLive, Writing
  <2> QED BY <2>3, <2>4, <2>6, <2>7 DEF LogInv
<1>6. CASE PersistCap
  BY <1>6, <1>a DEF PersistCap, PlainInv
<1>7. CASE WriteBlock
  <2>1. /\ UNCHANGED <<file, side, legacy, acked, floor, clock, rec>>
        /\ pc = "block" /\ pc' = "side"
    BY <1>7 DEF WriteBlock, hist
  <2>2. Recovered' = Recovered /\ Recovered = db.hdr /\ db'.hdr.total = m + 1
    BY <1>a, <1>f, <1>g, <1>7, <2>1, WriteBlockHeader DEF HandleLive, Writing, Putting
  <2>3. Fits(n) /\ Fits(n + 1)
    BY <2>1, <2>2, RecoveredRegular DEF Regular
  <2>4. data' = [data EXCEPT ![SlotOf(n)] = rec] /\ data' \in [Slots -> Nat]
    BY <1>7, <1>b, <2>2, BlockWritten DEF TypeInv, TypeOK
  <2>5. floor < rec /\ rec = clock /\ (\A t \in acked : t < rec) /\ \A s \in Slots : data[s] < rec
    BY <1>d, <2>1 DEF ClockInv
  <2>6. /\ OrderInv(data', acked, floor, n) /\ KeptInv(data', acked, n)
        /\ At(data', n) = rec /\ Sorted(data', Window(n + 1))
    <3> HIDE DEF n
    <3> QED BY <1>c, <1>d, <2>3, <2>4, <2>5, BlockKeepsLog
  <2>7. OrderInv(data, acked, floor, Recovered.total)'
    BY <2>1, <2>2, <2>6
  <2>8. KeptInv(data, acked, Recovered.total)'
    BY <2>1, <2>2, <2>6
  <2>9. ClockInv'
    BY <1>d, <2>1, <2>5 DEF ClockInv, Putting
  <2>10. db'.hdr.total = n + 1 /\ db'.hdr.total - 1 = n /\ db'.hdr.total > 0
    BY <1>c, <2>2
  <2>11. HealedInv'
    BY <2>1, <2>6, <2>10 DEF HealedInv
  <2> QED BY <2>7, <2>8, <2>9, <2>11 DEF LogInv
<1>8. CASE ShrinkToFit
  BY <1>8 DEF ShrinkToFit, PlainFaults
<1>9. CASE BlockFailed
  <2>1. /\ UNCHANGED <<file, side, legacy, data, acked, floor, clock>>
        /\ pc = "block" /\ pc' = "idle"
        /\ db' = [db EXCEPT !.hdr = Evicted(db.hdr)] /\ ~IsEviction(db.hdr)
    BY <1>9, <1>c DEF BlockFailed, disk, hist, PlainFaults, TolerableFaults
  <2>2. db'.hdr = db.hdr /\ db'.stale = db.stale
    BY <1>c, <2>1 DEF Evicted, Handle
  <2> QED BY <1>f, <2>1, <2>2, QuietStep DEF HandleLive, Writing, Putting
<1>10. CASE OpenCompactSlot \/ OpenMirrorSlot
  <2>1. Recovered' = Recovered
    BY <1>a, <1>b, <1>10, TruncateKeeps
  <2>2. /\ data' = data /\ acked' = acked /\ floor' = floor /\ clock' = clock /\ rec' = rec
        /\ pc \in Putting /\ pc' \in Putting /\ db'.hdr = db.hdr
    BY <1>a, <1>10, OpenCompactShape, OpenMirrorShape
    DEF Putting, PlainFaults, TolerableFaults
  <2> QED BY <2>1, <2>2, PuttingStep
<1>11. CASE WriteCompactSlot \/ WriteMirrorSlot
  <2>1. /\ data' = data /\ floor' = floor /\ clock' = clock
        /\ pc \in {"sidebody", "mirrorbody"} /\ db'.hdr = db.hdr
        /\ \/ pc' = "mirror" /\ acked' = acked /\ rec' = rec
           \/ pc' = "idle" /\ acked' = acked \cup {rec}
    BY <1>a, <1>11, WriteCompactShape, WriteMirrorShape
  <2>2. n = m \/ n = m - 1
    BY <1>a, <2>1 DEF HomeInv, Putting
  <2>3. /\ Recovered'.total = m \/ Recovered'.total = m - 1
        /\ pc' = "idle" => Recovered'.total = m
        /\ pc' = "mirror" => n = m - 1
    <3>1. pc' = "mirror" => pc = "sidebody"
      BY <1>a, <1>11, WriteCompactShape, WriteMirrorShape
    <3> QED BY <1>a, <1>b, <1>h, <2>1, <3>1 DEF HomeInv, Putting, HandleLive
  <2>4. /\ rec = clock /\ floor < rec /\ \A t \in acked : t < rec
        /\ m > 0 /\ At(data, m - 1) = rec /\ Sorted(data, Window(m))
    BY <1>d, <2>1 DEF ClockInv, HealedInv, Putting
  <2>5. Fits(n) /\ Fits(m)
    BY <2>1, RecoveredRegular DEF Regular, HandleLive, Writing
  <2>6. acked' \in SUBSET (acked \cup {rec})
    BY <2>1
  <2>7. CASE Recovered'.total = m - 1
    <3>1. pc' = "mirror" /\ Recovered'.total = n
      BY <1>c, <2>1, <2>3, <2>7
    <3> QED BY <2>1, <3>1, PuttingStep DEF Putting
  <2>8. CASE Recovered'.total = m
    <3>1. OrderInv(data, acked', floor, m) /\ KeptInv(data, acked', m)
      <4>1. CASE n = m - 1
        <5>1. m = n + 1
          BY <1>c, <4>1
        <5>2. At(data, n) = rec /\ Sorted(data, Window(n + 1)) /\ Fits(n + 1)
          BY <2>4, <2>5, <4>1, <5>1
        <5>3. OrderInv(data, acked', floor, n + 1) /\ KeptInv(data, acked', n + 1)
          BY <1>c, <1>d, <2>4, <2>5, <2>6, <5>2, HeaderTurnsLog
        <5> QED BY <5>1, <5>3
      <4>2. CASE n = m
        <5>1. pc' = "idle" /\ acked' = acked \cup {rec}
          BY <1>c, <2>1, <2>3, <4>2
        <5>2. m - 1 \in Window(m)
          <6>1. Start(m) <= m - 1 /\ Start(m) \in Nat
            BY <1>c, <2>4, StoreAssumption DEF Start, FullAt
          <6> QED BY <1>c, <6>1 DEF Window
        <5>3. OrderInv(data, acked, floor, m) /\ KeptInv(data, acked, m)
          BY <1>d, <4>2
        <5> QED BY <1>c, <2>4, <2>5, <5>1, <5>2, <5>3, AckKeepsLog
      <4> QED BY <2>2, <4>1, <4>2
    <3>2. OrderInv(data, acked, floor, Recovered.total)'
      BY <2>1, <2>8, <3>1
    <3>3. KeptInv(data, acked, Recovered.total)'
      BY <2>1, <2>8, <3>1
    <3>4. ASSUME NEW t \in acked' PROVE t <= clock
      <4>1. t \in Nat /\ (t < rec \/ t = rec)
        BY <1>c, <2>4, <2>6, <3>4
      <4> QED BY <1>c, <2>4, <4>1
    <3>5. ClockInv'
      BY <1>d, <2>1, <2>4, <3>4 DEF ClockInv, Putting
    <3>6. HealedInv'
      BY <2>1, <2>4 DEF HealedInv, Putting
    <3> QED BY <3>2, <3>3, <3>5, <3>6 DEF LogInv
  <2> QED BY <2>3, <2>7, <2>8
<1>12. CASE CloseStart \/ DeleteStart \/ SyncStart
  <2>1. /\ UNCHANGED <<file, side, legacy, data, acked, floor, clock, db>>
        /\ pc = "idle" /\ pc' \in {"fold", "reopen"}
    BY <1>12 DEF CloseStart, DeleteStart, SyncStart, StartFold, disk, hist
  <2> QED BY <1>f, <2>1, QuietStep DEF HandleLive, Putting
<1>13. CASE ClearStart
  BY <1>13 DEF ClearStart, StartFold, PlainFaults
<1>14. CASE FoldHeader
  <2>1. /\ UNCHANGED <<side, legacy, data, clock>> /\ pc = "fold"
        /\ op \in {"close", "sync", "delete"}
    BY <1>14, <1>a, <1>e DEF FoldHeader, ControlInv, PlainInv
  <2>2. CASE /\ pc' = "remove" /\ op' = op /\ UNCHANGED <<acked, floor>>
             /\ db' = [db EXCEPT !.stale = FALSE, !.idxStale = FALSE]
    <3>1. db'.hdr = db.hdr /\ ~db'.stale
      BY <1>c, <2>2 DEF Handle
    <3>2. Recovered' = Recovered
      BY <1>g, <1>h, <2>1, <2>2, <3>1 DEF HandleLive, Putting
    <3> QED BY <2>1, <2>2, <3>1, <3>2, QuietStep DEF Putting
  <2>3. CASE FoldReturns(db) /\ file' = file
    <3>1. /\ UNCHANGED <<acked, floor>>
          /\ \/ pc' = "closed" \/ pc' = "unlink"
             \/ pc' = "reopen" /\ db' = db
      BY <2>1, <2>3 DEF FoldReturns
    <3>2. Recovered' = Recovered
      BY <1>f, <2>1, <2>3
    <3> QED BY <2>1, <3>1, <3>2, QuietStep DEF HandleLive, Writing, Putting
  <2> QED BY <1>14, <2>2, <2>3 DEF FoldHeader
<1>15. CASE RemoveSlot
  <2>1. UNCHANGED <<file, data, acked, floor, clock, db, pc, op>> /\ pc = "remove"
    BY <1>15 DEF RemoveSlot, hist
  <2>2. Recovered'.total = n
    <3>1. CASE op = "create"
      <4>1. file.state = "empty"
        BY <1>a, <3>1 DEF PlainInv
      <4> QED BY <1>j, <2>1, <4>1
    <3>2. CASE op # "create"
      BY <1>g, <1>h, <2>1, <3>2 DEF HandleLive, Putting
    <3> QED BY <3>1, <3>2
  <2> QED BY <2>1, <2>2, QuietStep DEF HandleLive, Putting
<1>16. CASE RemoveReturns
  <2> DEFINE d == [db EXCEPT !.mirrored = FALSE, !.lseq = 0]
  <2>1. d.hdr = db.hdr /\ d.stale = db.stale
    BY <1>c DEF Handle
  <2> HIDE DEF d
  <2>2. /\ UNCHANGED <<file, side, legacy, data, clock>> /\ pc = "remove"
    BY <1>16 DEF RemoveReturns, disk
  <2>3. CASE op = "create" /\ pc' = "initial" /\ UNCHANGED <<acked, floor>>
    BY <1>f, <2>2, <2>3, QuietStep DEF HandleLive, Writing, Putting
  <2>4. CASE op # "create" /\ FoldReturns(d)
    <3>1. /\ UNCHANGED <<acked, floor>>
          /\ \/ pc' = "closed" \/ pc' = "unlink"
             \/ pc' = "reopen" /\ db' = d
      BY <1>a, <2>4 DEF FoldReturns, PlainInv
    <3> QED BY <1>f, <2>1, <2>2, <2>4, <3>1, QuietStep DEF HandleLive, Writing, Putting
  <2> QED BY <1>16, <2>3, <2>4 DEF RemoveReturns, d
<1>17. CASE SyncReopen
  <2>1. /\ UNCHANGED <<file, side, legacy, data, acked, floor, clock>> /\ pc = "reopen"
        /\ \/ pc' = "idle" /\ db' = db
           \/ pc' = "closed"
    BY <1>17 DEF SyncReopen, disk, hist
  <2> QED BY <1>f, <2>1, QuietStep DEF HandleLive, Writing, Putting
<1>18. CASE UnlinkFile
  <2>1. pc' = "closed" /\ UNCHANGED <<side, legacy, clock>>
    BY <1>18 DEF UnlinkFile
  <2>2. CASE file'.state = "absent" /\ Dropped
    <3>1. Recovered'.total = 0 /\ acked' = {} /\ floor' <= clock'
      BY <1>c, <1>j, <2>1, <2>2 DEF Dropped
    <3> QED BY <2>1, <3>1, ResetStep DEF HandleLive, Writing, Putting
  <2>3. CASE UNCHANGED <<file, data, acked, floor>>
    BY <1>f, <2>1, <2>3, QuietStep DEF HandleLive, Writing, Putting
  <2> QED BY <1>18, <2>2, <2>3 DEF UnlinkFile
<1>19. CASE Crash
  <2>1. UNCHANGED <<file, side, legacy, data, acked, floor, clock>> /\ pc' = "closed"
    BY <1>19 DEF Crash, disk, hist
  <2> QED BY <1>f, <2>1, QuietStep DEF HandleLive, Writing, Putting
<1>20. CASE UNCHANGED vars
  <2>1. UNCHANGED <<file, side, legacy, data, acked, floor, clock, rec, db, pc, op>>
    BY <1>20 DEF vars, disk, hist
  <2>2. CASE pc \in Putting
    BY <1>f, <2>1, <2>2, PuttingStep
  <2>3. CASE pc \notin {"block"} \cup Putting
    BY <1>f, <2>1, <2>3, QuietStep DEF HandleLive
  <2>4. CASE pc = "block"
    <3>1. Recovered' = Recovered
      BY <1>f, <2>1
    <3> QED BY <2>1, <3>1 DEF LogInv, ClockInv, HealedInv, HandleLive
  <2> QED BY <2>2, <2>3, <2>4
<1> QED
  BY <1>1, <1>2, <1>3, <1>4, <1>5, <1>6, <1>7, <1>8, <1>9, <1>10, <1>11, <1>12,
     <1>13, <1>14, <1>15, <1>16, <1>17, <1>18, <1>19, <1>20
  DEF Next, Open, Call, Step

-----------------------------------------------------------------------------
(* What a reader sees *)

LEMMA WalkSeq ==
  ASSUME NEW h, Regular(h), NEW d \in [Slots -> Nat]
  PROVE  /\ Available(h) \in Nat
         /\ Walk(h, d) \in Seq(Nat)
         /\ DOMAIN Walk(h, d) = 1 .. Available(h)
         /\ Len(Walk(h, d)) = Available(h)
         /\ \A i \in 1 .. Available(h) : /\ Start(h.total) + i - 1 \in Window(h.total)
                                         /\ Walk(h, d)[i] = At(d, Start(h.total) + i - 1)
         /\ \A k \in Window(h.total) : /\ k - Start(h.total) + 1 \in 1 .. Available(h)
                                       /\ Walk(h, d)[k - Start(h.total) + 1] = At(d, k)
<1> DEFINE W == Walk(h, d)
           a == Available(h)
           s == Start(h.total)
<1>1. a \in Nat /\ a = h.total - s /\ h.total \in Nat /\ s \in Nat
  BY WindowSize, WindowSlots DEF Regular, Header
<1>2. \A i \in 1 .. a : /\ s + i - 1 \in Window(h.total)
                        /\ PhysicalIdx(h, i - 1) = SlotOf(s + i - 1)
  BY WalkIsWindow DEF Regular
<1>3. W = [i \in 1 .. a |-> d[PhysicalIdx(h, i - 1)]]
  BY DEF Walk
<1>4. \A i \in 1 .. a : W[i] = At(d, s + i - 1) /\ W[i] \in Nat
  <2> SUFFICES ASSUME NEW i \in 1 .. a PROVE W[i] = At(d, s + i - 1) /\ W[i] \in Nat
    OBVIOUS
  <2>1. W[i] = d[PhysicalIdx(h, i - 1)]
    BY <1>3
  <2>2. W[i] = At(d, s + i - 1)
    BY <1>2, <2>1 DEF At
  <2> QED BY <1>2, <2>2, AtNat DEF Regular
<1> HIDE DEF W, a, s
<1>5. W \in [1 .. a -> Nat]
  BY <1>3, <1>4
<1>6. W \in Seq(Nat) /\ Len(W) = a
  BY <1>1, <1>5
<1>7. \A k \in Window(h.total) : k - s + 1 \in 1 .. a /\ W[k - s + 1] = At(d, k)
  <2> SUFFICES ASSUME NEW k \in Window(h.total)
               PROVE  k - s + 1 \in 1 .. a /\ W[k - s + 1] = At(d, k)
    OBVIOUS
  <2>1. k \in s .. (h.total - 1)
    BY DEF Window, s
  <2>2. k - s + 1 \in 1 .. a /\ s + (k - s + 1) - 1 = k
    BY <1>1, <2>1
  <2> QED BY <1>4, <2>2
<1> QED BY <1>1, <1>2, <1>4, <1>5, <1>6, <1>7 DEF W, a, s

LEMMA LogIsOrdered ==
  ASSUME HeaderInv, LogInv
  PROVE  ViewOrdered
<1> DEFINE W == RecoveredView
           n == Recovered.total
           s == Start(n)
           a == Available(Recovered)
<1>1. Regular(Recovered) /\ data \in [Slots -> Nat] /\ Fits(n) /\ n \in Nat /\ s \in Nat
  BY RecoveredRegular, WindowSlots DEF HeaderInv, TypeInv, TypeOK, Regular, Fits
<1>2. /\ a \in Nat /\ DOMAIN W = 1 .. a /\ Len(W) = a
      /\ \A i \in 1 .. a : s + i - 1 \in Window(n) /\ W[i] = At(data, s + i - 1)
  BY <1>1, WalkSeq DEF RecoveredView
<1>3. OrderInv(data, acked, floor, n)
  BY DEF LogInv
<1> HIDE DEF W, n, s, a
<1>4. ASSUME NEW i \in 2 .. Len(W), NEW j \in 2 .. Len(W), i < j PROVE W[i] < W[j]
  <2>1. i \in 1 .. a /\ j \in 1 .. a
    BY <1>2
  <2>2. s + i - 1 \in Body(n) /\ s + j - 1 \in Body(n)
    <3>1. s + i - 1 # s /\ s + j - 1 # s
      BY <1>1, <1>2
    <3>2. s + i - 1 \in Window(n) /\ s + j - 1 \in Window(n)
      BY <1>2, <2>1
    <3>3. s = Start(n)
      BY DEF s
    <3>4. \A k \in Window(n) : k # Start(n) => k \in Body(n)
      BY <1>1, WindowSlots
    <3> QED BY <3>1, <3>2, <3>3, <3>4
  <2>3. s + i - 1 < s + j - 1
    BY <1>1, <1>2, <1>4
  <2> QED BY <1>2, <1>3, <2>1, <2>2, <2>3 DEF OrderInv, Sorted
<1>5. ASSUME NEW i \in DOMAIN W PROVE W[i] > floor
  BY <1>2, <1>3, <1>5 DEF OrderInv
<1> QED BY <1>4, <1>5 DEF ViewOrdered, W

(* A full log whose records are all younger than t: so many have followed. *)
LEMMA YoungerFill ==
  ASSUME NEW n, Fits(n), FullAt(n), NEW d \in [Slots -> Nat], NEW t \in Nat, NEW c \in Nat,
         \A k \in Window(n) : t < At(d, k) /\ At(d, k) <= c,
         NEW a, NEW low, OrderInv(d, a, low, n)
  PROVE  c - t >= ConfigMax
<1> SUFFICES ASSUME c - t < ConfigMax PROVE FALSE
  BY StoreAssumption
<1> DEFINE T == (t + 1) .. c
           f == [k \in Window(n) |-> At(d, k)]
<1>1. n \in Nat /\ ConfigMax \in Nat /\ ConfigMax > 0 /\ Start(n) = n - ConfigMax /\ n >= ConfigMax
  BY StoreAssumption DEF Fits, FullAt, Start
<1>2. IsFiniteSet(Window(n)) /\ Cardinality(Window(n)) = ConfigMax
  <2>1. Start(n) \in Int /\ n - 1 \in Int /\ ~(Start(n) > n - 1) /\ (n - 1) - Start(n) + 1 = ConfigMax
    BY <1>1
  <2> QED BY <2>1, FS_Interval DEF Window
<1>3. IsFiniteSet(T) /\ Cardinality(T) < ConfigMax
  <2>1. t + 1 \in Int /\ c \in Int /\ c - (t + 1) + 1 = c - t
    OBVIOUS
  <2>2. IsFiniteSet(T) /\ Cardinality(T) = IF t + 1 > c THEN 0 ELSE c - (t + 1) + 1
    BY <2>1, FS_Interval
  <2> QED BY <1>1, <2>1, <2>2
<1>4. f \in [Window(n) -> T]
  <2>1. \A k \in Window(n) : At(d, k) \in Nat
    BY AtNat
  <2> QED BY <2>1
<1> HIDE DEF f, T
<1>5. PICK x \in Window(n), y \in Window(n) : x # y /\ f[x] = f[y]
  <2>1. Cardinality(T) < Cardinality(Window(n))
    BY <1>2, <1>3
  <2> QED BY <1>2, <1>3, <1>4, <2>1, FS_PigeonHole
<1>6. At(d, x) = At(d, y) /\ x \in Nat /\ y \in Nat
  BY <1>5, WindowSlots DEF f
<1>7. At(d, x) \in Nat /\ At(d, y) \in Nat
  BY AtNat
<1>8. CASE x \in Body(n) /\ y \in Body(n)
  <2>1. x < y \/ y < x
    BY <1>5, <1>6
  <2> QED BY <1>6, <1>7, <1>8, <2>1 DEF OrderInv, Sorted
<1>9. CASE x = Start(n) /\ y \in Body(n)
  BY <1>6, <1>9 DEF OrderInv
<1>10. CASE y = Start(n) /\ x \in Body(n)
  BY <1>6, <1>10 DEF OrderInv
<1>11. \A k \in Window(n) : k # Start(n) => k \in Body(n)
  BY WindowSlots
<1> QED BY <1>5, <1>8, <1>9, <1>10, <1>11

LEMMA LogKeepsAcked ==
  ASSUME HeaderInv, LogInv
  PROVE  AckedSurvive
<1> DEFINE R == Recovered
           n == R.total
<1>1. /\ Regular(R) /\ data \in [Slots -> Nat] /\ Fits(n) /\ clock \in Nat /\ acked \subseteq Nat
      /\ \A s \in Slots : data[s] <= clock
  BY RecoveredRegular DEF HeaderInv, TypeInv, TypeOK, Regular
<1> SUFFICES ASSUME NEW t \in acked, ~IsEviction(R) \/ clock - t < R.max
             PROVE  t \in Elements(RecoveredView)
  BY DEF AckedSurvive
<1>2. R.max = ConfigMax /\ (IsEviction(R) <=> FullAt(n))
  BY <1>1, WindowSize DEF Regular
<1>3. CASE \E k \in Window(n) : At(data, k) = t
  <2>1. PICK k \in Window(n) : At(data, k) = t
    BY <1>3
  <2>2. PICK i \in DOMAIN Walk(R, data) : Walk(R, data)[i] = t
    <3>1. \E i \in DOMAIN Walk(R, data) : Walk(R, data)[i] = At(data, k)
      <4> HIDE DEF R
      <4>1. /\ k - Start(n) + 1 \in DOMAIN Walk(R, data)
            /\ Walk(R, data)[k - Start(n) + 1] = At(data, k)
        BY <1>1, <2>1, WalkSeq DEF n
      <4> QED BY <4>1
    <3> QED BY <2>1, <3>1
  <2> QED BY <2>2 DEF Elements, RecoveredView
<1>4. CASE FullAt(n) /\ \A k \in Window(n) : t < At(data, k)
  <2>1. \A k \in Window(n) : At(data, k) <= clock
    BY <1>1, WindowSlots DEF At
  <2>2. OrderInv(data, acked, floor, n)
    BY DEF LogInv
  <2>3. clock - t >= ConfigMax
    BY <1>1, <1>4, <2>1, <2>2, YoungerFill
  <2> QED BY <1>1, <1>2, <1>4, <2>3, StoreAssumption
<1> QED BY <1>3, <1>4 DEF LogInv, KeptInv

LEMMA LogHeals ==
  ASSUME HeaderInv, LogInv
  PROVE  HealedByWrite
<1> DEFINE h == db.hdr
           W == Walk(h, data)
           a == Available(h)
           s == Start(h.total)
<1> SUFFICES ASSUME pc = "idle", db.stale PROVE Ascending(W)
  BY DEF HealedByWrite
<1>1. Regular(h) /\ data \in [Slots -> Nat] /\ s \in Nat
  BY RecoveredRegular, WindowSlots DEF HeaderInv, TypeInv, TypeOK, HandleLive, Regular
<1>2. Sorted(data, Window(h.total))
  BY DEF LogInv, HealedInv, HandleLive
<1>3. /\ a \in Nat /\ DOMAIN W = 1 .. a
      /\ \A i \in 1 .. a : s + i - 1 \in Window(h.total) /\ W[i] = At(data, s + i - 1)
  BY <1>1, WalkSeq
<1> HIDE DEF W, a, s
<1>4. ASSUME NEW i \in DOMAIN W, NEW j \in DOMAIN W, i < j PROVE W[i] < W[j]
  <2>1. s + i - 1 < s + j - 1
    BY <1>1, <1>3, <1>4
  <2> QED BY <1>2, <1>3, <2>1 DEF Sorted
<1> QED BY <1>4 DEF Ascending

-----------------------------------------------------------------------------
(* Theorems *)

LEMMA LogAlways == PlainFaults => (Spec => [](HeaderInv /\ LogInv))
<1> SUFFICES ASSUME PlainFaults PROVE Spec => [](HeaderInv /\ LogInv)
  OBVIOUS
<1>1. Init => HeaderInv /\ LogInv
  BY HeaderInit, LogInit
<1>2. HeaderInv /\ LogInv /\ [Next]_vars => HeaderInv' /\ LogInv'
  BY HeaderStep, LogStep
<1> QED BY <1>1, <1>2, PTL DEF Spec

(* However often the power is cut, and whichever of the failures tolerated *)
(* happen, a record that tsdb_write_h acknowledged is found after a reopen *)
(* until max_records younger ones have been handed to tsdb_write_h, or the *)
(* database is deleted: for a ring of any size and a log of any length.    *)
THEOREM AckedRecordsSurvive == PlainFaults => (Spec => []AckedSurvive)
<1> SUFFICES ASSUME PlainFaults PROVE Spec => []AckedSurvive
  OBVIOUS
<1>1. HeaderInv /\ LogInv => AckedSurvive
  BY LogKeepsAcked
<1> QED BY <1>1, LogAlways, PTL

(* What tsdb_open finds after a power cut is in time order but for its     *)
(* first record, and nothing in it is older than the last tsdb_delete_h.   *)
THEOREM SurvivorsAreOrdered == PlainFaults => (Spec => []ViewOrdered)
<1> SUFFICES ASSUME PlainFaults PROVE Spec => []ViewOrdered
  OBVIOUS
<1>1. HeaderInv /\ LogInv => ViewOrdered
  BY LogIsOrdered
<1> QED BY <1>1, LogAlways, PTL

(* The first tsdb_write_h after the reopen puts that first record right:   *)
(* from then on a reader of the handle sees all records in order.          *)
THEOREM WriteHeals == PlainFaults => (Spec => []HealedByWrite)
<1> SUFFICES ASSUME PlainFaults PROVE Spec => []HealedByWrite
  OBVIOUS
<1>1. HeaderInv /\ LogInv => HealedByWrite
  BY LogHeals
<1> QED BY <1>1, LogAlways, PTL

-----------------------------------------------------------------------------
(* The log of n records in data area d *)

LogOf(n, d) == [i \in 1 .. (n - Start(n)) |-> At(d, Start(n) + i - 1)]

LEMMA WalkIsLog ==
  ASSUME NEW h, Regular(h), NEW d \in [Slots -> Nat]
  PROVE  Walk(h, d) = LogOf(h.total, d)
<1>1. Available(h) = h.total - Start(h.total)
  BY WindowSize DEF Regular
<1>2. \A i \in 1 .. Available(h) :
        d[PhysicalIdx(h, i - 1)] = At(d, Start(h.total) + i - 1)
  BY WalkIsWindow DEF Regular, At
<1> QED BY <1>1, <1>2 DEF Walk, LogOf

LEMMA LogOfSeq ==
  ASSUME NEW n, Fits(n), NEW d \in [Slots -> Nat]
  PROVE  /\ LogOf(n, d) \in Seq(Nat)
         /\ Len(LogOf(n, d)) = n - Start(n)
         /\ n \in Nat /\ Start(n) \in Nat /\ n - Start(n) \in Nat
         /\ \A i \in 1 .. (n - Start(n)) : LogOf(n, d)[i] = At(d, Start(n) + i - 1)
         /\ \A i \in 1 .. (n - Start(n)) : Start(n) + i - 1 \in Window(n)
         /\ FullAt(n) => n - Start(n) = ConfigMax /\ ConfigMax > 0
         /\ ~FullAt(n) => Start(n) = 0 /\ (ConfigMax > 0 => n < ConfigMax)
<1>1. n \in Nat /\ Start(n) \in Nat /\ n - Start(n) \in Nat /\ ConfigMax \in Nat
  BY WindowSlots, StoreAssumption DEF Fits, Start, FullAt
<1>2. \A i \in 1 .. (n - Start(n)) : Start(n) + i - 1 \in Window(n)
  BY <1>1 DEF Window
<1>3. \A i \in 1 .. (n - Start(n)) : At(d, Start(n) + i - 1) \in Nat
  BY <1>2, AtNat
<1>4. LogOf(n, d) \in [1 .. (n - Start(n)) -> Nat]
  BY <1>3 DEF LogOf
<1>5. LogOf(n, d) \in Seq(Nat) /\ Len(LogOf(n, d)) = n - Start(n)
  BY <1>1, <1>4
<1>6. \A i \in 1 .. (n - Start(n)) : LogOf(n, d)[i] = At(d, Start(n) + i - 1)
  BY DEF LogOf
<1>7. /\ FullAt(n) => n - Start(n) = ConfigMax /\ ConfigMax > 0
      /\ ~FullAt(n) => Start(n) = 0 /\ (ConfigMax > 0 => n < ConfigMax)
  BY <1>1 DEF FullAt, Start
<1> QED BY <1>1, <1>2, <1>5, <1>6, <1>7

(* A record joins a log that has room. *)
LEMMA LogGrows ==
  ASSUME NEW n, Fits(n), Fits(n + 1), ~FullAt(n), NEW d \in [Slots -> Nat]
  PROVE  LogOf(n + 1, d) = Append(LogOf(n, d), At(d, n))
<1> DEFINE L == LogOf(n, d)
           M == LogOf(n + 1, d)
<1>1. n \in Nat /\ Start(n) = 0 /\ Start(n + 1) = 0
  BY StoreAssumption DEF Fits, Start, FullAt
<1>2. L \in Seq(Nat) /\ Len(L) = n /\ \A i \in 1 .. n : L[i] = At(d, i - 1)
  <2>1. n - Start(n) = n /\ \A i \in 1 .. n : Start(n) + i - 1 = i - 1
    BY <1>1
  <2> QED BY <2>1, LogOfSeq
<1>3. M \in Seq(Nat) /\ Len(M) = n + 1 /\ \A i \in 1 .. n + 1 : M[i] = At(d, i - 1)
  <2>1. n + 1 - Start(n + 1) = n + 1 /\ \A i \in 1 .. n + 1 : Start(n + 1) + i - 1 = i - 1
    BY <1>1
  <2> QED BY <2>1, LogOfSeq
<1>4. At(d, n) \in Nat
  BY AtNat, NextSlot
<1> HIDE DEF L, M
<1>5. /\ Append(L, At(d, n)) \in Seq(Nat) /\ Len(Append(L, At(d, n))) = n + 1
      /\ \A i \in 1 .. n + 1 :
           Append(L, At(d, n))[i] = IF i = n + 1 THEN At(d, n) ELSE L[i]
  BY <1>1, <1>2, <1>4
<1>6. \A i \in 1 .. n + 1 : Append(L, At(d, n))[i] = M[i]
  BY <1>1, <1>2, <1>3, <1>5
<1> QED BY <1>3, <1>5, <1>6, SeqEqual DEF L, M

(* A full log turns: the record at its first place becomes the newest. *)
LEMMA LogTurns ==
  ASSUME NEW n, Fits(n), Fits(n + 1), FullAt(n), NEW d \in [Slots -> Nat]
  PROVE  LogOf(n + 1, d) = Append(Tail(LogOf(n, d)), Head(LogOf(n, d)))
<1> DEFINE L == LogOf(n, d)
           M == LogOf(n + 1, d)
           c == ConfigMax
           s == Start(n)
<1>1. n \in Nat /\ c \in Nat /\ c > 0 /\ s \in Nat /\ n = s + c /\ Start(n + 1) = s + 1
  BY StoreAssumption DEF Fits, Start, FullAt
<1>2. L \in Seq(Nat) /\ Len(L) = c /\ \A i \in 1 .. c : L[i] = At(d, s + i - 1)
  BY <1>1, LogOfSeq
<1>3. M \in Seq(Nat) /\ Len(M) = c /\ \A i \in 1 .. c : M[i] = At(d, s + i)
  <2>1. n + 1 - Start(n + 1) = c
    BY <1>1
  <2>2. \A i \in 1 .. c : Start(n + 1) + i - 1 = s + i
    BY <1>1
  <2> QED BY <2>1, <2>2, LogOfSeq
<1>4. At(d, n) = At(d, s)
  BY NextSlot DEF At
<1> HIDE DEF L, M, c, s
<1>5. L # << >> /\ Head(L) = At(d, s) /\ Head(L) \in Nat
  BY <1>1, <1>2
<1>6. Tail(L) \in Seq(Nat) /\ Len(Tail(L)) = c - 1 /\ \A i \in 1 .. c - 1 : Tail(L)[i] = L[i + 1]
  BY <1>1, <1>2, <1>5
<1> DEFINE T == Tail(L)
           A == Append(T, Head(L))
<1> HIDE DEF T
<1>7. /\ A \in Seq(Nat) /\ Len(A) = c
      /\ \A i \in 1 .. c : A[i] = IF i = c THEN At(d, s) ELSE T[i]
  BY <1>1, <1>5, <1>6 DEF T
<1> HIDE DEF A
<1>8. ASSUME NEW i \in 1 .. c PROVE A[i] = M[i]
  <2>1. CASE i = c
    BY <1>1, <1>3, <1>4, <1>7, <2>1
  <2>2. CASE i # c
    <3>1. i \in 1 .. c - 1 /\ i + 1 \in 1 .. c /\ s + (i + 1) - 1 = s + i
      BY <1>1, <2>2
    <3> QED BY <1>2, <1>3, <1>6, <1>7, <2>2, <3>1 DEF T
  <2> QED BY <2>1, <2>2
<1> QED BY <1>3, <1>7, <1>8, SeqEqual DEF L, M, A, T

(* The block of the next record in a full log takes the first place. *)
LEMMA LogDisplaced ==
  ASSUME NEW n, Fits(n), Fits(n + 1), FullAt(n), NEW d, NEW e, NEW r,
         e[SlotOf(n)] = r, \A x \in Slots : x # SlotOf(n) => e[x] = d[x]
  PROVE  \A i \in 1 .. (n - Start(n)) :
           /\ i = 1 => LogOf(n, e)[i] = r
           /\ i # 1 => LogOf(n, e)[i] = LogOf(n, d)[i]
<1> DEFINE c == n - Start(n)
           s == Start(n)
<1>1. n \in Nat /\ s \in Nat /\ c \in Nat
  BY WindowSlots, StoreAssumption DEF Fits, Start, FullAt
<1>2. At(e, s) = r
  BY NextSlot DEF At
<1>3. \A k \in Window(n) : k # s => At(e, k) = At(d, k)
  <2>1. \A k \in Window(n) : k # s => k \in Body(n)
    BY WindowSlots
  <2> QED BY <2>1, NextSlot, WindowSlots DEF At
<1>4. ASSUME NEW i \in 1 .. c PROVE At(e, s + i - 1) = IF i = 1 THEN r ELSE At(d, s + i - 1)
  <2>1. s + i - 1 \in Window(n)
    BY <1>1 DEF Window
  <2>2. CASE i = 1
    <3>1. s + i - 1 = s
      BY <1>1, <2>2
    <3> QED BY <1>2, <2>2, <3>1
  <2>3. CASE i # 1
    <3>1. s + i - 1 # s
      BY <1>1, <2>3
    <3> QED BY <1>3, <2>1, <2>3, <3>1
  <2> QED BY <2>2, <2>3
<1> QED BY <1>4 DEF LogOf

(* In a log that has room it takes a place outside. *)
LEMMA LogUntouched ==
  ASSUME NEW n, Fits(n), Fits(n + 1), ~FullAt(n), NEW d \in [Slots -> Nat],
         NEW e, NEW r, e = [d EXCEPT ![SlotOf(n)] = r]
  PROVE  LogOf(n, e) = LogOf(n, d)
<1>1. \A k \in Window(n) : At(e, k) = At(d, k)
  <2>1. \A k \in Window(n) : k \in Body(n)
    BY WindowSlots
  <2> QED BY <2>1, NextSlot, WindowSlots DEF At
<1> QED BY <1>1, LogOfSeq DEF LogOf

LEMMA LogEmpty == ASSUME NEW d PROVE LogOf(0, d) = << >>
  BY StoreAssumption DEF LogOf, Start, FullAt

-----------------------------------------------------------------------------
(* What a step does to the surviving records *)

(* Nothing, or a block is written, or the header of that block reaches the *)
(* disk, or there are no records any more.                                 *)
LEMMA LogMoves ==
  ASSUME PlainFaults, HeaderInv, HeaderInv', LogInv, [Next]_vars
  PROVE  \/ data' = data /\ Recovered'.total = Recovered.total
         \/ WriteBlock /\ Recovered' = Recovered /\ Recovered = db.hdr
         \/ /\ data' = data /\ pc \in Putting
            /\ db.hdr.total = Recovered.total + 1 /\ Recovered'.total = Recovered.total + 1
         \/ Recovered'.total = 0
<1> USE DEF Goto
<1> DEFINE n == Recovered.total
           m == db.hdr.total
<1>a. TypeInv /\ DurableInv /\ RingInv /\ PlainInv /\ HomeInv
  BY DEF HeaderInv
<1>b. TypeInv' /\ DurableInv' /\ RingInv' /\ PlainInv' /\ HomeInv'
  BY DEF HeaderInv
<1>c. m \in Nat /\ n \in Nat /\ db \in Handle
  BY <1>a, DiskTypes, RecoveredRegular DEF TypeInv, TypeOK, Regular, Fits
<1>e. ControlInv /\ SaneDisk
  BY <1>a DEF DurableInv
<1>f. UNCHANGED <<file, side, legacy>> => Recovered' = Recovered
  BY <1>a, SameDisk
<1>g. HandleLive /\ pc \notin Putting => Recovered = db.hdr
  BY <1>a DEF HomeInv
<1>h. HandleLive' /\ pc' \notin Putting => Recovered' = db'.hdr
  BY <1>b DEF HomeInv
<1>j. /\ file.state # "ready" => n = 0
      /\ file'.state # "ready" => Recovered'.total = 0
  BY DEF Recovered, EmptyHeader
<1>1. CASE UNCHANGED <<file, side, legacy, data>>
  BY <1>f, <1>1
<1>2. CASE CreateFile
  BY <1>2, <1>j DEF CreateFile
<1>3. CASE WriteInitialHeader
  <2>1. pc = "initial" /\ data' = data /\ UNCHANGED <<side, legacy>>
    BY <1>3 DEF WriteInitialHeader
  <2>2. CASE pc' = "idle" /\ db' = db
    <3>1. db.hdr.total = 0
      BY <1>a, <1>e, <2>1 DEF DurableInv, ControlInv, RemoveInv, NewHandle, EmptyHeader
    <3> QED BY <1>h, <2>2, <3>1 DEF HandleLive, Putting
  <2>3. CASE file' = file
    BY <1>f, <2>1, <2>3
  <2> QED BY <1>3, <2>2, <2>3 DEF WriteInitialHeader
<1>4. CASE OpenReconstruct \/ PersistCap \/ ShrinkToFit
  BY <1>4, <1>a, <1>e DEF OpenReconstruct, SaneDisk, PersistCap, PlainInv, ShrinkToFit, PlainFaults
<1>5. CASE WriteBlock
  BY <1>5, <1>f, <1>g DEF WriteBlock, HandleLive, Writing, Putting
<1>6. CASE OpenCompactSlot \/ OpenMirrorSlot
  <2>1. Recovered' = Recovered
    BY <1>a, <1>b, <1>6, TruncateKeeps
  <2> QED BY <1>6, <2>1 DEF OpenCompactSlot, OpenMirrorSlot
<1>7. CASE WriteCompactSlot \/ WriteMirrorSlot
  <2>1. /\ data' = data /\ pc \in {"sidebody", "mirrorbody"} /\ db'.hdr = db.hdr
        /\ pc' \in {"mirror", "idle"}
    BY <1>a, <1>7, WriteCompactShape, WriteMirrorShape
  <2>2. n = m \/ n = m - 1
    BY <1>a, <2>1 DEF HomeInv, Putting
  <2>3. Recovered'.total = m \/ (pc' = "mirror" /\ Recovered'.total = m - 1)
    BY <1>b, <1>h, <2>1 DEF HomeInv, Putting, HandleLive
  <2>4. pc' = "mirror" => n = m - 1
    <3>1. pc' = "mirror" => pc = "sidebody"
      BY <1>a, <1>7, WriteCompactShape, WriteMirrorShape
    <3> QED BY <1>a, <3>1 DEF HomeInv, Putting
  <2>5. CASE n = m
    BY <1>c, <2>1, <2>3, <2>4, <2>5
  <2>6. CASE n = m - 1
    <3>1. m = n + 1
      BY <1>c, <2>6
    <3> QED BY <1>c, <2>1, <2>3, <3>1 DEF Putting
  <2> QED BY <2>2, <2>5, <2>6
<1>8. CASE FoldHeader
  <2>1. UNCHANGED <<side, legacy, data>> /\ pc = "fold"
    BY <1>8 DEF FoldHeader
  <2>2. CASE pc' = "remove" /\ op' = op /\ db' = [db EXCEPT !.stale = FALSE, !.idxStale = FALSE]
    <3>1. db'.hdr = db.hdr
      BY <1>c, <2>2 DEF Handle
    <3>2. op # "create"
      BY <1>e, <2>1 DEF ControlInv
    <3> QED BY <1>g, <1>h, <2>1, <2>2, <3>1, <3>2 DEF HandleLive, Putting
  <2>3. CASE file' = file
    BY <1>f, <2>1, <2>3
  <2> QED BY <1>8, <2>2, <2>3 DEF FoldHeader
<1>9. CASE RemoveSlot
  <2>1. UNCHANGED <<file, data, db, pc, op>> /\ pc = "remove"
    BY <1>9 DEF RemoveSlot
  <2>2. CASE op = "create"
    <3>1. file.state = "empty"
      BY <1>a, <2>2 DEF PlainInv
    <3> QED BY <1>j, <2>1, <3>1
  <2>3. CASE op # "create"
    BY <1>g, <1>h, <2>1, <2>3 DEF HandleLive, Putting
  <2> QED BY <2>2, <2>3
<1>10. CASE UnlinkFile
  BY <1>10, <1>f, <1>j DEF UnlinkFile
<1>11. CASE ClearStart
  BY <1>11 DEF ClearStart, StartFold, PlainFaults
<1> QED
  BY <1>1, <1>2, <1>3, <1>4, <1>5, <1>6, <1>7, <1>8, <1>9, <1>10, <1>11
  DEF Next, Open, Call, Step, OpenExisting, WriteStart, BlockFailed, CloseStart, DeleteStart,
      SyncStart, StartFold, RemoveReturns, SyncReopen, Crash, vars, disk

-----------------------------------------------------------------------------
(* Refinement *)

ClockBound == clock <= MaxTs

(* What is known in every state: the surviving header is one whose log can *)
(* be read, and the clock is within the timestamps there are.              *)
ViewInv ==
  /\ HeaderInv
  /\ LogInv
  /\ Regular(Recovered)
  /\ ClockBound

LEMMA ClockStep ==
  ASSUME TypeInv, ClockBound, [Next]_vars
  PROVE  ClockBound'
<1>1. clock \in Nat /\ MaxTs \in Nat
  BY StoreAssumption DEF TypeInv, TypeOK
<1>2. clock' = clock \/ (clock < MaxTs /\ clock' = clock + 1)
  BY DEF Next, Open, Call, Step, CreateFile, OpenExisting, OpenReconstruct, WriteStart, MayWrite,
         CloseStart, DeleteStart, ClearStart, SyncStart, StartFold, WriteInitialHeader,
         PersistCap, WriteBlock, ShrinkToFit, BlockFailed, OpenCompactSlot, WriteCompactSlot,
         OpenMirrorSlot, WriteMirrorSlot, FoldHeader, RemoveSlot, RemoveReturns, SyncReopen,
         UnlinkFile, Crash, vars, hist
<1> QED BY <1>1, <1>2 DEF ClockBound

LEMMA ViewIsLog ==
  ASSUME ViewInv
  PROVE  RecoveredView = LogOf(Recovered.total, data)
  BY WalkIsLog DEF ViewInv, RecoveredView, HeaderInv, TypeInv, TypeOK

(* The same of the next state. *)
LEMMA NextViewIsLog ==
  ASSUME ViewInv'
  PROVE  RecoveredView' = LogOf(Recovered'.total, data')
<1>1. Regular(Recovered') /\ data' \in [Slots -> Nat]
  BY DEF ViewInv, HeaderInv, TypeInv, TypeOK
<1>2. RecoveredView' = Walk(Recovered', data')
  BY DEF RecoveredView
<1> HIDE DEF RecoveredView
<1> QED BY <1>1, <1>2, WalkIsLog

(* The abstract log is full when the ring is. *)
LEMMA FullIsFull ==
  ASSUME ViewInv
  PROVE  SurvivingLog!Full <=> FullAt(Recovered.total)
<1>1. /\ RecoveredView = LogOf(Recovered.total, data) /\ Fits(Recovered.total)
      /\ data \in [Slots -> Nat]
  BY ViewIsLog DEF ViewInv, Regular, HeaderInv, TypeInv, TypeOK
<1> DEFINE n == Recovered.total
<1>2. /\ Len(RecoveredView) = n - Start(n) /\ n \in Nat
      /\ FullAt(n) => n - Start(n) = ConfigMax /\ ConfigMax > 0
      /\ ~FullAt(n) => Start(n) = 0 /\ (ConfigMax > 0 => n < ConfigMax)
  BY <1>1, LogOfSeq
<1> HIDE DEF n
<1>3. SurvivingLog!Full <=> ConfigMax > 0 /\ Len(RecoveredView) = ConfigMax
  BY DEF SurvivingLog!Full
<1>4. SurvivingLog!Full <=> FullAt(n)
  BY <1>2, <1>3, StoreAssumption
<1> QED BY <1>4 DEF n

(* A block written to a full ring displaces the oldest record; one written *)
(* to a ring with room is not seen.                                        *)
LEMMA BlockRefines ==
  ASSUME PlainFaults, ViewInv, ViewInv', WriteBlock, Recovered' = Recovered, Recovered = db.hdr
  PROVE  \/ RecoveredView' = RecoveredView
         \/ \E r \in 1 .. MaxTs : SurvivingLog!Displace(r)
<1> DEFINE n == Recovered.total
<1>1. /\ data \in [Slots -> Nat] /\ data' \in [Slots -> Nat] /\ pc = "block"
      /\ clock \in Nat /\ floor \in Nat /\ MaxTs \in Nat
  BY StoreAssumption DEF ViewInv, HeaderInv, TypeInv, TypeOK, WriteBlock
<1>2. Fits(n) /\ Fits(n + 1)
  BY <1>1, RecoveredRegular DEF ViewInv, Regular
<1>3. data' = [data EXCEPT ![SlotOf(n)] = rec]
  BY BlockWritten DEF ViewInv
<1>4. rec \in 1 .. MaxTs /\ \A s \in Slots : data[s] < rec
  BY <1>1 DEF ViewInv, LogInv, ClockInv, ClockBound
<1>5. RecoveredView = LogOf(n, data) /\ RecoveredView' = LogOf(n, data')
  BY ViewIsLog, NextViewIsLog
<1> HIDE DEF n
<1>6. CASE ~FullAt(n)
  BY <1>1, <1>2, <1>3, <1>5, <1>6, LogUntouched
<1>7. CASE FullAt(n)
  <2>1. RecoveredView' = [RecoveredView EXCEPT ![1] = rec]
    <3>1. LogOf(n, data') = [LogOf(n, data) EXCEPT ![1] = rec]
      <4>1. \A i \in 1 .. (n - Start(n)) :
              /\ i = 1 => LogOf(n, data')[i] = rec
              /\ i # 1 => LogOf(n, data')[i] = LogOf(n, data)[i]
        <5>1. data'[SlotOf(n)] = rec /\ \A x \in Slots : x # SlotOf(n) => data'[x] = data[x]
          BY <1>1, <1>2, <1>3, NextSlot
        <5> QED BY <1>2, <1>7, <5>1, LogDisplaced
      <4>2. /\ LogOf(n, data) = [i \in 1 .. (n - Start(n)) |-> LogOf(n, data)[i]]
            /\ LogOf(n, data') = [i \in 1 .. (n - Start(n)) |-> LogOf(n, data')[i]]
        BY DEF LogOf
      <4> QED BY <4>1, <4>2
    <3> QED BY <1>5, <3>1
  <2>2. SurvivingLog!Full
    BY <1>7, FullIsFull DEF n
  <2>3. \A i \in DOMAIN RecoveredView : rec > RecoveredView[i]
    <3>1. DOMAIN RecoveredView = 1 .. (n - Start(n))
      BY <1>5 DEF LogOf
    <3>2. \A i \in 1 .. (n - Start(n)) :
            RecoveredView[i] = At(data, Start(n) + i - 1) /\ Start(n) + i - 1 \in Window(n)
      BY <1>1, <1>2, <1>5, LogOfSeq
    <3>3. \A k \in Window(n) : At(data, k) \in Nat /\ At(data, k) < rec
      BY <1>1, <1>2, <1>4, WindowSlots DEF At
    <3> QED BY <1>4, <3>1, <3>2, <3>3
  <2>4. SurvivingLog!Displace(rec)
    BY <2>1, <2>2, <2>3 DEF SurvivingLog!Displace, SurvivingLog!NewerThanAll
  <2> QED BY <1>4, <2>4
<1> QED BY <1>6, <1>7

(* The header of that block joins it to the log, or turns the log. *)
LEMMA HeaderRefines ==
  ASSUME ViewInv, ViewInv', data' = data, pc \in Putting,
         db.hdr.total = Recovered.total + 1, Recovered'.total = Recovered.total + 1
  PROVE  SurvivingLog!Turn \/ \E r \in 1 .. MaxTs : SurvivingLog!Append1(r)
<1> DEFINE n == Recovered.total
<1>1. /\ data \in [Slots -> Nat] /\ clock \in Nat /\ floor \in Nat /\ MaxTs \in Nat /\ n \in Nat
      /\ rec \in Nat
  BY StoreAssumption DEF ViewInv, HeaderInv, TypeInv, TypeOK, Regular, Fits
<1>2. Fits(n) /\ Fits(n + 1)
  BY RecoveredRegular DEF ViewInv, Regular, HandleLive, Writing, Putting
<1>3. rec \in 1 .. MaxTs /\ At(data, n) = rec /\ Sorted(data, Window(n + 1))
  <2>1. db.hdr.total = n + 1 /\ db.hdr.total - 1 = n
    BY <1>1
  <2>2. At(data, n) = rec /\ Sorted(data, Window(n + 1))
    <3>1. At(data, db.hdr.total - 1) = rec /\ Sorted(data, Window(db.hdr.total))
      BY DEF ViewInv, LogInv, HealedInv
    <3> HIDE DEF n
    <3> QED BY <2>1, <3>1
  <2>3. rec = clock /\ floor < rec /\ clock <= MaxTs
    BY DEF ViewInv, LogInv, ClockInv, ClockBound
  <2> QED BY <1>1, <2>2, <2>3
<1>4. RecoveredView = LogOf(n, data) /\ RecoveredView' = LogOf(n + 1, data)
  BY ViewIsLog, NextViewIsLog
<1>5. SurvivingLog!Full <=> FullAt(n)
  BY FullIsFull
<1> HIDE DEF n
<1> DEFINE L == RecoveredView
           c == n - Start(n)
<1>6. /\ L \in Seq(Nat) /\ Len(L) = c /\ c \in Nat /\ Start(n) \in Nat
      /\ \A i \in 1 .. c : L[i] = At(data, Start(n) + i - 1) /\ Start(n) + i - 1 \in Window(n)
  BY <1>1, <1>2, <1>4, LogOfSeq
<1>7. \A k \in Body(n) : At(data, k) < rec
  <2> SUFFICES ASSUME NEW k \in Body(n) PROVE At(data, k) < rec
    OBVIOUS
  <2>1. k \in Window(n + 1) /\ n \in Window(n + 1)
    BY <1>2, NextSlot
  <2>2. k < n
    BY <1>1, WindowSlots, <1>2, StoreAssumption DEF Body, Start, FullAt
  <2> QED BY <1>3, <2>1, <2>2 DEF Sorted
<1>8. CASE ~FullAt(n)
  <2>1. RecoveredView' = Append(RecoveredView, rec)
    BY <1>1, <1>2, <1>3, <1>4, <1>8, LogGrows
  <2>2. \A i \in DOMAIN L : rec > L[i]
    <3>1. \A k \in Window(n) : At(data, k) \in Nat /\ At(data, k) < rec
      BY <1>1, <1>2, <1>7, <1>8, AtNat, WindowSlots
    <3> HIDE DEF L
    <3> QED BY <1>1, <1>6, <3>1
  <2>3. SurvivingLog!Append1(rec)
    BY <1>5, <1>8, <2>1, <2>2 DEF SurvivingLog!Append1, SurvivingLog!NewerThanAll
  <2> QED BY <1>3, <2>3
<1>9. CASE FullAt(n)
  <2>1. RecoveredView' = Append(Tail(RecoveredView), Head(RecoveredView))
    BY <1>1, <1>2, <1>4, <1>9, LogTurns
  <2>2. c > 0
    BY <1>1, <1>2, <1>9, LogOfSeq
  <2> HIDE DEF L
  <2>3. Head(L) = rec
    <3>1. At(data, Start(n)) = rec
      BY <1>2, <1>3, <1>9, NextSlot DEF At
    <3>2. Head(L) = L[1] /\ L[1] = At(data, Start(n))
      BY <1>6, <2>2
    <3> QED BY <3>1, <3>2
  <2>4. DOMAIN Tail(L) = 1 .. (c - 1) /\ \A i \in 1 .. (c - 1) : Tail(L)[i] = L[i + 1]
    <3>1. L # << >>
      BY <1>6, <2>2
    <3> QED BY <1>6, <2>2, <3>1
  <2>5. ASSUME NEW i \in DOMAIN Tail(L) PROVE rec > Tail(L)[i]
    <3>1. i \in 1 .. (c - 1) /\ i + 1 \in 1 .. c /\ Start(n) + (i + 1) - 1 # Start(n)
      BY <1>6, <2>2, <2>4
    <3>2. Tail(L)[i] = At(data, Start(n) + (i + 1) - 1) /\ Start(n) + (i + 1) - 1 \in Window(n)
      BY <1>6, <2>4, <3>1
    <3> DEFINE k == Start(n) + (i + 1) - 1
    <3> HIDE DEF k
    <3>3. k \in Window(n) /\ k # Start(n) /\ Tail(L)[i] = At(data, k)
      BY <3>1, <3>2 DEF k
    <3>4. k \in Body(n) /\ At(data, k) \in Nat
      BY <1>1, <1>2, <3>3, WindowSlots, AtNat
    <3> QED BY <1>1, <1>7, <3>3, <3>4
  <2>6. \A i \in DOMAIN Tail(RecoveredView) : Head(RecoveredView) > Tail(RecoveredView)[i]
    BY <2>3, <2>5 DEF L
  <2>7. SurvivingLog!Turn
    BY <1>5, <1>9, <2>1, <2>6 DEF SurvivingLog!Turn, SurvivingLog!NewerThanAll
  <2> QED BY <2>7
<1> QED BY <1>8, <1>9

LEMMA RefineStep ==
  ASSUME PlainFaults, ViewInv, ViewInv', [Next]_vars
  PROVE  SurvivingLog!Next \/ RecoveredView' = RecoveredView
<1>1. CASE data' = data /\ Recovered'.total = Recovered.total
  BY <1>1, ViewIsLog, NextViewIsLog
<1>2. CASE WriteBlock /\ Recovered' = Recovered /\ Recovered = db.hdr
  BY <1>2, BlockRefines DEF SurvivingLog!Next
<1>3. CASE /\ data' = data /\ pc \in Putting
           /\ db.hdr.total = Recovered.total + 1 /\ Recovered'.total = Recovered.total + 1
  BY <1>3, HeaderRefines DEF SurvivingLog!Next
<1>4. CASE Recovered'.total = 0
  <2>1. RecoveredView' = << >>
    BY <1>4, NextViewIsLog, LogEmpty
  <2> QED BY <2>1 DEF SurvivingLog!Next, SurvivingLog!Reset
<1>5. HeaderInv /\ HeaderInv' /\ LogInv
  BY DEF ViewInv
<1> QED BY <1>1, <1>2, <1>3, <1>4, <1>5, LogMoves

(* The records that would survive a power cut are a bounded log in which a *)
(* record first takes the oldest one's place and then becomes the newest:  *)
(* no crash, failed slot or fold of tsdb_write_h, tsdb_fold_header and     *)
(* tsdb_open shows, for a ring of any size and for an unlimited log.       *)
THEOREM EngineIsRingLog == PlainFaults => (Spec => ImplementsRingLog)
<1> SUFFICES ASSUME PlainFaults PROVE Spec => ImplementsRingLog
  OBVIOUS
<1>1. Init => SurvivingLog!Init
  <2> SUFFICES ASSUME Init PROVE RecoveredView = << >>
    BY DEF SurvivingLog!Init
  <2>1. Recovered = EmptyHeader(ConfigMax)
    BY DEF Init, Recovered
  <2>2. Available(Recovered) = 0
    BY <2>1, StoreAssumption DEF Available, Unlimited, EmptyHeader
  <2> QED BY <2>2 DEF RecoveredView, Walk
<1>2. Spec => []ViewInv
  <2>1. Init => TypeInv /\ ClockBound
    BY TypeInit, StoreAssumption DEF Init, ClockBound
  <2>2. TypeInv /\ ClockBound /\ [Next]_vars => TypeInv' /\ ClockBound'
    BY TypeStep, ClockStep
  <2>3. HeaderInv /\ LogInv /\ ClockBound => ViewInv
    BY RecoveredRegular DEF ViewInv
  <2> QED BY <2>1, <2>2, <2>3, LogAlways, PTL DEF Spec
<1>3. ViewInv /\ ViewInv' /\ [Next]_vars => [SurvivingLog!Next]_RecoveredView
  BY RefineStep
<1>4. Spec => [][SurvivingLog!Next]_RecoveredView
  BY <1>2, <1>3, PTL DEF Spec
<1>5. Spec => SurvivingLog!Init
  BY <1>1 DEF Spec
<1> QED BY <1>4, <1>5 DEF ImplementsRingLog, SurvivingLog!Spec

-----------------------------------------------------------------------------
(* What the handle shows *)

LEMMA RingOfWellFormed ==
  ASSUME NEW h, HdrOK(h), WellFormed(h)
  PROVE  RingHeader(h)
  BY DEF HdrOK, WellFormed, Aligned, RingHeader, RecordIdx, Unlimited, IsEviction

LEMMA ShowsNothing ==
  ASSUME NEW h, h.total = 0, NEW d
  PROVE  Available(h) = 0 => Shows(h, d, {})
<1>1. 1 .. 0 = {} /\ ~(0 > 0)
  OBVIOUS
<1> QED BY <1>1 DEF Shows

LEMMA EmptyShows ==
  ASSUME NEW m \in Nat, NEW d
  PROVE  Shows(EmptyHeader(m), d, {})
<1>1. EmptyHeader(m).total = 0 /\ Available(EmptyHeader(m)) = 0
  BY DEF EmptyHeader, Available, Unlimited
<1> QED BY <1>1, ShowsNothing

(* A cap leaves every record where it is. *)
LEMMA ShowsCapped ==
  ASSUME NEW h, RingHeader(h), h.total > 0, ~IsEviction(h),
         NEW c, RingHeader(c), c.max = h.total, c.total = h.total,
         c.oldestTs = h.oldestTs, c.newestTs = h.newestTs,
         NEW d, NEW a, Shows(h, d, a)
  PROVE  Shows(c, d, a)
<1>1. h.max \in Nat /\ h.total \in Nat
  BY HeaderNumbers
<1>2. Available(h) = h.total /\ Available(c) = h.total /\ h.oldest = 0 /\ IsEviction(c)
  BY <1>1 DEF Available, IsEviction, Unlimited, RingHeader
<1>3. c.oldest = 0
  <2>1. h.total % h.total = 0
    BY <1>1, ModTwice
  <2> QED BY <1>2, <2>1 DEF RingHeader
<1>4. ASSUME NEW k \in 1 .. h.total
      PROVE  SlotAt(c, k) = SlotAt(h, k)
  <2>1. k - 1 \in Nat /\ k - 1 < h.total
    BY <1>1
  <2>2. PhysicalIdx(h, k - 1) = k - 1
    <3>1. h.max = 0 \/ k - 1 < h.max
      BY <1>1, <1>2, <2>1 DEF IsEviction, Unlimited
    <3>2. PhysicalIdx(h, k - 1) = IF h.max = 0 THEN k - 1
                                  ELSE IF h.oldest + (k - 1) < h.max THEN h.oldest + (k - 1)
                                  ELSE h.oldest + (k - 1) - h.max
      BY <1>1, <1>2, <2>1, SlotCases
    <3> QED BY <1>1, <1>2, <2>1, <3>1, <3>2
  <2>3. PhysicalIdx(c, k - 1) = k - 1
    <3>1. PhysicalIdx(c, k - 1) = IF c.max = 0 THEN k - 1
                                  ELSE IF c.oldest + (k - 1) < c.max THEN c.oldest + (k - 1)
                                  ELSE c.oldest + (k - 1) - c.max
      BY <1>1, <1>2, <2>1, SlotCases
    <3> QED BY <1>1, <1>3, <2>1, <3>1
  <2> QED BY <2>2, <2>3 DEF SlotAt
<1>5. \A k \in 1 .. h.total : SlotAt(c, k) = SlotAt(h, k)
  BY <1>4
<1>6. 1 \in 1 .. h.total /\ h.total \in 1 .. h.total
  BY <1>1
<1> QED BY <1>2, <1>5, <1>6 DEF Shows

(* A record written: it becomes the newest shown, and at most the oldest   *)
(* one goes.                                                               *)
LEMMA ShowsNext ==
  ASSUME NEW h, RingHeader(h), Unlimited(h) => h.total < MaxSlots,
         NEW d \in [Slots -> Nat], NEW e, NEW r \in Nat, NEW a \in SUBSET Nat,
         NEW b, RingHeader(b), b.max = h.max, b.total = h.total + 1, b.newestTs = r,
         b.oldestTs = IF IsEviction(h) THEN e[b.oldest]
                      ELSE IF h.total = 0 THEN r ELSE h.oldestTs,
         e[RecordIdx(h)] = r,
         \A s \in Slots : s # RecordIdx(h) => e[s] = d[s],
         \A s \in Slots : d[s] < r, \A t \in a : t < r, Shows(h, d, a)
  PROVE  Shows(b, e, a \cup {r})
<1> DEFINE m == Available(b)
           n == Available(h)
           x == Available(h) + 1 - Available(b)
<1>1. /\ m \in Nat \ {0} /\ x \in 0 .. 1 /\ n \in Nat /\ m = n + 1 - x
      /\ SlotAt(b, m) = RecordIdx(h)
      /\ \A k \in 1 .. m - 1 : /\ k + x \in 1 .. n
                               /\ SlotAt(b, k) = SlotAt(h, k + x)
                               /\ SlotAt(b, k) # RecordIdx(h)
  BY SlotsShift, HeaderNumbers
<1>2. x = 1 => IsEviction(h) /\ IsEviction(b)
  BY HeaderNumbers DEF Available, IsEviction, Unlimited
<1>3. IsEviction(h) => IsEviction(b)
  BY HeaderNumbers DEF IsEviction, Unlimited
<1>4. \A k \in 1 .. n : SlotAt(h, k) \in Slots /\ d[SlotAt(h, k)] \in Nat
  <2> SUFFICES ASSUME NEW k \in 1 .. n PROVE SlotAt(h, k) \in Slots
    OBVIOUS
  <2>1. k - 1 \in Nat /\ k - 1 < Available(h)
    BY <1>1
  <2> QED BY <2>1, SlotsExist DEF SlotAt
<1>5. /\ \A i, j \in 1 .. n : i < j => d[SlotAt(h, i)] < d[SlotAt(h, j)]
      /\ \A i \in 1 .. n : d[SlotAt(h, i)] \in a
      /\ \A t \in a : \/ \E i \in 1 .. n : d[SlotAt(h, i)] = t
                      \/ IsEviction(h) /\ \A i \in 1 .. n : t < d[SlotAt(h, i)]
      /\ h.total > 0 => h.oldestTs = d[SlotAt(h, 1)]
  BY DEF Shows
<1> HIDE DEF m, n, x
<1>6. \A k \in 1 .. m - 1 : k + x \in 1 .. n /\ e[SlotAt(b, k)] = d[SlotAt(h, k + x)]
  BY <1>1, <1>4
<1>7. e[SlotAt(b, m)] = r
  BY <1>1
<1>8. \A k \in 1 .. m : k = m \/ k \in 1 .. m - 1
  BY <1>1
<1>9. ASSUME NEW i \in 1 .. m, NEW j \in 1 .. m, i < j
      PROVE  e[SlotAt(b, i)] < e[SlotAt(b, j)]
  <2>1. i \in 1 .. m - 1
    BY <1>1, <1>9
  <2>2. CASE j = m
    BY <1>4, <1>6, <1>7, <2>1, <2>2
  <2>3. CASE j \in 1 .. m - 1
    <3>1. i + x < j + x
      BY <1>1, <1>9
    <3> QED BY <1>5, <1>6, <2>1, <2>3, <3>1
  <2> QED BY <1>8, <2>2, <2>3
<1>10. ASSUME NEW i \in 1 .. m PROVE e[SlotAt(b, i)] \in a \cup {r}
  BY <1>5, <1>6, <1>7, <1>8
<1>11. ASSUME NEW t \in a \cup {r}
       PROVE  \/ \E i \in 1 .. m : e[SlotAt(b, i)] = t
              \/ IsEviction(b) /\ \A i \in 1 .. m : t < e[SlotAt(b, i)]
  <2>1. CASE t = r
    BY <1>1, <1>7, <2>1
  <2>2. CASE t \in a /\ \E i \in 1 .. n : d[SlotAt(h, i)] = t
    <3>1. PICK i \in 1 .. n : d[SlotAt(h, i)] = t
      BY <2>2
    <3>2. CASE i - x \in 1 .. m - 1
      <4>1. (i - x) + x = i /\ i - x \in 1 .. m
        BY <1>1, <3>2
      <4>2. e[SlotAt(b, i - x)] = t
        BY <1>6, <3>1, <3>2, <4>1
      <4> QED BY <4>1, <4>2
    <3>3. CASE i - x \notin 1 .. m - 1
      <4>1. x = 1 /\ i = 1
        BY <1>1, <3>1, <3>3
      <4>2. ASSUME NEW k \in 1 .. m PROVE t < e[SlotAt(b, k)]
        <5>1. CASE k = m
          BY <1>7, <2>2, <5>1
        <5>2. CASE k \in 1 .. m - 1
          <6>1. k + x \in 1 .. n /\ i < k + x
            BY <1>1, <1>6, <4>1, <5>2
          <6> QED BY <1>5, <1>6, <3>1, <5>2, <6>1
        <5> QED BY <1>8, <5>1, <5>2
      <4> QED BY <1>2, <4>1, <4>2
    <3> QED BY <3>2, <3>3
  <2>3. CASE t \in a /\ IsEviction(h) /\ \A i \in 1 .. n : t < d[SlotAt(h, i)]
    <3>1. ASSUME NEW k \in 1 .. m PROVE t < e[SlotAt(b, k)]
      <4>1. CASE k = m
        BY <1>7, <2>3, <4>1
      <4>2. CASE k \in 1 .. m - 1
        BY <1>6, <2>3, <4>2
      <4> QED BY <1>8, <4>1, <4>2
    <3> QED BY <1>3, <2>3, <3>1
  <2> QED BY <1>5, <2>1, <2>2, <2>3
<1>12. b.oldestTs = e[SlotAt(b, 1)]
  <2>1. CASE IsEviction(h)
    <3>1. b.max \in Nat /\ b.max # 0 /\ b.oldest \in Nat /\ b.oldest < b.max
      BY <2>1, HeaderNumbers DEF IsEviction, Unlimited
    <3>2. SlotAt(b, 1) = (b.oldest + 0) % b.max
      BY <3>1 DEF SlotAt, PhysicalIdx, Unlimited
    <3>3. (b.oldest + 0) % b.max = b.oldest
      BY <3>1, RemainderBelow
    <3> QED BY <2>1, <3>2, <3>3
  <2>2. CASE ~IsEviction(h) /\ h.total = 0
    <3>1. m = 1
      BY <1>1, <2>2, HeaderNumbers DEF Available, IsEviction, Unlimited, m
    <3> QED BY <1>7, <2>2, <3>1
  <2>3. CASE ~IsEviction(h) /\ h.total # 0
    <3>1. x = 0 /\ n > 0 /\ h.total > 0
      BY <1>1, <1>2, <2>3, HeaderNumbers DEF Available, IsEviction, Unlimited, n
    <3>2. 1 \in 1 .. m - 1 /\ 1 + x = 1
      BY <1>1, <3>1
    <3>3. e[SlotAt(b, 1)] = d[SlotAt(h, 1)]
      BY <1>6, <3>2
    <3> QED BY <1>5, <2>3, <3>1, <3>3
  <2> QED BY <2>1, <2>2, <2>3
<1> QED BY <1>7, <1>9, <1>10, <1>11, <1>12 DEF Shows, m

-----------------------------------------------------------------------------
(* What the handle shows is kept up *)

LEMMA CalmInit == Init => CalmInv
<1> SUFFICES ASSUME Init PROVE CalmInv
  OBVIOUS
<1>1. Recovered = EmptyHeader(ConfigMax)
  BY DEF Init, Recovered
<1>2. Shows(Recovered, data, {})
  BY <1>1, EmptyShows, StoreAssumption
<1> QED BY <1>2 DEF Init, CalmInv, HandleLive, Writing

(* After a step the handle is at rest, is folding, or has put its record. *)
LEMMA CalmLive ==
  ASSUME pc' \in {"idle", "fold", "reopen", "remove"} \cup Putting,
         NEW a, a = Counted', Shows(db'.hdr, data', a),
         file'.state = "ready", op' # "create", \A t \in acked' : t <= clock'
  PROVE  CalmInv'
<1>1. pc' \notin {"closed", "unlink", "cap", "block"}
  BY DEF Putting
<1>2. Shows(db.hdr, data, Counted)'
  OBVIOUS
<1> QED BY <1>1, <1>2 DEF CalmInv

(* After a step the handle is about to write a block. *)
LEMMA CalmWrite ==
  ASSUME pc' \in {"cap", "block"}, op' = "none", file'.state = "ready",
         Shows(db'.hdr, data', acked'),
         \A t \in acked' : t <= clock',
         \A t \in acked' : t < rec', \A s \in Slots : data'[s] < rec'
  PROVE  CalmInv'
<1>1. pc' \notin {"closed", "unlink"} \cup Putting
  BY DEF Putting
<1>2. Counted' = acked'
  BY <1>1 DEF Counted
<1>3. Shows(db.hdr, data, Counted)'
  BY <1>2
<1> QED BY <1>1, <1>3 DEF CalmInv

(* After a step there is no handle. *)
LEMMA CalmClosed ==
  ASSUME pc' \in {"closed", "unlink"}, op' # "create",
         NEW h, h = Recovered', Shows(h, data', acked'),
         file'.state # "ready" => acked' = {}, \A t \in acked' : t <= clock'
  PROVE  CalmInv'
<1>1. ~HandleLive' /\ pc' \notin {"cap", "block"}
  BY DEF HandleLive, Writing
<1>2. Shows(Recovered, data, acked)'
  OBVIOUS
<1> QED BY <1>1, <1>2 DEF CalmInv

(* tsdb_fold_header returns to an operation that leaves the handle open,   *)
(* or closes it on a disk that has the header of the handle.               *)
LEMMA CalmReturns ==
  ASSUME TypeInv, DurableInv, CalmInv, pc \in {"fold", "remove"}, op # "create",
         UNCHANGED <<data, file, side, legacy, clock>>,
         NEW d, d.hdr = db.hdr, FoldReturns(d)
  PROVE  CalmInv'
<1> USE DEF Goto
<1>1. /\ Shows(db.hdr, data, Counted) /\ file.state = "ready"
      /\ \A t \in acked : t <= clock
  BY DEF CalmInv, HandleLive, DurableInv, ControlInv
<1>2. pc \notin Putting
  BY DEF Putting
<1>3. CASE op \in {"close", "delete"} /\ pc' \in {"closed", "unlink"} /\ acked' = acked
           /\ op' # "create"
  <2>1. Recovered = db.hdr
    BY <1>3, InvImpliesDurable DEF Durable, Settled
  <2>2. Recovered' = db.hdr
    BY <2>1, SameDisk
  <2>3. Counted = acked
    BY <1>2, <1>3 DEF Counted
  <2> QED BY <1>1, <1>3, <2>2, <2>3, CalmClosed
<1>4. CASE op = "clear" /\ pc' = "idle" /\ db' = d /\ op' = "none" /\ acked' = {}
  <2>1. Counted = {} /\ Counted' = {}
    BY <1>4 DEF Counted, Putting
  <2> QED BY <1>1, <1>4, <2>1, CalmLive
<1>5. CASE op = "sync" /\ pc' = "reopen" /\ db' = d /\ op' = op /\ acked' = acked
  <2>1. Counted = acked /\ Counted' = acked
    BY <1>2, <1>5 DEF Counted, Putting
  <2> QED BY <1>1, <1>5, <2>1, CalmLive
<1> QED BY <1>3, <1>4, <1>5 DEF FoldReturns, Dropped

(* A block written under faults that let it be read: the record is in its  *)
(* slot, the header is the one of the record after it.                     *)
LEMMA CalmBlock ==
  ASSUME CalmFaults, TypeInv, TypeInv', RingInv, RingInv', CalmInv, op = "none",
         file.state = "ready", WriteBlock
  PROVE  CalmInv'
<1> USE DEF Goto
<1> DEFINE h == db.hdr
           n == RecordIdx(h)
<1>1. /\ pc = "block" /\ pc' = "side" /\ file' = file /\ op' = op
      /\ rec' = rec /\ clock' = clock /\ acked' = acked
  BY DEF WriteBlock, hist
<1>2. /\ data \in [Slots -> Nat] /\ rec \in Nat /\ clock \in Nat /\ rec <= clock
      /\ acked \in SUBSET Nat /\ db \in Handle /\ h \in Header
  BY DiskTypes DEF TypeInv, TypeOK
<1>3. RingHeader(h) /\ RingHeader(db'.hdr)
  <2>1. HdrOK(h) /\ WellFormed(h)
    BY DEF TypeInv, RingInv
  <2>2. HdrOK(db'.hdr) /\ WellFormed(db'.hdr)
    BY DEF TypeInv, RingInv
  <2> QED BY <2>1, <2>2, RingOfWellFormed
<1>4. Unlimited(h) => h.total < MaxSlots
  BY <1>1 DEF TypeInv
<1>5. n \in Slots
  BY <1>3, <1>4, SlotWritten
<1>6. data' = DataWith(n, rec, TRUE) /\ db' = [db EXCEPT !.hdr = HeaderWith(rec, data', TRUE),
                                                      !.idxStale = @ \/ n % Stride = 0]
  BY DEF WriteBlock, Outcomes, CalmFaults
<1>7. data' = [s \in Slots |-> IF s = n THEN rec ELSE data[s]]
  BY <1>6 DEF DataWith
<1>8. data'[n] = rec /\ \A s \in Slots : s # n => data'[s] = data[s]
  BY <1>5, <1>7
<1>9. db'.hdr = Advanced(h, rec, data')
  <2>1. db'.hdr = HeaderWith(rec, data', TRUE)
    BY <1>2, <1>6 DEF Handle
  <2> QED BY <2>1 DEF HeaderWith
<1>10. /\ db'.hdr.max = h.max /\ db'.hdr.total = h.total + 1 /\ db'.hdr.newestTs = rec
       /\ db'.hdr.oldestTs = IF IsEviction(h) THEN data'[db'.hdr.oldest]
                             ELSE IF h.total = 0 THEN rec ELSE h.oldestTs
  BY <1>2, <1>9, AdvancedFields
<1>11. Shows(h, data, acked)
  <2>1. Counted = acked
    BY <1>1 DEF Counted, Putting
  <2> QED BY <1>1, <2>1 DEF CalmInv, HandleLive, Writing
<1>12. /\ \A t \in acked : t < rec /\ t <= clock
       /\ \A s \in Slots : data[s] < rec
  BY <1>1 DEF CalmInv
<1> HIDE DEF n, h
<1>13. Shows(db'.hdr, data', acked \cup {rec})
  BY <1>2, <1>3, <1>4, <1>8, <1>10, <1>11, <1>12, ShowsNext DEF n
<1>14. Counted' = acked \cup {rec}
  BY <1>1 DEF Counted, Putting
<1> QED BY <1>1, <1>2, <1>12, <1>13, <1>14, CalmLive DEF Putting

(* A cap in RAM while a record is about to be written. *)
LEMMA CalmCap ==
  ASSUME TypeInv, TypeInv', RingInv, RingInv', db \in Handle, db' = CapHandle(db),
         db.hdr.total > 0, ~IsEviction(db.hdr), Shows(db.hdr, data, acked)
  PROVE  Shows(db'.hdr, data, acked)
<1>1. db'.hdr = Capped(db.hdr)
  BY DEF CapHandle, Handle
<1>2. RingHeader(db.hdr)
  BY RingOfWellFormed DEF TypeInv, RingInv
<1>3. RingHeader(db'.hdr)
  <2>1. HdrOK(db'.hdr) /\ WellFormed(db'.hdr)
    BY DEF TypeInv, RingInv
  <2> QED BY <2>1, RingOfWellFormed
<1>4. /\ db'.hdr.max = db.hdr.total /\ db'.hdr.total = db.hdr.total
      /\ db'.hdr.oldestTs = db.hdr.oldestTs /\ db'.hdr.newestTs = db.hdr.newestTs
  BY <1>1, DiskTypes DEF Capped, Header
<1> QED BY <1>2, <1>3, <1>4, ShowsCapped

(* A step of tsdb_sidecar_write: the record put stays shown, and is        *)
(* acknowledged in the end.                                                *)
LEMMA CalmSlots ==
  ASSUME TypeInv, DurableInv, CalmInv,
         OpenCompactSlot \/ WriteCompactSlot \/ OpenMirrorSlot \/ WriteMirrorSlot
  PROVE  CalmInv'
<1>1. /\ pc \in Putting /\ data' = data /\ file' = file /\ op' = op /\ clock' = clock
      /\ db'.hdr = db.hdr
      /\ \/ pc' \in Putting /\ acked' = acked /\ rec' = rec
         \/ pc' = "idle" /\ acked' = acked \cup {rec}
  <2>1. CASE OpenCompactSlot
    BY <2>1, OpenCompactShape DEF Putting
  <2>2. CASE WriteCompactSlot
    BY <2>2, WriteCompactShape DEF Putting
  <2>3. CASE OpenMirrorSlot
    BY <2>3, OpenMirrorShape DEF Putting
  <2>4. CASE WriteMirrorSlot
    BY <2>4, WriteMirrorShape DEF Putting
  <2> QED BY <2>1, <2>2, <2>3, <2>4
<1>2. HandleLive /\ op = "none" /\ file.state = "ready"
  BY <1>1 DEF Putting, HandleLive, Writing, DurableInv, ControlInv
<1>3. Counted = acked \cup {rec} /\ Counted' = acked \cup {rec}
  BY <1>1, <1>2 DEF Counted, Putting
<1>4. Shows(db.hdr, data, acked \cup {rec}) /\ \A t \in acked : t <= clock
  BY <1>2, <1>3 DEF CalmInv
<1>5. \A t \in acked' : t <= clock
  BY <1>1, <1>4 DEF TypeInv
<1> QED BY <1>1, <1>2, <1>3, <1>4, <1>5, CalmLive

LEMMA CalmStep ==
  ASSUME CalmFaults, TypeInv, TypeInv', DurableInv, RingInv, RingInv', CalmInv, [Next]_vars
  PROVE  CalmInv'
<1> USE DEF Goto
<1>a. /\ HandleLive => Shows(db.hdr, data, Counted)
      /\ pc \in {"closed", "unlink"} => Shows(Recovered, data, acked)
      /\ file.state # "ready" => acked = {}
      /\ op = "create" => file.state = "empty"
      /\ \A t \in acked : t <= clock
      /\ pc \in {"cap", "block"} =>
           (\A t \in acked : t < rec) /\ (\A s \in Slots : data[s] < rec)
  BY DEF CalmInv
<1>b. /\ data \in [Slots -> Nat] /\ \A s \in Slots : data[s] <= clock
      /\ clock \in Nat /\ acked \in SUBSET Nat
      /\ db \in Handle /\ db.hdr \in Header /\ db.hdr.total \in Nat /\ db.hdr.max \in Nat
  BY DiskTypes DEF TypeInv, TypeOK
<1>c. ControlInv /\ SaneDisk /\ RemoveInv
  BY DEF DurableInv
<1>d. pc \in Writing \cup {"idle"} => op = "none" /\ HandleLive /\ file.state = "ready"
  BY <1>c DEF ControlInv, HandleLive
<1>e. pc \in {"idle", "cap", "block"} => Shows(db.hdr, data, acked)
  <2> SUFFICES ASSUME pc \in {"idle", "cap", "block"} PROVE Shows(db.hdr, data, acked)
    OBVIOUS
  <2>1. Counted = acked
    BY <1>d DEF Counted, Putting, Writing
  <2> QED BY <1>a, <1>d, <2>1 DEF Writing
<1>1. CASE CreateFile
  <2>1. /\ pc' = "remove" /\ op' = "create" /\ file'.state = "empty"
        /\ acked = {} /\ acked' = {}
    BY <1>1, <1>a DEF CreateFile, hist
  <2>2. ~HandleLive'
    BY <2>1 DEF HandleLive, Writing
  <2> QED BY <2>1, <2>2 DEF CalmInv
<1>2. CASE WriteInitialHeader
  <2>1. /\ pc = "initial" /\ op = "create" /\ file.state = "empty" /\ acked = {}
        /\ acked' = {} /\ op' = "none" /\ db.hdr = EmptyHeader(ConfigMax)
    BY <1>2, <1>a, <1>c DEF WriteInitialHeader, hist, ControlInv, RemoveInv, NewHandle
  <2>2. \A d : Shows(EmptyHeader(ConfigMax), d, {})
    BY EmptyShows, StoreAssumption
  <2>3. CASE pc' = "idle" /\ file' = ReadyFile(db.hdr) /\ db' = db
    <3>1. Counted' = {}
      BY <2>1, <2>3 DEF Counted, Putting
    <3> QED BY <2>1, <2>2, <2>3, <3>1, CalmLive DEF ReadyFile
  <2>4. CASE pc' = "closed" /\ file' = file
    <3>1. Recovered' = EmptyHeader(ConfigMax)
      BY <2>1, <2>4 DEF Recovered
    <3> QED BY <2>1, <2>2, <2>4, <3>1, CalmClosed
  <2> QED BY <1>2, <2>3, <2>4 DEF WriteInitialHeader
<1>3. CASE OpenExisting
  <2>1. /\ pc = "closed" /\ pc' = "idle" /\ file.state = "ready" /\ file' = file
        /\ data' = data /\ op' = op /\ op = "none" /\ clock' = clock /\ acked' = acked
        /\ db'.hdr = Recovered
    BY <1>3, <1>c DEF OpenExisting, disk, hist, Recovered, ControlInv
  <2>2. Counted' = acked
    BY <2>1 DEF Counted, Putting
  <2> QED BY <1>a, <2>1, <2>2, CalmLive
<1>4. CASE OpenReconstruct
  BY <1>4, <1>c DEF OpenReconstruct, SaneDisk
<1>5. CASE WriteStart
  <2>1. /\ pc = "idle" /\ op' = op /\ data' = data /\ file' = file /\ acked' = acked
        /\ clock' = clock + 1 /\ rec' = clock + 1
        /\ \/ pc' = "block" /\ db' = db
           \/ pc' = "cap" /\ ReserveBreached(db) /\ db' = CapHandle(db)
    BY <1>5 DEF WriteStart, disk
  <2>2. Shows(db'.hdr, data, acked)
    <3>1. CASE db' = db
      BY <1>e, <2>1, <3>1
    <3>2. CASE ReserveBreached(db) /\ db' = CapHandle(db)
      <4>1. db.hdr.total > 0 /\ ~IsEviction(db.hdr)
        BY <1>b, <3>2 DEF ReserveBreached, IsEviction
      <4> QED BY <1>b, <1>e, <2>1, <3>2, <4>1, CalmCap
    <3> QED BY <2>1, <3>1, <3>2
  <2>3. /\ \A t \in acked : t <= clock + 1 /\ t < clock + 1
        /\ \A s \in Slots : data[s] < clock + 1
    BY <1>a, <1>b
  <2> QED BY <1>d, <2>1, <2>2, <2>3, CalmWrite
<1>6. CASE PersistCap
  <2>1. /\ pc = "cap" /\ pc' = "block" /\ op' = op /\ data' = data /\ db' = db
        /\ acked' = acked /\ clock' = clock /\ rec' = rec
        /\ (file' = file \/ file'.state = "ready")
    BY <1>6 DEF PersistCap, ReadyFile, hist
  <2>2. op = "none" /\ file.state = "ready"
    BY <1>d, <2>1 DEF Writing
  <2> QED BY <1>a, <1>e, <2>1, <2>2, CalmWrite
<1>7. CASE WriteBlock
  <2>1. op = "none" /\ file.state = "ready"
    BY <1>7, <1>d DEF Writing, WriteBlock
  <2> QED BY <1>7, <2>1, CalmBlock
<1>8. CASE ShrinkToFit
  <2>1. /\ pc = "block" /\ pc' = "cap" /\ op' = op /\ data' = data /\ file' = file
        /\ acked' = acked /\ clock' = clock /\ rec' = rec /\ db' = CapHandle(db)
        /\ ~IsEviction(db.hdr) /\ db.hdr.total > 0
    BY <1>8 DEF ShrinkToFit, disk, hist
  <2>2. op = "none" /\ file.state = "ready"
    BY <1>d, <2>1 DEF Writing
  <2>3. Shows(db'.hdr, data, acked)
    BY <1>b, <1>e, <2>1, CalmCap
  <2> QED BY <1>a, <2>1, <2>2, <2>3, CalmWrite
<1>9. CASE BlockFailed
  <2>1. /\ pc = "block" /\ pc' = "idle" /\ op' = op /\ data' = data /\ file' = file
        /\ acked' = acked /\ clock' = clock
        /\ db' = [db EXCEPT !.hdr = Evicted(db.hdr)] /\ ~IsEviction(db.hdr)
    BY <1>9, <1>b DEF BlockFailed, disk, hist, CalmFaults, TolerableFaults
  <2>2. db'.hdr = db.hdr
    BY <1>b, <2>1 DEF Evicted, Handle
  <2>3. op = "none" /\ file.state = "ready"
    BY <1>d, <2>1 DEF Writing
  <2>4. Counted' = acked
    BY <2>1, <2>3 DEF Counted, Putting
  <2> QED BY <1>a, <1>e, <2>1, <2>2, <2>3, <2>4, CalmLive
<1>10. CASE OpenCompactSlot \/ WriteCompactSlot \/ OpenMirrorSlot \/ WriteMirrorSlot
  BY <1>10, CalmSlots
<1>11. CASE CloseStart \/ DeleteStart \/ SyncStart
  <2>1. /\ pc = "idle" /\ pc' \in {"fold", "reopen"} /\ op' \in {"close", "delete", "sync"}
        /\ data' = data /\ file' = file /\ db' = db /\ acked' = acked /\ clock' = clock
    BY <1>11 DEF CloseStart, DeleteStart, SyncStart, StartFold, disk, hist
  <2>2. Counted' = acked
    BY <2>1 DEF Counted, Putting
  <2> QED BY <1>a, <1>d, <1>e, <2>1, <2>2, CalmLive
<1>12. CASE ClearStart
  <2>1. /\ pc = "idle" /\ pc' = "fold" /\ op' = "clear" /\ data' = data /\ file' = file
        /\ db' = [db EXCEPT !.hdr = Cleared(db.hdr), !.idxStale = FALSE]
        /\ acked' = acked /\ clock' = clock
    BY <1>12, <1>b DEF ClearStart, StartFold, disk, hist
  <2>2. db'.hdr = EmptyHeader(db.hdr.max)
    BY <1>b, <2>1 DEF Handle, Cleared
  <2>3. Counted' = {}
    BY <2>1 DEF Counted
  <2>4. Shows(db'.hdr, data', {})
    BY <1>b, <2>2, EmptyShows
  <2> QED BY <1>a, <1>d, <2>1, <2>3, <2>4, CalmLive
<1>13. CASE FoldHeader
  <2>1. /\ pc = "fold" /\ op # "create" /\ data' = data /\ clock' = clock
        /\ side' = side /\ legacy' = legacy
    BY <1>13, <1>c DEF FoldHeader, ControlInv
  <2>2. CASE /\ file' = ReadyFile(db.hdr) /\ pc' = "remove" /\ op' = op /\ acked' = acked
             /\ db' = [db EXCEPT !.stale = FALSE, !.idxStale = FALSE]
    <3>1. db'.hdr = db.hdr
      BY <1>b, <2>2 DEF Handle
    <3>2. Counted' = Counted
      BY <2>1, <2>2 DEF Counted, Putting
    <3>3. HandleLive /\ file'.state = "ready"
      BY <2>1, <2>2 DEF HandleLive, ReadyFile
    <3> QED BY <1>a, <2>1, <2>2, <3>1, <3>2, <3>3, CalmLive
  <2>3. CASE FoldReturns(db) /\ file' = file
    BY <2>1, <2>3, CalmReturns
  <2> QED BY <1>13, <2>2, <2>3 DEF FoldHeader
<1>14. CASE RemoveSlot
  <2>1. /\ pc = "remove" /\ pc' = "remove" /\ op' = op /\ data' = data /\ file' = file
        /\ db' = db /\ acked' = acked /\ clock' = clock /\ rec' = rec
    BY <1>14 DEF RemoveSlot, hist
  <2>2. CASE op = "create"
    <3>1. ~HandleLive'
      BY <2>1, <2>2 DEF HandleLive, Writing
    <3> QED BY <1>a, <2>1, <2>2, <3>1 DEF CalmInv
  <2>3. CASE op # "create"
    <3>1. HandleLive /\ file.state = "ready"
      BY <1>c, <2>1, <2>3 DEF HandleLive, ControlInv
    <3>2. Counted' = Counted
      BY <2>1 DEF Counted
    <3> QED BY <1>a, <2>1, <2>3, <3>1, <3>2, CalmLive
  <2> QED BY <2>2, <2>3
<1>15. CASE RemoveReturns
  <2> DEFINE d == [db EXCEPT !.mirrored = FALSE, !.lseq = 0]
  <2>1. d.hdr = db.hdr
    BY <1>b DEF Handle
  <2> HIDE DEF d
  <2>2. /\ pc = "remove" /\ data' = data /\ file' = file /\ side' = side
        /\ legacy' = legacy /\ clock' = clock
    BY <1>15 DEF RemoveReturns, disk
  <2>3. CASE op = "create" /\ pc' = "initial" /\ op' = op /\ acked' = acked
    <3>1. ~HandleLive'
      BY <2>3 DEF HandleLive, Writing
    <3> QED BY <1>a, <2>2, <2>3, <3>1 DEF CalmInv
  <2>4. CASE op # "create" /\ FoldReturns(d)
    BY <2>1, <2>2, <2>4, CalmReturns
  <2> QED BY <1>15, <2>3, <2>4 DEF RemoveReturns, d
<1>16. CASE SyncReopen
  <2>1. /\ pc = "reopen" /\ op' = "none" /\ data' = data /\ file' = file /\ side' = side
        /\ legacy' = legacy /\ acked' = acked /\ clock' = clock
    BY <1>16 DEF SyncReopen, disk, hist
  <2>2. op = "sync" /\ HandleLive /\ file.state = "ready"
    BY <1>c, <2>1 DEF ControlInv, HandleLive
  <2>3. Shows(db.hdr, data, acked)
    BY <1>a, <2>1, <2>2 DEF Counted, Putting
  <2>4. CASE pc' = "idle" /\ db' = db
    <3>1. Counted' = acked
      BY <2>1, <2>4 DEF Counted, Putting
    <3> QED BY <1>a, <2>1, <2>2, <2>3, <2>4, <3>1, CalmLive
  <2>5. CASE pc' = "closed"
    <3>1. Recovered = db.hdr
      BY <2>1, <2>2, InvImpliesDurable DEF Durable, Settled
    <3>2. Recovered' = db.hdr
      BY <2>1, <3>1, SameDisk
    <3> QED BY <1>a, <2>1, <2>2, <2>3, <2>5, <3>2, CalmClosed
  <2> QED BY <1>16, <2>4, <2>5 DEF SyncReopen
<1>17. CASE UnlinkFile
  <2>1. /\ pc = "unlink" /\ pc' = "closed" /\ op' = "none" /\ side' = side
        /\ legacy' = legacy /\ clock' = clock
    BY <1>17 DEF UnlinkFile
  <2>2. CASE file'.state = "absent" /\ acked' = {}
    <3>1. Recovered' = EmptyHeader(ConfigMax)
      BY <2>2 DEF Recovered
    <3>2. Shows(EmptyHeader(ConfigMax), data', {})
      BY EmptyShows, StoreAssumption
    <3> QED BY <2>1, <2>2, <3>1, <3>2, CalmClosed
  <2>3. CASE file' = file /\ data' = data /\ acked' = acked
    <3>1. Recovered' = Recovered
      BY <2>1, <2>3, SameDisk
    <3> QED BY <1>a, <2>1, <2>3, <3>1, CalmClosed
  <2> QED BY <1>17, <2>2, <2>3 DEF UnlinkFile, Dropped
<1>18. CASE Crash
  BY <1>18 DEF Crash, CalmFaults
<1>19. CASE UNCHANGED vars
  <2>1. /\ data' = data /\ file' = file /\ side' = side /\ legacy' = legacy /\ db' = db
        /\ pc' = pc /\ op' = op /\ rec' = rec /\ clock' = clock /\ acked' = acked
    BY <1>19 DEF vars, disk, hist
  <2>2. Recovered' = Recovered
    BY <2>1, SameDisk
  <2>3. HandleLive' = HandleLive /\ Counted' = Counted
    BY <2>1 DEF HandleLive, Counted
  <2> QED BY <1>a, <2>1, <2>2, <2>3 DEF CalmInv
<1> QED
  BY <1>1, <1>2, <1>3, <1>4, <1>5, <1>6, <1>7, <1>8, <1>9, <1>10, <1>11, <1>12,
     <1>13, <1>14, <1>15, <1>16, <1>17, <1>18, <1>19
  DEF Next, Open, Call, Step

-----------------------------------------------------------------------------
(* What a reader sees *)

(* The records shown are the newest ones: as many as are younger than one  *)
(* of them are fewer than those shown, and all of those shown are younger  *)
(* than one that is not.                                                   *)
LEMMA ShownAreNewest ==
  ASSUME NEW h, RingHeader(h), NEW d \in [Slots -> Nat], NEW a \in SUBSET Nat,
         IsFiniteSet(a), Shows(h, d, a)
  PROVE  /\ Elements(Walk(h, d)) = {t \in a : AmongNewest(t, Available(h), a)}
         /\ Ascending(Walk(h, d))
<1> DEFINE n == Available(h)
           W == Walk(h, d)
           Younger(t) == {u \in a : u > t}
<1>1. n \in Nat
  BY HeaderNumbers
<1>2. W = [i \in 1 .. n |-> d[SlotAt(h, i)]]
  BY DEF Walk, SlotAt
<1>3. DOMAIN W = 1 .. n /\ \A i \in 1 .. n : W[i] = d[SlotAt(h, i)]
  BY <1>2
<1>4. /\ \A i, j \in 1 .. n : i < j => W[i] < W[j]
      /\ \A i \in 1 .. n : W[i] \in a /\ W[i] \in Nat
      /\ \A t \in a : (\E i \in 1 .. n : W[i] = t) \/ (\A i \in 1 .. n : t < W[i])
  BY <1>3 DEF Shows
<1>5. Ascending(W)
  BY <1>3, <1>4 DEF Ascending
<1>6. \A t \in a : IsFiniteSet(Younger(t)) /\ Cardinality(Younger(t)) \in Nat
  <2> SUFFICES ASSUME NEW t \in a
               PROVE  IsFiniteSet(Younger(t)) /\ Cardinality(Younger(t)) \in Nat
    OBVIOUS
  <2>1. Younger(t) \in SUBSET a
    OBVIOUS
  <2> HIDE DEF Younger
  <2>2. IsFiniteSet(Younger(t))
    BY ONLY <2>1, IsFiniteSet(a), FS_Subset
  <2> QED BY <2>2, FS_CardinalityType
<1> HIDE DEF W, n
<1>7. ASSUME NEW i \in 1 .. n PROVE Cardinality(Younger(W[i])) < n
  <2> DEFINE S == i + 1 .. n
             R == {W[j] : j \in S}
             f == [j \in S |-> W[j]]
             Y == Younger(W[i])
  <2>1. i \in Nat /\ i >= 1 /\ i <= n /\ i + 1 \in Int /\ n \in Int
    BY <1>1
  <2>2. IsFiniteSet(S) /\ Cardinality(S) = n - i
    <3>1. IsFiniteSet(i + 1 .. n)
          /\ Cardinality(i + 1 .. n) = IF i + 1 > n THEN 0 ELSE n - (i + 1) + 1
      BY ONLY <2>1, FS_Interval
    <3> QED BY <2>1, <3>1
  <2>3. Y \subseteq R
    <3> SUFFICES ASSUME NEW u \in a, u > W[i] PROVE u \in R
      OBVIOUS
    <3>1. u \in Nat /\ W[i] \in Nat /\ ~(u < W[i]) /\ u # W[i]
      BY <1>4
    <3>2. PICK j \in 1 .. n : W[j] = u
      BY <1>4, <3>1
    <3>3. ~(j < i) /\ j # i
      BY <1>4, <3>1, <3>2
    <3>4. j \in S
      BY <2>1, <3>2, <3>3
    <3> QED BY <3>2, <3>4
  <2>4. f \in [S -> R] /\ \A r \in R : \E j \in S : f[j] = r
    OBVIOUS
  <2>5. f \in Surjection(S, R)
    <3> HIDE DEF f, S, R
    <3> QED BY <2>4, Fun_IsSurj
  <2> HIDE DEF f, S, R, Y
  <2>6. IsFiniteSet(R) /\ Cardinality(R) <= n - i /\ Cardinality(R) \in Nat
    BY <2>2, <2>5, FS_Surjection, FS_CardinalityType
  <2>7. Cardinality(Y) <= Cardinality(R) /\ Cardinality(Y) \in Nat
    BY <2>3, <2>6, FS_Subset, FS_CardinalityType
  <2> QED BY <2>1, <2>6, <2>7 DEF Y
<1>8. ASSUME NEW t \in a, \A i \in 1 .. n : t < W[i] PROVE ~(Cardinality(Younger(t)) < n)
  <2> DEFINE Y == Younger(t)
  <2>1. \A i \in 1 .. n : W[i] \in Y
    BY <1>4, <1>8
  <2>2. W \in [1 .. n -> Y]
    BY <1>2, <1>3, <2>1 DEF W, n
  <2>3. \A i, j \in 1 .. n : W[i] = W[j] => i = j
    <3> SUFFICES ASSUME NEW i \in 1 .. n, NEW j \in 1 .. n, W[i] = W[j] PROVE i = j
      OBVIOUS
    <3>1. ~(W[i] < W[j]) /\ ~(W[j] < W[i])
      BY <1>4
    <3>2. ~(i < j) /\ ~(j < i) /\ i \in Int /\ j \in Int
      BY <1>4, <3>1
    <3> QED BY <3>2
  <2>4. IsFiniteSet(Y) /\ Cardinality(Y) \in Nat
    BY <1>6
  <2> HIDE DEF Y
  <2>5. W \in Injection(1 .. n, Y)
    BY <2>2, <2>3, Fun_IsInj
  <2>6. Cardinality(1 .. n) <= Cardinality(Y)
    BY <2>4, <2>5, FS_Injection
  <2>7. Cardinality(1 .. n) = n
    <3>1. 1 \in Int /\ n \in Int
      BY <1>1
    <3>2. Cardinality(1 .. n) = IF 1 > n THEN 0 ELSE n - 1 + 1
      BY ONLY <3>1, FS_Interval
    <3> QED BY <1>1, <3>2
  <2> QED BY <1>1, <2>4, <2>6, <2>7 DEF Y
<1>9. Elements(W) = {t \in a : Cardinality(Younger(t)) < n}
  <2>1. ASSUME NEW t \in Elements(W) PROVE t \in a /\ Cardinality(Younger(t)) < n
    BY <1>3, <1>4, <1>7, <2>1 DEF Elements
  <2>2. ASSUME NEW t \in a, Cardinality(Younger(t)) < n PROVE t \in Elements(W)
    BY <1>3, <1>4, <1>8, <2>2 DEF Elements
  <2> QED BY <2>1, <2>2
<1> QED BY <1>5, <1>9 DEF W, n, AmongNewest

(* The invariants say of a handle at rest what a reader needs. *)
LEMMA CalmShows ==
  ASSUME TypeInv, DurableInv, RingInv, CalmInv, pc = "idle"
  PROVE  /\ RingHeader(db.hdr) /\ data \in [Slots -> Nat] /\ acked \in SUBSET Nat
         /\ IsFiniteSet(acked) /\ Shows(db.hdr, data, acked)
<1>1. RingHeader(db.hdr)
  BY RingOfWellFormed DEF TypeInv, RingInv
<1>2. data \in [Slots -> Nat] /\ acked \in SUBSET Nat /\ clock \in Nat
  BY DEF TypeInv, TypeOK
<1>3. op = "none" /\ HandleLive
  BY DEF DurableInv, ControlInv, HandleLive
<1>4. Counted = acked
  BY <1>3 DEF Counted, Putting
<1>5. Shows(db.hdr, data, acked) /\ \A t \in acked : t <= clock
  BY <1>3, <1>4 DEF CalmInv
<1>6. IsFiniteSet(acked)
  BY <1>2, <1>5, FS_BoundedSetOfNaturals
<1> QED BY <1>1, <1>2, <1>5, <1>6

LEMMA CalmAlways ==
  CalmFaults => (Spec => [](TypeInv /\ DurableInv /\ RingInv /\ CalmInv))
<1> SUFFICES ASSUME CalmFaults
             PROVE  Spec => [](TypeInv /\ DurableInv /\ RingInv /\ CalmInv)
  OBVIOUS
<1>1. Init => TypeInv /\ DurableInv /\ RingInv /\ CalmInv
  BY TypeInit, DurableInit, RingInit, CalmInit
<1>2. TolerableFaults /\ CountersMove
  BY DEF CalmFaults, TolerableFaults, CountersMove
<1>3. TypeInv /\ [Next]_vars => TypeInv'
  BY TypeStep
<1>4. TypeInv /\ TypeInv' /\ DurableInv /\ [Next]_vars => DurableInv'
  BY <1>2, DurableStep
<1>5. TypeInv /\ TypeInv' /\ RingInv /\ [Next]_vars => RingInv'
  BY <1>2, RingStep
<1>6. TypeInv /\ TypeInv' /\ DurableInv /\ RingInv /\ RingInv' /\ CalmInv /\ [Next]_vars
        => CalmInv'
  BY CalmStep
<1> QED BY <1>1, <1>3, <1>4, <1>5, <1>6, PTL DEF Spec

(* Whenever the handle is at rest, a reader sees exactly the newest of the *)
(* records tsdb_write_h acknowledged since the last tsdb_clear_h or        *)
(* tsdb_delete_h, in order: through caps by either route, failed growing   *)
(* writes, failed compact slots, failed folds and reopens, for a ring of   *)
(* any size that goes round twice, and for an unlimited log.               *)
THEOREM ReaderSeesNewest == CalmFaults => (Spec => []ViewIsNewest)
<1> SUFFICES ASSUME CalmFaults PROVE Spec => []ViewIsNewest
  OBVIOUS
<1>1. TypeInv /\ DurableInv /\ RingInv /\ CalmInv => ViewIsNewest
  BY CalmShows, ShownAreNewest DEF ViewIsNewest
<1> QED BY <1>1, CalmAlways, PTL

(* Under the same faults the timestamps tsdb_get_stats_h reports, and      *)
(* tsdb_query_init_h seeks by, are those of the first and the last record  *)
(* a reader sees, after every write, cap, clear and reopen.                *)
THEOREM TimestampsAreTrue == CalmFaults => (Spec => []TimestampsTrue)
<1> SUFFICES ASSUME CalmFaults PROVE Spec => []TimestampsTrue
  OBVIOUS
<1>1. TypeInv /\ DurableInv /\ RingInv /\ CalmInv => TimestampsTrue
  <2> SUFFICES ASSUME TypeInv, DurableInv, RingInv, CalmInv, pc = "idle", db.hdr.total > 0
               PROVE  LET W == Walk(db.hdr, data) IN
                      db.hdr.oldestTs = W[1] /\ db.hdr.newestTs = W[Len(W)]
    BY DEF TimestampsTrue
  <2> DEFINE h == db.hdr
             n == Available(h)
             W == Walk(h, data)
  <2>1. RingHeader(h) /\ Shows(h, data, acked)
    BY CalmShows
  <2>2. h.max \in Nat /\ h.total \in Nat /\ n \in Nat
    BY <2>1, HeaderNumbers
  <2>3. n > 0
    BY <2>2 DEF Available, Unlimited
  <2>4. h.oldestTs = data[SlotAt(h, 1)] /\ h.newestTs = data[SlotAt(h, n)]
    BY <2>1 DEF Shows
  <2>5. W = [i \in 1 .. n |-> data[SlotAt(h, i)]]
    BY DEF Walk, SlotAt
  <2> HIDE DEF n, W
  <2>6. Len(W) = n
    BY <2>2, <2>5
  <2>7. 1 \in 1 .. n /\ n \in 1 .. n
    BY <2>2, <2>3
  <2> QED BY <2>4, <2>5, <2>6, <2>7 DEF W
<1> QED BY <1>1, CalmAlways, PTL
=============================================================================
