--------------------------- MODULE TsdbRingProofs ---------------------------
(***************************************************************************)
(* Theorems about the headers of the ring: their counters agree, and the   *)
(* header a power cut would leave is the one of the handle or the one      *)
(* before it.                                                              *)
(***************************************************************************)
EXTENDS TsdbStoreProofs, TsdbRingInv

-----------------------------------------------------------------------------
(* Remainders, for the two laps allowed *)

LEMMA ModBelow ==
  ASSUME NEW a \in Nat, NEW m \in Nat, a < m
  PROVE  a % m = a
  OBVIOUS

LEMMA ModOnce ==
  ASSUME NEW a \in Nat, NEW m \in Nat, m > 0, m <= a, a < 2 * m
  PROVE  a % m = a - m
  OBVIOUS

LEMMA ModTwice ==
  ASSUME NEW m \in Nat, m > 0
  PROVE  (2 * m) % m = 0 /\ m % m = 0
  OBVIOUS

-----------------------------------------------------------------------------
(* The header of a write *)

LEMMA EmptyWellFormed ==
  ASSUME NEW m \in Nat
  PROVE  WellFormed(EmptyHeader(m))
  BY DEF WellFormed, Sane, Aligned, IsEviction, Available, RecordIdx, Unlimited, EmptyHeader

(* A cap turns a log that is filling into a ring that has just filled. *)
LEMMA CappedWellFormed ==
  ASSUME NEW h \in Header, WellFormed(h), h.total > 0, ~IsEviction(h)
  PROVE  WellFormed(Capped(h)) /\ Capped(h).total < 2 * Capped(h).max
<1> DEFINE c == Capped(h)
<1>1. /\ c.max = h.total /\ c.total = h.total /\ c.oldest = h.oldest
      /\ c.evictions = h.evictions
  BY DEF Capped, Header
<1>2. h.total \in Nat /\ h.oldest = 0 /\ h.evictions = 0 /\ h.max \in Nat
  BY DEF Header, WellFormed, Aligned, IsEviction, Available, Unlimited
<1>3. h.total % h.total = 0
  BY <1>2, ModTwice
<1> HIDE DEF c
<1>4. Sane(c) /\ IsEviction(c) /\ c.oldest = RecordIdx(c) /\ Available(c) = c.total
  BY <1>1, <1>2, <1>3 DEF Sane, IsEviction, RecordIdx, Available, Unlimited
<1>5. c.total < 2 * c.max /\ c.evictions = c.total - Available(c)
  BY <1>1, <1>2, <1>4
<1> QED BY <1>4, <1>5 DEF WellFormed, Aligned, c

(* The counters Advanced computes: tsdb_write_h moves oldest_record_idx by *)
(* one slot when, and only when, total_records moves past a full ring.     *)
LEMMA AdvancedWellFormed ==
  ASSUME NEW a \in Header, NEW h \in Header, WellFormed(h),
         h.max > 0 => h.total < 2 * h.max,
         a.max = h.max, a.total = h.total + 1,
         a.oldest = Evicted(h).oldest, a.evictions = Evicted(h).evictions
  PROVE  WellFormed(a)
<1>0. h.max \in Nat /\ h.total \in Nat /\ h.oldest \in Nat /\ h.evictions \in Nat
  BY DEF Header
<1>1. CASE IsEviction(h)
  <2> DEFINE m == h.max
             n == h.total
  <2>1. m > 0 /\ m <= n /\ n < 2 * m
    BY <1>0, <1>1 DEF IsEviction, Unlimited
  <2>2. h.oldest = n - m /\ h.evictions = n - m
    BY <1>0, <1>1, <2>1, ModOnce
    DEF WellFormed, Aligned, IsEviction, RecordIdx, Available, Unlimited
  <2>3. a.oldest = (n - m + 1) % m /\ a.evictions = n - m + 1
    BY <1>0, <1>1, <2>2 DEF Evicted, Header
  <2>4. (n + 1) % m = (n - m + 1) % m
    <3>1. CASE n + 1 < 2 * m
      <4>1. (n + 1) % m = (n + 1) - m
        BY <1>0, <2>1, <3>1, ModOnce
      <4>2. (n - m + 1) % m = n - m + 1
        BY <1>0, <2>1, <3>1, n - m + 1 \in Nat, n - m + 1 < m, ModBelow
      <4> QED BY <4>1, <4>2, <1>0
    <3>2. CASE n + 1 = 2 * m
      BY <1>0, <2>1, <3>2, n - m + 1 = m, ModTwice
    <3> QED BY <1>0, <2>1, <3>1, <3>2
  <2>5. IsEviction(a) /\ Available(a) = m /\ RecordIdx(a) = (n + 1) % m
    BY <1>0, <2>1 DEF IsEviction, Available, RecordIdx, Unlimited
  <2> QED BY <1>0, <2>1, <2>3, <2>4, <2>5 DEF WellFormed, Sane, Aligned
<1>2. CASE ~IsEviction(h)
  <2>1. a.oldest = 0 /\ a.evictions = 0
    BY <1>0, <1>2 DEF Evicted, WellFormed, Aligned, IsEviction, Available, Unlimited
  <2>2. a.max = 0 \/ a.total < a.max \/ a.total = a.max
    BY <1>0, <1>2 DEF IsEviction, Unlimited
  <2>3. a.max > 0 => a.max % a.max = 0
    BY <1>0, ModTwice
  <2> QED BY <1>0, <2>1, <2>2, <2>3
      DEF WellFormed, Sane, Aligned, IsEviction, Available, RecordIdx, Unlimited
<1> QED BY <1>1, <1>2

(* The header in the handle once the block is written. *)
LEMMA WriteBlockCounters ==
  ASSUME TypeInv, WriteBlock
  PROVE  /\ db'.hdr \in Header
         /\ db'.hdr.max = db.hdr.max
         /\ db'.hdr.total = db.hdr.total + 1
         /\ db'.hdr.oldest = Evicted(db.hdr).oldest
         /\ db'.hdr.evictions = Evicted(db.hdr).evictions
<1> PICK oldestRead \in BOOLEAN :
       db' = [db EXCEPT !.hdr = HeaderWith(rec, data', oldestRead),
                        !.idxStale = @ \/ RecordIdx(db.hdr) % Stride = 0]
  BY DEF WriteBlock, Outcomes
<1> DEFINE e == Evicted(db.hdr)
           a == Advanced(db.hdr, rec, data')
           h == HeaderWith(rec, data', oldestRead)
<1>1. e \in Header /\ e.max = db.hdr.max /\ e.total = db.hdr.total
  <2>1. e \in Header
    BY AdvancedHdrOK DEF WriteBlock, TypeInv, TypeOK, HdrOK
  <2>2. e.max = db.hdr.max /\ e.total = db.hdr.total
    BY DiskTypes DEF Evicted, Header
  <2> QED BY <2>1, <2>2
<1> HIDE DEF e
<1>2. /\ a.max = e.max /\ a.total = e.total + 1 /\ a.oldest = e.oldest
      /\ a.evictions = e.evictions
  <2> DEFINE o == IF IsEviction(db.hdr) THEN data'[e.oldest]
                  ELSE IF db.hdr.total = 0 THEN rec ELSE e.oldestTs
             n == e.total + 1
  <2>1. a = [e EXCEPT !.total = n, !.newestTs = rec, !.oldestTs = o]
    BY DEF Advanced, e
  <2> HIDE DEF a, o, n
  <2>2. /\ a.max = e.max /\ a.total = n /\ a.oldest = e.oldest
        /\ a.evictions = e.evictions
    BY <1>1, <2>1 DEF Header
  <2> QED BY <2>2 DEF n
<1> HIDE DEF a
<1>3. h.max = a.max /\ h.total = a.total /\ h.oldest = a.oldest /\ h.evictions = a.evictions
  BY DEF HeaderWith, a
<1> HIDE DEF h
<1>4. db'.hdr = h
  BY DiskTypes DEF Handle, h
<1>5. db'.hdr \in Header
  BY WrittenOK DEF HdrOK
<1> QED BY <1>1, <1>2, <1>3, <1>4, <1>5 DEF e

-----------------------------------------------------------------------------
(* What the steps of a write do, with the handle's fields spelled out *)

LEMMA OpenCompactShape ==
  ASSUME TypeInv, OpenCompactSlot
  PROVE  /\ pc = "side" /\ file' = file /\ legacy' = legacy /\ data' = data /\ op' = op
         /\ clock' = clock /\ floor' = floor /\ acked' = acked /\ rec' = rec
         /\ db'.hdr = db.hdr /\ db'.side = Other(db.side) /\ db'.leg = db.leg
         /\ db'.stale = db.stale
         /\ \/ pc' = "mirror" /\ side' = side
            \/ pc' = "sidebody" /\ side' = [side EXCEPT ![Other(db.side)] = NoSlot]
<1> DEFINE q == db.seq + 1
           z == Other(db.side)
           d == [db EXCEPT !.seq = q, !.side = z]
<1>1. z \in {0, 1} /\ q \in Nat
  BY DiskTypes DEF Other
<1> HIDE DEF q, z
<1>2. d.hdr = db.hdr /\ d.side = z /\ d.leg = db.leg /\ d.stale = db.stale
  BY DiskTypes, <1>1 DEF Handle
<1> HIDE DEF d
<1>3. d = [db EXCEPT !.seq = @ + 1, !.side = Other(@)]
  BY DiskTypes DEF Handle, d, q, z
<1>4. \/ AfterCompact(FALSE, d) /\ side' = side
      \/ /\ side' = [side EXCEPT ![z] = NoSlot] /\ db' = d /\ pc' = "sidebody"
         /\ UNCHANGED <<acked, rec>>
  BY <1>2, <1>3 DEF OpenCompactSlot, Goto
<1>5. CASE AfterCompact(FALSE, d) /\ side' = side
  <2>1. pc' = "mirror" /\ db' = d /\ acked' = acked /\ rec' = rec
    BY <1>5, Zenon DEF AfterCompact, MirrorDue, Goto
  <2> QED BY <1>2, <1>5, <2>1 DEF OpenCompactSlot, z
<1>6. CASE /\ side' = [side EXCEPT ![z] = NoSlot] /\ db' = d /\ pc' = "sidebody"
           /\ UNCHANGED <<acked, rec>>
  BY <1>2, <1>6 DEF OpenCompactSlot, z
<1> QED BY <1>4, <1>5, <1>6

LEMMA ReturnsShape ==
  ASSUME NEW d \in Handle, WriteReturns(d)
  PROVE  /\ pc' = "idle" /\ acked' = acked \cup {rec} /\ rec' = 0
         /\ db'.hdr = d.hdr /\ db'.side = d.side /\ db'.leg = d.leg /\ db'.stale
<1>1. db' = [d EXCEPT !.stale = TRUE]
  BY DEF WriteReturns
<1> QED BY <1>1 DEF WriteReturns, Goto, Handle

LEMMA WriteCompactShape ==
  ASSUME TypeInv, WriteCompactSlot
  PROVE  /\ pc = "sidebody" /\ file' = file /\ legacy' = legacy /\ data' = data /\ op' = op
         /\ clock' = clock /\ floor' = floor
         /\ db'.hdr = db.hdr /\ db'.side = db.side /\ db'.leg = db.leg
         /\ \/ /\ side' = side
               /\ pc' = "mirror" /\ acked' = acked /\ rec' = rec /\ db'.stale = db.stale
            \/ /\ side' = [side EXCEPT ![db.side] = ValidSlot(db.seq, db.lseq, db.hdr)]
               /\ \/ pc' = "mirror" /\ acked' = acked /\ rec' = rec /\ db'.stale = db.stale
                  \/ pc' = "idle" /\ acked' = acked \cup {rec} /\ rec' = 0
<1> DEFINE x0 == ValidSlot(db.seq, db.lseq, db.hdr)
<1>1. PICK ok \in BOOLEAN :
        /\ side' = IF ok THEN [side EXCEPT ![db.side] = x0] ELSE side
        /\ AfterCompact(ok, db)
  BY DEF WriteCompactSlot, Outcomes
<1>2. CASE pc' = "mirror" /\ db' = db /\ UNCHANGED <<acked, rec>>
  BY <1>1, <1>2 DEF WriteCompactSlot
<1>3. CASE ok /\ WriteReturns(db)
  BY <1>1, <1>3, ReturnsShape, DiskTypes DEF WriteCompactSlot
<1> QED BY <1>1, <1>2, <1>3, Zenon DEF AfterCompact, MirrorDue, Goto

LEMMA OpenMirrorShape ==
  ASSUME TypeInv, OpenMirrorSlot
  PROVE  /\ pc = "mirror" /\ file' = file /\ side' = side /\ data' = data /\ op' = op
         /\ clock' = clock /\ floor' = floor
         /\ db'.hdr = db.hdr /\ db'.side = db.side /\ db'.leg = Other(db.leg)
         /\ \/ /\ legacy' = [legacy EXCEPT ![Other(db.leg)] = NoSlot]
               /\ pc' = "mirrorbody" /\ acked' = acked /\ rec' = rec /\ db'.stale = db.stale
            \/ /\ legacy' = legacy /\ "mirrorfail" \in Env
               /\ pc' = "idle" /\ acked' = acked \cup {rec} /\ rec' = 0
<1> DEFINE z == Other(db.leg)
           d == [db EXCEPT !.leg = z]
<1>1. z \in {0, 1}
  BY DiskTypes DEF Other
<1> HIDE DEF z
<1>2. /\ d \in Handle
      /\ d.hdr = db.hdr /\ d.side = db.side /\ d.leg = z /\ d.stale = db.stale
  BY DiskTypes, <1>1 DEF Handle
<1> HIDE DEF d
<1>3. d = [db EXCEPT !.leg = Other(@)]
  BY DiskTypes DEF Handle, d, z
<1>4. \/ /\ legacy' = [legacy EXCEPT ![z] = NoSlot] /\ db' = d /\ pc' = "mirrorbody"
         /\ UNCHANGED <<acked, rec>>
      \/ WriteReturns(d) /\ legacy' = legacy /\ "mirrorfail" \in Env
  BY <1>2, <1>3 DEF OpenMirrorSlot, Goto, Outcomes
<1>5. CASE /\ legacy' = [legacy EXCEPT ![z] = NoSlot] /\ db' = d /\ pc' = "mirrorbody"
           /\ UNCHANGED <<acked, rec>>
  BY <1>2, <1>5 DEF OpenMirrorSlot, z
<1>6. CASE WriteReturns(d) /\ legacy' = legacy /\ "mirrorfail" \in Env
  BY <1>2, <1>6, ReturnsShape DEF OpenMirrorSlot, z
<1> QED BY <1>4, <1>5, <1>6

LEMMA WriteMirrorShape ==
  ASSUME TypeInv, WriteMirrorSlot
  PROVE  /\ pc = "mirrorbody" /\ file' = file /\ side' = side /\ data' = data /\ op' = op
         /\ clock' = clock /\ floor' = floor
         /\ db'.hdr = db.hdr /\ db'.side = db.side /\ db'.leg = db.leg
         /\ pc' = "idle" /\ acked' = acked \cup {rec} /\ rec' = 0
         /\ \/ legacy' = [legacy EXCEPT ![db.leg] = ValidSlot(db.seq, 0, db.hdr)]
            \/ legacy' = legacy /\ "mirrorfail" \in Env
<1> DEFINE d == [db EXCEPT !.lseq = db.seq, !.mirrored = TRUE]
<1>1. d \in Handle /\ d.hdr = db.hdr /\ d.side = db.side /\ d.leg = db.leg
  BY DiskTypes DEF Handle
<1> HIDE DEF d
<1>2. \/ /\ legacy' = [legacy EXCEPT ![db.leg] = ValidSlot(db.seq, 0, db.hdr)]
         /\ WriteReturns(d)
      \/ WriteReturns(db) /\ legacy' = legacy /\ "mirrorfail" \in Env
  BY DEF WriteMirrorSlot, Outcomes, d
<1>3. CASE WriteReturns(d)
  BY <1>1, <1>2, <1>3, ReturnsShape DEF WriteMirrorSlot
<1>4. CASE WriteReturns(db)
  BY <1>2, <1>4, ReturnsShape, DiskTypes DEF WriteMirrorSlot
<1> QED BY <1>2, <1>3, <1>4

-----------------------------------------------------------------------------
(* The counters of every header *)

LEMMA CleanWellFormed ==
  /\ WellFormed(EmptyHeader(0))
  /\ WellFormed(EmptyHeader(ConfigMax))
  /\ WellFormed(NoSlot.hdr)
  /\ WellFormed(NoHandle.hdr)
<1>1. NoSlot.hdr = EmptyHeader(0) /\ NoHandle.hdr = EmptyHeader(0)
  BY DEF NoSlot, NoHandle, NewHandle
<1>2. 0 \in Nat /\ ConfigMax \in Nat
  BY StoreAssumption
<1> QED BY <1>1, <1>2, EmptyWellFormed

(* A pair of slots whose headers are well formed, after one is replaced. *)
LEMMA SlotWellFormed ==
  ASSUME NEW s \in SlotPair, \A n \in {0, 1} : WellFormed(s[n].hdr),
         NEW m \in {0, 1}, NEW x, WellFormed(x.hdr),
         NEW t, t = s \/ t = [s EXCEPT ![m] = x]
  PROVE  \A n \in {0, 1} : WellFormed(t[n].hdr)
<1>1. t # s => \A n \in {0, 1} : t[n] = IF n = m THEN x ELSE s[n]
  BY DEF SlotPair
<1> QED BY <1>1

LEMMA RingInit == Init => RingInv
<1> SUFFICES ASSUME Init PROVE RingInv
  OBVIOUS
<1>1. file.hdr = EmptyHeader(0) /\ db = NoHandle /\ pc = "closed"
      /\ \A n \in {0, 1} : side[n] = NoSlot /\ legacy[n] = NoSlot
  BY DEF Init, NoSlots
<1> QED BY <1>1, CleanWellFormed DEF RingInv

(* The header tsdb_open takes is one of those on disk. *)
LEMMA OpenedIsOnDisk ==
  \/ OpenedHandle.hdr = file.hdr
  \/ \E n \in {0, 1} : OpenedHandle.hdr = side[n].hdr \/ OpenedHandle.hdr = legacy[n].hdr
<1>1. Newest(side) \in {0, 1} /\ Newest(legacy) \in {0, 1}
  BY DEF Newest
<1>2. OpenedHandle.hdr = IF Adopts(file.hdr, side, legacy)
                         THEN LoadedHeader(side, legacy) ELSE file.hdr
  BY DEF OpenedHandle, NewHandle
<1> QED BY <1>1, <1>2 DEF LoadedHeader

LEMMA RingStep ==
  ASSUME CountersMove, TypeInv, TypeInv', RingInv, [Next]_vars
  PROVE  RingInv'
<1> USE DEF Goto
<1> DEFINE Slots2 == \A n \in {0, 1} : WellFormed(side[n].hdr) /\ WellFormed(legacy[n].hdr)
<1>a. WellFormed(file.hdr) /\ WellFormed(db.hdr) /\ Slots2
  BY DEF RingInv
<1>b. /\ side \in SlotPair /\ legacy \in SlotPair /\ db \in Handle /\ db.hdr \in Header
      /\ db.side \in {0, 1} /\ db.leg \in {0, 1}
      /\ db.hdr.total \in Nat /\ db.hdr.max \in Nat
      /\ Other(db.side) \in {0, 1} /\ Other(db.leg) \in {0, 1}
  BY DiskTypes DEF Other
<1>1. CASE CreateFile
  <2>1. /\ file'.hdr = EmptyHeader(0) /\ db'.hdr = EmptyHeader(ConfigMax)
        /\ side' = side /\ legacy' = legacy /\ pc' = "remove"
    BY <1>1 DEF CreateFile, NewHandle
  <2> QED BY <1>a, <2>1, CleanWellFormed DEF RingInv
<1>2. CASE WriteInitialHeader
  <2>1. /\ side' = side /\ legacy' = legacy
        /\ \/ file'.hdr = db.hdr /\ pc' = "idle" /\ db' = db
           \/ file' = file /\ pc' = "closed" /\ db' = NoHandle
    BY <1>2 DEF WriteInitialHeader, ReadyFile
  <2> QED BY <1>a, <2>1, CleanWellFormed DEF RingInv
<1>3. CASE OpenExisting
  <2>1. side' = side /\ legacy' = legacy /\ file' = file /\ pc' = "idle" /\ db' = OpenedHandle
    BY <1>3 DEF OpenExisting, disk
  <2>2. WellFormed(db'.hdr)
    BY <1>a, <2>1, OpenedIsOnDisk
  <2> QED BY <1>a, <2>1, <2>2 DEF RingInv
<1>4. CASE OpenReconstruct
  BY <1>4, <1>a DEF OpenReconstruct, WellFormed
<1>5. CASE WriteStart
  <2>1. side' = side /\ legacy' = legacy /\ file' = file
    BY <1>5 DEF WriteStart, disk
  <2>2. CASE pc' = "block" /\ db' = db
    <3>1. db.hdr.max > 0 => db.hdr.total < MaxLaps * db.hdr.max
      BY <1>5, <1>b DEF WriteStart, MayWrite, Unlimited
    <3>2. MaxLaps \in {0, 1, 2}
      BY StoreAssumption DEF CountersMove
    <3>3. db.hdr.max > 0 => db.hdr.total < 2 * db.hdr.max
      BY <1>b, <3>1, <3>2
    <3> QED BY <1>a, <2>1, <2>2, <3>3 DEF RingInv
  <2>3. CASE ReserveBreached(db) /\ db' = CapHandle(db) /\ pc' = "cap"
    <3>1. db.hdr.total > 0 /\ ~IsEviction(db.hdr)
      BY <1>b, <2>3 DEF ReserveBreached, IsEviction
    <3>2. db'.hdr = Capped(db.hdr)
      BY <1>b, <2>3 DEF CapHandle, Handle
    <3>3. WellFormed(db'.hdr) /\ db'.hdr.total < 2 * db'.hdr.max
      BY <1>a, <1>b, <3>1, <3>2, CappedWellFormed
    <3> QED BY <1>a, <2>1, <3>3 DEF RingInv
  <2> QED BY <1>5, <2>2, <2>3 DEF WriteStart
<1>6. CASE PersistCap
  <2>1. /\ side' = side /\ legacy' = legacy /\ db' = db /\ pc = "cap" /\ pc' = "block"
        /\ (file' = file \/ file'.hdr = db.hdr)
    BY <1>6 DEF PersistCap, ReadyFile
  <2> QED BY <1>a, <2>1 DEF RingInv
<1>7. CASE WriteBlock
  <2>1. side' = side /\ legacy' = legacy /\ file' = file /\ pc = "block" /\ pc' = "side"
    BY <1>7 DEF WriteBlock
  <2>2. db.hdr.max > 0 => db.hdr.total < 2 * db.hdr.max
    BY <2>1 DEF RingInv
  <2>3. WellFormed(db'.hdr)
    BY <1>a, <1>b, <1>7, <2>2, WriteBlockCounters, AdvancedWellFormed
  <2> QED BY <1>a, <2>1, <2>3 DEF RingInv
<1>8. CASE ShrinkToFit
  <2>1. /\ side' = side /\ legacy' = legacy /\ file' = file /\ pc' = "cap"
        /\ db' = CapHandle(db) /\ ~IsEviction(db.hdr) /\ db.hdr.total > 0
    BY <1>8 DEF ShrinkToFit, disk
  <2>2. db'.hdr = Capped(db.hdr)
    BY <1>b, <2>1 DEF CapHandle, Handle
  <2>3. WellFormed(db'.hdr) /\ db'.hdr.total < 2 * db'.hdr.max
    BY <1>a, <1>b, <2>1, <2>2, CappedWellFormed
  <2> QED BY <1>a, <2>1, <2>3 DEF RingInv
<1>9. CASE BlockFailed
  <2>1. /\ side' = side /\ legacy' = legacy /\ file' = file /\ pc' = "idle"
        /\ db' = [db EXCEPT !.hdr = Evicted(db.hdr)] /\ ~IsEviction(db.hdr)
    BY <1>9, <1>b DEF BlockFailed, disk, CountersMove
  <2>2. db'.hdr = db.hdr
    BY <1>b, <2>1 DEF Evicted, Handle
  <2> QED BY <1>a, <2>1, <2>2 DEF RingInv
<1>10. CASE OpenCompactSlot
  <2>1. /\ file' = file /\ legacy' = legacy /\ db'.hdr = db.hdr /\ pc' \in {"mirror", "sidebody"}
        /\ side' = side \/ side' = [side EXCEPT ![Other(db.side)] = NoSlot]
    BY <1>10, OpenCompactShape
  <2>2. \A n \in {0, 1} : WellFormed(side'[n].hdr)
    BY <1>a, <1>b, <2>1, CleanWellFormed, SlotWellFormed
  <2> QED BY <1>a, <2>1, <2>2 DEF RingInv
<1>11. CASE WriteCompactSlot
  <2> DEFINE x0 == ValidSlot(db.seq, db.lseq, db.hdr)
  <2>1. /\ file' = file /\ legacy' = legacy /\ db'.hdr = db.hdr /\ pc' \in {"mirror", "idle"}
        /\ side' = side \/ side' = [side EXCEPT ![db.side] = x0]
    BY <1>11, WriteCompactShape
  <2>2. WellFormed(x0.hdr)
    BY <1>a DEF ValidSlot
  <2> HIDE DEF x0
  <2>3. \A n \in {0, 1} : WellFormed(side'[n].hdr)
    BY <1>a, <1>b, <2>1, <2>2, SlotWellFormed
  <2> QED BY <1>a, <2>1, <2>3 DEF RingInv
<1>12. CASE OpenMirrorSlot
  <2>1. /\ file' = file /\ side' = side /\ db'.hdr = db.hdr /\ pc' \in {"mirrorbody", "idle"}
        /\ legacy' = legacy \/ legacy' = [legacy EXCEPT ![Other(db.leg)] = NoSlot]
    BY <1>12, OpenMirrorShape
  <2>2. \A n \in {0, 1} : WellFormed(legacy'[n].hdr)
    BY <1>a, <1>b, <2>1, CleanWellFormed, SlotWellFormed
  <2> QED BY <1>a, <2>1, <2>2 DEF RingInv
<1>13. CASE WriteMirrorSlot
  <2> DEFINE x0 == ValidSlot(db.seq, 0, db.hdr)
  <2>1. /\ file' = file /\ side' = side /\ db'.hdr = db.hdr /\ pc' = "idle"
        /\ legacy' = legacy \/ legacy' = [legacy EXCEPT ![db.leg] = x0]
    BY <1>13, WriteMirrorShape
  <2>2. WellFormed(x0.hdr)
    BY <1>a DEF ValidSlot
  <2> HIDE DEF x0
  <2>3. \A n \in {0, 1} : WellFormed(legacy'[n].hdr)
    BY <1>a, <1>b, <2>1, <2>2, SlotWellFormed
  <2> QED BY <1>a, <2>1, <2>3 DEF RingInv
<1>14. CASE CloseStart \/ DeleteStart \/ SyncStart
  <2>1. /\ side' = side /\ legacy' = legacy /\ file' = file /\ db' = db
        /\ pc' \in {"fold", "reopen"}
    BY <1>14 DEF CloseStart, DeleteStart, SyncStart, StartFold, disk
  <2> QED BY <1>a, <2>1 DEF RingInv
<1>15. CASE ClearStart
  <2>1. /\ side' = side /\ legacy' = legacy /\ file' = file /\ pc' = "fold"
        /\ db' = [db EXCEPT !.hdr = Cleared(db.hdr), !.idxStale = FALSE]
    BY <1>15, <1>b DEF ClearStart, StartFold, disk
  <2>2. db'.hdr = EmptyHeader(db.hdr.max)
    BY <1>b, <2>1 DEF Handle, Cleared
  <2> QED BY <1>a, <1>b, <2>1, <2>2, EmptyWellFormed DEF RingInv
<1>16. CASE FoldHeader
  <2>1. CASE /\ file' = ReadyFile(db.hdr) /\ pc' = "remove"
             /\ db' = [db EXCEPT !.stale = FALSE, !.idxStale = FALSE]
    <3>1. db'.hdr = db.hdr /\ file'.hdr = db.hdr /\ side' = side /\ legacy' = legacy
      BY <1>16, <1>b, <2>1 DEF FoldHeader, Handle, ReadyFile
    <3> QED BY <1>a, <2>1, <3>1 DEF RingInv
  <2>2. CASE FoldReturns(db) /\ file' = file
    <3>1. /\ side' = side /\ legacy' = legacy /\ pc' \in {"closed", "idle", "reopen", "unlink"}
          /\ db' = db \/ db' = NoHandle
      BY <1>16, <2>2 DEF FoldHeader, FoldReturns
    <3> QED BY <1>a, <2>2, <3>1, CleanWellFormed DEF RingInv
  <2> QED BY <1>16, <2>1, <2>2 DEF FoldHeader
<1>17. CASE RemoveSlot
  <2>1. file' = file /\ db' = db /\ pc = "remove" /\ pc' = pc /\ gone \in {0, 1, 2, 3}
    BY <1>17 DEF RemoveSlot, TypeInv, TypeOK
  <2>2. \/ gone \in {0, 1} /\ side' = [side EXCEPT ![gone] = NoSlot] /\ legacy' = legacy
        \/ /\ gone - 2 \in {0, 1} /\ legacy' = [legacy EXCEPT ![gone - 2] = NoSlot]
           /\ side' = side
    BY <1>17, <2>1 DEF RemoveSlot
  <2>3. \A n \in {0, 1} : WellFormed(side'[n].hdr) /\ WellFormed(legacy'[n].hdr)
    <3>1. CASE gone \in {0, 1} /\ side' = [side EXCEPT ![gone] = NoSlot] /\ legacy' = legacy
      BY <1>a, <1>b, <3>1, CleanWellFormed, SlotWellFormed
    <3>2. CASE /\ gone - 2 \in {0, 1} /\ legacy' = [legacy EXCEPT ![gone - 2] = NoSlot]
               /\ side' = side
      BY <1>a, <1>b, <3>2, CleanWellFormed, SlotWellFormed
    <3> QED BY <2>2, <3>1, <3>2
  <2> QED BY <1>a, <2>1, <2>3 DEF RingInv
<1>18. CASE RemoveReturns
  <2> DEFINE d == [db EXCEPT !.mirrored = FALSE, !.lseq = 0]
  <2>1. d.hdr = db.hdr
    BY <1>b DEF Handle
  <2> HIDE DEF d
  <2>2. /\ side' = side /\ legacy' = legacy /\ file' = file
        /\ pc' \in {"initial", "closed", "idle", "reopen", "unlink"}
        /\ db' = db \/ db' = d \/ db' = NoHandle
    BY <1>18 DEF RemoveReturns, FoldReturns, disk, d
  <2> QED BY <1>a, <2>1, <2>2, CleanWellFormed DEF RingInv
<1>19. CASE SyncReopen
  <2>1. /\ side' = side /\ legacy' = legacy /\ file' = file
        /\ pc' \in {"idle", "closed"}
        /\ db' = db \/ db' = NoHandle
    BY <1>19 DEF SyncReopen, disk
  <2> QED BY <1>a, <2>1, CleanWellFormed DEF RingInv
<1>20. CASE UnlinkFile
  <2>1. side' = side /\ legacy' = legacy /\ db' = db /\ pc' = "closed"
    BY <1>20 DEF UnlinkFile
  <2>2. WellFormed(file'.hdr)
    BY <1>20, <1>a, CleanWellFormed DEF UnlinkFile
  <2> QED BY <1>a, <2>1, <2>2 DEF RingInv
<1>21. CASE Crash
  <2>1. side' = side /\ legacy' = legacy /\ file' = file /\ db' = NoHandle /\ pc' = "closed"
    BY <1>21 DEF Crash, disk
  <2> QED BY <1>a, <2>1, CleanWellFormed DEF RingInv
<1>22. CASE UNCHANGED vars
  <2>1. side' = side /\ legacy' = legacy /\ file' = file /\ db' = db /\ pc' = pc
    BY <1>22 DEF vars, disk
  <2> QED BY <2>1 DEF RingInv
<1> QED
  BY <1>1, <1>2, <1>3, <1>4, <1>5, <1>6, <1>7, <1>8, <1>9, <1>10, <1>11, <1>12,
     <1>13, <1>14, <1>15, <1>16, <1>17, <1>18, <1>19, <1>20, <1>21, <1>22
  DEF Next, Open, Call, Step

(* The slot tsdb_write_h takes next and the slot a reader starts at are    *)
(* the same in a full ring, and the eviction count follows total_records:  *)
(* through power cuts, caps, clears and every failed write but that of an  *)
(* evicting block, for two laps of a ring of any size.                     *)
THEOREM WriterMeetsReader == CountersMove => (Spec => []RingAligned)
<1> SUFFICES ASSUME CountersMove PROVE Spec => []RingAligned
  OBVIOUS
<1>1. Init => TypeInv /\ RingInv
  BY TypeInit, RingInit
<1>2. TypeInv /\ RingInv /\ [Next]_vars => TypeInv' /\ RingInv'
  BY TypeStep, RingStep
<1>3. TypeInv /\ RingInv => RingAligned
  BY DEF RingInv, WellFormed, Aligned, RingAligned
<1> QED BY <1>1, <1>2, <1>3, PTL DEF Spec

-----------------------------------------------------------------------------
(* One capacity *)

(* The header a power cut would leave, when there is a file. *)
LEMMA RecoveredIsChosen ==
  ASSUME TypeInv, DurableInv, file.state = "ready"
  PROVE  /\ Recovered = Chosen(file.hdr, side, legacy)
         /\ OnTop(Recovered, file.hdr, side, legacy)
         /\ Recovered = file.hdr \/ \E x \in Valid(side, legacy) : Recovered = x.hdr
<1>1. Recovered = Chosen(file.hdr, side, legacy)
  BY DEF Recovered, OpenedHandle, NewHandle, Chosen, DurableInv, SaneDisk
<1>2. OnTop(Chosen(file.hdr, side, legacy), file.hdr, side, legacy)
  BY DiskTypes, TopIsChosen DEF DurableInv, SaneDisk, SaneSlots
<1> QED BY <1>1, <1>2 DEF OnTop

LEMMA PlainInit == Init => PlainInv
<1> SUFFICES ASSUME Init PROVE PlainInv
  OBVIOUS
<1>1. ~side[0].ok /\ ~side[1].ok /\ ~legacy[0].ok /\ ~legacy[1].ok
  BY DEF Init, NoSlots, NoSlot
<1> QED BY <1>1 DEF Init, PlainInv, Valid, HandleLive, Writing

LEMMA PlainStep ==
  ASSUME PlainFaults, TypeInv, DurableInv, PlainInv, [Next]_vars
  PROVE  PlainInv'
<1> USE DEF Goto
<1>a. /\ file.state = "ready" => file.hdr.max = ConfigMax
      /\ \A x \in Valid(side, legacy) : x.hdr.max = ConfigMax
      /\ HandleLive \/ op = "create" => db.hdr.max = ConfigMax
      /\ op = "create" => file.state = "empty"
      /\ op # "clear" /\ pc # "cap"
  BY DEF PlainInv
<1>b. /\ side \in SlotPair /\ legacy \in SlotPair /\ db \in Handle /\ db.hdr \in Header
      /\ db.side \in {0, 1} /\ db.leg \in {0, 1} /\ db.seq \in Nat /\ db.lseq \in Nat
      /\ Other(db.side) \in {0, 1} /\ Other(db.leg) \in {0, 1}
  BY DiskTypes DEF Other
<1>c. ControlInv /\ RemoveInv /\ SaneDisk
  BY DEF DurableInv
<1>d. ~NoSlot.ok
  BY DEF NoSlot
<1>1. CASE CreateFile
  <2>1. /\ file'.state = "empty" /\ db'.hdr = EmptyHeader(ConfigMax) /\ op' = "create"
        /\ side' = side /\ legacy' = legacy /\ pc' = "remove"
    BY <1>1 DEF CreateFile, NewHandle
  <2> QED BY <1>a, <2>1 DEF PlainInv, EmptyHeader
<1>2. CASE WriteInitialHeader
  <2>1. /\ side' = side /\ legacy' = legacy /\ op' = "none" /\ pc = "initial"
        /\ \/ file' = ReadyFile(db.hdr) /\ pc' = "idle" /\ db' = db
           \/ file' = file /\ pc' = "closed"
    BY <1>2 DEF WriteInitialHeader
  <2>2. db.hdr.max = ConfigMax
    BY <1>a, <1>c, <2>1 DEF ControlInv
  <2> QED BY <1>a, <2>1, <2>2 DEF PlainInv, ReadyFile, HandleLive, Writing
<1>3. CASE OpenExisting
  <2>1. /\ side' = side /\ legacy' = legacy /\ file' = file /\ pc = "closed" /\ pc' = "idle"
        /\ op' = op /\ db' = OpenedHandle /\ file.state = "ready" /\ Sane(file.hdr)
    BY <1>3 DEF OpenExisting, disk
  <2>2. db'.hdr = Recovered
    BY <2>1 DEF Recovered
  <2>3. db'.hdr.max = ConfigMax
    BY <1>a, <2>1, <2>2, RecoveredIsChosen
  <2> QED BY <1>a, <2>1, <2>3 DEF PlainInv
<1>4. CASE OpenReconstruct
  BY <1>4, <1>c DEF OpenReconstruct, SaneDisk
<1>5. CASE WriteStart
  <2>1. /\ side' = side /\ legacy' = legacy /\ file' = file /\ pc = "idle" /\ pc' = "block"
        /\ op' = op /\ db' = db
    BY <1>5 DEF WriteStart, ReserveBreached, PlainFaults, disk
  <2> QED BY <1>a, <2>1 DEF PlainInv, HandleLive, Writing
<1>6. CASE PersistCap
  BY <1>6, <1>a DEF PersistCap
<1>7. CASE WriteBlock
  <2>1. /\ side' = side /\ legacy' = legacy /\ file' = file /\ pc = "block" /\ pc' = "side"
        /\ op' = op
    BY <1>7 DEF WriteBlock
  <2>2. db'.hdr.max = db.hdr.max
    BY <1>7, WriteBlockHeader
  <2> QED BY <1>a, <2>1, <2>2 DEF PlainInv, HandleLive, Writing
<1>8. CASE ShrinkToFit
  BY <1>8 DEF ShrinkToFit, PlainFaults
<1>9. CASE BlockFailed
  <2>1. /\ side' = side /\ legacy' = legacy /\ file' = file /\ pc = "block" /\ pc' = "idle"
        /\ op' = op /\ db' = [db EXCEPT !.hdr = Evicted(db.hdr)] /\ ~IsEviction(db.hdr)
    BY <1>9, <1>b DEF BlockFailed, disk, PlainFaults, TolerableFaults
  <2>2. db'.hdr = db.hdr
    BY <1>b, <2>1 DEF Evicted, Handle
  <2> QED BY <1>a, <2>1, <2>2 DEF PlainInv, HandleLive, Writing
<1>10. CASE OpenCompactSlot
  <2>1. /\ pc = "side" /\ file' = file /\ legacy' = legacy /\ op' = op /\ db'.hdr = db.hdr
        /\ pc' \in {"mirror", "sidebody"}
        /\ side' = side \/ side' = [side EXCEPT ![Other(db.side)] = NoSlot]
    BY <1>10, OpenCompactShape
  <2>2. Valid(side', legacy') \subseteq Valid(side, legacy)
    BY <1>b, <2>1, WipeCompact DEF DurableInv
  <2> QED BY <1>a, <2>1, <2>2 DEF PlainInv, HandleLive, Writing
<1>11. CASE WriteCompactSlot
  <2> DEFINE x0 == ValidSlot(db.seq, db.lseq, db.hdr)
  <2>1. /\ pc = "sidebody" /\ file' = file /\ legacy' = legacy /\ op' = op /\ db'.hdr = db.hdr
        /\ pc' \in {"mirror", "idle"}
        /\ side' = side \/ side' = [side EXCEPT ![db.side] = x0]
    BY <1>11, WriteCompactShape
  <2>2. x0.hdr = db.hdr
    BY DEF ValidSlot
  <2>3. Valid(side', legacy') \subseteq Valid(side, legacy) \cup {x0}
    BY <1>b, <2>1 DEF Valid, SlotPair
  <2> HIDE DEF x0
  <2> QED BY <1>a, <2>1, <2>2, <2>3 DEF PlainInv, HandleLive, Writing
<1>12. CASE OpenMirrorSlot
  <2>1. /\ pc = "mirror" /\ file' = file /\ side' = side /\ op' = op /\ db'.hdr = db.hdr
        /\ pc' \in {"mirrorbody", "idle"}
        /\ legacy' = legacy \/ legacy' = [legacy EXCEPT ![Other(db.leg)] = NoSlot]
    BY <1>12, OpenMirrorShape
  <2>2. Valid(side', legacy') \subseteq Valid(side, legacy)
    BY <1>b, <1>d, <2>1 DEF Valid, SlotPair
  <2> QED BY <1>a, <2>1, <2>2 DEF PlainInv, HandleLive, Writing
<1>13. CASE WriteMirrorSlot
  <2> DEFINE x0 == ValidSlot(db.seq, 0, db.hdr)
  <2>1. /\ pc = "mirrorbody" /\ file' = file /\ side' = side /\ op' = op /\ db'.hdr = db.hdr
        /\ pc' = "idle"
        /\ legacy' = legacy \/ legacy' = [legacy EXCEPT ![db.leg] = x0]
    BY <1>13, WriteMirrorShape
  <2>2. x0.hdr = db.hdr
    BY DEF ValidSlot
  <2>3. Valid(side', legacy') \subseteq Valid(side, legacy) \cup {x0}
    BY <1>b, <2>1 DEF Valid, SlotPair
  <2> HIDE DEF x0
  <2> QED BY <1>a, <2>1, <2>2, <2>3 DEF PlainInv, HandleLive, Writing
<1>14. CASE CloseStart \/ DeleteStart \/ SyncStart
  <2>1. /\ side' = side /\ legacy' = legacy /\ file' = file /\ db' = db
        /\ pc = "idle" /\ pc' \in {"fold", "reopen"} /\ op' \in {"close", "delete", "sync"}
    BY <1>14 DEF CloseStart, DeleteStart, SyncStart, StartFold, disk
  <2> QED BY <1>a, <2>1 DEF PlainInv, HandleLive
<1>15. CASE ClearStart
  BY <1>15 DEF ClearStart, StartFold, PlainFaults
<1>16. CASE FoldHeader
  <2>1. pc = "fold" /\ side' = side /\ legacy' = legacy /\ db.hdr.max = ConfigMax /\ op # "create"
    BY <1>16, <1>a, <1>c DEF FoldHeader, HandleLive, ControlInv
  <2>2. CASE /\ file' = ReadyFile(db.hdr) /\ pc' = "remove" /\ op' = op
             /\ db' = [db EXCEPT !.stale = FALSE, !.idxStale = FALSE]
    <3>1. db'.hdr = db.hdr /\ file'.hdr = db.hdr
      BY <1>b, <2>2 DEF Handle, ReadyFile
    <3> QED BY <1>a, <2>1, <2>2, <3>1 DEF PlainInv
  <2>3. CASE FoldReturns(db) /\ file' = file
    <3>1. /\ pc' \in {"closed", "reopen", "unlink"} /\ op' \in {"none", "sync", "delete"}
          /\ pc' = "reopen" => db' = db
      BY <1>a, <2>3 DEF FoldReturns
    <3> QED BY <1>a, <2>1, <2>3, <3>1 DEF PlainInv, HandleLive, Writing
  <2> QED BY <1>16, <2>2, <2>3 DEF FoldHeader
<1>17. CASE RemoveSlot
  <2>1. /\ file' = file /\ db' = db /\ pc = "remove" /\ pc' = pc /\ op' = op
        /\ gone \in {0, 1, 2, 3}
    BY <1>17 DEF RemoveSlot, TypeInv, TypeOK
  <2>2. \/ gone \in {0, 1} /\ side' = [side EXCEPT ![gone] = NoSlot] /\ legacy' = legacy
        \/ /\ gone - 2 \in {0, 1} /\ legacy' = [legacy EXCEPT ![gone - 2] = NoSlot]
           /\ side' = side
    BY <1>17, <2>1 DEF RemoveSlot
  <2>3. Valid(side', legacy') \subseteq Valid(side, legacy)
    BY <1>b, <1>d, <2>2 DEF Valid, SlotPair
  <2> QED BY <1>a, <2>1, <2>3 DEF PlainInv, HandleLive
<1>18. CASE RemoveReturns
  <2> DEFINE d == [db EXCEPT !.mirrored = FALSE, !.lseq = 0]
  <2>1. d.hdr = db.hdr
    BY <1>b DEF Handle
  <2> HIDE DEF d
  <2>2. pc = "remove" /\ side' = side /\ legacy' = legacy /\ file' = file /\ op # "none"
    BY <1>18, <1>c DEF RemoveReturns, disk, ControlInv
  <2>3. CASE op = "create"
    <3>1. pc' = "initial" /\ db' = db /\ op' = op
      BY <1>18, <2>3 DEF RemoveReturns
    <3> QED BY <1>a, <2>2, <2>3, <3>1 DEF PlainInv
  <2>4. CASE op # "create" /\ FoldReturns(d)
    <3>1. /\ pc' \in {"closed", "reopen", "unlink"} /\ op' \in {"none", "sync", "delete"}
          /\ pc' = "reopen" => db' = d
      BY <1>a, <2>4 DEF FoldReturns
    <3> QED BY <1>a, <2>1, <2>2, <2>4, <3>1 DEF PlainInv, HandleLive, Writing
  <2> QED BY <1>18, <2>3, <2>4 DEF RemoveReturns, d
<1>19. CASE SyncReopen
  <2>1. /\ side' = side /\ legacy' = legacy /\ file' = file /\ pc = "reopen" /\ op' = "none"
        /\ \/ pc' = "idle" /\ db' = db
           \/ pc' = "closed"
    BY <1>19 DEF SyncReopen, disk
  <2> QED BY <1>a, <2>1 DEF PlainInv, HandleLive, Writing
<1>20. CASE UnlinkFile
  <2>1. /\ side' = side /\ legacy' = legacy /\ pc' = "closed" /\ op' = "none"
        /\ file' = file \/ file'.state = "absent"
    BY <1>20 DEF UnlinkFile
  <2> QED BY <1>a, <2>1 DEF PlainInv, HandleLive, Writing
<1>21. CASE Crash
  <2>1. side' = side /\ legacy' = legacy /\ file' = file /\ op' = "none" /\ pc' = "closed"
    BY <1>21 DEF Crash, disk
  <2> QED BY <1>a, <2>1 DEF PlainInv, HandleLive, Writing
<1>22. CASE UNCHANGED vars
  <2>1. side' = side /\ legacy' = legacy /\ file' = file /\ db' = db /\ pc' = pc /\ op' = op
    BY <1>22 DEF vars, disk
  <2> QED BY <2>1 DEF PlainInv, HandleLive
<1> QED
  BY <1>1, <1>2, <1>3, <1>4, <1>5, <1>6, <1>7, <1>8, <1>9, <1>10, <1>11, <1>12,
     <1>13, <1>14, <1>15, <1>16, <1>17, <1>18, <1>19, <1>20, <1>21, <1>22
  DEF Next, Open, Call, Step

-----------------------------------------------------------------------------
(* Where the header of a power cut is *)

LEMMA HomeInit == Init => HomeInv
  BY DEF Init, HomeInv, HandleLive, Writing, Putting

(* A header that is on top and outside the slot that is wiped stays there. *)
LEMMA RestSurvives ==
  ASSUME NEW h, NEW sd \in SlotPair, NEW lg \in SlotPair,
         NEW sd2 \in SlotPair, NEW lg2 \in SlotPair,
         NEW m \in {0, 1}, NEW n \in {0, 1},
         OnTop(h, file.hdr, sd, lg), Valid(sd2, lg2) \subseteq Valid(sd, lg),
         sd2[m] = sd[m], lg2[n] = lg[n], Rests(h, sd[m], lg[n])
  PROVE  OnTop(h, file.hdr, sd2, lg2)
<1>1. file.hdr = h \/ \E x \in Valid(sd2, lg2) : x.hdr = h
  BY ValidElement DEF Rests
<1> QED BY <1>1 DEF OnTop

(* The header a power cut would leave after a step. *)
LEMMA NextIsTop ==
  ASSUME TypeInv', DurableInv', file'.state = "ready",
         NEW h \in Header, OnTop(h, file'.hdr, side', legacy')
  PROVE  Recovered' = h
<1>1. Sane(file'.hdr)
  BY DEF DurableInv, SaneDisk
<1>2. SlotsAgree(side', legacy') /\ SaneSlots(side', legacy')
  BY DEF DurableInv, SaneDisk, SaneSlots
<1>3. side' \in SlotPair /\ legacy' \in SlotPair /\ file'.hdr \in Header
  BY DEF TypeInv, TypeOK, SlotPair, HdrOK
<1>4. Chosen(file'.hdr, side', legacy') = h
  BY <1>2, <1>3, ChosenIsTop
<1>5. OpenedHandle'.hdr = Chosen(file'.hdr, side', legacy')
  BY DEF OpenedHandle, NewHandle, Chosen
<1> QED BY <1>1, <1>4, <1>5 DEF Recovered

LEMMA SameDisk ==
  ASSUME DurableInv, UNCHANGED <<file, side, legacy>>
  PROVE  Recovered' = Recovered
<1>1. file.state = "ready" => Sane(file.hdr)
  BY DEF DurableInv, SaneDisk
<1>2. OpenedHandle' = OpenedHandle
  BY DEF OpenedHandle
<1> QED BY <1>1, <1>2 DEF Recovered

(* Truncating a slot before it is written changes nothing: tsdb_sidecar_   *)
(* write takes the slot that does not have the header a power cut needs.   *)
LEMMA TruncateKeeps ==
  ASSUME PlainFaults, TypeInv, TypeInv', DurableInv, DurableInv', HomeInv,
         OpenCompactSlot \/ OpenMirrorSlot
  PROVE  Recovered' = Recovered
<1>b. /\ side \in SlotPair /\ legacy \in SlotPair /\ db \in Handle /\ db.hdr \in Header
      /\ db.side \in {0, 1} /\ db.leg \in {0, 1} /\ db.hdr.total \in Nat
      /\ Other(db.side) \in {0, 1} /\ Other(db.leg) \in {0, 1}
      /\ Other(db.side) # db.side /\ Other(db.leg) # db.leg
      /\ file.hdr \in Header
  BY DiskTypes DEF Other
<1>c. /\ side' \in SlotPair /\ legacy' \in SlotPair /\ file'.hdr \in Header /\ db'.hdr \in Header
  BY DEF TypeInv, TypeOK, SlotPair, HdrOK
<1>d. file.state = "ready"
  BY DEF OpenCompactSlot, OpenMirrorSlot, DurableInv, ControlInv, HandleLive, Writing
<1>e. OnTop(Recovered, file.hdr, side, legacy)
  BY <1>d, RecoveredIsChosen
<1>f. Recovered \in Header
  BY <1>b, <1>d, RecoveredIsChosen, SlotTypes
<1>1. CASE OpenCompactSlot
  <2>1. /\ pc = "side" /\ file' = file /\ legacy' = legacy
        /\ side' = side \/ side' = [side EXCEPT ![Other(db.side)] = NoSlot]
    BY <1>1, OpenCompactShape
  <2>2. Rests(Recovered, side[db.side], legacy[db.leg])
    BY <2>1 DEF HomeInv, Putting
  <2>3. CASE side' = side
    BY <2>1, <2>3, SameDisk
  <2>4. CASE side' = [side EXCEPT ![Other(db.side)] = NoSlot]
    <3>1. Valid(side', legacy') \subseteq Valid(side, legacy)
      BY <1>b, <2>1, <2>4, WipeCompact DEF DurableInv
    <3>2. side'[db.side] = side[db.side] /\ legacy'[db.leg] = legacy[db.leg]
      BY <1>b, <2>1, <2>4 DEF SlotPair
    <3>3. OnTop(Recovered, file.hdr, side', legacy')
      BY <1>b, <1>c, <1>e, <2>2, <3>1, <3>2, RestSurvives
    <3> QED BY <1>d, <1>f, <2>1, <3>3, NextIsTop
  <2> QED BY <2>1, <2>3, <2>4
<1>2. CASE OpenMirrorSlot
  <2>1. /\ pc = "mirror" /\ file' = file /\ side' = side /\ db'.hdr = db.hdr
        /\ pc' = "mirrorbody"
        /\ legacy' = [legacy EXCEPT ![Other(db.leg)] = NoSlot]
    BY <1>2, OpenMirrorShape DEF PlainFaults, TolerableFaults
  <2>2. legacy'[db.leg] = legacy[db.leg]
    BY <1>b, <2>1 DEF SlotPair
  <2>3. CASE Recovered.total = db.hdr.total
    <3>1. Recovered = db.hdr /\ side[db.side].ok /\ side[db.side].hdr = db.hdr
      BY <2>1, <2>3 DEF HomeInv
    <3>2. /\ file'.hdr.total <= db'.hdr.total
          /\ \A x \in Valid(side', legacy') : x.hdr.total < db'.hdr.total \/ x.hdr = db'.hdr
      BY <2>1 DEF DurableInv, WriteInv, Writing
    <3>3. side'[db.side] \in Valid(side', legacy')
      BY <1>b, <1>c, <2>1, <3>1, ValidElement
    <3>4. OnTop(db'.hdr, file'.hdr, side', legacy')
      BY <2>1, <3>1, <3>2, <3>3 DEF OnTop
    <3> QED BY <1>c, <1>d, <2>1, <3>1, <3>4, NextIsTop
  <2>4. CASE Recovered.total # db.hdr.total
    <3>1. Rests(Recovered, side[Other(db.side)], legacy[db.leg])
      BY <2>1, <2>4 DEF HomeInv, Putting
    <3>2. Valid(side', legacy') \subseteq Valid(side, legacy)
      BY <1>b, <2>1 DEF Valid, SlotPair, NoSlot
    <3>3. side'[Other(db.side)] = side[Other(db.side)]
      BY <2>1
    <3>4. OnTop(Recovered, file.hdr, side', legacy')
      BY <1>b, <1>c, <1>e, <2>2, <3>1, <3>2, <3>3, RestSurvives
    <3> QED BY <1>d, <1>f, <2>1, <3>4, NextIsTop
  <2> QED BY <2>3, <2>4
<1> QED BY <1>1, <1>2

LEMMA HomeStep ==
  ASSUME PlainFaults, TypeInv, TypeInv', DurableInv, DurableInv', PlainInv, PlainInv',
         HomeInv, [Next]_vars
  PROVE  HomeInv'
<1> USE DEF Goto
<1>a. /\ HandleLive /\ pc \notin Putting =>
           Recovered = db.hdr /\ Rests(db.hdr, side[db.side], legacy[db.leg])
      /\ pc \in {"mirror", "mirrorbody"} /\ Recovered.total = db.hdr.total =>
           Recovered = db.hdr /\ side[db.side].ok /\ side[db.side].hdr = db.hdr
      /\ pc \in Putting =>
           \/ pc \in {"mirror", "mirrorbody"} /\ Recovered.total = db.hdr.total
           \/ /\ Recovered.total = db.hdr.total - 1
              /\ Rests(Recovered,
                       side[IF pc = "side" THEN db.side ELSE Other(db.side)],
                       legacy[IF pc = "mirrorbody" THEN Other(db.leg) ELSE db.leg])
  BY DEF HomeInv
<1>b. /\ side \in SlotPair /\ legacy \in SlotPair /\ db \in Handle /\ db.hdr \in Header
      /\ db.side \in {0, 1} /\ db.leg \in {0, 1} /\ db.hdr.total \in Nat
      /\ Other(db.side) \in {0, 1} /\ Other(db.leg) \in {0, 1}
      /\ Other(Other(db.side)) = db.side /\ Other(Other(db.leg)) = db.leg
      /\ Other(db.side) # db.side /\ Other(db.leg) # db.leg
      /\ file.hdr \in Header
  BY DiskTypes DEF Other
<1>c. /\ side' \in SlotPair /\ legacy' \in SlotPair /\ file'.hdr \in Header /\ db'.hdr \in Header
  BY DEF TypeInv, TypeOK, SlotPair, HdrOK
<1>d. ControlInv /\ RemoveInv /\ SaneDisk
  BY DEF DurableInv
<1>g. UNCHANGED <<file, side, legacy>> => Recovered' = Recovered
  BY SameDisk
<1>h. ASSUME NEW h \in Header, file'.state = "ready", OnTop(h, file'.hdr, side', legacy')
      PROVE  Recovered' = h
  BY <1>h, NextIsTop
<1>i. Settled' => Recovered' = db'.hdr
  <2>1. Settled' => HandleLive'
    BY DEF DurableInv, ControlInv, Settled, HandleLive
  <2> QED BY <1>c, <1>h, <2>1 DEF DurableInv, ControlInv
<1>j. pc' \notin Putting /\ ~HandleLive' => HomeInv'
  BY DEF HomeInv, Putting
<1>k. ASSUME HandleLive', pc' \notin Putting, Recovered' = db'.hdr,
             Rests(db.hdr, side[db.side], legacy[db.leg]),
             db'.hdr = db.hdr, db'.side = db.side, db'.leg = db.leg,
             UNCHANGED <<file, side, legacy>>
      PROVE  HomeInv'
  BY <1>k DEF HomeInv, Putting, Rests
<1>l. ASSUME HandleLive', pc' \notin Putting, Recovered' = db'.hdr, file'.hdr = db'.hdr
      PROVE  HomeInv'
  BY <1>l DEF HomeInv, Putting, Rests
<1>1. CASE CreateFile
  <2>1. pc' = "remove" /\ op' = "create"
    BY <1>1 DEF CreateFile
  <2> QED BY <1>j, <2>1 DEF HandleLive, Writing, Putting
<1>2. CASE WriteInitialHeader
  <2>1. CASE file' = ReadyFile(db.hdr) /\ pc' = "idle" /\ db' = db
    BY <1>i, <1>l, <2>1 DEF ReadyFile, Settled, HandleLive, Putting
  <2>2. CASE pc' = "closed"
    BY <1>j, <2>2 DEF HandleLive, Writing, Putting
  <2> QED BY <1>2, <2>1, <2>2 DEF WriteInitialHeader
<1>3. CASE OpenExisting
  <2>1. /\ side' = side /\ legacy' = legacy /\ file' = file /\ pc' = "idle"
        /\ db' = OpenedHandle
    BY <1>3 DEF OpenExisting, disk
  <2>2. Recovered' = db'.hdr
    BY <1>i, <2>1 DEF Settled
  <2>3. /\ db'.side = Newest(side) /\ db'.leg = Newest(legacy)
        /\ db'.hdr = IF Adopts(file.hdr, side, legacy)
                     THEN LoadedHeader(side, legacy) ELSE file.hdr
    BY <2>1 DEF OpenedHandle, NewHandle
  <2>4. /\ Found(side) => side[Newest(side)].ok
        /\ Found(legacy) => legacy[Newest(legacy)].ok
    BY <1>b, NewestIsLargest
  <2>5. Rests(db'.hdr, side[db'.side], legacy[db'.leg])
    BY <2>3, <2>4 DEF Rests, Adopts, LoadFound, LoadedHeader, UseCompact
  <2> QED BY <2>1, <2>2, <2>5 DEF HomeInv, Putting, Rests
<1>4. CASE OpenReconstruct
  BY <1>4, <1>d DEF OpenReconstruct, SaneDisk
<1>5. CASE WriteStart
  <2>1. /\ side' = side /\ legacy' = legacy /\ file' = file /\ pc = "idle" /\ pc' = "block"
        /\ db' = db
    BY <1>5 DEF WriteStart, ReserveBreached, PlainFaults, disk
  <2>2. Recovered' = db'.hdr /\ Rests(db.hdr, side[db.side], legacy[db.leg])
    BY <1>a, <1>g, <2>1 DEF HandleLive, Putting
  <2> QED BY <1>k, <2>1, <2>2 DEF HandleLive, Putting, Writing
<1>6. CASE PersistCap
  BY <1>6 DEF PersistCap, PlainInv
<1>7. CASE WriteBlock
  <2>1. side' = side /\ legacy' = legacy /\ file' = file /\ pc = "block" /\ pc' = "side"
    BY <1>7 DEF WriteBlock
  <2>2. Recovered = db.hdr /\ Rests(db.hdr, side[db.side], legacy[db.leg])
    BY <1>a, <2>1 DEF HandleLive, Putting, Writing
  <2>3. db'.hdr.total = db.hdr.total + 1 /\ db'.leg = db.leg /\ db'.side = db.side
    BY <1>7, WriteBlockHeader
  <2>4. Recovered'.total = db'.hdr.total - 1
    BY <1>b, <1>g, <2>1, <2>2, <2>3
  <2>5. Rests(Recovered, side[db.side], legacy[db.leg])'
    BY <1>g, <2>1, <2>2, <2>3 DEF Rests
  <2> QED BY <2>1, <2>4, <2>5 DEF HomeInv, Putting
<1>8. CASE ShrinkToFit
  BY <1>8 DEF ShrinkToFit, PlainFaults
<1>9. CASE BlockFailed
  <2>1. /\ side' = side /\ legacy' = legacy /\ file' = file /\ pc = "block" /\ pc' = "idle"
        /\ db' = [db EXCEPT !.hdr = Evicted(db.hdr)] /\ ~IsEviction(db.hdr)
    BY <1>9, <1>b DEF BlockFailed, disk, PlainFaults, TolerableFaults
  <2>2. db'.hdr = db.hdr /\ db'.side = db.side /\ db'.leg = db.leg
    BY <1>b, <2>1 DEF Evicted, Handle
  <2>3. Recovered = db.hdr /\ Rests(db.hdr, side[db.side], legacy[db.leg])
    BY <1>a, <2>1 DEF HandleLive, Putting, Writing
  <2> QED BY <1>g, <1>k, <2>1, <2>2, <2>3 DEF HandleLive, Putting
<1>10. CASE OpenCompactSlot
  <2>1. /\ pc = "side" /\ file' = file /\ legacy' = legacy /\ db'.hdr = db.hdr
        /\ db'.side = Other(db.side) /\ db'.leg = db.leg
        /\ \/ pc' = "mirror" /\ side' = side
           \/ pc' = "sidebody" /\ side' = [side EXCEPT ![Other(db.side)] = NoSlot]
    BY <1>10, OpenCompactShape
  <2>2. Recovered.total = db.hdr.total - 1 /\ Rests(Recovered, side[db.side], legacy[db.leg])
    BY <1>a, <2>1 DEF Putting
  <2>3. Recovered' = Recovered /\ side'[db.side] = side[db.side]
    BY <1>10, <1>b, <2>1, TruncateKeeps DEF SlotPair
  <2>4. Rests(Recovered, side[Other(db.side)], legacy[db.leg])'
    BY <1>b, <2>1, <2>2, <2>3 DEF Rests
  <2>5. Recovered'.total = db'.hdr.total - 1 /\ Recovered'.total # db'.hdr.total
    BY <1>b, <2>1, <2>2, <2>3
  <2> QED BY <2>1, <2>4, <2>5 DEF HomeInv, Putting
<1>11. CASE WriteCompactSlot
  <2> DEFINE x0 == ValidSlot(db.seq, db.lseq, db.hdr)
  <2>1. /\ pc = "sidebody" /\ file' = file /\ legacy' = legacy
        /\ db'.hdr = db.hdr /\ db'.side = db.side /\ db'.leg = db.leg
        /\ pc' \in {"mirror", "idle"}
        /\ \/ side' = side /\ pc' = "mirror"
           \/ side' = [side EXCEPT ![db.side] = x0]
    BY <1>11, WriteCompactShape
  <2>2. /\ Recovered.total = db.hdr.total - 1
        /\ Rests(Recovered, side[Other(db.side)], legacy[db.leg])
    BY <1>a, <2>1 DEF Putting
  <2>3. CASE side' = side /\ pc' = "mirror"
    <3>1. Recovered' = Recovered
      BY <1>g, <2>1, <2>3
    <3>2. Rests(Recovered, side[Other(db.side)], legacy[db.leg])'
      BY <2>1, <2>2, <2>3, <3>1 DEF Rests
    <3>3. Recovered'.total = db'.hdr.total - 1 /\ Recovered'.total # db'.hdr.total
      BY <1>b, <2>1, <2>2, <3>1
    <3> QED BY <2>3, <3>2, <3>3 DEF HomeInv, Putting
  <2>4. CASE side' = [side EXCEPT ![db.side] = x0]
    <3>1. side'[db.side] = x0 /\ x0.ok /\ x0.hdr = db.hdr
      BY <1>b, <2>4 DEF SlotPair, ValidSlot
    <3> HIDE DEF x0
    <3>2. Recovered' = db'.hdr
      <4>1. CASE pc' = "idle"
        BY <1>i, <4>1 DEF Settled
      <4>2. CASE pc' = "mirror"
        <5>1. /\ file'.hdr.total <= db'.hdr.total /\ file'.state = "ready"
              /\ \A x \in Valid(side', legacy') :
                   x.hdr.total < db'.hdr.total \/ x.hdr = db'.hdr
          BY <4>2 DEF DurableInv, WriteInv, ControlInv, HandleLive, Writing
        <5>2. side'[db.side] \in Valid(side', legacy')
          BY <1>b, <1>c, <3>1, ValidElement
        <5>3. OnTop(db'.hdr, file'.hdr, side', legacy')
          BY <2>1, <3>1, <5>1, <5>2 DEF OnTop
        <5> QED BY <1>c, <1>h, <5>1, <5>3
      <4> QED BY <2>1, <4>1, <4>2
    <3> QED BY <2>1, <3>1, <3>2 DEF HomeInv, Putting, Rests
  <2> QED BY <2>1, <2>3, <2>4
<1>12. CASE OpenMirrorSlot
  <2>1. /\ pc = "mirror" /\ file' = file /\ side' = side /\ db'.hdr = db.hdr
        /\ db'.side = db.side /\ db'.leg = Other(db.leg) /\ pc' = "mirrorbody"
        /\ legacy' = [legacy EXCEPT ![Other(db.leg)] = NoSlot]
    BY <1>12, OpenMirrorShape DEF PlainFaults, TolerableFaults
  <2>2. Recovered' = Recovered /\ legacy'[db.leg] = legacy[db.leg]
    BY <1>12, <1>b, <2>1, TruncateKeeps DEF SlotPair
  <2>3. CASE Recovered.total = db.hdr.total
    <3>1. Recovered = db.hdr /\ side[db.side].ok /\ side[db.side].hdr = db.hdr
      BY <1>a, <2>1, <2>3
    <3> QED BY <2>1, <2>2, <3>1 DEF HomeInv, Putting
  <2>4. CASE Recovered.total # db.hdr.total
    <3>1. /\ Recovered.total = db.hdr.total - 1
          /\ Rests(Recovered, side[Other(db.side)], legacy[db.leg])
      BY <1>a, <2>1, <2>4 DEF Putting
    <3>2. Rests(Recovered, side[Other(db.side)], legacy[Other(db.leg)])'
      BY <1>b, <2>1, <2>2, <3>1 DEF Rests
    <3>3. Recovered'.total = db'.hdr.total - 1 /\ Recovered'.total # db'.hdr.total
      BY <1>b, <2>1, <2>2, <3>1
    <3> QED BY <2>1, <3>2, <3>3 DEF HomeInv, Putting
  <2> QED BY <2>3, <2>4
<1>13. CASE WriteMirrorSlot
  <2> DEFINE x0 == ValidSlot(db.seq, 0, db.hdr)
  <2>1. /\ file' = file /\ side' = side /\ db'.hdr = db.hdr /\ db'.leg = db.leg
        /\ pc' = "idle" /\ legacy' = [legacy EXCEPT ![db.leg] = x0]
    BY <1>13, WriteMirrorShape DEF PlainFaults, TolerableFaults
  <2>2. legacy'[db.leg] = x0 /\ x0.ok /\ x0.hdr = db.hdr
    BY <1>b, <2>1 DEF SlotPair, ValidSlot
  <2> HIDE DEF x0
  <2>3. Recovered' = db'.hdr
    BY <1>i, <2>1 DEF Settled
  <2> QED BY <2>1, <2>2, <2>3 DEF HomeInv, Putting, Rests
<1>14. CASE CloseStart \/ DeleteStart \/ SyncStart
  <2>1. /\ side' = side /\ legacy' = legacy /\ file' = file /\ db' = db
        /\ pc = "idle" /\ pc' \in {"fold", "reopen"}
    BY <1>14 DEF CloseStart, DeleteStart, SyncStart, StartFold, disk
  <2>2. Recovered' = db'.hdr /\ Rests(db.hdr, side[db.side], legacy[db.leg])
    BY <1>a, <1>g, <2>1 DEF HandleLive, Putting
  <2> QED BY <1>k, <2>1, <2>2 DEF HandleLive, Putting
<1>15. CASE ClearStart
  BY <1>15 DEF ClearStart, StartFold, PlainFaults
<1>16. CASE FoldHeader
  <2>1. pc = "fold" /\ side' = side /\ legacy' = legacy /\ op \in {"close", "sync", "delete"}
    BY <1>16, <1>d DEF FoldHeader, ControlInv, PlainInv
  <2>2. CASE /\ file' = ReadyFile(db.hdr) /\ pc' = "remove" /\ op' = op
             /\ db' = [db EXCEPT !.stale = FALSE, !.idxStale = FALSE]
    <3>1. db'.hdr = db.hdr /\ file'.hdr = db.hdr
      BY <1>b, <2>2 DEF Handle, ReadyFile
    <3>2. Settled' /\ HandleLive' /\ pc' \notin Putting
      BY <2>1, <2>2 DEF Settled, HandleLive, Putting
    <3> QED BY <1>i, <1>l, <3>1, <3>2
  <2>3. CASE FoldReturns(db) /\ file' = file
    <3>1. \/ pc' = "closed" \/ pc' = "unlink"
          \/ pc' = "reopen" /\ db' = db
      BY <2>1, <2>3 DEF FoldReturns
    <3>2. CASE pc' = "closed" \/ pc' = "unlink"
      BY <1>j, <3>2 DEF HandleLive, Writing, Putting
    <3>3. CASE pc' = "reopen" /\ db' = db
      <4>1. Recovered' = db'.hdr /\ Rests(db.hdr, side[db.side], legacy[db.leg])
        BY <1>a, <1>g, <2>1, <2>3, <3>3 DEF HandleLive, Putting
      <4> QED BY <1>k, <2>1, <2>3, <3>3, <4>1 DEF HandleLive, Putting
    <3> QED BY <3>1, <3>2, <3>3
  <2> QED BY <1>16, <2>2, <2>3 DEF FoldHeader
<1>17. CASE RemoveSlot
  <2>1. file' = file /\ db' = db /\ pc = "remove" /\ pc' = pc /\ op' = op
    BY <1>17 DEF RemoveSlot
  <2>2. CASE op = "create"
    BY <1>j, <2>1, <2>2 DEF HandleLive, Writing, Putting
  <2>3. CASE op # "create"
    <3>1. file'.hdr = db'.hdr
      BY <1>d, <2>1, <2>3 DEF RemoveInv
    <3>2. op \in {"close", "sync", "delete"}
      BY <1>d, <2>1, <2>3 DEF ControlInv, PlainInv, TypeInv, TypeOK
    <3>3. Settled' /\ HandleLive' /\ pc' \notin Putting
      BY <2>1, <3>2 DEF Settled, HandleLive, Putting
    <3> QED BY <1>i, <1>l, <3>1, <3>3
  <2> QED BY <2>2, <2>3
<1>18. CASE RemoveReturns
  <2> DEFINE d == [db EXCEPT !.mirrored = FALSE, !.lseq = 0]
  <2>1. d.hdr = db.hdr
    BY <1>b DEF Handle
  <2> HIDE DEF d
  <2>2. pc = "remove" /\ file' = file
    BY <1>18 DEF RemoveReturns, disk
  <2>3. CASE pc' \in {"initial", "closed", "unlink"}
    BY <1>j, <2>3 DEF HandleLive, Writing, Putting
  <2>4. CASE op # "create" /\ pc' = "reopen" /\ op' = "sync" /\ db' = d
    <3>1. file'.hdr = db'.hdr
      BY <1>d, <2>1, <2>2, <2>4 DEF RemoveInv
    <3>2. Settled' /\ HandleLive' /\ pc' \notin Putting
      BY <2>4 DEF Settled, HandleLive, Putting
    <3> QED BY <1>i, <1>l, <3>1, <3>2
  <2> QED BY <1>18, <2>3, <2>4 DEF RemoveReturns, FoldReturns, PlainInv, d
<1>19. CASE SyncReopen
  <2>1. /\ side' = side /\ legacy' = legacy /\ file' = file /\ pc = "reopen"
        /\ \/ pc' = "idle" /\ db' = db
           \/ pc' = "closed"
    BY <1>19 DEF SyncReopen, disk
  <2>2. CASE pc' = "closed"
    BY <1>j, <2>2 DEF HandleLive, Writing, Putting
  <2>3. CASE pc' = "idle" /\ db' = db
    <3>1. Recovered' = db'.hdr /\ Rests(db.hdr, side[db.side], legacy[db.leg])
      BY <1>a, <1>g, <2>1, <2>3 DEF HandleLive, Putting
    <3> QED BY <1>k, <2>1, <2>3, <3>1 DEF HandleLive, Putting
  <2> QED BY <2>1, <2>2, <2>3
<1>20. CASE UnlinkFile \/ Crash
  <2>1. pc' = "closed"
    BY <1>20 DEF UnlinkFile, Crash
  <2> QED BY <1>j, <2>1 DEF HandleLive, Writing, Putting
<1>21. CASE UNCHANGED vars
  <2>1. side' = side /\ legacy' = legacy /\ file' = file /\ db' = db /\ pc' = pc /\ op' = op
    BY <1>21 DEF vars, disk
  <2>2. Recovered' = Recovered
    BY <1>g, <2>1
  <2> QED BY <2>1, <2>2 DEF HomeInv, HandleLive, Rests
<1> QED
  BY <1>1, <1>2, <1>3, <1>4, <1>5, <1>6, <1>7, <1>8, <1>9, <1>10, <1>11, <1>12,
     <1>13, <1>14, <1>15, <1>16, <1>17, <1>18, <1>19, <1>20, <1>21
  DEF Next, Open, Call, Step
=============================================================================
