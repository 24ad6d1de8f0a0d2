-------------------------- MODULE TsdbStoreProofs ---------------------------
(***************************************************************************)
(* Theorems about TsdbStore, for every capacity, data area, mirror         *)
(* interval and every bound.                                               *)
(***************************************************************************)
EXTENDS TsdbStoreInv, FiniteSetTheorems, WellFoundedInduction, TLAPS

-----------------------------------------------------------------------------
(* Lemmas about the operators on headers *)

(* A nonempty set of naturals has a least element. *)
LEMMA LeastNatural ==
  ASSUME NEW T \in SUBSET Nat, T # {}
  PROVE  \E x \in T : \A y \in T : x <= y
<1>1. \E x \in T : \A y \in T : ~ (<<y, x>> \in OpToRel(<, Nat))
  BY NatLessThanWellFounded, WFMin, Zenon
<1>2. PICK x \in T : \A y \in T : ~ (<<y, x>> \in OpToRel(<, Nat))
  BY <1>1
<1>3. ASSUME NEW y \in T PROVE x <= y
  <2>1. ~(<<y, x>> \in OpToRel(<, Nat))
    BY <1>2
  <2>2. x \in Nat /\ y \in Nat
    OBVIOUS
  <2>3. OpToRel(<, Nat) = {ss \in Nat \X Nat : ss[1] < ss[2]}
    BY Zenon DEF OpToRel
  <2>4. ~(y < x)
    BY <2>1, <2>2, <2>3
  <2> QED BY <2>2, <2>4
<1> QED BY <1>3

(* The ring index arithmetic stays inside the data area. *)
LEMMA ModRange ==
  ASSUME NEW a \in Nat, NEW m \in Nat, m > 0
  PROVE  a % m \in 0 .. (m - 1)
  OBVIOUS

(* A data area whose timestamps are bounded is reconstructed to a header   *)
(* of the right type, with a capacity and a count the data area can hold.  *)
LEMMA ReconstructedHdrOK ==
  ASSUME NEW d \in [Slots -> Nat], NEW c \in Nat, \A s \in Slots : d[s] <= c,
         NEW m \in Nat, m <= MaxSlots
  PROVE  HdrOK(Reconstructed(d, m))
<1> DEFINE Used  == {s \in Slots : d[s] # 0}
           First == CHOOSE s \in Used : \A x \in Used : d[s] <= d[x]
           Last  == CHOOSE s \in Used : \A x \in Used : d[s] >= d[x]
<1>1. IsFiniteSet(Slots) /\ Cardinality(Slots) = MaxSlots
  BY FS_Interval, MaxSlotsAssumption DEF Slots
<1>2. IsFiniteSet(Used) /\ Cardinality(Used) \in Nat /\ Cardinality(Used) <= MaxSlots
  BY <1>1, FS_Subset, FS_CardinalityType, Used \in SUBSET Slots
<1>3. CASE Used = {}
  BY <1>3, MaxSlotsAssumption DEF Reconstructed, EmptyHeader, HdrOK, Header
<1>4. CASE Used # {}
  <2>1. \E s \in Used : \A x \in Used : d[s] <= d[x]
    <3> DEFINE T == {d[s] : s \in Used}
    <3>1. T \in SUBSET Nat /\ T # {}
      BY <1>4
    <3>2. \E v \in T : \A y \in T : v <= y
      BY <3>1, LeastNatural
    <3> QED BY <3>2
  <2>2. \E s \in Used : \A x \in Used : d[s] >= d[x]
    <3> DEFINE T == {c - d[s] : s \in Used}
    <3>1. T \in SUBSET Nat /\ T # {}
      BY <1>4
    <3>2. \E v \in T : \A y \in T : v <= y
      BY <3>1, LeastNatural
    <3>3. PICK s \in Used : \A y \in T : c - d[s] <= y
      BY <3>2
    <3>4. ASSUME NEW x \in Used PROVE d[s] >= d[x]
      <4>1. c - d[x] \in T
        OBVIOUS
      <4>2. c - d[s] <= c - d[x]
        BY <3>3, <4>1
      <4>3. d[s] \in Nat /\ d[x] \in Nat
        OBVIOUS
      <4> QED BY <4>2, <4>3
    <3> QED BY <3>4
  <2>3. First \in Slots /\ Last \in Slots
    BY <2>1, <2>2
  <2>4. First \in Nat /\ d[First] \in Nat /\ d[Last] \in Nat
    BY <2>3 DEF Slots
  <2> HIDE DEF First, Last
  <2>5. Reconstructed(d, m) =
          [max |-> m, total |-> Cardinality(Used), oldest |-> First,
           evictions |-> IF Cardinality(Used) > m THEN Cardinality(Used) - m ELSE 0,
           oldestTs |-> d[First], newestTs |-> d[Last]]
    BY <1>4 DEF Reconstructed, First, Last
  <2> QED BY <2>4, <2>5, <1>2 DEF HdrOK, Header
<1> QED BY <1>3, <1>4

(* What an evicting or growing write makes of a header keeps its type. *)
LEMMA AdvancedHdrOK ==
  ASSUME NEW h, HdrOK(h), NEW ts \in Nat, NEW d \in [Slots -> Nat],
         Unlimited(h) => h.total < MaxSlots
  PROVE  HdrOK(Advanced(h, ts, d)) /\ HdrOK(Evicted(h))
<1> DEFINE e == Evicted(h)
<1>1. e \in Header /\ e.max = h.max /\ e.total = h.total
  <2>1. CASE IsEviction(h)
    <3> DEFINE o == (h.oldest + 1) % h.max
               v == h.evictions + 1
    <3>1. o \in Nat /\ v \in Nat
      BY <2>1, ModRange DEF HdrOK, Header, IsEviction, Unlimited
    <3>2. e = [h EXCEPT !.evictions = v, !.oldest = o]
      BY <2>1 DEF Evicted
    <3>3. h \in Header
      BY DEF HdrOK
    <3> HIDE DEF o, v, e
    <3> QED BY <3>1, <3>2, <3>3 DEF Header
  <2>2. CASE ~IsEviction(h)
    BY <2>2 DEF HdrOK, Evicted
  <2> QED BY <2>1, <2>2
<1>2. IsEviction(h) => e.oldest \in Slots
  <2>1. SUFFICES ASSUME IsEviction(h) PROVE (h.oldest + 1) % h.max \in Slots
    BY DEF Evicted, HdrOK, Header
  <2>2. (h.oldest + 1) % h.max \in 0 .. (h.max - 1)
    BY <2>1, ModRange DEF HdrOK, Header, IsEviction, Unlimited
  <2> QED BY <2>2, MaxSlotsAssumption DEF Slots, HdrOK, Header
<1>3. IsEviction(h) => d[e.oldest] \in Nat
  BY <1>2
<1> HIDE DEF e
<1>4. Advanced(h, ts, d) \in Header
  <2> DEFINE o == IF IsEviction(h) THEN d[e.oldest]
                  ELSE IF h.total = 0 THEN ts ELSE e.oldestTs
             t == e.total + 1
  <2>1. o \in Nat /\ t \in Nat
    BY <1>1, <1>3 DEF Header
  <2>2. Advanced(h, ts, d) = [e EXCEPT !.total = t, !.newestTs = ts, !.oldestTs = o]
    BY <1>1 DEF Advanced, e, Header
  <2> HIDE DEF o, t
  <2>3. e \in Header
    BY <1>1
  <2>4. [e EXCEPT !.total = t, !.newestTs = ts, !.oldestTs = o] \in Header
    BY <2>1, <2>3 DEF Header
  <2> QED BY <2>2, <2>4
<1>5. Advanced(h, ts, d).max = h.max /\ Advanced(h, ts, d).total = h.total + 1
  BY <1>1 DEF Advanced, Header, e
<1> QED BY <1>1, <1>4, <1>5, MaxSlotsAssumption DEF HdrOK, Unlimited, e, Header

(* Capping a growing header keeps its type. *)
LEMMA CappedHdrOK ==
  ASSUME NEW h, HdrOK(h), h.total > 0, h.max > 0 => h.total < h.max
  PROVE  HdrOK(Capped(h)) /\ Capped(h).max > 0
  BY MaxSlotsAssumption DEF HdrOK, Header, Capped

(* The empty headers of a new or cleared database. *)
LEMMA EmptyHdrOK ==
  /\ HdrOK(EmptyHeader(0))
  /\ HdrOK(EmptyHeader(ConfigMax))
  /\ \A h : HdrOK(h) => HdrOK(Cleared(h))
  BY StoreAssumption, MaxSlotsAssumption DEF HdrOK, Header, EmptyHeader, Cleared

(* The handle that opening an existing file yields. *)
LEMMA OpenedHandleOK ==
  ASSUME TypeInv
  PROVE  OpenedHandle \in Handle /\ HdrOK(OpenedHandle.hdr)
<1>1. Newest(side) \in {0, 1} /\ Newest(legacy) \in {0, 1}
  BY DEF Newest
<1>2. NewestSeq(side) \in Nat /\ NewestSeq(legacy) \in Nat
  BY <1>1 DEF NewestSeq, TypeInv, TypeOK, Slot
<1>3. LoadedSeq(side, legacy) \in Nat
  BY <1>2 DEF LoadedSeq
<1>4. HdrOK(LoadedHeader(side, legacy))
  BY <1>1 DEF LoadedHeader, TypeInv
<1>5. Adopts(file.hdr, side, legacy) \in BOOLEAN
  BY DEF Adopts
<1> DEFINE h == IF Adopts(file.hdr, side, legacy) THEN LoadedHeader(side, legacy) ELSE file.hdr
<1>6. HdrOK(h) /\ h \in Header
  BY <1>4 DEF TypeInv, HdrOK
<1> HIDE DEF h
<1>7. OpenedHandle = [NewHandle(h) EXCEPT !.seq = LoadedSeq(side, legacy),
                        !.lseq = NewestSeq(legacy), !.leg = Newest(legacy),
                        !.side = Newest(side), !.idxStale = Adopts(file.hdr, side, legacy)]
  BY DEF OpenedHandle, h
<1> QED BY <1>1, <1>2, <1>3, <1>5, <1>6, <1>7 DEF NewHandle, Handle

-----------------------------------------------------------------------------
(* Types *)

(* Neither side effect of a write on its handle needs the type of the      *)
(* database.                                                               *)
LEMMA CleanHandle ==
  /\ NoHandle \in Handle
  /\ NewHandle(EmptyHeader(ConfigMax)) \in Handle
  /\ NoSlot \in Slot
  /\ HdrOK(NoSlot.hdr)
  /\ HdrOK(NoHandle.hdr)
  /\ HdrOK(NewHandle(EmptyHeader(ConfigMax)).hdr)
<1>1. EmptyHeader(0) \in Header /\ EmptyHeader(ConfigMax) \in Header
  BY EmptyHdrOK DEF HdrOK
<1> QED BY <1>1, EmptyHdrOK DEF NoHandle, NewHandle, Handle, NoSlot, Slot

(* The handle of a capped ring. *)
LEMMA CapHandleOK ==
  ASSUME TypeInv, db.hdr.total > 0, db.hdr.max > 0 => db.hdr.total < db.hdr.max
  PROVE  /\ CapHandle(db) \in Handle
         /\ HdrOK(CapHandle(db).hdr)
         /\ CapHandle(db).hdr.max > 0
<1>1. HdrOK(Capped(db.hdr)) /\ Capped(db.hdr).max > 0
  BY CappedHdrOK DEF TypeInv
<1>2. Capped(db.hdr) \in Header
  BY <1>1 DEF HdrOK
<1> QED BY <1>1, <1>2 DEF CapHandle, Handle, TypeInv, TypeOK

(* The data area and the handle once the block of a record is written. *)
LEMMA WrittenOK ==
  ASSUME TypeInv, WriteBlock
  PROVE  /\ data' \in [Slots -> Nat]
         /\ \A s \in Slots : data'[s] <= clock
         /\ db' \in Handle
         /\ HdrOK(db'.hdr)
<1> PICK oldestRead \in BOOLEAN :
       db' = [db EXCEPT !.hdr = HeaderWith(rec, data', oldestRead),
                        !.idxStale = @ \/ RecordIdx(db.hdr) % Stride = 0]
  BY DEF WriteBlock, Outcomes
<1> DEFINE a == Advanced(db.hdr, rec, data')
           h == HeaderWith(rec, data', oldestRead)
           b == db.idxStale \/ RecordIdx(db.hdr) % Stride = 0
<1>1. data' \in [Slots -> Nat] /\ \A s \in Slots : data'[s] <= clock
  BY DEF WriteBlock, DataWith, TypeInv, TypeOK
<1>2. HdrOK(h) /\ h \in Header
  <2>1. HdrOK(a)
    BY <1>1, AdvancedHdrOK DEF WriteBlock, TypeInv, TypeOK
  <2>2. db.hdr.oldestTs \in Nat
    BY DEF TypeInv, HdrOK, Header
  <2> HIDE DEF a
  <2>3. h = a \/ h = [a EXCEPT !.oldestTs = db.hdr.oldestTs]
    BY DEF HeaderWith, a
  <2> HIDE DEF h
  <2> QED BY <2>1, <2>2, <2>3 DEF HdrOK, Header
<1>3. db' = [db EXCEPT !.hdr = h, !.idxStale = b] /\ b \in BOOLEAN
  BY DEF TypeInv, TypeOK, Handle
<1> HIDE DEF h, b
<1> QED BY <1>1, <1>2, <1>3 DEF Handle, TypeInv, TypeOK

(* Updating one sidecar slot. *)
SlotsOK(slots) ==
  slots \in [{0, 1} -> Slot] /\ \A n \in {0, 1} : HdrOK(slots[n].hdr)

LEMMA SlotUpdateOK ==
  ASSUME NEW slots, SlotsOK(slots), NEW n \in {0, 1}, NEW x \in Slot, HdrOK(x.hdr)
  PROVE  SlotsOK([slots EXCEPT ![n] = x])
  BY DEF SlotsOK

LEMMA ValidSlotOK ==
  ASSUME NEW q \in Nat, NEW l \in Nat, NEW h, HdrOK(h)
  PROVE  ValidSlot(q, l, h) \in Slot /\ HdrOK(ValidSlot(q, l, h).hdr)
  BY DEF ValidSlot, Slot, HdrOK

(* What the steps of tsdb_sidecar_write leave of the writer's state. *)
WriterOK ==
  /\ db' \in Handle
  /\ HdrOK(db'.hdr)
  /\ acked' \subseteq Nat
  /\ rec' \in Nat
  /\ rec' <= clock
  /\ pc' \in Labels \ {"block", "cap"}

LEMMA WriteReturnsOK ==
  ASSUME TypeInv, NEW d \in Handle, HdrOK(d.hdr), WriteReturns(d)
  PROVE  WriterOK
<1>1. db' \in Handle /\ db'.hdr = d.hdr
  BY DEF WriteReturns, Handle
<1>2. acked' \subseteq Nat /\ rec' = 0 /\ pc' = "idle" /\ clock \in Nat
  BY DEF WriteReturns, TypeInv, TypeOK, Goto
<1> QED BY <1>1, <1>2 DEF WriterOK, Labels

LEMMA AfterCompactOK ==
  ASSUME TypeInv, NEW d \in Handle, HdrOK(d.hdr), NEW ok \in BOOLEAN, AfterCompact(ok, d)
  PROVE  WriterOK
<1>1. CASE WriteReturns(d)
  BY <1>1, WriteReturnsOK
<1>2. CASE db' = d /\ pc' = "mirror" /\ UNCHANGED <<acked, rec>>
  BY <1>2 DEF WriterOK, TypeInv, TypeOK, Labels
<1> QED BY <1>1, <1>2 DEF AfterCompact, Goto

(* What the return of tsdb_fold_header leaves of its caller's state. *)
FolderOK ==
  /\ db' \in Handle
  /\ HdrOK(db'.hdr)
  /\ op' \in {"none", "create", "close", "sync", "clear", "delete"}
  /\ acked' \subseteq Nat
  /\ floor' \in Nat
  /\ pc' \in Labels \ {"block", "cap"}

LEMMA FoldReturnsOK ==
  ASSUME TypeInv, NEW d \in Handle, HdrOK(d.hdr), FoldReturns(d)
  PROVE  FolderOK
  BY CleanHandle DEF FoldReturns, FolderOK, Dropped, TypeInv, TypeOK, Labels, Goto

LEMMA TypeInit == Init => TypeInv
<1> SUFFICES ASSUME Init PROVE TypeInv
  OBVIOUS
<1>1. TypeOK
  BY CleanHandle, EmptyHdrOK
  DEF Init, TypeOK, NoData, NoSlots, File, Labels, HdrOK
<1> QED BY <1>1, CleanHandle, EmptyHdrOK DEF Init, TypeInv, NoData, NoSlots

LEMMA TypeStep == TypeInv /\ [Next]_vars => TypeInv'
<1> SUFFICES ASSUME TypeInv, [Next]_vars PROVE TypeInv'
  OBVIOUS
<1> USE DEF Goto
<1>1. CASE CreateFile
  BY <1>1, CleanHandle, EmptyHdrOK
  DEF CreateFile, TypeInv, TypeOK, HdrOK, File, Labels, NoData, Unlimited, hist
<1>2. CASE WriteInitialHeader
  BY <1>2, CleanHandle
  DEF WriteInitialHeader, ReadyFile, TypeInv, TypeOK, HdrOK, File, Labels, Unlimited, hist
<1>3. CASE OpenExisting
  BY <1>3, OpenedHandleOK
  DEF OpenExisting, TypeInv, TypeOK, Labels, Unlimited, hist, disk
<1>4. CASE OpenReconstruct
  <2> DEFINE r == Reconstructed(data, ConfigMax)
  <2>1. HdrOK(r) /\ r \in Header
    BY ReconstructedHdrOK, StoreAssumption DEF TypeInv, TypeOK, HdrOK
  <2> HIDE DEF r
  <2>2. NewHandle(r) \in Handle /\ NewHandle(r).hdr = r
    BY <2>1 DEF NewHandle, Handle
  <2> QED BY <1>4, <2>1, <2>2
      DEF OpenReconstruct, r, ReadyFile, TypeInv, TypeOK, File, Labels, Unlimited, hist
<1>5. CASE WriteStart
  <2>1. CASE db' = db /\ pc' = "block"
    BY <1>5, <2>1 DEF WriteStart, MayWrite, TypeInv, TypeOK, Labels, disk, Unlimited
  <2>2. CASE ReserveBreached(db) /\ db' = CapHandle(db) /\ pc' = "cap"
    BY <1>5, <2>2, CapHandleOK DEF WriteStart, ReserveBreached, TypeInv, TypeOK, Labels, disk
  <2> QED BY <1>5, <2>1, <2>2 DEF WriteStart
<1>6. CASE PersistCap
  BY <1>6 DEF PersistCap, ReadyFile, TypeInv, TypeOK, HdrOK, File, Labels, Unlimited, hist
<1>7. CASE WriteBlock
  BY <1>7, WrittenOK DEF WriteBlock, TypeInv, TypeOK, Labels, hist
<1>8. CASE ShrinkToFit
  BY <1>8, CapHandleOK
  DEF ShrinkToFit, IsEviction, Unlimited, TypeInv, TypeOK, HdrOK, Header, Labels, disk, hist
<1>9. CASE BlockFailed
  <2>1. db' \in Handle /\ HdrOK(db'.hdr)
    <3>1. pc = "block"
      BY <1>9 DEF BlockFailed
    <3>2. HdrOK(Evicted(db.hdr)) /\ Evicted(db.hdr) \in Header
      BY <3>1, AdvancedHdrOK DEF TypeInv, TypeOK, HdrOK
    <3> QED BY <1>9, <3>2 DEF BlockFailed, TypeInv, TypeOK, Handle
  <2> QED BY <1>9, <2>1 DEF BlockFailed, TypeInv, TypeOK, Labels, disk, hist
<1>10. CASE OpenCompactSlot
  <2> DEFINE q == db.seq + 1
             z == Other(db.side)
             d == [db EXCEPT !.seq = q, !.side = z]
  <2>1. q \in Nat /\ z \in {0, 1}
    BY DEF TypeInv, TypeOK, Handle, Other
  <2> HIDE DEF q, z
  <2>2. d \in Handle /\ d.hdr = db.hdr /\ d.side = z
    BY <2>1 DEF TypeInv, TypeOK, Handle
  <2> HIDE DEF d
  <2>3. d = [db EXCEPT !.seq = @ + 1, !.side = Other(@)]
    BY DEF TypeInv, TypeOK, Handle, d, q, z
  <2>4. \/ AfterCompact(FALSE, d) /\ side' = side
        \/ side' = [side EXCEPT ![z] = NoSlot] /\ db' = d /\ pc' = "sidebody"
             /\ acked' = acked /\ rec' = rec
    BY <1>10, <2>2, <2>3 DEF OpenCompactSlot
  <2>5. SlotsOK(side)
    BY DEF TypeInv, TypeOK, SlotsOK
  <2>6. SlotsOK(side')
    <3>1. side' = side \/ side' = [side EXCEPT ![z] = NoSlot]
      BY <2>4, Zenon
    <3> QED BY <2>1, <2>5, <3>1, SlotUpdateOK, CleanHandle
  <2>7. CASE AfterCompact(FALSE, d)
    <3>1. WriterOK
      BY <2>2, <2>7, AfterCompactOK DEF TypeInv
    <3> QED BY <1>10, <2>6, <3>1 DEF OpenCompactSlot, TypeInv, TypeOK, SlotsOK, WriterOK
  <2>8. CASE db' = d /\ pc' = "sidebody" /\ acked' = acked /\ rec' = rec
    BY <1>10, <2>2, <2>6, <2>8 DEF OpenCompactSlot, TypeInv, TypeOK, SlotsOK, Labels
  <2> QED BY <2>4, <2>7, <2>8
<1>11. CASE WriteCompactSlot
  <2>1. PICK ok \in BOOLEAN :
          /\ side' = IF ok THEN [side EXCEPT ![db.side] = ValidSlot(db.seq, db.lseq, db.hdr)]
                           ELSE side
          /\ AfterCompact(ok, db)
    BY <1>11 DEF WriteCompactSlot, Outcomes
  <2>2. SlotsOK(side')
    BY <2>1, SlotUpdateOK, ValidSlotOK DEF TypeInv, TypeOK, SlotsOK, Handle
  <2>3. WriterOK
    BY <2>1, AfterCompactOK DEF TypeInv, TypeOK, Labels
  <2> QED BY <1>11, <2>2, <2>3 DEF WriteCompactSlot, TypeInv, TypeOK, SlotsOK, WriterOK
<1>12. CASE OpenMirrorSlot
  <2> DEFINE z == Other(db.leg)
             d == [db EXCEPT !.leg = z]
  <2>1. z \in {0, 1}
    BY DEF TypeInv, TypeOK, Handle, Other
  <2> HIDE DEF z
  <2>2. d \in Handle /\ d.hdr = db.hdr /\ d.leg = z
    BY <2>1 DEF TypeInv, TypeOK, Handle
  <2> HIDE DEF d
  <2>3. d = [db EXCEPT !.leg = Other(@)]
    BY DEF TypeInv, TypeOK, Handle, d, z
  <2>4. \/ WriteReturns(d) /\ legacy' = legacy
        \/ legacy' = [legacy EXCEPT ![z] = NoSlot] /\ db' = d /\ pc' = "mirrorbody"
             /\ acked' = acked /\ rec' = rec
    BY <1>12, <2>2, <2>3 DEF OpenMirrorSlot
  <2>5. SlotsOK(legacy)
    BY DEF TypeInv, TypeOK, SlotsOK
  <2>6. SlotsOK(legacy')
    BY <2>1, <2>4, <2>5, SlotUpdateOK, CleanHandle
  <2>7. CASE WriteReturns(d)
    <3>1. WriterOK
      BY <2>2, <2>7, WriteReturnsOK DEF TypeInv
    <3> QED BY <1>12, <2>6, <3>1 DEF OpenMirrorSlot, TypeInv, TypeOK, SlotsOK, WriterOK
  <2>8. CASE db' = d /\ pc' = "mirrorbody" /\ acked' = acked /\ rec' = rec
    BY <1>12, <2>2, <2>6, <2>8 DEF OpenMirrorSlot, TypeInv, TypeOK, SlotsOK, Labels
  <2> QED BY <2>4, <2>7, <2>8
<1>13. CASE WriteMirrorSlot
  <2> DEFINE q == db.seq
             d == [db EXCEPT !.lseq = q, !.mirrored = TRUE]
  <2>1. d \in Handle /\ d.hdr = db.hdr
    BY DEF TypeInv, TypeOK, Handle
  <2>2. \/ WriteReturns(d) /\ legacy' = [legacy EXCEPT ![db.leg] = ValidSlot(db.seq, 0, db.hdr)]
        \/ WriteReturns(db) /\ legacy' = legacy
    BY <1>13 DEF WriteMirrorSlot
  <2> HIDE DEF d
  <2>3. SlotsOK(legacy')
    <3>1. SlotsOK(legacy) /\ db.leg \in {0, 1} /\ db.seq \in Nat /\ HdrOK(db.hdr)
      BY DEF TypeInv, TypeOK, SlotsOK, Handle
    <3>2. ValidSlot(db.seq, 0, db.hdr) \in Slot /\ HdrOK(ValidSlot(db.seq, 0, db.hdr).hdr)
      BY <3>1, ValidSlotOK
    <3> QED BY <2>2, <3>1, <3>2, SlotUpdateOK
  <2>4. WriterOK
    BY <2>1, <2>2, WriteReturnsOK DEF TypeInv, TypeOK
  <2> QED BY <1>13, <2>3, <2>4 DEF WriteMirrorSlot, TypeInv, TypeOK, SlotsOK, WriterOK
<1>14. CASE CloseStart \/ DeleteStart
  BY <1>14 DEF CloseStart, DeleteStart, StartFold, TypeInv, TypeOK, Labels, disk, hist
<1>15. CASE ClearStart
  <2>1. HdrOK(Cleared(db.hdr)) /\ Cleared(db.hdr) \in Header
    BY EmptyHdrOK DEF TypeInv, HdrOK
  <2>2. db' \in Handle /\ db'.hdr = Cleared(db.hdr)
    BY <1>15, <2>1 DEF ClearStart, TypeInv, TypeOK, Handle
  <2> QED BY <1>15, <2>1, <2>2 DEF ClearStart, StartFold, TypeInv, TypeOK, Labels, disk, hist
<1>16. CASE SyncStart
  BY <1>16 DEF SyncStart, StartFold, TypeInv, TypeOK, Labels, disk, hist
<1>17. CASE FoldHeader
  <2> DEFINE d == [db EXCEPT !.stale = FALSE, !.idxStale = FALSE]
  <2>1. d \in Handle /\ d.hdr = db.hdr
    BY DEF TypeInv, TypeOK, Handle
  <2> HIDE DEF d
  <2>2. CASE FoldReturns(db) /\ file' = file /\ gone' = gone
    <3>1. FolderOK
      BY <2>2, FoldReturnsOK DEF TypeInv, TypeOK
    <3> QED BY <1>17, <2>2, <3>1 DEF FoldHeader, FolderOK, TypeInv, TypeOK
  <2>3. CASE /\ file' = ReadyFile(db.hdr) /\ db' = d /\ gone' = 0 /\ pc' = "remove"
             /\ op' = op /\ acked' = acked /\ floor' = floor
    BY <1>17, <2>1, <2>3
    DEF FoldHeader, ReadyFile, TypeInv, TypeOK, HdrOK, File, Labels, Unlimited
  <2> QED BY <1>17, <2>2, <2>3 DEF FoldHeader, d
<1>18. CASE RemoveSlot
  <2>1. SlotsOK(side') /\ SlotsOK(legacy')
    BY <1>18, SlotUpdateOK, CleanHandle DEF RemoveSlot, TypeInv, TypeOK, SlotsOK
  <2> QED BY <1>18, <2>1 DEF RemoveSlot, TypeInv, TypeOK, SlotsOK, hist
<1>19. CASE RemoveReturns
  <2> DEFINE d == [db EXCEPT !.mirrored = FALSE, !.lseq = 0]
  <2>1. d \in Handle /\ d.hdr = db.hdr
    BY DEF TypeInv, TypeOK, Handle
  <2> HIDE DEF d
  <2>2. CASE FoldReturns(d)
    <3>1. FolderOK
      BY <2>1, <2>2, FoldReturnsOK DEF TypeInv, TypeOK
    <3> QED BY <1>19, <3>1 DEF RemoveReturns, FolderOK, TypeInv, TypeOK, disk
  <2>3. CASE pc' = "initial" /\ UNCHANGED <<db, op, acked, floor>>
    BY <1>19, <2>3 DEF RemoveReturns, TypeInv, TypeOK, Labels, disk
  <2> QED BY <1>19, <2>2, <2>3 DEF RemoveReturns, d
<1>20. CASE SyncReopen
  BY <1>20, CleanHandle DEF SyncReopen, TypeInv, TypeOK, Labels, disk, hist
<1>21. CASE UnlinkFile
  <2>1. NoData \in [Slots -> Nat] /\ \A s \in Slots : NoData[s] <= clock
    BY DEF NoData, TypeInv, TypeOK
  <2> DEFINE f == [state |-> "absent", hdr |-> EmptyHeader(0)]
  <2>2. f \in File /\ HdrOK(f.hdr)
    BY EmptyHdrOK DEF File, HdrOK
  <2> HIDE DEF f
  <2>3. CASE file' = f /\ data' = NoData /\ Dropped
    BY <1>21, <2>1, <2>2, <2>3 DEF UnlinkFile, Dropped, TypeInv, TypeOK, Labels
  <2>4. CASE UNCHANGED <<file, data, acked, floor>>
    BY <1>21, <2>4 DEF UnlinkFile, TypeInv, TypeOK, Labels
  <2> QED BY <1>21, <2>3, <2>4 DEF UnlinkFile, f
<1>22. CASE Crash
  BY <1>22, CleanHandle DEF Crash, TypeInv, TypeOK, Labels, disk, hist
<1>23. CASE UNCHANGED vars
  BY <1>23 DEF vars, disk, hist, TypeInv, TypeOK
<1> QED
  BY <1>1, <1>2, <1>3, <1>4, <1>5, <1>6, <1>7, <1>8, <1>9, <1>10, <1>11, <1>12,
     <1>13, <1>14, <1>15, <1>16, <1>17, <1>18, <1>19, <1>20, <1>21, <1>22, <1>23
  DEF Next, Open, Call, Step

(* Every reachable state of the engine is well typed, for every capacity,  *)
(* every data area and every combination of operations and failures: in    *)
(* particular tsdb_write_h never reads the oldest timestamp from a slot    *)
(* outside the data area, whatever cap, clear or reconstruction came       *)
(* before.                                                                 *)
THEOREM TypeCorrect == Spec => []TypeOK
<1>1. Init => TypeInv
  BY TypeInit
<1>2. TypeInv /\ [Next]_vars => TypeInv'
  BY TypeStep
<1>3. TypeInv => TypeOK
  BY DEF TypeInv
<1> QED BY <1>1, <1>2, <1>3, PTL DEF Spec

-----------------------------------------------------------------------------
(* The slots, as functions of their contents *)

SlotPair == [{0, 1} -> Slot]

(* Newest finds a valid slot with the largest number, if there is one. *)
LEMMA NewestIsLargest ==
  ASSUME NEW s \in SlotPair
  PROVE  /\ Newest(s) \in {0, 1}
         /\ NewestSeq(s) \in Nat
         /\ Found(s) => s[Newest(s)].ok /\ NewestSeq(s) = s[Newest(s)].seq
         /\ ~Found(s) => NewestSeq(s) = 0
         /\ \A n \in {0, 1} : s[n].ok => s[n].seq <= NewestSeq(s)
  BY DEF SlotPair, Slot, Newest, NewestSeq, Found

LEMMA ValidElement ==
  ASSUME NEW sd \in SlotPair, NEW lg \in SlotPair
  PROVE  /\ \A x \in Valid(sd, lg) : x \in Slot /\ x.ok
         /\ \A n \in {0, 1} : sd[n].ok => sd[n] \in Valid(sd, lg)
         /\ \A n \in {0, 1} : lg[n].ok => lg[n] \in Valid(sd, lg)
         /\ \A x \in Valid(sd, lg) : \E n \in {0, 1} : x = sd[n] \/ x = lg[n]
  BY DEF SlotPair, Valid

(* tsdb_sidecar_load picks a slot no other is younger than, and finds one  *)
(* whenever there is one.                                                  *)
LEMMA LoadedIsYoungest ==
  ASSUME NEW sd \in SlotPair, NEW lg \in SlotPair, SlotsAgree(sd, lg),
         Valid(sd, lg) # {}
  PROVE  /\ LoadFound(sd, lg)
         /\ \E x \in Valid(sd, lg) : /\ x.hdr = LoadedHeader(sd, lg)
                                     /\ \A y \in Valid(sd, lg) : y.seq <= x.seq
<1> DEFINE a == sd[Newest(sd)]
           b == lg[Newest(lg)]
<1>1. /\ Newest(sd) \in {0, 1} /\ Newest(lg) \in {0, 1}
      /\ Found(sd) => a.ok /\ a \in Valid(sd, lg) /\ NewestSeq(sd) = a.seq
      /\ Found(lg) => b.ok /\ b \in Valid(sd, lg) /\ NewestSeq(lg) = b.seq
      /\ \A n \in {0, 1} : sd[n].ok => sd[n].seq <= NewestSeq(sd)
      /\ \A n \in {0, 1} : lg[n].ok => lg[n].seq <= NewestSeq(lg)
  BY NewestIsLargest, ValidElement
<1>2. /\ a.seq \in Nat /\ a.legacy \in Nat /\ b.seq \in Nat
      /\ \A n \in {0, 1} : sd[n].seq \in Nat /\ lg[n].seq \in Nat
  BY <1>1 DEF SlotPair, Slot
<1>3. Found(sd) \/ Found(lg)
  BY ValidElement DEF Found, Valid
<1>4. CASE UseCompact(sd, lg)
  <2>1. Found(sd) /\ (Found(lg) => b.seq <= a.legacy)
    BY <1>1, <1>4 DEF UseCompact
  <2>2. a.legacy < a.seq
    BY <1>1, <2>1 DEF SlotsAgree
  <2>3. \A y \in Valid(sd, lg) : y.seq <= a.seq
    <3> SUFFICES ASSUME NEW y \in Valid(sd, lg) PROVE y.seq <= a.seq
      OBVIOUS
    <3>1. PICK n \in {0, 1} : y = sd[n] \/ y = lg[n]
      BY ValidElement
    <3>2. y.ok
      BY DEF Valid
    <3>3. CASE y = sd[n]
      BY <1>1, <2>1, <3>2, <3>3
    <3>4. CASE y = lg[n]
      <4>1. Found(lg) /\ y.seq <= b.seq
        BY <1>1, <3>2, <3>4 DEF Found
      <4> QED BY <1>2, <2>1, <2>2, <3>4, <4>1
    <3> QED BY <3>1, <3>3, <3>4
  <2> QED BY <1>1, <1>4, <2>1, <2>3 DEF LoadFound, LoadedHeader
<1>5. CASE ~UseCompact(sd, lg)
  <2>1. Found(lg)
    <3>1. CASE Found(sd)
      BY <1>1, <1>5, <3>1 DEF UseCompact, SlotsAgree
    <3> QED BY <1>3, <3>1
  <2>2. Found(sd) => b.seq > a.legacy
    BY <1>1, <1>2, <1>5, <2>1 DEF UseCompact
  <2>3. Found(sd) => b.seq >= a.seq
    BY <1>1, <1>2, <2>1, <2>2 DEF SlotsAgree
  <2>4. \A y \in Valid(sd, lg) : y.seq <= b.seq
    <3> SUFFICES ASSUME NEW y \in Valid(sd, lg) PROVE y.seq <= b.seq
      OBVIOUS
    <3>1. PICK n \in {0, 1} : y = sd[n] \/ y = lg[n]
      BY ValidElement
    <3>2. y.ok
      BY DEF Valid
    <3>3. CASE y = lg[n]
      BY <1>1, <2>1, <3>2, <3>3
    <3>4. CASE y = sd[n]
      <4>1. Found(sd) /\ y.seq <= a.seq
        BY <1>1, <3>2, <3>4 DEF Found
      <4> QED BY <1>2, <2>3, <3>4, <4>1
    <3> QED BY <3>1, <3>3, <3>4
  <2> QED BY <1>1, <1>5, <2>1, <2>4 DEF LoadFound, LoadedHeader
<1> QED BY <1>4, <1>5

(* What tsdb_open makes of the headers it finds. *)
Chosen(inFile, sd, lg) ==
  IF Adopts(inFile, sd, lg) THEN LoadedHeader(sd, lg) ELSE inFile

SaneSlots(sd, lg) == \A x \in Valid(sd, lg) : Sane(x.hdr)

LEMMA LoadNothing ==
  ASSUME NEW sd \in SlotPair, NEW lg \in SlotPair, Valid(sd, lg) = {}
  PROVE  ~LoadFound(sd, lg)
  BY ValidElement DEF LoadFound, UseCompact, Found

(* tsdb_open finds the header that is on top. *)
LEMMA ChosenIsTop ==
  ASSUME NEW f \in Header, NEW h \in Header, NEW sd \in SlotPair, NEW lg \in SlotPair,
         SlotsAgree(sd, lg), SaneSlots(sd, lg), OnTop(h, f, sd, lg)
  PROVE  Chosen(f, sd, lg) = h
<1>1. CASE Valid(sd, lg) = {}
  BY <1>1, LoadNothing DEF Chosen, Adopts, OnTop
<1>2. CASE Valid(sd, lg) # {}
  <2>1. PICK x \in Valid(sd, lg) : /\ x.hdr = LoadedHeader(sd, lg)
                                   /\ \A y \in Valid(sd, lg) : y.seq <= x.seq
    BY <1>2, LoadedIsYoungest
  <2>2. LoadFound(sd, lg) /\ Sane(x.hdr)
    BY <1>2, LoadedIsYoungest DEF SaneSlots
  <2>3. x \in Slot /\ x.hdr \in Header
    BY ValidElement DEF Slot
  <2>4. CASE \E z \in Valid(sd, lg) : z.hdr = h
    <3>1. PICK z \in Valid(sd, lg) : z.hdr = h
      BY <2>4
    <3>2. z \in Slot /\ z.seq \in Nat /\ x.seq \in Nat
      BY <2>3, ValidElement DEF Slot
    <3>3. z.seq < x.seq \/ z.seq = x.seq
      BY <2>1, <3>2
    <3>4. x.hdr = h
      <4>1. CASE z.seq = x.seq
        BY <3>1, <4>1 DEF SlotsAgree
      <4>2. CASE z.seq < x.seq
        <5>1. h.total < x.hdr.total
          BY <3>1, <4>2 DEF SlotsAgree
        <5> QED BY <2>3, <5>1 DEF OnTop, Header
      <4> QED BY <3>3, <4>1, <4>2
    <3> QED BY <2>1, <2>2, <3>4 DEF Chosen, Adopts, OnTop
  <2>5. CASE f = h
    BY <2>1, <2>2, <2>3, <2>5 DEF Chosen, Adopts, OnTop, Header
  <2> QED BY <2>4, <2>5 DEF OnTop
<1> QED BY <1>1, <1>2

(* ... and there always is one. *)
LEMMA TopIsChosen ==
  ASSUME NEW f \in Header, NEW sd \in SlotPair, NEW lg \in SlotPair,
         SlotsAgree(sd, lg), SaneSlots(sd, lg)
  PROVE  OnTop(Chosen(f, sd, lg), f, sd, lg)
<1>1. CASE Valid(sd, lg) = {}
  BY <1>1, LoadNothing DEF Chosen, Adopts, OnTop, Header
<1>2. CASE Valid(sd, lg) # {}
  <2>1. PICK x \in Valid(sd, lg) : /\ x.hdr = LoadedHeader(sd, lg)
                                   /\ \A y \in Valid(sd, lg) : y.seq <= x.seq
    BY <1>2, LoadedIsYoungest
  <2>2. LoadFound(sd, lg) /\ Sane(x.hdr)
    BY <1>2, LoadedIsYoungest DEF SaneSlots
  <2>3. \A y \in Valid(sd, lg) : y \in Slot /\ y.hdr \in Header /\ y.hdr.total \in Nat /\ y.seq \in Nat
    BY ValidElement DEF Slot, Header
  <2>4. \A y \in Valid(sd, lg) : y.hdr.total < x.hdr.total \/ y.hdr = x.hdr
    BY <2>1, <2>3 DEF SlotsAgree
  <2>5. CASE x.hdr.total >= f.total
    BY <2>1, <2>2, <2>3, <2>4, <2>5 DEF Chosen, Adopts, OnTop, Header
  <2>6. CASE ~(x.hdr.total >= f.total)
    <3>1. Chosen(f, sd, lg) = f
      BY <2>1, <2>6 DEF Chosen, Adopts
    <3>2. \A y \in Valid(sd, lg) : y.hdr.total < f.total
      <4>1. f.total \in Nat
        BY DEF Header
      <4> QED BY <2>1, <2>3, <2>4, <2>6, <4>1
    <3>3. f.total <= f.total
      BY DEF Header
    <3> QED BY <3>1, <3>2, <3>3 DEF OnTop
  <2> QED BY <2>5, <2>6
<1> QED BY <1>1, <1>2

-----------------------------------------------------------------------------
(* Steps on the slots *)

(* A TSH2 slot is truncated or unlinked. *)
LEMMA WipeCompact ==
  ASSUME NEW sd \in SlotPair, NEW lg \in SlotPair, NEW n \in {0, 1}, SlotsAgree(sd, lg)
  PROVE  LET new == [sd EXCEPT ![n] = NoSlot] IN
         /\ SlotsAgree(new, lg)
         /\ Valid(new, lg) \subseteq Valid(sd, lg)
<1> DEFINE new == [sd EXCEPT ![n] = NoSlot]
<1>1. ~NoSlot.ok
  BY DEF NoSlot
<1>2. \A m \in {0, 1} : new[m] = IF m = n THEN NoSlot ELSE sd[m]
  BY DEF SlotPair
<1> HIDE DEF new
<1>3. Valid(new, lg) \subseteq Valid(sd, lg)
  BY <1>1, <1>2 DEF Valid
<1>4. SlotsAgree(new, lg)
  BY <1>1, <1>2, <1>3 DEF SlotsAgree
<1> QED BY <1>3, <1>4 DEF new

(* A TSH1 slot is truncated or unlinked: not the last one a TSH2 slot may  *)
(* refer to.                                                               *)
LEMMA WipeMirror ==
  ASSUME NEW sd \in SlotPair, NEW lg \in SlotPair, NEW n \in {0, 1}, SlotsAgree(sd, lg),
         ~Found(sd) \/ ~Found(lg) \/ lg[Other(n)].ok
  PROVE  LET new == [lg EXCEPT ![n] = NoSlot] IN
         /\ SlotsAgree(sd, new)
         /\ Valid(sd, new) \subseteq Valid(sd, lg)
<1> DEFINE new == [lg EXCEPT ![n] = NoSlot]
<1>1. ~NoSlot.ok
  BY DEF NoSlot
<1>2. \A m \in {0, 1} : new[m] = IF m = n THEN NoSlot ELSE lg[m]
  BY DEF SlotPair
<1> HIDE DEF new
<1>3. Valid(sd, new) \subseteq Valid(sd, lg)
  BY <1>1, <1>2 DEF Valid
<1>4. Found(sd) /\ ~Found(new) => ~Found(lg)
  BY <1>1, <1>2 DEF Found, Other
<1>5. \A m \in {0, 1} : sd[m].ok => Found(sd)
  BY DEF Found
<1>6. SlotsAgree(sd, new)
  BY <1>1, <1>2, <1>3, <1>4, <1>5 DEF SlotsAgree
<1> QED BY <1>3, <1>6 DEF new

(* A TSH2 slot younger than all others is written. *)
LEMMA PutCompact ==
  ASSUME NEW sd \in SlotPair, NEW lg \in SlotPair, NEW n \in {0, 1}, SlotsAgree(sd, lg),
         NEW q \in Nat, NEW l \in Nat, NEW h \in Header,
         \A y \in Valid(sd, lg) : y.seq < q /\ y.hdr.total < h.total,
         \A m \in {0, 1} : lg[m].ok => lg[m].seq <= l,
         ~Found(lg) => l = 0,
         l < q
  PROVE  LET new == [sd EXCEPT ![n] = ValidSlot(q, l, h)] IN
         /\ SlotsAgree(new, lg)
         /\ ValidSlot(q, l, h) \in Valid(new, lg)
         /\ Valid(new, lg) \subseteq Valid(sd, lg) \cup {ValidSlot(q, l, h)}
<1> DEFINE x == ValidSlot(q, l, h)
           new == [sd EXCEPT ![n] = x]
<1>1. x.ok /\ x.seq = q /\ x.legacy = l /\ x.hdr = h
  BY DEF ValidSlot
<1>2. \A m \in {0, 1} : new[m] = IF m = n THEN x ELSE sd[m]
  BY DEF SlotPair
<1>3. \A y \in Valid(sd, lg) : y.seq \in Nat /\ y.hdr.total \in Nat
  BY ValidElement DEF Slot, Header
<1> HIDE DEF new, x
<1>4. x \in Valid(new, lg) /\ Valid(new, lg) \subseteq Valid(sd, lg) \cup {x}
  BY <1>1, <1>2 DEF Valid
<1>5. \A y, z \in Valid(new, lg) : y.seq < z.seq => y.hdr.total < z.hdr.total
  BY <1>1, <1>3, <1>4 DEF SlotsAgree
<1>6. \A y, z \in Valid(new, lg) : y.seq = z.seq => y.hdr = z.hdr
  BY <1>1, <1>3, <1>4 DEF SlotsAgree
<1>7. SlotsAgree(new, lg)
  BY <1>1, <1>2, <1>5, <1>6 DEF SlotsAgree
<1> QED BY <1>4, <1>7 DEF x, new

(* A TSH1 slot is written, as young as the TSH2 slot of the same record or *)
(* in its place.                                                           *)
LEMMA PutMirror ==
  ASSUME NEW sd \in SlotPair, NEW lg \in SlotPair, NEW n \in {0, 1}, SlotsAgree(sd, lg),
         NEW q \in Nat, NEW h \in Header,
         \A y \in Valid(sd, lg) : \/ y.seq < q /\ y.hdr.total < h.total
                                  \/ y.seq = q /\ y.hdr = h
  PROVE  LET new == [lg EXCEPT ![n] = ValidSlot(q, 0, h)] IN
         /\ SlotsAgree(sd, new)
         /\ ValidSlot(q, 0, h) \in Valid(sd, new)
         /\ Valid(sd, new) \subseteq Valid(sd, lg) \cup {ValidSlot(q, 0, h)}
<1> DEFINE x == ValidSlot(q, 0, h)
           new == [lg EXCEPT ![n] = x]
<1>1. x.ok /\ x.seq = q /\ x.hdr = h
  BY DEF ValidSlot
<1>2. \A m \in {0, 1} : new[m] = IF m = n THEN x ELSE lg[m]
  BY DEF SlotPair
<1>3. \A y \in Valid(sd, lg) : y.seq \in Nat /\ y.hdr.total \in Nat
  BY ValidElement DEF Slot, Header
<1> HIDE DEF new, x
<1>4. x \in Valid(sd, new) /\ Valid(sd, new) \subseteq Valid(sd, lg) \cup {x}
  BY <1>1, <1>2 DEF Valid
<1>5. \A y, z \in Valid(sd, new) : y.seq < z.seq => y.hdr.total < z.hdr.total
  BY <1>1, <1>3, <1>4 DEF SlotsAgree, Header
<1>6. \A y, z \in Valid(sd, new) : y.seq = z.seq => y.hdr = z.hdr
  BY <1>1, <1>3, <1>4 DEF SlotsAgree
<1>7. \A m \in {0, 1} : sd[m].ok => q >= sd[m].seq
  <2> SUFFICES ASSUME NEW m \in {0, 1}, sd[m].ok PROVE q >= sd[m].seq
    OBVIOUS
  <2>1. sd[m] \in Valid(sd, lg)
    BY ValidElement
  <2> QED BY <1>3, <2>1
<1>8. Found(new)
  BY <1>1, <1>2 DEF Found
<1>9. \A m, k \in {0, 1} : sd[m].ok /\ new[k].ok =>
         new[k].seq <= sd[m].legacy \/ new[k].seq >= sd[m].seq
  BY <1>1, <1>2, <1>7 DEF SlotsAgree
<1>10. SlotsAgree(sd, new)
  BY <1>5, <1>6, <1>8, <1>9 DEF SlotsAgree
<1> QED BY <1>4, <1>10 DEF x, new

(* Removing slots leaves a header that is in the file on top. *)
LEMMA TopSurvivesWipe ==
  ASSUME NEW h, NEW sd, NEW lg, NEW sd2, NEW lg2,
         OnTop(h, h, sd, lg), Valid(sd2, lg2) \subseteq Valid(sd, lg)
  PROVE  OnTop(h, h, sd2, lg2)
  BY DEF OnTop

-----------------------------------------------------------------------------
(* Steps of the engine *)

(* A step after which no handle is open needs the disk to be in order. *)
LEMMA ClosedStep ==
  ASSUME \/ pc' = "closed" /\ op' = "none"
         \/ pc' = "unlink" /\ op' = "delete",
         SaneDisk', SlotsAgree(side', legacy')
  PROVE  DurableInv'
  BY DEF DurableInv, ControlInv, NumbersInv, WriteInv, RemoveInv, Settled, HandleLive, Writing

(* The types the steps below rely on. *)
LEMMA DiskTypes ==
  ASSUME TypeInv
  PROVE  /\ side \in SlotPair /\ legacy \in SlotPair
         /\ file \in File /\ file.hdr \in Header /\ file.hdr.total \in Nat
         /\ db \in Handle /\ db.hdr \in Header
         /\ db.hdr.total \in Nat /\ db.hdr.max \in Nat
         /\ db.seq \in Nat /\ db.lseq \in Nat /\ db.side \in {0, 1} /\ db.leg \in {0, 1}
  BY DEF TypeInv, TypeOK, SlotPair, Handle, Header, HdrOK

LEMMA SlotTypes ==
  ASSUME TypeInv
  PROVE  \A x \in Valid(side, legacy) :
            x \in Slot /\ x.seq \in Nat /\ x.hdr \in Header /\ x.hdr.total \in Nat
  BY DiskTypes, ValidElement DEF Slot, Header

(* The header the engine has after a block is one record ahead. *)
LEMMA WriteBlockHeader ==
  ASSUME TypeInv, WriteBlock
  PROVE  /\ db'.hdr.max = db.hdr.max
         /\ db'.hdr.total = db.hdr.total + 1
         /\ db'.seq = db.seq /\ db'.lseq = db.lseq /\ db'.leg = db.leg /\ db'.side = db.side
<1> PICK oldestRead \in BOOLEAN :
       db' = [db EXCEPT !.hdr = HeaderWith(rec, data', oldestRead),
                        !.idxStale = @ \/ RecordIdx(db.hdr) % Stride = 0]
  BY DEF WriteBlock, Outcomes
<1> DEFINE e == Evicted(db.hdr)
           a == Advanced(db.hdr, rec, data')
           h == HeaderWith(rec, data', oldestRead)
<1>1. e \in Header /\ e.max = db.hdr.max /\ e.total = db.hdr.total
  <2>1. e \in Header
    BY AdvancedHdrOK DEF WriteBlock, TypeInv, TypeOK, HdrOK
  <2> QED BY <2>1, DiskTypes DEF Evicted, Header
<1>2. a.max = e.max /\ a.total = e.total + 1 /\ DOMAIN a = DOMAIN e
  <2> HIDE DEF e
  <2> QED BY <1>1 DEF Advanced, Header, e
<1>3. h.max = a.max /\ h.total = a.total
  BY <1>1, <1>2 DEF HeaderWith, Header
<1> HIDE DEF h
<1>4. db'.hdr = h /\ db'.seq = db.seq /\ db'.lseq = db.lseq /\ db'.leg = db.leg /\ db'.side = db.side
  BY DiskTypes DEF Handle, h
<1> QED BY <1>1, <1>2, <1>3, <1>4

LEMMA DurableInit == Init => DurableInv
<1> SUFFICES ASSUME Init PROVE DurableInv
  OBVIOUS
<1>1. ~side[0].ok /\ ~side[1].ok /\ ~legacy[0].ok /\ ~legacy[1].ok
  BY DEF Init, NoSlots, NoSlot
<1>2. Valid(side, legacy) = {}
  BY <1>1 DEF Valid
<1>3. SlotsAgree(side, legacy)
  BY <1>1, <1>2 DEF SlotsAgree
<1> QED BY <1>2, <1>3
    DEF Init, DurableInv, ControlInv, SaneDisk, NumbersInv, WriteInv, RemoveInv,
        Settled, HandleLive, Writing

LEMMA DurableStep ==
  ASSUME TolerableFaults, TypeInv, TypeInv', DurableInv, [Next]_vars
  PROVE  DurableInv'
<1> USE DEF Goto
<1> DEFINE V == Valid(side, legacy)
<1>a. /\ SlotsAgree(side, legacy) /\ SaneDisk /\ ControlInv /\ NumbersInv
      /\ WriteInv /\ RemoveInv /\ (Settled => OnTop(db.hdr, file.hdr, side, legacy))
  BY DEF DurableInv
<1>b. /\ side \in SlotPair /\ legacy \in SlotPair
      /\ file.hdr \in Header /\ file.hdr.total \in Nat
      /\ db \in Handle /\ db.hdr \in Header
      /\ db.hdr.total \in Nat /\ db.hdr.max \in Nat
      /\ db.seq \in Nat /\ db.lseq \in Nat /\ db.side \in {0, 1} /\ db.leg \in {0, 1}
  BY DiskTypes
<1>c. \A x \in V : x.seq \in Nat /\ x.hdr \in Header /\ x.hdr.total \in Nat
  BY SlotTypes
<1>1. CASE CreateFile
  <2>1. op' = "create" /\ pc' = "remove" /\ gone' = 0 /\ side' = side /\ legacy' = legacy
        /\ file'.state = "empty" /\ db' = NewHandle(EmptyHeader(ConfigMax))
    BY <1>1 DEF CreateFile
  <2> QED BY <1>a, <2>1
      DEF DurableInv, SaneDisk, ControlInv, NumbersInv, WriteInv, RemoveInv, Settled,
          HandleLive, Writing
<1>2. CASE WriteInitialHeader
  <2>1. ~Found(side) /\ ~Found(legacy) /\ pc = "initial" /\ op = "create"
        /\ db = NewHandle(EmptyHeader(ConfigMax)) /\ side' = side /\ legacy' = legacy /\ op' = "none"
    BY <1>2, <1>a DEF WriteInitialHeader, RemoveInv, ControlInv
  <2>2. V = {}
    BY <2>1 DEF Valid, Found
  <2>3. CASE file' = ReadyFile(db.hdr) /\ pc' = "idle" /\ db' = db
    <3>1. db.hdr = EmptyHeader(ConfigMax) /\ db.lseq = 0 /\ db.seq = 0
      BY <2>1 DEF NewHandle
    <3>2. Sane(db.hdr) /\ file'.hdr = db.hdr /\ file'.state = "ready"
      BY <2>3, <3>1, StoreAssumption DEF EmptyHeader, Sane, ReadyFile
    <3>3. OnTop(db.hdr, file'.hdr, side', legacy')
      BY <1>b, <2>1, <2>2, <3>2 DEF OnTop
    <3> QED BY <1>a, <2>1, <2>2, <2>3, <3>1, <3>2, <3>3
        DEF DurableInv, SaneDisk, ControlInv, NumbersInv, WriteInv, RemoveInv, Settled,
            HandleLive, Writing, Found
  <2>4. CASE pc' = "closed" /\ file' = file
    BY <1>a, <2>1, <2>4, ClosedStep DEF SaneDisk
  <2> QED BY <1>2, <2>3, <2>4 DEF WriteInitialHeader
<1>3. CASE OpenExisting
  <2> DEFINE c == Chosen(file.hdr, side, legacy)
  <2>1. pc' = "idle" /\ op' = "none" /\ side' = side /\ legacy' = legacy /\ file' = file
        /\ file.state = "ready" /\ Sane(file.hdr) /\ db' = OpenedHandle
    BY <1>3, <1>a DEF OpenExisting, disk, ControlInv, Writing
  <2>2. db'.hdr = c /\ db'.seq = LoadedSeq(side, legacy) /\ db'.lseq = NewestSeq(legacy)
        /\ db'.leg = Newest(legacy)
    BY <2>1 DEF OpenedHandle, NewHandle, Chosen
  <2>3. OnTop(c, file.hdr, side, legacy)
    BY <1>a, <1>b, TopIsChosen DEF SaneDisk, SaneSlots
  <2> HIDE DEF c
  <2>4. Sane(c)
    BY <1>a, <2>1, <2>3 DEF OnTop, SaneDisk
  <2>5. /\ NewestSeq(side) \in Nat /\ NewestSeq(legacy) \in Nat
        /\ \A n \in {0, 1} : side[n].ok => side[n].seq <= NewestSeq(side)
        /\ \A n \in {0, 1} : legacy[n].ok => legacy[n].seq <= NewestSeq(legacy)
        /\ Found(legacy) => legacy[Newest(legacy)].ok
        /\ ~Found(legacy) => NewestSeq(legacy) = 0
    BY <1>b, NewestIsLargest
  <2>6. /\ NewestSeq(side) <= LoadedSeq(side, legacy)
        /\ NewestSeq(legacy) <= LoadedSeq(side, legacy)
        /\ LoadedSeq(side, legacy) \in Nat
    BY <2>5 DEF LoadedSeq
  <2>7. \A x \in V : x.seq <= LoadedSeq(side, legacy)
    <3> SUFFICES ASSUME NEW x \in V PROVE x.seq <= LoadedSeq(side, legacy)
      OBVIOUS
    <3>1. PICK n \in {0, 1} : x = side[n] \/ x = legacy[n]
      BY <1>b, ValidElement
    <3>2. x.ok
      BY DEF Valid
    <3> HIDE DEF V
    <3> QED BY <1>c, <2>5, <2>6, <3>1, <3>2
  <2>8. NumbersInv'
    BY <2>1, <2>2, <2>5, <2>6, <2>7 DEF NumbersInv
  <2>9. ControlInv' /\ SaneDisk' /\ WriteInv' /\ RemoveInv'
    BY <1>a, <2>1, <2>2, <2>4 DEF SaneDisk, ControlInv, WriteInv, RemoveInv, HandleLive, Writing
  <2> QED BY <1>a, <2>1, <2>2, <2>3, <2>8, <2>9 DEF DurableInv
<1>4. CASE OpenReconstruct
  BY <1>4, <1>a DEF OpenReconstruct, SaneDisk
<1>5. CASE WriteStart
  <2>1. pc = "idle" /\ op = "none" /\ op' = op /\ side' = side /\ legacy' = legacy /\ file' = file
    BY <1>5, <1>a DEF WriteStart, disk, ControlInv, Writing
  <2>2. OnTop(db.hdr, file.hdr, side, legacy)
    BY <1>a, <2>1 DEF Settled
  <2>3. /\ file.hdr.total <= db.hdr.total
        /\ \A x \in V : x.hdr.total <= db.hdr.total
    <3>1. \A x \in V : x.hdr.total < db.hdr.total \/ x.hdr = db.hdr
      BY <2>2 DEF OnTop
    <3> HIDE DEF V
    <3> QED BY <1>b, <1>c, <2>2, <3>1 DEF OnTop
  <2>4. file.state = "ready" /\ Sane(db.hdr)
    BY <1>a, <2>1 DEF ControlInv, HandleLive
  <2>5. /\ \A x \in V : x.seq <= db.seq
        /\ db.lseq <= db.seq
        /\ \A n \in {0, 1} : legacy[n].ok => legacy[n].seq <= db.lseq
        /\ ~Found(legacy) => db.lseq = 0
        /\ Found(legacy) => legacy[db.leg].ok
    BY <1>a, <2>1 DEF NumbersInv, HandleLive
  <2>6. CASE pc' = "block" /\ db' = db
    <3>1. db.hdr.max > 0 => db.hdr.total < 2 * db.hdr.max
      <4>1. SUFFICES ASSUME db.hdr.max > 0 PROVE db.hdr.total < 2 * db.hdr.max
        OBVIOUS
      <4>2. db.hdr.total < MaxLaps * db.hdr.max
        BY <1>5, <4>1 DEF WriteStart, MayWrite, Unlimited
      <4>3. MaxLaps \in {0, 1, 2}
        BY StoreAssumption DEF TolerableFaults
      <4> QED BY <1>b, <4>1, <4>2, <4>3
    <3> QED BY <1>a, <2>1, <2>2, <2>3, <2>4, <2>5, <2>6, <3>1
        DEF DurableInv, SaneDisk, ControlInv, NumbersInv, WriteInv, RemoveInv, Settled,
            HandleLive, Writing
  <2>7. CASE ReserveBreached(db) /\ db' = CapHandle(db) /\ pc' = "cap"
    <3>1. db.hdr.total > 0
      BY <2>7 DEF ReserveBreached
    <3>2. db'.hdr.max = db.hdr.total /\ db'.hdr.total = db.hdr.total /\ db'.seq = db.seq
          /\ db'.lseq = db.lseq /\ db'.leg = db.leg
      BY <1>b, <2>7 DEF CapHandle, Capped, Handle, Header
    <3>3. Sane(db'.hdr) /\ IsEviction(db'.hdr) /\ db'.hdr.total < 2 * db'.hdr.max
      BY <1>b, <3>1, <3>2 DEF Sane, IsEviction, Unlimited
    <3> QED BY <1>a, <2>1, <2>3, <2>4, <2>5, <2>7, <3>2, <3>3
        DEF DurableInv, SaneDisk, ControlInv, NumbersInv, WriteInv, RemoveInv, Settled,
            HandleLive, Writing
  <2> QED BY <1>5, <2>6, <2>7 DEF WriteStart
<1>6. CASE PersistCap
  <2>1. pc = "cap" /\ pc' = "block" /\ op = "none" /\ op' = op /\ side' = side
        /\ legacy' = legacy /\ db' = db /\ (file' = file \/ file' = ReadyFile(db.hdr))
    BY <1>6, <1>a DEF PersistCap, ControlInv, Writing
  <2>2. Sane(db.hdr) /\ file.state = "ready" /\ IsEviction(db.hdr)
    BY <1>a, <2>1 DEF ControlInv, HandleLive, Writing, WriteInv
  <2>3. file'.state = "ready" /\ Sane(file'.hdr) /\ file'.hdr.total <= db.hdr.total
    BY <1>a, <1>b, <2>1, <2>2 DEF ReadyFile, SaneDisk, WriteInv, Writing
  <2>4. NumbersInv'
    BY <1>a, <2>1 DEF NumbersInv, HandleLive, Writing
  <2>5. WriteInv'
    BY <1>a, <2>1, <2>2, <2>3 DEF WriteInv, Writing
  <2> QED BY <1>a, <2>1, <2>2, <2>3, <2>4, <2>5
      DEF DurableInv, SaneDisk, ControlInv, RemoveInv, Settled, HandleLive, Writing
<1>7. CASE WriteBlock
  <2>1. pc = "block" /\ pc' = "side" /\ op = "none" /\ op' = op /\ side' = side
        /\ legacy' = legacy /\ file' = file
    BY <1>7, <1>a DEF WriteBlock, ControlInv, Writing
  <2>2. db'.hdr.max = db.hdr.max /\ db'.hdr.total = db.hdr.total + 1
        /\ db'.seq = db.seq /\ db'.lseq = db.lseq /\ db'.leg = db.leg
    BY <1>7, WriteBlockHeader
  <2>3. /\ file.hdr.total <= db.hdr.total
        /\ \A x \in V : x.hdr.total <= db.hdr.total
        /\ db.hdr.max > 0 => db.hdr.total < 2 * db.hdr.max
    BY <1>a, <2>1 DEF WriteInv, Writing
  <2>4. Sane(db'.hdr)
    BY <1>b, <2>2, <2>3 DEF Sane
  <2>5. /\ file.hdr.total <= db'.hdr.total
        /\ \A x \in V : x.hdr.total < db'.hdr.total
    <3> HIDE DEF V
    <3> QED BY <1>b, <1>c, <2>2, <2>3
  <2>6. NumbersInv'
    BY <1>a, <2>1, <2>2 DEF NumbersInv, HandleLive, Writing
  <2> QED BY <1>a, <2>1, <2>4, <2>5, <2>6
      DEF DurableInv, SaneDisk, ControlInv, WriteInv, RemoveInv, Settled, HandleLive, Writing
<1>8. CASE ShrinkToFit
  <2>1. pc = "block" /\ pc' = "cap" /\ op = "none" /\ op' = op /\ side' = side
        /\ legacy' = legacy /\ file' = file /\ db' = CapHandle(db) /\ db.hdr.total > 0
    BY <1>8, <1>a DEF ShrinkToFit, ControlInv, Writing, disk
  <2>2. db'.hdr.max = db.hdr.total /\ db'.hdr.total = db.hdr.total /\ db'.seq = db.seq
        /\ db'.lseq = db.lseq /\ db'.leg = db.leg
    BY <1>b, <2>1 DEF CapHandle, Capped, Handle, Header
  <2>3. Sane(db'.hdr) /\ IsEviction(db'.hdr) /\ db'.hdr.total < 2 * db'.hdr.max
    BY <1>b, <2>1, <2>2 DEF Sane, IsEviction, Unlimited
  <2>4. NumbersInv'
    BY <1>a, <2>1, <2>2 DEF NumbersInv, HandleLive, Writing
  <2> QED BY <1>a, <2>1, <2>2, <2>3, <2>4
      DEF DurableInv, SaneDisk, ControlInv, WriteInv, RemoveInv, Settled, HandleLive, Writing
<1>9. CASE BlockFailed
  <2>1. pc = "block" /\ pc' = "idle" /\ op = "none" /\ op' = op /\ side' = side
        /\ legacy' = legacy /\ file' = file
    BY <1>9, <1>a DEF BlockFailed, ControlInv, Writing, disk
  <2>2. ~IsEviction(db.hdr)
    BY <1>9 DEF BlockFailed, TolerableFaults
  <2>3. db' = db
    BY <1>9, <1>b, <2>2 DEF BlockFailed, Evicted, Handle
  <2>4. OnTop(db.hdr, file.hdr, side, legacy)
    BY <1>a, <2>1, <2>2 DEF WriteInv
  <2>5. NumbersInv'
    BY <1>a, <2>1, <2>3 DEF NumbersInv, HandleLive, Writing
  <2> QED BY <1>a, <2>1, <2>3, <2>4, <2>5
      DEF DurableInv, SaneDisk, ControlInv, WriteInv, RemoveInv, Settled, HandleLive, Writing
<1>10. CASE OpenCompactSlot
  <2> DEFINE q == db.seq + 1
             z == Other(db.side)
             d == [db EXCEPT !.seq = q, !.side = z]
  <2>1. q \in Nat /\ z \in {0, 1}
    BY <1>b DEF Other
  <2> HIDE DEF q, z
  <2>2. d.hdr = db.hdr /\ d.side = z /\ d.seq = q /\ d.lseq = db.lseq /\ d.leg = db.leg
    BY <1>b, <2>1 DEF Handle
  <2> HIDE DEF d
  <2>3. d = [db EXCEPT !.seq = @ + 1, !.side = Other(@)]
    BY <1>b DEF Handle, d, q, z
  <2>4. \/ AfterCompact(FALSE, d) /\ side' = side
        \/ side' = [side EXCEPT ![z] = NoSlot] /\ db' = d /\ pc' = "sidebody"
    BY <1>10, <2>2, <2>3 DEF OpenCompactSlot
  <2>5. pc = "side" /\ op = "none" /\ op' = op /\ legacy' = legacy /\ file' = file
    BY <1>10, <1>a DEF OpenCompactSlot, ControlInv, Writing
  <2>6. /\ \A x \in V : x.seq < q /\ x.hdr.total < db.hdr.total
        /\ db.lseq < q
        /\ \A n \in {0, 1} : legacy[n].ok => legacy[n].seq <= db.lseq
        /\ ~Found(legacy) => db.lseq = 0
        /\ Found(legacy) => legacy[db.leg].ok
        /\ file.hdr.total <= db.hdr.total
        /\ file.state = "ready" /\ Sane(db.hdr)
    <3>1. /\ \A x \in V : x.seq <= db.seq /\ x.hdr.total < db.hdr.total
          /\ db.lseq <= db.seq
          /\ \A n \in {0, 1} : legacy[n].ok => legacy[n].seq <= db.lseq
          /\ ~Found(legacy) => db.lseq = 0
          /\ Found(legacy) => legacy[db.leg].ok
          /\ file.hdr.total <= db.hdr.total
          /\ file.state = "ready" /\ Sane(db.hdr)
      BY <1>a, <2>5 DEF NumbersInv, WriteInv, ControlInv, HandleLive, Writing
    <3> HIDE DEF V
    <3> QED BY <1>b, <1>c, <3>1 DEF q
  <2>7. CASE AfterCompact(FALSE, d) /\ side' = side
    <3>1. pc' = "mirror" /\ db' = d
      BY <2>7, Zenon DEF AfterCompact, MirrorDue
    <3>2. \A x \in V : x.seq <= q
      BY <1>c, <2>1, <2>6
    <3>3. db.lseq <= q
      BY <1>b, <2>1, <2>6
    <3> QED BY <1>a, <2>1, <2>2, <2>5, <2>6, <2>7, <3>1, <3>2, <3>3
        DEF DurableInv, SaneDisk, ControlInv, NumbersInv, WriteInv, RemoveInv, Settled,
            HandleLive, Writing
  <2>8. CASE side' = [side EXCEPT ![z] = NoSlot] /\ db' = d /\ pc' = "sidebody"
    <3>1. SlotsAgree(side', legacy') /\ Valid(side', legacy') \subseteq V
      BY <1>a, <1>b, <2>1, <2>5, <2>8, WipeCompact
    <3>2. \A x \in V : x.seq <= q
      BY <1>c, <2>1, <2>6
    <3>3. db.lseq <= q
      BY <1>b, <2>1, <2>6
    <3> QED BY <1>a, <2>1, <2>2, <2>5, <2>6, <2>8, <3>1, <3>2, <3>3
        DEF DurableInv, SaneDisk, ControlInv, NumbersInv, WriteInv, RemoveInv, Settled,
            HandleLive, Writing
  <2> QED BY <2>4, <2>7, <2>8
<1>11. CASE WriteCompactSlot
  <2> DEFINE x0 == ValidSlot(db.seq, db.lseq, db.hdr)
  <2>1. PICK ok \in BOOLEAN :
          /\ side' = IF ok THEN [side EXCEPT ![db.side] = x0] ELSE side
          /\ AfterCompact(ok, db)
    BY <1>11 DEF WriteCompactSlot, Outcomes
  <2>2. pc = "sidebody" /\ op = "none" /\ op' = op /\ legacy' = legacy /\ file' = file
    BY <1>11, <1>a DEF WriteCompactSlot, ControlInv, Writing
  <2>3. /\ \A x \in V : x.seq < db.seq /\ x.hdr.total < db.hdr.total
        /\ \A x \in V : x.seq <= db.seq
        /\ db.lseq < db.seq /\ db.lseq <= db.seq
        /\ \A n \in {0, 1} : legacy[n].ok => legacy[n].seq <= db.lseq
        /\ ~Found(legacy) => db.lseq = 0
        /\ Found(legacy) => legacy[db.leg].ok
        /\ file.hdr.total <= db.hdr.total
        /\ file.state = "ready" /\ Sane(db.hdr)
    BY <1>a, <2>2 DEF NumbersInv, WriteInv, ControlInv, HandleLive, Writing
  <2>4. x0.ok /\ x0.seq = db.seq /\ x0.hdr = db.hdr
    BY DEF ValidSlot
  <2>5. /\ SlotsAgree(side', legacy')
        /\ Valid(side', legacy') \subseteq V \cup {x0}
        /\ ok => x0 \in Valid(side', legacy')
    <3>1. CASE ok
      <4> DEFINE new == [side EXCEPT ![db.side] = x0]
      <4>0. /\ side \in SlotPair /\ legacy \in SlotPair /\ SlotsAgree(side, legacy)
            /\ db.side \in {0, 1} /\ db.seq \in Nat /\ db.lseq \in Nat /\ db.hdr \in Header
            /\ \A x \in Valid(side, legacy) : x.seq < db.seq /\ x.hdr.total < db.hdr.total
            /\ \A n \in {0, 1} : legacy[n].ok => legacy[n].seq <= db.lseq
            /\ ~Found(legacy) => db.lseq = 0
            /\ db.lseq < db.seq
        BY <1>a, <1>b, <2>3, Zenon
      <4>1. /\ SlotsAgree(new, legacy)
            /\ x0 \in Valid(new, legacy)
            /\ Valid(new, legacy) \subseteq V \cup {x0}
        BY <4>0, PutCompact, Zenon
      <4>2. side' = new /\ legacy' = legacy
        BY <2>1, <2>2, <3>1
      <4> QED BY <4>1, <4>2
    <3>2. CASE ~ok
      BY <1>a, <2>1, <2>2, <3>2
    <3> QED BY <3>1, <3>2
  <2> HIDE DEF x0, V
  <2>6. \A x \in Valid(side', legacy') :
          /\ x.seq <= db.seq
          /\ Sane(x.hdr)
          /\ x.hdr.total < db.hdr.total \/ x.hdr = db.hdr
          /\ \/ x.seq < db.seq /\ x.hdr.total < db.hdr.total
             \/ x.seq = db.seq /\ x.hdr = db.hdr
    BY <1>a, <1>b, <2>3, <2>4, <2>5 DEF SaneDisk, V
  <2>7. SaneDisk'
    BY <1>a, <2>2, <2>6 DEF SaneDisk
  <2>8. CASE pc' = "mirror" /\ db' = db
    BY <2>2, <2>3, <2>5, <2>6, <2>7, <2>8
    DEF DurableInv, ControlInv, NumbersInv, WriteInv, RemoveInv, Settled, HandleLive, Writing
  <2>9. CASE ok /\ WriteReturns(db)
    <3>1. pc' = "idle" /\ db' = [db EXCEPT !.stale = TRUE]
      BY <2>9 DEF WriteReturns
    <3>2. db'.hdr = db.hdr /\ db'.seq = db.seq /\ db'.lseq = db.lseq /\ db'.leg = db.leg
      BY <1>b, <3>1 DEF Handle
    <3>3. OnTop(db.hdr, file.hdr, side', legacy')
      BY <2>3, <2>4, <2>5, <2>6, <2>9 DEF OnTop
    <3> QED BY <2>2, <2>3, <2>5, <2>6, <2>7, <3>1, <3>2, <3>3
        DEF DurableInv, ControlInv, NumbersInv, WriteInv, RemoveInv, Settled, HandleLive, Writing
  <2> QED BY <2>1, <2>8, <2>9, Zenon DEF AfterCompact, MirrorDue
<1>12. CASE OpenMirrorSlot
  <2> DEFINE z == Other(db.leg)
             d == [db EXCEPT !.leg = z]
  <2>1. z \in {0, 1} /\ Other(z) = db.leg
    BY <1>b DEF Other
  <2> HIDE DEF z
  <2>2. d.hdr = db.hdr /\ d.leg = z /\ d.seq = db.seq /\ d.lseq = db.lseq
    BY <1>b, <2>1 DEF Handle
  <2> HIDE DEF d
  <2>3. d = [db EXCEPT !.leg = Other(@)]
    BY <1>b DEF Handle, d, z
  <2>4. legacy' = [legacy EXCEPT ![z] = NoSlot] /\ db' = d /\ pc' = "mirrorbody"
    BY <1>12, <2>2, <2>3 DEF OpenMirrorSlot, Outcomes, TolerableFaults
  <2>5. pc = "mirror" /\ op = "none" /\ op' = op /\ side' = side /\ file' = file
    BY <1>12, <1>a DEF OpenMirrorSlot, ControlInv, Writing
  <2>6. /\ \A x \in V : x.seq <= db.seq
        /\ db.lseq <= db.seq
        /\ \A n \in {0, 1} : legacy[n].ok => legacy[n].seq <= db.lseq
        /\ ~Found(legacy) => db.lseq = 0
        /\ Found(legacy) => legacy[db.leg].ok
        /\ file.state = "ready" /\ Sane(db.hdr)
    BY <1>a, <2>5 DEF NumbersInv, ControlInv, HandleLive, Writing
  <2>7. SlotsAgree(side', legacy') /\ Valid(side', legacy') \subseteq V
    <3>1. ~Found(legacy) \/ legacy[Other(z)].ok
      BY <2>1, <2>6
    <3> QED BY <1>a, <1>b, <2>1, <2>4, <2>5, <3>1, WipeMirror
  <2>8. \A n \in {0, 1} : legacy'[n] = IF n = z THEN NoSlot ELSE legacy[n]
    BY <1>b, <2>1, <2>4 DEF SlotPair
  <2>9. /\ \A n \in {0, 1} : legacy'[n].ok => legacy'[n].seq <= db.lseq
        /\ ~Found(legacy') => db.lseq = 0
    BY <1>b, <2>1, <2>6, <2>8 DEF Found, NoSlot, Other
  <2>10. WriteInv'
    BY <1>a, <2>2, <2>4, <2>5, <2>7 DEF WriteInv, Writing
  <2> QED BY <1>a, <2>2, <2>4, <2>5, <2>6, <2>7, <2>9, <2>10
      DEF DurableInv, SaneDisk, ControlInv, NumbersInv, RemoveInv, Settled, HandleLive, Writing
<1>13. CASE WriteMirrorSlot
  <2> DEFINE x0 == ValidSlot(db.seq, 0, db.hdr)
             new == [legacy EXCEPT ![db.leg] = x0]
             d == [db EXCEPT !.lseq = db.seq, !.mirrored = TRUE]
  <2>1. legacy' = new /\ WriteReturns(d)
    BY <1>13 DEF WriteMirrorSlot, Outcomes, TolerableFaults
  <2>2. pc = "mirrorbody" /\ op = "none" /\ op' = op /\ side' = side /\ file' = file
    BY <1>13, <1>a DEF WriteMirrorSlot, ControlInv, Writing
  <2>3. d.hdr = db.hdr /\ d.seq = db.seq /\ d.lseq = db.seq /\ d.leg = db.leg /\ d \in Handle
    BY <1>b DEF Handle
  <2> HIDE DEF d
  <2>4. /\ pc' = "idle" /\ db'.hdr = db.hdr /\ db'.seq = db.seq /\ db'.lseq = db.seq
        /\ db'.leg = db.leg
    BY <2>1, <2>3 DEF WriteReturns, Handle
  <2>5. /\ \A x \in V : \/ x.seq < db.seq /\ x.hdr.total < db.hdr.total
                        \/ x.seq = db.seq /\ x.hdr = db.hdr
        /\ \A n \in {0, 1} : legacy[n].ok => legacy[n].seq <= db.lseq
        /\ db.lseq < db.seq
        /\ file.hdr.total <= db.hdr.total
        /\ file.state = "ready" /\ Sane(db.hdr)
    BY <1>a, <2>2 DEF NumbersInv, WriteInv, ControlInv, HandleLive, Writing
  <2>6. /\ SlotsAgree(side, new)
        /\ x0 \in Valid(side, new)
        /\ Valid(side, new) \subseteq V \cup {x0}
    BY <1>a, <1>b, <2>5, PutMirror
  <2>7. x0.ok /\ x0.seq = db.seq /\ x0.hdr = db.hdr
    BY DEF ValidSlot
  <2>8. \A n \in {0, 1} : new[n] = IF n = db.leg THEN x0 ELSE legacy[n]
    BY <1>b DEF SlotPair
  <2> HIDE DEF x0, new, V
  <2>9. \A x \in Valid(side, new) :
          x.seq <= db.seq /\ Sane(x.hdr) /\ (x.hdr.total < db.hdr.total \/ x.hdr = db.hdr)
    BY <1>a, <1>b, <1>c, <2>5, <2>6, <2>7 DEF SaneDisk, V
  <2>10. OnTop(db.hdr, file.hdr, side, new)
    BY <2>5, <2>6, <2>7, <2>9 DEF OnTop
  <2>11. \A n \in {0, 1} : legacy[n].ok => legacy[n].seq <= db.seq
    BY <1>b, <2>5 DEF SlotPair, Slot
  <2>12. /\ \A n \in {0, 1} : new[n].ok => new[n].seq <= db.seq
         /\ new[db.leg].ok /\ Found(new) /\ db.seq <= db.seq
    BY <1>b, <2>7, <2>8, <2>11 DEF Found
  <2>13. SaneDisk'
    BY <1>a, <2>1, <2>2, <2>9 DEF SaneDisk
  <2> QED BY <2>1, <2>2, <2>4, <2>5, <2>6, <2>9, <2>10, <2>12, <2>13
      DEF DurableInv, ControlInv, NumbersInv, WriteInv, RemoveInv, Settled, HandleLive, Writing
<1>14. CASE CloseStart \/ DeleteStart
  <2>1. /\ pc = "idle" /\ pc' = "fold" /\ op = "none" /\ op' \in {"close", "delete"}
        /\ side' = side /\ legacy' = legacy /\ file' = file /\ db' = db
    BY <1>14, <1>a DEF CloseStart, DeleteStart, StartFold, disk, ControlInv, Writing
  <2>2. OnTop(db.hdr, file.hdr, side, legacy)
    BY <1>a, <2>1 DEF Settled
  <2> QED BY <1>a, <2>1, <2>2
      DEF DurableInv, SaneDisk, ControlInv, NumbersInv, WriteInv, RemoveInv, Settled,
          HandleLive, Writing
<1>15. CASE ClearStart
  <2>1. /\ pc = "idle" /\ pc' = "fold" /\ op = "none" /\ op' = "clear" /\ "clear" \in Ops
        /\ side' = side /\ legacy' = legacy /\ file' = file
        /\ db' = [db EXCEPT !.hdr = Cleared(db.hdr), !.idxStale = FALSE]
    BY <1>15, <1>a DEF ClearStart, StartFold, disk, ControlInv, Writing
  <2>2. db'.hdr = Cleared(db.hdr) /\ db'.seq = db.seq /\ db'.lseq = db.lseq /\ db'.leg = db.leg
    BY <1>b, <2>1 DEF Handle
  <2>3. Sane(Cleared(db.hdr))
    BY <1>b DEF Cleared, EmptyHeader, Sane
  <2> QED BY <1>a, <2>1, <2>2, <2>3
      DEF DurableInv, SaneDisk, ControlInv, NumbersInv, WriteInv, RemoveInv, Settled,
          HandleLive, Writing
<1>16. CASE SyncStart
  <2>1. /\ pc = "idle" /\ pc' \in {"fold", "reopen"} /\ op = "none" /\ op' = "sync"
        /\ side' = side /\ legacy' = legacy /\ file' = file /\ db' = db
    BY <1>16, <1>a DEF SyncStart, StartFold, disk, ControlInv, Writing
  <2>2. OnTop(db.hdr, file.hdr, side, legacy)
    BY <1>a, <2>1 DEF Settled
  <2> QED BY <1>a, <2>1, <2>2
      DEF DurableInv, SaneDisk, ControlInv, NumbersInv, WriteInv, RemoveInv, Settled,
          HandleLive, Writing
<1>17. CASE FoldHeader
  <2>1. pc = "fold" /\ side' = side /\ legacy' = legacy
        /\ op \in {"close", "sync", "clear", "delete"}
    BY <1>17, <1>a DEF FoldHeader, ControlInv
  <2>2. /\ file.state = "ready" /\ Sane(db.hdr)
        /\ op # "clear" => OnTop(db.hdr, file.hdr, side, legacy)
    BY <1>a, <2>1 DEF ControlInv, HandleLive, Settled
  <2>3. CASE /\ file' = ReadyFile(db.hdr) /\ pc' = "remove" /\ gone' = 0 /\ op' = op
             /\ db' = [db EXCEPT !.stale = FALSE, !.idxStale = FALSE]
    <3>1. db'.hdr = db.hdr /\ db'.seq = db.seq /\ db'.lseq = db.lseq /\ db'.leg = db.leg
      BY <1>b, <2>3 DEF Handle
    <3>2. file'.hdr = db.hdr /\ file'.state = "ready"
      BY <2>3 DEF ReadyFile
    <3>3. op # "clear" => OnTop(db.hdr, db.hdr, side, legacy)
      BY <1>b, <2>2 DEF OnTop
    <3>4. op = "clear" => op' # "create" /\ "clear" \in Ops
      BY <1>a, <2>3 DEF ControlInv
    <3> QED BY <1>a, <2>1, <2>2, <2>3, <3>1, <3>2, <3>3, <3>4
        DEF DurableInv, SaneDisk, ControlInv, NumbersInv, WriteInv, RemoveInv, Settled,
            HandleLive, Writing
  <2>4. CASE FoldReturns(db) /\ file' = file /\ "foldfail" \in Env
    <3>1. op # "clear"
      BY <1>a, <2>4 DEF ControlInv, TolerableFaults
    <3>2. CASE op = "close" \/ op = "delete"
      <4>1. \/ pc' = "closed" /\ op' = "none"
            \/ pc' = "unlink" /\ op' = "delete"
        BY <2>4, <3>2 DEF FoldReturns
      <4> QED BY <1>a, <2>1, <2>4, <4>1, ClosedStep DEF SaneDisk
    <3>3. CASE op = "sync"
      <4>1. pc' = "reopen" /\ op' = "sync" /\ db' = db
        BY <2>4, <3>3 DEF FoldReturns
      <4> QED BY <1>a, <2>1, <2>2, <2>4, <3>3, <4>1
          DEF DurableInv, SaneDisk, ControlInv, NumbersInv, WriteInv, RemoveInv, Settled,
              HandleLive, Writing
    <3> QED BY <2>1, <3>1, <3>2, <3>3
  <2> QED BY <1>17, <2>3, <2>4 DEF FoldHeader, Outcomes
<1>18. CASE RemoveSlot
  <2>1. /\ pc = "remove" /\ pc' = pc /\ op' = op /\ db' = db /\ file' = file
        /\ gone' = gone + 1 /\ gone \in {0, 1, 2, 3}
    BY <1>18 DEF RemoveSlot, TypeInv, TypeOK
  <2>2. \/ gone \in {0, 1} /\ side' = [side EXCEPT ![gone] = NoSlot] /\ legacy' = legacy
        \/ gone \in {2, 3} /\ legacy' = [legacy EXCEPT ![gone - 2] = NoSlot] /\ side' = side
    BY <1>18, <2>1 DEF RemoveSlot
  <2>3. gone > 1 => ~Found(side)
    BY <1>a, <2>1 DEF RemoveInv, Found
  <2>4. SlotsAgree(side', legacy') /\ Valid(side', legacy') \subseteq V
    <3>1. CASE gone \in {0, 1} /\ side' = [side EXCEPT ![gone] = NoSlot] /\ legacy' = legacy
      BY <1>a, <1>b, <3>1, WipeCompact
    <3>2. CASE gone \in {2, 3} /\ legacy' = [legacy EXCEPT ![gone - 2] = NoSlot] /\ side' = side
      <4>1. gone - 2 \in {0, 1} /\ ~Found(side)
        BY <2>3, <3>2
      <4> QED BY <1>a, <1>b, <3>2, <4>1, WipeMirror
    <3> QED BY <2>2, <3>1, <3>2
  <2>5. RemoveInv'
    <3>1. ~NoSlot.ok
      BY DEF NoSlot
    <3>2. /\ gone > 0 => ~side[0].ok
          /\ gone > 1 => ~side[1].ok
          /\ gone > 2 => ~legacy[0].ok
      BY <1>a, <2>1 DEF RemoveInv
    <3>3. /\ gone' > 0 => ~side'[0].ok
          /\ gone' > 1 => ~side'[1].ok
          /\ gone' > 2 => ~legacy'[0].ok
          /\ gone' > 3 => ~legacy'[1].ok
      BY <1>b, <2>1, <2>2, <3>1, <3>2 DEF SlotPair
    <3> QED BY <1>a, <2>1, <3>3 DEF RemoveInv
  <2>6. NumbersInv'
    BY <1>a, <2>1, <2>4 DEF NumbersInv, HandleLive
  <2>7. ControlInv' /\ SaneDisk' /\ WriteInv'
    BY <1>a, <2>1, <2>4 DEF ControlInv, SaneDisk, WriteInv, HandleLive, Writing
  <2>8. Settled' => OnTop(db'.hdr, file'.hdr, side', legacy')
    <3>1. SUFFICES ASSUME Settled PROVE OnTop(db.hdr, file.hdr, side', legacy')
      BY <2>1 DEF Settled
    <3>2. file.hdr = db.hdr
      BY <1>a, <2>1, <3>1 DEF RemoveInv, Settled
    <3> QED BY <1>a, <2>4, <3>1, <3>2, TopSurvivesWipe
  <2> QED BY <2>4, <2>5, <2>6, <2>7, <2>8 DEF DurableInv
<1>19. CASE RemoveReturns
  <2> DEFINE d == [db EXCEPT !.mirrored = FALSE, !.lseq = 0]
  <2>1. pc = "remove" /\ gone = 4 /\ side' = side /\ legacy' = legacy /\ file' = file /\ op # "none"
    BY <1>19, <1>a DEF RemoveReturns, disk, ControlInv
  <2>2. ~Found(side) /\ ~Found(legacy) /\ V = {}
    BY <1>a, <2>1 DEF RemoveInv, Found, Valid
  <2>3. CASE op = "create"
    <3>1. pc' = "initial" /\ db' = db /\ op' = op
      BY <1>19, <2>3 DEF RemoveReturns
    <3> QED BY <1>a, <2>1, <2>2, <2>3, <3>1
        DEF DurableInv, SaneDisk, ControlInv, NumbersInv, WriteInv, RemoveInv, Settled,
            HandleLive, Writing
  <2>4. CASE op # "create"
    <3>1. file.state = "ready" /\ Sane(db.hdr) /\ file.hdr = db.hdr
      BY <1>a, <2>1, <2>4 DEF ControlInv, HandleLive, RemoveInv
    <3>2. FoldReturns(d)
      BY <1>19, <2>4 DEF RemoveReturns
    <3>3. d.hdr = db.hdr /\ d.seq = db.seq /\ d.lseq = 0
      BY <1>b DEF Handle
    <3> HIDE DEF d
    <3>4. OnTop(db.hdr, file.hdr, side, legacy)
      BY <1>b, <2>2, <3>1 DEF OnTop
    <3>5. CASE op = "close" \/ op = "delete"
      <4>1. \/ pc' = "closed" /\ op' = "none"
            \/ pc' = "unlink" /\ op' = "delete"
        BY <3>2, <3>5 DEF FoldReturns
      <4> QED BY <1>a, <2>1, <4>1, ClosedStep DEF SaneDisk
    <3>6. CASE op = "sync" \/ op = "clear"
      <4>1. /\ db' = d
            /\ \/ pc' = "idle" /\ op' = "none"
               \/ pc' = "reopen" /\ op' = "sync"
        BY <3>2, <3>6 DEF FoldReturns
      <4>2. 0 <= db.seq
        BY <1>b
      <4>3. ~legacy[0].ok /\ ~legacy[1].ok
        BY <2>2 DEF Found
      <4>4. NumbersInv'
        BY <2>1, <2>2, <3>3, <4>1, <4>2, <4>3 DEF NumbersInv
      <4> QED BY <1>a, <2>1, <3>1, <3>3, <3>4, <4>1, <4>4
          DEF DurableInv, SaneDisk, ControlInv, WriteInv, RemoveInv, Settled, HandleLive, Writing
    <3>7. op \in {"close", "delete", "sync", "clear"}
      BY <3>2 DEF FoldReturns
    <3> QED BY <3>5, <3>6, <3>7
  <2> QED BY <2>3, <2>4
<1>20. CASE SyncReopen
  <2>1. pc = "reopen" /\ op' = "none" /\ op = "sync" /\ side' = side /\ legacy' = legacy /\ file' = file
    BY <1>20, <1>a DEF SyncReopen, disk, ControlInv
  <2>2. CASE pc' = "idle" /\ db' = db
    BY <1>a, <2>1, <2>2
    DEF DurableInv, SaneDisk, ControlInv, NumbersInv, WriteInv, RemoveInv, Settled,
        HandleLive, Writing
  <2>3. CASE pc' = "closed"
    BY <1>a, <2>1, <2>3, ClosedStep DEF SaneDisk
  <2> QED BY <1>20, <2>2, <2>3 DEF SyncReopen
<1>21. CASE UnlinkFile
  <2>1. pc' = "closed" /\ op' = "none" /\ side' = side /\ legacy' = legacy
        /\ (file' = file \/ file'.state = "absent")
    BY <1>21 DEF UnlinkFile
  <2> QED BY <1>a, <2>1, ClosedStep DEF SaneDisk
<1>22. CASE Crash
  <2>1. pc' = "closed" /\ op' = "none" /\ side' = side /\ legacy' = legacy /\ file' = file
    BY <1>22 DEF Crash, disk
  <2> QED BY <1>a, <2>1, ClosedStep DEF SaneDisk
<1>23. CASE UNCHANGED vars
  <2>1. side' = side /\ legacy' = legacy /\ file' = file /\ db' = db /\ pc' = pc /\ op' = op /\ gone' = gone
    BY <1>23 DEF vars, disk
  <2> QED BY <1>a, <2>1
      DEF DurableInv, SaneDisk, ControlInv, NumbersInv, WriteInv, RemoveInv, Settled, HandleLive
<1> QED
  BY <1>1, <1>2, <1>3, <1>4, <1>5, <1>6, <1>7, <1>8, <1>9, <1>10, <1>11, <1>12,
     <1>13, <1>14, <1>15, <1>16, <1>17, <1>18, <1>19, <1>20, <1>21, <1>22, <1>23
  DEF Next, Open, Call, Step

(* What tsdb_open would find is what the invariant says is on top. *)
LEMMA InvImpliesDurable ==
  ASSUME TypeInv, DurableInv
  PROVE  Durable
<1> SUFFICES ASSUME Settled PROVE Recovered = db.hdr
  BY DEF Durable
<1>1. file.state = "ready" /\ Sane(file.hdr)
  <2>1. HandleLive
    BY DEF DurableInv, ControlInv, Settled, HandleLive
  <2> QED BY <2>1 DEF DurableInv, ControlInv, SaneDisk
<1>2. OpenedHandle.hdr = Chosen(file.hdr, side, legacy)
  BY DEF OpenedHandle, NewHandle, Chosen
<1>3. Chosen(file.hdr, side, legacy) = db.hdr
  BY DiskTypes, ChosenIsTop DEF DurableInv, SaneDisk, SaneSlots
<1> QED BY <1>1, <1>2, <1>3 DEF Recovered

(* Whenever no operation is changing the database, a power cut loses       *)
(* nothing of the header: tsdb_open finds exactly the one tsdb_write_h     *)
(* acknowledged, wherever earlier cuts fell and whichever slot, fold,      *)
(* create, reopen, unlink, cap or growing block writes failed before.      *)
THEOREM HeaderIsDurable == TolerableFaults => (Spec => []Durable)
<1> SUFFICES ASSUME TolerableFaults PROVE Spec => []Durable
  OBVIOUS
<1>1. Init => TypeInv /\ DurableInv
  BY TypeInit, DurableInit
<1>2. TypeInv /\ DurableInv /\ [Next]_vars => TypeInv' /\ DurableInv'
  BY TypeStep, DurableStep
<1>3. TypeInv /\ DurableInv => Durable
  BY InvImpliesDurable
<1> QED BY <1>1, <1>2, <1>3, PTL DEF Spec

(* The step that SeqGrows is about. *)
YoungerSlots ==
  \A n \in {0, 1} :
    /\ side'[n] # side[n] /\ side'[n].ok => side'[n].seq > NewestSeq(side)
    /\ legacy'[n] # legacy[n] /\ legacy'[n].ok => legacy'[n].seq > NewestSeq(legacy)

LEMMA YoungerStep ==
  ASSUME TypeInv, DurableInv, [Next]_vars
  PROVE  YoungerSlots
<1>a. /\ side \in SlotPair /\ legacy \in SlotPair
      /\ db.seq \in Nat /\ db.lseq \in Nat /\ db.side \in {0, 1} /\ db.leg \in {0, 1}
  BY DiskTypes
<1>b. ~NoSlot.ok
  BY DEF NoSlot
<1>1. CASE UNCHANGED <<side, legacy>>
  BY <1>1 DEF YoungerSlots
<1>2. CASE WriteCompactSlot
  <2>1. NewestSeq(side) < db.seq
    <3>1. pc = "sidebody"
      BY <1>2 DEF WriteCompactSlot
    <3>2. \A x \in Valid(side, legacy) : x.seq < db.seq
      BY <3>1 DEF DurableInv, WriteInv
    <3>3. db.seq > 0
      BY <1>a, <3>1 DEF DurableInv, WriteInv
    <3>4. CASE Found(side)
      BY <1>a, <3>2, <3>4, NewestIsLargest, ValidElement
    <3>5. CASE ~Found(side)
      BY <1>a, <3>3, <3>5, NewestIsLargest
    <3> QED BY <3>4, <3>5
  <2> DEFINE x == ValidSlot(db.seq, db.lseq, db.hdr)
  <2>2. legacy' = legacy /\ (side' = side \/ side' = [side EXCEPT ![db.side] = x])
    BY <1>2 DEF WriteCompactSlot
  <2>3. x.seq = db.seq
    BY DEF ValidSlot
  <2> HIDE DEF x
  <2> QED BY <1>a, <2>1, <2>2, <2>3, NewestIsLargest DEF YoungerSlots, SlotPair
<1>3. CASE WriteMirrorSlot
  <2>1. NewestSeq(legacy) < db.seq
    <3>1. pc = "mirrorbody"
      BY <1>3 DEF WriteMirrorSlot
    <3>2. /\ \A n \in {0, 1} : legacy[n].ok => legacy[n].seq <= db.lseq
          /\ db.lseq < db.seq
      BY <3>1 DEF DurableInv, WriteInv, NumbersInv, HandleLive, Writing
    <3>3. CASE Found(legacy)
      <4>1. /\ Newest(legacy) \in {0, 1} /\ legacy[Newest(legacy)].ok
            /\ NewestSeq(legacy) = legacy[Newest(legacy)].seq /\ NewestSeq(legacy) \in Nat
        BY <1>a, <3>3, NewestIsLargest
      <4> QED BY <1>a, <3>2, <4>1
    <3>4. CASE ~Found(legacy)
      BY <1>a, <3>2, <3>4, NewestIsLargest
    <3> QED BY <3>3, <3>4
  <2> DEFINE x == ValidSlot(db.seq, 0, db.hdr)
  <2>2. side' = side /\ (legacy' = legacy \/ legacy' = [legacy EXCEPT ![db.leg] = x])
    BY <1>3 DEF WriteMirrorSlot
  <2>3. x.seq = db.seq
    BY DEF ValidSlot
  <2> HIDE DEF x
  <2> QED BY <1>a, <2>1, <2>2, <2>3, NewestIsLargest DEF YoungerSlots, SlotPair
<1>4. ASSUME NEW n \in {0, 1}, side' = [side EXCEPT ![n] = NoSlot], legacy' = legacy
      PROVE  YoungerSlots
  BY <1>a, <1>b, <1>4 DEF YoungerSlots, SlotPair
<1>5. ASSUME NEW n \in {0, 1}, legacy' = [legacy EXCEPT ![n] = NoSlot], side' = side
      PROVE  YoungerSlots
  BY <1>a, <1>b, <1>5 DEF YoungerSlots, SlotPair
<1>6. CASE OpenCompactSlot
  <2>1. legacy' = legacy /\ (side' = side \/ \E n \in {0, 1} : side' = [side EXCEPT ![n] = NoSlot])
    <3>1. Other(db.side) \in {0, 1}
      BY <1>a DEF Other
    <3>2. [db EXCEPT !.seq = @ + 1, !.side = Other(@)].side = Other(db.side)
      BY DiskTypes DEF Handle
    <3> QED BY <1>6, <3>1, <3>2 DEF OpenCompactSlot
  <2> QED BY <1>1, <1>4, <2>1
<1>7. CASE OpenMirrorSlot
  <2>1. side' = side /\ (legacy' = legacy \/ \E n \in {0, 1} : legacy' = [legacy EXCEPT ![n] = NoSlot])
    <3>1. Other(db.leg) \in {0, 1}
      BY <1>a DEF Other
    <3>2. [db EXCEPT !.leg = Other(@)].leg = Other(db.leg)
      BY DiskTypes DEF Handle
    <3> QED BY <1>7, <3>1, <3>2 DEF OpenMirrorSlot
  <2> QED BY <1>1, <1>5, <2>1
<1>8. CASE RemoveSlot
  <2>1. \/ gone \in {0, 1} /\ side' = [side EXCEPT ![gone] = NoSlot] /\ legacy' = legacy
        \/ gone - 2 \in {0, 1} /\ legacy' = [legacy EXCEPT ![gone - 2] = NoSlot] /\ side' = side
    BY <1>8 DEF RemoveSlot, TypeInv, TypeOK
  <2> QED BY <1>4, <1>5, <2>1
<1>9. CASE CreateFile \/ WriteInitialHeader \/ OpenExisting \/ OpenReconstruct \/ Call
  BY <1>1, <1>9
  DEF CreateFile, WriteInitialHeader, OpenExisting, OpenReconstruct, Call, WriteStart,
      CloseStart, DeleteStart, ClearStart, SyncStart, StartFold, disk
<1>10. CASE PersistCap \/ WriteBlock \/ ShrinkToFit \/ BlockFailed \/ FoldHeader
  BY <1>1, <1>10 DEF PersistCap, WriteBlock, ShrinkToFit, BlockFailed, FoldHeader, disk
<1>11. CASE RemoveReturns \/ SyncReopen \/ UnlinkFile \/ Crash \/ UNCHANGED vars
  BY <1>1, <1>11 DEF RemoveReturns, SyncReopen, UnlinkFile, Crash, vars, disk
<1> QED
  BY <1>2, <1>3, <1>6, <1>7, <1>8, <1>9, <1>10, <1>11 DEF Next, Open, Step

(* A slot that tsdb_sidecar_write fills is younger than every slot of its  *)
(* kind on disk, across power cuts, removals and reopens: the number       *)
(* tsdb_sidecar_load takes up is never behind.                             *)
THEOREM SlotsGetYounger == TolerableFaults => (Spec => SeqGrows)
<1> SUFFICES ASSUME TolerableFaults PROVE Spec => SeqGrows
  OBVIOUS
<1>1. Init => TypeInv /\ DurableInv
  BY TypeInit, DurableInit
<1>2. TypeInv /\ DurableInv /\ [Next]_vars => TypeInv' /\ DurableInv'
  BY TypeStep, DurableStep
<1>3. TypeInv /\ DurableInv /\ [Next]_vars => [YoungerSlots]_vars
  BY YoungerStep
<1> QED BY <1>1, <1>2, <1>3, PTL DEF Spec, SeqGrows, YoungerSlots
=============================================================================
