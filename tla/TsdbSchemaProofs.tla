-------------------------- MODULE TsdbSchemaProofs --------------------------
(***************************************************************************)
(* Theorems about changes of schema and capacity: at every point of the    *)
(* swap there is a whole database to open and a leftover copy is swept;    *)
(* headers, regions and the copy stay in range; every value is shown under *)
(* the column it was written for; and what is open between two calls is    *)
(* what a power cut leaves.                                                *)
(***************************************************************************)
EXTENDS TsdbSchemaInv, TLAPS

-----------------------------------------------------------------------------
(* Shapes *)

HeaderFields == {"max", "total", "oldest", "evictions", "oldestTs", "newestTs",
                 "cols", "extra", "ovf", "first"}
FileFields == {"there", "hdr", "data", "regions"}
HandleFields == {"hdr", "extra", "ovf", "first", "seq", "side", "leg", "lseq",
                 "mirrored", "lag", "late"}
JobFields == {"cols", "max", "k", "avail", "written", "buf", "oldestTs", "newestTs"}

LEMMA Fields ==
  /\ DOMAIN NewHeader(0, << >>) = HeaderFields
  /\ DOMAIN NoFile = FileFields
  /\ DOMAIN NoHandle = HandleFields
  /\ DOMAIN NoJob = JobFields
<1>1. DOMAIN NewHeader(0, << >>) = HeaderFields
  BY DEF NewHeader, HeaderFields
<1>2. DOMAIN NoFile = FileFields
  BY DEF NoFile, NewFile, FileFields
<1>3. DOMAIN NoHandle = HandleFields
  BY DEF NoHandle, NewHandle, HandleFields
<1>4. DOMAIN NoJob = JobFields
  BY DEF NoJob, JobFields
<1> QED BY <1>1, <1>2, <1>3, <1>4

LEMMA NewHeaderShape ==
  ASSUME NEW m, NEW cols
  PROVE  IsHeader(NewHeader(m, cols))
<1>1. DOMAIN NewHeader(m, cols) = HeaderFields
  BY DEF NewHeader, HeaderFields
<1> QED BY <1>1, Fields DEF IsHeader

LEMMA NewFileShape ==
  /\ IsFile(NoFile) /\ ~NoFile.there
  /\ \A h : IsHeader(h) => IsFile(NewFile(h)) /\ NewFile(h).there /\ NewFile(h).hdr = h
<1>1. \A h : DOMAIN NewFile(h) = FileFields /\ NewFile(h).there /\ NewFile(h).hdr = h
  BY DEF NewFile, FileFields
<1>2. ~NoFile.there /\ NoFile.hdr = NewHeader(0, << >>) /\ NoFile.there \in BOOLEAN
  BY DEF NoFile, NewFile
<1>3. \A h : NewFile(h).there \in BOOLEAN
  BY DEF NewFile
<1> QED BY <1>1, <1>2, <1>3, Fields, NewHeaderShape DEF IsFile

LEMMA NewHandleShape ==
  /\ IsHandle(NoHandle)
  /\ \A h : IsHeader(h) => IsHandle(NewHandle(h)) /\ NewHandle(h).hdr = h
<1>1. \A h : DOMAIN NewHandle(h) = HandleFields /\ NewHandle(h).hdr = h
  BY DEF NewHandle, HandleFields
<1> QED BY <1>1, Fields, NewHeaderShape DEF IsHandle, NoHandle

(* A file or a handle with a field changed is still one. *)
LEMMA FileUpdate ==
  ASSUME NEW f, IsFile(f), NEW g, DOMAIN g = DOMAIN f, g.there = f.there, IsHeader(g.hdr)
  PROVE  IsFile(g)
  BY DEF IsFile

LEMMA HandleUpdate ==
  ASSUME NEW d, IsHandle(d), NEW e, DOMAIN e = DOMAIN d, IsHeader(e.hdr)
  PROVE  IsHandle(e)
  BY DEF IsHandle

(* A file that has lost its late values differs in these only. *)
LEMMA LostShape ==
  ASSUME NEW f, NEW d, IsFile(f)
  PROVE  /\ IsFile(Lost(f, d)) /\ Lost(f, d).there = f.there
         /\ Lost(f, d).hdr = f.hdr /\ Lost(f, d).data = f.data
         /\ Lost(f, d).regions = IF d.late = NoLate THEN f.regions
              ELSE [f.regions EXCEPT ![d.ovf].cells[d.late.at] = d.late.was]
<1> DEFINE g == Lost(f, d)
<1>1. DOMAIN f = FileFields
  BY Fields DEF IsFile
<1>2. /\ DOMAIN g = DOMAIN f /\ g.there = f.there /\ g.hdr = f.hdr /\ g.data = f.data
      /\ g.regions = IF d.late = NoLate THEN f.regions
           ELSE [f.regions EXCEPT ![d.ovf].cells[d.late.at] = d.late.was]
  BY <1>1 DEF Lost, FileFields
<1> HIDE DEF g
<1>3. IsHeader(g.hdr)
  BY <1>2 DEF IsFile
<1>4. IsFile(g)
  BY <1>2, <1>3, FileUpdate
<1> QED BY <1>2, <1>4 DEF g

LEMMA LostKept ==
  ASSUME NEW f, NEW d, IsFile(f)
  PROVE  /\ IsFile(Lost(f, d)) /\ Lost(f, d).there = f.there
         /\ Lost(f, d).hdr = f.hdr /\ Lost(f, d).data = f.data
  BY LostShape

LEMMA AdvancedShape ==
  ASSUME NEW h, IsHeader(h), NEW ts, NEW d
  PROVE  IsHeader(Advanced(h, ts, d))
<1> DEFINE e == Evicted(h)
           a == Advanced(h, ts, d)
<1>1. DOMAIN h = HeaderFields
  BY Fields DEF IsHeader
<1>2. DOMAIN e = HeaderFields
  BY <1>1 DEF Evicted, HeaderFields
<1> HIDE DEF e
<1>3. DOMAIN a = HeaderFields
  BY <1>2 DEF Advanced, e, HeaderFields
<1> QED BY <1>3, Fields DEF IsHeader

LEMMA NewestOk ==
  ASSUME NEW slots, Found(slots), IsSlots(slots)
  PROVE  IsHeader(slots[Newest(slots)].hdr)
<1>1. slots[Newest(slots)].ok /\ Newest(slots) \in {0, 1}
  BY DEF Found, Newest
<1> QED BY <1>1 DEF IsSlots

(* tsdb_open ends up with a handle, whether it adopts a sidecar or not. *)
LEMMA OpenedShape ==
  ASSUME NEW f, IsFile(f), IsSlots(side), IsSlots(legacy)
  PROVE  IsHandle(OpenedHandle(f))
<1> DEFINE h == IF AdoptsSidecar(f.hdr) THEN SidecarHeader(f.hdr) ELSE f.hdr
<1>1. IsHeader(h)
  <2>1. CASE ~AdoptsSidecar(f.hdr)
    BY <2>1 DEF IsFile
  <2>2. CASE AdoptsSidecar(f.hdr)
    <3>1. UseCompact(side, legacy) \/ Found(legacy)
      BY <2>2 DEF AdoptsSidecar, Adopts, LoadFound
    <3>2. UseCompact(side, legacy) => Found(side)
      BY DEF UseCompact
    <3>3. IsHeader(LoadedHeader(side, legacy))
      BY <3>1, <3>2, NewestOk DEF LoadedHeader
    <3>4. \A c : IsHeader([LoadedHeader(side, legacy) EXCEPT !.cols = c])
      BY <3>3, Fields DEF IsHeader, HeaderFields
    <3> QED BY <2>2, <3>3, <3>4 DEF SidecarHeader
  <2> QED BY <2>1, <2>2
<1> DEFINE n == NewHandle(h)
<1>2. IsHandle(n) /\ n.hdr = h
  BY <1>1, NewHandleShape
<1>3. OpenedHandle(f) = [n EXCEPT !.seq  = LoadedSeq(side, legacy), !.lseq = NewestSeq(legacy),
                                  !.leg  = Newest(legacy), !.side = Newest(side),
                                  !.lag  = AdoptsSidecar(f.hdr)]
  BY DEF OpenedHandle
<1> HIDE DEF n
<1>4. DOMAIN OpenedHandle(f) = DOMAIN n /\ OpenedHandle(f).hdr = n.hdr
  BY <1>2, <1>3, Fields DEF IsHandle, HandleFields
<1> HIDE DEF h
<1> QED BY <1>1, <1>2, <1>4, HandleUpdate

LEMMA CreatedShape ==
  ASSUME CreateDatabase
  PROVE  /\ IsFile(main') /\ main'.there /\ IsHandle(db') /\ IsSlots(side') /\ IsSlots(legacy')
         /\ pc' = "idle"
<1>2. IsHeader(NewHeader(ConfigMax, ConfigCols))
  BY NewHeaderShape
<1>3. IsFile(main') /\ main'.there /\ IsHeader(main'.hdr)
  BY <1>2, NewFileShape DEF CreateDatabase, IsFile
<1>4. IsHandle(db')
  BY <1>3, NewHandleShape DEF CreateDatabase
<1>5. IsSlots(side') /\ IsSlots(legacy')
  BY DEF CreateDatabase, NoSlots, NoSlot, IsSlots
<1> QED BY <1>3, <1>4, <1>5 DEF CreateDatabase, Goto

LEMMA SlotsUpdate ==
  ASSUME NEW slots, IsSlots(slots), NEW n, NEW x, x.ok => IsHeader(x.hdr)
  PROVE  IsSlots([slots EXCEPT ![n] = x])
  BY DEF IsSlots

(* The shape of everything a fold returns with. *)
LEMMA FoldReturnsShape ==
  ASSUME NEW d, IsHandle(d), FoldReturns(d)
  PROVE  IsHandle(db') /\ job' = NoJob /\ pc' \in {"idle", "closed"}
  BY NewHandleShape DEF FoldReturns, Goto

-----------------------------------------------------------------------------
(* Steps *)

LEMMA SchemaInit == Init => ShapeInv /\ SwapInv /\ SweptInv /\ CopyInv
<1> SUFFICES ASSUME Init PROVE ShapeInv /\ SwapInv /\ SweptInv /\ CopyInv
  OBVIOUS
<1>1. ShapeInv
  <2>1. IsSlots(NoSlots)
    BY DEF IsSlots, NoSlots, NoSlot
  <2> QED BY <2>1, NewFileShape, NewHandleShape DEF Init, ShapeInv
<1>2. ~main.there /\ ~mig.there /\ pc = "closed"
  BY NewFileShape DEF Init
<1> QED BY <1>1, <1>2 DEF SwapInv, SweptInv, CopyInv, CopyIsWhole, Settling

(* What the calls and steps that leave the .mig alone do: the database     *)
(* stays, and no copy is under way before or after.                        *)
Ordinary ==
  /\ mig' = mig /\ main'.there
  /\ pc \in Settling
  /\ pc' \in Settling \cup {"closed"}

LEMMA WriteShape ==
  ASSUME ShapeInv, SwapInv, Write
  PROVE  ShapeInv' /\ Ordinary
<1> DEFINE ts   == clock + 1
           data == [main.data EXCEPT ![RecordIdx(db.hdr)] = [ts |-> ts, vals |-> db.hdr.cols]]
           h    == Advanced(db.hdr, ts, [s \in Slots |-> data[s].ts])
<1>1. /\ \E n : main' = [main EXCEPT !.data = data, !.regions = RegionsWith(main.regions, n)]
      /\ SidecarsWith(h, LateNow) /\ mig' = mig /\ pc' = pc /\ job' = job /\ pc = "idle"
  <2>1. DOMAIN main = FileFields
    BY Fields DEF ShapeInv, IsFile
  <2> QED BY <2>1 DEF Write, FileFields
<1>2. IsHeader(h)
  BY AdvancedShape DEF ShapeInv, IsHandle
<1> HIDE DEF data, h
<1>3. IsFile(main') /\ main'.there = main.there
  <2>1. DOMAIN main' = DOMAIN main /\ main'.there = main.there /\ IsHeader(main'.hdr)
    BY <1>1, Fields DEF ShapeInv, IsFile, FileFields
  <2> QED BY <2>1, FileUpdate DEF ShapeInv
<1>4. IsSlots(side') /\ IsSlots(legacy') /\ IsHandle(db')
  <2> DEFINE seq    == db.seq + 1
             slot   == Other(db.side)
             mirror == MirrorDue(TRUE, db.mirrored, seq, db.lseq)
  <2>1. /\ side' = [side EXCEPT ![slot] = ValidSlot(seq, db.lseq, h)]
        /\ legacy' = IF mirror THEN [legacy EXCEPT ![Other(db.leg)] = ValidSlot(seq, 0, h)]
                               ELSE legacy
        /\ db' = [db EXCEPT !.hdr = h, !.seq = seq, !.side = slot, !.lag = TRUE,
                            !.late = LateNow,
                            !.leg = IF mirror THEN Other(@) ELSE @,
                            !.lseq = IF mirror THEN seq ELSE @,
                            !.mirrored = @ \/ mirror]
    BY <1>1 DEF SidecarsWith
  <2> HIDE DEF seq, slot, mirror
  <2>2. \A q, l : ValidSlot(q, l, h).hdr = h
    BY DEF ValidSlot
  <2>3. IsSlots(side')
    BY <1>2, <2>1, <2>2, SlotsUpdate DEF ShapeInv
  <2>4. IsSlots(legacy')
    BY <1>2, <2>1, <2>2, SlotsUpdate DEF ShapeInv
  <2>5. DOMAIN db' = DOMAIN db /\ db'.hdr = h
    BY <2>1, Fields DEF ShapeInv, IsHandle, HandleFields
  <2> QED BY <1>2, <2>3, <2>4, <2>5, HandleUpdate DEF ShapeInv
<1> QED BY <1>1, <1>3, <1>4 DEF ShapeInv, SwapInv, Ordinary, Settling

(* The calls and steps that fold the header. *)
LEMMA FoldShape ==
  ASSUME ShapeInv, SwapInv,
         Sync \/ Close \/ Clear \/ FoldHeader \/ RemoveSlot \/ RemoveReturns
           \/ \E m \in Capacities : ResizeInPlace(m)
  PROVE  ShapeInv' /\ Ordinary
<1> USE DEF Goto
<1>a. DOMAIN db = HandleFields /\ DOMAIN db.hdr = HeaderFields /\ DOMAIN job = JobFields
  BY Fields DEF ShapeInv, IsHandle, IsHeader
<1>1. CASE Sync \/ Close
  <2>1. UNCHANGED <<main, mig, side, legacy, db, job>> /\ pc = "idle" /\ pc' = "fold"
    BY <1>1 DEF Sync, Close, StartFold, disk
  <2> QED BY <2>1 DEF ShapeInv, SwapInv, Ordinary, Settling
<1>2. CASE Clear
  <2>1. /\ UNCHANGED <<main, mig, side, legacy, job>> /\ pc = "idle" /\ pc' = "fold"
        /\ db' = [db EXCEPT !.hdr = [NewHeader(db.hdr.max, db.hdr.cols)
                                        EXCEPT !.extra = db.hdr.extra, !.ovf = db.hdr.ovf],
                            !.first = 0]
    BY <1>2, <1>a DEF Clear, AlterCall, StartFold, disk
  <2> DEFINE n == NewHeader(db.hdr.max, db.hdr.cols)
             h == [n EXCEPT !.extra = db.hdr.extra, !.ovf = db.hdr.ovf]
  <2>2. IsHeader(n)
    BY NewHeaderShape
  <2> HIDE DEF n
  <2>3. IsHeader(h)
    BY <2>2 DEF IsHeader
  <2>4. db' = [db EXCEPT !.hdr = h, !.first = 0]
    BY <2>1 DEF n
  <2> HIDE DEF h
  <2>5. DOMAIN db' = DOMAIN db /\ db'.hdr = h
    BY <1>a, <2>4 DEF HandleFields
  <2> QED BY <2>1, <2>3, <2>5, HandleUpdate DEF ShapeInv, SwapInv, Ordinary, Settling
<1>3. CASE FoldHeader
  <2>1. UNCHANGED <<mig, side, legacy>> /\ pc = "fold"
    BY <1>3 DEF FoldHeader
  <2>2. CASE /\ main' = [main EXCEPT !.hdr = db.hdr]
             /\ db' = [db EXCEPT !.lag = FALSE, !.late = NoLate]
             /\ pc' = "remove" /\ job' = job
    <3>1. IsFile(main') /\ main'.there = main.there
      <4>1. DOMAIN main' = DOMAIN main /\ main'.there = main.there /\ IsHeader(main'.hdr)
        BY <2>2, Fields DEF ShapeInv, IsFile, IsHandle, FileFields
      <4> QED BY <4>1, FileUpdate DEF ShapeInv
    <3>2. DOMAIN db' = DOMAIN db /\ db'.hdr = db.hdr
      BY <1>a, <2>2 DEF HandleFields
    <3>3. IsHandle(db')
      BY <3>2, HandleUpdate DEF ShapeInv, IsHandle
    <3> QED BY <2>1, <2>2, <3>1, <3>3 DEF ShapeInv, SwapInv, Ordinary, Settling
  <2>3. CASE /\ FoldReturns(CASE op = "resize" -> [db EXCEPT !.hdr.max = job.max]
                              [] op = "sync"   -> [db EXCEPT !.late = NoLate]
                              [] OTHER         -> db)
             /\ main' = main
    <3> DEFINE e == [db EXCEPT !.hdr.max = job.max]
               c == [db EXCEPT !.late = NoLate]
               d == CASE op = "resize" -> e [] op = "sync" -> c [] OTHER -> db
    <3>1. /\ DOMAIN e = DOMAIN db /\ DOMAIN e.hdr = DOMAIN db.hdr
          /\ DOMAIN c = DOMAIN db /\ DOMAIN c.hdr = DOMAIN db.hdr
      BY <1>a DEF HandleFields
    <3>3. FoldReturns(d)
      BY <2>3
    <3> HIDE DEF e, c
    <3>2. IsHandle(d)
      BY <3>1 DEF ShapeInv, IsHandle, IsHeader
    <3> HIDE DEF d
    <3>4. IsHandle(db') /\ job' = NoJob /\ pc' \in {"idle", "closed"}
      BY <3>2, <3>3, FoldReturnsShape
    <3> QED BY <2>1, <2>3, <3>4 DEF ShapeInv, SwapInv, Ordinary, Settling
  <2> QED BY <1>3, <2>2, <2>3 DEF FoldHeader
<1>4. CASE RemoveSlot
  <2>1. /\ UNCHANGED <<main, mig, db, job, pc>> /\ pc = "remove"
        /\ \/ side' = [side EXCEPT ![gone] = NoSlot] /\ legacy' = legacy
           \/ legacy' = [legacy EXCEPT ![gone - 2] = NoSlot] /\ side' = side
    BY <1>4 DEF RemoveSlot
  <2>2. ~NoSlot.ok
    BY DEF NoSlot
  <2>3. IsSlots(side') /\ IsSlots(legacy')
    BY <2>1, <2>2, SlotsUpdate DEF ShapeInv
  <2> QED BY <2>1, <2>3 DEF ShapeInv, SwapInv, Ordinary, Settling
<1>5. CASE RemoveReturns
  <2> DEFINE d == [db EXCEPT !.mirrored = FALSE, !.lseq = 0]
  <2>1. UNCHANGED <<main, mig, side, legacy>> /\ pc = "remove" /\ FoldReturns(d)
    BY <1>5 DEF RemoveReturns, disk
  <2>2. DOMAIN d = DOMAIN db /\ d.hdr = db.hdr
    BY <1>a DEF HandleFields
  <2> HIDE DEF d
  <2>3. IsHandle(d)
    BY <2>2, HandleUpdate DEF ShapeInv, IsHandle
  <2>4. IsHandle(db') /\ job' = NoJob /\ pc' \in {"idle", "closed"}
    BY <2>1, <2>3, FoldReturnsShape
  <2> QED BY <2>1, <2>4 DEF ShapeInv, SwapInv, Ordinary, Settling
<1>6. CASE \E m \in Capacities : ResizeInPlace(m)
  <2>1. PICK m \in Capacities : ResizeInPlace(m)
    BY <1>6
  <2>2. /\ UNCHANGED <<main, mig, side, legacy>> /\ pc = "idle" /\ pc' = "fold"
        /\ db' = [db EXCEPT !.hdr.max = m] /\ job' = [NoJob EXCEPT !.max = db.hdr.max]
    BY <2>1 DEF ResizeInPlace, StartFold, disk
  <2>3. DOMAIN db' = DOMAIN db /\ DOMAIN db'.hdr = DOMAIN db.hdr
    BY <1>a, <2>2 DEF HandleFields
  <2>4. DOMAIN job' = DOMAIN NoJob
    BY <2>2
  <2> QED BY <2>2, <2>3, <2>4 DEF ShapeInv, IsHandle, IsHeader, SwapInv, Ordinary, Settling
<1> QED BY <1>1, <1>2, <1>3, <1>4, <1>5, <1>6

(* The calls and steps of the overflow region. *)
LEMMA RegionShape ==
  ASSUME ShapeInv, SwapInv,
         CommitRegion \/ RemoveExtras
           \/ \E cols \in ExtraCols : AddExtraParams(cols) \/ RemapExtras(cols)
  PROVE  ShapeInv' /\ Ordinary
<1> USE DEF Goto
<1>a. DOMAIN db = HandleFields /\ DOMAIN db.hdr = HeaderFields
  BY Fields DEF ShapeInv, IsHandle, IsHeader
<1>b. ASSUME NEW n, NEW o, NEW f PROVE IsHandle(WithExtras(db, n, o, f))
  <2>1. /\ DOMAIN WithExtras(db, n, o, f) = HandleFields
        /\ DOMAIN WithExtras(db, n, o, f).hdr = HeaderFields
    BY <1>a DEF WithExtras, HandleFields, HeaderFields
  <2> QED BY <2>1, Fields DEF IsHandle, IsHeader
<1>1. CASE CommitRegion
  <2>1. PICK n, o, f :
          /\ main' = main \/ main' = [main EXCEPT !.hdr = WithExtras(db, n, o, f).hdr]
          /\ \/ db' = WithExtras(db, n, o, f)
             \/ db' = [db EXCEPT !.hdr = WithExtras(db, n, o, f).hdr]
    <3> DEFINE k == Len(main.regions)
               first == IF op = "add" THEN db.hdr.total ELSE db.first
               d == WithExtras(db, Len(main.regions[k].cols), k, first)
    <3>1. /\ main' = main \/ main' = [main EXCEPT !.hdr = d.hdr]
          /\ db' = d \/ db' = [db EXCEPT !.hdr = d.hdr]
      BY <1>1 DEF CommitRegion
    <3> QED BY <3>1
  <2>2. UNCHANGED <<mig, side, legacy, job>> /\ pc = "region" /\ pc' = "idle"
    BY <1>1 DEF CommitRegion
  <2> DEFINE d == WithExtras(db, n, o, f)
  <2>3. IsHandle(d) /\ IsHeader(d.hdr)
    BY <1>b DEF IsHandle
  <2> HIDE DEF d
  <2>4. IsFile(main') /\ main'.there = main.there
    <3>1. DOMAIN main' = DOMAIN main /\ main'.there = main.there /\ IsHeader(main'.hdr)
      BY <2>1, <2>3, Fields DEF ShapeInv, IsFile, FileFields, d
    <3> QED BY <3>1, FileUpdate DEF ShapeInv
  <2>5. IsHandle(db')
    <3>1. CASE db' = d
      BY <2>3, <3>1
    <3>2. CASE db' = [db EXCEPT !.hdr = d.hdr]
      <4>1. DOMAIN db' = DOMAIN db /\ db'.hdr = d.hdr
        BY <1>a, <3>2 DEF HandleFields
      <4> QED BY <2>3, <4>1, HandleUpdate DEF ShapeInv
    <3> QED BY <2>1, <3>1, <3>2 DEF d
  <2> QED BY <2>2, <2>4, <2>5 DEF ShapeInv, SwapInv, Ordinary, Settling
<1>2. CASE RemoveExtras
  <2>1. /\ UNCHANGED <<mig, side, legacy, job, pc>> /\ pc = "idle"
        /\ db' = [WithExtras(db, 0, 0, 0) EXCEPT !.late = NoLate]
        /\ main' = main \/ main' = [main EXCEPT !.hdr = db'.hdr]
    BY <1>2 DEF RemoveExtras, AlterCall
  <2>2. IsHandle(db') /\ IsHeader(db'.hdr)
    <3> DEFINE d == WithExtras(db, 0, 0, 0)
    <3>1. IsHandle(d) /\ DOMAIN d = HandleFields
      BY <1>b, Fields DEF IsHandle
    <3>2. db' = [d EXCEPT !.late = NoLate]
      BY <2>1
    <3> HIDE DEF d
    <3>3. DOMAIN db' = DOMAIN d /\ db'.hdr = d.hdr
      BY <3>1, <3>2 DEF HandleFields
    <3> QED BY <3>1, <3>3, HandleUpdate DEF IsHandle
  <2>3. IsFile(main') /\ main'.there = main.there
    <3>1. DOMAIN main' = DOMAIN main /\ main'.there = main.there /\ IsHeader(main'.hdr)
      BY <2>1, <2>2, Fields DEF ShapeInv, IsFile, FileFields
    <3> QED BY <3>1, FileUpdate DEF ShapeInv
  <2> QED BY <2>1, <2>2, <2>3 DEF ShapeInv, SwapInv, Ordinary, Settling
<1>3. CASE \E cols \in ExtraCols : AddExtraParams(cols) \/ RemapExtras(cols)
  <2>1. /\ UNCHANGED <<mig, side, legacy, job>> /\ pc = "idle" /\ pc' \in {"idle", "region"}
        /\ db' = db \/ db' = [db EXCEPT !.late = NoLate]
        /\ main' = main \/ \E r : main' = [main EXCEPT !.regions = r]
    <3>a. DOMAIN main = FileFields
      BY Fields DEF ShapeInv, IsFile
    <3>1. PICK r, name : AppendRegion(r, name)
      BY <1>3 DEF AddExtraParams, RemapExtras
    <3>2. /\ main' = main \/ main' = [main EXCEPT !.regions = Append(main.regions, r)]
          /\ db' = db \/ db' = [db EXCEPT !.late = NoLate]
      BY <3>1, <3>a DEF AppendRegion, FileFields
    <3>3. pc = "idle" /\ UNCHANGED <<mig, side, legacy, job>>
      BY <1>3 DEF AddExtraParams, RemapExtras, AlterCall
    <3>4. pc' \in {pc, "region"}
      BY <3>1 DEF AppendRegion
    <3> QED BY <3>2, <3>3, <3>4
  <2>2. IsFile(main') /\ main'.there = main.there
    <3>1. DOMAIN main' = DOMAIN main /\ main'.there = main.there /\ IsHeader(main'.hdr)
      BY <2>1, Fields DEF ShapeInv, IsFile, FileFields
    <3> QED BY <3>1, FileUpdate DEF ShapeInv
  <2>3. IsHandle(db')
    <3>1. DOMAIN db' = DOMAIN db /\ db'.hdr = db.hdr
      BY <1>a, <2>1 DEF HandleFields
    <3> QED BY <3>1, HandleUpdate DEF ShapeInv, IsHandle
  <2> QED BY <2>1, <2>2, <2>3 DEF ShapeInv, SwapInv, Ordinary, Settling
<1> QED BY <1>1, <1>2, <1>3

(* The steps of tsdb_migrate_engine on the files, one way or the other. *)
LEMMA RewriteShape ==
  ASSUME ShapeInv, SwapInv, NEW cols, NEW m, NEW room, Rewrite(cols, m, room)
  PROVE  /\ ShapeInv' /\ SwapInv' /\ main' = main /\ pc = "idle"
         /\ \/ pc' = "idle" /\ ~mig'.there
            \/ /\ pc' = "copy" /\ mig'.hdr.cols = cols /\ mig'.hdr.total = 0
               /\ job'.cols = cols /\ job'.written = 0 /\ job'.buf = << >>
<1> USE DEF Goto
<1> DEFINE p == Plan(cols, m, room).max
<1>1. UNCHANGED <<main, side, legacy, db>> /\ pc = "idle"
  BY DEF Rewrite, AlterCall
<1>2. \/ mig' = NoFile /\ job' = job /\ pc' = pc
      \/ /\ mig' = NewFile(NewHeader(p, cols)) /\ pc' = "copy"
         /\ \E k, n : job' = [NoJob EXCEPT !.cols = cols, !.max = p, !.k = k, !.avail = n]
  BY DEF Rewrite
<1> HIDE DEF p
<1>3. CASE mig' = NoFile /\ job' = job /\ pc' = pc
  BY <1>1, <1>3, NewFileShape DEF ShapeInv, SwapInv, Settling
<1>4. CASE /\ mig' = NewFile(NewHeader(p, cols)) /\ pc' = "copy"
           /\ \E k, n : job' = [NoJob EXCEPT !.cols = cols, !.max = p, !.k = k, !.avail = n]
  <2>1. PICK k, n : job' = [NoJob EXCEPT !.cols = cols, !.max = p, !.k = k, !.avail = n]
    BY <1>4
  <2>2. DOMAIN job' = DOMAIN NoJob /\ job'.cols = cols /\ job'.written = 0 /\ job'.buf = << >>
    BY <2>1 DEF NoJob
  <2>3. IsFile(mig') /\ mig'.there /\ mig'.hdr = NewHeader(p, cols)
    BY <1>4, NewHeaderShape, NewFileShape
  <2>4. mig'.hdr.cols = cols /\ mig'.hdr.total = 0
    BY <2>3 DEF NewHeader
  <2> QED BY <1>1, <1>4, <2>2, <2>3, <2>4 DEF ShapeInv, SwapInv, Settling
<1> QED BY <1>2, <1>3, <1>4

(* What one turn of the copy loop does, when the record can be read. *)
Copied(buf, written, flush) ==
  /\ mig' = IF flush THEN [mig EXCEPT !.data = Flushed(mig.data, buf, written)] ELSE mig
  /\ DOMAIN job' = DOMAIN job
  /\ job'.cols = job.cols /\ job'.k = job.k + 1 /\ job'.avail = job.avail
  /\ job'.written = written
  /\ job'.buf = IF flush THEN << >> ELSE buf
  /\ pc' = pc

LEMMA CopyRecordCases ==
  ASSUME ShapeInv, CopyRecord
  PROVE  /\ UNCHANGED <<main, side, legacy, db>> /\ pc = "copy"
         /\ \/ "unreadable" \in Env /\ mig' = mig /\ pc' = pc /\ DOMAIN job' = DOMAIN job
            \/ Abort
            \/ \E row, flush : /\ DOMAIN row.vals = DOMAIN job.cols
                               /\ job.k + 1 = job.avail => flush
                               /\ flush \in BOOLEAN
                               /\ Copied(Append(job.buf, row), job.written + 1, flush)
<1> DEFINE old     == Read(main, db, job.k)
           row     == [old EXCEPT !.vals = Mapped(old.vals, Columns(main, db), job.cols)]
           buf     == Append(job.buf, row)
           written == job.written + 1
           flush   == Len(buf) = Rpb(Len(job.cols)) \/ job.k + 1 = job.avail
<1>a. DOMAIN job = JobFields /\ DOMAIN mig = FileFields
  BY Fields DEF ShapeInv, IsFile
<1>1. DOMAIN row.vals = DOMAIN job.cols
  <2>1. row.vals = Mapped(old.vals, Columns(main, db), job.cols)
    BY DEF Read
  <2> QED BY <2>1 DEF Mapped
<1>2. [old EXCEPT !.vals = Mapped(@, Columns(main, db), job.cols)] = row
  BY DEF Read
<1>3. /\ UNCHANGED <<main, side, legacy, db>> /\ pc = "copy"
      /\ \E readable \in Outcomes("unreadable"), ok \in Outcomes("copyfail") :
           IF ~readable
             THEN job' = [job EXCEPT !.k = job.avail, !.buf = << >>] /\ UNCHANGED <<mig, pc>>
           ELSE IF flush /\ ~ok
             THEN Abort
           ELSE /\ mig' = IF flush THEN [mig EXCEPT !.data = Flushed(@, buf, written)] ELSE mig
                /\ job' = [job EXCEPT !.k = @ + 1, !.written = written,
                                      !.buf = IF flush THEN << >> ELSE buf,
                                      !.oldestTs = IF job.written = 0 THEN old.ts ELSE @,
                                      !.newestTs = old.ts]
                /\ UNCHANGED pc
  BY <1>2, Zenon DEF CopyRecord
<1> HIDE DEF row, buf, written, flush, old
<1>4. CASE \E readable \in Outcomes("unreadable") :
             ~readable /\ job' = [job EXCEPT !.k = job.avail, !.buf = << >>] /\ UNCHANGED <<mig, pc>>
  BY <1>3, <1>4 DEF Outcomes
<1>5. CASE Abort
  BY <1>3, <1>5
<1>6. CASE /\ mig' = IF flush THEN [mig EXCEPT !.data = Flushed(@, buf, written)] ELSE mig
           /\ job' = [job EXCEPT !.k = @ + 1, !.written = written,
                                 !.buf = IF flush THEN << >> ELSE buf,
                                 !.oldestTs = IF job.written = 0 THEN old.ts ELSE @,
                                 !.newestTs = old.ts]
           /\ UNCHANGED pc
  <2>1. flush \in BOOLEAN /\ (job.k + 1 = job.avail => flush)
    BY DEF flush
  <2>2. mig' = IF flush THEN [mig EXCEPT !.data = Flushed(mig.data, buf, written)] ELSE mig
    BY <1>a, <1>6 DEF FileFields
  <2>3. /\ DOMAIN job' = DOMAIN job
        /\ job'.cols = job.cols /\ job'.k = job.k + 1 /\ job'.avail = job.avail
        /\ job'.written = written
        /\ job'.buf = IF flush THEN << >> ELSE buf
    BY <1>a, <1>6 DEF JobFields
  <2>4. Copied(buf, written, flush)
    BY <1>6, <2>2, <2>3 DEF Copied
  <2>5. Copied(Append(job.buf, row), job.written + 1, flush)
    BY <2>4 DEF buf, written
  <2> QED BY <1>1, <1>3, <2>1, <2>5 DEF row
<1> QED BY <1>3, <1>4, <1>5, <1>6

LEMMA FinalHeaderShape ==
  ASSUME IsHeader(mig.hdr)
  PROVE  IsHeader(FinalHeader) /\ FinalHeader.cols = mig.hdr.cols /\ FinalHeader.total = job.written
<1>1. DOMAIN mig.hdr = HeaderFields
  BY Fields DEF IsHeader
<1>2. /\ DOMAIN FinalHeader = HeaderFields /\ FinalHeader.cols = mig.hdr.cols
      /\ FinalHeader.total = job.written
  BY <1>1 DEF FinalHeader, HeaderFields
<1> QED BY <1>2, Fields DEF IsHeader

LEMMA FinalizeCases ==
  ASSUME ShapeInv, Finalize
  PROVE  /\ UNCHANGED <<main, side, legacy, db>> /\ pc = "copy" /\ job.k = job.avail
         /\ \/ Abort
            \/ /\ pc' = "unlink" /\ job' = job /\ IsFile(mig') /\ mig'.there = mig.there
               /\ mig'.hdr.cols = mig.hdr.cols /\ mig'.hdr.total \in {mig.hdr.total, job.written}
               /\ mig'.data = mig.data
<1> USE DEF Goto
<1>a. DOMAIN mig = FileFields /\ IsHeader(mig.hdr)
  BY Fields DEF ShapeInv, IsFile
<1>1. CASE Abort
  BY <1>1 DEF Finalize
<1>2. CASE mig' = mig /\ pc' = "unlink" /\ job' = job
  BY <1>2 DEF Finalize, ShapeInv
<1>3. CASE mig' = [mig EXCEPT !.hdr = FinalHeader] /\ pc' = "unlink" /\ job' = job
  <2>1. /\ DOMAIN mig' = FileFields /\ mig'.there = mig.there /\ mig'.data = mig.data
        /\ mig'.hdr = FinalHeader
    BY <1>a, <1>3 DEF FileFields
  <2>2. IsFile(mig')
    BY <1>a, <2>1, FinalHeaderShape, Fields DEF IsFile, ShapeInv
  <2> QED BY <1>a, <1>3, <2>1, <2>2, FinalHeaderShape DEF Finalize
<1> QED BY <1>1, <1>2, <1>3 DEF Finalize

(* Which of the shapes above a step has. *)
LEMMA NextCases ==
  ASSUME ShapeInv, SwapInv, [Next]_vars
  PROVE  \/ Recover \/ CreateFile \/ OpenExisting \/ Crash
         \/ ShapeInv' /\ Ordinary
         \/ \E cols, m, room : Rewrite(cols, m, room)
         \/ CopyRecord \/ Finalize \/ UnlinkOriginal \/ SwapIn
         \/ UNCHANGED vars
<1>1. CASE Write
  BY <1>1, WriteShape
<1>2. CASE Sync \/ Close \/ Clear \/ FoldHeader \/ RemoveSlot \/ RemoveReturns
             \/ \E m \in Capacities : ResizeInPlace(m)
  BY <1>2, FoldShape
<1>3. CASE CommitRegion \/ RemoveExtras
             \/ \E cols \in ExtraCols : AddExtraParams(cols) \/ RemapExtras(cols)
  BY <1>3, RegionShape
<1>4. CASE \E m \in Capacities, room \in Rooms : ResizeByCopy(m, room)
  BY <1>4 DEF ResizeByCopy
<1>5. CASE \E cols \in Schemas, room \in Rooms : MigrateSchema(cols, room)
  BY <1>5 DEF MigrateSchema
<1> QED BY <1>1, <1>2, <1>3, <1>4, <1>5 DEF Next, Open, Call, Step

(* There is a file to open before and after, and the calls find no .mig. *)
LEMMA FilesStep ==
  ASSUME ShapeInv, SwapInv, [Next]_vars
  PROVE  /\ ShapeInv' /\ SwapInv'
         /\ main.there \/ mig.there => main'.there \/ mig'.there
         /\ "adoptfail" \notin Env /\ SweptInv => SweptInv'
<1> USE DEF Goto, Settling
<1>1. CASE Recover
  <2>1. pc = "closed" /\ mig.there /\ job' = job
    BY <1>1 DEF Recover
  <2>2. CASE mig' = NoFile /\ main.there /\ UNCHANGED <<main, side, legacy, db, pc>>
    BY <2>1, <2>2, NewFileShape DEF ShapeInv, SwapInv, SweptInv
  <2>3. CASE main' = mig /\ mig' = NoFile /\ UNCHANGED <<side, legacy, db, pc>>
    BY <2>1, <2>3, NewFileShape DEF ShapeInv, SwapInv, SweptInv
  <2>4. CASE CreateDatabase /\ UNCHANGED mig /\ "adoptfail" \in Env
    BY <2>1, <2>4, CreatedShape DEF ShapeInv, SwapInv
  <2> QED BY <1>1, <2>2, <2>3, <2>4 DEF Recover, Outcomes
<1>2. CASE CreateFile
  <2>1. CreateDatabase /\ ~mig.there /\ mig' = mig /\ job' = job
    BY <1>2 DEF CreateFile
  <2> QED BY <2>1, CreatedShape DEF ShapeInv, SwapInv, SweptInv
<1>3. CASE OpenExisting
  <2>1. /\ UNCHANGED <<main, mig, side, legacy, job>> /\ main.there /\ ~mig.there
        /\ pc' = "idle" /\ db' = OpenedHandle(main)
    BY <1>3 DEF OpenExisting, disk
  <2>2. IsHandle(db')
    BY <2>1, OpenedShape DEF ShapeInv
  <2> QED BY <2>1, <2>2 DEF ShapeInv, SwapInv, SweptInv
<1>4. CASE Crash
  <2>1. /\ main' \in {main, Lost(main, db)} /\ UNCHANGED <<mig, side, legacy>>
        /\ pc' = "closed" /\ db' = NoHandle /\ job' = NoJob
    BY <1>4 DEF Crash
  <2>2. IsFile(main') /\ main'.there = main.there
    BY <2>1, LostKept DEF ShapeInv
  <2> QED BY <2>1, <2>2, NewHandleShape DEF ShapeInv, SwapInv, SweptInv
<1>5. CASE ShapeInv' /\ Ordinary
  <2>1. /\ mig' = mig /\ main'.there /\ pc \in Settling /\ pc' \in Settling \cup {"closed"}
    BY <1>5 DEF Ordinary
  <2> QED BY <1>5, <2>1 DEF SwapInv, SweptInv
<1>6. CASE \E cols, m, room : Rewrite(cols, m, room)
  <2>1. PICK cols, m, room : Rewrite(cols, m, room)
    BY <1>6
  <2>2. ShapeInv' /\ SwapInv' /\ main' = main /\ pc = "idle" /\ (pc' = "copy" \/ ~mig'.there)
    BY <2>1, RewriteShape
  <2>3. pc' \in Settling => ~mig'.there
    BY <2>2
  <2> QED BY <2>2, <2>3 DEF SwapInv, SweptInv
<1>7. CASE Abort /\ UNCHANGED <<main, side, legacy, db>> /\ pc = "copy"
  BY <1>7, NewFileShape DEF Abort, ShapeInv, SwapInv, SweptInv
<1>8. CASE CopyRecord
  <2>1. UNCHANGED <<main, side, legacy, db>> /\ pc = "copy"
    BY <1>8, CopyRecordCases
  <2>2. CASE mig' = mig /\ pc' = pc /\ DOMAIN job' = DOMAIN job
    BY <2>1, <2>2 DEF ShapeInv, SwapInv, SweptInv
  <2>3. CASE \E buf, written, flush : flush \in BOOLEAN /\ Copied(buf, written, flush)
    <3>1. PICK buf, written, flush : flush \in BOOLEAN /\ Copied(buf, written, flush)
      BY <2>3
    <3>2. \/ mig' = mig
          \/ mig' = [mig EXCEPT !.data = Flushed(mig.data, buf, written)]
      BY <3>1 DEF Copied
    <3>3. DOMAIN mig' = DOMAIN mig /\ mig'.there = mig.there /\ mig'.hdr = mig.hdr
      BY <3>2, Fields DEF ShapeInv, IsFile, FileFields
    <3>4. IsFile(mig')
      BY <3>3, FileUpdate DEF ShapeInv, IsFile
    <3>5. DOMAIN job' = DOMAIN job /\ pc' = pc
      BY <3>1 DEF Copied
    <3> QED BY <2>1, <3>3, <3>4, <3>5 DEF ShapeInv, SwapInv, SweptInv
  <2> QED BY <1>7, <1>8, <2>1, <2>2, <2>3, CopyRecordCases
<1>9. CASE Finalize
  <2>1. UNCHANGED <<main, side, legacy, db>> /\ pc = "copy"
    BY <1>9, FinalizeCases
  <2>2. CASE pc' = "unlink" /\ job' = job /\ IsFile(mig') /\ mig'.there = mig.there
    BY <2>1, <2>2 DEF ShapeInv, SwapInv, SweptInv
  <2> QED BY <1>7, <1>9, <2>1, <2>2, FinalizeCases
<1>10. CASE UnlinkOriginal
  <2>1. /\ UNCHANGED <<mig, side, legacy, job>> /\ main' = NoFile /\ pc = "unlink" /\ pc' = "swap"
        /\ db' = [db EXCEPT !.late = NoLate]
    BY <1>10 DEF UnlinkOriginal
  <2>2. DOMAIN db' = DOMAIN db /\ db'.hdr = db.hdr
    BY <2>1, Fields DEF ShapeInv, IsHandle, HandleFields
  <2>3. IsHandle(db')
    BY <2>2, HandleUpdate DEF ShapeInv, IsHandle
  <2> QED BY <2>1, <2>3, NewFileShape DEF ShapeInv, SwapInv, SweptInv
<1>11. CASE SwapIn
  <2>1. /\ UNCHANGED <<side, legacy>> /\ job' = NoJob /\ pc = "swap"
        /\ \/ main' = mig /\ mig' = NoFile
           \/ UNCHANGED <<main, mig>> /\ pc' = "closed"
        /\ \/ db' = NoHandle /\ pc' = "closed"
           \/ /\ db' = [db EXCEPT !.hdr = FinalHeader, !.extra = 0, !.ovf = 0, !.first = 0]
              /\ pc' = "idle"
    BY <1>11 DEF SwapIn
  <2>2. IsHandle(db')
    <3>1. CASE db' = NoHandle
      BY <3>1, NewHandleShape
    <3>2. CASE db' = [db EXCEPT !.hdr = FinalHeader, !.extra = 0, !.ovf = 0, !.first = 0]
      <4>1. DOMAIN db' = DOMAIN db /\ db'.hdr = FinalHeader
        BY <3>2, Fields DEF ShapeInv, IsHandle, HandleFields
      <4> QED BY <4>1, HandleUpdate, FinalHeaderShape DEF ShapeInv, IsFile
    <3> QED BY <2>1, <3>1, <3>2
  <2> QED BY <2>1, <2>2, NewFileShape DEF ShapeInv, SwapInv, SweptInv
<1>12. CASE UNCHANGED vars
  BY <1>12 DEF vars, disk, ShapeInv, SwapInv, SweptInv
<1> QED BY <1>1, <1>2, <1>3, <1>4, <1>5, <1>6, <1>8, <1>9, <1>10, <1>11, <1>12, NextCases

(* A turn of the copy loop keeps what is written and what is buffered. *)
LEMMA CopiedKeeps ==
  ASSUME ShapeInv, CopyInv, pc = "copy", NEW row, NEW flush \in BOOLEAN,
         DOMAIN row.vals = DOMAIN job.cols, job.k + 1 = job.avail => flush,
         Copied(Append(job.buf, row), job.written + 1, flush), main.there, main' = main
  PROVE  CopyInv'
<1> DEFINE B == {job.buf[i] : i \in DOMAIN job.buf} \cup {row}
           buf == Append(job.buf, row)
           n == Len(job.buf)
<1>1. /\ job.buf \in Seq(B) /\ n \in Nat /\ DOMAIN job.buf = 1 .. n
      /\ job.written \in Nat /\ n <= job.written
  <2>1. job.buf \in Seq({job.buf[i] : i \in DOMAIN job.buf})
    BY DEF CopyInv
  <2>2. n \in Nat /\ job.buf \in [1 .. n -> {job.buf[i] : i \in DOMAIN job.buf}]
    BY <2>1
  <2>3. job.buf \in [1 .. n -> B]
    BY <2>2
  <2> QED BY <2>2, <2>3 DEF CopyInv
<1> HIDE DEF B
<1>2. row \in B
  BY DEF B
<1>3. /\ buf \in Seq(B) /\ Len(buf) = n + 1 /\ DOMAIN buf = 1 .. n + 1
      /\ \A i \in 1 .. n + 1 : buf[i] = IF i = n + 1 THEN row ELSE job.buf[i]
  BY <1>1, <1>2
<1>4. \A i \in DOMAIN buf : DOMAIN buf[i].vals = DOMAIN job.cols
  BY <1>1, <1>3 DEF CopyInv
<1> HIDE DEF buf, n
<1>5. buf \in Seq({buf[i] : i \in DOMAIN buf})
  <2> DEFINE C == {buf[i] : i \in DOMAIN buf}
             m == n + 1
  <2>1. m \in Nat /\ DOMAIN buf = 1 .. m /\ buf \in [1 .. m -> B]
    BY <1>1, <1>3
  <2> HIDE DEF m
  <2>2. buf \in [1 .. m -> C]
    BY <2>1
  <2> HIDE DEF C
  <2>3. buf \in Seq(C)
    BY <2>1, <2>2
  <2> QED BY <2>3 DEF C
<1>6. /\ job'.cols = job.cols /\ job'.k = job.k + 1 /\ job'.avail = job.avail
      /\ job'.written = job.written + 1 /\ pc' = pc
  BY DEF Copied
<1>7. mig.hdr.cols = job.cols /\ mig.hdr.total = 0
  BY DEF CopyInv
<1>8. \A s \in Slots : s < job.written - n => DOMAIN mig.data[s].vals = DOMAIN job.cols
  BY DEF CopyInv, n
<1>9. CASE flush
  <2>1. mig' = [mig EXCEPT !.data = Flushed(mig.data, buf, job.written + 1)]
    BY <1>9 DEF Copied, buf
  <2>2. mig'.hdr = mig.hdr /\ mig'.data = Flushed(mig.data, buf, job.written + 1)
    BY <2>1, Fields DEF ShapeInv, IsFile, FileFields
  <2>3. job'.buf = << >>
    BY <1>9 DEF Copied
  <2>4. ASSUME NEW s \in Slots, s < job.written + 1
        PROVE  DOMAIN mig'.data[s].vals = DOMAIN job.cols
    <3>1. (job.written + 1) - Len(buf) = job.written - n /\ s \in Int
      BY <1>1, <1>3, MaxSlotsAssumption DEF Slots
    <3>2. CASE s < job.written - n
      <4>1. s \notin (job.written + 1) - Len(buf) .. (job.written + 1) - 1
        BY <1>1, <3>1, <3>2
      <4> QED BY <1>8, <2>2, <3>2, <4>1 DEF Flushed
    <3>3. CASE ~(s < job.written - n)
      <4> DEFINE i == s - ((job.written + 1) - Len(buf)) + 1
      <4>1. s \in (job.written + 1) - Len(buf) .. (job.written + 1) - 1
        BY <1>1, <2>4, <3>1, <3>3
      <4>2. i \in 1 .. n + 1
        BY <1>1, <2>4, <3>1, <3>3
      <4>3. mig'.data[s] = buf[i]
        BY <2>2, <4>1 DEF Flushed
      <4> HIDE DEF i
      <4> QED BY <1>3, <1>4, <4>2, <4>3
    <3> QED BY <3>2, <3>3
  <2>5. Len(<< >>) = 0 /\ << >> \in Seq({<< >>[i] : i \in DOMAIN << >>}) /\ DOMAIN << >> = {}
    OBVIOUS
  <2>6. \A s \in Slots : s < job'.written - Len(job'.buf) =>
          DOMAIN mig'.data[s].vals = DOMAIN job'.cols
    BY <1>1, <1>6, <2>3, <2>4, <2>5
  <2>7. job'.written \in Nat /\ Len(job'.buf) <= job'.written
    BY <1>1, <1>6, <2>3, <2>5
  <2> QED BY <1>6, <1>7, <2>2, <2>3, <2>5, <2>6, <2>7 DEF CopyInv, CopyIsWhole
<1>10. CASE ~flush
  <2>1. mig' = mig /\ job'.buf = buf
    BY <1>10 DEF Copied, buf
  <2>2. job'.k # job'.avail
    BY <1>6, <1>10
  <2>3. job'.written - Len(job'.buf) = job.written - n /\ job'.written \in Nat
        /\ Len(job'.buf) <= job'.written
    BY <1>1, <1>3, <1>6, <2>1
  <2>4. \A s \in Slots : s < job'.written - Len(job'.buf) =>
          DOMAIN mig'.data[s].vals = DOMAIN job'.cols
    BY <1>6, <1>8, <2>1, <2>3
  <2> QED BY <1>4, <1>5, <1>6, <1>7, <2>1, <2>2, <2>3, <2>4 DEF CopyInv, CopyIsWhole
<1> QED BY <1>9, <1>10

(* Steps that end or leave out the copy. *)
LEMMA NoCopy ==
  ASSUME pc' \notin {"copy", "unlink", "swap"}, CopyIsWhole'
  PROVE  CopyInv'
  BY DEF CopyInv

LEMMA CopyStep ==
  ASSUME "unreadable" \notin Env, ShapeInv, SwapInv, SwapInv', CopyInv, [Next]_vars
  PROVE  CopyInv'
<1> USE DEF Goto
<1>1. CASE Recover \/ CreateFile \/ OpenExisting
  <2>1. pc = "closed" /\ pc' \in {"closed", "idle"}
    BY <1>1 DEF Recover, CreateFile, OpenExisting, CreateDatabase
  <2>2. main'.there \/ ~mig'.there
    BY <1>1, NewFileShape, CreatedShape DEF Recover, CreateFile, OpenExisting, disk
  <2> QED BY <2>1, <2>2, NoCopy DEF CopyIsWhole
<1>2. CASE Crash
  <2>1. main' \in {main, Lost(main, db)} /\ mig' = mig /\ pc' = "closed"
    BY <1>2 DEF Crash
  <2>2. main'.there = main.there
    BY <2>1, LostKept DEF ShapeInv
  <2>3. CopyIsWhole'
    BY <2>1, <2>2 DEF CopyInv, CopyIsWhole, Whole
  <2> QED BY <2>1, <2>3, NoCopy
<1>3. CASE Ordinary
  BY <1>3, NoCopy DEF Ordinary, Settling, CopyIsWhole
<1>4. CASE \E cols, m, room : Rewrite(cols, m, room)
  <2>1. PICK cols, m, room : Rewrite(cols, m, room)
    BY <1>4
  <2>2. /\ main' = main /\ pc = "idle" /\ main.there
        /\ \/ pc' = "idle" /\ ~mig'.there
           \/ /\ pc' = "copy" /\ mig'.hdr.cols = cols /\ mig'.hdr.total = 0
              /\ job'.cols = cols /\ job'.written = 0 /\ job'.buf = << >>
    BY <2>1, RewriteShape DEF SwapInv, Settling
  <2>3. Len(<< >>) = 0 /\ << >> \in Seq({<< >>[i] : i \in DOMAIN << >>}) /\ DOMAIN << >> = {}
    OBVIOUS
  <2>4. CASE pc' = "idle"
    BY <2>2, <2>4, NoCopy DEF CopyIsWhole
  <2>5. CASE pc' = "copy"
    <3>1. \A s \in Slots : ~(s < 0 - 0)
      BY MaxSlotsAssumption DEF Slots
    <3>2. /\ mig'.hdr.cols = cols /\ job'.cols = cols /\ job'.written = 0 /\ job'.buf = << >>
          /\ mig'.hdr.total = 0 /\ main'.there
      BY <2>2, <2>5
    <3>3. \A s \in Slots : ~(s < job'.written - Len(job'.buf))
      BY <2>3, <3>1, <3>2
    <3>4. job'.buf \in Seq({job'.buf[i] : i \in DOMAIN job'.buf}) /\ DOMAIN job'.buf = {}
      BY <2>3, <3>2
    <3>5. job'.written \in Nat /\ Len(job'.buf) <= job'.written
      BY <2>3, <3>2
    <3> QED BY <2>5, <3>2, <3>3, <3>4, <3>5 DEF CopyInv, CopyIsWhole
  <2> QED BY <2>2, <2>4, <2>5
<1>5. CASE Abort
  BY <1>5, NewFileShape, NoCopy DEF Abort, CopyIsWhole
<1>6. CASE CopyRecord
  <2>1. main' = main /\ pc = "copy" /\ main.there
    BY <1>6, CopyRecordCases DEF SwapInv
  <2>2. CASE \E row, flush : /\ DOMAIN row.vals = DOMAIN job.cols
                             /\ job.k + 1 = job.avail => flush
                             /\ flush \in BOOLEAN
                             /\ Copied(Append(job.buf, row), job.written + 1, flush)
    BY <2>1, <2>2, CopiedKeeps
  <2> QED BY <1>5, <1>6, <2>2, CopyRecordCases
<1>7. CASE Finalize
  <2>1. main' = main /\ pc = "copy" /\ main.there /\ job.k = job.avail
    BY <1>7, FinalizeCases DEF SwapInv
  <2>2. CASE /\ pc' = "unlink" /\ mig'.hdr.cols = mig.hdr.cols
             /\ mig'.hdr.total \in {mig.hdr.total, job.written} /\ mig'.data = mig.data
    <3>1. /\ job.buf = << >> /\ mig.hdr.cols = job.cols /\ job.written \in Nat
          /\ mig.hdr.total = 0
      BY <2>1 DEF CopyInv
    <3>2. job.written - Len(job.buf) = job.written /\ \A s \in Slots : ~(s < 0)
      BY <3>1, MaxSlotsAssumption DEF Slots
    <3>3. Whole(mig')
      BY <2>1, <2>2, <3>1, <3>2 DEF CopyInv, Whole
    <3>4. Whole(mig)'
      BY <3>3 DEF Whole
    <3> QED BY <2>1, <2>2, <3>4 DEF CopyInv, CopyIsWhole
  <2> QED BY <1>5, <1>7, <2>2, FinalizeCases
<1>8. CASE UnlinkOriginal
  <2>1. mig' = mig /\ pc = "unlink" /\ pc' = "swap"
    BY <1>8 DEF UnlinkOriginal
  <2>2. Whole(mig)'
    BY <2>1 DEF CopyInv, Whole
  <2> QED BY <2>1, <2>2 DEF CopyInv, CopyIsWhole
<1>9. CASE SwapIn
  <2>1. /\ pc' \in {"closed", "idle"} /\ pc = "swap"
        /\ mig' = NoFile \/ (mig' = mig /\ main' = main)
    BY <1>9 DEF SwapIn
  <2>2. CASE mig' = NoFile
    BY <2>1, <2>2, NewFileShape, NoCopy DEF CopyIsWhole
  <2>3. CASE mig' = mig /\ main' = main
    <3>1. CopyIsWhole'
      BY <2>3 DEF CopyInv, CopyIsWhole, Whole
    <3> QED BY <2>1, <3>1, NoCopy
  <2> QED BY <2>1, <2>2, <2>3
<1>10. CASE UNCHANGED vars
  BY <1>10 DEF vars, disk, CopyInv, CopyIsWhole, Whole
<1> QED BY <1>1, <1>2, <1>3, <1>4, <1>6, <1>7, <1>8, <1>9, <1>10, NextCases

-----------------------------------------------------------------------------
(* The files *)

LEMMA FilesAlways == Spec => [](ShapeInv /\ SwapInv)
<1>1. Init => ShapeInv /\ SwapInv
  BY SchemaInit
<1>2. ShapeInv /\ SwapInv /\ [Next]_vars => ShapeInv' /\ SwapInv'
  BY FilesStep
<1> QED BY <1>1, <1>2, PTL DEF Spec

(* At every point of tsdb_migrate_schema_h, tsdb_resize_h and the recovery *)
(* of tsdb_open, whatever fails, a database or a copy of it is there.      *)
THEOREM DatabaseNeverVanishes == Spec => DatabaseStays
<1>1. ShapeInv /\ SwapInv /\ [Next]_vars =>
        [main.there \/ mig.there => main'.there \/ mig'.there]_vars
  BY FilesStep
<1> QED BY <1>1, FilesAlways, PTL DEF Spec, DatabaseStays

(* When the rename of tsdb_migrate_recover works, an open database has no  *)
(* .mig next to it.                                                        *)
THEOREM LeftoverIsSwept == "adoptfail" \notin Env => (Spec => []MigSwept)
<1> SUFFICES ASSUME "adoptfail" \notin Env PROVE Spec => []MigSwept
  OBVIOUS
<1>1. Init => SweptInv
  BY SchemaInit
<1>2. ShapeInv /\ SwapInv /\ SweptInv /\ [Next]_vars => SweptInv'
  BY FilesStep
<1>3. SweptInv => MigSwept
  BY DEF SweptInv, MigSwept, Settling
<1> QED BY <1>1, <1>2, <1>3, FilesAlways, PTL DEF Spec

(* When every source block can be read, a .mig that is all a power cut     *)
(* left holds each record that its header counts.                          *)
THEOREM AdoptedCopyIsWhole == "unreadable" \notin Env => (Spec => []CopyIsWhole)
<1> SUFFICES ASSUME "unreadable" \notin Env PROVE Spec => []CopyIsWhole
  OBVIOUS
<1>1. Init => CopyInv
  BY SchemaInit
<1>2. ShapeInv /\ SwapInv /\ SwapInv' /\ CopyInv /\ [Next]_vars => CopyInv'
  BY CopyStep
<1>3. CopyInv => CopyIsWhole
  BY DEF CopyInv
<1> QED BY <1>1, <1>2, <1>3, FilesAlways, PTL DEF Spec

-----------------------------------------------------------------------------
(* What each call and step does to the fields *)

(* The copies a handle has of the header's fields; its sidecar numbers. *)
SameCopies(d, e) == e.extra = d.extra /\ e.ovf = d.ovf /\ e.first = d.first
SameNumbers(d, e) == e.seq = d.seq /\ e.side = d.side /\ e.leg = d.leg /\ e.lseq = d.lseq

(* A header with other records than h. *)
SameShape(h, g) == g.cols = h.cols /\ g.extra = h.extra /\ g.ovf = h.ovf /\ g.first = h.first

IsRecord(h) == h = [x \in HeaderFields |-> h[x]]

LEMMA AdvancedEffect ==
  ASSUME NEW h, IsHeader(h), NEW ts, NEW d
  PROVE  LET a == Advanced(h, ts, d) IN
         /\ a.max = h.max /\ a.total = h.total + 1 /\ SameShape(h, a)
         /\ a.oldest = IF IsEviction(h) THEN (h.oldest + 1) % h.max ELSE h.oldest
         /\ IsRecord(a)
<1> DEFINE e == Evicted(h)
           a == Advanced(h, ts, d)
           o == IF IsEviction(h) THEN d[e.oldest] ELSE IF h.total = 0 THEN ts ELSE e.oldestTs
<1>1. DOMAIN h = HeaderFields
  BY Fields DEF IsHeader
<1>2. /\ DOMAIN e = HeaderFields /\ e.max = h.max /\ e.total = h.total /\ SameShape(h, e)
      /\ e.oldest = IF IsEviction(h) THEN (h.oldest + 1) % h.max ELSE h.oldest
  <2>1. CASE IsEviction(h)
    BY <1>1, <2>1 DEF Evicted, HeaderFields, SameShape
  <2>2. CASE ~IsEviction(h)
    BY <1>1, <2>2 DEF Evicted, HeaderFields, SameShape
  <2> QED BY <2>1, <2>2
<1>3. a = [e EXCEPT !.total = e.total + 1, !.newestTs = ts, !.oldestTs = o]
  BY <1>2 DEF Advanced, HeaderFields
<1> HIDE DEF e, a, o
<1>4. /\ DOMAIN a = HeaderFields /\ a.max = e.max /\ a.total = e.total + 1
      /\ a.oldest = e.oldest /\ SameShape(e, a)
  BY <1>2, <1>3 DEF HeaderFields, SameShape
<1>5. IsRecord(a)
  BY <1>2, <1>3 DEF IsRecord
<1> QED BY <1>2, <1>4, <1>5 DEF a, SameShape

LEMMA NewHeaderEffect ==
  ASSUME NEW m, NEW cols
  PROVE  LET h == NewHeader(m, cols) IN
         /\ h.max = m /\ h.total = 0 /\ h.oldest = 0 /\ h.cols = cols
         /\ h.extra = 0 /\ h.ovf = 0 /\ h.first = 0 /\ IsRecord(h)
  BY DEF NewHeader, IsRecord, HeaderFields

LEMMA NoFileEffect ==
  /\ NoFile.hdr = NewHeader(0, << >>) /\ NoFile.regions = << >>
  /\ NoFile.data = [s \in Slots |-> NoRow] /\ ~NoFile.there
  /\ \A h : /\ NewFile(h).hdr = h /\ NewFile(h).regions = << >> /\ NewFile(h).there
            /\ NewFile(h).data = [s \in Slots |-> NoRow]
  BY DEF NoFile, NewFile

LEMMA NewHandleEffect ==
  ASSUME NEW h
  PROVE  LET d == NewHandle(h) IN
         /\ d.hdr = h /\ d.extra = h.extra /\ d.ovf = h.ovf /\ d.first = h.first
         /\ d.seq = 0 /\ d.side = 0 /\ d.leg = 0 /\ d.lseq = 0 /\ d.late = NoLate
  BY DEF NewHandle

LEMMA OpenedEffect ==
  ASSUME NEW f
  PROVE  LET d == OpenedHandle(f) IN
         /\ d.hdr = IF AdoptsSidecar(f.hdr) THEN SidecarHeader(f.hdr) ELSE f.hdr
         /\ CopiesAgree(d)
         /\ d.seq = LoadedSeq(side, legacy) /\ d.lseq = NewestSeq(legacy)
         /\ d.side = Newest(side) /\ d.leg = Newest(legacy) /\ d.late = NoLate
<1> DEFINE h == IF AdoptsSidecar(f.hdr) THEN SidecarHeader(f.hdr) ELSE f.hdr
           n == NewHandle(h)
<1>1. OpenedHandle(f) = [n EXCEPT !.seq  = LoadedSeq(side, legacy), !.lseq = NewestSeq(legacy),
                                  !.leg  = Newest(legacy), !.side = Newest(side),
                                  !.lag  = AdoptsSidecar(f.hdr)]
  BY DEF OpenedHandle
<1>2. /\ DOMAIN n = HandleFields /\ n.hdr = h /\ n.extra = h.extra /\ n.ovf = h.ovf
      /\ n.first = h.first /\ n.late = NoLate
  BY DEF NewHandle, HandleFields
<1> HIDE DEF h, n
<1> QED BY <1>1, <1>2 DEF HandleFields, CopiesAgree, h

LEMMA CreatedEffect ==
  ASSUME CreateDatabase
  PROVE  /\ main' = NewFile(NewHeader(ConfigMax, ConfigCols))
         /\ db' = NewHandle(NewHeader(ConfigMax, ConfigCols))
         /\ side' = NoSlots /\ legacy' = NoSlots /\ Valid' = {} /\ pc' = "idle"
<1>1. main' = NewFile(NewHeader(ConfigMax, ConfigCols)) /\ db' = NewHandle(main'.hdr)
      /\ side' = NoSlots /\ legacy' = NoSlots /\ pc' = "idle"
  BY DEF CreateDatabase, Goto
<1>2. Valid' = {}
  BY <1>1 DEF Valid, NoSlots, NoSlot
<1> QED BY <1>1, <1>2, NoFileEffect

(* tsdb_write_h *)
NextTs == clock + 1
WrittenData == [main.data EXCEPT ![RecordIdx(db.hdr)] = [ts |-> NextTs, vals |-> db.hdr.cols]]
WrittenHeader == Advanced(db.hdr, NextTs, [s \in Slots |-> WrittenData[s].ts])
Mirrors == MirrorDue(TRUE, db.mirrored, db.seq + 1, db.lseq)

LEMMA WriteEffect ==
  ASSUME ShapeInv, Write
  PROVE  /\ pc = "idle" /\ UNCHANGED <<mig, pc, op, gone, job, alters>>
         /\ clock < MaxTs /\ clock' = clock + 1
         /\ db.hdr.total < (IF Unlimited(db.hdr) THEN MaxSlots ELSE 2 * db.hdr.max)
         /\ Grows /\ db.hdr.extra > 0 => GrowthModelled
         /\ main'.there = main.there /\ main'.hdr = main.hdr
         /\ main'.data = WrittenData
         /\ \E n : main'.regions = RegionsWith(main.regions, n)
         /\ db'.late = LateNow
         /\ db'.hdr = WrittenHeader /\ SameCopies(db, db')
         /\ db'.seq = db.seq + 1 /\ db'.side = Other(db.side)
         /\ db'.leg = (IF Mirrors THEN Other(db.leg) ELSE db.leg)
         /\ db'.lseq = (IF Mirrors THEN db.seq + 1 ELSE db.lseq)
         /\ side' = [side EXCEPT ![Other(db.side)] = ValidSlot(db.seq + 1, db.lseq, WrittenHeader)]
         /\ legacy' = IF Mirrors
                        THEN [legacy EXCEPT ![Other(db.leg)] = ValidSlot(db.seq + 1, 0, WrittenHeader)]
                        ELSE legacy
<1>a. DOMAIN main = FileFields /\ DOMAIN db = HandleFields
  BY Fields DEF ShapeInv, IsFile, IsHandle
<1>1. /\ pc = "idle" /\ UNCHANGED <<mig, pc, op, gone, job, alters>>
      /\ clock < MaxTs /\ clock' = clock + 1
      /\ db.hdr.total < (IF Unlimited(db.hdr) THEN MaxSlots ELSE 2 * db.hdr.max)
      /\ Grows /\ db.hdr.extra > 0 => GrowthModelled
      /\ \E n : main' = [main EXCEPT !.data = WrittenData, !.regions = RegionsWith(@, n)]
      /\ SidecarsWith(WrittenHeader, LateNow)
  BY Zenon DEF Write, NextTs, WrittenData, WrittenHeader
<1>2. /\ side' = [side EXCEPT ![Other(db.side)] = ValidSlot(db.seq + 1, db.lseq, WrittenHeader)]
      /\ legacy' = IF Mirrors
                     THEN [legacy EXCEPT ![Other(db.leg)] = ValidSlot(db.seq + 1, 0, WrittenHeader)]
                     ELSE legacy
      /\ db' = [db EXCEPT !.hdr = WrittenHeader, !.seq = db.seq + 1, !.side = Other(db.side),
                          !.lag = TRUE, !.late = LateNow,
                          !.leg = IF Mirrors THEN Other(@) ELSE @,
                          !.lseq = IF Mirrors THEN db.seq + 1 ELSE @,
                          !.mirrored = @ \/ Mirrors]
  BY <1>1, Zenon DEF SidecarsWith, Mirrors
<1>3. /\ db'.hdr = WrittenHeader /\ SameCopies(db, db') /\ db'.late = LateNow
      /\ db'.seq = db.seq + 1 /\ db'.side = Other(db.side)
      /\ db'.leg = (IF Mirrors THEN Other(db.leg) ELSE db.leg)
      /\ db'.lseq = (IF Mirrors THEN db.seq + 1 ELSE db.lseq)
  BY <1>a, <1>2 DEF HandleFields, SameCopies
<1>4. /\ main'.there = main.there /\ main'.hdr = main.hdr
      /\ main'.data = WrittenData
      /\ \E n : main'.regions = RegionsWith(main.regions, n)
  BY <1>a, <1>1 DEF FileFields
<1> QED BY <1>1, <1>2, <1>3, <1>4

(* tsdb_fold_header *)
LEMMA FoldReturnsEffect ==
  ASSUME NEW d, FoldReturns(d)
  PROVE  /\ op' = "none" /\ job' = NoJob
         /\ \/ op = "close" /\ db' = NoHandle /\ pc' = "closed"
            \/ op # "close" /\ db' = d /\ pc' = "idle"
  BY DEF FoldReturns, Goto

LEMMA FoldHeaderEffect ==
  ASSUME ShapeInv, FoldHeader
  PROVE  /\ pc = "fold" /\ UNCHANGED <<mig, side, legacy, gone, clock, alters>>
         /\ \/ /\ main'.there = main.there /\ main'.hdr = db.hdr
               /\ main'.data = main.data /\ main'.regions = main.regions
               /\ db'.hdr = db.hdr /\ SameCopies(db, db') /\ SameNumbers(db, db')
               /\ db'.late = NoLate /\ pc' = "remove" /\ UNCHANGED <<op, job>>
            \/ /\ (IF op = "clear" THEN "clearfail" ELSE "foldfail") \in Env
               /\ UNCHANGED main /\ op' = "none" /\ job' = NoJob
               /\ \/ op = "close" /\ db' = NoHandle /\ pc' = "closed"
                  \/ /\ op # "close" /\ pc' = "idle"
                     /\ db'.hdr = IF op = "resize" THEN [db.hdr EXCEPT !.max = job.max] ELSE db.hdr
                     /\ SameCopies(db, db') /\ SameNumbers(db, db')
                     /\ db'.late = IF op = "sync" THEN NoLate ELSE db.late
<1>a. DOMAIN main = FileFields /\ DOMAIN db = HandleFields /\ DOMAIN db.hdr = HeaderFields
  BY Fields DEF ShapeInv, IsFile, IsHandle, IsHeader
<1>1. pc = "fold" /\ UNCHANGED <<mig, side, legacy, gone, clock, alters>>
  BY DEF FoldHeader
<1>2. CASE /\ main' = [main EXCEPT !.hdr = db.hdr]
           /\ db' = [db EXCEPT !.lag = FALSE, !.late = NoLate]
           /\ pc' = "remove" /\ UNCHANGED <<op, job>>
  <2>1. /\ main'.there = main.there /\ main'.hdr = db.hdr
        /\ main'.data = main.data /\ main'.regions = main.regions
    BY <1>a, <1>2 DEF FileFields
  <2>2. db'.hdr = db.hdr /\ SameCopies(db, db') /\ SameNumbers(db, db') /\ db'.late = NoLate
    BY <1>a, <1>2 DEF HandleFields, SameCopies, SameNumbers
  <2> QED BY <1>1, <1>2, <2>1, <2>2
<1>3. CASE /\ (IF op = "clear" THEN "clearfail" ELSE "foldfail") \in Env
           /\ FoldReturns(CASE op = "resize" -> [db EXCEPT !.hdr.max = job.max]
                            [] op = "sync"   -> [db EXCEPT !.late = NoLate]
                            [] OTHER         -> db)
           /\ UNCHANGED main
  <2> DEFINE e == [db EXCEPT !.hdr.max = job.max]
             c == [db EXCEPT !.late = NoLate]
             d == CASE op = "resize" -> e [] op = "sync" -> c [] OTHER -> db
  <2>1. /\ e.hdr = [db.hdr EXCEPT !.max = job.max] /\ SameCopies(db, e) /\ SameNumbers(db, e)
        /\ e.late = db.late
        /\ c.hdr = db.hdr /\ SameCopies(db, c) /\ SameNumbers(db, c) /\ c.late = NoLate
    BY <1>a DEF HandleFields, SameCopies, SameNumbers
  <2>2. FoldReturns(d)
    BY <1>3
  <2> HIDE DEF e, c
  <2>3. /\ d.hdr = IF op = "resize" THEN [db.hdr EXCEPT !.max = job.max] ELSE db.hdr
        /\ SameCopies(db, d) /\ SameNumbers(db, d)
        /\ d.late = IF op = "sync" THEN NoLate ELSE db.late
    BY <2>1 DEF SameCopies, SameNumbers
  <2> HIDE DEF d
  <2>4. /\ op' = "none" /\ job' = NoJob
        /\ \/ op = "close" /\ db' = NoHandle /\ pc' = "closed"
           \/ op # "close" /\ db' = d /\ pc' = "idle"
    BY <2>2, FoldReturnsEffect
  <2> QED BY <1>1, <1>3, <2>3, <2>4
<1> QED BY <1>2, <1>3 DEF FoldHeader, Outcomes, Goto

LEMMA RemoveReturnsEffect ==
  ASSUME ShapeInv, RemoveReturns
  PROVE  /\ pc = "remove" /\ gone = 4 /\ gone' = 0
         /\ UNCHANGED <<main, mig, side, legacy, clock, alters>>
         /\ op' = "none" /\ job' = NoJob
         /\ \/ op = "close" /\ db' = NoHandle /\ pc' = "closed"
            \/ /\ op # "close" /\ pc' = "idle" /\ db'.hdr = db.hdr /\ SameCopies(db, db')
               /\ db'.seq = db.seq /\ db'.side = db.side /\ db'.leg = db.leg /\ db'.lseq = 0
               /\ db'.late = db.late
<1> DEFINE d == [db EXCEPT !.mirrored = FALSE, !.lseq = 0]
<1>1. /\ pc = "remove" /\ gone = 4 /\ gone' = 0 /\ FoldReturns(d)
      /\ UNCHANGED <<main, mig, side, legacy, clock, alters>>
  BY DEF RemoveReturns, disk
<1>2. /\ d.hdr = db.hdr /\ SameCopies(db, d)
      /\ d.seq = db.seq /\ d.side = db.side /\ d.leg = db.leg /\ d.lseq = 0
      /\ d.late = db.late
  <2>1. DOMAIN db = HandleFields
    BY Fields DEF ShapeInv, IsHandle
  <2> QED BY <2>1 DEF HandleFields, SameCopies
<1> HIDE DEF d
<1>3. /\ op' = "none" /\ job' = NoJob
      /\ \/ op = "close" /\ db' = NoHandle /\ pc' = "closed"
         \/ op # "close" /\ db' = d /\ pc' = "idle"
  BY <1>1, FoldReturnsEffect
<1> QED BY <1>1, <1>2, <1>3

LEMMA ClearEffect ==
  ASSUME ShapeInv, Clear
  PROVE  /\ pc = "idle" /\ pc' = "fold" /\ op' = "clear" /\ Harmless(Len(db.hdr.cols))
         /\ alters < MaxAlters /\ alters' = alters + 1
         /\ UNCHANGED <<main, mig, side, legacy, gone, job, clock>>
         /\ db'.hdr.max = db.hdr.max /\ db'.hdr.total = 0 /\ db'.hdr.oldest = 0
         /\ db'.hdr.cols = db.hdr.cols /\ db'.hdr.extra = db.hdr.extra
         /\ db'.hdr.ovf = db.hdr.ovf /\ db'.hdr.first = 0 /\ IsRecord(db'.hdr)
         /\ db'.extra = db.extra /\ db'.ovf = db.ovf /\ db'.first = 0 /\ SameNumbers(db, db')
         /\ db'.late = db.late
<1> DEFINE n == NewHeader(db.hdr.max, db.hdr.cols)
           h == [n EXCEPT !.extra = db.hdr.extra, !.ovf = db.hdr.ovf]
<1>a. DOMAIN db = HandleFields
  BY Fields DEF ShapeInv, IsHandle
<1>1. /\ pc = "idle" /\ pc' = "fold" /\ op' = "clear" /\ Harmless(Len(db.hdr.cols))
      /\ alters < MaxAlters /\ alters' = alters + 1
      /\ UNCHANGED <<main, mig, side, legacy, gone, job, clock>>
      /\ db' = [db EXCEPT !.hdr = h, !.first = 0]
  BY <1>a DEF Clear, AlterCall, StartFold, Goto, disk, HandleFields
<1>2. /\ DOMAIN n = HeaderFields /\ n.max = db.hdr.max /\ n.total = 0 /\ n.oldest = 0
      /\ n.cols = db.hdr.cols /\ n.first = 0
  BY DEF NewHeader, HeaderFields
<1> HIDE DEF n
<1>3. /\ h.max = db.hdr.max /\ h.total = 0 /\ h.oldest = 0
      /\ h.cols = db.hdr.cols /\ h.extra = db.hdr.extra /\ h.ovf = db.hdr.ovf /\ h.first = 0
  BY <1>2 DEF HeaderFields
<1>4. IsRecord(h)
  BY <1>2 DEF IsRecord
<1> HIDE DEF h
<1>5. /\ db'.hdr = h /\ db'.extra = db.extra /\ db'.ovf = db.ovf /\ db'.first = 0
      /\ SameNumbers(db, db') /\ db'.late = db.late
  BY <1>a, <1>1 DEF HandleFields, SameNumbers
<1> QED BY <1>1, <1>3, <1>4, <1>5

LEMMA ResizeEffect ==
  ASSUME ShapeInv, NEW m, ResizeInPlace(m)
  PROVE  /\ pc = "idle" /\ pc' = "fold" /\ op' = "resize" /\ FastResize(m)
         /\ alters < MaxAlters /\ alters' = alters + 1
         /\ UNCHANGED <<main, mig, side, legacy, gone, clock>>
         /\ db'.hdr = [db.hdr EXCEPT !.max = m] /\ SameCopies(db, db') /\ SameNumbers(db, db')
         /\ db'.late = db.late /\ job' = [NoJob EXCEPT !.max = db.hdr.max]
<1>a. DOMAIN db = HandleFields
  BY Fields DEF ShapeInv, IsHandle
<1>1. /\ pc = "idle" /\ pc' = "fold" /\ op' = "resize" /\ FastResize(m)
      /\ alters < MaxAlters /\ alters' = alters + 1
      /\ UNCHANGED <<main, mig, side, legacy, gone, clock>>
      /\ db' = [db EXCEPT !.hdr.max = m] /\ job' = [NoJob EXCEPT !.max = db.hdr.max]
  BY DEF ResizeInPlace, StartFold, Goto, disk
<1>2. /\ db'.hdr = [db.hdr EXCEPT !.max = m] /\ SameCopies(db, db') /\ SameNumbers(db, db')
      /\ db'.late = db.late
  BY <1>a, <1>1 DEF HandleFields, SameCopies, SameNumbers
<1> QED BY <1>1, <1>2

(* A header with another capacity. *)
LEMMA ResizedHeader ==
  ASSUME NEW h, IsHeader(h), NEW m
  PROVE  LET g == [h EXCEPT !.max = m] IN
         /\ g.max = m /\ g.total = h.total /\ g.oldest = h.oldest /\ SameShape(h, g)
         /\ IsHeader(g) /\ IsRecord(g)
<1> DEFINE g == [h EXCEPT !.max = m]
<1>1. DOMAIN h = HeaderFields
  BY Fields DEF IsHeader
<1>2. g.max = m /\ g.total = h.total /\ g.oldest = h.oldest /\ SameShape(h, g)
  BY <1>1 DEF SameShape, HeaderFields
<1>3. IsHeader(g)
  BY <1>1, Fields DEF IsHeader
<1>4. IsRecord(g)
  BY <1>1 DEF IsRecord
<1> QED BY <1>2, <1>3, <1>4

(* The overflow region *)
LEMMA AppendRegionEffect ==
  ASSUME ShapeInv, NEW r, NEW name, AppendRegion(r, name)
  PROVE  \/ "regionfail" \in Env /\ UNCHANGED <<main, db, op, pc>>
         \/ /\ main'.there = main.there /\ main'.hdr = main.hdr /\ main'.data = main.data
            /\ main'.regions = Append(main.regions, r)
            /\ db'.hdr = db.hdr /\ SameCopies(db, db') /\ SameNumbers(db, db') /\ db'.late = NoLate
            /\ op' = name /\ pc' = "region"
<1>a. DOMAIN main = FileFields /\ DOMAIN db = HandleFields
  BY Fields DEF ShapeInv, IsFile, IsHandle
<1>1. \/ "regionfail" \in Env /\ UNCHANGED <<main, db, op, pc>>
      \/ /\ main' = [main EXCEPT !.regions = Append(@, r)] /\ op' = name /\ pc' = "region"
         /\ db' = [db EXCEPT !.late = NoLate]
  BY DEF AppendRegion, Outcomes, Goto
<1>2. CASE UNCHANGED <<main, db, op, pc>> /\ "regionfail" \in Env
  BY <1>2
<1>3. CASE /\ main' = [main EXCEPT !.regions = Append(@, r)] /\ op' = name /\ pc' = "region"
           /\ db' = [db EXCEPT !.late = NoLate]
  <2>1. /\ main'.there = main.there /\ main'.hdr = main.hdr /\ main'.data = main.data
        /\ main'.regions = Append(main.regions, r)
    BY <1>a, <1>3 DEF FileFields
  <2>2. db'.hdr = db.hdr /\ SameCopies(db, db') /\ SameNumbers(db, db') /\ db'.late = NoLate
    BY <1>a, <1>3 DEF HandleFields, SameCopies, SameNumbers
  <2> QED BY <1>3, <2>1, <2>2
<1> QED BY <1>1, <1>2, <1>3

LEMMA WithExtrasEffect ==
  ASSUME ShapeInv, NEW n, NEW o, NEW f
  PROVE  LET d == WithExtras(db, n, o, f) IN
         /\ d.hdr.max = db.hdr.max /\ d.hdr.total = db.hdr.total /\ d.hdr.oldest = db.hdr.oldest
         /\ d.hdr.cols = db.hdr.cols /\ d.hdr.extra = n /\ d.hdr.ovf = o /\ d.hdr.first = f
         /\ d.extra = n /\ d.ovf = o /\ d.first = f /\ SameNumbers(db, d) /\ IsRecord(d.hdr)
         /\ d.late = db.late /\ DOMAIN d = HandleFields
<1> DEFINE h == [db.hdr EXCEPT !.extra = n, !.ovf = o, !.first = f]
           d == WithExtras(db, n, o, f)
<1>a. DOMAIN db = HandleFields /\ DOMAIN db.hdr = HeaderFields
  BY Fields DEF ShapeInv, IsHandle, IsHeader
<1>1. d.hdr = h
  BY <1>a DEF WithExtras, HandleFields, HeaderFields
<1>2. /\ d.extra = n /\ d.ovf = o /\ d.first = f /\ SameNumbers(db, d)
      /\ d.late = db.late /\ DOMAIN d = HandleFields
  BY <1>a DEF WithExtras, HandleFields, SameNumbers
<1>3. /\ h.max = db.hdr.max /\ h.total = db.hdr.total /\ h.oldest = db.hdr.oldest
      /\ h.cols = db.hdr.cols /\ h.extra = n /\ h.ovf = o /\ h.first = f
  BY <1>a DEF HeaderFields
<1>4. IsRecord(h)
  BY <1>a DEF IsRecord
<1> HIDE DEF h, d
<1> QED BY <1>1, <1>2, <1>3, <1>4 DEF d

LEMMA CommitEffect ==
  ASSUME ShapeInv, CommitRegion
  PROVE  \E d :
         /\ d = WithExtras(db, Len(main.regions[Len(main.regions)].cols), Len(main.regions),
                           IF op = "add" THEN db.hdr.total ELSE db.first)
         /\ pc = "region" /\ pc' = "idle" /\ op' = "none"
         /\ UNCHANGED <<mig, side, legacy, gone, job, clock, alters>>
         /\ main'.there = main.there /\ main'.data = main.data /\ main'.regions = main.regions
         /\ main'.hdr = d.hdr \/ ("hdrfail" \in Env /\ main' = main)
         /\ db'.hdr = d.hdr /\ SameNumbers(db, db') /\ db'.late = db.late
         /\ \/ db' = d
            \/ "hdrfail" \in Env /\ op = "add" /\ SameCopies(db, db')
            \/ "hdrfail" \in Env /\ op \notin {"add", "remap"}
<1> DEFINE n == Len(main.regions)
           first == IF op = "add" THEN db.hdr.total ELSE db.first
           d == WithExtras(db, Len(main.regions[n].cols), n, first)
<1>a. DOMAIN main = FileFields /\ DOMAIN db = HandleFields
  BY Fields DEF ShapeInv, IsFile, IsHandle
<1>1. /\ pc = "region" /\ pc' = "idle" /\ op' = "none"
      /\ UNCHANGED <<mig, side, legacy, gone, job, clock, alters>>
      /\ \/ main' = [main EXCEPT !.hdr = d.hdr] /\ db' = d
         \/ /\ "hdrfail" \in Env /\ main' = main
            /\ db' = IF op = "remap" THEN d ELSE [db EXCEPT !.hdr = d.hdr]
  BY Zenon DEF CommitRegion, Goto, Outcomes
<1>2. SameNumbers(db, d) /\ d.late = db.late
  BY WithExtrasEffect
<1> HIDE DEF d
<1>3. CASE main' = [main EXCEPT !.hdr = d.hdr] /\ db' = d
  <2>1. /\ main'.there = main.there /\ main'.data = main.data /\ main'.regions = main.regions
        /\ main'.hdr = d.hdr
    BY <1>a, <1>3 DEF FileFields
  <2> QED BY <1>1, <1>2, <1>3, <2>1 DEF d
<1>4. CASE /\ "hdrfail" \in Env /\ main' = main
           /\ db' = IF op = "remap" THEN d ELSE [db EXCEPT !.hdr = d.hdr]
  <2>1. CASE op = "remap"
    BY <1>1, <1>2, <1>4, <2>1 DEF d
  <2>2. CASE op # "remap"
    <3>1. /\ db'.hdr = d.hdr /\ SameNumbers(db, db') /\ SameCopies(db, db')
          /\ db'.late = db.late
      BY <1>a, <1>4, <2>2 DEF HandleFields, SameNumbers, SameCopies
    <3> QED BY <1>1, <1>4, <2>2, <3>1 DEF d
  <2> QED BY <2>1, <2>2
<1> QED BY <1>1, <1>3, <1>4

LEMMA RemoveExtrasEffect ==
  ASSUME ShapeInv, RemoveExtras
  PROVE  /\ pc = "idle" /\ Harmless(Len(db.hdr.cols)) /\ alters < MaxAlters /\ alters' = alters + 1
         /\ UNCHANGED <<mig, side, legacy, pc, op, gone, job, clock>>
         /\ db'.hdr.max = db.hdr.max /\ db'.hdr.total = db.hdr.total
         /\ db'.hdr.oldest = db.hdr.oldest /\ db'.hdr.cols = db.hdr.cols
         /\ db'.hdr.extra = 0 /\ db'.hdr.ovf = 0 /\ db'.hdr.first = 0 /\ IsRecord(db'.hdr)
         /\ db'.extra = 0 /\ db'.ovf = 0 /\ db'.first = 0
         /\ SameNumbers(db, db') /\ db'.late = NoLate
         /\ main'.there = main.there /\ main'.data = main.data /\ main'.regions = main.regions
         /\ main'.hdr = db'.hdr \/ ("hdrfail" \in Env /\ main' = main)
<1> DEFINE d == WithExtras(db, 0, 0, 0)
<1>a. DOMAIN main = FileFields
  BY Fields DEF ShapeInv, IsFile
<1>1. /\ pc = "idle" /\ Harmless(Len(db.hdr.cols)) /\ alters < MaxAlters /\ alters' = alters + 1
      /\ UNCHANGED <<mig, side, legacy, pc, op, gone, job, clock>>
      /\ db' = [d EXCEPT !.late = NoLate]
      /\ main' = [main EXCEPT !.hdr = db'.hdr] \/ ("hdrfail" \in Env /\ main' = main)
  BY DEF RemoveExtras, AlterCall, Outcomes
<1>2. /\ main'.there = main.there /\ main'.data = main.data /\ main'.regions = main.regions
      /\ main'.hdr = db'.hdr \/ ("hdrfail" \in Env /\ main' = main)
  BY <1>a, <1>1 DEF FileFields
<1>3. /\ d.hdr.max = db.hdr.max /\ d.hdr.total = db.hdr.total /\ d.hdr.oldest = db.hdr.oldest
      /\ d.hdr.cols = db.hdr.cols /\ d.hdr.extra = 0 /\ d.hdr.ovf = 0 /\ d.hdr.first = 0
      /\ d.extra = 0 /\ d.ovf = 0 /\ d.first = 0 /\ SameNumbers(db, d) /\ IsRecord(d.hdr)
      /\ DOMAIN d = HandleFields
  BY WithExtrasEffect
<1> HIDE DEF d
<1>4. /\ db'.hdr = d.hdr /\ SameCopies(d, db') /\ SameNumbers(d, db') /\ db'.late = NoLate
  BY <1>1, <1>3 DEF HandleFields, SameCopies, SameNumbers
<1> QED BY <1>1, <1>2, <1>3, <1>4 DEF SameCopies, SameNumbers

(* The copy *)
LEMMA RewriteEffect ==
  ASSUME NEW cols, NEW m, NEW room, Rewrite(cols, m, room)
  PROVE  LET p == Plan(cols, m, room) IN
         /\ pc = "idle" /\ Harmless(Len(cols)) /\ alters < MaxAlters /\ alters' = alters + 1
         /\ UNCHANGED <<main, side, legacy, db, op, gone, clock>>
         /\ \/ mig' = NoFile /\ job' = job /\ pc' = pc
            \/ /\ mig' = NewFile(NewHeader(p.max, cols)) /\ pc' = "copy"
               /\ job'.cols = cols /\ job'.max = p.max /\ job'.buf = << >> /\ job'.written = 0
               /\ job'.k = Available(db.hdr) - p.keep /\ job'.avail = Available(db.hdr)
<1> DEFINE p == Plan(cols, m, room)
           j == [NoJob EXCEPT !.cols = cols, !.max = p.max,
                              !.k = Available(db.hdr) - p.keep, !.avail = Available(db.hdr)]
<1>1. /\ pc = "idle" /\ Harmless(Len(cols)) /\ alters < MaxAlters /\ alters' = alters + 1
      /\ UNCHANGED <<main, side, legacy, db, op, gone, clock>>
      /\ \/ mig' = NoFile /\ job' = job /\ pc' = pc
         \/ mig' = NewFile(NewHeader(p.max, cols)) /\ pc' = "copy" /\ job' = j
  BY Zenon DEF Rewrite, AlterCall, Goto
<1> HIDE DEF p
<1>2. /\ j.cols = cols /\ j.max = p.max /\ j.buf = << >> /\ j.written = 0
      /\ j.k = Available(db.hdr) - p.keep /\ j.avail = Available(db.hdr)
  BY DEF NoJob
<1> HIDE DEF j
<1> QED BY <1>1, <1>2 DEF p

(* The next record of the copy. *)
CopiedRow ==
  [ts |-> Read(main, db, job.k).ts,
   vals |-> Mapped(Read(main, db, job.k).vals, Columns(main, db), job.cols)]

LEMMA CopyEffect ==
  ASSUME ShapeInv, CopyRecord
  PROVE  /\ pc = "copy" /\ job.k < job.avail
         /\ UNCHANGED <<main, side, legacy, db, op, gone, clock, alters>>
         /\ \/ /\ mig' = mig /\ pc' = pc /\ job'.cols = job.cols /\ job'.max = job.max
               /\ job'.k = job.avail /\ job'.avail = job.avail /\ job'.written = job.written
               /\ job'.buf = << >>
            \/ Abort
            \/ \E flush \in BOOLEAN :
                 /\ Copied(Append(job.buf, CopiedRow), job.written + 1, flush)
                 /\ job'.max = job.max
<1> DEFINE old     == Read(main, db, job.k)
           row     == [old EXCEPT !.vals = Mapped(old.vals, Columns(main, db), job.cols)]
           buf     == Append(job.buf, row)
           written == job.written + 1
           flush   == Len(buf) = Rpb(Len(job.cols)) \/ job.k + 1 = job.avail
<1>a. DOMAIN job = JobFields /\ DOMAIN mig = FileFields
  BY Fields DEF ShapeInv, IsFile
<1>1. row = CopiedRow
  BY DEF Read, CopiedRow
<1>2. [old EXCEPT !.vals = Mapped(@, Columns(main, db), job.cols)] = row
  BY DEF Read
<1>3. /\ UNCHANGED <<main, side, legacy, db, op, gone, clock, alters>>
      /\ pc = "copy" /\ job.k < job.avail
      /\ \E readable \in Outcomes("unreadable"), ok \in Outcomes("copyfail") :
           IF ~readable
             THEN job' = [job EXCEPT !.k = job.avail, !.buf = << >>] /\ UNCHANGED <<mig, pc>>
           ELSE IF flush /\ ~ok
             THEN Abort
           ELSE /\ mig' = IF flush THEN [mig EXCEPT !.data = Flushed(@, buf, written)] ELSE mig
                /\ job' = [job EXCEPT !.k = @ + 1, !.written = written,
                                      !.buf = IF flush THEN << >> ELSE buf,
                                      !.oldestTs = IF job.written = 0 THEN old.ts ELSE @,
                                      !.newestTs = old.ts]
                /\ UNCHANGED pc
  BY <1>2, Zenon DEF CopyRecord
<1> HIDE DEF row, buf, written, flush, old
<1>4. CASE job' = [job EXCEPT !.k = job.avail, !.buf = << >>] /\ UNCHANGED <<mig, pc>>
  <2>1. /\ job'.cols = job.cols /\ job'.max = job.max
        /\ job'.k = job.avail /\ job'.avail = job.avail /\ job'.written = job.written
        /\ job'.buf = << >>
    BY <1>a, <1>4 DEF JobFields
  <2> QED BY <1>3, <1>4, <2>1
<1>5. CASE Abort
  BY <1>3, <1>5
<1>6. CASE /\ mig' = IF flush THEN [mig EXCEPT !.data = Flushed(@, buf, written)] ELSE mig
           /\ job' = [job EXCEPT !.k = @ + 1, !.written = written,
                                 !.buf = IF flush THEN << >> ELSE buf,
                                 !.oldestTs = IF job.written = 0 THEN old.ts ELSE @,
                                 !.newestTs = old.ts]
           /\ UNCHANGED pc
  <2>1. flush \in BOOLEAN
    BY DEF flush
  <2>2. mig' = IF flush THEN [mig EXCEPT !.data = Flushed(mig.data, buf, written)] ELSE mig
    BY <1>a, <1>6 DEF FileFields
  <2>3. /\ DOMAIN job' = DOMAIN job
        /\ job'.cols = job.cols /\ job'.k = job.k + 1 /\ job'.avail = job.avail
        /\ job'.written = written /\ job'.max = job.max
        /\ job'.buf = IF flush THEN << >> ELSE buf
    BY <1>a, <1>6 DEF JobFields
  <2>4. Copied(buf, written, flush)
    BY <1>6, <2>2, <2>3 DEF Copied
  <2>5. Copied(Append(job.buf, CopiedRow), job.written + 1, flush)
    BY <1>1, <2>4 DEF buf, written
  <2> QED BY <1>3, <2>1, <2>3, <2>5
<1> QED BY <1>3, <1>4, <1>5, <1>6

LEMMA FinalHeaderEffect ==
  ASSUME ShapeInv
  PROVE  /\ FinalHeader.max = mig.hdr.max /\ FinalHeader.total = job.written
         /\ FinalHeader.oldest = mig.hdr.oldest /\ SameShape(mig.hdr, FinalHeader)
         /\ IsRecord(FinalHeader)
<1>1. DOMAIN mig.hdr = HeaderFields
  BY Fields DEF ShapeInv, IsFile, IsHeader
<1>2. IsRecord(FinalHeader)
  BY <1>1 DEF FinalHeader, IsRecord
<1> QED BY <1>1, <1>2 DEF FinalHeader, HeaderFields, SameShape

LEMMA FinalizeEffect ==
  ASSUME ShapeInv, Finalize
  PROVE  /\ pc = "copy" /\ job.k = job.avail
         /\ UNCHANGED <<main, side, legacy, db, op, gone, clock, alters>>
         /\ \/ Abort
            \/ /\ pc' = "unlink" /\ job' = job /\ mig'.there = mig.there
               /\ mig'.data = mig.data /\ mig'.regions = mig.regions
               /\ mig'.hdr.max = mig.hdr.max /\ mig'.hdr.oldest = mig.hdr.oldest
               /\ SameShape(mig.hdr, mig'.hdr)
               /\ \/ mig'.hdr.total = job.written /\ mig'.hdr = FinalHeader
                  \/ "flushfail" \in Env /\ mig' = mig
               /\ FinalHeader' = FinalHeader
<1>a. DOMAIN mig = FileFields /\ DOMAIN mig.hdr = HeaderFields
  BY Fields DEF ShapeInv, IsFile, IsHeader
<1>1. /\ pc = "copy" /\ job.k = job.avail
      /\ UNCHANGED <<main, side, legacy, db, op, gone, clock, alters>>
      /\ \/ Abort
         \/ /\ mig' = [mig EXCEPT !.hdr = FinalHeader] \/ ("flushfail" \in Env /\ mig' = mig)
            /\ pc' = "unlink" /\ job' = job
  BY Zenon DEF Finalize, Goto, Outcomes
<1>2. CASE mig' = [mig EXCEPT !.hdr = FinalHeader] /\ pc' = "unlink" /\ job' = job
  <2>1. /\ mig'.there = mig.there /\ mig'.data = mig.data /\ mig'.regions = mig.regions
        /\ mig'.hdr = FinalHeader
    BY <1>a, <1>2 DEF FileFields
  <2>2. FinalHeader' = FinalHeader
    <3>1. /\ FinalHeader = [mig.hdr EXCEPT !.total = job.written, !.oldestTs = job.oldestTs,
                                           !.newestTs = job.newestTs]
          /\ FinalHeader' = [FinalHeader EXCEPT !.total = job.written, !.oldestTs = job.oldestTs,
                                                !.newestTs = job.newestTs]
      BY <1>2, <2>1 DEF FinalHeader
    <3> QED BY <1>a, <3>1 DEF HeaderFields
  <2> QED BY <1>1, <1>2, <2>1, <2>2, FinalHeaderEffect
<1>3. CASE "flushfail" \in Env /\ mig' = mig /\ pc' = "unlink" /\ job' = job
  BY <1>1, <1>3 DEF SameShape, FinalHeader
<1> QED BY <1>1, <1>2, <1>3

LEMMA UnlinkEffect ==
  ASSUME ShapeInv, UnlinkOriginal
  PROVE  /\ pc = "unlink" /\ pc' = "swap" /\ main' = NoFile
         /\ UNCHANGED <<mig, side, legacy, op, gone, job, clock, alters>>
         /\ db'.hdr = db.hdr /\ SameCopies(db, db') /\ SameNumbers(db, db') /\ db'.late = NoLate
         /\ FinalHeader' = FinalHeader
<1>a. DOMAIN db = HandleFields
  BY Fields DEF ShapeInv, IsHandle
<1>1. /\ pc = "unlink" /\ pc' = "swap" /\ main' = NoFile
      /\ UNCHANGED <<mig, side, legacy, op, gone, job, clock, alters>>
      /\ db' = [db EXCEPT !.late = NoLate]
  BY DEF UnlinkOriginal, Goto
<1>2. db'.hdr = db.hdr /\ SameCopies(db, db') /\ SameNumbers(db, db') /\ db'.late = NoLate
  BY <1>a, <1>1 DEF HandleFields, SameCopies, SameNumbers
<1> QED BY <1>1, <1>2 DEF FinalHeader

LEMMA SwapEffect ==
  ASSUME ShapeInv, SwapIn
  PROVE  /\ pc = "swap" /\ job' = NoJob /\ UNCHANGED <<side, legacy, op, gone, clock, alters>>
         /\ \/ UNCHANGED <<main, mig>> /\ db' = NoHandle /\ pc' = "closed"
            \/ main' = mig /\ mig' = NoFile /\ db' = NoHandle /\ pc' = "closed"
            \/ /\ main' = mig /\ mig' = NoFile /\ pc' = "idle"
               /\ db'.hdr = FinalHeader /\ db'.extra = 0 /\ db'.ovf = 0 /\ db'.first = 0
               /\ SameNumbers(db, db') /\ db'.late = db.late
<1>a. DOMAIN db = HandleFields
  BY Fields DEF ShapeInv, IsHandle
<1>1. /\ pc = "swap" /\ job' = NoJob /\ UNCHANGED <<side, legacy, op, gone, clock, alters>>
      /\ \/ UNCHANGED <<main, mig>> /\ db' = NoHandle /\ pc' = "closed"
         \/ main' = mig /\ mig' = NoFile /\ db' = NoHandle /\ pc' = "closed"
         \/ /\ main' = mig /\ mig' = NoFile /\ pc' = "idle"
            /\ db' = [db EXCEPT !.hdr = FinalHeader, !.extra = 0, !.ovf = 0, !.first = 0]
  BY Zenon DEF SwapIn, Goto
<1>2. CASE db' = [db EXCEPT !.hdr = FinalHeader, !.extra = 0, !.ovf = 0, !.first = 0]
  <2>1. /\ db'.hdr = FinalHeader /\ db'.extra = 0 /\ db'.ovf = 0 /\ db'.first = 0
        /\ SameNumbers(db, db') /\ db'.late = db.late
    BY <1>a, <1>2 DEF HandleFields, SameNumbers
  <2> QED BY <1>1, <2>1
<1> QED BY <1>1, <1>2

LEMMA NoJobEffect ==
  /\ NoJob.k = 0 /\ NoJob.avail = 0 /\ NoJob.written = 0 /\ NoJob.buf = << >> /\ NoJob.max = 0
  /\ \A m : LET j == [NoJob EXCEPT !.max = m] IN
       j.k = 0 /\ j.avail = 0 /\ j.written = 0 /\ j.buf = << >> /\ j.max = m
  BY DEF NoJob

-----------------------------------------------------------------------------
(* Sequences and arithmetic *)

LEMMA EmptySeq == IsSeq(<< >>) /\ Len(<< >>) = 0
  BY DEF IsSeq, Elements

LEMMA SeqFacts ==
  ASSUME NEW s, IsSeq(s)
  PROVE  Len(s) \in Nat /\ DOMAIN s = 1 .. Len(s) /\ s \in [1 .. Len(s) -> Elements(s)]
<1> DEFINE S == Elements(s)
<1>1. s \in Seq(S)
  BY DEF IsSeq
<1> HIDE DEF S
<1> QED BY <1>1 DEF S

(* A function on 1 .. n is a sequence. *)
LEMMA FunctionIsSeq ==
  ASSUME NEW n \in Nat, NEW t, t = [i \in 1 .. n |-> t[i]]
  PROVE  IsSeq(t) /\ Len(t) = n
<1> DEFINE S == Elements(t)
<1>1. t \in [1 .. n -> S]
  BY DEF Elements
<1> HIDE DEF S
<1>2. t \in Seq(S) /\ Len(t) = n
  BY <1>1
<1> QED BY <1>2 DEF S, IsSeq

LEMMA AppendSeq ==
  ASSUME NEW s, IsSeq(s), NEW x
  PROVE  LET t == Append(s, x) IN
         /\ IsSeq(t) /\ Len(t) = Len(s) + 1
         /\ \A i \in 1 .. Len(s) + 1 : t[i] = IF i = Len(s) + 1 THEN x ELSE s[i]
<1> DEFINE S == Elements(s) \cup {x}
           n == Len(s)
           t == Append(s, x)
<1>1. n \in Nat /\ s \in [1 .. n -> Elements(s)]
  BY SeqFacts
<1>2. s \in [1 .. n -> S] /\ x \in S
  BY <1>1
<1> HIDE DEF S
<1>3. s \in Seq(S)
  BY <1>1, <1>2
<1>4. /\ t \in Seq(S) /\ Len(t) = n + 1
      /\ \A i \in 1 .. n + 1 : t[i] = IF i = n + 1 THEN x ELSE s[i]
  BY <1>1, <1>2, <1>3
<1> HIDE DEF t, n
<1>6. IsSeq(t)
  <2> DEFINE m == n + 1
  <2>1. m \in Nat /\ t \in Seq(S) /\ Len(t) = m
    BY <1>1, <1>4
  <2> HIDE DEF m
  <2>2. t \in [1 .. m -> S]
    BY <2>1
  <2>3. t = [i \in 1 .. m |-> t[i]]
    BY <2>2
  <2> QED BY <2>1, <2>3, FunctionIsSeq
<1> QED BY <1>4, <1>6 DEF t, n

LEMMA UpdateSeq ==
  ASSUME NEW s, IsSeq(s), NEW t, DOMAIN t = DOMAIN s, t = [i \in DOMAIN t |-> t[i]]
  PROVE  IsSeq(t) /\ Len(t) = Len(s)
<1>1. Len(s) \in Nat /\ DOMAIN s = 1 .. Len(s)
  BY SeqFacts
<1>2. t = [i \in 1 .. Len(s) |-> t[i]]
  BY <1>1
<1> QED BY <1>1, <1>2, FunctionIsSeq

(* A copy that does not fit is trimmed to less than it wanted. *)
LEMMA TrimIsLess ==
  ASSUME NEW a \in Nat, NEW r \in Nat, NEW room \in Nat, ~(CeilDiv(a, r) <= room)
  PROVE  room * r \in Nat /\ room * r < a
<1>1. r # 0
  BY DEF CeilDiv
<1> DEFINE n == (a + r) - 1
           q == n \div r
<1>2. n \in Nat /\ r \in Nat \ {0}
  BY <1>1
<1>3. q \in Nat /\ r * q <= n
  BY <1>2
<1>4. q >= room + 1
  <2>1. CeilDiv(a, r) = q
    BY <1>1 DEF CeilDiv
  <2> QED BY <1>3, <2>1
<1>5. n = (a + r) - 1
  OBVIOUS
<1> HIDE DEF q, n
<1>6. r * q >= r * (room + 1)
  BY <1>2, <1>3, <1>4
<1>7. r * (room + 1) = room * r + r /\ room * r \in Nat /\ r * q \in Nat
  BY <1>2, <1>3
<1> QED BY <1>2, <1>3, <1>5, <1>6, <1>7

LEMMA AvailableRange ==
  ASSUME NEW h, InRange(h)
  PROVE  Available(h) \in Nat /\ Available(h) <= MaxSlots /\ Available(h) <= h.total
  BY MaxSlotsAssumption DEF InRange, Available, Unlimited

LEMMA RpbNat ==
  ASSUME NEW w \in Nat
  PROVE  Rpb(w) \in Nat
<1>1. 4 + 2 * w \in Nat \ {0} /\ BlockSpace \in Nat
  BY SchemaAssumption
<1> QED BY <1>1 DEF Rpb

LEMMA PlanRange ==
  ASSUME InRange(db.hdr), NEW m \in 0 .. MaxSlots, NEW room \in Nat, NEW cols, Len(cols) \in Nat
  PROVE  LET p == Plan(cols, m, room) IN
         p.keep \in 0 .. Available(db.hdr) /\ p.max \in 0 .. MaxSlots
<1> DEFINE n    == Available(db.hdr)
           want == IF m > 0 /\ n > m THEN m ELSE n
           r    == Rpb(Len(cols))
           fit  == room * r
<1>1. n \in Nat /\ n <= MaxSlots
  BY AvailableRange
<1>2. want \in Nat /\ want <= n
  BY <1>1, MaxSlotsAssumption
<1>3. r \in Nat
  BY RpbNat
<1>4. Plan(cols, m, room) = IF CeilDiv(want, r) <= room THEN [keep |-> want, max |-> m]
                                                          ELSE [keep |-> fit, max |-> fit]
  BY DEF Plan
<1> HIDE DEF n, want, r
<1>5. CASE CeilDiv(want, r) <= room
  BY <1>1, <1>2, <1>4, <1>5 DEF n
<1>6. CASE ~(CeilDiv(want, r) <= room)
  <2>1. fit \in Nat /\ fit < want
    BY <1>2, <1>3, <1>6, TrimIsLess
  <2> HIDE DEF fit
  <2>2. fit \in 0 .. n /\ fit \in 0 .. MaxSlots
    BY <1>1, <1>2, <2>1, MaxSlotsAssumption
  <2> QED BY <1>4, <1>6, <2>2 DEF n
<1> QED BY <1>5, <1>6

LEMMA ConcatSeq ==
  ASSUME NEW s, IsSeq(s), NEW t, IsSeq(t)
  PROVE  LET u == s \o t IN
         /\ IsSeq(u) /\ Len(u) = Len(s) + Len(t)
         /\ \A i \in 1 .. Len(s) + Len(t) : u[i] = IF i <= Len(s) THEN s[i] ELSE t[i - Len(s)]
<1> DEFINE S == Elements(s) \cup Elements(t)
           m == Len(s)
           n == Len(t)
           u == s \o t
<1>1. /\ m \in Nat /\ s \in [1 .. m -> Elements(s)]
      /\ n \in Nat /\ t \in [1 .. n -> Elements(t)]
  BY SeqFacts
<1>2. s \in [1 .. m -> S] /\ t \in [1 .. n -> S]
  BY <1>1
<1> HIDE DEF S
<1>3. s \in Seq(S) /\ t \in Seq(S)
  BY <1>1, <1>2
<1>4. /\ u \in Seq(S) /\ Len(u) = m + n
      /\ \A i \in 1 .. m + n : u[i] = IF i <= m THEN s[i] ELSE t[i - m]
  BY <1>1, <1>2, <1>3
<1> HIDE DEF u, m, n
<1>5. IsSeq(u)
  <2> DEFINE k == m + n
  <2>1. k \in Nat /\ u \in Seq(S) /\ Len(u) = k
    BY <1>1, <1>4
  <2> HIDE DEF k
  <2>2. u \in [1 .. k -> S]
    BY <2>1
  <2>3. u = [i \in 1 .. k |-> u[i]]
    BY <2>2
  <2> QED BY <2>1, <2>3, FunctionIsSeq
<1> QED BY <1>4, <1>5 DEF u, m, n

LEMMA PrefixSeq ==
  ASSUME NEW s, IsSeq(s), NEW n \in Nat, n <= Len(s)
  PROVE  LET u == SubSeq(s, 1, n) IN
         IsSeq(u) /\ Len(u) = n /\ \A i \in 1 .. n : u[i] = s[i]
<1> DEFINE S == Elements(s)
           u == SubSeq(s, 1, n)
<1>1. Len(s) \in Nat /\ s \in Seq(S) /\ s \in [1 .. Len(s) -> S]
  BY SeqFacts DEF IsSeq
<1> HIDE DEF S
<1>2. u = [i \in 1 .. n |-> s[i]]
  BY <1>1
<1> HIDE DEF u
<1>3. u = [i \in 1 .. n |-> u[i]]
  BY <1>2
<1> QED BY <1>2, <1>3, FunctionIsSeq DEF u

-----------------------------------------------------------------------------
(* The valid slots *)

NewSlots == {ValidSlot(db.seq + 1, db.lseq, WrittenHeader), ValidSlot(db.seq + 1, 0, WrittenHeader)}

LEMMA WriteValid ==
  ASSUME ShapeInv, Write
  PROVE  Valid' \subseteq Valid \cup NewSlots
<1> DEFINE a == ValidSlot(db.seq + 1, db.lseq, WrittenHeader)
           b == ValidSlot(db.seq + 1, 0, WrittenHeader)
<1>1. /\ side' = [side EXCEPT ![Other(db.side)] = a]
      /\ legacy' = IF Mirrors THEN [legacy EXCEPT ![Other(db.leg)] = b] ELSE legacy
  BY WriteEffect
<1>2. DOMAIN side = {0, 1} /\ DOMAIN legacy = {0, 1}
  BY DEF ShapeInv, IsSlots
<1> HIDE DEF a, b
<1>3. \A n \in {0, 1} : side'[n] \in {side[n], a} /\ legacy'[n] \in {legacy[n], b}
  BY <1>1, <1>2
<1> QED BY <1>3 DEF Valid, NewSlots, a, b

LEMMA RemoveValid ==
  ASSUME ShapeInv, RemoveSlot
  PROVE  Valid' \subseteq Valid
<1>1. \/ side' = [side EXCEPT ![gone] = NoSlot] /\ legacy' = legacy
      \/ legacy' = [legacy EXCEPT ![gone - 2] = NoSlot] /\ side' = side
  BY DEF RemoveSlot
<1>2. DOMAIN side = {0, 1} /\ DOMAIN legacy = {0, 1}
  BY DEF ShapeInv, IsSlots
<1>3. ~NoSlot.ok
  BY DEF NoSlot
<1>4. \A n \in {0, 1} : side'[n] \in {side[n], NoSlot} /\ legacy'[n] \in {legacy[n], NoSlot}
  BY <1>1, <1>2
<1> QED BY <1>3, <1>4 DEF Valid

LEMMA SlotsKept ==
  ASSUME UNCHANGED <<side, legacy>>
  PROVE  Valid' = Valid
  BY DEF Valid

(* What tsdb_sidecar_load hands out is the header of a valid slot. *)
LEMMA LoadedIsValid ==
  ASSUME LoadFound(side, legacy)
  PROVE  \E x \in Valid : LoadedHeader(side, legacy) = x.hdr
<1>1. CASE UseCompact(side, legacy)
  <2>1. side[Newest(side)].ok /\ Newest(side) \in {0, 1}
    BY <1>1 DEF UseCompact, Found, Newest
  <2> QED BY <1>1, <2>1 DEF Valid, LoadedHeader
<1>2. CASE ~UseCompact(side, legacy)
  <2>1. legacy[Newest(legacy)].ok /\ Newest(legacy) \in {0, 1}
    BY <1>2 DEF LoadFound, Found, Newest
  <2> QED BY <1>2, <2>1 DEF Valid, LoadedHeader
<1> QED BY <1>1, <1>2

LEMMA ValidShape ==
  ASSUME ShapeInv
  PROVE  \A x \in Valid : x.ok /\ IsHeader(x.hdr)
  BY DEF ShapeInv, IsSlots, Valid

(* The header a handle is opened with: the file's, or a slot's with the    *)
(* names of the file.                                                      *)
LEMMA OpenedFrom ==
  ASSUME ShapeInv, NEW f
  PROVE  LET h == OpenedHandle(f).hdr IN
         \/ h = f.hdr /\ ~AdoptsSidecar(f.hdr)
         \/ \E x \in Valid :
              /\ Same(x, f) /\ AdoptsSidecar(f.hdr) /\ x.hdr = LoadedHeader(side, legacy)
              /\ h = x.hdr \/ h = [x.hdr EXCEPT !.cols = f.hdr.cols]
              /\ h.max = x.hdr.max /\ h.total = x.hdr.total /\ h.oldest = x.hdr.oldest
              /\ h.extra = x.hdr.extra /\ h.ovf = x.hdr.ovf /\ h.first = x.hdr.first
              /\ h.cols \in {x.hdr.cols, f.hdr.cols}
<1> DEFINE h == OpenedHandle(f).hdr
<1>1. CASE ~AdoptsSidecar(f.hdr)
  BY <1>1, OpenedEffect
<1>2. CASE AdoptsSidecar(f.hdr)
  <2>1. h = SidecarHeader(f.hdr)
    BY <1>2, OpenedEffect
  <2>2. PICK x \in Valid : LoadedHeader(side, legacy) = x.hdr
    BY <1>2, LoadedIsValid DEF AdoptsSidecar, Adopts
  <2>3. Same(x, f)
    BY <1>2, <2>2 DEF AdoptsSidecar, Same
  <2>4. h = x.hdr \/ h = [x.hdr EXCEPT !.cols = f.hdr.cols]
    BY <2>1, <2>2 DEF SidecarHeader
  <2>5. DOMAIN x.hdr = HeaderFields
    BY ValidShape, Fields DEF IsHeader
  <2> HIDE DEF h
  <2>6. /\ h.max = x.hdr.max /\ h.total = x.hdr.total /\ h.oldest = x.hdr.oldest
        /\ h.extra = x.hdr.extra /\ h.ovf = x.hdr.ovf /\ h.first = x.hdr.first
        /\ h.cols \in {x.hdr.cols, f.hdr.cols}
    BY <2>4, <2>5 DEF HeaderFields
  <2> QED BY <1>2, <2>2, <2>3, <2>4, <2>6 DEF h
<1> QED BY <1>1, <1>2

-----------------------------------------------------------------------------
(* Regions and columns *)

RegionFields == {"cols", "intact", "cells"}

LEMMA RegionFacts ==
  /\ DOMAIN Region(<< >>, << >>) = RegionFields
  /\ \A cols, cells : LET r == Region(cols, cells) IN
       DOMAIN r = RegionFields /\ r.cols = cols /\ r.intact = TRUE /\ r.cells = cells
  BY DEF Region, RegionFields

AllRegions(s) == IsSeq(s) /\ \A i \in 1 .. Len(s) : IsRegion(s[i])

(* The regions t are the regions s with b in place o. *)
ReplacedBy(s, t, o, b) ==
  /\ IsSeq(t) /\ Len(t) = Len(s)
  /\ \A i \in 1 .. Len(s) :
       /\ IsRegion(t[i]) /\ t[i].cols = s[i].cols
       /\ t[i] = IF i = o THEN b ELSE s[i]

(* One region is replaced by another. *)
LEMMA RegionReplaced ==
  ASSUME NEW s, AllRegions(s), NEW o, NEW b, IsRegion(b), b.cols = s[o].cols,
         NEW t, t = [s EXCEPT ![o] = b]
  PROVE  ReplacedBy(s, t, o, b)
<1> USE DEF AllRegions, ReplacedBy
<1>1. Len(s) \in Nat /\ DOMAIN s = 1 .. Len(s)
  BY SeqFacts
<1>2. s = [i \in DOMAIN s |-> s[i]]
  BY SeqFacts
<1>3. DOMAIN t = DOMAIN s /\ t = [i \in DOMAIN t |-> t[i]]
  BY <1>2
<1>4. IsSeq(t) /\ Len(t) = Len(s)
  BY <1>3, UpdateSeq
<1>5. \A i \in DOMAIN s : t[i] = IF i = o THEN b ELSE s[i]
  BY <1>2
<1> QED BY <1>1, <1>4, <1>5

LEMMA RegionsWithEffect ==
  ASSUME NEW s, IsSeq(s), \A i \in 1 .. Len(s) : IsRegion(s[i]), NEW n
  PROVE  LET t == RegionsWith(s, n) IN
         /\ IsSeq(t) /\ Len(t) = Len(s)
         /\ \A i \in 1 .. Len(s) :
              /\ IsRegion(t[i]) /\ t[i].cols = s[i].cols
              /\ t[i] = s[i] \/ /\ i = db.ovf /\ db.extra # 0
                                /\ t[i].intact = (s[i].intact /\ ~Grows)
                                /\ t[i].cells = CellsWith(s[i], n)
<1> DEFINE t == RegionsWith(s, n)
           o == db.ovf
           r == s[o]
           e == CellsWith(r, n)
           a == [r EXCEPT !.intact = @ /\ ~Grows]
           b == [a EXCEPT !.cells = e]
<1>1. Len(s) \in Nat /\ DOMAIN s = 1 .. Len(s) /\ s \in [1 .. Len(s) -> Elements(s)]
  BY SeqFacts
<1>2. CASE db.extra = 0
  <2>1. t = s
    BY <1>2 DEF RegionsWith
  <2> QED BY <2>1
<1>3. CASE db.extra # 0
  <2>1. t = [s EXCEPT ![o].intact = @ /\ ~Grows, ![o].cells = e]
    BY <1>3 DEF RegionsWith
  <2> HIDE DEF t
  <2>2. CASE o \notin DOMAIN s
    <3>1. t = s
      BY <1>1, <2>1, <2>2
    <3> QED BY <3>1 DEF t
  <2>3. CASE o \in DOMAIN s
    <3>1. DOMAIN r = RegionFields /\ IsSeq(r.cols)
      BY <1>1, <2>3, RegionFacts DEF IsRegion
    <3>2. DOMAIN a = RegionFields /\ a.cols = r.cols /\ a.cells = r.cells
          /\ a.intact = (r.intact /\ ~Grows)
      BY <3>1 DEF RegionFields
    <3>3. t = [s EXCEPT ![o] = b]
      BY <1>1, <2>1, <2>3
    <3> HIDE DEF a, r, e
    <3>4. DOMAIN b = RegionFields /\ b.cols = r.cols /\ b.intact = (r.intact /\ ~Grows)
          /\ b.cells = e
      BY <3>2 DEF RegionFields
    <3> HIDE DEF b
    <3>5. IsRegion(b)
      BY <3>1, <3>4, RegionFacts DEF IsRegion
    <3>6. /\ IsSeq(t) /\ Len(t) = Len(s)
          /\ \A i \in 1 .. Len(s) :
               /\ IsRegion(t[i]) /\ t[i].cols = s[i].cols
               /\ t[i] = IF i = o THEN b ELSE s[i]
      <4>1. DOMAIN t = DOMAIN s /\ t = [i \in DOMAIN t |-> t[i]]
        BY <3>3
      <4>2. IsSeq(t) /\ Len(t) = Len(s)
        BY <4>1, UpdateSeq
      <4>3. \A i \in DOMAIN s : t[i] = IF i = o THEN b ELSE s[i]
        BY <3>3
      <4> QED BY <1>1, <3>4, <3>5, <4>2, <4>3 DEF r
    <3> QED BY <1>3, <3>4, <3>6 DEF t, r, e
  <2> QED BY <2>2, <2>3
<1> QED BY <1>2, <1>3

(* The regions t are the regions s but for the late cell of handle d. *)
CellApart(s, t, d) ==
  /\ IsSeq(t) /\ Len(t) = Len(s)
  /\ \A i \in 1 .. Len(s) :
       /\ IsRegion(t[i]) /\ t[i].cols = s[i].cols
       /\ t[i] = s[i] \/ /\ d.late # NoLate /\ i = d.ovf
                         /\ t[i].intact = s[i].intact
                         /\ t[i].cells = [s[i].cells EXCEPT ![d.late.at] = d.late.was]

(* A power cut changes nothing of a region but a cell. *)
LEMMA LostRegions ==
  ASSUME NEW f, IsFile(f), IsSeq(f.regions), \A i \in 1 .. Len(f.regions) : IsRegion(f.regions[i]),
         NEW d
  PROVE  CellApart(f.regions, Lost(f, d).regions, d)
<1> DEFINE s == f.regions
           t == Lost(f, d).regions
           o == d.ovf
           r == s[o]
           e == [r.cells EXCEPT ![d.late.at] = d.late.was]
           b == [r EXCEPT !.cells = e]
<1>1. t = IF d.late = NoLate THEN s ELSE [s EXCEPT ![o].cells[d.late.at] = d.late.was]
  BY LostShape
<1>2. DOMAIN s = 1 .. Len(s) /\ Len(s) \in Nat
  BY SeqFacts
<1> HIDE DEF t, s
<1>3. CASE d.late = NoLate
  <2>1. t = s
    BY <1>1, <1>3
  <2> QED BY <2>1 DEF CellApart, s, t
<1>4. CASE d.late # NoLate
  <2>1. t = [s EXCEPT ![o] = b]
    BY <1>1, <1>4
  <2>2. CASE o \notin DOMAIN s
    <3>1. t = s
      <4>1. s = [i \in DOMAIN s |-> s[i]]
        BY SeqFacts DEF s
      <4> QED BY <2>1, <2>2, <4>1
    <3> QED BY <3>1 DEF CellApart, s, t
  <2>3. CASE o \in DOMAIN s
    <3>1. DOMAIN r = RegionFields /\ IsSeq(r.cols)
      BY <1>2, <2>3, RegionFacts DEF IsRegion, s
    <3> HIDE DEF r, e
    <3>2. DOMAIN b = RegionFields /\ b.cols = r.cols /\ b.intact = r.intact /\ b.cells = e
      BY <3>1 DEF RegionFields
    <3> HIDE DEF b
    <3>3. IsRegion(b)
      BY <3>1, <3>2, RegionFacts DEF IsRegion
    <3>4. ReplacedBy(s, t, o, b)
      <4>1. AllRegions(s)
        BY DEF AllRegions, s
      <4>2. b.cols = s[o].cols
        BY <3>2 DEF r
      <4> QED BY <2>1, <3>3, <4>1, <4>2, RegionReplaced
    <3> QED BY <1>4, <3>2, <3>4 DEF CellApart, ReplacedBy, r, e, s, t
  <2> QED BY <2>2, <2>3
<1> QED BY <1>3, <1>4

LEMMA ColumnsSeq ==
  ASSUME NEW f, NEW d, IsSeq(d.hdr.cols), ExtrasIn(d.extra, d.ovf, f),
         \A i \in 1 .. Len(f.regions) : IsRegion(f.regions[i])
  PROVE  /\ IsSeq(Columns(f, d)) /\ Len(Columns(f, d)) = Len(d.hdr.cols) + d.extra
         /\ \A i \in 1 .. Len(d.hdr.cols) : Columns(f, d)[i] = d.hdr.cols[i]
         /\ \A i \in 1 .. d.extra :
              Columns(f, d)[Len(d.hdr.cols) + i] =
                IF f.regions[d.ovf].intact THEN f.regions[d.ovf].cols[i] ELSE Garbage
<1> DEFINE c == d.hdr.cols
           r == f.regions[d.ovf]
           e == IF d.extra = 0 THEN << >> ELSE SubSeq(ExtraNames(r), 1, d.extra)
<1>1. Len(c) \in Nat
  BY SeqFacts
<1>2. /\ IsSeq(e) /\ Len(e) = d.extra
      /\ \A i \in 1 .. d.extra : e[i] = IF r.intact THEN r.cols[i] ELSE Garbage
  <2>1. CASE d.extra = 0
    BY <2>1, EmptySeq
  <2>2. CASE d.extra # 0
    <3>1. d.extra \in Nat /\ d.ovf \in 1 .. Len(f.regions) /\ d.extra <= Len(r.cols)
      BY <2>2 DEF ExtrasIn
    <3>2. IsSeq(r.cols)
      BY <3>1 DEF IsRegion
    <3> DEFINE x == ExtraNames(r)
    <3>3. Len(r.cols) \in Nat /\ DOMAIN r.cols = 1 .. Len(r.cols)
      BY <3>2, SeqFacts
    <3>4. x = [i \in 1 .. Len(r.cols) |-> IF r.intact THEN r.cols[i] ELSE Garbage]
      BY <3>3 DEF ExtraNames
    <3> HIDE DEF x
    <3>5. x = [i \in 1 .. Len(r.cols) |-> x[i]]
      BY <3>4
    <3>6. IsSeq(x) /\ Len(x) = Len(r.cols)
      BY <3>3, <3>5, FunctionIsSeq
    <3>7. IsSeq(SubSeq(x, 1, d.extra)) /\ Len(SubSeq(x, 1, d.extra)) = d.extra
          /\ \A i \in 1 .. d.extra : SubSeq(x, 1, d.extra)[i] = x[i]
      BY <3>1, <3>6, PrefixSeq
    <3>8. e = SubSeq(x, 1, d.extra)
      BY <2>2 DEF x
    <3>9. \A i \in 1 .. d.extra : i \in 1 .. Len(r.cols)
      BY <3>1, <3>3
    <3> HIDE DEF e, r
    <3> QED BY <3>4, <3>7, <3>8, <3>9
  <2> QED BY <2>1, <2>2
<1>3. Columns(f, d) = c \o e
  BY DEF Columns
<1> HIDE DEF e, c
<1>4. /\ IsSeq(c \o e) /\ Len(c \o e) = Len(c) + Len(e)
      /\ \A i \in 1 .. Len(c) + Len(e) : (c \o e)[i] = IF i <= Len(c) THEN c[i] ELSE e[i - Len(c)]
  BY <1>2, ConcatSeq DEF c
<1>5. d.extra \in Nat
  BY DEF ExtrasIn
<1>6. \A i \in 1 .. Len(c) : (c \o e)[i] = c[i]
  BY <1>1, <1>2, <1>4, <1>5
<1>7. \A i \in 1 .. d.extra : (c \o e)[Len(c) + i] = e[i]
  <2> SUFFICES ASSUME NEW i \in 1 .. d.extra PROVE (c \o e)[Len(c) + i] = e[i]
    OBVIOUS
  <2>1. Len(c) + i \in 1 .. Len(c) + Len(e) /\ ~(Len(c) + i <= Len(c)) /\ (Len(c) + i) - Len(c) = i
    BY <1>1, <1>2, <1>5
  <2> QED BY <1>4, <2>1
<1> QED BY <1>2, <1>3, <1>4, <1>6, <1>7 DEF c

-----------------------------------------------------------------------------
(* Steps on the numbers *)

LEMMA ConfigSeqs ==
  \A s \in {ConfigCols} \cup Schemas \cup ExtraCols : IsSeq(s)
  BY SchemaAssumption DEF IsSeq

LEMMA NewInRange ==
  ASSUME NEW m \in 0 .. MaxSlots, NEW cols
  PROVE  InRange(NewHeader(m, cols))
<1> DEFINE h == NewHeader(m, cols)
<1>1. h.max = m /\ h.total = 0 /\ h.oldest = 0
  BY NewHeaderEffect
<1> HIDE DEF h
<1> QED BY <1>1, MaxSlotsAssumption DEF InRange, h

(* A header with the same numbers. *)
LEMMA SameInRange ==
  ASSUME NEW h, InRange(h), NEW g, g.max = h.max, g.total = h.total, g.oldest = h.oldest
  PROVE  InRange(g)
  BY DEF InRange

LEMMA NoHandleRange == InRange(NoHandle.hdr) /\ InRange(NoFile.hdr)
<1>1. NoHandle.hdr = NewHeader(0, << >>) /\ NoFile.hdr = NewHeader(0, << >>)
  BY NewHandleEffect, NoFileEffect DEF NoHandle
<1>2. 0 \in 0 .. MaxSlots
  BY MaxSlotsAssumption
<1> QED BY <1>1, <1>2, NewInRange

LEMMA WrittenInRange ==
  ASSUME ShapeInv, InRange(db.hdr), Write
  PROVE  InRange(WrittenHeader)
<1> DEFINE h == db.hdr
           g == WrittenHeader
<1>1. /\ g.max = h.max /\ g.total = h.total + 1
      /\ g.oldest = IF IsEviction(h) THEN (h.oldest + 1) % h.max ELSE h.oldest
  BY AdvancedEffect DEF ShapeInv, IsHandle, WrittenHeader
<1>2. h.total < (IF Unlimited(h) THEN MaxSlots ELSE 2 * h.max)
  BY WriteEffect
<1>3. /\ h.max \in 0 .. MaxSlots /\ h.total \in Nat /\ h.oldest \in Nat
      /\ h.max = 0 => h.total <= MaxSlots /\ h.oldest = 0
      /\ h.max > 0 => h.oldest < h.max
  BY DEF InRange
<1> HIDE DEF h, g
<1>4. CASE h.max = 0
  BY <1>1, <1>2, <1>3, <1>4, MaxSlotsAssumption DEF InRange, g, Unlimited, IsEviction
<1>5. CASE h.max > 0
  <2>1. h.max \in Nat \ {0} /\ h.oldest + 1 \in Nat
    BY <1>3, <1>5, MaxSlotsAssumption
  <2>2. ((h.oldest + 1) % h.max) \in 0 .. h.max - 1
    BY <2>1
  <2>3. g.oldest \in Nat /\ g.oldest < h.max
    <3> DEFINE r == (h.oldest + 1) % h.max
    <3>1. r \in 0 .. h.max - 1 /\ g.oldest = IF IsEviction(h) THEN r ELSE h.oldest
      BY <1>1, <2>2
    <3> HIDE DEF r
    <3> QED BY <1>3, <1>5, <2>1, <3>1
  <2>4. g.total \in Nat /\ g.max \in 0 .. MaxSlots /\ g.max > 0
    BY <1>1, <1>3, <1>5, MaxSlotsAssumption
  <2>5. g.max # 0 /\ g.oldest < g.max
    BY <1>1, <1>3, <1>5, <2>1, <2>3
  <2> QED BY <2>3, <2>4, <2>5 DEF InRange, g
<1> QED BY <1>3, <1>4, <1>5, MaxSlotsAssumption

(* Headers that come from the ones before, and no resize to take back. *)
LEMMA HeadersKept ==
  ASSUME HeaderRange, InRange(main'.hdr), InRange(mig'.hdr), InRange(db'.hdr),
         \A x \in Valid' : x \in Valid \/ InRange(x.hdr),
         pc' # "fold" \/ op' # "resize",
         pc' \notin {"unlink", "swap"} \/ InRange(FinalHeader')
  PROVE  HeaderRange'
  BY DEF HeaderRange

LEMMA NoJobRange ==
  ASSUME job' = NoJob
  PROVE  JobRange'
  BY NoJobEffect, EmptySeq, MaxSlotsAssumption DEF JobRange

LEMMA JobKept ==
  ASSUME JobRange, UNCHANGED job
  PROVE  JobRange'
  BY DEF JobRange

(* The steps outside the copy. *)
LEMMA RangeStepOpen ==
  ASSUME ShapeInv, RangeInv, Recover \/ CreateFile \/ OpenExisting \/ Crash
  PROVE  RangeInv'
<1>a. /\ InRange(main.hdr) /\ InRange(mig.hdr) /\ InRange(db.hdr)
      /\ \A x \in Valid : InRange(x.hdr)
  BY DEF RangeInv, HeaderRange
<1>b. CreateDatabase => /\ InRange(main'.hdr) /\ InRange(db'.hdr) /\ Valid' = {} /\ pc' = "idle"
  <2> SUFFICES ASSUME CreateDatabase
               PROVE  InRange(main'.hdr) /\ InRange(db'.hdr) /\ Valid' = {} /\ pc' = "idle"
    OBVIOUS
  <2>1. InRange(NewHeader(ConfigMax, ConfigCols))
    BY NewInRange, SchemaAssumption
  <2> QED BY <2>1, CreatedEffect, NoFileEffect, NewHandleEffect
<1>1. CASE Recover
  <2>1. pc = "closed" /\ UNCHANGED <<op, gone, job, clock, alters>>
    BY <1>1 DEF Recover
  <2>2. \/ mig' = NoFile /\ UNCHANGED <<main, side, legacy, db, pc>>
        \/ main' = mig /\ mig' = NoFile /\ UNCHANGED <<side, legacy, db, pc>>
        \/ CreateDatabase /\ mig' = mig
    BY <1>1 DEF Recover
  <2>3. InRange(main'.hdr) /\ InRange(mig'.hdr) /\ InRange(db'.hdr)
        /\ (\A x \in Valid' : x \in Valid) /\ pc' \in {"closed", "idle"}
    BY <1>a, <1>b, <2>1, <2>2, NoHandleRange, SlotsKept
  <2>4. HeaderRange'
    BY <2>3, HeadersKept DEF RangeInv
  <2> QED BY <2>1, <2>3, <2>4, JobKept DEF RangeInv, CallRange
<1>2. CASE CreateFile
  <2>1. pc = "closed" /\ CreateDatabase /\ UNCHANGED <<mig, op, gone, job, clock, alters>>
    BY <1>2 DEF CreateFile
  <2>2. HeaderRange'
    BY <1>a, <1>b, <2>1, HeadersKept DEF RangeInv
  <2> QED BY <1>b, <2>1, <2>2, JobKept DEF RangeInv, CallRange
<1>3. CASE OpenExisting
  <2>1. /\ pc = "closed" /\ pc' = "idle" /\ db' = OpenedHandle(main)
        /\ UNCHANGED <<main, mig, side, legacy, op, gone, job, clock, alters>>
    BY <1>3 DEF OpenExisting, Goto, disk
  <2>2. InRange(OpenedHandle(main).hdr)
    <3> DEFINE h == OpenedHandle(main).hdr
    <3>1. \/ h = main.hdr
          \/ \E x \in Valid : h.max = x.hdr.max /\ h.total = x.hdr.total /\ h.oldest = x.hdr.oldest
      BY OpenedFrom
    <3> HIDE DEF h
    <3> QED BY <1>a, <3>1, SameInRange DEF h
  <2>3. HeaderRange'
    BY <1>a, <2>1, <2>2, SlotsKept, HeadersKept DEF RangeInv
  <2> QED BY <2>1, <2>3, JobKept DEF RangeInv, CallRange
<1>4. CASE Crash
  <2>1. /\ pc' = "closed" /\ op' = "none" /\ gone' = 0 /\ job' = NoJob /\ db' = NoHandle
        /\ main' \in {main, Lost(main, db)} /\ UNCHANGED <<mig, side, legacy, clock, alters>>
    BY <1>4 DEF Crash, Goto
  <2>a. main'.hdr = main.hdr
    BY <2>1, LostKept DEF ShapeInv
  <2>2. HeaderRange'
    BY <1>a, <2>1, <2>a, NoHandleRange, SlotsKept, HeadersKept DEF RangeInv
  <2> QED BY <2>1, <2>2, NoJobRange DEF RangeInv, CallRange
<1> QED BY <1>1, <1>2, <1>3, <1>4

LEMMA RangeStepFold ==
  ASSUME ShapeInv, RangeInv,
         Sync \/ Close \/ Clear \/ FoldHeader \/ RemoveSlot \/ RemoveReturns
           \/ \E m \in Capacities : ResizeInPlace(m)
  PROVE  RangeInv'
<1>a. /\ InRange(main.hdr) /\ InRange(mig.hdr) /\ InRange(db.hdr)
      /\ \A x \in Valid : InRange(x.hdr)
  BY DEF RangeInv, HeaderRange
<1>b. IsHeader(db.hdr)
  BY DEF ShapeInv, IsHandle
<1>1. CASE Sync \/ Close
  <2>1. /\ pc = "idle" /\ pc' = "fold" /\ op' \in {"sync", "close"}
        /\ UNCHANGED <<main, mig, side, legacy, db, gone, job, clock, alters>>
    BY <1>1 DEF Sync, Close, StartFold, Goto, disk
  <2>2. HeaderRange'
    BY <1>a, <2>1, SlotsKept, HeadersKept DEF RangeInv
  <2> QED BY <2>1, <2>2, JobKept DEF RangeInv, CallRange
<1>2. CASE Clear
  <2>1. /\ pc = "idle" /\ pc' = "fold" /\ op' = "clear" /\ alters < MaxAlters /\ alters' = alters + 1
        /\ UNCHANGED <<main, mig, side, legacy, gone, job, clock>>
        /\ db'.hdr.max = db.hdr.max /\ db'.hdr.total = 0 /\ db'.hdr.oldest = 0
    BY <1>2, ClearEffect
  <2>2. InRange(db'.hdr)
    BY <1>a, <2>1, MaxSlotsAssumption DEF InRange
  <2>3. HeaderRange'
    BY <1>a, <2>1, <2>2, SlotsKept, HeadersKept DEF RangeInv
  <2>4. alters' \in 0 .. MaxAlters
    BY <2>1, SchemaAssumption DEF RangeInv, CallRange
  <2> QED BY <2>1, <2>3, <2>4, JobKept DEF RangeInv, CallRange
<1>3. CASE FoldHeader
  <2>1. pc = "fold" /\ UNCHANGED <<mig, side, legacy, gone, clock, alters>>
    BY <1>3, FoldHeaderEffect
  <2>2. CASE main'.hdr = db.hdr /\ db'.hdr = db.hdr /\ pc' = "remove" /\ UNCHANGED <<op, job>>
    <3>1. HeaderRange'
      BY <1>a, <2>1, <2>2, SlotsKept, HeadersKept DEF RangeInv
    <3> QED BY <2>1, <2>2, <3>1, JobKept DEF RangeInv, CallRange
  <2>3. CASE /\ UNCHANGED main /\ op' = "none" /\ job' = NoJob
             /\ \/ op = "close" /\ db' = NoHandle /\ pc' = "closed"
                \/ /\ op # "close" /\ pc' = "idle"
                   /\ db'.hdr = IF op = "resize" THEN [db.hdr EXCEPT !.max = job.max] ELSE db.hdr
    <3>1. InRange(db'.hdr)
      <4>1. CASE op = "resize"
        <5> DEFINE g == [db.hdr EXCEPT !.max = job.max]
        <5>1. g.max = job.max /\ g.total = db.hdr.total /\ g.oldest = db.hdr.oldest
          BY <1>b, ResizedHeader
        <5>2. /\ job.max \in 0 .. MaxSlots /\ db.hdr.oldest = 0
              /\ job.max = 0 => db.hdr.total <= MaxSlots
          BY <2>1, <4>1 DEF RangeInv, HeaderRange
        <5>3. db'.hdr = g
          BY <2>3, <4>1
        <5> HIDE DEF g
        <5>4. db.hdr.total \in Nat
          BY <1>a DEF InRange
        <5> QED BY <5>1, <5>2, <5>3, <5>4, MaxSlotsAssumption DEF InRange
      <4> QED BY <1>a, <2>3, <4>1, NoHandleRange
    <3>2. HeaderRange'
      BY <1>a, <2>1, <2>3, <3>1, SlotsKept, HeadersKept DEF RangeInv
    <3> QED BY <2>1, <2>3, <3>2, NoJobRange DEF RangeInv, CallRange
  <2> QED BY <1>3, <2>2, <2>3, FoldHeaderEffect
<1>4. CASE RemoveSlot
  <2>1. /\ UNCHANGED <<main, mig, db, job, pc, op, clock, alters>> /\ pc = "remove"
        /\ gone < 4 /\ gone' = gone + 1
    BY <1>4 DEF RemoveSlot
  <2>2. HeaderRange'
    BY <1>4, <1>a, <2>1, RemoveValid, HeadersKept DEF RangeInv
  <2>3. gone' \in 0 .. 4
    BY <2>1 DEF RangeInv, CallRange
  <2> QED BY <2>1, <2>2, <2>3, JobKept DEF RangeInv, CallRange
<1>5. CASE RemoveReturns
  <2>1. /\ pc = "remove" /\ gone' = 0 /\ UNCHANGED <<main, mig, side, legacy, clock, alters>>
        /\ op' = "none" /\ job' = NoJob
        /\ \/ db' = NoHandle /\ pc' = "closed"
           \/ pc' = "idle" /\ db'.hdr = db.hdr
    BY <1>5, RemoveReturnsEffect
  <2>2. HeaderRange'
    BY <1>a, <2>1, NoHandleRange, SlotsKept, HeadersKept DEF RangeInv
  <2> QED BY <2>1, <2>2, NoJobRange DEF RangeInv, CallRange
<1>6. CASE \E m \in Capacities : ResizeInPlace(m)
  <2>1. PICK m \in Capacities : ResizeInPlace(m)
    BY <1>6
  <2>2. /\ pc = "idle" /\ pc' = "fold" /\ op' = "resize" /\ FastResize(m)
        /\ alters < MaxAlters /\ alters' = alters + 1
        /\ UNCHANGED <<main, mig, side, legacy, gone, clock>>
        /\ db'.hdr = [db.hdr EXCEPT !.max = m]
        /\ job' = [NoJob EXCEPT !.max = db.hdr.max]
    BY <2>1, ResizeEffect
  <2>3. m \in 0 .. MaxSlots
    BY SchemaAssumption
  <2> DEFINE g == [db.hdr EXCEPT !.max = m]
  <2>4. g.max = m /\ g.total = db.hdr.total /\ g.oldest = db.hdr.oldest
    BY <1>b, ResizedHeader
  <2>5. db'.hdr = g
    BY <2>2
  <2> HIDE DEF g
  <2>6. /\ db.hdr.oldest = 0 /\ (Unlimited(db.hdr) \/ db.hdr.total <= db.hdr.max)
        /\ db.hdr.max \in 0 .. MaxSlots /\ db.hdr.total \in Nat
        /\ db.hdr.max = 0 => db.hdr.total <= MaxSlots
    BY <1>a, <2>2 DEF FastResize, InRange
  <2>7. db.hdr.total <= MaxSlots
    BY <2>6, MaxSlotsAssumption DEF Unlimited
  <2>8. InRange(g)
    BY <2>3, <2>4, <2>6, <2>7, MaxSlotsAssumption DEF InRange
  <2>9. /\ job'.k = 0 /\ job'.avail = 0 /\ job'.written = 0 /\ job'.buf = << >>
        /\ job'.max = db.hdr.max
    BY <2>2, NoJobEffect
  <2>10. HeaderRange'
    BY <1>a, <2>2, <2>4, <2>5, <2>6, <2>7, <2>8, <2>9, SlotsKept DEF HeaderRange
  <2>11. JobRange'
    BY <2>9, EmptySeq, MaxSlotsAssumption DEF JobRange
  <2>12. alters' \in 0 .. MaxAlters
    BY <2>2, SchemaAssumption DEF RangeInv, CallRange
  <2> QED BY <2>2, <2>10, <2>11, <2>12 DEF RangeInv, CallRange
<1> QED BY <1>1, <1>2, <1>3, <1>4, <1>5, <1>6

LEMMA RangeStepWrite ==
  ASSUME ShapeInv, RangeInv, Write
  PROVE  RangeInv'
<1>a. /\ InRange(main.hdr) /\ InRange(mig.hdr) /\ InRange(db.hdr)
      /\ \A x \in Valid : InRange(x.hdr)
  BY DEF RangeInv, HeaderRange
<1>1. /\ pc = "idle" /\ UNCHANGED <<mig, pc, op, gone, job, alters>>
      /\ clock < MaxTs /\ clock' = clock + 1 /\ main'.hdr = main.hdr /\ db'.hdr = WrittenHeader
  BY WriteEffect
<1>2. InRange(WrittenHeader)
  BY <1>a, WrittenInRange
<1>3. \A x \in NewSlots : x.hdr = WrittenHeader
  BY DEF NewSlots, ValidSlot
<1>4. HeaderRange'
  BY <1>a, <1>1, <1>2, <1>3, WriteValid, HeadersKept DEF RangeInv
<1>5. clock' \in 0 .. MaxTs
  BY <1>1, SchemaAssumption DEF RangeInv, CallRange
<1> QED BY <1>1, <1>4, <1>5, JobKept DEF RangeInv, CallRange

LEMMA RangeStepRegion ==
  ASSUME ShapeInv, RangeInv,
         CommitRegion \/ RemoveExtras
           \/ \E cols \in ExtraCols : AddExtraParams(cols) \/ RemapExtras(cols)
  PROVE  RangeInv'
<1>a. /\ InRange(main.hdr) /\ InRange(mig.hdr) /\ InRange(db.hdr)
      /\ \A x \in Valid : InRange(x.hdr)
  BY DEF RangeInv, HeaderRange
<1>b. \A n, o, f : InRange(WithExtras(db, n, o, f).hdr)
  BY <1>a, WithExtrasEffect, SameInRange
<1>1. CASE CommitRegion
  <2>1. /\ pc = "region" /\ pc' = "idle" /\ op' = "none"
        /\ UNCHANGED <<mig, side, legacy, gone, job, clock, alters>>
        /\ InRange(main'.hdr) /\ InRange(db'.hdr)
    BY <1>1, <1>a, <1>b, CommitEffect
  <2>2. HeaderRange'
    BY <1>a, <2>1, SlotsKept, HeadersKept DEF RangeInv
  <2> QED BY <2>1, <2>2, JobKept DEF RangeInv, CallRange
<1>2. CASE RemoveExtras
  <2>1. /\ pc = "idle" /\ alters < MaxAlters /\ alters' = alters + 1
        /\ UNCHANGED <<mig, side, legacy, pc, op, gone, job, clock>>
        /\ InRange(main'.hdr) /\ InRange(db'.hdr)
    BY <1>2, <1>a, SameInRange, RemoveExtrasEffect
  <2>2. HeaderRange'
    BY <1>a, <2>1, SlotsKept, HeadersKept DEF RangeInv
  <2>3. alters' \in 0 .. MaxAlters
    BY <2>1, SchemaAssumption DEF RangeInv, CallRange
  <2> QED BY <2>1, <2>2, <2>3, JobKept DEF RangeInv, CallRange
<1>3. CASE \E cols \in ExtraCols : AddExtraParams(cols) \/ RemapExtras(cols)
  <2>1. /\ pc = "idle" /\ alters < MaxAlters /\ alters' = alters + 1
        /\ UNCHANGED <<mig, side, legacy, gone, job, clock>>
        /\ \E r : AppendRegion(r, "add") \/ AppendRegion(r, "remap")
    BY <1>3 DEF AddExtraParams, RemapExtras, AlterCall
  <2>2. \/ UNCHANGED <<main, db, op, pc>>
        \/ main'.hdr = main.hdr /\ db'.hdr = db.hdr /\ op' \in {"add", "remap"} /\ pc' = "region"
    BY <2>1, AppendRegionEffect
  <2>3. HeaderRange'
    BY <1>a, <2>1, <2>2, SlotsKept, HeadersKept DEF RangeInv
  <2>4. alters' \in 0 .. MaxAlters
    BY <2>1, SchemaAssumption DEF RangeInv, CallRange
  <2> QED BY <2>1, <2>2, <2>3, <2>4, JobKept DEF RangeInv, CallRange
<1> QED BY <1>1, <1>2, <1>3

(* The columns and the capacity of a copy. *)
LEMMA RewriteArgs ==
  ASSUME HeaderRange, RegionInv,
         \/ \E m \in Capacities, room \in Rooms : ResizeByCopy(m, room)
         \/ \E cols \in Schemas, room \in Rooms : MigrateSchema(cols, room)
  PROVE  \E cols, m, room :
           /\ IsSeq(cols) /\ m \in 0 .. MaxSlots /\ room \in Nat /\ Rewrite(cols, m, room)
           /\ cols \in Schemas \/ cols = Columns(main, db)
<1>1. CASE \E m \in Capacities, room \in Rooms : ResizeByCopy(m, room)
  <2>1. PICK m \in Capacities, room \in Rooms : Rewrite(Columns(main, db), m, room)
    BY <1>1 DEF ResizeByCopy
  <2>2. pc = "idle"
    BY <2>1 DEF Rewrite, AlterCall
  <2>3. IsSeq(Columns(main, db))
    <3>1. WellFormed(main) /\ GoesWith(db.hdr, main) /\ ExtrasIn(db.extra, db.ovf, main)
      BY <2>2 DEF RegionInv
    <3>2. IsSeq(db.hdr.cols) /\ \A i \in 1 .. Len(main.regions) : IsRegion(main.regions[i])
      BY <3>1 DEF WellFormed, GoesWith
    <3> QED BY <3>1, <3>2, ColumnsSeq
  <2> QED BY <2>1, <2>3, SchemaAssumption
<1>2. CASE \E cols \in Schemas, room \in Rooms : MigrateSchema(cols, room)
  <2>1. PICK cols \in Schemas, room \in Rooms : Rewrite(cols, db.hdr.max, room)
    BY <1>2 DEF MigrateSchema
  <2>2. db.hdr.max \in 0 .. MaxSlots
    BY DEF HeaderRange, InRange
  <2> QED BY <2>1, <2>2, ConfigSeqs, SchemaAssumption
<1> QED BY <1>1, <1>2

LEMMA RangeStepRewrite ==
  ASSUME ShapeInv, RangeInv, NEW cols, IsSeq(cols), NEW m \in 0 .. MaxSlots, NEW room \in Nat,
         Rewrite(cols, m, room)
  PROVE  RangeInv'
<1> DEFINE p == Plan(cols, m, room)
           n == Available(db.hdr)
<1>a. /\ InRange(main.hdr) /\ InRange(mig.hdr) /\ InRange(db.hdr)
      /\ \A x \in Valid : InRange(x.hdr)
  BY DEF RangeInv, HeaderRange
<1>1. p.keep \in 0 .. n /\ p.max \in 0 .. MaxSlots
  BY <1>a, SeqFacts, PlanRange
<1>2. n \in Nat /\ n <= MaxSlots
  BY <1>a, AvailableRange
<1>3. /\ pc = "idle" /\ alters < MaxAlters /\ alters' = alters + 1
      /\ UNCHANGED <<main, side, legacy, db, op, gone, clock>>
      /\ \/ mig' = NoFile /\ job' = job /\ pc' = pc
         \/ /\ mig' = NewFile(NewHeader(p.max, cols)) /\ pc' = "copy"
            /\ job'.buf = << >> /\ job'.written = 0
            /\ job'.k = n - p.keep /\ job'.avail = n
  BY RewriteEffect
<1> HIDE DEF p, n
<1>4. InRange(mig'.hdr)
  BY <1>1, <1>3, NoHandleRange, NewInRange, NoFileEffect
<1>5. HeaderRange'
  BY <1>a, <1>3, <1>4, SlotsKept, HeadersKept DEF RangeInv
<1>6. JobRange'
  <2>1. CASE job' = job
    BY <2>1, JobKept DEF RangeInv
  <2>2. CASE /\ job'.buf = << >> /\ job'.written = 0
             /\ job'.k = n - p.keep /\ job'.avail = n
    BY <1>1, <1>2, <2>2, EmptySeq, MaxSlotsAssumption DEF JobRange
  <2> QED BY <1>3, <2>1, <2>2
<1>7. alters' \in 0 .. MaxAlters
  BY <1>3, SchemaAssumption DEF RangeInv, CallRange
<1> QED BY <1>3, <1>5, <1>6, <1>7 DEF RangeInv, CallRange

LEMMA RangeStepCopy ==
  ASSUME ShapeInv, RangeInv, CopyRecord \/ Finalize \/ UnlinkOriginal \/ SwapIn
  PROVE  RangeInv'
<1>a. /\ InRange(main.hdr) /\ InRange(mig.hdr) /\ InRange(db.hdr)
      /\ \A x \in Valid : InRange(x.hdr)
  BY DEF RangeInv, HeaderRange
<1>b. /\ job.k \in Nat /\ job.avail \in Nat /\ job.written \in Nat
      /\ job.written <= job.k /\ job.k <= job.avail /\ job.avail <= MaxSlots
      /\ IsSeq(job.buf) /\ Len(job.buf) <= job.written
  BY DEF RangeInv, JobRange
<1>c. ASSUME Abort, pc = "copy", UNCHANGED <<main, side, legacy, db, op, gone, clock, alters>>
      PROVE  RangeInv'
  <2>1. mig' = NoFile /\ job' = NoJob /\ pc' = "idle"
    BY <1>c DEF Abort, Goto
  <2>2. HeaderRange'
    BY <1>a, <1>c, <2>1, NoHandleRange, SlotsKept, HeadersKept DEF RangeInv
  <2> QED BY <1>c, <2>1, <2>2, NoJobRange DEF RangeInv, CallRange
<1>1. CASE CopyRecord
  <2>1. /\ pc = "copy" /\ job.k < job.avail
        /\ UNCHANGED <<main, side, legacy, db, op, gone, clock, alters>>
    BY <1>1, CopyEffect
  <2>2. CASE /\ mig' = mig /\ pc' = pc
             /\ job'.k = job.avail /\ job'.avail = job.avail /\ job'.written = job.written
             /\ job'.buf = << >>
    <3>1. HeaderRange'
      BY <1>a, <2>1, <2>2, SlotsKept, HeadersKept DEF RangeInv
    <3>2. JobRange'
      BY <1>b, <2>2, EmptySeq, MaxSlotsAssumption DEF JobRange
    <3> QED BY <2>1, <2>2, <3>1, <3>2 DEF RangeInv, CallRange
  <2>3. CASE \E flush \in BOOLEAN : Copied(Append(job.buf, CopiedRow), job.written + 1, flush)
    <3> DEFINE buf == Append(job.buf, CopiedRow)
    <3>1. PICK flush \in BOOLEAN : Copied(buf, job.written + 1, flush)
      BY <2>3
    <3>2. IsSeq(buf) /\ Len(buf) = Len(job.buf) + 1
      BY <1>b, AppendSeq
    <3> HIDE DEF buf
    <3>3. mig'.hdr = mig.hdr
      BY <3>1, Fields DEF Copied, ShapeInv, IsFile, FileFields
    <3>4. /\ job'.k = job.k + 1 /\ job'.avail = job.avail /\ job'.written = job.written + 1
          /\ job'.buf \in {<< >>, buf} /\ pc' = pc
      BY <3>1 DEF Copied
    <3>5. HeaderRange'
      BY <1>a, <2>1, <3>3, <3>4, SlotsKept, HeadersKept DEF RangeInv
    <3>6. Len(job.buf) \in Nat
      BY <1>b, SeqFacts
    <3>7. IsSeq(job'.buf) /\ Len(job'.buf) <= job'.written
      BY <1>b, <3>2, <3>4, <3>6, EmptySeq
    <3>8. /\ job'.k \in Nat /\ job'.avail \in Nat /\ job'.written \in Nat
          /\ job'.written <= job'.k /\ job'.k <= job'.avail /\ job'.avail <= MaxSlots
      BY <1>b, <2>1, <3>4, MaxSlotsAssumption
    <3>9. JobRange'
      BY <3>7, <3>8 DEF JobRange
    <3> QED BY <2>1, <3>4, <3>5, <3>9 DEF RangeInv, CallRange
  <2> QED BY <1>1, <1>c, <2>1, <2>2, <2>3, CopyEffect
<1>2. CASE Finalize
  <2>1. pc = "copy" /\ UNCHANGED <<main, side, legacy, db, op, gone, clock, alters>>
    BY <1>2, FinalizeEffect
  <2>2. CASE /\ pc' = "unlink" /\ job' = job
             /\ mig'.hdr \in {mig.hdr, FinalHeader} /\ FinalHeader' = FinalHeader
    <3>1. InRange(mig'.hdr) /\ InRange(FinalHeader')
      <4>1. /\ FinalHeader.max = mig.hdr.max /\ FinalHeader.total = job.written
            /\ FinalHeader.oldest = mig.hdr.oldest
        BY FinalHeaderEffect
      <4>2. InRange(FinalHeader)
        BY <1>a, <1>b, <4>1, MaxSlotsAssumption DEF InRange
      <4> QED BY <1>a, <2>2, <4>2
    <3>2. HeaderRange'
      BY <1>a, <2>1, <2>2, <3>1, SlotsKept, HeadersKept DEF RangeInv
    <3> QED BY <2>1, <2>2, <3>2, JobKept DEF RangeInv, CallRange
  <2> QED BY <1>2, <1>c, <2>1, <2>2, FinalizeEffect
<1>3. CASE UnlinkOriginal
  <2>1. /\ pc = "unlink" /\ pc' = "swap" /\ main' = NoFile
        /\ UNCHANGED <<mig, side, legacy, op, gone, job, clock, alters>>
        /\ db'.hdr = db.hdr /\ FinalHeader' = FinalHeader
    BY <1>3, UnlinkEffect
  <2>a. InRange(FinalHeader')
    BY <2>1 DEF RangeInv, HeaderRange
  <2>2. HeaderRange'
    BY <1>a, <2>1, <2>a, NoHandleRange, SlotsKept, HeadersKept DEF RangeInv
  <2> QED BY <2>1, <2>2, JobKept DEF RangeInv, CallRange
<1>4. CASE SwapIn
  <2>1. /\ pc = "swap" /\ job' = NoJob /\ UNCHANGED <<side, legacy, op, gone, clock, alters>>
        /\ main' \in {main, mig} /\ mig' \in {mig, NoFile}
        /\ db' = NoHandle \/ db'.hdr = FinalHeader
        /\ pc' \in {"closed", "idle"}
    BY <1>4, SwapEffect
  <2>a. InRange(FinalHeader)
    BY <2>1 DEF RangeInv, HeaderRange
  <2>2. InRange(main'.hdr) /\ InRange(mig'.hdr) /\ InRange(db'.hdr)
    BY <1>a, <2>1, <2>a, NoHandleRange
  <2>3. HeaderRange'
    BY <2>1, <2>2, SlotsKept, HeadersKept DEF RangeInv
  <2> QED BY <2>1, <2>3, NoJobRange DEF RangeInv, CallRange
<1> QED BY <1>1, <1>2, <1>3, <1>4

LEMMA RangeStep ==
  ASSUME ShapeInv, RegionInv, RangeInv, [Next]_vars
  PROVE  RangeInv'
<1>1. CASE \/ \E m \in Capacities, room \in Rooms : ResizeByCopy(m, room)
           \/ \E cols \in Schemas, room \in Rooms : MigrateSchema(cols, room)
  BY <1>1, RewriteArgs, RangeStepRewrite DEF RangeInv
<1>2. CASE UNCHANGED vars
  <2>1. UNCHANGED <<main, mig, side, legacy, db, pc, op, gone, job, clock, alters>>
    BY <1>2 DEF vars, disk
  <2>2. FinalHeader' = FinalHeader
    BY <2>1 DEF FinalHeader
  <2> QED BY <2>1, <2>2, SlotsKept DEF RangeInv, HeaderRange, JobRange, CallRange
<1> QED BY <1>1, <1>2, RangeStepOpen, RangeStepFold, RangeStepWrite, RangeStepRegion, RangeStepCopy
        DEF Next, Open, Call, Step

-----------------------------------------------------------------------------
(* Steps on columns, regions and slots *)

(* File g has the columns and the regions of f, and perhaps another one. *)
Carries(g, f) ==
  /\ g.hdr.cols = f.hdr.cols
  /\ Len(g.regions) \in Nat /\ Len(f.regions) <= Len(g.regions)
  /\ \A i \in 1 .. Len(f.regions) : g.regions[i].cols = f.regions[i].cols

LEMMA CarriesOn ==
  ASSUME NEW f, NEW g, WellFormed(f), Carries(g, f)
  PROVE  /\ \A extra, ovf : ExtrasIn(extra, ovf, f) => ExtrasIn(extra, ovf, g)
         /\ \A h : GoesWith(h, f) => GoesWith(h, g)
         /\ \A x : Same(x, g) <=> Same(x, f)
<1>1. Len(f.regions) \in Nat
  BY SeqFacts DEF WellFormed
<1>2. ASSUME NEW extra, NEW ovf, ExtrasIn(extra, ovf, f) PROVE ExtrasIn(extra, ovf, g)
  BY <1>1, <1>2 DEF ExtrasIn, Carries
<1> QED BY <1>2 DEF GoesWith, Same, Carries

(* The same columns and regions. *)
LEMMA CarriesSame ==
  ASSUME NEW f, NEW g, WellFormed(f), g.hdr.cols = f.hdr.cols, g.regions = f.regions
  PROVE  Carries(g, f)
<1>1. Len(f.regions) \in Nat
  BY SeqFacts DEF WellFormed
<1> QED BY <1>1 DEF Carries

(* A header that goes with the file written into it. *)
LEMMA WellFormedWith ==
  ASSUME NEW f, WellFormed(f), NEW g, g.regions = f.regions, GoesWith(g.hdr, f)
  PROVE  WellFormed(g) /\ Carries(g, f)
<1>1. g.hdr.cols = f.hdr.cols
  BY DEF GoesWith
<1>2. Carries(g, f)
  BY <1>1, CarriesSame
<1>3. GoesWith(g.hdr, g)
  BY <1>2, CarriesOn
<1> QED BY <1>1, <1>2, <1>3 DEF WellFormed

(* A power cut takes no columns and no regions from a file. *)
LEMMA LostCarries ==
  ASSUME NEW f, IsFile(f), WellFormed(f), NEW d
  PROVE  WellFormed(Lost(f, d)) /\ Carries(Lost(f, d), f)
<1> DEFINE g == Lost(f, d)
<1>1. g.hdr = f.hdr
  BY LostKept
<1>a. IsSeq(f.regions) /\ \A i \in 1 .. Len(f.regions) : IsRegion(f.regions[i])
  BY DEF WellFormed
<1>2. /\ IsSeq(g.regions) /\ Len(g.regions) = Len(f.regions)
      /\ \A i \in 1 .. Len(f.regions) :
           IsRegion(g.regions[i]) /\ g.regions[i].cols = f.regions[i].cols
  <2> DEFINE s == f.regions
             t == g.regions
  <2>1. CellApart(s, t, d)
    BY <1>a, LostRegions
  <2> HIDE DEF s, t
  <2>2. IsSeq(t) /\ Len(t) = Len(s) /\ \A i \in 1 .. Len(s) : IsRegion(t[i]) /\ t[i].cols = s[i].cols
    BY <2>1 DEF CellApart
  <2> QED BY <2>2 DEF s, t
<1>3. Len(f.regions) \in Nat
  BY SeqFacts DEF WellFormed
<1> HIDE DEF g
<1>4. Carries(g, f)
  BY <1>1, <1>2, <1>3 DEF Carries
<1>5. GoesWith(g.hdr, g)
  BY <1>1, <1>4, CarriesOn DEF WellFormed
<1>6. WellFormed(g)
  BY <1>1, <1>2, <1>5 DEF WellFormed
<1> QED BY <1>4, <1>6 DEF g

LEMMA NewWellFormed ==
  ASSUME NEW m, NEW cols, IsSeq(cols)
  PROVE  WellFormed(NewFile(NewHeader(m, cols))) /\ WellFormed(NoFile)
<1>1. ASSUME NEW f, f.regions = << >>, IsSeq(f.hdr.cols), f.hdr.extra = 0, f.hdr.ovf = 0
      PROVE  WellFormed(f)
  <2>1. ExtrasIn(f.hdr.extra, f.hdr.ovf, f)
    BY <1>1, EmptySeq DEF ExtrasIn
  <2> QED BY <1>1, <2>1, EmptySeq DEF WellFormed, GoesWith
<1> DEFINE h == NewHeader(m, cols)
           z == NewHeader(0, << >>)
<1>2. h.cols = cols /\ h.extra = 0 /\ h.ovf = 0 /\ z.cols = << >> /\ z.extra = 0 /\ z.ovf = 0
  BY NewHeaderEffect
<1> HIDE DEF h, z
<1>3. NewFile(h).hdr = h /\ NewFile(h).regions = << >> /\ NoFile.hdr = z /\ NoFile.regions = << >>
  BY NoFileEffect DEF z
<1>4. WellFormed(NewFile(h)) /\ WellFormed(NoFile)
  BY <1>1, <1>2, <1>3, EmptySeq
<1> QED BY <1>4 DEF h

LEMMA NoFileWellFormed == WellFormed(NoFile)
  BY NewWellFormed, EmptySeq

(* A step that ends with an open database. *)
LEMMA Settled ==
  ASSUME RegionInv, main.there, main'.there, WellFormed(main'), WellFormed(mig'),
         Carries(main', main),
         \A x \in Valid' : x \in Valid \/ GoesWith(x.hdr, main'),
         pc' \in Settling, GoesWith(db'.hdr, main'), ExtrasIn(db'.extra, db'.ovf, main'),
         pc' = "region" => (\A x \in Valid' : ~Same(x, main')) /\ Len(main'.regions) > 0,
         pc' = "fold" /\ op' = "clear" => \A x \in Valid' : ~Same(x, main')
  PROVE  RegionInv'
<1>1. Survivor = main /\ Survivor' = main'
  BY DEF Survivor
<1>2. WellFormed(main)
  BY DEF RegionInv
<1>3. \A x \in Valid' : Same(x, main') => GoesWith(x.hdr, main')
  BY <1>1, <1>2, CarriesOn DEF RegionInv
<1>4. pc' # "closed" /\ pc' \notin Rewriting
  BY DEF Settling, Rewriting
<1>5. (pc' = "region" => Unmatched(main)') /\ (pc' = "fold" /\ op' = "clear" => Unmatched(main)')
  BY DEF Unmatched, Same
<1>6. (\A x \in Valid : Same(x, Survivor) => GoesWith(x.hdr, Survivor))'
  BY <1>1, <1>3 DEF Same, GoesWith, ExtrasIn
<1>7. pc' # "copy"
  BY DEF Settling
<1> QED BY <1>4, <1>5, <1>6, <1>7 DEF RegionInv

(* A step that ends with no open database. *)
LEMMA Shut ==
  ASSUME WellFormed(main'), WellFormed(mig'), db' = NoHandle, pc' = "closed",
         \A x \in Valid' : Same(x, Survivor') => GoesWith(x.hdr, Survivor')
  PROVE  RegionInv'
<1>1. pc' \notin Rewriting
  BY DEF Rewriting
<1>2. (\A x \in Valid : Same(x, Survivor) => GoesWith(x.hdr, Survivor))'
  BY DEF Same, GoesWith, ExtrasIn
<1> QED BY <1>1, <1>2 DEF RegionInv

(* A step on a main file that keeps its regions, its header or the         *)
(* handle's.                                                               *)
LEMMA RegionStepFold ==
  ASSUME "unsynced" \notin Env, ShapeInv, SwapInv, RegionInv,
         Sync \/ Close \/ Clear \/ FoldHeader \/ RemoveSlot \/ RemoveReturns
           \/ \E m \in Capacities : ResizeInPlace(m)
  PROVE  RegionInv'
<1>a. /\ pc \in Settling /\ mig' = mig /\ main.there
      /\ main'.there /\ pc' \in Settling \cup {"closed"}
  BY FoldShape DEF Ordinary, SwapInv, Settling
<1>b. /\ WellFormed(main) /\ WellFormed(mig) /\ GoesWith(db.hdr, main)
      /\ ExtrasIn(db.extra, db.ovf, main)
  BY <1>a DEF RegionInv, Settling
<1>c. IsHeader(db.hdr)
  BY DEF ShapeInv, IsHandle
<1>d. Survivor = main /\ Survivor' = main'
  BY <1>a DEF Survivor
<1>e. \A m : GoesWith([db.hdr EXCEPT !.max = m], main)
  BY <1>b, <1>c, ResizedHeader DEF GoesWith, SameShape
<1>1. CASE Sync \/ Close
  <2>1. /\ pc' = "fold" /\ op' \in {"sync", "close"}
        /\ UNCHANGED <<main, side, legacy, db>>
    BY <1>1 DEF Sync, Close, StartFold, Goto, disk
  <2>2. Carries(main', main)
    BY <1>b, <2>1, CarriesSame
  <2> QED BY <1>a, <1>b, <2>1, <2>2, SlotsKept, Settled DEF Settling
<1>2. CASE Clear
  <2>1. /\ pc' = "fold" /\ op' = "clear" /\ Harmless(Len(db.hdr.cols))
        /\ UNCHANGED <<main, side, legacy>>
        /\ db'.hdr.cols = db.hdr.cols /\ db'.hdr.extra = db.hdr.extra /\ db'.hdr.ovf = db.hdr.ovf
        /\ db'.extra = db.extra /\ db'.ovf = db.ovf
    BY <1>2, ClearEffect
  <2>2. Carries(main', main)
    BY <1>b, <2>1, CarriesSame
  <2>3. \A x \in Valid : ~Same(x, main)
    BY <1>b, <2>1 DEF Harmless, Valid, Same, GoesWith
  <2>4. GoesWith(db'.hdr, main')
    BY <1>b, <2>1 DEF GoesWith
  <2> QED BY <1>a, <1>b, <2>1, <2>2, <2>3, <2>4, SlotsKept, Settled DEF Settling
<1>3. CASE FoldHeader
  <2>1. pc = "fold" /\ UNCHANGED <<side, legacy>>
    BY <1>3, FoldHeaderEffect
  <2>2. CASE /\ main'.hdr = db.hdr /\ main'.regions = main.regions
             /\ db'.hdr = db.hdr /\ SameCopies(db, db') /\ pc' = "remove"
    <3>1. WellFormed(main') /\ Carries(main', main)
      BY <1>b, <2>2, WellFormedWith
    <3>2. GoesWith(db'.hdr, main') /\ ExtrasIn(db'.extra, db'.ovf, main')
      BY <1>b, <2>2, <3>1, CarriesOn DEF SameCopies
    <3> QED BY <1>a, <1>b, <2>1, <2>2, <3>1, <3>2, SlotsKept, Settled DEF Settling
  <2>3. CASE UNCHANGED main /\ db' = NoHandle /\ pc' = "closed"
    BY <1>a, <1>b, <1>d, <2>1, <2>3, SlotsKept, Shut DEF RegionInv
  <2>4. CASE /\ UNCHANGED main /\ pc' = "idle" /\ SameCopies(db, db')
             /\ db'.hdr = IF op = "resize" THEN [db.hdr EXCEPT !.max = job.max] ELSE db.hdr
    <3>1. Carries(main', main)
      BY <1>b, <2>4, CarriesSame
    <3>2. GoesWith(db'.hdr, main') /\ ExtrasIn(db'.extra, db'.ovf, main')
      BY <1>b, <1>e, <2>4 DEF SameCopies
    <3> QED BY <1>a, <1>b, <2>1, <2>4, <3>1, <3>2, SlotsKept, Settled DEF Settling
  <2> QED BY <1>3, <2>2, <2>3, <2>4, FoldHeaderEffect
<1>4. CASE RemoveSlot
  <2>1. UNCHANGED <<main, db, pc, op>> /\ pc = "remove"
    BY <1>4 DEF RemoveSlot
  <2>2. Carries(main', main)
    BY <1>b, <2>1, CarriesSame
  <2> QED BY <1>4, <1>a, <1>b, <2>1, <2>2, RemoveValid, Settled DEF Settling
<1>5. CASE RemoveReturns
  <2>1. /\ UNCHANGED <<main, side, legacy>>
        /\ \/ db' = NoHandle /\ pc' = "closed"
           \/ pc' = "idle" /\ db'.hdr = db.hdr /\ SameCopies(db, db')
    BY <1>5, RemoveReturnsEffect
  <2>2. CASE db' = NoHandle /\ pc' = "closed"
    BY <1>a, <1>b, <1>d, <2>1, <2>2, SlotsKept, Shut DEF RegionInv
  <2>3. CASE pc' = "idle" /\ db'.hdr = db.hdr /\ SameCopies(db, db')
    <3>1. Carries(main', main)
      BY <1>b, <2>1, CarriesSame
    <3>2. GoesWith(db'.hdr, main') /\ ExtrasIn(db'.extra, db'.ovf, main')
      BY <1>b, <2>1, <2>3 DEF SameCopies
    <3> QED BY <1>a, <1>b, <2>1, <2>3, <3>1, <3>2, SlotsKept, Settled DEF Settling
  <2> QED BY <2>1, <2>2, <2>3
<1>6. CASE \E m \in Capacities : ResizeInPlace(m)
  <2>1. PICK m \in Capacities : ResizeInPlace(m)
    BY <1>6
  <2>2. /\ pc' = "fold" /\ op' = "resize" /\ UNCHANGED <<main, side, legacy>>
        /\ db'.hdr = [db.hdr EXCEPT !.max = m] /\ SameCopies(db, db')
    BY <2>1, ResizeEffect
  <2>3. Carries(main', main)
    BY <1>b, <2>2, CarriesSame
  <2>4. GoesWith(db'.hdr, main') /\ ExtrasIn(db'.extra, db'.ovf, main')
    BY <1>b, <1>e, <2>2 DEF SameCopies
  <2> QED BY <1>a, <1>b, <2>2, <2>3, <2>4, SlotsKept, Settled DEF Settling
<1> QED BY <1>1, <1>2, <1>3, <1>4, <1>5, <1>6

LEMMA RegionStepWrite ==
  ASSUME ShapeInv, SwapInv, RegionInv, Write
  PROVE  RegionInv'
<1>1. /\ pc = "idle" /\ UNCHANGED <<mig, pc>>
      /\ main'.there = main.there /\ main'.hdr = main.hdr
      /\ \E n : main'.regions = RegionsWith(main.regions, n)
      /\ db'.hdr = WrittenHeader /\ SameCopies(db, db')
  BY WriteEffect
<1>2. main.there /\ main'.there
  BY <1>1 DEF SwapInv, Settling
<1>3. /\ WellFormed(main) /\ WellFormed(mig) /\ GoesWith(db.hdr, main)
      /\ ExtrasIn(db.extra, db.ovf, main)
  BY <1>1 DEF RegionInv
<1>a. PICK n : main'.regions = RegionsWith(main.regions, n)
  BY <1>1
<1> DEFINE s == main.regions
           t == RegionsWith(main.regions, n)
<1>4. /\ IsSeq(t) /\ Len(t) = Len(s) /\ Len(s) \in Nat
      /\ \A i \in 1 .. Len(s) : IsRegion(t[i]) /\ t[i].cols = s[i].cols
  BY <1>3, RegionsWithEffect, SeqFacts, ZenonT(60) DEF WellFormed
<1> HIDE DEF t
<1>5. main'.regions = t /\ main'.hdr.cols = main.hdr.cols
  BY <1>1, <1>a DEF t
<1>6. Carries(main', main)
  BY <1>4, <1>5 DEF Carries
<1>7. WellFormed(main')
  <2>1. GoesWith(main'.hdr, main')
    BY <1>1, <1>3, <1>6, CarriesOn DEF WellFormed
  <2> QED BY <1>3, <1>4, <1>5, <2>1 DEF WellFormed
<1>8. GoesWith(WrittenHeader, main') /\ GoesWith(db'.hdr, main') /\ ExtrasIn(db'.extra, db'.ovf, main')
  <2>1. SameShape(db.hdr, WrittenHeader)
    BY AdvancedEffect DEF ShapeInv, IsHandle, WrittenHeader
  <2>2. GoesWith(WrittenHeader, main)
    BY <1>3, <2>1 DEF GoesWith, SameShape
  <2> QED BY <1>1, <1>3, <1>6, <2>2, CarriesOn DEF SameCopies
<1>9. \A x \in Valid' : x \in Valid \/ GoesWith(x.hdr, main')
  <2>1. \A x \in NewSlots : x.hdr = WrittenHeader
    BY DEF NewSlots, ValidSlot
  <2> QED BY <1>8, <2>1, WriteValid
<1> QED BY <1>1, <1>2, <1>3, <1>6, <1>7, <1>8, <1>9, Settled DEF Settling

LEMMA RegionStepRegion ==
  ASSUME "unsynced" \notin Env, ShapeInv, SwapInv, CallRange, RegionInv,
         CommitRegion \/ RemoveExtras
           \/ \E cols \in ExtraCols : AddExtraParams(cols) \/ RemapExtras(cols)
  PROVE  RegionInv'
<1>a. /\ pc \in Settling /\ mig' = mig /\ main.there
      /\ main'.there /\ pc' \in Settling \cup {"closed"}
  BY RegionShape DEF Ordinary, SwapInv, Settling
<1>b. /\ WellFormed(main) /\ WellFormed(mig) /\ GoesWith(db.hdr, main)
      /\ ExtrasIn(db.extra, db.ovf, main)
  BY <1>a DEF RegionInv, Settling
<1>c. /\ Len(main.regions) \in Nat
      /\ \A i \in 1 .. Len(main.regions) : Len(main.regions[i].cols) \in Nat
  BY <1>b, SeqFacts DEF WellFormed, IsRegion
<1>1. CASE CommitRegion
  <2> DEFINE n == Len(main.regions)
             k == Len(main.regions[n].cols)
  <2>1. PICK d :
         /\ d = WithExtras(db, k, n, IF op = "add" THEN db.hdr.total ELSE db.first)
         /\ pc = "region" /\ pc' = "idle"
         /\ UNCHANGED <<side, legacy>>
         /\ main'.regions = main.regions
         /\ main'.hdr = d.hdr \/ main' = main
         /\ db'.hdr = d.hdr
         /\ db' = d \/ SameCopies(db, db') \/ op \notin {"add", "remap"}
    BY <1>1, CommitEffect
  <2>2. d.hdr.cols = db.hdr.cols /\ d.hdr.extra = k /\ d.hdr.ovf = n /\ d.extra = k /\ d.ovf = n
    BY <2>1, WithExtrasEffect
  <2>3. n > 0
    BY <2>1 DEF RegionInv
  <2>4. ExtrasIn(k, n, main)
    BY <1>c, <2>3 DEF ExtrasIn
  <2>5. GoesWith(d.hdr, main)
    BY <1>b, <2>2, <2>4 DEF GoesWith
  <2> HIDE DEF n, k
  <2>6. WellFormed(main') /\ Carries(main', main)
    BY <1>b, <2>1, <2>5, WellFormedWith, CarriesSame
  <2>7. GoesWith(db'.hdr, main')
    BY <1>b, <2>1, <2>5, <2>6, CarriesOn
  <2>8. ExtrasIn(db'.extra, db'.ovf, main')
    <3>1. op \in {"add", "remap"}
      BY <2>1 DEF CallRange
    <3>2. db' = d \/ SameCopies(db, db')
      BY <2>1, <3>1
    <3> QED BY <1>b, <2>2, <2>4, <2>6, <3>2, CarriesOn DEF SameCopies
  <2> QED BY <1>a, <1>b, <2>1, <2>6, <2>7, <2>8, SlotsKept, Settled DEF Settling
<1>2. CASE RemoveExtras
  <2>1. /\ UNCHANGED <<side, legacy, pc>> /\ pc = "idle"
        /\ main'.regions = main.regions
        /\ main'.hdr = db'.hdr \/ main' = main
    BY <1>2, RemoveExtrasEffect
  <2>2. db'.hdr.cols = db.hdr.cols /\ db'.hdr.extra = 0 /\ db'.hdr.ovf = 0 /\ db'.extra = 0 /\ db'.ovf = 0
    BY <1>2, RemoveExtrasEffect
  <2>3. ExtrasIn(0, 0, main)
    BY <1>c DEF ExtrasIn
  <2>4. GoesWith(db'.hdr, main)
    BY <1>b, <2>2, <2>3 DEF GoesWith
  <2>5. WellFormed(main') /\ Carries(main', main)
    BY <1>b, <2>1, <2>4, WellFormedWith, CarriesSame
  <2>6. GoesWith(db'.hdr, main') /\ ExtrasIn(db'.extra, db'.ovf, main')
    BY <1>b, <2>2, <2>3, <2>4, <2>5, CarriesOn
  <2> QED BY <1>a, <1>b, <2>1, <2>5, <2>6, SlotsKept, Settled DEF Settling
<1>3. CASE \E cols \in ExtraCols : AddExtraParams(cols) \/ RemapExtras(cols)
  <2>1. PICK cols \in ExtraCols : AddExtraParams(cols) \/ RemapExtras(cols)
    BY <1>3
  <2>2. /\ pc = "idle" /\ Harmless(Len(db.hdr.cols)) /\ UNCHANGED <<side, legacy>>
        /\ \E cells, name : AppendRegion(Region(cols, cells), name) /\ name \in {"add", "remap"}
    BY <2>1 DEF AddExtraParams, RemapExtras, AlterCall
  <2>3. PICK cells, name : AppendRegion(Region(cols, cells), name) /\ name \in {"add", "remap"}
    BY <2>2
  <2> DEFINE r == Region(cols, cells)
  <2>4. IsRegion(r)
    BY RegionFacts, ConfigSeqs DEF IsRegion
  <2> HIDE DEF r
  <2>5. \/ UNCHANGED <<main, db, op, pc>>
        \/ /\ main'.hdr = main.hdr /\ main'.regions = Append(main.regions, r)
           /\ db'.hdr = db.hdr /\ SameCopies(db, db')
           /\ op' = name /\ pc' = "region"
    BY <2>3, AppendRegionEffect DEF r
  <2>6. CASE UNCHANGED <<main, db, op, pc>>
    <3>1. Carries(main', main)
      BY <1>b, <2>6, CarriesSame
    <3> QED BY <1>a, <1>b, <2>2, <2>6, <3>1, SlotsKept, Settled DEF Settling
  <2>7. CASE /\ main'.hdr = main.hdr /\ main'.regions = Append(main.regions, r)
             /\ db'.hdr = db.hdr /\ SameCopies(db, db')
             /\ op' = name /\ pc' = "region"
    <3> DEFINE s == main.regions
               t == Append(main.regions, r)
    <3>1. /\ IsSeq(t) /\ Len(t) = Len(s) + 1
          /\ \A i \in 1 .. Len(s) + 1 : t[i] = IF i = Len(s) + 1 THEN r ELSE s[i]
      BY <1>b, AppendSeq DEF WellFormed
    <3>2. main'.regions = t
      BY <2>7
    <3> HIDE DEF t
    <3>3. \A i \in 1 .. Len(s) : i \in 1 .. Len(s) + 1 /\ i # Len(s) + 1
      BY <1>c
    <3>4. Carries(main', main)
      BY <1>c, <2>7, <3>1, <3>2, <3>3 DEF Carries
    <3>5. \A i \in 1 .. Len(t) : IsRegion(t[i])
      BY <1>b, <1>c, <2>4, <3>1 DEF WellFormed
    <3>6. WellFormed(main')
      BY <1>b, <2>7, <3>1, <3>2, <3>4, <3>5, CarriesOn DEF WellFormed
    <3>7. GoesWith(db'.hdr, main') /\ ExtrasIn(db'.extra, db'.ovf, main')
      BY <1>b, <2>7, <3>4, CarriesOn DEF SameCopies
    <3>8. \A x \in Valid' : ~Same(x, main')
      <4>1. \A x \in Valid : ~Same(x, main)
        BY <1>b, <2>2 DEF Harmless, Valid, Same, GoesWith
      <4> QED BY <1>b, <2>2, <3>4, <4>1, SlotsKept, CarriesOn
    <3>9. Len(main'.regions) > 0
      BY <1>c, <3>1, <3>2
    <3> QED BY <1>a, <1>b, <2>2, <2>3, <2>7, <3>4, <3>6, <3>7, <3>8, <3>9, SlotsKept, Settled
            DEF Settling
  <2> QED BY <2>5, <2>6, <2>7
<1> QED BY <1>1, <1>2, <1>3

LEMMA RegionStepOpen ==
  ASSUME ShapeInv, SwapInv, RegionInv, Recover \/ CreateFile \/ OpenExisting \/ Crash
  PROVE  RegionInv'
<1>a. WellFormed(main) /\ WellFormed(mig) /\ WellFormed(NoFile)
  BY NoFileWellFormed DEF RegionInv
<1>b. \A x \in Valid : Same(x, Survivor) => GoesWith(x.hdr, Survivor)
  BY DEF RegionInv
<1>c. ASSUME CreateDatabase, mig' = mig
      PROVE  RegionInv'
  <2> DEFINE h == NewHeader(ConfigMax, ConfigCols)
  <2>1. /\ main' = NewFile(h) /\ db' = NewHandle(h) /\ Valid' = {} /\ pc' = "idle"
    BY <1>c, CreatedEffect
  <2>2. WellFormed(NewFile(h))
    BY ConfigSeqs, NewWellFormed
  <2>3. NewFile(h).hdr = h /\ NewHandle(h).hdr = h
        /\ NewHandle(h).extra = h.extra /\ NewHandle(h).ovf = h.ovf
    BY NoFileEffect, NewHandleEffect
  <2> HIDE DEF h
  <2>4. WellFormed(main') /\ GoesWith(db'.hdr, main') /\ ExtrasIn(db'.extra, db'.ovf, main')
    BY <2>1, <2>2, <2>3 DEF WellFormed, GoesWith
  <2>5. pc' \notin Rewriting
    BY <2>1 DEF Rewriting
  <2> QED BY <1>a, <1>c, <2>1, <2>4, <2>5 DEF RegionInv
<1>1. CASE Recover
  <2>1. /\ pc = "closed" /\ mig.there
        /\ \/ main.there /\ mig' = NoFile /\ UNCHANGED <<main, side, legacy, db, pc>>
           \/ ~main.there /\ main' = mig /\ mig' = NoFile /\ UNCHANGED <<side, legacy, db, pc>>
           \/ CreateDatabase /\ mig' = mig
    BY <1>1, Zenon DEF Recover
  <2>2. CASE main.there /\ mig' = NoFile /\ UNCHANGED <<main, side, legacy, db, pc>>
    <3>1. Survivor' = Survivor /\ db' = NoHandle
      BY <2>1, <2>2 DEF Survivor, RegionInv
    <3> QED BY <1>a, <1>b, <2>1, <2>2, <3>1, SlotsKept, Shut
  <2>3. CASE ~main.there /\ main' = mig /\ mig' = NoFile /\ UNCHANGED <<side, legacy, db, pc>>
    <3>1. Survivor' = Survivor /\ db' = NoHandle
      BY <2>1, <2>3 DEF Survivor, RegionInv
    <3> QED BY <1>a, <1>b, <2>1, <2>3, <3>1, SlotsKept, Shut
  <2> QED BY <1>c, <2>1, <2>2, <2>3
<1>2. CASE CreateFile
  BY <1>c, <1>2 DEF CreateFile
<1>3. CASE OpenExisting
  <2>1. /\ pc = "closed" /\ pc' = "idle" /\ main.there /\ db' = OpenedHandle(main)
        /\ UNCHANGED <<main, mig, side, legacy>>
    BY <1>3 DEF OpenExisting, Goto, disk
  <2> DEFINE d == OpenedHandle(main)
  <2>2. d.extra = d.hdr.extra /\ d.ovf = d.hdr.ovf
    BY OpenedEffect DEF CopiesAgree
  <2>3. GoesWith(main.hdr, main)
    BY <1>a DEF WellFormed
  <2>4. \A x \in Valid : Same(x, main) => GoesWith(x.hdr, main)
    BY <1>b, <2>1 DEF Survivor
  <2>5. \/ d.hdr = main.hdr
        \/ \E x \in Valid :
             /\ Same(x, main) /\ d.hdr.extra = x.hdr.extra /\ d.hdr.ovf = x.hdr.ovf
             /\ d.hdr.cols \in {x.hdr.cols, main.hdr.cols}
    BY OpenedFrom
  <2> HIDE DEF d
  <2>6. GoesWith(d.hdr, main)
    <3>1. CASE d.hdr = main.hdr
      BY <2>3, <3>1
    <3>2. CASE \E x \in Valid :
             /\ Same(x, main) /\ d.hdr.extra = x.hdr.extra /\ d.hdr.ovf = x.hdr.ovf
             /\ d.hdr.cols \in {x.hdr.cols, main.hdr.cols}
      BY <2>4, <3>2 DEF GoesWith
    <3> QED BY <2>5, <3>1, <3>2
  <2>7. GoesWith(db'.hdr, main') /\ ExtrasIn(db'.extra, db'.ovf, main')
    BY <2>1, <2>2, <2>6 DEF GoesWith, d
  <2>8. Carries(main', main)
    BY <1>a, <2>1, CarriesSame
  <2> QED BY <1>a, <2>1, <2>7, <2>8, SlotsKept, Settled DEF Settling
<1>4. CASE Crash
  <2>1. /\ db' = NoHandle /\ pc' = "closed" /\ UNCHANGED <<mig, side, legacy>>
        /\ main' \in {main, Lost(main, db)}
    BY <1>4 DEF Crash, Goto
  <2>2. main'.there = main.there /\ WellFormed(main') /\ Carries(main', main)
    <3>1. IsFile(main)
      BY DEF ShapeInv
    <3>2. CASE main' = main
      BY <1>a, <3>2, CarriesSame
    <3>3. CASE main' = Lost(main, db)
      BY <1>a, <3>1, <3>3, LostKept, LostCarries
    <3> QED BY <2>1, <3>2, <3>3
  <2>3. \A x \in Valid' : Same(x, Survivor') => GoesWith(x.hdr, Survivor')
    <3>1. CASE main.there
      <4>1. Survivor = main /\ Survivor' = main' /\ Valid' = Valid
        BY <2>1, <2>2, <3>1, SlotsKept DEF Survivor
      <4> QED BY <1>a, <1>b, <2>2, <4>1, CarriesOn
    <3>2. CASE ~main.there
      <4>1. Survivor = mig /\ Survivor' = mig /\ Valid' = Valid
        BY <2>1, <2>2, <3>2, SlotsKept DEF Survivor
      <4> QED BY <1>b, <4>1
    <3> QED BY <3>1, <3>2
  <2> QED BY <1>a, <2>1, <2>2, <2>3, Shut
<1> QED BY <1>1, <1>2, <1>3, <1>4

(* A step on the copy alone. *)
LEMMA Copying ==
  ASSUME SwapInv, RegionInv, pc \in {"idle", "copy"},
         UNCHANGED <<main, side, legacy, db>>, WellFormed(mig'),
         \/ pc' = "idle"
         \/ /\ pc' \in {"copy", "unlink"}
            /\ mig'.hdr.extra = 0 /\ mig'.hdr.ovf = 0 /\ mig'.hdr.first = 0
            /\ \A x \in Valid : ~Same(x, mig')
            /\ mig'.hdr.cols = job'.cols
  PROVE  RegionInv'
<1>1. main.there /\ Survivor = main /\ Survivor' = main
  BY DEF SwapInv, Settling, Survivor
<1>2. Valid' = Valid
  BY SlotsKept
<1>3. (\A x \in Valid : Same(x, Survivor) => GoesWith(x.hdr, Survivor))'
  BY <1>1, <1>2 DEF RegionInv, Same, GoesWith, ExtrasIn
<1>4. (GoesWith(db.hdr, main) /\ ExtrasIn(db.extra, db.ovf, main))'
  BY DEF RegionInv, GoesWith, ExtrasIn
<1>5. WellFormed(main)'
  BY DEF RegionInv
<1>6. pc' \in Rewriting => Unmatched(mig)'
  BY <1>2 DEF Unmatched, Same, Rewriting
<1>7. pc' \in {"idle", "copy", "unlink"}
  OBVIOUS
<1> QED BY <1>3, <1>4, <1>5, <1>6, <1>7 DEF RegionInv, Rewriting

LEMMA RegionStepRewrite ==
  ASSUME "unsynced" \notin Env, SwapInv, RegionInv, NEW cols, IsSeq(cols), NEW m, NEW room,
         Rewrite(cols, m, room)
  PROVE  RegionInv'
<1> DEFINE p == Plan(cols, m, room)
           h == NewHeader(p.max, cols)
<1>1. /\ pc = "idle" /\ Harmless(Len(cols)) /\ UNCHANGED <<main, side, legacy, db>>
      /\ \/ mig' = NoFile /\ pc' = pc
         \/ mig' = NewFile(h) /\ pc' = "copy" /\ job'.cols = cols
  BY RewriteEffect
<1>2. WellFormed(NewFile(h))
  BY NewWellFormed
<1>3. NewFile(h).hdr = h /\ h.cols = cols /\ h.extra = 0 /\ h.ovf = 0 /\ h.first = 0
  BY NoFileEffect, NewHeaderEffect
<1> HIDE DEF h
<1>4. \A x \in Valid : Len(x.hdr.cols) # Len(cols)
  BY <1>1 DEF Harmless, Valid
<1>5. CASE mig' = NoFile /\ pc' = pc
  BY <1>1, <1>5, NoFileWellFormed, Copying
<1>6. CASE mig' = NewFile(h) /\ pc' = "copy" /\ job'.cols = cols
  <2>1. /\ WellFormed(mig') /\ mig'.hdr.cols = job'.cols
        /\ mig'.hdr.extra = 0 /\ mig'.hdr.ovf = 0 /\ mig'.hdr.first = 0
    BY <1>2, <1>3, <1>6
  <2>2. \A x \in Valid : ~Same(x, mig')
    BY <1>3, <1>4, <1>6 DEF Same
  <2> QED BY <1>1, <1>6, <2>1, <2>2, Copying
<1> QED BY <1>1, <1>5, <1>6

LEMMA RegionStepCopy ==
  ASSUME ShapeInv, SwapInv, RegionInv, CopyRecord \/ Finalize \/ UnlinkOriginal \/ SwapIn
  PROVE  RegionInv'
<1>a. WellFormed(main) /\ WellFormed(mig) /\ WellFormed(NoFile)
  BY NoFileWellFormed DEF RegionInv
<1>b. ASSUME Abort, pc = "copy", UNCHANGED <<main, side, legacy, db>>
      PROVE  RegionInv'
  BY <1>a, <1>b, Copying DEF Abort, Goto
<1>c. pc \in Rewriting => /\ \A x \in Valid : ~Same(x, mig)
                          /\ mig.hdr.extra = 0 /\ mig.hdr.ovf = 0 /\ mig.hdr.first = 0
  BY DEF RegionInv, Unmatched
<1>d. ASSUME SameShape(mig.hdr, mig'.hdr), mig'.regions = mig.regions
      PROVE  WellFormed(mig') /\ \A x : Same(x, mig') <=> Same(x, mig)
  <2>1. GoesWith(mig'.hdr, mig)
    BY <1>a, <1>d DEF WellFormed, GoesWith, SameShape
  <2> QED BY <1>a, <1>d, <2>1, WellFormedWith, CarriesOn
<1>1. CASE CopyRecord
  <2>1. /\ pc = "copy" /\ UNCHANGED <<main, side, legacy, db>>
        /\ \/ mig' = mig /\ pc' = pc /\ job'.cols = job.cols
           \/ Abort
           \/ \E flush \in BOOLEAN : Copied(Append(job.buf, CopiedRow), job.written + 1, flush)
    BY <1>1, CopyEffect
  <2>2. CASE Abort
    BY <1>b, <2>1, <2>2
  <2>3. CASE ~Abort
    <3>1. /\ mig'.hdr = mig.hdr /\ mig'.regions = mig.regions
          /\ pc' = "copy" /\ job'.cols = job.cols
      <4>1. DOMAIN mig = FileFields
        BY Fields DEF ShapeInv, IsFile
      <4>2. CASE mig' = mig /\ pc' = pc /\ job'.cols = job.cols
        BY <2>1, <4>2
      <4>3. CASE \E flush \in BOOLEAN : Copied(Append(job.buf, CopiedRow), job.written + 1, flush)
        BY <2>1, <4>1, <4>3 DEF Copied, FileFields
      <4> QED BY <2>1, <2>3, <4>2, <4>3
    <3>2. WellFormed(mig') /\ \A x : Same(x, mig') <=> Same(x, mig)
      BY <1>d, <3>1 DEF SameShape
    <3>3. mig.hdr.cols = job.cols /\ pc \in Rewriting
      BY <2>1 DEF RegionInv, Rewriting
    <3> QED BY <1>c, <2>1, <3>1, <3>2, <3>3, Copying
  <2> QED BY <2>2, <2>3
<1>2. CASE Finalize
  <2>1. /\ pc = "copy" /\ UNCHANGED <<main, side, legacy, db>>
        /\ \/ Abort
           \/ /\ pc' = "unlink" /\ job' = job /\ mig'.regions = mig.regions
              /\ SameShape(mig.hdr, mig'.hdr)
    BY <1>2, FinalizeEffect
  <2>2. CASE /\ pc' = "unlink" /\ job' = job /\ mig'.regions = mig.regions
             /\ SameShape(mig.hdr, mig'.hdr)
    <3>1. WellFormed(mig') /\ \A x : Same(x, mig') <=> Same(x, mig)
      BY <1>d, <2>2
    <3>2. mig.hdr.cols = job.cols /\ pc \in Rewriting
      BY <2>1 DEF RegionInv, Rewriting
    <3> QED BY <1>c, <2>1, <2>2, <3>1, <3>2, Copying DEF SameShape
  <2> QED BY <1>b, <2>1, <2>2
<1>3. CASE UnlinkOriginal
  <2>1. /\ pc = "unlink" /\ pc' = "swap" /\ main' = NoFile /\ UNCHANGED <<mig, side, legacy>>
    BY <1>3, UnlinkEffect
  <2>2. Survivor' = mig /\ Valid' = Valid
    BY <2>1, NoFileEffect, SlotsKept DEF Survivor
  <2>3. pc \in Rewriting /\ \A x \in Valid : ~Same(x, mig)
    BY <1>c, <2>1 DEF Rewriting
  <2>4. (\A x \in Valid : Same(x, Survivor) => GoesWith(x.hdr, Survivor))'
    BY <2>1, <2>2, <2>3 DEF Same
  <2>5. Unmatched(mig)' /\ WellFormed(main)' /\ WellFormed(mig)'
    BY <1>a, <2>1, <2>2, <2>3 DEF Unmatched, Same
  <2>6. mig'.hdr.extra = 0 /\ mig'.hdr.ovf = 0 /\ mig'.hdr.first = 0
    BY <1>c, <2>1, <2>3
  <2> QED BY <2>1, <2>4, <2>5, <2>6 DEF RegionInv
<1>4. CASE SwapIn
  <2>1. /\ pc = "swap" /\ UNCHANGED <<side, legacy>>
        /\ \/ UNCHANGED <<main, mig>> /\ db' = NoHandle /\ pc' = "closed"
           \/ main' = mig /\ mig' = NoFile /\ db' = NoHandle /\ pc' = "closed"
           \/ /\ main' = mig /\ mig' = NoFile /\ pc' = "idle"
              /\ db'.hdr = FinalHeader /\ db'.extra = 0 /\ db'.ovf = 0
    BY <1>4, SwapEffect
  <2>2. /\ ~main.there /\ mig.there /\ Survivor = mig /\ Survivor' = mig /\ Valid' = Valid
    BY <2>1, SlotsKept DEF SwapInv, Survivor
  <2>3. \A x \in Valid' : Same(x, Survivor') => GoesWith(x.hdr, Survivor')
    BY <2>2 DEF RegionInv
  <2>4. CASE pc' = "closed"
    BY <1>a, <2>1, <2>3, <2>4, Shut
  <2>5. CASE /\ main' = mig /\ mig' = NoFile /\ pc' = "idle"
             /\ db'.hdr = FinalHeader /\ db'.extra = 0 /\ db'.ovf = 0
    <3>1. GoesWith(mig.hdr, mig) /\ mig.hdr.extra = 0 /\ mig.hdr.ovf = 0
      BY <1>a, <1>c, <2>1 DEF WellFormed, Rewriting
    <3>a. SameShape(mig.hdr, FinalHeader)
      BY FinalHeaderEffect
    <3>2. GoesWith(db'.hdr, main') /\ ExtrasIn(db'.extra, db'.ovf, main')
      BY <2>5, <3>1, <3>a DEF GoesWith, SameShape
    <3>3. (\A x \in Valid : Same(x, Survivor) => GoesWith(x.hdr, Survivor))'
      BY <2>3 DEF Same, GoesWith, ExtrasIn
    <3>4. (GoesWith(db.hdr, main) /\ ExtrasIn(db.extra, db.ovf, main))'
      BY <3>2 DEF GoesWith, ExtrasIn
    <3>5. WellFormed(main)' /\ WellFormed(mig)'
      BY <1>a, <2>5
    <3> QED BY <2>5, <3>3, <3>4, <3>5 DEF RegionInv, Rewriting
  <2> QED BY <2>1, <2>4, <2>5
<1> QED BY <1>1, <1>2, <1>3, <1>4

LEMMA RegionStep ==
  ASSUME "unsynced" \notin Env, ShapeInv, SwapInv, RangeInv, RegionInv, [Next]_vars
  PROVE  RegionInv'
<1>1. CASE \/ \E m \in Capacities, room \in Rooms : ResizeByCopy(m, room)
           \/ \E cols \in Schemas, room \in Rooms : MigrateSchema(cols, room)
  BY <1>1, RewriteArgs, RegionStepRewrite DEF RangeInv
<1>2. CASE UNCHANGED vars
  BY <1>2, SlotsKept DEF vars, disk, RegionInv, WellFormed, GoesWith, ExtrasIn, Same, Survivor, Unmatched
<1>3. CallRange
  BY DEF RangeInv
<1> QED BY <1>1, <1>2, <1>3, RegionStepOpen, RegionStepFold, RegionStepWrite, RegionStepRegion,
           RegionStepCopy
        DEF Next, Open, Call, Step

LEMMA RangeInit == Init => RangeInv /\ RegionInv
<1> SUFFICES ASSUME Init PROVE RangeInv /\ RegionInv
  OBVIOUS
<1>1. /\ main = NoFile /\ mig = NoFile /\ side = NoSlots /\ legacy = NoSlots /\ db = NoHandle
      /\ pc = "closed" /\ op = "none" /\ gone = 0 /\ job = NoJob /\ clock = 0 /\ alters = 0
  BY DEF Init
<1>2. Valid = {}
  BY <1>1 DEF Valid, NoSlots, NoSlot
<1>3. HeaderRange
  BY <1>1, <1>2, NoHandleRange DEF HeaderRange
<1>4. JobRange
  BY <1>1, NoJobEffect, EmptySeq, MaxSlotsAssumption DEF JobRange
<1>5. CallRange
  BY <1>1, SchemaAssumption DEF CallRange
<1>6. RegionInv
  BY <1>1, <1>2, NoFileWellFormed DEF RegionInv, Rewriting
<1> QED BY <1>3, <1>4, <1>5, <1>6 DEF RangeInv

LEMMA RangeAlways ==
  ASSUME "unsynced" \notin Env
  PROVE  Spec => [](RangeInv /\ RegionInv)
<1>1. Init => RangeInv /\ RegionInv
  BY RangeInit
<1>2. ShapeInv /\ SwapInv /\ RangeInv /\ RegionInv /\ [Next]_vars => RangeInv' /\ RegionInv'
  BY RangeStep, RegionStep
<1> QED BY <1>1, <1>2, FilesAlways, PTL DEF Spec

LEMMA InRangeIsType ==
  ASSUME ShapeInv, SwapInv, RangeInv, RegionInv
  PROVE  TypeOK
<1>1. /\ pc \in {"closed", "idle", "fold", "remove", "region", "copy", "unlink", "swap"}
  BY DEF SwapInv, Settling
<1>2. /\ op \in {"none", "sync", "close", "clear", "resize", "add", "remap"}
      /\ gone \in 0 .. 4 /\ clock \in 0 .. MaxTs /\ alters \in 0 .. MaxAlters
  BY DEF RangeInv, CallRange
<1>3. /\ db.hdr.max \in 0 .. MaxSlots
      /\ db.hdr.oldest \in Slots /\ (db.hdr.max > 0 => db.hdr.oldest < db.hdr.max)
  <2>1. InRange(db.hdr)
    BY DEF RangeInv, HeaderRange
  <2> QED BY <2>1, MaxSlotsAssumption DEF InRange, Slots
<1>4. db.ovf \in 0 .. Len(main.regions) \/ pc = "swap"
  <2>1. CASE pc = "closed"
    <3>1. db.ovf = 0
      BY <2>1, NewHandleEffect, NewHeaderEffect DEF RegionInv, NoHandle
    <3>2. Len(main.regions) \in Nat
      BY SeqFacts DEF RegionInv, WellFormed
    <3> QED BY <3>1, <3>2
  <2>2. CASE pc \notin {"closed", "swap"}
    BY <2>2 DEF RegionInv, ExtrasIn
  <2> QED BY <2>1, <2>2
<1>5. /\ job.written <= job.avail /\ job.k <= job.avail /\ Len(job.buf) <= MaxSlots
  <2>1. Len(job.buf) \in Nat
    BY SeqFacts DEF RangeInv, JobRange
  <2> QED BY <2>1, MaxSlotsAssumption DEF RangeInv, JobRange
<1> QED BY <1>1, <1>2, <1>3, <1>4, <1>5 DEF TypeOK

(* While no schema changes next to sidecars of the same geometry, the      *)
(* handle's oldest record stays inside the ring, the overflow region it    *)
(* uses stays one of the file's, and the copy loop of tsdb_migrate_engine  *)
(* neither counts more records than there are nor outgrows its buffer, for *)
(* every capacity, block size and sequence of power cuts and failures.     *)
THEOREM SchemaTypes == "unsynced" \notin Env => (Spec => []TypeOK)
<1> SUFFICES ASSUME "unsynced" \notin Env PROVE Spec => []TypeOK
  OBVIOUS
<1>1. Spec => [](RangeInv /\ RegionInv)
  BY RangeAlways
<1>2. ShapeInv /\ SwapInv /\ RangeInv /\ RegionInv => TypeOK
  BY InRangeIsType
<1> QED BY <1>1, <1>2, FilesAlways, PTL

-----------------------------------------------------------------------------
(* Values of a column *)

LEMMA NamesAreValues ==
  ASSUME NEW cols, cols \in Seq(Names)
  PROVE  /\ Len(cols) \in Nat /\ IsSeq(cols) /\ cols \in Seq(Values)
         /\ \A i \in 1 .. Len(cols) : cols[i] \in Names /\ cols[i] \in Values
<1> DEFINE n == Len(cols)
<1>1. n \in Nat /\ cols \in [1 .. n -> Names]
  OBVIOUS
<1> HIDE DEF n
<1>2. cols \in [1 .. n -> Values] /\ cols = [i \in 1 .. n |-> cols[i]]
  BY <1>1 DEF Values
<1>3. cols \in Seq(Values)
  BY <1>1, <1>2
<1> QED BY <1>1, <1>2, <1>3, FunctionIsSeq DEF n

(* A function on the indices of cols with a value for each. *)
LEMMA MakeHonest ==
  ASSUME NEW cols, Len(cols) \in Nat, NEW v, v = [i \in 1 .. Len(cols) |-> v[i]],
         \A i \in 1 .. Len(cols) : v[i] \in Values /\ v[i] \in {cols[i], Zero}
  PROVE  Honest(v, cols)
<1> DEFINE n == Len(cols)
<1>1. n \in Nat /\ v \in [1 .. n -> Values]
  OBVIOUS
<1> HIDE DEF n
<1>2. v \in Seq(Values) /\ Len(v) = n
  BY <1>1
<1> QED BY <1>2 DEF Honest, n

LEMMA HonestItself ==
  ASSUME NEW cols, cols \in Seq(Names)
  PROVE  Honest(cols, cols)
  BY NamesAreValues DEF Honest

LEMMA HonestZeros ==
  ASSUME NEW cols, Len(cols) \in Nat
  PROVE  Honest(Zeros(Len(cols)), cols)
<1> DEFINE v == Zeros(Len(cols))
<1>1. v = [i \in 1 .. Len(cols) |-> v[i]] /\ \A i \in 1 .. Len(cols) : v[i] = Zero
  BY DEF Zeros
<1> HIDE DEF v
<1>2. \A i \in 1 .. Len(cols) : v[i] \in Values /\ v[i] \in {cols[i], Zero}
  BY <1>1 DEF Values
<1>3. Honest(v, cols)
  BY <1>1, <1>2, MakeHonest
<1> QED BY <1>3 DEF v

LEMMA HonestSeq ==
  ASSUME NEW v, NEW cols, Honest(v, cols)
  PROVE  /\ Len(v) \in Nat /\ IsSeq(v) /\ \A i \in 1 .. Len(v) : v[i] \in Values
<1> DEFINE n == Len(v)
<1>1. n \in Nat /\ v \in [1 .. n -> Values]
  BY DEF Honest
<1> HIDE DEF n
<1>2. v = [i \in 1 .. n |-> v[i]]
  BY <1>1
<1> QED BY <1>1, <1>2, FunctionIsSeq DEF n

LEMMA HonestConcat ==
  ASSUME NEW v, NEW c, Honest(v, c), IsSeq(c), NEW w, NEW e, Honest(w, e), IsSeq(e)
  PROVE  Honest(v \o w, c \o e)
<1> DEFINE u == v \o w
           d == c \o e
           m == Len(c)
           n == Len(e)
<1>1. /\ m \in Nat /\ n \in Nat /\ Len(v) = m /\ Len(w) = n /\ IsSeq(v) /\ IsSeq(w)
      /\ \A i \in 1 .. m : v[i] \in Values /\ v[i] \in {c[i], Zero}
      /\ \A i \in 1 .. n : w[i] \in Values /\ w[i] \in {e[i], Zero}
  BY HonestSeq, SeqFacts DEF Honest
<1>2. /\ IsSeq(u) /\ Len(u) = m + n
      /\ \A i \in 1 .. m + n : u[i] = IF i <= m THEN v[i] ELSE w[i - m]
  <2>1. /\ IsSeq(u) /\ Len(u) = Len(v) + Len(w)
        /\ \A i \in 1 .. Len(v) + Len(w) : u[i] = IF i <= Len(v) THEN v[i] ELSE w[i - Len(v)]
    BY <1>1, ConcatSeq
  <2> QED BY <1>1, <2>1
<1>3. /\ Len(d) = m + n
      /\ \A i \in 1 .. m + n : d[i] = IF i <= m THEN c[i] ELSE e[i - m]
  BY <1>1, ConcatSeq
<1> HIDE DEF u, d, m, n
<1>4. \A i \in 1 .. m + n : u[i] \in Values /\ u[i] \in {d[i], Zero}
  <2> TAKE i \in 1 .. m + n
  <2>1. CASE i <= m
    BY <1>1, <1>2, <1>3, <2>1
  <2>2. CASE ~(i <= m)
    <3>1. i - m \in 1 .. n
      BY <1>1, <2>2
    <3> QED BY <1>1, <1>2, <1>3, <2>2, <3>1
  <2> QED BY <2>1, <2>2
<1>5. u = [i \in 1 .. Len(d) |-> u[i]] /\ Len(d) \in Nat
  BY <1>1, <1>2, <1>3, SeqFacts
<1>6. Honest(u, d)
  BY <1>3, <1>4, <1>5, MakeHonest
<1> QED BY <1>6 DEF u, d

LEMMA HonestPrefix ==
  ASSUME NEW v, NEW c, Honest(v, c), IsSeq(c), NEW n \in Nat, n <= Len(c)
  PROVE  Honest(SubSeq(v, 1, n), SubSeq(c, 1, n))
<1> DEFINE u == SubSeq(v, 1, n)
           d == SubSeq(c, 1, n)
<1>1. /\ Len(c) \in Nat /\ Len(v) = Len(c) /\ IsSeq(v)
      /\ \A i \in 1 .. Len(c) : v[i] \in Values /\ v[i] \in {c[i], Zero}
  BY HonestSeq, SeqFacts DEF Honest
<1>2. IsSeq(u) /\ Len(u) = n /\ \A i \in 1 .. n : u[i] = v[i]
  BY <1>1, PrefixSeq
<1>3. Len(d) = n /\ \A i \in 1 .. n : d[i] = c[i]
  BY PrefixSeq
<1> HIDE DEF u, d
<1>4. \A i \in 1 .. n : u[i] \in Values /\ u[i] \in {d[i], Zero}
  BY <1>1, <1>2, <1>3
<1>5. u = [i \in 1 .. Len(d) |-> u[i]]
  BY <1>2, <1>3, SeqFacts
<1>6. Honest(u, d)
  BY <1>3, <1>4, <1>5, MakeHonest
<1> QED BY <1>6 DEF u, d

(* Matched by name, a value stays that of its column. *)
LEMMA HonestMapped ==
  ASSUME NEW vals, NEW old, Honest(vals, old), IsSeq(old), NEW new, new \in Seq(Names)
  PROVE  Honest(Mapped(vals, old, new), new)
<1> DEFINE u == Mapped(vals, old, new)
<1>1. Len(new) \in Nat /\ IsSeq(new) /\ DOMAIN new = 1 .. Len(new)
  BY NamesAreValues, SeqFacts
<1>2. /\ DOMAIN old = 1 .. Len(old)
      /\ \A i \in DOMAIN old : vals[i] \in Values /\ vals[i] \in {old[i], Zero}
  BY HonestSeq, SeqFacts DEF Honest
<1>3. u = [i \in 1 .. Len(new) |-> u[i]]
  BY <1>1 DEF Mapped
<1>4. ASSUME NEW i \in 1 .. Len(new)
      PROVE  u[i] \in Values /\ u[i] \in {new[i], Zero}
  <2>1. u[i] = IF new[i] \in Elements(old) THEN vals[CHOOSE j \in DOMAIN old : old[j] = new[i]] ELSE Zero
    BY <1>1 DEF Mapped
  <2>2. CASE new[i] \in Elements(old)
    <3> DEFINE j == CHOOSE j \in DOMAIN old : old[j] = new[i]
    <3>1. j \in DOMAIN old /\ old[j] = new[i]
      BY <2>2 DEF Elements
    <3>2. u[i] = vals[j]
      BY <2>1, <2>2
    <3> HIDE DEF j
    <3> QED BY <1>2, <3>1, <3>2
  <2>3. CASE new[i] \notin Elements(old)
    BY <2>1, <2>3 DEF Values
  <2> QED BY <2>2, <2>3
<1> HIDE DEF u
<1>5. Honest(u, new)
  BY <1>1, <1>3, <1>4, MakeHonest
<1> QED BY <1>5 DEF u

LEMMA RangeOfNames ==
  ASSUME NEW s, IsSeq(s), \A i \in 1 .. Len(s) : s[i] \in Names
  PROVE  s \in Seq(Names)
<1> DEFINE n == Len(s)
<1>1. n \in Nat /\ s \in [1 .. n -> Elements(s)]
  BY SeqFacts
<1> HIDE DEF n
<1>2. s \in [1 .. n -> Names]
  BY <1>1 DEF n
<1> QED BY <1>1, <1>2

(* The extra columns of an overflow region that is intact. *)
LEMMA ExtraNamesIntact ==
  ASSUME NEW r, HonestRegion(r)
  PROVE  ExtraNames(r) = r.cols
<1>1. Len(r.cols) \in Nat /\ IsSeq(r.cols)
  BY NamesAreValues DEF HonestRegion
<1>2. r.cols = [i \in DOMAIN r.cols |-> r.cols[i]]
  BY <1>1, SeqFacts
<1> QED BY <1>2 DEF ExtraNames, HonestRegion

(* Every column has a name that was given to it, and reading record k      *)
(* yields values of these columns.                                         *)
LEMMA ReadHonest ==
  ASSUME NEW f, HonestFile(f), NEW d, d.hdr.cols = f.hdr.cols, ExtrasIn(d.extra, d.ovf, f),
         InRange(d.hdr), clock \in 0 .. MaxTs, Counts(d.hdr, clock), d.first \in Nat
  PROVE  /\ Columns(f, d) \in Seq(Names)
         /\ \A k \in 0 .. Available(d.hdr) - 1 : Honest(Read(f, d, k).vals, Columns(f, d))
<1> DEFINE c == d.hdr.cols
           r == f.regions[d.ovf]
           e == IF d.extra = 0 THEN << >> ELSE SubSeq(ExtraNames(r), 1, d.extra)
<1>1. c \in Seq(Names) /\ IsSeq(c) /\ Len(c) \in Nat
  BY NamesAreValues DEF HonestFile
<1>2. d.extra # 0 => /\ HonestRegion(r) /\ d.extra \in Nat /\ d.extra <= Len(r.cols)
                     /\ r.cols \in Seq(Names) /\ IsSeq(r.cols) /\ ExtraNames(r) = r.cols
  <2> SUFFICES ASSUME d.extra # 0
               PROVE  /\ HonestRegion(r) /\ d.extra \in Nat /\ d.extra <= Len(r.cols)
                      /\ r.cols \in Seq(Names) /\ IsSeq(r.cols) /\ ExtraNames(r) = r.cols
    OBVIOUS
  <2>1. d.extra \in Nat /\ d.ovf \in 1 .. Len(f.regions) /\ d.extra <= Len(r.cols)
    BY DEF ExtrasIn
  <2>2. HonestRegion(r)
    BY <2>1 DEF HonestFile
  <2> QED BY <2>1, <2>2, NamesAreValues, ExtraNamesIntact DEF HonestRegion
<1>3. IsSeq(e) /\ \A i \in 1 .. Len(e) : e[i] \in Names
  <2>1. CASE d.extra = 0
    BY <2>1, EmptySeq
  <2>2. CASE d.extra # 0
    <3>1. e = SubSeq(r.cols, 1, d.extra)
      BY <1>2, <2>2
    <3>2. \A i \in 1 .. Len(r.cols) : r.cols[i] \in Names
      BY <1>2, <2>2, NamesAreValues
    <3>3. Len(r.cols) \in Nat
      BY <1>2, <2>2, NamesAreValues
    <3> QED BY <1>2, <2>2, <3>1, <3>2, <3>3, PrefixSeq
  <2> QED BY <2>1, <2>2
<1>4. Columns(f, d) = c \o e
  BY DEF Columns
<1>5. \A i \in 1 .. Len(c) : c[i] \in Names
  BY <1>1, NamesAreValues
<1> HIDE DEF e, c
<1>6. c \o e \in Seq(Names)
  <2>1. /\ IsSeq(c \o e) /\ Len(c \o e) = Len(c) + Len(e) /\ Len(e) \in Nat
        /\ \A i \in 1 .. Len(c) + Len(e) : (c \o e)[i] = IF i <= Len(c) THEN c[i] ELSE e[i - Len(c)]
    BY <1>1, <1>3, ConcatSeq, SeqFacts
  <2>2. ASSUME NEW i \in 1 .. Len(c \o e) PROVE (c \o e)[i] \in Names
    <3>1. CASE i <= Len(c)
      BY <1>1, <1>5, <2>1, <3>1
    <3>2. CASE ~(i <= Len(c))
      <4>1. i - Len(c) \in 1 .. Len(e)
        BY <1>1, <2>1, <3>2
      <4> QED BY <1>3, <2>1, <3>2, <4>1
    <3> QED BY <3>1, <3>2
  <2> QED BY <2>1, <2>2, RangeOfNames
<1>7. ASSUME NEW k \in 0 .. Available(d.hdr) - 1
      PROVE  Honest(Read(f, d, k).vals, c \o e)
  <2> DEFINE row  == f.data[PhysicalIdx(d.hdr, k)]
             n    == (d.hdr.total - Available(d.hdr)) + k
             base == IF row = NoRow THEN Zeros(Len(c)) ELSE row.vals
             x    == Extras(f, d, n)
  <2>1. PhysicalIdx(d.hdr, k) \in Slots
    <3>1. /\ d.hdr.max \in 0 .. MaxSlots /\ d.hdr.total \in Nat /\ d.hdr.oldest \in Nat
          /\ d.hdr.max = 0 => d.hdr.total <= MaxSlots
      BY DEF InRange
    <3>2. CASE d.hdr.max = 0
      BY <3>1, <3>2, MaxSlotsAssumption DEF PhysicalIdx, Unlimited, Available, Slots
    <3>3. CASE d.hdr.max # 0
      <4>1. k \in Nat
        BY AvailableRange
      <4>2. ((d.hdr.oldest + k) % d.hdr.max) \in 0 .. d.hdr.max - 1
        BY <3>1, <3>3, <4>1
      <4> QED BY <3>1, <3>3, <4>2, MaxSlotsAssumption DEF PhysicalIdx, Unlimited, Slots
    <3> QED BY <3>2, <3>3
  <2>2. Honest(base, c)
    <3>1. HonestRow(row, c)
      BY <2>1 DEF HonestFile, c
    <3> QED BY <1>1, <3>1, HonestZeros DEF HonestRow
  <2>3. n \in 0 .. MaxTs
    <3>1. /\ d.hdr.total \in Nat /\ Available(d.hdr) \in Nat /\ Available(d.hdr) <= d.hdr.total
      BY AvailableRange DEF InRange
    <3>2. d.hdr.total <= MaxTs
      BY <3>1, SchemaAssumption DEF Counts
    <3> QED BY <3>1, <3>2, SchemaAssumption, SMTT(30)
  <2> HIDE DEF n
  <2>4. Honest(x, e)
    <3>1. CASE d.extra = 0
      <4>1. x = << >> /\ e = << >>
        BY <3>1 DEF Extras, e
      <4>2. << >> \in Seq(Values) /\ Len(<< >>) = 0
        OBVIOUS
      <4> QED BY <4>1, <4>2 DEF Honest
    <3>2. CASE d.extra # 0
      <4>1. e = SubSeq(r.cols, 1, d.extra) /\ Len(e) = d.extra /\ d.extra \in Nat
        <5>1. e = SubSeq(r.cols, 1, d.extra)
          BY <1>2, <3>2 DEF e
        <5> QED BY <1>2, <3>2, <5>1, PrefixSeq
      <4>2. CASE n < d.first
        <5>1. x = Zeros(Len(e))
          BY <3>2, <4>1, <4>2 DEF Extras
        <5> QED BY <4>1, <5>1, HonestZeros
      <4>3. CASE ~(n < d.first)
        <5>1. x = SubSeq(r.cells[n - d.first], 1, d.extra)
          BY <3>2, <4>3 DEF Extras
        <5>2. n - d.first \in 0 .. MaxTs
          BY <2>3, <4>3, SchemaAssumption
        <5>3. Honest(r.cells[n - d.first], r.cols)
          BY <1>2, <3>2, <5>2 DEF HonestRegion
        <5> QED BY <1>2, <3>2, <4>1, <5>1, <5>3, HonestPrefix
      <4> QED BY <4>2, <4>3
    <3> QED BY <3>1, <3>2
  <2>5. Read(f, d, k).vals = base \o x
    BY DEF Read, Base, n, c
  <2> HIDE DEF base, x
  <2> QED BY <1>1, <1>3, <2>2, <2>4, <2>5, HonestConcat
<1> QED BY <1>4, <1>6, <1>7

LEMMA HonestInvImplies ==
  ASSUME RangeInv, RegionInv, HonestInv
  PROVE  ColumnsHonest
<1> SUFFICES ASSUME pc = "idle"
             PROVE  LET cols == Columns(main, db)
                        rows == Reads(main, db)
                    IN  /\ Elements(cols) \subseteq Names
                        /\ \A i \in DOMAIN rows : rows[i].ts # 0 =>
                             \A j \in DOMAIN cols : rows[i].vals[j] \in {cols[j], Zero}
  BY DEF ColumnsHonest
<1> DEFINE cols == Columns(main, db)
           rows == Reads(main, db)
<1>1. /\ HonestFile(main) /\ db.hdr.cols = main.hdr.cols /\ ExtrasIn(db.extra, db.ovf, main)
      /\ InRange(db.hdr) /\ clock \in 0 .. MaxTs /\ Counts(db.hdr, clock) /\ db.first \in Nat
  BY DEF RangeInv, HeaderRange, CallRange, RegionInv, GoesWith, HonestInv
<1>2. /\ cols \in Seq(Names)
      /\ \A k \in 0 .. Available(db.hdr) - 1 : Honest(Read(main, db, k).vals, cols)
  BY <1>1, ReadHonest
<1>3. DOMAIN rows = 1 .. Available(db.hdr) /\ Available(db.hdr) \in Nat
  BY <1>1, AvailableRange DEF Reads
<1>4. \A i \in DOMAIN rows : Honest(rows[i].vals, cols)
  <2> TAKE i \in DOMAIN rows
  <2>1. rows[i] = Read(main, db, i - 1) /\ i - 1 \in 0 .. Available(db.hdr) - 1
    BY <1>3 DEF Reads
  <2> QED BY <1>2, <2>1
<1> HIDE DEF cols, rows
<1>5. DOMAIN cols = 1 .. Len(cols) /\ \A i \in 1 .. Len(cols) : cols[i] \in Names
  BY <1>2, NamesAreValues, SeqFacts
<1>6. Elements(cols) \subseteq Names
  BY <1>5 DEF Elements
<1>7. \A i \in DOMAIN rows : \A j \in DOMAIN cols : rows[i].vals[j] \in {cols[j], Zero}
  BY <1>4, <1>5 DEF Honest
<1> QED BY <1>6, <1>7 DEF cols, rows

-----------------------------------------------------------------------------
(* Steps on the values *)

LEMMA HonestOther ==
  ASSUME NEW f, HonestFile(f), NEW g, g.hdr.cols = f.hdr.cols, g.data = f.data, g.regions = f.regions
  PROVE  HonestFile(g)
  BY DEF HonestFile

LEMMA HonestNew ==
  ASSUME NEW m, NEW cols, cols \in Seq(Names)
  PROVE  HonestFile(NewFile(NewHeader(m, cols)))
<1> DEFINE h == NewHeader(m, cols)
           f == NewFile(h)
<1>1. f.hdr.cols = cols /\ f.regions = << >> /\ f.data = [s \in Slots |-> NoRow]
  BY NoFileEffect, NewHeaderEffect
<1> HIDE DEF f
<1>2. HonestFile(f)
  BY <1>1, EmptySeq DEF HonestFile, HonestRow
<1> QED BY <1>2 DEF f

LEMMA HonestNoFile == HonestFile(NoFile) /\ NoFile.hdr.total = 0 /\ NoFile.hdr.first = 0
<1> DEFINE h == NewHeader(0, << >>)
<1>1. NoFile.hdr = h /\ NoFile.regions = << >> /\ NoFile.data = [s \in Slots |-> NoRow]
  BY NoFileEffect
<1>2. h.cols = << >> /\ h.total = 0 /\ h.first = 0
  BY NewHeaderEffect
<1> HIDE DEF h
<1>3. << >> \in Seq(Names) /\ Len(<< >>) = 0
  OBVIOUS
<1> QED BY <1>1, <1>2, <1>3 DEF HonestFile, HonestRow

LEMMA ConfigNames ==
  \A s \in {ConfigCols} \cup Schemas \cup ExtraCols : s \in Seq(Names)
<1> TAKE s \in {ConfigCols} \cup Schemas \cup ExtraCols
<1>1. IsSeq(s)
  BY ConfigSeqs
<1>2. Len(s) \in Nat /\ DOMAIN s = 1 .. Len(s)
  BY <1>1, SeqFacts
<1>3. \A i \in 1 .. Len(s) : s[i] \in Names
  BY <1>2 DEF Names, Elements
<1> QED BY <1>1, <1>3, RangeOfNames

(* A step that ends with an open database. *)
LEMMA HonestSettled ==
  ASSUME RangeInv, RegionInv, HonestInv, main.there, main'.there, Carries(main', main),
         HonestFile(main'), mig' = mig, clock' \in Nat, clock <= clock',
         Counts(main'.hdr, clock'),
         \A x \in Valid' : x \in Valid \/ Counts(x.hdr, clock'),
         pc' \in Settling, Counts(db'.hdr, clock'), db'.first \in Nat,
         db'.extra > 0 => db'.hdr.extra > 0,
         pc' = "region" /\ op' = "add" => db'.extra = 0,
         LateHonest'
  PROVE  HonestInv'
<1>1. Survivor = main /\ Survivor' = main' /\ clock \in Nat
  BY SchemaAssumption DEF Survivor, RangeInv, CallRange
<1>2. ASSUME NEW h, InRange(h), Counts(h, clock) PROVE Counts(h, clock')
  BY <1>1, <1>2 DEF Counts, InRange
<1>3. Counts(mig'.hdr, clock')
  BY <1>2 DEF HonestInv, RangeInv, HeaderRange
<1>4. WellFormed(main)
  BY DEF RegionInv
<1>5. \A x \in Valid' : Same(x, main') => Counts(x.hdr, clock')
  <2> SUFFICES ASSUME NEW x \in Valid', Same(x, main') PROVE Counts(x.hdr, clock')
    OBVIOUS
  <2>1. CASE x \in Valid
    <3>1. Same(x, main)
      BY <1>4, CarriesOn
    <3>2. Counts(x.hdr, clock)
      BY <1>1, <2>1, <3>1 DEF HonestInv
    <3>3. InRange(x.hdr)
      BY <2>1 DEF RangeInv, HeaderRange
    <3> QED BY <1>2, <3>2, <3>3
  <2> QED BY <2>1
<1>6. (\A x \in Valid : Same(x, Survivor) => Counts(x.hdr, clock))'
  BY <1>1, <1>5 DEF Same, Counts
<1>7. pc' \notin {"closed", "swap", "copy", "unlink"}
  BY DEF Settling
<1>8. HonestFile(mig')
  BY DEF HonestInv
<1> QED BY <1>3, <1>6, <1>7, <1>8 DEF HonestInv

(* The late values stay late, or they are synced. *)
LEMMA LateStays ==
  ASSUME RegionInv, LateHonest, Carries(main', main),
         \/ db'.late = NoLate
         \/ /\ db'.late = db.late /\ db'.extra = db.extra /\ db'.ovf = db.ovf
            /\ pc' \notin {"closed", "swap", "region"}
  PROVE  LateHonest'
<1> SUFFICES ASSUME db'.late # NoLate
             PROVE  /\ pc' \notin {"closed", "swap", "region"} /\ db'.extra > 0
                    /\ db'.late.at \in 0 .. MaxTs
                    /\ Honest(db'.late.was, main'.regions[db'.ovf].cols)
  BY DEF LateHonest, Honest
<1>1. /\ pc \notin {"closed", "swap"} /\ db.extra > 0 /\ db.late.at \in 0 .. MaxTs
      /\ Honest(db.late.was, main.regions[db.ovf].cols)
  BY DEF LateHonest
<1>2. db.ovf \in 1 .. Len(main.regions)
  <2>1. ExtrasIn(db.extra, db.ovf, main)
    BY <1>1 DEF RegionInv
  <2> QED BY <1>1, <2>1 DEF ExtrasIn
<1>3. main'.regions[db.ovf].cols = main.regions[db.ovf].cols
  BY <1>2 DEF Carries
<1> QED BY <1>1, <1>3

(* A step that ends with no open database. *)
LEMMA HonestShut ==
  ASSUME HonestFile(main'), HonestFile(mig'), Counts(main'.hdr, clock'), Counts(mig'.hdr, clock'),
         pc' \in {"closed", "swap"}, db'.late = NoLate,
         pc' = "swap" => Counts(FinalHeader', clock'),
         \A x \in Valid' : Same(x, Survivor') => Counts(x.hdr, clock')
  PROVE  HonestInv'
<1>1. (\A x \in Valid : Same(x, Survivor) => Counts(x.hdr, clock))'
  BY DEF Same, Counts
<1>2. LateHonest'
  BY DEF LateHonest
<1>3. pc' \in {"unlink", "swap"} => Counts(FinalHeader, clock)'
  BY DEF Counts
<1> QED BY <1>1, <1>2, <1>3 DEF HonestInv

(* What a power cut leaves of the late values is honest too. *)
LEMMA HonestLost ==
  ASSUME ShapeInv, RegionInv, HonestFile(main), LateHonest
  PROVE  HonestFile(Lost(main, db))
<1> DEFINE g == Lost(main, db)
           s == main.regions
           t == g.regions
<1>1. g.hdr = main.hdr /\ g.data = main.data
  BY LostKept DEF ShapeInv
<1>2. IsFile(main) /\ IsSeq(s) /\ \A i \in 1 .. Len(s) : IsRegion(s[i])
  BY DEF ShapeInv, RegionInv, WellFormed
<1>a. CellApart(s, t, db)
  BY <1>2, LostRegions
<1> HIDE DEF t, g
<1>3. /\ IsSeq(t) /\ Len(t) = Len(s)
      /\ \A i \in 1 .. Len(s) :
           /\ IsRegion(t[i]) /\ t[i].cols = s[i].cols
           /\ t[i] = s[i] \/ /\ db.late # NoLate /\ i = db.ovf
                             /\ t[i].intact = s[i].intact
                             /\ t[i].cells = [s[i].cells EXCEPT ![db.late.at] = db.late.was]
  BY <1>a DEF CellApart
<1>4. ASSUME NEW i \in 1 .. Len(s)
      PROVE  HonestRegion(t[i])
  <2>1. HonestRegion(s[i])
    BY DEF HonestFile
  <2>2. CASE t[i] = s[i]
    BY <2>1, <2>2
  <2>3. CASE /\ db.late # NoLate /\ i = db.ovf
             /\ t[i].intact = s[i].intact
             /\ t[i].cells = [s[i].cells EXCEPT ![db.late.at] = db.late.was]
    <3>1. Honest(db.late.was, s[i].cols)
      BY <2>3 DEF LateHonest
    <3>2. db.late.was \in Seq(Values)
      BY <3>1 DEF Honest
    <3>3. t[i].intact /\ t[i].cols = s[i].cols /\ s[i].cols \in Seq(Names)
      BY <1>3, <2>1, <2>3 DEF HonestRegion
    <3>4. /\ t[i].cells \in [0 .. MaxTs -> Seq(Values)]
          /\ \A j \in 0 .. MaxTs : t[i].cells[j] = s[i].cells[j] \/ t[i].cells[j] = db.late.was
      BY <2>1, <2>3, <3>2 DEF HonestRegion
    <3> QED BY <2>1, <3>1, <3>3, <3>4 DEF HonestRegion
  <2> QED BY <1>3, <2>2, <2>3
<1>5. g.regions = t
  BY DEF t, g
<1>6. HonestFile(g)
  BY <1>1, <1>3, <1>4, <1>5 DEF HonestFile
<1> QED BY <1>6 DEF g

LEMMA HonestStepOpen ==
  ASSUME ShapeInv, SwapInv, RangeInv, RegionInv, HonestInv,
         Recover \/ CreateFile \/ OpenExisting \/ Crash
  PROVE  HonestInv'
<1>a. /\ HonestFile(main) /\ HonestFile(mig) /\ HonestFile(NoFile)
      /\ clock \in Nat /\ Counts(main.hdr, clock) /\ Counts(mig.hdr, clock)
      /\ Counts(NoFile.hdr, clock)
  BY HonestNoFile, SchemaAssumption DEF HonestInv, RangeInv, CallRange, Counts
<1>b. \A x \in Valid : Same(x, Survivor) => Counts(x.hdr, clock)
  BY DEF HonestInv
<1>c. ASSUME CreateDatabase, mig' = mig, clock' = clock
      PROVE  HonestInv'
  <2> DEFINE h == NewHeader(ConfigMax, ConfigCols)
  <2>1. main' = NewFile(h) /\ db' = NewHandle(h) /\ Valid' = {} /\ pc' = "idle"
    BY <1>c, CreatedEffect
  <2>2. HonestFile(NewFile(h)) /\ NewFile(h).hdr = h
    BY ConfigNames, HonestNew, NoFileEffect
  <2>3. /\ h.total = 0 /\ h.first = 0 /\ h.extra = 0
        /\ NewHandle(h).hdr = h /\ NewHandle(h).extra = h.extra /\ NewHandle(h).first = h.first
        /\ NewHandle(h).late = NoLate
    BY NewHandleEffect, NewHeaderEffect
  <2> HIDE DEF h
  <2>4. Counts(h, clock')
    BY <1>a, <1>c, <2>3 DEF Counts
  <2>5. LateHonest'
    BY <2>1, <2>3 DEF LateHonest
  <2> QED BY <1>a, <1>c, <2>1, <2>2, <2>3, <2>4, <2>5 DEF HonestInv
<1>1. CASE Recover
  <2>1. /\ pc = "closed" /\ mig.there /\ clock' = clock
        /\ \/ main.there /\ mig' = NoFile /\ UNCHANGED <<main, side, legacy, db, pc>>
           \/ ~main.there /\ main' = mig /\ mig' = NoFile /\ UNCHANGED <<side, legacy, db, pc>>
           \/ CreateDatabase /\ mig' = mig
    BY <1>1, Zenon DEF Recover
  <2>a. db.late = NoLate
    BY <2>1 DEF HonestInv, LateHonest
  <2>2. CASE main.there /\ mig' = NoFile /\ UNCHANGED <<main, side, legacy, db, pc>>
    <3>1. Survivor' = Survivor
      BY <2>1, <2>2 DEF Survivor
    <3> QED BY <1>a, <1>b, <2>1, <2>a, <2>2, <3>1, SlotsKept, HonestShut
  <2>3. CASE ~main.there /\ main' = mig /\ mig' = NoFile /\ UNCHANGED <<side, legacy, db, pc>>
    <3>1. Survivor' = Survivor
      BY <2>1, <2>3 DEF Survivor
    <3> QED BY <1>a, <1>b, <2>1, <2>a, <2>3, <3>1, SlotsKept, HonestShut
  <2> QED BY <1>c, <2>1, <2>2, <2>3
<1>2. CASE CreateFile
  BY <1>c, <1>2 DEF CreateFile
<1>3. CASE OpenExisting
  <2>1. /\ pc = "closed" /\ pc' = "idle" /\ main.there /\ db' = OpenedHandle(main)
        /\ UNCHANGED <<main, mig, side, legacy, clock>>
    BY <1>3 DEF OpenExisting, Goto, disk
  <2> DEFINE d == OpenedHandle(main)
  <2>2. d.extra = d.hdr.extra /\ d.first = d.hdr.first /\ d.late = NoLate
    BY OpenedEffect DEF CopiesAgree
  <2>3. \A x \in Valid : Same(x, main) => Counts(x.hdr, clock)
    BY <1>b, <2>1 DEF Survivor
  <2>4. \/ d.hdr = main.hdr
        \/ \E x \in Valid : Same(x, main) /\ d.hdr.total = x.hdr.total /\ d.hdr.first = x.hdr.first
    BY OpenedFrom
  <2> HIDE DEF d
  <2>5. Counts(d.hdr, clock)
    BY <1>a, <2>3, <2>4 DEF Counts
  <2>6. Counts(db'.hdr, clock') /\ db'.first \in Nat /\ (db'.extra > 0 => db'.hdr.extra > 0)
    BY <2>1, <2>2, <2>5 DEF Counts, d
  <2>7. Carries(main', main)
    BY <2>1, CarriesSame DEF RegionInv
  <2>8. LateHonest'
    BY <2>1, <2>2 DEF LateHonest, d
  <2> QED BY <1>a, <2>1, <2>6, <2>7, <2>8, SlotsKept, HonestSettled DEF Settling
<1>4. CASE Crash
  <2>1. /\ pc' = "closed" /\ db' = NoHandle /\ UNCHANGED <<mig, side, legacy, clock>>
        /\ main' \in {main, Lost(main, db)}
    BY <1>4 DEF Crash, Goto
  <2>2. main'.there = main.there /\ main'.hdr = main.hdr /\ HonestFile(main')
    <3>1. HonestFile(Lost(main, db)) /\ IsFile(main)
      BY HonestLost DEF ShapeInv, HonestInv
    <3> QED BY <1>a, <2>1, <3>1, LostKept
  <2>3. db'.late = NoLate
    BY <2>1, NewHandleEffect DEF NoHandle
  <2>4. \A x \in Valid' : Same(x, Survivor') => Counts(x.hdr, clock')
    <3>1. Valid' = Valid /\ Survivor'.hdr = Survivor.hdr
      BY <2>1, <2>2, SlotsKept DEF Survivor
    <3> QED BY <1>b, <2>1, <3>1 DEF Same
  <2> QED BY <1>a, <2>1, <2>2, <2>3, <2>4, HonestShut
<1> QED BY <1>1, <1>2, <1>3, <1>4

LEMMA HonestStepFold ==
  ASSUME ShapeInv, SwapInv, RangeInv, RegionInv, HonestInv,
         Sync \/ Close \/ Clear \/ FoldHeader \/ RemoveSlot \/ RemoveReturns
           \/ \E m \in Capacities : ResizeInPlace(m)
  PROVE  HonestInv'
<1>a. /\ pc \in Settling /\ mig' = mig /\ main.there
      /\ main'.there /\ pc' \in Settling \cup {"closed"}
  BY FoldShape DEF Ordinary, SwapInv, Settling
<1>b. /\ HonestFile(main) /\ HonestFile(mig) /\ WellFormed(main) /\ GoesWith(db.hdr, main)
      /\ clock \in Nat /\ Counts(main.hdr, clock) /\ Counts(mig.hdr, clock)
      /\ Counts(db.hdr, clock) /\ db.first \in Nat /\ (db.extra > 0 => db.hdr.extra > 0)
      /\ LateHonest
  BY <1>a, SchemaAssumption DEF HonestInv, RangeInv, CallRange, RegionInv, Settling
<1>c. IsHeader(db.hdr)
  BY DEF ShapeInv, IsHandle
<1>d. Survivor = main /\ Survivor' = main'
  BY <1>a DEF Survivor
<1>e. \A m : LET h == [db.hdr EXCEPT !.max = m] IN Counts(h, clock) /\ h.extra = db.hdr.extra
  BY <1>b, <1>c, ResizedHeader DEF Counts, SameShape
<1>f. ASSUME UNCHANGED <<main, side, legacy, clock>>, pc' = "closed", db' = NoHandle
      PROVE  HonestInv'
  <2>1. db'.late = NoLate
    BY <1>f, NewHandleEffect DEF NoHandle
  <2> QED BY <1>a, <1>b, <1>d, <1>f, <2>1, SlotsKept, HonestShut DEF HonestInv
<1>g. ASSUME UNCHANGED <<main, clock>>, pc' \in Settling \ {"region"}, Valid' \subseteq Valid,
             Counts(db'.hdr, clock), db'.first \in Nat, db'.extra > 0 => db'.hdr.extra > 0,
             db'.late \in {NoLate, db.late}, db'.extra = db.extra, db'.ovf = db.ovf
      PROVE  HonestInv'
  <2>1. Carries(main', main)
    BY <1>b, <1>g, CarriesSame
  <2>2. LateHonest'
    BY <1>b, <1>g, <2>1, LateStays DEF Settling
  <2> QED BY <1>a, <1>b, <1>g, <2>1, <2>2, HonestSettled
<1>1. CASE Sync \/ Close
  <2>1. pc' = "fold" /\ UNCHANGED <<main, side, legacy, db, clock>>
    BY <1>1 DEF Sync, Close, StartFold, Goto, disk
  <2> QED BY <1>b, <1>g, <2>1, SlotsKept DEF Settling
<1>2. CASE Clear
  <2>1. /\ pc' = "fold" /\ UNCHANGED <<main, side, legacy, clock>>
        /\ db'.hdr.total = 0 /\ db'.hdr.first = 0 /\ db'.hdr.extra = db.hdr.extra
        /\ db'.extra = db.extra /\ db'.ovf = db.ovf /\ db'.first = 0 /\ db'.late = db.late
    BY <1>2, ClearEffect
  <2> QED BY <1>b, <1>g, <2>1, SlotsKept DEF Settling, Counts
<1>3. CASE FoldHeader
  <2>1. UNCHANGED <<side, legacy, clock>>
    BY <1>3, FoldHeaderEffect
  <2>2. CASE /\ main'.hdr = db.hdr /\ main'.regions = main.regions /\ main'.data = main.data
             /\ db'.hdr = db.hdr /\ SameCopies(db, db') /\ db'.late = NoLate /\ pc' = "remove"
    <3>1. Carries(main', main) /\ HonestFile(main')
      BY <1>b, <2>2, WellFormedWith, HonestOther DEF GoesWith
    <3>2. LateHonest'
      BY <2>2 DEF LateHonest
    <3> QED BY <1>a, <1>b, <2>1, <2>2, <3>1, <3>2, SlotsKept, HonestSettled DEF Settling, SameCopies
  <2>3. CASE UNCHANGED main /\ pc' = "closed" /\ db' = NoHandle
    BY <1>f, <2>1, <2>3
  <2>4. CASE /\ UNCHANGED main /\ pc' = "idle" /\ SameCopies(db, db')
             /\ db'.hdr = IF op = "resize" THEN [db.hdr EXCEPT !.max = job.max] ELSE db.hdr
             /\ db'.late = IF op = "sync" THEN NoLate ELSE db.late
    <3>1. /\ db'.late \in {NoLate, db.late} /\ db'.extra = db.extra /\ db'.ovf = db.ovf
          /\ db'.first = db.first
      BY <2>4 DEF SameCopies
    <3>2. Counts(db'.hdr, clock) /\ (db'.extra > 0 => db'.hdr.extra > 0)
      BY <1>b, <1>e, <2>4, <3>1
    <3> QED BY <1>b, <1>g, <2>1, <2>4, <3>1, <3>2, SlotsKept DEF Settling
  <2> QED BY <1>3, <2>2, <2>3, <2>4, FoldHeaderEffect
<1>4. CASE RemoveSlot
  <2>1. UNCHANGED <<main, db, pc, clock>> /\ pc = "remove"
    BY <1>4 DEF RemoveSlot
  <2> QED BY <1>4, <1>b, <1>g, <2>1, RemoveValid DEF Settling
<1>5. CASE RemoveReturns
  <2>1. /\ UNCHANGED <<main, side, legacy, clock>>
        /\ \/ pc' = "closed" /\ db' = NoHandle
           \/ pc' = "idle" /\ db'.hdr = db.hdr /\ SameCopies(db, db') /\ db'.late = db.late
    BY <1>5, RemoveReturnsEffect
  <2> QED BY <1>b, <1>f, <1>g, <2>1, SlotsKept DEF Settling, SameCopies
<1>6. CASE \E m \in Capacities : ResizeInPlace(m)
  <2>1. PICK m \in Capacities : ResizeInPlace(m)
    BY <1>6
  <2>2. /\ pc' = "fold" /\ UNCHANGED <<main, side, legacy, clock>>
        /\ db'.hdr = [db.hdr EXCEPT !.max = m] /\ SameCopies(db, db') /\ db'.late = db.late
    BY <2>1, ResizeEffect
  <2> QED BY <1>b, <1>e, <1>g, <2>2, SlotsKept DEF Settling, SameCopies
<1> QED BY <1>1, <1>2, <1>3, <1>4, <1>5, <1>6

(* A cell with some of the values of a record in it. *)
LEMMA HonestStored ==
  ASSUME NEW cell, NEW cols, Honest(cell, cols), cols \in Seq(Names), NEW n
  PROVE  Honest(Stored(cell, cols, n), cols)
<1> DEFINE u == Stored(cell, cols, n)
<1>1. /\ Len(cols) \in Nat /\ DOMAIN cell = 1 .. Len(cols)
      /\ \A i \in 1 .. Len(cols) : cell[i] \in Values /\ cell[i] \in {cols[i], Zero}
  BY HonestSeq, NamesAreValues, SeqFacts DEF Honest
<1>2. \A i \in 1 .. Len(cols) : cols[i] \in Values
  BY NamesAreValues
<1>3. u = [i \in 1 .. Len(cols) |-> u[i]] /\ \A i \in 1 .. Len(cols) : u[i] \in {cols[i], cell[i]}
  BY <1>1 DEF Stored
<1> HIDE DEF u
<1>4. \A i \in 1 .. Len(cols) : u[i] \in Values /\ u[i] \in {cols[i], Zero}
  BY <1>1, <1>2, <1>3
<1>5. Honest(u, cols)
  BY <1>1, <1>3, <1>4, MakeHonest
<1> QED BY <1>5 DEF u

LEMMA HonestCells ==
  ASSUME NEW r, HonestRegion(r), NEW n
  PROVE  /\ CellsWith(r, n) \in [0 .. MaxTs -> Seq(Values)]
         /\ \A j \in 0 .. MaxTs : Honest(CellsWith(r, n)[j], r.cols)
<1> DEFINE e == CellsWith(r, n)
<1>1. r.cells \in [0 .. MaxTs -> Seq(Values)] /\ \A j \in 0 .. MaxTs : Honest(r.cells[j], r.cols)
  BY DEF HonestRegion
<1>2. \/ e = r.cells
      \/ e = [r.cells EXCEPT ![CellIdx] = Stored(r.cells[CellIdx], r.cols, n)]
  BY DEF CellsWith
<1> HIDE DEF e
<1>3. e = [j \in 0 .. MaxTs |-> e[j]]
      /\ \A j \in 0 .. MaxTs : e[j] = r.cells[j] \/ e[j] = Stored(r.cells[j], r.cols, n)
  BY <1>1, <1>2
<1>4. \A j \in 0 .. MaxTs : Honest(e[j], r.cols)
  BY <1>1, <1>3, HonestStored DEF HonestRegion
<1>5. \A j \in 0 .. MaxTs : e[j] \in Seq(Values)
  BY <1>4 DEF Honest
<1>6. e \in [0 .. MaxTs -> Seq(Values)]
  BY <1>3, <1>5
<1> QED BY <1>4, <1>6 DEF e

LEMMA HonestStepWrite ==
  ASSUME "growing" \notin Env, ShapeInv, SwapInv, RangeInv, RegionInv, HonestInv, Write
  PROVE  HonestInv'
<1>1. /\ pc = "idle" /\ UNCHANGED <<mig, pc>> /\ clock' = clock + 1
      /\ Grows /\ db.hdr.extra > 0 => GrowthModelled
      /\ main'.there = main.there /\ main'.hdr = main.hdr /\ main'.data = WrittenData
      /\ \E n : main'.regions = RegionsWith(main.regions, n)
      /\ db'.hdr = WrittenHeader /\ SameCopies(db, db') /\ db'.late = LateNow /\ clock < MaxTs
  BY WriteEffect
<1>2. main.there /\ main'.there
  BY <1>1 DEF SwapInv, Settling
<1>3. /\ HonestFile(main) /\ WellFormed(main) /\ GoesWith(db.hdr, main)
      /\ ExtrasIn(db.extra, db.ovf, main) /\ clock \in Nat
      /\ InRange(main.hdr) /\ InRange(db.hdr)
      /\ Counts(main.hdr, clock) /\ Counts(db.hdr, clock)
      /\ db.first \in Nat /\ (db.extra > 0 => db.hdr.extra > 0)
  BY <1>1, SchemaAssumption DEF HonestInv, RangeInv, CallRange, HeaderRange, RegionInv
<1>4. db.extra # 0 => ~Grows
  BY <1>1, <1>3 DEF GrowthModelled, ExtrasIn
<1>a. PICK n : main'.regions = RegionsWith(main.regions, n)
  BY <1>1
<1> DEFINE s == main.regions
           t == RegionsWith(main.regions, n)
<1>5. /\ Len(t) = Len(s) /\ Len(s) \in Nat
      /\ \A i \in 1 .. Len(s) :
           /\ t[i].cols = s[i].cols
           /\ t[i] = s[i] \/ /\ i = db.ovf /\ db.extra # 0
                             /\ t[i].intact = (s[i].intact /\ ~Grows)
                             /\ t[i].cells = CellsWith(s[i], n)
  BY <1>3, RegionsWithEffect, SeqFacts DEF WellFormed
<1> HIDE DEF t
<1>6. ASSUME NEW i \in 1 .. Len(s) PROVE HonestRegion(t[i])
  <2>1. HonestRegion(s[i])
    BY <1>3 DEF HonestFile
  <2>2. CASE t[i] = s[i]
    BY <2>1, <2>2
  <2>3. CASE /\ db.extra # 0 /\ t[i].intact = (s[i].intact /\ ~Grows)
             /\ t[i].cells = CellsWith(s[i], n)
    <3>1. t[i].intact /\ t[i].cols = s[i].cols /\ s[i].cols \in Seq(Names)
      BY <1>4, <1>5, <2>1, <2>3 DEF HonestRegion
    <3>2. /\ t[i].cells \in [0 .. MaxTs -> Seq(Values)]
          /\ \A j \in 0 .. MaxTs : Honest(t[i].cells[j], s[i].cols)
      BY <2>1, <2>3, HonestCells
    <3> QED BY <3>1, <3>2 DEF HonestRegion
  <2> QED BY <1>5, <2>2, <2>3
<1>7. main'.regions = t /\ main'.hdr.cols = main.hdr.cols
  BY <1>1, <1>a DEF t
<1>8. Carries(main', main)
  <2>1. \A i \in 1 .. Len(s) : t[i].cols = s[i].cols
    BY <1>5
  <2>2. Len(t) = Len(s) /\ Len(s) \in Nat
    BY <1>5
  <2> QED BY <1>7, <2>1, <2>2 DEF Carries
<1>9. HonestFile(main')
  <2> DEFINE row == [ts |-> NextTs, vals |-> db.hdr.cols]
  <2>1. HonestRow(row, main.hdr.cols)
    BY <1>3, HonestItself DEF HonestRow, GoesWith, HonestFile
  <2>2. main'.data = [main.data EXCEPT ![RecordIdx(db.hdr)] = row]
    BY <1>1 DEF WrittenData
  <2> HIDE DEF row
  <2>3. DOMAIN main'.data = Slots /\ \A x \in Slots : main'.data[x] \in {main.data[x], row}
    BY <1>3, <2>2 DEF HonestFile
  <2>4. \A x \in Slots : HonestRow(main'.data[x], main'.hdr.cols)
    BY <1>3, <1>7, <2>1, <2>3 DEF HonestFile
  <2> QED BY <1>3, <1>5, <1>6, <1>7, <2>3, <2>4 DEF HonestFile
<1>10. /\ WrittenHeader.total = db.hdr.total + 1 /\ WrittenHeader.first = db.hdr.first
       /\ WrittenHeader.extra = db.hdr.extra
  BY AdvancedEffect DEF ShapeInv, IsHandle, WrittenHeader, SameShape
<1>11. /\ Counts(WrittenHeader, clock') /\ Counts(main'.hdr, clock')
       /\ clock' \in Nat /\ clock <= clock'
  BY <1>1, <1>3, <1>10 DEF Counts, InRange
<1>12. \A x \in Valid' : x \in Valid \/ Counts(x.hdr, clock')
  <2>1. \A x \in NewSlots : x.hdr = WrittenHeader
    BY DEF NewSlots, ValidSlot
  <2> QED BY <1>11, <2>1, WriteValid
<1>13. /\ Counts(db'.hdr, clock') /\ db'.first \in Nat /\ (db'.extra > 0 => db'.hdr.extra > 0)
       /\ pc' = "idle"
  BY <1>1, <1>3, <1>10, <1>11 DEF SameCopies
<1>14. LateHonest'
  <2> SUFFICES ASSUME LateNow # NoLate
               PROVE  /\ db'.extra > 0 /\ LateNow.at \in 0 .. MaxTs
                      /\ Honest(LateNow.was, main'.regions[db'.ovf].cols)
    BY <1>1, <1>13 DEF LateHonest, Honest
  <2>1. Overflows /\ LateNow.at = CellIdx /\ LateNow.was = main.regions[db.ovf].cells[CellIdx]
    BY DEF LateNow
  <2>2. db.extra > 0 /\ CellIdx \in 0 .. MaxTs
    BY <1>1, <1>3, <2>1, SchemaAssumption DEF Overflows, CellIdx, Counts, InRange
  <2>3. db.ovf \in 1 .. Len(main.regions)
    BY <1>3, <2>2 DEF ExtrasIn
  <2>4. Honest(LateNow.was, main.regions[db.ovf].cols)
    BY <1>3, <2>1, <2>2, <2>3 DEF HonestFile, HonestRegion
  <2>5. main'.regions[db.ovf].cols = main.regions[db.ovf].cols
    BY <1>8, <2>3 DEF Carries
  <2> QED BY <1>1, <2>1, <2>2, <2>4, <2>5 DEF SameCopies
<1> QED BY <1>1, <1>2, <1>8, <1>9, <1>11, <1>12, <1>13, <1>14, HonestSettled DEF Settling

(* The values of the extra columns carried over by name, but for some. *)
RemappedCells(r, cols, used, missed) ==
  [i \in 0 .. MaxTs |->
     IF i < used THEN [j \in DOMAIN cols |-> IF <<i, j>> \in missed THEN Zero
                                              ELSE Mapped(r.cells[i], r.cols, cols)[j]]
                 ELSE Zeros(Len(cols))]

LEMMA HonestRemapped ==
  ASSUME NEW r, HonestRegion(r), NEW cols, cols \in Seq(Names), NEW used, NEW missed
  PROVE  HonestRegion(Region(cols, RemappedCells(r, cols, used, missed)))
<1> DEFINE Some(i) == [j \in DOMAIN cols |-> IF <<i, j>> \in missed THEN Zero
                                              ELSE Mapped(r.cells[i], r.cols, cols)[j]]
           cells == [i \in 0 .. MaxTs |-> IF i < used THEN Some(i) ELSE Zeros(Len(cols))]
           q == Region(cols, cells)
<1>1. ASSUME NEW i \in 0 .. MaxTs
      PROVE  Honest(Some(i), cols)
  <2> DEFINE v == Mapped(r.cells[i], r.cols, cols)
             u == Some(i)
  <2>1. Honest(v, cols)
    BY HonestMapped, NamesAreValues DEF HonestRegion
  <2>2. Len(cols) \in Nat /\ DOMAIN cols = 1 .. Len(cols)
    BY NamesAreValues, SeqFacts
  <2>3. \A j \in 1 .. Len(cols) : v[j] \in Values /\ v[j] \in {cols[j], Zero}
    BY <2>1, <2>2, HonestSeq DEF Honest
  <2>4. u = [j \in 1 .. Len(cols) |-> IF <<i, j>> \in missed THEN Zero ELSE v[j]]
    BY <2>2
  <2> HIDE DEF u, v
  <2>5. u = [j \in 1 .. Len(cols) |-> u[j]] /\ \A j \in 1 .. Len(cols) : u[j] \in {v[j], Zero}
    BY <2>4
  <2>6. \A j \in 1 .. Len(cols) : u[j] \in Values /\ u[j] \in {cols[j], Zero}
    BY <2>3, <2>5 DEF Values
  <2>7. Honest(u, cols)
    BY <2>2, <2>5, <2>6, MakeHonest
  <2> QED BY <2>7 DEF u
<1>2. Honest(Zeros(Len(cols)), cols)
  BY HonestZeros, NamesAreValues
<1> HIDE DEF Some
<1>3. \A i \in 0 .. MaxTs : Honest(cells[i], cols)
  BY <1>1, <1>2
<1>4. cells = [i \in 0 .. MaxTs |-> cells[i]]
  OBVIOUS
<1> HIDE DEF cells
<1>5. cells \in [0 .. MaxTs -> Seq(Values)]
  BY <1>3, <1>4 DEF Honest
<1>6. q.cols = cols /\ q.intact = TRUE /\ q.cells = cells
  BY RegionFacts
<1> HIDE DEF q
<1>7. HonestRegion(q)
  BY <1>3, <1>5, <1>6 DEF HonestRegion
<1> QED BY <1>7 DEF q, cells, Some, RemappedCells

LEMMA HonestBlank ==
  ASSUME NEW cols, cols \in Seq(Names)
  PROVE  HonestRegion(Region(cols, BlankCells(Len(cols))))
<1> DEFINE cells == BlankCells(Len(cols))
           q == Region(cols, cells)
<1>1. Honest(Zeros(Len(cols)), cols)
  BY HonestZeros, NamesAreValues
<1>2. cells \in [0 .. MaxTs -> Seq(Values)] /\ \A i \in 0 .. MaxTs : Honest(cells[i], cols)
  BY <1>1 DEF BlankCells, Honest
<1> HIDE DEF cells
<1>3. q.cols = cols /\ q.intact = TRUE /\ q.cells = cells
  BY RegionFacts
<1> HIDE DEF q
<1>4. HonestRegion(q)
  BY <1>2, <1>3 DEF HonestRegion
<1> QED BY <1>4 DEF q, cells

LEMMA HonestStepRegion ==
  ASSUME ShapeInv, SwapInv, RangeInv, RegionInv, HonestInv,
         CommitRegion \/ RemoveExtras
           \/ \E cols \in ExtraCols : AddExtraParams(cols) \/ RemapExtras(cols)
  PROVE  HonestInv'
<1>a. /\ pc \in Settling /\ mig' = mig /\ main.there
      /\ main'.there /\ pc' \in Settling \cup {"closed"}
  BY RegionShape DEF Ordinary, SwapInv, Settling
<1>b. /\ HonestFile(main) /\ WellFormed(main) /\ GoesWith(db.hdr, main)
      /\ ExtrasIn(db.extra, db.ovf, main) /\ clock \in Nat /\ InRange(db.hdr)
      /\ Counts(main.hdr, clock) /\ Counts(db.hdr, clock)
      /\ db.first \in Nat /\ (db.extra > 0 => db.hdr.extra > 0)
  BY <1>a, SchemaAssumption DEF HonestInv, RangeInv, CallRange, HeaderRange, RegionInv, Settling
<1>d. LateHonest
  BY DEF HonestInv
<1>c. ASSUME NEW n, NEW o, NEW f \in Nat
      PROVE  LET d == WithExtras(db, n, o, f) IN
             Counts(d.hdr, clock) /\ d.hdr.cols = main.hdr.cols
  BY <1>b, WithExtrasEffect DEF Counts, GoesWith
<1>1. CASE CommitRegion
  <2> DEFINE n == Len(main.regions)
             k == Len(main.regions[n].cols)
             first == IF op = "add" THEN db.hdr.total ELSE db.first
  <2>1. PICK d :
         /\ d = WithExtras(db, k, n, first)
         /\ pc = "region" /\ pc' = "idle" /\ UNCHANGED <<side, legacy, clock>>
         /\ main'.data = main.data /\ main'.regions = main.regions
         /\ main'.hdr = d.hdr \/ main' = main
         /\ db'.hdr = d.hdr /\ db'.late = db.late
         /\ db' = d \/ (op = "add" /\ SameCopies(db, db')) \/ op \notin {"add", "remap"}
    BY <1>1, CommitEffect
  <2>2. first \in Nat
    BY <1>b DEF InRange
  <2>3. d.hdr.extra = k /\ d.extra = k /\ d.first = first
    BY <2>1, WithExtrasEffect
  <2>4. Counts(d.hdr, clock) /\ d.hdr.cols = main.hdr.cols
    BY <1>c, <2>1, <2>2
  <2> HIDE DEF n, k, first
  <2>5. HonestFile(main') /\ Carries(main', main) /\ Counts(main'.hdr, clock)
    BY <1>b, <2>1, <2>4, HonestOther, CarriesSame
  <2>6. op \in {"add", "remap"} /\ (op = "add" => db.extra = 0)
    BY <2>1 DEF RangeInv, CallRange, HonestInv
  <2>7. db'.first \in Nat /\ (db'.extra > 0 => db'.hdr.extra > 0)
    BY <1>b, <2>1, <2>2, <2>3, <2>6 DEF SameCopies
  <2>8. LateHonest'
    BY <1>d, <2>1 DEF LateHonest
  <2> QED BY <1>a, <1>b, <2>1, <2>4, <2>5, <2>7, <2>8, SlotsKept, HonestSettled DEF Settling
<1>2. CASE RemoveExtras
  <2>1. /\ UNCHANGED <<side, legacy, pc, clock>> /\ pc = "idle"
        /\ db'.hdr.total = db.hdr.total /\ db'.hdr.cols = db.hdr.cols /\ db'.hdr.first = 0
        /\ db'.extra = 0 /\ db'.first = 0 /\ db'.late = NoLate
        /\ main'.data = main.data /\ main'.regions = main.regions
        /\ main'.hdr = db'.hdr \/ main' = main
    BY <1>2, RemoveExtrasEffect
  <2>3. Counts(db'.hdr, clock) /\ db'.hdr.cols = main.hdr.cols
    BY <1>b, <2>1 DEF Counts, GoesWith
  <2>4. HonestFile(main') /\ Carries(main', main) /\ Counts(main'.hdr, clock)
    BY <1>b, <2>1, <2>3, HonestOther, CarriesSame
  <2>5. LateHonest'
    BY <2>1 DEF LateHonest
  <2> QED BY <1>a, <1>b, <2>1, <2>3, <2>4, <2>5, SlotsKept, HonestSettled DEF Settling
<1>3. CASE \E cols \in ExtraCols : AddExtraParams(cols) \/ RemapExtras(cols)
  <2>1. PICK cols \in ExtraCols : AddExtraParams(cols) \/ RemapExtras(cols)
    BY <1>3
  <2>2. cols \in Seq(Names)
    BY ConfigNames
  <2>3. PICK r, name :
          /\ AppendRegion(r, name) /\ HonestRegion(r) /\ pc = "idle"
          /\ UNCHANGED <<side, legacy, clock>>
          /\ name = "add" => db.extra = 0
    <3>1. CASE AddExtraParams(cols)
      BY <2>2, <3>1, HonestBlank DEF AddExtraParams, AlterCall
    <3>2. CASE RemapExtras(cols)
      <4> DEFINE old == main.regions[db.ovf]
                 used == db.hdr.total - db.first
                 Cells(missed) == RemappedCells(old, cols, used, missed)
      <4>1. /\ \E missed : AppendRegion(Region(cols, Cells(missed)), "remap")
            /\ pc = "idle" /\ db.extra > 0
            /\ UNCHANGED <<side, legacy, clock>>
        BY <3>2, Zenon DEF RemapExtras, AlterCall, RemappedCells
      <4>2. HonestRegion(old)
        BY <1>b, <4>1 DEF HonestFile, ExtrasIn
      <4>3. PICK missed : AppendRegion(Region(cols, Cells(missed)), "remap")
        BY <4>1
      <4>4. HonestRegion(Region(cols, Cells(missed)))
        BY <2>2, <4>2, HonestRemapped
      <4> HIDE DEF Cells
      <4> QED BY <4>1, <4>3, <4>4
    <3> QED BY <2>1, <3>1, <3>2
  <2>4. \/ UNCHANGED <<main, db, op, pc>>
        \/ /\ main'.hdr = main.hdr /\ main'.data = main.data
           /\ main'.regions = Append(main.regions, r)
           /\ db'.hdr = db.hdr /\ SameCopies(db, db') /\ db'.late = NoLate
           /\ op' = name /\ pc' = "region"
    BY <2>3, AppendRegionEffect
  <2>5. CASE UNCHANGED <<main, db, op, pc>>
    <3>1. Carries(main', main)
      BY <1>b, <2>5, CarriesSame
    <3>2. LateHonest'
      BY <1>d, <2>3, <2>5, <3>1, LateStays
    <3> QED BY <1>a, <1>b, <2>3, <2>5, <3>1, <3>2, SlotsKept, HonestSettled DEF Settling
  <2>6. CASE /\ main'.hdr = main.hdr /\ main'.data = main.data
             /\ main'.regions = Append(main.regions, r)
             /\ db'.hdr = db.hdr /\ SameCopies(db, db') /\ db'.late = NoLate
             /\ op' = name /\ pc' = "region"
    <3> DEFINE s == main.regions
               t == Append(main.regions, r)
    <3>1. /\ Len(t) = Len(s) + 1 /\ Len(s) \in Nat
          /\ \A i \in 1 .. Len(s) + 1 : t[i] = IF i = Len(s) + 1 THEN r ELSE s[i]
      BY <1>b, AppendSeq, SeqFacts DEF WellFormed
    <3>2. main'.regions = t
      BY <2>6
    <3> HIDE DEF t
    <3>3. \A i \in 1 .. Len(s) : i \in 1 .. Len(s) + 1 /\ i # Len(s) + 1
      BY <3>1
    <3>4. Carries(main', main)
      BY <2>6, <3>1, <3>2, <3>3 DEF Carries
    <3>5. \A i \in 1 .. Len(t) : HonestRegion(t[i])
      BY <1>b, <2>3, <3>1, SMTT(30) DEF HonestFile
    <3>6. HonestFile(main')
      BY <1>b, <2>6, <3>2, <3>5 DEF HonestFile
    <3>7. LateHonest'
      BY <2>6 DEF LateHonest
    <3> QED BY <1>a, <1>b, <2>3, <2>6, <3>4, <3>6, <3>7, SlotsKept, HonestSettled
            DEF Settling, SameCopies
  <2> QED BY <2>4, <2>5, <2>6
<1> QED BY <1>1, <1>2, <1>3

(* A step on the copy alone. *)
LEMMA HonestCopying ==
  ASSUME SwapInv, HonestInv, pc \in {"idle", "copy"},
         UNCHANGED <<main, side, legacy, db, clock>>, HonestFile(mig'), Counts(mig'.hdr, clock),
         \/ pc' = "idle"
         \/ pc' = "unlink" /\ Counts(FinalHeader', clock)
         \/ /\ pc' = "copy" /\ job'.avail = Available(db.hdr)
            /\ \A i \in 1 .. Len(job'.buf) : HonestRow(job'.buf[i], job'.cols)
  PROVE  HonestInv'
<1>1. main.there /\ Survivor = main /\ Survivor' = main
  BY DEF SwapInv, Settling, Survivor
<1>2. Valid' = Valid
  BY SlotsKept
<1>3. (\A x \in Valid : Same(x, Survivor) => Counts(x.hdr, clock))'
  BY <1>1, <1>2 DEF HonestInv, Same, Counts
<1>4. /\ Counts(db'.hdr, clock') /\ db'.first \in Nat /\ (db'.extra > 0 => db'.hdr.extra > 0)
      /\ HonestFile(main') /\ Counts(main'.hdr, clock')
  BY DEF HonestInv
<1>5. pc' # "region"
  OBVIOUS
<1>6. pc' = "copy" => /\ job'.avail = Available(db'.hdr)
                      /\ \A i \in 1 .. Len(job'.buf) : HonestRow(job'.buf[i], job'.cols)
  OBVIOUS
<1>7. LateHonest'
  BY DEF HonestInv, LateHonest
<1>8. pc' \in {"unlink", "swap"} => Counts(FinalHeader, clock)'
  BY DEF Counts
<1> QED BY <1>3, <1>4, <1>5, <1>6, <1>7, <1>8 DEF HonestInv

LEMMA HonestStepRewrite ==
  ASSUME SwapInv, RangeInv, RegionInv, HonestInv,
         NEW cols, NEW m \in 0 .. MaxSlots, NEW room \in Nat,
         Rewrite(cols, m, room), cols \in Schemas \/ cols = Columns(main, db)
  PROVE  HonestInv'
<1> DEFINE p == Plan(cols, m, room)
           h == NewHeader(p.max, cols)
<1>1. /\ pc = "idle" /\ UNCHANGED <<main, side, legacy, db, clock>>
      /\ \/ mig' = NoFile /\ pc' = pc
         \/ /\ mig' = NewFile(h) /\ pc' = "copy" /\ job'.cols = cols
            /\ job'.buf = << >> /\ job'.avail = Available(db.hdr)
  BY RewriteEffect
<1>2. clock \in Nat
  BY SchemaAssumption DEF RangeInv, CallRange
<1>3. cols \in Seq(Names)
  <2>1. CASE cols \in Schemas
    BY <2>1, ConfigNames
  <2>2. CASE cols = Columns(main, db)
    <3>1. /\ HonestFile(main) /\ db.hdr.cols = main.hdr.cols /\ ExtrasIn(db.extra, db.ovf, main)
          /\ InRange(db.hdr) /\ clock \in 0 .. MaxTs /\ Counts(db.hdr, clock) /\ db.first \in Nat
      BY <1>1 DEF RangeInv, HeaderRange, CallRange, RegionInv, GoesWith, HonestInv
    <3> QED BY <2>2, <3>1, ReadHonest
  <2> QED BY <2>1, <2>2
<1>4. HonestFile(NewFile(h)) /\ Counts(NewFile(h).hdr, clock)
  <2>1. HonestFile(NewFile(h)) /\ NewFile(h).hdr = h
    BY <1>3, HonestNew, NoFileEffect
  <2>2. h.total = 0 /\ h.first = 0
    BY NewHeaderEffect
  <2> HIDE DEF h
  <2> QED BY <1>2, <2>1, <2>2 DEF Counts
<1> HIDE DEF h
<1>5. CASE mig' = NoFile /\ pc' = pc
  BY <1>1, <1>2, <1>5, HonestNoFile, HonestCopying DEF Counts
<1>6. CASE /\ mig' = NewFile(h) /\ pc' = "copy" /\ job'.cols = cols
           /\ job'.buf = << >> /\ job'.avail = Available(db.hdr)
  <2>1. Len(job'.buf) = 0
    BY <1>6, EmptySeq
  <2> QED BY <1>1, <1>4, <1>6, <2>1, HonestCopying
<1> QED BY <1>1, <1>5, <1>6

LEMMA HonestStepCopy ==
  ASSUME ShapeInv, SwapInv, RangeInv, RegionInv, HonestInv,
         CopyRecord \/ Finalize \/ UnlinkOriginal \/ SwapIn
  PROVE  HonestInv'
<1>a. /\ HonestFile(main) /\ HonestFile(mig) /\ HonestFile(NoFile)
      /\ clock \in Nat /\ Counts(main.hdr, clock) /\ Counts(mig.hdr, clock)
      /\ Counts(NoFile.hdr, clock) /\ InRange(db.hdr)
  BY HonestNoFile, SchemaAssumption DEF HonestInv, RangeInv, CallRange, HeaderRange, Counts
<1>b. ASSUME Abort, pc = "copy", UNCHANGED <<main, side, legacy, db, clock>>
      PROVE  HonestInv'
  BY <1>a, <1>b, HonestCopying DEF Abort, Goto
<1>1. CASE CopyRecord
  <2>1. /\ pc = "copy" /\ job.k < job.avail /\ UNCHANGED <<main, side, legacy, db, clock>>
        /\ \/ mig' = mig /\ pc' = pc /\ job'.cols = job.cols /\ job'.avail = job.avail
              /\ job'.buf = << >>
           \/ Abort
           \/ \E flush \in BOOLEAN : Copied(Append(job.buf, CopiedRow), job.written + 1, flush)
    BY <1>1, CopyEffect
  <2>2. /\ job.avail = Available(db.hdr)
        /\ \A i \in 1 .. Len(job.buf) : HonestRow(job.buf[i], job.cols)
        /\ mig.hdr.cols = job.cols
    BY <2>1 DEF HonestInv, RegionInv
  <2>3. /\ job.k \in Nat /\ job.avail \in Nat /\ job.written \in Nat
        /\ IsSeq(job.buf) /\ Len(job.buf) <= job.written
    BY DEF RangeInv, JobRange
  <2>4. CASE /\ mig' = mig /\ pc' = pc /\ job'.cols = job.cols /\ job'.avail = job.avail
             /\ job'.buf = << >>
    <3>1. Len(job'.buf) = 0
      BY <2>4, EmptySeq
    <3> QED BY <1>a, <2>1, <2>2, <2>4, <3>1, HonestCopying
  <2>5. CASE \E flush \in BOOLEAN : Copied(Append(job.buf, CopiedRow), job.written + 1, flush)
    <3> DEFINE buf == Append(job.buf, CopiedRow)
               n == job.written + 1
    <3>1. HonestRow(CopiedRow, job.cols)
      <4>1. /\ db.hdr.cols = main.hdr.cols /\ ExtrasIn(db.extra, db.ovf, main)
            /\ clock \in 0 .. MaxTs /\ Counts(db.hdr, clock) /\ db.first \in Nat
        BY <2>1 DEF RangeInv, CallRange, RegionInv, GoesWith, HonestInv
      <4>2. /\ Columns(main, db) \in Seq(Names)
            /\ \A k \in 0 .. Available(db.hdr) - 1 : Honest(Read(main, db, k).vals, Columns(main, db))
        BY <1>a, <4>1, ReadHonest
      <4>3. job.k \in 0 .. Available(db.hdr) - 1
        BY <2>1, <2>2, <2>3
      <4>4. job.cols \in Seq(Names) /\ IsSeq(Columns(main, db))
        BY <1>a, <2>2, <4>2, NamesAreValues DEF HonestFile
      <4>5. Honest(Mapped(Read(main, db, job.k).vals, Columns(main, db), job.cols), job.cols)
        BY <4>2, <4>3, <4>4, HonestMapped
      <4> QED BY <4>5 DEF HonestRow, CopiedRow
    <3>2. /\ Len(buf) = Len(job.buf) + 1 /\ Len(job.buf) \in Nat
          /\ \A i \in 1 .. Len(job.buf) + 1 : buf[i] = IF i = Len(job.buf) + 1 THEN CopiedRow ELSE job.buf[i]
      BY <2>3, AppendSeq, SeqFacts
    <3>3. PICK flush \in BOOLEAN : Copied(buf, n, flush)
      BY <2>5
    <3> HIDE DEF buf
    <3>4. \A i \in 1 .. Len(buf) : HonestRow(buf[i], job.cols)
      <4> TAKE i \in 1 .. Len(buf)
      <4>1. CASE i = Len(job.buf) + 1
        BY <3>1, <3>2, <4>1
      <4>2. CASE i # Len(job.buf) + 1
        <5>1. i \in 1 .. Len(job.buf)
          BY <3>2, <4>2
        <5> QED BY <2>2, <3>2, <4>2, <5>1
      <4> QED BY <4>1, <4>2
    <3>5. /\ job'.cols = job.cols /\ job'.avail = job.avail /\ pc' = "copy"
          /\ job'.buf = IF flush THEN << >> ELSE buf
          /\ mig' = IF flush THEN [mig EXCEPT !.data = Flushed(mig.data, buf, n)] ELSE mig
      BY <2>1, <3>3 DEF Copied
    <3>6. \A i \in 1 .. Len(job'.buf) : HonestRow(job'.buf[i], job'.cols)
      BY <3>4, <3>5, EmptySeq
    <3>7. HonestFile(mig') /\ mig'.hdr = mig.hdr
      <4>1. CASE ~flush
        BY <1>a, <3>5, <4>1
      <4>2. CASE flush
        <5>1. DOMAIN mig = FileFields
          BY Fields DEF ShapeInv, IsFile
        <5>2. /\ mig'.hdr = mig.hdr /\ mig'.regions = mig.regions
              /\ mig'.data = Flushed(mig.data, buf, n)
          BY <3>5, <4>2, <5>1 DEF FileFields
        <5>3. DOMAIN mig'.data = Slots
          BY <5>2 DEF Flushed
        <5>4. ASSUME NEW s \in Slots PROVE HonestRow(mig'.data[s], mig.hdr.cols)
          <6>1. mig'.data[s] = IF s \in n - Len(buf) .. n - 1 THEN buf[s - (n - Len(buf)) + 1]
                                                                ELSE mig.data[s]
            BY <5>2 DEF Flushed
          <6>2. CASE s \in n - Len(buf) .. n - 1
            <7>1. s - (n - Len(buf)) + 1 \in 1 .. Len(buf)
              BY <2>3, <3>2, <6>2, SMTT(30) DEF Slots
            <7> QED BY <2>2, <3>4, <6>1, <6>2, <7>1
          <6>3. CASE ~(s \in n - Len(buf) .. n - 1)
            BY <1>a, <6>1, <6>3 DEF HonestFile
          <6> QED BY <6>2, <6>3
        <5> QED BY <1>a, <5>2, <5>3, <5>4 DEF HonestFile
      <4> QED BY <4>1, <4>2
    <3> QED BY <1>a, <2>1, <2>2, <3>5, <3>6, <3>7, HonestCopying
  <2> QED BY <1>b, <2>1, <2>4, <2>5
<1>2. CASE Finalize
  <2>1. /\ pc = "copy" /\ UNCHANGED <<main, side, legacy, db, clock>>
        /\ \/ Abort
           \/ /\ pc' = "unlink" /\ mig'.regions = mig.regions /\ mig'.data = mig.data
              /\ SameShape(mig.hdr, mig'.hdr) /\ FinalHeader' = FinalHeader
              /\ mig'.hdr = FinalHeader \/ mig' = mig
    BY <1>2, FinalizeEffect
  <2>2. CASE /\ pc' = "unlink" /\ mig'.regions = mig.regions /\ mig'.data = mig.data
             /\ SameShape(mig.hdr, mig'.hdr) /\ FinalHeader' = FinalHeader
             /\ mig'.hdr = FinalHeader \/ mig' = mig
    <3>1. HonestFile(mig')
      BY <1>a, <2>2, HonestOther DEF SameShape
    <3>2. job.written <= clock
      <4>1. /\ job.k \in Nat /\ job.avail \in Nat /\ job.written \in Nat
            /\ job.written <= job.k /\ job.k <= job.avail
        BY DEF RangeInv, JobRange
      <4>2. job.avail = Available(db.hdr) /\ db.hdr.total <= clock /\ db.hdr.total \in Nat
        BY <1>a, <2>1 DEF HonestInv, Counts, InRange
      <4>3. Available(db.hdr) <= db.hdr.total
        BY <1>a, AvailableRange
      <4> QED BY <1>a, <4>1, <4>2, <4>3
    <3>3. Counts(FinalHeader, clock)
      BY <1>a, <3>2, FinalHeaderEffect DEF Counts, SameShape
    <3>4. Counts(mig'.hdr, clock) /\ Counts(FinalHeader', clock)
      BY <1>a, <2>2, <3>3
    <3> QED BY <2>1, <2>2, <3>1, <3>4, HonestCopying
  <2> QED BY <1>b, <2>1, <2>2
<1>3. CASE UnlinkOriginal
  <2>1. /\ pc = "unlink" /\ pc' = "swap" /\ main' = NoFile /\ UNCHANGED <<mig, side, legacy, clock>>
        /\ db'.late = NoLate /\ FinalHeader' = FinalHeader
    BY <1>3, UnlinkEffect
  <2>2. Survivor' = mig /\ Valid' = Valid
    BY <2>1, NoFileEffect, SlotsKept DEF Survivor
  <2>3. \A x \in Valid : ~Same(x, mig)
    BY <2>1 DEF RegionInv, Rewriting, Unmatched
  <2>4. Counts(FinalHeader', clock')
    BY <2>1 DEF HonestInv
  <2> QED BY <1>a, <2>1, <2>2, <2>3, <2>4, HonestShut
<1>4. CASE SwapIn
  <2>1. /\ pc = "swap" /\ UNCHANGED <<side, legacy, clock>>
        /\ \/ UNCHANGED <<main, mig>> /\ db' = NoHandle /\ pc' = "closed"
           \/ main' = mig /\ mig' = NoFile /\ db' = NoHandle /\ pc' = "closed"
           \/ /\ main' = mig /\ mig' = NoFile /\ pc' = "idle" /\ db'.late = db.late
              /\ db'.hdr = FinalHeader /\ db'.extra = 0 /\ db'.first = 0
    BY <1>4, SwapEffect
  <2>a. NoHandle.late = NoLate /\ db.late = NoLate /\ Counts(FinalHeader, clock)
    BY <2>1, NewHandleEffect DEF NoHandle, HonestInv, LateHonest
  <2>2. /\ ~main.there /\ mig.there /\ Survivor = mig /\ Survivor' = mig /\ Valid' = Valid
    BY <2>1, SlotsKept DEF SwapInv, Survivor
  <2>3. \A x \in Valid' : Same(x, Survivor') => Counts(x.hdr, clock')
    BY <2>1, <2>2 DEF HonestInv
  <2>4. CASE pc' = "closed"
    BY <1>a, <2>1, <2>a, <2>3, <2>4, HonestShut
  <2>5. CASE /\ main' = mig /\ mig' = NoFile /\ pc' = "idle" /\ db'.late = db.late
             /\ db'.hdr = FinalHeader /\ db'.extra = 0 /\ db'.first = 0
    <3>1. (\A x \in Valid : Same(x, Survivor) => Counts(x.hdr, clock))'
      BY <2>3 DEF Same, Counts
    <3>2. /\ HonestFile(main') /\ HonestFile(mig') /\ Counts(main'.hdr, clock')
          /\ Counts(mig'.hdr, clock') /\ Counts(db'.hdr, clock') /\ db'.first \in Nat
          /\ (db'.extra > 0 => db'.hdr.extra > 0)
      BY <1>a, <2>1, <2>a, <2>5
    <3>3. LateHonest'
      BY <2>a, <2>5 DEF LateHonest
    <3> QED BY <2>5, <3>1, <3>2, <3>3 DEF HonestInv
  <2> QED BY <2>1, <2>4, <2>5
<1> QED BY <1>1, <1>2, <1>3, <1>4

LEMMA HonestStep ==
  ASSUME "growing" \notin Env, ShapeInv, SwapInv, RangeInv, RegionInv, HonestInv, [Next]_vars
  PROVE  HonestInv'
<1>1. CASE \/ \E m \in Capacities, room \in Rooms : ResizeByCopy(m, room)
           \/ \E cols \in Schemas, room \in Rooms : MigrateSchema(cols, room)
  BY <1>1, RewriteArgs, HonestStepRewrite DEF RangeInv
<1>2. CASE UNCHANGED vars
  <2>1. LateHonest'
    BY <1>2 DEF vars, disk, HonestInv, LateHonest
  <2>2. pc' \in {"unlink", "swap"} => Counts(FinalHeader, clock)'
    BY <1>2 DEF vars, disk, HonestInv, FinalHeader
  <2> QED BY <1>2, <2>1, <2>2, SlotsKept DEF vars, disk, HonestInv, Same, Survivor
<1> QED BY <1>1, <1>2, HonestStepOpen, HonestStepFold, HonestStepWrite, HonestStepRegion, HonestStepCopy
        DEF Next, Open, Call, Step

LEMMA HonestInit == Init => HonestInv
<1> SUFFICES ASSUME Init PROVE HonestInv
  OBVIOUS
<1>1. main = NoFile /\ mig = NoFile /\ side = NoSlots /\ legacy = NoSlots /\ pc = "closed" /\ clock = 0
      /\ db = NoHandle
  BY DEF Init
<1>2. Valid = {}
  BY <1>1 DEF Valid, NoSlots, NoSlot
<1>3. Counts(main.hdr, clock) /\ Counts(mig.hdr, clock) /\ HonestFile(main) /\ HonestFile(mig)
  BY <1>1, HonestNoFile DEF Counts
<1>4. LateHonest
  BY <1>1, NewHandleEffect DEF LateHonest, NoHandle
<1> QED BY <1>1, <1>2, <1>3, <1>4 DEF HonestInv

(* As long as the data area never grows over an overflow region, and no    *)
(* schema changes next to sidecars of the same geometry, the block copy of *)
(* tsdb_migrate_engine, the remapping of tsdb_migrate_overflow_h and the   *)
(* reads behind them never show a value under a column it was not written  *)
(* for, whatever is cut short or fails.                                    *)
THEOREM ValuesKeepTheirColumns ==
  "unsynced" \notin Env /\ "growing" \notin Env => (Spec => []ColumnsHonest)
<1> SUFFICES ASSUME "unsynced" \notin Env, "growing" \notin Env PROVE Spec => []ColumnsHonest
  OBVIOUS
<1>1. Spec => [](RangeInv /\ RegionInv)
  BY RangeAlways
<1>2. Init => HonestInv
  BY HonestInit
<1>3. ShapeInv /\ SwapInv /\ RangeInv /\ RegionInv /\ HonestInv /\ [Next]_vars => HonestInv'
  BY HonestStep
<1>4. RangeInv /\ RegionInv /\ HonestInv => ColumnsHonest
  BY HonestInvImplies
<1> QED BY <1>1, <1>2, <1>3, <1>4, FilesAlways, PTL DEF Spec

-----------------------------------------------------------------------------
(* The slot tsdb_sidecar_load hands out *)

LEMMA AlikeFacts ==
  /\ \A h : Alike(h, h)
  /\ \A g, h : Alike(g, h) => Alike(h, g)
  /\ \A f, g, h : Alike(f, g) /\ Alike(g, h) => Alike(f, h)
  BY DEF Alike

LEMMA ValidSlots ==
  \A n \in {0, 1} : (side[n].ok => side[n] \in Valid) /\ (legacy[n].ok => legacy[n] \in Valid)
  BY DEF Valid

LEMMA ValidIs ==
  \A x \in Valid : \E n \in {0, 1} : (x = side[n] /\ side[n].ok) \/ (x = legacy[n] /\ legacy[n].ok)
  BY DEF Valid

LEMMA NewestIsNewest ==
  ASSUME NEW slots, Found(slots), \A n \in {0, 1} : slots[n].ok => slots[n].seq \in Nat
  PROVE  /\ Newest(slots) \in {0, 1} /\ slots[Newest(slots)].ok
         /\ NewestSeq(slots) = slots[Newest(slots)].seq
         /\ \A n \in {0, 1} : slots[n].ok => slots[n].seq <= NewestSeq(slots)
  BY DEF Found, Newest, NewestSeq

(* The youngest valid slot is the authoritative one, of whichever kind. *)
LEMMA LoadedIsNewest ==
  ASSUME Mirrored(side, legacy), \A x \in Valid : x.seq \in Nat, NEW y \in Valid
  PROVE  /\ LoadFound(side, legacy)
         /\ \E x \in Valid : LoadedHeader(side, legacy) = x.hdr /\ \A z \in Valid : z.seq <= x.seq
<1> DEFINE s == side[Newest(side)]
           l == legacy[Newest(legacy)]
<1>a. \A n \in {0, 1} : (side[n].ok => side[n].seq \in Nat) /\ (legacy[n].ok => legacy[n].seq \in Nat)
  BY ValidSlots
<1>b. Found(side) => s \in Valid /\ s.ok /\ s.seq \in Nat /\ s.legacy \in Nat
                     /\ \A n \in {0, 1} : side[n].ok => side[n].seq <= s.seq
  BY <1>a, NewestIsNewest, ValidSlots DEF Mirrored
<1>c. Found(legacy) => l \in Valid /\ l.ok /\ l.seq \in Nat /\ NewestSeq(legacy) = l.seq
                       /\ \A n \in {0, 1} : legacy[n].ok => legacy[n].seq <= l.seq
  BY <1>a, NewestIsNewest, ValidSlots
<1>d. Found(side) => /\ s.legacy < s.seq
                     /\ ~Found(legacy) => s.legacy = 0
                     /\ Found(legacy) => l.seq <= s.legacy \/ l.seq >= s.seq
  <2> SUFFICES ASSUME Found(side) PROVE /\ s.legacy < s.seq
                                        /\ ~Found(legacy) => s.legacy = 0
                                        /\ Found(legacy) => l.seq <= s.legacy \/ l.seq >= s.seq
    OBVIOUS
  <2>1. Newest(side) \in {0, 1} /\ s.ok
    BY <1>a, NewestIsNewest
  <2>2. Found(legacy) => Newest(legacy) \in {0, 1} /\ l.ok
    BY <1>a, NewestIsNewest
  <2> QED BY <2>1, <2>2 DEF Mirrored
<1>e. Found(side) \/ Found(legacy)
  BY ValidIs DEF Found
<1>f. ~Found(side) => \A n \in {0, 1} : ~side[n].ok
  BY DEF Found
<1>g. ~Found(legacy) => \A n \in {0, 1} : ~legacy[n].ok
  BY DEF Found
<1>1. CASE UseCompact(side, legacy)
  <2>1. Found(side) /\ LoadedHeader(side, legacy) = s.hdr
    BY <1>1 DEF UseCompact, LoadedHeader
  <2>2. Found(legacy) => l.seq <= s.legacy
    BY <1>1, <1>c DEF UseCompact
  <2> HIDE DEF s, l
  <2>3. ASSUME NEW z \in Valid PROVE z.seq <= s.seq
    <3>1. PICK n \in {0, 1} : (z = side[n] /\ side[n].ok) \/ (z = legacy[n] /\ legacy[n].ok)
      BY ValidIs
    <3>2. CASE z = side[n] /\ side[n].ok
      BY <1>b, <2>1, <3>2
    <3>3. CASE z = legacy[n] /\ legacy[n].ok
      <4>1. Found(legacy)
        BY <1>g, <3>3
      <4>2. z.seq <= l.seq /\ z.seq \in Nat /\ l.seq \in Nat
        BY <1>a, <1>c, <3>3, <4>1
      <4> QED BY <1>b, <1>d, <2>1, <2>2, <4>1, <4>2
    <3> QED BY <3>1, <3>2, <3>3
  <2>4. LoadFound(side, legacy)
    BY <1>1 DEF LoadFound
  <2> QED BY <1>b, <2>1, <2>3, <2>4
<1>2. CASE ~UseCompact(side, legacy)
  <2>1. Found(legacy)
    BY <1>2, <1>d, <1>e DEF UseCompact
  <2>2. LoadedHeader(side, legacy) = l.hdr /\ LoadFound(side, legacy)
    BY <1>2, <2>1 DEF LoadedHeader, LoadFound
  <2>3. Found(side) => ~(l.seq <= s.legacy)
    BY <1>2, <1>c, <2>1 DEF UseCompact
  <2> HIDE DEF s, l
  <2>4. ASSUME NEW z \in Valid PROVE z.seq <= l.seq
    <3>1. PICK n \in {0, 1} : (z = side[n] /\ side[n].ok) \/ (z = legacy[n] /\ legacy[n].ok)
      BY ValidIs
    <3>2. CASE z = legacy[n] /\ legacy[n].ok
      BY <1>c, <2>1, <3>2
    <3>3. CASE z = side[n] /\ side[n].ok
      <4>1. Found(side)
        BY <1>f, <3>3
      <4>2. z.seq <= s.seq /\ z.seq \in Nat /\ s.seq \in Nat
        BY <1>a, <1>b, <3>3, <4>1
      <4> QED BY <1>c, <1>d, <2>1, <2>3, <4>1, <4>2
    <3> QED BY <3>1, <3>2, <3>3
  <2> QED BY <1>c, <2>1, <2>2, <2>4
<1> QED BY <1>1, <1>2

(* The header an open ends up with: that of the youngest slot when the     *)
(* slot is one of the file's and not older than it, else the file's own.   *)
LEMMA OpenedHeader ==
  ASSUME ShapeInv, NEW f, Ordered(Valid, f), Mirrored(side, legacy), InRange(f.hdr),
         \A x \in Valid : InRange(x.hdr),
         \A x \in Valid : Same(x, f) => GoesWith(x.hdr, f)
  PROVE  LET h == OpenedHandle(f).hdr IN
         \/ /\ h = f.hdr
            /\ \A x \in Valid : Same(x, f) => x.hdr.total < h.total
         \/ \E x \in Valid :
              /\ Same(x, f) /\ Alike(x.hdr, h) /\ f.hdr.total <= x.hdr.total
              /\ \A y \in Valid : y.seq <= x.seq
<1> DEFINE h == OpenedHandle(f).hdr
<1>a. \A x \in Valid : x.seq \in Nat /\ x.hdr.total \in Nat
  BY DEF Ordered, InRange
<1>b. f.hdr.total \in Nat
  BY DEF InRange
<1>1. ASSUME ~AdoptsSidecar(f.hdr)
      PROVE  h = f.hdr /\ \A x \in Valid : Same(x, f) => x.hdr.total < f.hdr.total
  <2>1. h = f.hdr
    BY <1>1, OpenedEffect
  <2>2. ASSUME NEW x \in Valid, Same(x, f) PROVE x.hdr.total < f.hdr.total
    <3>1. LoadFound(side, legacy)
      BY <1>a, LoadedIsNewest
    <3>2. PICK y \in Valid : LoadedHeader(side, legacy) = y.hdr /\ \A z \in Valid : z.seq <= y.seq
      BY <1>a, LoadedIsNewest
    <3>3. x.seq <= y.seq
      BY <3>2
    <3>4. Same(y, f)
      <4>1. CASE ~Same(y, f)
        <5>1. y.seq < x.seq
          BY <2>2, <4>1 DEF Ordered
        <5> QED BY <1>a, <3>3, <5>1
      <4> QED BY <4>1
    <3>5. Sane(y.hdr) /\ Len(y.hdr.cols) = Len(f.hdr.cols)
      BY <3>4 DEF Ordered, Same
    <3>6. ~(y.hdr.total >= f.hdr.total)
      BY <1>1, <3>1, <3>2, <3>5 DEF AdoptsSidecar, Adopts
    <3>7. x.hdr.total <= y.hdr.total
      <4>1. CASE x.seq = y.seq
        BY <1>a, <4>1 DEF Ordered, Alike
      <4>2. CASE x.seq < y.seq
        BY <1>a, <2>2, <3>4, <4>2 DEF Ordered
      <4> QED BY <1>a, <3>3, <4>1, <4>2
    <3> QED BY <1>a, <1>b, <3>6, <3>7
  <2> QED BY <2>1, <2>2
<1>2. ASSUME AdoptsSidecar(f.hdr)
      PROVE  \E x \in Valid :
               /\ Same(x, f) /\ Alike(x.hdr, h) /\ f.hdr.total <= x.hdr.total
               /\ \A y \in Valid : y.seq <= x.seq
  <2>1. LoadFound(side, legacy) /\ LoadedHeader(side, legacy).total >= f.hdr.total
        /\ Len(LoadedHeader(side, legacy).cols) = Len(f.hdr.cols)
    BY <1>2 DEF AdoptsSidecar, Adopts
  <2>2. \E y \in Valid : TRUE
    BY <2>1, LoadedIsValid
  <2>3. PICK x \in Valid : LoadedHeader(side, legacy) = x.hdr /\ \A z \in Valid : z.seq <= x.seq
    BY <1>a, <2>2, LoadedIsNewest
  <2>4. Same(x, f) /\ f.hdr.total <= x.hdr.total
    BY <1>a, <1>b, <2>1, <2>3 DEF Same
  <2>5. x.hdr.cols = f.hdr.cols
    BY <2>4 DEF GoesWith
  <2>6. Alike(x.hdr, h)
    <3>1. PICK y \in Valid :
              /\ y.hdr = LoadedHeader(side, legacy)
              /\ h.max = y.hdr.max /\ h.total = y.hdr.total /\ h.oldest = y.hdr.oldest
              /\ h.extra = y.hdr.extra /\ h.ovf = y.hdr.ovf /\ h.first = y.hdr.first
              /\ h.cols \in {y.hdr.cols, f.hdr.cols}
      BY <1>2, OpenedFrom
    <3> HIDE DEF h
    <3> QED BY <2>3, <2>5, <3>1 DEF Alike
  <2> QED BY <2>3, <2>4, <2>6
<1> HIDE DEF h
<1>3. \/ /\ h = f.hdr
         /\ \A x \in Valid : Same(x, f) => x.hdr.total < h.total
      \/ \E x \in Valid :
           /\ Same(x, f) /\ Alike(x.hdr, h) /\ f.hdr.total <= x.hdr.total
           /\ \A y \in Valid : y.seq <= x.seq
  BY <1>1, <1>2
<1> QED BY <1>3 DEF h

(* A younger or equal slot of the file counts as many records, or more. *)
LEMMA YoungestCounts ==
  ASSUME NEW f, Ordered(Valid, f), \A z \in Valid : InRange(z.hdr),
         NEW x \in Valid, NEW y \in Valid, Same(x, f), Same(y, f), x.seq <= y.seq
  PROVE  x.hdr.total < y.hdr.total \/ Alike(x.hdr, y.hdr)
<1>1. x.seq \in Nat /\ y.seq \in Nat
  BY DEF Ordered
<1>2. x.seq < y.seq \/ x.seq = y.seq
  BY <1>1
<1> QED BY <1>2 DEF Ordered

(* An open finds the header that is on top, ... *)
LEMMA OpenedIsOnTop ==
  ASSUME ShapeInv, NEW f, Ordered(Valid, f), Mirrored(side, legacy), InRange(f.hdr),
         \A x \in Valid : InRange(x.hdr),
         \A x \in Valid : Same(x, f) => GoesWith(x.hdr, f)
  PROVE  OnTop(OpenedHandle(f).hdr, f, Valid)
<1> DEFINE h == OpenedHandle(f).hdr
<1>1. \/ /\ h = f.hdr
         /\ \A x \in Valid : Same(x, f) => x.hdr.total < h.total
      \/ \E x \in Valid :
           /\ Same(x, f) /\ Alike(x.hdr, h) /\ f.hdr.total <= x.hdr.total
           /\ \A y \in Valid : y.seq <= x.seq
  BY OpenedHeader
<1> HIDE DEF h
<1>2. CASE /\ h = f.hdr
           /\ \A x \in Valid : Same(x, f) => x.hdr.total < h.total
  BY <1>2, AlikeFacts DEF OnTop, InRange, h
<1>3. CASE \E x \in Valid :
             /\ Same(x, f) /\ Alike(x.hdr, h) /\ f.hdr.total <= x.hdr.total
             /\ \A y \in Valid : y.seq <= x.seq
  <2>1. PICK x \in Valid :
             /\ Same(x, f) /\ Alike(x.hdr, h) /\ f.hdr.total <= x.hdr.total
             /\ \A y \in Valid : y.seq <= x.seq
    BY <1>3
  <2>2. \A y \in Valid : Same(y, f) => y.hdr.total < x.hdr.total \/ Alike(y.hdr, x.hdr)
    BY <2>1, YoungestCounts
  <2>3. \A y \in Valid : Same(y, f) => y.hdr.total < h.total \/ Alike(y.hdr, h)
    BY <2>1, <2>2 DEF Alike
  <2> QED BY <2>1, <2>3 DEF OnTop, h, Alike
<1> QED BY <1>1, <1>2, <1>3

(* ... and there is only one such header. *)
LEMMA OnTopIsOpened ==
  ASSUME ShapeInv, NEW f, Ordered(Valid, f), Mirrored(side, legacy), InRange(f.hdr),
         \A x \in Valid : InRange(x.hdr),
         \A x \in Valid : Same(x, f) => GoesWith(x.hdr, f),
         NEW g, InRange(g), OnTop(g, f, Valid)
  PROVE  Alike(OpenedHandle(f).hdr, g)
<1> DEFINE h == OpenedHandle(f).hdr
<1>a. OnTop(h, f, Valid)
  BY OpenedIsOnTop
<1> SUFFICES Alike(h, g)
  OBVIOUS
<1> HIDE DEF h
<1>b. f.hdr.total \in Nat /\ g.total \in Nat /\ \A x \in Valid : x.hdr.total \in Nat
  BY DEF InRange
<1>1. CASE Alike(f.hdr, h)
  <2>1. CASE Alike(f.hdr, g)
    BY <1>1, <2>1, AlikeFacts
  <2>2. CASE \E x \in Valid : Same(x, f) /\ Alike(x.hdr, g)
    <3>1. PICK x \in Valid : Same(x, f) /\ Alike(x.hdr, g)
      BY <2>2
    <3>2. x.hdr.total < h.total \/ Alike(x.hdr, h)
      BY <1>a, <3>1 DEF OnTop
    <3>3. f.hdr.total <= g.total /\ x.hdr.total = g.total /\ h.total = f.hdr.total
      BY <1>1, <3>1 DEF OnTop, Alike
    <3>4. ~(x.hdr.total < h.total)
      BY <1>b, <3>3
    <3> QED BY <3>1, <3>2, <3>4, AlikeFacts
  <2> QED BY <2>1, <2>2 DEF OnTop
<1>2. CASE \E x \in Valid : Same(x, f) /\ Alike(x.hdr, h)
  <2>1. PICK x \in Valid : Same(x, f) /\ Alike(x.hdr, h)
    BY <1>2
  <2>2. x.hdr.total < g.total \/ Alike(x.hdr, g)
    BY <2>1 DEF OnTop
  <2>3. CASE Alike(x.hdr, g)
    BY <2>1, <2>3, AlikeFacts
  <2>4. CASE x.hdr.total < g.total
    <3>1. h.total = x.hdr.total /\ f.hdr.total <= h.total
      BY <1>a, <2>1 DEF OnTop, Alike
    <3>2. ~Alike(f.hdr, g)
      BY <1>b, <2>4, <3>1 DEF Alike
    <3>3. PICK y \in Valid : Same(y, f) /\ Alike(y.hdr, g)
      BY <3>2 DEF OnTop
    <3>4. y.hdr.total < h.total \/ Alike(y.hdr, h)
      BY <1>a, <3>3 DEF OnTop
    <3>5. ~(y.hdr.total < h.total)
      BY <1>b, <2>4, <3>1, <3>3 DEF Alike
    <3> QED BY <3>3, <3>4, <3>5, AlikeFacts
  <2> QED BY <2>2, <2>3, <2>4
<1> QED BY <1>1, <1>2, <1>a DEF OnTop

(* What the application sees depends on these fields alone. *)
LEMMA ReadAlike ==
  ASSUME NEW f, NEW d, NEW e, Alike(d.hdr, e.hdr), SameCopies(d, e)
  PROVE  /\ d.hdr.max = e.hdr.max /\ Columns(f, d) = Columns(f, e)
         /\ Available(d.hdr) = Available(e.hdr)
         /\ \A k : Base(f, d, k) = Base(f, e, k) /\ Read(f, d, k) = Read(f, e, k)
<1>1. /\ d.hdr.max = e.hdr.max /\ d.hdr.total = e.hdr.total /\ d.hdr.oldest = e.hdr.oldest
      /\ d.hdr.cols = e.hdr.cols /\ d.extra = e.extra /\ d.ovf = e.ovf /\ d.first = e.first
  BY DEF Alike, SameCopies
<1>2. Columns(f, d) = Columns(f, e)
  BY <1>1 DEF Columns
<1>3. Available(d.hdr) = Available(e.hdr)
  BY <1>1 DEF Available, Unlimited
<1>4. \A k : PhysicalIdx(d.hdr, k) = PhysicalIdx(e.hdr, k)
  BY <1>1 DEF PhysicalIdx, Unlimited
<1>5. \A n : Extras(f, d, n) = Extras(f, e, n)
  BY <1>1 DEF Extras
<1>6. \A k : Base(f, d, k) = Base(f, e, k)
  BY <1>1, <1>4 DEF Base
<1>7. \A k : Read(f, d, k) = Read(f, e, k)
  BY <1>1, <1>3, <1>5, <1>6 DEF Read
<1> QED BY <1>1, <1>2, <1>3, <1>6, <1>7

(* A power cut between calls costs extra values of the newest record only. *)
LEMMA ReadLost ==
  ASSUME ShapeInv, RangeInv, RegionInv, HonestInv, LateInv, pc = "idle"
  PROVE  LET f == Lost(main, db) IN
         /\ Columns(f, db) = Columns(main, db)
         /\ \A k : Base(f, db, k) = Base(main, db, k)
         /\ \A k \in 0 .. Available(db.hdr) - 1 :
              \/ Read(f, db, k) = Read(main, db, k)
              \/ db.late # NoLate /\ k = Available(db.hdr) - 1
<1> DEFINE f == Lost(main, db)
           s == main.regions
           t == f.regions
           o == db.ovf
           a == Available(db.hdr)
<1>1. IsFile(main) /\ IsSeq(s) /\ \A i \in 1 .. Len(s) : IsRegion(s[i])
  BY DEF ShapeInv, RegionInv, WellFormed
<1>a. CellApart(s, t, db)
  BY <1>1, LostRegions
<1>3. f.data = main.data
  BY <1>1, LostKept
<1>4. db.extra \in Nat /\ (db.extra # 0 => o \in 1 .. Len(s))
  <2>1. ExtrasIn(db.extra, o, main)
    BY DEF RegionInv
  <2> QED BY <2>1 DEF ExtrasIn
<1>5. /\ db.hdr.total \in Nat /\ db.hdr.total <= clock /\ clock \in 0 .. MaxTs
      /\ db.first \in Nat /\ MaxTs \in Nat
  BY SchemaAssumption DEF RangeInv, HeaderRange, CallRange, InRange, HonestInv, Counts
<1>6. a \in Nat /\ a <= db.hdr.total
  <2>1. InRange(db.hdr)
    BY DEF RangeInv, HeaderRange
  <2> QED BY <2>1, AvailableRange
<1> HIDE DEF f, s, t, a
<1>2. /\ IsSeq(t) /\ Len(t) = Len(s)
      /\ \A i \in 1 .. Len(s) :
           /\ IsRegion(t[i]) /\ t[i].cols = s[i].cols
           /\ t[i] = s[i] \/ /\ db.late # NoLate /\ i = db.ovf
                             /\ t[i].intact = s[i].intact
                             /\ t[i].cells = [s[i].cells EXCEPT ![db.late.at] = db.late.was]
  BY <1>a DEF CellApart
<1>7. db.extra # 0 => t[o].cols = s[o].cols /\ t[o].intact = s[o].intact
  BY <1>2, <1>4
<1>8. Columns(f, db) = Columns(main, db)
  <2>1. db.extra # 0 => ExtraNames(t[o]) = ExtraNames(s[o])
    BY <1>7 DEF ExtraNames
  <2> QED BY <2>1 DEF Columns, s, t
<1>9. \A k : Base(f, db, k) = Base(main, db, k)
  BY <1>3 DEF Base
<1>10. ASSUME NEW k \in 0 .. a - 1, db.late = NoLate \/ k # a - 1
       PROVE  Read(f, db, k) = Read(main, db, k)
  <2> DEFINE n == (db.hdr.total - a) + k
  <2>1. n \in Nat /\ n <= db.hdr.total - 1
    BY <1>5, <1>6
  <2>2. Extras(f, db, n) = Extras(main, db, n)
    <3>1. CASE db.extra = 0 \/ n < db.first
      BY <3>1 DEF Extras
    <3>2. CASE db.extra # 0 /\ ~(n < db.first)
      <4>1. n - db.first \in 0 .. MaxTs
        BY <1>5, <2>1, <3>2
      <4>2. s[o].cells \in [0 .. MaxTs -> Seq(Values)]
        BY <1>4, <3>2 DEF HonestInv, HonestFile, HonestRegion, s
      <4>3. db.late # NoLate => n - db.first # db.late.at
        <5>1. db.late # NoLate => db.late.at = db.hdr.total - 1 - db.first
          BY DEF LateInv
        <5> QED BY <1>5, <1>6, <1>10, <5>1
      <4> HIDE DEF n
      <4>4. t[o].cells[n - db.first] = s[o].cells[n - db.first]
        BY <1>2, <1>4, <3>2, <4>1, <4>2, <4>3
      <4> QED BY <3>2, <4>4 DEF Extras, s, t
    <3> QED BY <3>1, <3>2
  <2>3. Base(f, db, k) = Base(main, db, k)
    BY <1>9
  <2> QED BY <2>2, <2>3 DEF Read, a
<1> QED BY <1>8, <1>9, <1>10 DEF f, a

LEMMA DurableInvImplies ==
  ASSUME ShapeInv, SwapInv, RangeInv, RegionInv, HonestInv, KeepInv
  PROVE  AlteredIsDurable
<1> SUFFICES ASSUME pc = "idle", NEW f \in {main, Lost(main, db)}
             PROVE  LET d == OpenedHandle(f)
                        n == Available(db.hdr)
                    IN  /\ d.hdr.max = db.hdr.max
                        /\ Columns(f, d) = Columns(main, db)
                        /\ Available(d.hdr) = n
                        /\ \A k \in 0 .. n - 1 :
                             \/ Read(f, d, k) = Read(main, db, k)
                             \/ /\ db.late # NoLate /\ k = n - 1
                                /\ Base(f, d, k) = Base(main, db, k)
  BY DEF AlteredIsDurable
<1>1. main.there /\ Survivor = main
  BY DEF SwapInv, Settling, Survivor
<1>2. /\ Ordered(Valid, main) /\ Mirrored(side, legacy) /\ InRange(main.hdr) /\ InRange(db.hdr)
      /\ \A x \in Valid : InRange(x.hdr)
      /\ \A x \in Valid : Same(x, main) => GoesWith(x.hdr, main)
  BY <1>1 DEF KeepInv, SlotsInv, RangeInv, HeaderRange, RegionInv
<1>3. OnTop(db.hdr, main, Valid) /\ CopiesAgree(db)
  BY DEF KeepInv, DurableInv
<1>4. Alike(OpenedHandle(main).hdr, db.hdr) /\ CopiesAgree(OpenedHandle(main))
  BY <1>2, <1>3, OnTopIsOpened, OpenedEffect
<1> DEFINE d == OpenedHandle(f)
<1>5. d = OpenedHandle(main)
  <2>1. f.hdr = main.hdr
    BY LostKept DEF ShapeInv
  <2> QED BY <2>1 DEF OpenedHandle
<1> HIDE DEF d
<1>6. Alike(d.hdr, db.hdr) /\ SameCopies(d, db)
  BY <1>3, <1>4, <1>5 DEF CopiesAgree, Alike, SameCopies
<1>7. /\ d.hdr.max = db.hdr.max /\ Columns(f, d) = Columns(f, db)
      /\ Available(d.hdr) = Available(db.hdr)
      /\ \A k : Base(f, d, k) = Base(f, db, k) /\ Read(f, d, k) = Read(f, db, k)
  BY <1>6, ReadAlike
<1>8. /\ Columns(f, db) = Columns(main, db)
      /\ \A k : Base(f, db, k) = Base(main, db, k)
      /\ \A k \in 0 .. Available(db.hdr) - 1 :
           \/ Read(f, db, k) = Read(main, db, k)
           \/ db.late # NoLate /\ k = Available(db.hdr) - 1
  BY ReadLost DEF KeepInv
<1> QED BY <1>7, <1>8 DEF d

-----------------------------------------------------------------------------
(* Steps on the slots *)

(* Fewer slots, or a file of as many columns. *)
LEMMA OrderedKept ==
  ASSUME NEW V, NEW f, Ordered(V, f), NEW W, W \subseteq V, NEW g, \A x : Same(x, g) <=> Same(x, f)
  PROVE  Ordered(W, g)
  BY DEF Ordered

LEMMA OnTopKept ==
  ASSUME NEW h, NEW V, NEW f, NEW g, OnTop(h, f, V), g.hdr = f.hdr
  PROVE  OnTop(h, g, V)
  BY DEF OnTop, Same

LEMMA OnTopAlike ==
  ASSUME NEW h, NEW V, NEW f, OnTop(h, f, V), NEW g, Alike(h, g)
  PROVE  OnTop(g, f, V)
<1>1. g.total = h.total
  BY DEF Alike
<1> QED BY <1>1, AlikeFacts DEF OnTop

(* No slot is one of the file's, and its header is the handle's. *)
LEMMA OnTopAlone ==
  ASSUME NEW h, InRange(h), NEW V, NEW f, Alike(f.hdr, h), \A x \in V : ~Same(x, f)
  PROVE  OnTop(h, f, V)
  BY DEF OnTop, Alike, InRange

LEMMA NumberedKept ==
  ASSUME NEW V, NEW l, NEW d, Numbered(d, V, l), NEW e, SameNumbers(d, e)
  PROVE  Numbered(e, V, l)
  BY DEF Numbered, SameNumbers

(* The slots stay, and so does the file as far as they are concerned. *)
LEMMA SlotsStay ==
  ASSUME SlotsInv, UNCHANGED <<side, legacy>>, \A x : Same(x, Survivor') <=> Same(x, Survivor)
  PROVE  SlotsInv'
<1>1. Valid' = Valid
  BY SlotsKept
<1>2. Ordered(Valid', Survivor')
  BY <1>1, OrderedKept DEF SlotsInv
<1>3. (Ordered(Valid, Survivor))'
  BY <1>2 DEF Ordered, Same, Alike, Sane
<1>4. Mirrored(side, legacy)'
  BY DEF SlotsInv, Mirrored, Found
<1> QED BY <1>3, <1>4 DEF SlotsInv

LEMMA NoSlotsLeft ==
  ASSUME Valid' = {}
  PROVE  SlotsInv'
<1>1. \A n \in {0, 1} : ~side'[n].ok
  BY DEF Valid
<1> QED BY <1>1 DEF SlotsInv, Ordered, Mirrored

LEMMA NumbersStay ==
  ASSUME NumbersInv, UNCHANGED <<side, legacy>>, pc \notin {"closed", "remove"}, SameNumbers(db, db')
  PROVE  NumbersInv'
<1>1. Valid' = Valid
  BY SlotsKept
<1>2. Numbered(db', Valid', legacy')
  BY <1>1, NumberedKept DEF NumbersInv
<1>3. Numbered(db, Valid, legacy)'
  BY <1>2 DEF Numbered, Found
<1>4. (db.side \in {0, 1} /\ db.leg \in {0, 1})'
  BY DEF NumbersInv, SameNumbers
<1> QED BY <1>3, <1>4 DEF NumbersInv

LEMMA NumbersShut ==
  ASSUME pc' = "closed"
  PROVE  NumbersInv'
  BY DEF NumbersInv

LEMMA DurableShut ==
  ASSUME pc' = "closed"
  PROVE  DurableInv'
  BY DEF DurableInv

(* A step that ends with the handle's header on top. *)
LEMMA DurableSettled ==
  ASSUME pc' \in {"idle", "region", "copy", "unlink"}, CopiesAgree(db'),
         OnTop(db'.hdr, main', Valid')
  PROVE  DurableInv'
<1>1. OnTop(db.hdr, main, Valid)'
  BY DEF OnTop, Same, Alike
<1>2. CopiesAgree(db)'
  BY DEF CopiesAgree
<1> QED BY <1>1, <1>2 DEF DurableInv

(* Nothing is late, and no copy is finished. *)
LEMMA LateNothing ==
  ASSUME db'.late = NoLate, pc' \notin {"unlink", "swap"} \/ Alike(mig'.hdr, FinalHeader')
  PROVE  LateInv'
<1>1. pc' \in {"unlink", "swap"} => Alike(mig.hdr, FinalHeader)'
  BY DEF Alike
<1> QED BY <1>1 DEF LateInv

(* The same record is late, ... *)
LEMMA LateCarried ==
  ASSUME LateInv, pc \in {"idle", "copy", "unlink"}, pc' \in {"idle", "copy", "unlink"},
         db'.late = NoLate \/ (/\ db'.late = db.late /\ db'.extra = db.extra /\ db'.first = db.first
                              /\ db'.hdr.total = db.hdr.total),
         pc' # "unlink" \/ Alike(mig'.hdr, FinalHeader')
  PROVE  LateInv'
<1>1. pc' \in {"unlink", "swap"} => Alike(mig.hdr, FinalHeader)'
  BY DEF Alike
<1> QED BY <1>1 DEF LateInv

(* ... and goes into a fold. *)
LEMMA LateFolds ==
  ASSUME LateInv, pc = "idle", pc' = "fold", db'.late = db.late, db'.extra = db.extra,
         db.late # NoLate => op' \in {"sync", "close", "clear"}
  PROVE  LateInv'
  BY DEF LateInv

LEMMA HandleSame == \A d : SameNumbers(d, d) /\ SameCopies(d, d)
  BY DEF SameNumbers, SameCopies

(* Survivor before and after a step on an open database. *)
LEMMA SurvivorSettled ==
  ASSUME main.there, main'.there, WellFormed(main), Carries(main', main)
  PROVE  \A x : Same(x, Survivor') <=> Same(x, Survivor)
  BY CarriesOn DEF Survivor

LEMMA DurableStepOpen ==
  ASSUME ShapeInv, SwapInv, RangeInv, RegionInv, KeepInv,
         Recover \/ CreateFile \/ OpenExisting \/ Crash
  PROVE  KeepInv'
<1>a. SlotsInv /\ NumbersInv /\ DurableInv
  BY DEF KeepInv
<1>b. ASSUME UNCHANGED <<side, legacy>>, Survivor'.hdr = Survivor.hdr, pc' = "closed",
             db' = NoHandle
      PROVE  KeepInv'
  <2>1. SlotsInv'
    BY <1>a, <1>b, SlotsStay DEF Same
  <2>2. LateInv'
    BY <1>b, LateNothing, NewHandleEffect DEF NoHandle
  <2> QED BY <1>b, <2>1, <2>2, NumbersShut, DurableShut DEF KeepInv
<1>c. ASSUME CreateDatabase PROVE KeepInv'
  <2> DEFINE h == NewHeader(ConfigMax, ConfigCols)
  <2>1. /\ main' = NewFile(h) /\ db' = NewHandle(h) /\ Valid' = {} /\ pc' = "idle"
        /\ legacy' = NoSlots
    BY <1>c, CreatedEffect
  <2>2. /\ NewFile(h).hdr = h /\ NewHandle(h).hdr = h /\ CopiesAgree(NewHandle(h))
        /\ NewHandle(h).seq = 0 /\ NewHandle(h).side = 0
        /\ NewHandle(h).leg = 0 /\ NewHandle(h).lseq = 0 /\ NewHandle(h).late = NoLate
    BY NoFileEffect, NewHandleEffect DEF CopiesAgree
  <2>3. InRange(h)
    BY NewInRange, SchemaAssumption
  <2> HIDE DEF h
  <2>4. OnTop(db'.hdr, main', Valid') /\ CopiesAgree(db')
    BY <2>1, <2>2, <2>3, AlikeFacts, OnTopAlone
  <2>5. \A n \in {0, 1} : ~legacy'[n].ok
    BY <2>1 DEF Valid
  <2>6. NumbersInv'
    BY <2>1, <2>2, <2>5 DEF NumbersInv, Numbered
  <2>7. LateInv'
    BY <2>1, <2>2, LateNothing
  <2> QED BY <2>1, <2>4, <2>6, <2>7, NoSlotsLeft, DurableSettled DEF KeepInv
<1>1. CASE Recover
  <2>1. /\ pc = "closed" /\ mig.there
        /\ \/ main.there /\ mig' = NoFile /\ UNCHANGED <<main, side, legacy, db, pc>>
           \/ ~main.there /\ main' = mig /\ mig' = NoFile /\ UNCHANGED <<side, legacy, db, pc>>
           \/ CreateDatabase
    BY <1>1, Zenon DEF Recover
  <2>a. db = NoHandle
    BY <2>1 DEF RegionInv
  <2>2. CASE main.there /\ mig' = NoFile /\ UNCHANGED <<main, side, legacy, db, pc>>
    BY <1>b, <2>1, <2>2, <2>a DEF Survivor
  <2>3. CASE ~main.there /\ main' = mig /\ mig' = NoFile /\ UNCHANGED <<side, legacy, db, pc>>
    BY <1>b, <2>1, <2>3, <2>a DEF Survivor
  <2> QED BY <1>c, <2>1, <2>2, <2>3
<1>2. CASE CreateFile
  BY <1>c, <1>2 DEF CreateFile
<1>3. CASE OpenExisting
  <2>1. /\ pc = "closed" /\ pc' = "idle" /\ main.there /\ db' = OpenedHandle(main)
        /\ UNCHANGED <<main, mig, side, legacy>>
    BY <1>3 DEF OpenExisting, Goto, disk
  <2>2. Survivor = main /\ Survivor' = main /\ Valid' = Valid
    BY <2>1, SlotsKept DEF Survivor
  <2>3. /\ Ordered(Valid, main) /\ Mirrored(side, legacy) /\ InRange(main.hdr)
        /\ \A x \in Valid : InRange(x.hdr)
        /\ \A x \in Valid : Same(x, main) => GoesWith(x.hdr, main)
    BY <1>a, <2>2 DEF SlotsInv, RangeInv, HeaderRange, RegionInv
  <2>4. OnTop(db'.hdr, main', Valid') /\ CopiesAgree(db')
    BY <2>1, <2>2, <2>3, OpenedIsOnTop, OpenedEffect
  <2>5. SlotsInv'
    BY <1>a, <2>1, <2>2, SlotsStay
  <2>6. /\ db'.seq = LoadedSeq(side, legacy) /\ db'.lseq = NewestSeq(legacy)
        /\ db'.side = Newest(side) /\ db'.leg = Newest(legacy)
    BY <2>1, OpenedEffect
  <2>7. NumbersInv'
    <3>a. \A n \in {0, 1} : (side[n].ok => side[n].seq \in Nat) /\ (legacy[n].ok => legacy[n].seq \in Nat)
      BY <2>3, ValidSlots DEF Ordered
    <3>1. /\ NewestSeq(side) \in Nat /\ \A n \in {0, 1} : side[n].ok => side[n].seq <= NewestSeq(side)
      <4>1. CASE Found(side)
        BY <3>a, <4>1, NewestIsNewest
      <4>2. CASE ~Found(side)
        BY <4>2 DEF Found, NewestSeq
      <4> QED BY <4>1, <4>2
    <3>2. /\ NewestSeq(legacy) \in Nat
          /\ ~Found(legacy) => NewestSeq(legacy) = 0
          /\ \A n \in {0, 1} : legacy[n].ok => legacy[n].seq <= NewestSeq(legacy)
      <4>1. CASE Found(legacy)
        BY <3>a, <4>1, NewestIsNewest
      <4>2. CASE ~Found(legacy)
        BY <4>2 DEF Found, NewestSeq
      <4> QED BY <4>1, <4>2
    <3>3. /\ LoadedSeq(side, legacy) \in Nat /\ NewestSeq(side) <= LoadedSeq(side, legacy)
          /\ NewestSeq(legacy) <= LoadedSeq(side, legacy)
      BY <3>1, <3>2 DEF LoadedSeq
    <3>4. \A x \in Valid : x.seq <= LoadedSeq(side, legacy)
      <4> TAKE x \in Valid
      <4>1. PICK n \in {0, 1} : (x = side[n] /\ side[n].ok) \/ (x = legacy[n] /\ legacy[n].ok)
        BY ValidIs
      <4>2. CASE x = side[n] /\ side[n].ok
        BY <3>1, <3>3, <3>a, <4>2
      <4>3. CASE x = legacy[n] /\ legacy[n].ok
        BY <3>2, <3>3, <3>a, <4>3
      <4> QED BY <4>1, <4>2, <4>3
    <3>5. Numbered(db', Valid', legacy')
      BY <2>1, <2>2, <2>6, <3>2, <3>3, <3>4 DEF Numbered
    <3>6. Numbered(db, Valid, legacy)'
      BY <3>5 DEF Numbered, Found
    <3>7. db'.side \in {0, 1} /\ db'.leg \in {0, 1}
      BY <2>6 DEF Newest
    <3> QED BY <2>1, <3>6, <3>7 DEF NumbersInv
  <2>8. LateInv'
    BY <2>1, OpenedEffect, LateNothing
  <2> QED BY <2>1, <2>4, <2>5, <2>7, <2>8, DurableSettled DEF KeepInv
<1>4. CASE Crash
  <2>1. /\ pc' = "closed" /\ UNCHANGED <<mig, side, legacy>> /\ db' = NoHandle
        /\ main' \in {main, Lost(main, db)}
    BY <1>4 DEF Crash, Goto
  <2>2. main'.hdr = main.hdr /\ main'.there = main.there
    BY <2>1, LostKept DEF ShapeInv
  <2> QED BY <1>b, <2>1, <2>2 DEF Survivor
<1> QED BY <1>1, <1>2, <1>3, <1>4

LEMMA DurableStepFold ==
  ASSUME "clearfail" \notin Env, ShapeInv, SwapInv, RangeInv, RegionInv, KeepInv,
         Sync \/ Close \/ Clear \/ FoldHeader \/ RemoveSlot \/ RemoveReturns
           \/ \E m \in Capacities : ResizeInPlace(m)
  PROVE  KeepInv'
<1>a. SlotsInv /\ NumbersInv /\ DurableInv /\ LateInv
  BY DEF KeepInv
<1>b. /\ pc \in Settling /\ main.there /\ main'.there
  BY FoldShape DEF Ordinary, SwapInv, Settling
<1>c. /\ WellFormed(main) /\ GoesWith(db.hdr, main) /\ InRange(db.hdr) /\ IsHeader(db.hdr)
      /\ CopiesAgree(db)
  BY <1>a, <1>b DEF RegionInv, Settling, RangeInv, HeaderRange, ShapeInv, IsHandle, DurableInv
<1>d. ASSUME UNCHANGED <<side, legacy>>, main'.hdr.cols = main.hdr.cols PROVE SlotsInv'
  <2>1. \A x : Same(x, Survivor') <=> Same(x, Survivor)
    BY <1>b, <1>d DEF Survivor, Same
  <2> QED BY <1>a, <1>d, <2>1, SlotsStay
<1>1. CASE Sync \/ Close
  <2>1. /\ pc = "idle" /\ pc' = "fold" /\ op' \in {"sync", "close"}
        /\ UNCHANGED <<main, side, legacy, db>>
    BY <1>1 DEF Sync, Close, StartFold, Goto, disk
  <2>2. Valid' = Valid /\ OnTop(db.hdr, main, Valid)
    BY <1>a, <2>1, SlotsKept DEF DurableInv
  <2>3. OnTop(db.hdr, main, Valid)'
    BY <2>1, <2>2
  <2>4. DurableInv'
    BY <1>c, <2>1, <2>3 DEF DurableInv, CopiesAgree
  <2>5. NumbersInv'
    BY <1>a, <2>1, HandleSame, NumbersStay
  <2>6. LateInv'
    BY <1>a, <2>1, LateFolds
  <2> QED BY <1>d, <2>1, <2>4, <2>5, <2>6 DEF KeepInv
<1>2. CASE Clear
  <2>1. /\ pc = "idle" /\ pc' = "fold" /\ op' = "clear" /\ UNCHANGED <<main, side, legacy>>
        /\ db'.hdr.extra = db.hdr.extra /\ db'.hdr.ovf = db.hdr.ovf /\ db'.hdr.first = 0
        /\ db'.extra = db.extra /\ db'.ovf = db.ovf /\ db'.first = 0 /\ SameNumbers(db, db')
        /\ db'.late = db.late
    BY <1>2, ClearEffect
  <2>2. DurableInv'
    BY <1>c, <2>1 DEF DurableInv, CopiesAgree
  <2>3. NumbersInv'
    BY <1>a, <2>1, NumbersStay
  <2>4. LateInv'
    BY <1>a, <2>1, LateFolds
  <2> QED BY <1>d, <2>1, <2>2, <2>3, <2>4 DEF KeepInv
<1>3. CASE FoldHeader
  <2>1. pc = "fold" /\ UNCHANGED <<side, legacy, gone>> /\ gone = 0
    BY <1>3, FoldHeaderEffect DEF RangeInv, CallRange
  <2>2. CASE /\ main'.hdr = db.hdr /\ db'.hdr = db.hdr /\ SameCopies(db, db')
             /\ SameNumbers(db, db') /\ pc' = "remove" /\ db'.late = NoLate
    <3>1. SlotsInv'
      BY <1>c, <1>d, <2>1, <2>2 DEF GoesWith
    <3>2. NumbersInv'
      BY <1>a, <2>1, <2>2, NumbersStay
    <3>3. db'.seq \in Nat
      BY <1>a, <2>1, <2>2 DEF NumbersInv, Numbered, SameNumbers
    <3>4. CopiesAgree(db') /\ Alike(main'.hdr, db'.hdr)
      BY <1>c, <2>2, AlikeFacts DEF CopiesAgree, SameCopies
    <3>5. CopiesAgree(db)' /\ Alike(main.hdr, db.hdr)'
      BY <3>4 DEF CopiesAgree, Alike
    <3>6. DurableInv'
      BY <2>1, <2>2, <3>3, <3>5 DEF DurableInv
    <3>7. LateInv'
      BY <2>2, LateNothing
    <3> QED BY <3>1, <3>2, <3>6, <3>7 DEF KeepInv
  <2>3. CASE UNCHANGED main /\ pc' = "closed" /\ db' = NoHandle
    <3>1. LateInv'
      BY <2>3, NewHandleEffect, LateNothing DEF NoHandle
    <3> QED BY <1>d, <2>1, <2>3, <3>1, NumbersShut, DurableShut DEF KeepInv
  <2>4. CASE /\ UNCHANGED main /\ pc' = "idle" /\ SameCopies(db, db') /\ SameNumbers(db, db')
             /\ op # "clear" /\ op # "close"
             /\ db'.late = IF op = "sync" THEN NoLate ELSE db.late
             /\ db'.hdr = IF op = "resize" THEN [db.hdr EXCEPT !.max = job.max] ELSE db.hdr
    <3>1. OnTop(db'.hdr, main, Valid)
      BY <1>a, <2>1, <2>4 DEF DurableInv
    <3>2. Valid' = Valid
      BY <2>1, SlotsKept
    <3>3. CopiesAgree(db')
      <4>1. SameShape(db.hdr, [db.hdr EXCEPT !.max = job.max])
        BY <1>c, ResizedHeader
      <4>2. SameShape(db.hdr, db'.hdr)
        BY <2>4, <4>1 DEF SameShape
      <4> QED BY <1>c, <2>4, <4>2 DEF CopiesAgree, SameCopies, SameShape
    <3>4. DurableInv'
      BY <2>4, <3>1, <3>2, <3>3, DurableSettled
    <3>5. NumbersInv'
      BY <1>a, <2>1, <2>4, NumbersStay
    <3>6. db'.late = NoLate
      BY <1>a, <2>1, <2>4 DEF LateInv, DurableInv
    <3>7. LateInv'
      BY <2>4, <3>6, LateNothing
    <3> QED BY <1>d, <2>1, <2>4, <3>4, <3>5, <3>7 DEF KeepInv
  <2> QED BY <1>3, <2>2, <2>3, <2>4, FoldHeaderEffect
<1>4. CASE RemoveSlot
  <2>1. /\ pc = "remove" /\ UNCHANGED <<main, db, pc, op>> /\ gone < 4 /\ gone' = gone + 1
        /\ \/ gone < 2 /\ side' = [side EXCEPT ![gone] = NoSlot] /\ legacy' = legacy
           \/ ~(gone < 2) /\ legacy' = [legacy EXCEPT ![gone - 2] = NoSlot] /\ side' = side
    BY <1>4 DEF RemoveSlot
  <2>2. gone \in 0 .. 3 /\ ~NoSlot.ok /\ DOMAIN side = {0, 1} /\ DOMAIN legacy = {0, 1}
    BY <2>1 DEF RangeInv, CallRange, NoSlot, ShapeInv, IsSlots
  <2>3. /\ gone > 0 => ~side[0].ok
        /\ gone > 1 => ~side[1].ok
        /\ gone > 2 => ~legacy[0].ok
        /\ db.seq \in Nat /\ Alike(main.hdr, db.hdr) /\ CopiesAgree(db)
    BY <1>a, <2>1 DEF DurableInv
  <2>4. /\ \A n \in {0, 1} : side'[n] \in {side[n], NoSlot} /\ legacy'[n] \in {legacy[n], NoSlot}
        /\ ~(gone < 2) => side' = side
        /\ gone < 2 => legacy' = legacy
    BY <2>1, <2>2
  <2>5. /\ gone' > 0 => ~side'[0].ok
        /\ gone' > 1 => ~side'[1].ok
        /\ gone' > 2 => ~legacy'[0].ok
        /\ gone' > 3 => ~legacy'[1].ok
    <3>1. CASE gone = 0
      BY <2>1, <2>2, <2>3, <3>1
    <3>2. CASE gone = 1
      BY <2>1, <2>2, <2>3, <3>2
    <3>3. CASE gone = 2
      BY <2>1, <2>2, <2>3, <3>3
    <3>4. CASE gone = 3
      BY <2>1, <2>2, <2>3, <3>4
    <3> QED BY <2>2, <3>1, <3>2, <3>3, <3>4
  <2>6. DurableInv'
    BY <2>1, <2>3, <2>5 DEF DurableInv, CopiesAgree, Alike
  <2>7. NumbersInv'
    BY <1>a, <2>1 DEF NumbersInv
  <2>8. Ordered(Valid, Survivor)'
    <3>1. Survivor' = Survivor
      BY <1>b, <2>1 DEF Survivor
    <3>2. Valid' \subseteq Valid
      BY <1>4, RemoveValid
    <3>3. Ordered(Valid', Survivor')
      BY <1>a, <3>1, <3>2, OrderedKept DEF SlotsInv
    <3> QED BY <3>3 DEF Ordered, Same, Alike, Sane
  <2>9. Mirrored(side, legacy)'
    <3>1. Mirrored(side, legacy)
      BY <1>a DEF SlotsInv
    <3>2. CASE gone < 2
      BY <2>2, <2>4, <3>1, <3>2 DEF Mirrored, Found
    <3>3. CASE ~(gone < 2)
      <4>1. ~side'[0].ok /\ ~side'[1].ok
        BY <2>2, <2>3, <2>4, <3>3
      <4> QED BY <4>1 DEF Mirrored
    <3> QED BY <3>2, <3>3
  <2>10. LateInv'
    BY <1>a, <2>1, LateNothing DEF LateInv
  <2> QED BY <2>6, <2>7, <2>8, <2>9, <2>10 DEF KeepInv, SlotsInv
<1>5. CASE RemoveReturns
  <2>1. /\ pc = "remove" /\ gone = 4 /\ UNCHANGED <<main, side, legacy>>
        /\ \/ pc' = "closed" /\ db' = NoHandle
           \/ /\ pc' = "idle" /\ db'.hdr = db.hdr /\ SameCopies(db, db') /\ db'.late = db.late
              /\ db'.seq = db.seq /\ db'.side = db.side /\ db'.leg = db.leg /\ db'.lseq = 0
    BY <1>5, RemoveReturnsEffect
  <2>a. pc' # "remove" /\ db'.late = NoLate
    BY <1>a, <2>1, NewHandleEffect DEF LateInv, NoHandle
  <2>b. LateInv'
    BY <2>1, <2>a, LateNothing
  <2>2. /\ ~side[0].ok /\ ~side[1].ok /\ ~legacy[0].ok /\ ~legacy[1].ok
        /\ db.seq \in Nat /\ Alike(main.hdr, db.hdr)
    BY <1>a, <2>1 DEF DurableInv
  <2>3. Valid' = {}
    BY <2>1, <2>2 DEF Valid
  <2>4. CASE pc' = "closed"
    BY <2>3, <2>4, <2>b, NoSlotsLeft, NumbersShut, DurableShut DEF KeepInv
  <2>5. CASE /\ pc' = "idle" /\ db'.hdr = db.hdr /\ SameCopies(db, db')
             /\ db'.seq = db.seq /\ db'.side = db.side /\ db'.leg = db.leg /\ db'.lseq = 0
    <3>1. \A n \in {0, 1} : ~legacy'[n].ok
      BY <2>1, <2>2
    <3>2. db.side \in {0, 1} /\ db.leg \in {0, 1}
      BY <1>a, <2>1 DEF NumbersInv
    <3>3. NumbersInv'
      BY <2>2, <2>3, <2>5, <3>1, <3>2 DEF NumbersInv, Numbered
    <3>4. OnTop(db'.hdr, main', Valid')
      BY <1>c, <2>1, <2>2, <2>3, <2>5, OnTopAlone
    <3>5. CopiesAgree(db')
      BY <1>c, <2>5 DEF CopiesAgree, SameCopies
    <3> QED BY <2>3, <2>5, <2>b, <3>3, <3>4, <3>5, NoSlotsLeft, DurableSettled DEF KeepInv
  <2> QED BY <2>1, <2>4, <2>5
<1>6. CASE \E m \in Capacities : ResizeInPlace(m)
  <2>1. PICK m \in Capacities : ResizeInPlace(m)
    BY <1>6
  <2>2. /\ pc = "idle" /\ pc' = "fold" /\ op' = "resize" /\ UNCHANGED <<main, side, legacy>>
        /\ db'.hdr = [db.hdr EXCEPT !.max = m] /\ SameCopies(db, db') /\ SameNumbers(db, db')
        /\ job' = [NoJob EXCEPT !.max = db.hdr.max] /\ db'.late = db.late /\ FastResize(m)
    BY <2>1, ResizeEffect
  <2> DEFINE g == [db.hdr EXCEPT !.max = m]
             h == [g EXCEPT !.max = job'.max]
  <2>3. SameShape(db.hdr, g) /\ IsHeader(g) /\ g.total = db.hdr.total /\ g.oldest = db.hdr.oldest
    BY <1>c, ResizedHeader
  <2>4. job'.max = db.hdr.max
    BY <2>2, NoJobEffect
  <2>a. db'.hdr = g
    BY <2>2
  <2> HIDE DEF g
  <2>5. h.max = db.hdr.max /\ SameShape(g, h) /\ h.total = g.total /\ h.oldest = g.oldest
    BY <2>3, <2>4, ResizedHeader
  <2> HIDE DEF h
  <2>6. Alike(db.hdr, h)
    BY <2>3, <2>5 DEF Alike, SameShape
  <2>7. OnTop(h, main', Valid')
    <3>1. OnTop(db.hdr, main, Valid) /\ Valid' = Valid
      BY <1>a, <2>2, SlotsKept DEF DurableInv
    <3> QED BY <2>2, <2>6, <3>1, OnTopAlike
  <2>8. OnTop([db.hdr EXCEPT !.max = job.max], main, Valid)'
    BY <2>7, <2>a DEF h
  <2>9. CopiesAgree(db')
    BY <1>c, <2>2, <2>3, <2>a DEF CopiesAgree, SameCopies, SameShape
  <2>10. DurableInv'
    BY <2>2, <2>8, <2>9 DEF DurableInv, CopiesAgree
  <2>11. NumbersInv'
    BY <1>a, <2>2, NumbersStay
  <2>12. db'.late = NoLate
    BY <1>a, <2>2 DEF LateInv, FastResize
  <2>13. LateInv'
    BY <2>2, <2>12, LateNothing
  <2> QED BY <1>d, <2>2, <2>10, <2>11, <2>13 DEF KeepInv
<1> QED BY <1>1, <1>2, <1>3, <1>4, <1>5, <1>6

LEMMA DurableStepWrite ==
  ASSUME ShapeInv, SwapInv, RangeInv, RegionInv, KeepInv, Write
  PROVE  KeepInv'
<1> DEFINE h == WrittenHeader
           n == db.seq + 1
           a == ValidSlot(db.seq + 1, db.lseq, WrittenHeader)
           b == ValidSlot(db.seq + 1, 0, WrittenHeader)
           s == Other(db.side)
           l == Other(db.leg)
<1>1. /\ pc = "idle" /\ UNCHANGED <<mig, pc>>
      /\ db.hdr.total < (IF Unlimited(db.hdr) THEN MaxSlots ELSE 2 * db.hdr.max)
      /\ main'.there = main.there /\ main'.hdr = main.hdr
      /\ db'.hdr = h /\ SameCopies(db, db') /\ db'.late = LateNow
      /\ db'.seq = n /\ db'.side = s
      /\ db'.leg = (IF Mirrors THEN l ELSE db.leg)
      /\ db'.lseq = (IF Mirrors THEN n ELSE db.lseq)
      /\ side' = [side EXCEPT ![s] = a]
      /\ legacy' = IF Mirrors THEN [legacy EXCEPT ![l] = b] ELSE legacy
  BY WriteEffect
<1>2. /\ a.ok /\ a.seq = n /\ a.legacy = db.lseq /\ a.hdr = h
      /\ b.ok /\ b.seq = n /\ b.hdr = h
  BY DEF ValidSlot
<1>3. /\ SlotsInv /\ Numbered(db, Valid, legacy) /\ db.side \in {0, 1} /\ db.leg \in {0, 1}
      /\ CopiesAgree(db) /\ OnTop(db.hdr, main, Valid)
      /\ main.there /\ main'.there /\ Survivor = main /\ Survivor' = main'
  BY <1>1 DEF KeepInv, NumbersInv, DurableInv, SwapInv, Settling, Survivor
<1>4. /\ h.total = db.hdr.total + 1 /\ SameShape(db.hdr, h) /\ h.max = db.hdr.max
  BY AdvancedEffect DEF ShapeInv, IsHandle, WrittenHeader
<1>5. /\ InRange(db.hdr) /\ InRange(main.hdr) /\ \A x \in Valid : InRange(x.hdr)
  BY DEF RangeInv, HeaderRange
<1>6. /\ s \in {0, 1} /\ l \in {0, 1}
      /\ DOMAIN side = {0, 1} /\ DOMAIN legacy = {0, 1}
  BY <1>3 DEF Other, ShapeInv, IsSlots
<1>7. GoesWith(db.hdr, main)
  BY <1>1 DEF RegionInv
<1>v. Valid' \subseteq Valid \cup {a, b}
  BY WriteValid DEF NewSlots
<1> HIDE DEF h, n, a, b, s, l
<1>8. \A k \in {0, 1} : /\ side'[k] = IF k = s THEN a ELSE side[k]
                        /\ legacy'[k] = IF Mirrors /\ k = l THEN b ELSE legacy[k]
  BY <1>1, <1>6
<1>9. /\ db.seq \in Nat /\ n = db.seq + 1 /\ db.lseq \in Nat /\ db.lseq <= db.seq
      /\ \A x \in Valid : x.seq <= db.seq /\ x.seq \in Nat
      /\ \A k \in {0, 1} : legacy[k].ok => legacy[k].seq <= db.lseq /\ legacy[k] \in Valid
      /\ \A k \in {0, 1} : side[k].ok => side[k] \in Valid
      /\ ~Found(legacy) => db.lseq = 0
  BY <1>3, ValidSlots DEF Numbered, SlotsInv, Ordered, n
<1>10. Same(a, main') /\ Same(b, main') /\ \A x : Same(x, main') <=> Same(x, main)
  BY <1>1, <1>2, <1>4, <1>7 DEF Same, SameShape, GoesWith
<1>11. a \in Valid'
  BY <1>2, <1>6, <1>8 DEF Valid
<1>12. Sane(h)
  <2>1. db.hdr.max \in Nat /\ db.hdr.total \in Nat
    BY <1>5, MaxSlotsAssumption DEF InRange
  <2> QED BY <1>1, <1>4, <2>1 DEF Sane, Unlimited
<1>13. \A x \in Valid : Same(x, main) => x.hdr.total < h.total
  <2> SUFFICES ASSUME NEW x \in Valid, Same(x, main) PROVE x.hdr.total < h.total
    OBVIOUS
  <2>1. x.hdr.total < db.hdr.total \/ x.hdr.total = db.hdr.total
    BY <1>3 DEF OnTop, Alike
  <2>2. x.hdr.total \in Nat /\ db.hdr.total \in Nat
    BY <1>5 DEF InRange
  <2> QED BY <1>4, <2>1, <2>2
<1>14. \A x \in Valid' : (x \in Valid /\ x.seq < n) \/ (x \in {a, b} /\ x.seq = n /\ x.hdr = h)
  BY <1>2, <1>9, <1>v
<1>15. Ordered(Valid', main')
  <2>1. Ordered(Valid, main)
    BY <1>3 DEF SlotsInv
  <2>2. \A x \in Valid' : x.seq \in Nat
    BY <1>9, <1>14
  <2>3. \A x, y \in Valid' : x.seq = y.seq => Alike(x.hdr, y.hdr)
    <3> SUFFICES ASSUME NEW x \in Valid', NEW y \in Valid', x.seq = y.seq PROVE Alike(x.hdr, y.hdr)
      OBVIOUS
    <3>1. CASE x.seq = n
      <4>1. ~(x.seq < n) /\ ~(y.seq < n)
        BY <2>2, <3>1
      <4>2. x.hdr = h /\ y.hdr = h
        BY <1>14, <4>1
      <4> QED BY <4>2, AlikeFacts
    <3>2. CASE x.seq # n
      BY <1>14, <2>1, <3>2 DEF Ordered
    <3> QED BY <3>1, <3>2
  <2>4. \A x, y \in Valid' : Same(x, main') /\ Same(y, main') /\ x.seq < y.seq =>
          x.hdr.total < y.hdr.total
    <3> SUFFICES ASSUME NEW x \in Valid', NEW y \in Valid',
                        Same(x, main'), Same(y, main'), x.seq < y.seq
                 PROVE  x.hdr.total < y.hdr.total
      OBVIOUS
    <3>1. x \in Valid
      BY <1>9, <1>14
    <3>2. CASE y \in Valid
      BY <1>10, <2>1, <3>1, <3>2 DEF Ordered
    <3>3. CASE y.hdr = h
      BY <1>10, <1>13, <3>1, <3>3
    <3> QED BY <1>14, <3>2, <3>3
  <2>5. \A x, y \in Valid' : Same(x, main') /\ ~Same(y, main') => y.seq < x.seq
    <3> SUFFICES ASSUME NEW x \in Valid', NEW y \in Valid', Same(x, main'), ~Same(y, main')
                 PROVE  y.seq < x.seq
      OBVIOUS
    <3>1. y \in Valid /\ y.seq < n
      BY <1>10, <1>14
    <3>2. CASE x \in Valid
      BY <1>10, <2>1, <3>1, <3>2 DEF Ordered
    <3>3. CASE x.seq = n
      BY <3>1, <3>3
    <3> QED BY <1>14, <3>2, <3>3
  <2>6. \A x \in Valid' : Same(x, main') => Sane(x.hdr)
    BY <1>10, <1>12, <1>14, <2>1 DEF Ordered
  <2> QED BY <2>2, <2>3, <2>4, <2>5, <2>6 DEF Ordered
<1>16. Mirrored(side', legacy')
  <2>1. Mirrored(side, legacy)
    BY <1>3 DEF SlotsInv
  <2>a. ~Found(legacy') => ~Found(legacy)
    BY <1>2, <1>6, <1>8 DEF Found
  <2> SUFFICES ASSUME NEW m \in {0, 1}, side'[m].ok
               PROVE  /\ side'[m].legacy \in Nat /\ side'[m].legacy < side'[m].seq
                      /\ ~Found(legacy') => side'[m].legacy = 0
                      /\ \A k \in {0, 1} : legacy'[k].ok =>
                           legacy'[k].seq <= side'[m].legacy \/ legacy'[k].seq >= side'[m].seq
    BY DEF Mirrored
  <2>2. CASE m = s
    <3>1. side'[m].legacy = db.lseq /\ side'[m].seq = n
      BY <1>2, <1>8, <2>2
    <3>2. ASSUME NEW k \in {0, 1}, legacy'[k].ok
          PROVE  legacy'[k].seq <= db.lseq \/ legacy'[k].seq >= n
      BY <1>2, <1>8, <1>9, <3>2
    <3> QED BY <1>9, <2>a, <3>1, <3>2
  <2>3. CASE m # s
    <3>1. side'[m] = side[m] /\ side[m].ok /\ side[m].seq <= db.seq /\ side[m].seq \in Nat
      BY <1>8, <1>9, <2>3
    <3>2. /\ side[m].legacy \in Nat /\ side[m].legacy < side[m].seq
          /\ ~Found(legacy) => side[m].legacy = 0
          /\ \A k \in {0, 1} : legacy[k].ok =>
               legacy[k].seq <= side[m].legacy \/ legacy[k].seq >= side[m].seq
      BY <2>1, <3>1 DEF Mirrored
    <3>3. ASSUME NEW k \in {0, 1}, legacy'[k].ok
          PROVE  legacy'[k].seq <= side[m].legacy \/ legacy'[k].seq >= side[m].seq
      <4>1. CASE legacy'[k] = b
        BY <1>2, <1>9, <3>1, <4>1
      <4>2. CASE legacy'[k] = legacy[k]
        BY <3>2, <3>3, <4>2
      <4> QED BY <1>8, <4>1, <4>2
    <3> QED BY <2>a, <3>1, <3>2, <3>3
  <2> QED BY <2>2, <2>3
<1>17. SlotsInv'
  <2>1. Ordered(Valid, Survivor)'
    BY <1>3, <1>15 DEF Ordered, Same, Alike, Sane
  <2>2. Mirrored(side, legacy)'
    BY <1>16 DEF Mirrored, Found
  <2> QED BY <2>1, <2>2 DEF SlotsInv
<1>18. NumbersInv'
  <2>1. db'.lseq \in Nat /\ db'.lseq <= n /\ n \in Nat
    BY <1>1, <1>9
  <2>2. \A x \in Valid' : x.seq <= n
    BY <1>9, <1>14
  <2>3. \A k \in {0, 1} : legacy'[k].ok => legacy'[k].seq <= db'.lseq
    <3> SUFFICES ASSUME NEW k \in {0, 1}, legacy'[k].ok PROVE legacy'[k].seq <= db'.lseq
      OBVIOUS
    <3>1. CASE Mirrors
      <4>1. legacy'[k].seq <= n
        <5>1. CASE k = l
          BY <1>2, <1>8, <1>9, <3>1, <5>1
        <5>2. CASE k # l
          <6>1. legacy'[k] = legacy[k]
            BY <1>8, <5>2
          <6>2. legacy[k] \in Valid
            BY <1>9, <6>1
          <6> QED BY <1>9, <6>1, <6>2
        <5> QED BY <5>1, <5>2
      <4> QED BY <1>1, <3>1, <4>1
    <3>2. CASE ~Mirrors
      BY <1>1, <1>9, <3>2
    <3> QED BY <3>1, <3>2
  <2>4. ~Found(legacy') => db'.lseq = 0
    BY <1>1, <1>2, <1>6, <1>8, <1>9 DEF Found
  <2>5. Numbered(db, Valid, legacy)'
    BY <1>1, <2>1, <2>2, <2>3, <2>4 DEF Numbered, Found
  <2>6. db'.side \in {0, 1} /\ db'.leg \in {0, 1}
    BY <1>1, <1>3, <1>6
  <2> QED BY <2>5, <2>6 DEF NumbersInv
<1>19. DurableInv'
  <2>1. \A x \in Valid' : Same(x, main') => x.hdr.total < h.total \/ Alike(x.hdr, h)
    BY <1>10, <1>13, <1>14, AlikeFacts
  <2>2. main'.hdr.total <= h.total
    BY <1>1, <1>3, <1>4, <1>5 DEF OnTop, InRange
  <2>3. Same(a, main') /\ Alike(a.hdr, h)
    BY <1>2, <1>10, AlikeFacts
  <2>4. OnTop(db'.hdr, main', Valid')
    BY <1>1, <1>11, <2>1, <2>2, <2>3 DEF OnTop
  <2>5. CopiesAgree(db')
    BY <1>1, <1>3, <1>4 DEF CopiesAgree, SameCopies, SameShape
  <2> QED BY <1>1, <2>4, <2>5, DurableSettled
<1>20. LateInv'
  <2>1. LateNow # NoLate => db.extra > 0 /\ LateNow.at = db.hdr.total - db.first
    BY DEF LateNow, Overflows, CellIdx
  <2>2. db.hdr.total \in Nat /\ db'.hdr.total - 1 = db.hdr.total
    BY <1>1, <1>4, <1>5 DEF InRange
  <2>3. db'.extra = db.extra /\ db'.first = db.first
    BY <1>1 DEF SameCopies
  <2> QED BY <1>1, <2>1, <2>2, <2>3 DEF LateInv
<1> QED BY <1>17, <1>18, <1>19, <1>20 DEF KeepInv

(* A step that leaves the slots and the handle's numbers alone. *)
LEMMA KeptOpen ==
  ASSUME KeepInv, UNCHANGED <<side, legacy>>, \A x : Same(x, Survivor') <=> Same(x, Survivor),
         pc \notin {"closed", "remove"}, SameNumbers(db, db'),
         pc' \in {"idle", "region", "copy", "unlink"}, CopiesAgree(db'),
         OnTop(db'.hdr, main', Valid'), LateInv'
  PROVE  KeepInv'
<1>1. SlotsInv'
  BY SlotsStay DEF KeepInv
<1>2. NumbersInv'
  BY NumbersStay DEF KeepInv
<1>3. DurableInv'
  BY DurableSettled
<1> QED BY <1>1, <1>2, <1>3 DEF KeepInv

LEMMA DurableStepRegion ==
  ASSUME "unsynced" \notin Env, "hdrfail" \notin Env,
         ShapeInv, SwapInv, RangeInv, RegionInv, KeepInv,
         CommitRegion \/ RemoveExtras
           \/ \E cols \in ExtraCols : AddExtraParams(cols) \/ RemapExtras(cols)
  PROVE  KeepInv'
<1>a. /\ pc \in {"idle", "region"} /\ UNCHANGED <<side, legacy>>
  BY DEF CommitRegion, RemoveExtras, AddExtraParams, RemapExtras, AlterCall
<1>b. main.there /\ main'.there
  BY <1>a, RegionShape DEF Ordinary, SwapInv, Settling
<1>c. /\ GoesWith(db.hdr, main) /\ InRange(db.hdr) /\ CopiesAgree(db)
      /\ OnTop(db.hdr, main, Valid) /\ Valid' = Valid
  BY <1>a, SlotsKept DEF RegionInv, RangeInv, HeaderRange, KeepInv, DurableInv
<1>d. ASSUME main'.hdr.cols = main.hdr.cols
      PROVE  \A x : (Same(x, Survivor') <=> Same(x, Survivor)) /\ (Same(x, main') <=> Same(x, main))
  BY <1>b, <1>d DEF Survivor, Same
<1>f. ASSUME CopiesAgree(db'), InRange(db'.hdr), db'.hdr.cols = main.hdr.cols, SameNumbers(db, db'),
             main'.hdr = db'.hdr, pc' = "idle", \A x \in Valid : ~Same(x, main), db'.late = NoLate
      PROVE  KeepInv'
  <2>1. OnTop(db'.hdr, main', Valid')
    BY <1>c, <1>d, <1>f, AlikeFacts, OnTopAlone
  <2>2. LateInv'
    BY <1>f, LateNothing
  <2> QED BY <1>a, <1>d, <1>f, <2>1, <2>2, KeptOpen
<1>1. CASE CommitRegion
  <2>1. PICK d :
         /\ d = WithExtras(db, Len(main.regions[Len(main.regions)].cols), Len(main.regions),
                           IF op = "add" THEN db.hdr.total ELSE db.first)
         /\ pc = "region" /\ pc' = "idle" /\ main'.hdr = d.hdr /\ db' = d /\ db'.late = db.late
    <3>1. op \in {"add", "remap"}
      BY <1>1, CommitEffect DEF RangeInv, CallRange
    <3> QED BY <1>1, <3>1, CommitEffect
  <2>2. \A x \in Valid : ~Same(x, main)
    BY <2>1 DEF RegionInv, Unmatched
  <2>a. PICK n, o, first : d = WithExtras(db, n, o, first)
    BY <2>1
  <2>3. /\ d.hdr.max = db.hdr.max /\ d.hdr.total = db.hdr.total /\ d.hdr.oldest = db.hdr.oldest
        /\ d.hdr.cols = db.hdr.cols /\ d.extra = d.hdr.extra /\ d.ovf = d.hdr.ovf
        /\ d.first = d.hdr.first /\ SameNumbers(db, d)
    BY <2>a, WithExtrasEffect, SMTT(30)
  <2>4. CopiesAgree(d) /\ InRange(d.hdr) /\ d.hdr.cols = main.hdr.cols
    BY <1>c, <2>3, SameInRange DEF CopiesAgree, GoesWith
  <2>5. db.late = NoLate
    BY <2>1 DEF KeepInv, LateInv
  <2> QED BY <1>f, <2>1, <2>2, <2>3, <2>4, <2>5
<1>2. CASE RemoveExtras
  <2>1. /\ pc' = pc /\ pc = "idle" /\ Harmless(Len(db.hdr.cols)) /\ db'.late = NoLate
        /\ db'.hdr.max = db.hdr.max /\ db'.hdr.total = db.hdr.total
        /\ db'.hdr.oldest = db.hdr.oldest /\ db'.hdr.cols = db.hdr.cols
        /\ db'.hdr.extra = 0 /\ db'.hdr.ovf = 0 /\ db'.hdr.first = 0
        /\ db'.extra = 0 /\ db'.ovf = 0 /\ db'.first = 0
        /\ SameNumbers(db, db') /\ main'.hdr = db'.hdr
    BY <1>2, RemoveExtrasEffect
  <2>2. \A x \in Valid : ~Same(x, main)
    BY <1>c, <2>1 DEF Harmless, Valid, Same, GoesWith
  <2>3. CopiesAgree(db') /\ InRange(db'.hdr) /\ db'.hdr.cols = main.hdr.cols
    BY <1>c, <2>1, SameInRange DEF CopiesAgree, GoesWith
  <2> QED BY <1>f, <2>1, <2>2, <2>3
<1>3. CASE \E cols \in ExtraCols : AddExtraParams(cols) \/ RemapExtras(cols)
  <2>1. pc = "idle" /\ \E r, name : AppendRegion(r, name)
    BY <1>3 DEF AddExtraParams, RemapExtras, AlterCall
  <2>2. /\ main'.hdr = main.hdr /\ db'.hdr = db.hdr /\ SameCopies(db, db') /\ SameNumbers(db, db')
        /\ \/ pc' = "region" /\ db'.late = NoLate
           \/ pc' = "idle" /\ db'.late = db.late
    BY <2>1, AppendRegionEffect, HandleSame
  <2>3. OnTop(db'.hdr, main', Valid')
    BY <1>c, <2>2, OnTopKept
  <2>4. LateInv'
    <3>1. CASE pc' = "region"
      BY <2>2, <3>1, LateNothing
    <3>2. CASE pc' = "idle" /\ db'.late = db.late
      BY <2>1, <2>2, <3>2, LateCarried DEF KeepInv, SameCopies
    <3> QED BY <2>2, <3>1, <3>2
  <2>5. CopiesAgree(db')
    BY <1>c, <2>2 DEF CopiesAgree, SameCopies
  <2> QED BY <1>a, <1>d, <2>1, <2>2, <2>3, <2>4, <2>5, KeptOpen
<1> QED BY <1>1, <1>2, <1>3

LEMMA DurableStepRewrite ==
  ASSUME SwapInv, KeepInv, NEW cols, NEW m, NEW room, Rewrite(cols, m, room)
  PROVE  KeepInv'
<1>1. pc = "idle" /\ UNCHANGED <<main, side, legacy, db>> /\ pc' \in {"idle", "copy"}
  BY RewriteEffect
<1>2. Survivor' = Survivor /\ Valid' = Valid
  BY <1>1, SlotsKept DEF SwapInv, Settling, Survivor
<1>3. CopiesAgree(db) /\ OnTop(db.hdr, main, Valid)
  BY <1>1 DEF KeepInv, DurableInv
<1>4. LateInv'
  BY <1>1, LateCarried DEF KeepInv
<1> QED BY <1>1, <1>2, <1>3, <1>4, HandleSame, KeptOpen

LEMMA DurableStepCopy ==
  ASSUME "flushfail" \notin Env, ShapeInv, SwapInv, RangeInv, RegionInv, KeepInv,
         CopyRecord \/ Finalize \/ UnlinkOriginal \/ SwapIn
  PROVE  KeepInv'
<1>a. UNCHANGED <<side, legacy>> /\ Valid' = Valid
  BY SlotsKept DEF CopyRecord, Finalize, UnlinkOriginal, SwapIn
<1>1. CASE CopyRecord \/ Finalize
  <2>1. /\ pc = "copy" /\ UNCHANGED <<main, db>> /\ pc' \in {"idle", "copy", "unlink"}
        /\ pc' = "unlink" => Alike(mig'.hdr, FinalHeader')
    <3>1. CASE CopyRecord
      BY <3>1, CopyEffect DEF Abort, Goto, Copied
    <3>2. CASE Finalize
      BY <3>2, FinalizeEffect, AlikeFacts DEF Abort, Goto
    <3> QED BY <1>1, <3>1, <3>2
  <2>2. Survivor' = Survivor
    BY <2>1 DEF SwapInv, Survivor
  <2>3. CopiesAgree(db) /\ OnTop(db.hdr, main, Valid)
    BY <2>1 DEF KeepInv, DurableInv
  <2>4. LateInv'
    BY <2>1, LateCarried DEF KeepInv
  <2> QED BY <1>a, <2>1, <2>2, <2>3, <2>4, HandleSame, KeptOpen
<1>2. CASE UnlinkOriginal
  <2>1. /\ pc = "unlink" /\ pc' = "swap" /\ main' = NoFile /\ UNCHANGED mig
        /\ db'.hdr = db.hdr /\ SameCopies(db, db') /\ SameNumbers(db, db') /\ db'.late = NoLate
        /\ FinalHeader' = FinalHeader
    BY <1>2, UnlinkEffect
  <2>2. Survivor' = mig /\ \A x \in Valid : ~Same(x, mig)
    BY <2>1, NoFileEffect DEF Survivor, RegionInv, Rewriting, Unmatched
  <2>3. Ordered(Valid', Survivor')
    BY <1>a, <2>2 DEF KeepInv, SlotsInv, Ordered
  <2>4. Ordered(Valid, Survivor)'
    BY <2>3 DEF Ordered, Same, Alike, Sane
  <2>5. Mirrored(side, legacy)'
    BY <1>a DEF KeepInv, SlotsInv, Mirrored, Found
  <2>6. NumbersInv'
    BY <1>a, <2>1, NumbersStay DEF KeepInv
  <2>7. DurableInv'
    BY <2>1 DEF KeepInv, DurableInv, CopiesAgree, SameCopies
  <2>8. LateInv'
    <3>1. Alike(mig'.hdr, FinalHeader')
      BY <2>1 DEF KeepInv, LateInv
    <3> QED BY <2>1, <3>1, LateNothing
  <2> QED BY <2>4, <2>5, <2>6, <2>7, <2>8 DEF KeepInv, SlotsInv
<1>3. CASE SwapIn
  <2>1. /\ pc = "swap"
        /\ \/ UNCHANGED <<main, mig>> /\ pc' = "closed" /\ db' = NoHandle
           \/ main' = mig /\ mig' = NoFile /\ pc' = "closed" /\ db' = NoHandle
           \/ /\ main' = mig /\ mig' = NoFile /\ pc' = "idle"
              /\ db'.hdr = FinalHeader /\ db'.extra = 0 /\ db'.ovf = 0 /\ db'.first = 0
              /\ SameNumbers(db, db') /\ db'.late = db.late
    BY <1>3, SwapEffect
  <2>2. /\ ~main.there /\ mig.there /\ Survivor' = Survivor
    BY <2>1 DEF SwapInv, Survivor
  <2>a. db.late = NoLate /\ Alike(mig.hdr, FinalHeader)
    BY <2>1 DEF KeepInv, LateInv
  <2>b. LateInv'
    BY <2>1, <2>a, LateNothing, NewHandleEffect DEF NoHandle
  <2>3. CASE pc' = "closed"
    BY <1>a, <2>2, <2>3, <2>b, SlotsStay, NumbersShut, DurableShut DEF KeepInv
  <2>4. CASE /\ main' = mig /\ mig' = NoFile /\ pc' = "idle"
             /\ db'.hdr = FinalHeader /\ db'.extra = 0 /\ db'.ovf = 0 /\ db'.first = 0
             /\ SameNumbers(db, db')
    <3>1. /\ mig.hdr.extra = 0 /\ mig.hdr.ovf = 0 /\ mig.hdr.first = 0 /\ InRange(FinalHeader)
          /\ \A x \in Valid : ~Same(x, mig)
      BY <2>1 DEF RegionInv, Rewriting, Unmatched, RangeInv, HeaderRange
    <3>2. CopiesAgree(db')
      BY <2>4, <2>a, <3>1 DEF CopiesAgree, Alike
    <3>3. OnTop(db'.hdr, main', Valid')
      BY <1>a, <2>4, <2>a, <3>1, OnTopAlone
    <3> QED BY <1>a, <2>1, <2>2, <2>4, <2>b, <3>2, <3>3, KeptOpen
  <2> QED BY <2>1, <2>3, <2>4
<1> QED BY <1>1, <1>2, <1>3

LEMMA DurableStep ==
  ASSUME "unsynced" \notin Env, "clearfail" \notin Env, "hdrfail" \notin Env,
         "flushfail" \notin Env,
         ShapeInv, SwapInv, RangeInv, RegionInv, KeepInv, [Next]_vars
  PROVE  KeepInv'
<1>1. CASE \/ \E m \in Capacities, room \in Rooms : ResizeByCopy(m, room)
           \/ \E cols \in Schemas, room \in Rooms : MigrateSchema(cols, room)
  BY <1>1, DurableStepRewrite DEF ResizeByCopy, MigrateSchema
<1>2. CASE UNCHANGED vars
  <2>1. UNCHANGED <<main, mig, side, legacy, db, pc, op, gone, job>> /\ Valid' = Valid /\ Survivor' = Survivor
    BY <1>2, SlotsKept DEF vars, disk, Survivor
  <2>2. SlotsInv'
    BY <2>1, SlotsStay DEF KeepInv
  <2>3. LateInv'
    BY <2>1 DEF KeepInv, LateInv, FinalHeader
  <2> QED BY <2>1, <2>2, <2>3 DEF KeepInv, NumbersInv, DurableInv
<1> QED BY <1>1, <1>2, DurableStepOpen, DurableStepFold, DurableStepWrite, DurableStepRegion,
           DurableStepCopy
        DEF Next, Open, Call, Step

LEMMA DurableInit == Init => KeepInv
<1> SUFFICES ASSUME Init PROVE KeepInv
  OBVIOUS
<1>1. /\ pc = "closed" /\ \A n \in {0, 1} : ~side[n].ok /\ ~legacy[n].ok
      /\ db.late = NoLate
  BY NewHandleEffect DEF Init, NoSlots, NoSlot, NoHandle
<1>2. Valid = {}
  BY <1>1 DEF Valid
<1> QED BY <1>1, <1>2 DEF KeepInv, SlotsInv, Ordered, Mirrored, NumbersInv, DurableInv, LateInv

(* Between two calls a power cut costs nothing but extra values of the     *)
(* newest record, which tsdb_write_h leaves unsynced, and brings nothing   *)
(* back: tsdb_open finds the schema, the records and the values that are   *)
(* open.  That is as long as the application keeps clear of two traps - a  *)
(* change of schema next to sidecars of the same geometry, and data blocks *)
(* that grow over an overflow region - and the header writes whose failure *)
(* the code passes over, or cannot see, do not fail: those of tsdb_clear_h,*)
(* of the overflow calls, and the flush of the finished copy.  Every other *)
(* failure, values of records that get into their region in part or not at *)
(* all among them, and a power cut inside any call are allowed before.     *)
THEOREM AlteredSurvives ==
  Env \cap {"unsynced", "growing", "clearfail", "hdrfail", "flushfail"} = {} =>
    (Spec => []AlteredIsDurable)
<1> SUFFICES ASSUME "unsynced" \notin Env, "growing" \notin Env, "clearfail" \notin Env,
                    "hdrfail" \notin Env, "flushfail" \notin Env
             PROVE  Spec => []AlteredIsDurable
  OBVIOUS
<1>1. Spec => [](RangeInv /\ RegionInv)
  BY RangeAlways
<1>2. Init => HonestInv /\ KeepInv
  BY HonestInit, DurableInit
<1>3. ShapeInv /\ SwapInv /\ RangeInv /\ RegionInv /\ HonestInv /\ KeepInv /\ [Next]_vars =>
        HonestInv' /\ KeepInv'
  BY HonestStep, DurableStep
<1>4. ShapeInv /\ SwapInv /\ RangeInv /\ RegionInv /\ HonestInv /\ KeepInv => AlteredIsDurable
  BY DurableInvImplies
<1> QED BY <1>1, <1>2, <1>3, <1>4, FilesAlways, PTL DEF Spec

=============================================================================
