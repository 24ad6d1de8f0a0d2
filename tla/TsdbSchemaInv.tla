---------------------------- MODULE TsdbSchemaInv ---------------------------
(***************************************************************************)
(* The inductive invariants behind the theorems about TsdbSchema: which    *)
(* files there are at each point of a change of schema and how far the     *)
(* copy has got; the range of every number; which headers go with which    *)
(* overflow regions; which values are under which columns; and what the    *)
(* sidecar slots tell an open.                                             *)
(***************************************************************************)
EXTENDS TsdbSchemaProps

-----------------------------------------------------------------------------
(* Shapes: which fields there are. *)

IsHeader(h) == DOMAIN h = DOMAIN NewHeader(0, << >>)

IsFile(f) ==
  /\ DOMAIN f = DOMAIN NoFile
  /\ f.there \in BOOLEAN
  /\ IsHeader(f.hdr)

IsHandle(d) == DOMAIN d = DOMAIN NoHandle /\ IsHeader(d.hdr)

IsSlots(slots) ==
  /\ DOMAIN slots = {0, 1}
  /\ \A n \in {0, 1} : slots[n].ok => IsHeader(slots[n].hdr)

ShapeInv ==
  /\ IsFile(main)
  /\ IsFile(mig)
  /\ IsHandle(db)
  /\ IsSlots(side)
  /\ IsSlots(legacy)
  /\ DOMAIN job = DOMAIN NoJob

-----------------------------------------------------------------------------
(* Files *)

Settling == {"idle", "fold", "remove", "region"}

(* The original is there until the copy is finished. *)
SwapInv ==
  /\ pc \in Settling => main.there
  /\ pc \in {"copy", "unlink"} => main.there /\ mig.there
  /\ pc = "swap" => ~main.there /\ mig.there
  /\ pc \in Settling \cup {"closed", "copy", "unlink", "swap"}

(* With a rename that works, no call starts next to a leftover .mig. *)
SweptInv == pc \in Settling => ~mig.there

-----------------------------------------------------------------------------
(* The copy *)

(* The records of the copy are its first written ones; the last of them    *)
(* are still in the block buffer, which the last record empties.           *)
CopyInv ==
  /\ pc = "copy" =>
       /\ mig.hdr.cols = job.cols /\ mig.hdr.total = 0
       /\ job.written \in Nat
       /\ job.buf \in Seq({job.buf[i] : i \in DOMAIN job.buf})
       /\ Len(job.buf) <= job.written
       /\ job.k = job.avail => job.buf = << >>
       /\ \A i \in DOMAIN job.buf : DOMAIN job.buf[i].vals = DOMAIN job.cols
       /\ \A s \in Slots : s < job.written - Len(job.buf) =>
            DOMAIN mig.data[s].vals = DOMAIN job.cols
  /\ pc \in {"unlink", "swap"} => Whole(mig)
  /\ CopyIsWhole

-----------------------------------------------------------------------------
(* Numbers *)

(* The numbers of a header: its ring or its unlimited log fits the data    *)
(* area, and its oldest record is inside.                                  *)
InRange(h) ==
  /\ h.max \in 0 .. MaxSlots
  /\ h.total \in Nat /\ h.oldest \in Nat
  /\ h.max = 0 => h.total <= MaxSlots /\ h.oldest = 0
  /\ h.max > 0 => h.oldest < h.max

(* The valid slots of both kinds. *)
Valid == {x \in {side[0], side[1], legacy[0], legacy[1]} : x.ok}

IsSeq(s) == s \in Seq(Elements(s))

(* Every header.  A resize in place can be taken back. *)
HeaderRange ==
  /\ InRange(main.hdr) /\ InRange(mig.hdr) /\ InRange(db.hdr)
  /\ \A x \in Valid : InRange(x.hdr)
  /\ pc \in {"unlink", "swap"} => InRange(FinalHeader)
  /\ pc = "fold" /\ op = "resize" =>
       /\ job.max \in 0 .. MaxSlots
       /\ db.hdr.oldest = 0
       /\ job.max = 0 => db.hdr.total <= MaxSlots

(* How far the copy has got. *)
JobRange ==
  /\ job.k \in Nat /\ job.avail \in Nat /\ job.written \in Nat
  /\ job.written <= job.k /\ job.k <= job.avail /\ job.avail <= MaxSlots
  /\ IsSeq(job.buf) /\ Len(job.buf) <= job.written

(* Which call is under way. *)
CallRange ==
  /\ gone \in 0 .. 4 /\ clock \in 0 .. MaxTs /\ alters \in 0 .. MaxAlters
  /\ op \in {"none", "sync", "close", "clear", "resize", "add", "remap"}
  /\ pc \notin {"fold", "remove", "region"} => op = "none"
  /\ pc \in {"fold", "remove"} => op \in {"sync", "close", "clear", "resize"}
  /\ pc = "region" => op \in {"add", "remap"}
  /\ pc # "remove" => gone = 0

RangeInv == HeaderRange /\ JobRange /\ CallRange

-----------------------------------------------------------------------------
(* Sidecars and overflow regions *)

(* Slot x has as many columns as file f: tsdb_open takes it for one of f's. *)
Same(x, f) == Len(x.hdr.cols) = Len(f.hdr.cols)

(* A count of extra columns and the region they are in, of file f. *)
ExtrasIn(extra, ovf, f) ==
  /\ extra \in Nat
  /\ ovf \in 0 .. Len(f.regions)
  /\ extra > 0 => ovf > 0 /\ extra <= Len(f.regions[ovf].cols)

(* A header that goes with file f. *)
GoesWith(h, f) == h.cols = f.hdr.cols /\ ExtrasIn(h.extra, h.ovf, f)

IsRegion(r) == DOMAIN r = DOMAIN Region(<< >>, << >>) /\ IsSeq(r.cols)

(* A file with its columns and regions, whose header goes with it. *)
WellFormed(f) ==
  /\ IsSeq(f.hdr.cols)
  /\ IsSeq(f.regions)
  /\ \A i \in 1 .. Len(f.regions) : IsRegion(f.regions[i])
  /\ GoesWith(f.hdr, f)

(* No slot is left that tsdb_open could take for one of file f's. *)
Unmatched(f) == \A x \in Valid : ~Same(x, f)

Rewriting == {"copy", "unlink", "swap"}

(* A slot that looks like one of the file's is one, and so is the header   *)
(* of the handle.  The copy has no slots, and no overflow region.          *)
RegionInv ==
  /\ WellFormed(main) /\ WellFormed(mig)
  /\ pc = "closed" => db = NoHandle
  /\ \A x \in Valid : Same(x, Survivor) => GoesWith(x.hdr, Survivor)
  /\ pc \notin {"closed", "swap"} =>
       GoesWith(db.hdr, main) /\ ExtrasIn(db.extra, db.ovf, main)
  /\ pc \in Rewriting =>
       /\ Unmatched(mig)
       /\ mig.hdr.extra = 0 /\ mig.hdr.ovf = 0 /\ mig.hdr.first = 0
  /\ pc = "copy" => mig.hdr.cols = job.cols
  /\ pc = "region" => Unmatched(main) /\ Len(main.regions) > 0
  /\ pc = "fold" /\ op = "clear" => Unmatched(main)

-----------------------------------------------------------------------------
(* Values *)

Values == Names \cup {Zero}

(* Each value is that of its column, or 0. *)
Honest(vals, cols) ==
  /\ vals \in Seq(Values)
  /\ Len(vals) = Len(cols)
  /\ \A i \in 1 .. Len(cols) : vals[i] \in {cols[i], Zero}

HonestRow(row, cols) == row # NoRow => Honest(row.vals, cols)

HonestRegion(r) ==
  /\ r.intact
  /\ r.cols \in Seq(Names)
  /\ r.cells \in [0 .. MaxTs -> Seq(Values)]
  /\ \A i \in 0 .. MaxTs : Honest(r.cells[i], r.cols)

HonestFile(f) ==
  /\ f.hdr.cols \in Seq(Names)
  /\ DOMAIN f.data = Slots
  /\ \A s \in Slots : HonestRow(f.data[s], f.hdr.cols)
  /\ \A r \in 1 .. Len(f.regions) : HonestRegion(f.regions[r])

(* A header that counts no more than n records. *)
Counts(h, n) == h.first \in Nat /\ h.total <= n

(* What a power cut would leave in the place of late values fits there. *)
LateHonest ==
  db.late # NoLate =>
    /\ pc \notin {"closed", "swap", "region"}
    /\ db.extra > 0
    /\ db.late.at \in 0 .. MaxTs
    /\ Honest(db.late.was, main.regions[db.ovf].cols)

HonestInv ==
  /\ HonestFile(main) /\ HonestFile(mig)
  /\ LateHonest
  /\ Counts(main.hdr, clock) /\ Counts(mig.hdr, clock)
  /\ \A x \in Valid : Same(x, Survivor) => Counts(x.hdr, clock)
  /\ pc \notin {"closed", "swap"} =>
       /\ Counts(db.hdr, clock) /\ db.first \in Nat
       /\ db.extra > 0 => db.hdr.extra > 0
  /\ pc \in {"unlink", "swap"} => Counts(FinalHeader, clock)
  /\ pc = "region" /\ op = "add" => db.extra = 0
  /\ pc = "copy" =>
       /\ job.avail = Available(db.hdr)
       /\ \A i \in 1 .. Len(job.buf) : HonestRow(job.buf[i], job.cols)

-----------------------------------------------------------------------------
(* Durability *)

(* Headers that describe the same records of the same file. *)
Alike(g, h) ==
  /\ g.max = h.max /\ g.total = h.total /\ g.oldest = h.oldest
  /\ g.cols = h.cols /\ g.extra = h.extra /\ g.ovf = h.ovf /\ g.first = h.first

(* The slots V tell one story: a younger slot of file f describes more     *)
(* records and passes tsdb_header_is_sane, and slots that an older shape   *)
(* of the database left behind are older than all of these.                *)
Ordered(V, f) ==
  /\ \A x \in V : x.seq \in Nat
  /\ \A x, y \in V : x.seq = y.seq => Alike(x.hdr, y.hdr)
  /\ \A x, y \in V : Same(x, f) /\ Same(y, f) /\ x.seq < y.seq => x.hdr.total < y.hdr.total
  /\ \A x, y \in V : Same(x, f) /\ ~Same(y, f) => y.seq < x.seq
  /\ \A x \in V : Same(x, f) => Sane(x.hdr)

(* No TSH1 slot lies between a TSH2 slot and the mirror it knew about, and *)
(* without TSH1 slots there never was one.                                 *)
Mirrored(s, l) ==
  \A m \in {0, 1} : s[m].ok =>
    /\ s[m].legacy \in Nat /\ s[m].legacy < s[m].seq
    /\ ~Found(l) => s[m].legacy = 0
    /\ \A n \in {0, 1} : l[n].ok => l[n].seq <= s[m].legacy \/ l[n].seq >= s[m].seq

SlotsInv == Ordered(Valid, Survivor) /\ Mirrored(side, legacy)

(* Header h is the one an open of file f with slots V ends up with. *)
OnTop(h, f, V) ==
  /\ f.hdr.total <= h.total
  /\ \A x \in V : Same(x, f) => x.hdr.total < h.total \/ Alike(x.hdr, h)
  /\ Alike(f.hdr, h) \/ \E x \in V : Same(x, f) /\ Alike(x.hdr, h)

(* Handle d continues from the newest slots. *)
Numbered(d, V, l) ==
  /\ d.seq \in Nat /\ d.lseq \in Nat /\ d.lseq <= d.seq
  /\ \A x \in V : x.seq <= d.seq
  /\ \A n \in {0, 1} : l[n].ok => l[n].seq <= d.lseq
  /\ ~Found(l) => d.lseq = 0

NumbersInv ==
  /\ pc \notin {"closed", "remove"} => Numbered(db, Valid, legacy)
  /\ pc # "closed" => db.side \in {0, 1} /\ db.leg \in {0, 1}

(* The handle's copies of the header's fields agree with it. *)
CopiesAgree(d) == d.extra = d.hdr.extra /\ d.ovf = d.hdr.ovf /\ d.first = d.hdr.first

(* What is open is what a power cut would leave.  A fold that removes the  *)
(* slots has the header in the file; one that takes a resize back has the  *)
(* header with the capacity it had.                                        *)
DurableInv ==
  /\ pc # "closed" => CopiesAgree(db)
  /\ pc \in {"idle", "region", "copy", "unlink"} => OnTop(db.hdr, main, Valid)
  /\ pc = "fold" =>
       \/ op = "clear"
       \/ op = "resize" /\ OnTop([db.hdr EXCEPT !.max = job.max], main, Valid)
       \/ op \in {"sync", "close"} /\ OnTop(db.hdr, main, Valid)
  /\ pc = "remove" =>
       /\ Alike(main.hdr, db.hdr)
       /\ gone > 0 => ~side[0].ok
       /\ gone > 1 => ~side[1].ok
       /\ gone > 2 => ~legacy[0].ok
       /\ gone > 3 => ~legacy[1].ok
       /\ db.seq \in Nat

(* Only the youngest record has late values, and the finished copy its     *)
(* header.                                                                 *)
LateInv ==
  /\ pc \in {"unlink", "swap"} => Alike(mig.hdr, FinalHeader)
  /\ db.late # NoLate =>
       /\ db.extra > 0
       /\ \/ pc \in {"idle", "copy", "unlink"} /\ db.late.at = db.hdr.total - 1 - db.first
          \/ pc = "fold" /\ op \in {"sync", "close", "clear"}

KeepInv == SlotsInv /\ NumbersInv /\ DurableInv /\ LateInv

=============================================================================
