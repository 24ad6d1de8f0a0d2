----------------------------- MODULE TsdbSchema -----------------------------
(***************************************************************************)
(* Changing the shape of a database that is in use: extra columns in the   *)
(* overflow region, the migration of that region, the streaming rewrite    *)
(* behind tsdb_migrate_schema_h and tsdb_resize_h with its <db>.mig file,  *)
(* and what tsdb_open makes of the files a power cut leaves behind.        *)
(*                                                                         *)
(* TsdbStore cuts the power inside a write; here a write is one step, with *)
(* its extra values, which the code leaves unsynced, and the power is cut  *)
(* between calls and inside a change of schema.  A record is its timestamp *)
(* and one value per column; the value of column c is c itself, or Zero.   *)
(* The geometry of a file is its number of base columns.                   *)
(***************************************************************************)
EXTENDS TsdbSidecar, Sequences

CONSTANTS
  ConfigMax,   \* tsdb_config_t.max_records
  ConfigCols,  \* tsdb_config_t.param_names, a sequence
  Schemas,     \* column sequences tsdb_migrate_schema_h is called with
  ExtraCols,   \* column sequences of tsdb_add_extra_params_h and
               \* tsdb_migrate_overflow_h
  Capacities,  \* capacities tsdb_resize_h is called with
  Rooms,       \* data blocks that fit opts->free_space_bytes
  BlockSpace,  \* TSDB_BLOCK_SIZE less the block header, in bytes
  Zero,        \* the value 0
  Env,         \* what the environment and the application may do
  MaxTs,       \* bound: records the application ever writes
  MaxAlters    \* bound: changes of schema or capacity it calls for

(* crash: power cut at any point.  extrafail: the extra values of a record *)
(* are written in part.  setupfail, copyfail, finalfail: the .mig file     *)
(* cannot be created, written or finished; flushfail: nor flushed, which   *)
(* goes unnoticed.  remapfail: nor do the values of a new overflow region  *)
(* all get into it, unnoticed too.  renamefail,                            *)
(* reopenfail: the swap fails half way.  adoptfail: the rename of          *)
(* tsdb_migrate_recover fails.  unreadable: a source block cannot be read. *)
(* foldfail, clearfail, hdrfail, regionfail: the header of a fold or of a  *)
(* clear, the one that names an overflow region, or an overflow header     *)
(* cannot be written.  unsynced: the application changes the schema while  *)
(* sidecars of the same geometry exist.  growing: it lets the data area    *)
(* grow while there is an overflow region behind it.                       *)
AllEnv == {"crash", "extrafail", "setupfail", "copyfail", "finalfail", "flushfail",
           "remapfail", "renamefail", "reopenfail", "adoptfail", "unreadable",
           "foldfail", "clearfail", "hdrfail", "regionfail", "unsynced", "growing"}

ASSUME SchemaAssumption ==
  /\ ConfigMax \in 0 .. MaxSlots
  /\ Capacities \subseteq 0 .. MaxSlots
  /\ Rooms \subseteq Nat
  /\ BlockSpace \in Nat
  /\ \A s \in {ConfigCols} \cup Schemas \cup ExtraCols : s \in Seq(Elements(s))
  /\ Env \subseteq AllEnv
  /\ MaxTs \in Nat
  /\ MaxAlters \in Nat

VARIABLES
  main,    \* the database file
  mig,     \* <db>.mig
  side,    \* TSH2 slots
  legacy,  \* TSH1 slots
  db,      \* the handle
  pc,      \* what the engine is about to do
  op,      \* the operation that is folding the header
  gone,    \* slots tsdb_sidecar_remove has unlinked so far
  job,     \* the rewrite in progress
  clock,   \* last timestamp the application used
  alters   \* changes of schema or capacity so far

disk == <<main, mig, side, legacy>>
vars == <<disk, db, pc, op, gone, job, clock, alters>>

-----------------------------------------------------------------------------
(* State *)

Zeros(n) == [i \in 1 .. n |-> Zero]

(* A header with columns: cols are num_params and param_names, extra, ovf  *)
(* and first are extra_param_count, overflow_offset (which region, 0 =     *)
(* none) and first_overflow_record_idx.                                    *)
NewHeader(m, cols) ==
  [max |-> m, total |-> 0, oldest |-> 0, evictions |-> 0, oldestTs |-> 0,
   newestTs |-> 0, cols |-> cols, extra |-> 0, ovf |-> 0, first |-> 0]

Rpb(width) == BlockSpace \div (4 + 2 * width)

NoRow == [ts |-> 0, vals |-> << >>]

(* A file: its header, the records in its slots and its overflow regions,  *)
(* oldest first; all but the one the header names are dead space.          *)
NewFile(h) == [there |-> TRUE, hdr |-> h, data |-> [s \in Slots |-> NoRow], regions |-> << >>]
NoFile == [NewFile(NewHeader(0, << >>)) EXCEPT !.there = FALSE]

(* An overflow region with room for every record of the model.  intact is  *)
(* whether its header still holds the names.                               *)
Region(cols, cells) == [cols |-> cols, intact |-> TRUE, cells |-> cells]
BlankCells(n) == [i \in 0 .. MaxTs |-> Zeros(n)]

(* The name read from an overflow header that a data block lies over. *)
Garbage == "garbage"

(* Of the extra values that were written since db->file was last synced:   *)
(* the cell they are in, and what a power cut would leave there.           *)
NoLate == [at |-> 0, was |-> << >>]

(* The handle; extra, ovf and first are its copies of the header's.  lag   *)
(* is in_file_header_stale or index_stale, late what is not synced yet.    *)
NewHandle(h) ==
  [hdr |-> h, extra |-> h.extra, ovf |-> h.ovf, first |-> h.first,
   seq |-> 0, side |-> 0, leg |-> 0, lseq |-> 0, mirrored |-> FALSE, lag |-> FALSE,
   late |-> NoLate]

NoHandle == NewHandle(NewHeader(0, << >>))

NoJob == [cols |-> << >>, max |-> 0, k |-> 0, avail |-> 0, written |-> 0,
          buf |-> << >>, oldestTs |-> 0, newestTs |-> 0]

Outcomes(fault) == IF fault \in Env THEN BOOLEAN ELSE {TRUE}

Goto(label) == pc' = label

-----------------------------------------------------------------------------
(* Reading a record *)

(* The columns of file f under handle d, extras last. *)
ExtraNames(region) ==
  [i \in DOMAIN region.cols |-> IF region.intact THEN region.cols[i] ELSE Garbage]
Columns(f, d) ==
  d.hdr.cols \o (IF d.extra = 0 THEN << >> ELSE SubSeq(ExtraNames(f.regions[d.ovf]), 1, d.extra))

(* The extra values of absolute record n; 0 before the region existed. *)
Extras(f, d, n) ==
  IF d.extra = 0 THEN << >>
  ELSE IF n < d.first THEN Zeros(d.extra)
  ELSE SubSeq(f.regions[d.ovf].cells[n - d.first], 1, d.extra)

(* The k-th oldest record, k counted from 0, with its base values.  A slot *)
(* that was never written reads as zeros.                                  *)
Base(f, d, k) ==
  LET row == f.data[PhysicalIdx(d.hdr, k)] IN
  [ts |-> row.ts, vals |-> IF row = NoRow THEN Zeros(Len(d.hdr.cols)) ELSE row.vals]

(* The same with all its values. *)
Read(f, d, k) ==
  LET row == Base(f, d, k)
      n   == (d.hdr.total - Available(d.hdr)) + k
  IN  [ts |-> row.ts, vals |-> row.vals \o Extras(f, d, n)]

-----------------------------------------------------------------------------
(* tsdb_open *)

(* The sidecar header as tsdb_sidecar_load hands it out: a TSH2 slot has   *)
(* no names and takes those of the file.                                   *)
SidecarHeader(base) ==
  LET h == LoadedHeader(side, legacy) IN
  IF UseCompact(side, legacy) THEN [h EXCEPT !.cols = base.cols] ELSE h

(* It is adopted only over a file of its own geometry. *)
AdoptsSidecar(base) ==
  /\ Adopts(base, side, legacy)
  /\ Len(LoadedHeader(side, legacy).cols) = Len(base.cols)

(* The handle an open of file f ends up with. *)
OpenedHandle(f) ==
  LET adopt == AdoptsSidecar(f.hdr) IN
  [NewHandle(IF adopt THEN SidecarHeader(f.hdr) ELSE f.hdr)
     EXCEPT !.seq  = LoadedSeq(side, legacy),
            !.lseq = NewestSeq(legacy),
            !.leg  = Newest(legacy),
            !.side = Newest(side),
            !.lag  = adopt]

(* The file is created, the sidecars at its path removed. *)
CreateDatabase ==
  /\ main' = NewFile(NewHeader(ConfigMax, ConfigCols))
  /\ side' = NoSlots
  /\ legacy' = NoSlots
  /\ db' = NewHandle(main'.hdr)
  /\ Goto("idle")

(* Faults: a leftover .mig stays; it is removed even if it is all there is.*)
RecoverKeeping ==
  /\ pc = "closed"
  /\ mig.there
  /\ IF main.there
       THEN db' = OpenedHandle(main) /\ Goto("idle") /\ UNCHANGED <<main, mig>>
       ELSE main' = mig /\ mig' = NoFile /\ UNCHANGED <<db, pc>>
  /\ UNCHANGED <<side, legacy, op, gone, job, clock, alters>>
RecoverRemoving ==
  /\ pc = "closed"
  /\ mig.there
  /\ mig' = NoFile
  /\ UNCHANGED <<main, side, legacy, db, pc, op, gone, job, clock, alters>>

(* tsdb_migrate_recover, which tsdb_open calls first: next to a database a *)
(* .mig is a leftover; without one it is the database.  When the rename    *)
(* fails the open goes on to create an empty database.                     *)
Recover ==
  /\ pc = "closed"
  /\ mig.there
  /\ IF main.there
       THEN mig' = NoFile /\ UNCHANGED <<main, side, legacy, db, pc>>
       ELSE \E ok \in Outcomes("adoptfail") :
              IF ok THEN main' = mig /\ mig' = NoFile /\ UNCHANGED <<side, legacy, db, pc>>
                    ELSE CreateDatabase /\ UNCHANGED mig
  /\ UNCHANGED <<op, gone, job, clock, alters>>

CreateFile ==
  /\ pc = "closed"
  /\ ~mig.there /\ ~main.there
  /\ CreateDatabase
  /\ UNCHANGED <<mig, op, gone, job, clock, alters>>

(* The application asks for as many columns as the file has; with another  *)
(* number tsdb_open refuses and changes nothing.                           *)
OpenExisting ==
  /\ pc = "closed"
  /\ ~mig.there /\ main.there
  /\ db' = OpenedHandle(main)
  /\ Goto("idle")
  /\ UNCHANGED <<disk, op, gone, job, clock, alters>>

-----------------------------------------------------------------------------
(* tsdb_write_h, in one step: TsdbStore takes its block and sidecars apart *)

(* The record starts a block the file does not have yet. *)
Grows ==
  LET r == Rpb(Len(db.hdr.cols)) IN
  \A s \in Slots : main.data[s] # NoRow => s \div r # RecordIdx(db.hdr) \div r

(* The first block behind the data area lies over the header of a region   *)
(* that was appended there, and both are TSDB_BLOCK_SIZE long.  What later *)
(* blocks would destroy is left out.                                       *)
GrowthModelled == "growing" \in Env /\ db.ovf = 1 /\ main.regions[1].intact

(* Its extra values go to the overflow region. *)
Overflows == db.extra > 0 /\ db.hdr.total >= db.first
CellIdx == db.hdr.total - db.first

(* A cell once the first n of the values are written. *)
Stored(cell, cols, n) == [i \in DOMAIN cell |-> IF i <= n THEN cols[i] ELSE cell[i]]

(* The cells of the region once n extra values of the record are. *)
CellsWith(region, n) ==
  IF Overflows THEN [region.cells EXCEPT ![CellIdx] = Stored(@, region.cols, n)] ELSE region.cells

(* The regions once the record's block, then n of its extra values are     *)
(* written; a short fwrite is only logged.                                 *)
RegionsWith(regions, n) ==
  IF db.extra = 0 THEN regions
  ELSE [regions EXCEPT ![db.ovf].intact = @ /\ ~Grows,
                       ![db.ovf].cells = CellsWith(regions[db.ovf], n)]

(* The block is synced, and with it what was late before; the extra values *)
(* are not.                                                                *)
LateNow == IF Overflows THEN [at |-> CellIdx, was |-> main.regions[db.ovf].cells[CellIdx]] ELSE NoLate

(* tsdb_sidecar_write. *)
SidecarsWith(h, late) ==
  LET seq    == db.seq + 1
      slot   == Other(db.side)
      mirror == MirrorDue(TRUE, db.mirrored, seq, db.lseq)
  IN  /\ side' = [side EXCEPT ![slot] = ValidSlot(seq, db.lseq, h)]
      /\ legacy' = IF mirror THEN [legacy EXCEPT ![Other(db.leg)] = ValidSlot(seq, 0, h)]
                             ELSE legacy
      /\ db' = [db EXCEPT !.hdr = h, !.seq = seq, !.side = slot, !.lag = TRUE, !.late = late,
                          !.leg = IF mirror THEN Other(@) ELSE @,
                          !.lseq = IF mirror THEN seq ELSE @,
                          !.mirrored = @ \/ mirror]

Write ==
  /\ pc = "idle"
  /\ clock < MaxTs
  /\ db.hdr.total < (IF Unlimited(db.hdr) THEN MaxSlots ELSE 2 * db.hdr.max)
  /\ Grows /\ db.hdr.extra > 0 => GrowthModelled
  /\ LET ts   == clock + 1
         data == [main.data EXCEPT ![RecordIdx(db.hdr)] = [ts |-> ts, vals |-> db.hdr.cols]]
     IN  /\ clock' = ts
         /\ \E n \in IF "extrafail" \in Env THEN 0 .. db.extra ELSE {db.extra} :
              main' = [main EXCEPT !.data = data, !.regions = RegionsWith(@, n)]
         /\ SidecarsWith(Advanced(db.hdr, ts, [s \in Slots |-> data[s].ts]), LateNow)
  /\ UNCHANGED <<mig, pc, op, gone, job, alters>>

-----------------------------------------------------------------------------
(* tsdb_fold_header, for sync, close, clear and the header-only resize *)

StartFold(name) == op' = name /\ Goto("fold")

Sync ==
  /\ pc = "idle"
  /\ db.lag
  /\ StartFold("sync")
  /\ UNCHANGED <<disk, db, gone, job, clock, alters>>

Close ==
  /\ pc = "idle"
  /\ StartFold("close")
  /\ UNCHANGED <<disk, db, gone, job, clock, alters>>

FoldReturns(d) ==
  /\ op' = "none"
  /\ job' = NoJob
  /\ IF op = "close" THEN db' = NoHandle /\ Goto("closed")
                     ELSE db' = d /\ Goto("idle")

(* Fault: the sidecars stay. *)
FoldHeaderOnly ==
  /\ pc = "fold"
  /\ main' = [main EXCEPT !.hdr = db.hdr]
  /\ FoldReturns([db EXCEPT !.lag = FALSE])
  /\ UNCHANGED <<mig, side, legacy, gone, clock, alters>>

(* When the header cannot be written a resize takes the capacity back, and *)
(* a sync still closes its file and opens it again.                        *)
FoldHeader ==
  /\ pc = "fold"
  /\ \E ok \in Outcomes(IF op = "clear" THEN "clearfail" ELSE "foldfail") :
       IF ok THEN /\ main' = [main EXCEPT !.hdr = db.hdr]
                  /\ db' = [db EXCEPT !.lag = FALSE, !.late = NoLate]
                  /\ Goto("remove")
                  /\ UNCHANGED <<op, job>>
             ELSE /\ FoldReturns(CASE op = "resize" -> [db EXCEPT !.hdr.max = job.max]
                                   [] op = "sync"   -> [db EXCEPT !.late = NoLate]
                                   [] OTHER         -> db)
                  /\ UNCHANGED main
  /\ UNCHANGED <<mig, side, legacy, gone, clock, alters>>

(* tsdb_sidecar_remove: TSH2 slots first. *)
RemoveSlot ==
  /\ pc = "remove"
  /\ gone < 4
  /\ IF gone < 2
       THEN side' = [side EXCEPT ![gone] = NoSlot] /\ UNCHANGED legacy
       ELSE legacy' = [legacy EXCEPT ![gone - 2] = NoSlot] /\ UNCHANGED side
  /\ gone' = gone + 1
  /\ UNCHANGED <<main, mig, db, pc, op, job, clock, alters>>

RemoveReturns ==
  /\ pc = "remove"
  /\ gone = 4
  /\ gone' = 0
  /\ FoldReturns([db EXCEPT !.mirrored = FALSE, !.lseq = 0])
  /\ UNCHANGED <<disk, clock, alters>>

-----------------------------------------------------------------------------
(* Calls that change the schema or the capacity *)

(* No sidecar of that many columns is left to override a changed header:   *)
(* the application has synced since its last write, or the width differs.  *)
Harmless(width) ==
  \/ "unsynced" \in Env
  \/ \A n \in {0, 1} : /\ side[n].ok => Len(side[n].hdr.cols) # width
                       /\ legacy[n].ok => Len(legacy[n].hdr.cols) # width

AlterCall(width) ==
  /\ pc = "idle"
  /\ alters < MaxAlters
  /\ Harmless(width)
  /\ alters' = alters + 1

(* tsdb_clear_h: no records; an overflow region starts over. *)
Clear ==
  /\ AlterCall(Len(db.hdr.cols))
  /\ db' = [db EXCEPT !.hdr = [NewHeader(@.max, @.cols) EXCEPT !.extra = db.hdr.extra,
                                                               !.ovf = db.hdr.ovf],
                      !.first = 0]
  /\ StartFold("clear")
  /\ UNCHANGED <<disk, gone, job, clock>>

(* The layout never wrapped and the capacity covers every record. *)
FastResize(m) ==
  /\ db.hdr.oldest = 0
  /\ Unlimited(db.hdr) \/ db.hdr.total <= db.hdr.max
  /\ m = 0 \/ m >= db.hdr.total
  /\ db.extra = 0

(* tsdb_resize_h: only the header changes, and the sidecars are folded. *)
ResizeInPlace(m) ==
  /\ pc = "idle"
  /\ alters < MaxAlters
  /\ alters' = alters + 1
  /\ m # db.hdr.max
  /\ FastResize(m)
  /\ db' = [db EXCEPT !.hdr.max = m]
  /\ job' = [NoJob EXCEPT !.max = db.hdr.max]
  /\ StartFold("resize")
  /\ UNCHANGED <<disk, gone, clock>>

(* A region goes to the end of the file, or its header cannot be written. *)
AppendRegion(region, name) ==
  \E ok \in Outcomes("regionfail") :
    IF ok THEN /\ main' = [main EXCEPT !.regions = Append(@, region)]
               /\ db' = [db EXCEPT !.late = NoLate]
               /\ op' = name
               /\ Goto("region")
          ELSE UNCHANGED <<main, db, op, pc>>

(* tsdb_add_extra_params_h, up to the overflow header at the end of the    *)
(* file.  The application gives every column its own name.                 *)
AddExtraParams(cols) ==
  /\ AlterCall(Len(db.hdr.cols))
  /\ db.extra = 0
  /\ cols # << >>
  /\ Elements(cols) \cap Elements(db.hdr.cols) = {}
  /\ AppendRegion(Region(cols, BlankCells(Len(cols))), "add")
  /\ UNCHANGED <<mig, side, legacy, gone, job, clock>>

(* Fault: the values are matched by position. *)
MappedByPosition(vals, old, new) ==
  [i \in DOMAIN new |-> IF i \in DOMAIN vals THEN vals[i] ELSE Zero]

(* The values of columns old under columns new, matched by name. *)
Mapped(vals, old, new) ==
  [i \in DOMAIN new |->
     IF new[i] \in Elements(old) THEN vals[CHOOSE j \in DOMAIN old : old[j] = new[i]] ELSE Zero]

(* The values of the new region that may not get into it. *)
MayMiss(used, cols) ==
  IF "remapfail" \in Env THEN SUBSET ((0 .. used - 1) \X DOMAIN cols) ELSE {{}}

(* tsdb_migrate_overflow_h, up to the records of the new region, which it  *)
(* writes without a look at the result.                                    *)
RemapExtras(cols) ==
  LET old  == main.regions[db.ovf]
      used == db.hdr.total - db.first
      Cell(i, missed) ==
        IF i < used THEN [j \in DOMAIN cols |-> IF <<i, j>> \in missed THEN Zero
                                                ELSE Mapped(old.cells[i], old.cols, cols)[j]]
                    ELSE Zeros(Len(cols))
  IN  /\ AlterCall(Len(db.hdr.cols))
      /\ db.extra > 0
      /\ cols # << >> /\ cols # old.cols
      /\ old.intact
      /\ Elements(cols) \cap Elements(db.hdr.cols) = {}
      /\ \E missed \in MayMiss(used, cols) :
           AppendRegion(Region(cols, [i \in 0 .. MaxTs |-> Cell(i, missed)]), "remap")
      /\ UNCHANGED <<mig, side, legacy, gone, job, clock>>

WithExtras(d, n, ovf, first) ==
  [d EXCEPT !.hdr.extra = n, !.hdr.ovf = ovf, !.hdr.first = first,
            !.extra = n, !.ovf = ovf, !.first = first]

(* The header names the new region: tsdb_migrate_overflow_h ignores a      *)
(* failure, tsdb_add_extra_params_h returns with only db->header changed.  *)
CommitRegion ==
  /\ pc = "region"
  /\ LET n == Len(main.regions)
         d == WithExtras(db, Len(main.regions[n].cols), n,
                         IF op = "add" THEN db.hdr.total ELSE db.first)
     IN  \E ok \in Outcomes("hdrfail") :
           /\ main' = IF ok THEN [main EXCEPT !.hdr = d.hdr] ELSE main
           /\ db' = IF ok \/ op = "remap" THEN d ELSE [db EXCEPT !.hdr = d.hdr]
  /\ op' = "none"
  /\ Goto("idle")
  /\ UNCHANGED <<mig, side, legacy, gone, job, clock, alters>>

(* tsdb_migrate_overflow_h with no columns. *)
RemoveExtras ==
  /\ AlterCall(Len(db.hdr.cols))
  /\ db.extra > 0
  /\ db' = [WithExtras(db, 0, 0, 0) EXCEPT !.late = NoLate]
  /\ \E ok \in Outcomes("hdrfail") :
       main' = IF ok THEN [main EXCEPT !.hdr = db'.hdr] ELSE main
  /\ UNCHANGED <<mig, side, legacy, pc, op, gone, job, clock>>

-----------------------------------------------------------------------------
(* tsdb_migrate_engine *)

CeilDiv(a, b) == IF b = 0 THEN 0 ELSE (a + b - 1) \div b

(* The records to keep and the capacity of a copy with these columns that  *)
(* may take up room data blocks.  A copy that does not fit is trimmed;     *)
(* without allow_trim, or with no room at all, nothing happens.            *)
Plan(cols, m, room) ==
  LET n    == Available(db.hdr)
      want == IF m > 0 /\ n > m THEN m ELSE n
      fit  == room * Rpb(Len(cols))
  IN  IF CeilDiv(want, Rpb(Len(cols))) <= room THEN [keep |-> want, max |-> m]
                                               ELSE [keep |-> fit, max |-> fit]

(* Steps 1 to 4: the .mig file has a header without records. *)
Rewrite(cols, m, room) ==
  LET plan == Plan(cols, m, room)
      n    == Available(db.hdr)
  IN  /\ AlterCall(Len(cols))
      /\ room > 0 \/ n = 0
      /\ cols # db.hdr.cols \/ db.extra > 0 \/ m # db.hdr.max
      /\ \E ok \in Outcomes("setupfail") :
           IF ok THEN /\ mig' = NewFile(NewHeader(plan.max, cols))
                      /\ job' = [NoJob EXCEPT !.cols = cols, !.max = plan.max,
                                              !.k = n - plan.keep, !.avail = n]
                      /\ Goto("copy")
                 ELSE mig' = NoFile /\ UNCHANGED <<job, pc>>
      /\ UNCHANGED <<main, side, legacy, db, op, gone, clock>>

(* tsdb_migrate_schema_h. *)
MigrateSchema(cols, room) == Rewrite(cols, db.hdr.max, room)

(* tsdb_resize_h when the data must move; extras become base columns. *)
ResizeByCopy(m, room) ==
  /\ m # db.hdr.max
  /\ ~FastResize(m)
  /\ Rewrite(Columns(main, db), m, room)

(* An error before the swap: the .mig is removed, the original stays. *)
Abort ==
  /\ mig' = NoFile
  /\ job' = NoJob
  /\ Goto("idle")

(* Fault: the first record of the buffer is left out. *)
FlushedOneShort(data, buf, written) ==
  [s \in Slots |-> IF s \in written - Len(buf) + 1 .. written - 1
                     THEN buf[s - (written - Len(buf)) + 1] ELSE data[s]]

(* The block buffer at the end of the records written so far. *)
Flushed(data, buf, written) ==
  [s \in Slots |-> IF s \in written - Len(buf) .. written - 1
                     THEN buf[s - (written - Len(buf)) + 1] ELSE data[s]]

(* Fault: the record stays the next one. *)
CopyRecordAgain ==
  /\ pc = "copy"
  /\ job.k < job.avail
  /\ UNCHANGED vars

(* Step 5, one record: a block is written when it is full or the record is *)
(* the last.  A record that cannot be read ends the copy, with the records *)
(* still in the buffer counted but not written.                            *)
CopyRecord ==
  /\ pc = "copy"
  /\ job.k < job.avail
  /\ LET row     == Read(main, db, job.k)
         buf     == Append(job.buf, [row EXCEPT !.vals = Mapped(@, Columns(main, db), job.cols)])
         written == job.written + 1
         flush   == Len(buf) = Rpb(Len(job.cols)) \/ job.k + 1 = job.avail
     IN  \E readable \in Outcomes("unreadable"), ok \in Outcomes("copyfail") :
           IF ~readable
             THEN job' = [job EXCEPT !.k = job.avail, !.buf = << >>] /\ UNCHANGED <<mig, pc>>
           ELSE IF flush /\ ~ok
             THEN Abort
           ELSE /\ mig' = IF flush THEN [mig EXCEPT !.data = Flushed(@, buf, written)] ELSE mig
                /\ job' = [job EXCEPT !.k = @ + 1, !.written = written,
                                      !.buf = IF flush THEN << >> ELSE buf,
                                      !.oldestTs = IF job.written = 0 THEN row.ts ELSE @,
                                      !.newestTs = row.ts]
                /\ UNCHANGED pc
  /\ UNCHANGED <<main, side, legacy, db, op, gone, clock, alters>>

(* The header of the finished copy. *)
FinalHeader == [mig.hdr EXCEPT !.total = job.written, !.oldestTs = job.oldestTs,
                               !.newestTs = job.newestTs]

(* Step 6: it is written.  Only the fwrite is looked at: a header that is  *)
(* lost in the flush, the fsync or the fclose is taken for written.        *)
Finalize ==
  /\ pc = "copy"
  /\ job.k = job.avail
  /\ \E ok \in Outcomes("finalfail"), flushed \in Outcomes("flushfail") :
       IF ok THEN /\ mig' = IF flushed THEN [mig EXCEPT !.hdr = FinalHeader] ELSE mig
                  /\ Goto("unlink")
                  /\ UNCHANGED job
             ELSE Abort
  /\ UNCHANGED <<main, side, legacy, db, op, gone, clock, alters>>

(* Step 7, the swap: first the original is closed and goes, ... *)
UnlinkOriginal ==
  /\ pc = "unlink"
  /\ main' = NoFile
  /\ db' = [db EXCEPT !.late = NoLate]
  /\ Goto("swap")
  /\ UNCHANGED <<mig, side, legacy, op, gone, job, clock, alters>>

(* ... then the copy takes its name and, step 8, its header the handle.    *)
(* When the rename or the reopen fails the database ends up not open.      *)
SwapIn ==
  /\ pc = "swap"
  /\ \E renamed \in Outcomes("renamefail"), reopened \in Outcomes("reopenfail") :
       /\ IF renamed THEN main' = mig /\ mig' = NoFile ELSE UNCHANGED <<main, mig>>
       /\ IF renamed /\ reopened
            THEN db' = [db EXCEPT !.hdr = FinalHeader, !.extra = 0, !.ovf = 0, !.first = 0] /\ Goto("idle")
            ELSE db' = NoHandle /\ Goto("closed")
  /\ job' = NoJob
  /\ UNCHANGED <<side, legacy, op, gone, clock, alters>>

-----------------------------------------------------------------------------
(* Power cut: the files stay, everything else is gone. *)

(* File f of handle d without the extra values that were not synced. *)
Lost(f, d) ==
  IF d.late = NoLate THEN f
                     ELSE [f EXCEPT !.regions[d.ovf].cells[d.late.at] = d.late.was]

Crash ==
  /\ "crash" \in Env
  /\ pc # "closed"
  /\ main' \in {main, Lost(main, db)}
  /\ db' = NoHandle
  /\ Goto("closed")
  /\ op' = "none"
  /\ gone' = 0
  /\ job' = NoJob
  /\ UNCHANGED <<mig, side, legacy, clock, alters>>

Init ==
  /\ main = NoFile
  /\ mig = NoFile
  /\ side = NoSlots
  /\ legacy = NoSlots
  /\ db = NoHandle
  /\ pc = "closed"
  /\ op = "none"
  /\ gone = 0
  /\ job = NoJob
  /\ clock = 0
  /\ alters = 0

Open == Recover \/ CreateFile \/ OpenExisting

Call ==
  \/ Write \/ Sync \/ Close
  \/ \E m \in Capacities : ResizeInPlace(m) \/ \E room \in Rooms : ResizeByCopy(m, room)
  \/ \E cols \in Schemas, room \in Rooms : MigrateSchema(cols, room)
  \/ \E cols \in ExtraCols : AddExtraParams(cols) \/ RemapExtras(cols)
  \/ RemoveExtras \/ Clear

Step ==
  \/ FoldHeader \/ RemoveSlot \/ RemoveReturns
  \/ CommitRegion
  \/ CopyRecord \/ Finalize \/ UnlinkOriginal \/ SwapIn

Next == Open \/ Call \/ Step \/ Crash

Spec == Init /\ [][Next]_vars

(* A call that was made runs on: the task that made it is scheduled. *)
FairSpec == Spec /\ WF_vars(Step)

=============================================================================
