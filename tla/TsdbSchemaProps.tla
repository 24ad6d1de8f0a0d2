--------------------------- MODULE TsdbSchemaProps --------------------------
(***************************************************************************)
(* What must hold of changes of schema and capacity: properties of         *)
(* TsdbSchema, and the refinement that shows it implements AlterLog.       *)
(***************************************************************************)
EXTENDS TsdbSchema

Names == Elements(ConfigCols) \cup UNION {Elements(s) : s \in Schemas \cup ExtraCols}

(* The records of file f under handle d, oldest first; those of them that  *)
(* tsdb_query_next returns, which skips slots without a record.            *)
Reads(f, d) == [i \in 1 .. Available(d.hdr) |-> Read(f, d, i - 1)]
Recorded(rows) == SelectSeq(rows, LAMBDA row : row.ts # 0)

Table(m, cols, soft, rows, late) ==
  [max  |-> m,
   cols |-> Elements(cols),
   soft |-> soft,
   late |-> late,
   rows |-> [i \in DOMAIN rows |->
     [ts  |-> rows[i].ts,
      val |-> [c \in Elements(cols) |-> rows[i].vals[CHOOSE j \in DOMAIN cols : cols[j] = c]]]]]

(* What the application sees of file f through handle d. *)
Contents(f, d, late) ==
  Table(d.hdr.max, Columns(f, d), Elements(Columns(f, d)) \ Elements(d.hdr.cols),
        Recorded(Reads(f, d)), late)

EmptyTable == [max |-> ConfigMax, cols |-> Elements(ConfigCols), soft |-> {}, late |-> FALSE,
               rows |-> << >>]

(* What it would see after a power cut now and an open, if nothing was     *)
(* late.                                                                   *)
Survivor == IF main.there THEN main ELSE mig
Shows(f, d, late) == IF f.there THEN Contents(f, d, late) ELSE EmptyTable

(* The history variable: the contents that survive a power cut now, and    *)
(* whether the youngest record's extra values might not.                   *)
VARIABLE shown

HistoryInit == Init /\ shown = Shows(Survivor, OpenedHandle(Survivor), FALSE)
HistoryNext ==
  /\ Next
  /\ \E f \in {Survivor'} : \E d \in {OpenedHandle(f)'} :
       shown' = Shows(f, d, db'.late # NoLate)

(* FairSpec with the history variable added. *)
HistorySpec == HistoryInit /\ [][HistoryNext]_<<vars, shown>> /\ WF_vars(Step)

-----------------------------------------------------------------------------
(* The variables stay in their ranges; the oldest record is inside the     *)
(* ring, the region the handle uses is in the file, and a copy never       *)
(* counts more records than the original can show.                         *)
TypeOK ==
  /\ pc \in {"closed", "idle", "fold", "remove", "region", "copy", "unlink", "swap"}
  /\ op \in {"none", "sync", "close", "clear", "resize", "add", "remap"}
  /\ gone \in 0 .. 4
  /\ clock \in 0 .. MaxTs
  /\ alters \in 0 .. MaxAlters
  /\ db.hdr.max \in 0 .. MaxSlots
  /\ db.hdr.oldest \in Slots /\ (db.hdr.max > 0 => db.hdr.oldest < db.hdr.max)
  /\ db.ovf \in 0 .. Len(main.regions) \/ pc = "swap"
  /\ job.written <= job.avail /\ job.k <= job.avail
  /\ Len(job.buf) <= MaxSlots

(* A change of schema or capacity that has returned has returned for good: *)
(* whenever no call is under way, a power cut would bring back the columns,*)
(* the capacity and the records the application sees now.  All it can cost *)
(* are the extra values of the newest record, which tsdb_write_h leaves    *)
(* unsynced.  This is about the sidecars, which the .mig swap              *)
(* (tsdb_migrate.c) and the in-place header writes of the overflow calls   *)
(* leave behind, and about the syncs that those calls make.                *)
AlteredIsDurable ==
  pc = "idle" =>
    \A f \in {main, Lost(main, db)} :
      LET d == OpenedHandle(f)
          n == Available(db.hdr)
      IN  /\ d.hdr.max = db.hdr.max
          /\ Columns(f, d) = Columns(main, db)
          /\ Available(d.hdr) = n
          /\ \A k \in 0 .. n - 1 :
               \/ Read(f, d, k) = Read(main, db, k)
               \/ /\ db.late # NoLate /\ k = n - 1
                  /\ Base(f, d, k) = Base(main, db, k)

(* Every column has a name the application gave, and every value under it  *)
(* was written for it or is 0: the copy loops and the overflow region      *)
(* never show a value of one column as another's.                          *)
ColumnsHonest ==
  pc = "idle" =>
    LET cols == Columns(main, db)
        rows == Reads(main, db)
    IN  /\ Elements(cols) \subseteq Names
        /\ \A i \in DOMAIN rows : rows[i].ts # 0 =>
             \A j \in DOMAIN cols : rows[i].vals[j] \in {cols[j], Zero}

(* An open database has no .mig next to it, so a .mig that a later open    *)
(* finds without a database is always the finished copy of that database.  *)
MigSwept == pc = "idle" => ~mig.there

(* Each record that the header of file f counts is in f, with a value for  *)
(* every column of f.                                                      *)
Whole(f) ==
  \A s \in Slots : s < f.hdr.total => DOMAIN f.data[s].vals = DOMAIN f.hdr.cols

(* A .mig that is all there is, and that tsdb_migrate_recover will take    *)
(* for the database on its magic alone, is a finished copy: the block loop *)
(* has flushed every record that the final header counts.                  *)
CopyIsWhole == ~main.there /\ mig.there => Whole(mig)

(* No step leaves the path without a database or a copy of it: the .mig is *)
(* finished before the original is unlinked, and adopted, never removed,   *)
(* when it is all there is.                                                *)
DatabaseStays == [][main.there \/ mig.there => main'.there \/ mig'.there]_vars

(* Whatever is cut short, the contents that survive change only by whole   *)
(* records and whole changes of schema or capacity, which keep the         *)
(* youngest records and carry every column over by name.  Only values of   *)
(* overflow columns may be missing, and only from a record whose own write *)
(* was short of them, or that was the youngest when the power was cut.     *)
Abstract == INSTANCE AlterLog WITH
  table <- shown, Times <- 1 .. MaxTs, Capacities <- 0 .. MaxSlots, Empty <- EmptyTable
ImplementsAlterLog == Abstract!Spec

(* Every call comes back, even if the power is never cut: the copy loop    *)
(* and the fold end.                                                       *)
AlterReturns == pc \notin {"idle", "closed"} ~> pc \in {"idle", "closed"}

=============================================================================
