------------------------------ MODULE TsdbStore -----------------------------
(***************************************************************************)
(* The persistence engine of one database: the data area, the in-file      *)
(* header, the sidecar slots and the open handle, with every point at      *)
(* which the flash can be caught by a power cut as a state of its own.     *)
(*                                                                         *)
(* One task uses the handle; the mutex that serialises several tasks is    *)
(* the subject of TsdbHandle.  Each action is one durable effect of the C  *)
(* code together with the RAM assignments around it: nothing but a crash   *)
(* can observe the points in between.                                      *)
(*                                                                         *)
(* The application stamps its records with an ascending clock, so that a   *)
(* timestamp also names a record.                                          *)
(***************************************************************************)
EXTENDS TsdbSidecar

CONSTANTS
  ConfigMax,   \* tsdb_config_t.max_records, 0 = unlimited
  Rpb,         \* records_per_block
  Stride,      \* index_stride
  Ops,         \* operations the application calls
  Env,         \* what the environment may do to the engine
  MaxTs,       \* bound: records the application ever writes
  MaxLaps      \* bound: times total_records may go round the ring

AllOps == {"write", "sync", "close", "clear", "delete"}

(* crash: power cut at any point.  lowspace: the free-space callback       *)
(* reports less than the reserve.  enospc: a growing block write finds the *)
(* filesystem full.  growfail, evictfail: a block write fails, on a new or *)
(* on a reused slot.  readfail: the block to modify cannot be read.        *)
(* capfail: both attempts to persist a new cap fail.  sidefail,            *)
(* mirrorfail: a TSH2 or TSH1 slot file cannot be opened or written.       *)
(* foldfail, creatfail: the in-file header cannot be written.  reopenfail, *)
(* unlinkfail: tsdb_sync_h's fopen, tsdb_delete_h's unlink fails.          *)
AllEnv == {"crash", "lowspace", "enospc", "growfail", "evictfail",
           "readfail", "capfail", "sidefail", "mirrorfail", "foldfail",
           "creatfail", "reopenfail", "unlinkfail"}

ASSUME StoreAssumption ==
  /\ ConfigMax \in Nat
  /\ ConfigMax <= MaxSlots
  /\ MaxTs \in Nat
  /\ Rpb \in Nat \ {0}
  /\ Stride \in Nat \ {0}
  /\ MaxLaps \in Nat
  /\ Ops \subseteq AllOps
  /\ Env \subseteq AllEnv

VARIABLES
  data,     \* timestamp in each slot of the data area
  file,     \* the database file: does it exist, and its in-file header
  side,     \* TSH2 slots
  legacy,   \* TSH1 slots
  db,       \* the handle in RAM
  pc,       \* what the engine is about to do
  op,       \* the operation that is folding the header
  gone,     \* slots tsdb_sidecar_remove has unlinked so far
  rec,      \* the record being written, 0 = none
  clock,    \* last timestamp the application used
  acked,    \* history: records whose tsdb_write_h returned ESP_OK, and
            \* that no tsdb_clear_h or tsdb_delete_h has dropped since
  floor     \* history: clock when the last clear or delete returned

disk == <<data, file, side, legacy>>
hist == <<clock, acked, floor>>
vars == <<disk, db, pc, op, gone, rec, hist>>

-----------------------------------------------------------------------------
(* State *)

File == [state : {"absent", "empty", "ready"}, hdr : Header]

Handle == [hdr      : Header,
           seq      : Nat,        \* sidecar_seq
           side     : {0, 1},     \* sidecar_slot
           leg      : {0, 1},     \* legacy_slot
           lseq     : Nat,        \* legacy_seq
           mirrored : BOOLEAN,    \* legacy_mirrored
           adapted  : BOOLEAN,    \* capacity_adapted
           stale    : BOOLEAN,    \* in_file_header_stale
           idxStale : BOOLEAN]    \* index_stale

(* tsdb_acquire_handle: everything but the mutex is zero. *)
NewHandle(h) ==
  [hdr |-> h, seq |-> 0, side |-> 0, leg |-> 0, lseq |-> 0,
   mirrored |-> FALSE, adapted |-> FALSE, stale |-> FALSE, idxStale |-> FALSE]

NoHandle == NewHandle(EmptyHeader(0))

ReadyFile(h) == [state |-> "ready", hdr |-> h]

NoData == [s \in Slots |-> 0]

(* Both outcomes where the environment may make a step fail. *)
Outcomes(fault) == IF fault \in Env THEN BOOLEAN ELSE {TRUE}

Goto(label) == pc' = label

-----------------------------------------------------------------------------
(* tsdb_open *)

(* Fault: the sidecars of the previous database at this path stay. *)
CreateFileKeepingSidecars ==
  /\ pc = "closed"
  /\ file.state # "ready"
  /\ file' = [state |-> "empty", hdr |-> EmptyHeader(0)]
  /\ data' = NoData
  /\ db' = NewHandle(EmptyHeader(ConfigMax))
  /\ op' = "create"
  /\ gone' = 0
  /\ Goto("initial")
  /\ UNCHANGED <<side, legacy, rec, hist>>

(* The file is missing or shorter than a header: fopen "w+b".  The         *)
(* sidecars left at this path are removed before the header is written.    *)
CreateFile ==
  /\ pc = "closed"
  /\ file.state # "ready"
  /\ file' = [state |-> "empty", hdr |-> EmptyHeader(0)]
  /\ data' = NoData
  /\ db' = NewHandle(EmptyHeader(ConfigMax))
  /\ op' = "create"
  /\ gone' = 0
  /\ Goto("remove")
  /\ UNCHANGED <<side, legacy, rec, hist>>

WriteInitialHeader ==
  /\ pc = "initial"
  /\ \E ok \in Outcomes("creatfail") :
       IF ok THEN /\ file' = ReadyFile(db.hdr)
                  /\ Goto("idle")
                  /\ UNCHANGED db
             ELSE /\ Goto("closed")
                  /\ db' = NoHandle
                  /\ UNCHANGED file
  /\ op' = "none"
  /\ UNCHANGED <<data, side, legacy, gone, rec, hist>>

(* The handle a successful open of an existing, sane file ends up with. *)
OpenedHandle ==
  LET adopt == Adopts(file.hdr, side, legacy) IN
  [NewHandle(IF adopt THEN LoadedHeader(side, legacy) ELSE file.hdr)
     EXCEPT !.seq      = LoadedSeq(side, legacy),
            !.lseq     = NewestSeq(legacy),
            !.leg      = Newest(legacy),
            !.side     = Newest(side),
            !.idxStale = adopt]

OpenExisting ==
  /\ pc = "closed"
  /\ file.state = "ready"
  /\ Sane(file.hdr)
  /\ db' = OpenedHandle
  /\ Goto("idle")
  /\ UNCHANGED <<disk, op, gone, rec, hist>>

(* An implausible header is rebuilt from the blocks and written back; the  *)
(* sidecars are neither read nor removed.                                  *)
OpenReconstruct ==
  /\ pc = "closed"
  /\ file.state = "ready"
  /\ ~Sane(file.hdr)
  /\ \E ok \in Outcomes("creatfail") :
       IF ok THEN /\ db' = NewHandle(Reconstructed(data, ConfigMax))
                  /\ file' = ReadyFile(db'.hdr)
                  /\ Goto("idle")
             ELSE UNCHANGED <<db, file, pc>>
  /\ UNCHANGED <<data, side, legacy, op, gone, rec, hist>>

-----------------------------------------------------------------------------
(* tsdb_write_h *)

(* MaxTs, MaxLaps and MaxSlots bound the model: the code has no such guard. *)
MayWrite ==
  /\ clock < MaxTs
  /\ IF Unlimited(db.hdr) THEN db.hdr.total < MaxSlots
                          ELSE db.hdr.total < MaxLaps * db.hdr.max

(* The growth phase is about to take a new block and the reserve is short. *)
ReserveBreached(d) ==
  /\ "lowspace" \in Env
  /\ ~d.adapted
  /\ d.hdr.max > 0
  /\ d.hdr.total > 0
  /\ d.hdr.total < d.hdr.max
  /\ d.hdr.total % Rpb = 0

(* Fault: the retry finds the ring as it was. *)
CapHandleNot(d) == d

CapHandle(d) == [d EXCEPT !.hdr = Capped(@), !.adapted = TRUE]

WriteStart ==
  /\ pc = "idle"
  /\ "write" \in Ops
  /\ MayWrite
  /\ clock' = clock + 1
  /\ rec' = clock + 1
  /\ \/ Goto("block") /\ UNCHANGED db
     \/ ReserveBreached(db) /\ db' = CapHandle(db) /\ Goto("cap")
  /\ UNCHANGED <<disk, op, gone, acked, floor>>

(* tsdb_write_header with its one retry; a failure is only logged. *)
PersistCap ==
  /\ pc = "cap"
  /\ \E ok \in Outcomes("capfail") :
       file' = IF ok THEN ReadyFile(db.hdr) ELSE file
  /\ Goto("block")
  /\ UNCHANGED <<data, side, legacy, db, op, gone, rec, hist>>

SameBlock(s, t) == s \div Rpb = t \div Rpb

(* The data area after the read-modify-write of the block of slot n.  A    *)
(* block that cannot be read is taken for a new one and starts out empty.  *)
DataWith(n, ts, blockRead) ==
  [s \in Slots |-> IF s = n THEN ts
                   ELSE IF ~blockRead /\ SameBlock(s, n) THEN 0 ELSE data[s]]

(* The header after that; an eviction that cannot read the block of the    *)
(* new oldest record keeps the old oldest timestamp.                       *)
HeaderWith(ts, d, oldestRead) ==
  LET h == Advanced(db.hdr, ts, d) IN
  IF oldestRead \/ ~IsEviction(db.hdr) THEN h ELSE [h EXCEPT !.oldestTs = db.hdr.oldestTs]

WriteBlock ==
  /\ pc = "block"
  /\ \E blockRead, oldestRead \in Outcomes("readfail") :
       /\ data' = DataWith(RecordIdx(db.hdr), rec, blockRead)
       /\ db' = [db EXCEPT !.hdr = HeaderWith(rec, data', oldestRead),
                           !.idxStale = @ \/ RecordIdx(db.hdr) % Stride = 0]
  /\ Goto("side")
  /\ UNCHANGED <<file, side, legacy, op, gone, rec, hist>>

(* ENOSPC while growing: cap the ring at what has been written and retry.  *)
ShrinkToFit ==
  /\ pc = "block"
  /\ "enospc" \in Env
  /\ ~IsEviction(db.hdr)
  /\ ~db.adapted
  /\ db.hdr.total > 0
  /\ db' = CapHandle(db)
  /\ Goto("cap")
  /\ UNCHANGED <<disk, op, gone, rec, hist>>

(* Any other failed block write returns the error.  An eviction has moved  *)
(* the header's oldest record by then.                                     *)
BlockFailed ==
  /\ pc = "block"
  /\ \/ IsEviction(db.hdr) /\ "evictfail" \in Env
     \/ ~IsEviction(db.hdr) /\ "growfail" \in Env
     \/ ~IsEviction(db.hdr) /\ "enospc" \in Env /\ (db.adapted \/ db.hdr.total = 0)
  /\ db' = [db EXCEPT !.hdr = Evicted(@)]
  /\ rec' = 0
  /\ Goto("idle")
  /\ UNCHANGED <<disk, op, gone, hist>>

-----------------------------------------------------------------------------
(* tsdb_sidecar_write, called by tsdb_write_h once the block is written *)

(* tsdb_write_h returns ESP_OK whatever became of the sidecars. *)
WriteReturns(d) ==
  /\ db' = [d EXCEPT !.stale = TRUE]
  /\ acked' = acked \cup {rec}
  /\ rec' = 0
  /\ Goto("idle")

(* The rest of tsdb_sidecar_write once the compact slot is done with. *)
AfterCompact(ok, d) ==
  IF MirrorDue(ok, d.mirrored, d.seq, d.lseq)
    THEN db' = d /\ Goto("mirror") /\ UNCHANGED <<acked, rec>>
    ELSE WriteReturns(d)

(* The next number is taken and the older slot truncated by fopen "wb". *)
OpenCompactSlot ==
  /\ pc = "side"
  /\ LET d == [db EXCEPT !.seq = @ + 1, !.side = Other(@)] IN
     \E ok \in Outcomes("sidefail") :
       IF ok THEN /\ side' = [side EXCEPT ![d.side] = NoSlot]
                  /\ db' = d
                  /\ Goto("sidebody")
                  /\ UNCHANGED <<acked, rec>>
             ELSE /\ AfterCompact(FALSE, d)
                  /\ UNCHANGED side
  /\ UNCHANGED <<data, file, legacy, op, gone, clock, floor>>

WriteCompactSlot ==
  /\ pc = "sidebody"
  /\ \E ok \in Outcomes("sidefail") :
       /\ side' = IF ok THEN [side EXCEPT ![db.side] = ValidSlot(db.seq, db.lseq, db.hdr)]
                        ELSE side
       /\ AfterCompact(ok, db)
  /\ UNCHANGED <<data, file, legacy, op, gone, clock, floor>>

OpenMirrorSlot ==
  /\ pc = "mirror"
  /\ LET d == [db EXCEPT !.leg = Other(@)] IN
     \E ok \in Outcomes("mirrorfail") :
       IF ok THEN /\ legacy' = [legacy EXCEPT ![d.leg] = NoSlot]
                  /\ db' = d
                  /\ Goto("mirrorbody")
                  /\ UNCHANGED <<acked, rec>>
             ELSE /\ WriteReturns(d)
                  /\ UNCHANGED legacy
  /\ UNCHANGED <<data, file, side, op, gone, clock, floor>>

WriteMirrorSlot ==
  /\ pc = "mirrorbody"
  /\ \E ok \in Outcomes("mirrorfail") :
       IF ok THEN /\ legacy' = [legacy EXCEPT ![db.leg] = ValidSlot(db.seq, 0, db.hdr)]
                  /\ WriteReturns([db EXCEPT !.lseq = db.seq, !.mirrored = TRUE])
             ELSE /\ WriteReturns(db)
                  /\ UNCHANGED legacy
  /\ UNCHANGED <<data, file, side, op, gone, clock, floor>>

-----------------------------------------------------------------------------
(* tsdb_fold_header and its callers *)

StartFold(name) ==
  /\ pc = "idle"
  /\ name \in Ops
  /\ op' = name
  /\ Goto("fold")
  /\ UNCHANGED <<disk, gone, rec, hist>>

CloseStart == StartFold("close") /\ UNCHANGED db
DeleteStart == StartFold("delete") /\ UNCHANGED db

ClearStart ==
  StartFold("clear") /\ db' = [db EXCEPT !.hdr = Cleared(@), !.idxStale = FALSE]

(* tsdb_sync_h folds only when there is something to fold. *)
SyncStart ==
  \/ (db.stale \/ db.idxStale) /\ StartFold("sync") /\ UNCHANGED db
  \/ /\ ~(db.stale \/ db.idxStale)
     /\ pc = "idle"
     /\ "sync" \in Ops
     /\ Goto("reopen")
     /\ op' = "sync"
     /\ UNCHANGED <<disk, db, gone, rec, hist>>

(* History: the application was told that its records are gone. *)
Dropped == acked' = {} /\ floor' = clock

(* What the operation does after tsdb_fold_header came back. *)
FoldReturns(d) ==
  \/ /\ op = "close"
     /\ Goto("closed") /\ db' = NoHandle /\ op' = "none"
     /\ UNCHANGED <<acked, floor>>
  \/ /\ op = "clear"
     /\ Goto("idle") /\ db' = d /\ op' = "none"
     /\ Dropped
  \/ /\ op = "sync"
     /\ Goto("reopen") /\ db' = d
     /\ UNCHANGED <<op, acked, floor>>
  \/ /\ op = "delete"
     /\ Goto("unlink") /\ db' = NoHandle
     /\ UNCHANGED <<op, acked, floor>>

FoldHeader ==
  /\ pc = "fold"
  /\ \E ok \in Outcomes("foldfail") :
       IF ok THEN /\ file' = ReadyFile(db.hdr)
                  /\ db' = [db EXCEPT !.stale = FALSE, !.idxStale = FALSE]
                  /\ gone' = 0
                  /\ Goto("remove")
                  /\ UNCHANGED <<op, acked, floor>>
             ELSE /\ FoldReturns(db)
                  /\ UNCHANGED <<file, gone>>
  /\ UNCHANGED <<data, side, legacy, rec, clock>>

(* Fault: the TSH1 slots are left behind. *)
RemoveSlotCompactOnly ==
  /\ pc = "remove"
  /\ gone < 4
  /\ side' = IF gone < 2 THEN [side EXCEPT ![gone] = NoSlot] ELSE side
  /\ gone' = gone + 1
  /\ UNCHANGED <<data, file, legacy, db, pc, op, rec, hist>>

(* tsdb_sidecar_remove: TSH2 slots first, then the TSH1 slots. *)
RemoveSlot ==
  /\ pc = "remove"
  /\ gone < 4
  /\ IF gone < 2
       THEN side' = [side EXCEPT ![gone] = NoSlot] /\ UNCHANGED legacy
       ELSE legacy' = [legacy EXCEPT ![gone - 2] = NoSlot] /\ UNCHANGED side
  /\ gone' = gone + 1
  /\ UNCHANGED <<data, file, db, pc, op, rec, hist>>

RemoveReturns ==
  /\ pc = "remove"
  /\ gone = 4
  /\ IF op = "create"
       THEN Goto("initial") /\ UNCHANGED <<db, op, acked, floor>>
       ELSE FoldReturns([db EXCEPT !.mirrored = FALSE, !.lseq = 0])
  /\ gone' = 0
  /\ UNCHANGED <<disk, rec, clock>>

(* tsdb_sync_h's fclose and fopen; a failure leaves a handle not open. *)
SyncReopen ==
  /\ pc = "reopen"
  /\ \E ok \in Outcomes("reopenfail") :
       IF ok THEN Goto("idle") /\ UNCHANGED db
             ELSE Goto("closed") /\ db' = NoHandle
  /\ op' = "none"
  /\ UNCHANGED <<disk, gone, rec, hist>>

(* tsdb_delete_h's unlink of the closed file. *)
UnlinkFile ==
  /\ pc = "unlink"
  /\ \E ok \in Outcomes("unlinkfail") :
       IF ok THEN /\ file' = [state |-> "absent", hdr |-> EmptyHeader(0)]
                  /\ data' = NoData
                  /\ Dropped
             ELSE UNCHANGED <<file, data, acked, floor>>
  /\ Goto("closed")
  /\ op' = "none"
  /\ UNCHANGED <<side, legacy, db, gone, rec, clock>>

-----------------------------------------------------------------------------
(* A power cut: RAM is gone, the disk stays as it is. *)
Crash ==
  /\ "crash" \in Env
  /\ pc # "closed"
  /\ Goto("closed")
  /\ db' = NoHandle
  /\ op' = "none"
  /\ gone' = 0
  /\ rec' = 0
  /\ UNCHANGED <<disk, hist>>

-----------------------------------------------------------------------------
(* Specification *)

Init ==
  /\ data = NoData
  /\ file = [state |-> "absent", hdr |-> EmptyHeader(0)]
  /\ side = NoSlots
  /\ legacy = NoSlots
  /\ db = NoHandle
  /\ pc = "closed"
  /\ op = "none"
  /\ gone = 0
  /\ rec = 0
  /\ clock = 0
  /\ acked = {}
  /\ floor = 0

Open == CreateFile \/ OpenExisting \/ OpenReconstruct

Call == WriteStart \/ CloseStart \/ DeleteStart \/ ClearStart \/ SyncStart

(* The steps an operation takes once it was called. *)
Step ==
  \/ WriteInitialHeader
  \/ PersistCap \/ WriteBlock \/ ShrinkToFit \/ BlockFailed
  \/ OpenCompactSlot \/ WriteCompactSlot \/ OpenMirrorSlot \/ WriteMirrorSlot
  \/ FoldHeader \/ RemoveSlot \/ RemoveReturns \/ SyncReopen \/ UnlinkFile

Next == Open \/ Call \/ Step \/ Crash

Spec == Init /\ [][Next]_vars

(* An operation that was called runs on: the task is scheduled. *)
FairSpec == Spec /\ WF_vars(Step)

=============================================================================
