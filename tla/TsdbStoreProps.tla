--------------------------- MODULE TsdbStoreProps ---------------------------
(***************************************************************************)
(* What TsdbStore is meant to guarantee.                                   *)
(***************************************************************************)
EXTENDS TsdbStore, Sequences

-----------------------------------------------------------------------------
(* Views of the state *)

(* The header tsdb_open would end up with if the power went now. *)
Recovered ==
  IF file.state # "ready" THEN EmptyHeader(ConfigMax)
  ELSE IF Sane(file.hdr) THEN OpenedHandle.hdr
  ELSE Reconstructed(data, ConfigMax)

(* The records a reader would find after that. *)
RecoveredView == Walk(Recovered, data)

Ascending(s) == \A i, j \in DOMAIN s : i < j => s[i] < s[j]

(* t is one of the n newest members of S. *)
AmongNewest(t, n, S) == Cardinality({u \in S : u > t}) < n

(* No operation is changing the contents of the database. *)
Settled ==
  \/ pc = "idle"
  \/ op \in {"close", "sync", "delete"} /\ pc \in {"fold", "remove", "reopen"}

-----------------------------------------------------------------------------
(* Type invariant *)

Labels == {"closed", "initial", "idle", "cap", "block", "side", "sidebody",
           "mirror", "mirrorbody", "fold", "remove", "reopen", "unlink"}

(* Every variable of the engine keeps its type: slots, file, handle and    *)
(* program counter of tsdb_open, tsdb_write_h and tsdb_fold_header.        *)
TypeOK ==
  /\ data \in [Slots -> Nat]
  /\ file \in File
  /\ side \in [{0, 1} -> Slot]
  /\ legacy \in [{0, 1} -> Slot]
  /\ db \in Handle
  /\ pc \in Labels
  /\ op \in {"none", "create", "close", "sync", "clear", "delete"}
  /\ gone \in 0 .. 4
  /\ rec \in Nat
  /\ clock \in Nat
  /\ acked \subseteq Nat
  /\ floor \in Nat

-----------------------------------------------------------------------------
(* Crash safety *)

(* Whenever no operation is changing the database (after tsdb_write_h      *)
(* returned, and all through tsdb_close_h, tsdb_sync_h and tsdb_delete_h), *)
(* a power cut and reopen would find exactly the header the handle has:    *)
(* tsdb_sidecar_write made it durable, tsdb_fold_header never uncovers an  *)
(* older one.                                                              *)
Durable == Settled => Recovered = db.hdr

(* At any instant a power cut loses no acknowledged record that fewer than *)
(* max_records younger ones have followed, and none at all while the ring  *)
(* is filling: a record leaves by eviction, clear or delete only, although *)
(* tsdb_write_h overwrites its block before it persists the header.        *)
AckedSurvive ==
  \A t \in acked :
     ~IsEviction(Recovered) \/ clock - t < Recovered.max
       => t \in Elements(RecoveredView)

(* What a reopen shows is in time order, but for the slot of a write in    *)
(* progress, and holds nothing from before the last tsdb_clear_h or        *)
(* tsdb_delete_h: no sidecar brings records back.                          *)
ViewOrdered ==
  LET W == RecoveredView IN
  /\ \A i, j \in 2 .. Len(W) : i < j => W[i] < W[j]
  /\ \A i \in DOMAIN W : W[i] > floor

(* The disorder a power cut can leave in the slot of an evicting write is  *)
(* gone once the reopened handle has written a record: the next            *)
(* tsdb_write_h lands on that very slot.                                   *)
HealedByWrite ==
  pc = "idle" /\ db.stale => Ascending(Walk(db.hdr, data))

(* A capacity cap that tsdb_write_h persisted in the file is still there   *)
(* when the file is opened again.                                          *)
CapSurvives == file.state = "ready" => Recovered.max <= file.hdr.max

-----------------------------------------------------------------------------
(* The ring while the handle is open *)

(* The next record goes to the slot of the oldest one, and the eviction    *)
(* count is what total_records says: tsdb_write_h derives the slot from    *)
(* total_records but the reader starts at oldest_record_idx.               *)
RingAligned ==
  pc = "idle" =>
    /\ IsEviction(db.hdr) => db.hdr.oldest = RecordIdx(db.hdr)
    /\ ~IsEviction(db.hdr) => db.hdr.oldest = 0
    /\ db.hdr.evictions = db.hdr.total - Available(db.hdr)

(* A reader sees exactly the newest acknowledged records, as many as       *)
(* Available says, in order, whatever capping and reopening happened.      *)
ViewIsNewest ==
  pc = "idle" =>
    LET W == Walk(db.hdr, data) IN
    /\ Elements(W) = {t \in acked : AmongNewest(t, Available(db.hdr), acked)}
    /\ Ascending(W)

(* oldest_timestamp and newest_timestamp, which tsdb_get_stats_h reports   *)
(* and tsdb_query_init_h seeks by, are those of the first and last record  *)
(* a reader sees.                                                          *)
TimestampsTrue ==
  pc = "idle" /\ db.hdr.total > 0 =>
    LET W == Walk(db.hdr, data) IN
    db.hdr.oldestTs = W[1] /\ db.hdr.newestTs = W[Len(W)]

-----------------------------------------------------------------------------
(* Steps *)

(* A sidecar slot is only ever overwritten by a younger one: the sequence  *)
(* number tsdb_sidecar_write puts in a slot is above that of every other.  *)
SeqGrows ==
  [][\A n \in {0, 1} :
       /\ side'[n] # side[n] /\ side'[n].ok =>
            side'[n].seq > NewestSeq(side)
       /\ legacy'[n] # legacy[n] /\ legacy'[n].ok =>
            legacy'[n].seq > NewestSeq(legacy)]_vars

(* Rebuilding a header that is not believed loses nothing of a ring that   *)
(* has its configured capacity: whatever a reader of the unbelieved header *)
(* could see, a reader of the one tsdb_reconstruct_header builds sees too, *)
(* also when an earlier rebuild has moved the oldest record.  A ring that  *)
(* was capped is not covered: it gets config->max_records back, and its    *)
(* newest records can be behind the end of what a reader then walks.       *)
ReconstructKeepsRecords ==
  [][OpenReconstruct /\ file.hdr.max = ConfigMax =>
       Elements(Walk(file.hdr, data)) \subseteq Elements(Walk(db'.hdr, data))]_vars

(* Every operation comes back: in particular tsdb_write_h's retry_write    *)
(* loop ends, the cap leaving no growing write to fail a second time.      *)
OperationsReturn == (pc \notin {"idle", "closed"}) ~> (pc \in {"idle", "closed"})

-----------------------------------------------------------------------------
(* Refinement: the records that would survive a power cut are a RingLog. *)

SurvivingLog == INSTANCE RingLog 
                  WITH log <- RecoveredView, Cap <- ConfigMax, Records <- 1 .. MaxTs

(* The engine implements the bounded log, every crash being invisible. *)
ImplementsRingLog == SurvivingLog!Spec

=============================================================================
