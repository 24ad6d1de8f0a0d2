# TLA+ models of esp_tsdb

esp_tsdb is a time-series database for ESP32 flash filesystems: one file per
database, a fixed-size record per write, an optional ring of `max_records`
slots, and small sidecar files that keep the header durable between folds. This
directory holds TLA+ models of its engine, TLC configurations that check them on
small instances, and proofs checked by TLAPS. `PROJECT.json` maps every
definition to the C lines it stands for.

## The system and its parts

| Part | State | Operations | Interacts with | What is hard |
|---|---|---|---|---|
| Header and ring arithmetic (`esp_tsdb.h`, used everywhere) | `tsdb_header_t`: `max_records`, `total_records`, `oldest_record_idx`, `total_evictions`, oldest/newest timestamp | slot of the next record, eviction, readable records, logical to physical index, sanity check, reconstruction | every part | the writer derives slots from `total_records`, the reader from `oldest_record_idx`; capping changes the modulus |
| Write path (`tsdb_write.c`) | header in RAM, `capacity_adapted`, stale flags | `tsdb_write_h`, `tsdb_write_batch_h`, free-space guard, ENOSPC cap and retry | blocks, sidecars | the block is durable before the header is; several steps can fail one by one |
| Sidecar slots (`tsdb_core.c` 150-400) | two TSH2 slots, two TSH1 slots, `sidecar_seq`, `legacy_seq`, `legacy_slot`, `legacy_mirrored` | `tsdb_sidecar_write`, `_load`, `_remove` | write path, open, fold | four files and an in-file header written at different times; which one is true after a power cut |
| Open and recovery (`tsdb_core.c`) | the handle being built | create, open, adopt a sidecar, reconstruct from blocks | sidecars, migration | stale sidecars, implausible headers |
| Close, sync, clear, delete (`tsdb_core.c`) | file, sidecars, handle | `tsdb_fold_header`, then four unlinks, reopen or unlink of the file | sidecars | interrupted or failing half-way |
| Handle lifecycle and global API (`tsdb_core.c`, `tsdb_internal.h`) | `is_open`, `closing`, `generation`, recursive mutex, `s_recycled_handle`, `g_default_handle` | `tsdb_init`, `tsdb_close`, `tsdb_delete`, `TSDB_LOCK_OPEN_OR_RETURN` | all calls | shared fields read without the mutex, timeouts, recycling under stragglers |
| Query iterator (`tsdb_query.c`) | `tsdb_query_t`: header copy, cursor, block buffer | `tsdb_query_init_h` (binary seek), `tsdb_query_next`, `tsdb_query_close` | header, blocks, mutex | seek over a wrapped ring, holes, unreadable blocks, writes while open |
| Aggregates and count (`tsdb_query.c`) | accumulators | `tsdb_aggregate_h`, `tsdb_aggregate_multi_h`, `tsdb_query_count_h` | iterator | signs, empty windows, int64 sum into int32 |
| Schema migration and resize (`tsdb_migrate.c`) | `<db>.mig`, `migrating` | `tsdb_migrate_schema_h`, `tsdb_resize_h`, `tsdb_migrate_recover` | open, sidecars | swap of two files, sidecars of the old file |
| Overflow parameters (`tsdb_core.c`, `tsdb_write.c`, `tsdb_query.c`) | overflow region behind the data blocks, `extra_param_count`, `first_overflow_record_idx` | add, remap and remove columns | write, query, clear | a second write per record, a region in the way of the growing data area, tests before the lock |
| V2 to V3 layout migration (`tsdb_core.c` 923-1023) | `version`, blocks | conversion inside `tsdb_open` | open | in place, cut half way |
| Buffer pool, sparse index, benchmark | | | | see *Not modelled* |

Calls come from application tasks. A public call loads `g_default_handle`,
tests `is_open` and `closing` without the mutex, takes the mutex, tests again
(with the generation), works on header, file and buffers, and gives the mutex
back; a query keeps it until `tsdb_query_close`. Under the mutex a write does
block, header in RAM, TSH2 slot, sometimes TSH1 slot; close, sync, clear and
delete fold the header into the file and unlink the slots.

What makes each part correct:

- persistence: what a reopen would find at any instant is what the application
  was told; deleted or cleared records do not come back; a full filesystem caps
  the ring and does not damage it;
- ring: the slot written next is the slot of the oldest record, and the reader
  sees exactly the newest records in order;
- lifecycle: a task touches the file of a handle only while it owns that
  handle's open incarnation; an open handle stays reachable; a parked handle has
  no user; every call returns;
- query: a window returns each matching record once, in order, and nothing else;
- schema: a change of columns or capacity happens wholly or not at all, drops
  records for want of room only, and never shows a value under another column;
  an old file is read with the layout its blocks have.

## Modules

```
TsdbHeader <- TsdbSidecar <- TsdbStore <- TsdbStoreProps <- TsdbStoreInv <- TsdbRingInv
                                             | INSTANCE RingLog
TsdbStoreInv <- TsdbStoreProofs; with TsdbRingInv <- TsdbRingProofs; with TsdbHeaderProofs <- TsdbDataProofs
TsdbHeader <- TsdbQuery <- TsdbQueryInv; with TsdbHeaderProofs <- TsdbQueryProofs
TsdbSidecar <- TsdbSchema <- TsdbSchemaProps <- TsdbSchemaInv <- TsdbSchemaProofs
                                   | INSTANCE AlterLog
TsdbHandle <- TsdbHandleInv <- TsdbHandleProofs
TsdbHeader <- TsdbHeaderProofs (lemmas about the ring arithmetic)
TsdbLayout (model and proof)
MCTsdbStore, MCTsdbSchema, MCTsdbHandle and MCTsdbQuery extend the *Inv modules
```

**TsdbHeader.** The header as a record without its geometry (fields that are
constant while a database is open), and the arithmetic on it. A record of the
database is its timestamp; 0 is an empty slot. `Walk(h, d)` is what a reader of
header `h` sees in data area `d`, oldest first. `Sane` is `tsdb_header_is_sane`,
`Reconstructed` is `tsdb_reconstruct_header`.

**TsdbSidecar.** A slot file is either valid (sequence number, the mirror it
knew of, a header) or not: missing, torn and corrupt files are skipped alike by
`tsdb_sidecar_load`. The module has the choice between the two slots of a kind,
between the two kinds, the adoption test of `tsdb_open` and the mirror cadence.

**TsdbStore.** One database on flash and its handle in RAM. An action is one
durable effect with the RAM assignments around it, so that `Crash` can fall
between any two: `OpenCompactSlot` truncates a slot file (`fopen "wb"`),
`WriteCompactSlot` fills it, `RemoveSlot` is one `unlink`. `pc` says what comes
next:

| Code | Actions |
|---|---|
| `tsdb_open` | `CreateFile`, `RemoveSlot`, `RemoveReturns`, `WriteInitialHeader`; `OpenExisting`; `OpenReconstruct` |
| `tsdb_write_h` | `WriteStart` (free-space guard), `PersistCap`, `WriteBlock`, `ShrinkToFit`, `BlockFailed` |
| `tsdb_sidecar_write` | `OpenCompactSlot`, `WriteCompactSlot`, `OpenMirrorSlot`, `WriteMirrorSlot` |
| `tsdb_fold_header`, `tsdb_sidecar_remove` | `FoldHeader`, `RemoveSlot`, `RemoveReturns` |
| `tsdb_close_h`, `tsdb_sync_h`, `tsdb_clear_h`, `tsdb_delete_h` | `CloseStart`, `SyncStart`, `SyncReopen`, `ClearStart`, `DeleteStart`, `UnlinkFile` |

`Env` names the faults an instance may meet; `Outcomes(fault)` makes a step
succeed only, or either way. History variables: `clock` (the application's
clock), `acked` (records whose write returned), `floor` (clock at the last clear
or delete that returned). External: the filesystem, of which the model assumes
what littlefs gives after `fflush`/`fclose`, namely that a file that was closed
keeps its contents and a file opened for writing is empty until it is closed.

**TsdbStoreProps, TsdbStoreInv, TsdbRingInv.** The properties of TsdbStore, and
the invariants for its proofs: of types and headers (TsdbStoreInv), of ring
counters and of the records under a header (TsdbRingInv). TsdbHandleInv and
TsdbSchemaInv are the same for their modules. The MC modules extend them, so that
any of these invariants can be added to a configuration.

**RingLog.** What the engine promises a reader across power cuts, as a bounded
log. A record enters a full log in two durable steps, `Displace` (its block
overwrites the oldest record) and `Turn` (the header makes it the newest); power
cuts are stuttering. The refinement mapping is `log <- RecoveredView`, what a
reopen at this instant would show.

**TsdbHandle.** Tasks that share a database through the global API. Every read
or write of a field that is shared without the mutex is a step: loading
`g_default_handle`, the test before the lock, the capture of the generation, the
lock (with timeout), the second test, `closing`, teardown, parking, and in
`tsdb_init` the check, the two steps of taking `s_recycled_handle`, the open, and
the assignment of `g_default_handle`. What happens under the mutex is one state,
`"use"`, detailed by TsdbStore, TsdbSchema and TsdbQuery; a migration goes on to
`"migrate"` (the flag is set) and `"swap"` (the original is closed and unlinked),
and may end with the handle closed. The mutex is external (FreeRTOS, recursive), so
a task may write, sync or migrate while a query of its own is open; a bound of the
model is that it has one query at a time. `query->file` is a copy of `db->file`:
`dangling` is the history variable that says it was closed since (`FileClosed`).

**TsdbQuery.** The iterator. Each `Probe` is one turn of the bisection of
`tsdb_seek_start`, each `ScanSlot` one turn of the loop of `tsdb_query_next`, with the
block buffer and the copied header; the accumulators of the aggregates follow
each returned record, `Cast` and `Quotient` are the C conversion and division.
`view` is the reference, the records when the query began; `out` is what has been
returned, each record with its position in `view`.

**TsdbSchema.** Changes of columns and capacity of a database in use. A record
is its timestamp and one value per column, a file its header, its slots and its
overflow regions, oldest first. TsdbStore cuts the power inside a write; here a
write is one step and the power is cut between calls and inside a change. The block
and the sidecar of a record are durable when `tsdb_write_h` returns, its values in
the overflow region are not: they are written after the block's `fsync`, perhaps in
part, and the next write, fold, change of columns or close makes them durable. `late`
says which cell that is and what it held before; `Crash` may put that back (`Lost`).

| Code | Actions |
|---|---|
| `tsdb_migrate_recover`, `tsdb_open` | `Recover`, `CreateFile`, `OpenExisting` |
| `tsdb_write_h`, `tsdb_sync_h`, `tsdb_close_h`, `tsdb_clear_h` | `Write`; `Sync`, `Close`, `Clear`, then `FoldHeader`, `RemoveSlot`, `RemoveReturns` |
| `tsdb_add_extra_params_h`, `tsdb_migrate_overflow_h` | `AddExtraParams`, `RemapExtras`, then `CommitRegion`; `RemoveExtras` |
| `tsdb_resize_h` | `ResizeInPlace` (then the fold), `ResizeByCopy` |
| `tsdb_migrate_engine` | `MigrateSchema` or `ResizeByCopy`, then `CopyRecord` per record, `Finalize`, `UnlinkOriginal`, `SwapIn` |

The value an application writes to column `c` is represented by `c` itself, so a
value under the wrong name is visible; `Mapped` is the matching by name. `Plan`
is the trim to the space budget, given as a number of blocks (`Rooms`). Two
things the application may do are excluded unless `Env` names them, because they
break what the documentation promises (*Scenarios left out*, *Findings*):
`"unsynced"`, to alter the schema while sidecars of the resulting width exist,
and `"growing"`, to let the data area grow with an overflow region behind it.

**TsdbSchemaProps, AlterLog.** `Shows` of the surviving file is what a reopen at
this instant would show: capacity, columns, records. AlterLog is what schema changes
promise about it: a table to which a record is appended, whose columns and capacity
change in one indivisible step, or which is cleared. Values of its `soft` columns,
those of the overflow region, are kept at best: a record may enter without some of
them, and the youngest can lose its own until it is safe (`late`, `Settle`). `shown`
is a history variable that holds what would be shown, so that the refinement mapping
`table <- shown` is evaluated once per state.

**TsdbLayout.** The conversion of version 2 files. A block is its layout; the
blocks rewritten since the last `fsync` may be lost one by one at a power cut. The
version is kept twice, in the file and in RAM (`ram`), because the code does not see
whether it was written; `Fold` and `Close` write it again. `OpenRebuilt` is an open
that does not believe the header: it is rebuilt with the current version, and the
blocks are not converted.

Definitions marked `(* Fault: ... *)` are not used by the specifications. They
are plausible mistakes in the definition below them; substituting one for it
must make TLC report the property `PROJECT.json` names under `mutants`.

## Runs

| Run | Bounds | Properties | What it shows |
|---|---|---|---|
| StoreCrash | ring of 3, blocks of 2, mirror every 2, 5 records | TypeOK, Durable, AckedSurvive, ViewOrdered, HealedByWrite, SeqGrows | power cuts everywhere plus failing TSH2 slot, fold, create, reopen, unlink, growing block write |
| StoreRefine | ring of 2, 4 records | ImplementsRingLog | the surviving records are a bounded log |
| StoreFaults | ring of 3, 4 records | Durable, RingAligned | capping by reserve and by ENOSPC, failing cap writes, unreadable blocks, clear, with power cuts |
| StoreCap | unlimited, 4 slots, 7 records, fair | ViewIsNewest, TimestampsTrue, RingAligned, OperationsReturn | an unlimited log becomes a ring on ENOSPC; the retry ends |
| StoreReconstruct | ring of 3, up to 3 laps, 12 records, with and without a cap | ReconstructKeepsRecords | a header that fails the sanity check is rebuilt without loss if the ring has its configured capacity, also after earlier rebuilds |
| HandleTasks | two users, one keeper, two structs, 3 opens | TypeOK, UseIsExclusive, StragglersBail, ParkedIsFree, ClosingHasCloser, MigratingHasMigrator, OpenIsReachable, OneOpenFile, QueryKeepsFile | users that write, sync, query and migrate, also under their own query, against a task that closes, deletes and reopens, with timeouts and failing opens, reopens and swaps |
| HandleReturns | one user, one keeper, fair | CallsReturn | every call returns |
| QueryRing | ring of 4 and unlimited, blocks of 2, values -3 and 7, 4-bit results | TypeOK, QueryExact, AggregatesTrue, SumsTrue | every window, with holes and unreadable blocks; the unlimited log also grows while it is read |
| SchemaCrash | ring of 2, then 0, 1 or 3; 3 records, 2 changes, copies of 1 or 3 blocks, fair | TypeOK, AlteredIsDurable, ColumnsHonest, MigSwept, CopyIsWhole, DatabaseStays, ImplementsAlterLog, AlterReturns | every change of schema and capacity cut at every point, with failing creation, copy, header and rename of the `.mig`, failing reopen, fold and overflow header, extra values written in part, unsynced ones lost |
| BadLaps, BadGrowth, BadStaleWriter | small | Durable, ColumnsHonest, NoStaleWrite | violated; see *Findings* |

Why the bounds are enough to be of use. A ring of 3 with blocks of 2 has a block
that is shared by two records and one that is not full; 5 records fill it and
evict twice, so every slot role (first, wrapped, just before and after the wrap)
occurs. `LegacyEvery = 2` instead of 32 puts a mirror next to every distance from
the compact slots: mirrored now, one record ago, and due. The alternation of the
two slots repeats after two writes. Three opens let a handle be parked, recycled
and parked again while a straggler still holds the first incarnation's pointer;
a second struct lets `calloc` and the recycler differ. Four-bit results make sums
overflow with two records. In SchemaCrash `BlockSpace = 12` gives two records per
block with one column and one with two or three, so a copy packs records anew; a
ring of 2 has wrapped after 3 records, so both paths of a resize occur, from every
position of the ring; two changes suffice for each ordered pair (extras that are
remapped, folded into base columns or removed; a migration after a resize), and
for the sidecars one change leaves behind to meet the next.

`MaxLaps = 2` keeps `total_records` within what `tsdb_header_is_sane` accepts;
the code has no such bound, which is what BadLaps is about, and
StoreReconstruct goes beyond it. `MaxTs`, `MaxWrites`, `MaxOpens`, `MaxSlots`, `MaxAlters`
bound counters that the code does not bound.

Deadlock is checked everywhere but in the TsdbHandle runs: there a closed
database stays closed once `MaxOpens` is used up. Symmetry is used for
users and structs in HandleTasks and BadStaleWriter, which check invariants and an
action property that treats all of them alike.

**Fairness.** TsdbStore and TsdbSchema: `WF_vars(Step)`, an operation that was
called is run on; nothing makes the application call one. TsdbHandle: weak fairness of each
task's steps (FreeRTOS schedules a runnable task) and of `QueryClose`, because
`tsdb_query.c` lines 77-80 make the caller responsible for closing its query;
without it a task that never closes its query blocks the others for as long as
it likes. A mutex is taken under weak fairness only: a waiting task that is never
overtaken for ever gets it, and a wait may time out.

## Findings

- **BadLaps** (`src/tsdb_core.c:88`). `tsdb_header_is_sane` rejects
  `total_records > 2 * max_records`; the comment above says `total_records`
  cannot exceed `max_records`, but it counts every write and is never reduced.
  From the third lap on the header of every write is rejected on open.
- **BadGrowth** (`src/tsdb_core.c:1403`). The overflow region is put at the end
  of the file while the data area has not reached its capacity, and
  `tsdb_write_h` computes block offsets from the block number alone. The first
  block added afterwards lies over the overflow header and its names; later ones
  over the values. A comment in `tsdb_resize_h` knows of the collision and avoids
  it there.
- **BadStaleWriter** (`src/tsdb_internal.h:285`). The generation is captured after
  the first `is_open` test. A writer preempted between the two captures the
  number of the next incarnation and passes the second test.

## Scenarios left out

The passing runs exclude the following, each of which breaks the property
named. Each is reproduced by the change to the configuration that is given.

- A block write that fails on a reused slot has already moved `oldest_record_idx`
  and `total_evictions` in RAM (`src/tsdb_write.c` 151-154, 230-233):
  StoreFaults with `"evictfail"`, Durable.
- After a reconstruction `total_records` is the number of records found and
  `oldest_record_idx` the slot of the oldest, so the next write may not land on it
  (`src/tsdb_core.c:621`): StoreReconstruct with RingAligned.
- A ring that was capped below its configured capacity and is past two laps is
  rebuilt with `config->max_records` (`src/tsdb_core.c:495`). Configured for 3 and
  capped to 2, after 5 records it counts 2 and begins at slot 1, so a reader walks
  slots 1 and 2 and misses the newest record in slot 0: StoreReconstruct with
  ReconstructKeepsRecords without `file.hdr.max = ConfigMax`.
- A TSH1 mirror that cannot be written after its slot was truncated, when the
  compact slot refers to it (`src/tsdb_core.c` 226, 330): StoreCrash with
  `"mirrorfail"`, Durable.
- `tsdb_clear_h` ignores the result of its fold (`src/tsdb_core.c:1341`): if the
  header was not written the old records are there again on reopen. StoreFaults
  with `"foldfail"`, Durable.
- A clear that is cut while the slots are being unlinked: the empty in-file
  header has fewer records than any slot left, so a leftover slot wins and an
  older prefix of the records comes back. StoreRefine with `"clear"` instead of
  `"delete"`, ImplementsRingLog.
- A second task that closes, deletes or opens: HandleTasks with one user, a
  second keeper `k2`, and `Closers = {k1, k2}`, or `Deleters = {k2}`, or
  `Closers = {k2}` and `Deleters = {}`: OneOpenFile (`src/tsdb_core.c`
  1174-1179, 1366, 1720).
- A task that syncs or migrates under its own query closes the FILE that the query
  has copied (`src/tsdb_core.c:1245`, `src/tsdb_migrate.c:467`,
  `src/tsdb_query.c` 102, 265-273); the next `tsdb_query_next` reads from a closed
  FILE. When the reopen or the swap fails, the query is left on a closed handle
  (`src/tsdb_core.c` 1254-1259). This one is not excluded: UseIsExclusive and
  QueryKeepsFile say that no other task brings a query there. HandleTasks with
  `~handle[a].dangling` dropped from UseIsExclusive shows it.
- A task that writes to a full ring while its own query is open moves the records
  under the iterator's copy of the header (`src/tsdb_query.c` 79-80, 150-151):
  QueryRing with `"nestedring"`, QueryExact.
- A capacity cap is persisted in the file only. The sidecar of the last record
  has the same `total_records` and the old capacity, and the adoption test is
  `>=` (`src/tsdb_core.c:843`), where comment and changelog say "more": StoreFaults
  with CapSurvives. `src/tsdb_write.c` 127-128 says why it matters.
- For the same reason the next open undoes a change of the overflow columns, or
  puts an old header over a migrated file of the same width
  (`src/tsdb_migrate.c:469`), unless the sidecars are gone. `tsdb_resize_h` folds
  on its fast path because "the sidecars carry the old max_records and would win on
  the next open"; the other paths do not. SchemaCrash with `"unsynced"`,
  AlteredIsDurable.
- A header write that fails at the end of `tsdb_add_extra_params_h` leaves
  `db->header` changed; `tsdb_migrate_overflow_h` ignores the result
  (`src/tsdb_core.c` 1433, 1484, 1617): SchemaCrash with `"hdrfail"`,
  AlteredIsDurable. A clear whose fold fails: `"clearfail"`, AlteredIsDurable.
- `tsdb_migrate_overflow_h` does not look at the result of writing the remapped
  values (`src/tsdb_core.c` 1599, 1608-1609) and commits the new region all the same:
  SchemaCrash with `"remapfail"`, ImplementsAlterLog.
- `tsdb_migrate_engine` checks the `fwrite` of the new header only; if the flush, the
  `fsync` or the `fclose` loses it (`src/tsdb_migrate.c` 448-454), the original is
  unlinked for a copy that counts no record: SchemaCrash with `"flushfail"`,
  AlteredIsDurable.
- The extra values of the newest record are not synced when its write returns
  (`src/tsdb_write.c` 243-312), and a short write of them is only logged (248-251): a
  power cut brings the record back without them. This one is not excluded:
  AlteredIsDurable and AlterLog's `Record` and `Settle` say exactly that. A cut
  inside a write is TsdbStore's, which has no overflow region; after one on a full
  ring, the extra values shown with the record in the displaced slot are those of the
  record it displaced.
- A flush or `fsync` that fails after a block was written, or one in
  `tsdb_write_header`, is ignored by the code in the same way
  (`src/tsdb_write.c` 57-58, `src/tsdb_core.c` 128); the models assume that a write
  that was accepted is flushed, but where a fault above says otherwise.
- A rename that fails in `tsdb_migrate_recover`: `tsdb_open` goes on to create an
  empty database, and the next open removes the `.mig` (`src/tsdb_migrate.c` 148-151):
  SchemaCrash with `"adoptfail"`, MigSwept.
- A source block that cannot be read ends the copy; records in the output buffer
  are counted but not written, and the original is unlinked
  (`src/tsdb_migrate.c:384`): SchemaCrash with `"unreadable"`, ImplementsAlterLog
  and CopyIsWhole.
- Without memory for the V2 conversion the file is opened as it is and used with
  V3 offsets (`src/tsdb_core.c:947`); a block that cannot be read is left
  unconverted (`src/tsdb_core.c:974`); a version 99 or a block whose write fails goes
  unnoticed (`src/tsdb_core.c` 966, 997); and a file whose header cannot be read or
  is not sane, for instance that of a ring past two laps (BadLaps), is rebuilt as
  version 3 with its version 2 blocks (`src/tsdb_core.c` 485, 811-823, 878-894):
  TsdbLayout with `"allocfail"`, `"unreadable"`, `"sentinelfail"`, `"blockfail"` or
  `"insane"`, each violates LayoutAgrees.
- An evicting write cut between block and header leaves the first position out
  of order until the next write. This one is not excluded: ViewOrdered,
  HealedByWrite and RingLog's `Displace` say exactly that.

## Proofs

For every value of the constants:

| Theorem | States | Module |
|---|---|---|
| TypeCorrect | `Spec => []TypeOK` | TsdbStoreProofs |
| HeaderIsDurable, SlotsGetYounger | `TolerableFaults => (Spec => []Durable)`, `... SeqGrows` | TsdbStoreProofs |
| WriterMeetsReader | `CountersMove => (Spec => []RingAligned)` | TsdbRingProofs |
| AckedRecordsSurvive, SurvivorsAreOrdered, WriteHeals | `PlainFaults => (Spec => []AckedSurvive)`, `... ViewOrdered`, `... HealedByWrite` | TsdbDataProofs |
| EngineIsRingLog | `PlainFaults => (Spec => ImplementsRingLog)` | TsdbDataProofs |
| ReaderSeesNewest, TimestampsAreTrue | `CalmFaults => (Spec => []ViewIsNewest)`, `... TimestampsTrue` | TsdbDataProofs |
| IteratorStaysInside | `Spec => []TypeOK` | TsdbQueryProofs |
| QueryIsExact, AggregatesAreTrue | `"nestedring" \notin Env => (Spec => []QueryExact)`, `... AggregatesTrue` | TsdbQueryProofs |
| HandleTypes, ClosingIsOwned, MigratingIsOwned, MutualExclusion | `Spec => []TypeOK`, `... ClosingHasCloser`, `... MigratingHasMigrator`, `... MutexHolds` | TsdbHandleProofs |
| UsersAreProtected, QueryFileIsKept, StaleWaitersLeave, RecyclerOwnsParked, OneFileIsOpen, OpenFileIsReachable | `Spec /\ []KeepersTakeTurns => []UseIsExclusive`, `... QueryKeepsFile`, `... StragglersBail`, `... ParkedIsFree`, `... OneOpenFile`, `... OpenIsReachable` | TsdbHandleProofs |
| DatabaseNeverVanishes | `Spec => DatabaseStays` | TsdbSchemaProofs |
| LeftoverIsSwept | `"adoptfail" \notin Env => (Spec => []MigSwept)` | TsdbSchemaProofs |
| AdoptedCopyIsWhole | `"unreadable" \notin Env => (Spec => []CopyIsWhole)` | TsdbSchemaProofs |
| SchemaTypes | `"unsynced" \notin Env => (Spec => []TypeOK)` | TsdbSchemaProofs |
| ValuesKeepTheirColumns | `"unsynced" \notin Env /\ "growing" \notin Env => (Spec => []ColumnsHonest)` | TsdbSchemaProofs |
| AlteredSurvives | `Env \cap {"unsynced", "growing", "clearfail", "hdrfail", "flushfail"} = {} => (Spec => []AlteredIsDurable)` | TsdbSchemaProofs |
| LayoutNeverMisread | `ConversionRuns => (Spec => []LayoutAgrees)` | TsdbLayout |

### The persistence engine

Assumptions: `MaxSlotsAssumption`, `LegacyEveryAssumption`, `StoreAssumption`
(sizes are positive, the configured capacity fits the data area, `Ops` and `Env`
are what the model knows). `TolerableFaults` is a condition on the constants:
at most two laps of the ring, no failing TSH1 write, no failing block write on a
reused slot, and no failing fold if the application clears. Each of the four is
needed: BadLaps and three of the scenarios above are the counterexamples.
Power cuts and all other faults are allowed.

*TypeCorrect.* TypeOK is not inductive: a write reads the oldest timestamp from
slot `oldest_record_idx`, which must be a slot of the data area, and a header
reaches the handle from the file, from four slots and from a reconstruction.
`TypeInv` adds that every such header fits the data area (`HdrOK`), that
timestamps are at most `clock`, and what the free-space guard and the cap
establish before a block is written. One step per action; lemmas give the type
of each operator of TsdbHeader and TsdbSidecar.

*HeaderIsDurable.* Durable speaks of what `tsdb_open` would choose among five
headers. The argument replaces the choice by an order. `OnTop(h, ...)` says that
`h` is on disk and every other header there describes fewer records.
`SlotsAgree` says that the slots tell one story: a larger sequence number means
more records, equal numbers mean equal headers, and a TSH1 slot is either known
to a TSH2 slot or at least as young. Then

1. `LoadedIsYoungest`: under `SlotsAgree` the rule of `tsdb_sidecar_load` picks a
   slot with the largest sequence number, and finds one if there is one;
2. `ChosenIsTop`, `TopIsChosen`: therefore `tsdb_open` ends up with the header
   that is on top, and there always is one;
3. `WipeCompact`, `WipeMirror`, `PutCompact`, `PutMirror`: truncating, unlinking
   and writing a slot keep `SlotsAgree`. Truncating a mirror needs that the other
   mirror is there (`NumbersInv`: `legacy_slot` is the newest one, and the other
   is taken); writing a slot needs that the handle is ahead of all of them
   (`WriteInv`);
4. `DurableStep`: every action keeps `DurableInv`, whose parts are the control
   state, sanity of all headers on disk, `SlotsAgree`, the sequence numbers of the
   handle, how far a write or a removal has got, and `OnTop` whenever Durable
   claims something. A power cut only needs the parts about the disk.

*WriterMeetsReader.* `CountersMove` allows two laps at most and no failing write
on a reused slot. RingAligned speaks of the handle, but the handle's header comes
from the disk, so `RingInv` says it of every header there is, in RAM, in the file
and in the four slots, valid or not: it passes `tsdb_header_is_sane`, its oldest
index is the slot of the next record once the ring is full and 0 before, and its
evictions are the records it no longer counts. Sanity is a part because a
header that fails it is rebuilt, which does not align (*Scenarios left out*). A
cap happens only before the first lap ends (`CappedWellFormed`); `ModOnce` and
`ModTwice` replace the remainder by a case distinction.

*AckedRecordsSurvive, SurvivorsAreOrdered, WriteHeals.* `PlainFaults` is
`TolerableFaults` without clear, capping and blocks that cannot be read. None of
the three can be allowed: StoreCrash with `"clear"` (and without `"foldfail"`), with
`"enospc"` and `"lowspace"`, or with `"readfail"` violates AckedSurvive. A clear
that is cut loses records before it returns, and a leftover slot brings some of
them back; a sidecar undoes a cap, so that the ring goes on with the wrong
modulus; a block that cannot be read loses its other records to the
read-modify-write of `tsdb_write_h`. Left are power cuts and failing TSH2 slots,
folds, creates, reopens, unlinks and growing block writes. The argument has three
layers on top of `DurableInv` and `RingInv`:

1. `PlainInv`: every header has the configured capacity, so slots are computed
   with one modulus (`SlotOf`).
2. `HomeInv`: the header a reopen would choose is the handle's, or, while
   `tsdb_sidecar_write` is at work, the one before it, and it rests in a place
   that the next truncation does not touch. So a step of the sidecar protocol
   either leaves the chosen header alone or replaces it by its successor.
3. `LogInv`: with `n` the records that header counts, the newest records are in
   order in their slots, but for the slot the next write takes, whose content is
   the oldest record or one that was never acknowledged (`OrderInv`); an
   acknowledged record is in the window or older than all of it (`KeptInv`); the
   record being written is younger than everything (`ClockInv`); after a write of
   this open the window is in order (`HealedInv`).

Two lemmas about data alone carry the step: `BlockKeepsLog` (the block of record
`n` goes to the one slot that `OrderInv` does not count on) and `HeaderTurnsLog`
(with the header of record `n`, that slot is the newest of the window).
`WalkSeq` turns the window into the sequence a reader sees.

*EngineIsRingLog.* `LogOf(n, d)` is the surviving log as a function of the number of
records and the data area. `LogMoves` says that a step changes one of the two at
a time: nothing (power cuts and most steps), the block of a write
(`BlockRefines`: `Displace`, or nothing while the ring is filling), the header of
that block (`HeaderRefines`: `Turn` or an append), or no records are left
(`Reset`).

*ReaderSeesNewest, TimestampsAreTrue.* Here capping and clear are allowed, and power
cuts and unreadable blocks are not: a cut between block and header leaves the
first position out of order, and a block that cannot be read loses records
(`CalmFaults`). `Shows(h, d, a)` says that header `h` shows the newest of the records
`a` in data area `d`, in order, and has the timestamps of the first and the last.
`CalmInv` says it of the handle's header with the records acknowledged, plus the one
whose block is written while its header is not, and of the header the next open
will choose. A cap happens before the first lap ends, so it changes no position;
`DurableInv` gives the header after close and open. The arithmetic is that of
TsdbHeaderProofs, which needs no bound on the laps: `SlotAt(h, i)` is injective on
the readable positions, an eviction moves position `i + 1` to `i`, and the record
written gets the last one.

### Queries

`QueryAssumption`: sizes are positive, values fit the result type, and so does the
number of records. Block size, capacity, window and number of laps are arbitrary.

*IteratorStaysInside.* `CellInv`: the cursor is on slot `PhysicalIdx(q.hdr, q.scanned)`,
which exists because the copied header has its oldest index inside the ring.

*QueryIsExact.* Writes by the task that has the query open are allowed on an unlimited
database and excluded on a ring (`"nestedring"`, *Scenarios left out*). The
invariant has one part per hazard: timestamps do not decrease along the ring,
holes aside (`OrderInv`); the records of the query are still where they were
(`ViewInv`); the block buffer agrees with them even if it was read before the last
write (`BufferInv`); the bisection has passed over no record of the window
(`SeekInv`: all matching positions are above `lo`, which uses the order, and a hole
or a failed probe gives up instead of deciding); and exactly the matching
positions before the cursor have been returned (`ScanInv`), where the early exit on
`end_time` uses the order again.

*AggregatesAreTrue.* `AccInv` says it of what has been returned, and `QueryIsExact`
makes that the window. That COUNT is the cardinality of the matching positions is
a bijection between `out` and them.

### Handles and tasks

`HandleAssumption` says what `Users`, `Openers`, `Closers`, `Deleters`, `Handles` and `MaxOpens`
are; the numbers of tasks, handles and opens are arbitrary.

*HandleTypes, ClosingIsOwned, MigratingIsOwned, MutualExclusion* hold however opens,
closes, deletes and users interleave. `SharedInv` is their invariant. Its core is
`LockInv`: owner and depth of each mutex are exactly what the tasks took and have
not given back, one for the call a task is in and one for its open query; with it
the recursion count cannot go below zero, and a task that is in an operation is
there alone. `TaskInv` ties label, call and handle of a task together, `HeapInv` says
that nobody has a pointer to a struct that was never given out, and `OpensInv`
counts the opens that passed the first test. The lemmas named `...Effect` say
what each action does to owner, depth and flags of the struct it touches.

*UsersAreProtected, QueryFileIsKept, StaleWaitersLeave, RecyclerOwnsParked,
OneFileIsOpen and OpenFileIsReachable* need that calls of `tsdb_init`, `tsdb_close`
and `tsdb_delete` do not overlap, whichever tasks make them. `KeepersTakeTurns`
states it as a condition on the behaviour, and `OneKeeperTakesTurns` proves it
where one task makes them all, as in HandleTasks. The condition is needed: with
two such tasks OneOpenFile is violated (*Scenarios left out*). A user may make any
call at any time, under its own query too, but for a second query. `KeeperInv` adds to `SharedInv` that the open handle is published or in the
hands of the task that opens or closes it (`OpenInv`), that the recycler's handle
is closed and in no such hands (`ParkedInv`), what that task knows of
`g_default_handle` at each label (`BusyInv`), and that users are on open handles
of the generation they captured, but for a query whose own task has closed its file
(`UseInv`). `UserStep` shows that users do not
disturb the first three, `KeeperStep` that opens and closes do not disturb users:
`closing`, the mutex and the generation are what it uses. *QueryFileIsKept* follows
from the mutex: the step that closes a file is made by its owner.

### Changes of schema

These theorems are about `Spec`; the run adds a history variable and fairness.

*DatabaseNeverVanishes.* No fault is excluded. `SwapInv` says which of the two files are
there at each label: the original until the copy is finished, the copy until it
is the original. A power cut after the unlink leaves the `.mig` alone, which
`Recover` renames; a failing rename leaves it where it is.

*LeftoverIsSwept.* By `SweptInv`, no label of an open database but those of the copy
has a `.mig`. A failing rename in `tsdb_migrate_recover` must be excluded
(*Scenarios left out*).

*AdoptedCopyIsWhole.* `CopyInv`: while the copy runs, the records counted so far are in the
file or in the block buffer, and the buffer is empty once the last source record
was taken, which is what the flush at `k == available - 1` is for. A source block
that cannot be read ends the loop before that record and must be excluded
(*Scenarios left out*). Sizes of records and blocks, trims and schemas are arbitrary.
`ShapeInv` says which fields the records of the model have.

*SchemaTypes.* TypeOK is far from inductive: the region a handle uses must be one of
the file's after a power cut, when header and slots were written by different
calls. `RangeInv` has the numbers of every header, of the copy loop and of the call
under way. `RegionInv` says which header goes with which file: a valid slot with as
many columns as the file names one of its regions and has its columns; the copy has
no overflow region and meets no slot of its width; no slot of the file's width is
there when a region is about to be committed. `"unsynced"` is excluded because it
lets a slot of the right width and the wrong columns be adopted (*Scenarios left
out*). The two invariants are proved together.

*ValuesKeepTheirColumns.* `HonestInv`: each value in a slot, in a cell of an overflow
region or in the block buffer is that of its column or 0, and so is what a power cut
would put back for late values (`LateHonest`, `HonestLost`); no header counts more
records than were written, and the offset of a record in its region
(`first_overflow_record_idx`) does not go below 0. `ReadHonest` says that reading then
shows honest values, `HonestMapped` that matching by name keeps them so. `"growing"`
is excluded because BadGrowth violates it. Failing and cut steps are all allowed,
also those that lose a change.

*AlteredSurvives.* The argument of HeaderIsDurable, with columns and regions. `SlotsInv`:
the slots tell one story, a younger slot of the file describes more records, slots
of another width are older than all of these, and no TSH1 slot lies between a
TSH2 slot and the mirror it knew of. `NumbersInv`: the handle continues from the
newest. `DurableInv`: the handle's header is the one on top, at every label where a
call can still return without having changed anything, up to the capacity that a
failing resize takes back; during the removal of the slots the file has that
header. `LoadedIsNewest`, `OpenedIsOnTop` and `OnTopIsOpened` connect it with what an
open does. Values of the overflow region are apart: `LateInv` says that the only ones
not synced are those of the newest record, so that what a power cut puts back is read
by no other one (`ReadLost`), and `ReadAlike` that equal headers over equal files read
alike. A write whose header a sidecar has but whose values are late is the one
exception the property names. `"clearfail"`, `"hdrfail"` and `"flushfail"` are the
header writes whose failure the code passes over, `"unsynced"` lets an old slot win;
each violates AlteredIsDurable (*Scenarios left out*). `"growing"` is excluded with
them because the proof takes from `HonestInv` that the offset of a record in its
region stays inside it; SchemaCrash with it finds no violation. Failing remaps are allowed: what they lose is lost for a
reader of the open database too.

### Layout

*LayoutNeverMisread.* `ConversionRuns` says that the header is believed and that the
conversion gets its memory, can read every block, and has its version 99 and its
blocks written; without any one of these it does not hold (*Scenarios left out*). The
version 3 at the end may be lost: then the file says 99 until a fold writes the
version in RAM, and a power cut before that recreates it. LayoutAgrees speaks of
open and closed files only. `LayoutInv` adds that while blocks are rewritten the
version in the file is 99, the blocks before `next` are converted and those after
it are not, and that nothing is unsynced when version 3 is written. A power cut
during the conversion keeps it whatever blocks it loses, because 99 promises
nothing. There is no TLC run of this small module; the invariant was found with
TLC for up to three blocks.

### Invariants under TLC

Each inductive invariant was checked by TLC before it was proved: `TypeInv` and
`DurableInv` in StoreCrash, StoreFaults and StoreCap; `RingInv` in the same, `PlainInv`,
`HomeInv` and `LogInv` in StoreCrash and StoreRefine; `SharedInv` and `KeeperInv` in
HandleTasks (`SharedInv` with one user, two keepers and `MaxOpens = 1` as well);
`CalmInv` in StoreCap and in StoreFaults without power cuts and unreadable blocks;
`CellInv`, `WindowInv` and `AccInv` in QueryRing; `ShapeInv`, `SwapInv`, `SweptInv` and
`CopyInv` in SchemaCrash; `RangeInv`, `RegionInv`, `HonestInv`, `SlotsInv`, `NumbersInv` and
the `DurableInv` and `LateInv` of TsdbSchemaInv in SchemaCrash with all the faults that the
theorems allow.

## Only model-checked

- Liveness: OperationsReturn, CallsReturn, AlterReturns. It needs fairness and
  ENABLED, which the prover does not handle.
- SumsTrue: a sum over a set is a fold, and what it computes is an induction over
  data. For the same reason ReconstructKeepsRecords, a property of a loop over all
  slots.
- ImplementsAlterLog. The parts of it that are invariants are proved: a returned
  change is durable, the copy that replaces the original is whole, values stay
  under their columns. That the rows of the copy are the rows of the original one
  by one, with those that are no records left out (`SelectSeq`), is an induction
  over data again.
- The properties of TsdbStore with the faults that `PlainFaults` and `CalmFaults` exclude and
  the runs allow: RingLog and the record properties are run without them, Durable
  and RingAligned are proved with them.

## Not modelled

- `tsdb_get_param_name_h`'s use of the shared FILE without the lock, and the test
  of `extra_param_count` before the lock.
- Which record a value of a column belongs to: a value stands for its column, so the
  value of an earlier record under the same column would go unnoticed.
- Two concurrent opens of the same recycler, and several databases at once.
- A second query by a task that has one open.
- Names of columns 17 to 64 in their region of the header, and the truncation of
  long names: columns are model values.
- Databases of version 2 with at most 38 records per block, which only get a new
  version number: what version 2 wrote there is not in the repository.
- A downgrade to 2.4.3, which writes TSH1 only, and back.
- The ignored timeout of the lock in `tsdb_open` of a recycled handle.
- Buffer pool: `tsdb_buffer_read` and `tsdb_buffer_write` are called by nothing;
  the engine takes pointers at fixed offsets.
- Sparse index (written for older readers, read by nothing), benchmark, tests.

## Plan

Every invariant of the runs but SumsTrue and ReconstructKeepsRecords is proved. Next
would be:

1. ImplementsAlterLog: a content invariant for the copy loop (row `k` of the `.mig` is
   row `k` of the original under the new columns) on top of `HonestInv`, and a lemma
   that an original without holes shows all its slots.
2. TsdbHandle: two databases and two openers on one recycler, the position of the
   shared FILE, `tsdb_add_extra_params_h` as a user.
3. TsdbSidecar: an older firmware as an actor that writes TSH1 only.
