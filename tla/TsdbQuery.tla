------------------------------ MODULE TsdbQuery -----------------------------
(***************************************************************************)
(* The query iterator of tsdb_query.c: tsdb_query_init_h with its binary   *)
(* seek, tsdb_query_next with its block buffer, and the aggregates that    *)
(* are built on them.                                                      *)
(*                                                                         *)
(* One task holds the mutex from tsdb_query_init_h to tsdb_query_close,    *)
(* and the mutex is recursive, so the only writes in between are that      *)
(* task's own.  Records carry one value each; timestamps never decrease.   *)
(***************************************************************************)
EXTENDS TsdbHeader, Sequences, FiniteSetsExt

CONSTANTS
  Capacities,  \* max_records of the databases considered, 0 = unlimited
  Rpb,         \* records_per_block
  Values,      \* values a record may carry
  MaxInt,      \* INT32_MAX, the largest result of an aggregate
  Env,         \* subset of {"unreadable", "wiped", "nested", "nestedring"}
  MaxTs,       \* bound: largest timestamp
  MaxWrites    \* bound: records written to a ring; MaxSlots to an unlimited one

(* unreadable: a block read fails.  wiped: between two queries, a write    *)
(* could not read its block and started it afresh.  nested, nestedring:    *)
(* the task writes while its query is open, in an unlimited database and   *)
(* in a ring.                                                              *)
ASSUME QueryAssumption ==
  /\ Capacities \subseteq 0 .. MaxSlots
  /\ Rpb \in Nat \ {0}
  /\ MaxInt \in Nat
  /\ MaxSlots <= MaxInt
  /\ Values \subseteq -MaxInt - 1 .. MaxInt
  /\ Env \subseteq {"unreadable", "wiped", "nested", "nestedring"}
  /\ MaxTs \in Nat
  /\ MaxWrites \in Nat

VARIABLES
  data,    \* timestamp in each slot
  vals,    \* value in each slot
  hdr,     \* db->header
  pc,      \* none; seek: in tsdb_seek_start; open: between calls;
           \* scan: in tsdb_query_next
  q,       \* the iterator, tsdb_query_t
  seek,    \* lo and hi of tsdb_seek_start
  acc,     \* accumulators of tsdb_aggregate_h
  out,     \* history: records returned so far, as [pos, ts, val]
  view,    \* history: the records when the query began, as [ts, val]
  status   \* history: running, ended, or failed on an unreadable block

vars == <<data, vals, hdr, pc, q, seek, acc, out, view, status>>

-----------------------------------------------------------------------------
(* State *)

Block(slot) == slot \div Rpb
Blocks == {Block(s) : s \in Slots}

Iterator == [start : Nat, end : Nat,  \* the window
             hdr : Header,            \* the header when the query began
             slot : Nat,              \* current_record_idx
             block : Nat,             \* current_block_num
             scanned : Nat,           \* records_scanned
             loaded : BOOLEAN,        \* block_loaded
             ts : [Slots -> Nat],     \* block_buffer, by slot
             val : [Slots -> Values \cup {0}]]

NoBuffer == [s \in Slots |-> 0]

NoQuery == [start |-> 0, end |-> 0, hdr |-> EmptyHeader(0), slot |-> 0, block |-> 0,
            scanned |-> 0, loaded |-> FALSE, ts |-> NoBuffer, val |-> NoBuffer]

MinInt == -MaxInt - 1

(* Fault: the minimum starts at zero. *)
NoRecordsFromZero == [sum |-> 0, min |-> 0, max |-> MinInt, count |-> 0,
                      first |-> 0, last |-> 0]

NoRecords == [sum |-> 0, min |-> MaxInt, max |-> MinInt, count |-> 0,
              first |-> 0, last |-> 0]

-----------------------------------------------------------------------------
(* The writes that fill the ring: tsdb_write_h, all its steps as one. *)

WriteRecord(ts, v, blockRead) ==
  LET n == RecordIdx(hdr)
      Fresh(s) == ~blockRead /\ Block(s) = Block(n)
  IN  /\ data' = [s \in Slots |-> IF s = n THEN ts ELSE IF Fresh(s) THEN 0 ELSE data[s]]
      /\ vals' = [s \in Slots |-> IF s = n THEN v ELSE IF Fresh(s) THEN 0 ELSE vals[s]]
      /\ hdr' = Advanced(hdr, ts, data')

Write ==
  /\ \/ pc = "none"
     \/ pc = "open" /\ (IF Unlimited(hdr) THEN "nested" ELSE "nestedring") \in Env
  /\ hdr.total < (IF Unlimited(hdr) THEN MaxSlots ELSE MaxWrites)
  /\ \E ts \in 1 .. MaxTs, v \in Values, blockRead \in BOOLEAN :
       /\ ts >= hdr.newestTs
       /\ blockRead \/ ("wiped" \in Env /\ pc = "none")
       /\ WriteRecord(ts, v, blockRead)
  /\ UNCHANGED <<pc, q, seek, acc, out, view, status>>

-----------------------------------------------------------------------------
(* tsdb_query_init_h *)

FirstSlot(h) == IF Unlimited(h) THEN 0 ELSE h.oldest

(* History: the records of the database, oldest first. *)
Records ==
  [i \in 1 .. Available(hdr) |->
     [ts |-> data[PhysicalIdx(hdr, i - 1)], val |-> vals[PhysicalIdx(hdr, i - 1)]]]

(* The seek is only made when the window begins after the oldest record. *)
QueryInit ==
  /\ pc = "none"
  /\ \E start, end \in 0 .. MaxTs :
       /\ start <= end
       /\ q' = [NoQuery EXCEPT !.start = start, !.end = end, !.hdr = hdr,
                               !.slot = FirstSlot(hdr), !.block = Block(FirstSlot(hdr))]
       /\ pc' = IF Available(hdr) > 0 /\ start > hdr.oldestTs THEN "seek" ELSE "open"
  /\ seek' = [lo |-> 0, hi |-> Available(hdr)]
  /\ acc' = NoRecords
  /\ out' = << >>
  /\ view' = Records
  /\ status' = "running"
  /\ UNCHANGED <<data, vals, hdr>>

(* Put the cursor on logical position k. *)
StartAt(k) ==
  LET slot == PhysicalIdx(q.hdr, k) IN
  /\ q' = [q EXCEPT !.slot = slot, !.block = Block(slot), !.scanned = k]
  /\ pc' = "open"

(* Fault: a record at the start of the window is passed over. *)
BeforeWindowOrFirst(ts) == ts <= q.start

BeforeWindow(ts) == ts < q.start

(* One turn of tsdb_seek_start's bisection.  A probe that meets an         *)
(* unreadable block or a hole makes the walk begin at the oldest record.   *)
Probe ==
  /\ pc = "seek"
  /\ seek.lo < seek.hi
  /\ LET mid == seek.lo + (seek.hi - seek.lo) \div 2
         ts  == data[PhysicalIdx(q.hdr, mid)]
     IN  \/ /\ ts = 0 \/ "unreadable" \in Env
            /\ StartAt(0)
            /\ UNCHANGED seek
         \/ /\ ts # 0 /\ BeforeWindow(ts)
            /\ seek' = [seek EXCEPT !.lo = mid + 1]
            /\ UNCHANGED <<pc, q>>
         \/ /\ ts # 0 /\ ~BeforeWindow(ts)
            /\ seek' = [seek EXCEPT !.hi = mid]
            /\ UNCHANGED <<pc, q>>
  /\ UNCHANGED <<data, vals, hdr, acc, out, view, status>>

SeekReturns ==
  /\ pc = "seek"
  /\ seek.lo >= seek.hi
  /\ StartAt(seek.lo)
  /\ UNCHANGED <<data, vals, hdr, seek, acc, out, view, status>>

-----------------------------------------------------------------------------
(* tsdb_query_next, one iteration of its loop per step *)

QueryNext ==
  /\ pc = "open"
  /\ pc' = "scan"
  /\ UNCHANGED <<data, vals, hdr, q, seek, acc, out, view, status>>

(* ESP_ERR_NOT_FOUND. *)
NotFound(why) ==
  /\ pc' = "open"
  /\ status' = why
  /\ UNCHANGED <<acc, out>>

Exhausted ==
  /\ pc = "scan"
  /\ q.scanned >= Available(q.hdr)
  /\ NotFound("ended")
  /\ UNCHANGED <<data, vals, hdr, q, seek, view>>

BlockUnreadable ==
  /\ pc = "scan"
  /\ q.scanned < Available(q.hdr)
  /\ ~q.loaded
  /\ "unreadable" \in Env
  /\ NotFound("failed")
  /\ UNCHANGED <<data, vals, hdr, q, seek, view>>

(* The iterator with its current block in the buffer. *)
Loaded ==
  IF q.loaded THEN q
  ELSE [q EXCEPT !.loaded = TRUE,
                 !.ts  = [s \in Slots |-> IF Block(s) = q.block THEN data[s] ELSE 0],
                 !.val = [s \in Slots |-> IF Block(s) = q.block THEN vals[s] ELSE 0]]

(* Fault: the cursor does not wrap. *)
NextSlotWithoutWrap == q.slot + 1

(* The cursor on the slot after the current one. *)
NextSlot == IF Unlimited(q.hdr) THEN q.slot + 1 ELSE (q.slot + 1) % q.hdr.max

Moved(c) ==
  [c EXCEPT !.slot = NextSlot, !.block = Block(NextSlot), !.scanned = @ + 1,
            !.loaded = (Block(NextSlot) = q.block)]

(* What tsdb_aggregate_h and tsdb_aggregate_multi_h do with a record. *)
Accumulated(a, v) ==
  [sum   |-> a.sum + v,
   min   |-> IF v < a.min THEN v ELSE a.min,
   max   |-> IF v > a.max THEN v ELSE a.max,
   count |-> a.count + 1,
   first |-> IF a.count = 0 THEN v ELSE a.first,
   last  |-> v]

InWindow(start, end, ts) == ts # 0 /\ start <= ts /\ ts <= end

ScanSlot ==
  /\ pc = "scan"
  /\ q.scanned < Available(q.hdr)
  /\ LET c == Loaded
         ts == c.ts[q.slot]
     IN  /\ q' = Moved(c)
         /\ \/ /\ ts = 0 \/ (ts <= q.end /\ ts < q.start)
               /\ UNCHANGED <<pc, acc, out, status>>
            \/ /\ ts # 0 /\ ts > q.end
               /\ NotFound("ended")
            \/ /\ InWindow(q.start, q.end, ts)
               /\ out' = Append(out, [pos |-> q.scanned + 1, ts |-> ts, val |-> c.val[q.slot]])
               /\ acc' = Accumulated(acc, c.val[q.slot])
               /\ pc' = "open"
               /\ UNCHANGED status
  /\ UNCHANGED <<data, vals, hdr, seek, view>>

QueryClose ==
  /\ pc = "open"
  /\ pc' = "none"
  /\ q' = NoQuery
  /\ acc' = NoRecords
  /\ out' = << >>
  /\ view' = << >>
  /\ status' = "running"
  /\ UNCHANGED <<data, vals, hdr, seek>>

-----------------------------------------------------------------------------
(* The result of an aggregate *)

(* The cast to int32_t. *)
Cast(x) == ((x - MinInt) % (2 * (MaxInt + 1))) + MinInt

(* Fault: division rounds down. *)
QuotientRoundingDown(a, b) == a \div b

(* Division of C: towards zero. *)
Quotient(a, b) == IF a >= 0 THEN a \div b ELSE -((-a) \div b)

Result(a, type) ==
  IF a.count = 0 THEN 0
  ELSE CASE type = "SUM"   -> Cast(a.sum)
         [] type = "AVG"   -> Cast(Quotient(a.sum, a.count))
         [] type = "MIN"   -> a.min
         [] type = "MAX"   -> a.max
         [] type = "COUNT" -> Cast(a.count)
         [] type = "FIRST" -> a.first
         [] type = "LAST"  -> a.last

-----------------------------------------------------------------------------
(* Specification *)

Init ==
  /\ data = NoBuffer
  /\ vals = NoBuffer
  /\ \E m \in Capacities : hdr = EmptyHeader(m)
  /\ pc = "none"
  /\ q = NoQuery
  /\ seek = [lo |-> 0, hi |-> 0]
  /\ acc = NoRecords
  /\ out = << >>
  /\ view = << >>
  /\ status = "running"

Next ==
  \/ Write \/ QueryInit \/ Probe \/ SeekReturns \/ QueryNext \/ QueryClose
  \/ Exhausted \/ BlockUnreadable \/ ScanSlot

Spec == Init /\ [][Next]_vars

-----------------------------------------------------------------------------
(* Properties *)

(* The iterator is inside the data area as long as it has records to scan, *)
(* its block number follows its cursor, and it never counts past the       *)
(* records it set out to scan.                                             *)
TypeOK ==
  /\ data \in [Slots -> 0 .. MaxTs]
  /\ vals \in [Slots -> Values \cup {0}]
  /\ hdr \in Header
  /\ pc \in {"none", "seek", "open", "scan"}
  /\ q \in Iterator
  /\ q.block = Block(q.slot)
  /\ q.scanned <= Available(q.hdr)
  /\ q.scanned < Available(q.hdr) => q.slot \in Slots
  /\ status \in {"running", "ended", "failed"}

(* Positions of the records in the window, among all when the query began. *)
Matching == {k \in DOMAIN view : InWindow(q.start, q.end, view[k].ts)}

(* A query returns exactly the records of its window, each once and in     *)
(* order.  What it has returned are the first of them, with their values,  *)
(* and all of them once tsdb_query_next says there are no more without     *)
(* having met an unreadable block.  The binary seek skips none, the early  *)
(* exit on end_time drops none, and holes and failed probes only cost      *)
(* time.                                                                   *)
QueryExact ==
  /\ \A i \in DOMAIN out :
       /\ out[i].pos \in Matching
       /\ out[i].ts = view[out[i].pos].ts
       /\ out[i].val = view[out[i].pos].val
  /\ \A i, j \in DOMAIN out : i < j => out[i].pos < out[j].pos
  /\ \A k \in Matching :
       (\E i \in DOMAIN out : k <= out[i].pos) \/ status = "ended"
         => \E i \in DOMAIN out : out[i].pos = k

(* Minimum, maximum, first, last and count of a completed pass are exactly *)
(* those of the records in the window.                                     *)
AggregatesTrue ==
  status = "ended" =>
    /\ Result(acc, "COUNT") = Cardinality(Matching)
    /\ \A k \in Matching : Result(acc, "MIN") <= view[k].val /\ view[k].val <= Result(acc, "MAX")
    /\ Matching # {} =>
         \E min, max, first, last \in Matching :
           /\ Result(acc, "MIN") = view[min].val
           /\ Result(acc, "MAX") = view[max].val
           /\ Result(acc, "FIRST") = view[first].val
           /\ Result(acc, "LAST") = view[last].val
           /\ \A k \in Matching : first <= k /\ k <= last

(* The average of a completed pass is within less than one of the true     *)
(* mean, and between it and zero, and the sum is exact when it fits the    *)
(* result type.                                                            *)
SumsTrue ==
  status = "ended" /\ Matching # {} =>
    LET n     == Cardinality(Matching)
        total == MapThenSumSet(LAMBDA k : view[k].val, Matching)
        error == Result(acc, "AVG") * n - total
    IN  /\ error \in -(n - 1) .. (n - 1)
        /\ IF total >= 0 THEN error <= 0 ELSE error >= 0
        /\ total \in MinInt .. MaxInt => Result(acc, "SUM") = total

=============================================================================
