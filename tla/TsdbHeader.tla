----------------------------- MODULE TsdbHeader -----------------------------
(***************************************************************************)
(* The header of a database file (tsdb_header_t) and the arithmetic the    *)
(* engine does on it: ring slots, how many records can be read back, the   *)
(* sanity check of tsdb_open and the reconstruction from data blocks.      *)
(*                                                                         *)
(* A record is abstracted to its timestamp, a positive number; 0 is the    *)
(* timestamp of a slot that was never written.  The geometry fields        *)
(* (num_params, record size, index layout) are constant while a database   *)
(* is open and are left out; names and values play no part here.           *)
(***************************************************************************)
EXTENDS Integers, FiniteSets

CONSTANTS
  MaxSlots    \* record slots the data area can hold in the model

ASSUME MaxSlotsAssumption == MaxSlots \in Nat \ {0}

Slots == 0 .. (MaxSlots - 1)

Header == [max       : Nat,     \* max_records, 0 = unlimited
           total     : Nat,     \* total_records, ever written
           oldest    : Nat,     \* oldest_record_idx
           evictions : Nat,     \* total_evictions
           oldestTs  : Nat,     \* oldest_timestamp
           newestTs  : Nat]     \* newest_timestamp

(* The header of a database with no records and capacity m. *)
EmptyHeader(m) == [max |-> m, total |-> 0, oldest |-> 0, evictions |-> 0,
                   oldestTs |-> 0, newestTs |-> 0]

(* Fault: oldest_record_idx is not reset. *)
ClearedKeepingOldest(h) == [EmptyHeader(h.max) EXCEPT !.oldest = h.oldest]

(* tsdb_clear_h's reset of the counters: everything but the capacity. *)
Cleared(h) == EmptyHeader(h.max)

-----------------------------------------------------------------------------
(* Ring arithmetic *)

Unlimited(h) == h.max = 0

(* The slot the next record goes to. *)
RecordIdx(h) == IF Unlimited(h) THEN h.total ELSE h.total % h.max

(* The next write overwrites a record that is still readable. *)
IsEviction(h) == ~Unlimited(h) /\ h.total >= h.max

(* Fault: oldest_record_idx is not wrapped. *)
EvictedWithoutWrap(h) ==
  IF IsEviction(h) THEN [h EXCEPT !.evictions = @ + 1, !.oldest = @ + 1] ELSE h

(* What an eviction does to the header before the block is written. *)
Evicted(h) ==
  IF IsEviction(h)
    THEN [h EXCEPT !.evictions = @ + 1, !.oldest = (@ + 1) % h.max]
    ELSE h

(* Records that can be read back. *)
Available(h) ==
  IF Unlimited(h) \/ h.total < h.max THEN h.total ELSE h.max

(* The slot of the i-th oldest readable record, i counted from 0. *)
PhysicalIdx(h, i) == IF Unlimited(h) THEN i ELSE (h.oldest + i) % h.max

(* The records a reader of header h sees in data area d, oldest first. *)
Walk(h, d) == [i \in 1 .. Available(h) |-> d[PhysicalIdx(h, i - 1)]]

Elements(s) == {s[i] : i \in DOMAIN s}

(* Fault: one record too few. *)
CappedOneShort(h) == [h EXCEPT !.max = h.total - 1]

(* Shrinking the capacity to what has been written. *)
Capped(h) == [h EXCEPT !.max = h.total]

(* Fault: the eviction is forgotten. *)
AdvancedKeepingOldest(h, ts, d) ==
  [h EXCEPT !.total = @ + 1, !.newestTs = ts, !.oldestTs = IF h.total = 0 THEN ts ELSE @]

(* Fault: the oldest timestamp is read where the ring used to start. *)
AdvancedReadingOldSlot(h, ts, d) ==
  [Evicted(h) EXCEPT !.total    = @ + 1,
                     !.newestTs = ts,
                     !.oldestTs = IF IsEviction(h) THEN d[h.oldest]
                                  ELSE IF h.total = 0 THEN ts ELSE @]

(* The header after record ts reached data area d: the counters, and the   *)
(* oldest timestamp re-read from the slot that is now the oldest.          *)
Advanced(h, ts, d) ==
  LET e == Evicted(h) IN
  [e EXCEPT !.total    = @ + 1,
            !.newestTs = ts,
            !.oldestTs = IF IsEviction(h) THEN d[e.oldest]
                         ELSE IF h.total = 0 THEN ts ELSE @]

-----------------------------------------------------------------------------
(* What tsdb_open makes of a header *)

(* tsdb_header_is_sane, as far as the fields modelled here go. *)
Sane(h) == ~(h.max > 0 /\ h.total > h.max * 2)

(* Fault: the last record found is not counted. *)
ReconstructedOneShort(d, configMax) ==
  LET Used  == {s \in Slots : d[s] # 0}
      First == CHOOSE s \in Used : \A x \in Used : d[s] <= d[x]
      Last  == CHOOSE s \in Used : \A x \in Used : d[s] >= d[x]
  IN  IF Used = {} THEN EmptyHeader(configMax)
      ELSE [EmptyHeader(configMax) EXCEPT
              !.total = Cardinality(Used) - 1, !.oldest = First,
              !.oldestTs = d[First], !.newestTs = d[Last]]

(* tsdb_reconstruct_header: the counters rebuilt from the timestamps found *)
(* in the data blocks, the capacity taken from the configuration.          *)
Reconstructed(d, configMax) ==
  LET Used  == {s \in Slots : d[s] # 0}
      n     == Cardinality(Used)
      First == CHOOSE s \in Used : \A x \in Used : d[s] <= d[x]
      Last  == CHOOSE s \in Used : \A x \in Used : d[s] >= d[x]
  IN  IF Used = {} THEN EmptyHeader(configMax)
      ELSE [max       |-> configMax,
            total     |-> n,
            oldest    |-> First,
            evictions |-> IF n > configMax THEN n - configMax ELSE 0,
            oldestTs  |-> d[First],
            newestTs  |-> d[Last]]

-----------------------------------------------------------------------------
(* What a header says about the data area, for the proofs *)

(* A header whose records are inside the data area, and whose oldest one   *)
(* is in the slot that is overwritten next.                                *)
RingHeader(h) ==
  /\ h \in Header
  /\ h.max <= MaxSlots
  /\ Unlimited(h) => h.total <= MaxSlots
  /\ h.oldest = IF IsEviction(h) THEN h.total % h.max ELSE 0

(* The slot of the k-th record, k counted from 1. *)
SlotAt(h, k) == PhysicalIdx(h, k - 1)

=============================================================================
