---------------------------- MODULE TsdbRingInv -----------------------------
(***************************************************************************)
(* The inductive invariants behind the theorems about the ring of records: *)
(* first the headers, then the data area under the header a power cut      *)
(* would leave.                                                            *)
(***************************************************************************)
EXTENDS TsdbStoreInv

-----------------------------------------------------------------------------
(* Headers *)

(* Under these bounds and faults the counters of a header agree.           *)
(* Excluded: more than two laps of the ring, after which tsdb_open rebuilds *)
(* the header, and a block write that fails on a reused slot, after which  *)
(* oldest_record_idx has moved alone.                                      *)
CountersMove ==
  /\ MaxLaps <= 2
  /\ "evictfail" \notin Env

Aligned(h) ==
  /\ IsEviction(h) => h.oldest = RecordIdx(h)
  /\ ~IsEviction(h) => h.oldest = 0
  /\ h.evictions = h.total - Available(h)

WellFormed(h) == Sane(h) /\ Aligned(h)

(* Every header, in RAM or on disk, valid or not, is well formed, and a    *)
(* record about to be written does not start a third lap.                  *)
RingInv ==
  /\ WellFormed(file.hdr)
  /\ WellFormed(db.hdr)
  /\ \A n \in {0, 1} : WellFormed(side[n].hdr) /\ WellFormed(legacy[n].hdr)
  /\ pc \in {"cap", "block"} /\ db.hdr.max > 0 => db.hdr.total < 2 * db.hdr.max

-----------------------------------------------------------------------------
(* Where the header of a power cut is *)

(* What TolerableFaults allows, without tsdb_clear_h, without a change of  *)
(* capacity while the database is open, and without unreadable blocks.     *)
PlainFaults ==
  /\ TolerableFaults
  /\ "clear" \notin Ops
  /\ "lowspace" \notin Env
  /\ "enospc" \notin Env
  /\ "readfail" \notin Env

PlainInv ==
  /\ file.state = "ready" => file.hdr.max = ConfigMax
  /\ \A x \in Valid(side, legacy) : x.hdr.max = ConfigMax
  /\ HandleLive \/ op = "create" => db.hdr.max = ConfigMax
  /\ op = "create" => file.state = "empty"
  /\ op # "clear"
  /\ pc # "cap"

(* Header h is in the file or in one of the slots x and y. *)
Rests(h, x, y) ==
  \/ file.hdr = h
  \/ x.ok /\ x.hdr = h
  \/ y.ok /\ y.hdr = h

Putting == {"side", "sidebody", "mirror", "mirrorbody"}

(* Between two writes the disk has the header of the handle, and not only  *)
(* in the slots tsdb_sidecar_write takes next.  While it writes, the disk  *)
(* has that header or the one before it, again out of its way.             *)
HomeInv ==
  /\ HandleLive /\ pc \notin Putting =>
       Recovered = db.hdr /\ Rests(db.hdr, side[db.side], legacy[db.leg])
  /\ pc \in {"mirror", "mirrorbody"} /\ Recovered.total = db.hdr.total =>
       Recovered = db.hdr /\ side[db.side].ok /\ side[db.side].hdr = db.hdr
  /\ pc \in Putting =>
       \/ pc \in {"mirror", "mirrorbody"} /\ Recovered.total = db.hdr.total
       \/ /\ Recovered.total = db.hdr.total - 1
          /\ Rests(Recovered,
                   side[IF pc = "side" THEN db.side ELSE Other(db.side)],
                   legacy[IF pc = "mirrorbody" THEN Other(db.leg) ELSE db.leg])

-----------------------------------------------------------------------------
(* The records under that header *)

(* The slot of the k-th record ever written, for the two laps allowed. *)
SlotOf(k) == IF ConfigMax = 0 \/ k < ConfigMax THEN k ELSE k - ConfigMax

(* After n records: the ring is full, the records still in it, and those   *)
(* of them the next write leaves alone.                                    *)
FullAt(n) == ConfigMax > 0 /\ n >= ConfigMax
Start(n) == IF FullAt(n) THEN n - ConfigMax ELSE 0
Window(n) == Start(n) .. (n - 1)
Body(n) == (IF FullAt(n) THEN Start(n) + 1 ELSE 0) .. (n - 1)

(* The k-th record in data area d. *)
At(d, k) == d[SlotOf(k)]

Sorted(d, K) == \A k, l \in K : k < l => At(d, k) < At(d, l)

(* With the records a acknowledged and those up to low dropped, the log of *)
(* n records is in order but for the slot that the next write takes.  What *)
(* is there is either the oldest record or one that a power cut kept from  *)
(* being acknowledged.                                                     *)
OrderInv(d, a, low, n) ==
  /\ Sorted(d, Body(n))
  /\ \A k \in Window(n) : At(d, k) > low
  /\ FullAt(n) => \A k \in Body(n) :
       /\ At(d, Start(n)) # At(d, k)
       /\ At(d, Start(n)) \in a => At(d, Start(n)) < At(d, k)

(* An acknowledged record is in the log, or older than all that is there. *)
KeptInv(d, a, n) ==
  \A t \in a : \/ \E k \in Window(n) : At(d, k) = t
               \/ FullAt(n) /\ \A k \in Window(n) : t < At(d, k)

(* A record being written is younger than everything there is. *)
ClockInv ==
  /\ \A t \in acked : t <= clock
  /\ floor <= clock
  /\ pc \in {"block"} \cup Putting =>
       /\ rec = clock
       /\ floor < rec
       /\ \A t \in acked : t < rec
  /\ pc = "block" => \A s \in Slots : data[s] < rec

(* Once a write of this open is in its block, the log is in order. *)
HealedInv ==
  /\ pc \in Putting =>
       /\ db.hdr.total > 0
       /\ At(data, db.hdr.total - 1) = rec
       /\ Sorted(data, Window(db.hdr.total))
  /\ HandleLive /\ db.stale => Sorted(data, Window(db.hdr.total))

LogInv ==
  /\ OrderInv(data, acked, floor, Recovered.total)
  /\ KeptInv(data, acked, Recovered.total)
  /\ ClockInv
  /\ HealedInv

-----------------------------------------------------------------------------
(* The records under the header of the handle *)

(* Under these faults the header in RAM and the data area never disagree.  *)
(* Excluded besides what TolerableFaults excludes: power cuts, and blocks  *)
(* that cannot be read.                                                    *)
CalmFaults ==
  /\ TolerableFaults
  /\ "crash" \notin Env
  /\ "readfail" \notin Env

(* Header h shows the newest of the records a in data area d: in order,    *)
(* and what it does not show is older and was evicted.  Its timestamps are *)
(* those of the first and the last.                                        *)
Shows(h, d, a) ==
  /\ \A i, j \in 1 .. Available(h) : i < j => d[SlotAt(h, i)] < d[SlotAt(h, j)]
  /\ \A i \in 1 .. Available(h) : d[SlotAt(h, i)] \in a
  /\ \A t \in a : \/ \E i \in 1 .. Available(h) : d[SlotAt(h, i)] = t
                  \/ IsEviction(h) /\ \A i \in 1 .. Available(h) : t < d[SlotAt(h, i)]
  /\ h.total > 0 => h.oldestTs = d[SlotAt(h, 1)] /\ h.newestTs = d[SlotAt(h, Available(h))]

(* The records there are for the engine: a record counts once its block is *)
(* written, and none does once tsdb_clear_h has reset the counters.        *)
Counted ==
  IF op = "clear" THEN {} ELSE IF pc \in Putting THEN acked \cup {rec} ELSE acked

(* The handle shows these records, and so will the one of the next open.   *)
CalmInv ==
  /\ HandleLive => Shows(db.hdr, data, Counted)
  /\ pc \in {"closed", "unlink"} => Shows(Recovered, data, acked)
  /\ file.state # "ready" => acked = {}
  /\ op = "create" => file.state = "empty"
  /\ \A t \in acked : t <= clock
  /\ pc \in {"cap", "block"} =>
       /\ \A t \in acked : t < rec
       /\ \A s \in Slots : data[s] < rec
=============================================================================
