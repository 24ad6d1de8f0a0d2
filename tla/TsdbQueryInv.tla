---------------------------- MODULE TsdbQueryInv ----------------------------
(***************************************************************************)
(* The inductive invariants behind the theorems about TsdbQuery.           *)
(***************************************************************************)
EXTENDS TsdbQuery

-----------------------------------------------------------------------------
(* The cursor *)

(* The cursor is on the slot of the record it is to look at next. *)
CursorInv ==
  /\ RingHeader(q.hdr)
  /\ q.scanned <= Available(q.hdr)
  /\ q.scanned < Available(q.hdr) => q.slot = PhysicalIdx(q.hdr, q.scanned)
  /\ q.block = Block(q.slot)
  /\ seek \in [lo : Nat, hi : Nat]
  /\ pc = "seek" => seek.lo <= seek.hi /\ seek.hi <= Available(q.hdr)

(* TypeOK is not inductive: that a slot exists follows from the header. *)
CellInv ==
  /\ TypeOK
  /\ RingHeader(hdr)
  /\ hdr.newestTs <= MaxTs
  /\ CursorInv

-----------------------------------------------------------------------------
(* Order *)

(* Timestamps do not decrease along the ring, holes aside. *)
OrderInv ==
  /\ \A s \in Slots : data[s] <= hdr.newestTs
  /\ \A i, j \in 1 .. Available(hdr) :
       LET t == data[SlotAt(hdr, i)]
           u == data[SlotAt(hdr, j)]
       IN  i < j /\ t # 0 /\ u # 0 => t <= u

(* While a query is open the database still has the records it had when    *)
(* the query began, in the same slots.                                     *)
ViewInv ==
  /\ DOMAIN view = 1 .. Available(q.hdr)
  /\ pc # "none" =>
       /\ q.hdr.max = hdr.max
       /\ q.hdr.total <= hdr.total
       /\ \A i, j \in DOMAIN view :
            i < j /\ view[i].ts # 0 /\ view[j].ts # 0 => view[i].ts <= view[j].ts
       /\ \A k \in DOMAIN view :
            /\ view[k].ts = data[SlotAt(q.hdr, k)]
            /\ view[k].val = vals[SlotAt(q.hdr, k)]

(* The block buffer holds the records of its block as they were. *)
BufferInv ==
  q.loaded =>
    \A k \in DOMAIN view : Block(SlotAt(q.hdr, k)) = q.block =>
      /\ q.ts[SlotAt(q.hdr, k)] = view[k].ts
      /\ q.val[SlotAt(q.hdr, k)] = view[k].val

-----------------------------------------------------------------------------
(* What has been returned *)

(* The bisection has passed over no record of the window. *)
SeekInv ==
  pc = "seek" =>
    /\ ~q.loaded
    /\ out = << >>
    /\ status = "running"
    /\ \A k \in Matching : k > seek.lo

(* The records of the window up to the cursor have been returned. *)
ScanInv ==
  /\ out \in Seq([pos : Nat, ts : Nat, val : Values \cup {0}])
  /\ \A i \in DOMAIN out :
       /\ out[i].pos \in Matching
       /\ out[i].pos <= q.scanned
       /\ out[i].ts = view[out[i].pos].ts
       /\ out[i].val = view[out[i].pos].val
  /\ \A i, j \in DOMAIN out : i < j => out[i].pos < out[j].pos
  /\ pc # "seek" => \A k \in Matching :
       k <= q.scanned => \E i \in DOMAIN out : out[i].pos = k
  /\ status = "ended" => \A k \in Matching : k <= q.scanned

WindowInv == OrderInv /\ ViewInv /\ BufferInv /\ SeekInv /\ ScanInv

-----------------------------------------------------------------------------
(* The accumulators follow what has been returned *)

AccInv ==
  /\ acc.count = Len(out)
  /\ \A i \in DOMAIN out : acc.min <= out[i].val /\ out[i].val <= acc.max
  /\ out # << >> =>
       /\ \E i \in DOMAIN out : acc.min = out[i].val
       /\ \E i \in DOMAIN out : acc.max = out[i].val
       /\ acc.first = out[1].val
       /\ acc.last = out[Len(out)].val
  /\ out = << >> => acc = NoRecords
=============================================================================
