---------------------------- MODULE TsdbStoreInv ----------------------------
(***************************************************************************)
(* The inductive invariants behind the theorems about TsdbStore.           *)
(***************************************************************************)
EXTENDS TsdbStoreProps

-----------------------------------------------------------------------------
(* Types *)

(* A header whose ring, or whose unlimited log, fits the data area. *)
HdrOK(h) ==
  /\ h \in Header
  /\ h.max <= MaxSlots
  /\ h.max = 0 => h.total <= MaxSlots

(* TypeOK is not inductive: the oldest timestamp is read from a slot that  *)
(* has to exist.                                                           *)
TypeInv ==
  /\ TypeOK
  /\ \A s \in Slots : data[s] <= clock
  /\ rec <= clock
  /\ HdrOK(file.hdr)
  /\ HdrOK(db.hdr)
  /\ \A n \in {0, 1} : HdrOK(side[n].hdr) /\ HdrOK(legacy[n].hdr)
  /\ pc = "block" /\ Unlimited(db.hdr) => db.hdr.total < MaxSlots
  /\ pc = "cap" => db.hdr.max > 0

-----------------------------------------------------------------------------
(* Durability *)

(* Under these bounds and faults tsdb_write_h and tsdb_fold_header lose    *)
(* nothing.  Excluded: more than two laps of the ring, a TSH1 slot that    *)
(* cannot be written, a block write that fails on a reused slot, and a     *)
(* tsdb_clear_h whose header is not written.                               *)
TolerableFaults ==
  /\ MaxLaps <= 2
  /\ "mirrorfail" \notin Env
  /\ "evictfail" \notin Env
  /\ "clear" \in Ops => "foldfail" \notin Env

(* The valid slots of both kinds. *)
Valid(sd, lg) == {x \in {sd[0], sd[1], lg[0], lg[1]} : x.ok}

(* Header h is what the disk says: in the file or in a slot, and every     *)
(* other header there is older.                                            *)
OnTop(h, inFile, sd, lg) ==
  /\ inFile.total <= h.total
  /\ \A x \in Valid(sd, lg) : x.hdr.total < h.total \/ x.hdr = h
  /\ inFile = h \/ \E x \in Valid(sd, lg) : x.hdr = h

(* The slots tell one story, whatever power cut left them: a younger slot  *)
(* describes more records, slots of the same age the same header, and a    *)
(* TSH2 slot is younger than every mirror but those made after it.         *)
SlotsAgree(sd, lg) ==
  /\ \A x, y \in Valid(sd, lg) : x.seq < y.seq => x.hdr.total < y.hdr.total
  /\ \A x, y \in Valid(sd, lg) : x.seq = y.seq => x.hdr = y.hdr
  /\ \A m, n \in {0, 1} : sd[m].ok /\ lg[n].ok =>
        lg[n].seq <= sd[m].legacy \/ lg[n].seq >= sd[m].seq
  /\ \A m \in {0, 1} : sd[m].ok => sd[m].legacy < sd[m].seq
  /\ \A m \in {0, 1} : sd[m].ok /\ ~Found(lg) => sd[m].legacy = 0

(* Every header on disk passes tsdb_header_is_sane. *)
SaneDisk ==
  /\ file.state = "ready" => Sane(file.hdr)
  /\ \A x \in Valid(side, legacy) : Sane(x.hdr)

Writing == {"cap", "block", "side", "sidebody", "mirror", "mirrorbody"}

(* The handle belongs to a file that has a header. *)
HandleLive ==
  \/ pc \in Writing \cup {"idle", "fold", "reopen"}
  \/ pc = "remove" /\ op # "create"

(* The operation in progress and the step it is at. *)
ControlInv ==
  /\ pc = "fold" => op \in {"close", "sync", "clear", "delete"}
  /\ pc = "remove" => op # "none"
  /\ pc = "initial" => op = "create"
  /\ pc \in Writing \cup {"closed", "idle"} => op = "none"
  /\ pc = "reopen" => op = "sync"
  /\ pc = "unlink" => op = "delete"
  /\ op = "clear" => "clear" \in Ops
  /\ HandleLive => file.state = "ready" /\ Sane(db.hdr)

(* The sequence numbers the handle has are those of the newest slots. *)
NumbersInv ==
  HandleLive =>
    /\ \A x \in Valid(side, legacy) : x.seq <= db.seq
    /\ db.lseq <= db.seq
    /\ pc # "remove" =>
         /\ \A n \in {0, 1} : legacy[n].ok => legacy[n].seq <= db.lseq
         /\ ~Found(legacy) => db.lseq = 0
    /\ pc \notin {"remove", "mirrorbody"} /\ Found(legacy) => legacy[db.leg].ok

(* How far tsdb_write_h has got: the header in RAM runs ahead of the disk  *)
(* until a slot has it.  A growing write that can still fail has changed   *)
(* nothing yet.                                                            *)
WriteInv ==
  /\ pc \in Writing => file.hdr.total <= db.hdr.total
  /\ pc \in {"cap", "block"} =>
       /\ \A x \in Valid(side, legacy) : x.hdr.total <= db.hdr.total
       /\ db.hdr.max > 0 => db.hdr.total < 2 * db.hdr.max
  /\ pc = "cap" => IsEviction(db.hdr)
  /\ pc = "block" /\ ~IsEviction(db.hdr) => OnTop(db.hdr, file.hdr, side, legacy)
  /\ pc \in {"side", "sidebody"} =>
       \A x \in Valid(side, legacy) : x.hdr.total < db.hdr.total
  /\ pc = "sidebody" =>
       /\ \A x \in Valid(side, legacy) : x.seq < db.seq
       /\ db.lseq < db.seq
  /\ pc \in {"mirror", "mirrorbody"} =>
       /\ \A x \in Valid(side, legacy) :
             \/ x.seq < db.seq /\ x.hdr.total < db.hdr.total
             \/ x.seq = db.seq /\ x.hdr = db.hdr
       /\ db.lseq < db.seq

(* tsdb_sidecar_remove: what it has unlinked is gone, and the header it is *)
(* making superfluous is in the file.  A new file starts from no slots.    *)
RemoveInv ==
  /\ pc = "remove" =>
       /\ gone > 0 => ~side[0].ok
       /\ gone > 1 => ~side[1].ok
       /\ gone > 2 => ~legacy[0].ok
       /\ gone > 3 => ~legacy[1].ok
       /\ op # "create" => file.hdr = db.hdr
  /\ pc = "initial" => ~Found(side) /\ ~Found(legacy)
  /\ op = "create" => db = NewHandle(EmptyHeader(ConfigMax))

DurableInv ==
  /\ ControlInv
  /\ SaneDisk
  /\ SlotsAgree(side, legacy)
  /\ NumbersInv
  /\ WriteInv
  /\ RemoveInv
  /\ Settled => OnTop(db.hdr, file.hdr, side, legacy)
=============================================================================
