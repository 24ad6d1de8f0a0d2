----------------------------- MODULE TsdbSidecar ----------------------------
(***************************************************************************)
(* The sidecar slots that hold the header between two folds: two compact   *)
(* TSH2 slots (<db>.d/h0, h1), written for every record, and two TSH1      *)
(* slots (<db>.h0, .h1), written every LegacyEvery records as a mirror for *)
(* older readers.  A slot whose file is missing, torn, or fails its magic  *)
(* or CRC check is one that is not ok: tsdb_sidecar_load skips all of them *)
(* alike.                                                                  *)
(***************************************************************************)
EXTENDS TsdbHeader

CONSTANTS
  LegacyEvery  \* TSDB_SIDECAR_LEGACY_EVERY

ASSUME LegacyEveryAssumption == LegacyEvery \in Nat \ {0}

(* legacy is s2.legacy_seq, the mirror the writer of this slot knew about; *)
(* a TSH1 slot has none and carries 0.                                     *)
Slot == [ok : BOOLEAN, seq : Nat, legacy : Nat, hdr : Header]

NoSlot == [ok |-> FALSE, seq |-> 0, legacy |-> 0, hdr |-> EmptyHeader(0)]

NoSlots == [n \in {0, 1} |-> NoSlot]

ValidSlot(seq, legacy, hdr) ==
  [ok |-> TRUE, seq |-> seq, legacy |-> legacy, hdr |-> hdr]

(* Faults: a slot that does not exist; always the same slot. *)
OtherUnbounded(n) == n + 1
OtherSame(n) == n

(* Alternation: slot ^= 1. *)
Other(n) == 1 - n

-----------------------------------------------------------------------------
(* tsdb_sidecar_load *)

Found(slots) == slots[0].ok \/ slots[1].ok

(* Slot 1 wins only when it is the only valid one or has the larger seq. *)
Newest(slots) ==
  IF slots[1].ok /\ (slots[0].ok => slots[1].seq > slots[0].seq) THEN 1 ELSE 0

NewestSeq(slots) == IF Found(slots) THEN slots[Newest(slots)].seq ELSE 0

(* Fault: a mirror as old as the one TSH2 knew about already wins. *)
UseCompactStrict(side, legacy) ==
  /\ Found(side)
  /\ IF Found(legacy)
       THEN NewestSeq(legacy) < side[Newest(side)].legacy
       ELSE side[Newest(side)].legacy = 0

(* Which kind of slot is authoritative.  TSH2, unless a TSH1 slot is newer *)
(* than the mirror it knew about, or that mirror is gone.                  *)
UseCompact(side, legacy) ==
  /\ Found(side)
  /\ IF Found(legacy)
       THEN NewestSeq(legacy) <= side[Newest(side)].legacy
       ELSE side[Newest(side)].legacy = 0

LoadFound(side, legacy) == UseCompact(side, legacy) \/ Found(legacy)

LoadedHeader(side, legacy) ==
  IF UseCompact(side, legacy) THEN side[Newest(side)].hdr
                              ELSE legacy[Newest(legacy)].hdr

(* Fault: the TSH1 slots are not looked at. *)
LoadedSeqCompactOnly(side, legacy) == NewestSeq(side)

(* The sequence number later sidecar writes continue from. *)
LoadedSeq(side, legacy) ==
  IF NewestSeq(side) > NewestSeq(legacy) THEN NewestSeq(side)
                                         ELSE NewestSeq(legacy)

(* tsdb_open's use of the loaded header: it replaces the in-file header    *)
(* when it is sane and describes at least as many records.                 *)
Adopts(inFile, side, legacy) ==
  /\ LoadFound(side, legacy)
  /\ Sane(LoadedHeader(side, legacy))
  /\ LoadedHeader(side, legacy).total >= inFile.total

(* tsdb_sidecar_write also refreshes the mirror when the compact slot      *)
(* failed, when this open has not mirrored yet, and every LegacyEvery      *)
(* records.                                                                *)
MirrorDue(compactOk, mirrored, seq, legacySeq) ==
  ~compactOk \/ ~mirrored \/ seq - legacySeq >= LegacyEvery

=============================================================================
