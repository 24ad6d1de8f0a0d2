----------------------------- MODULE TsdbLayout -----------------------------
(***************************************************************************)
(* The conversion of a version 2 file inside tsdb_open.  Version 2 placed  *)
(* the columns of a block at fixed offsets, version 3 places them by       *)
(* records_per_block; blocks are rewritten one by one, in place, under the *)
(* version number 99.  A file whose header says 99 is given up.            *)
(*                                                                         *)
(* A block is its layout: "none" (never written), "V2", "V3", or "mixed"   *)
(* when it was written or converted under the wrong one.                   *)
(*                                                                         *)
(* Only databases with more than 38 records per block are rewritten.  What *)
(* version 2 did to the others is not in this repository.                  *)
(***************************************************************************)
EXTENDS Naturals, TLAPS

CONSTANTS
  NumBlocks,  \* total_blocks
  Env         \* what may go wrong

(* allocfail: no memory for two blocks.  unreadable: a block cannot be     *)
(* read.  insane: the header cannot be read or fails tsdb_header_is_sane,  *)
(* as that of a ring past two laps does.  sentinelfail, blockfail,         *)
(* stampfail: the version 99, a rewritten block or the version 3 does not  *)
(* reach the file, which the code does not notice.                         *)
AllEnv == {"allocfail", "unreadable", "insane", "sentinelfail", "blockfail", "stampfail"}

VARIABLES
  version,  \* version in the header of the file
  ram,      \* db->header.version
  blocks,   \* layout of every block, as a reader of the file finds it
  dirty,    \* blocks rewritten since the last fsync
  next,     \* the block to convert next
  pc        \* "closed", "convert", "stamp" or "open"

vars == <<version, ram, blocks, dirty, next, pc>>

Blocks == 0 .. NumBlocks - 1
Layouts == {"none", "V2", "V3", "mixed"}

(* An empty block is skipped; any other is taken for version 2. *)
Converted(layout) ==
  CASE layout = "none" -> "none"
    [] layout = "V2"   -> "V3"
    [] OTHER           -> "mixed"

(* tsdb_write_h uses the offsets of version 3. *)
Written(layout) == IF layout \in {"none", "V3"} THEN "V3" ELSE "mixed"

(* The blocks as they are if these never reached the file. *)
Without(lost) == [n \in Blocks |-> IF n \in lost THEN "V2" ELSE blocks[n]]

(* The power is cut while the database is in use or being converted; some  *)
(* of the blocks that were not synced are as they were.                    *)
Crash ==
  /\ pc # "closed"
  /\ \E lost \in SUBSET dirty : blocks' = Without(lost)
  /\ dirty' = {}
  /\ next' = 0
  /\ pc' = "closed"
  /\ UNCHANGED <<version, ram>>

-----------------------------------------------------------------------------
(* tsdb_open *)

(* A conversion was cut short: the file is unlinked and created anew. *)
OpenTorn ==
  /\ pc = "closed"
  /\ version = 99
  /\ version' = 3
  /\ ram' = 3
  /\ blocks' = [n \in Blocks |-> "none"]
  /\ pc' = "open"
  /\ UNCHANGED <<dirty, next>>

(* The header is not believed: it is rebuilt from the blocks, with the     *)
(* current version whatever their layout is.                               *)
OpenRebuilt ==
  /\ pc = "closed"
  /\ "insane" \in Env
  /\ version' = 3
  /\ ram' = 3
  /\ pc' = "open"
  /\ UNCHANGED <<blocks, dirty, next>>

OpenCurrent ==
  /\ pc = "closed"
  /\ version = 3
  /\ ram' = 3
  /\ pc' = "open"
  /\ UNCHANGED <<version, blocks, dirty, next>>

(* The header gets the version 99; whether it was written is not looked    *)
(* at.  Without memory for two blocks the database is opened as it is.     *)
OpenOld ==
  /\ pc = "closed"
  /\ version = 2
  /\ \/ version' = 99 /\ ram' = 99 /\ pc' = "convert"
     \/ "sentinelfail" \in Env /\ ram' = 99 /\ pc' = "convert" /\ UNCHANGED version
     \/ "allocfail" \in Env /\ ram' = 2 /\ pc' = "open" /\ UNCHANGED version
  /\ UNCHANGED <<blocks, dirty, next>>

(* One turn of the loop.  A block that cannot be read is left as it is,    *)
(* and so is, unnoticed, one that cannot be written.                       *)
ConvertBlock ==
  /\ pc = "convert"
  /\ next < NumBlocks
  /\ \/ /\ blocks' = [blocks EXCEPT ![next] = Converted(@)]
        /\ dirty' = IF blocks[next] = "none" THEN dirty ELSE dirty \cup {next}
     \/ Env \cap {"unreadable", "blockfail"} # {} /\ UNCHANGED <<blocks, dirty>>
  /\ next' = next + 1
  /\ UNCHANGED <<version, ram, pc>>

(* fflush and fsync, whose results are not looked at either, ... *)
SyncBlocks ==
  /\ pc = "convert"
  /\ next = NumBlocks
  /\ \E lost \in IF "blockfail" \in Env THEN SUBSET dirty ELSE {{}} : blocks' = Without(lost)
  /\ dirty' = {}
  /\ next' = 0
  /\ pc' = "stamp"
  /\ UNCHANGED <<version, ram>>

(* ... and only then the version. *)
Stamp ==
  /\ pc = "stamp"
  /\ \/ version' = 3
     \/ "stampfail" \in Env /\ UNCHANGED version
  /\ ram' = 3
  /\ pc' = "open"
  /\ UNCHANGED <<blocks, dirty, next>>

-----------------------------------------------------------------------------
(* The database in use; TsdbStore has the details. *)

Write(n) ==
  /\ pc = "open"
  /\ blocks' = [blocks EXCEPT ![n] = Written(@)]
  /\ UNCHANGED <<version, ram, dirty, next, pc>>

(* tsdb_fold_header, for a sync, a clear or a resize. *)
Fold ==
  /\ pc = "open"
  /\ version' = ram
  /\ UNCHANGED <<ram, blocks, dirty, next, pc>>

(* With or without a header to fold. *)
Close ==
  /\ pc = "open"
  /\ version' \in {version, ram}
  /\ pc' = "closed"
  /\ UNCHANGED <<ram, blocks, dirty, next>>

(* A file some older firmware left behind. *)
Init ==
  /\ version = 2
  /\ ram = 2
  /\ blocks \in [Blocks -> {"none", "V2"}]
  /\ dirty = {}
  /\ next = 0
  /\ pc = "closed"

Next ==
  \/ OpenTorn \/ OpenRebuilt \/ OpenCurrent \/ OpenOld
  \/ ConvertBlock \/ SyncBlocks \/ Stamp
  \/ \E n \in Blocks : Write(n)
  \/ Fold \/ Close \/ Crash

Spec == Init /\ [][Next]_vars

-----------------------------------------------------------------------------
(* Properties *)

AllIn(layouts) == \A n \in Blocks : blocks[n] \in layouts

(* An open database has no block of another layout than the one            *)
(* tsdb_query_next and tsdb_write_h take it for, and a conversion is only  *)
(* ever started on a file whose blocks are all of version 2, wherever the  *)
(* power was cut before.                                                   *)
LayoutAgrees ==
  /\ pc = "open" => AllIn({"none", "V3"})
  /\ pc = "closed" /\ version = 2 => AllIn({"none", "V2"})

(* The header is believed, and the conversion gets its memory, reads every *)
(* block, and has its version 99 and its blocks written.  Its version 3    *)
(* may get lost.                                                           *)
ConversionRuns == NumBlocks \in Nat /\ Env \cap AllEnv \subseteq {"stampfail"}

(* The inductive invariant: the version in the file never promises a       *)
(* layout that some block does not have.  While blocks are rewritten, and  *)
(* after that until a version 3 has been written, it is 99, which promises *)
(* nothing.                                                                *)
LayoutInv ==
  /\ blocks \in [Blocks -> Layouts]
  /\ dirty \subseteq Blocks
  /\ next \in Nat
  /\ version \in {2, 3, 99}
  /\ ram \in {2, 3, 99}
  /\ pc \in {"closed", "convert", "stamp", "open"}
  /\ version = 3 => AllIn({"none", "V3"}) /\ pc \in {"closed", "open"}
  /\ version = 2 => AllIn({"none", "V2"}) /\ pc = "closed"
  /\ pc = "open" => version # 2 /\ ram = 3 /\ AllIn({"none", "V3"})
  /\ pc # "convert" => dirty = {} /\ next = 0
  /\ pc = "convert" => \A n \in Blocks : blocks[n] \in IF n < next THEN {"none", "V3"} ELSE {"none", "V2"}
  /\ pc = "stamp" => AllIn({"none", "V3"})

-----------------------------------------------------------------------------
(* Proof *)

(* A file left behind by older firmware satisfies the invariant. *)
LEMMA LayoutStart == Init => LayoutInv
BY DEF Init, LayoutInv, AllIn, Layouts

(* Every step of tsdb_open, every write and every power cut keeps it. *)
LEMMA LayoutStep == ConversionRuns /\ LayoutInv /\ [Next]_vars => LayoutInv'
<1> SUFFICES ASSUME ConversionRuns, LayoutInv, [Next]_vars PROVE LayoutInv'
  OBVIOUS
<1> USE DEF ConversionRuns, AllEnv, LayoutInv, AllIn, Layouts, Blocks
<1>1. CASE OpenTorn
  BY <1>1 DEF OpenTorn
<1>2. CASE OpenRebuilt
  BY <1>2 DEF OpenRebuilt
<1>3. CASE OpenCurrent
  BY <1>3 DEF OpenCurrent
<1>4. CASE OpenOld
  BY <1>4 DEF OpenOld
<1>5. CASE ConvertBlock
  <2>1. next \in Blocks
    BY <1>5 DEF ConvertBlock
  <2>2. /\ blocks' = [blocks EXCEPT ![next] = Converted(@)]
        /\ dirty' \subseteq dirty \cup {next}
        /\ next' = next + 1
        /\ UNCHANGED <<version, ram, pc>>
    BY <1>5 DEF ConvertBlock
  <2>3. Converted(blocks[next]) \in {"none", "V3"}
    BY <1>5, <2>1 DEF ConvertBlock, Converted
  <2>4. \A n \in Blocks : blocks'[n] \in IF n < next' THEN {"none", "V3"} ELSE {"none", "V2"}
    BY <1>5, <2>1, <2>2, <2>3 DEF ConvertBlock
  <2> QED
    BY <1>5, <2>1, <2>2, <2>3, <2>4 DEF ConvertBlock
<1>6. CASE SyncBlocks
  BY <1>6 DEF SyncBlocks, Without
<1>7. CASE Stamp
  BY <1>7 DEF Stamp
<1>8. ASSUME NEW n \in Blocks, Write(n) PROVE LayoutInv'
  BY <1>8 DEF Write, Written
<1>9. CASE Fold
  BY <1>9 DEF Fold
<1>10. CASE Close
  BY <1>10 DEF Close
<1>11. CASE Crash
  <2>1. PICK lost \in SUBSET dirty : blocks' = Without(lost)
    BY <1>11 DEF Crash
  <2> USE DEF Without
  <2>2. CASE version = 99
    BY <1>11, <2>1, <2>2 DEF Crash
  <2>3. CASE version # 99
    <3>1. lost = {}
      BY <2>3
    <3> QED
      BY <1>11, <2>1, <2>3, <3>1 DEF Crash
  <2> QED
    BY <2>2, <2>3
<1>12. CASE UNCHANGED vars
  BY <1>12 DEF vars
<1> QED
  BY <1>1, <1>2, <1>3, <1>4, <1>5, <1>6, <1>7, <1>8, <1>9, <1>10, <1>11, <1>12 DEF Next

(* Wherever the power is cut, and however often, no block of an open       *)
(* database is read, written or converted under the wrong layout: the      *)
(* version 99 that tsdb_open writes before the first block and the fsync   *)
(* before the version 3 see to that, even if the version 3 itself is lost. *)
(* It is not so for a file whose header is rebuilt before the conversion,  *)
(* nor when a write goes wrong that the conversion does not check.         *)
THEOREM LayoutNeverMisread == ConversionRuns => (Spec => []LayoutAgrees)
<1> SUFFICES ASSUME ConversionRuns PROVE Spec => []LayoutAgrees
  OBVIOUS
<1>1. LayoutInv => LayoutAgrees
  BY DEF LayoutInv, LayoutAgrees
<1>2. LayoutInv /\ [Next]_vars => LayoutInv'
  BY LayoutStep
<1> QED
  BY <1>1, <1>2, LayoutStart, PTL DEF Spec

=============================================================================
