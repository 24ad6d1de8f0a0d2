------------------------------ MODULE AlterLog ------------------------------
(***************************************************************************)
(* What schema changes and resizes promise about the contents that survive *)
(* a power cut: a bounded table of named columns.  Every change of columns *)
(* or capacity is one indivisible step that carries the values of a column *)
(* over by its name and drops a record only for want of capacity, oldest   *)
(* first; a clear drops all.  The values of the soft columns, those in the *)
(* overflow region, are kept at best: a record may be stored without some  *)
(* of them, and a power cut may cost the youngest record its own until the *)
(* next record or change.  Otherwise power cuts change nothing.            *)
(*                                                                         *)
(* The value an application stores in column c is represented by c itself: *)
(* all that matters is that it is never found under another name.          *)
(***************************************************************************)
EXTENDS Integers, Sequences

CONSTANTS
  Names,      \* column names
  Zero,       \* the value of a column that a record was written without
  Times,      \* timestamps records may carry
  Capacities, \* capacities a table may have, 0 = no bound
  Empty       \* the table of a new database

VARIABLE table  \* its capacity max, its columns cols, soft ones of them, its
                \* records rows, and late: the youngest can still lose values

(* The youngest records of s that capacity m has room for. *)
Youngest(s, m) ==
  IF m = 0 \/ Len(s) <= m THEN s ELSE SubSeq(s, Len(s) - m + 1, Len(s))

Init == table = Empty

(* Record r without its values in columns lost. *)
Without(r, lost) == [r EXCEPT !.val = [c \in DOMAIN @ |-> IF c \in lost THEN Zero ELSE @[c]]]

(* A record with a value for every column that is not soft, younger than   *)
(* those before.                                                           *)
Record(old, new) ==
  \E t \in Times, lost \in SUBSET old.soft, late \in BOOLEAN :
    /\ \A i \in DOMAIN old.rows : old.rows[i].ts < t
    /\ new = [old EXCEPT
         !.late = late,
         !.rows = Youngest(Append(@, Without([ts |-> t, val |-> [c \in old.cols |-> c]], lost)),
                           old.max)]

(* The youngest record is safe from now on, with or without its soft       *)
(* values.                                                                 *)
Settle(old, new) ==
  /\ old.late
  /\ \E lost \in SUBSET old.soft :
       new = [old EXCEPT !.late = FALSE, !.rows[Len(old.rows)] = Without(@, lost)]

(* Record r under columns cols. *)
Renamed(r, cols) ==
  [r EXCEPT !.val = [c \in cols |-> IF c \in DOMAIN r.val THEN r.val[c] ELSE Zero]]

(* Any columns and any capacity, the records that fit under those columns. *)
Alter(old, new) ==
  \E kept \in {Youngest(old.rows, new.max)} :
    /\ new.cols \in SUBSET Names
    /\ new.soft \in SUBSET new.cols
    /\ ~new.late
    /\ new.max \in Capacities
    /\ new.rows = [i \in DOMAIN kept |-> Renamed(kept[i], new.cols)]

(* All records at once. *)
Erase(old, new) == new = [old EXCEPT !.rows = << >>, !.late = FALSE]

Next ==
  \E old \in {table}, new \in {table'} :
    Record(old, new) \/ Settle(old, new) \/ Alter(old, new) \/ Erase(old, new)

Spec == Init /\ [][Next]_table

=============================================================================
