------------------------------- MODULE RingLog ------------------------------
(***************************************************************************)
(* What the engine promises about the records that survive a power cut:    *)
(* a bounded log, oldest record first.  Power cuts are steps that change   *)
(* nothing here.                                                           *)
(*                                                                         *)
(* A record enters a full log in two durable steps.  It first takes the    *)
(* place of the oldest one (the block is written before the header), then  *)
(* the log turns and the newcomer becomes the newest.  In between the log  *)
(* is out of order at its first position and nowhere else.                 *)
(***************************************************************************)
EXTENDS Integers, Sequences

CONSTANTS
  Cap,      \* a natural number: records the log holds, 0 = no bound
  Records   \* a set of positive numbers: timestamps records may carry

VARIABLE log

NewerThanAll(r, s) == \A i \in DOMAIN s : r > s[i]

Full == Cap > 0 /\ Len(log) = Cap

Init == log = << >>

(* A record joins a log that has room. *)
Append1(r) ==
  /\ ~Full
  /\ NewerThanAll(r, log)
  /\ log' = Append(log, r)

(* The block of a new record overwrites the oldest one. *)
Displace(r) ==
  /\ Full
  /\ NewerThanAll(r, log)
  /\ log' = [log EXCEPT ![1] = r]

(* The header that makes the displacing record the newest is on disk. *)
Turn ==
  /\ Full
  /\ NewerThanAll(Head(log), Tail(log))
  /\ log' = Append(Tail(log), Head(log))

(* The database is deleted or cleared. *)
Reset == log' = << >>

Next == Turn \/ Reset \/ \E r \in Records : Append1(r) \/ Displace(r)

Spec == Init /\ [][Next]_log

=============================================================================
