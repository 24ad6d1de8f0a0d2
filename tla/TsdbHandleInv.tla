--------------------------- MODULE TsdbHandleInv ----------------------------
(***************************************************************************)
(* The inductive invariants behind the properties of TsdbHandle.           *)
(*                                                                         *)
(* SharedInv holds however many tasks open, close and use the database.    *)
(* KeeperInv needs the rule the repository leaves to the application: the  *)
(* calls of tsdb_init, tsdb_close and tsdb_delete do not overlap, whichever*)
(* tasks make them.                                                        *)
(***************************************************************************)
EXTENDS TsdbHandle

(* Between the lock and the unlock of an operation or of a close. *)
Inside == {"recheck", "use", "migrate", "swap", "teardown"}

UserLabels == {"idle", "check", "capture", "lock", "recheck", "use", "migrate", "swap"}
CloseLabels == {"unpublish", "delcheck", "flag", "closelock", "republish", "teardown"}
OpenLabels == {"drop", "acquire", "take", "opening", "publish", "assign"}

(* How often task t holds the mutex of handle a: once for the call it is   *)
(* in, once for its open query.                                            *)
InCall(t, a) == pc[t] \in Inside /\ ref[t] = a
Holds(t, a) ==
  (IF InCall(t, a) THEN 1 ELSE 0) + (IF query[t] = a THEN 1 ELSE 0)

-----------------------------------------------------------------------------
(* For any number of tasks *)

(* Variables without the bound on opens, which has a part of its own. *)
Typed ==
  /\ handle \in [Handles -> Struct]
  /\ heap \subseteq Handles
  /\ parked \in Handles \cup {None}
  /\ default \in Handles \cup {None}
  /\ disk \in Nat
  /\ opens \in Nat
  /\ pc \in [Tasks -> Labels]
  /\ call \in [Tasks -> {"none", "write", "sync", "query", "migrate", "init", "close", "delete"}]
  /\ ref \in [Tasks -> Handles \cup {None}]
  /\ gen \in [Tasks -> Nat]
  /\ query \in [Tasks -> Handles \cup {None}]
  /\ seen \in [Tasks -> Nat]

(* A task's label, call and handle go together. *)
TaskInv ==
  \A t \in Tasks :
    /\ pc[t] \in {"idle", "drop", "acquire"} => ref[t] = None
    /\ pc[t] \notin {"idle", "drop", "acquire", "take", "assign"} => ref[t] \in Handles
    /\ pc[t] \in UserLabels \ {"idle"} => t \in Users /\ call[t] \in UserCalls
    /\ pc[t] \in {"migrate", "swap"} => call[t] = "migrate"
    /\ pc[t] \in CloseLabels => t \in Keepers /\ call[t] \in {"close", "delete"}
    /\ pc[t] \in OpenLabels => t \in Keepers /\ call[t] = "init"
    /\ pc[t] = "retire" => t \in Keepers /\ call[t] \in {"init", "close", "delete"}
    /\ pc[t] = "unlink" => t \in Keepers /\ call[t] = "delete"
    /\ t \in Keepers => query[t] = None
    /\ query[t] # None /\ pc[t] # "idle" => call[t] # "query"

(* Nobody has a pointer to a struct that was never given out. *)
HeapInv ==
  \A a \in heap :
    /\ handle[a] = FreshStruct
    /\ a \notin {parked, default}
    /\ \A t \in Tasks : a \notin {ref[t], query[t]}

(* The mutex's owner and depth are exactly what the tasks took and did not *)
(* give back yet.                                                          *)
LockInv ==
  \A a \in Handles :
    /\ handle[a].owner = None => handle[a].depth = 0
    /\ handle[a].owner # None => handle[a].depth > 0
    /\ \A t \in Tasks :
         Holds(t, a) = IF handle[a].owner = t THEN handle[a].depth ELSE 0

(* Tasks that passed tsdb_init's first test and did not count yet. *)
Pending == {t \in Keepers : pc[t] \in {"drop", "acquire", "take"}}
OpensInv == opens + Cardinality(Pending) \in 0 .. MaxOpens + Cardinality(Keepers)

SharedInv ==
  /\ Typed
  /\ TaskInv
  /\ HeapInv
  /\ LockInv
  /\ OpensInv
  /\ ClosingHasCloser
  /\ MigratingHasMigrator

-----------------------------------------------------------------------------
(* With opens, closes and deletes that do not overlap *)

KeepersTakeTurns ==
  \A s, t \in Keepers : pc[s] # "idle" /\ pc[t] # "idle" => s = t

(* The open handle is the published one, or the one in the hands of the    *)
(* task that is opening or closing it.                                     *)
OpenInv ==
  \A a \in Handles : handle[a].isOpen =>
    /\ handle[a].file = disk
    /\ \/ default = a
       \/ \E k \in Keepers : ref[k] = a /\ pc[k] \in CloseLabels \cup {"assign"}

(* The parked handle is closed and in nobody's hands. *)
ParkedInv ==
  parked # None =>
    /\ ~handle[parked].isOpen
    /\ default # parked
    /\ \A k \in Keepers :
         pc[k] \in CloseLabels \cup {"retire", "opening", "publish", "assign"} => ref[k] # parked

(* What the task that is opening or closing knows. *)
BusyInv ==
  \A k \in Keepers :
    /\ pc[k] = "unpublish" => default = ref[k]
    /\ pc[k] \notin {"idle", "unpublish", "drop"} => default = None
    /\ pc[k] = "drop" /\ default # None => ~handle[default].isOpen
    /\ pc[k] = "take" => ref[k] = parked
    /\ pc[k] = "publish" => handle[ref[k]].file = disk

(* Whoever uses a handle uses an open one, of the generation it captured,  *)
(* unless it has closed the file of its own query.                         *)
Works(t, a) == Operating(t, a) \/ (query[t] = a /\ ~handle[a].dangling)
UseInv ==
  /\ \A t \in Tasks, a \in Handles : Works(t, a) => handle[a].isOpen
  /\ \A t \in Tasks : At(t, "swap") /\ query[t] = ref[t] => handle[ref[t]].dangling
  /\ StragglersBail

KeeperInv == OpenInv /\ ParkedInv /\ BusyInv /\ UseInv

=============================================================================
