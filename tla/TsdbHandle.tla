----------------------------- MODULE TsdbHandle -----------------------------
(***************************************************************************)
(* Several tasks share one database through the global API: the recursive  *)
(* mutex of a handle, the re-check after it was taken, the recycler that   *)
(* parks closed handles, and the published pointer g_default_handle.       *)
(*                                                                         *)
(* What an operation does once it holds the mutex is the subject of        *)
(* TsdbStore, TsdbSchema and TsdbQuery; here it is one state, "use", in    *)
(* which a task touches the file and the buffers of its handle, or, for a  *)
(* migration, "migrate" and "swap" after it.  Each read or write of a      *)
(* field that is shared without the mutex is a step of its own.            *)
(*                                                                         *)
(* The mutex is FreeRTOS's: it has an owner and a depth, and a task that   *)
(* waits for one held by another task may time out.                        *)
(***************************************************************************)
EXTENDS Integers, FiniteSets

CONSTANTS
  Users,        \* tasks that write, sync, query and migrate
  Openers,      \* tasks that call tsdb_init
  Closers,      \* tasks that call tsdb_close
  Deleters,     \* tasks that call tsdb_delete
  UserCalls,    \* subset of {"write", "sync", "query", "migrate"}
  Handles,      \* handle structs the heap has room for
  Env,          \* subset of {"timeout", "openfail", "reopenfail", "swapfail"}
  MaxOpens,     \* bound: times tsdb_init gets as far as opening
  None          \* NULL, and the owner of a free mutex

Keepers == Openers \cup Closers \cup Deleters

ASSUME HandleAssumption ==
  /\ Users \cap Keepers = {}
  /\ IsFiniteSet(Keepers)
  /\ None \notin Users \cup Keepers \cup Handles
  /\ UserCalls \subseteq {"write", "sync", "query", "migrate"}
  /\ Env \subseteq {"timeout", "openfail", "reopenfail", "swapfail"}
  /\ MaxOpens \in Nat

Tasks == Users \cup Keepers

VARIABLES
  handle,    \* the handle structs
  heap,      \* structs calloc has not given out yet
  parked,    \* s_recycled_handle
  default,   \* g_default_handle
  disk,      \* the file at the path: 0 = none, otherwise which one
  opens,     \* opens so far
  pc,        \* per task, where it is in its call
  call,      \* per task, the call
  ref,       \* per task, the handle pointer it works with
  gen,       \* per task, the generation it captured
  query,     \* per task, the handle its open query holds
  seen       \* history: incarnation the task's is_open test looked at

shared == <<handle, heap, parked, default, disk, opens>>
local == <<pc, call, ref, gen, query, seen>>
vars == <<shared, local>>

-----------------------------------------------------------------------------
(* State *)

Struct == [isOpen    : BOOLEAN,            \* is_open
           closing   : BOOLEAN,            \* closing
           migrating : BOOLEAN,            \* migrating
           gen       : Nat,                \* generation
           owner     : Tasks \cup {None},  \* mutex holder
           depth     : Nat,                \* mutex recursion count
           file      : Nat,                \* which file db->file refers to
           dangling  : BOOLEAN,            \* history: a query open on it has
                                           \* a FILE that was closed since
           inc       : Nat]                \* history: the open that made it

(* calloc, and a mutex nobody holds. *)
FreshStruct == [isOpen |-> FALSE, closing |-> FALSE, migrating |-> FALSE, gen |-> 0,
                owner |-> None, depth |-> 0, file |-> 0, dangling |-> FALSE, inc |-> 0]

At(t, label) == pc[t] = label
Goto(t, label) == pc' = [pc EXCEPT ![t] = label]

(* The call is over; a query keeps its handle in query[t]. *)
Return(t) ==
  /\ Goto(t, "idle")
  /\ ref' = [ref EXCEPT ![t] = None]
  /\ call' = [call EXCEPT ![t] = "none"]

(* tsdb_lock and tsdb_unlock on handle struct x. *)
Free(x, t) == x.owner \in {None, t}
Locked(x, t) == [x EXCEPT !.owner = t, !.depth = @ + 1]

(* Fault: a plain give, which forgets the recursion count. *)
UnlockedAtOnce(x) == [x EXCEPT !.depth = 0, !.owner = None]

Unlocked(x) ==
  [x EXCEPT !.depth = @ - 1, !.owner = IF x.depth = 1 THEN None ELSE @]

(* fclose(db->file) on struct x of handle a; query->file is a copy of it. *)
FileClosed(a, x) == [x EXCEPT !.dangling = \E t \in Tasks : query[t] = a]

Set(a, x) == handle' = [handle EXCEPT ![a] = x]

-----------------------------------------------------------------------------
(* Operations on a handle: tsdb_write_h, tsdb_sync_h, tsdb_query_init_h,   *)
(* tsdb_migrate_schema_h                                                   *)

(* The wrapper loads g_default_handle; with no handle the call returns at  *)
(* once.  A task with an open query may write, sync and migrate: the mutex *)
(* is recursive.  Bound of the model: a task has one iterator at a time.   *)
LoadDefault(t, c) ==
  /\ At(t, "idle")
  /\ default # None
  /\ c = "query" => query[t] = None
  /\ call' = [call EXCEPT ![t] = c]
  /\ ref' = [ref EXCEPT ![t] = default]
  /\ Goto(t, "check")
  /\ UNCHANGED <<shared, gen, query, seen>>

(* The tests before the lock; a sync and a migration look at is_open only. *)
PreCheck(t) ==
  LET x == handle[ref[t]] IN
  /\ At(t, "check")
  /\ IF x.isOpen /\ (x.closing \/ x.migrating => call[t] \in {"sync", "migrate"})
       THEN Goto(t, "capture") /\ UNCHANGED <<ref, call>>
       ELSE Return(t)
  /\ seen' = [seen EXCEPT ![t] = x.inc]
  /\ UNCHANGED <<shared, gen, query>>

(* TSDB_LOCK_OPEN_OR_RETURN, in its three steps. *)
CaptureGeneration(t) ==
  /\ At(t, "capture")
  /\ gen' = [gen EXCEPT ![t] = handle[ref[t]].gen]
  /\ Goto(t, "lock")
  /\ UNCHANGED <<shared, call, ref, query, seen>>

TakeLock(t) ==
  /\ At(t, "lock")
  /\ Free(handle[ref[t]], t)
  /\ Set(ref[t], Locked(handle[ref[t]], t))
  /\ Goto(t, "recheck")
  /\ UNCHANGED <<heap, parked, default, disk, opens, call, ref, gen, query, seen>>

LockTimeout(t) ==
  /\ At(t, "lock")
  /\ "timeout" \in Env
  /\ ~Free(handle[ref[t]], t)
  /\ Return(t)
  /\ UNCHANGED <<shared, gen, query, seen>>

(* With the mutex held: go on if the handle is good, else leave it as      *)
(* given and return.                                                       *)
RecheckThen(t, good, left) ==
  /\ At(t, "recheck")
  /\ IF good
       THEN /\ IF call[t] = "query"
                 THEN Return(t) /\ query' = [query EXCEPT ![t] = ref[t]]
                 ELSE Goto(t, "use") /\ UNCHANGED <<ref, call, query>>
            /\ UNCHANGED handle
       ELSE /\ Set(ref[t], left)
            /\ Return(t)
            /\ UNCHANGED query
  /\ UNCHANGED <<heap, parked, default, disk, opens, gen, seen>>

(* Faults: is_open alone is tested; a straggler returns with the mutex. *)
RecheckOpenOnly(t) ==
  RecheckThen(t, handle[ref[t]].isOpen, Unlocked(handle[ref[t]]))
RecheckKeepingLock(t) ==
  LET x == handle[ref[t]] IN
  RecheckThen(t, x.isOpen /\ x.gen = gen[t], x)

Recheck(t) ==
  LET x == handle[ref[t]] IN
  RecheckThen(t, x.isOpen /\ x.gen = gen[t], Unlocked(x))

(* The operation itself, then the unlock; a migration that has nothing to  *)
(* do or no room ends here.  tsdb_sync_h closes its file and opens it      *)
(* again; when it cannot, it leaves the handle closed, and published.      *)
UseAndUnlock(t) ==
  LET x == Unlocked(handle[ref[t]]) IN
  /\ At(t, "use")
  /\ \/ call[t] # "sync" /\ Set(ref[t], x)
     \/ call[t] = "sync" /\ Set(ref[t], FileClosed(ref[t], x))
     \/ /\ call[t] = "sync"
        /\ "reopenfail" \in Env
        /\ Set(ref[t], [FileClosed(ref[t], x) EXCEPT !.isOpen = FALSE])
  /\ Return(t)
  /\ UNCHANGED <<heap, parked, default, disk, opens, gen, query, seen>>

(* tsdb_migrate_engine turns new writers and queries away, ... *)
StartMigration(t) ==
  /\ At(t, "use")
  /\ call[t] = "migrate"
  /\ Set(ref[t], [handle[ref[t]] EXCEPT !.migrating = TRUE])
  /\ Goto(t, "migrate")
  /\ UNCHANGED <<heap, parked, default, disk, opens, call, ref, gen, query, seen>>

(* ... gives up with the original in place, or closes and unlinks it, ... *)
LeaveOriginal(t) ==
  /\ At(t, "migrate")
  /\ \/ /\ Set(ref[t], [Unlocked(handle[ref[t]]) EXCEPT !.migrating = FALSE])
        /\ Return(t)
        /\ UNCHANGED disk
     \/ /\ Set(ref[t], [FileClosed(ref[t], handle[ref[t]]) EXCEPT !.file = 0])
        /\ disk' = 0
        /\ Goto(t, "swap")
        /\ UNCHANGED <<ref, call>>
  /\ UNCHANGED <<heap, parked, default, opens, gen, query, seen>>

(* ... and moves the copy in its place.  A failing rename leaves no file   *)
(* at the path, a failing fopen one that is not open; either way the       *)
(* handle ends up closed, and published.                                   *)
SwapThen(t, migrating) ==
  LET x == [Unlocked(handle[ref[t]]) EXCEPT !.migrating = migrating] IN
  /\ At(t, "swap")
  /\ \/ /\ disk' = x.inc
        /\ Set(ref[t], [x EXCEPT !.file = x.inc, !.migrating = FALSE])
     \/ /\ "swapfail" \in Env
        /\ disk' \in {0, x.inc}
        /\ Set(ref[t], [x EXCEPT !.isOpen = FALSE])
  /\ Return(t)
  /\ UNCHANGED <<heap, parked, default, opens, gen, query, seen>>

(* Fault: a failed swap leaves the flag set. *)
SwapMigrating(t) == SwapThen(t, TRUE)

Swap(t) == SwapThen(t, FALSE)

(* Fault: the iterator is not wiped. *)
QueryCloseKeeping(t) ==
  /\ At(t, "idle")
  /\ query[t] # None
  /\ Set(query[t], Unlocked(handle[query[t]]))
  /\ UNCHANGED <<heap, parked, default, disk, opens, local>>

(* tsdb_query_close releases what tsdb_query_init_h took. *)
QueryClose(t) ==
  /\ At(t, "idle")
  /\ query[t] # None
  /\ Set(query[t], [Unlocked(handle[query[t]]) EXCEPT !.dangling = FALSE])
  /\ query' = [query EXCEPT ![t] = None]
  /\ UNCHANGED <<heap, parked, default, disk, opens, pc, call, ref, gen, seen>>

-----------------------------------------------------------------------------
(* tsdb_close and tsdb_delete *)

LoadToClose(t, c) ==
  /\ At(t, "idle")
  /\ default # None
  /\ call' = [call EXCEPT ![t] = c]
  /\ ref' = [ref EXCEPT ![t] = default]
  /\ Goto(t, "unpublish")
  /\ UNCHANGED <<shared, gen, query, seen>>

Unpublish(t) ==
  /\ At(t, "unpublish")
  /\ default' = None
  /\ Goto(t, IF call[t] = "delete" THEN "delcheck" ELSE "flag")
  /\ UNCHANGED <<handle, heap, parked, disk, opens, call, ref, gen, query, seen>>

(* tsdb_delete_h refuses a handle that is not open. *)
DeleteCheck(t) ==
  /\ At(t, "delcheck")
  /\ IF handle[ref[t]].isOpen THEN Goto(t, "flag") /\ UNCHANGED <<ref, call>> ELSE Return(t)
  /\ UNCHANGED <<shared, gen, query, seen>>

SetClosing(t) ==
  /\ At(t, "flag")
  /\ Set(ref[t], [handle[ref[t]] EXCEPT !.closing = TRUE])
  /\ Goto(t, "closelock")
  /\ UNCHANGED <<heap, parked, default, disk, opens, call, ref, gen, query, seen>>

CloseLock(t) ==
  /\ At(t, "closelock")
  /\ Free(handle[ref[t]], t)
  /\ Set(ref[t], Locked(handle[ref[t]], t))
  /\ Goto(t, "teardown")
  /\ UNCHANGED <<heap, parked, default, disk, opens, call, ref, gen, query, seen>>

(* tsdb_close_h gives up on the mutex. *)
CloseTimeoutThen(t, closing, label) ==
  /\ At(t, "closelock")
  /\ "timeout" \in Env
  /\ ~Free(handle[ref[t]], t)
  /\ Set(ref[t], [handle[ref[t]] EXCEPT !.closing = closing])
  /\ Goto(t, label)
  /\ UNCHANGED <<heap, parked, default, disk, opens, call, ref, gen, query, seen>>

(* Faults: the handle is retired all the same; closing stays set; the      *)
(* handle is not published again; the file is unlinked all the same.       *)
CloseTimeoutRetiring(t) == CloseTimeoutThen(t, FALSE, "retire")
CloseTimeoutClosing(t) == CloseTimeoutThen(t, TRUE, "republish")
CloseTimeoutHidden(t) == CloseTimeoutThen(t, FALSE, "idle")
CloseTimeoutUnlinking(t) ==
  CloseTimeoutThen(t, FALSE, IF call[t] = "delete" THEN "unlink" ELSE "republish")

CloseTimeout(t) == CloseTimeoutThen(t, FALSE, "republish")

Republish(t) ==
  /\ At(t, "republish")
  /\ default' = ref[t]
  /\ Return(t)
  /\ UNCHANGED <<handle, heap, parked, disk, opens, gen, query, seen>>

(* Fold, fclose and free if the handle is open, nothing of it otherwise;   *)
(* then the unlock.                                                        *)
Teardown(t) ==
  LET x == Unlocked(handle[ref[t]]) IN
  /\ At(t, "teardown")
  /\ Set(ref[t], [(IF x.isOpen THEN [FileClosed(ref[t], x) EXCEPT !.file = 0] ELSE x)
                    EXCEPT !.isOpen = FALSE, !.closing = FALSE])
  /\ Goto(t, "retire")
  /\ UNCHANGED <<heap, parked, default, disk, opens, call, ref, gen, query, seen>>

(* tsdb_retire_handle; an occupied slot leaks the struct. *)
Retire(t) ==
  /\ At(t, "retire")
  /\ parked' = IF parked = None THEN ref[t] ELSE parked
  /\ CASE call[t] = "init"   -> Goto(t, "assign") /\ ref' = [ref EXCEPT ![t] = None] /\ UNCHANGED call
       [] call[t] = "delete" -> Goto(t, "unlink") /\ UNCHANGED <<ref, call>>
       [] call[t] = "close"  -> Return(t)
  /\ UNCHANGED <<handle, heap, default, disk, opens, gen, query, seen>>

Unlink(t) ==
  /\ At(t, "unlink")
  /\ disk' = 0
  /\ Return(t)
  /\ UNCHANGED <<handle, heap, parked, default, opens, gen, query, seen>>

-----------------------------------------------------------------------------
(* tsdb_init and the handle part of tsdb_open *)

InitCheck(t) ==
  /\ At(t, "idle")
  /\ opens < MaxOpens
  /\ default # None => ~handle[default].isOpen
  /\ call' = [call EXCEPT ![t] = "init"]
  /\ Goto(t, "drop")
  /\ UNCHANGED <<shared, ref, gen, query, seen>>

(* A closed handle that is still published is only forgotten. *)
DropStale(t) ==
  /\ At(t, "drop")
  /\ default' = None
  /\ Goto(t, "acquire")
  /\ UNCHANGED <<handle, heap, parked, disk, opens, call, ref, gen, query, seen>>

(* tsdb_acquire_handle reads the slot, ... *)
AcquireRead(t) ==
  /\ At(t, "acquire")
  /\ ref' = [ref EXCEPT ![t] = parked]
  /\ Goto(t, "take")
  /\ UNCHANGED <<shared, call, gen, query, seen>>

(* ... and empties it, wiping all but the mutex and the generation; with   *)
(* no handle parked it allocates one, if it can.                           *)
AcquireTake(t) ==
  /\ At(t, "take")
  /\ \/ /\ ref[t] # None
        /\ parked' = None
        /\ Set(ref[t], [handle[ref[t]] EXCEPT !.isOpen = FALSE, !.closing = FALSE,
                                              !.migrating = FALSE,
                                              !.gen = @ + 1, !.file = 0,
                                              !.inc = opens + 1])
        /\ Goto(t, "opening")
        /\ UNCHANGED <<heap, ref>>
     \/ /\ ref[t] = None
        /\ \E a \in heap :
             /\ heap' = heap \ {a}
             /\ ref' = [ref EXCEPT ![t] = a]
             /\ Set(a, [FreshStruct EXCEPT !.inc = opens + 1])
        /\ Goto(t, "opening")
        /\ UNCHANGED parked
     \/ /\ ref[t] = None
        /\ heap = {}
        /\ Goto(t, "assign")
        /\ UNCHANGED <<handle, heap, parked, ref>>
  /\ opens' = opens + 1
  /\ UNCHANGED <<default, disk, call, gen, query, seen>>

(* The file is opened, or created; a failure retires the handle. *)
OpenFile(t) ==
  /\ At(t, "opening")
  /\ \/ /\ disk' = IF disk = 0 THEN handle[ref[t]].inc ELSE disk
        /\ Set(ref[t], [handle[ref[t]] EXCEPT !.file = disk'])
        /\ Goto(t, "publish")
     \/ /\ "openfail" \in Env
        /\ Goto(t, "retire")
        /\ UNCHANGED <<disk, handle>>
  /\ UNCHANGED <<heap, parked, default, opens, call, ref, gen, query, seen>>

(* is_open is set under the mutex, which a straggler may hold briefly. *)
PublishOpen(t) ==
  /\ At(t, "publish")
  /\ Free(handle[ref[t]], t)
  /\ Set(ref[t], [handle[ref[t]] EXCEPT !.isOpen = TRUE])
  /\ Goto(t, "assign")
  /\ UNCHANGED <<heap, parked, default, disk, opens, call, ref, gen, query, seen>>

AssignDefault(t) ==
  /\ At(t, "assign")
  /\ default' = ref[t]
  /\ Return(t)
  /\ UNCHANGED <<handle, heap, parked, disk, opens, gen, query, seen>>

-----------------------------------------------------------------------------
(* Specification *)

Init ==
  /\ handle = [a \in Handles |-> FreshStruct]
  /\ heap = Handles
  /\ parked = None
  /\ default = None
  /\ disk = 0
  /\ opens = 0
  /\ pc = [t \in Tasks |-> "idle"]
  /\ call = [t \in Tasks |-> "none"]
  /\ ref = [t \in Tasks |-> None]
  /\ gen = [t \in Tasks |-> 0]
  /\ query = [t \in Tasks |-> None]
  /\ seen = [t \in Tasks |-> 0]

(* What the application decides to do. *)
Call(t) ==
  \/ t \in Users /\ \E c \in UserCalls : LoadDefault(t, c)
  \/ t \in Openers /\ InitCheck(t)
  \/ t \in Closers /\ LoadToClose(t, "close")
  \/ t \in Deleters /\ LoadToClose(t, "delete")

(* A step of a call that was made. *)
Step(t) ==
  \/ PreCheck(t) \/ CaptureGeneration(t) \/ TakeLock(t) \/ LockTimeout(t)
  \/ Recheck(t) \/ UseAndUnlock(t)
  \/ StartMigration(t) \/ LeaveOriginal(t) \/ Swap(t)
  \/ Unpublish(t) \/ DeleteCheck(t) \/ SetClosing(t) \/ CloseLock(t)
  \/ CloseTimeout(t) \/ Republish(t) \/ Teardown(t) \/ Retire(t) \/ Unlink(t)
  \/ DropStale(t) \/ AcquireRead(t) \/ AcquireTake(t) \/ OpenFile(t)
  \/ PublishOpen(t) \/ AssignDefault(t)

Next == \E t \in Tasks : Call(t) \/ Step(t) \/ QueryClose(t)

Spec == Init /\ [][Next]_vars

(* Tasks are scheduled, and every query that was opened is closed: the     *)
(* contract tsdb_query_init_h states.                                      *)
FairSpec == Spec /\ \A t \in Tasks : WF_vars(Step(t)) /\ WF_vars(QueryClose(t))

-----------------------------------------------------------------------------
(* Properties *)

Labels == {"idle", "check", "capture", "lock", "recheck", "use", "migrate", "swap", "unpublish",
           "delcheck", "flag", "closelock", "republish", "teardown", "retire",
           "unlink", "drop", "acquire", "take", "opening", "publish", "assign"}

(* Handle structs, recycler, global pointer and the tasks' locals keep     *)
(* their types; the recursion count never goes below zero.                 *)
TypeOK ==
  /\ handle \in [Handles -> Struct]
  /\ heap \subseteq Handles
  /\ parked \in Handles \cup {None}
  /\ default \in Handles \cup {None}
  /\ disk \in Nat
  /\ opens \in 0 .. MaxOpens + Cardinality(Keepers)
  /\ pc \in [Tasks -> Labels]
  /\ call \in [Tasks -> {"none", "write", "sync", "query", "migrate", "init", "close", "delete"}]
  /\ ref \in [Tasks -> Handles \cup {None}]
  /\ gen \in [Tasks -> Nat]
  /\ query \in [Tasks -> Handles \cup {None}]
  /\ seen \in [Tasks -> Nat]

(* Task t is inside an operation on handle a, or has a query open on it. *)
Operating(t, a) == pc[t] \in {"use", "migrate", "swap"} /\ ref[t] = a
Using(t, a) == Operating(t, a) \/ query[t] = a

(* A task inside an operation, or between tsdb_query_init_h and            *)
(* tsdb_query_close, alone holds its handle, and the handle is open on the *)
(* very file that is at the path: no close, reopen or delete gets in       *)
(* between.  Under its own query a task can take the file away, with a     *)
(* sync or a migration; then a query may be left on a closed handle.       *)
UseIsExclusive ==
  \A t \in Tasks, a \in Handles :
     Using(t, a) => /\ handle[a].owner = t
                    /\ \A u \in Tasks \ {t} : ~Using(u, a)
                    /\ Operating(t, a) \/ ~handle[a].dangling =>
                         handle[a].isOpen /\ handle[a].file = disk

(* The FILE that tsdb_query_next reads from, which tsdb_query_init_h took  *)
(* from the handle, is never closed by another task than the query's own.  *)
QueryKeepsFile ==
  [][\A t \in Tasks, a \in Handles :
       query[t] = a /\ ~handle[a].dangling /\ handle'[a].dangling => pc'[t] # pc[t]]_vars

(* A straggler that captured a generation and then blocked across a close  *)
(* and a reopen gives up (CHANGELOG 2.3.0): whoever gets as far as the     *)
(* operation is in the incarnation it captured.                            *)
StragglersBail ==
  \A t \in Tasks : pc[t] = "use" => handle[ref[t]].gen = gen[t]

(* TSDB_LOCK_OPEN_OR_RETURN's comment: no stale writer gets its record     *)
(* into a freshly opened database.  The incarnation a writer ends up in is *)
(* the one its is_open test looked at.                                     *)
NoStaleWrite ==
  \A t \in Tasks : pc[t] = "use" => handle[ref[t]].inc = seen[t]

(* A parked handle belongs to the recycler alone: it is closed, nobody is  *)
(* opening it, and the next tsdb_open may wipe it.                         *)
ParkedIsFree ==
  parked # None =>
    /\ ~handle[parked].isOpen
    /\ default # parked
    /\ \A t \in Tasks : pc[t] \in {"opening", "publish", "assign"} => ref[t] # parked

(* closing, which turns writers and queriers away, is never left set: it   *)
(* always has a tsdb_close_h that is going to clear it.                    *)
ClosingHasCloser ==
  \A a \in Handles : handle[a].closing =>
     \E t \in Tasks : pc[t] \in {"closelock", "teardown"} /\ ref[t] = a

(* migrating turns writers and queriers away too.  However a migration     *)
(* ends, and whatever becomes of its handle, the flag is set only while    *)
(* its migrator runs: on a recycled handle it would block the next owner.  *)
MigratingHasMigrator ==
  \A a \in Handles : handle[a].migrating =>
     \E t \in Tasks : pc[t] \in {"migrate", "swap"} /\ ref[t] = a

(* tsdb_close: a close that times out leaves the database open and         *)
(* published.  An open handle can always be reached, through               *)
(* g_default_handle or by the task that is opening or closing it.          *)
OpenIsReachable ==
  \A a \in Handles : handle[a].isOpen =>
     \/ default = a
     \/ \E t \in Keepers : ref[t] = a /\ pc[t] # "idle"

(* "You cannot have more than one default handle open at a time", and the  *)
(* open one refers to the file at the path: tsdb_delete does not unlink    *)
(* underneath an open handle.                                              *)
OneOpenFile ==
  /\ \A a, b \in Handles : handle[a].isOpen /\ handle[b].isOpen => a = b
  /\ \A a \in Handles : handle[a].isOpen => handle[a].file = disk

(* Every call returns: no task waits forever, in particular tsdb_open does *)
(* not, whose wait for the mutex of a recycled handle has no useful        *)
(* timeout.                                                                *)
CallsReturn == \A t \in Tasks : (pc[t] # "idle") ~> (pc[t] = "idle")

=============================================================================
