-------------------------- MODULE TsdbHandleProofs --------------------------
(***************************************************************************)
(* Proofs about TsdbHandle for any number of tasks and handles.  The       *)
(* mutex, the flags and the types are safe even when opens, closes and     *)
(* deletes overlap; everything else when they take turns.                  *)
(***************************************************************************)
EXTENDS TsdbHandleInv, FiniteSetTheorems, TLAPS

-----------------------------------------------------------------------------
(* What the handle structs look like after a step *)

(* y differs from x in its mutex only, or also in the file of a query. *)
MutexOnly(x, y) ==
  /\ y.isOpen = x.isOpen /\ y.closing = x.closing /\ y.migrating = x.migrating
  /\ y.gen = x.gen /\ y.file = x.file /\ y.inc = x.inc

SameFlags(x, y) == y.closing = x.closing /\ y.migrating = x.migrating
SameFile(x, y) == y.isOpen = x.isOpen /\ y.file = x.file
SameMutex(x, y) == y.owner = x.owner /\ y.depth = x.depth
Taken(x, y, t) == y.owner = t /\ y.depth = x.depth + 1
Given(x, y) ==
  /\ y.owner = IF x.depth = 1 THEN None ELSE x.owner
  /\ y.depth = x.depth - 1

(* tsdb_lock changes the mutex only. *)
LEMMA LockedFields ==
  ASSUME NEW x \in Struct, NEW t \in Tasks
  PROVE  /\ Locked(x, t) \in Struct
         /\ MutexOnly(x, Locked(x, t))
         /\ Locked(x, t).dangling = x.dangling
         /\ Taken(x, Locked(x, t), t)
  <1> DEFINE d == x.depth + 1
             y == [x EXCEPT !.owner = t, !.depth = d]
  <1>1. d \in Nat  BY DEF Struct
  <1>2. Locked(x, t) = y  BY Zenon DEF Locked, Struct
  <1> HIDE DEF d
  <1>3. y \in Struct /\ MutexOnly(x, y) /\ y.dangling = x.dangling /\ y.owner = t /\ y.depth = d
    BY <1>1 DEF Struct, MutexOnly
  <1>4. QED  BY Zenon, <1>2, <1>3 DEF d, Taken

(* tsdb_unlock changes the mutex only, and keeps the recursion count's     *)
(* type when it is given back by somebody who has it.                      *)
LEMMA UnlockedFields ==
  ASSUME NEW x \in Struct, x.depth > 0
  PROVE  /\ Unlocked(x) \in Struct
         /\ MutexOnly(x, Unlocked(x))
         /\ Unlocked(x).dangling = x.dangling
         /\ Given(x, Unlocked(x))
  <1> DEFINE o == IF x.depth = 1 THEN None ELSE x.owner
             d == x.depth - 1
             y == [x EXCEPT !.depth = d, !.owner = o]
  <1>1. d \in Nat /\ o \in Tasks \cup {None}  BY DEF Struct
  <1>2. Unlocked(x) = y  BY DEF Unlocked, Struct
  <1> HIDE DEF o, d
  <1>3. y \in Struct /\ MutexOnly(x, y) /\ y.dangling = x.dangling /\ y.owner = o /\ y.depth = d
    BY <1>1 DEF Struct, MutexOnly
  <1>4. QED  BY Zenon, <1>2, <1>3 DEF o, d, Given

(* The step is about handle a, which is now some y. *)
Touched(a) ==
  /\ handle' \in [Handles -> Struct]
  /\ \A b \in Handles : b # a => handle'[b] = handle[b]

LEMMA SetTouches ==
  ASSUME Typed, NEW a \in Handles, NEW x \in Struct, Set(a, x)
  PROVE  Touched(a) /\ handle'[a] = x
  BY DEF Typed, Set, Touched

(* Whoever is inside a call, or has a query open, has the mutex. *)
LEMMA InsideOwns ==
  ASSUME Typed, LockInv, NEW t \in Tasks, NEW a \in Handles,
         InCall(t, a) \/ query[t] = a
  PROVE  handle[a] \in Struct /\ handle[a].owner = t /\ handle[a].depth > 0
  <1>1. handle[a] \in Struct  BY DEF Typed
  <1>2. Holds(t, a) > 0  BY DEF Holds
  <1>3. Holds(t, a) = IF handle[a].owner = t THEN handle[a].depth ELSE 0  BY DEF LockInv
  <1>4. QED  BY <1>1, <1>2, <1>3 DEF Struct

LEMMA RefTyped ==
  ASSUME Typed, TaskInv, NEW t \in Tasks,
         pc[t] \notin {"idle", "drop", "acquire", "take", "assign"}
  PROVE  ref[t] \in Handles /\ handle[ref[t]] \in Struct
  BY DEF Typed, TaskInv

(* TakeLock and CloseLock. *)
LEMMA LockEffect ==
  ASSUME Typed, TaskInv, NEW t \in Tasks, TakeLock(t) \/ CloseLock(t)
  PROVE  LET a == ref[t] IN
         /\ Touched(a)
         /\ MutexOnly(handle[a], handle'[a])
         /\ handle'[a].dangling = handle[a].dangling
         /\ Taken(handle[a], handle'[a], t)
  <1>1. pc[t] \in {"lock", "closelock"} /\ Set(ref[t], Locked(handle[ref[t]], t))
    BY DEF TakeLock, CloseLock, At
  <1>2. ref[t] \in Handles /\ handle[ref[t]] \in Struct  BY <1>1, RefTyped
  <1>3. QED  BY <1>1, <1>2, LockedFields, SetTouches

(* What setting fields of a struct leaves alone. *)
LEMMA OpenSet ==
  ASSUME NEW x \in Struct, NEW b \in BOOLEAN, NEW y, y = [x EXCEPT !.isOpen = b]
  PROVE  /\ y \in Struct /\ SameMutex(x, y) /\ SameFlags(x, y)
         /\ y.isOpen = b /\ y.file = x.file /\ y.gen = x.gen
         /\ y.dangling = x.dangling
  BY DEF Struct, SameMutex, SameFlags

LEMMA MigratingSet ==
  ASSUME NEW x \in Struct, NEW b \in BOOLEAN, NEW y, y = [x EXCEPT !.migrating = b]
  PROVE  /\ y \in Struct /\ SameMutex(x, y) /\ SameFile(x, y)
         /\ y.migrating = b /\ y.closing = x.closing /\ y.gen = x.gen /\ y.inc = x.inc
         /\ y.dangling = x.dangling
  BY DEF Struct, SameMutex, SameFile

LEMMA ClosingSet ==
  ASSUME NEW x \in Struct, NEW b \in BOOLEAN, NEW y, y = [x EXCEPT !.closing = b]
  PROVE  /\ y \in Struct /\ SameMutex(x, y) /\ SameFile(x, y)
         /\ y.closing = b /\ y.migrating = x.migrating /\ y.gen = x.gen
         /\ y.dangling = x.dangling
  BY DEF Struct, SameMutex, SameFile

LEMMA FileSet ==
  ASSUME NEW x \in Struct, NEW n \in Nat, NEW y, y = [x EXCEPT !.file = n]
  PROVE  /\ y \in Struct /\ SameMutex(x, y) /\ SameFlags(x, y)
         /\ y.isOpen = x.isOpen /\ y.file = n /\ y.gen = x.gen
         /\ y.dangling = x.dangling
  BY DEF Struct, SameMutex, SameFlags

LEMMA DanglingSet ==
  ASSUME NEW x \in Struct, NEW b \in BOOLEAN, NEW y, y = [x EXCEPT !.dangling = b]
  PROVE  /\ y \in Struct /\ SameMutex(x, y) /\ SameFlags(x, y) /\ SameFile(x, y)
         /\ y.gen = x.gen /\ y.inc = x.inc /\ y.dangling = b
  BY DEF Struct, SameMutex, SameFlags, SameFile

(* fclose leaves a query that is open on the handle without its file. *)
LEMMA FileClosedFields ==
  ASSUME NEW a \in Handles, NEW x \in Struct
  PROVE  LET y == FileClosed(a, x) IN
         /\ y \in Struct /\ SameMutex(x, y) /\ SameFlags(x, y) /\ SameFile(x, y)
         /\ y.gen = x.gen
         /\ \A t \in Tasks : query[t] = a => y.dangling
  <1> DEFINE b == \E t \in Tasks : query[t] = a
             y == [x EXCEPT !.dangling = b]
  <1>1. b \in BOOLEAN  OBVIOUS
  <1>2. \A t \in Tasks : query[t] = a => b = TRUE  OBVIOUS
  <1> HIDE DEF b
  <1>3. /\ y \in Struct /\ SameMutex(x, y) /\ SameFlags(x, y) /\ SameFile(x, y)
        /\ y.gen = x.gen /\ y.dangling = b
    BY <1>1, DanglingSet
  <1>4. FileClosed(a, x) = y  BY Zenon DEF FileClosed, b
  <1> HIDE DEF y
  <1>5. QED  BY <1>2, <1>3, <1>4

LEMMA RecheckEffect ==
  ASSUME Typed, TaskInv, LockInv, NEW t \in Tasks, Recheck(t)
  PROVE  LET a == ref[t] IN
         \/ UNCHANGED handle
         \/ /\ Touched(a)
            /\ MutexOnly(handle[a], handle'[a])
            /\ handle'[a].dangling = handle[a].dangling
            /\ Given(handle[a], handle'[a])
  <1>1. pc[t] = "recheck" /\ (UNCHANGED handle \/ Set(ref[t], Unlocked(handle[ref[t]])))
    BY DEF Recheck, RecheckThen, At
  <1>2. ref[t] \in Handles  BY <1>1, RefTyped
  <1>3. handle[ref[t]] \in Struct /\ handle[ref[t]].depth > 0
    BY <1>1, <1>2, InsideOwns DEF InCall, Inside
  <1>4. QED  BY <1>1, <1>2, <1>3, UnlockedFields, SetTouches

LEMMA QueryCloseEffect ==
  ASSUME Typed, LockInv, NEW t \in Tasks, QueryClose(t)
  PROVE  LET a == query[t] IN
         /\ a \in Handles
         /\ Touched(a)
         /\ MutexOnly(handle[a], handle'[a])
         /\ ~handle'[a].dangling
         /\ Given(handle[a], handle'[a])
  <1> DEFINE x == handle[query[t]]
             u == Unlocked(x)
             v == [u EXCEPT !.dangling = FALSE]
  <1>1. query[t] \in Handles /\ Set(query[t], v)
    BY DEF QueryClose, Typed
  <1>2. x \in Struct /\ x.depth > 0  BY <1>1, InsideOwns
  <1>3. u \in Struct /\ MutexOnly(x, u) /\ Given(x, u)  BY <1>2, UnlockedFields
  <1>4. u.inc = x.inc  BY <1>3 DEF MutexOnly
  <1> HIDE DEF u
  <1>5. /\ v \in Struct /\ SameMutex(u, v) /\ SameFlags(u, v) /\ SameFile(u, v)
        /\ v.gen = u.gen /\ v.inc = u.inc /\ v.dangling = FALSE
    BY <1>3, DanglingSet
  <1> HIDE DEF v
  <1>6. Touched(query[t]) /\ handle'[query[t]] = v  BY <1>1, <1>5, SetTouches
  <1>7. QED  BY <1>1, <1>3, <1>5, <1>6 DEF MutexOnly, SameMutex, SameFlags, SameFile, Given

LEMMA UseEffect ==
  ASSUME Typed, TaskInv, LockInv, NEW t \in Tasks, UseAndUnlock(t)
  PROVE  LET x == handle[ref[t]]
             y == handle'[ref[t]] IN
         /\ Touched(ref[t])
         /\ Given(x, y)
         /\ SameFlags(x, y) /\ y.gen = x.gen /\ y.file = x.file
         /\ y.isOpen = x.isOpen \/ (~y.isOpen /\ (query[t] = ref[t] => y.dangling))
  <1> DEFINE x == handle[ref[t]]
             u == Unlocked(x)
             c == FileClosed(ref[t], u)
             v == [c EXCEPT !.isOpen = FALSE]
  <1>1. pc[t] = "use" /\ (Set(ref[t], u) \/ Set(ref[t], c) \/ Set(ref[t], v))
    BY DEF UseAndUnlock, At
  <1>2. ref[t] \in Handles  BY <1>1, RefTyped
  <1>3. x \in Struct /\ x.depth > 0
    BY <1>1, <1>2, InsideOwns DEF InCall, Inside
  <1>4. u \in Struct /\ MutexOnly(x, u) /\ Given(x, u)
    BY <1>3, UnlockedFields
  <1> HIDE DEF u
  <1>5. /\ c \in Struct /\ SameMutex(u, c) /\ SameFlags(u, c) /\ SameFile(u, c)
        /\ c.gen = u.gen /\ (query[t] = ref[t] => c.dangling)
    BY <1>2, <1>4, FileClosedFields
  <1> HIDE DEF c
  <1>6. /\ v \in Struct /\ ~v.isOpen /\ v.gen = c.gen /\ v.file = c.file
        /\ SameMutex(c, v) /\ SameFlags(c, v) /\ v.dangling = c.dangling
    BY <1>5, OpenSet
  <1> HIDE DEF v
  <1> USE DEF MutexOnly, SameFlags, SameFile, SameMutex, Given
  <1>7. CASE Set(ref[t], u)
    <2>1. Touched(ref[t]) /\ handle'[ref[t]] = u  BY <1>2, <1>4, <1>7, SetTouches
    <2>2. QED  BY <2>1, <1>4
  <1>8. CASE Set(ref[t], c)
    <2>1. Touched(ref[t]) /\ handle'[ref[t]] = c  BY <1>2, <1>5, <1>8, SetTouches
    <2>2. QED  BY <2>1, <1>4, <1>5
  <1>9. CASE Set(ref[t], v)
    <2>1. Touched(ref[t]) /\ handle'[ref[t]] = v  BY <1>2, <1>6, <1>9, SetTouches
    <2>2. QED  BY <2>1, <1>4, <1>5, <1>6
  <1>10. QED  BY <1>1, <1>7, <1>8, <1>9

LEMMA StartMigrationEffect ==
  ASSUME Typed, TaskInv, NEW t \in Tasks, StartMigration(t)
  PROVE  LET x == handle[ref[t]]
             y == handle'[ref[t]] IN
         /\ Touched(ref[t])
         /\ SameMutex(x, y) /\ SameFile(x, y) /\ y.gen = x.gen
         /\ y.closing = x.closing /\ y.dangling = x.dangling
  <1> DEFINE x == handle[ref[t]]
             v == [x EXCEPT !.migrating = TRUE]
  <1>1. pc[t] = "use" /\ Set(ref[t], v)  BY DEF StartMigration, At
  <1>2. ref[t] \in Handles /\ x \in Struct  BY <1>1, RefTyped
  <1>3. /\ v \in Struct /\ v.gen = x.gen /\ v.closing = x.closing
        /\ SameMutex(x, v) /\ SameFile(x, v) /\ v.dangling = x.dangling
    <2> HIDE DEF x
    <2> QED  BY <1>2, MigratingSet
  <1> HIDE DEF v
  <1>4. QED  BY <1>1, <1>2, <1>3, SetTouches

LEMMA LeaveOriginalEffect ==
  ASSUME Typed, TaskInv, LockInv, NEW t \in Tasks, LeaveOriginal(t)
  PROVE  LET x == handle[ref[t]]
             y == handle'[ref[t]] IN
         /\ Touched(ref[t])
         /\ y.isOpen = x.isOpen /\ y.gen = x.gen /\ y.closing = x.closing
         /\ \/ /\ Given(x, y) /\ y.file = x.file /\ ~y.migrating
               /\ Return(t) /\ UNCHANGED disk
            \/ /\ SameMutex(x, y) /\ y.file = 0 /\ disk' = 0
               /\ query[t] = ref[t] => y.dangling
               /\ Goto(t, "swap") /\ UNCHANGED <<ref, call>>
  <1> DEFINE x == handle[ref[t]]
             u == Unlocked(x)
             v == [u EXCEPT !.migrating = FALSE]
             c == FileClosed(ref[t], x)
             w == [c EXCEPT !.file = 0]
  <1>1. /\ pc[t] = "migrate"
        /\ \/ Set(ref[t], v) /\ Return(t) /\ UNCHANGED disk
           \/ Set(ref[t], w) /\ disk' = 0 /\ Goto(t, "swap") /\ UNCHANGED <<ref, call>>
    BY DEF LeaveOriginal, At
  <1>2. ref[t] \in Handles  BY <1>1, RefTyped
  <1>3. x \in Struct /\ x.depth > 0  BY <1>1, <1>2, InsideOwns DEF InCall, Inside
  <1>4. u \in Struct /\ MutexOnly(x, u) /\ Given(x, u)  BY <1>3, UnlockedFields
  <1>5. /\ c \in Struct /\ SameMutex(x, c) /\ SameFlags(x, c) /\ SameFile(x, c)
        /\ c.gen = x.gen /\ (query[t] = ref[t] => c.dangling)
    BY <1>2, <1>3, FileClosedFields
  <1> HIDE DEF u, c
  <1>10. /\ w \in Struct /\ SameMutex(c, w) /\ SameFlags(c, w) /\ w.file = 0
         /\ w.isOpen = c.isOpen /\ w.gen = c.gen /\ w.dangling = c.dangling
    BY <1>5, FileSet
  <1> HIDE DEF w
  <1>6. /\ v \in Struct /\ v.gen = u.gen /\ v.closing = u.closing
        /\ SameMutex(u, v) /\ SameFile(u, v) /\ ~v.migrating
    BY <1>4, MigratingSet
  <1> HIDE DEF v
  <1>7. CASE Set(ref[t], v) /\ Return(t) /\ UNCHANGED disk
    <2>1. Touched(ref[t]) /\ handle'[ref[t]] = v  BY <1>2, <1>6, <1>7, SetTouches
    <2>2. QED  BY <2>1, <1>4, <1>6, <1>7 DEF MutexOnly, SameFile, SameMutex, Given
  <1>8. CASE Set(ref[t], w) /\ disk' = 0 /\ Goto(t, "swap") /\ UNCHANGED <<ref, call>>
    <2>1. Touched(ref[t]) /\ handle'[ref[t]] = w  BY <1>2, <1>10, <1>8, SetTouches
    <2>2. QED  BY <2>1, <1>5, <1>10, <1>8 DEF SameMutex, SameFlags, SameFile
  <1>9. QED  BY <1>1, <1>7, <1>8

LEMMA SwapEffect ==
  ASSUME Typed, TaskInv, LockInv, NEW t \in Tasks, Swap(t)
  PROVE  LET x == handle[ref[t]]
             y == handle'[ref[t]] IN
         /\ Touched(ref[t])
         /\ Given(x, y) /\ y.gen = x.gen /\ y.closing = x.closing /\ ~y.migrating
         /\ (y.isOpen = x.isOpen /\ y.file = disk') \/ ~y.isOpen
         /\ y.dangling = x.dangling
         /\ disk' \in Nat
  <1> DEFINE x == handle[ref[t]]
             u == Unlocked(x)
             m == [u EXCEPT !.migrating = FALSE]
             v == [m EXCEPT !.file = m.inc, !.migrating = FALSE]
             f == [m EXCEPT !.file = m.inc]
             w == [m EXCEPT !.isOpen = FALSE]
  <1>1. /\ pc[t] = "swap"
        /\ \/ disk' = m.inc /\ Set(ref[t], v)
           \/ disk' \in {0, m.inc} /\ Set(ref[t], w)
    BY DEF Swap, SwapThen, At
  <1>2. ref[t] \in Handles  BY <1>1, RefTyped
  <1>3. x \in Struct /\ x.depth > 0  BY <1>1, <1>2, InsideOwns DEF InCall, Inside
  <1>4. u \in Struct /\ MutexOnly(x, u) /\ Given(x, u) /\ u.dangling = x.dangling  BY <1>3, UnlockedFields
  <1> HIDE DEF u
  <1>5. /\ m \in Struct /\ SameMutex(u, m) /\ SameFile(u, m)
        /\ m.migrating = FALSE /\ m.closing = u.closing /\ m.gen = u.gen /\ m.dangling = u.dangling
    BY <1>4, MigratingSet
  <1>6. m.inc \in Nat  BY <1>5 DEF Struct
  <1> HIDE DEF m
  <1>7. /\ w \in Struct /\ SameMutex(m, w) /\ SameFlags(m, w)
        /\ w.isOpen = FALSE /\ w.gen = m.gen /\ w.dangling = m.dangling
    BY <1>5, OpenSet
  <1>8. /\ f \in Struct /\ SameMutex(m, f) /\ SameFlags(m, f)
        /\ f.isOpen = m.isOpen /\ f.file = m.inc /\ f.gen = m.gen /\ f.dangling = m.dangling
    BY <1>5, <1>6, FileSet
  <1>9. v = [f EXCEPT !.migrating = FALSE]  BY <1>5 DEF Struct
  <1> HIDE DEF f, w, v
  <1>10. /\ v \in Struct /\ SameMutex(f, v) /\ SameFile(f, v)
         /\ v.migrating = FALSE /\ v.closing = f.closing /\ v.gen = f.gen /\ v.dangling = f.dangling
    BY <1>8, <1>9, MigratingSet
  <1>11. CASE disk' = m.inc /\ Set(ref[t], v)
    <2>1. Touched(ref[t]) /\ handle'[ref[t]] = v  BY <1>2, <1>10, <1>11, SetTouches
    <2>2. QED
      BY <2>1, <1>4, <1>5, <1>6, <1>8, <1>10, <1>11
      DEF MutexOnly, SameFile, SameFlags, SameMutex, Given
  <1>12. CASE disk' \in {0, m.inc} /\ Set(ref[t], w)
    <2>1. Touched(ref[t]) /\ handle'[ref[t]] = w  BY <1>2, <1>7, <1>12, SetTouches
    <2>2. QED
      BY <2>1, <1>4, <1>5, <1>6, <1>7, <1>12
      DEF MutexOnly, SameFile, SameFlags, SameMutex, Given
  <1>13. QED  BY <1>1, <1>11, <1>12

(* SetClosing and CloseTimeout. *)
LEMMA ClosingEffect ==
  ASSUME Typed, TaskInv, NEW t \in Tasks, SetClosing(t) \/ CloseTimeout(t)
  PROVE  LET x == handle[ref[t]]
             y == handle'[ref[t]] IN
         /\ Touched(ref[t])
         /\ SameMutex(x, y) /\ SameFile(x, y) /\ y.gen = x.gen
         /\ y.migrating = x.migrating /\ y.dangling = x.dangling
         /\ CloseTimeout(t) => ~y.closing
  <1> DEFINE x == handle[ref[t]]
             v(b) == [x EXCEPT !.closing = b]
  <1>1. /\ pc[t] \in {"flag", "closelock"}
        /\ \E b \in BOOLEAN : Set(ref[t], v(b)) /\ (CloseTimeout(t) => b = FALSE)
    BY DEF SetClosing, CloseTimeout, CloseTimeoutThen, At
  <1>2. ref[t] \in Handles /\ x \in Struct  BY <1>1, RefTyped
  <1>3. PICK b \in BOOLEAN : Set(ref[t], v(b)) /\ (CloseTimeout(t) => b = FALSE)  BY <1>1
  <1>4. /\ v(b) \in Struct /\ v(b).gen = x.gen /\ v(b).migrating = x.migrating
        /\ v(b).closing = b /\ v(b).dangling = x.dangling
        /\ SameMutex(x, v(b)) /\ SameFile(x, v(b))
    <2> HIDE DEF x
    <2> QED  BY <1>2, ClosingSet
  <1> HIDE DEF v
  <1>5. QED  BY <1>2, <1>3, <1>4, SetTouches

LEMMA TeardownEffect ==
  ASSUME Typed, TaskInv, LockInv, NEW t \in Tasks, Teardown(t)
  PROVE  LET x == handle[ref[t]]
             y == handle'[ref[t]] IN
         /\ Touched(ref[t])
         /\ Given(x, y) /\ y.gen = x.gen /\ y.migrating = x.migrating
         /\ ~y.isOpen /\ ~y.closing
  <1> DEFINE x == handle[ref[t]]
             u == Unlocked(x)
             c == FileClosed(ref[t], u)
             f == [c EXCEPT !.file = 0]
             w == IF u.isOpen THEN f ELSE u
             v == [w EXCEPT !.isOpen = FALSE, !.closing = FALSE]
  <1>1. pc[t] = "teardown" /\ ref[t] \in Handles  BY RefTyped DEF Teardown, At
  <1>2. x \in Struct /\ x.depth > 0  BY <1>1, InsideOwns DEF InCall, Inside
  <1>3. u \in Struct /\ MutexOnly(x, u) /\ Given(x, u)  BY <1>2, UnlockedFields
  <1>4. Set(ref[t], v)  BY DEF Teardown
  <1> HIDE DEF u
  <1>5. c \in Struct /\ SameMutex(u, c) /\ SameFlags(u, c) /\ c.gen = u.gen
    BY <1>1, <1>3, FileClosedFields
  <1> HIDE DEF c
  <1>6. f \in Struct /\ SameMutex(c, f) /\ SameFlags(c, f) /\ f.gen = c.gen
    BY <1>5, FileSet
  <1> HIDE DEF f
  <1>7. w \in Struct /\ SameMutex(u, w) /\ SameFlags(u, w) /\ w.gen = u.gen
    BY <1>3, <1>5, <1>6 DEF SameMutex, SameFlags
  <1> HIDE DEF w
  <1>8. /\ v \in Struct /\ SameMutex(w, v) /\ v.gen = w.gen /\ v.migrating = w.migrating
        /\ ~v.isOpen /\ ~v.closing
    BY <1>7 DEF Struct, SameMutex
  <1> HIDE DEF v
  <1>9. Touched(ref[t]) /\ handle'[ref[t]] = v  BY <1>1, <1>4, <1>8, SetTouches
  <1>10. QED  BY <1>3, <1>7, <1>8, <1>9 DEF MutexOnly, SameMutex, SameFlags, Given

(* A recycled struct keeps its mutex, a new one has a free mutex. *)
LEMMA AcquireEffect ==
  ASSUME Typed, NEW t \in Tasks, AcquireTake(t)
  PROVE  \/ /\ ref[t] \in Handles /\ UNCHANGED <<ref, heap>> /\ parked' = None
            /\ Goto(t, "opening")
            /\ Touched(ref[t])
            /\ SameMutex(handle[ref[t]], handle'[ref[t]])
            /\ handle'[ref[t]].dangling = handle[ref[t]].dangling
            /\ LET y == handle'[ref[t]] IN ~y.isOpen /\ ~y.closing /\ ~y.migrating
         \/ /\ ref[t] = None /\ UNCHANGED parked
            /\ Goto(t, "opening")
            /\ \E a \in heap :
                 /\ heap' = heap \ {a} /\ ref' = [ref EXCEPT ![t] = a]
                 /\ Touched(a)
                 /\ handle'[a].owner = None /\ handle'[a].depth = 0 /\ handle'[a].dangling = FALSE
                 /\ LET y == handle'[a] IN ~y.isOpen /\ ~y.closing /\ ~y.migrating
         \/ /\ ref[t] = None
            /\ Goto(t, "assign")
            /\ UNCHANGED <<handle, heap, parked, ref>>
  <1> DEFINE x == handle[ref[t]]
             g == x.gen + 1
             n == opens + 1
             v == [x EXCEPT !.isOpen = FALSE, !.closing = FALSE, !.migrating = FALSE,
                            !.gen = @ + 1, !.file = 0, !.inc = n]
             w == [x EXCEPT !.isOpen = FALSE, !.closing = FALSE, !.migrating = FALSE,
                            !.gen = g, !.file = 0, !.inc = n]
             z == [FreshStruct EXCEPT !.inc = n]
  <1>0. n \in Nat /\ ref[t] \in Handles \cup {None}  BY DEF Typed
  <1>1. CASE /\ ref[t] # None /\ Goto(t, "opening") /\ Set(ref[t], v)
             /\ parked' = None /\ UNCHANGED <<heap, ref>>
    <2>1. ref[t] \in Handles /\ x \in Struct  BY <1>0, <1>1 DEF Typed
    <2>2. g \in Nat  BY <2>1 DEF Struct
    <2>3. v = w  BY <2>1 DEF Struct
    <2>4. /\ w \in Struct /\ SameMutex(x, w) /\ w.dangling = x.dangling
          /\ ~w.isOpen /\ ~w.closing /\ ~w.migrating
      <3> HIDE DEF x, g, n
      <3> QED  BY <2>1, <2>2, <1>0 DEF Struct, SameMutex
    <2> HIDE DEF v, w
    <2>5. Touched(ref[t]) /\ handle'[ref[t]] = v  BY <2>1, <2>3, <2>4, <1>1, SetTouches
    <2>6. QED  BY <1>1, <2>1, <2>3, <2>4, <2>5
  <1>2. ASSUME ref[t] = None, Goto(t, "opening"), UNCHANGED parked,
               NEW a \in heap, heap' = heap \ {a}, ref' = [ref EXCEPT ![t] = a], Set(a, z)
        PROVE  \E b \in heap :
                 /\ heap' = heap \ {b} /\ ref' = [ref EXCEPT ![t] = b]
                 /\ Touched(b)
                 /\ handle'[b].owner = None /\ handle'[b].depth = 0 /\ handle'[b].dangling = FALSE
                 /\ LET y == handle'[b] IN ~y.isOpen /\ ~y.closing /\ ~y.migrating
    <2>1. /\ z \in Struct /\ z.owner = None /\ z.depth = 0 /\ z.dangling = FALSE
          /\ ~z.isOpen /\ ~z.closing /\ ~z.migrating
      <3> HIDE DEF n
      <3> QED  BY <1>0 DEF Struct, FreshStruct
    <2> HIDE DEF z
    <2>2. Touched(a) /\ handle'[a] = z  BY <1>2, <2>1, SetTouches DEF Typed
    <2>3. QED  BY <1>2, <2>1, <2>2
  <1>3. QED  BY <1>1, <1>2 DEF AcquireTake

LEMMA OpenFileEffect ==
  ASSUME Typed, TaskInv, NEW t \in Tasks, OpenFile(t)
  PROVE  LET x == handle[ref[t]]
             y == handle'[ref[t]] IN
         /\ disk' \in Nat
         /\ \/ /\ Goto(t, "publish")
               /\ Touched(ref[t])
               /\ SameMutex(x, y) /\ SameFlags(x, y) /\ y.isOpen = x.isOpen
               /\ y.gen = x.gen /\ y.file = disk' /\ y.dangling = x.dangling
            \/ Goto(t, "retire") /\ UNCHANGED <<disk, handle>>
  <1> DEFINE x == handle[ref[t]]
             v == [x EXCEPT !.file = disk']
  <1>1. pc[t] = "opening" /\ ref[t] \in Handles /\ x \in Struct
    BY RefTyped DEF OpenFile, At
  <1>2. disk' \in Nat  BY <1>1 DEF OpenFile, Typed, Struct
  <1>3. /\ v \in Struct /\ SameMutex(x, v) /\ SameFlags(x, v)
        /\ v.isOpen = x.isOpen /\ v.file = disk' /\ v.gen = x.gen /\ v.dangling = x.dangling
    <2> HIDE DEF x
    <2> QED  BY <1>1, <1>2, FileSet
  <1>4. ASSUME Set(ref[t], v)
        PROVE  Touched(ref[t]) /\ handle'[ref[t]] = v
    <2> HIDE DEF v
    <2> QED  BY <1>1, <1>3, <1>4, SetTouches
  <1>5. (Set(ref[t], v) /\ Goto(t, "publish")) \/ (Goto(t, "retire") /\ UNCHANGED <<disk, handle>>)
    BY DEF OpenFile
  <1> HIDE DEF v
  <1>6. QED  BY <1>2, <1>3, <1>4, <1>5

LEMMA PublishEffect ==
  ASSUME Typed, TaskInv, NEW t \in Tasks, PublishOpen(t)
  PROVE  LET x == handle[ref[t]]
             y == handle'[ref[t]] IN
         /\ Touched(ref[t])
         /\ SameMutex(x, y) /\ SameFlags(x, y) /\ y.file = x.file /\ y.gen = x.gen
         /\ y.dangling = x.dangling
  <1> DEFINE x == handle[ref[t]]
             v == [x EXCEPT !.isOpen = TRUE]
  <1>1. pc[t] = "publish" /\ Set(ref[t], v)  BY DEF PublishOpen, At
  <1>2. ref[t] \in Handles /\ x \in Struct  BY <1>1, RefTyped
  <1>3. /\ v \in Struct /\ SameMutex(x, v) /\ SameFlags(x, v) /\ v.file = x.file /\ v.gen = x.gen
        /\ v.dangling = x.dangling
    <2> HIDE DEF x
    <2> QED  BY <1>2, OpenSet
  <1> HIDE DEF v
  <1>4. QED  BY <1>1, <1>2, <1>3, SetTouches

-----------------------------------------------------------------------------
(* Steps that leave the handles alone, and tasks that do not move *)

(* The steps of t that neither take, give nor change a handle. *)
Outside(t) ==
  \/ t \in Users /\ \E c \in UserCalls : LoadDefault(t, c)
  \/ t \in Openers /\ InitCheck(t)
  \/ t \in Closers /\ LoadToClose(t, "close")
  \/ t \in Deleters /\ LoadToClose(t, "delete")
  \/ PreCheck(t) \/ CaptureGeneration(t) \/ LockTimeout(t)
  \/ Unpublish(t) \/ DeleteCheck(t) \/ Republish(t) \/ Retire(t) \/ Unlink(t)
  \/ DropStale(t) \/ AcquireRead(t) \/ AssignDefault(t)

OthersStay(t) ==
  \A u \in Tasks \ {t} :
    /\ pc'[u] = pc[u] /\ ref'[u] = ref[u] /\ query'[u] = query[u]
    /\ call'[u] = call[u] /\ gen'[u] = gen[u]

(* tsdb_retire_handle goes on by what called it. *)
LEMMA RetireCase ==
  ASSUME Typed, TaskInv, NEW t \in Tasks, Retire(t)
  PROVE  /\ pc[t] = "retire"
         /\ \/ call[t] = "init" /\ Goto(t, "assign") /\ ref' = [ref EXCEPT ![t] = None] /\ UNCHANGED call
            \/ call[t] = "delete" /\ Goto(t, "unlink") /\ UNCHANGED <<ref, call>>
            \/ call[t] = "close" /\ Return(t)
         /\ parked' \in {parked, ref[t]}
         /\ parked # None => parked' = parked
         /\ UNCHANGED <<handle, heap, default, disk, opens, gen, query, seen>>
  <1>1. call[t] \in {"init", "close", "delete"}  BY DEF Retire, At, TaskInv
  <1>2. QED  BY Zenon, <1>1 DEF Retire, At

LEMMA OutsideEffect ==
  ASSUME Typed, TaskInv, NEW t \in Tasks, Outside(t)
  PROVE  /\ UNCHANGED <<handle, heap, query>>
         /\ pc[t] \notin Inside \cup {"closelock"}
         /\ pc'[t] \notin Inside \cup {"closelock"}
  <1>1. ASSUME t \in Users, NEW c \in UserCalls, LoadDefault(t, c)
        PROVE  /\ UNCHANGED <<handle, heap, query>>
               /\ pc[t] \notin Inside \cup {"closelock"}
               /\ pc'[t] \notin Inside \cup {"closelock"}
    BY <1>1 DEF LoadDefault, Typed, At, Goto, Return, shared, Inside
  <1>2. ASSUME t \in Openers, InitCheck(t)
        PROVE  /\ UNCHANGED <<handle, heap, query>>
               /\ pc[t] \notin Inside \cup {"closelock"}
               /\ pc'[t] \notin Inside \cup {"closelock"}
    BY <1>2 DEF InitCheck, Typed, At, Goto, Return, shared, Inside
  <1>3. ASSUME t \in Closers \cup Deleters, NEW c \in {"close", "delete"}, LoadToClose(t, c)
        PROVE  /\ UNCHANGED <<handle, heap, query>>
               /\ pc[t] \notin Inside \cup {"closelock"}
               /\ pc'[t] \notin Inside \cup {"closelock"}
    BY <1>3 DEF LoadToClose, Typed, At, Goto, Return, shared, Inside
  <1>4. CASE PreCheck(t)
    BY <1>4 DEF PreCheck, Typed, At, Goto, Return, shared, Inside
  <1>5. CASE CaptureGeneration(t)
    BY <1>5 DEF CaptureGeneration, Typed, At, Goto, Return, shared, Inside
  <1>6. CASE LockTimeout(t)
    BY <1>6 DEF LockTimeout, Typed, At, Goto, Return, shared, Inside
  <1>7. CASE Unpublish(t)
    BY <1>7 DEF Unpublish, Typed, At, Goto, Return, shared, Inside
  <1>8. CASE DeleteCheck(t)
    BY <1>8 DEF DeleteCheck, Typed, At, Goto, Return, shared, Inside
  <1>9. CASE Republish(t)
    BY <1>9 DEF Republish, Typed, At, Goto, Return, shared, Inside
  <1>10. CASE Retire(t)
    BY <1>10, RetireCase DEF Typed, At, Goto, Return, shared, Inside
  <1>11. CASE Unlink(t)
    BY <1>11 DEF Unlink, Typed, At, Goto, Return, shared, Inside
  <1>12. CASE DropStale(t)
    BY <1>12 DEF DropStale, Typed, At, Goto, Return, shared, Inside
  <1>13. CASE AcquireRead(t)
    BY <1>13 DEF AcquireRead, Typed, At, Goto, Return, shared, Inside
  <1>14. CASE AssignDefault(t)
    BY <1>14 DEF AssignDefault, Typed, At, Goto, Return, shared, Inside
  <1>15. QED  BY <1>1, <1>2, <1>3, <1>4, <1>5, <1>6, <1>7, <1>8, <1>9, <1>10, <1>11, <1>12, <1>13, <1>14 DEF Outside

(* A step of t moves nobody else. *)
Acts(t) == Call(t) \/ Step(t) \/ QueryClose(t)

LEMMA OnlyActorMoves ==
  ASSUME Typed, TaskInv, NEW t \in Tasks, Acts(t)
  PROVE  OthersStay(t)
  <1> USE DEF OthersStay
  <1>1. ASSUME t \in Users, NEW c \in UserCalls, LoadDefault(t, c)
        PROVE  OthersStay(t)
    BY <1>1 DEF LoadDefault, Typed, Goto, Return, local
  <1>2. ASSUME t \in Openers, InitCheck(t)
        PROVE  OthersStay(t)
    BY <1>2 DEF InitCheck, Typed, Goto, Return, local
  <1>3. ASSUME t \in Closers \cup Deleters, NEW c \in {"close", "delete"}, LoadToClose(t, c)
        PROVE  OthersStay(t)
    BY <1>3 DEF LoadToClose, Typed, Goto, Return, local
  <1>4. CASE PreCheck(t)
    BY <1>4 DEF PreCheck, Typed, Goto, Return, local
  <1>5. CASE CaptureGeneration(t)
    BY <1>5 DEF CaptureGeneration, Typed, Goto, Return, local
  <1>6. CASE TakeLock(t)
    BY <1>6 DEF TakeLock, Typed, Goto, Return, local
  <1>7. CASE LockTimeout(t)
    BY <1>7 DEF LockTimeout, Typed, Goto, Return, local
  <1>8. CASE Recheck(t)
    BY <1>8 DEF Recheck, RecheckThen, Typed, Goto, Return, local
  <1>9. CASE UseAndUnlock(t)
    BY <1>9 DEF UseAndUnlock, Typed, Goto, Return, local
  <1>10. CASE StartMigration(t)
    BY <1>10 DEF StartMigration, Typed, Goto, Return, local
  <1>11. CASE LeaveOriginal(t)
    BY <1>11 DEF LeaveOriginal, Typed, Goto, Return, local
  <1>12. CASE Swap(t)
    BY <1>12 DEF Swap, SwapThen, Typed, Goto, Return, local
  <1>13. CASE QueryClose(t)
    BY <1>13 DEF QueryClose, Typed, Goto, Return, local
  <1>14. CASE Unpublish(t)
    BY <1>14 DEF Unpublish, Typed, Goto, Return, local
  <1>15. CASE DeleteCheck(t)
    BY <1>15 DEF DeleteCheck, Typed, Goto, Return, local
  <1>16. CASE SetClosing(t)
    BY <1>16 DEF SetClosing, Typed, Goto, Return, local
  <1>17. CASE CloseLock(t)
    BY <1>17 DEF CloseLock, Typed, Goto, Return, local
  <1>18. CASE CloseTimeout(t)
    BY <1>18 DEF CloseTimeout, CloseTimeoutThen, Typed, Goto, Return, local
  <1>19. CASE Republish(t)
    BY <1>19 DEF Republish, Typed, Goto, Return, local
  <1>20. CASE Teardown(t)
    BY <1>20 DEF Teardown, Typed, Goto, Return, local
  <1>21. CASE Retire(t)
    BY <1>21, RetireCase DEF Typed, Goto, Return, local
  <1>22. CASE Unlink(t)
    BY <1>22 DEF Unlink, Typed, Goto, Return, local
  <1>23. CASE DropStale(t)
    BY <1>23 DEF DropStale, Typed, Goto, Return, local
  <1>24. CASE AcquireRead(t)
    BY <1>24 DEF AcquireRead, Typed, Goto, Return, local
  <1>25. CASE AcquireTake(t)
    BY <1>25 DEF AcquireTake, Typed, Goto, Return, local
  <1>26. CASE OpenFile(t)
    BY <1>26 DEF OpenFile, Typed, Goto, Return, local
  <1>27. CASE PublishOpen(t)
    BY <1>27 DEF PublishOpen, Typed, Goto, Return, local
  <1>28. CASE AssignDefault(t)
    BY <1>28 DEF AssignDefault, Typed, Goto, Return, local
  <1>29. QED  BY <1>1, <1>2, <1>3, <1>4, <1>5, <1>6, <1>7, <1>8, <1>9, <1>10, <1>11, <1>12, <1>13, <1>14, <1>15, <1>16, <1>17, <1>18, <1>19, <1>20, <1>21, <1>22, <1>23, <1>24, <1>25, <1>26, <1>27, <1>28 DEF Acts, Call, Step

(* The variables keep their types. *)
LEMMA TypedStep ==
  ASSUME Typed, TaskInv, LockInv, NEW t \in Tasks, Acts(t)
  PROVE  Typed'
  <1>1. ASSUME t \in Users, NEW c \in UserCalls, LoadDefault(t, c)
        PROVE  Typed'
    BY <1>1, HandleAssumption DEF LoadDefault, Typed, Labels, At, Goto, Return, shared
  <1>2. ASSUME t \in Openers, InitCheck(t)
        PROVE  Typed'
    BY <1>2 DEF InitCheck, Typed, Labels, At, Goto, Return, shared
  <1>3. ASSUME t \in Closers \cup Deleters, NEW c \in {"close", "delete"}, LoadToClose(t, c)
        PROVE  Typed'
    BY <1>3 DEF LoadToClose, Typed, Labels, At, Goto, Return, shared
  <1>4. CASE PreCheck(t)
    BY <1>4, RefTyped, SMTT(30) DEF PreCheck, Typed, Struct, Labels, At, Goto, Return, shared
  <1>5. CASE CaptureGeneration(t)
    BY <1>5, RefTyped DEF CaptureGeneration, Typed, Struct, Labels, At, Goto, Return, shared
  <1>6. CASE TakeLock(t)
    BY <1>6, LockEffect DEF TakeLock, Touched, Typed, Labels, At, Goto, Return, shared
  <1>7. CASE LockTimeout(t)
    BY <1>7 DEF LockTimeout, Typed, Labels, At, Goto, Return, shared
  <1>8. CASE Recheck(t)
    BY <1>8, RecheckEffect DEF Recheck, RecheckThen, Touched, Typed, Labels, At, Goto, Return, shared
  <1>9. CASE UseAndUnlock(t)
    BY <1>9, UseEffect DEF UseAndUnlock, Touched, Typed, Labels, At, Goto, Return, shared
  <1>10. CASE StartMigration(t)
    BY <1>10, StartMigrationEffect DEF StartMigration, Touched, Typed, Labels, At, Goto, Return, shared
  <1>11. CASE LeaveOriginal(t)
    <2>1. /\ handle' \in [Handles -> Struct] /\ disk' \in Nat
          /\ Return(t) \/ (Goto(t, "swap") /\ UNCHANGED <<ref, call>>)
      BY <1>11, LeaveOriginalEffect DEF Touched, Typed
    <2>2. UNCHANGED <<heap, parked, default, opens, gen, query, seen>>
      BY <1>11 DEF LeaveOriginal
    <2>3. QED  BY <2>1, <2>2 DEF Typed, Labels, Goto, Return
  <1>12. CASE Swap(t)
    BY <1>12, SwapEffect DEF Swap, SwapThen, Touched, Typed, Labels, At, Goto, Return, shared
  <1>13. CASE QueryClose(t)
    BY <1>13, QueryCloseEffect DEF QueryClose, Touched, Typed, Labels, At, Goto, Return, shared
  <1>14. CASE Unpublish(t)
    BY <1>14 DEF Unpublish, Typed, Labels, At, Goto, Return, shared
  <1>15. CASE DeleteCheck(t)
    BY <1>15 DEF DeleteCheck, Typed, Labels, At, Goto, Return, shared
  <1>16. CASE SetClosing(t)
    BY <1>16, ClosingEffect DEF SetClosing, Touched, Typed, Labels, At, Goto, Return, shared
  <1>17. CASE CloseLock(t)
    BY <1>17, LockEffect DEF CloseLock, Touched, Typed, Labels, At, Goto, Return, shared
  <1>18. CASE CloseTimeout(t)
    BY <1>18, ClosingEffect DEF CloseTimeout, CloseTimeoutThen, Touched, Typed, Labels, At, Goto, Return, shared
  <1>19. CASE Republish(t)
    BY <1>19 DEF Republish, Typed, Labels, At, Goto, Return, shared
  <1>20. CASE Teardown(t)
    BY <1>20, TeardownEffect DEF Teardown, Touched, Typed, Labels, At, Goto, Return, shared
  <1>21. CASE Retire(t)
    BY <1>21, RetireCase DEF Typed, Labels, At, Goto, Return, shared
  <1>22. CASE Unlink(t)
    BY <1>22 DEF Unlink, Typed, Labels, At, Goto, Return, shared
  <1>23. CASE DropStale(t)
    BY <1>23 DEF DropStale, Typed, Labels, At, Goto, Return, shared
  <1>24. CASE AcquireRead(t)
    BY <1>24 DEF AcquireRead, Typed, Labels, At, Goto, Return, shared
  <1>25. CASE AcquireTake(t)
    <2>1. /\ handle' \in [Handles -> Struct]
          /\ Goto(t, "opening") \/ Goto(t, "assign")
          /\ heap' \subseteq heap /\ parked' \in {parked, None}
          /\ ref' \in [Tasks -> Handles \cup {None}]
      BY <1>25, AcquireEffect DEF Touched, Typed
    <2>2. opens' = opens + 1 /\ UNCHANGED <<default, disk, call, gen, query, seen>>
      BY <1>25 DEF AcquireTake
    <2>3. QED  BY <2>1, <2>2 DEF Typed, Labels, Goto
  <1>26. CASE OpenFile(t)
    BY <1>26, OpenFileEffect DEF OpenFile, Touched, Typed, Labels, At, Goto, Return, shared
  <1>27. CASE PublishOpen(t)
    BY <1>27, PublishEffect DEF PublishOpen, Touched, Typed, Labels, At, Goto, Return, shared
  <1>28. CASE AssignDefault(t)
    BY <1>28 DEF AssignDefault, Typed, Labels, At, Goto, Return, shared
  <1>29. QED  BY <1>1, <1>2, <1>3, <1>4, <1>5, <1>6, <1>7, <1>8, <1>9, <1>10, <1>11, <1>12, <1>13, <1>14, <1>15, <1>16, <1>17, <1>18, <1>19, <1>20, <1>21, <1>22, <1>23, <1>24, <1>25, <1>26, <1>27, <1>28 DEF Acts, Call, Step

(* A task's label, call and handle stay together. *)
LEMMA TaskStep ==
  ASSUME Typed, TaskInv, NEW t \in Tasks, Acts(t)
  PROVE  TaskInv'
  <1> USE HandleAssumption DEF Typed, TaskInv, UserLabels, CloseLabels, OpenLabels, Tasks, Keepers
  <1>1. ASSUME t \in Users, NEW c \in UserCalls, LoadDefault(t, c)
        PROVE  TaskInv'
    BY <1>1 DEF LoadDefault, At, Goto, Return, shared
  <1>2. ASSUME t \in Openers, InitCheck(t)
        PROVE  TaskInv'
    BY <1>2 DEF InitCheck, At, Goto, Return, shared
  <1>3. ASSUME t \in Closers \cup Deleters, NEW c \in {"close", "delete"}, LoadToClose(t, c)
        PROVE  TaskInv'
    BY <1>3 DEF LoadToClose, At, Goto, Return, shared
  <1>4. CASE PreCheck(t)
    BY <1>4 DEF PreCheck, At, Goto, Return, shared
  <1>5. CASE CaptureGeneration(t)
    BY <1>5 DEF CaptureGeneration, At, Goto, Return, shared
  <1>6. CASE TakeLock(t)
    BY <1>6 DEF TakeLock, At, Goto, Return, shared
  <1>7. CASE LockTimeout(t)
    BY <1>7 DEF LockTimeout, At, Goto, Return, shared
  <1>8. CASE Recheck(t)
    BY <1>8 DEF Recheck, RecheckThen, At, Goto, Return, shared
  <1>9. CASE UseAndUnlock(t)
    BY <1>9 DEF UseAndUnlock, At, Goto, Return, shared
  <1>10. CASE StartMigration(t)
    BY <1>10 DEF StartMigration, At, Goto, Return, shared
  <1>11. CASE LeaveOriginal(t)
    BY <1>11 DEF LeaveOriginal, At, Goto, Return, shared
  <1>12. CASE Swap(t)
    BY <1>12 DEF Swap, SwapThen, At, Goto, Return, shared
  <1>13. CASE QueryClose(t)
    BY <1>13 DEF QueryClose, At, Goto, Return, shared
  <1>14. CASE Unpublish(t)
    BY <1>14 DEF Unpublish, At, Goto, Return, shared
  <1>15. CASE DeleteCheck(t)
    BY <1>15 DEF DeleteCheck, At, Goto, Return, shared
  <1>16. CASE SetClosing(t)
    BY <1>16 DEF SetClosing, At, Goto, Return, shared
  <1>17. CASE CloseLock(t)
    BY <1>17 DEF CloseLock, At, Goto, Return, shared
  <1>18. CASE CloseTimeout(t)
    BY <1>18 DEF CloseTimeout, CloseTimeoutThen, At, Goto, Return, shared
  <1>19. CASE Republish(t)
    BY <1>19 DEF Republish, At, Goto, Return, shared
  <1>20. CASE Teardown(t)
    BY <1>20 DEF Teardown, At, Goto, Return, shared
  <1>21. CASE Retire(t)
    BY <1>21, RetireCase DEF At, Goto, Return, shared
  <1>22. CASE Unlink(t)
    BY <1>22 DEF Unlink, At, Goto, Return, shared
  <1>23. CASE DropStale(t)
    BY <1>23 DEF DropStale, At, Goto, Return, shared
  <1>24. CASE AcquireRead(t)
    BY <1>24 DEF AcquireRead, At, Goto, Return, shared
  <1>25. CASE AcquireTake(t)
    BY <1>25 DEF AcquireTake, At, Goto, Return, shared
  <1>26. CASE OpenFile(t)
    BY <1>26 DEF OpenFile, At, Goto, Return, shared
  <1>27. CASE PublishOpen(t)
    BY <1>27 DEF PublishOpen, At, Goto, Return, shared
  <1>28. CASE AssignDefault(t)
    BY <1>28 DEF AssignDefault, At, Goto, Return, shared
  <1>29. QED  BY <1>1, <1>2, <1>3, <1>4, <1>5, <1>6, <1>7, <1>8, <1>9, <1>10, <1>11, <1>12, <1>13, <1>14, <1>15, <1>16, <1>17, <1>18, <1>19, <1>20, <1>21, <1>22, <1>23, <1>24, <1>25, <1>26, <1>27, <1>28 DEF Acts, Call, Step

(* Pointers go round among the tasks, the recycler and g_default_handle;   *)
(* only tsdb_acquire_handle gets one from the heap.                        *)
LEMMA PointersMove ==
  ASSUME Typed, TaskInv, LockInv, NEW t \in Tasks, Acts(t), ~AcquireTake(t)
  PROVE  /\ heap' = heap
         /\ parked' \in {parked, None, ref[t]}
         /\ default' \in {default, None, ref[t]}
         /\ ref'[t] \in {ref[t], None, default, parked}
         /\ query'[t] \in {query[t], None, ref[t]}
         /\ \A b \in Handles : b \notin {ref[t], query[t]} => handle'[b] = handle[b]
  <1>1. ASSUME t \in Users, NEW c \in UserCalls, LoadDefault(t, c)
        PROVE  /\ heap' = heap
               /\ parked' \in {parked, None, ref[t]}
               /\ default' \in {default, None, ref[t]}
               /\ ref'[t] \in {ref[t], None, default, parked}
               /\ query'[t] \in {query[t], None, ref[t]}
               /\ \A b \in Handles : b \notin {ref[t], query[t]} => handle'[b] = handle[b]
    BY <1>1 DEF LoadDefault, Typed, Goto, Return, shared
  <1>2. ASSUME t \in Openers, InitCheck(t)
        PROVE  /\ heap' = heap
               /\ parked' \in {parked, None, ref[t]}
               /\ default' \in {default, None, ref[t]}
               /\ ref'[t] \in {ref[t], None, default, parked}
               /\ query'[t] \in {query[t], None, ref[t]}
               /\ \A b \in Handles : b \notin {ref[t], query[t]} => handle'[b] = handle[b]
    BY <1>2 DEF InitCheck, Typed, Goto, Return, shared
  <1>3. ASSUME t \in Closers \cup Deleters, NEW c \in {"close", "delete"}, LoadToClose(t, c)
        PROVE  /\ heap' = heap
               /\ parked' \in {parked, None, ref[t]}
               /\ default' \in {default, None, ref[t]}
               /\ ref'[t] \in {ref[t], None, default, parked}
               /\ query'[t] \in {query[t], None, ref[t]}
               /\ \A b \in Handles : b \notin {ref[t], query[t]} => handle'[b] = handle[b]
    BY <1>3 DEF LoadToClose, Typed, Goto, Return, shared
  <1>4. CASE PreCheck(t)
    BY <1>4 DEF PreCheck, Typed, Goto, Return, shared
  <1>5. CASE CaptureGeneration(t)
    BY <1>5 DEF CaptureGeneration, Typed, Goto, Return, shared
  <1>6. CASE TakeLock(t)
    BY <1>6, LockEffect DEF TakeLock, Touched, Typed, Goto, Return, shared
  <1>7. CASE LockTimeout(t)
    BY <1>7 DEF LockTimeout, Typed, Goto, Return, shared
  <1>8. CASE Recheck(t)
    BY <1>8, RecheckEffect DEF Recheck, RecheckThen, Touched, Typed, Goto, Return, shared
  <1>9. CASE UseAndUnlock(t)
    BY <1>9, UseEffect DEF UseAndUnlock, Touched, Typed, Goto, Return, shared
  <1>10. CASE StartMigration(t)
    BY <1>10, StartMigrationEffect DEF StartMigration, Touched, Typed, Goto, Return, shared
  <1>11. CASE LeaveOriginal(t)
    <2>1. UNCHANGED <<heap, parked, default, query>>  BY <1>11 DEF LeaveOriginal
    <2>2. QED  BY <1>11, <2>1, LeaveOriginalEffect DEF Touched, Typed, Goto, Return, shared
  <1>12. CASE Swap(t)
    BY <1>12, SwapEffect DEF Swap, SwapThen, Touched, Typed, Goto, Return, shared
  <1>13. CASE QueryClose(t)
    BY <1>13, QueryCloseEffect DEF QueryClose, Touched, Typed, Goto, Return, shared
  <1>14. CASE Unpublish(t)
    BY <1>14 DEF Unpublish, Typed, Goto, Return, shared
  <1>15. CASE DeleteCheck(t)
    BY <1>15 DEF DeleteCheck, Typed, Goto, Return, shared
  <1>16. CASE SetClosing(t)
    BY <1>16, ClosingEffect DEF SetClosing, Touched, Typed, Goto, Return, shared
  <1>17. CASE CloseLock(t)
    BY <1>17, LockEffect DEF CloseLock, Touched, Typed, Goto, Return, shared
  <1>18. CASE CloseTimeout(t)
    BY <1>18, ClosingEffect DEF CloseTimeout, CloseTimeoutThen, Touched, Typed, Goto, Return, shared
  <1>19. CASE Republish(t)
    BY <1>19 DEF Republish, Typed, Goto, Return, shared
  <1>20. CASE Teardown(t)
    BY <1>20, TeardownEffect DEF Teardown, Touched, Typed, Goto, Return, shared
  <1>21. CASE Retire(t)
    BY <1>21, RetireCase DEF Typed, Goto, Return, shared
  <1>22. CASE Unlink(t)
    BY <1>22 DEF Unlink, Typed, Goto, Return, shared
  <1>23. CASE DropStale(t)
    BY <1>23 DEF DropStale, Typed, Goto, Return, shared
  <1>24. CASE AcquireRead(t)
    BY <1>24 DEF AcquireRead, Typed, Goto, Return, shared
  <1>25. CASE OpenFile(t)
    BY <1>25, OpenFileEffect DEF OpenFile, Touched, Typed, Goto, Return, shared
  <1>26. CASE PublishOpen(t)
    BY <1>26, PublishEffect DEF PublishOpen, Touched, Typed, Goto, Return, shared
  <1>27. CASE AssignDefault(t)
    BY <1>27 DEF AssignDefault, Typed, Goto, Return, shared
  <1>28. QED  BY <1>1, <1>2, <1>3, <1>4, <1>5, <1>6, <1>7, <1>8, <1>9, <1>10, <1>11, <1>12, <1>13, <1>14, <1>15, <1>16, <1>17, <1>18, <1>19, <1>20, <1>21, <1>22, <1>23, <1>24, <1>25, <1>26, <1>27 DEF Acts, Call, Step

(* Structs that were never given out stay unreferenced and untouched. *)
LEMMA HeapStep ==
  ASSUME Typed, TaskInv, LockInv, HeapInv, NEW t \in Tasks, Acts(t)
  PROVE  HeapInv'
  <1>1. OthersStay(t)  BY OnlyActorMoves
  <1>2. CASE ~AcquireTake(t)
    BY <1>1, <1>2, PointersMove, HandleAssumption DEF HeapInv, Typed, OthersStay
  <1>3. CASE AcquireTake(t)
    <2>1. UNCHANGED <<default, query>>  BY <1>3 DEF AcquireTake
    <2>2. /\ heap' \subseteq heap
          /\ \A a \in heap' : handle'[a] = handle[a] /\ a # ref'[t]
          /\ parked' \in {parked, None}
      <3>1. CASE ref[t] \in Handles /\ UNCHANGED <<ref, heap>> /\ parked' = None /\ Touched(ref[t])
        BY <3>1 DEF HeapInv, Typed, Touched
      <3>2. ASSUME UNCHANGED parked, NEW b \in heap, heap' = heap \ {b},
                   ref' = [ref EXCEPT ![t] = b], Touched(b)
            PROVE  /\ heap' \subseteq heap
                   /\ \A a \in heap' : handle'[a] = handle[a] /\ a # ref'[t]
                   /\ parked' \in {parked, None}
        <4>1. ref'[t] = b /\ heap \subseteq Handles  BY <3>2 DEF Typed
        <4>2. QED  BY <3>2, <4>1 DEF Touched
      <3>3. CASE ref[t] = None /\ UNCHANGED <<handle, heap, parked, ref>>
        BY <3>3, HandleAssumption DEF Typed
      <3>4. QED  BY <1>3, <3>1, <3>2, <3>3, AcquireEffect
    <2>3. QED  BY <1>1, <2>1, <2>2, HandleAssumption DEF HeapInv, Typed, OthersStay
  <1>4. QED  BY <1>2, <1>3

-----------------------------------------------------------------------------
(* The mutex *)

LEMMA OthersHold ==
  ASSUME NEW t \in Tasks, OthersStay(t), NEW u \in Tasks \ {t}, NEW a \in Handles
  PROVE  Holds(u, a)' = Holds(u, a)
  BY DEF OthersStay, Holds, InCall

(* The mutexes stay as they are, and so does what t holds. *)
LEMMA MutexKept ==
  ASSUME Typed, LockInv, NEW t \in Tasks, OthersStay(t),
         \A a \in Handles : SameMutex(handle[a], handle'[a]) /\ Holds(t, a)' = Holds(t, a)
  PROVE  LockInv'
  BY OthersHold DEF LockInv, SameMutex

(* t takes the mutex of a, which is free or its own. *)
LEMMA MutexTaken ==
  ASSUME Typed, LockInv, NEW t \in Tasks, OthersStay(t), NEW a \in Handles,
         handle[a].owner \in {None, t}, Touched(a), Taken(handle[a], handle'[a], t),
         Holds(t, a)' = Holds(t, a) + 1,
         \A b \in Handles \ {a} : Holds(t, b)' = Holds(t, b)
  PROVE  LockInv'
  <1>1. \A b \in Handles : handle[b].depth \in Nat  BY DEF Typed, Struct
  <1>2. None \notin Tasks  BY HandleAssumption DEF Tasks
  <1>3. SUFFICES ASSUME NEW b \in Handles
                 PROVE  /\ handle'[b].owner = None => handle'[b].depth = 0
                        /\ handle'[b].owner # None => handle'[b].depth > 0
                        /\ \A u \in Tasks :
                             Holds(u, b)' = IF handle'[b].owner = u THEN handle'[b].depth ELSE 0
    BY DEF LockInv
  <1>4. CASE b # a
    BY <1>4, OthersHold DEF LockInv, Touched
  <1>5. CASE b = a
    BY <1>1, <1>2, <1>5, OthersHold DEF LockInv, Taken
  <1>6. QED  BY <1>4, <1>5

(* t gives the mutex of a back once. *)
LEMMA MutexGiven ==
  ASSUME Typed, LockInv, NEW t \in Tasks, OthersStay(t), NEW a \in Handles,
         Touched(a), Given(handle[a], handle'[a]),
         Holds(t, a) > 0, Holds(t, a)' = Holds(t, a) - 1,
         \A b \in Handles \ {a} : Holds(t, b)' = Holds(t, b)
  PROVE  LockInv'
  <1>1. \A b \in Handles : handle[b].depth \in Nat  BY DEF Typed, Struct
  <1>2. None \notin Tasks  BY HandleAssumption DEF Tasks
  <1>3. SUFFICES ASSUME NEW b \in Handles
                 PROVE  /\ handle'[b].owner = None => handle'[b].depth = 0
                        /\ handle'[b].owner # None => handle'[b].depth > 0
                        /\ \A u \in Tasks :
                             Holds(u, b)' = IF handle'[b].owner = u THEN handle'[b].depth ELSE 0
    BY DEF LockInv
  <1>4. CASE b # a
    BY <1>4, OthersHold DEF LockInv, Touched
  <1>5. CASE b = a
    <2>1. handle[a].owner = t /\ handle[a].depth = Holds(t, a)  BY DEF LockInv
    <2>2. \A u \in Tasks \ {t} : Holds(u, a)' = 0  BY <2>1, OthersHold DEF LockInv
    <2>3. QED  BY <1>1, <1>2, <1>5, <2>1, <2>2 DEF Given
  <1>6. QED  BY <1>4, <1>5

(* Owner and depth of every mutex stay what the tasks took. *)
LEMMA LockStep ==
  ASSUME Typed, TaskInv, HeapInv, LockInv, NEW t \in Tasks, Acts(t)
  PROVE  LockInv'
  <1> USE DEF Typed
  <1>0. OthersStay(t)  BY OnlyActorMoves
  <1>1. CASE Outside(t)
    <2>1. UNCHANGED <<handle, query>> /\ pc[t] \notin Inside /\ pc'[t] \notin Inside
      BY <1>1, OutsideEffect
    <2>2. \A a \in Handles : SameMutex(handle[a], handle'[a]) /\ Holds(t, a)' = Holds(t, a)
      BY <2>1 DEF SameMutex, Holds, InCall
    <2>3. QED  BY <1>0, <2>2, MutexKept
  <1>2. CASE TakeLock(t) \/ CloseLock(t)
    <2>1. /\ pc[t] \in {"lock", "closelock"} /\ pc'[t] \in {"recheck", "teardown"}
          /\ handle[ref[t]].owner \in {None, t} /\ UNCHANGED <<ref, query>>
      BY <1>2 DEF TakeLock, CloseLock, At, Goto, Free
    <2>2. ref[t] \in Handles  BY <2>1, RefTyped
    <2>3. /\ Holds(t, ref[t])' = Holds(t, ref[t]) + 1
          /\ \A b \in Handles \ {ref[t]} : Holds(t, b)' = Holds(t, b)
      BY <2>1, <2>2 DEF Holds, InCall, Inside
    <2>4. QED  BY <1>0, <1>2, <2>1, <2>2, <2>3, LockEffect, MutexTaken
  <1>3. ASSUME Given(handle[ref[t]], handle'[ref[t]]), Touched(ref[t]), pc[t] \in Inside,
               pc'[t] \notin Inside, UNCHANGED query
        PROVE  LockInv'
    <2>1. PICK a \in Handles : a = ref[t]  BY <1>3, RefTyped DEF Inside
    <2>2. Holds(t, a) > 0 /\ Holds(t, a)' = Holds(t, a) - 1
      BY <1>3, <2>1 DEF Holds, InCall
    <2>3. \A b \in Handles \ {a} : Holds(t, b)' = Holds(t, b)
      BY <1>3, <2>1 DEF Holds, InCall
    <2>4. QED  BY <1>0, <1>3, <2>1, <2>2, <2>3, MutexGiven
  <1>4. ASSUME NEW a \in Handles, SameMutex(handle[a], handle'[a]), Touched(a),
               pc[t] \in Inside <=> pc'[t] \in Inside, pc[t] \in Inside => UNCHANGED ref,
               UNCHANGED query
        PROVE  LockInv'
    <2>1. \A b \in Handles : SameMutex(handle[b], handle'[b])
      BY <1>4 DEF SameMutex, Touched
    <2>2. \A b \in Handles : Holds(t, b)' = Holds(t, b)
      BY <1>4 DEF Holds, InCall
    <2>3. QED  BY <1>0, <2>1, <2>2, MutexKept
  <1>5. CASE Recheck(t)
    <2>1. pc[t] = "recheck" /\ ref[t] \in Handles /\ (call[t] = "query" => query[t] = None)
      BY <1>5, RefTyped DEF Recheck, RecheckThen, At, TaskInv
    <2>2. \/ /\ UNCHANGED handle
             /\ call[t] = "query" /\ Return(t) /\ query' = [query EXCEPT ![t] = ref[t]]
          \/ UNCHANGED handle /\ Goto(t, "use") /\ UNCHANGED <<ref, query>>
          \/ Set(ref[t], Unlocked(handle[ref[t]])) /\ Return(t) /\ UNCHANGED query
      BY <1>5 DEF Recheck, RecheckThen
    <2>3. CASE /\ UNCHANGED handle
               /\ call[t] = "query" /\ Return(t) /\ query' = [query EXCEPT ![t] = ref[t]]
      <3>1. \A a \in Handles : SameMutex(handle[a], handle'[a]) /\ Holds(t, a)' = Holds(t, a)
        BY <2>1, <2>3, HandleAssumption DEF SameMutex, Holds, InCall, Inside, Return, Goto
      <3>2. QED  BY <1>0, <3>1, MutexKept
    <2>4. CASE UNCHANGED handle /\ Goto(t, "use") /\ UNCHANGED <<ref, query>>
      <3>1. \A a \in Handles : SameMutex(handle[a], handle'[a]) /\ Holds(t, a)' = Holds(t, a)
        BY <2>1, <2>4 DEF SameMutex, Holds, InCall, Inside, Goto
      <3>2. QED  BY <1>0, <3>1, MutexKept
    <2>5. CASE Set(ref[t], Unlocked(handle[ref[t]])) /\ Return(t) /\ UNCHANGED query
      <3>1. handle[ref[t]] \in Struct /\ handle[ref[t]].depth > 0
        BY <2>1, InsideOwns DEF InCall, Inside
      <3>2. Touched(ref[t]) /\ Given(handle[ref[t]], handle'[ref[t]])
        BY <2>1, <2>5, <3>1, UnlockedFields, SetTouches
      <3>3. pc[t] \in Inside /\ pc'[t] \notin Inside  BY <2>1, <2>5 DEF Return, Goto, Inside
      <3>4. QED  BY <1>3, <2>5, <3>2, <3>3
    <2>6. QED  BY <2>2, <2>3, <2>4, <2>5
  <1>6. CASE UseAndUnlock(t)
    <2>1. pc[t] \in Inside /\ pc'[t] \notin Inside /\ UNCHANGED query
      BY <1>6 DEF UseAndUnlock, At, Return, Goto, Inside
    <2>2. QED  BY <1>3, <1>6, <2>1, UseEffect
  <1>7. CASE StartMigration(t)
    <2>1. /\ pc[t] \in Inside /\ pc'[t] \in Inside /\ UNCHANGED <<ref, query>>
          /\ ref[t] \in Handles
      BY <1>7, RefTyped DEF StartMigration, At, Goto, Inside
    <2>2. QED  BY <1>4, <1>7, <2>1, StartMigrationEffect
  <1>8. CASE LeaveOriginal(t)
    <2>1. pc[t] = "migrate" /\ UNCHANGED query /\ ref[t] \in Handles
      BY <1>8, RefTyped DEF LeaveOriginal, At
    <2>2. CASE Given(handle[ref[t]], handle'[ref[t]]) /\ Return(t)
      BY <1>3, <1>8, <2>1, <2>2, LeaveOriginalEffect DEF Return, Goto, Inside
    <2>3. CASE SameMutex(handle[ref[t]], handle'[ref[t]]) /\ Goto(t, "swap") /\ UNCHANGED ref
      BY <1>4, <1>8, <2>1, <2>3, LeaveOriginalEffect DEF Goto, Inside
    <2>4. QED  BY <1>8, <2>2, <2>3, LeaveOriginalEffect
  <1>9. CASE Swap(t)
    <2>1. pc[t] \in Inside /\ pc'[t] \notin Inside /\ UNCHANGED query
      BY <1>9 DEF Swap, SwapThen, At, Return, Goto, Inside
    <2>2. QED  BY <1>3, <1>9, <2>1, SwapEffect
  <1>10. CASE QueryClose(t)
    <2>1. /\ pc[t] \notin Inside /\ pc'[t] \notin Inside
          /\ query[t] \in Handles /\ query'[t] = None
      BY <1>10 DEF QueryClose, At, Inside
    <2>2. PICK a \in Handles : a = query[t]  BY <2>1
    <2>3. Holds(t, a) > 0 /\ Holds(t, a)' = Holds(t, a) - 1
      BY <2>1, <2>2, HandleAssumption DEF Holds, InCall
    <2>4. \A b \in Handles \ {a} : Holds(t, b)' = Holds(t, b)
      BY <2>1, <2>2, HandleAssumption DEF Holds, InCall
    <2>5. QED  BY <1>0, <1>10, <2>2, <2>3, <2>4, MutexGiven, QueryCloseEffect
  <1>11. CASE SetClosing(t) \/ CloseTimeout(t)
    <2>1. /\ pc[t] \notin Inside /\ pc'[t] \notin Inside /\ UNCHANGED <<ref, query>>
          /\ ref[t] \in Handles
      BY <1>11, RefTyped DEF SetClosing, CloseTimeout, CloseTimeoutThen, At, Goto, Inside
    <2>2. QED  BY <1>4, <1>11, <2>1, ClosingEffect
  <1>12. CASE Teardown(t)
    <2>1. pc[t] \in Inside /\ pc'[t] \notin Inside /\ UNCHANGED query
      BY <1>12 DEF Teardown, At, Goto, Inside
    <2>2. QED  BY <1>3, <1>12, <2>1, TeardownEffect
  <1>13. CASE AcquireTake(t)
    <2>1. pc[t] \notin Inside /\ UNCHANGED query  BY <1>13 DEF AcquireTake, At, Inside
    <2>2. pc'[t] \notin Inside  BY <1>13, AcquireEffect DEF Goto, Inside
    <2>3. CASE ref[t] \in Handles /\ Touched(ref[t]) /\ SameMutex(handle[ref[t]], handle'[ref[t]])
      BY <1>4, <2>1, <2>2, <2>3
    <2>4. ASSUME NEW a \in heap, Touched(a), handle'[a].owner = None, handle'[a].depth = 0
          PROVE  LockInv'
      <3>1. a \in Handles /\ handle[a].owner = None /\ handle[a].depth = 0
        BY DEF HeapInv, FreshStruct
      <3>2. QED  BY <1>4, <2>1, <2>2, <2>4, <3>1 DEF SameMutex
    <2>5. CASE UNCHANGED handle
      <3>1. \A a \in Handles : SameMutex(handle[a], handle'[a]) /\ Holds(t, a)' = Holds(t, a)
        BY <2>1, <2>2, <2>5 DEF SameMutex, Holds, InCall
      <3>2. QED  BY <1>0, <3>1, MutexKept
    <2>6. QED  BY <1>13, <2>3, <2>4, <2>5, AcquireEffect
  <1>14. CASE OpenFile(t)
    <2>1. /\ pc[t] \notin Inside /\ pc'[t] \notin Inside /\ UNCHANGED <<ref, query>>
          /\ ref[t] \in Handles
      BY <1>14, RefTyped DEF OpenFile, At, Goto, Inside
    <2>2. CASE UNCHANGED handle
      <3>1. \A a \in Handles : SameMutex(handle[a], handle'[a]) /\ Holds(t, a)' = Holds(t, a)
        BY <2>1, <2>2 DEF SameMutex, Holds, InCall
      <3>2. QED  BY <1>0, <3>1, MutexKept
    <2>3. CASE ~UNCHANGED handle
      BY <1>4, <1>14, <2>1, <2>3, OpenFileEffect
    <2>4. QED  BY <2>2, <2>3
  <1>15. CASE PublishOpen(t)
    <2>1. /\ pc[t] \notin Inside /\ pc'[t] \notin Inside /\ UNCHANGED <<ref, query>>
          /\ ref[t] \in Handles
      BY <1>15, RefTyped DEF PublishOpen, At, Goto, Inside
    <2>2. QED  BY <1>4, <1>15, <2>1, PublishEffect
  <1>16. QED
    BY <1>1, <1>2, <1>5, <1>6, <1>7, <1>8, <1>9, <1>10, <1>11, <1>12, <1>13, <1>14, <1>15
    DEF Acts, Call, Step, Outside

-----------------------------------------------------------------------------
(* The flags, and the bound on opens *)

(* closing is set by a task at "closelock" and cleared by whoever leaves    *)
(* there or "teardown".                                                     *)
LEMMA ClosingStep ==
  ASSUME Typed, TaskInv, HeapInv, LockInv, ClosingHasCloser, NEW t \in Tasks, Acts(t)
  PROVE  ClosingHasCloser'
  <1> USE DEF Typed
  <1>0. OthersStay(t)  BY OnlyActorMoves
  <1>1. ASSUME \A a \in Handles : handle'[a].closing =>
                 \/ \E u \in Tasks \ {t} : pc[u] \in {"closelock", "teardown"} /\ ref[u] = a
                 \/ pc'[t] \in {"closelock", "teardown"} /\ ref'[t] = a
        PROVE  ClosingHasCloser'
    BY <1>0, <1>1 DEF OthersStay, ClosingHasCloser
  <1>2. ASSUME pc[t] \notin {"closelock", "teardown"},
               \A a \in Handles : handle'[a].closing => handle[a].closing
        PROVE  ClosingHasCloser'
    BY <1>1, <1>2 DEF ClosingHasCloser
  <1>3. CASE Outside(t)
    BY <1>2, <1>3, OutsideEffect DEF Inside
  <1>4. CASE TakeLock(t)
    <2>1. pc[t] \notin {"closelock", "teardown"}  BY <1>4 DEF TakeLock, At
    <2>2. \A a \in Handles : handle'[a].closing => handle[a].closing
      BY <1>4, LockEffect DEF Touched, MutexOnly, SameFlags
    <2>3. QED  BY <1>2, <2>1, <2>2
  <1>5. CASE Recheck(t)
    <2>1. pc[t] \notin {"closelock", "teardown"}  BY <1>5 DEF Recheck, RecheckThen, At
    <2>2. \A a \in Handles : handle'[a].closing => handle[a].closing
      BY <1>5, RecheckEffect DEF Touched, MutexOnly, SameFlags
    <2>3. QED  BY <1>2, <2>1, <2>2
  <1>6. CASE UseAndUnlock(t)
    <2>1. pc[t] \notin {"closelock", "teardown"}  BY <1>6 DEF UseAndUnlock, At
    <2>2. \A a \in Handles : handle'[a].closing => handle[a].closing
      BY <1>6, UseEffect DEF Touched, SameFlags
    <2>3. QED  BY <1>2, <2>1, <2>2
  <1>7. CASE StartMigration(t)
    <2>1. pc[t] \notin {"closelock", "teardown"}  BY <1>7 DEF StartMigration, At
    <2>2. \A a \in Handles : handle'[a].closing => handle[a].closing
      BY <1>7, StartMigrationEffect DEF Touched, SameFlags
    <2>3. QED  BY <1>2, <2>1, <2>2
  <1>8. CASE LeaveOriginal(t)
    <2>1. pc[t] \notin {"closelock", "teardown"}  BY <1>8 DEF LeaveOriginal, At
    <2>2. \A a \in Handles : handle'[a].closing => handle[a].closing
      BY <1>8, LeaveOriginalEffect DEF Touched, SameFlags
    <2>3. QED  BY <1>2, <2>1, <2>2
  <1>9. CASE Swap(t)
    <2>1. pc[t] \notin {"closelock", "teardown"}  BY <1>9 DEF Swap, SwapThen, At
    <2>2. \A a \in Handles : handle'[a].closing => handle[a].closing
      BY <1>9, SwapEffect DEF Touched, SameFlags
    <2>3. QED  BY <1>2, <2>1, <2>2
  <1>10. CASE QueryClose(t)
    <2>1. pc[t] \notin {"closelock", "teardown"}  BY <1>10 DEF QueryClose, At
    <2>2. \A a \in Handles : handle'[a].closing => handle[a].closing
      BY <1>10, QueryCloseEffect DEF Touched, MutexOnly, SameFlags
    <2>3. QED  BY <1>2, <2>1, <2>2
  <1>11. CASE AcquireTake(t)
    <2>1. pc[t] = "take"  BY <1>11 DEF AcquireTake, At
    <2>2. \A a \in Handles : handle'[a].closing => handle[a].closing
      BY <1>11, AcquireEffect DEF Touched
    <2>3. QED  BY <1>2, <2>1, <2>2
  <1>12. CASE OpenFile(t)
    <2>1. pc[t] \notin {"closelock", "teardown"}  BY <1>12 DEF OpenFile, At
    <2>2. \A a \in Handles : handle'[a].closing => handle[a].closing
      BY <1>12, OpenFileEffect DEF Touched, SameFlags
    <2>3. QED  BY <1>2, <2>1, <2>2
  <1>13. CASE PublishOpen(t)
    <2>1. pc[t] \notin {"closelock", "teardown"}  BY <1>13 DEF PublishOpen, At
    <2>2. \A a \in Handles : handle'[a].closing => handle[a].closing
      BY <1>13, PublishEffect DEF Touched, SameFlags
    <2>3. QED  BY <1>2, <2>1, <2>2
  <1>14. CASE SetClosing(t) \/ CloseLock(t)
    <2>1. pc'[t] \in {"closelock", "teardown"} /\ ref'[t] = ref[t]
      BY <1>14 DEF SetClosing, CloseLock, Goto
    <2>2. \A a \in Handles : a # ref[t] => handle'[a] = handle[a]
      BY <1>14, ClosingEffect, LockEffect DEF Touched
    <2>3. QED  BY <1>1, <2>1, <2>2 DEF ClosingHasCloser
  <1>15. CASE CloseTimeout(t) \/ Teardown(t)
    <2>1. ~handle'[ref[t]].closing /\ Touched(ref[t])
      BY <1>15, ClosingEffect, TeardownEffect
    <2>2. QED  BY <1>1, <2>1 DEF ClosingHasCloser, Touched
  <1>16. QED
    BY <1>3, <1>4, <1>5, <1>6, <1>7, <1>8, <1>9, <1>10, <1>11, <1>12, <1>13, <1>14, <1>15
    DEF Acts, Call, Step, Outside

(* migrating is set by a task at "migrate" and cleared by whoever leaves    *)
(* there or "swap".                                                         *)
LEMMA MigratingStep ==
  ASSUME Typed, TaskInv, HeapInv, LockInv, MigratingHasMigrator, NEW t \in Tasks, Acts(t)
  PROVE  MigratingHasMigrator'
  <1> USE DEF Typed
  <1>0. OthersStay(t)  BY OnlyActorMoves
  <1>1. ASSUME \A a \in Handles : handle'[a].migrating =>
                 \/ \E u \in Tasks \ {t} : pc[u] \in {"migrate", "swap"} /\ ref[u] = a
                 \/ pc'[t] \in {"migrate", "swap"} /\ ref'[t] = a
        PROVE  MigratingHasMigrator'
    BY <1>0, <1>1 DEF OthersStay, MigratingHasMigrator
  <1>2. ASSUME pc[t] \notin {"migrate", "swap"},
               \A a \in Handles : handle'[a].migrating => handle[a].migrating
        PROVE  MigratingHasMigrator'
    BY <1>1, <1>2 DEF MigratingHasMigrator
  <1>3. CASE Outside(t)
    BY <1>2, <1>3, OutsideEffect DEF Inside
  <1>4. CASE TakeLock(t)
    <2>1. pc[t] \notin {"migrate", "swap"}  BY <1>4 DEF TakeLock, At
    <2>2. \A a \in Handles : handle'[a].migrating => handle[a].migrating
      BY <1>4, LockEffect DEF Touched, MutexOnly
    <2>3. QED  BY <1>2, <2>1, <2>2
  <1>5. CASE Recheck(t)
    <2>1. pc[t] \notin {"migrate", "swap"}  BY <1>5 DEF Recheck, RecheckThen, At
    <2>2. \A a \in Handles : handle'[a].migrating => handle[a].migrating
      BY <1>5, RecheckEffect DEF Touched, MutexOnly
    <2>3. QED  BY <1>2, <2>1, <2>2
  <1>6. CASE UseAndUnlock(t)
    <2>1. pc[t] \notin {"migrate", "swap"}  BY <1>6 DEF UseAndUnlock, At
    <2>2. \A a \in Handles : handle'[a].migrating => handle[a].migrating
      BY <1>6, UseEffect DEF Touched, SameFlags
    <2>3. QED  BY <1>2, <2>1, <2>2
  <1>7. CASE QueryClose(t)
    <2>1. pc[t] \notin {"migrate", "swap"}  BY <1>7 DEF QueryClose, At
    <2>2. \A a \in Handles : handle'[a].migrating => handle[a].migrating
      BY <1>7, QueryCloseEffect DEF Touched, MutexOnly
    <2>3. QED  BY <1>2, <2>1, <2>2
  <1>8. CASE SetClosing(t)
    <2>1. pc[t] \notin {"migrate", "swap"}  BY <1>8 DEF SetClosing, At
    <2>2. \A a \in Handles : handle'[a].migrating => handle[a].migrating
      BY <1>8, ClosingEffect DEF Touched, SameFlags
    <2>3. QED  BY <1>2, <2>1, <2>2
  <1>9. CASE CloseLock(t)
    <2>1. pc[t] \notin {"migrate", "swap"}  BY <1>9 DEF CloseLock, At
    <2>2. \A a \in Handles : handle'[a].migrating => handle[a].migrating
      BY <1>9, LockEffect DEF Touched, MutexOnly
    <2>3. QED  BY <1>2, <2>1, <2>2
  <1>10. CASE CloseTimeout(t)
    <2>1. pc[t] \notin {"migrate", "swap"}  BY <1>10 DEF CloseTimeout, CloseTimeoutThen, At
    <2>2. \A a \in Handles : handle'[a].migrating => handle[a].migrating
      BY <1>10, ClosingEffect DEF Touched, SameFlags
    <2>3. QED  BY <1>2, <2>1, <2>2
  <1>11. CASE Teardown(t)
    <2>1. pc[t] \notin {"migrate", "swap"}  BY <1>11 DEF Teardown, At
    <2>2. \A a \in Handles : handle'[a].migrating => handle[a].migrating
      BY <1>11, TeardownEffect DEF Touched, SameFlags
    <2>3. QED  BY <1>2, <2>1, <2>2
  <1>12. CASE AcquireTake(t)
    <2>1. pc[t] = "take"  BY <1>12 DEF AcquireTake, At
    <2>2. \A a \in Handles : handle'[a].migrating => handle[a].migrating
      BY <1>12, AcquireEffect DEF Touched
    <2>3. QED  BY <1>2, <2>1, <2>2
  <1>13. CASE OpenFile(t)
    <2>1. pc[t] \notin {"migrate", "swap"}  BY <1>13 DEF OpenFile, At
    <2>2. \A a \in Handles : handle'[a].migrating => handle[a].migrating
      BY <1>13, OpenFileEffect DEF Touched, SameFlags
    <2>3. QED  BY <1>2, <2>1, <2>2
  <1>14. CASE PublishOpen(t)
    <2>1. pc[t] \notin {"migrate", "swap"}  BY <1>14 DEF PublishOpen, At
    <2>2. \A a \in Handles : handle'[a].migrating => handle[a].migrating
      BY <1>14, PublishEffect DEF Touched, SameFlags
    <2>3. QED  BY <1>2, <2>1, <2>2
  <1>15. CASE StartMigration(t)
    <2>1. pc'[t] = "migrate" /\ ref'[t] = ref[t]  BY <1>15 DEF StartMigration, Goto
    <2>2. QED  BY <1>1, <1>15, <2>1, StartMigrationEffect DEF MigratingHasMigrator, Touched
  <1>16. CASE LeaveOriginal(t)
    <2>1. Touched(ref[t])  BY <1>16, LeaveOriginalEffect
    <2>2. ~handle'[ref[t]].migrating \/ (pc'[t] = "swap" /\ ref'[t] = ref[t])
      BY <1>16, LeaveOriginalEffect DEF Goto
    <2>3. QED  BY <1>1, <2>1, <2>2 DEF MigratingHasMigrator, Touched
  <1>17. CASE Swap(t)
    BY <1>1, <1>17, SwapEffect DEF MigratingHasMigrator, Touched
  <1>18. QED
    BY <1>3, <1>4, <1>5, <1>6, <1>7, <1>8, <1>9, <1>10, <1>11, <1>12, <1>13, <1>14, <1>15, <1>16, <1>17
    DEF Acts, Call, Step, Outside

(* Who is not pending, and does not become so, does not count. *)
LEMMA PendingSame ==
  ASSUME Typed, NEW t \in Tasks, OthersStay(t), opens' = opens,
         pc[t] \in {"drop", "acquire", "take"} <=> pc'[t] \in {"drop", "acquire", "take"},
         OpensInv
  PROVE  OpensInv'
  <1>1. Pending' = Pending  BY DEF Pending, OthersStay, Tasks
  <1>2. QED  BY <1>1 DEF OpensInv

(* tsdb_init tests the bound, and then counts at most once per task. *)
LEMMA OpensStep ==
  ASSUME Typed, TaskInv, LockInv, OpensInv, NEW t \in Tasks, Acts(t)
  PROVE  OpensInv'
  <1> USE DEF Typed
  <1>0. OthersStay(t)  BY OnlyActorMoves
  <1>1. /\ Pending \subseteq Keepers /\ IsFiniteSet(Pending) /\ Cardinality(Pending) \in Nat
        /\ Pending' \subseteq Keepers /\ IsFiniteSet(Pending') /\ Cardinality(Pending') \in Nat
        /\ Cardinality(Pending') <= Cardinality(Keepers) /\ Cardinality(Keepers) \in Nat
        /\ MaxOpens \in Nat
    BY FS_Subset, FS_CardinalityType, HandleAssumption DEF Pending
  <1>2. CASE InitCheck(t)
    <2>1. opens < MaxOpens /\ opens' = opens  BY <1>2 DEF InitCheck, shared
    <2>2. QED  BY <1>1, <2>1 DEF OpensInv
  <1>3. CASE AcquireTake(t)
    <2>1. pc[t] = "take" /\ opens' = opens + 1  BY <1>3 DEF AcquireTake, At
    <2>2. pc'[t] \notin {"drop", "acquire", "take"}  BY <1>3, AcquireEffect DEF Goto
    <2>3. t \in Keepers  BY <2>1 DEF TaskInv, OpenLabels
    <2>4. t \in Pending /\ Pending' = Pending \ {t}
      BY <1>0, <2>1, <2>2, <2>3 DEF Pending, OthersStay, Tasks
    <2>5. Cardinality(Pending') = Cardinality(Pending) - 1  BY <1>1, <2>4, FS_RemoveElement
    <2>6. QED  BY <1>1, <2>1, <2>5 DEF OpensInv
  <1>4. ASSUME t \in Users, NEW c \in UserCalls, LoadDefault(t, c)
        PROVE  OpensInv'
    BY <1>0, <1>4, PendingSame DEF LoadDefault, At, Goto, shared
  <1>5. ASSUME NEW c \in {"close", "delete"}, LoadToClose(t, c)
        PROVE  OpensInv'
    BY <1>0, <1>5, PendingSame DEF LoadToClose, At, Goto, shared
  <1>6. CASE PreCheck(t)
    BY <1>0, <1>6, PendingSame DEF PreCheck, At, Goto, Return, shared
  <1>7. CASE CaptureGeneration(t)
    BY <1>0, <1>7, PendingSame DEF CaptureGeneration, At, Goto, Return, shared
  <1>8. CASE TakeLock(t)
    BY <1>0, <1>8, PendingSame DEF TakeLock, At, Goto, Return, shared
  <1>9. CASE LockTimeout(t)
    BY <1>0, <1>9, PendingSame DEF LockTimeout, At, Goto, Return, shared
  <1>10. CASE Recheck(t)
    BY <1>0, <1>10, PendingSame DEF Recheck, RecheckThen, At, Goto, Return, shared
  <1>11. CASE UseAndUnlock(t)
    BY <1>0, <1>11, PendingSame DEF UseAndUnlock, At, Goto, Return, shared
  <1>12. CASE StartMigration(t)
    BY <1>0, <1>12, PendingSame DEF StartMigration, At, Goto, Return, shared
  <1>13. CASE LeaveOriginal(t)
    BY <1>0, <1>13, PendingSame DEF LeaveOriginal, At, Goto, Return, shared
  <1>14. CASE Swap(t)
    BY <1>0, <1>14, PendingSame DEF Swap, SwapThen, At, Goto, Return, shared
  <1>15. CASE QueryClose(t)
    BY <1>0, <1>15, PendingSame DEF QueryClose, At, Goto, Return, shared
  <1>16. CASE Unpublish(t)
    BY <1>0, <1>16, PendingSame DEF Unpublish, At, Goto, Return, shared
  <1>17. CASE DeleteCheck(t)
    BY <1>0, <1>17, PendingSame DEF DeleteCheck, At, Goto, Return, shared
  <1>18. CASE SetClosing(t)
    BY <1>0, <1>18, PendingSame DEF SetClosing, At, Goto, Return, shared
  <1>19. CASE CloseLock(t)
    BY <1>0, <1>19, PendingSame DEF CloseLock, At, Goto, Return, shared
  <1>20. CASE CloseTimeout(t)
    BY <1>0, <1>20, PendingSame DEF CloseTimeout, CloseTimeoutThen, At, Goto, Return, shared
  <1>21. CASE Republish(t)
    BY <1>0, <1>21, PendingSame DEF Republish, At, Goto, Return, shared
  <1>22. CASE Teardown(t)
    BY <1>0, <1>22, PendingSame DEF Teardown, At, Goto, Return, shared
  <1>23. CASE Retire(t)
    BY <1>0, <1>23, RetireCase, PendingSame DEF Goto, Return
  <1>24. CASE Unlink(t)
    BY <1>0, <1>24, PendingSame DEF Unlink, At, Goto, Return, shared
  <1>25. CASE DropStale(t)
    BY <1>0, <1>25, PendingSame DEF DropStale, At, Goto, Return, shared
  <1>26. CASE AcquireRead(t)
    BY <1>0, <1>26, PendingSame DEF AcquireRead, At, Goto, Return, shared
  <1>27. CASE OpenFile(t)
    BY <1>0, <1>27, PendingSame DEF OpenFile, At, Goto, Return, shared
  <1>28. CASE PublishOpen(t)
    BY <1>0, <1>28, PendingSame DEF PublishOpen, At, Goto, Return, shared
  <1>29. CASE AssignDefault(t)
    BY <1>0, <1>29, PendingSame DEF AssignDefault, At, Goto, Return, shared
  <1>30. QED
    BY <1>2, <1>3, <1>4, <1>5, <1>6, <1>7, <1>8, <1>9, <1>10, <1>11, <1>12, <1>13, <1>14, <1>15, <1>16, <1>17, <1>18, <1>19, <1>20, <1>21, <1>22, <1>23, <1>24, <1>25, <1>26, <1>27, <1>28, <1>29
    DEF Acts, Call, Step

-----------------------------------------------------------------------------
(* Theorems *)

LEMMA SharedInit == Init => SharedInv
  <1> SUFFICES ASSUME Init PROVE SharedInv
    OBVIOUS
  <1> USE DEF Init
  <1>1. Typed /\ \A a \in Handles : handle[a] = FreshStruct
    BY HandleAssumption DEF Typed, Struct, FreshStruct, Labels
  <1>2. TaskInv
    BY DEF TaskInv, UserLabels, CloseLabels, OpenLabels
  <1>3. HeapInv
    BY HandleAssumption DEF HeapInv
  <1>4. LockInv
    BY <1>1, HandleAssumption DEF LockInv, Holds, InCall, Inside, FreshStruct, Tasks
  <1>5. OpensInv
    <2>1. Pending = {}  BY DEF Pending, Tasks
    <2>2. Cardinality(Keepers) \in Nat  BY FS_CardinalityType, HandleAssumption
    <2>3. QED  BY <2>1, <2>2, FS_EmptySet, HandleAssumption DEF OpensInv
  <1>6. ClosingHasCloser /\ MigratingHasMigrator
    BY <1>1 DEF ClosingHasCloser, MigratingHasMigrator, FreshStruct
  <1>7. QED  BY <1>1, <1>2, <1>3, <1>4, <1>5, <1>6 DEF SharedInv

LEMMA SharedStep ==
  ASSUME SharedInv, [Next]_vars
  PROVE  SharedInv'
  <1>1. CASE Next
    <2>1. PICK t \in Tasks : Acts(t)  BY <1>1 DEF Next, Acts
    <2>2. QED
      BY <2>1, TypedStep, TaskStep, HeapStep, LockStep, OpensStep, ClosingStep, MigratingStep
      DEF SharedInv
  <1>2. CASE UNCHANGED vars
    BY <1>2 DEF SharedInv, Typed, TaskInv, HeapInv, LockInv, Holds, InCall, OpensInv, Pending,
                ClosingHasCloser, MigratingHasMigrator, vars, shared, local
  <1>3. QED  BY <1>1, <1>2

LEMMA SharedAlways == Spec => []SharedInv
  BY SharedInit, SharedStep, PTL DEF Spec

(* Structs, recycler, global pointer and locals keep their types, and the  *)
(* recursion count of a mutex never goes below zero, however the calls of  *)
(* any number of tasks interleave.                                         *)
THEOREM HandleTypes == Spec => []TypeOK
  <1>1. SharedInv => TypeOK
    <2>1. IsFiniteSet(Pending)  BY FS_Subset, HandleAssumption DEF Pending
    <2>2. Cardinality(Pending) \in Nat /\ Cardinality(Keepers) \in Nat
      BY <2>1, FS_CardinalityType, HandleAssumption
    <2>3. SharedInv => opens \in 0 .. MaxOpens + Cardinality(Keepers)
      BY <2>2, HandleAssumption DEF SharedInv, Typed, OpensInv
    <2>4. QED  BY <2>3 DEF SharedInv, Typed, TypeOK
  <1>2. QED  BY <1>1, SharedAlways, PTL

(* closing is never left set without a tsdb_close_h that will clear it: no *)
(* handle turns writers and queries away for good after a close that timed *)
(* out, and no recycled one starts that way.                               *)
THEOREM ClosingIsOwned == Spec => []ClosingHasCloser
  BY SharedAlways, PTL DEF SharedInv

(* migrating is never left set without its migration, whichever of copy,   *)
(* swap and reopen fails.                                                  *)
THEOREM MigratingIsOwned == Spec => []MigratingHasMigrator
  BY SharedAlways, PTL DEF SharedInv

(* Mutual exclusion: while a task is inside a call or has a query open, it *)
(* owns the mutex of that handle as often as it took it, and no other task *)
(* is inside a call on the handle or has a query open on it.               *)
MutexHolds ==
  \A t \in Tasks, a \in Handles :
    Holds(t, a) > 0 =>
      /\ handle[a].owner = t
      /\ handle[a].depth = Holds(t, a)
      /\ \A u \in Tasks \ {t} : Holds(u, a) = 0

THEOREM MutualExclusion == Spec => []MutexHolds
  <1>1. SharedInv => MutexHolds  BY DEF SharedInv, LockInv, MutexHolds
  <1>2. QED  BY <1>1, SharedAlways, PTL

(* Only a task that holds a handle's mutex, in a step that moves it on,    *)
(* closes the file under a query.                                          *)
LEMMA DanglingMoves ==
  ASSUME Typed, TaskInv, HeapInv, LockInv, NEW t \in Tasks, Acts(t),
         NEW a \in Handles, ~handle[a].dangling, handle'[a].dangling
  PROVE  InCall(t, a) /\ pc'[t] # pc[t]
  <1> USE DEF Touched
  <1>1. CASE Outside(t)  BY <1>1, OutsideEffect
  <1>2. CASE TakeLock(t) \/ CloseLock(t)  BY <1>2, LockEffect
  <1>3. CASE Recheck(t)  BY <1>3, RecheckEffect
  <1>4. CASE QueryClose(t)  BY <1>4, QueryCloseEffect
  <1>5. CASE UseAndUnlock(t)
    <2>1. pc[t] = "use" /\ pc'[t] = "idle"
      BY <1>5 DEF UseAndUnlock, At, Return, Goto, Typed
    <2>2. QED  BY <1>5, <2>1, UseEffect DEF InCall, Inside
  <1>6. CASE StartMigration(t)  BY <1>6, StartMigrationEffect
  <1>7. CASE LeaveOriginal(t)
    <2>1. pc[t] = "migrate" /\ pc'[t] \in {"idle", "swap"}
      BY <1>7 DEF LeaveOriginal, At, Return, Goto, Typed
    <2>2. QED  BY <1>7, <2>1, LeaveOriginalEffect DEF InCall, Inside
  <1>8. CASE Swap(t)  BY <1>8, SwapEffect
  <1>9. CASE SetClosing(t) \/ CloseTimeout(t)  BY <1>9, ClosingEffect
  <1>10. CASE Teardown(t)
    <2>1. pc[t] = "teardown" /\ pc'[t] = "retire"
      BY <1>10 DEF Teardown, At, Goto, Typed
    <2>2. QED  BY <1>10, <2>1, TeardownEffect DEF InCall, Inside
  <1>11. CASE AcquireTake(t)  BY <1>11, AcquireEffect DEF HeapInv, Typed
  <1>12. CASE OpenFile(t)  BY <1>12, OpenFileEffect
  <1>13. CASE PublishOpen(t)  BY <1>13, PublishEffect
  <1>14. QED
    BY <1>1, <1>2, <1>3, <1>4, <1>5, <1>6, <1>7, <1>8, <1>9, <1>10, <1>11, <1>12, <1>13
    DEF Acts, Call, Step, Outside

(* However many tasks open, close and use the database, the file an open   *)
(* query reads from is closed by no other task than the query's own:       *)
(* tsdb_sync_h, the migration's swap and tsdb_close_h of the others wait   *)
(* for its mutex.                                                          *)
THEOREM QueryFileIsKept == Spec => QueryKeepsFile
  <1>1. SharedInv /\ [Next]_vars =>
          [\A t \in Tasks, a \in Handles :
             query[t] = a /\ ~handle[a].dangling /\ handle'[a].dangling => pc'[t] # pc[t]]_vars
    <2> SUFFICES ASSUME SharedInv, Next, NEW t \in Tasks, NEW a \in Handles,
                        query[t] = a, ~handle[a].dangling, handle'[a].dangling
                 PROVE  pc'[t] # pc[t]
      OBVIOUS
    <2>1. PICK u \in Tasks : Acts(u)  BY DEF Next, Acts
    <2>2. InCall(u, a) /\ pc'[u] # pc[u]  BY <2>1, DanglingMoves DEF SharedInv
    <2>3. handle[a].owner = u /\ handle[a].owner = t
      BY <2>2, InsideOwns DEF SharedInv
    <2>4. QED  BY <2>2, <2>3
  <1>2. QED  BY <1>1, SharedAlways, PTL DEF Spec, QueryKeepsFile

-----------------------------------------------------------------------------
(***************************************************************************)
(* The rest assumes that the calls of tsdb_init, tsdb_close and            *)
(* tsdb_delete do not overlap: any number of tasks may make them, and any  *)
(* number of tasks write, query, sync and migrate all the while.           *)
(***************************************************************************)

-----------------------------------------------------------------------------
(* What KeeperInv says at once *)

(* Whoever uses a handle has its mutex. *)
LEMMA UserOwns ==
  ASSUME Typed, TaskInv, LockInv, NEW t \in Tasks, NEW a \in Handles, Using(t, a)
  PROVE  handle[a].owner = t /\ t \in Users
  <1>1. InCall(t, a) \/ query[t] = a  BY DEF Using, Operating, InCall, Inside
  <1>2. handle[a].owner = t  BY <1>1, InsideOwns
  <1>3. t \in Users  BY HandleAssumption DEF Using, Operating, TaskInv, UserLabels, Tasks
  <1>4. QED  BY <1>2, <1>3

LEMMA UserAlone ==
  ASSUME Typed, TaskInv, LockInv, NEW t \in Tasks, NEW a \in Handles,
         InCall(t, a) \/ query[t] = a, NEW u \in Tasks \ {t}
  PROVE  ~Using(u, a)
  BY InsideOwns, UserOwns

(* While a handle is being opened, or after it was torn down, none is open.*)
LEMMA NoneOpen ==
  ASSUME Typed, OpenInv, BusyInv, KeepersTakeTurns, NEW k \in Keepers,
         pc[k] \in {"retire", "unlink", "drop", "acquire", "take", "opening", "publish"},
         NEW a \in Handles
  PROVE  ~handle[a].isOpen
  <1>1. default # a \/ ~handle[a].isOpen  BY HandleAssumption DEF BusyInv
  <1>2. \A j \in Keepers : j # k => pc[j] = "idle"  BY DEF KeepersTakeTurns
  <1>3. \A j \in Keepers : pc[j] \notin CloseLabels \cup {"assign"}  BY <1>2 DEF CloseLabels
  <1>4. QED  BY <1>1, <1>3 DEF OpenInv

(* At most one handle is open. *)
LEMMA OneOpen ==
  ASSUME Typed, OpenInv, BusyInv, KeepersTakeTurns,
         NEW a \in Handles, NEW b \in Handles, handle[a].isOpen, handle[b].isOpen
  PROVE  a = b
  <1> DEFINE Held(c) == \E k \in Keepers : ref[k] = c /\ pc[k] \in CloseLabels \cup {"assign"}
  <1>1. (default = a \/ Held(a)) /\ (default = b \/ Held(b))  BY DEF OpenInv
  <1>2. ASSUME NEW c \in Handles, NEW d \in Handles, default = c, Held(d)
        PROVE  c = d
    BY <1>2, HandleAssumption DEF BusyInv, CloseLabels
  <1>3. ASSUME Held(a), Held(b)
        PROVE  a = b
    BY <1>3 DEF KeepersTakeTurns, CloseLabels
  <1>4. QED  BY <1>1, <1>2, <1>3

-----------------------------------------------------------------------------
(* Steps of the tasks that use the database *)

(* A user's step leaves the keepers alone, and what it does to the handles *)
(* is to close the one it works on, or to move its file along.             *)
LEMMA UserFrame ==
  ASSUME Typed, OpenInv, ParkedInv, BusyInv, NEW t \in Users, OthersStay(t),
         UNCHANGED <<parked, default>>,
         \A a \in Handles : handle'[a].isOpen => handle[a].isOpen /\ handle'[a].file = disk',
         \A k \in Keepers : pc[k] = "publish" => handle'[ref[k]].file = disk'
  PROVE  OpenInv' /\ ParkedInv' /\ BusyInv'
  <1>1. \A k \in Keepers : pc'[k] = pc[k] /\ ref'[k] = ref[k]
    BY HandleAssumption DEF OthersStay, Tasks
  <1>2. OpenInv'  BY <1>1 DEF OpenInv
  <1>3. ParkedInv'  BY <1>1 DEF ParkedInv, Typed
  <1>4. BusyInv'  BY <1>1, HandleAssumption DEF BusyInv, Typed
  <1>5. QED  BY <1>2, <1>3, <1>4

(* The same for a step that changes no file. *)
LEMMA UserFrameSameFile ==
  ASSUME Typed, TaskInv, OpenInv, ParkedInv, BusyInv, NEW t \in Users, OthersStay(t),
         UNCHANGED <<parked, default, disk>>,
         \A a \in Handles : /\ handle'[a].isOpen => handle[a].isOpen
                            /\ handle'[a].file = handle[a].file
  PROVE  OpenInv' /\ ParkedInv' /\ BusyInv'
  <1>1. \A k \in Keepers : pc[k] = "publish" => ref[k] \in Handles
    BY DEF TaskInv, Tasks
  <1>2. QED  BY <1>1, UserFrame DEF OpenInv, BusyInv

(* A struct that stays open, of its generation and with its queries' file. *)
Kept(x, y) ==
  /\ y.dangling = x.dangling
  /\ x.isOpen => y.isOpen /\ y.gen = x.gen

(* What the invariant asks of task t itself after its step. *)
MoverUse(t) ==
  /\ \A a \in Handles : Works(t, a)' => handle'[a].isOpen
  /\ pc'[t] = "swap" /\ query'[t] = ref'[t] => handle'[ref'[t]].dangling
  /\ pc'[t] = "use" => handle'[ref'[t]].gen = gen'[t]

(* What the other tasks use stays as they know it. *)
LEMMA UseFrame ==
  ASSUME Typed, TaskInv, UseInv, NEW t \in Tasks, OthersStay(t), MoverUse(t),
         \A u \in Tasks \ {t}, a \in Handles : Using(u, a) => Kept(handle[a], handle'[a])
  PROVE  UseInv'
  <1>1. \A u \in Tasks \ {t}, a \in Handles :
           /\ Works(u, a)' => Using(u, a)
           /\ Using(u, a) /\ Works(u, a)' => Works(u, a)
    BY DEF Using, Works, Operating, OthersStay, Kept
  <1>2. \A u \in Tasks, a \in Handles : Works(u, a)' => handle'[a].isOpen
    BY <1>1 DEF UseInv, Kept, MoverUse
  <1>3. ASSUME NEW u \in Tasks \ {t}, pc'[u] \in {"use", "swap"}
        PROVE  /\ pc'[u] = "use" => handle'[ref'[u]].gen = gen'[u]
               /\ pc'[u] = "swap" /\ query'[u] = ref'[u] => handle'[ref'[u]].dangling
    <2>1. pc[u] = pc'[u] /\ ref'[u] = ref[u] /\ gen'[u] = gen[u] /\ query'[u] = query[u]
      BY DEF OthersStay
    <2>2. ref[u] \in Handles  BY <1>3, <2>1, RefTyped
    <2>3. Using(u, ref[u]) /\ Works(u, ref[u])  BY <1>3, <2>1 DEF Using, Works, Operating
    <2>4. handle[ref[u]].isOpen /\ Kept(handle[ref[u]], handle'[ref[u]])
      BY <2>2, <2>3 DEF UseInv
    <2>5. QED  BY <2>1, <2>4 DEF UseInv, StragglersBail, Kept, At
  <1>4. StragglersBail'  BY <1>3 DEF StragglersBail, MoverUse
  <1>5. \A u \in Tasks : At(u, "swap")' /\ query'[u] = ref'[u] => handle'[ref'[u]].dangling
    BY <1>3 DEF MoverUse, At
  <1>6. QED  BY <1>2, <1>4, <1>5 DEF UseInv

(* t changes a handle that it alone has locked. *)
LEMMA UseFrameTouched ==
  ASSUME Typed, TaskInv, LockInv, UseInv, NEW t \in Tasks, OthersStay(t), MoverUse(t),
         NEW b \in Handles, InCall(t, b) \/ query[t] = b, Touched(b)
  PROVE  UseInv'
  <1>1. \A u \in Tasks \ {t}, a \in Handles : Using(u, a) => Kept(handle[a], handle'[a])
    BY UserAlone DEF Touched, Kept
  <1>2. QED  BY <1>1, UseFrame

(* The steps of the operations keep KeeperInv. *)
UserActs(t) ==
  \/ t \in Users /\ \E c \in UserCalls : LoadDefault(t, c)
  \/ PreCheck(t) \/ CaptureGeneration(t) \/ TakeLock(t) \/ LockTimeout(t)
  \/ Recheck(t) \/ UseAndUnlock(t)
  \/ StartMigration(t) \/ LeaveOriginal(t) \/ Swap(t) \/ QueryClose(t)

LEMMA UserActsUser ==
  ASSUME TaskInv, NEW t \in Tasks, UserActs(t)
  PROVE  t \in Users /\ Acts(t)
  <1>1. Acts(t)  BY DEF UserActs, Acts, Call, Step
  <1>2. CASE QueryClose(t)
    BY <1>1, <1>2 DEF QueryClose, TaskInv, Tasks
  <1>3. CASE ~QueryClose(t)
    <2>1. pc[t] \in UserLabels \ {"idle"} \/ t \in Users
      BY <1>3 DEF UserActs, UserLabels, At, PreCheck, CaptureGeneration, TakeLock, LockTimeout,
         Recheck, RecheckThen, UseAndUnlock, StartMigration, LeaveOriginal, Swap, SwapThen
    <2>2. QED  BY <1>1, <2>1 DEF TaskInv
  <1>4. QED  BY <1>2, <1>3

LEMMA UserStep ==
  ASSUME Typed, TaskInv, LockInv, KeeperInv, KeepersTakeTurns, NEW t \in Tasks, UserActs(t)
  PROVE  KeeperInv'
  <1> USE DEF KeeperInv
  <1>0. t \in Users /\ OthersStay(t)  BY UserActsUser, OnlyActorMoves
  <1>1. CASE \/ \E c \in UserCalls : LoadDefault(t, c)
             \/ PreCheck(t) \/ CaptureGeneration(t) \/ LockTimeout(t)
    <2>1. /\ UNCHANGED <<handle, parked, default, disk, query>>
          /\ pc'[t] \notin {"use", "migrate", "swap"}
      BY <1>1 DEF LoadDefault, PreCheck, CaptureGeneration, LockTimeout, shared, Goto, Return, Typed
    <2>2. OpenInv' /\ ParkedInv' /\ BusyInv'  BY <1>0, <2>1, UserFrameSameFile
    <2>3. MoverUse(t)  BY <2>1 DEF MoverUse, Works, Operating, UseInv
    <2>4. UseInv'  BY <1>0, <2>1, <2>3, UseFrame DEF Kept
    <2>5. QED  BY <2>2, <2>4
  <1>2. CASE TakeLock(t)
    <2>1. /\ UNCHANGED <<parked, default, disk, query>> /\ pc'[t] = "recheck"
      BY <1>2 DEF TakeLock, Goto, Typed
    <2>2. \A a \in Handles : /\ handle'[a].isOpen = handle[a].isOpen
                             /\ handle'[a].file = handle[a].file
                             /\ Kept(handle[a], handle'[a])
      BY <1>2, LockEffect DEF Touched, MutexOnly, Kept
    <2>3. OpenInv' /\ ParkedInv' /\ BusyInv'  BY <1>0, <2>1, <2>2, UserFrameSameFile
    <2>4. MoverUse(t)  BY <2>1, <2>2 DEF MoverUse, Works, Operating, UseInv, Kept
    <2>5. UseInv'  BY <1>0, <2>2, <2>4, UseFrame
    <2>6. QED  BY <2>3, <2>5
  <1>3. CASE Recheck(t)
    <2>1. /\ UNCHANGED <<parked, default, disk>> /\ pc[t] = "recheck" /\ ref[t] \in Handles
      BY <1>3, RefTyped DEF Recheck, RecheckThen, At
    <2>2. \A a \in Handles : /\ handle'[a].isOpen = handle[a].isOpen
                             /\ handle'[a].file = handle[a].file
                             /\ handle'[a].gen = handle[a].gen
                             /\ handle'[a].dangling = handle[a].dangling
      BY <1>3, RecheckEffect DEF Touched, MutexOnly
    <2>3. OpenInv' /\ ParkedInv' /\ BusyInv'  BY <1>0, <2>1, <2>2, UserFrameSameFile
    <2>4. \/ /\ handle[ref[t]].isOpen /\ handle[ref[t]].gen = gen[t] /\ UNCHANGED gen
             /\ \/ Goto(t, "use") /\ UNCHANGED <<ref, query>>
                \/ Return(t) /\ query' = [query EXCEPT ![t] = ref[t]]
          \/ Return(t) /\ UNCHANGED query
      BY <1>3 DEF Recheck, RecheckThen
    <2>5. MoverUse(t)
      BY <2>1, <2>2, <2>4 DEF MoverUse, Works, Operating, UseInv, Goto, Return, Typed
    <2>6. UseInv'  BY <1>0, <2>2, <2>5, UseFrame DEF Kept
    <2>7. QED  BY <2>3, <2>6
  <1>4. CASE UseAndUnlock(t)
    <2>1. /\ UNCHANGED <<parked, default, disk, query>>
          /\ pc[t] = "use" /\ pc'[t] = "idle" /\ ref[t] \in Handles
      BY <1>4, RefTyped DEF UseAndUnlock, At, Return, Goto, Typed
    <2>2. \A a \in Handles : /\ handle'[a].isOpen => handle[a].isOpen
                             /\ handle'[a].file = handle[a].file
      BY <1>4, UseEffect DEF Touched
    <2>3. OpenInv' /\ ParkedInv' /\ BusyInv'  BY <1>0, <2>1, <2>2, UserFrameSameFile
    <2>4. handle[ref[t]].isOpen  BY <2>1 DEF UseInv, Works, Operating
    <2>5. MoverUse(t)
      BY <1>4, <2>1, <2>4, UseEffect DEF Touched, MoverUse, Works, Operating, UseInv
    <2>6. UseInv'
      BY <1>0, <1>4, <2>1, <2>5, UseEffect, UseFrameTouched DEF InCall, Inside
    <2>7. QED  BY <2>3, <2>6
  <1>5. CASE StartMigration(t)
    <2>1. /\ UNCHANGED <<parked, default, disk, query, ref>>
          /\ pc[t] = "use" /\ pc'[t] = "migrate" /\ ref[t] \in Handles
      BY <1>5, RefTyped DEF StartMigration, At, Goto, Typed
    <2>2. \A a \in Handles : /\ handle'[a].isOpen = handle[a].isOpen
                             /\ handle'[a].file = handle[a].file
                             /\ handle'[a].dangling = handle[a].dangling
      BY <1>5, StartMigrationEffect DEF Touched, SameFile
    <2>3. OpenInv' /\ ParkedInv' /\ BusyInv'  BY <1>0, <2>1, <2>2, UserFrameSameFile
    <2>4. MoverUse(t)
      BY <2>1, <2>2 DEF MoverUse, Works, Operating, UseInv
    <2>5. UseInv'
      BY <1>0, <1>5, <2>1, <2>4, StartMigrationEffect, UseFrameTouched DEF InCall, Inside
    <2>6. QED  BY <2>3, <2>5
  <1>6. CASE QueryClose(t)
    <2>1. UNCHANGED <<parked, default, disk, pc, ref>> /\ pc[t] = "idle" /\ query'[t] = None
      BY <1>6 DEF QueryClose, At, Typed
    <2>2. \A a \in Handles : /\ handle'[a].isOpen = handle[a].isOpen
                             /\ handle'[a].file = handle[a].file
      BY <1>6, QueryCloseEffect DEF Touched, MutexOnly
    <2>3. OpenInv' /\ ParkedInv' /\ BusyInv'  BY <1>0, <2>1, <2>2, UserFrameSameFile
    <2>4. MoverUse(t)
      BY <2>1, <2>2, HandleAssumption DEF MoverUse, Works, Operating
    <2>5. UseInv'
      BY <1>0, <1>6, <2>4, QueryCloseEffect, UseFrameTouched
    <2>6. QED  BY <2>3, <2>5
  <1>7. CASE LeaveOriginal(t) \/ Swap(t)
    <2>1. /\ UNCHANGED <<parked, default, query>>
          /\ pc[t] = IF Swap(t) THEN "swap" ELSE "migrate"
          /\ ref[t] \in Handles
      BY <1>7, RefTyped DEF LeaveOriginal, Swap, SwapThen, At
    <2>2. handle[ref[t]].isOpen
      BY <2>1 DEF UseInv, Works, Operating
    <2>3. /\ Touched(ref[t])
          /\ handle'[ref[t]].isOpen => handle[ref[t]].isOpen /\ handle'[ref[t]].file = disk'
      BY <1>7, <2>1, <2>2, LeaveOriginalEffect, SwapEffect DEF OpenInv
    <2>4. \A a \in Handles : a # ref[t] => ~handle[a].isOpen
      BY <2>1, <2>2, OneOpen
    <2>5. \A k \in Keepers : pc[k] # "publish"
      BY <2>1, <2>2, NoneOpen
    <2>6. \A a \in Handles : handle'[a].isOpen => handle[a].isOpen /\ handle'[a].file = disk'
      BY <2>3, <2>4 DEF Touched
    <2>7. OpenInv' /\ ParkedInv' /\ BusyInv'  BY <1>0, <2>1, <2>5, <2>6, UserFrame
    <2>8. \/ /\ pc'[t] = "swap" /\ ref'[t] = ref[t] /\ handle'[ref[t]].isOpen
             /\ query[t] = ref[t] => handle'[ref[t]].dangling
          \/ pc'[t] = "idle" /\ handle'[ref[t]].isOpen
          \/ pc'[t] = "idle" /\ (query[t] = ref[t] => handle'[ref[t]].dangling)
      <3>1. CASE LeaveOriginal(t)
        BY <3>1, <2>2, LeaveOriginalEffect DEF Return, Goto, Typed
      <3>2. CASE Swap(t)
        <4>1. pc[t] = "swap" /\ pc'[t] = "idle"
          BY <3>2 DEF Swap, SwapThen, At, Return, Goto, Typed
        <4>2. query[t] = ref[t] => handle[ref[t]].dangling  BY <4>1 DEF UseInv, At
        <4>3. handle'[ref[t]].dangling = handle[ref[t]].dangling  BY <3>2, SwapEffect
        <4>4. QED  BY <4>1, <4>2, <4>3
      <3>3. QED  BY <1>7, <3>1, <3>2
    <2>9. MoverUse(t)
      BY <2>1, <2>2, <2>3, <2>8 DEF MoverUse, Works, Operating, UseInv, Touched
    <2>10. UseInv'
      BY <1>0, <2>1, <2>3, <2>9, UseFrameTouched DEF InCall, Inside
    <2>11. QED  BY <2>7, <2>10
  <1>8. QED  BY <1>0, <1>1, <1>2, <1>3, <1>4, <1>5, <1>6, <1>7 DEF UserActs

-----------------------------------------------------------------------------
(* Steps of the task that opens, closes or deletes *)

(* The keeper's own step disturbs no user as long as what is used stays    *)
(* open, of its generation and on its file.                                *)
LEMMA KeeperUse ==
  ASSUME Typed, TaskInv, LockInv, UseInv, NEW t \in Keepers, OthersStay(t), TaskInv',
         \A a \in Handles : handle[a].owner # t => Kept(handle[a], handle'[a])
  PROVE  UseInv'
  <1>1. t \in Tasks /\ t \notin Users /\ None \notin Handles  BY HandleAssumption DEF Tasks
  <1>2. \A u \in Tasks \ {t}, a \in Handles : Using(u, a) => Kept(handle[a], handle'[a])
    BY <1>1, UserOwns
  <1>3. query'[t] = None /\ pc'[t] \notin {"use", "migrate", "swap"}
    BY <1>1 DEF TaskInv, UserLabels
  <1>4. MoverUse(t)  BY <1>1, <1>3 DEF MoverUse, Works, Operating
  <1>5. QED  BY <1>1, <1>2, <1>4, UseFrame

(* All that is left to show of the keeper that moves, the others being     *)
(* idle.                                                                   *)
MoverOpen(t) ==
  \A a \in Handles : handle'[a].isOpen =>
    /\ handle'[a].file = disk'
    /\ default' = a \/ (ref'[t] = a /\ pc'[t] \in CloseLabels \cup {"assign"})

MoverParked(t) ==
  parked' # None =>
    /\ ~handle'[parked'].isOpen
    /\ default' # parked'
    /\ pc'[t] \in CloseLabels \cup {"retire", "opening", "publish", "assign"} => ref'[t] # parked'

MoverBusy(t) ==
  /\ pc'[t] = "unpublish" => default' = ref'[t]
  /\ pc'[t] \notin {"idle", "unpublish", "drop"} => default' = None
  /\ pc'[t] = "drop" /\ default' # None => ~handle'[default'].isOpen
  /\ pc'[t] = "take" => ref'[t] = parked'
  /\ pc'[t] = "publish" => handle'[ref'[t]].file = disk'

LEMMA KeeperFrame ==
  ASSUME KeepersTakeTurns, KeepersTakeTurns', NEW t \in Keepers, OthersStay(t),
         pc[t] # "idle" \/ pc'[t] # "idle",
         MoverOpen(t), MoverParked(t), MoverBusy(t)
  PROVE  OpenInv' /\ ParkedInv' /\ BusyInv'
  <1>1. \A k \in Keepers \ {t} : pc'[k] = "idle"
    BY DEF KeepersTakeTurns, OthersStay, Tasks
  <1>2. OpenInv'  BY <1>1 DEF OpenInv, MoverOpen
  <1>3. ParkedInv'  BY <1>1 DEF ParkedInv, MoverParked, CloseLabels
  <1>4. BusyInv'  BY <1>1 DEF BusyInv, MoverBusy
  <1>5. QED  BY <1>2, <1>3, <1>4

(* What the invariant says of the keeper at work before its step. *)
LEMMA KeeperFacts ==
  ASSUME OpenInv, ParkedInv, BusyInv, KeepersTakeTurns, NEW t \in Keepers, pc[t] # "idle"
  PROVE  /\ \A a \in Handles : handle[a].isOpen =>
              /\ handle[a].file = disk
              /\ default = a \/ (ref[t] = a /\ pc[t] \in CloseLabels \cup {"assign"})
         /\ parked # None => /\ ~handle[parked].isOpen
                             /\ default # parked
                             /\ pc[t] \in CloseLabels \cup {"retire", "opening", "publish", "assign"}
                                  => ref[t] # parked
  <1>1. \A k \in Keepers \ {t} : pc[k] = "idle"  BY DEF KeepersTakeTurns
  <1>2. QED  BY <1>1 DEF OpenInv, ParkedInv, CloseLabels

(* The steps of tsdb_init, tsdb_close and tsdb_delete keep KeeperInv. *)
KeeperActs(t) ==
  \/ t \in Openers /\ InitCheck(t)
  \/ t \in Closers /\ LoadToClose(t, "close")
  \/ t \in Deleters /\ LoadToClose(t, "delete")
  \/ Unpublish(t) \/ DeleteCheck(t) \/ SetClosing(t) \/ CloseLock(t)
  \/ CloseTimeout(t) \/ Republish(t) \/ Teardown(t) \/ Retire(t) \/ Unlink(t)
  \/ DropStale(t) \/ AcquireRead(t) \/ AcquireTake(t) \/ OpenFile(t)
  \/ PublishOpen(t) \/ AssignDefault(t)

LEMMA KeeperStep ==
  ASSUME Typed, TaskInv, TaskInv', HeapInv, LockInv, KeeperInv, KeepersTakeTurns, KeepersTakeTurns',
         NEW t \in Keepers, KeeperActs(t)
  PROVE  KeeperInv'
  <1> USE DEF KeeperInv, MoverOpen, MoverParked, MoverBusy
  <1>0. t \in Tasks /\ OthersStay(t)
    BY OnlyActorMoves DEF KeeperActs, Acts, Call, Step, Tasks
  <1>a. None \notin Handles  BY HandleAssumption
  <1>1. CASE InitCheck(t) \/ \E c \in {"close", "delete"} : LoadToClose(t, c)
    <2>1. /\ UNCHANGED shared /\ pc[t] = "idle"
          /\ \/ pc'[t] = "drop" /\ (default # None => ~handle[default].isOpen)
             \/ pc'[t] = "unpublish" /\ ref'[t] = default /\ default # None
      BY <1>0, <1>1 DEF InitCheck, LoadToClose, At, Goto, Typed
    <2>2. \A k \in Keepers : pc[k] = "idle"
      BY <1>0, <2>1 DEF KeepersTakeTurns, OthersStay, Tasks
    <2>3. \A a \in Handles : handle[a].isOpen => default = a /\ handle[a].file = disk
      BY <2>2 DEF OpenInv, CloseLabels
    <2>4. MoverOpen(t) /\ MoverParked(t) /\ MoverBusy(t)
      BY <1>a, <2>1, <2>3 DEF ParkedInv, shared, CloseLabels
    <2>5. UseInv'  BY <1>0, <2>1, KeeperUse DEF shared, Kept
    <2>6. QED  BY <1>0, <2>1, <2>4, <2>5, KeeperFrame
  <1>2. CASE Unpublish(t)
    <2>1. /\ pc[t] = "unpublish" /\ UNCHANGED <<handle, parked, disk>>
          /\ default' = None /\ ref'[t] = ref[t] /\ pc'[t] \in {"delcheck", "flag"}
      BY <1>0, <1>2 DEF Unpublish, At, Goto, Return, shared, Typed
    <2>2. ref[t] \in Handles \cup {None}  BY <1>0 DEF Typed
    <2>3. MoverOpen(t) /\ MoverParked(t) /\ MoverBusy(t)
      BY <1>0, <1>a, <2>1, <2>2, KeeperFacts DEF BusyInv, CloseLabels, TaskInv, Typed
    <2>4. UseInv'  BY <1>0, <2>1, KeeperUse DEF Kept
    <2>5. QED  BY <1>0, <2>1, <2>3, <2>4, KeeperFrame
  <1>3. CASE DeleteCheck(t)
    <2>1. /\ pc[t] = "delcheck" /\ UNCHANGED <<handle, parked, default, disk>>
          /\ (pc'[t] = "flag" /\ ref'[t] = ref[t]) \/ (pc'[t] = "idle" /\ ~handle[ref[t]].isOpen)
      BY <1>0, <1>3 DEF DeleteCheck, At, Goto, Return, shared, Typed
    <2>2. ref[t] \in Handles \cup {None}  BY <1>0 DEF Typed
    <2>3. MoverOpen(t) /\ MoverParked(t) /\ MoverBusy(t)
      BY <1>0, <1>a, <2>1, <2>2, KeeperFacts DEF BusyInv, CloseLabels, TaskInv, Typed
    <2>4. UseInv'  BY <1>0, <2>1, KeeperUse DEF Kept
    <2>5. QED  BY <1>0, <2>1, <2>3, <2>4, KeeperFrame
  <1>4. CASE Republish(t)
    <2>1. /\ pc[t] = "republish" /\ UNCHANGED <<handle, parked, disk>>
          /\ default' = ref[t] /\ pc'[t] = "idle"
      BY <1>0, <1>4 DEF Republish, At, Goto, Return, shared, Typed
    <2>2. ref[t] \in Handles \cup {None}  BY <1>0 DEF Typed
    <2>3. MoverOpen(t) /\ MoverParked(t) /\ MoverBusy(t)
      BY <1>0, <1>a, <2>1, <2>2, KeeperFacts DEF BusyInv, CloseLabels, TaskInv, Typed
    <2>4. UseInv'  BY <1>0, <2>1, KeeperUse DEF Kept
    <2>5. QED  BY <1>0, <2>1, <2>3, <2>4, KeeperFrame
  <1>5. CASE DropStale(t)
    <2>1. /\ pc[t] = "drop" /\ UNCHANGED <<handle, parked, disk>>
          /\ default' = None /\ pc'[t] = "acquire"
      BY <1>0, <1>5 DEF DropStale, At, Goto, Return, shared, Typed
    <2>2. \A a \in Handles : ~handle[a].isOpen  BY <2>1, NoneOpen
    <2>3. MoverOpen(t) /\ MoverParked(t) /\ MoverBusy(t)
      BY <1>0, <1>a, <2>1, <2>2, KeeperFacts DEF BusyInv, CloseLabels, TaskInv, Typed
    <2>4. UseInv'  BY <1>0, <2>1, KeeperUse DEF Kept
    <2>5. QED  BY <1>0, <2>1, <2>3, <2>4, KeeperFrame
  <1>6. CASE AcquireRead(t)
    <2>1. /\ pc[t] = "acquire" /\ UNCHANGED <<handle, parked, default, disk>>
          /\ pc'[t] = "take" /\ ref'[t] = parked
      BY <1>0, <1>6 DEF AcquireRead, At, Goto, Return, shared, Typed
    <2>2. \A a \in Handles : ~handle[a].isOpen  BY <2>1, NoneOpen
    <2>3. MoverOpen(t) /\ MoverParked(t) /\ MoverBusy(t)
      BY <1>0, <1>a, <2>1, <2>2, KeeperFacts DEF BusyInv, CloseLabels, TaskInv, Typed
    <2>4. UseInv'  BY <1>0, <2>1, KeeperUse DEF Kept
    <2>5. QED  BY <1>0, <2>1, <2>3, <2>4, KeeperFrame
  <1>7. CASE AssignDefault(t)
    <2>1. /\ pc[t] = "assign" /\ UNCHANGED <<handle, parked, disk>>
          /\ default' = ref[t] /\ pc'[t] = "idle"
      BY <1>0, <1>7 DEF AssignDefault, At, Goto, Return, shared, Typed
    <2>2. ref[t] \in Handles \cup {None}  BY <1>0 DEF Typed
    <2>3. MoverOpen(t) /\ MoverParked(t) /\ MoverBusy(t)
      BY <1>0, <1>a, <2>1, <2>2, KeeperFacts DEF BusyInv, CloseLabels, TaskInv, Typed
    <2>4. UseInv'  BY <1>0, <2>1, KeeperUse DEF Kept
    <2>5. QED  BY <1>0, <2>1, <2>3, <2>4, KeeperFrame
  <1>8. CASE Unlink(t)
    <2>1. /\ pc[t] = "unlink" /\ UNCHANGED <<handle, parked, default>>
          /\ pc'[t] = "idle"
      BY <1>0, <1>8 DEF Unlink, At, Goto, Return, shared, Typed
    <2>2. \A a \in Handles : ~handle[a].isOpen  BY <2>1, NoneOpen
    <2>3. MoverOpen(t) /\ MoverParked(t) /\ MoverBusy(t)
      BY <1>0, <1>a, <2>1, <2>2, KeeperFacts DEF BusyInv, CloseLabels, TaskInv, Typed
    <2>4. UseInv'  BY <1>0, <2>1, KeeperUse DEF Kept
    <2>5. QED  BY <1>0, <2>1, <2>3, <2>4, KeeperFrame
  <1>9. CASE Retire(t)
    <2>1. /\ pc[t] = "retire" /\ UNCHANGED <<handle, default, disk>>
          /\ parked' \in {parked, ref[t]}
          /\ \/ pc'[t] = "assign" /\ ref'[t] = None
             \/ pc'[t] \in {"idle", "unlink"}
      BY <1>0, <1>9, RetireCase DEF Return, Goto, Typed
    <2>2. \A a \in Handles : ~handle[a].isOpen  BY <2>1, NoneOpen
    <2>3. MoverOpen(t) /\ MoverParked(t) /\ MoverBusy(t)
      BY <1>0, <1>a, <2>1, <2>2, KeeperFacts DEF BusyInv, CloseLabels, TaskInv, Typed
    <2>4. UseInv'  BY <1>0, <2>1, KeeperUse DEF Kept
    <2>5. QED  BY <1>0, <2>1, <2>3, <2>4, KeeperFrame
  <1>10. CASE SetClosing(t) \/ CloseTimeout(t)
    <2>1. /\ pc[t] \in {"flag", "closelock"} /\ pc'[t] \in {"closelock", "republish"}
          /\ UNCHANGED <<ref, parked, default, disk>> /\ ref[t] \in Handles
      BY <1>0, <1>10, RefTyped DEF SetClosing, CloseTimeout, CloseTimeoutThen, At, Goto, Typed
    <2>2. \A a \in Handles : /\ handle'[a].isOpen = handle[a].isOpen
                             /\ handle'[a].file = handle[a].file
                             /\ handle'[a].gen = handle[a].gen
                             /\ handle'[a].dangling = handle[a].dangling
      BY <1>0, <1>10, ClosingEffect DEF Touched, SameFile
    <2>4. MoverOpen(t) /\ MoverParked(t) /\ MoverBusy(t)
      BY <1>0, <1>a, <2>1, <2>2, KeeperFacts DEF BusyInv, CloseLabels, Typed
    <2>5. UseInv'  BY <1>0, <2>1, <2>2, KeeperUse DEF Kept
    <2>6. QED  BY <1>0, <2>1, <2>4, <2>5, KeeperFrame
  <1>11. CASE CloseLock(t)
    <2>1. /\ pc[t] = "closelock" /\ pc'[t] = "teardown"
          /\ UNCHANGED <<ref, parked, default, disk>> /\ ref[t] \in Handles
      BY <1>0, <1>11, RefTyped DEF CloseLock, At, Goto, Typed
    <2>2. \A a \in Handles : /\ handle'[a].isOpen = handle[a].isOpen
                             /\ handle'[a].file = handle[a].file
                             /\ handle'[a].gen = handle[a].gen
                             /\ handle'[a].dangling = handle[a].dangling
      BY <1>0, <1>11, LockEffect DEF Touched, MutexOnly
    <2>4. MoverOpen(t) /\ MoverParked(t) /\ MoverBusy(t)
      BY <1>0, <1>a, <2>1, <2>2, KeeperFacts DEF BusyInv, CloseLabels, Typed
    <2>5. UseInv'  BY <1>0, <2>1, <2>2, KeeperUse DEF Kept
    <2>6. QED  BY <1>0, <2>1, <2>4, <2>5, KeeperFrame
  <1>12. CASE Teardown(t)
    <2>1. /\ pc[t] = "teardown" /\ pc'[t] = "retire"
          /\ UNCHANGED <<ref, parked, default, disk>> /\ ref[t] \in Handles
      BY <1>0, <1>12, RefTyped DEF Teardown, At, Goto, Typed
    <2>2. Touched(ref[t]) /\ ~handle'[ref[t]].isOpen  BY <1>0, <1>12, TeardownEffect
    <2>3. handle[ref[t]].owner = t  BY <1>0, <2>1, InsideOwns DEF InCall, Inside
    <2>4. MoverOpen(t) /\ MoverParked(t) /\ MoverBusy(t)
      BY <1>0, <1>a, <2>1, <2>2, KeeperFacts DEF BusyInv, CloseLabels, Typed, Touched
    <2>5. UseInv'  BY <1>0, <2>2, <2>3, KeeperUse DEF Touched, Kept
    <2>6. QED  BY <1>0, <2>1, <2>4, <2>5, KeeperFrame
  <1>13. CASE AcquireTake(t)
    <2>1. /\ pc[t] = "take" /\ UNCHANGED <<default, disk>>
      BY <1>13 DEF AcquireTake, At
    <2>2. /\ pc'[t] \in {"opening", "assign"}
          /\ \A a \in Handles : handle'[a].isOpen => handle[a].isOpen
      BY <1>0, <1>13, AcquireEffect DEF Touched, Goto, Typed
    <2>9. \A a \in heap : handle[a].dangling = FALSE  BY DEF HeapInv, FreshStruct
    <2>10. \A a \in Handles : handle'[a].dangling = handle[a].dangling
      BY <1>0, <1>13, <2>9, AcquireEffect DEF Touched, Typed
    <2>3. \A a \in Handles : ~handle[a].isOpen  BY <2>1, NoneOpen
    <2>4. parked' = None \/ (parked' = parked /\ ref'[t] # parked) \/ (parked' = parked /\ parked = None)
      BY <1>0, <1>a, <1>13, AcquireEffect DEF HeapInv, Typed
    <2>5. default = None /\ (ref[t] = parked)  BY <2>1 DEF BusyInv
    <2>6. MoverOpen(t) /\ MoverParked(t) /\ MoverBusy(t)
      BY <1>0, <1>a, <2>1, <2>2, <2>3, <2>4, <2>5 DEF Typed
    <2>7. UseInv'  BY <1>0, <2>10, <2>3, KeeperUse DEF Kept
    <2>8. QED  BY <1>0, <2>1, <2>6, <2>7, KeeperFrame
  <1>14. CASE OpenFile(t)
    <2>1. /\ pc[t] = "opening" /\ pc'[t] \in {"publish", "retire"}
          /\ UNCHANGED <<ref, parked, default>> /\ ref[t] \in Handles
      BY <1>0, <1>14, RefTyped DEF OpenFile, At, Goto, Typed
    <2>2. /\ pc'[t] = "publish" => handle'[ref[t]].file = disk'
          /\ \A a \in Handles : /\ handle'[a].isOpen = handle[a].isOpen
                                /\ handle'[a].dangling = handle[a].dangling
      BY <1>0, <1>14, OpenFileEffect DEF Touched, Goto, Typed
    <2>3. \A a \in Handles : ~handle[a].isOpen  BY <2>1, NoneOpen
    <2>4. MoverOpen(t) /\ MoverParked(t) /\ MoverBusy(t)
      BY <1>0, <1>a, <2>1, <2>2, <2>3, KeeperFacts DEF BusyInv, CloseLabels, Typed
    <2>5. UseInv'  BY <1>0, <2>2, <2>3, KeeperUse DEF Kept
    <2>6. QED  BY <1>0, <2>1, <2>4, <2>5, KeeperFrame
  <1>15. CASE PublishOpen(t)
    <2>1. /\ pc[t] = "publish" /\ pc'[t] = "assign"
          /\ UNCHANGED <<ref, parked, default, disk>> /\ ref[t] \in Handles
      BY <1>0, <1>15, RefTyped DEF PublishOpen, At, Goto, Typed
    <2>2. /\ Touched(ref[t]) /\ handle'[ref[t]].file = handle[ref[t]].file
          /\ \A a \in Handles : handle'[a].dangling = handle[a].dangling
      BY <1>0, <1>15, PublishEffect DEF Touched
    <2>3. \A a \in Handles : ~handle[a].isOpen  BY <2>1, NoneOpen
    <2>4. MoverOpen(t) /\ MoverParked(t) /\ MoverBusy(t)
      BY <1>0, <1>a, <2>1, <2>2, <2>3, KeeperFacts DEF BusyInv, CloseLabels, Typed, Touched
    <2>5. UseInv'  BY <1>0, <2>2, <2>3, KeeperUse DEF Kept
    <2>6. QED  BY <1>0, <2>1, <2>4, <2>5, KeeperFrame
  <1>16. QED
    BY <1>1, <1>2, <1>3, <1>4, <1>5, <1>6, <1>7, <1>8, <1>9, <1>10, <1>11, <1>12, <1>13, <1>14, <1>15
    DEF KeeperActs

-----------------------------------------------------------------------------
(* Theorems *)

LEMMA KeeperInit == Init => KeeperInv
  <1> SUFFICES ASSUME Init PROVE KeeperInv
    OBVIOUS
  <1>1. \A a \in Handles : ~handle[a].isOpen  BY DEF Init, FreshStruct
  <1>2. OpenInv /\ ParkedInv  BY <1>1 DEF Init, OpenInv, ParkedInv
  <1>3. BusyInv  BY DEF Init, BusyInv, Tasks
  <1>4. UseInv  BY HandleAssumption DEF Init, UseInv, Works, Operating, StragglersBail, At
  <1>5. QED  BY <1>2, <1>3, <1>4 DEF KeeperInv

LEMMA KeeperNext ==
  ASSUME SharedInv, SharedInv', KeeperInv, KeepersTakeTurns, KeepersTakeTurns', [Next]_vars
  PROVE  KeeperInv'
  <1>1. CASE Next
    <2>1. PICK t \in Tasks : Acts(t)  BY <1>1 DEF Next, Acts
    <2>2. UserActs(t) \/ KeeperActs(t)
      BY <2>1 DEF Acts, Call, Step, UserActs, KeeperActs
    <2>3. CASE UserActs(t)
      BY <2>3, UserStep DEF SharedInv
    <2>4. CASE KeeperActs(t)
      <3>1. t \in Keepers
        <4>1. CASE t \in Openers \cup Closers \cup Deleters  BY <4>1 DEF Keepers
        <4>2. CASE t \notin Openers \cup Closers \cup Deleters
          <5>1. pc[t] \in CloseLabels \cup OpenLabels \cup {"retire", "unlink"}
            BY <2>4, <4>2 DEF KeeperActs, Unpublish, DeleteCheck, SetClosing, CloseLock,
               CloseTimeout, CloseTimeoutThen, Republish, Teardown, Retire, Unlink, DropStale,
               AcquireRead, AcquireTake, OpenFile, PublishOpen, AssignDefault, At,
               CloseLabels, OpenLabels
          <5>2. QED  BY <5>1 DEF SharedInv, TaskInv
        <4>3. QED  BY <4>1, <4>2
      <3>2. QED  BY <2>4, <3>1, KeeperStep DEF SharedInv
    <2>5. QED  BY <2>2, <2>3, <2>4
  <1>2. CASE UNCHANGED vars
    BY <1>2 DEF KeeperInv, OpenInv, ParkedInv, BusyInv, UseInv, Works, Operating, StragglersBail,
                At, vars, shared, local
  <1>3. QED  BY <1>1, <1>2

LEMMA KeeperAlways == Spec /\ []KeepersTakeTurns => []KeeperInv
  <1>1. /\ SharedInv /\ SharedInv' /\ KeepersTakeTurns /\ KeepersTakeTurns'
        /\ KeeperInv /\ [Next]_vars
        => KeeperInv'
    BY KeeperNext
  <1>2. QED  BY <1>1, KeeperInit, SharedAlways, PTL DEF Spec

(* As long as opens, closes and deletes do not overlap, a task inside an   *)
(* operation or between tsdb_query_init_h and tsdb_query_close alone holds *)
(* its handle, and works on an open handle and on the file that is at the  *)
(* path, whatever the other tasks do and whatever it does itself under its *)
(* query: only a query whose file its own task closed, by a sync or a      *)
(* migration, may be left on a closed handle.                              *)
THEOREM UsersAreProtected == Spec /\ []KeepersTakeTurns => []UseIsExclusive
  <1>1. SharedInv /\ KeeperInv => UseIsExclusive
    <2> SUFFICES ASSUME SharedInv, KeeperInv, NEW t \in Tasks, NEW a \in Handles, Using(t, a)
                 PROVE  /\ handle[a].owner = t
                        /\ \A u \in Tasks \ {t} : ~Using(u, a)
                        /\ Operating(t, a) \/ ~handle[a].dangling =>
                             handle[a].isOpen /\ handle[a].file = disk
      BY DEF UseIsExclusive
    <2>1. handle[a].owner = t  BY UserOwns DEF SharedInv
    <2>2. \A u \in Tasks \ {t} : ~Using(u, a)  BY <2>1, UserOwns DEF SharedInv
    <2>3. Operating(t, a) \/ ~handle[a].dangling => Works(t, a)  BY DEF Works, Using
    <2>4. Works(t, a) => handle[a].isOpen /\ handle[a].file = disk
      BY DEF KeeperInv, UseInv, OpenInv
    <2>5. QED  BY <2>1, <2>2, <2>3, <2>4
  <1>2. QED  BY <1>1, SharedAlways, KeeperAlways, PTL

(* Under the same rule a straggler that blocked across a close and a       *)
(* reopen never gets into the operation: whoever does is in the generation *)
(* it captured before it waited for the mutex.                             *)
THEOREM StaleWaitersLeave == Spec /\ []KeepersTakeTurns => []StragglersBail
  BY KeeperAlways, PTL DEF KeeperInv, UseInv

(* Under the same rule the recycler's handle is closed, unpublished and in *)
(* nobody's hands: tsdb_acquire_handle may wipe it.                        *)
THEOREM RecyclerOwnsParked == Spec /\ []KeepersTakeTurns => []ParkedIsFree
  <1>1. SharedInv /\ KeeperInv => ParkedIsFree
    BY DEF SharedInv, TaskInv, OpenLabels, KeeperInv, ParkedInv, ParkedIsFree
  <1>2. QED  BY <1>1, SharedAlways, KeeperAlways, PTL

(* Under the same rule at most one handle is open, and it refers to the    *)
(* file at the path.                                                       *)
THEOREM OneFileIsOpen == Spec /\ []KeepersTakeTurns => []OneOpenFile
  <1>1. SharedInv /\ KeeperInv /\ KeepersTakeTurns => OneOpenFile
    BY OneOpen DEF SharedInv, KeeperInv, OpenInv, OneOpenFile
  <1>2. QED  BY <1>1, SharedAlways, KeeperAlways, PTL

(* Under the same rule an open handle can be reached through               *)
(* g_default_handle or by the task that is opening or closing it: a close  *)
(* that timed out does not leave it lost and open.                         *)
THEOREM OpenFileIsReachable == Spec /\ []KeepersTakeTurns => []OpenIsReachable
  <1>1. KeeperInv => OpenIsReachable
    BY DEF KeeperInv, OpenInv, OpenIsReachable, CloseLabels
  <1>2. QED  BY <1>1, KeeperAlways, PTL

(* A program in which one task opens, closes and deletes follows the rule. *)
LEMMA OneKeeperTakesTurns ==
  ASSUME NEW k, Keepers = {k}
  PROVE  Spec => []KeepersTakeTurns
  <1>1. KeepersTakeTurns  BY DEF KeepersTakeTurns
  <1>2. QED  BY <1>1, PTL

=============================================================================
