-------------------------- MODULE DriverLock_proofs --------------------------
(***************************************************************************)
(* Proofs about the lock hierarchy, for any number of tasks, files,        *)
(* devices and subdevices.  First type correctness, exclusion and the      *)
(* counters.  Then the owners of the locks: a lock is taken from its owner *)
(* by FORCE only, without FORCE the levels agree, and each lock implements *)
(* ResourceLock.                                                           *)
(***************************************************************************)
EXTENDS DriverLock, FiniteSetTheorems, TLAPS

\* A task's move leaves all other tasks alone.
LEMMA GotoFrame ==
    ASSUME TypeOK, NEW t \in Task, NEW l, NEW c, Goto(t, l, c)
    PROVE  /\ pc'[t] = l /\ call'[t] = c
           /\ \A u \in Task \ {t} : pc'[u] = pc[u] /\ call'[u] = call[u]
BY DEF Goto, TypeOK

\* The number of tasks with a property, when only task t may gain or lose it.
LEMMA OneMoves ==
    ASSUME NEW t \in Task, NEW A \in SUBSET Task, NEW B \in SUBSET Task,
           \A u \in Task \ {t} : u \in A <=> u \in B
    PROVE  /\ Cardinality(A) \in Nat
           /\ Cardinality(B) \in Nat
           /\ (t \in A <=> t \in B) => Cardinality(B) = Cardinality(A)
           /\ t \notin A /\ t \in B => Cardinality(B) = Cardinality(A) + 1
           /\ t \in A /\ t \notin B => Cardinality(B) = Cardinality(A) - 1
<1>1. IsFiniteSet(A) /\ IsFiniteSet(B)
  BY FiniteAssumption, FS_Subset
<1>2. Cardinality(A) \in Nat /\ Cardinality(B) \in Nat
  BY <1>1, FS_CardinalityType
<1>3. (t \in A <=> t \in B) => A = B
  OBVIOUS
<1>4. t \notin A /\ t \in B => B = A \cup {t}
  OBVIOUS
<1>5. t \in A /\ t \notin B => B = A \ {t}
  OBVIOUS
<1> QED
  BY <1>1, <1>2, <1>3, <1>4, <1>5, FS_AddElement, FS_RemoveElement

\* A counter that is zero, or equal to the size of a set, tells who is in it.
LEMMA NobodyInside ==
    ASSUME NEW A \in SUBSET Task, Cardinality(A) <= 0
    PROVE  A = {}
BY FiniteAssumption, FS_Subset, FS_CardinalityType, FS_EmptySet

LEMMA SomebodyInside ==
    ASSUME NEW A \in SUBSET Task, NEW t \in A
    PROVE  Cardinality(A) \in Nat /\ Cardinality(A) >= 1
BY FiniteAssumption, FS_Subset, FS_CardinalityType, FS_EmptySet

USE DEF DataOps, DriverOps, LockOps, AllOps

-----------------------------------------------------------------------------
(* Types: the locals of a call, the locks, and each step.                  *)

LEMMA NoCallType == NoCall \in CallType
BY SubAssumption DEF NoCall, CallType, Err

\* The assignments to locals that the steps make keep them well typed.
LEMMA CallUpdates ==
    ASSUME NEW c \in CallType
    PROVE  /\ \A x \in 0 .. NSub : [c EXCEPT !.sub = x] \in CallType
           /\ \A x \in 0 .. NSub, e \in Err : [c EXCEPT !.sub = x, !.err = e] \in CallType
           /\ \A e \in Err : [c EXCEPT !.err = e] \in CallType
           /\ \A e \in Err : [c EXCEPT !.dev = NULL, !.err = e] \in CallType
           /\ \A k \in Lock : [c EXCEPT !.lock = k] \in CallType
           /\ \A k \in Lock, D \in SUBSET Device :
                 [c EXCEPT !.lock = k, !.devs = D] \in CallType
           /\ \A d \in Device : [c EXCEPT !.dev = d, !.devs = @ \ {d}] \in CallType
           /\ \A n \in Nat : [c EXCEPT !.items = n] \in CallType
           /\ \A n \in Nat, d \in Device, s \in 0 .. NSub :
                 [c EXCEPT !.dev = d, !.sub = s, !.items = n] \in CallType
<1>1. \A x \in 0 .. NSub : [c EXCEPT !.sub = x] \in CallType
  BY DEF CallType
<1>2. \A x \in 0 .. NSub, e \in Err : [c EXCEPT !.sub = x, !.err = e] \in CallType
  BY DEF CallType
<1>3. \A e \in Err : [c EXCEPT !.err = e] \in CallType
  BY DEF CallType
<1>4. \A e \in Err : [c EXCEPT !.dev = NULL, !.err = e] \in CallType
  BY DEF CallType
<1>5. \A k \in Lock : [c EXCEPT !.lock = k] \in CallType
  BY DEF CallType
<1>6. \A k \in Lock, D \in SUBSET Device : [c EXCEPT !.lock = k, !.devs = D] \in CallType
  BY DEF CallType
<1>7. \A d \in Device : [c EXCEPT !.dev = d, !.devs = @ \ {d}] \in CallType
  BY DEF CallType
<1>8. \A n \in Nat : [c EXCEPT !.items = n] \in CallType
  BY DEF CallType
<1>9. \A n \in Nat, d \in Device, s \in 0 .. NSub :
        [c EXCEPT !.dev = d, !.sub = s, !.items = n] \in CallType
  BY DEF CallType
<1> QED
  BY <1>1, <1>2, <1>3, <1>4, <1>5, <1>6, <1>7, <1>8, <1>9

LEMMA GotoTyped ==
    ASSUME TypeOK, NEW t \in Task, \E l \in Location, c \in CallType : Goto(t, l, c)
    PROVE  pc' \in [Task -> Location] /\ call' \in [Task -> CallType]
BY DEF TypeOK, Goto

DlockType == [Device -> [filep : Filep \cup {NULL}, count : Nat, spin : Task \cup {NULL}]]
SlockType == [Device \X Sub -> [filep : Filep \cup {NULL}, count : Nat]]

LEMMA LockUpdates ==
    ASSUME TypeOK
    PROVE  /\ \A d \in Device : [dlock EXCEPT ![d].count = @ + 1] \in DlockType
           /\ \A d \in Device, w \in Task \cup {NULL} :
                 [dlock EXCEPT ![d].spin = w] \in DlockType
           /\ \A r \in Device \X Sub : [slock EXCEPT ![r].count = @ + 1] \in SlockType
           /\ \A r \in Device \X Sub :
                 [slock EXCEPT ![r].count = IF @ - 1 < 0 THEN 0 ELSE @ - 1] \in SlockType
           /\ dlock \in DlockType /\ slock \in SlockType
<1>1. \A d \in Device : [dlock EXCEPT ![d].count = @ + 1] \in DlockType
  BY DEF TypeOK, DlockType
<1>2. \A d \in Device, w \in Task \cup {NULL} : [dlock EXCEPT ![d].spin = w] \in DlockType
  BY DEF TypeOK, DlockType
<1>3. \A r \in Device \X Sub : [slock EXCEPT ![r].count = @ + 1] \in SlockType
  BY DEF TypeOK, SlockType
<1>4. dlock \in DlockType /\ slock \in SlockType
  BY DEF TypeOK, DlockType, SlockType
<1>5. \A r \in Device \X Sub :
        [slock EXCEPT ![r].count = IF @ - 1 < 0 THEN 0 ELSE @ - 1] \in SlockType
  BY DEF TypeOK, SlockType
<1> QED
  BY <1>1, <1>2, <1>3, <1>4, <1>5

\* Behind the unlock there is nothing to repair as long as the counts are natural numbers.
LEMMA NothingToRepair ==
    ASSUME TypeOK, NEW t \in Task, dlock_exited(t)
    PROVE  dlock' = dlock
<1> DEFINE d == call[t].dev
<1>1. dlock' = [dlock EXCEPT ![d].count = IF @ < 0 THEN 0 ELSE @]
  BY DEF dlock_exited
<1>2. dlock \in DlockType
  BY DEF TypeOK, DlockType
<1>3. CASE d \in Device
  <2>1. ~ (dlock[d].count < 0)
    BY <1>2, <1>3 DEF DlockType
  <2>2. dlock' = [dlock EXCEPT ![d].count = dlock[d].count]
    BY <1>1, <1>3, <2>1
  <2> QED
    BY <1>2, <1>3, <2>2 DEF DlockType
<1>4. CASE d \notin Device
  BY <1>1, <1>2, <1>4 DEF DlockType
<1> QED
  BY <1>3, <1>4

\* What a task knows of its own arguments.
LEMMA CallFacts ==
    ASSUME TypeOK, CallOK, NEW t \in Task
    PROVE  /\ call[t] \in CallType
           /\ pc[t] # "idle" => call[t].filep \in Filep
           /\ pc[t] \in {"slock_enter", "inside", "slock_lock", "dlock_check", "dlock_free"} =>
                 Here(t) \in Device \X Sub
           /\ pc[t] \in {"dlock_enter", "dlock_exit", "dlock_exited", "dlock_lock",
                        "dlock_check", "dlock_apply", "dlock_free"} => call[t].dev \in Device
           /\ call[t].sub + 1 < NSub => call[t].sub + 1 \in 0 .. NSub
           /\ 0 \in 0 .. NSub /\ Sub \subseteq 0 .. NSub
           /\ call[t].devs \subseteq Device
           /\ call[t].items > 0 => call[t].items - 1 \in Nat
           /\ 0 \in Nat
BY SubAssumption DEF TypeOK, CallOK, Shape, CallType, Here, Sub

LEMMA StepTyped ==
    ASSUME TypeOK, CallOK, NEW t \in Task, Step(t), me_count' \in Nat,
           \A d \in Device : dlock'[d].count \in Nat
    PROVE  TypeOK'
<1>1. CASE dlock_enter(t)
  <2>1. \E l \in Location, c \in CallType : Goto(t, l, c)
    BY <1>1, CallFacts, CallUpdates, NoCallType, SubAssumption DEF dlock_enter, Location, Lock
  <2>2. dlock' \in DlockType
    BY <1>1, CallFacts, LockUpdates DEF dlock_enter
  <2> QED
    BY <1>1, <2>1, <2>2, CallFacts, GotoTyped DEF dlock_enter, TypeOK, DlockType, SlockType
<1>2. CASE slock_enter(t)
  <2>1. \E l \in Location, c \in CallType : Goto(t, l, c)
    BY <1>2, CallFacts, CallUpdates, NoCallType, SubAssumption DEF slock_enter, AfterSubdevice, Location
  <2>2. slock' \in SlockType
    BY <1>2, CallFacts, LockUpdates DEF slock_enter
  <2> QED
    BY <1>2, <2>1, <2>2, CallFacts, GotoTyped DEF slock_enter, TypeOK, DlockType, SlockType
<1>3. CASE slock_exit(t)
  <2>1. \E l \in Location, c \in CallType : Goto(t, l, c)
    BY <1>3, CallFacts, CallUpdates, NoCallType, SubAssumption DEF slock_exit, AfterSubdevice, Location
  <2>2. slock' \in SlockType
    BY <1>3, CallFacts, LockUpdates DEF slock_exit
  <2> QED
    BY <1>3, <2>1, <2>2, CallFacts, GotoTyped DEF slock_exit, TypeOK, DlockType, SlockType
<1>4. CASE dlock_exit(t)
  <2>1. \E l \in Location, c \in CallType : Goto(t, l, c)
    BY <1>4, CallFacts, CallUpdates, NoCallType, SubAssumption DEF dlock_exit, Location
  <2>2. dlock' = [dlock EXCEPT ![call[t].dev].count = @ - 1] /\ call[t].dev \in Device
    BY <1>4, CallFacts DEF dlock_exit
  <2>3. dlock \in DlockType
    BY LockUpdates
  <2>4. dlock' \in DlockType
    BY <2>2, <2>3 DEF DlockType
  <2> QED
    BY <1>4, <2>1, <2>4, CallFacts, GotoTyped DEF dlock_exit, TypeOK, DlockType, SlockType
<1>5. CASE next_item(t)
  <2>1. \E l \in Location, c \in CallType : Goto(t, l, c)
    BY <1>5, CallFacts, CallUpdates, NoCallType, SubAssumption DEF next_item, Location
  <2> QED
    BY <1>5, <2>1, CallFacts, GotoTyped DEF next_item, TypeOK, DlockType, SlockType
<1>6. CASE driver_exit(t)
  <2>1. \E l \in Location, c \in CallType : Goto(t, l, c)
    BY <1>6, CallFacts, CallUpdates, NoCallType, SubAssumption DEF driver_exit, Location
  <2> QED
    BY <1>6, <2>1, CallFacts, GotoTyped DEF driver_exit, TypeOK, DlockType, SlockType
<1>7. CASE me_slock_lock(t)
  <2>1. \E l \in Location, c \in CallType : Goto(t, l, c)
    BY <1>7, CallFacts, CallUpdates, NoCallType, SubAssumption DEF me_slock_lock, Location
  <2>2. slock' \in SlockType
    BY <1>7, CallFacts DEF me_slock_lock, TypeOK, SlockType, SlockOwner
  <2> QED
    BY <1>7, <2>1, <2>2, CallFacts, GotoTyped DEF me_slock_lock, TypeOK, DlockType, SlockType
<1>8. CASE dlock_lock(t)
  <2>1. \E l \in Location, c \in CallType : Goto(t, l, c)
    BY <1>8, CallFacts, CallUpdates, NoCallType, SubAssumption DEF dlock_lock, DlockError, Location, Err
  <2>2. dlock' \in DlockType
    BY <1>8, CallFacts, LockUpdates DEF dlock_lock
  <2> QED
    BY <1>8, <2>1, <2>2, CallFacts, GotoTyped DEF dlock_lock, TypeOK, DlockType, SlockType
<1>9. CASE dlock_check(t)
  <2>1. \E l \in Location, c \in CallType : Goto(t, l, c)
    BY <1>9, CallFacts, CallUpdates, NoCallType, SubAssumption DEF dlock_check, SlockError, Location, Err
  <2>2. dlock' \in DlockType
    BY <1>9, CallFacts DEF dlock_check, TypeOK, DlockType
  <2> QED
    BY <1>9, <2>1, <2>2, CallFacts, GotoTyped DEF dlock_check, TypeOK, DlockType, SlockType
<1>10. CASE dlock_apply(t)
  <2>1. \E l \in Location, c \in CallType : Goto(t, l, c)
    BY <1>10, CallFacts, CallUpdates, NoCallType, SubAssumption DEF dlock_apply, Location
  <2>2. dlock' \in DlockType
    BY <1>10, CallFacts DEF dlock_apply, TypeOK, DlockType
  <2> QED
    BY <1>10, <2>1, <2>2, CallFacts, GotoTyped DEF dlock_apply, TypeOK, DlockType, SlockType
<1>11. CASE dlock_free(t)
  <2>1. \E l \in Location, c \in CallType : Goto(t, l, c)
    BY <1>11, CallFacts, CallUpdates, NoCallType, SubAssumption DEF dlock_free, SlockError, Location, Err
  <2>2. dlock' \in DlockType
    BY <1>11, CallFacts DEF dlock_free, TypeOK, DlockType
  <2>3. slock' \in SlockType
    BY <1>11, CallFacts DEF dlock_free, TypeOK, SlockType, SlockOwner
  <2> QED
    BY <1>11, <2>1, <2>2, <2>3, CallFacts, GotoTyped DEF dlock_free, TypeOK, DlockType, SlockType
<1>12. CASE dlock_return(t)
  <2>1. \E l \in Location, c \in CallType : Goto(t, l, c)
    BY <1>12, CallFacts, CallUpdates, NoCallType, SubAssumption DEF dlock_return, Location, Err
  <2> QED
    BY <1>12, <2>1, CallFacts, GotoTyped DEF dlock_return, TypeOK, DlockType, SlockType
<1>13. CASE driver_check(t)
  <2>1. \E l \in Location, c \in CallType : Goto(t, l, c)
    BY <1>13, CallFacts, CallUpdates, NoCallType, SubAssumption DEF driver_check, Location
  <2> QED
    BY <1>13, <2>1, CallFacts, GotoTyped DEF driver_check, TypeOK, DlockType, SlockType
<1>14. CASE driver_apply(t)
  <2>1. \E l \in Location, c \in CallType : Goto(t, l, c)
    BY <1>14, CallFacts, CallUpdates, NoCallType, SubAssumption DEF driver_apply, Location, Lock
  <2> QED
    BY <1>14, <2>1, CallFacts, GotoTyped DEF driver_apply, TypeOK, DlockType, SlockType
<1>15. CASE driver_free(t)
  <2>1. \E l \in Location, c \in CallType : Goto(t, l, c)
    BY <1>15, CallFacts, CallUpdates, NoCallType, SubAssumption DEF driver_free, Location
  <2> QED
    BY <1>15, <2>1, CallFacts, GotoTyped DEF driver_free, TypeOK, DlockType, SlockType
<1>16. CASE driver_done(t)
  <2>1. \E l \in Location, c \in CallType : Goto(t, l, c)
    BY <1>16, CallFacts, CallUpdates, NoCallType, SubAssumption DEF driver_done, Location
  <2> QED
    BY <1>16, <2>1, CallFacts, GotoTyped DEF driver_done, TypeOK, DlockType, SlockType
<1>17. CASE dlock_exited(t)
  <2>1. \E l \in Location, c \in CallType : Goto(t, l, c)
    BY <1>17, CallFacts DEF dlock_exited, Location
  <2>2. dlock' \in DlockType
    BY <1>17, NothingToRepair, LockUpdates
  <2> QED
    BY <1>17, <2>1, <2>2, CallFacts, GotoTyped DEF dlock_exited, TypeOK, DlockType, SlockType
<1> QED
  BY <1>1, <1>2, <1>3, <1>4, <1>5, <1>6, <1>7, <1>8, <1>9, <1>10, <1>11,
     <1>12, <1>13, <1>14, <1>15, <1>16, <1>17 DEF Step

-----------------------------------------------------------------------------
(* The shape of calls, and the spin locks.                                 *)

LEMMA GotoShape ==
    ASSUME TypeOK, CallOK, NEW t \in Task, \E l, c : Goto(t, l, c),
           Shape(pc'[t], call'[t])
    PROVE  CallOK'
BY GotoFrame DEF CallOK

LEMMA StepShape ==
    ASSUME TypeOK, CallOK, NEW t \in Task, Step(t)
    PROVE  CallOK'
<1> DEFINE d == call[t]
<1>0. /\ Shape(pc[t], d)
      /\ d \in CallType /\ d.devs \subseteq Device
      /\ 0 \in Sub
      /\ d.sub + 1 < NSub => d.sub + 1 \in Sub
  BY SubAssumption DEF CallOK, TypeOK, CallType, Sub
<1>1. CASE dlock_enter(t)
  <2>1. Shape(pc'[t], call'[t])
    BY <1>0, <1>1, GotoFrame DEF dlock_enter, Shape, CallType
  <2> QED
    BY <2>1, <1>1, GotoShape DEF dlock_enter
<1>2. CASE slock_enter(t)
  <2>1. Shape(pc'[t], call'[t])
    BY <1>0, <1>2, GotoFrame DEF slock_enter, Shape, CallType, AfterSubdevice
  <2> QED
    BY <2>1, <1>2, GotoShape DEF slock_enter, AfterSubdevice
<1>3. CASE slock_exit(t)
  <2>1. Shape(pc'[t], call'[t])
    BY <1>0, <1>3, GotoFrame DEF slock_exit, Shape, CallType, AfterSubdevice
  <2> QED
    BY <2>1, <1>3, GotoShape DEF slock_exit, AfterSubdevice
<1>4. CASE dlock_exit(t)
  <2>1. Shape("dlock_exit", d)
    BY <1>0, <1>4 DEF dlock_exit
  <2>2. /\ call'[t] = d
        /\ pc'[t] = "dlock_exited"
    BY <1>0, <1>4, GotoFrame DEF dlock_exit
  <2>3. Shape(pc'[t], call'[t])
    BY <1>0, <2>1, <2>2 DEF Shape, CallType
  <2> QED
    BY <2>3, <1>4, GotoShape DEF dlock_exit
<1>5. CASE next_item(t)
  <2>1. Shape("next_item", d)
    BY <1>0, <1>5 DEF next_item
  <2>2. ASSUME Goto(t, "driver_exit", [d EXCEPT !.items = 0])
        PROVE  Shape(pc'[t], call'[t])
    <3>1. call'[t] = [d EXCEPT !.items = 0] /\ pc'[t] = "driver_exit"
      BY <2>2, GotoFrame
    <3>2. /\ call'[t].items = 0 /\ call'[t].op = d.op /\ call'[t].filep = d.filep
          /\ call'[t].dev = d.dev /\ call'[t].sub = d.sub
      BY <1>0, <3>1 DEF CallType
    <3>3. d.filep \in Filep /\ d.op \in DataOps
      BY <2>1 DEF Shape
    <3> QED
      BY <3>1, <3>2, <3>3 DEF Shape, DataOps
  <2>3. ASSUME d.items > 0, NEW v \in Device, NEW s \in Sub,
               Goto(t, "dlock_enter", [d EXCEPT !.dev = v, !.sub = s, !.items = @ - 1])
        PROVE  Shape(pc'[t], call'[t])
    <3>1. /\ call'[t] = [d EXCEPT !.dev = v, !.sub = s, !.items = d.items - 1]
          /\ pc'[t] = "dlock_enter"
      BY <2>3, GotoFrame
    <3>2. /\ call'[t].items = d.items - 1 /\ call'[t].op = d.op
          /\ call'[t].filep = d.filep /\ call'[t].dev = v /\ call'[t].sub = s
      BY <1>0, <3>1 DEF CallType
    <3>3. d.filep \in Filep /\ d.op = "io"
      BY <2>1, <2>3 DEF Shape
    <3> QED
      BY <2>3, <3>1, <3>2, <3>3 DEF Shape
  <2>4. Shape(pc'[t], call'[t])
    BY <1>5, <2>2, <2>3 DEF next_item
  <2> QED
    BY <2>4, <1>5, GotoShape DEF next_item
<1>6. CASE driver_exit(t)
  <2>1. Shape(pc'[t], call'[t])
    BY <1>0, <1>6, GotoFrame DEF driver_exit, Shape, CallType, NoCall
  <2> QED
    BY <2>1, <1>6, GotoShape DEF driver_exit, NoCall
<1>7. CASE me_slock_lock(t)
  <2>1. Shape("slock_lock", d)
    BY <1>0, <1>7 DEF me_slock_lock
  <2>2. /\ call'[t] = d
        /\ pc'[t] \in {"dlock_exit"}
    BY <1>0, <1>7, GotoFrame DEF me_slock_lock
  <2>3. Shape(pc'[t], call'[t])
    BY <1>0, <2>1, <2>2 DEF Shape, CallType
  <2> QED
    BY <2>3, <1>7, GotoShape DEF me_slock_lock
<1>8. CASE dlock_lock(t)
  <2> DEFINE e == DlockError(d.dev, d.filep, d.lock, d.flags)
  <2>1. Shape("dlock_lock", d)
    BY <1>0, <1>8 DEF dlock_lock
  <2>2. \/ call'[t] = [d EXCEPT !.err = e] /\ pc'[t] = "dlock_done"
        \/ /\ call'[t] = [d EXCEPT !.sub = 0, !.err = "SUCCESS"]
           /\ pc'[t] \in {"dlock_apply", "dlock_check"}
    BY <1>0, <1>8, GotoFrame DEF dlock_lock
  <2>3. Shape(pc'[t], call'[t])
    BY <1>0, <2>1, <2>2 DEF Shape, CallType
  <2> QED
    BY <2>3, <1>8, GotoShape DEF dlock_lock
<1>9. CASE dlock_check(t)
  <2>1. Shape("dlock_check", d)
    BY <1>0, <1>9 DEF dlock_check
  <2>2. \/ \E e \in Err : call'[t] = [d EXCEPT !.err = e] /\ pc'[t] = "dlock_done"
        \/ /\ call'[t] = [d EXCEPT !.sub = d.sub + 1] /\ d.sub + 1 < NSub
           /\ pc'[t] = "dlock_check"
        \/ call'[t] = [d EXCEPT !.sub = 0] /\ pc'[t] = "dlock_apply"
    BY <1>0, <1>9, GotoFrame DEF dlock_check, SlockError, Err
  <2>3. Shape(pc'[t], call'[t])
    BY <1>0, <2>1, <2>2 DEF Shape, CallType
  <2> QED
    BY <2>3, <1>9, GotoShape DEF dlock_check
<1>10. CASE dlock_apply(t)
  <2>1. Shape("dlock_apply", d)
    BY <1>0, <1>10 DEF dlock_apply
  <2>2. /\ call'[t] = d
        /\ \/ pc'[t] = "dlock_free" /\ d.lock = "RELEASE"
           \/ pc'[t] = "dlock_done"
    BY <1>0, <1>10, GotoFrame DEF dlock_apply
  <2>3. Shape(pc'[t], call'[t])
    BY <1>0, <2>1, <2>2 DEF Shape, CallType
  <2> QED
    BY <2>3, <1>10, GotoShape DEF dlock_apply
<1>11. CASE dlock_free(t)
  <2>1. Shape("dlock_free", d)
    BY <1>0, <1>11 DEF dlock_free
  <2> DEFINE e == SlockError(Here(t), d.filep, "RELEASE", d.flags)
  <2> DEFINE more == e = "SUCCESS" /\ d.sub + 1 < NSub
  <2>2. IF more
        THEN Goto(t, "dlock_free", [d EXCEPT !.sub = @ + 1, !.err = e])
        ELSE Goto(t, "dlock_done", [d EXCEPT !.sub = 0, !.err = e])
    BY <1>11 DEF dlock_free
  <2>4. \/ /\ call'[t] = [d EXCEPT !.sub = d.sub + 1, !.err = e]
           /\ d.sub + 1 < NSub /\ pc'[t] = "dlock_free"
        \/ /\ call'[t] = [d EXCEPT !.sub = 0, !.err = e]
           /\ pc'[t] = "dlock_done"
    BY <2>2, GotoFrame
  <2>3. Shape(pc'[t], call'[t])
    BY <1>0, <2>1, <2>4 DEF Shape, CallType
  <2> QED
    BY <2>3, <1>11, GotoShape DEF dlock_free
<1>12. CASE dlock_return(t)
  <2>1. Shape("dlock_done", d)
    BY <1>0, <1>12 DEF dlock_return
  <2>2. \/ call'[t] = d /\ pc'[t] = "driver_done" /\ d.op = "lock_device"
        \/ /\ call'[t] = [d EXCEPT !.sub = 0, !.err = "SUCCESS"] /\ d.op = "reset_device"
           /\ pc'[t] \in {"slock_enter", "next_item"}
        \/ /\ call'[t] = [d EXCEPT !.dev = NULL, !.err = "SUCCESS"] /\ d.op \in DriverOps
           /\ pc'[t] \in {"driver_check", "driver_free", "driver_done"}
    BY <1>0, <1>12, GotoFrame DEF dlock_return
  <2>3. Shape(pc'[t], call'[t])
    BY <1>0, <2>1, <2>2 DEF Shape, CallType
  <2> QED
    BY <2>3, <1>12, GotoShape DEF dlock_return
<1>13. CASE driver_check(t)
  <2>1. Shape("driver_check", d)
    BY <1>0, <1>13 DEF driver_check
  <2>2. \/ call'[t] = d /\ pc'[t] = "driver_apply"
        \/ /\ \E v \in Device : call'[t] = [d EXCEPT !.dev = v, !.devs = d.devs \ {v}]
           /\ pc'[t] = "dlock_lock"
    BY <1>0, <1>13, GotoFrame DEF driver_check
  <2>3. Shape(pc'[t], call'[t])
    BY <1>0, <2>1, <2>2 DEF Shape, CallType
  <2> QED
    BY <2>3, <1>13, GotoShape DEF driver_check
<1>14. CASE driver_apply(t)
  <2>1. Shape("driver_apply", d)
    BY <1>0, <1>14 DEF driver_apply
  <2>2. /\ \/ call'[t] = [d EXCEPT !.lock = "RELEASE", !.devs = {}]
           \/ call'[t] = [d EXCEPT !.lock = "RELEASE", !.devs = Device]
        /\ pc'[t] \in {"driver_free", "driver_done"}
    BY <1>0, <1>14, GotoFrame DEF driver_apply
  <2>3. Shape(pc'[t], call'[t])
    BY <1>0, <2>1, <2>2 DEF Shape, CallType
  <2> QED
    BY <2>3, <1>14, GotoShape DEF driver_apply
<1>15. CASE driver_free(t)
  <2>1. Shape("driver_free", d)
    BY <1>0, <1>15 DEF driver_free
  <2>2. \/ call'[t] = d /\ pc'[t] = "driver_done"
        \/ /\ \E v \in Device : call'[t] = [d EXCEPT !.dev = v, !.devs = d.devs \ {v}]
           /\ pc'[t] = "dlock_lock"
    BY <1>0, <1>15, GotoFrame DEF driver_free
  <2>3. Shape(pc'[t], call'[t])
    BY <1>0, <2>1, <2>2 DEF Shape, CallType
  <2> QED
    BY <2>3, <1>15, GotoShape DEF driver_free
<1>16. CASE driver_done(t)
  <2>1. Shape(pc'[t], call'[t])
    BY <1>0, <1>16, GotoFrame DEF driver_done, Shape, CallType, NoCall
  <2> QED
    BY <2>1, <1>16, GotoShape DEF driver_done, NoCall
<1>17. CASE dlock_exited(t)
  <2>1. Shape("dlock_exited", d)
    BY <1>0, <1>17 DEF dlock_exited
  <2>2. /\ call'[t] = d
        /\ pc'[t] \in {"driver_done", "next_item"}
        /\ pc'[t] = "driver_done" <=> d.op = "lock_subdevice"
    BY <1>0, <1>17, GotoFrame DEF dlock_exited
  <2>3. Shape(pc'[t], call'[t])
    BY <1>0, <2>1, <2>2 DEF Shape, CallType
  <2> QED
    BY <2>3, <1>17, GotoShape DEF dlock_exited
<1> QED
  BY <1>1, <1>2, <1>3, <1>4, <1>5, <1>6, <1>7, <1>8, <1>9, <1>10, <1>11,
     <1>12, <1>13, <1>14, <1>15, <1>16, <1>17 DEF Step

-----------------------------------------------------------------------------
(* Who is inside the driver, a device, a subdevice: what one step changes. *)

AtDevice(t, d)    == InDevice(t) /\ call[t].dev = d
AtSubdevice(t, r) == InSubdevice(t) /\ Here(t) = r

\* A step of task t, seen from one lock: t was inside (a) and is inside (b),
\* the counter goes from n to m and the holder from x to y.
Flow(t, a, b, n, m, x, y) ==
    \/ (a <=> b) /\ m = n /\ (y = x \/ n = 0)
    \/ ~ a /\ b /\ m = n + 1 /\ y = x /\ ~ Refuses(x, call[t].filep)
    \/ a /\ ~ b /\ m = (IF n - 1 < 0 THEN 0 ELSE n - 1) /\ y = x

\* Locals are updated without touching what the call was made for.
LEMMA UpdatesKeep ==
    ASSUME TypeOK, NEW t \in Task, NEW l,
           \/ \E v, x, n : Goto(t, l, [call[t] EXCEPT !.dev = v, !.sub = x, !.items = n])
           \/ \E n : Goto(t, l, [call[t] EXCEPT !.items = n])
           \/ \E x, e : Goto(t, l, [call[t] EXCEPT !.sub = x, !.err = e])
           \/ \E v, D : Goto(t, l, [call[t] EXCEPT !.dev = v, !.devs = D])
           \/ Goto(t, l, call[t])
    PROVE  /\ \A u \in Task \ {t} : pc'[u] = pc[u] /\ call'[u] = call[u]
           /\ pc'[t] = l /\ call'[t].op = call[t].op /\ call'[t].filep = call[t].filep
<1> DEFINE Kept == /\ \A u \in Task \ {t} : pc'[u] = pc[u] /\ call'[u] = call[u]
                   /\ pc'[t] = l /\ call'[t].op = call[t].op /\ call'[t].filep = call[t].filep
<1>0. call[t] \in CallType
  BY DEF TypeOK
<1>1. ASSUME NEW v, NEW x, NEW n,
             Goto(t, l, [call[t] EXCEPT !.dev = v, !.sub = x, !.items = n])
      PROVE  Kept
  <2>1. /\ \A u \in Task \ {t} : pc'[u] = pc[u] /\ call'[u] = call[u]
        /\ pc'[t] = l /\ call'[t] = [call[t] EXCEPT !.dev = v, !.sub = x, !.items = n]
    BY <1>1, GotoFrame
  <2>2. call'[t].op = call[t].op /\ call'[t].filep = call[t].filep
    BY <1>0, <2>1 DEF CallType
  <2> QED
    BY <2>1, <2>2
<1>2. ASSUME NEW n, Goto(t, l, [call[t] EXCEPT !.items = n])
      PROVE  Kept
  <2>1. /\ \A u \in Task \ {t} : pc'[u] = pc[u] /\ call'[u] = call[u]
        /\ pc'[t] = l /\ call'[t] = [call[t] EXCEPT !.items = n]
    BY <1>2, GotoFrame
  <2>2. call'[t].op = call[t].op /\ call'[t].filep = call[t].filep
    BY <1>0, <2>1 DEF CallType
  <2> QED
    BY <2>1, <2>2
<1>3. ASSUME NEW x, NEW e, Goto(t, l, [call[t] EXCEPT !.sub = x, !.err = e])
      PROVE  Kept
  <2>1. /\ \A u \in Task \ {t} : pc'[u] = pc[u] /\ call'[u] = call[u]
        /\ pc'[t] = l /\ call'[t] = [call[t] EXCEPT !.sub = x, !.err = e]
    BY <1>3, GotoFrame
  <2>2. call'[t].op = call[t].op /\ call'[t].filep = call[t].filep
    BY <1>0, <2>1 DEF CallType
  <2> QED
    BY <2>1, <2>2
<1>4. ASSUME NEW v, NEW D, Goto(t, l, [call[t] EXCEPT !.dev = v, !.devs = D])
      PROVE  Kept
  <2>1. /\ \A u \in Task \ {t} : pc'[u] = pc[u] /\ call'[u] = call[u]
        /\ pc'[t] = l /\ call'[t] = [call[t] EXCEPT !.dev = v, !.devs = D]
    BY <1>4, GotoFrame
  <2>2. call'[t].op = call[t].op /\ call'[t].filep = call[t].filep
    BY <1>0, <2>1 DEF CallType
  <2> QED
    BY <2>1, <2>2
<1>5. ASSUME Goto(t, l, call[t])
      PROVE  Kept
  BY <1>5, GotoFrame
<1> QED
  BY <1>1, <1>2, <1>3, <1>4, <1>5

\* A step ends the call, or keeps what the task works for.
LEMMA StepKeeps ==
    ASSUME TypeOK, CallOK, NEW t \in Task, Step(t)
    PROVE  /\ \A u \in Task \ {t} : pc'[u] = pc[u] /\ call'[u] = call[u]
           /\ pc[t] # "idle"
           /\ \/ pc'[t] = "idle" /\ call'[t] = NoCall
              \/ pc'[t] # "idle" /\ call'[t].op = call[t].op /\ call'[t].filep = call[t].filep
           /\ pc'[t] = "idle" => driver_exit(t) \/ driver_done(t)
<1> DEFINE Frame == \A u \in Task \ {t} : pc'[u] = pc[u] /\ call'[u] = call[u]
           Kept == \/ pc'[t] = "idle" /\ call'[t] = NoCall
                   \/ /\ pc'[t] # "idle" /\ call'[t].op = call[t].op
                      /\ call'[t].filep = call[t].filep
           Ends == pc'[t] = "idle" => driver_exit(t) \/ driver_done(t)
<1> DEFINE d == call[t]
<1>0. d \in CallType /\ d.devs \subseteq Device
  BY CallFacts
<1>1. ASSUME dlock_enter(t)
     PROVE  pc[t] # "idle" /\ Kept /\ Ends /\ Frame
  BY <1>0, <1>1, GotoFrame DEF dlock_enter, CallType
<1>2. ASSUME slock_enter(t)
     PROVE  pc[t] # "idle" /\ Kept /\ Ends /\ Frame
  BY <1>0, <1>2, GotoFrame DEF slock_enter, CallType, AfterSubdevice
<1>3. ASSUME slock_exit(t)
     PROVE  pc[t] # "idle" /\ Kept /\ Ends /\ Frame
  BY <1>0, <1>3, GotoFrame DEF slock_exit, CallType, AfterSubdevice
<1>4. ASSUME dlock_exit(t)
     PROVE  pc[t] # "idle" /\ Kept /\ Ends /\ Frame
  BY <1>0, <1>4, GotoFrame DEF dlock_exit, CallType
<1>5. ASSUME next_item(t)
     PROVE  pc[t] # "idle" /\ Kept /\ Ends /\ Frame
  <2>1. \E l \in {"driver_exit", "dlock_enter"} : Frame /\ pc'[t] = l /\ call'[t].op = d.op /\ call'[t].filep = d.filep
    BY <1>5, UpdatesKeep DEF next_item
  <2> QED
    BY <1>5, <2>1 DEF next_item
<1>6. ASSUME driver_exit(t)
     PROVE  pc[t] # "idle" /\ Kept /\ Ends /\ Frame
  BY <1>0, <1>6, GotoFrame DEF driver_exit, CallType
<1>7. ASSUME me_slock_lock(t)
     PROVE  pc[t] # "idle" /\ Kept /\ Ends /\ Frame
  BY <1>0, <1>7, GotoFrame DEF me_slock_lock, CallType
<1>8. ASSUME dlock_lock(t)
     PROVE  pc[t] # "idle" /\ Kept /\ Ends /\ Frame
  <2>1. \/ call'[t] = [d EXCEPT !.err = DlockError(d.dev, d.filep, d.lock, d.flags)]
        \/ call'[t] = [d EXCEPT !.sub = 0, !.err = "SUCCESS"]
    BY <1>0, <1>8, GotoFrame DEF dlock_lock
  <2>2. pc'[t] \in {"dlock_done", "dlock_apply", "dlock_check"}
    BY <1>8, GotoFrame DEF dlock_lock
  <2>3. call'[t].op = d.op /\ call'[t].filep = d.filep
    BY <1>0, <2>1 DEF CallType
  <2> QED
    BY <1>8, <2>2, <2>3, GotoFrame DEF dlock_lock
<1>9. ASSUME dlock_check(t)
     PROVE  pc[t] # "idle" /\ Kept /\ Ends /\ Frame
  BY <1>0, <1>9, GotoFrame DEF dlock_check, CallType
<1>10. ASSUME dlock_apply(t)
     PROVE  pc[t] # "idle" /\ Kept /\ Ends /\ Frame
  BY <1>0, <1>10, GotoFrame DEF dlock_apply, CallType
<1>11. ASSUME dlock_free(t)
     PROVE  pc[t] # "idle" /\ Kept /\ Ends /\ Frame
  <2>1. \E l \in {"dlock_done", "dlock_free"} : Frame /\ pc'[t] = l /\ call'[t].op = d.op /\ call'[t].filep = d.filep
    BY <1>11, UpdatesKeep DEF dlock_free
  <2> QED
    BY <1>11, <2>1 DEF dlock_free
<1>12. ASSUME dlock_return(t)
     PROVE  pc[t] # "idle" /\ Kept /\ Ends /\ Frame
  <2>1. \/ call'[t] = d
        \/ call'[t] = [d EXCEPT !.sub = 0, !.err = "SUCCESS"]
        \/ call'[t] = [d EXCEPT !.dev = NULL, !.err = "SUCCESS"]
    BY <1>0, <1>12, GotoFrame DEF dlock_return
  <2>2. pc'[t] \in {"driver_done", "slock_enter", "next_item", "driver_check", "driver_free"}
    BY <1>12, GotoFrame DEF dlock_return
  <2>3. call'[t].op = d.op /\ call'[t].filep = d.filep
    BY <1>0, <2>1 DEF CallType
  <2> QED
    BY <1>12, <2>2, <2>3, GotoFrame DEF dlock_return
<1>13. ASSUME driver_check(t)
     PROVE  pc[t] # "idle" /\ Kept /\ Ends /\ Frame
  <2>1. \E l \in {"driver_apply", "dlock_lock"} : Frame /\ pc'[t] = l /\ call'[t].op = d.op /\ call'[t].filep = d.filep
    BY <1>13, UpdatesKeep DEF driver_check
  <2> QED
    BY <1>13, <2>1 DEF driver_check
<1>14. ASSUME driver_apply(t)
     PROVE  pc[t] # "idle" /\ Kept /\ Ends /\ Frame
  <2>1. \/ call'[t] = [d EXCEPT !.lock = "RELEASE", !.devs = {}]
        \/ call'[t] = [d EXCEPT !.lock = "RELEASE", !.devs = Device]
    BY <1>0, <1>14, GotoFrame DEF driver_apply
  <2>2. pc'[t] \in {"driver_done", "driver_free"}
    BY <1>14, GotoFrame DEF driver_apply
  <2>3. call'[t].op = d.op /\ call'[t].filep = d.filep
    BY <1>0, <2>1 DEF CallType
  <2> QED
    BY <1>14, <2>2, <2>3, GotoFrame DEF driver_apply
<1>15. ASSUME driver_free(t)
     PROVE  pc[t] # "idle" /\ Kept /\ Ends /\ Frame
  <2>1. \E l \in {"driver_done", "dlock_lock"} : Frame /\ pc'[t] = l /\ call'[t].op = d.op /\ call'[t].filep = d.filep
    BY <1>15, UpdatesKeep DEF driver_free
  <2> QED
    BY <1>15, <2>1 DEF driver_free
<1>16. ASSUME driver_done(t)
     PROVE  pc[t] # "idle" /\ Kept /\ Ends /\ Frame
  BY <1>0, <1>16, GotoFrame DEF driver_done, CallType
<1>17. ASSUME dlock_exited(t)
     PROVE  pc[t] # "idle" /\ Kept /\ Ends /\ Frame
  BY <1>0, <1>17, GotoFrame DEF dlock_exited, CallType
<1> QED
  BY <1>1, <1>2, <1>3, <1>4, <1>5, <1>6, <1>7, <1>8, <1>9, <1>10, <1>11, <1>12, <1>13, <1>14, <1>15, <1>16, <1>17, GotoFrame DEF Step

LEMMA LocalsKept ==
    ASSUME TypeOK, NEW t \in Task, NEW l,
           \/ Goto(t, l, call[t])
           \/ \E x : Goto(t, l, [call[t] EXCEPT !.sub = x])
           \/ \E e : Goto(t, l, [call[t] EXCEPT !.err = e])
           \/ \E x, e : Goto(t, l, [call[t] EXCEPT !.sub = x, !.err = e])
    PROVE  pc'[t] = l /\ call'[t].dev = call[t].dev /\ call'[t].lock = call[t].lock
<1> DEFINE Kept == pc'[t] = l /\ call'[t].dev = call[t].dev /\ call'[t].lock = call[t].lock
<1>0. call[t] \in CallType
  BY DEF TypeOK
<1>1. ASSUME Goto(t, l, call[t]) PROVE Kept
  BY <1>1, GotoFrame
<1>2. ASSUME NEW x, Goto(t, l, [call[t] EXCEPT !.sub = x]) PROVE Kept
  <2>1. pc'[t] = l /\ call'[t] = [call[t] EXCEPT !.sub = x]
    BY <1>2, GotoFrame
  <2> QED
    BY <1>0, <2>1 DEF CallType
<1>3. ASSUME NEW e, Goto(t, l, [call[t] EXCEPT !.err = e]) PROVE Kept
  <2>1. pc'[t] = l /\ call'[t] = [call[t] EXCEPT !.err = e]
    BY <1>3, GotoFrame
  <2> QED
    BY <1>0, <2>1 DEF CallType
<1>4. ASSUME NEW x, NEW e, Goto(t, l, [call[t] EXCEPT !.sub = x, !.err = e]) PROVE Kept
  <2>1. ASSUME NEW c, Goto(t, l, c)
        PROVE  pc'[t] = l /\ call'[t] = c
    BY <2>1, GotoFrame
  <2>2. pc'[t] = l /\ call'[t] = [call[t] EXCEPT !.sub = x, !.err = e]
    BY <1>4, <2>1
  <2> QED
    BY <1>0, <2>2 DEF CallType
<1> QED
  BY <1>1, <1>2, <1>3, <1>4

LEMMA DriverFlow ==
    ASSUME InductiveInv, NEW t \in Task, Step(t)
    PROVE  Flow(t, InDriver(t), InDriver(t)', me_count, me_count', me_filep, me_filep')
<1> USE DEF InductiveInv
<1>1. CASE driver_exit(t)
  <2>1. InDriver(t) /\ ~ InDriver(t)'
    BY <1>1, StepKeeps DEF driver_exit, CallOK, Shape, InDriver, NoCall, Goto, TypeOK
  <2>2. t \in {u \in Task : InDriver(u)}
    BY <2>1
  <2>3. me_count >= 1 /\ me_count \in Nat
    BY <2>2, SomebodyInside DEF CountsInside, TypeOK
  <2> QED
    BY <1>1, <2>1, <2>3 DEF driver_exit, Flow
<1>2. CASE ~ driver_exit(t)
  <2>1. InDriver(t)' <=> InDriver(t)
    BY <1>2, StepKeeps DEF CallOK, Shape, InDriver, NoCall, driver_done
  <2>2. me_count' = me_count /\ (me_filep' = me_filep \/ driver_apply(t))
    BY <1>2 DEF Step, dlock_enter, slock_enter, slock_exit, dlock_exit, dlock_exited,
       next_item, me_slock_lock, dlock_lock, dlock_check, dlock_apply, dlock_free, dlock_return,
       driver_check, driver_free, driver_done, driver_apply
  <2>3. driver_apply(t) => me_filep' = me_filep \/ me_count = 0
    BY DEF driver_apply
  <2> QED
    BY <2>1, <2>2, <2>3 DEF Flow
<1> QED
  BY <1>1, <1>2

\* As Flow, or a task leaves the device without being discounted.
DeviceStep(t, d) ==
    \/ Flow(t, AtDevice(t, d), AtDevice(t, d)', dlock[d].count, dlock'[d].count,
            dlock[d].filep, dlock'[d].filep)
    \/ /\ AtDevice(t, d) /\ ~ AtDevice(t, d)'
       /\ dlock'[d] = dlock[d]

DeviceLocations == {"slock_enter", "inside", "slock_lock", "dlock_exit",
                    "dlock_lock", "dlock_check", "dlock_apply", "dlock_done"}

LEMMA DeviceFlow ==
    ASSUME TypeOK, CallOK, SpinOK, CountsInside, NEW t \in Task, Step(t), NEW d \in Device
    PROVE  DeviceStep(t, d)
<1> DEFINE c == call[t]
<1>a. /\ Shape(pc[t], c)
      /\ dlock[d].count \in Nat
      /\ AtDevice(t, d) <=> InDevice(t) /\ c.dev = d
      /\ AtDevice(t, d)' <=> InDevice(t)' /\ call'[t].dev = d
  BY DEF CallOK, TypeOK, AtDevice
<1>b. dlock \in DlockType
  BY LockUpdates
<1>s. ASSUME dlock'[d].count = dlock[d].count, dlock'[d].filep = dlock[d].filep,
             AtDevice(t, d)' <=> AtDevice(t, d)
      PROVE  DeviceStep(t, d)
  BY <1>s DEF DeviceStep, Flow
<1>o. ASSUME pc'[t] # "idle", call'[t].dev = c.dev,
             pc[t] \in DeviceLocations <=> pc'[t] \in DeviceLocations
      PROVE  AtDevice(t, d)' <=> AtDevice(t, d)
  BY <1>o, <1>a, StepKeeps DEF InDevice, DeviceLocations, Shape, CallOK, NoCall
<1>1. CASE dlock_enter(t)
  <2>1. call'[t].dev = c.dev
    BY <1>1, GotoFrame DEF dlock_enter, TypeOK, CallType
  <2>2. CASE Refuses(dlock[c.dev].filep, c.filep)
    <3>1. pc'[t] \in {"driver_done", "next_item"} /\ pc[t] = "dlock_enter" /\ dlock' = dlock
      BY <1>1, <2>2, GotoFrame DEF dlock_enter
    <3> QED
      BY <2>1, <3>1, <1>s, <1>o DEF DeviceLocations
  <2>3. CASE ~ Refuses(dlock[c.dev].filep, c.filep)
    <3>1. /\ pc[t] = "dlock_enter"
          /\ pc'[t] \in {"slock_lock", "dlock_lock", "slock_enter"}
          /\ dlock' = [dlock EXCEPT ![c.dev].count = @ + 1]
      BY <1>1, <2>3, GotoFrame DEF dlock_enter
    <3>2. c.op \in {"io", "reset_device", "lock_subdevice"}
      BY <1>a, <3>1 DEF Shape
    <3>3. ~ InDevice(t) /\ InDevice(t)'
      BY <3>1, <3>2, StepKeeps DEF InDevice
    <3>4. CASE c.dev = d
      <4>1. dlock'[d].count = dlock[d].count + 1 /\ dlock'[d].filep = dlock[d].filep
        BY <1>b, <3>1, <3>4 DEF DlockType
      <4> QED
        BY <4>1, <3>3, <3>4, <2>1, <2>3, <1>a DEF DeviceStep, Flow
    <3>5. CASE c.dev # d
      <4>1. dlock'[d] = dlock[d]
        BY <1>b, <3>1, <3>5 DEF DlockType
      <4> QED
        BY <4>1, <3>5, <2>1, <1>a, <1>s
    <3> QED
      BY <3>4, <3>5
  <2> QED
    BY <2>2, <2>3
<1>2. CASE slock_enter(t) \/ slock_exit(t)
  <2>1. dlock' = dlock
    BY <1>2 DEF slock_enter, slock_exit
  <2>2. pc[t] \in {"slock_enter", "inside"}
    BY <1>2 DEF slock_enter, slock_exit
  <2>3. call'[t].dev = c.dev /\ pc'[t] \in {"slock_enter", "inside", "dlock_exit", "next_item"}
    BY <1>2, LocalsKept DEF slock_enter, slock_exit, AfterSubdevice
  <2>4. CASE c.op = "irq_test"
    BY <2>1, <2>3, <2>4, <1>a, <1>s, StepKeeps DEF InDevice
  <2>5. CASE c.op # "irq_test"
    <3>1. pc'[t] \in {"slock_enter", "inside", "dlock_exit"}
      BY <1>2, <2>5, LocalsKept DEF slock_enter, slock_exit, AfterSubdevice
    <3> QED
      BY <2>1, <2>2, <2>3, <3>1, <1>s, <1>o DEF DeviceLocations
  <2> QED
    BY <2>4, <2>5
<1>3. CASE dlock_exit(t)
  <2>1. /\ call'[t].dev = c.dev /\ pc[t] = "dlock_exit"
        /\ pc'[t] = "dlock_exited"
    BY <1>3, LocalsKept DEF dlock_exit
  <2>2. dlock' = [dlock EXCEPT ![c.dev].count = @ - 1]
    BY <1>3 DEF dlock_exit
  <2>3. InDevice(t) /\ ~ InDevice(t)'
    BY <2>1, <1>a DEF InDevice, Shape
  <2>4. CASE c.dev = d
    <3>1. /\ dlock'[d].count = dlock[d].count - 1
          /\ dlock'[d].filep = dlock[d].filep
      BY <1>b, <2>2, <2>4 DEF DlockType
    <3>2. TasksInDevice(d) \in SUBSET Task /\ t \in TasksInDevice(d)
      BY <2>3, <2>4 DEF TasksInDevice
    <3>3. /\ dlock[d].count >= Cardinality(TasksInDevice(d))
          /\ Cardinality(TasksInDevice(d)) \in Nat /\ Cardinality(TasksInDevice(d)) >= 1
      BY <3>2, SomebodyInside DEF CountsInside
    <3>4. dlock[d].count >= 1
      BY <3>3, <1>a
    <3> QED
      BY <3>1, <3>4, <2>1, <2>3, <2>4, <1>a DEF DeviceStep, Flow
  <2>5. CASE c.dev # d
    <3>1. dlock'[d] = dlock[d]
      BY <1>b, <2>2, <2>5 DEF DlockType
    <3> QED
      BY <3>1, <2>1, <2>5, <1>a, <1>s
  <2> QED
    BY <2>4, <2>5
<1>4. CASE next_item(t) \/ driver_exit(t) \/ driver_check(t) \/ driver_apply(t)
           \/ driver_free(t) \/ driver_done(t)
  <2>1. dlock' = dlock
    BY <1>4 DEF next_item, driver_exit, driver_check, driver_apply, driver_free, driver_done
  <2>2. pc[t] \in {"next_item", "driver_exit", "driver_check", "driver_apply",
                   "driver_free", "driver_done"}
    BY <1>4 DEF next_item, driver_exit, driver_check, driver_apply, driver_free, driver_done
  <2>3. ~ InDevice(t)
    BY <2>2 DEF InDevice
  <2>4. pc[t] = "next_item" => pc'[t] \in {"driver_exit", "dlock_enter"}
    BY <1>4, UpdatesKeep DEF next_item, driver_exit, driver_check, driver_apply,
       driver_free, driver_done
  <2>5. pc[t] \in {"driver_exit", "driver_done"} => pc'[t] = "idle"
    BY <1>4, GotoFrame DEF next_item, driver_exit, driver_check, driver_apply,
       driver_free, driver_done
  <2>6. pc[t] \in {"driver_check", "driver_apply", "driver_free"} =>
           call'[t].op \in DriverOps \cup {"none"}
    BY <1>a, StepKeeps DEF NoCall, Shape
  <2>7. ~ InDevice(t)'
    BY <2>2, <2>4, <2>5, <2>6 DEF InDevice
  <2> QED
    BY <2>1, <2>3, <2>7, <1>a, <1>s
<1>5. CASE me_slock_lock(t)
  <2>1. /\ dlock' = dlock /\ call'[t].dev = c.dev
        /\ pc[t] = "slock_lock" /\ pc'[t] = "dlock_exit"
    BY <1>5, LocalsKept DEF me_slock_lock
  <2> QED
    BY <2>1, <1>s, <1>o DEF DeviceLocations
<1>6. CASE dlock_lock(t) \/ dlock_check(t)
  <2>1. /\ call'[t].dev = c.dev
        /\ pc[t] \in {"dlock_lock", "dlock_check"}
        /\ pc'[t] \in {"dlock_check", "dlock_apply", "dlock_done"}
    BY <1>6, LocalsKept DEF dlock_lock, dlock_check
  <2>2. dlock' = dlock \/ \E w : dlock' = [dlock EXCEPT ![c.dev].spin = w]
    BY <1>6 DEF dlock_lock, dlock_check
  <2>3. ASSUME NEW w, dlock' = [dlock EXCEPT ![c.dev].spin = w]
        PROVE  dlock'[d].count = dlock[d].count /\ dlock'[d].filep = dlock[d].filep
    BY <1>b, <2>3 DEF DlockType
  <2>4. dlock'[d].count = dlock[d].count /\ dlock'[d].filep = dlock[d].filep
    BY <2>2, <2>3
  <2> QED
    BY <2>1, <2>4, <1>s, <1>o DEF DeviceLocations
<1>7. CASE dlock_apply(t)
  <2>0. /\ call'[t].dev = c.dev /\ pc[t] = "dlock_apply"
        /\ pc'[t] \in {"dlock_free", "dlock_done"}
        /\ pc'[t] = "dlock_free" => c.lock = "RELEASE"
    BY <1>7, GotoFrame DEF dlock_apply
  <2>1. /\ call'[t].dev = c.dev /\ pc[t] = "dlock_apply"
        /\ pc'[t] \in {"dlock_free", "dlock_done"}
        /\ pc'[t] = "dlock_free" => c.lock = "RELEASE"
        /\ call'[t].op = c.op
    BY <2>0, StepKeeps
  <2>2. pc'[t] = "dlock_free" => c.op # "reset_device"
    BY <2>1, <1>a DEF Shape
  <2>3. c.op \in DriverOps \cup {"lock_device", "reset_device"}
    BY <2>1, <1>a DEF Shape
  <2>4. AtDevice(t, d)' <=> AtDevice(t, d)
    BY <2>1, <2>2, <2>3, <1>a DEF InDevice
  <2>5. c.dev \in Device
    BY <2>1, <1>a DEF Shape
  <2>6. dlock'[d].count = dlock[d].count
    BY <1>7, <1>b, <2>5 DEF dlock_apply, DlockType
  <2>7. dlock'[d].filep = dlock[d].filep \/ (c.dev = d /\ c.lock # "CHECK")
    BY <1>7, <1>b, <2>5 DEF dlock_apply, DlockType
  <2>8. c.lock # "CHECK" => dlock[c.dev].count = 0
    BY <2>1 DEF SpinOK
  <2> QED
    BY <2>4, <2>6, <2>7, <2>8 DEF DeviceStep, Flow
<1>8. CASE dlock_free(t)
  <2>0. pc'[t] \in {"dlock_free", "dlock_done"} /\ pc[t] = "dlock_free"
    BY <1>8, GotoFrame DEF dlock_free
  <2>1. call'[t].op = c.op /\ pc[t] = "dlock_free"
    BY <2>0, StepKeeps
  <2>3. c.op \in DriverOps \cup {"lock_device"}
    BY <2>1, <1>a DEF Shape
  <2>4. ~ AtDevice(t, d)' /\ ~ AtDevice(t, d)
    BY <2>1, <2>3, <1>a DEF InDevice
  <2>2. \E w : dlock' = [dlock EXCEPT ![c.dev].spin = w]
    BY <1>8 DEF dlock_free
  <2>5. dlock'[d].count = dlock[d].count /\ dlock'[d].filep = dlock[d].filep
    BY <1>b, <2>2 DEF DlockType
  <2> QED
    BY <2>4, <2>5, <1>s
<1>9. CASE dlock_return(t)
  <2>1. dlock' = dlock /\ pc[t] = "dlock_done"
    BY <1>9 DEF dlock_return
  <2>2. CASE c.op = "reset_device"
    <3>1. call'[t].dev = c.dev /\ pc'[t] \in {"slock_enter", "next_item"}
      BY <1>9, <2>2, LocalsKept DEF dlock_return
    <3>2. InDevice(t)
      BY <2>1, <2>2 DEF InDevice
    <3>3. InDevice(t)' <=> pc'[t] = "slock_enter"
      BY <3>1, <2>2, StepKeeps DEF InDevice
    <3> QED
      BY <3>1, <3>2, <3>3, <2>1, <1>a, <1>s DEF DeviceStep
  <2>3. CASE c.op # "reset_device"
    <3>1. ~ InDevice(t)
      BY <2>1, <2>3, <1>a DEF InDevice, Shape
    <3>2. ~ InDevice(t)'
      BY <2>1, <2>3, <1>a, StepKeeps DEF InDevice, Shape, NoCall
    <3> QED
      BY <3>1, <3>2, <2>1, <1>a, <1>s
  <2> QED
    BY <2>2, <2>3
<1>10. CASE dlock_exited(t)
  <2>1. /\ call'[t].dev = c.dev /\ pc[t] = "dlock_exited"
        /\ pc'[t] \in {"driver_done", "next_item"}
    BY <1>10, LocalsKept DEF dlock_exited
  <2>2. dlock' = dlock
    BY <1>10, NothingToRepair
  <2> QED
    BY <2>1, <2>2, <1>s, <1>o DEF DeviceLocations
<1> QED
  BY <1>1, <1>2, <1>3, <1>4, <1>5, <1>6, <1>7, <1>8, <1>9, <1>10 DEF Step

\* me_slock_lock() changes the holder only while the counter is zero.
LEMMA SlockOwnerKeeps ==
    ASSUME NEW r, NEW f, NEW lock, NEW flags
    PROVE  SlockOwner(r, f, lock, flags) = slock[r].filep \/ slock[r].count = 0
<1>1. CASE SlockError(r, f, lock, flags) # "SUCCESS"
  BY <1>1 DEF SlockOwner
<1>2. CASE SlockError(r, f, lock, flags) = "SUCCESS"
  <2>1. lock # "CHECK" => slock[r].count = 0
    BY <1>2 DEF SlockError
  <2>2. lock = "CHECK" => SlockOwner(r, f, lock, flags) = slock[r].filep
    BY <1>2 DEF SlockOwner
  <2> QED
    BY <2>1, <2>2
<1> QED
  BY <1>1, <1>2

SubdeviceStep(t, r) ==
    Flow(t, AtSubdevice(t, r), AtSubdevice(t, r)', slock[r].count, slock'[r].count,
         slock[r].filep, slock'[r].filep)

LEMMA SubdeviceFlow ==
    ASSUME TypeOK, CallOK, NEW t \in Task, Step(t), NEW r \in Device \X Sub
    PROVE  SubdeviceStep(t, r)
<1> DEFINE c == call[t]
<1>a. /\ slock[r].count \in Nat
      /\ AtSubdevice(t, r) <=> pc[t] = "inside" /\ Here(t) = r
      /\ AtSubdevice(t, r)' <=> pc'[t] = "inside" /\ Here(t)' = r
  BY DEF TypeOK, AtSubdevice, InSubdevice
<1>b. slock \in SlockType
  BY LockUpdates
<1>1. CASE slock_enter(t)
  <2>1. pc[t] = "slock_enter" /\ Here(t) \in Device \X Sub
    BY <1>1, CallFacts DEF slock_enter
  <2>2. CASE Refuses(slock[Here(t)].filep, c.filep)
    <3>1. slock' = slock /\ AfterSubdevice(t)
      BY <1>1, <2>2 DEF slock_enter
    <3>2. pc'[t] \in {"slock_enter", "dlock_exit", "next_item"}
      BY <3>1, LocalsKept DEF AfterSubdevice
    <3> QED
      BY <1>a, <2>1, <3>1, <3>2 DEF SubdeviceStep, Flow
  <2>3. CASE ~ Refuses(slock[Here(t)].filep, c.filep)
    <3>1. /\ slock' = [slock EXCEPT ![Here(t)].count = @ + 1]
          /\ Goto(t, "inside", c)
      BY <1>1, <2>3 DEF slock_enter
    <3>2. pc'[t] = "inside" /\ Here(t)' = Here(t)
      BY <3>1, GotoFrame DEF Here
    <3>3. CASE Here(t) = r
      <4>1. slock'[r].count = slock[r].count + 1 /\ slock'[r].filep = slock[r].filep
        BY <1>b, <3>1, <3>3 DEF SlockType
      <4> QED
        BY <1>a, <2>1, <2>3, <3>2, <3>3, <4>1 DEF SubdeviceStep, Flow
    <3>4. CASE Here(t) # r
      <4>1. slock'[r] = slock[r]
        BY <1>b, <3>1, <3>4 DEF SlockType
      <4> QED
        BY <1>a, <2>1, <3>2, <3>4, <4>1 DEF SubdeviceStep, Flow
    <3> QED
      BY <3>3, <3>4
  <2> QED
    BY <2>2, <2>3
<1>2. CASE slock_exit(t)
  <2>1. /\ pc[t] = "inside" /\ Here(t) \in Device \X Sub /\ AfterSubdevice(t)
        /\ slock' = [slock EXCEPT ![Here(t)].count = IF @ - 1 < 0 THEN 0 ELSE @ - 1]
    BY <1>2, CallFacts DEF slock_exit
  <2>2. pc'[t] \in {"slock_enter", "dlock_exit", "next_item"}
    BY <2>1, LocalsKept DEF AfterSubdevice
  <2>3. CASE Here(t) = r
    <3>1. /\ slock'[r].count = (IF slock[r].count - 1 < 0 THEN 0 ELSE slock[r].count - 1)
          /\ slock'[r].filep = slock[r].filep
      BY <1>b, <2>1, <2>3 DEF SlockType
    <3> QED
      BY <1>a, <2>1, <2>2, <2>3, <3>1 DEF SubdeviceStep, Flow
  <2>4. CASE Here(t) # r
    <3>1. slock'[r] = slock[r]
      BY <1>b, <2>1, <2>4 DEF SlockType
    <3> QED
      BY <1>a, <2>1, <2>2, <2>4, <3>1 DEF SubdeviceStep, Flow
  <2> QED
    BY <2>3, <2>4
<1>3. CASE me_slock_lock(t) \/ dlock_free(t)
  <2>1. /\ pc[t] \in {"slock_lock", "dlock_free"}
        /\ \E l, f, k, g :
              slock' = [slock EXCEPT ![Here(t)].filep = SlockOwner(Here(t), f, k, g)]
    BY <1>3 DEF me_slock_lock, dlock_free
  <2>2. PICK f, k, g :
           slock' = [slock EXCEPT ![Here(t)].filep = SlockOwner(Here(t), f, k, g)]
    BY <2>1
  <2>3. pc'[t] \in {"dlock_exit", "dlock_free", "dlock_done"}
    BY <1>3, GotoFrame DEF me_slock_lock, dlock_free
  <2>4. Here(t) \in Device \X Sub
    BY <2>1, CallFacts
  <2>5. slock'[r].count = slock[r].count
    BY <1>b, <2>2, <2>4 DEF SlockType
  <2>6. slock'[r].filep = slock[r].filep \/ slock[r].count = 0
    <3>1. CASE Here(t) = r
      <4>1. slock'[r].filep = SlockOwner(r, f, k, g)
        BY <1>b, <2>2, <3>1 DEF SlockType
      <4> QED
        BY <4>1, SlockOwnerKeeps
    <3>2. CASE Here(t) # r
      BY <1>b, <2>2, <3>2 DEF SlockType
    <3> QED
      BY <3>1, <3>2
  <2> QED
    BY <1>a, <2>1, <2>3, <2>5, <2>6 DEF SubdeviceStep, Flow
<1>4. CASE dlock_enter(t) \/ dlock_exit(t) \/ dlock_exited(t) \/ dlock_lock(t)
           \/ dlock_check(t) \/ dlock_apply(t) \/ dlock_return(t)
  <2>1. slock' = slock /\ pc[t] # "inside"
    BY <1>4 DEF dlock_enter, dlock_exit, dlock_exited, dlock_lock, dlock_check, dlock_apply,
       dlock_return
  <2>2. pc'[t] # "inside"
    BY <1>4, GotoFrame DEF dlock_enter, dlock_exit, dlock_exited, dlock_lock, dlock_check,
       dlock_apply, dlock_return
  <2> QED
    BY <1>a, <2>1, <2>2 DEF SubdeviceStep, Flow
<1>5. CASE next_item(t) \/ driver_check(t) \/ driver_free(t)
  <2>1. slock' = slock /\ pc[t] # "inside"
    BY <1>5 DEF next_item, driver_check, driver_free
  <2>2. pc'[t] \in {"driver_exit", "dlock_enter", "driver_apply", "dlock_lock", "driver_done"}
    BY <1>5, UpdatesKeep DEF next_item, driver_check, driver_free
  <2> QED
    BY <1>a, <2>1, <2>2 DEF SubdeviceStep, Flow
<1>6. CASE driver_exit(t) \/ driver_apply(t) \/ driver_done(t)
  <2>1. slock' = slock /\ pc[t] # "inside"
    BY <1>6 DEF driver_exit, driver_apply, driver_done
  <2>2. pc'[t] \in {"idle", "driver_free", "driver_done"}
    BY <1>6, GotoFrame DEF driver_exit, driver_apply, driver_done
  <2> QED
    BY <1>a, <2>1, <2>2 DEF SubdeviceStep, Flow
<1> QED
  BY <1>1, <1>2, <1>3, <1>4, <1>5, <1>6 DEF Step

-----------------------------------------------------------------------------
(* The spin locks.                                                         *)

LEMMA StepSpin ==
    ASSUME TypeOK, CallOK, SpinOK, NEW t \in Task, Step(t)
    PROVE  SpinOK'
<1> DEFINE c == call[t]
           Held(u) == pc[u] \in {"dlock_check", "dlock_apply", "dlock_free"}
           Holds(u) == /\ dlock[call[u].dev].spin = u
                       /\ pc[u] # "dlock_free" /\ call[u].lock # "CHECK" =>
                             dlock[call[u].dev].count = 0
<1>a. \A u \in Task : Held(u) => Holds(u) /\ call[u].dev \in Device
  BY DEF SpinOK, CallOK, Shape
<1>b. dlock \in DlockType /\ NULL \notin Task
  BY LockUpdates, NullAssumption
<1>1. \A u \in Task : call'[u].op \in LockOps <=> me_lock' = u
  <2>1. CASE driver_done(t)
    <3>1. pc[t] = "driver_done" /\ me_lock' = NULL /\ call'[t] = NoCall
      BY <2>1, GotoFrame DEF driver_done
    <3>2. c.op \in LockOps
      BY <3>1 DEF CallOK, Shape
    <3> QED
      BY <3>1, <3>2, <1>b, StepKeeps DEF SpinOK, NoCall
  <2>2. CASE driver_exit(t)
    <3>1. pc[t] = "driver_exit" /\ me_lock' = me_lock /\ call'[t] = NoCall
      BY <2>2, GotoFrame DEF driver_exit
    <3>2. c.op \notin LockOps
      BY <3>1 DEF CallOK, Shape
    <3> QED
      BY <3>1, <3>2, StepKeeps DEF SpinOK, NoCall
  <2>3. CASE ~ driver_done(t) /\ ~ driver_exit(t)
    <3>1. me_lock' = me_lock
      BY <2>3 DEF Step, dlock_enter, slock_enter, slock_exit, dlock_exit, dlock_exited,
         next_item, me_slock_lock, dlock_lock, dlock_check, dlock_apply, dlock_free, dlock_return,
         driver_check, driver_apply, driver_free
    <3>2. call'[t].op = c.op
      BY <2>3, StepKeeps
    <3> QED
      BY <3>1, <3>2, StepKeeps DEF SpinOK
  <2> QED
    BY <2>1, <2>2, <2>3
<1>2. \A u \in Task \ {t} : Held(u) => dlock'[call[u].dev] = dlock[call[u].dev]
  <2> SUFFICES ASSUME NEW u \in Task \ {t}, Held(u)
               PROVE  dlock'[call[u].dev] = dlock[call[u].dev]
    OBVIOUS
  <2>1. dlock[call[u].dev].spin = u /\ call[u].dev \in Device
    BY <1>a
  <2>2. CASE dlock_enter(t) \/ dlock_exit(t) \/ dlock_lock(t)
    <3>1. dlock[c.dev].spin = NULL
      BY <2>2 DEF dlock_enter, dlock_exit, dlock_lock, SpinFree
    <3>2. call[u].dev # c.dev
      BY <2>1, <3>1, <1>b
    <3> QED
      BY <2>1, <2>2, <3>2, <1>b DEF dlock_enter, dlock_exit, dlock_lock, DlockType
  <2>3. CASE dlock_check(t) \/ dlock_apply(t) \/ dlock_free(t)
    <3>1. Held(t)
      BY <2>3 DEF dlock_check, dlock_apply, dlock_free
    <3>2. call[u].dev # c.dev
      BY <2>1, <3>1, <1>a
    <3> QED
      BY <2>1, <2>3, <3>2, <1>b DEF dlock_check, dlock_apply, dlock_free, DlockType
  <2>4. CASE ~ (dlock_enter(t) \/ dlock_exit(t) \/ dlock_exited(t) \/ dlock_lock(t)
                \/ dlock_check(t) \/ dlock_apply(t) \/ dlock_free(t))
    BY <2>4 DEF Step, slock_enter, slock_exit, next_item, driver_exit, me_slock_lock,
       dlock_return, driver_check, driver_apply, driver_free, driver_done
  <2>5. CASE dlock_exited(t)
    BY <2>5, NothingToRepair
  <2> QED
    BY <2>2, <2>3, <2>4, <2>5
<1>3. \A u \in Task \ {t} : Held(u)' => Holds(u)'
  BY <1>2, <1>a, StepKeeps
<1>4. Held(t)' => Holds(t)'
  <2>1. CASE dlock_lock(t)
    <3>1. pc[t] = "dlock_lock" /\ c.dev \in Device
      BY <2>1, CallFacts DEF dlock_lock
    <3>2. CASE DlockError(c.dev, c.filep, c.lock, c.flags) # "SUCCESS"
      BY <2>1, <3>2, GotoFrame DEF dlock_lock
    <3>3. CASE DlockError(c.dev, c.filep, c.lock, c.flags) = "SUCCESS"
      <4>1. c.lock # "CHECK" => dlock[c.dev].count = 0
        BY <3>3 DEF DlockError
      <4>2. dlock' = [dlock EXCEPT ![c.dev].spin = t]
        BY <2>1, <3>3 DEF dlock_lock
      <4>3. call'[t].dev = c.dev /\ call'[t].lock = c.lock
        BY <2>1, <3>3, LocalsKept DEF dlock_lock
      <4>4. dlock'[c.dev].spin = t /\ dlock'[c.dev].count = dlock[c.dev].count
        BY <3>1, <4>2, <1>b DEF DlockType
      <4> QED
        BY <4>1, <4>3, <4>4
    <3> QED
      BY <3>2, <3>3
  <2>2. CASE dlock_check(t)
    <3>1. Held(t)
      BY <2>2 DEF dlock_check
    <3>2. CASE SlockError(Here(t), c.filep, "CHECK", {}) # "SUCCESS"
      BY <2>2, <3>2, GotoFrame DEF dlock_check
    <3>3. CASE SlockError(Here(t), c.filep, "CHECK", {}) = "SUCCESS"
      <4>1. dlock' = dlock
        BY <2>2, <3>3 DEF dlock_check
      <4>2. /\ call'[t].dev = c.dev /\ call'[t].lock = c.lock
            /\ pc'[t] \in {"dlock_check", "dlock_apply"} /\ pc[t] = "dlock_check"
        BY <2>2, <3>3, LocalsKept DEF dlock_check
      <4> QED
        BY <3>1, <4>1, <4>2, <1>a
    <3> QED
      BY <3>2, <3>3
  <2>3. CASE dlock_apply(t)
    <3>1. Held(t) /\ pc[t] = "dlock_apply"
      BY <2>3 DEF dlock_apply
    <3>2. CASE c.lock = "RELEASE" /\ "PRESERVE" \notin c.flags
      <4>1. pc'[t] = "dlock_free" /\ call'[t].dev = c.dev
        BY <2>3, <3>2, LocalsKept DEF dlock_apply
      <4>2. dlock'[c.dev].spin = dlock[c.dev].spin
        BY <2>3, <3>1, <3>2, <1>a, <1>b DEF dlock_apply, DlockType
      <4> QED
        BY <3>1, <4>1, <4>2, <1>a
    <3>3. CASE ~ (c.lock = "RELEASE" /\ "PRESERVE" \notin c.flags)
      <4>1. pc'[t] = "dlock_done"
        BY <2>3, <3>3, LocalsKept DEF dlock_apply
      <4> QED
        BY <4>1
    <3> QED
      BY <3>2, <3>3
  <2>4. CASE dlock_free(t)
    <3> DEFINE e    == SlockError(Here(t), c.filep, "RELEASE", c.flags)
               more == e = "SUCCESS" /\ c.sub + 1 < NSub
    <3>1. Held(t) /\ pc[t] = "dlock_free"
      BY <2>4 DEF dlock_free
    <3>2. CASE more
      <4>1. pc'[t] = "dlock_free" /\ call'[t].dev = c.dev
        BY <2>4, <3>2, LocalsKept DEF dlock_free
      <4>2. dlock'[c.dev].spin = dlock[c.dev].spin
        BY <2>4, <3>1, <3>2, <1>a, <1>b DEF dlock_free, DlockType
      <4> QED
        BY <3>1, <4>1, <4>2, <1>a
    <3>3. CASE ~ more
      <4>1. pc'[t] = "dlock_done"
        BY <2>4, <3>3, LocalsKept DEF dlock_free
      <4> QED
        BY <4>1
    <3> QED
      BY <3>2, <3>3
  <2>5. CASE next_item(t) \/ driver_check(t) \/ driver_free(t)
    <3>1. pc'[t] \in {"driver_exit", "dlock_enter", "driver_apply", "dlock_lock", "driver_done"}
      BY <2>5, UpdatesKeep DEF next_item, driver_check, driver_free
    <3> QED
      BY <3>1
  <2>6. CASE driver_exit(t) \/ driver_apply(t) \/ driver_done(t) \/ dlock_return(t)
    <3>1. pc'[t] \in {"idle", "driver_free", "driver_done", "slock_enter", "next_item",
                      "driver_check"}
      BY <2>6, GotoFrame DEF driver_exit, driver_apply, driver_done, dlock_return
    <3> QED
      BY <3>1
  <2>7. CASE dlock_enter(t) \/ dlock_exit(t) \/ dlock_exited(t) \/ me_slock_lock(t)
    <3>1. pc'[t] \in {"driver_done", "next_item", "slock_lock", "dlock_lock", "slock_enter",
                      "dlock_exit", "dlock_exited"}
      BY <2>7, GotoFrame DEF dlock_enter, dlock_exit, dlock_exited, me_slock_lock
    <3> QED
      BY <3>1
  <2>8. CASE slock_enter(t) \/ slock_exit(t)
    <3>1. pc'[t] \in {"inside", "slock_enter", "dlock_exit", "next_item"}
      BY <2>8, LocalsKept DEF slock_enter, slock_exit, AfterSubdevice
    <3> QED
      BY <3>1
  <2> QED
    BY <2>1, <2>2, <2>3, <2>4, <2>5, <2>6, <2>7, <2>8 DEF Step
<1> QED
  BY <1>1, <1>3, <1>4 DEF SpinOK

-----------------------------------------------------------------------------
(* Counters and exclusion.                                                 *)

\* What holds at one lock: n counts at least the tasks in A, all of whom work
\* for the holder x.
Guarded(A, n, x) ==
    /\ n \in Nat /\ n >= Cardinality(A)
    /\ \A u \in A : ~ Refuses(x, call[u].filep)

\* A step that flows through the lock keeps it guarded, and the count exact.
LEMMA FlowKeeps ==
    ASSUME TypeOK, NEW t \in Task, NEW A \in SUBSET Task, NEW B \in SUBSET Task,
           NEW n, NEW m, NEW x, NEW y, Guarded(A, n, x),
           \A u \in Task \ {t} : (u \in A <=> u \in B) /\ call'[u] = call[u],
           t \in B => call'[t].filep = call[t].filep,
           Flow(t, t \in A, t \in B, n, m, x, y)
    PROVE  /\ m \in Nat /\ m >= Cardinality(B)
           /\ \A u \in B : ~ Refuses(y, call'[u].filep)
           /\ n = Cardinality(A) => m = Cardinality(B)
<1>1. n \in Nat /\ n >= Cardinality(A) /\ Cardinality(A) \in Nat /\ Cardinality(B) \in Nat
  BY OneMoves DEF Guarded
<1>2. /\ (t \in A <=> t \in B) => Cardinality(B) = Cardinality(A)
      /\ t \notin A /\ t \in B => Cardinality(B) = Cardinality(A) + 1
      /\ t \in A /\ t \notin B => Cardinality(B) = Cardinality(A) - 1
  BY OneMoves
<1>3. CASE (t \in A <=> t \in B) /\ m = n /\ (y = x \/ n = 0)
  <2>1. m \in Nat /\ m >= Cardinality(B) /\ (n = Cardinality(A) => m = Cardinality(B))
    BY <1>1, <1>2, <1>3
  <2>2. CASE y = x
    BY <1>3, <2>1, <2>2 DEF Guarded
  <2>3. CASE n = 0
    <3>1. A = {}
      BY <1>1, <2>3, NobodyInside
    <3>2. B = {}
      BY <1>3, <3>1
    <3> QED
      BY <2>1, <3>2
  <2> QED
    BY <1>3, <2>2, <2>3
<1>4. CASE t \notin A /\ t \in B /\ m = n + 1 /\ y = x /\ ~ Refuses(x, call[t].filep)
  <2>1. m \in Nat /\ m >= Cardinality(B) /\ (n = Cardinality(A) => m = Cardinality(B))
    BY <1>1, <1>2, <1>4
  <2>2. \A u \in B : ~ Refuses(y, call'[u].filep)
    BY <1>4 DEF Guarded
  <2> QED
    BY <2>1, <2>2
<1>5. CASE t \in A /\ t \notin B /\ m = (IF n - 1 < 0 THEN 0 ELSE n - 1) /\ y = x
  <2>1. m \in Nat /\ m >= Cardinality(B) /\ (n = Cardinality(A) => m = Cardinality(B))
    BY <1>1, <1>2, <1>5
  <2>2. \A u \in B : ~ Refuses(y, call'[u].filep)
    BY <1>5 DEF Guarded
  <2> QED
    BY <2>1, <2>2
<1> QED
  BY <1>3, <1>4, <1>5 DEF Flow

\* A task that leaves without being discounted leaves the count too high.
LEMMA LeakKeeps ==
    ASSUME TypeOK, NEW t \in Task, NEW A \in SUBSET Task, NEW B \in SUBSET Task,
           NEW n, NEW x, Guarded(A, n, x), t \in A, t \notin B,
           \A u \in Task \ {t} : (u \in A <=> u \in B) /\ call'[u] = call[u]
    PROVE  n \in Nat /\ n >= Cardinality(B) /\ \A u \in B : ~ Refuses(x, call'[u].filep)
<1>1. /\ n \in Nat /\ n >= Cardinality(A) /\ Cardinality(A) \in Nat /\ Cardinality(B) \in Nat
      /\ Cardinality(B) = Cardinality(A) - 1
  BY OneMoves DEF Guarded
<1>2. \A u \in B : ~ Refuses(x, call'[u].filep)
  BY DEF Guarded
<1> QED
  BY <1>1, <1>2

DriverTasks == {t \in Task : InDriver(t)}

\* The invariant, one lock at a time.
LEMMA GuardedLocks ==
    ASSUME TypeOK, CallOK
    PROVE  CountsInside /\ Exclusion <=>
             /\ Guarded(DriverTasks, me_count, me_filep)
             /\ me_count = Cardinality(DriverTasks)
             /\ \A d \in Device : Guarded(TasksInDevice(d), dlock[d].count, dlock[d].filep)
             /\ \A r \in Device \X Sub :
                   /\ Guarded(TasksInSubdevice(r), slock[r].count, slock[r].filep)
                   /\ slock[r].count = Cardinality(TasksInSubdevice(r))
<1>1. \A A \in SUBSET Task : Cardinality(A) \in Nat
  BY FiniteAssumption, FS_Subset, FS_CardinalityType
<1>2. /\ me_count \in Nat
      /\ \A d \in Device : dlock[d].count \in Nat
      /\ \A r \in Device \X Sub : slock[r].count \in Nat
  BY DEF TypeOK
<1>3. /\ \A t \in Task : InDevice(t) => call[t].dev \in Device
      /\ \A t \in Task : InSubdevice(t) => Here(t) \in Device \X Sub
  BY CallFacts DEF CallOK, Shape, InDevice, InSubdevice
<1>4. CountsInside <=>
        /\ me_count = Cardinality(DriverTasks)
        /\ \A d \in Device : dlock[d].count >= Cardinality(TasksInDevice(d))
        /\ \A r \in Device \X Sub : slock[r].count = Cardinality(TasksInSubdevice(r))
  BY DEF CountsInside, DriverTasks
<1>5. Exclusion <=>
        /\ \A u \in DriverTasks : ~ Refuses(me_filep, call[u].filep)
        /\ \A d \in Device : \A u \in TasksInDevice(d) : ~ Refuses(dlock[d].filep, call[u].filep)
        /\ \A r \in Device \X Sub : \A u \in TasksInSubdevice(r) :
              ~ Refuses(slock[r].filep, call[u].filep)
  BY <1>3 DEF Exclusion, DriverTasks, TasksInDevice, TasksInSubdevice
<1>6. /\ Cardinality(DriverTasks) \in Nat
      /\ \A d \in Device : Cardinality(TasksInDevice(d)) \in Nat
      /\ \A r \in Device \X Sub : Cardinality(TasksInSubdevice(r)) \in Nat
  BY <1>1 DEF DriverTasks, TasksInDevice, TasksInSubdevice
<1>7. /\ me_count = Cardinality(DriverTasks) => me_count >= Cardinality(DriverTasks)
      /\ \A r \in Device \X Sub : slock[r].count = Cardinality(TasksInSubdevice(r)) =>
            slock[r].count >= Cardinality(TasksInSubdevice(r))
  BY <1>2, <1>6
<1> QED
  BY <1>2, <1>4, <1>5, <1>7 DEF Guarded

\* A step of a task, when the rest of the invariant survives it.
LEMMA StepGuards ==
    ASSUME InductiveInv, NEW t \in Task, Step(t)
    PROVE  /\ me_count' \in Nat /\ \A d \in Device : dlock'[d].count \in Nat
           /\ TypeOK' /\ CallOK' => CountsInside' /\ Exclusion'
<1> USE DEF InductiveInv
<1>1. /\ \A u \in Task \ {t} : pc'[u] = pc[u] /\ call'[u] = call[u]
      /\ \/ call'[t] = NoCall /\ pc'[t] = "idle"
         \/ call'[t].filep = call[t].filep
  BY StepKeeps
<1>2. /\ Guarded(DriverTasks, me_count, me_filep)
      /\ me_count = Cardinality(DriverTasks)
      /\ \A d \in Device : Guarded(TasksInDevice(d), dlock[d].count, dlock[d].filep)
      /\ \A r \in Device \X Sub :
            /\ Guarded(TasksInSubdevice(r), slock[r].count, slock[r].filep)
            /\ slock[r].count = Cardinality(TasksInSubdevice(r))
  BY GuardedLocks
<1>3. /\ me_count' \in Nat
      /\ Guarded(DriverTasks, me_count, me_filep)'
      /\ me_count' = Cardinality(DriverTasks')
  <2>1. /\ DriverTasks \in SUBSET Task /\ DriverTasks' \in SUBSET Task
        /\ \A u \in Task \ {t} : u \in DriverTasks <=> u \in DriverTasks'
        /\ t \in DriverTasks <=> InDriver(t)
        /\ t \in DriverTasks' <=> InDriver(t)'
    BY <1>1 DEF DriverTasks, InDriver
  <2>2. t \in DriverTasks' => call'[t].filep = call[t].filep
    BY <1>1, <2>1 DEF InDriver, NoCall
  <2>3. Flow(t, t \in DriverTasks, t \in DriverTasks', me_count, me_count', me_filep, me_filep')
    BY <2>1, DriverFlow DEF Flow
  <2> QED
    BY <1>1, <1>2, <2>1, <2>2, <2>3, FlowKeeps DEF Guarded
<1>4. ASSUME NEW d \in Device
      PROVE  Guarded(TasksInDevice(d), dlock[d].count, dlock[d].filep)'
  <2> DEFINE A == TasksInDevice(d)
  <2>1. /\ A \in SUBSET Task /\ A' \in SUBSET Task
        /\ \A u \in Task \ {t} : u \in A <=> u \in A'
        /\ t \in A <=> AtDevice(t, d)
        /\ t \in A' <=> AtDevice(t, d)'
    BY <1>1 DEF TasksInDevice, InDevice, AtDevice
  <2>2. t \in A' => call'[t].filep = call[t].filep
    BY <1>1, <2>1 DEF AtDevice, InDevice, NoCall
  <2>3. DeviceStep(t, d)
    BY DeviceFlow
  <2>4. CASE Flow(t, t \in A, t \in A', dlock[d].count, dlock'[d].count,
                  dlock[d].filep, dlock'[d].filep)
    <3>1. Guarded(A, dlock[d].count, dlock[d].filep)
      BY <1>2
    <3>2. /\ dlock'[d].count \in Nat /\ dlock'[d].count >= Cardinality(A')
          /\ \A u \in A' : ~ Refuses(dlock'[d].filep, call'[u].filep)
      BY <1>1, <2>1, <2>2, <2>4, <3>1, FlowKeeps
    <3> QED
      BY <3>2 DEF Guarded
  <2>5. CASE t \in A /\ t \notin A' /\ dlock'[d] = dlock[d]
    <3>1. Guarded(A, dlock[d].count, dlock[d].filep)
      BY <1>2
    <3>2. /\ dlock[d].count \in Nat /\ dlock[d].count >= Cardinality(A')
          /\ \A u \in A' : ~ Refuses(dlock[d].filep, call'[u].filep)
      BY <1>1, <2>1, <2>5, <3>1, LeakKeeps
    <3> QED
      BY <2>5, <3>2 DEF Guarded
  <2> QED
    BY <2>1, <2>3, <2>4, <2>5 DEF DeviceStep, Flow
<1>5. ASSUME NEW r \in Device \X Sub
      PROVE  /\ Guarded(TasksInSubdevice(r), slock[r].count, slock[r].filep)'
             /\ slock'[r].count = Cardinality(TasksInSubdevice(r)')
  <2> DEFINE A == TasksInSubdevice(r)
  <2>1. /\ A \in SUBSET Task /\ A' \in SUBSET Task
        /\ \A u \in Task \ {t} : u \in A <=> u \in A'
        /\ t \in A <=> AtSubdevice(t, r)
        /\ t \in A' <=> AtSubdevice(t, r)'
    BY <1>1 DEF TasksInSubdevice, InSubdevice, AtSubdevice, Here
  <2>2. t \in A' => call'[t].filep = call[t].filep
    BY <1>1, <2>1 DEF AtSubdevice, InSubdevice
  <2>3. Flow(t, t \in A, t \in A', slock[r].count, slock'[r].count,
             slock[r].filep, slock'[r].filep)
    BY <2>1, SubdeviceFlow DEF SubdeviceStep, Flow
  <2> QED
    BY <1>1, <1>2, <2>1, <2>2, <2>3, FlowKeeps DEF Guarded
<1>6. TypeOK' /\ CallOK' => CountsInside' /\ Exclusion'
  <2> SUFFICES ASSUME TypeOK', CallOK'
               PROVE  CountsInside' /\ Exclusion'
    OBVIOUS
  <2>1. CountsInside'
    BY <1>3, <1>4, <1>5 DEF CountsInside, Guarded, DriverTasks
  <2>2. /\ \A u \in Task : InDevice(u)' => call'[u].dev \in Device
        /\ \A u \in Task : InSubdevice(u)' => Here(u)' \in Device \X Sub
    BY DEF CallOK, Shape, InDevice, InSubdevice, Here
  <2>3. \A u \in Task : InDriver(u)' => ~ Refuses(me_filep, call[u].filep)'
    BY <1>3 DEF Guarded, DriverTasks, Refuses
  <2>4. \A u \in Task : InDevice(u)' => ~ Refuses(dlock[call[u].dev].filep, call[u].filep)'
    BY <2>2, <1>4 DEF Guarded, TasksInDevice, Refuses
  <2>5. \A u \in Task : InSubdevice(u)' => ~ Refuses(slock[Here(u)].filep, call[u].filep)'
    BY <2>2, <1>5 DEF Guarded, TasksInSubdevice, Refuses
  <2> QED
    BY <2>1, <2>3, <2>4, <2>5 DEF Exclusion
<1>7. \A d \in Device : dlock'[d].count \in Nat
  BY <1>4 DEF Guarded
<1> QED
  BY <1>3, <1>6, <1>7

-----------------------------------------------------------------------------
(* The beginning of a call.                                                *)

\* A task that begins a call: c are its arguments, l is where it goes.
Begins(t, l, c) ==
    /\ pc[t] = "idle" /\ me_lock = NULL
    /\ Goto(t, l, c)
    /\ c \in CallType /\ c.filep \in Filep /\ c.op # "none"
    /\ Shape(l, c)
    /\ l \in {"slock_enter", "dlock_enter", "dlock_lock", "driver_apply", "driver_check"}
    /\ l = "slock_enter" => c.op = "irq_test"
    /\ l = "dlock_lock"  => c.op = "lock_device"
    /\ \/ /\ c.op \in DataOps /\ ~ Refuses(me_filep, c.filep)
          /\ me_count' = me_count + 1 /\ me_lock' = me_lock
       \/ c.op \in LockOps /\ me_count' = me_count /\ me_lock' = t
    /\ UNCHANGED <<open, me_filep, dlock, slock>>

LEMMA BeginCases ==
    ASSUME TypeOK, NEW t \in Task, Begin(t)
    PROVE  (\E l \in Location : \E c : Begins(t, l, c)) \/ (\E f \in Filep : me_release_refused(t, f))
<1>0. /\ 0 \in 0 .. NSub /\ Sub \subseteq 0 .. NSub /\ 0 \in Nat /\ 0 \in Sub
      /\ open \subseteq Filep
      /\ \A n \in 0 .. MaxList - 1 : n \in Nat
      /\ {} \in SUBSET {"FORCE", "PRESERVE", "UNPROTECTED"}
      /\ LockFlags \subseteq SUBSET {"FORCE", "PRESERVE", "UNPROTECTED"}
      /\ ResetFlags \subseteq SUBSET {"FORCE", "PRESERVE", "UNPROTECTED"}
  BY SubAssumption, BoundAssumption, FlagsAssumption DEF Sub, TypeOK
<1>1. ASSUME NEW f \in Filep, NEW op \in DataOps, NEW d \in Device, NEW s \in Sub,
             NEW flags \in SUBSET {"FORCE", "PRESERVE", "UNPROTECTED"}, NEW n \in Nat,
             n > 0 => op = "io", me_io(t, f, op, d, s, flags, n)
      PROVE  \E l \in Location : \E c : Begins(t, l, c)
  <2> DEFINE c == [NoCall EXCEPT !.op = op, !.filep = f, !.dev = d, !.sub = s,
                                 !.flags = flags, !.items = n]
             l == IF op = "irq_test" THEN "slock_enter" ELSE "dlock_enter"
  <2>1. /\ c \in CallType /\ c.filep = f /\ c.op = op /\ c.dev = d /\ c.sub = s /\ c.items = n
    BY <1>0 DEF CallType, NoCall, Err
  <2>2. Shape(l, c)
    BY <2>1, <1>1 DEF Shape
  <2>3. Goto(t, l, c)
    BY <1>1 DEF me_io
  <2> HIDE DEF c
  <2>4. Begins(t, l, c)
    BY <1>1, <2>1, <2>2, <2>3 DEF Begins, me_io, CountUp
  <2> QED
    BY <2>4 DEF Location
<1>2. ASSUME NEW f \in Filep, NEW op \in {"lock_device", "lock_subdevice"}, NEW d \in Device,
             NEW s \in Sub, NEW lock \in Lock,
             NEW flags \in SUBSET {"FORCE", "PRESERVE", "UNPROTECTED"},
             lock_lower(t, f, op, d, s, lock, flags)
      PROVE  \E l \in Location : \E c : Begins(t, l, c)
  <2> DEFINE c == [NoCall EXCEPT !.op = op, !.filep = f, !.dev = d, !.sub = s,
                                 !.goal = lock, !.lock = lock, !.flags = flags]
             l == IF op = "lock_device" THEN "dlock_lock" ELSE "dlock_enter"
  <2>1. /\ c \in CallType /\ c.filep = f /\ c.op = op /\ c.dev = d /\ c.sub = s /\ c.items = 0
    BY <1>0 DEF CallType, NoCall, Err
  <2>2. Shape(l, c)
    BY <2>1 DEF Shape
  <2>3. Goto(t, l, c)
    BY <1>2 DEF lock_lower
  <2> HIDE DEF c
  <2>4. Begins(t, l, c)
    BY <1>2, <2>1, <2>2, <2>3 DEF Begins, lock_lower
  <2> QED
    BY <2>4 DEF Location
<1>3. ASSUME NEW f \in Filep, NEW op \in DriverOps, NEW lock \in Lock,
             NEW flags \in SUBSET {"FORCE", "PRESERVE", "UNPROTECTED"},
             lock_driver(t, f, op, lock, flags)
      PROVE  \E l \in Location : \E c : Begins(t, l, c)
  <2> DEFINE c == [NoCall EXCEPT !.op = op, !.filep = f, !.goal = lock,
                                 !.lock = "CHECK", !.flags = flags, !.devs = Device]
             l == IF "FORCE" \in flags THEN "driver_apply" ELSE "driver_check"
  <2>1. /\ c \in CallType /\ c.filep = f /\ c.op = op /\ c.items = 0
    BY <1>0 DEF CallType, NoCall, Err, Lock
  <2>2. Shape(l, c)
    BY <2>1 DEF Shape
  <2>3. Goto(t, l, c)
    BY <1>3 DEF lock_driver
  <2> HIDE DEF c
  <2>4. Begins(t, l, c)
    BY <1>3, <2>1, <2>2, <2>3 DEF Begins, lock_driver
  <2> QED
    BY <2>4 DEF Location
<1>4. PICK f \in Filep, d \in Device, s \in Sub :
        \/ \E n \in 0 .. MaxList - 1 : me_io(t, f, "io", d, s, {}, n)
        \/ me_io(t, f, "irq_test", d, s, {}, 0)
        \/ \E flags \in ResetFlags : me_io(t, f, "reset_device", d, 0, flags, 0)
        \/ \E op \in {"lock_device", "lock_subdevice"}, lock \in Lock, flags \in LockFlags :
              lock_lower(t, f, op, d, s, lock, flags)
        \/ \E lock \in Lock, flags \in LockFlags : lock_driver(t, f, "lock_driver", lock, flags)
        \/ me_release(t, f)
        \/ me_release_refused(t, f)
  BY <1>0 DEF Begin
<1>5. me_release(t, f) => lock_driver(t, f, "me_release", "RELEASE", {})
  BY DEF me_release
<1> QED
  BY <1>0, <1>1, <1>2, <1>3, <1>4, <1>5 DEF Lock

\* Nothing in the invariant depends on which files are open.
LEMMA OpenKeeps ==
    ASSUME InductiveInv, open' \subseteq Filep,
           UNCHANGED <<me_lock, me_filep, me_count, dlock, slock, pc, call>>
    PROVE  InductiveInv'
<1> USE DEF InductiveInv
<1>1. TypeOK' /\ CallOK' /\ SpinOK'
  BY DEF TypeOK, CallOK, SpinOK
<1>2. CountsInside'
  BY DEF CountsInside, InDriver, InDevice, InSubdevice, TasksInDevice, TasksInSubdevice, Here
<1>3. Exclusion'
  BY DEF Exclusion, InDriver, InDevice, InSubdevice, Here
<1> QED
  BY <1>1, <1>2, <1>3

LEMMA BeginKeeps ==
    ASSUME InductiveInv, NEW t \in Task, Begin(t)
    PROVE  InductiveInv'
<1> USE DEF InductiveInv
<1>1. ASSUME NEW l \in Location, NEW c, Begins(t, l, c)
      PROVE  InductiveInv'
  <2>0. /\ pc[t] = "idle" /\ pc'[t] = l /\ call'[t] = c /\ l # "idle"
        /\ \A u \in Task \ {t} : pc'[u] = pc[u] /\ call'[u] = call[u]
        /\ dlock' = dlock /\ slock' = slock /\ me_filep' = me_filep /\ open' = open
        /\ me_lock = NULL
    BY <1>1, GotoFrame DEF Begins
  <2>1. TypeOK'
    BY <1>1, GotoTyped DEF Begins, TypeOK
  <2>2. CallOK'
    BY <1>1, <2>0, GotoShape DEF Begins
  <2>3. SpinOK'
    BY <1>1, <2>0, NullAssumption DEF SpinOK, Begins
  <2>4. call[t].op = "none"
    BY <2>0 DEF CallOK, Shape
  <2>5. \A u \in Task : InDevice(u)' <=> InDevice(u)
    BY <1>1, <2>0, <2>4 DEF InDevice, Begins
  <2>6. \A u \in Task : InSubdevice(u)' <=> InSubdevice(u)
    BY <1>1, <2>0 DEF InSubdevice, Begins
  <2>7. /\ \A d \in Device : TasksInDevice(d)' = TasksInDevice(d)
        /\ \A r \in Device \X Sub : TasksInSubdevice(r)' = TasksInSubdevice(r)
    <3>1. ~ InDevice(t) /\ ~ InSubdevice(t)
      BY <2>0 DEF InDevice, InSubdevice
    <3> QED
      BY <2>0, <2>5, <2>6, <3>1 DEF TasksInDevice, TasksInSubdevice, Here
  <2>8. CountsInside'
    <3> DEFINE A == {u \in Task : InDriver(u)}
    <3>1. /\ A \in SUBSET Task /\ A' \in SUBSET Task /\ t \notin A
          /\ \A u \in Task \ {t} : u \in A <=> u \in A'
          /\ t \in A' <=> c.op \in DataOps
      BY <2>0, <2>4 DEF InDriver
    <3>2. me_count' = Cardinality(A')
      BY <1>1, <3>1, OneMoves DEF Begins, CountsInside
    <3> QED
      BY <3>2, <2>0, <2>7 DEF CountsInside
  <2>9. Exclusion'
    <3> SUFFICES ASSUME NEW u \in Task
                 PROVE  /\ InDriver(u)' => ~ Refuses(me_filep, call[u].filep)'
                        /\ InDevice(u)' => ~ Refuses(dlock[call[u].dev].filep, call[u].filep)'
                        /\ InSubdevice(u)' => ~ Refuses(slock[Here(u)].filep, call[u].filep)'
      BY DEF Exclusion
    <3>1. CASE u = t
      <4>1. ~ InDevice(t)' /\ ~ InSubdevice(t)'
        BY <2>0, <2>5, <2>6 DEF InDevice, InSubdevice
      <4>2. InDriver(t)' => ~ Refuses(me_filep, c.filep)
        BY <1>1, <2>0 DEF InDriver, Begins
      <4> QED
        BY <3>1, <4>1, <4>2, <2>0
    <3>2. CASE u # t
      BY <3>2, <2>0, <2>5, <2>6 DEF Exclusion, InDriver, Here
    <3> QED
      BY <3>1, <3>2
  <2> QED
    BY <2>1, <2>2, <2>3, <2>8, <2>9
<1>2. ASSUME NEW f \in Filep, me_release_refused(t, f)
      PROVE  InductiveInv'
  BY <1>2, OpenKeeps DEF me_release_refused, TypeOK
<1> QED
  BY <1>1, <1>2, BeginCases

-----------------------------------------------------------------------------
(* The theorems.                                                           *)

LEMMA InitHolds == Init => InductiveInv
<1> SUFFICES ASSUME Init PROVE InductiveInv
  OBVIOUS
<1>1. TypeOK
  BY NoCallType DEF Init, TypeOK, Location
<1>2. CallOK
  BY DEF Init, CallOK, Shape, NoCall
<1>3. SpinOK
  BY NullAssumption DEF Init, SpinOK, NoCall
<1>4. /\ {t \in Task : InDriver(t)} = {}
      /\ \A d \in Device : TasksInDevice(d) = {}
      /\ \A r \in Device \X Sub : TasksInSubdevice(r) = {}
  BY DEF Init, InDriver, InDevice, InSubdevice, TasksInDevice, TasksInSubdevice, NoCall
<1>5. CountsInside
  <2>1. Cardinality({}) = 0
    BY FS_EmptySet
  <2>2. /\ me_count = 0
        /\ \A d \in Device : dlock[d].count = 0
        /\ \A r \in Device \X Sub : slock[r].count = 0
    BY DEF Init
  <2>3. me_count = Cardinality({t \in Task : InDriver(t)})
    BY <1>4, <2>1, <2>2
  <2>4. \A r \in Device \X Sub : slock[r].count = Cardinality(TasksInSubdevice(r))
    BY <1>4, <2>1, <2>2
  <2>5. \A d \in Device : dlock[d].count >= Cardinality(TasksInDevice(d))
    BY <1>4, <2>1, <2>2
  <2> QED
    BY <2>3, <2>4, <2>5 DEF CountsInside
<1>6. Exclusion
  BY DEF Init, Exclusion, InDriver, InDevice, InSubdevice, NoCall
<1> QED
  BY <1>1, <1>2, <1>3, <1>5, <1>6 DEF InductiveInv

LEMMA NextKeeps == InductiveInv /\ [Next]_vars => InductiveInv'
<1> SUFFICES ASSUME InductiveInv, [Next]_vars PROVE InductiveInv'
  OBVIOUS
<1>1. ASSUME NEW f \in Filep, me_open(f) PROVE InductiveInv'
  BY <1>1, OpenKeeps DEF me_open, InductiveInv, TypeOK
<1>2. ASSUME NEW t \in Task, Begin(t) PROVE InductiveInv'
  BY <1>2, BeginKeeps
<1>3. ASSUME NEW t \in Task, Step(t) PROVE InductiveInv'
  <2>1. /\ me_count' \in Nat /\ \A d \in Device : dlock'[d].count \in Nat
        /\ TypeOK' /\ CallOK' => CountsInside' /\ Exclusion'
    BY <1>3, StepGuards
  <2>2. TypeOK'
    BY <1>3, <2>1, StepTyped DEF InductiveInv
  <2>3. CallOK'
    BY <1>3, StepShape DEF InductiveInv
  <2>4. SpinOK'
    BY <1>3, StepSpin DEF InductiveInv
  <2> QED
    BY <2>1, <2>2, <2>3, <2>4 DEF InductiveInv
<1>4. ASSUME UNCHANGED vars PROVE InductiveInv'
  BY <1>4, OpenKeeps DEF vars, InductiveInv, TypeOK
<1> QED
  BY <1>1, <1>2, <1>3, <1>4 DEF Next

\* The locks and their counters have their types in every reachable state; in
\* particular no counter of the driver, a device or a subdevice is ever negative.
THEOREM TypeCorrect == Spec => []TypeOK
<1>1. InductiveInv => TypeOK
  BY DEF InductiveInv
<1> QED
  BY InitHolds, NextKeeps, <1>1, PTL DEF Spec

\* Whoever is inside the driver, a device or a subdevice runs for the process
\* that holds it: me_filep, dlock->filep and slock->filep never change under a
\* task that is past its check, for any number of tasks, files and devices.
THEOREM ExclusionHolds == Spec => []Exclusion
<1>1. InductiveInv => Exclusion
  BY DEF InductiveInv
<1> QED
  BY InitHolds, NextKeeps, <1>1, PTL DEF Spec

\* me_count and slock->count are exact, dlock->count is never too low.
THEOREM CountsHold == Spec => []CountsInside
<1>1. InductiveInv => CountsInside
  BY DEF InductiveInv
<1> QED
  BY InitHolds, NextKeeps, <1>1, PTL DEF Spec

\* Nobody enters or leaves a device while me_dlock_lock() is at work on it with
\* a request to lock or to release: the count it found zero stays zero.
THEOREM SpinHolds == Spec => []SpinOK
<1>1. InductiveInv => SpinOK
  BY DEF InductiveInv
<1> QED
  BY InitHolds, NextKeeps, <1>1, PTL DEF Spec

-----------------------------------------------------------------------------
(* The owners of the locks.                                                *)

USE DEF DataOps, DriverOps, LockOps, AllOps

Forced(t)        == "FORCE" \in call[t].flags
Agrees(owner, t) == ~ Refuses(owner, call[t].filep)

\* Device d and its subdevices are free or belong to the process of task t.
Clear(d, t) ==
    /\ Agrees(dlock[d].filep, t)
    /\ \A s \in Sub : Agrees(slock[<<d, s>>].filep, t)

\* What a task has checked holds until it makes use of it: the owner of the driver
\* while it holds me_lock ...
DriverChecked(t) ==
    call[t].op \in LockOps /\ ~ Forced(t)
    /\ (call[t].op \in DriverOps => call[t].lock = "CHECK") => Agrees(me_filep, t)

\* ... the owner of the device while it holds the device's spin lock ...
DeviceChecked(t) ==
    pc[t] \in {"dlock_check", "dlock_apply"} /\ (Forced(t) => call[t].lock = "CHECK") =>
        Agrees(dlock[call[t].dev].filep, t)

\* ... the subdevices its loop has passed ...
SubdevicesChecked(t) ==
    call[t].op \in LockOps /\ ~ Forced(t) =>
        \A s \in Sub :
            pc[t] = "dlock_apply" \/ (pc[t] = "dlock_check" /\ s < call[t].sub) =>
                Agrees(slock[<<call[t].dev, s>>].filep, t)

\* ... and the devices lock_driver()'s loop has passed.
DevicesChecked(t) ==
    call[t].op \in DriverOps /\ call[t].lock = "CHECK" /\ ~ Forced(t) /\ pc[t] # "driver_done" =>
        /\ pc[t] \in {"driver_check", "driver_apply"} => call[t].dev = NULL
        /\ pc[t] = "driver_apply" => call[t].devs = {}
        /\ \A d \in Device \ call[t].devs :
              d # call[t].dev \/ (pc[t] = "dlock_done" /\ call[t].err = "SUCCESS") => Clear(d, t)

\* The phase of lock_driver() that a task is in.
Phase(t) ==
    /\ call[t].op \in DriverOps => call[t].lock \in {"CHECK", "RELEASE"}
    /\ pc[t] \in {"driver_check", "driver_apply"} => call[t].lock = "CHECK"
    /\ pc[t] = "driver_free" => call[t].lock = "RELEASE"

CheckedBy(t) ==
    Phase(t) /\ DriverChecked(t) /\ DeviceChecked(t) /\ SubdevicesChecked(t)
    /\ DevicesChecked(t)

Checked == \A t \in Task : CheckedBy(t)

-----------------------------------------------------------------------------
(* Steps of the other tasks.                                               *)

SameOwners ==
    /\ me_filep' = me_filep
    /\ \A d \in Device : dlock'[d].filep = dlock[d].filep
    /\ \A r \in Device \X Sub : slock'[r].filep = slock[r].filep

\* Only the task that holds me_lock changes an owner, and me_lock is not released in
\* that step.
LEMMA OwnersKept ==
    ASSUME InductiveInv, NEW t \in Task, Step(t)
    PROVE  me_lock = t \/ SameOwners
<1> USE DEF InductiveInv
<1> SUFFICES ASSUME me_lock # t PROVE SameOwners
  OBVIOUS
<1>0. /\ call[t].op \notin LockOps /\ Shape(pc[t], call[t])
      /\ dlock \in DlockType /\ slock \in SlockType
  BY LockUpdates DEF SpinOK, CallOK
<1>1. CASE dlock_enter(t) \/ dlock_exit(t) \/ dlock_lock(t) \/ dlock_check(t)
  BY <1>0, <1>1 DEF SameOwners, dlock_enter, dlock_exit, dlock_lock, dlock_check, DlockType
<1>2. CASE slock_enter(t) \/ slock_exit(t)
  BY <1>0, <1>2 DEF SameOwners, slock_enter, slock_exit, SlockType
<1>3. CASE next_item(t) \/ driver_exit(t) \/ dlock_return(t)
  BY <1>3 DEF SameOwners, next_item, driver_exit, dlock_return
<1>4. CASE dlock_apply(t)
  <2>1. call[t].lock = "CHECK"
    BY <1>0, <1>4 DEF dlock_apply, Shape
  <2> QED
    BY <1>0, <1>4, <2>1 DEF SameOwners, dlock_apply, DlockType
<1>5. CASE dlock_free(t) \/ me_slock_lock(t) \/ driver_check(t) \/ driver_apply(t)
           \/ driver_free(t) \/ driver_done(t)
  BY <1>0, <1>5 DEF dlock_free, me_slock_lock, driver_check, driver_apply, driver_free,
     driver_done, Shape
<1>6. CASE dlock_exited(t)
  BY <1>6, NothingToRepair DEF SameOwners, dlock_exited
<1> QED
  BY <1>1, <1>2, <1>3, <1>4, <1>5, <1>6 DEF Step

\* The owner of a device whose spin lock another task holds stays.
LEMMA SpinKeepsOwner ==
    ASSUME InductiveInv, NEW t \in Task, Step(t), NEW u \in Task \ {t},
           pc[u] \in {"dlock_check", "dlock_apply"}
    PROVE  dlock'[call[u].dev].filep = dlock[call[u].dev].filep
<1> USE DEF InductiveInv
<1>1. /\ call[u].dev \in Device /\ dlock[call[u].dev].spin = u
      /\ dlock \in DlockType /\ u # t
  BY LockUpdates, CallFacts DEF SpinOK
<1>2. CASE dlock_apply(t) \/ dlock_free(t)
  <2>1. dlock[call[t].dev].spin = t
    BY <1>2 DEF SpinOK, dlock_apply, dlock_free
  <2>2. call[t].dev # call[u].dev
    BY <1>1, <2>1
  <2> QED
    BY <1>1, <1>2, <2>2 DEF dlock_apply, dlock_free, DlockType
<1>3. CASE dlock_enter(t) \/ dlock_exit(t) \/ dlock_lock(t) \/ dlock_check(t)
  BY <1>1, <1>3 DEF dlock_enter, dlock_exit, dlock_lock, dlock_check, DlockType
<1>4. CASE ~ (dlock_enter(t) \/ dlock_exit(t) \/ dlock_lock(t) \/ dlock_check(t)
              \/ dlock_apply(t) \/ dlock_free(t) \/ dlock_exited(t))
  BY <1>4 DEF Step, slock_enter, slock_exit, next_item, driver_exit, me_slock_lock,
     dlock_return, driver_check, driver_apply, driver_free, driver_done
<1>5. CASE dlock_exited(t)
  BY <1>5, NothingToRepair
<1> QED
  BY <1>2, <1>3, <1>4, <1>5

\* What nobody touches stays checked.
LEMMA SameChecked ==
    ASSUME InductiveInv, SameOwners, NEW u \in Task, CheckedBy(u),
           pc'[u] = pc[u], call'[u] = call[u]
    PROVE  CheckedBy(u)'
<1>0. pc[u] \in {"dlock_check", "dlock_apply"} => call[u].dev \in Device
  BY CallFacts DEF InductiveInv
<1>1. Phase(u)' /\ DriverChecked(u)'
  BY DEF CheckedBy, Phase, DriverChecked, Agrees, Forced, SameOwners
<1>2. DeviceChecked(u)'
  BY <1>0 DEF CheckedBy, DeviceChecked, Agrees, Forced, SameOwners
<1>3. SubdevicesChecked(u)'
  BY <1>0 DEF CheckedBy, SubdevicesChecked, Agrees, Forced, SameOwners
<1>4. \A d \in Device : Clear(d, u)' <=> Clear(d, u)
  BY DEF Clear, Agrees, SameOwners
<1>5. DevicesChecked(u)'
  BY <1>4 DEF CheckedBy, DevicesChecked, Forced
<1> QED
  BY <1>1, <1>2, <1>3, <1>5 DEF CheckedBy

LEMMA OthersChecked ==
    ASSUME InductiveInv, NEW t \in Task, Step(t), NEW u \in Task \ {t}, CheckedBy(u)
    PROVE  CheckedBy(u)'
<1>0. pc'[u] = pc[u] /\ call'[u] = call[u]
  BY StepKeeps DEF InductiveInv
<1>1. CASE SameOwners
  BY <1>0, <1>1, SameChecked
<1>2. CASE me_lock = t
  <2>1. call[u].op \notin LockOps
    BY <1>2 DEF InductiveInv, SpinOK
  <2>2. DeviceChecked(u)'
    BY <1>0, SpinKeepsOwner DEF CheckedBy, DeviceChecked, Agrees, Forced
  <2>3. Phase(u)'
    BY <1>0 DEF CheckedBy, Phase
  <2>4. DriverChecked(u)' /\ SubdevicesChecked(u)' /\ DevicesChecked(u)'
    BY <1>0, <2>1 DEF DriverChecked, SubdevicesChecked, DevicesChecked
  <2> QED
    BY <2>2, <2>3, <2>4 DEF CheckedBy
<1> QED
  BY <1>1, <1>2, OwnersKept

-----------------------------------------------------------------------------
(* Steps of the task itself.                                               *)

\* A task outside the loops that check keeps what it knows of the driver.
LEMMA ElsewhereChecked ==
    ASSUME TypeOK, NEW t \in Task, CheckedBy(t), me_filep' = me_filep,
           pc'[t] \notin {"dlock_check", "dlock_apply", "driver_check", "driver_apply",
                         "driver_free"},
           \/ call'[t].op \notin LockOps
           \/ /\ call'[t].op = call[t].op /\ call'[t].filep = call[t].filep
              /\ call'[t].flags = call[t].flags /\ call'[t].lock = call[t].lock
              /\ call[t].op \in DriverOps => call[t].lock # "CHECK" \/ pc'[t] = "driver_done"
    PROVE  CheckedBy(t)'
BY DEF CheckedBy, Phase, DriverChecked, DeviceChecked, SubdevicesChecked, DevicesChecked,
   Agrees, Forced

\* The data path, the calls on one subdevice, and the ends.
LEMMA PathChecked ==
    ASSUME InductiveInv, NEW t \in Task, CheckedBy(t),
           \/ dlock_enter(t) \/ slock_enter(t) \/ slock_exit(t) \/ dlock_exit(t)
           \/ dlock_exited(t) \/ next_item(t) \/ driver_exit(t) \/ me_slock_lock(t)
           \/ driver_done(t)
    PROVE  CheckedBy(t)'
<1> USE DEF InductiveInv
<1> DEFINE c == call[t]
<1>0. c \in CallType /\ Shape(pc[t], c)
  BY DEF TypeOK, CallOK
<1>1. CASE driver_exit(t) \/ driver_done(t)
  <2>1. pc'[t] = "idle" /\ call'[t] = NoCall /\ me_filep' = me_filep
    BY <1>1, GotoFrame DEF driver_exit, driver_done
  <2> QED
    BY <2>1, ElsewhereChecked DEF NoCall
<1>2. CASE slock_enter(t) \/ slock_exit(t) \/ next_item(t)
  <2>1. c.op \notin LockOps /\ me_filep' = me_filep
    BY <1>0, <1>2 DEF slock_enter, slock_exit, next_item, Shape
  <2>2. Step(t) /\ call'[t].op \notin LockOps
    BY <1>2, <2>1, StepKeeps DEF Step, NoCall
  <2>3. CASE next_item(t)
    <3>1. pc'[t] \in {"dlock_enter", "driver_exit"}
      BY <2>3, UpdatesKeep DEF next_item
    <3> QED
      BY <3>1, <2>1, <2>2, ElsewhereChecked
  <2>4. CASE slock_enter(t) \/ slock_exit(t)
    <3>1. pc'[t] \in {"inside", "slock_enter", "dlock_exit", "next_item"}
      BY <2>4, LocalsKept DEF slock_enter, slock_exit, AfterSubdevice
    <3> QED
      BY <3>1, <2>1, <2>2, ElsewhereChecked
  <2> QED
    BY <1>2, <2>3, <2>4
<1>3. CASE dlock_enter(t)
  <2>1. /\ pc'[t] \in {"driver_done", "next_item", "slock_lock", "dlock_lock", "slock_enter"}
        /\ me_filep' = me_filep
        /\ call'[t] = c \/ (c.op = "reset_device" /\ call'[t] = [c EXCEPT !.lock = "CHECK"])
    BY <1>3, GotoFrame DEF dlock_enter
  <2>2. c.op \in {"io", "reset_device", "lock_subdevice"}
    BY <1>0, <1>3 DEF dlock_enter, Shape
  <2>3. call'[t] = c \/ call'[t].op \notin LockOps
    BY <1>0, <2>1 DEF CallType
  <2> QED
    BY <2>1, <2>2, <2>3, ElsewhereChecked
<1>4. CASE dlock_exit(t) \/ dlock_exited(t) \/ me_slock_lock(t)
  <2>1. /\ pc'[t] \in {"driver_done", "next_item", "dlock_exit", "dlock_exited"}
        /\ call'[t] = c /\ me_filep' = me_filep
    BY <1>4, GotoFrame DEF dlock_exit, dlock_exited, me_slock_lock
  <2>2. c.op \in {"io", "reset_device", "lock_subdevice"}
    BY <1>0, <1>4 DEF dlock_exit, dlock_exited, me_slock_lock, Shape
  <2> QED
    BY <2>1, <2>2, ElsewhereChecked
<1> QED
  BY <1>1, <1>2, <1>3, <1>4

\* A task whose arguments, the tested ones, are unchanged.
SameArguments(t) ==
    /\ call'[t].op = call[t].op /\ call'[t].filep = call[t].filep
    /\ call'[t].flags = call[t].flags /\ call'[t].lock = call[t].lock

\* Entry of me_dlock_lock(): the owner of the device is checked.
LEMMA LockChecked ==
    ASSUME InductiveInv, NEW t \in Task, CheckedBy(t), dlock_lock(t)
    PROVE  CheckedBy(t)'
<1> USE DEF InductiveInv
<1> DEFINE c   == call[t]
           err == DlockError(c.dev, c.filep, c.lock, c.flags)
<1>0. /\ c \in CallType /\ c.dev \in Device /\ dlock \in DlockType
      /\ pc[t] = "dlock_lock"
      /\ me_filep' = me_filep /\ slock' = slock
  BY LockUpdates, CallFacts DEF TypeOK, dlock_lock
<1>1. \A d \in Device : dlock'[d].filep = dlock[d].filep
  BY <1>0 DEF dlock_lock, DlockType
<1>2. \A d \in Device : SameArguments(t) => (Clear(d, t)' <=> Clear(d, t))
  BY <1>0, <1>1 DEF Clear, Agrees, SameArguments
<1>3. CASE err # "SUCCESS"
  <2>1. pc'[t] = "dlock_done" /\ call'[t] = [c EXCEPT !.err = err]
    BY <1>3, GotoFrame DEF dlock_lock
  <2>2. /\ SameArguments(t) /\ call'[t].err # "SUCCESS" /\ call'[t].dev = c.dev
        /\ call'[t].devs = c.devs
    BY <1>0, <1>3, <2>1 DEF CallType, SameArguments
  <2>3. Phase(t)' /\ DriverChecked(t)' /\ DeviceChecked(t)' /\ SubdevicesChecked(t)'
    BY <1>0, <2>1, <2>2 DEF CheckedBy, Phase, DriverChecked, DeviceChecked,
       SubdevicesChecked, SameArguments, Agrees, Forced
  <2>4. DevicesChecked(t)'
    BY <1>0, <1>2, <2>1, <2>2 DEF CheckedBy, DevicesChecked, SameArguments, Forced
  <2> QED
    BY <2>3, <2>4 DEF CheckedBy
<1>4. CASE err = "SUCCESS"
  <2>1. /\ pc'[t] = IF Forced(t) THEN "dlock_apply" ELSE "dlock_check"
        /\ call'[t] = [c EXCEPT !.sub = 0, !.err = "SUCCESS"]
    BY <1>4, GotoFrame DEF dlock_lock, Forced
  <2>2. /\ SameArguments(t) /\ call'[t].sub = 0 /\ call'[t].dev = c.dev
        /\ call'[t].devs = c.devs
    BY <1>0, <2>1 DEF CallType, SameArguments
  <2>3. Refuses(dlock[c.dev].filep, c.filep) => Forced(t) /\ c.lock # "CHECK"
    BY <1>4 DEF DlockError, Forced
  <2>4. DeviceChecked(t)'
    BY <1>0, <1>1, <2>2, <2>3 DEF DeviceChecked, SameArguments, Agrees, Forced
  <2>5. SubdevicesChecked(t)'
    BY <2>1, <2>2 DEF SubdevicesChecked, SameArguments, Forced, Sub
  <2>6. Phase(t)' /\ DriverChecked(t)'
    BY <1>0, <2>1, <2>2 DEF CheckedBy, Phase, DriverChecked, SameArguments, Agrees, Forced
  <2>7. DevicesChecked(t)'
    BY <1>0, <1>2, <2>1, <2>2 DEF CheckedBy, DevicesChecked, SameArguments, Forced
  <2> QED
    BY <2>4, <2>5, <2>6, <2>7 DEF CheckedBy
<1> QED
  BY <1>3, <1>4

\* One turn of the loop over the subdevices.
LEMMA LoopChecked ==
    ASSUME InductiveInv, NEW t \in Task, CheckedBy(t), dlock_check(t)
    PROVE  CheckedBy(t)'
<1> USE DEF InductiveInv
<1> DEFINE c   == call[t]
           err == SlockError(Here(t), c.filep, "CHECK", {})
<1>0. /\ c \in CallType /\ c.dev \in Device /\ c.sub \in Sub /\ dlock \in DlockType
      /\ pc[t] = "dlock_check" /\ NSub \in Nat
      /\ me_filep' = me_filep /\ slock' = slock
  BY LockUpdates, CallFacts, SubAssumption DEF TypeOK, dlock_check, CallOK, Shape
<1>1. \A d \in Device : dlock'[d].filep = dlock[d].filep
  BY <1>0 DEF dlock_check, DlockType
<1>2. \A d \in Device : SameArguments(t) => (Clear(d, t)' <=> Clear(d, t))
  BY <1>0, <1>1 DEF Clear, Agrees, SameArguments
<1>3. CASE err # "SUCCESS"
  <2>1. pc'[t] = "dlock_done" /\ call'[t] = [c EXCEPT !.err = err]
    BY <1>3, GotoFrame DEF dlock_check
  <2>2. /\ SameArguments(t) /\ call'[t].err # "SUCCESS" /\ call'[t].dev = c.dev
        /\ call'[t].devs = c.devs
    BY <1>0, <1>3, <2>1 DEF CallType, SameArguments
  <2>3. Phase(t)' /\ DriverChecked(t)' /\ DeviceChecked(t)' /\ SubdevicesChecked(t)'
    BY <1>0, <2>1, <2>2 DEF CheckedBy, Phase, DriverChecked, DeviceChecked,
       SubdevicesChecked, SameArguments, Agrees, Forced
  <2>4. DevicesChecked(t)'
    BY <1>0, <1>2, <2>1, <2>2 DEF CheckedBy, DevicesChecked, SameArguments, Forced
  <2> QED
    BY <2>3, <2>4 DEF CheckedBy
<1>4. CASE err = "SUCCESS"
  <2> DEFINE more == c.sub + 1 < NSub
  <2>1. /\ pc'[t] = IF more THEN "dlock_check" ELSE "dlock_apply"
        /\ call'[t] = [c EXCEPT !.sub = IF more THEN c.sub + 1 ELSE 0]
    BY <1>4, GotoFrame DEF dlock_check
  <2>2. /\ SameArguments(t) /\ call'[t].dev = c.dev
        /\ call'[t].devs = c.devs /\ (more => call'[t].sub = c.sub + 1)
    BY <1>0, <2>1 DEF CallType, SameArguments
  <2>3. Agrees(slock[<<c.dev, c.sub>>].filep, t)
    BY <1>4 DEF SlockError, Here, Agrees
  <2>4. DeviceChecked(t)'
    BY <1>0, <1>1, <2>2 DEF CheckedBy, DeviceChecked, SameArguments, Agrees, Forced
  <2>5. ASSUME NEW s \in Sub, pc'[t] = "dlock_apply" \/ s < call'[t].sub,
               pc'[t] = "dlock_check" => more
        PROVE  s < c.sub \/ s = c.sub
    <3>1. s \in Int /\ c.sub \in Int /\ NSub \in Int /\ s < NSub
      BY <1>0 DEF Sub
    <3>2. CASE more
      BY <2>1, <2>2, <2>5, <3>1, <3>2
    <3>3. CASE ~ more
      BY <3>1, <3>3
    <3> QED
      BY <3>2, <3>3
  <2>6. SubdevicesChecked(t)'
    BY <1>0, <2>1, <2>2, <2>3, <2>5 DEF CheckedBy, SubdevicesChecked, SameArguments, Forced,
       Agrees
  <2>7. Phase(t)' /\ DriverChecked(t)'
    BY <1>0, <2>1, <2>2 DEF CheckedBy, Phase, DriverChecked, SameArguments, Agrees, Forced
  <2>8. DevicesChecked(t)'
    BY <1>0, <1>2, <2>1, <2>2 DEF CheckedBy, DevicesChecked, SameArguments, Forced
  <2> QED
    BY <2>4, <2>6, <2>7, <2>8 DEF CheckedBy
<1> QED
  BY <1>3, <1>4

\* The owner of the device is written, and the subdevices are released.
LEMMA ApplyChecked ==
    ASSUME InductiveInv, NEW t \in Task, CheckedBy(t), dlock_apply(t)
    PROVE  CheckedBy(t)'
<1> USE DEF InductiveInv
<1> DEFINE c == call[t]
<1>0. /\ c \in CallType /\ c.dev \in Device /\ dlock \in DlockType
      /\ pc[t] = "dlock_apply" /\ me_filep' = me_filep /\ slock' = slock
  BY LockUpdates, CallFacts DEF TypeOK, dlock_apply
<1>1. pc'[t] \in {"dlock_free", "dlock_done"} /\ call'[t] = c
  BY GotoFrame DEF dlock_apply
<1>2. Phase(t)' /\ DriverChecked(t)' /\ DeviceChecked(t)' /\ SubdevicesChecked(t)'
  BY <1>0, <1>1 DEF CheckedBy, Phase, DriverChecked, DeviceChecked, SubdevicesChecked,
     Agrees, Forced
<1>3. ASSUME c.op \in DriverOps, c.lock = "CHECK", ~ Forced(t)
      PROVE  DevicesChecked(t)'
  <2>1. \A d \in Device : dlock'[d].filep = dlock[d].filep
    BY <1>0, <1>3 DEF dlock_apply, DlockType
  <2>2. \A d \in Device : Clear(d, t)' <=> Clear(d, t)
    BY <1>0, <1>1, <2>1 DEF Clear, Agrees
  <2>3. Clear(c.dev, t)
    BY <1>0, <1>3 DEF CheckedBy, DeviceChecked, SubdevicesChecked, Clear
  <2> QED
    BY <1>0, <1>1, <1>3, <2>2, <2>3 DEF CheckedBy, DevicesChecked, Forced
<1>4. DevicesChecked(t)'
  BY <1>1, <1>3 DEF DevicesChecked, Forced
<1> QED
  BY <1>2, <1>4 DEF CheckedBy

LEMMA FreeChecked ==
    ASSUME InductiveInv, NEW t \in Task, CheckedBy(t), dlock_free(t)
    PROVE  CheckedBy(t)'
<1> USE DEF InductiveInv
<1> DEFINE c == call[t]
<1>0. /\ c \in CallType /\ c.lock = "RELEASE" /\ me_filep' = me_filep
  BY DEF TypeOK, CallOK, Shape, dlock_free
<1>1. /\ pc'[t] \in {"dlock_free", "dlock_done"}
      /\ call'[t].op = c.op /\ call'[t].filep = c.filep
      /\ call'[t].flags = c.flags /\ call'[t].lock = c.lock
  <2>1. \E l \in {"dlock_free", "dlock_done"} :
           \E x, e : Goto(t, l, [c EXCEPT !.sub = x, !.err = e])
    BY DEF dlock_free
  <2>2. PICK l \in {"dlock_free", "dlock_done"} :
           \E x, e : Goto(t, l, [c EXCEPT !.sub = x, !.err = e])
    BY <2>1
  <2>3. PICK x, e : Goto(t, l, [c EXCEPT !.sub = x, !.err = e])
    BY <2>2
  <2>4. pc'[t] = l /\ call'[t] = [c EXCEPT !.sub = x, !.err = e]
    BY <2>3, GotoFrame
  <2> QED
    BY <1>0, <2>4 DEF CallType
<1> QED
  BY <1>0, <1>1 DEF CheckedBy, Phase, DriverChecked, DeviceChecked, SubdevicesChecked,
     DevicesChecked, Agrees, Forced

\* The callers of me_dlock_lock().
LEMMA ReturnChecked ==
    ASSUME InductiveInv, NEW t \in Task, CheckedBy(t), dlock_return(t)
    PROVE  CheckedBy(t)'
<1> USE DEF InductiveInv
<1> DEFINE c == call[t]
<1>0. /\ c \in CallType /\ pc[t] = "dlock_done"
      /\ me_filep' = me_filep /\ slock' = slock /\ dlock' = dlock
  BY DEF TypeOK, dlock_return
<1>1. CASE c.op = "lock_device"
  <2>1. pc'[t] = "driver_done" /\ call'[t] = c
    BY <1>1, GotoFrame DEF dlock_return
  <2> QED
    BY <1>0, <1>1, <2>1, ElsewhereChecked
<1>2. CASE c.op = "reset_device"
  <2>1. /\ pc'[t] \in {"slock_enter", "next_item"}
        /\ call'[t] = [c EXCEPT !.sub = 0, !.err = "SUCCESS"]
    BY <1>2, GotoFrame DEF dlock_return
  <2>2. call'[t].op \notin LockOps
    BY <1>0, <1>2, <2>1 DEF CallType
  <2> QED
    BY <1>0, <2>1, <2>2, ElsewhereChecked
<1>3. CASE c.op \in DriverOps
  <2>1. call'[t] = [c EXCEPT !.dev = NULL, !.err = "SUCCESS"]
    BY <1>3, GotoFrame DEF dlock_return
  <2>2. /\ SameArguments(t) /\ call'[t].dev = NULL /\ call'[t].devs = c.devs
    BY <1>0, <2>1 DEF CallType, SameArguments
  <2>3. CASE c.lock # "CHECK"
    <3>1. pc'[t] = "driver_free"
      BY <1>3, <2>3, GotoFrame DEF dlock_return
    <3> QED
      BY <1>0, <1>3, <2>2, <2>3, <3>1 DEF CheckedBy, Phase, DriverChecked, DeviceChecked,
         SubdevicesChecked, DevicesChecked, SameArguments
  <2>4. CASE c.lock = "CHECK" /\ c.err # "SUCCESS"
    <3>1. pc'[t] = "driver_done"
      BY <1>3, <2>4, GotoFrame DEF dlock_return
    <3> QED
      BY <1>0, <1>3, <2>2, <2>4, <3>1, ElsewhereChecked DEF SameArguments
  <2>5. CASE c.lock = "CHECK" /\ c.err = "SUCCESS"
    <3>1. pc'[t] = "driver_check"
      BY <1>3, <2>5, GotoFrame DEF dlock_return
    <3>2. \A d \in Device : Clear(d, t)' <=> Clear(d, t)
      BY <1>0, <2>2 DEF Clear, Agrees, SameArguments
    <3>3. DevicesChecked(t)'
      BY <1>0, <1>3, <2>2, <2>5, <3>1, <3>2 DEF CheckedBy, DevicesChecked, SameArguments,
         Forced
    <3>4. Phase(t)' /\ DriverChecked(t)' /\ DeviceChecked(t)' /\ SubdevicesChecked(t)'
      BY <1>0, <1>3, <2>2, <2>5, <3>1 DEF CheckedBy, Phase, DriverChecked, DeviceChecked,
         SubdevicesChecked, SameArguments, Agrees, Forced
    <3> QED
      BY <3>3, <3>4 DEF CheckedBy
  <2> QED
    BY <2>3, <2>4, <2>5
<1> QED
  BY <1>1, <1>2, <1>3 DEF dlock_return

\* The loops of lock_driver(), and what lies between them.
LEMMA DriverLoopChecked ==
    ASSUME InductiveInv, NEW t \in Task, CheckedBy(t),
           driver_check(t) \/ driver_apply(t) \/ driver_free(t)
    PROVE  CheckedBy(t)'
<1> USE DEF InductiveInv
<1> DEFINE c == call[t]
<1>0. /\ c \in CallType /\ c.op \in DriverOps /\ slock' = slock /\ dlock' = dlock
      /\ NULL \notin Device
  BY NullAssumption DEF TypeOK, CallOK, Shape, driver_check, driver_apply, driver_free
<1>1. CASE driver_apply(t)
  <2>1. ASSUME NEW l, NEW D, Goto(t, l, [c EXCEPT !.lock = "RELEASE", !.devs = D])
        PROVE  pc'[t] = l /\ call'[t].op = c.op /\ call'[t].lock = "RELEASE"
    <3>1. pc'[t] = l /\ call'[t] = [c EXCEPT !.lock = "RELEASE", !.devs = D]
      BY <2>1, GotoFrame
    <3> QED
      BY <1>0, <3>1 DEF CallType
  <2>2. /\ pc'[t] \in {"driver_free", "driver_done"}
        /\ call'[t].op = c.op /\ call'[t].lock = "RELEASE"
    BY <1>1, <2>1 DEF driver_apply
  <2> QED
    BY <1>0, <2>1, <2>2 DEF CheckedBy, Phase, DriverChecked, DeviceChecked,
       SubdevicesChecked, DevicesChecked
<1>2. CASE driver_free(t)
  <2>1. c.lock = "RELEASE"
    BY <1>2 DEF driver_free, CheckedBy, Phase
  <2>2. CASE Goto(t, "driver_done", c)
    <3>1. pc'[t] = "driver_done" /\ call'[t] = c
      BY <2>2, GotoFrame
    <3> QED
      BY <1>0, <2>1, <3>1 DEF CheckedBy, Phase, DriverChecked, DeviceChecked,
         SubdevicesChecked, DevicesChecked
  <2>3. ASSUME NEW d \in c.devs, Goto(t, "dlock_lock", [c EXCEPT !.dev = d, !.devs = @ \ {d}])
        PROVE  CheckedBy(t)'
    <3>1. pc'[t] = "dlock_lock" /\ call'[t] = [c EXCEPT !.dev = d, !.devs = @ \ {d}]
      BY <2>3, GotoFrame
    <3>2. call'[t].op = c.op /\ call'[t].lock = "RELEASE"
      BY <1>0, <2>1, <3>1 DEF CallType
    <3> QED
      BY <1>0, <3>1, <3>2 DEF CheckedBy, Phase, DriverChecked, DeviceChecked,
         SubdevicesChecked, DevicesChecked
  <2> QED
    BY <1>2, <2>2, <2>3 DEF driver_free
<1>3. CASE driver_check(t)
  <2>1. c.lock = "CHECK" /\ me_filep' = me_filep /\ pc[t] = "driver_check"
    BY <1>3 DEF driver_check, CheckedBy, Phase
  <2>2. Forced(t) \/ c.dev = NULL
    BY <1>0, <2>1 DEF CheckedBy, DevicesChecked
  <2>3. CASE c.devs = {} /\ Goto(t, "driver_apply", c)
    <3>1. pc'[t] = "driver_apply" /\ call'[t] = c
      BY <2>3, GotoFrame
    <3>2. \A d \in Device : Clear(d, t)' <=> Clear(d, t)
      BY <1>0, <3>1 DEF Clear, Agrees
    <3>3. DevicesChecked(t)'
      BY <1>0, <2>1, <2>3, <3>1, <3>2 DEF CheckedBy, DevicesChecked, Forced
    <3>4. Phase(t)' /\ DriverChecked(t)' /\ DeviceChecked(t)' /\ SubdevicesChecked(t)'
      BY <1>0, <2>1, <3>1 DEF CheckedBy, Phase, DriverChecked, DeviceChecked,
         SubdevicesChecked, Agrees, Forced
    <3> QED
      BY <3>3, <3>4 DEF CheckedBy
  <2>4. ASSUME NEW d \in c.devs, Goto(t, "dlock_lock", [c EXCEPT !.dev = d, !.devs = @ \ {d}])
        PROVE  CheckedBy(t)'
    <3>1. pc'[t] = "dlock_lock" /\ call'[t] = [c EXCEPT !.dev = d, !.devs = @ \ {d}]
      BY <2>4, GotoFrame
    <3>2. SameArguments(t) /\ call'[t].dev = d /\ call'[t].devs = c.devs \ {d}
      BY <1>0, <3>1 DEF CallType, SameArguments
    <3>3. \A e \in Device : Clear(e, t)' <=> Clear(e, t)
      BY <1>0, <3>2 DEF Clear, Agrees, SameArguments
    <3>4. DevicesChecked(t)'
      BY <1>0, <2>1, <2>2, <3>1, <3>2, <3>3 DEF CheckedBy, DevicesChecked, SameArguments,
         Forced
    <3>5. Phase(t)' /\ DriverChecked(t)' /\ DeviceChecked(t)' /\ SubdevicesChecked(t)'
      BY <1>0, <2>1, <3>1, <3>2 DEF CheckedBy, Phase, DriverChecked, DeviceChecked,
         SubdevicesChecked, SameArguments, Agrees, Forced
    <3> QED
      BY <3>4, <3>5 DEF CheckedBy
  <2> QED
    BY <1>3, <2>3, <2>4 DEF driver_check
<1> QED
  BY <1>1, <1>2, <1>3

LEMMA StepChecked ==
    ASSUME InductiveInv, Checked, NEW t \in Task, Step(t)
    PROVE  Checked'
<1>1. CheckedBy(t)'
  BY PathChecked, LockChecked, LoopChecked, ApplyChecked, FreeChecked, ReturnChecked,
     DriverLoopChecked DEF Step, Checked
<1>2. \A u \in Task \ {t} : CheckedBy(u)'
  BY OthersChecked DEF Checked
<1> QED
  BY <1>1, <1>2 DEF Checked

\* The beginning of a call writes no owner.
LEMMA BeginKeepsLocks ==
    ASSUME NEW t \in Task, Begin(t)
    PROVE  UNCHANGED <<me_filep, dlock, slock>>
<1>1. \A f, op, d, s, flags, n :
         me_io(t, f, op, d, s, flags, n) => UNCHANGED <<me_filep, dlock, slock>>
  BY DEF me_io
<1>2. \A f, op, d, s, lock, flags :
         lock_lower(t, f, op, d, s, lock, flags) => UNCHANGED <<me_filep, dlock, slock>>
  BY DEF lock_lower
<1>3. \A f, op, lock, flags :
         lock_driver(t, f, op, lock, flags) => UNCHANGED <<me_filep, dlock, slock>>
  BY DEF lock_driver
<1>4. \A f : me_release_refused(t, f) => UNCHANGED <<me_filep, dlock, slock>>
  BY DEF me_release_refused
<1> QED
  BY <1>1, <1>2, <1>3, <1>4 DEF Begin, me_release

LEMMA BeginChecked ==
    ASSUME InductiveInv, Checked, NEW t \in Task, Begin(t)
    PROVE  Checked'
<1> USE DEF InductiveInv
<1>1. ASSUME NEW l, NEW c, Goto(t, l, c), SameOwners,
             pc'[t] = l /\ call'[t] = c => CheckedBy(t)'
      PROVE  Checked'
  <2>1. /\ pc'[t] = l /\ call'[t] = c
        /\ \A u \in Task \ {t} : pc'[u] = pc[u] /\ call'[u] = call[u]
    BY <1>1, GotoFrame
  <2> QED
    BY <1>1, <2>1, SameChecked DEF Checked
<1>2. \A f, op, d, s, flags, n :
         me_io(t, f, op, d, s, flags, n) /\ op \in DataOps => Checked'
  <2> SUFFICES ASSUME NEW f, NEW op \in DataOps, NEW d, NEW s, NEW flags, NEW n,
                      me_io(t, f, op, d, s, flags, n)
               PROVE  Checked'
    OBVIOUS
  <2> DEFINE c == [NoCall EXCEPT !.op = op, !.filep = f, !.dev = d, !.sub = s,
                                 !.flags = flags, !.items = n]
             l == IF op = "irq_test" THEN "slock_enter" ELSE "dlock_enter"
  <2>1. Goto(t, l, c) /\ SameOwners
    BY DEF me_io, SameOwners
  <2>2. c.op \notin LockOps
    BY DEF NoCall
  <2> HIDE DEF c
  <2>3. pc'[t] = l /\ call'[t] = c => CheckedBy(t)'
    BY <2>2 DEF CheckedBy, Phase, DriverChecked, DeviceChecked, SubdevicesChecked,
       DevicesChecked
  <2> QED
    BY <1>1, <2>1, <2>3
<1>3. \A f, op, d, s, lock, flags :
         lock_lower(t, f, op, d, s, lock, flags) /\ op \in {"lock_device", "lock_subdevice"}
         => Checked'
  <2> SUFFICES ASSUME NEW f, NEW op \in {"lock_device", "lock_subdevice"}, NEW d, NEW s,
                      NEW lock, NEW flags, lock_lower(t, f, op, d, s, lock, flags)
               PROVE  Checked'
    OBVIOUS
  <2> DEFINE c == [NoCall EXCEPT !.op = op, !.filep = f, !.dev = d, !.sub = s,
                                 !.goal = lock, !.lock = lock, !.flags = flags]
             l == IF op = "lock_device" THEN "dlock_lock" ELSE "dlock_enter"
  <2>1. Goto(t, l, c) /\ SameOwners /\ ~ Refuses(me_filep, f)
    BY DEF lock_lower, SameOwners
  <2>2. c.op \notin DriverOps /\ c.filep = f
    BY DEF NoCall
  <2> HIDE DEF c
  <2>3. pc'[t] = l /\ call'[t] = c => CheckedBy(t)'
    BY <2>1, <2>2 DEF CheckedBy, Phase, DriverChecked, DeviceChecked, SubdevicesChecked,
       DevicesChecked, Agrees, SameOwners
  <2> QED
    BY <1>1, <2>1, <2>3
<1>4. \A f, op, lock, flags :
         lock_driver(t, f, op, lock, flags) /\ op \in DriverOps => Checked'
  <2> SUFFICES ASSUME NEW f, NEW op \in DriverOps, NEW lock, NEW flags,
                      lock_driver(t, f, op, lock, flags)
               PROVE  Checked'
    OBVIOUS
  <2> DEFINE c == [NoCall EXCEPT !.op = op, !.filep = f, !.goal = lock,
                                 !.lock = "CHECK", !.flags = flags, !.devs = Device]
             l == IF "FORCE" \in flags THEN "driver_apply" ELSE "driver_check"
  <2>1. Goto(t, l, c) /\ SameOwners /\ (Refuses(me_filep, f) => "FORCE" \in flags)
    BY DEF lock_driver, SameOwners
  <2>2. /\ c.op = op /\ c.filep = f /\ c.lock = "CHECK" /\ c.flags = flags
        /\ c.dev = NULL /\ c.devs = Device
    BY DEF NoCall
  <2> HIDE DEF c
  <2>3. pc'[t] = l /\ call'[t] = c => CheckedBy(t)'
    BY <2>1, <2>2 DEF CheckedBy, Phase, DriverChecked, DeviceChecked, SubdevicesChecked,
       DevicesChecked, Agrees, Forced, SameOwners
  <2> QED
    BY <1>1, <2>1, <2>3
<1>5. ASSUME NEW f \in Filep, me_release_refused(t, f)
      PROVE  Checked'
  BY <1>5, SameChecked DEF me_release_refused, SameOwners, Checked
<1>6. open \subseteq Filep
  BY DEF TypeOK
<1> QED
  BY <1>2, <1>3, <1>4, <1>5, <1>6 DEF Begin, me_release

LEMMA CheckedHolds == Spec => [](InductiveInv /\ Checked)
<1>1. Init => Checked
  BY NullAssumption DEF Init, Checked, CheckedBy, Phase, DriverChecked, DeviceChecked,
     SubdevicesChecked, DevicesChecked, NoCall
<1>2. InductiveInv /\ Checked /\ [Next]_vars => Checked'
  <2> SUFFICES ASSUME InductiveInv, Checked, [Next]_vars PROVE Checked'
    OBVIOUS
  <2>1. ASSUME NEW f \in Filep, me_open(f) PROVE Checked'
    BY <2>1, SameChecked DEF me_open, SameOwners, Checked
  <2>2. CASE UNCHANGED vars
    BY <2>2, SameChecked DEF vars, SameOwners, Checked
  <2> QED
    BY <2>1, <2>2, StepChecked, BeginChecked DEF Next
<1> QED
  BY <1>1, <1>2, InitHolds, NextKeeps, PTL DEF Spec

-----------------------------------------------------------------------------
(* Who may change an owner.                                                *)

\* Nobody loses a lock to another process except by FORCE, on any of the three levels:
\* memain_common.c, medlock.c and meslock.c change an owner only while me_lock is held,
\* and for a task that works for the owner or was told to force.
THEOREM NotStolen == Spec => LockNotStolen
<1> DEFINE By(owner) == /\ me_lock # NULL
                        /\ MayChange(owner, call[me_lock].filep, call[me_lock].flags)
           Kept == /\ me_filep' # me_filep => By(me_filep)
                   /\ \A d \in Device : dlock'[d].filep # dlock[d].filep => By(dlock[d].filep)
                   /\ \A r \in Device \X Sub :
                         slock'[r].filep # slock[r].filep => By(slock[r].filep)
<1>1. ASSUME InductiveInv, Checked, NEW t \in Task, Step(t)
      PROVE  Kept
  <2> USE DEF InductiveInv
  <2> DEFINE c == call[t]
  <2>0. /\ c \in CallType /\ Shape(pc[t], c) /\ CheckedBy(t)
        /\ dlock \in DlockType /\ slock \in SlockType
    BY <1>1, LockUpdates DEF TypeOK, CallOK, Checked
  <2>1. CASE SameOwners
    BY <2>1 DEF SameOwners
  <2>2. CASE me_lock = t
    <3>0. me_lock # NULL /\ c.op \in LockOps
      BY <1>1, <2>2, NullAssumption DEF SpinOK
    <3>1. CASE driver_apply(t)
      <4>1. c.lock = "CHECK" /\ UNCHANGED <<dlock, slock>>
        BY <2>0, <3>1 DEF driver_apply, CheckedBy, Phase
      <4>2. Agrees(me_filep, t) \/ Forced(t)
        BY <2>0, <3>0, <4>1 DEF CheckedBy, DriverChecked
      <4> QED
        BY <2>2, <3>0, <4>1, <4>2 DEF MayChange, Agrees, Forced
    <3>2. CASE dlock_apply(t)
      <4>1. /\ UNCHANGED <<me_filep, slock>> /\ c.dev \in Device /\ pc[t] = "dlock_apply"
            /\ \A d \in Device \ {c.dev} : dlock'[d] = dlock[d]
        BY <2>0, <3>2 DEF dlock_apply, Shape, DlockType
      <4>2. Agrees(dlock[c.dev].filep, t) \/ Forced(t)
        BY <2>0, <4>1 DEF CheckedBy, DeviceChecked
      <4> QED
        BY <2>2, <3>0, <4>1, <4>2 DEF MayChange, Agrees, Forced
    <3>3. ASSUME me_slock_lock(t) \/ dlock_free(t)
          PROVE  Kept
      <4> DEFINE r == Here(t)
      <4>0. /\ r \in Device \X Sub /\ me_filep' = me_filep
            /\ \A d \in Device : dlock'[d].filep = dlock[d].filep
        BY <1>1, <2>0, <3>3, CallFacts DEF me_slock_lock, dlock_free, DlockType
      <4>1. PICK lock : slock' = [slock EXCEPT ![r].filep = SlockOwner(r, c.filep, lock, c.flags)]
        BY <3>3 DEF me_slock_lock, dlock_free
      <4>2. /\ \A q \in (Device \X Sub) \ {r} : slock'[q] = slock[q]
            /\ slock'[r].filep = SlockOwner(r, c.filep, lock, c.flags)
        BY <2>0, <4>0, <4>1 DEF SlockType
      <4>3. slock'[r].filep # slock[r].filep =>
               ~ Refuses(slock[r].filep, c.filep) \/ "FORCE" \in c.flags
        BY <4>2 DEF SlockOwner, SlockError
      <4> QED
        BY <2>2, <3>0, <4>0, <4>2, <4>3 DEF MayChange
    <3>4. CASE dlock_enter(t) \/ dlock_exit(t) \/ dlock_lock(t) \/ dlock_check(t)
      BY <2>0, <3>4 DEF dlock_enter, dlock_exit, dlock_lock, dlock_check, DlockType
    <3>5. CASE slock_enter(t) \/ slock_exit(t)
      BY <2>0, <3>5 DEF slock_enter, slock_exit, SlockType
    <3>6. CASE next_item(t) \/ driver_exit(t) \/ dlock_return(t) \/ driver_check(t)
               \/ driver_free(t) \/ driver_done(t)
      BY <3>6 DEF next_item, driver_exit, dlock_return, driver_check, driver_free, driver_done
    <3>7. CASE dlock_exited(t)
      BY <3>7, NothingToRepair DEF dlock_exited
    <3> QED
      BY <1>1, <3>1, <3>2, <3>3, <3>4, <3>5, <3>6, <3>7 DEF Step
  <2> QED
    BY <1>1, <2>1, <2>2, OwnersKept
<1>2. ASSUME NEW t \in Task, Begin(t)
      PROVE  Kept
  BY <1>2, BeginKeepsLocks
<1>3. ASSUME NEW f \in Filep, me_open(f)
      PROVE  Kept
  BY <1>3 DEF me_open
<1>4. InductiveInv /\ Checked /\ [Next]_vars => [Kept]_vars
  BY <1>1, <1>2, <1>3 DEF Next
<1> QED
  BY <1>4, CheckedHolds, PTL DEF Spec, LockNotStolen

-----------------------------------------------------------------------------
(* Agreement of the levels.                                                *)

\* No lock ioctl forces.
NoForce == \A flags \in LockFlags : "FORCE" \notin flags

Unforced == \A t \in Task : ~ Forced(t)

\* LowerLevelsAgree without its condition: also in the middle of a lock ioctl.
LevelsAgree ==
    \A d \in Device :
      /\ me_filep # NULL => ~ Refuses(dlock[d].filep, me_filep)
      /\ \A s \in Sub :
           /\ me_filep # NULL => ~ Refuses(slock[<<d, s>>].filep, me_filep)
           /\ dlock[d].filep # NULL => ~ Refuses(slock[<<d, s>>].filep, dlock[d].filep)

\* The flags of a call are those it was issued with.
LEMMA FlagsKept ==
    ASSUME TypeOK, NEW t \in Task, Step(t)
    PROVE  call'[t].flags \in {call[t].flags, {}}
<1> DEFINE c == call[t]
           K == call'[t].flags \in {c.flags, {}}
<1>0. c \in CallType
  BY DEF TypeOK
<1>1. ASSUME NEW l, Goto(t, l, c) PROVE K
  BY <1>1, GotoFrame
<1>2. ASSUME NEW l, Goto(t, l, NoCall) PROVE K
  BY <1>2, GotoFrame DEF NoCall
<1>3. ASSUME NEW l, NEW v, NEW x, NEW e,
             \/ Goto(t, l, [c EXCEPT !.sub = x]) \/ Goto(t, l, [c EXCEPT !.err = e])
             \/ Goto(t, l, [c EXCEPT !.sub = x, !.err = e])
             \/ Goto(t, l, [c EXCEPT !.lock = x]) \/ Goto(t, l, [c EXCEPT !.items = x])
             \/ Goto(t, l, [c EXCEPT !.lock = x, !.devs = e])
             \/ Goto(t, l, [c EXCEPT !.dev = x, !.err = e])
             \/ Goto(t, l, [c EXCEPT !.dev = x, !.devs = e])
             \/ Goto(t, l, [c EXCEPT !.dev = v, !.sub = x, !.items = e])
      PROVE  K
  <2>1. ASSUME NEW k, Goto(t, l, k) PROVE call'[t] = k
    BY <2>1, GotoFrame
  <2> QED
    BY <1>0, <1>3, <2>1 DEF CallType
<1>4. CASE dlock_enter(t)
  BY <1>1, <1>3, <1>4 DEF dlock_enter
<1>5. CASE slock_enter(t) \/ slock_exit(t)
  BY <1>1, <1>3, <1>5 DEF slock_enter, slock_exit, AfterSubdevice
<1>6. CASE dlock_exit(t) \/ dlock_exited(t) \/ me_slock_lock(t) \/ dlock_apply(t)
  BY <1>1, <1>6 DEF dlock_exit, dlock_exited, me_slock_lock, dlock_apply
<1>7. CASE next_item(t)
  BY <1>3, <1>7 DEF next_item
<1>8. CASE driver_exit(t) \/ driver_done(t)
  BY <1>2, <1>8 DEF driver_exit, driver_done
<1>9. CASE dlock_lock(t)
  BY <1>3, <1>9 DEF dlock_lock
<1>10. CASE dlock_check(t)
  BY <1>3, <1>10 DEF dlock_check
<1>11. CASE dlock_free(t)
  BY <1>3, <1>11 DEF dlock_free
<1>12. CASE dlock_return(t)
  BY <1>1, <1>3, <1>12 DEF dlock_return
<1>13. CASE driver_check(t) \/ driver_free(t)
  BY <1>1, <1>3, <1>13 DEF driver_check, driver_free
<1>14. CASE driver_apply(t)
  BY <1>3, <1>14 DEF driver_apply
<1> QED
  BY <1>4, <1>5, <1>6, <1>7, <1>8, <1>9, <1>10, <1>11, <1>12, <1>13, <1>14 DEF Step

LEMMA BeginUnforced ==
    ASSUME TypeOK, NoForce, Unforced, NEW t \in Task, Begin(t)
    PROVE  Unforced'
<1>1. ASSUME NEW l, NEW c, Goto(t, l, c), "FORCE" \notin c.flags
      PROVE  Unforced'
  BY <1>1, GotoFrame DEF Unforced, Forced
<1>2. \A f, op, d, s, flags, n :
         me_io(t, f, op, d, s, flags, n) /\ "FORCE" \notin flags => Unforced'
  <2> SUFFICES ASSUME NEW f, NEW op, NEW d, NEW s, NEW flags, NEW n,
                      me_io(t, f, op, d, s, flags, n), "FORCE" \notin flags
               PROVE  Unforced'
    OBVIOUS
  <2>1. Goto(t, IF op = "irq_test" THEN "slock_enter" ELSE "dlock_enter",
             [NoCall EXCEPT !.op = op, !.filep = f, !.dev = d, !.sub = s,
                            !.flags = flags, !.items = n])
    BY DEF me_io
  <2>2. [NoCall EXCEPT !.op = op, !.filep = f, !.dev = d, !.sub = s,
                       !.flags = flags, !.items = n].flags = flags
    BY DEF NoCall
  <2> QED
    BY <1>1, <2>1, <2>2
<1>3. \A f, op, d, s, lock, flags :
         lock_lower(t, f, op, d, s, lock, flags) /\ "FORCE" \notin flags => Unforced'
  <2> SUFFICES ASSUME NEW f, NEW op, NEW d, NEW s, NEW lock, NEW flags,
                      lock_lower(t, f, op, d, s, lock, flags), "FORCE" \notin flags
               PROVE  Unforced'
    OBVIOUS
  <2>1. Goto(t, IF op = "lock_device" THEN "dlock_lock" ELSE "dlock_enter",
             [NoCall EXCEPT !.op = op, !.filep = f, !.dev = d, !.sub = s,
                            !.goal = lock, !.lock = lock, !.flags = flags])
    BY DEF lock_lower
  <2>2. [NoCall EXCEPT !.op = op, !.filep = f, !.dev = d, !.sub = s,
                       !.goal = lock, !.lock = lock, !.flags = flags].flags = flags
    BY DEF NoCall
  <2> QED
    BY <1>1, <2>1, <2>2
<1>4. \A f, op, lock, flags :
         lock_driver(t, f, op, lock, flags) /\ "FORCE" \notin flags => Unforced'
  <2> SUFFICES ASSUME NEW f, NEW op, NEW lock, NEW flags,
                      lock_driver(t, f, op, lock, flags), "FORCE" \notin flags
               PROVE  Unforced'
    OBVIOUS
  <2>1. Goto(t, IF "FORCE" \in flags THEN "driver_apply" ELSE "driver_check",
             [NoCall EXCEPT !.op = op, !.filep = f, !.goal = lock,
                            !.lock = "CHECK", !.flags = flags, !.devs = Device])
    BY DEF lock_driver
  <2>2. [NoCall EXCEPT !.op = op, !.filep = f, !.goal = lock,
                       !.lock = "CHECK", !.flags = flags, !.devs = Device].flags = flags
    BY DEF NoCall
  <2> QED
    BY <1>1, <2>1, <2>2
<1>5. \A f : me_release_refused(t, f) => Unforced'
  BY DEF me_release_refused, Unforced, Forced
<1> QED
  BY <1>2, <1>3, <1>4, <1>5, FlagsAssumption DEF Begin, me_release, NoForce

\* A step that changes an owner sets one that fits the levels above and below.
LEMMA StepAgrees ==
    ASSUME InductiveInv, Checked, Unforced, LevelsAgree, NEW t \in Task, Step(t)
    PROVE  LevelsAgree'
<1> USE DEF InductiveInv
<1> DEFINE c == call[t]
<1>0. /\ c \in CallType /\ Shape(pc[t], c) /\ CheckedBy(t) /\ ~ Forced(t)
      /\ dlock \in DlockType /\ slock \in SlockType
  BY LockUpdates DEF TypeOK, CallOK, Checked, Unforced
<1>1. CASE SameOwners
  <2>1. \A d \in Device, s \in Sub : slock'[<<d, s>>].filep = slock[<<d, s>>].filep
    BY <1>1 DEF SameOwners
  <2> QED
    BY <1>1, <2>1 DEF SameOwners, LevelsAgree
<1>2. CASE me_lock = t
  <2>0. c.op \in LockOps
    BY <1>2 DEF SpinOK
  <2>1. CASE driver_apply(t)
    <3>1. /\ c.lock = "CHECK" /\ c.devs = {} /\ c.dev = NULL /\ UNCHANGED <<dlock, slock>>
          /\ c.op \in DriverOps
      BY <1>0, <2>1, <2>0 DEF driver_apply, CheckedBy, Phase, DevicesChecked, Shape
    <3>2. \A d \in Device : Clear(d, t)
      BY <1>0, <2>1, <3>1, NullAssumption DEF driver_apply, CheckedBy, DevicesChecked
    <3>3. me_filep' \in {me_filep, NULL, c.filep}
      BY <2>1 DEF driver_apply
    <3> QED
      BY <3>1, <3>2, <3>3 DEF LevelsAgree, Clear, Agrees, Refuses
  <2>2. CASE dlock_apply(t)
    <3>1. /\ UNCHANGED <<me_filep, slock>> /\ c.dev \in Device /\ pc[t] = "dlock_apply"
          /\ \A d \in Device \ {c.dev} : dlock'[d] = dlock[d]
          /\ dlock'[c.dev].filep \in {dlock[c.dev].filep, NULL}
             \/ (c.lock = "SET" /\ dlock'[c.dev].filep = c.filep)
      BY <1>0, <2>2 DEF dlock_apply, Shape, DlockType
    <3>2. CASE dlock'[c.dev].filep \in {dlock[c.dev].filep, NULL}
      BY <3>1, <3>2 DEF LevelsAgree, Refuses
    <3>3. CASE c.lock = "SET" /\ dlock'[c.dev].filep = c.filep
      <4>1. Agrees(me_filep, t)
        BY <1>0, <2>0, <3>3 DEF CheckedBy, DriverChecked, Phase
      <4>2. \A s \in Sub : Agrees(slock[<<c.dev, s>>].filep, t)
        BY <1>0, <2>0, <3>1 DEF CheckedBy, SubdevicesChecked
      <4> QED
        BY <3>1, <3>3, <4>1, <4>2 DEF LevelsAgree, Agrees, Refuses
    <3> QED
      BY <3>1, <3>2, <3>3
  <2>3. CASE me_slock_lock(t) \/ dlock_free(t)
    <3> DEFINE r == Here(t)
    <3>0. /\ r = <<c.dev, c.sub>> /\ c.dev \in Device /\ c.sub \in Sub
          /\ me_filep' = me_filep /\ \A d \in Device : dlock'[d].filep = dlock[d].filep
      BY <1>0, <2>3 DEF Here, Shape, me_slock_lock, dlock_free, DlockType
    <3>1. /\ \A q \in (Device \X Sub) \ {r} : slock'[q] = slock[q]
          /\ slock'[r].filep \in {slock[r].filep, NULL}
             \/ (me_slock_lock(t) /\ slock'[r].filep = c.filep)
      BY <1>0, <2>3, <3>0 DEF me_slock_lock, dlock_free, SlockOwner, SlockType
    <3>2. \A d \in Device, s \in Sub : d # c.dev \/ s # c.sub =>
             slock'[<<d, s>>] = slock[<<d, s>>]
      BY <3>0, <3>1
    <3>3. CASE slock'[r].filep \in {slock[r].filep, NULL}
      BY <3>0, <3>2, <3>3 DEF LevelsAgree, Refuses
    <3>4. CASE me_slock_lock(t) /\ slock'[r].filep = c.filep
      <4>1. c.op = "lock_subdevice" /\ pc[t] = "slock_lock"
        BY <1>0, <3>4 DEF me_slock_lock, Shape
      <4>2. Agrees(me_filep, t)
        BY <1>0, <2>0, <4>1 DEF CheckedBy, DriverChecked
      <4>3. Agrees(dlock[c.dev].filep, t)
        BY <4>1 DEF Exclusion, InDevice, Agrees
      <4> QED
        BY <3>0, <3>2, <3>4, <4>2, <4>3 DEF LevelsAgree, Agrees, Refuses
    <3> QED
      BY <3>1, <3>3, <3>4
  <2>4. CASE ~ (driver_apply(t) \/ dlock_apply(t) \/ me_slock_lock(t) \/ dlock_free(t))
    <3>1. SameOwners
      <4>1. CASE dlock_enter(t) \/ dlock_exit(t) \/ dlock_lock(t) \/ dlock_check(t)
        BY <1>0, <4>1 DEF SameOwners, dlock_enter, dlock_exit, dlock_lock, dlock_check,
           DlockType
      <4>2. CASE slock_enter(t) \/ slock_exit(t)
        BY <1>0, <4>2 DEF SameOwners, slock_enter, slock_exit, SlockType
      <4>3. CASE next_item(t) \/ driver_exit(t) \/ dlock_return(t) \/ driver_check(t)
                 \/ driver_free(t) \/ driver_done(t)
        BY <4>3 DEF SameOwners, next_item, driver_exit, dlock_return, driver_check,
           driver_free, driver_done
      <4>4. CASE dlock_exited(t)
        BY <4>4, NothingToRepair DEF SameOwners, dlock_exited
      <4> QED
        BY <2>4, <4>1, <4>2, <4>3, <4>4 DEF Step
    <3> QED
      BY <1>1, <3>1
  <2> QED
    BY <2>1, <2>2, <2>3, <2>4
<1> QED
  BY <1>1, <1>2, OwnersKept

\* Without FORCE everything below a driver or device that is held is free or held by
\* the same process: memain_common.c and medlock.c check the lower levels before they
\* lock the upper one, and nobody gets between the check and the lock.
THEOREM LevelsHold ==
    ASSUME NoForce
    PROVE  Spec => []LowerLevelsAgree
<1>1. Init => Unforced /\ LevelsAgree
  <2> SUFFICES ASSUME Init PROVE Unforced /\ LevelsAgree
    OBVIOUS
  <2> QED
    BY DEF Init, Unforced, Forced, LevelsAgree, NoCall, Refuses
<1>2. InductiveInv /\ Checked /\ Unforced /\ LevelsAgree /\ [Next]_vars
      => Unforced' /\ LevelsAgree'
  <2> SUFFICES ASSUME InductiveInv, Checked, Unforced, LevelsAgree, [Next]_vars
               PROVE  Unforced' /\ LevelsAgree'
    OBVIOUS
  <2> USE DEF InductiveInv
  <2>1. ASSUME NEW t \in Task, Step(t) PROVE Unforced' /\ LevelsAgree'
    <3>1. \A u \in Task : ~ Forced(u)'
      BY <2>1, StepKeeps, FlagsKept DEF Unforced, Forced
    <3> QED
      BY <2>1, <3>1, StepAgrees DEF Unforced
  <2>2. ASSUME NEW t \in Task, Begin(t) PROVE Unforced' /\ LevelsAgree'
    BY <2>2, BeginUnforced, BeginKeepsLocks DEF LevelsAgree
  <2>3. ASSUME NEW f \in Filep, me_open(f) PROVE Unforced' /\ LevelsAgree'
    BY <2>3 DEF me_open, Unforced, Forced, LevelsAgree
  <2>4. CASE UNCHANGED vars
    BY <2>4 DEF vars, Unforced, Forced, LevelsAgree
  <2> QED
    BY <2>1, <2>2, <2>3, <2>4 DEF Next
<1>3. LevelsAgree => LowerLevelsAgree
  BY DEF LevelsAgree, LowerLevelsAgree
<1> QED
  BY <1>1, <1>2, <1>3, CheckedHolds, PTL DEF Spec

-----------------------------------------------------------------------------
(* Each lock implements ResourceLock.                                      *)

\* A step of ResourceLock, or a stutter: the tasks inside go from i to j, the owner
\* from x to y.
ResourceMove(i, j, x, y) ==
    \/ j = i /\ y = x
    \/ \E t \in Task, f \in Filep :
          /\ i[t] = NULL /\ x \in {NULL, f}
          /\ j = [i EXCEPT ![t] = f] /\ y = x
    \/ \E t \in Task : i[t] # NULL /\ j = [i EXCEPT ![t] = NULL] /\ y = x
    \/ (\A t \in Task : i[t] = NULL) /\ j = i /\ y \in Filep \cup {NULL}

\* A step that flows through a guarded lock is a step of ResourceLock.
LEMMA FlowImplements ==
    ASSUME TypeOK, NEW t \in Task, NEW A \in SUBSET Task, NEW B \in SUBSET Task,
           NEW n, NEW m, NEW x, NEW y \in Filep \cup {NULL}, Guarded(A, n, x),
           \A u \in Task \ {t} : (u \in A <=> u \in B) /\ call'[u] = call[u],
           \A u \in A : call[u].filep \in Filep,
           t \in B => call'[t].filep = call[t].filep /\ call[t].filep \in Filep,
           \/ Flow(t, t \in A, t \in B, n, m, x, y)
           \/ t \in A /\ t \notin B /\ y = x
    PROVE  ResourceMove([u \in Task |-> IF u \in A THEN call[u].filep ELSE NULL],
                        [u \in Task |-> IF u \in B THEN call'[u].filep ELSE NULL], x, y)
<1> DEFINE i == [u \in Task |-> IF u \in A THEN call[u].filep ELSE NULL]
           j == [u \in Task |-> IF u \in B THEN call'[u].filep ELSE NULL]
<1>0. NULL \notin Filep
  BY NullAssumption
<1>1. CASE (t \in A <=> t \in B) /\ m = n /\ (y = x \/ n = 0)
  <2>1. j = i
    BY <1>1
  <2>2. CASE n = 0
    <3>1. A = {}
      <4>1. Cardinality(A) \in Nat /\ Cardinality(A) <= 0
        BY <2>2, OneMoves DEF Guarded
      <4> QED
        BY <4>1, NobodyInside
    <3> QED
      BY <2>1, <3>1 DEF ResourceMove
  <2> QED
    BY <1>1, <2>1, <2>2 DEF ResourceMove
<1>2. CASE t \notin A /\ t \in B /\ y = x /\ ~ Refuses(x, call[t].filep)
  <2>1. i[t] = NULL /\ j = [i EXCEPT ![t] = call[t].filep]
    BY <1>2
  <2> QED
    BY <1>2, <2>1 DEF ResourceMove, Refuses
<1>3. CASE t \in A /\ t \notin B /\ y = x
  <2>1. i[t] # NULL /\ j = [i EXCEPT ![t] = NULL]
    BY <1>0, <1>3
  <2> QED
    BY <1>3, <2>1 DEF ResourceMove
<1> QED
  BY <1>1, <1>2, <1>3 DEF Flow

\* Who is inside each lock, in the sense of the refinement mapping.
InsideOf(A) == [u \in Task |-> IF u \in A THEN call[u].filep ELSE NULL]

LEMMA Mapping ==
    /\ [t \in Task |-> For(t, InDriver(t))] = InsideOf(DriverTasks)
    /\ \A d \in Device : [t \in Task |-> For(t, t \in TasksInDevice(d))]
                         = InsideOf(TasksInDevice(d))
    /\ \A r \in Device \X Sub : [t \in Task |-> For(t, t \in TasksInSubdevice(r))]
                                = InsideOf(TasksInSubdevice(r))
BY DEF For, InsideOf, DriverTasks

LEMMA MappingNext ==
    /\ [t \in Task |-> For(t, InDriver(t))]' = InsideOf(DriverTasks)'
    /\ \A d \in Device : [t \in Task |-> For(t, t \in TasksInDevice(d))]'
                         = InsideOf(TasksInDevice(d))'
    /\ \A r \in Device \X Sub : [t \in Task |-> For(t, t \in TasksInSubdevice(r))]'
                                = InsideOf(TasksInSubdevice(r))'
BY DEF For, InsideOf, DriverTasks

\* The three kinds of locks make the moves of ResourceLock.
Moves ==
    /\ ResourceMove(InsideOf(DriverTasks), InsideOf(DriverTasks)', me_filep, me_filep')
    /\ \A d \in Device :
          ResourceMove(InsideOf(TasksInDevice(d)), InsideOf(TasksInDevice(d))',
                       dlock[d].filep, dlock'[d].filep)
    /\ \A r \in Device \X Sub :
          ResourceMove(InsideOf(TasksInSubdevice(r)), InsideOf(TasksInSubdevice(r))',
                       slock[r].filep, slock'[r].filep)

LEMMA StepMoves ==
    ASSUME InductiveInv, InductiveInv', NEW t \in Task, Step(t)
    PROVE  Moves
<1> USE DEF InductiveInv
<1>1. /\ \A u \in Task \ {t} : pc'[u] = pc[u] /\ call'[u] = call[u]
      /\ pc[t] # "idle"
      /\ \/ pc'[t] = "idle" /\ call'[t] = NoCall
         \/ pc'[t] # "idle" /\ call'[t].op = call[t].op /\ call'[t].filep = call[t].filep
  BY StepKeeps
<1>2. /\ Guarded(DriverTasks, me_count, me_filep)
      /\ \A d \in Device : Guarded(TasksInDevice(d), dlock[d].count, dlock[d].filep)
      /\ \A r \in Device \X Sub : Guarded(TasksInSubdevice(r), slock[r].count, slock[r].filep)
  BY GuardedLocks
<1>3. /\ \A u \in Task : call[u].op # "none" => call[u].filep \in Filep
      /\ call'[t].op # "none" => pc'[t] # "idle"
      /\ \A u \in Task : pc[u] # "idle" => call[u].op # "none"
  BY DEF CallOK, Shape
<1>4. /\ me_filep' \in Filep \cup {NULL}
      /\ \A d \in Device : dlock'[d].filep \in Filep \cup {NULL}
      /\ \A r \in Device \X Sub : slock'[r].filep \in Filep \cup {NULL}
  BY DEF TypeOK
<1>5. ResourceMove(InsideOf(DriverTasks), InsideOf(DriverTasks)', me_filep, me_filep')
  <2> DEFINE A == DriverTasks
             B == DriverTasks'
  <2>1. /\ A \in SUBSET Task /\ B \in SUBSET Task
        /\ \A u \in Task \ {t} : u \in A <=> u \in B
        /\ t \in A <=> InDriver(t)
        /\ t \in B <=> InDriver(t)'
        /\ \A u \in A : call[u].op # "none"
        /\ t \in B => call'[t].op # "none"
    BY <1>1 DEF DriverTasks, InDriver
  <2>2. Flow(t, t \in A, t \in B, me_count, me_count', me_filep, me_filep')
    BY <2>1, DriverFlow DEF Flow
  <2>3. t \in B => call'[t].filep = call[t].filep /\ call[t].filep \in Filep
    BY <1>1, <1>3, <2>1
  <2> HIDE DEF A, B
  <2>4. ResourceMove([u \in Task |-> IF u \in A THEN call[u].filep ELSE NULL],
                     [u \in Task |-> IF u \in B THEN call'[u].filep ELSE NULL],
                     me_filep, me_filep')
    <3>1. Guarded(A, me_count, me_filep)
      BY <1>2 DEF A
    <3> QED
      BY <1>1, <1>3, <1>4, <2>1, <2>2, <2>3, <3>1, FlowImplements
  <2> QED
    BY <2>4 DEF InsideOf, A, B
<1>6. ASSUME NEW d \in Device
      PROVE  ResourceMove(InsideOf(TasksInDevice(d)), InsideOf(TasksInDevice(d))',
                          dlock[d].filep, dlock'[d].filep)
  <2> DEFINE A == TasksInDevice(d)
             B == TasksInDevice(d)'
  <2>1. /\ A \in SUBSET Task /\ B \in SUBSET Task
        /\ \A u \in Task \ {t} : u \in A <=> u \in B
        /\ t \in A <=> AtDevice(t, d)
        /\ t \in B <=> AtDevice(t, d)'
        /\ \A u \in A : call[u].op # "none"
        /\ t \in B => call'[t].op # "none"
    BY <1>1 DEF TasksInDevice, InDevice, AtDevice
  <2>2. \/ Flow(t, t \in A, t \in B, dlock[d].count, dlock'[d].count,
                dlock[d].filep, dlock'[d].filep)
        \/ t \in A /\ t \notin B /\ dlock'[d].filep = dlock[d].filep
    BY <2>1, DeviceFlow DEF DeviceStep, Flow
  <2>3. t \in B => call'[t].filep = call[t].filep /\ call[t].filep \in Filep
    BY <1>1, <1>3, <2>1
  <2> HIDE DEF A, B
  <2>4. ResourceMove([u \in Task |-> IF u \in A THEN call[u].filep ELSE NULL],
                     [u \in Task |-> IF u \in B THEN call'[u].filep ELSE NULL],
                     dlock[d].filep, dlock'[d].filep)
    <3>1. Guarded(A, dlock[d].count, dlock[d].filep)
      BY <1>2 DEF A
    <3>2. \A u \in A : call[u].filep \in Filep
      BY <1>3, <2>1
    <3>3. dlock'[d].filep \in Filep \cup {NULL}
      BY <1>4
    <3>4. CASE Flow(t, t \in A, t \in B, dlock[d].count, dlock'[d].count,
                    dlock[d].filep, dlock'[d].filep)
      BY <1>1, <2>1, <2>3, <3>1, <3>2, <3>3, <3>4, FlowImplements
    <3>5. CASE t \in A /\ t \notin B /\ dlock'[d].filep = dlock[d].filep
      BY <1>1, <2>1, <2>3, <3>1, <3>2, <3>3, <3>5, FlowImplements
    <3> QED
      BY <2>2, <3>4, <3>5
  <2> QED
    BY <2>4 DEF InsideOf, A, B
<1>7. ASSUME NEW r \in Device \X Sub
      PROVE  ResourceMove(InsideOf(TasksInSubdevice(r)), InsideOf(TasksInSubdevice(r))',
                          slock[r].filep, slock'[r].filep)
  <2> DEFINE A == TasksInSubdevice(r)
             B == TasksInSubdevice(r)'
  <2>1. /\ A \in SUBSET Task /\ B \in SUBSET Task
        /\ \A u \in Task \ {t} : u \in A <=> u \in B
        /\ t \in A <=> AtSubdevice(t, r)
        /\ t \in B <=> AtSubdevice(t, r)'
        /\ \A u \in A : pc[u] # "idle"
        /\ t \in B => pc'[t] # "idle"
    BY <1>1 DEF TasksInSubdevice, InSubdevice, AtSubdevice, Here
  <2>2. Flow(t, t \in A, t \in B, slock[r].count, slock'[r].count,
             slock[r].filep, slock'[r].filep)
    BY <2>1, SubdeviceFlow DEF SubdeviceStep, Flow
  <2>3. t \in B => call'[t].filep = call[t].filep /\ call[t].filep \in Filep
    BY <1>1, <1>3, <2>1
  <2> HIDE DEF A, B
  <2>4. ResourceMove([u \in Task |-> IF u \in A THEN call[u].filep ELSE NULL],
                     [u \in Task |-> IF u \in B THEN call'[u].filep ELSE NULL],
                     slock[r].filep, slock'[r].filep)
    <3>1. Guarded(A, slock[r].count, slock[r].filep)
      BY <1>2 DEF A
    <3> QED
      BY <1>1, <1>3, <1>4, <2>1, <2>2, <2>3, <3>1, FlowImplements
  <2> QED
    BY <2>4 DEF InsideOf, A, B
<1> QED
  BY <1>5, <1>6, <1>7 DEF Moves

\* A call that begins enters the driver, or nothing; a file changes nothing.
LEMMA BeginMoves ==
    ASSUME InductiveInv, NEW t \in Task, Begin(t)
    PROVE  Moves
<1> USE DEF InductiveInv
<1>0. UNCHANGED <<me_filep, dlock, slock>>
  BY BeginKeepsLocks
<1>1. ASSUME NEW l \in Location, NEW c, Begins(t, l, c)
      PROVE  Moves
  <2>1. /\ pc[t] = "idle" /\ pc'[t] = l /\ call'[t] = c /\ l # "idle"
        /\ \A u \in Task \ {t} : pc'[u] = pc[u] /\ call'[u] = call[u]
    BY <1>1, GotoFrame DEF Begins
  <2>2. call[t].op = "none"
    BY <2>1 DEF CallOK, Shape
  <2>3. /\ ~ InDevice(t) /\ ~ InSubdevice(t) /\ ~ InDriver(t)
        /\ ~ InDevice(t)' /\ ~ InSubdevice(t)'
        /\ InDriver(t)' => c.filep \in Filep /\ ~ Refuses(me_filep, c.filep)
    BY <1>1, <2>1, <2>2 DEF InDevice, InSubdevice, InDriver, Begins
  <2>4. /\ \A d \in Device : InsideOf(TasksInDevice(d))' = InsideOf(TasksInDevice(d))
        /\ \A r \in Device \X Sub : InsideOf(TasksInSubdevice(r))' = InsideOf(TasksInSubdevice(r))
    BY <2>1, <2>3 DEF InsideOf, TasksInDevice, TasksInSubdevice, InDevice, InSubdevice, Here
  <2>5. \/ InsideOf(DriverTasks)' = InsideOf(DriverTasks)
        \/ /\ InsideOf(DriverTasks)[t] = NULL /\ InDriver(t)'
           /\ InsideOf(DriverTasks)' = [InsideOf(DriverTasks) EXCEPT ![t] = c.filep]
    BY <2>1, <2>3 DEF InsideOf, DriverTasks, InDriver
  <2> QED
    BY <1>0, <2>3, <2>4, <2>5 DEF Moves, ResourceMove, Refuses
<1>2. ASSUME NEW f \in Filep, me_release_refused(t, f)
      PROVE  Moves
  BY <1>2 DEF me_release_refused, Moves, ResourceMove, InsideOf, DriverTasks, TasksInDevice,
     TasksInSubdevice, InDriver, InDevice, InSubdevice, Here
<1> QED
  BY <1>1, <1>2, BeginCases

LEMMA MovesImplement == Moves => ResNext
<1> SUFFICES ASSUME Moves PROVE ResNext
  OBVIOUS
<1>1. [DriverRes!Next]_(DriverRes!vars)
  BY Mapping, MappingNext DEF Moves, ResourceMove, DriverRes!Next, DriverRes!Enter,
     DriverRes!Leave, DriverRes!Own, DriverRes!Empty, DriverRes!vars
<1>2. ASSUME NEW d \in Device
      PROVE  [DeviceRes(d)!Next]_(DeviceRes(d)!vars)
  <2>1. ResourceMove(InsideOf(TasksInDevice(d)), InsideOf(TasksInDevice(d))',
                     dlock[d].filep, dlock'[d].filep)
    BY DEF Moves
  <2>2. /\ [t \in Task |-> For(t, t \in TasksInDevice(d))] = InsideOf(TasksInDevice(d))
        /\ [t \in Task |-> For(t, t \in TasksInDevice(d))]' = InsideOf(TasksInDevice(d))'
    BY Mapping, MappingNext
  <2> QED
    BY <2>1, <2>2 DEF ResourceMove, DeviceRes!Next, DeviceRes!Enter, DeviceRes!Leave,
       DeviceRes!Own, DeviceRes!Empty, DeviceRes!vars
<1>3. ASSUME NEW r \in Device \X Sub
      PROVE  [SubdeviceRes(r)!Next]_(SubdeviceRes(r)!vars)
  <2>1. ResourceMove(InsideOf(TasksInSubdevice(r)), InsideOf(TasksInSubdevice(r))',
                     slock[r].filep, slock'[r].filep)
    BY DEF Moves
  <2>2. /\ [t \in Task |-> For(t, t \in TasksInSubdevice(r))] = InsideOf(TasksInSubdevice(r))
        /\ [t \in Task |-> For(t, t \in TasksInSubdevice(r))]' = InsideOf(TasksInSubdevice(r))'
    BY Mapping, MappingNext
  <2> QED
    BY <2>1, <2>2 DEF ResourceMove, SubdeviceRes!Next, SubdeviceRes!Enter, SubdeviceRes!Leave,
       SubdeviceRes!Own, SubdeviceRes!Empty, SubdeviceRes!vars
<1> QED
  BY <1>1, <1>2, <1>3 DEF ResNext

\* The driver, every device and every subdevice is a lock in the sense of ResourceLock:
\* an owner is set or cleared only while nobody is inside, also in the middle of the
\* loops of me_dlock_lock() and lock_driver().
THEOREM LocksImplemented == Spec => ImplementsResourceLocks
<1>1. Init => ResInit
  <2> SUFFICES ASSUME Init PROVE ResInit
    OBVIOUS
  <2>1. \A t \in Task : ~ InDriver(t) /\ ~ InDevice(t) /\ ~ InSubdevice(t)
    BY DEF Init, InDriver, InDevice, InSubdevice, NoCall
  <2>2. DriverRes!Init
    BY <2>1 DEF Init, DriverRes!Init, For
  <2>3. \A d \in Device : DeviceRes(d)!Init
    BY <2>1 DEF Init, DeviceRes!Init, For, TasksInDevice
  <2>4. \A r \in Device \X Sub : SubdeviceRes(r)!Init
    BY <2>1 DEF Init, SubdeviceRes!Init, For, TasksInSubdevice
  <2> QED
    BY <2>2, <2>3, <2>4 DEF ResInit
<1>2. InductiveInv /\ InductiveInv' /\ [Next]_vars => [ResNext]_vars
  <2> SUFFICES ASSUME InductiveInv, InductiveInv', Next PROVE ResNext
    OBVIOUS
  <2>1. ASSUME NEW f \in Filep, me_open(f) PROVE ResNext
    <3>1. Moves
      BY <2>1 DEF me_open, Moves, ResourceMove, InsideOf, DriverTasks, TasksInDevice,
         TasksInSubdevice, InDriver, InDevice, InSubdevice, Here
    <3> QED
      BY <3>1, MovesImplement
  <2> QED
    BY <2>1, StepMoves, BeginMoves, MovesImplement DEF Next
<1>3. Spec => []InductiveInv
  BY InitHolds, NextKeeps, PTL DEF Spec
<1> QED
  BY <1>1, <1>2, <1>3, PTL DEF Spec, ImplementsResourceLocks

=============================================================================
