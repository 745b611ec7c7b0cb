--------------------------- MODULE Library_proofs ---------------------------
(***************************************************************************)
(* What holds of the user library for every number of threads, every       *)
(* configuration and every sequence of calls.                              *)
(*                                                                         *)
(* A thread that has the library open works on contexts that are there.    *)
(* The argument is the count: as long as it is the number of openings that *)
(* are still to be closed (Counts), nobody is closing while a thread has   *)
(* the library open (OnlyLast), and contexts that are found in the list or *)
(* in the device entries are live unless somebody is closing (Found).  The *)
(* theorem needs that no thread closes what another one has opened         *)
(* (Disciplined); the code does not look who closes.                       *)
(*                                                                         *)
(* What is open follows the count whoever closes: the section that opens   *)
(* has read the drivers behind it (ReadIn), the section that closes has    *)
(* closed all contexts of devices but those that an entry in front of it   *)
(* leads to (Owned), and between the sections everything that was found    *)
(* is open, or nothing (Whole).                                            *)
(*                                                                         *)
(* meLockDriver() locks all drivers or none.  A lock of ours is there to   *)
(* stay (Kept) or is gone or about to be released by a request that its    *)
(* server still has (Freed); between the calls all are the one or all the  *)
(* other, and the loops of ME_LockAll() have made the drivers in front of  *)
(* them so (Phase).  The theorem needs that one thread is in these loops   *)
(* at a time and none opens the library meanwhile (LockersApart); the code *)
(* does not keep them apart.                                               *)
(*                                                                         *)
(* Callbacks are kept apart by their mutex, and one that has been removed  *)
(* runs at most once more.                                                 *)
(***************************************************************************)
EXTENDS Library, Callbacks, FiniteSetTheorems, TLAPS

\* Whoever closes has it open himself, or nobody has.
Disciplined ==
    \A t \in Threads :
        Calling(t, "close") => opens[t] > 0 \/ \A u \in Threads : opens[u] = 0

LibContexts == [addr : present, fd : BOOLEAN, freed : BOOLEAN]
Entries     == [ctx : Nat, in : BOOLEAN]

LibType ==
    /\ present \subseteq Addresses
    /\ count \in Int
    /\ opens \in [Threads -> Nat]
    /\ DOMAIN pc = Threads /\ DOMAIN idx = Threads /\ DOMAIN ctx = Threads
    /\ contexts \in Seq(LibContexts)
    /\ config \in Seq(Entries)
    /\ list \in [head : BOOLEAN, of : Seq(Nat)]

\* The openings that are still to be closed.
Openings == {o \in Threads \X Nat : o[2] \in 1 .. opens[o[1]]}

Counts == IsFiniteSet(Openings) /\ Counted = Cardinality(Openings)

\* Who opens and closes has the mutex; who reads the configuration or closes the drivers
\* does so because nobody has the library open.
Sections == {"opening", "opened", "closing", "cleaning", "closed"}
OnlyLast ==
    \A t \in Threads :
        /\ pc[t] \in Sections => mutex = t
        /\ pc[t] \in {"opening", "closing", "cleaning"} => \A u \in Threads : opens[u] = 0
        /\ pc[t] \in {"opening", "opened"} => count >= 0
        /\ pc[t] = "cleaning" => config = <<>>

Live(c) == c \in DOMAIN contexts /\ contexts[c].fd /\ ~ contexts[c].freed

\* Each of these shows that nobody is in the middle of closing.
Settled == \/ mutex = None
           \/ \E t \in Threads : pc[t] \in {"opening", "opened", "closed"}
           \/ \E t \in Threads : opens[t] > 0

Found == Settled => /\ \A k \in DOMAIN list.of : Live(list.of[k])
                    /\ \A k \in DOMAIN config : Live(config[k].ctx)

AtWork ==
    \A t \in Threads : opens[t] > 0 =>
        /\ Locking(t) => idx[t] \in DOMAIN list.of
        /\ pc[t] \in {"calling", "inside"} => Live(ctx[t])

LibInv == LibType /\ Counts /\ OnlyLast /\ Found /\ AtWork

-----------------------------------------------------------------------------
(* The count.                                                              *)

LEMMA NoOpenings ==
    ASSUME LibType, Counts
    PROVE  Counted = 0 <=> \A u \in Threads : opens[u] = 0
<1>1. Openings = {} <=> \A u \in Threads : opens[u] = 0
  <2>1. ASSUME NEW u \in Threads, opens[u] # 0 PROVE Openings # {}
    <3>1. <<u, opens[u]>> \in Openings
      BY <2>1 DEF LibType, Openings
    <3> QED
      BY <3>1
  <2>2. ASSUME \A u \in Threads : opens[u] = 0 PROVE Openings = {}
    BY <2>2 DEF LibType, Openings
  <2> QED
    BY <2>1, <2>2
<1> QED
  BY <1>1, FS_EmptySet DEF Counts

LEMMA CountedUp ==
    ASSUME LibType, Counts, NEW t \in Threads, opens' = [opens EXCEPT ![t] = @ + 1]
    PROVE  IsFiniteSet(Openings') /\ Cardinality(Openings') = Counted + 1
<1> DEFINE o == <<t, opens[t] + 1>>
<1>1. Openings' = Openings \cup {o}
  <2>1. \A u \in Threads : opens'[u] = IF u = t THEN opens[u] + 1 ELSE opens[u]
    BY DEF LibType
  <2>2. \A p \in Threads \X Nat : p[2] \in 1 .. opens'[p[1]] <=> p[2] \in 1 .. opens[p[1]] \/ p = o
    BY <2>1 DEF LibType
  <2>3. o \in Threads \X Nat
    BY DEF LibType
  <2> QED
    BY <2>2, <2>3 DEF Openings
<1>2. o \notin Openings
  BY DEF LibType, Openings
<1> QED
  BY <1>1, <1>2, FS_AddElement DEF Counts

LEMMA CountedDown ==
    ASSUME LibType, Counts, NEW t \in Threads, opens[t] > 0,
           opens' = [opens EXCEPT ![t] = IF @ > 0 THEN @ - 1 ELSE 0]
    PROVE  IsFiniteSet(Openings') /\ Cardinality(Openings') = Counted - 1
<1> DEFINE o == <<t, opens[t]>>
<1>1. Openings' = Openings \ {o}
  <2>1. \A u \in Threads : opens'[u] = IF u = t THEN opens[u] - 1 ELSE opens[u]
    BY DEF LibType
  <2>2. \A p \in Threads \X Nat : p[2] \in 1 .. opens'[p[1]] <=> p[2] \in 1 .. opens[p[1]] /\ p # o
    BY <2>1 DEF LibType
  <2> QED
    BY <2>2 DEF Openings
<1>2. o \in Openings
  BY DEF LibType, Openings
<1> QED
  BY <1>1, <1>2, FS_RemoveElement DEF Counts

-----------------------------------------------------------------------------
(* Where the library starts.                                               *)

LEMMA SetAsSequence ==
    ASSUME NEW S, IsFiniteSet(S), NEW q \in SetToSeqs(S)
    PROVE  q \in Seq(S) /\ IsInjective(q)
<1>1. Cardinality(S) \in Nat
  BY FS_CardinalityType
<1>2. q \in [1 .. Cardinality(S) -> S] /\ \A i, j \in 1 .. Cardinality(S) : i # j => q[i] # q[j]
  BY DEF SetToSeqs
<1> QED
  BY <1>1, <1>2 DEF IsInjective

LEMMA InitLib == LibInit => LibInv
<1> SUFFICES ASSUME LibInit PROVE LibInv
  OBVIOUS
<1>1. present \subseteq Addresses
  <2>1. PICK A \in SUBSET Addresses : conf \in SetToSeqs(A)
    BY DEF LibInit
  <2>2. IsFiniteSet(A)
    BY LibraryAssumption, FS_Subset
  <2>3. conf \in Seq(A)
    BY <2>1, <2>2, SetAsSequence
  <2>4. ToSet(conf) \subseteq A
    BY <2>3 DEF ToSet
  <2> QED
    BY <2>4 DEF LibInit
<1>2. LibType
  BY <1>1 DEF LibInit, LibType
<1>3. Counts
  <2>1. Openings = {}
    BY DEF LibInit, Openings
  <2> QED
    BY <2>1, FS_EmptySet DEF LibInit, Counts, Counted
<1> QED
  BY <1>2, <1>3
  DEF LibInit, LibInv, OnlyLast, Sections, Found, AtWork, Locking

-----------------------------------------------------------------------------
(* Calls other than meOpen() and meClose().                                *)

libBase == <<present, count, opens, mutex, config, contexts, list>>

\* Nothing happens to whoever is in a call.
LEMMA BesideCalls == ASSUME LibInv, UNCHANGED <<libBase, pc, idx, ctx>> PROVE LibInv'
  BY DEF LibInv, libBase, LibType, LibContexts, Openings, Counts, Counted, OnlyLast, Found,
     Settled, Live, AtWork, Locking

\* A thread goes a step on.
LEMMA WithinCall ==
    ASSUME LibInv, UNCHANGED libBase, NEW t \in Threads,
           DOMAIN pc' = Threads, DOMAIN idx' = Threads, DOMAIN ctx' = Threads,
           \A u \in Threads \ {t} : pc'[u] = pc[u] /\ idx'[u] = idx[u] /\ ctx'[u] = ctx[u],
           pc'[t] \notin Sections,
           opens[t] > 0 => /\ Locking(t)' => idx'[t] \in DOMAIN list.of
                           /\ pc'[t] \in {"calling", "inside"} => Live(ctx'[t])
    PROVE  LibInv'
<1>1. LibType'
  BY DEF LibInv, libBase, LibType, LibContexts
<1>2. Counts'
  BY DEF LibInv, libBase, Counts, Counted, Openings
<1>3. OnlyLast'
  BY DEF LibInv, libBase, OnlyLast, Sections
<1>4. Found'
  <2>1. Settled' => Settled
    BY DEF libBase, Settled, Sections
  <2> QED
    BY <2>1 DEF LibInv, libBase, Found, Live
<1>5. AtWork'
  BY DEF LibInv, libBase, AtWork, Locking, Live
<1> QED
  BY <1>1, <1>2, <1>3, <1>4, <1>5 DEF LibInv

LEMMA LockNextHolds ==
    ASSUME LibInv, UNCHANGED libBase, NEW t \in Threads, NEW failed \in BOOLEAN, Locking(t),
           LockNext(t, failed)
    PROVE  LibInv'
<1>1. CASE Return(t)
  BY <1>1, WithinCall DEF LibInv, LibType, Return, Sections, Locking
<1>2. CASE /\ pc' = pc /\ ctx' = ctx
           /\ idx' = [idx EXCEPT ![t] = @ + 1] /\ idx[t] # Len(list.of)
  <2>1. idx[t] \in DOMAIN list.of => idx[t] + 1 \in DOMAIN list.of
    BY <1>2 DEF LibInv, LibType
  <2> QED
    BY <1>2, <2>1, WithinCall DEF LibInv, LibType, AtWork, Sections, Locking, libBase
<1>3. CASE \E l \in {"locking", "undoing"} : 
             Goto(t, l) /\ idx' = [idx EXCEPT ![t] = 1] /\ ctx' = ctx
  <2>1. idx[t] \in DOMAIN list.of => 1 \in DOMAIN list.of
    BY DEF LibInv, LibType
  <2> QED
    BY <1>3, <2>1, WithinCall DEF LibInv, LibType, AtWork, Sections, Locking, libBase, Goto
<1> QED
  BY <1>1, <1>2, <1>3 DEF LockNext

LEMMA LockAllHolds == ASSUME LibInv, NEW t \in Threads, LockAll(t) PROVE LibInv'
<1>1. UNCHANGED libBase
  BY DEF LockAll, cfgVars, libBase
<1>2. CASE Return(t)
  BY <1>1, <1>2, WithinCall DEF LibInv, LibType, Return, Sections, Locking
<1>3. CASE /\ list.of # <<>> /\ idx' = [idx EXCEPT ![t] = 1] /\ ctx' = ctx
           /\ \E l \in {"checking", "locking"} : Goto(t, l)
  <2>1. 1 \in DOMAIN list.of
    BY <1>3 DEF LibInv, LibType
  <2> QED
    BY <1>1, <1>3, <2>1, WithinCall DEF LibInv, LibType, Sections, Locking, Goto
<1> QED
  BY <1>2, <1>3 DEF LockAll

LEMMA LockLocalHolds == ASSUME LibInv, NEW t \in Threads, LockLocal(t) PROVE LibInv'
<1>1. UNCHANGED libBase /\ Locking(t)
  BY DEF LockLocal, cfgVars, libBase
<1>2. PICK refused \in BOOLEAN : LockNext(t, refused)
  BY DEF LockLocal, Refusals
<1> QED
  BY <1>1, <1>2, LockNextHolds

LEMMA RpcReturnHolds == ASSUME LibInv, NEW t \in Threads, RpcReturn(t) PROVE LibInv'
<1>1. UNCHANGED libBase
  BY DEF RpcReturn, cfgVars, libBase
<1>2. CASE Locking(t)
  <2>1. LockNext(t, reply[t] = "error")
    BY <1>2 DEF RpcReturn
  <2> QED
    BY <1>1, <1>2, <2>1, LockNextHolds
<1>3. CASE ~ Locking(t)
  <2>1. Return(t)
    BY <1>3 DEF RpcReturn
  <2> QED
    BY <1>1, <2>1, WithinCall DEF LibInv, LibType, Return, Sections, Locking
<1> QED
  BY <1>2, <1>3

LEMMA CallResolveHolds == ASSUME LibInv, NEW t \in Threads, CallResolve(t) PROVE LibInv'
<1>1. UNCHANGED libBase /\ pc[t] = "idle"
  BY DEF CallResolve, Calling, cfgVars, libBase
<1>2. PICK logical \in 0 .. Len(config) :
          IF logical < Len(config) /\ config[logical + 1].in
          THEN /\ ctx' = [ctx EXCEPT ![t] = config[logical + 1].ctx]
               /\ Goto(t, "calling")
               /\ UNCHANGED <<script, idx>>
          ELSE Return(t)
  BY DEF CallResolve
<1>3. CASE Return(t)
  BY <1>1, <1>3, WithinCall DEF LibInv, LibType, Return, Sections, Locking
<1>4. CASE /\ logical < Len(config) /\ idx' = idx
           /\ ctx' = [ctx EXCEPT ![t] = config[logical + 1].ctx]
           /\ Goto(t, "calling")
  <2>1. logical + 1 \in DOMAIN config
    BY <1>4 DEF LibInv, LibType
  <2>2. opens[t] > 0 => Live(config[logical + 1].ctx)
    BY <2>1 DEF LibInv, Found, Settled
  <2> QED
    BY <1>1, <1>4, <2>2, WithinCall DEF LibInv, LibType, Sections, Locking, Goto
<1> QED
  BY <1>2, <1>3, <1>4

LEMMA CallEnterHolds == ASSUME LibInv, NEW t \in Threads, CallEnter(t) PROVE LibInv'
<1>1. UNCHANGED libBase /\ pc[t] = "calling"
  BY DEF CallEnter, cfgVars, libBase
<1>2. CASE Return(t)
  BY <1>1, <1>2, WithinCall DEF LibInv, LibType, Return, Sections, Locking
<1>3. CASE Goto(t, "inside") /\ UNCHANGED <<idx, ctx>>
  BY <1>1, <1>3, WithinCall DEF LibInv, LibType, AtWork, Sections, Locking, Goto
<1> QED
  BY <1>2, <1>3 DEF CallEnter

LEMMA CallLeaveHolds == ASSUME LibInv, NEW t \in Threads, CallLeave(t) PROVE LibInv'
<1>1. UNCHANGED libBase /\ Return(t)
  BY DEF CallLeave, cfgVars, libBase
<1> QED
  BY <1>1, WithinCall DEF LibInv, LibType, Return, Sections, Locking

-----------------------------------------------------------------------------
(* meOpen() and meClose().                                                 *)

\* Nobody else is in a section.
LEMMA Alone ==
    ASSUME LibInv, NEW t \in Threads, mutex \in {t, None}
    PROVE  \A u \in Threads \ {t} : pc[u] \notin Sections
BY LibraryAssumption DEF LibInv, OnlyLast

\* Steps that take the mutex and leave the rest alone.
LEMMA Entering ==
    ASSUME LibInv, NEW t \in Threads, mutex = None, mutex' = t,
           UNCHANGED <<present, config, contexts, list, ctx>>,
           opens' \in [Threads -> Nat], count' \in Int, Counts',
           NEW l \in {"opening", "opened", "closing", "closed"}, Goto(t, l),
           DOMAIN idx' = Threads, \A u \in Threads \ {t} : idx'[u] = idx[u],
           \A u \in Threads : opens'[u] <= opens[u],
           l \in {"opening", "closing"} => \A u \in Threads : opens'[u] = 0,
           l \in {"opening", "opened"} => count' >= 0
    PROVE  LibInv'
<1>1. \A u \in Threads \ {t} : pc[u] \notin Sections
  BY Alone
<1>2. pc'[t] = l /\ \A u \in Threads \ {t} : pc'[u] = pc[u]
  BY DEF Goto, LibInv, LibType
<1>3. LibType'
  BY DEF LibInv, LibType, LibContexts, Goto
<1>4. OnlyLast'
  BY <1>1, <1>2 DEF OnlyLast, Sections
<1>5. Found'
  BY DEF LibInv, Found, Settled, Live
<1>6. AtWork'
  BY <1>2 DEF LibInv, LibType, AtWork, Locking, Live
<1> QED
  BY <1>3, <1>4, <1>5, <1>6 DEF LibInv

LEMMA OpenLockHolds == ASSUME LibInv, NEW t \in Threads, OpenLock(t) PROVE LibInv'
<1>1. PICK l \in {"opening", "opened"} :
          Goto(t, l) /\ (l = "opening" <=> Counted = 0)
  BY DEF OpenLock
<1>2. /\ mutex = None /\ mutex' = t /\ count' = Counted /\ opens' = opens
      /\ UNCHANGED <<present, config, contexts, list, ctx>>
      /\ idx' = [idx EXCEPT ![t] = 1]
  BY DEF OpenLock, cfgVars
<1>3. Counts' /\ count' \in Int
  BY <1>2 DEF LibInv, LibType, Counts, Counted, Openings
<1>4. (l = "opening" => \A u \in Threads : opens'[u] = 0) /\ count' >= 0
  BY <1>1, <1>2, NoOpenings DEF LibInv, LibType, Counted
<1> QED
  BY <1>1, <1>2, <1>3, <1>4, Entering DEF LibInv, LibType

LEMMA CloseLockHolds ==
    ASSUME LibInv, Disciplined, NEW t \in Threads, CloseLock(t) PROVE LibInv'
<1>1. PICK l \in {"closing", "closed"} :
          Goto(t, l) /\ (l = "closing" <=> Counted - 1 = 0)
  BY DEF CloseLock
<1>2. /\ mutex = None /\ mutex' = t /\ count' = Counted - 1
      /\ opens' = [opens EXCEPT ![t] = IF @ > 0 THEN @ - 1 ELSE 0]
      /\ UNCHANGED <<present, config, contexts, list, ctx>>
      /\ idx' = [idx EXCEPT ![t] = 1]
  BY DEF CloseLock, cfgVars
<1>3. opens[t] > 0 \/ \A u \in Threads : opens[u] = 0
  BY DEF CloseLock, Disciplined
<1>4. /\ opens' \in [Threads -> Nat] /\ \A u \in Threads : opens'[u] <= opens[u]
      /\ count' \in Int
  BY <1>2 DEF LibInv, LibType, Counted
<1>5. Counts' /\ (l = "closing" => \A u \in Threads : opens'[u] = 0)
  <2>1. CASE opens[t] > 0
    <3>1. IsFiniteSet(Openings') /\ Cardinality(Openings') = count'
      BY <1>2, <2>1, CountedDown DEF LibInv
    <3>2. count' \in Nat
      BY <3>1, FS_CardinalityType
    <3>3. Openings' = {} <=> \A u \in Threads : opens'[u] = 0
      <4>1. ASSUME NEW u \in Threads, opens'[u] # 0 PROVE <<u, opens'[u]>> \in Openings'
        BY <1>4, <4>1 DEF Openings
      <4>2. ASSUME \A u \in Threads : opens'[u] = 0 PROVE Openings' = {}
        BY <4>2 DEF Openings
      <4> QED
        BY <4>1, <4>2
    <3> QED
      BY <1>1, <1>2, <3>1, <3>2, <3>3, FS_EmptySet DEF Counts, Counted
  <2>2. CASE \A u \in Threads : opens[u] = 0
    <3>1. Counted = 0
      BY <2>2, NoOpenings DEF LibInv
    <3>2. opens' = opens
      BY <1>2, <2>2 DEF LibInv, LibType
    <3>3. Openings' = Openings
      BY <3>2 DEF Openings
    <3> QED
      BY <1>1, <1>2, <3>1, <3>3 DEF LibInv, Counts, Counted
  <2> QED
    BY <1>3, <2>1, <2>2
<1> QED
  BY <1>1, <1>2, <1>4, <1>5, Entering DEF LibInv, LibType

LEMMA CloseForceHolds == ASSUME LibInv, NEW t \in Threads, CloseForce(t) PROVE LibInv'
<1>1. /\ mutex = None /\ mutex' = t /\ count' = 0
      /\ opens' = [u \in Threads |-> 0] /\ Goto(t, "closing")
      /\ UNCHANGED <<present, config, contexts, list, ctx>>
      /\ idx' = [idx EXCEPT ![t] = 1]
  BY DEF CloseForce, cfgVars
<1>2. Openings' = {}
  BY <1>1 DEF Openings
<1>3. Counts'
  BY <1>1, <1>2, FS_EmptySet DEF Counts, Counted
<1> QED
  BY <1>1, <1>3, Entering DEF LibInv, LibType

LEMMA OpenDriverHolds == ASSUME LibInv, NEW t \in Threads, OpenDriver(t) PROVE LibInv'
<1>0. PICK a, c : a = conf[idx[t]] /\ c = Len(contexts) + 1
  OBVIOUS
<1>1. /\ pc[t] = "opening" /\ UNCHANGED <<present, count, opens, mutex, pc, ctx>>
      /\ idx' = [idx EXCEPT ![t] = @ + 1]
      /\ IF a \in present
         THEN /\ contexts' = Append(contexts, [addr |-> a, fd |-> TRUE, freed |-> FALSE])
              /\ config' = config \o ConfigRead(c, a)
              /\ list' = ContextAppend(c)
         ELSE UNCHANGED <<contexts, config, list>>
  BY <1>0 DEF OpenDriver, ConfigJoin
<1>2. /\ mutex = t /\ \A u \in Threads : opens[u] = 0
      /\ \A u \in Threads \ {t} : pc[u] \notin Sections
      /\ Settled
  BY <1>1, Alone DEF LibInv, OnlyLast, Sections, Settled
<1>3. CASE a \in present
  <2>1. /\ ConfigRead(c, a) \in Seq(Entries)
        /\ \A k \in DOMAIN ConfigRead(c, a) : ConfigRead(c, a)[k].ctx = c
    <3>1. Plugged[a] \in Seq(BOOLEAN) /\ c \in Nat
      BY <1>0, <1>3, LibraryAssumption DEF LibInv, LibType
    <3>2. PICK n \in Nat : DOMAIN Plugged[a] = 1 .. n
      BY <3>1
    <3>3. \A k \in 1 .. n : [ctx |-> c, in |-> Plugged[a][k]] \in Entries
      BY <3>1, <3>2 DEF Entries
    <3>4. ConfigRead(c, a) = [k \in 1 .. n |-> [ctx |-> c, in |-> Plugged[a][k]]]
      BY <3>2 DEF ConfigRead
    <3> QED
      BY <3>3, <3>4
  <2>2. /\ contexts' \in Seq(LibContexts) /\ Len(contexts') = c
        /\ contexts'[c].fd /\ ~ contexts'[c].freed
        /\ \A d \in DOMAIN contexts : d \in DOMAIN contexts' /\ contexts'[d] = contexts[d]
    <3> DEFINE new == [addr |-> a, fd |-> TRUE, freed |-> FALSE]
    <3>1. new \in LibContexts /\ new.fd /\ ~ new.freed
      BY <1>3 DEF LibContexts
    <3>2. contexts' = Append(contexts, new) /\ contexts \in Seq(LibContexts)
      BY <1>1, <1>3 DEF LibInv, LibType
    <3> HIDE DEF new
    <3> QED
      BY <1>0, <3>1, <3>2
  <2>3. /\ config' \in Seq(Entries)
        /\ \A k \in DOMAIN config' : \/ config'[k].ctx = c
                                     \/ k \in DOMAIN config /\ config'[k] = config[k]
    <3> DEFINE read == ConfigRead(c, a)
    <3>1. config' = config \o read /\ config \in Seq(Entries) /\ read \in Seq(Entries)
      BY <1>1, <1>3, <2>1 DEF LibInv, LibType
    <3>2. \A k \in DOMAIN read : read[k].ctx = c
      BY <2>1
    <3> HIDE DEF read
    <3>3. config' \in Seq(Entries) /\ Len(config') = Len(config) + Len(read)
      BY <3>1
    <3>4. ASSUME NEW k \in DOMAIN config', k > Len(config)
          PROVE  config'[k] = read[k - Len(config)] /\ k - Len(config) \in DOMAIN read
      BY <3>1, <3>3, <3>4
    <3>5. ASSUME NEW k \in DOMAIN config', k <= Len(config)
          PROVE  k \in DOMAIN config /\ config'[k] = config[k]
      BY <3>1, <3>3, <3>5
    <3> QED
      BY <3>1, <3>2, <3>3, <3>4, <3>5
  <2>4. /\ list' \in [head : BOOLEAN, of : Seq(Nat)]
        /\ \A k \in DOMAIN list'.of : \/ list'.of[k] = c
                                      \/ k \in DOMAIN list.of /\ list'.of[k] = list.of[k]
    <3>1. PICK new : new = IF list.head THEN Append(list.of, c) ELSE list.of
      OBVIOUS
    <3>2. list' = [list EXCEPT !.of = new]
      BY <1>1, <1>3, <3>1 DEF LibInv, LibType, ContextAppend
    <3>3. list.of \in Seq(Nat) /\ c \in Nat
      BY <1>0 DEF LibInv, LibType
    <3>4. /\ new \in Seq(Nat)
          /\ \A k \in DOMAIN new : new[k] = c \/ (k \in DOMAIN list.of /\ new[k] = list.of[k])
      BY <3>1, <3>3
    <3>5. list' \in [head : BOOLEAN, of : Seq(Nat)] /\ list'.of = new
      BY <3>2, <3>4 DEF LibInv, LibType
    <3> QED
      BY <3>4, <3>5
  <2>5. Live(c)' /\ \A d : Live(d) => Live(d)'
    BY <1>0, <2>2 DEF Live, LibInv, LibType
  <2>6. LibType'
    BY <1>1, <2>2, <2>3, <2>4 DEF LibInv, LibType, LibContexts
  <2>7. Found'
    BY <1>2, <2>3, <2>4, <2>5 DEF LibInv, Found
  <2>8. Counts' /\ OnlyLast' /\ AtWork'
    BY <1>1, <1>2 DEF LibInv, Counts, Counted, Openings, OnlyLast, Sections, AtWork
  <2> QED
    BY <2>6, <2>7, <2>8 DEF LibInv
<1>4. CASE a \notin present
  <2>1. UNCHANGED <<contexts, config, list>>
    BY <1>1, <1>4
  <2> QED
    BY <1>1, <1>2, <2>1
    DEF LibInv, LibType, LibContexts, Counts, Counted, Openings, OnlyLast, Found, Settled, AtWork,
        Live
<1> QED
  BY <1>3, <1>4

LEMMA OpenEndHolds == ASSUME LibInv, NEW t \in Threads, OpenEnd(t) PROVE LibInv'
<1>1. /\ pc[t] \in {"opening", "opened"} /\ count' = count + 1
      /\ opens' = [opens EXCEPT ![t] = @ + 1] /\ mutex' = None /\ Return(t)
      /\ UNCHANGED <<present, config, contexts, list>>
  BY DEF OpenEnd, cfgVars
<1>2. mutex = t /\ \A u \in Threads \ {t} : pc[u] \notin Sections
  BY <1>1, Alone DEF LibInv, OnlyLast, Sections
<1>3. /\ pc'[t] = "idle"
      /\ \A u \in Threads \ {t} : pc'[u] = pc[u] /\ idx'[u] = idx[u] /\ ctx'[u] = ctx[u]
  BY <1>1 DEF LibInv, LibType, Return
<1>4. LibType'
  BY <1>1 DEF LibInv, LibType, LibContexts, Return
<1>5. Counts'
  <2>1. count >= 0
    BY <1>1 DEF LibInv, OnlyLast
  <2>2. IsFiniteSet(Openings') /\ Cardinality(Openings') = Counted + 1
    BY <1>1, CountedUp DEF LibInv
  <2> QED
    BY <1>1, <2>1, <2>2 DEF LibInv, LibType, Counts, Counted
<1>6. OnlyLast'
  BY <1>2, <1>3 DEF OnlyLast, Sections
<1>7. Found'
  BY <1>1 DEF LibInv, Found, Settled, Live
<1>8. AtWork'
  BY <1>1, <1>3 DEF LibInv, LibType, AtWork, Locking, Live
<1> QED
  BY <1>4, <1>5, <1>6, <1>7, <1>8 DEF LibInv

LEMMA CloseContextHolds == ASSUME LibInv, NEW t \in Threads, CloseContext(t) PROVE LibInv'
<1>1. /\ pc[t] = "closing" /\ UNCHANGED <<present, config, list, count, opens, mutex, pc, ctx>>
      /\ idx' = [idx EXCEPT ![t] = @ + 1]
      /\ \/ contexts' = contexts
         \/ \E c : contexts' = [contexts EXCEPT ![c].fd = FALSE]
  BY DEF CloseContext
<1>2. /\ mutex = t /\ \A u \in Threads : opens[u] = 0
      /\ \A u \in Threads \ {t} : pc[u] \notin Sections
  BY <1>1, Alone DEF LibInv, OnlyLast, Sections
<1>3. contexts' \in Seq(LibContexts)
  <2>1. CASE contexts' = contexts
    BY <1>1, <2>1 DEF LibInv, LibType
  <2>2. ASSUME NEW c, contexts' = [contexts EXCEPT ![c].fd = FALSE]
        PROVE  contexts' \in Seq(LibContexts)
    <3>1. CASE c \in DOMAIN contexts
      <4>1. PICK r : r = [contexts[c] EXCEPT !.fd = FALSE]
        OBVIOUS
      <4>2. contexts[c] \in LibContexts
        BY <3>1 DEF LibInv, LibType
      <4>3. r \in LibContexts
        BY <4>1, <4>2 DEF LibContexts
      <4>4. contexts' = [contexts EXCEPT ![c] = r]
        BY <2>2, <4>1
      <4> QED
        BY <3>1, <4>3, <4>4 DEF LibInv, LibType
    <3>2. CASE c \notin DOMAIN contexts
      <4>1. contexts \in [1 .. Len(contexts) -> LibContexts]
        BY DEF LibInv, LibType
      <4>2. /\ DOMAIN contexts' = DOMAIN contexts
            /\ \A k \in DOMAIN contexts : contexts'[k] = contexts[k]
        BY <2>2, <3>2, <4>1
      <4>3. contexts' = [k \in DOMAIN contexts |-> contexts'[k]]
        BY <2>2, <4>2
      <4>4. contexts' = contexts
        BY <4>1, <4>2, <4>3
      <4> QED
        BY <4>4 DEF LibInv, LibType
    <3> QED
      BY <3>1, <3>2
  <2> QED
    BY <1>1, <2>1, <2>2
<1>4. LibType'
  BY <1>1, <1>3 DEF LibInv, LibType, LibContexts
<1>5. Counts' /\ OnlyLast' /\ AtWork'
  BY <1>1, <1>2 DEF LibInv, Counts, Counted, Openings, OnlyLast, Sections, AtWork
<1>6. ~ Settled'
  BY <1>1, <1>2, LibraryAssumption DEF Settled, Sections
<1> QED
  BY <1>4, <1>5, <1>6 DEF LibInv, Found

LEMMA CloseConfigHolds == ASSUME LibInv, NEW t \in Threads, CloseConfig(t) PROVE LibInv'
<1>1. /\ pc[t] = "closing" /\ UNCHANGED <<present, contexts, list, count, opens, mutex, idx, ctx>>
      /\ config' = <<>> /\ Goto(t, "cleaning")
  BY DEF CloseConfig
<1>2. /\ mutex = t /\ \A u \in Threads : opens[u] = 0
      /\ \A u \in Threads \ {t} : pc[u] \notin Sections
  BY <1>1, Alone DEF LibInv, OnlyLast, Sections
<1>3. pc'[t] = "cleaning" /\ \A u \in Threads \ {t} : pc'[u] = pc[u]
  BY <1>1 DEF LibInv, LibType, Goto
<1>4. LibType'
  BY <1>1 DEF LibInv, LibType, LibContexts, Goto
<1>5. Counts' /\ OnlyLast' /\ AtWork'
  BY <1>1, <1>2, <1>3 DEF LibInv, Counts, Counted, Openings, OnlyLast, Sections, AtWork
<1>6. ~ Settled'
  BY <1>1, <1>2, <1>3, LibraryAssumption DEF Settled, Sections
<1> QED
  BY <1>4, <1>5, <1>6 DEF LibInv, Found

LEMMA CloseCleanHolds == ASSUME LibInv, NEW t \in Threads, CloseClean(t) PROVE LibInv'
<1>1. /\ pc[t] = "cleaning" /\ UNCHANGED <<present, config, count, opens, mutex, idx, ctx>>
      /\ contexts' = [c \in DOMAIN contexts |->
                          IF c \in ToSet(list.of) THEN Deleted(contexts[c]) ELSE contexts[c]]
      /\ list' = [head |-> FALSE, of |-> <<>>] /\ Goto(t, "closed")
  BY DEF CloseClean
<1>2. /\ mutex = t /\ config = <<>> /\ \A u \in Threads : opens[u] = 0
      /\ \A u \in Threads \ {t} : pc[u] \notin Sections
  BY <1>1, Alone DEF LibInv, OnlyLast, Sections
<1>3. pc'[t] = "closed" /\ \A u \in Threads \ {t} : pc'[u] = pc[u]
  BY <1>1 DEF LibInv, LibType, Goto
<1>4. contexts' \in Seq(LibContexts)
  <2>1. ASSUME NEW d \in LibContexts PROVE Deleted(d) \in LibContexts
    <3>1. PICK f \in BOOLEAN : Deleted(d) = [d EXCEPT !.fd = f, !.freed = TRUE]
      BY DEF Deleted, LibContexts
    <3> QED
      BY <3>1 DEF LibContexts
  <2>2. PICK n \in Nat : DOMAIN contexts = 1 .. n /\ contexts \in [1 .. n -> LibContexts]
    BY DEF LibInv, LibType
  <2>3. contexts' \in [1 .. n -> LibContexts]
    BY <1>1, <2>1, <2>2
  <2> QED
    BY <2>2, <2>3
<1>5. LibType'
  BY <1>1, <1>4 DEF LibInv, LibType, LibContexts, Goto
<1>6. Counts' /\ OnlyLast' /\ AtWork'
  BY <1>1, <1>2, <1>3 DEF LibInv, Counts, Counted, Openings, OnlyLast, Sections, AtWork
<1>7. Found'
  BY <1>1, <1>2 DEF Found
<1> QED
  BY <1>5, <1>6, <1>7 DEF LibInv

LEMMA CloseEndHolds == ASSUME LibInv, NEW t \in Threads, CloseEnd(t) PROVE LibInv'
<1>1. /\ pc[t] = "closed" /\ UNCHANGED <<present, config, contexts, list, count, opens>>
      /\ mutex' = None /\ Return(t)
  BY DEF CloseEnd, cfgVars
<1>2. mutex = t /\ \A u \in Threads \ {t} : pc[u] \notin Sections
  BY <1>1, Alone DEF LibInv, OnlyLast, Sections
<1>3. /\ pc'[t] = "idle"
      /\ \A u \in Threads \ {t} : pc'[u] = pc[u] /\ idx'[u] = idx[u] /\ ctx'[u] = ctx[u]
  BY <1>1 DEF LibInv, LibType, Return
<1>4. LibType' /\ Counts'
  BY <1>1 DEF LibInv, LibType, LibContexts, Counts, Counted, Openings, Return
<1>5. OnlyLast'
  BY <1>2, <1>3 DEF OnlyLast, Sections
<1>6. Found'
  BY <1>1 DEF LibInv, Found, Settled, Live
<1>7. AtWork'
  BY <1>1, <1>3 DEF LibInv, AtWork, Locking, Live
<1> QED
  BY <1>4, <1>5, <1>6, <1>7 DEF LibInv

-----------------------------------------------------------------------------
LEMMA LibStep == ASSUME LibInv, Disciplined, [LibNext]_libVars PROVE LibInv'
<1>1. CASE UNCHANGED libVars
  BY <1>1, BesideCalls DEF libVars, cfgVars, tasks, libBase
<1>2. ASSUME NEW t \in Threads, RpcSend(t) \/ RpcTimeOut(t) PROVE LibInv'
  BY <1>2, BesideCalls DEF RpcSend, RpcTimeOut, cfgVars, libBase
<1>3. ASSUME NEW a \in Addresses, Serve(a) \/ ServerDies(a) \/ OtherLocks(a) PROVE LibInv'
  BY <1>3, BesideCalls DEF Serve, ServerDies, OtherLocks, cfgVars, tasks, libBase
<1>4. ASSUME NEW t \in Threads, Step(t) PROVE LibInv'
  BY <1>2, <1>4, OpenLockHolds, OpenDriverHolds, OpenEndHolds, CloseLockHolds, CloseForceHolds,
     CloseContextHolds, CloseConfigHolds, CloseCleanHolds, CloseEndHolds, LockAllHolds,
     LockLocalHolds, RpcReturnHolds, CallResolveHolds, CallEnterHolds, CallLeaveHolds
  DEF Step
<1> QED
  BY <1>1, <1>2, <1>3, <1>4 DEF LibNext

\* While a thread has the library open, every context it works on is open and not freed
\* (meids.c, meOpen and meClose, against the tasks that lock and the calls that go on), for
\* every number of threads and devices, provided that nobody closes what others opened.
THEOREM LiveContexts == LibSpec /\ []Disciplined => []TasksUseLiveContexts
<1>1. LibInv => TasksUseLiveContexts
  <2> SUFFICES ASSUME LibInv, NEW t \in Threads, opens[t] > 0,
                      Locking(t) \/ pc[t] \in {"calling", "inside"}
               PROVE  /\ Locking(t) => idx[t] \in DOMAIN list.of
                      /\ contexts[Context(t)].fd /\ ~ contexts[Context(t)].freed
    BY DEF TasksUseLiveContexts
  <2>1. CASE Locking(t)
    <3>1. idx[t] \in DOMAIN list.of /\ Live(list.of[idx[t]])
      BY <2>1 DEF LibInv, AtWork, Found, Settled
    <3> QED
      BY <2>1, <3>1 DEF Context, Live
  <2>2. CASE ~ Locking(t)
    BY <2>2 DEF LibInv, AtWork, Context, Live
  <2> QED
    BY <2>1, <2>2
<1> QED
  BY <1>1, InitLib, LibStep, PTL DEF LibSpec

-----------------------------------------------------------------------------
(* The files follow the count, whoever closes.                             *)

FileType ==
    /\ conf \in Seq(Addresses) /\ IsInjective(conf)
    /\ present \subseteq {conf[i] : i \in DOMAIN conf}
    /\ count \in Int
    /\ DOMAIN pc = Threads /\ idx \in [Threads -> Nat]
    /\ contexts \in Seq(LibContexts)
    /\ config \in Seq(Entries)

\* A context that a device goes with, and that was not closed.
Attached(c) == contexts[c].fd /\ HasDevice(c)

\* Every entry leads to a context, and every such context is led to by an entry of a device
\* that is plugged in; those in front of `from` are done with.
Owned(from) ==
    /\ \A k \in DOMAIN config :
           /\ config[k].ctx \in DOMAIN contexts
           /\ config[k].in => HasDevice(config[k].ctx)
    /\ \A c \in DOMAIN contexts :
           Attached(c) => \E k \in DOMAIN config : k >= from /\ config[k].in /\ config[k].ctx = c

\* The configuration of the addresses A was read.
ReadIn(A) ==
    /\ Owned(1)
    /\ \A k \in DOMAIN config : config[k].in => contexts[config[k].ctx].fd
    /\ \A c, d \in DOMAIN contexts :
           Attached(c) /\ Attached(d) /\ AddressOf(c) = AddressOf(d) => c = d
    /\ \A a \in Addresses :
           Cardinality(EntriesOf(a)) = IF a \in A THEN Len(Plugged[a]) ELSE 0
    /\ \A a \in A : TRUE \in ToSet(Plugged[a]) =>
                       \E c \in DOMAIN contexts : AddressOf(c) = a /\ Attached(c)
    /\ \A c \in DOMAIN contexts : Attached(c) => AddressOf(c) \in A

NothingOpen == config = <<>> /\ \A c \in DOMAIN contexts : ~ Attached(c)
Whole       == IF count > 0 THEN ReadIn(present) ELSE NothingOpen

\* The drivers and servers that a thread has tried.
Behind(n) == {conf[i] : i \in {j \in DOMAIN conf : j < n}}

Stages ==
    /\ mutex = None => Whole
    /\ \A t \in Threads :
           /\ pc[t] \in Sections => mutex = t
           /\ pc[t] \in {"opened", "closed"} => Whole
           /\ pc[t] = "opened" => count > 0
           /\ pc[t] \in {"opening", "closing", "cleaning"} => count = 0
           /\ pc[t] = "opening" =>
                  \E n \in Nat, A \in SUBSET present :
                      n = idx[t] /\ n >= 1 /\ A = present \cap Behind(n) /\ ReadIn(A)
           /\ pc[t] = "closing" => \E n \in Nat : n = idx[t] /\ n >= 1 /\ Owned(n)
           /\ pc[t] = "cleaning" => NothingOpen

FilesInv == FileType /\ Stages

fileVars == <<conf, present, config, contexts, count, mutex>>

-----------------------------------------------------------------------------
\* What is there does not depend on the threads.
LEMMA FilesSame ==
    ASSUME UNCHANGED <<conf, present, config, contexts>>
    PROVE  /\ NothingOpen' <=> NothingOpen
           /\ \A A : ReadIn(A)' <=> ReadIn(A)
           /\ \A n : Owned(n)' <=> Owned(n)
           /\ \A n : Behind(n)' = Behind(n)
<1> USE DEF HasDevice, AddressOf
<1>1. \A c : Attached(c)' <=> Attached(c)
  BY DEF Attached
<1>2. \A n : Owned(n)' <=> Owned(n)
  BY <1>1 DEF Owned
<1>3. \A a : EntriesOf(a)' = EntriesOf(a)
  BY DEF EntriesOf
<1>4. \A A : ReadIn(A)' <=> ReadIn(A)
  BY <1>1, <1>2, <1>3 DEF ReadIn
<1> QED
  BY <1>1, <1>2, <1>4 DEF NothingOpen, Behind

\* A thread goes on in a call other than meOpen() and meClose().
LEMMA FilesBeside ==
    ASSUME FilesInv, UNCHANGED fileVars,
           DOMAIN pc' = Threads, idx' \in [Threads -> Nat],
           \A u \in Threads : \/ pc'[u] = pc[u] /\ idx'[u] = idx[u]
                              \/ pc'[u] \notin Sections
    PROVE  FilesInv'
<1>1. FileType'
  BY DEF FilesInv, FileType, fileVars, LibContexts
<1>2. Whole' <=> Whole
  BY FilesSame DEF Whole, fileVars
<1>3. mutex' = None => Whole'
  BY <1>2 DEF FilesInv, Stages, fileVars
<1>4. ASSUME NEW t \in Threads
      PROVE  /\ pc'[t] \in Sections => mutex' = t
             /\ pc'[t] \in {"opened", "closed"} => Whole'
             /\ pc'[t] = "opened" => count' > 0
             /\ pc'[t] \in {"opening", "closing", "cleaning"} => count' = 0
             /\ pc'[t] = "opening" =>
                    \E n \in Nat, A \in SUBSET present' :
                        n = idx'[t] /\ n >= 1 /\ A = present' \cap Behind(n)' /\ ReadIn(A)'
             /\ pc'[t] = "closing" => \E n \in Nat : n = idx'[t] /\ n >= 1 /\ Owned(n)'
             /\ pc'[t] = "cleaning" => NothingOpen'
  <2>1. CASE pc'[t] \notin Sections
    BY <2>1 DEF Sections
  <2>2. CASE pc'[t] = pc[t] /\ idx'[t] = idx[t]
    <3>1. present' = present /\ \A n : Behind(n)' = Behind(n)
      BY FilesSame DEF fileVars
    <3>2. \A A : ReadIn(A) => ReadIn(A)'
      BY FilesSame DEF fileVars
    <3>3. (\A n : Owned(n) => Owned(n)') /\ (NothingOpen => NothingOpen')
      BY FilesSame DEF fileVars
    <3> QED
      BY <1>2, <2>2, <3>1, <3>2, <3>3 DEF FilesInv, Stages, fileVars
  <2> QED
    BY <2>1, <2>2
<1> QED
  BY <1>1, <1>3, <1>4 DEF FilesInv, Stages

LEMMA FilesAside ==
    ASSUME FilesInv, NEW t \in Threads,
           \/ LockAll(t) \/ LockLocal(t) \/ RpcSend(t) \/ RpcReturn(t) \/ RpcTimeOut(t)
           \/ CallResolve(t) \/ CallEnter(t) \/ CallLeave(t)
    PROVE  FilesInv'
<1>1. UNCHANGED fileVars
  BY DEF LockAll, LockLocal, RpcSend, RpcReturn, RpcTimeOut, CallResolve, CallEnter, CallLeave,
         cfgVars, fileVars
<1>2. FileType
  BY DEF FilesInv
<1>3. CASE UNCHANGED <<pc, idx>>
  BY <1>1, <1>2, <1>3, FilesBeside DEF FileType
<1>4. CASE Return(t)
  BY <1>1, <1>2, <1>4, FilesBeside DEF FileType, Return, Sections
<1>5. ASSUME NEW l \in {"checking", "locking", "undoing", "calling", "inside"}, Goto(t, l),
             idx' = [idx EXCEPT ![t] = 1] \/ idx' = idx
      PROVE  FilesInv'
  BY <1>1, <1>2, <1>5, FilesBeside DEF FileType, Goto, Sections
<1>6. CASE Locking(t) /\ pc' = pc /\ idx' = [idx EXCEPT ![t] = @ + 1]
  BY <1>1, <1>2, <1>6, FilesBeside DEF FileType, Locking, Sections
<1>7. ASSUME NEW failed, Locking(t), LockNext(t, failed) PROVE FilesInv'
  BY <1>4, <1>5, <1>6, <1>7 DEF LockNext
<1>8. CASE LockAll(t)
  BY <1>4, <1>5, <1>8 DEF LockAll
<1>9. CASE LockLocal(t)
  BY <1>7, <1>9 DEF LockLocal
<1>10. CASE RpcSend(t) \/ RpcTimeOut(t)
  BY <1>3, <1>10 DEF RpcSend, RpcTimeOut
<1>11. CASE RpcReturn(t)
  BY <1>4, <1>7, <1>11 DEF RpcReturn
<1>12. CASE CallResolve(t)
  BY <1>4, <1>5, <1>12 DEF CallResolve
<1>13. CASE CallEnter(t) \/ CallLeave(t)
  BY <1>4, <1>5, <1>13 DEF CallEnter, CallLeave
<1> QED
  BY <1>8, <1>9, <1>10, <1>11, <1>12, <1>13

LEMMA FilesServed ==
    ASSUME FilesInv, NEW a \in Addresses, Serve(a) \/ ServerDies(a) \/ OtherLocks(a)
    PROVE  FilesInv'
<1>1. UNCHANGED fileVars /\ UNCHANGED <<pc, idx>>
  BY DEF Serve, ServerDies, OtherLocks, cfgVars, tasks, fileVars
<1> QED
  BY <1>1, FilesBeside DEF FilesInv, FileType

\* The holder of the mutex goes to l, from where it may be inspected alone.
LEMMA FilesSection ==
    ASSUME FilesInv, FileType', NEW t \in Threads, mutex \in {t, None},
           NEW l, pc'[t] = l, \A u \in Threads \ {t} : pc'[u] = pc[u],
           mutex' = IF l \in Sections THEN t ELSE None,
           \A u \in Threads \ {t} : idx'[u] = idx[u],
           l \in {"idle", "opened", "closed"} => Whole',
           l = "opened" => count' > 0,
           l \in {"opening", "closing", "cleaning"} => count' = 0,
           l = "opening" =>
               \E n \in Nat, A \in SUBSET present' :
                   n = idx'[t] /\ n >= 1 /\ A = present' \cap Behind(n)' /\ ReadIn(A)',
           l = "closing" => \E n \in Nat : n = idx'[t] /\ n >= 1 /\ Owned(n)',
           l = "cleaning" => NothingOpen',
           l \in Sections \cup {"idle"}
    PROVE  FilesInv'
<1>1. pc'[t] = l /\ \A u \in Threads \ {t} : pc'[u] = pc[u] /\ pc[u] \notin Sections
  BY LibraryAssumption DEF FilesInv, FileType, Stages
<1>2. mutex' = None => Whole'
  BY LibraryAssumption
<1>3. ASSUME NEW u \in Threads
      PROVE  /\ pc'[u] \in Sections => mutex' = u
             /\ pc'[u] \in {"opened", "closed"} => Whole'
             /\ pc'[u] = "opened" => count' > 0
             /\ pc'[u] \in {"opening", "closing", "cleaning"} => count' = 0
             /\ pc'[u] = "opening" =>
                    \E n \in Nat, A \in SUBSET present' :
                        n = idx'[u] /\ n >= 1 /\ A = present' \cap Behind(n)' /\ ReadIn(A)'
             /\ pc'[u] = "closing" => \E n \in Nat : n = idx'[u] /\ n >= 1 /\ Owned(n)'
             /\ pc'[u] = "cleaning" => NothingOpen'
  <2>1. CASE u = t
    BY <1>1, <2>1
  <2>2. CASE u # t
    BY <1>1, <2>2 DEF Sections
  <2> QED
    BY <2>1, <2>2
<1> QED
  BY <1>2, <1>3 DEF FilesInv, Stages

-----------------------------------------------------------------------------
LEMMA Joined ==
    ASSUME NEW S, NEW s \in Seq(S), NEW r \in Seq(S), NEW q, q = s \o r
    PROVE  /\ q \in Seq(S) /\ Len(q) = Len(s) + Len(r)
           /\ DOMAIN q = 1 .. (Len(s) + Len(r))
           /\ \A k \in 1 .. Len(s) : q[k] = s[k]
           /\ \A k \in (Len(s) + 1) .. (Len(s) + Len(r)) : q[k] = r[k - Len(s)]
  OBVIOUS

\* One more driver or server was opened and its devices were read.
LEMMA ReadOn ==
    ASSUME FileType, NEW A, NEW a \in Addresses, a \notin A, ReadIn(A),
           NEW c, c = Len(contexts) + 1,
           contexts' = Append(contexts, [addr |-> a, fd |-> TRUE, freed |-> FALSE]),
           config' = config \o ConfigRead(c, a), a \in present
    PROVE  ReadIn(A \cup {a})' /\ contexts' \in Seq(LibContexts) /\ config' \in Seq(Entries)
<1>0. PICK L, P : L = Len(config) /\ P = Len(Plugged[a])
  OBVIOUS
<1>1. /\ Plugged[a] \in Seq(BOOLEAN) /\ P \in Nat /\ L \in Nat /\ c \in Nat
      /\ DOMAIN Plugged[a] = 1 .. P /\ DOMAIN config = 1 .. L
  BY <1>0, LibraryAssumption DEF FileType
<1>2. /\ contexts' \in Seq(LibContexts) /\ DOMAIN contexts' = DOMAIN contexts \cup {c}
      /\ c \notin DOMAIN contexts
      /\ contexts'[c].addr = a /\ contexts'[c].fd
      /\ \A d \in DOMAIN contexts : contexts'[d] = contexts[d]
  <2>1. PICK new : new = [addr |-> a, fd |-> TRUE, freed |-> FALSE]
    OBVIOUS
  <2>2. new \in LibContexts /\ new.addr = a /\ new.fd
    BY <2>1 DEF LibContexts
  <2> QED
    BY <2>1, <2>2 DEF FileType
<1>3. /\ config' \in Seq(Entries) /\ DOMAIN config' = 1 .. (L + P)
      /\ \A k \in 1 .. L : config'[k] = config[k]
      /\ \A k \in (L + 1) .. (L + P) : config'[k].ctx = c /\ config'[k].in = Plugged[a][k - L]
  <2>1. PICK read : read = ConfigRead(c, a)
    OBVIOUS
  <2>2. \A k \in 1 .. P : [ctx |-> c, in |-> Plugged[a][k]] \in Entries
    BY <1>1 DEF Entries
  <2>3. read = [k \in 1 .. P |-> [ctx |-> c, in |-> Plugged[a][k]]]
    BY <1>1, <2>1 DEF ConfigRead
  <2>4. read \in Seq(Entries) /\ Len(read) = P
        /\ \A k \in 1 .. P : read[k].ctx = c /\ read[k].in = Plugged[a][k]
    BY <1>1, <2>2, <2>3
  <2>5. config \in Seq(Entries) /\ config' = config \o read /\ Len(config) = L
    BY <1>0, <2>1 DEF FileType, ConfigJoin
  <2>6. PICK q : q = config'
    OBVIOUS
  <2>9. /\ q \in Seq(Entries)
        /\ DOMAIN q = 1 .. (Len(config) + Len(read))
        /\ \A k \in 1 .. Len(config) : q[k] = config[k]
        /\ \A k \in (Len(config) + 1) .. (Len(config) + Len(read)) : q[k] = read[k - Len(config)]
    <3>1. q = config \o read
      BY <2>5, <2>6
    <3> HIDE <2>6
    <3> QED
      BY <2>4, <2>5, <3>1, Joined
  <2>7. /\ config' \in Seq(Entries) /\ DOMAIN config' = 1 .. (L + P)
        /\ \A k \in 1 .. L : config'[k] = config[k]
        /\ \A k \in (L + 1) .. (L + P) : config'[k] = read[k - L]
    BY <2>4, <2>5, <2>6, <2>9
  <2>8. \A k \in (L + 1) .. (L + P) : k - L \in 1 .. P
    BY <1>1
  <2>10. \A k \in (L + 1) .. (L + P) : config'[k].ctx = c /\ config'[k].in = Plugged[a][k - L]
    <3> SUFFICES ASSUME NEW k \in (L + 1) .. (L + P)
                 PROVE  config'[k].ctx = c /\ config'[k].in = Plugged[a][k - L]
      OBVIOUS
    <3>1. PICK j \in 1 .. P : j = k - L
      BY <2>8
    <3>2. config'[k] = read[j]
      BY <2>7, <3>1
    <3> QED
      BY <2>4, <3>1, <3>2
  <2> QED
    BY <2>7, <2>10
<1>4. /\ \A d \in DOMAIN contexts : (AddressOf(d))' = AddressOf(d) /\ (Attached(d))' = Attached(d)
      /\ (AddressOf(c))' = a /\ ((Attached(c))' <=> TRUE \in ToSet(Plugged[a]))
      /\ \A d \in DOMAIN contexts : (HasDevice(d))' <=> HasDevice(d)
      /\ (HasDevice(c))' <=> TRUE \in ToSet(Plugged[a])
  BY <1>2 DEF AddressOf, Attached, HasDevice
<1>5. ASSUME NEW k \in (L + 1) .. (L + P), config'[k].in PROVE TRUE \in ToSet(Plugged[a])
  <2>1. k - L \in 1 .. P
    BY <1>1
  <2>2. PICK j \in 1 .. P : j = k - L
    BY <2>1
  <2>3. Plugged[a][j] \in BOOLEAN /\ Plugged[a][j]
    BY <1>1, <1>3, <1>5, <2>2
  <2>4. Plugged[a][j] = TRUE
    BY <2>3
  <2> QED
    BY <1>1, <2>4 DEF ToSet
<1>6. \A k \in 1 .. L :
          /\ config'[k] = config[k] /\ config[k].ctx \in DOMAIN contexts
          /\ contexts'[config'[k].ctx] = contexts[config[k].ctx]
          /\ config[k].in => HasDevice(config[k].ctx) /\ contexts[config[k].ctx].fd
  <2> SUFFICES ASSUME NEW k \in 1 .. L
               PROVE  /\ config'[k] = config[k] /\ config[k].ctx \in DOMAIN contexts
                      /\ contexts'[config'[k].ctx] = contexts[config[k].ctx]
                      /\ config[k].in => HasDevice(config[k].ctx) /\ contexts[config[k].ctx].fd
    OBVIOUS
  <2>1. config'[k] = config[k] /\ k \in DOMAIN config
    BY <1>1, <1>3
  <2>2. config[k].ctx \in DOMAIN contexts
    BY <2>1 DEF ReadIn, Owned
  <2>3. config[k].in => HasDevice(config[k].ctx) /\ contexts[config[k].ctx].fd
    BY <2>1 DEF ReadIn, Owned
  <2> QED
    BY <1>2, <2>1, <2>2, <2>3
<1>7. \A k \in (L + 1) .. (L + P) :
          /\ config'[k].ctx = c /\ contexts'[config'[k].ctx].addr = a /\ contexts'[config'[k].ctx].fd
  BY <1>2, <1>3
<1>13. DOMAIN config' = (1 .. L) \cup ((L + 1) .. (L + P))
  BY <1>1, <1>3
<1>14. Owned(1)'
  <2>1. ASSUME NEW k \in DOMAIN config'
        PROVE  config'[k].ctx \in DOMAIN contexts' /\ (config'[k].in => HasDevice(config[k].ctx)')
    <3>1. CASE k \in 1 .. L
      <4>1. HasDevice(config[k].ctx)' <=> HasDevice(config[k].ctx)
        BY <1>6, <3>1 DEF HasDevice, AddressOf
      <4> QED
        BY <1>2, <1>6, <3>1, <4>1
    <3>2. CASE k \in (L + 1) .. (L + P)
      <4>1. HasDevice(config[k].ctx)' <=> TRUE \in ToSet(Plugged[a])
        BY <1>7, <3>2 DEF HasDevice, AddressOf
      <4>2. config'[k].in => HasDevice(config[k].ctx)'
        BY <1>5, <3>2, <4>1
      <4> QED
        BY <1>2, <1>7, <3>2, <4>2
    <3> QED
      BY <1>13, <2>1, <3>1, <3>2
  <2>2. ASSUME NEW d \in DOMAIN contexts', (Attached(d))'
        PROVE  \E k \in DOMAIN config' : k >= 1 /\ config'[k].in /\ config'[k].ctx = d
    <3>1. CASE d = c
      <4>1. PICK j \in 1 .. P : Plugged[a][j] = TRUE
        BY <1>1, <1>4, <2>2, <3>1 DEF ToSet
      <4>2. PICK k : k = L + j
        OBVIOUS
      <4>3. k \in (L + 1) .. (L + P) /\ k - L = j /\ k \in 1 .. (L + P) /\ k >= 1
        BY <1>1, <4>2
      <4>4. config'[k].in = Plugged[a][j] /\ config'[k].ctx = c
        BY <1>3, <4>3
      <4>5. config'[k].in
        BY <4>1, <4>4
      <4> QED
        BY <1>3, <3>1, <4>3, <4>4, <4>5
    <3>2. CASE d \in DOMAIN contexts
      <4>1. PICK k \in DOMAIN config : k >= 1 /\ config[k].in /\ config[k].ctx = d
        BY <1>4, <2>2, <3>2 DEF ReadIn, Owned
      <4> QED
        BY <1>1, <1>3, <4>1
    <3> QED
      BY <1>2, <2>2, <3>1, <3>2
  <2> QED
    BY <2>1, <2>2 DEF Owned
<1>15. \A k \in DOMAIN config' : config'[k].in => contexts'[config'[k].ctx].fd
  BY <1>6, <1>7, <1>13
<1>8. \A d, e \in DOMAIN contexts' :
          (Attached(d))' /\ (Attached(e))' /\ (AddressOf(d))' = (AddressOf(e))' => d = e
  <2>1. \A d \in DOMAIN contexts : (Attached(d))' => (AddressOf(d))' \in A
    BY <1>4 DEF ReadIn
  <2>2. \A d, e \in DOMAIN contexts :
            (Attached(d))' /\ (Attached(e))' /\ (AddressOf(d))' = (AddressOf(e))' => d = e
    BY <1>4 DEF ReadIn
  <2> QED
    BY <1>2, <1>4, <2>1, <2>2
<1>9. ASSUME NEW b \in Addresses
      PROVE  Cardinality((EntriesOf(b))') = IF b \in A \cup {a} THEN Len(Plugged[b]) ELSE 0
  <2>2. CASE b # a
    <3>1. (EntriesOf(b))' = EntriesOf(b)
      <4>1. ASSUME NEW k \in DOMAIN config', contexts'[config'[k].ctx].addr = b
            PROVE  k \in DOMAIN config /\ contexts[config[k].ctx].addr = b
        <5>1. k \in 1 .. L
          BY <1>7, <1>13, <2>2, <4>1
        <5> QED
          BY <1>1, <1>6, <4>1, <5>1
      <4>2. ASSUME NEW k \in DOMAIN config, contexts[config[k].ctx].addr = b
            PROVE  k \in DOMAIN config' /\ contexts'[config'[k].ctx].addr = b
        <5>1. k \in 1 .. L
          BY <1>1
        <5> QED
          BY <1>6, <1>13, <4>2, <5>1
      <4> QED
        BY <4>1, <4>2 DEF EntriesOf, AddressOf
    <3> QED
      BY <2>2, <3>1 DEF ReadIn
  <2>3. CASE b = a
    <3>1. EntriesOf(a) = {}
      <4>1. IsFiniteSet(EntriesOf(a))
        <5>1. EntriesOf(a) \subseteq 1 .. L /\ IsFiniteSet(1 .. L)
          BY <1>1, <1>3, FS_Interval DEF EntriesOf
        <5> QED
          BY <5>1, FS_Subset
      <4> QED
        BY <4>1, FS_EmptySet DEF ReadIn
    <3>2. \A k \in 1 .. L : contexts[config[k].ctx].addr # a
      BY <1>1, <3>1 DEF EntriesOf, AddressOf
    <3>3. (EntriesOf(a))' = (L + 1) .. (L + P)
      <4>1. \A k \in 1 .. L : contexts'[config'[k].ctx].addr # a
        BY <1>6, <3>2
      <4> QED
        BY <1>7, <1>13, <4>1 DEF EntriesOf, AddressOf
    <3>4. Cardinality((L + 1) .. (L + P)) = P
      <4>1. L + 1 \in Int /\ L + P \in Int /\ (L + 1 > L + P => P = 0)
        BY <1>1
      <4>2. Cardinality((L + 1) .. (L + P)) = IF L + 1 > L + P THEN 0 ELSE (L + P) - (L + 1) + 1
        BY <4>1, FS_Interval
      <4> QED
        BY <1>1, <4>1, <4>2
    <3> QED
      BY <1>0, <2>3, <3>3, <3>4
  <2> QED
    BY <2>2, <2>3
<1>10. \A b \in A \cup {a} :
           TRUE \in ToSet(Plugged[b]) =>
               \E d \in DOMAIN contexts' : (AddressOf(d))' = b /\ (Attached(d))'
  BY <1>2, <1>4 DEF ReadIn
<1>11. \A d \in DOMAIN contexts' : (Attached(d))' => (AddressOf(d))' \in A \cup {a}
  BY <1>2, <1>4 DEF ReadIn
<1>12. (ReadIn(A \cup {a}))'
  BY <1>8, <1>9, <1>10, <1>11, <1>14, <1>15 DEF ReadIn
<1> QED
  BY <1>2, <1>3, <1>12

-----------------------------------------------------------------------------
LEMMA NothingThere ==
    ASSUME FileType, NothingOpen
    PROVE  Owned(1) /\ ReadIn({})
<1>1. config = <<>> /\ DOMAIN config = {}
  BY DEF NothingOpen
<1>2. \A a \in Addresses : EntriesOf(a) = {}
  BY <1>1 DEF EntriesOf
<1>3. Owned(1)
  BY <1>1 DEF NothingOpen, Owned
<1> QED
  BY <1>1, <1>2, <1>3, FS_EmptySet DEF NothingOpen, ReadIn

LEMMA OpenLockFiles == ASSUME FilesInv, NEW t \in Threads, OpenLock(t) PROVE FilesInv'
<1> USE DEF OpenLock, cfgVars
<1>1. FileType'
  BY DEF FilesInv, FileType, Goto, Calling, Counted, LibContexts
<1>2. /\ NothingOpen' <=> NothingOpen
      /\ \A A : ReadIn(A)' <=> ReadIn(A)
      /\ \A n : Behind(n)' = Behind(n)
  BY FilesSame
<1>3. Whole /\ mutex = None /\ mutex' = t /\ count \in Int
  BY DEF FilesInv, FileType, Stages
<1>4. CASE Counted = 0
  <2>1. count <= 0 /\ count' = 0
    BY <1>3, <1>4 DEF Counted
  <2>2. NothingOpen
    BY <1>3, <2>1 DEF Whole
  <2>3. ReadIn({})'
    BY <1>2, <2>2, NothingThere DEF FilesInv
  <2>4. Behind(1)' = {} /\ idx'[t] = 1
    BY DEF FilesInv, FileType, Behind
  <2>5. \E n \in Nat, A \in SUBSET present' :
            n = idx'[t] /\ n >= 1 /\ A = present' \cap Behind(n)' /\ ReadIn(A)'
    BY <2>3, <2>4
  <2>6. PICK l : l = "opening"
    OBVIOUS
  <2>7. pc'[t] = l /\ (\A u \in Threads \ {t} : pc'[u] = pc[u]) /\ l \in Sections
    BY <1>4, <2>6 DEF FilesInv, FileType, Goto, Sections
  <2>8. \A u \in Threads \ {t} : idx'[u] = idx[u]
    BY DEF FilesInv, FileType
  <2> QED
    BY <1>1, <1>3, <2>1, <2>5, <2>6, <2>7, <2>8, FilesSection
<1>5. CASE Counted # 0
  <2>1. count > 0 /\ count' = count
    BY <1>3, <1>5 DEF Counted
  <2>2. Whole'
    BY <1>2, <1>3, <2>1 DEF Whole
  <2>6. PICK l : l = "opened"
    OBVIOUS
  <2>7. pc'[t] = l /\ (\A u \in Threads \ {t} : pc'[u] = pc[u]) /\ l \in Sections
    BY <1>5, <2>6 DEF FilesInv, FileType, Goto, Sections
  <2>8. \A u \in Threads \ {t} : idx'[u] = idx[u]
    BY DEF FilesInv, FileType
  <2> QED
    BY <1>1, <1>3, <2>1, <2>2, <2>6, <2>7, <2>8, FilesSection
<1> QED
  BY <1>4, <1>5

LEMMA OpenDriverFiles == ASSUME FilesInv, NEW t \in Threads, OpenDriver(t) PROVE FilesInv'
<1> USE DEF OpenDriver
<1>1. PICK n \in Nat, A \in SUBSET present :
          n = idx[t] /\ n >= 1 /\ A = present \cap Behind(n) /\ ReadIn(A)
  BY DEF FilesInv, Stages
<1>2. FileType /\ n <= Len(conf) /\ n \in DOMAIN conf /\ mutex = t /\ count = 0
  BY <1>1 DEF FilesInv, FileType, Stages, Sections
<1>3. PICK a \in Addresses : a = conf[n]
  BY <1>2 DEF FileType
<1>4. /\ UNCHANGED <<conf, present, count, mutex, pc>>
      /\ idx' \in [Threads -> Nat] /\ idx'[t] = n + 1
      /\ \A u \in Threads \ {t} : idx'[u] = idx[u]
  BY <1>1, <1>2 DEF FileType
<1>5. \A m : Behind(m)' = Behind(m)
  BY <1>4 DEF Behind
<1>6. a \notin Behind(n) /\ Behind(n + 1) = Behind(n) \cup {a}
  <2>1. \A j \in DOMAIN conf : j \in Nat /\ (j < n + 1 <=> j < n \/ j = n)
    BY <1>1, <1>2 DEF FileType
  <2>2. \A j \in DOMAIN conf : conf[j] = a => j = n
    BY <1>2, <1>3 DEF FileType, IsInjective
  <2> QED
    BY <1>2, <1>3, <2>1, <2>2 DEF Behind
<1>7. FileType' /\ \E B \in SUBSET present' : B = present' \cap Behind(n + 1)' /\ ReadIn(B)'
  <2>1. CASE a \in present
    <3>1. PICK c : c = Len(contexts) + 1
      OBVIOUS
    <3>2. /\ contexts' = Append(contexts, [addr |-> a, fd |-> TRUE, freed |-> FALSE])
          /\ config' = config \o ConfigRead(c, a)
      BY <1>1, <1>3, <2>1, <3>1 DEF ConfigJoin
    <3>3. a \notin A
      BY <1>1, <1>6
    <3>4. ReadIn(A \cup {a})' /\ contexts' \in Seq(LibContexts) /\ config' \in Seq(Entries)
      BY <1>1, <1>2, <2>1, <3>1, <3>2, <3>3, ReadOn
    <3>5. FileType'
      BY <1>2, <1>4, <3>4 DEF FileType, LibContexts
    <3>6. A \cup {a} = present' \cap Behind(n + 1)'
      BY <1>1, <1>4, <1>5, <1>6, <2>1
    <3> QED
      BY <1>4, <3>4, <3>5, <3>6
  <2>2. CASE a \notin present
    <3>1. UNCHANGED <<contexts, config>>
      BY <1>1, <1>3, <2>2
    <3>2. FileType'
      BY <1>2, <1>4, <3>1 DEF FileType, LibContexts
    <3>3. ReadIn(A)'
      BY <1>1, <1>4, <3>1, FilesSame
    <3>4. A = present' \cap Behind(n + 1)'
      BY <1>1, <1>4, <1>5, <1>6, <2>2
    <3> QED
      BY <1>4, <3>2, <3>3, <3>4
  <2> QED
    BY <2>1, <2>2
<1>8. \E m \in Nat, B \in SUBSET present' :
          m = idx'[t] /\ m >= 1 /\ B = present' \cap Behind(m)' /\ ReadIn(B)'
  BY <1>1, <1>4, <1>7
<1>9. PICK l : l = "opening"
  OBVIOUS
<1>10. pc'[t] = l /\ (\A u \in Threads \ {t} : pc'[u] = pc[u]) /\ l \in Sections
  BY <1>4, <1>9 DEF FilesInv, FileType, Sections
<1>11. mutex' = IF l \in Sections THEN t ELSE None
  BY <1>2, <1>4, <1>10
<1> QED
  BY <1>2, <1>4, <1>7, <1>8, <1>9, <1>10, <1>11, FilesSection

LEMMA OpenEndFiles == ASSUME FilesInv, NEW t \in Threads, OpenEnd(t) PROVE FilesInv'
<1> USE DEF OpenEnd, cfgVars
<1>1. /\ mutex = t /\ mutex' = None /\ count' = count + 1 /\ count \in Int
      /\ UNCHANGED <<conf, present, config, contexts>>
  BY DEF FilesInv, FileType, Stages, Sections
<1>2. FileType'
  BY DEF FilesInv, FileType, Return, LibContexts
<1>3. \A A : ReadIn(A)' <=> ReadIn(A)
  BY <1>1, FilesSame
<1>4. count' > 0 /\ ReadIn(present)
  <2>1. CASE pc[t] = "opened"
    BY <1>1, <2>1 DEF FilesInv, Stages, Whole
  <2>2. CASE pc[t] = "opening" /\ idx[t] > Len(conf)
    <3>1. PICK n \in Nat, A \in SUBSET present :
              n = idx[t] /\ n >= 1 /\ A = present \cap Behind(n) /\ ReadIn(A)
      BY <2>2 DEF FilesInv, Stages
    <3>2. \A j \in DOMAIN conf : j < n
      BY <2>2, <3>1 DEF FilesInv, FileType
    <3>3. A = present
      BY <3>1, <3>2 DEF FilesInv, FileType, Behind
    <3>4. count = 0
      BY <2>2 DEF FilesInv, Stages
    <3>5. ReadIn(present)
      BY <3>1, <3>3
    <3> QED
      BY <1>1, <3>4, <3>5
  <2> QED
    BY <2>1, <2>2
<1>5. Whole'
  BY <1>1, <1>3, <1>4 DEF Whole
<1>6. PICK l : l = "idle"
  OBVIOUS
<1>7. pc'[t] = l /\ (\A u \in Threads \ {t} : pc'[u] = pc[u]) /\ l \notin Sections
  BY <1>6 DEF FilesInv, FileType, Return, Sections
<1>8. \A u \in Threads \ {t} : idx'[u] = idx[u]
  BY DEF FilesInv, FileType, Return
<1> QED
  BY <1>1, <1>2, <1>5, <1>6, <1>7, <1>8, FilesSection

LEMMA CloseLockFiles == ASSUME FilesInv, NEW t \in Threads, CloseLock(t) PROVE FilesInv'
<1> USE DEF CloseLock, cfgVars
<1>1. FileType'
  BY DEF FilesInv, FileType, Goto, Calling, Counted, LibContexts
<1>2. /\ NothingOpen' <=> NothingOpen
      /\ \A A : ReadIn(A)' <=> ReadIn(A)
      /\ \A n : Owned(n)' <=> Owned(n)
  BY FilesSame
<1>3. Whole /\ mutex = None /\ mutex' = t /\ count \in Int
  BY DEF FilesInv, FileType, Stages
<1>4. idx'[t] = 1 /\ \A u \in Threads \ {t} : idx'[u] = idx[u]
  BY DEF FilesInv, FileType
<1>5. CASE Counted - 1 = 0
  <2>1. count = 1 /\ count' = 0
    BY <1>3, <1>5 DEF Counted
  <2>2. Owned(1)'
    BY <1>2, <1>3, <2>1 DEF Whole, ReadIn
  <2>3. \E n \in Nat : n = idx'[t] /\ n >= 1 /\ Owned(n)'
    BY <1>4, <2>2
  <2>6. PICK l : l = "closing"
    OBVIOUS
  <2>7. pc'[t] = l /\ (\A u \in Threads \ {t} : pc'[u] = pc[u]) /\ l \in Sections
    BY <1>5, <2>6 DEF FilesInv, FileType, Goto, Sections
  <2> QED
    BY <1>1, <1>3, <1>4, <2>1, <2>3, <2>6, <2>7, FilesSection
<1>6. CASE Counted - 1 # 0
  <2>1. \/ count > 0 /\ count' > 0
        \/ count <= 0 /\ count' <= 0
    <3>1. count' = Counted - 1
      OBVIOUS
    <3> HIDE DEF CloseLock
    <3>4. count \in Int
      BY <1>3
    <3>2. CASE count < 0
      BY <1>3, <3>1, <3>2 DEF Counted
    <3>3. CASE count >= 0
      <4>1. Counted = count /\ count # 1
        BY <1>6, <3>3, <3>4 DEF Counted
      <4>2. count' = count - 1
        BY <3>1, <4>1
      <4> QED
        BY <3>3, <3>4, <4>1, <4>2
    <3> QED
      BY <1>3, <3>2, <3>3
  <2>2. Whole'
    BY <1>2, <1>3, <2>1, <1>1 DEF Whole, FileType
  <2>6. PICK l : l = "closed"
    OBVIOUS
  <2>7. pc'[t] = l /\ (\A u \in Threads \ {t} : pc'[u] = pc[u]) /\ l \in Sections
    BY <1>6, <2>6 DEF FilesInv, FileType, Goto, Sections
  <2> QED
    BY <1>1, <1>3, <1>4, <2>2, <2>6, <2>7, FilesSection
<1> QED
  BY <1>5, <1>6

LEMMA CloseForceFiles == ASSUME FilesInv, NEW t \in Threads, CloseForce(t) PROVE FilesInv'
<1> USE DEF CloseForce, cfgVars
<1>1. FileType'
  <2>1. /\ UNCHANGED <<conf, present, config, contexts>> /\ count' = 0
        /\ pc' = [pc EXCEPT ![t] = "closing"] /\ idx' = [idx EXCEPT ![t] = 1]
    BY DEF Goto
  <2> HIDE DEF CloseForce
  <2> QED
    BY <2>1 DEF FilesInv, FileType, LibContexts
<1>2. \A n : Owned(n)' <=> Owned(n)
  BY FilesSame
<1>3. Whole /\ mutex = None /\ mutex' = t /\ count' = 0
  BY DEF FilesInv, Stages
<1>4. idx'[t] = 1 /\ \A u \in Threads \ {t} : idx'[u] = idx[u]
  BY DEF FilesInv, FileType
<1>5. Owned(1)
  BY <1>3, NothingThere DEF FilesInv, Whole, ReadIn
<1>6. \E n \in Nat : n = idx'[t] /\ n >= 1 /\ Owned(n)'
  <2>1. Owned(1)'
    BY <1>2, <1>5
  <2>2. 1 \in Nat /\ idx'[t] = 1
    BY <1>4
  <2> HIDE DEF CloseForce
  <2> QED
    BY <2>1, <2>2
<1>7. PICK l : l = "closing"
  OBVIOUS
<1>8. pc'[t] = l /\ (\A u \in Threads \ {t} : pc'[u] = pc[u]) /\ l \in Sections
  BY <1>7 DEF FilesInv, FileType, Goto, Sections
<1> QED
  BY <1>1, <1>3, <1>4, <1>6, <1>7, <1>8, FilesSection

LEMMA CloseContextFiles == ASSUME FilesInv, NEW t \in Threads, CloseContext(t) PROVE FilesInv'
<1> USE DEF CloseContext
<1>1. PICK n \in Nat : n = idx[t] /\ n >= 1 /\ Owned(n)
  BY DEF FilesInv, Stages
<1>2. FileType /\ n <= Len(config) /\ n \in DOMAIN config /\ mutex = t /\ count = 0
  BY <1>1 DEF FilesInv, FileType, Stages, Sections
<1>3. PICK c : c = config[n].ctx
  OBVIOUS
<1>4. c \in DOMAIN contexts
  BY <1>1, <1>2, <1>3 DEF Owned
<1>5. /\ UNCHANGED <<conf, present, config, count, mutex, pc>>
      /\ idx' \in [Threads -> Nat] /\ idx'[t] = n + 1
      /\ \A u \in Threads \ {t} : idx'[u] = idx[u]
  BY <1>1, <1>2 DEF FileType
<1>6. /\ contexts' \in Seq(LibContexts) /\ DOMAIN contexts' = DOMAIN contexts
      /\ \A d \in DOMAIN contexts :
             /\ contexts'[d].addr = contexts[d].addr
             /\ contexts'[d].fd => contexts[d].fd
      /\ config[n].in => ~ contexts'[c].fd
  <2>1. CASE config[n].in
    <3>1. contexts' = [contexts EXCEPT ![c].fd = FALSE]
      BY <1>1, <1>3, <2>1
    <3>2. contexts \in Seq(LibContexts)
      BY <1>2 DEF FileType
    <3>3. PICK old \in LibContexts : old = contexts[c]
      BY <1>4, <3>2
    <3>4. PICK new : new = [old EXCEPT !.fd = FALSE]
      OBVIOUS
    <3>5. new \in LibContexts /\ new.addr = old.addr /\ ~ new.fd
      BY <3>4 DEF LibContexts
    <3>6. PICK q : q = contexts'
      OBVIOUS
    <3>7. q = [contexts EXCEPT ![c] = new]
      BY <3>1, <3>3, <3>4, <3>6
    <3>8. /\ q \in Seq(LibContexts) /\ DOMAIN q = DOMAIN contexts /\ q[c] = new
          /\ \A d \in DOMAIN contexts : d # c => q[d] = contexts[d]
      <4> HIDE <3>6 DEF CloseContext
      <4> QED
        BY <1>4, <3>2, <3>5, <3>7
    <3>9. \A d \in DOMAIN contexts : q[d].addr = contexts[d].addr /\ (q[d].fd => contexts[d].fd)
      BY <3>3, <3>5, <3>8
    <3> QED
      BY <3>5, <3>6, <3>8, <3>9
  <2>2. CASE ~ config[n].in
    BY <1>1, <1>2, <2>2 DEF FileType
  <2> QED
    BY <2>1, <2>2
<1>7. FileType'
  <2> HIDE DEF CloseContext
  <2> QED
    BY <1>2, <1>5, <1>6 DEF FileType, LibContexts
<1>8. Owned(n + 1)'
  <2>1. \A d \in DOMAIN contexts :
            /\ HasDevice(d)' <=> HasDevice(d)
            /\ Attached(d)' => Attached(d)
    BY <1>6 DEF HasDevice, AddressOf, Attached
  <2>2. ASSUME NEW k \in DOMAIN config'
        PROVE  config'[k].ctx \in DOMAIN contexts' /\ (config'[k].in => HasDevice(config[k].ctx)')
    <3>1. config[k].ctx \in DOMAIN contexts /\ (config[k].in => HasDevice(config[k].ctx))
      BY <1>1, <1>5, <2>2 DEF Owned
    <3>2. HasDevice(config[k].ctx)' <=> HasDevice(config[k].ctx)
      BY <1>5, <1>6, <3>1 DEF HasDevice, AddressOf
    <3> QED
      BY <1>5, <1>6, <3>1, <3>2
  <2>3. ASSUME NEW d \in DOMAIN contexts', Attached(d)'
        PROVE  \E k \in DOMAIN config' : k >= n + 1 /\ config'[k].in /\ config'[k].ctx = d
    <3>1. d \in DOMAIN contexts /\ Attached(d)
      BY <1>6, <2>1, <2>3
    <3>2. PICK k \in DOMAIN config : k >= n /\ config[k].in /\ config[k].ctx = d
      BY <1>1, <3>1 DEF Owned
    <3>3. k # n
      BY <1>3, <1>6, <2>3, <3>2 DEF Attached
    <3>4. k >= n + 1
      BY <1>1, <1>2, <3>2, <3>3 DEF FileType
    <3> QED
      BY <1>5, <3>2, <3>4
  <2> QED
    BY <2>2, <2>3 DEF Owned
<1>9. \E m \in Nat : m = idx'[t] /\ m >= 1 /\ Owned(m)'
  BY <1>1, <1>5, <1>8
<1>10. PICK l : l = "closing"
  OBVIOUS
<1>11. pc'[t] = l /\ (\A u \in Threads \ {t} : pc'[u] = pc[u]) /\ l \in Sections
  BY <1>2, <1>5, <1>10 DEF FilesInv, FileType, Sections
<1>12. mutex' = IF l \in Sections THEN t ELSE None
  BY <1>2, <1>5, <1>11
<1> QED
  BY <1>2, <1>5, <1>7, <1>9, <1>10, <1>11, <1>12, FilesSection

LEMMA CloseConfigFiles == ASSUME FilesInv, NEW t \in Threads, CloseConfig(t) PROVE FilesInv'
<1> USE DEF CloseConfig, Goto
<1>1. PICK n \in Nat : n = idx[t] /\ n >= 1 /\ Owned(n)
  BY DEF FilesInv, Stages
<1>2. FileType /\ n > Len(config) /\ mutex = t /\ count = 0
  BY <1>1 DEF FilesInv, Stages, Sections
<1>3. \A c \in DOMAIN contexts : ~ Attached(c)
  BY <1>1, <1>2 DEF FileType, Owned
<1>4. config' = <<>> /\ UNCHANGED <<conf, present, contexts, count, mutex, idx>>
  OBVIOUS
<1>5. NothingOpen'
  BY <1>3, <1>4 DEF NothingOpen, Attached, HasDevice, AddressOf
<1>6. FileType'
  BY <1>2, <1>4 DEF FileType, LibContexts
<1>7. PICK l : l = "cleaning"
  OBVIOUS
<1>8. pc'[t] = l /\ (\A u \in Threads \ {t} : pc'[u] = pc[u]) /\ l \in Sections
  BY <1>7 DEF FilesInv, FileType, Sections
<1>9. mutex' = IF l \in Sections THEN t ELSE None
  BY <1>2, <1>4, <1>8
<1> QED
  BY <1>2, <1>4, <1>5, <1>6, <1>7, <1>8, <1>9, FilesSection

LEMMA CloseCleanFiles == ASSUME FilesInv, NEW t \in Threads, CloseClean(t) PROVE FilesInv'
<1> USE DEF CloseClean, Goto
<1>1. FileType /\ NothingOpen /\ mutex = t /\ count = 0
  BY DEF FilesInv, Stages, Sections
<1>2. UNCHANGED <<conf, present, config, count, mutex, idx>>
  OBVIOUS
<1>3. /\ contexts' \in Seq(LibContexts) /\ DOMAIN contexts' = DOMAIN contexts
      /\ \A d \in DOMAIN contexts :
             /\ contexts'[d].addr = contexts[d].addr
             /\ contexts'[d].fd => contexts[d].fd
  <2>1. contexts \in Seq(LibContexts)
    BY <1>1 DEF FileType
  <2>2. ASSUME NEW c \in LibContexts
        PROVE  Deleted(c) \in LibContexts /\ Deleted(c).addr = c.addr /\ (Deleted(c).fd => c.fd)
    BY DEF LibContexts, Deleted
  <2>3. DOMAIN contexts' = DOMAIN contexts
    OBVIOUS
  <2>4. ASSUME NEW d \in DOMAIN contexts
        PROVE  /\ contexts'[d] \in LibContexts
               /\ contexts'[d].addr = contexts[d].addr
               /\ contexts'[d].fd => contexts[d].fd
    <3>1. contexts[d] \in LibContexts
      BY <2>1
    <3>2. contexts'[d] = IF d \in ToSet(list.of) THEN Deleted(contexts[d]) ELSE contexts[d]
      OBVIOUS
    <3> QED
      BY <2>2, <3>1, <3>2
  <2>5. \E s : s = contexts'
    OBVIOUS
  <2>6. contexts' \in Seq(LibContexts)
    <3>1. Len(contexts) \in Nat /\ DOMAIN contexts = 1 .. Len(contexts)
      BY <2>1
    <3>2. contexts' = [d \in 1 .. Len(contexts) |-> contexts'[d]]
      BY <3>1
    <3> QED
      BY <2>4, <3>1, <3>2
  <2> QED
    BY <2>3, <2>4, <2>6
<1>4. NothingOpen'
  BY <1>1, <1>2, <1>3 DEF NothingOpen, Attached, HasDevice, AddressOf
<1>5. FileType'
  BY <1>1, <1>2, <1>3 DEF FileType, LibContexts
<1>6. Whole'
  BY <1>1, <1>2, <1>4 DEF Whole
<1>7. PICK l : l = "closed"
  OBVIOUS
<1>8. pc'[t] = l /\ (\A u \in Threads \ {t} : pc'[u] = pc[u]) /\ l \in Sections
  BY <1>7 DEF FilesInv, FileType, Sections
<1>9. mutex' = IF l \in Sections THEN t ELSE None
  BY <1>1, <1>2, <1>8
<1> QED
  BY <1>1, <1>2, <1>5, <1>6, <1>7, <1>8, <1>9, FilesSection

LEMMA CloseEndFiles == ASSUME FilesInv, NEW t \in Threads, CloseEnd(t) PROVE FilesInv'
<1> USE DEF CloseEnd, cfgVars
<1>1. mutex = t /\ mutex' = None /\ Whole /\ UNCHANGED <<conf, present, config, contexts, count>>
  BY DEF FilesInv, Stages, Sections
<1>2. FileType'
  BY <1>1 DEF FilesInv, FileType, Return, LibContexts
<1>3. Whole'
  <2>1. NothingOpen' <=> NothingOpen
    BY <1>1, FilesSame
  <2>2. ReadIn(present)' <=> ReadIn(present)
    BY <1>1, FilesSame
  <2> QED
    BY <1>1, <2>1, <2>2 DEF Whole
<1>4. PICK l : l = "idle"
  OBVIOUS
<1>5. pc'[t] = l /\ (\A u \in Threads \ {t} : pc'[u] = pc[u]) /\ l \notin Sections
  BY <1>4 DEF FilesInv, FileType, Return, Sections
<1>6. \A u \in Threads \ {t} : idx'[u] = idx[u]
  BY DEF FilesInv, FileType, Return
<1> QED
  BY <1>1, <1>2, <1>3, <1>4, <1>5, <1>6, FilesSection

LEMMA InitFiles == LibInit => FilesInv
<1> SUFFICES ASSUME LibInit PROVE FilesInv
  OBVIOUS
<1>1. PICK A \in SUBSET Addresses : conf \in SetToSeqs(A)
  BY DEF LibInit
<1>2. IsFiniteSet(A)
  BY LibraryAssumption, FS_Subset
<1>3. conf \in Seq(A) /\ IsInjective(conf)
  BY <1>1, <1>2, SetAsSequence
<1>4. conf \in Seq(Addresses)
  BY <1>3
<1>5. present \subseteq {conf[i] : i \in DOMAIN conf}
  BY DEF LibInit, ToSet
<1>6. FileType
  BY <1>3, <1>4, <1>5 DEF LibInit, FileType
<1>7. Whole
  BY DEF LibInit, Whole, NothingOpen
<1>8. Stages
  BY <1>7 DEF LibInit, Stages, Sections
<1> QED
  BY <1>6, <1>8 DEF FilesInv

LEMMA FilesStep == FilesInv /\ [LibNext]_libVars => FilesInv'
<1> SUFFICES ASSUME FilesInv, [LibNext]_libVars PROVE FilesInv'
  OBVIOUS
<1>1. ASSUME NEW t \in Threads, Step(t) \/ RpcTimeOut(t) PROVE FilesInv'
  BY <1>1, OpenLockFiles, OpenDriverFiles, OpenEndFiles, CloseLockFiles, CloseForceFiles,
     CloseContextFiles, CloseConfigFiles, CloseCleanFiles, CloseEndFiles, FilesAside DEF Step
<1>2. ASSUME NEW a \in Addresses, Serve(a) \/ ServerDies(a) \/ OtherLocks(a) PROVE FilesInv'
  BY <1>2, FilesServed
<1>3. CASE UNCHANGED libVars
  <2>1. UNCHANGED fileVars /\ UNCHANGED <<pc, idx>>
    BY <1>3 DEF libVars, cfgVars, tasks, fileVars
  <2> QED
    BY <2>1, FilesBeside DEF FilesInv, FileType
<1> QED
  BY <1>1, <1>2, <1>3 DEF LibNext

LEMMA FilesFollow == FilesInv => FilesFollowCount
<1> SUFFICES ASSUME FilesInv, mutex = None
             PROVE  /\ \A a \in Addresses : Cardinality(Open(a)) <= 1
                    /\ count <= 0 => config = <<>> /\ \A a \in Addresses : Open(a) = {}
                    /\ count > 0 =>
                           /\ \A a \in present : TRUE \in ToSet(Plugged[a]) => Open(a) # {}
                           /\ \A a \in Addresses :
                                  Cardinality(EntriesOf(a)) =
                                      IF a \in present THEN Len(Plugged[a]) ELSE 0
                           /\ \A k \in DOMAIN config :
                                  config[k].in => config[k].ctx \in Open(AddressOf(config[k].ctx))
  BY DEF FilesFollowCount
<1>1. Whole /\ count \in Int
  BY DEF FilesInv, FileType, Stages
<1>2. CASE count <= 0
  <2>1. NothingOpen
    BY <1>1, <1>2 DEF Whole
  <2>2. \A a \in Addresses : Open(a) = {}
    BY <2>1 DEF NothingOpen, Open, Attached
  <2>3. \A a \in Addresses : Cardinality(Open(a)) <= 1
    BY <2>2, FS_EmptySet
  <2>4. ~ (count > 0) /\ config = <<>>
    BY <1>1, <1>2, <2>1 DEF NothingOpen
  <2> QED
    BY <2>2, <2>3, <2>4
<1>3. CASE count > 0
  <2>1. ReadIn(present)
    BY <1>1, <1>3 DEF Whole
  <2>2. ASSUME NEW a \in Addresses PROVE Cardinality(Open(a)) <= 1
    <3>1. \A c, d \in Open(a) : c = d
      BY <2>1 DEF ReadIn, Open, Attached
    <3>2. Open(a) = {} \/ \E c : Open(a) = {c}
      BY <3>1
    <3>3. CASE Open(a) = {}
      <4>1. Cardinality(Open(a)) = 0
        BY <3>3, FS_EmptySet
      <4> QED
        BY <4>1
    <3>4. ASSUME NEW c, Open(a) = {c} PROVE Cardinality(Open(a)) <= 1
      <4>1. Cardinality({c}) = 1
        BY FS_Singleton
      <4> QED
        BY <4>1, <3>4
    <3> QED
      BY <3>2, <3>3, <3>4
  <2>3. \A a \in present : TRUE \in ToSet(Plugged[a]) => Open(a) # {}
    BY <2>1 DEF ReadIn, Open, Attached
  <2>4. \A k \in DOMAIN config :
            config[k].in => config[k].ctx \in Open(AddressOf(config[k].ctx))
    BY <2>1 DEF ReadIn, Owned, Open
  <2>5. ~ (count <= 0)
    BY <1>1, <1>3
  <2>6. \A a \in Addresses :
            Cardinality(EntriesOf(a)) = IF a \in present THEN Len(Plugged[a]) ELSE 0
    BY <2>1 DEF ReadIn
  <2> QED
    BY <2>2, <2>3, <2>4, <2>5, <2>6
<1>4. count <= 0 \/ count > 0
  BY <1>1
<1> QED
  BY <1>2, <1>3, <1>4

\* Between two calls of meOpen() and meClose(), by whichever threads and in whatever order,
\* every driver and server that was found is open once and has its entries while the library
\* is open, and none is when it is not (ME_Open(), ME_Close(), Close_Local(), Close_RPC()).
THEOREM FilesHold == LibSpec => []FilesFollowCount
<1>1. FilesInv /\ [LibNext]_libVars => FilesInv'
  BY FilesStep
<1>2. FilesInv => FilesFollowCount
  BY FilesFollow
<1> QED
  BY <1>1, <1>2, InitFiles, PTL DEF LibSpec

-----------------------------------------------------------------------------
(* The lock of all drivers.                                                *)

\* What the theorem needs: while a thread works on the locks no other one does, and none
\* opens the drivers.
LockersApart ==
    \A t \in Threads : Locking(t) =>
        \A u \in Threads \ {t} : ~ Locking(u) /\ pc[u] # "opening"

\* Nothing has happened that excuses a lock that is left, and nobody is closing.
Calm   == list.head /\ ~ stuck /\ broken = {}
Steady == Calm /\ \A t \in Threads : pc[t] \notin {"closing", "cleaning"}

Hows     == {"set", "force set", "release", "check"}
Locks    == {"free", "us", "forced", "other"}
Requests == [op : {"set", "release", "check", "call"}, from : Threads \cup {None}, force : BOOLEAN]
            \cup [op : {"close"}, from : {None}]
LockType ==
    /\ lock \in [Addresses -> Locks]
    /\ inbox \in [Addresses -> Seq(Requests)]
    /\ rpc \in [Addresses -> Threads \cup {None}]
    /\ reply \in [Threads -> {"none", "sent", "ok", "error"}]
    /\ \A t \in Threads : Locking(t) => how[t] \in Hows
    /\ DOMAIN how = Threads /\ DOMAIN ctx = Threads
    /\ list \in [head : BOOLEAN, of : Seq(Nat)]
    /\ ~ list.head => list.of = <<>>

\* Whoever closes waits for nobody.
Closer(t) == pc[t] \in {"closing", "cleaning"} =>
                 /\ reply[t] = "none"
                 /\ \A a \in Addresses : \A k \in DOMAIN inbox[a] : inbox[a][k].from # t

\* The list has every context, each of an address of its own; those made so far are of the
\* drivers behind the thread that opens.
Listed ==
    /\ DOMAIN list.of = DOMAIN contexts /\ \A k \in DOMAIN list.of : list.of[k] = k
    /\ \A c, d \in DOMAIN contexts : AddressOf(c) = AddressOf(d) => c = d
    /\ \A t \in Threads :
           pc[t] = "opening" => \A c \in DOMAIN contexts : AddressOf(c) \in Behind(idx[t])
    /\ count <= 0 /\ (\A t \in Threads : pc[t] # "opening") => contexts = <<>>
    /\ \A t \in Threads : /\ Locking(t) => idx[t] \in DOMAIN list.of
                          /\ pc[t] = "calling" => ctx[t] \in DOMAIN contexts
    /\ \A k \in DOMAIN config : config[k].ctx \in DOMAIN contexts

\* Nothing is locked or asked where nothing was opened.
Unlisted ==
    \A a \in Addresses :
        /\ a \notin Servers => inbox[a] = <<>>
        /\ (\A c \in DOMAIN contexts : AddressOf(c) # a) => ~ Ours(a) /\ inbox[a] = <<>>

\* Whoever waits for a server has the mutex of the context and sent the last request.
Own(t) == AddressOf(Context(t))
Waits(t) ==
    /\ reply[t] # "none" => /\ Locking(t) \/ pc[t] = "calling"
                            /\ OfServer(Context(t)) /\ rpc[Own(t)] = t
    /\ reply[t] = "sent" => LET q == inbox[Own(t)] IN
                            Len(q) > 0 /\ q[Len(q)].op = Op(t) /\ q[Len(q)].from = t
Asked == \A a \in Addresses : \A k \in DOMAIN inbox[a] : \A u \in Threads :
             inbox[a][k].from = u => reply[u] = "sent" /\ a = Own(u) /\ k = Len(inbox[a])
NoClose == \A a \in Addresses : \A k \in DOMAIN inbox[a] : inbox[a][k].op # "close"
Link == Asked /\ NoClose /\ \A t \in Threads : Waits(t)

\* Locked and to stay so; free, or to be so when its server has worked off the requests.
No(op, q)    == \A k \in DOMAIN q : q[k].op # op
Releases(q)  == \E k \in DOMAIN q : q[k].op = "release"
                                    /\ \A j \in DOMAIN q : j > k => q[j].op # "set"
Kept(a)      == Ours(a) /\ No("release", inbox[a])
Freed(a)     == (~ Ours(a) /\ No("set", inbox[a])) \/ Releases(inbox[a])

At(k)        == AddressOf(list.of[k])
KeptFrom(n)  == \A k \in DOMAIN list.of : k >= n => Kept(At(k))
KeptTo(n)    == \A k \in DOMAIN list.of : k < n => Kept(At(k))
FreedFrom(n) == \A k \in DOMAIN list.of : k >= n => Freed(At(k))
FreedTo(n)   == \A k \in DOMAIN list.of : k < n => Freed(At(k))
OneWay(n)    == KeptFrom(n) \/ FreedFrom(n)

\* How far the loops of ME_LockAll() have come.
Checks(t)   == pc[t] = "checking" \/ (pc[t] = "locking" /\ how[t] = "check")
Takes(t)    == pc[t] = "locking" /\ Sets(t)
Undoes(t)   == pc[t] = "undoing"
Drops(t)    == pc[t] = "locking" /\ how[t] = "release"
LastRelease(q) == \A k \in DOMAIN q : k < Len(q) => q[k].op # "release"
Phase(t) ==
    /\ Checks(t) => OneWay(1)
    /\ pc[t] = "checking" => how[t] \in {"set", "release"}
    /\ Takes(t) => KeptTo(idx[t]) /\ (reply[t] = "ok" => Kept(Own(t)))
    /\ Undoes(t) => Sets(t) /\ FreedTo(idx[t]) /\ (reply[t] # "none" => Freed(Own(t)))
    /\ Drops(t) =>
           /\ FreedTo(idx[t])
           /\ reply[t] = "none" => OneWay(idx[t])
           /\ reply[t] # "none" => Freed(Own(t)) /\ OneWay(idx[t] + 1)
           /\ reply[t] = "sent" =>
                  \/ FreedFrom(idx[t] + 1)
                  \/ Ours(Own(t)) /\ LastRelease(inbox[Own(t)])
           /\ reply[t] = "error" => FreedFrom(idx[t] + 1)

\* Between two calls of meLockDriver() all are locked or none; while they are opened, none.
Between == /\ (\A t \in Threads : ~ Locking(t)) => OneWay(1)
           /\ \A t \in Threads : pc[t] = "opening" => FreedFrom(1)

LockFacts == /\ Listed /\ Unlisted /\ Link
             /\ Between /\ \A t \in Threads : Phase(t)

LockInv == /\ FilesInv /\ LockType
           /\ Steady => LockFacts
           /\ Calm => \A t \in Threads : Closer(t)

\* What is kept or freed before a step is so after it.
Holds == \A a \in Addresses : (Kept(a) => Kept(a)') /\ (Freed(a) => Freed(a)')

-----------------------------------------------------------------------------
\* The queue of a server without its first request, and with one more.
LEMMA Queues ==
    ASSUME NEW S, NEW q \in Seq(S)
    PROVE  /\ q # <<>> => /\ Tail(q) \in Seq(S) /\ DOMAIN Tail(q) = 1 .. (Len(q) - 1)
                          /\ Head(q) = q[1] /\ 1 \in DOMAIN q
                          /\ Len(Tail(q)) = Len(q) - 1 /\ Len(q) \in Nat /\ Len(q) >= 1
                          /\ \A k \in 1 .. (Len(q) - 1) : Tail(q)[k] = q[k + 1]
           /\ \A r \in S : /\ Append(q, r) \in Seq(S)
                           /\ DOMAIN Append(q, r) = 1 .. (Len(q) + 1)
                           /\ Len(Append(q, r)) = Len(q) + 1 /\ Len(q) \in Nat
                           /\ Append(q, r)[Len(q) + 1] = r
                           /\ \A k \in 1 .. Len(q) : Append(q, r)[k] = q[k]
           /\ DOMAIN q = 1 .. Len(q) /\ Len(q) \in Nat
  OBVIOUS

\* A request that was done leaves the others.
LEMMA Served ==
    ASSUME NEW S, NEW q \in Seq(S), q # <<>>
    PROVE  /\ \A op : No(op, q) => No(op, Tail(q)) /\ Head(q).op # op
           /\ Releases(q) => \/ Head(q).op = "release" /\ No("set", Tail(q))
                             \/ Releases(Tail(q))
<1>1. ASSUME NEW op, No(op, q) PROVE No(op, Tail(q)) /\ Head(q).op # op
  BY <1>1, Queues DEF No
<1>2. ASSUME Releases(q)
      PROVE  (Head(q).op = "release" /\ No("set", Tail(q))) \/ Releases(Tail(q))
  <2>1. PICK k \in DOMAIN q : q[k].op = "release" /\ \A j \in DOMAIN q : j > k => q[j].op # "set"
    BY <1>2 DEF Releases
  <2>2. CASE k = 1
    BY <2>1, <2>2, Queues DEF No
  <2>3. CASE k # 1
    <3>1. k \in Nat /\ k >= 1 /\ k - 1 \in DOMAIN Tail(q) /\ Tail(q)[k - 1].op = "release"
      BY <2>1, <2>3, Queues
    <3>2. \A j \in DOMAIN Tail(q) : j > k - 1 => Tail(q)[j].op # "set"
      BY <2>1, <3>1, Queues
    <3> QED
      BY <3>1, <3>2 DEF Releases
  <2> QED
    BY <2>2, <2>3
<1> QED
  BY <1>1, <1>2

\* A new request is the last one.
LEMMA Asking ==
    ASSUME NEW S, NEW q \in Seq(S), NEW r \in S
    PROVE  /\ \A op : No(op, q) /\ r.op # op => No(op, Append(q, r))
           /\ Releases(q) /\ r.op # "set" => Releases(Append(q, r))
           /\ r.op = "release" => Releases(Append(q, r))
           /\ No("release", q) => LastRelease(Append(q, r))
<1>1. ASSUME NEW op, No(op, q), r.op # op PROVE No(op, Append(q, r))
  BY <1>1, Queues DEF No
<1>2. ASSUME Releases(q), r.op # "set" PROVE Releases(Append(q, r))
  <2>1. PICK k \in DOMAIN q : q[k].op = "release" /\ \A j \in DOMAIN q : j > k => q[j].op # "set"
    BY <1>2 DEF Releases
  <2>2. k \in DOMAIN Append(q, r) /\ Append(q, r)[k].op = "release"
    BY <2>1, Queues
  <2>3. \A j \in DOMAIN Append(q, r) : j > k => Append(q, r)[j].op # "set"
    BY <1>2, <2>1, Queues
  <2> QED
    BY <2>2, <2>3 DEF Releases
<1>3. ASSUME r.op = "release" PROVE Releases(Append(q, r))
  <2>1. Len(q) + 1 \in DOMAIN Append(q, r) /\ Append(q, r)[Len(q) + 1].op = "release"
    BY <1>3, Queues
  <2>2. \A j \in DOMAIN Append(q, r) : ~ (j > Len(q) + 1)
    BY Queues
  <2> QED
    BY <2>1, <2>2 DEF Releases
<1>4. ASSUME No("release", q) PROVE LastRelease(Append(q, r))
  BY <1>4, Queues DEF No, LastRelease
<1> QED
  BY <1>1, <1>2, <1>3, <1>4

-----------------------------------------------------------------------------
\* The list leads to addresses, each once.
LEMMA Apart ==
    ASSUME FileType, Listed
    PROVE  /\ \A c \in DOMAIN contexts : AddressOf(c) \in Addresses
           /\ \A k \in DOMAIN list.of : k \in DOMAIN contexts /\ list.of[k] = k
                                       /\ At(k) \in Addresses /\ At(k) = AddressOf(k)
           /\ \A j, k \in DOMAIN list.of : At(j) = At(k) => j = k
<1>1. present \subseteq Addresses
  BY DEF FileType
<1>2. ASSUME NEW c \in DOMAIN contexts PROVE AddressOf(c) \in Addresses
  <2>1. contexts[c] \in LibContexts
    BY DEF FileType
  <2> QED
    BY <1>1, <2>1 DEF LibContexts, AddressOf
<1> QED
  BY <1>2 DEF Listed, At

\* What is kept and freed in the list stays so.
LEMMA Ways ==
    ASSUME FileType, Listed, Holds, UNCHANGED <<contexts, list>>
    PROVE  /\ \A k \in DOMAIN list.of : At(k)' = At(k)
           /\ \A n : /\ KeptFrom(n) => KeptFrom(n)'
                     /\ KeptTo(n) => KeptTo(n)'
                     /\ FreedFrom(n) => FreedFrom(n)'
                     /\ FreedTo(n) => FreedTo(n)'
                     /\ OneWay(n) => OneWay(n)'
<1>1. \A k \in DOMAIN list.of : At(k)' = At(k) /\ At(k) \in Addresses
  BY Apart DEF At, AddressOf
<1>2. \A k \in DOMAIN list.of : (Kept(At(k)) => Kept(At(k))') /\ (Freed(At(k)) => Freed(At(k))')
  <2>1. \A k \in DOMAIN list.of : \A a : a = At(k) =>
                (Kept(At(k))' <=> Kept(a)') /\ (Freed(At(k))' <=> Freed(a)')
    BY <1>1 DEF Kept, Freed, Ours
  <2> QED
    BY <1>1, <2>1 DEF Holds
<1>3. \A n : KeptFrom(n) => KeptFrom(n)'
  BY <1>2 DEF KeptFrom
<1>4. \A n : KeptTo(n) => KeptTo(n)'
  BY <1>2 DEF KeptTo
<1>5. \A n : FreedFrom(n) => FreedFrom(n)'
  BY <1>2 DEF FreedFrom
<1>6. \A n : FreedTo(n) => FreedTo(n)'
  BY <1>2 DEF FreedTo
<1> QED
  BY <1>1, <1>3, <1>4, <1>5, <1>6 DEF OneWay

-----------------------------------------------------------------------------
\* A thread that works on the locks and is not at it in this step.
LEMMA PhaseKept ==
    ASSUME FileType, Listed, Holds, UNCHANGED <<contexts, list>>,
           NEW u \in Threads, Phase(u), Locking(u) => idx[u] \in DOMAIN list.of,
           how'[u] = how[u], pc'[u] = pc[u], idx'[u] = idx[u], reply'[u] = reply[u],
           reply[u] = "sent" /\ Ours(Own(u)) /\ LastRelease(inbox[Own(u)]) =>
               (Ours(Own(u)) /\ LastRelease(inbox[Own(u)]))'
    PROVE  Phase(u)'
<1> DEFINE w == idx[u]
<1>1. /\ \A n : KeptTo(n) => KeptTo(n)'
      /\ \A n : FreedFrom(n) => FreedFrom(n)'
      /\ \A n : FreedTo(n) => FreedTo(n)'
      /\ \A n : OneWay(n) => OneWay(n)'
  BY Ways
<1>2. Locking(u) => Own(u)' = Own(u) /\ Own(u) \in Addresses
  BY Apart DEF Own, Context, Locking, AddressOf, At
<1>3. \A a \in Addresses : a = Own(u) /\ Own(u)' = Own(u) =>
          (Kept(Own(u))' <=> Kept(a)') /\ (Freed(Own(u))' <=> Freed(a)')
  BY DEF Kept, Freed, Ours
<1>4. Locking(u) => /\ Kept(Own(u)) => Kept(Own(u))'
                    /\ Freed(Own(u)) => Freed(Own(u))'
  BY <1>2, <1>3 DEF Holds
<1>5. \A n : n = idx[u] => /\ KeptTo(n)' <=> KeptTo(idx[u])'
                           /\ FreedTo(n)' <=> FreedTo(idx[u])'
                           /\ OneWay(n)' <=> OneWay(idx[u])'
                           /\ OneWay(n + 1)' <=> OneWay(idx[u] + 1)'
                           /\ FreedFrom(n + 1)' <=> FreedFrom(idx[u] + 1)'
  BY DEF KeptTo, FreedTo, OneWay, FreedFrom, KeptFrom
<1>6. /\ KeptTo(idx[u]) => KeptTo(idx[u])'
      /\ FreedTo(idx[u]) => FreedTo(idx[u])'
      /\ OneWay(idx[u]) => OneWay(idx[u])'
      /\ OneWay(idx[u] + 1) => OneWay(idx[u] + 1)'
      /\ FreedFrom(idx[u] + 1) => FreedFrom(idx[u] + 1)'
  BY <1>1, <1>5
<1>7. Checks(u)' <=> Checks(u)
  BY DEF Checks
<1>8. Takes(u)' <=> Takes(u)
  BY DEF Takes, Sets
<1>9. (Undoes(u)' <=> Undoes(u)) /\ (Sets(u)' <=> Sets(u))
  BY DEF Undoes, Sets
<1>10. Drops(u)' <=> Drops(u)
  BY DEF Drops
<1>11. Takes(u) \/ Undoes(u) \/ Drops(u) => Locking(u)
  BY DEF Takes, Undoes, Drops, Locking
<1>12. Checks(u)' => OneWay(1)'
  BY <1>1, <1>7 DEF Phase
<1>13. (pc[u] = "checking" => how[u] \in {"set", "release"})'
  BY DEF Phase
<1>14. (Takes(u) => KeptTo(idx[u]) /\ (reply[u] = "ok" => Kept(Own(u))))'
  BY <1>4, <1>6, <1>8, <1>11 DEF Phase
<1>15. (Undoes(u) => Sets(u) /\ FreedTo(idx[u]) /\ (reply[u] # "none" => Freed(Own(u))))'
  BY <1>4, <1>6, <1>9, <1>11 DEF Phase
<1>16. (Drops(u) =>
           /\ FreedTo(idx[u])
           /\ reply[u] = "none" => OneWay(idx[u])
           /\ reply[u] # "none" => Freed(Own(u)) /\ OneWay(idx[u] + 1)
           /\ reply[u] = "sent" =>
                  \/ FreedFrom(idx[u] + 1)
                  \/ Ours(Own(u)) /\ LastRelease(inbox[Own(u)])
           /\ reply[u] = "error" => FreedFrom(idx[u] + 1))'
  BY <1>4, <1>6, <1>10, <1>11 DEF Phase
<1> QED
  BY <1>12, <1>13, <1>14, <1>15, <1>16 DEF Phase

\* Whoever does not work on the locks is nowhere in the loops.
LEMMA PhaseNone ==
    ASSUME NEW u \in Threads
    PROVE  /\ ~ Locking(u) => Phase(u)
           /\ ~ Locking(u)' => Phase(u)'
BY DEF Phase, Locking, Checks, Takes, Undoes, Drops

\* Where the loops of ME_LockAll() go.
GoesOn(t)    == pc' = pc /\ idx' = [idx EXCEPT ![t] = @ + 1]
Starts(t, l) == Goto(t, l) /\ idx' = [idx EXCEPT ![t] = 1]
LEMMA LoopWays ==
    ASSUME NEW t, NEW failed, LockNext(t, failed)
    PROVE  \/ /\ Return(t)
              /\ \/ pc[t] # "undoing" /\ failed /\ ~ Sets(t)
                 \/ (pc[t] # "undoing" => ~ failed) /\ idx[t] = Len(list.of) /\ pc[t] # "checking"
           \/ Starts(t, "undoing") /\ Sets(t)
           \/ Starts(t, "locking") /\ pc[t] = "checking"
           \/ GoesOn(t) /\ (pc[t] # "undoing" => ~ failed) /\ idx[t] # Len(list.of)
BY Zenon DEF LockNext, GoesOn, Starts

\* What a step of a loop has done when it goes on.
Done(t, n, failed) ==
    /\ Checks(t) => OneWay(1)'
    /\ Takes(t) /\ ~ failed => KeptTo(n + 1)'
    /\ Undoes(t) => Sets(t) /\ FreedTo(n + 1)'
    /\ Drops(t) => FreedTo(n + 1)' /\ OneWay(n + 1)' /\ (failed => FreedFrom(n + 1)')
\* It is in one of them.
LEMMA InOneLoop ==
    ASSUME NEW t, Locking(t), how[t] \in Hows
    PROVE  \/ Checks(t) /\ ~ Takes(t) /\ ~ Undoes(t) /\ ~ Drops(t)
           \/ Takes(t) /\ ~ Checks(t) /\ ~ Undoes(t) /\ ~ Drops(t)
           \/ Undoes(t) /\ ~ Checks(t) /\ ~ Takes(t) /\ ~ Drops(t)
           \/ Drops(t) /\ ~ Checks(t) /\ ~ Takes(t) /\ ~ Undoes(t)
<1>1. CASE pc[t] = "checking"
  <2>1. pc[t] # "locking" /\ pc[t] # "undoing"
    BY <1>1
  <2> QED
    BY <1>1, <2>1, Zenon DEF Checks, Takes, Undoes, Drops
<1>2. CASE pc[t] = "undoing"
  BY <1>2 DEF Checks, Takes, Undoes, Drops, Sets
<1>3. CASE pc[t] = "locking"
  BY <1>3 DEF Checks, Takes, Undoes, Drops, Sets, Hows
<1> QED
  BY <1>1, <1>2, <1>3 DEF Locking

\* The loops of ME_LockAll() go on.
LEMMA LoopGoesOn ==
    ASSUME FileType, UNCHANGED <<contexts, list>>, list.of \in Seq(Nat), DOMAIN how = Threads,
           NEW t \in Threads, NEW failed \in BOOLEAN, Locking(t), how' = how, reply'[t] = "none",
           NEW n \in Nat, n = idx[t], n \in DOMAIN list.of, how[t] \in Hows,
           pc[t] = "checking" => how[t] \in {"set", "release"},
           LockNext(t, failed), Done(t, n, failed)
    PROVE  Phase(t)' /\ (~ Locking(t)' => OneWay(1)')
<1>1. /\ DOMAIN list.of = 1 .. Len(list.of) /\ Len(list.of) \in Nat /\ list' = list
      /\ DOMAIN pc = Threads /\ DOMAIN idx = Threads
  <2>1. list' = list /\ DOMAIN pc = Threads /\ idx \in [Threads -> Nat]
    BY DEF FileType
  <2> QED
    BY <2>1
<1>2. /\ KeptTo(1)' /\ FreedTo(1)'
      /\ n = Len(list.of) /\ KeptTo(n + 1)' => KeptFrom(1)'
      /\ n = Len(list.of) /\ FreedTo(n + 1)' => FreedFrom(1)'
      /\ FreedTo(n + 1)' /\ FreedFrom(n + 1)' => FreedFrom(1)'
  <2>1. \A k \in DOMAIN list'.of : k \in Nat /\ k >= 1 /\ k <= Len(list.of)
    BY <1>1
  <2>2. KeptTo(1)' /\ FreedTo(1)'
    BY <2>1 DEF KeptTo, FreedTo
  <2>3. n = Len(list.of) /\ KeptTo(n + 1)' => KeptFrom(1)'
    BY <2>1 DEF KeptTo, KeptFrom
  <2>4. n = Len(list.of) /\ FreedTo(n + 1)' => FreedFrom(1)'
    BY <2>1 DEF FreedTo, FreedFrom
  <2>5. FreedTo(n + 1)' /\ FreedFrom(n + 1)' => FreedFrom(1)'
    BY <2>1 DEF FreedTo, FreedFrom
  <2> QED
    BY <2>2, <2>3, <2>4, <2>5
<1>3. \/ Checks(t) /\ ~ Takes(t) /\ ~ Undoes(t) /\ ~ Drops(t)
      \/ Takes(t) /\ ~ Checks(t) /\ ~ Undoes(t) /\ ~ Drops(t)
      \/ Undoes(t) /\ ~ Checks(t) /\ ~ Takes(t) /\ ~ Drops(t)
      \/ Drops(t) /\ ~ Checks(t) /\ ~ Takes(t) /\ ~ Undoes(t)
  BY InOneLoop
<1>4. \A m : m = idx'[t] => /\ KeptTo(m)' <=> KeptTo(idx[t])'
                            /\ FreedTo(m)' <=> FreedTo(idx[t])'
                            /\ OneWay(m)' <=> OneWay(idx[t])'
  BY DEF KeptTo, FreedTo, OneWay, FreedFrom, KeptFrom
<1>5. CASE /\ Return(t)
           /\ \/ pc[t] # "undoing" /\ failed /\ ~ Sets(t)
              \/ (pc[t] # "undoing" => ~ failed) /\ idx[t] = Len(list.of) /\ pc[t] # "checking"
  <2>1. ~ Locking(t)' /\ Phase(t)'
    BY <1>1, <1>5, PhaseNone DEF Return, Locking
  <2>2. \/ Checks(t)
        \/ Undoes(t) /\ n = Len(list.of)
        \/ Takes(t) /\ ~ failed /\ n = Len(list.of)
        \/ Drops(t) /\ (failed \/ n = Len(list.of))
    BY <1>3, <1>5 DEF Undoes, Takes
  <2>3. Checks(t) => OneWay(1)'
    BY DEF Done
  <2>4. Undoes(t) /\ n = Len(list.of) => FreedFrom(1)'
    BY <1>2 DEF Done
  <2>5. Takes(t) /\ ~ failed /\ n = Len(list.of) => KeptFrom(1)'
    BY <1>2 DEF Done
  <2>6. Drops(t) /\ (failed \/ n = Len(list.of)) => FreedFrom(1)'
    BY <1>2 DEF Done
  <2> QED
    BY <2>1, <2>2, <2>3, <2>4, <2>5, <2>6 DEF OneWay
<1>6. CASE Starts(t, "undoing") /\ Sets(t)
  <2>1. pc'[t] = "undoing" /\ idx'[t] = 1 /\ Sets(t)'
    BY <1>1, <1>6 DEF Starts, Goto, Sets
  <2>2. FreedTo(idx[t])'
    BY <1>2, <1>4, <2>1
  <2> QED
    BY <2>1, <2>2 DEF Phase, Checks, Takes, Undoes, Drops, Locking
<1>7. CASE Starts(t, "locking") /\ pc[t] = "checking"
  <2>1. pc'[t] = "locking" /\ idx'[t] = 1 /\ how'[t] = how[t]
    BY <1>1, <1>7 DEF Starts, Goto
  <2>2. OneWay(1)' /\ how[t] \in {"set", "release"}
    <3>1. Checks(t)
      BY <1>7 DEF Checks
    <3>2. OneWay(1)'
      BY <3>1 DEF Done
    <3>3. how[t] \in {"set", "release"}
      BY <1>7
    <3> QED
      BY <3>2, <3>3
  <2>3. FreedTo(idx[t])' /\ KeptTo(idx[t])' /\ OneWay(idx[t])'
    BY <1>2, <1>4, <2>1, <2>2
  <2> QED
    BY <2>1, <2>2, <2>3 DEF Phase, Checks, Takes, Undoes, Drops, Locking
<1>8. CASE GoesOn(t) /\ (pc[t] # "undoing" => ~ failed)
  <2>1. pc'[t] = pc[t] /\ idx'[t] = n + 1 /\ how'[t] = how[t] /\ Locking(t)'
    BY <1>1, <1>8 DEF Locking, GoesOn
  <2>2. /\ KeptTo(n + 1)' => KeptTo(idx[t])'
        /\ FreedTo(n + 1)' => FreedTo(idx[t])'
        /\ OneWay(n + 1)' => OneWay(idx[t])'
    BY <1>4, <2>1
  <2>3. /\ Checks(t)' <=> Checks(t)
        /\ Takes(t)' <=> Takes(t)
        /\ Undoes(t)' <=> Undoes(t)
        /\ Drops(t)' <=> Drops(t)
        /\ Sets(t)' <=> Sets(t)
    BY <2>1 DEF Checks, Takes, Undoes, Drops, Sets
  <2>4. Takes(t) => ~ failed
    BY <1>8 DEF Takes
  <2>5. /\ Checks(t)' => OneWay(1)'
        /\ Takes(t)' => KeptTo(idx[t])'
        /\ Undoes(t)' => Sets(t)' /\ FreedTo(idx[t])'
        /\ Drops(t)' => FreedTo(idx[t])' /\ OneWay(idx[t])'
    BY <2>2, <2>3, <2>4 DEF Done
  <2>6. pc'[t] = "checking" => how'[t] \in {"set", "release"}
    BY <2>1
  <2> QED
    BY <2>1, <2>5, <2>6 DEF Phase
<1> QED
  BY <1>5, <1>6, <1>7, <1>8, LoopWays

-----------------------------------------------------------------------------
\* Whatever excuses a lock that is left, and closing, is not taken back.
LEMMA SteadyBack ==
    ASSUME FileType, LockType, Calm => \A t \in Threads : Closer(t), [LibNext]_libVars, Steady'
    PROVE  Steady
<1> USE DEF Steady, Calm, LockType, FileType, cfgVars, drvVars, tasks, libVars
<1>1. ASSUME NEW t \in Threads, OpenLock(t) \/ OpenEnd(t) \/ CloseLock(t) PROVE Steady
  <2>1. pc[t] \notin {"closing", "cleaning"} /\ \A u \in Threads \ {t} : pc'[u] = pc[u]
    BY <1>1 DEF OpenLock, OpenEnd, CloseLock, Calling, Goto, Return
  <2>2. UNCHANGED <<list, stuck, broken>>
    BY <1>1 DEF OpenLock, OpenEnd, CloseLock
  <2> QED
    BY <2>1, <2>2
<1>2. ASSUME NEW t \in Threads, OpenDriver(t) PROVE Steady
  <2>1. list'.head = list.head
    BY <1>2 DEF OpenDriver, ContextAppend
  <2> QED
    BY <1>2, <2>1 DEF OpenDriver
<1>3. ASSUME NEW t \in Threads, CloseForce(t) \/ CloseConfig(t) PROVE FALSE
  BY <1>3 DEF CloseForce, CloseConfig, Goto
<1>4. ASSUME NEW t \in Threads, CloseContext(t) PROVE FALSE
  BY <1>4 DEF CloseContext
<1>5. ASSUME NEW t \in Threads, CloseClean(t) PROVE FALSE
  BY <1>5 DEF CloseClean
<1>6. ASSUME NEW t \in Threads, CloseEnd(t) \/ LockAll(t) \/ CallResolve(t) \/ CallEnter(t) \/ CallLeave(t)
      PROVE Steady
  <2>1. pc[t] \notin {"closing", "cleaning"}
    BY <1>6 DEF CloseEnd, LockAll, CallResolve, CallEnter, CallLeave, Calling
  <2>2. \A u \in Threads \ {t} : pc'[u] = pc[u]
    BY <1>6 DEF CloseEnd, LockAll, CallResolve, CallEnter, CallLeave, Goto, Return
  <2>3. UNCHANGED <<list, stuck, broken>>
    BY <1>6 DEF CloseEnd, LockAll, CallResolve, CallEnter, CallLeave
  <2> QED
    BY <2>1, <2>2, <2>3
<1>7. ASSUME NEW t \in Threads, NEW failed, LockNext(t, failed)
      PROVE  \A u \in Threads \ {t} : pc'[u] = pc[u]
  BY <1>7, LoopWays DEF Return, Starts, Goto, GoesOn
<1>8. ASSUME NEW t \in Threads, LockLocal(t) PROVE Steady
  <2>1. pc[t] \notin {"closing", "cleaning"} /\ UNCHANGED <<list, broken>>
    BY <1>8 DEF LockLocal, Locking
  <2>2. \A u \in Threads \ {t} : pc'[u] = pc[u]
    BY <1>7, <1>8 DEF LockLocal
  <2>3. ~ stuck
    BY <1>8 DEF LockLocal, LockDriver
  <2> QED
    BY <2>1, <2>2, <2>3
<1>9. ASSUME NEW t \in Threads, RpcReturn(t) PROVE Steady
  <2>1. UNCHANGED <<list, broken, stuck>>
    BY <1>9 DEF RpcReturn
  <2>2. CASE Locking(t)
    <3>1. pc[t] \notin {"closing", "cleaning"} /\ \A u \in Threads \ {t} : pc'[u] = pc[u]
      BY <1>7, <1>9, <2>2 DEF RpcReturn, Locking
    <3> QED
      BY <2>1, <3>1
  <2>3. CASE ~ Locking(t)
    <3>1. reply[t] # "none" /\ pc' = [pc EXCEPT ![t] = "idle"]
      BY <1>9, <2>3 DEF RpcReturn, Return
    <3>2. pc[t] \notin {"closing", "cleaning"}
      BY <2>1, <3>1 DEF Closer
    <3> QED
      BY <2>1, <3>1, <3>2
  <2> QED
    BY <2>2, <2>3
<1>10. ASSUME NEW t \in Threads, RpcSend(t) \/ RpcTimeOut(t) PROVE Steady
  BY <1>10 DEF RpcSend, RpcTimeOut
<1>11. ASSUME NEW a \in Addresses, Serve(a) \/ OtherLocks(a) PROVE Steady
  BY <1>11 DEF Serve, OtherLocks, LockDriver
<1>12. ASSUME NEW a \in Addresses, ServerDies(a) PROVE FALSE
  BY <1>12 DEF ServerDies
<1>13. CASE UNCHANGED libVars
  BY <1>13
<1> QED
  BY <1>1, <1>2, <1>3, <1>4, <1>5, <1>6, <1>8, <1>9, <1>10, <1>11, <1>12, <1>13 DEF LibNext, Step

\* Who neither works on the locks nor calls waits for nobody.
LEMMA NotWaiting ==
    ASSUME LockFacts, NEW t \in Threads,
           \/ pc[t] \notin {"checking", "locking", "undoing", "calling"}
           \/ ~ OfServer(Context(t))
    PROVE  reply[t] = "none"
BY DEF LockFacts, Link, Waits, Locking

\* Steps that leave the drivers and the requests alone.
LEMMA BesideLink ==
    ASSUME FileType, LockType, LockFacts,
           UNCHANGED <<conf, config, contexts, list, lock, inbox, rpc, reply>>,
           NEW t \in Threads, DOMAIN how' = Threads, DOMAIN ctx' = Threads,
           \A u \in Threads \ {t} : pc'[u] = pc[u] /\ idx'[u] = idx[u] /\ ctx'[u] = ctx[u]
                                   /\ how'[u] = how[u],
           reply[t] = "none",
           Locking(t)' => idx'[t] \in DOMAIN list.of /\ how'[t] \in Hows,
           pc'[t] = "calling" => ctx'[t] \in DOMAIN contexts,
           pc'[t] = "opening" => \A c \in DOMAIN contexts : AddressOf(c) \in Behind(idx'[t]),
           count' <= 0 /\ (\A u \in Threads : pc'[u] # "opening") => contexts = <<>>
    PROVE  Listed' /\ Unlisted' /\ Link' /\ Holds
           /\ \A u \in Threads \ {t} : Phase(u)'
<1>1. Listed /\ Unlisted /\ Asked /\ NoClose /\ \A u \in Threads : Waits(u) /\ Phase(u)
  BY DEF LockFacts, Link
<1>2. \A u \in Threads \ {t} : /\ Locking(u)' <=> Locking(u)
                               /\ Context(u)' = Context(u) /\ Own(u)' = Own(u)
                               /\ Op(u)' = Op(u)
  BY DEF Locking, Context, Own, AddressOf, Op
<1>3. NoClose'
  BY <1>1 DEF NoClose
<1>4. Listed'
  <2>1. \A c : AddressOf(c)' = AddressOf(c)
    BY DEF AddressOf
  <2>2. \A n : Behind(n)' = Behind(n)
    BY DEF Behind
  <2>3. ASSUME NEW u \in Threads, pc'[u] = "opening", NEW c \in DOMAIN contexts
        PROVE  AddressOf(c)' \in Behind(idx[u])'
    <3>1. Behind(idx'[u]) = Behind(idx[u])'
      BY DEF Behind
    <3>2. CASE u = t
      BY <2>1, <2>3, <3>1, <3>2
    <3>3. CASE u # t
      BY <1>1, <2>1, <2>3, <3>1, <3>3 DEF Listed
    <3> QED
      BY <3>2, <3>3
  <2>4. ASSUME NEW u \in Threads
        PROVE  /\ Locking(u)' => idx'[u] \in DOMAIN list.of
               /\ pc'[u] = "calling" => ctx'[u] \in DOMAIN contexts
    BY <1>1, <1>2 DEF Listed
  <2> QED
    BY <1>1, <2>1, <2>3, <2>4 DEF Listed
<1>5. Unlisted'
  BY <1>1 DEF Unlisted, Ours, AddressOf
<1>6. Asked'
  <2> SUFFICES ASSUME NEW a \in Addresses, NEW k \in DOMAIN inbox[a], NEW u \in Threads,
                      inbox[a][k].from = u
               PROVE  reply[u] = "sent" /\ a = Own(u)' /\ k = Len(inbox[a])
    BY DEF Asked
  <2>1. reply[u] = "sent" /\ a = Own(u) /\ k = Len(inbox[a])
    BY <1>1 DEF Asked
  <2>2. u # t
    BY <2>1
  <2> QED
    BY <1>2, <2>1, <2>2
<1>7. ASSUME NEW u \in Threads PROVE Waits(u)'
  <2>1. CASE u = t
    BY <2>1 DEF Waits
  <2>2. CASE u # t
    BY <1>1, <1>2, <2>2 DEF Waits, OfServer, AddressOf
  <2> QED
    BY <2>1, <2>2
<1>8. Holds
  BY DEF Holds, Kept, Freed, Ours
<1>9. ASSUME NEW u \in Threads \ {t} PROVE Phase(u)'
  <2>1. Ours(Own(u)) /\ LastRelease(inbox[Own(u)]) => (Ours(Own(u)) /\ LastRelease(inbox[Own(u)]))'
    BY <1>2 DEF Ours
  <2>2. Locking(u) => idx[u] \in DOMAIN list.of
    BY <1>1 DEF Listed
  <2> QED
    BY <1>1, <1>8, <2>1, <2>2, PhaseKept
<1> QED
  BY <1>3, <1>4, <1>5, <1>6, <1>7, <1>8, <1>9 DEF Link

\* A thread that does not work on the locks goes on with something else.
LEMMA BesideLocks ==
    ASSUME FileType, LockType, LockFacts,
           UNCHANGED <<conf, config, contexts, list, lock, inbox, rpc, reply>>,
           NEW t \in Threads, DOMAIN how' = Threads, DOMAIN ctx' = Threads,
           \A u \in Threads \ {t} : pc'[u] = pc[u] /\ idx'[u] = idx[u] /\ ctx'[u] = ctx[u]
                                   /\ how'[u] = how[u],
           reply[t] = "none", ~ Locking(t), ~ Locking(t)',
           pc'[t] = "calling" => ctx'[t] \in DOMAIN contexts,
           pc'[t] = "opening" =>
               /\ \A c \in DOMAIN contexts : AddressOf(c) \in Behind(idx'[t])
               /\ pc[t] = "opening" \/ contexts = <<>>,
           count' <= 0 /\ (\A u \in Threads : pc'[u] # "opening") => contexts = <<>>
    PROVE  LockFacts'
<1>1. Listed' /\ Unlisted' /\ Link' /\ Holds /\ \A u \in Threads \ {t} : Phase(u)'
  BY BesideLink
<1>2. Phase(t)'
  BY PhaseNone
<1>3. Between /\ Listed
  BY DEF LockFacts
<1>4. (OneWay(1) => OneWay(1)') /\ (FreedFrom(1) => FreedFrom(1)')
  BY <1>1, <1>3, Ways
<1>5. (\A u \in Threads : ~ Locking(u)') => OneWay(1)'
  BY <1>3, <1>4 DEF Between, Locking
<1>6. ASSUME NEW u \in Threads, pc'[u] = "opening" PROVE FreedFrom(1)'
  <2>1. CASE pc[u] = "opening"
    BY <1>3, <1>4, <2>1 DEF Between
  <2>2. CASE contexts = <<>>
    <3>1. DOMAIN list'.of = {}
      BY <1>3, <2>2 DEF Listed
    <3> QED
      BY <3>1 DEF FreedFrom
  <2> QED
    BY <1>6, <2>1, <2>2
<1> QED
  BY <1>1, <1>2, <1>5, <1>6 DEF LockFacts, Between

-----------------------------------------------------------------------------
(* The types, for all steps.                                               *)

\* Closing forgets locks and asks servers to close.
LEMMA HangupType ==
    ASSUME LockType, NEW C, Hangup(C)
    PROVE  lock' \in [Addresses -> Locks] /\ inbox' \in [Addresses -> Seq(Requests)]
<1>1. lock' \in [Addresses -> Locks]
  BY DEF Hangup, LockType, Locks
<1>2. [op |-> "close", from |-> None] \in Requests
  BY DEF Requests
<1>3. \A a \in Addresses : inbox[a] \in Seq(Requests)
                        /\ Append(inbox[a], [op |-> "close", from |-> None]) \in Seq(Requests)
  BY <1>2 DEF LockType
<1> QED
  BY <1>1, <1>3 DEF Hangup

\* A lock that was asked leaves a lock.
LEMMA LockDriverType ==
    ASSUME LockType, NEW a \in Addresses, NEW op \in {"set", "release", "check"},
           NEW force \in BOOLEAN, NEW refused \in BOOLEAN, LockDriver(a, op, force, refused)
    PROVE  lock' \in [Addresses -> Locks]
<1>1. Locked(a, op, force) \in Locks
  BY DEF Locked, LockType, Locks
<1> QED
  BY <1>1 DEF LockDriver, LockType

\* Which request a thread sends.
LEMMA OpType ==
    ASSUME LockType, NEW t \in Threads
    PROVE  /\ Locking(t) => Op(t) \in {"set", "release", "check"}
           /\ pc[t] = "calling" => Op(t) = "call"
           /\ Forced(t) \in BOOLEAN
<1>1. ASSUME Locking(t) PROVE Op(t) \in {"set", "release", "check"}
  <2>1. how[t] \in Hows
    BY <1>1 DEF LockType
  <2>2. CASE pc[t] = "locking"
    BY <2>1, <2>2 DEF Op, Hows
  <2>3. CASE pc[t] = "checking"
    BY <2>3 DEF Op
  <2>4. CASE pc[t] = "undoing"
    BY <2>4 DEF Op
  <2> QED
    BY <1>1, <2>2, <2>3, <2>4 DEF Locking
<1>2. pc[t] = "calling" => Op(t) = "call"
  BY DEF Op
<1>3. Forced(t) \in BOOLEAN
  BY DEF Forced
<1> QED
  BY <1>1, <1>2, <1>3

\* Whoever goes on locking does so with what it was asked.
LEMMA LoopsKeepHow ==
    ASSUME FileType, LockType, NEW t \in Threads, NEW failed, LockNext(t, failed), Locking(t),
           how' = how
    PROVE  /\ \A u \in Threads : Locking(u)' => how'[u] \in Hows
           /\ DOMAIN ctx' = Threads
<1>1. \A u \in Threads : Locking(u)' => Locking(u)
  BY LoopWays DEF Return, Starts, Goto, GoesOn, Locking, FileType
<1>2. DOMAIN ctx' = Threads
  BY Zenon DEF LockNext, Return, LockType, Goto
<1> QED
  BY <1>1, <1>2 DEF LockType
\* A step within the calls, as far as the types go.
LEMMA TypeBeside ==
    ASSUME LockType, lock' \in [Addresses -> Locks], inbox' \in [Addresses -> Seq(Requests)],
           rpc' \in [Addresses -> Threads \cup {None}],
           reply' \in [Threads -> {"none", "sent", "ok", "error"}], list' = list,
           \A u \in Threads : Locking(u)' => how'[u] \in Hows,
           DOMAIN how' = Threads, DOMAIN ctx' = Threads
    PROVE  LockType'
BY DEF LockType

\* The types hold after every step.
LEMMA LockTypeStep ==
    ASSUME FileType, LockType, [LibNext]_libVars
    PROVE  LockType'
<1> USE DEF cfgVars, drvVars, tasks, libVars
<1>0. \A u \in Threads : Locking(u) => how[u] \in Hows
  BY DEF LockType
<1>1. ASSUME NEW t \in Threads,
             \/ OpenLock(t) \/ OpenEnd(t) \/ CloseLock(t) \/ CloseForce(t) \/ CloseConfig(t)
             \/ CloseEnd(t)
      PROVE  LockType'
  <2>1. UNCHANGED <<lock, inbox, rpc, reply, list, how>> /\ DOMAIN ctx' = Threads
    BY <1>1 DEF OpenLock, OpenEnd, CloseLock, CloseForce, CloseConfig, CloseEnd, Return, LockType
  <2>2. \A u \in Threads : Locking(u)' => Locking(u)
    BY <1>1 DEF OpenLock, OpenEnd, CloseLock, CloseForce, CloseConfig, CloseEnd, Return, Goto,
       Locking,
                FileType
  <2> QED
    BY <1>0, <2>1, <2>2, TypeBeside DEF LockType
<1>2. ASSUME NEW t \in Threads, OpenDriver(t) PROVE LockType'
  <2>1. Len(contexts) + 1 \in Nat
    BY DEF FileType
  <2>2. list' \in [head : BOOLEAN, of : Seq(Nat)] /\ (~ list'.head => list'.of = <<>>)
    <3>1. list' = list \/ (list.head /\ list' = [list EXCEPT !.of = Append(@, Len(contexts) + 1)])
      BY <1>2 DEF OpenDriver, ContextAppend
    <3>2. list \in [head : BOOLEAN, of : Seq(Nat)] /\ (~ list.head => list.of = <<>>)
      BY DEF LockType
    <3>3. Append(list.of, Len(contexts) + 1) \in Seq(Nat)
      BY <2>1, <3>2
    <3> QED
      BY <3>1, <3>2, <3>3
  <2> QED
    BY <1>0, <1>2, <2>2 DEF OpenDriver, LockType, Locking
<1>3. ASSUME NEW t \in Threads, CloseContext(t) PROVE LockType'
  <2>1. PICK C : Hangup(C)
    BY <1>3 DEF CloseContext
  <2> QED
    BY <1>0, <1>3, <2>1, HangupType, TypeBeside DEF CloseContext, LockType, Locking
<1>4. ASSUME NEW t \in Threads, CloseClean(t) PROVE LockType'
  <2>1. PICK C : Hangup(C)
    BY <1>4 DEF CloseClean
  <2>2. list' \in [head : BOOLEAN, of : Seq(Nat)] /\ (~ list'.head => list'.of = <<>>)
    BY <1>4 DEF CloseClean
  <2>3. \A u \in Threads : Locking(u)' => Locking(u)
    BY <1>4 DEF CloseClean, Goto, Locking, FileType
  <2> QED
    BY <1>0, <1>4, <2>1, <2>2, <2>3, HangupType DEF CloseClean, LockType
<1>5. ASSUME NEW t \in Threads, LockAll(t) PROVE LockType'
  <2>1. PICK op \in Hows : how' = [how EXCEPT ![t] = op]
    BY <1>5 DEF LockAll, Hows
  <2>2. \A u \in Threads \ {t} : Locking(u)' => Locking(u)
    BY <1>5 DEF LockAll, Return, Goto, Locking, FileType
  <2>3. \A u \in Threads : Locking(u)' => how'[u] \in Hows
    BY <1>0, <2>1, <2>2 DEF LockType
  <2>4. DOMAIN ctx' = Threads /\ DOMAIN how' = Threads
    BY <1>5, <2>1 DEF LockAll, Return, LockType
  <2> QED
    BY <1>5, <2>3, <2>4, TypeBeside DEF LockAll, LockType
<1>6. ASSUME NEW t \in Threads, CallResolve(t) \/ CallEnter(t) \/ CallLeave(t) PROVE LockType'
  <2>1. UNCHANGED <<lock, inbox, rpc, reply, list, how>> /\ DOMAIN ctx' = Threads
    BY <1>6 DEF CallResolve, CallEnter, CallLeave, Return, LockType
  <2>2. \A u \in Threads : Locking(u)' => Locking(u)
    BY <1>6 DEF CallResolve, CallEnter, CallLeave, Return, Goto, Locking, FileType
  <2> QED
    BY <1>0, <2>1, <2>2, TypeBeside DEF LockType
<1>7. ASSUME NEW t \in Threads, LockLocal(t) PROVE LockType'
  <2>1. PICK refused \in BOOLEAN :
                LockDriver(Own(t), Op(t), Forced(t), refused) /\ LockNext(t, refused)
    BY <1>7 DEF LockLocal, Refusals, Own
  <2>2. Op(t) \in {"set", "release", "check"} /\ Forced(t) \in BOOLEAN /\ how' = how /\ Locking(t)
    BY <1>7, OpType DEF LockLocal
  <2>3. lock' \in [Addresses -> Locks]
    <3>1. CASE Own(t) \in Addresses
      BY <2>1, <2>2, <3>1, LockDriverType
    <3>2. CASE Own(t) \notin Addresses
      BY <2>1, <3>2 DEF LockDriver, LockType
    <3> QED
      BY <3>1, <3>2
  <2>4. \A u \in Threads : Locking(u)' => how'[u] \in Hows
    BY <2>1, <2>2, LoopsKeepHow
  <2>5. DOMAIN ctx' = Threads
    BY <2>1, <2>2, LoopsKeepHow
  <2>6. UNCHANGED <<inbox, rpc, reply, list, how>>
    BY <1>7 DEF LockLocal
  <2> QED
    BY <2>3, <2>4, <2>5, <2>6, TypeBeside DEF LockType
<1>8. ASSUME NEW t \in Threads, RpcSend(t) PROVE LockType'
  <2>1. Op(t) \in {"set", "release", "check", "call"} /\ Forced(t) \in BOOLEAN
    BY <1>8, OpType DEF RpcSend
  <2>2. PICK r \in Requests : r = [op |-> Op(t), from |-> t, force |-> Forced(t)]
    BY <2>1 DEF Requests
  <2>3. inbox' \in [Addresses -> Seq(Requests)]
    <3>1. inbox' = inbox \/ inbox' = [inbox EXCEPT ![AddressOf(Context(t))] = Append(@, r)]
      BY <1>8, <2>2 DEF RpcSend
    <3>2. DOMAIN inbox = Addresses
          /\ \A a \in Addresses :
                     inbox[a] \in Seq(Requests) /\ Append(inbox[a], r) \in Seq(Requests)
      BY DEF LockType
    <3>3. inbox \in [Addresses -> Seq(Requests)]
      BY DEF LockType
    <3> QED
      BY <3>1, <3>2, <3>3
  <2>4. /\ rpc' \in [Addresses -> Threads \cup {None}]
        /\ reply' \in [Threads -> {"none", "sent", "ok", "error"}]
    BY <1>8 DEF RpcSend, LockType
  <2>5. UNCHANGED <<lock, list, how, ctx, pc>>
    BY <1>8 DEF RpcSend
  <2> QED
    BY <1>0, <2>3, <2>4, <2>5, TypeBeside DEF LockType, Locking
<1>9. ASSUME NEW t \in Threads, RpcReturn(t) PROVE LockType'
  <2>1. /\ rpc' \in [Addresses -> Threads \cup {None}]
        /\ reply' \in [Threads -> {"none", "sent", "ok", "error"}]
    BY <1>9 DEF RpcReturn, LockType
  <2>2. UNCHANGED <<lock, inbox, list, how>>
    BY <1>9 DEF RpcReturn
  <2>3. /\ \A u \in Threads : Locking(u)' => how'[u] \in Hows
        /\ DOMAIN ctx' = Threads
    <3>1. CASE Locking(t)
      <4>1. LockNext(t, reply[t] = "error")
        BY <1>9, <3>1 DEF RpcReturn
      <4> QED
        BY <2>2, <3>1, <4>1, LoopsKeepHow
    <3>2. CASE Return(t)
      BY <1>0, <2>2, <3>2 DEF Return, Locking, FileType, LockType
    <3> QED
      BY <1>9, <3>1, <3>2 DEF RpcReturn
  <2> QED
    BY <2>1, <2>2, <2>3, TypeBeside DEF LockType
<1>10. ASSUME NEW t \in Threads, RpcTimeOut(t) PROVE LockType'
  <2> DEFINE given(q) == [k \in DOMAIN q |-> IF q[k].from = t THEN [q[k] EXCEPT !.from = None] ELSE q[k]]
  <2>1. ASSUME NEW q \in Seq(Requests) PROVE given(q) \in Seq(Requests)
    <3>1. ASSUME NEW r \in Requests PROVE r.from = t => [r EXCEPT !.from = None] \in Requests
      BY DEF Requests
    <3>2. \A k \in DOMAIN q : q[k] \in Requests
      OBVIOUS
    <3>3. DOMAIN q = 1 .. Len(q) /\ Len(q) \in Nat
      OBVIOUS
    <3>4. given(q) \in [1 .. Len(q) -> Requests]
      BY <3>1, <3>2, <3>3
    <3> QED
      BY <3>3, <3>4
  <2>2. inbox' = [inbox EXCEPT ![AddressOf(Context(t))] = given(@)]
    BY <1>10 DEF RpcTimeOut
  <2>3. \A a \in Addresses : inbox[a] \in Seq(Requests) /\ given(inbox[a]) \in Seq(Requests)
    BY <2>1 DEF LockType
  <2> HIDE DEF given
  <2>4. inbox' \in [Addresses -> Seq(Requests)]
    BY <2>2, <2>3 DEF LockType
  <2>5. reply' \in [Threads -> {"none", "sent", "ok", "error"}]
    BY <1>10 DEF RpcTimeOut, LockType
  <2>6. UNCHANGED <<lock, list, how, ctx, pc, rpc>>
    BY <1>10 DEF RpcTimeOut
  <2> QED
    BY <1>0, <2>4, <2>5, <2>6, TypeBeside DEF LockType, Locking
<1>11. ASSUME NEW a \in Addresses, Serve(a) PROVE LockType'
  <2> DEFINE r == Head(inbox[a])
  <2>1. inbox[a] \in Seq(Requests) /\ inbox[a] # <<>>
    BY <1>11 DEF Serve, LockType
  <2>2. r \in Requests /\ Tail(inbox[a]) \in Seq(Requests)
    BY <2>1
  <2>3. inbox' \in [Addresses -> Seq(Requests)]
    BY <1>11, <2>2 DEF Serve, LockType
  <2>4. UNCHANGED <<list, how, ctx, pc, rpc>>
    BY <1>11 DEF Serve
  <2>5. lock' \in [Addresses -> Locks]
    <3>1. CASE r.op \in {"close", "call"}
      BY <1>11, <3>1 DEF Serve, LockType, Locks
    <3>2. CASE r.op \notin {"close", "call"}
      <4>1. r.op \in {"set", "release", "check"} /\ r.force \in BOOLEAN
        BY <2>2, <3>2 DEF Requests
      <4>2. PICK refused \in BOOLEAN : LockDriver(a, r.op, r.force, refused)
        BY <1>11, <3>2 DEF Serve, Refusals
      <4> QED
        BY <4>1, <4>2, LockDriverType
    <3> QED
      BY <3>1, <3>2
  <2>6. reply' \in [Threads -> {"none", "sent", "ok", "error"}]
    <3>1. reply' = reply \/ \E x \in {"ok", "error"} : reply' = [reply EXCEPT ![r.from] = x]
      BY <1>11 DEF Serve
    <3> QED
      BY <3>1 DEF LockType
  <2> QED
    BY <1>0, <2>3, <2>4, <2>5, <2>6, TypeBeside DEF LockType, Locking
<1>12. ASSUME NEW a \in Addresses, ServerDies(a) PROVE LockType'
  <2>1. UNCHANGED <<list, how, ctx, pc, rpc>>
    BY <1>12 DEF ServerDies
  <2>2. lock' \in [Addresses -> Locks] /\ inbox' \in [Addresses -> Seq(Requests)]
    BY <1>12 DEF ServerDies, LockType, Locks
  <2>3. reply' \in [Threads -> {"none", "sent", "ok", "error"}]
    BY <1>12 DEF ServerDies, LockType
  <2> QED
    BY <1>0, <2>1, <2>2, <2>3, TypeBeside DEF LockType, Locking
<1>13. ASSUME NEW a \in Addresses, OtherLocks(a) PROVE LockType'
  <2>1. UNCHANGED <<list, how, ctx, pc, rpc, reply, inbox>>
    BY <1>13 DEF OtherLocks
  <2>2. lock' \in [Addresses -> Locks]
    BY <1>13 DEF OtherLocks, LockType, Locks
  <2> QED
    BY <1>0, <2>1, <2>2, TypeBeside DEF LockType, Locking
<1>14. CASE UNCHANGED libVars
  BY <1>0, <1>14, TypeBeside DEF LockType, Locking
<1> QED
  BY <1>1, <1>2, <1>3, <1>4, <1>5, <1>6, <1>7, <1>8, <1>9, <1>10, <1>11, <1>12, <1>13, <1>14
  DEF LibNext, Step

-----------------------------------------------------------------------------
(* Whoever closes waits for nobody.                                        *)

\* What excuses a lock is not taken back.
LEMMA CalmBack ==
    ASSUME LockType, [LibNext]_libVars, Calm'
    PROVE  Calm
<1> USE DEF Calm, cfgVars, drvVars, tasks, libVars
<1>1. ASSUME NEW t \in Threads,
             \/ OpenLock(t) \/ OpenEnd(t) \/ CloseLock(t) \/ CloseForce(t) \/ CloseConfig(t)
             \/ CloseContext(t) \/ CloseEnd(t) \/ LockAll(t) \/ CallResolve(t) \/ CallEnter(t)
             \/ CallLeave(t) \/ RpcSend(t) \/ RpcReturn(t)
      PROVE  Calm
  <2>1. UNCHANGED <<list, stuck, broken>>
    BY <1>1 DEF OpenLock, OpenEnd, CloseLock, CloseForce, CloseConfig, CloseContext, CloseEnd,
       LockAll,
                CallResolve, CallEnter, CallLeave, RpcSend, RpcReturn
  <2> QED
    BY <2>1
<1>2. ASSUME NEW t \in Threads, OpenDriver(t) PROVE Calm
  <2>1. list'.head = list.head
    BY <1>2 DEF OpenDriver, ContextAppend, LockType
  <2> QED
    BY <1>2, <2>1 DEF OpenDriver
<1>3. ASSUME NEW t \in Threads, CloseClean(t) PROVE FALSE
  BY <1>3 DEF CloseClean
<1>4. ASSUME NEW t \in Threads, LockLocal(t) \/ RpcTimeOut(t) PROVE Calm
  BY <1>4 DEF LockLocal, LockDriver, RpcTimeOut
<1>5. ASSUME NEW a \in Addresses, Serve(a) \/ OtherLocks(a) PROVE Calm
  <2>1. UNCHANGED <<list, broken>>
    BY <1>5 DEF Serve, OtherLocks
  <2>2. ~ stuck
    BY <1>5 DEF Serve, OtherLocks, LockDriver
  <2> QED
    BY <2>1, <2>2
<1>6. ASSUME NEW a \in Addresses, ServerDies(a) PROVE FALSE
  BY <1>6 DEF ServerDies
<1>7. CASE UNCHANGED libVars
  BY <1>7
<1> QED
  BY <1>1, <1>2, <1>3, <1>4, <1>5, <1>6, <1>7 DEF LibNext, Step

\* Whoever goes on closing still waits for nobody.
LEMMA CloserStays ==
    ASSUME NEW u \in Threads, Closer(u),
           pc'[u] \in {"closing", "cleaning"} =>
                   pc[u] \in {"closing", "cleaning"} /\ reply'[u] = reply[u],
           \A a \in Addresses : \A k \in DOMAIN inbox'[a] : inbox'[a][k].from = u =>
               \E j \in DOMAIN inbox[a] : inbox[a][j].from = u
    PROVE  Closer(u)'
BY DEF Closer

\* Whoever closes waits for nobody, after every step.
LEMMA CloserStep ==
    ASSUME FilesInv, LockType, Steady => LockFacts, Calm => \A t \in Threads : Closer(t),
           [LibNext]_libVars, Calm'
    PROVE  \A t \in Threads : Closer(t)'
<1> USE DEF cfgVars, drvVars, tasks, libVars
<1>0. Calm /\ FileType /\ \A u \in Threads : Closer(u)
  BY CalmBack DEF FilesInv
<1> SUFFICES ASSUME NEW u \in Threads PROVE Closer(u)'
  OBVIOUS
<1>1. ASSUME NEW t \in Threads, CloseLock(t) \/ CloseForce(t) PROVE Closer(u)'
  <2>1. UNCHANGED <<inbox, reply>> /\ mutex = None /\ pc[t] = "idle" /\ \A v \in Threads \ {t} :
                pc'[v] = pc[v]
    BY <1>0, <1>1 DEF CloseLock, CloseForce, Calling, Goto, FileType
  <2>2. Steady
    BY <1>0, <2>1, LibraryAssumption DEF FilesInv, Stages, Sections, Steady
  <2>3. reply[t] = "none" /\ \A a \in Addresses : \A k \in DOMAIN inbox[a] : inbox[a][k].from # t
    <3>1. reply[t] = "none"
      BY <2>1, <2>2, NotWaiting
    <3> QED
      BY <2>2, <3>1 DEF LockFacts, Link, Asked
  <2>4. CASE u = t
    BY <2>1, <2>3, <2>4 DEF Closer
  <2>5. CASE u # t
    BY <1>0, <2>1, <2>5 DEF Closer
  <2> QED
    BY <2>4, <2>5
<1>2. ASSUME NEW t \in Threads,
             \/ OpenLock(t) \/ OpenDriver(t) \/ OpenEnd(t) \/ CloseConfig(t)
             \/ CloseEnd(t) \/ LockAll(t) \/ CallResolve(t) \/ CallEnter(t) \/ CallLeave(t)
      PROVE  Closer(u)'
  <2>1. UNCHANGED <<inbox, reply>>
    BY <1>2 DEF OpenLock, OpenDriver, OpenEnd, CloseConfig, CloseEnd, LockAll, CallResolve,
       CallEnter,
                CallLeave
  <2>2. pc'[u] \in {"closing", "cleaning"} => pc[u] \in {"closing", "cleaning"}
    BY <1>0, <1>2 DEF OpenLock, OpenDriver, OpenEnd, CloseConfig, CloseEnd, LockAll, CallResolve,
                CallEnter, CallLeave, Goto, Return, FileType
  <2> QED
    BY <1>0, <2>1, <2>2, CloserStays
<1>3. ASSUME NEW C, Hangup(C), UNCHANGED reply,
             pc'[u] \in {"closing", "cleaning"} => pc[u] \in {"closing", "cleaning"}
      PROVE  Closer(u)'
  <2>1. ASSUME NEW a \in Addresses, NEW k \in DOMAIN inbox'[a], inbox'[a][k].from = u
        PROVE  \E j \in DOMAIN inbox[a] : inbox[a][j].from = u
    <3>1. inbox[a] \in Seq(Requests)
      BY DEF LockType
    <3>2. PICK r \in Requests : r = [op |-> "close", from |-> None]
      BY DEF Requests
    <3>3. inbox'[a] = inbox[a] \/ inbox'[a] = Append(inbox[a], r)
      BY <1>3, <3>2 DEF Hangup
    <3>4. CASE inbox'[a] = Append(inbox[a], r)
      <4>1. r.from # u
        BY <3>2, LibraryAssumption
      <4>2. /\ DOMAIN Append(inbox[a], r) = 1 .. (Len(inbox[a]) + 1)
            /\ Append(inbox[a], r)[Len(inbox[a]) + 1] = r /\ Len(inbox[a]) \in Nat
            /\ \A j \in 1 .. Len(inbox[a]) : Append(inbox[a], r)[j] = inbox[a][j]
            /\ DOMAIN inbox[a] = 1 .. Len(inbox[a])
        BY <3>1, Queues
      <4>3. k \in 1 .. Len(inbox[a])
        BY <2>1, <3>4, <4>1, <4>2
      <4> QED
        BY <2>1, <3>4, <4>2, <4>3
    <3> QED
      BY <2>1, <3>3, <3>4
  <2> QED
    BY <1>0, <1>3, <2>1, CloserStays
<1>4. ASSUME NEW t \in Threads, CloseContext(t) PROVE Closer(u)'
  BY <1>3, <1>4 DEF CloseContext
<1>5. ASSUME NEW t \in Threads, CloseClean(t) PROVE FALSE
  BY <1>5 DEF CloseClean, Calm
<1>6. ASSUME NEW t \in Threads, NEW failed, LockNext(t, failed)
      PROVE  pc'[u] \in {"closing", "cleaning"} => pc[u] \in {"closing", "cleaning"}
  BY <1>0, <1>6, LoopWays DEF Return, Starts, Goto, GoesOn, FileType
<1>7. ASSUME NEW t \in Threads, LockLocal(t) PROVE Closer(u)'
  <2>1. UNCHANGED <<inbox, reply>> /\ \E failed : LockNext(t, failed)
    BY <1>7 DEF LockLocal
  <2> QED
    BY <1>0, <1>6, <2>1, CloserStays
<1>8. ASSUME NEW t \in Threads, RpcReturn(t) PROVE Closer(u)'
  <2>1. UNCHANGED inbox /\ reply' = [reply EXCEPT ![t] = "none"]
    BY <1>8 DEF RpcReturn
  <2>2. pc'[u] \in {"closing", "cleaning"} => pc[u] \in {"closing", "cleaning"}
    <3>1. CASE Locking(t)
      BY <1>6, <1>8, <3>1 DEF RpcReturn
    <3>2. CASE ~ Locking(t)
      BY <1>0, <1>8, <3>2 DEF RpcReturn, Return, FileType
    <3> QED
      BY <3>1, <3>2
  <2> QED
    BY <1>0, <2>1, <2>2 DEF Closer, LockType
<1>9. ASSUME NEW t \in Threads, RpcSend(t) PROVE Closer(u)'
  <2>1. pc' = pc /\ pc[t] \notin {"closing", "cleaning"}
    BY <1>9 DEF RpcSend, Locking
  <2>2. CASE u = t
    BY <2>1, <2>2 DEF Closer
  <2>3. CASE u # t
    <3>1. reply'[u] = reply[u]
      BY <1>9, <2>3 DEF RpcSend, LockType
    <3>2. ASSUME NEW a \in Addresses, NEW k \in DOMAIN inbox'[a], inbox'[a][k].from = u
          PROVE  \E j \in DOMAIN inbox[a] : inbox[a][j].from = u
      <4>1. PICK r \in Requests : r = [op |-> Op(t), from |-> t, force |-> Forced(t)]
        <5>1. Op(t) \in {"set", "release", "check", "call"} /\ Forced(t) \in BOOLEAN
          BY <1>9, OpType DEF RpcSend
        <5> QED
          BY <5>1 DEF Requests
      <4>2. inbox[a] \in Seq(Requests)
        BY DEF LockType
      <4>3. inbox'[a] = inbox[a] \/ inbox'[a] = Append(inbox[a], r)
        BY <1>9, <4>1 DEF RpcSend, LockType
      <4>4. CASE inbox'[a] = Append(inbox[a], r)
        <5>1. r.from # u
          BY <2>3, <4>1
        <5>2. /\ DOMAIN Append(inbox[a], r) = 1 .. (Len(inbox[a]) + 1)
              /\ Append(inbox[a], r)[Len(inbox[a]) + 1] = r /\ Len(inbox[a]) \in Nat
              /\ \A j \in 1 .. Len(inbox[a]) : Append(inbox[a], r)[j] = inbox[a][j]
              /\ DOMAIN inbox[a] = 1 .. Len(inbox[a])
          BY <4>2, Queues
        <5>3. k \in 1 .. Len(inbox[a])
          BY <3>2, <4>4, <5>1, <5>2
        <5> QED
          BY <3>2, <4>4, <5>2, <5>3
      <4> QED
        BY <3>2, <4>3, <4>4
    <3> QED
      BY <1>0, <2>1, <3>1, <3>2, CloserStays
  <2> QED
    BY <2>2, <2>3
<1>10. ASSUME NEW t \in Threads, RpcTimeOut(t) PROVE Closer(u)'
  <2>1. pc' = pc /\ pc[t] \notin {"closing", "cleaning"}
    BY <1>10 DEF RpcTimeOut, Locking
  <2>2. CASE u = t
    BY <2>1, <2>2 DEF Closer
  <2>3. CASE u # t
    <3>1. reply'[u] = reply[u]
      BY <1>10, <2>3 DEF RpcTimeOut, LockType
    <3>2. ASSUME NEW a \in Addresses, NEW k \in DOMAIN inbox'[a], inbox'[a][k].from = u
          PROVE  \E j \in DOMAIN inbox[a] : inbox[a][j].from = u
      <4>1. inbox'[a] = inbox[a]
            \/ inbox'[a] = [j \in DOMAIN inbox[a] |->
                               IF inbox[a][j].from = t THEN [inbox[a][j] EXCEPT !.from = None]
                               ELSE inbox[a][j]]
        BY <1>10 DEF RpcTimeOut, LockType
      <4>2. \A j \in DOMAIN inbox[a] : inbox[a][j] \in Requests
        BY DEF LockType
      <4>3. \A q \in Requests : [q EXCEPT !.from = None].from = None
        BY DEF Requests
      <4>4. CASE inbox'[a] = [j \in DOMAIN inbox[a] |->
                               IF inbox[a][j].from = t THEN [inbox[a][j] EXCEPT !.from = None]
                               ELSE inbox[a][j]]
        <5>1. k \in DOMAIN inbox[a]
          BY <4>4
        <5>2. inbox[a][k].from # t
          BY <3>2, <4>2, <4>3, <4>4, <5>1, LibraryAssumption
        <5> QED
          BY <3>2, <4>4, <5>1, <5>2
      <4> QED
        BY <3>2, <4>1, <4>4
    <3> QED
      BY <1>0, <2>1, <3>1, <3>2, CloserStays
  <2> QED
    BY <2>2, <2>3
<1>11. ASSUME NEW a \in Addresses, Serve(a) PROVE Closer(u)'
  <2>1. inbox[a] \in Seq(Requests) /\ inbox[a] # <<>> /\ pc' = pc
    BY <1>11 DEF Serve, LockType
  <2>2. ASSUME NEW b \in Addresses, NEW k \in DOMAIN inbox'[b], inbox'[b][k].from = u
        PROVE  \E j \in DOMAIN inbox[b] : inbox[b][j].from = u
    <3>1. inbox'[b] = inbox[b] \/ (b = a /\ inbox'[b] = Tail(inbox[b]))
      BY <1>11 DEF Serve, LockType
    <3>2. /\ DOMAIN Tail(inbox[a]) = 1 .. (Len(inbox[a]) - 1) /\ Len(inbox[a]) \in Nat
          /\ \A j \in 1 .. (Len(inbox[a]) - 1) : Tail(inbox[a])[j] = inbox[a][j + 1]
          /\ DOMAIN inbox[a] = 1 .. Len(inbox[a])
      BY <2>1, Queues
    <3>3. CASE b = a /\ inbox'[b] = Tail(inbox[b])
      <4>1. k \in 1 .. (Len(inbox[a]) - 1) /\ k + 1 \in DOMAIN inbox[a] /\ inbox[a][k + 1].from = u
        BY <2>2, <3>2, <3>3
      <4> QED
        BY <3>3, <4>1
    <3> QED
      BY <2>2, <3>1, <3>3
  <2>3. pc[u] \in {"closing", "cleaning"} => reply'[u] = reply[u]
    <3>1. reply' = reply \/ \E x \in {"ok", "error"} :
                  reply' = [reply EXCEPT ![inbox[a][1].from] = x]
      <4> DEFINE r == Head(inbox[a])
      <4>1. reply' = reply \/ \E x \in {"ok", "error"} : reply' = [reply EXCEPT ![r.from] = x]
        BY <1>11 DEF Serve
      <4>2. r = inbox[a][1]
        BY <2>1
      <4> QED
        BY <4>1, <4>2
    <3>2. 1 \in DOMAIN inbox[a]
      BY <2>1, Queues
    <3>3. pc[u] \in {"closing", "cleaning"} => inbox[a][1].from # u
      BY <1>0, <3>2 DEF Closer
    <3> QED
      BY <3>1, <3>3 DEF LockType
  <2> QED
    BY <1>0, <2>1, <2>2, <2>3, CloserStays
<1>12. ASSUME NEW a \in Addresses, ServerDies(a) PROVE FALSE
  BY <1>12 DEF ServerDies, Calm
<1>13. ASSUME NEW a \in Addresses, OtherLocks(a) PROVE Closer(u)'
  BY <1>0, <1>13 DEF OtherLocks, Closer
<1>14. CASE UNCHANGED libVars
  BY <1>0, <1>14 DEF Closer
<1> QED
  BY <1>1, <1>2, <1>4, <1>5, <1>7, <1>8, <1>9, <1>10, <1>11, <1>12, <1>13, <1>14
  DEF LibNext, Step

-----------------------------------------------------------------------------
(* Steps that leave the locks alone.                                       *)

\* meOpen() begins, ends, and meClose() of a thread that is not the last.
LEMMA OpenLockLocks ==
    ASSUME FilesInv, LockType, LockFacts, NEW t \in Threads, OpenLock(t)
    PROVE  LockFacts'
<1> USE DEF cfgVars, drvVars
<1>1. /\ UNCHANGED <<conf, config, contexts, list, lock, inbox, rpc, reply, how, ctx>>
      /\ pc[t] = "idle" /\ mutex = None /\ pc' = [pc EXCEPT ![t] = IF Counted = 0 THEN "opening" ELSE "opened"]
      /\ idx' = [idx EXCEPT ![t] = 1] /\ count' = Counted
  BY DEF OpenLock, Calling, Goto
<1>2. FileType /\ Listed /\ \A u \in Threads : pc[u] \notin Sections
  BY <1>1, LibraryAssumption DEF FilesInv, Stages, LockFacts
<1>3. Counted = 0 => contexts = <<>>
  BY <1>2 DEF Listed, Counted, Sections, FileType
<1>4. count' <= 0 => contexts = <<>>
  BY <1>1, <1>2, <1>3 DEF Counted, FileType
<1>5. reply[t] = "none"
  BY <1>1, NotWaiting
<1>6. \A u \in Threads \ {t} : pc'[u] = pc[u] /\ idx'[u] = idx[u] /\ ctx'[u] = ctx[u] /\ how'[u] = how[u]
  BY <1>1, <1>2 DEF FileType
<1>7. pc'[t] \in {"opening", "opened"} /\ (pc'[t] = "opening" => contexts = <<>>)
  BY <1>1, <1>2, <1>3 DEF FileType
<1>8. /\ ~ Locking(t) /\ ~ Locking(t)' /\ pc'[t] # "calling"
      /\ UNCHANGED <<conf, config, contexts, list, lock, inbox, rpc, reply>>
  BY <1>1, <1>7 DEF Locking
<1>9. DOMAIN ctx' = Threads /\ DOMAIN how' = Threads /\ (contexts = <<>> => DOMAIN contexts = {})
  BY <1>1 DEF LockType
<1>10. count' <= 0 /\ (\A u \in Threads : pc'[u] # "opening") => contexts = <<>>
  BY <1>4
<1> QED
  BY <1>2, <1>5, <1>6, <1>7, <1>8, <1>9, <1>10, BesideLocks

LEMMA OpenEndLocks ==
    ASSUME FilesInv, LockType, LockFacts, NEW t \in Threads, OpenEnd(t)
    PROVE  LockFacts'
<1> USE DEF cfgVars, drvVars
<1>1. /\ UNCHANGED <<conf, config, contexts, list, lock, inbox, rpc, reply, how>>
      /\ pc[t] \in {"opening", "opened"} /\ count' = count + 1 /\ Return(t)
  BY DEF OpenEnd
<1>2. FileType /\ Listed /\ count \in Int
  BY DEF FilesInv, LockFacts, FileType
<1>3. \A u \in Threads \ {t} : pc[u] # "opening"
  BY <1>1, LibraryAssumption DEF FilesInv, Stages, Sections
<1>4. count' <= 0 /\ (\A u \in Threads : pc'[u] # "opening") => contexts = <<>>
  BY <1>1, <1>2 DEF FilesInv, Stages
<1>5. reply[t] = "none"
  BY <1>1, NotWaiting
<1>6. \A u \in Threads \ {t} : pc'[u] = pc[u] /\ idx'[u] = idx[u] /\ ctx'[u] = ctx[u] /\ how'[u] = how[u]
  BY <1>1 DEF Return
<1>7. pc'[t] = "idle" /\ DOMAIN ctx' = Threads /\ DOMAIN how' = Threads
  BY <1>1, <1>2 DEF FileType, Return, LockType
<1>8. ~ Locking(t) /\ ~ Locking(t)' /\ UNCHANGED <<conf, config, contexts, list, lock, inbox, rpc, reply>>
  BY <1>1, <1>7 DEF Locking
<1> QED
  BY <1>2, <1>4, <1>5, <1>6, <1>7, <1>8, BesideLocks

LEMMA CloseLocks ==
    ASSUME FilesInv, LockType, LockFacts, Steady', NEW t \in Threads, CloseLock(t) \/ CloseEnd(t)
    PROVE  LockFacts'
<1> USE DEF cfgVars, drvVars
<1>1. /\ UNCHANGED <<conf, config, contexts, list, lock, inbox, rpc, reply, how>>
      /\ pc[t] \in {"idle", "closed"} /\ pc'[t] \in {"idle", "closed"} /\ DOMAIN ctx' = Threads
      /\ \A u \in Threads \ {t} : pc'[u] = pc[u] /\ idx'[u] = idx[u] /\ ctx'[u] = ctx[u]
  <2>1. FileType /\ pc'[t] \notin {"closing", "cleaning"}
    BY DEF FilesInv, Steady
  <2>2. CASE CloseLock(t)
    BY <2>1, <2>2 DEF CloseLock, Calling, Goto, LockType, FileType
  <2>3. CASE CloseEnd(t)
    BY <2>1, <2>3 DEF CloseEnd, Return, LockType, FileType
  <2> QED
    BY <2>2, <2>3
<1>2. FileType /\ Listed /\ count \in Int
  BY DEF FilesInv, LockFacts, FileType
<1>3. count' <= 0 => count <= 0
  <2>1. CASE CloseEnd(t)
    BY <2>1 DEF CloseEnd
  <2>2. CASE CloseLock(t)
    <3>1. count' = Counted - 1 /\ pc' = [pc EXCEPT ![t] = IF Counted - 1 = 0 THEN "closing" ELSE "closed"]
      BY <2>2 DEF CloseLock, Goto
    <3>2. Counted - 1 # 0
      BY <1>1, <1>2, <3>1 DEF FileType
    <3> QED
      BY <1>2, <3>1, <3>2 DEF Counted
  <2> QED
    BY <2>1, <2>2
<1>4. count' <= 0 /\ (\A u \in Threads : pc'[u] # "opening") => contexts = <<>>
  BY <1>1, <1>2, <1>3 DEF Listed
<1>5. reply[t] = "none"
  BY <1>1, NotWaiting
<1> QED
  BY <1>1, <1>2, <1>4, <1>5, BesideLocks DEF Locking, LockType

\* Calls that stay on this computer.
LEMMA CallLocks ==
    ASSUME FilesInv, LockType, LockFacts, NEW t \in Threads,
           CallResolve(t) \/ CallEnter(t) \/ CallLeave(t)
    PROVE  LockFacts'
<1> USE DEF cfgVars, drvVars
<1>1. FileType /\ Listed
  BY DEF FilesInv, LockFacts
<1>2. /\ UNCHANGED <<conf, config, contexts, list, lock, inbox, rpc, reply, how, count>>
      /\ pc[t] \in {"idle", "calling", "inside"} /\ pc'[t] \in {"idle", "calling", "inside"}
      /\ DOMAIN ctx' = Threads
      /\ \A u \in Threads \ {t} : pc'[u] = pc[u] /\ idx'[u] = idx[u] /\ ctx'[u] = ctx[u]
  <2>1. CASE CallResolve(t)
    BY <1>1, <2>1 DEF CallResolve, Calling, Goto, Return, LockType, FileType
  <2>2. CASE CallEnter(t)
    BY <1>1, <2>2 DEF CallEnter, Goto, Return, LockType, FileType
  <2>3. CASE CallLeave(t)
    BY <1>1, <2>3 DEF CallLeave, Goto, Return, LockType, FileType
  <2> QED
    BY <2>1, <2>2, <2>3
<1>3. pc'[t] = "calling" => ctx'[t] \in DOMAIN contexts
  <2>1. CASE CallResolve(t)
    <3>1. PICK logical \in 0 .. Len(config) :
              IF logical < Len(config) /\ config[logical + 1].in
              THEN /\ ctx' = [ctx EXCEPT ![t] = config[logical + 1].ctx]
                   /\ Goto(t, "calling")
                   /\ UNCHANGED <<script, idx>>
              ELSE Return(t)
      BY <2>1 DEF CallResolve
    <3>2. CASE logical < Len(config) /\ ctx' = [ctx EXCEPT ![t] = config[logical + 1].ctx]
      <4>1. logical + 1 \in DOMAIN config
        BY <1>1, <3>2 DEF FileType
      <4> QED
        BY <1>1, <3>2, <4>1 DEF Listed, LockType
    <3>3. CASE Return(t)
      BY <1>1, <3>3 DEF Return, FileType
    <3> QED
      BY <3>1, <3>2, <3>3
  <2>2. CASE CallEnter(t) \/ CallLeave(t)
    BY <1>1, <2>2 DEF CallEnter, CallLeave, Return, Goto, FileType
  <2> QED
    BY <2>1, <2>2
<1>4. reply[t] = "none"
  <2>1. CASE pc[t] \in {"idle", "inside"}
    BY <2>1, NotWaiting
  <2>2. CASE pc[t] = "calling"
    <3>1. ~ OfServer(Context(t))
      BY <2>2 DEF CallEnter, CallResolve, CallLeave, Calling, Context, Locking
    <3> QED
      BY <3>1, NotWaiting
  <2> QED
    BY <1>2, <2>1, <2>2
<1>5. count' <= 0 /\ (\A u \in Threads : pc'[u] # "opening") => contexts = <<>>
  BY <1>1, <1>2 DEF Listed
<1> QED
  BY <1>1, <1>2, <1>3, <1>4, <1>5, BesideLocks DEF Locking, LockType

\* ME_LockAll() begins.
LEMMA LockAllLocks ==
    ASSUME FilesInv, LockType, LockFacts, LockersApart', NEW t \in Threads, LockAll(t)
    PROVE  LockFacts'
<1> USE DEF cfgVars, drvVars
<1>1. FileType /\ Listed /\ Between
  BY DEF FilesInv, LockFacts
<1>2. PICK op \in Hows :
          /\ IF list.head /\ list.of # <<>>
             THEN /\ Goto(t, IF op \in {"set", "release"} THEN "checking" ELSE "locking")
                  /\ idx' = [idx EXCEPT ![t] = 1]
                  /\ UNCHANGED <<script, ctx>>
             ELSE Return(t)
          /\ how' = [how EXCEPT ![t] = op]
  BY DEF LockAll, Hows
<1>3. /\ UNCHANGED <<conf, config, contexts, list, lock, inbox, rpc, reply, count>>
      /\ pc[t] = "idle" /\ how'[t] = op /\ DOMAIN how' = Threads /\ reply[t] = "none"
      /\ DOMAIN ctx' = Threads
      /\ \A u \in Threads \ {t} :
                 pc'[u] = pc[u] /\ idx'[u] = idx[u] /\ ctx'[u] = ctx[u] /\ how'[u] = how[u]
  <2>1. UNCHANGED <<conf, config, contexts, list, lock, inbox, rpc, reply, count>> /\ pc[t] = "idle"
    BY DEF LockAll, Calling
  <2>2. how'[t] = op /\ DOMAIN how' = Threads /\ \A u \in Threads \ {t} : how'[u] = how[u]
    BY <1>2 DEF LockType
  <2>3. DOMAIN ctx' = Threads
        /\ \A u \in Threads \ {t} : pc'[u] = pc[u] /\ idx'[u] = idx[u] /\ ctx'[u] = ctx[u]
    BY <1>1, <1>2 DEF Return, Goto, LockType, FileType
  <2> QED
    BY <2>1, <2>2, <2>3, NotWaiting
<1>4. count' <= 0 /\ (\A u \in Threads : pc'[u] # "opening") => contexts = <<>>
  BY <1>1, <1>3 DEF Listed
<1>5. CASE Return(t)
  <2>1. pc'[t] = "idle"
    BY <1>1, <1>5 DEF Return, FileType
  <2> QED
    BY <1>1, <1>3, <1>4, <2>1, BesideLocks DEF Locking
<1>6. CASE /\ list.of # <<>> /\ idx' = [idx EXCEPT ![t] = 1]
           /\ Goto(t, IF op \in {"set", "release"} THEN "checking" ELSE "locking")
  <2>1. /\ pc'[t] = IF op \in {"set", "release"} THEN "checking" ELSE "locking"
        /\ idx'[t] = 1 /\ Locking(t)'
    BY <1>1, <1>6 DEF Goto, Locking, FileType
  <2>2. 1 \in DOMAIN list.of
    BY <1>6 DEF LockType
  <2>3. Listed' /\ Unlisted' /\ Link' /\ Holds /\ \A u \in Threads \ {t} : Phase(u)'
    BY <1>1, <1>3, <1>4, <2>1, <2>2, BesideLink
  <2>4. \A u \in Threads \ {t} : ~ Locking(u)' /\ pc'[u] # "opening"
    BY <2>1 DEF LockersApart
  <2>5. \A u \in Threads : ~ Locking(u)
    BY <1>3, <2>4 DEF Locking
  <2>6. OneWay(1)'
    <3>1. OneWay(1)
      BY <1>1, <2>5 DEF Between
    <3> QED
      BY <1>1, <1>3, <2>3, <3>1, Ways
  <2>7. KeptTo(1)' /\ FreedTo(1)'
    <3>1. \A k \in DOMAIN list'.of : ~ (k < 1)
      BY <1>3 DEF LockType
    <3> QED
      BY <3>1 DEF KeptTo, FreedTo
  <2>8. KeptTo(idx[t])'
    <3>1. \A m : m = idx'[t] => (KeptTo(m)' <=> KeptTo(idx[t])')
      BY DEF KeptTo
    <3> QED
      BY <2>1, <2>7, <3>1
  <2>9. Phase(t)'
    <3>1. CASE pc'[t] = "checking" /\ op \in {"set", "release"}
      BY <1>3, <2>6, <3>1 DEF Phase, Checks, Takes, Undoes, Drops
    <3>2. CASE pc'[t] = "locking" /\ op \in {"force set", "check"}
      BY <1>3, <2>6, <2>8, <3>2 DEF Phase, Checks, Takes, Undoes, Drops, Sets
    <3> QED
      BY <2>1, <3>1, <3>2 DEF Hows
  <2>10. Between'
    BY <2>1, <2>4 DEF Between, Locking
  <2> QED
    BY <2>3, <2>9, <2>10 DEF LockFacts
<1> QED
  BY <1>2, <1>5, <1>6

\* A driver that is opened was not locked.
LEMMA OpenDriverLocks ==
    ASSUME FilesInv, LockType, LockFacts, Steady, LockersApart, NEW t \in Threads, OpenDriver(t)
    PROVE  LockFacts'
<1> USE DEF cfgVars, drvVars
<1>1. PICK n \in Nat, a \in Addresses :
              n = idx[t] /\ a = conf[n] /\ n \in DOMAIN conf /\ pc[t] = "opening" /\ mutex = t
  BY DEF OpenDriver, FilesInv, FileType, Stages, Sections
<1>2. /\ FileType /\ Listed /\ Unlisted /\ Asked /\ NoClose /\ Between
      /\ \A u \in Threads : Waits(u)
      /\ \A u \in Threads : ~ Locking(u)
  <2>1. \A u \in Threads : ~ Locking(u)
    BY <1>1 DEF LockersApart, Locking
  <2> QED
    BY <2>1 DEF FilesInv, LockFacts, Link
<1>3. /\ UNCHANGED <<conf, present, lock, inbox, rpc, reply, how, ctx, pc, count>>
      /\ idx'[t] = n + 1 /\ \A u \in Threads \ {t} : idx'[u] = idx[u]
  BY <1>1, <1>2 DEF OpenDriver, FileType
<1>4. a \in Addresses /\ a \notin Behind(n) /\ Behind(n + 1)' = Behind(n) \cup {a}
  <2>1. \A j \in DOMAIN conf : j \in Nat /\ (j < n + 1 <=> j < n \/ j = n)
    BY <1>1, <1>2 DEF FileType
  <2>2. \A j \in DOMAIN conf : conf[j] = a => j = n
    BY <1>1, <1>2 DEF FileType, IsInjective
  <2>3. a \in Addresses
    BY <1>1, <1>2 DEF FileType
  <2> QED
    BY <1>1, <1>3, <2>1, <2>2, <2>3 DEF Behind
<1>5. CASE a \notin present
  <2>1. UNCHANGED <<conf, config, contexts, list, lock, inbox, rpc, reply>>
    BY <1>1, <1>3, <1>5 DEF OpenDriver
  <2>2. reply[t] = "none"
    BY <1>1, NotWaiting
  <2>3. \A c \in DOMAIN contexts : AddressOf(c) \in Behind(idx'[t])
    <3>1. Behind(n + 1)' = Behind(n + 1)
      BY <1>3 DEF Behind
    <3> QED
      BY <1>1, <1>2, <1>3, <1>4, <3>1 DEF Listed
  <2>4. DOMAIN how' = Threads /\ DOMAIN ctx' = Threads
    BY <1>3 DEF LockType
  <2>5. ~ Locking(t) /\ ~ Locking(t)' /\ pc'[t] = "opening"
    BY <1>1, <1>3 DEF Locking
  <2> QED
    BY <1>1, <1>2, <1>3, <2>1, <2>2, <2>3, <2>4, <2>5, BesideLocks
<1>6. CASE a \in present
  <2> DEFINE D == DOMAIN contexts
  <2>0. PICK c : c = Len(contexts) + 1
    OBVIOUS
  <2>1. /\ contexts' = Append(contexts, [addr |-> a, fd |-> TRUE, freed |-> FALSE])
        /\ config' = config \o ConfigRead(c, a)
        /\ list' = [list EXCEPT !.of = Append(@, c)]
    BY <1>1, <1>3, <1>6, <2>0 DEF OpenDriver, ConfigJoin, ContextAppend, Steady, Calm
  <2>2. /\ c \notin D /\ DOMAIN contexts' = D \cup {c}
        /\ \A d \in D : contexts'[d] = contexts[d] /\ AddressOf(d)' = AddressOf(d)
        /\ AddressOf(c)' = a
    <3>1. contexts \in Seq(LibContexts)
      BY <1>2 DEF FileType
    <3>2. c \notin D /\ DOMAIN contexts' = D \cup {c}
      BY <2>0, <2>1, <3>1
    <3>3. \A d \in D : contexts'[d] = contexts[d]
      BY <2>0, <2>1, <3>1
    <3>4. contexts'[c].addr = a
      BY <2>0, <2>1, <3>1
    <3> QED
      BY <3>2, <3>3, <3>4 DEF AddressOf
  <2>3. /\ DOMAIN list'.of = D \cup {c}
        /\ \A k \in DOMAIN list'.of : list'.of[k] = k
        /\ \A k \in D : k \in DOMAIN list.of /\ list.of[k] = k
    <3>1. /\ list.of \in Seq(Nat) /\ DOMAIN list.of = D /\ Len(contexts) \in Nat
          /\ DOMAIN contexts = 1 .. Len(contexts) /\ \A k \in DOMAIN list.of : list.of[k] = k
      BY <1>2 DEF LockType, Listed, FileType
    <3>2. Len(list.of) = Len(contexts)
      BY <3>1
    <3>3. list'.of = Append(list.of, c)
      BY <2>1 DEF LockType
    <3> QED
      BY <2>0, <3>1, <3>2, <3>3
  <2>4. \A k \in DOMAIN config' : config'[k].ctx \in D \cup {c}
    <3>1. config \in Seq(Entries) /\ \A k \in DOMAIN config : config[k].ctx \in D
      BY <1>2 DEF Listed, FileType
    <3>2. Plugged[a] \in Seq(BOOLEAN) /\ c \in Nat
      BY <1>2, <1>4, <2>0, LibraryAssumption DEF FileType
    <3>3. PICK P \in Nat : DOMAIN Plugged[a] = 1 .. P
      BY <3>2
    <3>4. PICK r \in Seq(Entries) : r = ConfigRead(c, a)
      <4>1. ConfigRead(c, a) \in [1 .. P -> Entries]
        BY <3>2, <3>3 DEF ConfigRead, Entries
      <4> QED
        BY <4>1
    <3>5. \A k \in DOMAIN r : r[k].ctx = c
      BY <3>4 DEF ConfigRead
    <3>6. PICK N \in Nat, M \in Nat :
                  N = Len(config) /\ M = Len(r) /\ DOMAIN r = 1 .. M /\ DOMAIN config = 1 .. N
      BY <3>1, <3>4
    <3>7. /\ DOMAIN config' = 1 .. (N + M)
          /\ \A k \in 1 .. N : config'[k] = config[k]
          /\ \A k \in (N + 1) .. (N + M) : config'[k] = r[k - N]
      BY <2>1, <3>4, <3>6, Joined
    <3>8. \A k \in 1 .. (N + M) : k \in 1 .. N \/ (k \in (N + 1) .. (N + M) /\ k - N \in 1 .. M)
      OBVIOUS
    <3> QED
      BY <3>1, <3>5, <3>6, <3>7, <3>8
  <2> HIDE DEF D
  <2>5. /\ \A d \in D : AddressOf(d) \in Behind(n)
        /\ \A u \in Threads : pc[u] = "opening" => u = t
        /\ \A u \in Threads : Locking(u)' <=> Locking(u)
    <3>1. \A d \in D : AddressOf(d) \in Behind(n)
      BY <1>1, <1>2 DEF Listed, D
    <3>2. \A u \in Threads : pc[u] = "opening" => u = t
      BY <1>1 DEF FilesInv, Stages, Sections
    <3> QED
      BY <1>3, <3>1, <3>2 DEF Locking
  <2>6. Listed'
    <3>1. DOMAIN list'.of = DOMAIN contexts' /\ \A k \in DOMAIN list'.of : list'.of[k] = k
      BY <2>2, <2>3
    <3>2. \A e, d \in DOMAIN contexts' : AddressOf(e)' = AddressOf(d)' => e = d
      <4>1. \A e, d \in D : AddressOf(e)' = AddressOf(d)' => e = d
        BY <1>2, <2>2 DEF Listed, D
      <4>2. \A d \in D : AddressOf(d)' # AddressOf(c)'
        BY <1>4, <2>2, <2>5
      <4> QED
        BY <2>2, <4>1, <4>2
    <3>3. \A u \in Threads : pc'[u] = "opening" => \A d \in DOMAIN contexts' :
                  AddressOf(d)' \in Behind(idx[u])'
      <4>1. \A m : m = idx'[t] => Behind(m)' = Behind(idx[t])'
        BY DEF Behind
      <4>2. \A d \in DOMAIN contexts' : AddressOf(d)' \in Behind(idx[t])'
        BY <1>3, <1>4, <2>2, <2>5, <4>1
      <4> QED
        BY <1>3, <2>5, <4>2
    <3>4. \A u \in Threads : ~ Locking(u)' /\ (pc'[u] = "calling" => ctx'[u] \in DOMAIN contexts')
      BY <1>2, <1>3, <2>2, <2>5 DEF Listed, D
    <3>5. \A k \in DOMAIN config' : config'[k].ctx \in DOMAIN contexts'
      BY <2>2, <2>4
    <3>6. pc'[t] = "opening"
      BY <1>1, <1>3
    <3> QED
      BY <3>1, <3>2, <3>3, <3>4, <3>5, <3>6 DEF Listed
  <2>7. Unlisted'
    <3>1. \A b \in Addresses : (\A d \in DOMAIN contexts' : AddressOf(d)' # b) => \A d \in D :
                  AddressOf(d) # b
      BY <2>2
    <3>2. \A b : (Ours(b)' <=> Ours(b)) /\ inbox'[b] = inbox[b]
      BY <1>3 DEF Ours
    <3> QED
      BY <1>2, <3>1, <3>2 DEF Unlisted, D
  <2>8. \A u \in Threads : /\ reply[u] # "none" => Own(u)' = Own(u) /\ (OfServer(Context(u))' <=> OfServer(Context(u)))
                           /\ reply[u] # "none" => pc[u] = "calling"
                           /\ pc[u] = "calling" => Op(u)' = Op(u)
    <3>1. \A u \in Threads : reply[u] # "none" => pc[u] = "calling" /\ ctx[u] \in D
      BY <1>2 DEF Waits, Listed, D
    <3>2. \A u \in Threads : Context(u) = ctx[u] /\ Context(u)' = ctx[u]
      BY <1>2, <1>3, <2>5 DEF Context
    <3>3. \A u \in Threads : ctx[u] \in D => AddressOf(ctx[u])' = AddressOf(ctx[u])
      BY <1>3, <2>2 DEF AddressOf
    <3>4. \A u \in Threads : Own(u)' = AddressOf(ctx[u])' /\ Own(u) = AddressOf(ctx[u])
                             /\ (OfServer(Context(u))' <=> AddressOf(ctx[u])' \in Servers)
                             /\ (OfServer(Context(u)) <=> AddressOf(ctx[u]) \in Servers)
      <4>1. ASSUME NEW u \in Threads PROVE AddressOf(Context(u))' = AddressOf(ctx[u])'
        BY <1>3, <3>2 DEF AddressOf
      <4> QED
        BY <3>2, <4>1 DEF Own, OfServer
    <3>5. \A u \in Threads : pc[u] = "calling" => Op(u)' = Op(u)
      BY <1>3 DEF Op
    <3> QED
      BY <3>1, <3>3, <3>4, <3>5
  <2>9. Link'
    <3>1. NoClose'
      BY <1>2, <1>3 DEF NoClose
    <3>2. Asked'
      BY <1>2, <1>3, <2>8 DEF Asked
    <3>3. ASSUME NEW u \in Threads PROVE Waits(u)'
      BY <1>2, <1>3, <2>5, <2>8 DEF Waits
    <3> QED
      BY <3>1, <3>2, <3>3 DEF Link
  <2>10. FreedFrom(1)'
    <3>1. FreedFrom(1)
      BY <1>1, <1>2 DEF Between
    <3>2. \A b : Freed(b)' <=> Freed(b)
      BY <1>3 DEF Freed, Ours
    <3>3. Freed(a)
      <4>1. ~ Ours(a) /\ inbox[a] = <<>>
        BY <1>2, <1>4, <2>5 DEF Unlisted, D
      <4> QED
        BY <4>1 DEF Freed, No
    <3>4. ASSUME NEW k \in DOMAIN list'.of, k >= 1 PROVE Freed(At(k))'
      <4>1. At(k)' = AddressOf(k)'
        BY <2>3, <3>4 DEF At, AddressOf
      <4>2. Freed(At(k))' <=> Freed(At(k)')
        BY <1>3 DEF Freed, Ours
      <4>3. CASE k = c
        BY <2>2, <3>3, <4>1, <4>2, <4>3
      <4>4. CASE k \in D
        <5>1. AddressOf(k)' = AddressOf(k) /\ At(k) = AddressOf(k) /\ k \in DOMAIN list.of
          BY <2>2, <2>3, <4>4 DEF At
        <5>2. Freed(At(k))
          BY <3>1, <3>4, <5>1 DEF FreedFrom
        <5> QED
          BY <4>1, <4>2, <5>1, <5>2
      <4> QED
        BY <2>3, <4>3, <4>4
    <3> QED
      BY <3>4 DEF FreedFrom
  <2>11. \A u \in Threads : Phase(u)'
    BY <1>2, <2>5, PhaseNone
  <2> QED
    BY <2>6, <2>7, <2>9, <2>10, <2>11 DEF LockFacts, Between, OneWay
<1> QED
  BY <1>5, <1>6

-----------------------------------------------------------------------------
(* The step of a loop, here or after the answer of a server.               *)

\* Nothing happens to the other drivers of the list.
Undisturbed(n) == \A b \in Addresses \ {At(n)} : (Kept(b) => Kept(b)') /\ (Freed(b) => Freed(b)')

\* One driver of the list further.
LEMMA OneFurther ==
    ASSUME FileType, Listed, UNCHANGED <<contexts, list>>, NEW n \in Nat, n \in DOMAIN list.of,
           Undisturbed(n),
           list.of \in Seq(Nat)
    PROVE  /\ KeptFrom(n) => Kept(At(n)) /\ KeptFrom(n + 1)
           /\ FreedFrom(n) => Freed(At(n)) /\ FreedFrom(n + 1)
           /\ KeptFrom(n + 1) => KeptFrom(n + 1)'
           /\ FreedFrom(n + 1) => FreedFrom(n + 1)'
           /\ KeptTo(n) /\ Kept(At(n))' => KeptTo(n + 1)'
           /\ FreedTo(n) /\ Freed(At(n))' => FreedTo(n + 1)'
<1>1. \A k \in DOMAIN list.of : /\ k \in Nat /\ (k >= n + 1 => k # n /\ k >= n) /\ (k < n + 1 => k < n \/ k = n)
                                /\ n >= n /\ (k < n => k # n)
  OBVIOUS
<1>2. \A k \in DOMAIN list.of : At(k)' = At(k) /\ At(k) \in Addresses /\ (k # n => At(k) # At(n))
  <2>1. \A k \in DOMAIN list.of : At(k)' = At(k)
    BY DEF At, AddressOf
  <2> QED
    BY <2>1, Apart
<1>3. \A k \in DOMAIN list.of : \A b : b = At(k) =>
              (Kept(At(k))' <=> Kept(b)') /\ (Freed(At(k))' <=> Freed(b)')
  BY <1>2 DEF Kept, Freed, Ours
<1>4. \A k \in DOMAIN list.of : k # n => (Kept(At(k)) => Kept(At(k))') /\ (Freed(At(k)) => Freed(At(k))')
  BY <1>2, <1>3 DEF Undisturbed
<1>5. list' = list
  OBVIOUS
<1>6. KeptFrom(n) => Kept(At(n)) /\ KeptFrom(n + 1)
  BY <1>1 DEF KeptFrom
<1>7. FreedFrom(n) => Freed(At(n)) /\ FreedFrom(n + 1)
  BY <1>1 DEF FreedFrom
<1>8. KeptFrom(n + 1) => KeptFrom(n + 1)'
  BY <1>1, <1>4, <1>5 DEF KeptFrom
<1>9. FreedFrom(n + 1) => FreedFrom(n + 1)'
  BY <1>1, <1>4, <1>5 DEF FreedFrom
<1>10. KeptTo(n) /\ Kept(At(n))' => KeptTo(n + 1)'
  BY <1>1, <1>4, <1>5 DEF KeptTo
<1>11. FreedTo(n) /\ Freed(At(n))' => FreedTo(n + 1)'
  BY <1>1, <1>4, <1>5 DEF FreedTo
<1> QED
  BY <1>6, <1>7, <1>8, <1>9, <1>10, <1>11

\* A thread has its answer, or needed none.
Taken(t) ==
    /\ UNCHANGED <<conf, config, contexts, list, count, inbox, how>>
    /\ reply' = [reply EXCEPT ![t] = "none"]
    /\ rpc' = rpc \/ (reply[t] # "none" /\ rpc' = [rpc EXCEPT ![Own(t)] = None])
    /\ \A b \in Addresses \ {Own(t)} : lock'[b] = lock[b]
    /\ \A u \in Threads \ {t} : pc'[u] = pc[u] /\ idx'[u] = idx[u] /\ ctx'[u] = ctx[u]

\* What the others see of it.
LEMMA AnswerTaken ==
    ASSUME FileType, LockType, LockFacts, NEW t \in Threads, Locking(t) \/ pc[t] = "calling",
           reply[t] # "sent", Taken(t), pc'[t] \notin {"calling", "opening"},
           Locking(t)' => idx'[t] \in DOMAIN list.of
    PROVE  Listed' /\ Unlisted' /\ Link'
<1> USE DEF Taken
<1>1. Listed /\ Unlisted /\ Asked /\ NoClose /\ \A u \in Threads : Waits(u)
  BY DEF LockFacts, Link
<1>2. \A u \in Threads \ {t} : /\ Locking(u)' <=> Locking(u)
                               /\ Context(u)' = Context(u) /\ Own(u)' = Own(u)
                               /\ Op(u)' = Op(u)
  BY DEF Locking, Context, Own, AddressOf, Op
<1>3. NoClose'
  BY <1>1 DEF NoClose
<1>4. Listed'
  <2>1. \A c : AddressOf(c)' = AddressOf(c)
    BY DEF AddressOf
  <2>2. ASSUME NEW u \in Threads, pc'[u] = "opening", NEW c \in DOMAIN contexts
        PROVE  AddressOf(c)' \in Behind(idx[u])'
    <3>1. u # t /\ pc[u] = "opening"
      BY <2>2
    <3>2. Behind(idx[u])' = Behind(idx[u])
      BY <3>1 DEF Behind
    <3> QED
      BY <1>1, <2>1, <3>1, <3>2 DEF Listed
  <2>3. ASSUME NEW u \in Threads
        PROVE  /\ Locking(u)' => idx'[u] \in DOMAIN list.of
               /\ pc'[u] = "calling" => ctx'[u] \in DOMAIN contexts
    BY <1>1, <1>2 DEF Listed
  <2>4. count' <= 0 /\ (\A u \in Threads : pc'[u] # "opening") => contexts = <<>>
    <3>1. (\A u \in Threads : pc'[u] # "opening") => \A u \in Threads : pc[u] # "opening"
      BY DEF Locking
    <3> QED
      BY <1>1, <3>1 DEF Listed
  <2> QED
    BY <1>1, <2>1, <2>2, <2>3, <2>4 DEF Listed
<1>5. Unlisted'
  <2>1. Context(t) \in DOMAIN contexts
    <3>1. CASE Locking(t)
      BY <1>1, <3>1, Apart DEF Context, Listed
    <3>2. CASE pc[t] = "calling"
      BY <1>1, <3>2 DEF Context, Listed, Locking
    <3> QED
      BY <3>1, <3>2
  <2>2. \A b \in Addresses \ {Own(t)} : Ours(b)' <=> Ours(b)
    BY DEF Ours
  <2>3. \A b \in Addresses : (\A c \in DOMAIN contexts' : AddressOf(c)' # b) =>
            b # Own(t) /\ \A c \in DOMAIN contexts : AddressOf(c) # b
    BY <2>1 DEF Own, AddressOf
  <2> QED
    BY <1>1, <2>2, <2>3 DEF Unlisted
<1>6. Asked'
  <2> SUFFICES ASSUME NEW a \in Addresses, NEW k \in DOMAIN inbox[a], NEW u \in Threads,
                      inbox[a][k].from = u
               PROVE  reply'[u] = "sent" /\ a = Own(u)' /\ k = Len(inbox[a])
    BY DEF Asked
  <2>1. reply[u] = "sent" /\ a = Own(u) /\ k = Len(inbox[a])
    BY <1>1 DEF Asked
  <2>2. u # t
    BY <2>1
  <2> QED
    BY <1>2, <2>1, <2>2 DEF LockType
<1>7. ASSUME NEW u \in Threads PROVE Waits(u)'
  <2>1. CASE u = t
    <3>1. reply'[u] = "none"
      BY <2>1 DEF LockType
    <3> QED
      BY <3>1 DEF Waits
  <2>2. CASE u # t
    <3>1. reply'[u] = reply[u] /\ (OfServer(Context(u))' <=> OfServer(Context(u)))
      BY <1>2, <2>2 DEF OfServer, AddressOf, LockType
    <3>2. OfServer(Context(u)) /\ rpc[Own(u)] = u => rpc'[Own(u)] = u
      <4>1. reply[t] # "none" => rpc[Own(t)] = t
        BY <1>1 DEF Waits
      <4>2. OfServer(Context(u)) => Own(u) \in Addresses
        BY LibraryAssumption DEF OfServer, Own
      <4>3. reply[t] # "none" /\ rpc[Own(u)] = u => Own(u) # Own(t)
        BY <2>2, <4>1
      <4>4. rpc' = rpc \/ (reply[t] # "none" /\ rpc' = [rpc EXCEPT ![Own(t)] = None])
        OBVIOUS
      <4> QED
        BY <4>2, <4>3, <4>4 DEF LockType
    <3>3. /\ reply[u] # "none" => /\ Locking(u) \/ pc[u] = "calling"
                                  /\ OfServer(Context(u)) /\ rpc[Own(u)] = u
          /\ reply[u] = "sent" =>
                 Len(inbox[Own(u)]) > 0 /\ inbox[Own(u)][Len(inbox[Own(u)])].op = Op(u)
                                        /\ inbox[Own(u)][Len(inbox[Own(u)])].from = u
      BY <1>1 DEF Waits
    <3> QED
      BY <1>2, <2>2, <3>1, <3>2, <3>3 DEF Waits
  <2> QED
    BY <2>1, <2>2
<1> QED
  BY <1>3, <1>4, <1>5, <1>6, <1>7 DEF Link

\* The loops of one thread leave the others alone.
LEMMA LoopOthers ==
    ASSUME FileType, LockType, NEW t \in Threads, NEW failed, LockNext(t, failed)
    PROVE  \A u \in Threads \ {t} : pc'[u] = pc[u] /\ idx'[u] = idx[u] /\ ctx'[u] = ctx[u]
<1>1. ctx' = ctx \/ ctx' = [ctx EXCEPT ![t] = 0]
  BY Zenon DEF LockNext, Return
<1>2. pc' = pc \/ \E l : pc' = [pc EXCEPT ![t] = l]
  BY LoopWays DEF Return, Starts, Goto, GoesOn
<1>3. idx' = [idx EXCEPT ![t] = 0] \/ idx' = [idx EXCEPT ![t] = 1] \/ idx' = [idx EXCEPT ![t] = @ + 1]
  BY LoopWays DEF Return, Starts, Goto, GoesOn
<1> QED
  BY <1>1, <1>2, <1>3 DEF FileType, LockType

\* A step of a loop that has done what it should leaves the locks all or none.
LEMMA LoopStep ==
    ASSUME FileType, LockType, LockFacts, LockersApart, NEW t \in Threads, NEW failed \in BOOLEAN,
           Locking(t), reply[t] # "sent", Taken(t), LockNext(t, failed), Done(t, idx[t], failed)
    PROVE  LockFacts'
<1>1. /\ Listed /\ Between /\ Phase(t) /\ UNCHANGED <<contexts, list, how>> /\ list.of \in Seq(Nat)
      /\ DOMAIN how = Threads /\ how[t] \in Hows /\ reply'[t] = "none"
      /\ pc[t] = "checking" => how[t] \in {"set", "release"}
  BY DEF LockFacts, LockType, Taken, Phase
<1>2. PICK n \in Nat : n = idx[t] /\ n \in DOMAIN list.of /\ Done(t, n, failed)
  BY <1>1 DEF Listed, FileType
<1>3. Phase(t)' /\ (~ Locking(t)' => OneWay(1)')
  BY <1>1, <1>2, LoopGoesOn
<1>4. \A u \in Threads \ {t} : ~ Locking(u) /\ pc[u] # "opening" /\ pc'[u] = pc[u]
  BY LoopOthers DEF LockersApart
<1>5. \A u \in Threads \ {t} : ~ Locking(u)' /\ pc'[u] # "opening"
  BY <1>4 DEF Locking
<1>6. pc'[t] \notin {"calling", "opening"}
  BY LoopWays DEF Return, Starts, Goto, GoesOn, FileType, Locking
<1>7. Locking(t)' => idx'[t] \in DOMAIN list.of
  <2>1. DOMAIN list.of = 1 .. Len(list.of) /\ Len(list.of) \in Nat /\ idx[t] \in 1 .. Len(list.of)
    BY <1>1, <1>2
  <2>2. CASE Return(t)
    BY <2>2 DEF Return, Locking, FileType
  <2>3. CASE idx' = [idx EXCEPT ![t] = 1]
    BY <2>1, <2>3 DEF FileType
  <2>4. CASE idx' = [idx EXCEPT ![t] = @ + 1] /\ idx[t] # Len(list.of)
    BY <2>1, <2>4 DEF FileType
  <2> QED
    BY <2>2, <2>3, <2>4, LoopWays DEF Starts, GoesOn
<1>8. Listed' /\ Unlisted' /\ Link'
  BY <1>6, <1>7, AnswerTaken
<1>9. \A u \in Threads \ {t} : Phase(u)'
  BY <1>5, PhaseNone
<1>10. Between'
  BY <1>3, <1>5, <1>6 DEF Between
<1> QED
  BY <1>3, <1>8, <1>9, <1>10 DEF LockFacts

-----------------------------------------------------------------------------
\* A driver of this computer whose lock was asked.
LEMMA LocalDriver ==
    ASSUME LockType, NEW a \in Addresses, inbox[a] = <<>>, inbox'[a] = <<>>, NEW op,
           NEW force \in BOOLEAN,
           NEW refused \in BOOLEAN, LockDriver(a, op, force, refused), ~ stuck'
    PROVE  /\ Kept(a) <=> Ours(a)
           /\ Kept(a)' <=> Ours(a)'
           /\ Freed(a) <=> ~ Ours(a)
           /\ Freed(a)' <=> ~ Ours(a)'
           /\ op = "check" => (Ours(a)' <=> Ours(a))
           /\ op = "set" /\ ~ refused => Ours(a)'
           /\ op = "release" => ~ Ours(a)' /\ (refused => ~ Ours(a))
<1>1. (Kept(a) <=> Ours(a)) /\ (Freed(a) <=> ~ Ours(a))
  BY DEF Kept, Freed, No, Releases
<1>2. (Kept(a)' <=> Ours(a)') /\ (Freed(a)' <=> ~ Ours(a)')
  BY DEF Kept, Freed, No, Releases
<1>3. lock'[a] = IF refused THEN lock[a] ELSE Locked(a, op, force)
  BY DEF LockDriver, LockType
<1>4. op = "check" => (Ours(a)' <=> Ours(a))
  BY <1>3 DEF Ours, Locked
<1>5. op = "set" /\ ~ refused => Ours(a)'
  BY <1>3 DEF Ours, Locked
<1>6. op = "release" /\ refused => ~ Ours(a)
  BY DEF LockDriver
<1>7. op = "release" => ~ Ours(a)'
  BY <1>3, <1>6 DEF Ours, Locked
<1> QED
  BY <1>1, <1>2, <1>4, <1>5, <1>6, <1>7

\* In which loop which request is made.
LEMMA OpOf ==
    ASSUME NEW t
    PROVE  /\ Checks(t) => Op(t) = "check"
           /\ Takes(t) => Op(t) = "set"
           /\ Undoes(t) \/ Drops(t) => Op(t) = "release"
<1>1. Checks(t) => Op(t) = "check"
  <2>1. CASE pc[t] = "checking"
    BY <2>1 DEF Op
  <2>2. CASE pc[t] = "locking" /\ how[t] = "check"
    BY <2>2 DEF Op
  <2> QED
    BY <2>1, <2>2 DEF Checks
<1>2. Takes(t) => Op(t) = "set"
  BY DEF Op, Takes, Sets
<1>3. Undoes(t) => Op(t) = "release"
  BY DEF Op, Undoes
<1>4. Drops(t) => Op(t) = "release"
  BY DEF Op, Drops
<1> QED
  BY <1>1, <1>2, <1>3, <1>4

\* ME_LockAll() at a driver of this computer.
LEMMA LockLocalLocks ==
    ASSUME FilesInv, LockType, LockFacts, LockersApart, Steady', NEW t \in Threads, LockLocal(t)
    PROVE  LockFacts'
<1> USE DEF cfgVars
<1>1. PICK refused \in BOOLEAN :
              LockDriver(Own(t), Op(t), Forced(t), refused) /\ LockNext(t, refused)
  BY DEF LockLocal, Refusals, Own
<1>2. /\ UNCHANGED <<conf, config, contexts, list, count, inbox, how, rpc, reply>> /\ ~ stuck'
      /\ Locking(t) /\ ~ OfServer(Context(t)) /\ Forced(t) \in BOOLEAN
  BY DEF LockLocal, Steady, Calm, Forced
<1>3. FileType /\ Listed /\ Unlisted /\ Phase(t) /\ list.of \in Seq(Nat)
  BY DEF FilesInv, LockFacts, LockType
<1>4. PICK n \in Nat : n = idx[t] /\ n \in DOMAIN list.of
  BY <1>2, <1>3 DEF Listed, FileType
<1>5. PICK a \in Addresses : a = Own(t) /\ a = At(n) /\ a \notin Servers
  <2>1. Own(t) = At(n) /\ At(n) \in Addresses
    BY <1>2, <1>3, <1>4, Apart DEF Own, Context, At
  <2> QED
    BY <1>2, <2>1 DEF OfServer, Own
<1>6. inbox[a] = <<>> /\ reply[t] = "none"
  BY <1>2, <1>3, <1>5, NotWaiting DEF Unlisted
<1>7. \A b \in Addresses \ {a} : lock'[b] = lock[b] /\ (Ours(b)' <=> Ours(b))
  BY <1>1, <1>5 DEF LockDriver, LockType, Ours
<1>8. Undisturbed(n)
  BY <1>2, <1>5, <1>7 DEF Undisturbed, Kept, Freed
<1>9. /\ KeptFrom(n) => Kept(a) /\ KeptFrom(n + 1)
      /\ FreedFrom(n) => FreedFrom(n + 1)
      /\ KeptFrom(n + 1) => KeptFrom(n + 1)'
      /\ FreedFrom(n + 1) => FreedFrom(n + 1)'
      /\ KeptTo(n) /\ Kept(a)' => KeptTo(n + 1)'
      /\ FreedTo(n) /\ Freed(a)' => FreedTo(n + 1)'
  <2>1. At(n)' = a
    BY <1>2, <1>5 DEF At, AddressOf
  <2>2. (Kept(At(n))' <=> Kept(a)') /\ (Freed(At(n))' <=> Freed(a)')
    BY <2>1 DEF Kept, Freed, Ours
  <2> QED
    BY <1>2, <1>3, <1>4, <1>5, <1>8, <2>2, OneFurther
<1>10. /\ Kept(a) <=> Ours(a)
       /\ Kept(a)' <=> Ours(a)'
       /\ Freed(a) <=> ~ Ours(a)
       /\ Freed(a)' <=> ~ Ours(a)'
       /\ Op(t) = "check" => (Ours(a)' <=> Ours(a))
       /\ Op(t) = "set" /\ ~ refused => Ours(a)'
       /\ Op(t) = "release" => ~ Ours(a)' /\ (refused => ~ Ours(a))
  BY <1>1, <1>2, <1>5, <1>6, LocalDriver
<1>11. /\ Checks(t) => Op(t) = "check"
       /\ Takes(t) => Op(t) = "set"
       /\ Undoes(t) \/ Drops(t) => Op(t) = "release"
  BY OpOf
<1>12. Checks(t) => OneWay(1)'
  <2> SUFFICES ASSUME Checks(t) PROVE OneWay(1)'
    OBVIOUS
  <2>1. Holds
    BY <1>8, <1>10, <1>11, <1>5 DEF Holds, Undisturbed
  <2> QED
    BY <1>2, <1>3, <2>1, Ways DEF Phase
<1>13. Takes(t) /\ ~ refused => KeptTo(n + 1)'
  BY <1>4, <1>9, <1>10, <1>11 DEF Phase, LockFacts
<1>14. Undoes(t) => Sets(t) /\ FreedTo(n + 1)'
  <2>1. Undoes(t) => Sets(t) /\ FreedTo(n)
    BY <1>3, <1>4 DEF Phase
  <2> QED
    BY <1>9, <1>10, <1>11, <2>1
<1>15. Drops(t) => FreedTo(n + 1)' /\ OneWay(n + 1)' /\ (refused => FreedFrom(n + 1)')
  <2>1. Drops(t) => FreedTo(n) /\ (KeptFrom(n) \/ FreedFrom(n))
    BY <1>3, <1>4, <1>6 DEF Phase, OneWay
  <2>2. KeptFrom(n + 1)' \/ FreedFrom(n + 1)' => OneWay(n + 1)'
    BY DEF OneWay
  <2> QED
    BY <1>9, <1>10, <1>11, <2>1, <2>2
<1>16. Done(t, n, refused)
  BY <1>12, <1>13, <1>14, <1>15 DEF Done
<1>17. Taken(t)
  <2>1. reply' = [reply EXCEPT ![t] = "none"]
    BY <1>2, <1>6 DEF LockType
  <2> QED
    BY <1>1, <1>2, <1>3, <1>5, <1>7, <2>1, LoopOthers DEF Taken
<1> QED
  BY <1>1, <1>2, <1>3, <1>4, <1>6, <1>16, <1>17, LoopStep

\* The answer of a server, or its failure.
LEMMA RpcReturnLocks ==
    ASSUME FilesInv, LockType, LockFacts, LockersApart, NEW t \in Threads, RpcReturn(t)
    PROVE  LockFacts'
<1> USE DEF cfgVars
<1>1. /\ UNCHANGED <<conf, config, contexts, list, count, inbox, how, lock>>
      /\ reply' = [reply EXCEPT ![t] = "none"] /\ reply[t] \in {"ok", "error"}
      /\ rpc' = [rpc EXCEPT ![Own(t)] = None]
  BY DEF RpcReturn, Own
<1>2. /\ FileType /\ Listed /\ Phase(t) /\ list.of \in Seq(Nat) /\ Waits(t) /\ Between
      /\ \A u \in Threads : Phase(u)
  BY DEF FilesInv, LockFacts, LockType, Link
<1>3. Holds
  BY <1>1 DEF Holds, Kept, Freed, Ours
<1>4. CASE Locking(t)
  <2>1. PICK failed \in BOOLEAN : failed = (reply[t] = "error") /\ LockNext(t, failed)
    BY <1>4 DEF RpcReturn
  <2>2. PICK n \in Nat : n = idx[t] /\ n \in DOMAIN list.of
    BY <1>2, <1>4 DEF Listed, FileType
  <2>3. Own(t) = At(n) /\ At(n) \in Addresses
    BY <1>2, <1>4, <2>2, Apart DEF Own, Context, At
  <2>4. PICK a \in Addresses : a = Own(t) /\ a = At(n) /\ At(n)' = a
    BY <1>1, <2>3 DEF At, AddressOf
  <2>5. Undisturbed(n)
    BY <1>3 DEF Undisturbed, Holds
  <2>6. /\ FreedFrom(n + 1) => FreedFrom(n + 1)'
        /\ KeptTo(n) /\ Kept(a) => KeptTo(n + 1)'
        /\ FreedTo(n) /\ Freed(a) => FreedTo(n + 1)'
    <3>1. (Kept(a) => Kept(At(n))') /\ (Freed(a) => Freed(At(n))')
      <4>1. (Kept(At(n))' <=> Kept(a)') /\ (Freed(At(n))' <=> Freed(a)')
        BY <2>4 DEF Kept, Freed, Ours
      <4> QED
        BY <1>3, <4>1 DEF Holds
    <3> QED
      BY <1>1, <1>2, <2>2, <2>5, <3>1, OneFurther
  <2>7. /\ OneWay(1) => OneWay(1)'
        /\ OneWay(n + 1) => OneWay(n + 1)'
    BY <1>1, <1>2, <1>3, Ways
  <2>8. Checks(t) => OneWay(1)'
    BY <1>2, <2>7 DEF Phase
  <2>9. Takes(t) /\ ~ failed => KeptTo(n + 1)'
    <3>1. Takes(t) /\ ~ failed => KeptTo(n) /\ Kept(a)
      BY <1>1, <1>2, <2>1, <2>2, <2>4 DEF Phase
    <3> QED
      BY <2>6, <3>1
  <2>10. Undoes(t) => Sets(t) /\ FreedTo(n + 1)'
    <3>1. Undoes(t) => Sets(t) /\ FreedTo(n) /\ Freed(a)
      BY <1>1, <1>2, <2>2, <2>4 DEF Phase
    <3> QED
      BY <2>6, <3>1
  <2>11. Drops(t) => FreedTo(n + 1)' /\ OneWay(n + 1)' /\ (failed => FreedFrom(n + 1)')
    <3>1. Drops(t) => /\ FreedTo(n) /\ Freed(a) /\ OneWay(n + 1)
                      /\ failed => FreedFrom(n + 1)
      BY <1>1, <1>2, <2>1, <2>2, <2>4 DEF Phase
    <3> QED
      BY <2>6, <2>7, <3>1
  <2>12. Done(t, n, failed)
    BY <2>8, <2>9, <2>10, <2>11 DEF Done
  <2>13. Taken(t)
    BY <1>1, <1>2, <2>1, LoopOthers DEF Taken
  <2> QED
    BY <1>1, <1>2, <1>4, <2>1, <2>2, <2>12, <2>13, LoopStep
<1>5. CASE ~ Locking(t)
  <2>1. Return(t) /\ pc[t] = "calling"
    BY <1>1, <1>2, <1>5 DEF RpcReturn, Waits
  <2>2. pc'[t] = "idle" /\ \A u \in Threads \ {t} :
                pc'[u] = pc[u] /\ idx'[u] = idx[u] /\ ctx'[u] = ctx[u]
    BY <1>2, <2>1 DEF Return, FileType
  <2>3. Taken(t)
    BY <1>1, <2>2 DEF Taken
  <2>4. Listed' /\ Unlisted' /\ Link'
    <3>1. pc'[t] \notin {"calling", "opening"} /\ ~ Locking(t)'
      BY <2>2 DEF Locking
    <3> QED
      BY <1>1, <1>2, <2>1, <2>3, <3>1, AnswerTaken
  <2>5. \A u \in Threads : Locking(u)' <=> Locking(u)
    BY <1>5, <2>2 DEF Locking
  <2>6. (OneWay(1) => OneWay(1)') /\ (FreedFrom(1) => FreedFrom(1)')
    BY <1>1, <1>2, <1>3, Ways
  <2>7. Between'
    BY <1>2, <2>2, <2>5, <2>6 DEF Between
  <2>8. ASSUME NEW u \in Threads PROVE Phase(u)'
    <3>1. CASE ~ Locking(u)
      BY <2>5, <3>1, PhaseNone
    <3>2. CASE Locking(u)
      <4>1. u # t
        BY <1>5, <3>2
      <4>2. reply'[u] = reply[u]
        BY <1>1, <4>1 DEF LockType
      <4>3. Ours(Own(u)) /\ LastRelease(inbox[Own(u)]) =>
                    (Ours(Own(u)) /\ LastRelease(inbox[Own(u)]))'
        <5>1. Own(u)' = Own(u)
          BY <1>1, <2>2, <4>1 DEF Own, Context, AddressOf, Locking
        <5> QED
          BY <1>1, <5>1 DEF Ours
      <4>4. Locking(u) => idx[u] \in DOMAIN list.of
        BY <1>2 DEF Listed
      <4> QED
        BY <1>1, <1>2, <1>3, <2>2, <4>1, <4>2, <4>3, <4>4, PhaseKept
    <3> QED
      BY <3>1, <3>2
  <2> QED
    BY <2>4, <2>7, <2>8 DEF LockFacts
<1> QED
  BY <1>4, <1>5

-----------------------------------------------------------------------------
(* Requests.                                                               *)

\* A thread asks a server: what becomes of the links and of the lock of that server.
LEMMA SendLink ==
    ASSUME FileType, LockType, LockFacts, Steady, NEW t \in Threads, RpcSend(t),
           NEW a \in Addresses, a = Own(t)
    PROVE  /\ Listed' /\ Unlisted' /\ Link'
           /\ a \in Servers /\ reply'[t] = "sent" /\ \A u \in Threads \ {t} : reply'[u] = reply[u]
           /\ \A b \in Addresses \ {a} : (Kept(b)' <=> Kept(b)) /\ (Freed(b)' <=> Freed(b))
           /\ Op(t) # "release" => (Kept(a) => Kept(a)')
           /\ Op(t) # "set" => (Freed(a) => Freed(a)')
           /\ Op(t) = "release" => Freed(a)' /\ (Kept(a) => Ours(a)' /\ LastRelease(inbox'[a]))
           /\ \A u \in Threads \ {t} : reply[u] # "none" => Own(u) # a
           /\ \A b \in Addresses \ {a} : inbox'[b] = inbox[b]
<1> USE DEF cfgVars
<1>1. /\ Listed /\ Unlisted /\ Asked /\ NoClose /\ \A u \in Threads : Waits(u)
      /\ broken = {}
  BY DEF LockFacts, Link, Steady, Calm
<1>2. PICK r \in Requests : r = [op |-> Op(t), from |-> t, force |-> Forced(t)]
  <2>1. Op(t) \in {"set", "release", "check", "call"} /\ Forced(t) \in BOOLEAN
    BY OpType DEF RpcSend
  <2> QED
    BY <2>1 DEF Requests
<1>3. /\ UNCHANGED <<conf, present, config, contexts, list, lock, count, pc, idx, ctx, how>>
      /\ rpc[a] = None /\ rpc' = [rpc EXCEPT ![a] = t] /\ reply[t] = "none"
      /\ reply' = [reply EXCEPT ![t] = "sent"] /\ inbox' = [inbox EXCEPT ![a] = Append(@, r)]
      /\ Locking(t) \/ pc[t] = "calling"
      /\ a \in Servers /\ OfServer(Context(t))
  <2>1. Context(t) \notin broken
    BY <1>1
  <2> QED
    BY <1>2, <2>1 DEF RpcSend, Own, OfServer
<1>4. /\ inbox[a] \in Seq(Requests) /\ inbox'[a] = Append(inbox[a], r)
      /\ \A b \in Addresses \ {a} : inbox'[b] = inbox[b]
      /\ reply'[t] = "sent" /\ \A u \in Threads \ {t} : reply'[u] = reply[u]
      /\ rpc'[a] = t /\ \A b \in Addresses \ {a} : rpc'[b] = rpc[b]
  BY <1>3 DEF LockType
<1>5. \A u \in Threads : reply[u] # "none" => Own(u) # a
  BY <1>1, <1>3, LibraryAssumption DEF Waits
<1>6. \A u \in Threads : \A k \in DOMAIN inbox[a] : inbox[a][k].from # u
  BY <1>1, <1>5 DEF Asked
<1>7. \A u \in Threads : /\ Context(u)' = Context(u) /\ Own(u)' = Own(u) /\ Op(u)' = Op(u)
                         /\ (Locking(u)' <=> Locking(u)) /\ (OfServer(Context(u))' <=> OfServer(Context(u)))
  <2>1. \A u \in Threads : Context(u)' = Context(u) /\ Op(u)' = Op(u) /\ (Locking(u)' <=> Locking(u))
    BY <1>3 DEF Context, Locking, Op
  <2>2. \A u \in Threads : Own(u)' = Own(u)
    BY <1>3, <2>1 DEF Own, AddressOf
  <2> QED
    BY <1>3, <2>1, <2>2 DEF Own, OfServer, AddressOf
<1>8. /\ DOMAIN inbox'[a] = 1 .. (Len(inbox[a]) + 1) /\ Len(inbox'[a]) = Len(inbox[a]) + 1
      /\ Len(inbox[a]) \in Nat /\ inbox'[a][Len(inbox[a]) + 1] = r
      /\ \A k \in 1 .. Len(inbox[a]) : inbox'[a][k] = inbox[a][k]
      /\ DOMAIN inbox[a] = 1 .. Len(inbox[a])
  BY <1>4, Queues
<1>9. Op(t) # "close" /\ r.op = Op(t) /\ r.from = t
  BY <1>2, <1>3, OpType
<1>10. Listed'
  <2>1. \A c : AddressOf(c)' = AddressOf(c)
    BY <1>3 DEF AddressOf
  <2>2. \A u \in Threads : Behind(idx[u])' = Behind(idx[u])
    BY <1>3 DEF Behind
  <2> QED
    BY <1>1, <1>3, <1>7, <2>1, <2>2 DEF Listed
<1>11. Unlisted'
  <2>1. Context(t) \in DOMAIN contexts
    <3>1. CASE Locking(t)
      BY <1>1, <3>1, Apart DEF Context, Listed
    <3>2. CASE pc[t] = "calling"
      BY <1>1, <3>2 DEF Context, Listed, Locking
    <3> QED
      BY <1>3, <3>1, <3>2
  <2>2. \A b : Ours(b)' <=> Ours(b)
    BY <1>3 DEF Ours
  <2>3. \A b \in Addresses : (\A c \in DOMAIN contexts' : AddressOf(c)' # b) =>
            b # a /\ \A c \in DOMAIN contexts : AddressOf(c) # b
    BY <1>3, <2>1 DEF Own, AddressOf
  <2> QED
    BY <1>1, <1>3, <1>4, <2>2, <2>3 DEF Unlisted
<1>12. NoClose'
  <2>1. ASSUME NEW k \in DOMAIN inbox'[a] PROVE inbox'[a][k].op # "close"
    <3>1. k = Len(inbox[a]) + 1 \/ k \in 1 .. Len(inbox[a])
      BY <1>8
    <3> QED
      BY <1>1, <1>8, <1>9, <3>1 DEF NoClose
  <2> QED
    BY <1>1, <1>4, <2>1 DEF NoClose
<1>13. Asked'
  <2>1. ASSUME NEW k \in DOMAIN inbox'[a], NEW u \in Threads, inbox'[a][k].from = u
        PROVE  u = t /\ k = Len(inbox'[a])
    <3>1. k = Len(inbox[a]) + 1 \/ k \in 1 .. Len(inbox[a])
      BY <1>8
    <3> QED
      BY <1>6, <1>8, <1>9, <2>1, <3>1
  <2>2. ASSUME NEW b \in Addresses \ {a}, NEW k \in DOMAIN inbox'[b], NEW u \in Threads,
               inbox'[b][k].from = u
        PROVE  reply'[u] = "sent" /\ b = Own(u)' /\ k = Len(inbox'[b])
    <3>1. reply[u] = "sent" /\ b = Own(u) /\ k = Len(inbox[b])
      BY <1>1, <1>4, <2>2 DEF Asked
    <3> QED
      BY <1>3, <1>4, <1>7, <2>2, <3>1
  <2> QED
    BY <1>4, <1>7, <2>1, <2>2 DEF Asked
<1>14. ASSUME NEW u \in Threads PROVE Waits(u)'
  <2>1. CASE u = t
    <3>1. Len(inbox'[a]) > 0 /\ inbox'[a][Len(inbox'[a])].op = Op(t) /\ inbox'[a][Len(inbox'[a])].from = t
      BY <1>8, <1>9
    <3> QED
      BY <1>3, <1>4, <1>7, <2>1, <3>1 DEF Waits
  <2>2. CASE u # t
    <3>1. reply[u] # "none" => Own(u) \in Addresses \ {a}
      BY <1>1, <1>5, LibraryAssumption DEF Waits, OfServer, Own
    <3>2. reply[u] # "none" => inbox'[Own(u)] = inbox[Own(u)] /\ rpc'[Own(u)] = rpc[Own(u)]
      BY <1>4, <3>1
    <3>3. reply'[u] = reply[u]
      BY <1>4, <2>2
    <3>4. /\ reply[u] # "none" => /\ Locking(u) \/ pc[u] = "calling"
                                  /\ OfServer(Context(u)) /\ rpc[Own(u)] = u
          /\ reply[u] = "sent" =>
                 Len(inbox[Own(u)]) > 0 /\ inbox[Own(u)][Len(inbox[Own(u)])].op = Op(u)
                                        /\ inbox[Own(u)][Len(inbox[Own(u)])].from = u
      BY <1>1 DEF Waits
    <3>5. pc' = pc
      BY <1>3
    <3> QED
      BY <1>7, <3>2, <3>3, <3>4, <3>5 DEF Waits
  <2> QED
    BY <2>1, <2>2
<1>15. \A b \in Addresses \ {a} : (Kept(b)' <=> Kept(b)) /\ (Freed(b)' <=> Freed(b))
  BY <1>3, <1>4 DEF Kept, Freed, Ours
<1>16. /\ r.op # "release" /\ No("release", inbox[a]) => No("release", inbox'[a])
       /\ r.op # "set" /\ No("set", inbox[a]) => No("set", inbox'[a])
       /\ r.op # "set" /\ Releases(inbox[a]) => Releases(inbox'[a])
       /\ r.op = "release" => Releases(inbox'[a])
       /\ No("release", inbox[a]) => LastRelease(inbox'[a])
  BY <1>4, Asking
<1>17. Ours(a)' <=> Ours(a)
  BY <1>3 DEF Ours
<1>18. Op(t) # "release" => (Kept(a) => Kept(a)')
  BY <1>9, <1>16, <1>17 DEF Kept
<1>19. Op(t) # "set" => (Freed(a) => Freed(a)')
  BY <1>9, <1>16, <1>17 DEF Freed
<1>20. Op(t) = "release" => Freed(a)' /\ (Kept(a) => Ours(a)' /\ LastRelease(inbox'[a]))
  BY <1>9, <1>16, <1>17 DEF Kept, Freed
<1> QED
  BY <1>3, <1>4, <1>5, <1>10, <1>11, <1>12, <1>13, <1>14, <1>15, <1>18, <1>19, <1>20 DEF Link

\* A thread asks a server.
LEMMA RpcSendLocks ==
    ASSUME FilesInv, LockType, LockFacts, LockersApart, Steady, NEW t \in Threads, RpcSend(t)
    PROVE  LockFacts'
<1> USE DEF cfgVars
<1>1. /\ FileType /\ Listed /\ list.of \in Seq(Nat) /\ Between /\ \A u \in Threads : Phase(u)
  BY DEF FilesInv, LockFacts, LockType
<1>2. /\ UNCHANGED <<contexts, list, pc, idx, ctx, how>> /\ OfServer(Context(t)) /\ reply[t] = "none"
      /\ Locking(t) \/ pc[t] = "calling"
  BY DEF RpcSend
<1>3. PICK a \in Addresses : a = Own(t)
  BY <1>2, LibraryAssumption DEF OfServer, Own
<1>4. /\ Listed' /\ Unlisted' /\ Link'
      /\ a \in Servers /\ reply'[t] = "sent" /\ \A u \in Threads \ {t} : reply'[u] = reply[u]
      /\ \A b \in Addresses \ {a} : (Kept(b)' <=> Kept(b)) /\ (Freed(b)' <=> Freed(b))
      /\ Op(t) # "release" => (Kept(a) => Kept(a)')
      /\ Op(t) # "set" => (Freed(a) => Freed(a)')
      /\ Op(t) = "release" => Freed(a)' /\ (Kept(a) => Ours(a)' /\ LastRelease(inbox'[a]))
      /\ \A u \in Threads \ {t} : reply[u] # "none" => Own(u) # a
      /\ \A b \in Addresses \ {a} : inbox'[b] = inbox[b]
  BY <1>1, <1>3, SendLink
<1>5. \A u \in Threads : (Locking(u)' <=> Locking(u)) /\ Own(u)' = Own(u)
  BY <1>2 DEF Locking, Own, Context, AddressOf
<1>6. CASE Locking(t)
  <2>1. PICK n \in Nat : n = idx[t] /\ n \in DOMAIN list.of
    BY <1>1, <1>6 DEF Listed, FileType
  <2>2. a = At(n) /\ At(n)' = a
    BY <1>1, <1>2, <1>3, <1>6, <2>1, Apart DEF Own, Context, At, AddressOf
  <2>3. /\ KeptFrom(n) => Kept(a) /\ KeptFrom(n + 1)
        /\ FreedFrom(n) => FreedFrom(n + 1)
        /\ KeptFrom(n + 1) => KeptFrom(n + 1)'
        /\ FreedFrom(n + 1) => FreedFrom(n + 1)'
    <3>1. Undisturbed(n)
      BY <1>4, <2>2 DEF Undisturbed
    <3> QED
      BY <1>1, <1>2, <2>1, <2>2, <3>1, OneFurther
  <2>4. (KeptTo(n) => KeptTo(n)') /\ (FreedTo(n) => FreedTo(n)')
    <3>1. \A k \in DOMAIN list.of : At(k)' = At(k) /\ At(k) \in Addresses /\ (k # n => At(k) # a)
      <4>1. \A k \in DOMAIN list.of : At(k)' = At(k)
        BY <1>2 DEF At, AddressOf
      <4> QED
        BY <1>1, <2>1, <2>2, <4>1, Apart
    <3>2. \A k \in DOMAIN list.of : \A b : b = At(k) =>
                  (Kept(At(k))' <=> Kept(b)') /\ (Freed(At(k))' <=> Freed(b)')
      BY <3>1 DEF Kept, Freed, Ours
    <3>3. \A k \in DOMAIN list.of :
                  k # n => (Kept(At(k)) => Kept(At(k))') /\ (Freed(At(k)) => Freed(At(k))')
      BY <1>4, <3>1, <3>2
    <3>4. \A k \in DOMAIN list.of : k < n => k # n
      BY <1>1, <2>1
    <3>5. list' = list
      BY <1>2
    <3>6. KeptTo(n) => KeptTo(n)'
      BY <3>3, <3>4, <3>5 DEF KeptTo
    <3>7. FreedTo(n) => FreedTo(n)'
      BY <3>3, <3>4, <3>5 DEF FreedTo
    <3> QED
      BY <3>6, <3>7
  <2>5. \A u \in Threads \ {t} : ~ Locking(u)' /\ pc'[u] # "opening"
    BY <1>2, <1>5, <1>6 DEF LockersApart
  <2>6. Between'
    BY <1>2, <1>5, <1>6, <2>5 DEF Between, Locking
  <2>7. \A u \in Threads \ {t} : Phase(u)'
    BY <2>5, PhaseNone
  <2>8. /\ Checks(t) => Op(t) = "check"
        /\ Takes(t) => Op(t) = "set"
        /\ Undoes(t) \/ Drops(t) => Op(t) = "release"
    BY OpOf
  <2>9. /\ Checks(t)' <=> Checks(t)
        /\ Takes(t)' <=> Takes(t)
        /\ Undoes(t)' <=> Undoes(t)
        /\ Drops(t)' <=> Drops(t)
        /\ Sets(t)' <=> Sets(t)
    BY <1>2 DEF Checks, Takes, Undoes, Drops, Sets
  <2>10. /\ KeptTo(n)' => KeptTo(idx[t])'
         /\ FreedTo(n)' => FreedTo(idx[t])'
         /\ OneWay(n + 1)' => OneWay(idx[t] + 1)'
         /\ FreedFrom(n + 1)' => FreedFrom(idx[t] + 1)'
         /\ Freed(a)' => Freed(Own(t))'
         /\ Ours(a)' => Ours(Own(t))'
    BY <1>2, <1>3, <1>5, <2>1 DEF KeptTo, FreedTo, OneWay, FreedFrom, KeptFrom, Freed, Ours
  <2>11. Checks(t) => OneWay(1)'
    <3> SUFFICES ASSUME Checks(t) PROVE OneWay(1)'
      OBVIOUS
    <3>1. Holds
      BY <1>4, <2>8 DEF Holds
    <3> QED
      BY <1>1, <1>2, <3>1, Ways DEF Phase
  <2>12. Takes(t) => KeptTo(idx[t])'
    <3>1. Takes(t) => KeptTo(n)
      BY <1>1, <2>1 DEF Phase
    <3> QED
      BY <2>4, <2>10, <3>1
  <2>13. Undoes(t) => Sets(t) /\ FreedTo(idx[t])' /\ Freed(Own(t))'
    <3>1. Undoes(t) => Sets(t) /\ FreedTo(n)
      BY <1>1, <2>1 DEF Phase
    <3> QED
      BY <1>4, <2>4, <2>8, <2>10, <3>1
  <2>14. Drops(t) => /\ FreedTo(idx[t])' /\ Freed(Own(t))' /\ OneWay(idx[t] + 1)'
                     /\ FreedFrom(idx[t] + 1)' \/ (Ours(Own(t))' /\ LastRelease(inbox'[a]))
    <3>1. Drops(t) => FreedTo(n) /\ (KeptFrom(n) \/ FreedFrom(n))
      BY <1>1, <1>2, <2>1 DEF Phase, OneWay
    <3>2. KeptFrom(n + 1)' \/ FreedFrom(n + 1)' => OneWay(n + 1)'
      BY DEF OneWay
    <3> QED
      BY <1>4, <2>3, <2>4, <2>8, <2>10, <3>1, <3>2
  <2>15. pc'[t] = "checking" => how'[t] \in {"set", "release"}
    BY <1>1, <1>2 DEF Phase
  <2>16. inbox'[a] = inbox'[Own(t)']
    BY <1>3, <1>5
  <2> QED
    <3>1. (Drops(t) =>
           /\ FreedTo(idx[t])
           /\ reply[t] = "none" => OneWay(idx[t])
           /\ reply[t] # "none" => Freed(Own(t)) /\ OneWay(idx[t] + 1)
           /\ reply[t] = "sent" =>
                  \/ FreedFrom(idx[t] + 1)
                  \/ Ours(Own(t)) /\ LastRelease(inbox[Own(t)])
           /\ reply[t] = "error" => FreedFrom(idx[t] + 1))'
      BY <1>4, <2>9, <2>14, <2>16
    <3>2. (Takes(t) => KeptTo(idx[t]) /\ (reply[t] = "ok" => Kept(Own(t))))'
      BY <1>4, <2>9, <2>12
    <3>3. (Undoes(t) => Sets(t) /\ FreedTo(idx[t]) /\ (reply[t] # "none" => Freed(Own(t))))'
      BY <1>4, <2>9, <2>13
    <3>4. (Checks(t) => OneWay(1))'
      BY <2>9, <2>11
    <3>5. Phase(t)'
      BY <2>15, <3>1, <3>2, <3>3, <3>4 DEF Phase
    <3> QED
      BY <1>4, <2>6, <2>7, <3>5 DEF LockFacts
<1>7. CASE ~ Locking(t)
  <2>1. Op(t) = "call"
    BY <1>2, <1>7, OpType
  <2>2. Holds
    BY <1>4, <2>1 DEF Holds
  <2>3. (OneWay(1) => OneWay(1)') /\ (FreedFrom(1) => FreedFrom(1)')
    BY <1>1, <1>2, <2>2, Ways
  <2>4. Between'
    BY <1>1, <1>2, <1>5, <2>3 DEF Between
  <2>5. ASSUME NEW u \in Threads PROVE Phase(u)'
    <3>1. CASE ~ Locking(u)
      BY <1>5, <3>1, PhaseNone
    <3>2. CASE Locking(u)
      <4>1. u # t
        BY <1>7, <3>2
      <4>2. reply'[u] = reply[u]
        BY <1>4, <4>1
      <4>3. reply[u] = "sent" /\ Ours(Own(u)) /\ LastRelease(inbox[Own(u)]) =>
                (Ours(Own(u)) /\ LastRelease(inbox[Own(u)]))'
        <5>1. reply[u] = "sent" => inbox'[Own(u)] = inbox[Own(u)]
          <6>1. Own(u) \in Addresses
            BY <1>1, <3>2, Apart DEF Own, Context, At, Listed
          <6> QED
            BY <1>4, <4>1, <6>1
        <5>2. lock' = lock
          BY DEF RpcSend
        <5> QED
          BY <1>5, <5>1, <5>2 DEF Ours
      <4>4. Locking(u) => idx[u] \in DOMAIN list.of
        BY <1>1 DEF Listed
      <4> QED
        BY <1>1, <1>2, <2>2, <4>1, <4>2, <4>3, <4>4, PhaseKept
    <3> QED
      BY <3>1, <3>2
  <2> QED
    BY <1>4, <2>4, <2>5 DEF LockFacts
<1> QED
  BY <1>6, <1>7

-----------------------------------------------------------------------------
(* Servers.                                                                *)

\* What the oldest request does to the lock of a server, and which answer it gets.
LEMMA ServeDriver ==
    ASSUME FileType, LockType, NoClose, NEW a \in Addresses, Serve(a), ~ stuck', NEW r,
           r = inbox[a][1]
    PROVE  /\ inbox[a] \in Seq(Requests) /\ inbox[a] # <<>> /\ Head(inbox[a]) = r /\ r \in Requests
           /\ r.op \in {"set", "release", "check", "call"}
           /\ inbox'[a] = Tail(inbox[a]) /\ \A b \in Addresses \ {a} :
                      inbox'[b] = inbox[b] /\ lock'[b] = lock[b]
           /\ r.op # "release" /\ Ours(a) => Ours(a)'
           /\ r.op # "set" /\ ~ Ours(a) => ~ Ours(a)'
           /\ r.op = "release" => ~ Ours(a)'
           /\ r.from = None => reply' = reply
           /\ r.from # None => \E x \in {"ok", "error"} :
                  /\ reply' = [reply EXCEPT ![r.from] = x]
                  /\ x = "ok" /\ r.op = "set" => Ours(a)'
                  /\ x = "error" /\ r.op = "release" => ~ Ours(a)
<1>1. inbox[a] \in Seq(Requests) /\ inbox[a] # <<>> /\ Head(inbox[a]) = r /\ r \in Requests
  BY DEF Serve, LockType
<1>2. r.op \in {"set", "release", "check", "call"}
  <2>1. r.op # "close"
    BY <1>1 DEF NoClose
  <2> QED
    BY <1>1, <2>1 DEF Requests
<1>3. inbox' = [inbox EXCEPT ![a] = Tail(@)]
  BY DEF Serve
<1>4. inbox'[a] = Tail(inbox[a]) /\ \A b \in Addresses \ {a} : inbox'[b] = inbox[b]
  BY <1>3 DEF LockType
<1>5. CASE r.op = "call"
  <2>1. lock' = lock
    BY <1>1, <1>5 DEF Serve
  <2>2. r.from = None => reply' = reply
    BY <1>1, <1>5 DEF Serve
  <2>3. r.from # None => \E x \in {"ok", "error"} : reply' = [reply EXCEPT ![r.from] = x]
    BY <1>1, <1>5 DEF Serve
  <2> QED
    BY <1>1, <1>2, <1>4, <1>5, <2>1, <2>2, <2>3 DEF Ours
<1>6. CASE r.op \in {"set", "release", "check"}
  <2>1. PICK refused \in BOOLEAN :
            /\ LockDriver(a, r.op, r.force, refused)
            /\ reply' = IF r.from = None THEN reply
                        ELSE [reply EXCEPT ![r.from] = IF refused THEN "error" ELSE "ok"]
    BY <1>1, <1>6 DEF Serve, Refusals
  <2>2. lock'[a] = IF refused THEN lock[a] ELSE Locked(a, r.op, r.force)
    BY <2>1 DEF LockDriver, LockType
  <2>3. \A b \in Addresses \ {a} : lock'[b] = lock[b]
    BY <2>1 DEF LockDriver, LockType
  <2>4. r.op = "release" /\ refused => ~ Ours(a)
    BY <2>1 DEF LockDriver
  <2>5. r.op = "release" => ~ Ours(a)'
    BY <2>2, <2>4 DEF Ours, Locked
  <2>6. r.op = "set" /\ ~ refused => Ours(a)'
    BY <2>2 DEF Ours, Locked
  <2>7. r.op = "check" => (Ours(a)' <=> Ours(a))
    BY <2>2 DEF Ours, Locked
  <2>8. r.op = "set" /\ Ours(a) => Ours(a)'
    BY <2>2, <2>6 DEF Ours
  <2>9. r.from = None => reply' = reply
    BY <2>1
  <2>10. r.from # None => \E x \in {"ok", "error"} :
             /\ reply' = [reply EXCEPT ![r.from] = x]
             /\ (x = "ok" => ~ refused) /\ (x = "error" => refused)
    BY <2>1
  <2>11. r.from # None => \E x \in {"ok", "error"} :
             /\ reply' = [reply EXCEPT ![r.from] = x]
             /\ x = "ok" /\ r.op = "set" => Ours(a)'
             /\ x = "error" /\ r.op = "release" => ~ Ours(a)
    BY <2>4, <2>6, <2>10
  <2> QED
    BY <1>1, <1>2, <1>4, <1>6, <2>3, <2>5, <2>7, <2>8, <2>9, <2>11
<1> QED
  BY <1>2, <1>5, <1>6

\* A server works off its oldest request.
LEMMA ServeLocks ==
    ASSUME FilesInv, LockType, LockFacts, Steady', NEW a \in Addresses, Serve(a)
    PROVE  LockFacts'
<1> USE DEF cfgVars
<1>1. /\ FileType /\ Listed /\ Unlisted /\ Asked /\ NoClose /\ Between /\ ~ stuck'
      /\ \A u \in Threads : Phase(u) /\ Waits(u)
  BY DEF FilesInv, LockFacts, Link, Steady, Calm
<1>2. UNCHANGED <<conf, config, contexts, list, count, rpc, pc, idx, ctx, how>>
  BY DEF Serve
<1>3. PICK r : r = inbox[a][1]
  OBVIOUS
<1>4. /\ inbox[a] \in Seq(Requests) /\ inbox[a] # <<>> /\ Head(inbox[a]) = r /\ r \in Requests
      /\ r.op \in {"set", "release", "check", "call"}
      /\ inbox'[a] = Tail(inbox[a]) /\ \A b \in Addresses \ {a} :
                 inbox'[b] = inbox[b] /\ lock'[b] = lock[b]
      /\ r.op # "release" /\ Ours(a) => Ours(a)'
      /\ r.op # "set" /\ ~ Ours(a) => ~ Ours(a)'
      /\ r.op = "release" => ~ Ours(a)'
      /\ r.from = None => reply' = reply
      /\ r.from # None => \E x \in {"ok", "error"} :
             /\ reply' = [reply EXCEPT ![r.from] = x]
             /\ x = "ok" /\ r.op = "set" => Ours(a)'
             /\ x = "error" /\ r.op = "release" => ~ Ours(a)
  BY <1>1, <1>3, ServeDriver
<1>5. PICK L \in Nat :
          /\ L = Len(inbox[a]) /\ L >= 1 /\ DOMAIN inbox[a] = 1 .. L
          /\ DOMAIN inbox'[a] = 1 .. (L - 1) /\ Len(inbox'[a]) = L - 1
          /\ \A k \in 1 .. (L - 1) : inbox'[a][k] = inbox[a][k + 1]
  BY <1>4, Queues
<1>6. Holds
  <2>1. \A b \in Addresses \ {a} : (Kept(b) => Kept(b)') /\ (Freed(b) => Freed(b)')
    BY <1>4 DEF Kept, Freed, Ours
  <2>2. /\ \A op : No(op, inbox[a]) => No(op, inbox'[a]) /\ r.op # op
        /\ Releases(inbox[a]) => (r.op = "release" /\ No("set", inbox'[a])) \/ Releases(inbox'[a])
    BY <1>4, Served
  <2>3. Kept(a) => Kept(a)'
    BY <1>4, <2>2 DEF Kept
  <2>4. Freed(a) => Freed(a)'
    BY <1>4, <2>2 DEF Freed
  <2> QED
    BY <2>1, <2>3, <2>4 DEF Holds
<1>7. \A u \in Threads : /\ Context(u)' = Context(u) /\ Own(u)' = Own(u) /\ Op(u)' = Op(u)
                         /\ (Locking(u)' <=> Locking(u)) /\ (OfServer(Context(u))' <=> OfServer(Context(u)))
  <2>1. \A u \in Threads : Context(u)' = Context(u) /\ Op(u)' = Op(u) /\ (Locking(u)' <=> Locking(u))
    BY <1>2 DEF Context, Locking, Op
  <2>2. \A u \in Threads : Own(u)' = Own(u)
    BY <1>2, <2>1 DEF Own, AddressOf
  <2> QED
    BY <1>2, <2>1, <2>2 DEF Own, OfServer, AddressOf
<1>8. \A u \in Threads : r.from = u => /\ reply[u] = "sent" /\ a = Own(u) /\ L = 1
                                       /\ r.op = Op(u) /\ reply'[u] \in {"ok", "error"}
  <2>1. \A u \in Threads : r.from = u => reply[u] = "sent" /\ a = Own(u) /\ 1 = L
    <3>1. 1 \in DOMAIN inbox[a] /\ L = Len(inbox[a])
      BY <1>5
    <3> QED
      BY <1>1, <1>3, <3>1 DEF Asked
  <2>2. \A u \in Threads : r.from = u => r.op = Op(u)
    BY <1>1, <1>3, <1>5, <2>1 DEF Waits
  <2>3. \A u \in Threads : r.from = u => reply'[u] \in {"ok", "error"}
    BY <1>4, LibraryAssumption DEF LockType
  <2> QED
    BY <2>1, <2>2, <2>3
<1>9. \A u \in Threads : r.from # u => reply'[u] = reply[u]
  BY <1>4 DEF LockType
<1>10. \A u \in Threads : r.from # u /\ reply[u] = "sent" /\ a = Own(u) =>
               L > 1 /\ inbox[a][L].from = u
                                                                         /\ inbox[a][L].op = Op(u)
  <2>1. \A u \in Threads : reply[u] = "sent" /\ a = Own(u) =>
                inbox[a][L].from = u /\ inbox[a][L].op = Op(u)
    BY <1>1, <1>5 DEF Waits
  <2> QED
    BY <1>3, <1>5, <2>1
<1>11. Listed'
  <2>1. \A c : AddressOf(c)' = AddressOf(c)
    BY <1>2 DEF AddressOf
  <2>2. \A u \in Threads : Behind(idx[u])' = Behind(idx[u])
    BY <1>2 DEF Behind
  <2> QED
    BY <1>1, <1>2, <1>7, <2>1, <2>2 DEF Listed
<1>12. Unlisted'
  <2>1. \A b \in Addresses \ {a} : (Ours(b)' <=> Ours(b)) /\ inbox'[b] = inbox[b]
    BY <1>4 DEF Ours
  <2>2. a \in Servers /\ ~ \A c \in DOMAIN contexts : AddressOf(c) # a
    BY <1>1, <1>4 DEF Unlisted
  <2>3. \A c : AddressOf(c)' = AddressOf(c)
    BY <1>2 DEF AddressOf
  <2> QED
    BY <1>1, <1>2, <2>1, <2>2, <2>3 DEF Unlisted
<1>13. NoClose'
  <2>1. \A k \in DOMAIN inbox'[a] : inbox'[a][k].op # "close"
    BY <1>1, <1>5 DEF NoClose
  <2> QED
    BY <1>1, <1>4, <2>1 DEF NoClose
<1>14. Asked'
  <2>1. ASSUME NEW k \in DOMAIN inbox'[a], NEW u \in Threads, inbox'[a][k].from = u
        PROVE  reply'[u] = "sent" /\ a = Own(u)' /\ k = Len(inbox'[a])
    <3>1. k \in 1 .. (L - 1) /\ k + 1 \in DOMAIN inbox[a] /\ inbox[a][k + 1].from = u
      BY <1>5, <2>1
    <3>2. reply[u] = "sent" /\ a = Own(u) /\ k + 1 = L
      BY <1>1, <1>5, <3>1 DEF Asked
    <3>3. r.from # u
      BY <1>5, <1>8, <3>1
    <3> QED
      BY <1>5, <1>7, <1>9, <3>1, <3>2, <3>3
  <2>2. ASSUME NEW b \in Addresses \ {a}, NEW k \in DOMAIN inbox'[b], NEW u \in Threads,
               inbox'[b][k].from = u
        PROVE  reply'[u] = "sent" /\ b = Own(u)' /\ k = Len(inbox'[b])
    <3>1. reply[u] = "sent" /\ b = Own(u) /\ k = Len(inbox[b])
      BY <1>1, <1>4, <2>2 DEF Asked
    <3>2. r.from # u
      BY <1>8, <2>2, <3>1
    <3> QED
      BY <1>4, <1>7, <1>9, <2>2, <3>1, <3>2
  <2> QED
    BY <2>1, <2>2 DEF Asked
<1>15. ASSUME NEW u \in Threads PROVE Waits(u)'
  <2>1. /\ reply[u] # "none" => /\ Locking(u) \/ pc[u] = "calling"
                                /\ OfServer(Context(u)) /\ rpc[Own(u)] = u
        /\ reply[u] = "sent" =>
               Len(inbox[Own(u)]) > 0 /\ inbox[Own(u)][Len(inbox[Own(u)])].op = Op(u)
                                      /\ inbox[Own(u)][Len(inbox[Own(u)])].from = u
    BY <1>1 DEF Waits
  <2>2. pc' = pc /\ rpc' = rpc
    BY <1>2
  <2>3. CASE r.from = u
    BY <1>7, <1>8, <2>1, <2>2, <2>3 DEF Waits
  <2>4. CASE r.from # u
    <3>1. reply'[u] = reply[u]
      BY <1>9, <2>4
    <3>2. reply[u] = "sent" =>
               Len(inbox'[Own(u)]) > 0 /\ inbox'[Own(u)][Len(inbox'[Own(u)])].op = Op(u)
                                      /\ inbox'[Own(u)][Len(inbox'[Own(u)])].from = u
      <4>1. CASE a = Own(u)
        <5>1. reply[u] = "sent" => L - 1 \in 1 .. (L - 1) /\ L - 1 + 1 = L /\ L - 1 > 0
          BY <1>10, <2>4, <4>1
        <5> QED
          BY <1>5, <1>10, <2>4, <4>1, <5>1
      <4>2. CASE a # Own(u)
        <5>1. reply[u] = "sent" => Own(u) \in Addresses
          BY <2>1, LibraryAssumption DEF OfServer, Own
        <5> QED
          BY <1>4, <2>1, <4>2, <5>1
      <4> QED
        BY <4>1, <4>2
    <3> QED
      BY <1>7, <2>1, <2>2, <3>1, <3>2 DEF Waits
  <2> QED
    BY <2>3, <2>4
<1>16. /\ OneWay(1) => OneWay(1)'
       /\ FreedFrom(1) => FreedFrom(1)'
       /\ \A n : /\ KeptTo(n) => KeptTo(n)'
                 /\ FreedFrom(n) => FreedFrom(n)'
                 /\ FreedTo(n) => FreedTo(n)'
                 /\ OneWay(n) => OneWay(n)'
  BY <1>1, <1>2, <1>6, Ways
<1>17. Between'
  BY <1>1, <1>2, <1>7, <1>16 DEF Between
<1>18. ASSUME NEW u \in Threads, r.from # u, Locking(u) PROVE Phase(u)'
  <2>1. reply[u] = "sent" /\ Ours(Own(u)) /\ LastRelease(inbox[Own(u)]) =>
            (Ours(Own(u)) /\ LastRelease(inbox[Own(u)]))'
    <3> SUFFICES ASSUME reply[u] = "sent", Ours(Own(u)), LastRelease(inbox[Own(u)])
                 PROVE  (Ours(Own(u)) /\ LastRelease(inbox[Own(u)]))'
      OBVIOUS
    <3>1. CASE a = Own(u)
      <4>1. L > 1 /\ \A k \in 1 .. L : k < L => inbox[a][k].op # "release"
        BY <1>5, <1>10, <1>18, <3>1 DEF LastRelease
      <4>2. r.op # "release"
        BY <1>3, <1>5, <4>1
      <4>3. Ours(a)'
        BY <1>4, <3>1, <4>2
      <4>4. LastRelease(inbox'[a])
        <5>1. \A k \in 1 .. (L - 1) : k < L - 1 => k + 1 \in 1 .. L /\ k + 1 < L
          BY <1>5
        <5> QED
          BY <1>5, <4>1, <5>1 DEF LastRelease
      <4> QED
        BY <1>7, <3>1, <4>3, <4>4 DEF Ours
    <3>2. CASE a # Own(u)
      <4>1. Own(u) \in Addresses
        BY <1>1, <1>18, Apart DEF Own, Context, At, Listed
      <4> QED
        BY <1>4, <1>7, <3>2, <4>1 DEF Ours
    <3> QED
      BY <3>1, <3>2
  <2>2. Locking(u) => idx[u] \in DOMAIN list.of
    BY <1>1 DEF Listed
  <2>3. reply'[u] = reply[u]
    BY <1>9, <1>18
  <2> QED
    BY <1>1, <1>2, <1>6, <2>1, <2>2, <2>3, PhaseKept
<1>19. ASSUME NEW u \in Threads, r.from = u, Locking(u) PROVE Phase(u)'
  <2>1. PICK n \in Nat : n = idx[u] /\ n \in DOMAIN list.of
    BY <1>1, <1>19 DEF Listed, FileType
  <2>2. /\ Checks(u)' <=> Checks(u)
        /\ Takes(u)' <=> Takes(u)
        /\ Undoes(u)' <=> Undoes(u)
        /\ Drops(u)' <=> Drops(u)
        /\ Sets(u)' <=> Sets(u)
    BY <1>2 DEF Checks, Takes, Undoes, Drops, Sets
  <2>3. /\ KeptTo(n)' => KeptTo(idx[u])'
        /\ FreedTo(n)' => FreedTo(idx[u])'
        /\ OneWay(n + 1)' => OneWay(idx[u] + 1)'
        /\ FreedFrom(n + 1)' => FreedFrom(idx[u] + 1)'
        /\ Freed(a)' => Freed(Own(u))'
        /\ Kept(a)' => Kept(Own(u))'
    BY <1>2, <1>7, <1>8, <1>19, <2>1 DEF KeptTo, FreedTo, OneWay, FreedFrom, KeptFrom, Freed,
       Kept, Ours
  <2>4. /\ Takes(u) => r.op = "set"
        /\ Drops(u) => r.op = "release"
    BY <1>8, <1>19, OpOf
  <2>5. /\ reply[u] = "sent" /\ reply'[u] \in {"ok", "error"} /\ a = Own(u)
        /\ reply'[u] = "ok" /\ r.op = "set" => Ours(a)'
        /\ reply'[u] = "error" /\ r.op = "release" => ~ Ours(a)
    <3>1. r.from # None
      BY <1>19, LibraryAssumption
    <3> QED
      BY <1>4, <1>8, <1>19, <3>1 DEF LockType
  <2>6. Checks(u) => OneWay(1)'
    BY <1>1, <1>16 DEF Phase
  <2>7. Takes(u) => KeptTo(n)' /\ (reply'[u] = "ok" => Kept(a)')
    <3>1. Takes(u) => KeptTo(n)
      BY <1>1, <2>1 DEF Phase
    <3>2. No("release", inbox'[a])
      BY <1>5, <1>8, <1>19 DEF No
    <3> QED
      BY <1>16, <2>4, <2>5, <3>1, <3>2 DEF Kept
  <2>8. Undoes(u) => Sets(u) /\ FreedTo(n)' /\ Freed(a)'
    <3>1. Undoes(u) => Sets(u) /\ FreedTo(n) /\ Freed(a)
      BY <1>1, <2>1, <2>5 DEF Phase
    <3> QED
      BY <1>6, <1>16, <3>1 DEF Holds
  <2>9. Drops(u) => FreedTo(n)' /\ Freed(a)' /\ OneWay(n + 1)' /\ (reply'[u] = "error" => FreedFrom(n + 1)')
    <3>1. Drops(u) => /\ FreedTo(n) /\ Freed(a) /\ OneWay(n + 1)
                      /\ FreedFrom(n + 1) \/ Ours(a)
      BY <1>1, <2>1, <2>5 DEF Phase
    <3> QED
      BY <1>6, <1>16, <2>4, <2>5, <3>1 DEF Holds
  <2>10. pc'[u] = "checking" => how'[u] \in {"set", "release"}
    BY <1>1, <1>2 DEF Phase
  <2>11. (Drops(u) =>
         /\ FreedTo(idx[u])
         /\ reply[u] = "none" => OneWay(idx[u])
         /\ reply[u] # "none" => Freed(Own(u)) /\ OneWay(idx[u] + 1)
         /\ reply[u] = "sent" =>
                \/ FreedFrom(idx[u] + 1)
                \/ Ours(Own(u)) /\ LastRelease(inbox[Own(u)])
         /\ reply[u] = "error" => FreedFrom(idx[u] + 1))'
    BY <2>2, <2>3, <2>5, <2>9
  <2>12. (Takes(u) => KeptTo(idx[u]) /\ (reply[u] = "ok" => Kept(Own(u))))'
    BY <2>2, <2>3, <2>7
  <2>13. (Undoes(u) => Sets(u) /\ FreedTo(idx[u]) /\ (reply[u] # "none" => Freed(Own(u))))'
    BY <2>2, <2>3, <2>8
  <2>14. (Checks(u) => OneWay(1))'
    BY <2>2, <2>6
  <2> QED
    BY <2>10, <2>11, <2>12, <2>13, <2>14 DEF Phase
<1>20. \A u \in Threads : Phase(u)'
  BY <1>7, <1>18, <1>19, PhaseNone
<1> QED
  BY <1>11, <1>12, <1>13, <1>14, <1>15, <1>17, <1>20 DEF LockFacts, Link

-----------------------------------------------------------------------------
\* A request is given up: it stays with the server, and nobody waits for it.
LEMMA RpcTimeOutLocks ==
    ASSUME FilesInv, LockType, LockType', LockFacts, LockersApart, Steady', NEW t \in Threads,
           RpcTimeOut(t)
    PROVE  LockFacts'
<1> USE DEF cfgVars
<1>1. /\ FileType /\ Listed /\ Unlisted /\ Asked /\ NoClose /\ Between /\ Phase(t)
      /\ \A u \in Threads : Waits(u)
      /\ UNCHANGED <<conf, config, contexts, list, count, rpc, pc, idx, ctx, how, lock>>
      /\ Locking(t) /\ reply[t] = "sent" /\ reply' = [reply EXCEPT ![t] = "error"] /\ ~ Drops(t)
  <2>1. FileType /\ Listed /\ Unlisted /\ Asked /\ NoClose /\ Between /\ Phase(t) /\ \A u \in Threads : Waits(u)
    BY DEF FilesInv, LockFacts, Link
  <2>2. ~ Drops(t)
    <3>1. ~ (Op(t) = "release" /\ pc[t] = "locking")
      BY DEF RpcTimeOut, Steady, Calm
    <3> QED
      BY <3>1, OpOf DEF Drops
  <2> QED
    BY <2>1, <2>2 DEF RpcTimeOut
<1>2. PICK a \in Addresses : a = Own(t) /\ OfServer(Context(t)) /\ rpc[a] = t
  BY <1>1, LibraryAssumption DEF Waits, OfServer, Own
<1>3. inbox'[a] = [k \in DOMAIN inbox[a] |-> IF inbox[a][k].from = t THEN [inbox[a][k] EXCEPT !.from = None]
                                             ELSE inbox[a][k]]
      /\ \A b \in Addresses \ {a} : inbox'[b] = inbox[b]
  BY <1>2 DEF RpcTimeOut, LockType, Own
<1>4. \A k \in DOMAIN inbox[a] : inbox'[a][k].op = inbox[a][k].op /\ inbox'[a][k].from # t
                                 /\ (inbox'[a][k].from # None => inbox'[a][k].from = inbox[a][k].from)
  <2>1. \A k \in DOMAIN inbox[a] : inbox[a][k] \in Requests
    BY DEF LockType
  <2>2. \A r \in Requests : [r EXCEPT !.from = None].op = r.op /\ [r EXCEPT !.from = None].from = None
    BY DEF Requests
  <2>3. None # t
    BY LibraryAssumption
  <2> QED
    BY <1>3, <2>1, <2>2, <2>3
<1>5. DOMAIN inbox'[a] = DOMAIN inbox[a]
  BY <1>3
<1>6. \A b \in Addresses : /\ Kept(b)' <=> Kept(b)
                           /\ Freed(b)' <=> Freed(b)
  <2>1. \A op : No(op, inbox'[a]) <=> No(op, inbox[a])
    BY <1>4, <1>5 DEF No
  <2>2. Releases(inbox'[a]) <=> Releases(inbox[a])
    BY <1>4, <1>5 DEF Releases
  <2>3. \A b \in Addresses : Ours(b)' <=> Ours(b)
    BY <1>1 DEF Ours
  <2>4. Kept(a)' <=> Kept(a)
    BY <2>1, <2>3 DEF Kept
  <2>5. Freed(a)' <=> Freed(a)
    BY <2>1, <2>2, <2>3 DEF Freed
  <2>6. \A b \in Addresses \ {a} : (Kept(b)' <=> Kept(b)) /\ (Freed(b)' <=> Freed(b))
    BY <1>3, <2>3 DEF Kept, Freed
  <2> QED
    BY <2>4, <2>5, <2>6
<1>7. Holds
  BY <1>6 DEF Holds
<1>8. \A u \in Threads : /\ Context(u)' = Context(u) /\ Own(u)' = Own(u) /\ Op(u)' = Op(u)
                         /\ (Locking(u)' <=> Locking(u)) /\ (OfServer(Context(u))' <=> OfServer(Context(u)))
  <2>1. \A u \in Threads : Context(u)' = Context(u) /\ Op(u)' = Op(u) /\ (Locking(u)' <=> Locking(u))
    BY <1>1 DEF Context, Locking, Op
  <2>2. \A u \in Threads : Own(u)' = Own(u)
    BY <1>1, <2>1 DEF Own, AddressOf
  <2> QED
    BY <1>1, <2>1, <2>2 DEF Own, OfServer, AddressOf
<1>9. \A u \in Threads \ {t} : reply'[u] = reply[u] /\ (reply[u] # "none" => Own(u) \in Addresses \ {a})
  <2>1. \A u \in Threads \ {t} : reply'[u] = reply[u]
    BY <1>1 DEF LockType
  <2>2. \A u \in Threads \ {t} : reply[u] # "none" => OfServer(Context(u)) /\ rpc[Own(u)] = u
    BY <1>1 DEF Waits
  <2> QED
    BY <1>2, <2>1, <2>2, LibraryAssumption DEF OfServer, Own
<1>10. Listed'
  <2>1. \A c : AddressOf(c)' = AddressOf(c)
    BY <1>1 DEF AddressOf
  <2>2. \A u \in Threads : Behind(idx[u])' = Behind(idx[u])
    BY <1>1 DEF Behind
  <2> QED
    BY <1>1, <1>8, <2>1, <2>2 DEF Listed
<1>11. Unlisted'
  <2>1. a \in Servers /\ ~ \A c \in DOMAIN contexts : AddressOf(c) # a
    <3>1. a \in Servers
      BY <1>2 DEF OfServer, Own
    <3>2. Context(t) \in DOMAIN contexts
      BY <1>1, Apart DEF Context, Listed
    <3> QED
      BY <1>2, <3>1, <3>2 DEF Own
  <2>2. \A b : (Ours(b)' <=> Ours(b)) /\ AddressOf(b)' = AddressOf(b)
    BY <1>1 DEF Ours, AddressOf
  <2> QED
    BY <1>1, <1>3, <2>1, <2>2 DEF Unlisted
<1>12. NoClose'
  <2>1. \A k \in DOMAIN inbox'[a] : inbox'[a][k].op # "close"
    BY <1>1, <1>4, <1>5 DEF NoClose
  <2>2. \A b \in Addresses \ {a} : inbox'[b] = inbox[b]
    BY <1>3
  <2> QED
    BY <1>1, <2>1, <2>2 DEF NoClose
<1>13. Asked'
  <2>1. ASSUME NEW k \in DOMAIN inbox'[a], NEW u \in Threads, inbox'[a][k].from = u PROVE FALSE
    <3>1. inbox[a][k].from = u /\ u # t /\ k \in DOMAIN inbox[a]
      BY <1>4, <1>5, <2>1, LibraryAssumption
    <3>2. reply[u] = "sent" /\ a = Own(u)
      BY <1>1, <3>1 DEF Asked
    <3> QED
      BY <1>9, <3>1, <3>2
  <2>2. ASSUME NEW b \in Addresses \ {a}, NEW k \in DOMAIN inbox'[b], NEW u \in Threads,
               inbox'[b][k].from = u
        PROVE  reply'[u] = "sent" /\ b = Own(u)' /\ k = Len(inbox'[b])
    <3>1. reply[u] = "sent" /\ b = Own(u) /\ k = Len(inbox[b])
      BY <1>1, <1>3, <2>2 DEF Asked
    <3>2. u # t
      BY <1>2, <2>2, <3>1
    <3> QED
      BY <1>3, <1>8, <1>9, <2>2, <3>1, <3>2
  <2> QED
    BY <2>1, <2>2 DEF Asked
<1>14. ASSUME NEW u \in Threads PROVE Waits(u)'
  <2>1. /\ reply[u] # "none" => /\ Locking(u) \/ pc[u] = "calling"
                                /\ OfServer(Context(u)) /\ rpc[Own(u)] = u
        /\ reply[u] = "sent" =>
               Len(inbox[Own(u)]) > 0 /\ inbox[Own(u)][Len(inbox[Own(u)])].op = Op(u)
                                      /\ inbox[Own(u)][Len(inbox[Own(u)])].from = u
    BY <1>1 DEF Waits
  <2>2. pc' = pc /\ rpc' = rpc
    BY <1>1
  <2>3. CASE u = t
    <3>1. reply'[u] = "error"
      BY <1>1, <2>3 DEF LockType
    <3> QED
      BY <1>1, <1>8, <2>1, <2>2, <2>3, <3>1 DEF Waits
  <2>4. CASE u # t
    <3>1. reply'[u] = reply[u] /\ (reply[u] # "none" => inbox'[Own(u)] = inbox[Own(u)])
      BY <1>3, <1>9, <2>4
    <3> QED
      BY <1>8, <2>1, <2>2, <3>1 DEF Waits
  <2> QED
    BY <2>3, <2>4
<1>15. \A u \in Threads \ {t} : ~ Locking(u)' /\ pc'[u] # "opening"
  BY <1>1, <1>8 DEF LockersApart
<1>16. Between'
  BY <1>1, <1>8, <1>15 DEF Between, Locking
<1>17. \A u \in Threads \ {t} : Phase(u)'
  BY <1>15, PhaseNone
<1>18. Phase(t)'
  <2>1. PICK n \in Nat : n = idx[t]
    BY <1>1 DEF FileType
  <2>2. /\ Checks(t)' <=> Checks(t)
        /\ Takes(t)' <=> Takes(t)
        /\ Undoes(t)' <=> Undoes(t)
        /\ Drops(t)' <=> Drops(t)
        /\ Sets(t)' <=> Sets(t)
    BY <1>1 DEF Checks, Takes, Undoes, Drops, Sets
  <2>3. /\ OneWay(1) => OneWay(1)'
        /\ KeptTo(n) => KeptTo(n)'
        /\ FreedTo(n) => FreedTo(n)'
    BY <1>1, <1>7, Ways
  <2>4. /\ KeptTo(n)' => KeptTo(idx[t])'
        /\ FreedTo(n)' => FreedTo(idx[t])'
        /\ Freed(a) => Freed(Own(t))'
    <3>1. Freed(a)' => Freed(Own(t))'
      BY <1>2, <1>8 DEF Freed, Ours
    <3> QED
      BY <1>1, <1>6, <2>1, <3>1 DEF KeptTo, FreedTo
  <2>5. Checks(t) => OneWay(1)'
    BY <1>1, <2>3 DEF Phase
  <2>6. Takes(t) => KeptTo(idx[t])'
    BY <1>1, <2>1, <2>3, <2>4 DEF Phase
  <2>7. Undoes(t) => Sets(t) /\ FreedTo(idx[t])' /\ Freed(Own(t))'
    <3>1. Undoes(t) => Sets(t) /\ FreedTo(n) /\ Freed(a)
      BY <1>1, <1>2, <2>1 DEF Phase
    <3> QED
      BY <2>3, <2>4, <3>1
  <2>8. pc'[t] = "checking" => how'[t] \in {"set", "release"}
    BY <1>1 DEF Phase
  <2>9. ~ Drops(t)' /\ reply'[t] = "error"
    BY <1>1, <2>2 DEF LockType
  <2> QED
    BY <2>2, <2>5, <2>6, <2>7, <2>8, <2>9 DEF Phase
<1> QED
  BY <1>10, <1>11, <1>12, <1>13, <1>14, <1>16, <1>17, <1>18 DEF LockFacts, Link

\* Steps in which only another process does something.
LEMMA OtherLocksLocks ==
    ASSUME FilesInv, LockType, LockFacts, \A b \in Addresses : Ours(b)' <=> Ours(b),
           UNCHANGED <<conf, config, contexts, list, count, inbox, rpc, reply, pc, idx, ctx, how>>
    PROVE  LockFacts'
<1>1. /\ FileType /\ Listed /\ Unlisted /\ Asked /\ NoClose /\ Between
      /\ \A u \in Threads : Phase(u) /\ Waits(u)
  BY DEF FilesInv, LockFacts, Link
<1>2. Holds
  BY DEF Holds, Kept, Freed
<1>3. \A u \in Threads : /\ Context(u)' = Context(u) /\ Own(u)' = Own(u) /\ Op(u)' = Op(u)
                         /\ (Locking(u)' <=> Locking(u)) /\ (OfServer(Context(u))' <=> OfServer(Context(u)))
  <2>1. \A u \in Threads : Context(u)' = Context(u) /\ Op(u)' = Op(u) /\ (Locking(u)' <=> Locking(u))
    BY DEF Context, Locking, Op
  <2>2. \A u \in Threads : Own(u)' = Own(u)
    BY <2>1 DEF Own, AddressOf
  <2> QED
    BY <2>1, <2>2 DEF Own, OfServer, AddressOf
<1>4. Listed'
  <2>1. \A c : AddressOf(c)' = AddressOf(c)
    BY DEF AddressOf
  <2>2. \A u \in Threads : Behind(idx[u])' = Behind(idx[u])
    BY DEF Behind
  <2> QED
    BY <1>1, <1>3, <2>1, <2>2 DEF Listed
<1>5. Unlisted'
  <2>1. \A c : AddressOf(c)' = AddressOf(c)
    BY DEF AddressOf
  <2> QED
    BY <1>1, <2>1 DEF Unlisted
<1>6. NoClose' /\ Asked'
  BY <1>1, <1>3 DEF NoClose, Asked
<1>7. ASSUME NEW u \in Threads PROVE Waits(u)'
  BY <1>1, <1>3 DEF Waits
<1>8. Between'
  <2>1. (OneWay(1) => OneWay(1)') /\ (FreedFrom(1) => FreedFrom(1)')
    BY <1>1, <1>2, Ways
  <2> QED
    BY <1>1, <1>3, <2>1 DEF Between
<1>9. ASSUME NEW u \in Threads PROVE Phase(u)'
  <2>1. CASE ~ Locking(u)
    BY <1>3, <2>1, PhaseNone
  <2>2. CASE Locking(u)
    <3>1. Own(u) \in Addresses
      BY <1>1, <2>2, Apart DEF Own, Context, At, Listed
    <3>2. Ours(Own(u))' <=> Ours(Own(u))
      <4>1. \A b : b = Own(u) => (Ours(b)' <=> Ours(Own(u))')
        BY <1>3 DEF Ours
      <4> QED
        BY <3>1, <4>1
    <3>3. Ours(Own(u)) /\ LastRelease(inbox[Own(u)]) =>
                  (Ours(Own(u)) /\ LastRelease(inbox[Own(u)]))'
      BY <1>3, <3>2
    <3>4. Locking(u) => idx[u] \in DOMAIN list.of
      BY <1>1 DEF Listed
    <3> QED
      BY <1>1, <1>2, <3>3, <3>4, PhaseKept
  <2> QED
    BY <2>1, <2>2
<1> QED
  BY <1>4, <1>5, <1>6, <1>7, <1>8, <1>9 DEF LockFacts, Link

-----------------------------------------------------------------------------
\* At the start nothing is open.
LEMMA InitLocks == LibInit => LockInv
<1> SUFFICES ASSUME LibInit PROVE LockInv
  OBVIOUS
<1>1. FilesInv
  BY InitFiles
<1>2. LockType
  <2>1. <<>> \in Seq(Requests)
    OBVIOUS
  <2>2. list \in [head : BOOLEAN, of : Seq(Nat)]
    BY DEF LibInit
  <2> QED
    BY <2>1, <2>2 DEF LibInit, LockType, Locks, Locking
<1>3. Listed /\ Unlisted /\ Link
  <2>1. Listed
    BY DEF LibInit, Listed, Locking
  <2>2. Unlisted
    BY DEF LibInit, Unlisted, Ours
  <2>3. Link
    BY DEF LibInit, Link, Asked, NoClose, Waits
  <2> QED
    BY <2>1, <2>2, <2>3
<1>4. OneWay(1) /\ FreedFrom(1)
  BY DEF LibInit, OneWay, KeptFrom, FreedFrom
<1>5. \A t \in Threads : Phase(t)
  BY PhaseNone DEF LibInit, Locking
<1>6. \A t \in Threads : Closer(t)
  BY DEF LibInit, Closer
<1> QED
  BY <1>1, <1>2, <1>3, <1>4, <1>5, <1>6 DEF LockInv, LockFacts, Between

\* The invariant holds after every step.
LEMMA LockStep ==
    ASSUME LockInv, LockersApart, LockersApart', [LibNext]_libVars
    PROVE  LockInv'
<1>1. FilesInv /\ FilesInv' /\ LockType /\ FileType /\ (Steady => LockFacts) /\ (Calm => \A t \in Threads : Closer(t))
  BY FilesStep DEF LockInv, FilesInv
<1>2. LockType'
  BY <1>1, LockTypeStep
<1>3. Calm' => \A t \in Threads : Closer(t)'
  BY <1>1, CloserStep
<1>4. ASSUME Steady' PROVE LockFacts'
  <2>1. Steady /\ LockFacts
    BY <1>1, <1>4, SteadyBack
  <2>2. ASSUME NEW t \in Threads, CloseForce(t) \/ CloseContext(t) \/ CloseConfig(t) \/ CloseClean(t)
        PROVE  FALSE
    <3>1. pc'[t] \notin {"closing", "cleaning"} /\ pc[t] \notin {"closing", "cleaning"}
      BY <1>4, <2>1 DEF Steady
    <3> QED
      BY <1>1, <2>2, <3>1 DEF CloseForce, CloseContext, CloseConfig, CloseClean, Goto, FileType
  <2>3. ASSUME NEW t \in Threads, Step(t) PROVE LockFacts'
    BY <1>1, <1>4, <2>1, <2>2, <2>3, OpenLockLocks, OpenDriverLocks, OpenEndLocks, CloseLocks,
       LockAllLocks,
       LockLocalLocks, RpcSendLocks, RpcReturnLocks, CallLocks DEF Step
  <2>4. ASSUME NEW t \in Threads, RpcTimeOut(t) PROVE LockFacts'
    BY <1>1, <1>2, <1>4, <2>1, <2>4, RpcTimeOutLocks
  <2>5. ASSUME NEW a \in Addresses, Serve(a) PROVE LockFacts'
    BY <1>1, <1>4, <2>1, <2>5, ServeLocks
  <2>6. ASSUME NEW a \in Addresses, ServerDies(a) PROVE FALSE
    BY <1>4, <2>6 DEF ServerDies, Steady, Calm
  <2>7. ASSUME NEW a \in Addresses, OtherLocks(a) PROVE LockFacts'
    <3>1. UNCHANGED <<conf, config, contexts, list, count, inbox, rpc, reply, pc, idx, ctx, how>>
      BY <2>7 DEF OtherLocks, cfgVars, tasks
    <3>2. \A b \in Addresses : Ours(b)' <=> Ours(b)
      BY <1>1, <2>7 DEF OtherLocks, Ours, LockType
    <3> QED
      BY <1>1, <2>1, <3>1, <3>2, OtherLocksLocks
  <2>8. CASE UNCHANGED libVars
    <3>1. UNCHANGED <<conf, config, contexts, list, count, inbox, rpc, reply, pc, idx, ctx, how>>
      BY <2>8 DEF libVars, cfgVars, drvVars, tasks
    <3>2. \A b \in Addresses : Ours(b)' <=> Ours(b)
      BY <2>8 DEF Ours, libVars, drvVars
    <3> QED
      BY <1>1, <2>1, <3>1, <3>2, OtherLocksLocks
  <2> QED
    BY <2>3, <2>4, <2>5, <2>6, <2>7, <2>8 DEF LibNext
<1> QED
  BY <1>1, <1>2, <1>3, <1>4 DEF LockInv

\* Between the calls it says that all are locked or none.
LEMMA LocksFollow == LockInv => LockAllOrNothing
<1> DEFINE ours == {c \in ToSet(list.of) : Ours(AddressOf(c))}
<1> SUFFICES ASSUME LockInv, \A t \in Threads : ~ Locking(t), \A a \in Addresses : inbox[a] = <<>>,
                    mutex = None, ~ stuck, broken = {}
             PROVE  ours \in {{}, ToSet(list.of)}
  BY DEF LockAllOrNothing
<1>1. FilesInv /\ LockType
  BY DEF LockInv
<1>2. CASE ~ list.head
  BY <1>1, <1>2 DEF LockType, ToSet
<1>3. CASE list.head
  <2>1. \A t \in Threads : pc[t] \notin {"closing", "cleaning"}
    BY <1>1, LibraryAssumption DEF FilesInv, Stages, Sections
  <2>2. LockFacts
    BY <1>3, <2>1 DEF LockInv, Steady, Calm
  <2>3. Listed /\ FileType /\ OneWay(1)
    BY <1>1, <2>2 DEF LockFacts, Between, FilesInv
  <2>4. \A k \in DOMAIN list.of : list.of[k] = k /\ At(k) \in Addresses /\ k >= 1
    BY <1>1, <2>3, Apart DEF LockType
  <2>5. CASE KeptFrom(1)
    <3>1. \A k \in DOMAIN list.of : Ours(AddressOf(list.of[k]))
      BY <2>4, <2>5 DEF KeptFrom, Kept, At
    <3> QED
      BY <3>1 DEF ToSet
  <2>6. CASE FreedFrom(1)
    <3>1. \A k \in DOMAIN list.of : ~ Ours(AddressOf(list.of[k]))
      BY <2>4, <2>6 DEF FreedFrom, Freed, Releases, At
    <3> QED
      BY <3>1 DEF ToSet
  <2> QED
    BY <2>3, <2>5, <2>6 DEF OneWay
<1> QED
  BY <1>2, <1>3

\* meLockDriver() locks all drivers and servers or none of them (ME_LockAll()), as long as
\* the threads of the process do not lock at the same time and none opens the library
\* meanwhile: nothing in the code keeps the loops of two threads apart.
THEOREM LocksHold == LibSpec /\ []LockersApart => []LockAllOrNothing
<1>1. LockInv /\ LockersApart /\ LockersApart' /\ [LibNext]_libVars => LockInv'
  BY LockStep
<1>2. LockInv => LockAllOrNothing
  BY LocksFollow
<1> QED
  BY <1>1, <1>2, InitLocks, PTL DEF LibSpec

-----------------------------------------------------------------------------
\* The callbacks.
CallbacksSpec == (\E kinds : CallbacksInit(kinds)) /\ [][CallbacksNext]_cbVars

CbType ==
    /\ DOMAIN wpc = Workers
    /\ after \in [Workers -> 0 .. 2]

\* Callbacks of one context never run at the same time: whoever is inside one, or waits in
\* one for the mutex of its own thread, holds the mutex.
OneAtATime == \A w \in Workers : wpc[w] \in {"callback", "own mutex"} => cbMutex = w

\* A thread whose entry is freed has been cancelled.  One that has run its callback since
\* is behind it, and the next test for a cancellation ends it before it gets there again.
RunOff(w) ==
    /\ after[w] <= 1
    /\ after[w] = 1 => w \in freed /\ wpc[w] \notin {"tested", "locking"}

OnceMore == ~ overRpc => freed \subseteq pending /\ \A w \in Workers : RunOff(w)

CbInv == CbType /\ OneAtATime /\ OnceMore

USE DEF Move, Cancelled

-----------------------------------------------------------------------------
LEMMA InitCb == ASSUME NEW kinds, CallbacksInit(kinds) PROVE CbInv
  BY DEF CallbacksInit, CbInv, CbType, OneAtATime, OnceMore, RunOff

LEMMA TypeStep == CbType /\ [CallbacksNext]_cbVars => CbType'
<1> SUFFICES ASSUME CbType, [CallbacksNext]_cbVars PROVE CbType'
  OBVIOUS
<1> USE DEF CbType
<1>1. CASE UNCHANGED cbVars
  BY <1>1 DEF cbVars
<1>2. CASE DestroyThreads \/ ServerGoes
  BY <1>2 DEF DestroyThreads, ServerGoes
<1>3. ASSUME NEW w \in Workers, LockMutex(w) PROVE CbType'
  BY <1>3 DEF LockMutex
<1>4. ASSUME NEW w \in Workers,
             \/ CreateThread(w) \/ CancelledInCall(w) \/ WaitReturns(w)
             \/ CallbackRemoves(w) \/ Runs(w)
      PROVE  CbType'
  BY <1>4 DEF CreateThread, CancelledInCall, WaitReturns, Returns, CallbackRemoves, Runs,
              Connect, TestCancel, Report, CallbackReturns, Unlocked
<1> QED BY <1>1, <1>2, <1>3, <1>4 DEF CallbacksNext

\* Who has the mutex runs on, and nobody else takes it.
LEMMA MutexStep == CbType /\ OneAtATime /\ [CallbacksNext]_cbVars => OneAtATime'
<1> SUFFICES ASSUME CbType, OneAtATime, [CallbacksNext]_cbVars PROVE OneAtATime'
  OBVIOUS
<1> USE DEF CbType, OneAtATime
<1>1. CASE UNCHANGED cbVars
  BY <1>1 DEF cbVars
<1>2. CASE DestroyThreads \/ ServerGoes
  BY <1>2 DEF DestroyThreads, ServerGoes
<1>3. ASSUME NEW w \in Workers, LockMutex(w) PROVE OneAtATime'
  BY <1>3, CallbacksAssumption DEF LockMutex
<1>4. ASSUME NEW w \in Workers, CallbackReturns(w) PROVE OneAtATime'
  BY <1>4 DEF CallbackReturns
<1>5. ASSUME NEW w \in Workers, CallbackRemoves(w) PROVE OneAtATime'
  BY <1>5 DEF CallbackRemoves
<1>6. ASSUME NEW w \in Workers, CreateThread(w) \/ CancelledInCall(w) \/ WaitReturns(w)
      PROVE  OneAtATime'
  BY <1>6 DEF CreateThread, CancelledInCall, WaitReturns, Returns
<1>7. ASSUME NEW w \in Workers, Connect(w) \/ TestCancel(w) \/ Report(w) \/ Unlocked(w)
      PROVE  OneAtATime'
  BY <1>7 DEF Connect, TestCancel, Report, Unlocked
<1> QED BY <1>1, <1>2, <1>3, <1>4, <1>5, <1>6, <1>7 DEF CallbacksNext, Runs

LEMMA OnceStep == CbType /\ OnceMore /\ [CallbacksNext]_cbVars => OnceMore'
<1> SUFFICES ASSUME CbType, OnceMore, [CallbacksNext]_cbVars, ~ overRpc'
             PROVE  (freed \subseteq pending)' /\ \A u \in Workers : RunOff(u)'
  BY DEF OnceMore
<1>1. overRpc' = overRpc
  BY DEF CallbacksNext, cbVars, CreateThread, CancelledInCall, WaitReturns, Returns,
         LockMutex, CallbackRemoves, Runs, Connect, TestCancel, Report, CallbackReturns,
         Unlocked, DestroyThreads, ServerGoes
<1>2. freed \subseteq pending /\ \A u \in Workers : RunOff(u)
  BY <1>1 DEF OnceMore
<1> USE DEF CbType, RunOff
<1>3. CASE UNCHANGED cbVars
  BY <1>2, <1>3 DEF cbVars
<1>4. CASE DestroyThreads
  BY <1>2, <1>4 DEF DestroyThreads
<1>5. CASE ServerGoes
  BY <1>1, <1>2, <1>5 DEF ServerGoes
<1>6. ASSUME NEW w \in Workers, LockMutex(w)
      PROVE  (freed \subseteq pending)' /\ \A u \in Workers : RunOff(u)'
  \* It is at the mutex, so that it has not run since its removal.
  <2>1. after[w] = 0 /\ wpc[w] = "locking"
    BY <1>2, <1>6 DEF LockMutex
  <2>2. /\ after' = [after EXCEPT ![w] = IF w \in freed THEN 1 ELSE 0]
        /\ wpc' = [wpc EXCEPT ![w] = "callback"]
        /\ UNCHANGED <<pending, freed>>
    BY <1>6, <2>1 DEF LockMutex
  <2> QED BY <1>2, <2>2
<1>7. ASSUME NEW w \in Workers, TestCancel(w)
      PROVE  (freed \subseteq pending)' /\ \A u \in Workers : RunOff(u)'
  \* Whoever passes the test has not been cancelled, so that its entry is not freed.
  BY <1>2, <1>7 DEF TestCancel
<1>8. ASSUME NEW w \in Workers, Report(w)
      PROVE  (freed \subseteq pending)' /\ \A u \in Workers : RunOff(u)'
  BY <1>2, <1>8 DEF Report
<1>9. ASSUME NEW w \in Workers, Connect(w)
      PROVE  (freed \subseteq pending)' /\ \A u \in Workers : RunOff(u)'
  BY <1>1, <1>2, <1>9 DEF Connect
<1>10. ASSUME NEW w \in Workers,
              \/ CreateThread(w) \/ CancelledInCall(w) \/ WaitReturns(w)
              \/ CallbackRemoves(w) \/ CallbackReturns(w) \/ Unlocked(w)
       PROVE  (freed \subseteq pending)' /\ \A u \in Workers : RunOff(u)'
  BY <1>2, <1>10 DEF CreateThread, CancelledInCall, WaitReturns, Returns, CallbackRemoves,
                     CallbackReturns, Unlocked
<1> QED BY <1>3, <1>4, <1>5, <1>6, <1>7, <1>8, <1>9, <1>10 DEF CallbacksNext, Runs

LEMMA CbInvHolds == CallbacksSpec => []CbInv
<1>1. (\E kinds : CallbacksInit(kinds)) => CbInv
  BY InitCb
<1>2. CbInv /\ [CallbacksNext]_cbVars => CbInv'
  BY TypeStep, MutexStep, OnceStep DEF CbInv
<1> QED BY <1>1, <1>2, PTL DEF CallbacksSpec

-----------------------------------------------------------------------------
\* A callback of a driver of this computer that has been removed runs at most once more
\* (meids_local_calls.c, irqThread and its likes between pthread_testcancel and the mutex),
\* for every number of threads.
THEOREM OnceMoreHolds == CallbacksSpec => []AtMostOnceMore
<1>1. CbInv => AtMostOnceMore
  BY DEF CbInv, OnceMore, RunOff, AtMostOnceMore
<1> QED BY <1>1, CbInvHolds, PTL

\* The mutex of a context keeps its callbacks apart, also while they are removed.
THEOREM ApartHolds == CallbacksSpec => []OneAtATime
<1>1. CbInv => OneAtATime
  BY DEF CbInv
<1> QED BY <1>1, CbInvHolds, PTL
=============================================================================
