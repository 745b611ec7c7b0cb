--------------------------- MODULE Boards_proofs ----------------------------
(***************************************************************************)
(* The registers of every board agree with their copies, every write       *)
(* reaches its output, nobody is left waiting, exactly the lines that are  *)
(* started are enabled and every counter's value is whole: for any set of  *)
(* boards of BoardNames, any tasks, any arguments and any bound on the     *)
(* interrupts.                                                             *)
(*                                                                         *)
(* All five follow from BoardInv (see BoardMethods_proofs).  What is left  *)
(* is that the methods and the handlers of the interrupt lines, and of the *)
(* pins that interrupt, are safe as well; then every method of every board *)
(* is (SafeBoard), the invariant holds of a board that has been reset      *)
(* (InvInit) and every step keeps it (InvNext).                            *)
(*                                                                         *)
(* The last part is about the analog outputs of the ME-1600, which have a  *)
(* task and a list of their own: HeldBackAndWatched holds for any channels, *)
(* callers and samples.  It is not inductive: a strobe makes all outputs   *)
(* take over their registers, so the registers must tell the same story as *)
(* the outputs although a time-out writes a register without a strobe      *)
(* (AORegisters), and the channels that callers and the control task stand *)
(* at must be channels (AOType).                                           *)
(***************************************************************************)
EXTENDS BoardMethods_proofs, ME1600AO

-----------------------------------------------------------------------------
(* External interrupt lines.                                               *)

LineOf(b, i) ==
    \/ b = "me0600_irq" /\ i \in {0, 1}
    \/ b = "me4600_irq" /\ i = 0
    \/ b \in {"me1400ab", "me1400cd"} /\ i = 2

\* The locks of a task that works on a line.
Held(i) == Masking \cup {Lock(i)}

\* Its registers, with what may be written to them.
LineReg(b, i, r, all) ==
    \/ r = Status(i) /\ all = Statuses
    \/ r = Count(i) /\ all = AnyCount
    \/ b = "me4600_irq" /\ r = External(i) /\ all = Edges \cup Acknowledge
    \/ b = "me4600_irq" /\ r = EdgeMode(i) /\ all = Edges
    \/ b = "me1400ab" /\ r = Pin(i) /\ all = Enable \cup ClockEn

\* An interrupt line's registers, its one bond and its lock.
LEMMA LineFacts ==
    ASSUME NEW b, NEW i, LineOf(b, i)
    PROVE  /\ i \in Numbers /\ Guarded(b, i) /\ ~Silent(b, i)
           /\ {Status(i), Count(i), Resets(i)} \subseteq Registers(b)
           /\ \A r, all : LineReg(b, i, r, all) => r \in Registers(b)
           /\ \A x \in Bonds(b) : Home(b, x) = Lock(i) => x = Line0(i)
           /\ Home(b, Line0(i)) = Lock(i)
           /\ \A m \in 0 .. 14 : Whole(m) \in Bonds(b) => Home(b, Whole(m)) \in {Lock(0), Lock(1)} /\ i = 2
           /\ Bare(b, IntcsrLock) /\ Bare(b, ClkLock)
<1>1. CASE b = "me0600_irq" /\ i \in {0, 1}
  <2>1. Bonds(b) = {Line0(0), Line0(1)} BY <1>1 DEF Bonds
  <2>2. Home(b, Line0(0)) = Lock(0) /\ Home(b, Line0(1)) = Lock(1) BY DEF Home, Line0
  <2>3. \A m : Whole(m) \notin Bonds(b) BY <2>1 DEF Whole, Line0
  <2>4. Registers(b) = {Intcsr} \cup Line(0) \cup Line(1) BY <1>1 DEF Registers
  <2>5. {Status(i), Count(i), Resets(i)} \subseteq Registers(b) BY <2>4, <1>1 DEF Line
  <2>6. \A r, all : LineReg(b, i, r, all) => r \in Registers(b) BY <2>5, <1>1 DEF LineReg
  <2>7. Bare(b, IntcsrLock) /\ Bare(b, ClkLock) BY <2>1, <2>2 DEF Bare, IntcsrLock, ClkLock, Lock
  <2>8. \A x \in Bonds(b) : Home(b, x) = Lock(i) => x = Line0(i) BY <1>1, <2>1, <2>2 DEF Lock
  <2> QED BY <1>1, <2>1, <2>2, <2>3, <2>5, <2>6, <2>7, <2>8 DEF Guarded, Silent, Numbers
<1>2. CASE b = "me4600_irq" /\ i = 0
  <2>1. Bonds(b) = {Line0(0)} BY <1>2 DEF Bonds
  <2>2. Home(b, Line0(0)) = Lock(0) BY DEF Home, Line0
  <2>3. \A m : Whole(m) \notin Bonds(b) BY <2>1 DEF Whole, Line0
  <2>4. Registers(b) = {External(0), EdgeMode(0)} \cup Line(0) BY <1>2 DEF Registers
  <2>5. {Status(i), Count(i), Resets(i)} \subseteq Registers(b) BY <2>4, <1>2 DEF Line
  <2>6. \A r, all : LineReg(b, i, r, all) => r \in Registers(b) BY <2>4, <2>5, <1>2 DEF LineReg
  <2>7. Bare(b, IntcsrLock) /\ Bare(b, ClkLock) BY <2>1, <2>2 DEF Bare, IntcsrLock, ClkLock, Lock
  <2> QED BY <1>2, <2>1, <2>2, <2>3, <2>5, <2>6, <2>7 DEF Guarded, Silent, Numbers
<1>3. CASE b \in {"me1400ab", "me1400cd"} /\ i = 2
  <2>1. Bonds(b) = IF b = "me1400ab" THEN {Line0(2), Whole(0), Whole(3)} ELSE {Line0(2), Whole(12), Whole(13)}
    BY <1>3 DEF Bonds
  <2>2. Home(b, Line0(2)) = Lock(2) BY DEF Home, Line0
  <2>3. b = "me1400ab" => Home(b, Whole(0)) = Lock(0) /\ Home(b, Whole(3)) = Lock(1)
    BY DEF Home, Whole, Of, SubOf, Lock
  <2>9. b = "me1400cd" => Home(b, Whole(12)) = Lock(0) /\ Home(b, Whole(13)) = Lock(1)
    BY DEF Home, Whole, Of, SubOf, Lock
  <2>4. Line(2) \cup (IF b = "me1400ab" THEN {Pin(2)} ELSE {}) \subseteq Registers(b)
    BY <1>3 DEF Registers
  <2>5. {Status(i), Count(i), Resets(i)} \subseteq Registers(b) BY <2>4, <1>3 DEF Line
  <2>6. \A r, all : LineReg(b, i, r, all) => r \in Registers(b) BY <2>4, <2>5, <1>3 DEF LineReg
  <2>10. \A x \in Bonds(b) : x = Line0(2) \/ Home(b, x) \in {Lock(0), Lock(1)}
    BY <1>3, <2>1, <2>3, <2>9
  <2>7. Bare(b, IntcsrLock) /\ Bare(b, ClkLock) BY <2>10, <2>2 DEF Bare, IntcsrLock, ClkLock, Lock
  <2>8. \A x \in Bonds(b) : Home(b, x) = Lock(i) => x = Line0(i) BY <1>3, <2>10 DEF Lock
  <2>11. \A m : Whole(m) # Line0(2) BY DEF Whole, Line0
  <2> QED BY <1>3, <2>1, <2>2, <2>5, <2>6, <2>7, <2>8, <2>10, <2>11 DEF Guarded, Silent, Numbers
<1> QED BY <1>1, <1>2, <1>3 DEF LineOf

\* The locks at a line: its own and the processor's interrupt line.
LEMMA LineLocks ==
    ASSUME NEW i \in Numbers
    PROVE  /\ Lock(i) \in Held(i) /\ IrqLine \in Held(i) /\ IrqLine # Lock(i) /\ Lock(i) \notin Masking
           /\ IntcsrLock # IrqLine /\ ClkLock # IrqLine /\ IntcsrLock \notin Held(i) /\ ClkLock \notin Held(i)
           /\ \A j \in Numbers : Lock(j) \notin Masking /\ Lock(j) # IntcsrLock /\ Lock(j) # ClkLock
           /\ \A j \in Numbers : Lock(j) \in Held(i) => j = i
BY DEF Held, Masking, Lock, IrqLine, IntcsrLock, ClkLock, Numbers

\* The locks of a task at work, and the wake-ups it may owe.
AtLine(i, h) == Lock(i) \in h /\ IrqLine \in h /\ \A j \in Numbers : Lock(j) \in h => j = i
Debt(i) == {Owed(i, {})}

\* What a task relies on at a line fits those locks.
LEMMA LineFit ==
    ASSUME NEW b, NEW i, LineOf(b, i), NEW h, AtLine(i, h), NEW f, \A k \in f : Stable(b, "task", h, k),
           NEW o, o \subseteq Debt(i)
    PROVE  Fit(b, "task", h, f, o)
<1>1. i \in Numbers BY LineFacts
<1>2. Steady(b, "task", h, f) BY DEF Steady, AtLine
<1>3. Keeping(b, "task", h, f, o)
  <2>1. \A j, m : Owed(j, m) \in o => j = i /\ m = {} BY DEF Debt, Owed
  <2>2. Turned \notin o /\ Window \notin o BY DEF Debt, Owed, Turned, Window
  <2> QED BY <2>1, <2>2, <1>1 DEF Keeping
<1>4. \A m \in 0 .. 14 : Whole(m) \in Bonds(b) => Home(b, Whole(m)) \notin h
  BY LineFacts DEF AtLine, Numbers
<1> QED BY <1>2, <1>3, <1>4 DEF Fit

\* Nobody else writes the registers of a line whose locks are held.
LEMMA LineKeeps ==
    ASSUME NEW b, NEW i, LineOf(b, i), NEW h, AtLine(i, h), NEW r, NEW all, LineReg(b, i, r, all)
    PROVE  /\ Keeps(b, "task", h, r) /\ MayWrite(b, "task", h, r)
           /\ \A m, v : Stable(b, "task", h, Is(r, m, v))
<1>1. r[1] \in {"status", "count", "ext", "mode", "pin"} /\ r[2] = i
  BY DEF LineReg, Status, Count, External, EdgeMode, Pin
<1>2. Of(b, r) = Lock(i) BY <1>1 DEF Of
<1>3. ~Handled(r) /\ Lock(i) # NoLock BY <1>1 DEF Handled, Lock, NoLock
<1>4. Keeps(b, "task", h, r) BY <1>2, <1>3 DEF Keeps, AtLine
<1>5. MayWrite(b, "task", h, r) BY <1>2 DEF MayWrite, AtLine
<1>6. r \in Registers(b) BY LineFacts
<1> QED BY <1>4, <1>5, <1>6, StableOwn

\* Facts about bits of registers that stay.
Knows(b, u, h, f) ==
    \A k \in f : Stable(b, u, h, k) /\ \E q \in Registers(b) : \E m, v : k = Is(q, m, v)

\* Of the facts f, those on other registers remain.
Beside(f, rs) == {k \in f : k[2] \notin rs}

\* What a line's registers may hold.
LEMMA LineFine ==
    ASSUME NEW b, NEW i, LineOf(b, i), NEW r, NEW all, LineReg(b, i, r, all), NEW set, set \subseteq all
    PROVE  /\ \A v, w : FineAt(b, r, v, w) => FineAt(b, r, set, (w \ all) \cup set)
           /\ (\A j : r # <<"low", j>> /\ r # Port(j) /\ r # Rised(j) /\ r # Resets(j)) /\ ~Shared(b, r) /\ r # MyClock
           /\ \A j : r = Count(j) => j = i /\ r = Count(i)
<1>1. r[1] \in {"status", "count", "ext", "mode", "pin"} /\ r[2] = i
  BY DEF LineReg, Status, Count, External, EdgeMode, Pin
<1>2. /\ (\A j : r # <<"low", j>> /\ r # Port(j) /\ r # Rised(j) /\ r # Resets(j)) /\ ~Shared(b, r) /\ r # MyClock
      /\ r # Intcsr
      /\ \A j : r = Count(j) => j = i /\ r = Count(i)
  BY <1>1 DEF Port, Rised, Resets, Shared, Ctrl, Intcsr, MyClock, LineClock, Clock, Count
<1>3. Bounded(b, r) BY <1>1 DEF Bounded
<1>4. Universe(b, r) = all BY DEF LineReg, Universe, Status, Count, External, EdgeMode, Pin
<1>5. b \notin {"me0900_do", "me0900_di", "me8100", "me8100b", "me1400"} BY DEF LineOf
<1>6. Exact(b, r) BY <1>1, <1>2, <1>5 DEF Exact
<1>8. ASSUME NEW v, NEW w, FineAt(b, r, v, w)
      PROVE  FineAt(b, r, set, (w \ all) \cup set)
  <2>1. v \subseteq all /\ w = v BY <1>8, <1>3, <1>4, <1>6 DEF FineAt
  <2>2. (w \ all) \cup set = set BY <2>1
  <2> QED BY <2>2, <1>2, <1>4, <1>5 DEF FineAt
<1> QED BY <1>2, <1>8

LinePutOk(b, i, f, o, r, all, set, f3, f2, o2) ==
    /\ LineOf(b, i) /\ LineReg(b, i, r, all) /\ set \subseteq all
    /\ Knows(b, "task", Held(i), f)
    /\ \A k \in f3 : k = Is(r, all, set) \/ k \in Beside(f, {r})
    /\ Entails(b, f3, f2)
    /\ o \subseteq o2 /\ o2 \subseteq Debt(i) /\ (r = Count(i) => Owed(i, {}) \in o2)

\* A register of a line is overwritten.
LEMMA LinePut ==
    ASSUME NEW b, NEW i, NEW f, NEW o, NEW r, NEW all, NEW set, NEW f3, NEW f2, NEW o2,
           LinePutOk(b, i, f, o, r, all, set, f3, f2, o2)
    PROVE  Does(b, "task", Held(i), f, o, Put(r, all, set), Held(i), f2, o2)
<1> DEFINE h == Held(i)
<1>1. /\ LineOf(b, i) /\ LineReg(b, i, r, all) /\ set \subseteq all
      /\ Knows(b, "task", h, f) /\ Entails(b, f3, f2)
      /\ o \subseteq o2 /\ o2 \subseteq Debt(i) /\ (r = Count(i) => Owed(i, {}) \in o2)
  BY DEF LinePutOk
<1>2. i \in Numbers /\ r \in Registers(b) BY <1>1, LineFacts
<1>3. AtLine(i, h) BY <1>2, LineLocks DEF AtLine
<1> HIDE DEF h
<1>4. Fit(b, "task", h, f, o)
  <2>1. \A k \in f : Stable(b, "task", h, k) BY <1>1 DEF Knows
  <2>2. o \subseteq Debt(i) BY <1>1
  <2> QED BY <2>1, <2>2, <1>1, <1>3, LineFit
<1>5. MayWrite(b, "task", h, r) BY <1>1, <1>3, LineKeeps
<1>6. /\ \A v, w : FineAt(b, r, v, w) => FineAt(b, r, set, (w \ all) \cup set)
      /\ (\A j : r # <<"low", j>> /\ r # Port(j) /\ r # Rised(j) /\ r # Resets(j)) /\ ~Shared(b, r) /\ r # MyClock
      /\ \A j : r = Count(j) => j = i /\ r = Count(i)
  BY <1>1, LineFine
<1>7. Aim(b, f, r, set) BY <1>6 DEF Aim
<1>8. \A j \in Numbers : r \in {Count(j), Resets(j)} \/ (r = Rised(j) /\ set # {}) => Owing(b, o2, j)
  BY <1>1, <1>6 DEF Owing
<1>9. ASSUME NEW R, NEW W, NEW T, NEW R2, NEW W2, Local(b, f, R, W, T), Changes(b, r, R, R2, set),
             Changes(b, r, W, W2, (W[r] \ all) \cup set)
      PROVE  \A k \in f2 : Holds(b, k, R2, W2, T)
  <2>1. R2[r] = set /\ \A q \in Registers(b) : q # r => R2[q] = R[q] BY <1>9 DEF Changes
  <2>2. W2[r] = (W[r] \ all) \cup set /\ \A q \in Registers(b) : q # r => W2[q] = W[q]
    BY <1>9 DEF Changes
  <2>3. Fine(b, R, W) BY <1>9 DEF Local
  <2>4. FineAt(b, r, R2[r], W2[r])
    <3>1. FineAt(b, r, R[r], W[r]) BY <2>3, <1>2 DEF Fine
    <3> QED BY <3>1, <2>1, <2>2, <1>6
  <2>5. Fine(b, R2, W2) BY <2>1, <2>2, <2>3, <2>4 DEF Fine
  <2>6. ASSUME NEW k \in f3 PROVE Holds(b, k, R2, W2, T)
    <3>1. CASE k = Is(r, all, set)
      <4>1. R2[r] \cap all = set BY <2>1, <1>1
      <4> QED BY <4>1, <3>1 DEF Holds, Is
    <3>2. CASE k \in Beside(f, {r})
      <4>1. k \in f /\ k[2] # r BY <3>2 DEF Beside
      <4>2. PICK q \in Registers(b) : \E m, v : k = Is(q, m, v) BY <4>1, <1>1 DEF Knows
      <4>3. PICK m, v : k = Is(q, m, v) BY <4>2
      <4>4. q # r BY <4>1, <4>3 DEF Is
      <4>5. Holds(b, k, R, W, T) BY <4>1, <1>9 DEF Local
      <4>6. R[q] \cap m = v BY <4>3, <4>5 DEF Holds, Is
      <4>7. R2[q] \cap m = v BY <4>6, <4>4, <2>1
      <4> QED BY <4>3, <4>7 DEF Holds, Is
    <3> QED BY <3>1, <3>2 DEF LinePutOk
  <2>7. Local(b, f3, R2, W2, T) BY <2>5, <2>6 DEF Local
  <2>8. Local(b, f2, R2, W2, T) BY <2>7, <1>1 DEF Entails
  <2> QED BY <2>8 DEF Local
<1>10. Turned \notin o2 BY <1>1 DEF Debt, Owed, Turned
<1>11. PutOk(b, "task", h, f, o, r, all, set, f2, o2)
  BY <1>1, <1>2, <1>4, <1>5, <1>6, <1>7, <1>8, <1>9, <1>10 DEF PutOk
<1>12. Does(b, "task", h, f, o, Put(r, all, set), h, f2, o2) BY <1>11, DoesPut
<1> QED BY <1>12 DEF h

LineBumpOk(b, i, f, f2) ==
    /\ LineOf(b, i) /\ Knows(b, "task", Held(i), f)
    /\ Entails(b, Beside(f, {Resets(i)}), f2)

\* The count of resets goes up, and the sleepers are owed a wake-up.
LEMMA LineBump ==
    ASSUME NEW b, NEW i, NEW f, NEW f2, LineBumpOk(b, i, f, f2)
    PROVE  Does(b, "task", Held(i), f, Debt(i), Bump(Resets(i)), Held(i), f2, Debt(i))
<1> DEFINE h == Held(i)
<1> DEFINE r == Resets(i)
<1> DEFINE s == [do |-> "bump", reg |-> r]
<1> DEFINE f3 == Beside(f, {r})
<1>1. LineOf(b, i) /\ Knows(b, "task", h, f) /\ Entails(b, f3, f2) BY DEF LineBumpOk
<1>2. i \in Numbers /\ r \in Registers(b) BY <1>1, LineFacts
<1>3. AtLine(i, h) BY <1>2, LineLocks DEF AtLine
<1>4. r[1] = "resets" /\ r[2] = i BY DEF Resets
<1>5. s.do = "bump" /\ s.reg = r OBVIOUS
<1>6. \A k \in f3 : k \in f /\ k[2] # r BY DEF Beside
<1> HIDE DEF h, r, s, f3
<1>7. MayWrite(b, "task", h, r) BY <1>4 DEF MayWrite, Of, NoLock
<1>8. (\A j : r # Rised(j) /\ r # Count(j)) /\ r # MyClock /\ ~Shared(b, r) /\ r # Intcsr
      /\ \A j : r = Resets(j) => j = i
  BY <1>4 DEF Rised, Count, MyClock, LineClock, Clock, Shared, Ctrl, Intcsr, Resets
<1>9. Fit(b, "task", h, f, Debt(i))
  <2>1. \A k \in f : Stable(b, "task", h, k) BY <1>1 DEF Knows
  <2> QED BY <2>1, <1>1, <1>3, LineFit
<1>10. Aimed(b, f, s) BY <1>5 DEF Aimed
<1>11. \A v, T : NewOf(s, v, T) = Next1(v) BY <1>5 DEF NewOf
<1>12. \A w : NewAsked(s, w) = Next1(w) BY <1>5 DEF NewAsked
<1>13. \A v, w : FineAt(b, r, v, w) => FineAt(b, r, Next1(v), Next1(w))
  <2>1. b \notin {"me0900_do", "me0900_di", "me8100", "me8100b", "me1400"} BY <1>1 DEF LineOf
  <2>2. ~Bounded(b, r) BY <1>4 DEF Bounded, Ctrl
  <2>3. Exact(b, r) BY <1>4, <2>1, <1>8 DEF Exact
  <2> QED BY <2>1, <2>2, <2>3, <1>8 DEF FineAt
<1>14. Sound(b, "task", h, f, s)
  <2>1. ASSUME NEW R, NEW W, NEW T, Local(b, f, R, W, T)
        PROVE  FineAt(b, s.reg, NewOf(s, R[s.reg], T), NewAsked(s, W[s.reg]))
    <3>1. FineAt(b, r, R[r], W[r]) BY <2>1, <1>2 DEF Local, Fine
    <3>2. FineAt(b, r, Next1(R[r]), Next1(W[r])) BY <3>1, <1>13
    <3> QED BY <3>2, <1>5, <1>11, <1>12
  <2> QED BY <2>1, <1>5, <1>8 DEF Sound
<1>15. Calm(b, s, Debt(i)) BY <1>5, <1>8 DEF Calm, Debt
<1>16. Leads(b, f, s, f2)
  <2>1. ASSUME NEW R, NEW W, NEW T, NEW R2, NEW W2, Local(b, f, R, W, T), WriteEffect(b, s, R, W, T, R2, W2)
        PROVE  \A k \in f2 : Holds(b, k, R2, W2, T)
    <3>1. R2[r] = Next1(R[r]) /\ \A q \in Registers(b) : q # r => R2[q] = R[q]
      BY <2>1, <1>5, <1>11 DEF WriteEffect, Changes
    <3>2. W2[r] = Next1(W[r]) /\ \A q \in Registers(b) : q # r => W2[q] = W[q]
      BY <2>1, <1>5, <1>12 DEF WriteEffect, Changes
    <3>3. Fine(b, R, W) BY <2>1 DEF Local
    <3>4. FineAt(b, r, R2[r], W2[r])
      <4>1. FineAt(b, r, R[r], W[r]) BY <3>3, <1>2 DEF Fine
      <4> QED BY <4>1, <3>1, <3>2, <1>13
    <3>5. Fine(b, R2, W2) BY <3>1, <3>2, <3>3, <3>4 DEF Fine
    <3>6. ASSUME NEW k \in f3 PROVE Holds(b, k, R2, W2, T)
      <4>1. k \in f /\ k[2] # r BY <3>6, <1>6
      <4>2. PICK q \in Registers(b) : \E m, v : k = Is(q, m, v) BY <4>1, <1>1 DEF Knows
      <4>3. PICK m, v : k = Is(q, m, v) BY <4>2
      <4>4. q # r BY <4>1, <4>3 DEF Is
      <4>5. Holds(b, k, R, W, T) BY <4>1, <2>1 DEF Local
      <4>6. R[q] \cap m = v BY <4>3, <4>5 DEF Holds, Is
      <4>7. R2[q] \cap m = v BY <4>6, <4>4, <3>1
      <4> QED BY <4>3, <4>7 DEF Holds, Is
    <3>7. Local(b, f3, R2, W2, T) BY <3>5, <3>6 DEF Local
    <3>8. Local(b, f2, R2, W2, T) BY <3>7, <1>1 DEF Entails
    <3> QED BY <3>8 DEF Local
  <2> QED BY <2>1 DEF Leads
<1>17. Turned \notin Debt(i) /\ Debt(i) \subseteq Debt(i) BY DEF Debt, Owed, Turned
<1>18. WriteOk(b, "task", h, f, Debt(i), s, f2, Debt(i))
  BY <1>2, <1>5, <1>7, <1>8, <1>9, <1>10, <1>14, <1>15, <1>16, <1>17 DEF WriteOk
<1>19. Does(b, "task", h, f, Debt(i), <<s>>, h, f2, Debt(i)) BY <1>18, DoesWrite
<1> QED BY <1>19 DEF Bump, s, h, r

\* Facts entail fewer facts.
LEMMA EntailsSame == ASSUME NEW b, NEW f, NEW f2, f2 \subseteq f PROVE Entails(b, f, f2)
BY DEF Entails, Local

\* A register of a line is known once it has been written ...
LEMMA KnowsIs ==
    ASSUME NEW b, NEW i, LineOf(b, i), NEW r, NEW all, LineReg(b, i, r, all), NEW v
    PROVE  Knows(b, "task", Held(i), {Is(r, all, v)})
<1>1. i \in Numbers /\ r \in Registers(b) BY LineFacts
<1>2. AtLine(i, Held(i)) BY <1>1, LineLocks DEF AtLine
<1>3. Stable(b, "task", Held(i), Is(r, all, v)) BY <1>2, LineKeeps
<1> QED BY <1>1, <1>3 DEF Knows

\* ... what is known adds up ...
LEMMA KnowsJoin ==
    ASSUME NEW b, NEW h, NEW u, NEW f, NEW g, Knows(b, u, h, f), Knows(b, u, h, g)
    PROVE  Knows(b, u, h, f \cup g)
BY DEF Knows

\* ... and may be forgotten.
LEMMA KnowsLess ==
    ASSUME NEW b, NEW h, NEW u, NEW f, NEW g, Knows(b, u, h, f), g \subseteq f
    PROVE  Knows(b, u, h, g)
BY DEF Knows

\* A reset ends so: the line is stopped, what others know of it is stale.
LEMMA LineCancel ==
    ASSUME NEW b, NEW i, LineOf(b, i), NEW f, Knows(b, "task", Held(i), f), NEW f2,
           Entails(b, Beside(f, {Status(i), Count(i), Resets(i)}) \cup {Is(Status(i), Statuses, {})}, f2)
    PROVE  Does(b, "task", Held(i), f, Empty, Cancel(i), Held(i), f2, Debt(i))
<1> DEFINE rs == {Status(i), Count(i), Resets(i)}
<1> DEFINE x == Is(Status(i), Statuses, {})
<1> DEFINE f1 == Beside(f, {Status(i)}) \cup {x}
<1> DEFINE f3 == Beside(f1, {Count(i)})
<1>1. x[2] = Status(i) /\ Status(i) # Count(i) /\ Status(i) # Resets(i)
  BY DEF Is, Status, Count, Resets
<1>2. Knows(b, "task", Held(i), f1)
  <2>1. LineReg(b, i, Status(i), Statuses) BY DEF LineReg
  <2>2. Knows(b, "task", Held(i), {x}) BY <2>1, KnowsIs
  <2>3. Beside(f, {Status(i)}) \subseteq f BY DEF Beside
  <2> QED BY <2>2, <2>3, KnowsLess, KnowsJoin
<1>3. f3 \subseteq f1 BY DEF Beside
<1>4. Knows(b, "task", Held(i), f3) BY <1>2, <1>3, KnowsLess
<1>5. Beside(f3, {Resets(i)}) = Beside(f, rs) \cup {x} BY <1>1 DEF Beside
<1> HIDE DEF x, f1, f3, rs
<1>6. Does(b, "task", Held(i), f, Empty, SetStatus(i, {}), Held(i), f1, Empty)
  <2>1. LinePutOk(b, i, f, Empty, Status(i), Statuses, {}, f1, f1, Empty)
    <3>1. \A k \in f1 : k = Is(Status(i), Statuses, {}) \/ k \in Beside(f, {Status(i)}) BY DEF f1, x
    <3>2. Status(i) # Count(i) BY <1>1
    <3>3. Entails(b, f1, f1) BY EntailsSame
    <3> QED BY <3>1, <3>2, <3>3, Void DEF LinePutOk, LineReg
  <2> QED BY <2>1, LinePut DEF SetStatus
<1>7. Does(b, "task", Held(i), f1, Empty, ClearCount(i), Held(i), f3, Debt(i))
  <2>1. LinePutOk(b, i, f1, Empty, Count(i), AnyCount, Zero, f3, f3, Debt(i))
    <3>1. \A k \in f3 : k \in Beside(f1, {Count(i)}) BY DEF f3
    <3>2. Zero \subseteq AnyCount
      <4>1. 0 \in 0 .. MaxIrqs BY MaxIrqsAssumption
      <4> QED BY <4>1 DEF Zero, AnyCount
    <3>3. Entails(b, f3, f3) BY EntailsSame
    <3> QED BY <3>1, <3>2, <3>3, <1>2, Void DEF LinePutOk, LineReg, Debt
  <2> QED BY <2>1, LinePut DEF ClearCount
<1>8. Does(b, "task", Held(i), f3, Debt(i), Bump(Resets(i)), Held(i), f2, Debt(i))
  <2>1. LineBumpOk(b, i, f3, f2) BY <1>4, <1>5 DEF LineBumpOk, rs, x
  <2> QED BY <2>1, LineBump
<1>9. Does(b, "task", Held(i), f, Empty, SetStatus(i, {}) \o ClearCount(i), Held(i), f3, Debt(i))
  BY <1>6, <1>7, DoesThen
<1> QED BY <1>8, <1>9, DoesThen DEF Cancel

\* What a section on a line is to end with.
Ended(i) == Empty \cup {Firm(Line0(i))}

\* The bond of a line is not broken by others while its locks are held.
LEMMA LineFirm ==
    ASSUME NEW b, NEW i, LineOf(b, i), NEW h, AtLine(i, h)
    PROVE  Stable(b, "task", h, Firm(Line0(i)))
<1>0. Lock(i) \in h /\ IrqLine \in h /\ i \in Numbers BY LineFacts DEF AtLine
<1>s. LineReg(b, i, Status(i), Statuses) /\ Status(i) \in Registers(b) BY LineFacts DEF LineReg
<1>1. ASSUME NEW R, NEW W, NEW R2, NEW W2, Rely(b, "task", h, R, W, R2, W2), Bond(b, Line0(i), R, W)
      PROVE  Bond(b, Line0(i), R2, W2)
  <2>1. Keeps(b, "task", h, Status(i)) BY <1>s, LineKeeps
  <2>2. R2[Status(i)] = R[Status(i)] BY <1>1, <1>s, <2>1 DEF Rely
  <2>3. CASE b = "me0600_irq"
    <3>1. Intcsr \in Registers(b) /\ Shared(b, Intcsr) BY <2>3 DEF Registers, Shared
    <3>2. R2[Intcsr] \cap Mine(i) = R[Intcsr] \cap Mine(i) BY <1>1, <1>0, <3>1 DEF Rely
    <3>3. LineEn(i) \subseteq R2[Intcsr] <=> LineEn(i) \subseteq R[Intcsr] BY <3>2 DEF Mine
    <3> QED BY <2>2, <2>3, <3>3, <1>1 DEF Bond, Line0, Live
  <2>4. CASE b = "me4600_irq"
    <3>1. LineReg(b, i, External(i), Edges \cup Acknowledge) /\ LineReg(b, i, EdgeMode(i), Edges)
      BY <2>4 DEF LineReg
    <3>2. /\ External(i) \in Registers(b) /\ EdgeMode(i) \in Registers(b)
          /\ Keeps(b, "task", h, External(i)) /\ Keeps(b, "task", h, EdgeMode(i))
      BY <3>1, LineFacts, LineKeeps
    <3>3. R2[External(i)] = R[External(i)] /\ R2[EdgeMode(i)] = R[EdgeMode(i)]
      BY <1>1, <3>2 DEF Rely
    <3> QED BY <2>2, <2>4, <3>3, <1>1 DEF Bond, Line0, Live
  <2>5. CASE b = "me1400ab"
    <3>1. LineReg(b, i, Pin(i), Enable \cup ClockEn) BY <2>5 DEF LineReg
    <3>2. Pin(i) \in Registers(b) /\ Keeps(b, "task", h, Pin(i)) BY <3>1, LineFacts, LineKeeps
    <3>3. R2[Pin(i)] = R[Pin(i)] BY <1>1, <3>2 DEF Rely
    <3> QED BY <2>2, <2>5, <3>3, <1>1 DEF Bond, Line0, Live
  <2>6. CASE b = "me1400cd"
    <3>1. i = 2 BY <2>6 DEF LineOf
    <3>2. Enable \subseteq R2[MyClock] => Enable \subseteq R[MyClock]
      BY <1>1, <1>0, <2>6, <3>1 DEF Rely
    <3> QED BY <2>2, <2>6, <3>2, <1>1 DEF Bond, Line0, Live
  <2> QED BY <2>3, <2>4, <2>5, <2>6 DEF LineOf
<1> QED BY <1>1 DEF Stable, Holds, Firm

\* A section at a line ends with its bond restored.
LEMMA LineSection ==
    ASSUME NEW b, NEW i, LineOf(b, i), NEW f \in {Empty, Ended(i)}, NEW P, NEW o2 \in {Empty, Debt(i)},
           Does(b, "task", Held(i), f, Empty, P, Held(i), Ended(i), o2)
    PROVE  Does(b, "task", Empty, Empty, Empty, Protect(Lock(i), P), Empty, Empty, o2)
<1>1. i \in Numbers BY LineFacts
<1>2. AtLine(i, Held(i)) BY <1>1, LineLocks DEF AtLine
<1>3. Ended(i) = {Firm(Line0(i))} BY DEF Ended, Empty
<1>4. o2 \subseteq Debt(i) BY Void
<1>5. Fit(b, "task", Held(i), Ended(i), o2)
  <2>1. \A k \in Ended(i) : Stable(b, "task", Held(i), k) BY <1>2, <1>3, LineFirm
  <2> QED BY <2>1, <1>2, <1>4, LineFit
<1>6. ASSUME NEW o, o \subseteq Debt(i) PROVE Fit(b, "task", Masking, Empty, o)
  <2>1. Steady(b, "task", Masking, Empty) BY Void DEF Steady, Masking
  <2>2. Keeping(b, "task", Masking, Empty, o)
    <3>1. \A j, m : Owed(j, m) \in o => j = i /\ m = {} BY <1>6 DEF Debt, Owed
    <3>2. Turned \notin o /\ Window \notin o BY <1>6 DEF Debt, Owed, Turned, Window
    <3> QED BY <3>1, <3>2, <1>1 DEF Keeping
  <2>3. \A m \in 0 .. 14 : Whole(m) \in Bonds(b) => Home(b, Whole(m)) \notin Masking
    BY LineFacts, LineLocks DEF Numbers
  <2> QED BY <2>1, <2>2, <2>3 DEF Fit
<1>7. Opens(b, Empty, Lock(i), f)
  <2>1. ASSUME NEW R, NEW W, NEW T, Local(b, Empty, R, W, T), Bond(b, Line0(i), R, W)
        PROVE  Local(b, f, R, W, T)
    BY <2>1, <1>3, Void DEF Local, Holds, Firm
  <2> QED BY <2>1, LineFacts DEF Opens, Guarded
<1>8. Closes(b, Ended(i), Lock(i), Empty)
  <2>1. ASSUME NEW R, NEW W, NEW T, Local(b, Ended(i), R, W, T)
        PROVE  Local(b, Empty, R, W, T) /\ Bond(b, Line0(i), R, W)
    BY <2>1, <1>3, Void DEF Local, Holds, Firm
  <2> QED BY <2>1, LineFacts DEF Closes
<1>9. Lock(i) \notin Masking /\ Lock(i) # IrqLine /\ Masking \cup {Lock(i)} = Held(i)
  BY <1>1, LineLocks DEF Held
<1>10. Does(b, "task", Masking, Empty, Empty, Under(Lock(i), P), Masking, Empty, o2)
  <2>1. Fit(b, "task", Masking, Empty, Empty) BY <1>6, Void
  <2>2. Does(b, "task", Masking \cup {Lock(i)}, f, Empty, P, Masking \cup {Lock(i)}, Ended(i), o2)
    BY <1>9
  <2>3. Fit(b, "task", Masking \cup {Lock(i)}, Ended(i), o2) BY <1>5, <1>9
  <2> QED BY <2>1, <2>2, <2>3, <1>7, <1>8, <1>9, DoesUnder
<1>11. Fit(b, "task", Masking, Empty, o2) BY <1>4, <1>6
<1> QED BY <1>10, <1>11, DoesProtect

\* Such a section is harmless when it owes no wake-up ...
LEMMA LineProtect ==
    ASSUME NEW b, NEW i, LineOf(b, i), NEW f \in {Empty, Ended(i)}, NEW P,
           Does(b, "task", Held(i), f, Empty, P, Held(i), Ended(i), Empty)
    PROVE  Harmless(b, Protect(Lock(i), P))
<1>1. Does(b, "task", Empty, Empty, Empty, Protect(Lock(i), P), Empty, Empty, Empty) BY LineSection
<1> QED BY <1>1, DoesAll DEF Harmless

\* ... or when the wake-up follows it.
LEMMA LineReset ==
    ASSUME NEW b, NEW i, LineOf(b, i), NEW P,
           Does(b, "task", Held(i), Empty, Empty, P, Held(i), Ended(i), Debt(i))
    PROVE  Harmless(b, Protect(Lock(i), P) \o Wake(i))
<1>1. Does(b, "task", Empty, Empty, Empty, Protect(Lock(i), P), Empty, Empty, Debt(i))
  BY LineSection
<1>0. i \in Numbers BY LineFacts
<1>2. Fit(b, "task", Empty, Empty, Debt(i))
  <2>1. \A j, m : Owed(j, m) \in Debt(i) => j = i /\ m = {} BY DEF Debt, Owed
  <2>2. Turned \notin Debt(i) /\ Window \notin Debt(i) BY DEF Debt, Owed, Turned, Window
  <2> QED BY <1>0, <2>1, <2>2, Void DEF Fit, Steady, Keeping
<1>3. \A j, n : Owed(j, n) \in Debt(i) => j = i /\ n = {} BY DEF Debt, Owed
<1>5. Turned \notin Empty /\ Window \notin Debt(i) BY Void DEF Debt, Owed, Window
<1>4. Does(b, "task", Empty, Empty, Debt(i), WakeIf(Queue(i), Status(i), {}), Empty, Empty, Empty)
  BY <1>2, <1>3, <1>5, DoesWake
<1>6. Does(b, "task", Empty, Empty, Empty, Protect(Lock(i), P) \o Wake(i), Empty, Empty, Empty)
  BY <1>1, <1>4, DoesThen DEF Wake
<1> QED BY <1>6, DoesAll DEF Harmless

\* A wait holds nothing and knows nothing.
LEMMA LineWaits ==
    ASSUME NEW b, NEW i, LineOf(b, i), NEW a
    PROVE  Does(b, "task", Empty, Empty, Empty, WaitForLine(i, a), Empty, Empty, Empty)
<1>1. i \in Numbers /\ ~Silent(b, i) /\ Count(i) \in Registers(b) /\ Resets(i) \in Registers(b)
  BY LineFacts
<1>2. Fit(b, "task", Empty, Empty, Empty) BY Void DEF Fit, Steady, Keeping
<1>3. Does(b, "task", Empty, Empty, Empty, IF a.count = 0 THEN Load(Count(i)) ELSE Given({<<"irqs", a.count>>}),
           Empty, Empty, Empty)
  BY <1>1, <1>2, DoesGlance, DoesGiven, Void
<1>4. Does(b, "task", Empty, Empty, Empty, LoadAlso(Resets(i)), Empty, Empty, Empty)
  BY <1>1, <1>2, DoesLoadAlso, Void
<1>5. Does(b, "task", Empty, Empty, Empty, Since(i, a), Empty, Empty, Empty)
  BY <1>3, <1>4, DoesThen DEF Since
<1>6. Does(b, "task", Empty, Empty, Empty, Read(Status(i), Run), Empty, Empty, Empty)
  BY <1>2, DoesRead, Void
<1>7. Does(b, "task", Empty, Empty, Empty,
           Await({Count(i), Resets(i)}, Status(i), {}, Queue(i), Read(Status(i), Run)), Empty, Empty, Empty)
  <2> DEFINE s == [do |-> "await", news |-> {Count(i), Resets(i)}, reg |-> Status(i), bits |-> {},
                   queue |-> Queue(i), late |-> Read(Status(i), Run)]
  <2>1. s.news = {Count(i), Resets(i)} /\ s.bits = {} /\ s.queue = Queue(i) OBVIOUS
  <2> HIDE DEF s
  <2>2. Legal(b, s) BY <2>1, <1>1 DEF Legal
  <2> QED BY <2>2, <1>6, DoesAwait DEF s
<1>8. Does(b, "task", Empty, Empty, Empty,
           Since(i, a) \o Await({Count(i), Resets(i)}, Status(i), {}, Queue(i), Read(Status(i), Run)),
           Empty, Empty, Empty)
  BY <1>5, <1>7, DoesThen
<1> QED BY <1>6, <1>8, DoesThen DEF WaitForLine

\* When the bond of a line holds again: it is live only if it is started.
LEMMA LineEnds ==
    ASSUME NEW b, NEW i, LineOf(b, i), NEW f, NEW v, v \subseteq Statuses, Is(Status(i), Statuses, v) \in f,
           \A R, W, T : Local(b, f, R, W, T) =>
             /\ Live(b, i, R) => v = Run
             /\ b # "me1400cd" => (v = Run => Live(b, i, R))
             /\ b = "me4600_irq" => R[External(i)] \ Acknowledge = R[EdgeMode(i)]
    PROVE  Entails(b, f, Ended(i))
<1>1. Status(i) \in Registers(b) BY LineFacts
<1>2. Ended(i) = {Firm(Line0(i))} BY DEF Ended, Empty
<1>3. ASSUME NEW R, NEW W, NEW T, Local(b, f, R, W, T)
      PROVE  Local(b, Ended(i), R, W, T)
  <2>1. Holds(b, Is(Status(i), Statuses, v), R, W, T) BY <1>3 DEF Local
  <2>2. R[Status(i)] \cap Statuses = v BY <2>1 DEF Holds, Is
  <2>3. Fine(b, R, W) /\ FineAt(b, Status(i), R[Status(i)], W[Status(i)])
    BY <1>1, <1>3 DEF Local, Fine
  <2>4. R[Status(i)] \subseteq Statuses BY <2>3 DEF FineAt, Bounded, Universe, Status
  <2>5. R[Status(i)] = v BY <2>2, <2>4
  <2>6. Bond(b, Line0(i), R, W) BY <2>5, <1>3 DEF Bond, Line0
  <2> QED BY <2>3, <2>6, <1>2 DEF Local, Holds, Firm
<1> QED BY <1>3 DEF Entails

\* The status is set last.
LEMMA LineStatus ==
    ASSUME NEW b, NEW i, LineOf(b, i), NEW f, Knows(b, "task", Held(i), f), \A k \in f : k[2] # Status(i),
           NEW v \in {{}, Run, Stop}, NEW f2, Entails(b, f \cup {Is(Status(i), Statuses, v)}, f2)
    PROVE  Does(b, "task", Held(i), f, Empty, SetStatus(i, v), Held(i), f2, Empty)
<1> DEFINE f3 == f \cup {Is(Status(i), Statuses, v)}
<1>1. v \subseteq Statuses BY DEF Statuses, Run, Stop
<1>2. \A k \in f3 : k = Is(Status(i), Statuses, v) \/ k \in Beside(f, {Status(i)}) BY DEF Beside
<1>3. Status(i) # Count(i) BY DEF Status, Count
<1> HIDE DEF f3
<1>4. Entails(b, f3, f2) BY DEF f3
<1>5. LinePutOk(b, i, f, Empty, Status(i), Statuses, v, f3, f2, Empty)
  BY <1>1, <1>2, <1>3, <1>4, Void DEF LinePutOk, LineReg
<1> QED BY <1>5, LinePut DEF SetStatus

-----------------------------------------------------------------------------
(* The ME-0600.                                                            *)

IntcsrOk(i, clear, set, x) ==
    /\ clear \cup set \subseteq LineEn(i) \cup LinePol(i)
    /\ <<"pci", 0>> \in clear => <<"pci", 0>> \in set
    /\ \/ LineEn(i) \subseteq clear /\ LineEn(i) \cap set = {} /\ x = {}
       \/ LineEn(i) \subseteq set /\ x = LineEn(i)

\* The ME-0600 turns a line on or off in a register that two lines share ...
LEMMA IntcsrWrite ==
    ASSUME NEW i \in {0, 1}, NEW clear, NEW set, NEW x, IntcsrOk(i, clear, set, x)
    PROVE  Does("me0600_irq", "task", Held(i), Empty, Empty, Under(IntcsrLock, Rmw(Intcsr, clear, set)),
                Held(i), {Is(Intcsr, LineEn(i), x)}, Empty)
<1> DEFINE b == "me0600_irq"
<1> DEFINE h == Held(i) \cup {IntcsrLock}
<1> DEFINE r == Intcsr
<1> DEFINE f1 == {But(r, Empty)}
<1> DEFINE f2 == {Is(Intcsr, LineEn(i), x)}
<1>1. LineOf(b, i) /\ i \in Numbers /\ b # "me1400cd" /\ b # "me0900_di" BY DEF LineOf, Numbers
<1>2. r \in Registers(b) /\ Shared(b, r) BY DEF Registers, Shared
<1>3. AtLine(i, Held(i)) /\ AtLine(i, h) /\ IntcsrLock \in h BY <1>1, LineLocks DEF AtLine
<1>4. Of(b, r) = IntcsrLock /\ ~Masked(r) /\ ~Handled(r) /\ IntcsrLock # NoLock
  BY DEF Of, Masked, Handled, Intcsr, IntcsrLock, NoLock
<1>5. Exact(b, r) /\ ~Bounded(b, r) BY DEF Exact, Bounded, Intcsr, Ctrl, OutsOnly
<1>6. /\ clear \cup set \subseteq LineEn(i) \cup LinePol(i)
      /\ <<"pci", 0>> \in clear => <<"pci", 0>> \in set
  BY DEF IntcsrOk
<1>7. \A j \in Numbers : Lock(j) \notin h => (clear \cup set) \cap Mine(j) = {}
  <2>1. ASSUME NEW j \in Numbers, j # i, NEW y \in LineEn(i) \cup LinePol(i), y \in Mine(j) PROVE FALSE
    <3>1. y \in {<<"en", i>>, <<"pol", i>>, <<"pci", 0>>} BY <2>1 DEF LineEn, LinePol
    <3>2. y \in {<<"out", j>>, <<"fifo", j>>, <<"en", j>>}
      BY <2>1 DEF Mine, ModeBits, Out, Fifo, LineEn
    <3> QED BY <3>1, <3>2, <2>1
  <2>2. \A j \in Numbers : Lock(j) \notin h => j # i BY <1>3 DEF AtLine
  <2>3. \A j \in Numbers : j # i => (LineEn(i) \cup LinePol(i)) \cap Mine(j) = {} BY <2>1
  <2> QED BY <2>2, <2>3, <1>6
<1>9. r[1] = "intcsr" BY DEF Intcsr
<1>10. \A j : r # Rised(j) /\ r # Count(j) /\ r # Resets(j) /\ r # <<"low", j>> /\ r # Port(j)
  BY <1>9 DEF Rised, Count, Resets, Port
<1>11. LineEn(i) \subseteq Mine(i) /\ Lock(i) \in h /\ Lock(i) \in Held(i)
  BY <1>3 DEF Mine, AtLine
<1>y. LineEn(i) \cap ((LineEn(i) \ clear) \cup set) = x BY DEF IntcsrOk
<1>z. Bare(b, IntcsrLock) /\ IntcsrLock # IrqLine /\ IntcsrLock \notin Held(i)
  BY <1>1, LineFacts, LineLocks
<1> HIDE DEF b, h, r
<1>12. Keeps(b, "task", h, r) /\ MayWrite(b, "task", h, r) BY <1>3, <1>4 DEF Keeps, MayWrite
<1>13. Stable(b, "task", h, But(r, Empty)) BY <1>2, <1>12, StableOwn
<1>14. Stable(b, "task", h, Is(r, LineEn(i), x)) /\ Stable(b, "task", Held(i), Is(r, LineEn(i), x))
  BY <1>1, <1>2, <1>11, StableShared
<1>15. Fit(b, "task", h, f1, Empty) BY <1>1, <1>3, <1>13, LineFit, Void
<1>16. f2 = {Is(r, LineEn(i), x)} BY DEF r
<1>17. Fit(b, "task", h, f2, Empty) BY <1>1, <1>3, <1>14, <1>16, LineFit, Void
<1>18. Fit(b, "task", h, Empty, Empty) /\ Fit(b, "task", Held(i), Empty, Empty)
  BY <1>1, <1>3, LineFit, Void
<1>19. Does(b, "task", h, Empty, Empty, Load(r), h, f1, Empty)
  <2>1. \A R, W, T : Local(b, Empty, R, W, T) => \A k \in f1 : Holds(b, k, R, W, R[r])
    BY DEF Holds, But
  <2> HIDE DEF f1
  <2> QED BY <2>1, <1>2, <1>18, DoesLoad, Void
<1>20. StoreOk(b, "task", h, f1, Empty, r, Empty, clear, set)
  <2>1. \A v, w : FineAt(b, r, v, w) => FineAt(b, r, (v \ clear) \cup set, (w \ clear) \cup set)
    BY <1>1, <1>5, <1>6 DEF FineAt
  <2>2. Aim(b, f1, r, set) BY <1>10 DEF Aim
  <2> QED BY <2>1, <2>2, <1>1, <1>2, <1>7, <1>10, <1>12, <1>15, Void DEF StoreOk
<1>21. StoreLeads(b, f1, r, clear, set, f2)
  <2>1. ASSUME NEW R, NEW W, NEW T, NEW R2, NEW W2, Local(b, f1, R, W, T), Changes(b, r, R, R2, (R[r] \ clear) \cup set)
        PROVE  Holds(b, Is(r, LineEn(i), x), R2, W2, T)
    <3>1. R2[r] = (R[r] \ clear) \cup set BY <2>1 DEF Changes
    <3>2. R2[r] \cap LineEn(i) = x BY <3>1 DEF IntcsrOk
    <3> QED BY <3>2 DEF Holds, Is
  <2> QED BY <2>1, <1>16 DEF StoreLeads
<1> HIDE DEF f1, f2
<1>22. Does(b, "task", h, f1, Empty, Store(r, clear, set), h, f2, Empty)
  BY <1>20, <1>21, DoesStoreTo
<1>23. Does(b, "task", h, Empty, Empty, Rmw(r, clear, set), h, f2, Empty)
  BY <1>19, <1>22, DoesThen DEF Rmw
<1>24. Does(b, "task", Held(i), Empty, Empty, Under(IntcsrLock, Rmw(r, clear, set)), Held(i), f2, Empty)
  <2>1. h = Held(i) \cup {IntcsrLock} /\ f2 \subseteq f2 BY DEF h
  <2> HIDE DEF h
  <2> QED BY <2>1, <1>17, <1>18, <1>23, <1>z, DoesSection
<1> QED BY <1>24 DEF b, r, f2

\* ... after which the line's status has to be set to the same.
LEMMA IntcsrKnown ==
    ASSUME NEW i \in {0, 1}, NEW x, NEW f, f = {Is(Intcsr, LineEn(i), x)}
    PROVE  /\ Knows("me0600_irq", "task", Held(i), f)
           /\ \A k \in f : k[2] = Intcsr
           /\ \A v \in {{}, Run, Stop} : (v = Run <=> x = LineEn(i)) /\ x \in {{}, LineEn(i)} =>
                Entails("me0600_irq", f \cup {Is(Status(i), Statuses, v)}, Ended(i))
<1> DEFINE b == "me0600_irq"
<1>1. LineOf(b, i) /\ i \in Numbers /\ b # "me1400cd" /\ b # "me4600_irq" BY DEF LineOf, Numbers
<1>2. Intcsr \in Registers(b) /\ Shared(b, Intcsr) BY DEF Registers, Shared
<1>3. LineEn(i) \subseteq Mine(i) /\ Lock(i) \in Held(i) BY <1>1, LineLocks DEF Mine
<1>6. \A R : Live(b, i, R) <=> LineEn(i) \subseteq R[Intcsr] BY DEF Live
<1> HIDE DEF b
<1>4. Knows(b, "task", Held(i), f) BY <1>1, <1>2, <1>3, StableShared DEF Knows
<1>5. ASSUME NEW v \in {{}, Run, Stop}, (v = Run <=> x = LineEn(i)), x \in {{}, LineEn(i)}
      PROVE  Entails(b, f \cup {Is(Status(i), Statuses, v)}, Ended(i))
  <2> DEFINE g == f \cup {Is(Status(i), Statuses, v)}
  <2>1. v \subseteq Statuses BY DEF Statuses, Run, Stop
  <2>2. ASSUME NEW R, NEW W, NEW T, Local(b, g, R, W, T) PROVE Live(b, i, R) <=> v = Run
    <3>1. Holds(b, Is(Intcsr, LineEn(i), x), R, W, T) BY <2>2 DEF Local
    <3>2. R[Intcsr] \cap LineEn(i) = x BY <3>1 DEF Holds, Is
    <3>3. LineEn(i) \subseteq R[Intcsr] <=> x = LineEn(i) BY <3>2
    <3> QED BY <3>3, <1>5, <1>6
  <2>3. Is(Status(i), Statuses, v) \in g OBVIOUS
  <2> HIDE DEF g
  <2>4. Entails(b, g, Ended(i)) BY <1>1, <2>1, <2>2, <2>3, LineEnds
  <2> QED BY <2>4 DEF g
<1>7. \A k \in f : k[2] = Intcsr BY DEF Is
<1> QED BY <1>4, <1>5, <1>7 DEF b

\* A line that runs, one that has been stopped, and one that was never started.
LEMMA RunStop == Run # {} /\ Stop # {} /\ Run # Stop
<1>1. <<"run", 0>> \in Run /\ <<"run", 0>> # <<"stop", 0>> BY DEF Run
<1>2. <<"run", 0>> \notin Stop /\ <<"stop", 0>> \in Stop BY <1>1 DEF Stop
<1> QED BY <1>1, <1>2

\* The methods of the ME-0600's lines are harmless.
LEMMA Methods0600 ==
    ASSUME NEW i \in {0, 1}
    PROVE  /\ Harmless("me0600_irq", me0600_ext_irq_io_reset_subdevice(i))
           /\ \A a : Harmless("me0600_irq", me0600_ext_irq_io_irq_start(i, a))
           /\ \A a : Harmless("me0600_irq", me0600_ext_irq_io_irq_wait(i, a))
           /\ Harmless("me0600_irq", me0600_ext_irq_io_irq_stop(i))
<1> DEFINE b == "me0600_irq"
<1> DEFINE off == {Is(Intcsr, LineEn(i), {})}
<1> DEFINE on == {Is(Intcsr, LineEn(i), LineEn(i))}
<1>1. LineOf(b, i) BY DEF LineOf
<1>2. Intcsr # Status(i) /\ Intcsr # Count(i) /\ Intcsr # Resets(i)
  BY DEF Intcsr, Status, Count, Resets
<1>3. LineEn(i) # {} BY DEF LineEn
<1>4. Run # {} /\ Stop # {} /\ Run # Stop BY RunStop
<1>5. /\ Knows(b, "task", Held(i), off) /\ Knows(b, "task", Held(i), on)
      /\ (\A k \in off : k[2] = Intcsr) /\ (\A k \in on : k[2] = Intcsr)
      /\ Entails(b, off \cup {Is(Status(i), Statuses, {})}, Ended(i))
      /\ Entails(b, off \cup {Is(Status(i), Statuses, Stop)}, Ended(i))
      /\ Entails(b, on \cup {Is(Status(i), Statuses, Run)}, Ended(i))
  <2>1. /\ Knows(b, "task", Held(i), off) /\ (\A k \in off : k[2] = Intcsr)
        /\ \A v \in {{}, Run, Stop} : (v = Run <=> {} = LineEn(i)) /\ {} \in {{}, LineEn(i)} =>
                Entails(b, off \cup {Is(Status(i), Statuses, v)}, Ended(i))
    BY IntcsrKnown
  <2>2. /\ Knows(b, "task", Held(i), on) /\ (\A k \in on : k[2] = Intcsr)
        /\ \A v \in {{}, Run, Stop} : (v = Run <=> LineEn(i) = LineEn(i)) /\ LineEn(i) \in {{}, LineEn(i)} =>
                Entails(b, on \cup {Is(Status(i), Statuses, v)}, Ended(i))
    BY IntcsrKnown
  <2> QED BY <2>1, <2>2, <1>3, <1>4
<1>6. /\ IntcsrOk(i, LineEn(i) \cup LinePol(i), LinePol(i), {})
      /\ IntcsrOk(i, LineEn(i), {}, {}) /\ IntcsrOk(i, {}, LineEn(i) \cup LinePol(i), LineEn(i))
  BY DEF IntcsrOk, LineEn, LinePol
<1> DEFINE P1 == Under(IntcsrLock, Rmw(Intcsr, LineEn(i) \cup LinePol(i), LinePol(i)))
<1> DEFINE P2 == Under(IntcsrLock, Rmw(Intcsr, LineEn(i), {}))
<1> DEFINE P3 == Under(IntcsrLock, Rmw(Intcsr, {}, LineEn(i) \cup LinePol(i)))
<1>7. /\ Does(b, "task", Held(i), Empty, Empty, P1, Held(i), off, Empty)
      /\ Does(b, "task", Held(i), Empty, Empty, P2, Held(i), off, Empty)
      /\ Does(b, "task", Held(i), Empty, Empty, P3, Held(i), on, Empty)
  BY <1>6, IntcsrWrite
<1> HIDE DEF P1, P2, P3, off, on, b
<1>8. Harmless(b, Protect(Lock(i), P1 \o Cancel(i)) \o Wake(i))
  <2>1. Beside(off, {Status(i), Count(i), Resets(i)}) = off BY <1>2, <1>5 DEF Beside
  <2>2. Entails(b, Beside(off, {Status(i), Count(i), Resets(i)}) \cup {Is(Status(i), Statuses, {})}, Ended(i))
    BY <2>1, <1>5
  <2>3. Does(b, "task", Held(i), off, Empty, Cancel(i), Held(i), Ended(i), Debt(i))
    BY <1>1, <1>5, <2>2, LineCancel
  <2>4. Does(b, "task", Held(i), Empty, Empty, P1 \o Cancel(i), Held(i), Ended(i), Debt(i))
    BY <1>7, <2>3, DoesThen
  <2> QED BY <1>1, <2>4, LineReset
<1>9. Harmless(b, Protect(Lock(i), P2 \o SetStatus(i, Stop)))
  <2>1. Does(b, "task", Held(i), off, Empty, SetStatus(i, Stop), Held(i), Ended(i), Empty)
    BY <1>1, <1>2, <1>5, LineStatus
  <2>2. Does(b, "task", Held(i), Empty, Empty, P2 \o SetStatus(i, Stop), Held(i), Ended(i), Empty)
    BY <1>7, <2>1, DoesThen
  <2> QED BY <1>1, <2>2, LineProtect
<1>10. Harmless(b, Protect(Lock(i), P3 \o SetStatus(i, Run)))
  <2>1. Does(b, "task", Held(i), on, Empty, SetStatus(i, Run), Held(i), Ended(i), Empty)
    BY <1>1, <1>2, <1>5, LineStatus
  <2>2. Does(b, "task", Held(i), Empty, Empty, P3 \o SetStatus(i, Run), Held(i), Ended(i), Empty)
    BY <1>7, <2>1, DoesThen
  <2> QED BY <1>1, <2>2, LineProtect
<1>11. \A a : Harmless(b, WaitForLine(i, a)) BY <1>1, LineWaits, DoesAll DEF Harmless
<1> QED
  BY <1>8, <1>9, <1>10, <1>11, Refuses DEF me0600_ext_irq_io_reset_subdevice,
     me0600_ext_irq_io_irq_start,
       me0600_ext_irq_io_irq_wait, me0600_ext_irq_io_irq_stop, P1, P2, P3, b

LineNextOk(b, i, f, r, all, set, o, o2) ==
    /\ LineOf(b, i) /\ LineReg(b, i, r, all) /\ set \subseteq all
    /\ Knows(b, "task", Held(i), f) /\ \A k \in f : k[2] # r
    /\ o \in {Empty, Debt(i)} /\ o2 \in {Empty, Debt(i)} /\ (o = Debt(i) => o2 = Debt(i))
    /\ r = Count(i) => o2 = Debt(i)

\* The next register of a line is written, and what was known of the others stays.
LEMMA LineNext ==
    ASSUME NEW b, NEW i, NEW f, NEW r, NEW all, NEW set, NEW o, NEW o2, LineNextOk(b, i, f, r, all, set, o, o2)
    PROVE  /\ \A f2 : Entails(b, f \cup {Is(r, all, set)}, f2)
                => Does(b, "task", Held(i), f, o, Put(r, all, set), Held(i), f2, o2)
           /\ Does(b, "task", Held(i), f, o, Put(r, all, set), Held(i), f \cup {Is(r, all, set)}, o2)
           /\ Knows(b, "task", Held(i), f \cup {Is(r, all, set)})
<1>1. /\ LineOf(b, i) /\ LineReg(b, i, r, all) /\ set \subseteq all
      /\ Knows(b, "task", Held(i), f) /\ \A k \in f : k[2] # r
      /\ o \in {Empty, Debt(i)} /\ o2 \in {Empty, Debt(i)} /\ (o = Debt(i) => o2 = Debt(i))
      /\ r = Count(i) => o2 = Debt(i)
  BY DEF LineNextOk
<1>2. o \subseteq o2 /\ o2 \subseteq Debt(i) /\ (r = Count(i) => Owed(i, {}) \in o2)
  BY <1>1, Void DEF Debt
<1> DEFINE f3 == f \cup {Is(r, all, set)}
<1>3. \A k \in f3 : k = Is(r, all, set) \/ k \in Beside(f, {r}) BY <1>1 DEF Beside
<1>4. Entails(b, f3, f3) BY EntailsSame
<1> HIDE DEF f3
<1>5. ASSUME NEW f2, Entails(b, f3, f2)
      PROVE  Does(b, "task", Held(i), f, o, Put(r, all, set), Held(i), f2, o2)
  <2>1. LinePutOk(b, i, f, o, r, all, set, f3, f2, o2) BY <1>1, <1>2, <1>3, <1>5 DEF LinePutOk
  <2> QED BY <2>1, LinePut
<1>6. Knows(b, "task", Held(i), f3)
  <2>1. Knows(b, "task", Held(i), {Is(r, all, set)}) BY <1>1, KnowsIs
  <2> QED BY <2>1, <1>1, KnowsJoin DEF f3
<1> QED BY <1>4, <1>5, <1>6 DEF f3

-----------------------------------------------------------------------------
(* The ME-4600.                                                            *)

EdgeFacts(x, m) == {Is(External(0), Edges \cup Acknowledge, x), Is(EdgeMode(0), Edges, m)}

\* The bond of the ME-4600's line: the edge it is set to is the one that was asked for.
LEMMA Ends4600 ==
    ASSUME NEW x, NEW m, NEW v, x \subseteq Edges \cup Acknowledge, x \ Acknowledge = m, m \subseteq Edges,
           v \subseteq Statuses, v = Run <=> m # {},
           NEW f, EdgeFacts(x, m) \subseteq f, Is(Status(0), Statuses, v) \in f
    PROVE  Entails("me4600_irq", f, Ended(0))
<1> DEFINE b == "me4600_irq"
<1>1. LineOf(b, 0) BY DEF LineOf
<1>2. External(0) \in Registers(b) /\ EdgeMode(0) \in Registers(b) BY DEF Registers
<1>3. \A R : Live(b, 0, R) <=> R[External(0)] \cap Edges # {} BY DEF Live
<1>4. Bounded(b, External(0)) /\ Universe(b, External(0)) = Edges \cup Acknowledge
  BY DEF Bounded, Universe, External
<1>5. Bounded(b, EdgeMode(0)) /\ Universe(b, EdgeMode(0)) = Edges BY DEF Bounded, Universe, EdgeMode
<1>6. b # "me1400cd" OBVIOUS
<1> HIDE DEF b
<1>7. Edges \cap Acknowledge = {} BY DEF Edges, Acknowledge
<1>8. ASSUME NEW R, NEW W, NEW T, Local(b, f, R, W, T)
      PROVE  R[External(0)] = x /\ R[EdgeMode(0)] = m
  <2>1. Fine(b, R, W) BY <1>8 DEF Local
  <2>2. R[External(0)] \subseteq Edges \cup Acknowledge BY <2>1, <1>2, <1>4 DEF Fine, FineAt
  <2>3. R[EdgeMode(0)] \subseteq Edges BY <2>1, <1>2, <1>5 DEF Fine, FineAt
  <2>4. /\ Holds(b, Is(External(0), Edges \cup Acknowledge, x), R, W, T)
        /\ Holds(b, Is(EdgeMode(0), Edges, m), R, W, T)
    BY <1>8 DEF Local, EdgeFacts
  <2>5. R[External(0)] \cap (Edges \cup Acknowledge) = x /\ R[EdgeMode(0)] \cap Edges = m
    BY <2>4 DEF Holds, Is
  <2> QED BY <2>2, <2>3, <2>5
<1>9. x \cap Edges = m BY <1>7
<1>10. \A R, W, T : Local(b, f, R, W, T) =>
             /\ Live(b, 0, R) => v = Run
             /\ b # "me1400cd" => (v = Run => Live(b, 0, R))
             /\ b = "me4600_irq" => R[External(0)] \ Acknowledge = R[EdgeMode(0)]
  BY <1>3, <1>8, <1>9
<1>11. Entails(b, f, Ended(0)) BY <1>1, <1>10, LineEnds
<1> QED BY <1>11 DEF b

\* The registers of a line are different ones.
LEMMA LineNames ==
    ASSUME NEW i
    PROVE  /\ Status(i) # Count(i) /\ Status(i) # External(i) /\ Status(i) # EdgeMode(i) /\ External(i) # EdgeMode(i)
           /\ Count(i) # External(i) /\ Count(i) # EdgeMode(i) /\ Resets(i) # External(i) /\ Resets(i) # EdgeMode(i)
           /\ Resets(i) # Status(i) /\ Resets(i) # Count(i)
           /\ \A r, m, v : Is(r, m, v)[2] = r
BY DEF Status, Count, External, EdgeMode, Resets, Is

\* A count of zero is a count.
LEMMA ZeroFits == Zero \subseteq AnyCount
<1>1. 0 \in 0 .. MaxIrqs BY MaxIrqsAssumption
<1> QED BY <1>1 DEF Zero, AnyCount

\* The methods of the ME-4600's line are harmless.
LEMMA Methods4600 ==
    /\ Harmless("me4600_irq", me4600_ext_irq_io_reset_subdevice(0))
    /\ \A a : Harmless("me4600_irq", me4600_ext_irq_io_irq_start(0, a))
    /\ \A a : Harmless("me4600_irq", me4600_ext_irq_io_irq_wait(0, a))
    /\ Harmless("me4600_irq", me4600_ext_irq_io_irq_stop(0))
<1> DEFINE b == "me4600_irq"
<1> DEFINE i == 0
<1> DEFINE EA == Edges \cup Acknowledge
<1>1. LineOf(b, i) /\ i = 0 BY DEF LineOf
<1>2. /\ LineReg(b, i, Status(i), Statuses) /\ LineReg(b, i, Count(i), AnyCount)
      /\ LineReg(b, i, External(i), EA) /\ LineReg(b, i, EdgeMode(i), Edges)
  BY DEF LineReg
<1>3. EA = Edges \cup Acknowledge /\ b = "me4600_irq" OBVIOUS
<1> HIDE DEF b, i, EA
<1>4. Knows(b, "task", Held(i), Empty) BY Void DEF Knows
<1>5. Acknowledge \subseteq EA /\ Acknowledge \ Acknowledge = {} BY <1>3
<1>v. {} \subseteq Statuses /\ Run \subseteq Statuses /\ Stop \subseteq Statuses
  BY DEF Statuses, Run, Stop
<1>6. Harmless(b, me4600_ext_irq_io_reset_subdevice(i))
  <2> DEFINE P1 == SetStatus(i, {})
  <2> DEFINE P2 == Put(EdgeMode(i), Edges, {})
  <2> DEFINE P3 == ClearCount(i)
  <2> DEFINE P4 == Put(External(i), EA, Acknowledge)
  <2> DEFINE P5 == Bump(Resets(i))
  <2> DEFINE k1 == Is(Status(i), Statuses, {})
  <2> DEFINE k2 == Is(EdgeMode(i), Edges, {})
  <2> DEFINE k3 == Is(Count(i), AnyCount, Zero)
  <2> DEFINE k4 == Is(External(i), EA, Acknowledge)
  <2> DEFINE f1 == Empty \cup {k1}
  <2> DEFINE f2 == f1 \cup {k2}
  <2> DEFINE f3 == f2 \cup {k3}
  <2> DEFINE f4 == f3 \cup {k4}
  <2>0. k1[2] = Status(i) /\ k2[2] = EdgeMode(i) /\ k3[2] = Count(i) /\ k4[2] = External(i)
    BY LineNames
  <2>k. k1 = Is(Status(i), Statuses, {}) /\ k2 = Is(EdgeMode(i), Edges, {}) /\ k3 = Is(Count(i), AnyCount, Zero)
        /\ k4 = Is(External(i), EA, Acknowledge)
    OBVIOUS
  <2> HIDE DEF k1, k2, k3, k4
  <2>1. LineNextOk(b, i, Empty, Status(i), Statuses, {}, Empty, Empty)
    BY <1>1, <1>2, <1>4, <1>v, LineNames, Void DEF LineNextOk
  <2>2. Does(b, "task", Held(i), Empty, Empty, P1, Held(i), f1, Empty) /\ Knows(b, "task", Held(i), f1)
    BY <2>1, <2>k, LineNext DEF SetStatus
  <2>3. LineNextOk(b, i, f1, EdgeMode(i), Edges, {}, Empty, Empty)
    BY <1>1, <1>2, <2>0, <2>2, LineNames, Void DEF LineNextOk
  <2>4. Does(b, "task", Held(i), f1, Empty, P2, Held(i), f2, Empty) /\ Knows(b, "task", Held(i), f2)
    BY <2>3, <2>k, LineNext
  <2>5. LineNextOk(b, i, f2, Count(i), AnyCount, Zero, Empty, Debt(i))
    BY <1>1, <1>2, <2>0, <2>4, LineNames, ZeroFits, Void DEF LineNextOk
  <2>6. Does(b, "task", Held(i), f2, Empty, P3, Held(i), f3, Debt(i)) /\ Knows(b, "task", Held(i), f3)
    BY <2>5, <2>k, LineNext DEF ClearCount
  <2>7. LineNextOk(b, i, f3, External(i), EA, Acknowledge, Debt(i), Debt(i))
    BY <1>1, <1>2, <1>5, <2>0, <2>6, LineNames, Void DEF LineNextOk
  <2>8. Does(b, "task", Held(i), f3, Debt(i), P4, Held(i), f4, Debt(i)) /\ Knows(b, "task", Held(i), f4)
    BY <2>7, <2>k, LineNext
  <2>9. Does(b, "task", Held(i), f4, Debt(i), P5, Held(i), Ended(i), Debt(i))
    <3>1. {k1, k2, k4} \subseteq Beside(f4, {Resets(i)}) BY <2>0, LineNames DEF Beside
    <3>2. EdgeFacts(Acknowledge, {}) \subseteq Beside(f4, {Resets(i)})
      BY <3>1, <2>k, <1>1, <1>3 DEF EdgeFacts
    <3>3. Is(Status(i), Statuses, {}) \in Beside(f4, {Resets(i)}) BY <3>1, <2>k
    <3> HIDE DEF f4
    <3>4. Entails(b, Beside(f4, {Resets(i)}), Ended(i))
      BY <3>2, <3>3, <1>1, <1>3, <1>5, <1>v, RunStop, Ends4600
    <3>5. LineBumpOk(b, i, f4, Ended(i)) BY <3>4, <2>8, <1>1 DEF LineBumpOk
    <3> QED BY <3>5, LineBump
  <2> HIDE DEF P1, P2, P3, P4, P5, f1, f2, f3, f4
  <2>10. Does(b, "task", Held(i), Empty, Empty, P1 \o P2, Held(i), f2, Empty)
    BY <2>2, <2>4, DoesThen
  <2>11. Does(b, "task", Held(i), Empty, Empty, (P1 \o P2) \o P3, Held(i), f3, Debt(i))
    BY <2>10, <2>6, DoesThen
  <2>12. Does(b, "task", Held(i), Empty, Empty, ((P1 \o P2) \o P3) \o P4, Held(i), f4, Debt(i))
    BY <2>11, <2>8, DoesThen
  <2>13. Does(b, "task", Held(i), Empty, Empty, (((P1 \o P2) \o P3) \o P4) \o P5, Held(i), Ended(i), Debt(i))
    BY <2>12, <2>9, DoesThen
  <2>14. Harmless(b, Protect(Lock(i), (((P1 \o P2) \o P3) \o P4) \o P5) \o Wake(i))
    BY <1>1, <2>13, LineReset
  <2> QED BY <2>14 DEF me4600_ext_irq_io_reset_subdevice, P1, P2, P3, P4, P5, EA
<1>7. ASSUME NEW a, LineStart(a, {"rising", "falling", "any"})
      PROVE  Harmless(b, me4600_ext_irq_io_irq_start(i, a))
  <2> DEFINE e == {<<"edge", a.edge>>}
  <2> DEFINE P1 == Put(EdgeMode(i), Edges, e)
  <2> DEFINE P2 == SetStatus(i, Run)
  <2> DEFINE P3 == Put(External(i), EA, e)
  <2> DEFINE k1 == Is(EdgeMode(i), Edges, e)
  <2> DEFINE k2 == Is(Status(i), Statuses, Run)
  <2> DEFINE k3 == Is(External(i), EA, e)
  <2> DEFINE f1 == Empty \cup {k1}
  <2> DEFINE f2 == f1 \cup {k2}
  <2> DEFINE f3 == f2 \cup {k3}
  <2>e. e \subseteq Edges /\ e # {} BY <1>7 DEF LineStart, Starts, Edges
  <2>a. e \ Acknowledge = e /\ e \subseteq EA BY <2>e, <1>3 DEF Edges, Acknowledge
  <2>0. k1[2] = EdgeMode(i) /\ k2[2] = Status(i) BY LineNames
  <2>k. k1 = Is(EdgeMode(i), Edges, e) /\ k2 = Is(Status(i), Statuses, Run) /\ k3 = Is(External(i), EA, e)
    OBVIOUS
  <2> HIDE DEF k1, k2, k3, e
  <2>1. LineNextOk(b, i, Empty, EdgeMode(i), Edges, e, Empty, Empty)
    BY <1>1, <1>2, <1>4, <2>e, LineNames, Void DEF LineNextOk
  <2>2. Does(b, "task", Held(i), Empty, Empty, P1, Held(i), f1, Empty) /\ Knows(b, "task", Held(i), f1)
    BY <2>1, <2>k, LineNext
  <2>3. LineNextOk(b, i, f1, Status(i), Statuses, Run, Empty, Empty)
    BY <1>1, <1>2, <1>v, <2>0, <2>2, LineNames, Void DEF LineNextOk
  <2>4. Does(b, "task", Held(i), f1, Empty, P2, Held(i), f2, Empty) /\ Knows(b, "task", Held(i), f2)
    BY <2>3, <2>k, LineNext DEF SetStatus
  <2>5. LineNextOk(b, i, f2, External(i), EA, e, Empty, Empty)
    BY <1>1, <1>2, <2>0, <2>4, <2>a, LineNames, Void DEF LineNextOk
  <2>6. Entails(b, f3, Ended(i))
    <3>1. EdgeFacts(e, e) \subseteq f3 /\ Is(Status(i), Statuses, Run) \in f3
      BY <2>k, <1>1, <1>3 DEF EdgeFacts
    <3> HIDE DEF f3
    <3> QED BY <3>1, <1>1, <1>3, <1>v, <2>a, <2>e, Ends4600
  <2>7. Does(b, "task", Held(i), f2, Empty, P3, Held(i), Ended(i), Empty)
    BY <2>5, <2>6, <2>k, LineNext
  <2> HIDE DEF P1, P2, P3, f1, f2, f3
  <2>8. Does(b, "task", Held(i), Empty, Empty, P1 \o P2, Held(i), f2, Empty) BY <2>2, <2>4, DoesThen
  <2>9. Does(b, "task", Held(i), Empty, Empty, (P1 \o P2) \o P3, Held(i), Ended(i), Empty)
    BY <2>8, <2>7, DoesThen
  <2>10. Harmless(b, Protect(Lock(i), (P1 \o P2) \o P3)) BY <1>1, <2>9, LineProtect
  <2> QED BY <2>10, <1>7 DEF me4600_ext_irq_io_irq_start, P1, P2, P3, EA, e
<1>8. Harmless(b, me4600_ext_irq_io_irq_stop(i))
  <2> DEFINE P1 == Put(EdgeMode(i), Edges, {})
  <2> DEFINE P2 == Put(External(i), EA, Acknowledge)
  <2> DEFINE P3 == SetStatus(i, Stop)
  <2> DEFINE k1 == Is(EdgeMode(i), Edges, {})
  <2> DEFINE k2 == Is(External(i), EA, Acknowledge)
  <2> DEFINE k3 == Is(Status(i), Statuses, Stop)
  <2> DEFINE f1 == Empty \cup {k1}
  <2> DEFINE f2 == f1 \cup {k2}
  <2> DEFINE f3 == f2 \cup {k3}
  <2>0. k1[2] = EdgeMode(i) /\ k2[2] = External(i) BY LineNames
  <2>k. k1 = Is(EdgeMode(i), Edges, {}) /\ k2 = Is(External(i), EA, Acknowledge) /\ k3 = Is(Status(i), Statuses, Stop)
    OBVIOUS
  <2> HIDE DEF k1, k2, k3
  <2>1. LineNextOk(b, i, Empty, EdgeMode(i), Edges, {}, Empty, Empty)
    BY <1>1, <1>2, <1>4, LineNames, Void DEF LineNextOk
  <2>2. Does(b, "task", Held(i), Empty, Empty, P1, Held(i), f1, Empty) /\ Knows(b, "task", Held(i), f1)
    BY <2>1, <2>k, LineNext
  <2>3. LineNextOk(b, i, f1, External(i), EA, Acknowledge, Empty, Empty)
    BY <1>1, <1>2, <1>5, <2>0, <2>2, LineNames, Void DEF LineNextOk
  <2>4. Does(b, "task", Held(i), f1, Empty, P2, Held(i), f2, Empty) /\ Knows(b, "task", Held(i), f2)
    BY <2>3, <2>k, LineNext
  <2>5. LineNextOk(b, i, f2, Status(i), Statuses, Stop, Empty, Empty)
    BY <1>1, <1>2, <1>v, <2>0, <2>4, LineNames, Void DEF LineNextOk
  <2>6. Entails(b, f3, Ended(i))
    <3>1. EdgeFacts(Acknowledge, {}) \subseteq f3 /\ Is(Status(i), Statuses, Stop) \in f3
      BY <2>k, <1>1, <1>3 DEF EdgeFacts
    <3> HIDE DEF f3
    <3> QED BY <3>1, <1>1, <1>3, <1>5, <1>v, RunStop, Ends4600
  <2>7. Does(b, "task", Held(i), f2, Empty, P3, Held(i), Ended(i), Empty)
    BY <2>5, <2>6, <2>k, LineNext DEF SetStatus
  <2> HIDE DEF P1, P2, P3, f1, f2, f3
  <2>8. Does(b, "task", Held(i), Empty, Empty, P1 \o P2, Held(i), f2, Empty) BY <2>2, <2>4, DoesThen
  <2>9. Does(b, "task", Held(i), Empty, Empty, (P1 \o P2) \o P3, Held(i), Ended(i), Empty)
    BY <2>8, <2>7, DoesThen
  <2>10. Harmless(b, Protect(Lock(i), (P1 \o P2) \o P3)) BY <1>1, <2>9, LineProtect
  <2> QED BY <2>10 DEF me4600_ext_irq_io_irq_stop, P1, P2, P3, EA
<1>9. \A a : Harmless(b, WaitForLine(i, a)) BY <1>1, LineWaits, DoesAll DEF Harmless
<1>10. \A a : Harmless(b, me4600_ext_irq_io_irq_start(i, a))
  <2>1. ASSUME NEW a, ~LineStart(a, {"rising", "falling", "any"})
        PROVE  Harmless(b, me4600_ext_irq_io_irq_start(i, a))
    BY <2>1, Refuses DEF me4600_ext_irq_io_irq_start
  <2> QED BY <2>1, <1>7
<1>11. \A a : Harmless(b, me4600_ext_irq_io_irq_wait(i, a))
  BY <1>9, Refuses DEF me4600_ext_irq_io_irq_wait
<1> QED BY <1>6, <1>8, <1>10, <1>11 DEF b, i

-----------------------------------------------------------------------------
(* The ME-1400A and B.                                                     *)

\* The bond of the ME-1400A's line.
LEMMA EndsAB ==
    ASSUME NEW X, Enable \subseteq X, NEW m, NEW v, v \subseteq Statuses, v = Run <=> Enable \subseteq m,
           NEW f, Is(Pin(2), X, m) \in f, Is(Status(2), Statuses, v) \in f
    PROVE  Entails("me1400ab", f, Ended(2))
<1> DEFINE b == "me1400ab"
<1>1. LineOf(b, 2) BY DEF LineOf
<1>2. \A R : Live(b, 2, R) <=> Enable \subseteq R[Pin(2)] BY DEF Live
<1>3. b # "me1400cd" /\ b # "me4600_irq" OBVIOUS
<1> HIDE DEF b
<1>4. ASSUME NEW R, NEW W, NEW T, Local(b, f, R, W, T)
      PROVE  Live(b, 2, R) <=> v = Run
  <2>1. Holds(b, Is(Pin(2), X, m), R, W, T) BY <1>4 DEF Local
  <2>2. R[Pin(2)] \cap X = m BY <2>1 DEF Holds, Is
  <2>3. Enable \subseteq R[Pin(2)] <=> Enable \subseteq m BY <2>2
  <2> QED BY <2>3, <1>2
<1>5. Entails(b, f, Ended(2)) BY <1>1, <1>3, <1>4, LineEnds
<1> QED BY <1>5 DEF b

\* The line of the ME-1400A is left alone where its pin is a counter's clock.
LEMMA NoClock ==
    ASSUME NEW h, NEW f \in {Empty, Ended(2)}, NEW P, Fit("me1400ab", "task", h, f, Empty),
           Last(P).do = "read" \/ Last(P).reg = Status(2),
           Does("me1400ab", "task", h, Empty, Empty, P, h, f, Empty)
    PROVE  Does("me1400ab", "task", h, f, Empty, IfNoClock(2, P), h, f, Empty)
<1> DEFINE b == "me1400ab"
<1> DEFINE s == [do |-> "test", mask |-> ClockEn, in |-> {{}}, body |-> P]
<1>1. Pin(2) \in Registers(b) BY DEF Registers
<1>2. s.body = P OBVIOUS
<1>3. \A k \in f : k = Firm(Line0(2)) BY Void DEF Ended
<1> HIDE DEF b, s
<1>4. Does(b, "task", h, f, Empty, Load(Pin(2)), h, f, Empty)
  <2>1. \A R, W, T : Local(b, f, R, W, T) => \A k \in f : Holds(b, k, R, W, R[Pin(2)])
    <3>1. ASSUME NEW R, NEW W, NEW T, Local(b, f, R, W, T), NEW k \in f PROVE Holds(b, k, R, W, R[Pin(2)])
      <4>1. Holds(b, k, R, W, T) BY <3>1 DEF Local
      <4> QED BY <4>1, <1>3 DEF Holds, Firm
    <3> QED BY <3>1
  <2> QED BY <2>1, <1>1, DoesLoad, Void DEF b
<1>5. Decides(b, f, s)
  <2>1. \A j : Status(2) # Port(j) BY DEF Status, Port
  <2>2. \A j : ~WritesTo(j, P) BY <2>1 DEF WritesTo
  <2> QED BY <2>2, <1>2 DEF Decides
<1>6. MarksStay(Empty, Empty) BY Void DEF MarksStay
<1>7. \A R, W, T : Local(b, f, R, W, T) => Local(b, Empty, R, W, T) BY Void DEF Local
<1>8. Does(b, "task", h, f, Empty, Test(ClockEn, {{}}, P), h, f, Empty)
  <2>1. Decides(b, f, [do |-> "test", mask |-> ClockEn, in |-> {{}}, body |-> P]) BY <1>5 DEF s
  <2>2. Fit(b, "task", h, f, Empty) /\ Does(b, "task", h, Empty, Empty, P, h, f, Empty) BY DEF b
  <2> QED BY <2>1, <2>2, <1>6, <1>7, DoesTest
<1>9. Does(b, "task", h, f, Empty, Load(Pin(2)) \o Test(ClockEn, {{}}, P), h, f, Empty)
  BY <1>4, <1>8, DoesThen
<1> QED BY <1>9 DEF IfNoClock, b

\* The methods of the ME-1400A's line are harmless.
LEMMA MethodsAB ==
    /\ Harmless("me1400ab", me1400AB_ext_irq_io_reset_subdevice(2))
    /\ \A a : Harmless("me1400ab", me1400AB_ext_irq_io_irq_start(2, a))
    /\ \A a : Harmless("me1400ab", me1400AB_ext_irq_io_irq_wait(2, a))
    /\ Harmless("me1400ab", me1400AB_ext_irq_io_irq_stop(2))
    /\ Harmless("me1400ab", me1400AB_ext_irq_io_irq_test(2))
    /\ \A a : Harmless("me1400ab", me1400AB_ext_irq_io_single_config(2, a))
<1> DEFINE b == "me1400ab"
<1> DEFINE i == 2
<1> DEFINE X == Enable \cup ClockEn
<1>1. LineOf(b, i) /\ i = 2 /\ b = "me1400ab" BY DEF LineOf
<1>2. LineReg(b, i, Status(i), Statuses) /\ LineReg(b, i, Pin(i), X) BY DEF LineReg
<1>3. X = Enable \cup ClockEn /\ Enable \subseteq X /\ ClockEn \subseteq X OBVIOUS
<1>e. ~(Enable \subseteq {}) /\ ~(Enable \subseteq ClockEn) BY DEF Enable, ClockEn
<1>p. Pin(i) # Status(i) /\ Pin(i) # Count(i) /\ Pin(i) # Resets(i)
  BY DEF Pin, Status, Count, Resets
<1>n. \A r, m, v : Is(r, m, v)[2] = r BY DEF Is
<1> HIDE DEF b, i, X
<1>4. Knows(b, "task", Held(i), Empty) BY Void DEF Knows
<1>v. {} \subseteq Statuses /\ Run \subseteq Statuses /\ Stop \subseteq Statuses
  BY DEF Statuses, Run, Stop
<1>h. i \in Numbers /\ AtLine(i, Held(i)) BY <1>1, LineFacts, LineLocks DEF AtLine
<1> DEFINE Fact(m) == Is(Pin(i), X, m)
<1> DEFINE Known1(m) == Empty \cup {Fact(m)}
<1> DEFINE State(v) == Is(Status(i), Statuses, v)
<1>5. ASSUME NEW m, m \subseteq X
      PROVE  /\ Does(b, "task", Held(i), Empty, Empty, SetPin(i, m), Held(i), Known1(m), Empty)
             /\ Knows(b, "task", Held(i), Known1(m))
  <2>1. LineNextOk(b, i, Empty, Pin(i), X, m, Empty, Empty)
    BY <1>1, <1>2, <1>4, <1>5, <1>p, Void DEF LineNextOk
  <2> QED BY <2>1, LineNext DEF SetPin, X
<1>6. ASSUME NEW m, NEW v, v \subseteq Statuses, v = Run <=> Enable \subseteq m
      PROVE  Entails(b, Known1(m) \cup {State(v)}, Ended(i))
  <2> DEFINE g == Known1(m) \cup {State(v)}
  <2>1. Is(Pin(i), X, m) \in g /\ Is(Status(i), Statuses, v) \in g OBVIOUS
  <2> HIDE DEF g
  <2>2. Entails(b, g, Ended(i)) BY <2>1, <1>1, <1>3, <1>6, EndsAB
  <2> QED BY <2>2 DEF g
<1>7. Harmless(b, me1400AB_ext_irq_io_reset_subdevice(i))
  <2> DEFINE f == Known1({})
  <2>1. Beside(f, {Status(i), Count(i), Resets(i)}) = f BY <1>p, <1>n, Void DEF Beside
  <2>2. Entails(b, f \cup {State({})}, Ended(i)) BY <1>6, <1>v, <1>e, RunStop
  <2>3. Does(b, "task", Held(i), Empty, Empty, SetPin(i, {}), Held(i), f, Empty) /\ Knows(b, "task", Held(i), f)
    BY <1>5
  <2> HIDE DEF f
  <2>4. Does(b, "task", Held(i), f, Empty, Cancel(i), Held(i), Ended(i), Debt(i))
    <3>1. Entails(b, Beside(f, {Status(i), Count(i), Resets(i)}) \cup {Is(Status(i), Statuses, {})}, Ended(i))
      BY <2>1, <2>2
    <3> QED BY <3>1, <2>3, <1>1, LineCancel
  <2>5. Does(b, "task", Held(i), Empty, Empty, SetPin(i, {}) \o Cancel(i), Held(i), Ended(i), Debt(i))
    BY <2>3, <2>4, DoesThen
  <2> QED BY <2>5, <1>1, LineReset DEF me1400AB_ext_irq_io_reset_subdevice
<1>8. ASSUME NEW m, m \subseteq X, NEW v \in {{}, Run, Stop}, v = Run <=> Enable \subseteq m
      PROVE  Does(b, "task", Held(i), Empty, Empty, SetPin(i, m) \o SetStatus(i, v), Held(i), Ended(i), Empty)
  <2> DEFINE f == Known1(m)
  <2>1. v \subseteq Statuses BY <1>v
  <2>2. Entails(b, f \cup {State(v)}, Ended(i)) BY <1>6, <1>8, <2>1
  <2>3. Does(b, "task", Held(i), Empty, Empty, SetPin(i, m), Held(i), f, Empty) /\ Knows(b, "task", Held(i), f)
    BY <1>5, <1>8
  <2>4. \A k \in f : k[2] # Status(i) BY <1>n, <1>p, Void
  <2> HIDE DEF f
  <2>5. Does(b, "task", Held(i), f, Empty, SetStatus(i, v), Held(i), Ended(i), Empty)
    BY <1>1, <2>2, <2>3, <2>4, LineStatus
  <2> QED BY <2>3, <2>5, DoesThen
<1>9. ASSUME NEW m, m \subseteq X, NEW v \in {{}, Run, Stop}, v = Run <=> Enable \subseteq m
      PROVE  Does(b, "task", Held(i), Empty, Empty, SetStatus(i, v) \o SetPin(i, m), Held(i), Ended(i), Empty)
  <2> DEFINE k1 == State(v)
  <2> DEFINE f1 == Empty \cup {k1}
  <2> DEFINE f2 == f1 \cup {Fact(m)}
  <2>1. v \subseteq Statuses BY <1>v
  <2>2. Entails(b, f2, Ended(i))
    <3>1. f2 = Known1(m) \cup {State(v)} OBVIOUS
    <3> QED BY <3>1, <1>6, <1>9, <2>1
  <2>k. k1 = Is(Status(i), Statuses, v) /\ k1[2] = Status(i) BY <1>n
  <2> HIDE DEF k1
  <2>3. LineNextOk(b, i, Empty, Status(i), Statuses, v, Empty, Empty)
    <3>1. Status(i) # Count(i) BY DEF Status, Count
    <3> QED BY <1>1, <1>2, <1>4, <2>1, <3>1, Void DEF LineNextOk
  <2>4. Does(b, "task", Held(i), Empty, Empty, SetStatus(i, v), Held(i), f1, Empty) /\ Knows(b, "task", Held(i), f1)
    BY <2>3, <2>k, LineNext DEF SetStatus
  <2>5. LineNextOk(b, i, f1, Pin(i), X, m, Empty, Empty)
    BY <1>1, <1>2, <1>9, <1>p, <2>4, <2>k, Void DEF LineNextOk
  <2> HIDE DEF f1
  <2>6. Does(b, "task", Held(i), f1, Empty, SetPin(i, m), Held(i), Ended(i), Empty)
    BY <2>5, <2>2, LineNext DEF SetPin, X
  <2> QED BY <2>4, <2>6, DoesThen
<1>10. \A k \in Ended(i) : Stable(b, "task", Held(i), k) BY <1>1, <1>h, LineFirm, Void DEF Ended
<1>11. Fit(b, "task", Held(i), Ended(i), Empty) BY <1>1, <1>h, <1>10, LineFit, Void
<1>12. Fit(b, "task", Held(i), Empty, Empty) BY <1>1, <1>h, LineFit, Void
<1>13. Harmless(b, Protect(Lock(i), IfNoClock(i, SetPin(i, Enable) \o SetStatus(i, Run))))
  <2> DEFINE P == SetPin(i, Enable) \o SetStatus(i, Run)
  <2>1. Last(P).reg = Status(2) BY <1>1 DEF Last, SetPin, SetStatus, Put
  <2>2. Does(b, "task", Held(i), Empty, Empty, P, Held(i), Ended(i), Empty) BY <1>8, <1>3
  <2> HIDE DEF P
  <2>3. Does(b, "task", Held(i), Ended(i), Empty, IfNoClock(i, P), Held(i), Ended(i), Empty)
    BY <2>1, <2>2, <1>1, <1>11, NoClock
  <2>4. Harmless(b, Protect(Lock(i), IfNoClock(i, P))) BY <2>3, <1>1, LineProtect
  <2> QED BY <2>4 DEF P
<1>14. ASSUME NEW a PROVE Harmless(b, IfNoClock(i, WaitForLine(i, a)))
  <2> DEFINE P == WaitForLine(i, a)
  <2>1. Does(b, "task", Empty, Empty, Empty, P, Empty, Empty, Empty) BY <1>1, LineWaits
  <2>2. Last(P).do = "read"
    <3> DEFINE s == [do |-> "read", reg |-> Status(i), pins |-> Run]
    <3> DEFINE A == Since(i, a) \o Await({Count(i), Resets(i)}, Status(i), {}, Queue(i), Read(Status(i), Run))
    <3>1. Program(A)
      <4>1. Program(Load(Count(i))) /\ Program(Given({<<"irqs", a.count>>})) /\ Program(LoadAlso(Resets(i)))
        BY OneStep DEF Load, Given, LoadAlso
      <4>2. Program(IF a.count = 0 THEN Load(Count(i)) ELSE Given({<<"irqs", a.count>>})) BY <4>1
      <4>3. Program(Since(i, a)) BY <4>1, <4>2, JoinPrograms DEF Since
      <4>4. Program(Await({Count(i), Resets(i)}, Status(i), {}, Queue(i), Read(Status(i), Run)))
        BY OneStep DEF Await
      <4> QED BY <4>3, <4>4, JoinPrograms
    <3>2. P = A \o <<s>> BY DEF WaitForLine, Read
    <3>3. s.do = "read" OBVIOUS
    <3> HIDE DEF A, s, P
    <3>4. Last(A \o <<s>>) = s BY <3>1, LastAppended
    <3> QED BY <3>2, <3>3, <3>4
  <2> HIDE DEF P
  <2>3. Fit(b, "task", Empty, Empty, Empty) BY Void DEF Fit, Steady, Keeping
  <2>4. Does(b, "task", Empty, Empty, Empty, IfNoClock(i, P), Empty, Empty, Empty)
    BY <2>1, <2>2, <2>3, <1>1, NoClock
  <2>5. Harmless(b, IfNoClock(i, P)) BY <2>4, DoesAll DEF Harmless
  <2> QED BY <2>5 DEF P
<1>15. Harmless(b, Protect(Lock(i), Rmw(Pin(i), Enable, {}) \o SetStatus(i, Stop)))
  <2> DEFINE r == Pin(i)
  <2> DEFINE h == Held(i)
  <2> DEFINE f1 == {But(r, Empty)}
  <2> DEFINE f2 == {Is(r, Enable, {})}
  <2>1. r \in Registers(b) /\ Keeps(b, "task", h, r) /\ MayWrite(b, "task", h, r)
    BY <1>1, <1>2, <1>h, LineFacts, LineKeeps
  <2>2. \A m, v : Stable(b, "task", h, Is(r, m, v)) BY <1>1, <1>2, <1>h, LineKeeps
  <2>3. Stable(b, "task", h, But(r, Empty)) BY <2>1, StableOwn
  <2>4. r[1] = "pin" BY DEF Pin
  <2>5. \A j : r # Rised(j) /\ r # Count(j) /\ r # Resets(j) /\ r # <<"low", j>> /\ r # Port(j)
    BY <2>4 DEF Rised, Count, Resets, Port
  <2>6. ~Shared(b, r) /\ r # Intcsr BY <2>4 DEF Shared, Ctrl, Intcsr
  <2>7. Bounded(b, r) /\ Exact(b, r) BY <2>4, <1>1 DEF Bounded, Exact
  <2>n. Is(r, Enable, {})[2] = Pin(i) BY <1>n
  <2> HIDE DEF r, h
  <2>8. Fit(b, "task", h, f1, Empty) BY <1>1, <1>h, <2>3, LineFit, Void DEF h
  <2>9. Does(b, "task", h, Empty, Empty, Load(r), h, f1, Empty)
    <3>1. \A R, W, T : Local(b, Empty, R, W, T) => \A k \in f1 : Holds(b, k, R, W, R[r])
      BY DEF Holds, But
    <3> HIDE DEF f1
    <3> QED BY <3>1, <2>1, <1>12, DoesLoad, Void DEF h
  <2>10. StoreOk(b, "task", h, f1, Empty, r, Empty, Enable, {})
    <3>1. \A v, w : FineAt(b, r, v, w) => FineAt(b, r, (v \ Enable) \cup {}, (w \ Enable) \cup {})
      BY <2>6, <2>7, <1>1 DEF FineAt
    <3>2. Aim(b, f1, r, {}) BY <2>5 DEF Aim
    <3> QED BY <3>1, <3>2, <1>1, <2>1, <2>5, <2>6, <2>8, Void DEF StoreOk
  <2>11. StoreLeads(b, f1, r, Enable, {}, f2)
    <3>1. ASSUME NEW R, NEW R2, NEW W2, NEW T, Changes(b, r, R, R2, (R[r] \ Enable) \cup {})
          PROVE  Holds(b, Is(r, Enable, {}), R2, W2, T)
      <4>1. R2[r] = (R[r] \ Enable) \cup {} BY <3>1 DEF Changes
      <4>2. R2[r] \cap Enable = {} BY <4>1
      <4> QED BY <4>2 DEF Holds, Is
    <3> QED BY <3>1 DEF StoreLeads
  <2> HIDE DEF f1
  <2>12. Does(b, "task", h, f1, Empty, Store(r, Enable, {}), h, f2, Empty)
    BY <2>10, <2>11, DoesStoreTo
  <2>13. Does(b, "task", h, Empty, Empty, Rmw(r, Enable, {}), h, f2, Empty)
    BY <2>9, <2>12, DoesThen DEF Rmw
  <2>14. Knows(b, "task", h, f2) /\ \A k \in f2 : k[2] # Status(i)
    BY <2>1, <2>2, <2>n, <1>p DEF Knows
  <2>15. Entails(b, f2 \cup {State(Stop)}, Ended(i))
    <3> DEFINE g == f2 \cup {State(Stop)}
    <3>1. Is(Pin(2), Enable, {}) \in g /\ Is(Status(2), Statuses, Stop) \in g BY <1>1 DEF r
    <3> HIDE DEF g
    <3>2. Entails(b, g, Ended(i)) BY <3>1, <1>1, <1>v, <1>e, RunStop, EndsAB
    <3> QED BY <3>2 DEF g
  <2> HIDE DEF f2
  <2>16. Does(b, "task", Held(i), f2, Empty, SetStatus(i, Stop), Held(i), Ended(i), Empty)
    BY <1>1, <2>14, <2>15, LineStatus DEF h
  <2>17. Does(b, "task", Held(i), Empty, Empty, Rmw(Pin(i), Enable, {}) \o SetStatus(i, Stop), Held(i), Ended(i), Empty)
    BY <2>13, <2>16, DoesThen DEF h, r
  <2> QED BY <2>17, <1>1, LineProtect
<1>16. Harmless(b, me1400AB_ext_irq_io_irq_test(i))
  <2>1. Fit(b, "task", Empty, Empty, Empty) BY Void DEF Fit, Steady, Keeping
  <2>2. Pin(i) \in Registers(b) BY <1>1, <1>2, LineFacts
  <2>3. Does(b, "task", Empty, Empty, Empty, Load(Pin(i)), Empty, Empty, Empty)
    BY <2>1, <2>2, DoesGlance, Void
  <2> QED BY <2>3, DoesAll DEF Harmless, me1400AB_ext_irq_io_irq_test
<1>17. ASSUME NEW a PROVE Harmless(b, me1400AB_ext_irq_io_single_config(i, a))
  <2>1. Does(b, "task", Held(i), Empty, Empty, SetStatus(i, Stop) \o SetPin(i, {}), Held(i), Ended(i), Empty)
    BY <1>9, <1>e, RunStop
  <2>2. Does(b, "task", Held(i), Empty, Empty, SetStatus(i, {}) \o SetPin(i, ClockEn), Held(i), Ended(i), Empty)
    BY <1>9, <1>3, <1>e, RunStop
  <2> DEFINE P == IF a.mode = "multipin_irq" THEN SetStatus(i, Stop) \o SetPin(i, {})
                                             ELSE SetStatus(i, {}) \o SetPin(i, ClockEn)
  <2>3. Does(b, "task", Held(i), Empty, Empty, P, Held(i), Ended(i), Empty) BY <2>1, <2>2
  <2> HIDE DEF P
  <2>4. Harmless(b, Protect(Lock(i), P)) BY <2>3, <1>1, LineProtect
  <2> QED BY <2>4, Refuses DEF me1400AB_ext_irq_io_single_config, P
<1>18. \A a : Harmless(b, me1400AB_ext_irq_io_irq_start(i, a))
  BY <1>13, Refuses DEF me1400AB_ext_irq_io_irq_start
<1>19. \A a : Harmless(b, me1400AB_ext_irq_io_irq_wait(i, a))
  BY <1>14, Refuses DEF me1400AB_ext_irq_io_irq_wait
<1> QED BY <1>7, <1>15, <1>16, <1>17, <1>18, <1>19 DEF b, i, me1400AB_ext_irq_io_irq_stop

-----------------------------------------------------------------------------
(* The ME-1400C and D.                                                     *)

ClockOk(clear, set, g) ==
    \/ clear = Enable /\ set = {} /\ g = {Is(MyClock, Enable, {})}
    \/ clear = {} /\ set = Enable /\ g = Empty

\* The line of the ME-1400C that a task has turned off stays off.
LEMMA OffStays ==
    ASSUME NEW h, Lock(2) \in h, IrqLine \in h
    PROVE  Stable("me1400cd", "task", h, Is(MyClock, Enable, {}))
<1> DEFINE b == "me1400cd"
<1>1. b = "me1400cd" OBVIOUS
<1> HIDE DEF b
<1>2. ASSUME NEW R, NEW W, NEW R2, NEW W2, Rely(b, "task", h, R, W, R2, W2), R[MyClock] \cap Enable = {}
      PROVE  R2[MyClock] \cap Enable = {}
  <2>1. Enable \subseteq R2[MyClock] => Enable \subseteq R[MyClock] BY <1>1, <1>2 DEF Rely
  <2> QED BY <2>1, <1>2 DEF Enable
<1>3. Stable(b, "task", h, Is(MyClock, Enable, {})) BY <1>2 DEF Stable, Holds, Is
<1> QED BY <1>3 DEF b

\* It is turned on and off in the register of the counters' clocks, under that lock too.
LEMMA ClockWrite ==
    ASSUME NEW clear, NEW set, NEW g, ClockOk(clear, set, g)
    PROVE  Does("me1400cd", "task", Held(2), Empty, Empty, Under(ClockLock, Rmw(LineClock(2), clear, set)),
                Held(2), g, Empty)
<1> DEFINE b == "me1400cd"
<1> DEFINE h == Held(2) \cup {ClkLock}
<1> DEFINE r == MyClock
<1> DEFINE v == [do |-> "store", reg |-> r, clear |-> clear, set |-> set]
<1>0. LineOf(b, 2) /\ 2 \in Numbers BY DEF LineOf, Numbers
<1>1. AtLine(2, Held(2)) /\ AtLine(2, h) /\ ClkLock \in h BY <1>0, LineLocks DEF AtLine
<1>2. Fit(b, "task", h, Empty, Empty) /\ Fit(b, "task", Held(2), Empty, Empty)
  BY <1>0, <1>1, LineFit, Void
<1>c. r[1] = "clock" BY DEF MyClock, LineClock, Clock
<1>3. r \in Registers(b) BY DEF Registers, MyClock, LineClock, Clock, ClkReg
<1>4. ClockLock = ClkLock /\ ClkLock # IrqLine /\ ClkLock \notin Held(2) /\ Bare(b, ClkLock)
  BY <1>0, LineFacts, LineLocks DEF ClockLock, ClkLock
<1>5. /\ (\A j : r # <<"low", j>> /\ r # Rised(j) /\ r # Count(j) /\ r # Resets(j) /\ r # Port(j))
      /\ ~Shared(b, r) /\ r # Intcsr
  BY <1>c DEF Rised, Count, Resets, Port, Shared, Ctrl, Intcsr
<1>6. MayWrite(b, "task", h, r) BY <1>c DEF MayWrite, Of
<1>7. \A y, w : FineAt(b, r, y, w)
  <2>1. ~Bounded(b, r) /\ ~Exact(b, r) BY <1>c DEF Bounded, Exact, Ctrl, OutsOnly
  <2> QED BY <2>1, <1>5 DEF FineAt
<1>8. \A l : Lock(2) \in l /\ IrqLine \in l => \A k \in g : Stable(b, "task", l, k)
  <2>1. \A k \in g : k = Is(MyClock, Enable, {}) BY Void DEF ClockOk
  <2> QED BY <2>1, OffStays
<1>v. v.do = "store" /\ v.reg = r /\ v.clear = clear /\ v.set = set OBVIOUS
<1>e. Turned \notin Empty /\ Window \notin Empty BY Void
<1>b. b = "me1400cd" OBVIOUS
<1>l. LineClock(2) = r BY DEF MyClock
<1> HIDE DEF b, h, r, v
<1>9. Fit(b, "task", h, g, Empty) /\ Fit(b, "task", Held(2), g, Empty)
  <2>1. \A k \in g : Stable(b, "task", h, k) BY <1>1, <1>8 DEF AtLine
  <2>2. \A k \in g : Stable(b, "task", Held(2), k) BY <1>1, <1>8 DEF AtLine
  <2> QED BY <2>1, <2>2, <1>0, <1>1, LineFit, Void
<1>10. Does(b, "task", h, Empty, Empty, Load(r), h, Empty, Empty) BY <1>2, <1>3, DoesGlance, Void
<1>16. ASSUME NEW R, NEW W, NEW T, NEW R2, NEW W2, NEW T2,
             Local(b, Empty, R, W, T), Effect(b, v, R, W, T, R2, W2, T2)
       PROVE  /\ Local(b, g, R2, W2, T2) /\ Polite(b, "task", h, R, W, R2, W2)
              /\ Notes(b, "task", h, Empty, Empty, v, Empty, R, W, T, R2, W2, T2)
  <2>1. Level(v.reg, v.clear, v.set) = set BY <1>v, <1>c DEF Level, ActiveLow
  <2>2. /\ T2 = T /\ Changes(b, r, R, R2, (T \ clear) \cup set)
        /\ Changes(b, r, W, W2, (W[r] \ clear) \cup set)
    BY <1>16, <1>v, <2>1 DEF Effect
  <2>3. /\ R2[r] = (T \ clear) \cup set
        /\ \A q \in Registers(b) : q # r => R2[q] = R[q] /\ W2[q] = W[q]
    BY <2>2 DEF Changes
  <2>7. ASSUME NEW k \in g PROVE Holds(b, k, R2, W2, T2)
    <3>1. k = Is(r, Enable, {}) /\ clear = Enable /\ set = {} BY <2>7, Void DEF ClockOk, r
    <3>2. R2[r] \cap Enable = {} BY <2>3, <3>1
    <3> QED BY <3>1, <3>2 DEF Holds, Is
  <2>8. Fine(b, R2, W2)
    <3>1. Fine(b, R, W) BY <1>16 DEF Local
    <3>2. ASSUME NEW q \in Registers(b) PROVE FineAt(b, q, R2[q], W2[q])
      <4>1. CASE q = r BY <4>1, <1>7
      <4>2. CASE q # r BY <4>2, <2>3, <3>1 DEF Fine
      <4> QED BY <4>1, <4>2
    <3> QED BY <3>2 DEF Fine
  <2>9. Local(b, g, R2, W2, T2) BY <2>7, <2>8 DEF Local
  <2>10. Polite(b, "task", h, R, W, R2, W2) BY <2>3, <1>5, <1>6 DEF Polite
  <2>11. \A j \in Numbers : ~Stirs(b, j, R, R2) BY <2>3, <1>5 DEF Stirs
  <2>12. Lock(2) \in h /\ ClkLock \in h BY <1>1 DEF AtLine
  <2>13. Notes(b, "task", h, Empty, Empty, v, Empty, R, W, T, R2, W2, T2)
    BY <2>11, <2>12, <1>e DEF Notes
  <2> QED BY <2>9, <2>10, <2>13
<1>17. Moves(b, "task", h, Empty, Empty, v, g, Empty)
  BY <1>16, <1>v, <1>3, Void DEF Moves, Accesses, Named
<1>18. Aimed(b, Empty, v) BY <1>v, <1>5 DEF Aimed
<1>19. Does(b, "task", h, Empty, Empty, <<v>>, h, g, Empty) BY <1>2, <1>17, <1>18, DoesAccess
<1>20. Does(b, "task", h, Empty, Empty, Load(r) \o <<v>>, h, g, Empty) BY <1>10, <1>19, DoesThen
<1>21. Rmw(r, clear, set) = Load(r) \o <<v>> BY DEF Rmw, Store, v
<1>22. Does(b, "task", h, Empty, Empty, Rmw(r, clear, set), h, g, Empty) BY <1>20, <1>21
<1>23. Does(b, "task", Held(2), Empty, Empty, Under(ClkLock, Rmw(r, clear, set)), Held(2), g, Empty)
  <2>1. h = Held(2) \cup {ClkLock} /\ g \subseteq g BY DEF h
  <2> QED BY <2>1, <1>2, <1>4, <1>9, <1>22, DoesSection
<1> QED BY <1>23, <1>4, <1>l DEF b

\* The methods of the ME-1400C's line are harmless.
LEMMA MethodsCD ==
    /\ Harmless("me1400cd", me1400CD_ext_irq_io_reset_subdevice(2))
    /\ \A a : Harmless("me1400cd", me1400CD_ext_irq_io_irq_start(2, a))
    /\ \A a : Harmless("me1400cd", me1400CD_ext_irq_io_irq_wait(2, a))
    /\ Harmless("me1400cd", me1400CD_ext_irq_io_irq_stop(2))
<1> DEFINE b == "me1400cd"
<1> DEFINE off == {Is(MyClock, Enable, {})}
<1>1. LineOf(b, 2) /\ b = "me1400cd" /\ 2 \in Numbers BY DEF LineOf, Numbers
<1>2. \A R : Live(b, 2, R) <=> Enable \subseteq R[MyClock] BY DEF Live
<1>3. MyClock # Status(2) /\ MyClock # Count(2) /\ MyClock # Resets(2)
  BY DEF MyClock, LineClock, Clock, Status, Count, Resets
<1>4. MyClock \in Registers(b) BY DEF Registers, MyClock, LineClock, Clock, ClkReg
<1>5. \A k \in off : k = Is(MyClock, Enable, {}) /\ k[2] = MyClock BY DEF Is
<1>6. Stable(b, "task", Held(2), Is(MyClock, Enable, {})) BY <1>1, LineLocks, OffStays
<1>v. {} \subseteq Statuses /\ Run \subseteq Statuses /\ Stop \subseteq Statuses
  BY DEF Statuses, Run, Stop
<1> DEFINE P1 == Under(ClockLock, Rmw(LineClock(2), Enable, {}))
<1> DEFINE P2 == Under(ClockLock, Rmw(LineClock(2), {}, Enable))
<1>7. Does(b, "task", Held(2), Empty, Empty, P1, Held(2), off, Empty) BY ClockWrite DEF ClockOk
<1>8. Does(b, "task", Held(2), Empty, Empty, P2, Held(2), Empty, Empty) BY ClockWrite DEF ClockOk
<1>o. Is(MyClock, Enable, {}) \in off OBVIOUS
<1> HIDE DEF b, off, P1, P2
<1>9. Knows(b, "task", Held(2), off) BY <1>4, <1>5, <1>6 DEF Knows
<1>10. Knows(b, "task", Held(2), Empty) BY Void DEF Knows
<1>11. ASSUME NEW v, v \subseteq Statuses, NEW f, Is(Status(2), Statuses, v) \in f,
              v = Run \/ Is(MyClock, Enable, {}) \in f
       PROVE  Entails(b, f, Ended(2))
  <2>1. ASSUME NEW R, NEW W, NEW T, Local(b, f, R, W, T), Live(b, 2, R)
        PROVE  v = Run
    <3>1. CASE Is(MyClock, Enable, {}) \in f
      <4>1. Holds(b, Is(MyClock, Enable, {}), R, W, T) BY <2>1, <3>1 DEF Local
      <4>2. R[MyClock] \cap Enable = {} BY <4>1 DEF Holds, Is
      <4> QED BY <4>2, <2>1, <1>2 DEF Enable
    <3> QED BY <3>1, <1>11
  <2>2. b # "me4600_irq" BY <1>1
  <2> QED BY <2>1, <2>2, <1>1, <1>11, LineEnds
<1>12. Harmless(b, Protect(Lock(2), P1 \o Cancel(2)) \o Wake(2))
  <2> DEFINE g == Beside(off, {Status(2), Count(2), Resets(2)}) \cup {Is(Status(2), Statuses, {})}
  <2>1. Is(MyClock, Enable, {}) \in g /\ Is(Status(2), Statuses, {}) \in g
    BY <1>3, <1>5, <1>o DEF Beside
  <2> HIDE DEF g
  <2>2. Entails(b, g, Ended(2)) BY <2>1, <1>11, <1>v
  <2>3. Does(b, "task", Held(2), off, Empty, Cancel(2), Held(2), Ended(2), Debt(2))
    BY <2>2, <1>1, <1>9, LineCancel DEF g
  <2>4. Does(b, "task", Held(2), Empty, Empty, P1 \o Cancel(2), Held(2), Ended(2), Debt(2))
    BY <2>3, <1>7, DoesThen
  <2> QED BY <2>4, <1>1, LineReset
<1>13. ASSUME NEW v \in {Run, Stop}, NEW f \in {off, Empty}, v = Stop => f = off
       PROVE  Does(b, "task", Held(2), f, Empty, SetStatus(2, v), Held(2), Ended(2), Empty)
  <2> DEFINE g == f \cup {Is(Status(2), Statuses, v)}
  <2>1. Is(Status(2), Statuses, v) \in g /\ (v = Run \/ Is(MyClock, Enable, {}) \in g)
    BY <1>13, <1>o
  <2> HIDE DEF g
  <2>2. Entails(b, g, Ended(2)) BY <2>1, <1>11, <1>v
  <2>3. Knows(b, "task", Held(2), f) /\ \A k \in f : k[2] # Status(2)
    BY <1>3, <1>5, <1>9, <1>10, Void
  <2> QED BY <2>2, <2>3, <1>1, LineStatus DEF g
<1>14. Harmless(b, Protect(Lock(2), P1 \o SetStatus(2, Stop)))
  <2>1. Does(b, "task", Held(2), off, Empty, SetStatus(2, Stop), Held(2), Ended(2), Empty) BY <1>13
  <2>2. Does(b, "task", Held(2), Empty, Empty, P1 \o SetStatus(2, Stop), Held(2), Ended(2), Empty)
    BY <2>1, <1>7, DoesThen
  <2> QED BY <2>2, <1>1, LineProtect
<1>15. Harmless(b, Protect(Lock(2), P2 \o SetStatus(2, Run)))
  <2>1. Does(b, "task", Held(2), Empty, Empty, SetStatus(2, Run), Held(2), Ended(2), Empty)
    BY <1>13, RunStop
  <2>2. Does(b, "task", Held(2), Empty, Empty, P2 \o SetStatus(2, Run), Held(2), Ended(2), Empty)
    BY <2>1, <1>8, DoesThen
  <2> QED BY <2>2, <1>1, LineProtect
<1>16. \A a : Harmless(b, WaitForLine(2, a)) BY <1>1, LineWaits, DoesAll DEF Harmless
<1> QED BY <1>12, <1>14, <1>15, <1>16, Refuses DEF me1400CD_ext_irq_io_reset_subdevice,
       me1400CD_ext_irq_io_irq_start, me1400CD_ext_irq_io_irq_wait, me1400CD_ext_irq_io_irq_stop, P1, P2, b

-----------------------------------------------------------------------------
(* The handlers of the lines.                                              *)

Running(i) == Is(Status(i), Statuses, Run)
Wakeful(i) == {Owed(i, Run)}

\* The last wake-up: nothing is known any more.
LEMMA DoesWakeLast ==
    ASSUME NEW b, NEW u, NEW h, NEW f, NEW o, NEW i, NEW m, Fit(b, u, h, f, o),
           \A j, n : Owed(j, n) \in o => j = i /\ n = m, Window \notin o
    PROVE  Does(b, u, h, f, o, WakeIf(Queue(i), Status(i), m), h, Empty, Empty)
<1> DEFINE s == Waking(i, m)
<1>1. s.do = "wake" BY DEF Waking
<1>0. s = Waking(i, m) OBVIOUS
<1> HIDE DEF s
<1>2. ASSUME NEW R, NEW W, NEW T, NEW R2, NEW W2, NEW T2,
             Local(b, f, R, W, T), Effect(b, s, R, W, T, R2, W2, T2)
      PROVE  /\ Local(b, Empty, R2, W2, T2) /\ Polite(b, u, h, R, W, R2, W2)
             /\ Notes(b, u, h, f, o, s, Empty, R, W, T, R2, W2, T2)
  <2>1. R2 = R /\ W2 = W /\ T2 = T BY <1>1, <1>2 DEF Effect
  <2>3. Local(b, Empty, R2, W2, T2) BY <1>2, <2>1, Void DEF Local
  <2>4. Polite(b, u, h, R, W, R2, W2) BY <2>1 DEF Polite
  <2>5. Notes(b, u, h, f, o, s, Empty, R, W, T, R2, W2, T2) BY <2>1, Void DEF Notes, Stirs
  <2> QED BY <2>3, <2>4, <2>5
<1>3. Aimed(b, f, s) BY <1>1 DEF Aimed
<1>5. \A j, n : Owed(j, n) \in o => Owed(j, n) \in Empty \/ s = Waking(j, n) BY <1>0
<1>4. Moves(b, u, h, f, o, s, Empty, Empty) BY <1>1, <1>2, <1>5 DEF Moves, Accesses, Named
<1>6. Does(b, u, h, f, o, <<s>>, h, Empty, Empty) BY <1>3, <1>4, DoesAccess
<1> QED BY <1>6, <1>0 DEF WakeIf, Waking

\* A line known to run has the status of one.
LEMMA RunningIs ==
    ASSUME NEW b, NEW i, LineOf(b, i), NEW f, Running(i) \in f
    PROVE  \A R, W, T : Local(b, f, R, W, T) => R[Status(i)] = Run
<1>1. Status(i) \in Registers(b) BY LineFacts
<1>2. ASSUME NEW R, NEW W, NEW T, Local(b, f, R, W, T)
      PROVE  R[Status(i)] = Run
  <2>1. Holds(b, Is(Status(i), Statuses, Run), R, W, T) BY <1>2 DEF Local, Running
  <2>2. R[Status(i)] \cap Statuses = Run BY <2>1 DEF Holds, Is
  <2>3. FineAt(b, Status(i), R[Status(i)], W[Status(i)]) BY <1>1, <1>2 DEF Local, Fine
  <2>4. R[Status(i)] \subseteq Statuses BY <2>3 DEF FineAt, Bounded, Universe, Status
  <2> QED BY <2>2, <2>4
<1> QED BY <1>2

\* What the handler relies on at a line.
LEMMA IsrFit ==
    ASSUME NEW b, NEW i, LineOf(b, i), NEW h \in {Empty, One(i)}, NEW f, \A k \in f : Stable(b, "isr", h, k),
           NEW o \in {Empty, Wakeful(i), {Window}}, o = Wakeful(i) => Running(i) \in f,
           o = {Window} => h = One(2)
    PROVE  Fit(b, "isr", h, f, o)
<1>0. i \in Numbers BY LineFacts
<1>1. Steady(b, "isr", h, f) BY DEF Steady
<1>2. Keeping(b, "isr", h, f, o)
  <2>1. \A j, m : Owed(j, m) \in o => j = i /\ m = Run /\ o = Wakeful(i)
    <3>1. \A j, m : Owed(j, m) \notin {Window} BY DEF Owed, Window
    <3>2. \A j, m : Owed(j, m) \in Wakeful(i) => j = i /\ m = Run BY DEF Owed, Wakeful
    <3> QED BY <3>1, <3>2, Void
  <2>2. Turned \notin o BY Void DEF Turned, Window, Wakeful, Owed
  <2>3. Window \in o => o = {Window} BY Void DEF Window, Wakeful, Owed
  <2>4. Lock(2) \in One(2) BY DEF One
  <2>5. o = Wakeful(i) => \A R, W, T : Local(b, f, R, W, T) => R[Status(i)] = Run BY RunningIs
  <2> QED BY <2>1, <2>2, <2>3, <2>4, <2>5, <1>0 DEF Keeping
<1>3. \A m \in 0 .. 14 : Whole(m) \in Bonds(b) => Home(b, Whole(m)) \notin h
  <2>1. \A m \in 0 .. 14 : Whole(m) \in Bonds(b) => Home(b, Whole(m)) \in {Lock(0), Lock(1)} /\ i = 2
    BY LineFacts
  <2>2. i = 2 => Lock(0) \notin h /\ Lock(1) \notin h BY Void DEF One, Lock
  <2> QED BY <2>1, <2>2
<1> QED BY <1>1, <1>2, <1>3 DEF Fit

\* Nobody stops a line while its handler runs.
LEMMA RunningStays ==
    ASSUME NEW b, NEW i, LineOf(b, i), NEW h
    PROVE  Stable(b, "isr", h, Running(i)) /\ Stable(b, "isr", h, Room(i))
<1>1. Status(i) \in Registers(b) /\ Count(i) \in Registers(b) BY LineFacts
<1>2. Of(b, Status(i)) = Lock(i) /\ Lock(i) # NoLock /\ Masked(Status(i))
  BY DEF Of, Status, Lock, NoLock, Masked
<1>3. Keeps(b, "isr", h, Status(i)) BY <1>2 DEF Keeps
<1> QED BY <1>1, <1>3, StableOwn, StableRoom DEF Running

\* The handler of a line that was started, with its lock.
LineHandlerOk(b, i, f1, P, f2) ==
    /\ LineOf(b, i) /\ Opens(b, Status1(i), Lock(i), f1) /\ Closes(b, f2, Lock(i), {Running(i)})
    /\ Does(b, "isr", One(i), f1, Empty, P, One(i), f2, Wakeful(i))
    /\ \A k \in f2 : Stable(b, "isr", One(i), k)
    /\ Running(i) \in f2

\* A handler that counts under its line's lock and wakes up the sleepers is good.
LEMMA LineHandler ==
    ASSUME NEW b, NEW i, NEW f1, NEW P, NEW f2, LineHandlerOk(b, i, f1, P, f2)
    PROVE  Good(b, "isr", Empty, Found(b, i), Empty, OnLine(i, P))
<1>1. /\ LineOf(b, i) /\ Opens(b, Status1(i), Lock(i), f1) /\ Closes(b, f2, Lock(i), {Running(i)})
      /\ Does(b, "isr", One(i), f1, Empty, P, One(i), f2, Wakeful(i))
      /\ \A k \in f2 : Stable(b, "isr", One(i), k)
      /\ Running(i) \in f2
  BY DEF LineHandlerOk
<1>2. Found(b, i) = Status1(i) BY <1>1, LineFacts DEF Found
<1>3. i \in Numbers BY <1>1, LineFacts
<1>4. Lock(i) \notin Empty /\ Lock(i) # IrqLine /\ One(i) = Empty \cup {Lock(i)}
  BY <1>3, LineLocks, Void DEF One
<1>w. Wakeful(i) # {Window}
  <2>1. Owed(i, Run) \in Wakeful(i) /\ Owed(i, Run) # Window BY DEF Wakeful, Window, Owed
  <2> QED BY <2>1
<1>5. Fit(b, "isr", One(i), f2, Wakeful(i)) BY <1>1, <1>w, IsrFit
<1> DEFINE g == {Running(i)}
<1>6. Fit(b, "isr", Empty, g, Wakeful(i))
  <2>1. \A k \in g : Stable(b, "isr", Empty, k) BY <1>1, RunningStays
  <2>2. Running(i) \in g OBVIOUS
  <2> HIDE DEF g
  <2> QED BY <2>1, <2>2, <1>w, <1>1, IsrFit
<1>7. Fit(b, "isr", Empty, Status1(i), Empty)
  <2>1. \A k \in Status1(i) : Stable(b, "isr", Empty, k) BY <1>1, RunningStays DEF Status1, Running
  <2>2. Empty # Wakeful(i) /\ Empty # {Window} BY Void DEF Wakeful
  <2> QED BY <2>1, <2>2, <1>1, IsrFit
<1> HIDE DEF g
<1>8. Does(b, "isr", One(i), f2, Wakeful(i), Give(Lock(i)), Empty, g, Wakeful(i))
  <2>1. Closes(b, f2, Lock(i), g) BY <1>1 DEF g
  <2>2. Fit(b, "isr", Empty \cup {Lock(i)}, f2, Wakeful(i)) BY <1>4, <1>5
  <2>3. Does(b, "isr", Empty \cup {Lock(i)}, f2, Wakeful(i), Give(Lock(i)), Empty, g, Wakeful(i))
    BY <2>1, <2>2, <1>4, DoesGive
  <2> QED BY <2>3, <1>4
<1>9. Does(b, "isr", Empty, g, Wakeful(i), WakeIf(Queue(i), Status(i), Run), Empty, Empty, Empty)
  <2>1. \A j, n : Owed(j, n) \in Wakeful(i) => j = i /\ n = Run BY DEF Owed, Wakeful
  <2>2. Window \notin Wakeful(i) BY DEF Window, Wakeful, Owed
  <2> QED BY <2>1, <2>2, <1>6, DoesWakeLast
<1> DEFINE B == P \o Give(Lock(i)) \o WakeIf(Queue(i), Status(i), Run)
<1>10. Does(b, "isr", One(i), f1, Empty, P \o Give(Lock(i)), Empty, g, Wakeful(i))
  BY <1>1, <1>8, DoesThen
<1>11. Does(b, "isr", One(i), f1, Empty, B, Empty, Empty, Empty) BY <1>9, <1>10, DoesThen
<1> HIDE DEF B
<1>12. Does(b, "isr", Empty, Status1(i), Empty, Try(Lock(i), B), Empty, Empty, Empty)
  <2>1. Entails(b, Status1(i), Empty) BY Void DEF Entails, Local
  <2>2. Does(b, "isr", Empty \cup {Lock(i)}, f1, Empty, B, Empty, Empty, Empty) BY <1>11, <1>4
  <2> QED BY <2>1, <2>2, <1>1, <1>4, <1>7, DoesTry
<1> QED BY <1>12, <1>2, DoesAll DEF OnLine, B

\* Facts that do not depend on a register.
Ignores(b, k, r) ==
    \A R, W, T, R2, W2 : /\ \A q \in Registers(b) : q # r => R2[q] = R[q]
                         /\ Holds(b, k, R, W, T)
                         => Holds(b, k, R2, W2, T)

\* A fact about one register is no fact about another.
LEMMA IgnoresIs ==
    ASSUME NEW b, NEW q \in Registers(b), NEW r, q # r, NEW m, NEW v
    PROVE  Ignores(b, Is(q, m, v), r)
BY DEF Ignores, Holds, Is

\* The bond of a line says nothing of its count.
LEMMA IgnoresFirm ==
    ASSUME NEW b, NEW i, LineOf(b, i)
    PROVE  Ignores(b, Firm(Line0(i)), Count(i))
<1>1. ASSUME NEW R, NEW W, NEW R2, NEW W2, \A q \in Registers(b) : q # Count(i) => R2[q] = R[q], Bond(b, Line0(i), R, W)
      PROVE  Bond(b, Line0(i), R2, W2)
  <2>1. Status(i) \in Registers(b) /\ Status(i) # Count(i) BY LineFacts DEF Status, Count
  <2>2. R2[Status(i)] = R[Status(i)] BY <1>1, <2>1
  <2>3. CASE b = "me0600_irq"
    <3>1. Intcsr \in Registers(b) /\ Intcsr # Count(i) BY <2>3 DEF Registers, Intcsr, Count
    <3>2. R2[Intcsr] = R[Intcsr] BY <1>1, <3>1
    <3> QED BY <2>2, <2>3, <3>2, <1>1 DEF Bond, Line0, Live
  <2>4. CASE b = "me4600_irq"
    <3>1. External(i) \in Registers(b) /\ EdgeMode(i) \in Registers(b)
      <4>1. LineReg(b, i, External(i), Edges \cup Acknowledge) /\ LineReg(b, i, EdgeMode(i), Edges)
        BY <2>4 DEF LineReg
      <4> QED BY <4>1, LineFacts
    <3>2. R2[External(i)] = R[External(i)] /\ R2[EdgeMode(i)] = R[EdgeMode(i)]
      BY <1>1, <3>1, LineNames
    <3> QED BY <2>2, <2>4, <3>2, <1>1 DEF Bond, Line0, Live
  <2>5. CASE b = "me1400ab"
    <3>1. LineReg(b, i, Pin(i), Enable \cup ClockEn) BY <2>5 DEF LineReg
    <3>2. Pin(i) \in Registers(b) /\ Pin(i) # Count(i) BY <3>1, LineFacts DEF Pin, Count
    <3>3. R2[Pin(i)] = R[Pin(i)] BY <1>1, <3>2
    <3> QED BY <2>2, <2>5, <3>3, <1>1 DEF Bond, Line0, Live
  <2>6. CASE b = "me1400cd"
    <3>1. MyClock \in Registers(b) BY <2>6 DEF Registers, MyClock, LineClock, Clock, ClkReg
    <3>2. MyClock # Count(i) BY DEF MyClock, LineClock, Clock, Count
    <3>3. R2[MyClock] = R[MyClock] BY <1>1, <3>1, <3>2
    <3> QED BY <2>2, <2>6, <3>3, <1>1 DEF Bond, Line0, Live
  <2> QED BY <2>3, <2>4, <2>5, <2>6 DEF LineOf
<1> QED BY <1>1 DEF Ignores, Holds, Firm

IsrBumpOk(b, i, f, f2) ==
    /\ LineOf(b, i) /\ Room(i) \in f /\ Running(i) \in f /\ f2 \subseteq f
    /\ \A k \in f : Stable(b, "isr", One(i), k)
    /\ \A k \in f2 : Ignores(b, k, Count(i))

\* The handler counts an interrupt, and owes a wake-up.
LEMMA IsrBump ==
    ASSUME NEW b, NEW i, NEW f, NEW f2, IsrBumpOk(b, i, f, f2)
    PROVE  Does(b, "isr", One(i), f, Empty, Bump(Count(i)), One(i), f2, Wakeful(i))
<1> DEFINE h == One(i)
<1> DEFINE r == Count(i)
<1> DEFINE s == [do |-> "bump", reg |-> r]
<1>1. /\ LineOf(b, i) /\ Room(i) \in f /\ Running(i) \in f /\ f2 \subseteq f
      /\ \A k \in f : Stable(b, "isr", h, k)
      /\ \A k \in f2 : Ignores(b, k, r)
  BY DEF IsrBumpOk
<1>2. i \in Numbers /\ r \in Registers(b) BY <1>1, LineFacts
<1>4. r[1] = "count" /\ r[2] = i BY DEF Count
<1>5. s.do = "bump" /\ s.reg = r OBVIOUS
<1>6. Room(i)[1] = "room" /\ Room(i)[2] = r BY DEF Room
<1>3. Fit(b, "isr", h, f, Empty)
  <2>1. Empty # Wakeful(i) /\ Empty # {Window} BY Void DEF Wakeful
  <2> QED BY <1>1, <2>1, IsrFit
<1>7. Lock(i) \in h BY DEF One
<1> HIDE DEF h, r, s
<1>8. MayWrite(b, "isr", h, r) BY <1>4, <1>7 DEF MayWrite, Of
<1>9. (\A j : r # Rised(j) /\ r # Resets(j)) /\ r # MyClock /\ ~Shared(b, r) /\ r # Intcsr
      /\ \A j : r = Count(j) => j = i
  BY <1>4 DEF Rised, Count, MyClock, LineClock, Clock, Shared, Ctrl, Intcsr, Resets
<1>10. Aimed(b, f, s) BY <1>5 DEF Aimed
<1>11. \A v, T : NewOf(s, v, T) = Next1(v) BY <1>5 DEF NewOf
<1>12. \A w : NewAsked(s, w) = Next1(w) BY <1>5 DEF NewAsked
<1>13. ASSUME NEW v, NEW w, FineAt(b, r, v, w), \A x \in v : x[2] < MaxIrqs
       PROVE  FineAt(b, r, Next1(v), Next1(w))
  <2>1. b \notin {"me0900_do", "me0900_di", "me8100", "me8100b", "me1400"} BY <1>1 DEF LineOf
  <2>2. Bounded(b, r) /\ Universe(b, r) = AnyCount BY <1>4 DEF Bounded, Universe
  <2>3. Exact(b, r) BY <1>4, <2>1, <1>9 DEF Exact
  <2>4. v \subseteq AnyCount /\ w = v BY <1>13, <2>2, <2>3 DEF FineAt
  <2>5. ASSUME NEW x \in v PROVE <<x[1], x[2] + 1>> \in AnyCount
    <3>1. PICK n \in 0 .. MaxIrqs : x = <<"irqs", n>> BY <2>4, <2>5 DEF AnyCount
    <3>2. n < MaxIrqs BY <3>1, <1>13
    <3>3. n + 1 \in 0 .. MaxIrqs BY <3>2, MaxIrqsAssumption
    <3>4. <<x[1], x[2] + 1>> = <<"irqs", n + 1>> BY <3>1
    <3> QED BY <3>3, <3>4 DEF AnyCount
  <2>6. Next1(v) \subseteq AnyCount BY <2>5 DEF Next1
  <2> QED BY <2>1, <2>2, <2>4, <2>6, <1>9 DEF FineAt
<1>14. ASSUME NEW R, NEW W, NEW T, Local(b, f, R, W, T)
       PROVE  FineAt(b, r, Next1(R[r]), Next1(W[r]))
  <2>1. FineAt(b, r, R[r], W[r]) BY <1>14, <1>2 DEF Local, Fine
  <2>2. Holds(b, Room(i), R, W, T) BY <1>14, <1>1 DEF Local
  <2>3. \A x \in R[r] : x[2] < MaxIrqs BY <2>2, <1>6 DEF Holds
  <2> QED BY <2>1, <2>3, <1>13
<1>15. Sound(b, "isr", h, f, s)
  <2>1. ASSUME NEW R, NEW W, NEW T, Local(b, f, R, W, T)
        PROVE  FineAt(b, s.reg, NewOf(s, R[s.reg], T), NewAsked(s, W[s.reg]))
    BY <2>1, <1>5, <1>11, <1>12, <1>14
  <2> QED BY <2>1, <1>5, <1>9 DEF Sound
<1>16. Calm(b, s, Wakeful(i)) BY <1>5, <1>9 DEF Calm, Wakeful
<1>17. Leads(b, f, s, f2)
  <2>1. ASSUME NEW R, NEW W, NEW T, NEW R2, NEW W2, Local(b, f, R, W, T), WriteEffect(b, s, R, W, T, R2, W2),
               NEW k \in f2
        PROVE  Holds(b, k, R2, W2, T)
    <3>1. \A q \in Registers(b) : q # r => R2[q] = R[q]
      BY <2>1, <1>5 DEF WriteEffect, Changes
    <3>2. Holds(b, k, R, W, T) BY <2>1, <1>1 DEF Local
    <3>3. Ignores(b, k, r) BY <1>1
    <3> QED BY <3>1, <3>2, <3>3 DEF Ignores
  <2> QED BY <2>1 DEF Leads
<1>18. Turned \notin Wakeful(i) /\ Empty \subseteq Wakeful(i) BY Void DEF Wakeful, Owed, Turned
<1>19. WriteOk(b, "isr", h, f, Empty, s, f2, Wakeful(i))
  BY <1>2, <1>3, <1>5, <1>8, <1>9, <1>10, <1>15, <1>16, <1>17, <1>18 DEF WriteOk
<1>20. Does(b, "isr", h, f, Empty, <<s>>, h, f2, Wakeful(i)) BY <1>19, DoesWrite
<1> QED BY <1>20 DEF Bump, s, h, r

\* What the handler found when it came in is still so.
LEMMA Status1Stays ==
    ASSUME NEW b, NEW i, LineOf(b, i), NEW h
    PROVE  \A k \in Status1(i) : Stable(b, "isr", h, k)
BY RunningStays DEF Status1, Running

\* That a line runs says nothing of its count.
LEMMA RunningIgnores ==
    ASSUME NEW b, NEW i, LineOf(b, i)
    PROVE  Ignores(b, Running(i), Count(i))
<1>1. Status(i) \in Registers(b) /\ Status(i) # Count(i) BY LineFacts DEF Status, Count
<1> QED BY <1>1, IgnoresIs DEF Running

\* The bond of the line stays while the handler has its lock.
LEMMA IsrFirm ==
    ASSUME NEW b, NEW i, LineOf(b, i), b # "me1400cd"
    PROVE  Stable(b, "isr", One(i), Firm(Line0(i)))
<1> DEFINE h == One(i)
<1>0. Lock(i) \in h /\ i \in Numbers BY LineFacts DEF One
<1> HIDE DEF h
<1>1. ASSUME NEW R, NEW W, NEW R2, NEW W2, Rely(b, "isr", h, R, W, R2, W2), Bond(b, Line0(i), R, W)
      PROVE  Bond(b, Line0(i), R2, W2)
  <2>1. Keeps(b, "isr", h, Status(i)) BY DEF Keeps, Of, Status, Lock, NoLock, Masked
  <2>2. Status(i) \in Registers(b) BY LineFacts
  <2>3. R2[Status(i)] = R[Status(i)] BY <1>1, <2>1, <2>2 DEF Rely
  <2>4. ASSUME NEW r \in Registers(b), r[1] \in {"ext", "mode", "pin"}, r[2] = i
        PROVE  R2[r] = R[r]
    <3>1. Of(b, r) = Lock(i) /\ ~Handled(r) /\ Lock(i) # NoLock
      BY <2>4 DEF Of, Handled, Lock, NoLock
    <3>2. Keeps(b, "isr", h, r) BY <3>1, <1>0 DEF Keeps
    <3> QED BY <3>2, <1>1 DEF Rely
  <2>5. CASE b = "me0600_irq"
    <3>1. Intcsr \in Registers(b) /\ Shared(b, Intcsr) BY <2>5 DEF Registers, Shared
    <3>2. R2[Intcsr] \cap Mine(i) = R[Intcsr] \cap Mine(i) BY <1>1, <1>0, <3>1 DEF Rely
    <3>3. LineEn(i) \subseteq R2[Intcsr] <=> LineEn(i) \subseteq R[Intcsr] BY <3>2 DEF Mine
    <3> QED BY <2>3, <2>5, <3>3, <1>1 DEF Bond, Line0, Live
  <2>6. CASE b = "me4600_irq"
    <3>1. LineReg(b, i, External(i), Edges \cup Acknowledge) /\ LineReg(b, i, EdgeMode(i), Edges)
      BY <2>6 DEF LineReg
    <3>2. External(i) \in Registers(b) /\ EdgeMode(i) \in Registers(b) BY <3>1, LineFacts
    <3>3. R2[External(i)] = R[External(i)] /\ R2[EdgeMode(i)] = R[EdgeMode(i)]
      BY <3>2, <2>4 DEF External, EdgeMode
    <3> QED BY <2>3, <2>6, <3>3, <1>1 DEF Bond, Line0, Live
  <2>7. CASE b = "me1400ab"
    <3>1. LineReg(b, i, Pin(i), Enable \cup ClockEn) BY <2>7 DEF LineReg
    <3>2. Pin(i) \in Registers(b) BY <3>1, LineFacts
    <3>3. R2[Pin(i)] = R[Pin(i)] BY <3>2, <2>4 DEF Pin
    <3> QED BY <2>3, <2>7, <3>3, <1>1 DEF Bond, Line0, Live
  <2> QED BY <2>5, <2>6, <2>7 DEF LineOf
<1>2. Stable(b, "isr", h, Firm(Line0(i))) BY <1>1 DEF Stable, Holds, Firm
<1> QED BY <1>2 DEF h

\* Facts of a handler that keeps the bond.
Bound(i) == {Running(i), Firm(Line0(i))}

\* The section of a handler opens with the line's bond and closes with it.
LEMMA BoundFacts ==
    ASSUME NEW b, NEW i, LineOf(b, i), b # "me1400cd"
    PROVE  /\ Opens(b, Status1(i), Lock(i), {Room(i)} \cup Bound(i))
           /\ Closes(b, Bound(i), Lock(i), {Running(i)})
           /\ Does(b, "isr", One(i), {Room(i)} \cup Bound(i), Empty, Bump(Count(i)), One(i), Bound(i), Wakeful(i))
           /\ \A k \in Bound(i) : Stable(b, "isr", One(i), k)
           /\ Fit(b, "isr", One(i), Bound(i), Wakeful(i))
<1>1. Stable(b, "isr", One(i), Firm(Line0(i))) BY IsrFirm
<1>2. Stable(b, "isr", One(i), Running(i)) /\ Stable(b, "isr", One(i), Room(i)) BY RunningStays
<1>3. \A k \in Bound(i) : Stable(b, "isr", One(i), k) BY <1>1, <1>2 DEF Bound
<1>4. Status1(i) = {Room(i), Running(i)} BY DEF Status1, Running
<1>5. Opens(b, Status1(i), Lock(i), {Room(i)} \cup Bound(i))
  <2>1. ASSUME NEW R, NEW W, NEW T, Local(b, Status1(i), R, W, T), Bond(b, Line0(i), R, W)
        PROVE  Local(b, {Room(i)} \cup Bound(i), R, W, T)
    <3>1. Holds(b, Firm(Line0(i)), R, W, T) BY <2>1 DEF Holds, Firm
    <3> QED BY <3>1, <2>1, <1>4 DEF Local, Bound
  <2>2. Line0(i) \in Bonds(b) /\ Home(b, Line0(i)) = Lock(i) BY LineFacts DEF Guarded
  <2> QED BY <2>1, <2>2 DEF Opens
<1>6. Closes(b, Bound(i), Lock(i), {Running(i)})
  <2>1. ASSUME NEW R, NEW W, NEW T, Local(b, Bound(i), R, W, T)
        PROVE  Local(b, {Running(i)}, R, W, T) /\ Bond(b, Line0(i), R, W)
    <3>1. Holds(b, Firm(Line0(i)), R, W, T) BY <2>1 DEF Local, Bound
    <3>2. Bond(b, Line0(i), R, W) BY <3>1 DEF Holds, Firm
    <3>3. Local(b, {Running(i)}, R, W, T) BY <2>1 DEF Local, Bound
    <3> QED BY <3>2, <3>3
  <2>2. \A x \in Bonds(b) : Home(b, x) = Lock(i) => x = Line0(i) BY LineFacts
  <2> QED BY <2>1, <2>2 DEF Closes
<1>7. IsrBumpOk(b, i, {Room(i)} \cup Bound(i), Bound(i))
  <2>1. Ignores(b, Running(i), Count(i)) /\ Ignores(b, Firm(Line0(i)), Count(i))
    BY RunningIgnores, IgnoresFirm
  <2>2. \A k \in Bound(i) : Ignores(b, k, Count(i)) BY <2>1 DEF Bound
  <2>3. \A k \in {Room(i)} \cup Bound(i) : Stable(b, "isr", One(i), k) BY <1>2, <1>3
  <2>4. Running(i) \in Bound(i) BY DEF Bound
  <2> QED BY <2>2, <2>3, <2>4 DEF IsrBumpOk
<1>8. Does(b, "isr", One(i), {Room(i)} \cup Bound(i), Empty, Bump(Count(i)), One(i), Bound(i), Wakeful(i))
  BY <1>7, IsrBump
<1>9. Fit(b, "isr", One(i), Bound(i), Wakeful(i))
  <2>1. Running(i) \in Bound(i) BY DEF Bound
  <2>2. Owed(i, Run) \in Wakeful(i) /\ Owed(i, Run) # Window BY DEF Wakeful, Window, Owed
  <2>3. Wakeful(i) # {Window} BY <2>2
  <2> QED BY <1>3, <2>1, <2>3, IsrFit
<1> QED BY <1>3, <1>5, <1>6, <1>8, <1>9

\* The handler of the ME-0600 is safe ...
LEMMA Handler0600 ==
    ASSUME NEW i \in {0, 1}, NEW x, x = Armed(Intcsr, LineEn(i) \cup {<<"pci", 0>>}, me0600_ext_irq_handle(i))
    PROVE  SafeHandler("me0600_irq", i, x)
<1> DEFINE b == "me0600_irq"
<1>1. LineOf(b, i) /\ b # "me1400cd" BY DEF LineOf
<1>2. \A R : LineEn(i) \cup {<<"pci", 0>>} \subseteq R[Intcsr] => Live(b, i, R) BY DEF Live
<1>3. x.reg = Intcsr /\ x.bits = LineEn(i) \cup {<<"pci", 0>>} /\ x.program = OnLine(i, Bump(Count(i)))
  BY DEF Armed, me0600_ext_irq_handle
<1> HIDE DEF b
<1>4. LineHandlerOk(b, i, {Room(i)} \cup Bound(i), Bump(Count(i)), Bound(i))
  <2>1. Running(i) \in Bound(i) BY DEF Bound
  <2> QED BY <2>1, <1>1, BoundFacts DEF LineHandlerOk
<1>5. Good(b, "isr", Empty, Found(b, i), Empty, OnLine(i, Bump(Count(i)))) BY <1>4, LineHandler
<1> QED BY <1>2, <1>3, <1>5 DEF SafeHandler, b

\* ... of the ME-4600 ...
LEMMA Handler4600 ==
    ASSUME NEW e \in {"rising", "falling", "any"},
           NEW x, x = Armed(External(0), {<<"edge", e>>}, me4600_ext_irq_handle(0))
    PROVE  SafeHandler("me4600_irq", 0, x)
<1> DEFINE b == "me4600_irq"
<1> DEFINE i == 0
<1> DEFINE r == External(i)
<1> DEFINE Ack == Acknowledge
<1> DEFINE f == Bound(i)
<1> DEFINE k0 == But(r, Ack)
<1> DEFINE f1 == {k0} \cup f
<1> DEFINE P == Bump(Count(i)) \o Load(EdgeMode(i)) \o Store(r, Ack, Ack) \o Store(r, Ack, {})
<1>1. LineOf(b, i) /\ b # "me1400cd" /\ b = "me4600_irq" /\ i = 0 BY DEF LineOf
<1>2. \A R : {<<"edge", e>>} \subseteq R[r] => Live(b, i, R)
  <2>1. ASSUME NEW R, {<<"edge", e>>} \subseteq R[r] PROVE R[External(i)] \cap Edges # {}
    <3>1. <<"edge", e>> \in Edges BY DEF Edges
    <3> QED BY <3>1, <2>1
  <2> QED BY <2>1 DEF Live
<1>3. x.reg = r /\ x.bits = {<<"edge", e>>} /\ x.program = OnLine(i, P)
  BY DEF Armed, me4600_ext_irq_handle
<1> HIDE DEF b, i
<1>4. LineReg(b, i, r, Edges \cup Acknowledge) /\ LineReg(b, i, EdgeMode(i), Edges)
  BY <1>1 DEF LineReg
<1>5. r \in Registers(b) /\ EdgeMode(i) \in Registers(b) BY <1>1, <1>4, LineFacts
<1>6. r[1] = "ext" /\ r[2] = i BY DEF External
<1>7. /\ Does(b, "isr", One(i), {Room(i)} \cup f, Empty, Bump(Count(i)), One(i), f, Wakeful(i))
      /\ \A k \in f : Stable(b, "isr", One(i), k)
      /\ Fit(b, "isr", One(i), f, Wakeful(i))
  BY <1>1, BoundFacts
<1>8. Of(b, r) = Lock(i) /\ Lock(i) \in One(i) /\ Lock(i) # NoLock /\ ~Masked(r) /\ ~Handled(r)
  BY <1>6 DEF Of, One, Lock, NoLock, Masked, Handled
<1>9. MayWrite(b, "isr", One(i), r) /\ Keeps(b, "isr", One(i), r) BY <1>8 DEF MayWrite, Keeps
<1>10. Stable(b, "isr", One(i), k0) BY <1>5, <1>9, StableOwn
<1>11. f = {Running(i), Firm(Line0(i))} BY DEF Bound
<1>12. r # Status(i) /\ r # EdgeMode(i) BY LineNames
<1>13. \A j : r # <<"low", j>> /\ r # Rised(j) /\ r # Count(j) /\ r # Resets(j) /\ r # Port(j)
  BY <1>6 DEF Rised, Count, Resets, Port
<1>14. ~Shared(b, r) /\ r # Intcsr BY <1>6 DEF Shared, Ctrl, Intcsr
<1>15. Bounded(b, r) /\ Exact(b, r) /\ Universe(b, r) = Edges \cup Ack
  BY <1>6, <1>1 DEF Bounded, Exact, Universe
<1>16. Edges \cap Ack = {} BY DEF Edges, Acknowledge
<1>17. \A R, W : Bond(b, Line0(i), R, W) <=>
          /\ R[r] \cap Edges # {} => R[Status(i)] = Run
          /\ R[Status(i)] = Run => R[r] \cap Edges # {}
          /\ R[r] \ Ack = R[EdgeMode(i)]
  BY <1>1 DEF Bond, Line0, Live
<1>18. Turned \notin Wakeful(i) BY DEF Turned, Wakeful, Owed
<1>19. \A R, W, T : Holds(b, k0, R, W, T) <=> T \ Ack = R[r] \ Ack BY DEF Holds, But
<1>20. \A R, W, T : Holds(b, Firm(Line0(i)), R, W, T) <=> Bond(b, Line0(i), R, W) BY DEF Holds, Firm
<1>21. Running(i) \in f /\ Firm(Line0(i)) \in f BY <1>11
<1>z. k0 = But(r, Ack) OBVIOUS
<1> HIDE DEF r, Ack, f, k0
<1>22. Fit(b, "isr", One(i), f1, Wakeful(i))
  <2>1. \A k \in f1 : Stable(b, "isr", One(i), k) BY <1>7, <1>10
  <2>2. Owed(i, Run) \in Wakeful(i) /\ Owed(i, Run) # Window BY DEF Wakeful, Window, Owed
  <2>3. Wakeful(i) # {Window} BY <2>2
  <2>4. Running(i) \in f1 BY <1>21
  <2> QED BY <2>1, <2>3, <2>4, <1>1, IsrFit
<1>23. Does(b, "isr", One(i), f, Wakeful(i), Load(EdgeMode(i)), One(i), f1, Wakeful(i))
  <2>1. ASSUME NEW R, NEW W, NEW T, Local(b, f, R, W, T), NEW k \in f1
        PROVE  Holds(b, k, R, W, R[EdgeMode(i)])
    <3>1. Holds(b, Firm(Line0(i)), R, W, T) /\ Holds(b, Running(i), R, W, T)
      BY <2>1, <1>21 DEF Local
    <3>2. R[r] \ Ack = R[EdgeMode(i)] BY <3>1, <1>17, <1>20
    <3>3. R[EdgeMode(i)] \ Ack = R[r] \ Ack BY <3>2
    <3>4. Holds(b, Firm(Line0(i)), R, W, R[EdgeMode(i)]) BY <3>1, <1>20
    <3>5. Holds(b, Running(i), R, W, R[EdgeMode(i)]) BY <3>1 DEF Holds, Running, Is
    <3> QED BY <3>3, <3>4, <3>5, <1>11, <1>19
  <2>2. \A R, W, T : Local(b, f, R, W, T) => \A k \in f1 : Holds(b, k, R, W, R[EdgeMode(i)]) BY <2>1
  <2> HIDE DEF f1
  <2> QED BY <2>2, <1>5, <1>7, <1>18, DoesLoad
<1>24. ASSUME NEW set \in {Ack, {}}, NEW g, g \subseteq f1
       PROVE  Does(b, "isr", One(i), f1, Wakeful(i), Store(r, Ack, set), One(i), g, Wakeful(i))
  <2>1. StoreOk(b, "isr", One(i), f1, Wakeful(i), r, Ack, Ack, set)
    <3>1. \A v, w : FineAt(b, r, v, w) => FineAt(b, r, (v \ Ack) \cup set, (w \ Ack) \cup set)
      BY <1>1, <1>14, <1>15 DEF FineAt
    <3>2. Aim(b, f1, r, set) BY <1>13 DEF Aim
    <3>3. But(r, Ack) \in f1 BY <1>z
    <3> HIDE DEF f1
    <3> QED BY <3>1, <3>2, <3>3, <1>1, <1>5, <1>9, <1>13, <1>14, <1>18, <1>22 DEF StoreOk
  <2>2. StoreLeads(b, f1, r, Ack, set, g)
    <3>1. ASSUME NEW R, NEW W, NEW T, NEW R2, NEW W2, Local(b, f1, R, W, T),
                 Changes(b, r, R, R2, (R[r] \ Ack) \cup set), NEW k \in f1
          PROVE  Holds(b, k, R2, W2, T)
      <4>1. R2[r] = (R[r] \ Ack) \cup set /\ \A q \in Registers(b) : q # r => R2[q] = R[q]
        BY <3>1 DEF Changes
      <4>2. Status(i) \in Registers(b) BY <1>1, LineFacts
      <4>3. R2[Status(i)] = R[Status(i)] /\ R2[EdgeMode(i)] = R[EdgeMode(i)]
        BY <4>1, <4>2, <1>5, <1>12
      <4>4. Holds(b, k0, R, W, T) /\ Holds(b, Firm(Line0(i)), R, W, T) /\ Holds(b, Running(i), R, W, T)
        BY <3>1, <1>21 DEF Local
      <4>5. R2[r] \ Ack = R[r] \ Ack /\ R2[r] \cap Edges = R[r] \cap Edges BY <4>1, <1>16
      <4>6. Holds(b, k0, R2, W2, T) BY <4>4, <4>5, <1>19
      <4>7. Holds(b, Firm(Line0(i)), R2, W2, T) BY <4>3, <4>4, <4>5, <1>17, <1>20
      <4>8. Holds(b, Running(i), R2, W2, T) BY <4>3, <4>4 DEF Holds, Running, Is
      <4> QED BY <4>6, <4>7, <4>8, <1>11
    <3> QED BY <3>1, <1>24 DEF StoreLeads
  <2> QED BY <2>1, <2>2, DoesStoreTo
<1>25. Does(b, "isr", One(i), f1, Wakeful(i), Store(r, Ack, Ack), One(i), f1, Wakeful(i)) BY <1>24
<1>26. Does(b, "isr", One(i), f1, Wakeful(i), Store(r, Ack, {}), One(i), f, Wakeful(i)) BY <1>24
<1> HIDE DEF f1
<1>27. Does(b, "isr", One(i), {Room(i)} \cup f, Empty, Bump(Count(i)) \o Load(EdgeMode(i)), One(i), f1, Wakeful(i))
  BY <1>7, <1>23, DoesThen
<1>28. Does(b, "isr", One(i), {Room(i)} \cup f, Empty, (Bump(Count(i)) \o Load(EdgeMode(i))) \o Store(r, Ack, Ack),
            One(i), f1, Wakeful(i))
  BY <1>25, <1>27, DoesThen
<1>29. Does(b, "isr", One(i), {Room(i)} \cup f, Empty, P, One(i), f, Wakeful(i))
  BY <1>26, <1>28, DoesThen
<1> HIDE DEF P
<1>30. LineHandlerOk(b, i, {Room(i)} \cup f, P, f)
  <2>1. Opens(b, Status1(i), Lock(i), {Room(i)} \cup f) /\ Closes(b, f, Lock(i), {Running(i)})
    BY <1>1, BoundFacts DEF f
  <2> QED BY <2>1, <1>1, <1>7, <1>21, <1>29 DEF LineHandlerOk
<1>31. Good(b, "isr", Empty, Found(b, i), Empty, OnLine(i, P)) BY <1>30, LineHandler
<1> QED BY <1>2, <1>3, <1>31 DEF SafeHandler, b, i

\* To owe a wake-up is not to have the line turned off for a moment.
LEMMA NotWindow == ASSUME NEW i PROVE Wakeful(i) # {Window} /\ Turned \notin Wakeful(i) /\ Window \notin Wakeful(i)
<1>1. Owed(i, Run) \in Wakeful(i) /\ Owed(i, Run) # Window BY DEF Wakeful, Window, Owed
<1> QED BY <1>1 DEF Wakeful, Window, Turned, Owed

\* The bump of a handler that makes the bond again.
LEMMA BareBump ==
    ASSUME NEW b, NEW i, LineOf(b, i)
    PROVE  Does(b, "isr", One(i), Status1(i), Empty, Bump(Count(i)), One(i), {Running(i)}, Wakeful(i))
<1>1. Status1(i) = {Room(i), Running(i)} BY DEF Status1, Running
<1>2. \A k \in Status1(i) : Stable(b, "isr", One(i), k) BY Status1Stays
<1>3. Ignores(b, Running(i), Count(i)) BY RunningIgnores
<1>4. IsrBumpOk(b, i, Status1(i), {Running(i)}) BY <1>1, <1>2, <1>3 DEF IsrBumpOk
<1> QED BY <1>4, IsrBump

\* A section may open without any new fact.
LEMMA OpensSame ==
    ASSUME NEW b, NEW f, NEW l
    PROVE  Opens(b, f, l, f)
BY DEF Opens

PinOk(m, f, o, f2) ==
    /\ m \subseteq Enable \cup ClockEn /\ Fit("me1400ab", "isr", One(2), f, o) /\ Turned \notin o
    /\ f \subseteq Status1(2) /\ \A k \in f2 : k \in f \/ k = Is(Pin(2), Enable \cup ClockEn, m)

\* The ME-1400A's handler turns the pin off and on again.
LEMMA PinPut ==
    ASSUME NEW m, NEW f, NEW o, NEW f2, PinOk(m, f, o, f2)
    PROVE  Does("me1400ab", "isr", One(2), f, o, SetPin(2, m), One(2), f2, o)
<1> DEFINE b == "me1400ab"
<1> DEFINE X == Enable \cup ClockEn
<1> DEFINE r == Pin(2)
<1>1. LineOf(b, 2) /\ b # "me1400cd" BY DEF LineOf
<1>2. LineReg(b, 2, r, X) BY DEF LineReg
<1>3. /\ m \subseteq X /\ Fit(b, "isr", One(2), f, o) /\ Turned \notin o
      /\ f \subseteq Status1(2) /\ \A k \in f2 : k \in f \/ k = Is(r, X, m)
  BY DEF PinOk
<1>4. r[1] = "pin" /\ r[2] = 2 BY DEF Pin
<1> HIDE DEF b, X, r
<1>5. r \in Registers(b) BY <1>1, <1>2, LineFacts
<1>6. MayWrite(b, "isr", One(2), r)
  <2>1. Of(b, r) = Lock(2) /\ Lock(2) \in One(2) /\ ~Masked(r) BY <1>4 DEF Of, One, Masked
  <2> QED BY <2>1 DEF MayWrite
<1>7. /\ \A v, w : FineAt(b, r, v, w) => FineAt(b, r, m, (w \ X) \cup m)
      /\ (\A j : r # <<"low", j>> /\ r # Port(j) /\ r # Rised(j) /\ r # Resets(j)) /\ ~Shared(b, r)
  BY <1>1, <1>2, <1>3, LineFine
<1>8. \A j : r # Count(j) BY <1>4 DEF Count
<1>9. Aim(b, f, r, m) BY <1>7 DEF Aim
<1>10. Status(2) \in Registers(b) /\ Count(2) \in Registers(b) BY <1>1, LineFacts
<1>11. Status(2) # r /\ Count(2) # r BY <1>4 DEF Status, Count
<1>12. ASSUME NEW R, NEW W, NEW T, NEW R2, NEW W2, Local(b, f, R, W, T), Changes(b, r, R, R2, m), NEW k \in f2
       PROVE  Holds(b, k, R2, W2, T)
  <2>1. R2[r] = m /\ \A q \in Registers(b) : q # r => R2[q] = R[q] BY <1>12 DEF Changes
  <2>2. CASE k = Is(r, X, m)
    <3>1. R2[r] \cap X = m BY <2>1, <1>3
    <3> QED BY <3>1, <2>2 DEF Holds, Is
  <2>3. CASE k \in f
    <3>1. k = Room(2) \/ k = Is(Status(2), Statuses, Run) BY <2>3, <1>3 DEF Status1
    <3>2. Holds(b, k, R, W, T) BY <2>3, <1>12 DEF Local
    <3>3. R2[Status(2)] = R[Status(2)] /\ R2[Count(2)] = R[Count(2)] BY <2>1, <1>10, <1>11
    <3> QED BY <3>1, <3>2, <3>3 DEF Holds, Is, Room
  <2> QED BY <2>2, <2>3, <1>3, <1>12
<1>13. PutOk(b, "isr", One(2), f, o, r, X, m, f2, o)
  BY <1>1, <1>3, <1>5, <1>6, <1>7, <1>8, <1>9, <1>12 DEF PutOk
<1>14. Does(b, "isr", One(2), f, o, Put(r, X, m), One(2), f2, o) BY <1>13, DoesPut
<1> QED BY <1>14 DEF SetPin, b, r, X

\* The handler of the ME-1400A is safe ...
LEMMA HandlerAB ==
    ASSUME NEW x, x = Armed(Pin(2), Enable, me1400AB_ext_irq_handle(2))
    PROVE  SafeHandler("me1400ab", 2, x)
<1> DEFINE b == "me1400ab"
<1> DEFINE i == 2
<1> DEFINE X == Enable \cup ClockEn
<1> DEFINE S == Status1(i)
<1> DEFINE g == {Running(i)}
<1> DEFINE f2 == {Running(i), Is(Pin(i), X, Enable)}
<1> DEFINE P == SetPin(i, {}) \o Bump(Count(i)) \o SetPin(i, Enable)
<1>1. LineOf(b, i) /\ b # "me1400cd" /\ b # "me4600_irq" /\ b = "me1400ab" /\ i = 2 BY DEF LineOf
<1>2. \A R : Live(b, i, R) <=> Enable \subseteq R[Pin(i)] BY DEF Live
<1>3. x.reg = Pin(i) /\ x.bits = Enable /\ x.program = OnLine(i, P)
  BY DEF Armed, me1400AB_ext_irq_handle
<1> HIDE DEF b, i
<1>4. \A k \in S : Stable(b, "isr", One(i), k) BY <1>1, Status1Stays
<1>5. S = {Room(i), Running(i)} BY DEF Status1, Running
<1>6. Fit(b, "isr", One(i), S, Empty)
  <2>1. Empty # Wakeful(i) /\ Empty # {Window} BY Void DEF Wakeful
  <2> QED BY <2>1, <1>1, <1>4, IsrFit
<1>7. Fit(b, "isr", One(i), g, Wakeful(i))
  <2>1. (\A k \in g : Stable(b, "isr", One(i), k)) /\ Running(i) \in g BY <1>4, <1>5
  <2> HIDE DEF g
  <2> QED BY <2>1, <1>1, NotWindow, IsrFit
<1>8. Does(b, "isr", One(i), S, Empty, SetPin(i, {}), One(i), S, Empty)
  <2>1. PinOk({}, S, Empty, S) BY <1>1, <1>6, Void DEF PinOk
  <2> QED BY <2>1, <1>1, PinPut
<1>9. Does(b, "isr", One(i), S, Empty, Bump(Count(i)), One(i), g, Wakeful(i)) BY <1>1, BareBump
<1>10. Does(b, "isr", One(i), g, Wakeful(i), SetPin(i, Enable), One(i), f2, Wakeful(i))
  <2>1. PinOk(Enable, g, Wakeful(i), f2) BY <1>1, <1>5, <1>7, NotWindow DEF PinOk
  <2> QED BY <2>1, <1>1, PinPut
<1>11. Closes(b, f2, Lock(i), g)
  <2>1. ASSUME NEW R, NEW W, NEW T, Local(b, f2, R, W, T)
        PROVE  Local(b, g, R, W, T) /\ Bond(b, Line0(i), R, W)
    <3>1. R[Status(i)] = Run
      <4>1. Running(i) \in f2 OBVIOUS
      <4> HIDE DEF f2
      <4> QED BY <4>1, <2>1, <1>1, RunningIs
    <3>2. Holds(b, Is(Pin(i), X, Enable), R, W, T) BY <2>1 DEF Local
    <3>3. R[Pin(i)] \cap X = Enable BY <3>2 DEF Holds, Is
    <3>4. Live(b, i, R) BY <3>3, <1>2
    <3>5. Bond(b, Line0(i), R, W) BY <3>1, <3>4, <1>1 DEF Bond, Line0
    <3>6. Local(b, g, R, W, T) BY <2>1 DEF Local
    <3> QED BY <3>5, <3>6
  <2>2. \A y \in Bonds(b) : Home(b, y) = Lock(i) => y = Line0(i) BY <1>1, LineFacts
  <2> QED BY <2>1, <2>2 DEF Closes
<1>12. \A k \in f2 : Stable(b, "isr", One(i), k)
  <2>1. LineReg(b, i, Pin(i), X) BY <1>1 DEF LineReg
  <2>2. Pin(i) \in Registers(b) BY <1>1, <2>1, LineFacts
  <2>3. Keeps(b, "isr", One(i), Pin(i)) BY DEF Keeps, Of, Pin, Lock, NoLock, One, Handled
  <2>4. Stable(b, "isr", One(i), Is(Pin(i), X, Enable)) BY <2>2, <2>3, StableOwn
  <2> QED BY <2>4, <1>4, <1>5
<1>13. Running(i) \in f2 OBVIOUS
<1> HIDE DEF S, f2
<1>14. Does(b, "isr", One(i), S, Empty, SetPin(i, {}) \o Bump(Count(i)), One(i), g, Wakeful(i))
  BY <1>8, <1>9, DoesThen
<1>15. Does(b, "isr", One(i), S, Empty, P, One(i), f2, Wakeful(i)) BY <1>10, <1>14, DoesThen
<1> HIDE DEF P
<1>16. LineHandlerOk(b, i, S, P, f2)
  BY <1>1, <1>11, <1>12, <1>13, <1>15, OpensSame DEF LineHandlerOk, S
<1>17. Good(b, "isr", Empty, Found(b, i), Empty, OnLine(i, P)) BY <1>16, LineHandler
<1> QED BY <1>2, <1>3, <1>17 DEF SafeHandler, b, i

\* The handler of the ME-1400C switches the line off and on again.
ClockTurn(clear, set, o, o2) ==
    \/ clear = Enable /\ set = {} /\ o = Empty /\ o2 = {Window}
    \/ clear = Enable /\ set = Enable /\ o = {Window} /\ o2 = Empty

\* The ME-1400C's handler does the same in the register of the clocks.
LEMMA ClockStore ==
    ASSUME NEW clear, NEW set, NEW o, NEW o2, ClockTurn(clear, set, o, o2)
    PROVE  Does("me1400cd", "isr", One(2), Status1(2), o, Store(MyClock, clear, set), One(2), Status1(2), o2)
<1> DEFINE b == "me1400cd"
<1> DEFINE h == One(2)
<1> DEFINE r == MyClock
<1> DEFINE f == Status1(2)
<1> DEFINE v == [do |-> "store", reg |-> r, clear |-> clear, set |-> set]
<1>1. LineOf(b, 2) /\ b = "me1400cd" BY DEF LineOf
<1>c. r[1] = "clock" BY DEF MyClock, LineClock, Clock
<1>3. r \in Registers(b) BY DEF Registers, MyClock, LineClock, Clock, ClkReg
<1>5. /\ (\A j : r # <<"low", j>> /\ r # Rised(j) /\ r # Count(j) /\ r # Resets(j) /\ r # Port(j) /\ r # Status(j))
      /\ ~Shared(b, r) /\ r # Intcsr
  BY <1>c DEF Rised, Count, Resets, Port, Shared, Ctrl, Intcsr, Status
<1>6. MayWrite(b, "isr", h, r) BY <1>c DEF MayWrite, Of
<1>7. \A y, w : FineAt(b, r, y, w)
  <2>1. ~Bounded(b, r) /\ ~Exact(b, r) BY <1>c DEF Bounded, Exact, Ctrl, OutsOnly
  <2> QED BY <2>1, <1>5 DEF FineAt
<1>v. v.do = "store" /\ v.reg = r /\ v.clear = clear /\ v.set = set OBVIOUS
<1>8. Lock(2) \in h BY DEF One
<1>9. o \in {Empty, {Window}} /\ o2 \in {Empty, {Window}} BY DEF ClockTurn
<1>10. (\A i, m : Owed(i, m) \notin o) /\ Turned \notin o /\ Turned \notin o2
  <2>1. Turned # Window /\ \A i, m : Owed(i, m) # Window BY DEF Owed, Window, Turned
  <2> QED BY <2>1, <1>9, Void
<1>11. Status(2) \in Registers(b) /\ Count(2) \in Registers(b) BY <1>1, LineFacts
<1> HIDE DEF b, h, r, v, f
<1>12. \A k \in f : Stable(b, "isr", h, k) BY <1>1, Status1Stays DEF f, h
<1>13. Fit(b, "isr", h, f, o)
  <2>1. \A k \in f : Stable(b, "isr", One(2), k) BY <1>12 DEF h
  <2>2. o \in {Empty, Wakeful(2), {Window}} BY <1>9
  <2>3. o # Wakeful(2)
    <3>1. Empty # Wakeful(2) BY Void DEF Wakeful
    <3> QED BY <3>1, <1>9, NotWindow
  <2>4. Fit(b, "isr", One(2), f, o) BY <2>1, <2>2, <2>3, <1>1, IsrFit
  <2> QED BY <2>4 DEF h
<1>16. ASSUME NEW R, NEW W, NEW T, NEW R2, NEW W2, NEW T2,
             Local(b, f, R, W, T), Effect(b, v, R, W, T, R2, W2, T2)
       PROVE  /\ Local(b, f, R2, W2, T2) /\ Polite(b, "isr", h, R, W, R2, W2)
              /\ Notes(b, "isr", h, f, o, v, o2, R, W, T, R2, W2, T2)
  <2>1. Level(v.reg, v.clear, v.set) = set BY <1>v, <1>c DEF Level, ActiveLow
  <2>2. /\ T2 = T /\ Changes(b, r, R, R2, (T \ clear) \cup set)
        /\ Changes(b, r, W, W2, (W[r] \ clear) \cup set)
    BY <1>16, <1>v, <2>1 DEF Effect
  <2>3. /\ R2[r] = (T \ clear) \cup set
        /\ \A q \in Registers(b) : q # r => R2[q] = R[q] /\ W2[q] = W[q]
    BY <2>2 DEF Changes
  <2>4. R2[Status(2)] = R[Status(2)] /\ R2[Count(2)] = R[Count(2)] BY <2>3, <1>5, <1>11
  <2>7. ASSUME NEW k \in f PROVE Holds(b, k, R2, W2, T2)
    <3>1. Holds(b, k, R, W, T) BY <2>7, <1>16 DEF Local
    <3>2. k = Room(2) \/ k = Is(Status(2), Statuses, Run) BY <2>7 DEF f, Status1
    <3> QED BY <3>1, <3>2, <2>4 DEF Holds, Room, Is
  <2>8. Fine(b, R2, W2)
    <3>1. Fine(b, R, W) BY <1>16 DEF Local
    <3>2. ASSUME NEW q \in Registers(b) PROVE FineAt(b, q, R2[q], W2[q])
      <4>1. CASE q = r BY <4>1, <1>7
      <4>2. CASE q # r BY <4>2, <2>3, <3>1 DEF Fine
      <4> QED BY <4>1, <4>2
    <3> QED BY <3>2 DEF Fine
  <2>9. Local(b, f, R2, W2, T2) BY <2>7, <2>8 DEF Local
  <2>10. Polite(b, "isr", h, R, W, R2, W2) BY <2>3, <1>5, <1>6 DEF Polite
  <2>11. \A j \in Numbers : ~Stirs(b, j, R, R2) BY <2>3, <1>5 DEF Stirs
  <2>12. Window \in o /\ Window \notin o2 => Enable \subseteq R2[r]
    <3>1. ASSUME Window \in o PROVE set = Enable BY <3>1, Void DEF ClockTurn
    <3> QED BY <3>1, <2>3
  <2>13. ~(Enable \subseteq R2[r]) => Window \in o2
    <3>1. set = Enable => Enable \subseteq R2[r] BY <2>3
    <3> QED BY <3>1 DEF ClockTurn
  <2>14. Notes(b, "isr", h, f, o, v, o2, R, W, T, R2, W2, T2)
    BY <2>11, <2>12, <2>13, <1>8, <1>10 DEF Notes, r
  <2> QED BY <2>9, <2>10, <2>14
<1>17. Moves(b, "isr", h, f, o, v, f, o2) BY <1>16, <1>v, <1>3, <1>10 DEF Moves, Accesses, Named
<1>18. Aimed(b, f, v) BY <1>v, <1>5 DEF Aimed
<1>19. Does(b, "isr", h, f, o, <<v>>, h, f, o2) BY <1>13, <1>17, <1>18, DoesAccess
<1> QED BY <1>19 DEF Store, b, h, r, f, v

\* ... and of the ME-1400C.
LEMMA HandlerCD ==
    ASSUME NEW x, x = Armed(LineClock(2), Enable, me1400CD_ext_irq_handle(2))
    PROVE  SafeHandler("me1400cd", 2, x)
<1> DEFINE b == "me1400cd"
<1> DEFINE i == 2
<1> DEFINE S == Status1(i)
<1> DEFINE g == {Running(i)}
<1> DEFINE P == Rmw(LineClock(i), Enable, {}) \o Store(LineClock(i), Enable, Enable) \o Bump(Count(i))
<1>1. LineOf(b, i) /\ b = "me1400cd" /\ b # "me4600_irq" /\ i = 2 BY DEF LineOf
<1>2. \A R : Live(b, i, R) <=> Enable \subseteq R[MyClock] BY DEF Live
<1>3. x.reg = MyClock /\ x.bits = Enable /\ x.program = OnLine(i, P)
  BY DEF Armed, me1400CD_ext_irq_handle, MyClock, LineClock
<1>m. LineClock(i) = MyClock BY DEF MyClock, LineClock
<1>r. MyClock \in Registers(b) BY DEF Registers, MyClock, LineClock, Clock, ClkReg
<1> HIDE DEF b, i
<1>4. \A k \in S : Stable(b, "isr", One(i), k) BY <1>1, Status1Stays
<1>5. S = {Room(i), Running(i)} BY DEF Status1, Running
<1>6. Fit(b, "isr", One(i), S, Empty)
  <2>1. Empty # Wakeful(i) /\ Empty # {Window} BY Void DEF Wakeful
  <2> QED BY <2>1, <1>1, <1>4, IsrFit
<1>7. Does(b, "isr", One(i), S, Empty, Load(MyClock), One(i), S, Empty)
  <2>1. \A R, W, T : Local(b, S, R, W, T) => \A k \in S : Holds(b, k, R, W, R[MyClock])
    <3>1. ASSUME NEW R, NEW W, NEW T, Local(b, S, R, W, T), NEW k \in S PROVE Holds(b, k, R, W, R[MyClock])
      <4>1. Holds(b, k, R, W, T) BY <3>1 DEF Local
      <4>2. k = Room(i) \/ k = Is(Status(i), Statuses, Run) BY <3>1, <1>5 DEF Running
      <4> QED BY <4>1, <4>2 DEF Holds, Room, Is
    <3> QED BY <3>1
  <2> HIDE DEF S
  <2> QED BY <2>1, <1>6, <1>r, DoesLoad, Void
<1>8. Does(b, "isr", One(i), S, Empty, Store(MyClock, Enable, {}), One(i), S, {Window})
  <2>1. ClockTurn(Enable, {}, Empty, {Window}) BY DEF ClockTurn
  <2> QED BY <2>1, <1>1, ClockStore
<1>9. Does(b, "isr", One(i), S, {Window}, Store(MyClock, Enable, Enable), One(i), S, Empty)
  <2>1. ClockTurn(Enable, Enable, {Window}, Empty) BY DEF ClockTurn
  <2> QED BY <2>1, <1>1, ClockStore
<1>10. Does(b, "isr", One(i), S, Empty, Bump(Count(i)), One(i), g, Wakeful(i)) BY <1>1, BareBump
<1>11. Closes(b, g, Lock(i), g)
  <2>1. ASSUME NEW R, NEW W, NEW T, Local(b, g, R, W, T)
        PROVE  Bond(b, Line0(i), R, W)
    <3>1. R[Status(i)] = Run
      <4>1. Running(i) \in g OBVIOUS
      <4> HIDE DEF g
      <4> QED BY <4>1, <2>1, <1>1, RunningIs
    <3> QED BY <3>1, <1>1 DEF Bond, Line0
  <2>2. \A y \in Bonds(b) : Home(b, y) = Lock(i) => y = Line0(i) BY <1>1, LineFacts
  <2> QED BY <2>1, <2>2 DEF Closes
<1>12. (\A k \in g : Stable(b, "isr", One(i), k)) /\ Running(i) \in g BY <1>4, <1>5
<1> HIDE DEF S, g
<1>13. Does(b, "isr", One(i), S, Empty, Rmw(MyClock, Enable, {}), One(i), S, {Window})
  BY <1>7, <1>8, DoesThen DEF Rmw
<1>14. Does(b, "isr", One(i), S, Empty, Rmw(MyClock, Enable, {}) \o Store(MyClock, Enable, Enable), One(i), S, Empty)
  BY <1>13, <1>9, DoesThen
<1>15. Does(b, "isr", One(i), S, Empty, P, One(i), g, Wakeful(i))
  <2>1. Does(b, "isr", One(i), S, Empty, (Rmw(MyClock, Enable, {}) \o Store(MyClock, Enable, Enable)) \o Bump(Count(i)),
             One(i), g, Wakeful(i))
    BY <1>14, <1>10, DoesThen
  <2> QED BY <2>1, <1>m
<1> HIDE DEF P
<1>16. LineHandlerOk(b, i, S, P, g) BY <1>1, <1>11, <1>12, <1>15, OpensSame DEF LineHandlerOk, S, g
<1>17. Good(b, "isr", Empty, Found(b, i), Empty, OnLine(i, P)) BY <1>16, LineHandler
<1> QED BY <1>2, <1>3, <1>17 DEF SafeHandler, b, i

-----------------------------------------------------------------------------
(* The boards with lines are safe.                                         *)

\* The lines of the ME-0600 are safe, their handlers included ...
LEMMA SafeLine0600 == ASSUME NEW i \in {0, 1} PROVE SafeSub("me0600_irq", i, me0600_ext_irq_constr(i))
<1> DEFINE b == "me0600_irq"
<1> DEFINE s == me0600_ext_irq_constr(i)
<1>1. /\ s.reset = me0600_ext_irq_io_reset_subdevice(i) /\ s.stop = me0600_ext_irq_io_irq_stop(i) /\ s.test = <<>>
      /\ DOMAIN s.config = {}
      /\ (\A a \in Access : s.read[a] = Refused)
      /\ (\A a \in Access, v \in Levels : s.write[<<a, v>>] = Refused)
      /\ (\A a \in DOMAIN s.start : s.start[a] = me0600_ext_irq_io_irq_start(i, a))
      /\ (\A a \in DOMAIN s.wait : s.wait[a] = me0600_ext_irq_io_irq_wait(i, a))
      /\ s.irqs = {Armed(Intcsr, LineEn(i) \cup {<<"pci", 0>>}, me0600_ext_irq_handle(i))}
  BY DEF me0600_ext_irq_constr, LineMade, Made, NoMethod2, me0600_ext_irq_io_irq_test
<1>2. \A x \in s.irqs : SafeHandler(b, i, x) BY <1>1, Handler0600
<1> HIDE DEF s
<1> QED BY <1>1, <1>2, Methods0600, Refuses DEF SafeSub, s

\* ... that of the ME-4600 ...
LEMMA SafeLine4600 == SafeSub("me4600_irq", 0, me4600_ext_irq_constr(0))
<1> DEFINE b == "me4600_irq"
<1> DEFINE s == me4600_ext_irq_constr(0)
<1>1. /\ s.reset = me4600_ext_irq_io_reset_subdevice(0) /\ s.stop = me4600_ext_irq_io_irq_stop(0) /\ s.test = <<>>
      /\ DOMAIN s.config = {}
      /\ (\A a \in Access : s.read[a] = Refused)
      /\ (\A a \in Access, v \in Levels : s.write[<<a, v>>] = Refused)
      /\ (\A a \in DOMAIN s.start : s.start[a] = me4600_ext_irq_io_irq_start(0, a))
      /\ (\A a \in DOMAIN s.wait : s.wait[a] = me4600_ext_irq_io_irq_wait(0, a))
      /\ s.irqs = {Armed(External(0), {<<"edge", e>>}, me4600_ext_irq_handle(0)) : e \in {"rising", "falling", "any"}}
  BY DEF me4600_ext_irq_constr, LineMade, Made, NoMethod2, me4600_ext_irq_io_irq_test
<1>2. \A x \in s.irqs : SafeHandler(b, 0, x) BY <1>1, Handler4600
<1> HIDE DEF s
<1> QED BY <1>1, <1>2, Methods4600, Refuses DEF SafeSub, s

\* ... of the ME-1400A ...
LEMMA SafeLineAB == SafeSub("me1400ab", 2, me1400AB_ext_irq_constr(2))
<1> DEFINE b == "me1400ab"
<1> DEFINE s == me1400AB_ext_irq_constr(2)
<1>1. /\ s.reset = me1400AB_ext_irq_io_reset_subdevice(2) /\ s.stop = me1400AB_ext_irq_io_irq_stop(2)
      /\ s.test = me1400AB_ext_irq_io_irq_test(2)
      /\ (\A a \in DOMAIN s.config : s.config[a] = me1400AB_ext_irq_io_single_config(2, a))
      /\ (\A a \in Access : s.read[a] = Refused)
      /\ (\A a \in Access, v \in Levels : s.write[<<a, v>>] = Refused)
      /\ (\A a \in DOMAIN s.start : s.start[a] = me1400AB_ext_irq_io_irq_start(2, a))
      /\ (\A a \in DOMAIN s.wait : s.wait[a] = me1400AB_ext_irq_io_irq_wait(2, a))
      /\ s.irqs = {Armed(Pin(2), Enable, me1400AB_ext_irq_handle(2))}
  BY DEF me1400AB_ext_irq_constr, LineMade, Made, NoMethod2
<1>2. \A x \in s.irqs : SafeHandler(b, 2, x) BY <1>1, HandlerAB
<1> HIDE DEF s
<1> QED BY <1>1, <1>2, MethodsAB, Refuses DEF SafeSub, s

\* ... and of the ME-1400C.
LEMMA SafeLineCD == SafeSub("me1400cd", 2, me1400CD_ext_irq_constr(2))
<1> DEFINE b == "me1400cd"
<1> DEFINE s == me1400CD_ext_irq_constr(2)
<1>1. /\ s.reset = me1400CD_ext_irq_io_reset_subdevice(2) /\ s.stop = me1400CD_ext_irq_io_irq_stop(2) /\ s.test = <<>>
      /\ DOMAIN s.config = {}
      /\ (\A a \in Access : s.read[a] = Refused)
      /\ (\A a \in Access, v \in Levels : s.write[<<a, v>>] = Refused)
      /\ (\A a \in DOMAIN s.start : s.start[a] = me1400CD_ext_irq_io_irq_start(2, a))
      /\ (\A a \in DOMAIN s.wait : s.wait[a] = me1400CD_ext_irq_io_irq_wait(2, a))
      /\ s.irqs = {Armed(LineClock(2), Enable, me1400CD_ext_irq_handle(2))}
  BY DEF me1400CD_ext_irq_constr, LineMade, Made, NoMethod2, me1400CD_ext_irq_io_irq_test
<1>2. \A x \in s.irqs : SafeHandler(b, 2, x) BY <1>1, HandlerCD
<1> HIDE DEF s
<1> QED BY <1>1, <1>2, MethodsCD, Refuses DEF SafeSub, s


-----------------------------------------------------------------------------
(* Inputs whose pins interrupt, and outputs that may get too hot.          *)

DiOf(b, i) ==
    \/ b = "me8100" /\ i = 0
    \/ b = "me8200" /\ i = 0
    \/ b = "me8200_ex" /\ i \in {0, 1}
DoOf(b, i) ==
    \/ b = "me8200" /\ i = 1
    \/ b = "me8200_do" /\ i \in {0, 1}
PinOf(b, i) == DiOf(b, i) \/ DoOf(b, i)

\* The registers of a subdevice, with what may be written to them.
PinReg(b, i, r, all) ==
    \/ r = Rised(i) /\ all = Up \cup Off
    \/ r = Count(i) /\ all = AnyCount
    \/ DiOf(b, i) /\ r = Filter(i) /\ all = Filtering
    \/ DiOf(b, i) /\ r \in {Pattern(i), MaskOf(i)} /\ all = Arguments
    \/ DoOf(b, i) /\ r = Port(i) /\ all = Pins(8)

\* Inputs whose pins interrupt, and outputs that do when too hot: registers and locks.
LEMMA PinFacts ==
    ASSUME NEW b, NEW i, PinOf(b, i)
    PROVE  /\ i \in Numbers /\ NoTies(b) /\ ~Guarded(b, i)
           /\ b \in {"me8100", "me8200", "me8200_ex", "me8200_do"}
           /\ \A l : l # CtrlLock => Bare(b, l)
           /\ \A r, all : PinReg(b, i, r, all) => r \in Registers(b)
           /\ b # "me8100" => IrqMode \in Registers(b) /\ (DiOf(b, i) => IrqCtrl \in Registers(b))
<1>1. i \in Numbers /\ b \in {"me8100", "me8200", "me8200_ex", "me8200_do"}
  BY DEF PinOf, DiOf, DoOf, Numbers
<1>2. Bonds(b) = IF b = "me8100" THEN {Copied} ELSE {} BY <1>1 DEF Bonds
<1>3. \A n : Line0(n) # Copied /\ Whole(n) # Copied BY DEF Line0, Whole, Copied
<1>4. NoTies(b) BY <1>2, <1>3 DEF NoTies
<1>5. ~Guarded(b, i) BY <1>4 DEF Guarded, NoTies
<1>6. Home(b, Copied) = CtrlLock BY DEF Home, Copied
<1>7. \A l : l # CtrlLock => Bare(b, l) BY <1>2, <1>6 DEF Bare
<1>8. Registers(b) = CASE b = "me8100" -> {Control(0), Copy, Port(1), Mirror(1)} \cup Pinned(0)
                       [] b = "me8200_do" -> {IrqMode} \cup Power(0) \cup Power(1)
                       [] b = "me8200" -> {IrqMode, IrqCtrl} \cup Pinned(0) \cup Power(1)
                       [] OTHER -> {IrqMode, IrqCtrl} \cup Pinned(0) \cup Pinned(1)
  BY <1>1 DEF Registers
<1>9. DiOf(b, i) => Pinned(i) \subseteq Registers(b) BY <1>8 DEF DiOf
<1>10. DoOf(b, i) => Power(i) \subseteq Registers(b) BY <1>8 DEF DoOf
<1>11. ASSUME NEW r, NEW all, PinReg(b, i, r, all) PROVE r \in Registers(b)
  <2>1. CASE DiOf(b, i)
    <3>1. r \in Pinned(i) BY <2>1, <1>11 DEF PinReg, Pinned, DiOf, DoOf
    <3> QED BY <3>1, <2>1, <1>9
  <2>2. CASE DoOf(b, i)
    <3>1. r \in Power(i) BY <2>2, <1>11 DEF PinReg, Power, DiOf, DoOf
    <3> QED BY <3>1, <2>2, <1>10
  <2> QED BY <2>1, <2>2 DEF PinOf
<1>12. b # "me8100" => IrqMode \in Registers(b) /\ (DiOf(b, i) => IrqCtrl \in Registers(b))
  BY <1>1, <1>8 DEF DiOf
<1> QED BY <1>1, <1>4, <1>5, <1>7, <1>11, <1>12

\* What a task relies on at such pins.
LEMMA PinFit ==
    ASSUME NEW b, NEW i, PinOf(b, i), NEW u, NEW h, NEW f, \A k \in f : Stable(b, u, h, k), NEW o, o \subseteq Debt(i)
    PROVE  Fit(b, u, h, f, o)
<1>1. i \in Numbers /\ NoTies(b) BY PinFacts
<1>2. Steady(b, u, h, f) BY <1>1 DEF Steady, NoTies, Guarded
<1>3. \A j, m : Owed(j, m) \in o => j = i /\ m = {} BY DEF Debt, Owed
<1>4. Turned \notin o /\ Window \notin o BY DEF Debt, Owed, Turned, Window
<1>5. Keeping(b, u, h, f, o) BY <1>1, <1>3, <1>4 DEF Keeping
<1> QED BY <1>1, <1>2, <1>5 DEF Fit, NoTies

\* What a handler knows, and a task does not.
Roomy(u, i, f) == f = Empty \/ (u = "isr" /\ f = Room1(i))

\* All that it relies on is the room in the count.
LEMMA RoomyStays ==
    ASSUME NEW b, NEW i, PinOf(b, i), NEW u, NEW f, Roomy(u, i, f), NEW h
    PROVE  \A k \in f : Stable(b, u, h, k) /\ k = Room(i)
<1>1. PinReg(b, i, Count(i), AnyCount) BY DEF PinReg
<1>2. Count(i) \in Registers(b) BY <1>1, PinFacts
<1> QED BY <1>2, StableRoom, Void DEF Roomy, Room1

\* What the registers of such pins may hold.
LEMMA PinFine ==
    ASSUME NEW b, NEW i, PinOf(b, i), NEW r, NEW all, PinReg(b, i, r, all), NEW set, set \subseteq all
    PROVE  /\ \A v, w : FineAt(b, r, v, w) => FineAt(b, r, set, (w \ all) \cup set)
           /\ (\A j : r # <<"low", j>> /\ r # Resets(j)) /\ ~Shared(b, r) /\ r # MyClock /\ r # Intcsr
           /\ \A j : (r = Count(j) => j = i) /\ (r = Rised(j) => j = i)
<1>0. b \in {"me8100", "me8200", "me8200_ex", "me8200_do"} BY PinFacts
<1>1. r[1] \in {"rised", "count", "filter", "pattern", "mask", "port"} /\ r[2] = i
  BY DEF PinReg, Rised, Count, Filter, Pattern, MaskOf, Port
<1>2. /\ (\A j : r # <<"low", j>> /\ r # Resets(j)) /\ ~Shared(b, r) /\ r # MyClock /\ r # Intcsr
      /\ \A j : (r = Count(j) => j = i) /\ (r = Rised(j) => j = i)
  BY <1>1 DEF Rised, Resets, Shared, Ctrl, Intcsr, MyClock, LineClock, Clock, Count
<1>3. r[1] = "port" => b # "me8100" BY DEF PinReg, Rised, Count, Filter, Pattern, MaskOf, DoOf
<1>4. Bounded(b, r) BY <1>0, <1>1, <1>3 DEF Bounded
<1>5. Universe(b, r) = all
  BY <1>0, <1>3 DEF PinReg, Universe, Rised, Count, Filter, Pattern, MaskOf, Port
<1>6. Exact(b, r) BY <1>0, <1>3 DEF Exact
<1>8. ASSUME NEW v, NEW w, FineAt(b, r, v, w)
      PROVE  FineAt(b, r, set, (w \ all) \cup set)
  <2>1. v \subseteq all /\ w = v BY <1>8, <1>4, <1>5, <1>6 DEF FineAt
  <2>2. (w \ all) \cup set = set BY <2>1
  <2> QED BY <2>2, <1>2, <1>5, <1>0 DEF FineAt
<1> QED BY <1>2, <1>8

PinsPutOk(b, u, i, h, f, o, r, all, set, o2) ==
    /\ PinOf(b, i) /\ PinReg(b, i, r, all) /\ set \subseteq all /\ Roomy(u, i, f)
    /\ r = Count(i) => f = Empty /\ Lock(i) \in h /\ (u = "isr" \/ IrqLine \in h)
    /\ r = Port(i) => Lock(i) \in h
    /\ o \subseteq o2 /\ o2 \subseteq Debt(i)
    /\ r = Count(i) \/ (r = Rised(i) /\ set # {}) => Silent(b, i) \/ o2 = Debt(i)

\* One of them is overwritten.
LEMMA PinsPut ==
    ASSUME NEW b, NEW u, NEW i, NEW h, NEW f, NEW o, NEW r, NEW all, NEW set, NEW o2,
           PinsPutOk(b, u, i, h, f, o, r, all, set, o2)
    PROVE  Does(b, u, h, f, o, Put(r, all, set), h, f, o2)
<1>1. /\ PinOf(b, i) /\ PinReg(b, i, r, all) /\ set \subseteq all /\ Roomy(u, i, f)
      /\ r = Count(i) => f = Empty /\ Lock(i) \in h /\ (u = "isr" \/ IrqLine \in h)
      /\ r = Port(i) => Lock(i) \in h
      /\ o \subseteq o2 /\ o2 \subseteq Debt(i)
      /\ r = Count(i) \/ (r = Rised(i) /\ set # {}) => Silent(b, i) \/ o2 = Debt(i)
  BY DEF PinsPutOk
<1>2. i \in Numbers /\ r \in Registers(b) /\ b \in {"me8100", "me8200", "me8200_ex", "me8200_do"}
  BY <1>1, PinFacts
<1>3. \A k \in f : Stable(b, u, h, k) /\ k = Room(i) BY <1>1, RoomyStays
<1>4. Fit(b, u, h, f, o)
  <2>1. o \subseteq Debt(i) BY <1>1
  <2> QED BY <2>1, <1>1, <1>3, PinFit
<1>5. MayWrite(b, u, h, r)
  <2>1. CASE r = Count(i)
    <3>1. Of(b, r) = Lock(i) BY <2>1 DEF Of, Count
    <3> QED BY <3>1, <2>1, <1>1 DEF MayWrite
  <2>2. CASE r = Port(i)
    <3>1. Of(b, r) = Lock(i) /\ ~Masked(r) BY <2>2, <1>2 DEF Of, Port, Masked
    <3> QED BY <3>1, <2>2, <1>1 DEF MayWrite
  <2>3. CASE r # Count(i) /\ r # Port(i)
    <3>1. r[1] \in {"rised", "filter", "pattern", "mask"}
      BY <2>3, <1>1 DEF PinReg, Rised, Filter, Pattern, MaskOf
    <3>2. Of(b, r) = NoLock BY <3>1 DEF Of
    <3> QED BY <3>2 DEF MayWrite
  <2> QED BY <2>1, <2>2, <2>3
<1>6. /\ \A v, w : FineAt(b, r, v, w) => FineAt(b, r, set, (w \ all) \cup set)
      /\ (\A j : r # <<"low", j>> /\ r # Resets(j)) /\ ~Shared(b, r) /\ r # MyClock /\ r # Intcsr
      /\ \A j : (r = Count(j) => j = i) /\ (r = Rised(j) => j = i)
  BY <1>1, PinFine
<1>7. Aim(b, f, r, set)
  <2>1. b # "me8100" => Ctrl \notin Registers(b)
    BY <1>2 DEF Registers, Ctrl, IrqMode, IrqCtrl, Pinned, Power, Rised, Count, Filter, Pattern,
       MaskOf, Port, Status
  <2> QED BY <2>1 DEF Aim
<1>8. \A j \in Numbers : r \in {Count(j), Resets(j)} \/ (r = Rised(j) /\ set # {}) => Owing(b, o2, j)
  BY <1>1, <1>6 DEF Owing, Debt
<1>9. ASSUME NEW R, NEW W, NEW T, NEW R2, NEW W2, Local(b, f, R, W, T), Changes(b, r, R, R2, set),
             NEW k \in f
      PROVE  Holds(b, k, R2, W2, T)
  <2>1. k = Room(i) /\ Holds(b, Room(i), R, W, T) BY <1>3, <1>9 DEF Local
  <2>2. r # Count(i) BY <1>1, <1>9, Void
  <2>3. Count(i) \in Registers(b)
    <3>1. PinReg(b, i, Count(i), AnyCount) BY DEF PinReg
    <3> QED BY <3>1, <1>1, PinFacts
  <2>4. R2[Count(i)] = R[Count(i)] BY <2>2, <2>3, <1>9 DEF Changes
  <2> QED BY <2>1, <2>4 DEF Holds, Room
<1>10. Turned \notin o2 BY <1>1 DEF Debt, Owed, Turned
<1>11. PutOk(b, u, h, f, o, r, all, set, f, o2)
  BY <1>1, <1>2, <1>4, <1>5, <1>6, <1>7, <1>8, <1>9, <1>10 DEF PutOk
<1> QED BY <1>11, DoesPut


\* The handler counts an interrupt of a pin.
LEMMA PinsBump ==
    ASSUME NEW b, NEW i, PinOf(b, i)
    PROVE  Does(b, "isr", One(i), Room1(i), Debt(i), Bump(Count(i)), One(i), Empty, Debt(i))
<1> DEFINE h == One(i)
<1> DEFINE r == Count(i)
<1> DEFINE f == Room1(i)
<1> DEFINE o == Debt(i)
<1> DEFINE s == [do |-> "bump", reg |-> r]
<1>0. PinReg(b, i, r, AnyCount) BY DEF PinReg
<1>1. b \in {"me8100", "me8200", "me8200_ex", "me8200_do"} /\ r \in Registers(b) BY <1>0, PinFacts
<1>2. Room(i) \in f /\ o \subseteq Debt(i) /\ Owed(i, {}) \in o BY DEF Room1, Debt
<1>4. r[1] = "count" /\ r[2] = i BY DEF Count
<1>5. s.do = "bump" /\ s.reg = r OBVIOUS
<1>6. Room(i)[1] = "room" /\ Room(i)[2] = r BY DEF Room
<1>3. Fit(b, "isr", h, f, o)
  <2>1. \A k \in f : Stable(b, "isr", h, k) BY RoomyStays DEF Roomy
  <2> QED BY <2>1, <1>2, PinFit
<1>7. Lock(i) \in h BY DEF One
<1>18. Turned \notin o /\ o \subseteq o BY DEF Debt, Owed, Turned
<1>9. (\A j : r # Rised(j) /\ r # Resets(j)) /\ r # MyClock /\ ~Shared(b, r) /\ r # Intcsr
      /\ \A j : r = Count(j) => j = i
  BY <1>4 DEF Rised, Count, MyClock, LineClock, Clock, Shared, Ctrl, Intcsr, Resets
<1> HIDE DEF h, r, s, f, o
<1>8. MayWrite(b, "isr", h, r) BY <1>4, <1>7 DEF MayWrite, Of
<1>10. Aimed(b, f, s) BY <1>5 DEF Aimed
<1>11. \A v, T : NewOf(s, v, T) = Next1(v) BY <1>5 DEF NewOf
<1>12. \A w : NewAsked(s, w) = Next1(w) BY <1>5 DEF NewAsked
<1>13. ASSUME NEW v, NEW w, FineAt(b, r, v, w), \A x \in v : x[2] < MaxIrqs
       PROVE  FineAt(b, r, Next1(v), Next1(w))
  <2>2. Bounded(b, r) /\ Universe(b, r) = AnyCount BY <1>4 DEF Bounded, Universe
  <2>3. Exact(b, r) BY <1>4, <1>1, <1>9 DEF Exact
  <2>4. v \subseteq AnyCount /\ w = v BY <1>13, <2>2, <2>3 DEF FineAt
  <2>5. ASSUME NEW x \in v PROVE <<x[1], x[2] + 1>> \in AnyCount
    <3>1. PICK n \in 0 .. MaxIrqs : x = <<"irqs", n>> BY <2>4, <2>5 DEF AnyCount
    <3>2. n < MaxIrqs BY <3>1, <1>13
    <3>3. n + 1 \in 0 .. MaxIrqs BY <3>2, MaxIrqsAssumption
    <3>4. <<x[1], x[2] + 1>> = <<"irqs", n + 1>> BY <3>1
    <3> QED BY <3>3, <3>4 DEF AnyCount
  <2>6. Next1(v) \subseteq AnyCount BY <2>5 DEF Next1
  <2> QED BY <1>1, <2>2, <2>4, <2>6, <1>9 DEF FineAt
<1>14. ASSUME NEW R, NEW W, NEW T, Local(b, f, R, W, T)
       PROVE  FineAt(b, r, Next1(R[r]), Next1(W[r]))
  <2>1. FineAt(b, r, R[r], W[r]) BY <1>14, <1>1 DEF Local, Fine
  <2>2. Holds(b, Room(i), R, W, T) BY <1>14, <1>2 DEF Local
  <2>3. \A x \in R[r] : x[2] < MaxIrqs BY <2>2, <1>6 DEF Holds
  <2> QED BY <2>1, <2>3, <1>13
<1>15. Sound(b, "isr", h, f, s)
  <2>1. ASSUME NEW R, NEW W, NEW T, Local(b, f, R, W, T)
        PROVE  FineAt(b, s.reg, NewOf(s, R[s.reg], T), NewAsked(s, W[s.reg]))
    BY <2>1, <1>5, <1>11, <1>12, <1>14
  <2> QED BY <2>1, <1>5, <1>9 DEF Sound
<1>16. Calm(b, s, o) BY <1>2, <1>5, <1>9 DEF Calm
<1>17. Leads(b, f, s, Empty) BY Void DEF Leads
<1>19. WriteOk(b, "isr", h, f, o, s, Empty, o)
  BY <1>1, <1>3, <1>5, <1>8, <1>9, <1>10, <1>15, <1>16, <1>17, <1>18 DEF WriteOk
<1>20. Does(b, "isr", h, f, o, <<s>>, h, Empty, o) BY <1>19, DoesWrite
<1> QED BY <1>20 DEF Bump, s, h, r, f, o

-----------------------------------------------------------------------------
(* The control registers of the ME-8200.                                   *)

CtlReg(b, i, r) == b # "me8100" /\ (r = IrqMode \/ (DiOf(b, i) /\ r = IrqCtrl))

\* A handler has no competitor: tasks mask it.
CtlOk(b, u, i, h, f, o, r) ==
    /\ PinOf(b, i) /\ CtlReg(b, i, r) /\ Roomy(u, i, f) /\ o \subseteq Debt(i)
    /\ u = "isr" \/ (Of(b, r) \in h /\ IrqLine \in h)

\* The control registers that the pins of a board share.
LEMMA CtlFacts ==
    ASSUME NEW b, NEW u, NEW i, NEW h, NEW f, NEW o, NEW r, CtlOk(b, u, i, h, f, o, r)
    PROVE  /\ r \in Registers(b) /\ MayWrite(b, u, h, r) /\ Keeps(b, u, h, r) /\ b # "me1400cd"
           /\ \A j : /\ r # <<"low", j>> /\ r # Rised(j) /\ r # Count(j) /\ r # Resets(j) /\ r # Port(j)
           /\ ~Shared(b, r) /\ Turned \notin o
           /\ \A v, w, clear, set : FineAt(b, r, v, w) => FineAt(b, r, (v \ clear) \cup set, (w \ clear) \cup set)
           /\ \A k \in f : k = Room(i)
           /\ \A c : \A k \in ({But(r, c)} \cup f) : Stable(b, u, h, k)
           /\ \A k \in f : Stable(b, u, h, k)
<1>1. /\ PinOf(b, i) /\ CtlReg(b, i, r) /\ Roomy(u, i, f) /\ o \subseteq Debt(i)
      /\ u = "isr" \/ (Of(b, r) \in h /\ IrqLine \in h)
  BY DEF CtlOk
<1>2. r \in Registers(b) /\ b \in {"me8200", "me8200_ex", "me8200_do"} BY <1>1, PinFacts DEF CtlReg
<1>3. r \in {IrqMode, IrqCtrl} BY <1>1 DEF CtlReg
<1>4. r[1] \in {"irq_mode", "irq_ctrl"} BY <1>3 DEF IrqMode, IrqCtrl
<1>5. Masked(r) /\ Handled(r) BY <1>4 DEF Masked, Handled
<1>6. Of(b, r) # NoLock BY <1>4 DEF Of, IrqModeLock, IrqCtrlLock, NoLock
<1>7. MayWrite(b, u, h, r) /\ Keeps(b, u, h, r) BY <1>1, <1>5, <1>6 DEF MayWrite, Keeps
<1>8. \A j : /\ r # <<"low", j>> /\ r # Rised(j) /\ r # Count(j) /\ r # Resets(j) /\ r # Port(j)
  BY <1>4 DEF Rised, Count, Resets, Port
<1>9. ~Shared(b, r) BY <1>4 DEF Shared, Ctrl, Intcsr
<1>10. Turned \notin o BY <1>1 DEF Debt, Owed, Turned
<1>11. Exact(b, r) /\ ~Bounded(b, r) /\ r # Intcsr BY <1>2, <1>4 DEF Exact, Bounded, Intcsr, Ctrl
<1>12. \A v, w, clear, set : FineAt(b, r, v, w) => FineAt(b, r, (v \ clear) \cup set, (w \ clear) \cup set)
  BY <1>2, <1>11 DEF FineAt
<1>13. \A k \in f : Stable(b, u, h, k) /\ k = Room(i) BY <1>1, RoomyStays
<1>14. \A c : Stable(b, u, h, But(r, c)) BY <1>2, <1>7, StableOwn
<1> QED BY <1>2, <1>7, <1>8, <1>9, <1>10, <1>12, <1>13, <1>14

\* A control register is loaded ...
LEMMA CtlLoad ==
    ASSUME NEW b, NEW u, NEW i, NEW h, NEW f, NEW o, NEW r, CtlOk(b, u, i, h, f, o, r)
    PROVE  Does(b, u, h, f, o, Load(r), h, {But(r, Empty)} \cup f, o)
<1> DEFINE f2 == {But(r, Empty)} \cup f
<1>1. r \in Registers(b) /\ Turned \notin o /\ (\A k \in f : k = Room(i) /\ Stable(b, u, h, k))
  BY CtlFacts
<1>2. Fit(b, u, h, f, o) BY <1>1, PinFit DEF CtlOk
<1>3. ASSUME NEW R, NEW W, NEW T, Local(b, f, R, W, T), NEW k \in f2
      PROVE  Holds(b, k, R, W, R[r])
  <2>1. CASE k = But(r, Empty) BY <2>1 DEF Holds, But
  <2>2. CASE k \in f
    <3>1. k = Room(i) /\ Holds(b, k, R, W, T) BY <2>2, <1>1, <1>3 DEF Local
    <3> QED BY <3>1 DEF Holds, Room
  <2> QED BY <2>1, <2>2, <1>3
<1> HIDE DEF f2
<1>4. Does(b, u, h, f, o, Load(r), h, f2, o) BY <1>1, <1>2, <1>3, DoesLoad
<1> QED BY <1>4 DEF f2

\* ... written back with bits cleared and set ...
LEMMA CtlStore ==
    ASSUME NEW b, NEW u, NEW i, NEW h, NEW f, NEW o, NEW r, CtlOk(b, u, i, h, f, o, r),
           NEW c, NEW clear, NEW set, c \subseteq clear
    PROVE  /\ Does(b, u, h, {But(r, c)} \cup f, o, Store(r, clear, set), h, {But(r, clear \cup set)} \cup f, o)
           /\ Does(b, u, h, {But(r, c)} \cup f, o, Store(r, clear, set), h, f, o)
<1> DEFINE f1 == {But(r, c)} \cup f
<1> DEFINE f2 == {But(r, clear \cup set)} \cup f
<1>1. /\ r \in Registers(b) /\ MayWrite(b, u, h, r) /\ b # "me1400cd"
      /\ \A j : /\ r # <<"low", j>> /\ r # Rised(j) /\ r # Count(j) /\ r # Resets(j) /\ r # Port(j)
      /\ ~Shared(b, r) /\ Turned \notin o
      /\ \A v, w : FineAt(b, r, v, w) => FineAt(b, r, (v \ clear) \cup set, (w \ clear) \cup set)
      /\ \A k \in f : k = Room(i)
      /\ \A k \in f1 : Stable(b, u, h, k)
  BY CtlFacts
<1>2. Fit(b, u, h, f1, o) BY <1>1, PinFit DEF CtlOk
<1>3. But(r, c) \in f1 OBVIOUS
<1>4. Aim(b, f1, r, set) BY <1>1 DEF Aim
<1>i. Count(i) \in Registers(b)
  <2>1. PinReg(b, i, Count(i), AnyCount) BY DEF PinReg
  <2> QED BY <2>1, PinFacts DEF CtlOk
<1>5. StoreOk(b, u, h, f1, o, r, c, clear, set)
  <2> HIDE DEF f1
  <2> QED BY <1>1, <1>2, <1>3, <1>4 DEF StoreOk
<1>6. ASSUME NEW R, NEW W, NEW T, NEW R2, NEW W2, Local(b, f1, R, W, T), Changes(b, r, R, R2, (R[r] \ clear) \cup set),
             NEW k \in f2
      PROVE  Holds(b, k, R2, W2, T)
  <2>1. CASE k = But(r, clear \cup set)
    <3>1. Holds(b, But(r, c), R, W, T) BY <1>3, <1>6 DEF Local
    <3>2. T \ c = R[r] \ c BY <3>1 DEF Holds, But
    <3>3. R2[r] = (R[r] \ clear) \cup set BY <1>6 DEF Changes
    <3>4. T \ (clear \cup set) = R2[r] \ (clear \cup set) BY <3>2, <3>3
    <3> QED BY <3>4, <2>1 DEF Holds, But
  <2>2. CASE k \in f
    <3>1. k = Room(i) /\ Holds(b, k, R, W, T) BY <2>2, <1>1, <1>6 DEF Local
    <3>2. r # Count(i) BY <1>1
    <3>3. R2[Count(i)] = R[Count(i)] BY <3>2, <1>i, <1>6 DEF Changes
    <3> QED BY <3>1, <3>3 DEF Holds, Room
  <2> QED BY <2>1, <2>2, <1>6
<1>7. f \subseteq f2 OBVIOUS
<1> HIDE DEF f1, f2
<1>8. StoreLeads(b, f1, r, clear, set, f2) BY <1>6 DEF StoreLeads
<1>9. StoreLeads(b, f1, r, clear, set, f) BY <1>8, <1>7 DEF StoreLeads
<1>10. Does(b, u, h, f1, o, Store(r, clear, set), h, f2, o) BY <1>5, <1>8, DoesStoreTo
<1>11. Does(b, u, h, f1, o, Store(r, clear, set), h, f, o) BY <1>5, <1>9, DoesStoreTo
<1> QED BY <1>10, <1>11 DEF f1, f2

\* ... in one go ...
LEMMA CtlRmw ==
    ASSUME NEW b, NEW u, NEW i, NEW h, NEW f, NEW o, NEW r, CtlOk(b, u, i, h, f, o, r), NEW clear, NEW set
    PROVE  Does(b, u, h, f, o, Rmw(r, clear, set), h, f, o)
<1> DEFINE f1 == {But(r, Empty)} \cup f
<1>1. Does(b, u, h, f, o, Load(r), h, f1, o) BY CtlLoad
<1>2. Empty \subseteq clear BY Void
<1>3. Does(b, u, h, f1, o, Store(r, clear, set), h, f, o) BY <1>2, CtlStore
<1> HIDE DEF f1
<1> QED BY <1>1, <1>3, DoesThen DEF Rmw

\* ... or twice, to acknowledge an interrupt.
LEMMA CtlTwice ==
    ASSUME NEW b, NEW u, NEW i, NEW h, NEW f, NEW o, NEW r, CtlOk(b, u, i, h, f, o, r),
           NEW clear, NEW set, NEW clear2, NEW set2, clear \cup set \subseteq clear2
    PROVE  /\ Does(b, u, h, f, o, Load(r) \o Store(r, clear, set) \o Store(r, clear2, set2), h, f, o)
<1> DEFINE f1 == {But(r, Empty)} \cup f
<1> DEFINE f2 == {But(r, clear \cup set)} \cup f
<1>1. Does(b, u, h, f, o, Load(r), h, f1, o) BY CtlLoad
<1>2. Empty \subseteq clear BY Void
<1>3. Does(b, u, h, f1, o, Store(r, clear, set), h, f2, o) BY <1>2, CtlStore
<1>4. Does(b, u, h, f2, o, Store(r, clear2, set2), h, f, o) BY CtlStore
<1> HIDE DEF f1, f2
<1>5. Does(b, u, h, f, o, Load(r) \o Store(r, clear, set), h, f2, o) BY <1>1, <1>3, DoesThen
<1> QED BY <1>4, <1>5, DoesThen


-----------------------------------------------------------------------------
(* Sections, tests and waits.                                              *)

\* Without facts there is nothing to rely on.
LEMMA PinsFit ==
    ASSUME NEW b, NEW i, PinOf(b, i), NEW u, NEW h, NEW o, o \subseteq Debt(i)
    PROVE  Fit(b, u, h, Empty, o)
<1>1. \A k \in Empty : Stable(b, u, h, k) BY Void
<1> QED BY <1>1, PinFit

\* A section under a lock no bond lives under, with wake-ups owed.
LEMMA PinsSection ==
    ASSUME NEW b, NEW i, PinOf(b, i), NEW u, NEW h, NEW l, l \notin h, l # IrqLine, l # CtrlLock,
           NEW o, o \subseteq Debt(i), NEW o2, o2 \subseteq Debt(i), NEW P,
           Does(b, u, h \cup {l}, Empty, o, P, h \cup {l}, Empty, o2)
    PROVE  Does(b, u, h, Empty, o, Under(l, P), h, Empty, o2)
<1>1. Bare(b, l) BY PinFacts
<1>2. Fit(b, u, h, Empty, o) /\ Fit(b, u, h \cup {l}, Empty, o2) BY PinsFit
<1>3. Empty \subseteq Empty OBVIOUS
<1> QED BY <1>1, <1>2, <1>3, DoesSection

\* A section under the pins' lock with the interrupt disabled ...
LEMMA PinsGuarded ==
    ASSUME NEW b, NEW i, PinOf(b, i), NEW o2, o2 \subseteq Debt(i), NEW P,
           Does(b, "task", Held(i), Empty, Empty, P, Held(i), Empty, o2)
    PROVE  Does(b, "task", Empty, Empty, Empty, Protect(Lock(i), P), Empty, Empty, o2)
<1>1. i \in Numbers BY PinFacts
<1>2. Lock(i) \notin Masking /\ Lock(i) # IrqLine /\ Lock(i) # CtrlLock
  BY <1>1, LineLocks DEF Lock, CtrlLock, Masking, IrqLine, Numbers
<1>3. Empty \subseteq Debt(i) BY Void
<1>4. Does(b, "task", Masking, Empty, Empty, Under(Lock(i), P), Masking, Empty, o2)
  BY <1>2, <1>3, PinsSection DEF Held
<1>5. Fit(b, "task", Masking, Empty, o2) BY PinsFit
<1> QED BY <1>4, <1>5, DoesProtect

\* ... which is harmless when it owes no wake-up.
LEMMA PinsProtect ==
    ASSUME NEW b, NEW i, PinOf(b, i), NEW P,
           Does(b, "task", Held(i), Empty, Empty, P, Held(i), Empty, Empty)
    PROVE  Harmless(b, Protect(Lock(i), P))
<1>1. Empty \subseteq Debt(i) BY Void
<1>2. Does(b, "task", Empty, Empty, Empty, Protect(Lock(i), P), Empty, Empty, Empty)
  BY <1>1, PinsGuarded
<1> QED BY <1>2, DoesAll DEF Harmless

\* The wake-up that is owed.
LEMMA PinsWake ==
    ASSUME NEW b, NEW i, PinOf(b, i), NEW u, NEW h
    PROVE  Does(b, u, h, Empty, Debt(i), Wake(i), h, Empty, Empty)
<1>1. Debt(i) \subseteq Debt(i) OBVIOUS
<1>2. Fit(b, u, h, Empty, Debt(i)) BY <1>1, PinsFit
<1>3. \A j, n : Owed(j, n) \in Debt(i) => j = i /\ n = {} BY DEF Debt, Owed
<1>4. Window \notin Debt(i) BY DEF Debt, Owed, Window
<1> QED BY <1>2, <1>3, <1>4, DoesWakeLast DEF Wake

\* A reset is harmless: the section, then the wake-up.
LEMMA PinsReset ==
    ASSUME NEW b, NEW i, PinOf(b, i), NEW P,
           Does(b, "task", Held(i), Empty, Empty, P, Held(i), Empty, Debt(i))
    PROVE  Harmless(b, Protect(Lock(i), P) \o Wake(i))
<1>1. Debt(i) \subseteq Debt(i) OBVIOUS
<1>2. Does(b, "task", Empty, Empty, Empty, Protect(Lock(i), P), Empty, Empty, Debt(i))
  BY <1>1, PinsGuarded
<1>3. Does(b, "task", Empty, Empty, Debt(i), Wake(i), Empty, Empty, Empty) BY PinsWake
<1>4. Does(b, "task", Empty, Empty, Empty, Protect(Lock(i), P) \o Wake(i), Empty, Empty, Empty)
  BY <1>2, <1>3, DoesThen
<1> QED BY <1>4, DoesAll DEF Harmless

\* A test that does not decide whether a port is written.
LEMMA PinsTest ==
    ASSUME NEW b, NEW i, PinOf(b, i), NEW u, NEW f, Roomy(u, i, f), NEW h, NEW o, NEW o2,
           o \subseteq o2, o2 \subseteq Debt(i), NEW P, \A j : ~WritesTo(j, P),
           Does(b, u, h, f, o, P, h, Empty, o2), NEW mask, NEW in
    PROVE  Does(b, u, h, f, o, Test(mask, in, P), h, Empty, o2)
<1> DEFINE s == [do |-> "test", mask |-> mask, in |-> in, body |-> P]
<1>1. s.body = P OBVIOUS
<1> HIDE DEF s
<1>2. Decides(b, f, s) BY <1>1 DEF Decides
<1>3. Fit(b, u, h, f, o)
  <2>1. \A k \in f : Stable(b, u, h, k) BY RoomyStays
  <2>2. o \subseteq Debt(i) OBVIOUS
  <2> QED BY <2>1, <2>2, PinFit
<1>4. Turned \notin o2 /\ Window \notin o2 BY DEF Debt, Owed, Turned, Window
<1>5. MarksStay(o, o) /\ MarksStay(o, o2) BY <1>4 DEF MarksStay
<1>6. \A R, W, T : Local(b, f, R, W, T) => Local(b, Empty, R, W, T) BY Void DEF Local
<1>7. Decides(b, f, [do |-> "test", mask |-> mask, in |-> in, body |-> P]) BY <1>2 DEF s
<1> QED BY <1>3, <1>5, <1>6, <1>7, DoesTest

\* The last step of a program decides.
LEMMA EndsWith ==
    ASSUME NEW P, Program(P), NEW s, (s.do \notin {"store", "put"}) \/ \A j : s.reg # Port(j)
    PROVE  \A j : ~WritesTo(j, P \o <<s>>) /\ ~WritesTo(j, <<s>>)
<1>1. Last(P \o <<s>>) = s BY LastAppended
<1>2. Last(<<s>>) = s BY DEF Last
<1> QED BY <1>1, <1>2 DEF WritesTo

\* A register of the pins is loaded ...
LEMMA PinsLoad ==
    ASSUME NEW b, NEW i, PinOf(b, i), NEW r \in Registers(b), NEW u, NEW h, NEW f, Roomy(u, i, f),
           NEW o, o \subseteq Debt(i)
    PROVE  Does(b, u, h, f, o, Load(r), h, f, o)
<1>1. \A k \in f : Stable(b, u, h, k) /\ k = Room(i) BY RoomyStays
<1>2. Fit(b, u, h, f, o) BY <1>1, PinFit
<1>3. Turned \notin o BY DEF Debt, Owed, Turned
<1>4. ASSUME NEW R, NEW W, NEW T, Local(b, f, R, W, T), NEW k \in f PROVE Holds(b, k, R, W, R[r])
  <2>1. k = Room(i) /\ Holds(b, k, R, W, T) BY <1>1, <1>4 DEF Local
  <2> QED BY <2>1 DEF Holds, Room
<1> QED BY <1>2, <1>3, <1>4, DoesLoad

\* ... or read for the caller.
LEMMA PinsRead ==
    ASSUME NEW b, NEW i, PinOf(b, i), NEW r, NEW pins, NEW u, NEW h, NEW f, Roomy(u, i, f), NEW o, o \subseteq Debt(i)
    PROVE  Does(b, u, h, f, o, Read(r, pins), h, f, o)
<1>1. \A k \in f : Stable(b, u, h, k) BY RoomyStays
<1>2. Fit(b, u, h, f, o) BY <1>1, PinFit
<1>3. Turned \notin o BY DEF Debt, Owed, Turned
<1> QED BY <1>2, <1>3, DoesRead

\* "rised" is changed at any time, but for the better only with a wake-up to follow.
LEMMA PinsRised ==
    ASSUME NEW b, NEW i, PinOf(b, i), NEW u, NEW h, NEW f, Roomy(u, i, f), NEW o, o \subseteq Debt(i)
    PROVE  /\ Does(b, u, h, f, o, SetRised(i, {}), h, f, o)
           /\ \A v : v \subseteq Up \cup Off => Does(b, u, h, f, o, SetRised(i, v), h, f, Debt(i))
           /\ \A v : v \subseteq Up \cup Off /\ Silent(b, i) => Does(b, u, h, f, o, SetRised(i, v), h, f, o)
<1>1. PinReg(b, i, Rised(i), Up \cup Off) /\ Rised(i) # Count(i) /\ Rised(i) # Port(i)
  BY DEF PinReg, Rised, Count, Port
<1>2. {} \subseteq Up \cup Off OBVIOUS
<1>3. PinsPutOk(b, u, i, h, f, o, Rised(i), Up \cup Off, {}, o) BY <1>1, <1>2 DEF PinsPutOk
<1>4. Does(b, u, h, f, o, SetRised(i, {}), h, f, o) BY <1>3, PinsPut DEF SetRised
<1>5. ASSUME NEW v, v \subseteq Up \cup Off PROVE Does(b, u, h, f, o, SetRised(i, v), h, f, Debt(i))
  <2>1. PinsPutOk(b, u, i, h, f, o, Rised(i), Up \cup Off, v, Debt(i)) BY <1>1, <1>5 DEF PinsPutOk
  <2> QED BY <2>1, PinsPut DEF SetRised
<1>6. ASSUME NEW v, v \subseteq Up \cup Off, Silent(b, i) PROVE Does(b, u, h, f, o, SetRised(i, v), h, f, o)
  <2>1. PinsPutOk(b, u, i, h, f, o, Rised(i), Up \cup Off, v, o) BY <1>1, <1>6 DEF PinsPutOk
  <2> QED BY <2>1, PinsPut DEF SetRised
<1> QED BY <1>4, <1>5, <1>6

\* The wait of an input.
LEMMA PinsWait ==
    ASSUME NEW b, NEW i, DiOf(b, i)
    PROVE  Harmless(b, WaitForPins(i))
<1>1. PinOf(b, i) BY DEF PinOf
<1>2. PinReg(b, i, Rised(i), Up \cup Off) /\ PinReg(b, i, Count(i), AnyCount) BY DEF PinReg
<1>3. Rised(i) \in Registers(b) /\ Count(i) \in Registers(b) /\ i \in Numbers
  BY <1>1, <1>2, PinFacts
<1>4. Roomy("task", i, Empty) /\ Empty \subseteq Debt(i) /\ Empty \subseteq Empty BY Void DEF Roomy
<1> DEFINE L == Load(Rised(i))
<1> DEFINE s == [do |-> "await", news |-> {Count(i)}, reg |-> Rised(i), bits |-> Off, queue |-> Queue(i),
                 late |-> Read(Rised(i), Off)]
<1> DEFINE A == SetRised(i, {}) \o Load(Count(i))
<1> DEFINE P == A \o <<s>>
<1> DEFINE S == SetRised(i, {})
<1>5. Does(b, "task", Empty, Empty, Empty, L, Empty, Empty, Empty) BY <1>1, <1>3, <1>4, PinsLoad
<1>6. Does(b, "task", Empty, Empty, Empty, S, Empty, Empty, Empty) BY <1>1, <1>4, PinsRised
<1>7. Does(b, "task", Empty, Empty, Empty, A, Empty, Empty, Empty)
  <2>1. Does(b, "task", Empty, Empty, Empty, Load(Count(i)), Empty, Empty, Empty)
    BY <1>1, <1>3, <1>4, PinsLoad
  <2> QED BY <2>1, <1>6, DoesThen
<1>8. s.do = "await" /\ s.news = {Count(i)} /\ s.reg = Rised(i) /\ s.bits = Off /\ s.queue = Queue(i) OBVIOUS
<1>9. Does(b, "task", Empty, Empty, Empty, <<s>>, Empty, Empty, Empty)
  <2>1. Does(b, "task", Empty, Empty, Empty, Read(Rised(i), Off), Empty, Empty, Empty)
    BY <1>1, <1>4, PinsRead
  <2>2. Legal(b, s)
    <3> HIDE DEF s
    <3> QED BY <1>3, <1>8 DEF Legal
  <2>3. Does(b, "task", Empty, Empty, Empty, Await({Count(i)}, Rised(i), Off, Queue(i), Read(Rised(i), Off)),
             Empty, Empty, Empty)
    BY <2>1, <2>2, DoesAwait
  <2> QED BY <2>3 DEF Await
<1>10. Await({Count(i)}, Rised(i), Off, Queue(i), Read(Rised(i), Off)) = <<s>> BY DEF Await
<1>11. Program(A) BY <1>7 DEF Does
<1>12. \A j : ~WritesTo(j, P)
  <2>1. s.do \notin {"store", "put"} BY <1>8
  <2> HIDE DEF s, A
  <2> QED BY <2>1, <1>11, EndsWith
<1>13. \A j : ~WritesTo(j, S)
  <2> DEFINE x == [do |-> "put", reg |-> Rised(i), clear |-> Up \cup Off, set |-> {}]
  <2>1. S = <<x>> BY DEF SetRised, Put
  <2>2. \A j : x.reg # Port(j) BY DEF Rised, Port
  <2> HIDE DEF x, S
  <2>3. \A j : ~WritesTo(j, <<x>>) BY <2>2, OneStep, EndsWith
  <2> QED BY <2>1, <2>3
<1>14. Does(b, "task", Empty, Empty, Empty, P, Empty, Empty, Empty) BY <1>7, <1>9, DoesThen
<1> HIDE DEF P, S, L
<1>15. /\ Does(b, "task", Empty, Empty, Empty, Test(Up, {{}}, P), Empty, Empty, Empty)
       /\ Does(b, "task", Empty, Empty, Empty, Test(Off, {{}}, S), Empty, Empty, Empty)
  BY <1>1, <1>4, <1>6, <1>12, <1>13, <1>14, PinsTest
<1>16. Does(b, "task", Empty, Empty, Empty, L \o Test(Up, {{}}, P), Empty, Empty, Empty)
  BY <1>5, <1>15, DoesThen
<1>17. Does(b, "task", Empty, Empty, Empty, L \o Test(Up, {{}}, P) \o L, Empty, Empty, Empty)
  BY <1>5, <1>16, DoesThen
<1>18. Does(b, "task", Empty, Empty, Empty, L \o Test(Up, {{}}, P) \o L \o Test(Off, {{}}, S), Empty, Empty, Empty)
  BY <1>15, <1>17, DoesThen
<1>19. WaitForPins(i) = L \o Test(Up, {{}}, P) \o L \o Test(Off, {{}}, S)
  BY <1>10 DEF WaitForPins, P, S, L
<1> QED BY <1>18, <1>19, DoesAll DEF Harmless


-----------------------------------------------------------------------------
(* The handlers of pins.                                                   *)

\* The handler counts, notes which pins rose and owes a wake-up ...
LEMMA PinsCounted ==
    ASSUME NEW b, NEW i, PinOf(b, i)
    PROVE  /\ Does(b, "isr", One(i), Room1(i), Empty, Counted(i), One(i), Empty, Debt(i))
           /\ \A j : ~WritesTo(j, Counted(i))
<1>1. Roomy("isr", i, Room1(i)) /\ Empty \subseteq Debt(i) BY Void DEF Roomy
<1>2. Up \subseteq Up \cup Off OBVIOUS
<1>3. Does(b, "isr", One(i), Room1(i), Empty, SetRised(i, Up), One(i), Room1(i), Debt(i))
  BY <1>1, <1>2, PinsRised
<1>4. Does(b, "isr", One(i), Room1(i), Debt(i), Bump(Count(i)), One(i), Empty, Debt(i)) BY PinsBump
<1>5. Does(b, "isr", One(i), Room1(i), Empty, Counted(i), One(i), Empty, Debt(i))
  BY <1>3, <1>4, DoesThen DEF Counted
<1> DEFINE s == [do |-> "bump", reg |-> Count(i)]
<1> DEFINE A == SetRised(i, Up)
<1>6. Program(A) BY <1>3 DEF Does
<1>7. Counted(i) = A \o <<s>> BY DEF Counted, Bump
<1>8. s.do \notin {"store", "put"} OBVIOUS
<1> HIDE DEF s, A
<1>9. \A j : ~WritesTo(j, A \o <<s>>) BY <1>6, <1>8, EndsWith
<1> QED BY <1>5, <1>7, <1>9

\* ... always, or only when a pin has changed.
LEMMA PinsCountedIf ==
    ASSUME NEW b, NEW i, DiOf(b, i), NEW m \in BOOLEAN
    PROVE  Does(b, "isr", One(i), Room1(i), Empty, CountedIf(i, m), One(i), Empty, Debt(i))
<1>1. PinOf(b, i) BY DEF PinOf
<1>2. Roomy("isr", i, Room1(i)) /\ Empty \subseteq Debt(i) /\ Debt(i) \subseteq Debt(i)
  BY Void DEF Roomy
<1>3. /\ Does(b, "isr", One(i), Room1(i), Empty, Counted(i), One(i), Empty, Debt(i))
      /\ \A j : ~WritesTo(j, Counted(i))
  BY <1>1, PinsCounted
<1>4. PinReg(b, i, Filter(i), Filtering) BY DEF PinReg
<1>5. Filter(i) \in Registers(b) BY <1>1, <1>4, PinFacts
<1>6. Does(b, "isr", One(i), Room1(i), Empty, Load(Filter(i)), One(i), Room1(i), Empty)
  BY <1>1, <1>2, <1>5, PinsLoad
<1> DEFINE P == Counted(i)
<1> DEFINE f == Room1(i)
<1> HIDE DEF P, f
<1>7. Does(b, "isr", One(i), f, Empty, Test(Filtering, {{}}, P), One(i), Empty, Debt(i))
  <2>1. /\ Does(b, "isr", One(i), f, Empty, P, One(i), Empty, Debt(i)) /\ Roomy("isr", i, f)
        /\ \A j : ~WritesTo(j, P)
    BY <1>2, <1>3 DEF P, f
  <2> QED BY <1>1, <1>2, <2>1, PinsTest
<1>8. Does(b, "isr", One(i), Room1(i), Empty, Load(Filter(i)) \o Test(Filtering, {{}}, Counted(i)), One(i), Empty, Debt(i))
  BY <1>6, <1>7, DoesThen DEF P, f
<1> QED BY <1>3, <1>8 DEF CountedIf

\* A handler of pins that tries for the lock and wakes up after it is safe.
LEMMA PinsHandler ==
    ASSUME NEW b, NEW i, PinOf(b, i), NEW P, NEW r, NEW bits,
           Does(b, "isr", One(i), Room1(i), Empty, P, One(i), Empty, Debt(i)),
           NEW x, x = Armed(r, bits, Try(Lock(i), P \o Give(Lock(i)) \o Wake(i)))
    PROVE  SafeHandler(b, i, x)
<1>1. i \in Numbers /\ ~Guarded(b, i) BY PinFacts
<1>2. Found(b, i) = Room1(i) BY <1>1 DEF Found
<1>3. Lock(i) \notin Empty /\ Lock(i) # IrqLine /\ Lock(i) # CtrlLock /\ One(i) = Empty \cup {Lock(i)}
  BY Void DEF One, Lock, IrqLine, CtrlLock
<1>4. Bare(b, Lock(i)) BY <1>3, PinFacts
<1>5. Debt(i) \subseteq Debt(i) /\ Empty \subseteq Debt(i) /\ Roomy("isr", i, Room1(i))
  BY Void DEF Roomy
<1>6. Does(b, "isr", One(i), Empty, Debt(i), Give(Lock(i)), Empty, Empty, Debt(i))
  <2>1. Closes(b, Empty, Lock(i), Empty) BY <1>4 DEF Closes, Bare
  <2>2. Fit(b, "isr", Empty \cup {Lock(i)}, Empty, Debt(i)) BY <1>5, PinsFit
  <2>3. Does(b, "isr", Empty \cup {Lock(i)}, Empty, Debt(i), Give(Lock(i)), Empty, Empty, Debt(i))
    BY <1>3, <2>1, <2>2, DoesGive
  <2> QED BY <2>3, <1>3
<1>7. Does(b, "isr", Empty, Empty, Debt(i), Wake(i), Empty, Empty, Empty) BY PinsWake
<1> DEFINE B == P \o Give(Lock(i)) \o Wake(i)
<1>8. Does(b, "isr", One(i), Room1(i), Empty, P \o Give(Lock(i)), Empty, Empty, Debt(i))
  BY <1>6, DoesThen
<1>9. Does(b, "isr", One(i), Room1(i), Empty, B, Empty, Empty, Empty) BY <1>7, <1>8, DoesThen
<1>11. x.program = Try(Lock(i), B) BY DEF Armed
<1> HIDE DEF B
<1>10. Does(b, "isr", Empty, Room1(i), Empty, Try(Lock(i), B), Empty, Empty, Empty)
  <2>1. Entails(b, Room1(i), Empty) BY Void DEF Entails, Local
  <2>2. Opens(b, Room1(i), Lock(i), Room1(i)) BY DEF Opens
  <2>3. Fit(b, "isr", Empty, Room1(i), Empty)
    <3>1. \A k \in Room1(i) : Stable(b, "isr", Empty, k) BY <1>5, RoomyStays
    <3> QED BY <3>1, <1>5, PinFit
  <2>4. Does(b, "isr", Empty \cup {Lock(i)}, Room1(i), Empty, B, Empty, Empty, Empty) BY <1>9, <1>3
  <2> QED BY <2>1, <2>2, <2>3, <2>4, <1>3, DoesTry
<1>12. Good(b, "isr", Empty, Found(b, i), Empty, x.program) BY <1>10, <1>11, <1>2, DoesAll
<1> QED BY <1>1, <1>12 DEF SafeHandler

-----------------------------------------------------------------------------
(* The inputs of the ME-8100.                                              *)

\* The mask, the pattern and the filter of a start are written.
LEMMA PinsArgs ==
    ASSUME NEW b, NEW i, DiOf(b, i), NEW o, o \subseteq Debt(i), NEW h
    PROVE  /\ \A v \in {0, 1, 255} : /\ Does(b, "task", h, Empty, o, SetArg(MaskOf(i), v), h, Empty, o)
                                     /\ Does(b, "task", h, Empty, o, SetArg(Pattern(i), v), h, Empty, o)
           /\ Does(b, "task", h, Empty, o, Put(Filter(i), Filtering, {}), h, Empty, o)
           /\ Does(b, "task", h, Empty, o, Put(Filter(i), Filtering, Filtering), h, Empty, o)
<1>1. PinOf(b, i) /\ Roomy("task", i, Empty) BY DEF PinOf, Roomy
<1>2. ASSUME NEW r \in {MaskOf(i), Pattern(i)}, NEW v \in {0, 1, 255}
      PROVE  Does(b, "task", h, Empty, o, SetArg(r, v), h, Empty, o)
  <2>1. PinReg(b, i, r, Arguments) BY <1>2 DEF PinReg
  <2>2. r # Count(i) /\ r # Port(i) /\ r # Rised(i) BY <1>2 DEF MaskOf, Pattern, Count, Port, Rised
  <2>3. {<<"arg", v>>} \subseteq Arguments BY <1>2 DEF Arguments
  <2>4. PinsPutOk(b, "task", i, h, Empty, o, r, Arguments, {<<"arg", v>>}, o)
    BY <1>1, <2>1, <2>2, <2>3 DEF PinsPutOk
  <2> QED BY <2>4, PinsPut DEF SetArg
<1>3. ASSUME NEW set \in {{}, Filtering}
      PROVE  Does(b, "task", h, Empty, o, Put(Filter(i), Filtering, set), h, Empty, o)
  <2>1. PinReg(b, i, Filter(i), Filtering) BY DEF PinReg
  <2>2. Filter(i) # Count(i) /\ Filter(i) # Port(i) /\ Filter(i) # Rised(i)
    BY DEF Filter, Count, Port, Rised
  <2>3. set \subseteq Filtering BY <1>3
  <2>4. PinsPutOk(b, "task", i, h, Empty, o, Filter(i), Filtering, set, o)
    BY <1>1, <2>1, <2>2, <2>3 DEF PinsPutOk
  <2> QED BY <2>4, PinsPut
<1> QED BY <1>2, <1>3

\* The count of the pins is cleared.
LEMMA PinsClearCount ==
    ASSUME NEW b, NEW i, PinOf(b, i)
    PROVE  Does(b, "task", Held(i), Empty, Debt(i), ClearCount(i), Held(i), Empty, Debt(i))
<1>1. PinReg(b, i, Count(i), AnyCount) BY DEF PinReg
<1>2. i \in Numbers BY PinFacts
<1>3. Lock(i) \in Held(i) /\ IrqLine \in Held(i) BY <1>2, LineLocks
<1>4. Zero \subseteq AnyCount BY MaxIrqsAssumption DEF Zero, AnyCount
<1>5. Count(i) # Port(i) BY DEF Count, Port
<1>6. PinsPutOk(b, "task", i, Held(i), Empty, Debt(i), Count(i), AnyCount, Zero, Debt(i))
  BY <1>1, <1>3, <1>4, <1>5 DEF PinsPutOk, Roomy
<1> QED BY <1>6, PinsPut DEF ClearCount

\* A method that is refused under a condition is harmless.
LEMMA Refuses1 ==
    ASSUME NEW b, NEW P, NEW c \in BOOLEAN, c => Harmless(b, P)
    PROVE  Harmless(b, IF c THEN P ELSE Refused)
BY Refuses

\* The inputs of the ME-8100 are safe.
LEMMA SafeMe8100Di == SafeSub("me8100", 0, me8100_di_constr(0, 0))
<1> DEFINE b == "me8100"
<1> DEFINE i == 0
<1>1. DiOf(b, i) /\ PinOf(b, i) /\ b = "me8100" /\ i = 0 BY DEF DiOf, PinOf
<1>2. NoTies(b) /\ Lock(i) # IrqLine BY <1>1, PinFacts DEF Lock, IrqLine
<1> DEFINE s == me8100_di_constr(i, 0)
<1>3. /\ s.reset = me8100_di_io_reset_subdevice(i, 0) /\ s.stop = me8100_di_io_irq_stop(i, 0) /\ s.test = <<>>
      /\ (\A a \in DOMAIN s.config : s.config[a] = me8100_di_io_single_config(i, a))
      /\ (\A a \in Access : s.read[a] = me8100_di_io_single_read(i, a))
      /\ (\A a \in Access, v \in Levels : s.write[<<a, v>>] = Refused)
      /\ (\A a \in DOMAIN s.start : a \in StartArg /\ s.start[a] = me8100_di_io_irq_start(i, 0, a))
      /\ (\A a \in DOMAIN s.wait : s.wait[a] = me8100_di_io_irq_wait(i, a))
      /\ s.irqs = {Armed(Control(0), {<<"intb", 0>>}, me8100_di_irq_handle(i, matches)) : matches \in BOOLEAN}
  BY DEF me8100_di_constr, LineMade, Made, NoMethod2, me8100_di_io_irq_test
<1> HIDE DEF b, i, s
<1> DEFINE h == Held(i)
<1>h. CtrlLock \notin h BY <1>1 DEF Held, Masking, IrqLine, Lock, CtrlLock
<1>4. Empty \subseteq Debt(i) /\ Debt(i) \subseteq Debt(i) /\ Roomy("task", i, Empty) /\ Roomy("isr", i, Room1(i))
  BY Void DEF Roomy
<1>5. \A set : set \subseteq IntB =>
        Does(b, "task", h, Empty, Empty, Under(CtrlLock, CopyOut(0, IntB, set)), h, Empty, Empty)
  BY <1>1, <1>h, CopyOutA
<1> HIDE DEF h
<1> DEFINE C(set) == Under(CtrlLock, CopyOut(0, IntB, set))
<1> DEFINE FF == Put(Filter(i), Filtering, {})
<1>6. Harmless(b, me8100_di_io_reset_subdevice(i, 0))
  <2> DEFINE A1 == C({})
  <2> DEFINE A2 == SetArg(MaskOf(i), 0)
  <2> DEFINE A3 == SetArg(Pattern(i), 0)
  <2> DEFINE A4 == SetRised(i, Off)
  <2> DEFINE A5 == ClearCount(i)
  <2>1. Does(b, "task", h, Empty, Empty, A1, h, Empty, Empty) BY <1>5
  <2>2. Does(b, "task", h, Empty, Empty, A2, h, Empty, Empty) /\ Does(b, "task", h, Empty, Empty, A3, h, Empty, Empty)
    BY <1>1, <1>4, PinsArgs
  <2>3. Does(b, "task", h, Empty, Empty, A4, h, Empty, Debt(i)) BY <1>1, <1>4, PinsRised
  <2>4. Does(b, "task", h, Empty, Debt(i), A5, h, Empty, Debt(i)) BY <1>1, PinsClearCount DEF h
  <2>5. Does(b, "task", h, Empty, Debt(i), FF, h, Empty, Debt(i)) BY <1>1, <1>4, PinsArgs
  <2>6. me8100_di_io_reset_subdevice(i, 0)
         = Protect(Lock(i), A1 \o A2 \o A3 \o A4 \o A5 \o FF) \o Wake(i)
    BY DEF me8100_di_io_reset_subdevice
  <2> HIDE DEF A1, A2, A3, A4, A5, FF, C
  <2>7. Does(b, "task", h, Empty, Empty, A1 \o A2, h, Empty, Empty) BY <2>1, <2>2, DoesThen
  <2>8. Does(b, "task", h, Empty, Empty, A1 \o A2 \o A3, h, Empty, Empty) BY <2>2, <2>7, DoesThen
  <2>9. Does(b, "task", h, Empty, Empty, A1 \o A2 \o A3 \o A4, h, Empty, Debt(i))
    BY <2>3, <2>8, DoesThen
  <2>10. Does(b, "task", h, Empty, Empty, A1 \o A2 \o A3 \o A4 \o A5, h, Empty, Debt(i))
    BY <2>4, <2>9, DoesThen
  <2>11. Does(b, "task", h, Empty, Empty, A1 \o A2 \o A3 \o A4 \o A5 \o FF, h, Empty, Debt(i))
    BY <2>5, <2>10, DoesThen
  <2> QED BY <2>6, <2>11, <1>1, PinsReset DEF h
<1>7. ASSUME NEW a \in StartArg
      PROVE  Harmless(b, me8100_di_io_irq_start(i, 0, a))
  <2>1. CASE ~PinStart(a, {"any"}, "word") BY <2>1, Refuses DEF me8100_di_io_irq_start
  <2>2. CASE PinStart(a, {"any"}, "word")
    <3>1. a.arg \in {0, 1, 255} BY DEF StartArg
    <3> DEFINE by == a.source = "pattern"
    <3> DEFINE A1 == IF by THEN SetArg(Pattern(i), a.arg)
                                \o Put(Filter(i), Filtering, IF a.flag = "filter" THEN Filtering ELSE {})
                     ELSE SetArg(MaskOf(i), a.arg)
    <3> DEFINE A2 == C(IF by THEN {<<"intb", 0>>} ELSE IntB)
    <3> DEFINE A3 == SetRised(i, {})
    <3>2. Does(b, "task", h, Empty, Empty, A1, h, Empty, Empty)
      <4>1. /\ Does(b, "task", h, Empty, Empty, SetArg(Pattern(i), a.arg), h, Empty, Empty)
            /\ Does(b, "task", h, Empty, Empty, SetArg(MaskOf(i), a.arg), h, Empty, Empty)
        BY <1>1, <1>4, <3>1, PinsArgs
      <4>2. Does(b, "task", h, Empty, Empty, Put(Filter(i), Filtering, IF a.flag = "filter" THEN Filtering ELSE {}),
                 h, Empty, Empty)
        <5>1. CASE a.flag = "filter" BY <5>1, <1>1, <1>4, PinsArgs
        <5>2. CASE a.flag # "filter" BY <5>2, <1>1, <1>4, PinsArgs
        <5> QED BY <5>1, <5>2
      <4>3. Does(b, "task", h, Empty, Empty,
                 SetArg(Pattern(i), a.arg) \o Put(Filter(i), Filtering, IF a.flag = "filter" THEN Filtering ELSE {}),
                 h, Empty, Empty)
        BY <4>1, <4>2, DoesThen
      <4> QED BY <4>1, <4>3
    <3>3. Does(b, "task", h, Empty, Empty, A2, h, Empty, Empty)
      <4>1. (IF by THEN {<<"intb", 0>>} ELSE IntB) \subseteq IntB BY DEF IntB
      <4> QED BY <4>1, <1>5
    <3>4. Does(b, "task", h, Empty, Empty, A3, h, Empty, Empty) BY <1>1, <1>4, PinsRised
    <3>5. me8100_di_io_irq_start(i, 0, a) = Protect(Lock(i), A1 \o A2 \o A3)
      BY <2>2 DEF me8100_di_io_irq_start
    <3> HIDE DEF A1, A2, A3, C
    <3>6. Does(b, "task", h, Empty, Empty, A1 \o A2, h, Empty, Empty) BY <3>2, <3>3, DoesThen
    <3>7. Does(b, "task", h, Empty, Empty, A1 \o A2 \o A3, h, Empty, Empty) BY <3>4, <3>6, DoesThen
    <3> QED BY <3>5, <3>7, <1>1, PinsProtect DEF h
  <2> QED BY <2>1, <2>2
<1>8. ASSUME NEW a PROVE Harmless(b, me8100_di_io_irq_wait(i, a))
  BY <1>1, PinsWait, Refuses DEF me8100_di_io_irq_wait
<1>9. Harmless(b, me8100_di_io_irq_stop(i, 0))
  <2> DEFINE A1 == C({})
  <2> DEFINE A2 == SetRised(i, {})
  <2>1. Does(b, "task", h, Empty, Empty, A1, h, Empty, Empty) BY <1>5
  <2>2. Does(b, "task", h, Empty, Empty, A2, h, Empty, Empty) BY <1>1, <1>4, PinsRised
  <2>3. Does(b, "task", h, Empty, Empty, FF, h, Empty, Empty) BY <1>1, <1>4, PinsArgs
  <2>4. me8100_di_io_irq_stop(i, 0) = Protect(Lock(i), A1 \o A2 \o FF) BY DEF me8100_di_io_irq_stop
  <2> HIDE DEF A1, A2, FF, C
  <2>5. Does(b, "task", h, Empty, Empty, A1 \o A2, h, Empty, Empty) BY <2>1, <2>2, DoesThen
  <2>6. Does(b, "task", h, Empty, Empty, A1 \o A2 \o FF, h, Empty, Empty) BY <2>3, <2>5, DoesThen
  <2> QED BY <2>4, <2>6, <1>1, PinsProtect DEF h
<1>10. ASSUME NEW a PROVE Harmless(b, me8100_di_io_single_read(i, a))
  BY <1>2, PlainRead, HarmlessPins DEF me8100_di_io_single_read
<1>11. ASSUME NEW a PROVE Harmless(b, me8100_di_io_single_config(i, a))
  BY Refuses DEF me8100_di_io_single_config
<1>12. ASSUME NEW m \in BOOLEAN, NEW x, x = Armed(Control(0), {<<"intb", 0>>}, me8100_di_irq_handle(i, m))
       PROVE  SafeHandler(b, i, x)
  <2> DEFINE A == Read(Port(i), Pins(16))
  <2> DEFINE P == A \o CountedIf(i, m)
  <2>1. Does(b, "isr", One(i), Room1(i), Empty, A, One(i), Room1(i), Empty) BY <1>1, <1>4, PinsRead
  <2>2. Does(b, "isr", One(i), Room1(i), Empty, CountedIf(i, m), One(i), Empty, Debt(i))
    BY <1>1, PinsCountedIf
  <2>3. Does(b, "isr", One(i), Room1(i), Empty, P, One(i), Empty, Debt(i)) BY <2>1, <2>2, DoesThen
  <2>4. me8100_di_irq_handle(i, m) = Try(Lock(i), P \o Give(Lock(i)) \o Wake(i))
    BY DEF me8100_di_irq_handle
  <2> HIDE DEF P
  <2> QED BY <1>1, <1>12, <2>3, <2>4, PinsHandler
<1>13. \A x \in s.irqs : SafeHandler(b, i, x) BY <1>3, <1>12
<1>14. SafeSub(b, i, s) BY <1>3, <1>6, <1>7, <1>8, <1>9, <1>10, <1>11, <1>13, Refuses DEF SafeSub
<1> QED BY <1>14 DEF s, b, i


-----------------------------------------------------------------------------
(* The inputs of the ME-8200.                                              *)

\* A task changes a control register under its lock, with the interrupt masked.
LEMMA CtlUnder ==
    ASSUME NEW b, NEW i, PinOf(b, i), NEW r, CtlReg(b, i, r), NEW l, l = Of(b, r)
    PROVE  /\ \A clear, set :
                Does(b, "task", Held(i), Empty, Empty, Under(l, Rmw(r, clear, set)), Held(i), Empty, Empty)
           /\ \A clear, set, clear2, set2 : clear \cup set \subseteq clear2 =>
                Does(b, "task", Held(i), Empty, Empty,
                     Under(l, Load(r) \o Store(r, clear, set) \o Store(r, clear2, set2)), Held(i), Empty, Empty)
<1> DEFINE h == Held(i)
<1> DEFINE g == h \cup {l}
<1>1. i \in Numbers /\ Empty \subseteq Debt(i) BY PinFacts, Void
<1>2. l \in {IrqModeLock, IrqCtrlLock} BY DEF CtlReg, Of, IrqMode, IrqCtrl
<1>3. l \notin h /\ l # IrqLine /\ l # CtrlLock /\ IrqLine \in h
  BY <1>1, <1>2 DEF Held, Masking, IrqLine, Lock, CtrlLock, IrqModeLock, IrqCtrlLock, Numbers
<1>4. CtlOk(b, "task", i, g, Empty, Empty, r) BY <1>1, <1>3 DEF CtlOk, Roomy
<1> HIDE DEF g, h
<1>5. \A clear, set : Does(b, "task", g, Empty, Empty, Rmw(r, clear, set), g, Empty, Empty)
  BY <1>4, CtlRmw
<1>6. ASSUME NEW clear, NEW set, NEW clear2, NEW set2, clear \cup set \subseteq clear2
      PROVE  Does(b, "task", g, Empty, Empty, Load(r) \o Store(r, clear, set) \o Store(r, clear2, set2), g, Empty, Empty)
  BY <1>4, <1>6, CtlTwice
<1>7. ASSUME NEW P, Does(b, "task", g, Empty, Empty, P, g, Empty, Empty)
      PROVE  Does(b, "task", h, Empty, Empty, Under(l, P), h, Empty, Empty)
  BY <1>1, <1>3, <1>7, PinsSection DEF g
<1>8. ASSUME NEW clear, NEW set
      PROVE  Does(b, "task", h, Empty, Empty, Under(l, Rmw(r, clear, set)), h, Empty, Empty)
  BY <1>5, <1>7
<1>9. ASSUME NEW clear, NEW set, NEW clear2, NEW set2, clear \cup set \subseteq clear2
      PROVE  Does(b, "task", h, Empty, Empty, Under(l, Load(r) \o Store(r, clear, set) \o Store(r, clear2, set2)),
                  h, Empty, Empty)
  BY <1>6, <1>9, <1>7
<1> QED BY <1>8, <1>9 DEF h

\* Both handlers of the ME-8200's inputs are safe.
LEMMA DiHandlers ==
    ASSUME NEW b, b # "me8100", NEW i, DiOf(b, i), NEW m \in BOOLEAN,
           NEW x, \/ x = Armed(IrqCtrl, PinEn(i), me8200_di_irq_handle(i, m))
                  \/ x = Armed(IrqCtrl, PinEn(i), me8200_di_irq_handle_EX(i, m))
    PROVE  SafeHandler(b, i, x)
<1> DEFINE f == Room1(i)
<1> DEFINE h == One(i)
<1>1. PinOf(b, i) /\ CtlReg(b, i, IrqCtrl) BY DEF PinOf, CtlReg
<1>2. Roomy("isr", i, f) /\ Empty \subseteq Debt(i) BY Void DEF Roomy
<1>3. CtlOk(b, "isr", i, h, f, Empty, IrqCtrl) BY <1>1, <1>2 DEF CtlOk
<1> DEFINE c == PinClear(i)
<1> DEFINE A1 == Load(IrqCtrl) \o Store(IrqCtrl, c, c) \o Store(IrqCtrl, c, {})
<1> DEFINE A2 == Read(Port(i), Pins(8))
<1> DEFINE A3 == CountedIf(i, m)
<1>4. Does(b, "isr", h, f, Empty, A1, h, f, Empty)
  <2>1. c \cup c \subseteq c OBVIOUS
  <2> HIDE DEF c, f, h
  <2> QED BY <2>1, <1>3, CtlTwice
<1>5. Does(b, "isr", h, f, Empty, A2, h, f, Empty) BY <1>1, <1>2, PinsRead
<1>6. Does(b, "isr", h, f, Empty, A3, h, Empty, Debt(i)) BY PinsCountedIf
<1>7. me8200_di_irq_handle(i, m) = Try(Lock(i), (A1 \o A2 \o A3) \o Give(Lock(i)) \o Wake(i))
  BY DEF me8200_di_irq_handle
<1>8. me8200_di_irq_handle_EX(i, m) = Try(Lock(i), A3 \o Give(Lock(i)) \o Wake(i))
  BY DEF me8200_di_irq_handle_EX
<1>9. Does(b, "isr", h, f, Empty, A1 \o A2 \o A3, h, Empty, Debt(i))
  <2> HIDE DEF A1, A2, A3, f, h
  <2>1. Does(b, "isr", h, f, Empty, A1 \o A2, h, f, Empty) BY <1>4, <1>5, DoesThen
  <2> QED BY <2>1, <1>6, DoesThen
<1> HIDE DEF A1, A2, A3
<1>10. CASE x = Armed(IrqCtrl, PinEn(i), me8200_di_irq_handle(i, m))
  <2> DEFINE P == A1 \o A2 \o A3
  <2>1. x = Armed(IrqCtrl, PinEn(i), Try(Lock(i), P \o Give(Lock(i)) \o Wake(i))) BY <1>7, <1>10
  <2>2. Does(b, "isr", One(i), Room1(i), Empty, P, One(i), Empty, Debt(i)) BY <1>9
  <2> HIDE DEF P
  <2> QED BY <2>1, <2>2, <1>1, PinsHandler
<1>11. CASE x = Armed(IrqCtrl, PinEn(i), me8200_di_irq_handle_EX(i, m))
  <2>1. x = Armed(IrqCtrl, PinEn(i), Try(Lock(i), A3 \o Give(Lock(i)) \o Wake(i))) BY <1>8, <1>11
  <2> QED BY <2>1, <1>6, <1>1, PinsHandler
<1> QED BY <1>10, <1>11

\* The start of the ME-8200's inputs is harmless.
LEMMA DiStart ==
    ASSUME NEW b, b # "me8100", NEW i, DiOf(b, i), NEW a \in StartArg
    PROVE  Harmless(b, me8200_di_io_irq_start(i, a))
<1>1. PinOf(b, i) /\ CtlReg(b, i, IrqCtrl) /\ CtlReg(b, i, IrqMode) BY DEF PinOf, CtlReg
<1>2. Roomy("task", i, Empty) /\ Empty \subseteq Debt(i) BY Void DEF Roomy
<1>3. Of(b, IrqCtrl) = IrqCtrlLock /\ Of(b, IrqMode) = IrqModeLock BY DEF Of, IrqCtrl, IrqMode
<1>4. CASE ~PinStart(a, {"rising", "falling", "any"}, "byte")
  BY <1>4, Refuses DEF me8200_di_io_irq_start
<1>5. CASE PinStart(a, {"rising", "falling", "any"}, "byte")
  <2> DEFINE by == a.source = "pattern"
  <2> DEFINE edges == IF by THEN {} ELSE PinEdge(i)
  <2> DEFINE edge == IF by THEN {} ELSE PinEdges(i, a.edge)
  <2> DEFINE bits == edges \cup PinEn(i) \cup PinClear(i)
  <2> DEFINE set1 == PinEn(i) \cup PinClear(i) \cup edge
  <2> DEFINE set2 == PinEn(i) \cup edge
  <2> DEFINE h == Held(i)
  <2> DEFINE A1 == Put(Filter(i), Filtering, {})
  <2> DEFINE B1 == SetArg(Pattern(i), a.arg)
  <2> DEFINE B2 == SetArg(MaskOf(i), 255)
  <2> DEFINE B3 == IF a.flag = "filter" THEN Put(Filter(i), Filtering, Filtering) ELSE <<>>
  <2> DEFINE A2 == IF by THEN B1 \o B2 \o B3 ELSE SetArg(MaskOf(i), a.arg)
  <2> DEFINE A3 == Under(IrqModeLock, Rmw(IrqMode, Compare(i), IF by THEN Compare(i) ELSE {}))
  <2> DEFINE A4 == Under(IrqCtrlLock, Load(IrqCtrl) \o Store(IrqCtrl, bits, set1) \o Store(IrqCtrl, bits, set2))
  <2> DEFINE A5 == Read(Port(i), Pins(8))
  <2> DEFINE A6 == SetRised(i, {})
  <2>1. a.arg \in {0, 1, 255} /\ 255 \in {0, 1, 255} BY DEF StartArg
  <2>2. bits \cup set1 \subseteq bits
    <3>1. edge \subseteq edges
      <4>1. CASE by BY <4>1
      <4>2. CASE ~by
        <5>1. a.edge \in {"rising", "falling", "any"} BY <1>5, <4>2 DEF PinStart, Starts
        <5>2. PinEdges(i, a.edge) \subseteq PinEdge(i) BY <5>1 DEF PinEdges, PinEdge
        <5> QED BY <5>2, <4>2
      <4> QED BY <4>1, <4>2
    <3> HIDE DEF edge, edges
    <3> QED BY <3>1
  <2>3. me8200_di_io_irq_start(i, a) = Protect(Lock(i), A1 \o A2 \o A3 \o A4 \o A5 \o A6)
    BY <1>5 DEF me8200_di_io_irq_start
  <2> HIDE DEF bits, set1, set2, by
  <2>4. Does(b, "task", h, Empty, Empty, A1, h, Empty, Empty) BY <1>2, PinsArgs
  <2>5. Does(b, "task", h, Empty, Empty, A2, h, Empty, Empty)
    <3>1. Does(b, "task", h, Empty, Empty, B1, h, Empty, Empty) BY <1>2, <2>1, PinsArgs
    <3>2. Does(b, "task", h, Empty, Empty, B2, h, Empty, Empty) BY <1>2, <2>1, PinsArgs
    <3>3. Does(b, "task", h, Empty, Empty, B3, h, Empty, Empty)
      <4>1. CASE a.flag = "filter" BY <4>1, <1>2, PinsArgs
      <4>2. CASE a.flag # "filter" BY <4>2, DoesNothing
      <4> QED BY <4>1, <4>2
    <3>4. Does(b, "task", h, Empty, Empty, SetArg(MaskOf(i), a.arg), h, Empty, Empty)
      BY <1>2, <2>1, PinsArgs
    <3> HIDE DEF B1, B2, B3, h
    <3>5. Does(b, "task", h, Empty, Empty, B1 \o B2, h, Empty, Empty) BY <3>1, <3>2, DoesThen
    <3>6. Does(b, "task", h, Empty, Empty, B1 \o B2 \o B3, h, Empty, Empty) BY <3>3, <3>5, DoesThen
    <3> QED BY <3>4, <3>6
  <2>6. Does(b, "task", h, Empty, Empty, A3, h, Empty, Empty) BY <1>1, <1>3, CtlUnder
  <2>7. Does(b, "task", h, Empty, Empty, A4, h, Empty, Empty) BY <1>1, <1>3, <2>2, CtlUnder
  <2>8. Does(b, "task", h, Empty, Empty, A5, h, Empty, Empty) BY <1>1, <1>2, PinsRead
  <2>9. Does(b, "task", h, Empty, Empty, A6, h, Empty, Empty) BY <1>1, <1>2, PinsRised
  <2> HIDE DEF A1, A2, A3, A4, A5, A6, h
  <2>10. Does(b, "task", h, Empty, Empty, A1 \o A2, h, Empty, Empty) BY <2>4, <2>5, DoesThen
  <2>11. Does(b, "task", h, Empty, Empty, A1 \o A2 \o A3, h, Empty, Empty) BY <2>6, <2>10, DoesThen
  <2>12. Does(b, "task", h, Empty, Empty, A1 \o A2 \o A3 \o A4, h, Empty, Empty)
    BY <2>7, <2>11, DoesThen
  <2>13. Does(b, "task", h, Empty, Empty, A1 \o A2 \o A3 \o A4 \o A5, h, Empty, Empty)
    BY <2>8, <2>12, DoesThen
  <2>14. Does(b, "task", h, Empty, Empty, A1 \o A2 \o A3 \o A4 \o A5 \o A6, h, Empty, Empty)
    BY <2>9, <2>13, DoesThen
  <2> QED BY <2>3, <2>14, <1>1, PinsProtect DEF h
<1> QED BY <1>4, <1>5

\* The inputs of the ME-8200 are safe.
LEMMA SafeMe8200Di ==
    ASSUME NEW b, b # "me8100", NEW i, DiOf(b, i), NEW version
    PROVE  SafeSub(b, i, me8200_di_constr(i, version))
<1>1. PinOf(b, i) /\ CtlReg(b, i, IrqCtrl) /\ CtlReg(b, i, IrqMode) BY DEF PinOf, CtlReg
<1>2. Roomy("task", i, Empty) /\ Empty \subseteq Debt(i) /\ Debt(i) \subseteq Debt(i)
  BY Void DEF Roomy
<1>3. Of(b, IrqCtrl) = IrqCtrlLock BY DEF Of, IrqCtrl
<1>4. NoTies(b) /\ Silent(b, i) BY <1>1, PinFacts DEF DiOf, Silent
<1> DEFINE s == me8200_di_constr(i, version)
<1>5. /\ s.reset = me8200_di_io_reset_subdevice(i) /\ s.stop = me8200_di_io_irq_stop(i) /\ s.test = <<>>
      /\ (\A a \in DOMAIN s.config : s.config[a] = me8200_di_io_single_config(i, a))
      /\ (\A a \in Access : s.read[a] = me8200_di_io_single_read(i, a))
      /\ (\A a \in Access, v \in Levels : s.write[<<a, v>>] = Refused)
      /\ (\A a \in DOMAIN s.start : a \in StartArg /\ s.start[a] = me8200_di_io_irq_start(i, a))
      /\ (\A a \in DOMAIN s.wait : s.wait[a] = me8200_di_io_irq_wait(i, a))
      /\ \A x \in s.irqs : \E m \in BOOLEAN :
           \/ x = Armed(IrqCtrl, PinEn(i), me8200_di_irq_handle(i, m))
           \/ x = Armed(IrqCtrl, PinEn(i), me8200_di_irq_handle_EX(i, m))
  BY DEF me8200_di_constr, LineMade, Made, NoMethod2, me8200_di_io_irq_test
<1> HIDE DEF s
<1> DEFINE h == Held(i)
<1>6. Does(b, "task", h, Empty, Empty, DisablePins(i), h, Empty, Empty)
  <2>1. PinEn(i) \cup PinEn(i) \subseteq PinEn(i) \cup PinClear(i) OBVIOUS
  <2> QED BY <2>1, <1>1, <1>3, CtlUnder DEF DisablePins
<1> HIDE DEF h
<1> DEFINE D == DisablePins(i)
<1> DEFINE FF == Put(Filter(i), Filtering, {})
<1> DEFINE A4 == SetRised(i, Off)
<1>o. Off \subseteq Up \cup Off OBVIOUS
<1>7. Harmless(b, me8200_di_io_reset_subdevice(i))
  <2> DEFINE A5 == ClearCount(i)
  <2>1. Does(b, "task", h, Empty, Empty, A4, h, Empty, Debt(i)) BY <1>1, <1>2, <1>o, PinsRised
  <2>2. Does(b, "task", h, Empty, Debt(i), FF, h, Empty, Debt(i)) BY <1>1, <1>2, PinsArgs
  <2>3. Does(b, "task", h, Empty, Debt(i), A5, h, Empty, Debt(i)) BY <1>1, PinsClearCount DEF h
  <2>4. me8200_di_io_reset_subdevice(i) = Protect(Lock(i), D \o A4 \o FF \o A5) \o Wake(i)
    BY DEF me8200_di_io_reset_subdevice
  <2> HIDE DEF D, A4, A5, FF
  <2>5. Does(b, "task", h, Empty, Empty, D \o A4, h, Empty, Debt(i)) BY <1>6, <2>1, DoesThen DEF D
  <2>6. Does(b, "task", h, Empty, Empty, D \o A4 \o FF, h, Empty, Debt(i)) BY <2>2, <2>5, DoesThen
  <2>7. Does(b, "task", h, Empty, Empty, D \o A4 \o FF \o A5, h, Empty, Debt(i))
    BY <2>3, <2>6, DoesThen
  <2> QED BY <2>4, <2>7, <1>1, PinsReset DEF h
<1>8. ASSUME NEW a PROVE Harmless(b, me8200_di_io_irq_wait(i, a))
  BY PinsWait, Refuses DEF me8200_di_io_irq_wait
<1>9. Harmless(b, me8200_di_io_irq_stop(i))
  <2>1. Does(b, "task", h, Empty, Empty, A4, h, Empty, Empty) BY <1>1, <1>2, <1>4, <1>o, PinsRised
  <2>2. Does(b, "task", h, Empty, Empty, FF, h, Empty, Empty) BY <1>1, <1>2, PinsArgs
  <2>4. me8200_di_io_irq_stop(i) = Protect(Lock(i), D \o A4 \o FF) BY DEF me8200_di_io_irq_stop
  <2> HIDE DEF D, A4, FF
  <2>5. Does(b, "task", h, Empty, Empty, D \o A4, h, Empty, Empty) BY <1>6, <2>1, DoesThen DEF D
  <2>6. Does(b, "task", h, Empty, Empty, D \o A4 \o FF, h, Empty, Empty) BY <2>2, <2>5, DoesThen
  <2> QED BY <2>4, <2>6, <1>1, PinsProtect DEF h
<1>10. ASSUME NEW a PROVE Harmless(b, me8200_di_io_single_read(i, a))
  BY <1>4, PlainRead, HarmlessPins DEF me8200_di_io_single_read
<1>11. ASSUME NEW a PROVE Harmless(b, me8200_di_io_single_config(i, a))
  BY Refuses DEF me8200_di_io_single_config
<1>12. \A x \in s.irqs : SafeHandler(b, i, x) BY <1>5, DiHandlers
<1>13. \A a \in DOMAIN s.start : Harmless(b, s.start[a]) BY <1>5, DiStart
<1> QED BY <1>5, <1>7, <1>8, <1>9, <1>10, <1>11, <1>12, <1>13, Refuses DEF SafeSub, s


-----------------------------------------------------------------------------
(* The outputs of the ME-8200, which may get too hot.                      *)

\* A write: under the lock of the outputs only.
LEMMA DoWrites ==
    ASSUME NEW b, NEW i, DoOf(b, i), NEW pins, NEW set, set \subseteq Pins(8)
    PROVE  Harmless(b, Under(Lock(i), Rmw(Port(i), pins, set)))
<1> DEFINE r == Port(i)
<1> DEFINE h == One(i)
<1>1. PinOf(b, i) /\ PinReg(b, i, r, Pins(8)) BY DEF PinOf, PinReg
<1>2. r \in Registers(b) /\ NoTies(b) /\ Bare(b, Lock(i)) /\ b \in {"me8200", "me8200_do"}
  BY <1>1, PinFacts DEF Lock, CtrlLock, DoOf
<1>3. MayWrite(b, "task", h, r) /\ Keeps(b, "task", h, r)
  <2>1. Of(b, r) = Lock(i) /\ Lock(i) # NoLock BY <1>2 DEF Of, Port, Lock, NoLock
  <2>2. ~Masked(r) /\ ~Handled(r) BY DEF Masked, Handled, Port
  <2>3. Lock(i) \in h BY DEF One
  <2> QED BY <2>1, <2>2, <2>3 DEF MayWrite, Keeps
<1>4. /\ \A j : r # <<"low", j>> /\ r # Rised(j) /\ r # Count(j) /\ r # Resets(j)
      /\ ~Shared(b, r) /\ b # "me1400cd"
  BY <1>2 DEF Port, Rised, Count, Resets, Shared, Ctrl, Intcsr
<1>5. \A v, w : FineAt(b, r, v, w) => FineAt(b, r, (v \ pins) \cup set, (w \ pins) \cup set)
  <2>1. Bounded(b, r) /\ Universe(b, r) = Pins(8) /\ Exact(b, r)
    BY <1>2 DEF Bounded, Universe, Exact, Port
  <2>2. ASSUME NEW v, NEW w, FineAt(b, r, v, w)
        PROVE  FineAt(b, r, (v \ pins) \cup set, (w \ pins) \cup set)
    <3>1. v \subseteq Pins(8) /\ w = v BY <2>1, <2>2 DEF FineAt
    <3>2. (v \ pins) \cup set \subseteq Pins(8) BY <3>1
    <3>3. r # Intcsr BY DEF Port, Intcsr
    <3> QED BY <3>1, <3>2, <3>3, <2>1, <1>2 DEF FineAt
  <2> QED BY <2>2
<1>6. Ctrl \notin Registers(b)
  BY <1>2 DEF Registers, Ctrl, IrqMode, IrqCtrl, Pinned, Power, Rised, Count, Filter, Pattern,
     MaskOf, Port, Status
<1>7. Does(b, "task", h, Empty, Empty, Rmw(r, pins, set), h, Empty, Empty)
  <2> DEFINE f1 == {But(r, Empty)} \cup Empty
  <2>1. \A x \in f1 : Stable(b, "task", h, x) BY <1>2, <1>3, StableOwn, Void
  <2>2. But(r, Empty) \in f1 /\ Empty \subseteq pins /\ Turned \notin Empty BY Void
  <2>3. f1 = {But(r, Empty)} \cup Empty BY DEF f1
  <2> HIDE DEF f1, h, r
  <2>4. Fit(b, "task", h, f1, Empty) BY <1>2, <2>1, FitFree
  <2>5. Aim(b, f1, r, set) BY <1>6 DEF Aim
  <2>6. StoreOk(b, "task", h, f1, Empty, r, Empty, pins, set)
    BY <1>2, <1>3, <1>4, <1>5, <2>2, <2>4, <2>5 DEF StoreOk
  <2>7. \A x \in Empty : \A R, W, T, T2 : Holds(b, x, R, W, T) => Holds(b, x, R, W, T2) BY Void
  <2>8. Empty \subseteq {But(r, pins \cup set)} BY Void
  <2>9. Fit(b, "task", h, Empty, Empty) BY <1>2, Void, FitFree
  <2> QED BY <2>3, <2>6, <2>7, <2>8, <2>9, DoesRmw
<1>8. Lock(i) # IrqLine BY DEF Lock, IrqLine
<1>9. One(i) = Empty \cup {Lock(i)} BY DEF One
<1>10. Does(b, "task", Empty \cup {Lock(i)}, Empty, Empty, Rmw(r, pins, set), Empty \cup {Lock(i)}, Empty, Empty)
  BY <1>7, <1>9
<1> HIDE DEF r
<1>11. \A k \in Empty : Stable(b, "task", Empty \cup {Lock(i)}, k) BY Void
<1>12. Good(b, "task", Empty, Empty, Empty, Under(Lock(i), Rmw(r, pins, set)))
  BY <1>2, <1>8, <1>10, <1>11, PlainAlone
<1> QED BY <1>12 DEF Harmless, r

\* The handler of the over-temperature interrupt.
LEMMA DoHandler ==
    ASSUME NEW b, b # "me8100", NEW i, DoOf(b, i)
    PROVE  SafeHandler(b, i, Armed(IrqMode, PowerEn(i), me8200_do_irq_handle(i)))
<1>1. PinOf(b, i) /\ CtlReg(b, i, IrqMode) BY DEF PinOf, CtlReg
<1> DEFINE h == One(i)
<1> DEFINE o == Debt(i)
<1>2. Roomy("isr", i, Empty) /\ Debt(i) \subseteq Debt(i) BY DEF Roomy
<1>3. CtlOk(b, "isr", i, h, Empty, o, IrqMode) BY <1>1, <1>2 DEF CtlOk
<1> DEFINE c == PowerClear(i)
<1> DEFINE f1 == {But(IrqMode, Empty)} \cup Empty
<1> DEFINE f2 == {But(IrqMode, c \cup c)} \cup Empty
<1> DEFINE A1 == Counted(i)
<1> DEFINE A2 == Load(IrqMode)
<1> DEFINE A3 == Store(IrqMode, c, c)
<1> DEFINE A4 == Store(IrqMode, c, {})
<1>4. Does(b, "isr", h, Room1(i), Empty, A1, h, Empty, o) BY <1>1, PinsCounted
<1>5. Does(b, "isr", h, Empty, o, A2, h, f1, o) BY <1>3, CtlLoad
<1>6. Does(b, "isr", h, f1, o, A3, h, f2, o)
  <2>1. Empty \subseteq c BY Void
  <2> HIDE DEF c, h, o
  <2> QED BY <2>1, <1>3, CtlStore
<1>7. Does(b, "isr", h, f2, o, A4, h, Empty, o)
  <2>1. c \cup c \subseteq c OBVIOUS
  <2> HIDE DEF c, h, o
  <2> QED BY <2>1, <1>3, CtlStore
<1>8. me8200_do_irq_handle(i) = Try(Lock(i), (A1 \o A2 \o A3 \o A4) \o Give(Lock(i)) \o Wake(i))
  BY DEF me8200_do_irq_handle
<1> HIDE DEF A1, A2, A3, A4, f1, f2, c
<1>9. Does(b, "isr", h, Room1(i), Empty, A1 \o A2, h, f1, o) BY <1>4, <1>5, DoesThen
<1>10. Does(b, "isr", h, Room1(i), Empty, A1 \o A2 \o A3, h, f2, o) BY <1>6, <1>9, DoesThen
<1> DEFINE P == A1 \o A2 \o A3 \o A4
<1>11. Does(b, "isr", One(i), Room1(i), Empty, P, One(i), Empty, Debt(i)) BY <1>7, <1>10, DoesThen
<1> DEFINE x == Armed(IrqMode, PowerEn(i), me8200_do_irq_handle(i))
<1>12. x = Armed(IrqMode, PowerEn(i), Try(Lock(i), P \o Give(Lock(i)) \o Wake(i))) BY <1>8
<1> HIDE DEF P, x
<1>13. SafeHandler(b, i, x) BY <1>1, <1>11, <1>12, PinsHandler
<1> QED BY <1>13 DEF x

\* The wait of the ME-8200's outputs is harmless.
LEMMA DoWait ==
    ASSUME NEW b, b # "me8100", NEW i, DoOf(b, i), NEW a
    PROVE  Harmless(b, me8200_do_io_irq_wait(i, a))
<1>1. PinOf(b, i) BY DEF PinOf
<1>2. PinReg(b, i, Rised(i), Up \cup Off) BY DEF PinReg
<1>3. Rised(i) \in Registers(b) /\ i \in Numbers BY <1>1, <1>2, PinFacts
<1>4. Roomy("task", i, Empty) /\ Empty \subseteq Debt(i) /\ Empty \subseteq Empty BY Void DEF Roomy
<1>5. ~Silent(b, i) BY DEF Silent, DoOf
<1> DEFINE L == Load(Rised(i))
<1> DEFINE S == SetRised(i, {})
<1> DEFINE s == [do |-> "await", news |-> {}, reg |-> Rised(i), bits |-> Up \cup Off, queue |-> Queue(i), late |-> S]
<1> DEFINE Rd == Read(Rised(i), Off)
<1>6. Does(b, "task", Empty, Empty, Empty, L, Empty, Empty, Empty) BY <1>1, <1>3, <1>4, PinsLoad
<1>7. Does(b, "task", Empty, Empty, Empty, S, Empty, Empty, Empty) BY <1>1, <1>4, PinsRised
<1>8. Does(b, "task", Empty, Empty, Empty, Rd, Empty, Empty, Empty) BY <1>1, <1>4, PinsRead
<1>9. s.news = {} /\ s.reg = Rised(i) /\ s.queue = Queue(i) OBVIOUS
<1>10. Does(b, "task", Empty, Empty, Empty, <<s>>, Empty, Empty, Empty)
  <2>1. Legal(b, s)
    <3> HIDE DEF s
    <3> QED BY <1>3, <1>5, <1>9 DEF Legal
  <2> HIDE DEF S
  <2>2. Does(b, "task", Empty, Empty, Empty, Await({}, Rised(i), Up \cup Off, Queue(i), S), Empty, Empty, Empty)
    BY <1>7, <2>1, DoesAwait
  <2> QED BY <2>2 DEF Await
<1>11. Await({}, Rised(i), Up \cup Off, Queue(i), S) = <<s>> BY DEF Await
<1> DEFINE x == [do |-> "read", reg |-> Rised(i), pins |-> Off]
<1> DEFINE A == S \o <<s>>
<1> DEFINE P == A \o Rd
<1>12. me8200_do_io_irq_wait(i, a) = IF ~Waits(a, {"none"}) THEN Refused ELSE L \o Test(Up, {{}}, P) \o S
  BY <1>11 DEF me8200_do_io_irq_wait
<1> HIDE DEF s
<1>13. Does(b, "task", Empty, Empty, Empty, A, Empty, Empty, Empty) BY <1>7, <1>10, DoesThen
<1>14. Program(A) BY <1>13 DEF Does
<1>15. Rd = <<x>> /\ x.do = "read" BY DEF Read
<1> HIDE DEF x, A
<1>16. \A j : ~WritesTo(j, A \o <<x>>) BY <1>14, <1>15, EndsWith
<1>17. \A j : ~WritesTo(j, P) BY <1>15, <1>16
<1> HIDE DEF Rd, S, L
<1>18. Does(b, "task", Empty, Empty, Empty, P, Empty, Empty, Empty) BY <1>8, <1>13, DoesThen
<1> HIDE DEF P
<1>19. Does(b, "task", Empty, Empty, Empty, Test(Up, {{}}, P), Empty, Empty, Empty)
  BY <1>1, <1>4, <1>17, <1>18, PinsTest
<1>20. Does(b, "task", Empty, Empty, Empty, L \o Test(Up, {{}}, P), Empty, Empty, Empty)
  BY <1>6, <1>19, DoesThen
<1>21. Does(b, "task", Empty, Empty, Empty, L \o Test(Up, {{}}, P) \o S, Empty, Empty, Empty)
  BY <1>7, <1>20, DoesThen
<1>22. Harmless(b, L \o Test(Up, {{}}, P) \o S) BY <1>21, DoesAll DEF Harmless
<1> QED BY <1>12, <1>22, Refuses

\* The outputs of the ME-8200 are safe.
LEMMA SafeMe8200Do ==
    ASSUME NEW b, b # "me8100", NEW i, DoOf(b, i)
    PROVE  SafeSub(b, i, me8200_do_constr(i))
<1>1. PinOf(b, i) /\ CtlReg(b, i, IrqMode) BY DEF PinOf, CtlReg
<1>2. Roomy("task", i, Empty) /\ Empty \subseteq Debt(i) /\ Debt(i) \subseteq Debt(i)
  BY Void DEF Roomy
<1>3. Of(b, IrqMode) = IrqModeLock BY DEF Of, IrqMode
<1>4. NoTies(b) BY <1>1, PinFacts
<1> DEFINE s == me8200_do_constr(i)
<1>5. /\ s.reset = me8200_do_io_reset_subdevice(i) /\ s.stop = me8200_do_io_irq_stop(i) /\ s.test = Refused
      /\ (\A a \in DOMAIN s.config : s.config[a] = me8200_do_io_single_config(i, a))
      /\ (\A a \in Access : s.read[a] = me8200_do_io_single_read(i, a))
      /\ (\A a \in Access, v \in Levels : s.write[<<a, v>>] = me8200_do_io_single_write(i, a, v))
      /\ (\A a \in DOMAIN s.start : s.start[a] = me8200_do_io_irq_start(i, a))
      /\ (\A a \in DOMAIN s.wait : s.wait[a] = me8200_do_io_irq_wait(i, a))
      /\ s.irqs = {Armed(IrqMode, PowerEn(i), me8200_do_irq_handle(i))}
  BY DEF me8200_do_constr, Made
<1> HIDE DEF s
<1> DEFINE h == Held(i)
<1> DEFINE A1 == Put(Port(i), Pins(8), {})
<1> DEFINE A2 == Under(IrqModeLock, Rmw(IrqMode, PowerEn(i), {}))
<1> DEFINE A3 == SetRised(i, Off)
<1> DEFINE A4 == ClearCount(i)
<1> DEFINE S == SetRised(i, {})
<1>6. Does(b, "task", h, Empty, Empty, A1, h, Empty, Empty)
  <2>1. PinReg(b, i, Port(i), Pins(8)) /\ {} \subseteq Pins(8) BY DEF PinReg
  <2>2. Port(i) # Count(i) /\ Port(i) # Rised(i) /\ Lock(i) \in h BY DEF Port, Count, Rised, Held
  <2>3. PinsPutOk(b, "task", i, h, Empty, Empty, Port(i), Pins(8), {}, Empty)
    BY <1>1, <1>2, <2>1, <2>2 DEF PinsPutOk
  <2> QED BY <2>3, PinsPut
<1>7. \A clear, set : Does(b, "task", h, Empty, Empty, Under(IrqModeLock, Rmw(IrqMode, clear, set)), h, Empty, Empty)
  BY <1>1, <1>3, CtlUnder
<1>8. Off \subseteq Up \cup Off OBVIOUS
<1>9. Does(b, "task", h, Empty, Empty, A3, h, Empty, Debt(i)) BY <1>1, <1>2, <1>8, PinsRised
<1>10. Does(b, "task", h, Empty, Debt(i), A4, h, Empty, Debt(i)) BY <1>1, PinsClearCount
<1>11. Does(b, "task", h, Empty, Empty, S, h, Empty, Empty) BY <1>1, <1>2, PinsRised
<1>12. Harmless(b, me8200_do_io_reset_subdevice(i))
  <2>1. me8200_do_io_reset_subdevice(i) = Protect(Lock(i), A1 \o A2 \o A3 \o A4) \o Wake(i)
    BY DEF me8200_do_io_reset_subdevice
  <2>2. Does(b, "task", h, Empty, Empty, A2, h, Empty, Empty) BY <1>7
  <2> HIDE DEF A1, A2, A3, A4, h
  <2>3. Does(b, "task", h, Empty, Empty, A1 \o A2, h, Empty, Empty) BY <1>6, <2>2, DoesThen
  <2>4. Does(b, "task", h, Empty, Empty, A1 \o A2 \o A3, h, Empty, Debt(i)) BY <1>9, <2>3, DoesThen
  <2>5. Does(b, "task", h, Empty, Empty, A1 \o A2 \o A3 \o A4, h, Empty, Debt(i))
    BY <1>10, <2>4, DoesThen
  <2> QED BY <2>1, <2>5, <1>1, PinsReset DEF h
<1>13. ASSUME NEW clear, NEW set
       PROVE  Harmless(b, Protect(Lock(i), Under(IrqModeLock, Rmw(IrqMode, clear, set)) \o S))
  <2> DEFINE B == Under(IrqModeLock, Rmw(IrqMode, clear, set))
  <2>1. Does(b, "task", h, Empty, Empty, B, h, Empty, Empty) BY <1>7
  <2> HIDE DEF B, S, h
  <2>2. Does(b, "task", h, Empty, Empty, B \o S, h, Empty, Empty) BY <1>11, <2>1, DoesThen
  <2>3. Harmless(b, Protect(Lock(i), B \o S)) BY <2>2, <1>1, PinsProtect DEF h
  <2> QED BY <2>3 DEF B
<1>14. Harmless(b, me8200_do_io_irq_stop(i)) BY <1>13 DEF me8200_do_io_irq_stop
<1>15. ASSUME NEW a PROVE Harmless(b, me8200_do_io_irq_start(i, a))
  BY <1>13, Refuses DEF me8200_do_io_irq_start
<1>16. ASSUME NEW a PROVE Harmless(b, me8200_do_io_single_config(i, a))
  BY Refuses DEF me8200_do_io_single_config
<1>17. ASSUME NEW a PROVE Harmless(b, me8200_do_io_single_read(i, a))
  BY <1>4, PlainRead, HarmlessPins DEF me8200_do_io_single_read
<1>18. ASSUME NEW a \in Access, NEW v \in Levels PROVE Harmless(b, me8200_do_io_single_write(i, a, v))
  <2>1. On(v, Byte(a)) \subseteq Pins(8) BY PinsOf, OnIn
  <2>2. Harmless(b, Under(Lock(i), Rmw(Port(i), Byte(a), On(v, Byte(a))))) BY <2>1, DoWrites
  <2> QED BY <2>2, HarmlessPins DEF me8200_do_io_single_write
<1>19. \A x \in s.irqs : SafeHandler(b, i, x) BY <1>5, DoHandler
<1>20. \A a \in DOMAIN s.wait : Harmless(b, s.wait[a]) BY <1>5, DoWait
<1> QED BY <1>5, <1>12, <1>14, <1>15, <1>16, <1>17, <1>18, <1>19, <1>20, Refuses DEF SafeSub, s

-----------------------------------------------------------------------------
(* The invariant holds of a board that has just been reset.                *)

\* Only the ME-1400 has an 8255.
LEMMA ChipName ==
    ASSUME NEW b \in BoardNames, NEW r \in Registers(b), r[1] = "chip"
    PROVE  r = Chip /\ b = "me1400"
<1> USE DEF Registers, Line, Pinned, Power, Counter, SubsOf, Relay, Low, Port, Intcsr, External, EdgeMode, Control,
    Copy, Mirror, IrqMode, IrqCtrl, ChipPorts, Ctrl, Chip, ClkReg, Pin, Status, Count, Resets, Rised, Filter,
    Pattern, MaskOf, Ctr, Low8, High8
<1>1. CASE b \in {"me1000", "me0600_dio", "me4600", "me4600i", "me6000", "me8200_dio"} BY <1>1
<1>2. CASE b \in {"me0600_di", "me0600_relay", "me0600_irq", "me0900_di", "me0900_do", "me4600_irq"}
  BY <1>2
<1>3. CASE b \in {"me8100", "me8100b", "me8200", "me8200_ex", "me8200_do"} BY <1>3
<1>4. CASE b \in {"me4600_ctr", "me1400ab", "me1400cd"} BY <1>4
<1>5. CASE b = "me1400" BY <1>5
<1> QED BY <1>1, <1>2, <1>3, <1>4, <1>5 DEF BoardNames

\* The values after a reset, by the kind of register.
LEMMA ResetValues ==
    ASSUME NEW b, NEW r
    PROVE  LET v == AfterReset(b, r) IN
           /\ r = Chip => v = get_mode_from_mirror({})
           /\ r = Ctrl => v = IF b = "me4600i" THEN Out(0) ELSE {}
           /\ r[1] = "low"    => v = Pins(8)
           /\ r[1] = "count"  => v = Zero
           /\ r[1] = "rised"  => v = Off
           /\ r[1] \in {"pattern", "mask"} => v = {<<"arg", 0>>}
           /\ r[1] = "ctr"    => v = ModeBit("m0")
           /\ r[1] \in {"low8", "high8"} => v = {<<"value", "low">>}
           /\ r = Intcsr      => v = LinePol(0) \cup LinePol(1)
           /\ r[1] \in {"port", "mirror", "relay", "mode", "ext", "pin", "status", "filter", "copy", "clock"} => v = {}
<1>1. /\ r = Chip => r[1] = "chip"
      /\ r = Ctrl => r[1] = "ctrl"
      /\ r = Intcsr => r[1] = "intcsr"
  BY DEF Chip, Ctrl, Intcsr
<1> QED BY <1>1 DEF AfterReset

\* Every register starts with a value it may hold ...
LEMMA FineInit ==
    ASSUME NEW b \in BoardNames, NEW r \in Registers(b), NEW v, v = AfterReset(b, r),
           NEW w, w = IF r[1] \in {"low", "chip"} THEN {} ELSE v
    PROVE  FineAt(b, r, v, w)
<1>1. Bounded(b, r) => v \subseteq Universe(b, r)
  <2>1. CASE r[1] \in {"port", "mirror", "relay", "mode", "ext", "pin", "status", "filter"}
    BY <2>1, ResetValues
  <2>2. CASE r[1] = "count"
    <3>1. v = Zero BY <2>2, ResetValues
    <3>2. Zero \subseteq AnyCount BY MaxIrqsAssumption DEF Zero, AnyCount
    <3>3. Universe(b, r) = AnyCount BY <2>2 DEF Universe
    <3> QED BY <3>1, <3>2, <3>3
  <2>3. CASE r[1] = "rised"
    <3>1. v = Off BY <2>3, ResetValues
    <3>2. Universe(b, r) = Up \cup Off BY <2>3 DEF Universe
    <3> QED BY <3>1, <3>2
  <2>4. CASE r[1] \in {"pattern", "mask"}
    <3>1. v = {<<"arg", 0>>} BY <2>4, ResetValues
    <3>2. Universe(b, r) = Arguments BY <2>4 DEF Universe
    <3> QED BY <3>1, <3>2 DEF Arguments
  <2>5. CASE r[1] = "ctr"
    <3>1. v = ModeBit("m0") BY <2>5, ResetValues
    <3>2. Universe(b, r) = UNION {ModeBit(x) : x \in ModeSet} BY <2>5 DEF Universe
    <3>3. "m0" \in ModeSet BY DEF ModeSet
    <3> QED BY <3>1, <3>2, <3>3
  <2>6. CASE r[1] \in {"low8", "high8"}
    <3>1. v = {<<"value", "low">>} BY <2>6, ResetValues
    <3>2. Universe(b, r) = Bytes BY <2>6 DEF Universe
    <3>3. "low" \in Levels BY DEF Levels
    <3> QED BY <3>1, <3>2, <3>3 DEF Bytes
  <2>7. CASE r = Ctrl /\ b \in OutsOnly
    <3>1. v = {} BY <2>7, ResetValues DEF OutsOnly
    <3> QED BY <3>1
  <2> QED BY <2>1, <2>2, <2>3, <2>4, <2>5, <2>6, <2>7 DEF Bounded
<1>2. r = Intcsr => <<"pci", 0>> \in v
  <2>1. r = Intcsr => v = LinePol(0) \cup LinePol(1) BY ResetValues
  <2> QED BY <2>1 DEF LinePol
<1>3. Exact(b, r) => w = v
  <2>1. r[1] = "low" => b \in {"me0900_di", "me0900_do"} BY Names
  <2>2. r[1] = "chip" => r = Chip /\ b = "me1400" BY ChipName
  <2> QED BY <2>1, <2>2 DEF Exact
<1>4. b = "me0900_di" => w = {} /\ v = Pins(8)
  <2>1. b = "me0900_di" => r[1] = "low" BY Names
  <2> QED BY <2>1, ResetValues
<1> QED BY <1>1, <1>2, <1>3, <1>4 DEF FineAt

\* ... every bond holds ...
LEMMA BondInit ==
    ASSUME NEW b \in BoardNames, NEW R, R = [r \in Registers(b) |-> AfterReset(b, r)],
           NEW W, W = [r \in Registers(b) |-> IF r[1] \in {"low", "chip"} THEN {} ELSE AfterReset(b, r)],
           NEW x \in Bonds(b)
    PROVE  Bond(b, x, R, W)
<1>1. \A r \in Registers(b) : R[r] = AfterReset(b, r) OBVIOUS
<1>2. CASE x[1] = "line"
  <2>1. PICK i \in Numbers : x = Line0(i) /\ Guarded(b, i)
    BY <1>2 DEF Bonds, Line0, Whole, Copied, Latched, Guarded, Numbers
  <2>2. x[2] = i BY <2>1 DEF Line0
  <2>3. Status(i) \in Registers(b)
    BY <2>1 DEF Guarded, Bonds, Line0, Whole, Copied, Latched, Registers, Line, Numbers
  <2>4. R[Status(i)] = {} BY <2>3, <1>1, ResetValues DEF Status
  <2>5. b \in {"me0600_irq", "me4600_irq", "me1400ab", "me1400cd"}
    BY <2>1 DEF Guarded, Bonds, Line0, Whole, Copied, Latched
  <2>6. CASE b = "me0600_irq"
    <3>1. Intcsr \in Registers(b) BY <2>6 DEF Registers
    <3>2. R[Intcsr] = LinePol(0) \cup LinePol(1) BY <3>1, <1>1, ResetValues
    <3>3. <<"en", i>> \notin R[Intcsr] BY <3>2 DEF LinePol
    <3>4. ~Live(b, i, R) BY <3>3, <2>6 DEF Live, LineEn
    <3> QED BY <3>4, <2>2, <2>4, <2>6, <1>2 DEF Bond, Run
  <2>7. CASE b = "me4600_irq"
    <3>1. i = 0 BY <2>1, <2>7 DEF Guarded, Bonds, Line0
    <3>2. External(i) \in Registers(b) /\ EdgeMode(i) \in Registers(b) BY <2>7, <3>1 DEF Registers
    <3>3. R[External(i)] = {} /\ R[EdgeMode(i)] = {}
      BY <3>2, <1>1, ResetValues DEF External, EdgeMode
    <3>4. ~Live(b, i, R) BY <3>3, <2>7 DEF Live
    <3> QED BY <3>3, <3>4, <2>2, <2>4, <2>7, <1>2 DEF Bond, Run
  <2>8. CASE b = "me1400ab"
    <3>1. i = 2 BY <2>1, <2>8 DEF Guarded, Bonds, Line0, Whole
    <3>2. Pin(i) \in Registers(b) BY <2>8, <3>1 DEF Registers
    <3>3. R[Pin(i)] = {} BY <3>2, <1>1, ResetValues DEF Pin
    <3>4. ~Live(b, i, R) BY <3>3, <2>8 DEF Live, Enable
    <3> QED BY <3>4, <2>2, <2>4, <2>8, <1>2 DEF Bond, Run
  <2>9. CASE b = "me1400cd"
    <3>1. MyClock \in Registers(b) BY <2>9 DEF Registers, MyClock, LineClock, Clock, ClkReg
    <3>2. R[MyClock] = {} BY <3>1, <1>1, ResetValues DEF MyClock, LineClock, Clock, ClkReg
    <3>4. ~Live(b, i, R) BY <3>2, <2>9 DEF Live, Enable
    <3> QED BY <3>4, <2>2, <2>4, <2>9, <1>2 DEF Bond, Run
  <2> QED BY <2>5, <2>6, <2>7, <2>8, <2>9
<1>3. CASE x[1] = "bytes"
  <2>1. PICK n \in {0, 1, 3, 12, 13} : x = Whole(n) /\ Counter(n) \subseteq Registers(b)
    BY <1>3 DEF Bonds, Line0, Whole, Copied, Latched, Registers
  <2>2. x[2] = n BY <2>1 DEF Whole
  <2>3. <<"low8", n>> \in Counter(n) /\ <<"high8", n>> \in Counter(n) BY CounterHas
  <2>4. R[<<"low8", n>>] = {<<"value", "low">>} /\ R[<<"high8", n>>] = {<<"value", "low">>}
    BY <2>1, <2>3, <1>1, ResetValues
  <2> QED BY <2>2, <2>4, <1>3 DEF Bond
<1>4. CASE x[1] = "copy"
  <2>1. b = "me8100" BY <1>4 DEF Bonds, Line0, Whole, Copied, Latched
  <2>2. Copy \in Registers(b) /\ Ctrl \in Registers(b) BY <2>1 DEF Registers, Control, Ctrl
  <2>3. R[Copy] = {} /\ R[Ctrl] = {} BY <2>1, <2>2, <1>1, ResetValues DEF Copy
  <2> QED BY <2>3, <1>4 DEF Bond
<1>5. CASE x[1] = "chip"
  <2>1. b = "me1400" BY <1>5 DEF Bonds, Line0, Whole, Copied, Latched
  <2>2. /\ Chip \in Registers(b) /\ Ctrl \in Registers(b) /\ Port(0) \in Registers(b) /\ Mirror(0) \in Registers(b)
    BY <2>1 DEF Registers, ChipPorts, SubsOf
  <2>3. R[Ctrl] = {} /\ R[Port(0)] = {} /\ R[Mirror(0)] = {} /\ R[Chip] = get_mode_from_mirror({})
    BY <2>1, <2>2, <1>1, ResetValues DEF Port, Mirror
  <2>4. W[Chip] = {} BY <2>2 DEF Chip
  <2>5. W[Port(0)] = {}
    <3>1. Port(0)[1] = "port" BY DEF Port
    <3>2. W[Port(0)] = AfterReset(b, Port(0)) BY <3>1, <2>2
    <3> QED BY <3>1, <3>2, ResetValues
  <2>6. get_mode_from_mirror({}) = ModeByte({})
    <3>1. ~(Out(0) \subseteq {}) /\ ~(Out(1) \subseteq {}) /\ ~(Out(2) \subseteq {}) BY DEF Out
    <3> HIDE DEF Out
    <3>2. ModeByte({}) = {7} \cup {4} \cup {1} \cup {0, 3} BY <3>1 DEF ModeByte
    <3>3. get_mode_from_mirror({}) = {7, 4, 3, 1, 0} BY <3>1 DEF get_mode_from_mirror
    <3> QED BY <3>2, <3>3
  <2> QED BY <2>3, <2>4, <2>5, <2>6, <1>5 DEF Bond
<1>6. x[1] \in {"line", "bytes", "copy", "chip"} BY DEF Bonds, Line0, Whole, Copied, Latched
<1> QED BY <1>2, <1>3, <1>4, <1>5, <1>6

\* ... and so the invariant holds of a board that has just been reset.
LEMMA InvInit == Init => BoardInv
<1> SUFFICES ASSUME Init PROVE BoardInv OBVIOUS
<1>1. board \in Board /\ board \in BoardNames BY BoardAssumption DEF Init
<1>2. /\ reg = [r \in Registers(board) |-> AfterReset(board, r)]
      /\ want = [r \in Registers(board) |-> IF r[1] \in {"low", "chip"} THEN {} ELSE AfterReset(board, r)]
      /\ todo = [t \in Task |-> <<>>] /\ tmp = [t \in Task |-> {}] /\ held = [t \in Task |-> {}] /\ asleep = {}
  BY DEF Init
<1> DEFINE F == [t \in Task |-> Empty]
<1>3. Typed(board, reg, want, todo, tmp, held, asleep)
  <2>1. reg = [r \in Registers(board) |-> reg[r]] /\ want = [r \in Registers(board) |-> want[r]]
    BY <1>2
  <2>2. todo = [t \in Task |-> todo[t]] /\ tmp = [t \in Task |-> tmp[t]] /\ held = [t \in Task |-> held[t]] BY <1>2
  <2>3. asleep \subseteq Task BY <1>2
  <2> QED BY <1>1, <2>1, <2>2, <2>3 DEF Typed
<1>4. Fine(board, reg, want)
  <2>1. ASSUME NEW r \in Registers(board) PROVE FineAt(board, r, reg[r], want[r])
    <3>1. reg[r] = AfterReset(board, r) /\ want[r] = IF r[1] \in {"low", "chip"} THEN {} ELSE reg[r]
      BY <1>2
    <3> QED BY <3>1, <1>1, FineInit
  <2> QED BY <2>1 DEF Fine
<1>5. \A x \in Bonds(board) : Bond(board, x, reg, want) BY <1>1, <1>2, BondInit
<1>6. Sit(board, reg, want, todo, tmp, held, asleep, F, F)
  <2>1. Sure(board, reg, want, todo, tmp, held, F, F)
    <3>1. ASSUME NEW t \in Task
          PROVE  Good(board, Who(t), held[t], F[t], F[t], todo[t]) /\ \A k \in F[t] : Holds(board, k, reg, want, tmp[t])
      <4>1. held[t] = Empty /\ F[t] = Empty /\ todo[t] = <<>> BY <1>2 DEF Empty
      <4>2. Good(board, Who(t), Empty, Empty, Empty, <<>>) BY Done
      <4> QED BY <4>1, <4>2, Void
    <3> QED BY <3>1 DEF Sure
  <2>2. Apart(todo, held) BY <1>2 DEF Apart
  <2>3. Bonded(board, reg, want, held) BY <1>5 DEF Bonded
  <2>4. Sleeping(todo, asleep) /\ Heard(board, reg, todo, tmp, asleep, F)
    BY <1>2 DEF Sleeping, Heard
  <2>5. Clocked(board, reg, tmp, F)
    <3>1. \A t \in Task : Turned \notin F[t] BY Void
    <3> QED BY <3>1 DEF Clocked
  <2> QED BY <1>4, <2>1, <2>2, <2>3, <2>4, <2>5 DEF Sit
<1>7. Fits(board, reg, want, todo, tmp, held, asleep) BY <1>3, <1>6 DEF Fits
<1> QED BY <1>7 DEF BoardInv

-----------------------------------------------------------------------------
(* Every method and every handler of every board is safe.                  *)

\* Every subdevice of every board is safe.
LEMMA SafeBoard ==
    ASSUME NEW b \in BoardNames, NEW i \in SubsOf(b)
    PROVE  SafeSub(b, i, Subdevice(b, i))
<1>1. CASE b = "me1000"
  <2>1. i \in {0, 1} /\ Subdevice(b, i) = me1000_dio_constr(i) BY <1>1 DEF SubsOf, Subdevice
  <2> QED BY <2>1, <1>1, SafeMe1000
<1>2. CASE b = "me0600_dio"
  <2>1. i \in {0, 1} /\ Subdevice(b, i) = me0600_dio_constr(i) BY <1>2 DEF SubsOf, Subdevice
  <2> QED BY <2>1, <1>2, SafeMe0600
<1>3. CASE b = "me0600_di"
  <2>1. i \in {0, 1} /\ Subdevice(b, i) = me0600_di_constr(i) BY <1>3 DEF SubsOf, Subdevice
  <2> QED BY <2>1, <1>3, SafeMe0600Di
<1>4. CASE b = "me0600_relay"
  <2>1. i \in {0} /\ Subdevice(b, i) = me0600_relay_constr(i) BY <1>4 DEF SubsOf, Subdevice
  <2> QED BY <2>1, <1>4, SafeMe0600Relay
<1>5. CASE b = "me0600_irq"
  <2>1. i \in {0, 1} /\ Subdevice(b, i) = me0600_ext_irq_constr(i) BY <1>5 DEF SubsOf, Subdevice
  <2> QED BY <2>1, <1>5, SafeLine0600
<1>6. CASE b = "me0900_di"
  <2>1. i \in {0, 1} /\ Subdevice(b, i) = me0900_di_constr(i) BY <1>6 DEF SubsOf, Subdevice
  <2> QED BY <2>1, <1>6, SafeMe0900Di
<1>7. CASE b = "me0900_do"
  <2>1. i \in {0, 1} /\ Subdevice(b, i) = me0900_do_constr(i) BY <1>7 DEF SubsOf, Subdevice
  <2> QED BY <2>1, <1>7, SafeMe0900Do
<1>8. CASE b = "me4600"
  <2>1. i \in {0, 1} /\ Subdevice(b, i) = me4600_dio_constr(i, "dio") BY <1>8 DEF SubsOf, Subdevice
  <2> QED BY <2>1, <1>8, SafeMe4600
<1>9. CASE b = "me4600i"
  <2>1. i \in {0, 1} /\ Subdevice(b, i) = me4600_dio_constr(i, IF i = 0 THEN "do" ELSE "di")
    BY <1>9 DEF SubsOf, Subdevice
  <2> QED BY <2>1, <1>9, SafeMe4600i
<1>10. CASE b = "me4600_ctr"
  <2>1. i \in {0, 1} /\ Subdevice(b, i) = me8254_constr(i, "plain", 0, i)
    BY <1>10 DEF SubsOf, Subdevice
  <2>2. ClockOf(b) = "plain" /\ CtrOf(b, i, 0, i) BY <2>1, <1>10 DEF ClockOf, CtrOf
  <2>3. SafeSub(b, i, me8254_constr(i, ClockOf(b), 0, i)) BY <2>2, SafeCounter
  <2> QED BY <2>1, <2>2, <2>3
<1>11. CASE b = "me4600_irq"
  <2>1. i = 0 /\ Subdevice(b, i) = me4600_ext_irq_constr(i) BY <1>11 DEF SubsOf, Subdevice
  <2> QED BY <2>1, <1>11, SafeLine4600
<1>12. CASE b = "me6000"
  <2>1. i \in {0, 1} /\ Subdevice(b, i) = me6000_dio_constr(i) BY <1>12 DEF SubsOf, Subdevice
  <2> QED BY <2>1, <1>12, SafeMe6000
<1>13. CASE b = "me8100"
  <2>1. i \in {0, 1} /\ Subdevice(b, i) = IF i = 0 THEN me8100_di_constr(i, 0) ELSE me8100_do_constr(i, 0)
    BY <1>13 DEF SubsOf, Subdevice
  <2>2. b \in Names8100 BY <1>13 DEF Names8100
  <2>3. CASE i = 0 BY <2>1, <2>3, <1>13, SafeMe8100Di
  <2>4. CASE i = 1
    <3>1. SafeSub(b, i, me8100_do_constr(i, 0)) BY <2>2, <2>4, <1>13, SafeMe8100Do
    <3> QED BY <3>1, <2>1, <2>4
  <2> QED BY <2>1, <2>3, <2>4
<1>14. CASE b = "me8100b"
  <2>1. i \in {0, 1} /\ Subdevice(b, i) = me8100_do_constr(i, i) BY <1>14 DEF SubsOf, Subdevice
  <2>2. b \in Names8100 BY <1>14 DEF Names8100
  <2>3. SafeSub(b, i, me8100_do_constr(i, i)) BY <2>1, <2>2, <1>14, SafeMe8100Do
  <2> QED BY <2>1, <2>3
<1>15. CASE b = "me8200_dio"
  <2>1. i \in {0, 1} /\ Subdevice(b, i) = me8200_dio_constr(i) BY <1>15 DEF SubsOf, Subdevice
  <2> QED BY <2>1, <1>15, SafeMe8200Dio
<1>16. CASE b = "me8200_do"
  <2>1. i \in {0, 1} /\ Subdevice(b, i) = me8200_do_constr(i) BY <1>16 DEF SubsOf, Subdevice
  <2>2. DoOf(b, i) /\ b # "me8100" BY <2>1, <1>16 DEF DoOf
  <2> QED BY <2>1, <2>2, SafeMe8200Do
<1>17. CASE b = "me8200"
  <2>1. i \in {0, 1} /\ Subdevice(b, i) = IF i = 0 THEN me8200_di_constr(i, 3) ELSE me8200_do_constr(i)
    BY <1>17 DEF SubsOf, Subdevice
  <2>2. b # "me8100" BY <1>17
  <2>3. CASE i = 0
    <3>1. DiOf(b, i) BY <2>3, <1>17 DEF DiOf
    <3>2. SafeSub(b, i, me8200_di_constr(i, 3)) BY <3>1, <2>2, SafeMe8200Di
    <3> QED BY <3>2, <2>1, <2>3
  <2>4. CASE i = 1
    <3>1. DoOf(b, i) BY <2>4, <1>17 DEF DoOf
    <3>2. SafeSub(b, i, me8200_do_constr(i)) BY <3>1, <2>2, SafeMe8200Do
    <3> QED BY <3>2, <2>1, <2>4
  <2> QED BY <2>1, <2>3, <2>4
<1>18. CASE b = "me8200_ex"
  <2>1. i \in {0, 1} /\ Subdevice(b, i) = me8200_di_constr(i, 7) BY <1>18 DEF SubsOf, Subdevice
  <2>2. DiOf(b, i) /\ b # "me8100" BY <2>1, <1>18 DEF DiOf
  <2>3. SafeSub(b, i, me8200_di_constr(i, 7)) BY <2>2, SafeMe8200Di
  <2> QED BY <2>1, <2>3
<1>19. CASE b = "me1400"
  <2>1. i \in Numbers /\ Subdevice(b, i) = me8255_constr(i) BY <1>19 DEF SubsOf, Subdevice, Numbers
  <2> QED BY <2>1, <1>19, SafeMe1400
<1>20. CASE b = "me1400ab"
  <2>1. i \in {0, 1, 2} /\ Subdevice(b, i) = IF i = 2 THEN me1400AB_ext_irq_constr(i) ELSE me8254_constr(i, "ab", i, 0)
    BY <1>20 DEF SubsOf, Subdevice
  <2>2. CASE i = 2 BY <2>1, <2>2, <1>20, SafeLineAB
  <2>3. CASE i \in {0, 1}
    <3>1. ClockOf(b) = "ab" /\ CtrOf(b, i, i, 0) BY <2>3, <1>20 DEF ClockOf, CtrOf
    <3>2. SafeSub(b, i, me8254_constr(i, ClockOf(b), i, 0)) BY <3>1, SafeCounter
    <3> QED BY <2>1, <2>3, <3>1, <3>2
  <2> QED BY <2>1, <2>2, <2>3
<1>21. CASE b = "me1400cd"
  <2>1. i \in {0, 1, 2} /\ Subdevice(b, i) = IF i = 2 THEN me1400CD_ext_irq_constr(i) ELSE me8254_constr(i, "cd", 4, i)
    BY <1>21 DEF SubsOf, Subdevice
  <2>2. CASE i = 2 BY <2>1, <2>2, <1>21, SafeLineCD
  <2>3. CASE i \in {0, 1}
    <3>1. ClockOf(b) = "cd" /\ CtrOf(b, i, 4, i) BY <2>3, <1>21 DEF ClockOf, CtrOf
    <3>2. SafeSub(b, i, me8254_constr(i, ClockOf(b), 4, i)) BY <3>1, SafeCounter
    <3> QED BY <2>1, <2>3, <3>1, <3>2
  <2> QED BY <2>1, <2>2, <2>3
<1> QED
  BY <1>1, <1>2, <1>3, <1>4, <1>5, <1>6, <1>7, <1>8, <1>9, <1>10, <1>11, <1>12, <1>13, <1>14, <1>15,
           <1>16, <1>17, <1>18, <1>19, <1>20, <1>21 DEF BoardNames

\* Only subdevices that count their interrupts have any.
IrqBoards == {"me0600_irq", "me4600_irq", "me8100", "me8200", "me8200_ex", "me8200_do", "me1400ab", "me1400cd"}

\* A subdevice with interrupts has a count of them.
LEMMA IrqSubs ==
    ASSUME NEW b \in BoardNames, NEW i \in SubsOf(b), Subdevice(b, i).irqs # {}
    PROVE  Count(i) \in Registers(b) /\ i \in Numbers
<1>n. i \in Numbers BY DEF SubsOf, Numbers
<1>1. ASSUME b \in {"me1000", "me0600_dio", "me0600_di", "me0600_relay", "me0900_di", "me0900_do"}
      PROVE  Subdevice(b, i).irqs = {}
  BY <1>1 DEF Subdevice, me1000_dio_constr, me0600_dio_constr, me0600_di_constr,
     me0600_relay_constr,
              me0900_di_constr, me0900_do_constr, Made
<1>2. ASSUME b \in {"me4600", "me4600i", "me6000", "me8100b", "me8200_dio", "me1400"}
      PROVE  Subdevice(b, i).irqs = {}
  BY <1>2 DEF Subdevice, me4600_dio_constr, me6000_dio_constr, me8100_do_constr, me8200_dio_constr,
     me8255_constr, Made
<1>c. \A k, clock, n : me8254_constr(i, clock, k, n).irqs = {} BY DEF me8254_constr, Made
<1>3. ASSUME b \in {"me4600_ctr"} \/ (b \in {"me1400ab", "me1400cd"} /\ i # 2)
      PROVE  Subdevice(b, i).irqs = {}
  BY <1>3, <1>c DEF Subdevice
<1>4. ASSUME b = "me8100", i # 0
      PROVE  Subdevice(b, i).irqs = {}
  BY <1>4 DEF Subdevice, me8100_do_constr, Made
<1>5. CASE b \in {"me0600_irq", "me4600_irq"} BY <1>5, <1>n DEF Registers, Line, SubsOf
<1>6. CASE b \in {"me1400ab", "me1400cd"} /\ i = 2 BY <1>6, <1>n DEF Registers, Line
<1>7. CASE b = "me8100" /\ i = 0 BY <1>7, <1>n DEF Registers, Pinned
<1>8. CASE b \in {"me8200", "me8200_ex", "me8200_do"}
  <2>1. i \in {0, 1} BY <1>8 DEF SubsOf
  <2> QED BY <2>1, <1>8, <1>n DEF Registers, Pinned, Power
<1> QED BY <1>1, <1>2, <1>3, <1>4, <1>5, <1>6, <1>7, <1>8 DEF BoardNames

\* A subdevice of the board in use.
LEMMA TheSub ==
    ASSUME board \in Board, board \in BoardNames, NEW i, Has(i)
    PROVE  /\ SafeSub(board, i, The(i))
           /\ The(i).irqs # {} => Count(i) \in Registers(board) /\ i \in Numbers
<1>1. i \in SubsOf(board) /\ The(i) = Subdevice(board, i) BY DEF Has, The, Subdevices
<1> QED BY <1>1, SafeBoard, IrqSubs

-----------------------------------------------------------------------------
(* Every step keeps the invariant.                                         *)

\* Every method, of every task, keeps the invariant.
LEMMA InvMethods ==
    ASSUME BoardInv, NEW t \in Task \ {Isr},
           \/ io_reset_subdevice(t) \/ io_single_config(t) \/ io_single_read(t) \/ io_single_write(t)
           \/ io_irq_start(t) \/ io_irq_wait(t) \/ io_irq_stop(t)
    PROVE  BoardInv'
<1>1. board \in Board /\ board \in BoardNames BY DEF BoardInv, Fits, Typed
<1>2. \A i : Has(i) => SafeSub(board, i, The(i)) BY <1>1, TheSub
<1>3. /\ \A c \in Inputs[board][t].read : c.arg \in Access
      /\ \A c \in Inputs[board][t].write : c.arg \in Access /\ c.value \in Levels
  BY <1>1, InputsAssumption
<1>4. ASSUME NEW Q, Call(t, Q), Harmless(board, Q) PROVE BoardInv' BY <1>4, InvCall
<1>5. ASSUME io_reset_subdevice(t) PROVE BoardInv'
  <2>1. PICK i : Has(i) /\ Call(t, The(i).reset) BY <1>5 DEF io_reset_subdevice
  <2>2. Harmless(board, The(i).reset) BY <2>1, <1>2 DEF SafeSub
  <2> QED BY <2>1, <2>2, <1>4
<1>6. ASSUME io_single_config(t) PROVE BoardInv'
  <2>1. PICK c \in Inputs[board][t].config :
          Has(c.sub) /\ c.arg \in DOMAIN The(c.sub).config /\ Call(t, The(c.sub).config[c.arg])
    BY <1>6 DEF io_single_config
  <2>2. Harmless(board, The(c.sub).config[c.arg]) BY <2>1, <1>2 DEF SafeSub
  <2> QED BY <2>1, <2>2, <1>4
<1>7. ASSUME io_single_read(t) PROVE BoardInv'
  <2>1. PICK c \in Inputs[board][t].read : Has(c.sub) /\ Call(t, The(c.sub).read[c.arg])
    BY <1>7 DEF io_single_read
  <2>2. Harmless(board, The(c.sub).read[c.arg]) BY <2>1, <1>2, <1>3 DEF SafeSub
  <2> QED BY <2>1, <2>2, <1>4
<1>8. ASSUME io_single_write(t) PROVE BoardInv'
  <2>1. PICK c \in Inputs[board][t].write : Has(c.sub) /\ Call(t, The(c.sub).write[<<c.arg, c.value>>])
    BY <1>8 DEF io_single_write
  <2>2. c.arg \in Access /\ c.value \in Levels BY <2>1, <1>3
  <2>3. Harmless(board, The(c.sub).write[<<c.arg, c.value>>])
    <3> DEFINE a == c.arg
    <3> DEFINE v == c.value
    <3>1. a \in Access /\ v \in Levels BY <2>2
    <3> HIDE DEF a, v
    <3>2. Harmless(board, The(c.sub).write[<<a, v>>]) BY <3>1, <2>1, <1>2 DEF SafeSub
    <3> QED BY <3>2 DEF a, v
  <2> QED BY <2>1, <2>3, <1>4
<1>9. ASSUME io_irq_start(t) PROVE BoardInv'
  <2>1. PICK c \in Inputs[board][t].start :
          Has(c.sub) /\ c.arg \in DOMAIN The(c.sub).start /\ Call(t, The(c.sub).start[c.arg])
    BY <1>9 DEF io_irq_start
  <2>2. Harmless(board, The(c.sub).start[c.arg]) BY <2>1, <1>2 DEF SafeSub
  <2> QED BY <2>1, <2>2, <1>4
<1>10. ASSUME io_irq_wait(t) PROVE BoardInv'
  <2>1. PICK c \in Inputs[board][t].wait :
          Has(c.sub) /\ c.arg \in DOMAIN The(c.sub).wait /\ Call(t, The(c.sub).wait[c.arg])
    BY <1>10 DEF io_irq_wait
  <2>2. Harmless(board, The(c.sub).wait[c.arg]) BY <2>1, <1>2 DEF SafeSub
  <2> QED BY <2>1, <2>2, <1>4
<1>11. ASSUME io_irq_stop(t) PROVE BoardInv'
  <2>1. PICK i, Q : Has(i) /\ Q \in {The(i).stop, The(i).test} /\ Call(t, Q)
    BY <1>11 DEF io_irq_stop
  <2>2. Harmless(board, Q) BY <2>1, <1>2 DEF SafeSub
  <2> QED BY <2>1, <2>2, <1>4
<1> QED BY <1>5, <1>6, <1>7, <1>8, <1>9, <1>10, <1>11

\* The lock of a line whose handler may start is free: a task that has it
\* masks the interrupt.
LEMMA LineIsFree ==
    ASSUME BoardInv, NEW i \in Numbers, Guarded(board, i), todo[Isr] = <<>>, Holders(IrqLine) = {}
    PROVE  Bond(board, Line0(i), reg, want)
<1>1. Fits(board, reg, want, todo, tmp, held, asleep) BY DEF BoardInv
<1>2. Isr \in Task BY IsrAssumption
<1>3. PICK F, O : /\ Sit(board, reg, want, todo, tmp, held, asleep, F, O)
                  /\ held[Isr] = Empty
  BY <1>1, <1>2, FitsTells
<1>4. ASSUME NEW v \in Task, Lock(i) \in held[v] PROVE FALSE
  <2>1. v # Isr BY <1>3, <1>4, Void
  <2>2. Good(board, Who(v), held[v], F[v], O[v], todo[v]) BY <1>3 DEF Sit, Sure
  <2>3. Steady(board, Who(v), held[v], F[v]) BY <2>2, Tells
  <2>4. IrqLine \in held[v] BY <2>1, <2>3, <1>4 DEF Steady, Who
  <2> QED BY <2>4 DEF Holders
<1>5. Home(board, Line0(i)) = Lock(i) /\ Line0(i) \in Bonds(board) BY DEF Home, Line0, Guarded
<1> QED BY <1>3, <1>4, <1>5 DEF Sit, Bonded

\* The interrupt line rises, and the handler runs.
LEMMA InvHandle ==
    ASSUME BoardInv, irq_handle
    PROVE  BoardInv'
<1>1. PICK i, x : Has(i) /\ More(Count(i)) /\ x \in The(i).irqs /\ x.bits \subseteq reg[x.reg] /\ Interrupt(x.program)
  BY DEF irq_handle
<1>2. Fits(board, reg, want, todo, tmp, held, asleep) BY DEF BoardInv
<1>3. board \in Board /\ board \in BoardNames /\ reg = [r \in Registers(board) |-> reg[r]]
  BY <1>2 DEF Fits, Typed
<1>4. SafeSub(board, i, The(i)) /\ Count(i) \in Registers(board) /\ i \in Numbers
  BY <1>1, <1>3, TheSub
<1>5. /\ Good(board, "isr", Empty, Found(board, i), Empty, x.program)
      /\ Guarded(board, i) => Live(board, i, reg)
  BY <1>1, <1>4 DEF SafeSub, SafeHandler
<1>6. Fine(board, reg, want)
  <2>1. PICK F, O : Sit(board, reg, want, todo, tmp, held, asleep, F, O) BY <1>2 DEF Fits
  <2> QED BY <2>1 DEF Sit
<1>7. Holds(board, Room(i), reg, want, tmp[Isr])
  <2>1. \A v \in reg[Count(i)] : v[2] < MaxIrqs
    <3>1. Count(i) \in DOMAIN reg BY <1>3, <1>4
    <3> QED BY <3>1, <1>1 DEF More
  <2>2. Room(i)[1] = "room" /\ Room(i)[2] = Count(i) BY DEF Room
  <2> HIDE DEF Room
  <2> QED BY <2>1, <2>2 DEF Holds
<1>8. Guarded(board, i) => Holds(board, Is(Status(i), Statuses, Run), reg, want, tmp[Isr])
  <2> SUFFICES ASSUME Guarded(board, i) PROVE Holds(board, Is(Status(i), Statuses, Run), reg, want, tmp[Isr]) OBVIOUS
  <2>1. Bond(board, Line0(i), reg, want) BY <1>1, <1>4, LineIsFree DEF Interrupt, Idle
  <2>2. reg[Status(i)] = Run
    <3>1. Line0(i)[1] = "line" /\ Line0(i)[2] = i BY DEF Line0
    <3> QED BY <3>1, <2>1, <1>5 DEF Bond
  <2>3. Run \cap Statuses = Run BY DEF Run, Statuses
  <2> QED BY <2>2, <2>3 DEF Holds, Is
<1>9. Local(board, Found(board, i), reg, want, tmp[Isr])
  <2>1. \A k \in Found(board, i) : k = Room(i) \/ (Guarded(board, i) /\ k = Is(Status(i), Statuses, Run))
    BY DEF Found, Room1, Status1
  <2> QED BY <2>1, <1>6, <1>7, <1>8 DEF Local
<1> QED BY <1>1, <1>5, <1>9, InvInterrupt

\* Every step of the specification keeps the invariant.
LEMMA InvNext == BoardInv /\ [Next]_portvars => BoardInv'
<1> SUFFICES ASSUME BoardInv, [Next]_portvars PROVE BoardInv' OBVIOUS
<1>1. CASE UNCHANGED portvars BY <1>1 DEF portvars, BoardInv
<1>2. ASSUME NEW t \in Task, Step(t) PROVE BoardInv' BY <1>2, InvStep
<1>3. ASSUME NEW t \in Task \ {Isr},
             \/ io_reset_subdevice(t) \/ io_single_config(t) \/ io_single_read(t) \/ io_single_write(t)
             \/ io_irq_start(t) \/ io_irq_wait(t) \/ io_irq_stop(t)
      PROVE  BoardInv'
  BY <1>3, InvMethods
<1>4. CASE irq_handle BY <1>4, InvHandle
<1> QED BY <1>1, <1>2, <1>3, <1>4 DEF Next

-----------------------------------------------------------------------------
(* What the invariant says of the lines.                                   *)

\* A line nobody is at work on is enabled if and only if it is started.
LEMMA InvEnabledIffStarted ==
    ASSUME BoardInv
    PROVE  EnabledIffStarted
<1> SUFFICES ASSUME board \in LineBoards, NEW i \in LinesOf(board), Holders(Lock(i)) = {}
             PROVE  Enabled(i) <=> reg[Status(i)] = Run
  BY DEF EnabledIffStarted
<1>1. Fits(board, reg, want, todo, tmp, held, asleep) BY DEF BoardInv
<1>2. PICK F, O : Sit(board, reg, want, todo, tmp, held, asleep, F, O) BY <1>1 DEF Fits
<1>3. board \in Board BY <1>1 DEF Fits, Typed
<1>4. i \in Sub /\ i \in SubsOf(board) /\ Line0(i) \in Bonds(board) /\ (board = "me4600_irq" => i = 0)
      /\ (board = "me1400ab" => i = 2)
  BY DEF LinesOf, LineBoards, SubsOf, Bonds
<1>5. The(i) = Subdevice(board, i) BY <1>3, <1>4 DEF The, Subdevices
<1>6. Bond(board, Line0(i), reg, want)
  <2>1. Home(board, Line0(i)) = Lock(i) BY DEF Home, Line0
  <2>2. \A t \in Task : Lock(i) \notin held[t] BY DEF Holders
  <2> QED BY <1>2, <1>4, <2>1, <2>2 DEF Sit, Bonded
<1>7. Live(board, i, reg) <=> reg[Status(i)] = Run
  <2>1. Line0(i)[1] = "line" /\ Line0(i)[2] = i BY DEF Line0
  <2>2. board # "me1400cd" BY DEF LineBoards
  <2> QED BY <2>1, <2>2, <1>6 DEF Bond
<1>8. Enabled(i) <=> Live(board, i, reg)
  <2>1. CASE board = "me0600_irq"
    <3>1. The(i).irqs = {Armed(Intcsr, LineEn(i) \cup {<<"pci", 0>>}, me0600_ext_irq_handle(i))}
      BY <2>1, <1>5 DEF Subdevice, me0600_ext_irq_constr, LineMade, Made
    <3>2. Intcsr \in Registers(board) BY <2>1 DEF Registers
    <3>3. <<"pci", 0>> \in reg[Intcsr] BY <3>2, <1>2 DEF Sit, Fine, FineAt
    <3>4. Enabled(i) <=> LineEn(i) \cup {<<"pci", 0>>} \subseteq reg[Intcsr]
      BY <3>1 DEF Enabled, Armed
    <3>5. Live(board, i, reg) <=> LineEn(i) \subseteq reg[Intcsr] BY <2>1 DEF Live
    <3> QED BY <3>3, <3>4, <3>5
  <2>2. CASE board = "me4600_irq"
    <3>1. The(i).irqs = {Armed(External(i), {<<"edge", e>>}, me4600_ext_irq_handle(i)) : e \in {"rising", "falling", "any"}}
      BY <2>2, <1>5 DEF Subdevice, me4600_ext_irq_constr, LineMade, Made
    <3>2. Enabled(i) <=> \E e \in {"rising", "falling", "any"} : {<<"edge", e>>} \subseteq reg[External(i)]
      <4> DEFINE names == {"rising", "falling", "any"}
      <4> DEFINE H(e) == Armed(External(i), {<<"edge", e>>}, me4600_ext_irq_handle(i))
      <4>1. \A e : H(e).reg = External(i) /\ H(e).bits = {<<"edge", e>>} BY DEF Armed
      <4>2. The(i).irqs = {H(e) : e \in names} BY <3>1
      <4> HIDE DEF H, names
      <4>3. ASSUME NEW h \in The(i).irqs, h.bits \subseteq reg[h.reg]
            PROVE  \E e \in names : {<<"edge", e>>} \subseteq reg[External(i)]
        <5>1. PICK e \in names : h = H(e) BY <4>2, <4>3
        <5>2. h.reg = External(i) /\ h.bits = {<<"edge", e>>} BY <4>1, <5>1
        <5> QED BY <4>3, <5>2
      <4>4. ASSUME NEW e \in names, {<<"edge", e>>} \subseteq reg[External(i)]
            PROVE  Enabled(i)
        <5>1. H(e) \in The(i).irqs BY <4>2
        <5>2. H(e).bits \subseteq reg[H(e).reg] BY <4>1, <4>4
        <5> QED BY <5>1, <5>2 DEF Enabled
      <4>5. Enabled(i) <=> \E e \in names : {<<"edge", e>>} \subseteq reg[External(i)]
        BY <4>3, <4>4 DEF Enabled
      <4> QED BY <4>5 DEF names
    <3>3. Live(board, i, reg) <=> reg[External(i)] \cap Edges # {} BY <2>2 DEF Live
    <3>4. Edges = {<<"edge", e>> : e \in {"rising", "falling", "any"}} BY DEF Edges
    <3>5. (\E e \in {"rising", "falling", "any"} : {<<"edge", e>>} \subseteq reg[External(i)])
            <=> reg[External(i)] \cap Edges # {}
      BY <3>4
    <3> QED BY <3>2, <3>3, <3>5
  <2>3. CASE board = "me1400ab"
    <3>1. The(i).irqs = {Armed(Pin(i), Enable, me1400AB_ext_irq_handle(i))}
      BY <2>3, <1>4, <1>5 DEF Subdevice, me1400AB_ext_irq_constr, LineMade, Made
    <3>2. Enabled(i) <=> Enable \subseteq reg[Pin(i)] BY <3>1 DEF Enabled, Armed
    <3> QED BY <3>2, <2>3 DEF Live
  <2> QED BY <2>1, <2>2, <2>3 DEF LineBoards
<1> QED BY <1>7, <1>8

-----------------------------------------------------------------------------
(* Theorems.                                                               *)

\* The invariant holds of every state, of every board and for any number of tasks.
LEMMA BoardHolds == Spec => []BoardInv
BY InvInit, InvNext, PTL DEF Spec

\* No write is lost and none comes back, on any board, for any number of
\* tasks and any calls of its methods: the read-modify-write accesses to
\* shared control registers and ports exclude each other.
THEOREM RegistersHold == Spec => []RegistersAgree
<1>1. BoardInv => RegistersAgree BY InvRegistersAgree
<1> QED BY <1>1, BoardHolds, PTL

\* A write goes to a port that is an output at the moment of the access,
\* and to all that are: no direction changes between the test and the write.
THEOREM WritesHold == Spec => []WritesReachOutputs
<1>1. BoardInv => WritesReachOutputs BY InvWritesReachOutputs
<1> QED BY <1>1, BoardHolds, PTL

\* Locks are given back on every path of every method and handler, and who
\* sleeps through a wake-up is about to be woken.
THEOREM NobodyLeftHolds == Spec => []NobodyLeftWaiting
<1>1. BoardInv => NobodyLeftWaiting BY InvLocksReleased, InvNoLostWakeup DEF NobodyLeftWaiting
<1> QED BY <1>1, BoardHolds, PTL

\* An interrupt line is enabled if and only if it was started.
THEOREM LinesHold == Spec => []EnabledIffStarted
<1>1. BoardInv => EnabledIffStarted BY InvEnabledIffStarted
<1> QED BY <1>1, BoardHolds, PTL

\* The two bytes of a counter's value come from the same call.
THEOREM ValuesHold == Spec => []ValuesAreWhole
<1>1. BoardInv => ValuesAreWhole BY InvValuesAreWhole
<1> QED BY <1>1, BoardHolds, PTL

-----------------------------------------------------------------------------
(* The analog outputs of the ME-1600.                                      *)

AOAny == Sample \cup {0, Mid}

AOPlace ==
    {Outside}
    \cup [pc : {"read", "apply"}, on : Channel]
    \cup [pc : {"asleep", "woken"}, on : Channel, by : {"read", "write"}]
    \cup [pc : {"clear"}, on : Channel, word : SUBSET Channel]

AOWork == {Quiet} \cup [pc : {"again", "signal", "spins"}, on : Channel]

AOType ==
    /\ shadow \in [Channel -> AOAny] /\ mirror \in [Channel -> AOAny]
    /\ latch \in [Channel -> AOAny] /\ output \in [Channel -> AOAny]
    /\ sync \in SUBSET Channel /\ trigger \in SUBSET Channel /\ bipolar \in SUBSET Channel
    /\ status \in [Channel -> {"none", "configured", "run", "end"}]
    /\ control \in [Channel -> BOOLEAN]
    /\ queued \in SUBSET Channel /\ worker \in AOWork
    /\ holder \in [Channel -> Caller \cup {"nobody"}] /\ jammed \in SUBSET Channel
    /\ at \in [Caller -> AOPlace]

\* A value v of a channel is the one it reports, or the zero of a bipolar range.
AOReported(c, v) == v = mirror[c] \/ (c \in bipolar /\ mirror[c] = 0 /\ v = Mid)

AOOnTheList == \A c \in Channel : shadow[c] # mirror[c] => c \in sync
AOOutputs   == \A c \in Channel : AOReported(c, output[c])
AORegisters == \A c \in Channel : AOReported(c, latch[c])
AOWatched   ==
    \A c \in Channel :
        status[c] = "run" => /\ control[c]
                             /\ \/ c \in queued
                                \/ worker.pc \in {"again", "spins"} /\ worker.on = c

AOStory == AOType /\ AOOnTheList /\ AOOutputs /\ AORegisters /\ AOWatched

-----------------------------------------------------------------------------
\* The outputs start as the constructor leaves them: all at zero, nobody inside.
LEMMA AOInitType == AOInit => AOType
  BY DEF AOInit, AOType, AOAny, AOPlace, AOWork, Outside, Quiet

\* Waking up the sleepers of a channel leaves everybody at a place.
LEMMA AOWokenType ==
  ASSUME AOType, NEW c \in Channel
  PROVE  Woken(c) \in [Caller -> AOPlace]
  <1> SUFFICES ASSUME NEW t \in Caller, at[t].pc = "asleep"
               PROVE  [at[t] EXCEPT !.pc = "woken"] \in AOPlace
    BY DEF AOType, Woken
  <1>1. at[t] \in [pc : {"asleep", "woken"}, on : Channel, by : {"read", "write"}]
    BY DEF AOType, AOPlace, Outside
  <1> QED
    BY <1>1 DEF AOPlace

\* No step takes a variable out of its type.
LEMMA AONextType == AOType /\ [AONext]_aoVars => AOType'
  <1> SUFFICES ASSUME AOType, [AONext]_aoVars PROVE AOType'
    OBVIOUS
  <1>1. ASSUME NEW t \in Caller, NEW c \in Channel, me1600_ao_io_reset_subdevice(t, c)
        PROVE  AOType'
    <2>1. at' \in [Caller -> AOPlace]
      BY <1>1, AOWokenType DEF me1600_ao_io_reset_subdevice
    <2> QED
      BY <1>1, <2>1 DEF AOType, AOAny, me1600_ao_io_reset_subdevice, Strobe, CancelTask
  <1>2. ASSUME NEW t \in Caller, NEW c \in Channel, me1600_ao_io_single_config(t, c)
        PROVE  AOType'
    BY <1>2 DEF AOType, AOAny, me1600_ao_io_single_config, Strobe, tasks
  <1>3. ASSUME NEW t \in Caller, NEW c \in Channel, single_read(t, c)
        PROVE  AOType'
    <2>1. at' \in [Caller -> AOPlace]
      BY <1>3 DEF single_read, AOType, AOPlace
    <2> QED
      BY <1>3, <2>1 DEF AOType, single_read, TriggerList, tasks
  <1>4. ASSUME NEW t \in Caller, NEW c \in Channel, single_write(t, c)
        PROVE  AOType'
    <2>1. at' \in [Caller -> AOPlace]
      BY <1>4 DEF single_write, AOType, AOPlace
    <2> QED
      BY <1>4, <2>1 DEF AOType, single_write, values, tasks
  <1>5. ASSUME NEW t \in Caller, read_waits(t)
        PROVE  AOType'
    <2>1. at[t].on \in Channel
      BY <1>5 DEF read_waits, AOType, AOPlace, Outside
    <2>2. at' \in [Caller -> AOPlace]
      BY <1>5, <2>1 DEF read_waits, AOType, AOPlace
    <2> QED
      BY <1>5, <2>2 DEF AOType, read_waits, values, tasks
  <1>6. ASSUME NEW t \in Caller, write_clear(t)
        PROVE  AOType'
    <2>1. at[t].on \in Channel /\ at[t].word \in SUBSET Channel
      BY <1>6 DEF write_clear, AOType, AOPlace, Outside
    <2>2. at' \in [Caller -> AOPlace]
      BY <1>6, <2>1 DEF write_clear, AOType, AOPlace
    <2> QED
      BY <1>6, <2>1, <2>2 DEF AOType, write_clear, tasks
  <1>7. ASSUME NEW t \in Caller, write_apply(t)
        PROVE  AOType'
    <2> DEFINE c == at[t].on
    <2>1. c \in Channel
      BY <1>7 DEF write_apply, AOType, AOPlace, Outside
    <2>2. at' \in [Caller -> AOPlace]
      BY <1>7, <2>1 DEF write_apply, AOType, AOPlace
    <2>3. shadow' \in [Channel -> AOAny]
      BY <1>7, <2>1 DEF write_apply, AOType, AOAny
    <2>4. /\ control' \in [Channel -> BOOLEAN] /\ queued' \in SUBSET Channel
          /\ holder' \in [Channel -> Caller \cup {"nobody"}]
          /\ UNCHANGED <<bipolar, worker, jammed>>
      BY <1>7, <2>1 DEF write_apply, AOType
    <2>5. TriggeredAt(c, shadow') \/ HoldBack(c) \/ Output(c, shadow')
      BY <1>7 DEF write_apply
    <2>6. /\ mirror' \in [Channel -> AOAny] /\ latch' \in [Channel -> AOAny]
          /\ output' \in [Channel -> AOAny]
          /\ sync' \in SUBSET Channel /\ trigger' \in SUBSET Channel
          /\ status' \in [Channel -> {"none", "configured", "run", "end"}]
      <3>1. CASE TriggeredAt(c, shadow')
        BY <3>1, <2>1, <2>3 DEF TriggeredAt, TriggerList, AOType
      <3>2. CASE HoldBack(c)
        BY <3>2, <2>1 DEF HoldBack, AOType
      <3>3. CASE Output(c, shadow')
        BY <3>3, <2>1, <2>3 DEF Output, Strobe, AOType
      <3> QED
        BY <2>5, <3>1, <3>2, <3>3
    <2> QED
      BY <2>2, <2>3, <2>4, <2>6 DEF AOType
  <1>8. ASSUME NEW t \in Caller, wait_again(t)
        PROVE  AOType'
    <2>1. at[t] \in [pc : {"asleep", "woken"}, on : Channel, by : {"read", "write"}]
      BY <1>8 DEF wait_again, AOType, AOPlace, Outside
    <2>2. at' \in [Caller -> AOPlace]
      BY <1>8, <2>1 DEF wait_again, AOType, AOPlace
    <2> QED
      BY <1>8, <2>2 DEF AOType, wait_again, values, tasks
  <1>9. ASSUME NEW t \in Caller, wait_ends(t)
        PROVE  AOType'
    <2>1. at[t].on \in Channel
      BY <1>9 DEF wait_ends, AOType, AOPlace, Outside
    <2>2. at' \in [Caller -> AOPlace]
      BY <1>9 DEF wait_ends, AOType, AOPlace
    <2> QED
      BY <1>9, <2>1, <2>2 DEF AOType, wait_ends, values, tasks
  <1>10. ASSUME NEW c \in Channel, me1600_ao_work_control_task(c)
         PROVE  AOType'
    <2>1. worker' \in AOWork
      BY <1>10 DEF me1600_ao_work_control_task, AOType, AOWork
    <2> QED
      BY <1>10, <2>1 DEF AOType, me1600_ao_work_control_task, values
  <1>11. ASSUME control_rest
         PROVE  AOType'
    <2>1. worker.on \in Channel
      BY <1>11 DEF control_rest, AOType, AOWork, Quiet
    <2>2. at' \in [Caller -> AOPlace]
      BY <1>11, <2>1, AOWokenType DEF control_rest, AOType
    <2> QED
      BY <1>11, <2>1, <2>2 DEF AOType, control_rest, values, AOWork
  <1>12. CASE AORests
    BY <1>12 DEF AORests, aoVars, AOType
  <1>13. CASE UNCHANGED aoVars
    BY <1>13 DEF aoVars, AOType
  <1> QED
    BY <1>1, <1>2, <1>3, <1>4, <1>5, <1>6, <1>7, <1>8, <1>9, <1>10, <1>11, <1>12, <1>13 DEF AONext

THEOREM AOTypeHolds == AOSpec => []AOType
  BY AOInitType, AONextType, PTL DEF AOSpec

-----------------------------------------------------------------------------
\* What the board outputs and what its registers hold: what the triggering of a list does
\* to them.
LEMMA AOTriggerReports ==
  ASSUME AOType, AOOutputs, AORegisters, NEW list \in SUBSET Channel, NEW asked \in [Channel -> AOAny],
         TriggerList(list, asked), UNCHANGED bipolar
  PROVE  AOOutputs' /\ AORegisters'
  BY DEF AOType, AOOutputs, AORegisters, AOReported, TriggerList

\* A channel that is written, and reports it, leaves the others as they are.
LEMMA AOStrobeReports ==
  ASSUME AOType, AOOutputs, AORegisters, NEW c \in Channel, NEW v \in AOAny,
         Strobe(c, v), mirror' = [mirror EXCEPT ![c] = v], UNCHANGED bipolar
  PROVE  AOOutputs' /\ AORegisters'
  BY DEF AOType, AOOutputs, AORegisters, AOReported, Strobe

\* Every step keeps the story.
LEMMA AONextStory == AOStory /\ [AONext]_aoVars => AOStory'
  <1> SUFFICES ASSUME AOStory, [AONext]_aoVars PROVE AOStory'
    OBVIOUS
  <1> USE DEF AOStory
  <1>0. AOType'
    BY AONextType
  <1>1. ASSUME NEW t \in Caller, NEW c \in Channel, me1600_ao_io_reset_subdevice(t, c)
        PROVE  AOStory'
    <2>1. AOOnTheList'
      BY <1>1 DEF me1600_ao_io_reset_subdevice, AOOnTheList, AOType
    <2>2. AOOutputs' /\ AORegisters'
      BY <1>1 DEF me1600_ao_io_reset_subdevice, AOOutputs, AORegisters, AOReported, Strobe, AOType
    <2>3. AOWatched'
      BY <1>1 DEF me1600_ao_io_reset_subdevice, AOWatched, CancelTask, AOType
    <2> QED
      BY <1>0, <2>1, <2>2, <2>3
  <1>2. ASSUME NEW t \in Caller, NEW c \in Channel, me1600_ao_io_single_config(t, c)
        PROVE  AOStory'
    <2>1. AOOnTheList'
      BY <1>2 DEF me1600_ao_io_single_config, AOOnTheList, AOType
    <2>2. AOOutputs' /\ AORegisters'
      BY <1>2 DEF me1600_ao_io_single_config, AOOutputs, AORegisters, AOReported, Strobe, AOType
    <2>3. AOWatched'
      BY <1>2 DEF me1600_ao_io_single_config, AOWatched, tasks, AOType
    <2> QED
      BY <1>0, <2>1, <2>2, <2>3
  <1>3. ASSUME NEW t \in Caller, NEW c \in Channel, single_read(t, c)
        PROVE  AOStory'
    <2>1. AOOnTheList'
      BY <1>3 DEF single_read, AOOnTheList, TriggerList, AOType
    <2>2. AOOutputs' /\ AORegisters'
      <3>1. CASE TriggerList(sync, shadow)
        BY <1>3, <3>1, AOTriggerReports DEF single_read, AOType
      <3>2. CASE UNCHANGED <<mirror, latch, output, trigger>>
        BY <1>3, <3>2 DEF single_read, AOOutputs, AORegisters, AOReported
      <3> QED
        BY <1>3, <3>1, <3>2 DEF single_read
    <2>3. AOWatched'
      BY <1>3 DEF single_read, AOWatched, tasks
    <2> QED
      BY <1>0, <2>1, <2>2, <2>3
  <1>4. ASSUME NEW t \in Caller, NEW c \in Channel, single_write(t, c)
        PROVE  AOStory'
    BY <1>0, <1>4 DEF single_write, values, tasks, AOOnTheList, AOOutputs, AORegisters, AOReported,
       AOWatched
  <1>5. ASSUME NEW t \in Caller, read_waits(t) \/ wait_again(t) \/ wait_ends(t)
        PROVE  AOStory'
    BY <1>0, <1>5 DEF read_waits, wait_again, wait_ends, values, tasks, AOOnTheList, AOOutputs,
                      AORegisters, AOReported, AOWatched
  <1>6. ASSUME NEW t \in Caller, write_clear(t)
        PROVE  AOStory'
    BY <1>0, <1>6 DEF write_clear, tasks, AOOnTheList, AOOutputs, AORegisters, AOReported, AOWatched
  <1>7. ASSUME NEW t \in Caller, write_apply(t)
        PROVE  AOStory'
    <2> DEFINE c == at[t].on
    <2>1. c \in Channel
      BY <1>7 DEF write_apply, AOType, AOPlace, Outside
    <2>2. PICK v \in Sample : shadow' = [shadow EXCEPT ![c] = v]
      BY <1>7 DEF write_apply
    <2>3. shadow' \in [Channel -> AOAny] /\ UNCHANGED bipolar
      BY <1>0, <1>7 DEF AOType, write_apply
    <2>4. control' = [control EXCEPT ![c] = TRUE] /\ queued' = queued \cup {c} /\ UNCHANGED worker
      BY <1>7 DEF write_apply
    <2>5. CASE TriggeredAt(c, shadow')
      <3>1. AOOnTheList'
        BY <2>1, <2>2, <2>5 DEF TriggeredAt, TriggerList, AOOnTheList, AOType
      <3>2. AOOutputs' /\ AORegisters'
        BY <1>0, <2>3, <2>5, AOTriggerReports DEF TriggeredAt, AOType
      <3>3. AOWatched'
        BY <2>1, <2>4, <2>5 DEF TriggeredAt, AOWatched, AOType
      <3> QED
        BY <1>0, <3>1, <3>2, <3>3
    <2>6. CASE HoldBack(c)
      <3>1. AOOnTheList'
        BY <2>1, <2>2, <2>6 DEF HoldBack, AOOnTheList, AOType
      <3>2. AOOutputs' /\ AORegisters'
        BY <2>3, <2>6 DEF HoldBack, AOOutputs, AORegisters, AOReported
      <3>3. AOWatched'
        BY <2>1, <2>4, <2>6 DEF HoldBack, AOWatched, AOType
      <3> QED
        BY <1>0, <3>1, <3>2, <3>3
    <2>7. CASE Output(c, shadow')
      <3>1. AOOnTheList'
        BY <2>1, <2>2, <2>7 DEF Output, AOOnTheList, AOType
      <3>2. AOOutputs' /\ AORegisters'
        BY <2>1, <2>3, <2>7, AOStrobeReports DEF Output
      <3>3. AOWatched'
        BY <2>1, <2>4, <2>7 DEF Output, AOWatched, AOType
      <3> QED
        BY <1>0, <3>1, <3>2, <3>3
    <2> QED
      BY <1>7, <2>5, <2>6, <2>7 DEF write_apply
  <1>8. ASSUME NEW c \in Channel, me1600_ao_work_control_task(c)
        PROVE  AOStory'
    <2>1. CASE ~control[c] /\ UNCHANGED <<values, status, worker>>
      BY <1>0, <1>8, <2>1 DEF me1600_ao_work_control_task, values, AOOnTheList, AOOutputs,
         AORegisters,
                              AOReported, AOWatched
    <2>2. CASE control[c] /\ c \in jammed /\ worker' = [pc |-> "spins", on |-> c]
                 /\ UNCHANGED <<values, status>>
      <3>1. AOWatched'
        BY <1>8, <2>2 DEF me1600_ao_work_control_task, AOWatched, Quiet
      <3> QED
        BY <1>0, <2>2, <3>1 DEF values, AOOnTheList, AOOutputs, AORegisters, AOReported
    <2>3. ASSUME NEW late \in BOOLEAN, control[c],
                 IF late
                 THEN /\ shadow' = [shadow EXCEPT ![c] = mirror[c]]
                      /\ latch' = [latch EXCEPT ![c] = mirror[c]]
                      /\ trigger' = trigger \ {c}
                 ELSE UNCHANGED <<shadow, latch, trigger>>,
                 status' = IF Ends(c, late) THEN [status EXCEPT ![c] = "end"] ELSE status,
                 worker' = IF late \/ ~HeldBack(c) THEN [pc |-> "signal", on |-> c]
                           ELSE IF status[c] = "run" THEN [pc |-> "again", on |-> c] ELSE Quiet,
                 UNCHANGED <<mirror, sync, output, bipolar>>
          PROVE  AOStory'
      <3>1. AOOnTheList'
        BY <2>3 DEF AOOnTheList, AOType
      <3>2. AOOutputs' /\ AORegisters'
        BY <2>3 DEF AOOutputs, AORegisters, AOReported, AOType
      <3>3. AOWatched'
        BY <1>8, <2>3 DEF me1600_ao_work_control_task, AOWatched, Ends, Quiet, AOType
      <3> QED
        BY <1>0, <3>1, <3>2, <3>3
    <2> QED
      BY <1>8, <2>1, <2>2, <2>3 DEF me1600_ao_work_control_task
  <1>9. ASSUME control_rest
        PROVE  AOStory'
    <2>1. AOWatched'
      BY <1>9 DEF control_rest, AOWatched, Quiet
    <2> QED
      BY <1>0, <1>9, <2>1 DEF control_rest, values, AOOnTheList, AOOutputs, AORegisters, AOReported
  <1>10. CASE AORests \/ UNCHANGED aoVars
    BY <1>0, <1>10 DEF AORests, aoVars, AOOnTheList, AOOutputs, AORegisters, AOReported, AOWatched
  <1> QED
    BY <1>1, <1>2, <1>3, <1>4, <1>5, <1>6, <1>7, <1>8, <1>9, <1>10 DEF AONext

\* HeldBackAndWatched, for every number of channels: a value differs from the one that is
\* output only on a channel that the next trigger outputs, reads return what is output
\* (or 0 for the zero of a bipolar range), and a busy channel has its control task.
THEOREM StoryHolds == AOSpec => []HeldBackAndWatched
  <1>1. AOInit => AOStory
    <2> SUFFICES ASSUME AOInit PROVE AOStory
      OBVIOUS
    <2>1. AOType
      BY AOInitType
    <2> QED
      BY <2>1 DEF AOInit, AOStory, AOOnTheList, AOOutputs, AORegisters, AOReported, AOWatched
  <1>2. AOStory => HeldBackAndWatched
    BY DEF AOStory, HeldBackAndWatched, AOOnTheList, AOOutputs, AOReported, AOWatched
  <1> QED
    BY <1>1, <1>2, AONextStory, PTL DEF AOSpec

=============================================================================
