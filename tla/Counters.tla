------------------------------ MODULE Counters ------------------------------
(***************************************************************************)
(* The 8254 counters of the ME-1400, ME-4600 and ME-8100.  A chip has      *)
(* three counters, n = 0 .. 2, and one control register; on the ME-1400    *)
(* the clock sources of several chips share a register.  What a counter    *)
(* holds is its mode and the two bytes of its value, written one after the *)
(* other; the counting itself is not modelled.                             *)
(***************************************************************************)
EXTENDS DigitalIO

Ctr(k, n)      == <<"ctr", 3 * k + n>>        \* mode of counter n of chip k
Low8(k, n)     == <<"low8", 3 * k + n>>       \* the two bytes of its value
High8(k, n)    == <<"high8", 3 * k + n>>
ClkReg(r)      == <<"clock", r>>
CtrLock(k)     == <<"ctr", k>>                \* ctrl_reg_lock
ClkLock        == <<"clock", 0>>              \* clk_src_reg_lock

ModeSet        == {"m0", "m1", "m2", "m3", "m4", "m5"}
Refs           == {"external", "previous", "1mhz", "10mhz", "none"}
CounterArg     == [mode : ModeSet \cup {"disable", "input"}, ref : Refs, flag : {"none", "bit"},
                   type : {"none", "sw"}, chain : {"none", "default"}, edge : {"none"}, channel : {0, 1}]

ModeBit(m)     == {<<"mode", m>>}
SetMode(k, n, m) == Put(Ctr(k, n), UNION {ModeBit(x) : x \in ModeSet}, ModeBit(m))
Bytes          == {<<"value", v>> : v \in Levels}
SetValue(k, n, v) == Put(Low8(k, n), Bytes, {<<"value", v>>}) \o Put(High8(k, n), Bytes, {<<"value", v>>})

-----------------------------------------------------------------------------
(* Clock sources.  Per type of board: the register, the bits of a counter  *)
(* in it and the references it accepts.                                    *)

me1400AB_get_clk_src_reg(k) == ClkReg(0)
me1400CD_get_clk_src_reg(k) == ClkReg(((k % 5) \div 2) + (3 * (k \div 5)))

Quarz(k)   == {<<"quarz", k>>}
TenMHz(k)  == {<<"10mhz", k>>}
Prev(k, n) == {<<"prev", 3 * k + n>>}

AB_bits(k, n) == IF n = 0 THEN Quarz(k) \cup TenMHz(k) ELSE Prev(k, n)
AB_accepts(n, ref) == ref \in {"external"} \cup (IF n = 0 THEN {"1mhz", "10mhz"} ELSE {"previous"})

\* What is cleared and what is set.  10 MHz for chip B switches chip A.
\* (1 MHz is a zero bit that is "cleared" without effect.)
AB_clear(k, n, ref) == IF ref = "external" THEN (IF n = 0 THEN Quarz(k) ELSE Prev(k, n)) ELSE {}
AB_set(k, n, ref) == CASE ref = "previous" -> Prev(k, n) [] ref = "1mhz" -> Quarz(k)
                       [] ref = "10mhz" -> Quarz(0) \cup TenMHz(0) [] OTHER -> {}

me1400_ab_ref_config(k, n, ref) ==
  LET r == me1400AB_get_clk_src_reg(k) IN
  Under(ClkLock, Load(r) \o IF AB_accepts(n, ref)
                            THEN Store(r, AB_clear(k, n, ref) \cup AB_set(k, n, ref), AB_set(k, n, ref))
                            ELSE <<>>)

\* Two chips share a register, in the places "ACE" (0) and "BD" (1).  Counter 0 has
\* two bits, both set for the previous counter, which it accepts on every chip.
OneMHz(p)     == {<<"1mhz", p>>}
CD_place(k)   == k % 2
CD_bits(k, n) == LET p == CD_place(k) IN IF n = 0 THEN OneMHz(p) \cup TenMHz(p) ELSE Prev(p, n)
CD_accepts(n, ref) == ref \in {"external", "previous"} \cup (IF n = 0 THEN {"1mhz", "10mhz"} ELSE {})
CD_set(k, n, ref) == CASE ref = "external" -> {} [] ref = "previous" -> CD_bits(k, n)
                       [] ref = "1mhz" -> OneMHz(CD_place(k)) [] ref = "10mhz" -> TenMHz(CD_place(k))

\* Mutant: the bits of the last clock are not masked out first.
me1400_cd_ref_config_adds(k, n, ref) ==
  LET r == me1400CD_get_clk_src_reg(k) IN
  Under(ClkLock, Load(r) \o IF CD_accepts(n, ref) THEN Store(r, CD_set(k, n, ref), CD_set(k, n, ref)) ELSE <<>>)

me1400_cd_ref_config(k, n, ref) ==
  LET r == me1400CD_get_clk_src_reg(k) IN
  Under(ClkLock, Load(r) \o IF CD_accepts(n, ref) THEN Store(r, CD_bits(k, n), CD_set(k, n, ref)) ELSE <<>>)

me_ref_config(ref) == ref = "external"

\* The clock that feeds counter n of chip k while its register holds c, by the names of
\* the bits in me8254_reg.h: the chips A to E of the second half of an ME-1400D have
\* the bits of the first half's A to E.
Fed(type, k, n, c) ==
  LET p == IF type = "ab" THEN k ELSE (k % 5) % 2 IN
  CASE type = "plain" -> "external"
    [] type # "plain" /\ n > 0 -> IF Prev(p, n) \subseteq c THEN "previous" ELSE "external"
    [] type = "ab" /\ n = 0 -> IF ~(Quarz(p) \subseteq c) THEN "external"
                               ELSE IF TenMHz(p) \subseteq c THEN "10mhz" ELSE "1mhz"
    [] type = "cd" /\ n = 0 -> IF TenMHz(p) \subseteq c
                               THEN (IF OneMHz(p) \subseteq c THEN "previous" ELSE "10mhz")
                               ELSE (IF OneMHz(p) \subseteq c THEN "1mhz" ELSE "external")

-----------------------------------------------------------------------------
(* The methods, for a board of type "ab", "cd" or "plain".                 *)

me8254_io_reset_subdevice(i, type, k, n) ==
  LET r    == IF type = "ab" THEN me1400AB_get_clk_src_reg(k) ELSE me1400CD_get_clk_src_reg(k)
      bits == IF type = "ab" THEN AB_bits(k, n) ELSE CD_bits(k, n)
  IN Under(Lock(i), Under(CtrLock(k), SetMode(k, n, "m0")) \o SetValue(k, n, "low")
                    \o Under(ClkLock, IF type = "plain" THEN <<>> ELSE Rmw(r, bits, {})))

\* The control register is written without its lock, and before the
\* reference is looked at: a call that is refused for it changes the mode.
me8254_io_single_config(i, type, k, n, a) ==
  IF a.flag # "none" \/ ~Triggered(a) \/ a.mode \notin ModeSet \cup {"disable"} THEN Refused
  ELSE IF a.mode = "disable" THEN me8254_io_reset_subdevice(i, type, k, n)
  ELSE IF a.channel # 0 THEN Refused
  ELSE Under(Lock(i), SetMode(k, n, a.mode)
                      \o (CASE type = "ab" -> me1400_ab_ref_config(k, n, a.ref)
                            [] type = "cd" -> me1400_cd_ref_config(k, n, a.ref)
                            [] OTHER       -> <<>>))

\* The status of the counter, then the latched value, byte after byte.
me8254_io_single_read(i, k, n, a) ==
  IF a.flag # "none" \/ a.channel # 0 THEN Refused
  ELSE Under(Lock(i), Under(CtrLock(k), Read(Ctr(k, n), {}) \o Read(Low8(k, n), Bytes) \o Read(High8(k, n), Bytes)))

\* Mutant: only the subdevice that is reset is locked.
me8254_single_write_unlocked(i, k, n, a, v) ==
  IF a.flag # "none" \/ a.channel # 0 THEN Refused ELSE SetValue(k, n, v)

me8254_io_single_write(i, k, n, a, v) ==
  IF a.flag # "none" \/ a.channel # 0 THEN Refused ELSE Under(Lock(i), SetValue(k, n, v))

me8254_query_number_channels == 1
me8254_query_subdevice_type  == "ctr"

\* The references the caps announce.
me8254_query_subdevice_caps(type, k, n) ==
  CASE type = "ab" -> {"external"} \cup (IF n = 0 THEN {"1mhz", "10mhz"} ELSE {"previous"})
    [] type = "cd" -> {"external"} \cup (IF n = 0 THEN {"1mhz", "10mhz"} ELSE {})
                      \cup (IF n = 0 /\ k \in {0, 5} THEN {} ELSE {"previous"})
    [] OTHER       -> {"external"}

\* The references a configuration accepts.
Accepted(type, n) ==
  {ref \in Refs : CASE type = "ab" -> AB_accepts(n, ref) [] type = "cd" -> CD_accepts(n, ref)
                    [] OTHER -> me_ref_config(ref)}

me8254_constr(i, type, k, n) ==
  [Made(me8254_io_reset_subdevice(i, type, k, n), LAMBDA a : Refused,
        LAMBDA a : me8254_io_single_read(i, k, n, a), LAMBDA a, v : me8254_io_single_write(i, k, n, a, v),
        me8254_query_number_channels, me8254_query_subdevice_type, me8254_query_subdevice_caps(type, k, n))
   EXCEPT !.config = [a \in CounterArg |-> me8254_io_single_config(i, type, k, n, a)]]

=============================================================================
