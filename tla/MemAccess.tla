------------------------------- MODULE MemAccess -------------------------------
(***************************************************************************)
(* The code the C library puts before a memory access (GenHelper.c), and   *)
(* what is known of the registers when that code has run.                  *)
(*                                                                         *)
(* A mask is the set of its bits.  Of a register the bits known to be one  *)
(* and the bits known to be zero are kept, and how often the value was     *)
(* moved since: after drift > 0 moves the bits are those of a value at     *)
(* most drift * 4 KB away.                                                 *)
(***************************************************************************)
EXTENDS InstrForms, Sequences

Word32 == 0 .. 31

\* set_default_option: 0x03fc0000 and 0xfffc0000.
mem_base_val == 18 .. 25
mem_base_mask == 18 .. 31

unset_mask == mem_base_mask \ mem_base_val
set_mask == mem_base_mask \cap mem_base_val

-----------------------------------------------------------------------------
(* Lines of generated code.                                                 *)

\* d is the register written, s the one read, mask the immediate.
Line(tag, op, d, s, mask) == [tag |-> tag, op |-> op, d |-> d, s |-> s, mask |-> mask]

TheWord == Line("INST", "word", 0, 0, {})

\* is_imm_encodable: at most eight bits between the zeros at both ends of
\* the word, or around the middle of it.
ZerosAtEnds(imm) ==
  IF imm = {} THEN 64
  ELSE LET lo == CHOOSE k \in imm : \A j \in imm : k <= j
           hi == CHOOSE k \in imm : \A j \in imm : k >= j
       IN  lo + (31 - hi)

ZerosInMiddle(imm) ==
  LET below == {k \in imm : k < 16}
      above == imm \ below
      hi == CHOOSE k \in below : \A j \in below : k >= j
      lo == CHOOSE k \in above : \A j \in above : k <= j
  IN  (IF below = {} THEN 16 ELSE 15 - hi) + (IF above = {} THEN 16 ELSE lo - 16)

is_imm_encodable(imm, isa) == isa = ARM /\ (ZerosAtEnds(imm) >= 24 \/ ZerosInMiddle(imm) >= 24)

\* One masking operation of the ARM code: with an immediate when it fits.
ArmMask(op, base, tmp, mask) ==
  IF is_imm_encodable(mask, ARM)
    THEN <<Line("CODE", op, base, base, mask)>>
    ELSE <<Line("CODE", "ldr", tmp, tmp, mask),
           Line("CODE", IF op = "bic" THEN "bic_reg" ELSE "orr_reg", base, tmp, {})>>

Masking(isa, base, tmp, unset) ==
  IF isa = THUMB
    THEN <<Line("CODE", "ldr", tmp, tmp, unset), Line("CODE", "bic_reg", base, tmp, {}),
           Line("CODE", "ldr", tmp, tmp, set_mask), Line("CODE", "orr_reg", base, tmp, {})>>
    ELSE ArmMask("bic", base, tmp, unset) \o ArmMask("orr", base, tmp, set_mask)

\* fix_mem_base: the code that moves the base into the data.  A base above
\* r7 is worked on in r2 in Thumb code.
fix_mem_base(isa, reg_base, forceAlign) ==
  LET high == isa = THUMB /\ reg_base > 7
      base == IF high THEN 2 ELSE reg_base
      tmp  == IF reg_base # 0 THEN 0 ELSE 1
      unset == IF forceAlign THEN unset_mask \cup {0, 1} ELSE unset_mask
  IN  (IF high THEN <<Line("INST", "mov", base, reg_base, {})>> ELSE <<>>)
        \o Masking(isa, base, tmp, unset)
        \o (IF forceAlign THEN <<Line("INST", "bic", base, base, {0, 1})>> ELSE <<>>)
        \o (IF high THEN <<Line("INST", "mov", reg_base, base, {})>> ELSE <<>>)

-----------------------------------------------------------------------------
(***************************************************************************)
(* get_rand_mem_offset: the bits a random offset register may have, such   *)
(* that its value shifted by the instruction has 12 bits.  sh is <<type,   *)
(* amount>>: 0 LSL, 1 LSR, 2 ASR, 3 ROR, and <<3, 0>> is RRX.              *)
(***************************************************************************)
shift_mask(sh) ==
  LET n == sh[2]
  IN  CASE sh[1] = 0 -> IF n < 12 THEN 0 .. 11 - n \cup {k \in Word32 : k >= 32 - n}
                                  ELSE {k \in Word32 : k >= 32 - n}
        [] sh[1] = 1 -> IF n < 20 THEN 0 .. 11 + n ELSE Word32
        [] sh[1] = 2 -> IF n < 20 THEN 0 .. 11 + n ELSE 0 .. 30
        [] sh[1] = 3 -> IF n = 0 THEN 0 .. 12
                        ELSE {k \in Word32 : n <= k /\ k <= n + 11} \cup {k \in Word32 : k <= n - 21}

\* LSR and ASR by 0 encode a shift by 32.
Amount(sh) == IF sh[1] \in {1, 2} /\ sh[2] = 0 THEN <<sh[1], 32>> ELSE sh

RRX == <<3, 0>>

\* The bits of the offset line: the masks of the opcodes without a shift are
\* mem_offset_val and, of a double access, mem_offset_val without 3.
OffsetMask(f, i) ==
  IF Shifted(f) THEN shift_mask(Amount(i.sh))
  ELSE IF f.v \in {"LDRD", "STRD"} THEN 2 .. 11 ELSE 0 .. 11

\* The processor: the bits a value with bits M may have once shifted.  With
\* carry, RRX also sets bit 31.
ShiftedBits(sh, M, carry) ==
  LET n == sh[2]
  IN  CASE sh[1] = 0 -> {k \in Word32 : k - n \in M}
        [] sh[1] = 1 -> {k \in Word32 : k + n \in M}
        [] sh[1] = 2 -> {k \in Word32 : k + n \in M} \cup (IF 31 \in M THEN {k \in Word32 : k >= 31 - n} ELSE {})
        [] sh[1] = 3 -> IF n = 0 THEN {k \in 0 .. 30 : k + 1 \in M} \cup (IF carry THEN {31} ELSE {})
                        ELSE {k \in Word32 : (k + n) % 32 \in M}

-----------------------------------------------------------------------------
(* The code gen_instr leaves in instr_buf.                                  *)

\* The line that loads the offset register.
OffsetLine(f, i) == <<Line("INST", "ldr", i.m, i.m, OffsetMask(f, i))>>

Prefix(f, i, isa, status) ==
  IF HasBase(f) /\ (status # "UNSUPPORTED" \/ FixAnyway(f))
    THEN fix_mem_base(isa, Base(f, i), ForceAlign(f)) \o (IF OffsetReg(f) THEN OffsetLine(f, i) ELSE <<>>)
    ELSE <<>>

\* get_rand_mem_offset makes a rotation by carry conditional on carry clear.
CondAfter(f, i, status, cond) ==
  IF OffsetReg(f) /\ Shifted(f) /\ status # "UNSUPPORTED" /\ Amount(i.sh) = RRX THEN 3 ELSE cond

-----------------------------------------------------------------------------
(* Values of registers.                                                     *)

Unknown == [ones |-> {}, zeros |-> {}, drift |-> 0]

\* A random value of these bits.
Within(mask) == [ones |-> {}, zeros |-> Word32 \ mask, drift |-> 0]

\* The literal mask.
Literal(mask) == [ones |-> mask, zeros |-> Word32 \ mask, drift |-> 0]

\* getMemLimit: the addresses 0x03fc0000 to 0x03ffffff.
MemLimit == [ones |-> 18 .. 25, zeros |-> 26 .. 31]

\* setReg: a random aligned address of the data.
DataAddress == [ones |-> MemLimit.ones, zeros |-> MemLimit.zeros \cup {0, 1}, drift |-> 0]

\* A masking operation on a moved value only leaves the bits it writes.
Still(v, mask) == IF v.drift = 0 \/ mask \subseteq {0, 1} THEN v ELSE Unknown

Clear(v, mask) == [Still(v, mask) EXCEPT !.ones = @ \ mask, !.zeros = @ \cup mask]
Set(v, mask) == [Still(v, mask) EXCEPT !.ones = @ \cup mask, !.zeros = @ \ mask]

\* Writeback adds or subtracts less than 4 KB.
Moved(v) == [ones |-> v.ones \cap 12 .. 31, zeros |-> v.zeros \cap 12 .. 31, drift |-> v.drift + 1]

\* In the data but for drift * 4 KB.
InData(v) == MemLimit.ones \subseteq v.ones /\ MemLimit.zeros \subseteq v.zeros
Aligned(v) == {0, 1} \subseteq v.zeros

\* The effect of a line; the operands of bic and orr were loaded before, so
\* all their bits are known.
Executed(regs, l, f, i) ==
  CASE l.op = "mov"     -> [regs EXCEPT ![l.d] = regs[l.s]]
    [] l.op = "ldr"     -> [regs EXCEPT ![l.d] = IF l.tag = "CODE" THEN Literal(l.mask) ELSE Within(l.mask)]
    [] l.op = "bic"     -> [regs EXCEPT ![l.d] = Clear(@, l.mask)]
    [] l.op = "orr"     -> [regs EXCEPT ![l.d] = Set(@, l.mask)]
    [] l.op = "bic_reg" -> [regs EXCEPT ![l.d] = Clear(@, regs[l.s].ones)]
    [] l.op = "orr_reg" -> [regs EXCEPT ![l.d] = Set(@, regs[l.s].ones)]
    [] l.op = "word"    -> [r \in DOMAIN regs |->
                              IF r \in Loads(f, i) THEN Unknown
                              ELSE IF r \in Writes(f, i) THEN Moved(regs[r])
                              ELSE regs[r]]

\* The registers after the first n of the lines ls.
After(regs, ls, n, f, i) ==
  LET run[k \in 0 .. n] == IF k = 0 THEN regs ELSE Executed(run[k - 1], ls[k], f, i)
  IN  run[n]
=============================================================================
