------------------------------ MODULE InstrStatus ------------------------------
(***************************************************************************)
(* What the generator functions of the C library (GenARMInstr.c,           *)
(* GenThumbInstr.c, GenThumb32Instr.c) decide about an instruction word.   *)
(*                                                                         *)
(* A form [gen, v] stands for the opcodes that take the same path: gen is  *)
(* the branch of the generator function, v the case in it.  Of the word a  *)
(* record of operands is kept: registers t (also d), n, m and a (also t2,  *)
(* dLo, Ra, Rs), the bits P, W and S, the register list, the shift sh of   *)
(* an offset register, and x, which says that the remaining bits meet the  *)
(* condition the function tests.                                           *)
(*                                                                         *)
(* Callers tell apart three results only: VALID, UNSUPPORTED, which the    *)
(* library tries again, and the rest (ALIAS, UNPREDICTABLE, UNDEFINED,     *)
(* INST_UNKNOWN, FIXINST, INVALID), here REJECTED.                         *)
(***************************************************************************)
EXTENDS Naturals, FiniteSets

Status == {"VALID", "UNSUPPORTED", "REJECTED"}

\* The tests that give UNSUPPORTED come last in the function ...
Verdict(bad, unsup) ==
  IF unsup THEN "UNSUPPORTED" ELSE IF bad THEN "REJECTED" ELSE "VALID"

\* ... or come first, and a later test overrides them.
Overruled(bad, unsup) ==
  IF bad THEN "REJECTED" ELSE IF unsup THEN "UNSUPPORTED" ELSE "VALID"

Odd(r) == r % 2 = 1

\* wback of the ARM loads and stores: post-indexed, or W.
Wback(i) == ~i.P \/ i.W

-----------------------------------------------------------------------------
(***************************************************************************)
(* GenARMInstr.c.  x: the immediate makes the word a POP (PUSH).  LDRH     *)
(* stands for LDRH, LDRSB and LDRSH.                                       *)
(***************************************************************************)
Narrow(v) == v \in {"LDRB", "LDRH", "STRB", "STRH"}

ld_imm(v, i) ==
  Verdict(\/ ~i.P /\ i.W
          \/ Wback(i) /\ i.n = i.t
          \/ v = "LDR" /\ i.n = 13 /\ ~i.P /\ ~i.W /\ i.x
          \/ Narrow(v) /\ i.t = 15
          \/ v = "LDRD" /\ (Odd(i.t) \/ i.t = 14 \/ (Wback(i) /\ i.n = i.t + 1)),
          i.n = 15 \/ (v = "LDR" /\ i.t = 15))

ld_unpriv_imm(i) == Verdict(i.n = i.t, 15 \in {i.t, i.n})

ld_reg(v, i) ==
  Verdict(\/ ~i.P /\ i.W
          \/ i.m = 15
          \/ Narrow(v) /\ i.t = 15
          \/ Wback(i) /\ i.n \in {15, i.t}
          \/ v = "LDRD" /\ (Odd(i.t) \/ i.m \in {i.t, i.t + 1} \/ (Wback(i) /\ i.n = i.t + 1)),
          15 \in {i.t, i.n} \/ (v = "LDRD" /\ i.t + 1 = 15) \/ i.m = i.n)

ld_unpriv_reg(i) == Verdict(i.n = i.t, 15 \in {i.t, i.n, i.m} \/ i.m = i.n)

ld_lit(v, i) ==
  Verdict(\/ v = "LDRD" /\ (Odd(i.t) \/ i.t = 14)
          \/ Narrow(v) /\ i.t = 15,
          v = "LDR" /\ i.t = 15)

st_imm(v, i) ==
  Verdict(\/ ~i.P /\ i.W
          \/ i.n = 13 /\ i.P /\ i.W /\ i.x
          \/ Wback(i) /\ i.n \in {15, i.t}
          \/ Narrow(v) /\ i.t = 15
          \/ v = "STRD" /\ (Odd(i.t) \/ i.t = 14 \/ (Wback(i) /\ i.n = i.t + 1)),
          i.n = 15)

st_unpriv_imm(v, i) == Verdict(i.n = i.t \/ (Narrow(v) /\ i.t = 15), i.n = 15)

st_reg(v, i) ==
  Verdict(\/ ~i.P /\ i.W
          \/ i.m = 15
          \/ Narrow(v) /\ i.t = 15
          \/ Wback(i) /\ i.n \in {15, i.t}
          \/ v = "STRD" /\ (Odd(i.t) \/ i.t = 14 \/ (Wback(i) /\ i.n = i.t + 1)),
          i.n = 15 \/ i.m = i.n)

st_unpriv_reg(v, i) ==
  Verdict(i.n = i.t \/ (Narrow(v) /\ i.t = 15), 15 \in {i.n, i.m} \/ i.m = i.n)

ldm(v, i) ==
  Verdict(\/ v = "LDM" /\ i.W /\ i.n = 13 /\ Cardinality(i.list) >= 2
          \/ i.list = {}
          \/ i.W /\ i.n \in i.list,
          15 \in {i.n} \cup i.list)

stm(v, i) ==
  Verdict(\/ v = "STMDB" /\ i.W /\ i.n = 13 /\ Cardinality(i.list) >= 2
          \/ i.list = {}
          \/ i.W /\ i.n \in i.list /\ \E r \in i.list : r < i.n,
          i.n = 15)

push(v, i) ==
  Verdict(\/ v = "a1" /\ Cardinality(i.list) < 2
          \/ v = "a1" /\ 13 \in i.list /\ \E r \in i.list : r < 13
          \/ v = "a2" /\ i.t = 13,
          FALSE)

pop(v, i) ==
  Verdict(\/ v = "a1" /\ (Cardinality(i.list) < 2 \/ 13 \in i.list)
          \/ v = "a2" /\ i.t = 13,
          \/ v = "a1" /\ 15 \in i.list
          \/ v = "a2" /\ i.t = 15)

misc(v, i) ==
  CASE v = "SWP" -> Verdict(15 \in {i.t, i.a} \/ i.n \in {i.t, i.a}, i.n = 15)
    [] v = "CLZ" -> Verdict(15 \in {i.t, i.m}, FALSE)
    [] v = "ADR" -> Verdict(FALSE, i.t = 15)
    [] v = "SVC" -> "UNSUPPORTED"

\* Shifted by register with and without destination, by register alone,
\* anything else with and without destination.
data(v, i) ==
  CASE v = "rsh"       -> Verdict(15 \in {i.n, i.m, i.a}, i.t = 15)
    [] v = "rsh_cmp"   -> Verdict(15 \in {i.n, i.m, i.a}, FALSE)
    [] v = "shift_reg" -> Verdict(15 \in {i.n, i.m}, i.t = 15)
    [] v = "plain"     -> Verdict(FALSE, i.t = 15)
    [] v = "plain_cmp" -> "VALID"

mul(v, i) ==
  CASE v = "mul"  -> Verdict(15 \in {i.n, i.m}, i.t = 15)
    [] v = "mla"  -> Verdict(15 \in {i.n, i.m, i.a}, i.t = 15)
    [] v = "long" -> Verdict(15 \in {i.n, i.m} \/ i.t = i.a, 15 \in {i.t, i.a})

parallel_add_sub(i) == Verdict(15 \in {i.n, i.m}, i.t = 15)

\* x: the bit field is out of range, the mask is empty, R is 0.
uncategorized(v, i) ==
  CASE v = "parallel" -> parallel_add_sub(i)
    [] v = "extadd"   -> Verdict(15 \in {i.n, i.m}, i.t = 15)
    [] v = "ext"      -> Verdict(i.m = 15, i.t = 15)
    [] v = "sat"      -> Verdict(15 \in {i.t, i.n}, FALSE)
    [] v = "pkh"      -> Verdict(15 \in {i.n, i.m}, i.t = 15)
    [] v = "bfx"      -> Verdict(i.n = 15 \/ i.x, i.t = 15)
    [] v = "bfc"      -> Overruled(i.x, i.t = 15)
    [] v = "usada8"   -> Verdict(15 \in {i.n, i.m, i.a}, i.t = 15)
    [] v = "sel"      -> Verdict(15 \in {i.t, i.n, i.m}, FALSE)
    [] v = "mrs"      -> Verdict(i.t = 15, FALSE)
    [] v = "msr_imm"  -> Verdict(FALSE, i.x)
    [] v = "msr_reg"  -> Verdict(i.x \/ i.n = 15, FALSE)
    [] v = "pld_imm"  -> Verdict(i.n = 15, FALSE)
    [] v = "pld_reg"  -> Verdict(i.m = 15 \/ (i.x /\ i.n = 15), FALSE)

empty(v) == IF v = "wait" THEN "UNSUPPORTED" ELSE "VALID"

ldex(v, i) ==
  Verdict(15 \in {i.t, i.n} \/ (v = "D" /\ (i.t = 14 \/ Odd(i.t))), FALSE)

\* a is the register of the result.
stex(v, i) ==
  Verdict(\/ 15 \in {i.a, i.t, i.n}
          \/ i.a \in {i.n, i.t}
          \/ v = "D" /\ (i.t + 1 \in {15, i.a} \/ Odd(i.t)),
          FALSE)

-----------------------------------------------------------------------------
(* GenThumbInstr.c: 16-bit encodings, most with three-bit register fields. *)

thumb_mem(v, i) == Verdict(FALSE, v \in {"LDR_reg", "STR_reg"} /\ i.m = i.n)

thumb_multi_mem(v, i) ==
  Verdict(\A r \in i.list : r > 7,
          (v = "STM" /\ i.n \in i.list) \/ (v = "POP" /\ 15 \in i.list))

thumb_data(v, i) ==
  CASE v = "cmp_hi" -> Verdict((i.n < 8 /\ i.m < 8) \/ 15 \in {i.n, i.m}, FALSE)
    [] v = "hi"     -> Verdict(FALSE, i.t = 15)
    [] v = "lo"     -> Verdict(FALSE, i.t = 15)
    [] v = "cmp"    -> "VALID"

-----------------------------------------------------------------------------
(***************************************************************************)
(* GenThumb32Instr.c.  x: a test on the remaining bits rejects the word;   *)
(* for the indexed loads and stores it is bit U.                           *)
(***************************************************************************)
BadReg(r) == r = 13 \/ r = 15
AnyBad(S) == \E r \in S : BadReg(r)

thumb32_data_shifted_reg(v, i) ==
  CASE v = "dnm" -> Verdict(AnyBad({i.t, i.n, i.m}), FALSE)
    [] v = "PKH" -> Verdict(i.x \/ AnyBad({i.t, i.n, i.m}), FALSE)
    [] v = "TST" -> Verdict(AnyBad({i.n, i.m}), FALSE)
    [] v = "CMP" -> Verdict(i.n = 15 \/ BadReg(i.m), FALSE)
    [] v = "dm"  -> Verdict(AnyBad({i.t, i.m}), FALSE)
    [] v = "MOV" -> Verdict(IF i.S THEN AnyBad({i.t, i.m})
                            ELSE 15 \in {i.t, i.m} \/ (i.t = 13 /\ i.m = 13), FALSE)

thumb32_data_mimm(v, i) ==
  CASE v = "dn"     -> Verdict(i.x \/ AnyBad({i.t, i.n}), FALSE)
    [] v = "ADD_sp" -> Verdict(i.x \/ i.t = 15, FALSE)
    [] v = "TST"    -> Verdict(i.x \/ BadReg(i.n), FALSE)
    [] v = "ORR"    -> Verdict(i.x \/ BadReg(i.t) \/ i.n = 13, FALSE)
    [] v = "MOV"    -> Verdict(i.x \/ BadReg(i.t), FALSE)
    [] v = "CMP"    -> Verdict(i.x \/ i.n = 15, FALSE)

thumb32_data_pimm(v, i) ==
  CASE v = "MOV"    -> Verdict(BadReg(i.t), FALSE)
    [] v = "ADD_sp" -> Verdict(i.t = 15, FALSE)
    [] v = "BFI"    -> Verdict(i.x \/ BadReg(i.t) \/ i.n = 13, FALSE)
    [] v = "dn"     -> Verdict(AnyBad({i.t, i.n}), FALSE)
    [] v = "dnx"    -> Verdict(i.x \/ AnyBad({i.t, i.n}), FALSE)

thumb32_data_reg(v, i) ==
  Verdict(AnyBad(IF v = "dnm" THEN {i.t, i.n, i.m} ELSE {i.t, i.m}), FALSE)

thumb32_data_parallel(i) == Verdict(AnyBad({i.t, i.n, i.m}), FALSE)

thumb32_data_misc(i) == Verdict(AnyBad({i.t, i.m}), FALSE)

thumb32_data_mul(v, i) ==
  CASE v = "mul"  -> Verdict(AnyBad({i.t, i.n, i.m}), FALSE)
    [] v = "mla"  -> Verdict(AnyBad({i.t, i.n, i.m, i.a}), FALSE)
    [] v = "long" -> Verdict(AnyBad({i.t, i.n, i.m, i.a}) \/ i.t = i.a, FALSE)
    [] v = "div"  -> "UNSUPPORTED"

thumb32_multi_mem(v, i) ==
  Verdict(i.n = 15 \/ Cardinality(i.list) < 2 \/ (i.W /\ i.n \in i.list),
          v \in {"LDM", "POP"} /\ 15 \in i.list)

\* The indexed encodings: P, U and not W is the T1 (T2) encoding.
NotIndexed(i) == (i.P /\ i.x /\ ~i.W) \/ (~i.P /\ ~i.W)

thumb32_ld_imm(v, i) ==
  Overruled(CASE v = "LDR"    -> FALSE
              [] v = "LDR_T4" -> NotIndexed(i) \/ (i.W /\ i.n = i.t)
              [] v = "LDRB"   -> BadReg(i.t)
              [] v = "LDRB_T3"-> NotIndexed(i) \/ (i.W /\ i.n = i.t) \/ i.t = 13
              [] v = "POP"    -> i.t = 13
              [] v = "LDRT"   -> BadReg(i.t)
              [] v = "LDRD"   -> \/ ~i.P /\ ~i.W
                                 \/ i.W /\ i.n \in {i.t, i.a}
                                 \/ AnyBad({i.t, i.a}) \/ i.t = i.a,
            15 \in {i.n, i.t})

thumb32_mem_reg(v, i) ==
  IF BadReg(i.m) \/ (Narrow(v) /\ i.t = 13)
    THEN "REJECTED"
    ELSE Verdict(i.n = 15, i.t = 15 \/ i.n = i.m)

thumb32_mem_lit(v, i) ==
  CASE v = "LDR"  -> Verdict(FALSE, i.t = 15)
    [] v = "LDRD" -> Verdict(i.x \/ AnyBad({i.t, i.a}) \/ i.t = i.a, FALSE)
    [] v = "LDRB" -> Verdict(BadReg(i.t), FALSE)

thumb32_st_imm(v, i) ==
  Verdict(\/ 15 \in {i.n, i.t}
          \/ v = "STR_T4" /\ (NotIndexed(i) \/ (i.W /\ i.n = i.t))
          \/ v = "STRB_T3" /\ (NotIndexed(i) \/ (i.W /\ i.n = i.t) \/ BadReg(i.t))
          \/ v \in {"STRB", "PUSH"} /\ BadReg(i.t)
          \/ v = "STRD" /\ (\/ ~i.P /\ ~i.W
                            \/ i.W /\ i.n \in {i.t, i.a}
                            \/ AnyBad({i.t, i.a})),
          FALSE)

\* m is the register of the result.
thumb32_mem_ex(v, i) ==
  Verdict(\/ i.n = 15
          \/ v = "LDREXD" /\ (AnyBad({i.t, i.a}) \/ i.t = i.a)
          \/ v = "LDREX"  /\ BadReg(i.t)
          \/ v = "STREX"  /\ (AnyBad({i.m, i.t}) \/ i.m \in {i.n, i.t})
          \/ v = "STREXD" /\ (AnyBad({i.m, i.t, i.a}) \/ i.m \in {i.n, i.t, i.a}),
          FALSE)

thumb32_mem_preload(v, i) ==
  Verdict((v \in {"imm", "reg"} /\ i.n = 15) \/ (v = "reg" /\ BadReg(i.m)), FALSE)

thumb32_sr(v, i) ==
  CASE v = "MSR" -> Verdict(i.x \/ BadReg(i.n), FALSE)
    [] v = "MRS" -> Verdict(BadReg(i.t), FALSE)
=============================================================================
