----------------------------- MODULE RitLibProofs -----------------------------
(***************************************************************************)
(* Proofs about the random instruction generator, for every bound on the   *)
(* tries and every choice of registers, lists, shifts and conditions.      *)
(*                                                                         *)
(* The inductive invariant follows one call through the library: the       *)
(* arguments (Asked), the opcode taken for them (Chosen), the word (Fits:  *)
(* within its encoding from one try to the next), what is known of it once *)
(* its status is VALID, and the two calls genALUwritePC makes for a word.  *)
(* It rests on what holds of every single word that may be drawn: a VALID  *)
(* word does not write pc, the code before it fits into instr_buf, and a   *)
(* shifted offset has 12 bits (InstrForms, MemAccess).                     *)
(*                                                                         *)
(* Where an access goes takes a second invariant (DInv), about the         *)
(* registers: the code in instr_buf is run line by line on what is known   *)
(* of them, with and without the lines parseRIT drops.  The run of a       *)
(* sequence of lines is the recursive function of After, which is shown to *)
(* exist and to be unique by a least counterexample; the rest is about     *)
(* sequences to which one line is added.                                   *)
(***************************************************************************)
EXTENDS RitLib, FiniteSetTheorems, SequenceTheorems, WellFoundedInduction, TLAPS

\* What every drawn word of form f is like.
Encoded(f, i) ==
  /\ i \in Words
  /\ Low(f) => i.t \in 0 .. 7 /\ i.n \in 0 .. 7 \cup {13}
  /\ f.gen = "thumb_multi_mem" /\ f.v # "POP" => 15 \notin i.list

\* The generator function gives one of its results, and VALID only if the
\* word does not write pc.
KeepsPc(f, i) ==
  gen_status(f, i) \in Status /\ (gen_status(f, i) = "VALID" => 15 \notin Writes(f, i))

\* A form names a branch of a generator function and a case of it.
LEMMA FormVariant ==
  ASSUME NEW f \in Forms
  PROVE  f.gen \in DOMAIN Variants /\ f.v \in Variants[f.gen]
BY DEF Forms

\* ARM loads and stores that are VALID do not write pc, as GenARMInstr.c
\* tests the registers they load and the base they move.
LEMMA ArmMemSafe ==
  ASSUME NEW f \in Forms, NEW i, Encoded(f, i),
         f.gen \in {"ld_imm", "ld_unpriv_imm", "ld_reg", "ld_unpriv_reg",
                    "ld_lit", "st_imm", "st_unpriv_imm", "st_reg",
                    "st_unpriv_reg", "ldm", "stm", "push", "pop", "ldex",
                    "stex"}
  PROVE  KeepsPc(f, i)
<1>1. CASE f.gen = "ld_imm"
  <2>1. f.v \in {"LDR", "LDRB", "LDRD"}
    BY <1>1, FormVariant DEF Variants
  <2>2. gen_status(f, i) = ld_imm(f.v, i)
    BY <1>1 DEF gen_status, gen_arm_instr, T16Gens, T32Gens, NA
  <2>3. ld_imm(f.v, i) \in Status
    BY <2>1 DEF ld_imm, Verdict, Status
  <2>4. ASSUME ld_imm(f.v, i) = "VALID"
        PROVE  15 \notin Writes(f, i)
    BY <1>1, <2>1, <2>4
    DEF ld_imm, Verdict, Wback, Narrow, Odd,
        Writes, Loads, LoadsNext, WritesBack, Compares, Kind, HasList,
        OutputFields, SpBase, Base, Encoded, Words
  <2>5. QED
    BY <2>2, <2>3, <2>4 DEF KeepsPc
<1>2. CASE f.gen = "ld_unpriv_imm"
  <2>1. f.v \in {"LDRT"}
    BY <1>2, FormVariant DEF Variants
  <2>2. gen_status(f, i) = ld_unpriv_imm(i)
    BY <1>2 DEF gen_status, gen_arm_instr, T16Gens, T32Gens, NA
  <2>3. ld_unpriv_imm(i) \in Status
    BY <2>1 DEF ld_unpriv_imm, Verdict, Status
  <2>4. ASSUME ld_unpriv_imm(i) = "VALID"
        PROVE  15 \notin Writes(f, i)
    BY <1>2, <2>1, <2>4
    DEF ld_unpriv_imm, Verdict,
        Writes, Loads, LoadsNext, WritesBack, Compares, Kind, HasList,
        OutputFields, SpBase, Base, Encoded, Words
  <2>5. QED
    BY <2>2, <2>3, <2>4 DEF KeepsPc
<1>3. CASE f.gen = "ld_reg"
  <2>1. f.v \in {"LDR", "LDRB", "LDRH", "LDRD"}
    BY <1>3, FormVariant DEF Variants
  <2>2. gen_status(f, i) = ld_reg(f.v, i)
    BY <1>3 DEF gen_status, gen_arm_instr, T16Gens, T32Gens, NA
  <2>3. ld_reg(f.v, i) \in Status
    BY <2>1 DEF ld_reg, Verdict, Status
  <2>4. ASSUME ld_reg(f.v, i) = "VALID"
        PROVE  15 \notin Writes(f, i)
    BY <1>3, <2>1, <2>4
    DEF ld_reg, Verdict, Wback, Narrow, Odd,
        Writes, Loads, LoadsNext, WritesBack, Compares, Kind, HasList,
        OutputFields, SpBase, Base, Encoded, Words
  <2>5. QED
    BY <2>2, <2>3, <2>4 DEF KeepsPc
<1>4. CASE f.gen = "ld_unpriv_reg"
  <2>1. f.v \in {"LDRT", "LDRHT"}
    BY <1>4, FormVariant DEF Variants
  <2>2. gen_status(f, i) = ld_unpriv_reg(i)
    BY <1>4 DEF gen_status, gen_arm_instr, T16Gens, T32Gens, NA
  <2>3. ld_unpriv_reg(i) \in Status
    BY <2>1 DEF ld_unpriv_reg, Verdict, Status
  <2>4. ASSUME ld_unpriv_reg(i) = "VALID"
        PROVE  15 \notin Writes(f, i)
    BY <1>4, <2>1, <2>4
    DEF ld_unpriv_reg, Verdict,
        Writes, Loads, LoadsNext, WritesBack, Compares, Kind, HasList,
        OutputFields, SpBase, Base, Encoded, Words
  <2>5. QED
    BY <2>2, <2>3, <2>4 DEF KeepsPc
<1>5. CASE f.gen = "ld_lit"
  <2>1. f.v \in {"LDR", "LDRB", "LDRD"}
    BY <1>5, FormVariant DEF Variants
  <2>2. gen_status(f, i) = ld_lit(f.v, i)
    BY <1>5 DEF gen_status, gen_arm_instr, T16Gens, T32Gens, NA
  <2>3. ld_lit(f.v, i) \in Status
    BY <2>1 DEF ld_lit, Verdict, Status
  <2>4. ASSUME ld_lit(f.v, i) = "VALID"
        PROVE  15 \notin Writes(f, i)
    BY <1>5, <2>1, <2>4
    DEF ld_lit, Verdict, Narrow, Odd,
        Writes, Loads, LoadsNext, WritesBack, Compares, Kind, HasList,
        OutputFields, SpBase, Base, Encoded, Words
  <2>5. QED
    BY <2>2, <2>3, <2>4 DEF KeepsPc
<1>6. CASE f.gen = "st_imm"
  <2>1. f.v \in {"STR", "STRB", "STRD"}
    BY <1>6, FormVariant DEF Variants
  <2>2. gen_status(f, i) = st_imm(f.v, i)
    BY <1>6 DEF gen_status, gen_arm_instr, T16Gens, T32Gens, NA
  <2>3. st_imm(f.v, i) \in Status
    BY <2>1 DEF st_imm, Verdict, Status
  <2>4. ASSUME st_imm(f.v, i) = "VALID"
        PROVE  15 \notin Writes(f, i)
    BY <1>6, <2>1, <2>4
    DEF st_imm, Verdict, Wback, Narrow, Odd,
        Writes, Loads, LoadsNext, WritesBack, Compares, Kind, HasList,
        OutputFields, SpBase, Base, Encoded, Words
  <2>5. QED
    BY <2>2, <2>3, <2>4 DEF KeepsPc
<1>7. CASE f.gen = "st_unpriv_imm"
  <2>1. f.v \in {"STR", "STRB"}
    BY <1>7, FormVariant DEF Variants
  <2>2. gen_status(f, i) = st_unpriv_imm(f.v, i)
    BY <1>7 DEF gen_status, gen_arm_instr, T16Gens, T32Gens, NA
  <2>3. st_unpriv_imm(f.v, i) \in Status
    BY <2>1 DEF st_unpriv_imm, Verdict, Status
  <2>4. ASSUME st_unpriv_imm(f.v, i) = "VALID"
        PROVE  15 \notin Writes(f, i)
    BY <1>7, <2>1, <2>4
    DEF st_unpriv_imm, Verdict, Narrow,
        Writes, Loads, LoadsNext, WritesBack, Compares, Kind, HasList,
        OutputFields, SpBase, Base, Encoded, Words
  <2>5. QED
    BY <2>2, <2>3, <2>4 DEF KeepsPc
<1>8. CASE f.gen = "st_reg"
  <2>1. f.v \in {"STR", "STRB", "STRH", "STRD"}
    BY <1>8, FormVariant DEF Variants
  <2>2. gen_status(f, i) = st_reg(f.v, i)
    BY <1>8 DEF gen_status, gen_arm_instr, T16Gens, T32Gens, NA
  <2>3. st_reg(f.v, i) \in Status
    BY <2>1 DEF st_reg, Verdict, Status
  <2>4. ASSUME st_reg(f.v, i) = "VALID"
        PROVE  15 \notin Writes(f, i)
    BY <1>8, <2>1, <2>4
    DEF st_reg, Verdict, Wback, Narrow, Odd,
        Writes, Loads, LoadsNext, WritesBack, Compares, Kind, HasList,
        OutputFields, SpBase, Base, Encoded, Words
  <2>5. QED
    BY <2>2, <2>3, <2>4 DEF KeepsPc
<1>9. CASE f.gen = "st_unpriv_reg"
  <2>1. f.v \in {"STR", "STRH"}
    BY <1>9, FormVariant DEF Variants
  <2>2. gen_status(f, i) = st_unpriv_reg(f.v, i)
    BY <1>9 DEF gen_status, gen_arm_instr, T16Gens, T32Gens, NA
  <2>3. st_unpriv_reg(f.v, i) \in Status
    BY <2>1 DEF st_unpriv_reg, Verdict, Status
  <2>4. ASSUME st_unpriv_reg(f.v, i) = "VALID"
        PROVE  15 \notin Writes(f, i)
    BY <1>9, <2>1, <2>4
    DEF st_unpriv_reg, Verdict, Narrow,
        Writes, Loads, LoadsNext, WritesBack, Compares, Kind, HasList,
        OutputFields, SpBase, Base, Encoded, Words
  <2>5. QED
    BY <2>2, <2>3, <2>4 DEF KeepsPc
<1>10. CASE f.gen = "ldm"
  <2>1. f.v \in {"LDM", "LDMDA"}
    BY <1>10, FormVariant DEF Variants
  <2>2. gen_status(f, i) = ldm(f.v, i)
    BY <1>10 DEF gen_status, gen_arm_instr, T16Gens, T32Gens, NA
  <2>3. ldm(f.v, i) \in Status
    BY <2>1 DEF ldm, Verdict, Status
  <2>4. ASSUME ldm(f.v, i) = "VALID"
        PROVE  15 \notin Writes(f, i)
    BY <1>10, <2>1, <2>4
    DEF ldm, Verdict,
        Writes, Loads, LoadsNext, WritesBack, Compares, Kind, HasList,
        OutputFields, SpBase, Base, Encoded, Words
  <2>5. QED
    BY <2>2, <2>3, <2>4 DEF KeepsPc
<1>11. CASE f.gen = "stm"
  <2>1. f.v \in {"STM", "STMDB"}
    BY <1>11, FormVariant DEF Variants
  <2>2. gen_status(f, i) = stm(f.v, i)
    BY <1>11 DEF gen_status, gen_arm_instr, T16Gens, T32Gens, NA
  <2>3. stm(f.v, i) \in Status
    BY <2>1 DEF stm, Verdict, Status
  <2>4. ASSUME stm(f.v, i) = "VALID"
        PROVE  15 \notin Writes(f, i)
    BY <1>11, <2>1, <2>4
    DEF stm, Verdict,
        Writes, Loads, LoadsNext, WritesBack, Compares, Kind, HasList,
        OutputFields, SpBase, Base, Encoded, Words
  <2>5. QED
    BY <2>2, <2>3, <2>4 DEF KeepsPc
<1>12. CASE f.gen = "push"
  <2>1. f.v \in {"a1", "a2"}
    BY <1>12, FormVariant DEF Variants
  <2>2. gen_status(f, i) = push(f.v, i)
    BY <1>12 DEF gen_status, gen_arm_instr, T16Gens, T32Gens, NA
  <2>3. push(f.v, i) \in Status
    BY <2>1 DEF push, Verdict, Status
  <2>4. ASSUME push(f.v, i) = "VALID"
        PROVE  15 \notin Writes(f, i)
    BY <1>12, <2>1, <2>4
    DEF push, Verdict,
        Writes, Loads, LoadsNext, WritesBack, Compares, Kind, HasList,
        OutputFields, SpBase, Base, Encoded, Words
  <2>5. QED
    BY <2>2, <2>3, <2>4 DEF KeepsPc
<1>13. CASE f.gen = "pop"
  <2>1. f.v \in {"a1", "a2"}
    BY <1>13, FormVariant DEF Variants
  <2>2. gen_status(f, i) = pop(f.v, i)
    BY <1>13 DEF gen_status, gen_arm_instr, T16Gens, T32Gens, NA
  <2>3. pop(f.v, i) \in Status
    BY <2>1 DEF pop, Verdict, Status
  <2>4. ASSUME pop(f.v, i) = "VALID"
        PROVE  15 \notin Writes(f, i)
    BY <1>13, <2>1, <2>4
    DEF pop, Verdict,
        Writes, Loads, LoadsNext, WritesBack, Compares, Kind, HasList,
        OutputFields, SpBase, Base, Encoded, Words
  <2>5. QED
    BY <2>2, <2>3, <2>4 DEF KeepsPc
<1>14. CASE f.gen = "ldex"
  <2>1. f.v \in {"W", "D"}
    BY <1>14, FormVariant DEF Variants
  <2>2. gen_status(f, i) = ldex(f.v, i)
    BY <1>14 DEF gen_status, gen_arm_instr, T16Gens, T32Gens, NA
  <2>3. ldex(f.v, i) \in Status
    BY <2>1 DEF ldex, Verdict, Status
  <2>4. ASSUME ldex(f.v, i) = "VALID"
        PROVE  15 \notin Writes(f, i)
    BY <1>14, <2>1, <2>4
    DEF ldex, Verdict, Odd,
        Writes, Loads, LoadsNext, WritesBack, Compares, Kind, HasList,
        OutputFields, SpBase, Base, Encoded, Words
  <2>5. QED
    BY <2>2, <2>3, <2>4 DEF KeepsPc
<1>15. CASE f.gen = "stex"
  <2>1. f.v \in {"W", "D"}
    BY <1>15, FormVariant DEF Variants
  <2>2. gen_status(f, i) = stex(f.v, i)
    BY <1>15 DEF gen_status, gen_arm_instr, T16Gens, T32Gens, NA
  <2>3. stex(f.v, i) \in Status
    BY <2>1 DEF stex, Verdict, Status
  <2>4. ASSUME stex(f.v, i) = "VALID"
        PROVE  15 \notin Writes(f, i)
    BY <1>15, <2>1, <2>4
    DEF stex, Verdict, Odd,
        Writes, Loads, LoadsNext, WritesBack, Compares, Kind, HasList,
        OutputFields, SpBase, Base, Encoded, Words
  <2>5. QED
    BY <2>2, <2>3, <2>4 DEF KeepsPc
<1>16. QED
  BY <1>1, <1>2, <1>3, <1>4, <1>5, <1>6, <1>7, <1>8, <1>9, <1>10, <1>11, <1>12, <1>13, <1>14, <1>15

\* Neither do the other ARM words.
LEMMA ArmDataSafe ==
  ASSUME NEW f \in Forms, NEW i, Encoded(f, i),
         f.gen \in {"misc", "data", "mul", "uncategorized", "empty"}
  PROVE  KeepsPc(f, i)
<1>1. CASE f.gen = "misc"
  <2>1. f.v \in {"SWP", "CLZ", "ADR", "SVC"}
    BY <1>1, FormVariant DEF Variants
  <2>2. gen_status(f, i) = misc(f.v, i)
    BY <1>1 DEF gen_status, gen_arm_instr, T16Gens, T32Gens, NA
  <2>3. misc(f.v, i) \in Status
    BY <2>1 DEF misc, Verdict, Status
  <2>4. ASSUME misc(f.v, i) = "VALID"
        PROVE  15 \notin Writes(f, i)
    BY <1>1, <2>1, <2>4
    DEF misc, Verdict,
        Writes, Loads, LoadsNext, WritesBack, Compares, Kind, HasList,
        OutputFields, SpBase, Base, Encoded, Words
  <2>5. QED
    BY <2>2, <2>3, <2>4 DEF KeepsPc
<1>2. CASE f.gen = "data"
  <2>1. f.v \in {"rsh", "rsh_cmp", "shift_reg", "plain", "plain_cmp"}
    BY <1>2, FormVariant DEF Variants
  <2>2. gen_status(f, i) = data(f.v, i)
    BY <1>2 DEF gen_status, gen_arm_instr, T16Gens, T32Gens, NA
  <2>3. data(f.v, i) \in Status
    BY <2>1 DEF data, Verdict, Status
  <2>4. ASSUME data(f.v, i) = "VALID"
        PROVE  15 \notin Writes(f, i)
    BY <1>2, <2>1, <2>4
    DEF data, Verdict,
        Writes, Loads, LoadsNext, WritesBack, Compares, Kind, HasList,
        OutputFields, SpBase, Base, Encoded, Words
  <2>5. QED
    BY <2>2, <2>3, <2>4 DEF KeepsPc
<1>3. CASE f.gen = "mul"
  <2>1. f.v \in {"mul", "mla", "long"}
    BY <1>3, FormVariant DEF Variants
  <2>2. gen_status(f, i) = mul(f.v, i)
    BY <1>3 DEF gen_status, gen_arm_instr, T16Gens, T32Gens, NA
  <2>3. mul(f.v, i) \in Status
    BY <2>1 DEF mul, Verdict, Status
  <2>4. ASSUME mul(f.v, i) = "VALID"
        PROVE  15 \notin Writes(f, i)
    BY <1>3, <2>1, <2>4
    DEF mul, Verdict,
        Writes, Loads, LoadsNext, WritesBack, Compares, Kind, HasList,
        OutputFields, SpBase, Base, Encoded, Words
  <2>5. QED
    BY <2>2, <2>3, <2>4 DEF KeepsPc
<1>4. CASE f.gen = "uncategorized"
  <2>1. f.v \in {"parallel", "extadd", "ext", "sat", "pkh", "bfx", "bfc", "usada8", "sel",
                "mrs", "msr_imm", "msr_reg", "pld_imm", "pld_reg"}
    BY <1>4, FormVariant DEF Variants
  <2>2. gen_status(f, i) = uncategorized(f.v, i)
    BY <1>4 DEF gen_status, gen_arm_instr, T16Gens, T32Gens, NA
  <2>3. uncategorized(f.v, i) \in Status
    BY <2>1 DEF uncategorized, Verdict, Overruled, parallel_add_sub, Status
  <2>4. ASSUME uncategorized(f.v, i) = "VALID"
        PROVE  15 \notin Writes(f, i)
    BY <1>4, <2>1, <2>4
    DEF uncategorized, Verdict, Overruled, parallel_add_sub,
        Writes, Loads, LoadsNext, WritesBack, Compares, Kind, HasList,
        OutputFields, SpBase, Base, Encoded, Words
  <2>5. QED
    BY <2>2, <2>3, <2>4 DEF KeepsPc
<1>5. CASE f.gen = "empty"
  <2>1. f.v \in {"wait", "nop"}
    BY <1>5, FormVariant DEF Variants
  <2>2. gen_status(f, i) \in Status
    BY <1>5, <2>1 DEF gen_status, gen_arm_instr, T16Gens, T32Gens, NA, empty, Status
  <2>3. QED
    BY <1>5, <2>1, <2>2
    DEF KeepsPc, Writes, Loads, LoadsNext, WritesBack, Compares, Kind, HasList,
        OutputFields, SpBase, Base, Encoded, Words
<1>6. QED
  BY <1>1, <1>2, <1>3, <1>4, <1>5

\* Nor the 16-bit words of GenThumbInstr.c.
LEMMA ThumbSafe ==
  ASSUME NEW f \in Forms, NEW i, Encoded(f, i),
         f.gen \in {"thumb_mem", "thumb_multi_mem", "thumb_data",
                    "thumb_misc", "thumb_low", "thumb_empty"}
  PROVE  KeepsPc(f, i)
<1>1. CASE f.gen = "thumb_mem"
  <2>1. f.v \in {"LDR_imm", "LDR_sp", "LDR_reg", "LDR_lit", "STR_imm", "STR_sp",
                "STR_reg"}
    BY <1>1, FormVariant DEF Variants
  <2>2. gen_status(f, i) = thumb_mem(f.v, i)
    BY <1>1 DEF gen_status, gen_thumb_instr, T16Gens, T32Gens, NA
  <2>3. thumb_mem(f.v, i) \in Status
    BY <2>1 DEF thumb_mem, Verdict, Status
  <2>4. ASSUME thumb_mem(f.v, i) = "VALID"
        PROVE  15 \notin Writes(f, i)
    BY <1>1, <2>1, <2>4
    DEF thumb_mem, Verdict,
        Writes, Loads, LoadsNext, WritesBack, Compares, Kind, HasList,
        OutputFields, SpBase, Base, Encoded, Words, Low, T16Gens
  <2>5. QED
    BY <2>2, <2>3, <2>4 DEF KeepsPc
<1>2. CASE f.gen = "thumb_multi_mem"
  <2>1. f.v \in {"LDM", "STM", "POP", "PUSH"}
    BY <1>2, FormVariant DEF Variants
  <2>2. gen_status(f, i) = thumb_multi_mem(f.v, i)
    BY <1>2 DEF gen_status, gen_thumb_instr, T16Gens, T32Gens, NA
  <2>3. thumb_multi_mem(f.v, i) \in Status
    BY <2>1 DEF thumb_multi_mem, Verdict, Status
  <2>4. ASSUME thumb_multi_mem(f.v, i) = "VALID"
        PROVE  15 \notin Writes(f, i)
    BY <1>2, <2>1, <2>4
    DEF thumb_multi_mem, Verdict,
        Writes, Loads, LoadsNext, WritesBack, Compares, Kind, HasList,
        OutputFields, SpBase, Base, Encoded, Words, Low, T16Gens
  <2>5. QED
    BY <2>2, <2>3, <2>4 DEF KeepsPc
<1>3. CASE f.gen = "thumb_data"
  <2>1. f.v \in {"cmp_hi", "hi", "lo", "cmp"}
    BY <1>3, FormVariant DEF Variants
  <2>2. gen_status(f, i) = thumb_data(f.v, i)
    BY <1>3 DEF gen_status, gen_thumb_instr, T16Gens, T32Gens, NA
  <2>3. thumb_data(f.v, i) \in Status
    BY <2>1 DEF thumb_data, Verdict, Status
  <2>4. ASSUME thumb_data(f.v, i) = "VALID"
        PROVE  15 \notin Writes(f, i)
    BY <1>3, <2>1, <2>4
    DEF thumb_data, Verdict,
        Writes, Loads, LoadsNext, WritesBack, Compares, Kind, HasList,
        OutputFields, SpBase, Base, Encoded, Words, Low, T16Gens
  <2>5. QED
    BY <2>2, <2>3, <2>4 DEF KeepsPc
<1>4. CASE f.gen = "thumb_misc"
  <2>1. f.v \in {"ADR", "SVC"}
    BY <1>4, FormVariant DEF Variants
  <2>2. gen_status(f, i) \in Status
    BY <1>4, <2>1 DEF gen_status, gen_thumb_instr, T16Gens, T32Gens, NA, Status
  <2>3. gen_status(f, i) = "VALID" => f.v = "ADR"
    BY <1>4, <2>1 DEF gen_status, gen_thumb_instr, T16Gens, T32Gens, NA
  <2>4. QED
    BY <1>4, <2>1, <2>2, <2>3
    DEF KeepsPc, Writes, Loads, LoadsNext, WritesBack, Compares, Kind, HasList,
        OutputFields, SpBase, Base, Encoded, Words, Low, T16Gens
<1>5. CASE f.gen = "thumb_low"
  <2>1. f.v \in {"mul", "ext", "reverse"}
    BY <1>5, FormVariant DEF Variants
  <2>2. gen_status(f, i) \in Status
    BY <1>5, <2>1 DEF gen_status, gen_thumb_instr, T16Gens, T32Gens, NA, Status
  <2>3. QED
    BY <1>5, <2>1, <2>2
    DEF KeepsPc, Writes, Loads, LoadsNext, WritesBack, Compares, Kind, HasList,
        OutputFields, SpBase, Base, Encoded, Words, Low, T16Gens
<1>6. CASE f.gen = "thumb_empty"
  <2>1. f.v \in {"wait", "nop"}
    BY <1>6, FormVariant DEF Variants
  <2>2. gen_status(f, i) \in Status
    BY <1>6, <2>1 DEF gen_status, gen_thumb_instr, T16Gens, T32Gens, NA, empty, Status
  <2>3. QED
    BY <1>6, <2>1, <2>2
    DEF KeepsPc, Writes, Loads, LoadsNext, WritesBack, Compares, Kind, HasList,
        OutputFields, SpBase, Base, Encoded, Words, Low, T16Gens
<1>7. QED
  BY <1>1, <1>2, <1>3, <1>4, <1>5, <1>6

\* Nor the loads and stores of GenThumb32Instr.c.
LEMMA Thumb32MemSafe ==
  ASSUME NEW f \in Forms, NEW i, Encoded(f, i),
         f.gen \in {"thumb32_multi_mem", "thumb32_ld_imm", "thumb32_st_imm",
                    "thumb32_mem_reg", "thumb32_mem_lit", "thumb32_mem_ex"}
  PROVE  KeepsPc(f, i)
<1>1. CASE f.gen = "thumb32_multi_mem"
  <2>1. f.v \in {"LDM", "STM", "POP", "PUSH"}
    BY <1>1, FormVariant DEF Variants
  <2>2. gen_status(f, i) = thumb32_multi_mem(f.v, i)
    BY <1>1 DEF gen_status, gen_thumb32_instr, T16Gens, T32Gens, NA
  <2>3. thumb32_multi_mem(f.v, i) \in Status
    BY <2>1 DEF thumb32_multi_mem, Verdict, Status
  <2>4. ASSUME thumb32_multi_mem(f.v, i) = "VALID"
        PROVE  15 \notin Writes(f, i)
    <3>1. i.n # 15 /\ (f.v \in {"LDM", "POP"} => 15 \notin i.list)
      BY <2>1, <2>4 DEF thumb32_multi_mem, Verdict
    <3>2. QED
      BY <1>1, <2>1, <3>1
      DEF Writes, Loads, LoadsNext, WritesBack, Compares, Kind, HasList,
          OutputFields, SpBase, Base, Encoded, Words
  <2>5. QED
    BY <2>2, <2>3, <2>4 DEF KeepsPc
<1>2. CASE f.gen = "thumb32_ld_imm"
  <2>1. f.v \in {"LDR", "LDR_T4", "LDRB", "LDRB_T3", "POP", "LDRT", "LDRD"}
    BY <1>2, FormVariant DEF Variants
  <2>2. gen_status(f, i) = thumb32_ld_imm(f.v, i)
    BY <1>2 DEF gen_status, gen_thumb32_instr, T16Gens, T32Gens, NA
  <2>3. thumb32_ld_imm(f.v, i) \in Status
    BY <2>1 DEF thumb32_ld_imm, Verdict, Overruled, Status
  <2>4. ASSUME thumb32_ld_imm(f.v, i) = "VALID"
        PROVE  15 \notin Writes(f, i)
    <3>1. 15 \notin {i.n, i.t} /\ (f.v = "LDRD" => i.a # 15)
      BY <2>1, <2>4 DEF thumb32_ld_imm, Verdict, Overruled, BadReg, AnyBad, NotIndexed
    <3>2. QED
      BY <1>2, <2>1, <3>1
      DEF Writes, Loads, LoadsNext, WritesBack, Compares, Kind, HasList,
          OutputFields, SpBase, Base, Encoded, Words
  <2>5. QED
    BY <2>2, <2>3, <2>4 DEF KeepsPc
<1>3. CASE f.gen = "thumb32_st_imm"
  <2>1. f.v \in {"STR", "STR_T4", "STRB", "STRB_T3", "PUSH", "STRD"}
    BY <1>3, FormVariant DEF Variants
  <2>2. gen_status(f, i) = thumb32_st_imm(f.v, i)
    BY <1>3 DEF gen_status, gen_thumb32_instr, T16Gens, T32Gens, NA
  <2>3. thumb32_st_imm(f.v, i) \in Status
    BY <2>1 DEF thumb32_st_imm, Verdict, Status
  <2>4. ASSUME thumb32_st_imm(f.v, i) = "VALID"
        PROVE  15 \notin Writes(f, i)
    BY <1>3, <2>1, <2>4
    DEF thumb32_st_imm, Verdict, BadReg, AnyBad,
        Writes, Loads, LoadsNext, WritesBack, Compares, Kind, HasList,
        OutputFields, SpBase, Base, Encoded, Words
  <2>5. QED
    BY <2>2, <2>3, <2>4 DEF KeepsPc
<1>4. CASE f.gen = "thumb32_mem_reg"
  <2>1. f.v \in {"LDR", "LDRB", "STR", "STRB"}
    BY <1>4, FormVariant DEF Variants
  <2>2. gen_status(f, i) = thumb32_mem_reg(f.v, i)
    BY <1>4 DEF gen_status, gen_thumb32_instr, T16Gens, T32Gens, NA
  <2>3. thumb32_mem_reg(f.v, i) \in Status
    BY <2>1 DEF thumb32_mem_reg, Verdict, Status
  <2>4. ASSUME thumb32_mem_reg(f.v, i) = "VALID"
        PROVE  15 \notin Writes(f, i)
    BY <1>4, <2>1, <2>4
    DEF thumb32_mem_reg, Verdict, BadReg, Narrow,
        Writes, Loads, LoadsNext, WritesBack, Compares, Kind, HasList,
        OutputFields, SpBase, Base, Encoded, Words
  <2>5. QED
    BY <2>2, <2>3, <2>4 DEF KeepsPc
<1>5. CASE f.gen = "thumb32_mem_lit"
  <2>1. f.v \in {"LDR", "LDRD", "LDRB"}
    BY <1>5, FormVariant DEF Variants
  <2>2. gen_status(f, i) = thumb32_mem_lit(f.v, i)
    BY <1>5 DEF gen_status, gen_thumb32_instr, T16Gens, T32Gens, NA
  <2>3. thumb32_mem_lit(f.v, i) \in Status
    BY <2>1 DEF thumb32_mem_lit, Verdict, Status
  <2>4. ASSUME thumb32_mem_lit(f.v, i) = "VALID"
        PROVE  15 \notin Writes(f, i)
    BY <1>5, <2>1, <2>4
    DEF thumb32_mem_lit, Verdict, BadReg, AnyBad,
        Writes, Loads, LoadsNext, WritesBack, Compares, Kind, HasList,
        OutputFields, SpBase, Base, Encoded, Words
  <2>5. QED
    BY <2>2, <2>3, <2>4 DEF KeepsPc
<1>6. CASE f.gen = "thumb32_mem_ex"
  <2>1. f.v \in {"LDREX", "LDREXD", "STREX", "STREXD"}
    BY <1>6, FormVariant DEF Variants
  <2>2. gen_status(f, i) = thumb32_mem_ex(f.v, i)
    BY <1>6 DEF gen_status, gen_thumb32_instr, T16Gens, T32Gens, NA
  <2>3. thumb32_mem_ex(f.v, i) \in Status
    BY <2>1 DEF thumb32_mem_ex, Verdict, Status
  <2>4. ASSUME thumb32_mem_ex(f.v, i) = "VALID"
        PROVE  15 \notin Writes(f, i)
    BY <1>6, <2>1, <2>4
    DEF thumb32_mem_ex, Verdict, BadReg, AnyBad,
        Writes, Loads, LoadsNext, WritesBack, Compares, Kind, HasList,
        OutputFields, SpBase, Base, Encoded, Words
  <2>5. QED
    BY <2>2, <2>3, <2>4 DEF KeepsPc
<1>7. QED
  BY <1>1, <1>2, <1>3, <1>4, <1>5, <1>6

\* Nor its other words.
LEMMA Thumb32DataSafe ==
  ASSUME NEW f \in Forms, NEW i, Encoded(f, i),
         f.gen \in {"thumb32_data_shifted_reg", "thumb32_data_mimm",
                    "thumb32_data_pimm", "thumb32_data_reg",
                    "thumb32_data_parallel", "thumb32_data_misc",
                    "thumb32_data_mul", "thumb32_mem_preload", "thumb32_sr",
                    "thumb32_hint"}
  PROVE  KeepsPc(f, i)
<1>1. CASE f.gen = "thumb32_data_shifted_reg"
  <2>1. f.v \in {"dnm", "PKH", "TST", "CMP", "dm", "MOV"}
    BY <1>1, FormVariant DEF Variants
  <2>2. gen_status(f, i) = thumb32_data_shifted_reg(f.v, i)
    BY <1>1 DEF gen_status, gen_thumb32_instr, T16Gens, T32Gens, NA
  <2>3. thumb32_data_shifted_reg(f.v, i) \in Status
    BY <2>1 DEF thumb32_data_shifted_reg, Verdict, Status
  <2>4. ASSUME thumb32_data_shifted_reg(f.v, i) = "VALID"
        PROVE  15 \notin Writes(f, i)
    BY <1>1, <2>1, <2>4
    DEF thumb32_data_shifted_reg, Verdict, BadReg, AnyBad,
        Writes, Loads, LoadsNext, WritesBack, Compares, Kind, HasList,
        OutputFields, SpBase, Base, Encoded, Words
  <2>5. QED
    BY <2>2, <2>3, <2>4 DEF KeepsPc
<1>2. CASE f.gen = "thumb32_data_mimm"
  <2>1. f.v \in {"dn", "ADD_sp", "TST", "ORR", "MOV", "CMP"}
    BY <1>2, FormVariant DEF Variants
  <2>2. gen_status(f, i) = thumb32_data_mimm(f.v, i)
    BY <1>2 DEF gen_status, gen_thumb32_instr, T16Gens, T32Gens, NA
  <2>3. thumb32_data_mimm(f.v, i) \in Status
    BY <2>1 DEF thumb32_data_mimm, Verdict, Status
  <2>4. ASSUME thumb32_data_mimm(f.v, i) = "VALID"
        PROVE  15 \notin Writes(f, i)
    BY <1>2, <2>1, <2>4
    DEF thumb32_data_mimm, Verdict, BadReg, AnyBad,
        Writes, Loads, LoadsNext, WritesBack, Compares, Kind, HasList,
        OutputFields, SpBase, Base, Encoded, Words
  <2>5. QED
    BY <2>2, <2>3, <2>4 DEF KeepsPc
<1>3. CASE f.gen = "thumb32_data_pimm"
  <2>1. f.v \in {"MOV", "ADD_sp", "BFI", "dn", "dnx"}
    BY <1>3, FormVariant DEF Variants
  <2>2. gen_status(f, i) = thumb32_data_pimm(f.v, i)
    BY <1>3 DEF gen_status, gen_thumb32_instr, T16Gens, T32Gens, NA
  <2>3. thumb32_data_pimm(f.v, i) \in Status
    BY <2>1 DEF thumb32_data_pimm, Verdict, Status
  <2>4. ASSUME thumb32_data_pimm(f.v, i) = "VALID"
        PROVE  15 \notin Writes(f, i)
    BY <1>3, <2>1, <2>4
    DEF thumb32_data_pimm, Verdict, BadReg, AnyBad,
        Writes, Loads, LoadsNext, WritesBack, Compares, Kind, HasList,
        OutputFields, SpBase, Base, Encoded, Words
  <2>5. QED
    BY <2>2, <2>3, <2>4 DEF KeepsPc
<1>4. CASE f.gen = "thumb32_data_reg"
  <2>1. f.v \in {"dnm", "dm"}
    BY <1>4, FormVariant DEF Variants
  <2>2. gen_status(f, i) = thumb32_data_reg(f.v, i)
    BY <1>4 DEF gen_status, gen_thumb32_instr, T16Gens, T32Gens, NA
  <2>3. thumb32_data_reg(f.v, i) \in Status
    BY <2>1 DEF thumb32_data_reg, Verdict, Status
  <2>4. ASSUME thumb32_data_reg(f.v, i) = "VALID"
        PROVE  15 \notin Writes(f, i)
    BY <1>4, <2>1, <2>4
    DEF thumb32_data_reg, Verdict, BadReg, AnyBad,
        Writes, Loads, LoadsNext, WritesBack, Compares, Kind, HasList,
        OutputFields, SpBase, Base, Encoded, Words
  <2>5. QED
    BY <2>2, <2>3, <2>4 DEF KeepsPc
<1>5. CASE f.gen = "thumb32_data_parallel"
  <2>1. f.v \in {"dnm"}
    BY <1>5, FormVariant DEF Variants
  <2>2. gen_status(f, i) = thumb32_data_parallel(i)
    BY <1>5 DEF gen_status, gen_thumb32_instr, T16Gens, T32Gens, NA
  <2>3. thumb32_data_parallel(i) \in Status
    BY <2>1 DEF thumb32_data_parallel, Verdict, Status
  <2>4. ASSUME thumb32_data_parallel(i) = "VALID"
        PROVE  15 \notin Writes(f, i)
    BY <1>5, <2>1, <2>4
    DEF thumb32_data_parallel, Verdict, BadReg, AnyBad,
        Writes, Loads, LoadsNext, WritesBack, Compares, Kind, HasList,
        OutputFields, SpBase, Base, Encoded, Words
  <2>5. QED
    BY <2>2, <2>3, <2>4 DEF KeepsPc
<1>6. CASE f.gen = "thumb32_data_misc"
  <2>1. f.v \in {"dm"}
    BY <1>6, FormVariant DEF Variants
  <2>2. gen_status(f, i) = thumb32_data_misc(i)
    BY <1>6 DEF gen_status, gen_thumb32_instr, T16Gens, T32Gens, NA
  <2>3. thumb32_data_misc(i) \in Status
    BY <2>1 DEF thumb32_data_misc, Verdict, Status
  <2>4. ASSUME thumb32_data_misc(i) = "VALID"
        PROVE  15 \notin Writes(f, i)
    BY <1>6, <2>1, <2>4
    DEF thumb32_data_misc, Verdict, BadReg, AnyBad,
        Writes, Loads, LoadsNext, WritesBack, Compares, Kind, HasList,
        OutputFields, SpBase, Base, Encoded, Words
  <2>5. QED
    BY <2>2, <2>3, <2>4 DEF KeepsPc
<1>7. CASE f.gen = "thumb32_data_mul"
  <2>1. f.v \in {"mul", "mla", "long", "div"}
    BY <1>7, FormVariant DEF Variants
  <2>2. gen_status(f, i) = thumb32_data_mul(f.v, i)
    BY <1>7 DEF gen_status, gen_thumb32_instr, T16Gens, T32Gens, NA
  <2>3. thumb32_data_mul(f.v, i) \in Status
    BY <2>1 DEF thumb32_data_mul, Verdict, Status
  <2>4. ASSUME thumb32_data_mul(f.v, i) = "VALID"
        PROVE  15 \notin Writes(f, i)
    BY <1>7, <2>1, <2>4
    DEF thumb32_data_mul, Verdict, BadReg, AnyBad,
        Writes, Loads, LoadsNext, WritesBack, Compares, Kind, HasList,
        OutputFields, SpBase, Base, Encoded, Words
  <2>5. QED
    BY <2>2, <2>3, <2>4 DEF KeepsPc
<1>8. CASE f.gen = "thumb32_mem_preload"
  <2>1. f.v \in {"imm", "reg", "lit"}
    BY <1>8, FormVariant DEF Variants
  <2>2. gen_status(f, i) = thumb32_mem_preload(f.v, i)
    BY <1>8 DEF gen_status, gen_thumb32_instr, T16Gens, T32Gens, NA
  <2>3. thumb32_mem_preload(f.v, i) \in Status
    BY <2>1 DEF thumb32_mem_preload, Verdict, Status
  <2>4. ASSUME thumb32_mem_preload(f.v, i) = "VALID"
        PROVE  15 \notin Writes(f, i)
    BY <1>8, <2>1, <2>4
    DEF thumb32_mem_preload, Verdict, BadReg, AnyBad,
        Writes, Loads, LoadsNext, WritesBack, Compares, Kind, HasList,
        OutputFields, SpBase, Base, Encoded, Words
  <2>5. QED
    BY <2>2, <2>3, <2>4 DEF KeepsPc
<1>9. CASE f.gen = "thumb32_sr"
  <2>1. f.v \in {"MSR", "MRS"}
    BY <1>9, FormVariant DEF Variants
  <2>2. gen_status(f, i) = thumb32_sr(f.v, i)
    BY <1>9 DEF gen_status, gen_thumb32_instr, T16Gens, T32Gens, NA
  <2>3. thumb32_sr(f.v, i) \in Status
    BY <2>1 DEF thumb32_sr, Verdict, Status
  <2>4. ASSUME thumb32_sr(f.v, i) = "VALID"
        PROVE  15 \notin Writes(f, i)
    BY <1>9, <2>1, <2>4
    DEF thumb32_sr, Verdict, BadReg, AnyBad,
        Writes, Loads, LoadsNext, WritesBack, Compares, Kind, HasList,
        OutputFields, SpBase, Base, Encoded, Words
  <2>5. QED
    BY <2>2, <2>3, <2>4 DEF KeepsPc
<1>10. CASE f.gen = "thumb32_hint"
  <2>1. f.v \in {"wait", "nop"}
    BY <1>10, FormVariant DEF Variants
  <2>2. gen_status(f, i) \in Status
    BY <1>10, <2>1 DEF gen_status, gen_thumb32_instr, empty, T16Gens, T32Gens, NA, Status
  <2>3. QED
    BY <1>10, <2>1, <2>2
    DEF KeepsPc, Writes, Loads, LoadsNext, WritesBack, Compares, Kind, HasList,
        OutputFields, SpBase, Base, Encoded, Words
<1>11. QED
  BY <1>1, <1>2, <1>3, <1>4, <1>5, <1>6, <1>7, <1>8, <1>9, <1>10

\* For every form and all registers, a VALID word does not write pc.
THEOREM ValidKeepsPc ==
  ASSUME NEW f \in Forms, NEW i, Encoded(f, i)
  PROVE  KeepsPc(f, i)
<1>1. f.gen \in DOMAIN Variants
  BY FormVariant
<1>2. QED
  BY <1>1, ArmMemSafe, ArmDataSafe, ThumbSafe, Thumb32MemSafe, Thumb32DataSafe DEF Variants

-----------------------------------------------------------------------------
(* The words that are drawn.                                                *)

Classes == RegClasses \cup {"R_DEFAULT"}

\* The registers of a class are registers, so what update_instr_reg_opnd
\* writes fits the field it writes it to.
LEMMA UpdateEncoded ==
  ASSUME NEW f \in Forms, NEW i, Encoded(f, i), NEW F \in SUBSET {"t", "n", "m", "a"},
         NEW class \in RegClasses, NEW j \in update_instr_reg_opnd(f, i, F, class)
  PROVE  Encoded(f, j) /\ \A k \in {"P", "W", "S", "x", "list", "sh", "c"} : j[k] = i[k]
<1>1. Members(class) \subseteq 0 .. 15
  BY SampleAssumption DEF Members, RegClasses
<1>2. PICK draw \in [F -> Members(class)] :
        j = [k \in DOMAIN i |->
               IF k \in F THEN (IF Low(f) THEN draw[k] % 8 ELSE draw[k]) ELSE i[k]]
  BY DEF update_instr_reg_opnd
<1>3. DOMAIN i = {"t", "n", "m", "a", "P", "W", "S", "x", "list", "sh", "c"}
  BY DEF Encoded, Words
<1>4. \A k \in F : draw[k] \in 0 .. 15 /\ draw[k] % 8 \in 0 .. 7
  BY <1>1, <1>2
<1>5. QED
  BY <1>2, <1>3, <1>4 DEF Encoded, Words

\* The same for a register list.
LEMMA AddEncoded ==
  ASSUME NEW f \in Forms, NEW i, Encoded(f, i), NEW class \in RegClasses,
         NEW j \in AddToList(f, i, class)
  PROVE  Encoded(f, j) /\ \A k \in {"P", "W", "S", "x", "sh", "c"} : j[k] = i[k]
<1>1. Members(class) \subseteq 0 .. 15
  BY SampleAssumption DEF Members, RegClasses
<1>2. PICK r \in Members(class) :
        j = [i EXCEPT !.list = i.list \cup {IF f.gen = "thumb_multi_mem" THEN r % 8 ELSE r}]
  BY DEF AddToList
<1>3. r \in 0 .. 15 /\ r % 8 \in 0 .. 7
  BY <1>1, <1>2
<1>4. QED
  BY <1>2, <1>3 DEF Encoded, Words

\* set_mem_src_reg keeps the word within its encoding.
LEMMA SrcEncoded ==
  ASSUME NEW f \in Forms, NEW i, Encoded(f, i), NEW src \in Classes, NEW j \in SetSrc(f, i, src)
  PROVE  Encoded(f, j) /\ \A k \in {"P", "W", "S", "x", "sh", "c"} : j[k] = i[k]
<1>1. CASE src = "R_DEFAULT"
  BY <1>1 DEF SetSrc
<1>2. CASE src \in RegClasses /\ j \in set_mem_src_reg(f, i, src)
  <2> DEFINE based == IF RegBase(f) THEN update_instr_reg_opnd(f, i, {"n"}, src) ELSE {i}
  <2>1. \A b \in based : Encoded(f, b) /\ \A k \in {"P", "W", "S", "x", "sh", "c"} : b[k] = i[k]
    BY <1>2, UpdateEncoded
  <2>2. CASE j \in based
    BY <2>1, <2>2
  <2>3. CASE \E b \in based : j = [b EXCEPT !.list = b.list \ ClearedBits(f, src)]
    BY <2>1, <2>3 DEF Encoded, Words
  <2>4. CASE \E b \in based : j \in update_instr_reg_opnd(f, b, {"m"}, r_offset(src))
    <3>1. r_offset(src) \in RegClasses
      BY DEF r_offset, RegClasses
    <3>2. PICK b \in based : j \in update_instr_reg_opnd(f, b, {"m"}, r_offset(src))
      BY <2>4
    <3>3. QED
      BY <2>1, <3>1, <3>2, UpdateEncoded
  <2>5. QED
    BY <1>2, <2>2, <2>3, <2>4 DEF set_mem_src_reg
<1>3. CASE src \in RegClasses /\ j \in AddToList(f, i, src)
  BY <1>3, AddEncoded
<1>4. CASE src \in RegClasses /\ j \in update_instr_reg_opnd(f, i, InputFields(f), src)
  <2>1. InputFields(f) \in SUBSET {"t", "n", "m", "a"}
    BY DEF InputFields
  <2>2. QED
    BY <1>4, <2>1, UpdateEncoded
<1>5. QED
  BY <1>1, <1>2, <1>3, <1>4 DEF SetSrc, Classes

\* The part of preprocess_instr that draws the destination does so too.
LEMMA DstEncoded ==
  ASSUME NEW f \in Forms, NEW i, Encoded(f, i), NEW dst \in Classes, NEW j \in SetDst(f, i, dst)
  PROVE  Encoded(f, j) /\ \A k \in {"P", "W", "S", "x", "sh", "c"} : j[k] = i[k]
<1>1. CASE dst = "R_DEFAULT"
  BY <1>1 DEF SetDst
<1>2. CASE dst \in RegClasses /\ j \in AddToList(f, i, dst)
  BY <1>2, AddEncoded
<1>3. CASE dst \in RegClasses /\ \E u \in update_instr_reg_opnd(f, i, OutputFields(f), dst) :
                                     j = EvenPair(f, u, dst)
  <2>1. OutputFields(f) \in SUBSET {"t", "n", "m", "a"}
    BY DEF OutputFields
  <2>2. PICK u \in update_instr_reg_opnd(f, i, OutputFields(f), dst) : j = EvenPair(f, u, dst)
    BY <1>3
  <2>3. Encoded(f, u) /\ \A k \in {"P", "W", "S", "x", "sh", "c"} : u[k] = i[k]
    BY <1>3, <2>1, <2>2, UpdateEncoded
  <2>4. CASE j = u
    BY <2>3, <2>4
  <2>5. CASE ~Low(f) /\ f.gen # "thumb_multi_mem" /\ j = [u EXCEPT !.t = u.t - 4 * ((u.t \div 4) % 2)]
    <3>1. u.t \in 0 .. 16 /\ u \in Words
      BY <2>3 DEF Encoded, Words
    <3>2. (u.t \div 4) % 2 \in 0 .. 1 /\ ((u.t \div 4) % 2 = 1 => u.t >= 4)
      BY <3>1
    <3>3. u.t - 4 * ((u.t \div 4) % 2) \in 0 .. 16
      BY <3>1, <3>2
    <3>4. QED
      BY <2>3, <2>5, <3>1, <3>3 DEF Encoded, Words
  <2>6. QED
    BY <2>2, <2>4, <2>5 DEF EvenPair, Low, T16Gens
<1>4. QED
  BY <1>1, <1>2, <1>3 DEF SetDst, Classes

\* preprocess_instr writes registers only, and only such as fit.
LEMMA PreprocessEncoded ==
  ASSUME NEW f \in Forms, NEW i, Encoded(f, i), NEW src \in Classes, NEW dst \in Classes,
         NEW j \in preprocess_instr(f, i, src, dst)
  PROVE  Encoded(f, j) /\ \A k \in {"P", "W", "S", "x", "sh", "c"} : j[k] = i[k]
<1>1. PICK u \in SetSrc(f, i, src) : j \in SetDst(f, u, dst)
  BY DEF preprocess_instr
<1>2. Encoded(f, u) /\ \A k \in {"P", "W", "S", "x", "sh", "c"} : u[k] = i[k]
  BY <1>1, SrcEncoded
<1>3. QED
  BY <1>1, <1>2, DstEncoded

\* A drawn word has the width of the fields of its form.
LEMMA OperandsEncoded ==
  ASSUME NEW f \in Forms, NEW skip, NEW i \in Operands(f, skip)
  PROVE  Encoded(f, i)
<1> DEFINE R == RegSample(f)
<1>1. R \subseteq 0 .. 15 /\ (Low(f) => R \subseteq 0 .. 7)
  BY SampleAssumption DEF RegSample
<1>2. /\ i.t \in R \cup {0} /\ i.n \in R \cup {0, 13} /\ i.m \in R \cup {0} /\ i.a \in R \cup {0}
      /\ i.P \in BOOLEAN /\ i.W \in BOOLEAN /\ i.S \in BOOLEAN /\ i.x \in BOOLEAN /\ i.c = 0
      /\ i.list \in IF HasList(f) THEN SUBSET ListSample(f) ELSE {{}}
      /\ i.sh \in ShiftSample(f)
      /\ i = [t |-> i.t, n |-> i.n, m |-> i.m, a |-> i.a, P |-> i.P, W |-> i.W, S |-> i.S,
              x |-> i.x, list |-> i.list, sh |-> i.sh, c |-> i.c]
  BY DEF Operands
<1>3. ListSample(f) \subseteq 0 .. 15
  BY SampleAssumption DEF ListSample
<1>4. f.gen = "thumb_multi_mem" /\ f.v # "POP" => 15 \notin ListSample(f)
  BY DEF ListSample
<1>5. ShiftSample(f) \subseteq (0 .. 3) \X (0 .. 32)
  BY SampleAssumption DEF ShiftSample
<1>6. i.list \subseteq 0 .. 15 /\ (f.gen = "thumb_multi_mem" /\ f.v # "POP" => 15 \notin i.list)
  BY <1>2, <1>3, <1>4
<1>7. i \in Words
  BY <1>1, <1>2, <1>5, <1>6 DEF Words
<1>8. QED
  BY <1>1, <1>2, <1>6, <1>7 DEF Encoded

-----------------------------------------------------------------------------
(* The lines before a word.                                                 *)

LineOps == {"mov", "ldr", "bic", "orr", "bic_reg", "orr_reg", "word"}
LineType == [tag : {"CODE", "INST"}, op : LineOps, d : 0 .. 16, s : 0 .. 16, mask : SUBSET Int]

\* The length of a few lines.
LEMMA FewLines ==
  ASSUME NEW a \in LineType, NEW b \in LineType, NEW c \in LineType, NEW d \in LineType
  PROVE  /\ <<a>> \in Seq(LineType) /\ Len(<<a>>) = 1
         /\ <<a, b>> \in Seq(LineType) /\ Len(<<a, b>>) = 2
         /\ <<a, b, c, d>> \in Seq(LineType) /\ Len(<<a, b, c, d>>) = 4
OBVIOUS

\* A masking operation of the ARM code takes two lines at most.
LEMMA ArmMaskLength ==
  ASSUME NEW o \in {"bic", "orr"}, NEW base \in 0 .. 16, NEW tmp \in 0 .. 1, NEW mask \in SUBSET Int
  PROVE  ArmMask(o, base, tmp, mask) \in Seq(LineType) /\ Len(ArmMask(o, base, tmp, mask)) <= 2
<1>1. /\ Line("CODE", o, base, base, mask) \in LineType
      /\ Line("CODE", "ldr", tmp, tmp, mask) \in LineType
      /\ \A p \in {"bic_reg", "orr_reg"} : Line("CODE", p, base, tmp, {}) \in LineType
  BY DEF Line, LineType, LineOps
<1>2. CASE is_imm_encodable(mask, ARM)
  <2>1. ArmMask(o, base, tmp, mask) = <<Line("CODE", o, base, base, mask)>>
    BY <1>2 DEF ArmMask
  <2>2. QED
    BY <1>1, <2>1, FewLines
<1>3. CASE ~is_imm_encodable(mask, ARM)
  <2>1. PICK p \in {"bic_reg", "orr_reg"} :
          ArmMask(o, base, tmp, mask) = <<Line("CODE", "ldr", tmp, tmp, mask), Line("CODE", p, base, tmp, {})>>
    BY <1>3 DEF ArmMask
  <2>2. QED
    BY <1>1, <2>1, FewLines
<1>4. QED
  BY <1>2, <1>3

\* fix_mem_base needs four lines, two more for a high base in Thumb code,
\* and one more for an aligned base.
LEMMA FixLength ==
  ASSUME NEW set \in {ARM, THUMB}, NEW base \in 0 .. 16, NEW align \in BOOLEAN
  PROVE  /\ fix_mem_base(set, base, align) \in Seq(LineType)
         /\ Len(fix_mem_base(set, base, align))
              <= 4 + (IF set = THUMB /\ base > 7 THEN 2 ELSE 0) + (IF align THEN 1 ELSE 0)
<1> DEFINE high == set = THUMB /\ base > 7
           h == IF high THEN 1 ELSE 0
           g == IF align THEN 1 ELSE 0
           b == IF high THEN 2 ELSE base
           tmp == IF base # 0 THEN 0 ELSE 1
           unset == IF align THEN unset_mask \cup {0, 1} ELSE unset_mask
           first == IF high THEN <<Line("INST", "mov", b, base, {})>> ELSE <<>>
           aligned == IF align THEN <<Line("INST", "bic", b, b, {0, 1})>> ELSE <<>>
           last == IF high THEN <<Line("INST", "mov", base, b, {})>> ELSE <<>>
<1>1. b \in 0 .. 16 /\ tmp \in 0 .. 1 /\ unset \in SUBSET Int /\ set_mask \in SUBSET Int
  BY DEF unset_mask, set_mask, mem_base_mask, mem_base_val
<1> HIDE DEF b, tmp, unset
<1>2. Masking(set, b, tmp, unset) \in Seq(LineType) /\ Len(Masking(set, b, tmp, unset)) <= 4
  <2>1. CASE set = THUMB
    <3>1. /\ Line("CODE", "ldr", tmp, tmp, unset) \in LineType
          /\ Line("CODE", "bic_reg", b, tmp, {}) \in LineType
          /\ Line("CODE", "ldr", tmp, tmp, set_mask) \in LineType
          /\ Line("CODE", "orr_reg", b, tmp, {}) \in LineType
      BY <1>1 DEF Line, LineType, LineOps
    <3>2. QED
      BY <2>1, <3>1, FewLines DEF Masking
  <2>2. CASE set # THUMB
    <3>1. /\ ArmMask("bic", b, tmp, unset) \in Seq(LineType)
          /\ Len(ArmMask("bic", b, tmp, unset)) <= 2
          /\ ArmMask("orr", b, tmp, set_mask) \in Seq(LineType)
          /\ Len(ArmMask("orr", b, tmp, set_mask)) <= 2
      BY <1>1, ArmMaskLength
    <3>2. QED
      BY <2>2, <3>1 DEF Masking
  <2>3. QED
    BY <2>1, <2>2
<1>3. /\ Line("INST", "mov", b, base, {}) \in LineType
      /\ Line("INST", "bic", b, b, {0, 1}) \in LineType
      /\ Line("INST", "mov", base, b, {}) \in LineType
  BY <1>1 DEF Line, LineType, LineOps
<1>4. /\ first \in Seq(LineType) /\ Len(first) = h
      /\ last \in Seq(LineType) /\ Len(last) = h
  <2>1. CASE high
    BY <1>3, <2>1, FewLines
  <2>2. CASE ~high
    BY <2>2
  <2>3. QED
    BY <2>1, <2>2
<1>5. aligned \in Seq(LineType) /\ Len(aligned) = g
  <2>1. CASE align
    BY <1>3, <2>1, FewLines
  <2>2. CASE ~align
    BY <2>2
  <2>3. QED
    BY <2>1, <2>2
<1>6. fix_mem_base(set, base, align) = first \o Masking(set, b, tmp, unset) \o aligned \o last
  BY DEF fix_mem_base, b, tmp, unset
<1>7. h \in 0 .. 1 /\ g \in 0 .. 1 /\ 2 * h = IF set = THUMB /\ base > 7 THEN 2 ELSE 0
  OBVIOUS
<1> HIDE DEF first, aligned, last, h, g
<1>8. first \o Masking(set, b, tmp, unset) \in Seq(LineType)
      /\ Len(first \o Masking(set, b, tmp, unset)) <= h + 4
  BY <1>2, <1>4, <1>7
<1>9. first \o Masking(set, b, tmp, unset) \o aligned \in Seq(LineType)
      /\ Len(first \o Masking(set, b, tmp, unset) \o aligned) <= h + 4 + g
  BY <1>5, <1>7, <1>8
<1>10. fix_mem_base(set, base, align) \in Seq(LineType)
       /\ Len(fix_mem_base(set, base, align)) <= h + 4 + g + h
  BY <1>4, <1>6, <1>7, <1>9
<1>11. h + 4 + g + h = 4 + (IF set = THUMB /\ base > 7 THEN 2 ELSE 0) + (IF align THEN 1 ELSE 0)
  BY DEF h, g
<1>12. QED
  BY <1>10, <1>11

\* What may be executed with the options: the code for an ARM base is not
\* written while the library is in Thumb mode.
InStep(f, set) == HasBase(f) /\ InstrSet(f) = ARM => set = ARM

\* The code before a word takes seven lines at most.
LEMMA PrefixLength ==
  ASSUME NEW f \in Forms, NEW i, Encoded(f, i), NEW set \in {ARM, THUMB}, InStep(f, set), NEW st
  PROVE  Prefix(f, i, set, st) \in Seq(LineType) /\ Len(Prefix(f, i, set, st)) <= 7
<1> DEFINE fix == fix_mem_base(set, Base(f, i), ForceAlign(f))
           offset == IF OffsetReg(f) THEN OffsetLine(f, i) ELSE <<>>
<1>1. Base(f, i) \in 0 .. 16 /\ ForceAlign(f) \in BOOLEAN /\ i.m \in 0 .. 16
  BY DEF Base, ForceAlign, Encoded, Words
<1>2. offset \in Seq(LineType) /\ Len(offset) = IF OffsetReg(f) THEN 1 ELSE 0
  <2>1. OffsetMask(f, i) \in SUBSET Int
    <3>1. Amount(i.sh) \in (0 .. 3) \X (0 .. 32)
      BY DEF Amount, Encoded, Words
    <3>2. shift_mask(Amount(i.sh)) \in SUBSET Int
      BY <3>1 DEF shift_mask, Word32
    <3>3. QED
      BY <3>2 DEF OffsetMask
  <2>2. QED
    <3>1. Line("INST", "ldr", i.m, i.m, OffsetMask(f, i)) \in LineType
      BY <1>1, <2>1 DEF Line, LineType, LineOps
    <3>2. CASE OffsetReg(f)
      BY <3>1, <3>2, FewLines DEF OffsetLine
    <3>3. CASE ~OffsetReg(f)
      BY <3>3
    <3>4. QED
      BY <3>2, <3>3
<1>3. fix \in Seq(LineType)
      /\ Len(fix) <= 4 + (IF set = THUMB THEN 2 ELSE 0) + (IF ForceAlign(f) THEN 1 ELSE 0)
  <2>1. fix \in Seq(LineType)
        /\ Len(fix) <= 4 + (IF set = THUMB /\ Base(f, i) > 7 THEN 2 ELSE 0)
                         + (IF ForceAlign(f) THEN 1 ELSE 0)
    BY <1>1, FixLength
  <2> HIDE DEF fix
  <2>2. QED
    BY <2>1
<1>4. HasBase(f) /\ OffsetReg(f) => set = ARM \/ ~ForceAlign(f)
  BY DEF InStep, OffsetReg, ForceAlign, InstrSet, T16Gens, T32Gens
<1> HIDE DEF fix, offset
<1>5. HasBase(f) => fix \o offset \in Seq(LineType) /\ Len(fix \o offset) <= 7
  <2>1. fix \o offset \in Seq(LineType) /\ Len(fix \o offset) = Len(fix) + Len(offset)
    <3>1. fix \in Seq(LineType) /\ offset \in Seq(LineType)
      BY <1>2, <1>3
    <3>2. QED
      BY <3>1
  <2>2. HasBase(f) => Len(fix) + Len(offset) <= 7
    BY <1>2, <1>3, <1>4 DEF ARM, THUMB
  <2>3. QED
    BY <2>1, <2>2
<1>6. QED
  BY <1>5 DEF Prefix, fix, offset

-----------------------------------------------------------------------------
\* Whatever the shift of an access, the offset register get_rand_mem_offset
\* fills gives an offset of 12 bits, with the carry clear.
THEOREM OffsetSmall ==
  ASSUME NEW sh \in (0 .. 3) \X (0 .. 32)
  PROVE  /\ shift_mask(Amount(sh)) \subseteq Word32
         /\ ShiftedBits(Amount(sh), shift_mask(Amount(sh)), FALSE) \subseteq 0 .. 11
<1> DEFINE s == Amount(sh)
<1>1. PICK y \in 0 .. 3, n \in 0 .. 32 :
        s = <<y, n>> /\ (y \in {1, 2} => n >= 1)
  BY DEF Amount
<1> HIDE DEF s
<1>0. shift_mask(<<y, n>>) \subseteq Word32
  BY <1>1 DEF shift_mask, Word32
<1>2. SUFFICES ASSUME NEW k \in ShiftedBits(<<y, n>>, shift_mask(<<y, n>>), FALSE)
               PROVE  k \in 0 .. 11
  BY <1>0, <1>1 DEF s
<1>3. CASE y = 0
  BY <1>1, <1>2, <1>3 DEF ShiftedBits, shift_mask, Word32
<1>4. CASE y = 1
  <2>1. k \in 0 .. 31 /\ k + n \in shift_mask(<<1, n>>)
    BY <1>2, <1>4 DEF ShiftedBits, Word32
  <2>2. shift_mask(<<1, n>>) = IF n < 20 THEN 0 .. 11 + n ELSE 0 .. 31
    BY DEF shift_mask, Word32
  <2>3. CASE n < 20
    BY <2>1, <2>2, <2>3
  <2>4. CASE ~(n < 20)
    <3>1. k + n \in 0 .. 31
      BY <2>1, <2>2, <2>4
    <3>2. QED
      BY <2>1, <2>4, <3>1
  <2>5. QED
    BY <2>3, <2>4
<1>5. CASE y = 2
  <2> DEFINE M == shift_mask(<<2, n>>)
  <2>1. CASE n < 20
    <3>1. M = 0 .. 11 + n
      BY <2>1 DEF shift_mask
    <3>2. k + n \in M \/ 31 \in M
      BY <1>2, <1>5 DEF ShiftedBits
    <3>3. k \in 0 .. 31
      BY <1>2, <1>5 DEF ShiftedBits, Word32
    <3>4. QED
      BY <2>1, <3>1, <3>2, <3>3
  <2>2. CASE ~(n < 20)
    <3>1. M = 0 .. 30
      BY <2>2 DEF shift_mask
    <3>2. k + n \in M \/ 31 \in M
      BY <1>2, <1>5 DEF ShiftedBits
    <3>3. k \in 0 .. 31
      BY <1>2, <1>5 DEF ShiftedBits, Word32
    <3>4. QED
      BY <2>2, <3>1, <3>2, <3>3
  <2>3. QED
    BY <1>1, <2>1, <2>2
<1>6. CASE y = 3 /\ n = 0
  BY <1>2, <1>6 DEF ShiftedBits, shift_mask, Word32
<1>7. CASE y = 3 /\ n # 0
  <2>1. k \in 0 .. 31 /\ (k + n) % 32 \in shift_mask(<<3, n>>)
    BY <1>2, <1>7 DEF ShiftedBits, Word32
  <2>2. (k + n) % 32 = IF k + n < 32 THEN k + n ELSE k + n - 32
    BY <1>1, <1>7, <2>1
  <2>3. QED
    BY <1>1, <1>7, <2>1, <2>2 DEF shift_mask, Word32
<1>8. QED
  BY <1>1, <1>3, <1>4, <1>5, <1>6, <1>7

-----------------------------------------------------------------------------
(***************************************************************************)
(* A call from the option to the word.                                     *)
(***************************************************************************)
BlockTypes == {"none", "mem", "any", "mulshift", "pc", "main"}

BlockType == [type : BlockTypes, isARM : BOOLEAN, reg : Classes]
ReqType == [by : {"none", "kind", "op"}, kind : Kinds \cup {"none", "MUL_OP"},
            form : Forms \cup {NA}, cond : 0 .. 14,
            sbit : BOOLEAN, src : Classes, dst : Classes, allow_fix : BOOLEAN, invalid : BOOLEAN]

\* The types of all variables.
Types ==
  /\ TypeOK
  /\ blk \in BlockType /\ req \in ReqType
  /\ pc # "append" => buf \in Seq(LineType)

Running == pc \in {"call", "try", "parse", "append"}
Taken == pc \in {"try", "parse", "append"}

\* The arguments of a call: an ARM opcode asked for by name has no base.
Asked ==
  Running =>
    /\ cnt <= LIMIT
    /\ \/ req.by = "kind" /\ ~req.invalid
       \/ req.by = "op" /\ req.form \in Forms /\ (InstrSet(req.form) = ARM => ~HasBase(req.form))
    /\ req.invalid => blk.type = "pc"

\* The opcode is the one asked for, or of the kind and instruction set.
Chosen ==
  Taken =>
    \/ req.by = "op" /\ op = req.form
    \/ req.by = "kind" /\ isa = IsaOf(blk.isARM) /\ op = NA
    \/ /\ req.by = "kind" /\ isa = IsaOf(blk.isARM)
       /\ op \in Forms /\ InstrSet(op) = isa /\ Kind(op) = req.kind

\* A word is one of its opcode's.
Fits ==
  /\ pc = "call" /\ word # NoWord => req.by = "op" /\ Encoded(req.form, word)
  /\ Taken /\ word # NoWord => op \in Forms /\ Encoded(op, word)
  /\ blk.type # "pc" => twin = NoWord

\* What is known of the word once the library has decided.
Decided ==
  /\ pc = "try" => cond_val = req.cond
  /\ pc = "try" /\ tries < RETRY => status = "UNSUPPORTED"
  /\ pc \in {"parse", "append"} /\ op = NA => status = "UNSUPPORTED"
  /\ pc \in {"parse", "append"} /\ status = "VALID" =>
       /\ 15 \notin Writes(op, word)
       /\ req.by = "kind" /\ blk.isARM =>
            /\ word.c = IF Shifted(op) /\ word.sh = RRX THEN 3 ELSE req.cond
            /\ HasSbit(op) => word.S = req.sbit
  /\ pc = "append" => Usable

\* The lines: the word comes last.
Written ==
  /\ Len(buf) <= 8
  /\ pc = "parse" \/ (pc = "try" /\ tries < RETRY) =>
       op = NA \/ (Len(buf) >= 1 /\ buf[Len(buf)] = TheWord)
  /\ pc = "append" => Len(buf) >= 1

\* The word genALUwritePC has written for pc.
ForPc(w) == [w EXCEPT !.t = 15]

\* genALUwritePC: the first call gives a word that writes lr, the second the
\* same word for pc.
Twins ==
  blk.type = "pc" =>
    /\ blk.isARM
    /\ cnt \in 0 .. 2
    /\ Running => /\ cnt \in 0 .. 1
                  /\ req = ByOpcode(req.form, req.cond, FALSE, IF cnt = 0 THEN "R_LR" ELSE "R_PC", TRUE)
    /\ Running \/ cnt >= 1 => req.form \in PcForms /\ req.cond \in 0 .. 14
    /\ cnt = 0 => twin = NoWord
    /\ cnt = 1 => /\ twin # NoWord /\ Encoded(req.form, twin) /\ twin.t = 14 /\ twin.c = req.cond
                  /\ isa = ARM /\ HasSbit(req.form) => ~twin.S
    /\ pc = "call" => word = twin
    /\ pc = "try" /\ cnt = 0 => word = NoWord /\ tries = RETRY
    /\ pc = "try" /\ cnt = 1 => word = IF tries = RETRY THEN twin ELSE ForPc(twin)
    /\ pc \in {"parse", "append"} =>
         /\ status \in {"VALID", "UNSUPPORTED"}
         /\ IF cnt = 0 THEN /\ word # NoWord /\ word.t = 14 /\ word.c = req.cond
                            /\ isa = ARM /\ HasSbit(req.form) => ~word.S
                       ELSE word = ForPc(twin)

IInv == Types /\ Asked /\ Chosen /\ Fits /\ Decided /\ Written /\ Twins

-----------------------------------------------------------------------------
(* Facts about the constants of the model.                                  *)

\* Every opcode is of a kind.
LEMMA KindType ==
  ASSUME NEW f \in Forms
  PROVE  Kind(f) \in Kinds
<1>1. f.gen \in {"thumb_multi_mem", "thumb32_multi_mem"} => f.v \in {"LDM", "STM", "POP", "PUSH"}
  BY FormVariant DEF Variants
<1>2. QED
  BY <1>1 DEF Kind, Kinds

\* SISA_OP_NA is no opcode.
LEMMA NoForm == NA \notin Forms
BY FormVariant DEF NA, Variants

\* NoWord is typed.
LEMMA NoWordType == NoWord \in Words
BY DEF NoWord, Words

\* The shifts genMulShiftInstrs asks for are opcodes without a base.
LEMMA ShiftFormsOk ==
  ASSUME NEW isARM \in BOOLEAN, NEW f \in ShiftForms(isARM)
  PROVE  f \in Forms /\ ~HasBase(f)
<1>1. f.gen \in {"data", "thumb32_data_reg"} /\ f = [gen |-> f.gen, v |-> f.v]
      /\ f.gen \in DOMAIN Variants /\ f.v \in Variants[f.gen]
  BY DEF ShiftForms, Variants
<1>2. QED
  BY <1>1 DEF Forms, HasBase, SpBase, RegBase

\* So are those of genALUwritePC; their words have one result and the
\* condition asked for.
LEMMA PcFormsOk ==
  ASSUME NEW f \in PcForms
  PROVE  /\ f \in Forms /\ ~HasBase(f) /\ InstrSet(f) = ARM
         /\ \A i : Writes(f, i) = {i.t}
         /\ \A i, st, c : CondAfter(f, i, st, c) = c
         /\ \A i : gen_status(f, i) = IF i.t = 15 THEN "UNSUPPORTED" ELSE "VALID"
<1>1. f.gen \in DOMAIN Variants /\ f.v \in Variants[f.gen] /\ f = [gen |-> f.gen, v |-> f.v]
      /\ ((f.gen = "data" /\ f.v = "plain") \/ (f.gen = "misc" /\ f.v = "ADR"))
  BY DEF PcForms, Variants
<1>2. f \in Forms
  BY <1>1 DEF Forms
<1>3. ~HasBase(f) /\ InstrSet(f) = ARM /\ ~OffsetReg(f)
  BY <1>1 DEF HasBase, SpBase, RegBase, InstrSet, T16Gens, T32Gens, OffsetReg
<1>4. ASSUME NEW i
      PROVE  Writes(f, i) = {i.t}
  <2>1. OutputFields(f) = {"t"}
    BY <1>1 DEF OutputFields, Kind, HasList
  <2>2. Loads(f, i) = {i.t}
    BY <1>1, <2>1 DEF Loads, LoadsNext, Compares, Kind, HasList
  <2>3. ~WritesBack(f, i)
    BY <1>1 DEF WritesBack
  <2>4. QED
    BY <2>2, <2>3 DEF Writes
<1>5. ASSUME NEW i
      PROVE  gen_status(f, i) = IF i.t = 15 THEN "UNSUPPORTED" ELSE "VALID"
  BY <1>1 DEF gen_status, NA, T16Gens, T32Gens, gen_arm_instr, data, misc, Verdict
<1>6. QED
  BY <1>2, <1>3, <1>4, <1>5 DEF CondAfter

\* preprocess_instr gives such a word the register asked for, and leaves the
\* rest as it is.
LEMMA PcPreprocess ==
  ASSUME NEW f \in PcForms, NEW i, Encoded(f, i), NEW dst \in {"R_LR", "R_PC"}, NEW sb \in BOOLEAN,
         NEW j \in preprocess_instr(f, i, "R_DEFAULT", dst)
  PROVE  j = [i EXCEPT !.t = IF dst = "R_LR" THEN 14 ELSE 15]
<1>1. (f.gen = "data" /\ f.v = "plain") \/ (f.gen = "misc" /\ f.v = "ADR")
  BY DEF PcForms
<1>2. OutputFields(f) = {"t"} /\ ~HasList(f) /\ ~Low(f)
  BY <1>1 DEF OutputFields, Kind, HasList, Low, T16Gens
<1>3. \E u \in update_instr_reg_opnd(f, i, {"t"}, dst) : j = EvenPair(f, u, dst)
  BY <1>2 DEF preprocess_instr, SetSrc, SetDst
<1>4. PICK u \in update_instr_reg_opnd(f, i, {"t"}, dst) : j = u
  BY <1>1, <1>3 DEF EvenPair
<1>5. Members(dst) = {IF dst = "R_LR" THEN 14 ELSE 15}
  BY DEF Members
<1>6. PICK draw \in [{"t"} -> Members(dst)] :
        u = [k \in DOMAIN i |-> IF k \in {"t"} THEN draw[k] ELSE i[k]]
  BY <1>2, <1>4 DEF update_instr_reg_opnd
<1>7. draw["t"] = IF dst = "R_LR" THEN 14 ELSE 15
  BY <1>5, <1>6
<1>8. QED
  BY <1>4, <1>6, <1>7 DEF Encoded, Words

\* The condition field does not matter for what a word writes.
LEMMA WritesCond ==
  ASSUME NEW f \in Forms, NEW i \in Words, NEW c
  PROVE  Writes(f, [i EXCEPT !.c = c]) = Writes(f, i)
<1> DEFINE j == [i EXCEPT !.c = c]
<1>1. /\ \A k \in {"t", "n", "m", "a", "list", "P", "W"} : j[k] = i[k]
      /\ j.t = i.t /\ j.n = i.n /\ j.list = i.list /\ j.P = i.P /\ j.W = i.W
  BY DEF Words
<1> HIDE DEF j
<1>2. OutputFields(f) \subseteq {"t", "m", "a"}
  BY DEF OutputFields
<1>3. {j[k] : k \in OutputFields(f)} = {i[k] : k \in OutputFields(f)}
  BY <1>1, <1>2
<1>4. Loads(f, j) = Loads(f, i)
  BY <1>1, <1>3 DEF Loads
<1>5. WritesBack(f, j) = WritesBack(f, i) /\ Base(f, j) = Base(f, i)
  BY <1>1 DEF WritesBack, Base, Wback
<1>6. QED
  BY <1>4, <1>5 DEF Writes, j

-----------------------------------------------------------------------------
(* Every step keeps the invariant.                                          *)

\* The state between blocks is a legal one.
LEMMA InitInd == Init => IInv
<1>1. SUFFICES ASSUME Init PROVE IInv
  OBVIOUS
<1>2. Types
  <2>1. TypeOK
    BY <1>1, NoWordType, RitLibAssumption
    DEF Init, TypeOK, AllUnknown, Status, ARM, THUMB
  <2>2. blk \in BlockType
    BY <1>1 DEF Init, NoBlock, BlockType, BlockTypes, Classes
  <2>3. req \in ReqType
    BY <1>1 DEF Init, NoReq, ReqType, Classes
  <2>4. buf \in Seq(LineType)
    BY <1>1 DEF Init
  <2>5. QED
    BY <2>1, <2>2, <2>3, <2>4 DEF Types
<1>3. Asked /\ Chosen /\ Fits /\ Decided
  BY <1>1 DEF Init, Asked, Chosen, Fits, Decided, Running, Taken
<1>4. Written
  BY <1>1 DEF Init, Written
<1>5. Twins
  BY <1>1 DEF Init, Twins, NoBlock
<1>6. QED
  BY <1>2, <1>3, <1>4, <1>5 DEF IInv

\* A block generator starts.
LEMMA BeginInd ==
  ASSUME IInv, NEW b \in BlockType, b.type = "pc" => b.isARM, NEW known, Begin(b, known)
  PROVE  IInv'
<1>1. Types'
  <2>1. TypeOK'
    BY NoWordType, RitLibAssumption DEF IInv, Types, Begin, TypeOK
  <2>2. QED
    BY <2>1 DEF IInv, Types, Begin
<1>2. Asked' /\ Chosen' /\ Fits' /\ Decided'
  BY DEF Begin, Asked, Chosen, Fits, Decided, Running, Taken
<1>3. Written'
  BY DEF IInv, Begin, Written
<1>4. Twins'
  BY DEF Begin, Twins, Running
<1>5. QED
  BY <1>1, <1>2, <1>3, <1>4 DEF IInv

\* Every block is one of the five.
LEMMA BlockInd ==
  ASSUME IInv, Block
  PROVE  IInv'
<1>1. PICK b \in BlockType, known \in SUBSET Int :
        Begin(b, known) /\ (b.type = "pc" => b.isARM)
  <2>1. CASE genMemInstrs
    BY <2>1 DEF genMemInstrs, PresetRegs, BlockType, BlockTypes, Classes, RegClasses
  <2>2. CASE genInstrs
    BY <2>2 DEF genInstrs, BlockType, BlockTypes, Classes
  <2>3. CASE genMulShiftInstrs
    BY <2>3 DEF genMulShiftInstrs, BlockType, BlockTypes, Classes
  <2>4. CASE genALUwritePC
    <3>1. [type |-> "pc", isARM |-> TRUE, reg |-> "R_DEFAULT"] \in BlockType
      BY DEF BlockType, BlockTypes, Classes
    <3>2. QED
      BY <2>4, <3>1 DEF genALUwritePC
  <2>5. CASE main
    BY <2>5 DEF main, BlockType, BlockTypes, Classes
  <2>6. QED
    BY <2>1, <2>2, <2>3, <2>4, <2>5 DEF Block
<1>2. QED
  BY <1>1, BeginInd

\* A block ends.
LEMMA EndInd ==
  ASSUME IInv, EndBlock
  PROVE  IInv'
<1>1. Types'
  <2>1. TypeOK'
    BY NoWordType, RitLibAssumption DEF IInv, Types, EndBlock, TypeOK, AllUnknown, Status
  <2>2. blk' \in BlockType
    BY DEF EndBlock, NoBlock, BlockType, BlockTypes, Classes
  <2>3. req' \in ReqType
    BY DEF EndBlock, NoReq, ReqType, Classes
  <2>4. buf' \in Seq(LineType)
    BY DEF EndBlock
  <2>5. QED
    BY <2>1, <2>2, <2>3, <2>4 DEF Types
<1>2. Asked' /\ Chosen' /\ Fits' /\ Decided'
  BY DEF EndBlock, Asked, Chosen, Fits, Decided, Running, Taken
<1>3. Written'
  BY DEF EndBlock, Written
<1>4. Twins'
  BY DEF EndBlock, Twins, NoBlock
<1>5. QED
  BY <1>1, <1>2, <1>3, <1>4 DEF IInv

\* A call of the wrapper begins: nothing but its arguments, the tries and
\* the word to start from is new.
LEMMA AskInd ==
  ASSUME IInv, pc = "ask", cnt <= LIMIT, blk.type # "pc", NEW r \in ReqType, Ask(r), ~r.invalid,
         \/ r.by = "kind"
         \/ r.by = "op" /\ r.form \in Forms /\ (InstrSet(r.form) = ARM => ~HasBase(r.form))
  PROVE  IInv'
<1>1. Types'
  <2>1. TypeOK'
    BY NoWordType, RitLibAssumption DEF IInv, Types, Ask, TypeOK
  <2>2. QED
    BY <2>1 DEF IInv, Types, Ask
<1>2. Asked'
  BY DEF Ask, Asked
<1>3. Chosen' /\ Decided'
  BY DEF Ask, Chosen, Decided, Taken
<1>4. Fits'
  BY DEF IInv, Ask, Fits, Taken
<1>5. Written'
  BY DEF IInv, Ask, Written
<1>6. Twins'
  BY DEF Ask, Twins
<1>7. QED
  BY <1>1, <1>2, <1>3, <1>4, <1>5, <1>6 DEF IInv

\* The generators other than genALUwritePC make legal calls.
LEMMA AsksInd ==
  ASSUME IInv, AskMem \/ AskAny \/ AskMulShift \/ AskMain
  PROVE  IInv'
<1>1. /\ LIMIT \in Nat \ {0} /\ Conds \subseteq 0 .. 14 /\ Sbits \subseteq BOOLEAN
      /\ SrcClasses \subseteq RegClasses /\ blk \in BlockType /\ cnt \in Nat
  BY RitLibAssumption DEF IInv, Types, TypeOK
<1>2. ASSUME NEW k \in Kinds \cup {"MUL_OP"}, NEW c \in Conds, NEW s \in BOOLEAN, NEW src \in Classes,
             NEW dst \in Classes, NEW fix \in BOOLEAN
      PROVE  /\ ByKind(k, c, s, src, dst, fix) \in ReqType
             /\ ~ByKind(k, c, s, src, dst, fix).invalid /\ ByKind(k, c, s, src, dst, fix).by = "kind"
  BY <1>1, <1>2 DEF ByKind, ReqType
<1>3. CASE AskMem
  <2>1. PICK k \in MemOps(blk.reg), dst \in DstRegs(blk), c \in Conds, s \in Sbits :
          Ask(ByKind(k, c, s, blk.reg, dst, AllowFix(blk.reg)))
    BY <1>3 DEF AskMem
  <2>2. pc = "ask" /\ blk.type = "mem" /\ cnt < LIMIT
    BY <1>3 DEF AskMem
  <2>3. k \in Kinds /\ dst \in Classes /\ blk.reg \in Classes /\ AllowFix(blk.reg) \in BOOLEAN
    BY <1>1 DEF MemOps, DstRegs, Kinds, Classes, RegClasses, BlockType, AllowFix
  <2>4. QED
    BY <1>1, <1>2, <2>1, <2>2, <2>3, AskInd
<1>4. CASE AskAny
  <2>1. PICK k \in {"PUSH_OP", "POP_OP", "LD_OP", "MISC_OP", "REG_OP"}, c \in Conds, s \in Sbits :
          Ask(ByKind(k, c, s, "R_DEFAULT", "R_DEFAULT", TRUE))
    BY <1>4 DEF AskAny
  <2>2. pc = "ask" /\ blk.type = "any" /\ cnt < LIMIT
    BY <1>4 DEF AskAny
  <2> DEFINE r == ByKind(k, c, s, "R_DEFAULT", "R_DEFAULT", TRUE)
  <2>3. k \in Kinds /\ "R_DEFAULT" \in Classes /\ s \in BOOLEAN /\ TRUE \in BOOLEAN
    BY <1>1 DEF Kinds, Classes
  <2>4. r \in ReqType /\ ~r.invalid /\ r.by = "kind"
    BY <1>2, <2>3
  <2>5. Ask(r)
    BY <2>1
  <2>6. cnt <= LIMIT
    BY <1>1, <2>2
  <2> HIDE DEF r
  <2>7. QED
    BY <2>2, <2>4, <2>5, <2>6, AskInd
<1>5. CASE AskMulShift
  <2>1. pc = "ask" /\ blk.type = "mulshift" /\ cnt < LIMIT
    BY <1>5 DEF AskMulShift
  <2>2. PICK c \in Conds, s \in Sbits :
          \/ \E k \in {"MUL_OP", "REG_OP"} : Ask(ByKind(k, c, s, "R_DEFAULT", "R_DEFAULT", TRUE))
          \/ \E f \in ShiftForms(blk.isARM) : Ask(ByOpcode(f, c, s, "R_DEFAULT", FALSE))
    BY <1>5 DEF AskMulShift
  <2>3. CASE \E k \in {"MUL_OP", "REG_OP"} : Ask(ByKind(k, c, s, "R_DEFAULT", "R_DEFAULT", TRUE))
    <3>1. PICK k \in {"MUL_OP", "REG_OP"} : Ask(ByKind(k, c, s, "R_DEFAULT", "R_DEFAULT", TRUE))
      BY <2>3
    <3> DEFINE r == ByKind(k, c, s, "R_DEFAULT", "R_DEFAULT", TRUE)
    <3>2. k \in Kinds \cup {"MUL_OP"} /\ "R_DEFAULT" \in Classes /\ s \in BOOLEAN /\ TRUE \in BOOLEAN
      BY <1>1 DEF Kinds, Classes
    <3>3. r \in ReqType /\ ~r.invalid /\ r.by = "kind"
      BY <1>2, <3>2
    <3>4. Ask(r)
      BY <3>1
    <3>5. cnt <= LIMIT
      BY <1>1, <2>1
    <3> HIDE DEF r
    <3>6. QED
      BY <2>1, <3>3, <3>4, <3>5, AskInd
  <2>4. CASE \E f \in ShiftForms(blk.isARM) : Ask(ByOpcode(f, c, s, "R_DEFAULT", FALSE))
    <3>1. PICK f \in ShiftForms(blk.isARM) : Ask(ByOpcode(f, c, s, "R_DEFAULT", FALSE))
      BY <2>4
    <3>2. f \in Forms /\ ~HasBase(f)
      BY <1>1, ShiftFormsOk DEF BlockType
    <3>3. ByOpcode(f, c, s, "R_DEFAULT", FALSE) \in ReqType
      BY <1>1, <3>2, KindType DEF ByOpcode, ReqType, Classes
    <3>4. QED
      BY <1>1, <2>1, <3>1, <3>2, <3>3, AskInd DEF ByOpcode
  <2>5. QED
    BY <2>2, <2>3, <2>4
<1>6. CASE AskMain
  <2>1. PICK k \in Kinds, src \in {"R_DEFAULT"} \cup SrcClasses, c \in Conds :
          Ask(ByKind(k, c, FALSE, src, "R_DEFAULT", TRUE))
    BY <1>6 DEF AskMain
  <2>2. pc = "ask" /\ blk.type = "main" /\ cnt = 0
    BY <1>6 DEF AskMain
  <2> DEFINE r == ByKind(k, c, FALSE, src, "R_DEFAULT", TRUE)
  <2>3. src \in Classes /\ "R_DEFAULT" \in Classes /\ FALSE \in BOOLEAN /\ TRUE \in BOOLEAN
    BY <1>1 DEF Classes
  <2>4. r \in ReqType /\ ~r.invalid /\ r.by = "kind"
    BY <1>2, <2>3
  <2>5. Ask(r)
    BY <2>1
  <2>6. cnt <= LIMIT
    BY <1>1, <2>2
  <2> HIDE DEF r
  <2>7. QED
    BY <2>2, <2>4, <2>5, <2>6, AskInd
<1>7. QED
  BY <1>3, <1>4, <1>5, <1>6

\* genALUwritePC calls for lr first, and then, with the same opcode and the
\* word it got, for pc.
LEMMA AskPcInd ==
  ASSUME IInv, AskLr \/ AskPc
  PROVE  IInv'
<1>1. PICK f \in PcForms, c \in 0 .. 14, dst \in {"R_LR", "R_PC"} :
        /\ Ask(ByOpcode(f, c, FALSE, dst, TRUE))
        /\ \/ cnt = 0 /\ dst = "R_LR"
           \/ cnt = 1 /\ dst = "R_PC" /\ f = req.form /\ c = req.cond
  <2>1. CASE AskLr
    <3>1. Conds \subseteq 0 .. 14
      BY RitLibAssumption
    <3>2. PICK f \in PcForms, c \in Conds : Ask(ByOpcode(f, c, FALSE, "R_LR", TRUE))
      BY <2>1 DEF AskLr
    <3>3. cnt = 0
      BY <2>1 DEF AskLr
    <3>4. c \in 0 .. 14
      BY <3>1
    <3>5. QED
      BY <3>2, <3>3, <3>4, Zenon
  <2>2. CASE AskPc
    <3>1. cnt = 1 /\ Ask(ByOpcode(req.form, req.cond, FALSE, "R_PC", TRUE))
      BY <2>2 DEF AskPc
    <3>2. req.form \in PcForms /\ req.cond \in 0 .. 14
      BY <2>2, <3>1 DEF AskPc, IInv, Twins
    <3>3. QED
      BY <3>1, <3>2, Zenon
  <2>3. QED
    BY <2>1, <2>2
<1>2. pc = "ask" /\ blk.type = "pc"
  BY Zenon DEF AskLr, AskPc
<1> DEFINE r == ByOpcode(f, c, FALSE, dst, TRUE)
<1>3. /\ r.by = "op" /\ r.form = f /\ r.cond = c /\ r.invalid
      /\ r = ByOpcode(r.form, r.cond, FALSE, dst, TRUE) /\ dst = IF cnt = 0 THEN "R_LR" ELSE "R_PC"
  BY <1>1 DEF ByOpcode
<1>4. f \in Forms /\ ~HasBase(f)
  BY PcFormsOk
<1>5. r \in ReqType
  BY <1>4, KindType DEF ByOpcode, ReqType, Classes, RegClasses
<1>6. Ask(r)
  BY <1>1
<1> HIDE DEF r
<1>7. /\ pc' = "call" /\ req' = r /\ word' = twin
      /\ UNCHANGED <<isa, cond_val, blk, op, status, buf, tries, cnt, retry, regs, twin>>
  BY <1>6 DEF Ask
<1>8. Types'
  <2>1. TypeOK'
    BY <1>6, NoWordType, RitLibAssumption DEF IInv, Types, Ask, TypeOK
  <2>2. QED
    BY <1>2, <1>5, <1>7, <2>1 DEF IInv, Types
<1>9. Asked'
  <2>1. cnt <= LIMIT
    BY <1>1, RitLibAssumption
  <2>2. QED
    BY <1>2, <1>3, <1>4, <1>7, <2>1 DEF Asked
<1>10. Chosen' /\ Decided'
  BY <1>7 DEF Chosen, Decided, Taken
<1>11. Fits'
  <2>1. twin # NoWord => Encoded(f, twin)
    BY <1>1, <1>2 DEF IInv, Twins
  <2>2. QED
    BY <1>2, <1>3, <1>7, <2>1 DEF Fits, Taken
<1>12. Written'
  BY <1>7 DEF IInv, Written
<1>13. Twins'
  <2>1. /\ blk.isARM /\ cnt \in 0 .. 2 /\ (cnt = 0 => twin = NoWord)
        /\ cnt = 1 => /\ twin # NoWord /\ Encoded(req.form, twin) /\ twin.t = 14 /\ twin.c = req.cond
                      /\ isa = ARM /\ HasSbit(req.form) => ~twin.S
    BY <1>2 DEF IInv, Twins
  <2>2. req' = ByOpcode(req'.form, req'.cond, FALSE, IF cnt' = 0 THEN "R_LR" ELSE "R_PC", TRUE)
    BY <1>3, <1>7
  <2>3. cnt' \in 0 .. 1 /\ pc' = "call" /\ word' = twin' /\ req'.form = f /\ req'.cond = c
    <3>1. cnt \in 0 .. 1
      BY <1>1
    <3>2. QED
      BY <1>3, <1>7, <3>1
  <2>4. cnt' = 1 => req.form = f /\ req.cond = c
    BY <1>1, <1>7
  <2>5. /\ cnt' = 1 => /\ twin' # NoWord /\ Encoded(req'.form, twin') /\ twin'.t = 14 /\ twin'.c = req'.cond
                       /\ isa' = ARM /\ HasSbit(req'.form) => ~twin'.S
        /\ cnt' = 0 => twin' = NoWord
        /\ blk'.isARM
    BY <1>7, <2>1, <2>3, <2>4
  <2>6. QED
    BY <2>2, <2>3, <2>5 DEF Twins, Running
<1>14. QED
  BY <1>8, <1>9, <1>10, <1>11, <1>12, <1>13 DEF IInv

\* The library is called with a kind.
LEMMA ByKindInd ==
  ASSUME IInv, py_gen_instr
  PROVE  IInv'
<1>1. blk.type # "pc"
  BY DEF py_gen_instr, IInv, Twins, Running, ByOpcode
<1>2. \/ op' = NA
      \/ op' \in Forms /\ InstrSet(op') = isa' /\ Kind(op') = req.kind
  BY DEF py_gen_instr, get_random_op, OpsOf
<1>3. isa' \in {ARM, THUMB} /\ req.cond \in 0 .. 14
  BY DEF py_gen_instr, IsaOf, IInv, Types, ReqType
<1>4. Types'
  <2>1. TypeOK'
    BY <1>2, <1>3, RitLibAssumption DEF IInv, Types, TypeOK, py_gen_instr
  <2>2. QED
    BY <2>1 DEF IInv, Types, py_gen_instr
<1>5. Asked'
  BY DEF IInv, Asked, Running, py_gen_instr
<1>6. Chosen'
  BY <1>2 DEF Chosen, py_gen_instr
<1>7. word = NoWord
  BY DEF IInv, Fits, py_gen_instr
<1>8. Fits' /\ Twins'
  BY <1>1, <1>7 DEF IInv, Fits, Twins, py_gen_instr
<1>9. Decided' /\ Written'
  BY RitLibAssumption DEF IInv, Decided, Written, py_gen_instr
<1>10. QED
  BY <1>4, <1>5, <1>6, <1>8, <1>9 DEF IInv

\* The library is called with an opcode.
LEMMA ByOpcodeInd ==
  ASSUME IInv, py_gen_instr_with_op
  PROVE  IInv'
<1>1. pc = "call" /\ req.by = "op" /\ req.form \in Forms
  BY DEF py_gen_instr_with_op, IInv, Asked, Running
<1>2. Types'
  <2>1. isa' \in {ARM, THUMB} /\ req.cond \in 0 .. 14
    BY DEF py_gen_instr_with_op, IInv, Types, TypeOK, ReqType
  <2>2. TypeOK'
    BY <1>1, <2>1, RitLibAssumption DEF IInv, Types, TypeOK, py_gen_instr_with_op
  <2>3. QED
    BY <2>2 DEF IInv, Types, py_gen_instr_with_op
<1>3. Asked' /\ Chosen'
  BY <1>1 DEF IInv, Asked, Running, Chosen, Taken, py_gen_instr_with_op
<1>4. Fits'
  BY <1>1 DEF IInv, Fits, py_gen_instr_with_op
<1>5. Decided' /\ Written'
  BY RitLibAssumption DEF IInv, Decided, Written, py_gen_instr_with_op
<1>6. ASSUME blk.type = "pc"
      PROVE  isa' = isa
  BY <1>1, <1>6, PcFormsOk DEF IInv, Twins, Running, py_gen_instr_with_op, ARM, THUMB
<1>7. Twins'
  BY <1>1, <1>6 DEF IInv, Twins, Running, py_gen_instr_with_op
<1>8. QED
  BY <1>2, <1>3, <1>4, <1>5, <1>7 DEF IInv

\* The library gives up.
LEMMA OutputInd ==
  ASSUME IInv, output_instr
  PROVE  IInv'
<1>1. tries < RETRY /\ tries # RETRY
  BY RitLibAssumption DEF output_instr
<1>2. Types'
  BY DEF IInv, Types, TypeOK, output_instr
<1>3. Asked' /\ Chosen' /\ Fits'
  BY DEF IInv, Asked, Chosen, Fits, Running, Taken, output_instr
<1>4. Decided' /\ Written'
  BY <1>1 DEF IInv, Decided, Written, output_instr
<1>5. Twins'
  <2>1. status = "UNSUPPORTED" /\ pc = "try"
    BY <1>1 DEF IInv, Decided, output_instr
  <2>2. blk.type = "pc" => cnt = 1 /\ word = ForPc(twin)
    BY <1>1, <2>1 DEF IInv, Twins, Running
  <2>3. QED
    BY <2>1, <2>2 DEF IInv, Twins, Running, output_instr
<1>6. QED
  BY <1>2, <1>3, <1>4, <1>5 DEF IInv

\* parseRIT keeps the line of the word, and adds none.
LEMMA KeptLength ==
  ASSUME NEW ls \in Seq(LineType), Len(ls) >= 1, ls[Len(ls)] = TheWord
  PROVE  Len(Kept(ls)) \in 1 .. Len(ls)
<1> DEFINE keep == {k \in 1 .. Len(ls) : ls[k].tag = "INST" \/ req.allow_fix}
           S == {Kept(ls)[j] : j \in 1 .. Cardinality(keep)}
<1>1. Len(ls) \in Nat /\ Len(ls) \in keep
  BY DEF TheWord, Line
<1>2. IsFiniteSet(1 .. Len(ls)) /\ Cardinality(1 .. Len(ls)) = Len(ls)
  BY <1>1, FS_Interval
<1>3. IsFiniteSet(keep) /\ Cardinality(keep) <= Len(ls)
  <2>1. keep \subseteq 1 .. Len(ls)
    OBVIOUS
  <2> HIDE DEF keep
  <2>2. QED
    BY <1>2, <2>1, FS_Subset
<1>4. Cardinality(keep) \in Nat /\ Cardinality(keep) # 0
  <2> HIDE DEF keep
  <2>1. QED
    BY <1>1, <1>3, FS_CardinalityType, FS_EmptySet
<1>5. DOMAIN Kept(ls) = 1 .. Cardinality(keep)
  BY DEF Kept
<1>6. Kept(ls) = [j \in 1 .. Cardinality(keep) |-> Kept(ls)[j]]
  BY DEF Kept
<1> HIDE DEF keep
<1>7. Kept(ls) \in [1 .. Cardinality(keep) -> S]
  BY <1>6
<1> HIDE DEF S
<1>8. Len(Kept(ls)) = Cardinality(keep)
  BY <1>4, <1>7
<1>9. QED
  BY <1>1, <1>3, <1>4, <1>8

\* A usable word has an opcode.
LEMMA UsableOp ==
  ASSUME IInv, pc \in {"parse", "append"}, Usable
  PROVE  op \in Forms
<1>1. CASE status = "VALID"
  BY <1>1 DEF IInv, Decided, Types, TypeOK
<1>2. CASE req.invalid
  BY <1>2 DEF IInv, Asked, Chosen, Running, Taken
<1>3. QED
  BY <1>1, <1>2 DEF Usable

\* The wrapper keeps the lines.
LEMMA AcceptInd ==
  ASSUME IInv, Accept
  PROVE  IInv'
<1>1. pc = "parse" /\ Usable /\ pc' = "append" /\ buf' = Kept(buf)
      /\ UNCHANGED <<isa, cond_val, blk, req, op, word, status, tries, pyTries, cnt, retry, regs, twin>>
  BY DEF Accept
<1>2. Len(buf) >= 1 /\ buf[Len(buf)] = TheWord /\ buf \in Seq(LineType) /\ Len(buf) <= 8
  <2>1. op # NA
    BY <1>1, UsableOp, NoForm
  <2>2. QED
    BY <1>1, <2>1 DEF IInv, Written, Types
<1>3. Len(buf') \in 1 .. Len(buf)
  BY <1>1, <1>2, KeptLength
<1>4. Len(buf') \in Nat /\ Len(buf') >= 1 /\ Len(buf') <= 8
  <2>1. Len(buf) \in Nat
    BY <1>2
  <2>2. QED
    BY <1>2, <1>3, <2>1
<1>5. Types'
  <2>1. TypeOK'
    BY <1>1, <1>4 DEF IInv, Types, TypeOK
  <2>2. QED
    BY <1>1, <2>1 DEF IInv, Types
<1>6. Asked' /\ Chosen' /\ Fits'
  BY <1>1 DEF IInv, Asked, Chosen, Fits, Running, Taken
<1>7. Decided'
  BY <1>1 DEF IInv, Decided, Usable
<1>8. Written'
  BY <1>1, <1>4 DEF Written
<1>9. Twins'
  BY <1>1 DEF IInv, Twins, Running
<1>10. QED
  BY <1>5, <1>6, <1>7, <1>8, <1>9 DEF IInv

\* Both calls of genALUwritePC give a word.
LEMMA PcUsable ==
  ASSUME IInv, pc = "parse", blk.type = "pc"
  PROVE  Usable
BY DEF IInv, Twins, Running, Usable, ByOpcode

\* The wrapper tries again.
LEMMA AgainInd ==
  ASSUME IInv, Again
  PROVE  IInv'
<1>1. blk.type # "pc"
  BY PcUsable DEF Again
<1>2. Types'
  <2>1. TypeOK'
    <3>1. pyTries' \in 0 .. MAXRETRY
      BY RitLibAssumption DEF IInv, Types, TypeOK, Again
    <3>2. word' \in Words
      BY NoWordType DEF IInv, Types, TypeOK, Again
    <3>3. Len(buf') \in Nat
      BY DEF Again
    <3>4. QED
      BY <3>1, <3>2, <3>3 DEF IInv, Types, TypeOK, Status, Again
  <2>2. buf' \in Seq(LineType)
    BY DEF Again
  <2>3. QED
    BY <2>1, <2>2 DEF IInv, Types, Again
<1>3. Asked'
  BY DEF IInv, Asked, Running, Again
<1>4. Chosen' /\ Decided' /\ Written'
  BY DEF Chosen, Decided, Written, Taken, Again
<1>5. Fits'
  BY <1>1 DEF IInv, Fits, Chosen, Taken, Again
<1>6. Twins'
  BY <1>1 DEF Twins, Again
<1>7. QED
  BY <1>2, <1>3, <1>4, <1>5, <1>6 DEF IInv

\* The block generator takes the lines.
LEMMA DeliverInd ==
  ASSUME IInv, Deliver
  PROVE  IInv'
<1>1. /\ pc = "append" /\ pc' = "ask" /\ buf' = <<>> /\ status' = "VALID" /\ op' = NA /\ word' = NoWord
      /\ retry' = 0 /\ twin' = (IF blk.type = "pc" THEN word ELSE twin)
      /\ UNCHANGED <<isa, cond_val, blk, req, tries, pyTries>> /\ DOMAIN regs' = 0 .. 15
  BY DEF Deliver
<1>2. cnt' \in cnt + 1 .. cnt + 8
  <2>1. cnt \in Nat /\ Len(buf) \in Nat
    BY RitLibAssumption DEF IInv, Types, TypeOK
  <2>2. Len(buf) >= 1 /\ Len(buf) <= 8
    BY <1>1 DEF IInv, Written
  <2>3. CASE blk.type \in {"mem", "any"}
    BY <2>1, <2>2, <2>3 DEF Deliver, Reinit
  <2>4. CASE blk.type \notin {"mem", "any"}
    BY <2>1, <2>4 DEF Deliver, Reinit
  <2>5. QED
    BY <2>3, <2>4
<1>3. Types'
  <2>1. cnt' \in 0 .. LIMIT + MAX_INSTR
    BY <1>1, <1>2, RitLibAssumption DEF IInv, Asked, Running, Types, TypeOK
  <2>2. TypeOK'
    BY <1>1, <2>1, NoWordType, RitLibAssumption DEF IInv, Types, TypeOK, Status
  <2>3. buf' \in Seq(LineType)
    BY <1>1
  <2>4. QED
    BY <1>1, <2>2, <2>3 DEF IInv, Types
<1>4. Asked' /\ Chosen' /\ Decided' /\ Written'
  BY <1>1 DEF Asked, Chosen, Decided, Written, Running, Taken
<1>5. Fits'
  BY <1>1 DEF IInv, Fits, Taken
<1>6. Twins'
  <2>1. SUFFICES ASSUME blk.type = "pc" PROVE Twins'
    BY <1>1 DEF Twins
  <2>2. cnt' = cnt + 1 /\ cnt \in 0 .. 1 /\ blk.isARM
    BY <1>1, <2>1 DEF Deliver, Reinit, IInv, Twins, Running
  <2>3. req.form \in PcForms /\ req.cond \in 0 .. 14 /\ op = req.form
    BY <1>1, <2>1 DEF IInv, Twins, Running, Chosen, Taken, ByOpcode
  <2>4. CASE cnt = 0
    <3>1. /\ word # NoWord /\ word.t = 14 /\ word.c = req.cond
          /\ isa = ARM /\ HasSbit(req.form) => ~word.S
      BY <1>1, <2>1, <2>4 DEF IInv, Twins
    <3>2. Encoded(req.form, word)
      BY <1>1, <2>3, <3>1 DEF IInv, Fits, Taken
    <3>3. QED
      BY <1>1, <2>1, <2>2, <2>3, <2>4, <3>1, <3>2 DEF Twins, Running
  <2>5. CASE cnt = 1
    BY <1>1, <2>1, <2>2, <2>3, <2>5 DEF Twins, Running
  <2>6. QED
    BY <2>2, <2>4, <2>5
<1>7. QED
  BY <1>3, <1>4, <1>5, <1>6 DEF IInv

\* The wrapper gives up.
LEMMA FailInd ==
  ASSUME IInv, Fail
  PROVE  IInv'
<1>1. blk.type # "pc"
  BY PcUsable DEF Fail
<1>2. /\ pc = "parse" /\ pc' = "ask" /\ buf' = <<>> /\ status' = "VALID" /\ op' = NA /\ word' = NoWord
      /\ UNCHANGED <<isa, cond_val, blk, req, tries, pyTries, regs, twin>>
  BY <1>1 DEF Fail
<1>3. cnt \in Nat /\ cnt <= LIMIT /\ retry \in 0 .. MAXRETRY /\ MAXRETRY \in Nat
  BY <1>2, RitLibAssumption DEF IInv, Asked, Running, Types, TypeOK
<1>4. cnt' \in cnt .. cnt + 3 /\ retry' \in 0 .. MAXRETRY
  BY <1>3 DEF Fail, Reinit, GivesUp
<1>5. Types'
  <2>1. cnt' \in 0 .. LIMIT + MAX_INSTR
    BY <1>3, <1>4, RitLibAssumption
  <2>2. TypeOK'
    BY <1>2, <1>4, <2>1, NoWordType DEF IInv, Types, TypeOK, Status
  <2>3. buf' \in Seq(LineType)
    BY <1>2
  <2>4. QED
    BY <1>2, <2>2, <2>3 DEF IInv, Types
<1>6. Asked' /\ Chosen' /\ Decided' /\ Written'
  BY <1>2 DEF Asked, Chosen, Decided, Written, Running, Taken
<1>7. Fits' /\ Twins'
  BY <1>1, <1>2 DEF IInv, Fits, Twins, Taken
<1>8. QED
  BY <1>5, <1>6, <1>7 DEF IInv

\* The code of a try and the word after it: at most eight lines, the word
\* last.
LEMMA LinesFit ==
  ASSUME op \in Forms, NEW i, Encoded(op, i), isa \in {ARM, THUMB}, InStep(op, isa), NEW st
  PROVE  /\ Lines(i, st) \in Seq(LineType) /\ Len(Lines(i, st)) \in 1 .. 8
         /\ Lines(i, st)[Len(Lines(i, st))] = TheWord
<1> DEFINE p == Prefix(op, i, isa, st)
<1>1. p \in Seq(LineType) /\ Len(p) <= 7
  BY PrefixLength
<1>2. TheWord \in LineType
  BY DEF TheWord, Line, LineType, LineOps
<1>3. <<TheWord>> \in Seq(LineType) /\ Len(<<TheWord>>) = 1 /\ <<TheWord>>[1] = TheWord
  <2> HIDE DEF TheWord
  <2>1. QED
    BY <1>2, FewLines
<1>4. Lines(i, st) = p \o <<TheWord>>
  BY NoForm DEF Lines
<1> HIDE DEF p, TheWord
<1> DEFINE one == <<TheWord>>
<1>5. one \in Seq(LineType) /\ Len(one) = 1 /\ one[1] = TheWord /\ Len(p) \in Nat
  BY <1>1, <1>3
<1> HIDE DEF one
<1>6. /\ p \o one \in Seq(LineType) /\ Len(p \o one) = Len(p) + 1
      /\ (p \o one)[Len(p) + 1] = one[1]
  <2>1. p \o one \in Seq(LineType) /\ Len(p \o one) = Len(p) + Len(one)
    BY <1>1, <1>5, ConcatProperties
  <2>2. \A k \in 1 .. Len(p) + Len(one) :
          (p \o one)[k] = IF k <= Len(p) THEN p[k] ELSE one[k - Len(p)]
    BY <1>1, <1>5, ConcatProperties
  <2>3. Len(p) + 1 \in 1 .. Len(p) + Len(one) /\ (Len(p) + 1) - Len(p) = 1 /\ ~(Len(p) + 1 <= Len(p))
    BY <1>5
  <2>4. QED
    BY <1>5, <2>1, <2>2, <2>3
<1>7. QED
  BY <1>1, <1>4, <1>5, <1>6 DEF one

\* The words of a try are words of the opcode, with the S bit asked for.
LEMMA FilledEncoded ==
  ASSUME IInv, pc = "try", op \in Forms, NEW w \in Drawn, NEW i \in Filled(w)
  PROVE  /\ Encoded(op, i)
         /\ isa = ARM /\ HasSbit(op) => i.S = req.sbit
         /\ word # NoWord => w = word
<1>1. Encoded(op, w) /\ (word # NoWord => w = word)
  <2>1. CASE word # NoWord
    BY <2>1 DEF Drawn, IInv, Fits, Taken
  <2>2. CASE word = NoWord
    <3>1. w \in Operands(op, Overwritten(op, req.src, req.dst))
      BY <2>2, NoForm DEF Drawn
    <3>2. QED
      BY <2>2, <3>1, OperandsEncoded
  <2>3. QED
    BY <2>1, <2>2
<1>2. req.src \in Classes /\ req.dst \in Classes /\ req.sbit \in BOOLEAN
  BY DEF IInv, Types, ReqType
<1>3. Encoded(op, SetSbit(op, w)) /\ (isa = ARM /\ HasSbit(op) => SetSbit(op, w).S = req.sbit)
  BY <1>1, <1>2 DEF SetSbit, Encoded, Words
<1>4. i \in preprocess_instr(op, SetSbit(op, w), req.src, req.dst)
  BY NoForm DEF Filled
<1>5. Encoded(op, i) /\ i["S"] = SetSbit(op, w)["S"]
  BY <1>2, <1>3, <1>4, PreprocessEncoded
<1>6. QED
  BY <1>1, <1>3, <1>5

\* Writing the condition field changes nothing else.
LEMMA CondWritten ==
  ASSUME IInv, pc = "try", op \in Forms, NEW i, Encoded(op, i), NEW st
  PROVE  /\ CondAfter(op, i, st, cond_val) \in 0 .. 14
         /\ st = "UNSUPPORTED" => CondAfter(op, i, st, cond_val) = cond_val
         /\ Encoded(op, WithCond(i, st)) /\ Writes(op, WithCond(i, st)) = Writes(op, i)
         /\ WithCond(i, st) = IF InstrSet(op) = ARM
                                THEN [i EXCEPT !.c = CondAfter(op, i, st, cond_val)] ELSE i
<1>1. CondAfter(op, i, st, cond_val) \in 0 .. 14
  BY DEF CondAfter, IInv, Types, TypeOK
<1>2. st = "UNSUPPORTED" => CondAfter(op, i, st, cond_val) = cond_val
  BY DEF CondAfter
<1>3. WithCond(i, st) = IF InstrSet(op) = ARM
                          THEN [i EXCEPT !.c = CondAfter(op, i, st, cond_val)] ELSE i
  BY NoForm DEF WithCond
<1>4. Encoded(op, WithCond(i, st))
  BY <1>1, <1>3 DEF Encoded, Words
<1>5. Writes(op, WithCond(i, st)) = Writes(op, i)
  <2>1. i \in Words
    BY DEF Encoded
  <2>2. QED
    BY <1>3, <2>1, WritesCond
<1>6. QED
  BY <1>1, <1>2, <1>3, <1>4, <1>5

\* One try for a kind the library does not know.
LEMMA TryUnknown ==
  ASSUME IInv, gen_instr, op = NA
  PROVE  IInv'
<1>1. pc = "try" /\ tries > 0 /\ tries' = tries - 1
      /\ UNCHANGED <<blk, req, op, pyTries, cnt, retry, regs, twin>>
  BY DEF gen_instr
<1>2. word = NoWord
  BY <1>1, NoForm DEF IInv, Fits, Taken
<1>3. /\ status' = "UNSUPPORTED" /\ buf' = <<TheWord>> /\ word' = NoWord /\ pc' = "try" /\ isa' = isa
      /\ cond_val' = cond_val
  BY <1>2 DEF gen_instr, Drawn, Filled, gen_status, Lines, Remembered, WithCond, CondAfter
<1>4. blk.type # "pc"
  BY <1>1, PcFormsOk, NoForm DEF IInv, Twins, Running, Chosen, Taken, ByOpcode
<1>5. Types'
  <2>1. tries' \in 0 .. RETRY
    BY <1>1, RitLibAssumption DEF IInv, Types, TypeOK
  <2>2. buf' \in Seq(LineType) /\ Len(buf') \in Nat
    <3>1. TheWord \in LineType
      BY DEF TheWord, Line, LineType, LineOps
    <3>2. PICK line \in LineType : line = TheWord
      BY <3>1
    <3>3. QED
      BY <1>3, <3>2
  <2>3. TypeOK'
    BY <1>1, <1>3, <2>1, <2>2, NoWordType DEF IInv, Types, TypeOK, Status
  <2>4. QED
    BY <1>1, <2>2, <2>3 DEF IInv, Types
<1>6. Asked' /\ Chosen'
  BY <1>1, <1>3 DEF IInv, Asked, Chosen, Running, Taken
<1>7. Fits' /\ Twins'
  <2>1. Len(buf') = 1
    <3>1. PICK line : line = TheWord
      OBVIOUS
    <3>2. QED
      BY <1>3, <3>1
  <2>2. QED
    BY <1>1, <1>3, <1>4, <2>1 DEF IInv, Fits, Twins
<1>8. Decided' /\ Written'
  BY <1>1, <1>3 DEF IInv, Decided, Written
<1>9. QED
  BY <1>5, <1>6, <1>7, <1>8 DEF IInv

\* The effect of gen_instr with word i.
Tried(i) ==
  /\ status' = gen_status(op, i)
  /\ buf' = Lines(i, gen_status(op, i))
  /\ word' = Remembered(i, gen_status(op, i))
  /\ cond_val' = CondAfter(op, i, gen_status(op, i), cond_val)
  /\ isa' = IF op # NA /\ InstrSet(op) = THUMB THEN THUMB ELSE isa
  /\ pc' = IF gen_status(op, i) = "UNSUPPORTED" THEN "try" ELSE "parse"

\* One try for an opcode.
LEMMA TryOpcode ==
  ASSUME IInv, gen_instr, op \in Forms
  PROVE  IInv'
<1>1. pc = "try" /\ tries > 0 /\ tries' = tries - 1
      /\ UNCHANGED <<blk, req, op, pyTries, cnt, retry, regs, twin>>
  BY DEF gen_instr
<1>drawn. PICK w \in Drawn : \E i \in Filled(w) : Tried(i)
  BY DEF gen_instr, Tried
<1>filled. PICK i \in Filled(w) : Tried(i)
  BY <1>drawn
<1>2. /\ status' = gen_status(op, i)
      /\ buf' = Lines(i, gen_status(op, i))
      /\ word' = Remembered(i, gen_status(op, i))
      /\ cond_val' = CondAfter(op, i, gen_status(op, i), cond_val)
      /\ isa' = IF op # NA /\ InstrSet(op) = THUMB THEN THUMB ELSE isa
      /\ pc' = IF gen_status(op, i) = "UNSUPPORTED" THEN "try" ELSE "parse"
  BY <1>filled DEF Tried
<1> DEFINE st == gen_status(op, i)
           done == WithCond(i, st)
<1>3. /\ Encoded(op, i) /\ (isa = ARM /\ HasSbit(op) => i.S = req.sbit)
      /\ word # NoWord => w = word
  BY <1>1, FilledEncoded
<1>4. st \in Status /\ (st = "VALID" => 15 \notin Writes(op, i))
  BY <1>3, ValidKeepsPc DEF KeepsPc
<1>5. /\ cond_val' \in 0 .. 14 /\ (st = "UNSUPPORTED" => cond_val' = cond_val)
      /\ Encoded(op, done) /\ Writes(op, done) = Writes(op, i)
      /\ done = IF InstrSet(op) = ARM THEN [i EXCEPT !.c = cond_val'] ELSE i
  BY <1>1, <1>2, <1>3, CondWritten
<1>6. /\ isa \in {ARM, THUMB} /\ isa' = IF InstrSet(op) = THUMB THEN THUMB ELSE isa
      /\ InstrSet(op) \in {ARM, THUMB}
  BY <1>2, NoForm DEF IInv, Types, TypeOK, InstrSet
<1>7. InStep(op, isa)
  <2>1. CASE req.by = "op"
    BY <1>1, <2>1 DEF IInv, Asked, Chosen, Running, Taken, InStep
  <2>2. CASE req.by = "kind"
    BY <1>1, <2>2, NoForm DEF IInv, Chosen, Taken, InStep
  <2>3. QED
    BY <1>1, <2>1, <2>2 DEF IInv, Chosen, Taken
<1>8. buf' \in Seq(LineType) /\ Len(buf') \in 1 .. 8 /\ buf'[Len(buf')] = TheWord
  BY <1>2, <1>3, <1>6, <1>7, LinesFit
<1>9. word' = IF blk.type = "main" /\ st = "UNSUPPORTED" THEN NoWord ELSE done
  BY <1>2 DEF Remembered
<1>10. status' = st /\ pc' = IF st = "UNSUPPORTED" THEN "try" ELSE "parse"
  BY <1>2
<1> HIDE DEF st, done
<1>11. Types'
  <2>1. tries' \in 0 .. RETRY
    BY <1>1, RitLibAssumption DEF IInv, Types, TypeOK
  <2>2. word' \in Words
    BY <1>5, <1>9, NoWordType DEF Encoded
  <2>3. Len(buf') \in Nat
    BY <1>8
  <2>4. TypeOK'
    BY <1>1, <1>4, <1>5, <1>6, <1>10, <2>1, <2>2, <2>3 DEF IInv, Types, TypeOK
  <2>5. QED
    BY <1>1, <1>8, <2>4 DEF IInv, Types
<1>12. Asked'
  BY <1>1, <1>10 DEF IInv, Asked, Running
<1>13. Chosen'
  <2>1. \/ req.by = "op" /\ op = req.form
        \/ req.by = "kind" /\ isa = IsaOf(blk.isARM) /\ InstrSet(op) = isa /\ Kind(op) = req.kind
    BY <1>1, NoForm DEF IInv, Chosen, Taken
  <2>2. QED
    BY <1>1, <1>6, <2>1 DEF Chosen
<1>14. Fits'
  BY <1>1, <1>5, <1>9, <1>10 DEF IInv, Fits
<1>15. Decided'
  <2>1. pc' = "try" => cond_val' = req'.cond /\ status' = "UNSUPPORTED"
    BY <1>1, <1>5, <1>10 DEF IInv, Decided
  <2>2. op' # NA /\ pc' # "append"
    BY <1>1, <1>10, NoForm
  <2>3. ASSUME status' = "VALID"
        PROVE  /\ 15 \notin Writes(op', word')
               /\ req'.by = "kind" /\ blk'.isARM =>
                    /\ word'.c = IF Shifted(op') /\ word'.sh = RRX THEN 3 ELSE req'.cond
                    /\ HasSbit(op') => word'.S = req'.sbit
    <3>1. st = "VALID" /\ word' = done
      BY <1>9, <1>10, <2>3
    <3>2. 15 \notin Writes(op', word')
      BY <1>1, <1>4, <1>5, <3>1
    <3>3. ASSUME req.by = "kind", blk.isARM
          PROVE  /\ done.c = IF Shifted(op) /\ done.sh = RRX THEN 3 ELSE req.cond
                 /\ HasSbit(op) => done.S = req.sbit
      <4>1. InstrSet(op) = ARM /\ isa = ARM
        BY <1>1, <3>3, NoForm DEF IInv, Chosen, Taken, IsaOf
      <4>2. done = [i EXCEPT !.c = cond_val'] /\ i \in Words
        BY <1>3, <1>5, <4>1 DEF Encoded
      <4>3. done.c = cond_val' /\ done.sh = i.sh /\ done.S = i.S
        BY <4>2 DEF Words
      <4>4. Shifted(op) => OffsetReg(op)
        BY DEF Shifted, OffsetReg
      <4>5. Amount(i.sh) = RRX <=> i.sh = RRX
        BY <4>2 DEF Amount, RRX, Words
      <4>6. cond_val' = IF Shifted(op) /\ i.sh = RRX THEN 3 ELSE req.cond
        BY <1>1, <1>2, <3>1, <4>4, <4>5 DEF CondAfter, IInv, Decided, st
      <4>7. QED
        BY <1>3, <4>1, <4>3, <4>6
    <3>4. QED
      BY <1>1, <3>1, <3>2, <3>3
  <2>4. QED
    BY <2>1, <2>2, <2>3 DEF Decided
<1>16. Written'
  <2>1. Len(buf') <= 8 /\ Len(buf') >= 1
    <3>1. Len(buf') \in 1 .. 8
      BY <1>8
    <3>2. \A n \in 1 .. 8 : n <= 8 /\ n >= 1
      OBVIOUS
    <3>3. QED
      BY <3>1, <3>2, Zenon
  <2>2. pc' # "append"
    BY <1>10
  <2>3. QED
    BY <1>8, <2>1, <2>2 DEF Written
<1>17. Twins'
  <2>1. SUFFICES ASSUME blk.type = "pc" PROVE Twins'
    BY <1>1 DEF Twins
  <2>2. /\ blk.isARM /\ cnt \in 0 .. 1 /\ req.form \in PcForms /\ req.cond \in 0 .. 14
        /\ req = ByOpcode(req.form, req.cond, FALSE, IF cnt = 0 THEN "R_LR" ELSE "R_PC", TRUE)
        /\ cnt = 0 => twin = NoWord /\ word = NoWord /\ tries = RETRY
        /\ cnt = 1 => /\ twin # NoWord /\ Encoded(req.form, twin) /\ twin.t = 14 /\ twin.c = req.cond
                      /\ isa = ARM /\ HasSbit(req.form) => ~twin.S
                      /\ word = IF tries = RETRY THEN twin ELSE ForPc(twin)
    BY <1>1, <2>1 DEF IInv, Twins, Running
  <2>3. /\ req.by = "op" /\ req.src = "R_DEFAULT" /\ req.sbit = FALSE
        /\ req.dst = IF cnt = 0 THEN "R_LR" ELSE "R_PC"
    BY <2>2 DEF ByOpcode
  <2>4. op = req.form
    BY <1>1, <2>3 DEF IInv, Chosen, Taken
  <2>5. /\ InstrSet(op) = ARM /\ CondAfter(op, i, st, cond_val) = cond_val
        /\ st = IF i.t = 15 THEN "UNSUPPORTED" ELSE "VALID"
    BY <2>2, <2>4, PcFormsOk DEF st
  <2>6. isa' = isa /\ cond_val' = req.cond /\ done = [i EXCEPT !.c = req.cond] /\ word' = done
    <3>1. cond_val' = cond_val /\ cond_val = req.cond
      BY <1>1, <1>2, <2>5 DEF IInv, Decided, st
    <3>2. QED
      BY <1>5, <1>6, <1>9, <2>1, <2>5, <3>1 DEF ARM, THUMB
  <2>7. Encoded(op, w)
    <3>1. CASE word # NoWord
      BY <1>1, <1>3, <3>1 DEF IInv, Fits, Taken
    <3>2. CASE word = NoWord
      BY <3>2, NoForm, OperandsEncoded DEF Drawn
    <3>3. QED
      BY <3>1, <3>2
  <2>8. /\ Encoded(op, SetSbit(op, w)) /\ SetSbit(op, w).t = w.t
        /\ SetSbit(op, w) = IF isa = ARM /\ HasSbit(op) THEN [w EXCEPT !.S = FALSE] ELSE w
    BY <2>3, <2>7 DEF SetSbit, Encoded, Words
  <2>9. i = [SetSbit(op, w) EXCEPT !.t = IF cnt = 0 THEN 14 ELSE 15]
    <3>1. i \in preprocess_instr(op, SetSbit(op, w), "R_DEFAULT", req.dst)
      BY <2>3, NoForm DEF Filled
    <3>2. req.dst \in {"R_LR", "R_PC"}
      BY <2>3
    <3>3. QED
      BY <2>2, <2>3, <2>4, <2>8, <3>1, <3>2, PcPreprocess
  <2>10. /\ blk'.isARM /\ cnt' = cnt /\ cnt' \in 0 .. 1
         /\ req'.form \in PcForms /\ req'.cond \in 0 .. 14 /\ req' = req /\ isa' = isa /\ twin' = twin
         /\ req' = ByOpcode(req'.form, req'.cond, FALSE, IF cnt' = 0 THEN "R_LR" ELSE "R_PC", TRUE)
         /\ cnt' = 0 => twin' = NoWord
         /\ cnt' = 1 => /\ twin' # NoWord /\ Encoded(req'.form, twin') /\ twin'.t = 14
                        /\ twin'.c = req'.cond /\ (isa' = ARM /\ HasSbit(req'.form) => ~twin'.S)
         /\ op = req.form
    <3>1. req' = req /\ twin' = twin /\ isa' = isa /\ cnt' = cnt /\ blk' = blk
      BY <1>1, <2>6
    <3>2. QED
      BY <2>2, <2>4, <3>1
  <2>11. CASE cnt = 0
    <3>1. i \in Words /\ i.t = 14 /\ (isa = ARM /\ HasSbit(op) => ~i.S)
      BY <1>3, <2>3, <2>8, <2>9, <2>11 DEF Encoded, Words
    <3>2. word'.t = 14 /\ word'.c = req.cond /\ (isa = ARM /\ HasSbit(op) => ~word'.S)
      BY <2>6, <3>1 DEF Words
    <3>3. word' # NoWord
      BY <3>2 DEF NoWord
    <3>4. pc' = "parse" /\ status' = "VALID"
      BY <1>10, <2>5, <3>1
    <3>5. cnt' = 0 /\ cnt' \in 0 .. 2 /\ cnt' # 1
      BY <2>10, <2>11
    <3>6. QED
      BY <2>10, <3>2, <3>3, <3>4, <3>5 DEF Twins
  <2>12. CASE cnt = 1
    <3>1. w \in {twin, ForPc(twin)} /\ twin \in Words
      <4>1. ForPc(twin) # NoWord
        BY <2>2, <2>12 DEF ForPc, NoWord, Encoded, Words
      <4>2. QED
        BY <1>3, <2>2, <2>12, <4>1 DEF Encoded
    <3>2. SetSbit(op, w) = w
      BY <2>2, <2>4, <2>8, <2>12, <3>1 DEF ForPc, Words
    <3>3. i = ForPc(twin) /\ i.t = 15
      BY <2>9, <2>12, <3>1, <3>2 DEF ForPc, Words
    <3>4. word' = ForPc(twin)
      BY <2>2, <2>6, <2>12, <3>1, <3>3 DEF ForPc, Words
    <3>5. pc' = "try" /\ status' = "UNSUPPORTED"
      BY <1>10, <2>5, <3>3
    <3>6. tries' # RETRY
      BY <1>1, RitLibAssumption DEF IInv, Types, TypeOK
    <3>7. cnt' = 1 /\ cnt' \in 0 .. 2 /\ cnt' # 0
      BY <2>10, <2>12
    <3>8. QED
      BY <2>10, <3>4, <3>5, <3>6, <3>7 DEF Twins
  <2>13. QED
    BY <2>2, <2>11, <2>12
<1>18. QED
  BY <1>11, <1>12, <1>13, <1>14, <1>15, <1>16, <1>17 DEF IInv

\* Every step keeps the invariant.
LEMMA NextInd == IInv /\ [Next]_vars => IInv'
<1>1. SUFFICES ASSUME IInv, [Next]_vars PROVE IInv'
  OBVIOUS
<1>2. CASE Block
  BY <1>1, <1>2, BlockInd
<1>3. CASE AskMem \/ AskAny \/ AskMulShift \/ AskMain
  BY <1>1, <1>3, AsksInd
<1>4. CASE AskLr \/ AskPc
  BY <1>1, <1>4, AskPcInd
<1>5. CASE py_gen_instr
  BY <1>1, <1>5, ByKindInd
<1>6. CASE py_gen_instr_with_op
  BY <1>1, <1>6, ByOpcodeInd
<1>7. CASE gen_instr
  <2>1. op \in Forms \cup {NA}
    BY <1>1 DEF IInv, Types, TypeOK
  <2>2. QED
    BY <1>1, <1>7, <2>1, TryUnknown, TryOpcode
<1>8. CASE output_instr
  BY <1>1, <1>8, OutputInd
<1>9. CASE Accept
  BY <1>1, <1>9, AcceptInd
<1>10. CASE Again
  BY <1>1, <1>10, AgainInd
<1>11. CASE Deliver
  BY <1>1, <1>11, DeliverInd
<1>12. CASE Fail
  BY <1>1, <1>12, FailInd
<1>13. CASE EndBlock
  BY <1>1, <1>13, EndInd
<1>14. CASE UNCHANGED vars
  <2>1. /\ isa' = isa /\ cond_val' = cond_val /\ blk' = blk /\ req' = req /\ op' = op
        /\ word' = word /\ status' = status /\ buf' = buf /\ tries' = tries
        /\ pyTries' = pyTries /\ cnt' = cnt /\ retry' = retry /\ regs' = regs
        /\ twin' = twin /\ pc' = pc
    BY <1>14 DEF vars
  <2>2. Types' /\ Asked' /\ Chosen'
    BY <1>1, <2>1 DEF IInv, Types, TypeOK, Asked, Chosen, Running, Taken
  <2>3. Fits' /\ Written'
    BY <1>1, <2>1 DEF IInv, Fits, Written, Taken
  <2>4. Decided'
    BY <1>1, <2>1 DEF IInv, Decided, Usable
  <2>5. Twins'
    BY <1>1, <2>1 DEF IInv, Twins, Running
  <2>6. QED
    BY <2>2, <2>3, <2>4, <2>5 DEF IInv
<1>15. QED
  BY <1>1, <1>2, <1>3, <1>4, <1>5, <1>6, <1>7, <1>8, <1>9, <1>10, <1>11, <1>12, <1>13, <1>14
  DEF Next, Step

\* The invariant holds in every state of the generator.
LEMMA Inductive == Spec => []IInv
<1>1. QED
  BY InitInd, NextInd, PTL DEF Spec

-----------------------------------------------------------------------------
(* What follows.                                                            *)

\* The types of the options, of the library's and the generators' state.
THEOREM LibTypes == Spec => []TypeOK
<1>1. IInv => TypeOK
  BY DEF IInv, Types
<1>2. QED
  BY <1>1, Inductive, PTL

\* instr_buf is large enough for every opcode, base, offset and number of
\* tries.
THEOREM LinesFitBuffer == Spec => []BufferFits
<1>1. IInv => BufferFits
  BY RitLibAssumption DEF IInv, Types, TypeOK, Written, BufferFits
<1>2. QED
  BY <1>1, Inductive, PTL

\* No instruction that is written to a seed writes pc, but the second word
\* of genALUwritePC, which does not set flags.
THEOREM PcNotWritten == Spec => []NoPcWrite
<1>1. IInv => NoPcWrite
  <2>1. SUFFICES ASSUME IInv, pc = "append", 15 \in Writes(op, Emitted)
                 PROVE  blk.type = "pc" /\ cnt = 1 /\ ~Emitted.S
    BY DEF NoPcWrite
  <2>2. Usable /\ word \in Words
    BY <2>1 DEF IInv, Decided, Types, TypeOK
  <2>3. CASE blk.type # "pc"
    <3>1. Emitted = word
      BY <2>3 DEF Emitted
    <3>2. ~req.invalid
      BY <2>1, <2>3 DEF IInv, Asked, Running
    <3>3. status = "VALID"
      BY <2>2, <3>2 DEF Usable
    <3>4. QED
      BY <2>1, <3>1, <3>3 DEF IInv, Decided
  <2>4. CASE blk.type = "pc"
    <3>1. /\ Emitted = [word EXCEPT !.S = FALSE] /\ Emitted.t = word.t /\ ~Emitted.S
      BY <2>2, <2>4 DEF Emitted, SbitMsk, Words
    <3>2. req.form \in PcForms /\ req.by = "op"
      BY <2>1, <2>4 DEF IInv, Twins, Running, ByOpcode
    <3>3. op = req.form
      BY <2>1, <3>2 DEF IInv, Chosen, Taken
    <3>4. word.t = 15
      <4>1. Writes(op, Emitted) = {Emitted.t}
        BY <3>2, <3>3, PcFormsOk
      <4>2. QED
        BY <2>1, <3>1, <4>1
    <3>5. cnt \in 0 .. 1 /\ (cnt = 0 => word.t = 14)
      BY <2>1, <2>4 DEF IInv, Twins, Running
    <3>6. cnt = 1
      BY <3>4, <3>5
    <3>7. QED
      BY <2>4, <3>1, <3>6
  <2>5. QED
    BY <2>3, <2>4
<1>2. QED
  BY <1>1, Inductive, PTL

\* An instruction asked for by kind is of the kind, the instruction set, the
\* condition and the S bit asked for, whatever the calls before left in the
\* options of the library.
THEOREM InstrAsAsked == Spec => []AsAsked
<1>1. IInv => AsAsked
  <2>1. SUFFICES ASSUME IInv, pc = "append", req.by = "kind"
                 PROVE  /\ InstrSet(op) = IsaOf(blk.isARM) /\ Kind(op) = req.kind
                        /\ blk.isARM => word.c = IF Shifted(op) /\ word.sh = RRX THEN 3 ELSE req.cond
                        /\ blk.isARM /\ HasSbit(op) => word.S = req.sbit
    BY DEF AsAsked
  <2>2. Usable /\ ~req.invalid
    BY <2>1 DEF IInv, Decided, Asked, Running
  <2>3. status = "VALID" /\ op \in Forms
    BY <2>1, <2>2, UsableOp DEF Usable
  <2>4. InstrSet(op) = IsaOf(blk.isARM) /\ Kind(op) = req.kind
    BY <2>1, <2>3, NoForm DEF IInv, Chosen, Taken
  <2>5. QED
    BY <2>1, <2>3, <2>4 DEF IInv, Decided
<1>2. QED
  BY <1>1, Inductive, PTL

\* The word genALUwritePC writes for pc is the one whose result it checked
\* in lr.
THEOREM TwinsAgree == Spec => []TwinsAlike
<1>1. IInv => TwinsAlike
  <2>1. SUFFICES ASSUME IInv PROVE TwinsAlike
    OBVIOUS
  <2>2. pc = "append" /\ blk.type = "pc" /\ cnt = 1 => twin.t = 14 /\ word = [twin EXCEPT !.t = 15]
    BY <2>1 DEF IInv, Twins, ForPc
  <2>3. QED
    BY <2>1, <2>2, PcUsable DEF TwinsAlike
<1>2. QED
  BY <1>1, Inductive, PTL

\* The larger a count, the less is left to a bound.
LEMMA CountsDown == \A l, a, b, c \in Int : b < c => a - c < a - b /\ l + (a - c) < l + (a - b)
  OBVIOUS

\* Every step inside a block leaves less to do.
LEMMA StepDwindles ==
  ASSUME IInv, [Next]_vars, pc # "idle", pc' # "idle", vars' # vars
  PROVE  Fewer(Left', Left)
<1>1. /\ cnt \in Nat /\ retry \in Nat /\ pyTries \in 0 .. MAXRETRY /\ tries \in Nat /\ MAXRETRY \in Nat \ {0}
      /\ LIMIT \in Nat /\ MAX_INSTR \in Nat
  BY RitLibAssumption DEF IInv, Types, TypeOK
<1> DEFINE L == LIMIT + MAX_INSTR - cnt
           E == MAXRETRY - retry
           C == IF pc = "ask" THEN MAXRETRY + 1 ELSE pyTries
           P == CASE pc = "call" -> 3 [] pc = "try" -> 2 [] pc = "parse" -> 1 [] OTHER -> 0
<1>2. Left = <<L, E, C, P, tries>> /\ Left' = <<L', E', C', P', tries'>>
  BY DEF Left
<1>3. ~Block /\ ~EndBlock
  BY DEF Block, genMemInstrs, genInstrs, genMulShiftInstrs, genALUwritePC, main, Begin, EndBlock
<1>4. CASE \E r : pc = "ask" /\ Ask(r)
  <2>1. cnt' = cnt /\ retry' = retry /\ pc = "ask" /\ pc' = "call" /\ pyTries' <= MAXRETRY /\ pyTries' \in Nat
    BY <1>1, <1>4 DEF Ask
  <2>2. L' = L /\ E' = E /\ C' < C
    BY <1>1, <2>1
  <2> HIDE DEF L, E, C, P
  <2>3. QED
    BY <1>2, <2>2 DEF Fewer
<1>5. CASE py_gen_instr \/ py_gen_instr_with_op
  <2>1. L' = L /\ E' = E /\ C' = C /\ P' < P
    BY <1>1, <1>5 DEF py_gen_instr, py_gen_instr_with_op
  <2> HIDE DEF L, E, C, P
  <2>2. QED
    BY <1>2, <2>1 DEF Fewer
<1>6. CASE gen_instr
  <2>1. /\ L' = L /\ E' = E /\ C' = C /\ pc = "try" /\ pc' \in {"try", "parse"} /\ tries' < tries
    BY <1>1, <1>6 DEF gen_instr
  <2>2. P' < P \/ P' = P
    BY <2>1
  <2> HIDE DEF L, E, C, P
  <2>3. QED
    BY <1>2, <2>1, <2>2 DEF Fewer
<1>7. CASE output_instr
  <2>1. L' = L /\ E' = E /\ C' = C /\ P' < P
    BY <1>1, <1>7 DEF output_instr
  <2> HIDE DEF L, E, C, P
  <2>2. QED
    BY <1>2, <2>1 DEF Fewer
<1>8. CASE Accept
  <2>1. L' = L /\ E' = E /\ C' = C /\ P' < P
    BY <1>1, <1>8 DEF Accept
  <2> HIDE DEF L, E, C, P
  <2>2. QED
    BY <1>2, <2>1 DEF Fewer
<1>9. CASE Again
  <2>1. L' = L /\ E' = E /\ C' < C
    BY <1>1, <1>9 DEF Again
  <2> HIDE DEF L, E, C, P
  <2>2. QED
    BY <1>2, <2>1 DEF Fewer
<1>10. CASE Deliver
  <2>1. cnt' \in Nat /\ cnt' > cnt
    <3>1. Len(buf) >= 1 /\ Len(buf) \in Nat
      BY <1>10 DEF Deliver, IInv, Written, Types, TypeOK
    <3>2. CASE blk.type \in {"mem", "any"}
      BY <1>1, <1>10, <3>1, <3>2 DEF Deliver, Reinit
    <3>3. CASE blk.type \notin {"mem", "any"}
      BY <1>1, <1>10, <3>3 DEF Deliver, Reinit
    <3>4. QED
      BY <3>2, <3>3
  <2>2. L' < L
    <3>1. LIMIT + MAX_INSTR - cnt' < LIMIT + MAX_INSTR - cnt
      <4>1. cnt \in Int /\ cnt' \in Int /\ LIMIT \in Int /\ MAX_INSTR \in Int /\ cnt < cnt'
        BY <1>1, <2>1
      <4>2. QED
        BY <4>1, CountsDown
    <3>2. QED
      BY <3>1
  <2> HIDE DEF L, E, C, P
  <2>3. QED
    BY <1>2, <2>2 DEF Fewer
<1>11. CASE Fail
  <2>1. cnt' \in Nat /\ retry' \in Nat /\ (cnt' > cnt \/ (cnt' = cnt /\ retry' > retry))
    BY <1>1, <1>11 DEF Fail, Reinit
  <2>2. L' < L \/ (L' = L /\ E' < E)
    <3>1. CASE cnt' > cnt
      <4>1. LIMIT + MAX_INSTR - cnt' < LIMIT + MAX_INSTR - cnt
        <5>1. cnt \in Int /\ cnt' \in Int /\ LIMIT \in Int /\ MAX_INSTR \in Int /\ cnt < cnt'
          BY <1>1, <2>1, <3>1
        <5>2. QED
          BY <5>1, CountsDown
      <4>2. QED
        BY <4>1
    <3>2. CASE cnt' = cnt /\ retry' > retry
      <4>1. MAXRETRY - retry' < MAXRETRY - retry
        <5>1. retry \in Int /\ retry' \in Int /\ MAXRETRY \in Int /\ retry < retry'
          BY <1>1, <2>1, <3>2
        <5>2. QED
          BY <5>1, CountsDown
      <4>2. QED
        BY <3>2, <4>1
    <3>3. QED
      BY <2>1, <3>1, <3>2
  <2> HIDE DEF L, E, C, P
  <2>3. QED
    BY <1>2, <2>2 DEF Fewer
<1>12. AskMem \/ AskAny \/ AskMulShift \/ AskLr \/ AskPc \/ AskMain => \E r : pc = "ask" /\ Ask(r)
  BY DEF AskMem, AskAny, AskMulShift, AskLr, AskPc, AskMain
<1>13. QED
  BY <1>3, <1>4, <1>5, <1>6, <1>7, <1>8, <1>9, <1>10, <1>11, <1>12 DEF Next, Step

\* Every block comes to an end, also when it asks for an instruction that
\* can never be generated.
THEOREM BlocksEnd == Spec => Dwindles
<1>1. IInv /\ [Next]_vars => [pc # "idle" /\ pc' # "idle" => Fewer(Left', Left)]_vars
  BY StepDwindles
<1>2. QED
  BY <1>1, Inductive, PTL DEF Spec, Dwindles

-----------------------------------------------------------------------------
(* The effect of a sequence of lines.                                       *)

\* A set of numbers has a least one.
LEMMA Least ==
  ASSUME NEW S, S \subseteq Nat, S # {}
  PROVE  \E m \in S : \A k \in S : m <= k
<1>1. PICK m \in S : \A k \in S : ~(<<k, m>> \in OpToRel(<, Nat))
  BY WFMin, NatLessThanWellFounded, Zenon
<1>2. \A k \in S : ~(k < m)
  BY <1>1, Zenon DEF OpToRel
<1>3. \A k \in S : k \in Nat /\ m \in Nat
  OBVIOUS
<1> QED BY <1>2, <1>3

\* The run of the lines ls to line n: the function After is defined with.
Trace(g, R, ls, n, f, i) ==
  g = [k \in 0 .. n |-> IF k = 0 THEN R ELSE Executed(g[k - 1], ls[k], f, i)]

\* There is one for every number of lines ...
LEMMA TraceExists ==
  ASSUME NEW R, NEW ls, NEW f, NEW i, NEW n \in Nat
  PROVE  \E g : Trace(g, R, ls, n, f, i)
<1> DEFINE Bad == {m \in Nat : ~\E g : Trace(g, R, ls, m, f, i)}
<1>1. SUFFICES ASSUME Bad # {} PROVE FALSE
  OBVIOUS
<1>2. PICK m \in Bad : \A k \in Bad : m <= k
  BY <1>1, Least
<1>3. m \in Nat /\ ~\E g : Trace(g, R, ls, m, f, i)
  BY <1>2
<1>4. CASE m = 0
  <2>1. Trace([k \in 0 .. 0 |-> R], R, ls, 0, f, i)
    BY DEF Trace
  <2>2. QED
    BY <1>3, <1>4, <2>1
<1>5. CASE m # 0
  <2>1. m - 1 \in Nat /\ ~(m <= m - 1)
    BY <1>3, <1>5
  <2>2. PICK g : Trace(g, R, ls, m - 1, f, i)
    BY <1>2, <2>1
  <2> DEFINE h == [k \in 0 .. m |-> IF k = m THEN Executed(g[m - 1], ls[m], f, i) ELSE g[k]]
  <2>3. Trace(h, R, ls, m, f, i)
    <3>1. SUFFICES ASSUME NEW k \in 0 .. m
                   PROVE  h[k] = IF k = 0 THEN R ELSE Executed(h[k - 1], ls[k], f, i)
      BY DEF Trace
    <3>2. CASE k = m
      BY <1>3, <1>5, <3>2
    <3>3. CASE k # m
      <4>1. k \in 0 .. m - 1 /\ (k # 0 => k - 1 \in 0 .. m /\ k - 1 # m)
        BY <1>3, <3>3
      <4>2. g[k] = IF k = 0 THEN R ELSE Executed(g[k - 1], ls[k], f, i)
        BY <2>2, <4>1 DEF Trace
      <4>3. QED
        BY <3>3, <4>1, <4>2
    <3>4. QED
      BY <3>2, <3>3
  <2>4. QED
    BY <1>3, <2>3
<1>6. QED
  BY <1>4, <1>5

\* ... and two of them agree, as far as the lines do.
LEMMA TraceUnique ==
  ASSUME NEW R, NEW ls, NEW ms, NEW f, NEW i, NEW n \in Nat, NEW p \in Nat, n <= p,
         \A k \in 1 .. n : ls[k] = ms[k],
         NEW g, Trace(g, R, ls, n, f, i), NEW h, Trace(h, R, ms, p, f, i)
  PROVE  \A k \in 0 .. n : g[k] = h[k]
<1> DEFINE Bad == {k \in 0 .. n : g[k] # h[k]}
<1>1. SUFFICES ASSUME Bad # {} PROVE FALSE
  OBVIOUS
<1>2. PICK m \in Bad : \A k \in Bad : m <= k
  <2>1. Bad \subseteq Nat
    OBVIOUS
  <2>2. QED
    BY <1>1, <2>1, Least
<1>3. m \in 0 .. n /\ m \in 0 .. p
  BY <1>2
<1>4. /\ g[m] = IF m = 0 THEN R ELSE Executed(g[m - 1], ls[m], f, i)
      /\ h[m] = IF m = 0 THEN R ELSE Executed(h[m - 1], ms[m], f, i)
  BY <1>3 DEF Trace
<1>5. m # 0
  BY <1>2, <1>4
<1>6. m - 1 \in 0 .. n /\ ~(m <= m - 1) /\ m \in 1 .. n
  BY <1>3, <1>5
<1>7. g[m - 1] = h[m - 1]
  BY <1>2, <1>6
<1>8. QED
  BY <1>2, <1>4, <1>5, <1>6, <1>7

\* After is the end of such a run.
LEMMA AfterTrace ==
  ASSUME NEW R, NEW ls, NEW f, NEW i, NEW n \in Nat
  PROVE  \E g : Trace(g, R, ls, n, f, i) /\ After(R, ls, n, f, i) = g[n]
<1> DEFINE g == CHOOSE g : Trace(g, R, ls, n, f, i)
<1>1. Trace(g, R, ls, n, f, i)
  BY TraceExists
<1>2. After(R, ls, n, f, i) = g[n]
  BY DEF After, Trace
<1>3. QED
  BY <1>1, <1>2

\* Before any line the registers are as they were.
LEMMA AfterNone ==
  ASSUME NEW R, NEW ls, NEW f, NEW i
  PROVE  After(R, ls, 0, f, i) = R
<1>1. PICK g : Trace(g, R, ls, 0, f, i) /\ After(R, ls, 0, f, i) = g[0]
  BY AfterTrace
<1>2. QED
  BY <1>1 DEF Trace

\* The last line of a run is executed on what the lines before it left.
LEMMA TraceNext ==
  ASSUME NEW R, NEW ls, NEW f, NEW i, NEW p \in Nat \ {0}, NEW g, Trace(g, R, ls, p, f, i)
  PROVE  g[p] = Executed(g[p - 1], ls[p], f, i)
<1>1. p \in 0 .. p /\ p # 0
  OBVIOUS
<1>2. QED
  BY <1>1 DEF Trace

\* Lines that agree up to n leave the same registers, and line n + 1 is
\* executed on those.
LEMMA AfterAgrees ==
  ASSUME NEW R, NEW ls, NEW ms, NEW f, NEW i, NEW n \in Nat,
         \A k \in 1 .. n : ls[k] = ms[k]
  PROVE  /\ After(R, ms, n, f, i) = After(R, ls, n, f, i)
         /\ After(R, ms, n + 1, f, i) = Executed(After(R, ls, n, f, i), ms[n + 1], f, i)
<1> DEFINE p == n + 1
<1>1. p \in Nat \ {0} /\ p - 1 = n /\ n <= p /\ n \in 0 .. n /\ n <= n
  OBVIOUS
<1> HIDE DEF p
<1>2. PICK g : Trace(g, R, ls, n, f, i) /\ After(R, ls, n, f, i) = g[n]
  BY AfterTrace
<1>3. PICK h : Trace(h, R, ms, p, f, i) /\ After(R, ms, p, f, i) = h[p]
  BY <1>1, AfterTrace
<1>4. PICK e : Trace(e, R, ms, n, f, i) /\ After(R, ms, n, f, i) = e[n]
  BY AfterTrace
<1>5. g[n] = h[n]
  BY <1>1, <1>2, <1>3, TraceUnique
<1>6. g[n] = e[n]
  BY <1>1, <1>2, <1>4, TraceUnique
<1>7. h[p] = Executed(h[n], ms[p], f, i)
  BY <1>1, <1>3, TraceNext
<1>8. QED
  BY <1>2, <1>3, <1>4, <1>5, <1>6, <1>7 DEF p

\* One line more: the lines before it run as they did, then the new one.
LEMMA AfterAppend ==
  ASSUME NEW R, NEW f, NEW i, NEW S, NEW ls \in Seq(S), NEW l \in S
  PROVE  /\ Len(ls) \in Nat /\ ls \o <<l>> \in Seq(S) /\ Len(ls \o <<l>>) = Len(ls) + 1
         /\ After(R, ls \o <<l>>, Len(ls), f, i) = After(R, ls, Len(ls), f, i)
         /\ After(R, ls \o <<l>>, Len(ls) + 1, f, i) = Executed(After(R, ls, Len(ls), f, i), l, f, i)
<1> DEFINE c == Len(ls)
           longer == ls \o <<l>>
<1>1. /\ c \in Nat /\ longer \in Seq(S) /\ Len(longer) = c + 1 /\ longer[c + 1] = l
      /\ \A k \in 1 .. c : ls[k] = longer[k]
  OBVIOUS
<1> HIDE DEF c, longer
<1>2. /\ After(R, longer, c, f, i) = After(R, ls, c, f, i)
      /\ After(R, longer, c + 1, f, i) = Executed(After(R, ls, c, f, i), longer[c + 1], f, i)
  <2>1. c \in Nat /\ \A k \in 1 .. c : ls[k] = longer[k]
    BY <1>1
  <2>2. QED
    BY <2>1, AfterAgrees
<1>3. /\ After(R, longer, c, f, i) = After(R, ls, c, f, i)
      /\ After(R, longer, c + 1, f, i) = Executed(After(R, ls, c, f, i), l, f, i)
  BY <1>1, <1>2
<1>4. QED
  BY <1>1, <1>3, Zenon DEF c, longer

-----------------------------------------------------------------------------
(* The lines parseRIT keeps.                                                *)

\* With allow_fix parseRIT keeps all lines.
LEMMA KeptAll ==
  ASSUME req.allow_fix, NEW ls \in Seq(LineType)
  PROVE  Kept(ls) = ls
<1> DEFINE c == Len(ls)
           keep == {k \in 1 .. Len(ls) : ls[k].tag = "INST" \/ req.allow_fix}
<1>1. c \in Nat /\ keep = 1 .. c /\ ls = [k \in 1 .. c |-> ls[k]]
  OBVIOUS
<1>2. Cardinality(1 .. c) = c
  BY <1>1, FS_Interval
<1>3. ASSUME NEW j \in 1 .. c
      PROVE  (CHOOSE k \in 1 .. c : Cardinality({e \in 1 .. c : e <= k}) = j) = j
  <2>1. ASSUME NEW k \in 1 .. c
        PROVE  Cardinality({e \in 1 .. c : e <= k}) = k
    <3>1. {e \in 1 .. c : e <= k} = 1 .. k /\ k \in Nat
      BY <1>1
    <3>2. Cardinality(1 .. k) = k
      BY <3>1, FS_Interval
    <3>3. QED
      BY <3>1, <3>2
  <2> HIDE DEF c
  <2>2. QED
    BY <2>1
<1>4. Kept(ls) = [j \in 1 .. c |-> ls[CHOOSE k \in 1 .. c : Cardinality({e \in 1 .. c : e <= k}) = j]]
  <2>1. Kept(ls) = [j \in 1 .. Cardinality(keep) |->
                     ls[CHOOSE k \in keep : Cardinality({e \in keep : e <= k}) = j]]
    BY DEF Kept
  <2>2. keep = 1 .. c /\ Cardinality(keep) = c
    <3> HIDE DEF keep, c
    <3>1. QED
      BY <1>1, <1>2
  <2> HIDE DEF keep, c
  <2>3. QED
    BY <2>1, <2>2
<1> HIDE DEF c
<1>5. QED
  BY <1>1, <1>3, <1>4

\* The lines parseRIT keeps.
KeepSet(ls) == {k \in 1 .. Len(ls) : ls[k].tag = "INST" \/ req.allow_fix}

\* The place of line k among the lines S.
Rank(S, k) == Cardinality({e \in S : e <= k})

\* Each place is taken.
Ranked(ls) ==
  \A j \in 1 .. Cardinality(KeepSet(ls)) : \E k \in KeepSet(ls) : Rank(KeepSet(ls), k) = j

\* Kept in these terms.
LEMMA KeptRank ==
  ASSUME NEW ls
  PROVE  Kept(ls) = [j \in 1 .. Cardinality(KeepSet(ls)) |->
                       ls[CHOOSE k \in KeepSet(ls) : Rank(KeepSet(ls), k) = j]]
BY DEF Kept, KeepSet, Rank

\* parseRIT drops a CODE line at the end when the code that fixes a base is
\* not wanted ...
LEMMA KeptDropped ==
  ASSUME NEW ls \in Seq(LineType), NEW l \in LineType, Ranked(ls), ~req.allow_fix, l.tag = "CODE"
  PROVE  Ranked(ls \o <<l>>) /\ Kept(ls \o <<l>>) = Kept(ls)
<1> DEFINE longer == ls \o <<l>>
           K == KeepSet(ls)
<1>1. /\ Len(ls) \in Nat /\ longer \in Seq(LineType) /\ Len(longer) = Len(ls) + 1 /\ longer[Len(ls) + 1] = l
      /\ \A k \in 1 .. Len(ls) : longer[k] = ls[k]
  OBVIOUS
<1> HIDE DEF longer
<1>2. KeepSet(longer) = K
  BY <1>1 DEF KeepSet
<1>3. Ranked(longer)
  BY <1>2 DEF Ranked
<1>4. \A k \in K : longer[k] = ls[k]
  BY <1>1 DEF KeepSet
<1>5. Kept(longer) = [j \in 1 .. Cardinality(K) |-> longer[CHOOSE k \in K : Rank(K, k) = j]]
  BY <1>2, KeptRank
<1>6. Kept(ls) = [j \in 1 .. Cardinality(K) |-> ls[CHOOSE k \in K : Rank(K, k) = j]]
  BY KeptRank
<1>7. \A j \in 1 .. Cardinality(K) : \E k \in K : Rank(K, k) = j
  BY DEF Ranked
<1> HIDE DEF K
<1>8. \A j \in 1 .. Cardinality(K) : (CHOOSE k \in K : Rank(K, k) = j) \in K
  BY <1>7, Zenon
<1>9. Kept(longer) = Kept(ls)
  BY <1>4, <1>5, <1>6, <1>8
<1>10. QED
  BY <1>3, <1>9 DEF longer

\* ... and keeps an INST line at the end.
LEMMA KeptLine ==
  ASSUME NEW ls \in Seq(LineType), NEW l \in LineType, Ranked(ls), Kept(ls) \in Seq(LineType), l.tag = "INST"
  PROVE  /\ Ranked(ls \o <<l>>) /\ Kept(ls \o <<l>>) = Kept(ls) \o <<l>>
         /\ Kept(ls \o <<l>>) \in Seq(LineType)
<1> DEFINE longer == ls \o <<l>>
           c == Len(ls)
           K == KeepSet(ls)
           N == K \cup {c + 1}
           q == Cardinality(K)
           Place(S, j) == CHOOSE k \in S : Rank(S, k) = j
<1>1. /\ c \in Nat /\ longer \in Seq(LineType) /\ Len(longer) = c + 1 /\ longer[c + 1] = l
      /\ \A k \in 1 .. c : longer[k] = ls[k]
  OBVIOUS
<1>2. K \subseteq 1 .. c /\ c + 1 \notin K
  BY <1>1 DEF KeepSet
<1>3. KeepSet(longer) = N
  <2> HIDE DEF longer
  <2>1. QED
    BY <1>1 DEF KeepSet
<1>4. IsFiniteSet(K) /\ q \in Nat /\ Cardinality(N) = q + 1
  <2>1. IsFiniteSet(1 .. c)
    BY <1>1, FS_Interval
  <2>2. IsFiniteSet(K)
    BY <1>2, <2>1, FS_Subset
  <2> HIDE DEF K
  <2>3. QED
    BY <1>2, <2>2, FS_CardinalityType, FS_AddElement
<1>5. Kept(ls) = [j \in 1 .. q |-> ls[Place(K, j)]]
  BY KeptRank
<1>6. Kept(longer) = [j \in 1 .. q + 1 |-> longer[Place(N, j)]]
  <2>1. Kept(longer) = [j \in 1 .. Cardinality(N) |-> longer[Place(N, j)]]
    <3> HIDE DEF longer, N
    <3>1. QED
      BY <1>3, KeptRank
  <2>2. QED
    BY <1>4, <2>1
<1>7. \A j \in 1 .. q : \E k \in K : Rank(K, k) = j
  BY DEF Ranked
<1>8. \A k \in K : Rank(N, k) = Rank(K, k) /\ Rank(N, k) \in Nat /\ Rank(N, k) <= q
  <2>1. SUFFICES ASSUME NEW k \in K
                 PROVE  Rank(N, k) = Rank(K, k) /\ Rank(N, k) \in Nat /\ Rank(N, k) <= q
    OBVIOUS
  <2>2. {e \in N : e <= k} = {e \in K : e <= k}
    BY <1>1, <1>2
  <2>3. {e \in K : e <= k} \subseteq K
    OBVIOUS
  <2> HIDE DEF K, N
  <2>4. Cardinality({e \in K : e <= k}) \in Nat /\ Cardinality({e \in K : e <= k}) <= q
    BY <1>4, <2>3, FS_Subset, FS_CardinalityType
  <2>5. QED
    BY <2>2, <2>4 DEF Rank
<1>9. Rank(N, c + 1) = q + 1
  <2>1. {e \in N : e <= c + 1} = N
    BY <1>1, <1>2
  <2>2. QED
    BY <1>4, <2>1 DEF Rank
<1> HIDE DEF K, c, q, longer
<1>10. \A k : k \in N <=> k \in K \/ k = c + 1
  OBVIOUS
<1> HIDE DEF N
<1>11. ASSUME NEW j \in 1 .. q
       PROVE  Place(K, j) \in K /\ Place(N, j) = Place(K, j)
  <2>1. j # q + 1 /\ j <= q
    BY <1>4
  <2>2. \A k : k \in N /\ Rank(N, k) = j <=> k \in K /\ Rank(K, k) = j
    BY <1>8, <1>9, <1>10, <2>1
  <2>3. (CHOOSE k : k \in N /\ Rank(N, k) = j) = (CHOOSE k : k \in K /\ Rank(K, k) = j)
    BY <2>2
  <2>4. QED
    BY <1>7, <2>3
<1>12. Place(N, q + 1) = c + 1
  <2>1. \A k \in N : Rank(N, k) = q + 1 => k = c + 1
    BY <1>4, <1>8, <1>10
  <2>2. QED
    BY <1>9, <1>10, <2>1
<1>13. Ranked(longer)
  <2>1. ASSUME NEW j \in 1 .. q + 1
        PROVE  \E k \in N : Rank(N, k) = j
    <3>1. CASE j = q + 1
      BY <1>9, <1>10, <3>1
    <3>2. CASE j # q + 1
      <4>1. j \in 1 .. q
        BY <1>4, <3>2
      <4>2. QED
        BY <1>7, <1>8, <1>10, <4>1
    <3>3. QED
      BY <3>1, <3>2
  <2>2. QED
    BY <1>3, <1>4, <2>1 DEF Ranked
<1> HIDE DEF Place
<1>14. \A k \in K : longer[k] = ls[k]
  BY <1>1, <1>2 DEF c
<1>15. Len(Kept(ls)) = q /\ \A j \in 1 .. q : Kept(ls)[j] = ls[Place(K, j)]
  BY <1>4, <1>5
<1>16. Kept(longer) = Kept(ls) \o <<l>>
  <2> DEFINE s == Kept(ls)
  <2>1. /\ s \in Seq(LineType) /\ Len(s) = q
        /\ \A j \in 1 .. q : longer[Place(N, j)] = s[j]
    BY <1>11, <1>14, <1>15
  <2>2. longer[Place(N, q + 1)] = l
    BY <1>1, <1>12
  <2> HIDE DEF s
  <2>3. s \o <<l>> = [j \in 1 .. q + 1 |-> IF j = q + 1 THEN l ELSE s[j]]
    BY <1>4, <2>1
  <2>4. \A j \in 1 .. q + 1 : j = q + 1 \/ j \in 1 .. q
    BY <1>4
  <2>5. Kept(longer) = s \o <<l>>
    BY <1>6, <2>1, <2>2, <2>3, <2>4
  <2>6. QED
    BY <2>5 DEF s
<1>17. Kept(longer) \in Seq(LineType)
  BY <1>16
<1>18. QED
  BY <1>13, <1>16, <1>17 DEF longer

-----------------------------------------------------------------------------
(* What a masking operation does to the registers.                          *)

\* What is known of a register.
Value == [ones : SUBSET Int, zeros : SUBSET Int, drift : Nat]

\* What is known of all registers.
RegFile == [0 .. 15 -> Value]

\* The registers after all the lines.
Final(R, ls, f, i) == After(R, ls, Len(ls), f, i)

\* The last line is executed on what the others left.
LEMMA FinalAppend ==
  ASSUME NEW R, NEW f, NEW i, NEW ls \in Seq(LineType), NEW l \in LineType
  PROVE  /\ ls \o <<l>> \in Seq(LineType)
         /\ Final(R, ls \o <<l>>, f, i) = Executed(Final(R, ls, f, i), l, f, i)
<1>1. /\ ls \o <<l>> \in Seq(LineType) /\ Len(ls \o <<l>>) = Len(ls) + 1
      /\ After(R, ls \o <<l>>, Len(ls) + 1, f, i) = Executed(After(R, ls, Len(ls), f, i), l, f, i)
  BY AfterAppend
<1>2. QED
  BY <1>1, Zenon DEF Final

\* No lines change nothing.
LEMMA FinalNone ==
  ASSUME NEW R, NEW f, NEW i
  PROVE  Final(R, <<>>, f, i) = R
BY AfterNone DEF Final

\* The operations on values give values, and what the masking operations do
\* to a value that was not moved.
LEMMA ValueOps ==
  ASSUME NEW v \in Value, NEW mask \in SUBSET Int
  PROVE  /\ Unknown \in Value /\ Within(mask) \in Value /\ Literal(mask) \in Value /\ DataAddress \in Value
         /\ Still(v, mask) \in Value /\ Clear(v, mask) \in Value /\ Set(v, mask) \in Value /\ Moved(v) \in Value
         /\ Moved(v).drift = v.drift + 1
         /\ v.drift = 0 => /\ Clear(v, mask) = [ones |-> v.ones \ mask, zeros |-> v.zeros \cup mask, drift |-> 0]
                           /\ Set(v, mask) = [ones |-> v.ones \cup mask, zeros |-> v.zeros \ mask, drift |-> 0]
         /\ mask \subseteq {0, 1} =>
              Clear(v, mask) = [ones |-> v.ones \ mask, zeros |-> v.zeros \cup mask, drift |-> v.drift]
<1>1. /\ Unknown \in Value /\ Within(mask) \in Value /\ Literal(mask) \in Value /\ DataAddress \in Value
      /\ Moved(v) \in Value /\ Moved(v).drift = v.drift + 1
  BY DEF Value, Unknown, Within, Literal, DataAddress, Word32, MemLimit, Moved
<1>2. Still(v, mask) \in Value /\ (v.drift = 0 \/ mask \subseteq {0, 1} => Still(v, mask) = v)
  BY <1>1 DEF Still
<1>3. ASSUME NEW a \in SUBSET Int, NEW b, NEW w \in Value
      PROVE  [w EXCEPT !.ones = a, !.zeros = b] = [ones |-> a, zeros |-> b, drift |-> w.drift]
  <2>1. [w EXCEPT !.ones = a, !.zeros = b] = [[w EXCEPT !.ones = a] EXCEPT !.zeros = b]
    OBVIOUS
  <2>2. [w EXCEPT !.ones = a] = [ones |-> a, zeros |-> w.zeros, drift |-> w.drift]
    BY DEF Value
  <2>3. [w EXCEPT !.ones = a] \in Value
    BY DEF Value
  <2>4. ASSUME NEW x \in Value
        PROVE  [x EXCEPT !.zeros = b] = [ones |-> x.ones, zeros |-> b, drift |-> x.drift]
    BY DEF Value
  <2>5. QED
    BY <2>1, <2>2, <2>3, <2>4
<1> DEFINE u == Still(v, mask)
<1>4. u \in Value
  BY <1>2
<1>5. /\ u.ones \in SUBSET Int /\ u.zeros \in SUBSET Int /\ u.drift \in Nat
      /\ \A x \in SUBSET Int : x \ mask \in SUBSET Int /\ x \cup mask \in SUBSET Int
  <2> HIDE DEF u
  <2>1. QED
    BY <1>4 DEF Value
<1>6. /\ Clear(v, mask) = [ones |-> u.ones \ mask, zeros |-> u.zeros \cup mask, drift |-> u.drift]
      /\ Set(v, mask) = [ones |-> u.ones \cup mask, zeros |-> u.zeros \ mask, drift |-> u.drift]
  BY <1>3, <1>4, <1>5, Zenon DEF Clear, Set
<1> HIDE DEF u
<1>7. ASSUME NEW a \in SUBSET Int, NEW b \in SUBSET Int, NEW d \in Nat
      PROVE  [ones |-> a, zeros |-> b, drift |-> d] \in Value
  BY DEF Value
<1>8. Clear(v, mask) \in Value /\ Set(v, mask) \in Value
  BY <1>5, <1>6, <1>7
<1>9. QED
  BY <1>1, <1>2, <1>6, <1>8 DEF u

\* What a masking operation o makes of the registers R.
Masked(R, Q, o, base, tmp, mask) ==
  /\ Q \in RegFile
  /\ Q[base] = IF o = "bic" THEN Clear(R[base], mask) ELSE Set(R[base], mask)
  /\ \A r \in 0 .. 15 \ {base, tmp} : Q[r] = R[r]

\* The masking operation with the mask in the instruction.
LEMMA MaskImm ==
  ASSUME NEW R \in RegFile, NEW f, NEW i, NEW o \in {"bic", "orr"}, NEW base \in 0 .. 15, NEW tmp,
         NEW mask \in SUBSET Int
  PROVE  Masked(R, Executed(R, Line("CODE", o, base, base, mask), f, i), o, base, tmp, mask)
<1> DEFINE val == IF o = "bic" THEN Clear(R[base], mask) ELSE Set(R[base], mask)
<1>1. val \in Value
  BY ValueOps DEF RegFile
<1>2. Executed(R, Line("CODE", o, base, base, mask), f, i) = [R EXCEPT ![base] = val]
  BY DEF Executed, Line
<1> HIDE DEF val
<1>3. Masked(R, [R EXCEPT ![base] = val], o, base, tmp, mask)
  <2>1. [R EXCEPT ![base] = val] \in RegFile /\ [R EXCEPT ![base] = val][base] = val
    BY <1>1 DEF RegFile
  <2>2. \A r \in 0 .. 15 \ {base, tmp} : [R EXCEPT ![base] = val][r] = R[r]
    BY DEF RegFile
  <2>3. QED
    BY <2>1, <2>2 DEF Masked, val
<1>4. QED
  BY <1>2, <1>3

\* The masking operation with the mask loaded into tmp first.
LEMMA MaskReg ==
  ASSUME NEW R \in RegFile, NEW f, NEW i, NEW o \in {"bic", "orr"}, NEW base \in 0 .. 15, NEW tmp \in 0 .. 15,
         base # tmp, NEW mask \in SUBSET Int
  PROVE  LET Q == Executed(R, Line("CODE", "ldr", tmp, tmp, mask), f, i)
         IN  Masked(R, Executed(Q, Line("CODE", IF o = "bic" THEN "bic_reg" ELSE "orr_reg", base, tmp, {}), f, i),
                    o, base, tmp, mask)
<1> DEFINE Q == Executed(R, Line("CODE", "ldr", tmp, tmp, mask), f, i)
           l == Line("CODE", IF o = "bic" THEN "bic_reg" ELSE "orr_reg", base, tmp, {})
           val == IF o = "bic" THEN Clear(R[base], mask) ELSE Set(R[base], mask)
<1>1. Literal(mask) \in Value /\ val \in Value /\ Literal(mask).ones = mask
  BY ValueOps DEF RegFile, Literal
<1>2. Q = [R EXCEPT ![tmp] = Literal(mask)]
  BY DEF Executed, Line
<1>3. Q \in RegFile /\ Q[tmp] = Literal(mask) /\ \A r \in 0 .. 15 \ {tmp} : Q[r] = R[r]
  <2> HIDE DEF Q
  <2>1. QED
    BY <1>1, <1>2 DEF RegFile
<1> HIDE DEF Q
<1>4. Executed(Q, l, f, i) = [Q EXCEPT ![base] = val]
  <2>1. Executed(Q, l, f, i) = [Q EXCEPT ![base] = IF o = "bic" THEN Clear(Q[base], Q[tmp].ones) ELSE Set(Q[base], Q[tmp].ones)]
    BY DEF Executed, Line
  <2>2. Q[base] = R[base] /\ Q[tmp].ones = mask
    BY <1>1, <1>3
  <2>3. QED
    BY <2>1, <2>2
<1> HIDE DEF val, l
<1>5. Masked(R, [Q EXCEPT ![base] = val], o, base, tmp, mask)
  <2>1. [Q EXCEPT ![base] = val] \in RegFile /\ [Q EXCEPT ![base] = val][base] = val
    BY <1>1, <1>3 DEF RegFile
  <2>2. \A r \in 0 .. 15 \ {base, tmp} : [Q EXCEPT ![base] = val][r] = R[r]
    BY <1>3 DEF RegFile
  <2>3. QED
    BY <2>1, <2>2 DEF Masked, val
<1>6. QED
  BY <1>4, <1>5 DEF Q, l

\* Two lines are one after the other.
LEMMA TwoLines ==
  ASSUME NEW ls \in Seq(LineType), NEW a \in LineType, NEW b \in LineType
  PROVE  ls \o <<a, b>> = (ls \o <<a>>) \o <<b>>
<1>1. ls \o <<a, b>> = Append(Append(ls, a), b)
  OBVIOUS
<1>2. (ls \o <<a>>) \o <<b>> = Append(Append(ls, a), b)
  OBVIOUS
<1>3. QED
  BY <1>1, <1>2

\* The lines of masking operations are lines.
LEMMA MaskLines ==
  ASSUME NEW base \in 0 .. 15, NEW tmp \in 0 .. 15, NEW mask \in SUBSET Int
  PROVE  /\ \A o \in {"bic", "orr"} : Line("CODE", o, base, base, mask) \in LineType
         /\ \A o \in {"bic_reg", "orr_reg"} : Line("CODE", o, base, tmp, {}) \in LineType
         /\ Line("CODE", "ldr", tmp, tmp, mask) \in LineType
<1>1. {} \in SUBSET Int /\ base \in 0 .. 16 /\ tmp \in 0 .. 16
  OBVIOUS
<1>2. ASSUME NEW o \in LineOps, NEW d \in 0 .. 16, NEW e \in 0 .. 16, NEW k \in SUBSET Int
      PROVE  Line("CODE", o, d, e, k) \in LineType
  BY DEF Line, LineType
<1>3. {"bic", "orr", "bic_reg", "orr_reg", "ldr"} \subseteq LineOps
  BY DEF LineOps
<1>4. QED
  BY <1>1, <1>2, <1>3

\* A mask that no immediate holds is loaded into tmp and applied from there:
\* the two lines do what the one line would.
LEMMA PairEffect ==
  ASSUME NEW R, NEW f, NEW i, NEW ls \in Seq(LineType), Final(R, ls, f, i) \in RegFile,
         NEW o \in {"bic", "orr"}, NEW base \in 0 .. 15, NEW tmp \in 0 .. 15,
         base # tmp, NEW mask \in SUBSET Int,
         NEW p, p = IF o = "bic" THEN "bic_reg" ELSE "orr_reg",
         NEW more, more = ls \o <<Line("CODE", "ldr", tmp, tmp, mask), Line("CODE", p, base, tmp, {})>>
  PROVE  more \in Seq(LineType) /\ Masked(Final(R, ls, f, i), Final(R, more, f, i), o, base, tmp, mask)
<1> DEFINE load == Line("CODE", "ldr", tmp, tmp, mask)
           mask_line == Line("CODE", IF o = "bic" THEN "bic_reg" ELSE "orr_reg", base, tmp, {})
           Q == Final(R, ls, f, i)
<1>1. load \in LineType /\ mask_line \in LineType
  <2>1. (IF o = "bic" THEN "bic_reg" ELSE "orr_reg") \in {"bic_reg", "orr_reg"}
    OBVIOUS
  <2>2. QED
    BY <2>1, MaskLines, Zenon
<1>2. Masked(Q, Executed(Executed(Q, load, f, i), mask_line, f, i), o, base, tmp, mask)
  BY MaskReg
<1> HIDE DEF load, mask_line, Q
<1>3. /\ ls \o <<load, mask_line>> \in Seq(LineType)
      /\ Final(R, ls \o <<load, mask_line>>, f, i) = Executed(Executed(Q, load, f, i), mask_line, f, i)
  <2> DEFINE longer == ls \o <<load>>
  <2>1. longer \in Seq(LineType) /\ Final(R, longer, f, i) = Executed(Q, load, f, i)
    BY <1>1, FinalAppend DEF Q
  <2>2. ls \o <<load, mask_line>> = longer \o <<mask_line>>
    BY <1>1, TwoLines
  <2> HIDE DEF longer
  <2>3. longer \o <<mask_line>> \in Seq(LineType)
        /\ Final(R, longer \o <<mask_line>>, f, i) = Executed(Final(R, longer, f, i), mask_line, f, i)
    BY <1>1, <2>1, FinalAppend
  <2>4. QED
    BY <2>1, <2>2, <2>3
<1>4. ls \o <<load, mask_line>> \in Seq(LineType) /\ Masked(Q, Final(R, ls \o <<load, mask_line>>, f, i), o, base, tmp, mask)
  BY <1>2, <1>3
<1>5. QED
  BY <1>4, Zenon DEF load, mask_line, Q

\* The lines of a masking operation of the ARM code are lines.
LEMMA ArmMaskSeq ==
  ASSUME NEW o \in {"bic", "orr"}, NEW base \in 0 .. 15, NEW tmp \in 0 .. 15, NEW mask \in SUBSET Int
  PROVE  ArmMask(o, base, tmp, mask) \in Seq(LineType)
<1> DEFINE one == Line("CODE", o, base, base, mask)
           load == Line("CODE", "ldr", tmp, tmp, mask)
           mask_line == Line("CODE", IF o = "bic" THEN "bic_reg" ELSE "orr_reg", base, tmp, {})
<1>1. (IF o = "bic" THEN "bic_reg" ELSE "orr_reg") \in {"bic_reg", "orr_reg"}
  OBVIOUS
<1>2. one \in LineType /\ load \in LineType /\ mask_line \in LineType
  BY <1>1, MaskLines, Zenon
<1>3. ArmMask(o, base, tmp, mask) \in {<<one>>, <<load, mask_line>>}
  BY Zenon DEF ArmMask
<1> HIDE DEF one, load, mask_line
<1>4. <<one>> \in Seq(LineType) /\ <<load, mask_line>> \in Seq(LineType)
  BY <1>2, FewLines
<1>5. QED
  BY <1>3, <1>4, Zenon

\* Either way the ARM code of a masking operation masks the base and leaves
\* all registers but the base and tmp alone.
LEMMA ArmMaskEffect ==
  ASSUME NEW R, NEW f, NEW i, NEW ls \in Seq(LineType), Final(R, ls, f, i) \in RegFile,
         NEW o \in {"bic", "orr"}, NEW base \in 0 .. 15, NEW tmp \in 0 .. 15,
         base # tmp, NEW mask \in SUBSET Int
  PROVE  LET more == ls \o ArmMask(o, base, tmp, mask)
         IN  more \in Seq(LineType) /\ Masked(Final(R, ls, f, i), Final(R, more, f, i), o, base, tmp, mask)
<1>1. CASE is_imm_encodable(mask, ARM)
  <2> DEFINE l == Line("CODE", o, base, base, mask)
             Q == Final(R, ls, f, i)
  <2>1. ArmMask(o, base, tmp, mask) = <<l>>
    BY <1>1, Zenon DEF ArmMask
  <2>2. l \in LineType
    BY MaskLines
  <2>3. Masked(Q, Executed(Q, l, f, i), o, base, tmp, mask)
    BY MaskImm
  <2> HIDE DEF l, Q
  <2>4. ls \o <<l>> \in Seq(LineType) /\ Final(R, ls \o <<l>>, f, i) = Executed(Q, l, f, i)
    BY <2>2, FinalAppend DEF Q
  <2>5. ls \o <<l>> \in Seq(LineType) /\ Masked(Q, Final(R, ls \o <<l>>, f, i), o, base, tmp, mask)
    BY <2>3, <2>4
  <2>6. QED
    BY <2>1, <2>5, Zenon DEF Q
<1>2. CASE ~is_imm_encodable(mask, ARM)
  <2> DEFINE pair == <<Line("CODE", "ldr", tmp, tmp, mask),
                       Line("CODE", IF o = "bic" THEN "bic_reg" ELSE "orr_reg", base, tmp, {})>>
  <2>1. ArmMask(o, base, tmp, mask) = pair
    BY <1>2, Zenon DEF ArmMask
  <2> DEFINE more == ls \o ArmMask(o, base, tmp, mask)
  <2> HIDE DEF more
  <2>0. more = ls \o pair
    BY <2>1, Zenon DEF more
  <2>2. /\ more \in Seq(LineType)
        /\ Masked(Final(R, ls, f, i), Final(R, more, f, i), o, base, tmp, mask)
    BY <2>0, PairEffect, Zenon
  <2>3. QED
    BY <2>2, Zenon DEF more
<1>3. QED
  BY <1>1, <1>2

\* A value with the bits of set_mask set and those of unset cleared.
Based(v, unset) == v.drift = 0 /\ set_mask \subseteq v.ones /\ unset \subseteq v.zeros

\* The base of a masking: the bits of unset are cleared, and those of
\* set_mask are set.
LEMMA MaskingEffect ==
  ASSUME NEW R, NEW f, NEW i, NEW ls \in Seq(LineType), Final(R, ls, f, i) \in RegFile,
         NEW set \in {ARM, THUMB}, NEW base \in 0 .. 15, NEW tmp \in 0 .. 15,
         base # tmp, NEW unset \in SUBSET Int, unset \cap set_mask = {},
         Final(R, ls, f, i)[base].drift = 0
  PROVE  /\ ls \o Masking(set, base, tmp, unset) \in Seq(LineType)
         /\ Final(R, ls \o Masking(set, base, tmp, unset), f, i) \in RegFile
         /\ Based(Final(R, ls \o Masking(set, base, tmp, unset), f, i)[base], unset)
<1> DEFINE P == Final(R, ls, f, i)
<1>1. set_mask \in SUBSET Int
  BY DEF set_mask, mem_base_mask, mem_base_val
<1>2. PICK mid, more :
        /\ mid \in Seq(LineType) /\ Masked(P, Final(R, mid, f, i), "bic", base, tmp, unset)
        /\ more \in Seq(LineType) /\ more = ls \o Masking(set, base, tmp, unset)
        /\ Masked(Final(R, mid, f, i), Final(R, more, f, i), "orr", base, tmp, set_mask)
  <2>1. CASE set = THUMB
    <3> DEFINE two == <<Line("CODE", "ldr", tmp, tmp, unset), Line("CODE", "bic_reg", base, tmp, {})>>
               last == <<Line("CODE", "ldr", tmp, tmp, set_mask), Line("CODE", "orr_reg", base, tmp, {})>>
               mid == ls \o two
    <3>1. mid \in Seq(LineType) /\ Masked(P, Final(R, mid, f, i), "bic", base, tmp, unset)
      <4>1. "bic" \in {"bic", "orr"} /\ (IF "bic" = "bic" THEN "bic_reg" ELSE "orr_reg") = "bic_reg"
        OBVIOUS
      <4>2. QED
        BY <4>1, PairEffect, Zenon
    <3>2. Final(R, mid, f, i) \in RegFile
      BY <3>1 DEF Masked
    <3>3. mid \o last \in Seq(LineType)
          /\ Masked(Final(R, mid, f, i), Final(R, mid \o last, f, i), "orr", base, tmp, set_mask)
      <4>1. "orr" \in {"bic", "orr"} /\ (IF "orr" = "bic" THEN "bic_reg" ELSE "orr_reg") = "orr_reg"
        OBVIOUS
      <4> HIDE DEF mid
      <4>2. QED
        BY <1>1, <3>1, <3>2, <4>1, PairEffect, Zenon
    <3>4. Masking(set, base, tmp, unset)
            = <<Line("CODE", "ldr", tmp, tmp, unset), Line("CODE", "bic_reg", base, tmp, {}),
                Line("CODE", "ldr", tmp, tmp, set_mask), Line("CODE", "orr_reg", base, tmp, {})>>
      BY <2>1, Zenon DEF Masking
    <3>5. mid \o last = ls \o Masking(set, base, tmp, unset)
      <4>2. /\ Line("CODE", "ldr", tmp, tmp, unset) \in LineType
            /\ Line("CODE", "bic_reg", base, tmp, {}) \in LineType
            /\ Line("CODE", "ldr", tmp, tmp, set_mask) \in LineType
            /\ Line("CODE", "orr_reg", base, tmp, {}) \in LineType
        BY <1>1, MaskLines
      <4>3. mid \o last
              = ls \o <<Line("CODE", "ldr", tmp, tmp, unset), Line("CODE", "bic_reg", base, tmp, {}),
                        Line("CODE", "ldr", tmp, tmp, set_mask), Line("CODE", "orr_reg", base, tmp, {})>>
        <5>1. PICK l1 \in LineType : l1 = Line("CODE", "ldr", tmp, tmp, unset)
          BY <4>2, Zenon
        <5>2. PICK l2 \in LineType : l2 = Line("CODE", "bic_reg", base, tmp, {})
          BY <4>2, Zenon
        <5>3. PICK l3 \in LineType : l3 = Line("CODE", "ldr", tmp, tmp, set_mask)
          BY <4>2, Zenon
        <5>4. PICK l4 \in LineType : l4 = Line("CODE", "orr_reg", base, tmp, {})
          BY <4>2, Zenon
        <5>5. (ls \o <<l1, l2>>) \o <<l3, l4>> = ls \o <<l1, l2, l3, l4>>
          OBVIOUS
        <5>6. QED
          BY <5>1, <5>2, <5>3, <5>4, <5>5, Zenon
      <4> HIDE DEF mid, last
      <4>4. QED
        BY <3>4, <4>3, Zenon
    <3>6. QED
      BY <3>1, <3>3, <3>5, Zenon
  <2>2. CASE set # THUMB
    <3> DEFINE two == ArmMask("bic", base, tmp, unset)
               last == ArmMask("orr", base, tmp, set_mask)
               mid == ls \o two
    <3>1. mid \in Seq(LineType) /\ Masked(P, Final(R, mid, f, i), "bic", base, tmp, unset)
      BY ArmMaskEffect, Zenon
    <3>2. Final(R, mid, f, i) \in RegFile
      BY <3>1 DEF Masked
    <3>3. mid \o last \in Seq(LineType)
          /\ Masked(Final(R, mid, f, i), Final(R, mid \o last, f, i), "orr", base, tmp, set_mask)
      <4> HIDE DEF mid
      <4>2. QED
        BY <1>1, <3>1, <3>2, ArmMaskEffect, Zenon
    <3>4. Masking(set, base, tmp, unset) = two \o last
      BY <2>2, Zenon DEF Masking
    <3>5. mid \o last = ls \o Masking(set, base, tmp, unset)
      <4>1. two \in Seq(LineType) /\ last \in Seq(LineType)
        BY <1>1, ArmMaskSeq
      <4> HIDE DEF two, last
      <4>2. (ls \o two) \o last = ls \o (two \o last)
        BY <4>1, ConcatAssociative
      <4>3. QED
        BY <3>4, <4>2
    <3>6. QED
      BY <3>1, <3>3, <3>5, Zenon
  <2>3. QED
    BY <2>1, <2>2
<1> DEFINE M == Final(R, mid, f, i)
           Q == Final(R, more, f, i)
<1> HIDE DEF P, M, Q
<1>3. /\ P \in RegFile /\ M \in RegFile /\ Q \in RegFile /\ P[base].drift = 0
      /\ M[base] = Clear(P[base], unset) /\ Q[base] = Set(M[base], set_mask)
      /\ \A r \in 0 .. 15 \ {base, tmp} : Q[r] = P[r]
  BY <1>2 DEF Masked, P, M, Q
<1>4. P[base] \in Value /\ M[base] \in Value
  BY <1>3 DEF RegFile
<1>5. M[base] = [ones |-> P[base].ones \ unset, zeros |-> P[base].zeros \cup unset, drift |-> 0]
  BY <1>3, <1>4, ValueOps
<1>6. Q[base] = [ones |-> M[base].ones \cup set_mask, zeros |-> M[base].zeros \ set_mask, drift |-> 0]
  <2>1. M[base].drift = 0
    BY <1>5
  <2>2. Set(M[base], set_mask)
          = [ones |-> M[base].ones \cup set_mask, zeros |-> M[base].zeros \ set_mask, drift |-> 0]
    BY <1>1, <1>4, <2>1, ValueOps
  <2>3. QED
    BY <1>3, <2>2
<1>7. Q[base].drift = 0 /\ set_mask \subseteq Q[base].ones /\ unset \subseteq Q[base].zeros
  <2>1. M[base].zeros = P[base].zeros \cup unset
    BY <1>5
  <2>2. /\ Q[base].drift = 0 /\ Q[base].ones = M[base].ones \cup set_mask
        /\ Q[base].zeros = M[base].zeros \ set_mask
    BY <1>6
  <2>3. QED
    BY <2>1, <2>2
<1>8. QED
  BY <1>2, <1>3, <1>7, Zenon DEF P, Q, Based

-----------------------------------------------------------------------------
(* The code of fix_mem_base.                                                *)

\* Q is R but for register d, which is v.
Wrote(R, Q, d, v) == Q \in RegFile /\ Q[d] = v /\ \A r \in 0 .. 15 \ {d} : Q[r] = R[r]

\* Writing one register.
LEMMA OneWritten ==
  ASSUME NEW R \in RegFile, NEW d \in 0 .. 15, NEW v \in Value
  PROVE  Wrote(R, [R EXCEPT ![d] = v], d, v)
BY DEF RegFile, Wrote

\* The lines that move, align and load a register.
LEMMA LineEffect ==
  ASSUME NEW R \in RegFile, NEW f, NEW i, NEW d \in 0 .. 15, NEW s \in 0 .. 15, NEW mask \in SUBSET Int
  PROVE  /\ Line("INST", "mov", d, s, {}) \in LineType
         /\ Line("INST", "bic", d, d, mask) \in LineType
         /\ Line("INST", "ldr", d, d, mask) \in LineType
         /\ Wrote(R, Executed(R, Line("INST", "mov", d, s, {}), f, i), d, R[s])
         /\ Wrote(R, Executed(R, Line("INST", "bic", d, d, mask), f, i), d, Clear(R[d], mask))
         /\ Wrote(R, Executed(R, Line("INST", "ldr", d, d, mask), f, i), d, Within(mask))
<1>1. {} \in SUBSET Int /\ d \in 0 .. 16 /\ s \in 0 .. 16
  OBVIOUS
<1>2. ASSUME NEW o \in LineOps, NEW p \in 0 .. 16, NEW e \in 0 .. 16, NEW k \in SUBSET Int
      PROVE  Line("INST", o, p, e, k) \in LineType
  BY DEF Line, LineType
<1>3. {"mov", "bic", "ldr"} \subseteq LineOps
  BY DEF LineOps
<1>4. /\ Line("INST", "mov", d, s, {}) \in LineType
      /\ Line("INST", "bic", d, d, mask) \in LineType
      /\ Line("INST", "ldr", d, d, mask) \in LineType
  BY <1>1, <1>2, <1>3
<1>5. R[s] \in Value /\ R[d] \in Value
  BY DEF RegFile
<1>6. Clear(R[d], mask) \in Value /\ Within(mask) \in Value
  BY <1>5, ValueOps
<1>7. Executed(R, Line("INST", "mov", d, s, {}), f, i) = [R EXCEPT ![d] = R[s]]
  BY DEF Executed, Line
<1>8. Executed(R, Line("INST", "bic", d, d, mask), f, i) = [R EXCEPT ![d] = Clear(R[d], mask)]
  BY DEF Executed, Line
<1>9. Executed(R, Line("INST", "ldr", d, d, mask), f, i) = [R EXCEPT ![d] = Within(mask)]
  BY DEF Executed, Line
<1>10. QED
  BY <1>4, <1>5, <1>6, <1>7, <1>8, <1>9, OneWritten

\* The same lines after others: a move ...
LEMMA MoveRun ==
  ASSUME NEW R, NEW f, NEW i, NEW ls \in Seq(LineType), Final(R, ls, f, i) \in RegFile,
         NEW d \in 0 .. 15, NEW s \in 0 .. 15, NEW more, more = ls \o <<Line("INST", "mov", d, s, {})>>
  PROVE  more \in Seq(LineType) /\ Wrote(Final(R, ls, f, i), Final(R, more, f, i), d, Final(R, ls, f, i)[s])
<1>1. PICK Q \in RegFile : Q = Final(R, ls, f, i)
  OBVIOUS
<1>2. PICK l \in LineType : l = Line("INST", "mov", d, s, {}) /\ Wrote(Q, Executed(Q, l, f, i), d, Q[s])
  BY LineEffect
<1>3. more \in Seq(LineType) /\ Final(R, more, f, i) = Executed(Q, l, f, i)
  <2>1. more = ls \o <<l>>
    BY <1>2, Zenon
  <2>2. QED
    BY <1>1, <2>1, FinalAppend
<1>4. QED
  BY <1>1, <1>2, <1>3, Zenon

\* ... an alignment ...
LEMMA ClearRun ==
  ASSUME NEW R, NEW f, NEW i, NEW ls \in Seq(LineType), Final(R, ls, f, i) \in RegFile,
         NEW d \in 0 .. 15, NEW mask \in SUBSET Int, NEW more, more = ls \o <<Line("INST", "bic", d, d, mask)>>
  PROVE  more \in Seq(LineType) /\ Wrote(Final(R, ls, f, i), Final(R, more, f, i), d, Clear(Final(R, ls, f, i)[d], mask))
<1>1. PICK Q \in RegFile : Q = Final(R, ls, f, i)
  OBVIOUS
<1>2. PICK l \in LineType : l = Line("INST", "bic", d, d, mask) /\ Wrote(Q, Executed(Q, l, f, i), d, Clear(Q[d], mask))
  BY LineEffect
<1>3. more \in Seq(LineType) /\ Final(R, more, f, i) = Executed(Q, l, f, i)
  <2>1. more = ls \o <<l>>
    BY <1>2, Zenon
  <2>2. QED
    BY <1>1, <2>1, FinalAppend
<1>4. QED
  BY <1>1, <1>2, <1>3, Zenon

\* ... and a load of an offset.
LEMMA LoadRun ==
  ASSUME NEW R, NEW f, NEW i, NEW ls \in Seq(LineType), Final(R, ls, f, i) \in RegFile,
         NEW d \in 0 .. 15, NEW mask \in SUBSET Int, NEW more, more = ls \o <<Line("INST", "ldr", d, d, mask)>>
  PROVE  more \in Seq(LineType) /\ Wrote(Final(R, ls, f, i), Final(R, more, f, i), d, Within(mask))
<1>1. PICK Q \in RegFile : Q = Final(R, ls, f, i)
  OBVIOUS
<1>2. PICK l \in LineType : l = Line("INST", "ldr", d, d, mask) /\ Wrote(Q, Executed(Q, l, f, i), d, Within(mask))
  BY LineEffect
<1>3. more \in Seq(LineType) /\ Final(R, more, f, i) = Executed(Q, l, f, i)
  <2>1. more = ls \o <<l>>
    BY <1>2, Zenon
  <2>2. QED
    BY <1>1, <2>1, FinalAppend
<1>4. QED
  BY <1>1, <1>2, <1>3, Zenon

\* The base as fix_mem_base leaves it.
Fixed(v, align) == v \in Value /\ v.drift = 0 /\ InData(v) /\ (align => Aligned(v))

\* Aligning a base in the data leaves it there.
LEMMA ClearLow ==
  ASSUME NEW v \in Value, NEW u, u = Clear(v, {0, 1})
  PROVE  u \in Value /\ u.drift = v.drift /\ Aligned(u) /\ (InData(v) => InData(u))
<1>1. {0, 1} \in SUBSET Int
  OBVIOUS
<1>2. u \in Value /\ u = [ones |-> v.ones \ {0, 1}, zeros |-> v.zeros \cup {0, 1}, drift |-> v.drift]
  BY <1>1, ValueOps
<1>3. u.ones = v.ones \ {0, 1} /\ u.zeros = v.zeros \cup {0, 1} /\ u.drift = v.drift
  BY <1>2
<1>4. Aligned(u) /\ (InData(v) => InData(u))
  BY <1>3 DEF Aligned, InData, MemLimit
<1>5. QED
  BY <1>2, <1>3, <1>4

\* The four parts of fix_mem_base.
FixParts(set, base, align, bb, tmp, unset, first, aligned, last) ==
  LET high == set = THUMB /\ base > 7
  IN  /\ bb \in 0 .. 15 /\ tmp \in 0 .. 15 /\ bb # tmp /\ unset \in SUBSET Int
      /\ unset \cap set_mask = {} /\ 26 .. 31 \subseteq unset /\ (align => {0, 1} \subseteq unset)
      /\ \/ high /\ bb = 2 /\ first = <<Line("INST", "mov", bb, base, {})>>
                 /\ last = <<Line("INST", "mov", base, bb, {})>>
         \/ ~high /\ bb = base /\ first = <<>> /\ last = <<>>
      /\ aligned = IF align THEN <<Line("INST", "bic", bb, bb, {0, 1})>> ELSE <<>>
      /\ fix_mem_base(set, base, align) = first \o Masking(set, bb, tmp, unset) \o aligned \o last

\* fix_mem_base consists of these parts: a move into r2 and back for a Thumb
\* base above r7, the masking, and the alignment.
LEMMA FixSplit ==
  ASSUME NEW set \in {ARM, THUMB}, NEW base \in 0 .. 15, NEW align \in BOOLEAN
  PROVE  \E bb, tmp, unset, first, aligned, last :
           FixParts(set, base, align, bb, tmp, unset, first, aligned, last)
<1> DEFINE high == set = THUMB /\ base > 7
           bb == IF high THEN 2 ELSE base
           tmp == IF base # 0 THEN 0 ELSE 1
           unset == IF align THEN unset_mask \cup {0, 1} ELSE unset_mask
           first == IF high THEN <<Line("INST", "mov", bb, base, {})>> ELSE <<>>
           aligned == IF align THEN <<Line("INST", "bic", bb, bb, {0, 1})>> ELSE <<>>
           last == IF high THEN <<Line("INST", "mov", base, bb, {})>> ELSE <<>>
<1>1. /\ bb \in 0 .. 15 /\ tmp \in 0 .. 15 /\ bb # tmp /\ unset \in SUBSET Int
      /\ unset \cap set_mask = {} /\ 26 .. 31 \subseteq unset /\ (align => {0, 1} \subseteq unset)
  BY DEF unset_mask, set_mask, mem_base_mask, mem_base_val
<1>2. /\ \/ high /\ bb = 2 /\ first = <<Line("INST", "mov", bb, base, {})>>
                 /\ last = <<Line("INST", "mov", base, bb, {})>>
         \/ ~high /\ bb = base /\ first = <<>> /\ last = <<>>
      /\ aligned = IF align THEN <<Line("INST", "bic", bb, bb, {0, 1})>> ELSE <<>>
  BY Zenon
<1>3. fix_mem_base(set, base, align) = first \o Masking(set, bb, tmp, unset) \o aligned \o last
  BY Zenon DEF fix_mem_base
<1>4. FixParts(set, base, align, bb, tmp, unset, first, aligned, last)
  <2> HIDE DEF bb, tmp, unset, first, aligned, last
  <2>1. QED
    BY <1>1, <1>2, <1>3, Zenon DEF FixParts
<1>5. QED
  BY <1>4, Zenon

\* The code of fix_mem_base, run as a whole on registers of which anything
\* is known but none was moved, leaves an address of the data in the base,
\* aligned where the access must be: in ARM and in Thumb code, whichever
\* register the base is and whether its masks fit an immediate or not.
THEOREM FixEffect ==
  ASSUME NEW R \in RegFile, \A r \in 0 .. 15 : R[r].drift = 0, NEW f, NEW i,
         NEW set \in {ARM, THUMB}, NEW base \in 0 .. 15, NEW align \in BOOLEAN
  PROVE  /\ fix_mem_base(set, base, align) \in Seq(LineType)
         /\ Final(R, fix_mem_base(set, base, align), f, i) \in RegFile
         /\ Fixed(Final(R, fix_mem_base(set, base, align), f, i)[base], align)
<1>1. PICK bb, tmp, unset, first, aligned, last :
        FixParts(set, base, align, bb, tmp, unset, first, aligned, last)
  BY FixSplit
<1>2. /\ bb \in 0 .. 15 /\ tmp \in 0 .. 15 /\ bb # tmp /\ unset \in SUBSET Int
      /\ unset \cap set_mask = {} /\ 26 .. 31 \subseteq unset /\ (align => {0, 1} \subseteq unset)
      /\ \/ first = <<Line("INST", "mov", bb, base, {})>> /\ last = <<Line("INST", "mov", base, bb, {})>>
         \/ bb = base /\ first = <<>> /\ last = <<>>
      /\ aligned = IF align THEN <<Line("INST", "bic", bb, bb, {0, 1})>> ELSE <<>>
      /\ fix_mem_base(set, base, align) = first \o Masking(set, bb, tmp, unset) \o aligned \o last
  BY <1>1, Zenon DEF FixParts
<1>3. set_mask = 18 .. 25
  BY DEF set_mask, mem_base_mask, mem_base_val
<1>4. first \in Seq(LineType) /\ Final(R, first, f, i) \in RegFile /\ Final(R, first, f, i)[bb].drift = 0
  <2>1. Final(R, <<>>, f, i) = R /\ <<>> \in Seq(LineType)
    BY FinalNone
  <2>2. CASE first = <<Line("INST", "mov", bb, base, {})>>
    <3>1. first = <<>> \o <<Line("INST", "mov", bb, base, {})>>
      <4>1. PICK l \in LineType : l = Line("INST", "mov", bb, base, {})
        <5>1. {} \in SUBSET Int
          OBVIOUS
        <5>2. QED
          BY <1>2, <5>1, LineEffect
      <4>2. <<l>> = <<>> \o <<l>>
        OBVIOUS
      <4>3. QED
        BY <2>2, <4>1, <4>2, Zenon
    <3>2. first \in Seq(LineType) /\ Wrote(R, Final(R, first, f, i), bb, R[base])
      <4>1. {} \in SUBSET Int
        OBVIOUS
      <4>2. QED
        <5>1. PICK none \in Seq(LineType) : none = <<>>
          BY <2>1
        <5>2. Final(R, none, f, i) = R /\ first = none \o <<Line("INST", "mov", bb, base, {})>>
          BY <2>1, <3>1, <5>1, Zenon
        <5>3. Final(R, none, f, i) \in RegFile /\ bb \in 0 .. 15
          BY <1>2, <5>2
        <5>4. /\ first \in Seq(LineType)
              /\ Wrote(Final(R, none, f, i), Final(R, first, f, i), bb, Final(R, none, f, i)[base])
          BY <4>1, <5>2, <5>3, MoveRun, Zenon
        <5>5. QED
          BY <5>2, <5>4
    <3>3. QED
      BY <3>2 DEF Wrote
  <2>3. CASE bb = base /\ first = <<>>
    BY <2>1, <2>3
  <2>4. QED
    BY <1>2, <2>2, <2>3
<1>5. PICK s1 : s1 = first \o Masking(set, bb, tmp, unset)
  OBVIOUS
<1>6. /\ s1 \in Seq(LineType) /\ Final(R, s1, f, i) \in RegFile
      /\ Final(R, s1, f, i)[bb].drift = 0
      /\ set_mask \subseteq Final(R, s1, f, i)[bb].ones /\ unset \subseteq Final(R, s1, f, i)[bb].zeros
  <2>1. /\ bb \in 0 .. 15 /\ tmp \in 0 .. 15 /\ bb # tmp /\ unset \in SUBSET Int
        /\ unset \cap set_mask = {}
    BY <1>2
  <2>2. s1 \in Seq(LineType) /\ Final(R, s1, f, i) \in RegFile /\ Based(Final(R, s1, f, i)[bb], unset)
    BY <1>4, <1>5, <2>1, MaskingEffect
  <2>3. QED
    BY <2>2 DEF Based
<1>7. Fixed(Final(R, s1, f, i)[bb], align)
  <2>1. PICK v \in Value : v = Final(R, s1, f, i)[bb]
    BY <1>2, <1>6 DEF RegFile
  <2>2. v.drift = 0 /\ set_mask \subseteq v.ones /\ unset \subseteq v.zeros
    BY <1>6, <2>1
  <2>3. InData(v) /\ (align => Aligned(v))
    BY <1>2, <1>3, <2>2 DEF InData, MemLimit, Aligned
  <2>4. QED
    BY <2>1, <2>2, <2>3 DEF Fixed
<1>8. PICK s2 : s2 = s1 \o aligned
  OBVIOUS
<1>9. s2 \in Seq(LineType) /\ Final(R, s2, f, i) \in RegFile /\ Fixed(Final(R, s2, f, i)[bb], align)
  <2>1. CASE align
    <3>1. s2 = s1 \o <<Line("INST", "bic", bb, bb, {0, 1})>> /\ {0, 1} \in SUBSET Int
      BY <1>2, <1>8, <2>1
    <3>2. /\ s2 \in Seq(LineType)
          /\ Wrote(Final(R, s1, f, i), Final(R, s2, f, i), bb, Clear(Final(R, s1, f, i)[bb], {0, 1}))
      BY <1>2, <1>6, <3>1, ClearRun, Zenon
    <3>3. /\ Final(R, s2, f, i) \in RegFile
          /\ Final(R, s2, f, i)[bb] = Clear(Final(R, s1, f, i)[bb], {0, 1})
      BY <3>2 DEF Wrote
    <3>4. QED
      BY <1>7, <3>2, <3>3, ClearLow DEF Fixed
  <2>2. CASE ~align
    <3>1. s2 = s1
      BY <1>2, <1>6, <1>8, <2>2
    <3>2. QED
      BY <1>6, <1>7, <3>1
  <2>3. QED
    BY <2>1, <2>2
<1>10. PICK s3 : s3 = s2 \o last
  OBVIOUS
<1>11. s3 \in Seq(LineType) /\ Final(R, s3, f, i) \in RegFile /\ Fixed(Final(R, s3, f, i)[base], align)
  <2>1. CASE last = <<Line("INST", "mov", base, bb, {})>>
    <3>1. s3 = s2 \o <<Line("INST", "mov", base, bb, {})>> /\ {} \in SUBSET Int
      BY <1>10, <2>1
    <3>2. s3 \in Seq(LineType) /\ Wrote(Final(R, s2, f, i), Final(R, s3, f, i), base, Final(R, s2, f, i)[bb])
      BY <1>2, <1>9, <3>1, MoveRun, Zenon
    <3>3. QED
      BY <1>9, <3>2 DEF Wrote
  <2>2. CASE bb = base /\ last = <<>>
    <3>1. s3 = s2
      BY <1>9, <1>10, <2>2
    <3>2. QED
      BY <1>9, <2>2, <3>1
  <2>3. QED
    BY <1>2, <2>1, <2>2
<1>12. QED
  BY <1>2, <1>5, <1>8, <1>10, <1>11, Zenon

-----------------------------------------------------------------------------
(* What parseRIT keeps of that code.                                        *)

\* parseRIT keeps the lines ks of ls.
Held(ls, ks) == /\ ls \in Seq(LineType) /\ ks \in Seq(LineType)
                /\ Ranked(ls) /\ Kept(ls) = ks

\* A CODE line is dropped ...
LEMMA HeldCode ==
  ASSUME NEW ls, NEW ks, Held(ls, ks), NEW l \in LineType, ~req.allow_fix, l.tag = "CODE"
  PROVE  Held(ls \o <<l>>, ks)
<1>1. ls \in Seq(LineType) /\ Ranked(ls) /\ ks \in Seq(LineType) /\ Kept(ls) = ks
  BY DEF Held
<1>2. Ranked(ls \o <<l>>) /\ Kept(ls \o <<l>>) = Kept(ls)
  BY <1>1, KeptDropped
<1>3. ls \o <<l>> \in Seq(LineType)
  BY <1>1
<1>4. QED
  BY <1>1, <1>2, <1>3 DEF Held

\* ... an INST line is kept ...
LEMMA HeldInst ==
  ASSUME NEW ls, NEW ks, Held(ls, ks), NEW l \in LineType, l.tag = "INST"
  PROVE  Held(ls \o <<l>>, ks \o <<l>>)
<1>1. ls \in Seq(LineType) /\ Ranked(ls) /\ ks \in Seq(LineType) /\ Kept(ls) = ks
  BY DEF Held
<1>2. Ranked(ls \o <<l>>) /\ Kept(ls \o <<l>>) = Kept(ls) \o <<l>> /\ Kept(ls \o <<l>>) \in Seq(LineType)
  BY <1>1, KeptLine
<1>3. ls \o <<l>> \in Seq(LineType)
  BY <1>1
<1>4. QED
  BY <1>1, <1>2, <1>3 DEF Held

\* ... and of no lines none is kept.
LEMMA HeldNone == Held(<<>>, <<>>)
<1>1. PICK none \in Seq(LineType) : none = <<>> /\ Len(none) = 0
  <2>1. <<>> \in Seq(LineType) /\ Len(<<>>) = 0
    OBVIOUS
  <2>2. QED
    BY <2>1, Zenon
<1>2. KeepSet(none) = {}
  <2>1. 1 .. Len(none) = {}
    BY <1>1
  <2>2. QED
    BY <2>1, Zenon DEF KeepSet
<1>3. Cardinality({}) = 0 /\ 1 .. 0 = {}
  BY FS_EmptySet
<1>4. Ranked(none)
  BY <1>2, <1>3, Zenon DEF Ranked
<1>5. Kept(none) = [j \in {} |-> none[CHOOSE k \in KeepSet(none) : Rank(KeepSet(none), k) = j]]
  BY <1>2, <1>3, KeptRank, Zenon
<1>6. \A g : [j \in {} |-> g[j]] = <<>>
  OBVIOUS
<1>7. Kept(none) = <<>>
  <2>1. Kept(none) = [j \in {} |-> Kept(none)[j]]
    BY <1>5
  <2>2. QED
    BY <1>6, <2>1
<1>8. QED
  BY <1>1, <1>4, <1>7, Zenon DEF Held

\* Two CODE lines are dropped.
LEMMA HeldPair ==
  ASSUME NEW ls, NEW ks, Held(ls, ks), NEW a \in LineType, NEW b \in LineType, ~req.allow_fix,
         a.tag = "CODE", b.tag = "CODE"
  PROVE  Held(ls \o <<a, b>>, ks)
<1>1. ls \in Seq(LineType)
  BY DEF Held
<1>2. PICK mid : mid = ls \o <<a>>
  OBVIOUS
<1>3. Held(mid, ks)
  BY <1>2, HeldCode
<1>4. Held(mid \o <<b>>, ks)
  BY <1>3, HeldCode
<1>5. mid \o <<b>> = ls \o <<a, b>>
  BY <1>1, <1>2, TwoLines
<1>6. QED
  BY <1>4, <1>5

\* The ARM code of a masking operation is dropped.
LEMMA HeldArm ==
  ASSUME NEW ls, NEW ks, Held(ls, ks), ~req.allow_fix,
         NEW o \in {"bic", "orr"}, NEW base \in 0 .. 15, NEW tmp \in 0 .. 15, NEW mask \in SUBSET Int
  PROVE  Held(ls \o ArmMask(o, base, tmp, mask), ks)
<1>1. PICK p \in {"bic_reg", "orr_reg"} : p = IF o = "bic" THEN "bic_reg" ELSE "orr_reg"
  OBVIOUS
<1>2. PICK one \in LineType : one = Line("CODE", o, base, base, mask) /\ one.tag = "CODE"
  <2>1. Line("CODE", o, base, base, mask) \in LineType
    BY MaskLines
  <2>2. Line("CODE", o, base, base, mask).tag = "CODE"
    BY DEF Line
  <2>3. QED
    BY <2>1, <2>2, Zenon
<1>3. PICK load \in LineType : load = Line("CODE", "ldr", tmp, tmp, mask) /\ load.tag = "CODE"
  <2>1. Line("CODE", "ldr", tmp, tmp, mask) \in LineType
    BY MaskLines
  <2>2. Line("CODE", "ldr", tmp, tmp, mask).tag = "CODE"
    BY DEF Line
  <2>3. QED
    BY <2>1, <2>2, Zenon
<1>4. PICK masks \in LineType : masks = Line("CODE", p, base, tmp, {}) /\ masks.tag = "CODE"
  <2>1. Line("CODE", p, base, tmp, {}) \in LineType
    BY <1>1, MaskLines
  <2>2. Line("CODE", p, base, tmp, {}).tag = "CODE"
    BY DEF Line
  <2>3. QED
    BY <2>1, <2>2, Zenon
<1>5. ArmMask(o, base, tmp, mask) = <<one>> \/ ArmMask(o, base, tmp, mask) = <<load, masks>>
  BY <1>1, <1>2, <1>3, <1>4, Zenon DEF ArmMask
<1>6. Held(ls \o <<one>>, ks)
  BY <1>2, HeldCode
<1>7. Held(ls \o <<load, masks>>, ks)
  BY <1>3, <1>4, HeldPair
<1>8. QED
  BY <1>5, <1>6, <1>7, Zenon

\* All of the masking is dropped.
LEMMA HeldMasking ==
  ASSUME NEW ls, NEW ks, Held(ls, ks), ~req.allow_fix, NEW set \in {ARM, THUMB},
         NEW base \in 0 .. 15, NEW tmp \in 0 .. 15, NEW unset \in SUBSET Int
  PROVE  Held(ls \o Masking(set, base, tmp, unset), ks)
<1>1. set_mask \in SUBSET Int
  BY DEF set_mask, mem_base_mask, mem_base_val
<1>2. ls \in Seq(LineType)
  BY DEF Held
<1>3. CASE set = THUMB
  <2>1. PICK l1 \in LineType : l1 = Line("CODE", "ldr", tmp, tmp, unset) /\ l1.tag = "CODE"
    <3>1. Line("CODE", "ldr", tmp, tmp, unset) \in LineType
      BY MaskLines
    <3>2. Line("CODE", "ldr", tmp, tmp, unset).tag = "CODE"
      BY DEF Line
    <3>3. QED
      BY <3>1, <3>2, Zenon
  <2>2. PICK l2 \in LineType : l2 = Line("CODE", "bic_reg", base, tmp, {}) /\ l2.tag = "CODE"
    <3>1. Line("CODE", "bic_reg", base, tmp, {}) \in LineType
      BY MaskLines
    <3>2. Line("CODE", "bic_reg", base, tmp, {}).tag = "CODE"
      BY DEF Line
    <3>3. QED
      BY <3>1, <3>2, Zenon
  <2>3. PICK l3 \in LineType : l3 = Line("CODE", "ldr", tmp, tmp, set_mask) /\ l3.tag = "CODE"
    <3>1. Line("CODE", "ldr", tmp, tmp, set_mask) \in LineType
      BY <1>1, MaskLines
    <3>2. Line("CODE", "ldr", tmp, tmp, set_mask).tag = "CODE"
      BY DEF Line
    <3>3. QED
      BY <3>1, <3>2, Zenon
  <2>4. PICK l4 \in LineType : l4 = Line("CODE", "orr_reg", base, tmp, {}) /\ l4.tag = "CODE"
    <3>1. Line("CODE", "orr_reg", base, tmp, {}) \in LineType
      BY MaskLines
    <3>2. Line("CODE", "orr_reg", base, tmp, {}).tag = "CODE"
      BY DEF Line
    <3>3. QED
      BY <3>1, <3>2, Zenon
  <2>5. Masking(set, base, tmp, unset) = <<l1, l2, l3, l4>>
    BY <1>3, <2>1, <2>2, <2>3, <2>4, Zenon DEF Masking
  <2>6. (ls \o <<l1, l2>>) \o <<l3, l4>> = ls \o <<l1, l2, l3, l4>>
    BY <1>2
  <2>7. PICK mid : mid = ls \o <<l1, l2>>
    OBVIOUS
  <2>8. Held(mid, ks)
    BY <2>1, <2>2, <2>7, HeldPair
  <2>9. Held(mid \o <<l3, l4>>, ks)
    BY <2>3, <2>4, <2>8, HeldPair
  <2>10. QED
    BY <2>5, <2>6, <2>7, <2>9, Zenon
<1>4. CASE set # THUMB
  <2>1. PICK one \in Seq(LineType) : one = ArmMask("bic", base, tmp, unset)
    BY ArmMaskSeq
  <2>2. PICK two \in Seq(LineType) : two = ArmMask("orr", base, tmp, set_mask)
    BY <1>1, ArmMaskSeq
  <2>3. Held(ls \o one, ks)
    BY <2>1, HeldArm
  <2>4. Held((ls \o one) \o two, ks)
    BY <1>1, <2>2, <2>3, HeldArm
  <2>5. (ls \o one) \o two = ls \o (one \o two)
    BY <1>2, ConcatAssociative
  <2>6. Masking(set, base, tmp, unset) = one \o two
    BY <1>4, <2>1, <2>2, Zenon DEF Masking
  <2>7. QED
    BY <2>4, <2>5, <2>6, Zenon
<1>5. QED
  BY <1>3, <1>4

\* The registers B hold addresses of the data, off by c moves at most.
Good(R, B, c) == R \in RegFile /\ \A r \in B : InData(R[r]) /\ R[r].drift <= c

\* Writing an address of the data to a register gives one register more.
LEMMA GoodWrote ==
  ASSUME NEW R, NEW B \in SUBSET (0 .. 15), NEW b \in Nat, Good(R, B, b), NEW Q, NEW d \in 0 .. 15, NEW v,
         Wrote(R, Q, d, v), InData(v), v.drift <= b
  PROVE  Good(Q, B \cup {d}, b)
BY DEF Good, Wrote

\* Fewer registers hold addresses as well.
LEMMA GoodLess ==
  ASSUME NEW R, NEW B, NEW b, Good(R, B, b), NEW A \in SUBSET B
  PROVE  Good(R, A, b)
BY DEF Good

\* What is kept of fix_mem_base leaves the bases in the data, and aligns
\* the one it is for.
LEMMA FixHeld ==
  ASSUME ~req.allow_fix, NEW R, NEW B \in SUBSET (0 .. 15), NEW b \in Nat, Good(R, B, b), NEW f, NEW i,
         NEW set \in {ARM, THUMB}, NEW base \in B, NEW align \in BOOLEAN
  PROVE  \E ks : /\ Held(fix_mem_base(set, base, align), ks)
                 /\ Good(Final(R, ks, f, i), B, b)
                 /\ align => Aligned(Final(R, ks, f, i)[base])
<1>0. base \in 0 .. 15 /\ {} \in SUBSET Int /\ {0, 1} \in SUBSET Int
  OBVIOUS
<1>1. PICK bb, tmp, unset, first, aligned, last :
        FixParts(set, base, align, bb, tmp, unset, first, aligned, last)
  BY <1>0, FixSplit
<1>2. /\ bb \in 0 .. 15 /\ tmp \in 0 .. 15 /\ unset \in SUBSET Int
      /\ \/ first = <<Line("INST", "mov", bb, base, {})>> /\ last = <<Line("INST", "mov", base, bb, {})>>
         \/ bb = base /\ first = <<>> /\ last = <<>>
      /\ aligned = IF align THEN <<Line("INST", "bic", bb, bb, {0, 1})>> ELSE <<>>
      /\ fix_mem_base(set, base, align) = first \o Masking(set, bb, tmp, unset) \o aligned \o last
  BY <1>1, Zenon DEF FixParts
<1>3. PICK into \in LineType : into = Line("INST", "mov", bb, base, {}) /\ into.tag = "INST"
  <2>1. R \in RegFile
    BY DEF Good
  <2>2. Line("INST", "mov", bb, base, {}) \in LineType
    BY <1>0, <1>2, <2>1, LineEffect
  <2>3. Line("INST", "mov", bb, base, {}).tag = "INST"
    BY DEF Line
  <2>4. QED
    BY <2>2, <2>3, Zenon
<1>4. PICK low \in LineType : low = Line("INST", "bic", bb, bb, {0, 1}) /\ low.tag = "INST"
  <2>1. R \in RegFile
    BY DEF Good
  <2>2. Line("INST", "bic", bb, bb, {0, 1}) \in LineType
    BY <1>0, <1>2, <2>1, LineEffect
  <2>3. Line("INST", "bic", bb, bb, {0, 1}).tag = "INST"
    BY DEF Line
  <2>4. QED
    BY <2>2, <2>3, Zenon
<1>5. PICK back \in LineType : back = Line("INST", "mov", base, bb, {}) /\ back.tag = "INST"
  <2>1. R \in RegFile
    BY DEF Good
  <2>2. Line("INST", "mov", base, bb, {}) \in LineType
    BY <1>0, <1>2, <2>1, LineEffect
  <2>3. Line("INST", "mov", base, bb, {}).tag = "INST"
    BY DEF Line
  <2>4. QED
    BY <2>2, <2>3, Zenon
<1>6. PICK C \in SUBSET (0 .. 15) : C = B \cup {bb}
  BY <1>2
<1>7. Held(first, first) /\ Good(Final(R, first, f, i), C, b)
  <2>1. PICK none \in Seq(LineType) : none = <<>>
    <3>1. <<>> \in Seq(LineType)
      OBVIOUS
    <3>2. QED
      BY <3>1, Zenon
  <2>2. Held(none, none) /\ Final(R, none, f, i) = R
    BY <2>1, HeldNone, FinalNone, Zenon
  <2>3. CASE first = <<Line("INST", "mov", bb, base, {})>>
    <3>1. first = none \o <<into>>
      <4>1. <<into>> = <<>> \o <<into>>
        OBVIOUS
      <4>2. QED
        BY <1>3, <2>1, <2>3, <4>1, Zenon
    <3>2. Held(first, first)
      BY <1>3, <2>2, <3>1, HeldInst
    <3>3. first = none \o <<Line("INST", "mov", bb, base, {})>> /\ Final(R, none, f, i) \in RegFile
      <4>1. first = none \o <<Line("INST", "mov", bb, base, {})>>
        BY <1>3, <2>2, <3>1, Zenon
      <4>2. Final(R, none, f, i) \in RegFile
        BY <2>2 DEF Good
      <4>3. QED
        BY <4>1, <4>2
    <3>4. Wrote(Final(R, none, f, i), Final(R, first, f, i), bb, Final(R, none, f, i)[base])
      BY <1>0, <1>2, <3>3, MoveRun, Zenon
    <3>5. Wrote(R, Final(R, first, f, i), bb, R[base]) /\ InData(R[base]) /\ R[base].drift <= b
      BY <2>2, <3>4 DEF Good
    <3>6. QED
      BY <1>2, <1>6, <3>2, <3>5, GoodWrote
  <2>4. CASE bb = base /\ first = <<>>
    <3>1. first = none /\ C = B
      BY <1>6, <2>1, <2>4
    <3>2. QED
      BY <2>2, <3>1
  <2>5. QED
    BY <1>2, <2>3, <2>4
<1>8. PICK s1 : s1 = first \o Masking(set, bb, tmp, unset)
  OBVIOUS
<1>9. Held(s1, first) /\ first \in Seq(LineType) /\ s1 \in Seq(LineType)
  <2>1. Held(s1, first)
    BY <1>2, <1>7, <1>8, HeldMasking
  <2>2. QED
    BY <2>1 DEF Held
<1>10. PICK s2 : s2 = s1 \o aligned
  OBVIOUS
<1>11. PICK k2 : /\ Held(s2, k2) /\ Good(Final(R, k2, f, i), C, b)
                 /\ align => Aligned(Final(R, k2, f, i)[bb])
  <2>1. CASE align
    <3>1. PICK k2 : k2 = first \o <<low>>
      OBVIOUS
    <3>2. s2 = s1 \o <<low>>
      BY <1>2, <1>4, <1>10, <2>1
    <3>3. Held(s2, k2)
      BY <1>4, <1>9, <3>1, <3>2, HeldInst
    <3>4. k2 = first \o <<Line("INST", "bic", bb, bb, {0, 1})>> /\ Final(R, first, f, i) \in RegFile
      <4>1. k2 = first \o <<Line("INST", "bic", bb, bb, {0, 1})>>
        BY <1>4, <1>7, <3>1, Zenon
      <4>2. Final(R, first, f, i) \in RegFile
        BY <1>4, <1>7, <3>1 DEF Good
      <4>3. QED
        BY <4>1, <4>2
    <3>5. Wrote(Final(R, first, f, i), Final(R, k2, f, i), bb, Clear(Final(R, first, f, i)[bb], {0, 1}))
      BY <1>0, <1>2, <1>9, <3>4, ClearRun
    <3>6. PICK v \in Value : v = Final(R, first, f, i)[bb] /\ InData(v) /\ v.drift <= b
      <4>1. Final(R, first, f, i)[bb] \in Value
        BY <1>2, <3>4 DEF RegFile
      <4>2. InData(Final(R, first, f, i)[bb]) /\ Final(R, first, f, i)[bb].drift <= b
        BY <1>6, <1>7 DEF Good
      <4>3. QED
        BY <4>1, <4>2, Zenon
    <3>7. PICK u : u = Clear(v, {0, 1})
      OBVIOUS
    <3>8. u.drift = v.drift /\ Aligned(u) /\ InData(u)
      BY <3>6, <3>7, ClearLow
    <3>9. Wrote(Final(R, first, f, i), Final(R, k2, f, i), bb, u) /\ u.drift <= b
      BY <3>5, <3>6, <3>7, <3>8
    <3>10. C \cup {bb} = C
      BY <1>6
    <3>11. Good(Final(R, k2, f, i), C, b)
      <4>1. Good(Final(R, k2, f, i), C \cup {bb}, b)
        BY <1>2, <1>7, <3>8, <3>9, GoodWrote
      <4>2. QED
        BY <3>10, <4>1, Zenon
    <3>12. Final(R, k2, f, i)[bb] = u
      BY <3>9 DEF Wrote
    <3>13. QED
      BY <3>3, <3>8, <3>11, <3>12
  <2>2. CASE ~align
    <3>1. s2 = s1
      BY <1>2, <1>9, <1>10, <2>2
    <3>2. QED
      BY <1>7, <1>9, <2>2, <3>1
  <2>3. QED
    BY <2>1, <2>2
<1>12. PICK s3 : s3 = s2 \o last
  OBVIOUS
<1>13. \E ks : /\ Held(s3, ks) /\ Good(Final(R, ks, f, i), B, b)
               /\ align => Aligned(Final(R, ks, f, i)[base])
  <2>1. k2 \in Seq(LineType) /\ s2 \in Seq(LineType)
    BY <1>11 DEF Held
  <2>2. CASE last = <<Line("INST", "mov", base, bb, {})>>
    <3>1. PICK k3 : k3 = k2 \o <<back>>
      OBVIOUS
    <3>2. s3 = s2 \o <<back>>
      BY <1>5, <1>12, <2>2
    <3>3. Held(s3, k3)
      BY <1>5, <1>11, <3>1, <3>2, HeldInst
    <3>4. k3 = k2 \o <<Line("INST", "mov", base, bb, {})>> /\ Final(R, k2, f, i) \in RegFile
      <4>1. k3 = k2 \o <<Line("INST", "mov", base, bb, {})>>
        BY <1>5, <1>11, <3>1, Zenon
      <4>2. Final(R, k2, f, i) \in RegFile
        BY <1>11 DEF Good
      <4>3. QED
        BY <4>1, <4>2
    <3>5. Wrote(Final(R, k2, f, i), Final(R, k3, f, i), base, Final(R, k2, f, i)[bb])
      BY <1>0, <1>2, <2>1, <3>4, MoveRun, Zenon
    <3>6. InData(Final(R, k2, f, i)[bb]) /\ Final(R, k2, f, i)[bb].drift <= b
      BY <1>6, <1>11 DEF Good
    <3>7. Good(Final(R, k3, f, i), C \cup {base}, b)
      BY <1>0, <1>11, <3>5, <3>6, GoodWrote
    <3>8. Good(Final(R, k3, f, i), B, b)
      BY <1>6, <3>7 DEF Good
    <3>9. Final(R, k3, f, i)[base] = Final(R, k2, f, i)[bb]
      BY <3>5 DEF Wrote
    <3>10. QED
      BY <1>11, <3>3, <3>8, <3>9
  <2>3. CASE bb = base /\ last = <<>>
    <3>1. s3 = s2 /\ C = B
      BY <1>6, <1>12, <2>1, <2>3
    <3>2. QED
      BY <1>11, <2>3, <3>1
  <2>4. QED
    BY <1>2, <2>2, <2>3
<1>14. QED
  BY <1>2, <1>8, <1>10, <1>12, <1>13, Zenon

-----------------------------------------------------------------------------
(* The code before a word, and the word.                                    *)

\* The registers when the word of an access runs.
Ready(Q, f, i, b) ==
  /\ Q \in RegFile
  /\ InData(Q[Base(f, i)]) /\ Q[Base(f, i)].drift <= b
  /\ ForceAlign(f) => Aligned(Q[Base(f, i)])
  /\ OffsetReg(f) => Q[i.m] = Within(OffsetMask(f, i))

\* The mask of the offset register is a mask of a word.
LEMMA MaskType ==
  ASSUME NEW f, NEW i \in Words
  PROVE  OffsetMask(f, i) \in SUBSET Int
<1>1. Amount(i.sh) \in (0 .. 3) \X (0 .. 32)
  BY DEF Amount, Words
<1>2. shift_mask(Amount(i.sh)) \in SUBSET Int
  BY <1>1 DEF shift_mask, Word32
<1>3. QED
  BY <1>2 DEF OffsetMask

\* The parts of the code before a word.
LEMMA PrefixSplit ==
  ASSUME NEW f \in Forms, HasBase(f), NEW i \in Words, i.n \in 0 .. 15, i.m \in 0 .. 15, NEW set
  PROVE  /\ Base(f, i) \in 0 .. 15 /\ ForceAlign(f) \in BOOLEAN
         /\ OffsetReg(f) => Prefix(f, i, set, "VALID")
                              = fix_mem_base(set, Base(f, i), ForceAlign(f)) \o <<Line("INST", "ldr", i.m, i.m, OffsetMask(f, i))>>
         /\ ~OffsetReg(f) => Prefix(f, i, set, "VALID") = fix_mem_base(set, Base(f, i), ForceAlign(f)) \o <<>>
<1>1. Base(f, i) \in 0 .. 15 /\ ForceAlign(f) \in BOOLEAN
  BY DEF Base, ForceAlign
<1>2. "VALID" # "UNSUPPORTED"
  OBVIOUS
<1>3. QED
  BY <1>1, <1>2, Zenon DEF Prefix, OffsetLine

\* With the code of fix_mem_base in place, the base of an access is an
\* address of the data and the offset register has the bits of its mask when
\* the word runs: loading the offset does not overwrite the base.
LEMMA RunFixed ==
  ASSUME NEW f \in Forms, HasBase(f), NEW i \in Words, i.n \in 0 .. 15, i.m \in 0 .. 15,
         OffsetReg(f) => i.m # Base(f, i), NEW set \in {ARM, THUMB},
         NEW R \in RegFile, \A r \in 0 .. 15 : R[r].drift = 0, NEW e
  PROVE  /\ Prefix(f, i, set, "VALID") \in Seq(LineType)
         /\ Ready(Final(R, Prefix(f, i, set, "VALID"), f, e), f, i, 0)
<1>1. PICK base \in 0 .. 15, align \in BOOLEAN : base = Base(f, i) /\ align = ForceAlign(f)
  BY PrefixSplit
<1>2. PICK fix : fix = fix_mem_base(set, base, align)
  OBVIOUS
<1>3. fix \in Seq(LineType) /\ Final(R, fix, f, e) \in RegFile /\ Fixed(Final(R, fix, f, e)[base], align)
  BY <1>2, FixEffect
<1>4. CASE OffsetReg(f)
  <2>1. PICK mask \in SUBSET Int : mask = OffsetMask(f, i)
    BY MaskType
  <2>2. PICK ls : ls = Prefix(f, i, set, "VALID") /\ ls = fix \o <<Line("INST", "ldr", i.m, i.m, mask)>>
    <3>1. Prefix(f, i, set, "VALID")
            = fix_mem_base(set, Base(f, i), ForceAlign(f)) \o <<Line("INST", "ldr", i.m, i.m, OffsetMask(f, i))>>
      BY <1>4, PrefixSplit, Zenon
    <3>2. QED
      BY <1>1, <1>2, <2>1, <3>1, Zenon
  <2>3. ls \in Seq(LineType) /\ Wrote(Final(R, fix, f, e), Final(R, ls, f, e), i.m, Within(mask))
    BY <1>3, <2>2, LoadRun
  <2>4. /\ Final(R, ls, f, e) \in RegFile /\ Final(R, ls, f, e)[i.m] = Within(mask)
        /\ Final(R, ls, f, e)[base] = Final(R, fix, f, e)[base]
    BY <1>1, <1>4, <2>3 DEF Wrote
  <2>5. Fixed(Final(R, ls, f, e)[base], align)
    BY <1>3, <2>4
  <2>6. Ready(Final(R, ls, f, e), f, i, 0)
    BY <1>1, <2>1, <2>4, <2>5 DEF Fixed, Ready
  <2>7. QED
    BY <2>2, <2>3, <2>6
<1>5. CASE ~OffsetReg(f)
  <2>1. Prefix(f, i, set, "VALID") = fix
    <3>1. Prefix(f, i, set, "VALID") = fix \o <<>>
      BY <1>1, <1>2, <1>5, PrefixSplit, Zenon
    <3>2. QED
      BY <1>3, <3>1
  <2>2. Ready(Final(R, fix, f, e), f, i, 0)
    BY <1>1, <1>3, <1>5 DEF Fixed, Ready
  <2>3. QED
    BY <1>3, <2>1, <2>2
<1>6. QED
  BY <1>4, <1>5

\* With that code dropped, in a block that was given its bases, the lines
\* that are kept leave the bases in the data, and the offset register has
\* the bits of its mask.
LEMMA RunHeld ==
  ASSUME ~req.allow_fix, NEW f \in Forms, NEW i \in Words, i.n \in 0 .. 15, i.m \in 0 .. 15,
         NEW set \in {ARM, THUMB}, NEW B \in SUBSET (0 .. 15), NEW b \in Nat, NEW R, Good(R, B, b), NEW e,
         HasBase(f) => Base(f, i) \in B, OffsetReg(f) => i.m \notin B
  PROVE  \E ks : /\ Held(Prefix(f, i, set, "VALID"), ks) /\ Good(Final(R, ks, f, e), B, b)
                 /\ HasBase(f) => Ready(Final(R, ks, f, e), f, i, b)
<1>1. CASE HasBase(f)
  <2>1. PICK base \in B, align \in BOOLEAN : base = Base(f, i) /\ align = ForceAlign(f)
    BY <1>1, PrefixSplit
  <2>2. PICK fix : fix = fix_mem_base(set, base, align)
    OBVIOUS
  <2>3. PICK ks : /\ Held(fix, ks) /\ Good(Final(R, ks, f, e), B, b)
                  /\ align => Aligned(Final(R, ks, f, e)[base])
    BY <2>2, FixHeld
  <2>4. fix \in Seq(LineType) /\ ks \in Seq(LineType)
    BY <2>3 DEF Held
  <2>5. CASE OffsetReg(f)
    <3>1. PICK mask \in SUBSET Int : mask = OffsetMask(f, i)
      BY MaskType
    <3>2. PICK load \in LineType : load = Line("INST", "ldr", i.m, i.m, mask) /\ load.tag = "INST"
      <4>1. Final(R, ks, f, e) \in RegFile
        BY <2>3 DEF Good
      <4>2. Line("INST", "ldr", i.m, i.m, mask) \in LineType
        BY <4>1, LineEffect
      <4>3. Line("INST", "ldr", i.m, i.m, mask).tag = "INST"
        BY DEF Line
      <4>4. QED
        BY <4>2, <4>3, Zenon
    <3>3. PICK ls : ls = Prefix(f, i, set, "VALID") /\ ls = fix \o <<load>>
      <4>1. Prefix(f, i, set, "VALID")
              = fix_mem_base(set, Base(f, i), ForceAlign(f)) \o <<Line("INST", "ldr", i.m, i.m, OffsetMask(f, i))>>
        BY <1>1, <2>5, PrefixSplit, Zenon
      <4>2. QED
        BY <2>1, <2>2, <3>1, <3>2, <4>1, Zenon
    <3>4. PICK more : more = ks \o <<load>>
      OBVIOUS
    <3>5. Held(ls, more)
      BY <2>3, <3>2, <3>3, <3>4, HeldInst
    <3>6. Wrote(Final(R, ks, f, e), Final(R, more, f, e), i.m, Within(mask))
      <4>1. Final(R, ks, f, e) \in RegFile /\ more = ks \o <<Line("INST", "ldr", i.m, i.m, mask)>>
        BY <2>3, <3>2, <3>4 DEF Good
      <4>2. QED
        BY <2>4, <4>1, LoadRun
    <3>7. Good(Final(R, more, f, e), B, b)
      <4>1. \A r \in B : Final(R, more, f, e)[r] = Final(R, ks, f, e)[r]
        BY <2>5, <3>6 DEF Wrote
      <4>2. QED
        BY <2>3, <3>6, <4>1 DEF Good, Wrote
    <3>8. Ready(Final(R, more, f, e), f, i, b)
      <4>1. /\ Final(R, more, f, e) \in RegFile /\ Final(R, more, f, e)[i.m] = Within(mask)
            /\ Final(R, more, f, e)[base] = Final(R, ks, f, e)[base]
        BY <2>5, <3>6 DEF Wrote
      <4>2. InData(Final(R, more, f, e)[base]) /\ Final(R, more, f, e)[base].drift <= b
        BY <3>7 DEF Good
      <4>3. QED
        BY <2>1, <2>3, <3>1, <4>1, <4>2 DEF Ready
    <3>9. QED
      BY <3>3, <3>5, <3>7, <3>8
  <2>6. CASE ~OffsetReg(f)
    <3>1. Prefix(f, i, set, "VALID") = fix
      <4>1. Prefix(f, i, set, "VALID") = fix \o <<>>
        BY <1>1, <2>1, <2>2, <2>6, PrefixSplit, Zenon
      <4>2. QED
        BY <2>4, <4>1
    <3>2. Ready(Final(R, ks, f, e), f, i, b)
      BY <2>1, <2>3, <2>6 DEF Ready, Good
    <3>3. QED
      BY <2>3, <3>1, <3>2
  <2>7. QED
    BY <2>5, <2>6
<1>2. CASE ~HasBase(f)
  <2>1. Prefix(f, i, set, "VALID") = <<>>
    BY <1>2, Zenon DEF Prefix
  <2>2. Final(R, <<>>, f, e) = R
    BY FinalNone
  <2>3. Held(Prefix(f, i, set, "VALID"), <<>>) /\ Good(Final(R, <<>>, f, e), B, b)
    BY <2>1, <2>2, HeldNone, Zenon
  <2>4. QED
    BY <1>2, <2>3, Zenon
<1>3. QED
  BY <1>1, <1>2

\* A word that loads none of the bases moves them by one writeback at most.
LEMMA WordRun ==
  ASSUME NEW Q, NEW B \in SUBSET (0 .. 15), NEW b \in Nat, Good(Q, B, b), NEW f, NEW i,
         Loads(f, i) \cap B = {}
  PROVE  Good(Executed(Q, TheWord, f, i), B, b + 1)
<1>1. Q \in RegFile /\ DOMAIN Q = 0 .. 15
  BY DEF Good, RegFile
<1>2. Executed(Q, TheWord, f, i)
        = [r \in 0 .. 15 |-> IF r \in Loads(f, i) THEN Unknown
                             ELSE IF r \in Writes(f, i) THEN Moved(Q[r]) ELSE Q[r]]
  <2>1. TheWord.op = "word"
    BY DEF TheWord, Line
  <2>2. QED
    BY <1>1, <2>1, Zenon DEF Executed
<1>3. ASSUME NEW r \in 0 .. 15
      PROVE  Q[r] \in Value /\ Moved(Q[r]) \in Value /\ Unknown \in Value
  <2>1. Q[r] \in Value /\ {} \in SUBSET Int
    BY <1>1 DEF RegFile
  <2>2. QED
    BY <2>1, ValueOps
<1>4. Executed(Q, TheWord, f, i) \in RegFile
  BY <1>2, <1>3 DEF RegFile
<1>5. ASSUME NEW r \in B
      PROVE  InData(Executed(Q, TheWord, f, i)[r]) /\ Executed(Q, TheWord, f, i)[r].drift <= b + 1
  <2>1. PICK v \in Value : v = Q[r]
    BY <1>3
  <2>2. InData(v) /\ v.drift <= b /\ v.drift \in Nat
    BY <2>1 DEF Good, Value
  <2>3. Executed(Q, TheWord, f, i)[r] = IF r \in Writes(f, i) THEN Moved(v) ELSE v
    BY <1>2, <2>1
  <2>4. InData(Moved(v)) /\ Moved(v).drift = v.drift + 1
    BY <2>2 DEF InData, Moved, MemLimit
  <2>5. QED
    BY <2>2, <2>3, <2>4
<1>6. QED
  BY <1>4, <1>5 DEF Good

\* An offset register with the bits of its mask gives an offset of 12 bits,
\* as get_rand_mem_offset makes a rotation through carry conditional on
\* carry clear.
LEMMA OffsetTwelve ==
  ASSUME NEW f, NEW i \in Words, i.sh \in ShiftSample(f), OffsetReg(f),
         Shifted(f) /\ i.sh = RRX => i.c = 3
  PROVE  ShiftedBits(Amount(i.sh), Word32 \ Within(OffsetMask(f, i)).zeros, i.c # 3) \subseteq 0 .. 11
<1>1. PICK M : M = OffsetMask(f, i)
  OBVIOUS
<1>2. Within(M).zeros = Word32 \ M
  BY DEF Within
<1>3. CASE Shifted(f)
  <2>1. i.sh \in (0 .. 3) \X (0 .. 32) /\ M = shift_mask(Amount(i.sh))
    BY <1>1, <1>3 DEF OffsetMask, Words
  <2>2. M \subseteq Word32 /\ ShiftedBits(Amount(i.sh), M, FALSE) \subseteq 0 .. 11
    BY <2>1, OffsetSmall
  <2>3. Word32 \ Within(M).zeros = M
    BY <1>2, <2>2
  <2>4. ShiftedBits(Amount(i.sh), M, i.c # 3) = ShiftedBits(Amount(i.sh), M, FALSE)
    <3>1. CASE i.sh = RRX
      <4>1. (i.c # 3) = FALSE
        BY <1>3, <3>1
      <4>2. QED
        BY <4>1
    <3>2. CASE i.sh # RRX
      <4>1. PICK y \in 0 .. 3, c \in 0 .. 32 : Amount(i.sh) = <<y, c>> /\ ~(y = 3 /\ c = 0)
        BY <2>1, <3>2 DEF Amount, RRX
      <4>2. \A g \in BOOLEAN : ShiftedBits(<<y, c>>, M, g) = ShiftedBits(<<y, c>>, M, FALSE)
        BY <4>1 DEF ShiftedBits
      <4>3. QED
        BY <4>1, <4>2
    <3>3. QED
      BY <3>1, <3>2
  <2>5. QED
    BY <1>1, <2>2, <2>3, <2>4
<1>4. CASE ~Shifted(f)
  <2>1. i.sh = <<0, 0>> /\ M \subseteq 0 .. 11
    BY <1>1, <1>4 DEF ShiftSample, OffsetMask
  <2>2. Amount(i.sh) = <<0, 0>>
    BY <2>1 DEF Amount
  <2>3. Word32 \ Within(M).zeros = M
    <3>1. M \subseteq Word32
      BY <2>1 DEF Word32
    <3>2. QED
      BY <1>2, <3>1
  <2>4. ShiftedBits(<<0, 0>>, M, i.c # 3) \subseteq 0 .. 11
    BY <2>1 DEF ShiftedBits, Word32
  <2>5. QED
    BY <1>1, <2>2, <2>3, <2>4
<1>5. QED
  BY <1>3, <1>4

-----------------------------------------------------------------------------
(* The operands of a word.                                                  *)

\* The shift and the registers of a word are among those its form can have.
Sampled(f, i) == i.sh \in ShiftSample(f) /\ i.n \in 0 .. 15 /\ i.m \in 0 .. 15

\* Registers B are the bases of a block: the word uses one of them as its
\* base, none as its offset, and loads none.
Placed(f, i, B) ==
  /\ HasBase(f) => Base(f, i) \in B
  /\ OffsetReg(f) => i.m \notin B
  /\ Loads(f, i) \cap B = {}

\* The condition field does not matter for the code before a word, nor for
\* the registers it uses.
LEMMA CondAside ==
  ASSUME NEW f \in Forms, NEW i \in Words, NEW c \in 0 .. 14, NEW j, j = [i EXCEPT !.c = c]
  PROVE  /\ Base(f, j) = Base(f, i) /\ j.m = i.m /\ j.sh = i.sh
         /\ \A set, st : Prefix(f, j, set, st) = Prefix(f, i, set, st)
         /\ Sampled(f, i) => Sampled(f, j)
         /\ \A B : Placed(f, i, B) => Placed(f, j, B)
<1>1. /\ \A k \in {"t", "n", "m", "a", "list", "P", "W"} : j[k] = i[k]
      /\ j.t = i.t /\ j.n = i.n /\ j.m = i.m /\ j.list = i.list /\ j.sh = i.sh
  BY DEF Words
<1>2. OutputFields(f) \subseteq {"t", "m", "a"}
  BY DEF OutputFields
<1>3. {j[k] : k \in OutputFields(f)} = {i[k] : k \in OutputFields(f)}
  BY <1>1, <1>2
<1>4. Loads(f, j) = Loads(f, i)
  BY <1>1, <1>3 DEF Loads
<1>5. Base(f, j) = Base(f, i)
  BY <1>1 DEF Base
<1>6. OffsetMask(f, j) = OffsetMask(f, i)
  <2>1. j.sh = i.sh
    BY <1>1
  <2>2. QED
    BY <2>1 DEF OffsetMask
<1>7. ASSUME NEW set, NEW st
      PROVE  Prefix(f, j, set, st) = Prefix(f, i, set, st)
  <2>1. j.m = i.m
    BY <1>1
  <2>2. OffsetLine(f, j) = OffsetLine(f, i)
    BY <1>6, <2>1, Zenon DEF OffsetLine
  <2>3. QED
    BY <1>5, <2>2, Zenon DEF Prefix
<1>8. QED
  BY <1>1, <1>4, <1>5, <1>7 DEF Sampled, Placed

\* The operands of a drawn word are among those of its form.
LEMMA OperandsSampled ==
  ASSUME NEW f \in Forms, NEW skip, NEW i \in Operands(f, skip)
  PROVE  Sampled(f, i)
<1> DEFINE S == RegSample(f)
<1>1. S \subseteq 0 .. 15
  BY SampleAssumption DEF RegSample
<1>2. i.n \in S \cup {0, 13} /\ i.m \in S \cup {0} /\ i.sh \in ShiftSample(f)
  BY DEF Operands
<1>3. QED
  BY <1>1, <1>2 DEF Sampled

\* The register fields update_instr_reg_opnd writes, and those it leaves.
LEMMA UpdateFields ==
  ASSUME NEW f, NEW i \in Words, NEW F \in SUBSET {"t", "n", "m", "a"},
         NEW class \in RegClasses, NEW j \in update_instr_reg_opnd(f, i, F, class)
  PROVE  /\ \A k \in F : \E r \in Members(class) : j[k] = IF Low(f) THEN r % 8 ELSE r
         /\ \A k \in {"t", "n", "m", "a", "sh"} \ F : j[k] = i[k]
         /\ Members(class) \subseteq 0 .. 15
<1>1. Members(class) \subseteq 0 .. 15
  BY SampleAssumption DEF Members, RegClasses
<1>2. PICK draw \in [F -> Members(class)] :
        j = [k \in DOMAIN i |->
               IF k \in F THEN (IF Low(f) THEN draw[k] % 8 ELSE draw[k]) ELSE i[k]]
  BY DEF update_instr_reg_opnd
<1>3. DOMAIN i = {"t", "n", "m", "a", "P", "W", "S", "x", "list", "sh", "c"}
  BY DEF Words
<1>4. \A k \in F : j[k] = IF Low(f) THEN draw[k] % 8 ELSE draw[k]
  BY <1>2, <1>3
<1>5. \A k \in {"t", "n", "m", "a", "sh"} \ F : j[k] = i[k]
  BY <1>2, <1>3
<1>6. QED
  BY <1>1, <1>2, <1>4, <1>5

\* update_instr_reg_opnd keeps this ...
LEMMA UpdateSampled ==
  ASSUME NEW f, NEW i \in Words, Sampled(f, i), NEW F \in SUBSET {"t", "n", "m", "a"},
         NEW class \in RegClasses, NEW j \in update_instr_reg_opnd(f, i, F, class)
  PROVE  Sampled(f, j)
<1>1. /\ \A k \in F : \E r \in Members(class) : j[k] = IF Low(f) THEN r % 8 ELSE r
      /\ \A k \in {"t", "n", "m", "a", "sh"} \ F : j[k] = i[k]
      /\ Members(class) \subseteq 0 .. 15
  BY UpdateFields
<1>2. \A k \in F : j[k] \in 0 .. 15
  <2>1. \A r \in 0 .. 15 : r % 8 \in 0 .. 15
    OBVIOUS
  <2>2. QED
    BY <1>1, <2>1
<1>3. i["n"] \in 0 .. 15 /\ i["m"] \in 0 .. 15 /\ i["sh"] \in ShiftSample(f)
  BY DEF Sampled
<1>4. j["n"] \in 0 .. 15 /\ j["m"] \in 0 .. 15 /\ j["sh"] = i["sh"]
  BY <1>1, <1>2, <1>3
<1>5. QED
  BY <1>3, <1>4 DEF Sampled

\* ... so does writing the source registers ...
LEMMA SrcSampled ==
  ASSUME NEW f \in Forms, NEW i, Encoded(f, i), Sampled(f, i), NEW src \in Classes, NEW j \in SetSrc(f, i, src)
  PROVE  Sampled(f, j)
<1>0. i \in Words
  BY DEF Encoded
<1>1. CASE src = "R_DEFAULT"
  BY <1>1 DEF SetSrc
<1>2. CASE src \in RegClasses /\ j \in set_mem_src_reg(f, i, src)
  <2> DEFINE based == IF RegBase(f) THEN update_instr_reg_opnd(f, i, {"n"}, src) ELSE {i}
  <2>1. \A b \in based : Sampled(f, b) /\ b \in Words
    <3>1. ASSUME NEW b \in update_instr_reg_opnd(f, i, {"n"}, src)
          PROVE  Sampled(f, b) /\ b \in Words
      BY <1>0, <1>2, UpdateSampled, UpdateEncoded DEF Encoded
    <3>2. QED
      BY <1>0, <3>1
  <2>2. CASE j \in based
    BY <2>1, <2>2
  <2>3. CASE \E b \in based : j = [b EXCEPT !.list = b.list \ ClearedBits(f, src)]
    BY <2>1, <2>3 DEF Sampled, Words
  <2>4. CASE \E b \in based : j \in update_instr_reg_opnd(f, b, {"m"}, r_offset(src))
    <3>1. r_offset(src) \in RegClasses
      BY DEF r_offset, RegClasses
    <3>2. PICK b \in based : j \in update_instr_reg_opnd(f, b, {"m"}, r_offset(src))
      BY <2>4
    <3>3. QED
      BY <2>1, <3>1, <3>2, UpdateSampled
  <2>5. QED
    BY <1>2, <2>2, <2>3, <2>4 DEF set_mem_src_reg
<1>3. CASE src \in RegClasses /\ j \in AddToList(f, i, src)
  BY <1>0, <1>3 DEF AddToList, Sampled, Words
<1>4. CASE src \in RegClasses /\ j \in update_instr_reg_opnd(f, i, InputFields(f), src)
  <2>1. InputFields(f) \in SUBSET {"t", "n", "m", "a"}
    BY DEF InputFields
  <2>2. QED
    BY <1>0, <1>4, <2>1, UpdateSampled
<1>5. QED
  BY <1>1, <1>2, <1>3, <1>4 DEF SetSrc, Classes

\* ... and the destination registers ...
LEMMA DstSampled ==
  ASSUME NEW f \in Forms, NEW i, Encoded(f, i), Sampled(f, i), NEW dst \in Classes, NEW j \in SetDst(f, i, dst)
  PROVE  Sampled(f, j)
<1>0. i \in Words
  BY DEF Encoded
<1>1. CASE dst = "R_DEFAULT"
  BY <1>1 DEF SetDst
<1>2. CASE dst \in RegClasses /\ j \in AddToList(f, i, dst)
  BY <1>0, <1>2 DEF AddToList, Sampled, Words
<1>3. CASE dst \in RegClasses /\ \E u \in update_instr_reg_opnd(f, i, OutputFields(f), dst) :
                                     j = EvenPair(f, u, dst)
  <2>1. OutputFields(f) \in SUBSET {"t", "n", "m", "a"}
    BY DEF OutputFields
  <2>2. PICK u \in update_instr_reg_opnd(f, i, OutputFields(f), dst) : j = EvenPair(f, u, dst)
    BY <1>3
  <2>3. Sampled(f, u) /\ u \in Words
    BY <1>0, <1>3, <2>1, <2>2, UpdateSampled, UpdateEncoded DEF Encoded
  <2>4. QED
    BY <2>2, <2>3 DEF EvenPair, Sampled, Words
<1>4. QED
  BY <1>1, <1>2, <1>3 DEF SetDst, Classes

\* ... and so preprocess_instr.
LEMMA PreprocessSampled ==
  ASSUME NEW f \in Forms, NEW i, Encoded(f, i), Sampled(f, i), NEW src \in Classes, NEW dst \in Classes,
         NEW j \in preprocess_instr(f, i, src, dst)
  PROVE  Sampled(f, j)
<1>1. PICK u \in SetSrc(f, i, src) : j \in SetDst(f, u, dst)
  BY DEF preprocess_instr
<1>2. Encoded(f, u) /\ Sampled(f, u)
  BY <1>1, SrcEncoded, SrcSampled
<1>3. QED
  BY <1>1, <1>2, DstSampled

\* A VALID access does not use its base as the offset too: the code that
\* loads the offset would overwrite it.
LEMMA ValidOffset ==
  ASSUME NEW f \in Forms, NEW i, OffsetReg(f), gen_status(f, i) = "VALID"
  PROVE  i.m # Base(f, i)
<1>1. f.v \in Variants[f.gen] /\ f.gen \in DOMAIN Variants
  BY FormVariant
<1>2. f # NA
  BY NoForm
<1>3. Base(f, i) = i.n
  BY DEF Base, OffsetReg, SpBase
<1>4. CASE f.gen = "ld_reg"
  BY <1>2, <1>3, <1>4 DEF gen_status, gen_arm_instr, T16Gens, T32Gens, ld_reg, Verdict
<1>5. CASE f.gen = "ld_unpriv_reg"
  BY <1>2, <1>3, <1>5 DEF gen_status, gen_arm_instr, T16Gens, T32Gens, ld_unpriv_reg, Verdict
<1>6. CASE f.gen = "st_reg"
  BY <1>2, <1>3, <1>6 DEF gen_status, gen_arm_instr, T16Gens, T32Gens, st_reg, Verdict
<1>7. CASE f.gen = "st_unpriv_reg"
  BY <1>2, <1>3, <1>7 DEF gen_status, gen_arm_instr, T16Gens, T32Gens, st_unpriv_reg, Verdict
<1>8. CASE f.gen = "thumb32_mem_reg"
  BY <1>2, <1>3, <1>8 DEF gen_status, gen_thumb32_instr, T16Gens, T32Gens, thumb32_mem_reg, Verdict
<1>9. CASE f.gen = "thumb_mem"
  BY <1>2, <1>3, <1>9 DEF gen_status, gen_thumb_instr, T16Gens, thumb_mem, Verdict, OffsetReg
<1>10. QED
  BY <1>4, <1>5, <1>6, <1>7, <1>8, <1>9 DEF OffsetReg

\* The registers of the classes genMemInstrs gives an address to.
ClassOf(src) == IF src = "R_0_3" THEN 0 .. 3 ELSE 4 .. 7

\* A load of a register or two: the fields it has, and that a VALID double
\* load names an even register below r14.
LEMMA LoadForms ==
  ASSUME NEW f \in Forms, Kind(f) = "LD_OP"
  PROVE  /\ ~HasList(f) /\ ~Compares(f) /\ f.gen # "thumb32_st_imm"
         /\ OutputFields(f) \in {{"t"}, {"t", "a"}}
         /\ SpBase(f) => InstrSet(f) = THUMB
         /\ Low(f) => InstrSet(f) = THUMB
         /\ InstrSet(f) = ARM => OutputFields(f) = {"t"}
         /\ LoadsNext(f) => f.gen \in {"ld_imm", "ld_reg", "ld_lit"} /\ f.v = "LDRD"
         /\ \A i \in Words : LoadsNext(f) /\ gen_status(f, i) = "VALID" => ~Odd(i.t) /\ i.t # 14
<1>1. f.gen \in DOMAIN Variants /\ f.v \in Variants[f.gen] /\ f # NA
  BY FormVariant, NoForm
<1>2. f.gen \in {"thumb_multi_mem", "thumb32_multi_mem"} => f.v \in {"LDM", "STM", "POP", "PUSH"}
  BY <1>1 DEF Variants
<1>3. f.gen \in {"ld_imm", "ld_unpriv_imm", "ld_reg", "ld_unpriv_reg", "ld_lit", "thumb32_mem_lit",
                 "thumb_mem", "thumb32_mem_reg", "thumb32_ld_imm"}
      /\ (f.gen = "thumb32_ld_imm" => f.v # "POP")
  BY <1>2 DEF Kind
<1>4. /\ ~HasList(f) /\ ~Compares(f) /\ f.gen # "thumb32_st_imm"
      /\ SpBase(f) => InstrSet(f) = THUMB
      /\ Low(f) => InstrSet(f) = THUMB
  BY <1>3 DEF HasList, Compares, SpBase, InstrSet, T16Gens, T32Gens, Low
<1>5. OutputFields(f) \in {{"t"}, {"t", "a"}} /\ (InstrSet(f) = ARM => OutputFields(f) = {"t"})
  <2>1. Kind(f) \notin {"ST_OP", "STM_OP", "PUSH_OP"} /\ f.gen \notin {"stex", "thumb32_mem_ex", "mul", "thumb32_data_mul"}
    BY <1>3
  <2>2. OutputFields(f) = IF f.gen \in {"thumb32_ld_imm", "thumb32_mem_lit"} /\ f.v = "LDRD" THEN {"t", "a"} ELSE {"t"}
    BY <1>4, <2>1 DEF OutputFields
  <2>3. QED
    BY <2>2 DEF InstrSet, T32Gens, ARM, THUMB
<1>6. LoadsNext(f) => f.gen \in {"ld_imm", "ld_reg", "ld_lit"} /\ f.v = "LDRD"
  BY <1>3 DEF LoadsNext
<1>7. ASSUME NEW i \in Words, LoadsNext(f), gen_status(f, i) = "VALID"
      PROVE  ~Odd(i.t) /\ i.t # 14
  <2>1. f.v = "LDRD" /\ gen_arm_instr(f, i) = "VALID"
    BY <1>1, <1>6, <1>7 DEF gen_status, T16Gens, T32Gens
  <2>2. CASE f.gen = "ld_imm"
    BY <2>1, <2>2 DEF gen_arm_instr, ld_imm, Verdict
  <2>3. CASE f.gen = "ld_reg"
    <3>1. ~Odd(i.t) /\ i.t + 1 # 15
      BY <2>1, <2>3 DEF gen_arm_instr, ld_reg, Verdict
    <3>2. i.t \in 0 .. 16
      BY DEF Words
    <3>3. QED
      BY <3>1, <3>2
  <2>4. CASE f.gen = "ld_lit"
    BY <2>1, <2>4 DEF gen_arm_instr, ld_lit, Verdict
  <2>5. QED
    BY <1>6, <1>7, <2>2, <2>3, <2>4
<1>8. QED
  BY <1>4, <1>5, <1>6, <1>7

\* The registers set_mem_src_reg gives a load: the base one of the class
\* asked for, the offset one of another.
LEMMA LoadSource ==
  ASSUME NEW f \in Forms, Kind(f) = "LD_OP", NEW i, Encoded(f, i), NEW src \in {"R_0_3", "R_4_7"},
         NEW u \in SetSrc(f, i, src)
  PROVE  /\ Encoded(f, u)
         /\ RegBase(f) => u.n \in ClassOf(src)
         /\ OffsetReg(f) => u.m \in 0 .. 7 \ ClassOf(src)
<1> DEFINE based == IF RegBase(f) THEN update_instr_reg_opnd(f, i, {"n"}, src) ELSE {i}
<1>0. src \in Classes /\ src \in RegClasses /\ r_offset(src) \in RegClasses /\ i \in Words
  BY DEF Classes, RegClasses, r_offset, Encoded
<1>1. Encoded(f, u)
  BY <1>0, SrcEncoded
<1>2. u \in IF OffsetReg(f) THEN UNION {update_instr_reg_opnd(f, b, {"m"}, r_offset(src)) : b \in based} ELSE based
  BY DEF SetSrc, set_mem_src_reg
<1>3. Members(src) \subseteq ClassOf(src) /\ Members(r_offset(src)) \subseteq 0 .. 7 \ ClassOf(src)
  BY DEF Members, ClassOf, r_offset
<1>4. \A r \in 0 .. 7 : r % 8 = r
  OBVIOUS
<1>5. ASSUME NEW b \in based
      PROVE  b \in Words /\ (RegBase(f) => b["n"] \in ClassOf(src))
  <2>1. CASE RegBase(f)
    <3>1. b \in Words
      BY <1>0, <2>1, UpdateEncoded DEF Encoded
    <3>2. PICK r \in Members(src) : b["n"] = IF Low(f) THEN r % 8 ELSE r
      BY <1>0, <2>1, UpdateFields
    <3>3. r \in 0 .. 7 /\ r \in ClassOf(src)
      BY <1>3, <3>2 DEF ClassOf
    <3>4. QED
      BY <1>4, <3>1, <3>2, <3>3
  <2>2. CASE ~RegBase(f)
    BY <1>0, <2>2
  <2>3. QED
    BY <2>1, <2>2
<1>6. CASE OffsetReg(f)
  <2>1. PICK b \in based : u \in update_instr_reg_opnd(f, b, {"m"}, r_offset(src))
    BY <1>2, <1>6
  <2>2. b \in Words /\ (RegBase(f) => b["n"] \in ClassOf(src))
    BY <1>5
  <2>8. PICK class \in RegClasses, F \in SUBSET {"t", "n", "m", "a"} : class = r_offset(src) /\ F = {"m"}
    BY <1>0
  <2>9. /\ \A k \in F : \E r \in Members(class) : u[k] = IF Low(f) THEN r % 8 ELSE r
        /\ \A k \in {"t", "n", "m", "a", "sh"} \ F : u[k] = b[k]
    <3>1. b \in Words /\ u \in update_instr_reg_opnd(f, b, F, class)
      BY <2>1, <2>2, <2>8
    <3>2. QED
      BY <3>1, UpdateFields
  <2>3. PICK r \in Members(r_offset(src)) : u["m"] = IF Low(f) THEN r % 8 ELSE r
    BY <2>8, <2>9
  <2>4. u["n"] = b["n"]
    BY <2>8, <2>9
  <2>5. r \in 0 .. 7 \ ClassOf(src)
    BY <1>3, <2>3
  <2>6. u["m"] = r
    BY <1>4, <2>3, <2>5
  <2>7. QED
    BY <1>1, <2>2, <2>4, <2>5, <2>6
<1>7. CASE ~OffsetReg(f)
  BY <1>1, <1>2, <1>5, <1>7
<1>8. QED
  BY <1>6, <1>7

\* The fields update_instr_reg_opnd leaves.
LEMMA UpdateKept ==
  ASSUME NEW f, NEW i \in Words, NEW F \in SUBSET {"t", "n", "m", "a"},
         NEW class \in RegClasses, NEW j \in update_instr_reg_opnd(f, i, F, class)
  PROVE  \A k \in {"t", "n", "m", "a", "sh"} \ F : j[k] = i[k]
<1>1. PICK draw \in [F -> Members(class)] :
        j = [k \in DOMAIN i |->
               IF k \in F THEN (IF Low(f) THEN draw[k] % 8 ELSE draw[k]) ELSE i[k]]
  BY DEF update_instr_reg_opnd
<1>2. DOMAIN i = {"t", "n", "m", "a", "P", "W", "S", "x", "list", "sh", "c"}
  BY DEF Words
<1>3. QED
  BY <1>1, <1>2

\* The registers SetDst gives a load: those of a class other than that of
\* its base; a double load names none whose successor is of the next class.
LEMMA LoadTarget ==
  ASSUME NEW f \in Forms, Kind(f) = "LD_OP", NEW u, Encoded(f, u), NEW src \in {"R_0_3", "R_4_7"},
         NEW dst \in RegClasses \ {"R_PC", src}, InstrSet(f) = THUMB => dst \in {"R_0_3", "R_4_7"},
         NEW j \in SetDst(f, u, dst)
  PROVE  /\ j \in Words /\ j.n = u.n /\ j.m = u.m
         /\ \A k \in OutputFields(f) : j[k] \in 0 .. 14 \ ClassOf(src)
         /\ InstrSet(f) = THUMB => \A k \in OutputFields(f) : j[k] # 13
         /\ LoadsNext(f) => j.t \in 0 .. 3 \/ j.t \in 4 .. 7 \/ j.t \in 8 .. 11 \/ j.t \in {13, 14}
<1>0. /\ ~HasList(f) /\ OutputFields(f) \in {{"t"}, {"t", "a"}}
      /\ Low(f) => InstrSet(f) = THUMB
      /\ LoadsNext(f) => f.gen \in {"ld_imm", "ld_reg", "ld_lit"} /\ f.v = "LDRD"
  BY LoadForms
<1>1. PICK v \in update_instr_reg_opnd(f, u, OutputFields(f), dst) : j = EvenPair(f, v, dst)
  BY <1>0 DEF SetDst, RegClasses
<1>2. OutputFields(f) \in SUBSET {"t", "n", "m", "a"} /\ u \in Words
  BY <1>0 DEF Encoded
<1>3. /\ v \in Words /\ v["n"] = u["n"] /\ v["m"] = u["m"]
      /\ \A k \in OutputFields(f) : \E r \in Members(dst) : v[k] = IF Low(f) THEN r % 8 ELSE r
  <2>1. v \in Words
    BY <1>1, <1>2, UpdateEncoded DEF Encoded
  <2>2. /\ \A k \in OutputFields(f) : \E r \in Members(dst) : v[k] = IF Low(f) THEN r % 8 ELSE r
        /\ \A k \in {"t", "n", "m", "a", "sh"} \ OutputFields(f) : v[k] = u[k]
    <3>1. PICK class \in RegClasses, F \in SUBSET {"t", "n", "m", "a"} : class = dst /\ F = OutputFields(f)
      BY <1>2
    <3>2. u \in Words /\ v \in update_instr_reg_opnd(f, u, F, class)
      BY <1>1, <1>2, <3>1
    <3>3. /\ \A k \in F : \E r \in Members(class) : v[k] = IF Low(f) THEN r % 8 ELSE r
          /\ \A k \in {"t", "n", "m", "a", "sh"} \ F : v[k] = u[k]
      <4>1. \A k \in F : \E r \in Members(class) : v[k] = IF Low(f) THEN r % 8 ELSE r
        BY <3>2, UpdateFields
      <4>2. \A k \in {"t", "n", "m", "a", "sh"} \ F : v[k] = u[k]
        BY <3>2, UpdateKept
      <4>3. QED
        BY <4>1, <4>2
    <3>4. QED
      BY <3>1, <3>3
  <2>3. QED
    BY <1>0, <2>1, <2>2
<1>4. \A r \in 0 .. 7 : r % 8 = r
  OBVIOUS
<1>5. \A k \in OutputFields(f) : v[k] \in Members(dst)
  <2>1. Low(f) => Members(dst) \subseteq 0 .. 7
    BY <1>0 DEF Members
  <2>2. QED
    BY <1>3, <1>4, <2>1
<1>6. /\ Members(dst) \subseteq 0 .. 14 \ ClassOf(src)
      /\ InstrSet(f) = THUMB => 13 \notin Members(dst)
      /\ dst # "R_8_12" => \A r \in Members(dst) : r \in 0 .. 3 \/ r \in 4 .. 7 \/ r \in {13, 14}
      /\ dst = "R_8_12" => Members(dst) \subseteq 8 .. 12
  BY SampleAssumption DEF Members, ClassOf, RegClasses
<1>7. CASE dst = "R_8_12" /\ f.gen \in {"ld_imm", "ld_reg", "ld_lit"} /\ f.v = "LDRD"
  <2>1. j = [v EXCEPT !.t = v.t - 4 * ((v.t \div 4) % 2)]
    BY <1>1, <1>7 DEF EvenPair
  <2>2. v["t"] \in 8 .. 12
    BY <1>0, <1>5, <1>6, <1>7
  <2>3. v.t - 4 * ((v.t \div 4) % 2) \in 8 .. 11
    BY <2>2
  <2>4. j \in Words /\ j.n = v.n /\ j.m = v.m /\ j["t"] \in 8 .. 11 /\ j["a"] = v["a"]
    BY <1>3, <2>1, <2>3 DEF Words
  <2>5. ASSUME NEW k \in OutputFields(f)
        PROVE  j[k] \in 0 .. 14 \ ClassOf(src) /\ (InstrSet(f) = THUMB => j[k] # 13)
    <3>1. CASE k = "t"
      BY <2>4, <3>1 DEF ClassOf
    <3>2. CASE k = "a"
      BY <1>5, <1>6, <2>4, <3>2
    <3>3. QED
      BY <1>0, <3>1, <3>2
  <2>6. QED
    BY <1>3, <2>4, <2>5
<1>8. CASE ~(dst = "R_8_12" /\ f.gen \in {"ld_imm", "ld_reg", "ld_lit"} /\ f.v = "LDRD")
  <2>1. LoadsNext(f) => dst # "R_8_12"
    BY <1>0, <1>8
  <2>2. j = v
    <3>1. f.gen # "ldex"
      BY DEF Kind
    <3>2. f.v # "D" \/ f.gen \notin {"ld_imm", "ld_reg", "ld_lit"}
      BY FormVariant DEF Variants
    <3>3. QED
      BY <1>1, <1>8, <3>1, <3>2 DEF EvenPair
  <2>3. "t" \in OutputFields(f)
    BY <1>0
  <2>4. QED
    BY <1>3, <1>5, <1>6, <2>1, <2>2, <2>3
<1>9. QED
  BY <1>7, <1>8

\* A VALID load preprocess_instr made for a block of genMemInstrs uses a
\* base that was set (or sp, in Thumb code), takes its offset from another
\* class of registers, and loads none of the bases, the second register of a
\* double load included.
THEOREM LoadPlaced ==
  ASSUME NEW f \in Forms, Kind(f) = "LD_OP", NEW i, Encoded(f, i), NEW src \in {"R_0_3", "R_4_7"},
         NEW dst \in RegClasses \ {"R_PC", src}, InstrSet(f) = THUMB => dst \in {"R_0_3", "R_4_7"},
         NEW j \in preprocess_instr(f, i, src, dst), gen_status(f, j) = "VALID"
  PROVE  Placed(f, j, ClassOf(src) \cup (IF InstrSet(f) = ARM THEN {} ELSE {13}))
<1> DEFINE B == ClassOf(src) \cup (IF InstrSet(f) = ARM THEN {} ELSE {13})
<1>1. PICK u \in SetSrc(f, i, src) : j \in SetDst(f, u, dst)
  BY DEF preprocess_instr
<1>2. /\ Encoded(f, u)
      /\ RegBase(f) => u.n \in ClassOf(src)
      /\ OffsetReg(f) => u.m \in 0 .. 7 \ ClassOf(src)
  BY <1>1, LoadSource
<1>3. /\ j \in Words /\ j.n = u.n /\ j.m = u.m
      /\ \A k \in OutputFields(f) : j[k] \in 0 .. 14 \ ClassOf(src)
      /\ InstrSet(f) = THUMB => \A k \in OutputFields(f) : j[k] # 13
      /\ LoadsNext(f) => j.t \in 0 .. 3 \/ j.t \in 4 .. 7 \/ j.t \in 8 .. 11 \/ j.t \in {13, 14}
  BY <1>1, <1>2, LoadTarget
<1>4. /\ ~HasList(f) /\ ~Compares(f) /\ f.gen # "thumb32_st_imm"
      /\ "t" \in OutputFields(f)
      /\ SpBase(f) => InstrSet(f) = THUMB
      /\ LoadsNext(f) => InstrSet(f) = ARM
      /\ LoadsNext(f) => ~Odd(j.t) /\ j.t # 14
  BY <1>3, LoadForms DEF InstrSet, T16Gens, T32Gens
<1>5. InstrSet(f) \in {ARM, THUMB} /\ ARM # THUMB
  BY DEF InstrSet, ARM, THUMB
<1>6. HasBase(f) => Base(f, j) \in B
  BY <1>2, <1>3, <1>4, <1>5 DEF HasBase, Base
<1>7. OffsetReg(f) => j.m \notin B
  BY <1>2, <1>3
<1>8. Loads(f, j) = {j[k] : k \in OutputFields(f)} \cup (IF LoadsNext(f) THEN {j.t + 1} ELSE {})
  BY <1>4 DEF Loads
<1>9. \A k \in OutputFields(f) : j[k] \notin B
  BY <1>3, <1>5
<1>10. ASSUME LoadsNext(f)
       PROVE  j.t + 1 \notin B
  <2>1. j["t"] \in 0 .. 14 \ ClassOf(src) /\ B = ClassOf(src)
    BY <1>3, <1>4, <1>10
  <2>2. j.t % 2 # 1 /\ j.t # 14
    BY <1>4, <1>10 DEF Odd
  <2>3. j.t \in 0 .. 3 \/ j.t \in 4 .. 7 \/ j.t \in 8 .. 11
    BY <1>3, <1>10, <2>2
  <2>4. QED
    BY <2>1, <2>2, <2>3 DEF ClassOf
<1>11. Loads(f, j) \cap B = {}
  BY <1>8, <1>9, <1>10
<1>12. QED
  BY <1>6, <1>7, <1>11 DEF Placed

\* So does a VALID push or pop in ARM code: its base is sp, and a pop that
\* loads sp is rejected.
LEMMA StackPlaced ==
  ASSUME NEW f \in Forms, Kind(f) \in {"PUSH_OP", "POP_OP"}, InstrSet(f) = ARM, NEW j,
         gen_status(f, j) = "VALID"
  PROVE  Placed(f, j, {13})
<1>1. f.gen \in DOMAIN Variants /\ f.v \in Variants[f.gen] /\ f # NA
  BY FormVariant, NoForm
<1>2. f.gen \in {"push", "pop"}
  BY <1>1 DEF Kind, InstrSet, T16Gens, T32Gens, ARM, THUMB, Variants
<1>3. HasBase(f) /\ Base(f, j) = 13 /\ ~OffsetReg(f) /\ ~LoadsNext(f) /\ f.gen # "thumb32_st_imm" /\ ~Compares(f)
  BY <1>2 DEF HasBase, SpBase, Base, OffsetReg, LoadsNext, Compares
<1>4. CASE f.gen = "push"
  <2>1. Loads(f, j) = {}
    BY <1>3, <1>4 DEF Loads, Kind
  <2>2. QED
    BY <1>3, <2>1 DEF Placed
<1>5. CASE f.gen = "pop"
  <2>1. f.v \in {"a1", "a2"} /\ Kind(f) = "POP_OP"
    BY <1>1, <1>5 DEF Variants, Kind
  <2>2. pop(f.v, j) = "VALID"
    BY <1>1, <1>5 DEF gen_status, gen_arm_instr, T16Gens, T32Gens
  <2>3. CASE f.v = "a1"
    <3>1. Loads(f, j) = j.list
      BY <1>3, <1>5, <2>1, <2>3 DEF Loads, HasList
    <3>2. 13 \notin j.list
      BY <2>2, <2>3 DEF pop, Verdict
    <3>3. QED
      BY <1>3, <3>1, <3>2 DEF Placed
  <2>4. CASE f.v = "a2"
    <3>1. ~HasList(f) /\ OutputFields(f) = {"t"}
      BY <1>5, <2>1, <2>4 DEF HasList, OutputFields
    <3>2. Loads(f, j) = {j.t}
      BY <1>3, <2>1, <3>1 DEF Loads
    <3>3. 13 # j.t
      BY <2>2, <2>4 DEF pop, Verdict
    <3>4. QED
      BY <1>3, <3>2, <3>3 DEF Placed
  <2>5. QED
    BY <2>1, <2>3, <2>4
<1>6. QED
  BY <1>2, <1>4, <1>5

-----------------------------------------------------------------------------
(* The invariant about the data.                                            *)

\* The block has its base registers set, and the code that fixes a base is
\* dropped.
Bare == blk.type = "mem" /\ ~AllowFix(blk.reg)

\* The registers such a block was given addresses in and may use as a base.
BaseRegs(b) ==
  (CASE b.reg = "R_SP" -> {13} [] b.reg = "R_0_3" -> 0 .. 3 [] b.reg = "R_4_7" -> 4 .. 7 [] OTHER -> {})
    \cup (IF b.isARM THEN {} ELSE {13})

\* What a call asks for: the code that fixes a base is dropped in exactly
\* the blocks that set their bases, which ask for a kind of memory access
\* and for registers of other classes.
Requested ==
  /\ blk.type = "mem" /\ blk.reg \in {"R_8_12", "R_SP"} => blk.isARM
  /\ Running =>
       /\ req.by = "op" => ~HasBase(req.form)
       /\ req.allow_fix = ~Bare
       /\ Bare => /\ req.by = "kind" /\ req.src = blk.reg /\ req.dst \in DstRegs(blk)
                  /\ req.kind \in MemOps(blk.reg)

\* A new block has made no call yet.
LEMMA BlockRequested ==
  ASSUME Block \/ EndBlock
  PROVE  Requested'
<1>1. CASE EndBlock
  BY <1>1 DEF EndBlock, NoBlock, Requested, Running
<1>2. CASE Block
  <2>1. pc' = "ask"
    BY <1>2 DEF Block, genMemInstrs, genInstrs, genMulShiftInstrs, genALUwritePC, main, Begin
  <2>2. blk'.type = "mem" /\ blk'.reg \in {"R_8_12", "R_SP"} => blk'.isARM
    <3>1. CASE genMemInstrs
      <4>1. PICK isARM \in BOOLEAN, reg \in {"R_0_3", "R_4_7", "R_8_12", "R_SP", "R_DEFAULT"} :
              /\ reg \in {"R_8_12", "R_SP"} => isARM
              /\ blk' = [type |-> "mem", isARM |-> isARM, reg |-> reg]
        BY <3>1 DEF genMemInstrs, Begin
      <4>2. QED
        BY <4>1
    <3>2. CASE genInstrs \/ genMulShiftInstrs \/ genALUwritePC \/ main
      BY <3>2 DEF genInstrs, genMulShiftInstrs, genALUwritePC, main, Begin
    <3>3. QED
      BY <1>2, <3>1, <3>2 DEF Block
  <2>3. QED
    BY <2>1, <2>2 DEF Requested, Running
<1>3. QED
  BY <1>1, <1>2

\* What the block generators ask for: genMemInstrs asks for the kinds and
\* classes of its block, and only opcodes without a base are asked for by
\* name.
LEMMA AskRequested ==
  ASSUME IInv, Requested, AskMem \/ AskAny \/ AskMulShift \/ AskMain \/ AskLr \/ AskPc
  PROVE  Requested'
<1>0. blk' = blk
  BY DEF AskMem, AskAny, AskMulShift, AskMain, AskLr, AskPc, Ask
<1>1. CASE AskMem
  <2>1. PICK kind \in MemOps(blk.reg), dst \in DstRegs(blk), cond \in Conds, sbit \in Sbits :
          req' = ByKind(kind, cond, sbit, blk.reg, dst, AllowFix(blk.reg))
    BY <1>1 DEF AskMem, Ask
  <2>2. /\ req'.by = "kind" /\ req'.kind = kind /\ req'.src = blk.reg /\ req'.dst = dst
        /\ req'.allow_fix = AllowFix(blk.reg) /\ blk.type = "mem"
    BY <1>1, <2>1 DEF ByKind, AskMem
  <2>3. QED
    BY <1>0, <2>1, <2>2 DEF Requested, Bare, AllowFix
<1>2. CASE AskAny \/ AskMulShift \/ AskMain \/ AskLr \/ AskPc
  <2>1. blk.type # "mem"
    BY <1>2 DEF AskAny, AskMulShift, AskMain, AskLr, AskPc
  <2>2. req'.allow_fix = TRUE /\ (req'.by = "op" => ~HasBase(req'.form))
    <3>1. CASE AskAny
      BY <3>1 DEF AskAny, Ask, ByKind
    <3>2. CASE AskMain
      BY <3>2 DEF AskMain, Ask, ByKind
    <3>3. CASE AskMulShift
      <4>1. CASE \E cond \in Conds, sbit \in Sbits, kind \in {"MUL_OP", "REG_OP"} :
                   Ask(ByKind(kind, cond, sbit, "R_DEFAULT", "R_DEFAULT", TRUE))
        BY <4>1 DEF Ask, ByKind
      <4>2. CASE \E cond \in Conds, sbit \in Sbits, f \in ShiftForms(blk.isARM) :
                   Ask(ByOpcode(f, cond, sbit, "R_DEFAULT", FALSE))
        <5>1. PICK cond \in Conds, sbit \in Sbits, f \in ShiftForms(blk.isARM) :
                   Ask(ByOpcode(f, cond, sbit, "R_DEFAULT", FALSE))
          BY <4>2
        <5>2. req'.form = f /\ req'.allow_fix = TRUE
          BY <5>1 DEF Ask, ByOpcode
        <5>3. blk.isARM \in BOOLEAN
          BY DEF IInv, Types, BlockType
        <5>4. QED
          BY <5>2, <5>3, ShiftFormsOk
      <4>3. QED
        BY <3>3, <4>1, <4>2 DEF AskMulShift
    <3>4. CASE AskLr
      <4>1. PICK f \in PcForms, cond \in Conds : Ask(ByOpcode(f, cond, FALSE, "R_LR", TRUE))
        BY <3>4 DEF AskLr
      <4>2. req'.form = f /\ req'.allow_fix = TRUE
        BY <4>1 DEF Ask, ByOpcode
      <4>3. QED
        BY <4>2, PcFormsOk
    <3>5. CASE AskPc
      <4>1. req.form \in PcForms
        BY <3>5 DEF AskPc, IInv, Twins
      <4>2. req'.form = req.form /\ req'.allow_fix = TRUE
        BY <3>5 DEF AskPc, Ask, ByOpcode
      <4>3. QED
        BY <4>1, <4>2, PcFormsOk
    <3>6. QED
      BY <1>2, <3>1, <3>2, <3>3, <3>4, <3>5
  <2>3. QED
    BY <1>0, <2>1, <2>2 DEF Requested, Bare
<1>3. QED
  BY <1>1, <1>2

\* The steps of the library and the wrapper.
Works ==
  \/ py_gen_instr \/ py_gen_instr_with_op \/ gen_instr \/ output_instr
  \/ Accept \/ Again \/ Deliver \/ Fail

\* None of them changes the block or the arguments.
LEMMA WorksKeep ==
  ASSUME Works
  PROVE  blk' = blk /\ req' = req /\ Running
BY DEF Works, py_gen_instr, py_gen_instr_with_op, gen_instr, output_instr, Accept, Again, Deliver, Fail, Running

\* Every step keeps what is known of the arguments.
LEMMA NextRequested == IInv /\ Requested /\ [Next]_vars => Requested'
<1>1. SUFFICES ASSUME IInv, Requested, [Next]_vars PROVE Requested'
  OBVIOUS
<1>2. CASE Block \/ EndBlock
  BY <1>2, BlockRequested
<1>3. CASE AskMem \/ AskAny \/ AskMulShift \/ AskMain \/ AskLr \/ AskPc
  BY <1>1, <1>3, AskRequested
<1>4. CASE Works
  BY <1>1, <1>4, WorksKeep DEF Requested, Bare
<1>5. CASE UNCHANGED vars
  BY <1>1, <1>5 DEF vars, Requested, Running, Bare
<1>6. QED
  BY <1>1, <1>2, <1>3, <1>4, <1>5 DEF Next, Step, Works

\* The word of a call for a kind: its operands are among those of its form,
\* and once it is VALID the offset is not the base, and in a block that set
\* its bases it is placed.
Fetched ==
  /\ Taken /\ req.by = "kind" /\ word # NoWord => Sampled(op, word)
  /\ pc \in {"parse", "append"} /\ status = "VALID" /\ req.by = "kind" =>
       /\ op \in Forms /\ word \in Words /\ Sampled(op, word)
       /\ OffsetReg(op) => word.m # Base(op, word)
       /\ Bare => Placed(op, word, BaseRegs(blk))

\* The lines of the word.
Code == Prefix(op, word, isa, "VALID") \o <<TheWord>>

\* instr_buf holds the code of the word before parseRIT has read it, and
\* what parseRIT keeps of it afterwards.
Coded ==
  /\ pc = "parse" /\ status = "VALID" /\ req.by = "kind" => buf = Code
  /\ pc = "append" /\ status = "VALID" /\ req.by = "kind" => buf = Kept(Code)

\* The VALID words of a block that has its bases set are placed.
LEMMA BarePlaced ==
  ASSUME IInv, Requested, pc = "try", op \in Forms, Bare, NEW i, Encoded(op, i),
         NEW j \in preprocess_instr(op, i, req.src, req.dst), gen_status(op, j) = "VALID"
  PROVE  Placed(op, j, BaseRegs(blk))
<1>1. /\ req.by = "kind" /\ req.src = blk.reg /\ req.dst \in DstRegs(blk)
      /\ req.kind \in MemOps(blk.reg) /\ blk.reg \in {"R_SP", "R_0_3", "R_4_7"}
      /\ blk.reg = "R_SP" => blk.isARM
  BY DEF Requested, Running, Bare, AllowFix
<1>2. InstrSet(op) = IsaOf(blk.isARM) /\ Kind(op) = req.kind
  BY <1>1, NoForm DEF IInv, Chosen, Taken
<1>3. ARM # THUMB /\ blk.isARM \in BOOLEAN
  BY DEF ARM, THUMB, IInv, Types, BlockType
<1>4. CASE blk.reg = "R_SP"
  <2>1. Kind(op) \in {"PUSH_OP", "POP_OP"} /\ InstrSet(op) = ARM
    BY <1>1, <1>2, <1>4 DEF MemOps, IsaOf
  <2>2. BaseRegs(blk) = {13}
    BY <1>1, <1>4 DEF BaseRegs
  <2>3. QED
    BY <2>1, <2>2, StackPlaced
<1>5. CASE blk.reg # "R_SP"
  <2>1. PICK src \in {"R_0_3", "R_4_7"} : src = blk.reg /\ src = req.src
    BY <1>1, <1>5
  <2>2. PICK dst \in RegClasses \ {"R_PC", src} :
          dst = req.dst /\ (InstrSet(op) = THUMB => dst \in {"R_0_3", "R_4_7"})
    BY <1>1, <1>2, <1>3, <2>1 DEF DstRegs, AllowFix, IsaOf, RegClasses
  <2>3. Kind(op) = "LD_OP"
    BY <1>1, <1>2, <1>5 DEF MemOps
  <2>4. j \in preprocess_instr(op, i, src, dst)
    BY <2>1, <2>2
  <2>5. Placed(op, j, ClassOf(src) \cup (IF InstrSet(op) = ARM THEN {} ELSE {13}))
    BY <2>2, <2>3, <2>4, LoadPlaced
  <2>6. BaseRegs(blk) = ClassOf(src) \cup (IF InstrSet(op) = ARM THEN {} ELSE {13})
    BY <1>2, <1>3, <2>1 DEF BaseRegs, ClassOf, IsaOf
  <2>7. QED
    BY <2>5, <2>6
<1>6. QED
  BY <1>4, <1>5

\* The words of a try for a kind.
LEMMA FilledSampled ==
  ASSUME IInv, Requested, Fetched, pc = "try", op \in Forms, req.by = "kind", NEW w \in Drawn, NEW i \in Filled(w)
  PROVE  /\ Encoded(op, i) /\ Sampled(op, i)
         /\ gen_status(op, i) = "VALID" /\ OffsetReg(op) => i.m # Base(op, i)
         /\ gen_status(op, i) = "VALID" /\ Bare => Placed(op, i, BaseRegs(blk))
<1>1. Encoded(op, w) /\ Sampled(op, w)
  <2>1. CASE word # NoWord
    BY <2>1 DEF Drawn, IInv, Fits, Taken, Fetched
  <2>2. CASE word = NoWord
    <3>1. w \in Operands(op, Overwritten(op, req.src, req.dst))
      BY <2>2, NoForm DEF Drawn
    <3>2. QED
      BY <3>1, OperandsEncoded, OperandsSampled
  <2>3. QED
    BY <2>1, <2>2
<1>2. req.src \in Classes /\ req.dst \in Classes /\ req.sbit \in BOOLEAN
  BY DEF IInv, Types, ReqType
<1>3. PICK s : s = SetSbit(op, w)
  OBVIOUS
<1>4. Encoded(op, s) /\ Sampled(op, s)
  BY <1>1, <1>2, <1>3 DEF SetSbit, Encoded, Words, Sampled
<1>5. i \in preprocess_instr(op, s, req.src, req.dst)
  BY <1>3, NoForm DEF Filled
<1>6. Encoded(op, i)
  BY <1>2, <1>4, <1>5, PreprocessEncoded
<1>7. Sampled(op, i)
  BY <1>2, <1>4, <1>5, PreprocessSampled
<1>8. ASSUME gen_status(op, i) = "VALID", OffsetReg(op) PROVE i.m # Base(op, i)
  BY <1>8, ValidOffset
<1>9. ASSUME gen_status(op, i) = "VALID", Bare PROVE Placed(op, i, BaseRegs(blk))
  BY <1>4, <1>5, <1>9, BarePlaced
<1>10. QED
  BY <1>6, <1>7, <1>8, <1>9

\* One turn of the loop of gen_instr_with_op: a VALID word is placed, and
\* instr_buf holds its code, although the condition field is written after
\* the code was.
LEMMA TryFetched ==
  ASSUME IInv, Requested, Fetched, gen_instr, op \in Forms, req.by = "kind"
  PROVE  Fetched' /\ Coded'
<1>1. pc = "try" /\ UNCHANGED <<blk, req, op, pyTries, cnt, retry, regs, twin>>
  BY DEF gen_instr
<1>drawn. PICK w \in Drawn : \E i \in Filled(w) : Tried(i)
  BY DEF gen_instr, Tried
<1>filled. PICK i \in Filled(w) : Tried(i)
  BY <1>drawn
<1>2. /\ status' = gen_status(op, i)
      /\ buf' = Lines(i, gen_status(op, i))
      /\ word' = Remembered(i, gen_status(op, i))
      /\ isa' = IF op # NA /\ InstrSet(op) = THUMB THEN THUMB ELSE isa
      /\ pc' = IF gen_status(op, i) = "UNSUPPORTED" THEN "try" ELSE "parse"
  BY <1>filled DEF Tried
<1>3. PICK st : st = gen_status(op, i)
  OBVIOUS
<1>4. /\ Encoded(op, i) /\ Sampled(op, i)
      /\ st = "VALID" /\ OffsetReg(op) => i.m # Base(op, i)
      /\ st = "VALID" /\ Bare => Placed(op, i, BaseRegs(blk))
  BY <1>1, <1>3, FilledSampled
<1>5. PICK j : j = WithCond(i, st)
  OBVIOUS
<1>6. i \in Words
  BY <1>4 DEF Encoded
<1>7. /\ j \in Words /\ Base(op, j) = Base(op, i) /\ j.m = i.m
      /\ \A set : Prefix(op, j, set, st) = Prefix(op, i, set, st)
      /\ Sampled(op, j)
      /\ \A B : Placed(op, i, B) => Placed(op, j, B)
  <2>1. CASE InstrSet(op) = ARM
    <3>1. PICK c \in 0 .. 14 : c = CondAfter(op, i, st, cond_val)
      BY <1>1, <1>4, CondWritten
    <3>2. j = [i EXCEPT !.c = c]
      BY <1>5, <2>1, <3>1, NoForm DEF WithCond
    <3>3. j \in Words
      BY <1>6, <3>2 DEF Words
    <3>4. QED
      BY <1>4, <1>6, <3>2, <3>3, CondAside
  <2>2. CASE InstrSet(op) # ARM
    BY <1>4, <1>5, <1>6, <2>2 DEF WithCond
  <2>3. QED
    BY <2>1, <2>2
<1>8. word' \in {NoWord, j} /\ (st = "VALID" => word' = j)
  BY <1>2, <1>3, <1>5 DEF Remembered
<1>9. blk' = blk /\ req' = req /\ op' = op /\ status' = st /\ (Bare' <=> Bare)
  BY <1>1, <1>2, <1>3 DEF Bare
<1>10. Fetched'
  BY <1>2, <1>4, <1>7, <1>8, <1>9 DEF Fetched
<1>11. isa' = isa
  BY <1>1, <1>2, NoForm DEF IInv, Chosen, Taken
<1>12. st = "VALID" => buf' = Code'
  BY <1>2, <1>3, <1>7, <1>8, <1>9, <1>11, NoForm DEF Lines, Code
<1>13. Coded'
  BY <1>2, <1>9, <1>12 DEF Coded
<1>14. QED
  BY <1>10, <1>13

\* The word is a line.
LEMMA WordLine == TheWord \in LineType /\ TheWord.tag = "INST"
BY DEF TheWord, Line, LineType, LineOps

\* Every step keeps what is known of the word and of instr_buf.
LEMMA NextFetched == IInv /\ Requested /\ Fetched /\ Coded /\ [Next]_vars => Fetched' /\ Coded'
<1>1. SUFFICES ASSUME IInv, Requested, Fetched, Coded, [Next]_vars PROVE Fetched' /\ Coded'
  OBVIOUS
<1>2. CASE pc' \notin {"try", "parse", "append"}
  BY <1>2 DEF Fetched, Coded, Taken
<1>3. CASE py_gen_instr
  <2>1. pc' = "try" /\ req' = req /\ word' = word /\ pc = "call" /\ req.by = "kind"
    BY <1>3 DEF py_gen_instr
  <2>2. word = NoWord
    BY <1>1, <2>1 DEF IInv, Fits
  <2>3. QED
    BY <2>1, <2>2 DEF Fetched, Coded
<1>4. CASE py_gen_instr_with_op
  BY <1>4 DEF py_gen_instr_with_op, Fetched, Coded
<1>5. CASE gen_instr
  <2>1. op \in Forms \cup {NA} /\ req' = req /\ pc = "try"
    BY <1>1, <1>5 DEF IInv, Types, TypeOK, gen_instr
  <2>2. CASE req.by # "kind"
    BY <2>1, <2>2 DEF Fetched, Coded
  <2>3. CASE req.by = "kind" /\ op \in Forms
    BY <1>1, <1>5, <2>3, TryFetched
  <2>4. CASE op = NA
    <3>1. word = NoWord
      BY <1>1, <2>1, <2>4, NoForm DEF IInv, Fits, Taken
    <3>2. word' = NoWord /\ pc' = "try"
      BY <1>5, <2>4, <3>1 DEF gen_instr, Drawn, Filled, gen_status, Lines, Remembered, WithCond, CondAfter
    <3>3. QED
      BY <3>2 DEF Fetched, Coded
  <2>5. QED
    BY <2>1, <2>2, <2>3, <2>4
<1>6. CASE output_instr
  <2>1. /\ pc = "try" /\ pc' = "parse" /\ status' = status /\ req' = req /\ word' = word /\ op' = op
        /\ tries = 0
    BY <1>6 DEF output_instr
  <2>2. status = "UNSUPPORTED"
    BY <1>1, <2>1, RitLibAssumption DEF IInv, Decided
  <2>3. QED
    BY <1>1, <2>1, <2>2 DEF Fetched, Coded, Taken
<1>7. CASE Accept
  <2>1. /\ pc = "parse" /\ pc' = "append" /\ status' = status /\ req' = req /\ word' = word /\ op' = op
        /\ blk' = blk /\ isa' = isa /\ buf' = Kept(buf)
    BY <1>7 DEF Accept
  <2>2. Fetched'
    BY <1>1, <2>1 DEF Fetched, Taken, Bare
  <2>3. Code' = Code
    BY <2>1, Zenon DEF Code
  <2>4. Kept(Code)' = Kept(Code)
    BY <2>1, <2>3 DEF Kept
  <2>5. Coded'
    BY <1>1, <2>1, <2>4 DEF Coded
  <2>6. QED
    BY <2>2, <2>5
<1>8. CASE UNCHANGED vars
  <2>1. /\ pc' = pc /\ status' = status /\ req' = req /\ word' = word /\ op' = op
        /\ blk' = blk /\ isa' = isa /\ buf' = buf
    BY <1>8 DEF vars
  <2>2. Fetched'
    BY <1>1, <2>1 DEF Fetched, Taken, Bare
  <2>3. Code' = Code
    BY <2>1, Zenon DEF Code
  <2>4. Kept(Code)' = Kept(Code)
    BY <2>1, <2>3 DEF Kept
  <2>5. Coded'
    BY <1>1, <2>1, <2>3, <2>4 DEF Coded
  <2>6. QED
    BY <2>2, <2>5
<1>9. CASE Block \/ EndBlock \/ AskMem \/ AskAny \/ AskMulShift \/ AskMain \/ AskLr \/ AskPc \/ Again \/ Deliver \/ Fail
  <2>1. pc' \in {"ask", "idle", "call"}
    <3>1. CASE Block
      BY <3>1 DEF Block, genMemInstrs, genInstrs, genMulShiftInstrs, genALUwritePC, main, Begin
    <3>2. CASE EndBlock \/ AskMem \/ AskAny \/ AskMulShift \/ AskMain \/ AskLr \/ AskPc
      BY <3>2 DEF EndBlock, AskMem, AskAny, AskMulShift, AskMain, AskLr, AskPc, Ask
    <3>3. CASE Again \/ Deliver \/ Fail
      BY <3>3 DEF Again, Deliver, Fail
    <3>4. QED
      BY <1>9, <3>1, <3>2, <3>3
  <2>2. QED
    BY <1>2, <2>1
<1>10. QED
  BY <1>1, <1>3, <1>4, <1>5, <1>6, <1>7, <1>8, <1>9 DEF Next, Step

\* What is known of the registers between two instructions of a block: the
\* bases a block was given are off by at most a writeback per line.
Known ==
  /\ regs \in RegFile
  /\ ~Bare => regs = AllUnknown
  /\ Bare => Good(regs, BaseRegs(blk), cnt)

\* The bases of a block are registers.
LEMMA BaseRegsType ==
  ASSUME NEW b
  PROVE  BaseRegs(b) \in SUBSET (0 .. 15)
BY DEF BaseRegs

\* The lines the block generator appends are those before the word, which
\* leave its base where it belongs, and the word.
LEMMA DeliveredCode ==
  ASSUME IInv, Requested, Fetched, Coded, Known, pc = "append", status = "VALID", req.by = "kind", NEW e
  PROVE  \E ks \in Seq(LineType) :
           /\ buf = ks \o <<TheWord>>
           /\ Bare => Good(Final(regs, ks, op, e), BaseRegs(blk), cnt)
           /\ HasBase(op) => Ready(Final(regs, ks, op, e), op, word, IF req.allow_fix THEN 0 ELSE cnt)
<1>1. /\ op \in Forms /\ word \in Words /\ Sampled(op, word)
      /\ OffsetReg(op) => word.m # Base(op, word)
      /\ Bare => Placed(op, word, BaseRegs(blk))
      /\ buf = Kept(Code)
  BY DEF Fetched, Coded
<1>2. req.allow_fix = ~Bare /\ req.allow_fix \in BOOLEAN
  BY DEF Requested, Running, IInv, Types, ReqType
<1>3. isa \in {ARM, THUMB} /\ cnt \in Nat
  BY RitLibAssumption DEF IInv, Types, TypeOK
<1>4. word.n \in 0 .. 15 /\ word.m \in 0 .. 15
  BY <1>1 DEF Sampled
<1>5. TheWord \in LineType /\ TheWord.tag = "INST"
  BY WordLine
<1>6. PICK front : front = Prefix(op, word, isa, "VALID")
  OBVIOUS
<1>7. Code = front \o <<TheWord>>
  BY <1>6 DEF Code
<1>8. CASE req.allow_fix
  <2>1. front \in Seq(LineType)
    <3>1. word # NoWord
      BY <1>4 DEF NoWord
    <3>2. Encoded(op, word)
      BY <3>1 DEF IInv, Fits, Taken
    <3>3. InStep(op, isa)
      BY <1>1, NoForm DEF IInv, Chosen, Taken, InStep
    <3>4. QED
      BY <1>1, <1>3, <1>6, <3>2, <3>3, PrefixLength
  <2>2. Code \in Seq(LineType)
    <3>1. PICK last \in LineType : last = TheWord
      BY <1>5
    <3>2. front \o <<last>> \in Seq(LineType)
      BY <2>1
    <3>3. QED
      BY <1>7, <3>1, <3>2
  <2>3. buf = front \o <<TheWord>>
    <3>1. Kept(Code) = Code
      BY <1>8, <2>2, KeptAll
    <3>2. QED
      BY <1>1, <1>7, <3>1
  <2>4. ASSUME HasBase(op)
        PROVE  Ready(Final(regs, front, op, e), op, word, 0)
    <3>1. regs \in RegFile /\ regs = AllUnknown
      BY <1>2, <1>8 DEF Known
    <3>2. \A r \in 0 .. 15 : regs[r].drift = 0
      BY <3>1 DEF AllUnknown, Unknown
    <3>3. QED
      BY <1>1, <1>3, <1>4, <1>6, <2>4, <3>1, <3>2, RunFixed
  <2>5. QED
    BY <1>2, <1>8, <2>1, <2>3, <2>4
<1>9. CASE ~req.allow_fix
  <2>1. PICK B \in SUBSET (0 .. 15) : B = BaseRegs(blk)
    BY BaseRegsType
  <2>2. Good(regs, B, cnt) /\ (HasBase(op) => Base(op, word) \in B) /\ (OffsetReg(op) => word.m \notin B)
    BY <1>1, <1>2, <1>9, <2>1 DEF Known, Placed
  <2>3. PICK ks : /\ Held(Prefix(op, word, isa, "VALID"), ks) /\ Good(Final(regs, ks, op, e), B, cnt)
                  /\ HasBase(op) => Ready(Final(regs, ks, op, e), op, word, cnt)
    BY <1>1, <1>3, <1>4, <1>9, <2>2, RunHeld
  <2>4. Held(front \o <<TheWord>>, ks \o <<TheWord>>)
    BY <1>5, <1>6, <2>3, HeldInst
  <2>5. ks \in Seq(LineType) /\ buf = ks \o <<TheWord>>
    BY <1>1, <1>7, <2>3, <2>4 DEF Held
  <2>6. QED
    BY <1>9, <2>1, <2>3, <2>5
<1>10. QED
  BY <1>2, <1>8, <1>9

\* Nothing known of the registers.
LEMMA UnknownFile == AllUnknown \in RegFile /\ \A r \in 0 .. 15 : AllUnknown[r] = Unknown
<1>1. Unknown \in Value
  BY DEF Unknown, Value
<1>2. QED
  BY <1>1 DEF AllUnknown, RegFile

\* An address off by b moves at most is off by c at most.
LEMMA GoodMore ==
  ASSUME NEW R, NEW B \in SUBSET (0 .. 15), NEW b \in Nat, NEW c \in Nat, b <= c, Good(R, B, b)
  PROVE  Good(R, B, c)
<1>1. R \in RegFile
  BY DEF Good
<1>2. ASSUME NEW r \in B
      PROVE  InData(R[r]) /\ R[r].drift <= c
  <2>1. R[r] \in Value /\ InData(R[r]) /\ R[r].drift <= b
    BY <1>1 DEF Good, RegFile
  <2>2. R[r].drift \in Nat
    BY <2>1 DEF Value
  <2>3. QED
    BY <2>1, <2>2
<1>3. QED
  BY <1>1, <1>2 DEF Good

\* A new block starts with the registers genMemInstrs sets.
LEMMA BlockKnown ==
  ASSUME Block \/ EndBlock
  PROVE  Known'
<1>1. CASE EndBlock
  <2>1. blk' = NoBlock /\ regs' = AllUnknown
    BY <1>1 DEF EndBlock
  <2>2. ~Bare'
    BY <2>1 DEF Bare, NoBlock
  <2>3. QED
    BY <2>1, <2>2, UnknownFile DEF Known
<1>2. CASE genInstrs \/ genMulShiftInstrs \/ genALUwritePC \/ main
  <2>1. blk'.type # "mem" /\ regs' = [r \in 0 .. 15 |-> IF r \in {} THEN DataAddress ELSE Unknown]
    BY <1>2 DEF genInstrs, genMulShiftInstrs, genALUwritePC, main, Begin
  <2>2. regs' = AllUnknown
    BY <2>1 DEF AllUnknown
  <2>3. QED
    BY <2>1, <2>2, UnknownFile DEF Known, Bare
<1>3. CASE genMemInstrs
  <2>1. PICK isARM \in BOOLEAN, reg \in {"R_0_3", "R_4_7", "R_8_12", "R_SP", "R_DEFAULT"} :
          /\ reg \in {"R_8_12", "R_SP"} => isARM
          /\ Begin([type |-> "mem", isARM |-> isARM, reg |-> reg], PresetRegs(reg))
    BY <1>3 DEF genMemInstrs
  <2>2. /\ blk'.type = "mem" /\ blk'.isARM = isARM /\ blk'.reg = reg /\ cnt' = 0
        /\ regs' = [r \in 0 .. 15 |-> IF r \in PresetRegs(reg) THEN DataAddress ELSE Unknown]
    BY <2>1 DEF Begin
  <2>3. CASE reg \in {"R_8_12", "R_DEFAULT"}
    <3>1. PresetRegs(reg) = {} /\ AllowFix(reg)
      BY <2>3 DEF PresetRegs, AllowFix
    <3>2. regs' = AllUnknown
      BY <2>2, <3>1 DEF AllUnknown
    <3>3. QED
      BY <2>2, <3>1, <3>2, UnknownFile DEF Known, Bare
  <2>4. CASE reg \in {"R_0_3", "R_4_7", "R_SP"}
    <3>1. Bare'
      BY <2>2, <2>4 DEF Bare, AllowFix
    <3>2. BaseRegs(blk)' \subseteq PresetRegs(reg) /\ BaseRegs(blk)' \subseteq 0 .. 15
      BY <2>1, <2>2, <2>4 DEF BaseRegs, PresetRegs
    <3>3. DataAddress \in Value /\ Unknown \in Value
      BY DEF DataAddress, Unknown, Value, MemLimit
    <3>4. regs' \in RegFile
      BY <2>2, <3>3 DEF RegFile
    <3>5. InData(DataAddress) /\ DataAddress.drift <= 0
      BY DEF InData, DataAddress, MemLimit
    <3>6. \A r \in BaseRegs(blk)' : regs'[r] = DataAddress
      BY <2>2, <3>2
    <3>7. \A r \in BaseRegs(blk)' : InData(regs'[r]) /\ regs'[r].drift <= 0
      BY <3>5, <3>6
    <3>8. Good(regs, BaseRegs(blk), cnt)'
      BY <2>2, <3>4, <3>7 DEF Good
    <3>9. QED
      BY <3>1, <3>4, <3>8 DEF Known
  <2>5. QED
    BY <2>1, <2>3, <2>4
<1>4. QED
  BY <1>1, <1>2, <1>3 DEF Block

\* An instruction asked for by kind is delivered only if its word is VALID,
\* and as it is.
LEMMA KindValid ==
  ASSUME IInv, pc = "append", req.by = "kind"
  PROVE  status = "VALID" /\ Emitted = word
<1>1. status = "VALID"
  BY DEF IInv, Decided, Usable, Asked, Running
<1>2. blk.type # "pc"
  BY DEF IInv, Twins, Running, ByOpcode
<1>3. QED
  BY <1>1, <1>2 DEF Emitted

\* After a delivered instruction the bases are still in the data, moved at
\* most once more, which the lines counted for it make up for.
LEMMA DeliverKnown ==
  ASSUME IInv, Requested, Fetched, Coded, Known, Deliver
  PROVE  Known'
<1>1. /\ pc = "append" /\ blk' = blk /\ req' = req
      /\ regs' = [r \in 0 .. 15 |-> IF req.allow_fix THEN Unknown
                                    ELSE After(regs, buf, Len(buf), op, Emitted)[r]]
  BY DEF Deliver
<1>2. req.allow_fix = ~Bare /\ req.allow_fix \in BOOLEAN /\ (Bare' <=> Bare)
  BY <1>1 DEF Requested, Running, IInv, Types, ReqType, Bare
<1>3. CASE ~Bare
  <2>1. regs' = AllUnknown
    BY <1>1, <1>2, <1>3 DEF AllUnknown
  <2>2. QED
    BY <1>2, <1>3, <2>1, UnknownFile DEF Known
<1>4. CASE Bare
  <2>1. blk.type = "mem" /\ req.by = "kind"
    BY <1>1, <1>4 DEF Requested, Running, Bare
  <2>2. status = "VALID" /\ Emitted = word
    BY <1>1, <2>1, KindValid
  <2>3. PICK ks \in Seq(LineType) :
          buf = ks \o <<TheWord>> /\ Good(Final(regs, ks, op, word), BaseRegs(blk), cnt)
    BY <1>1, <1>4, <2>1, <2>2, DeliveredCode
  <2>4. PICK last \in LineType : last = TheWord
    BY WordLine, Zenon
  <2>5. Len(ks) \in Nat /\ Len(buf) = Len(ks) + 1
    BY <2>3, <2>4
  <2>6. After(regs, buf, Len(buf), op, word) = Executed(Final(regs, ks, op, word), TheWord, op, word)
    BY <2>3, <2>4, FinalAppend DEF Final
  <2>7. Loads(op, word) \cap BaseRegs(blk) = {}
    BY <1>1, <1>4, <2>1, <2>2 DEF Fetched, Placed
  <2>8. cnt \in Nat /\ cnt' = cnt + Len(buf) /\ BaseRegs(blk) \in SUBSET (0 .. 15)
    BY <2>1, RitLibAssumption, BaseRegsType DEF IInv, Types, TypeOK, Deliver, Reinit
  <2>9. PICK Q : Q = Executed(Final(regs, ks, op, word), TheWord, op, word)
    OBVIOUS
  <2>10. Good(Q, BaseRegs(blk), cnt + 1)
    BY <2>3, <2>7, <2>8, <2>9, WordRun
  <2>11. Q \in RegFile
    BY <2>10 DEF Good
  <2>12. regs' = Q
    <3>1. regs' = [r \in 0 .. 15 |-> Q[r]]
      BY <1>1, <1>2, <1>4, <2>2, <2>6, <2>9
    <3>2. QED
      BY <2>11, <3>1 DEF RegFile
  <2>13. Good(Q, BaseRegs(blk), cnt')
    <3>1. cnt + 1 \in Nat /\ cnt' \in Nat /\ cnt + 1 <= cnt'
      BY <2>5, <2>8
    <3>2. QED
      BY <2>8, <2>10, <3>1, GoodMore
  <2>14. QED
    BY <1>1, <1>2, <1>4, <2>11, <2>12, <2>13 DEF Known
<1>5. QED
  BY <1>3, <1>4

\* Every step keeps what is known of the registers: a load writes no base
\* of the block, a writeback moves one and the word counts as a line, and
\* between blocks nothing is known.
LEMMA NextKnown == IInv /\ Requested /\ Fetched /\ Coded /\ Known /\ [Next]_vars => Known'
<1>1. SUFFICES ASSUME IInv, Requested, Fetched, Coded, Known, [Next]_vars PROVE Known'
  OBVIOUS
<1>2. CASE Block \/ EndBlock
  BY <1>2, BlockKnown
<1>3. CASE Deliver
  BY <1>1, <1>3, DeliverKnown
<1>4. CASE Fail
  <2>1. blk' = blk /\ regs' = regs
    BY <1>4 DEF Fail
  <2>2. cnt \in Nat /\ cnt' \in Nat /\ cnt <= cnt' /\ BaseRegs(blk) \in SUBSET (0 .. 15)
    BY <1>1, <1>4, RitLibAssumption, BaseRegsType DEF IInv, Types, TypeOK, Fail, Reinit
  <2>3. Bare => Good(regs, BaseRegs(blk), cnt')
    BY <1>1, <2>2, GoodMore DEF Known
  <2>4. QED
    BY <1>1, <2>1, <2>3 DEF Known, Bare
<1>5. CASE UNCHANGED <<blk, regs, cnt>>
  BY <1>1, <1>5 DEF Known, Bare
<1>6. CASE AskMem \/ AskAny \/ AskMulShift \/ AskMain \/ AskLr \/ AskPc
  <2>1. UNCHANGED <<blk, regs, cnt>>
    BY <1>6 DEF AskMem, AskAny, AskMulShift, AskMain, AskLr, AskPc, Ask
  <2>2. QED
    BY <1>5, <2>1
<1>7. CASE py_gen_instr \/ py_gen_instr_with_op \/ gen_instr \/ output_instr \/ Accept \/ Again \/ UNCHANGED vars
  <2>1. UNCHANGED <<blk, regs, cnt>>
    BY <1>7 DEF py_gen_instr, py_gen_instr_with_op, gen_instr, output_instr, Accept, Again, vars
  <2>2. QED
    BY <1>5, <2>1
<1>8. QED
  BY <1>1, <1>2, <1>3, <1>4, <1>6, <1>7 DEF Next, Step

\* The invariant about the data, next to IInv.
DInv == Requested /\ Fetched /\ Coded /\ Known

\* It holds in every state of the generator.
LEMMA DataInductive == Spec => []DInv
<1>1. Init => DInv
  <2>1. Init => Requested /\ Fetched /\ Coded
    BY DEF Init, Requested, Fetched, Coded, Running, Taken, NoBlock
  <2>2. Init => Known
    BY UnknownFile DEF Init, Known, Bare, NoBlock
  <2>3. QED
    BY <2>1, <2>2 DEF DInv
<1>2. IInv /\ DInv /\ [Next]_vars => DInv'
  BY NextRequested, NextFetched, NextKnown DEF DInv
<1>3. QED
  BY <1>1, <1>2, Inductive, PTL DEF Spec

\* When the word of a memory access runs, its base is an address of the
\* data: exactly, where the code of fix_mem_base is kept, and off by no more
\* than the writebacks of the block where parseRIT drops it, because
\* genMemInstrs set the registers and asks for no load that writes one; it
\* is aligned where the access must be; and the shifted offset has 12 bits.
THEOREM AccessesInData == Spec => []AccessInData
<1>1. ASSUME IInv, DInv, pc = "append", HasBase(op)
      PROVE  LET at == After(regs, buf, Len(buf) - 1, op, Emitted)
                 base == at[Base(op, Emitted)]
             IN  /\ InData(base)
                 /\ base.drift <= IF req.allow_fix THEN 0 ELSE cnt
                 /\ ForceAlign(op) => Aligned(base)
                 /\ OffsetReg(op) =>
                      ShiftedBits(Amount(word.sh), Word32 \ at[word.m].zeros, word.c # 3) \subseteq 0 .. 11
  <2>1. req.by = "kind"
    <3>1. req.by \in {"kind", "op"}
      BY <1>1 DEF IInv, Asked, Running
    <3>2. req.by = "op" => op = req.form /\ ~HasBase(req.form)
      BY <1>1 DEF IInv, Chosen, Taken, DInv, Requested, Running
    <3>3. QED
      BY <1>1, <3>1, <3>2
  <2>2. status = "VALID" /\ Emitted = word
    BY <1>1, <2>1, KindValid
  <2>3. PICK ks \in Seq(LineType) :
          /\ buf = ks \o <<TheWord>>
          /\ Ready(Final(regs, ks, op, word), op, word, IF req.allow_fix THEN 0 ELSE cnt)
    BY <1>1, <2>1, <2>2, DeliveredCode DEF DInv
  <2>4. PICK last \in LineType : last = TheWord
    BY WordLine, Zenon
  <2>5. PICK at : at = After(regs, buf, Len(buf) - 1, op, Emitted)
    OBVIOUS
  <2>6. at = Final(regs, ks, op, word)
    <3>1. Len(ks) \in Nat /\ Len(buf) = Len(ks) + 1
      BY <2>3, <2>4
    <3>2. Len(buf) - 1 = Len(ks)
      BY <3>1
    <3>3. After(regs, buf, Len(ks), op, word) = After(regs, ks, Len(ks), op, word)
      BY <2>3, <2>4, AfterAppend
    <3>4. QED
      BY <2>2, <2>5, <3>2, <3>3, Zenon DEF Final
  <2>7. /\ InData(at[Base(op, word)]) /\ at[Base(op, word)].drift <= IF req.allow_fix THEN 0 ELSE cnt
        /\ ForceAlign(op) => Aligned(at[Base(op, word)])
        /\ OffsetReg(op) => at[word.m] = Within(OffsetMask(op, word))
    BY <2>3, <2>6 DEF Ready
  <2>8. ASSUME OffsetReg(op)
        PROVE  ShiftedBits(Amount(word.sh), Word32 \ at[word.m].zeros, word.c # 3) \subseteq 0 .. 11
    <3>1. word \in Words /\ word.sh \in ShiftSample(op) /\ op \in Forms
      BY <1>1, <2>1, <2>2 DEF DInv, Fetched, Sampled
    <3>2. ASSUME Shifted(op), word.sh = RRX
          PROVE  word.c = 3
      <4>1. CASE blk.isARM
        BY <1>1, <2>1, <2>2, <3>2, <4>1 DEF IInv, Decided
      <4>2. CASE ~blk.isARM
        <5>1. InstrSet(op) = THUMB
          BY <1>1, <2>1, <3>1, <4>2, NoForm DEF IInv, Chosen, Taken, IsaOf
        <5>2. op.gen = "thumb32_mem_reg"
          BY <3>2, <5>1 DEF Shifted, InstrSet, T16Gens, T32Gens, ARM, THUMB
        <5>3. QED
          BY <3>1, <3>2, <5>2 DEF ShiftSample, RRX
      <4>3. QED
        BY <4>1, <4>2
    <3>3. ShiftedBits(Amount(word.sh), Word32 \ Within(OffsetMask(op, word)).zeros, word.c # 3) \subseteq 0 .. 11
      BY <2>8, <3>1, <3>2, OffsetTwelve
    <3>4. QED
      BY <2>7, <2>8, <3>3
  <2>9. QED
    BY <2>2, <2>5, <2>7, <2>8
<1>2. IInv /\ DInv => AccessInData
  BY <1>1 DEF AccessInData
<1>3. QED
  BY <1>2, Inductive, DataInductive, PTL
=============================================================================
