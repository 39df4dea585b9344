------------------------------ MODULE InstrForms ------------------------------
(***************************************************************************)
(* The forms of instruction the C library generates: which generator       *)
(* function each reaches (gen_instr, gen_thumb32_instr), which operands    *)
(* its word has, which of them preprocess_instr writes, and what the       *)
(* processor does with it.  A form is [gen |-> ..., v |-> ...], see        *)
(* InstrStatus.                                                            *)
(***************************************************************************)
EXTENDS InstrStatus, Integers

CONSTANTS
  Regs,      \* the registers a drawn memory access may name
  ClassRegs, \* the registers drawn from the classes r0-r3, r4-r7 and r8-r12
  DataRegs,  \* the registers any other instruction may name
  ListRegs,  \* the registers a register list may hold
  Shifts     \* the shifts <<type, amount>> of an offset register

ASSUME SampleAssumption ==
  /\ Regs \subseteq 0 .. 15 /\ ClassRegs \subseteq 0 .. 12
  /\ DataRegs \subseteq 0 .. 15 /\ ListRegs \subseteq 0 .. 15
  /\ Shifts \subseteq (0 .. 3) \X (0 .. 32)

ARM == "ARM"
THUMB == "THUMB"

\* The cases of every generator function.  "wait" of thumb32_hint is WFI and
\* CLREX, and stands for the Thumb groups that are never supported.
Variants ==
  [ld_imm          |-> {"LDR", "LDRB", "LDRD"},
   ld_unpriv_imm   |-> {"LDRT"},
   ld_reg          |-> {"LDR", "LDRB", "LDRH", "LDRD"},
   ld_unpriv_reg   |-> {"LDRT", "LDRHT"},
   ld_lit          |-> {"LDR", "LDRB", "LDRD"},
   st_imm          |-> {"STR", "STRB", "STRD"},
   st_unpriv_imm   |-> {"STR", "STRB"},
   st_reg          |-> {"STR", "STRB", "STRH", "STRD"},
   st_unpriv_reg   |-> {"STR", "STRH"},
   ldm             |-> {"LDM", "LDMDA"},
   stm             |-> {"STM", "STMDB"},
   push            |-> {"a1", "a2"},
   pop             |-> {"a1", "a2"},
   misc            |-> {"SWP", "CLZ", "ADR", "SVC"},
   data            |-> {"rsh", "rsh_cmp", "shift_reg", "plain", "plain_cmp"},
   mul             |-> {"mul", "mla", "long"},
   uncategorized   |-> {"parallel", "extadd", "ext", "sat", "pkh", "bfx", "bfc", "usada8",
                        "sel", "mrs", "msr_imm", "msr_reg", "pld_imm", "pld_reg"},
   empty           |-> {"wait", "nop"},
   ldex            |-> {"W", "D"},
   stex            |-> {"W", "D"},
   thumb_mem       |-> {"LDR_imm", "LDR_sp", "LDR_reg", "LDR_lit",
                        "STR_imm", "STR_sp", "STR_reg"},
   thumb_multi_mem |-> {"LDM", "STM", "POP", "PUSH"},
   thumb_data      |-> {"cmp_hi", "hi", "lo", "cmp"},
   thumb_misc      |-> {"ADR", "SVC"},
   thumb_low       |-> {"mul", "ext", "reverse"},
   thumb_empty     |-> {"wait", "nop"},
   thumb32_multi_mem        |-> {"LDM", "STM", "POP", "PUSH"},
   thumb32_ld_imm           |-> {"LDR", "LDR_T4", "LDRB", "LDRB_T3", "POP", "LDRT", "LDRD"},
   thumb32_st_imm           |-> {"STR", "STR_T4", "STRB", "STRB_T3", "PUSH", "STRD"},
   thumb32_mem_reg          |-> {"LDR", "LDRB", "STR", "STRB"},
   thumb32_mem_lit          |-> {"LDR", "LDRD", "LDRB"},
   thumb32_mem_ex           |-> {"LDREX", "LDREXD", "STREX", "STREXD"},
   thumb32_mem_preload      |-> {"imm", "reg", "lit"},
   thumb32_data_shifted_reg |-> {"dnm", "PKH", "TST", "CMP", "dm", "MOV"},
   thumb32_data_mimm        |-> {"dn", "ADD_sp", "TST", "ORR", "MOV", "CMP"},
   thumb32_data_pimm        |-> {"MOV", "ADD_sp", "BFI", "dn", "dnx"},
   thumb32_data_reg         |-> {"dnm", "dm"},
   thumb32_data_parallel    |-> {"dnm"},
   thumb32_data_misc        |-> {"dm"},
   thumb32_data_mul         |-> {"mul", "mla", "long", "div"},
   thumb32_sr               |-> {"MSR", "MRS"},
   thumb32_hint             |-> {"wait", "nop"}]

Forms == UNION {{[gen |-> g, v |-> v] : v \in Variants[g]} : g \in DOMAIN Variants}

\* SISA_OP_NA, what get_random_op returns for a kind without opcodes.
NA == [gen |-> "na", v |-> "na"]

T16Gens == {"thumb_mem", "thumb_multi_mem", "thumb_data", "thumb_misc", "thumb_low",
            "thumb_empty"}
T32Gens == {"thumb32_multi_mem", "thumb32_ld_imm", "thumb32_st_imm", "thumb32_mem_reg",
            "thumb32_mem_lit", "thumb32_mem_ex", "thumb32_mem_preload",
            "thumb32_data_shifted_reg", "thumb32_data_mimm", "thumb32_data_pimm",
            "thumb32_data_reg", "thumb32_data_parallel", "thumb32_data_misc",
            "thumb32_data_mul", "thumb32_sr", "thumb32_hint"}

InstrSet(f) == IF f.gen \in T16Gens \cup T32Gens THEN THUMB ELSE ARM

\* Three-bit register fields.
Low(f) == f.gen \in T16Gens /\ ~(f.gen = "thumb_data" /\ f.v \in {"cmp_hi", "hi"})

-----------------------------------------------------------------------------
(* gen_instr: the generator function an opcode reaches.                     *)

gen_thumb32_instr(f, i) ==
  CASE f.gen = "thumb32_multi_mem"        -> thumb32_multi_mem(f.v, i)
    [] f.gen = "thumb32_ld_imm"           -> thumb32_ld_imm(f.v, i)
    [] f.gen = "thumb32_st_imm"           -> thumb32_st_imm(f.v, i)
    [] f.gen = "thumb32_mem_reg"          -> thumb32_mem_reg(f.v, i)
    [] f.gen = "thumb32_mem_lit"          -> thumb32_mem_lit(f.v, i)
    [] f.gen = "thumb32_mem_ex"           -> thumb32_mem_ex(f.v, i)
    [] f.gen = "thumb32_mem_preload"      -> thumb32_mem_preload(f.v, i)
    [] f.gen = "thumb32_data_shifted_reg" -> thumb32_data_shifted_reg(f.v, i)
    [] f.gen = "thumb32_data_mimm"        -> thumb32_data_mimm(f.v, i)
    [] f.gen = "thumb32_data_pimm"        -> thumb32_data_pimm(f.v, i)
    [] f.gen = "thumb32_data_reg"         -> thumb32_data_reg(f.v, i)
    [] f.gen = "thumb32_data_parallel"    -> thumb32_data_parallel(i)
    [] f.gen = "thumb32_data_misc"        -> thumb32_data_misc(i)
    [] f.gen = "thumb32_data_mul"         -> thumb32_data_mul(f.v, i)
    [] f.gen = "thumb32_sr"               -> thumb32_sr(f.v, i)
    [] f.gen = "thumb32_hint"             -> empty(f.v)

gen_thumb_instr(f, i) ==
  CASE f.gen = "thumb_mem"       -> thumb_mem(f.v, i)
    [] f.gen = "thumb_multi_mem" -> thumb_multi_mem(f.v, i)
    [] f.gen = "thumb_data"      -> thumb_data(f.v, i)
    [] f.gen = "thumb_misc"      -> (IF f.v = "SVC" THEN "UNSUPPORTED" ELSE "VALID")
    [] f.gen = "thumb_low"       -> "VALID"
    [] f.gen = "thumb_empty"     -> empty(f.v)

gen_arm_instr(f, i) ==
  CASE f.gen = "ld_imm"        -> ld_imm(f.v, i)
    [] f.gen = "ld_unpriv_imm" -> ld_unpriv_imm(i)
    [] f.gen = "ld_reg"        -> ld_reg(f.v, i)
    [] f.gen = "ld_unpriv_reg" -> ld_unpriv_reg(i)
    [] f.gen = "ld_lit"        -> ld_lit(f.v, i)
    [] f.gen = "st_imm"        -> st_imm(f.v, i)
    [] f.gen = "st_unpriv_imm" -> st_unpriv_imm(f.v, i)
    [] f.gen = "st_reg"        -> st_reg(f.v, i)
    [] f.gen = "st_unpriv_reg" -> st_unpriv_reg(f.v, i)
    [] f.gen = "ldm"           -> ldm(f.v, i)
    [] f.gen = "stm"           -> stm(f.v, i)
    [] f.gen = "push"          -> push(f.v, i)
    [] f.gen = "pop"           -> pop(f.v, i)
    [] f.gen = "misc"          -> misc(f.v, i)
    [] f.gen = "data"          -> data(f.v, i)
    [] f.gen = "mul"           -> mul(f.v, i)
    [] f.gen = "uncategorized" -> uncategorized(f.v, i)
    [] f.gen = "empty"         -> empty(f.v)
    [] f.gen = "ldex"          -> ldex(f.v, i)
    [] f.gen = "stex"          -> stex(f.v, i)

gen_status(f, i) ==
  IF f = NA THEN "UNSUPPORTED"
  ELSE IF f.gen \in T16Gens THEN gen_thumb_instr(f, i)
  ELSE IF f.gen \in T32Gens THEN gen_thumb32_instr(f, i)
  ELSE gen_arm_instr(f, i)

-----------------------------------------------------------------------------
(***************************************************************************)
(* The opcode tables: what kind an opcode is of, and which operands it     *)
(* has.  REG_OP stands for the kinds whose opcodes use registers only.     *)
(***************************************************************************)
Kind(f) ==
  CASE f.gen \in {"ld_imm", "ld_unpriv_imm", "ld_reg", "ld_unpriv_reg", "ld_lit",
                  "thumb32_mem_lit"}                                -> "LD_OP"
    [] f.gen \in {"st_imm", "st_unpriv_imm", "st_reg", "st_unpriv_reg"} -> "ST_OP"
    [] f.gen = "thumb_mem" -> IF f.v \in {"STR_imm", "STR_sp", "STR_reg"} THEN "ST_OP" ELSE "LD_OP"
    [] f.gen = "thumb32_mem_reg" -> IF f.v \in {"STR", "STRB"} THEN "ST_OP" ELSE "LD_OP"
    [] f.gen = "thumb32_ld_imm" -> IF f.v = "POP" THEN "POP_OP" ELSE "LD_OP"
    [] f.gen = "thumb32_st_imm" -> IF f.v = "PUSH" THEN "PUSH_OP" ELSE "ST_OP"
    [] f.gen = "ldm"  -> "LDM_OP"
    [] f.gen = "stm"  -> "STM_OP"
    [] f.gen = "push" -> "PUSH_OP"
    [] f.gen = "pop"  -> "POP_OP"
    [] f.gen \in {"thumb_multi_mem", "thumb32_multi_mem"} ->
         (CASE f.v = "LDM"  -> "LDM_OP" [] f.v = "STM" -> "STM_OP"
            [] f.v = "PUSH" -> "PUSH_OP" [] f.v = "POP" -> "POP_OP")
    [] f.gen = "ldex" -> "LDREX_OP"
    [] f.gen = "stex" -> "STREX_OP"
    [] f.gen = "thumb32_mem_ex" -> IF f.v \in {"LDREX", "LDREXD"} THEN "LDREX_OP" ELSE "STREX_OP"
    [] f.gen = "misc" /\ f.v = "SWP" -> "MISC_OP"
    [] OTHER -> "REG_OP"

Kinds == {"LD_OP", "ST_OP", "LDM_OP", "STM_OP", "PUSH_OP", "POP_OP", "LDREX_OP",
          "STREX_OP", "MISC_OP", "REG_OP"}

\* get_random_op: the opcodes of a kind in the range of the instruction set.
OpsOf(kind, isa) == {f \in Forms : InstrSet(f) = isa /\ Kind(f) = kind}

get_random_op(kind, isa) == IF OpsOf(kind, isa) = {} THEN {NA} ELSE OpsOf(kind, isa)

\* The base is always the stack pointer.
SpBase(f) ==
  \/ f.gen \in {"push", "pop"}
  \/ f.gen = "thumb_mem" /\ f.v \in {"LDR_sp", "STR_sp"}
  \/ f.gen \in {"thumb_multi_mem", "thumb32_multi_mem"} /\ f.v \in {"POP", "PUSH"}
  \/ f.gen = "thumb32_ld_imm" /\ f.v = "POP"
  \/ f.gen = "thumb32_st_imm" /\ f.v = "PUSH"

\* The base is register n.
RegBase(f) ==
  \/ f.gen \in {"ld_imm", "ld_unpriv_imm", "ld_reg", "ld_unpriv_reg", "st_imm",
                "st_unpriv_imm", "st_reg", "st_unpriv_reg", "ldm", "stm", "ldex", "stex",
                "thumb32_mem_reg", "thumb32_mem_ex"}
  \/ f.gen = "misc" /\ f.v = "SWP"
  \/ f.gen = "thumb_mem" /\ f.v \in {"LDR_imm", "LDR_reg", "STR_imm", "STR_reg"}
  \/ f.gen \in {"thumb_multi_mem", "thumb32_multi_mem", "thumb32_ld_imm",
                "thumb32_st_imm"} /\ ~SpBase(f)

HasBase(f) == SpBase(f) \/ RegBase(f)
Base(f, i) == IF SpBase(f) THEN 13 ELSE i.n

\* Register m holds the offset.
OffsetReg(f) ==
  \/ f.gen \in {"ld_reg", "ld_unpriv_reg", "st_reg", "st_unpriv_reg", "thumb32_mem_reg"}
  \/ f.gen = "thumb_mem" /\ f.v \in {"LDR_reg", "STR_reg"}

\* The offset register is shifted.
Shifted(f) ==
  \/ f.gen \in {"ld_reg", "st_reg"} /\ f.v \in {"LDR", "LDRB", "STR", "STRB"}
  \/ f.gen \in {"ld_unpriv_reg", "st_unpriv_reg"} /\ f.v \in {"LDRT", "STR"}
  \/ f.gen = "thumb32_mem_reg"

HasList(f) ==
  \/ f.gen \in {"ldm", "stm", "thumb_multi_mem", "thumb32_multi_mem"}
  \/ f.gen \in {"push", "pop"} /\ f.v = "a1"

\* The access needs an aligned base.
ForceAlign(f) ==
  \/ f.gen \in {"ld_imm", "ld_reg", "st_imm", "st_reg", "thumb32_ld_imm", "thumb32_st_imm"}
       /\ f.v \in {"LDRD", "STRD"}
  \/ f.gen \in {"ldm", "stm", "push", "pop", "ldex", "stex", "thumb_multi_mem",
                "thumb32_multi_mem", "thumb32_mem_ex"}
  \/ f.gen = "misc" /\ f.v = "SWP"

\* The generator function fixes the base before it has looked at the status.
FixAnyway(f) ==
  \/ f.gen \in {"thumb_multi_mem", "thumb32_multi_mem", "thumb32_ld_imm", "thumb32_st_imm",
                "thumb32_mem_reg", "thumb32_mem_ex", "ldex", "stex"}
  \/ f.gen = "thumb_mem" /\ ~OffsetReg(f)

\* The word has no destination register.
Compares(f) ==
  \/ f.gen \in {"data", "thumb_data"} /\ f.v \in {"rsh_cmp", "plain_cmp", "cmp_hi", "cmp"}
  \/ f.gen \in {"thumb32_data_shifted_reg", "thumb32_data_mimm"} /\ f.v \in {"TST", "CMP"}
  \/ f.gen = "uncategorized" /\ f.v \in {"msr_imm", "msr_reg", "pld_imm", "pld_reg"}
  \/ f.gen = "misc" /\ f.v = "SVC"
  \/ f.gen \in {"empty", "thumb_empty", "thumb32_hint", "thumb32_mem_preload"}
  \/ f.gen = "thumb_misc" /\ f.v = "SVC"
  \/ f.gen = "thumb32_sr" /\ f.v = "MSR"

-----------------------------------------------------------------------------
(* The words of a form: the operands that tell its cases apart.             *)

\* c is the condition field; register 16 is none.
Words == [t : 0 .. 16, n : 0 .. 16, m : 0 .. 16, a : 0 .. 16, P : BOOLEAN, W : BOOLEAN,
          S : BOOLEAN, x : BOOLEAN, list : SUBSET (0 .. 15), sh : (0 .. 3) \X (0 .. 32), c : 0 .. 14]

RegSample(f) ==
  IF HasBase(f) THEN (IF Low(f) THEN Regs \cap 0 .. 7 ELSE Regs)
                ELSE (IF Low(f) THEN DataRegs \cap 0 .. 7 ELSE DataRegs)

\* The registers the list of the encoding can name.
ListSample(f) ==
  CASE f.gen = "thumb_multi_mem" ->
         ListRegs \cap (0 .. 7 \cup (IF f.v = "POP" THEN {15} ELSE IF f.v = "PUSH" THEN {14} ELSE {}))
    [] f.gen = "thumb32_multi_mem" /\ f.v = "LDM" -> ListRegs \ {13}
    [] f.gen = "thumb32_multi_mem" /\ f.v = "STM" -> ListRegs \ {13, 15}
    [] OTHER -> ListRegs

\* The offset of a Thumb-2 access is shifted left by up to 3.
ShiftSample(f) ==
  IF ~Shifted(f) THEN {<<0, 0>>}
  ELSE IF f.gen = "thumb32_mem_reg" THEN {s \in Shifts : s[1] = 0 /\ s[2] <= 3}
  ELSE Shifts

\* The forms whose bits P and W are free.
Indexed(f) ==
  \/ f.gen \in {"ld_imm", "ld_reg", "st_imm", "st_reg"}
  \/ f.gen \in {"thumb32_ld_imm", "thumb32_st_imm"}
       /\ f.v \in {"LDR_T4", "LDRB_T3", "LDRD", "STR_T4", "STRB_T3", "STRD"}

\* The words of a form; the fields of skip are not drawn, as they are about
\* to be overwritten.
Operands(f, skip) ==
  LET R == RegSample(f)
      Free(k, isFree) == IF isFree /\ k \notin skip THEN R ELSE {0}
      Bit(isFree) == IF isFree THEN BOOLEAN ELSE {FALSE}
      second == \/ f.v \in {"LDRD", "STRD", "LDREXD", "STREXD"} /\ f.gen \in T32Gens
                \/ f.v \in {"SWP", "usada8", "rsh", "rsh_cmp", "mla", "long"} \/ f.gen = "stex"
  IN  [t    : Free("t", ~HasList(f)),
       n    : IF SpBase(f) THEN {13} ELSE Free("n", TRUE),
       m    : Free("m", OffsetReg(f) \/ ~HasBase(f) \/ f.gen = "thumb32_mem_ex"),
       a    : Free("a", second),
       P    : Bit(Indexed(f)),
       W    : IF SpBase(f) /\ HasList(f) THEN {TRUE}
              ELSE Bit(Indexed(f) \/ f.gen \in {"ldm", "stm", "thumb32_multi_mem"}),
       S    : Bit(f.gen \in {"data", "mul", "thumb32_data_shifted_reg"} /\ ~Compares(f)),
       x    : Bit(f.v \in {"LDR", "LDR_T4", "LDRB_T3", "STR", "STR_T4", "STRB_T3"} \/ ~HasBase(f)),
       list : IF HasList(f) THEN SUBSET ListSample(f) ELSE {{}},
       sh   : ShiftSample(f),
       c    : {0}]


-----------------------------------------------------------------------------
(***************************************************************************)
(* preprocess_instr: the operands that are drawn again from the classes of *)
(* source and destination registers asked for.                             *)
(***************************************************************************)
Members(class) ==
  CASE class = "R_0_3"  -> ClassRegs \cap 0 .. 3
    [] class = "R_4_7"  -> ClassRegs \cap 4 .. 7
    [] class = "R_8_12" -> ClassRegs \cap 8 .. 12
    [] class = "R_SP"   -> {13}
    [] class = "R_LR"   -> {14}
    [] class = "R_PC"   -> {15}

RegClasses == {"R_0_3", "R_4_7", "R_8_12", "R_SP", "R_LR", "R_PC"}

\* update_instr_reg_opnd on the register fields F of word i: each is drawn
\* on its own and cut to the width of the field.
update_instr_reg_opnd(f, i, F, class) ==
  {[k \in DOMAIN i |-> IF k \in F THEN (IF Low(f) THEN draw[k] % 8 ELSE draw[k]) ELSE i[k]] :
     draw \in [F -> Members(class)]}

\* ... and on a register list: the bit of the register is set.  (The extra bit
\* of a Thumb PUSH or POP is left out: those are never asked for with a class.)
AddToList(f, i, class) ==
  {[i EXCEPT !.list = @ \cup {IF f.gen = "thumb_multi_mem" THEN r % 8 ELSE r}] : r \in Members(class)}

r_offset(src) == IF src = "R_0_3" THEN "R_4_7" ELSE "R_0_3"

\* The list of a load-multiple loses the class its base comes from.
ClearedBits(f, src) ==
  CASE src = "R_0_3"  -> 0 .. 3
    [] src = "R_4_7"  -> 4 .. 7
    [] src = "R_8_12" -> IF f.gen = "thumb_multi_mem" THEN {} ELSE 8 .. 12
    [] src = "R_LR"   -> IF f.gen = "thumb_multi_mem" THEN {} ELSE {14}
    [] OTHER          -> {}

set_mem_src_reg(f, i, src) ==
  LET based == IF RegBase(f) THEN update_instr_reg_opnd(f, i, {"n"}, src) ELSE {i}
  IN  IF Kind(f) = "LDM_OP" THEN {[j EXCEPT !.list = @ \ ClearedBits(f, src)] : j \in based}
      ELSE IF OffsetReg(f)
        THEN UNION {update_instr_reg_opnd(f, j, {"m"}, r_offset(src)) : j \in based}
        ELSE based

\* The destination registers: of a double load in Thumb-2, and of a long
\* multiplication, there are two.
OutputFields(f) ==
  CASE Kind(f) \in {"ST_OP", "STM_OP", "PUSH_OP"} \/ HasList(f) -> {}
    [] f.gen = "stex"                                            -> {"a"}
    [] f.gen = "thumb32_mem_ex" /\ Kind(f) = "STREX_OP"          -> {"m"}
    [] \/ f.gen \in {"thumb32_ld_imm", "thumb32_mem_lit"} /\ f.v = "LDRD"
       \/ f.gen = "thumb32_mem_ex" /\ f.v = "LDREXD"
       \/ f.gen \in {"mul", "thumb32_data_mul"} /\ f.v = "long"  -> {"t", "a"}
    [] OTHER                                                     -> {"t"}

\* The source registers of a form that is not a load or a store of data.
\* Inputs the form does not have are harmless: nothing reads them.
InputFields(f) ==
  IF f.gen \in {"push", "thumb32_st_imm"} THEN {"t"}
  ELSE IF f.gen = "misc" /\ f.v = "SWP" THEN {"n", "a"}
  ELSE IF HasBase(f) THEN {}
  ELSE {"n", "m", "a"} \ OutputFields(f)

SetSrc(f, i, src) ==
  IF src = "R_DEFAULT" THEN {i}
  ELSE IF Kind(f) \in {"LD_OP", "LDREX_OP", "LDM_OP", "ST_OP", "STREX_OP", "STM_OP"}
    THEN set_mem_src_reg(f, i, src)
  ELSE IF Kind(f) = "PUSH_OP" /\ HasList(f) THEN AddToList(f, i, src)
  ELSE update_instr_reg_opnd(f, i, InputFields(f), src)

\* r12 has no successor a double load may name: bit 14 is cleared.
EvenPair(f, i, dst) ==
  IF dst = "R_8_12" /\ (f.gen = "ldex" \/ f.gen \in {"ld_imm", "ld_reg", "ld_lit"}) /\ f.v \in {"LDRD", "D"}
    THEN [i EXCEPT !.t = @ - 4 * ((@ \div 4) % 2)]
    ELSE i

SetDst(f, i, dst) ==
  IF dst = "R_DEFAULT" THEN {i}
  ELSE IF HasList(f) /\ Kind(f) \in {"POP_OP", "LDM_OP"} THEN AddToList(f, i, dst)
  ELSE {EvenPair(f, j, dst) : j \in update_instr_reg_opnd(f, i, OutputFields(f), dst)}

\* The fields that get a register of the classes asked for.
Overwritten(f, src, dst) ==
  (IF src = "R_DEFAULT" \/ ~HasBase(f) THEN {}
   ELSE IF Kind(f) \in {"PUSH_OP", "POP_OP", "MISC_OP"} THEN InputFields(f)
   ELSE (IF RegBase(f) THEN {"n"} ELSE {}) \cup (IF OffsetReg(f) THEN {"m"} ELSE {}))
  \cup (IF dst = "R_DEFAULT" THEN {} ELSE OutputFields(f))

preprocess_instr(f, i, src, dst) == UNION {SetDst(f, j, dst) : j \in SetSrc(f, i, src)}

-----------------------------------------------------------------------------
(***************************************************************************)
(* What the processor does with the word (the architecture, not code of    *)
(* the repository).                                                        *)
(***************************************************************************)
\* The word also loads the register after t.
LoadsNext(f) ==
  \/ f.gen \in {"ld_imm", "ld_reg", "ld_lit"} /\ f.v = "LDRD"
  \/ f.gen = "ldex" /\ f.v = "D"

\* The registers the word loads or computes.  PUSH_T3 has the table entry of
\* a load.
Loads(f, i) ==
  IF f.gen = "thumb32_st_imm" /\ f.v = "PUSH" THEN {i.t}
  ELSE IF Compares(f) \/ Kind(f) \in {"ST_OP", "STM_OP", "PUSH_OP"} THEN {}
  ELSE IF HasList(f) THEN i.list
  ELSE {i[k] : k \in OutputFields(f)} \cup (IF LoadsNext(f) THEN {i.t + 1} ELSE {})

\* The word moves its base.
WritesBack(f, i) ==
  \/ f.gen \in {"ld_imm", "ld_reg", "st_imm", "st_reg"} /\ Wback(i)
  \/ f.gen \in {"ld_unpriv_imm", "ld_unpriv_reg", "st_unpriv_imm", "st_unpriv_reg"}
  \/ f.gen \in {"ldm", "stm", "thumb32_multi_mem"} /\ i.W
  \/ f.gen \in {"push", "pop"}
  \/ f.gen = "thumb_multi_mem" /\ (f.v # "LDM" \/ i.n \notin i.list)
  \/ f.gen \in {"thumb32_ld_imm", "thumb32_st_imm"}
       /\ (f.v \in {"POP", "PUSH"} \/ (f.v \in {"LDR_T4", "LDRB_T3", "STR_T4", "STRB_T3", "LDRD", "STRD"} /\ i.W))

Writes(f, i) == Loads(f, i) \cup (IF WritesBack(f, i) THEN {Base(f, i)} ELSE {})
=============================================================================
