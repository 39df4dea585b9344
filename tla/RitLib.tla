-------------------------------- MODULE RitLib --------------------------------
(***************************************************************************)
(* The random instruction generator: the Python block generators           *)
(* (instrgen.py), the wrapper around the shared library (rit.py) and the   *)
(* library itself (InstrGenerator.c, RandomInstrGen.c), whose options      *)
(* outlive every call.                                                     *)
(*                                                                         *)
(* A block is filled by asking for one instruction after the other.  The   *)
(* wrapper calls the library up to maxretry times; the library draws the   *)
(* operands of a word again while its generator says UNSUPPORTED; the      *)
(* wrapper keeps the lines of a VALID word.  A random word is drawn when   *)
(* it is first looked at.  hexcode 0, which the library takes for no word, *)
(* is drawn with a chance of 2^-32 and left out.                           *)
(***************************************************************************)
EXTENDS MemAccess

CONSTANTS
  RETRY,      \* tries of gen_instr_with_op (8)
  MAXRETRY,   \* option maxretry (8)
  LIMIT,      \* lines asked for in a block
  MAX_INSTR,  \* the size of instr_buf (8)
  Conds,      \* the conditions asked for
  Sbits,      \* the S bits asked for
  SrcClasses  \* the classes of source registers the command line asks for

ASSUME RitLibAssumption ==
  /\ RETRY \in Nat \ {0} /\ MAXRETRY \in Nat \ {0} /\ LIMIT \in Nat \ {0}
  /\ MAX_INSTR \in Nat /\ MAX_INSTR >= 8 /\ Conds \subseteq 0 .. 14
  /\ Sbits \subseteq BOOLEAN /\ SrcClasses \subseteq RegClasses

VARIABLES
  isa,        \* options.isa
  cond_val,   \* options.cond_val
  blk,        \* the block being filled: its type, instruction set, register class
  req,        \* the arguments of the call to the wrapper
  op,         \* the opcode the library works on
  word,       \* its word, or NoWord: not drawn yet
  status,     \* what gen_instr said of it
  buf,        \* instr_buf
  tries,      \* tries left in the library
  pyTries,    \* tries left in the wrapper
  cnt, retry, \* counters of the block generator
  regs,       \* what is known of the registers at this point of the block
  twin,       \* genALUwritePC: the word of the first call, or NoWord
  pc

vars == <<isa, cond_val, blk, req, op, word, status, buf, tries, pyTries, cnt, retry, regs, twin, pc>>

NoWord == [t |-> 16, n |-> 16, m |-> 16, a |-> 16, P |-> FALSE, W |-> FALSE, S |-> FALSE,
           x |-> FALSE, list |-> {}, sh |-> <<0, 0>>, c |-> 0]

NoBlock == [type |-> "none", isARM |-> TRUE, reg |-> "R_DEFAULT"]

NoReq == [by |-> "none", kind |-> "none", form |-> NA, cond |-> 0, sbit |-> FALSE,
          src |-> "R_DEFAULT", dst |-> "R_DEFAULT", allow_fix |-> TRUE, invalid |-> FALSE]

AllUnknown == [r \in 0 .. 15 |-> Unknown]

Init ==
  /\ isa = ARM /\ cond_val = 0
  /\ blk = NoBlock /\ req = NoReq /\ op = NA /\ word = NoWord
  /\ status = "VALID" /\ buf = <<>>
  /\ tries = 0 /\ pyTries = 0 /\ cnt = 0 /\ retry = 0
  /\ regs = AllUnknown /\ twin = NoWord
  /\ pc = "idle"

IsaOf(isARM) == IF isARM THEN ARM ELSE THUMB

-----------------------------------------------------------------------------
(* Block generators.                                                        *)

Begin(b, known) ==
  /\ pc = "idle" /\ pc' = "ask"
  /\ blk' = b
  /\ regs' = [r \in 0 .. 15 |-> IF r \in known THEN DataAddress ELSE Unknown]
  /\ cnt' = 0 /\ retry' = 0 /\ twin' = NoWord
  /\ UNCHANGED <<isa, cond_val, req, op, word, status, buf, tries, pyTries>>

\* The registers genMemInstrs loads with addresses of the data first.  With
\* them in place the code that fixes a base is left out.
PresetRegs(reg) ==
  CASE reg = "R_SP"  -> {13}
    [] reg = "R_0_3" -> 0 .. 3 \cup {13}
    [] reg = "R_4_7" -> 4 .. 7 \cup {13}
    [] OTHER         -> {}

AllowFix(reg) == reg \notin {"R_SP", "R_0_3", "R_4_7"}

MemOps(reg) == IF reg = "R_SP" THEN {"PUSH_OP", "POP_OP"} ELSE {"LD_OP"}

\* Mutant: Thumb loads may write sp as ARM loads do.
DstRegsThumbToo(b) == RegClasses \ {"R_PC", b.reg}

DstRegs(b) ==
  (IF AllowFix(b.reg) \/ b.isARM THEN RegClasses \ {"R_PC"} ELSE {"R_0_3", "R_4_7"}) \ {b.reg}

\* genBlockInstrsWithLoadInsts chooses a class for genMemInstrs: all that
\* genTest fills basic blocks with.
genMemInstrs ==
  \E isARM \in BOOLEAN, reg \in {"R_0_3", "R_4_7", "R_8_12", "R_SP", "R_DEFAULT"} :
    /\ reg \in {"R_8_12", "R_SP"} => isARM
    /\ Begin([type |-> "mem", isARM |-> isARM, reg |-> reg], PresetRegs(reg))

\* genInstrs and genMulShiftInstrs are called by genBlockInstrs, whose only
\* caller genCodeBlocks is commented out in genTest (art.py:18).
genInstrs ==
  \E isARM \in BOOLEAN : Begin([type |-> "any", isARM |-> isARM, reg |-> "R_DEFAULT"], {})

genMulShiftInstrs ==
  \E isARM \in BOOLEAN : Begin([type |-> "mulshift", isARM |-> isARM, reg |-> "R_DEFAULT"], {})

\* In Thumb code genALUwritePC does not call the library.
genALUwritePC == Begin([type |-> "pc", isARM |-> TRUE, reg |-> "R_DEFAULT"], {})

\* main of the command line tool: one call of the library.
main == \E isARM \in BOOLEAN : Begin([type |-> "main", isARM |-> isARM, reg |-> "R_DEFAULT"], {})

-----------------------------------------------------------------------------
(* The call a block generator makes next.                                   *)

\* Mutant: the second call of genALUwritePC draws a word of its own.
AskFresh(r) ==
  /\ pc' = "call"
  /\ req' = r
  /\ pyTries' = IF blk.type = "main" THEN 1 ELSE MAXRETRY
  /\ word' = NoWord
  /\ UNCHANGED <<isa, cond_val, blk, op, status, buf, tries, cnt, retry, regs, twin>>

Ask(r) ==
  /\ pc' = "call"
  /\ req' = r
  /\ pyTries' = IF blk.type = "main" THEN 1 ELSE MAXRETRY
  /\ word' = twin
  /\ UNCHANGED <<isa, cond_val, blk, op, status, buf, tries, cnt, retry, regs, twin>>

ByKind(kind, cond, sbit, src, dst, fix) ==
  [by |-> "kind", kind |-> kind, form |-> NA, cond |-> cond, sbit |-> sbit,
   src |-> src, dst |-> dst, allow_fix |-> fix, invalid |-> FALSE]

ByOpcode(f, cond, sbit, dst, invalid) ==
  [by |-> "op", kind |-> Kind(f), form |-> f, cond |-> cond, sbit |-> sbit,
   src |-> "R_DEFAULT", dst |-> dst, allow_fix |-> TRUE, invalid |-> invalid]

AskMem ==
  /\ pc = "ask" /\ blk.type = "mem" /\ cnt < LIMIT
  /\ \E kind \in MemOps(blk.reg), dst \in DstRegs(blk), cond \in Conds, sbit \in Sbits :
       Ask(ByKind(kind, cond, sbit, blk.reg, dst, AllowFix(blk.reg)))

\* The registers are any: a superset of what the blocks of the register FSM
\* ask for (extOptions).
AskAny ==
  /\ pc = "ask" /\ blk.type = "any" /\ cnt < LIMIT
  /\ \E kind \in {"PUSH_OP", "POP_OP", "LD_OP", "MISC_OP", "REG_OP"}, cond \in Conds, sbit \in Sbits :
       Ask(ByKind(kind, cond, sbit, "R_DEFAULT", "R_DEFAULT", TRUE))

\* 'MUL_OP' is no kind the library knows; the shifts are asked for by name.
ShiftForms(isARM) ==
  IF isARM THEN {[gen |-> "data", v |-> v] : v \in {"rsh", "rsh_cmp", "shift_reg"}}
           ELSE {[gen |-> "thumb32_data_reg", v |-> "dnm"]}

AskMulShift ==
  /\ pc = "ask" /\ blk.type = "mulshift" /\ cnt < LIMIT
  /\ \E cond \in Conds, sbit \in Sbits :
       \/ \E kind \in {"MUL_OP", "REG_OP"} : Ask(ByKind(kind, cond, sbit, "R_DEFAULT", "R_DEFAULT", TRUE))
       \/ \E f \in ShiftForms(blk.isARM) : Ask(ByOpcode(f, cond, sbit, "R_DEFAULT", FALSE))

\* genALUwritePC generates an instruction into lr, checks the address it
\* computes there, and then has the same word written for pc.
PcForms == {[gen |-> "data", v |-> "plain"], [gen |-> "misc", v |-> "ADR"]}

AskLr ==
  /\ pc = "ask" /\ blk.type = "pc" /\ cnt = 0
  /\ \E f \in PcForms, cond \in Conds : Ask(ByOpcode(f, cond, FALSE, "R_LR", TRUE))

AskPc ==
  /\ pc = "ask" /\ blk.type = "pc" /\ cnt = 1
  /\ Ask(ByOpcode(req.form, req.cond, FALSE, "R_PC", TRUE))

\* Registers are asked for with the kinds that access memory.
AskMain ==
  /\ pc = "ask" /\ blk.type = "main" /\ cnt = 0
  /\ \E kind \in Kinds, src \in {"R_DEFAULT"} \cup SrcClasses, cond \in Conds :
       /\ src # "R_DEFAULT" => kind \in {"LD_OP", "ST_OP", "LDM_OP", "STM_OP", "LDREX_OP", "STREX_OP"}
       /\ Ask(ByKind(kind, cond, FALSE, src, "R_DEFAULT", TRUE))

Enough == CASE blk.type = "pc" -> cnt = 2 [] blk.type = "main" -> cnt = 1 [] OTHER -> cnt >= LIMIT

EndBlock ==
  /\ pc = "ask" /\ Enough
  /\ pc' = "idle"
  /\ blk' = NoBlock /\ req' = NoReq /\ word' = NoWord /\ twin' = NoWord /\ op' = NA
  /\ status' = "VALID" /\ buf' = <<>> /\ regs' = AllUnknown /\ cnt' = 0 /\ retry' = 0
  /\ tries' = 0 /\ pyTries' = 0
  /\ UNCHANGED <<isa, cond_val>>

-----------------------------------------------------------------------------
(* The library.                                                             *)

\* Mutant: the instruction set of the call before stays in force.
py_gen_instrNoIsa ==
  /\ pc = "call" /\ req.by = "kind"
  /\ cond_val' = req.cond
  /\ op' \in get_random_op(req.kind, isa)
  /\ tries' = RETRY /\ pc' = "try"
  /\ UNCHANGED <<isa, blk, req, word, status, buf, pyTries, cnt, retry, regs, twin>>

\* py_gen_instr sets the options of the call, then takes any opcode of the
\* kind.  A new word is drawn for every call.
py_gen_instr ==
  /\ pc = "call" /\ req.by = "kind"
  /\ isa' = IsaOf(blk.isARM)
  /\ cond_val' = req.cond
  /\ op' \in get_random_op(req.kind, isa')
  /\ tries' = RETRY /\ pc' = "try"
  /\ UNCHANGED <<blk, req, word, status, buf, pyTries, cnt, retry, regs, twin>>

\* py_gen_instr_with_op is not told the instruction set: a Thumb opcode
\* switches to Thumb and nothing switches back.  The word of an earlier
\* attempt is used again.
py_gen_instr_with_op ==
  /\ pc = "call" /\ req.by = "op"
  /\ isa' = IF InstrSet(req.form) = THUMB THEN THUMB ELSE isa
  /\ cond_val' = req.cond
  /\ op' = req.form
  /\ tries' = RETRY /\ pc' = "try"
  /\ UNCHANGED <<blk, req, word, status, buf, pyTries, cnt, retry, regs, twin>>

\* gen_instr_with_op: the S bit is written in ARM mode only, where the
\* encoding leaves it free.
HasSbit(f) == f.gen \in {"data", "mul"} /\ ~Compares(f)

SetSbit(f, i) == IF isa = ARM /\ HasSbit(f) THEN [i EXCEPT !.S = req.sbit] ELSE i

\* The words of this try.
Drawn == IF word # NoWord THEN {word} ELSE IF op = NA THEN {NoWord} ELSE Operands(op, Overwritten(op, req.src, req.dst))

Filled(i) == IF op = NA THEN {i} ELSE preprocess_instr(op, SetSbit(op, i), req.src, req.dst)

\* Mutant: the lines of the tries before are kept.
LinesKept(i, st) == buf \o Prefix(op, i, isa, st) \o <<TheWord>>

\* gen_instr empties instr_buf, the generator function fills it, and the
\* word is added, also when no generator function was called.
Lines(i, st) == IF op = NA THEN <<TheWord>> ELSE Prefix(op, i, isa, st) \o <<TheWord>>

\* The condition field of an ARM word is written when the generator is done.
WithCond(i, st) == IF op # NA /\ InstrSet(op) = ARM THEN [i EXCEPT !.c = CondAfter(op, i, st, cond_val)] ELSE i

\* The word the next try starts from: the command line tool, which began
\* without one, draws it anew.
Remembered(i, st) == IF blk.type = "main" /\ st = "UNSUPPORTED" THEN NoWord ELSE WithCond(i, st)

\* One turn of the loop of gen_instr_with_op.
gen_instr ==
  /\ pc = "try" /\ tries > 0
  /\ \E w \in Drawn : \E i \in Filled(w) :
       LET st == gen_status(op, i)
       IN  /\ status' = st
           /\ buf' = Lines(i, st)
           /\ word' = Remembered(i, st)
           /\ cond_val' = CondAfter(op, i, st, cond_val)
           /\ isa' = IF op # NA /\ InstrSet(op) = THUMB THEN THUMB ELSE isa
           /\ pc' = IF st = "UNSUPPORTED" THEN "try" ELSE "parse"
  /\ tries' = tries - 1
  /\ UNCHANGED <<blk, req, op, pyTries, cnt, retry, regs, twin>>

output_instr ==
  /\ pc = "try" /\ tries = 0
  /\ pc' = "parse"
  /\ UNCHANGED <<isa, cond_val, blk, req, op, word, status, buf, tries, pyTries, cnt, retry, regs, twin>>

-----------------------------------------------------------------------------
(* The wrapper.                                                             *)

\* parseRIT: the status that makes the lines usable.
Usable == status = "VALID" \/ (status = "UNSUPPORTED" /\ req.invalid /\ blk.isARM)

\* ... and the lines it keeps.
Kept(ls) ==
  LET keep == {k \in 1 .. Len(ls) : ls[k].tag = "INST" \/ req.allow_fix}
  IN  [j \in 1 .. Cardinality(keep) |->
         ls[CHOOSE k \in keep : Cardinality({i \in keep : i <= k}) = j]]

Accept ==
  /\ pc = "parse" /\ Usable
  /\ buf' = Kept(buf) /\ pc' = "append"
  /\ UNCHANGED <<isa, cond_val, blk, req, op, word, status, tries, pyTries, cnt, retry, regs, twin>>

\* gen_single_inst_with_opkind draws a new word for the next call,
\* gen_single_inst_with_opcode keeps the one it has.
Again ==
  /\ pc = "parse" /\ ~Usable /\ pyTries > 1
  /\ pyTries' = pyTries - 1 /\ pc' = "call"
  /\ word' = IF req.by = "kind" THEN NoWord ELSE word
  /\ op' = NA /\ status' = "VALID" /\ buf' = <<>>
  /\ UNCHANGED <<isa, cond_val, blk, req, tries, cnt, retry, regs, twin>>

\* Mutant: Sbit_Msk is not applied.
SbitKept(i) == i

\* genALUwritePC clears the S bit of the word it got.
SbitMsk(i) == [i EXCEPT !.S = FALSE]

\* The word that is written to the seed.  The registers genALUwritePC puts
\* in for the ones the word reads are the same for both its words.
Emitted == IF blk.type = "pc" THEN SbitMsk(word) ELSE word

\* Now and then genMulShiftInstrs adds two lines that load all registers.
Reinit(n) == IF blk.type = "mulshift" THEN {n, n + 2} ELSE {n}

\* The block generator appends the lines.
Deliver ==
  /\ pc = "append"
  /\ pc' = "ask"
  /\ cnt' \in Reinit(IF blk.type \in {"mem", "any"} THEN cnt + Len(buf) ELSE cnt + 1)
  /\ retry' = 0
  /\ twin' = IF blk.type = "pc" THEN word ELSE twin
  /\ LET after == After(regs, buf, Len(buf), op, Emitted)
     IN  regs' = [r \in 0 .. 15 |-> IF req.allow_fix THEN Unknown ELSE after[r]]
  /\ buf' = <<>> /\ status' = "VALID" /\ op' = NA /\ word' = NoWord
  /\ UNCHANGED <<isa, cond_val, blk, req, tries, pyTries>>

\* Mutant: an instruction that cannot be generated is asked for without end.
GivesUpNever == FALSE

\* The number of failures after which a line is given up: genInstrs and the
\* other generators count differently.
GivesUp == IF blk.type = "any" THEN retry + 1 >= MAXRETRY ELSE retry + 1 > MAXRETRY

\* Mutant: a failure is not counted.
FailUncounted ==
  /\ pc = "parse" /\ ~Usable /\ pyTries <= 1
  /\ pc' = "ask"
  /\ twin' = IF blk.type = "pc" THEN word ELSE twin
  /\ buf' = <<>> /\ status' = "VALID" /\ op' = NA /\ word' = NoWord
  /\ UNCHANGED <<isa, cond_val, blk, req, tries, pyTries, cnt, retry, regs>>

Fail ==
  /\ pc = "parse" /\ ~Usable /\ pyTries <= 1
  /\ pc' = "ask"
  /\ IF blk.type \in {"pc", "main"} \/ GivesUp
       THEN cnt' \in Reinit(cnt + 1) /\ retry' = 0
       ELSE /\ cnt' \in Reinit(cnt)
            /\ retry' = retry + 1
  /\ twin' = IF blk.type = "pc" THEN word ELSE twin
  /\ buf' = <<>> /\ status' = "VALID" /\ op' = NA /\ word' = NoWord
  /\ UNCHANGED <<isa, cond_val, blk, req, tries, pyTries, regs>>

Block == genMemInstrs \/ genInstrs \/ genMulShiftInstrs \/ genALUwritePC \/ main

Step ==
  \/ AskMem \/ AskAny \/ AskMulShift \/ AskLr \/ AskPc \/ AskMain
  \/ py_gen_instr \/ py_gen_instr_with_op \/ gen_instr \/ output_instr
  \/ Accept \/ Again \/ Deliver \/ Fail \/ EndBlock

Next == Block \/ Step

Spec == Init /\ [][Next]_vars

-----------------------------------------------------------------------------
(* Properties.                                                              *)

\* The type invariant of the options, the library's and the generators' state.
TypeOK ==
  /\ isa \in {ARM, THUMB} /\ cond_val \in 0 .. 14
  /\ pc \in {"idle", "ask", "call", "try", "parse", "append"}
  /\ op \in Forms \cup {NA} /\ word \in Words /\ twin \in Words
  /\ status \in Status
  /\ Len(buf) \in Nat
  /\ tries \in 0 .. RETRY /\ pyTries \in 0 .. MAXRETRY
  /\ cnt \in 0 .. LIMIT + MAX_INSTR /\ retry \in 0 .. MAXRETRY
  /\ DOMAIN regs = 0 .. 15

\* instr_buf never holds more than MAX_INSTR lines, whatever the form, the
\* base and the number of tries (the assert of output_instr comes after the
\* lines were written).
BufferFits == Len(buf) <= MAX_INSTR

\* A generated instruction never writes pc, but for the second word of
\* genALUwritePC, whose target was checked and which never restores flags
\* with it - also when the library was left in Thumb mode and does not
\* write the S bit.
NoPcWrite ==
  pc = "append" /\ 15 \in Writes(op, Emitted) => blk.type = "pc" /\ cnt = 1 /\ ~Emitted.S

\* When the word of a memory access runs, its base is an address of the
\* data: exactly when the code that fixes it is kept, and off by no more
\* than the writebacks of the block when the wrapper drops that code; it is
\* aligned where the access must be; and the offset has 12 bits.
AccessInData ==
  pc = "append" /\ HasBase(op) =>
    LET at == After(regs, buf, Len(buf) - 1, op, Emitted)
        base == at[Base(op, Emitted)]
    IN  /\ InData(base)
        /\ base.drift <= IF req.allow_fix THEN 0 ELSE cnt
        /\ ForceAlign(op) => Aligned(base)
        /\ OffsetReg(op) =>
             ShiftedBits(Amount(word.sh), Word32 \ at[word.m].zeros, word.c # 3) \subseteq 0 .. 11

\* An instruction asked for by kind is of the kind and the instruction set
\* asked for, and in ARM code has the condition (carry clear, when its
\* offset is rotated through carry) and the S bit asked for, whatever the
\* calls before left in the options.
AsAsked ==
  pc = "append" /\ req.by = "kind" =>
    /\ InstrSet(op) = IsaOf(blk.isARM) /\ Kind(op) = req.kind
    /\ blk.isARM => word.c = IF Shifted(op) /\ word.sh = RRX THEN 3 ELSE req.cond
    /\ blk.isARM /\ HasSbit(op) => word.S = req.sbit

\* Both calls of genALUwritePC give a word, and the word that writes pc is
\* the one whose result was checked in lr but for its destination.
TwinsAlike ==
  /\ pc = "parse" /\ blk.type = "pc" => Usable
  /\ pc = "append" /\ blk.type = "pc" /\ cnt = 1 => twin.t = 14 /\ word = [twin EXCEPT !.t = 15]

\* What is left to do for a block: lines, failures, calls, the part of the
\* call, tries of the library.
Left ==
  <<LIMIT + MAX_INSTR - cnt, MAXRETRY - retry, IF pc = "ask" THEN MAXRETRY + 1 ELSE pyTries,
    CASE pc = "call" -> 3 [] pc = "try" -> 2 [] pc = "parse" -> 1 [] OTHER -> 0, tries>>

Fewer(p, q) == \E k \in 1 .. 5 : p[k] < q[k] /\ \A j \in 1 .. k - 1 : p[j] = q[j]

\* Every block comes to an end: each step inside it leaves less to do, also
\* when an instruction can never be generated: a word that stays UNSUPPORTED
\* when it is tried again, or a kind of opcode the library does not know.
Dwindles == [][pc # "idle" /\ pc' # "idle" => Fewer(Left', Left)]_vars
=============================================================================
