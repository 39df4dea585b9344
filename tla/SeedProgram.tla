------------------------------ MODULE SeedProgram ------------------------------
(***************************************************************************)
(* A generated seed as it runs: the program RandomBlock writes, executed   *)
(* instruction by instruction by an ARM processor (external: QEMU, the     *)
(* device or the translator).  The address of text position p is 2*p, with *)
(* 1 added for Thumb code.                                                 *)
(***************************************************************************)
EXTENDS RandomBlock

CONSTANT EXCL_CNT  \* tries of an exclusive store (255)
ASSUME ExclAssumption == EXCL_CNT \in Nat \ {0}

VARIABLES
  pc,       \* the position of the next instruction, 0 before the start
  isa,      \* the processor is in ARM state
  lr,       \* register lr; 0 is any value that is no return address
  cfgdata,  \* the words of the data block of this name
  excl,     \* excladdr (is it set), exclcnt, and what the flags saved in
            \* exclflag say of the conditions of the load and the store
  calls     \* history: the return addresses of the calls under way

runVars == <<pc, isa, lr, cfgdata, excl, calls>>
vars == <<genVars, runVars>>

Init ==
  /\ GenInit
  /\ pc = 0 /\ isa = TRUE /\ lr = 0 /\ calls = <<>>
  /\ cfgdata = [w \in 0 .. 15 |-> 0]
  /\ excl = [addr |-> FALSE, cnt |-> EXCL_CNT, load |-> TRUE, store |-> TRUE]

\* The first instruction at or after p, the instruction set it was assembled
\* for, the position of a label, the address of a position.
Directives == {"isa", "label"}
At(p) == CHOOSE q \in p .. Len(text) :
           /\ text[q].op \notin Directives
           /\ \A r \in p .. (q - 1) : text[r].op \in Directives
Assembled(p) == LET isas == {q \in 1 .. p : text[q].op = "isa"}
                IN  text[CHOOSE q \in isas : \A r \in isas : r <= q].arm
Target(l) == At(CHOOSE q \in 1 .. Len(text) : text[q].op = "label" /\ text[q].to = l)
Address(p, a) == 2 * p + (IF a THEN 0 ELSE 1)

Cur == text[pc]
Running(op) == phase = "written" /\ pc > 0 /\ Cur.op = op
Following == At(pc + 1)

\* The code of genInitBlock, in ARM state, runs into the random program.
Start ==
  /\ phase = "written" /\ pc = 0
  /\ pc' = At(1)
  /\ UNCHANGED <<genVars, isa, lr, cfgdata, excl, calls>>

\* Random instructions may write any register but pc.
Basic ==
  /\ Running("basic")
  /\ pc' = Following /\ lr' \in {lr, 0}
  /\ UNCHANGED <<genVars, isa, cfgdata, excl, calls>>

Branch ==
  /\ Running("b")
  /\ \/ pc' = Target(Cur.to)
     \/ Cur.cond /\ pc' = Following
  /\ UNCHANGED <<genVars, isa, lr, cfgdata, excl, calls>>

\* The address of the target may have been put in lr.
BranchExchange ==
  /\ Running("bx")
  /\ \/ pc' = Target(Cur.to) /\ isa' = Cur.arm
     \/ Cur.cond /\ pc' = Following /\ isa' = isa
  /\ lr' \in {lr, 0}
  /\ UNCHANGED <<genVars, cfgdata, excl, calls>>

\* Mutant: the counter is not stored.
LoopNotStored ==
  /\ Running("loop")
  /\ pc' = IF cfgdata[Cur.slot] + Cur.inc <= Cur.limit THEN Target(Cur.to) ELSE Following
  /\ UNCHANGED <<genVars, isa, lr, cfgdata, excl, calls>>

\* The counter is a word in memory that nobody resets: ldr, add, str, cmp, ble.
Loop ==
  /\ Running("loop")
  /\ cfgdata' = [cfgdata EXCEPT ![Cur.slot] = @ + Cur.inc]
  /\ pc' = IF cfgdata'[Cur.slot] <= Cur.limit THEN Target(Cur.to) ELSE Following
  /\ UNCHANGED <<genVars, isa, lr, excl, calls>>

Call ==
  /\ Running("call")
  /\ \/ /\ lr' = Address(Following, isa)
        /\ pc' = Target(Cur.to) /\ isa' = Cur.arm
        /\ calls' = Append(calls, lr')
     \/ Cur.cond /\ pc' = Following /\ lr' \in {lr, 0} /\ UNCHANGED <<isa, calls>>
  /\ UNCHANGED <<genVars, cfgdata, excl>>

PushLr ==
  /\ Running("pre")
  /\ cfgdata' = [cfgdata EXCEPT ![Cur.slot] = lr]
  /\ pc' = Following
  /\ UNCHANGED <<genVars, isa, lr, excl, calls>>

PopPc ==
  /\ Running("post")
  /\ pc' = cfgdata[Cur.slot] \div 2
  /\ isa' = (cfgdata[Cur.slot] % 2 = 0)
  /\ calls' = SubSeq(calls, 1, Len(calls) - 1)
  /\ UNCHANGED <<genVars, lr, cfgdata, excl>>

\* The flags are saved once and restored before every try, so that the
\* conditions of the load and of the store come out alike in all of them.  The
\* scratch registers of the whole sequence may include lr.
SaveFlags ==
  /\ Running("exclsave")
  /\ \E load, store \in IF Cur.cond THEN BOOLEAN ELSE {TRUE} :
       excl' = [excl EXCEPT !.load = load, !.store = store]
  /\ pc' = Following /\ lr' \in {lr, 0}
  /\ UNCHANGED <<genVars, isa, cfgdata, calls>>

Ldrex ==
  /\ Running("ldrex")
  /\ excl' = [excl EXCEPT !.addr = @ \/ excl.load]
  /\ pc' = Following
  /\ UNCHANGED <<genVars, isa, lr, cfgdata, calls>>

\* Without an address there is nothing to store to; a store that fails is tried
\* again from the load while exclcnt lasts.
Strex ==
  /\ Running("strex")
  /\ \/ ~excl.addr /\ pc' = Following /\ UNCHANGED excl
     \/ /\ excl.addr /\ ~excl.store
        /\ pc' = Following /\ excl' = [excl EXCEPT !.addr = FALSE]
     \/ /\ excl.addr /\ excl.store
        /\ excl' = [excl EXCEPT !.addr = FALSE, !.cnt = @ - 1]
        /\ \/ pc' = Following
           \/ excl'.cnt # 0 /\ pc' = Target(Cur.to)
  /\ UNCHANGED <<genVars, isa, lr, cfgdata, calls>>

\* Mutants: the count is not put back; it is put back to one try too many.
ExclStubLeft ==
  /\ Running("exclstub")
  /\ pc' = Following
  /\ UNCHANGED <<genVars, isa, lr, cfgdata, excl, calls>>

ExclStubOneMore ==
  /\ Running("exclstub")
  /\ excl' = [excl EXCEPT !.cnt = EXCL_CNT + 1]
  /\ pc' = Following
  /\ UNCHANGED <<genVars, isa, lr, cfgdata, calls>>

ExclStub ==
  /\ Running("exclstub")
  /\ excl' = [excl EXCEPT !.cnt = EXCL_CNT]
  /\ pc' = Following
  /\ UNCHANGED <<genVars, isa, lr, cfgdata, calls>>

\* Either the computed address cannot be used or the condition fails, and the
\* write is left out; or a return instruction for the instruction set the
\* address selects was stored there, and it returns to the address put in lr.
AluWritePC ==
  /\ Running("aluwpc")
  /\ pc' = Following
  /\ lr' \in {lr, 0, Address(pc', isa)}
  /\ UNCHANGED <<genVars, isa, cfgdata, excl, calls>>

Run == \/ Start \/ Basic \/ Branch \/ BranchExchange \/ Loop \/ Call \/ PushLr
       \/ PopPc \/ SaveFlags \/ Ldrex \/ Strex \/ ExclStub \/ AluWritePC

Generate == Make /\ UNCHANGED runVars
Next == Generate \/ Run
Spec == Init /\ [][Next]_vars

\* art.py runs to its end and a processor executes one instruction after the
\* other: neither stops while it can go on.
FairSpec == Spec /\ WF_vars(Next)
-----------------------------------------------------------------------------
Executing == phase = "written" /\ pc > 0

TypeOK ==
  /\ GenTypeOK
  /\ pc \in 0 .. Len(text) /\ isa \in BOOLEAN
  /\ lr \in Nat /\ cfgdata \in [0 .. 15 -> Nat]
  /\ excl \in [addr : BOOLEAN, cnt : 0 .. EXCL_CNT, load : BOOLEAN, store : BOOLEAN]
  /\ calls \in Seq(Nat)

\* Every instruction is executed in the instruction set it was assembled for,
\* through all interworking branches and calls and their returns, and the exit
\* code in ARM state (the .arm and .thumb lines of RBlock.__str__, genBX,
\* genCall, the ISA in the context).
IsaMatches == Executing => isa = Assembled(pc)

\* A callee returns to the call that is under way and no return address is left
\* at the end, whatever was nested in the callee or looped around the call
\* (getPreCalleeInsts, getPostCalleeInsts and the layout of CallRetRBlock).
ReturnsToCaller ==
  Executing =>
    /\ Cur.op = "post" => calls # <<>> /\ cfgdata[Cur.slot] = calls[Len(calls)]
    /\ Cur.op = "exit" => calls = <<>>

\* An exclusive sequence starts with no address of an earlier one and with all
\* its tries, so that it never stores without having loaded (excladdr and
\* exclcnt between genSTREX and the next genLDREX).
ExclFresh ==
  Running("exclsave") => ~excl.addr /\ excl.cnt = EXCL_CNT

\* Every seed ends: whatever branches are taken and however often exclusive
\* stores fail, the program reaches its exit code, although loop counters are
\* shared by all loops of a level and never reset (genLoop).
Exits == <>(Executing /\ Cur.op = "exit")
=============================================================================
