------------------------------ MODULE RandomBlock ------------------------------
(***************************************************************************)
(* The control flow of a generated seed: art/randomblock.py, with the      *)
(* branches, calls and loops of art/instrgen.py and the assembler text of  *)
(* art/code.py.                                                            *)
(*                                                                         *)
(* makeRandomBlock is recursive; `stack' holds its activations.  All of    *)
(* them read and write one context, here `nest' and `arm' (ctx['nest'] and *)
(* ctx[CTX.ISA]), which every block changes for its parts and has to put   *)
(* back.  A label is the path to its block: the k-th part of l is          *)
(* Append(l, k).  The random instructions of a basic block are one         *)
(* instruction "basic"; registers and conditions are left to chance.       *)
(***************************************************************************)
EXTENDS Integers, Sequences, FiniteSets

CONSTANTS
  Nest,         \* option -n, the nesting level (4 by default)
  Num,          \* option -m, the least number of instructions (100)
  INSTR_LIMIT,  \* option --block-instr-limit (100)
  excl_block, aluwpc_block,  \* the options of these names
  Incs,         \* the steps of loop counters (1 .. 10)
  Limits,       \* the limits of loop counters (0 .. 256)
  BlockMax      \* bound of the model: blocks with parts in one program

\* cfgdata has 64 bytes: eight words for return addresses, eight for loops.
ASSUME NestAssumption == Nest \in 1 .. 8
ASSUME NumAssumption == Num \in Nat /\ INSTR_LIMIT \in Nat /\ BlockMax \in Nat
ASSUME OptionAssumption == excl_block \in BOOLEAN /\ aluwpc_block \in BOOLEAN
ASSUME LoopAssumption == Incs \subseteq Nat \ {0} /\ Limits \subseteq Nat

VARIABLES
  phase,    \* "make", "fill", "written", or the exception that ended art.py
  stack,    \* the activations of makeRandomBlock
  nest, arm,\* the context
  bb,       \* the labels of the basic blocks, ctx[CTX.BB]
  limited,  \* the ones that got an instruction limit of their own
  planned,  \* the number of blocks with parts so far
  text      \* the program

genVars == <<phase, stack, nest, arm, bb, limited, planned, text>>

Compound == {"ByPass", "Hammock", "Loop", "IrLoop", "Interwork", "CallRet",
             "Exclusive", "ALUwritePC"}
Parts(kind) == CASE kind = "Hammock" -> 4
                 [] kind = "Loop" -> 1
                 [] kind \in {"Exclusive", "ALUwritePC"} -> 2
                 [] OTHER -> 3

\* An Exclusive or ALUwritePC block that is drawn becomes a basic one in 70
\* of 100 cases, so Basic is possible on the upper levels too.
getRBlock(n) ==
  IF n <= 0 THEN {"Basic"}
  ELSE {"ByPass", "Hammock", "Loop", "IrLoop", "Interwork", "CallRet"}
         \cup (IF n <= 3 \/ aluwpc_block THEN {"Basic"} ELSE {})
         \cup (IF n <= 3 /\ excl_block THEN {"Exclusive"} ELSE {})
         \cup (IF aluwpc_block THEN {"ALUwritePC"} ELSE {})

\* What a block draws for itself: whether its branches are conditional, its
\* layout, the instruction set of its callee, the step and limit of its loop.
Draws(kind, a) ==
  LET Drawn(kinds, S, none) == IF kind \in kinds THEN S ELSE {none}
  IN  [cond     : Drawn({"Interwork", "Exclusive"} \cup (IF a THEN {"CallRet"} ELSE {}),
                        BOOLEAN, FALSE),
       followed : Drawn({"Interwork", "CallRet"}, BOOLEAN, FALSE),
       iwcall   : Drawn({"CallRet"}, BOOLEAN, FALSE),
       begin    : Drawn({"CallRet"}, BOOLEAN, FALSE),
       inc      : Drawn({"Loop", "IrLoop"}, Incs, 0),
       limit    : Drawn({"Loop", "IrLoop"}, Limits, 0)]
-----------------------------------------------------------------------------
(***************************************************************************)
(* The text of a program: directives ("isa", "label") and instructions.    *)
(***************************************************************************)
IsaAttr(a) == [op |-> "isa", arm |-> a]
Label(l) == [op |-> "label", to |-> l]
Ins(op) == [op |-> op]

\* RBlock.__str__: the block's instruction set and label come first.
Block(l, a, body) == <<IsaAttr(a), Label(l)>> \o body

\* b, cbz or adr: the instruction set stays.
genBranch(l, c) == [op |-> "b", to |-> l, cond |-> c]
\* bx or a load of pc, always to the other instruction set.
genBX(a, l, c) == [op |-> "bx", to |-> l, arm |-> ~a, cond |-> c]
\* Mutant: the bit that selects Thumb is forgotten.
genCallNoBit(callee, l, c) == [op |-> "call", to |-> l, arm |-> TRUE, cond |-> c]
\* bl or blx, and a conditional one only in ARM code.
genCall(callee, l, c) == [op |-> "call", to |-> l, arm |-> callee, cond |-> c]
\* Mutant: the loop is generated after the context was put back.
genLoopOuter(n, l, d) == [op |-> "loop", to |-> l, slot |-> 9 + n, inc |-> d.inc,
                          limit |-> d.limit]
\* The counter of a loop is a word of the second half of cfgdata.
genLoop(n, l, d) == [op |-> "loop", to |-> l, slot |-> 8 + n, inc |-> d.inc,
                     limit |-> d.limit]
\* The return address is pushed below cfgdata+4*n+4 and popped from cfgdata+4*n.
getPreCalleeInsts(n) == [op |-> "pre", slot |-> n]
getPostCalleeInsts(n) == [op |-> "post", slot |-> n]
genLDREX(l, c) == <<[op |-> "exclsave", cond |-> c], Label(l), Ins("ldrex")>>
genSTREX(l) == <<[op |-> "strex", to |-> l], Ins("exclstub")>>
genALUwritePC == <<Ins("aluwpc")>>

Part(f, k) == Append(f.label, k)

ByPassBlock(f) ==
  f.subs[1] \o <<genBranch(Part(f, 3), TRUE)>> \o f.subs[2] \o f.subs[3]

HammockBlock(f) ==
  f.subs[1] \o <<genBranch(Part(f, 3), TRUE)>>
    \o f.subs[2] \o <<genBranch(Part(f, 4), FALSE)>> \o f.subs[3] \o f.subs[4]

LoopBlock(f) == f.subs[1] \o <<genLoop(nest, Part(f, 1), f.draw)>>

IrreducibleLoopBlock(f) ==
  f.subs[1] \o <<genBranch(Part(f, 3), TRUE)>>
    \o f.subs[2] \o f.subs[3] \o <<genLoop(nest, Part(f, 2), f.draw)>>

InterworkBlock(f) ==
  LET bx_1 == genBX(arm, Part(f, 2), f.draw.cond)
      bx_2 == genBX(~arm, Part(f, 1), f.draw.cond)
      bx_3 == genBX(~arm, Part(f, 3), FALSE)
      b    == genBranch(Part(f, 3), FALSE)
      back == f.subs[2] \o <<bx_2, bx_3>>
  IN  <<IsaAttr(arm), bx_1>>
        \o (IF f.draw.followed THEN <<b>> \o back \o f.subs[1]
                               ELSE f.subs[1] \o <<b>> \o back)
        \o f.subs[3]

\* Mutant: the return address is saved at the end of the callee.
CallRetBlockLate(f) ==
  LET call   == <<genCall(f.arm # f.draw.iwcall, Part(f, 2), f.draw.cond)>>
      callee == f.subs[2] \o <<getPreCalleeInsts(nest), getPostCalleeInsts(nest)>>
  IN  <<IsaAttr(f.arm)>> \o f.subs[1] \o call \o <<genBranch(Part(f, 3), FALSE)>>
        \o callee \o f.subs[3]

CallRetBlock(f) ==
  LET call   == <<genCall(f.arm # f.draw.iwcall, Part(f, 2), f.draw.cond)>>
      before == IF f.draw.begin THEN call ELSE <<>>
      after  == IF f.draw.begin THEN <<>> ELSE call
      callee == SubSeq(f.subs[2], 1, 2) \o <<getPreCalleeInsts(nest)>>
                  \o SubSeq(f.subs[2], 3, Len(f.subs[2]))
                  \o <<getPostCalleeInsts(nest)>>
  IN  <<IsaAttr(f.arm)>> \o before
        \o (IF f.draw.followed
              THEN <<genBranch(Part(f, 1), FALSE)>> \o callee \o f.subs[1] \o after
              ELSE f.subs[1] \o after \o <<genBranch(Part(f, 3), FALSE)>> \o callee)
        \o f.subs[3]

ExclsiveBlock(f) ==
  f.subs[1] \o genLDREX(Part(f, 0), f.draw.cond)
    \o genSTREX(Part(f, 0)) \o f.subs[2]

ALUwritePCBlock(f) == f.subs[1] \o genALUwritePC \o f.subs[2]

Body(f) == CASE f.kind = "ByPass" -> ByPassBlock(f)
             [] f.kind = "Hammock" -> HammockBlock(f)
             [] f.kind = "Loop" -> LoopBlock(f)
             [] f.kind = "IrLoop" -> IrreducibleLoopBlock(f)
             [] f.kind = "Interwork" -> InterworkBlock(f)
             [] f.kind = "CallRet" -> CallRetBlock(f)
             [] f.kind = "Exclusive" -> ExclsiveBlock(f)
             [] f.kind = "ALUwritePC" -> ALUwritePCBlock(f)

genExitBlock == <<IsaAttr(TRUE), Ins("exit")>>
-----------------------------------------------------------------------------
(***************************************************************************)
(* makeRandomBlock                                                         *)
(***************************************************************************)
GenInit ==
  /\ phase = "make" /\ stack = <<>> /\ text = <<>>
  /\ nest = Nest /\ arm = TRUE
  /\ bb = {} /\ limited = {} /\ planned = 0

Top == stack[Len(stack)]

\* The second part of f is in the other instruction set.
Switches(f) ==
  /\ Len(f.subs) = 1
  /\ f.kind = "Interwork" \/ (f.kind = "CallRet" /\ f.draw.iwcall)

\* The block to be made next, its label and the instruction set it gets.
NextKinds == IF stack = <<>> THEN getRBlock(nest)
             ELSE {Top.kids[Len(Top.subs) + 1]}
NextLabel == IF stack = <<>> THEN <<>> ELSE Part(Top, Len(Top.subs) + 1)
NextArm == IF stack # <<>> /\ Switches(Top) THEN ~arm ELSE arm
Making == phase = "make" /\ (stack # <<>> => Len(Top.subs) < Parts(Top.kind))

\* Mutant: the instruction set is not switched back.
ReturnSwitched(rest, a, t) ==
  IF rest = <<>>
    THEN text' = t /\ phase' = "fill" /\ stack' = rest /\ arm' = a
    ELSE /\ stack' = [rest EXCEPT ![Len(rest)].subs = Append(@, t)]
         /\ arm' = a
         /\ UNCHANGED <<text, phase>>

\* A block is complete: its text goes to the activation below it, which
\* switches the context back when it switched it for this part.
Return(rest, a, t) ==
  IF rest = <<>>
    THEN /\ text' = t /\ phase' = "fill"
         /\ stack' = rest /\ arm' = a
    ELSE /\ stack' = [rest EXCEPT ![Len(rest)].subs = Append(@, t)]
         /\ arm' = IF Switches(rest[Len(rest)]) THEN ~a ELSE a
         /\ UNCHANGED <<text, phase>>

BasicRBlock ==
  /\ Making
  /\ "Basic" \in NextKinds
  /\ bb' = bb \cup {NextLabel}
  /\ Return(stack, NextArm, Block(NextLabel, NextArm, <<Ins("basic")>>))
  /\ UNCHANGED <<nest, limited, planned>>

\* The parts are drawn before any of them is made.
StartBlock(kind) ==
  /\ Making
  /\ kind \in NextKinds
  /\ nest' = nest - 1
  /\ \E kids \in [1 .. Parts(kind) -> getRBlock(nest - 1)],
        draw \in Draws(kind, NextArm) :
       /\ planned' = planned + Cardinality({k \in DOMAIN kids : kids[k] # "Basic"})
                       + (IF stack = <<>> THEN 1 ELSE 0)
       /\ planned' <= BlockMax
       /\ stack' = Append(stack, [label |-> NextLabel, kind |-> kind,
                                  arm |-> NextArm, draw |-> draw,
                                  kids |-> kids, subs |-> <<>>])
  /\ arm' = NextArm
  /\ UNCHANGED <<phase, bb, limited, text>>

\* Mutant: ARM code is not told from Thumb code.
ShortPartAnyIsa ==
  IF Top.kind \in {"ByPass", "Hammock"} /\ nest <= 0 THEN {Part(Top, 2)} ELSE {}

\* genBranch keeps a block short when cbz might have to reach over it: in
\* Thumb code, forward, and when the parts of the block are basic.
ShortPart ==
  IF Top.kind \in {"ByPass", "Hammock"} /\ ~arm /\ nest <= 0
    THEN {Part(Top, 2)} ELSE {}

EndBlock ==
  /\ phase = "make"
  /\ stack # <<>> /\ Len(Top.subs) = Parts(Top.kind)
  /\ IF ShortPart \subseteq bb
       THEN /\ limited' = limited \cup ShortPart
            /\ nest' = nest + 1
            /\ Return(SubSeq(stack, 1, Len(stack) - 1), arm,
                      Block(Top.label, Top.arm, Body(Top)))
       ELSE /\ phase' = "KeyError"
            /\ UNCHANGED <<limited, nest, stack, arm, text>>
  /\ UNCHANGED <<bb, planned>>

\* The number of instructions of a basic block is drawn between these two.
MinInstrs == IF Cardinality(bb) < 10 THEN Num \div Cardinality(bb) ELSE 10
MaxInstrs(l) == IF l \in limited THEN 32
                ELSE IF Cardinality(bb) < 10 THEN INSTR_LIMIT + MinInstrs
                ELSE INSTR_LIMIT \div 2 + MinInstrs

\* genTest, once the blocks are made: randint fails on an empty range.
genTest ==
  /\ phase = "fill"
  /\ IF \A l \in bb : MinInstrs <= MaxInstrs(l)
       THEN phase' = "written" /\ text' = text \o genExitBlock
       ELSE phase' = "ValueError" /\ UNCHANGED text
  /\ UNCHANGED <<stack, nest, arm, bb, limited, planned>>

Make == BasicRBlock \/ (\E kind \in Compound : StartBlock(kind)) \/ EndBlock
        \/ genTest

GenSpec == GenInit /\ [][Make]_genVars
-----------------------------------------------------------------------------
\* The words of cfgdata an instruction uses belong to a level of nesting.
UsesSlot(e) == e.op \in {"loop", "pre", "post"}
Level(e) == IF e.op = "loop" THEN e.slot - 8 ELSE e.slot
Texts(f) == {f.subs[k] : k \in DOMAIN f.subs}

Instr == [op : {"isa"}, arm : BOOLEAN]
         \cup [op : {"label", "strex"}, to : Seq(Nat)]
         \cup [op : {"basic", "ldrex", "exclstub", "aluwpc", "exit"}]
         \cup [op : {"b"}, to : Seq(Nat), cond : BOOLEAN]
         \cup [op : {"bx", "call"}, to : Seq(Nat), arm : BOOLEAN, cond : BOOLEAN]
         \cup [op : {"loop"}, to : Seq(Nat), slot : 8 .. 15, inc : Nat, limit : Nat]
         \cup [op : {"pre", "post"}, slot : 0 .. 7]
         \cup [op : {"exclsave"}, cond : BOOLEAN]
Frame == [label : Seq(Nat), kind : Compound, arm : BOOLEAN,
          draw : [cond : BOOLEAN, followed : BOOLEAN, iwcall : BOOLEAN,
                  begin : BOOLEAN, inc : Nat, limit : Nat],
          kids : Seq(Compound \cup {"Basic"}), subs : Seq(Seq(Instr))]

\* Types, the fields of every instruction and activation included.
GenTypeOK ==
  /\ phase \in {"make", "fill", "written", "KeyError", "ValueError"}
  /\ stack \in Seq(Frame)
  /\ nest \in 0 .. Nest /\ arm \in BOOLEAN
  /\ bb \subseteq Seq(Nat) /\ limited \subseteq Seq(Nat)
  /\ planned \in 0 .. BlockMax
  /\ text \in Seq(Instr)

\* Whatever blocks were drawn, the context is as deep as the recursion and in
\* the instruction set of the innermost activation, and a complete program
\* leaves it as it was (the ctx['nest'] = nest + 1 and the pairs of
\* ctx[CTX.ISA] = not ctx[CTX.ISA] of every makeRandomBlock).
ContextKept ==
  /\ nest = Nest - Len(stack)
  /\ arm = IF stack = <<>> THEN TRUE ELSE Top.arm

\* The parts of a block use only words of cfgdata of deeper levels than the
\* block itself, return addresses and loop counters in different halves: a
\* callee cannot overwrite the return address it will use, nor a loop body the
\* counter of its loop (genLoop, getPreCalleeInsts, getPostCalleeInsts).
SlotsNest ==
  /\ \A i \in 1 .. Len(stack) : \A t \in Texts(stack[i]) : \A j \in 1 .. Len(t) :
       UsesSlot(t[j]) => Level(t[j]) \in 0 .. (Nest - i - 1)
  /\ \A j \in 1 .. Len(text) :
       UsesSlot(text[j]) => Level(text[j]) \in 0 .. (Nest - 1)

\* art.py never dies in getBlockLimit or genBranch: a block that was made short
\* for cbz is basic, and so many basic blocks surround it that the least number
\* of instructions per block is not above its limit.
LimitsInOrder == phase \notin {"KeyError", "ValueError"}
=============================================================================
