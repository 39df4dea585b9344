--------------------------- MODULE SeedProgramProofs ---------------------------
(***************************************************************************)
(* Proofs about the generator of control flow, for every nesting level up  *)
(* to eight, every option and programs of any size; for the limits of      *)
(* basic blocks, every number of instructions below 165.                   *)
(***************************************************************************)
EXTENDS SeedProgram, SequenceTheorems, FiniteSetTheorems, TLAPS

\* Instructions that use words of cfgdata of levels below n only.
Below(n) == {e \in Instr : UsesSlot(e) => Level(e) \in 0 .. (n - 1)}

\* The activation at depth i: its parts were drawn for the level below it, the
\* complete ones use levels below its own, and it is not deeper than Nest.
FrameOK(f, i) ==
  /\ i <= Nest
  /\ Len(f.kids) = Parts(f.kind)
  /\ \A k \in 1 .. Len(f.kids) : f.kids[k] \in getRBlock(Nest - i)
  /\ Len(f.subs) <= Parts(f.kind)
  /\ \A k \in 1 .. Len(f.subs) :
       f.subs[k] \in Seq(Below(Nest - i)) /\ Len(f.subs[k]) >= 2

\* The instruction set of the part an activation makes next.
PartArm(f) == IF Switches(f) THEN ~f.arm ELSE f.arm

\* A stack of activations: the first one is ARM code, and every one but the
\* innermost waits for a part, made in the instruction set it switched to.
StackOK(st) ==
  /\ st \in Seq(Frame)
  /\ \A i \in 1 .. Len(st) : FrameOK(st[i], i)
  /\ st # <<>> => st[1].arm = TRUE
  /\ \A i \in 1 .. (Len(st) - 1) :
       /\ Len(st[i].subs) < Parts(st[i].kind)
       /\ st[i + 1].arm = PartArm(st[i])

\* The inductive invariant: ContextKept needs the chain of instruction sets,
\* SlotsNest the levels of the parts.
IndInv ==
  /\ GenTypeOK
  /\ ContextKept
  /\ StackOK(stack)
  /\ stack # <<>> => phase \in {"make", "KeyError"}
  /\ text \in Seq(Below(Nest))
-----------------------------------------------------------------------------
\* What Below contains: everything but uses of cfgdata, and those of levels
\* below n (the constructors of instrgen.py).
LEMMA BelowFacts ==
  ASSUME NEW n \in 0 .. 8, NEW l \in Seq(Nat), NEW a \in BOOLEAN, NEW c \in BOOLEAN
  PROVE  /\ IsaAttr(a) \in Below(n) /\ Label(l) \in Below(n)
         /\ Ins("basic") \in Below(n) /\ Ins("ldrex") \in Below(n)
         /\ Ins("exclstub") \in Below(n) /\ Ins("aluwpc") \in Below(n)
         /\ Ins("exit") \in Below(n)
         /\ genBranch(l, c) \in Below(n) /\ genBX(a, l, c) \in Below(n)
         /\ genCall(a, l, c) \in Below(n)
         /\ genLDREX(l, c) \in Seq(Below(n)) /\ genSTREX(l) \in Seq(Below(n))
         /\ genALUwritePC \in Seq(Below(n))
<1>1. IsaAttr(a) \in Below(n)
  BY DEF IsaAttr, Below, Instr, UsesSlot
<1>2. Label(l) \in Below(n)
  BY DEF Label, Below, Instr, UsesSlot
<1>3. /\ Ins("basic") \in Below(n) /\ Ins("ldrex") \in Below(n)
      /\ Ins("exclstub") \in Below(n) /\ Ins("aluwpc") \in Below(n)
      /\ Ins("exit") \in Below(n)
  BY DEF Ins, Below, Instr, UsesSlot
<1>4. genBranch(l, c) \in Below(n)
  BY DEF genBranch, Below, Instr, UsesSlot
<1>5. genBX(a, l, c) \in Below(n)
  BY DEF genBX, Below, Instr, UsesSlot
<1>6. genCall(a, l, c) \in Below(n)
  BY DEF genCall, Below, Instr, UsesSlot
<1>7. [op |-> "exclsave", cond |-> c] \in Below(n)
  BY DEF Below, Instr, UsesSlot
<1>8. [op |-> "strex", to |-> l] \in Below(n)
  BY DEF Below, Instr, UsesSlot
<1>9. genLDREX(l, c) \in Seq(Below(n))
  BY <1>2, <1>3, <1>7 DEF genLDREX
<1>10. genSTREX(l) \in Seq(Below(n))
  BY <1>3, <1>8 DEF genSTREX
<1>11. genALUwritePC \in Seq(Below(n))
  BY <1>3 DEF genALUwritePC
<1> QED BY <1>1, <1>2, <1>3, <1>4, <1>5, <1>6, <1>9, <1>10, <1>11

\* The words a block uses itself are of its own level.
LEMMA SlotFacts ==
  ASSUME NEW n \in 0 .. 7, NEW l \in Seq(Nat), NEW d,
         d.inc \in Nat, d.limit \in Nat
  PROVE  /\ genLoop(n, l, d) \in Below(n + 1)
         /\ getPreCalleeInsts(n) \in Below(n + 1)
         /\ getPostCalleeInsts(n) \in Below(n + 1)
<1>1. genLoop(n, l, d) \in Below(n + 1)
  BY DEF genLoop, Below, Instr, UsesSlot, Level
<1>2. getPreCalleeInsts(n) \in Below(n + 1)
  BY DEF getPreCalleeInsts, Below, Instr, UsesSlot, Level
<1>3. getPostCalleeInsts(n) \in Below(n + 1)
  BY DEF getPostCalleeInsts, Below, Instr, UsesSlot, Level
<1> QED BY <1>1, <1>2, <1>3

\* A text of lower levels is a text of higher ones.
LEMMA BelowGrows ==
  ASSUME NEW n \in Int, NEW m \in Int, n <= m, NEW t \in Seq(Below(n))
  PROVE  t \in Seq(Below(m))
<1>1. Below(n) \subseteq Below(m)
  BY DEF Below
<1> QED BY <1>1

\* Texts are put together by concatenation.
LEMMA Concat ==
  ASSUME NEW S, NEW s \in Seq(S), NEW t \in Seq(S)
  PROVE  s \o t \in Seq(S)
OBVIOUS

\* Texts of one and of two elements.
LEMMA Short ==
  ASSUME NEW S, NEW d \in S, NEW e \in S
  PROVE  <<d>> \in Seq(S) /\ <<d, e>> \in Seq(S)
OBVIOUS

\* A text with one instruction inserted after its first two elements.
LEMMA Insert ==
  ASSUME NEW S, NEW s \in Seq(S), Len(s) >= 2, NEW e \in S
  PROVE  SubSeq(s, 1, 2) \o <<e>> \o SubSeq(s, 3, Len(s)) \in Seq(S)
<1>1. SubSeq(s, 1, 2) \in Seq(S) /\ SubSeq(s, 3, Len(s)) \in Seq(S)
  BY SubSeqProperties
<1>2. <<e>> \in Seq(S)
  OBVIOUS
<1> QED BY <1>1, <1>2

\* A complete block uses the levels of its parts and its own (the
\* makeRandomBlock of every class), and is a block of at least two elements.
LEMMA BodyBelow ==
  ASSUME NEW f \in Frame, nest \in 0 .. 7, arm \in BOOLEAN,
         Len(f.subs) = Parts(f.kind),
         \A k \in 1 .. Len(f.subs) : f.subs[k] \in Seq(Below(nest)) /\ Len(f.subs[k]) >= 2
  PROVE  Body(f) \in Seq(Below(nest + 1))
<1> DEFINE S == Below(nest + 1)
<1>1. \A k \in 1 .. Len(f.subs) : f.subs[k] \in Seq(S) /\ Len(f.subs[k]) >= 2
  BY BelowGrows
<1>2. \A k \in Nat : Part(f, k) \in Seq(Nat)
  BY DEF Part, Frame
<1>3. \A l \in Seq(Nat), a, c \in BOOLEAN :
        /\ IsaAttr(a) \in S
        /\ genBranch(l, c) \in S /\ genBX(a, l, c) \in S /\ genCall(a, l, c) \in S
        /\ genLDREX(l, c) \in Seq(S) /\ genSTREX(l) \in Seq(S)
        /\ genALUwritePC \in Seq(S)
  <2>1. nest + 1 \in 0 .. 8
    OBVIOUS
  <2> QED BY <2>1, BelowFacts, Zenon
<1>p. /\ Part(f, 0) \in Seq(Nat) /\ Part(f, 1) \in Seq(Nat) /\ Part(f, 2) \in Seq(Nat)
      /\ Part(f, 3) \in Seq(Nat) /\ Part(f, 4) \in Seq(Nat)
  BY <1>2
<1>4. \A k \in Nat : /\ genLoop(nest, Part(f, k), f.draw) \in S
                     /\ getPreCalleeInsts(nest) \in S /\ getPostCalleeInsts(nest) \in S
  <2>1. f.draw.inc \in Nat /\ f.draw.limit \in Nat
    BY DEF Frame
  <2> QED BY <1>2, <2>1, SlotFacts
<1>5. /\ f.draw.cond \in BOOLEAN /\ f.arm \in BOOLEAN
      /\ f.draw.iwcall \in BOOLEAN /\ f.kind \in Compound
  BY DEF Frame
<1>b. /\ TRUE \in BOOLEAN /\ FALSE \in BOOLEAN /\ (~arm) \in BOOLEAN
      /\ (f.arm # f.draw.iwcall) \in BOOLEAN
  OBVIOUS
<1> HIDE DEF S
<1>c. /\ genBranch(Part(f, 1), FALSE) \in S
      /\ genBranch(Part(f, 3), TRUE) \in S /\ genBranch(Part(f, 3), FALSE) \in S
      /\ genBranch(Part(f, 4), FALSE) \in S
  BY <1>3, <1>p, <1>b, Zenon
<1>d. /\ IsaAttr(arm) \in S /\ IsaAttr(f.arm) \in S
      /\ genBX(arm, Part(f, 2), f.draw.cond) \in S
      /\ genBX(~arm, Part(f, 1), f.draw.cond) \in S
      /\ genBX(~arm, Part(f, 3), FALSE) \in S
      /\ genCall(f.arm # f.draw.iwcall, Part(f, 2), f.draw.cond) \in S
  BY <1>3, <1>p, <1>b, <1>5, Zenon
<1>e. /\ genLDREX(Part(f, 0), f.draw.cond) \in Seq(S) /\ genSTREX(Part(f, 0)) \in Seq(S)
      /\ genALUwritePC \in Seq(S)
  BY <1>3, <1>p, <1>b, <1>5, Zenon
<1>l. genLoop(nest, Part(f, 2), f.draw) \in S
  BY <1>4
<1>6. CASE f.kind = "ByPass"
  <2>1. f.subs[1] \in Seq(S) /\ f.subs[2] \in Seq(S) /\ f.subs[3] \in Seq(S)
    BY <1>1, <1>6 DEF Parts
  <2>2. <<genBranch(Part(f, 3), TRUE)>> \in Seq(S)
    BY <1>c, Short, Zenon
  <2>3. ByPassBlock(f) \in Seq(S)
    BY <2>1, <2>2, Concat DEF ByPassBlock
  <2> QED BY <1>6, <2>3 DEF Body, S
<1>7. CASE f.kind = "Hammock"
  <2>1. /\ f.subs[1] \in Seq(S) /\ f.subs[2] \in Seq(S) /\ f.subs[3] \in Seq(S)
        /\ f.subs[4] \in Seq(S)
    BY <1>1, <1>7 DEF Parts
  <2>2. <<genBranch(Part(f, 3), TRUE)>> \in Seq(S) /\ <<genBranch(Part(f, 4), FALSE)>> \in Seq(S)
    BY <1>c, Short, Zenon
  <2>3. HammockBlock(f) \in Seq(S)
    BY <2>1, <2>2, Concat DEF HammockBlock
  <2> QED BY <1>7, <2>3 DEF Body, S
<1>8. CASE f.kind = "Loop"
  <2>1. f.subs[1] \in Seq(S)
    BY <1>1, <1>8 DEF Parts
  <2>2. <<genLoop(nest, Part(f, 1), f.draw)>> \in Seq(S)
    BY <1>4
  <2>3. LoopBlock(f) \in Seq(S)
    BY <2>1, <2>2, Concat DEF LoopBlock
  <2> QED BY <1>8, <2>3 DEF Body, S
<1>9. CASE f.kind = "IrLoop"
  <2>1. f.subs[1] \in Seq(S) /\ f.subs[2] \in Seq(S) /\ f.subs[3] \in Seq(S)
    BY <1>1, <1>9 DEF Parts
  <2>2. <<genBranch(Part(f, 3), TRUE)>> \in Seq(S) /\ <<genLoop(nest, Part(f, 2), f.draw)>> \in Seq(S)
    BY <1>c, <1>l, Short, Zenon
  <2>3. IrreducibleLoopBlock(f) \in Seq(S)
    BY <2>1, <2>2, Concat DEF IrreducibleLoopBlock
  <2> QED BY <1>9, <2>3 DEF Body, S
<1>10. CASE f.kind = "Interwork"
  <2>1. f.subs[1] \in Seq(S) /\ f.subs[2] \in Seq(S) /\ f.subs[3] \in Seq(S)
    BY <1>1, <1>10 DEF Parts
  <2>2. /\ <<IsaAttr(arm), genBX(arm, Part(f, 2), f.draw.cond)>> \in Seq(S)
        /\ <<genBX(~arm, Part(f, 1), f.draw.cond), genBX(~arm, Part(f, 3), FALSE)>> \in Seq(S)
        /\ <<genBranch(Part(f, 3), FALSE)>> \in Seq(S)
    BY <1>c, <1>d, Short, Zenon
  <2>3. InterworkBlock(f) \in Seq(S)
    BY <2>1, <2>2, Concat DEF InterworkBlock
  <2> QED BY <1>10, <2>3 DEF Body, S
<1>11. CASE f.kind = "CallRet"
  <2>1. /\ f.subs[1] \in Seq(S) /\ f.subs[2] \in Seq(S) /\ f.subs[3] \in Seq(S)
        /\ Len(f.subs[2]) >= 2
    BY <1>1, <1>11 DEF Parts
  <2> DEFINE call   == <<genCall(f.arm # f.draw.iwcall, Part(f, 2), f.draw.cond)>>
             before == IF f.draw.begin THEN call ELSE <<>>
             after  == IF f.draw.begin THEN <<>> ELSE call
             callee == SubSeq(f.subs[2], 1, 2) \o <<getPreCalleeInsts(nest)>>
                         \o SubSeq(f.subs[2], 3, Len(f.subs[2]))
                         \o <<getPostCalleeInsts(nest)>>
  <2>2. call \in Seq(S) /\ before \in Seq(S) /\ after \in Seq(S)
    BY <1>d
  <2>3. callee \in Seq(S)
    <3>1. <<getPostCalleeInsts(nest)>> \in Seq(S) /\ getPreCalleeInsts(nest) \in S
      BY <1>4
    <3> QED BY <2>1, <3>1, Insert, Concat
  <2>4. /\ <<IsaAttr(f.arm)>> \in Seq(S) /\ <<genBranch(Part(f, 1), FALSE)>> \in Seq(S)
        /\ <<genBranch(Part(f, 3), FALSE)>> \in Seq(S)
    BY <1>c, <1>d, Short, Zenon
  <2> HIDE DEF call, before, after, callee
  <2>5. <<IsaAttr(f.arm)>> \o before
          \o (IF f.draw.followed
                THEN <<genBranch(Part(f, 1), FALSE)>> \o callee \o f.subs[1] \o after
                ELSE f.subs[1] \o after \o <<genBranch(Part(f, 3), FALSE)>> \o callee)
          \o f.subs[3] \in Seq(S)
    BY <2>1, <2>2, <2>3, <2>4, Concat
  <2>6. CallRetBlock(f) \in Seq(S)
    BY <2>5 DEF CallRetBlock, call, before, after, callee
  <2> QED BY <1>11, <2>6 DEF Body, S
<1>12. CASE f.kind = "Exclusive"
  <2>1. f.subs[1] \in Seq(S) /\ f.subs[2] \in Seq(S)
    BY <1>1, <1>12 DEF Parts
  <2>2. ExclsiveBlock(f) \in Seq(S)
    BY <2>1, <1>e, Concat DEF ExclsiveBlock
  <2> QED BY <1>12, <2>2 DEF Body, S
<1>13. CASE f.kind = "ALUwritePC"
  <2>1. f.subs[1] \in Seq(S) /\ f.subs[2] \in Seq(S)
    BY <1>1, <1>13 DEF Parts
  <2>2. ALUwritePCBlock(f) \in Seq(S)
    BY <2>1, <1>e, Concat DEF ALUwritePCBlock
  <2> QED BY <1>13, <2>2 DEF Body, S
<1> QED BY <1>5, <1>6, <1>7, <1>8, <1>9, <1>10, <1>11, <1>12, <1>13 DEF Compound

\* The frame RBlock.__str__ puts around a body.
LEMMA BlockBelow ==
  ASSUME NEW n \in 0 .. 8, NEW l \in Seq(Nat), NEW a \in BOOLEAN,
         NEW body \in Seq(Below(n))
  PROVE  Block(l, a, body) \in Seq(Below(n)) /\ Len(Block(l, a, body)) >= 2
<1>1. <<IsaAttr(a), Label(l)>> \in Seq(Below(n))
  BY BelowFacts
<1> QED BY <1>1 DEF Block

\* What the invariant says of the innermost activation.
LEMMA TopFacts ==
  ASSUME NEW st, StackOK(st), st # <<>>
  PROVE  /\ Len(st) \in 1 .. Nest
         /\ st[Len(st)] \in Frame
         /\ FrameOK(st[Len(st)], Len(st))
<1>1. Len(st) \in Nat \ {0} /\ Len(st) \in 1 .. Len(st)
  BY DEF StackOK
<1>2. st[Len(st)] \in Frame /\ FrameOK(st[Len(st)], Len(st))
  BY <1>1 DEF StackOK
<1>3. Len(st) <= Nest
  BY <1>2 DEF FrameOK
<1> QED BY <1>1, <1>2, <1>3, NestAssumption

\* A block that was drawn for level n is basic or n is positive.
LEMMA DrawnLevel ==
  ASSUME NEW n \in Int, NEW k \in getRBlock(n)
  PROVE  k \in Compound \cup {"Basic"} /\ (k # "Basic" => n > 0)
BY DEF getRBlock, Compound

\* The block to be made next is drawn for the level in the context.
LEMMA NextFacts ==
  ASSUME IndInv, Making
  PROVE  /\ NextKinds \subseteq getRBlock(nest)
         /\ NextLabel \in Seq(Nat)
         /\ NextArm = IF stack = <<>> THEN TRUE ELSE PartArm(Top)
         /\ nest = Nest - Len(stack) /\ nest \in 0 .. Nest
         /\ stack # <<>> => Len(Top.subs) < Parts(Top.kind)
<1>1. nest = Nest - Len(stack) /\ nest \in 0 .. Nest
  BY DEF IndInv, ContextKept, GenTypeOK
<1>2. CASE stack = <<>>
  <2>1. NextKinds \subseteq getRBlock(nest) /\ NextLabel \in Seq(Nat)
    BY <1>2 DEF NextKinds, NextLabel
  <2>2. NextArm = TRUE
    BY <1>2 DEF NextArm, IndInv, ContextKept
  <2> QED BY <1>1, <1>2, <2>1, <2>2
<1>3. CASE stack # <<>>
  <2>1. /\ Top \in Frame /\ FrameOK(Top, Len(stack)) /\ Len(Top.subs) < Parts(Top.kind)
    BY <1>3, TopFacts DEF IndInv, Top, Making
  <2>2. Len(Top.subs) + 1 \in 1 .. Len(Top.kids) /\ Top.label \in Seq(Nat)
    BY <2>1 DEF FrameOK, Frame
  <2>3. NextKinds \subseteq getRBlock(nest)
    BY <1>1, <1>3, <2>1, <2>2 DEF NextKinds, FrameOK
  <2>4. NextLabel \in Seq(Nat)
    BY <1>3, <2>2 DEF NextLabel, Part
  <2>5. NextArm = PartArm(Top)
    BY <1>3 DEF NextArm, PartArm, IndInv, ContextKept
  <2> QED BY <1>1, <1>3, <2>1, <2>3, <2>4, <2>5
<1> QED BY <1>2, <1>3

\* Pushing the activation of the part that is made next.
LEMMA PushOK ==
  ASSUME NEW st, StackOK(st), NEW g \in Frame, FrameOK(g, Len(st) + 1),
         st = <<>> => g.arm = TRUE,
         st # <<>> => /\ Len(st[Len(st)].subs) < Parts(st[Len(st)].kind)
                      /\ g.arm = PartArm(st[Len(st)])
  PROVE  StackOK(Append(st, g))
<1> DEFINE new == Append(st, g)
<1>0. st \in Seq(Frame)
  BY DEF StackOK
<1>1. /\ st \in Seq(Frame) /\ new \in Seq(Frame) /\ Len(new) = Len(st) + 1
      /\ new[Len(new)] = g /\ new # <<>>
      /\ \A i \in 1 .. Len(st) : new[i] = st[i]
  BY <1>0, AppendProperties
<1> HIDE DEF new
<1>2. ASSUME NEW i \in 1 .. Len(new) PROVE FrameOK(new[i], i)
  <2>1. CASE i = Len(st) + 1
    BY <1>1, <2>1
  <2>2. CASE i \in 1 .. Len(st)
    BY <1>1, <2>2 DEF StackOK
  <2> QED BY <1>1, <2>1, <2>2
<1>3. new[1].arm = TRUE
  <2>1. CASE st = <<>>
    <3>1. Len(new) = 1
      BY <1>1, <2>1
    <3> QED BY <1>1, <2>1, <3>1
  <2>2. CASE st # <<>>
    <3>1. 1 \in 1 .. Len(st)
      BY <1>1, <2>2
    <3> QED BY <1>1, <2>2, <3>1 DEF StackOK
  <2> QED BY <2>1, <2>2
<1>4. ASSUME NEW i \in 1 .. (Len(new) - 1)
      PROVE  Len(new[i].subs) < Parts(new[i].kind) /\ new[i + 1].arm = PartArm(new[i])
  <2>1. CASE i = Len(st)
    <3>1. st # <<>> /\ new[i] = st[Len(st)] /\ new[i + 1] = g
      BY <1>1, <2>1
    <3> QED BY <3>1
  <2>2. CASE i < Len(st)
    <3>1. new[i] = st[i] /\ new[i + 1] = st[i + 1] /\ i \in 1 .. (Len(st) - 1)
      BY <1>1, <2>2
    <3> QED BY <3>1 DEF StackOK
  <2> QED BY <1>1, <2>1, <2>2
<1>5. StackOK(new)
  BY <1>1, <1>2, <1>3, <1>4 DEF StackOK
<1> QED BY <1>5 DEF new

\* Removing the innermost activation.
LEMMA PopOK ==
  ASSUME NEW st, StackOK(st), st # <<>>
  PROVE  LET rest == SubSeq(st, 1, Len(st) - 1)
         IN  /\ StackOK(rest) /\ Len(rest) = Len(st) - 1
             /\ rest = <<>> => st[Len(st)].arm = TRUE
             /\ rest # <<>> =>
                  /\ Len(rest[Len(rest)].subs) < Parts(rest[Len(rest)].kind)
                  /\ st[Len(st)].arm = PartArm(rest[Len(rest)])
<1> DEFINE rest == SubSeq(st, 1, Len(st) - 1)
<1>1. /\ st \in Seq(Frame) /\ Len(st) \in Nat \ {0}
  BY DEF StackOK
<1>2. /\ rest \in Seq(Frame) /\ Len(rest) = Len(st) - 1
      /\ \A i \in 1 .. Len(rest) : rest[i] = st[i]
  <2> DEFINE n == Len(st) - 1
  <2>1. n \in Nat /\ 1 \in Int /\ \A i \in 1 .. n : st[i] \in Frame
    BY <1>1
  <2>2. /\ rest \in Seq(Frame) /\ Len(rest) = IF 1 <= n THEN n - 1 + 1 ELSE 0
        /\ \A i \in 1 .. (n - 1 + 1) : rest[i] = st[1 + i - 1]
    BY <2>1, SubSeqProperties
  <2> HIDE DEF rest, n
  <2>3. Len(rest) = n /\ \A i \in 1 .. n : rest[i] = st[i]
    BY <2>1, <2>2
  <2> QED BY <2>2, <2>3 DEF n
<1> HIDE DEF rest
<1>3. \A i \in 1 .. Len(rest) : FrameOK(rest[i], i)
  BY <1>1, <1>2 DEF StackOK
<1>4. rest # <<>> => rest[1].arm = TRUE
  <2>1. rest # <<>> => 1 \in 1 .. Len(rest)
    BY <1>2
  <2> QED BY <1>1, <1>2, <2>1 DEF StackOK
<1>5. ASSUME NEW i \in 1 .. Len(rest)
      PROVE  Len(rest[i].subs) < Parts(rest[i].kind) /\ st[i + 1].arm = PartArm(rest[i])
  <2>1. i \in 1 .. (Len(st) - 1) /\ rest[i] = st[i]
    BY <1>1, <1>2
  <2> QED BY <2>1 DEF StackOK
<1>6. StackOK(rest)
  <2>1. ASSUME NEW i \in 1 .. (Len(rest) - 1)
        PROVE  Len(rest[i].subs) < Parts(rest[i].kind) /\ rest[i + 1].arm = PartArm(rest[i])
    <3>1. i \in 1 .. Len(rest) /\ rest[i + 1] = st[i + 1]
      BY <1>2
    <3> QED BY <3>1, <1>5
  <2> QED BY <1>2, <1>3, <1>4, <2>1 DEF StackOK
<1>7. rest = <<>> => st[Len(st)].arm = TRUE
  <2>1. rest = <<>> => Len(st) = 1
    BY <1>1, <1>2
  <2> QED BY <2>1 DEF StackOK
<1>8. rest # <<>> => /\ Len(rest[Len(rest)].subs) < Parts(rest[Len(rest)].kind)
                     /\ st[Len(st)].arm = PartArm(rest[Len(rest)])
  <2>1. rest # <<>> => Len(rest) \in 1 .. Len(rest) /\ Len(rest) + 1 = Len(st)
    BY <1>1, <1>2
  <2> QED BY <2>1, <1>5
<1> QED BY <1>2, <1>6, <1>7, <1>8 DEF rest

\* Giving the text of a complete part to the activation that waits for it.
LEMMA GiveOK ==
  ASSUME NEW st, StackOK(st), st # <<>>,
         Len(st[Len(st)].subs) < Parts(st[Len(st)].kind),
         NEW t \in Seq(Below(Nest - Len(st))), Len(t) >= 2
  PROVE  LET new == [st EXCEPT ![Len(st)].subs = Append(@, t)]
         IN  /\ StackOK(new) /\ Len(new) = Len(st) /\ new # <<>>
             /\ new[Len(st)].arm = st[Len(st)].arm
<1> DEFINE n == Len(st)
           f == st[n]
           g == [f EXCEPT !.subs = Append(@, t)]
           new == [st EXCEPT ![n].subs = Append(@, t)]
<1>1. /\ st \in Seq(Frame) /\ n \in 1 .. Nest /\ n \in 1 .. Len(st)
      /\ f \in Frame /\ FrameOK(f, n)
  <2>1. st \in Seq(Frame)
    BY DEF StackOK
  <2>2. n \in 1 .. Nest /\ f \in Frame /\ FrameOK(f, n)
    BY TopFacts
  <2> QED BY <2>1, <2>2, NestAssumption
<1>2. t \in Seq(Instr)
  BY DEF Below
<1>3. /\ f.subs \in Seq(Seq(Instr)) /\ Append(f.subs, t) \in Seq(Seq(Instr))
      /\ Len(Append(f.subs, t)) = Len(f.subs) + 1
      /\ Append(f.subs, t)[Len(f.subs) + 1] = t
      /\ \A k \in 1 .. Len(f.subs) : Append(f.subs, t)[k] = f.subs[k]
  <2>1. f.subs \in Seq(Seq(Instr))
    BY <1>1 DEF Frame
  <2> QED BY <2>1, <1>2, AppendProperties
<1>4. /\ g \in Frame /\ g.kind = f.kind /\ g.kids = f.kids /\ g.arm = f.arm
      /\ g.draw = f.draw /\ g.subs = Append(f.subs, t)
  BY <1>1, <1>3 DEF Frame
<1>5. /\ new \in Seq(Frame) /\ Len(new) = n /\ new[n] = g
      /\ \A i \in 1 .. n : i # n => new[i] = st[i]
  BY <1>1, <1>4
<1> HIDE DEF g, new
<1>6. FrameOK(g, n)
  <2>1. Parts(f.kind) \in Nat
    BY <1>1 DEF Parts
  <2>2. Len(g.subs) = Len(f.subs) + 1 /\ Len(g.subs) <= Parts(g.kind)
    BY <1>1, <1>3, <1>4, <2>1
  <2>3. ASSUME NEW k \in 1 .. Len(g.subs)
        PROVE  g.subs[k] \in Seq(Below(Nest - n)) /\ Len(g.subs[k]) >= 2
    <3>1. CASE k = Len(f.subs) + 1
      BY <1>3, <1>4, <3>1
    <3>2. CASE k \in 1 .. Len(f.subs)
      BY <1>1, <1>3, <1>4, <3>2 DEF FrameOK
    <3> QED BY <1>3, <2>2, <3>1, <3>2
  <2> QED BY <1>1, <1>4, <2>2, <2>3 DEF FrameOK
<1>7. ASSUME NEW i \in 1 .. Len(new) PROVE FrameOK(new[i], i)
  BY <1>1, <1>5, <1>6 DEF StackOK
<1>8. new[1].arm = TRUE
  <2>1. CASE n = 1
    BY <1>1, <1>4, <1>5, <2>1 DEF StackOK
  <2>2. CASE n # 1
    BY <1>1, <1>5, <2>2 DEF StackOK
  <2> QED BY <2>1, <2>2
<1>9. ASSUME NEW i \in 1 .. (Len(new) - 1)
      PROVE  Len(new[i].subs) < Parts(new[i].kind) /\ new[i + 1].arm = PartArm(new[i])
  <2>1. i \in 1 .. (Len(st) - 1) /\ new[i] = st[i]
    BY <1>1, <1>5
  <2>2. new[i + 1].arm = st[i + 1].arm
    BY <1>1, <1>4, <1>5, <2>1
  <2> QED BY <2>1, <2>2 DEF StackOK
<1>10. StackOK(new) /\ new # <<>>
  BY <1>1, <1>5, <1>7, <1>8, <1>9 DEF StackOK
<1> QED BY <1>4, <1>5, <1>10 DEF new

\* A block is complete (Return): the stack below it was waiting for it.
LEMMA ReturnOK ==
  ASSUME IndInv, phase = "make",
         NEW rest, StackOK(rest),
         NEW a, a = IF rest = <<>> THEN TRUE ELSE PartArm(rest[Len(rest)]),
         rest # <<>> => Len(rest[Len(rest)].subs) < Parts(rest[Len(rest)].kind),
         NEW t \in Seq(Below(Nest - Len(rest))), Len(t) >= 2,
         nest' = Nest - Len(rest),
         Return(rest, a, t)
  PROVE  /\ StackOK(stack') /\ ContextKept' /\ arm' \in BOOLEAN
         /\ text' \in Seq(Below(Nest))
         /\ phase' \in {"make", "fill"} /\ (stack' # <<>> => phase' = "make")
<1>1. CASE rest = <<>>
  <2>1. text' = t /\ phase' = "fill" /\ stack' = <<>> /\ arm' = TRUE
    BY <1>1 DEF Return
  <2>2. Len(rest) = 0 /\ Len(stack') = 0 /\ Nest - 0 = Nest
    BY <1>1, <2>1, NestAssumption
  <2>3. StackOK(stack')
    BY <1>1, <2>1
  <2>4. ContextKept'
    BY <2>1, <2>2 DEF ContextKept
  <2>5. text' \in Seq(Below(Nest))
    BY <2>1, <2>2
  <2> QED BY <2>1, <2>3, <2>4, <2>5
<1>2. CASE rest # <<>>
  <2> DEFINE f == rest[Len(rest)]
  <2>1. /\ stack' = [rest EXCEPT ![Len(rest)].subs = Append(@, t)]
        /\ arm' = (IF Switches(f) THEN ~a ELSE a)
        /\ text' = text /\ phase' = phase
    BY <1>2 DEF Return
  <2>2. /\ StackOK(stack') /\ Len(stack') = Len(rest) /\ stack' # <<>>
        /\ stack'[Len(rest)].arm = f.arm
    BY <1>2, <2>1, GiveOK
  <2>3. f.arm \in BOOLEAN
    BY <1>2, TopFacts DEF Frame
  <2>4. arm' = f.arm
    <3>1. CASE Switches(f)
      BY <1>2, <2>1, <2>3, <3>1 DEF PartArm
    <3>2. CASE ~Switches(f)
      BY <1>2, <2>1, <2>3, <3>2 DEF PartArm
    <3> QED BY <3>1, <3>2
  <2>5. ContextKept'
    BY <2>2, <2>4 DEF ContextKept, Top
  <2>6. text' \in Seq(Below(Nest))
    BY <2>1 DEF IndInv
  <2> QED BY <2>1, <2>2, <2>3, <2>4, <2>5, <2>6
<1> QED BY <1>1, <1>2

\* The parts of the invariant that the lemma above does not give.
LEMMA IndFrom ==
  ASSUME StackOK(stack'), ContextKept', arm' \in BOOLEAN, nest' \in 0 .. Nest,
         text' \in Seq(Below(Nest)),
         phase' \in {"make", "fill", "written", "KeyError", "ValueError"},
         stack' # <<>> => phase' \in {"make", "KeyError"},
         bb' \subseteq Seq(Nat), limited' \subseteq Seq(Nat),
         planned' \in 0 .. BlockMax
  PROVE  IndInv'
<1>1. text' \in Seq(Instr)
  BY DEF Below
<1>2. stack' \in Seq(Frame)
  BY DEF StackOK
<1>3. GenTypeOK'
  BY <1>1, <1>2 DEF GenTypeOK
<1> QED BY <1>3 DEF IndInv

\* The initial state of getInitContext and genTest.
LEMMA InitInd == GenInit => IndInv
<1> SUFFICES ASSUME GenInit PROVE IndInv
  OBVIOUS
<1>1. GenTypeOK
  BY NestAssumption, NumAssumption DEF GenInit, GenTypeOK
<1>2. ContextKept
  BY NestAssumption DEF GenInit, ContextKept
<1>3. StackOK(stack) /\ text \in Seq(Below(Nest)) /\ stack = <<>>
  BY DEF GenInit, StackOK
<1> QED BY <1>1, <1>2, <1>3 DEF IndInv

\* A basic block is made and returned at once.
LEMMA BasicStep == ASSUME IndInv, BasicRBlock PROVE IndInv'
<1>1. Making /\ phase = "make" /\ StackOK(stack)
  BY DEF BasicRBlock, Making, IndInv
<1>2. /\ NextLabel \in Seq(Nat)
      /\ NextArm = IF stack = <<>> THEN TRUE ELSE PartArm(stack[Len(stack)])
      /\ nest = Nest - Len(stack) /\ nest \in 0 .. Nest
      /\ stack # <<>> => Len(stack[Len(stack)].subs) < Parts(stack[Len(stack)].kind)
  BY <1>1, NextFacts DEF Top
<1>3. NextArm \in BOOLEAN
  BY DEF NextArm, IndInv, GenTypeOK
<1> DEFINE t == Block(NextLabel, NextArm, <<Ins("basic")>>)
<1>4. t \in Seq(Below(Nest - Len(stack))) /\ Len(t) >= 2
  <2>1. nest \in 0 .. 8
    BY <1>2, NestAssumption
  <2>2. Ins("basic") \in Below(nest)
    BY DEF Ins, Below, Instr, UsesSlot
  <2>3. <<Ins("basic")>> \in Seq(Below(nest))
    BY <2>2
  <2>4. t \in Seq(Below(nest)) /\ Len(t) >= 2
    BY <1>2, <1>3, <2>1, <2>3, BlockBelow, Zenon
  <2> QED BY <1>2, <2>4
<1>5. /\ Return(stack, NextArm, t) /\ nest' = nest /\ limited' = limited
      /\ planned' = planned /\ bb' = bb \cup {NextLabel}
  BY DEF BasicRBlock
<1> HIDE DEF t
<1>6. nest' = Nest - Len(stack)
  BY <1>2, <1>5
<1>7. /\ StackOK(stack') /\ ContextKept' /\ arm' \in BOOLEAN
      /\ text' \in Seq(Below(Nest))
      /\ phase' \in {"make", "fill"} /\ (stack' # <<>> => phase' = "make")
  BY <1>1, <1>2, <1>4, <1>5, <1>6, ReturnOK
<1>8. /\ bb' \subseteq Seq(Nat) /\ limited' \subseteq Seq(Nat)
      /\ planned' \in 0 .. BlockMax /\ nest' \in 0 .. Nest
  BY <1>2, <1>5 DEF IndInv, GenTypeOK
<1> QED BY <1>7, <1>8, IndFrom

\* Record sets grow with the sets of their fields.
LEMMA DrawGrows ==
  ASSUME NEW C, C \subseteq BOOLEAN, NEW F, F \subseteq BOOLEAN,
         NEW W, W \subseteq BOOLEAN, NEW B, B \subseteq BOOLEAN,
         NEW I, I \subseteq Nat, NEW L, L \subseteq Nat,
         NEW d \in [cond : C, followed : F, iwcall : W, begin : B, inc : I, limit : L]
  PROVE  d \in [cond : BOOLEAN, followed : BOOLEAN, iwcall : BOOLEAN,
                begin : BOOLEAN, inc : Nat, limit : Nat]
OBVIOUS

\* What is drawn for a block is what an activation may hold.
LEMMA DrawTypes ==
  ASSUME NEW kind, NEW a, NEW d \in Draws(kind, a)
  PROVE  d \in [cond : BOOLEAN, followed : BOOLEAN, iwcall : BOOLEAN,
                begin : BOOLEAN, inc : Nat, limit : Nat]
<1> DEFINE Drawn(kinds, S, none) == IF kind \in kinds THEN S ELSE {none}
           C == Drawn({"Interwork", "Exclusive"} \cup (IF a THEN {"CallRet"} ELSE {}),
                      BOOLEAN, FALSE)
           F == Drawn({"Interwork", "CallRet"}, BOOLEAN, FALSE)
           W == Drawn({"CallRet"}, BOOLEAN, FALSE)
           I == Drawn({"Loop", "IrLoop"}, Incs, 0)
           L == Drawn({"Loop", "IrLoop"}, Limits, 0)
<1>1. C \subseteq BOOLEAN
  OBVIOUS
<1>2. F \subseteq BOOLEAN
  OBVIOUS
<1>3. W \subseteq BOOLEAN
  OBVIOUS
<1>4. I \subseteq Nat /\ L \subseteq Nat
  BY LoopAssumption
<1>5. d \in [cond : C, followed : F, iwcall : W, begin : W, inc : I, limit : L]
  BY DEF Draws
<1> HIDE DEF C, F, W, I, L
<1> QED BY <1>1, <1>2, <1>3, <1>4, <1>5, DrawGrows

\* A block with parts is started.
LEMMA StartStep ==
  ASSUME IndInv, NEW kind \in Compound, StartBlock(kind) PROVE IndInv'
<1>1. Making /\ phase = "make" /\ StackOK(stack) /\ kind \in NextKinds
  BY DEF StartBlock, Making, IndInv
<1>2. /\ NextKinds \subseteq getRBlock(nest)
      /\ NextLabel \in Seq(Nat)
      /\ NextArm = IF stack = <<>> THEN TRUE ELSE PartArm(stack[Len(stack)])
      /\ nest = Nest - Len(stack) /\ nest \in 0 .. Nest
      /\ stack # <<>> => Len(stack[Len(stack)].subs) < Parts(stack[Len(stack)].kind)
  BY <1>1, NextFacts DEF Top
<1>3. NextArm \in BOOLEAN /\ Len(stack) \in Nat
  <2>1. NextArm \in BOOLEAN
    BY DEF NextArm, IndInv, GenTypeOK
  <2>2. stack \in Seq(Frame)
    BY DEF IndInv, GenTypeOK
  <2> QED BY <2>1, <2>2
<1>4. nest > 0
  <2>1. kind # "Basic" /\ kind \in getRBlock(nest) /\ nest \in Int
    BY <1>1, <1>2 DEF Compound
  <2> QED BY <2>1, DrawnLevel
<1>5. PICK kids \in [1 .. Parts(kind) -> getRBlock(nest - 1)],
           draw \in Draws(kind, NextArm) :
        /\ planned' = planned + Cardinality({k \in DOMAIN kids : kids[k] # "Basic"})
                        + (IF stack = <<>> THEN 1 ELSE 0)
        /\ planned' <= BlockMax
        /\ stack' = Append(stack, [label |-> NextLabel, kind |-> kind,
                                   arm |-> NextArm, draw |-> draw,
                                   kids |-> kids, subs |-> <<>>])
  BY DEF StartBlock
<1>6. Parts(kind) \in Nat
  BY DEF Parts
<1>7. planned' \in 0 .. BlockMax
  <2> DEFINE K == {k \in DOMAIN kids : kids[k] # "Basic"}
  <2>1. IsFiniteSet(1 .. Parts(kind)) /\ K \subseteq 1 .. Parts(kind)
    BY <1>6, FS_Interval
  <2>2. Cardinality(K) \in Nat
    BY <2>1, FS_Subset, FS_CardinalityType
  <2>3. planned \in Nat
    BY DEF IndInv, GenTypeOK
  <2> HIDE DEF K
  <2>4. planned' = planned + Cardinality(K) + (IF stack = <<>> THEN 1 ELSE 0)
    BY <1>5 DEF K
  <2> QED BY <1>5, <2>2, <2>3, <2>4, NumAssumption
<1> DEFINE g == [label |-> NextLabel, kind |-> kind, arm |-> NextArm, draw |-> draw,
                 kids |-> kids, subs |-> <<>>]
<1>8. g \in Frame
  <2>1. draw \in [cond : BOOLEAN, followed : BOOLEAN, iwcall : BOOLEAN,
                  begin : BOOLEAN, inc : Nat, limit : Nat]
    BY DrawTypes
  <2>2. kids \in Seq(Compound \cup {"Basic"}) /\ Len(kids) = Parts(kind)
    <3>1. \A k \in 1 .. Parts(kind) : kids[k] \in Compound \cup {"Basic"}
      BY <1>2, DrawnLevel
    <3> QED BY <1>6, <3>1
  <2>3. <<>> \in Seq(Seq(Instr))
    OBVIOUS
  <2> QED BY <1>2, <1>3, <2>1, <2>2, <2>3 DEF Frame
<1>9. FrameOK(g, Len(stack) + 1)
  <2>1. /\ g.kids = kids /\ g.kind = kind /\ g.subs = <<>>
        /\ Len(kids) = Parts(kind) /\ nest - 1 = Nest - (Len(stack) + 1)
    BY <1>2, <1>3, <1>6, NestAssumption
  <2>2. Len(stack) + 1 <= Nest
    BY <1>2, <1>3, <1>4, NestAssumption
  <2> QED BY <1>6, <2>1, <2>2 DEF FrameOK
<1>10. /\ g.arm = NextArm
       /\ stack' = Append(stack, g) /\ nest' = nest - 1 /\ arm' = NextArm
       /\ phase' = phase /\ bb' = bb /\ limited' = limited /\ text' = text
  BY <1>5 DEF StartBlock
<1> HIDE DEF g
<1>11. StackOK(stack')
  BY <1>1, <1>2, <1>8, <1>9, <1>10, PushOK
<1>12. ContextKept'
  <2>1. Len(stack') = Len(stack) + 1 /\ stack'[Len(stack')] = g /\ stack' # <<>>
    <3>1. stack \in Seq(Frame)
      BY DEF IndInv, GenTypeOK
    <3> QED BY <3>1, <1>8, <1>10, AppendProperties
  <2>2. nest' = Nest - Len(stack')
    BY <1>2, <1>3, <1>10, <2>1, NestAssumption
  <2>3. arm' = Top'.arm
    BY <1>10, <2>1 DEF Top
  <2> QED BY <2>1, <2>2, <2>3 DEF ContextKept
<1>13. /\ nest' \in 0 .. Nest /\ arm' \in BOOLEAN /\ phase' = "make"
       /\ bb' \subseteq Seq(Nat) /\ limited' \subseteq Seq(Nat)
       /\ text' \in Seq(Below(Nest))
  <2>1. nest' \in 0 .. Nest
    BY <1>2, <1>4, <1>10, NestAssumption
  <2>2. arm' \in BOOLEAN
    BY <1>3, <1>10
  <2>3. phase' = "make" /\ text' \in Seq(Below(Nest))
    BY <1>1, <1>10 DEF IndInv
  <2>4. bb' \subseteq Seq(Nat) /\ limited' \subseteq Seq(Nat)
    BY <1>10 DEF IndInv, GenTypeOK
  <2> QED BY <2>1, <2>2, <2>3, <2>4
<1> QED BY <1>7, <1>11, <1>12, <1>13, IndFrom

\* A block with parts is complete, or genBranch misses a label.
LEMMA EndStep == ASSUME IndInv, EndBlock PROVE IndInv'
<1>1. /\ phase = "make" /\ stack # <<>> /\ StackOK(stack)
      /\ Len(Top.subs) = Parts(Top.kind) /\ bb' = bb /\ planned' = planned
  BY DEF EndBlock, IndInv
<1>2. /\ Len(stack) \in 1 .. Nest /\ Top \in Frame /\ FrameOK(Top, Len(stack))
      /\ nest = Nest - Len(stack) /\ arm = Top.arm /\ Top.arm \in BOOLEAN
      /\ Top.label \in Seq(Nat)
  <2>1. Len(stack) \in 1 .. Nest /\ Top \in Frame /\ FrameOK(Top, Len(stack))
    BY <1>1, TopFacts DEF Top
  <2>2. nest = Nest - Len(stack) /\ arm = Top.arm
    BY <1>1 DEF IndInv, ContextKept
  <2>3. Top.arm \in BOOLEAN /\ Top.label \in Seq(Nat)
    BY <2>1 DEF Frame
  <2> QED BY <2>1, <2>2, <2>3
<1>3. /\ bb' \subseteq Seq(Nat) /\ planned' \in 0 .. BlockMax
      /\ bb \subseteq Seq(Nat) /\ limited \subseteq Seq(Nat)
  BY <1>1 DEF IndInv, GenTypeOK
<1>4. CASE ShortPart \subseteq bb
  <2> DEFINE rest == SubSeq(stack, 1, Len(stack) - 1)
             t == Block(Top.label, Top.arm, Body(Top))
  <2>1. /\ limited' = limited \cup ShortPart /\ nest' = nest + 1
        /\ Return(rest, arm, t)
    BY <1>4 DEF EndBlock
  <2>2. /\ StackOK(rest) /\ Len(rest) = Len(stack) - 1
        /\ rest = <<>> => Top.arm = TRUE
        /\ rest # <<>> => /\ Len(rest[Len(rest)].subs) < Parts(rest[Len(rest)].kind)
                          /\ Top.arm = PartArm(rest[Len(rest)])
    BY <1>1, PopOK DEF Top
  <2>3. nest \in 0 .. 7 /\ nest + 1 \in 0 .. 8 /\ nest + 1 = Nest - (Len(stack) - 1)
    BY <1>2, NestAssumption
  <2>4. t \in Seq(Below(nest + 1)) /\ Len(t) >= 2
    <3>1. \A k \in 1 .. Len(Top.subs) :
            Top.subs[k] \in Seq(Below(nest)) /\ Len(Top.subs[k]) >= 2
      BY <1>2 DEF FrameOK
    <3>2. arm \in BOOLEAN
      BY DEF IndInv, GenTypeOK
    <3>3. Body(Top) \in Seq(Below(nest + 1))
      BY <1>1, <1>2, <2>3, <3>1, <3>2, BodyBelow
    <3> QED BY <1>2, <2>3, <3>3, BlockBelow, Zenon
  <2> HIDE DEF rest, t
  <2>5. nest' = Nest - Len(rest) /\ t \in Seq(Below(Nest - Len(rest)))
    BY <2>1, <2>2, <2>3, <2>4
  <2>6. arm = IF rest = <<>> THEN TRUE ELSE PartArm(rest[Len(rest)])
    BY <1>2, <2>2
  <2>7. /\ StackOK(stack') /\ ContextKept' /\ arm' \in BOOLEAN
        /\ text' \in Seq(Below(Nest))
        /\ phase' \in {"make", "fill"} /\ (stack' # <<>> => phase' = "make")
    BY <1>1, <2>1, <2>2, <2>4, <2>5, <2>6, ReturnOK
  <2>8. limited' \subseteq Seq(Nat) /\ nest' \in 0 .. Nest
    BY <1>2, <1>3, <1>4, <2>1, NestAssumption
  <2> QED BY <1>3, <2>7, <2>8, IndFrom
<1>5. CASE ~(ShortPart \subseteq bb)
  <2>1. /\ phase' = "KeyError" /\ limited' = limited /\ nest' = nest /\ stack' = stack
        /\ arm' = arm /\ text' = text
    BY <1>5 DEF EndBlock
  <2>2. ContextKept'
    BY <2>1 DEF IndInv, ContextKept, Top
  <2>3. /\ arm' \in BOOLEAN /\ nest' \in 0 .. Nest /\ text' \in Seq(Below(Nest))
        /\ StackOK(stack')
    BY <2>1 DEF IndInv, GenTypeOK
  <2> QED BY <1>3, <2>1, <2>2, <2>3, IndFrom
<1> QED BY <1>4, <1>5

\* The instructions of the basic blocks are generated and the exit code added.
LEMMA TestStep == ASSUME IndInv, genTest PROVE IndInv'
<1>1. /\ phase = "fill" /\ stack' = stack /\ nest' = nest /\ arm' = arm /\ bb' = bb
      /\ limited' = limited /\ planned' = planned
      /\ phase' \in {"written", "ValueError"}
      /\ text' = text \/ text' = text \o genExitBlock
  BY DEF genTest
<1>2. stack = <<>>
  BY <1>1 DEF IndInv
<1>3. text' \in Seq(Below(Nest))
  <2>1. genExitBlock \in Seq(Below(Nest))
    BY DEF genExitBlock, IsaAttr, Ins, Below, Instr, UsesSlot
  <2>2. text \in Seq(Below(Nest))
    BY DEF IndInv
  <2> QED BY <1>1, <2>1, <2>2, Concat
<1>4. ContextKept'
  BY <1>1 DEF IndInv, ContextKept, Top
<1>5. /\ arm' \in BOOLEAN /\ nest' \in 0 .. Nest /\ StackOK(stack')
      /\ bb' \subseteq Seq(Nat) /\ limited' \subseteq Seq(Nat) /\ planned' \in 0 .. BlockMax
  BY <1>1 DEF IndInv, GenTypeOK
<1> QED BY <1>1, <1>2, <1>3, <1>4, <1>5, IndFrom

\* Every step keeps the invariant.
LEMMA NextInd == IndInv /\ [Make]_genVars => IndInv'
<1> SUFFICES ASSUME IndInv, [Make]_genVars PROVE IndInv'
  OBVIOUS
<1>1. CASE BasicRBlock
  BY <1>1, BasicStep
<1>2. ASSUME NEW kind \in Compound, StartBlock(kind) PROVE IndInv'
  BY <1>2, StartStep
<1>3. CASE EndBlock
  BY <1>3, EndStep
<1>4. CASE genTest
  BY <1>4, TestStep
<1>5. CASE UNCHANGED genVars
  BY <1>5 DEF genVars, IndInv, GenTypeOK, ContextKept, Top
<1> QED BY <1>1, <1>2, <1>3, <1>4, <1>5 DEF Make

\* What the invariant is for.
LEMMA IndImplies == IndInv => ContextKept /\ SlotsNest
<1> SUFFICES ASSUME IndInv PROVE ContextKept /\ SlotsNest
  OBVIOUS
<1>1. ASSUME NEW i \in 1 .. Len(stack), NEW t \in Texts(stack[i]), NEW j \in 1 .. Len(t),
             UsesSlot(t[j])
      PROVE  Level(t[j]) \in 0 .. (Nest - i - 1)
  <2>1. FrameOK(stack[i], i)
    BY DEF IndInv, StackOK
  <2>2. stack[i] \in Frame
    BY DEF IndInv, GenTypeOK
  <2>3. stack[i].subs \in Seq(Seq(Instr))
    BY <2>2 DEF Frame
  <2>4. PICK k \in 1 .. Len(stack[i].subs) : t = stack[i].subs[k]
    BY <2>3 DEF Texts
  <2>5. t \in Seq(Below(Nest - i))
    BY <2>1, <2>4 DEF FrameOK
  <2>6. t[j] \in Below(Nest - i)
    BY <2>5
  <2> QED BY <1>1, <2>6 DEF Below
<1>2. ASSUME NEW j \in 1 .. Len(text), UsesSlot(text[j])
      PROVE  Level(text[j]) \in 0 .. (Nest - 1)
  <2>1. text[j] \in Below(Nest)
    BY DEF IndInv
  <2> QED BY <1>2, <2>1 DEF Below
<1> QED BY <1>1, <1>2 DEF IndInv, SlotsNest

\* The generator of the composed specification is the generator alone: the
\* processor changes nothing of it.
LEMMA StepGenerates == [Next]_vars => [Make]_genVars
BY DEF Next, Generate, Run, vars, genVars, Start, Basic, Branch, BranchExchange, Loop,
       Call, PushLr, PopPc, SaveFlags, Ldrex, Strex, ExclStub, AluWritePC

\* IndInv is an invariant of the whole.
LEMMA Invariant == Spec => []IndInv
<1>1. Init => IndInv
  BY InitInd DEF Init
<1>2. IndInv /\ [Next]_vars => IndInv'
  BY NextInd, StepGenerates
<1> QED BY <1>1, <1>2, PTL DEF Spec

\* The types of the generator: its instructions, activations and context.
THEOREM GeneratorTypes == Spec => []GenTypeOK
<1>1. IndInv => GenTypeOK
  BY DEF IndInv
<1> QED BY <1>1, Invariant, PTL

\* For programs of any size and every nesting level up to eight, makeRandomBlock
\* puts the nesting level and the instruction set of the context back.
THEOREM ContextRestored == Spec => []ContextKept
BY Invariant, IndImplies, PTL

\* For every nesting level up to eight the parts of a block use deeper words of
\* cfgdata than the block, and return addresses and loop counters never meet.
THEOREM SlotsApart == Spec => []SlotsNest
BY Invariant, IndImplies, PTL

-----------------------------------------------------------------------------
(***************************************************************************)
(* art.py does not die of its own limits.  A block is limited to 32        *)
(* instructions because cbz branches over it, which needs Thumb code; the  *)
(* block around it that switched to Thumb has a part before and a part     *)
(* after it.  So a program with a limited block has five basic blocks: the *)
(* three parts of the block with the branch and one in each of these two.  *)
(***************************************************************************)

\* Label b is inside the k-th part of activation i.
InPart(st, i, k, b) ==
  /\ Len(b) >= i /\ b[i] = k
  /\ \A j \in 1 .. (i - 1) : b[j] = Len(st[j].subs) + 1

\* Labels are paths, a part that is complete has a basic block, and Thumb code
\* is inside a block that switched to it.
PathOK(st, B) ==
  /\ \A i \in 1 .. Len(st) :
       /\ Len(st[i].label) = i - 1
       /\ \A j \in 1 .. (i - 1) : st[i].label[j] = Len(st[j].subs) + 1
  /\ \A i \in 1 .. (Len(st) - 1) : st[i + 1].kind = st[i].kids[Len(st[i].subs) + 1]
  /\ \A i \in 1 .. Len(st) : \A k \in 1 .. Len(st[i].subs) :
       /\ \E b \in B : InPart(st, i, k, b)
       /\ st[i].kids[k] = "Basic" => Append(st[i].label, k) \in B
  /\ \A i \in 1 .. Len(st) : ~st[i].arm => \E j \in 1 .. (i - 1) : Switches(st[j])

\* The five basic blocks of a limited one; the last may still be to come, in
\* the third part of an activation.
FiveAt(st, B, x, j) ==
  /\ x \in B /\ x[j] = 2 /\ x[Len(x)] = 2
  /\ \E y \in B : Len(y) = Len(x) /\ y[j] = 2 /\ y[Len(x)] = 1
  /\ \E y \in B : Len(y) = Len(x) /\ y[j] = 2 /\ y[Len(x)] = 3
  /\ \E y \in B : Len(y) >= j /\ y[j] = 1
  /\ \/ \E y \in B : Len(y) >= j /\ y[j] = 3
     \/ j <= Len(st) /\ Parts(st[j].kind) = 3

Five(st, B, x) == \E j \in 1 .. (Len(x) - 1) : FiveAt(st, B, x, j)

LimitInv ==
  /\ IsFiniteSet(bb)
  /\ PathOK(stack, bb)
  /\ \A x \in limited : Five(stack, bb, x)
  /\ LimitsInOrder

\* More basic blocks do no harm.
LEMMA PathGrows ==
  ASSUME NEW st, NEW B, NEW C, B \subseteq C
  PROVE  /\ PathOK(st, B) => PathOK(st, C)
         /\ \A x : Five(st, B, x) => Five(st, C, x)
<1>1. PathOK(st, B) => PathOK(st, C)
  BY DEF PathOK
<1>2. ASSUME NEW x, Five(st, B, x) PROVE Five(st, C, x)
  <2>1. PICK j \in 1 .. (Len(x) - 1) : FiveAt(st, B, x, j)
    BY <1>2 DEF Five
  <2>2. FiveAt(st, C, x, j)
    BY <2>1 DEF FiveAt
  <2> QED BY <2>2 DEF Five
<1> QED BY <1>1, <1>2

\* A new activation.
LEMMA PathPush ==
  ASSUME NEW st, StackOK(st), NEW B, PathOK(st, B), NEW g \in Frame, g.subs = <<>>,
         g.label = IF st = <<>> THEN <<>>
                   ELSE Append(st[Len(st)].label, Len(st[Len(st)].subs) + 1),
         st = <<>> => g.arm = TRUE,
         st # <<>> => /\ g.arm = PartArm(st[Len(st)])
                      /\ g.kind = st[Len(st)].kids[Len(st[Len(st)].subs) + 1]
  PROVE  /\ PathOK(Append(st, g), B)
         /\ \A x : Five(st, B, x) => Five(Append(st, g), B, x)
<1> DEFINE new == Append(st, g)
           n == Len(st)
<1>0. st \in Seq(Frame)
  BY DEF StackOK
<1>1. /\ n \in Nat /\ Len(new) = n + 1 /\ new[n + 1] = g
      /\ \A i \in 1 .. n : new[i] = st[i]
      /\ \A i \in 1 .. n : st[i] \in Frame
  BY <1>0, AppendProperties
<1> HIDE DEF new, n
<1>2. ASSUME NEW i \in 1 .. (n + 1)
      PROVE  /\ Len(new[i].label) = i - 1
             /\ \A j \in 1 .. (i - 1) : new[i].label[j] = Len(new[j].subs) + 1
  <2>1. CASE i \in 1 .. n
    <3>1. /\ Len(st[i].label) = i - 1
          /\ \A j \in 1 .. (i - 1) : st[i].label[j] = Len(st[j].subs) + 1
      BY <2>1 DEF PathOK, n
    <3>2. \A j \in 1 .. (i - 1) : new[j] = st[j]
      BY <1>1, <2>1
    <3> QED BY <1>1, <2>1, <3>1, <3>2
  <2>2. CASE i = n + 1 /\ n = 0
    BY <1>0, <1>1, <2>2 DEF n
  <2>3. CASE i = n + 1 /\ n # 0
    <3>1. st # <<>> /\ n \in 1 .. n
      BY <1>0, <1>1, <2>3 DEF n
    <3>2. st[n].label \in Seq(Nat) /\ Len(st[n].subs) \in Nat
      <4>1. st[n] \in Frame
        BY <1>1, <3>1
      <4>2. st[n].label \in Seq(Nat) /\ st[n].subs \in Seq(Seq(Instr))
        BY <4>1 DEF Frame
      <4> QED BY <4>2
    <3>3. g.label = Append(st[n].label, Len(st[n].subs) + 1)
      BY <3>1 DEF n
    <3>4. /\ Len(st[n].label) = n - 1
          /\ \A j \in 1 .. (n - 1) : st[n].label[j] = Len(st[j].subs) + 1
      BY <3>1 DEF PathOK, n
    <3>5. /\ Len(g.label) = n /\ g.label[n] = Len(st[n].subs) + 1
          /\ \A j \in 1 .. (n - 1) : g.label[j] = st[n].label[j]
      <4> DEFINE l == st[n].label
                 k == Len(st[n].subs) + 1
      <4>1. l \in Seq(Nat) /\ k \in Nat /\ Len(l) = n - 1
        BY <3>2, <3>4
      <4> HIDE DEF l, k
      <4>2. Len(Append(l, k)) = n /\ Append(l, k)[n] = k /\ \A j \in 1 .. (n - 1) : Append(l, k)[j] = l[j]
        BY <1>1, <4>1, AppendProperties
      <4> QED BY <3>3, <4>2 DEF l, k
    <3>6. ASSUME NEW j \in 1 .. n PROVE g.label[j] = Len(new[j].subs) + 1
      <4>1. CASE j = n
        BY <1>1, <3>1, <3>5, <4>1
      <4>2. CASE j \in 1 .. (n - 1)
        BY <1>1, <3>4, <3>5, <4>2
      <4>3. n \in Nat
        BY <1>1
      <4>4. j = n \/ j \in 1 .. (n - 1)
        BY <4>3
      <4> QED BY <4>1, <4>2, <4>4
    <3>7. new[i] = g /\ i - 1 = n
      BY <1>1, <2>3
    <3> QED BY <3>5, <3>6, <3>7
  <2> QED BY <1>1, <2>1, <2>2, <2>3
<1>3. ASSUME NEW i \in 1 .. n PROVE new[i + 1].kind = new[i].kids[Len(new[i].subs) + 1]
  <2>1. CASE i = n
    <3>1. st # <<>>
      BY <1>0, <1>1, <2>1 DEF n
    <3> QED BY <1>1, <2>1, <3>1 DEF n
  <2>2. CASE i \in 1 .. (n - 1)
    <3>1. st[i + 1].kind = st[i].kids[Len(st[i].subs) + 1]
      BY <2>2 DEF PathOK, n
    <3>2. new[i] = st[i] /\ new[i + 1] = st[i + 1]
      BY <1>1, <2>2
    <3> QED BY <3>1, <3>2
  <2> QED BY <1>1, <2>1, <2>2
<1>4. ASSUME NEW i \in 1 .. (n + 1), NEW k \in 1 .. Len(new[i].subs)
      PROVE  /\ \E b \in B : InPart(new, i, k, b)
             /\ new[i].kids[k] = "Basic" => Append(new[i].label, k) \in B
  <2>1. i \in 1 .. n
    <3>1. i # n + 1
      <4>1. Len(g.subs) = 0
        OBVIOUS
      <4> QED BY <1>1, <1>4, <4>1
    <3> QED BY <1>1, <3>1
  <2>2. new[i] = st[i] /\ k \in 1 .. Len(st[i].subs) /\ i \in 1 .. Len(st)
    BY <1>1, <1>4, <2>1 DEF n
  <2>3. PICK b \in B : InPart(st, i, k, b)
    BY <2>2 DEF PathOK
  <2>4. \A j \in 1 .. (i - 1) : new[j] = st[j]
    BY <1>1, <2>1
  <2>5. InPart(new, i, k, b)
    BY <2>3, <2>4 DEF InPart
  <2>6. st[i].kids[k] = "Basic" => Append(st[i].label, k) \in B
    BY <2>2 DEF PathOK
  <2> QED BY <2>2, <2>5, <2>6
<1>5. ASSUME NEW i \in 1 .. (n + 1), ~new[i].arm PROVE \E j \in 1 .. (i - 1) : Switches(new[j])
  <2>1. CASE i \in 1 .. n
    <3>1. PICK j \in 1 .. (i - 1) : Switches(st[j])
      BY <1>1, <1>5, <2>1 DEF PathOK, n
    <3>2. new[j] = st[j]
      BY <1>1, <2>1
    <3> QED BY <3>1, <3>2
  <2>2. CASE i = n + 1
    <3>1. st # <<>> /\ n \in 1 .. n /\ ~PartArm(st[n])
      BY <1>0, <1>1, <1>5, <2>2 DEF n
    <3>2. CASE Switches(st[n])
      <4>1. n \in 1 .. (i - 1) /\ new[n] = st[n]
        BY <1>1, <2>2, <3>1
      <4> QED BY <3>2, <4>1
    <3>3. CASE ~Switches(st[n])
      <4>1. ~st[n].arm
        BY <3>1, <3>3 DEF PartArm
      <4>2. PICK j \in 1 .. (n - 1) : Switches(st[j])
        BY <3>1, <4>1 DEF PathOK, n
      <4>3. j \in 1 .. (i - 1) /\ new[j] = st[j]
        BY <1>1, <2>2
      <4> QED BY <4>2, <4>3
    <3> QED BY <3>2, <3>3
  <2> QED BY <1>1, <2>1, <2>2
<1>6. PathOK(new, B)
  <2>1. Len(new) - 1 = n
    BY <1>1
  <2> QED BY <1>1, <1>2, <1>3, <1>4, <1>5, <2>1 DEF PathOK
<1>7. ASSUME NEW x, Five(st, B, x) PROVE Five(new, B, x)
  <2>1. PICK j \in 1 .. (Len(x) - 1) : FiveAt(st, B, x, j)
    BY <1>7 DEF Five
  <2>2. j <= n => j <= Len(new) /\ new[j] = st[j]
    BY <1>1
  <2>3. FiveAt(new, B, x, j)
    BY <2>1, <2>2 DEF FiveAt, n
  <2> QED BY <2>3 DEF Five
<1> QED BY <1>6, <1>7 DEF new

\* An activation gets the text of its next part, which has a basic block.
LEMMA PathGive ==
  ASSUME NEW st, StackOK(st), st # <<>>, NEW B, PathOK(st, B), NEW t \in Seq(Instr),
         \E b \in B : InPart(st, Len(st), Len(st[Len(st)].subs) + 1, b),
         st[Len(st)].kids[Len(st[Len(st)].subs) + 1] = "Basic" =>
           Append(st[Len(st)].label, Len(st[Len(st)].subs) + 1) \in B
  PROVE  LET new == [st EXCEPT ![Len(st)].subs = Append(@, t)]
         IN  PathOK(new, B) /\ \A x : Five(st, B, x) => Five(new, B, x)
<1> DEFINE n == Len(st)
           f == st[n]
           g == [f EXCEPT !.subs = Append(@, t)]
           new == [st EXCEPT ![n].subs = Append(@, t)]
<1>1. /\ st \in Seq(Frame) /\ n \in Nat /\ n \in 1 .. n /\ f \in Frame
  BY TopFacts DEF StackOK
<1>2. f.subs \in Seq(Seq(Instr))
  BY <1>1 DEF Frame
<1>3. Len(f.subs) \in Nat /\ Len(Append(f.subs, t)) = Len(f.subs) + 1
  BY <1>2, AppendProperties
<1>4. /\ g.kind = f.kind /\ g.kids = f.kids /\ g.arm = f.arm /\ g.label = f.label
      /\ g.subs = Append(f.subs, t)
  BY <1>1 DEF Frame
<1>5. /\ Len(new) = n /\ new[n] = g
      /\ \A i \in 1 .. n : i # n => new[i] = st[i]
  BY <1>1
<1> HIDE DEF g, new, f, n
<1>6. \A i \in 1 .. n : /\ new[i].kind = st[i].kind /\ new[i].kids = st[i].kids
                        /\ new[i].arm = st[i].arm /\ new[i].label = st[i].label
                        /\ \A j \in 1 .. (i - 1) : new[j] = st[j]
  <2>1. ASSUME NEW i \in 1 .. n, NEW j \in 1 .. (i - 1) PROVE new[j] = st[j]
    <3>1. j \in 1 .. n /\ j # n
      BY <1>1
    <3> QED BY <1>5, <3>1
  <2>2. ASSUME NEW i \in 1 .. n
        PROVE  /\ new[i].kind = st[i].kind /\ new[i].kids = st[i].kids
               /\ new[i].arm = st[i].arm /\ new[i].label = st[i].label
    <3>1. CASE i = n
      BY <1>4, <1>5, <3>1 DEF f
    <3>2. CASE i # n
      BY <1>5, <3>2
    <3> QED BY <3>1, <3>2
  <2> QED BY <2>1, <2>2
<1>7. \A i \in 1 .. n : /\ Len(new[i].label) = i - 1
                        /\ \A j \in 1 .. (i - 1) : new[i].label[j] = Len(new[j].subs) + 1
  BY <1>6 DEF PathOK, n
<1>8. ASSUME NEW i \in 1 .. (n - 1) PROVE new[i + 1].kind = new[i].kids[Len(new[i].subs) + 1]
  <2>1. i + 1 \in 1 .. n /\ new[i] = st[i]
    BY <1>1, <1>5
  <2>2. new[i + 1].kind = st[i + 1].kind
    BY <1>6, <2>1
  <2>3. st[i + 1].kind = st[i].kids[Len(st[i].subs) + 1]
    BY DEF PathOK, n
  <2> QED BY <2>1, <2>2, <2>3
<1>9. ASSUME NEW i \in 1 .. n, NEW k \in 1 .. Len(new[i].subs)
      PROVE  /\ \E b \in B : InPart(new, i, k, b)
             /\ new[i].kids[k] = "Basic" => Append(new[i].label, k) \in B
  <2>1. /\ \E b \in B : InPart(st, i, k, b)
        /\ st[i].kids[k] = "Basic" => Append(st[i].label, k) \in B
    <3>1. CASE k \in 1 .. Len(st[i].subs)
      BY <3>1 DEF PathOK, n
    <3>2. CASE i = n /\ k = Len(f.subs) + 1
      BY <3>2 DEF n, f
    <3>3. i # n => k \in 1 .. Len(st[i].subs)
      BY <1>5
    <3>4. i = n => k \in 1 .. Len(st[i].subs) \/ k = Len(f.subs) + 1
      <4>1. i = n => k \in 1 .. (Len(f.subs) + 1)
        BY <1>3, <1>4, <1>5
      <4> QED BY <1>3, <4>1 DEF f
    <3> QED BY <3>1, <3>2, <3>3, <3>4
  <2>2. PICK b \in B : InPart(st, i, k, b)
    BY <2>1
  <2>3. InPart(new, i, k, b)
    BY <1>6, <2>2 DEF InPart
  <2> QED BY <1>6, <2>1, <2>3
<1>10. ASSUME NEW i \in 1 .. n, ~new[i].arm PROVE \E j \in 1 .. (i - 1) : Switches(new[j])
  <2>1. PICK j \in 1 .. (i - 1) : Switches(st[j])
    BY <1>6, <1>10 DEF PathOK, n
  <2> QED BY <1>6, <2>1
<1>11. PathOK(new, B)
  BY <1>5, <1>7, <1>8, <1>9, <1>10 DEF PathOK
<1>12. ASSUME NEW x, Five(st, B, x) PROVE Five(new, B, x)
  <2>1. PICK j \in 1 .. (Len(x) - 1) : FiveAt(st, B, x, j)
    BY <1>12 DEF Five
  <2>2. j <= n => j \in 1 .. n
    BY <1>1
  <2>3. FiveAt(new, B, x, j)
    BY <1>5, <1>6, <2>1, <2>2 DEF FiveAt, n
  <2> QED BY <2>3 DEF Five
<1> QED BY <1>11, <1>12 DEF new, n

\* The innermost activation is complete and leaves.
LEMMA PathPop ==
  ASSUME NEW st, StackOK(st), st # <<>>, NEW B, B \subseteq Seq(Nat), PathOK(st, B),
         Len(st[Len(st)].subs) = Parts(st[Len(st)].kind)
  PROVE  LET rest == SubSeq(st, 1, Len(st) - 1)
         IN  /\ PathOK(rest, B)
             /\ \A x : Five(st, B, x) => Five(rest, B, x)
             /\ rest # <<>> =>
                  /\ \E b \in B : InPart(rest, Len(rest), Len(rest[Len(rest)].subs) + 1, b)
                  /\ rest[Len(rest)].kids[Len(rest[Len(rest)].subs) + 1] # "Basic"
<1> DEFINE rest == SubSeq(st, 1, Len(st) - 1)
           n == Len(st)
<1>1. /\ st \in Seq(Frame) /\ n \in Nat \ {0} /\ n \in 1 .. n /\ st[n] \in Frame
  BY TopFacts DEF StackOK
<1>2. /\ rest \in Seq(Frame) /\ Len(rest) = n - 1
      /\ \A i \in 1 .. (n - 1) : rest[i] = st[i]
  <2> DEFINE m == Len(st) - 1
  <2>1. m \in Nat /\ 1 \in Int /\ m = n - 1 /\ \A i \in 1 .. m : st[i] \in Frame
    BY <1>1
  <2>2. /\ rest \in Seq(Frame) /\ Len(rest) = IF 1 <= m THEN m - 1 + 1 ELSE 0
        /\ \A i \in 1 .. (m - 1 + 1) : rest[i] = st[1 + i - 1]
    BY <2>1, SubSeqProperties
  <2> HIDE DEF rest, m, n
  <2>3. Len(rest) = m /\ \A i \in 1 .. m : rest[i] = st[i]
    BY <2>1, <2>2
  <2> QED BY <2>1, <2>2, <2>3
<1> HIDE DEF rest, n
<1>3. \A i \in 1 .. (n - 1) : \A j \in 1 .. (i - 1) : rest[j] = st[j]
  BY <1>1, <1>2
<1>4. ASSUME NEW i \in 1 .. (n - 1) PROVE i \in 1 .. n
  BY <1>1
<1>5. \A i \in 1 .. (n - 1) :
        /\ Len(rest[i].label) = i - 1
        /\ \A j \in 1 .. (i - 1) : rest[i].label[j] = Len(rest[j].subs) + 1
  BY <1>2, <1>3, <1>4 DEF PathOK, n
<1>6. ASSUME NEW i \in 1 .. (n - 2) PROVE rest[i + 1].kind = rest[i].kids[Len(rest[i].subs) + 1]
  <2>1. i \in 1 .. (n - 1) /\ i + 1 \in 1 .. (n - 1)
    BY <1>1
  <2> QED BY <1>2, <2>1 DEF PathOK, n
<1>7. ASSUME NEW i \in 1 .. (n - 1), NEW k \in 1 .. Len(rest[i].subs)
      PROVE  /\ \E b \in B : InPart(rest, i, k, b)
             /\ rest[i].kids[k] = "Basic" => Append(rest[i].label, k) \in B
  <2>1. i \in 1 .. n /\ rest[i] = st[i]
    BY <1>2, <1>4
  <2>2. /\ \E b \in B : InPart(st, i, k, b)
        /\ st[i].kids[k] = "Basic" => Append(st[i].label, k) \in B
    BY <2>1 DEF PathOK, n
  <2>3. PICK b \in B : InPart(st, i, k, b)
    BY <2>2
  <2>4. InPart(rest, i, k, b)
    BY <1>3, <2>3 DEF InPart
  <2> QED BY <2>1, <2>2, <2>4
<1>8. ASSUME NEW i \in 1 .. (n - 1), ~rest[i].arm PROVE \E j \in 1 .. (i - 1) : Switches(rest[j])
  <2>1. PICK j \in 1 .. (i - 1) : Switches(st[j])
    BY <1>2, <1>4, <1>8 DEF PathOK, n
  <2> QED BY <1>3, <2>1
<1>9. PathOK(rest, B)
  <2>1. Len(rest) - 1 = n - 2
    BY <1>1, <1>2
  <2> QED BY <1>2, <1>5, <1>6, <1>7, <1>8, <2>1 DEF PathOK
<1>10. ASSUME NEW x, Five(st, B, x) PROVE Five(rest, B, x)
  <2>1. PICK j \in 1 .. (Len(x) - 1) : FiveAt(st, B, x, j)
    BY <1>10 DEF Five
  <2>2. CASE j \in 1 .. (n - 1)
    <3>0. j <= Len(rest) /\ rest[j] = st[j]
      BY <1>1, <1>2, <2>2
    <3>1. FiveAt(rest, B, x, j)
      BY <2>1, <3>0 DEF FiveAt
    <3> QED BY <3>1 DEF Five
  <2>3. CASE j = n
    <3>1. CASE Parts(st[j].kind) = 3
      <4>1. 3 \in 1 .. Len(st[n].subs)
        BY <2>3, <3>1 DEF n
      <4>2. \E b \in B : InPart(st, n, 3, b)
        BY <1>1, <4>1 DEF PathOK, n
      <4>3. \E y \in B : Len(y) >= j /\ y[j] = 3
        BY <2>3, <4>2 DEF InPart
      <4>4. FiveAt(rest, B, x, j)
        BY <2>1, <4>3 DEF FiveAt
      <4> QED BY <4>4 DEF Five
    <3>2. CASE Parts(st[j].kind) # 3
      <4>1. FiveAt(rest, B, x, j)
        BY <2>1, <3>2 DEF FiveAt
      <4> QED BY <4>1 DEF Five
    <3> QED BY <3>1, <3>2
  <2>5. j \in Int
    OBVIOUS
  <2>4. CASE j > n
    <3>0. ~(j <= Len(st))
      BY <1>1, <2>4, <2>5 DEF n
    <3>1. FiveAt(rest, B, x, j)
      BY <2>1, <3>0 DEF FiveAt
    <3> QED BY <3>1 DEF Five
  <2> QED BY <1>1, <2>2, <2>3, <2>4, <2>5
<1>11. ASSUME rest # <<>>
       PROVE  /\ \E b \in B : InPart(rest, n - 1, Len(rest[n - 1].subs) + 1, b)
              /\ rest[n - 1].kids[Len(rest[n - 1].subs) + 1] # "Basic"
  <2>1. n - 1 \in 1 .. (n - 1) /\ rest[n - 1] = st[n - 1] /\ n - 1 + 1 = n
    BY <1>1, <1>2, <1>11
  <2>2. 1 \in 1 .. Len(st[n].subs)
    <3>1. Parts(st[n].kind) \in {1, 2, 3, 4}
      BY DEF Parts
    <3> QED BY <3>1 DEF n
  <2>3. PICK b \in B : InPart(st, n, 1, b)
    BY <1>1, <2>2 DEF PathOK, n
  <2>4. InPart(rest, n - 1, Len(rest[n - 1].subs) + 1, b)
    <3>1. Len(b) >= n /\ \A j \in 1 .. (n - 1) : b[j] = Len(st[j].subs) + 1
      BY <2>3 DEF InPart
    <3>2. \A j \in 1 .. ((n - 1) - 1) : j \in 1 .. (n - 1) /\ rest[j] = st[j]
      BY <1>1, <1>2
    <3>3. b[n - 1] = Len(rest[n - 1].subs) + 1
      BY <2>1, <3>1
    <3>4. Len(b) >= n - 1
      <4>1. b \in Seq(Nat)
        OBVIOUS
      <4> QED BY <1>1, <3>1, <4>1
    <3> QED BY <3>1, <3>2, <3>3, <3>4 DEF InPart
  <2>5. st[n].kind = st[n - 1].kids[Len(st[n - 1].subs) + 1]
    BY <2>1 DEF PathOK, n
  <2>6. st[n].kind # "Basic"
    BY <1>1 DEF Frame, Compound
  <2> QED BY <2>1, <2>4, <2>5, <2>6
<1> QED BY <1>2, <1>9, <1>10, <1>11 DEF rest

\* A block that is kept short has its five basic blocks, but for the last.
LEMMA ShortHasFive ==
  ASSUME IndInv, PathOK(stack, bb), stack # <<>>, Len(Top.subs) = Parts(Top.kind),
         NEW x \in ShortPart
  PROVE  Five(stack, bb, x)
<1> DEFINE n == Len(stack)
           l == Top.label
<1>1. /\ x = Append(l, 2) /\ Top.kind \in {"ByPass", "Hammock"} /\ ~arm /\ nest <= 0
  BY DEF ShortPart, Part
<1>2. /\ stack \in Seq(Frame) /\ n \in Nat \ {0} /\ n \in 1 .. n /\ Top = stack[n]
      /\ Top \in Frame /\ FrameOK(Top, n) /\ nest = Nest - n /\ ~Top.arm
  BY <1>1, TopFacts DEF IndInv, GenTypeOK, StackOK, Top, ContextKept
<1>3. l \in Seq(Nat)
  BY <1>2 DEF Frame
<1>4. Len(Top.kids) = Parts(Top.kind) /\ Parts(Top.kind) \in {3, 4}
  BY <1>1, <1>2 DEF FrameOK, Parts
<1>5. \A k \in {1, 2, 3} : k \in 1 .. Len(Top.subs) /\ Top.kids[k] = "Basic"
  <2>1. \A k \in {1, 2, 3} : k \in 1 .. Len(Top.subs) /\ k \in 1 .. Len(Top.kids)
    BY <1>4
  <2>2. \A k \in 1 .. Len(Top.kids) : Top.kids[k] \in getRBlock(nest)
    BY <1>2 DEF FrameOK
  <2>3. getRBlock(nest) = {"Basic"}
    BY <1>1 DEF getRBlock
  <2> QED BY <2>1, <2>2, <2>3
<1> HIDE DEF n, l
<1>6. \A k \in {1, 2, 3} : Append(l, k) \in bb
  BY <1>2, <1>5 DEF PathOK, n, l
<1>7. PICK j \in 1 .. (n - 1) : Switches(stack[j])
  BY <1>2 DEF PathOK, n
<1>8. /\ Len(stack[j].subs) = 1 /\ Parts(stack[j].kind) = 3
  BY <1>7 DEF Switches, Parts
<1>9. /\ Len(l) = n - 1 /\ l[j] = 2 /\ j \in 1 .. n /\ j <= n
  <2>1. Len(stack[n].label) = n - 1 /\ stack[n].label[j] = Len(stack[j].subs) + 1
    BY <1>2, <1>7 DEF PathOK, n
  <2>2. j \in 1 .. n /\ j <= n
    BY <1>2
  <2> QED BY <1>2, <1>8, <2>1, <2>2 DEF l
<1>10. \A k \in {1, 2, 3} : /\ Len(Append(l, k)) = n /\ Append(l, k)[n] = k
                            /\ Append(l, k)[j] = 2
  <2>1. ASSUME NEW k \in {1, 2, 3}
        PROVE  Len(Append(l, k)) = n /\ Append(l, k)[n] = k /\ Append(l, k)[j] = 2
    <3>1. k \in Nat /\ j \in 1 .. Len(l) /\ Len(l) + 1 = n
      BY <1>2, <1>9
    <3> QED BY <1>3, <1>9, <3>1, AppendProperties
  <2> QED BY <2>1
<1>11. \E b \in bb : Len(b) >= j /\ b[j] = 1
  <2>1. 1 \in 1 .. Len(stack[j].subs) /\ j \in 1 .. Len(stack)
    BY <1>8, <1>9 DEF n
  <2>2. \E b \in bb : InPart(stack, j, 1, b)
    BY <2>1 DEF PathOK
  <2> QED BY <2>2 DEF InPart
<1>12. FiveAt(stack, bb, x, j)
  <2>1. x \in bb /\ x[j] = 2 /\ x[n] = 2 /\ Len(x) = n
    BY <1>1, <1>6, <1>10
  <2>2. Append(l, 1) \in bb /\ Len(Append(l, 1)) = n /\ Append(l, 1)[j] = 2 /\ Append(l, 1)[n] = 1
    BY <1>6, <1>10
  <2>3. Append(l, 3) \in bb /\ Len(Append(l, 3)) = n /\ Append(l, 3)[j] = 2 /\ Append(l, 3)[n] = 3
    BY <1>6, <1>10
  <2> QED BY <1>8, <1>9, <1>11, <2>1, <2>2, <2>3 DEF FiveAt, n
<1>13. Len(x) = n
  BY <1>1, <1>10
<1> QED BY <1>12, <1>13 DEF Five

\* A set with one element more.
LEMMA OneMore ==
  ASSUME NEW S, IsFiniteSet(S), NEW n \in Nat, Cardinality(S) = n, NEW x, x \notin S
  PROVE  IsFiniteSet(S \cup {x}) /\ Cardinality(S \cup {x}) = n + 1
BY FS_AddElement

\* Five different labels.
LEMMA FiveCount ==
  ASSUME NEW B, B \subseteq Seq(Nat), IsFiniteSet(B), NEW x, Five(<<>>, B, x)
  PROVE  Cardinality(B) >= 5
<1>1. PICK j \in 1 .. (Len(x) - 1) : FiveAt(<<>>, B, x, j)
  BY DEF Five
<1>2. /\ x \in B /\ x[j] = 2 /\ x[Len(x)] = 2 /\ j # Len(x) /\ j >= 1
  <2>1. x \in B /\ x[j] = 2 /\ x[Len(x)] = 2
    BY <1>1 DEF FiveAt
  <2>2. Len(x) \in Nat
    BY <2>1
  <2> QED BY <2>1, <2>2
<1>3. PICK y1 \in B : Len(y1) = Len(x) /\ y1[j] = 2 /\ y1[Len(x)] = 1
  BY <1>1 DEF FiveAt
<1>4. PICK y3 \in B : Len(y3) = Len(x) /\ y3[j] = 2 /\ y3[Len(x)] = 3
  BY <1>1 DEF FiveAt
<1>5. PICK z1 \in B : z1[j] = 1
  BY <1>1 DEF FiveAt
<1>6. PICK z3 \in B : z3[j] = 3
  <2>1. ~(j <= Len(<<>>))
    BY <1>2
  <2> QED BY <1>1, <2>1 DEF FiveAt
<1>7. /\ x # y1 /\ x # y3 /\ y1 # y3 /\ z1 # z3
      /\ x # z1 /\ y1 # z1 /\ y3 # z1 /\ x # z3 /\ y1 # z3 /\ y3 # z3
  <2>1. x # y1 /\ x # y3 /\ y1 # y3
    <3> DEFINE n == Len(x)
    <3>1. x[n] = 2 /\ y1[n] = 1 /\ y3[n] = 3
      BY <1>2, <1>3, <1>4
    <3> HIDE DEF n
    <3> QED BY <3>1
  <2>2. x[j] = 2 /\ y1[j] = 2 /\ y3[j] = 2 /\ z1[j] = 1 /\ z3[j] = 3
    BY <1>2, <1>3, <1>4, <1>5, <1>6
  <2>3. \A b : b[j] = 2 => b # z1 /\ b # z3
    BY <2>2
  <2>4. z1 # z3
    BY <2>2
  <2> QED BY <2>1, <2>2, <2>3, <2>4
<1> DEFINE A1 == {x}
           A2 == A1 \cup {y1}
           A3 == A2 \cup {y3}
           A4 == A3 \cup {z1}
           A5 == A4 \cup {z3}
<1>8. IsFiniteSet(A1) /\ Cardinality(A1) = 1
  BY FS_Singleton
<1>9. y1 \notin A1 /\ y3 \notin A2 /\ z1 \notin A3 /\ z3 \notin A4
  BY <1>7
<1>10. A5 \subseteq B
  BY <1>2
<1> HIDE DEF A1
<1>11. IsFiniteSet(A2) /\ Cardinality(A2) = 2
  <2>1. y1 \notin A1
    BY <1>9
  <2> QED BY <1>8, <2>1, OneMore
<1> HIDE DEF A2
<1>12. IsFiniteSet(A3) /\ Cardinality(A3) = 3
  <2>1. y3 \notin A2
    BY <1>9
  <2> QED BY <1>11, <2>1, OneMore
<1> HIDE DEF A3
<1>13. IsFiniteSet(A4) /\ Cardinality(A4) = 4
  <2>1. z1 \notin A3
    BY <1>9
  <2> QED BY <1>12, <2>1, OneMore
<1> HIDE DEF A4
<1>14. IsFiniteSet(A5) /\ Cardinality(A5) = 5
  <2>1. z3 \notin A4
    BY <1>9
  <2> QED BY <1>13, <2>1, OneMore
<1> HIDE DEF A5
<1>15. Cardinality(A5) <= Cardinality(B) /\ Cardinality(B) \in Nat
  BY <1>10, FS_Subset, FS_CardinalityType
<1> QED BY <1>14, <1>15

\* A block is complete (Return): its part has a basic block.
LEMMA ReturnPath ==
  ASSUME NEW rest, StackOK(rest), NEW B, PathOK(rest, B), NEW a, NEW t \in Seq(Instr),
         Return(rest, a, t),
         rest # <<>> =>
           LET f == rest[Len(rest)]
           IN  /\ \E b \in B : InPart(rest, Len(rest), Len(f.subs) + 1, b)
               /\ f.kids[Len(f.subs) + 1] = "Basic" => Append(f.label, Len(f.subs) + 1) \in B
  PROVE  /\ PathOK(stack', B)
         /\ \A x : Five(rest, B, x) => Five(stack', B, x)
         /\ phase' \in {phase, "fill"}
<1>1. CASE rest = <<>>
  BY <1>1 DEF Return
<1>2. CASE rest # <<>>
  <2>1. stack' = [rest EXCEPT ![Len(rest)].subs = Append(@, t)] /\ phase' = phase
    BY <1>2 DEF Return
  <2> QED BY <1>2, <2>1, PathGive
<1> QED BY <1>1, <1>2

\* The generator starts without blocks.
LEMMA InitLimit == GenInit => LimitInv
<1> SUFFICES ASSUME GenInit PROVE LimitInv
  OBVIOUS
<1>1. stack = <<>> /\ bb = {} /\ limited = {} /\ phase = "make"
  BY DEF GenInit
<1>2. PathOK(stack, bb)
  BY <1>1 DEF PathOK
<1>3. IsFiniteSet(bb)
  BY <1>1, FS_EmptySet
<1> QED BY <1>1, <1>2, <1>3 DEF LimitInv, LimitsInOrder

\* A basic block.
LEMMA BasicLimit == ASSUME IndInv, LimitInv, BasicRBlock PROVE LimitInv'
<1> DEFINE t == Block(NextLabel, NextArm, <<Ins("basic")>>)
           n == Len(stack)
           f == stack[n]
           k == Len(f.subs) + 1
<1>1. /\ Making /\ phase = "make" /\ StackOK(stack) /\ stack \in Seq(Frame)
      /\ "Basic" \in NextKinds /\ limited' = limited /\ bb' = bb \cup {NextLabel}
      /\ Return(stack, NextArm, t)
  BY DEF BasicRBlock, Making, IndInv, GenTypeOK
<1>2. NextLabel \in Seq(Nat)
  BY <1>1, NextFacts
<1>3. IsFiniteSet(bb')
  BY <1>1, FS_AddElement DEF LimitInv
<1>4. PathOK(stack, bb') /\ \A x \in limited : Five(stack, bb', x)
  BY <1>1, PathGrows DEF LimitInv
<1>5. t \in Seq(Instr)
  <2>1. NextArm \in BOOLEAN
    BY DEF NextArm, IndInv, GenTypeOK
  <2>2. IsaAttr(NextArm) \in Instr /\ Label(NextLabel) \in Instr /\ Ins("basic") \in Instr
    BY <1>2, <2>1 DEF IsaAttr, Label, Ins, Instr
  <2> QED BY <2>2 DEF Block
<1> HIDE DEF t
<1>6. ASSUME stack # <<>>
      PROVE  /\ \E b \in bb' : InPart(stack, n, k, b)
             /\ f.kids[k] = "Basic" => Append(f.label, k) \in bb'
  <2>1. NextLabel = Append(f.label, k)
    BY <1>6 DEF NextLabel, Part, Top
  <2>2. n \in Nat \ {0} /\ n \in 1 .. n /\ f \in Frame
    BY <1>1, <1>6, TopFacts
  <2>3. f.label \in Seq(Nat) /\ f.subs \in Seq(Seq(Instr))
    BY <2>2 DEF Frame
  <2>4. k \in Nat
    BY <2>3
  <2>5. /\ Len(f.label) = n - 1
        /\ \A j \in 1 .. (n - 1) : f.label[j] = Len(stack[j].subs) + 1
    BY <2>2 DEF LimitInv, PathOK
  <2> HIDE DEF f, k, n
  <2>6. /\ Len(Append(f.label, k)) = n /\ Append(f.label, k)[n] = k
        /\ \A j \in 1 .. (n - 1) : Append(f.label, k)[j] = f.label[j]
    BY <2>2, <2>3, <2>4, <2>5, AppendProperties
  <2>7. InPart(stack, n, k, Append(f.label, k))
    BY <2>2, <2>5, <2>6 DEF InPart
  <2> QED BY <1>1, <2>1, <2>7
<1>7. /\ PathOK(stack', bb') /\ phase' \in {phase, "fill"}
      /\ \A x : Five(stack, bb', x) => Five(stack', bb', x)
  BY <1>1, <1>4, <1>5, <1>6, ReturnPath
<1> QED BY <1>1, <1>3, <1>4, <1>7 DEF LimitInv, LimitsInOrder

\* A block with parts is started.
LEMMA StartLimit ==
  ASSUME IndInv, LimitInv, NEW kind \in Compound, StartBlock(kind), IndInv' PROVE LimitInv'
<1>1. /\ Making /\ StackOK(stack) /\ stack \in Seq(Frame) /\ kind \in NextKinds
      /\ phase' = phase /\ bb' = bb /\ limited' = limited
  BY DEF StartBlock, IndInv, GenTypeOK
<1>2. PICK kids, draw :
        stack' = Append(stack, [label |-> NextLabel, kind |-> kind, arm |-> NextArm,
                                draw |-> draw, kids |-> kids, subs |-> <<>>])
  BY DEF StartBlock
<1> DEFINE g == [label |-> NextLabel, kind |-> kind, arm |-> NextArm, draw |-> draw,
                 kids |-> kids, subs |-> <<>>]
<1>3. g \in Frame
  <2>1. stack' = Append(stack, g) /\ stack' \in Seq(Frame)
    BY <1>2 DEF IndInv, GenTypeOK
  <2> HIDE DEF g
  <2>2. Len(stack') = Len(stack) + 1 /\ stack'[Len(stack) + 1] = g
    BY <1>1, <2>1
  <2>3. Len(stack) + 1 \in 1 .. Len(stack')
    BY <1>1, <2>2
  <2> QED BY <2>1, <2>2, <2>3
<1>4. g.subs = <<>> /\ g.label = NextLabel /\ g.arm = NextArm /\ g.kind = kind
  OBVIOUS
<1> HIDE DEF g
<1>5. /\ NextLabel = IF stack = <<>> THEN <<>>
                     ELSE Append(stack[Len(stack)].label, Len(stack[Len(stack)].subs) + 1)
      /\ NextArm = IF stack = <<>> THEN TRUE ELSE PartArm(stack[Len(stack)])
      /\ stack # <<>> => kind = stack[Len(stack)].kids[Len(stack[Len(stack)].subs) + 1]
  <2>1. NextArm = IF stack = <<>> THEN TRUE ELSE PartArm(stack[Len(stack)])
    BY <1>1, NextFacts DEF Top
  <2> QED BY <1>1, <2>1 DEF NextLabel, NextKinds, Part, Top
<1>6. PathOK(Append(stack, g), bb) /\ \A x : Five(stack, bb, x) => Five(Append(stack, g), bb, x)
  BY <1>1, <1>3, <1>4, <1>5, PathPush DEF LimitInv
<1> QED BY <1>1, <1>2, <1>6 DEF g, LimitInv, LimitsInOrder

\* A block with parts is complete; genBranch finds the label it looks for.
LEMMA EndLimit == ASSUME IndInv, LimitInv, EndBlock PROVE LimitInv'
<1> DEFINE rest == SubSeq(stack, 1, Len(stack) - 1)
           t == Block(Top.label, Top.arm, Body(Top))
<1>1. /\ phase = "make" /\ stack # <<>> /\ StackOK(stack) /\ stack \in Seq(Frame)
      /\ Len(Top.subs) = Parts(Top.kind) /\ bb' = bb /\ bb \subseteq Seq(Nat)
  BY DEF EndBlock, IndInv, GenTypeOK
<1>2. \A x \in ShortPart : Five(stack, bb, x)
  BY <1>1, ShortHasFive DEF LimitInv
<1>3. ShortPart \subseteq bb
  BY <1>2 DEF Five, FiveAt
<1>4. limited' = limited \cup ShortPart /\ Return(rest, arm, t)
  BY <1>3 DEF EndBlock
<1>5. StackOK(rest)
  BY <1>1, PopOK
<1>6. /\ PathOK(rest, bb)
      /\ \A x : Five(stack, bb, x) => Five(rest, bb, x)
      /\ rest # <<>> =>
           /\ \E b \in bb : InPart(rest, Len(rest), Len(rest[Len(rest)].subs) + 1, b)
           /\ rest[Len(rest)].kids[Len(rest[Len(rest)].subs) + 1] # "Basic"
  BY <1>1, PathPop DEF LimitInv, Top
<1>7. t \in Seq(Instr)
  <2>1. /\ Len(stack) \in 1 .. Nest /\ Top \in Frame /\ FrameOK(Top, Len(stack))
        /\ nest = Nest - Len(stack) /\ arm \in BOOLEAN
    BY <1>1, TopFacts DEF IndInv, GenTypeOK, ContextKept, Top
  <2>2. nest \in 0 .. 7 /\ nest + 1 \in 0 .. 8
    BY <2>1, NestAssumption
  <2>3. \A k \in 1 .. Len(Top.subs) :
          Top.subs[k] \in Seq(Below(nest)) /\ Len(Top.subs[k]) >= 2
    BY <2>1 DEF FrameOK
  <2>4. Body(Top) \in Seq(Below(nest + 1))
    BY <1>1, <2>1, <2>2, <2>3, BodyBelow
  <2>5. Top.label \in Seq(Nat) /\ Top.arm \in BOOLEAN
    BY <2>1 DEF Frame
  <2>6. t \in Seq(Below(nest + 1))
    BY <2>2, <2>4, <2>5, BlockBelow, Zenon
  <2> QED BY <2>6 DEF Below
<1> HIDE DEF rest, t
<1>8. /\ PathOK(stack', bb) /\ phase' \in {phase, "fill"}
      /\ \A x : Five(rest, bb, x) => Five(stack', bb, x)
  BY <1>4, <1>5, <1>6, <1>7, ReturnPath
<1> QED BY <1>1, <1>2, <1>4, <1>6, <1>8 DEF LimitInv, LimitsInOrder

\* The instructions are drawn: with less than 165 of them, the share of a
\* block is not above the limit of a short one.
LEMMA TestLimit == ASSUME Num < 165, IndInv, LimitInv, genTest PROVE LimitInv'
<1>1. /\ phase = "fill" /\ stack' = stack /\ bb' = bb /\ limited' = limited
      /\ bb \subseteq Seq(Nat) /\ stack = <<>>
  BY DEF genTest, IndInv, GenTypeOK
<1>2. ASSUME NEW l \in bb PROVE MinInstrs <= MaxInstrs(l)
  <2> DEFINE c == Cardinality(bb)
  <2>1. c \in Nat
    BY FS_CardinalityType DEF LimitInv
  <2>2. c # 0
    BY FS_EmptySet DEF LimitInv
  <2>3. Num \in Nat /\ INSTR_LIMIT \in Nat
    BY NumAssumption
  <2> HIDE DEF c
  <2>4. MinInstrs \in Nat /\ (c >= 5 => MinInstrs <= 32)
    <3>1. CASE c < 10
      <4>1. MinInstrs = Num \div c
        BY <3>1 DEF MinInstrs, c
      <4>2. Num \div c \in Nat /\ c * (Num \div c) <= Num
        BY <2>1, <2>2, <2>3
      <4>3. ASSUME c >= 5, Num \div c > 32 PROVE FALSE
        <5> DEFINE q == Num \div c
        <5>1. q \in Nat /\ q >= 33 /\ c * q <= Num
          BY <4>2, <4>3
        <5> HIDE DEF q
        <5>2. c \in {5, 6, 7, 8, 9}
          BY <2>1, <3>1, <4>3
        <5>3. 5 * q <= Num
          <6>1. CASE c = 5
            BY <5>1, <6>1
          <6>2. CASE c = 6
            BY <2>3, <5>1, <6>2
          <6>3. CASE c = 7
            BY <2>3, <5>1, <6>3
          <6>4. CASE c = 8
            BY <2>3, <5>1, <6>4
          <6>5. CASE c = 9
            BY <2>3, <5>1, <6>5
          <6> QED BY <5>2, <6>1, <6>2, <6>3, <6>4, <6>5
        <5> QED BY <2>3, <5>1, <5>3
      <4> QED BY <4>1, <4>2, <4>3
    <3>2. CASE ~(c < 10)
      BY <3>2 DEF MinInstrs, c
    <3> QED BY <3>1, <3>2
  <2>5. CASE l \in limited
    <3>1. Five(<<>>, bb, l)
      BY <1>1, <2>5 DEF LimitInv
    <3>2. c >= 5
      BY <1>1, <3>1, FiveCount DEF LimitInv, c
    <3> QED BY <2>4, <2>5, <3>2 DEF MaxInstrs
  <2>6. CASE l \notin limited
    <3>1. INSTR_LIMIT \div 2 \in Nat
      BY <2>3
    <3>2. MaxInstrs(l) \in {INSTR_LIMIT + MinInstrs, INSTR_LIMIT \div 2 + MinInstrs}
      BY <2>6 DEF MaxInstrs
    <3> HIDE DEF c
    <3> QED BY <2>3, <2>4, <3>1, <3>2
  <2> QED BY <2>5, <2>6
<1>3. phase' = "written"
  BY <1>2 DEF genTest
<1> QED BY <1>1, <1>3 DEF LimitInv, LimitsInOrder

\* Every step keeps the invariant.
LEMMA NextLimit ==
  ASSUME Num < 165, IndInv, IndInv', LimitInv, [Make]_genVars PROVE LimitInv'
<1>1. CASE UNCHANGED genVars
  BY <1>1 DEF genVars, LimitInv, LimitsInOrder
<1> QED BY <1>1, BasicLimit, StartLimit, EndLimit, TestLimit DEF Make

\* With less than 165 instructions per seed (option -m, 100 by default)
\* art.py dies neither in getBlockLimit nor in genBranch, for programs of any
\* size and nesting level.
THEOREM LimitsKept == ASSUME Num < 165 PROVE Spec => []LimitsInOrder
<1>1. Init => LimitInv
  BY InitLimit DEF Init
<1>2. IndInv /\ IndInv' /\ LimitInv /\ [Next]_vars => LimitInv'
  BY NextLimit, StepGenerates
<1>3. LimitInv => LimitsInOrder
  BY DEF LimitInv
<1> QED BY <1>1, <1>2, <1>3, Invariant, PTL DEF Spec
=============================================================================
