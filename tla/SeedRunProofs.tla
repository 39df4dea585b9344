------------------------------ MODULE SeedRunProofs ------------------------------
(***************************************************************************)
(* A generated program as it runs, for every program the generator can     *)
(* write: every nesting level up to eight, every option, any size.         *)
(*                                                                         *)
(* A program is typed like assembler code: every position has an           *)
(* annotation, what the processor's state is when it is reached (Mach) and *)
(* the instruction set in force in the text.  The parts of a block are     *)
(* typed for every callee they may be in, so that the typing of a block is *)
(* put together from those of its parts, as makeRandomBlock does.  Where   *)
(* an argument goes along the text, it takes the least position that       *)
(* contradicts it (Least).                                                 *)
(***************************************************************************)
EXTENDS SeedProgramProofs, WellFoundedInduction

\* The words of the callees around a position: different ones, of levels from n.
Ctx(n) == {c \in Seq(n .. 7) : \A i, j \in 1 .. Len(c) : c[i] = c[j] => i = j}

\* The instruction set, the callees under way, whether the return address of
\* the innermost is still in lr, and how far an exclusive sequence has come.
Mach == [arm : BOOLEAN, ctx : Ctx(0), fresh : BOOLEAN,
         ex : {"none", "try", "got", "end"}]
Ann == [cur : BOOLEAN, m : Mach]

\* Outside of exclusive sequences and of the entry of a callee.
Mc(a, c) == [arm |-> a, ctx |-> c, fresh |-> FALSE, ex |-> "none"]
Entry(a, c) == [arm |-> a, ctx |-> c, fresh |-> TRUE, ex |-> "none"]
Exc(a, c, e) == [arm |-> a, ctx |-> c, fresh |-> FALSE, ex |-> e]
At1(r, m) == [cur |-> r, m |-> m]
Plain(m) == ~m.fresh /\ m.ex = "none"

\* Annotation y follows x when instruction i does.
Flow(i, x, y) ==
  /\ i \in Instr
  /\ y.cur = IF i.op = "isa" THEN i.arm ELSE x.cur
  /\ i.op # "isa" => x.cur = x.m.arm
  /\ i.op \in {"isa", "label", "basic", "loop", "call", "aluwpc"} => y.m = x.m
  /\ i.op \in {"b", "bx"} /\ i.cond => y.m = x.m
  /\ i.op \in {"basic", "loop", "call", "aluwpc", "b", "bx", "post", "exit"} => Plain(x.m)
  /\ i.op = "pre" => /\ x.m.fresh /\ x.m.ex = "none"
                     /\ Len(x.m.ctx) > 0 /\ x.m.ctx[Len(x.m.ctx)] = i.slot
                     /\ y.m = Mc(x.m.arm, x.m.ctx)
  /\ i.op = "post" => Len(x.m.ctx) > 0 /\ x.m.ctx[Len(x.m.ctx)] = i.slot
  /\ i.op = "exit" => x.m.ctx = <<>>
  /\ i.op = "exclsave" => Plain(x.m) /\ y.m = Exc(x.m.arm, x.m.ctx, "try")
  /\ i.op = "ldrex" => ~x.m.fresh /\ x.m.ex = "try" /\ y.m = Exc(x.m.arm, x.m.ctx, "got")
  /\ i.op = "strex" => ~x.m.fresh /\ x.m.ex = "got" /\ y.m = Exc(x.m.arm, x.m.ctx, "end")
  /\ i.op = "exclstub" => ~x.m.fresh /\ x.m.ex = "end" /\ y.m = Mc(x.m.arm, x.m.ctx)

\* A jump i with annotation m may go to a label with annotation d.
Jumps == {"b", "bx", "loop", "call", "strex"}
Ref(i, m, d) ==
  /\ i.op \in {"b", "loop"} => d = m
  /\ i.op = "bx" => d = Mc(i.arm, m.ctx)
  /\ i.op = "call" => \E s \in 0 .. 7 : d = Entry(i.arm, Append(m.ctx, s))
  /\ i.op = "strex" => d = Exc(m.arm, m.ctx, "try")

\* The annotations A lead through text t from x to y; K are the instructions
\* with what they find.
Runs(t, A) ==
  /\ A \in Seq(Ann) /\ Len(A) = Len(t) + 1
  /\ \A p \in 1 .. Len(t) : Flow(t[p], A[p], A[p + 1])
Marks(t, A) == {[i |-> t[p], m |-> A[p].m] : p \in 1 .. Len(t)}
Seg(t, x, y, K) ==
  \E A : Runs(t, A) /\ A[1] = x /\ A[Len(t) + 1] = y /\ K = Marks(t, A)

\* Jumps of K find a label in G, and a label of K has one annotation.
Finds(e, G) == \E d \in G : d.i.op = "label" /\ d.i.to = e.i.to /\ Ref(e.i, e.m, d.m)
Closed(K, G) == \A e \in K : e.i.op \in Jumps => Finds(e, G)
Single(K) == \A d, e \in K :
  d.i.op = "label" /\ e.i.op = "label" /\ d.i.to = e.i.to => d.m = e.m

\* Label b is inside the k-th part of the block with label l.
Inside(l, k, b) ==
  /\ Len(b) > Len(l) /\ b[Len(l) + 1] = k
  /\ \A j \in 1 .. Len(l) : b[j] = l[j]
Labels(K, l, k) == \A e \in K : e.i.op = "label" => e.i.to \in Seq(Nat) /\ Inside(l, k, e.i.to)

\* The part of a program with its own jumps and labels, the k-th part of the
\* block with label l.
Unit(K, l, k) == Closed(K, K) /\ Single(K) /\ Labels(K, l, k)

\* The code between the label of a block and the next block, in any callee.
Typed(t, l, a, c) ==
  \E K : /\ Seg(t, At1(a, Mc(a, c)), At1(a, Mc(a, c)), K)
         /\ Closed(K, K) /\ Single(K)
         /\ \A e \in K : e.i.op = "label" =>
              e.i.to \in Seq(Nat) /\ \E k \in Nat : Inside(l, k, e.i.to)
WellTyped(t, l, a, n) ==
  \E body \in Seq(Instr) : t = Block(l, a, body) /\ \A c \in Ctx(n) : Typed(body, l, a, c)

-----------------------------------------------------------------------------
\* A set of natural numbers has a least element (instead of an induction).
LEMMA Least ==
  ASSUME NEW S, S \subseteq Nat, S # {}
  PROVE  \E m \in S : \A k \in S : m <= k
<1>1. PICK m \in S : \A k \in S : ~(<<k, m>> \in OpToRel(<, Nat))
  BY WFMin, NatLessThanWellFounded, Zenon
<1>2. \A k \in S : ~(k < m)
  BY <1>1, Zenon DEF OpToRel
<1>3. \A k \in S : k \in Nat /\ m \in Nat
  OBVIOUS
<1> QED BY <1>2, <1>3

\* One instruction.
LEMMA SegOne ==
  ASSUME NEW i, NEW x \in Ann, NEW y \in Ann, Flow(i, x, y)
  PROVE  Seg(<<i>>, x, y, {[i |-> i, m |-> x.m]})
<1> DEFINE A == <<x, y>>
           t == <<i>>
<1>1. A \in Seq(Ann) /\ Len(A) = 2 /\ A[1] = x /\ A[2] = y
  OBVIOUS
<1>2. Len(t) = 1 /\ t[1] = i
  OBVIOUS
<1> HIDE DEF A, t
<1>3. Runs(t, A)
  BY <1>1, <1>2 DEF Runs
<1>4. Marks(t, A) = {[i |-> t[1], m |-> A[1].m]}
  BY <1>2 DEF Marks
<1>5. Seg(t, x, y, {[i |-> i, m |-> x.m]})
  BY <1>1, <1>2, <1>3, <1>4 DEF Seg
<1> QED BY <1>5 DEF t

\* Nothing.
LEMMA SegNone ==
  ASSUME NEW x \in Ann
  PROVE  Seg(<<>>, x, x, {})
<1> DEFINE A == <<x>>
<1>1. Runs(<<>>, A) /\ A[1] = x /\ Marks(<<>>, A) = {}
  BY DEF Runs, Marks
<1>2. Len(<<>>) + 1 = 1
  OBVIOUS
<1> QED BY <1>1, <1>2 DEF Seg

\* Two pieces of text.
LEMMA SegTwo ==
  ASSUME NEW t \in Seq(Instr), NEW u \in Seq(Instr), NEW x, NEW y, NEW z, NEW K, NEW G,
         Seg(t, x, y, K), Seg(u, y, z, G)
  PROVE  Seg(t \o u, x, z, K \cup G)
<1>1. PICK A : Runs(t, A) /\ A[1] = x /\ A[Len(t) + 1] = y /\ K = Marks(t, A)
  BY DEF Seg
<1>2. PICK B : Runs(u, B) /\ B[1] = y /\ B[Len(u) + 1] = z /\ G = Marks(u, B)
  BY DEF Seg
<1> DEFINE n == Len(t)
           k == Len(u)
           C == [p \in 1 .. (n + k + 1) |-> IF p <= n THEN A[p] ELSE B[p - n]]
           v == t \o u
<1>3. n \in Nat /\ k \in Nat /\ A \in Seq(Ann) /\ B \in Seq(Ann)
      /\ Len(A) = n + 1 /\ Len(B) = k + 1
  BY <1>1, <1>2 DEF Runs
<1>4. v \in Seq(Instr) /\ Len(v) = n + k
      /\ (\A p \in 1 .. n : v[p] = t[p]) /\ (\A p \in 1 .. k : v[n + p] = u[p])
  OBVIOUS
<1>5. \A p \in 1 .. (n + k + 1) : C[p] \in Ann
  BY <1>3
<1>6. C \in Seq(Ann) /\ Len(C) = n + k + 1
  BY <1>3, <1>5
<1>7. /\ \A p \in 1 .. (n + 1) : C[p] = A[p]
      /\ \A p \in 1 .. (k + 1) : C[n + p] = B[p]
  BY <1>1, <1>2, <1>3
<1> HIDE DEF C, v
<1>8. ASSUME NEW p \in 1 .. (n + k) PROVE Flow(v[p], C[p], C[p + 1])
  <2>1. CASE p <= n
    <3>1. v[p] = t[p] /\ C[p] = A[p] /\ C[p + 1] = A[p + 1] /\ p \in 1 .. Len(t)
      BY <2>1, <1>3, <1>4, <1>7
    <3> QED BY <3>1, <1>1 DEF Runs
  <2>2. CASE p > n
    <3>1. PICK q \in 1 .. k : p = n + q
      <4>1. p - n \in 1 .. k /\ p = n + (p - n)
        BY <2>2, <1>3
      <4> QED BY <4>1
    <3>2. v[p] = u[q] /\ C[p] = B[q]
      BY <3>1, <1>3, <1>4, <1>7
    <3>3. C[p + 1] = B[q + 1]
      <4>1. q + 1 \in 1 .. (k + 1) /\ p + 1 = n + (q + 1)
        BY <3>1, <1>3
      <4> QED BY <4>1, <1>7
    <3> QED BY <3>1, <3>2, <3>3, <1>2 DEF Runs
  <2> QED BY <2>1, <2>2, <1>3
<1>9. Runs(v, C)
  BY <1>4, <1>6, <1>8 DEF Runs
<1>10. C[1] = x /\ C[Len(v) + 1] = z
  <2>1. 1 \in 1 .. (n + 1) /\ k + 1 \in 1 .. (k + 1) /\ n + k + 1 = n + (k + 1)
    BY <1>3
  <2> QED BY <2>1, <1>1, <1>2, <1>4, <1>7
<1>11. Marks(v, C) = Marks(t, A) \cup Marks(u, B)
  <2>1. ASSUME NEW e \in Marks(v, C) PROVE e \in Marks(t, A) \cup Marks(u, B)
    <3>1. PICK p \in 1 .. (n + k) : e = [i |-> v[p], m |-> C[p].m]
      BY <2>1, <1>4 DEF Marks
    <3>2. CASE p <= n
      <4>1. p \in 1 .. n /\ p \in 1 .. (n + 1)
        BY <3>2, <1>3
      <4>2. v[p] = t[p] /\ C[p] = A[p]
        BY <4>1, <1>4, <1>7
      <4> QED BY <3>1, <4>1, <4>2 DEF Marks
    <3>3. CASE p > n
      <4>1. p - n \in 1 .. k /\ p - n \in 1 .. (k + 1) /\ p = n + (p - n)
        BY <3>3, <1>3
      <4>2. v[p] = u[p - n] /\ C[p] = B[p - n]
        BY <4>1, <1>4, <1>7
      <4> QED BY <3>1, <4>1, <4>2 DEF Marks
    <3> QED BY <3>2, <3>3, <1>3
  <2>2. ASSUME NEW e \in Marks(t, A) PROVE e \in Marks(v, C)
    <3>1. PICK p \in 1 .. n : e = [i |-> t[p], m |-> A[p].m]
      BY <2>2 DEF Marks
    <3>2. p \in 1 .. (n + k) /\ v[p] = t[p] /\ C[p] = A[p]
      BY <3>1, <1>3, <1>4, <1>7
    <3> QED BY <3>1, <3>2, <1>4 DEF Marks
  <2>3. ASSUME NEW e \in Marks(u, B) PROVE e \in Marks(v, C)
    <3>1. PICK p \in 1 .. k : e = [i |-> u[p], m |-> B[p].m]
      BY <2>3 DEF Marks
    <3>2. n + p \in 1 .. (n + k) /\ v[n + p] = u[p] /\ C[n + p] = B[p]
      BY <3>1, <1>3, <1>4, <1>7
    <3> QED BY <3>1, <3>2, <1>4 DEF Marks
  <2> QED BY <2>1, <2>2, <2>3
<1> QED BY <1>1, <1>2, <1>9, <1>10, <1>11 DEF Seg, v

\* States of the processor.
LEMMA MachFacts ==
  ASSUME NEW a \in BOOLEAN, NEW r \in BOOLEAN, NEW c \in Ctx(0)
  PROVE  /\ Mc(a, c) \in Mach /\ Entry(a, c) \in Mach
         /\ \A e \in {"none", "try", "got", "end"} : Exc(a, c, e) \in Mach
         /\ \A m \in Mach : At1(r, m) \in Ann
  BY DEF Mc, Entry, Exc, Mach, Ann, At1

\* The callees around a block are callees around its parts, and its own callee
\* is a further one.
LEMMA CtxFacts ==
  ASSUME NEW n \in 0 .. 7, NEW c \in Ctx(n + 1)
  PROVE  /\ c \in Ctx(n) /\ c \in Ctx(0)
         /\ Append(c, n) \in Ctx(n) /\ Append(c, n) \in Ctx(0)
<1>1. c \in Seq((n + 1) .. 7) /\ \A i, j \in 1 .. Len(c) : c[i] = c[j] => i = j
  BY DEF Ctx
<1>2. c \in Seq(n .. 7) /\ c \in Seq(0 .. 7)
  <2> DEFINE S == (n + 1) .. 7
             T == n .. 7
             U == 0 .. 7
  <2>1. S \subseteq T /\ S \subseteq U /\ c \in Seq(S)
    BY <1>1
  <2> HIDE DEF S, T, U
  <2>2. c \in Seq(T)
    BY <2>1
  <2>3. c \in Seq(U)
    BY <2>1
  <2> QED BY <2>2, <2>3 DEF T, U
<1>3. Append(c, n) \in Seq(n .. 7) /\ Append(c, n) \in Seq(0 .. 7)
  BY <1>2
<1>4. \A i, j \in 1 .. Len(Append(c, n)) : Append(c, n)[i] = Append(c, n)[j] => i = j
  <2>1. Len(Append(c, n)) = Len(c) + 1 /\ Append(c, n)[Len(c) + 1] = n
    BY <1>1
  <2>2. \A i \in 1 .. Len(c) : Append(c, n)[i] = c[i] /\ c[i] \in (n + 1) .. 7
    BY <1>1
  <2>3. \A i \in 1 .. (Len(c) + 1) : i \in 1 .. Len(c) \/ i = Len(c) + 1
    BY <1>1
  <2> QED BY <2>1, <2>2, <2>3, <1>1
<1> QED BY <1>1, <1>2, <1>3, <1>4 DEF Ctx

\* Directives and instructions that control only runs through.
LEMMA FlowThrough ==
  ASSUME NEW a \in BOOLEAN, NEW r \in BOOLEAN, NEW c \in Ctx(0), NEW l \in Seq(Nat),
         NEW k \in BOOLEAN, NEW b \in BOOLEAN, NEW m \in Mach
  PROVE  /\ Flow(IsaAttr(a), At1(r, m), At1(a, m))
         /\ Flow(Label(l), At1(m.arm, m), At1(m.arm, m))
         /\ Flow(Ins("basic"), At1(a, Mc(a, c)), At1(a, Mc(a, c)))
         /\ Flow(Ins("aluwpc"), At1(a, Mc(a, c)), At1(a, Mc(a, c)))
         /\ Flow(genBranch(l, k), At1(a, Mc(a, c)), At1(a, Mc(a, c)))
         /\ Flow(genBX(a, l, k), At1(a, Mc(a, c)), At1(a, Mc(a, c)))
         /\ Flow(genCall(b, l, k), At1(a, Mc(a, c)), At1(a, Mc(a, c)))
<1>1. /\ IsaAttr(a) \in Instr /\ Label(l) \in Instr /\ Ins("basic") \in Instr
      /\ Ins("aluwpc") \in Instr /\ genBranch(l, k) \in Instr /\ genBX(a, l, k) \in Instr
      /\ genCall(b, l, k) \in Instr
  BY DEF IsaAttr, Label, Ins, genBranch, genBX, genCall, Instr
<1>2. Plain(Mc(a, c)) /\ Mc(a, c).arm = a
  BY DEF Plain, Mc
<1>3. Flow(IsaAttr(a), At1(r, m), At1(a, m))
  BY <1>1 DEF Flow, IsaAttr, At1
<1>4. Flow(Label(l), At1(m.arm, m), At1(m.arm, m))
  BY <1>1 DEF Flow, Label, At1
<1>5. /\ Flow(Ins("basic"), At1(a, Mc(a, c)), At1(a, Mc(a, c)))
      /\ Flow(Ins("aluwpc"), At1(a, Mc(a, c)), At1(a, Mc(a, c)))
  BY <1>1, <1>2 DEF Flow, Ins, At1
<1>6. Flow(genBranch(l, k), At1(a, Mc(a, c)), At1(a, Mc(a, c)))
  BY <1>1, <1>2 DEF Flow, genBranch, At1
<1>7. Flow(genBX(a, l, k), At1(a, Mc(a, c)), At1(a, Mc(a, c)))
  BY <1>1, <1>2 DEF Flow, genBX, At1
<1>8. Flow(genCall(b, l, k), At1(a, Mc(a, c)), At1(a, Mc(a, c)))
  BY <1>1, <1>2 DEF Flow, genCall, At1
<1> QED BY <1>3, <1>4, <1>5, <1>6, <1>7, <1>8

\* Instructions after which control comes from elsewhere.
LEMMA FlowAway ==
  ASSUME NEW a \in BOOLEAN, NEW c \in Ctx(0), NEW l \in Seq(Nat), NEW m \in Mach
  PROVE  /\ Flow(genBranch(l, FALSE), At1(a, Mc(a, c)), At1(a, m))
         /\ Flow(genBX(a, l, FALSE), At1(a, Mc(a, c)), At1(a, m))
         /\ c = <<>> => Flow(Ins("exit"), At1(a, Mc(a, c)), At1(a, m))
<1>1. /\ Ins("exit") \in Instr /\ genBranch(l, FALSE) \in Instr
      /\ genBX(a, l, FALSE) \in Instr
  BY DEF Ins, genBranch, genBX, Instr
<1>2. Plain(Mc(a, c)) /\ Mc(a, c).arm = a /\ Mc(a, c).ctx = c
  BY DEF Plain, Mc
<1>3. Flow(genBranch(l, FALSE), At1(a, Mc(a, c)), At1(a, m))
  BY <1>1, <1>2 DEF Flow, genBranch, At1
<1>4. Flow(genBX(a, l, FALSE), At1(a, Mc(a, c)), At1(a, m))
  BY <1>1, <1>2 DEF Flow, genBX, At1
<1>5. c = <<>> => Flow(Ins("exit"), At1(a, Mc(a, c)), At1(a, m))
  BY <1>1, <1>2 DEF Flow, Ins, At1
<1> QED BY <1>3, <1>4, <1>5

\* The code around a callee, and a loop.
LEMMA FlowSlot ==
  ASSUME NEW a \in BOOLEAN, NEW n \in 0 .. 7, NEW c \in Ctx(n + 1), NEW l \in Seq(Nat),
         NEW m \in Mach, NEW d, d.inc \in Nat, d.limit \in Nat
  PROVE  /\ Flow(getPreCalleeInsts(n), At1(a, Entry(a, Append(c, n))),
                 At1(a, Mc(a, Append(c, n))))
         /\ Flow(getPostCalleeInsts(n), At1(a, Mc(a, Append(c, n))), At1(a, m))
         /\ Flow(genLoop(n, l, d), At1(a, Mc(a, c)), At1(a, Mc(a, c)))
<1>1. /\ getPreCalleeInsts(n) \in Instr /\ getPostCalleeInsts(n) \in Instr
      /\ genLoop(n, l, d) \in Instr
  BY DEF getPreCalleeInsts, getPostCalleeInsts, genLoop, Instr
<1>2. c \in Seq(0 .. 7)
  BY CtxFacts DEF Ctx
<1> DEFINE g == Append(c, n)
<1>3. Len(g) > 0 /\ g[Len(g)] = n
  BY <1>2
<1> HIDE DEF g
<1>4. Flow(getPreCalleeInsts(n), At1(a, Entry(a, g)), At1(a, Mc(a, g)))
  BY <1>1, <1>3 DEF Flow, getPreCalleeInsts, At1, Entry, Mc
<1>5. Flow(getPostCalleeInsts(n), At1(a, Mc(a, g)), At1(a, m))
  BY <1>1, <1>3 DEF Flow, getPostCalleeInsts, At1, Mc, Plain
<1>6. Flow(genLoop(n, l, d), At1(a, Mc(a, c)), At1(a, Mc(a, c)))
  BY <1>1 DEF Flow, genLoop, At1, Mc, Plain
<1> QED BY <1>4, <1>5, <1>6 DEF g

\* An exclusive sequence.
LEMMA FlowExclusive ==
  ASSUME NEW a \in BOOLEAN, NEW c \in Ctx(0), NEW l \in Seq(Nat), NEW k \in BOOLEAN
  PROVE  /\ Flow([op |-> "exclsave", cond |-> k], At1(a, Mc(a, c)), At1(a, Exc(a, c, "try")))
         /\ Flow(Ins("ldrex"), At1(a, Exc(a, c, "try")), At1(a, Exc(a, c, "got")))
         /\ Flow([op |-> "strex", to |-> l], At1(a, Exc(a, c, "got")), At1(a, Exc(a, c, "end")))
         /\ Flow(Ins("exclstub"), At1(a, Exc(a, c, "end")), At1(a, Mc(a, c)))
<1>1. /\ [op |-> "exclsave", cond |-> k] \in Instr /\ Ins("ldrex") \in Instr
      /\ [op |-> "strex", to |-> l] \in Instr /\ Ins("exclstub") \in Instr
  BY DEF Ins, Instr
<1>2. Flow([op |-> "exclsave", cond |-> k], At1(a, Mc(a, c)), At1(a, Exc(a, c, "try")))
  BY <1>1 DEF Flow, At1, Mc, Exc, Plain
<1>3. Flow(Ins("ldrex"), At1(a, Exc(a, c, "try")), At1(a, Exc(a, c, "got")))
  BY <1>1 DEF Flow, At1, Exc, Ins
<1>4. Flow([op |-> "strex", to |-> l], At1(a, Exc(a, c, "got")), At1(a, Exc(a, c, "end")))
  BY <1>1 DEF Flow, At1, Exc
<1>5. Flow(Ins("exclstub"), At1(a, Exc(a, c, "end")), At1(a, Mc(a, c)))
  BY <1>1 DEF Flow, At1, Mc, Exc, Ins
<1> QED BY <1>2, <1>3, <1>4, <1>5

\* The beginning of a block.
LEMMA BlockText ==
  ASSUME NEW l \in Seq(Nat), NEW a \in BOOLEAN, NEW body \in Seq(Instr)
  PROVE  /\ Block(l, a, body) \in Seq(Instr)
         /\ Block(l, a, body) = (<<IsaAttr(a)>> \o <<Label(l)>>) \o body
         /\ SubSeq(Block(l, a, body), 1, 2) = <<IsaAttr(a)>> \o <<Label(l)>>
         /\ SubSeq(Block(l, a, body), 3, Len(Block(l, a, body))) = body
         /\ IsaAttr(a) \in Instr /\ Label(l) \in Instr
<1>1. IsaAttr(a) \in Instr /\ Label(l) \in Instr
  BY DEF IsaAttr, Label, Instr
<1> DEFINE h == <<IsaAttr(a), Label(l)>>
           t == h \o body
<1>2. h \in Seq(Instr) /\ Len(h) = 2 /\ h = <<IsaAttr(a)>> \o <<Label(l)>>
  BY <1>1
<1> HIDE DEF h
<1>3. t \in Seq(Instr) /\ Len(t) = 2 + Len(body)
  BY <1>2
<1>4. \A p \in 1 .. 2 : t[p] = h[p]
  BY <1>2
<1>5. \A p \in 1 .. Len(body) : t[2 + p] = body[p]
  BY <1>2
<1>6. SubSeq(t, 1, 2) = h
  BY <1>2, <1>3, <1>4
<1>7. SubSeq(t, 3, Len(t)) = body
  <2>1. SubSeq(t, 3, Len(t)) \in Seq(Instr) /\ Len(SubSeq(t, 3, Len(t))) = Len(body)
    BY <1>3
  <2>2. \A p \in 1 .. Len(body) : SubSeq(t, 3, Len(t))[p] = body[p]
    BY <1>3, <1>5
  <2> QED BY <2>1, <2>2, SeqEqual
<1> QED BY <1>1, <1>2, <1>3, <1>6, <1>7 DEF Block, h

\* What is inside a part of a part is inside the part.
LEMMA InsideFacts ==
  ASSUME NEW l \in Seq(Nat), NEW k \in Nat, NEW b \in Seq(Nat)
  PROVE  /\ Append(l, k) \in Seq(Nat)
         /\ Inside(l, k, Append(l, k))
         /\ \A j \in Nat : Inside(Append(l, k), j, b) => Inside(l, k, b) /\ b # Append(l, k)
<1> DEFINE P == Append(l, k)
<1>1. /\ P \in Seq(Nat) /\ Len(P) = Len(l) + 1 /\ P[Len(l) + 1] = k
      /\ \A j \in 1 .. Len(l) : P[j] = l[j]
  OBVIOUS
<1> HIDE DEF P
<1>2. Inside(l, k, P)
  BY <1>1 DEF Inside
<1>3. ASSUME NEW j \in Nat, Inside(P, j, b) PROVE Inside(l, k, b) /\ b # P
  <2>1. Len(b) > Len(l) + 1 /\ \A i \in 1 .. (Len(l) + 1) : b[i] = P[i]
    BY <1>1, <1>3 DEF Inside
  <2>2. Len(b) > Len(l) /\ b[Len(l) + 1] = k
    BY <1>1, <2>1
  <2>3. \A i \in 1 .. Len(l) : b[i] = l[i]
    BY <1>1, <2>1
  <2>4. b # P
    BY <1>1, <2>1
  <2> QED BY <2>2, <2>3, <2>4 DEF Inside
<1> QED BY <1>1, <1>2, <1>3 DEF P

\* The labels of a part: its own, and those of its body.
LEMMA UnitOf ==
  ASSUME NEW l \in Seq(Nat), NEW k \in Nat, NEW m, NEW K, NEW G, NEW e,
         Closed(G, G), Single(G),
         \A d \in G : d.i.op = "label" =>
           d.i.to \in Seq(Nat) /\ \E j \in Nat : Inside(Append(l, k), j, d.i.to),
         e.i = Label(Append(l, k)), e.m = m,
         e \in K, G \subseteq K,
         \A d \in K \ (G \cup {e}) : d.i.op \notin Jumps \cup {"label"}
  PROVE  Unit(K, l, k)
<1>1. e.i.op = "label" /\ e.i.to = Append(l, k)
  BY DEF Label
<1>2. Closed(K, K)
  <2> SUFFICES ASSUME NEW d \in K, d.i.op \in Jumps PROVE Finds(d, K)
    BY DEF Closed
  <2>1. d \in G
    BY <1>1 DEF Jumps
  <2> QED BY <2>1 DEF Closed, Finds
<1>3. \A d \in K : d.i.op = "label" => d \in G \/ d = e
  OBVIOUS
<1>4. Labels(K, l, k)
  <2> SUFFICES ASSUME NEW d \in K, d.i.op = "label"
               PROVE  d.i.to \in Seq(Nat) /\ Inside(l, k, d.i.to)
    BY DEF Labels
  <2>1. CASE d = e
    <3>1. Append(l, k) \in Seq(Nat) /\ Inside(l, k, Append(l, k))
      BY InsideFacts
    <3> QED BY <1>1, <2>1, <3>1
  <2>2. CASE d \in G
    BY <2>2, InsideFacts
  <2> QED BY <1>3, <2>1, <2>2
<1>5. Single(K)
  <2>1. \A d \in G : d.i.op = "label" => d.i.to # Append(l, k)
    BY InsideFacts
  <2> QED BY <1>1, <1>3, <2>1 DEF Single
<1> QED BY <1>2, <1>4, <1>5 DEF Unit

\* A typed part, whatever instruction set the text before it is in.
LEMMA PartUnit ==
  ASSUME NEW l \in Seq(Nat), NEW k \in Nat, NEW a \in BOOLEAN, NEW n \in 0 .. 7,
         NEW t, WellTyped(t, Append(l, k), a, n), NEW c \in Ctx(n), c \in Ctx(0)
  PROVE  \E K : /\ Unit(K, l, k)
                /\ [i |-> Label(Append(l, k)), m |-> Mc(a, c)] \in K
                /\ \A r \in BOOLEAN : Seg(t, At1(r, Mc(a, c)), At1(a, Mc(a, c)), K)
<1> DEFINE P == Append(l, k)
           m == Mc(a, c)
<1>0. P \in Seq(Nat) /\ m \in Mach /\ m.arm = a
  BY MachFacts, InsideFacts DEF Mc
<1>1. PICK body \in Seq(Instr) : t = Block(P, a, body) /\ Typed(body, P, a, c)
  BY DEF WellTyped
<1>2. PICK G : /\ Seg(body, At1(a, m), At1(a, m), G)
               /\ Closed(G, G) /\ Single(G)
               /\ \A e \in G : e.i.op = "label" =>
                    e.i.to \in Seq(Nat) /\ \E j \in Nat : Inside(P, j, e.i.to)
  BY <1>1 DEF Typed
<1> HIDE DEF P, m
<1> DEFINE d == [i |-> IsaAttr(a), m |-> m]
           e == [i |-> Label(P), m |-> m]
           K == ({d} \cup {e}) \cup G
<1>3. ASSUME NEW r \in BOOLEAN PROVE Seg(t, At1(r, m), At1(a, m), K)
  <2>1. At1(r, m) \in Ann /\ At1(a, m) \in Ann /\ At1(r, m).m = m /\ At1(a, m).m = m
    BY <1>0, MachFacts DEF At1, Ann
  <2>2. Flow(IsaAttr(a), At1(r, m), At1(a, m)) /\ Flow(Label(P), At1(a, m), At1(a, m))
    BY <1>0, FlowThrough
  <2>3. Seg(<<IsaAttr(a)>>, At1(r, m), At1(a, m), {d})
    BY <2>1, <2>2, SegOne
  <2>4. Seg(<<Label(P)>>, At1(a, m), At1(a, m), {e})
    BY <2>1, <2>2, SegOne
  <2>5. <<IsaAttr(a)>> \in Seq(Instr) /\ <<Label(P)>> \in Seq(Instr)
        /\ <<IsaAttr(a)>> \o <<Label(P)>> \in Seq(Instr)
    BY <1>0, BlockText, Short, Concat
  <2>6. Seg(<<IsaAttr(a)>> \o <<Label(P)>>, At1(r, m), At1(a, m), {d} \cup {e})
    BY <2>3, <2>4, <2>5, SegTwo
  <2>7. Seg((<<IsaAttr(a)>> \o <<Label(P)>>) \o body, At1(r, m), At1(a, m), K)
    BY <2>5, <2>6, <1>2, SegTwo
  <2> QED BY <2>7, <1>0, <1>1, BlockText
<1>4. d.i.op = "isa"
  BY DEF IsaAttr
<1>5. Unit(K, l, k)
  <2>1. e.i = Label(P) /\ e.m = m /\ e \in K /\ G \subseteq K
    OBVIOUS
  <2>2. \A f \in K \ (G \cup {e}) : f.i.op \notin Jumps \cup {"label"}
    BY <1>4 DEF Jumps
  <2> HIDE DEF K, e
  <2> QED BY <1>2, <2>1, <2>2, UnitOf DEF P
<1> QED BY <1>3, <1>5 DEF P, m

\* A typed part as a callee: the return address is saved after its label and
\* popped at its end.
LEMMA CalleeUnit ==
  ASSUME NEW l \in Seq(Nat), NEW k \in Nat, NEW a \in BOOLEAN, NEW n \in 0 .. 7,
         NEW t, WellTyped(t, Append(l, k), a, n), NEW c \in Ctx(n + 1), NEW y \in Mach
  PROVE  \E K : /\ Unit(K, l, k)
                /\ [i |-> Label(Append(l, k)), m |-> Entry(a, Append(c, n))] \in K
                /\ \A r \in BOOLEAN :
                     Seg(SubSeq(t, 1, 2) \o <<getPreCalleeInsts(n)>>
                           \o SubSeq(t, 3, Len(t)) \o <<getPostCalleeInsts(n)>>,
                         At1(r, Entry(a, Append(c, n))), At1(a, y), K)
<1> DEFINE P == Append(l, k)
           g == Append(c, n)
           x == Entry(a, g)
           m == Mc(a, g)
           pre == getPreCalleeInsts(n)
           post == getPostCalleeInsts(n)
<1>0. /\ P \in Seq(Nat) /\ g \in Ctx(n) /\ g \in Ctx(0)
      /\ x \in Mach /\ x.arm = a /\ m \in Mach
  BY MachFacts, InsideFacts, CtxFacts DEF Entry
<1>1. PICK body \in Seq(Instr) : t = Block(P, a, body) /\ Typed(body, P, a, g)
  BY <1>0 DEF WellTyped
<1>2. PICK G : /\ Seg(body, At1(a, m), At1(a, m), G)
               /\ Closed(G, G) /\ Single(G)
               /\ \A e \in G : e.i.op = "label" =>
                    e.i.to \in Seq(Nat) /\ \E j \in Nat : Inside(P, j, e.i.to)
  BY <1>1 DEF Typed
<1>3. /\ Flow(pre, At1(a, x), At1(a, m)) /\ Flow(post, At1(a, m), At1(a, y))
      /\ pre \in Instr /\ post \in Instr /\ pre.op = "pre" /\ post.op = "post"
  <2>1. [inc |-> 0, limit |-> 0].inc \in Nat /\ [inc |-> 0, limit |-> 0].limit \in Nat
    OBVIOUS
  <2>2. Flow(pre, At1(a, x), At1(a, m)) /\ Flow(post, At1(a, m), At1(a, y))
    BY <1>0, <2>1, FlowSlot
  <2>3. pre \in Instr /\ post \in Instr /\ pre.op = "pre" /\ post.op = "post"
    BY DEF getPreCalleeInsts, getPostCalleeInsts, Instr
  <2> QED BY <2>2, <2>3
<1> HIDE DEF P, g, x, m, pre, post
<1> DEFINE d == [i |-> IsaAttr(a), m |-> x]
           e == [i |-> Label(P), m |-> x]
           u == [i |-> pre, m |-> x]
           v == [i |-> post, m |-> m]
           K == ((({d} \cup {e}) \cup {u}) \cup G) \cup {v}
           s == <<IsaAttr(a)>> \o <<Label(P)>>
<1>4. ASSUME NEW r \in BOOLEAN
      PROVE  Seg(s \o <<pre>> \o body \o <<post>>, At1(r, x), At1(a, y), K)
  <2>1. /\ At1(r, x) \in Ann /\ At1(a, x) \in Ann /\ At1(a, m) \in Ann /\ At1(a, y) \in Ann
        /\ At1(r, x).m = x /\ At1(a, x).m = x /\ At1(a, m).m = m
    BY <1>0, MachFacts DEF At1, Ann
  <2>2. Flow(IsaAttr(a), At1(r, x), At1(a, x)) /\ Flow(Label(P), At1(a, x), At1(a, x))
    BY <1>0, FlowThrough
  <2>3. Seg(<<IsaAttr(a)>>, At1(r, x), At1(a, x), {d})
    BY <2>1, <2>2, SegOne
  <2>4. Seg(<<Label(P)>>, At1(a, x), At1(a, x), {e})
    BY <2>1, <2>2, SegOne
  <2>5. Seg(<<pre>>, At1(a, x), At1(a, m), {u})
    BY <2>1, <1>3, SegOne
  <2>6. Seg(<<post>>, At1(a, m), At1(a, y), {v})
    BY <2>1, <1>3, SegOne
  <2>7. <<IsaAttr(a)>> \in Seq(Instr) /\ <<Label(P)>> \in Seq(Instr) /\ s \in Seq(Instr)
    BY <1>0, BlockText, Short, Concat
  <2>8. <<pre>> \in Seq(Instr) /\ <<post>> \in Seq(Instr)
    BY <1>3
  <2>9. Seg(s, At1(r, x), At1(a, x), {d} \cup {e})
    BY <2>3, <2>4, <2>7, SegTwo
  <2> HIDE DEF s, d, e, u, v
  <2>10. s \o <<pre>> \in Seq(Instr) /\ s \o <<pre>> \o body \in Seq(Instr)
    BY <2>7, <2>8, Concat
  <2>11. Seg(s \o <<pre>>, At1(r, x), At1(a, m), ({d} \cup {e}) \cup {u})
    BY <2>5, <2>7, <2>8, <2>9, SegTwo
  <2>12. Seg(s \o <<pre>> \o body, At1(r, x), At1(a, m), (({d} \cup {e}) \cup {u}) \cup G)
    BY <2>8, <2>10, <2>11, <1>2, SegTwo
  <2> QED BY <2>6, <2>8, <2>10, <2>12, SegTwo
<1>5. Unit(K, l, k)
  <2>1. e.i = Label(P) /\ e.m = x /\ e \in K /\ G \subseteq K
    OBVIOUS
  <2>2. d.i.op = "isa" /\ u.i.op = "pre" /\ v.i.op = "post"
    BY <1>3 DEF IsaAttr
  <2>3. \A f \in K \ (G \cup {e}) : f.i.op \notin Jumps \cup {"label"}
    BY <2>2 DEF Jumps
  <2> HIDE DEF K, e
  <2> QED BY <1>2, <2>1, <2>3, UnitOf DEF P
<1>6. SubSeq(t, 1, 2) = s /\ SubSeq(t, 3, Len(t)) = body
  BY <1>0, <1>1, BlockText
<1> QED BY <1>4, <1>5, <1>6 DEF P, g, x, pre, post

\* A piece of text with its annotations.
Piece(t, x, y, K) == t \in Seq(Instr) /\ Seg(t, x, y, K)

\* Pieces are put together by concatenation.
LEMMA PieceTwo ==
  ASSUME NEW t, NEW u, NEW x, NEW y, NEW z, NEW K, NEW G,
         Piece(t, x, y, K), Piece(u, y, z, G)
  PROVE  Piece(t \o u, x, z, K \cup G)
<1>1. t \in Seq(Instr) /\ u \in Seq(Instr) /\ Seg(t, x, y, K) /\ Seg(u, y, z, G)
  BY DEF Piece
<1>2. t \o u \in Seq(Instr)
  BY <1>1, Concat
<1>3. Seg(t \o u, x, z, K \cup G)
  BY <1>1, SegTwo
<1> QED BY <1>2, <1>3 DEF Piece

\* A piece of one instruction.
LEMMA PieceOne ==
  ASSUME NEW i, NEW r \in BOOLEAN, NEW s \in BOOLEAN, NEW m \in Mach, NEW y \in Mach,
         Flow(i, At1(r, m), At1(s, y))
  PROVE  Piece(<<i>>, At1(r, m), At1(s, y), {[i |-> i, m |-> m]})
<1>1. At1(r, m) \in Ann /\ At1(s, y) \in Ann /\ At1(r, m).m = m
  BY DEF At1, Ann
<1>2. Seg(<<i>>, At1(r, m), At1(s, y), {[i |-> i, m |-> At1(r, m).m]})
  BY <1>1, SegOne
<1>3. <<i>> \in Seq(Instr)
  BY DEF Flow
<1> QED BY <1>1, <1>2, <1>3 DEF Piece

\* K consists of the parts F[k] of block l and its own instructions O, whose
\* jumps find their labels.
Covers(K, l, P, F, O) ==
  /\ P \subseteq Nat
  /\ \A k \in P : Unit(F[k], l, k) /\ F[k] \subseteq K
  /\ \A e \in K : e \in O \/ \E k \in P : e \in F[k]
  /\ \A e \in O : /\ e.i.op # "label"
                  /\ e.i.op \in Jumps => \E k \in P : Finds(e, F[k])

\* A block is typed when its parts are and its own jumps find their labels.
LEMMA Joined ==
  ASSUME NEW l \in Seq(Nat), NEW a, NEW c, NEW t, NEW K,
         Piece(t, At1(a, Mc(a, c)), At1(a, Mc(a, c)), K),
         NEW P, NEW F, NEW O, Covers(K, l, P, F, O)
  PROVE  Typed(t, l, a, c)
<1> USE DEF Covers
<1>1. Closed(K, K)
  <2> SUFFICES ASSUME NEW e \in K, e.i.op \in Jumps PROVE Finds(e, K)
    BY DEF Closed
  <2>1. PICK k \in P : Finds(e, F[k])
    <3>1. CASE e \in O
      BY <3>1
    <3>2. CASE \E k \in P : e \in F[k]
      BY <3>2 DEF Unit, Closed
    <3> QED BY <3>1, <3>2
  <2>2. F[k] \subseteq K
    OBVIOUS
  <2> QED BY <2>1, <2>2 DEF Finds
<1>2. \A e \in K : e.i.op = "label" => \E k \in P : e \in F[k]
  OBVIOUS
<1>3. ASSUME NEW k \in P, NEW e \in F[k], e.i.op = "label"
      PROVE  e.i.to \in Seq(Nat) /\ Inside(l, k, e.i.to)
  BY <1>3 DEF Unit, Labels
<1>4. Single(K)
  <2> SUFFICES ASSUME NEW d \in K, NEW e \in K, d.i.op = "label", e.i.op = "label",
                      d.i.to = e.i.to
               PROVE  d.m = e.m
    BY DEF Single
  <2>1. PICK j \in P : d \in F[j]
    BY <1>2
  <2>2. PICK k \in P : e \in F[k]
    BY <1>2
  <2>3. Inside(l, j, d.i.to) /\ Inside(l, k, e.i.to)
    BY <1>3, <2>1, <2>2
  <2>4. j = k
    BY <2>3 DEF Inside
  <2>5. Single(F[k])
    BY DEF Unit
  <2> QED BY <2>1, <2>2, <2>4, <2>5 DEF Single
<1>5. \A e \in K : e.i.op = "label" =>
        e.i.to \in Seq(Nat) /\ \E k \in Nat : Inside(l, k, e.i.to)
  BY <1>2, <1>3
<1> QED BY <1>1, <1>4, <1>5 DEF Typed, Piece

\* The instruction set of a part.
PartIsa(f, k) ==
  IF k = 2 /\ (f.kind = "Interwork" \/ (f.kind = "CallRet" /\ f.draw.iwcall))
    THEN ~f.arm ELSE f.arm

\* A block whose parts are complete and typed.
Ready(f, n) ==
  /\ f \in Frame /\ n \in 0 .. 7
  /\ Len(f.subs) = Parts(f.kind)
  /\ \A k \in 1 .. Len(f.subs) : WellTyped(f.subs[k], Part(f, k), PartIsa(f, k), n)

\* The k-th part, run where the block runs.
PartRuns(f, k, c, K) ==
  /\ Unit(K, f.label, k)
  /\ [i |-> Label(Part(f, k)), m |-> Mc(PartIsa(f, k), c)] \in K
  /\ \A r \in BOOLEAN : Piece(f.subs[k], At1(r, Mc(PartIsa(f, k), c)),
                              At1(PartIsa(f, k), Mc(PartIsa(f, k), c)), K)

\* The fields of a block, and its parts.
LEMMA ReadyFacts ==
  ASSUME NEW f, NEW n, Ready(f, n), NEW c \in Ctx(n + 1)
  PROVE  /\ f.arm \in BOOLEAN /\ f.label \in Seq(Nat) /\ n \in 0 .. 7
         /\ c \in Ctx(0) /\ c \in Ctx(n)
         /\ f.draw.cond \in BOOLEAN /\ f.draw.followed \in BOOLEAN
         /\ f.draw.iwcall \in BOOLEAN /\ f.draw.begin \in BOOLEAN
         /\ f.draw.inc \in Nat /\ f.draw.limit \in Nat
         /\ \A k \in Nat : Part(f, k) \in Seq(Nat)
         /\ Mc(f.arm, c) \in Mach /\ Mc(~f.arm, c) \in Mach
         /\ \A k \in 1 .. Parts(f.kind) : \E K : PartRuns(f, k, c, K)
<1>1. n \in 0 .. 7 /\ f \in Frame
  BY DEF Ready
<1>2. /\ f.arm \in BOOLEAN /\ f.label \in Seq(Nat)
      /\ f.draw.cond \in BOOLEAN /\ f.draw.followed \in BOOLEAN
      /\ f.draw.iwcall \in BOOLEAN /\ f.draw.begin \in BOOLEAN
      /\ f.draw.inc \in Nat /\ f.draw.limit \in Nat
  BY <1>1 DEF Frame
<1>3. c \in Ctx(0) /\ c \in Ctx(n)
  BY <1>1, CtxFacts
<1>4. \A k \in Nat : Part(f, k) \in Seq(Nat)
  BY <1>2 DEF Part
<1>5. Mc(f.arm, c) \in Mach /\ Mc(~f.arm, c) \in Mach
  BY <1>2, <1>3, MachFacts
<1>6. ASSUME NEW k \in 1 .. Parts(f.kind) PROVE \E K : PartRuns(f, k, c, K)
  <2>1. k \in Nat /\ PartIsa(f, k) \in BOOLEAN
    <3>1. Parts(f.kind) \in Nat
      BY DEF Parts
    <3>2. PartIsa(f, k) \in BOOLEAN
      BY <1>2 DEF PartIsa
    <3> QED BY <3>1, <3>2
  <2>2. WellTyped(f.subs[k], Append(f.label, k), PartIsa(f, k), n)
    BY DEF Ready, Part
  <2>3. f.subs[k] \in Seq(Instr)
    BY <1>1 DEF Ready, Frame
  <2> QED BY <1>1, <1>2, <1>3, <2>1, <2>2, <2>3, PartUnit DEF PartRuns, Piece, Part
<1> QED BY <1>1, <1>2, <1>3, <1>4, <1>5, <1>6

\* A jump finds the block it goes to.
LEMMA JumpFinds ==
  ASSUME NEW a \in BOOLEAN, NEW b \in BOOLEAN, NEW c, NEW l, NEW k, NEW G, NEW n, NEW d,
         [i |-> Label(l), m |-> Mc(a, c)] \in G
  PROVE  /\ Finds([i |-> genBranch(l, k), m |-> Mc(a, c)], G)
         /\ Finds([i |-> genLoop(n, l, d), m |-> Mc(a, c)], G)
         /\ a = ~b => Finds([i |-> genBX(b, l, k), m |-> Mc(b, c)], G)
<1>1. Finds([i |-> genBranch(l, k), m |-> Mc(a, c)], G)
  BY DEF Finds, Ref, genBranch, Label
<1>2. Finds([i |-> genLoop(n, l, d), m |-> Mc(a, c)], G)
  BY DEF Finds, Ref, genLoop, Label
<1>3. ASSUME a = ~b PROVE Finds([i |-> genBX(b, l, k), m |-> Mc(b, c)], G)
  BY <1>3 DEF Finds, Ref, genBX, Label, Mc
<1> QED BY <1>1, <1>2, <1>3

\* None of the instructions of a block itself is a label.
LEMMA Ops ==
  ASSUME NEW a, NEW l, NEW k, NEW n, NEW d
  PROVE  /\ genBranch(l, k).op = "b" /\ genLoop(n, l, d).op = "loop"
         /\ genBX(a, l, k).op = "bx" /\ genCall(a, l, k).op = "call"
         /\ IsaAttr(a).op = "isa" /\ Ins("aluwpc").op = "aluwpc"
  BY DEF genBranch, genLoop, genBX, genCall, IsaAttr, Ins

\* No instructions.
LEMMA NoUnit == \A l, k : Unit({}, l, k)
  BY DEF Unit, Closed, Single, Labels

\* A block with up to four parts, and labels of its own below Part(f, 0).
LEMMA Assemble ==
  ASSUME NEW l \in Seq(Nat), NEW a, NEW c, NEW t, NEW K,
         Piece(t, At1(a, Mc(a, c)), At1(a, Mc(a, c)), K),
         NEW K0, NEW K1, NEW K2, NEW K3, NEW K4, NEW O,
         Unit(K0, l, 0), Unit(K1, l, 1), Unit(K2, l, 2), Unit(K3, l, 3), Unit(K4, l, 4),
         K = K0 \cup K1 \cup K2 \cup K3 \cup K4 \cup O,
         \A g \in O : /\ g.i.op # "label"
                      /\ \/ g.i.op \notin Jumps
                         \/ Finds(g, K1) \/ Finds(g, K2) \/ Finds(g, K3) \/ Finds(g, K4)
  PROVE  Typed(t, l, a, c)
<1> DEFINE P == 0 .. 4
           F == [k \in P |-> IF k = 0 THEN K0 ELSE IF k = 1 THEN K1
                             ELSE IF k = 2 THEN K2 ELSE IF k = 3 THEN K3 ELSE K4]
<1>1. F[0] = K0 /\ F[1] = K1 /\ F[2] = K2 /\ F[3] = K3 /\ F[4] = K4
  OBVIOUS
<1>2. P \subseteq Nat /\ 0 \in P /\ 1 \in P /\ 2 \in P /\ 3 \in P /\ 4 \in P
  OBVIOUS
<1>3. \A k \in P : k = 0 \/ k = 1 \/ k = 2 \/ k = 3 \/ k = 4
  OBVIOUS
<1> HIDE DEF P, F
<1>4. \A k \in P : Unit(F[k], l, k) /\ F[k] \subseteq K
  BY <1>1, <1>3
<1>5. \A g \in K : g \in O \/ \E k \in P : g \in F[k]
  BY <1>1, <1>2
<1>6. \A g \in O : /\ g.i.op # "label"
                   /\ g.i.op \in Jumps => \E k \in P : Finds(g, F[k])
  BY <1>1, <1>2
<1>7. Covers(K, l, P, F, O)
  BY <1>2, <1>4, <1>5, <1>6 DEF Covers
<1> QED BY <1>7, Joined

\* A part in the instruction set a.
LEMMA PartFacts ==
  ASSUME NEW f, NEW k, NEW c, NEW K, NEW a \in BOOLEAN, PartRuns(f, k, c, K),
         PartIsa(f, k) = a
  PROVE  /\ Unit(K, f.label, k)
         /\ [i |-> Label(Part(f, k)), m |-> Mc(a, c)] \in K
         /\ \A r \in BOOLEAN : Piece(f.subs[k], At1(r, Mc(a, c)), At1(a, Mc(a, c)), K)
  BY DEF PartRuns

\* The layout of ByPassBlock.
LEMMA ByPassTyped ==
  ASSUME NEW f, Ready(f, nest), f.kind = "ByPass", NEW c \in Ctx(nest + 1)
  PROVE  Typed(ByPassBlock(f), f.label, f.arm, c)
<1> DEFINE a == f.arm
           m == Mc(a, c)
           x == At1(a, m)
           b == genBranch(Part(f, 3), TRUE)
           e == [i |-> b, m |-> m]
<1>1. /\ a \in BOOLEAN /\ f.label \in Seq(Nat) /\ m \in Mach /\ c \in Ctx(0)
      /\ nest \in 0 .. 7 /\ f.draw.inc \in Nat /\ f.draw.limit \in Nat
      /\ \A k \in Nat : Part(f, k) \in Seq(Nat)
  BY ReadyFacts
<1>2. \A k \in 1 .. 3 : PartIsa(f, k) = a /\ \E K : PartRuns(f, k, c, K)
  BY ReadyFacts DEF PartIsa, Parts
<1>3. PICK K1 : PartRuns(f, 1, c, K1)
  BY <1>2
<1>4. PICK K2 : PartRuns(f, 2, c, K2)
  BY <1>2
<1>5. PICK K3 : PartRuns(f, 3, c, K3)
  BY <1>2
<1>6. /\ Piece(f.subs[1], x, x, K1) /\ Unit(K1, f.label, 1)
      /\ [i |-> Label(Part(f, 1)), m |-> m] \in K1
      /\ Piece(f.subs[2], x, x, K2) /\ Unit(K2, f.label, 2)
      /\ [i |-> Label(Part(f, 2)), m |-> m] \in K2
      /\ Piece(f.subs[3], x, x, K3) /\ Unit(K3, f.label, 3)
      /\ [i |-> Label(Part(f, 3)), m |-> m] \in K3
  <2>1. /\ Piece(f.subs[1], x, x, K1) /\ Unit(K1, f.label, 1)
        /\ [i |-> Label(Part(f, 1)), m |-> m] \in K1
    <3>1. PartIsa(f, 1) = a
      BY <1>2
    <3>2. /\ Unit(K1, f.label, 1)
          /\ [i |-> Label(Part(f, 1)), m |-> Mc(a, c)] \in K1
          /\ \A r \in BOOLEAN :
               Piece(f.subs[1], At1(r, Mc(a, c)), At1(a, Mc(a, c)), K1)
      BY <1>1, <3>1, <1>3, PartFacts
    <3> QED BY <1>1, <3>2
  <2>2. /\ Piece(f.subs[2], x, x, K2) /\ Unit(K2, f.label, 2)
        /\ [i |-> Label(Part(f, 2)), m |-> m] \in K2
    <3>1. PartIsa(f, 2) = a
      BY <1>2
    <3>2. /\ Unit(K2, f.label, 2)
          /\ [i |-> Label(Part(f, 2)), m |-> Mc(a, c)] \in K2
          /\ \A r \in BOOLEAN :
               Piece(f.subs[2], At1(r, Mc(a, c)), At1(a, Mc(a, c)), K2)
      BY <1>1, <3>1, <1>4, PartFacts
    <3> QED BY <1>1, <3>2
  <2>3. /\ Piece(f.subs[3], x, x, K3) /\ Unit(K3, f.label, 3)
        /\ [i |-> Label(Part(f, 3)), m |-> m] \in K3
    <3>1. PartIsa(f, 3) = a
      BY <1>2
    <3>2. /\ Unit(K3, f.label, 3)
          /\ [i |-> Label(Part(f, 3)), m |-> Mc(a, c)] \in K3
          /\ \A r \in BOOLEAN :
               Piece(f.subs[3], At1(r, Mc(a, c)), At1(a, Mc(a, c)), K3)
      BY <1>1, <3>1, <1>5, PartFacts
    <3> QED BY <1>1, <3>2
  <2> QED BY <2>1, <2>2, <2>3
<1>7. Piece(<<b>>, x, x, {e}) /\ e.i.op = "b" /\ Finds(e, K3)
  <2>1. e.i.op = "b"
    BY Ops
  <2>2. Finds(e, K3)
    BY <1>1, <1>6, JumpFinds
  <2>3. Flow(b, x, x)
    BY <1>1, FlowThrough
  <2> HIDE DEF b, m
  <2>4. Piece(<<b>>, x, x, {e})
    BY <2>3, <1>1, PieceOne
  <2> QED BY <2>1, <2>2, <2>4
<1> DEFINE K == ((K1 \cup {e}) \cup K2) \cup K3
           O == {e}
<1> HIDE DEF a, m, x, b, e
<1>8. Piece(ByPassBlock(f), x, x, K)
  <2>1. Piece(f.subs[1] \o <<b>>, x, x, K1 \cup {e})
    BY <1>6, <1>7, PieceTwo
  <2>2. Piece(f.subs[1] \o <<b>> \o f.subs[2], x, x, (K1 \cup {e}) \cup K2)
    BY <1>6, <1>7, <2>1, PieceTwo
  <2>3. Piece(f.subs[1] \o <<b>> \o f.subs[2] \o f.subs[3], x, x, K)
    BY <1>6, <1>7, <2>2, PieceTwo
  <2> QED BY <2>3 DEF ByPassBlock, b
<1>9. K = {} \cup K1 \cup K2 \cup K3 \cup {} \cup O
  OBVIOUS
<1>10. \A g \in O : /\ g.i.op # "label"
                    /\ \/ g.i.op \notin Jumps
                       \/ Finds(g, K1) \/ Finds(g, K2) \/ Finds(g, K3) \/ Finds(g, {})
  BY <1>7 DEF Jumps
<1>11. Unit({}, f.label, 0) /\ Unit({}, f.label, 4)
  BY NoUnit
<1> HIDE DEF K, O
<1>12. Typed(ByPassBlock(f), f.label, a, c)
  BY <1>1, <1>6, <1>8, <1>9, <1>10, <1>11, Assemble DEF x, m
<1> QED BY <1>12 DEF a

\* The layout of LoopBlock.
LEMMA LoopTyped ==
  ASSUME NEW f, Ready(f, nest), f.kind = "Loop", NEW c \in Ctx(nest + 1)
  PROVE  Typed(LoopBlock(f), f.label, f.arm, c)
<1> DEFINE a == f.arm
           m == Mc(a, c)
           x == At1(a, m)
           b == genLoop(nest, Part(f, 1), f.draw)
           e == [i |-> b, m |-> m]
<1>1. /\ a \in BOOLEAN /\ f.label \in Seq(Nat) /\ m \in Mach /\ c \in Ctx(0)
      /\ nest \in 0 .. 7 /\ f.draw.inc \in Nat /\ f.draw.limit \in Nat
      /\ \A k \in Nat : Part(f, k) \in Seq(Nat)
  BY ReadyFacts
<1>2. \A k \in 1 .. 1 : PartIsa(f, k) = a /\ \E K : PartRuns(f, k, c, K)
  BY ReadyFacts DEF PartIsa, Parts
<1>3. PICK K1 : PartRuns(f, 1, c, K1)
  BY <1>2
<1>4. /\ Piece(f.subs[1], x, x, K1) /\ Unit(K1, f.label, 1)
      /\ [i |-> Label(Part(f, 1)), m |-> m] \in K1
  <2>1. /\ Piece(f.subs[1], x, x, K1) /\ Unit(K1, f.label, 1)
        /\ [i |-> Label(Part(f, 1)), m |-> m] \in K1
    <3>1. PartIsa(f, 1) = a
      BY <1>2
    <3>2. /\ Unit(K1, f.label, 1)
          /\ [i |-> Label(Part(f, 1)), m |-> Mc(a, c)] \in K1
          /\ \A r \in BOOLEAN :
               Piece(f.subs[1], At1(r, Mc(a, c)), At1(a, Mc(a, c)), K1)
      BY <1>1, <3>1, <1>3, PartFacts
    <3> QED BY <1>1, <3>2
  <2> QED BY <2>1
<1>5. Piece(<<b>>, x, x, {e}) /\ e.i.op = "loop" /\ Finds(e, K1)
  <2>1. e.i.op = "loop"
    BY Ops
  <2>2. Finds(e, K1)
    BY <1>1, <1>4, JumpFinds
  <2>3. Flow(b, x, x)
    BY <1>1, FlowSlot
  <2> HIDE DEF b, m
  <2>4. Piece(<<b>>, x, x, {e})
    BY <2>3, <1>1, PieceOne
  <2> QED BY <2>1, <2>2, <2>4
<1> DEFINE K == K1 \cup {e}
           O == {e}
<1> HIDE DEF a, m, x, b, e
<1>6. Piece(LoopBlock(f), x, x, K)
  <2>1. Piece(f.subs[1] \o <<b>>, x, x, K)
    BY <1>4, <1>5, PieceTwo
  <2> QED BY <2>1 DEF LoopBlock, b
<1>7. K = {} \cup K1 \cup {} \cup {} \cup {} \cup O
  OBVIOUS
<1>8. \A g \in O : /\ g.i.op # "label"
                    /\ \/ g.i.op \notin Jumps
                       \/ Finds(g, K1) \/ Finds(g, {}) \/ Finds(g, {}) \/ Finds(g, {})
  BY <1>5 DEF Jumps
<1>9. Unit({}, f.label, 0) /\ Unit({}, f.label, 2) /\ Unit({}, f.label, 3) /\ Unit({}, f.label, 4)
  BY NoUnit
<1> HIDE DEF K, O
<1>10. Typed(LoopBlock(f), f.label, a, c)
  BY <1>1, <1>4, <1>6, <1>7, <1>8, <1>9, Assemble DEF x, m
<1> QED BY <1>10 DEF a

\* The layout of IrreducibleLoopBlock.
LEMMA IrLoopTyped ==
  ASSUME NEW f, Ready(f, nest), f.kind = "IrLoop", NEW c \in Ctx(nest + 1)
  PROVE  Typed(IrreducibleLoopBlock(f), f.label, f.arm, c)
<1> DEFINE a == f.arm
           m == Mc(a, c)
           x == At1(a, m)
           b == genBranch(Part(f, 3), TRUE)
           e == [i |-> b, m |-> m]
           g == genLoop(nest, Part(f, 2), f.draw)
           h == [i |-> g, m |-> m]
<1>1. /\ a \in BOOLEAN /\ f.label \in Seq(Nat) /\ m \in Mach /\ c \in Ctx(0)
      /\ nest \in 0 .. 7 /\ f.draw.inc \in Nat /\ f.draw.limit \in Nat
      /\ \A k \in Nat : Part(f, k) \in Seq(Nat)
  BY ReadyFacts
<1>2. \A k \in 1 .. 3 : PartIsa(f, k) = a /\ \E K : PartRuns(f, k, c, K)
  BY ReadyFacts DEF PartIsa, Parts
<1>3. PICK K1 : PartRuns(f, 1, c, K1)
  BY <1>2
<1>4. PICK K2 : PartRuns(f, 2, c, K2)
  BY <1>2
<1>5. PICK K3 : PartRuns(f, 3, c, K3)
  BY <1>2
<1>6. /\ Piece(f.subs[1], x, x, K1) /\ Unit(K1, f.label, 1)
      /\ [i |-> Label(Part(f, 1)), m |-> m] \in K1
      /\ Piece(f.subs[2], x, x, K2) /\ Unit(K2, f.label, 2)
      /\ [i |-> Label(Part(f, 2)), m |-> m] \in K2
      /\ Piece(f.subs[3], x, x, K3) /\ Unit(K3, f.label, 3)
      /\ [i |-> Label(Part(f, 3)), m |-> m] \in K3
  <2>1. /\ Piece(f.subs[1], x, x, K1) /\ Unit(K1, f.label, 1)
        /\ [i |-> Label(Part(f, 1)), m |-> m] \in K1
    <3>1. PartIsa(f, 1) = a
      BY <1>2
    <3>2. /\ Unit(K1, f.label, 1)
          /\ [i |-> Label(Part(f, 1)), m |-> Mc(a, c)] \in K1
          /\ \A r \in BOOLEAN :
               Piece(f.subs[1], At1(r, Mc(a, c)), At1(a, Mc(a, c)), K1)
      BY <1>1, <3>1, <1>3, PartFacts
    <3> QED BY <1>1, <3>2
  <2>2. /\ Piece(f.subs[2], x, x, K2) /\ Unit(K2, f.label, 2)
        /\ [i |-> Label(Part(f, 2)), m |-> m] \in K2
    <3>1. PartIsa(f, 2) = a
      BY <1>2
    <3>2. /\ Unit(K2, f.label, 2)
          /\ [i |-> Label(Part(f, 2)), m |-> Mc(a, c)] \in K2
          /\ \A r \in BOOLEAN :
               Piece(f.subs[2], At1(r, Mc(a, c)), At1(a, Mc(a, c)), K2)
      BY <1>1, <3>1, <1>4, PartFacts
    <3> QED BY <1>1, <3>2
  <2>3. /\ Piece(f.subs[3], x, x, K3) /\ Unit(K3, f.label, 3)
        /\ [i |-> Label(Part(f, 3)), m |-> m] \in K3
    <3>1. PartIsa(f, 3) = a
      BY <1>2
    <3>2. /\ Unit(K3, f.label, 3)
          /\ [i |-> Label(Part(f, 3)), m |-> Mc(a, c)] \in K3
          /\ \A r \in BOOLEAN :
               Piece(f.subs[3], At1(r, Mc(a, c)), At1(a, Mc(a, c)), K3)
      BY <1>1, <3>1, <1>5, PartFacts
    <3> QED BY <1>1, <3>2
  <2> QED BY <2>1, <2>2, <2>3
<1>7. Piece(<<b>>, x, x, {e}) /\ e.i.op = "b" /\ Finds(e, K3)
  <2>1. e.i.op = "b"
    BY Ops
  <2>2. Finds(e, K3)
    BY <1>1, <1>6, JumpFinds
  <2>3. Flow(b, x, x)
    BY <1>1, FlowThrough
  <2> HIDE DEF b, m
  <2>4. Piece(<<b>>, x, x, {e})
    BY <2>3, <1>1, PieceOne
  <2> QED BY <2>1, <2>2, <2>4
<1>8. Piece(<<g>>, x, x, {h}) /\ h.i.op = "loop" /\ Finds(h, K2)
  <2>1. h.i.op = "loop"
    BY Ops
  <2>2. Finds(h, K2)
    BY <1>1, <1>6, JumpFinds
  <2>3. Flow(g, x, x)
    BY <1>1, FlowSlot
  <2> HIDE DEF g, m
  <2>4. Piece(<<g>>, x, x, {h})
    BY <2>3, <1>1, PieceOne
  <2> QED BY <2>1, <2>2, <2>4
<1> DEFINE K == (((K1 \cup {e}) \cup K2) \cup K3) \cup {h}
           O == {e, h}
<1> HIDE DEF a, m, x, b, e, g, h
<1>9. Piece(IrreducibleLoopBlock(f), x, x, K)
  <2>1. Piece(f.subs[1] \o <<b>>, x, x, K1 \cup {e})
    BY <1>6, <1>7, <1>8, PieceTwo
  <2>2. Piece(f.subs[1] \o <<b>> \o f.subs[2], x, x, (K1 \cup {e}) \cup K2)
    BY <1>6, <1>7, <1>8, <2>1, PieceTwo
  <2>3. Piece(f.subs[1] \o <<b>> \o f.subs[2] \o f.subs[3], x, x, ((K1 \cup {e}) \cup K2) \cup K3)
    BY <1>6, <1>7, <1>8, <2>2, PieceTwo
  <2>4. Piece(f.subs[1] \o <<b>> \o f.subs[2] \o f.subs[3] \o <<g>>, x, x, K)
    BY <1>6, <1>7, <1>8, <2>3, PieceTwo
  <2> QED BY <2>4 DEF IrreducibleLoopBlock, b, g
<1>10. K = {} \cup K1 \cup K2 \cup K3 \cup {} \cup O
  OBVIOUS
<1>11. \A o \in O : /\ o.i.op # "label"
                    /\ \/ o.i.op \notin Jumps
                       \/ Finds(o, K1) \/ Finds(o, K2) \/ Finds(o, K3) \/ Finds(o, {})
  BY <1>7, <1>8 DEF Jumps
<1>12. Unit({}, f.label, 0) /\ Unit({}, f.label, 4)
  BY NoUnit
<1> HIDE DEF K, O
<1>13. Typed(IrreducibleLoopBlock(f), f.label, a, c)
  BY <1>1, <1>6, <1>9, <1>10, <1>11, <1>12, Assemble DEF x, m
<1> QED BY <1>13 DEF a

\* The layout of HammockBlock.
LEMMA HammockTyped ==
  ASSUME NEW f, Ready(f, nest), f.kind = "Hammock", NEW c \in Ctx(nest + 1)
  PROVE  Typed(HammockBlock(f), f.label, f.arm, c)
<1> DEFINE a == f.arm
           m == Mc(a, c)
           x == At1(a, m)
           b == genBranch(Part(f, 3), TRUE)
           e == [i |-> b, m |-> m]
           g == genBranch(Part(f, 4), FALSE)
           h == [i |-> g, m |-> m]
<1>1. /\ a \in BOOLEAN /\ f.label \in Seq(Nat) /\ m \in Mach /\ c \in Ctx(0)
      /\ nest \in 0 .. 7 /\ f.draw.inc \in Nat /\ f.draw.limit \in Nat
      /\ \A k \in Nat : Part(f, k) \in Seq(Nat)
  BY ReadyFacts
<1>2. \A k \in 1 .. 4 : PartIsa(f, k) = a /\ \E K : PartRuns(f, k, c, K)
  BY ReadyFacts DEF PartIsa, Parts
<1>3. PICK K1 : PartRuns(f, 1, c, K1)
  BY <1>2
<1>4. PICK K2 : PartRuns(f, 2, c, K2)
  BY <1>2
<1>5. PICK K3 : PartRuns(f, 3, c, K3)
  BY <1>2
<1>6. PICK K4 : PartRuns(f, 4, c, K4)
  BY <1>2
<1>7. /\ Piece(f.subs[1], x, x, K1) /\ Unit(K1, f.label, 1)
      /\ [i |-> Label(Part(f, 1)), m |-> m] \in K1
      /\ Piece(f.subs[2], x, x, K2) /\ Unit(K2, f.label, 2)
      /\ [i |-> Label(Part(f, 2)), m |-> m] \in K2
      /\ Piece(f.subs[3], x, x, K3) /\ Unit(K3, f.label, 3)
      /\ [i |-> Label(Part(f, 3)), m |-> m] \in K3
      /\ Piece(f.subs[4], x, x, K4) /\ Unit(K4, f.label, 4)
      /\ [i |-> Label(Part(f, 4)), m |-> m] \in K4
  <2>1. /\ Piece(f.subs[1], x, x, K1) /\ Unit(K1, f.label, 1)
        /\ [i |-> Label(Part(f, 1)), m |-> m] \in K1
    <3>1. PartIsa(f, 1) = a
      BY <1>2
    <3>2. /\ Unit(K1, f.label, 1)
          /\ [i |-> Label(Part(f, 1)), m |-> Mc(a, c)] \in K1
          /\ \A r \in BOOLEAN :
               Piece(f.subs[1], At1(r, Mc(a, c)), At1(a, Mc(a, c)), K1)
      BY <1>1, <3>1, <1>3, PartFacts
    <3> QED BY <1>1, <3>2
  <2>2. /\ Piece(f.subs[2], x, x, K2) /\ Unit(K2, f.label, 2)
        /\ [i |-> Label(Part(f, 2)), m |-> m] \in K2
    <3>1. PartIsa(f, 2) = a
      BY <1>2
    <3>2. /\ Unit(K2, f.label, 2)
          /\ [i |-> Label(Part(f, 2)), m |-> Mc(a, c)] \in K2
          /\ \A r \in BOOLEAN :
               Piece(f.subs[2], At1(r, Mc(a, c)), At1(a, Mc(a, c)), K2)
      BY <1>1, <3>1, <1>4, PartFacts
    <3> QED BY <1>1, <3>2
  <2>3. /\ Piece(f.subs[3], x, x, K3) /\ Unit(K3, f.label, 3)
        /\ [i |-> Label(Part(f, 3)), m |-> m] \in K3
    <3>1. PartIsa(f, 3) = a
      BY <1>2
    <3>2. /\ Unit(K3, f.label, 3)
          /\ [i |-> Label(Part(f, 3)), m |-> Mc(a, c)] \in K3
          /\ \A r \in BOOLEAN :
               Piece(f.subs[3], At1(r, Mc(a, c)), At1(a, Mc(a, c)), K3)
      BY <1>1, <3>1, <1>5, PartFacts
    <3> QED BY <1>1, <3>2
  <2>4. /\ Piece(f.subs[4], x, x, K4) /\ Unit(K4, f.label, 4)
        /\ [i |-> Label(Part(f, 4)), m |-> m] \in K4
    <3>1. PartIsa(f, 4) = a
      BY <1>2
    <3>2. /\ Unit(K4, f.label, 4)
          /\ [i |-> Label(Part(f, 4)), m |-> Mc(a, c)] \in K4
          /\ \A r \in BOOLEAN :
               Piece(f.subs[4], At1(r, Mc(a, c)), At1(a, Mc(a, c)), K4)
      BY <1>1, <3>1, <1>6, PartFacts
    <3> QED BY <1>1, <3>2
  <2> QED BY <2>1, <2>2, <2>3, <2>4
<1>8. Piece(<<b>>, x, x, {e}) /\ e.i.op = "b" /\ Finds(e, K3)
  <2>1. e.i.op = "b"
    BY Ops
  <2>2. Finds(e, K3)
    BY <1>1, <1>7, JumpFinds
  <2>3. Flow(b, x, x)
    BY <1>1, FlowThrough
  <2> HIDE DEF b, m
  <2>4. Piece(<<b>>, x, x, {e})
    BY <2>3, <1>1, PieceOne
  <2> QED BY <2>1, <2>2, <2>4
<1>9. Piece(<<g>>, x, x, {h}) /\ h.i.op = "b" /\ Finds(h, K4)
  <2>1. h.i.op = "b"
    BY Ops
  <2>2. Finds(h, K4)
    BY <1>1, <1>7, JumpFinds
  <2>3. Flow(g, x, x)
    BY <1>1, FlowThrough
  <2> HIDE DEF g, m
  <2>4. Piece(<<g>>, x, x, {h})
    BY <2>3, <1>1, PieceOne
  <2> QED BY <2>1, <2>2, <2>4
<1> DEFINE K == ((((K1 \cup {e}) \cup K2) \cup {h}) \cup K3) \cup K4
           O == {e, h}
<1> HIDE DEF a, m, x, b, e, g, h
<1>10. Piece(HammockBlock(f), x, x, K)
  <2>1. Piece(f.subs[1] \o <<b>>, x, x, K1 \cup {e})
    BY <1>7, <1>8, <1>9, PieceTwo
  <2>2. Piece(f.subs[1] \o <<b>> \o f.subs[2], x, x, (K1 \cup {e}) \cup K2)
    BY <1>7, <1>8, <1>9, <2>1, PieceTwo
  <2>3. Piece(f.subs[1] \o <<b>> \o f.subs[2] \o <<g>>, x, x, ((K1 \cup {e}) \cup K2) \cup {h})
    BY <1>7, <1>8, <1>9, <2>2, PieceTwo
  <2>4. Piece(f.subs[1] \o <<b>> \o f.subs[2] \o <<g>> \o f.subs[3], x, x, (((K1 \cup {e}) \cup K2) \cup {h}) \cup K3)
    BY <1>7, <1>8, <1>9, <2>3, PieceTwo
  <2>5. Piece(f.subs[1] \o <<b>> \o f.subs[2] \o <<g>> \o f.subs[3] \o f.subs[4], x, x, K)
    BY <1>7, <1>8, <1>9, <2>4, PieceTwo
  <2> QED BY <2>5 DEF HammockBlock, b, g
<1>11. K = {} \cup K1 \cup K2 \cup K3 \cup K4 \cup O
  OBVIOUS
<1>12. \A o \in O : /\ o.i.op # "label"
                    /\ \/ o.i.op \notin Jumps
                       \/ Finds(o, K1) \/ Finds(o, K2) \/ Finds(o, K3) \/ Finds(o, K4)
  BY <1>8, <1>9 DEF Jumps
<1>13. Unit({}, f.label, 0)
  BY NoUnit
<1> HIDE DEF K, O
<1>14. Typed(HammockBlock(f), f.label, a, c)
  BY <1>1, <1>7, <1>10, <1>11, <1>12, <1>13, Assemble DEF x, m
<1> QED BY <1>14 DEF a

\* The layout of ALUwritePCBlock.
LEMMA ALUwritePCTyped ==
  ASSUME NEW f, Ready(f, nest), f.kind = "ALUwritePC", NEW c \in Ctx(nest + 1)
  PROVE  Typed(ALUwritePCBlock(f), f.label, f.arm, c)
<1> DEFINE a == f.arm
           m == Mc(a, c)
           x == At1(a, m)
           b == Ins("aluwpc")
           e == [i |-> b, m |-> m]
<1>1. /\ a \in BOOLEAN /\ f.label \in Seq(Nat) /\ m \in Mach /\ c \in Ctx(0)
      /\ nest \in 0 .. 7 /\ f.draw.inc \in Nat /\ f.draw.limit \in Nat
      /\ \A k \in Nat : Part(f, k) \in Seq(Nat)
  BY ReadyFacts
<1>2. \A k \in 1 .. 2 : PartIsa(f, k) = a /\ \E K : PartRuns(f, k, c, K)
  BY ReadyFacts DEF PartIsa, Parts
<1>3. PICK K1 : PartRuns(f, 1, c, K1)
  BY <1>2
<1>4. PICK K2 : PartRuns(f, 2, c, K2)
  BY <1>2
<1>5. /\ Piece(f.subs[1], x, x, K1) /\ Unit(K1, f.label, 1)
      /\ [i |-> Label(Part(f, 1)), m |-> m] \in K1
      /\ Piece(f.subs[2], x, x, K2) /\ Unit(K2, f.label, 2)
      /\ [i |-> Label(Part(f, 2)), m |-> m] \in K2
  <2>1. /\ Piece(f.subs[1], x, x, K1) /\ Unit(K1, f.label, 1)
        /\ [i |-> Label(Part(f, 1)), m |-> m] \in K1
    <3>1. PartIsa(f, 1) = a
      BY <1>2
    <3>2. /\ Unit(K1, f.label, 1)
          /\ [i |-> Label(Part(f, 1)), m |-> Mc(a, c)] \in K1
          /\ \A r \in BOOLEAN :
               Piece(f.subs[1], At1(r, Mc(a, c)), At1(a, Mc(a, c)), K1)
      BY <1>1, <3>1, <1>3, PartFacts
    <3> QED BY <1>1, <3>2
  <2>2. /\ Piece(f.subs[2], x, x, K2) /\ Unit(K2, f.label, 2)
        /\ [i |-> Label(Part(f, 2)), m |-> m] \in K2
    <3>1. PartIsa(f, 2) = a
      BY <1>2
    <3>2. /\ Unit(K2, f.label, 2)
          /\ [i |-> Label(Part(f, 2)), m |-> Mc(a, c)] \in K2
          /\ \A r \in BOOLEAN :
               Piece(f.subs[2], At1(r, Mc(a, c)), At1(a, Mc(a, c)), K2)
      BY <1>1, <3>1, <1>4, PartFacts
    <3> QED BY <1>1, <3>2
  <2> QED BY <2>1, <2>2
<1>6. Piece(<<b>>, x, x, {e}) /\ e.i.op = "aluwpc"
  <2>1. e.i.op = "aluwpc"
    BY Ops
  <2>3. Flow(b, x, x)
    BY <1>1, FlowThrough
  <2> HIDE DEF b, m
  <2>4. Piece(<<b>>, x, x, {e})
    BY <2>3, <1>1, PieceOne
  <2> QED BY <2>1, <2>4
<1> DEFINE K == (K1 \cup {e}) \cup K2
           O == {e}
<1> HIDE DEF a, m, x, b, e
<1>7. Piece(ALUwritePCBlock(f), x, x, K)
  <2>1. Piece(f.subs[1] \o <<b>>, x, x, K1 \cup {e})
    BY <1>5, <1>6, PieceTwo
  <2>2. Piece(f.subs[1] \o <<b>> \o f.subs[2], x, x, K)
    BY <1>5, <1>6, <2>1, PieceTwo
  <2> QED BY <2>2 DEF ALUwritePCBlock, genALUwritePC, b
<1>8. K = {} \cup K1 \cup K2 \cup {} \cup {} \cup O
  OBVIOUS
<1>9. \A g \in O : /\ g.i.op # "label"
                    /\ \/ g.i.op \notin Jumps
                       \/ Finds(g, K1) \/ Finds(g, K2) \/ Finds(g, {}) \/ Finds(g, {})
  BY <1>6 DEF Jumps
<1>10. Unit({}, f.label, 0) /\ Unit({}, f.label, 3) /\ Unit({}, f.label, 4)
  BY NoUnit
<1> HIDE DEF K, O
<1>11. Typed(ALUwritePCBlock(f), f.label, a, c)
  BY <1>1, <1>5, <1>7, <1>8, <1>9, <1>10, Assemble DEF x, m
<1> QED BY <1>11 DEF a

\* Two texts of one element.
LEMMA Pair ==
  ASSUME NEW S, NEW d \in S, NEW e \in S
  PROVE  <<d>> \o <<e>> = <<d, e>>
<1> DEFINE h == <<d, e>>
           t == <<d>> \o <<e>>
<1>1. h \in Seq(S) /\ Len(h) = 2 /\ h[1] = d /\ h[2] = e
  OBVIOUS
<1>2. t \in Seq(S) /\ Len(t) = 2 /\ t[1] = d /\ t[2] = e
  OBVIOUS
<1> HIDE DEF h, t
<1>3. \A i \in 1 .. 2 : t[i] = h[i]
  BY <1>1, <1>2
<1>4. t = h
  BY <1>1, <1>2, <1>3, SeqEqual
<1> QED BY <1>4 DEF h, t

\* The exclusive sequence of a block, with its label.
LEMMA ExclusiveUnit ==
  ASSUME NEW f, NEW c \in Ctx(0), NEW a \in BOOLEAN, NEW k \in BOOLEAN,
         f.label \in Seq(Nat)
  PROVE  \E K0, G : /\ Unit(K0 \cup G, f.label, 0)
                    /\ Piece(genLDREX(Part(f, 0), k), At1(a, Mc(a, c)),
                             At1(a, Exc(a, c, "got")), K0)
                    /\ Piece(genSTREX(Part(f, 0)), At1(a, Exc(a, c, "got")),
                             At1(a, Mc(a, c)), G)
<1> DEFINE l == Part(f, 0)
           save == [op |-> "exclsave", cond |-> k]
           strex == [op |-> "strex", to |-> l]
           m == Mc(a, c)
           try == Exc(a, c, "try")
           got == Exc(a, c, "got")
           end == Exc(a, c, "end")
           e1 == [i |-> save, m |-> m]
           e2 == [i |-> Label(l), m |-> try]
           e4 == [i |-> strex, m |-> got]
           e5 == [i |-> Ins("exclstub"), m |-> end]
           e3 == [i |-> Ins("ldrex"), m |-> try]
           K0 == ({e1} \cup {e2}) \cup {e3}
           G  == {e4} \cup {e5}
<1>1. /\ l \in Seq(Nat) /\ Inside(f.label, 0, l)
      /\ m \in Mach /\ try \in Mach /\ got \in Mach /\ end \in Mach /\ try.arm = a
  <2>1. l \in Seq(Nat) /\ Inside(f.label, 0, l)
    BY InsideFacts DEF Part
  <2>2. m \in Mach /\ try \in Mach /\ got \in Mach /\ end \in Mach
    BY MachFacts
  <2>3. try.arm = a
    BY DEF Exc
  <2> QED BY <2>1, <2>2, <2>3
<1>2. /\ Flow(save, At1(a, m), At1(a, try)) /\ Flow(Ins("ldrex"), At1(a, try), At1(a, got))
      /\ Flow(strex, At1(a, got), At1(a, end)) /\ Flow(Ins("exclstub"), At1(a, end), At1(a, m))
  BY <1>1, FlowExclusive
<1>3. Flow(Label(l), At1(a, try), At1(a, try))
  <2>1. Flow(Label(l), At1(try.arm, try), At1(try.arm, try))
    BY <1>1, FlowThrough
  <2> QED BY <1>1, <2>1
<1>4. /\ e1.i.op = "exclsave" /\ e2.i.op = "label" /\ e3.i.op = "ldrex"
      /\ e4.i.op = "strex" /\ e5.i.op = "exclstub"
      /\ e2.i.to = l /\ e4.i.to = l
      /\ Ref(e4.i, e4.m, e2.m)
  <2>1. /\ e1.i.op = "exclsave" /\ e2.i.op = "label" /\ e3.i.op = "ldrex"
        /\ e4.i.op = "strex" /\ e5.i.op = "exclstub"
        /\ e2.i.to = l /\ e4.i.to = l
    BY DEF Label, Ins
  <2>2. e4.m.arm = a /\ e4.m.ctx = c /\ e2.m = Exc(a, c, "try")
    BY DEF Exc
  <2> HIDE DEF e2, e4
  <2>3. Ref(e4.i, e4.m, e2.m)
    BY <2>1, <2>2 DEF Ref
  <2> QED BY <2>1, <2>3
<1> HIDE DEF save, strex, l, m, try, got, end
<1>5. Piece(<<save>>, At1(a, m), At1(a, try), {e1})
  BY <1>1, <1>2, PieceOne
<1>6. Piece(<<Label(l)>>, At1(a, try), At1(a, try), {e2})
  BY <1>1, <1>3, PieceOne
<1>7. Piece(<<Ins("ldrex")>>, At1(a, try), At1(a, got), {e3})
  BY <1>1, <1>2, PieceOne
<1>8. Piece(<<strex>>, At1(a, got), At1(a, end), {e4})
  BY <1>1, <1>2, PieceOne
<1>9. Piece(<<Ins("exclstub")>>, At1(a, end), At1(a, m), {e5})
  BY <1>1, <1>2, PieceOne
<1> HIDE DEF e1, e2, e4, e5, e3
<1>10. Piece(genLDREX(l, k), At1(a, m), At1(a, got), K0)
  <2>1. Piece(<<save>> \o <<Label(l)>>, At1(a, m), At1(a, try), {e1} \cup {e2})
    BY <1>5, <1>6, PieceTwo
  <2>2. Piece(<<save>> \o <<Label(l)>> \o <<Ins("ldrex")>>, At1(a, m), At1(a, got), K0)
    BY <1>7, <2>1, PieceTwo
  <2>3. genLDREX(l, k) = <<save>> \o <<Label(l)>> \o <<Ins("ldrex")>>
    BY DEF genLDREX, save
  <2> QED BY <2>2, <2>3
<1>11. Piece(genSTREX(l), At1(a, got), At1(a, m), G)
  <2>1. Piece(<<strex>> \o <<Ins("exclstub")>>, At1(a, got), At1(a, m), G)
    BY <1>8, <1>9, PieceTwo
  <2>2. genSTREX(l) = <<strex>> \o <<Ins("exclstub")>>
    BY DEF genSTREX, strex
  <2> QED BY <2>1, <2>2
<1>12. Unit(K0 \cup G, f.label, 0)
  <2> DEFINE H == K0 \cup G
  <2>1. \A d \in H : /\ d.i.op = "label" => d = e2
                     /\ d.i.op \in Jumps => d = e4
    BY <1>4 DEF Jumps
  <2>2. e2 \in H /\ e4 \in H
    OBVIOUS
  <2> HIDE DEF H
  <2>3. Finds(e4, H)
    BY <1>4, <2>2 DEF Finds
  <2>4. Closed(H, H)
    BY <2>1, <2>3 DEF Closed
  <2>5. Single(H)
    BY <2>1 DEF Single
  <2>6. Labels(H, f.label, 0)
    BY <2>1, <1>1, <1>4 DEF Labels
  <2>7. Unit(H, f.label, 0)
    BY <2>4, <2>5, <2>6 DEF Unit
  <2> QED BY <2>7 DEF H
<1> QED BY <1>10, <1>11, <1>12 DEF l, m, got

\* The layout of ExclsiveBlock.
LEMMA ExclusiveTyped ==
  ASSUME NEW f, Ready(f, nest), f.kind = "Exclusive", NEW c \in Ctx(nest + 1)
  PROVE  Typed(ExclsiveBlock(f), f.label, f.arm, c)
<1> DEFINE a == f.arm
           x == At1(a, Mc(a, c))
           y == At1(a, Exc(a, c, "got"))
           s == genLDREX(Part(f, 0), f.draw.cond)
           t == genSTREX(Part(f, 0))
<1>1. a \in BOOLEAN /\ f.label \in Seq(Nat) /\ c \in Ctx(0) /\ f.draw.cond \in BOOLEAN
  BY ReadyFacts
<1>2. \A k \in 1 .. 2 : PartIsa(f, k) = a /\ \E K : PartRuns(f, k, c, K)
  BY ReadyFacts DEF PartIsa, Parts
<1>3. PICK K1 : PartRuns(f, 1, c, K1)
  BY <1>2
<1>4. PICK K2 : PartRuns(f, 2, c, K2)
  BY <1>2
<1>5. Piece(f.subs[1], x, x, K1) /\ Unit(K1, f.label, 1)
  <2>1. PartIsa(f, 1) = a
    BY <1>2
  <2>2. /\ Unit(K1, f.label, 1)
        /\ \A r \in BOOLEAN : Piece(f.subs[1], At1(r, Mc(a, c)), At1(a, Mc(a, c)), K1)
    BY <1>1, <1>3, <2>1, PartFacts
  <2> QED BY <1>1, <2>2
<1>6. Piece(f.subs[2], x, x, K2) /\ Unit(K2, f.label, 2)
  <2>1. PartIsa(f, 2) = a
    BY <1>2
  <2>2. /\ Unit(K2, f.label, 2)
        /\ \A r \in BOOLEAN : Piece(f.subs[2], At1(r, Mc(a, c)), At1(a, Mc(a, c)), K2)
    BY <1>1, <1>4, <2>1, PartFacts
  <2> QED BY <1>1, <2>2
<1>7. PICK K0, G : /\ Unit(K0 \cup G, f.label, 0)
                   /\ Piece(s, x, y, K0) /\ Piece(t, y, x, G)
  BY <1>1, ExclusiveUnit
<1> HIDE DEF a, x, y, s, t
<1> DEFINE K == ((K1 \cup K0) \cup G) \cup K2
<1>8. Piece(ExclsiveBlock(f), x, x, K)
  <2>1. Piece(f.subs[1] \o s, x, y, K1 \cup K0)
    BY <1>5, <1>7, PieceTwo
  <2>2. Piece(f.subs[1] \o s \o t, x, x, (K1 \cup K0) \cup G)
    BY <1>7, <2>1, PieceTwo
  <2>3. Piece(f.subs[1] \o s \o t \o f.subs[2], x, x, K)
    BY <1>6, <2>2, PieceTwo
  <2> QED BY <2>3 DEF ExclsiveBlock, s, t
<1> DEFINE H == K0 \cup G
           O == {}
<1>9. K = H \cup K1 \cup K2 \cup {} \cup {} \cup O
  OBVIOUS
<1>10. /\ Unit({}, f.label, 3) /\ Unit({}, f.label, 4) /\ Unit(H, f.label, 0)
       /\ \A g \in O : /\ g.i.op # "label"
                       /\ \/ g.i.op \notin Jumps
                          \/ Finds(g, K1) \/ Finds(g, K2) \/ Finds(g, {}) \/ Finds(g, {})
  BY <1>7, NoUnit
<1> HIDE DEF K, H, O
<1>11. Typed(ExclsiveBlock(f), f.label, a, c)
  BY <1>1, <1>5, <1>6, <1>7, <1>8, <1>9, <1>10, Assemble DEF x
<1> QED BY <1>11 DEF a

\* The layout of InterworkBlock: control never runs into the part in the other
\* instruction set, nor out of it.
LEMMA InterworkTyped ==
  ASSUME NEW f, Ready(f, nest), f.kind = "Interwork", arm = f.arm, NEW c \in Ctx(nest + 1)
  PROVE  Typed(InterworkBlock(f), f.label, f.arm, c)
<1> DEFINE a == f.arm
           m == Mc(a, c)
           o == Mc(~a, c)
           x == At1(a, m)
           y == At1(~a, o)
           k == f.draw.cond
           d1 == genBX(a, Part(f, 2), k)
           d2 == genBX(~a, Part(f, 1), k)
           d3 == genBX(~a, Part(f, 3), FALSE)
           b  == genBranch(Part(f, 3), FALSE)
           e0 == [i |-> IsaAttr(a), m |-> m]
           e1 == [i |-> d1, m |-> m]
           e2 == [i |-> d2, m |-> o]
           e3 == [i |-> d3, m |-> o]
           e4 == [i |-> b, m |-> m]
<1>1. /\ a \in BOOLEAN /\ (~a) \in BOOLEAN /\ f.label \in Seq(Nat) /\ m \in Mach /\ o \in Mach
      /\ c \in Ctx(0) /\ k \in BOOLEAN /\ \A j \in Nat : Part(f, j) \in Seq(Nat)
  <2>1. /\ a \in BOOLEAN /\ f.label \in Seq(Nat) /\ m \in Mach
        /\ c \in Ctx(0) /\ k \in BOOLEAN /\ \A j \in Nat : Part(f, j) \in Seq(Nat)
    BY ReadyFacts
  <2>2. (~a) \in BOOLEAN
    OBVIOUS
  <2>3. o \in Mach
    BY <2>1, <2>2, MachFacts
  <2> QED BY <2>1, <2>2, <2>3
<1>2. /\ PartIsa(f, 1) = a /\ PartIsa(f, 2) = ~a /\ PartIsa(f, 3) = a
      /\ \A j \in 1 .. 3 : \E K : PartRuns(f, j, c, K)
  <2>1. PartIsa(f, 1) = a /\ PartIsa(f, 2) = ~a /\ PartIsa(f, 3) = a
    BY DEF PartIsa
  <2>2. \A j \in 1 .. 3 : \E K : PartRuns(f, j, c, K)
    BY ReadyFacts DEF Parts
  <2> QED BY <2>1, <2>2
<1>3. PICK K1 : PartRuns(f, 1, c, K1)
  BY <1>2
<1>4. PICK K2 : PartRuns(f, 2, c, K2)
  BY <1>2
<1>5. PICK K3 : PartRuns(f, 3, c, K3)
  BY <1>2
<1>6. /\ Unit(K1, f.label, 1) /\ [i |-> Label(Part(f, 1)), m |-> m] \in K1
      /\ \A r \in BOOLEAN : Piece(f.subs[1], At1(r, m), x, K1)
  BY <1>1, <1>2, <1>3, PartFacts
<1>7. /\ Unit(K2, f.label, 2) /\ [i |-> Label(Part(f, 2)), m |-> o] \in K2
      /\ \A r \in BOOLEAN : Piece(f.subs[2], At1(r, o), y, K2)
  BY <1>1, <1>2, <1>4, PartFacts
<1>8. /\ Unit(K3, f.label, 3) /\ [i |-> Label(Part(f, 3)), m |-> m] \in K3
      /\ \A r \in BOOLEAN : Piece(f.subs[3], At1(r, m), x, K3)
  BY <1>1, <1>2, <1>5, PartFacts
<1>9. Finds(e1, K2)
  BY <1>1, <1>7, JumpFinds
<1>10. Finds(e2, K1)
  BY <1>1, <1>6, JumpFinds
<1>11. Finds(e3, K3)
  BY <1>1, <1>8, JumpFinds
<1>12. Finds(e4, K3)
  BY <1>1, <1>8, JumpFinds
<1>13. /\ e0.i.op = "isa" /\ e1.i.op = "bx" /\ e2.i.op = "bx" /\ e3.i.op = "bx"
       /\ e4.i.op = "b"
  <2>1. d1.op = "bx" /\ d2.op = "bx" /\ d3.op = "bx" /\ b.op = "b" /\ IsaAttr(a).op = "isa"
    BY DEF genBX, genBranch, IsaAttr
  <2> HIDE DEF d1, d2, d3, b
  <2> QED BY <2>1
<1>14. Flow(IsaAttr(a), x, x) /\ Flow(d1, x, x)
  BY <1>1, FlowThrough
<1>15. Flow(d2, y, y)
  BY <1>1, FlowThrough
<1>16. Flow(d3, y, At1(~a, m))
  BY <1>1, FlowAway
<1>17. Flow(b, x, At1(a, o)) /\ Flow(b, x, x)
  BY <1>1, FlowAway
<1> HIDE DEF d1, d2, d3, b, m, o
<1>18. Piece(<<IsaAttr(a)>>, x, x, {e0}) /\ Piece(<<d1>>, x, x, {e1})
  BY <1>1, <1>14, PieceOne
<1>19. Piece(<<d2>>, y, y, {e2}) /\ Piece(<<d3>>, y, At1(~a, m), {e3})
  BY <1>1, <1>15, <1>16, PieceOne
<1>20. Piece(<<b>>, x, At1(a, o), {e4})
  BY <1>1, <1>17, PieceOne
<1> HIDE DEF e0, e1, e2, e3, e4
<1> DEFINE back == f.subs[2] \o <<d2, d3>>
           G == K2 \cup ({e2} \cup {e3})
<1>21. Piece(back, At1(a, o), At1(~a, m), G)
  <2>1. Piece(<<d2>> \o <<d3>>, y, At1(~a, m), {e2} \cup {e3})
    BY <1>19, PieceTwo
  <2>2. <<d2>> \o <<d3>> = <<d2, d3>>
    <3>1. d2 \in Instr /\ d3 \in Instr
      BY <1>15, <1>16 DEF Flow
    <3> QED BY <3>1, Pair
  <2>3. Piece(f.subs[2], At1(a, o), y, K2)
    BY <1>1, <1>7
  <2>4. Piece(f.subs[2] \o (<<d2>> \o <<d3>>), At1(a, o), At1(~a, m), G)
    BY <2>1, <2>3, PieceTwo
  <2> QED BY <2>2, <2>4
<1>22. Piece(<<IsaAttr(a), d1>>, x, x, {e0} \cup {e1})
  <2>1. Piece(<<IsaAttr(a)>> \o <<d1>>, x, x, {e0} \cup {e1})
    BY <1>18, PieceTwo
  <2>2. <<IsaAttr(a)>> \o <<d1>> = <<IsaAttr(a), d1>>
    <3>1. IsaAttr(a) \in Instr /\ d1 \in Instr
      BY <1>14 DEF Flow
    <3> QED BY <3>1, Pair
  <2> QED BY <2>1, <2>2
<1>23. /\ Piece(f.subs[1], x, x, K1) /\ Piece(f.subs[1], At1(~a, m), x, K1)
       /\ Piece(f.subs[3], x, x, K3) /\ Piece(f.subs[3], At1(~a, m), x, K3)
  BY <1>1, <1>6, <1>8
<1> DEFINE O == {e0, e1, e2, e3, e4}
           K == {} \cup K1 \cup K2 \cup K3 \cup {} \cup O
           h == <<IsaAttr(a), d1>>
<1> HIDE DEF back, G, h
<1>24. Piece(InterworkBlock(f), x, x, K)
  <2>1. CASE f.draw.followed
    <3>1. Piece(<<b>> \o back, x, At1(~a, m), {e4} \cup G)
      BY <1>20, <1>21, PieceTwo
    <3>2. Piece(<<b>> \o back \o f.subs[1], x, x, ({e4} \cup G) \cup K1)
      BY <1>23, <3>1, PieceTwo
    <3>3. Piece(h \o (<<b>> \o back \o f.subs[1]), x, x,
                ({e0} \cup {e1}) \cup (({e4} \cup G) \cup K1))
      BY <1>22, <3>2, PieceTwo DEF h
    <3>4. Piece(h \o (<<b>> \o back \o f.subs[1]) \o f.subs[3], x, x,
                (({e0} \cup {e1}) \cup (({e4} \cup G) \cup K1)) \cup K3)
      BY <1>23, <3>3, PieceTwo
    <3>5. K = (({e0} \cup {e1}) \cup (({e4} \cup G) \cup K1)) \cup K3
      BY DEF G
    <3>6. InterworkBlock(f) = h \o (<<b>> \o back \o f.subs[1]) \o f.subs[3]
      BY <2>1 DEF InterworkBlock, h, back, b, d1, d2, d3
    <3> QED BY <3>4, <3>5, <3>6
  <2>2. CASE ~f.draw.followed
    <3>1. Piece(f.subs[1] \o <<b>>, x, At1(a, o), K1 \cup {e4})
      BY <1>20, <1>23, PieceTwo
    <3>2. Piece(f.subs[1] \o <<b>> \o back, x, At1(~a, m), (K1 \cup {e4}) \cup G)
      BY <1>21, <3>1, PieceTwo
    <3>3. Piece(h \o (f.subs[1] \o <<b>> \o back), x, At1(~a, m),
                ({e0} \cup {e1}) \cup ((K1 \cup {e4}) \cup G))
      BY <1>22, <3>2, PieceTwo DEF h
    <3>4. Piece(h \o (f.subs[1] \o <<b>> \o back) \o f.subs[3], x, x,
                (({e0} \cup {e1}) \cup ((K1 \cup {e4}) \cup G)) \cup K3)
      BY <1>23, <3>3, PieceTwo
    <3>5. K = (({e0} \cup {e1}) \cup ((K1 \cup {e4}) \cup G)) \cup K3
      BY DEF G
    <3>6. InterworkBlock(f) = h \o (f.subs[1] \o <<b>> \o back) \o f.subs[3]
      BY <2>2 DEF InterworkBlock, h, back, b, d1, d2, d3
    <3> QED BY <3>4, <3>5, <3>6
  <2> QED BY <2>1, <2>2
<1>25. \A g \in O : /\ g.i.op # "label"
                    /\ \/ g.i.op \notin Jumps
                       \/ Finds(g, K1) \/ Finds(g, K2) \/ Finds(g, K3) \/ Finds(g, {})
  BY <1>9, <1>10, <1>11, <1>12, <1>13 DEF Jumps
<1>26. Unit({}, f.label, 0) /\ Unit({}, f.label, 4)
  BY NoUnit
<1>27. K = {} \cup K1 \cup K2 \cup K3 \cup {} \cup O
  OBVIOUS
<1> HIDE DEF a, x, O, K
<1>28. Typed(InterworkBlock(f), f.label, a, c)
  BY <1>1, <1>6, <1>7, <1>8, <1>24, <1>25, <1>26, <1>27, Assemble DEF x, m
<1> QED BY <1>28 DEF a

\* The layout of CallRetBlock: control enters the callee only by the call and
\* leaves it only by the return.
LEMMA CallRetTyped ==
  ASSUME NEW f, Ready(f, nest), f.kind = "CallRet", NEW c \in Ctx(nest + 1)
  PROVE  Typed(CallRetBlock(f), f.label, f.arm, c)
<1> DEFINE a == f.arm
           a2 == f.arm # f.draw.iwcall
           m == Mc(a, c)
           o == Entry(a2, Append(c, nest))
           x == At1(a, m)
           k == f.draw.cond
           call == genCall(a2, Part(f, 2), k)
           b1 == genBranch(Part(f, 1), FALSE)
           b3 == genBranch(Part(f, 3), FALSE)
           b  == IF f.draw.followed THEN b1 ELSE b3
           t2 == SubSeq(f.subs[2], 1, 2) \o <<getPreCalleeInsts(nest)>>
                   \o SubSeq(f.subs[2], 3, Len(f.subs[2])) \o <<getPostCalleeInsts(nest)>>
           e0 == [i |-> IsaAttr(a), m |-> m]
           e1 == [i |-> call, m |-> m]
           e2 == [i |-> b, m |-> m]
<1>1. /\ a \in BOOLEAN /\ f.label \in Seq(Nat) /\ m \in Mach /\ nest \in 0 .. 7
      /\ c \in Ctx(0) /\ k \in BOOLEAN /\ \A j \in Nat : Part(f, j) \in Seq(Nat)
      /\ f.draw.iwcall \in BOOLEAN
  BY ReadyFacts
<1>2. a2 \in BOOLEAN /\ o \in Mach
  <2>1. a2 \in BOOLEAN
    OBVIOUS
  <2>2. Append(c, nest) \in Ctx(0)
    BY <1>1, CtxFacts
  <2> QED BY <2>1, <2>2, MachFacts
<1>3. PartIsa(f, 1) = a /\ PartIsa(f, 2) = a2 /\ PartIsa(f, 3) = a
  <2>1. PartIsa(f, 1) = a /\ PartIsa(f, 3) = a
    BY DEF PartIsa
  <2>2. PartIsa(f, 2) = IF f.draw.iwcall THEN ~f.arm ELSE f.arm
    BY DEF PartIsa
  <2>3. a2 = IF f.draw.iwcall THEN ~f.arm ELSE f.arm
    BY <1>1
  <2> QED BY <2>1, <2>2, <2>3
<1>p. \A j \in 1 .. 3 : \E K : PartRuns(f, j, c, K)
  <2>1. Parts(f.kind) = 3
    BY DEF Parts
  <2> QED BY <2>1, ReadyFacts
<1>4. PICK K1 : PartRuns(f, 1, c, K1)
  BY <1>p
<1>5. PICK K3 : PartRuns(f, 3, c, K3)
  BY <1>p
<1>6. /\ Unit(K1, f.label, 1) /\ [i |-> Label(Part(f, 1)), m |-> m] \in K1
      /\ \A r \in BOOLEAN : Piece(f.subs[1], At1(r, m), x, K1)
  BY <1>1, <1>3, <1>4, PartFacts
<1>7. /\ Unit(K3, f.label, 3) /\ [i |-> Label(Part(f, 3)), m |-> m] \in K3
      /\ \A r \in BOOLEAN : Piece(f.subs[3], At1(r, m), x, K3)
  BY <1>1, <1>3, <1>5, PartFacts
<1>8. WellTyped(f.subs[2], Append(f.label, 2), a2, nest) /\ f.subs[2] \in Seq(Instr)
  <2>1. 2 \in 1 .. Len(f.subs) /\ f \in Frame
    BY DEF Ready, Parts
  <2>2. WellTyped(f.subs[2], Part(f, 2), PartIsa(f, 2), nest)
    BY <2>1 DEF Ready
  <2>3. f.subs[2] \in Seq(Instr)
    BY <2>1 DEF Frame
  <2> QED BY <1>3, <2>2, <2>3 DEF Part
<1>9. PICK K2 : /\ Unit(K2, f.label, 2)
                /\ [i |-> Label(Append(f.label, 2)), m |-> o] \in K2
                /\ \A r \in BOOLEAN : Seg(t2, At1(r, o), At1(a2, m), K2)
  <2> HIDE DEF a2, m
  <2>1. 2 \in Nat /\ WellTyped(f.subs[2], Append(f.label, 2), a2, nest) /\ m \in Mach
        /\ a2 \in BOOLEAN /\ f.label \in Seq(Nat) /\ nest \in 0 .. 7
    BY <1>1, <1>2, <1>8
  <2> QED BY ONLY <2>1, CalleeUnit, c \in Ctx(nest + 1)
<1>10. t2 \in Seq(Instr)
  <2>1. f.subs[2] \in Seq(Instr) /\ Len(f.subs[2]) >= 2
    <3>1. PICK body \in Seq(Instr) : f.subs[2] = Block(Append(f.label, 2), a2, body)
      BY <1>8 DEF WellTyped
    <3>2. Len(Block(Append(f.label, 2), a2, body)) >= 2
      BY DEF Block
    <3> QED BY <1>8, <3>1, <3>2
  <2>2. getPreCalleeInsts(nest) \in Instr /\ getPostCalleeInsts(nest) \in Instr
    BY <1>1 DEF getPreCalleeInsts, getPostCalleeInsts, Instr
  <2>3. SubSeq(f.subs[2], 1, 2) \o <<getPreCalleeInsts(nest)>>
          \o SubSeq(f.subs[2], 3, Len(f.subs[2])) \in Seq(Instr)
    BY <2>1, <2>2, Insert
  <2>4. <<getPostCalleeInsts(nest)>> \in Seq(Instr)
    BY <2>2
  <2> QED BY <2>3, <2>4, Concat
<1>11. Finds(e1, K2)
  <2>1. e1.i.op = "call" /\ e1.i.to = Part(f, 2) /\ e1.i.arm = a2 /\ e1.m.ctx = c
    BY DEF genCall, Mc
  <2> DEFINE d == [i |-> Label(Append(f.label, 2)), m |-> o]
  <2>2. d.i.op = "label" /\ d.i.to = Part(f, 2) /\ d.m = Entry(a2, Append(c, nest))
    BY DEF Label, Part
  <2>3. d \in K2
    BY <1>9
  <2> HIDE DEF d, e1, a2
  <2>4. Ref(e1.i, e1.m, d.m)
    BY <1>1, <2>1, <2>2 DEF Ref
  <2> QED BY <2>1, <2>2, <2>3, <2>4 DEF Finds
<1>12. Finds(e2, K1) \/ Finds(e2, K3)
  <2>1. Finds([i |-> b1, m |-> m], K1)
    BY <1>1, <1>6, JumpFinds
  <2>2. Finds([i |-> b3, m |-> m], K3)
    BY <1>1, <1>7, JumpFinds
  <2> QED BY <2>1, <2>2
<1>13. e0.i.op = "isa" /\ e1.i.op = "call" /\ e2.i.op = "b"
  <2>1. IsaAttr(a).op = "isa" /\ call.op = "call" /\ b1.op = "b" /\ b3.op = "b"
    BY DEF IsaAttr, genCall, genBranch
  <2> HIDE DEF call, b1, b3
  <2> QED BY <2>1
<1>14. Flow(IsaAttr(a), x, x) /\ Flow(call, x, x)
  <2> HIDE DEF a2
  <2> QED BY <1>1, <1>2, FlowThrough
<1>15. Flow(b, x, At1(a, o))
  <2> HIDE DEF o
  <2>1. Flow(b1, x, At1(a, o)) /\ Flow(b3, x, At1(a, o))
    BY <1>1, <1>2, FlowAway
  <2> QED BY <2>1
<1> HIDE DEF call, b, m, o, t2, a2
<1>16. Piece(<<IsaAttr(a)>>, x, x, {e0}) /\ Piece(<<call>>, x, x, {e1})
  BY <1>1, <1>14, PieceOne
<1>17. Piece(<<b>>, x, At1(a, o), {e2})
  BY <1>1, <1>2, <1>15, PieceOne
<1> HIDE DEF e0, e1, e2
<1>18. Piece(t2, At1(a, o), At1(a2, m), K2)
  BY <1>1, <1>9, <1>10 DEF Piece
<1>19. /\ Piece(f.subs[1], x, x, K1) /\ Piece(f.subs[1], At1(a2, m), x, K1)
       /\ Piece(f.subs[3], x, x, K3) /\ Piece(f.subs[3], At1(a2, m), x, K3)
  BY <1>1, <1>2, <1>6, <1>7
<1> DEFINE before == IF f.draw.begin THEN <<call>> ELSE <<>>
           after  == IF f.draw.begin THEN <<>> ELSE <<call>>
           Kb == IF f.draw.begin THEN {e1} ELSE {}
           Ka == IF f.draw.begin THEN {} ELSE {e1}
<1>20. Piece(before, x, x, Kb) /\ Piece(after, x, x, Ka)
  <2>1. Piece(<<>>, x, x, {})
    <3>1. x \in Ann
      BY <1>1, MachFacts
    <3> QED BY <3>1, SegNone DEF Piece
  <2> HIDE DEF x
  <2> QED BY <1>16, <2>1
<1>21. Kb \cup Ka = {e1}
  OBVIOUS
<1> HIDE DEF before, after, Kb, Ka
<1> DEFINE O == {e0, e1, e2}
           K == {} \cup K1 \cup K2 \cup K3 \cup {} \cup O
           h == <<IsaAttr(a)>> \o before
<1>22. Piece(h, x, x, {e0} \cup Kb)
  BY <1>16, <1>20, PieceTwo
<1> HIDE DEF h
<1>23. Piece(CallRetBlock(f), x, x, K)
  <2>1. CASE f.draw.followed
    <3>1. Piece(<<b>> \o t2, x, At1(a2, m), {e2} \cup K2)
      BY <1>17, <1>18, PieceTwo
    <3>2. Piece(<<b>> \o t2 \o f.subs[1], x, x, ({e2} \cup K2) \cup K1)
      BY <1>19, <3>1, PieceTwo
    <3>3. Piece(<<b>> \o t2 \o f.subs[1] \o after, x, x, (({e2} \cup K2) \cup K1) \cup Ka)
      BY <1>20, <3>2, PieceTwo
    <3>4. Piece(h \o (<<b>> \o t2 \o f.subs[1] \o after), x, x,
                ({e0} \cup Kb) \cup ((({e2} \cup K2) \cup K1) \cup Ka))
      BY <1>22, <3>3, PieceTwo
    <3>5. Piece(h \o (<<b>> \o t2 \o f.subs[1] \o after) \o f.subs[3], x, x,
                (({e0} \cup Kb) \cup ((({e2} \cup K2) \cup K1) \cup Ka)) \cup K3)
      BY <1>19, <3>4, PieceTwo
    <3>6. K = (({e0} \cup Kb) \cup ((({e2} \cup K2) \cup K1) \cup Ka)) \cup K3
      BY <1>21
    <3>7. CallRetBlock(f) = h \o (<<b>> \o t2 \o f.subs[1] \o after) \o f.subs[3]
      BY <2>1 DEF CallRetBlock, h, before, after, b, t2, call, a2
    <3> QED BY <3>5, <3>6, <3>7
  <2>2. CASE ~f.draw.followed
    <3>1. Piece(f.subs[1] \o after, x, x, K1 \cup Ka)
      BY <1>19, <1>20, PieceTwo
    <3>2. Piece(f.subs[1] \o after \o <<b>>, x, At1(a, o), (K1 \cup Ka) \cup {e2})
      BY <1>17, <3>1, PieceTwo
    <3>3. Piece(f.subs[1] \o after \o <<b>> \o t2, x, At1(a2, m),
                ((K1 \cup Ka) \cup {e2}) \cup K2)
      BY <1>18, <3>2, PieceTwo
    <3>4. Piece(h \o (f.subs[1] \o after \o <<b>> \o t2), x, At1(a2, m),
                ({e0} \cup Kb) \cup (((K1 \cup Ka) \cup {e2}) \cup K2))
      BY <1>22, <3>3, PieceTwo
    <3>5. Piece(h \o (f.subs[1] \o after \o <<b>> \o t2) \o f.subs[3], x, x,
                (({e0} \cup Kb) \cup (((K1 \cup Ka) \cup {e2}) \cup K2)) \cup K3)
      BY <1>19, <3>4, PieceTwo
    <3>6. K = (({e0} \cup Kb) \cup (((K1 \cup Ka) \cup {e2}) \cup K2)) \cup K3
      BY <1>21
    <3>7. CallRetBlock(f) = h \o (f.subs[1] \o after \o <<b>> \o t2) \o f.subs[3]
      BY <2>2 DEF CallRetBlock, h, before, after, b, t2, call, a2
    <3> QED BY <3>5, <3>6, <3>7
  <2> QED BY <2>1, <2>2
<1>24. \A g \in O : /\ g.i.op # "label"
                    /\ \/ g.i.op \notin Jumps
                       \/ Finds(g, K1) \/ Finds(g, K2) \/ Finds(g, K3) \/ Finds(g, {})
  BY <1>11, <1>12, <1>13 DEF Jumps
<1>25. Unit({}, f.label, 0) /\ Unit({}, f.label, 4)
  BY NoUnit
<1>26. K = {} \cup K1 \cup K2 \cup K3 \cup {} \cup O
  OBVIOUS
<1> HIDE DEF a, x, O, K
<1>27. Typed(CallRetBlock(f), f.label, a, c)
  BY <1>1, <1>6, <1>7, <1>9, <1>23, <1>24, <1>25, <1>26, Assemble DEF x, m
<1> QED BY <1>27 DEF a

\* Every block is typed when its parts are (makeRandomBlock of all classes).
LEMMA BodyTyped ==
  ASSUME NEW f, Ready(f, nest), arm = f.arm,
         \A k \in 1 .. Len(f.subs) : f.subs[k] \in Seq(Below(nest)) /\ Len(f.subs[k]) >= 2
  PROVE  WellTyped(Block(f.label, f.arm, Body(f)), f.label, f.arm, nest + 1)
<1>1. f \in Frame /\ nest \in 0 .. 7 /\ f.kind \in Compound /\ f.arm \in BOOLEAN
      /\ Len(f.subs) = Parts(f.kind)
  BY DEF Ready, Frame
<1>2. Body(f) \in Seq(Instr)
  <2>1. Body(f) \in Seq(Below(nest + 1))
    BY <1>1, BodyBelow
  <2>2. Below(nest + 1) \subseteq Instr
    BY DEF Below
  <2> QED BY <2>1, <2>2
<1>3. ASSUME NEW c \in Ctx(nest + 1) PROVE Typed(Body(f), f.label, f.arm, c)
  <2>1. CASE f.kind = "ByPass"
    BY <2>1, ByPassTyped DEF Body
  <2>2. CASE f.kind = "Hammock"
    BY <2>2, HammockTyped DEF Body
  <2>3. CASE f.kind = "Loop"
    BY <2>3, LoopTyped DEF Body
  <2>4. CASE f.kind = "IrLoop"
    BY <2>4, IrLoopTyped DEF Body
  <2>5. CASE f.kind = "Interwork"
    BY <2>5, InterworkTyped DEF Body
  <2>6. CASE f.kind = "CallRet"
    BY <2>6, CallRetTyped DEF Body
  <2>7. CASE f.kind = "Exclusive"
    BY <2>7, ExclusiveTyped DEF Body
  <2>8. CASE f.kind = "ALUwritePC"
    BY <2>8, ALUwritePCTyped DEF Body
  <2> QED BY <1>1, <2>1, <2>2, <2>3, <2>4, <2>5, <2>6, <2>7, <2>8 DEF Compound
<1> QED BY <1>2, <1>3 DEF WellTyped

\* A basic block is typed.
LEMMA BasicTyped ==
  ASSUME NEW l \in Seq(Nat), NEW a \in BOOLEAN, NEW n \in 0 .. 8
  PROVE  WellTyped(Block(l, a, <<Ins("basic")>>), l, a, n)
<1>1. Ins("basic") \in Instr /\ <<Ins("basic")>> \in Seq(Instr)
  BY DEF Ins, Instr
<1>2. ASSUME NEW c \in Ctx(n) PROVE Typed(<<Ins("basic")>>, l, a, c)
  <2>1. c \in Ctx(0)
    <3> DEFINE S == n .. 7
               T == 0 .. 7
    <3>1. c \in Seq(S) /\ S \subseteq T
      BY DEF Ctx
    <3> HIDE DEF S, T
    <3>2. c \in Seq(T)
      BY <3>1
    <3> QED BY <3>2 DEF T, Ctx
  <2> DEFINE x == At1(a, Mc(a, c))
             e == [i |-> Ins("basic"), m |-> Mc(a, c)]
  <2>2. x \in Ann /\ x.m = Mc(a, c) /\ Flow(Ins("basic"), x, x)
    <3>1. Mc(a, c) \in Mach
      BY <2>1, MachFacts
    <3>2. Flow(Ins("basic"), x, x)
      BY <2>1, <3>1, FlowThrough
    <3> QED BY <2>1, <3>1, <3>2, MachFacts DEF At1
  <2>3. Seg(<<Ins("basic")>>, x, x, {e})
    BY <2>2, SegOne
  <2>4. e.i.op = "basic"
    BY DEF Ins
  <2> HIDE DEF e
  <2>5. Closed({e}, {e}) /\ Single({e})
    BY <2>4 DEF Closed, Single, Jumps
  <2> QED BY <2>3, <2>4, <2>5 DEF Typed
<1> QED BY <1>1, <1>2 DEF WellTyped

-----------------------------------------------------------------------------
\* The activations of makeRandomBlock have typed parts; their labels are paths.
TypedStack(st) ==
  /\ \A i \in 1 .. Len(st) : \A k \in 1 .. Len(st[i].subs) :
       WellTyped(st[i].subs[k], Part(st[i], k), PartIsa(st[i], k), Nest - i)
  /\ st # <<>> => st[1].label = <<>>
  /\ \A i \in 1 .. (Len(st) - 1) : st[i + 1].label = Part(st[i], Len(st[i].subs) + 1)

\* A program with its annotations: it begins in ARM state, ends with the exit
\* code, and every jump has a target, whichever of its labels is taken.
Sound(t, A) ==
  /\ t \in Seq(Instr) /\ Runs(t, A)
  /\ Len(t) > 0 /\ t[1].op = "isa" /\ t[Len(t)].op = "exit"
  /\ A[1].m = Mc(TRUE, <<>>)
  /\ \A p \in 1 .. Len(t) : t[p].op \in Jumps =>
       /\ \E q \in 1 .. Len(t) : t[q].op = "label" /\ t[q].to = t[p].to
       /\ \A q \in 1 .. Len(t) :
            t[q].op = "label" /\ t[q].to = t[p].to => Ref(t[p], A[p].m, A[q].m)

TypedInv ==
  /\ TypedStack(stack)
  /\ phase = "fill" => WellTyped(text, <<>>, TRUE, Nest)
  /\ phase = "written" => \E A : Sound(text, A)

\* The part that is made next is in the instruction set of the context.
LEMMA PartIsaNext ==
  ASSUME NEW f
  PROVE  Len(f.subs) \in Nat => PartIsa(f, Len(f.subs) + 1) = PartArm(f)
<1> SUFFICES ASSUME Len(f.subs) \in Nat PROVE PartIsa(f, Len(f.subs) + 1) = PartArm(f)
  OBVIOUS
<1> DEFINE n == Len(f.subs)
<1>1. n \in Nat
  OBVIOUS
<1> HIDE DEF n
<1>2. n + 1 = 2 <=> n = 1
  BY <1>1
<1>3. PartIsa(f, n + 1) = PartArm(f)
  BY <1>2 DEF PartIsa, PartArm, Switches, n
<1> QED BY <1>3 DEF n

\* One element of a sequence is replaced.
LEMMA ReplaceOne ==
  ASSUME NEW S, NEW s \in Seq(S), NEW n \in 1 .. Len(s), NEW g \in S
  PROVE  /\ Len([s EXCEPT ![n] = g]) = Len(s) /\ [s EXCEPT ![n] = g][n] = g
         /\ \A i \in 1 .. Len(s) : i # n => [s EXCEPT ![n] = g][i] = s[i]
OBVIOUS

\* Two sequences, element by element.
LEMMA Spliced ==
  ASSUME NEW S, NEW s \in Seq(S), NEW t \in Seq(S)
  PROVE  /\ s \o t \in Seq(S) /\ Len(s \o t) = Len(s) + Len(t)
         /\ \A p \in 1 .. Len(s) : (s \o t)[p] = s[p]
         /\ \A p \in 1 .. Len(t) : (s \o t)[Len(s) + p] = t[p]
OBVIOUS

\* A typed block is given to the activation below it.
LEMMA ReturnTyped ==
  ASSUME NEW rest, StackOK(rest), TypedStack(rest), NEW a, NEW l, NEW b,
         NEW t \in Seq(Instr),
         WellTyped(t, l, b, Nest - Len(rest)),
         rest = <<>> => l = <<>> /\ b = TRUE,
         rest # <<>> => /\ l = Part(rest[Len(rest)], Len(rest[Len(rest)].subs) + 1)
                        /\ b = PartArm(rest[Len(rest)]),
         phase = "make", Return(rest, a, t)
  PROVE  TypedInv'
<1>1. CASE rest = <<>>
  <2>1. text' = t /\ phase' = "fill" /\ stack' = <<>>
    BY <1>1 DEF Return
  <2>2. Nest - Len(rest) = Nest
    BY <1>1, NestAssumption
  <2>3. WellTyped(text', <<>>, TRUE, Nest)
    BY <1>1, <2>1, <2>2
  <2>4. TypedStack(stack')
    BY <2>1 DEF TypedStack
  <2> QED BY <2>1, <2>3, <2>4 DEF TypedInv
<1>2. CASE rest # <<>>
  <2> DEFINE n == Len(rest)
             f == rest[n]
             g == [f EXCEPT !.subs = Append(@, t)]
             new == [rest EXCEPT ![n].subs = Append(@, t)]
             k == Len(f.subs) + 1
  <2>1. stack' = new /\ phase' = "make"
    BY <1>2 DEF Return
  <2>2. /\ rest \in Seq(Frame) /\ n \in Nat \ {0} /\ n \in 1 .. n /\ f \in Frame
        /\ f.subs \in Seq(Seq(Instr))
    <3>1. rest \in Seq(Frame)
      BY DEF StackOK
    <3>2. n \in 1 .. Nest /\ f \in Frame
      BY <1>2, TopFacts
    <3>3. f.subs \in Seq(Seq(Instr))
      BY <3>2 DEF Frame
    <3> QED BY <3>1, <3>2, <3>3, NestAssumption
  <2>3. /\ g.label = f.label /\ g.kind = f.kind /\ g.arm = f.arm /\ g.draw = f.draw
        /\ g \in Frame /\ g.subs = Append(f.subs, t) /\ Len(g.subs) = k /\ g.subs[k] = t
        /\ \A j \in 1 .. Len(f.subs) : g.subs[j] = f.subs[j]
    <3>1. /\ g.label = f.label /\ g.kind = f.kind /\ g.arm = f.arm /\ g.draw = f.draw
          /\ g.subs = Append(f.subs, t) /\ g \in Frame
      <4>1. Append(f.subs, t) \in Seq(Seq(Instr))
        BY <2>2
      <4> QED BY <2>2, <4>1 DEF Frame
    <3> QED BY <2>2, <3>1, AppendProperties
  <2>4. /\ Len(new) = n /\ new[n] = g /\ \A i \in 1 .. n : i # n => new[i] = rest[i]
    <3>1. rest \in Seq(Frame) /\ n \in 1 .. Nest /\ n \in 1 .. Len(rest)
          /\ f \in Frame /\ g \in Frame
      BY <1>2, <2>2, <2>3, TopFacts
    <3>2. new = [rest EXCEPT ![n] = g]
      OBVIOUS
    <3> HIDE DEF g, new
    <3> QED BY <3>1, <3>2, ReplaceOne
  <2> HIDE DEF g, new
  <2>5. \A j : Part(g, j) = Part(f, j) /\ PartIsa(g, j) = PartIsa(f, j)
    BY <2>3 DEF Part, PartIsa
  <2>6. k \in Nat /\ PartIsa(f, k) = PartArm(f)
    BY <2>2, PartIsaNext
  <2>7. ASSUME NEW j \in 1 .. Len(g.subs)
        PROVE  WellTyped(g.subs[j], Part(g, j), PartIsa(g, j), Nest - n)
    <3>1. CASE j = k
      BY <1>2, <2>3, <2>5, <2>6, <3>1
    <3>2. CASE j # k
      <4>1. j \in 1 .. Len(f.subs)
        BY <2>2, <2>3, <3>2
      <4>2. WellTyped(f.subs[j], Part(f, j), PartIsa(f, j), Nest - n)
        BY <2>2, <4>1 DEF TypedStack
      <4> QED BY <2>3, <2>5, <4>1, <4>2
    <3> QED BY <3>1, <3>2
  <2>8. ASSUME NEW i \in 1 .. Len(new), NEW j \in 1 .. Len(new[i].subs)
        PROVE  WellTyped(new[i].subs[j], Part(new[i], j), PartIsa(new[i], j), Nest - i)
    <3>1. CASE i = n
      BY <2>4, <2>7, <3>1
    <3>2. CASE i # n
      BY <2>2, <2>4, <3>2 DEF TypedStack
    <3> QED BY <3>1, <3>2
  <2>9. new[1].label = <<>>
    <3>1. rest[1].label = <<>>
      BY <1>2 DEF TypedStack
    <3>2. 1 \in 1 .. n
      BY <2>2
    <3> QED BY <2>3, <2>4, <3>1, <3>2
  <2>10. ASSUME NEW i \in 1 .. (Len(new) - 1)
         PROVE  new[i + 1].label = Part(new[i], Len(new[i].subs) + 1)
    <3>1. i \in 1 .. (n - 1) /\ i \in 1 .. n /\ i # n /\ i + 1 \in 1 .. n
      BY <2>2, <2>4
    <3>2. new[i] = rest[i] /\ new[i + 1].label = rest[i + 1].label
      BY <2>3, <2>4, <3>1
    <3> QED BY <3>1, <3>2 DEF TypedStack
  <2>11. TypedStack(new)
    BY <2>8, <2>9, <2>10 DEF TypedStack
  <2> QED BY <2>1, <2>11 DEF TypedInv
<1> QED BY <1>1, <1>2

\* The first and the last element of a program.
LEMMA Framed ==
  ASSUME NEW S, NEW a \in S, NEW l \in S, NEW z \in S, NEW body \in Seq(S),
         NEW w, w = ((<<a>> \o <<l>>) \o body) \o (<<a>> \o <<z>>)
  PROVE  Len(w) > 0 /\ w[1] = a /\ w[Len(w)] = z
<1>h. PICK h \in Seq(S) : h = <<a>> \o <<l>> /\ Len(h) = 2 /\ h[1] = a
  <2>1. /\ <<a>> \o <<l>> \in Seq(S) /\ Len(<<a>> \o <<l>>) = 2
        /\ (<<a>> \o <<l>>)[1] = a
    OBVIOUS
  <2> QED BY <2>1, Zenon
<1>u. PICK u \in Seq(S) : u = <<a>> \o <<z>> /\ Len(u) = 2 /\ u[2] = z
  <2>1. /\ <<a>> \o <<z>> \in Seq(S) /\ Len(<<a>> \o <<z>>) = 2
        /\ (<<a>> \o <<z>>)[2] = z
    OBVIOUS
  <2> QED BY <2>1, Zenon
<1>1. PICK v \in Seq(S) : v = h \o body
  <2>1. h \o body \in Seq(S)
    BY Concat
  <2> QED BY <2>1
<1>2. Len(v) = Len(h) + Len(body) /\ \A p \in 1 .. Len(h) : v[p] = h[p]
  BY <1>1, Spliced
<1>3. w = v \o u
  BY <1>1, <1>h, <1>u
<1>4. Len(body) \in Nat /\ 1 \in 1 .. Len(h) /\ 2 \in 1 .. Len(u)
  BY <1>h, <1>u
<1>5. Len(v) \in Nat /\ Len(v) >= 2 /\ v[1] = h[1]
  BY <1>2, <1>4, <1>h
<1>6. /\ Len(v \o u) = Len(v) + Len(u)
      /\ \A p \in 1 .. Len(v) : (v \o u)[p] = v[p]
      /\ \A p \in 1 .. Len(u) : (v \o u)[Len(v) + p] = u[p]
  OBVIOUS
<1>7. w[1] = v[1] /\ w[Len(v) + 2] = u[2] /\ Len(w) = Len(v) + 2
  <2>1. 1 \in 1 .. Len(v)
    BY <1>5
  <2>2. (v \o u)[1] = v[1] /\ (v \o u)[Len(v) + 2] = u[2] /\ Len(v \o u) = Len(v) + 2
    BY <1>4, <1>6, <1>u, <2>1, Zenon
  <2> QED BY <1>3, <2>2, Zenon
<1> QED BY <1>5, <1>7, <1>h, <1>u

\* The program that was written is sound.
LEMMA WrittenSound ==
  ASSUME NEW t, WellTyped(t, <<>>, TRUE, Nest)
  PROVE  \E A : Sound(t \o genExitBlock, A)
<1> DEFINE c == <<>>
           m == Mc(TRUE, c)
           x == At1(TRUE, m)
           d == [i |-> IsaAttr(TRUE), m |-> m]
           e == [i |-> Label(<<>>), m |-> m]
           z == [i |-> Ins("exit"), m |-> m]
<1>1. c \in Ctx(Nest) /\ c \in Ctx(0) /\ <<>> \in Seq(Nat) /\ m \in Mach /\ m.arm = TRUE
  <2>1. c \in Ctx(Nest) /\ c \in Ctx(0)
    BY DEF Ctx
  <2>2. m \in Mach
    BY <2>1, MachFacts
  <2> QED BY <2>1, <2>2 DEF Mc
<1>2. PICK body \in Seq(Instr) : t = Block(<<>>, TRUE, body) /\ Typed(body, <<>>, TRUE, c)
  BY <1>1 DEF WellTyped
<1>3. PICK K : /\ Seg(body, x, x, K) /\ Closed(K, K) /\ Single(K)
               /\ \A f \in K : f.i.op = "label" =>
                    f.i.to \in Seq(Nat) /\ \E k \in Nat : Inside(<<>>, k, f.i.to)
  BY <1>2 DEF Typed
<1>4. Flow(IsaAttr(TRUE), x, x) /\ Flow(Label(<<>>), x, x) /\ Flow(Ins("exit"), x, x)
  <2>1. Flow(IsaAttr(TRUE), x, x) /\ Flow(Label(<<>>), At1(m.arm, m), At1(m.arm, m))
    BY <1>1, FlowThrough
  <2>2. Flow(Ins("exit"), x, x)
    BY <1>1, FlowAway
  <2> QED BY <1>1, <2>1, <2>2
<1>5. /\ IsaAttr(TRUE) \in Instr /\ Label(<<>>) \in Instr /\ Ins("exit") \in Instr
      /\ IsaAttr(TRUE).op = "isa" /\ Label(<<>>).op = "label" /\ Label(<<>>).to = <<>>
      /\ Ins("exit").op = "exit"
  <2>1. /\ IsaAttr(TRUE) \in Instr /\ Label(<<>>) \in Instr /\ Ins("exit") \in Instr
    BY <1>4 DEF Flow
  <2>2. /\ IsaAttr(TRUE).op = "isa" /\ Label(<<>>).op = "label" /\ Label(<<>>).to = <<>>
        /\ Ins("exit").op = "exit"
    BY DEF IsaAttr, Label, Ins
  <2> QED BY <2>1, <2>2
<1>6. x.m = m
  BY DEF At1
<1> HIDE DEF m
<1>7. /\ Piece(<<IsaAttr(TRUE)>>, x, x, {d}) /\ Piece(<<Label(<<>>)>>, x, x, {e})
      /\ Piece(<<Ins("exit")>>, x, x, {z}) /\ Piece(body, x, x, K)
  BY <1>1, <1>3, <1>4, PieceOne DEF Piece
<1> DEFINE v == (<<IsaAttr(TRUE)>> \o <<Label(<<>>)>>) \o body
           u == <<IsaAttr(TRUE)>> \o <<Ins("exit")>>
           w == v \o u
           H == (({d} \cup {e}) \cup K) \cup ({d} \cup {z})
<1>8. d.i.op = "isa" /\ e.i.op = "label" /\ z.i.op = "exit" /\ e.i.to = <<>>
  BY <1>5
<1> HIDE DEF x, d, e, z
<1>9. Piece(w, x, x, H)
  <2>1. Piece(<<IsaAttr(TRUE)>> \o <<Label(<<>>)>>, x, x, {d} \cup {e})
    BY <1>7, PieceTwo
  <2>2. Piece(v, x, x, ({d} \cup {e}) \cup K)
    BY <1>7, <2>1, PieceTwo
  <2>3. Piece(u, x, x, {d} \cup {z})
    BY <1>7, PieceTwo
  <2> HIDE DEF v, u
  <2> QED BY <2>2, <2>3, PieceTwo
<1>10. w = t \o genExitBlock
  <2>1. v = t
    BY <1>1, <1>2, BlockText
  <2>2. u = genExitBlock
    BY <1>5, Pair DEF genExitBlock
  <2> QED BY <2>1, <2>2
<1>11. Len(w) > 0 /\ w[1].op = "isa" /\ w[Len(w)].op = "exit"
  <2> DEFINE h == <<IsaAttr(TRUE)>> \o <<Label(<<>>)>>
  <2>1. PICK i1 \in Instr, i2 \in Instr, i3 \in Instr :
          i1 = IsaAttr(TRUE) /\ i2 = Label(<<>>) /\ i3 = Ins("exit")
    BY <1>5
  <2>2. Len(w) > 0 /\ w[1] = i1 /\ w[Len(w)] = i3
    <3>1. w = ((<<i1>> \o <<i2>>) \o body) \o (<<i1>> \o <<i3>>)
      BY <2>1
    <3> HIDE DEF w
    <3> QED BY <3>1, Framed
  <2> QED BY <1>5, <2>1, <2>2
<1> HIDE DEF w
<1>12. \A f \in H : f.i.op \in Jumps => Finds(f, H)
  <2>1. \A f \in H : f.i.op \in Jumps => f \in K
    BY <1>8 DEF Jumps
  <2>2. \A f \in K : f.i.op \in Jumps => Finds(f, K)
    BY <1>3 DEF Closed
  <2>3. \A f : Finds(f, K) => Finds(f, H)
    BY DEF Finds
  <2> HIDE DEF H
  <2> QED BY <2>1, <2>2, <2>3
<1>13. \A f, g \in H : f.i.op = "label" /\ g.i.op = "label" /\ f.i.to = g.i.to => f.m = g.m
  <2>1. \A f \in H : f.i.op = "label" => f \in K \/ f = e
    BY <1>8
  <2>2. \A f \in K : f.i.op = "label" => f.i.to # <<>>
    <3>1. \A b, k : Inside(<<>>, k, b) => Len(b) > 0
      BY DEF Inside
    <3> QED BY <1>3, <3>1
  <2>3. \A f, g \in K : f.i.op = "label" /\ g.i.op = "label" /\ f.i.to = g.i.to => f.m = g.m
    BY <1>3 DEF Single
  <2> HIDE DEF H
  <2> QED BY <1>8, <2>1, <2>2, <2>3
<1> HIDE DEF H
<1>14. PICK A : Runs(w, A) /\ A[1] = x /\ H = Marks(w, A)
  BY <1>9 DEF Piece, Seg
<1>15. ASSUME NEW p \in 1 .. Len(w), w[p].op \in Jumps
       PROVE  /\ \E q \in 1 .. Len(w) : w[q].op = "label" /\ w[q].to = w[p].to
              /\ \A q \in 1 .. Len(w) :
                   w[q].op = "label" /\ w[q].to = w[p].to => Ref(w[p], A[p].m, A[q].m)
  <2> DEFINE M(q) == [i |-> w[q], m |-> A[q].m]
  <2>1. \A q \in 1 .. Len(w) : M(q) \in H /\ M(q).i = w[q] /\ M(q).m = A[q].m
    BY <1>14 DEF Marks
  <2>2. \A f \in H : \E q \in 1 .. Len(w) : f = M(q)
    BY <1>14 DEF Marks
  <2> HIDE DEF M
  <2>3. Finds(M(p), H)
    BY <1>12, <1>15, <2>1
  <2>4. PICK f \in H : f.i.op = "label" /\ f.i.to = w[p].to /\ Ref(w[p], A[p].m, f.m)
    BY <2>1, <2>3 DEF Finds
  <2>5. PICK q \in 1 .. Len(w) : f = M(q)
    BY <2>2
  <2>6. w[q].op = "label" /\ w[q].to = w[p].to
    BY <2>1, <2>4, <2>5
  <2>7. ASSUME NEW r \in 1 .. Len(w), w[r].op = "label" /\ w[r].to = w[p].to
        PROVE  Ref(w[p], A[p].m, A[r].m)
    <3>1. M(r) \in H /\ M(r).i.op = "label" /\ M(r).i.to = f.i.to /\ M(r).m = A[r].m
      BY <2>1, <2>4, <2>7
    <3>2. f.m = A[r].m
      BY <1>13, <2>4, <3>1
    <3> QED BY <2>4, <3>2
  <2> QED BY <2>6, <2>7
<1>16. w \in Seq(Instr)
  BY <1>9 DEF Piece
<1>17. Sound(w, A)
  BY <1>6, <1>11, <1>14, <1>15, <1>16 DEF Sound, m
<1> QED BY <1>10, <1>17

\* The activations below the innermost one.
LEMMA PopTyped ==
  ASSUME NEW st \in Seq(Frame), st # <<>>, TypedStack(st)
  PROVE  LET rest == SubSeq(st, 1, Len(st) - 1)
         IN  /\ TypedStack(rest)
             /\ rest = <<>> => st[Len(st)].label = <<>>
             /\ rest # <<>> => st[Len(st)].label
                                 = Part(rest[Len(rest)], Len(rest[Len(rest)].subs) + 1)
<1> DEFINE rest == SubSeq(st, 1, Len(st) - 1)
<1>1. Len(st) \in Nat \ {0}
  OBVIOUS
<1>2. /\ rest \in Seq(Frame) /\ Len(rest) = Len(st) - 1
      /\ \A i \in 1 .. Len(rest) : rest[i] = st[i]
  <2> DEFINE n == Len(st) - 1
  <2>1. n \in Nat /\ 1 \in Int /\ \A i \in 1 .. n : st[i] \in Frame
    BY <1>1
  <2>2. /\ rest \in Seq(Frame) /\ Len(rest) = IF 1 <= n THEN n - 1 + 1 ELSE 0
        /\ \A i \in 1 .. (n - 1 + 1) : rest[i] = st[1 + i - 1]
    BY <2>1, SubSeqProperties
  <2> HIDE DEF rest, n
  <2>3. Len(rest) = n /\ \A i \in 1 .. n : rest[i] = st[i]
    BY <2>1, <2>2
  <2> QED BY <2>2, <2>3 DEF n
<1> HIDE DEF rest
<1>3. \A i \in 1 .. Len(rest) : i \in 1 .. Len(st) /\ i \in 1 .. (Len(st) - 1)
  BY <1>1, <1>2
<1>4. ASSUME NEW i \in 1 .. Len(rest), NEW k \in 1 .. Len(rest[i].subs)
      PROVE  WellTyped(rest[i].subs[k], Part(rest[i], k), PartIsa(rest[i], k), Nest - i)
  BY <1>2, <1>3 DEF TypedStack
<1>5. rest # <<>> => rest[1].label = <<>>
  <2>1. rest # <<>> => 1 \in 1 .. Len(rest)
    BY <1>2
  <2> QED BY <1>2, <2>1 DEF TypedStack
<1>6. \A i \in 1 .. Len(rest) : st[i + 1].label = Part(rest[i], Len(rest[i].subs) + 1)
  BY <1>2, <1>3 DEF TypedStack
<1>7. \A i \in 1 .. (Len(rest) - 1) : rest[i + 1].label = Part(rest[i], Len(rest[i].subs) + 1)
  <2>1. ASSUME NEW i \in 1 .. (Len(rest) - 1)
        PROVE  i \in 1 .. Len(rest) /\ rest[i + 1] = st[i + 1]
    BY <1>2
  <2> QED BY <1>6, <2>1
<1>8. TypedStack(rest)
  BY <1>4, <1>5, <1>7 DEF TypedStack
<1>9. rest = <<>> => st[Len(st)].label = <<>>
  <2>1. rest = <<>> => Len(st) = 1
    BY <1>1, <1>2
  <2> QED BY <2>1 DEF TypedStack
<1>10. rest # <<>> => st[Len(st)].label = Part(rest[Len(rest)], Len(rest[Len(rest)].subs) + 1)
  <2>1. rest # <<>> => Len(rest) \in 1 .. Len(rest) /\ Len(rest) + 1 = Len(st)
    BY <1>1, <1>2
  <2> QED BY <1>6, <2>1
<1> QED BY <1>8, <1>9, <1>10 DEF rest

\* A basic block is typed.
LEMMA BasicTypes == ASSUME IndInv, TypedInv, BasicRBlock PROVE TypedInv'
<1> DEFINE t == Block(NextLabel, NextArm, <<Ins("basic")>>)
<1>1. Making /\ phase = "make" /\ StackOK(stack) /\ TypedStack(stack) /\ Return(stack, NextArm, t)
  BY DEF BasicRBlock, Making, IndInv, TypedInv
<1>2. /\ NextLabel \in Seq(Nat) /\ NextArm \in BOOLEAN
      /\ NextArm = IF stack = <<>> THEN TRUE ELSE PartArm(stack[Len(stack)])
      /\ nest = Nest - Len(stack) /\ nest \in 0 .. Nest
  BY <1>1, NextFacts DEF Top, NextArm, IndInv, GenTypeOK
<1>3. /\ stack = <<>> => NextLabel = <<>>
      /\ stack # <<>> => NextLabel = Part(stack[Len(stack)], Len(stack[Len(stack)].subs) + 1)
  BY DEF NextLabel, Top
<1>4. WellTyped(t, NextLabel, NextArm, nest)
  <2>1. nest \in 0 .. 8
    BY <1>2, NestAssumption
  <2> QED BY <1>2, <2>1, BasicTyped, Zenon
<1>5. t \in Seq(Instr)
  <2>1. IsaAttr(NextArm) \in Instr /\ Label(NextLabel) \in Instr /\ Ins("basic") \in Instr
    BY <1>2 DEF IsaAttr, Label, Ins, Instr
  <2> QED BY <2>1 DEF Block
<1> HIDE DEF t
<1>6. WellTyped(t, NextLabel, NextArm, Nest - Len(stack))
  BY <1>2, <1>4
<1> QED BY <1>1, <1>2, <1>3, <1>5, <1>6, ReturnTyped

\* A block with parts has none of them yet.
LEMMA StartTypes ==
  ASSUME IndInv, TypedInv, NEW kind \in Compound, StartBlock(kind) PROVE TypedInv'
<1>1. /\ Making /\ phase = "make" /\ stack \in Seq(Frame) /\ TypedStack(stack)
      /\ phase' = phase
  BY DEF StartBlock, Making, IndInv, GenTypeOK, TypedInv
<1>2. PICK g : /\ stack' = Append(stack, g)
               /\ g.subs = <<>> /\ g.label = NextLabel
  BY DEF StartBlock
<1> DEFINE new == Append(stack, g)
           n == Len(stack)
<1>3. /\ n \in Nat /\ Len(new) = n + 1 /\ new[n + 1] = g
      /\ \A i \in 1 .. n : new[i] = stack[i]
  BY <1>1
<1> HIDE DEF new
<1>4. \A i \in 1 .. (n + 1) : i \in 1 .. n \/ i = n + 1
  BY <1>3
<1>5. ASSUME NEW i \in 1 .. Len(new), NEW k \in 1 .. Len(new[i].subs)
      PROVE  WellTyped(new[i].subs[k], Part(new[i], k), PartIsa(new[i], k), Nest - i)
  <2>1. CASE i \in 1 .. n
    BY <1>1, <1>3, <2>1 DEF TypedStack
  <2>2. CASE i = n + 1
    BY <1>2, <1>3, <2>2
  <2> QED BY <1>3, <1>4, <2>1, <2>2
<1>6. new[1].label = <<>>
  <2>1. CASE n = 0
    BY <1>1, <1>2, <1>3, <2>1 DEF NextLabel
  <2>2. CASE n # 0
    BY <1>1, <1>3, <2>2 DEF TypedStack
  <2> QED BY <2>1, <2>2
<1>7. ASSUME NEW i \in 1 .. (Len(new) - 1)
      PROVE  new[i + 1].label = Part(new[i], Len(new[i].subs) + 1)
  <2>1. i \in 1 .. n
    BY <1>3
  <2>2. CASE i = n
    <3>1. stack # <<>> /\ new[i] = stack[n] /\ new[i + 1] = g
      BY <1>3, <2>1, <2>2
    <3> QED BY <1>2, <3>1 DEF NextLabel, Top
  <2>3. CASE i # n
    <3>1. i \in 1 .. (Len(stack) - 1) /\ new[i] = stack[i] /\ new[i + 1] = stack[i + 1]
      BY <1>3, <2>1, <2>3
    <3> QED BY <1>1, <3>1 DEF TypedStack
  <2> QED BY <2>2, <2>3
<1>8. TypedStack(new)
  BY <1>5, <1>6, <1>7 DEF TypedStack
<1> QED BY <1>1, <1>2, <1>8 DEF TypedInv, new

\* A block with typed parts is typed.
LEMMA EndTypes == ASSUME IndInv, TypedInv, EndBlock PROVE TypedInv'
<1>1. /\ phase = "make" /\ stack # <<>> /\ StackOK(stack) /\ stack \in Seq(Frame)
      /\ TypedStack(stack) /\ Len(Top.subs) = Parts(Top.kind)
  BY DEF EndBlock, IndInv, GenTypeOK, TypedInv
<1>2. CASE ShortPart \subseteq bb
  <2> DEFINE rest == SubSeq(stack, 1, Len(stack) - 1)
             t == Block(Top.label, Top.arm, Body(Top))
  <2>1. Return(rest, arm, t)
    BY <1>2 DEF EndBlock
  <2>2. /\ StackOK(rest) /\ Len(rest) = Len(stack) - 1
        /\ rest = <<>> => Top.arm = TRUE
        /\ rest # <<>> => Top.arm = PartArm(rest[Len(rest)])
    BY <1>1, PopOK DEF Top
  <2>3. /\ TypedStack(rest)
        /\ rest = <<>> => Top.label = <<>>
        /\ rest # <<>> => Top.label = Part(rest[Len(rest)], Len(rest[Len(rest)].subs) + 1)
    BY <1>1, PopTyped DEF Top
  <2>4. /\ Len(stack) \in 1 .. Nest /\ Top \in Frame /\ FrameOK(Top, Len(stack))
        /\ nest = Nest - Len(stack) /\ arm = Top.arm /\ arm \in BOOLEAN
        /\ Top = stack[Len(stack)]
    BY <1>1, TopFacts DEF IndInv, GenTypeOK, ContextKept, Top
  <2>5. nest \in 0 .. 7 /\ nest + 1 = Nest - Len(rest) /\ nest + 1 \in 0 .. 8
    <3> HIDE DEF rest
    <3> QED BY <2>2, <2>4, NestAssumption
  <2>6. \A k \in 1 .. Len(Top.subs) :
          Top.subs[k] \in Seq(Below(nest)) /\ Len(Top.subs[k]) >= 2
    BY <2>4 DEF FrameOK
  <2>7. Ready(Top, nest)
    <3>1. \A k \in 1 .. Len(Top.subs) :
            WellTyped(Top.subs[k], Part(Top, k), PartIsa(Top, k), nest)
      <4>1. Len(stack) \in 1 .. Len(stack)
        BY <2>4, NestAssumption
      <4> QED BY <1>1, <2>4, <4>1 DEF TypedStack
    <3> QED BY <1>1, <2>4, <2>5, <3>1 DEF Ready
  <2>8. WellTyped(t, Top.label, Top.arm, nest + 1)
    BY <2>4, <2>6, <2>7, BodyTyped
  <2>9. t \in Seq(Instr)
    <3>1. Body(Top) \in Seq(Below(nest + 1))
      BY <1>1, <2>4, <2>5, <2>6, BodyBelow
    <3>2. Top.label \in Seq(Nat) /\ Top.arm \in BOOLEAN
      BY <2>4 DEF Frame
    <3>3. t \in Seq(Below(nest + 1))
      BY <2>5, <3>1, <3>2, BlockBelow, Zenon
    <3> QED BY <3>3 DEF Below
  <2> HIDE DEF rest, t
  <2>10. WellTyped(t, Top.label, Top.arm, Nest - Len(rest))
    BY <2>5, <2>8
  <2> QED BY <1>1, <2>1, <2>2, <2>3, <2>9, <2>10, ReturnTyped
<1>3. CASE ~(ShortPart \subseteq bb)
  <2>1. phase' = "KeyError" /\ stack' = stack
    BY <1>3 DEF EndBlock
  <2> QED BY <1>1, <2>1 DEF TypedInv
<1> QED BY <1>2, <1>3

\* Every step of the generator keeps the typing.
LEMMA NextTypes == ASSUME IndInv, TypedInv, [Make]_genVars PROVE TypedInv'
<1>1. CASE BasicRBlock
  BY <1>1, BasicTypes
<1>2. ASSUME NEW kind \in Compound, StartBlock(kind) PROVE TypedInv'
  BY <1>2, StartTypes
<1>3. CASE EndBlock
  BY <1>3, EndTypes
<1>4. CASE genTest
  <2>1. phase = "fill" /\ stack' = stack /\ TypedStack(stack) /\ WellTyped(text, <<>>, TRUE, Nest)
    BY <1>4 DEF genTest, TypedInv
  <2>2. phase' \in {"written", "ValueError"} /\ (phase' = "written" => text' = text \o genExitBlock)
    BY <1>4 DEF genTest
  <2>3. \E A : Sound(text \o genExitBlock, A)
    BY <2>1, WrittenSound
  <2> QED BY <2>1, <2>2, <2>3 DEF TypedInv
<1>5. CASE UNCHANGED genVars
  BY <1>5 DEF genVars, TypedInv
<1> QED BY <1>1, <1>2, <1>3, <1>4, <1>5 DEF Make

\* The generator starts without activations.
LEMMA InitTypes == ASSUME GenInit PROVE TypedInv
BY DEF GenInit, TypedInv, TypedStack

-----------------------------------------------------------------------------
(***************************************************************************)
(* The processor.  Wherever it is in a sound program, its state is the one *)
(* the annotation of the position says.                                    *)
(***************************************************************************)

\* w is an address to return to, in the first i - 1 of the callees c.
Back(t, A, c, i, w) ==
  \E p \in 1 .. Len(t) :
    /\ t[p].op \notin Directives
    /\ w = Address(p, A[p].m.arm) /\ Plain(A[p].m)
    /\ Len(A[p].m.ctx) = i - 1 /\ \A j \in 1 .. (i - 1) : A[p].m.ctx[j] = c[j]

\* What is left of the address and the tries of an exclusive sequence.
ExclOK(e, x) ==
  /\ x \in [addr : BOOLEAN, cnt : 0 .. EXCL_CNT, load : BOOLEAN, store : BOOLEAN]
  /\ e = "none" => ~x.addr /\ x.cnt = EXCL_CNT
  /\ e = "try" => ~x.addr /\ x.cnt > 0
  /\ e = "got" => x.cnt > 0
  /\ e = "end" => ~x.addr

\* lr, cfgdata, excl and the calls under way are as m says.
Holds(t, A, m, l, cfg, x, cl) ==
  /\ Len(cl) = Len(m.ctx)
  /\ \A i \in 1 .. Len(cl) :
       /\ Back(t, A, m.ctx, i, cl[i])
       /\ IF m.fresh /\ i = Len(cl) THEN l = cl[i] ELSE cfg[m.ctx[i]] = cl[i]
  /\ ExclOK(m.ex, x)

\* The processor is at position q.
Reached(t, A, q, is, l, cfg, x, cl) ==
  /\ q \in 1 .. Len(t) /\ t[q].op \notin Directives
  /\ is = A[q].m.arm
  /\ Holds(t, A, A[q].m, l, cfg, x, cl)

\* What the parts of the state may be.
WordTypes == lr \in Nat /\ cfgdata \in [0 .. 15 -> Nat] /\ calls \in Seq(Nat)

RunInv ==
  /\ WordTypes /\ pc \in Nat
  /\ phase # "written" => pc = 0
  /\ pc = 0 => isa = TRUE /\ calls = <<>> /\ ExclOK("none", excl)
  /\ pc > 0 => \E A : Sound(text, A) /\ Reached(text, A, pc, isa, lr, cfgdata, excl, calls)

-----------------------------------------------------------------------------
\* The annotations of a sound program.
LEMMA SoundFacts ==
  ASSUME NEW A, Sound(text, A)
  PROVE  /\ text \in Seq(Instr) /\ Len(text) \in Nat \ {0} /\ 1 \in 1 .. Len(text)
         /\ text[1].op = "isa" /\ text[Len(text)].op = "exit" /\ A[1].m = Mc(TRUE, <<>>)
         /\ \A p \in 1 .. Len(text) : /\ text[p] \in Instr /\ A[p] \in Ann
                                      /\ A[p].m \in Mach /\ A[p].cur \in BOOLEAN
                                      /\ A[p + 1] \in Ann
                                      /\ Flow(text[p], A[p], A[p + 1])
<1>1. /\ text \in Seq(Instr) /\ Runs(text, A) /\ Len(text) > 0
      /\ text[1].op = "isa" /\ text[Len(text)].op = "exit" /\ A[1].m = Mc(TRUE, <<>>)
  BY DEF Sound
<1>2. Len(text) \in Nat \ {0} /\ 1 \in 1 .. Len(text)
  BY <1>1
<1>3. /\ A \in Seq(Ann) /\ Len(A) = Len(text) + 1
      /\ \A p \in 1 .. Len(text) : Flow(text[p], A[p], A[p + 1])
  BY <1>1 DEF Runs
<1>4. ASSUME NEW p \in 1 .. Len(text) PROVE A[p] \in Ann /\ A[p + 1] \in Ann /\ text[p] \in Instr
  <2>1. p \in 1 .. Len(A) /\ p + 1 \in 1 .. Len(A)
    BY <1>2, <1>3
  <2> QED BY <1>1, <1>3, <2>1
<1>5. \A x \in Ann : x.m \in Mach /\ x.cur \in BOOLEAN
  BY DEF Ann
<1> QED BY <1>1, <1>2, <1>3, <1>4, <1>5

\* The processor comes to the next instruction with the same annotation.
LEMMA AtFacts ==
  ASSUME NEW A, Sound(text, A), NEW p \in 1 .. Len(text)
  PROVE  /\ At(p) \in 1 .. Len(text) /\ text[At(p)].op \notin Directives
         /\ A[At(p)].m = A[p].m
<1> DEFINE n == Len(text)
           S == {q \in p .. n : text[q].op \notin Directives}
<1>1. n \in Nat /\ n \in p .. n /\ text[n].op \notin Directives /\ p \in Nat \ {0}
  <2>1. n \in Nat /\ text[n].op = "exit"
    BY SoundFacts, Zenon
  <2> QED BY <2>1 DEF Directives
<1>2. S \subseteq Nat /\ S # {}
  BY <1>1
<1>3. PICK q \in S : \A k \in S : q <= k
  BY <1>2, Least
<1>4. q \in p .. n /\ text[q].op \notin Directives /\ \A r \in p .. (q - 1) : text[r].op \in Directives
  BY <1>1, <1>3
<1> DEFINE a == At(p)
<1>5. a \in p .. n /\ text[a].op \notin Directives /\ \A r \in p .. (a - 1) : text[r].op \in Directives
  BY <1>4 DEF At
<1> HIDE DEF a, S
<1>6. A[a].m = A[p].m
  <2> SUFFICES ASSUME A[a].m # A[p].m PROVE FALSE
    OBVIOUS
  <2> DEFINE D == {r \in p .. a : A[r].m # A[p].m}
  <2>1. D \subseteq Nat /\ D # {}
    BY <1>1, <1>5
  <2>2. PICK r \in D : \A k \in D : r <= k
    BY <2>1, Least
  <2>3. r \in p .. a /\ A[r].m # A[p].m /\ r # p
    BY <2>2
  <2>4. r - 1 \in p .. (a - 1) /\ r - 1 \in p .. a /\ r - 1 \in 1 .. n /\ (r - 1) + 1 = r
        /\ ~(r <= r - 1)
    BY <1>1, <1>5, <2>3
  <2>5. A[r - 1].m = A[p].m
    BY <2>2, <2>4
  <2>6. text[r - 1].op \in {"isa", "label"}
    BY <1>5, <2>4 DEF Directives
  <2>7. Flow(text[r - 1], A[r - 1], A[r])
    BY <2>4, SoundFacts
  <2>8. A[r].m = A[r - 1].m
    BY <2>6, <2>7 DEF Flow
  <2> QED BY <2>3, <2>5, <2>8
<1>7. a \in 1 .. n
  BY <1>1, <1>5
<1> QED BY <1>5, <1>6, <1>7 DEF a

\* An instruction was assembled for the instruction set of its annotation.
LEMMA AssembledFacts ==
  ASSUME NEW A, Sound(text, A), NEW p \in 1 .. Len(text), text[p].op \notin Directives
  PROVE  Assembled(p) = A[p].m.arm
<1> DEFINE isas == {q \in 1 .. p : text[q].op = "isa"}
           S == {p - q : q \in isas}
<1>1. p \in Nat \ {0} /\ 1 \in isas /\ Len(text) \in Nat
  <2>1. Len(text) \in Nat /\ text[1].op = "isa"
    BY SoundFacts, Zenon
  <2> QED BY <2>1
<1>2. S \subseteq Nat /\ S # {}
  BY <1>1
<1>3. PICK s \in S : \A k \in S : s <= k
  BY <1>2, Least
<1>4. PICK q0 \in isas : s = p - q0
  BY <1>3
<1>5. \A r \in isas : r <= q0
  <2>1. ASSUME NEW r \in isas PROVE r <= q0
    <3>1. p - r \in S
      OBVIOUS
    <3>2. p - q0 <= p - r
      BY <1>3, <1>4, <3>1
    <3> QED BY <1>1, <3>2
  <2> QED BY <2>1
<1> DEFINE q == CHOOSE q \in isas : \A r \in isas : r <= q
<1>6. q \in isas /\ \A r \in isas : r <= q
  BY <1>4, <1>5
<1>7. Assembled(p) = text[q].arm
  BY DEF Assembled
<1> HIDE DEF q
<1>8. /\ q \in 1 .. p /\ text[q].op = "isa" /\ q \in 1 .. Len(text) /\ q # p
      /\ \A r \in (q + 1) .. p : text[r].op # "isa"
  <2>1. q \in 1 .. p /\ text[q].op = "isa" /\ q # p
    BY <1>6 DEF Directives
  <2>2. ASSUME NEW r \in (q + 1) .. p PROVE text[r].op # "isa"
    <3>1. r \in 1 .. p /\ ~(r <= q)
      BY <1>1, <2>1
    <3> QED BY <1>6, <3>1
  <2> QED BY <1>1, <2>1, <2>2
<1> HIDE DEF isas, S
<1>9. A[q + 1].cur = text[q].arm
  <2>1. Flow(text[q], A[q], A[q + 1])
    BY <1>8, SoundFacts
  <2> QED BY <1>8, <2>1 DEF Flow
<1>10. A[p].cur = text[q].arm
  <2> SUFFICES ASSUME A[p].cur # text[q].arm PROVE FALSE
    OBVIOUS
  <2> DEFINE D == {r \in (q + 1) .. p : A[r].cur # text[q].arm}
  <2>1. D \subseteq Nat /\ D # {}
    BY <1>1, <1>8
  <2>2. PICK r \in D : \A k \in D : r <= k
    BY <2>1, Least
  <2>3. r \in (q + 1) .. p /\ A[r].cur # text[q].arm /\ r # q + 1
    BY <1>9, <2>2
  <2>4. r - 1 \in (q + 1) .. p /\ r - 1 \in 1 .. Len(text) /\ (r - 1) + 1 = r /\ ~(r <= r - 1)
    BY <1>1, <1>8, <2>3
  <2>5. A[r - 1].cur = text[q].arm
    BY <2>2, <2>4
  <2>6. Flow(text[r - 1], A[r - 1], A[r]) /\ text[r - 1].op # "isa"
    BY <1>8, <2>4, SoundFacts
  <2>7. A[r].cur = A[r - 1].cur
    BY <2>6 DEF Flow
  <2> QED BY <2>3, <2>5, <2>7
<1>11. A[p].cur = A[p].m.arm
  <2>1. Flow(text[p], A[p], A[p + 1])
    BY SoundFacts
  <2> QED BY <2>1 DEF Flow, Directives
<1> QED BY <1>7, <1>10, <1>11

\* The processor arrives at position p, or at the instruction after it.
LEMMA Arrive ==
  ASSUME NEW A, Sound(text, A), NEW p \in 1 .. Len(text), NEW is, is = A[p].m.arm,
         NEW l, NEW cfg, NEW x, NEW cl, Holds(text, A, A[p].m, l, cfg, x, cl)
  PROVE  Reached(text, A, At(p), is, l, cfg, x, cl)
BY AtFacts DEF Reached

\* The target of a jump.
LEMMA TargetFacts ==
  ASSUME NEW A, Sound(text, A), NEW p \in 1 .. Len(text), text[p].op \in Jumps
  PROVE  \E q \in 1 .. Len(text) : Target(text[p].to) = At(q) /\ Ref(text[p], A[p].m, A[q].m)
<1> DEFINE L(q) == text[q].op = "label" /\ text[q].to = text[p].to
           q == CHOOSE q \in 1 .. Len(text) : L(q)
<1>1. /\ \E r \in 1 .. Len(text) : L(r)
      /\ \A r \in 1 .. Len(text) : L(r) => Ref(text[p], A[p].m, A[r].m)
  BY DEF Sound
<1> HIDE DEF L
<1>2. q \in 1 .. Len(text) /\ L(q)
  BY <1>1
<1>3. Ref(text[p], A[p].m, A[q].m)
  BY <1>1, <1>2
<1>4. Target(text[p].to) = At(q)
  BY DEF Target, L
<1> QED BY <1>2, <1>3, <1>4

\* Where the processor is, and what its state says.
LEMMA HereFacts ==
  ASSUME NEW A, Sound(text, A), Reached(text, A, pc, isa, lr, cfgdata, excl, calls)
  PROVE  /\ pc \in 1 .. Len(text) /\ Cur \in Instr /\ Cur = text[pc]
         /\ A[pc].m \in Mach /\ isa = A[pc].m.arm
         /\ Flow(Cur, A[pc], A[pc + 1])
         /\ Holds(text, A, A[pc].m, lr, cfgdata, excl, calls)
         /\ Cur.op # "exit" => pc + 1 \in 1 .. Len(text)
<1>1. /\ pc \in 1 .. Len(text) /\ isa = A[pc].m.arm
      /\ Holds(text, A, A[pc].m, lr, cfgdata, excl, calls)
  BY DEF Reached
<1>2. /\ Cur \in Instr /\ Cur = text[pc] /\ A[pc].m \in Mach
      /\ Flow(Cur, A[pc], A[pc + 1])
  BY <1>1, SoundFacts DEF Cur
<1>3. Len(text) \in Nat /\ text[Len(text)].op = "exit"
  BY SoundFacts, Zenon
<1>4. Cur.op # "exit" => pc # Len(text)
  BY <1>3 DEF Cur
<1>5. Cur.op # "exit" => pc + 1 \in 1 .. Len(text)
  BY <1>1, <1>3, <1>4
<1> QED BY <1>1, <1>2, <1>5

\* The state after the instruction is the one the next position says, and the
\* processor goes on there.
LEMMA GoOn ==
  ASSUME NEW A, Sound(text, A), Reached(text, A, pc, isa, lr, cfgdata, excl, calls),
         Cur.op # "exit", NEW is, is = A[pc + 1].m.arm,
         NEW l, NEW cfg, NEW x, NEW cl, Holds(text, A, A[pc + 1].m, l, cfg, x, cl)
  PROVE  Reached(text, A, Following, is, l, cfg, x, cl)
<1>1. pc + 1 \in 1 .. Len(text)
  BY HereFacts
<1> QED BY <1>1, Arrive DEF Following

\* Outside of the entry of a callee, the state does not depend on lr.
LEMMA AnyLr ==
  ASSUME NEW A, NEW m, NEW l, NEW k, NEW x, NEW cfg, NEW cl, ~m.fresh,
         Holds(text, A, m, l, cfg, x, cl)
  PROVE  Holds(text, A, m, k, cfg, x, cl)
BY DEF Holds

\* Random instructions and writes of pc.
LEMMA BasicRuns ==
  ASSUME NEW A, Sound(text, A), Reached(text, A, pc, isa, lr, cfgdata, excl, calls),
         Basic \/ AluWritePC
  PROVE  Reached(text, A, pc', isa', lr', cfgdata', excl', calls')
<1>1. /\ Cur.op \in {"basic", "aluwpc"} /\ pc' = Following /\ isa' = isa
      /\ cfgdata' = cfgdata /\ excl' = excl /\ calls' = calls
  BY DEF Basic, AluWritePC, Running
<1>2. A[pc + 1].m = A[pc].m /\ ~A[pc].m.fresh
  BY <1>1, HereFacts DEF Flow, Plain
<1>3. Holds(text, A, A[pc + 1].m, lr', cfgdata, excl, calls) /\ isa = A[pc + 1].m.arm
  BY <1>2, HereFacts, AnyLr
<1> QED BY <1>1, <1>3, GoOn

\* Branches.
LEMMA BranchRuns ==
  ASSUME NEW A, Sound(text, A), Reached(text, A, pc, isa, lr, cfgdata, excl, calls),
         Branch
  PROVE  Reached(text, A, pc', isa', lr', cfgdata', excl', calls')
<1>1. /\ Cur.op = "b" /\ isa' = isa /\ lr' = lr
      /\ cfgdata' = cfgdata /\ excl' = excl /\ calls' = calls
      /\ pc' = Target(Cur.to) \/ (Cur.cond /\ pc' = Following)
  BY DEF Branch, Running
<1>2. CASE pc' = Target(Cur.to)
  <2>1. pc \in 1 .. Len(text) /\ text[pc].op \in Jumps /\ Cur = text[pc]
    BY <1>1, HereFacts DEF Jumps
  <2>2. PICK q \in 1 .. Len(text) : Target(Cur.to) = At(q) /\ Ref(Cur, A[pc].m, A[q].m)
    BY <2>1, TargetFacts
  <2>3. A[q].m = A[pc].m
    BY <1>1, <2>2 DEF Ref
  <2>4. Holds(text, A, A[q].m, lr, cfgdata, excl, calls) /\ isa = A[q].m.arm
    BY <2>3, HereFacts
  <2> QED BY <1>1, <1>2, <2>2, <2>4, Arrive
<1>3. CASE Cur.cond /\ pc' = Following
  <2>1. A[pc + 1].m = A[pc].m
    BY <1>1, <1>3, HereFacts DEF Flow
  <2>2. Holds(text, A, A[pc + 1].m, lr, cfgdata, excl, calls) /\ isa = A[pc + 1].m.arm
    BY <2>1, HereFacts
  <2> QED BY <1>1, <1>3, <2>2, GoOn
<1> QED BY <1>1, <1>2, <1>3

\* Branches to the other instruction set.
LEMMA ExchangeRuns ==
  ASSUME NEW A, Sound(text, A), Reached(text, A, pc, isa, lr, cfgdata, excl, calls),
         BranchExchange
  PROVE  Reached(text, A, pc', isa', lr', cfgdata', excl', calls')
<1>1. /\ Cur.op = "bx" /\ cfgdata' = cfgdata /\ excl' = excl /\ calls' = calls
      /\ \/ pc' = Target(Cur.to) /\ isa' = Cur.arm
         \/ Cur.cond /\ pc' = Following /\ isa' = isa
  BY DEF BranchExchange, Running
<1>2. ~A[pc].m.fresh /\ A[pc].m.ex = "none" /\ Holds(text, A, A[pc].m, lr', cfgdata, excl, calls)
  <2>1. ~A[pc].m.fresh /\ A[pc].m.ex = "none"
    BY <1>1, HereFacts DEF Flow, Plain
  <2> QED BY <2>1, HereFacts, AnyLr
<1>3. CASE pc' = Target(Cur.to) /\ isa' = Cur.arm
  <2>1. pc \in 1 .. Len(text) /\ text[pc].op \in Jumps /\ Cur = text[pc]
    BY <1>1, HereFacts DEF Jumps
  <2>2. PICK q \in 1 .. Len(text) : Target(Cur.to) = At(q) /\ Ref(Cur, A[pc].m, A[q].m)
    BY <2>1, TargetFacts
  <2>3. A[q].m = Mc(Cur.arm, A[pc].m.ctx)
    BY <1>1, <2>2 DEF Ref
  <2>4. /\ A[q].m.arm = Cur.arm /\ A[q].m.ctx = A[pc].m.ctx
        /\ A[q].m.fresh = FALSE /\ A[q].m.ex = "none"
    BY <2>3 DEF Mc
  <2>5. Holds(text, A, A[q].m, lr', cfgdata, excl, calls)
    BY <1>2, <2>4 DEF Holds
  <2> QED BY <1>1, <1>3, <2>2, <2>4, <2>5, Arrive
<1>4. CASE Cur.cond /\ pc' = Following /\ isa' = isa
  <2>1. A[pc + 1].m = A[pc].m
    BY <1>1, <1>4, HereFacts DEF Flow
  <2>2. Holds(text, A, A[pc + 1].m, lr', cfgdata, excl, calls) /\ isa = A[pc + 1].m.arm
    BY <1>2, <2>1, HereFacts
  <2> QED BY <1>1, <1>4, <2>2, GoOn
<1> QED BY <1>1, <1>3, <1>4

\* The words of the callees: different ones of the first half of cfgdata.
LEMMA CalleeWords ==
  ASSUME NEW m \in Mach
  PROVE  /\ m.ctx \in Seq(0 .. 7) /\ Len(m.ctx) \in Nat
         /\ \A i \in 1 .. Len(m.ctx) : m.ctx[i] \in 0 .. 7
         /\ \A i, j \in 1 .. Len(m.ctx) : m.ctx[i] = m.ctx[j] => i = j
<1>1. m.ctx \in Seq(0 .. 7) /\ \A i, j \in 1 .. Len(m.ctx) : m.ctx[i] = m.ctx[j] => i = j
  BY DEF Mach, Ctx
<1> QED BY <1>1

\* A loop counts in the second half.
LEMMA LoopRuns ==
  ASSUME NEW A, Sound(text, A), Reached(text, A, pc, isa, lr, cfgdata, excl, calls),
         WordTypes, Loop
  PROVE  Reached(text, A, pc', isa', lr', cfgdata', excl', calls') /\ WordTypes'
<1>1. /\ Cur.op = "loop" /\ isa' = isa /\ lr' = lr /\ excl' = excl /\ calls' = calls
      /\ cfgdata' = [cfgdata EXCEPT ![Cur.slot] = @ + Cur.inc]
      /\ pc' = Target(Cur.to) \/ pc' = Following
  BY DEF Loop, Running
<1>2. Cur.slot \in 8 .. 15 /\ Cur.inc \in Nat
  <2>1. Cur \in Instr
    BY HereFacts
  <2> QED BY <1>1, <2>1 DEF Instr
<1>3. /\ cfgdata' \in [0 .. 15 -> Nat]
      /\ \A w \in 0 .. 7 : cfgdata'[w] = cfgdata[w]
  <2>1. cfgdata \in [0 .. 15 -> Nat] /\ Cur.slot \in 0 .. 15
    <3>1. cfgdata \in [0 .. 15 -> Nat]
      BY DEF WordTypes
    <3> QED BY <1>2, <3>1
  <2>2. cfgdata[Cur.slot] + Cur.inc \in Nat
    BY <1>2, <2>1
  <2> QED BY <1>1, <1>2, <2>1, <2>2
<1>4. WordTypes'
  BY <1>1, <1>3 DEF WordTypes
<1>5. Holds(text, A, A[pc].m, lr, cfgdata', excl, calls)
  <2>1. A[pc].m \in Mach /\ Holds(text, A, A[pc].m, lr, cfgdata, excl, calls)
    BY HereFacts
  <2>2. \A i \in 1 .. Len(A[pc].m.ctx) : A[pc].m.ctx[i] \in 0 .. 7
    BY <2>1, CalleeWords
  <2> QED BY <1>3, <2>1, <2>2 DEF Holds
<1>6. CASE pc' = Target(Cur.to)
  <2>1. pc \in 1 .. Len(text) /\ text[pc].op \in Jumps /\ Cur = text[pc]
    BY <1>1, HereFacts DEF Jumps
  <2>2. PICK q \in 1 .. Len(text) : Target(Cur.to) = At(q) /\ Ref(Cur, A[pc].m, A[q].m)
    BY <2>1, TargetFacts
  <2>3. A[q].m = A[pc].m
    BY <1>1, <2>2 DEF Ref
  <2>4. Holds(text, A, A[q].m, lr, cfgdata', excl, calls) /\ isa = A[q].m.arm
    BY <1>5, <2>3, HereFacts
  <2>5. Reached(text, A, At(q), isa, lr, cfgdata', excl, calls)
    BY <2>4, Arrive
  <2> QED BY <1>1, <1>4, <1>6, <2>2, <2>5
<1>7. CASE pc' = Following
  <2>1. A[pc + 1].m = A[pc].m
    BY <1>1, HereFacts DEF Flow
  <2>2. Holds(text, A, A[pc + 1].m, lr, cfgdata', excl, calls) /\ isa = A[pc + 1].m.arm
    BY <1>5, <2>1, HereFacts
  <2>3. Reached(text, A, Following, isa, lr, cfgdata', excl, calls)
    BY <1>1, <2>2, GoOn
  <2> QED BY <1>1, <1>4, <1>7, <2>3
<1> QED BY <1>1, <1>6, <1>7

\* A callee begins with the return address in lr, or the call is left out.
LEMMA CallRuns ==
  ASSUME NEW A, Sound(text, A), Reached(text, A, pc, isa, lr, cfgdata, excl, calls),
         WordTypes, Call
  PROVE  Reached(text, A, pc', isa', lr', cfgdata', excl', calls') /\ WordTypes'
<1> DEFINE m == A[pc].m
           r == Following
           w == Address(r, isa)
<1>1. /\ Cur.op = "call" /\ cfgdata' = cfgdata /\ excl' = excl
      /\ \/ /\ lr' = w /\ pc' = Target(Cur.to) /\ isa' = Cur.arm /\ calls' = Append(calls, w)
         \/ /\ Cur.cond /\ pc' = Following /\ lr' \in {lr, 0} /\ isa' = isa /\ calls' = calls
  BY DEF Call, Running
<1>2. /\ m \in Mach /\ Plain(m) /\ A[pc + 1].m = m /\ isa = m.arm
      /\ Holds(text, A, m, lr, cfgdata, excl, calls) /\ pc + 1 \in 1 .. Len(text)
  BY <1>1, HereFacts DEF Flow
<1>3. calls \in Seq(Nat) /\ lr \in Nat /\ Len(calls) \in Nat
  BY DEF WordTypes
<1>4. r \in 1 .. Len(text) /\ text[r].op \notin Directives /\ A[r].m = m
  BY <1>2, AtFacts DEF Following
<1>5. w \in Nat /\ w = Address(r, A[r].m.arm)
  <2>1. r \in Nat
    BY <1>4
  <2> HIDE DEF r
  <2> QED BY <1>2, <1>4, <2>1 DEF Address
<1>6. CASE /\ lr' = w /\ pc' = Target(Cur.to) /\ isa' = Cur.arm /\ calls' = Append(calls, w)
  <2>1. pc \in 1 .. Len(text) /\ text[pc].op \in Jumps /\ Cur = text[pc]
    BY <1>1, HereFacts DEF Jumps
  <2>2. PICK q \in 1 .. Len(text) : Target(Cur.to) = At(q) /\ Ref(Cur, m, A[q].m)
    BY <2>1, TargetFacts
  <2>3. PICK s \in 0 .. 7 : A[q].m = Entry(Cur.arm, Append(m.ctx, s))
    BY <1>1, <2>2 DEF Ref
  <2> DEFINE c == m.ctx
             d == Append(c, s)
             k == Len(c)
             cl == Append(calls, w)
  <2>4. A[q].m.arm = Cur.arm /\ A[q].m.ctx = d /\ A[q].m.fresh = TRUE /\ A[q].m.ex = "none"
    BY <2>3 DEF Entry
  <2>5. k \in Nat /\ Len(d) = k + 1 /\ \A i \in 1 .. k : d[i] = c[i]
    BY <1>2, CalleeWords
  <2>6. /\ Len(calls) = k /\ Len(cl) = k + 1 /\ cl[k + 1] = w
        /\ \A i \in 1 .. k : cl[i] = calls[i]
    <3>1. Len(calls) = k
      BY <1>2 DEF Holds
    <3> HIDE DEF w, k, c, m
    <3>2. Len(cl) = Len(calls) + 1 /\ cl[Len(calls) + 1] = w
          /\ \A i \in 1 .. Len(calls) : cl[i] = calls[i]
      BY <1>3, <1>5, AppendProperties
    <3> QED BY <3>1, <3>2
  <2>7. ~m.fresh /\ m.ex = "none"
    BY <1>2 DEF Plain
  <2> HIDE DEF c, d, k, cl, w, r, m
  <2>8. ASSUME NEW i \in 1 .. k
        PROVE  Back(text, A, d, i, cl[i]) /\ i # k + 1 /\ cfgdata[d[i]] = cl[i]
    <3>1. Back(text, A, c, i, calls[i]) /\ cfgdata[c[i]] = calls[i]
      BY <1>2, <2>6, <2>7 DEF Holds, c
    <3>2. \A j \in 1 .. (i - 1) : d[j] = c[j]
      BY <2>5
    <3>3. Back(text, A, d, i, calls[i])
      BY <3>1, <3>2 DEF Back
    <3> QED BY <2>5, <2>6, <3>1, <3>3
  <2>9. Back(text, A, d, k + 1, cl[k + 1])
    <3>1. Len(A[r].m.ctx) = (k + 1) - 1 /\ \A j \in 1 .. ((k + 1) - 1) : A[r].m.ctx[j] = d[j]
      BY <1>4, <2>5 DEF k, c
    <3> QED BY <1>2, <1>4, <1>5, <2>6, <3>1 DEF Back
  <2>10. \A i \in 1 .. (k + 1) : i \in 1 .. k \/ i = k + 1
    BY <2>5
  <2>11. ExclOK("none", excl)
    BY <1>2, <2>7 DEF Holds
  <2>12. Holds(text, A, A[q].m, w, cfgdata, excl, cl)
    <3>1. Len(cl) = Len(A[q].m.ctx)
      BY <2>4, <2>5, <2>6
    <3>2. ASSUME NEW i \in 1 .. Len(cl)
          PROVE  /\ Back(text, A, A[q].m.ctx, i, cl[i])
                 /\ IF A[q].m.fresh /\ i = Len(cl) THEN w = cl[i]
                    ELSE cfgdata[A[q].m.ctx[i]] = cl[i]
      BY <2>4, <2>6, <2>8, <2>9, <2>10
    <3> QED BY <2>4, <2>11, <3>1, <3>2 DEF Holds
  <2>13. Reached(text, A, At(q), Cur.arm, w, cfgdata, excl, cl)
    BY <2>4, <2>12, Arrive
  <2>14. calls' = cl /\ cl \in Seq(Nat)
    BY <1>3, <1>5, <1>6 DEF cl
  <2> QED BY <1>1, <1>5, <1>6, <2>2, <2>13, <2>14 DEF WordTypes
<1>7. CASE /\ Cur.cond /\ pc' = Following /\ lr' \in {lr, 0} /\ isa' = isa /\ calls' = calls
  <2>1. Holds(text, A, A[pc + 1].m, lr', cfgdata, excl, calls) /\ isa = A[pc + 1].m.arm
    BY <1>2, AnyLr DEF Plain
  <2>2. Reached(text, A, Following, isa, lr', cfgdata, excl, calls)
    BY <1>1, <2>1, GoOn
  <2>3. lr' \in Nat /\ WordTypes'
    <3>1. lr' \in Nat
      BY <1>3, <1>7
    <3> QED BY <1>1, <1>7, <3>1 DEF WordTypes
  <2> QED BY <1>1, <1>7, <2>2, <2>3
<1> QED BY <1>1, <1>6, <1>7

\* The callee saves its return address.
LEMMA PushRuns ==
  ASSUME NEW A, Sound(text, A), Reached(text, A, pc, isa, lr, cfgdata, excl, calls),
         WordTypes, PushLr
  PROVE  Reached(text, A, pc', isa', lr', cfgdata', excl', calls') /\ WordTypes'
<1> DEFINE m == A[pc].m
           c == m.ctx
           k == Len(c)
<1>1. /\ Cur.op = "pre" /\ isa' = isa /\ lr' = lr /\ excl' = excl /\ calls' = calls
      /\ cfgdata' = [cfgdata EXCEPT ![Cur.slot] = lr] /\ pc' = Following
  BY DEF PushLr, Running
<1>2. Cur.slot \in 0 .. 7 /\ Cur.slot \in 0 .. 15
  <2>1. Cur \in Instr
    BY HereFacts
  <2> QED BY <1>1, <2>1 DEF Instr
<1>3. /\ cfgdata' \in [0 .. 15 -> Nat] /\ cfgdata'[Cur.slot] = lr
      /\ \A w \in 0 .. 15 : w # Cur.slot => cfgdata'[w] = cfgdata[w]
  BY <1>1, <1>2 DEF WordTypes
<1>4. /\ m \in Mach /\ isa = m.arm /\ Holds(text, A, m, lr, cfgdata, excl, calls)
      /\ m.fresh /\ m.ex = "none" /\ k > 0 /\ c[k] = Cur.slot
      /\ A[pc + 1].m = Mc(m.arm, c)
  BY <1>1, HereFacts DEF Flow
<1>5. /\ k \in Nat /\ \A i \in 1 .. k : c[i] \in 0 .. 15
      /\ \A i \in 1 .. k : i # k => c[i] # Cur.slot
  <2>1. /\ k \in Nat /\ \A i \in 1 .. k : c[i] \in 0 .. 7
        /\ \A i, j \in 1 .. k : c[i] = c[j] => i = j
    BY <1>4, CalleeWords
  <2> HIDE DEF m, c, k
  <2>2. k \in 1 .. k
    BY <1>4, <2>1
  <2> QED BY <1>4, <2>1, <2>2
<1>6. /\ A[pc + 1].m.arm = m.arm /\ A[pc + 1].m.ctx = c
      /\ A[pc + 1].m.fresh = FALSE /\ A[pc + 1].m.ex = "none"
  BY <1>4 DEF Mc
<1>7. Len(calls) = k /\ ExclOK("none", excl)
  BY <1>4 DEF Holds
<1>8. ASSUME NEW i \in 1 .. k
      PROVE  Back(text, A, c, i, calls[i]) /\ cfgdata'[c[i]] = calls[i]
  <2>1. /\ Back(text, A, c, i, calls[i])
        /\ IF i = k THEN lr = calls[i] ELSE cfgdata[c[i]] = calls[i]
    BY <1>4, <1>7 DEF Holds
  <2> QED BY <1>3, <1>4, <1>5, <2>1
<1>9. Holds(text, A, A[pc + 1].m, lr, cfgdata', excl, calls)
  BY <1>6, <1>7, <1>8 DEF Holds
<1>10. Reached(text, A, Following, isa, lr, cfgdata', excl, calls)
  BY <1>1, <1>4, <1>6, <1>9, GoOn
<1> QED BY <1>1, <1>3, <1>10 DEF WordTypes

\* The callee returns.
LEMMA PopRuns ==
  ASSUME NEW A, Sound(text, A), Reached(text, A, pc, isa, lr, cfgdata, excl, calls),
         WordTypes, PopPc
  PROVE  Reached(text, A, pc', isa', lr', cfgdata', excl', calls') /\ WordTypes'
<1> DEFINE m == A[pc].m
           c == m.ctx
           k == Len(c)
           w == cfgdata[Cur.slot]
           cl == SubSeq(calls, 1, Len(calls) - 1)
<1>1. /\ Cur.op = "post" /\ lr' = lr /\ cfgdata' = cfgdata /\ excl' = excl
      /\ pc' = w \div 2 /\ isa' = (w % 2 = 0) /\ calls' = cl
  BY DEF PopPc, Running
<1>2. /\ m \in Mach /\ Holds(text, A, m, lr, cfgdata, excl, calls) /\ ~m.fresh /\ m.ex = "none"
      /\ k > 0 /\ c[k] = Cur.slot
  BY <1>1, HereFacts DEF Flow, Plain
<1>3. k \in Nat /\ k \in 1 .. k
  BY <1>2, CalleeWords
<1>4. /\ Len(calls) = k /\ ExclOK("none", excl)
      /\ \A i \in 1 .. k : Back(text, A, c, i, calls[i]) /\ cfgdata[c[i]] = calls[i]
  BY <1>2 DEF Holds
<1>5. w = calls[k] /\ Back(text, A, c, k, calls[k])
  BY <1>2, <1>3, <1>4
<1>6. calls \in Seq(Nat) /\ lr \in Nat /\ cfgdata \in [0 .. 15 -> Nat]
  BY DEF WordTypes
<1>7. cl \in Seq(Nat) /\ Len(cl) = k - 1 /\ \A i \in 1 .. (k - 1) : cl[i] = calls[i]
  <2> HIDE DEF k, c, m
  <2> DEFINE n == k - 1
  <2>1. n \in Nat /\ 1 \in Int /\ \A i \in 1 .. n : calls[i] \in Nat
    <3>1. n \in Nat /\ \A i \in 1 .. n : i \in 1 .. Len(calls)
      BY <1>3, <1>4
    <3>2. calls \in Seq(Nat)
      BY <1>6
    <3>3. \A i \in 1 .. Len(calls) : calls[i] \in Nat
      BY <3>2, ElementOfSeq
    <3> HIDE DEF n
    <3> QED BY <3>1, <3>3
  <2>2. cl = SubSeq(calls, 1, n)
    BY <1>4
  <2> HIDE DEF cl, n
  <2>3. /\ cl \in Seq(Nat) /\ Len(cl) = IF 1 <= n THEN n - 1 + 1 ELSE 0
        /\ \A i \in 1 .. (n - 1 + 1) : cl[i] = calls[1 + i - 1]
    BY <2>1, <2>2, <1>6, SubSeqProperties
  <2>4. Len(cl) = n /\ \A i \in 1 .. n : cl[i] = calls[i]
    BY <2>1, <2>3
  <2> QED BY <2>3, <2>4 DEF n
<1> HIDE DEF cl, w, k, c, m
<1>8. PICK p \in 1 .. Len(text) :
        /\ text[p].op \notin Directives /\ w = Address(p, A[p].m.arm) /\ Plain(A[p].m)
        /\ Len(A[p].m.ctx) = k - 1 /\ \A j \in 1 .. (k - 1) : A[p].m.ctx[j] = c[j]
  BY <1>5 DEF Back
<1>9. w \div 2 = p /\ (w % 2 = 0) = A[p].m.arm
  <2>1. A[p].m.arm \in BOOLEAN
    <3>1. A[p].m \in Mach
      BY SoundFacts
    <3> QED BY <3>1 DEF Mach
  <2>2. p \in Nat
    OBVIOUS
  <2>3. CASE A[p].m.arm = TRUE
    <3>1. w = 2 * p
      BY <1>8, <2>2, <2>3 DEF Address
    <3>2. w \div 2 = p /\ w % 2 = 0
      BY <2>2, <3>1
    <3> QED BY <2>3, <3>2
  <2>4. CASE A[p].m.arm = FALSE
    <3>1. w = 2 * p + 1
      BY <1>8, <2>2, <2>4 DEF Address
    <3>2. w \div 2 = p /\ (w % 2 = 0) = FALSE
      BY <2>2, <3>1
    <3> QED BY <2>4, <3>2, Zenon
  <2> QED BY <2>1, <2>3, <2>4
<1>10. ASSUME NEW i \in 1 .. (k - 1)
       PROVE  Back(text, A, A[p].m.ctx, i, cl[i]) /\ cfgdata[A[p].m.ctx[i]] = cl[i]
  <2>1. i \in 1 .. k /\ cl[i] = calls[i] /\ A[p].m.ctx[i] = c[i]
    BY <1>3, <1>7, <1>8
  <2>2. \A j \in 1 .. (i - 1) : A[p].m.ctx[j] = c[j]
    BY <1>3, <1>8
  <2>3. Back(text, A, c, i, calls[i]) /\ cfgdata[c[i]] = calls[i]
    BY <1>4, <2>1
  <2>4. Back(text, A, A[p].m.ctx, i, calls[i])
    BY <2>2, <2>3 DEF Back
  <2> QED BY <2>1, <2>3, <2>4
<1>11. Holds(text, A, A[p].m, lr, cfgdata, excl, cl)
  BY <1>4, <1>7, <1>8, <1>10 DEF Holds, Plain
<1>12. Reached(text, A, p, A[p].m.arm, lr, cfgdata, excl, cl)
  BY <1>8, <1>11 DEF Reached
<1> QED BY <1>1, <1>6, <1>7, <1>9, <1>12 DEF WordTypes

\* The steps of an exclusive sequence.
LEMMA ExclRuns ==
  ASSUME NEW A, Sound(text, A), Reached(text, A, pc, isa, lr, cfgdata, excl, calls),
         SaveFlags \/ Ldrex \/ Strex \/ ExclStub
  PROVE  Reached(text, A, pc', isa', lr', cfgdata', excl', calls')
<1> DEFINE m == A[pc].m
           n == A[pc + 1].m
<1>1. /\ isa' = isa /\ cfgdata' = cfgdata /\ calls' = calls
      /\ Cur.op \in {"exclsave", "ldrex", "strex", "exclstub"}
  BY DEF SaveFlags, Ldrex, Strex, ExclStub, Running
<1>2. /\ m \in Mach /\ isa = m.arm /\ Holds(text, A, m, lr, cfgdata, excl, calls)
      /\ ~m.fresh
      /\ Flow(Cur, A[pc], A[pc + 1])
  BY <1>1, HereFacts DEF Flow, Plain
<1>3. n = Mc(m.arm, m.ctx) \/ \E e : n = Exc(m.arm, m.ctx, e)
  BY <1>1, <1>2 DEF Flow
<1>4. n.arm = m.arm /\ n.ctx = m.ctx /\ n.fresh = FALSE
  <2>1. \A a, c, e : /\ Mc(a, c).arm = a /\ Mc(a, c).ctx = c /\ Mc(a, c).fresh = FALSE
                     /\ Exc(a, c, e).arm = a /\ Exc(a, c, e).ctx = c
                     /\ Exc(a, c, e).fresh = FALSE
    BY DEF Mc, Exc
  <2> HIDE DEF n, m
  <2> QED BY <1>3, <2>1
<1>5. ExclOK(m.ex, excl) /\ excl \in [addr : BOOLEAN, cnt : 0 .. EXCL_CNT,
                                      load : BOOLEAN, store : BOOLEAN]
  BY <1>2 DEF Holds, ExclOK
<1>6. \A d : d.ctx = m.ctx /\ d.fresh = FALSE /\ ExclOK(d.ex, excl')
        => Holds(text, A, d, lr', cfgdata, excl', calls)
  BY <1>2 DEF Holds
<1>7. ASSUME pc' = Following, ExclOK(n.ex, excl')
      PROVE  Reached(text, A, pc', isa, lr', cfgdata, excl', calls)
  <2>1. Holds(text, A, n, lr', cfgdata, excl', calls)
    BY <1>4, <1>6, <1>7
  <2> QED BY <1>1, <1>2, <1>4, <1>7, <2>1, GoOn
<1>8. EXCL_CNT \in Nat \ {0}
  BY ExclAssumption
<1>9. CASE SaveFlags
  <2>1. Cur.op = "exclsave" /\ pc' = Following
    BY <1>9 DEF SaveFlags, Running
  <2>2. m.ex = "none" /\ n.ex = "try"
    BY <1>2, <2>1 DEF Flow, Plain, Exc
  <2>3. PICK load \in BOOLEAN, store \in BOOLEAN :
          excl' = [excl EXCEPT !.load = load, !.store = store]
    BY <1>9 DEF SaveFlags
  <2>4. ExclOK("try", excl')
    <3>1. ~excl.addr /\ excl.cnt = EXCL_CNT
      BY <1>5, <2>2 DEF ExclOK
    <3>2. /\ excl'.addr = excl.addr /\ excl'.cnt = excl.cnt
          /\ excl' \in [addr : BOOLEAN, cnt : 0 .. EXCL_CNT, load : BOOLEAN, store : BOOLEAN]
      BY <1>5, <2>3
    <3> QED BY <1>8, <3>1, <3>2 DEF ExclOK
  <2> QED BY <1>1, <1>7, <2>1, <2>2, <2>4
<1>10. CASE Ldrex
  <2>1. Cur.op = "ldrex" /\ pc' = Following /\ excl' = [excl EXCEPT !.addr = @ \/ excl.load]
    BY <1>10 DEF Ldrex, Running
  <2>2. m.ex = "try" /\ n.ex = "got"
    BY <1>2, <2>1 DEF Flow, Exc
  <2>3. ExclOK("got", excl')
    BY <1>5, <1>8, <2>1, <2>2 DEF ExclOK
  <2> QED BY <1>1, <1>7, <2>1, <2>2, <2>3
<1>11. CASE ExclStub
  <2>1. Cur.op = "exclstub" /\ pc' = Following /\ excl' = [excl EXCEPT !.cnt = EXCL_CNT]
    BY <1>11 DEF ExclStub, Running
  <2>2. m.ex = "end" /\ n.ex = "none"
    BY <1>2, <2>1 DEF Flow, Mc
  <2>3. ExclOK("none", excl')
    BY <1>5, <1>8, <2>1, <2>2 DEF ExclOK
  <2> QED BY <1>1, <1>7, <2>1, <2>2, <2>3
<1>12. CASE Strex
  <2>1. Cur.op = "strex" /\ lr' = lr
    BY <1>12 DEF Strex, Running
  <2>2. m.ex = "got" /\ n.ex = "end"
    BY <1>2, <2>1 DEF Flow, Exc
  <2>3. CASE ~excl.addr /\ pc' = Following /\ excl' = excl
    <3>1. ExclOK("end", excl')
      BY <1>5, <2>2, <2>3 DEF ExclOK
    <3> QED BY <1>1, <1>7, <2>2, <2>3, <3>1
  <2>4. CASE pc' = Following /\ excl' = [excl EXCEPT !.addr = FALSE]
    <3>1. ExclOK("end", excl')
      BY <1>5, <2>2, <2>4 DEF ExclOK
    <3> QED BY <1>1, <1>7, <2>2, <2>4, <3>1
  <2>5. CASE /\ excl' = [excl EXCEPT !.addr = FALSE, !.cnt = @ - 1]
             /\ pc' = Following \/ (excl'.cnt # 0 /\ pc' = Target(Cur.to))
    <3>1. /\ excl.cnt \in 1 .. EXCL_CNT /\ excl'.cnt = excl.cnt - 1 /\ excl'.addr = FALSE
          /\ excl' \in [addr : BOOLEAN, cnt : 0 .. EXCL_CNT, load : BOOLEAN, store : BOOLEAN]
      <4>1. excl.cnt \in 0 .. EXCL_CNT /\ excl.cnt > 0
        BY <1>5, <2>2 DEF ExclOK
      <4>2. excl.cnt \in 1 .. EXCL_CNT /\ excl.cnt - 1 \in 0 .. EXCL_CNT
        BY <1>8, <4>1
      <4> QED BY <1>5, <2>5, <4>2
    <3>2. CASE pc' = Following
      <4>1. ExclOK("end", excl')
        BY <3>1 DEF ExclOK
      <4> QED BY <1>1, <1>7, <2>2, <3>2, <4>1
    <3>3. CASE excl'.cnt # 0 /\ pc' = Target(Cur.to)
      <4>1. pc \in 1 .. Len(text) /\ text[pc].op \in Jumps /\ Cur = text[pc]
        BY <2>1, HereFacts DEF Jumps
      <4>2. PICK q \in 1 .. Len(text) : Target(Cur.to) = At(q) /\ Ref(Cur, m, A[q].m)
        BY <4>1, TargetFacts
      <4>3. A[q].m = Exc(m.arm, m.ctx, "try")
        BY <2>1, <4>2 DEF Ref
      <4>4. /\ A[q].m.arm = m.arm /\ A[q].m.ctx = m.ctx /\ A[q].m.fresh = FALSE
            /\ A[q].m.ex = "try"
        BY <4>3 DEF Exc
      <4>5. ExclOK("try", excl')
        <5>1. excl'.cnt > 0
          BY <1>8, <3>1, <3>3
        <5> QED BY <3>1, <5>1 DEF ExclOK
      <4>6. Holds(text, A, A[q].m, lr', cfgdata, excl', calls)
        BY <1>6, <4>4, <4>5
      <4>7. Reached(text, A, At(q), isa, lr', cfgdata, excl', calls)
        BY <1>2, <4>4, <4>6, Arrive
      <4> QED BY <1>1, <3>3, <4>2, <4>7
    <3> QED BY <2>5, <3>2, <3>3
  <2> QED BY <1>12, <2>3, <2>4, <2>5 DEF Strex
<1> QED BY <1>9, <1>10, <1>11, <1>12

\* The program starts in the state its first annotation says.
LEMMA StartRuns ==
  ASSUME NEW A, Sound(text, A), isa = TRUE, calls = <<>>, ExclOK("none", excl), Start
  PROVE  Reached(text, A, pc', isa', lr', cfgdata', excl', calls')
<1>1. /\ pc' = At(1) /\ isa' = isa /\ lr' = lr /\ cfgdata' = cfgdata /\ excl' = excl
      /\ calls' = calls
  BY DEF Start
<1>2. 1 \in 1 .. Len(text) /\ A[1].m = Mc(TRUE, <<>>)
  BY SoundFacts, Zenon
<1>3. A[1].m.arm = TRUE /\ A[1].m.ctx = <<>> /\ A[1].m.ex = "none"
  BY <1>2 DEF Mc
<1>4. Holds(text, A, A[1].m, lr, cfgdata, excl, calls)
  BY <1>3 DEF Holds
<1>5. Reached(text, A, At(1), isa, lr, cfgdata, excl, calls)
  BY <1>2, <1>3, <1>4, Arrive
<1> QED BY <1>1, <1>5

\* Before the start of the program.
LEMMA InitRuns == ASSUME Init PROVE RunInv
<1>1. WordTypes /\ pc = 0 /\ isa = TRUE /\ calls = <<>>
  BY DEF Init, WordTypes
<1>2. ExclOK("none", excl)
  BY ExclAssumption DEF Init, ExclOK
<1> QED BY <1>1, <1>2 DEF RunInv

\* Addresses are numbers, and so is lr when it is written.
LEMMA AddressType == \A p \in Nat : \A a : Address(p, a) \in Nat
BY DEF Address

\* A step that leaves cfgdata and the calls alone keeps the types.
LEMMA WordsKept ==
  ASSUME WordTypes, lr' \in Nat, cfgdata' = cfgdata, calls' = calls PROVE WordTypes'
BY DEF WordTypes

\* Every step of the processor keeps the invariant.
LEMMA RunRuns == ASSUME TypedInv, RunInv, Run PROVE RunInv'
<1>1. phase = "written" /\ phase' = phase /\ text' = text
  BY DEF Run, Start, Basic, Branch, BranchExchange, Loop, Call, PushLr, PopPc, SaveFlags,
         Ldrex, Strex, ExclStub, AluWritePC, Running, genVars
<1>2. WordTypes /\ pc \in Nat /\ lr \in Nat
  BY DEF RunInv, WordTypes
<1>3. ASSUME NEW A, Sound(text, A), WordTypes',
             Reached(text, A, pc', isa', lr', cfgdata', excl', calls')
      PROVE  RunInv'
  <2>1. pc' \in 1 .. Len(text)
    BY <1>3 DEF Reached
  <2>2. pc' \in Nat /\ pc' # 0
    BY <2>1
  <2> QED BY <1>1, <1>3, <2>2 DEF RunInv
<1>4. CASE Start
  <2>1. PICK A : Sound(text, A)
    BY <1>1 DEF TypedInv
  <2>2. pc = 0 /\ isa = TRUE /\ calls = <<>> /\ ExclOK("none", excl)
    BY <1>4 DEF Start, RunInv
  <2>3. WordTypes'
    BY <1>2, <1>4 DEF Start, WordTypes
  <2> QED BY <1>3, <1>4, <2>1, <2>2, <2>3, StartRuns
<1>5. CASE ~Start
  <2>1. pc > 0
    BY <1>5 DEF Run, Start, Basic, Branch, BranchExchange, Loop, Call, PushLr, PopPc,
                SaveFlags, Ldrex, Strex, ExclStub, AluWritePC, Running
  <2>2. PICK A : Sound(text, A) /\ Reached(text, A, pc, isa, lr, cfgdata, excl, calls)
    BY <2>1 DEF RunInv
  <2>3. CASE Basic
    <3>1. WordTypes'
      <4>1. lr' \in {lr, 0} /\ cfgdata' = cfgdata /\ calls' = calls
        BY <2>3 DEF Basic
      <4>2. lr' \in Nat
        BY <1>2, <4>1
      <4> QED BY <1>2, <4>1, <4>2, WordsKept
    <3> QED BY <1>3, <2>2, <2>3, <3>1, BasicRuns
  <2>4. CASE AluWritePC
    <3>1. pc' \in Nat /\ lr' \in {lr, 0, Address(pc', isa)}
          /\ cfgdata' = cfgdata /\ calls' = calls
      <4>1. Reached(text, A, pc', isa', lr', cfgdata', excl', calls')
        BY <2>2, <2>4, BasicRuns
      <4>2. pc' \in 1 .. Len(text)
        BY <4>1 DEF Reached
      <4> QED BY <2>4, <4>2 DEF AluWritePC
    <3>2. Address(pc', isa) \in Nat
      BY <3>1, AddressType
    <3>3. WordTypes'
      <4>1. lr' \in Nat
        BY <1>2, <3>1, <3>2
      <4> QED BY <1>2, <3>1, <4>1, WordsKept
    <3> QED BY <1>3, <2>2, <2>4, <3>3, BasicRuns
  <2>5. CASE Branch
    <3>1. WordTypes'
      BY <1>2, <2>5 DEF Branch, WordTypes
    <3> QED BY <1>3, <2>2, <2>5, <3>1, BranchRuns
  <2>6. CASE BranchExchange
    <3>1. WordTypes'
      <4>1. lr' \in {lr, 0} /\ cfgdata' = cfgdata /\ calls' = calls
        BY <2>6 DEF BranchExchange
      <4>2. lr' \in Nat
        BY <1>2, <4>1
      <4> QED BY <1>2, <4>1, <4>2, WordsKept
    <3> QED BY <1>3, <2>2, <2>6, <3>1, ExchangeRuns
  <2>7. CASE Loop
    BY <1>2, <1>3, <2>2, <2>7, LoopRuns
  <2>8. CASE Call
    BY <1>2, <1>3, <2>2, <2>8, CallRuns
  <2>9. CASE PushLr
    BY <1>2, <1>3, <2>2, <2>9, PushRuns
  <2>10. CASE PopPc
    BY <1>2, <1>3, <2>2, <2>10, PopRuns
  <2>11. CASE SaveFlags \/ Ldrex \/ Strex \/ ExclStub
    <3>1. WordTypes'
      <4>1. lr' \in {lr, 0} /\ cfgdata' = cfgdata /\ calls' = calls
        BY <2>11 DEF SaveFlags, Ldrex, Strex, ExclStub
      <4>2. lr' \in Nat
        BY <1>2, <4>1
      <4> QED BY <1>2, <4>1, <4>2, WordsKept
    <3> QED BY <1>3, <2>2, <2>11, <3>1, ExclRuns
  <2> QED BY <1>5, <2>3, <2>4, <2>5, <2>6, <2>7, <2>8, <2>9, <2>10, <2>11 DEF Run
<1> QED BY <1>4, <1>5

\* A step of the generator comes before the start of the program.
LEMMA GenerateRuns == ASSUME RunInv, Generate PROVE RunInv'
<1>1. /\ UNCHANGED <<pc, isa, lr, cfgdata, excl, calls>> /\ phase # "written"
  BY DEF Generate, runVars, Make, BasicRBlock, StartBlock, EndBlock, genTest, Making
<1>2. pc = 0
  BY <1>1 DEF RunInv
<1> QED BY <1>1, <1>2 DEF RunInv, WordTypes

\* RunInv and the typing are invariants of the whole.
LEMMA RunInvariant == Spec => []RunInv
<1>1. Init => TypedInv /\ RunInv
  BY InitTypes, InitRuns DEF Init
<1>2. IndInv /\ TypedInv /\ RunInv /\ [Next]_vars => TypedInv' /\ RunInv'
  <2> SUFFICES ASSUME IndInv, TypedInv, RunInv, [Next]_vars PROVE TypedInv' /\ RunInv'
    OBVIOUS
  <2>1. TypedInv'
    BY NextTypes, StepGenerates
  <2>2. RunInv'
    <3>1. CASE UNCHANGED vars
      BY <3>1 DEF vars, genVars, runVars, RunInv, WordTypes
    <3> QED BY <3>1, RunRuns, GenerateRuns DEF Next
  <2> QED BY <2>1, <2>2
<1> QED BY <1>1, <1>2, Invariant, PTL DEF Spec

\* What a reached position says.
LEMMA RunImplies == ASSUME IndInv, RunInv PROVE TypeOK /\ IsaMatches /\ ReturnsToCaller /\ ExclFresh
<1>1. CASE pc = 0
  <2>1. pc \in 0 .. Len(text)
    BY <1>1 DEF IndInv, GenTypeOK
  <2>2. TypeOK
    BY <1>1, <2>1 DEF TypeOK, IndInv, RunInv, WordTypes, ExclOK
  <2> QED BY <1>1, <2>2 DEF IsaMatches, ReturnsToCaller, ExclFresh, Executing, Running
<1>2. CASE pc # 0
  <2>1. pc > 0
    BY <1>2 DEF RunInv
  <2>2. PICK A : Sound(text, A) /\ Reached(text, A, pc, isa, lr, cfgdata, excl, calls)
    BY <2>1 DEF RunInv
  <2> DEFINE m == A[pc].m
  <2>3. /\ pc \in 1 .. Len(text) /\ m \in Mach /\ isa = m.arm /\ Flow(Cur, A[pc], A[pc + 1])
        /\ Holds(text, A, m, lr, cfgdata, excl, calls) /\ text[pc].op \notin Directives
    BY <2>2, HereFacts DEF Reached
  <2>4. TypeOK
    <3>1. isa \in BOOLEAN
      BY <2>3 DEF Mach
    <3>2. excl \in [addr : BOOLEAN, cnt : 0 .. EXCL_CNT, load : BOOLEAN, store : BOOLEAN]
      BY <2>3 DEF Holds, ExclOK
    <3>3. pc \in 0 .. Len(text)
      BY <2>3
    <3> QED BY <3>1, <3>2, <3>3 DEF TypeOK, IndInv, RunInv, WordTypes
  <2>5. IsaMatches
    BY <2>2, <2>3, AssembledFacts DEF IsaMatches
  <2>6. ReturnsToCaller
    <3>1. Len(m.ctx) \in Nat /\ Len(calls) = Len(m.ctx) /\ calls \in Seq(Nat)
      BY <2>3, CalleeWords DEF Holds, RunInv, WordTypes
    <3>2. ASSUME Cur.op = "post" PROVE calls # <<>> /\ cfgdata[Cur.slot] = calls[Len(calls)]
      <4>1. Len(m.ctx) > 0 /\ m.ctx[Len(m.ctx)] = Cur.slot /\ ~m.fresh
        BY <2>3, <3>2 DEF Flow, Plain
      <4>2. Len(calls) \in 1 .. Len(calls)
        BY <3>1, <4>1
      <4>3. cfgdata[m.ctx[Len(calls)]] = calls[Len(calls)]
        BY <2>3, <4>1, <4>2 DEF Holds
      <4> QED BY <3>1, <4>1, <4>3
    <3>3. ASSUME Cur.op = "exit" PROVE calls = <<>>
      <4>1. m.ctx = <<>>
        BY <2>3, <3>3 DEF Flow
      <4> QED BY <3>1, <4>1
    <3> QED BY <3>2, <3>3 DEF ReturnsToCaller
  <2>7. ExclFresh
    <3>1. Cur.op = "exclsave" => m.ex = "none"
      BY <2>3 DEF Flow, Plain
    <3> QED BY <2>3, <3>1 DEF ExclFresh, Running, Holds, ExclOK
  <2> QED BY <2>4, <2>5, <2>6, <2>7
<1> QED BY <1>1, <1>2

\* The types of the whole: a program that runs never leaves its text, counts
\* its exclusive tries within 0 .. EXCL_CNT and keeps words that are numbers.
THEOREM RunTypes == Spec => []TypeOK
<1>1. IndInv /\ RunInv => TypeOK
  BY RunImplies
<1> QED BY <1>1, Invariant, RunInvariant, PTL

\* In every program the generator can write, every instruction is executed in
\* the instruction set it was assembled for.
THEOREM IsaKept == Spec => []IsaMatches
<1>1. IndInv /\ RunInv => IsaMatches
  BY RunImplies
<1> QED BY <1>1, Invariant, RunInvariant, PTL

\* In every program the generator can write, every callee returns to the call
\* under way, and the exit code is reached in no callee.
THEOREM CallsReturn == Spec => []ReturnsToCaller
<1>1. IndInv /\ RunInv => ReturnsToCaller
  BY RunImplies
<1> QED BY <1>1, Invariant, RunInvariant, PTL

\* In every program the generator can write, an exclusive sequence starts
\* without an address and with all its tries.
THEOREM ExclStartsFresh == Spec => []ExclFresh
<1>1. IndInv /\ RunInv => ExclFresh
  BY RunImplies
<1> QED BY <1>1, Invariant, RunInvariant, PTL
=================================================================================
