-------------------------- MODULE LandingPadProofs --------------------------
(***************************************************************************)
(* What rotating one loop leaves to the loops after it and to the phi      *)
(* nodes, for every function whose loops are while loops.                  *)
(***************************************************************************)
EXTENDS LandingPad, DominanceProofs, SequenceTheorems

-----------------------------------------------------------------------------
(***************************************************************************)
(* The functions: typed, with loops as LoopInfo has them, and each loop a  *)
(* while loop.                                                             *)
(***************************************************************************)
InstructionsOf(f) == UNION {ToSet(f.code[b]) : b \in Blocks(f)}

LoopRecords(f) == [header : Blocks(f), blocks : SUBSET Blocks(f), parents : SUBSET Nat]

IsProgram(f) ==
  /\ {"n", "succs", "code", "operands", "incoming", "pure", "cond", "loops"} \subseteq DOMAIN f
  /\ f.n \in Nat
  /\ f.succs \in Seq(Seq(Blocks(f))) /\ Len(f.succs) = f.n
  /\ f.code \in Seq(Seq(InstructionsOf(f))) /\ Len(f.code) = f.n
  /\ f.loops \in Seq(LoopRecords(f))

Exit(f, loop) == f.succs[loop.header][2]

\* Control goes round through the header, which decides, and nowhere else
\* leaves a block that goes back to it.
IsNatural(f, loop) ==
  /\ loop.header \in loop.blocks
  /\ \A b \in loop.blocks \ {loop.header} : Predecessors(f, b) \subseteq loop.blocks
  /\ \A b \in loop.blocks \ {loop.header} :
       loop.header \in Successors(f, b) => Len(f.succs[b]) = 1
  /\ Len(f.succs[loop.header]) = 2 /\ f.succs[loop.header][1] \in loop.blocks

\* Its false destination is a block of its own.
HasOwnExit(f, loop) ==
  /\ Exit(f, loop) \notin loop.blocks
  /\ Predecessors(f, Exit(f, loop)) = {loop.header}
  /\ loop.header \notin Successors(f, Exit(f, loop))
  /\ ToSet(f.code[Exit(f, loop)]) \cap DOMAIN f.incoming = {}

\* In the header phi nodes come first; the names made for it are new.
HasHeader(f, loop) ==
  /\ \A j, k \in 1 .. Len(f.code[loop.header]) :
       j < k /\ f.code[loop.header][k] \in DOMAIN f.incoming
         => f.code[loop.header][j] \in DOMAIN f.incoming
  /\ \A i \in InstructionsOf(f) \cup DOMAIN f.incoming :
       ~ (i[1] \in {"clone", "exit"} /\ i[2] = loop.header)

AreNested(f, j, k) ==
  /\ f.loops[j].header # f.loops[k].header
  /\ Exit(f, f.loops[k]) # f.loops[j].header
  /\ j \in f.loops[k].parents <=> f.loops[k].header \in f.loops[j].blocks
  /\ j \in f.loops[k].parents => k < j /\ Exit(f, f.loops[k]) \in f.loops[j].blocks

\* The loops from position a on.
LoopsOK(f, a) ==
  \A k \in a .. Len(f.loops) :
    /\ IsNatural(f, f.loops[k]) /\ HasOwnExit(f, f.loops[k]) /\ HasHeader(f, f.loops[k])
    /\ \A j \in (a .. Len(f.loops)) \ {k} : AreNested(f, j, k)

\* A phi node stands in one block.
PhisHaveOnePlace(f) ==
  \A b, c \in Blocks(f) : \A i \in DOMAIN f.incoming :
    i \in ToSet(f.code[b]) /\ i \in ToSet(f.code[c]) => b = c

Sound(f, a) == IsProgram(f) /\ LoopsOK(f, a) /\ PhisHaveOnePlace(f) /\ PhisInStep(f)

WhileLoops(f) == Sound(f, 1)

-----------------------------------------------------------------------------
(***************************************************************************)
(* The fields of a program after each operation.                           *)
(***************************************************************************)
HasFields(f) ==
  {"n", "succs", "code", "operands", "incoming", "pure", "cond", "loops"} \subseteq DOMAIN f

\* The list s with v at b.
With(s, b, v) == [s EXCEPT ![b] = v]

\* The successors of a block that goes on to one, or to two.
To(b) == <<b>>

ToEither(b, c) == <<b, c>>

\* Code without an instruction, and code with more code behind it.
Nothing == << >>

Followed(c, d) == c \o d

\* The phi nodes in `after` are those in `before` and have entries for the same blocks.
SameEntries(after, before) ==
  /\ DOMAIN after = DOMAIN before
  /\ \A i \in DOMAIN before :
       /\ DOMAIN after[i] = DOMAIN before[i]
       /\ \A k \in DOMAIN before[i] : after[i][k][2] = before[i][k][2]

(***************************************************************************)
(* Replacing uses changes no graph and no entry's block.                   *)
(***************************************************************************)
LEMMA ReplaceFields ==
  ASSUME NEW f, HasFields(f), NEW is, NEW bs, NEW sub,
         NEW g, g = ReplaceUses(f, is, bs, sub)
  PROVE  /\ HasFields(g)
         /\ g.n = f.n /\ g.succs = f.succs /\ g.code = f.code /\ g.loops = f.loops
         /\ SameEntries(g.incoming, f.incoming)
<1>1. PICK ops, in, cond :
        /\ in = [i \in DOMAIN f.incoming |-> IF i \notin is THEN f.incoming[i] ELSE
                   [k \in DOMAIN f.incoming[i] |->
                      <<IF f.incoming[i][k][1] \in DOMAIN sub THEN sub[f.incoming[i][k][1]]
                                                              ELSE f.incoming[i][k][1],
                        f.incoming[i][k][2]>>]]
        /\ g = [f EXCEPT !.operands = ops, !.incoming = in, !.cond = cond]
  BY Zenon DEF ReplaceUses
<1>2. /\ HasFields(g) /\ g.incoming = in
      /\ g.n = f.n /\ g.succs = f.succs /\ g.code = f.code /\ g.loops = f.loops
  BY <1>1 DEF HasFields
<1>3. SameEntries(in, f.incoming)
  BY <1>1 DEF SameEntries
<1>4. QED
  BY <1>2, <1>3

(***************************************************************************)
(* Splitting a block.                                                      *)
(***************************************************************************)
SplitSuccs(f, b) == Append([f.succs EXCEPT ![b] = <<f.n + 1>>], f.succs[b])

SplitCode(f, b, kept) ==
  Append([f.code EXCEPT ![b] = SubSeq(f.code[b], 1, kept)],
         SubSeq(f.code[b], kept + 1, Len(f.code[b])))

SplitEntries(f, b) ==
  [i \in DOMAIN f.incoming |-> [k \in DOMAIN f.incoming[i] |->
     <<f.incoming[i][k][1], NewName(f, b, f.n + 1, i, f.incoming[i][k][2])>>]]

SplitLoops(f, parents) ==
  [k \in DOMAIN f.loops |->
     IF AddedTo(k, parents) THEN WithBlock(f.loops[k], f.n + 1) ELSE f.loops[k]]

LEMMA SplitFields ==
  ASSUME NEW f, HasFields(f), NEW b, NEW kept, NEW parents,
         NEW g, g = SplitBlock(f, b, kept, parents)
  PROVE  /\ HasFields(g) /\ g.n = f.n + 1
         /\ g.succs = SplitSuccs(f, b) /\ g.code = SplitCode(f, b, kept)
         /\ g.incoming = SplitEntries(f, b) /\ g.loops = SplitLoops(f, parents)
<1>1. PICK n, succs, code, cond, in, loops :
        /\ n = f.n + 1 /\ succs = SplitSuccs(f, b) /\ code = SplitCode(f, b, kept)
        /\ in = SplitEntries(f, b) /\ loops = SplitLoops(f, parents)
        /\ g = [f EXCEPT !.n = n, !.succs = succs, !.code = code, !.cond = cond,
                         !.incoming = in, !.loops = loops]
  BY Zenon DEF SplitBlock, SplitSuccs, SplitCode, SplitEntries, SplitLoops
<1>2. QED
  BY <1>1 DEF HasFields

Clones(f, loop) == [k \in DOMAIN HeaderRest(f, loop) |-> <<"clone", loop.header, k>>]

(***************************************************************************)
(* Copying the condition to the latch.                                     *)
(***************************************************************************)
LEMMA LatchFields ==
  ASSUME NEW f, HasFields(f), NEW loop, NEW g, g = MoveCondFromHeaderToLatch(f, loop)
  PROVE  /\ HasFields(g)
         /\ g.n = f.n /\ g.loops = f.loops
         /\ g.succs = With(f.succs, loop.latch, ToEither(loop.header, f.succs[loop.header][2]))
         /\ g.code = With(f.code, loop.latch, Followed(f.code[loop.latch], Clones(f, loop)))
         /\ SameEntries(g.incoming, f.incoming)
<1>1. PICK clones, ops, pure, cond, is, c, sub :
        /\ clones = Clones(f, loop)
        /\ c = [f EXCEPT !.succs[loop.latch] = <<loop.header, f.succs[loop.header][2]>>,
                         !.code[loop.latch] = f.code[loop.latch] \o clones,
                         !.operands = ops, !.pure = pure, !.cond = cond]
        /\ g = ReplaceUses(c, is, {loop.latch}, sub)
  BY Zenon DEF MoveCondFromHeaderToLatch, Clones
<1>2. /\ HasFields(c) /\ c.n = f.n /\ c.loops = f.loops /\ c.incoming = f.incoming
      /\ c.succs = With(f.succs, loop.latch, ToEither(loop.header, f.succs[loop.header][2]))
      /\ c.code = With(f.code, loop.latch, Followed(f.code[loop.latch], clones))
  BY <1>1 DEF HasFields, With, ToEither, Followed
<1>3. g = ReplaceUses(c, is, {loop.latch}, sub) /\ clones = Clones(f, loop)
  BY <1>1
<1>4. /\ HasFields(g) /\ g.n = c.n /\ g.succs = c.succs /\ g.code = c.code /\ g.loops = c.loops
      /\ SameEntries(g.incoming, c.incoming)
  BY <1>2, <1>3, ReplaceFields
<1>5. QED
  BY <1>2, <1>3, <1>4

(***************************************************************************)
(* Moving the condition to the preheader.                                  *)
(***************************************************************************)
LEMMA PreheaderFields ==
  ASSUME NEW f, HasFields(f), NEW loop, NEW pad,
         NEW g, g = MoveCondFromHeaderToPreheader(f, loop, pad)
  PROVE  /\ HasFields(g)
         /\ g.n = f.n /\ g.loops = f.loops
         /\ g.succs = With(With(f.succs, loop.preheader, ToEither(pad, f.succs[loop.header][2])),
                           loop.header, To(f.succs[loop.header][1]))
         /\ g.code = With(With(f.code, loop.preheader,
                              Followed(f.code[loop.preheader], HeaderRest(f, loop))),
                          loop.header, HeaderPhis(f, loop))
         /\ SameEntries(g.incoming, f.incoming)
<1>1. PICK cond, is, c, sub :
        /\ c = [f EXCEPT !.succs[loop.preheader] = <<pad, f.succs[loop.header][2]>>,
                         !.succs[loop.header] = <<f.succs[loop.header][1]>>,
                         !.code[loop.preheader] = f.code[loop.preheader] \o HeaderRest(f, loop),
                         !.code[loop.header] = HeaderPhis(f, loop),
                         !.cond = cond]
        /\ g = ReplaceUses(c, is, {loop.preheader}, sub)
  BY Zenon DEF MoveCondFromHeaderToPreheader
<1>2. /\ HasFields(c) /\ c.n = f.n /\ c.loops = f.loops /\ c.incoming = f.incoming
      /\ c.succs = With(With(f.succs, loop.preheader, ToEither(pad, f.succs[loop.header][2])),
                        loop.header, To(f.succs[loop.header][1]))
      /\ c.code = With(With(f.code, loop.preheader,
                           Followed(f.code[loop.preheader], HeaderRest(f, loop))),
                       loop.header, HeaderPhis(f, loop))
  BY <1>1 DEF HasFields, With, To, ToEither, Followed
<1>3. g = ReplaceUses(c, is, {loop.preheader}, sub)
  BY <1>1
<1>4. /\ HasFields(g) /\ g.n = c.n /\ g.succs = c.succs /\ g.code = c.code /\ g.loops = c.loops
      /\ SameEntries(g.incoming, c.incoming)
  BY <1>2, <1>3, ReplaceFields
<1>5. QED
  BY <1>2, <1>4

JoinsOf(f, loop) == [k \in DOMAIN HeaderPhis(f, loop) |-> AtExit(f, loop)[HeaderPhis(f, loop)[k]]]

JoinNames(f, loop) == {AtExit(f, loop)[phi] : phi \in DOMAIN AtExit(f, loop)}

(***************************************************************************)
(* The phi nodes at the exit, each with an entry for the latch and one for *)
(* the preheader.                                                          *)
(***************************************************************************)
LEMMA JoinsAre == ASSUME NEW f, NEW loop PROVE ToSet(JoinsOf(f, loop)) = JoinNames(f, loop)
<1>1. PICK phis : phis = HeaderPhis(f, loop)
  OBVIOUS
<1>2. DOMAIN AtExit(f, loop) = ToSet(phis)
  BY <1>1 DEF AtExit
<1>3. QED
  BY <1>1, <1>2 DEF JoinsOf, JoinNames, ToSet

\* Two entries, from the blocks b and c.
FromEither(entries, b, c) == \E u, v : entries = <<<<u, b>>, <<v, c>>>>

WithJoins(in, f, loop, out) ==
  /\ DOMAIN out = DOMAIN in \cup JoinNames(f, loop)
  /\ \A i \in JoinNames(f, loop) : FromEither(out[i], loop.latch, loop.preheader)
  /\ \A i \in DOMAIN in : i \in JoinNames(f, loop) \/ out[i] = in[i]

LEMMA EntriesAre ==
  ASSUME NEW f, NEW loop, NEW in
  PROVE  WithJoins(in, f, loop, JoinEntries(f, loop, in))
  BY DEF JoinEntries, JoinNames, FromEither, WithJoins

\* The entries of g are those of s, with those of the phi nodes made for m.
AreJoined(g, m, s, loop) ==
  \E in : SameEntries(in, s.incoming) /\ g.incoming = JoinEntries(m, loop, in)

(***************************************************************************)
(* Joining at the exit.                                                    *)
(***************************************************************************)
LEMMA JoinFields ==
  ASSUME NEW f, HasFields(f), NEW loop, NEW exit, exit = f.succs[loop.preheader][2],
         NEW s, s = SplitBlock(f, exit, 0, loop.parents),
         NEW g, g = JoinPreheaderAndLatchAtExit(f, loop)
  PROVE  /\ HasFields(g)
         /\ g.n = s.n /\ g.loops = s.loops /\ g.succs = s.succs
         /\ g.code = With(s.code, exit, Reverse(JoinsOf(f, loop)))
         /\ AreJoined(g, f, s, loop)
<1>1. PICK users, bs, sub, h :
        /\ h = ReplaceUses(SplitBlock(f, f.succs[loop.preheader][2], 0, loop.parents),
                           users, bs, sub)
        /\ g = [h EXCEPT !.code[f.succs[loop.preheader][2]] = Reverse(JoinsOf(f, loop)),
                         !.incoming = JoinEntries(f, loop, h.incoming)]
  BY Zenon DEF JoinPreheaderAndLatchAtExit, JoinsOf
<1>2. HasFields(s)
  BY SplitFields
<1>3. h = ReplaceUses(s, users, bs, sub)
  BY <1>1
<1>4. /\ HasFields(h) /\ h.n = s.n /\ h.loops = s.loops /\ h.succs = s.succs /\ h.code = s.code
      /\ SameEntries(h.incoming, s.incoming)
  BY <1>2, <1>3, ReplaceFields
<1>5. /\ HasFields(g) /\ g.n = h.n /\ g.loops = h.loops /\ g.succs = h.succs
      /\ g.code = [h.code EXCEPT ![exit] = Reverse(JoinsOf(f, loop))]
      /\ g.incoming = JoinEntries(f, loop, h.incoming)
  BY <1>1, <1>4 DEF HasFields
<1>6. QED
  BY <1>4, <1>5 DEF With, AreJoined

-----------------------------------------------------------------------------
(***************************************************************************)
(* The four steps of runOnLoop, one after the other.                       *)
(***************************************************************************)
Locals(f, loop) ==
  [header |-> loop.header, blocks |-> loop.blocks, parents |-> loop.parents,
   preheader |-> Preheader(f, loop), latch |-> Latch(f, loop)]

Split(f, w) == SplitBlock(f, w.preheader, Len(f.code[w.preheader]), w.parents)

Copied(f, w) == MoveCondFromHeaderToLatch(Split(f, w), w)

Moved(f, w) == MoveCondFromHeaderToPreheader(Copied(f, w), w, Copied(f, w).n)

Joined(f, w) == JoinPreheaderAndLatchAtExit(Moved(f, w), w)

\* The loop at k is the one the pass works on, with the locals w.
AtWork(f, k, w) ==
  /\ Sound(f, k) /\ k \in 1 .. Len(f.loops)
  /\ Preheader(f, f.loops[k]) # 0 /\ w = Locals(f, f.loops[k])

HasLatch(w) == w.latch \notin {0, w.header}

(***************************************************************************)
(* A set of blocks with one member.                                        *)
(***************************************************************************)
LEMMA OneMember ==
  ASSUME NEW n \in Nat, NEW S \in SUBSET (1 .. n), Cardinality(S) = 1
  PROVE  S = {CHOOSE p \in S : TRUE} /\ (CHOOSE p \in S : TRUE) \in 1 .. n
<1>1. IsFiniteSet(S)
  <2>1. IsFiniteSet(1 .. n)
    BY FS_Interval
  <2>2. QED
    BY <2>1, FS_Subset
<1>2. PICK y : S = {y}
  BY <1>1, FS_Singleton
<1>3. QED
  BY <1>2

(***************************************************************************)
(* The sequences of a program.                                             *)
(***************************************************************************)
LEMMA ProgramFacts ==
  ASSUME NEW f, IsProgram(f)
  PROVE  /\ HasFields(f) /\ f.n \in Nat
         /\ DOMAIN f.succs = Blocks(f) /\ DOMAIN f.code = Blocks(f)
         /\ Len(f.succs) = f.n /\ Len(f.code) = f.n
         /\ \A b \in Blocks(f) : f.succs[b] \in Seq(Blocks(f))
         /\ \A b \in Blocks(f) : f.code[b] \in Seq(InstructionsOf(f))
         /\ \A b \in Blocks(f) : Len(f.succs[b]) \in Nat /\ Len(f.code[b]) \in Nat
         /\ \A b \in Blocks(f) : Successors(f, b) \subseteq Blocks(f)
         /\ Len(f.loops) \in Nat /\ DOMAIN f.loops = 1 .. Len(f.loops)
         /\ \A k \in 1 .. Len(f.loops) : f.loops[k] \in LoopRecords(f)
<1>1. PICK T, U : T = Seq(Blocks(f)) /\ U = Seq(InstructionsOf(f))
  OBVIOUS
<1>2. /\ f.n \in Nat /\ f.succs \in Seq(T) /\ Len(f.succs) = f.n
      /\ f.code \in Seq(U) /\ Len(f.code) = f.n
  BY <1>1 DEF IsProgram
<1>3. /\ DOMAIN f.succs = Blocks(f) /\ \A b \in Blocks(f) : f.succs[b] \in T
      /\ DOMAIN f.code = Blocks(f) /\ \A b \in Blocks(f) : f.code[b] \in U
  BY <1>2 DEF Blocks
<1>4. ASSUME NEW b \in Blocks(f)
      PROVE  /\ Len(f.succs[b]) \in Nat /\ Len(f.code[b]) \in Nat
             /\ Successors(f, b) \subseteq Blocks(f)
  <2>1. PICK s, c : s = f.succs[b] /\ c = f.code[b]
    OBVIOUS
  <2>2. s \in Seq(Blocks(f)) /\ c \in Seq(InstructionsOf(f))
    BY <1>1, <1>3, <2>1
  <2>3. \A i \in 1 .. Len(s) : s[i] \in Blocks(f)
    BY <2>2
  <2>4. QED
    BY <2>1, <2>2, <2>3 DEF Successors
<1>5. /\ Len(f.loops) \in Nat /\ DOMAIN f.loops = 1 .. Len(f.loops)
      /\ \A k \in 1 .. Len(f.loops) : f.loops[k] \in LoopRecords(f)
  BY DEF IsProgram
<1>6. QED
  BY <1>1, <1>2, <1>3, <1>4, <1>5 DEF IsProgram, HasFields

(***************************************************************************)
(* The blocks around the loop: who leads to whom.                          *)
(***************************************************************************)
LEMMA PreheaderPlace ==
  ASSUME NEW f, NEW k, NEW w, AtWork(f, k, w), NEW loop, loop = f.loops[k],
         NEW p, p = w.preheader, NEW h, h = w.header
  PROVE  /\ h = loop.header /\ w.blocks = loop.blocks /\ w.parents = loop.parents
         /\ loop \in LoopRecords(f) /\ h \in loop.blocks /\ h \in Blocks(f)
         /\ p \in Blocks(f) \ loop.blocks
         /\ Predecessors(f, h) \ loop.blocks = {p}
         /\ f.succs[p] = <<h>> /\ Successors(f, p) = {h}
<1>1. /\ h = loop.header /\ w.blocks = loop.blocks /\ w.parents = loop.parents
      /\ p = Preheader(f, loop) /\ p # 0
  BY DEF AtWork, Locals
<1>2. /\ loop \in LoopRecords(f) /\ f.n \in Nat
      /\ \A b \in Blocks(f) : f.succs[b] \in Seq(Blocks(f))
  BY ProgramFacts DEF AtWork, Sound
<1>3. h \in loop.blocks /\ h \in Blocks(f)
  <2>1. IsNatural(f, loop)
    BY DEF AtWork, Sound, LoopsOK
  <2>2. QED
    BY <1>1, <1>2, <2>1 DEF IsNatural, LoopRecords
<1>4. PICK outside : outside = Predecessors(f, h) \ loop.blocks
  OBVIOUS
<1>5. /\ Cardinality(outside) = 1 /\ \A q \in outside : Len(f.succs[q]) = 1
      /\ p = CHOOSE q \in outside : TRUE
  BY <1>1, <1>4 DEF Preheader
<1>6. outside = {p} /\ p \in Blocks(f) \ loop.blocks /\ h \in Successors(f, p)
  <2>1. outside \in SUBSET (1 .. f.n)
    BY <1>4 DEF Predecessors, Blocks
  <2>2. outside = {p}
    BY <1>2, <1>5, <2>1, OneMember
  <2>3. QED
    BY <1>4, <2>2 DEF Predecessors
<1>7. f.succs[p] = <<h>> /\ Successors(f, p) = {h}
  <2>1. f.succs[p] \in Seq(Blocks(f)) /\ Len(f.succs[p]) = 1
    BY <1>2, <1>4, <1>5, <1>6
  <2>2. f.succs[p][1] = h
    BY <1>6, <2>1 DEF Successors
  <2>3. f.succs[p] = <<h>>
    BY <2>1, <2>2
  <2>4. QED
    BY <2>3 DEF Successors
<1>8. QED
  BY <1>1, <1>2, <1>3, <1>4, <1>6, <1>7

\* Names for the blocks: preheader, latch, header, exit and first block of the body.
Names(f, w, p, t, h, x, e) ==
  /\ p = w.preheader /\ t = w.latch /\ h = w.header
  /\ x = f.succs[h][2] /\ e = f.succs[h][1]

LEMMA LoopPlaces ==
  ASSUME NEW f, NEW k, NEW w, AtWork(f, k, w), HasLatch(w), NEW loop, loop = f.loops[k],
         NEW p, NEW t, NEW h, NEW x, NEW e, Names(f, w, p, t, h, x, e)
  PROVE  /\ {p, t, h, x, e} \subseteq Blocks(f) /\ {t, h, e} \subseteq loop.blocks
         /\ p \notin loop.blocks /\ x \notin loop.blocks
         /\ t # h /\ p # h /\ p # t /\ x # h /\ x # t /\ x # p /\ e # x
         /\ Predecessors(f, h) = {p, t} /\ Predecessors(f, x) = {h}
         /\ f.succs[p] = <<h>> /\ Successors(f, p) = {h}
         /\ f.succs[t] = <<h>> /\ Successors(f, t) = {h}
         /\ f.succs[h] = <<e, x>> /\ Successors(f, h) = {e, x}
         /\ h \notin Successors(f, x)
<1>1. /\ h = loop.header /\ p = w.preheader /\ t = w.latch
      /\ x = f.succs[h][2] /\ e = f.succs[h][1]
      /\ loop \in LoopRecords(f) /\ h \in loop.blocks /\ h \in Blocks(f)
      /\ p \in Blocks(f) \ loop.blocks
      /\ Predecessors(f, h) \ loop.blocks = {p}
      /\ f.succs[p] = <<h>> /\ Successors(f, p) = {h}
  BY PreheaderPlace DEF Names
<1>2. /\ f.n \in Nat /\ \A b \in Blocks(f) : f.succs[b] \in Seq(Blocks(f))
  BY ProgramFacts DEF AtWork, Sound
<1>3. IsNatural(f, loop) /\ HasOwnExit(f, loop)
  BY DEF AtWork, Sound, LoopsOK
<1>4. /\ f.succs[h] = <<e, x>> /\ e \in loop.blocks /\ e \in Blocks(f) /\ x \in Blocks(f)
      /\ Successors(f, h) = {e, x}
  <2>1. f.succs[h] \in Seq(Blocks(f)) /\ Len(f.succs[h]) = 2 /\ f.succs[h][1] \in loop.blocks
    BY <1>1, <1>2, <1>3 DEF IsNatural
  <2>2. f.succs[h] = <<e, x>>
    BY <1>1, <2>1
  <2>3. e \in Blocks(f) /\ x \in Blocks(f)
    BY <1>1, <2>1
  <2>4. Successors(f, h) = {e, x}
    BY <2>2 DEF Successors
  <2>5. QED
    BY <1>1, <2>1, <2>2, <2>3, <2>4
<1>5. x \notin loop.blocks /\ Predecessors(f, x) = {h} /\ h \notin Successors(f, x)
  BY <1>1, <1>3 DEF HasOwnExit, Exit
<1>6. PICK back : back = Predecessors(f, h) \cap loop.blocks
  OBVIOUS
<1>7. back = {t} /\ t \in Blocks(f)
  <2>1. back \in SUBSET (1 .. f.n)
    BY <1>6 DEF Predecessors, Blocks
  <2>2. t = Latch(f, loop)
    BY <1>1 DEF AtWork, Locals
  <2>3. t # 0
    BY <1>1 DEF HasLatch
  <2>4. Cardinality(back) = 1 /\ t = CHOOSE q \in back : TRUE
    BY <1>1, <1>6, <2>2, <2>3 DEF Latch
  <2>5. QED
    BY <1>2, <2>1, <2>4, OneMember DEF Blocks
<1>8. t \in loop.blocks /\ h \in Successors(f, t)
  BY <1>6, <1>7 DEF Predecessors
<1>9. t # h
  BY <1>1 DEF HasLatch, Names
<1>10. f.succs[t] = <<h>> /\ Successors(f, t) = {h}
  <2>1. f.succs[t] \in Seq(Blocks(f)) /\ Len(f.succs[t]) = 1
    BY <1>1, <1>2, <1>3, <1>7, <1>8, <1>9 DEF IsNatural
  <2>2. f.succs[t][1] = h
    BY <1>8, <2>1 DEF Successors
  <2>3. f.succs[t] = <<h>>
    BY <2>1, <2>2
  <2>4. QED
    BY <2>3 DEF Successors
<1>11. x # p
  <2>1. h \in Successors(f, p)
    BY <1>1
  <2>2. QED
    BY <1>5, <2>1
<1>12. Predecessors(f, h) = {p, t}
  BY <1>1, <1>6, <1>7
<1>13. QED
  BY <1>1, <1>4, <1>5, <1>7, <1>8, <1>9, <1>10, <1>11, <1>12

-----------------------------------------------------------------------------
(***************************************************************************)
(* Sequences as functions.                                                 *)
(***************************************************************************)
LEMMA FunctionIsSeq ==
  ASSUME NEW n \in Nat, NEW T, NEW s \in [1 .. n -> T]
  PROVE  s \in Seq(T) /\ Len(s) = n
  BY SeqDef

LEMMA SeqIsFunction ==
  ASSUME NEW T, NEW s \in Seq(T)
  PROVE  Len(s) \in Nat /\ s \in [1 .. Len(s) -> T] /\ s = [i \in 1 .. Len(s) |-> s[i]]
  OBVIOUS

\* The list s of length n, as a function.
IsList(s, n) == s = [i \in 1 .. n |-> s[i]]

\* The list s with e behind it, and with v at b as well.

Behind(s, e) == Append(s, e)

CutList(s, b, v, e) == Behind(With(s, b, v), e)

LEMMA WithIs ==
  ASSUME NEW n \in Nat, NEW s, IsList(s, n), NEW b \in 1 .. n, NEW v
  PROVE  /\ IsList(With(s, b, v), n) /\ With(s, b, v)[b] = v
         /\ \A i \in (1 .. n) \ {b} : With(s, b, v)[i] = s[i]
  BY DEF IsList, With

LEMMA BehindIs ==
  ASSUME NEW n \in Nat, NEW s, IsList(s, n), NEW e
  PROVE  /\ IsList(Behind(s, e), n + 1) /\ Behind(s, e)[n + 1] = e
         /\ \A i \in 1 .. n : Behind(s, e)[i] = s[i]
<1>1. PICK T : T = {s[i] : i \in 1 .. n} \cup {e}
  OBVIOUS
<1>2. s \in [1 .. n -> T] /\ e \in T
  BY <1>1 DEF IsList
<1>3. s \in Seq(T) /\ Len(s) = n
  BY <1>2, FunctionIsSeq
<1>4. PICK a : a = Behind(s, e)
  OBVIOUS
<1>5. /\ a \in Seq(T) /\ Len(a) = n + 1 /\ a[n + 1] = e
      /\ \A i \in 1 .. n : a[i] = s[i]
  BY <1>2, <1>3, <1>4 DEF Behind
<1>6. a = [i \in 1 .. n + 1 |-> a[i]]
  BY <1>5, SeqIsFunction
<1>7. QED
  BY <1>4, <1>5, <1>6 DEF IsList

LEMMA CutIs ==
  ASSUME NEW n \in Nat, NEW s, IsList(s, n), NEW b \in 1 .. n, NEW v, NEW e
  PROVE  /\ IsList(CutList(s, b, v, e), n + 1)
         /\ CutList(s, b, v, e)[n + 1] = e /\ CutList(s, b, v, e)[b] = v
         /\ \A i \in (1 .. n) \ {b} : CutList(s, b, v, e)[i] = s[i]
<1>1. PICK c : c = With(s, b, v)
  OBVIOUS
<1>2. IsList(c, n) /\ c[b] = v /\ \A i \in (1 .. n) \ {b} : c[i] = s[i]
  BY <1>1, WithIs
<1>3. PICK a : a = Behind(c, e)
  OBVIOUS
<1>4. IsList(a, n + 1) /\ a[n + 1] = e /\ \A i \in 1 .. n : a[i] = c[i]
  BY <1>2, <1>3, BehindIs
<1>5. a = CutList(s, b, v, e)
  BY <1>1, <1>3 DEF CutList
<1>6. QED
  BY <1>2, <1>4, <1>5

\* A program with n blocks.
Graphs(f, n) ==
  HasFields(f) /\ n \in Nat /\ f.n = n /\ IsList(f.succs, n) /\ IsList(f.code, n)

\* The program g is f with the block n + 1 behind b.
IsCut(f, g, n, b) ==
  /\ Graphs(g, n + 1)
  /\ g.succs[n + 1] = f.succs[b] /\ g.succs[b] = To(n + 1)
  /\ \A i \in (1 .. n) \ {b} : g.succs[i] = f.succs[i] /\ g.code[i] = f.code[i]

(***************************************************************************)
(* A program as lists, and a block cut in two.                             *)
(***************************************************************************)
LEMMA ProgramGraphs == ASSUME NEW f, IsProgram(f) PROVE Graphs(f, f.n)
<1>1. PICK T, U : T = Seq(Blocks(f)) /\ U = Seq(InstructionsOf(f))
  OBVIOUS
<1>2. /\ HasFields(f) /\ f.n \in Nat
      /\ f.succs \in Seq(T) /\ Len(f.succs) = f.n
      /\ f.code \in Seq(U) /\ Len(f.code) = f.n
  BY <1>1 DEF IsProgram, HasFields
<1>3. f.succs = [i \in 1 .. f.n |-> f.succs[i]] /\ f.code = [i \in 1 .. f.n |-> f.code[i]]
  BY <1>2
<1>4. QED
  BY <1>2, <1>3 DEF Graphs, IsList

LEMMA CutAtEnd ==
  ASSUME NEW V, NEW c \in Seq(V)
  PROVE  SubSeq(c, 1, Len(c)) = c /\ SubSeq(c, Len(c) + 1, Len(c)) = << >>
  OBVIOUS

LEMMA CutAtStart ==
  ASSUME NEW V, NEW c \in Seq(V)
  PROVE  SubSeq(c, 1, 0) = << >> /\ SubSeq(c, 0 + 1, Len(c)) = c
  OBVIOUS

LEMMA SplitGraph ==
  ASSUME NEW f, NEW n, Graphs(f, n), NEW b \in 1 .. n, NEW kept, NEW parents,
         NEW g, g = SplitBlock(f, b, kept, parents)
  PROVE  /\ IsCut(f, g, n, b)
         /\ g.code[b] = SubSeq(f.code[b], 1, kept)
         /\ g.code[n + 1] = SubSeq(f.code[b], kept + 1, Len(f.code[b]))
         /\ g.incoming = SplitEntries(f, b) /\ g.loops = SplitLoops(f, parents)
<1>1. PICK s, c, a, d, v, r :
        /\ s = f.succs /\ a = f.succs[b] /\ v = <<n + 1>>
        /\ c = f.code /\ d = SubSeq(f.code[b], 1, kept)
        /\ r = SubSeq(f.code[b], kept + 1, Len(f.code[b]))
  OBVIOUS
<1>2. HasFields(f) /\ n \in Nat /\ f.n = n /\ IsList(s, n) /\ IsList(c, n)
  BY <1>1 DEF Graphs
<1>3. /\ HasFields(g) /\ g.n = n + 1
      /\ g.succs = SplitSuccs(f, b) /\ g.code = SplitCode(f, b, kept)
      /\ g.incoming = SplitEntries(f, b) /\ g.loops = SplitLoops(f, parents)
  BY <1>2, SplitFields
<1>4. g.succs = CutList(s, b, v, a) /\ g.code = CutList(c, b, d, r)
  BY <1>1, <1>2, <1>3 DEF SplitSuccs, SplitCode, CutList, With, Behind
<1>5. /\ IsList(CutList(s, b, v, a), n + 1)
      /\ CutList(s, b, v, a)[n + 1] = a /\ CutList(s, b, v, a)[b] = v
      /\ \A i \in (1 .. n) \ {b} : CutList(s, b, v, a)[i] = s[i]
  BY <1>2, CutIs
<1>6. /\ IsList(CutList(c, b, d, r), n + 1)
      /\ CutList(c, b, d, r)[n + 1] = r /\ CutList(c, b, d, r)[b] = d
      /\ \A i \in (1 .. n) \ {b} : CutList(c, b, d, r)[i] = c[i]
  BY <1>2, CutIs
<1>7. Graphs(g, n + 1)
  BY <1>2, <1>3, <1>4, <1>5, <1>6 DEF Graphs
<1>8. QED
  BY <1>1, <1>3, <1>4, <1>5, <1>6, <1>7 DEF IsCut, To

-----------------------------------------------------------------------------
(***************************************************************************)
(* The program after each step.  The names are those of LoopPlaces.        *)
(***************************************************************************)
Setting(f, k, w, p, t, h, x, e) ==
  AtWork(f, k, w) /\ HasLatch(w) /\ Names(f, w, p, t, h, x, e)

LEMMA SplitStage ==
  ASSUME NEW f, NEW k, NEW w, NEW p, NEW t, NEW h, NEW x, NEW e,
         Setting(f, k, w, p, t, h, x, e)
  PROVE  /\ IsCut(f, Split(f, w), f.n, p)
         /\ Split(f, w).code[p] = f.code[p] /\ Split(f, w).code[f.n + 1] = << >>
         /\ Split(f, w).incoming = SplitEntries(f, p)
         /\ Split(f, w).loops = SplitLoops(f, w.parents)
<1>1. IsProgram(f) /\ p = w.preheader
  BY DEF Setting, AtWork, Sound, Names
<1>2. p \in 1 .. f.n
  BY LoopPlaces DEF Setting, Blocks
<1>3. Graphs(f, f.n)
  BY <1>1, ProgramGraphs
<1>4. SubSeq(f.code[p], 1, Len(f.code[p])) = f.code[p]
      /\ SubSeq(f.code[p], Len(f.code[p]) + 1, Len(f.code[p])) = << >>
  <2>1. PICK c : c = f.code[p]
    OBVIOUS
  <2>2. c \in Seq(InstructionsOf(f))
    BY <1>1, <1>2, <2>1, ProgramFacts DEF Blocks
  <2>3. QED
    BY <2>1, <2>2, CutAtEnd
<1>5. PICK n, kept, parents, g :
        n = f.n /\ kept = Len(f.code[p]) /\ parents = w.parents /\ g = Split(f, w)
  OBVIOUS
<1>6. Graphs(f, n) /\ p \in 1 .. n /\ g = SplitBlock(f, p, kept, parents)
  BY <1>1, <1>2, <1>3, <1>5 DEF Split
<1>7. /\ IsCut(f, g, n, p)
      /\ g.code[p] = SubSeq(f.code[p], 1, kept)
      /\ g.code[n + 1] = SubSeq(f.code[p], kept + 1, Len(f.code[p]))
      /\ g.incoming = SplitEntries(f, p) /\ g.loops = SplitLoops(f, parents)
  BY <1>6, SplitGraph
<1>8. QED
  BY <1>4, <1>5, <1>7

(***************************************************************************)
(* The phi nodes of the header and the rest of it.                         *)
(***************************************************************************)
Leading(c, phis) ==
  CHOOSE k \in 0 .. Len(c) :
    /\ \A j \in 1 .. k : c[j] \in phis
    /\ k < Len(c) => c[k + 1] \notin phis

LEMMA LeadingIs ==
  ASSUME NEW V, NEW c \in Seq(V), NEW phis, NEW m, m = Leading(c, phis)
  PROVE  /\ m \in 0 .. Len(c) /\ \A j \in 1 .. m : c[j] \in phis
         /\ m < Len(c) => c[m + 1] \notin phis
<1>1. PICK n : n = Len(c) /\ n \in Nat
  OBVIOUS
<1>2. PICK S : S = {i \in 1 .. n + 1 : \A j \in 1 .. i - 1 : c[j] \in phis}
  OBVIOUS
<1>3. S \subseteq 1 .. n + 1 /\ 1 \in S
  BY <1>1, <1>2
<1>4. PICK i \in S : \A j \in S : j <= i
  <2>1. n + 1 \in Nat /\ S # {}
    BY <1>1, <1>3
  <2>2. QED
    BY <1>3, <2>1, LargestPosition
<1>5. i \in 1 .. n + 1 /\ \A j \in 1 .. i - 1 : c[j] \in phis
  BY <1>2, <1>4
<1>6. ASSUME i <= n, c[i] \in phis PROVE FALSE
  <2>1. i + 1 \in 1 .. n + 1 /\ \A j \in 1 .. (i + 1) - 1 : c[j] \in phis
    BY <1>1, <1>5, <1>6
  <2>2. i + 1 \in S
    BY <1>2, <2>1
  <2>3. QED
    BY <1>4, <1>5, <2>2
<1>7. PICK k : k = i - 1
  OBVIOUS
<1>8. k \in 0 .. n /\ \A j \in 1 .. k : c[j] \in phis
  BY <1>1, <1>5, <1>7
<1>9. k < n => c[k + 1] \notin phis
  BY <1>1, <1>5, <1>6, <1>7
<1>10. \E q \in 0 .. Len(c) :
          (\A j \in 1 .. q : c[j] \in phis) /\ (q < Len(c) => c[q + 1] \notin phis)
  BY <1>1, <1>8, <1>9
<1>11. QED
  BY <1>10 DEF Leading

LEMMA LeadingPhisAre ==
  ASSUME NEW f, NEW b PROVE LeadingPhis(f, b) = Leading(f.code[b], DOMAIN f.incoming)
  BY Zenon DEF LeadingPhis, Leading

\* The header's code c, phi nodes first, is cut in the two parts.
IsHeader(c, phis, first, rest) ==
  /\ \E V : c \in Seq(V) /\ first \in Seq(V) /\ rest \in Seq(V)
  /\ ToSet(first) = ToSet(c) \cap phis /\ ToSet(rest) = ToSet(c) \ phis

LEMMA HeaderParts ==
  ASSUME NEW V, NEW c \in Seq(V), NEW phis, NEW m, m = Leading(c, phis),
         \A j, k \in 1 .. Len(c) : j < k /\ c[k] \in phis => c[j] \in phis
  PROVE  IsHeader(c, phis, SubSeq(c, 1, m), SubSeq(c, m + 1, Len(c)))
<1>1. PICK n : n = Len(c) /\ n \in Nat
  OBVIOUS
<1>2. m \in 0 .. n /\ (\A j \in 1 .. m : c[j] \in phis) /\ (m < n => c[m + 1] \notin phis)
  BY <1>1, LeadingIs
<1>3. \A j \in m + 1 .. n : c[j] \notin phis
  BY <1>1, <1>2
<1>4. PICK first, rest : first = SubSeq(c, 1, m) /\ rest = SubSeq(c, m + 1, n)
  OBVIOUS
<1>5. first \in Seq(V) /\ Len(first) = m /\ \A j \in 1 .. m : first[j] = c[j]
  BY <1>1, <1>2, <1>4
<1>6. rest \in Seq(V) /\ Len(rest) = n - m /\ \A j \in 1 .. n - m : rest[j] = c[m + j]
  BY <1>1, <1>2, <1>4
<1>7. ToSet(c) = {c[j] : j \in 1 .. n} /\ ToSet(first) = {c[j] : j \in 1 .. m}
  BY <1>1, <1>5 DEF ToSet
<1>8. ToSet(rest) = {c[j] : j \in m + 1 .. n}
  <2>1. ToSet(rest) = {c[m + j] : j \in 1 .. n - m}
    BY <1>6 DEF ToSet
  <2>2. ASSUME NEW j \in m + 1 .. n PROVE c[j] \in {c[m + i] : i \in 1 .. n - m}
    <3>1. j - m \in 1 .. n - m /\ m + (j - m) = j
      BY <1>1, <1>2
    <3>2. QED
      BY <3>1
  <2>3. \A i \in 1 .. n - m : m + i \in m + 1 .. n
    BY <1>1, <1>2
  <2>4. QED
    BY <2>1, <2>2, <2>3
<1>9. 1 .. n = (1 .. m) \cup (m + 1 .. n)
  BY <1>1, <1>2
<1>10. ToSet(first) = ToSet(c) \cap phis /\ ToSet(rest) = ToSet(c) \ phis
  BY <1>2, <1>3, <1>7, <1>8, <1>9
<1>11. QED
  BY <1>1, <1>4, <1>5, <1>6, <1>10 DEF IsHeader

LEMMA HeaderSame ==
  ASSUME NEW f, NEW g, NEW w, g.code[w.header] = f.code[w.header],
         DOMAIN g.incoming = DOMAIN f.incoming
  PROVE  /\ HeaderPhis(g, w) = HeaderPhis(f, w) /\ HeaderRest(g, w) = HeaderRest(f, w)
         /\ Clones(g, w) = Clones(f, w)
<1>1. LeadingPhis(g, w.header) = LeadingPhis(f, w.header)
  BY LeadingPhisAre, Zenon
<1>2. HeaderPhis(g, w) = HeaderPhis(f, w) /\ HeaderRest(g, w) = HeaderRest(f, w)
  BY <1>1, Zenon DEF HeaderPhis, HeaderRest
<1>3. QED
  BY <1>2, Zenon DEF Clones

LEMMA HeaderData ==
  ASSUME NEW f, NEW k, NEW w, NEW p, NEW t, NEW h, NEW x, NEW e,
         Setting(f, k, w, p, t, h, x, e)
  PROVE  IsHeader(f.code[h], DOMAIN f.incoming, HeaderPhis(f, w), HeaderRest(f, w))
<1>1. IsProgram(f) /\ h = w.header /\ w.header = f.loops[k].header /\ HasHeader(f, f.loops[k])
  BY DEF Setting, AtWork, Sound, Names, LoopsOK, Locals
<1>2. h \in Blocks(f)
  BY LoopPlaces DEF Setting
<1>3. PICK V, c, phis, m :
        /\ V = InstructionsOf(f) /\ c = f.code[h] /\ phis = DOMAIN f.incoming
        /\ m = Leading(c, phis)
  OBVIOUS
<1>4. c \in Seq(V)
  BY <1>1, <1>2, <1>3, ProgramFacts
<1>5. \A i, j \in 1 .. Len(c) : i < j /\ c[j] \in phis => c[i] \in phis
  BY <1>1, <1>3 DEF HasHeader
<1>6. IsHeader(c, phis, SubSeq(c, 1, m), SubSeq(c, m + 1, Len(c)))
  BY <1>3, <1>4, <1>5, HeaderParts
<1>7. LeadingPhis(f, h) = m
  BY <1>3, LeadingPhisAre, Zenon
<1>8. HeaderPhis(f, w) = SubSeq(c, 1, m) /\ HeaderRest(f, w) = SubSeq(c, m + 1, Len(c))
  BY <1>1, <1>3, <1>7, Zenon DEF HeaderPhis, HeaderRest
<1>9. QED
  BY <1>3, <1>6, <1>8

\* The program g that each step makes of f, with n + 1 for the landing pad.
IsSplit(f, g, w, n, p, h) ==
  /\ Graphs(g, n + 1)
  /\ g.succs[n + 1] = To(h) /\ g.succs[p] = To(n + 1)
  /\ \A b \in (1 .. n) \ {p} : g.succs[b] = f.succs[b]
  /\ g.code[n + 1] = Nothing
  /\ \A b \in 1 .. n : g.code[b] = f.code[b]
  /\ SameEntries(g.incoming, SplitEntries(f, p)) /\ g.loops = SplitLoops(f, w.parents)

IsCopied(f, g, w, n, p, t, h, x) ==
  /\ Graphs(g, n + 1)
  /\ g.succs[n + 1] = To(h) /\ g.succs[p] = To(n + 1) /\ g.succs[t] = ToEither(h, x)
  /\ \A b \in (1 .. n) \ {p, t} : g.succs[b] = f.succs[b]
  /\ g.code[n + 1] = Nothing /\ g.code[t] = Followed(f.code[t], Clones(f, w))
  /\ \A b \in (1 .. n) \ {t} : g.code[b] = f.code[b]
  /\ SameEntries(g.incoming, SplitEntries(f, p)) /\ g.loops = SplitLoops(f, w.parents)

IsMoved(f, g, w, n, p, t, h, x, e) ==
  /\ Graphs(g, n + 1)
  /\ g.succs[n + 1] = To(h) /\ g.succs[p] = ToEither(n + 1, x) /\ g.succs[t] = ToEither(h, x)
  /\ g.succs[h] = To(e)
  /\ \A b \in (1 .. n) \ {p, t, h} : g.succs[b] = f.succs[b]
  /\ g.code[n + 1] = Nothing /\ g.code[t] = Followed(f.code[t], Clones(f, w))
  /\ g.code[p] = Followed(f.code[p], HeaderRest(f, w)) /\ g.code[h] = HeaderPhis(f, w)
  /\ \A b \in (1 .. n) \ {p, t, h} : g.code[b] = f.code[b]
  /\ SameEntries(g.incoming, SplitEntries(f, p)) /\ g.loops = SplitLoops(f, w.parents)

(***************************************************************************)
(* After SplitPreheader.                                                   *)
(***************************************************************************)
LEMMA AfterSplit ==
  ASSUME NEW f, NEW k, NEW w, NEW p, NEW t, NEW h, NEW x, NEW e,
         Setting(f, k, w, p, t, h, x, e)
  PROVE  IsSplit(f, Split(f, w), w, f.n, p, h)
<1>1. PICK n, g : n = f.n /\ g = Split(f, w)
  OBVIOUS
<1>2. /\ IsCut(f, g, n, p) /\ g.code[p] = f.code[p] /\ g.code[n + 1] = Nothing
      /\ g.incoming = SplitEntries(f, p) /\ g.loops = SplitLoops(f, w.parents)
  BY <1>1, SplitStage DEF Nothing
<1>3. f.succs[p] = To(h)
  BY LoopPlaces DEF Setting, To
<1>4. SameEntries(g.incoming, SplitEntries(f, p))
  BY <1>2 DEF SameEntries
<1>5. IsSplit(f, g, w, n, p, h)
  BY <1>2, <1>3, <1>4 DEF IsCut, IsSplit
<1>6. QED
  BY <1>1, <1>5

(***************************************************************************)
(* After CloneToLatch.                                                     *)
(***************************************************************************)
LEMMA AfterCopy ==
  ASSUME NEW f, NEW k, NEW w, NEW p, NEW t, NEW h, NEW x, NEW e,
         Setting(f, k, w, p, t, h, x, e)
  PROVE  IsCopied(f, Copied(f, w), w, f.n, p, t, h, x)
<1>1. PICK n, g, r : n = f.n /\ g = Split(f, w) /\ r = Copied(f, w)
  OBVIOUS
<1>2. /\ {p, t, h, x} \subseteq 1 .. n /\ p # t /\ p # h /\ t # h
      /\ f.succs[h] = <<e, x>>
  BY <1>1, LoopPlaces DEF Setting, Blocks
<1>3. t = w.latch /\ h = w.header
  BY DEF Setting, Names
<1>4. IsSplit(f, g, w, n, p, h)
  BY <1>1, AfterSplit
<1>5. /\ HasFields(g) /\ n \in Nat /\ n + 1 \in Nat /\ g.n = n + 1
      /\ IsList(g.succs, n + 1) /\ IsList(g.code, n + 1)
  <2>1. n \in Nat
    BY <1>1, ProgramFacts DEF Setting, AtWork, Sound
  <2>2. QED
    BY <1>4, <2>1 DEF IsSplit, Graphs
<1>6. /\ HasFields(r) /\ r.n = g.n /\ r.loops = g.loops
      /\ r.succs = With(g.succs, t, ToEither(h, g.succs[h][2]))
      /\ r.code = With(g.code, t, Followed(g.code[t], Clones(g, w)))
      /\ SameEntries(r.incoming, g.incoming)
  <2>1. r = MoveCondFromHeaderToLatch(g, w)
    BY <1>1 DEF Copied
  <2>2. QED
    BY <1>3, <1>5, <2>1, LatchFields
<1>7. g.succs[h][2] = x /\ g.code[t] = f.code[t] /\ g.code[h] = f.code[h]
  BY <1>2, <1>4 DEF IsSplit
<1>8. Clones(g, w) = Clones(f, w)
  <2>1. DOMAIN g.incoming = DOMAIN f.incoming
    BY <1>4 DEF IsSplit, SameEntries, SplitEntries
  <2>2. QED
    BY <1>3, <1>7, <2>1, HeaderSame
<1>9. PICK s, c, u, v : s = g.succs /\ c = g.code /\ u = ToEither(h, x) /\ v = Followed(f.code[t], Clones(f, w))
  OBVIOUS
<1>10. r.succs = With(s, t, u) /\ r.code = With(c, t, v)
  BY <1>6, <1>7, <1>8, <1>9
<1>11. /\ IsList(With(s, t, u), n + 1) /\ With(s, t, u)[t] = u
       /\ \A b \in (1 .. n + 1) \ {t} : With(s, t, u)[b] = s[b]
       /\ IsList(With(c, t, v), n + 1) /\ With(c, t, v)[t] = v
       /\ \A b \in (1 .. n + 1) \ {t} : With(c, t, v)[b] = c[b]
  <2>1. n + 1 \in Nat /\ t \in 1 .. n + 1 /\ IsList(s, n + 1) /\ IsList(c, n + 1)
    BY <1>2, <1>5, <1>9
  <2>2. QED
    BY <2>1, WithIs
<1>12. Graphs(r, n + 1)
  BY <1>5, <1>6, <1>10, <1>11 DEF Graphs
<1>13. SameEntries(r.incoming, SplitEntries(f, p)) /\ r.loops = SplitLoops(f, w.parents)
  BY <1>4, <1>6 DEF IsSplit, SameEntries
<1>14. /\ r.succs[n + 1] = To(h) /\ r.succs[p] = To(n + 1) /\ r.succs[t] = ToEither(h, x)
       /\ \A b \in (1 .. n) \ {p, t} : r.succs[b] = f.succs[b]
  BY <1>2, <1>4, <1>5, <1>9, <1>10, <1>11 DEF IsSplit
<1>15. /\ r.code[n + 1] = Nothing /\ r.code[t] = Followed(f.code[t], Clones(f, w))
       /\ \A b \in (1 .. n) \ {t} : r.code[b] = f.code[b]
  BY <1>2, <1>4, <1>5, <1>9, <1>10, <1>11 DEF IsSplit
<1>16. IsCopied(f, r, w, n, p, t, h, x)
  BY <1>12, <1>13, <1>14, <1>15 DEF IsCopied
<1>17. QED
  BY <1>1, <1>16

(***************************************************************************)
(* After MoveToPreheader.                                                  *)
(***************************************************************************)
LEMMA AfterMove ==
  ASSUME NEW f, NEW k, NEW w, NEW p, NEW t, NEW h, NEW x, NEW e,
         Setting(f, k, w, p, t, h, x, e)
  PROVE  IsMoved(f, Moved(f, w), w, f.n, p, t, h, x, e)
<1>1. PICK n, g, r : n = f.n /\ g = Copied(f, w) /\ r = Moved(f, w)
  OBVIOUS
<1>2. /\ {p, t, h, x} \subseteq 1 .. n /\ p # t /\ p # h /\ t # h
      /\ f.succs[h] = <<e, x>>
  BY <1>1, LoopPlaces DEF Setting, Blocks
<1>3. p = w.preheader /\ h = w.header
  BY DEF Setting, Names
<1>4. IsCopied(f, g, w, n, p, t, h, x)
  BY <1>1, AfterCopy
<1>5. /\ HasFields(g) /\ n \in Nat /\ n + 1 \in Nat /\ g.n = n + 1
      /\ IsList(g.succs, n + 1) /\ IsList(g.code, n + 1)
  <2>1. n \in Nat
    BY <1>1, ProgramFacts DEF Setting, AtWork, Sound
  <2>2. QED
    BY <1>4, <2>1 DEF IsCopied, Graphs
<1>6. /\ HasFields(r) /\ r.n = g.n /\ r.loops = g.loops
      /\ r.succs = With(With(g.succs, p, ToEither(g.n, g.succs[h][2])), h, To(g.succs[h][1]))
      /\ r.code = With(With(g.code, p, Followed(g.code[p], HeaderRest(g, w))), h, HeaderPhis(g, w))
      /\ SameEntries(r.incoming, g.incoming)
  <2>1. r = MoveCondFromHeaderToPreheader(g, w, g.n)
    BY <1>1 DEF Moved
  <2>2. QED
    BY <1>3, <1>5, <2>1, PreheaderFields
<1>7. /\ g.succs[h][2] = x /\ g.succs[h][1] = e
      /\ g.code[p] = f.code[p] /\ g.code[h] = f.code[h]
  BY <1>2, <1>4 DEF IsCopied
<1>8. HeaderRest(g, w) = HeaderRest(f, w) /\ HeaderPhis(g, w) = HeaderPhis(f, w)
  <2>1. DOMAIN g.incoming = DOMAIN f.incoming
    BY <1>4 DEF IsCopied, SameEntries, SplitEntries
  <2>2. QED
    BY <1>3, <1>7, <2>1, HeaderSame
<1>9. PICK s, c, u, v, y, z :
        /\ s = g.succs /\ c = g.code
        /\ u = ToEither(n + 1, x) /\ v = Followed(f.code[p], HeaderRest(f, w))
        /\ y = To(e) /\ z = HeaderPhis(f, w)
  OBVIOUS
<1>10. r.succs = With(With(s, p, u), h, y) /\ r.code = With(With(c, p, v), h, z)
  BY <1>5, <1>6, <1>7, <1>8, <1>9
<1>11. PICK s1, c1 : s1 = With(s, p, u) /\ c1 = With(c, p, v)
  OBVIOUS
<1>12. /\ IsList(s1, n + 1) /\ s1[p] = u /\ \A b \in (1 .. n + 1) \ {p} : s1[b] = s[b]
       /\ IsList(c1, n + 1) /\ c1[p] = v /\ \A b \in (1 .. n + 1) \ {p} : c1[b] = c[b]
  <2>1. n + 1 \in Nat /\ p \in 1 .. n + 1 /\ IsList(s, n + 1) /\ IsList(c, n + 1)
    BY <1>2, <1>5, <1>9
  <2>2. QED
    BY <1>11, <2>1, WithIs
<1>13. /\ IsList(With(s1, h, y), n + 1) /\ With(s1, h, y)[h] = y
       /\ \A b \in (1 .. n + 1) \ {h} : With(s1, h, y)[b] = s1[b]
       /\ IsList(With(c1, h, z), n + 1) /\ With(c1, h, z)[h] = z
       /\ \A b \in (1 .. n + 1) \ {h} : With(c1, h, z)[b] = c1[b]
  <2>1. n + 1 \in Nat /\ h \in 1 .. n + 1
    BY <1>2, <1>5
  <2>2. QED
    BY <1>12, <2>1, WithIs
<1>14. r.succs = With(s1, h, y) /\ r.code = With(c1, h, z)
  BY <1>10, <1>11
<1>15. /\ IsList(r.succs, n + 1) /\ r.succs[h] = y /\ r.succs[p] = u
       /\ \A b \in (1 .. n + 1) \ {p, h} : r.succs[b] = s[b]
       /\ IsList(r.code, n + 1) /\ r.code[h] = z /\ r.code[p] = v
       /\ \A b \in (1 .. n + 1) \ {p, h} : r.code[b] = c[b]
  BY <1>2, <1>5, <1>12, <1>13, <1>14
<1>16. Graphs(r, n + 1)
  BY <1>5, <1>6, <1>15 DEF Graphs
<1>17. SameEntries(r.incoming, SplitEntries(f, p)) /\ r.loops = SplitLoops(f, w.parents)
  BY <1>4, <1>6 DEF IsCopied, SameEntries
<1>18. /\ r.succs[n + 1] = To(h) /\ r.succs[p] = ToEither(n + 1, x)
       /\ r.succs[t] = ToEither(h, x) /\ r.succs[h] = To(e)
       /\ \A b \in (1 .. n) \ {p, t, h} : r.succs[b] = f.succs[b]
  BY <1>2, <1>4, <1>5, <1>9, <1>15 DEF IsCopied
<1>19. /\ r.code[n + 1] = Nothing /\ r.code[t] = Followed(f.code[t], Clones(f, w))
       /\ r.code[p] = Followed(f.code[p], HeaderRest(f, w)) /\ r.code[h] = HeaderPhis(f, w)
       /\ \A b \in (1 .. n) \ {p, t, h} : r.code[b] = f.code[b]
  BY <1>2, <1>4, <1>5, <1>9, <1>15 DEF IsCopied
<1>20. IsMoved(f, r, w, n, p, t, h, x, e)
  BY <1>16, <1>17, <1>18, <1>19 DEF IsMoved
<1>21. QED
  BY <1>1, <1>20

\* After the joining: the names of the phi nodes made, the block n + 2 behind
\* the exit, and entries under their second names.
IsJoined(f, g, m, w, n, p, t, h, x, e) ==
  /\ Graphs(g, n + 2)
  /\ g.succs[n + 1] = To(h) /\ g.succs[p] = ToEither(n + 1, x) /\ g.succs[t] = ToEither(h, x)
  /\ g.succs[h] = To(e) /\ g.succs[x] = To(n + 2) /\ g.succs[n + 2] = f.succs[x]
  /\ \A b \in (1 .. n) \ {p, t, h, x} : g.succs[b] = f.succs[b]
  /\ g.code[n + 1] = Nothing /\ g.code[t] = Followed(f.code[t], Clones(f, w))
  /\ g.code[p] = Followed(f.code[p], HeaderRest(f, w)) /\ g.code[h] = HeaderPhis(f, w)
  /\ g.code[x] = Reverse(JoinsOf(m, w)) /\ g.code[n + 2] = f.code[x]
  /\ \A b \in (1 .. n) \ {p, t, h, x} : g.code[b] = f.code[b]
  /\ \E in : SameEntries(in, SplitEntries(m, x)) /\ g.incoming = JoinEntries(m, w, in)
  /\ g.loops = SplitLoops(m, w.parents)

(***************************************************************************)
(* After JoinAtExit.                                                       *)
(***************************************************************************)
LEMMA AfterJoin ==
  ASSUME NEW f, NEW k, NEW w, NEW p, NEW t, NEW h, NEW x, NEW e,
         Setting(f, k, w, p, t, h, x, e)
  PROVE  IsJoined(f, Joined(f, w), Moved(f, w), w, f.n, p, t, h, x, e)
<1>1. PICK n, m, r : n = f.n /\ m = Moved(f, w) /\ r = Joined(f, w)
  OBVIOUS
<1>2. /\ {p, t, h, x} \subseteq 1 .. n /\ p # t /\ p # h /\ t # h /\ x \notin {p, t, h}
      /\ n \in Nat
  <2>1. n \in Nat
    BY <1>1, ProgramFacts DEF Setting, AtWork, Sound
  <2>2. QED
    BY <1>1, <2>1, LoopPlaces DEF Setting, Blocks
<1>3. p = w.preheader /\ h = w.header
  BY DEF Setting, Names
<1>4. IsMoved(f, m, w, n, p, t, h, x, e)
  BY <1>1, AfterMove
<1>5. Graphs(m, n + 1) /\ HasFields(m) /\ m.succs[w.preheader][2] = x /\ m.succs[x] = f.succs[x]
      /\ m.code[x] = f.code[x]
  BY <1>2, <1>3, <1>4 DEF IsMoved, Graphs, ToEither
<1>6. PICK s, parents : s = SplitBlock(m, x, 0, parents) /\ parents = w.parents
  OBVIOUS
<1>7. /\ IsCut(m, s, n + 1, x)
      /\ s.code[x] = SubSeq(m.code[x], 1, 0)
      /\ s.code[n + 1 + 1] = SubSeq(m.code[x], 0 + 1, Len(m.code[x]))
      /\ s.incoming = SplitEntries(m, x) /\ s.loops = SplitLoops(m, parents)
  <2>1. PICK n1 : n1 = n + 1
    OBVIOUS
  <2>2. PICK kept : kept = 0
    OBVIOUS
  <2>3. Graphs(m, n1) /\ x \in 1 .. n1 /\ s = SplitBlock(m, x, kept, parents)
    BY <1>2, <1>5, <1>6, <2>1, <2>2
  <2>4. /\ IsCut(m, s, n1, x)
        /\ s.code[x] = SubSeq(m.code[x], 1, kept)
        /\ s.code[n1 + 1] = SubSeq(m.code[x], kept + 1, Len(m.code[x]))
        /\ s.incoming = SplitEntries(m, x) /\ s.loops = SplitLoops(m, parents)
    BY <2>3, SplitGraph
  <2>5. QED
    BY <2>1, <2>2, <2>4
<1>8. SubSeq(m.code[x], 0 + 1, Len(m.code[x])) = f.code[x]
  <2>1. PICK c : c = f.code[x]
    OBVIOUS
  <2>2. c \in Seq(InstructionsOf(f))
    BY <1>1, <1>2, <2>1, ProgramFacts DEF Setting, AtWork, Sound, Blocks
  <2>3. QED
    BY <1>5, <2>1, <2>2, CutAtStart
<1>9. /\ HasFields(r) /\ r.n = s.n /\ r.loops = s.loops /\ r.succs = s.succs
      /\ r.code = With(s.code, x, Reverse(JoinsOf(m, w)))
      /\ \E in : SameEntries(in, s.incoming) /\ r.incoming = JoinEntries(m, w, in)
  <2>1. r = JoinPreheaderAndLatchAtExit(m, w)
    BY <1>1 DEF Joined
  <2>2. x = m.succs[w.preheader][2] /\ s = SplitBlock(m, x, 0, w.parents) /\ HasFields(m)
    BY <1>5, <1>6
  <2>3. /\ HasFields(r) /\ r.n = s.n /\ r.loops = s.loops /\ r.succs = s.succs
        /\ r.code = With(s.code, x, Reverse(JoinsOf(m, w)))
        /\ AreJoined(r, m, s, w)
    BY <2>1, <2>2, JoinFields
  <2>4. QED
    BY <2>3 DEF AreJoined
<1>10. Graphs(s, n + 2)
  <2>1. n + 1 + 1 = n + 2
    BY <1>2
  <2>2. QED
    BY <1>7, <2>1 DEF IsCut
<1>11. PICK c, j : c = s.code /\ j = Reverse(JoinsOf(m, w))
  OBVIOUS
<1>12. /\ IsList(With(c, x, j), n + 2) /\ With(c, x, j)[x] = j
       /\ \A b \in (1 .. n + 2) \ {x} : With(c, x, j)[b] = c[b]
  <2>1. n + 2 \in Nat /\ x \in 1 .. n + 2 /\ IsList(c, n + 2)
    BY <1>2, <1>10, <1>11 DEF Graphs
  <2>2. QED
    BY <2>1, WithIs
<1>13. Graphs(r, n + 2)
  BY <1>9, <1>10, <1>11, <1>12 DEF Graphs
<1>14. /\ s.succs[n + 2] = m.succs[x] /\ s.succs[x] = To(n + 2)
       /\ \A b \in (1 .. n + 1) \ {x} : s.succs[b] = m.succs[b] /\ s.code[b] = m.code[b]
       /\ s.code[n + 2] = f.code[x]
  <2>1. n + 1 + 1 = n + 2
    BY <1>2
  <2>2. QED
    BY <1>7, <1>8, <2>1 DEF IsCut
<1>15. /\ r.succs[n + 1] = To(h) /\ r.succs[p] = ToEither(n + 1, x)
       /\ r.succs[t] = ToEither(h, x) /\ r.succs[h] = To(e)
       /\ r.succs[x] = To(n + 2) /\ r.succs[n + 2] = f.succs[x]
       /\ \A b \in (1 .. n) \ {p, t, h, x} : r.succs[b] = f.succs[b]
  BY <1>2, <1>4, <1>5, <1>9, <1>14 DEF IsMoved
<1>16. /\ r.code[x] = j /\ \A b \in (1 .. n + 1) \ {x} : r.code[b] = m.code[b]
       /\ r.code[n + 2] = f.code[x]
  BY <1>2, <1>9, <1>11, <1>12, <1>14
<1>17. /\ r.code[n + 1] = Nothing /\ r.code[t] = Followed(f.code[t], Clones(f, w))
       /\ r.code[p] = Followed(f.code[p], HeaderRest(f, w)) /\ r.code[h] = HeaderPhis(f, w)
       /\ \A b \in (1 .. n) \ {p, t, h, x} : r.code[b] = f.code[b]
  BY <1>2, <1>4, <1>16 DEF IsMoved
<1>18. /\ \E in : SameEntries(in, SplitEntries(m, x)) /\ r.incoming = JoinEntries(m, w, in)
       /\ r.loops = SplitLoops(m, w.parents)
  BY <1>6, <1>7, <1>9
<1>19. IsJoined(f, r, m, w, n, p, t, h, x, e)
  BY <1>11, <1>13, <1>15, <1>16, <1>17, <1>18 DEF IsJoined
<1>20. QED
  BY <1>1, <1>19

-----------------------------------------------------------------------------
(***************************************************************************)
(* The graph after a rotation.                                             *)
(***************************************************************************)
\* Who leads to whom in f, about the loop: the facts of LoopPlaces.
InPlace(f, n, p, t, h, x, e) ==
  /\ n \in Nat /\ f.n = n
  /\ {p, t, h, x, e} \subseteq 1 .. n
  /\ t # h /\ p # h /\ p # t /\ x # h /\ x # t /\ x # p /\ e # x
  /\ Predecessors(f, h) = {p, t} /\ Predecessors(f, x) = {h}
  /\ Successors(f, p) = {h} /\ Successors(f, t) = {h} /\ Successors(f, h) = {e, x}
  /\ h \notin Successors(f, x)
  /\ \A b \in 1 .. n : Successors(f, b) \subseteq 1 .. n

LEMMA PlacesHold ==
  ASSUME NEW f, NEW k, NEW w, NEW p, NEW t, NEW h, NEW x, NEW e,
         Setting(f, k, w, p, t, h, x, e)
  PROVE  InPlace(f, f.n, p, t, h, x, e)
<1>1. f.n \in Nat /\ \A b \in 1 .. f.n : Successors(f, b) \subseteq 1 .. f.n
  BY ProgramFacts DEF Setting, AtWork, Sound, Blocks
<1>2. QED
  BY <1>1, LoopPlaces DEF InPlace, Setting, Blocks

\* The same of g, after the rotation.
IsTurned(f, g, n, p, t, h, x, e) ==
  /\ g.n = n + 2
  /\ Successors(g, n + 1) = {h} /\ Successors(g, p) = {n + 1, x} /\ Successors(g, t) = {h, x}
  /\ Successors(g, h) = {e} /\ Successors(g, x) = {n + 2}
  /\ Successors(g, n + 2) = Successors(f, x)
  /\ \A b \in (1 .. n) \ {p, t, h, x} : Successors(g, b) = Successors(f, b)

LEMMA ToIs ==
  ASSUME NEW f, NEW b, NEW c, f.succs[b] = To(c)
  PROVE  Successors(f, b) = {c} /\ Len(f.succs[b]) = 1 /\ f.succs[b] = <<c>>
<1>1. f.succs[b] = <<c>>
  BY DEF To
<1>2. QED
  BY <1>1 DEF Successors

LEMMA ToEitherIs ==
  ASSUME NEW f, NEW b, NEW c, NEW d, f.succs[b] = ToEither(c, d)
  PROVE  Successors(f, b) = {c, d} /\ Len(f.succs[b]) = 2 /\ f.succs[b] = <<c, d>>
<1>1. f.succs[b] = <<c, d>>
  BY DEF ToEither
<1>2. QED
  BY <1>1 DEF Successors

LEMMA SameSuccessors ==
  ASSUME NEW f, NEW g, NEW b, NEW c, g.succs[b] = f.succs[c]
  PROVE  Successors(g, b) = Successors(f, c)
  BY DEF Successors

LEMMA IsJoinedTurns ==
  ASSUME NEW f, NEW g, NEW m, NEW w, NEW n, NEW p, NEW t, NEW h, NEW x, NEW e,
         IsJoined(f, g, m, w, n, p, t, h, x, e)
  PROVE  IsTurned(f, g, n, p, t, h, x, e)
<1>1. Successors(g, n + 1) = {h}
  BY ToIs DEF IsJoined
<1>2. Successors(g, p) = {n + 1, x}
  <2>1. g.succs[p] = ToEither(n + 1, x)
    BY DEF IsJoined
  <2>2. QED
    BY <2>1, ToEitherIs
<1>3. Successors(g, t) = {h, x}
  <2>1. g.succs[t] = ToEither(h, x)
    BY DEF IsJoined
  <2>2. QED
    BY <2>1, ToEitherIs
<1>4. Successors(g, h) = {e}
  <2>1. g.succs[h] = To(e)
    BY DEF IsJoined
  <2>2. QED
    BY <2>1, ToIs
<1>5. Successors(g, x) = {n + 2}
  <2>1. g.succs[x] = To(n + 2)
    BY DEF IsJoined
  <2>2. QED
    BY <2>1, ToIs
<1>6. Successors(g, n + 2) = Successors(f, x)
  <2>1. g.succs[n + 2] = f.succs[x]
    BY DEF IsJoined
  <2>2. QED
    BY <2>1, SameSuccessors
<1>7. ASSUME NEW b \in (1 .. n) \ {p, t, h, x}
      PROVE  Successors(g, b) = Successors(f, b)
  <2>1. g.succs[b] = f.succs[b]
    BY DEF IsJoined
  <2>2. QED
    BY <2>1, SameSuccessors
<1>8. g.n = n + 2
  BY DEF IsJoined, Graphs
<1>9. QED
  BY <1>1, <1>2, <1>3, <1>4, <1>5, <1>6, <1>7, <1>8 DEF IsTurned

\* Where control comes from now that came from q: the exit goes on to n + 2.
Past(n, x, q) == IF q = x THEN n + 2 ELSE q

LEMMA PredecessorsTurned ==
  ASSUME NEW f, NEW g, NEW n, NEW p, NEW t, NEW h, NEW x, NEW e,
         InPlace(f, n, p, t, h, x, e), IsTurned(f, g, n, p, t, h, x, e)
  PROVE  /\ Predecessors(g, h) = {n + 1, t} /\ Predecessors(g, x) = {p, t}
         /\ Predecessors(g, n + 1) = {p} /\ Predecessors(g, n + 2) = {x}
         /\ \A b \in (1 .. n) \ {h, x} :
              Predecessors(g, b) = {Past(n, x, q) : q \in Predecessors(f, b)}
<1>. USE DEF InPlace, IsTurned
<1>1. /\ Blocks(g) = 1 .. n + 2 /\ Blocks(f) = 1 .. n
      /\ 1 .. n + 2 = (1 .. n) \cup {n + 1, n + 2}
  BY DEF Blocks
<1>2. /\ \A q \in 1 .. n + 2 : h \in Successors(g, q) <=> q \in {n + 1, t}
      /\ \A q \in 1 .. n + 2 : x \in Successors(g, q) <=> q \in {p, t}
  <2>1. \A q \in 1 .. n : (h \in Successors(f, q) <=> q \in {p, t})
                          /\ (x \in Successors(f, q) <=> q = h)
    BY <1>1 DEF Predecessors
  <2>2. \A q \in (1 .. n) \ {p, t, h, x} : h \notin Successors(g, q) /\ x \notin Successors(g, q)
    BY <2>1
  <2>3. e # h
    <3>1. h \notin Successors(f, h)
      BY <2>1
    <3>2. QED
      BY <3>1
  <2>4. x \notin Successors(f, x)
    BY <2>1
  <2>5. QED
    BY <1>1, <2>2, <2>3, <2>4
<1>3. \A q \in 1 .. n + 2 : /\ n + 1 \in Successors(g, q) <=> q = p
                            /\ n + 2 \in Successors(g, q) <=> q = x
  <2>1. \A q \in 1 .. n : n + 1 \notin Successors(f, q) /\ n + 2 \notin Successors(f, q)
    OBVIOUS
  <2>2. n + 1 \notin 1 .. n /\ n + 2 \notin 1 .. n /\ n + 1 # n + 2
    OBVIOUS
  <2>3. QED
    BY <1>1, <2>1, <2>2
<1>4. ASSUME NEW b \in (1 .. n) \ {h, x}
      PROVE  Predecessors(g, b) = {Past(n, x, q) : q \in Predecessors(f, b)}
  <2>1. b # n + 1 /\ b # n + 2 /\ n + 2 \notin 1 .. n
    OBVIOUS
  <2>2. \A q \in (1 .. n) \ {x} : b \in Successors(g, q) <=> b \in Successors(f, q)
    BY <1>4, <2>1
  <2>3. b \notin Successors(g, x) /\ b \notin Successors(g, n + 1)
    BY <1>4, <2>1
  <2>4. b \in Successors(g, n + 2) <=> b \in Successors(f, x)
    OBVIOUS
  <2>5. \A q \in Predecessors(g, b) :
          \E r \in Predecessors(f, b) : q = Past(n, x, r)
    BY <1>1, <2>1, <2>2, <2>3, <2>4 DEF Predecessors, Past
  <2>6. \A r \in Predecessors(f, b) : Past(n, x, r) \in Predecessors(g, b)
    BY <1>1, <2>1, <2>2, <2>3, <2>4 DEF Predecessors, Past
  <2>7. QED
    BY <2>5, <2>6
<1>5. /\ Predecessors(g, h) = {n + 1, t} /\ Predecessors(g, x) = {p, t}
      /\ Predecessors(g, n + 1) = {p} /\ Predecessors(g, n + 2) = {x}
  BY <1>1, <1>2, <1>3 DEF Predecessors
<1>6. QED
  BY <1>4, <1>5

-----------------------------------------------------------------------------
(***************************************************************************)
(* The code after a rotation, and what of it are phi nodes.                *)
(***************************************************************************)
IsCode(c) == \E V : c \in Seq(V)

LEMMA ToSetIs ==
  ASSUME NEW V, NEW c \in Seq(V), NEW n \in Nat, Len(c) = n
  PROVE  ToSet(c) = {c[i] : i \in 1 .. n}
<1>1. DOMAIN c = 1 .. n
  OBVIOUS
<1>2. QED
  BY <1>1, Zenon DEF ToSet

LEMMA FollowedIs ==
  ASSUME NEW c, NEW d, IsCode(c), IsCode(d)
  PROVE  IsCode(Followed(c, d)) /\ ToSet(Followed(c, d)) = ToSet(c) \cup ToSet(d)
<1>1. PICK U, V : c \in Seq(U) /\ d \in Seq(V)
  BY DEF IsCode
<1>2. PICK T : T = U \cup V
  OBVIOUS
<1>3. c \in Seq(T) /\ d \in Seq(T)
  BY <1>1, <1>2
<1>4. PICK j, m, n : j = c \o d /\ m = Len(c) /\ n = Len(d)
  OBVIOUS
<1>5. /\ m \in Nat /\ n \in Nat /\ j \in Seq(T) /\ Len(j) = m + n
      /\ \A i \in 1 .. m : j[i] = c[i]
      /\ \A i \in 1 .. n : j[m + i] = d[i]
  BY <1>3, <1>4
<1>6. \A i \in 1 .. m + n : i \in 1 .. m \/ \E q \in 1 .. n : i = m + q
  <2>1. ASSUME NEW i \in 1 .. m + n, i \notin 1 .. m PROVE i - m \in 1 .. n /\ i = m + (i - m)
    BY <1>5, <2>1
  <2>2. QED
    BY <2>1
<1>7. ToSet(j) = {j[i] : i \in 1 .. m + n}
  BY <1>5, ToSetIs
<1>8. ToSet(c) = {c[i] : i \in 1 .. m} /\ ToSet(d) = {d[i] : i \in 1 .. n}
  BY <1>3, <1>4, <1>5, ToSetIs
<1>9. \A i \in 1 .. m : i \in 1 .. m + n
  BY <1>5
<1>10. \A i \in 1 .. n : m + i \in 1 .. m + n
  BY <1>5
<1>11. ToSet(j) = ToSet(c) \cup ToSet(d)
  <2>1. \A v \in ToSet(j) : v \in ToSet(c) \cup ToSet(d)
    <3>1. ASSUME NEW i \in 1 .. m + n PROVE j[i] \in ToSet(c) \cup ToSet(d)
      <4>1. CASE i \in 1 .. m
        BY <1>5, <1>8, <4>1
      <4>2. CASE \E q \in 1 .. n : i = m + q
        BY <1>5, <1>8, <4>2
      <4>3. QED
        BY <1>6, <4>1, <4>2
    <3>2. QED
      BY <1>7, <3>1
  <2>2. \A v \in ToSet(c) : v \in ToSet(j)
    BY <1>5, <1>7, <1>8, <1>9
  <2>3. \A v \in ToSet(d) : v \in ToSet(j)
    BY <1>5, <1>7, <1>8, <1>10
  <2>4. QED
    BY <2>1, <2>2, <2>3
<1>12. QED
  BY <1>4, <1>5, <1>11 DEF IsCode, Followed

LEMMA ReversedIs ==
  ASSUME NEW c, IsCode(c)
  PROVE  IsCode(Reverse(c)) /\ ToSet(Reverse(c)) = ToSet(c)
<1>1. PICK V : c \in Seq(V)
  BY DEF IsCode
<1>2. PICK n, r : n = Len(c) /\ r = Reverse(c)
  OBVIOUS
<1>3. n \in Nat /\ r = [i \in 1 .. n |-> c[(n - i) + 1]] /\ \A i \in 1 .. n : c[i] \in V
  BY <1>1, <1>2 DEF Reverse
<1>4. \A i \in 1 .. n : (n - i) + 1 \in 1 .. n /\ (n - ((n - i) + 1)) + 1 = i
  BY <1>3
<1>5. r \in [1 .. n -> V]
  BY <1>3, <1>4
<1>6. r \in Seq(V)
  BY <1>3, <1>5, FunctionIsSeq
<1>7. ToSet(r) = {r[i] : i \in 1 .. n} /\ ToSet(c) = {c[i] : i \in 1 .. n}
  <2>1. Len(r) = n
    BY <1>3, <1>5, FunctionIsSeq
  <2>2. QED
    BY <1>1, <1>2, <1>3, <1>6, <2>1, ToSetIs
<1>8. ToSet(r) = ToSet(c)
  <2>1. \A i \in 1 .. n : r[i] \in ToSet(c)
    BY <1>3, <1>4, <1>7
  <2>2. ASSUME NEW i \in 1 .. n PROVE c[i] \in ToSet(r)
    <3>1. PICK j : j = (n - i) + 1
      OBVIOUS
    <3>2. j \in 1 .. n /\ (n - j) + 1 = i
      BY <1>4, <3>1
    <3>3. r[j] = c[i]
      BY <1>3, <3>2
    <3>4. QED
      BY <1>7, <3>2, <3>3
  <2>3. QED
    BY <1>7, <2>1, <2>2
<1>9. QED
  BY <1>2, <1>6, <1>8 DEF IsCode

\* A name made for header h.
IsMade(i, kind, h) == i[1] = kind /\ i[2] = h

LEMMA ClonesAre ==
  ASSUME NEW f, NEW w, IsCode(HeaderRest(f, w))
  PROVE  IsCode(Clones(f, w)) /\ \A i \in ToSet(Clones(f, w)) : IsMade(i, "clone", w.header)
<1>1. PICK V, r : r = HeaderRest(f, w) /\ r \in Seq(V)
  BY DEF IsCode
<1>2. PICK n, c : n = Len(r) /\ c = Clones(f, w)
  OBVIOUS
<1>3. n \in Nat /\ c = [k \in 1 .. n |-> <<"clone", w.header, k>>]
  BY <1>1, <1>2 DEF Clones
<1>4. PICK T : T = {<<"clone", w.header, k>> : k \in 1 .. n}
  OBVIOUS
<1>5. c \in [1 .. n -> T]
  BY <1>3, <1>4
<1>6. c \in Seq(T)
  BY <1>3, <1>5, FunctionIsSeq
<1>7. \A i \in ToSet(c) : \E k \in 1 .. n : i = <<"clone", w.header, k>>
  BY <1>3 DEF ToSet
<1>8. \A i \in ToSet(c) : i[1] = "clone" /\ i[2] = w.header
  BY <1>7
<1>9. QED
  BY <1>2, <1>6, <1>8 DEF IsCode, IsMade

LEMMA JoinsAreMade ==
  ASSUME NEW f, NEW w, IsCode(HeaderPhis(f, w))
  PROVE  IsCode(JoinsOf(f, w)) /\ \A i \in JoinNames(f, w) : IsMade(i, "exit", w.header)
<1>1. PICK V, r : r = HeaderPhis(f, w) /\ r \in Seq(V)
  BY DEF IsCode
<1>2. PICK n, c, a : n = Len(r) /\ c = JoinsOf(f, w) /\ a = AtExit(f, w)
  OBVIOUS
<1>3. n \in Nat /\ c = [k \in 1 .. n |-> a[r[k]]]
  BY <1>1, <1>2 DEF JoinsOf
<1>4. PICK T : T = {a[r[k]] : k \in 1 .. n}
  OBVIOUS
<1>5. c \in [1 .. n -> T]
  BY <1>3, <1>4
<1>6. c \in Seq(T)
  BY <1>3, <1>5, FunctionIsSeq
<1>7. \A phi \in DOMAIN a : \E q : a[phi] = <<"exit", w.header, q>>
  BY <1>2 DEF AtExit
<1>8. \A i \in JoinNames(f, w) : i[1] = "exit" /\ i[2] = w.header
  <2>1. TAKE i \in JoinNames(f, w)
  <2>2. PICK q : i = <<"exit", w.header, q>>
    BY <1>2, <1>7 DEF JoinNames
  <2>3. QED
    BY <2>2
<1>9. QED
  BY <1>2, <1>6, <1>8 DEF IsCode, IsMade

PhisAt(f, b) == ToSet(f.code[b]) \cap DOMAIN f.incoming

\* The phi nodes of g, after a rotation that has made the phi nodes in `joins`.
IsRecoded(f, g, n, p, t, h, x, joins) ==
  /\ DOMAIN g.incoming = DOMAIN f.incoming \cup joins
  /\ joins \cap (InstructionsOf(f) \cup DOMAIN f.incoming) = {}
  /\ PhisAt(g, x) = joins /\ PhisAt(g, n + 1) = {} /\ PhisAt(g, n + 2) = {}
  /\ \A b \in (1 .. n) \ {x} : PhisAt(g, b) = PhisAt(f, b)
  /\ PhisAt(f, x) = {}
  /\ \A b \in 1 .. n + 2 : IsCode(g.code[b])
  /\ \A b \in (1 .. n) \ {p, t, h, x} : g.code[b] = f.code[b]
  /\ \A i \in InstructionsOf(g) \cup DOMAIN g.incoming :
       \/ i \in InstructionsOf(f) \cup DOMAIN f.incoming
       \/ \E kind \in {"clone", "exit"} : IsMade(i, kind, h)

LEMMA JoinedDomain ==
  ASSUME NEW f, NEW g, NEW m, NEW w, NEW n, NEW p, NEW t, NEW h, NEW x, NEW e,
         IsJoined(f, g, m, w, n, p, t, h, x, e), IsMoved(f, m, w, n, p, t, h, x, e)
  PROVE  DOMAIN g.incoming = DOMAIN f.incoming \cup JoinNames(m, w)
<1>1. PICK in : SameEntries(in, SplitEntries(m, x)) /\ g.incoming = JoinEntries(m, w, in)
  BY DEF IsJoined
<1>2. DOMAIN in = DOMAIN SplitEntries(m, x)
  BY <1>1 DEF SameEntries
<1>3. DOMAIN SplitEntries(m, x) = DOMAIN m.incoming
  BY DEF SplitEntries
<1>4. DOMAIN m.incoming = DOMAIN SplitEntries(f, p)
  BY DEF IsMoved, SameEntries
<1>5. DOMAIN SplitEntries(f, p) = DOMAIN f.incoming
  BY DEF SplitEntries
<1>6. DOMAIN g.incoming = DOMAIN in \cup JoinNames(m, w)
  <2>1. PICK out : out = g.incoming
    OBVIOUS
  <2>2. out = JoinEntries(m, w, in)
    BY <1>1, <2>1
  <2>3. DOMAIN out = DOMAIN in \cup JoinNames(m, w)
    BY <2>2, EntriesAre DEF WithJoins
  <2>4. QED
    BY <2>1, <2>3
<1>7. QED
  BY <1>2, <1>3, <1>4, <1>5, <1>6

LEMMA MovedPhis ==
  ASSUME NEW f, NEW m, NEW w, NEW h, m.code[h] = HeaderPhis(f, w), h = w.header,
         IsCode(HeaderPhis(f, w))
  PROVE  IsCode(HeaderPhis(m, w))
<1>1. PICK V, c, phis, k :
        /\ c = m.code[h] /\ c \in Seq(V) /\ phis = DOMAIN m.incoming /\ k = Leading(c, phis)
  BY DEF IsCode
<1>2. k \in 0 .. Len(c)
  BY <1>1, LeadingIs
<1>3. SubSeq(c, 1, k) \in Seq(V)
  BY <1>1, <1>2
<1>4. HeaderPhis(m, w) = SubSeq(c, 1, k)
  BY <1>1, LeadingPhisAre, Zenon DEF HeaderPhis
<1>5. QED
  BY <1>3, <1>4 DEF IsCode

(***************************************************************************)
(* What stands in the blocks.                                              *)
(***************************************************************************)
LEMMA JoinedCode ==
  ASSUME NEW f, NEW k, NEW w, NEW p, NEW t, NEW h, NEW x, NEW e,
         Setting(f, k, w, p, t, h, x, e)
  PROVE  /\ IsRecoded(f, Joined(f, w), f.n, p, t, h, x, JoinNames(Moved(f, w), w))
<1>1. PICK n, m, g, joins, first, rest, clones :
        /\ n = f.n /\ m = Moved(f, w) /\ g = Joined(f, w) /\ joins = JoinNames(m, w)
        /\ first = HeaderPhis(f, w) /\ rest = HeaderRest(f, w) /\ clones = Clones(f, w)
  OBVIOUS
<1>2. PICK phis : phis = DOMAIN f.incoming
  OBVIOUS
<1>3. InPlace(f, n, p, t, h, x, e)
  BY <1>1, PlacesHold
<1>4. IsMoved(f, m, w, n, p, t, h, x, e) /\ IsJoined(f, g, m, w, n, p, t, h, x, e)
  BY <1>1, AfterMove, AfterJoin
<1>5. IsProgram(f) /\ h = w.header /\ w.header = f.loops[k].header
      /\ HasHeader(f, f.loops[k]) /\ HasOwnExit(f, f.loops[k]) /\ x = Exit(f, f.loops[k])
  BY DEF Setting, AtWork, Sound, Names, LoopsOK, Locals, Exit
<1>6. \A b \in 1 .. n : IsCode(f.code[b]) /\ ToSet(f.code[b]) \subseteq InstructionsOf(f)
  <2>1. TAKE b \in 1 .. n
  <2>2. b \in Blocks(f)
    BY <1>1 DEF Blocks
  <2>3. f.code[b] \in Seq(InstructionsOf(f))
    BY <1>5, <2>2, ProgramFacts
  <2>4. ToSet(f.code[b]) \subseteq InstructionsOf(f)
    BY <2>2 DEF InstructionsOf
  <2>5. QED
    BY <2>3, <2>4 DEF IsCode
<1>7. /\ IsCode(first) /\ IsCode(rest)
      /\ ToSet(first) = ToSet(f.code[h]) \cap phis /\ ToSet(rest) = ToSet(f.code[h]) \ phis
  <2>1. IsHeader(f.code[h], phis, first, rest)
    BY <1>1, <1>2, HeaderData
  <2>2. QED
    BY <2>1 DEF IsHeader, IsCode
<1>8. IsCode(clones) /\ \A i \in ToSet(clones) : IsMade(i, "clone", h)
  BY <1>1, <1>5, <1>7, ClonesAre
<1>9. IsCode(JoinsOf(m, w)) /\ \A i \in joins : IsMade(i, "exit", h)
  <2>1. m.code[h] = HeaderPhis(f, w)
    BY <1>4 DEF IsMoved
  <2>2. IsCode(HeaderPhis(m, w))
    BY <1>1, <1>5, <1>7, <2>1, MovedPhis
  <2>3. QED
    BY <1>1, <1>5, <2>2, JoinsAreMade
<1>10. \A i \in InstructionsOf(f) \cup phis :
         ~ IsMade(i, "clone", h) /\ ~ IsMade(i, "exit", h)
  BY <1>2, <1>5 DEF HasHeader, IsMade
<1>11. joins \cap (InstructionsOf(f) \cup phis) = {}
  BY <1>9, <1>10
<1>12. \A i \in joins : i \notin ToSet(clones)
  <2>1. \A i : ~ (IsMade(i, "clone", h) /\ IsMade(i, "exit", h))
    BY DEF IsMade
  <2>2. QED
    BY <1>8, <1>9, <2>1
<1>13. DOMAIN g.incoming = phis \cup joins
  BY <1>1, <1>2, <1>4, JoinedDomain
<1>14. /\ IsCode(g.code[t]) /\ ToSet(g.code[t]) = ToSet(f.code[t]) \cup ToSet(clones)
       /\ IsCode(g.code[p]) /\ ToSet(g.code[p]) = ToSet(f.code[p]) \cup ToSet(rest)
       /\ IsCode(g.code[h]) /\ ToSet(g.code[h]) = ToSet(f.code[h]) \cap phis
       /\ IsCode(g.code[x]) /\ ToSet(g.code[x]) = joins
       /\ IsCode(g.code[n + 1]) /\ ToSet(g.code[n + 1]) = {}
       /\ g.code[n + 2] = f.code[x]
  <2>1. /\ g.code[t] = Followed(f.code[t], clones) /\ g.code[p] = Followed(f.code[p], rest)
        /\ g.code[h] = first /\ g.code[x] = Reverse(JoinsOf(m, w)) /\ g.code[n + 1] = Nothing
        /\ g.code[n + 2] = f.code[x]
    BY <1>1, <1>4 DEF IsJoined
  <2>2. {p, t, h, x} \subseteq 1 .. n
    BY <1>3 DEF InPlace
  <2>3. /\ IsCode(g.code[t]) /\ ToSet(g.code[t]) = ToSet(f.code[t]) \cup ToSet(clones)
        /\ IsCode(g.code[p]) /\ ToSet(g.code[p]) = ToSet(f.code[p]) \cup ToSet(rest)
    BY <1>6, <1>7, <1>8, <2>1, <2>2, FollowedIs
  <2>4. IsCode(g.code[x]) /\ ToSet(g.code[x]) = joins
    BY <1>1, <1>9, <2>1, ReversedIs, JoinsAre
  <2>5. IsCode(Nothing) /\ ToSet(Nothing) = {}
    <3>1. << >> \in Seq({})
      OBVIOUS
    <3>2. QED
      BY <3>1 DEF IsCode, Nothing, ToSet
  <2>6. QED
    BY <1>7, <2>1, <2>3, <2>4, <2>5
<1>15. \A b \in (1 .. n) \ {p, t, h, x} : g.code[b] = f.code[b]
  BY <1>4 DEF IsJoined
<1>16. PhisAt(f, x) = {} /\ ToSet(f.code[x]) \cap phis = {}
  BY <1>2, <1>5 DEF HasOwnExit, PhisAt
<1>17. /\ PhisAt(g, x) = joins /\ PhisAt(g, n + 1) = {} /\ PhisAt(g, n + 2) = {}
       /\ {p, t, h, x} \subseteq 1 .. n
  <2>1. {p, t, h, x} \subseteq 1 .. n
    BY <1>3 DEF InPlace
  <2>2. QED
    BY <1>6, <1>11, <1>13, <1>14, <1>16, <2>1 DEF PhisAt
<1>18. ASSUME NEW b \in (1 .. n) \ {x} PROVE PhisAt(g, b) = PhisAt(f, b)
  <2>1. ToSet(f.code[b]) \cap joins = {}
    BY <1>6, <1>11
  <2>2. CASE b \notin {p, t, h}
    BY <1>2, <1>13, <1>15, <2>1, <2>2 DEF PhisAt
  <2>3. CASE b = h
    BY <1>2, <1>13, <1>14, <2>1, <2>3 DEF PhisAt
  <2>4. CASE b = p
    <3>1. ToSet(rest) \cap (phis \cup joins) = {}
      BY <1>6, <1>7, <1>11, <1>17
    <3>2. QED
      BY <1>2, <1>13, <1>14, <2>1, <2>4, <3>1 DEF PhisAt
  <2>5. CASE b = t
    <3>1. ToSet(clones) \cap (phis \cup joins) = {}
      BY <1>8, <1>10, <1>12
    <3>2. QED
      BY <1>2, <1>13, <1>14, <2>1, <2>5, <3>1 DEF PhisAt
  <2>6. QED
    BY <2>2, <2>3, <2>4, <2>5
<1>19. n \in Nat /\ 1 .. n + 2 = (1 .. n) \cup {n + 1, n + 2}
  BY <1>3 DEF InPlace
<1>20. \A b \in 1 .. n + 2 : IsCode(g.code[b])
  BY <1>6, <1>14, <1>15, <1>17, <1>19
<1>21. ASSUME NEW i \in InstructionsOf(g) \cup DOMAIN g.incoming
       PROVE  \/ i \in InstructionsOf(f) \cup DOMAIN f.incoming
              \/ \E kind \in {"clone", "exit"} : IsMade(i, kind, h)
  <2>1. CASE i \in DOMAIN g.incoming
    BY <1>2, <1>9, <1>13, <2>1
  <2>2. CASE i \in InstructionsOf(g)
    <3>1. g.n = n + 2
      BY <1>4 DEF IsJoined, Graphs
    <3>2. PICK b \in 1 .. n + 2 : i \in ToSet(g.code[b])
      BY <2>2, <3>1 DEF InstructionsOf, Blocks
    <3>3. CASE b \notin {p, t, h, x, n + 1, n + 2}
      BY <1>6, <1>15, <1>19, <3>2, <3>3
    <3>4. CASE b \in {p, t, h, x, n + 1, n + 2}
      <4>1. ToSet(rest) \subseteq InstructionsOf(f)
        BY <1>6, <1>7, <1>17
      <4>2. QED
        BY <1>6, <1>8, <1>9, <1>14, <1>17, <3>2, <3>4, <4>1
    <3>5. QED
      BY <3>3, <3>4
  <2>3. QED
    BY <2>1, <2>2
<1>22. IsRecoded(f, g, n, p, t, h, x, joins)
  BY <1>2, <1>11, <1>13, <1>15, <1>16, <1>17, <1>18, <1>20, <1>21 DEF IsRecoded
<1>23. QED
  BY <1>1, <1>22

-----------------------------------------------------------------------------
(***************************************************************************)
(* The entries of the phi nodes after a rotation.                          *)
(***************************************************************************)
InStep(entries, preds) ==
  /\ {entries[k][2] : k \in DOMAIN entries} = preds
  /\ \A j, k \in DOMAIN entries : entries[j][2] = entries[k][2] => j = k

LEMMA PhisInStepIs ==
  ASSUME NEW f
  PROVE  PhisInStep(f) <=>
           \A b \in Blocks(f) : \A i \in PhisAt(f, b) : InStep(f.incoming[i], Predecessors(f, b))
  BY DEF PhisInStep, InStep, PhisAt

LEMMA RenamedInStep ==
  ASSUME NEW before, NEW after, NEW preds, InStep(before, preds),
         DOMAIN after = DOMAIN before, NEW r,
         \A k \in DOMAIN before : after[k][2] = r[before[k][2]],
         \A q, s \in preds : r[q] = r[s] => q = s
  PROVE  InStep(after, {r[q] : q \in preds})
<1>1. \A k \in DOMAIN before : before[k][2] \in preds
  BY DEF InStep
<1>2. \A q \in preds : \E k \in DOMAIN before : before[k][2] = q
  BY DEF InStep
<1>3. {after[k][2] : k \in DOMAIN after} = {r[q] : q \in preds}
  BY <1>1, <1>2
<1>4. ASSUME NEW j \in DOMAIN after, NEW k \in DOMAIN after, after[j][2] = after[k][2]
      PROVE  j = k
  <2>1. before[j][2] = before[k][2]
    BY <1>1, <1>4
  <2>2. QED
    BY <2>1 DEF InStep
<1>5. QED
  BY <1>3, <1>4 DEF InStep

\* The blocks a phi node of block b has entries for, by their new names.
NamedAnew(f, g, n, p, h, x) ==
  \A b \in 1 .. n : \A i \in PhisAt(f, b) :
    /\ DOMAIN g.incoming[i] = DOMAIN f.incoming[i]
    /\ \A k \in DOMAIN f.incoming[i] :
         LET q == f.incoming[i][k][2]
         IN  g.incoming[i][k][2] =
               IF b = h THEN IF q = p THEN n + 1 ELSE q
               ELSE IF b \in Successors(f, x) THEN Past(n, x, q) ELSE q

LEMMA JoinedEntries ==
  ASSUME NEW f, NEW k, NEW w, NEW p, NEW t, NEW h, NEW x, NEW e,
         Setting(f, k, w, p, t, h, x, e)
  PROVE  NamedAnew(f, Joined(f, w), f.n, p, h, x)
<1>1. PICK n, m, g, joins :
        n = f.n /\ m = Moved(f, w) /\ g = Joined(f, w) /\ joins = JoinNames(m, w)
  OBVIOUS
<1>2. InPlace(f, n, p, t, h, x, e)
  BY <1>1, PlacesHold
<1>3. IsMoved(f, m, w, n, p, t, h, x, e) /\ IsJoined(f, g, m, w, n, p, t, h, x, e)
  BY <1>1, AfterMove, AfterJoin
<1>4. IsRecoded(f, g, n, p, t, h, x, joins)
  BY <1>1, JoinedCode
<1>5. PhisHaveOnePlace(f) /\ Blocks(f) = 1 .. n
  BY <1>1 DEF Setting, AtWork, Sound, Blocks
<1>6. /\ n \in Nat /\ p \in 1 .. n /\ h \in 1 .. n /\ x \in 1 .. n /\ p # x /\ h # x
      /\ Successors(f, p) = {h} /\ Successors(f, x) \subseteq 1 .. n /\ h \notin Successors(f, x)
      /\ x \notin Successors(f, x)
  <2>1. x \notin Predecessors(f, x) /\ x \in 1 .. n
    BY <1>2 DEF InPlace
  <2>2. x \notin Successors(f, x)
    BY <1>5, <2>1 DEF Predecessors
  <2>3. QED
    BY <1>2, <2>2 DEF InPlace
<1>7. m.n = n + 1 /\ Successors(m, x) = Successors(f, x)
  <2>1. m.succs[x] = f.succs[x] /\ m.n = n + 1
    BY <1>2, <1>3 DEF IsMoved, InPlace, Graphs
  <2>2. QED
    BY <2>1, SameSuccessors
<1>8. \A s \in (1 .. n) \ {x} : m.code[s] = g.code[s]
  <2>1. \A s \in {p, t, h} : m.code[s] = g.code[s]
    BY <1>3 DEF IsMoved, IsJoined
  <2>2. \A s \in (1 .. n) \ {p, t, h, x} : m.code[s] = g.code[s]
    BY <1>3 DEF IsMoved, IsJoined
  <2>3. QED
    BY <2>1, <2>2
<1>9. PICK in : SameEntries(in, SplitEntries(m, x)) /\ g.incoming = JoinEntries(m, w, in)
  BY <1>3 DEF IsJoined
<1>10. SUFFICES ASSUME NEW b \in 1 .. n, NEW i \in PhisAt(f, b)
                PROVE  /\ DOMAIN g.incoming[i] = DOMAIN f.incoming[i]
                       /\ \A j \in DOMAIN f.incoming[i] :
                            LET q == f.incoming[i][j][2]
                            IN  g.incoming[i][j][2] =
                                  IF b = h THEN IF q = p THEN n + 1 ELSE q
                                  ELSE IF b \in Successors(f, x) THEN Past(n, x, q) ELSE q
  BY <1>1 DEF NamedAnew
<1>11. i \in DOMAIN f.incoming /\ i \notin joins /\ \A c \in 1 .. n : i \in ToSet(f.code[c]) <=> c = b
  <2>1. i \in DOMAIN f.incoming /\ i \in ToSet(f.code[b])
    BY <1>10 DEF PhisAt
  <2>2. i \notin joins
    BY <1>4, <2>1 DEF IsRecoded
  <2>3. \A c \in 1 .. n : i \in ToSet(f.code[c]) => c = b
    BY <1>5, <1>10, <2>1 DEF PhisHaveOnePlace
  <2>4. QED
    BY <2>1, <2>2, <2>3
<1>12. (\E s \in Successors(f, p) : i \in ToSet(f.code[s])) <=> b = h
  BY <1>6, <1>11
<1>13. (\E s \in Successors(m, x) : i \in ToSet(m.code[s])) <=> b \in Successors(f, x)
  <2>1. \A s \in Successors(f, x) : s \in (1 .. n) \ {x}
    BY <1>6
  <2>2. \A s \in (1 .. n) \ {x} : i \in ToSet(m.code[s]) <=> i \in ToSet(f.code[s])
    <3>1. TAKE s \in (1 .. n) \ {x}
    <3>2. PhisAt(g, s) = PhisAt(f, s) /\ i \in DOMAIN g.incoming
      BY <1>4, <1>11 DEF IsRecoded
    <3>3. i \in ToSet(g.code[s]) <=> i \in ToSet(f.code[s])
      BY <1>11, <3>2 DEF PhisAt
    <3>4. QED
      BY <1>8, <3>3
  <2>3. QED
    BY <1>7, <1>11, <2>1, <2>2
<1>14. PICK a, c, d : a = f.incoming[i] /\ c = m.incoming[i] /\ d = g.incoming[i]
  OBVIOUS
<1>15. /\ DOMAIN c = DOMAIN a
       /\ \A j \in DOMAIN a : c[j][2] = IF a[j][2] = p /\ b = h THEN n + 1 ELSE a[j][2]
  <2>1. SameEntries(m.incoming, SplitEntries(f, p)) /\ i \in DOMAIN SplitEntries(f, p)
    BY <1>3, <1>11 DEF IsMoved, SplitEntries
  <2>2. /\ DOMAIN c = DOMAIN SplitEntries(f, p)[i]
        /\ \A j \in DOMAIN SplitEntries(f, p)[i] : c[j][2] = SplitEntries(f, p)[i][j][2]
    BY <1>14, <2>1 DEF SameEntries
  <2>3. SplitEntries(f, p)[i] = [j \in DOMAIN a |-> <<a[j][1], NewName(f, p, n + 1, i, a[j][2])>>]
    BY <1>1, <1>11, <1>14 DEF SplitEntries
  <2>4. \A j \in DOMAIN a : NewName(f, p, n + 1, i, a[j][2]) =
                              IF a[j][2] = p /\ b = h THEN n + 1 ELSE a[j][2]
    BY <1>12 DEF NewName
  <2>5. QED
    BY <2>2, <2>3, <2>4
<1>16. /\ DOMAIN d = DOMAIN c
       /\ \A j \in DOMAIN c :
            d[j][2] = IF c[j][2] = x /\ b \in Successors(f, x) THEN n + 2 ELSE c[j][2]
  <2>1. i \in DOMAIN m.incoming
    BY <1>3, <1>11 DEF IsMoved, SameEntries, SplitEntries
  <2>2. i \in DOMAIN SplitEntries(m, x)
    BY <2>1 DEF SplitEntries
  <2>3. i \in DOMAIN in
    BY <1>9, <2>2 DEF SameEntries
  <2>4. d = in[i]
    <3>1. PICK out : out = g.incoming
      OBVIOUS
    <3>2. out = JoinEntries(m, w, in)
      BY <1>9, <3>1
    <3>3. \A y \in DOMAIN in : y \in JoinNames(m, w) \/ out[y] = in[y]
      BY <3>2, EntriesAre DEF WithJoins
    <3>4. QED
      BY <1>1, <1>11, <1>14, <2>3, <3>1, <3>3
  <2>5. /\ DOMAIN d = DOMAIN SplitEntries(m, x)[i]
        /\ \A j \in DOMAIN SplitEntries(m, x)[i] : d[j][2] = SplitEntries(m, x)[i][j][2]
    BY <1>9, <2>2, <2>4 DEF SameEntries
  <2>6. SplitEntries(m, x)[i] =
          [j \in DOMAIN c |-> <<c[j][1], NewName(m, x, m.n + 1, i, c[j][2])>>]
    BY <1>14, <2>1 DEF SplitEntries
  <2>7. m.n + 1 = n + 2
    BY <1>6, <1>7
  <2>8. \A j \in DOMAIN c : NewName(m, x, n + 2, i, c[j][2]) =
                              IF c[j][2] = x /\ b \in Successors(f, x) THEN n + 2 ELSE c[j][2]
    BY <1>13 DEF NewName
  <2>9. QED
    BY <2>5, <2>6, <2>7, <2>8
<1>17. ASSUME NEW j \in DOMAIN a
       PROVE  d[j][2] = IF b = h THEN IF a[j][2] = p THEN n + 1 ELSE a[j][2]
                        ELSE IF b \in Successors(f, x) THEN Past(n, x, a[j][2]) ELSE a[j][2]
  BY <1>6, <1>15, <1>16 DEF Past
<1>18. QED
  BY <1>14, <1>15, <1>16, <1>17

LEMMA FromEitherInStep ==
  ASSUME NEW entries, NEW b, NEW c, FromEither(entries, b, c), b # c
  PROVE  InStep(entries, {b, c})
<1>1. PICK u, v : entries = <<<<u, b>>, <<v, c>>>>
  BY DEF FromEither
<1>2. DOMAIN entries = {1, 2} /\ entries[1][2] = b /\ entries[2][2] = c
  BY <1>1
<1>3. QED
  BY <1>2 DEF InStep

(***************************************************************************)
(* A rotation keeps phi nodes and predecessors in step.                    *)
(***************************************************************************)
LEMMA JoinedPhis ==
  ASSUME NEW f, NEW k, NEW w, NEW p, NEW t, NEW h, NEW x, NEW e,
         Setting(f, k, w, p, t, h, x, e)
  PROVE  PhisHaveOnePlace(Joined(f, w)) /\ PhisInStep(Joined(f, w))
<1>1. PICK n, m, g, joins :
        n = f.n /\ m = Moved(f, w) /\ g = Joined(f, w) /\ joins = JoinNames(m, w)
  OBVIOUS
<1>2. InPlace(f, n, p, t, h, x, e)
  BY <1>1, PlacesHold
<1>3. IsTurned(f, g, n, p, t, h, x, e)
  BY <1>1, AfterJoin, IsJoinedTurns
<1>4. IsRecoded(f, g, n, p, t, h, x, joins)
  BY <1>1, JoinedCode
<1>5. NamedAnew(f, g, n, p, h, x)
  BY <1>1, JoinedEntries
<1>6. /\ PhisHaveOnePlace(f) /\ PhisInStep(f)
      /\ Blocks(f) = 1 .. n /\ Blocks(g) = 1 .. n + 2
  BY <1>1, <1>3 DEF Setting, AtWork, Sound, Blocks, IsTurned
<1>7. /\ n \in Nat /\ 1 .. n + 2 = (1 .. n) \cup {n + 1, n + 2}
      /\ {p, t, h, x} \subseteq 1 .. n /\ p # t /\ h # x
      /\ Predecessors(f, h) = {p, t}
  BY <1>2 DEF InPlace
<1>8. /\ PhisAt(g, x) = joins /\ PhisAt(g, n + 1) = {} /\ PhisAt(g, n + 2) = {}
      /\ \A b \in (1 .. n) \ {x} : PhisAt(g, b) = PhisAt(f, b)
      /\ joins \cap DOMAIN f.incoming = {}
  BY <1>4 DEF IsRecoded
<1>9. PhisHaveOnePlace(g)
  <2>1. SUFFICES ASSUME NEW b \in 1 .. n + 2, NEW c \in 1 .. n + 2, NEW i,
                        i \in PhisAt(g, b), i \in PhisAt(g, c)
                 PROVE  b = c
    BY <1>6 DEF PhisHaveOnePlace, PhisAt
  <2>2. b \in 1 .. n /\ c \in 1 .. n
    BY <1>7, <1>8, <2>1
  <2>3. CASE i \in joins
    <3>1. \A d \in (1 .. n) \ {x} : i \notin PhisAt(g, d)
      BY <1>8, <2>3 DEF PhisAt
    <3>2. QED
      BY <2>1, <2>2, <3>1
  <2>4. CASE i \notin joins
    <3>1. b # x /\ c # x
      BY <1>8, <2>1, <2>4
    <3>2. i \in PhisAt(f, b) /\ i \in PhisAt(f, c)
      BY <1>8, <2>1, <2>2, <3>1
    <3>3. QED
      BY <1>6, <2>2, <3>2 DEF PhisHaveOnePlace, PhisAt
  <2>5. QED
    BY <2>3, <2>4
<1>10. ASSUME NEW i \in joins PROVE InStep(g.incoming[i], Predecessors(g, x))
  <2>1. PICK in : g.incoming = JoinEntries(m, w, in)
    BY <1>1, AfterJoin DEF IsJoined
  <2>2. PICK out : out = g.incoming
    OBVIOUS
  <2>3. FromEither(out[i], w.latch, w.preheader)
    <3>1. out = JoinEntries(m, w, in) /\ i \in JoinNames(m, w)
      BY <1>1, <1>10, <2>1, <2>2
    <3>2. WithJoins(in, m, w, out)
      BY <3>1, EntriesAre
    <3>3. QED
      BY <3>1, <3>2 DEF WithJoins
  <2>4. w.latch = t /\ w.preheader = p
    BY DEF Setting, Names
  <2>5. InStep(out[i], {t, p})
    BY <1>7, <2>3, <2>4, FromEitherInStep
  <2>6. Predecessors(g, x) = {t, p}
    BY <1>2, <1>3, PredecessorsTurned
  <2>7. QED
    BY <2>2, <2>5, <2>6
<1>11. ASSUME NEW b \in (1 .. n) \ {x}, NEW i \in PhisAt(f, b)
       PROVE  InStep(g.incoming[i], Predecessors(g, b))
  <2>1. PICK before, after, preds :
          before = f.incoming[i] /\ after = g.incoming[i] /\ preds = Predecessors(f, b)
    OBVIOUS
  <2>2. InStep(before, preds)
    BY <1>6, <1>11, <2>1, PhisInStepIs
  <2>3. /\ DOMAIN after = DOMAIN before
        /\ \A j \in DOMAIN before :
             after[j][2] = IF b = h THEN IF before[j][2] = p THEN n + 1 ELSE before[j][2]
                           ELSE IF b \in Successors(f, x) THEN Past(n, x, before[j][2])
                                                          ELSE before[j][2]
    BY <1>5, <1>11, <2>1 DEF NamedAnew
  <2>4. \A j \in DOMAIN before : before[j][2] \in preds
    BY <2>2 DEF InStep
  <2>5. preds \subseteq 1 .. n
    BY <1>6, <2>1 DEF Predecessors
  <2>6. CASE b = h
    <3>1. PICK r : r = [q \in preds |-> IF q = p THEN n + 1 ELSE q]
      OBVIOUS
    <3>2. \A j \in DOMAIN before : after[j][2] = r[before[j][2]]
      BY <2>3, <2>4, <2>6, <3>1
    <3>3. \A q, s \in preds : r[q] = r[s] => q = s
      BY <1>7, <2>5, <3>1
    <3>4. InStep(after, {r[q] : q \in preds})
      BY <2>2, <2>3, <3>2, <3>3, RenamedInStep
    <3>5. preds = {p, t} /\ r[p] = n + 1 /\ r[t] = t
      BY <1>7, <2>1, <2>6, <3>1
    <3>6. {r[q] : q \in preds} = {n + 1, t}
      BY <3>5
    <3>7. Predecessors(g, h) = {n + 1, t}
      BY <1>2, <1>3, PredecessorsTurned
    <3>8. QED
      BY <2>1, <2>6, <3>4, <3>6, <3>7
  <2>7. CASE b # h
    <3>1. PICK r : r = [q \in preds |-> Past(n, x, q)]
      OBVIOUS
    <3>2. ASSUME NEW j \in DOMAIN before PROVE after[j][2] = r[before[j][2]]
      <4>1. CASE b \in Successors(f, x)
        BY <2>3, <2>4, <2>7, <3>1, <3>2, <4>1
      <4>2. CASE b \notin Successors(f, x)
        <5>1. before[j][2] # x
          BY <2>1, <2>4, <3>2, <4>2 DEF Predecessors
        <5>2. QED
          BY <2>3, <2>4, <2>7, <3>1, <3>2, <4>2, <5>1 DEF Past
      <4>3. QED
        BY <4>1, <4>2
    <3>3. \A q, s \in preds : r[q] = r[s] => q = s
      BY <1>7, <2>5, <3>1 DEF Past
    <3>4. InStep(after, {r[q] : q \in preds})
      BY <2>2, <2>3, <3>2, <3>3, RenamedInStep
    <3>5. {r[q] : q \in preds} = {Past(n, x, q) : q \in preds}
      BY <3>1
    <3>6. Predecessors(g, b) = {Past(n, x, q) : q \in preds}
      BY <1>2, <1>3, <2>1, <2>7, PredecessorsTurned
    <3>7. QED
      BY <2>1, <3>4, <3>5, <3>6
  <2>8. QED
    BY <2>6, <2>7
<1>12. \A b \in 1 .. n + 2 : \A i \in PhisAt(g, b) : InStep(g.incoming[i], Predecessors(g, b))
  BY <1>7, <1>8, <1>10, <1>11
<1>13. QED
  BY <1>1, <1>6, <1>9, <1>12, PhisInStepIs

-----------------------------------------------------------------------------
(***************************************************************************)
(* The loops after a rotation.                                             *)
(***************************************************************************)
\* The loop r is the loop q with the blocks in `more`.
IsWider(q, r, more) ==
  r.header = q.header /\ r.parents = q.parents /\ r.blocks = q.blocks \cup more

AreWidened(f, g, n, parents) ==
  /\ g.loops \in Seq(LoopRecords(g)) /\ Len(g.loops) = Len(f.loops)
  /\ \A j \in 1 .. Len(f.loops) :
       IsWider(f.loops[j], g.loops[j], IF j \in parents THEN {n + 1, n + 2} ELSE {})

LoopsOver(n) == [header : 1 .. n, blocks : SUBSET (1 .. n), parents : SUBSET Nat]

LEMMA WithBlockIs ==
  ASSUME NEW n \in Nat, NEW q \in LoopsOver(n)
  PROVE  WithBlock(q, n + 1) \in LoopsOver(n + 1) /\ IsWider(q, WithBlock(q, n + 1), {n + 1})
         /\ q \in LoopsOver(n + 1) /\ IsWider(q, q, {})
<1>1. 1 .. n \subseteq 1 .. n + 1 /\ n + 1 \in 1 .. n + 1
  OBVIOUS
<1>2. /\ q.header \in 1 .. n /\ q.blocks \subseteq 1 .. n /\ q.parents \subseteq Nat
      /\ q = [header |-> q.header, blocks |-> q.blocks, parents |-> q.parents]
  BY DEF LoopsOver
<1>3. WithBlock(q, n + 1) =
        [header |-> q.header, blocks |-> q.blocks \cup {n + 1}, parents |-> q.parents]
  BY <1>2 DEF WithBlock
<1>4. WithBlock(q, n + 1) \in LoopsOver(n + 1)
  BY <1>1, <1>2, <1>3 DEF LoopsOver
<1>5. q \in LoopsOver(n + 1)
  BY <1>1, <1>2 DEF LoopsOver
<1>6. IsWider(q, WithBlock(q, n + 1), {n + 1}) /\ IsWider(q, q, {})
  BY <1>3 DEF IsWider
<1>7. QED
  BY <1>4, <1>5, <1>6

HasLoops(f, n) == n \in Nat /\ f.n = n /\ f.loops \in Seq(LoopsOver(n))

\* The loops at `parents` have the block n + 1 in addition.
AreWider(before, after, n, parents) ==
  /\ after \in Seq(LoopsOver(n + 1)) /\ Len(after) = Len(before)
  /\ \A j \in 1 .. Len(before) :
       IsWider(before[j], after[j], IF j \in parents THEN {n + 1} ELSE {})

LEMMA SplitLoopsAre ==
  ASSUME NEW f, NEW n, HasLoops(f, n), NEW parents
  PROVE  AreWider(f.loops, SplitLoops(f, parents), n, parents)
<1>. USE DEF HasLoops
<1>1. PICK q, c, loops : q = f.loops /\ c = Len(q) /\ loops = SplitLoops(f, parents)
  OBVIOUS
<1>2. c \in Nat /\ DOMAIN q = 1 .. c /\ \A j \in 1 .. c : q[j] \in LoopsOver(n)
  BY <1>1
<1>3. loops = [j \in 1 .. c |-> IF j \in parents THEN WithBlock(q[j], n + 1) ELSE q[j]]
  BY <1>1, <1>2 DEF SplitLoops, AddedTo
<1>4. ASSUME NEW j \in 1 .. c
      PROVE  /\ loops[j] \in LoopsOver(n + 1)
             /\ IsWider(q[j], loops[j], IF j \in parents THEN {n + 1} ELSE {})
  <2>1. /\ WithBlock(q[j], n + 1) \in LoopsOver(n + 1)
        /\ IsWider(q[j], WithBlock(q[j], n + 1), {n + 1})
        /\ q[j] \in LoopsOver(n + 1) /\ IsWider(q[j], q[j], {})
    BY <1>2, WithBlockIs
  <2>2. CASE j \in parents
    BY <1>3, <2>1, <2>2
  <2>3. CASE j \notin parents
    BY <1>3, <2>1, <2>3
  <2>4. QED
    BY <2>2, <2>3
<1>5. PICK T : T = LoopsOver(n + 1)
  OBVIOUS
<1>6. loops \in [1 .. c -> T]
  BY <1>3, <1>4, <1>5
<1>7. loops \in Seq(T) /\ Len(loops) = c
  BY <1>2, <1>6, FunctionIsSeq
<1>8. QED
  BY <1>1, <1>4, <1>5, <1>7 DEF AreWider

LEMMA JoinedLoops ==
  ASSUME NEW f, NEW k, NEW w, NEW p, NEW t, NEW h, NEW x, NEW e,
         Setting(f, k, w, p, t, h, x, e)
  PROVE  AreWidened(f, Joined(f, w), f.n, f.loops[k].parents)
<1>1. PICK n, m, g, parents :
        n = f.n /\ m = Moved(f, w) /\ g = Joined(f, w) /\ parents = f.loops[k].parents
  OBVIOUS
<1>2. IsProgram(f) /\ parents = w.parents
  BY <1>1 DEF Setting, AtWork, Sound, Locals
<1>3. n \in Nat /\ n + 1 \in Nat /\ f.loops \in Seq(LoopsOver(n)) /\ m.n = n + 1 /\ g.n = n + 2
      /\ m.loops = SplitLoops(f, parents) /\ g.loops = SplitLoops(m, parents)
  <2>1. n \in Nat /\ f.loops \in Seq(LoopsOver(n))
    BY <1>1, <1>2 DEF IsProgram, LoopRecords, LoopsOver, Blocks
  <2>2. m.n = n + 1 /\ m.loops = SplitLoops(f, parents)
    BY <1>1, <1>2, AfterMove DEF IsMoved, Graphs
  <2>3. g.n = n + 2 /\ g.loops = SplitLoops(m, parents)
    BY <1>1, <1>2, AfterJoin DEF IsJoined, Graphs
  <2>4. QED
    BY <2>1, <2>2, <2>3
<1>4. PICK a, b, c : a = f.loops /\ b = m.loops /\ c = g.loops
  OBVIOUS
<1>5. AreWider(a, b, n, parents)
  <2>1. HasLoops(f, n)
    BY <1>1, <1>3 DEF HasLoops
  <2>2. QED
    BY <1>3, <1>4, <2>1, SplitLoopsAre
<1>6. PICK n1 : n1 = n + 1
  OBVIOUS
<1>7. AreWider(b, c, n1, parents)
  <2>1. HasLoops(m, n1)
    BY <1>3, <1>4, <1>5, <1>6 DEF HasLoops, AreWider
  <2>2. QED
    BY <1>3, <1>4, <2>1, SplitLoopsAre
<1>8. /\ c \in Seq(LoopsOver(n + 2)) /\ Len(c) = Len(a)
      /\ \A j \in 1 .. Len(a) : IsWider(a[j], c[j], IF j \in parents THEN {n + 1, n + 2} ELSE {})
  <2>1. n1 + 1 = n + 2
    BY <1>3, <1>6
  <2>2. QED
    BY <1>5, <1>6, <1>7, <2>1 DEF AreWider, IsWider
<1>9. LoopsOver(n + 2) = LoopRecords(g)
  BY <1>3 DEF LoopsOver, LoopRecords, Blocks
<1>10. AreWidened(f, g, n, parents)
  BY <1>4, <1>8, <1>9 DEF AreWidened
<1>11. QED
  BY <1>1, <1>10

-----------------------------------------------------------------------------
(***************************************************************************)
(* After a rotation there is a program again.                              *)
(***************************************************************************)
LEMMA ListIsSeq ==
  ASSUME NEW n \in Nat, NEW s, IsList(s, n), NEW T, \A i \in 1 .. n : s[i] \in T
  PROVE  s \in Seq(T) /\ Len(s) = n
<1>1. s \in [1 .. n -> T]
  BY DEF IsList
<1>2. QED
  BY <1>1, FunctionIsSeq

LEMMA CodeOver ==
  ASSUME NEW c, IsCode(c), NEW U, ToSet(c) \subseteq U
  PROVE  c \in Seq(U)
<1>1. PICK V : c \in Seq(V)
  BY DEF IsCode
<1>2. PICK n : n = Len(c)
  OBVIOUS
<1>3. n \in Nat /\ IsList(c, n)
  BY <1>1, <1>2 DEF IsList
<1>4. \A i \in 1 .. n : c[i] \in U
  BY <1>1, <1>2, <1>3, ToSetIs
<1>5. QED
  BY <1>3, <1>4, ListIsSeq

LEMMA ShortSeqs ==
  ASSUME NEW U, NEW b \in U, NEW c \in U
  PROVE  To(b) \in Seq(U) /\ ToEither(b, c) \in Seq(U)
  BY DEF To, ToEither

LEMMA SeqWidens ==
  ASSUME NEW n \in Nat, NEW s \in Seq(1 .. n) PROVE s \in Seq(1 .. n + 2)
<1>1. 1 .. n \subseteq 1 .. n + 2
  OBVIOUS
<1>2. QED
  BY <1>1

LEMMA JoinedProgram ==
  ASSUME NEW f, NEW k, NEW w, NEW p, NEW t, NEW h, NEW x, NEW e,
         Setting(f, k, w, p, t, h, x, e)
  PROVE  IsProgram(Joined(f, w))
<1>1. PICK n, m, g, joins :
        n = f.n /\ m = Moved(f, w) /\ g = Joined(f, w) /\ joins = JoinNames(m, w)
  OBVIOUS
<1>2. /\ n \in Nat /\ {p, t, h, x, e} \subseteq 1 .. n
      /\ 1 .. n + 2 = (1 .. n) \cup {n + 1, n + 2}
  BY <1>1, PlacesHold DEF InPlace
<1>3. IsJoined(f, g, m, w, n, p, t, h, x, e)
  BY <1>1, AfterJoin
<1>4. \A b \in 1 .. n : f.succs[b] \in Seq(1 .. n)
  BY <1>1, ProgramFacts DEF Setting, AtWork, Sound, Blocks
<1>5. HasFields(g) /\ g.n = n + 2 /\ IsList(g.succs, n + 2) /\ IsList(g.code, n + 2)
  BY <1>3 DEF IsJoined, Graphs
<1>6. PICK B, S : B = 1 .. n + 2 /\ S = Seq(B)
  OBVIOUS
<1>7. ASSUME NEW b \in 1 .. n + 2 PROVE g.succs[b] \in S
  <2>1. {p, t, h, x, e, n + 1, n + 2} \subseteq B
    BY <1>2, <1>6
  <2>2. CASE b \in {n + 1, h, x}
    <3>1. \E c \in B : g.succs[b] = To(c)
      BY <1>3, <2>1, <2>2 DEF IsJoined
    <3>2. QED
      BY <1>6, <3>1, ShortSeqs
  <2>3. CASE b \in {p, t}
    <3>1. \E c, d \in B : g.succs[b] = ToEither(c, d)
      BY <1>3, <2>1, <2>3 DEF IsJoined
    <3>2. QED
      BY <1>6, <3>1, ShortSeqs
  <2>4. CASE b = n + 2
    <3>1. g.succs[b] = f.succs[x]
      BY <1>3, <2>4 DEF IsJoined
    <3>2. QED
      BY <1>2, <1>4, <1>6, <3>1, SeqWidens
  <2>5. CASE b \in (1 .. n) \ {p, t, h, x}
    <3>1. g.succs[b] = f.succs[b]
      BY <1>3, <2>5 DEF IsJoined
    <3>2. QED
      BY <1>2, <1>4, <1>6, <2>5, <3>1, SeqWidens
  <2>6. QED
    BY <1>2, <2>2, <2>3, <2>4, <2>5
<1>8. g.succs \in Seq(S) /\ Len(g.succs) = n + 2
  <2>1. PICK s, n2 : s = g.succs /\ n2 = n + 2
    OBVIOUS
  <2>2. n2 \in Nat /\ IsList(s, n2) /\ \A b \in 1 .. n2 : s[b] \in S
    BY <1>2, <1>5, <1>7, <2>1
  <2>3. QED
    BY <2>1, <2>2, ListIsSeq
<1>9. Blocks(g) = B
  BY <1>5, <1>6 DEF Blocks
<1>10. PICK U, V : U = InstructionsOf(g) /\ V = Seq(U)
  OBVIOUS
<1>11. ASSUME NEW b \in 1 .. n + 2 PROVE g.code[b] \in V
  <2>1. IsCode(g.code[b])
    BY <1>1, <1>11, JoinedCode DEF IsRecoded
  <2>2. ToSet(g.code[b]) \subseteq U
    BY <1>6, <1>9, <1>10, <1>11 DEF InstructionsOf
  <2>3. QED
    BY <1>10, <2>1, <2>2, CodeOver
<1>12. g.code \in Seq(V) /\ Len(g.code) = n + 2
  <2>1. PICK s, n2 : s = g.code /\ n2 = n + 2
    OBVIOUS
  <2>2. n2 \in Nat /\ IsList(s, n2) /\ \A b \in 1 .. n2 : s[b] \in V
    BY <1>2, <1>5, <1>11, <2>1
  <2>3. QED
    BY <2>1, <2>2, ListIsSeq
<1>13. g.loops \in Seq(LoopRecords(g))
  BY <1>1, JoinedLoops DEF AreWidened
<1>14. HasFields(g) /\ g.n \in Nat
  BY <1>2, <1>5
<1>15. QED
  BY <1>1, <1>5, <1>6, <1>8, <1>9, <1>10, <1>12, <1>13, <1>14 DEF IsProgram, HasFields

-----------------------------------------------------------------------------
(***************************************************************************)
(* The loops still to come, after a rotation.                              *)
(***************************************************************************)
\* The loop q with exit y, from the blocks of the loop at hand: neither its
\* header nor its exit is among them, and around them it has both h and x.
IsBeside(n, p, t, h, x, q, y, more) ==
  /\ q.header \in (1 .. n) \ {p, t, h, x} /\ y \in (1 .. n) \ {h, x}
  /\ q.blocks \subseteq 1 .. n
  /\ \/ more = {n + 1, n + 2} /\ {h, x} \subseteq q.blocks
     \/ more = {} /\ h \notin q.blocks

LEMMA TwoLong ==
  ASSUME NEW U, NEW s \in Seq(U), Len(s) = 2 PROVE s[1] \in U /\ s[2] \in U
<1>1. \A i \in 1 .. Len(s) : s[i] \in U
  OBVIOUS
<1>2. 1 \in 1 .. Len(s) /\ 2 \in 1 .. Len(s)
  OBVIOUS
<1>3. QED
  BY <1>1, <1>2

LEMMA LoopsBeside ==
  ASSUME NEW f, NEW k, NEW w, NEW p, NEW t, NEW h, NEW x, NEW e,
         Setting(f, k, w, p, t, h, x, e), NEW j \in k + 1 .. Len(f.loops),
         NEW q, q = f.loops[j]
  PROVE  /\ IsBeside(f.n, p, t, h, x, q, Exit(f, q),
                     IF j \in f.loops[k].parents THEN {f.n + 1, f.n + 2} ELSE {})
         /\ IsNatural(f, q) /\ HasOwnExit(f, q) /\ HasHeader(f, q)
<1>1. PICK n, loop, y : n = f.n /\ loop = f.loops[k] /\ y = Exit(f, q)
  OBVIOUS
<1>2. /\ IsProgram(f) /\ LoopsOK(f, k) /\ k \in 1 .. Len(f.loops) /\ Len(f.loops) \in Nat
      /\ j \in k .. Len(f.loops) /\ k \in k .. Len(f.loops) /\ j # k /\ ~(j < k)
      /\ j \in 1 .. Len(f.loops)
  <2>1. /\ IsProgram(f) /\ LoopsOK(f, k) /\ k \in 1 .. Len(f.loops) /\ Len(f.loops) \in Nat
    BY ProgramFacts DEF Setting, AtWork, Sound
  <2>2. QED
    BY <2>1
<1>3. /\ IsNatural(f, q) /\ HasOwnExit(f, q) /\ HasHeader(f, q) /\ IsNatural(f, loop)
      /\ AreNested(f, j, k) /\ AreNested(f, k, j)
  BY <1>1, <1>2 DEF LoopsOK
<1>4. /\ h = loop.header /\ x = Exit(f, loop)
  BY <1>1 DEF Setting, AtWork, Names, Locals, Exit
<1>5. /\ {p, t, h, x, e} \subseteq 1 .. n /\ {t, h, e} \subseteq loop.blocks /\ n \in Nat
      /\ Predecessors(f, x) = {h} /\ f.succs[p] = <<h>>
  BY <1>1, <1>2, LoopPlaces, ProgramFacts DEF Setting, Blocks
<1>6. /\ q.header # h /\ x # q.header /\ y # h
      /\ q.header \notin loop.blocks
      /\ j \in loop.parents <=> h \in q.blocks
      /\ j \in loop.parents => x \in q.blocks
  BY <1>1, <1>2, <1>3, <1>4 DEF AreNested
<1>7. /\ q \in LoopRecords(f) /\ f.succs[q.header] \in Seq(1 .. n) /\ Len(f.succs[q.header]) = 2
  BY <1>1, <1>2, <1>3, ProgramFacts DEF IsNatural, LoopRecords, Blocks
<1>8. q.header \in 1 .. n /\ q.blocks \subseteq 1 .. n /\ y \in 1 .. n
  <2>1. q.header \in 1 .. n /\ q.blocks \subseteq 1 .. n
    BY <1>1, <1>7 DEF LoopRecords, Blocks
  <2>2. PICK s : s = f.succs[q.header]
    OBVIOUS
  <2>3. s[2] \in 1 .. n
    <3>1. s \in Seq(1 .. n) /\ Len(s) = 2
      BY <1>7, <2>2
    <3>2. QED
      BY <3>1, TwoLong
  <2>4. QED
    BY <1>1, <2>1, <2>2, <2>3 DEF Exit
<1>9. q.header # p /\ q.header # t
  <2>1. f.succs[p] = <<h>>
    BY <1>5
  <2>2. PICK d : d = q.header
    OBVIOUS
  <2>3. d # p
    <3>1. PICK s : s = f.succs
      OBVIOUS
    <3>2. Len(s[d]) = 2
      BY <1>7, <2>2, <3>1
    <3>3. s[p] = <<h>>
      BY <2>1, <3>1
    <3>4. Len(s[p]) = 1
      BY <3>3
    <3>5. 1 # 2
      OBVIOUS
    <3>6. QED
      BY <3>2, <3>4, <3>5, Zenon
  <2>4. t \in loop.blocks
    BY <1>5
  <2>5. QED
    BY <1>6, <2>2, <2>3, <2>4
<1>10. y # x
  BY <1>1, <1>3, <1>5, <1>6 DEF HasOwnExit
<1>11. QED
  BY <1>1, <1>3, <1>5, <1>6, <1>8, <1>9, <1>10 DEF IsBeside

LEMMA StaysNatural ==
  ASSUME NEW f, NEW g, NEW m, NEW w, NEW n, NEW p, NEW t, NEW h, NEW x, NEW e,
         InPlace(f, n, p, t, h, x, e), IsJoined(f, g, m, w, n, p, t, h, x, e),
         NEW q, NEW r, NEW y, NEW more, IsBeside(n, p, t, h, x, q, y, more),
         IsWider(q, r, more), IsNatural(f, q)
  PROVE  IsNatural(g, r)
<1>1. PICK d : d = q.header
  OBVIOUS
<1>2. /\ d \in (1 .. n) \ {p, t, h, x} /\ d \in q.blocks /\ q.blocks \subseteq 1 .. n
      /\ r.header = d /\ r.blocks = q.blocks \cup more
      /\ \/ more = {n + 1, n + 2} /\ {h, x} \subseteq q.blocks
         \/ more = {} /\ h \notin q.blocks
  BY <1>1 DEF IsBeside, IsWider, IsNatural
<1>3. /\ \A b \in q.blocks \ {d} : Predecessors(f, b) \subseteq q.blocks
      /\ \A b \in q.blocks \ {d} : d \in Successors(f, b) => Len(f.succs[b]) = 1
      /\ Len(f.succs[d]) = 2 /\ f.succs[d][1] \in q.blocks
  BY <1>1 DEF IsNatural
<1>4. /\ n \in Nat /\ {p, t, h, x} \subseteq 1 .. n
      /\ Predecessors(f, h) = {p, t} /\ Predecessors(f, x) = {h}
  BY DEF InPlace
<1>5. IsTurned(f, g, n, p, t, h, x, e)
  BY IsJoinedTurns
<1>6. /\ Predecessors(g, h) = {n + 1, t} /\ Predecessors(g, x) = {p, t}
      /\ Predecessors(g, n + 1) = {p} /\ Predecessors(g, n + 2) = {x}
      /\ \A b \in (1 .. n) \ {h, x} :
           Predecessors(g, b) = {Past(n, x, c) : c \in Predecessors(f, b)}
  BY <1>5, PredecessorsTurned
<1>7. x \in q.blocks => h \in q.blocks
  BY <1>2, <1>3, <1>4
<1>8. ASSUME NEW b \in r.blocks \ {d} PROVE Predecessors(g, b) \subseteq r.blocks
  <2>1. CASE more = {} /\ h \notin q.blocks
    <3>1. /\ b \in (1 .. n) \ {h, x} /\ b \in q.blocks \ {d} /\ x \notin q.blocks
          /\ r.blocks = q.blocks
      BY <1>2, <1>7, <2>1
    <3>2. \A c \in Predecessors(f, b) : c \in q.blocks /\ Past(n, x, c) = c
      BY <1>3, <3>1 DEF Past
    <3>3. QED
      BY <1>6, <3>1, <3>2
  <2>2. CASE more = {n + 1, n + 2} /\ {h, x} \subseteq q.blocks
    <3>1. {p, t, h, x, n + 1, n + 2} \subseteq r.blocks
      BY <1>2, <1>3, <1>4, <2>2
    <3>2. CASE b \in {h, x, n + 1, n + 2}
      BY <1>6, <3>1, <3>2
    <3>3. CASE b \notin {h, x, n + 1, n + 2}
      <4>1. b \in (1 .. n) \ {h, x} /\ b \in q.blocks \ {d}
        BY <1>2, <2>2, <3>3
      <4>2. \A c \in Predecessors(f, b) : Past(n, x, c) \in r.blocks
        BY <1>2, <1>3, <3>1, <4>1 DEF Past
      <4>3. QED
        BY <1>6, <4>1, <4>2
    <3>4. QED
      BY <3>2, <3>3
  <2>3. QED
    BY <1>2, <2>1, <2>2
<1>9. ASSUME NEW b \in r.blocks \ {d}, d \in Successors(g, b) PROVE Len(g.succs[b]) = 1
  <2>1. CASE b \in {h, x, n + 1}
    <3>1. \E c : g.succs[b] = To(c)
      BY <2>1 DEF IsJoined
    <3>2. QED
      BY <3>1, ToIs
  <2>2. b # p /\ b # t
    <3>1. d # n + 1 /\ d # x /\ d # h
      BY <1>2, <1>4
    <3>2. QED
      BY <1>5, <1>9, <3>1 DEF IsTurned
  <2>3. CASE b = n + 2
    <3>1. g.succs[b] = f.succs[x] /\ d \in Successors(f, x)
      BY <1>5, <1>9, <2>3 DEF IsJoined, IsTurned
    <3>2. x \in q.blocks \ {d}
      BY <1>2, <1>4, <2>3
    <3>3. QED
      BY <1>3, <3>1, <3>2
  <2>4. CASE b \notin {h, x, n + 1, n + 2}
    <3>1. b \in (1 .. n) \ {p, t, h, x} /\ b \in q.blocks \ {d}
      BY <1>2, <2>2, <2>4
    <3>2. g.succs[b] = f.succs[b] /\ Successors(g, b) = Successors(f, b)
      BY <1>5, <3>1 DEF IsJoined, IsTurned
    <3>3. QED
      BY <1>3, <1>9, <3>1, <3>2
  <2>5. QED
    BY <2>1, <2>3, <2>4
<1>10. g.succs[d] = f.succs[d]
  BY <1>2 DEF IsJoined
<1>11. QED
  BY <1>2, <1>3, <1>8, <1>9, <1>10 DEF IsNatural

LEMMA StaysOwn ==
  ASSUME NEW f, NEW g, NEW m, NEW w, NEW n, NEW p, NEW t, NEW h, NEW x, NEW e, NEW joins,
         InPlace(f, n, p, t, h, x, e), IsJoined(f, g, m, w, n, p, t, h, x, e),
         IsRecoded(f, g, n, p, t, h, x, joins),
         NEW q, NEW r, NEW y, NEW more, y = Exit(f, q), IsBeside(n, p, t, h, x, q, y, more),
         IsWider(q, r, more), HasOwnExit(f, q)
  PROVE  HasOwnExit(g, r) /\ Exit(g, r) = y
<1>1. PICK d : d = q.header
  OBVIOUS
<1>2. /\ d \in (1 .. n) \ {p, t, h, x} /\ y \in (1 .. n) \ {h, x}
      /\ r.header = d /\ r.blocks = q.blocks \cup more
      /\ more \subseteq {n + 1, n + 2}
  BY <1>1 DEF IsBeside, IsWider
<1>3. /\ y \notin q.blocks /\ Predecessors(f, y) = {d} /\ d \notin Successors(f, y)
      /\ PhisAt(f, y) = {}
  BY <1>1 DEF HasOwnExit, PhisAt
<1>4. n \in Nat /\ {p, t, h, x} \subseteq 1 .. n
  BY DEF InPlace
<1>5. IsTurned(f, g, n, p, t, h, x, e)
  BY IsJoinedTurns
<1>6. Exit(g, r) = y
  <2>1. g.succs[d] = f.succs[d]
    BY <1>2 DEF IsJoined
  <2>2. QED
    BY <1>1, <1>2, <2>1 DEF Exit
<1>7. Predecessors(g, y) = {d}
  <2>1. Predecessors(g, y) = {Past(n, x, c) : c \in Predecessors(f, y)}
    BY <1>2, <1>5, PredecessorsTurned
  <2>2. Past(n, x, d) = d
    BY <1>2 DEF Past
  <2>3. QED
    BY <1>3, <2>1, <2>2
<1>8. y \notin r.blocks
  <2>1. y # n + 1 /\ y # n + 2
    BY <1>2, <1>4
  <2>2. QED
    BY <1>2, <1>3, <2>1
<1>9. d \notin Successors(g, y)
  <2>1. d # n + 1 /\ d # x /\ d # h
    BY <1>2, <1>4
  <2>2. CASE y \in {p, t}
    BY <1>5, <2>1, <2>2 DEF IsTurned
  <2>3. CASE y \notin {p, t}
    BY <1>2, <1>3, <1>5, <2>3 DEF IsTurned
  <2>4. QED
    BY <2>2, <2>3
<1>10. PhisAt(g, y) = {}
  BY <1>2, <1>3 DEF IsRecoded
<1>11. QED
  BY <1>2, <1>6, <1>7, <1>8, <1>9, <1>10 DEF HasOwnExit, PhisAt

LEMMA StaysHeader ==
  ASSUME NEW f, NEW g, NEW n, NEW p, NEW t, NEW h, NEW x, NEW joins,
         Blocks(f) = 1 .. n, IsRecoded(f, g, n, p, t, h, x, joins),
         NEW q, NEW r, NEW y, NEW more, IsBeside(n, p, t, h, x, q, y, more),
         IsWider(q, r, more), HasHeader(f, q), f.code[q.header] \in Seq(InstructionsOf(f))
  PROVE  HasHeader(g, r)
<1>1. PICK d, c : d = q.header /\ c = f.code[d]
  OBVIOUS
<1>2. d \in (1 .. n) \ {p, t, h, x} /\ r.header = d
  BY <1>1 DEF IsBeside, IsWider
<1>3. g.code[d] = c
  BY <1>1, <1>2 DEF IsRecoded
<1>4. /\ DOMAIN g.incoming = DOMAIN f.incoming \cup joins
      /\ joins \cap InstructionsOf(f) = {}
  BY DEF IsRecoded
<1>5. \A i \in 1 .. Len(c) : c[i] \in InstructionsOf(f)
  BY <1>1
<1>6. \A i, j \in 1 .. Len(c) :
        i < j /\ c[j] \in DOMAIN f.incoming => c[i] \in DOMAIN f.incoming
  BY <1>1 DEF HasHeader
<1>7. \A i, j \in 1 .. Len(c) :
        i < j /\ c[j] \in DOMAIN g.incoming => c[i] \in DOMAIN g.incoming
  BY <1>4, <1>5, <1>6
<1>8. ASSUME NEW i \in InstructionsOf(g) \cup DOMAIN g.incoming
      PROVE  ~ (i[1] \in {"clone", "exit"} /\ i[2] = d)
  <2>1. CASE i \in InstructionsOf(f) \cup DOMAIN f.incoming
    BY <1>1, <2>1 DEF HasHeader
  <2>2. CASE \E kind \in {"clone", "exit"} : IsMade(i, kind, h)
    <3>1. i[2] = h
      BY <2>2 DEF IsMade
    <3>2. QED
      BY <1>2, <3>1
  <2>3. QED
    BY <1>8, <2>1, <2>2 DEF IsRecoded
<1>9. QED
  BY <1>2, <1>3, <1>7, <1>8 DEF HasHeader

(***************************************************************************)
(* Rotating a loop leaves while loops behind it.                           *)
(***************************************************************************)
LEMMA JoinedIsSound ==
  ASSUME NEW f, NEW k, NEW w, NEW p, NEW t, NEW h, NEW x, NEW e,
         Setting(f, k, w, p, t, h, x, e)
  PROVE  Sound(Joined(f, w), k + 1)
<1>1. PICK n, m, g, joins, parents, len :
        /\ n = f.n /\ m = Moved(f, w) /\ g = Joined(f, w) /\ joins = JoinNames(m, w)
        /\ parents = f.loops[k].parents /\ len = Len(f.loops)
  OBVIOUS
<1>2. InPlace(f, n, p, t, h, x, e)
  BY <1>1, PlacesHold
<1>3. IsJoined(f, g, m, w, n, p, t, h, x, e)
  BY <1>1, AfterJoin
<1>4. IsRecoded(f, g, n, p, t, h, x, joins)
  BY <1>1, JoinedCode
<1>5. IsProgram(f) /\ LoopsOK(f, k) /\ k \in 1 .. len /\ len \in Nat /\ Blocks(f) = 1 .. n
  BY <1>1, ProgramFacts DEF Setting, AtWork, Sound, Blocks
<1>6. /\ Len(g.loops) = len
      /\ \A j \in 1 .. len :
           IsWider(f.loops[j], g.loops[j], IF j \in parents THEN {n + 1, n + 2} ELSE {})
  BY <1>1, JoinedLoops DEF AreWidened
<1>7. ASSUME NEW j \in k + 1 .. len
      PROVE  /\ IsNatural(g, g.loops[j]) /\ HasOwnExit(g, g.loops[j]) /\ HasHeader(g, g.loops[j])
             /\ Exit(g, g.loops[j]) = Exit(f, f.loops[j])
             /\ Exit(f, f.loops[j]) \in 1 .. n /\ f.loops[j].header \in 1 .. n
             /\ \E more \in SUBSET {n + 1, n + 2} : IsWider(f.loops[j], g.loops[j], more)
  <2>1. PICK q, r, y, more :
          /\ q = f.loops[j] /\ r = g.loops[j] /\ y = Exit(f, q)
          /\ more = IF j \in parents THEN {n + 1, n + 2} ELSE {}
    OBVIOUS
  <2>2. /\ IsBeside(n, p, t, h, x, q, y, more)
        /\ IsNatural(f, q) /\ HasOwnExit(f, q) /\ HasHeader(f, q)
    BY <1>1, <2>1, LoopsBeside
  <2>3. IsWider(q, r, more)
    <3>1. j \in 1 .. len
      BY <1>5
    <3>2. QED
      BY <1>6, <2>1, <3>1
  <2>4. IsNatural(g, r)
    BY <1>2, <1>3, <2>2, <2>3, StaysNatural
  <2>5. HasOwnExit(g, r) /\ Exit(g, r) = y
    BY <1>2, <1>3, <1>4, <2>1, <2>2, <2>3, StaysOwn
  <2>6. y \in 1 .. n /\ q.header \in 1 .. n /\ more \subseteq {n + 1, n + 2}
    BY <2>2 DEF IsBeside
  <2>7. f.code[q.header] \in Seq(InstructionsOf(f))
    BY <1>5, <2>6, ProgramFacts
  <2>8. HasHeader(g, r)
    BY <1>4, <1>5, <2>2, <2>3, <2>7, StaysHeader
  <2>9. QED
    BY <2>1, <2>3, <2>4, <2>5, <2>6, <2>8
<1>8. ASSUME NEW i \in k + 1 .. len, NEW j \in (k + 1 .. len) \ {i}
      PROVE  AreNested(g, j, i)
  <2>1. AreNested(f, j, i)
    BY <1>1, <1>5, <1>8 DEF LoopsOK
  <2>2. PICK q, r, u, v, a, b :
          /\ q = f.loops[i] /\ r = g.loops[i] /\ a \in SUBSET {n + 1, n + 2} /\ IsWider(q, r, a)
          /\ u = f.loops[j] /\ v = g.loops[j] /\ b \in SUBSET {n + 1, n + 2} /\ IsWider(u, v, b)
    BY <1>7, <1>8
  <2>3. /\ Exit(g, r) = Exit(f, q) /\ Exit(f, q) \in 1 .. n /\ q.header \in 1 .. n
    BY <1>7, <1>8, <2>2
  <2>4. n \in Nat /\ n + 1 \notin 1 .. n /\ n + 2 \notin 1 .. n
    BY <1>2 DEF InPlace
  <2>5. /\ r.header = q.header /\ v.header = u.header /\ r.parents = q.parents
        /\ \A c \in 1 .. n : c \in v.blocks <=> c \in u.blocks
    BY <2>2, <2>4 DEF IsWider
  <2>6. QED
    BY <2>1, <2>2, <2>3, <2>5 DEF AreNested
<1>9. LoopsOK(g, k + 1)
  BY <1>6, <1>7, <1>8 DEF LoopsOK
<1>10. QED
  BY <1>1, <1>9, JoinedProgram, JoinedPhis DEF Sound

-----------------------------------------------------------------------------
(***************************************************************************)
(* Loops in form stay in form.                                             *)
(***************************************************************************)
\* One block from outside, which goes nowhere else, one from inside, not the header.
ComesFrom(f, loop, a, b) ==
  /\ Predecessors(f, loop.header) \ loop.blocks = {a} /\ Len(f.succs[a]) = 1
  /\ Predecessors(f, loop.header) \cap loop.blocks = {b} /\ b # loop.header

LEMMA InFormIs ==
  ASSUME NEW f, NEW n \in Nat, f.n = n, NEW loop
  PROVE  InForm(f, loop) <=>
           \E a, b \in 1 .. n : ComesFrom(f, loop, a, b) /\ Len(f.succs[loop.header]) = 2
<1>1. PICK d, outside, back :
        /\ d = loop.header /\ outside = Predecessors(f, d) \ loop.blocks
        /\ back = Predecessors(f, d) \cap loop.blocks
  OBVIOUS
<1>2. outside \in SUBSET (1 .. n) /\ back \in SUBSET (1 .. n) /\ 0 \notin 1 .. n
  BY <1>1 DEF Predecessors, Blocks
<1>3. ASSUME InForm(f, loop)
      PROVE  \E a, b \in 1 .. n : ComesFrom(f, loop, a, b) /\ Len(f.succs[loop.header]) = 2
  <2>1. Preheader(f, loop) # 0 /\ Latch(f, loop) \notin {0, d} /\ Len(f.succs[d]) = 2
    BY <1>1, <1>3 DEF InForm
  <2>2. Cardinality(outside) = 1 /\ \A c \in outside : Len(f.succs[c]) = 1
    BY <1>1, <2>1 DEF Preheader
  <2>3. Cardinality(back) = 1 /\ (CHOOSE c \in back : TRUE) # d
    BY <1>1, <2>1 DEF Latch
  <2>4. PICK a \in 1 .. n : outside = {a}
    BY <1>2, <2>2, OneMember
  <2>5. PICK b : b = CHOOSE c \in back : TRUE
    OBVIOUS
  <2>6. back = {b} /\ b \in 1 .. n
    BY <1>2, <2>3, <2>5, OneMember
  <2>7. Len(f.succs[a]) = 1 /\ b # d
    BY <2>2, <2>3, <2>4, <2>5
  <2>8. QED
    BY <1>1, <2>1, <2>4, <2>6, <2>7 DEF ComesFrom
<1>4. ASSUME NEW a \in 1 .. n, NEW b \in 1 .. n, ComesFrom(f, loop, a, b),
             Len(f.succs[loop.header]) = 2
      PROVE  InForm(f, loop)
  <2>1. outside = {a} /\ back = {b} /\ Len(f.succs[a]) = 1 /\ b # d
    BY <1>1, <1>4 DEF ComesFrom
  <2>2. Cardinality(outside) = 1 /\ Cardinality(back) = 1
    BY <2>1, FS_Singleton
  <2>3. (CHOOSE c \in outside : TRUE) = a /\ (CHOOSE c \in back : TRUE) = b
    BY <2>1
  <2>4. Preheader(f, loop) = a
    BY <1>1, <2>1, <2>2, <2>3 DEF Preheader
  <2>5. Latch(f, loop) = b
    BY <1>1, <2>2, <2>3 DEF Latch
  <2>6. QED
    BY <1>1, <1>2, <1>4, <2>1, <2>4, <2>5 DEF InForm
<1>5. QED
  BY <1>3, <1>4

LEMMA StaysInForm ==
  ASSUME NEW f, NEW g, NEW m, NEW w, NEW n, NEW p, NEW t, NEW h, NEW x, NEW e,
         InPlace(f, n, p, t, h, x, e), IsJoined(f, g, m, w, n, p, t, h, x, e),
         NEW q, NEW r, NEW y, NEW more, IsBeside(n, p, t, h, x, q, y, more),
         IsWider(q, r, more), IsNatural(f, q), InForm(f, q)
  PROVE  InForm(g, r)
<1>1. PICK d : d = q.header
  OBVIOUS
<1>2. /\ d \in (1 .. n) \ {p, t, h, x} /\ q.blocks \subseteq 1 .. n
      /\ r.header = d /\ r.blocks = q.blocks \cup more
      /\ \/ more = {n + 1, n + 2} /\ {h, x} \subseteq q.blocks
         \/ more = {} /\ h \notin q.blocks
  BY <1>1 DEF IsBeside, IsWider
<1>3. /\ n \in Nat /\ f.n = n /\ {p, t, h, x} \subseteq 1 .. n
      /\ Successors(f, p) = {h} /\ Successors(f, t) = {h} /\ Predecessors(f, x) = {h}
  BY DEF InPlace
<1>4. PICK a \in 1 .. n, b \in 1 .. n : ComesFrom(f, q, a, b) /\ Len(f.succs[d]) = 2
  BY <1>1, <1>3, InFormIs
<1>5. PICK preds : preds = Predecessors(f, d)
  OBVIOUS
<1>6. /\ preds \ q.blocks = {a} /\ preds \cap q.blocks = {b} /\ b # d /\ Len(f.succs[a]) = 1
      /\ preds \subseteq 1 .. n
  BY <1>1, <1>3, <1>4, <1>5 DEF ComesFrom, Predecessors, Blocks
<1>7. x \in q.blocks => h \in q.blocks
  BY <1>1, <1>2, <1>3 DEF IsNatural
<1>8. PICK a2, b2 : a2 = Past(n, x, a) /\ b2 = Past(n, x, b)
  OBVIOUS
<1>9. Predecessors(g, d) = {Past(n, x, c) : c \in preds}
  BY <1>2, <1>5, IsJoinedTurns, PredecessorsTurned
<1>10. \A c \in preds : Past(n, x, c) \in r.blocks <=> c \in q.blocks
  BY <1>2, <1>3, <1>6, <1>7 DEF Past
<1>11. Predecessors(g, d) \ r.blocks = {a2}
  <2>1. \A c \in preds : c \notin q.blocks <=> c = a
    BY <1>6
  <2>2. a \in preds
    BY <1>6
  <2>3. QED
    BY <1>8, <1>9, <1>10, <2>1, <2>2
<1>12. Predecessors(g, d) \cap r.blocks = {b2}
  <2>1. \A c \in preds : c \in q.blocks <=> c = b
    BY <1>6
  <2>2. b \in preds
    BY <1>6
  <2>3. QED
    BY <1>8, <1>9, <1>10, <2>1, <2>2
<1>13. b2 # d
  <2>1. n + 2 # d
    BY <1>2, <1>3
  <2>2. QED
    BY <1>6, <1>8, <2>1 DEF Past
<1>14. Len(g.succs[a2]) = 1
  <2>1. a # p /\ a # t
    <3>1. d \in Successors(f, a)
      BY <1>5, <1>6 DEF Predecessors
    <3>2. QED
      BY <1>2, <1>3, <3>1
  <2>2. CASE a = x
    <3>1. g.succs[n + 2] = f.succs[x] /\ a2 = n + 2
      BY <1>8, <2>2 DEF IsJoined, Past
    <3>2. QED
      BY <1>6, <2>2, <3>1
  <2>3. CASE a # x /\ a = h
    <3>1. g.succs[a2] = To(e)
      BY <1>8, <2>3 DEF IsJoined, Past
    <3>2. QED
      BY <3>1 DEF To
  <2>4. CASE a # x /\ a # h
    <3>1. g.succs[a2] = f.succs[a]
      BY <1>8, <2>1, <2>4 DEF IsJoined, Past
    <3>2. QED
      BY <1>6, <3>1
  <2>5. QED
    BY <2>2, <2>3, <2>4
<1>15. Len(g.succs[d]) = 2
  <2>1. g.succs[d] = f.succs[d]
    BY <1>2 DEF IsJoined
  <2>2. QED
    BY <1>4, <2>1
<1>16. ComesFrom(g, r, a2, b2) /\ Len(g.succs[r.header]) = 2
  BY <1>2, <1>11, <1>12, <1>13, <1>14, <1>15 DEF ComesFrom
<1>17. PICK n2 : n2 = n + 2
  OBVIOUS
<1>18. n2 \in Nat /\ g.n = n2 /\ a2 \in 1 .. n2 /\ b2 \in 1 .. n2
  <2>1. g.n = n + 2
    BY DEF IsJoined, Graphs
  <2>2. QED
    BY <1>3, <1>8, <1>17, <2>1 DEF Past
<1>19. QED
  BY <1>16, <1>18, InFormIs

LEMMA JoinedInForm ==
  ASSUME NEW f, NEW k, NEW w, NEW p, NEW t, NEW h, NEW x, NEW e,
         Setting(f, k, w, p, t, h, x, e),
         NEW j \in k + 1 .. Len(f.loops), InForm(f, f.loops[j])
  PROVE  InForm(Joined(f, w), Joined(f, w).loops[j])
<1>1. PICK n, m, g, parents, q, r, y, more :
        /\ n = f.n /\ m = Moved(f, w) /\ g = Joined(f, w) /\ parents = f.loops[k].parents
        /\ q = f.loops[j] /\ r = g.loops[j] /\ y = Exit(f, q)
        /\ more = IF j \in parents THEN {n + 1, n + 2} ELSE {}
  OBVIOUS
<1>2. InPlace(f, n, p, t, h, x, e)
  BY <1>1, PlacesHold
<1>3. IsJoined(f, g, m, w, n, p, t, h, x, e)
  BY <1>1, AfterJoin
<1>4. IsBeside(n, p, t, h, x, q, y, more) /\ IsNatural(f, q)
  BY <1>1, LoopsBeside
<1>5. IsWider(q, r, more)
  <2>1. j \in 1 .. Len(f.loops)
    BY ProgramFacts DEF Setting, AtWork, Sound
  <2>2. QED
    BY <1>1, <2>1, JoinedLoops DEF AreWidened
<1>6. InForm(f, q)
  BY <1>1
<1>7. InForm(g, r)
  BY <1>2, <1>3, <1>4, <1>5, <1>6, StaysInForm
<1>8. QED
  BY <1>1, <1>7

-----------------------------------------------------------------------------
(***************************************************************************)
(* The states of a run.                                                    *)
(***************************************************************************)
\* What the source's later loops had for a form, those of f have.
KeepsForm(f) ==
  /\ Len(f.loops) = Len(source.loops)
  /\ \A j \in at .. Len(f.loops) : InForm(source, source.loops[j]) => InForm(f, f.loops[j])

\* The program is f with the loop at hand rotated up to the present step.
Working(f) == AtWork(f, at, l) /\ KeepsForm(f)

RotationInv ==
  /\ step \in {"idle", "loop", "latch", "preheader", "exit", "endless", "crashed"}
  /\ step = "loop" => at \in Nat \ {0} /\ Sound(prog, at) /\ KeepsForm(prog)
  /\ step = "latch" => \E f : Working(f) /\ prog = Split(f, l)
  /\ step = "preheader" => \E f : Working(f) /\ HasLatch(l) /\ prog = Copied(f, l)
  /\ step = "exit" => \E f : Working(f) /\ HasLatch(l) /\ prog = Moved(f, l)
  /\ step = "idle" /\ at > 0 => PhisInStep(prog)
  /\ step \in {"endless", "crashed"} => ~ InForm(source, source.loops[at])

(***************************************************************************)
(* The loop after the one at hand.                                         *)
(***************************************************************************)
LEMMA LaterLoops ==
  ASSUME NEW f, NEW a \in Nat, Sound(f, a) PROVE Sound(f, a + 1)
<1>1. Len(f.loops) \in Nat
  BY ProgramFacts DEF Sound
<1>2. \A k \in a + 1 .. Len(f.loops) : k \in a .. Len(f.loops)
  BY <1>1
<1>3. QED
  BY <1>2 DEF Sound, LoopsOK

LEMMA StartFunctionKeeps ==
  ASSUME \A f \in Sources : WhileLoops(f), NEW f \in Sources, StartFunction(f)
  PROVE  RotationInv'
<1>1. at' = 1 /\ prog' = f /\ source' = f /\ step' = "loop"
  BY DEF StartFunction
<1>2. Sound(prog', at')
  BY <1>1 DEF WhileLoops
<1>3. KeepsForm(prog)'
  BY <1>1 DEF KeepsForm
<1>4. QED
  BY <1>1, <1>2, <1>3 DEF RotationInv

LEMMA SkipLoopKeeps == ASSUME RotationInv, SkipLoop PROVE RotationInv'
<1>1. /\ step = "loop" /\ at' = at + 1 /\ prog' = prog /\ source' = source /\ step' = "loop"
  BY DEF SkipLoop, More
<1>2. at \in Nat \ {0} /\ Sound(prog, at) /\ KeepsForm(prog)
  BY <1>1 DEF RotationInv
<1>3. Sound(prog', at')
  BY <1>1, <1>2, LaterLoops
<1>4. KeepsForm(prog)'
  <2>1. Len(prog.loops) \in Nat
    BY <1>2, ProgramFacts DEF Sound
  <2>2. \A j \in at + 1 .. Len(prog.loops) : j \in at .. Len(prog.loops)
    BY <1>2, <2>1
  <2>3. QED
    BY <1>1, <1>2, <2>2 DEF KeepsForm
<1>5. QED
  BY <1>1, <1>2, <1>3, <1>4 DEF RotationInv

LEMMA SplitPreheaderKeeps == ASSUME RotationInv, SplitPreheader PROVE RotationInv'
<1>1. /\ step = "loop" /\ at' = at /\ source' = source /\ step' = "latch"
      /\ at <= Len(prog.loops) /\ Preheader(prog, prog.loops[at]) # 0
      /\ l' = Locals(prog, prog.loops[at]) /\ prog' = Split(prog, l')
  BY DEF SplitPreheader, More, Current, Locals, Split
<1>2. at \in Nat \ {0} /\ Sound(prog, at) /\ KeepsForm(prog)
  BY <1>1 DEF RotationInv
<1>3. at \in 1 .. Len(prog.loops)
  <2>1. Len(prog.loops) \in Nat
    BY <1>2, ProgramFacts DEF Sound
  <2>2. QED
    BY <1>1, <1>2, <2>1
<1>4. PICK f : f = prog
  OBVIOUS
<1>5. AtWork(f, at', l')
  BY <1>1, <1>2, <1>3, <1>4 DEF AtWork
<1>6. KeepsForm(f)'
  BY <1>1, <1>2, <1>4 DEF KeepsForm
<1>7. Working(f)' /\ prog' = Split(f, l')
  BY <1>1, <1>4, <1>5, <1>6 DEF Working
<1>8. QED
  BY <1>1, <1>7 DEF RotationInv

LEMMA CloneToLatchKeeps == ASSUME RotationInv, CloneToLatch PROVE RotationInv'
<1>1. step = "latch" /\ at' = at /\ source' = source /\ l' = l
  BY DEF CloneToLatch
<1>2. PICK f : Working(f) /\ prog = Split(f, l)
  BY <1>1 DEF RotationInv
<1>3. Working(f)'
  BY <1>1, <1>2 DEF Working, KeepsForm
<1>4. CASE l.latch # 0 /\ l.latch # l.header /\ Len(prog.succs[l.header]) = 2
  <2>1. prog' = Copied(f, l) /\ step' = "preheader"
    BY <1>2, <1>4 DEF CloneToLatch, Copied
  <2>2. HasLatch(l)'
    BY <1>1, <1>4 DEF HasLatch
  <2>3. prog' = Copied(f, l')
    BY <1>1, <2>1
  <2>4. QED
    BY <1>3, <2>1, <2>2, <2>3 DEF RotationInv
<1>5. CASE ~ (l.latch # 0 /\ l.latch # l.header /\ Len(prog.succs[l.header]) = 2)
  <2>1. step' \in {"endless", "crashed"}
    BY <1>5 DEF CloneToLatch
  <2>2. ~ InForm(source, source.loops[at])
    <3>1. SUFFICES ASSUME InForm(source, source.loops[at]) PROVE FALSE
      OBVIOUS
    <3>2. AtWork(f, at, l) /\ at \in at .. Len(f.loops)
      BY <1>2, ProgramFacts DEF Working, AtWork, Sound
    <3>3. PICK loop : loop = f.loops[at] /\ InForm(f, loop)
      BY <1>2, <3>1, <3>2 DEF Working, KeepsForm
    <3>4. l.latch # 0 /\ l.latch # l.header /\ Len(f.succs[l.header]) = 2
      BY <3>2, <3>3 DEF AtWork, Locals, InForm
    <3>5. PICK p, t, h, x, e : Names(f, l, p, t, h, x, e)
      BY DEF Names
    <3>6. Setting(f, at, l, p, t, h, x, e)
      BY <3>2, <3>4, <3>5 DEF Setting, HasLatch
    <3>7. h \in 1 .. f.n /\ h # p /\ h = l.header
      BY <3>5, <3>6, PlacesHold DEF InPlace, Names
    <3>8. prog.succs[h] = f.succs[h]
      BY <1>2, <3>6, <3>7, AfterSplit DEF IsSplit
    <3>9. QED
      BY <1>5, <3>4, <3>7, <3>8
  <2>3. QED
    BY <1>1, <2>1, <2>2 DEF RotationInv
<1>6. QED
  BY <1>4, <1>5

LEMMA MoveToPreheaderKeeps == ASSUME RotationInv, MoveToPreheader PROVE RotationInv'
<1>1. /\ step = "preheader" /\ at' = at /\ source' = source /\ l' = l /\ step' = "exit"
      /\ prog' = MoveCondFromHeaderToPreheader(prog, l, prog.n)
  BY DEF MoveToPreheader
<1>2. PICK f : Working(f) /\ HasLatch(l) /\ prog = Copied(f, l)
  BY <1>1 DEF RotationInv
<1>3. Working(f)' /\ HasLatch(l)'
  BY <1>1, <1>2 DEF Working, KeepsForm
<1>4. prog' = Moved(f, l')
  BY <1>1, <1>2 DEF Moved
<1>5. QED
  BY <1>1, <1>3, <1>4 DEF RotationInv

LEMMA JoinAtExitKeeps == ASSUME RotationInv, JoinAtExit PROVE RotationInv'
<1>1. /\ step = "exit" /\ at' = at + 1 /\ source' = source /\ step' = "loop"
      /\ prog' = JoinPreheaderAndLatchAtExit(prog, l)
  BY DEF JoinAtExit
<1>2. PICK f : Working(f) /\ HasLatch(l) /\ prog = Moved(f, l)
  BY <1>1 DEF RotationInv
<1>3. PICK k, w, g : k = at /\ w = l /\ g = prog'
  OBVIOUS
<1>4. PICK p, t, h, x, e : Names(f, w, p, t, h, x, e)
  BY DEF Names
<1>5. Setting(f, k, w, p, t, h, x, e) /\ KeepsForm(f) /\ g = Joined(f, w)
  BY <1>1, <1>2, <1>3, <1>4 DEF Setting, Working, Joined
<1>6. Sound(g, k + 1)
  BY <1>5, JoinedIsSound
<1>7. k \in 1 .. Len(f.loops) /\ Len(f.loops) \in Nat /\ Len(g.loops) = Len(f.loops)
  BY <1>5, JoinedLoops, ProgramFacts DEF AreWidened, Setting, AtWork, Sound
<1>8. KeepsForm(prog)'
  <2>1. Len(f.loops) = Len(source.loops)
    BY <1>5 DEF KeepsForm
  <2>2. ASSUME NEW j \in k + 1 .. Len(f.loops), InForm(source, source.loops[j])
        PROVE  InForm(g, g.loops[j])
    <3>1. InForm(f, f.loops[j])
      BY <1>3, <1>5, <1>7, <2>2 DEF KeepsForm
    <3>2. InForm(Joined(f, w), Joined(f, w).loops[j])
      BY <1>5, <3>1, JoinedInForm
    <3>3. QED
      BY <1>5, <3>2
  <2>3. QED
    BY <1>1, <1>3, <1>7, <2>1, <2>2 DEF KeepsForm
<1>9. at' \in Nat \ {0} /\ Sound(prog', at')
  BY <1>1, <1>3, <1>6, <1>7
<1>10. QED
  BY <1>1, <1>8, <1>9 DEF RotationInv

LEMMA FunctionDoneKeeps == ASSUME RotationInv, FunctionDone PROVE RotationInv'
<1>1. step = "loop" /\ step' = "idle" /\ prog' = prog
  BY DEF FunctionDone
<1>2. PhisInStep(prog')
  BY <1>1 DEF RotationInv, Sound
<1>3. QED
  BY <1>1, <1>2 DEF RotationInv

LEMMA StutterKeeps == ASSUME RotationInv, UNCHANGED vars PROVE RotationInv'
  BY DEF RotationInv, vars, Working, KeepsForm

(***************************************************************************)
(* The invariant, for functions of while loops.                            *)
(***************************************************************************)
THEOREM Rotation == ASSUME \A f \in Sources : WhileLoops(f) PROVE Spec => []RotationInv
<1>1. Init => RotationInv
  BY DEF Init, RotationInv
<1>2. RotationInv /\ [Next]_vars => RotationInv'
  BY StartFunctionKeeps, SkipLoopKeeps, SplitPreheaderKeeps, CloneToLatchKeeps,
     MoveToPreheaderKeeps, JoinAtExitKeeps, FunctionDoneKeeps, StutterKeeps
     DEF Next, RunOnLoop
<1>3. QED
  BY <1>1, <1>2, PTL DEF Spec

(***************************************************************************)
(* Rotating a loop leaves the loops around and behind it in form           *)
(* (landing-pad.cpp:35-54 asks for it), however many there are and however *)
(* they are nested.                                                        *)
(***************************************************************************)
THEOREM FormKept ==
  ASSUME \A f \in Sources : WhileLoops(f) PROVE Spec => []OuterLoopsStayInForm
<1>1. RotationInv => OuterLoopsStayInForm
  BY DEF RotationInv, KeepsForm, OuterLoopsStayInForm
<1>2. QED
  BY <1>1, Rotation, PTL

(***************************************************************************)
(* The pass leaves every phi node with one entry for each predecessor, its *)
(* own nodes at the exits included (landing-pad.cpp:120-184).              *)
(***************************************************************************)
THEOREM PhisKept ==
  ASSUME \A f \in Sources : WhileLoops(f) PROVE Spec => []PhisStayInStep
<1>1. RotationInv => PhisStayInStep
  BY DEF RotationInv, Sound, PhisStayInStep, Rotated
<1>2. QED
  BY <1>1, Rotation, PTL

(***************************************************************************)
(* The pass meets no null pointer, and walks no list it appends to, but in *)
(* a loop that was out of form when the function came: not because of what *)
(* it has done to another (landing-pad.cpp:47-56 takes a latch for         *)
(* granted).                                                               *)
(***************************************************************************)
OnlyOutOfForm ==
  step \in {"endless", "crashed"} => ~ InForm(source, source.loops[at])

THEOREM NoNullPointer ==
  ASSUME \A f \in Sources : WhileLoops(f) PROVE Spec => []OnlyOutOfForm
<1>1. RotationInv => OnlyOutOfForm
  BY DEF RotationInv, OnlyOutOfForm
<1>2. QED
  BY <1>1, Rotation, PTL
=============================================================================
