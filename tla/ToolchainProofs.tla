--------------------------- MODULE ToolchainProofs ---------------------------
(***************************************************************************)
(* Proofs about the toolchain, for every program and every set of files.   *)
(***************************************************************************)
EXTENDS Toolchain, SequenceTheorems, WellFoundedInduction, TLAPS

-----------------------------------------------------------------------------
LEMMA LeastOf == ASSUME NEW S, S \subseteq Nat, S # {} PROVE Least(S) \in S /\ \A j \in S : Least(S) <= j
<1>1. PICK m \in S : \A n \in S : ~ (<<n, m>> \in OpToRel(<, Nat))
  BY WFMin, NatLessThanWellFounded
<1>2. \A n \in S : ~ (n < m)
  BY <1>1 DEF OpToRel
<1>3. \A n \in S : m <= n
  BY <1>2
<1> QED
  BY <1>3 DEF Least

(* A sequence, of whatever.                                                *)
IsSeq(s) == \E S : s \in Seq(S)

LEMMA SeqFacts ==
  ASSUME NEW s, IsSeq(s)
  PROVE  Len(s) \in Nat /\ DOMAIN s = 1 .. Len(s)
<1>1. PICK S : s \in Seq(S)
  BY DEF IsSeq
<1> QED
  BY <1>1

LEMMA AppendSeq ==
  ASSUME NEW s, NEW x, IsSeq(s)
  PROVE  /\ IsSeq(Append(s, x)) /\ Len(Append(s, x)) = Len(s) + 1
         /\ \A j \in 1 .. Len(s) : Append(s, x)[j] = s[j]
         /\ Append(s, x)[Len(s) + 1] = x
<1>1. PICK S : s \in Seq(S)
  BY DEF IsSeq
<1> DEFINE T == S \cup {x}
<1>2. s \in Seq(T) /\ x \in T
  BY <1>1
<1>3. Append(s, x) \in Seq(T)
  BY <1>2
<1>4. IsSeq(Append(s, x))
  BY <1>3 DEF IsSeq
<1> HIDE DEF T
<1> QED
  BY <1>2, <1>4

LEMMA ConcatSeq ==
  ASSUME NEW s, NEW t, IsSeq(s), IsSeq(t)
  PROVE  /\ IsSeq(s \o t) /\ Len(s \o t) = Len(s) + Len(t)
         /\ \A j \in 1 .. Len(s) : (s \o t)[j] = s[j]
         /\ \A j \in 1 .. Len(t) : (s \o t)[Len(s) + j] = t[j]
<1>1. PICK S : s \in Seq(S)
  BY DEF IsSeq
<1>2. PICK T : t \in Seq(T)
  BY DEF IsSeq
<1> DEFINE U == S \cup T
<1>3. s \in Seq(U) /\ t \in Seq(U)
  BY <1>1, <1>2
<1>4. s \o t \in Seq(U)
  BY <1>3
<1>5. IsSeq(s \o t)
  BY <1>4 DEF IsSeq
<1> HIDE DEF U
<1> QED
  BY <1>3, <1>5, ConcatProperties

LEMMA SubSeqSeq ==
  ASSUME NEW s, NEW m \in Int, NEW n \in Int, IsSeq(s), 1 <= m, n <= Len(s)
  PROVE  /\ IsSeq(SubSeq(s, m, n)) /\ Len(SubSeq(s, m, n)) = IF m <= n THEN n - m + 1 ELSE 0
         /\ \A j \in 1 .. n - m + 1 : SubSeq(s, m, n)[j] = s[m + j - 1]
<1>1. PICK S : s \in Seq(S)
  BY DEF IsSeq
<1>2. SubSeq(s, m, n) = [j \in 1 .. n - m + 1 |-> s[m + j - 1]]
  BY <1>1
<1>3. SubSeq(s, m, n) \in Seq(S)
  BY <1>1, <1>2
<1>4. IsSeq(SubSeq(s, m, n))
  BY <1>3 DEF IsSeq
<1> DEFINE t == SubSeq(s, m, n)
<1>5. Len(s) \in Nat
  BY <1>1
<1>6. Len(t) = IF m <= n THEN n - m + 1 ELSE 0
  BY <1>1, <1>5
<1>7. \A j \in 1 .. n - m + 1 : t[j] = s[m + j - 1]
  BY <1>2
<1> QED
  BY <1>4, <1>6, <1>7

LEMMA ReplacedSeq ==
  ASSUME NEW s, NEW n, NEW x, IsSeq(s), n \in 1 .. Len(s)
  PROVE  /\ IsSeq([s EXCEPT ![n] = x]) /\ Len([s EXCEPT ![n] = x]) = Len(s)
         /\ [s EXCEPT ![n] = x][n] = x
         /\ \A j \in 1 .. Len(s) : j # n => [s EXCEPT ![n] = x][j] = s[j]
<1>1. PICK S : s \in Seq(S)
  BY DEF IsSeq
<1> DEFINE T == S \cup {x}
<1>2. s \in Seq(T) /\ x \in T
  BY <1>1
<1> HIDE DEF T
<1>3. [s EXCEPT ![n] = x] \in Seq(T) /\ Len([s EXCEPT ![n] = x]) = Len(s)
  BY <1>2, ExceptSeq
<1>4. IsSeq([s EXCEPT ![n] = x])
  BY <1>3 DEF IsSeq
<1>5. /\ [s EXCEPT ![n] = x][n] = x
      /\ \A j \in 1 .. Len(s) : j # n => [s EXCEPT ![n] = x][j] = s[j]
  BY <1>2, ExceptSeq
<1> QED
  BY <1>3, <1>4, <1>5
-----------------------------------------------------------------------------
(* The stack of nested parsers: each knows the files of those below it,    *)
(* and its own.                                                            *)
IsFrame(f) == f = [file |-> f.file, toks |-> f.toks, i |-> f.i, err |-> f.err,
                   modules |-> f.modules]
IsStack(fs) == IsSeq(fs) /\ \A j \in 1 .. Len(fs) : IsFrame(fs[j])
Knows(fs) ==
  \A j, l \in 1 .. Len(fs) : j <= l => Canonical(fs[j].file) \in fs[l].modules
AllCanonical == \A j \in 1 .. Len(program.flags.dirs) : program.flags.dirs[j][1] = "canonical"
Apart(fs) == \A j, l \in 1 .. Len(fs) : fs[j].file = fs[l].file => j = l

StackInv ==
  /\ IsStack(frames)
  /\ stage \in {"start", "read"} => frames = <<>>
  /\ stage \notin {"start", "read", "preprocess", "refused"} => Len(frames) <= 1
  /\ stage = "parse" => frames # <<>>
  /\ stage = "preprocess" => Knows(frames)
  /\ AllCanonical => Apart(frames)

(* Two stacks of the same files, at different places in them.              *)
SameStack(gs, fs) ==
  /\ IsStack(gs) /\ Len(gs) = Len(fs)
  /\ \A j \in 1 .. Len(fs) : gs[j].file = fs[j].file /\ gs[j].modules = fs[j].modules

LEMMA SameKnows ==
  ASSUME NEW fs, NEW gs, SameStack(gs, fs)
  PROVE  (Knows(fs) => Knows(gs)) /\ (Apart(fs) => Apart(gs))
BY DEF SameStack, Knows, Apart, Canonical

LEMMA StackLength ==
  ASSUME NEW fs, IsStack(fs)
  PROVE  /\ IsSeq(fs) /\ Len(fs) \in Nat
         /\ fs # <<>> => Len(fs) \in 1 .. Len(fs) /\ IsFrame(fs[Len(fs)])
<1>1. PICK S : fs \in Seq(S)
  BY DEF IsStack, IsSeq
<1>2. Len(fs) \in Nat /\ (fs # <<>> => Len(fs) \in 1 .. Len(fs))
  BY <1>1
<1> QED
  BY <1>2 DEF IsStack

(* The frames with one of them replaced.                                   *)
LEMMA FrameReplaced ==
  ASSUME NEW fs, IsStack(fs), NEW n, n \in 1 .. Len(fs), NEW g, IsFrame(g)
  PROVE  /\ IsStack([fs EXCEPT ![n] = g]) /\ Len([fs EXCEPT ![n] = g]) = Len(fs)
         /\ [fs EXCEPT ![n] = g][n] = g
         /\ \A j \in 1 .. Len(fs) : j # n => [fs EXCEPT ![n] = g][j] = fs[j]
<1> DEFINE gs == [fs EXCEPT ![n] = g]
<1>1. IsSeq(fs)
  BY DEF IsStack
<1>5. IsSeq(gs) /\ Len(gs) = Len(fs)
  BY <1>1, ReplacedSeq
<1>6. gs[n] = g
  BY <1>1, ReplacedSeq
<1>7. \A j \in 1 .. Len(fs) : j # n => gs[j] = fs[j]
  BY <1>1, ReplacedSeq
<1>2. IsSeq(gs) /\ Len(gs) = Len(fs) /\ gs[n] = g /\ \A j \in 1 .. Len(fs) : j # n => gs[j] = fs[j]
  BY <1>5, <1>6, <1>7
<1> HIDE DEF gs
<1>3. \A j \in 1 .. Len(gs) : IsFrame(gs[j])
  <2>1. TAKE j \in 1 .. Len(gs)
  <2>2. CASE j = n
    BY <2>2, <1>2
  <2>3. CASE j # n
    BY <2>3, <1>2 DEF IsStack
  <2> QED
    BY <2>2, <2>3
<1>4. IsStack(gs)
  BY <1>2, <1>3 DEF IsStack
<1> USE DEF gs
<1> QED
  BY <1>2, <1>4

LEMMA FrameMoved ==
  ASSUME NEW f, NEW toks, NEW i, IsFrame(f)
  PROVE  /\ IsFrame([f EXCEPT !.toks = toks, !.i = i])
         /\ [f EXCEPT !.toks = toks, !.i = i].file = f.file
         /\ [f EXCEPT !.toks = toks, !.i = i].modules = f.modules
<1> DEFINE h == [file |-> f.file, toks |-> toks, i |-> i, err |-> f.err, modules |-> f.modules]
<1>3. PICK a, b, c, d, e : f = [file |-> a, toks |-> b, i |-> c, err |-> d, modules |-> e]
  BY DEF IsFrame
<1>4. f.file = a /\ f.err = d /\ f.modules = e
  BY <1>3
<1>5. PICK g : g = [f EXCEPT !.toks = toks]
  OBVIOUS
<1>6. g = [file |-> a, toks |-> toks, i |-> c, err |-> d, modules |-> e]
  BY <1>3, <1>5
<1>7. [g EXCEPT !.i = i] = [file |-> a, toks |-> toks, i |-> i, err |-> d, modules |-> e]
  BY <1>6
<1>8. [f EXCEPT !.toks = toks, !.i = i] = [g EXCEPT !.i = i]
  BY <1>5
<1>1. [f EXCEPT !.toks = toks, !.i = i] = h
  BY <1>4, <1>7, <1>8
<1>2. IsFrame(h) /\ h.file = f.file /\ h.modules = f.modules
  BY DEF IsFrame
<1> QED
  BY <1>1, <1>2

LEMMA TopMoves ==
  ASSUME NEW toks, NEW i, IsStack(frames), frames # <<>>
  PROVE  SameStack(SetTop(toks, i), frames)
<1> DEFINE n == Len(frames)
           f == frames[n]
           g == [f EXCEPT !.toks = toks, !.i = i]
           gs == [frames EXCEPT ![n] = g]
<1>1. n \in 1 .. n /\ IsFrame(f)
  BY StackLength
<1>2. gs = SetTop(toks, i)
  BY DEF SetTop
<1> HIDE DEF n, f
<1>3. IsFrame(g) /\ g.file = f.file /\ g.modules = f.modules
  BY ZenonT(40), <1>1, FrameMoved
<1> HIDE DEF g
<1>5. /\ IsStack(gs) /\ Len(gs) = Len(frames) /\ gs[n] = g
      /\ \A j \in 1 .. Len(frames) : j # n => gs[j] = frames[j]
  BY <1>1, <1>3, FrameReplaced DEF n
<1> HIDE DEF gs
<1>6. \A j \in 1 .. Len(frames) : gs[j].file = frames[j].file /\ gs[j].modules = frames[j].modules
  BY <1>3, <1>5 DEF f
<1>7. SameStack(gs, frames)
  BY <1>5, <1>6 DEF SameStack
<1> QED
  BY <1>2, <1>7

LEMMA StackMoved ==
  ASSUME StackInv, SameStack(frames', frames), program' = program,
         \/ stage' = stage
         \/ stage' = "refused"
         \/ Len(frames) = 1 /\ stage' \notin {"start", "read", "preprocess"}
  PROVE  StackInv'
<1>1. IsStack(frames') /\ Len(frames') = Len(frames)
  BY DEF SameStack
<1>2. (Knows(frames) => Knows(frames')) /\ (Apart(frames) => Apart(frames'))
  BY SameKnows
<1>3. AllCanonical' <=> AllCanonical
  BY DEF AllCanonical
<1>4. frames = <<>> <=> Len(frames) = 0
  <2>1. PICK S : frames \in Seq(S)
    BY DEF StackInv, IsStack, IsSeq
  <2> QED
    BY <2>1
<1>5. frames' = <<>> <=> Len(frames') = 0
  <2>1. PICK S : frames' \in Seq(S)
    BY <1>1 DEF IsStack, IsSeq
  <2> QED
    BY <2>1
<1>6. (stage \in {"start", "read"} => frames = <<>>)'
  BY <1>1, <1>4, <1>5 DEF StackInv
<1>7. (stage \notin {"start", "read", "preprocess", "refused"} => Len(frames) <= 1)'
  BY <1>1 DEF StackInv
<1>8. (stage = "parse" => frames # <<>>)'
  BY <1>1, <1>4, <1>5 DEF StackInv
<1>9. (stage = "preprocess" => Knows(frames))'
  BY <1>2 DEF StackInv
<1>10. (AllCanonical => Apart(frames))'
  BY <1>2, <1>3 DEF StackInv
<1> QED
  BY <1>1, <1>6, <1>7, <1>8, <1>9, <1>10 DEF StackInv

(* What a frame is built with.                                             *)
LEMMA FrameShape ==
  ASSUME NEW from, NEW modules
  PROVE  /\ IsFrame(Frame(from, modules)) /\ Frame(from, modules).file = from
         /\ Frame(from, modules).modules = modules \cup {Canonical(from)}
BY DEF Frame, Framed, Known, IsFrame

(* The stacks with one frame or with none.                                 *)
LEMMA OneFrame ==
  ASSUME NEW f, IsFrame(f)
  PROVE  IsStack(<<f>>) /\ Len(<<f>>) = 1 /\ Apart(<<f>>)
<1>1. <<f>> \in Seq({f})
  OBVIOUS
<1>2. IsSeq(<<f>>)
  BY <1>1 DEF IsSeq
<1> QED
  BY <1>2 DEF IsStack, Apart

LEMMA NoFrame == IsStack(<<>>) /\ Len(<<>>) = 0 /\ Apart(<<>>) /\ Knows(<<>>)
<1>1. <<>> \in Seq({})
  OBVIOUS
<1>2. IsSeq(<<>>)
  BY <1>1 DEF IsSeq
<1> QED
  BY <1>2 DEF IsStack, Apart, Knows

LEMMA StackInit == Init => StackInv
BY NoFrame DEF Init, StackInv

LEMMA StackReadFlags == StackInv /\ ReadFlags => StackInv'
<1> SUFFICES ASSUME StackInv, ReadFlags PROVE StackInv'
  OBVIOUS
<1>1. frames = <<>> /\ frames' = <<>> /\ stage' \in {"read", "refused"}
  BY DEF StackInv, ReadFlags
<1> QED
  BY <1>1, NoFrame DEF StackInv

LEMMA StackReadSource == StackInv /\ ReadSource => StackInv'
<1> SUFFICES ASSUME StackInv, ReadSource PROVE StackInv'
  OBVIOUS
<1> DEFINE m == Frame(PathTo[program.flags.input], {})
<1>1. frames' = <<m>> /\ stage' \in {"preprocess", "refused"}
  BY DEF ReadSource, Opened
<1>2. IsFrame(m) /\ m.modules = {} \cup {Canonical(m.file)}
  BY FrameShape
<1> HIDE DEF m
<1>3. IsStack(frames') /\ Len(frames') = 1 /\ Apart(frames')
  BY <1>1, <1>2, OneFrame
<1>4. Knows(frames')
  BY <1>1, <1>2 DEF Knows
<1> QED
  BY <1>1, <1>3, <1>4 DEF StackInv

LEMMA StackParse == StackInv /\ Parse => StackInv'
<1> SUFFICES ASSUME StackInv, Parse PROVE StackInv'
  OBVIOUS
<1>1. stage = "parse" /\ program' = program /\ stage' \in {"parse", "refused", "analyze"}
  BY DEF Parse
<1>2. IsStack(frames) /\ frames # <<>> /\ Len(frames) = 1
  <2>1. IsStack(frames) /\ frames # <<>> /\ Len(frames) <= 1
    BY <1>1 DEF StackInv
  <2>2. Len(frames) \in 1 .. Len(frames) /\ Len(frames) \in Nat
    BY <2>1, StackLength
  <2> QED
    BY <2>1, <2>2
<1>3. frames' = frames \/ \E toks, i : frames' = SetTop(toks, i)
  BY DEF Parse, Keep
<1>4. SameStack(frames, frames)
  BY <1>2 DEF SameStack
<1>5. SameStack(frames', frames)
  BY <1>2, <1>3, <1>4, TopMoves
<1> QED
  BY <1>1, <1>2, <1>5, StackMoved

LEMMA StackLater == StackInv /\ (AnalyzeNext \/ Analyzed2 \/ EmitNext \/ Write \/ Ended \/ UNCHANGED vars)
                      => StackInv'
<1> SUFFICES ASSUME StackInv, AnalyzeNext \/ Analyzed2 \/ EmitNext \/ Write \/ Ended \/ UNCHANGED vars
             PROVE  StackInv'
  OBVIOUS
<1>1. UNCHANGED <<program, frames>>
  <2>1. CASE AnalyzeNext
    BY <2>1 DEF AnalyzeNext
  <2>2. CASE Analyzed2
    BY <2>2 DEF Analyzed2
  <2>3. CASE EmitNext
    BY ZenonT(30), <2>3 DEF EmitNext
  <2>4. CASE Write
    BY <2>4 DEF Write
  <2>5. CASE Ended
    BY <2>5 DEF Ended, vars, pVars, tVars
  <2>6. CASE UNCHANGED vars
    BY <2>6 DEF vars, pVars, tVars
  <2> QED
    BY <2>1, <2>2, <2>3, <2>4, <2>5, <2>6
<1>2. \/ stage' = stage \/ stage' = "refused"
      \/ /\ stage \notin {"start", "read", "preprocess", "refused"}
         /\ stage' \notin {"start", "read", "preprocess", "parse"}
  <2>1. CASE AnalyzeNext
    BY <2>1 DEF AnalyzeNext
  <2>2. CASE Analyzed2
    BY <2>2 DEF Analyzed2
  <2>3. CASE EmitNext
    BY SMTT(30), <2>3 DEF EmitNext
  <2>4. CASE Write
    BY <2>4 DEF Write
  <2>5. CASE Ended
    BY <2>5 DEF Ended, vars, pVars, tVars
  <2>6. CASE UNCHANGED vars
    BY <2>6 DEF vars, pVars, tVars
  <2> QED
    BY <2>1, <2>2, <2>3, <2>4, <2>5, <2>6
<1>3. AllCanonical' <=> AllCanonical
  BY <1>1 DEF AllCanonical
<1> QED
  BY <1>1, <1>2, <1>3 DEF StackInv

LEMMA StackDisassemble == StackInv /\ Disassemble => StackInv'
<1> SUFFICES ASSUME StackInv, Disassemble PROVE StackInv'
  OBVIOUS
<1>1. stage = "written" /\ UNCHANGED program
  BY DEF Disassemble
<1>2. CASE stage' = "unreadable" /\ UNCHANGED frames
  <2>1. AllCanonical' <=> AllCanonical
    BY <1>1 DEF AllCanonical
  <2> QED
    BY <1>1, <1>2, <2>1 DEF StackInv
<1>3. CASE stage' = "parse" /\ \E f : IsFrame(f) /\ frames' = <<f>>
  <2>1. PICK f : IsFrame(f) /\ frames' = <<f>>
    BY <1>3
  <2>2. IsStack(frames') /\ Len(frames') = 1 /\ Apart(frames')
    BY <2>1, OneFrame
  <2> QED
    BY <1>3, <2>1, <2>2 DEF StackInv
<1>4. \/ stage' = "unreadable" /\ UNCHANGED frames
      \/ stage' = "parse" /\ \E f : IsFrame(f) /\ frames' = <<f>>
  BY DEF Disassemble, IsFrame
<1> QED
  BY <1>2, <1>3, <1>4

(* The preprocessor's steps that stay in one file.                         *)
LEMMA StackSameFile == StackInv /\ (Substitute \/ Define) => StackInv'
<1> SUFFICES ASSUME StackInv, Substitute \/ Define PROVE StackInv'
  OBVIOUS
<1>1. IsStack(frames) /\ frames # <<>> /\ UNCHANGED <<program, stage>>
  BY DEF StackInv, Substitute, Define, Reading
<1>2. \E toks, i : frames' = SetTop(toks, i)
  BY DEF Substitute, Define
<1>3. SameStack(frames', frames)
  BY <1>1, <1>2, TopMoves
<1> QED
  BY <1>1, <1>3, StackMoved

LEMMA StackConditional == StackInv /\ Conditional => StackInv'
<1> SUFFICES ASSUME StackInv, Conditional PROVE StackInv'
  OBVIOUS
<1>1. IsStack(frames) /\ frames # <<>> /\ program' = program
  BY DEF StackInv, Conditional, Reading
<1>2. \/ stage' = "refused" /\ frames' = <<>>
      \/ stage' = stage /\ \E toks, i : frames' = SetTop(toks, i)
  BY DEF Conditional, Selected
<1>3. CASE stage' = "refused" /\ frames' = <<>>
  BY <1>3, NoFrame DEF StackInv
<1>4. CASE stage' = stage /\ \E toks, i : frames' = SetTop(toks, i)
  <2>1. SameStack(frames', frames)
    BY <1>1, <1>4, TopMoves
  <2> QED
    BY <1>1, <1>4, <2>1, StackMoved
<1> QED
  BY <1>2, <1>3, <1>4

LEMMA StackPreprocessed == StackInv /\ Preprocessed => StackInv'
<1> SUFFICES ASSUME StackInv, Preprocessed PROVE StackInv'
  OBVIOUS
<1>1. IsStack(frames) /\ frames # <<>> /\ program' = program
  BY DEF StackInv, Preprocessed, Reading
<1>2. Len(frames) = 1 /\ stage' \in {"refused", "parse"} /\ \E toks, i : frames' = SetTop(toks, i)
  BY DEF Preprocessed
<1>3. SameStack(frames', frames)
  BY <1>1, <1>2, TopMoves
<1> QED
  BY <1>1, <1>2, <1>3, StackMoved

(* The end of an imported file: the frames below it, the topmost of them   *)
(* elsewhere in its file.                                                  *)
LEMMA StackReturn == StackInv /\ Return => StackInv'
<1> SUFFICES ASSUME StackInv, Return PROVE StackInv'
  OBVIOUS
<1> DEFINE n == Len(frames)
           below == SubSeq(frames, 1, n - 1)
           parent == frames[n - 1]
<1>1. IsStack(frames) /\ stage = "preprocess" /\ UNCHANGED <<program, stage>> /\ n > 1
  BY DEF StackInv, Return, Reading
<1>2. n \in Nat /\ IsSeq(frames)
  BY <1>1, StackLength
<1>3. /\ IsSeq(below) /\ Len(below) = n - 1
      /\ \A j \in 1 .. n - 1 : below[j] = frames[j]
  BY <1>1, <1>2, SubSeqSeq
<1>4. IsStack(below) /\ below[n - 1] = parent /\ n - 1 \in 1 .. Len(below) /\ IsFrame(parent)
  <2>1. \A j \in 1 .. n - 1 : IsFrame(frames[j])
    BY <1>1, <1>2 DEF IsStack
  <2> QED
    BY <1>1, <1>2, <1>3, <2>1 DEF IsStack
<1>5. PICK toks, i : frames' = [below EXCEPT ![n - 1] = [parent EXCEPT !.toks = toks, !.i = i]]
  BY DEF Return
<1> DEFINE g == [parent EXCEPT !.toks = toks, !.i = i]
<1>6. IsFrame(g) /\ g.file = parent.file /\ g.modules = parent.modules
  <2>1. IsFrame(parent)
    BY <1>4
  <2> HIDE DEF parent
  <2>2. \A f, u, v : IsFrame(f) => /\ IsFrame([f EXCEPT !.toks = u, !.i = v])
                                   /\ [f EXCEPT !.toks = u, !.i = v].file = f.file
                                   /\ [f EXCEPT !.toks = u, !.i = v].modules = f.modules
    BY FrameMoved
  <2> QED
    BY ZenonT(40), <2>1, <2>2
<1> HIDE DEF g, below, parent, n
<1>7. /\ IsStack(frames') /\ Len(frames') = Len(below) /\ frames'[n - 1] = g
      /\ \A j \in 1 .. Len(below) : j # n - 1 => frames'[j] = below[j]
  <2>1. frames' = [below EXCEPT ![n - 1] = g]
    BY <1>5 DEF g
  <2> DEFINE hs == [below EXCEPT ![n - 1] = g]
  <2>2. IsStack(below) /\ n - 1 \in 1 .. Len(below) /\ IsFrame(g)
    BY <1>4, <1>6
  <2>3. /\ IsStack(hs) /\ Len(hs) = Len(below) /\ hs[n - 1] = g
        /\ \A j \in 1 .. Len(below) : j # n - 1 => hs[j] = below[j]
    BY <2>2, FrameReplaced
  <2> QED
    BY <2>1, <2>3
<1>8. Len(frames') = n - 1 /\ \A j \in 1 .. n - 1 : /\ frames'[j].file = frames[j].file
                                                    /\ frames'[j].modules = frames[j].modules
  BY <1>3, <1>4, <1>6, <1>7 DEF parent
<1>9. Knows(frames) /\ (AllCanonical => Apart(frames))
  BY <1>1 DEF StackInv
<1>10. Knows(frames') /\ (AllCanonical' => Apart(frames'))
  <2>1. \A j \in 1 .. n - 1 : j \in 1 .. Len(frames)
    BY <1>2 DEF n
  <2>2. Knows(frames')
    BY <1>8, <1>9, <2>1 DEF Knows, Canonical
  <2>3. Apart(frames) => Apart(frames')
    BY <1>8, <2>1 DEF Apart
  <2>4. AllCanonical' <=> AllCanonical
    BY <1>1 DEF AllCanonical
  <2> QED
    BY <1>9, <2>2, <2>3, <2>4
<1> QED
  BY <1>1, <1>7, <1>10 DEF StackInv

(* A file is known by one path when every directory is.                    *)
LEMMA LocatedIsCanonical ==
  ASSUME AllCanonical, NEW from, NEW name, Located(from, name) # <<>>
  PROVE  Located(from, name)[1] = Canonical(Located(from, name)[1][2])
<1> DEFINE beside == <<from[1], name>>
           holders == {j \in 1 .. Len(program.flags.dirs) :
                         <<program.flags.dirs[j][2], name>> \in DOMAIN program.files}
           dir == program.flags.dirs[Least(holders)]
<1>1. CASE beside \in DOMAIN program.files
  BY <1>1 DEF Located, Canonical
<1>2. CASE beside \notin DOMAIN program.files /\ holders # {}
  <2>1. holders \subseteq Nat
    OBVIOUS
  <2>2. Least(holders) \in holders
    <3> HIDE DEF holders
    <3> QED
      BY <1>2, <2>1, LeastOf
  <2>3. dir[1] = "canonical"
    BY <2>2 DEF AllCanonical
  <2>4. Located(from, name) = <<<<dir[1], <<dir[2], name>>>>>>
    BY <1>2 DEF Located
  <2> HIDE DEF dir
  <2> QED
    BY <2>3, <2>4 DEF Canonical
<1>3. CASE beside \notin DOMAIN program.files /\ holders = {}
  BY <1>3 DEF Located
<1> QED
  BY <1>1, <1>2, <1>3

LEMMA FrameTold ==
  ASSUME NEW f, NEW m, IsFrame(f)
  PROVE  /\ IsFrame([f EXCEPT !.modules = m])
         /\ [f EXCEPT !.modules = m].file = f.file
         /\ [f EXCEPT !.modules = m].modules = m
<1>1. [f EXCEPT !.modules = m] = [file |-> f.file, toks |-> f.toks, i |-> f.i, err |-> f.err, modules |-> m]
  BY DEF IsFrame
<1> QED
  BY <1>1 DEF IsFrame

(* A stack with a file more, which nobody below has.                       *)
LEMMA StackGrows ==
  ASSUME NEW fs, IsStack(fs), fs # <<>>, NEW m, NEW child, IsFrame(child),
         fs[Len(fs)].modules \subseteq m,
         child.modules = m \cup {Canonical(child.file)},
         Knows(fs)
  PROVE  /\ IsStack(Append(Knowing(fs, m), child))
         /\ Knows(Append(Knowing(fs, m), child))
         /\ Apart(fs) /\ Canonical(child.file) \notin fs[Len(fs)].modules
              => Apart(Append(Knowing(fs, m), child))
<1> DEFINE n == Len(fs)
           f == fs[n]
           g == [f EXCEPT !.modules = m]
           hs == [fs EXCEPT ![n] = g]
           ks == Append(hs, child)
<1>1. n \in 1 .. n /\ n \in Nat /\ IsFrame(f)
  BY StackLength
<1>2. IsFrame(g) /\ g.file = f.file /\ g.modules = m
  <2> HIDE DEF f
  <2> QED
    BY <1>1, FrameTold
<1>3. hs = Knowing(fs, m)
  BY DEF Knowing
<1> HIDE DEF g
<1>4. IsStack(hs) /\ Len(hs) = n /\ hs[n] = g /\ \A j \in 1 .. n : j # n => hs[j] = fs[j]
  BY <1>1, <1>2, FrameReplaced
<1> HIDE DEF hs
<1>5. /\ IsSeq(ks) /\ Len(ks) = n + 1 /\ ks[n + 1] = child
      /\ \A j \in 1 .. n : ks[j] = hs[j]
  <2>1. IsSeq(hs)
    BY <1>4 DEF IsStack
  <2> QED
    BY <1>4, <2>1, AppendSeq
<1> HIDE DEF ks
<1>6. IsStack(ks)
  <2>1. \A j \in 1 .. n + 1 : j \in 1 .. n \/ j = n + 1
    BY <1>1
  <2>2. \A j \in 1 .. n : IsFrame(hs[j])
    BY <1>4 DEF IsStack
  <2>3. \A j \in 1 .. n + 1 : IsFrame(ks[j])
    BY <1>5, <2>1, <2>2
  <2> QED
    BY <1>5, <2>3 DEF IsStack
<1>7. \A j \in 1 .. n : ks[j].file = fs[j].file
  BY <1>2, <1>4, <1>5
<1>8. \A j \in 1 .. n : fs[j].modules \subseteq ks[j].modules
  BY <1>2, <1>4, <1>5
<1>9. \A j \in 1 .. n : Canonical(fs[j].file) \in f.modules
  BY <1>1 DEF Knows
<1>10. Knows(ks)
  <2>1. SUFFICES ASSUME NEW j \in 1 .. n + 1, NEW l \in 1 .. n + 1, j <= l
                 PROVE  Canonical(ks[j].file) \in ks[l].modules
    BY <1>5 DEF Knows
  <2>2. CASE l \in 1 .. n
    <3>1. j \in 1 .. n
      BY <1>1, <2>1, <2>2
    <3>2. Canonical(fs[j].file) \in fs[l].modules
      BY <2>1, <2>2, <3>1 DEF Knows
    <3> QED
      BY <1>7, <1>8, <2>2, <3>1, <3>2
  <2>3. CASE l = n + 1 /\ j \in 1 .. n
    BY <1>5, <1>7, <1>9, <2>3
  <2>4. CASE l = n + 1 /\ j = n + 1
    BY <1>5, <2>4
  <2> QED
    BY <1>1, <2>2, <2>3, <2>4
<1>11. ASSUME Apart(fs), Canonical(child.file) \notin fs[Len(fs)].modules
       PROVE  Apart(ks)
  <2>1. SUFFICES ASSUME NEW j \in 1 .. n + 1, NEW l \in 1 .. n + 1, ks[j].file = ks[l].file
                 PROVE  j = l
    BY <1>5 DEF Apart
  <2>2. \A h \in 1 .. n : ks[h].file # child.file
    BY <1>7, <1>9, <1>11
  <2>3. CASE j \in 1 .. n /\ l \in 1 .. n
    BY <1>7, <1>11, <2>1, <2>3 DEF Apart
  <2>4. CASE j = n + 1 \/ l = n + 1
    BY <1>1, <1>5, <2>1, <2>2, <2>4
  <2> QED
    BY <1>1, <2>3, <2>4
<1>12. ks = Append(Knowing(fs, m), child)
  BY <1>3 DEF ks
<1> QED
  BY <1>6, <1>10, <1>11, <1>12

LEMMA StackImport == StackInv /\ Import => StackInv'
<1> SUFFICES ASSUME StackInv, Import PROVE StackInv'
  OBVIOUS
<1>1. /\ IsStack(frames) /\ frames # <<>> /\ UNCHANGED <<program, stage>>
      /\ stage = "preprocess" /\ Knows(frames) /\ (AllCanonical => Apart(frames))
  BY DEF StackInv, Import, Reading
<1>2. CASE \E toks, i : frames' = SetTop(toks, i)
  <2>1. SameStack(frames', frames)
    BY <1>1, <1>2, TopMoves
  <2> QED
    BY <1>1, <2>1, StackMoved
<1> DEFINE found == Located(top.file, NameOf(Cur(Without(top.toks, At, 1), At)))
           m == top.modules \cup {found[1]}
           child == Frame(found[1][2], m)
<1>3. CASE /\ found # <<>> /\ found[1] \notin top.modules
           /\ Nest(Without(top.toks, At, 1), m, child)
  <2>1. found # <<>> /\ found[1] \notin top.modules
    BY <1>3
  <2>2. PICK gs : gs = SetTop(Without(top.toks, At, 1), At)
    OBVIOUS
  <2>3. frames' = Append(Knowing(gs, m), child)
    BY <1>3, <2>2 DEF Nest
  <2>4. SameStack(gs, frames)
    BY <1>1, <2>2, TopMoves
  <2>5. Knows(gs) /\ (AllCanonical => Apart(gs))
    BY <1>1, <2>4, SameKnows
  <2>6. IsStack(gs) /\ gs # <<>> /\ gs[Len(gs)].modules = top.modules
    <3>1. Len(frames) \in 1 .. Len(frames)
      BY <1>1, StackLength
    <3>2. IsStack(gs) /\ Len(gs) = Len(frames)
      BY <2>4 DEF SameStack
    <3>3. gs[Len(gs)].modules = top.modules
      BY <2>4, <3>1 DEF SameStack, top
    <3>4. gs # <<>>
      BY <3>1, <3>2
    <3> QED
      BY <3>2, <3>3, <3>4
  <2>7. AllCanonical => found[1] = Canonical(found[1][2])
    BY <2>1, LocatedIsCanonical
  <2>8. IsFrame(child) /\ child.file = found[1][2] /\ child.modules = m \cup {Canonical(child.file)}
    <3> HIDE DEF found, m
    <3> QED
      BY FrameShape
  <2>9. top.modules \subseteq m
    OBVIOUS
  <2> HIDE DEF found, m, child
  <2>10. /\ IsStack(frames') /\ Knows(frames')
         /\ Apart(gs) /\ Canonical(child.file) \notin gs[Len(gs)].modules => Apart(frames')
    BY <2>3, <2>5, <2>6, <2>8, <2>9, StackGrows
  <2>11. AllCanonical => Apart(frames')
    BY <2>1, <2>5, <2>6, <2>7, <2>8, <2>10
  <2>12. AllCanonical' <=> AllCanonical
    BY <1>1 DEF AllCanonical
  <2> QED
    BY <1>1, <2>10, <2>11, <2>12 DEF StackInv
<1>4. \/ \E toks, i : frames' = SetTop(toks, i)
      \/ /\ found # <<>> /\ found[1] \notin top.modules
         /\ Nest(Without(top.toks, At, 1), m, child)
  BY DEF Import
<1> QED
  BY <1>2, <1>3, <1>4

LEMMA StackNext == StackInv /\ [Next]_vars => StackInv'
BY StackReadFlags, StackReadSource, StackSameFile, StackConditional, StackImport, StackReturn,
   StackPreprocessed, StackParse, StackLater, StackDisassemble DEF Next, Rewrite, Preprocess

LEMMA StackAlways == Spec => []StackInv
<1>1. StackInv /\ [Next]_vars => StackInv'
  BY StackNext
<1> QED
  BY <1>1, StackInit, PTL DEF Spec

(* A file which is being read is not imported again, whatever the files    *)
(* import: the chain of the nested parsers holds no file twice.            *)
THEOREM ImportsNeverCircular == Spec => []ImportChainAcyclic
<1>1. StackInv => ImportChainAcyclic
  <2> SUFFICES ASSUME StackInv, AllCanonical
               PROVE  IsInjective([j \in 1 .. Len(frames) |-> frames[j].file])
    BY DEF ImportChainAcyclic, AllCanonical
  <2>1. Apart(frames)
    BY DEF StackInv
  <2> QED
    BY <2>1 DEF Apart, IsInjective
<1> QED
  BY <1>1, StackAlways, PTL
-----------------------------------------------------------------------------
(* The sizes the first pass gives the operands of each addressing mode.    *)
EnvFields   == {"labels", "structures", "variables", "items", "here", "bp", "label"}
ItemFields  == {"name", "mode", "op1", "op2", "sign", "index", "size", "label"}
LabelFields == {"address", "local", "file", "size", "at"}

NoOperand == {"IMPLIED_MODE", "REGISTER_ACCESS_MODE", "REGISTER_TO_REGISTER_MODE",
              "MEMORY_RELATIVE_TO_PC_WITH_REGISTER", "MEMORY_RELATIVE_TO_BP_WITH_REGISTER"}
ByteOperand == {"IMMEDIATE_BYTE", "MEMORY_RELATIVE_TO_PC", "REGISTER_TO_MEMORY_RELATIVE_TO_PC",
                "MEMORY_RELATIVE_TO_BP", "MEMORY_RELATIVE_TO_BP_TO_REGISTER",
                "REGISTER_TO_MEMORY_RELATIVE_TO_BP", "MEMORY_RELATIVE_TO_PC_TO_REGISTER"}
WordOperand == {"IMMEDIATE_WORD", "MEMORY_ABSOULTE", "MEMORY_ABSOULTE_INDEXED",
                "MEMORY_INDIRECT", "MEMORY_INDIRECT_INDEXED", "REGISTER_TO_MEMORY_ABSOULTE",
                "MEMORY_ABSOULTE_TO_REGISTER"}
TakesUp(mode, size, low) ==
  \/ mode \in NoOperand /\ size = 0
  \/ mode \in ByteOperand /\ size = 1
  \/ mode \in WordOperand /\ size = 2
  \/ /\ mode \in {"IMMEDIATE_TO_MEMORY_ABSOLUTE", "IMMEDIATE_TO_MEMORY_ABSOLUTE_INDEXED"}
     /\ size \in {3, 4}
  \/ mode = "IMMEDIATE_TO_MEMORY_RELATIVE_TO_BP" /\ size \in {2, 3}
  \/ mode = "IMMEDIATE_TO_MEMORY_RELATIVE_TO_BP_WITH_REGISTER" /\ size \in {1, 2}
  \/ mode = "IMMEDIATE_TO_REGISTER" /\ size = IF low THEN 1 ELSE 2
ReadFits(item) ==
  DOMAIN item = ItemFields /\ TakesUp(item.mode, item.size, Low8(item.op1.tok.text))

LEMMA ExpressionSizes ==
  ASSUME NEW tree, NEW here
  PROVE  ExpressionSize(tree, here).v \in {1, 2}
<1>1. \A n : SizeOf(n).v \in {1, 2} /\ DOMAIN SizeOf(n) = {"v", "err"}
  BY DEF SizeOf, Value
<1> DEFINE bare == Stripped[tree]
           k1 == bare.kids
           Guess(e) == IF IsEvaluable[e] THEN Evaluate(e, here, NoScope) ELSE Value(255, FALSE)
           v1 == Guess(k1[1])
           v2 == Guess(k1[3])
           both == Apply(k1[2].tok.text, v1.v, v2.v)
           longer == [SizeOf(both.v) EXCEPT !.err = @ \/ v1.err \/ v2.err]
<1>2. longer.v \in {1, 2}
  <2> HIDE DEF both, v1, v2
  <2> QED
    BY <1>1
<1>4. ExpressionSize(tree, here)
        = CASE Len(k1) = 0 -> IF bare.tok.type # "NUMBER_LITERAL" THEN Value(2, FALSE)
                             ELSE IF bare.tok.n < 0 THEN Value(2, TRUE)
                             ELSE SizeOf(bare.tok.n)
            [] Len(k1) = 2 -> Value(IF k1[1].tok.text = "byte" THEN 1 ELSE 2, FALSE)
            [] OTHER -> IF both.err THEN Value(2, TRUE) ELSE longer
  BY DEF ExpressionSize
<1> HIDE DEF longer, both, k1, bare
<1>5. CASE Len(k1) = 0
  <2>1. ExpressionSize(tree, here)
          = IF bare.tok.type # "NUMBER_LITERAL" THEN Value(2, FALSE)
            ELSE IF bare.tok.n < 0 THEN Value(2, TRUE) ELSE SizeOf(bare.tok.n)
    BY <1>4, <1>5
  <2> QED
    BY <1>1, <2>1 DEF Value
<1>6. CASE Len(k1) = 2
  <2>1. ExpressionSize(tree, here) = Value(IF k1[1].tok.text = "byte" THEN 1 ELSE 2, FALSE)
    BY <1>4, <1>6
  <2> QED
    BY <2>1 DEF Value
<1>7. CASE Len(k1) # 0 /\ Len(k1) # 2
  <2>1. ExpressionSize(tree, here) = IF both.err THEN Value(2, TRUE) ELSE longer
    BY <1>4, <1>7
  <2> QED
    BY <1>2, <2>1 DEF Value
<1> QED
  BY <1>5, <1>6, <1>7

LEMMA ItemRead ==
  ASSUME NEW mode, NEW op1, NEW op2, NEW sign, NEW index, NEW size, NEW err,
         TakesUp(mode, size, Low8(op1.tok.text))
  PROVE  ReadFits(Read(Item(mode, op1, op2, sign, index, size), err).item)
BY DEF ReadFits, Read, Item, ItemFields

LEMMA ImmediateFits == ASSUME NEW e, NEW here PROVE ReadFits(GetImmediate(e, here).item)
<1>1. PICK s : s = ExpressionSize(e, here)
  OBVIOUS
<1>2. s.v \in {1, 2}
  BY <1>1, ExpressionSizes
<1>3. TakesUp(IF s.v = 2 THEN "IMMEDIATE_WORD" ELSE "IMMEDIATE_BYTE", s.v, Low8(e.tok.text))
  BY <1>2 DEF TakesUp, WordOperand, ByteOperand
<1> QED
  BY <1>1, <1>3, ItemRead DEF GetImmediate

LEMMA RelativeFits == ASSUME NEW k1 PROVE ReadFits(GetRelative(k1).item)
<1>1. /\ \A low : TakesUp("MEMORY_RELATIVE_TO_PC_WITH_REGISTER", 0, low)
      /\ \A low : TakesUp("REGISTER_TO_MEMORY_RELATIVE_TO_PC", 1, low)
      /\ \A low : TakesUp("MEMORY_RELATIVE_TO_PC", 1, low)
  BY DEF TakesUp, NoOperand, ByteOperand
<1> QED
  BY <1>1, ItemRead DEF GetRelative

LEMMA IndirectFits == ASSUME NEW k1 PROVE ReadFits(GetIndirect(k1).item)
<1>1. /\ \A low : TakesUp("MEMORY_INDIRECT", 2, low)
      /\ \A low : TakesUp("MEMORY_INDIRECT_INDEXED", 2, low)
  BY DEF TakesUp, WordOperand
<1> QED
  BY <1>1, ItemRead DEF GetIndirect

LEMMA AbsoluteFits == ASSUME NEW k1, NEW here PROVE ReadFits(GetAbsolute(k1, here).item)
<1>1. /\ \A low : TakesUp("MEMORY_ABSOULTE", 2, low)
      /\ \A low : TakesUp("MEMORY_ABSOULTE_INDEXED", 2, low)
      /\ \A low : TakesUp("REGISTER_TO_MEMORY_ABSOULTE", 2, low)
      /\ \A low : TakesUp("IMPLIED_MODE", 0, low)
  BY DEF TakesUp, WordOperand, NoOperand
<1>2. \A t, low : /\ TakesUp("IMMEDIATE_TO_MEMORY_ABSOLUTE", 2 + ExpressionSize(t, here).v, low)
                  /\ TakesUp("IMMEDIATE_TO_MEMORY_ABSOLUTE_INDEXED", 2 + ExpressionSize(t, here).v, low)
  <2> TAKE t, low
  <2>1. ExpressionSize(t, here).v \in {1, 2}
    BY ExpressionSizes
  <2>2. 2 + ExpressionSize(t, here).v \in {3, 4}
    BY <2>1
  <2> QED
    BY <2>2 DEF TakesUp
<1>3. ReadFits(OutOfRange.item)
  <2>1. OutOfRange.item = Read(Item("IMPLIED_MODE", None, None, "+", None, 0), TRUE).item
    BY DEF OutOfRange, Read
  <2> QED
    BY <1>1, <2>1, ItemRead
<1> QED
  BY ZenonT(40), <1>1, <1>2, <1>3, ItemRead DEF GetAbsolute

LEMMA MemoryToRegFits == ASSUME NEW k1, NEW e PROVE ReadFits(GetMemoryToReg(k1, e).item)
<1>1. /\ \A low : TakesUp("MEMORY_RELATIVE_TO_BP_TO_REGISTER", 1, low)
      /\ \A low : TakesUp("MEMORY_ABSOULTE_TO_REGISTER", 2, low)
      /\ \A low : TakesUp("MEMORY_RELATIVE_TO_PC_TO_REGISTER", 1, low)
      /\ \A low : TakesUp("REGISTER_ACCESS_MODE", 0, low)
  BY DEF TakesUp, WordOperand, NoOperand, ByteOperand
<1>2. \A low : TakesUp("IMMEDIATE_TO_REGISTER", IF low THEN 1 ELSE 2, low)
  BY DEF TakesUp
<1> QED
  BY <1>1, <1>2, ItemRead DEF GetMemoryToReg

LEMMA BpRelativeFits == ASSUME NEW k1, NEW here PROVE ReadFits(GetBpRelative(k1, here).item)
<1>1. /\ \A low : TakesUp("MEMORY_RELATIVE_TO_BP_WITH_REGISTER", 0, low)
      /\ \A low : TakesUp("MEMORY_RELATIVE_TO_BP", 1, low)
      /\ \A low : TakesUp("REGISTER_TO_MEMORY_RELATIVE_TO_BP", 1, low)
  BY DEF TakesUp, NoOperand, ByteOperand
<1>2. \A t, low :
        /\ TakesUp("IMMEDIATE_TO_MEMORY_RELATIVE_TO_BP", 1 + ExpressionSize(t, here).v, low)
        /\ TakesUp("IMMEDIATE_TO_MEMORY_RELATIVE_TO_BP_WITH_REGISTER", ExpressionSize(t, here).v, low)
  <2> TAKE t, low
  <2>1. ExpressionSize(t, here).v \in {1, 2}
    BY ExpressionSizes
  <2>2. 1 + ExpressionSize(t, here).v \in {2, 3}
    BY <2>1
  <2> QED
    BY <2>1, <2>2 DEF TakesUp
<1> QED
  BY <1>1, <1>2, ItemRead DEF GetBpRelative

LEMMA ArrayAccessFits == ASSUME NEW k1, NEW e PROVE ReadFits(GetArrayAccess(k1, e).item)
<1>1. \A low : TakesUp("REGISTER_TO_MEMORY_RELATIVE_TO_BP", 1, low)
  BY DEF TakesUp, ByteOperand
<1>2. \A t, low : TakesUp("IMMEDIATE_TO_MEMORY_RELATIVE_TO_BP", 1 + ExpressionSize(t, e.here).v, low)
  <2> TAKE t, low
  <2>1. ExpressionSize(t, e.here).v \in {1, 2}
    BY ExpressionSizes
  <2>2. 1 + ExpressionSize(t, e.here).v \in {2, 3}
    BY <2>1
  <2> QED
    BY <2>2 DEF TakesUp
<1> QED
  BY <1>1, <1>2, ItemRead DEF GetArrayAccess

LEMMA InstructionFits == ASSUME NEW tree, NEW e PROVE ReadFits(GetInstruction(tree, e).item)
<1>1. /\ \A low : TakesUp("REGISTER_ACCESS_MODE", 0, low)
      /\ \A low : TakesUp("REGISTER_TO_REGISTER_MODE", 0, low)
      /\ \A low : TakesUp("IMPLIED_MODE", 0, low)
      /\ \A low : TakesUp("REGISTER_TO_MEMORY_RELATIVE_TO_BP", 1, low)
  BY DEF TakesUp, NoOperand, ByteOperand
<1> QED
  BY <1>1, ItemRead, ImmediateFits, RelativeFits, IndirectFits, AbsoluteFits, MemoryToRegFits,
     BpRelativeFits, ArrayAccessFits DEF GetInstruction
-----------------------------------------------------------------------------
(* What the second pass makes of an item is as long as the first expects.  *)
LEMMA Pieces ==
  /\ \A n : IsSeq(<<LowByte(n)>>) /\ Len(<<LowByte(n)>>) = 1
  /\ \A n : IsSeq(Word(n)) /\ Len(Word(n)) = 2
  /\ \A n, w : IsSeq(Sized(n, w)) /\ Len(Sized(n, w)) = IF w = 1 THEN 1 ELSE 2
<1>1. \A a : IsSeq(<<a>>) /\ Len(<<a>>) = 1
  <2> TAKE a
  <2>1. <<a>> \in Seq({a}) /\ Len(<<a>>) = 1
    OBVIOUS
  <2> QED
    BY <2>1 DEF IsSeq
<1>2. \A a, b : IsSeq(<<a, b>>) /\ Len(<<a, b>>) = 2
  <2> TAKE a, b
  <2>1. <<a, b>> \in Seq({a, b}) /\ Len(<<a, b>>) = 2
    OBVIOUS
  <2> QED
    BY <2>1 DEF IsSeq
<1>3. \A n : IsSeq(Word(n)) /\ Len(Word(n)) = 2
  BY <1>2 DEF Word
<1> QED
  BY <1>1, <1>3 DEF Sized

LEMMA ArgumentsFit ==
  ASSUME NEW item, NEW here, NEW scope,
         TakesUp(item.mode, item.size, Low8(item.op1.tok.text))
  PROVE  /\ IsSeq(GetArguments(item, here, scope).bytes)
         /\ Len(GetArguments(item, here, scope).bytes) = item.size
<1> DEFINE bytes == GetArguments(item, here, scope).bytes
           mode  == item.mode
<1>1. CASE mode \in NoOperand /\ item.size = 0
  <2>1. bytes = <<>>
    BY <1>1 DEF NoOperand, GetArguments, OneByte, OneWord, FromBp
  <2>2. <<>> \in Seq({}) /\ Len(<<>>) = 0
    OBVIOUS
  <2> QED
    BY <1>1, <2>1, <2>2 DEF IsSeq
<1>2. CASE mode \in ByteOperand /\ item.size = 1
  <2>1. \E n : bytes = <<LowByte(n)>>
    <3>1. CASE mode \in OneByte
      BY <3>1 DEF GetArguments, OneByte, OneWord, FromBp
    <3>2. CASE mode \in FromBp
      BY <3>2 DEF GetArguments, OneByte, OneWord, FromBp
    <3>3. CASE mode = "MEMORY_RELATIVE_TO_PC_TO_REGISTER"
      BY <3>3 DEF GetArguments, OneByte, OneWord, FromBp
    <3> QED
      BY <1>2, <3>1, <3>2, <3>3 DEF ByteOperand, OneByte, FromBp
  <2> QED
    BY <1>2, <2>1, Pieces
<1>3. CASE mode \in WordOperand /\ item.size = 2
  <2>1. \E n : bytes = Word(n)
    <3>1. CASE mode \in OneWord
      BY <3>1 DEF GetArguments, OneByte, OneWord, FromBp
    <3>2. CASE mode = "MEMORY_ABSOULTE_TO_REGISTER"
      BY <3>2 DEF GetArguments, OneByte, OneWord, FromBp
    <3> QED
      BY <1>3, <3>1, <3>2 DEF WordOperand, OneWord
  <2> QED
    BY <1>3, <2>1, Pieces
<1>4. CASE /\ mode \in {"IMMEDIATE_TO_MEMORY_ABSOLUTE", "IMMEDIATE_TO_MEMORY_ABSOLUTE_INDEXED"}
           /\ item.size \in {3, 4}
  <2>1. \E n, m : bytes = Word(n) \o Sized(m, IF item.size = 3 THEN 1 ELSE 2)
    BY <1>4 DEF GetArguments, OneByte, OneWord, FromBp
  <2>2. PICK n, m : bytes = Word(n) \o Sized(m, IF item.size = 3 THEN 1 ELSE 2)
    BY <2>1
  <2>3. PICK l \in Nat : l = (IF item.size = 3 THEN 1 ELSE 2) /\ 2 + l = item.size
    BY <1>4
  <2>4. IsSeq(Sized(m, l)) /\ Len(Sized(m, l)) = l
    BY <2>3, Pieces
  <2>5. IsSeq(Word(n)) /\ Len(Word(n)) = 2
    BY Pieces
  <2> HIDE DEF bytes
  <2>6. bytes = Word(n) \o Sized(m, l)
    BY <2>2, <2>3
  <2>8. /\ IsSeq(Word(n) \o Sized(m, l))
        /\ Len(Word(n) \o Sized(m, l)) = Len(Word(n)) + Len(Sized(m, l))
    BY <2>4, <2>5, ConcatSeq
  <2>7. IsSeq(bytes) /\ Len(bytes) = 2 + l
    BY <2>4, <2>5, <2>6, <2>8
  <2> QED
    BY <2>3, <2>7 DEF bytes
<1>5. CASE mode = "IMMEDIATE_TO_MEMORY_RELATIVE_TO_BP" /\ item.size \in {2, 3}
  <2>1. \E n, m : bytes = <<LowByte(n)>> \o Sized(m, IF item.size = 2 THEN 1 ELSE 2)
    BY <1>5 DEF GetArguments, OneByte, OneWord, FromBp
  <2>2. PICK n, m : bytes = <<LowByte(n)>> \o Sized(m, IF item.size = 2 THEN 1 ELSE 2)
    BY <2>1
  <2>3. PICK l \in Nat : l = (IF item.size = 2 THEN 1 ELSE 2) /\ 1 + l = item.size
    BY <1>5
  <2>4. IsSeq(Sized(m, l)) /\ Len(Sized(m, l)) = l
    BY <2>3, Pieces
  <2>5. IsSeq(<<LowByte(n)>>) /\ Len(<<LowByte(n)>>) = 1
    BY Pieces
  <2> HIDE DEF bytes
  <2>6. bytes = <<LowByte(n)>> \o Sized(m, l)
    BY <2>2, <2>3
  <2>8. /\ IsSeq(<<LowByte(n)>> \o Sized(m, l))
        /\ Len(<<LowByte(n)>> \o Sized(m, l)) = Len(<<LowByte(n)>>) + Len(Sized(m, l))
    BY <2>4, <2>5, ConcatSeq
  <2>7. IsSeq(bytes) /\ Len(bytes) = 1 + l
    BY <2>4, <2>5, <2>6, <2>8
  <2> QED
    BY <2>3, <2>7 DEF bytes
<1>6. CASE mode = "IMMEDIATE_TO_MEMORY_RELATIVE_TO_BP_WITH_REGISTER" /\ item.size \in {1, 2}
  <2>1. \E n : bytes = Sized(n, item.size)
    BY <1>6 DEF GetArguments, OneByte, OneWord, FromBp
  <2>2. PICK n : bytes = Sized(n, item.size)
    BY <2>1
  <2>3. Len(Sized(n, item.size)) = item.size
    BY <1>6, Pieces
  <2> HIDE DEF bytes
  <2> QED
    BY <2>2, <2>3, Pieces DEF bytes
<1>7. CASE mode = "IMMEDIATE_TO_REGISTER" /\ item.size = IF Low8(item.op1.tok.text) THEN 1 ELSE 2
  <2>1. \E n : bytes = Sized(n, IF Low8(item.op1.tok.text) THEN 1 ELSE 2)
    BY <1>7 DEF GetArguments, OneByte, OneWord, FromBp
  <2> QED
    BY ZenonT(40), <1>7, <2>1, Pieces
<1> QED
  BY <1>1, <1>2, <1>3, <1>4, <1>5, <1>6, <1>7 DEF TakesUp

(* An item the two passes agree about.                                     *)
Targeting(item) ==
  (Jump(item.name) \/ item.name = "call") /\ item.mode \in {"IMMEDIATE_BYTE", "IMMEDIATE_WORD"}
Fits(item) ==
  /\ DOMAIN item = ItemFields /\ item.size \in Nat
  /\ item.name \in Data =>
       /\ item.mode = "IMPLIED_MODE" /\ item.index = None
       /\ item.name = "string" =>
            item.op1.tok.chars \in Seq(STRING) /\ item.size = Len(item.op1.tok.chars)
       /\ item.name = "expression" => item.size \in {1, 2}
  /\ item.name \notin Data =>
       IF Targeting(item) THEN item.size = 2
       ELSE TakesUp(item.mode, item.size, Low8(item.op1.tok.text))

LEMMA RetargetedFits ==
  ASSUME NEW item, NEW here, NEW scope, Fits(item), item.name \notin Data
  PROVE  /\ TakesUp(Retargeted(item, here, scope).item.mode, item.size,
                    Low8(Retargeted(item, here, scope).item.op1.tok.text))
         /\ Retargeted(item, here, scope).item.size = item.size
<1> DEFINE r == Retargeted(item, here, scope).item
<1>1. DOMAIN item = ItemFields
  BY DEF Fits
<1>2. CASE Targeting(item)
  <2>1. r = [item EXCEPT !.mode = "MEMORY_ABSOULTE"]
    BY <1>2 DEF Retargeted, Targeted, Targeting
  <2>2. r.mode = "MEMORY_ABSOULTE" /\ r.size = item.size
    BY <1>1, <2>1 DEF ItemFields
  <2>3. item.size = 2
    BY <1>2 DEF Fits
  <2> HIDE DEF r
  <2>4. TakesUp(r.mode, item.size, Low8(r.op1.tok.text))
    BY <2>2, <2>3 DEF TakesUp, WordOperand
  <2> QED
    BY <2>2, <2>4 DEF r
<1>3. CASE ~ Targeting(item)
  <2>1. TakesUp(item.mode, item.size, Low8(item.op1.tok.text))
    BY <1>3 DEF Fits
  <2>2. CASE r = item
    BY <2>1, <2>2
  <2>3. CASE item.mode = "MEMORY_RELATIVE_TO_PC" /\ \E tree : r = [item EXCEPT !.op1 = tree]
    <3>1. r.mode = item.mode /\ r.size = item.size
      BY <1>1, <2>3 DEF ItemFields
    <3>2. \A low : TakesUp(item.mode, item.size, low)
      BY <2>1, <2>3 DEF TakesUp, NoOperand, ByteOperand, WordOperand
    <3> QED
      BY <3>1, <3>2
  <2>4. r = item \/ (item.mode = "MEMORY_RELATIVE_TO_PC" /\ \E tree : r = [item EXCEPT !.op1 = tree])
    BY <1>3 DEF Retargeted, Targeted, Targeting, ToLabel
  <2> QED
    BY <2>2, <2>3, <2>4
<1> QED
  BY <1>2, <1>3

LEMMA NoneNoRegister == None.tok.type # "REGISTER"
<1>1. NoTok.type = "OTHER"
  BY DEF NoTok, Token
<1>2. None.tok = NoTok
  BY DEF None, Null
<1>3. "OTHER" # "REGISTER"
  OBVIOUS
<1> QED
  BY <1>1, <1>2, <1>3

LEMMA DumpData ==
  ASSUME NEW item, NEW here, NEW scope, Fits(item)
  PROVE  /\ item.name = "reserve" =>
              Dump(item, here, scope) = Dumped([k1 \in 1 .. item.size |-> 0], FALSE)
         /\ item.name = "string" =>
              Dump(item, here, scope)
                = Dumped([k1 \in DOMAIN item.op1.tok.chars |-> CharCode[item.op1.tok.chars[k1]]],
                         FALSE)
         /\ item.name = "expression" =>
              \E n, err : Dump(item, here, scope) = Dumped(Sized(n, item.size), err)
<1>1. item.name \in Data => item.mode \notin FromBp /\ item.index.tok.type # "REGISTER"
  <2> SUFFICES ASSUME item.name \in Data
               PROVE  item.mode \notin FromBp /\ item.index.tok.type # "REGISTER"
    OBVIOUS
  <2>1. item.mode = "IMPLIED_MODE" /\ item.index = None
    BY DEF Fits
  <2> QED
    BY <2>1, NoneNoRegister DEF FromBp
<1>2. /\ "reserve" \in Data /\ "string" \in Data /\ "expression" \in Data
      /\ "reserve" # "string" /\ "reserve" # "expression" /\ "string" # "expression"
  BY DEF Data
<1>3. CASE item.name = "reserve"
  <2>1. Dump(item, here, scope) = Dumped([k1 \in 1 .. item.size |-> 0], FALSE)
    BY <1>1, <1>2, <1>3 DEF Dump
  <2> QED
    BY <1>2, <1>3, <2>1
<1>4. CASE item.name = "string"
  <2>1. Dump(item, here, scope)
          = Dumped([k1 \in DOMAIN item.op1.tok.chars |-> CharCode[item.op1.tok.chars[k1]]],
                   FALSE)
    BY <1>1, <1>2, <1>4 DEF Dump
  <2> QED
    BY <1>2, <1>4, <2>1
<1>5. CASE item.name = "expression"
  <2>1. Dump(item, here, scope)
          = Dumped(Sized(Evaluate(item.op1, here, scope).v, item.size),
                   Evaluate(item.op1, here, scope).err)
    BY <1>1, <1>2, <1>5 DEF Dump
  <2> QED
    BY <1>2, <1>5, <2>1
<1> QED
  BY <1>3, <1>4, <1>5

LEMMA DumpInstruction ==
  ASSUME NEW item, NEW here, NEW scope, item.name \notin Data,
         ~ Dump(item, here, scope).err
  PROVE  \E addr, opc :
           /\ Dump(item, here, scope).bytes
                = <<addr, opc>> \o GetArguments(Retargeted(item, here, scope).item, here, scope).bytes
           /\ ~ Retargeted(item, here, scope).err
           /\ ~ GetArguments(Retargeted(item, here, scope).item, here, scope).err
<1> DEFINE r == Retargeted(item, here, scope)
           args == GetArguments(r.item, here, scope)
           addr == BuildAddressingMode(r.item)
           opc  == CodeOf[Base(r.item.name)]
<1>1. item.name # "reserve" /\ item.name # "string" /\ item.name # "expression"
  BY DEF Data
<1>2. Dump(item, here, scope) = DumpTargeted(r, here, scope)
  <2> HIDE DEF r
  <2>1. CASE item.mode \in FromBp /\ item.index = None
    <3>1. item.index.tok.type # "REGISTER"
      BY <2>1, NoneNoRegister
    <3> QED
      BY <1>1, <2>1, <3>1 DEF Dump
  <2>2. CASE item.index.tok.type = "REGISTER" /\ item.sign = "-"
    <3>1. item.index # None
      BY <2>2, NoneNoRegister
    <3> QED
      BY <1>1, <2>2, <3>1 DEF Dump, Dumped
  <2>3. CASE /\ ~ (item.mode \in FromBp /\ item.index = None)
             /\ ~ (item.index.tok.type = "REGISTER" /\ item.sign = "-")
    BY <1>1, <2>3 DEF Dump, r
  <2> QED
    BY <2>1, <2>2, <2>3
<1>3. DumpTargeted(r, here, scope) = Encoded(addr, opc, args, r.err)
  BY DEF DumpTargeted
<1> HIDE DEF r, args, addr, opc
<1>4. ~ Encoded(addr, opc, args, r.err).err
  BY <1>2, <1>3
<1>5. Encoded(addr, opc, args, r.err) = Dumped(<<addr, opc>> \o args.bytes, r.err \/ args.err)
  BY <1>4 DEF Encoded, Dumped
<1>6. PICK bytes : bytes = <<addr, opc>> \o args.bytes
  OBVIOUS
<1>7. Dump(item, here, scope) = Dumped(bytes, r.err \/ args.err)
  BY <1>2, <1>3, <1>5, <1>6
<1>8. Dump(item, here, scope).bytes = bytes
  BY <1>7 DEF Dumped
<1>9. ~ (r.err \/ args.err)
  <2>1. ~ Dumped(bytes, r.err \/ args.err).err
    BY <1>3, <1>4, <1>5, <1>6
  <2> QED
    BY <2>1 DEF Dumped
<1> QED
  BY <1>6, <1>8, <1>9 DEF r, args

LEMMA DumpFits ==
  ASSUME NEW item, NEW here, NEW scope, NEW d, d = Dump(item, here, scope),
         Fits(item), ~ d.err
  PROVE  IsSeq(d.bytes) /\ Len(d.bytes) = Length(item)
<1> DEFINE chars == item.op1.tok.chars
<1>1. CASE item.name = "reserve"
  <2>1. item.size \in Nat
    BY DEF Fits
  <2>2. d.bytes = [j \in 1 .. item.size |-> 0]
    <3>1. PICK zeros : zeros = [j \in 1 .. item.size |-> 0]
      OBVIOUS
    <3>2. d = Dumped(zeros, FALSE)
      BY <1>1, <3>1, DumpData
    <3> QED
      BY <3>1, <3>2 DEF Dumped
  <2>3. d.bytes \in Seq({0}) /\ Len(d.bytes) = item.size
    BY <2>1, <2>2
  <2> QED
    BY <1>1, <2>3 DEF IsSeq, Length, Data
<1>2. CASE item.name = "string"
  <2>1. chars \in Seq(STRING) /\ item.size = Len(chars)
    BY <1>2 DEF Fits, Data
  <2>2. d.bytes = [j \in DOMAIN chars |-> CharCode[chars[j]]]
    BY <1>2, DumpData DEF Dumped
  <2> HIDE DEF chars
  <2>4. DOMAIN chars = 1 .. Len(chars) /\ Len(chars) \in Nat
    BY <2>1
  <2>3. d.bytes \in Seq({CharCode[chars[j]] : j \in DOMAIN chars}) /\ Len(d.bytes) = Len(chars)
    BY <2>2, <2>4
  <2> QED
    BY <1>2, <2>1, <2>3 DEF IsSeq, Length, Data
<1>3. CASE item.name = "expression"
  <2>1. item.size \in {1, 2}
    BY <1>3 DEF Fits, Data
  <2>3. PICK n, err : d = Dumped(Sized(n, item.size), err)
    BY <1>3, DumpData
  <2>4. IsSeq(Sized(n, item.size)) /\ Len(Sized(n, item.size)) = item.size
    BY <2>1, Pieces
  <2> QED
    BY <1>3, <2>3, <2>4 DEF Length, Data, Dumped
<1>4. CASE item.name \notin Data
  <2> DEFINE r == Retargeted(item, here, scope)
             args == GetArguments(r.item, here, scope)
  <2>3. PICK addr, opc : d.bytes = <<addr, opc>> \o args.bytes
    BY <1>4, DumpInstruction
  <2>4. TakesUp(r.item.mode, r.item.size, Low8(r.item.op1.tok.text)) /\ r.item.size = item.size
    BY <1>4, RetargetedFits
  <2>5. IsSeq(args.bytes) /\ Len(args.bytes) = item.size
    <3> HIDE DEF r
    <3> QED
      BY <2>4, ArgumentsFit
  <2>6. IsSeq(<<addr, opc>>) /\ Len(<<addr, opc>>) = 2
    <3>1. <<addr, opc>> \in Seq({addr, opc})
      OBVIOUS
    <3> QED
      BY <3>1 DEF IsSeq
  <2> HIDE DEF args
  <2>7. /\ IsSeq(<<addr, opc>> \o args.bytes)
        /\ Len(<<addr, opc>> \o args.bytes) = Len(<<addr, opc>>) + Len(args.bytes)
    BY <2>5, <2>6, ConcatSeq
  <2>8. item.size \in Nat
    BY DEF Fits
  <2> QED
    BY <1>4, <2>3, <2>5, <2>6, <2>7, <2>8 DEF Length
<1> QED
  BY <1>1, <1>2, <1>3, <1>4 DEF Data
-----------------------------------------------------------------------------
(* The first pass keeps the sums of the lengths of what it has emitted:    *)
(* sums[j] is where the j-th item begins.                                  *)
Shaped(e) == DOMAIN e = EnvFields /\ IsSeq(e.items)
PlainItems(items) ==
  \A j \in 1 .. Len(items) :
    items[j].mode \in {"IMMEDIATE_BYTE", "IMMEDIATE_WORD"} => items[j].size \in {1, 2}
AddsUp(items, sums) ==
  /\ sums[1] = 0
  /\ \A j \in 1 .. Len(items) + 1 : sums[j] \in Nat
  /\ \A j \in 1 .. Len(items) : Fits(items[j]) /\ sums[j + 1] = sums[j] + Length(items[j])
Placed(labels, n, sums) ==
  \A name \in DOMAIN labels :
    /\ DOMAIN labels[name] = LabelFields
    /\ labels[name].at \in 0 .. n
    /\ labels[name].address = sums[labels[name].at + 1]
Laid(e, sums) ==
  /\ AddsUp(e.items, sums)
  /\ Placed(e.labels, Len(e.items), sums)
  /\ e.here = sums[Len(e.items) + 1]
IsLaid(e) == \E sums : Laid(e, sums)

(* What a statement may do to an environment.                              *)
Advances(e, f, err) ==
  /\ Shaped(f)
  /\ PlainItems(f.items) => PlainItems(e.items)
  /\ ~ err /\ PlainItems(f.items) /\ IsLaid(e) => IsLaid(f)

LEMMA LabelledFits ==
  ASSUME NEW item, NEW l, DOMAIN item = ItemFields
  PROVE  /\ [item EXCEPT !.label = l].mode = item.mode
         /\ [item EXCEPT !.label = l].size = item.size
         /\ Length([item EXCEPT !.label = l]) = Length(item)
         /\ Fits(item) => Fits([item EXCEPT !.label = l])
<1> DEFINE y == [item EXCEPT !.label = l]
<1>1. /\ DOMAIN y = ItemFields /\ y.name = item.name /\ y.mode = item.mode
      /\ y.size = item.size /\ y.op1 = item.op1 /\ y.index = item.index
  BY DEF ItemFields
<1> HIDE DEF y
<1>2. Length(y) = Length(item)
  BY <1>1 DEF Length
<1>3. Fits(item) => Fits(y)
  BY <1>1 DEF Fits, Targeting
<1> QED
  BY <1>1, <1>2, <1>3 DEF y

LEMMA LengthIsNat == ASSUME NEW item, Fits(item) PROVE Length(item) \in Nat
BY DEF Fits, Length

(* The same items, labels and place.                                       *)
LEMMA SameAdvances ==
  ASSUME NEW e, NEW f, NEW err, Shaped(e), DOMAIN f = EnvFields,
         f.items = e.items, f.here = e.here, f.labels = e.labels
  PROVE  Advances(e, f, err)
BY DEF Advances, Shaped, IsLaid, Laid

LEMMA AdvancesTwice ==
  ASSUME NEW e, NEW f, NEW g, NEW err1, NEW err2, Advances(e, f, err1), Advances(f, g, err2)
  PROVE  Advances(e, g, err2 \/ err1)
BY DEF Advances

(* What Emitting does, when the new items add up to the bytes told.        *)
LEMMA EmittingItems ==
  ASSUME NEW e, NEW new, NEW bytes, Shaped(e), IsSeq(new),
         \A j \in 1 .. Len(new) : DOMAIN new[j] = ItemFields
  PROVE  /\ Shaped(Emitting(e, new, bytes))
         /\ Emitting(e, new, bytes).labels = e.labels
         /\ Emitting(e, new, bytes).here = e.here + bytes
         /\ Len(Emitting(e, new, bytes).items) = Len(e.items) + Len(new)
         /\ \A j \in 1 .. Len(e.items) : Emitting(e, new, bytes).items[j] = e.items[j]
         /\ \A j \in 1 .. Len(new) :
              Emitting(e, new, bytes).items[Len(e.items) + j] = [new[j] EXCEPT !.label = e.label]
<1> DEFINE tagged == [j \in 1 .. Len(new) |-> [new[j] EXCEPT !.label = e.label]]
           f == Emitting(e, new, bytes)
<1>1. Len(new) \in Nat
  BY SeqFacts
<1>2. tagged \in Seq({tagged[j] : j \in 1 .. Len(new)}) /\ Len(tagged) = Len(new)
  BY <1>1
<1>3. IsSeq(tagged)
  BY <1>2 DEF IsSeq
<1>4. \A j \in 1 .. Len(new) : tagged[j] = [new[j] EXCEPT !.label = e.label]
  OBVIOUS
<1>5. f = [e EXCEPT !.items = e.items \o tagged, !.here = e.here + bytes]
  BY DEF Emitting
<1> HIDE DEF tagged, f
<1>6. IsSeq(e.items) /\ DOMAIN e = EnvFields
  BY DEF Shaped
<1>7. /\ DOMAIN f = EnvFields /\ f.items = e.items \o tagged /\ f.here = e.here + bytes
      /\ f.labels = e.labels
  BY <1>5, <1>6 DEF EnvFields
<1>8. /\ IsSeq(e.items \o tagged) /\ Len(e.items \o tagged) = Len(e.items) + Len(tagged)
      /\ \A j \in 1 .. Len(e.items) : (e.items \o tagged)[j] = e.items[j]
      /\ \A j \in 1 .. Len(tagged) : (e.items \o tagged)[Len(e.items) + j] = tagged[j]
  BY <1>3, <1>6, ConcatSeq
<1> QED
  BY <1>2, <1>4, <1>7, <1>8 DEF Shaped, f

LEMMA EmittingAdvances ==
  ASSUME NEW e, NEW new, NEW bytes, NEW err, Shaped(e), IsSeq(new),
         \A j \in 1 .. Len(new) : DOMAIN new[j] = ItemFields,
         ~ err /\ PlainItems(new) /\ IsLaid(e) =>
           \E t : /\ t[1] = 0 /\ bytes = t[Len(new) + 1]
                  /\ \A j \in 1 .. Len(new) : Fits(new[j]) /\ t[j + 1] = t[j] + Length(new[j])
                  /\ \A j \in 1 .. Len(new) + 1 : t[j] \in Nat
  PROVE  Advances(e, Emitting(e, new, bytes), err)
<1> DEFINE f == Emitting(e, new, bytes)
           n == Len(e.items)
           m == Len(new)
<1>1. n \in Nat /\ m \in Nat
  BY SeqFacts DEF Shaped
<1>2. /\ Shaped(f) /\ f.labels = e.labels /\ f.here = e.here + bytes /\ Len(f.items) = n + m
      /\ \A j \in 1 .. n : f.items[j] = e.items[j]
      /\ \A j \in 1 .. m : f.items[n + j] = [new[j] EXCEPT !.label = e.label]
  BY EmittingItems
<1> HIDE DEF f, n, m
<1>3. PlainItems(f.items) => PlainItems(e.items) /\ PlainItems(new)
  <2> SUFFICES ASSUME PlainItems(f.items)
               PROVE  PlainItems(e.items) /\ PlainItems(new)
    OBVIOUS
  <2>1. PlainItems(e.items)
    BY <1>1, <1>2 DEF PlainItems, n
  <2>2. ASSUME NEW j \in 1 .. m, new[j].mode \in {"IMMEDIATE_BYTE", "IMMEDIATE_WORD"}
        PROVE  new[j].size \in {1, 2}
    <3>1. n + j \in 1 .. Len(f.items)
      BY <1>1, <1>2
    <3>2. DOMAIN new[j] = ItemFields /\ f.items[n + j] = [new[j] EXCEPT !.label = e.label]
      BY <1>2 DEF m
    <3>4. f.items[n + j].mode = new[j].mode /\ f.items[n + j].size = new[j].size
      BY <3>2, LabelledFits
    <3> QED
      BY <2>2, <3>1, <3>4 DEF PlainItems
  <2> QED
    BY <2>1, <2>2 DEF PlainItems, m
<1>4. ASSUME ~ err, PlainItems(f.items), IsLaid(e)
      PROVE  IsLaid(f)
  <2>1. PICK s : Laid(e, s)
    BY <1>4 DEF IsLaid
  <2>2. PICK t : /\ t[1] = 0 /\ bytes = t[m + 1]
                 /\ \A j \in 1 .. m : Fits(new[j]) /\ t[j + 1] = t[j] + Length(new[j])
                 /\ \A j \in 1 .. m + 1 : t[j] \in Nat
    BY <1>3, <1>4 DEF m
  <2> DEFINE u == [j \in 1 .. n + m + 1 |-> IF j <= n + 1 THEN s[j] ELSE s[n + 1] + t[j - n]]
  <2>3. /\ s[1] = 0 /\ \A j \in 1 .. n + 1 : s[j] \in Nat
        /\ \A j \in 1 .. n : Fits(e.items[j]) /\ s[j + 1] = s[j] + Length(e.items[j])
    BY <2>1 DEF Laid, AddsUp, n
  <2>4. /\ \A j \in 1 .. n + 1 : u[j] = s[j]
        /\ \A j \in 1 .. m + 1 : u[n + j] = s[n + 1] + t[j]
    <3>1. ASSUME NEW j \in 1 .. m + 1 PROVE u[n + j] = s[n + 1] + t[j]
      <4>1. CASE j = 1
        BY <1>1, <2>2, <2>3, <4>1
      <4>2. CASE j > 1
        <5>1. n + j \in 1 .. n + m + 1 /\ ~ (n + j <= n + 1) /\ (n + j) - n = j
          BY <1>1, <4>2
        <5> QED
          BY <5>1
      <4> QED
        BY <4>1, <4>2
    <3> QED
      BY <1>1, <3>1
  <2> HIDE DEF u
  <2>5. \A j \in 1 .. n + m + 1 : u[j] \in Nat
    <3> TAKE j \in 1 .. n + m + 1
    <3>1. CASE j <= n + 1
      BY <1>1, <2>3, <2>4, <3>1
    <3>2. CASE j > n + 1
      <4>1. PICK i \in 1 .. m + 1 : j = n + i
        <5>1. j - n \in 1 .. m + 1 /\ j = n + (j - n)
          BY <1>1, <3>2
        <5> QED
          BY <5>1
      <4>2. u[j] = s[n + 1] + t[i]
        BY <2>4, <4>1
      <4>3. t[i] \in Nat /\ s[n + 1] \in Nat
        BY <1>1, <2>2, <2>3
      <4> QED
        BY <4>2, <4>3
    <3> QED
      BY <1>1, <3>1, <3>2
  <2>6. \A j \in 1 .. n + m : Fits(f.items[j]) /\ u[j + 1] = u[j] + Length(f.items[j])
    <3> TAKE j \in 1 .. n + m
    <3>1. CASE j <= n
      <4>2. j \in 1 .. n /\ j \in 1 .. n + 1 /\ j + 1 \in 1 .. n + 1
        BY <1>1, <3>1
      <4>1. f.items[j] = e.items[j] /\ u[j] = s[j] /\ u[j + 1] = s[j + 1]
        BY <1>2, <2>4, <4>2
      <4> QED
        BY <1>1, <2>3, <3>1, <4>1
    <3>2. CASE j > n
      <4>1. PICK i \in 1 .. m : j = n + i /\ j + 1 = n + (i + 1) /\ i + 1 \in 1 .. m + 1
                                 /\ i \in 1 .. m + 1
        <5>1. j - n \in 1 .. m /\ j = n + (j - n)
          BY <1>1, <3>2
        <5> QED
          BY <1>1, <5>1
      <4>2. u[j] = s[n + 1] + t[i] /\ u[j + 1] = s[n + 1] + t[i + 1]
        BY <2>4, <4>1
      <4>3. Fits(f.items[j]) /\ Length(f.items[j]) = Length(new[i])
        <5>1. f.items[n + i] = [new[i] EXCEPT !.label = e.label]
          BY <1>2
        <5>2. Fits(new[i]) /\ DOMAIN new[i] = ItemFields
          BY <2>2 DEF Fits
        <5>3. /\ Fits([new[i] EXCEPT !.label = e.label])
              /\ Length([new[i] EXCEPT !.label = e.label]) = Length(new[i])
          BY <5>2, LabelledFits
        <5> QED
          BY <4>1, <5>1, <5>3
      <4>4. t[i + 1] = t[i] + Length(new[i]) /\ t[i] \in Nat /\ s[n + 1] \in Nat
            /\ Length(new[i]) \in Nat
        <5>1. Fits(new[i]) /\ t[i + 1] = t[i] + Length(new[i])
          BY <2>2, <4>1
        <5>2. t[i] \in Nat
          BY <2>2, <4>1
        <5>3. s[n + 1] \in Nat
          BY <1>1, <2>3
        <5>4. Length(new[i]) \in Nat
          BY <5>1, LengthIsNat
        <5> QED
          BY <5>1, <5>2, <5>3, <5>4
      <4> QED
        BY <4>2, <4>3, <4>4
    <3> QED
      BY <1>1, <3>1, <3>2
  <2>7. u[1] = 0
    BY <1>1, <2>3, <2>4
  <2>8. Placed(f.labels, n + m, u)
    <3>1. Placed(e.labels, n, s)
      BY <2>1 DEF Laid, n
    <3>2. \A j \in 0 .. n : j \in 0 .. n + m /\ u[j + 1] = s[j + 1]
      BY <1>1, <2>4
    <3> QED
      BY <1>2, <3>1, <3>2 DEF Placed
  <2>9. f.here = u[n + m + 1]
    <3>1. e.here = s[n + 1]
      BY <2>1 DEF Laid, n
    <3>2. u[n + (m + 1)] = s[n + 1] + t[m + 1]
      BY <1>1, <2>4
    <3>3. n + (m + 1) = n + m + 1
      BY <1>1
    <3> QED
      BY <1>2, <2>2, <3>1, <3>2, <3>3
  <2>10. Laid(f, u)
    BY <1>2, <2>5, <2>6, <2>7, <2>8, <2>9 DEF Laid, AddsUp
  <2> QED
    BY <2>10 DEF IsLaid
<1> QED
  BY <1>2, <1>3, <1>4 DEF Advances, f, n, m

(* One item more.                                                          *)
LEMMA OneAdvances ==
  ASSUME NEW e, NEW item, NEW bytes, NEW err, Shaped(e), DOMAIN item = ItemFields,
         ~ err /\ (item.mode \in {"IMMEDIATE_BYTE", "IMMEDIATE_WORD"} => item.size \in {1, 2})
           /\ IsLaid(e) => Fits(item) /\ bytes = Length(item)
  PROVE  Advances(e, Emitting(e, <<item>>, bytes), err)
<1> DEFINE new == <<item>>
           t == [j \in 1 .. 2 |-> IF j = 1 THEN 0 ELSE Length(item)]
<1>1. new \in Seq({item}) /\ Len(new) = 1 /\ new[1] = item
  OBVIOUS
<1>2. IsSeq(new) /\ \A j \in 1 .. Len(new) : j = 1
  <2>1. IsSeq(new)
    BY <1>1 DEF IsSeq
  <2> HIDE DEF new
  <2> QED
    BY <1>1, <2>1
<1>3. t[1] = 0 /\ t[2] = Length(item)
  OBVIOUS
<1> HIDE DEF new, t
<1>4. ASSUME ~ err /\ PlainItems(new) /\ IsLaid(e)
      PROVE  /\ t[1] = 0 /\ bytes = t[Len(new) + 1]
             /\ \A j \in 1 .. Len(new) : Fits(new[j]) /\ t[j + 1] = t[j] + Length(new[j])
             /\ \A j \in 1 .. Len(new) + 1 : t[j] \in Nat
  <2>1. item.mode \in {"IMMEDIATE_BYTE", "IMMEDIATE_WORD"} => item.size \in {1, 2}
    BY <1>1, <1>4 DEF PlainItems
  <2>2. Fits(item) /\ bytes = Length(item)
    BY <1>4, <2>1
  <2>3. Length(item) \in Nat
    BY <2>2, LengthIsNat
  <2>4. \A j \in 1 .. Len(new) + 1 : j = 1 \/ j = 2
    BY <1>1
  <2> QED
    BY <1>1, <1>2, <1>3, <2>2, <2>3, <2>4
<1>5. \A j \in 1 .. Len(new) : DOMAIN new[j] = ItemFields
  BY <1>1, <1>2
<1>6. Advances(e, Emitting(e, new, bytes), err)
  BY <1>2, <1>4, <1>5, EmittingAdvances
<1> QED
  BY <1>6 DEF new
-----------------------------------------------------------------------------
(* One lemma for each statement.                                           *)
LEMMA HereIsNat == ASSUME NEW e, Shaped(e), IsLaid(e) PROVE e.here \in Nat
<1>1. PICK s : Laid(e, s)
  BY DEF IsLaid
<1>2. Len(e.items) + 1 \in 1 .. Len(e.items) + 1
  BY SeqFacts DEF Shaped
<1> QED
  BY <1>1, <1>2 DEF Laid, AddsUp

LEMMA AnalyzedFields ==
  ASSUME NEW e, NEW err
  PROVE  /\ Analyzed(e, err).env = e /\ Analyzed(e, err).err = err
         /\ ~ Analyzed(e, err).crash
BY DEF Analyzed

LEMMA ItemShape ==
  ASSUME NEW mode, NEW op1, NEW op2, NEW sign, NEW index, NEW size, NEW name
  PROVE  LET item == Named(Item(mode, op1, op2, sign, index, size), name) IN
         /\ DOMAIN item = ItemFields /\ item.name = name /\ item.mode = mode
         /\ item.op1 = op1 /\ item.index = index /\ item.size = size
BY DEF Named, Item, ItemFields

LEMMA UnchangedAdvances == ASSUME NEW e, NEW err, Shaped(e) PROVE Advances(e, e, err)
BY SameAdvances DEF Shaped

LEMMA DataAdvances ==
  ASSUME NEW e, NEW name, NEW op, NEW size, NEW err, Shaped(e),
         name \in {"reserve", "string", "expression"},
         ~ err /\ IsLaid(e) => /\ size \in Nat
                               /\ name = "string" => op.tok.chars \in Seq(STRING) /\ size = Len(op.tok.chars)
                               /\ name = "expression" => size \in {1, 2}
  PROVE  Advances(e, Emitting(e, <<PlainData(name, op, size)>>, size), err)
<1> DEFINE item == PlainData(name, op, size)
<1>1. /\ DOMAIN item = ItemFields /\ item.name = name /\ item.mode = "IMPLIED_MODE"
      /\ item.op1 = op /\ item.index = None /\ item.size = size
  BY ItemShape DEF PlainData
<1> HIDE DEF item
<1>2. name \in Data
  BY DEF Data
<1>3. Length(item) = size
  BY <1>1, <1>2 DEF Length
<1>4. ~ err /\ IsLaid(e) => Fits(item)
  BY <1>1, <1>2 DEF Fits
<1>5. Advances(e, Emitting(e, <<item>>, size), err)
  BY <1>1, <1>3, <1>4, OneAdvances
<1> QED
  BY <1>5 DEF item

LEMMA AnalyzedAdvances ==
  ASSUME NEW e, NEW f, NEW err, NEW d, d = Analyzed(f, err), Advances(e, f, err)
  PROVE  Advances(e, d.env, d.err)
<1>1. d.env = f /\ d.err = err
  BY AnalyzedFields
<1> QED
  BY <1>1

LEMMA AddressesNat == Addresses \subseteq Nat
<1>1. PICK b \in Nat : b = 65535
  OBVIOUS
<1>2. Addresses = 0 .. b
  BY <1>1 DEF Addresses
<1> QED
  BY <1>2

LEMMA OriginAdvances ==
  ASSUME NEW e, NEW kids, Shaped(e), NEW d, d = AnalyzeOrigin(e, kids)
  PROVE  Advances(e, d.env, d.err)
<1>1. PICK to : to = Evaluate(kids[2], e.here, NoScope)
  OBVIOUS
<1>2. PICK gap : gap = to.v - e.here
  OBVIOUS
<1>3. PICK f : f = Emitting(e, <<PlainData("reserve", None, gap)>>, gap)
  OBVIOUS
<1>4. CASE to.v \notin Addresses \/ gap < 0
  <2>1. d = Analyzed(e, TRUE)
    BY <1>1, <1>2, <1>4 DEF AnalyzeOrigin
  <2> QED
    BY <2>1, AnalyzedAdvances, UnchangedAdvances
<1>5. CASE to.v \in Addresses /\ ~ (gap < 0)
  <2>1. CASE gap = 0
    <3>1. d = Analyzed(e, to.err)
      BY <1>1, <1>2, <1>5, <2>1 DEF AnalyzeOrigin
    <3> QED
      BY <3>1, AnalyzedAdvances, UnchangedAdvances
  <2>2. CASE gap # 0
    <3>1. d = Analyzed(f, to.err)
      BY <1>1, <1>2, <1>3, <1>5, <2>2 DEF AnalyzeOrigin
    <3>2. IsLaid(e) => gap \in Nat
      <4>1. IsLaid(e) => e.here \in Nat
        BY HereIsNat
      <4>2. to.v \in Nat
        BY <1>5, AddressesNat
      <4> QED
        BY <1>2, <1>5, <4>1, <4>2
    <3>3. Advances(e, f, to.err)
      BY <1>3, <3>2, DataAdvances
    <3> QED
      BY <3>1, <3>3, AnalyzedAdvances
  <2> QED
    BY <2>1, <2>2
<1> QED
  BY <1>4, <1>5

LEMMA StructureAdvances ==
  ASSUME NEW e, NEW kids, Shaped(e), NEW d, d = AnalyzeStructure(e, kids)
  PROVE  Advances(e, d.env, d.err)
<1> DEFINE s == Put(e.structures, kids[2].tok.text, FieldsOf[kids[4]])
           f == [e EXCEPT !.structures = s]
<1>1. d = Analyzed(f, FALSE)
  BY DEF AnalyzeStructure
<1> HIDE DEF s
<1>2. DOMAIN f = EnvFields /\ f.items = e.items /\ f.here = e.here /\ f.labels = e.labels
  BY DEF Shaped, EnvFields
<1> HIDE DEF f
<1>3. Advances(e, f, FALSE)
  BY <1>2, SameAdvances
<1> QED
  BY <1>1, <1>3, AnalyzedAdvances

LEMMA ClosedLabels ==
  ASSUME NEW e, NEW n, NEW sums, Placed(e.labels, n, sums)
  PROVE  Placed(Closed(e), n, sums)
<1> DEFINE size == e.here - e.labels[e.label].address
           ls == [e.labels EXCEPT ![e.label].size = size]
<1>1. CASE e.label = ""
  BY <1>1 DEF Closed
<1>2. CASE e.label # ""
  <2>1. Closed(e) = ls
    BY <1>2 DEF Closed
  <2> HIDE DEF size
  <2>2. ASSUME NEW name \in DOMAIN ls
        PROVE  /\ name \in DOMAIN e.labels
               /\ DOMAIN ls[name] = DOMAIN e.labels[name]
               /\ DOMAIN e.labels[name] = LabelFields =>
                    ls[name].at = e.labels[name].at /\ ls[name].address = e.labels[name].address
    <3>1. name \in DOMAIN e.labels
      OBVIOUS
    <3>2. CASE name = e.label
      <4>1. ls[name] = [e.labels[name] EXCEPT !.size = size]
        BY <3>1, <3>2
      <4> QED
        BY <3>1, <4>1 DEF LabelFields
    <3>3. CASE name # e.label
      <4>1. ls[name] = e.labels[name]
        BY <3>1, <3>3
      <4> QED
        BY <3>1, <4>1
    <3> QED
      BY <3>2, <3>3
  <2> HIDE DEF ls
  <2>3. Placed(ls, n, sums)
    BY <2>2 DEF Placed
  <2> QED
    BY <2>1, <2>3
<1> QED
  BY <1>1, <1>2

LEMMA LabelAdvances ==
  ASSUME NEW e, NEW kids, Shaped(e), NEW d, d = AnalyzeLabel(e, kids)
  PROVE  Advances(e, d.env, d.err)
<1> DEFINE tok == kids[IF kids[1].tok.text \in {"global", "local"} THEN 2 ELSE 1].tok
           new == [address |-> e.here, local |-> kids[1].tok.text = "local",
                   file |-> tok.file, size |-> 0, at |-> Len(e.items)]
           ls == Put(Closed(e), tok.text, new)
           f == [e EXCEPT !.labels = ls, !.label = tok.text, !.bp = 0]
<1>1. d = IF tok.text \in DOMAIN e.labels THEN Analyzed(e, TRUE) ELSE Analyzed(f, FALSE)
  BY DEF AnalyzeLabel
<1>2. DOMAIN new = LabelFields /\ new.address = e.here /\ new.at = Len(e.items)
  BY DEF LabelFields
<1> HIDE DEF new, tok
<1>3. \A name \in DOMAIN ls : \/ ls[name] = new
                              \/ name \in DOMAIN Closed(e) /\ ls[name] = Closed(e)[name]
  BY DEF Put
<1> HIDE DEF ls
<1>4. DOMAIN f = EnvFields /\ f.items = e.items /\ f.here = e.here /\ f.labels = ls
  BY DEF Shaped, EnvFields
<1> HIDE DEF f
<1>5. ASSUME IsLaid(e) PROVE IsLaid(f)
  <2>1. PICK s : Laid(e, s)
    BY <1>5 DEF IsLaid
  <2>2. Placed(Closed(e), Len(e.items), s)
    BY <2>1, ClosedLabels DEF Laid
  <2>3. Len(e.items) \in 0 .. Len(e.items) /\ e.here = s[Len(e.items) + 1]
    BY <2>1, SeqFacts DEF Laid, Shaped
  <2>4. Placed(ls, Len(e.items), s)
    BY <1>2, <1>3, <2>2, <2>3 DEF Placed
  <2> QED
    BY <1>4, <2>1, <2>4 DEF IsLaid, Laid
<1>6. Advances(e, f, FALSE)
  BY <1>4, <1>5 DEF Advances, Shaped
<1>7. d = Analyzed(e, TRUE) \/ d = Analyzed(f, FALSE)
  BY <1>1
<1> QED
  BY <1>6, <1>7, AnalyzedAdvances, UnchangedAdvances

(* A variable declared: one push, or the stack pointer moved on.           *)
LEMMA NotData ==
  /\ "push" \notin Data /\ "trsp" \notin Data /\ "add" \notin Data /\ "ldsp" \notin Data
  /\ ~ Jump("push") /\ "push" # "call"
BY DEF Data, Jump, Branches

LEMMA PushFits ==
  ASSUME NEW op, NEW size, size \in {1, 2}, NEW item,
         item = Named(Item(IF size = 2 THEN "IMMEDIATE_WORD" ELSE "IMMEDIATE_BYTE",
                           op, None, "+", None, size), "push")
  PROVE  Fits(item) /\ size + 2 = Length(item)
<1>1. PICK mode : mode = IF size = 2 THEN "IMMEDIATE_WORD" ELSE "IMMEDIATE_BYTE"
  OBVIOUS
<1>2. /\ DOMAIN item = ItemFields /\ item.name = "push" /\ item.mode = mode
      /\ item.op1 = op /\ item.size = size
  BY <1>1, ItemShape
<1>3. TakesUp(mode, size, Low8(op.tok.text))
  BY <1>1 DEF TakesUp, ByteOperand, WordOperand
<1>4. size \in Nat
  OBVIOUS
<1>5. Fits(item)
  BY <1>2, <1>3, <1>4, NotData DEF Fits, Targeting
<1> QED
  BY <1>2, <1>5, NotData DEF Length

LEMMA PushAdvances ==
  ASSUME NEW e, NEW op, NEW size, NEW err, Shaped(e)
  PROVE  Advances(e, Emitting(e, <<Named(Item(IF size = 2 THEN "IMMEDIATE_WORD" ELSE "IMMEDIATE_BYTE",
                                              op, None, "+", None, size), "push")>>, size + 2), err)
<1>1. PICK mode : mode = IF size = 2 THEN "IMMEDIATE_WORD" ELSE "IMMEDIATE_BYTE"
  OBVIOUS
<1>2. PICK item : item = Named(Item(mode, op, None, "+", None, size), "push")
  OBVIOUS
<1>3. DOMAIN item = ItemFields /\ item.mode = mode /\ item.size = size
  BY <1>2, ItemShape
<1>4. ASSUME item.mode \in {"IMMEDIATE_BYTE", "IMMEDIATE_WORD"} => item.size \in {1, 2}
      PROVE  Fits(item) /\ size + 2 = Length(item)
  <2>1. size \in {1, 2}
    BY <1>1, <1>3, <1>4
  <2> QED
    BY <1>1, <1>2, <2>1, PushFits
<1>5. Advances(e, Emitting(e, <<item>>, size + 2), err)
  BY <1>3, <1>4, OneAdvances
<1> QED
  BY <1>1, <1>2, <1>5

LEMMA R0IsWide == ~ Low8(r0.tok.text)
<1>1. r0.tok.text = "r0"
  BY DEF r0, Leaf, Token
<1>2. "r0" \notin {LowRegisters[j] : j \in DOMAIN LowRegisters}
  BY DEF LowRegisters
<1> QED
  BY <1>1, <1>2 DEF Low8, ToSet

LEMMA MoveAdvances ==
  ASSUME NEW e, NEW n, NEW err, Shaped(e), NEW items,
         items = <<Named(Item("REGISTER_ACCESS_MODE", r0, None, "+", None, 0), "trsp"),
                   Named(Item("IMMEDIATE_TO_REGISTER", r0, n, "+", None, 2), "add"),
                   Named(Item("REGISTER_ACCESS_MODE", r0, None, "+", None, 0), "ldsp")>>
  PROVE  Advances(e, Emitting(e, items, 8), err) /\ Len(items) = 3
<1>1. PICK a : a = Named(Item("REGISTER_ACCESS_MODE", r0, None, "+", None, 0), "trsp")
  OBVIOUS
<1>2. PICK b : b = Named(Item("IMMEDIATE_TO_REGISTER", r0, n, "+", None, 2), "add")
  OBVIOUS
<1>3. PICK c : c = Named(Item("REGISTER_ACCESS_MODE", r0, None, "+", None, 0), "ldsp")
  OBVIOUS
<1>4. DOMAIN a = ItemFields /\ Fits(a) /\ Length(a) = 2
  <2>1. /\ DOMAIN a = ItemFields /\ a.name = "trsp" /\ a.mode = "REGISTER_ACCESS_MODE"
        /\ a.op1 = r0 /\ a.size = 0
    BY <1>1, ItemShape
  <2>2. TakesUp("REGISTER_ACCESS_MODE", 0, Low8(r0.tok.text))
    BY DEF TakesUp, NoOperand
  <2> QED
    BY <2>1, <2>2, NotData DEF Fits, Targeting, Length
<1>5. DOMAIN b = ItemFields /\ Fits(b) /\ Length(b) = 4
  <2>1. /\ DOMAIN b = ItemFields /\ b.name = "add" /\ b.mode = "IMMEDIATE_TO_REGISTER"
        /\ b.op1 = r0 /\ b.size = 2
    BY <1>2, ItemShape
  <2>2. TakesUp("IMMEDIATE_TO_REGISTER", 2, Low8(r0.tok.text))
    BY R0IsWide DEF TakesUp
  <2> QED
    BY <2>1, <2>2, NotData DEF Fits, Targeting, Length
<1>6. DOMAIN c = ItemFields /\ Fits(c) /\ Length(c) = 2
  <2>1. /\ DOMAIN c = ItemFields /\ c.name = "ldsp" /\ c.mode = "REGISTER_ACCESS_MODE"
        /\ c.op1 = r0 /\ c.size = 0
    BY <1>3, ItemShape
  <2>2. TakesUp("REGISTER_ACCESS_MODE", 0, Low8(r0.tok.text))
    BY DEF TakesUp, NoOperand
  <2> QED
    BY <2>1, <2>2, NotData DEF Fits, Targeting, Length
<1>7. items = <<a, b, c>>
  BY <1>1, <1>2, <1>3
<1>8. /\ <<a, b, c>> \in Seq({a, b, c}) /\ Len(<<a, b, c>>) = 3
      /\ <<a, b, c>>[1] = a /\ <<a, b, c>>[2] = b /\ <<a, b, c>>[3] = c
  OBVIOUS
<1>9. IsSeq(items) /\ Len(items) = 3 /\ items[1] = a /\ items[2] = b /\ items[3] = c
  BY <1>7, <1>8 DEF IsSeq
<1>10. \A j \in 1 .. Len(items) : j = 1 \/ j = 2 \/ j = 3
  BY <1>9
<1>11. \A j \in 1 .. Len(items) : DOMAIN items[j] = ItemFields
  BY <1>4, <1>5, <1>6, <1>9, <1>10
<1> DEFINE t == [j \in 1 .. 4 |-> CASE j = 1 -> 0 [] j = 2 -> 2 [] j = 3 -> 6 [] OTHER -> 8]
<1>12. t[1] = 0 /\ t[2] = 2 /\ t[3] = 6 /\ t[4] = 8
  OBVIOUS
<1> HIDE DEF t
<1>13. \A j \in 1 .. Len(items) : Fits(items[j]) /\ t[j + 1] = t[j] + Length(items[j])
  BY <1>4, <1>5, <1>6, <1>9, <1>10, <1>12
<1>14. \A j \in 1 .. Len(items) + 1 : t[j] \in Nat
  <2>1. \A j \in 1 .. Len(items) + 1 : j = 1 \/ j = 2 \/ j = 3 \/ j = 4
    BY <1>9
  <2> QED
    BY <1>12, <2>1
<1>15. 8 = t[Len(items) + 1]
  BY <1>9, <1>12
<1>16. Advances(e, Emitting(e, items, 8), err)
  BY <1>9, <1>11, <1>12, <1>13, <1>14, <1>15, EmittingAdvances
<1> QED
  BY <1>9, <1>16

LEMMA DeclaringAdvances ==
  ASSUME NEW e, NEW name, NEW items, NEW size, NEW err, Shaped(e),
         \A g : Shaped(g) =>
           Advances(g, Emitting(g, items, IF Len(items) = 3 THEN 8 ELSE size + 2), err),
         NEW d, d = Declaring(e, name, items, size, err)
  PROVE  Advances(e, d.env, d.err)
<1>1. PICK g : g = [e EXCEPT !.variables = Put(e.variables, <<e.label, name>>, e.bp),
                             !.bp = e.bp + size]
  OBVIOUS
<1>2. DOMAIN g = EnvFields /\ g.items = e.items /\ g.here = e.here /\ g.labels = e.labels
  BY <1>1 DEF Shaped, EnvFields
<1>3. Advances(e, g, err) /\ Shaped(g)
  BY <1>2, SameAdvances DEF Advances
<1>4. PICK f : f = Emitting(g, items, IF Len(items) = 3 THEN 8 ELSE size + 2)
  OBVIOUS
<1>5. Advances(g, f, err)
  BY <1>3, <1>4
<1>6. Advances(e, f, err)
  BY <1>3, <1>5 DEF Advances
<1>7. d = Analyzed(f, err)
  BY <1>1, <1>4 DEF Declaring
<1> QED
  BY <1>6, <1>7, AnalyzedAdvances

LEMMA PushDeclared ==
  ASSUME NEW e, NEW name, NEW op, NEW size, NEW err, Shaped(e), NEW d,
         d = Declaring(e, name,
                       <<Named(Item(IF size = 2 THEN "IMMEDIATE_WORD" ELSE "IMMEDIATE_BYTE",
                                    op, None, "+", None, size), "push")>>, size, err)
  PROVE  Advances(e, d.env, d.err)
<1>1. PICK item : item = Named(Item(IF size = 2 THEN "IMMEDIATE_WORD" ELSE "IMMEDIATE_BYTE",
                                    op, None, "+", None, size), "push")
  OBVIOUS
<1>2. Len(<<item>>) = 1
  OBVIOUS
<1>3. \A g : Shaped(g) => Advances(g, Emitting(g, <<item>>, size + 2), err)
  BY <1>1, PushAdvances
<1>4. \A g : Shaped(g) =>
         Advances(g, Emitting(g, <<item>>, IF Len(<<item>>) = 3 THEN 8 ELSE size + 2), err)
  BY <1>2, <1>3
<1>5. d = Declaring(e, name, <<item>>, size, err)
  BY <1>1
<1> QED
  BY <1>4, <1>5, DeclaringAdvances

LEMMA RoomDeclared ==
  ASSUME NEW e, NEW name, NEW size, NEW err, Shaped(e), NEW d,
         d = Declaring(e, name, Reserved(size), size, err)
  PROVE  Advances(e, d.env, d.err)
<1>1. CASE size > 2 \/ size < 0
  <2>1. PICK n : n = Number(IF size < 0 THEN -1 ELSE size)
    OBVIOUS
  <2>2. PICK items :
          items = <<Named(Item("REGISTER_ACCESS_MODE", r0, None, "+", None, 0), "trsp"),
                    Named(Item("IMMEDIATE_TO_REGISTER", r0, n, "+", None, 2), "add"),
                    Named(Item("REGISTER_ACCESS_MODE", r0, None, "+", None, 0), "ldsp")>>
    OBVIOUS
  <2>3. Reserved(size) = items
    BY <1>1, <2>1, <2>2 DEF Reserved
  <2>4. \A g : Shaped(g) =>
          Advances(g, Emitting(g, items, IF Len(items) = 3 THEN 8 ELSE size + 2), err)
    <3>1. \A g : Shaped(g) => Advances(g, Emitting(g, items, 8), err) /\ Len(items) = 3
      BY <2>2, MoveAdvances
    <3> QED
      BY <3>1
  <2> QED
    BY <2>3, <2>4, DeclaringAdvances
<1>2. CASE ~ (size > 2 \/ size < 0)
  <2>1. Reserved(size)
          = <<Named(Item(IF size = 2 THEN "IMMEDIATE_WORD" ELSE "IMMEDIATE_BYTE",
                         Number(0), None, "+", None, size), "push")>>
    BY <1>2 DEF Reserved
  <2> QED
    BY <2>1, PushDeclared
<1> QED
  BY <1>1, <1>2

LEMMA DeclarationAdvances ==
  ASSUME NEW e, NEW kids, Shaped(e), NEW d, d = AnalyzeDeclaration(e, kids)
  PROVE  Advances(e, d.env, d.err)
<1>1. \/ d = Analyzed(e, TRUE)
      \/ \E count, each : d = DeclareArray(e, kids, count, each)
      \/ \E size : d = DeclareScalar(e, kids, size)
  BY DEF AnalyzeDeclaration
<1>2. CASE d = Analyzed(e, TRUE)
  BY <1>2, AnalyzedAdvances, UnchangedAdvances
<1>3. CASE \E count, each : d = DeclareArray(e, kids, count, each)
  <2>1. PICK name, size, err : d = Declaring(e, name, Reserved(size), size, err)
    BY <1>3 DEF DeclareArray
  <2> QED
    BY <2>1, RoomDeclared
<1>4. CASE \E size : d = DeclareScalar(e, kids, size)
  <2>1. PICK size : d = DeclareScalar(e, kids, size)
    BY <1>4
  <2>2. CASE Len(kids) = 4
    <3>1. d = Declaring(e, kids[2].tok.text, Reserved(size), size, FALSE)
      BY <2>1, <2>2 DEF DeclareScalar
    <3> QED
      BY <3>1, RoomDeclared
  <2>3. CASE Len(kids) # 4
    <3>1. d = Declaring(e, kids[2].tok.text,
                 <<Named(Item(IF size = 2 THEN "IMMEDIATE_WORD" ELSE "IMMEDIATE_BYTE",
                              kids[6], None, "+", None, size), "push")>>,
                 size, Evaluate(kids[6], e.here, NoScope).err)
      BY <2>1, <2>3 DEF DeclareScalar
    <3> QED
      BY <3>1, PushDeclared
  <2> QED
    BY <2>2, <2>3
<1> QED
  BY <1>1, <1>2, <1>3, <1>4

(* An instruction, when it is one the encoding has.                        *)
LEMMA EncodableIsNoData == ASSUME NEW item, Encodable(item) PROVE item.name \notin Data
<1>1. PICK f \in DOMAIN Supporting : Base(item.name) \in Supporting[f]
  BY DEF Encodable
<1>2. \A g \in DOMAIN Supporting : Supporting[g] \cap Data = {}
  BY DEF Supporting, Data, Branches, Setters, Getters, Queries, Unary, Pairs, Stores
<1>3. item.name \in Data => Base(item.name) = item.name
  BY DEF Data, Base
<1> QED
  BY <1>1, <1>2, <1>3

LEMMA InstructionAdvances ==
  ASSUME NEW e, NEW kids, Shaped(e), NEW d, d = AnalyzeInstruction(e, kids)
  PROVE  Advances(e, d.env, d.err)
<1>1. PICK read : /\ d = AddRead(e, kids[1].tok.text, read)
                  /\ ReadFits(read.item)
  <2>1. PICK plain : plain = Read(Item("IMPLIED_MODE", None, None, "+", None, 0), FALSE)
    OBVIOUS
  <2>2. ReadFits(plain.item)
    <3>1. TakesUp("IMPLIED_MODE", 0, Low8(None.tok.text))
      BY DEF TakesUp, NoOperand
    <3> QED
      BY <2>1, <3>1, ItemRead
  <2>3. CASE Len(kids) = 1
    <3>1. d = AddRead(e, kids[1].tok.text, plain)
      BY <2>1, <2>3 DEF AnalyzeInstruction
    <3> QED
      BY <2>2, <3>1
  <2>4. CASE Len(kids) # 1
    <3>1. d = AddRead(e, kids[1].tok.text, GetInstruction(kids[2], e))
      BY <2>4 DEF AnalyzeInstruction
    <3> QED
      BY <3>1, InstructionFits
  <2> QED
    BY <2>3, <2>4
<1>2. CASE read.crash
  <2>1. d.env = e
    BY <1>1, <1>2 DEF AddRead
  <2> QED
    BY <2>1, UnchangedAdvances
<1>3. CASE ~ read.crash
  <2>1. PICK item : item = Widened(read.item, kids[1].tok.text)
    OBVIOUS
  <2>2. d = AddInstruction(e, item, read.err)
    BY <1>1, <1>3, <2>1 DEF AddRead
  <2>3. CASE ~ Encodable(item)
    <3>1. d = Analyzed(e, TRUE)
      BY <2>2, <2>3 DEF AddInstruction
    <3> QED
      BY <3>1, AnalyzedAdvances, UnchangedAdvances
  <2>4. CASE Encodable(item)
    <3>1. d = Analyzed(Emitting(e, <<item>>, item.size + 2), read.err)
      BY <2>2, <2>4 DEF AddInstruction
    <3>2. /\ DOMAIN item = ItemFields /\ item.mode = read.item.mode /\ item.op1 = read.item.op1
          /\ item.name = kids[1].tok.text
          /\ item.size = IF Targeting(item) THEN 2 ELSE read.item.size
      BY <1>1, <2>1 DEF Widened, Named, ReadFits, ItemFields, Targeting
    <3>3. TakesUp(item.mode, read.item.size, Low8(item.op1.tok.text))
      BY <1>1, <3>2 DEF ReadFits
    <3>4. read.item.size \in Nat
      BY <3>3 DEF TakesUp
    <3>5. item.name \notin Data
      BY <2>4, EncodableIsNoData
    <3>6. Fits(item)
      BY <3>2, <3>3, <3>4, <3>5 DEF Fits
    <3>7. item.size + 2 = Length(item)
      BY <3>5 DEF Length
    <3>8. Advances(e, Emitting(e, <<item>>, item.size + 2), read.err)
      BY <3>2, <3>6, <3>7, OneAdvances
    <3> QED
      BY <3>1, <3>8, AnalyzedAdvances
  <2> QED
    BY <2>3, <2>4
<1> QED
  BY <1>2, <1>3

-----------------------------------------------------------------------------
(* The trees up to a depth, as far as the first n depths: what the         *)
(* definition of TreeOf stands for exists.                                 *)
Nodes(kids) == [rule : STRING, tok : TokenSet, kids : kids]
IsTreeOf(g, n) == g = [d \in 0 .. n |-> Nodes(IF d = 0 THEN {<<>>} ELSE Seq(g[d - 1]))]

LEMMA NodeParts ==
  ASSUME NEW K, NEW tree
  PROVE  /\ tree \in Nodes(K) => tree.tok \in TokenSet /\ tree.kids \in K
         /\ \A L : tree \in Nodes(K) /\ K \subseteq L => tree \in Nodes(L)
<1>1. ASSUME tree \in Nodes(K)
      PROVE  /\ tree.rule \in STRING /\ tree.tok \in TokenSet /\ tree.kids \in K
             /\ tree = [rule |-> tree.rule, tok |-> tree.tok, kids |-> tree.kids]
  <2> HIDE DEF TokenSet
  <2> QED
    BY <1>1 DEF Nodes
<1>2. ASSUME tree \in Nodes(K), NEW L, K \subseteq L
      PROVE  tree \in Nodes(L)
  <2>1. tree.kids \in L
    BY <1>1, <1>2
  <2> QED
    BY <1>1, <1>2, <2>1 DEF Nodes
<1> QED
  BY <1>1, <1>2

LEMMA TreesToDepth == \A n \in Nat : \E g : IsTreeOf(g, n)
<1> DEFINE S == {n \in Nat : ~ \E g : IsTreeOf(g, n)}
<1> SUFFICES ASSUME S # {} PROVE FALSE
  OBVIOUS
<1>1. PICK m : m = Least(S)
  OBVIOUS
<1>2. m \in S /\ \A j \in S : m <= j
  BY <1>1, LeastOf
<1>3. m \in Nat /\ ~ \E g : IsTreeOf(g, m)
  BY <1>2
<1>4. CASE m = 0
  <2> DEFINE g == [d \in 0 .. 0 |-> Nodes({<<>>})]
  <2>1. g = [d \in 0 .. 0 |-> Nodes(IF d = 0 THEN {<<>>} ELSE Seq(g[d - 1]))]
    OBVIOUS
  <2>2. IsTreeOf(g, m)
    BY <1>4, <2>1 DEF IsTreeOf
  <2> QED
    BY <1>3, <2>2
<1>5. CASE m # 0
  <2>1. m - 1 \in Nat /\ m - 1 \notin S
    BY <1>2, <1>3, <1>5
  <2>2. PICK g : IsTreeOf(g, m - 1)
    BY <2>1
  <2> HIDE DEF S
  <2>3. \A d \in 0 .. m - 1 : g[d] = Nodes(IF d = 0 THEN {<<>>} ELSE Seq(g[d - 1]))
    BY <2>2 DEF IsTreeOf
  <2> DEFINE h == [d \in 0 .. m |-> IF d = m THEN Nodes(Seq(g[m - 1])) ELSE g[d]]
  <2>4. /\ h[m] = Nodes(Seq(g[m - 1]))
        /\ \A d \in 0 .. m - 1 : h[d] = g[d]
    BY <1>3, <1>5
  <2>5. \A d \in 0 .. m : h[d] = Nodes(IF d = 0 THEN {<<>>} ELSE Seq(h[d - 1]))
    <3> HIDE DEF h
    <3> TAKE d \in 0 .. m
    <3>1. CASE d = m
      <4>1. m - 1 \in 0 .. m - 1 /\ d # 0
        BY <2>1, <3>1, <1>5
      <4> QED
        BY <2>4, <3>1, <4>1
    <3>2. CASE d = 0 /\ d # m
      <4>1. 0 \in 0 .. m - 1
        BY <2>1
      <4> QED
        BY <2>3, <2>4, <3>2, <4>1
    <3>3. CASE d # 0 /\ d # m
      <4>1. d \in 0 .. m - 1 /\ d - 1 \in 0 .. m - 1
        BY <1>3, <3>3
      <4> QED
        BY <2>3, <2>4, <3>3, <4>1
    <3> QED
      BY <3>1, <3>2, <3>3
  <2>6. h = [d \in 0 .. m |-> Nodes(IF d = 0 THEN {<<>>} ELSE Seq(h[d - 1]))]
    <3>1. h = [d \in 0 .. m |-> h[d]]
      OBVIOUS
    <3> HIDE DEF h
    <3> QED
      BY <2>5, <3>1
  <2>7. IsTreeOf(h, m)
    BY <2>6 DEF IsTreeOf
  <2> QED
    BY <1>3, <2>7
<1> QED
  BY <1>4, <1>5

LEMMA TreesToDepthAgree ==
  ASSUME NEW n \in Nat, NEW m \in Nat, NEW g, NEW h, IsTreeOf(g, n), IsTreeOf(h, m)
  PROVE  \A d \in Nat : d <= n /\ d <= m => g[d] = h[d]
<1> DEFINE S == {d \in Nat : d <= n /\ d <= m /\ g[d] # h[d]}
<1> SUFFICES ASSUME S # {} PROVE FALSE
  OBVIOUS
<1>1. PICK c : c = Least(S)
  OBVIOUS
<1>2. c \in S /\ \A j \in S : c <= j
  BY <1>1, LeastOf
<1>3. c \in Nat /\ c <= n /\ c <= m /\ g[c] # h[c]
  BY <1>2
<1>4. /\ g[c] = Nodes(IF c = 0 THEN {<<>>} ELSE Seq(g[c - 1]))
      /\ h[c] = Nodes(IF c = 0 THEN {<<>>} ELSE Seq(h[c - 1]))
  <2>1. c \in 0 .. n /\ c \in 0 .. m
    BY <1>3
  <2> QED
    BY <2>1 DEF IsTreeOf
<1>5. CASE c = 0
  BY <1>3, <1>4, <1>5
<1>6. CASE c # 0
  <2>1. c - 1 \in Nat /\ ~ (c <= c - 1) /\ c - 1 <= n /\ c - 1 <= m
    BY <1>3, <1>6
  <2>2. g[c - 1] = h[c - 1]
    BY <1>2, <2>1
  <2> QED
    BY <1>3, <1>4, <1>6, <2>2
<1> QED
  BY <1>5, <1>6

LEMMA TreeOfUnfolds ==
  TreeOf = [d \in Nat |-> Nodes(IF d = 0 THEN {<<>>} ELSE Seq(TreeOf[d - 1]))]
<1> DEFINE upTo(n) == CHOOSE g : IsTreeOf(g, n)
           g == [d \in Nat |-> upTo(d)[d]]
<1>1. \A n \in Nat : IsTreeOf(upTo(n), n)
  BY TreesToDepth
<1> HIDE DEF upTo
<1>2. \A d \in Nat : g[d] = upTo(d)[d]
  OBVIOUS
<1>3. \A d \in Nat : g[d] = Nodes(IF d = 0 THEN {<<>>} ELSE Seq(g[d - 1]))
  <2> HIDE DEF g
  <2> TAKE d \in Nat
  <2>1. d \in 0 .. d /\ IsTreeOf(upTo(d), d)
    BY <1>1
  <2>2. upTo(d)[d] = Nodes(IF d = 0 THEN {<<>>} ELSE Seq(upTo(d)[d - 1]))
    BY <2>1 DEF IsTreeOf
  <2>3. CASE d = 0
    BY <1>2, <2>2, <2>3
  <2>4. CASE d # 0
    <3>1. d - 1 \in Nat /\ d - 1 <= d /\ d - 1 <= d - 1
      BY <2>4
    <3>2. upTo(d)[d - 1] = upTo(d - 1)[d - 1]
      BY <1>1, <3>1, TreesToDepthAgree
    <3>3. g[d - 1] = upTo(d - 1)[d - 1] /\ g[d] = upTo(d)[d]
      BY <1>2, <3>1
    <3> QED
      BY <2>2, <2>4, <3>2, <3>3
  <2> QED
    BY <2>3, <2>4
<1>4. g = [d \in Nat |-> Nodes(IF d = 0 THEN {<<>>} ELSE Seq(g[d - 1]))]
  <2>1. g = [d \in Nat |-> g[d]]
    OBVIOUS
  <2> HIDE DEF g
  <2> QED
    BY <1>3, <2>1
<1> HIDE DEF g
<1>5. g = [d \in Nat |-> [rule : STRING, tok : TokenSet,
                          kids : IF d = 0 THEN {<<>>} ELSE Seq(g[d - 1])]]
  BY <1>4 DEF Nodes
<1>6. \E t : t = [d \in Nat |-> [rule : STRING, tok : TokenSet,
                                 kids : IF d = 0 THEN {<<>>} ELSE Seq(t[d - 1])]]
  BY <1>5
<1>7. TreeOf = [d \in Nat |-> [rule : STRING, tok : TokenSet,
                               kids : IF d = 0 THEN {<<>>} ELSE Seq(TreeOf[d - 1])]]
  BY <1>6 DEF TreeOf
<1> QED
  BY <1>7 DEF Nodes

LEMMA TreesGrow == \A d \in Nat : TreeOf[d] \subseteq TreeOf[d + 1]
<1> DEFINE S == {d \in Nat : ~ (TreeOf[d] \subseteq TreeOf[d + 1])}
<1> SUFFICES ASSUME S # {} PROVE FALSE
  OBVIOUS
<1>1. PICK c : c = Least(S)
  OBVIOUS
<1>2. c \in S /\ \A j \in S : c <= j
  BY <1>1, LeastOf
<1>3. c \in Nat /\ ~ (TreeOf[c] \subseteq TreeOf[c + 1])
  BY <1>2
<1>4. TreeOf[c + 1] = Nodes(Seq(TreeOf[c]))
  <2>1. c + 1 \in Nat /\ c + 1 # 0 /\ (c + 1) - 1 = c
    BY <1>3
  <2> QED
    BY <2>1, TreeOfUnfolds
<1>5. CASE c = 0
  <2>1. TreeOf[c] = Nodes({<<>>})
    BY <1>3, <1>5, TreeOfUnfolds
  <2>2. PICK L : L = Seq(TreeOf[c])
    OBVIOUS
  <2>3. <<>> \in Seq(TreeOf[c])
    OBVIOUS
  <2>4. PICK K : K = {<<>>}
    OBVIOUS
  <2>5. K \subseteq L /\ TreeOf[c] = Nodes(K) /\ TreeOf[c + 1] = Nodes(L)
    BY <1>4, <2>1, <2>2, <2>3, <2>4
  <2> QED
    BY <1>3, <2>5, NodeParts
<1>6. CASE c # 0
  <2>1. c - 1 \in Nat /\ ~ (c <= c - 1) /\ (c - 1) + 1 = c
    BY <1>3, <1>6
  <2>2. TreeOf[c - 1] \subseteq TreeOf[c]
    BY <1>2, <2>1
  <2>3. TreeOf[c] = Nodes(Seq(TreeOf[c - 1]))
    BY <1>3, <1>6, TreeOfUnfolds
  <2>4. Seq(TreeOf[c - 1]) \subseteq Seq(TreeOf[c])
    BY <2>2
  <2> QED
    BY <1>3, <1>4, <2>3, <2>4, NodeParts
<1> QED
  BY <1>5, <1>6

(* A tree is made of trees.                                                *)
LEMMA TreeParts ==
  ASSUME NEW tree \in Trees
  PROVE  tree.tok \in TokenSet /\ tree.kids \in Seq(Trees)
<1>1. TreeOf[Depth] = Nodes(IF Depth = 0 THEN {<<>>} ELSE Seq(TreeOf[Depth - 1]))
  BY TreeOfUnfolds, DepthAssumption
<1>2. CASE Depth = 0
  <2>1. tree.tok \in TokenSet /\ tree.kids \in {<<>>}
    BY <1>1, <1>2, NodeParts DEF Trees
  <2>2. <<>> \in Seq(Trees)
    OBVIOUS
  <2> QED
    BY <2>1, <2>2
<1>3. CASE Depth # 0
  <2>1. Depth - 1 \in Nat /\ (Depth - 1) + 1 = Depth
    BY <1>3, DepthAssumption
  <2>2. TreeOf[Depth - 1] \subseteq Trees
    BY <2>1, TreesGrow DEF Trees
  <2>3. tree.tok \in TokenSet /\ tree.kids \in Seq(TreeOf[Depth - 1])
    BY <1>1, <1>3, NodeParts DEF Trees
  <2> QED
    BY <2>2, <2>3
<1> QED
  BY <1>2, <1>3

-----------------------------------------------------------------------------
(* A list of data is walked element by element.                            *)
LEMMA AddDataAdvances ==
  ASSUME NEW e, NEW name, NEW op, NEW size, NEW err, Shaped(e),
         name \in {"reserve", "string", "expression"},
         ~ err /\ IsLaid(e) => /\ size \in Nat
                               /\ name = "string" => op.tok.chars \in Seq(STRING) /\ size = Len(op.tok.chars)
                               /\ name = "expression" => size \in {1, 2},
         NEW d, d = AddData(e, PlainData(name, op, size), err)
  PROVE  Advances(e, d.env, d.err)
<1>1. PICK item : item = PlainData(name, op, size)
  OBVIOUS
<1>2. item.size = size
  BY <1>1, ItemShape DEF PlainData
<1>3. PICK f : f = Emitting(e, <<item>>, size)
  OBVIOUS
<1>4. Advances(e, f, err)
  BY <1>1, <1>3, DataAdvances
<1>5. d = Analyzed(f, err)
  BY <1>1, <1>2, <1>3 DEF AddData
<1> QED
  BY <1>4, <1>5, AnalyzedAdvances

LEMMA ReservingAdvances ==
  ASSUME NEW e, NEW count, Shaped(e), NEW d, d = Reserving(e, count)
  PROVE  Advances(e, d.env, d.err)
<1>1. CASE count.v \notin 0 .. 65536 - e.here
  <2>1. d = AddData(e, PlainData("reserve", None, 0), count.err \/ TRUE)
    BY <1>1 DEF Reserving
  <2> QED
    BY <2>1, AddDataAdvances
<1>2. CASE count.v \in 0 .. 65536 - e.here
  <2>1. d = AddData(e, PlainData("reserve", None, count.v), count.err \/ FALSE)
    BY <1>2 DEF Reserving
  <2>2. IsLaid(e) => count.v \in Nat
    <3>1. IsLaid(e) => e.here \in Nat
      BY HereIsNat
    <3> QED
      BY <1>2, <3>1
  <2> QED
    BY <2>1, <2>2, AddDataAdvances
<1> QED
  BY <1>1, <1>2

LEMMA ElementAdvances ==
  ASSUME NEW e, NEW kids \in Seq(Trees), kids # <<>>, Shaped(e), NEW d, d = AnalyzeElement(e, kids)
  PROVE  Advances(e, d.env, d.err)
<1>1. kids[1] \in Trees
  OBVIOUS
<1>2. kids[1].tok.chars \in Seq(STRING)
  BY <1>1, TreeParts DEF TokenSet
<1>3. PICK first : first = kids[1]
  OBVIOUS
<1>4. CASE first.tok.type = "STRING_LITERAL"
  <2>1. d = AddData(e, PlainData("string", first, Len(first.tok.chars)), FALSE)
    BY <1>3, <1>4 DEF AnalyzeElement
  <2>2. Len(first.tok.chars) \in Nat
    BY <1>2, <1>3
  <2> QED
    BY <1>2, <1>3, <2>1, <2>2, AddDataAdvances
<1>5. CASE first.tok.type = "KEYWORD"
  <2>1. d = Reserving(e, Evaluate(kids[2], e.here, NoScope))
    BY <1>3, <1>5 DEF AnalyzeElement
  <2> QED
    BY <2>1, ReservingAdvances
<1>6. CASE first.tok.type \notin {"STRING_LITERAL", "KEYWORD"}
  <2>1. d = Storing(e, kids, ExpressionSize(first, e.here))
    BY <1>3, <1>6 DEF AnalyzeElement
  <2>2. PICK size : size = ExpressionSize(first, e.here)
    OBVIOUS
  <2>3. d = AddData(e, PlainData("expression", kids[1], size.v), size.err)
    BY <2>1, <2>2 DEF Storing
  <2>4. size.v \in {1, 2}
    BY <2>2, ExpressionSizes
  <2>5. size.v \in Nat
    BY <2>4
  <2> QED
    BY <2>3, <2>4, <2>5, AddDataAdvances
<1> QED
  BY <1>4, <1>5, <1>6

Walked(e, s) ==
  Advances(e, s.env, s.err) /\ (s.rest.rule = "EXPRESSION_LIST" => s.rest \in Trees)

LEMMA NextWalked ==
  ASSUME NEW e, NEW f, NEW kids \in Seq(Trees), NEW err, Shaped(e), Advances(e, f, err)
  PROVE  Walked(e, NextElement(f, kids, err))
<1>1. CASE kids = <<>>
  <2>1. NextElement(f, kids, err) = [env |-> f, err |-> TRUE, crash |-> TRUE, rest |-> Null]
    BY <1>1 DEF NextElement
  <2>2. Null.rule = "NULL"
    BY DEF Null
  <2>3. Advances(e, f, TRUE)
    BY DEF Advances
  <2>4. PICK s : s = [env |-> f, err |-> TRUE, crash |-> TRUE, rest |-> Null]
    OBVIOUS
  <2>5. s.env = f /\ s.err = TRUE /\ s.rest = Null
    BY <2>4
  <2>6. Advances(e, s.env, s.err)
    BY <2>3, <2>5
  <2>7. s.rest.rule # "EXPRESSION_LIST"
    BY <2>2, <2>5
  <2>8. NextElement(f, kids, err) = s
    BY <2>1, <2>4
  <2> QED
    BY <2>6, <2>7, <2>8 DEF Walked
<1>2. CASE kids # <<>>
  <2>1. PICK d : d = AnalyzeElement(f, kids)
    OBVIOUS
  <2>2. NextElement(f, kids, err)
          = [env |-> d.env, err |-> d.err \/ err, crash |-> FALSE, rest |-> Last(kids)]
    BY <1>2, <2>1 DEF NextElement
  <2>3. Shaped(f)
    BY DEF Advances
  <2>4. Advances(f, d.env, d.err)
    BY <1>2, <2>1, <2>3, ElementAdvances
  <2>5. Advances(e, d.env, d.err \/ err)
    BY <2>4, AdvancesTwice
  <2>6. Last(kids) \in Trees
    <3>1. Len(kids) \in 1 .. Len(kids)
      BY <1>2
    <3> QED
      BY <3>1 DEF Last
  <2> QED
    BY <2>2, <2>5, <2>6 DEF Walked
<1> QED
  BY <1>1, <1>2

LEMMA AfterWalked ==
  ASSUME NEW e, NEW s, Shaped(e), Walked(e, s)
  PROVE  Walked(e, AfterElement(s))
<1>1. CASE s.rest.rule # "EXPRESSION_LIST"
  BY <1>1 DEF AfterElement
<1>2. CASE s.rest.rule = "EXPRESSION_LIST"
  <2>1. s.rest.kids \in Seq(Trees)
    BY <1>2, TreeParts DEF Walked
  <2>2. AfterElement(s) = NextElement(s.env, s.rest.kids, s.err)
    BY <1>2 DEF AfterElement
  <2> QED
    BY <2>1, <2>2, NextWalked DEF Walked
<1> QED
  BY <1>1, <1>2

(* The walk as far as its first n steps, which the definition in           *)
(* AnalyzeList stands for.                                                 *)
IsWalk(g, start, n) == g = [j \in 0 .. n |-> IF j = 0 THEN start ELSE AfterElement(g[j - 1])]

LEMMA Walks == ASSUME NEW start PROVE \A n \in Nat : \E g : IsWalk(g, start, n)
<1> DEFINE S == {n \in Nat : ~ \E g : IsWalk(g, start, n)}
<1> SUFFICES ASSUME S # {} PROVE FALSE
  OBVIOUS
<1>1. PICK m : m = Least(S)
  OBVIOUS
<1>2. m \in S /\ \A j \in S : m <= j
  BY <1>1, LeastOf
<1>3. m \in Nat /\ ~ \E g : IsWalk(g, start, m)
  BY <1>2
<1>4. CASE m = 0
  <2> DEFINE g == [j \in 0 .. 0 |-> start]
  <2>1. g = [j \in 0 .. 0 |-> IF j = 0 THEN start ELSE AfterElement(g[j - 1])]
    OBVIOUS
  <2>2. IsWalk(g, start, m)
    BY <1>4, <2>1 DEF IsWalk
  <2> QED
    BY <1>3, <2>2
<1>5. CASE m # 0
  <2>1. m - 1 \in Nat /\ m - 1 \notin S
    BY <1>2, <1>3, <1>5
  <2>2. PICK g : IsWalk(g, start, m - 1)
    BY <2>1
  <2> HIDE DEF S
  <2>3. \A j \in 0 .. m - 1 : g[j] = IF j = 0 THEN start ELSE AfterElement(g[j - 1])
    BY <2>2 DEF IsWalk
  <2> DEFINE h == [j \in 0 .. m |-> IF j = m THEN AfterElement(g[m - 1]) ELSE g[j]]
  <2>4. /\ h[m] = AfterElement(g[m - 1])
        /\ \A j \in 0 .. m - 1 : h[j] = g[j]
    BY <1>3, <1>5
  <2>5. \A j \in 0 .. m : h[j] = IF j = 0 THEN start ELSE AfterElement(h[j - 1])
    <3> HIDE DEF h
    <3> TAKE j \in 0 .. m
    <3>1. CASE j = m
      <4>1. m - 1 \in 0 .. m - 1 /\ j # 0
        BY <2>1, <3>1, <1>5
      <4> QED
        BY <2>4, <3>1, <4>1
    <3>2. CASE j = 0 /\ j # m
      <4>1. 0 \in 0 .. m - 1
        BY <2>1
      <4> QED
        BY <2>3, <2>4, <3>2, <4>1
    <3>3. CASE j # 0 /\ j # m
      <4>1. j \in 0 .. m - 1 /\ j - 1 \in 0 .. m - 1
        BY <1>3, <3>3
      <4> QED
        BY <2>3, <2>4, <3>3, <4>1
    <3> QED
      BY <3>1, <3>2, <3>3
  <2>6. h = [j \in 0 .. m |-> IF j = 0 THEN start ELSE AfterElement(h[j - 1])]
    <3>1. h = [j \in 0 .. m |-> h[j]]
      OBVIOUS
    <3> HIDE DEF h
    <3> QED
      BY <2>5, <3>1
  <2>7. IsWalk(h, start, m)
    BY <2>6 DEF IsWalk
  <2> QED
    BY <1>3, <2>7
<1> QED
  BY <1>4, <1>5

LEMMA WalksAgree ==
  ASSUME NEW start, NEW n \in Nat, NEW m \in Nat, NEW g, NEW h,
         IsWalk(g, start, n), IsWalk(h, start, m)
  PROVE  \A j \in Nat : j <= n /\ j <= m => g[j] = h[j]
<1> DEFINE S == {j \in Nat : j <= n /\ j <= m /\ g[j] # h[j]}
<1> SUFFICES ASSUME S # {} PROVE FALSE
  OBVIOUS
<1>1. PICK c : c = Least(S)
  OBVIOUS
<1>2. c \in S /\ \A j \in S : c <= j
  BY <1>1, LeastOf
<1>3. c \in Nat /\ c <= n /\ c <= m /\ g[c] # h[c]
  BY <1>2
<1>4. /\ g[c] = IF c = 0 THEN start ELSE AfterElement(g[c - 1])
      /\ h[c] = IF c = 0 THEN start ELSE AfterElement(h[c - 1])
  <2>1. c \in 0 .. n /\ c \in 0 .. m
    BY <1>3
  <2> QED
    BY <2>1 DEF IsWalk
<1>5. CASE c = 0
  BY <1>3, <1>4, <1>5
<1>6. CASE c # 0
  <2>1. c - 1 \in Nat /\ ~ (c <= c - 1) /\ c - 1 <= n /\ c - 1 <= m
    BY <1>3, <1>6
  <2>2. g[c - 1] = h[c - 1]
    BY <1>2, <2>1
  <2> QED
    BY <1>3, <1>4, <1>6, <2>2
<1> QED
  BY <1>5, <1>6

LEMMA WalkUnfolds ==
  ASSUME NEW start
  PROVE  \E g : g = [j \in Nat |-> IF j = 0 THEN start ELSE AfterElement(g[j - 1])]
<1> DEFINE upTo(n) == CHOOSE g : IsWalk(g, start, n)
           g == [j \in Nat |-> upTo(j)[j]]
<1>1. \A n \in Nat : IsWalk(upTo(n), start, n)
  BY Walks
<1> HIDE DEF upTo
<1>2. \A j \in Nat : g[j] = upTo(j)[j]
  OBVIOUS
<1>3. \A j \in Nat : g[j] = IF j = 0 THEN start ELSE AfterElement(g[j - 1])
  <2> HIDE DEF g
  <2> TAKE j \in Nat
  <2>1. j \in 0 .. j /\ IsWalk(upTo(j), start, j)
    BY <1>1
  <2>2. upTo(j)[j] = IF j = 0 THEN start ELSE AfterElement(upTo(j)[j - 1])
    BY <2>1 DEF IsWalk
  <2>3. CASE j = 0
    BY <1>2, <2>2, <2>3
  <2>4. CASE j # 0
    <3>1. j - 1 \in Nat /\ j - 1 <= j /\ j - 1 <= j - 1
      BY <2>4
    <3>2. upTo(j)[j - 1] = upTo(j - 1)[j - 1]
      BY <1>1, <3>1, WalksAgree
    <3>3. g[j - 1] = upTo(j - 1)[j - 1] /\ g[j] = upTo(j)[j]
      BY <1>2, <3>1
    <3> QED
      BY <2>2, <2>4, <3>2, <3>3
  <2> QED
    BY <2>3, <2>4
<1>4. g = [j \in Nat |-> IF j = 0 THEN start ELSE AfterElement(g[j - 1])]
  <2>1. g = [j \in Nat |-> g[j]]
    OBVIOUS
  <2> HIDE DEF g
  <2> QED
    BY <1>3, <2>1
<1> QED
  BY <1>4

LEMMA WalkStays ==
  ASSUME NEW e, NEW start, NEW g, Shaped(e), Walked(e, start),
         g = [j \in Nat |-> IF j = 0 THEN start ELSE AfterElement(g[j - 1])]
  PROVE  \A j \in Nat : Walked(e, g[j])
<1> DEFINE S == {j \in Nat : ~ Walked(e, g[j])}
<1> SUFFICES ASSUME S # {} PROVE FALSE
  OBVIOUS
<1>1. PICK c : c = Least(S)
  OBVIOUS
<1>2. c \in S /\ \A j \in S : c <= j
  BY <1>1, LeastOf
<1>3. c \in Nat /\ ~ Walked(e, g[c])
  BY <1>2
<1>4. g[c] = IF c = 0 THEN start ELSE AfterElement(g[c - 1])
  BY <1>3
<1>5. CASE c = 0
  BY <1>3, <1>4, <1>5
<1>6. CASE c # 0
  <2>1. c - 1 \in Nat /\ ~ (c <= c - 1)
    BY <1>3, <1>6
  <2>2. Walked(e, g[c - 1])
    BY <1>2, <2>1
  <2>3. Walked(e, AfterElement(g[c - 1]))
    BY <2>2, AfterWalked
  <2> QED
    BY <1>3, <1>4, <1>6, <2>3
<1> QED
  BY <1>5, <1>6

LEMMA ListAdvances ==
  ASSUME NEW e, NEW kids \in Seq(Trees), Shaped(e), NEW d, d = AnalyzeList(e, kids)
  PROVE  Advances(e, d.env, d.err)
<1>1. PICK start : start = NextElement(e, kids, FALSE)
  OBVIOUS
<1>2. Walked(e, start)
  BY <1>1, NextWalked, UnchangedAdvances
<1>3. \E at : at = [n \in Nat |-> IF n = 0 THEN NextElement(e, kids, FALSE) ELSE AfterElement(at[n - 1])]
  BY <1>1, WalkUnfolds
<1>4. \E at : /\ at = [n \in Nat |-> IF n = 0 THEN NextElement(e, kids, FALSE) ELSE AfterElement(at[n - 1])]
              /\ AnalyzeList(e, kids) = at[Depth]
  BY <1>3 DEF AnalyzeList
<1>5. PICK at : /\ at = [n \in Nat |-> IF n = 0 THEN start ELSE AfterElement(at[n - 1])]
                /\ d = at[Depth]
  BY <1>1, <1>4
<1>6. Walked(e, at[Depth])
  BY <1>2, <1>5, WalkStays, DepthAssumption
<1> QED
  BY <1>5, <1>6 DEF Walked

LEMMA StatementAdvances ==
  ASSUME NEW e, NEW tree \in Trees, Shaped(e), NEW d, d = Analyze(e, tree)
  PROVE  Advances(e, d.env, d.err)
<1>1. tree.kids \in Seq(Trees)
  BY TreeParts
<1>2. \/ d = AnalyzeOrigin(e, tree.kids)
      \/ d = AnalyzeStructure(e, tree.kids)
      \/ d = AnalyzeDeclaration(e, tree.kids)
      \/ d = AnalyzeLabel(e, tree.kids)
      \/ d = AnalyzeInstruction(e, tree.kids)
      \/ d = AnalyzeList(e, tree.kids)
      \/ d = Analyzed(e, FALSE)
  BY DEF Analyze
<1> QED
  BY <1>1, <1>2, OriginAdvances, StructureAdvances, DeclarationAdvances, LabelAdvances,
     InstructionAdvances, ListAdvances, AnalyzedAdvances, UnchangedAdvances

-----------------------------------------------------------------------------
(* Both passes: the labels lie where the sums of the lengths of the items  *)
(* put them, and so does what has been emitted.                            *)
Early == {"start", "read", "preprocess", "parse"}
AtItem(sums) ==
  /\ k \in 1 .. Len(env.items) + 1 /\ pos = sums[k]
  /\ IsSeq(code) /\ Len(code) = pos

LayoutInv ==
  /\ ast \in Seq(Trees) /\ k \in Nat \ {0} /\ Shaped(env)
  /\ stage \in Early => env = EmptyEnvironment
  /\ stage \in Early \cup {"analyze"} => code = <<>> /\ pos = 0
  /\ stage \in {"analyze", "emit"} /\ ~ refused /\ PlainItems(env.items) =>
       \E sums : Laid(env, sums) /\ (stage = "emit" => AtItem(sums))

LEMMA EmptyIsLaid == Shaped(EmptyEnvironment) /\ IsLaid(EmptyEnvironment)
<1> DEFINE e == EmptyEnvironment
           sums == [j \in 1 .. 1 |-> 0]
<1>1. /\ DOMAIN e = EnvFields /\ e.items = <<>> /\ e.labels = <<>> /\ e.here = 0
  BY DEF EmptyEnvironment, EnvFields
<1>2. <<>> \in Seq({}) /\ Len(<<>>) = 0 /\ DOMAIN <<>> = {}
  OBVIOUS
<1>3. Shaped(e)
  BY <1>1, <1>2 DEF Shaped, IsSeq
<1>4. sums[1] = 0
  OBVIOUS
<1> HIDE DEF e, sums
<1>5. Laid(e, sums)
  BY <1>1, <1>2, <1>4 DEF Laid, AddsUp, Placed
<1> QED
  BY <1>3, <1>5 DEF IsLaid, e

LEMMA LayoutInit == Init => LayoutInv
<1> SUFFICES ASSUME Init PROVE LayoutInv
  OBVIOUS
<1>1. /\ stage \in {"written", "start"} /\ ast = <<>> /\ k = 1 /\ env = EmptyEnvironment
      /\ code = <<>> /\ pos = 0
  BY DEF Init
<1>2. ast \in Seq(Trees)
  BY <1>1
<1> QED
  BY <1>1, <1>2, EmptyIsLaid DEF LayoutInv

LEMMA LayoutEarly == LayoutInv /\ (ReadFlags \/ ReadSource \/ Rewrite) => LayoutInv'
<1> SUFFICES ASSUME LayoutInv, ReadFlags \/ ReadSource \/ Rewrite PROVE LayoutInv'
  OBVIOUS
<1>1. UNCHANGED tVars
  BY DEF ReadFlags, ReadSource, Rewrite
<1>2. stage \in Early /\ stage' \in Early \cup {"refused"}
  BY DEF ReadFlags, ReadSource, Opened, Rewrite, Preprocess, Substitute, Define, Conditional,
         Selected, Import, Return, Preprocessed, Reading, Early
<1> QED
  BY <1>1, <1>2 DEF LayoutInv, tVars, Early

LEMMA LayoutParse == LayoutInv /\ Parse => LayoutInv'
<1> SUFFICES ASSUME LayoutInv, Parse PROVE LayoutInv'
  OBVIOUS
<1>1. /\ stage = "parse" /\ stage' \in {"parse", "refused", "analyze"}
      /\ UNCHANGED <<k, env, code, pos>>
  BY DEF Parse
<1>2. ast' = ast \/ \E tree \in Trees : ast' = Append(ast, tree)
  BY DEF Parse, Keep
<1>3. ast' \in Seq(Trees)
  BY <1>2 DEF LayoutInv
<1>4. env = EmptyEnvironment /\ code = <<>> /\ pos = 0
  BY <1>1 DEF LayoutInv, Early
<1>5. \E sums : Laid(env, sums)
  BY <1>4, EmptyIsLaid DEF IsLaid
<1> QED
  BY <1>1, <1>3, <1>4, <1>5 DEF LayoutInv, Early

LEMMA LayoutAnalyze == LayoutInv /\ AnalyzeNext => LayoutInv'
<1> SUFFICES ASSUME LayoutInv, AnalyzeNext PROVE LayoutInv'
  OBVIOUS
<1>1. /\ stage = "analyze" /\ k <= Len(ast) /\ stage' \in {"analyze", "crashed"}
      /\ k' = k + 1 /\ UNCHANGED <<ast, code, pos>>
  BY DEF AnalyzeNext
<1>2. PICK d : /\ d = Analyze(env, ast[k]) /\ env' = d.env
               /\ refused' = (refused \/ d.err)
  BY DEF AnalyzeNext
<1>3. ast[k] \in Trees /\ Shaped(env) /\ k' \in Nat \ {0}
  BY <1>1 DEF LayoutInv
<1>4. Advances(env, env', d.err)
  BY <1>2, <1>3, StatementAdvances
<1>5. code = <<>> /\ pos = 0
  BY <1>1 DEF LayoutInv
<1>6. ASSUME ~ refused', PlainItems(env'.items)
      PROVE  \E sums : Laid(env', sums)
  <2>1. ~ refused /\ ~ d.err
    BY <1>2, <1>6
  <2>2. PlainItems(env.items)
    BY <1>4, <1>6 DEF Advances
  <2>3. IsLaid(env)
    BY <1>1, <2>1, <2>2 DEF LayoutInv, IsLaid
  <2> QED
    BY <1>4, <1>6, <2>1, <2>3 DEF Advances, IsLaid
<1>7. Shaped(env')
  BY <1>4 DEF Advances
<1> QED
  BY <1>1, <1>3, <1>5, <1>6, <1>7 DEF LayoutInv, Early

LEMMA LayoutAnalyzed == LayoutInv /\ Analyzed2 => LayoutInv'
<1> SUFFICES ASSUME LayoutInv, Analyzed2 PROVE LayoutInv'
  OBVIOUS
<1>1. /\ stage = "analyze" /\ stage' \in {"emit", "refused"} /\ k' = 1
      /\ UNCHANGED <<ast, code, pos>> /\ env' = [env EXCEPT !.labels = Closed(env)]
      /\ (~ refused' => ~ refused)
  <2>1. PICK full : refused' = (refused \/ full)
    BY DEF Analyzed2
  <2>2. stage' = IF refused' THEN "refused" ELSE "emit"
    BY DEF Analyzed2
  <2>3. stage' \in {"emit", "refused"}
    BY <2>2
  <2>4. ~ refused' => ~ refused
    BY <2>1
  <2> QED
    BY <2>3, <2>4 DEF Analyzed2
<1>2. Shaped(env) /\ code = <<>> /\ pos = 0
  BY <1>1 DEF LayoutInv
<1>3. /\ DOMAIN env' = EnvFields /\ env'.items = env.items /\ env'.here = env.here
      /\ env'.labels = Closed(env)
  BY <1>1, <1>2 DEF Shaped, EnvFields
<1>4. Shaped(env')
  BY <1>2, <1>3 DEF Shaped
<1>5. ASSUME ~ refused', PlainItems(env'.items)
      PROVE  \E sums : Laid(env', sums) /\ AtItem(sums)'
  <2>1. PICK sums : Laid(env, sums)
    BY <1>1, <1>3, <1>5 DEF LayoutInv
  <2>2. Placed(env'.labels, Len(env'.items), sums)
    BY <1>3, <2>1, ClosedLabels DEF Laid
  <2>3. Laid(env', sums)
    BY <1>3, <2>1, <2>2 DEF Laid
  <2>4. Len(env'.items) \in Nat
    BY <1>4, SeqFacts DEF Shaped
  <2>5. IsSeq(code') /\ Len(code') = 0
    <3>1. <<>> \in Seq({}) /\ Len(<<>>) = 0
      OBVIOUS
    <3> QED
      BY <1>1, <1>2, <3>1 DEF IsSeq
  <2>6. sums[1] = 0
    BY <2>1 DEF Laid, AddsUp
  <2>7. AtItem(sums)'
    BY <1>1, <1>2, <2>4, <2>5, <2>6 DEF AtItem, IsSeq
  <2> QED
    BY <2>3, <2>7
<1>6. ast' \in Seq(Trees) /\ k' \in Nat \ {0}
  BY <1>1 DEF LayoutInv
<1> QED
  BY <1>1, <1>4, <1>5, <1>6 DEF LayoutInv, Early

LEMMA LayoutEmit == LayoutInv /\ EmitNext => LayoutInv'
<1> SUFFICES ASSUME LayoutInv, EmitNext PROVE LayoutInv'
  OBVIOUS
<1>1. /\ stage = "emit" /\ k <= Len(env.items) /\ stage' \in {"emit", "crashed"}
      /\ k' = k + 1 /\ UNCHANGED <<ast, env>>
  BY DEF EmitNext
<1>2. PICK d : /\ d = Dump(env.items[k], pos, ScopeOf(env, env.items[k].label))
               /\ code' = code \o d.bytes /\ refused' = (refused \/ d.err)
               /\ pos' = pos + Length(env.items[k])
  BY DEF EmitNext
<1>3. ASSUME ~ refused', PlainItems(env'.items)
      PROVE  \E sums : Laid(env', sums) /\ AtItem(sums)'
  <2>1. ~ refused /\ ~ d.err
    BY <1>2, <1>3
  <2>2. PICK sums : Laid(env, sums) /\ AtItem(sums)
    BY <1>1, <1>3, <2>1 DEF LayoutInv
  <2>3. k \in 1 .. Len(env.items) /\ Len(env.items) \in Nat
    BY <1>1, <2>2, SeqFacts DEF LayoutInv, Shaped, AtItem
  <2>4. Fits(env.items[k]) /\ sums[k + 1] = sums[k] + Length(env.items[k])
    BY <2>2, <2>3 DEF Laid, AddsUp
  <2>5. IsSeq(d.bytes) /\ Len(d.bytes) = Length(env.items[k])
    BY <1>2, <2>1, <2>4, DumpFits
  <2>6. IsSeq(code) /\ Len(code) = pos /\ pos = sums[k]
    BY <2>2 DEF AtItem
  <2>7. IsSeq(code \o d.bytes) /\ Len(code \o d.bytes) = Len(code) + Len(d.bytes)
    BY <2>5, <2>6, ConcatSeq
  <2>8. k' \in 1 .. Len(env'.items) + 1 /\ pos' = sums[k'] /\ Len(code') = pos'
    <3>1. k' = k + 1 /\ env' = env /\ pos' = pos + Length(env.items[k])
      BY <1>1, <1>2
    <3>2. k' \in 1 .. Len(env'.items) + 1
      BY <2>3, <3>1
    <3>3. pos' = sums[k']
      BY <2>4, <2>6, <3>1
    <3>4. Len(code') = pos'
      BY <1>2, <2>5, <2>6, <2>7, <3>1
    <3> QED
      BY <3>2, <3>3, <3>4
  <2>9. AtItem(sums)'
    BY <1>2, <2>7, <2>8 DEF AtItem, IsSeq
  <2>10. Laid(env', sums)
    BY <1>1, <2>2
  <2> QED
    BY <2>9, <2>10
<1>4. ast' \in Seq(Trees) /\ k' \in Nat \ {0} /\ Shaped(env')
  BY <1>1 DEF LayoutInv
<1> QED
  BY <1>1, <1>3, <1>4 DEF LayoutInv, Early

LEMMA LayoutLater == LayoutInv /\ (Write \/ Disassemble \/ Ended \/ UNCHANGED vars) => LayoutInv'
<1> SUFFICES ASSUME LayoutInv, Write \/ Disassemble \/ Ended \/ UNCHANGED vars PROVE LayoutInv'
  OBVIOUS
<1>1. CASE UNCHANGED <<stage, refused, ast, k, env, code, pos>>
  BY <1>1 DEF LayoutInv, AtItem, IsSeq
<1>2. CASE UNCHANGED <<ast, k, env, code, pos>> /\ stage' \in {"refused", "written", "done", "unreadable"}
  BY <1>2 DEF LayoutInv, Early
<1>3. CASE /\ stage' = "parse" /\ ast' = <<>> /\ k' = 1 /\ env' = EmptyEnvironment
           /\ code' = <<>> /\ pos' = 0
  <2>1. ast' \in Seq(Trees) /\ k' \in Nat \ {0} /\ Shaped(env')
    BY <1>3, EmptyIsLaid
  <2> QED
    BY <1>3, <2>1 DEF LayoutInv, Early
<1> QED
  BY <1>1, <1>2, <1>3 DEF Write, Disassemble, Ended, vars, pVars, tVars

LEMMA LayoutNext == LayoutInv /\ [Next]_vars => LayoutInv'
BY LayoutEarly, LayoutParse, LayoutAnalyze, LayoutAnalyzed, LayoutEmit, LayoutLater DEF Next

LEMMA LayoutAlways == Spec => []LayoutInv
<1>1. LayoutInv /\ [Next]_vars => LayoutInv'
  BY LayoutNext
<1> QED
  BY <1>1, LayoutInit, PTL DEF Spec

(* The address the first pass gives a label is where the second pass has   *)
(* come to when it reaches the code behind it, in every program without    *)
(* an empty array or a structure with a value.                             *)
THEOREM LabelsMeetTheirCode == Spec => []LabelsAgree
<1>1. LayoutInv => LabelsAgree
  <2> SUFFICES ASSUME LayoutInv, Plain, stage = "emit", ~ refused
               PROVE  /\ pos = Len(code)
                      /\ \A name \in DOMAIN env.labels :
                           env.labels[name].at = k - 1 => env.labels[name].address = Len(code)
    BY DEF LabelsAgree, LabelsAddressed
  <2>1. PICK sums : Laid(env, sums) /\ AtItem(sums)
    BY DEF LayoutInv, Plain, PlainItems
  <2>2. pos = sums[k] /\ Len(code) = pos /\ k \in Nat
    BY <2>1 DEF AtItem, LayoutInv
  <2>3. ASSUME NEW name \in DOMAIN env.labels, env.labels[name].at = k - 1
        PROVE  env.labels[name].address = Len(code)
    <3>1. env.labels[name].address = sums[env.labels[name].at + 1]
      BY <2>1 DEF Laid, Placed
    <3> QED
      BY <2>2, <2>3, <3>1
  <2> QED
    BY <2>2, <2>3
<1> QED
  BY <1>1, LayoutAlways, PTL

-----------------------------------------------------------------------------
(* What the definition of value in Evaluate stands for exists: the values  *)
(* of the trees of each depth, from those one less deep.                   *)
IsValuation(g, d, here, scope) ==
  g = [tree \in TreeOf[d] |-> Combined(tree, g[tree.kids[1]], g[Last(tree.kids)], here, scope)]

(* The value of a leaf is its own.                                         *)
LEMMA LeafCombined ==
  ASSUME NEW tree, tree.kids = <<>>, NEW first, NEW last, NEW here, NEW scope
  PROVE  Combined(tree, first, last, here, scope) = LeafValue(tree.tok, here, scope)
<1>1. Len(tree.kids) = 0
  OBVIOUS
<1> QED
  BY <1>1 DEF Combined

LEMMA Valuations ==
  ASSUME NEW here, NEW scope
  PROVE  \A d \in Nat : \E g : IsValuation(g, d, here, scope)
<1> DEFINE S == {d \in Nat : ~ \E g : IsValuation(g, d, here, scope)}
<1> SUFFICES ASSUME S # {} PROVE FALSE
  OBVIOUS
<1>1. PICK m : m = Least(S)
  OBVIOUS
<1>2. m \in S /\ \A j \in S : m <= j
  BY <1>1, LeastOf
<1>3. m \in Nat /\ ~ \E g : IsValuation(g, m, here, scope)
  BY <1>2
<1>4. CASE m = 0
  <2>1. \A tree \in TreeOf[m] : tree.kids = <<>>
    <3>1. TreeOf[m] = Nodes({<<>>})
      BY <1>4, TreeOfUnfolds
    <3> QED
      BY <3>1, NodeParts
  <2> DEFINE g == [tree \in TreeOf[m] |-> LeafValue(tree.tok, here, scope)]
  <2>2. \A tree \in TreeOf[m] :
          g[tree] = Combined(tree, g[tree.kids[1]], g[Last(tree.kids)], here, scope)
    <3> TAKE tree \in TreeOf[m]
    <3>1. g[tree] = LeafValue(tree.tok, here, scope)
      OBVIOUS
    <3> HIDE DEF g
    <3> QED
      BY <2>1, <3>1, LeafCombined
  <2>3. g = [tree \in TreeOf[m] |-> g[tree]]
    OBVIOUS
  <2> HIDE DEF g
  <2>4. IsValuation(g, m, here, scope)
    BY <2>2, <2>3 DEF IsValuation
  <2> QED
    BY <1>3, <2>4
<1>5. CASE m # 0
  <2>1. m - 1 \in Nat /\ m - 1 \notin S
    BY <1>2, <1>3, <1>5
  <2>2. PICK g : IsValuation(g, m - 1, here, scope)
    BY <2>1
  <2> HIDE DEF S
  <2>3. \A tree \in TreeOf[m - 1] :
          g[tree] = Combined(tree, g[tree.kids[1]], g[Last(tree.kids)], here, scope)
    BY <2>2 DEF IsValuation
  <2>4. TreeOf[m - 1] \subseteq TreeOf[m]
    <3>1. (m - 1) + 1 = m
      BY <1>3
    <3> QED
      BY <2>1, <3>1, TreesGrow
  <2>5. \A tree \in TreeOf[m] : tree.kids \in Seq(TreeOf[m - 1])
    <3>1. TreeOf[m] = Nodes(Seq(TreeOf[m - 1]))
      BY <1>3, <1>5, TreeOfUnfolds
    <3> QED
      BY <3>1, NodeParts
  <2> DEFINE h == [tree \in TreeOf[m] |->
                     Combined(tree, g[tree.kids[1]], g[Last(tree.kids)], here, scope)]
  <2>6. \A tree \in TreeOf[m] :
          h[tree] = Combined(tree, g[tree.kids[1]], g[Last(tree.kids)], here, scope)
    OBVIOUS
  <2>7. h = [tree \in TreeOf[m] |-> h[tree]]
    OBVIOUS
  <2> HIDE DEF h
  <2>8. \A tree \in TreeOf[m - 1] : h[tree] = g[tree]
    BY <2>3, <2>4, <2>6
  <2>9. \A tree \in TreeOf[m] :
          h[tree] = Combined(tree, h[tree.kids[1]], h[Last(tree.kids)], here, scope)
    <3> TAKE tree \in TreeOf[m]
    <3>1. CASE tree.kids = <<>>
      BY <2>6, <3>1, LeafCombined
    <3>2. CASE tree.kids # <<>>
      <4>1. Len(tree.kids) \in 1 .. Len(tree.kids) /\ 1 \in 1 .. Len(tree.kids)
        BY <2>5, <3>2
      <4>2. tree.kids[1] \in TreeOf[m - 1] /\ Last(tree.kids) \in TreeOf[m - 1]
        BY <2>5, <4>1 DEF Last
      <4>3. h[tree.kids[1]] = g[tree.kids[1]] /\ h[Last(tree.kids)] = g[Last(tree.kids)]
        BY <2>8, <4>2
      <4> QED
        BY <2>6, <4>3
    <3> QED
      BY <3>1, <3>2
  <2>10. IsValuation(h, m, here, scope)
    BY <2>7, <2>9 DEF IsValuation
  <2> QED
    BY <1>3, <2>10
<1> QED
  BY <1>4, <1>5

LEMMA EvaluateUnfolds ==
  ASSUME NEW here, NEW scope, NEW tree \in Trees
  PROVE  \E g : Evaluate(tree, here, scope)
                  = Combined(tree, g[tree.kids[1]], g[Last(tree.kids)], here, scope)
<1>1. \E g : g = [t \in Trees |-> Combined(t, g[t.kids[1]], g[Last(t.kids)], here, scope)]
  <2>1. PICK g : IsValuation(g, Depth, here, scope)
    BY Valuations, DepthAssumption
  <2>2. g = [t \in Trees |-> Combined(t, g[t.kids[1]], g[Last(t.kids)], here, scope)]
    BY <2>1 DEF IsValuation, Trees
  <2> QED
    BY <2>2, Zenon
<1>2. \E g : /\ g = [t \in Trees |-> Combined(t, g[t.kids[1]], g[Last(t.kids)], here, scope)]
             /\ Evaluate(tree, here, scope) = g[tree]
  BY <1>1 DEF Evaluate
<1>3. PICK g : /\ g = [t \in Trees |-> Combined(t, g[t.kids[1]], g[Last(t.kids)], here, scope)]
               /\ Evaluate(tree, here, scope) = g[tree]
  BY <1>2
<1>4. [t \in Trees |-> Combined(t, g[t.kids[1]], g[Last(t.kids)], here, scope)][tree]
        = Combined(tree, g[tree.kids[1]], g[Last(tree.kids)], here, scope)
  OBVIOUS
<1>5. Evaluate(tree, here, scope) = Combined(tree, g[tree.kids[1]], g[Last(tree.kids)], here, scope)
  BY <1>3, <1>4, Zenon
<1> QED
  BY <1>5

LEMMA NumberIsTree == ASSUME NEW n \in Int PROVE Number(n) \in Trees
<1>1. PICK t : t = Token("NUMBER_LITERAL", "#", n, <<>>, Main)
  OBVIOUS
<1>2. t \in TokenSet
  <2>1. "NUMBER_LITERAL" \in STRING
    BY WordsAssumption
  <2>3. "#" \in STRING
    BY WordsAssumption
  <2>4. <<>> \in Seq(STRING)
    OBVIOUS
  <2>5. "main" \in STRING
    BY WordsAssumption
  <2>2. Main \in STRING \X STRING
    BY <2>5 DEF Main
  <2> QED
    BY <1>1, <2>1, <2>2, <2>3, <2>4 DEF Token, TokenSet
<1>3. Number(n) = [rule |-> "NONE", tok |-> t, kids |-> <<>>]
  BY <1>1 DEF Number, Leaf
<1>4. TreeOf[Depth] = Nodes(IF Depth = 0 THEN {<<>>} ELSE Seq(TreeOf[Depth - 1]))
  BY TreeOfUnfolds, DepthAssumption
<1>5. PICK K : K = IF Depth = 0 THEN {<<>>} ELSE Seq(TreeOf[Depth - 1])
  OBVIOUS
<1>6. <<>> \in K
  BY <1>5
<1>7. Number(n) \in Nodes(K)
  <2>1. "NONE" \in STRING
    BY WordsAssumption
  <2> HIDE DEF TokenSet
  <2> QED
    BY <1>2, <1>3, <1>6, <2>1 DEF Nodes
<1> QED
  BY <1>4, <1>5, <1>7 DEF Trees

LEMMA NumberIsItsValue ==
  ASSUME NEW n \in Nat, NEW here, NEW scope
  PROVE  Evaluate(Number(n), here, scope).v = n
<1>1. Number(n).kids = <<>> /\ Number(n).tok.type = "NUMBER_LITERAL" /\ Number(n).tok.n = n
  BY DEF Number, Leaf, Token
<1>2. Evaluate(Number(n), here, scope) = LeafValue(Number(n).tok, here, scope)
  BY <1>1, NumberIsTree, EvaluateUnfolds, LeafCombined
<1>3. LeafValue(Number(n).tok, here, scope) = Value(n, n < 0)
  BY <1>1 DEF LeafValue
<1> QED
  BY <1>2, <1>3 DEF Value
-----------------------------------------------------------------------------
(* A jump to a label: three bytes, the last of them the distance.          *)
LEMMA DistanceOfByte ==
  ASSUME NEW n \in Int, n \in -128 .. 127
  PROVE  LowByte(n) \in 0 .. 255 /\ Signed(LowByte(n)) = n /\ LowByte(LowByte(n)) = LowByte(n)
BY DEF LowByte, Signed

IsJumpBy(bytes, b) == \E addr, opc : bytes = <<addr, opc>> \o <<b>>

LEMMA JumpBytes ==
  ASSUME NEW item, NEW here \in Int, NEW scope, NEW d, d = Dump(item, here, scope), ~ d.err,
         DOMAIN item = ItemFields, item.name \notin Data,
         Jump(item.name), item.mode = "MEMORY_RELATIVE_TO_PC", IsId[item.op1]
  PROVE  \E b : /\ IsJumpBy(d.bytes, b)
               /\ here + 3 + Signed(b) = Evaluate(item.op1, here, scope).v
<1>1. PICK to : to = Evaluate(item.op1, here, scope)
  OBVIOUS
<1>2. PICK r : r = Retargeted(item, here, scope)
  OBVIOUS
<1>3. r = ToLabel(item, to, here + 3)
  BY <1>1, <1>2 DEF Retargeted, BehindJump
<1>4. PICK addr, opc : /\ d.bytes = <<addr, opc>> \o GetArguments(r.item, here, scope).bytes
                       /\ ~ r.err
  BY <1>2, DumpInstruction
<1>5. to.v \in (here + 3) - 128 .. (here + 3) + 127
  BY <1>3, <1>4 DEF ToLabel, Targeted
<1>6. PICK n \in Int : n = to.v - (here + 3) /\ n \in -128 .. 127 /\ here + 3 + n = to.v
  BY <1>5
<1>7. PICK b : b = LowByte(n)
  OBVIOUS
<1>8. b \in 0 .. 255 /\ Signed(b) = n /\ LowByte(b) = b
  BY <1>6, <1>7, DistanceOfByte
<1>9. r.item = [item EXCEPT !.op1 = Number(b)]
  BY <1>3, <1>6, <1>7 DEF ToLabel, Targeted
<1>10. r.item.mode = "MEMORY_RELATIVE_TO_PC" /\ r.item.op1 = Number(b)
  BY <1>9 DEF ItemFields
<1>11. GetArguments(r.item, here, scope).bytes = <<LowByte(Evaluate(Number(b), here, scope).v)>>
  BY <1>10 DEF GetArguments, OneByte, OneWord, FromBp
<1>12. Evaluate(Number(b), here, scope).v = b
  BY <1>8, NumberIsItsValue
<1>13. IsJumpBy(d.bytes, b)
  BY <1>4, <1>8, <1>11, <1>12 DEF IsJumpBy
<1> QED
  BY <1>1, <1>6, <1>8, <1>13

LEMMA JumpStep ==
  ASSUME LayoutInv, EmitNext, Plain, ~ refused', Jump(env.items[k].name),
         env.items[k].mode = "MEMORY_RELATIVE_TO_PC", IsId[env.items[k].op1]
  PROVE  Len(code') + Signed(Last(code'))
           = Evaluate(env.items[k].op1, pos, ScopeOf(env, env.items[k].label)).v
<1>1. PICK scope : scope = ScopeOf(env, env.items[k].label)
  OBVIOUS
<1>2. PICK item : item = env.items[k]
  OBVIOUS
<1>3. PICK d : /\ d = Dump(item, pos, scope) /\ code' = code \o d.bytes
               /\ refused' = (refused \/ d.err)
  BY <1>1, <1>2 DEF EmitNext
<1>4. ~ refused /\ ~ d.err
  BY <1>3
<1>5. stage = "emit" /\ k <= Len(env.items)
  BY DEF EmitNext
<1>6. PICK sums : Laid(env, sums) /\ AtItem(sums)
  BY <1>4, <1>5 DEF LayoutInv, Plain, PlainItems
<1>7. k \in 1 .. Len(env.items) /\ Len(env.items) \in Nat
  BY <1>5, <1>6, SeqFacts DEF LayoutInv, Shaped, AtItem
<1>8. Fits(item)
  BY <1>2, <1>6, <1>7 DEF Laid, AddsUp
<1>9. IsSeq(code) /\ Len(code) = pos /\ pos \in Nat
  BY <1>6, SeqFacts DEF AtItem
<1>10. item.name \notin Data
  BY <1>2 DEF Jump, Data, Branches
<1>11. PICK b : /\ IsJumpBy(d.bytes, b)
                /\ pos + 3 + Signed(b) = Evaluate(item.op1, pos, scope).v
  <2>1. pos \in Int /\ DOMAIN item = ItemFields
    BY <1>8, <1>9 DEF Fits
  <2> QED
    <3>1. Jump(item.name) /\ item.mode = "MEMORY_RELATIVE_TO_PC" /\ IsId[item.op1]
      BY <1>2
    <3>2. d = Dump(item, pos, scope) /\ ~ d.err
      BY <1>3, <1>4
    <3> QED
      BY <1>10, <2>1, <3>1, <3>2, JumpBytes
<1>17. PICK addr, opc : d.bytes = <<addr, opc>> \o <<b>>
  BY <1>11 DEF IsJumpBy
<1>12. /\ IsSeq(<<addr, opc>>) /\ Len(<<addr, opc>>) = 2
       /\ IsSeq(<<b>>) /\ Len(<<b>>) = 1 /\ <<b>>[1] = b
  <2>1. <<addr, opc>> \in Seq({addr, opc}) /\ <<b>> \in Seq({b})
    OBVIOUS
  <2> QED
    BY <2>1 DEF IsSeq
<1>13. PICK bytes : bytes = <<addr, opc>> \o <<b>>
  OBVIOUS
<1>14. IsSeq(bytes) /\ Len(bytes) = 3 /\ bytes[3] = b
  <2>1. /\ IsSeq(bytes) /\ Len(bytes) = Len(<<addr, opc>>) + Len(<<b>>)
        /\ \A j \in 1 .. Len(<<b>>) : bytes[Len(<<addr, opc>>) + j] = <<b>>[j]
    BY <1>12, <1>13, ConcatSeq
  <2> QED
    BY <1>12, <2>1
<1>15. /\ Len(code') = Len(code) + Len(bytes)
       /\ \A j \in 1 .. Len(bytes) : code'[Len(code) + j] = bytes[j]
  BY <1>3, <1>9, <1>17, <1>13, <1>14, ConcatSeq
<1>16. Len(code') = pos + 3 /\ Last(code') = b
  <2>1. Len(code') = pos + 3
    BY <1>9, <1>14, <1>15
  <2>2. 3 \in 1 .. Len(bytes) /\ code'[pos + 3] = b
    BY <1>9, <1>14, <1>15
  <2> QED
    BY <2>1, <2>2 DEF Last
<1> QED
  BY <1>1, <1>2, <1>11, <1>16

(* A jump "* label" that is written without an error goes to the label's   *)
(* address from where its own bytes end.                                   *)
THEOREM JumpsGoToTheirLabel == Spec => JumpsLand
<1> DEFINE Lands ==
      Plain /\ stage = "emit" /\ code' # code /\ ~ refused' /\ Jump(env.items[k].name)
        /\ env.items[k].mode = "MEMORY_RELATIVE_TO_PC" /\ IsId[env.items[k].op1]
      => Len(code') + Signed(Last(code'))
           = Evaluate(env.items[k].op1, pos, ScopeOf(env, env.items[k].label)).v
<1>1. LayoutInv /\ [Next]_vars => [Lands]_vars
  <2> SUFFICES ASSUME LayoutInv, [Next]_vars, stage = "emit", code' # code
               PROVE  EmitNext
    BY JumpStep
  <2>1. Next
    BY DEF vars, tVars
  <2>2. /\ ~ ReadFlags /\ ~ ReadSource /\ ~ Rewrite /\ ~ Parse /\ ~ AnalyzeNext /\ ~ Analyzed2
        /\ ~ Write /\ ~ Disassemble /\ ~ Ended
    BY DEF ReadFlags, ReadSource, Rewrite, Parse, AnalyzeNext, Analyzed2, Write, Disassemble,
           Ended, tVars, vars
  <2> QED
    BY <2>1, <2>2 DEF Next
<1> QED
  BY <1>1, LayoutAlways, PTL DEF JumpsLand, Spec
-----------------------------------------------------------------------------
(* A function defined from its value at the number before.                 *)
IsIterate(g, N, a, step) ==
  g[0] = a /\ \A n \in 1 .. N : g[n] = step[n][g[n - 1]]

LEMMA Iterates ==
  ASSUME NEW N \in Nat, NEW S, NEW a \in S, NEW step \in [1 .. N -> [S -> S]]
  PROVE  \E g \in [0 .. N -> S] : IsIterate(g, N, a, step)
<1> DEFINE B == {m \in 0 .. N : ~ \E g \in [0 .. m -> S] : IsIterate(g, m, a, step)}
<1>1. B = {}
  <2> SUFFICES ASSUME B # {} PROVE FALSE
    OBVIOUS
  <2>1. PICK m : m = Least(B)
    OBVIOUS
  <2>6. B \subseteq Nat
    OBVIOUS
  <2>2. m \in B /\ \A j \in B : m <= j
    <3> HIDE DEF B
    <3> QED
      BY <2>1, <2>6, LeastOf
  <2>3. m \in 0 .. N /\ ~ \E g \in [0 .. m -> S] : IsIterate(g, m, a, step)
    BY <2>2
  <2>4. CASE m = 0
    <3> DEFINE g == [n \in 0 .. m |-> a]
    <3>1. g \in [0 .. m -> S] /\ IsIterate(g, m, a, step)
      BY <2>4 DEF IsIterate
    <3> QED
      BY <2>3, <3>1
  <2>5. CASE m # 0
    <3>1. m - 1 \in 0 .. N /\ m - 1 \notin B
      BY <2>2, <2>3, <2>5
    <3>2. PICK g \in [0 .. m - 1 -> S] : IsIterate(g, m - 1, a, step)
      BY <3>1
    <3> HIDE DEF B
    <3> DEFINE h == [n \in 0 .. m |-> IF n = m THEN step[m][g[m - 1]] ELSE g[n]]
    <3>3. step[m][g[m - 1]] \in S
      BY <2>3, <2>5
    <3>4. h \in [0 .. m -> S]
      BY <2>3, <2>5, <3>3
    <3>5. \A n \in 0 .. m - 1 : h[n] = g[n]
      BY <2>3
    <3>6. h[m] = step[m][g[m - 1]]
      BY <2>3
    <3> HIDE DEF h
    <3>7. ASSUME NEW n \in 1 .. m PROVE h[n] = step[n][h[n - 1]]
      <4>1. CASE n = m
        BY <2>3, <2>5, <3>5, <3>6, <4>1
      <4>2. CASE n # m
        <5>1. n \in 1 .. m - 1 /\ n \in 0 .. m - 1 /\ n - 1 \in 0 .. m - 1
          BY <2>3, <4>2
        <5>2. g[n] = step[n][g[n - 1]]
          BY <3>2, <5>1 DEF IsIterate
        <5> QED
          BY <3>5, <5>1, <5>2
      <4> QED
        BY <4>1, <4>2
    <3>8. h[0] = a
      BY <2>3, <2>5, <3>2, <3>5 DEF IsIterate
    <3>9. IsIterate(h, m, a, step)
      BY <3>7, <3>8 DEF IsIterate
    <3> QED
      BY <2>3, <3>4, <3>9
  <2> QED
    BY <2>4, <2>5
<1>2. N \in 0 .. N
  OBVIOUS
<1> QED
  BY <1>1, <1>2

(* What holds at 0 and from each number to the next holds up to N.         *)
LEMMA UpTo0 ==
  ASSUME NEW N \in Nat, NEW H, 0 \in H, \A n \in 1 .. N : n - 1 \in H => n \in H
  PROVE  0 .. N \subseteq H
<1> DEFINE B == {m \in 0 .. N : m \notin H}
<1> SUFFICES ASSUME B # {} PROVE FALSE
  OBVIOUS
<1>1. PICK m : m = Least(B)
  OBVIOUS
<1>2. m \in B /\ \A j \in B : m <= j
  BY <1>1, LeastOf
<1>3. m \in 1 .. N /\ m \notin H
  BY <1>2
<1>4. m - 1 \notin B
  BY <1>2, <1>3
<1> QED
  BY <1>3, <1>4
-----------------------------------------------------------------------------
(* A word is read back as it was written.                                  *)
LEMMA WordsBack ==
  ASSUME NEW n \in Nat
  PROVE  /\ Word(n) \in Seq(Int) /\ Len(Word(n)) = 2
         /\ ~ TooBig(n) => 256 * Word(n)[1] + Word(n)[2] = n
<1>1. (n % 65536) \div 256 \in Int /\ n % 256 \in Int
  OBVIOUS
<1>2. Word(n) \in Seq(Int) /\ Len(Word(n)) = 2
  BY <1>1 DEF Word
<1>3. ~ TooBig(n) => 256 * Word(n)[1] + Word(n)[2] = n
  BY DEF Word, TooBig
<1> QED
  BY <1>2, <1>3

(* The names of the public labels, each once.                              *)
LEMMA PublicUnfolds ==
  ASSUME NEW labels
  PROVE  \E u : /\ PublicLabels(labels) = u[Len(NamesInOrder)] /\ u[0] = <<>>
                /\ \A n \in 1 .. Len(NamesInOrder) :
                     u[n] = IF Public(labels, NamesInOrder[n]) THEN Append(u[n - 1], NamesInOrder[n])
                            ELSE u[n - 1]
<1> DEFINE N == Len(NamesInOrder)
           S == Seq(DOMAIN Spelling)
           step == [n \in 1 .. N |-> [s \in S |->
                      IF Public(labels, NamesInOrder[n]) THEN Append(s, NamesInOrder[n]) ELSE s]]
<1>1. N \in Nat /\ \A n \in 1 .. N : NamesInOrder[n] \in DOMAIN Spelling
  BY SpellingAssumption
<1>2. step \in [1 .. N -> [S -> S]]
  <2>1. \A n \in 1 .. N, s \in S : Append(s, NamesInOrder[n]) \in S
    BY <1>1
  <2> HIDE DEF S, N
  <2> QED
    BY <2>1
<1>3. <<>> \in S
  OBVIOUS
<1>4. \A n \in 1 .. N, s \in S : step[n][s] =
        IF Public(labels, NamesInOrder[n]) THEN Append(s, NamesInOrder[n]) ELSE s
  OBVIOUS
<1> HIDE DEF step, S, N
<1>5. PICK g \in [0 .. N -> S] : IsIterate(g, N, <<>>, step)
  BY <1>1, <1>2, <1>3, Iterates
<1>6. \A n \in 1 .. N : g[n] = IF Public(labels, NamesInOrder[n])
                               THEN Append(g[n - 1], NamesInOrder[n]) ELSE g[n - 1]
  <2> TAKE n \in 1 .. N
  <2>1. n - 1 \in 0 .. N /\ g[n - 1] \in S
    BY <1>1
  <2> QED
    BY <1>4, <1>5, <2>1 DEF IsIterate
<1>7. g = [n \in 0 .. N |->
             IF n = 0 THEN <<>>
             ELSE IF Public(labels, NamesInOrder[n]) THEN Append(g[n - 1], NamesInOrder[n])
             ELSE g[n - 1]]
  <2>1. \A n \in 0 .. N : n # 0 => n \in 1 .. N
    BY <1>1
  <2>2. g[0] = <<>>
    BY <1>5 DEF IsIterate
  <2>3. g = [n \in 0 .. N |-> g[n]]
    OBVIOUS
  <2> QED
    BY <1>6, <2>1, <2>2, <2>3
<1>8. \E u : /\ u = [n \in 0 .. N |->
                       IF n = 0 THEN <<>>
                       ELSE IF Public(labels, NamesInOrder[n]) THEN Append(u[n - 1], NamesInOrder[n])
                       ELSE u[n - 1]]
             /\ PublicLabels(labels) = u[N]
  BY <1>7 DEF PublicLabels, N
<1>9. PICK u : /\ u = [n \in 0 .. N |->
                         IF n = 0 THEN <<>>
                         ELSE IF Public(labels, NamesInOrder[n]) THEN Append(u[n - 1], NamesInOrder[n])
                         ELSE u[n - 1]]
               /\ PublicLabels(labels) = u[N]
  BY <1>8
<1>10. 0 \in 0 .. N /\ \A n \in 1 .. N : n \in 0 .. N /\ n # 0
  BY <1>1
<1>11. u[0] = <<>> /\ \A n \in 1 .. N :
                        u[n] = IF Public(labels, NamesInOrder[n])
                               THEN Append(u[n - 1], NamesInOrder[n]) ELSE u[n - 1]
  BY <1>9, <1>10
<1> QED
  BY <1>9, <1>11 DEF N

Listed(labels, s, n) ==
  /\ s \in Seq(DOMAIN Spelling)
  /\ \A i \in 1 .. Len(s) : \E j \in 1 .. n : s[i] = NamesInOrder[j] /\ s[i] \in DOMAIN labels
  /\ \A i, j \in 1 .. Len(s) : s[i] = s[j] => i = j

LEMMA PublicListed ==
  ASSUME NEW labels
  PROVE  Listed(labels, PublicLabels(labels), Len(NamesInOrder))
<1> DEFINE N == Len(NamesInOrder)
<1>1. N \in Nat /\ \A n \in 1 .. N : NamesInOrder[n] \in DOMAIN Spelling
  BY SpellingAssumption
<1>2. PICK u : /\ PublicLabels(labels) = u[N] /\ u[0] = <<>>
               /\ \A n \in 1 .. N : u[n] = IF Public(labels, NamesInOrder[n])
                                           THEN Append(u[n - 1], NamesInOrder[n]) ELSE u[n - 1]
  BY PublicUnfolds
<1> DEFINE H == {n \in 0 .. N : Listed(labels, u[n], n)}
<1>3. 0 \in H
  <2>1. <<>> \in Seq(DOMAIN Spelling) /\ Len(<<>>) = 0
    OBVIOUS
  <2>2. Listed(labels, u[0], 0)
    BY <1>2, <2>1 DEF Listed
  <2> QED
    BY <1>1, <2>2
<1>4. ASSUME NEW n \in 1 .. N, n - 1 \in H PROVE n \in H
  <2> DEFINE s == u[n - 1]
             x == NamesInOrder[n]
  <2>1. Listed(labels, s, n - 1)
    BY <1>4
  <2> HIDE DEF s
  <2>2. /\ s \in Seq(DOMAIN Spelling) /\ Len(s) \in Nat /\ n \in 1 .. n /\ n \in 0 .. N
        /\ \A j \in 1 .. n - 1 : j \in 1 .. n /\ j \in 1 .. N /\ j # n
    BY <1>1, <2>1 DEF Listed
  <2>3. CASE ~ Public(labels, x)
    <3>1. u[n] = s
      BY <1>2, <2>3 DEF s
    <3>2. Listed(labels, s, n)
      BY <2>1, <2>2 DEF Listed
    <3> QED
      BY <2>2, <3>1, <3>2
  <2>4. CASE Public(labels, x)
    <3> DEFINE t == Append(s, x)
    <3>1. u[n] = t
      BY <1>2, <2>4 DEF s
    <3>2. /\ t \in Seq(DOMAIN Spelling) /\ Len(t) = Len(s) + 1 /\ t[Len(s) + 1] = x
          /\ \A i \in 1 .. Len(s) : t[i] = s[i]
      BY <1>1, <2>2
    <3> HIDE DEF t
    <3>3. x \in DOMAIN labels
      BY <2>4 DEF Public
    <3>4. \A i \in 1 .. Len(s) : s[i] # x
      <4> SUFFICES ASSUME NEW i \in 1 .. Len(s), s[i] = x PROVE FALSE
        OBVIOUS
      <4>1. PICK j \in 1 .. n - 1 : s[i] = NamesInOrder[j]
        BY <2>1 DEF Listed
      <4>2. Spelling[NamesInOrder[j]] = Spelling[NamesInOrder[n]] /\ j \in 1 .. N /\ j # n
        BY <2>2, <4>1
      <4> QED
        BY <4>2, SpellingAssumption
    <3>5. \A i \in 1 .. Len(t) : i \in 1 .. Len(s) \/ i = Len(s) + 1
      BY <2>2, <3>2
    <3>6. \A i \in 1 .. Len(t) : \E j \in 1 .. n : t[i] = NamesInOrder[j] /\ t[i] \in DOMAIN labels
      <4> TAKE i \in 1 .. Len(t)
      <4>1. CASE i \in 1 .. Len(s)
        <5>1. PICK j \in 1 .. n - 1 : s[i] = NamesInOrder[j] /\ s[i] \in DOMAIN labels
          BY <2>1, <4>1 DEF Listed
        <5> QED
          BY <2>2, <3>2, <4>1, <5>1
      <4>2. CASE i = Len(s) + 1
        BY <2>2, <3>2, <3>3, <4>2
      <4> QED
        BY <3>5, <4>1, <4>2
    <3>7. \A i, j \in 1 .. Len(t) : t[i] = t[j] => i = j
      <4>1. \A i, j \in 1 .. Len(s) : s[i] = s[j] => i = j
        BY <2>1 DEF Listed
      <4> QED
        BY <3>2, <3>4, <3>5, <4>1
    <3>8. Listed(labels, t, n)
      BY <3>2, <3>6, <3>7 DEF Listed
    <3> QED
      BY <2>2, <3>1, <3>8
  <2> QED
    BY <2>3, <2>4
<1> HIDE DEF H, N
<1>5. N \in 0 .. N
  BY <1>1
<1>6. N \in H
  BY <1>1, <1>3, <1>4, <1>5, UpTo0
<1> QED
  BY <1>2, <1>6 DEF H, N

(* What the rest needs to know of the names in the table.                  *)
Spelled(names) ==
  /\ names \in Seq(DOMAIN Spelling)
  /\ \A i \in 1 .. Len(names) : Spelling[names[i]] \in Seq(Letters) \ {<<>>}
  /\ \A i, j \in 1 .. Len(names) : Spelling[names[i]] = Spelling[names[j]] => i = j

LEMMA PublicSpelled ==
  ASSUME NEW labels
  PROVE  /\ Spelled(PublicLabels(labels))
         /\ \A i \in 1 .. Len(PublicLabels(labels)) : PublicLabels(labels)[i] \in DOMAIN labels
<1>1. PICK s : s = PublicLabels(labels)
  OBVIOUS
<1>2. Listed(labels, s, Len(NamesInOrder))
  BY <1>1, PublicListed
<1>3. \A i \in 1 .. Len(s) : Spelling[s[i]] \in Seq(Letters) \ {<<>>}
  BY <1>2, SpellingAssumption DEF Listed
<1>4. ASSUME NEW i \in 1 .. Len(s), NEW j \in 1 .. Len(s), Spelling[s[i]] = Spelling[s[j]]
      PROVE  i = j
  <2>1. PICK a \in 1 .. Len(NamesInOrder) : s[i] = NamesInOrder[a]
    BY <1>2 DEF Listed
  <2>2. PICK b \in 1 .. Len(NamesInOrder) : s[j] = NamesInOrder[b]
    BY <1>2 DEF Listed
  <2>3. a = b
    BY <1>4, <2>1, <2>2, SpellingAssumption
  <2> QED
    BY <1>2, <2>1, <2>2, <2>3 DEF Listed
<1>5. Spelled(s)
  BY <1>2, <1>3, <1>4 DEF Spelled, Listed
<1> QED
  BY <1>1, <1>2, <1>5 DEF Listed

LEMMA TotalsUnfold ==
  ASSUME NEW names, Spelled(names)
  PROVE  \E off : /\ off[0] = 11 /\ \A n \in 0 .. Len(names) : off[n] \in Nat
                  /\ \A n \in 1 .. Len(names) : off[n] = off[n - 1] + Len(Spelling[names[n]]) + 5
                  /\ TableSize(names) = off[Len(names)]
<1> DEFINE N == Len(names)
           step == [n \in 1 .. N |-> [s \in Nat |-> s + Len(Spelling[names[n]]) + 5]]
<1>1. N \in Nat /\ \A n \in 1 .. N : Len(Spelling[names[n]]) \in Nat
  BY DEF Spelled
<1>2. step \in [1 .. N -> [Nat -> Nat]]
  BY <1>1
<1>4. \A n \in 1 .. N, s \in Nat : step[n][s] = s + Len(Spelling[names[n]]) + 5
  OBVIOUS
<1> HIDE DEF step, N
<1>5. PICK g \in [0 .. N -> Nat] : IsIterate(g, N, 11, step)
  BY <1>1, <1>2, Iterates
<1>6. \A n \in 1 .. N : g[n] = g[n - 1] + Len(Spelling[names[n]]) + 5
  <2> TAKE n \in 1 .. N
  <2>1. n - 1 \in 0 .. N /\ g[n - 1] \in Nat
    BY <1>1
  <2> QED
    BY <1>4, <1>5, <2>1 DEF IsIterate
<1>7. g = [n \in 0 .. N |-> IF n = 0 THEN 11 ELSE g[n - 1] + Len(Spelling[names[n]]) + 5]
  <2>1. \A n \in 0 .. N : n # 0 => n \in 1 .. N
    BY <1>1
  <2>2. g[0] = 11
    BY <1>5 DEF IsIterate
  <2>3. g = [n \in 0 .. N |-> g[n]]
    OBVIOUS
  <2> QED
    BY <1>6, <2>1, <2>2, <2>3
<1>8. \E u : /\ u = [n \in 0 .. N |-> IF n = 0 THEN 11 ELSE u[n - 1] + Len(Spelling[names[n]]) + 5]
             /\ TableSize(names) = u[N]
  BY <1>7 DEF TableSize, TableSizeFrom, N
<1>9. PICK u : /\ u = [n \in 0 .. N |->
                         IF n = 0 THEN 11 ELSE u[n - 1] + Len(Spelling[names[n]]) + 5]
               /\ TableSize(names) = u[N]
  BY <1>8
<1>10. 0 \in 0 .. N /\ \A n \in 1 .. N : n \in 0 .. N /\ n # 0
  BY <1>1
<1>11. u[0] = 11 /\ \A n \in 1 .. N : u[n] = u[n - 1] + Len(Spelling[names[n]]) + 5
  BY <1>9, <1>10
<1> DEFINE H == {n \in 0 .. N : u[n] \in Nat}
<1>12. 0 \in H /\ \A n \in 1 .. N : n - 1 \in H => n \in H
  <2>1. 0 \in H
    BY <1>10, <1>11
  <2>2. ASSUME NEW n \in 1 .. N, n - 1 \in H PROVE n \in H
    <3>1. u[n - 1] \in Nat /\ Len(Spelling[names[n]]) \in Nat
      BY <1>1, <2>2
    <3>2. u[n] = u[n - 1] + Len(Spelling[names[n]]) + 5
      BY <1>11
    <3>3. u[n] \in Nat
      BY <3>1, <3>2
    <3> QED
      BY <1>10, <3>3
  <2> QED
    BY <2>1, <2>2
<1> HIDE DEF H
<1>13. 0 .. N \subseteq H
  BY <1>1, <1>12, UpTo0
<1> QED
  BY <1>9, <1>11, <1>13 DEF N, H

(* One symbol of the table.                                                *)
Width(name) == Len(Spelling[name]) + 5
(* The bytes of a symbol: its name, its end, a word, and where it is.      *)
IsEntry(e, s, L, a) ==
  /\ L = Len(s) /\ L \in Nat /\ Len(e) = L + 5
  /\ \A i \in 1 .. L : e[i] = s[i]
  /\ e[L + 1] = 0 /\ (~ TooBig(a) => 256 * e[L + 4] + e[L + 5] = a)
LEMMA EntryBytes ==
  ASSUME NEW name, Spelling[name] \in Seq(Letters), NEW address \in Nat, NEW total \in Nat,
         NEW L, L = Len(Spelling[name]),
         NEW e, e = SymbolEntry(name, address, total)
  PROVE  /\ e \in Seq(Int) /\ L \in Nat /\ Len(e) = Width(name) /\ Width(name) = L + 5
         /\ IsEntry(e, Spelling[name], L, total + address)
<1>1. PICK s : s = Spelling[name]
  OBVIOUS
<1>2. s \in Seq(Letters) /\ s \in Seq(Int) /\ L = Len(s) /\ L \in Nat
  <2>1. Letters \subseteq Int
    BY DEF Letters
  <2>2. s \in Seq(Letters)
    BY <1>1
  <2>3. s \in Seq(Int)
    BY <2>1, <2>2, SeqMonotonic
  <2> QED
    BY <1>1, <2>2, <2>3
<1>3. PICK v : v = Word(address)
  OBVIOUS
<1>4. PICK w : w = Word(total + address)
  OBVIOUS
<1>5. v \in Seq(Int) /\ Len(v) = 2
  BY <1>3, WordsBack
<1>6. /\ w \in Seq(Int) /\ Len(w) = 2
      /\ ~ TooBig(total + address) => 256 * w[1] + w[2] = total + address
  <2>1. total + address \in Nat
    OBVIOUS
  <2> QED
    BY <1>4, <2>1, WordsBack
<1>7. PICK a : a = s \o <<0>>
  OBVIOUS
<1>8. PICK b : b = v \o w
  OBVIOUS
<1>9. e = a \o b
  BY <1>1, <1>3, <1>4, <1>7, <1>8 DEF SymbolEntry
<1>10. IsSeq(s) /\ IsSeq(v) /\ IsSeq(w) /\ IsSeq(<<0>>) /\ <<0>> \in Seq(Int)
       /\ Len(<<0>>) = 1 /\ <<0>>[1] = 0
  <2>1. <<0>> \in Seq(Int)
    OBVIOUS
  <2> QED
    BY <1>2, <1>5, <1>6, <2>1 DEF IsSeq
<1>11. /\ a \in Seq(Int) /\ b \in Seq(Int) /\ e \in Seq(Int)
       /\ IsSeq(a) /\ IsSeq(b)
  <2>1. a \in Seq(Int) /\ b \in Seq(Int)
    BY <1>2, <1>5, <1>6, <1>7, <1>8, <1>10
  <2>2. e \in Seq(Int)
    BY <1>9, <2>1
  <2> QED
    BY <2>1, <2>2 DEF IsSeq
<1>12. Len(a) = L + 1 /\ \A i \in 1 .. L : a[i] = s[i]
  BY <1>2, <1>7, <1>10, ConcatSeq
<1>13. a[L + 1] = 0
  <2>1. \A j \in 1 .. Len(<<0>>) : a[Len(s) + j] = <<0>>[j]
    BY <1>7, <1>10, ConcatSeq
  <2> QED
    BY <1>2, <1>10, <2>1
<1>14. Len(b) = 4 /\ \A j \in 1 .. 2 : b[2 + j] = w[j]
  <2>1. Len(b) = Len(v) + Len(w) /\ \A j \in 1 .. Len(w) : b[Len(v) + j] = w[j]
    BY <1>8, <1>10, ConcatSeq
  <2> QED
    BY <1>5, <1>6, <2>1
<1>15. /\ Len(e) = Len(a) + Len(b) /\ \A j \in 1 .. Len(a) : e[j] = a[j]
       /\ \A j \in 1 .. Len(b) : e[Len(a) + j] = b[j]
  BY <1>9, <1>11, ConcatSeq
<1>16. Len(e) = L + 5 /\ e[L + 1] = 0 /\ \A i \in 1 .. L : e[i] = s[i]
  <2>1. L + 1 \in 1 .. Len(a) /\ \A i \in 1 .. L : i \in 1 .. Len(a)
    BY <1>2, <1>12
  <2>2. Len(e) = L + 5
    BY <1>2, <1>12, <1>14, <1>15
  <2>3. e[L + 1] = 0
    BY <1>13, <1>15, <2>1
  <2>4. \A i \in 1 .. L : e[i] = s[i]
    BY <1>12, <1>15, <2>1
  <2> QED
    BY <2>2, <2>3, <2>4
<1>17. e[L + 4] = w[1] /\ e[L + 5] = w[2]
  <2>1. e[(L + 1) + 3] = b[3] /\ e[(L + 1) + 4] = b[4]
    BY <1>12, <1>14, <1>15
  <2>2. b[2 + 1] = w[1] /\ b[2 + 2] = w[2]
    BY <1>14
  <2> QED
    BY <1>2, <2>1, <2>2
<1>18. Width(name) = L + 5
  BY DEF Width
<1>19. IsEntry(e, s, L, total + address)
  BY <1>2, <1>6, <1>16, <1>17 DEF IsEntry
<1> QED
  BY <1>1, <1>2, <1>11, <1>16, <1>18, <1>19

IsTable(by, labels, names, total) ==
  /\ by[0] = <<>> /\ SymbolTable(labels).bytes = by[Len(names)]
  /\ \A n \in 1 .. Len(names) :
       by[n] = by[n - 1] \o SymbolEntry(names[n], labels[names[n]].address, total)

LEMMA BytesUnfold ==
  ASSUME NEW labels, NEW names, names = PublicLabels(labels), Spelled(names),
         NEW total, total = TableSize(names), total \in Nat,
         \A i \in 1 .. Len(names) : labels[names[i]].address \in Nat
  PROVE  \E by : IsTable(by, labels, names, total)
<1> DEFINE N == Len(names)
           S == Seq(Int)
           E(n) == SymbolEntry(names[n], labels[names[n]].address, total)
           step == [n \in 1 .. N |-> [s \in S |-> s \o E(n)]]
<1>1. N \in Nat /\ \A n \in 1 .. N : E(n) \in S
  <2>1. ASSUME NEW n \in 1 .. N PROVE E(n) \in S
    <3>1. Spelling[names[n]] \in Seq(Letters) /\ labels[names[n]].address \in Nat
      BY DEF Spelled
    <3> QED
      BY <3>1, EntryBytes
  <2> QED
    BY <2>1 DEF Spelled
<1> HIDE DEF E
<1>2. step \in [1 .. N -> [S -> S]]
  <2>1. \A n \in 1 .. N, s \in S : s \o E(n) \in S
    BY <1>1
  <2> HIDE DEF S, N
  <2> QED
    BY <2>1
<1>3. <<>> \in S
  OBVIOUS
<1>4. \A n \in 1 .. N, s \in S : step[n][s] = s \o E(n)
  OBVIOUS
<1> HIDE DEF step, S, N
<1>5. PICK g \in [0 .. N -> S] : IsIterate(g, N, <<>>, step)
  BY <1>1, <1>2, <1>3, Iterates
<1>6. \A n \in 1 .. N : g[n] = g[n - 1] \o E(n)
  <2> TAKE n \in 1 .. N
  <2>1. n - 1 \in 0 .. N /\ g[n - 1] \in S
    BY <1>1
  <2> QED
    BY <1>4, <1>5, <2>1 DEF IsIterate
<1>7. g = [n \in 0 .. N |-> IF n = 0 THEN <<>> ELSE g[n - 1] \o E(n)]
  <2>1. \A n \in 0 .. N : n # 0 => n \in 1 .. N
    BY <1>1
  <2>2. g[0] = <<>>
    BY <1>5 DEF IsIterate
  <2>3. g = [n \in 0 .. N |-> g[n]]
    OBVIOUS
  <2> QED
    BY <1>6, <2>1, <2>2, <2>3
<1>8. \E u : /\ u = [n \in 0 .. N |->
                       IF n = 0 THEN <<>>
                       ELSE u[n - 1] \o SymbolEntry(names[n], labels[names[n]].address, total)]
             /\ SymbolTable(labels).bytes = u[N]
  BY <1>7 DEF SymbolTable, N, E
<1>9. PICK u : /\ u = [n \in 0 .. N |->
                         IF n = 0 THEN <<>>
                         ELSE u[n - 1] \o SymbolEntry(names[n], labels[names[n]].address, total)]
               /\ SymbolTable(labels).bytes = u[N]
  BY <1>8
<1>10. 0 \in 0 .. N /\ \A n \in 1 .. N : n \in 0 .. N /\ n # 0
  BY <1>1
<1>11. u[0] = <<>> /\ \A n \in 1 .. N :
         u[n] = u[n - 1] \o SymbolEntry(names[n], labels[names[n]].address, total)
  BY <1>9, <1>10
<1>12. IsTable(u, labels, names, total)
  BY <1>9, <1>11 DEF N, IsTable
<1> QED
  BY <1>12

(* The table, symbol by symbol: off is where in the file each one begins,  *)
(* less one.                                                               *)
Offsets(off, names) ==
  /\ off[0] = 11
  /\ \A n \in 0 .. Len(names) : off[n] \in Nat
  /\ \A n \in 1 .. Len(names) : off[n] = off[n - 1] + Width(names[n])
  /\ \A n \in 0 .. Len(names) : \A m \in 0 .. n : 11 <= off[m] /\ off[m] <= off[n]
EntryOf(labels, name, total) == SymbolEntry(name, labels[name].address, total)
Lists(table, labels, names, n, off, total) ==
  /\ table \in Seq(Int) /\ 11 + Len(table) = off[n]
  /\ \A m \in 1 .. n : \A i \in 1 .. Width(names[m]) :
       table[(off[m - 1] - 11) + i] = EntryOf(labels, names[m], total)[i]

LEMMA EntryLength ==
  ASSUME NEW name, Spelling[name] \in Seq(Letters), NEW address \in Nat, NEW total \in Nat,
         NEW e, e = SymbolEntry(name, address, total)
  PROVE  e \in Seq(Int) /\ Len(e) = Width(name)
<1>1. e \in Seq(Int)
  BY EntryBytes
<1>2. Len(e) = Width(name)
  BY EntryBytes
<1> QED
  BY <1>1, <1>2

LEMMA InTable ==
  ASSUME NEW p \in Nat, NEW w \in Nat, NEW i \in 1 .. w, NEW n \in Nat,
         11 <= p, p + w <= 11 + n
  PROVE  (p - 11) + i \in 1 .. n
OBVIOUS

LEMMA TotalOffsets ==
  ASSUME NEW names, Spelled(names)
  PROVE  \E off : Offsets(off, names) /\ TableSize(names) = off[Len(names)]
<1> DEFINE N == Len(names)
<1>1. PICK off : /\ off[0] = 11 /\ \A n \in 0 .. N : off[n] \in Nat
                 /\ \A n \in 1 .. N : off[n] = off[n - 1] + Len(Spelling[names[n]]) + 5
                 /\ TableSize(names) = off[N]
  BY TotalsUnfold
<1>2. N \in Nat /\ \A n \in 1 .. N : Len(Spelling[names[n]]) \in Nat
  BY DEF Spelled
<1>3. \A n \in 1 .. N : Width(names[n]) \in Nat /\ off[n] = off[n - 1] + Width(names[n])
  <2> TAKE n \in 1 .. N
  <2>1. n - 1 \in 0 .. N /\ n \in 0 .. N
    BY <1>2
  <2>2. PICK w : w = Len(Spelling[names[n]])
    OBVIOUS
  <2>3. w \in Nat /\ off[n] = off[n - 1] + w + 5 /\ off[n - 1] \in Nat
    BY <1>1, <1>2, <2>1, <2>2
  <2>4. Width(names[n]) = w + 5
    BY <2>2 DEF Width
  <2> QED
    BY <2>3, <2>4
<1> DEFINE H == {n \in 0 .. N : \A m \in 0 .. n : 11 <= off[m] /\ off[m] <= off[n]}
<1> HIDE DEF N
<1>4. 0 \in H
  BY <1>1, <1>2
<1>5. ASSUME NEW n \in 1 .. N, n - 1 \in H PROVE n \in H
  <2>1. \A m \in 0 .. n - 1 : 11 <= off[m] /\ off[m] <= off[n - 1]
    BY <1>5
  <2>2. off[n] = off[n - 1] + Width(names[n]) /\ Width(names[n]) \in Nat
    BY <1>3
  <2>3. n \in 0 .. N /\ n - 1 \in 0 .. n - 1 /\ n - 1 \in 0 .. N /\ n - 1 \in Nat
    BY <1>2
  <2>4. off[n] \in Nat /\ off[n - 1] \in Nat /\ off[n - 1] <= off[n] /\ 11 <= off[n]
    BY <1>1, <2>1, <2>2, <2>3
  <2>5. ASSUME NEW m \in 0 .. n PROVE 11 <= off[m] /\ off[m] <= off[n]
    <3>1. CASE m = n
      BY <2>4, <3>1
    <3>2. CASE m # n
      <4>1. m \in 0 .. n - 1 /\ m \in 0 .. N
        BY <1>2, <3>2
      <4>2. off[m] \in Nat /\ 11 <= off[m] /\ off[m] <= off[n - 1]
        BY <1>1, <2>1, <4>1
      <4> QED
        BY <2>4, <4>2
    <3> QED
      BY <3>1, <3>2
  <2> QED
    BY <2>3, <2>5
<1> HIDE DEF H
<1>6. 0 .. N \subseteq H
  BY <1>2, <1>4, <1>5, UpTo0
<1>7. \A n \in 0 .. N : \A m \in 0 .. n : 11 <= off[m] /\ off[m] <= off[n]
  BY <1>6 DEF H
<1>8. Offsets(off, names)
  BY <1>1, <1>3, <1>7 DEF Offsets, N
<1> QED
  BY <1>1, <1>8 DEF N

LEMMA NextListed ==
  ASSUME NEW labels, NEW names, Spelled(names), NEW off, Offsets(off, names), NEW total \in Nat,
         NEW n \in 1 .. Len(names), labels[names[n]].address \in Nat,
         NEW table, Lists(table, labels, names, n - 1, off, total),
         NEW longer, longer = table \o EntryOf(labels, names[n], total)
  PROVE  Lists(longer, labels, names, n, off, total)
<1>1. PICK e : e = EntryOf(labels, names[n], total)
  OBVIOUS
<1>2. Len(names) \in Nat /\ Spelling[names[n]] \in Seq(Letters)
  BY DEF Spelled
<1>3. e \in Seq(Int) /\ Len(e) = Width(names[n])
  <2>1. PICK address \in Nat : address = labels[names[n]].address
    OBVIOUS
  <2>2. PICK name : name = names[n]
    OBVIOUS
  <2>3. Spelling[name] \in Seq(Letters) /\ e = SymbolEntry(name, address, total)
    BY <1>1, <1>2, <2>1, <2>2 DEF EntryOf
  <2> QED
    BY <2>1, <2>2, <2>3, EntryLength
<1>4. table \in Seq(Int) /\ 11 + Len(table) = off[n - 1] /\ Len(table) \in Nat
  BY DEF Lists
<1>5. /\ IsSeq(table) /\ IsSeq(e) /\ Len(e) \in Nat
      /\ longer \in Seq(Int)
  BY <1>1, <1>3, <1>4 DEF IsSeq
<1>6. /\ Len(longer) = Len(table) + Len(e)
      /\ \A j \in 1 .. Len(table) : longer[j] = table[j]
      /\ \A j \in 1 .. Len(e) : longer[Len(table) + j] = e[j]
  BY <1>1, <1>5, ConcatSeq
<1>7. off[n] = off[n - 1] + Width(names[n])
  BY DEF Offsets
<1>8. 11 + Len(longer) = off[n]
  BY <1>3, <1>4, <1>5, <1>6, <1>7
<1>9. ASSUME NEW m \in 1 .. n, NEW i \in 1 .. Width(names[m])
      PROVE  longer[(off[m - 1] - 11) + i] = EntryOf(labels, names[m], total)[i]
  <2>1. CASE m = n
    <3>1. i \in 1 .. Len(e) /\ off[m - 1] - 11 = Len(table)
      BY SMTT(30), <1>3, <1>4, <1>9, <2>1
    <3> QED
      BY <1>1, <1>6, <2>1, <3>1
  <2>2. CASE m # n
    <3>1. m \in 1 .. n - 1 /\ m \in 1 .. Len(names) /\ m - 1 \in 0 .. Len(names)
          /\ m \in 0 .. Len(names)
      BY <1>2, <2>2
    <3>2. table[(off[m - 1] - 11) + i] = EntryOf(labels, names[m], total)[i]
      BY <1>9, <3>1 DEF Lists
    <3>3. off[m] = off[m - 1] + Width(names[m]) /\ 11 <= off[m - 1]
          /\ off[m] \in Nat /\ off[m - 1] \in Nat
      <4>1. m - 1 \in 0 .. m - 1
        BY <3>1
      <4> QED
        BY <3>1, <4>1 DEF Offsets
    <3>4. Width(names[m]) \in Nat
      BY <3>1 DEF Width, Spelled
    <3>5. off[m] <= off[n - 1]
      <4>1. n - 1 \in 0 .. Len(names) /\ m \in 0 .. n - 1
        BY <1>2, <3>1
      <4> QED
        BY <4>1 DEF Offsets
    <3>6. (off[m - 1] - 11) + i \in 1 .. Len(table)
      <4>1. PICK p \in Nat : p = off[m - 1]
        BY <3>3
      <4>2. PICK w \in Nat : w = Width(names[m])
        BY <3>4
      <4>3. i \in 1 .. w /\ 11 <= p /\ p + w <= 11 + Len(table)
        BY <1>4, <1>9, <3>3, <3>5, <4>1, <4>2
      <4>4. (p - 11) + i \in 1 .. Len(table)
        BY <1>4, <4>1, <4>2, <4>3, InTable
      <4> QED
        BY <4>1, <4>4
    <3> QED
      BY <1>6, <3>2, <3>6
  <2> QED
    BY <2>1, <2>2
<1> QED
  BY <1>5, <1>8, <1>9 DEF Lists

LEMMA TableListed ==
  ASSUME NEW labels, \A name \in DOMAIN labels : labels[name].address \in Nat,
         NEW names, names = PublicLabels(labels), NEW total, total = TableSize(names)
  PROVE  /\ Spelled(names) /\ total \in Nat
         /\ \E off : /\ Offsets(off, names) /\ total = off[Len(names)]
                     /\ Lists(SymbolTable(labels).bytes, labels, names, Len(names), off, total)
<1> DEFINE N == Len(names)
<1>1. Spelled(names) /\ \A i \in 1 .. N : labels[names[i]].address \in Nat
  BY PublicSpelled
<1>2. PICK off : Offsets(off, names) /\ total = off[N]
  BY <1>1, TotalOffsets
<1>3. N \in Nat
  BY <1>1 DEF Spelled
<1>4. total \in Nat
  BY <1>2, <1>3 DEF Offsets
<1>5. PICK by : /\ by[0] = <<>> /\ SymbolTable(labels).bytes = by[N]
                /\ \A n \in 1 .. N :
                     by[n] = by[n - 1] \o SymbolEntry(names[n], labels[names[n]].address, total)
  <2>1. PICK by : IsTable(by, labels, names, total)
    BY <1>1, <1>4, BytesUnfold
  <2> QED
    BY <2>1 DEF IsTable
<1> DEFINE H == {n \in 0 .. N : Lists(by[n], labels, names, n, off, total)}
<1> HIDE DEF N
<1>6. 0 \in H
  <2>1. <<>> \in Seq(Int) /\ Len(<<>>) = 0 /\ off[0] = 11
    BY <1>2 DEF Offsets
  <2>2. Lists(by[0], labels, names, 0, off, total)
    BY <1>5, <2>1 DEF Lists
  <2> QED
    BY <1>3, <2>2
<1>7. ASSUME NEW n \in 1 .. N, n - 1 \in H PROVE n \in H
  <2>1. Lists(by[n - 1], labels, names, n - 1, off, total)
    BY <1>7
  <2>2. by[n] = by[n - 1] \o EntryOf(labels, names[n], total)
    BY <1>5 DEF EntryOf
  <2>3. n \in 1 .. Len(names) /\ labels[names[n]].address \in Nat
    BY <1>1 DEF N
  <2>4. PICK table : table = by[n - 1]
    OBVIOUS
  <2>5. PICK longer : longer = by[n]
    OBVIOUS
  <2>6. Lists(longer, labels, names, n, off, total)
    <3>1. Lists(table, labels, names, n - 1, off, total)
          /\ longer = table \o EntryOf(labels, names[n], total)
      BY <2>1, <2>2, <2>4, <2>5
    <3> QED
      BY <1>1, <1>2, <1>4, <2>3, <3>1, NextListed
  <2> QED
    BY <1>3, <2>5, <2>6
<1> HIDE DEF H
<1>8. N \in H
  BY <1>3, <1>6, <1>7, UpTo0
<1>9. Lists(SymbolTable(labels).bytes, labels, names, N, off, total)
  BY <1>5, <1>8 DEF H
<1> QED
  BY <1>1, <1>2, <1>4, <1>9 DEF N

-----------------------------------------------------------------------------
(* The disassembler's loop, one turn: a name, its end and two words.       *)
LEMMA ZeroNoLetter == 0 \notin Letters
BY DEF Letters

LEMMA PartOf ==
  ASSUME NEW S, NEW s, NEW m \in Int, NEW n \in Int, \A i \in m .. n : s[i] \in S,
         NEW t, t = SubSeq(s, m, n)
  PROVE  /\ t \in Seq(S) /\ Len(t) = IF m <= n THEN n - m + 1 ELSE 0
         /\ \A i \in 1 .. n - m + 1 : t[i] = s[m + i - 1]
<1>1. t \in Seq(S)
  BY SubSeqProperties
<1>2. Len(t) = IF m <= n THEN n - m + 1 ELSE 0
  BY SubSeqProperties
<1>3. \A i \in 1 .. n - m + 1 : t[i] = s[m + i - 1]
  BY SubSeqProperties
<1> QED
  BY <1>1, <1>2, <1>3

IsRead(one, s, next, a) == one.ok /\ one.used = next /\ one.name = s /\ one.value = a

HasSymbol(f, used, s, L, next, a) ==
  /\ L = Len(s) /\ next = used + (L + 5) /\ a = 256 * f[used + (L + 4)] + f[used + (L + 5)]
  /\ \A i \in 1 .. L : f[used + i] = s[i]
  /\ f[used + (L + 1)] = 0

LEMMA SymbolRead ==
  ASSUME NEW f, IsSeq(f), NEW size \in Nat, size <= Len(f), NEW used \in Nat,
         NEW s, s \in Seq(Letters), s # <<>>, NEW L, NEW next, NEW a,
         HasSymbol(f, used, s, L, next, a), next <= size, NEW one, one = OneSymbol(f, size, used)
  PROVE  IsRead(one, s, next, a)
<1>0. /\ L = Len(s) /\ next = used + (L + 5) /\ a = 256 * f[used + (L + 4)] + f[used + (L + 5)]
      /\ \A i \in 1 .. L : f[used + i] = s[i]
      /\ f[used + (L + 1)] = 0
  BY DEF HasSymbol
<1> DEFINE zeros == {k1 \in used + 1 .. size : k1 <= Len(f) /\ f[k1] = 0}
           z == used + (L + 1)
<1>1. L \in Nat \ {0} /\ Len(f) \in Nat
  <2>1. Len(s) \in Nat \ {0}
    BY <1>0, EmptySeq
  <2> QED
    BY <1>0, <2>1, SeqFacts
<1>2. \A i \in 1 .. L : s[i] \in Letters
  BY <1>0
<1>3. \A i \in 1 .. L : f[used + i] # 0
  <2> TAKE i \in 1 .. L
  <2>1. s[i] \in Letters /\ f[used + i] = s[i]
    BY <1>0, <1>2
  <2>2. f[used + i] \in Letters
    BY <2>1
  <2> QED
    BY <2>2, ZeroNoLetter
<1>4. z \in zeros
  BY <1>0, <1>1
<1>5. \A k1 \in zeros : z <= k1
  <2> SUFFICES ASSUME NEW k1 \in zeros, k1 < z PROVE FALSE
    BY <1>0, <1>1
  <2>1. k1 - used \in 1 .. L /\ used + (k1 - used) = k1
    BY <1>0, <1>1
  <2> QED
    BY <1>3, <2>1
<1>6. zeros \subseteq Nat /\ zeros # {}
  <2>1. \A k1 \in used + 1 .. size : k1 \in Nat
    OBVIOUS
  <2> QED
    BY <1>4, <2>1
<1>7. Least(zeros) = z
  <2>1. PICK m : m = Least(zeros)
    OBVIOUS
  <2> HIDE DEF zeros, z
  <2>2. m \in zeros /\ \A j \in zeros : m <= j
    BY <1>6, <2>1, LeastOf
  <2>3. m \in Nat /\ z \in Nat /\ m <= z /\ z <= m
    BY <1>4, <1>5, <1>6, <2>2
  <2> QED
    BY <2>1, <2>3
<1>8. SubSeq(f, used + 1, z - 1) = s
  <2>1. PICK t : t = SubSeq(f, used + 1, z - 1)
    OBVIOUS
  <2>2. used + 1 \in Int /\ z - 1 \in Int /\ z - 1 = used + L
    BY <1>0, <1>1
  <2>3. \A i \in used + 1 .. z - 1 : f[i] \in Letters
    <3> TAKE i \in used + 1 .. z - 1
    <3>1. i - used \in 1 .. L /\ used + (i - used) = i
      BY <1>1, <2>2
    <3> QED
      BY <1>0, <1>2, <3>1
  <2>4. PICK m \in Int : m = used + 1
    BY <2>2
  <2>5. PICK n \in Int : n = z - 1
    BY <2>2
  <2>6. /\ t \in Seq(Letters) /\ Len(t) = IF m <= n THEN n - m + 1 ELSE 0
        /\ \A i \in 1 .. n - m + 1 : t[i] = f[m + i - 1]
    <3>1. t = SubSeq(f, m, n) /\ \A i \in m .. n : f[i] \in Letters
      BY <2>1, <2>3, <2>4, <2>5
    <3> QED
      BY <3>1, PartOf
  <2>8. n = used + L /\ n - m + 1 = L /\ m <= n
    BY <1>1, <2>2, <2>4, <2>5
  <2>9. \A i \in 1 .. L : t[i] = s[i]
    <3> TAKE i \in 1 .. L
    <3>1. i \in 1 .. n - m + 1 /\ m + i - 1 = used + i
      BY <1>1, <2>4, <2>8
    <3> QED
      BY <1>0, <2>6, <3>1
  <2>10. Len(t) = L
    BY <2>6, <2>8
  <2>7. t = s
    <3>1. t \in Seq(Letters) /\ s \in Seq(Letters)
      BY <2>6
    <3>2. Len(t) = Len(s) /\ \A i \in 1 .. Len(t) : t[i] = s[i]
      BY <1>0, <2>9, <2>10
    <3> QED
      BY <3>1, <3>2, SeqEqual
  <2> QED
    BY <2>1, <2>7
<1>9. ~ (size - z < 4) /\ ~ (z + 4 > Len(f)) /\ z + 4 = used + (L + 5) /\ z + 3 = used + (L + 4)
      /\ (z + 3) + 1 = used + (L + 5)
  BY <1>0, <1>1
<1> HIDE DEF zeros, z
<1>10. one = [ok |-> TRUE, used |-> z + 4, name |-> s, value |-> WordOf(f, z + 3)]
  BY <1>6, <1>7, <1>8, <1>9 DEF OneSymbol, zeros
<1>11. WordOf(f, z + 3) = 256 * f[used + (L + 4)] + f[used + (L + 5)]
  BY <1>9 DEF WordOf
<1> QED
  BY <1>0, <1>9, <1>10, <1>11 DEF IsRead
-----------------------------------------------------------------------------
(* Header::process turn by turn, from the last byte of the table back.     *)
With(found, one) ==
  [found EXCEPT !.symbols = IF one.name \in DOMAIN @ THEN @ ELSE Put(@, one.name, one.value)]
Turn(from, f, size, used) ==
  IF used = size THEN Found(TRUE, used, <<>>)
  ELSE IF ~ OneSymbol(f, size, used).ok THEN Found(FALSE, used, <<>>)
  ELSE With(from[OneSymbol(f, size, used).used], OneSymbol(f, size, used))
ReadBack(from, f, size, low) == from = [used \in low .. size |-> Turn(from, f, size, used)]

LEMMA SymbolAdvances ==
  ASSUME NEW f, NEW size \in Nat, NEW used \in Nat, NEW one, one = OneSymbol(f, size, used), one.ok
  PROVE  one.used \in used + 1 .. size
<1> DEFINE zeros == {k1 \in used + 1 .. size : k1 <= Len(f) /\ f[k1] = 0}
<1>1. PICK z : z = Least(zeros)
  OBVIOUS
<1>2. ~ (zeros = {} \/ SubSeq(f, used + 1, z - 1) = <<>> \/ size - z < 4 \/ z + 4 > Len(f))
  BY <1>1 DEF OneSymbol
<1>3. one.used = z + 4
  BY <1>1, <1>2 DEF OneSymbol
<1>4. \A k1 \in used + 1 .. size : k1 \in Nat
  OBVIOUS
<1>5. zeros \subseteq Nat
  BY <1>4
<1>6. z \in zeros
  <2> HIDE DEF zeros
  <2> QED
    BY <1>1, <1>2, <1>5, LeastOf
<1>7. z \in used + 1 .. size
  BY <1>6
<1> QED
  BY <1>2, <1>3, <1>7

LEMMA TurnAgrees ==
  ASSUME NEW f, NEW size \in Nat, NEW used \in Nat, used <= size, NEW g, NEW h,
         \A u \in used + 1 .. size : g[u] = h[u]
  PROVE  Turn(g, f, size, used) = Turn(h, f, size, used)
<1>1. PICK one : one = OneSymbol(f, size, used)
  OBVIOUS
<1>2. one.ok => g[one.used] = h[one.used]
  BY <1>1, SymbolAdvances
<1> QED
  BY <1>1, <1>2 DEF Turn

LEMMA ReadsDown ==
  ASSUME NEW f, NEW size \in Nat
  PROVE  \A m \in 0 .. size : \E g : ReadBack(g, f, size, size - m)
<1> DEFINE H == {m \in 0 .. size : \E g : ReadBack(g, f, size, size - m)}
<1>1. 0 \in H
  <2> DEFINE g == [u \in size - 0 .. size |-> Found(TRUE, size, <<>>)]
  <2>1. g = [u \in size - 0 .. size |-> Turn(g, f, size, u)]
    <3>1. \A u \in size - 0 .. size : u = size
      OBVIOUS
    <3>2. \A u \in size - 0 .. size : Turn(g, f, size, u) = Found(TRUE, size, <<>>)
      BY <3>1 DEF Turn
    <3> QED
      BY <3>2
  <2> HIDE DEF g
  <2>2. ReadBack(g, f, size, size - 0)
    BY <2>1 DEF ReadBack
  <2> QED
    BY <2>2
<1>2. ASSUME NEW m \in 1 .. size, m - 1 \in H PROVE m \in H
  <2>1. PICK g : ReadBack(g, f, size, size - (m - 1))
    BY <1>2
  <2>2. PICK low : low = size - m
    OBVIOUS
  <2>3. low \in Nat /\ low < size /\ size - (m - 1) = low + 1
    BY <2>2
  <2>4. g = [u \in low + 1 .. size |-> Turn(g, f, size, u)]
    BY <2>1, <2>3 DEF ReadBack
  <2> DEFINE h == [u \in low .. size |-> IF u = low THEN Turn(g, f, size, low) ELSE g[u]]
  <2>5. \A u \in low + 1 .. size : h[u] = g[u]
    BY <2>3
  <2>6. h[low] = Turn(g, f, size, low) /\ DOMAIN h = low .. size
    BY <2>3
  <2>7. h = [u \in low .. size |-> h[u]]
    OBVIOUS
  <2> HIDE DEF h
  <2>8. ASSUME NEW u \in low .. size PROVE h[u] = Turn(h, f, size, u)
    <3>1. u \in Nat /\ u <= size /\ \A v \in u + 1 .. size : h[v] = g[v]
      BY <2>3, <2>5
    <3>2. Turn(h, f, size, u) = Turn(g, f, size, u)
      BY <3>1, TurnAgrees
    <3>3. CASE u = low
      BY <2>6, <3>2, <3>3
    <3>4. CASE u # low
      <4>1. u \in low + 1 .. size
        BY <2>3, <3>4
      <4>2. g[u] = Turn(g, f, size, u)
        BY <2>4, <4>1
      <4> QED
        BY <2>5, <3>2, <4>1, <4>2
    <3> QED
      BY <3>3, <3>4
  <2>9. h = [u \in low .. size |-> Turn(h, f, size, u)]
    BY <2>7, <2>8
  <2>10. ReadBack(h, f, size, size - m)
    BY <2>2, <2>9 DEF ReadBack
  <2> QED
    BY <2>10
<1> HIDE DEF H
<1>3. 0 .. size \subseteq H
  BY <1>1, <1>2, UpTo0
<1> QED
  BY <1>3 DEF H

LEMMA SymbolsUnfold ==
  ASSUME NEW f, NEW size \in Nat, 11 <= size
  PROVE  \E from : ReadBack(from, f, size, 11) /\ Symbols(f, size) = from[11]
<1> DEFINE chosen == CHOOSE from : ReadBack(from, f, size, 11)
<1>1. \E from : ReadBack(from, f, size, 11)
  <2>1. size - 11 \in 0 .. size /\ size - (size - 11) = 11
    OBVIOUS
  <2> QED
    BY <2>1, ReadsDown
<1>2. ReadBack(chosen, f, size, 11)
  BY <1>1
<1>3. Symbols(f, size) = chosen[11]
  BY DEF Symbols, ReadBack, Turn, With
<1> QED
  BY <1>2, <1>3

(* A file that holds a table of symbols after eleven bytes.                *)
HasTable(f, table) ==
  /\ IsSeq(f) /\ 11 + Len(table) <= Len(f)
  /\ \A j \in 1 .. Len(table) : f[11 + j] = table[j]

LEMMA EntryHeld ==
  ASSUME NEW name, Spelling[name] \in Seq(Letters), NEW address \in Nat, NEW total \in Nat,
         NEW e, e = SymbolEntry(name, address, total)
  PROVE  IsEntry(e, Spelling[name], Len(Spelling[name]), total + address)
BY EntryBytes

LEMMA EntryRead ==
  ASSUME NEW f, IsSeq(f), NEW size \in Nat, size <= Len(f), NEW used \in Nat,
         NEW s, s \in Seq(Letters), s # <<>>, NEW L, NEW e, NEW a, IsEntry(e, s, L, a), ~ TooBig(a),
         \A i \in 1 .. L + 5 : f[used + i] = e[i], NEW next, next = used + (L + 5), next <= size,
         NEW one, one = OneSymbol(f, size, used)
  PROVE  IsRead(one, s, next, a)
<1>1. L \in Nat /\ L = Len(s)
  BY DEF IsEntry
<1>2. \A i \in 1 .. L : f[used + i] = s[i]
  <2> TAKE i \in 1 .. L
  <2>1. i \in 1 .. L + 5
    BY <1>1
  <2> QED
    BY <2>1 DEF IsEntry
<1>3. L + 1 \in 1 .. L + 5 /\ L + 4 \in 1 .. L + 5 /\ L + 5 \in 1 .. L + 5
  BY <1>1
<1>4. f[used + (L + 1)] = 0 /\ 256 * f[used + (L + 4)] + f[used + (L + 5)] = a
  BY ZenonT(40), <1>3 DEF IsEntry
<1>5. HasSymbol(f, used, s, L, next, a)
  BY <1>1, <1>2, <1>4 DEF HasSymbol
<1> QED
  BY <1>5, SymbolRead

LEMMA SymbolAt ==
  ASSUME NEW labels, NEW names, Spelled(names), NEW off, Offsets(off, names),
         NEW total \in Nat, total = off[Len(names)],
         NEW table, Lists(table, labels, names, Len(names), off, total),
         NEW f, HasTable(f, table),
         NEW n \in 1 .. Len(names), labels[names[n]].address \in Nat,
         ~ TooBig(total + labels[names[n]].address),
         NEW one, one = OneSymbol(f, total, off[n - 1])
  PROVE  IsRead(one, Spelling[names[n]], off[n], total + labels[names[n]].address)
<1> DEFINE N == Len(names)
<1>1. N \in Nat /\ n - 1 \in 0 .. N /\ n \in 0 .. N /\ N \in 0 .. N
  BY DEF Spelled
<1>2. PICK used : used = off[n - 1]
  OBVIOUS
<1>3. PICK s : s = Spelling[names[n]]
  OBVIOUS
<1>4. s \in Seq(Letters) /\ s # <<>>
  BY <1>3 DEF Spelled
<1>5. PICK L : L = Len(s)
  OBVIOUS
<1>6. PICK address \in Nat : address = labels[names[n]].address
  OBVIOUS
<1>7. PICK e : e = EntryOf(labels, names[n], total)
  OBVIOUS
<1>8. IsEntry(e, s, L, total + address)
  <2>1. PICK name : name = names[n]
    OBVIOUS
  <2>2. Spelling[name] \in Seq(Letters) /\ e = SymbolEntry(name, address, total)
    BY <1>3, <1>4, <1>6, <1>7, <2>1 DEF EntryOf
  <2>3. IsEntry(e, Spelling[name], Len(Spelling[name]), total + address)
    BY <2>2, EntryHeld
  <2> QED
    BY <1>3, <1>5, <2>1, <2>3
<1>9. L \in Nat /\ Width(names[n]) = L + 5
  BY <1>3, <1>5, <1>8 DEF IsEntry, Width
<1>10. /\ used \in Nat /\ off[n] \in Nat /\ off[n] = used + (L + 5)
       /\ 11 <= used /\ off[n] <= total
  <2>1. off[n - 1] \in Nat /\ off[n] \in Nat
    BY <1>1 DEF Offsets
  <2>2. off[n] = off[n - 1] + Width(names[n])
    BY DEF Offsets
  <2>3. 11 <= off[n - 1] /\ off[n] <= off[N]
    BY <1>1 DEF Offsets
  <2> QED
    BY <1>2, <1>9, <2>1, <2>2, <2>3
<1>11. \A i \in 1 .. L + 5 : f[used + i] = e[i]
  <2> TAKE i \in 1 .. L + 5
  <2>1. 11 + Len(table) = total /\ Len(table) \in Nat
    BY DEF Lists
  <2>2. (used - 11) + i \in 1 .. Len(table) /\ 11 + ((used - 11) + i) = used + i
    BY <1>9, <1>10, <2>1
  <2>3. table[(used - 11) + i] = e[i]
    <3>1. i \in 1 .. Width(names[n]) /\ n \in 1 .. N
      BY <1>9
    <3> QED
      BY <1>2, <1>7, <3>1 DEF Lists
  <2>4. f[11 + ((used - 11) + i)] = table[(used - 11) + i]
    BY <2>2 DEF HasTable
  <2> QED
    BY <2>2, <2>3, <2>4
<1>12. IsSeq(f) /\ total <= Len(f) /\ used + L + 5 <= total
  <2>1. IsSeq(f) /\ total <= Len(f)
    BY DEF HasTable, Lists
  <2> QED
    BY <1>9, <1>10, <2>1
<1>13. IsRead(one, s, off[n], total + address)
  <2>1. one = OneSymbol(f, total, used) /\ ~ TooBig(total + address)
    BY <1>2, <1>6
  <2>2. PICK a : a = total + address
    OBVIOUS
  <2>3. IsEntry(e, s, L, a) /\ ~ TooBig(a)
    BY <1>8, <2>1, <2>2
  <2>4. PICK next : next = off[n]
    OBVIOUS
  <2>5. next = used + (L + 5) /\ next <= total
    BY <1>10, <2>4
  <2>6. IsRead(one, s, next, a)
    BY <1>4, <1>10, <1>11, <1>12, <2>1, <2>3, <2>5, EntryRead
  <2> QED
    BY <2>2, <2>4, <2>6
<1> QED
  BY <1>3, <1>6, <1>13

(* What is read from the n-th symbol on: every symbol behind it, each with *)
(* its place in the file.                                                  *)
Behind(found, labels, names, n, total) ==
  \E sym : /\ found = Found(TRUE, total, sym)
           /\ DOMAIN sym = {Spelling[names[m]] : m \in n + 1 .. Len(names)}
           /\ \A m \in n + 1 .. Len(names) :
                sym[Spelling[names[m]]] = total + labels[names[m]].address

LEMMA NothingLeft ==
  ASSUME NEW labels, NEW names, Len(names) \in Nat, NEW total
  PROVE  Behind(Found(TRUE, total, <<>>), labels, names, Len(names), total)
<1> DEFINE N == Len(names)
<1>1. N + 1 .. N = {}
  OBVIOUS
<1>2. DOMAIN <<>> = {}
  OBVIOUS
<1>3. {Spelling[names[m]] : m \in N + 1 .. N} = {}
  BY <1>1
<1> QED
  BY <1>1, <1>2, <1>3 DEF Behind

LEMMA SymbolsReplaced ==
  ASSUME NEW found, NEW ok, NEW used, NEW old, NEW new,
         found = [ok |-> ok, used |-> used, symbols |-> old]
  PROVE  [found EXCEPT !.symbols = new] = [ok |-> ok, used |-> used, symbols |-> new]
OBVIOUS

LEMMA OneMore ==
  ASSUME NEW labels, NEW names, Spelled(names), NEW n \in 1 .. Len(names), NEW total,
         NEW found, Behind(found, labels, names, n, total),
         NEW one, one.name = Spelling[names[n]], one.value = total + labels[names[n]].address
  PROVE  Behind(With(found, one), labels, names, n - 1, total)
<1> DEFINE N == Len(names)
           name == one.name
           v == one.value
<1>1. PICK sym : /\ found = Found(TRUE, total, sym)
                 /\ DOMAIN sym = {Spelling[names[m]] : m \in n + 1 .. N}
                 /\ \A m \in n + 1 .. N : sym[Spelling[names[m]]] = total + labels[names[m]].address
  BY DEF Behind
<1>2. N \in Nat /\ n - 1 + 1 = n
  BY DEF Spelled
<1>3. \A m \in n + 1 .. N : Spelling[names[m]] # name
  <2> SUFFICES ASSUME NEW m \in n + 1 .. N, Spelling[names[m]] = name PROVE FALSE
    OBVIOUS
  <2>1. m \in 1 .. N /\ m # n
    BY <1>2
  <2>2. m = n
    BY <2>1 DEF Spelled
  <2> QED
    BY <2>1, <2>2
<1>4. name \notin DOMAIN sym
  BY <1>1, <1>3
<1>5. PICK more : more = Put(sym, name, v)
  OBVIOUS
<1>6. /\ DOMAIN more = DOMAIN sym \cup {name} /\ more[name] = v
      /\ \A y \in DOMAIN sym : more[y] = sym[y]
  BY <1>4, <1>5 DEF Put
<1>7. With(found, one) = Found(TRUE, total, more)
  <2>1. found = [ok |-> TRUE, used |-> total, symbols |-> sym]
    BY <1>1 DEF Found
  <2>2. found.symbols = sym
    BY <2>1
  <2>3. With(found, one) = [found EXCEPT !.symbols = more]
    BY <1>4, <1>5, <2>2 DEF With
  <2>4. [found EXCEPT !.symbols = more] = [ok |-> TRUE, used |-> total, symbols |-> more]
    <3>1. PICK ok : ok = TRUE
      OBVIOUS
    <3>2. found = [ok |-> ok, used |-> total, symbols |-> sym]
      BY <2>1, <3>1
    <3>3. [found EXCEPT !.symbols = more] = [ok |-> ok, used |-> total, symbols |-> more]
      BY <3>2, SymbolsReplaced
    <3> QED
      BY <3>1, <3>3
  <2> QED
    BY <2>3, <2>4 DEF Found
<1>8. \A m \in n .. N : m = n \/ m \in n + 1 .. N
  BY <1>2
<1>9. DOMAIN more = {Spelling[names[m]] : m \in n .. N}
  <2>1. n \in n .. N /\ \A m \in n + 1 .. N : m \in n .. N
    BY <1>2
  <2>2. ASSUME NEW y \in DOMAIN more PROVE y \in {Spelling[names[m]] : m \in n .. N}
    BY <1>1, <1>6, <2>1
  <2>3. ASSUME NEW m \in n .. N PROVE Spelling[names[m]] \in DOMAIN more
    BY <1>1, <1>6, <1>8
  <2> QED
    BY <2>2, <2>3
<1>10. \A m \in n .. N : more[Spelling[names[m]]] = total + labels[names[m]].address
  <2> TAKE m \in n .. N
  <2>1. CASE m = n
    BY <1>6, <2>1
  <2>2. CASE m \in n + 1 .. N
    <3>1. Spelling[names[m]] \in DOMAIN sym
      BY <1>1, <2>2
    <3> QED
      BY <1>1, <1>6, <2>2, <3>1
  <2> QED
    BY <1>8, <2>1, <2>2
<1> QED
  BY ZenonT(40), <1>2, <1>7, <1>9, <1>10 DEF Behind

LEMMA AllSymbolsRead ==
  ASSUME NEW labels, NEW names, Spelled(names), NEW off, Offsets(off, names),
         NEW total \in Nat, total = off[Len(names)],
         NEW table, Lists(table, labels, names, Len(names), off, total),
         NEW f, HasTable(f, table),
         \A n \in 1 .. Len(names) : labels[names[n]].address \in Nat
                                    /\ ~ TooBig(total + labels[names[n]].address)
  PROVE  Behind(Symbols(f, total), labels, names, 0, total)
<1> DEFINE N == Len(names)
<1>1. N \in Nat
  BY DEF Spelled
<1>2. 11 <= total
  BY <1>1 DEF Offsets
<1>3. PICK from : ReadBack(from, f, total, 11) /\ Symbols(f, total) = from[11]
  BY <1>2, SymbolsUnfold
<1>4. ASSUME NEW u \in 11 .. total PROVE from[u] = Turn(from, f, total, u)
  BY <1>3 DEF ReadBack
<1>5. \A n \in 0 .. N : off[n] \in 11 .. total
  <2> TAKE n \in 0 .. N
  <2>1. N \in 0 .. N /\ n \in 0 .. N
    BY <1>1
  <2>2. off[n] \in Nat /\ 11 <= off[n] /\ off[n] <= off[N]
    BY <2>1 DEF Offsets
  <2> QED
    BY <2>2
<1> DEFINE H == {j \in 0 .. N : Behind(from[off[N - j]], labels, names, N - j, total)}
<1>6. 0 \in H
  <2>1. total \in 11 .. total /\ N - 0 = N /\ 0 \in 0 .. N
    BY <1>1, <1>2
  <2>2. from[total] = Found(TRUE, total, <<>>)
    BY <1>4, <2>1 DEF Turn
  <2>3. Behind(from[total], labels, names, N, total)
    BY <1>1, <2>2, NothingLeft
  <2> QED
    BY <2>1, <2>3
<1>7. ASSUME NEW j \in 1 .. N, j - 1 \in H PROVE j \in H
  <2>1. PICK n : n = N - (j - 1)
    OBVIOUS
  <2>2. n \in 1 .. N /\ N - j = n - 1 /\ n - 1 \in 0 .. N /\ n \in 0 .. N
    BY <1>1, <2>1
  <2>3. Behind(from[off[n]], labels, names, n, total)
    BY <1>7, <2>1
  <2>4. PICK u : u = off[n - 1]
    OBVIOUS
  <2>5. PICK one : one = OneSymbol(f, total, u)
    OBVIOUS
  <2>6. IsRead(one, Spelling[names[n]], off[n], total + labels[names[n]].address)
    BY <2>2, <2>4, <2>5, SymbolAt
  <2>7. one.ok /\ one.used = off[n] /\ one.name = Spelling[names[n]]
        /\ one.value = total + labels[names[n]].address
    BY <2>6 DEF IsRead
  <2>8. u \in 11 .. total /\ u # total
    <3>1. u \in 11 .. total
      BY <1>5, <2>2, <2>4
    <3>2. one.used \in u + 1 .. total
      BY <2>5, <2>7, <3>1, SymbolAdvances
    <3> QED
      BY <3>1, <3>2
  <2>9. from[u] = With(from[off[n]], one)
    BY <1>4, <2>5, <2>7, <2>8 DEF Turn
  <2>10. Behind(from[u], labels, names, n - 1, total)
    BY <2>2, <2>3, <2>7, <2>9, OneMore
  <2> QED
    BY <2>2, <2>4, <2>10
<1> HIDE DEF H
<1>8. N \in H
  <2>1. 0 .. N \subseteq H
    BY <1>1, <1>6, <1>7, UpTo0
  <2> QED
    BY <1>1, <2>1
<1>9. Behind(from[off[N - N]], labels, names, N - N, total)
  BY <1>8 DEF H
<1>10. N - N = 0 /\ off[0] = 11
  BY <1>1 DEF Offsets
<1> QED
  BY <1>3, <1>9, <1>10
-----------------------------------------------------------------------------
(* The eleven bytes of a header, with where the code starts and its size.  *)
HeadOf(entry, size) ==
  [BaseHeader EXCEPT ![5] = Word(entry)[1], ![6] = Word(entry)[2],
                     ![10] = Word(size)[1], ![11] = Word(size)[2]]
IsHead(head, entry, size) ==
  /\ IsSeq(head) /\ Len(head) = 11
  /\ head[1] = 85 /\ head[2] = 65 /\ head[3] = 76 /\ head[4] = 1 /\ head[7] = 1 /\ head[9] = 0
  /\ 256 * head[5] + head[6] = entry /\ 256 * head[10] + head[11] = size

Sets(g, h, n, x) ==
  /\ IsSeq(g) /\ Len(g) = 11 /\ g[n] = x
  /\ \A j \in 1 .. 11 : j # n => g[j] = h[j]

Changed(h, n, x) == [h EXCEPT ![n] = x]

LEMMA ByteSet ==
  ASSUME NEW h, IsSeq(h), Len(h) = 11, NEW n \in 1 .. 11, NEW x, NEW g, g = Changed(h, n, x)
  PROVE  Sets(g, h, n, x)
<1>1. PICK y : y = Changed(h, n, x)
  OBVIOUS
<1>2. n \in 1 .. Len(h)
  OBVIOUS
<1>3. IsSeq(y) /\ Len(y) = Len(h)
  <2>1. IsSeq(y)
    BY <1>1, <1>2, ReplacedSeq DEF Changed
  <2>2. Len(y) = Len(h)
    BY <1>1, <1>2, ReplacedSeq DEF Changed
  <2> QED
    BY <2>1, <2>2
<1>4. y[n] = x
  BY <1>1, <1>2, ReplacedSeq DEF Changed
<1>5. \A j \in 1 .. Len(h) : j # n => y[j] = h[j]
  BY <1>1, <1>2, ReplacedSeq DEF Changed
<1> QED
  BY <1>1, <1>3, <1>4, <1>5 DEF Sets

LEMMA HeadBytes ==
  ASSUME NEW entry \in Nat, NEW size \in Nat, ~ TooBig(entry), ~ TooBig(size),
         NEW head, head = HeadOf(entry, size)
  PROVE  IsHead(head, entry, size)
<1>1. PICK v : v = Word(entry)
  OBVIOUS
<1>2. PICK w : w = Word(size)
  OBVIOUS
<1>3. 256 * v[1] + v[2] = entry
  BY <1>1, WordsBack
<1>4. 256 * w[1] + w[2] = size
  BY <1>2, WordsBack
<1>5. PICK b : b = BaseHeader
  OBVIOUS
<1>6. /\ IsSeq(b) /\ Len(b) = 11
      /\ b[1] = 85 /\ b[2] = 65 /\ b[3] = 76 /\ b[4] = 1 /\ b[7] = 1 /\ b[9] = 0
  <2>1. b \in Seq(Int)
    BY <1>5 DEF BaseHeader
  <2> QED
    BY <1>5, <2>1 DEF BaseHeader, IsSeq
<1>7. PICK h1 : h1 = [b EXCEPT ![5] = v[1]]
  OBVIOUS
<1>8. Sets(h1, b, 5, v[1])
  <2>1. IsSeq(b) /\ Len(b) = 11
    BY <1>6 DEF Sets
  <2>2. PICK n \in 1 .. 11 : n = 5
    OBVIOUS
  <2>3. h1 = Changed(b, n, v[1])
    BY <1>7, <2>2 DEF Changed
  <2>4. Sets(h1, b, n, v[1])
    BY <2>1, <2>3, ByteSet
  <2> QED
    BY <2>2, <2>4
<1>9. PICK h2 : h2 = [h1 EXCEPT ![6] = v[2]]
  OBVIOUS
<1>10. Sets(h2, h1, 6, v[2])
  <2>1. IsSeq(h1) /\ Len(h1) = 11
    BY <1>8 DEF Sets
  <2>2. PICK n \in 1 .. 11 : n = 6
    OBVIOUS
  <2>3. h2 = Changed(h1, n, v[2])
    BY <1>9, <2>2 DEF Changed
  <2>4. Sets(h2, h1, n, v[2])
    BY <2>1, <2>3, ByteSet
  <2> QED
    BY <2>2, <2>4
<1>11. PICK h3 : h3 = [h2 EXCEPT ![10] = w[1]]
  OBVIOUS
<1>12. Sets(h3, h2, 10, w[1])
  <2>1. IsSeq(h2) /\ Len(h2) = 11
    BY <1>10 DEF Sets
  <2>2. PICK n \in 1 .. 11 : n = 10
    OBVIOUS
  <2>3. h3 = Changed(h2, n, w[1])
    BY <1>11, <2>2 DEF Changed
  <2>4. Sets(h3, h2, n, w[1])
    BY <2>1, <2>3, ByteSet
  <2> QED
    BY <2>2, <2>4
<1>13. PICK h4 : h4 = [h3 EXCEPT ![11] = w[2]]
  OBVIOUS
<1>14. Sets(h4, h3, 11, w[2])
  <2>1. IsSeq(h3) /\ Len(h3) = 11
    BY <1>12 DEF Sets
  <2>2. PICK n \in 1 .. 11 : n = 11
    OBVIOUS
  <2>3. h4 = Changed(h3, n, w[2])
    BY <1>13, <2>2 DEF Changed
  <2>4. Sets(h4, h3, n, w[2])
    BY <2>1, <2>3, ByteSet
  <2> QED
    BY <2>2, <2>4
<1>15. head = h4
  BY <1>1, <1>2, <1>5, <1>7, <1>9, <1>11, <1>13 DEF HeadOf
<1>16. \A j \in 1 .. 11 : j \notin {5, 6, 10, 11} => h4[j] = b[j]
  BY <1>8, <1>10, <1>12, <1>14 DEF Sets
<1>17. h4[5] = v[1] /\ h4[6] = v[2] /\ h4[10] = w[1] /\ h4[11] = w[2]
  BY <1>8, <1>10, <1>12, <1>14 DEF Sets
<1>18. /\ h4[1] = 85 /\ h4[2] = 65 /\ h4[3] = 76 /\ h4[4] = 1 /\ h4[7] = 1 /\ h4[9] = 0
  BY <1>6, <1>16
<1>19. 256 * h4[5] + h4[6] = entry /\ 256 * h4[10] + h4[11] = size
  BY <1>3, <1>4, <1>17
<1> QED
  BY <1>14, <1>15, <1>18, <1>19 DEF IsHead, Sets

FirstFour(f) == SubSeq(f, 1, 4)
LEMMA FourTaken ==
  ASSUME NEW f, IsSeq(f), 4 <= Len(f)
  PROVE  FirstFour(f) = <<f[1], f[2], f[3], f[4]>>
<1>1. PICK S : f \in Seq(S)
  BY DEF IsSeq
<1>2. SubSeq(f, 1, 4) = [j \in 1 .. 4 |-> f[1 + j - 1]]
  BY <1>1
<1>3. PICK g : g = [j \in 1 .. 4 |-> f[1 + j - 1]]
  OBVIOUS
<1>4. \A j \in 1 .. 4 : f[1 + j - 1] \in S
  BY <1>1
<1>5. g \in Seq(S) /\ Len(g) = 4
  BY <1>3, <1>4
<1>6. g[1] = f[1] /\ g[2] = f[2] /\ g[3] = f[3] /\ g[4] = f[4]
  BY <1>3
<1>7. g = <<f[1], f[2], f[3], f[4]>>
  BY <1>5, <1>6
<1> QED
  BY <1>2, <1>3, <1>7 DEF FirstFour

Taken(f, table, size, entry) ==
  HasTable(f, table) /\ Process(f) = Symbols(f, size) /\ WordOf(f, 5) = entry

(* A file of a header, a table and code is taken by the disassembler.      *)
LEMMA HeaderTaken ==
  ASSUME NEW table, IsSeq(table), NEW bytes, IsSeq(bytes), NEW entry, NEW size,
         size = 11 + Len(table), NEW head, IsHead(head, entry, size),
         NEW f, f = (head \o table) \o bytes
  PROVE  Taken(f, table, size, entry)
<1>1. PICK h : h = head \o table
  OBVIOUS
<1>2. IsSeq(head) /\ Len(head) = 11 /\ Len(table) \in Nat /\ Len(bytes) \in Nat
  BY SeqFacts DEF IsHead
<1>3. /\ IsSeq(h) /\ Len(h) = 11 + Len(table)
      /\ \A j \in 1 .. 11 : h[j] = head[j]
      /\ \A j \in 1 .. Len(table) : h[11 + j] = table[j]
  <2>1. IsSeq(head) /\ IsSeq(table)
    BY <1>2
  <2>2. IsSeq(h) /\ Len(h) = Len(head) + Len(table)
    BY <1>1, <2>1, ConcatSeq
  <2>3. \A j \in 1 .. Len(head) : h[j] = head[j]
    BY <1>1, <2>1, ConcatSeq
  <2>4. \A j \in 1 .. Len(table) : h[Len(head) + j] = table[j]
    BY <1>1, <2>1, ConcatSeq
  <2> QED
    BY <1>2, <2>2, <2>3, <2>4
<1>4. /\ IsSeq(f) /\ Len(f) = Len(h) + Len(bytes)
      /\ \A j \in 1 .. Len(h) : f[j] = h[j]
  BY ZenonT(40), <1>1, <1>3, ConcatSeq
<1>5. \A j \in 1 .. 11 : f[j] = head[j]
  <2> TAKE j \in 1 .. 11
  <2>1. j \in 1 .. Len(h)
    BY <1>2, <1>3
  <2> QED
    BY <1>3, <1>4, <2>1
<1>6. HasTable(f, table)
  <2>1. 11 + Len(table) <= Len(f)
    BY <1>2, <1>3, <1>4
  <2>2. \A j \in 1 .. Len(table) : f[11 + j] = table[j]
    <3> TAKE j \in 1 .. Len(table)
    <3>1. 11 + j \in 1 .. Len(h)
      BY <1>2, <1>3
    <3> QED
      BY <1>3, <1>4, <3>1
  <2> QED
    BY <1>4, <2>1, <2>2 DEF HasTable
<1>7. /\ f[1] = 85 /\ f[2] = 65 /\ f[3] = 76 /\ f[4] = 1 /\ f[7] = 1 /\ f[9] = 0
      /\ 256 * f[5] + f[6] = entry /\ 256 * f[10] + f[11] = size
  <2>4. 1 \in 1 .. 11 /\ 2 \in 1 .. 11 /\ 3 \in 1 .. 11 /\ 4 \in 1 .. 11 /\ 7 \in 1 .. 11 /\ 9 \in 1 .. 11
    OBVIOUS
  <2>5. 5 \in 1 .. 11 /\ 6 \in 1 .. 11 /\ 10 \in 1 .. 11 /\ 11 \in 1 .. 11
    OBVIOUS
  <2>1. /\ f[1] = head[1] /\ f[2] = head[2] /\ f[3] = head[3] /\ f[4] = head[4] /\ f[7] = head[7]
        /\ f[9] = head[9]
    BY <1>5, <2>4
  <2>2. f[5] = head[5] /\ f[6] = head[6] /\ f[10] = head[10] /\ f[11] = head[11]
    BY <1>5, <2>5
  <2>3. 256 * f[5] + f[6] = entry /\ 256 * f[10] + f[11] = size
    BY <2>2 DEF IsHead
  <2> QED
    BY ZenonT(40), <2>1, <2>3 DEF IsHead
<1>8. Len(f) \in Nat /\ ~ (Len(f) < 11) /\ 1 <= 4 /\ 4 <= Len(f)
  BY <1>2, <1>3, <1>4
<1>9. SubSeq(f, 1, 4) = <<85, 65, 76, 1>>
  <2>1. IsSeq(f) /\ 1 \in Int /\ 4 \in Int /\ 1 <= 1 /\ 4 <= Len(f)
    BY <1>4, <1>8
  <2>2. FirstFour(f) = <<f[1], f[2], f[3], f[4]>>
    BY <2>1, FourTaken
  <2> QED
    BY <1>7, <2>2 DEF FirstFour
<1>10. WordOf(f, 5) = entry /\ WordOf(f, 10) = size
  <2>1. WordOf(f, 5) = 256 * f[5] + f[6] /\ WordOf(f, 10) = 256 * f[10] + f[11]
    BY DEF WordOf
  <2> QED
    BY <1>7, <2>1
<1>11. Process(f) = Symbols(f, size)
  <2>1. ~ (size < 11)
    BY <1>2
  <2>2. ~ (f[9] > 2) /\ f[7] = 1
    BY <1>7
  <2> QED
    BY <1>8, <1>9, <1>10, <2>1, <2>2 DEF Process
<1> QED
  BY <1>6, <1>10, <1>11 DEF Taken

(* What the disassembler finds in the header of a file of these labels.    *)
Traced(f, labels, symbols) ==
  /\ Process(f).ok
  /\ WordOf(f, 5) - Process(f).used = labels["_code"].address
  /\ DOMAIN Process(f).symbols
       = IF ~ symbols THEN {} ELSE {Spelling[name] : name \in ToSet(PublicLabels(labels))}
  /\ symbols => \A name \in ToSet(PublicLabels(labels)) :
       Process(f).symbols[Spelling[name]] - Process(f).used = labels[name].address

HeadsFile(h, labels, table, size, entry) ==
  "_code" \in DOMAIN labels /\ ~ TooBig(entry) /\ h.bytes = HeadOf(entry, size) \o table

LEMMA HeaderParts ==
  ASSUME NEW labels, NEW flags, flags.ualf, NEW h, h = Header(labels, flags), ~ h.err,
         NEW made, made = IF flags.symbols THEN SymbolTable(labels) ELSE [bytes |-> <<>>, err |-> FALSE],
         NEW table, table = made.bytes,
         NEW size, size = 11 + Len(table), NEW entry, entry = size + labels["_code"].address
  PROVE  HeadsFile(h, labels, table, size, entry) /\ ~ made.err
<1>1. "_code" \in DOMAIN labels
  BY DEF Header
<1>2. PICK b : b = HeadOf(entry, size) \o table
  OBVIOUS
<1>3. h = [bytes |-> b, err |-> made.err \/ TooBig(entry)]
  BY <1>1, <1>2 DEF Header, HeadOf
<1>4. h.bytes = b
  BY <1>3
<1>5. h.err = (made.err \/ TooBig(entry))
  BY <1>3
<1> QED
  BY <1>1, <1>2, <1>4, <1>5 DEF HeadsFile

LEMMA EmptyTable ==
  ASSUME NEW f
  PROVE  Symbols(f, 11) = Found(TRUE, 11, <<>>)
<1>1. PICK from : ReadBack(from, f, 11, 11) /\ Symbols(f, 11) = from[11]
  BY SymbolsUnfold
<1>2. 11 \in 11 .. 11
  OBVIOUS
<1>3. from[11] = Turn(from, f, 11, 11)
  BY <1>1, <1>2 DEF ReadBack
<1> QED
  BY <1>1, <1>3 DEF Turn

LEMMA BareLocated ==
  ASSUME NEW labels, NEW flags, flags.ualf, ~ flags.symbols, NEW h, h = Header(labels, flags), ~ h.err,
         \A name \in DOMAIN labels : labels[name].address \in Nat,
         NEW bytes, IsSeq(bytes), NEW f, f = h.bytes \o bytes
  PROVE  Traced(f, labels, flags.symbols)
<1>1. PICK table : table = <<>>
  OBVIOUS
<1>2. PICK size \in Nat : size = 11
  OBVIOUS
<1>3. PICK entry : entry = size + labels["_code"].address
  OBVIOUS
<1>4. IsSeq(table) /\ Len(table) = 0
  <2>1. table \in Seq({})
    BY <1>1
  <2> QED
    BY <1>1, <2>1 DEF IsSeq
<1>5. "_code" \in DOMAIN labels /\ ~ TooBig(entry) /\ h.bytes = HeadOf(entry, size) \o table
  <2>1. PICK made : made = IF flags.symbols THEN SymbolTable(labels) ELSE [bytes |-> <<>>, err |-> FALSE]
    OBVIOUS
  <2>2. size = 11 + Len(table) /\ table = made.bytes
    BY <1>1, <1>2, <1>4, <2>1
  <2>3. HeadsFile(h, labels, table, size, entry)
    BY <1>3, <2>1, <2>2, HeaderParts
  <2> QED
    BY <2>3 DEF HeadsFile
<1>6. entry \in Nat /\ entry - 11 = labels["_code"].address
  BY <1>2, <1>3, <1>5
<1>7. PICK head : head = HeadOf(entry, size)
  OBVIOUS
<1>8. IsHead(head, entry, size)
  <2>1. ~ TooBig(size)
    BY <1>2 DEF TooBig
  <2> QED
    BY <1>5, <1>6, <1>7, <2>1, HeadBytes
<1>9. Process(f) = Symbols(f, size) /\ WordOf(f, 5) = entry
  <2>1. f = (head \o table) \o bytes /\ size = 11 + Len(table)
    BY <1>2, <1>4, <1>5, <1>7
  <2> QED
    <3>1. Taken(f, table, size, entry)
      BY <1>4, <1>8, <2>1, HeaderTaken
    <3> QED
      BY <3>1 DEF Taken
<1>10. Process(f) = Found(TRUE, 11, <<>>)
  BY <1>2, <1>9, EmptyTable
<1>11. Process(f).ok /\ Process(f).used = 11 /\ Process(f).symbols = <<>>
  BY <1>10 DEF Found
<1>12. DOMAIN <<>> = {}
  OBVIOUS
<1> QED
  BY <1>6, <1>9, <1>11, <1>12 DEF Traced

LEMMA ListedLocated ==
  ASSUME NEW labels, NEW flags, flags.ualf, flags.symbols, NEW h, h = Header(labels, flags), ~ h.err,
         \A name \in DOMAIN labels : labels[name].address \in Nat,
         NEW bytes, IsSeq(bytes), NEW f, f = h.bytes \o bytes
  PROVE  Traced(f, labels, flags.symbols)
<1>1. PICK names : names = PublicLabels(labels)
  OBVIOUS
<1>2. PICK total : total = TableSize(names)
  OBVIOUS
<1>3. PICK table : table = SymbolTable(labels).bytes
  OBVIOUS
<1> DEFINE N == Len(names)
<1>4. Spelled(names) /\ N \in Nat /\ \A i \in 1 .. N : names[i] \in DOMAIN labels /\ labels[names[i]].address \in Nat
  <2>1. Spelled(names) /\ \A i \in 1 .. N : names[i] \in DOMAIN labels
    BY <1>1, PublicSpelled
  <2> QED
    BY <2>1 DEF Spelled
<1>5. total \in Nat /\ \E off : /\ Offsets(off, names) /\ total = off[N]
                                /\ Lists(table, labels, names, N, off, total)
  BY <1>1, <1>2, <1>3, TableListed
<1>6. PICK off : /\ Offsets(off, names) /\ total = off[N]
                 /\ Lists(table, labels, names, N, off, total)
  BY <1>5
<1>7. IsSeq(table) /\ 11 + Len(table) = total
  BY <1>6 DEF Lists, IsSeq
<1>8. PICK entry : entry = total + labels["_code"].address
  OBVIOUS
<1>9. /\ "_code" \in DOMAIN labels /\ ~ TooBig(entry) /\ h.bytes = HeadOf(entry, total) \o table
      /\ ~ SymbolTable(labels).err
  <2>1. PICK made : made = IF flags.symbols THEN SymbolTable(labels) ELSE [bytes |-> <<>>, err |-> FALSE]
    OBVIOUS
  <2>2. total = 11 + Len(table) /\ table = made.bytes /\ made = SymbolTable(labels)
    BY <1>3, <1>7, <2>1
  <2>3. HeadsFile(h, labels, table, total, entry) /\ ~ made.err
    BY <1>8, <2>1, <2>2, HeaderParts
  <2> QED
    BY <2>2, <2>3 DEF HeadsFile
<1>10. ~ TooBig(total) /\ \A i \in 1 .. N : ~ TooBig(total + labels[names[i]].address)
  BY <1>1, <1>2, <1>9 DEF SymbolTable
<1>11. entry \in Nat /\ entry - total = labels["_code"].address
  <2>1. total \in Nat
    BY <1>5
  <2>2. labels["_code"].address \in Nat
    BY <1>9
  <2> QED
    BY <1>8, <2>1, <2>2
<1>12. PICK head : head = HeadOf(entry, total)
  OBVIOUS
<1>13. IsHead(head, entry, total)
  BY <1>5, <1>9, <1>10, <1>11, <1>12, HeadBytes
<1>14. HasTable(f, table) /\ Process(f) = Symbols(f, total) /\ WordOf(f, 5) = entry
  <2>1. f = (head \o table) \o bytes
    BY <1>9, <1>12
  <2> QED
    <3>1. Taken(f, table, total, entry)
      BY <1>7, <1>13, <2>1, HeaderTaken
    <3> QED
      BY <3>1 DEF Taken
<1>15. Behind(Process(f), labels, names, 0, total)
  BY <1>4, <1>5, <1>6, <1>10, <1>14, AllSymbolsRead
<1>16. PICK sym : /\ Process(f) = Found(TRUE, total, sym)
                  /\ DOMAIN sym = {Spelling[names[m]] : m \in 1 .. N}
                  /\ \A m \in 1 .. N : sym[Spelling[names[m]]] = total + labels[names[m]].address
  <2>1. 0 + 1 = 1
    OBVIOUS
  <2> QED
    BY <1>15, <2>1 DEF Behind
<1>17. Process(f).ok /\ Process(f).used = total /\ Process(f).symbols = sym
  BY <1>16 DEF Found
<1>18. ToSet(names) = {names[m] : m \in 1 .. N}
  <2>1. DOMAIN names = 1 .. N
    BY <1>4 DEF Spelled
  <2> QED
    BY <2>1 DEF ToSet
<1>19. DOMAIN sym = {Spelling[name] : name \in ToSet(names)}
  BY <1>16, <1>18
<1>20. \A name \in ToSet(names) : sym[Spelling[name]] - total = labels[name].address
  <2> TAKE name \in ToSet(names)
  <2>1. PICK m \in 1 .. N : name = names[m]
    BY <1>18
  <2>2. sym[Spelling[name]] = total + labels[name].address /\ labels[name].address \in Nat
    BY <1>4, <1>16, <2>1
  <2> QED
    BY <1>5, <2>2
<1> QED
  BY <1>1, <1>11, <1>14, <1>17, <1>19, <1>20 DEF Traced
-----------------------------------------------------------------------------
LEMMA AddressesPlaced ==
  ASSUME NEW e, Shaped(e), IsLaid(e)
  PROVE  \A name \in DOMAIN e.labels : e.labels[name].address \in Nat
<1>1. PICK sums : Laid(e, sums)
  BY DEF IsLaid
<1>2. Len(e.items) \in Nat
  BY SeqFacts DEF Shaped
<1> TAKE name \in DOMAIN e.labels
<1>3. e.labels[name].at \in 0 .. Len(e.items) /\ e.labels[name].address = sums[e.labels[name].at + 1]
  BY <1>1 DEF Laid, Placed
<1>4. e.labels[name].at + 1 \in 1 .. Len(e.items) + 1
  BY <1>2, <1>3
<1> QED
  BY <1>1, <1>3, <1>4 DEF Laid, AddsUp

LEMMA WriteLands == ASSUME LayoutInv, Write PROVE (Plain => SymbolsLand)'
<1> SUFFICES ASSUME Plain', stage' = "written", program'.flags.ualf PROVE SymbolsLand'
  BY DEF SymbolsLand
<1>1. UNCHANGED <<program, env, code>> /\ stage = "emit"
  BY DEF Write
<1>2. PICK h : h = IF round = 1 THEN Header(env.labels, program.flags) ELSE [bytes |-> <<>>, err |-> FALSE]
  OBVIOUS
<1>3. /\ round = 1 /\ ~ refused /\ ~ h.err /\ file' = h.bytes \o code
  <2> DEFINE bad == refused \/ h.err \/ (round = 1 /\ IsDirectory(program.flags.output))
  <2>1. bad => stage' = "refused"
    BY <1>2 DEF Write
  <2>2. ~ bad /\ round # 1 => stage' = "done"
    BY <1>2 DEF Write
  <2>3. ~ bad /\ round = 1 => file' = h.bytes \o code
    BY <1>2 DEF Write
  <2> HIDE DEF bad
  <2>4. ~ bad /\ round = 1
    BY <2>1, <2>2
  <2>5. file' = h.bytes \o code
    BY <2>3, <2>4
  <2> QED
    BY <2>4, <2>5 DEF bad
<1>4. PlainItems(env.items)
  BY <1>1 DEF Plain, PlainItems
<1>5. PICK sums : Laid(env, sums) /\ AtItem(sums)
  BY <1>1, <1>3, <1>4 DEF LayoutInv
<1>6. IsSeq(code) /\ Shaped(env) /\ IsLaid(env)
  BY <1>5 DEF AtItem, LayoutInv, IsLaid
<1>7. \A name \in DOMAIN env.labels : env.labels[name].address \in Nat
  BY <1>6, AddressesPlaced
<1>8. h = Header(env.labels, program.flags)
  BY <1>2, <1>3
<1>9. Traced(file', env.labels, program.flags.symbols)
  BY <1>1, <1>3, <1>6, <1>7, <1>8, BareLocated, ListedLocated
<1> QED
  BY <1>1, <1>9 DEF SymbolsLand, Traced

(* In a file that is written, the header leads to the code, and each       *)
(* public label's symbol to its address in the code, in every program      *)
(* without an empty array or a structure with a value.                     *)
THEOREM SymbolsLeadToTheirCode == Spec => [](Plain => SymbolsLand)
<1>1. Init => (Plain => SymbolsLand)
  BY DEF Init, SymbolsLand
<1>2. LayoutInv /\ (Plain => SymbolsLand) /\ [Next]_vars => (Plain => SymbolsLand)'
  <2> SUFFICES ASSUME LayoutInv, Plain => SymbolsLand, [Next]_vars PROVE (Plain => SymbolsLand)'
    OBVIOUS
  <2>1. CASE Write
    BY <2>1, WriteLands
  <2>2. CASE UNCHANGED vars
    BY <2>2 DEF SymbolsLand, Plain, vars, pVars, tVars
  <2>3. CASE Next /\ ~ Write /\ stage' # "written"
    BY <2>3 DEF SymbolsLand
  <2>4. CASE Next /\ ~ Write /\ stage' = "written"
    <3>1. FALSE
      <4>1. ~ (ReadFlags \/ ReadSource)
        BY <2>4 DEF ReadFlags, ReadSource, Opened
      <4>2. ~ Rewrite
        BY <2>4 DEF Rewrite, Preprocess, Substitute, Define, Conditional, Selected, Import, Return,
                    Preprocessed, Reading
      <4>3. ~ (Parse \/ AnalyzeNext \/ Analyzed2 \/ EmitNext)
        BY <2>4 DEF Parse, AnalyzeNext, Analyzed2, EmitNext
      <4>4. ~ (Disassemble \/ Ended)
        BY <2>4 DEF Disassemble, Ended, vars, pVars, tVars
      <4> QED
        BY <2>4, <4>1, <4>2, <4>3, <4>4 DEF Next
    <3> QED
      BY <3>1
  <2> QED
    BY <2>1, <2>2, <2>3, <2>4
<1> QED
  BY <1>1, <1>2, LayoutAlways, PTL DEF Spec
=============================================================================
