----------------------------- MODULE MCToolchain -----------------------------
(***************************************************************************)
(* Sources and files for the toolchain, and what it promises about them.   *)
(***************************************************************************)
EXTENDS Toolchain

(* Words that are numbers, and the codes of characters in strings.         *)
MCNumbers == ("0" :> 0) @@ ("1" :> 1) @@ ("2" :> 2) @@ ("3" :> 3) @@ ("5" :> 5)
  @@ ("7" :> 7) @@ ("100" :> 100) @@ ("121" :> 121) @@ ("122" :> 122) @@ ("123" :> 123)
  @@ ("127" :> 127) @@ ("255" :> 255) @@ ("256" :> 256) @@ ("65535" :> 65535)
  @@ ("65536" :> 65536)
MCCharCode == [a |-> 97, d |-> 100, n |-> 110] @@ ("\n" :> 10) @@ (";" :> 59)
  @@ ("\\0" :> 0) @@ ("\\" :> 92) @@ ("\"" :> 34) @@ ("'" :> 39)
MCNamesInOrder == <<"_code", "f", "g", "h">>
MCPathTo == ("main.anc216" :> Main) @@ ("d.anc216" :> <<"main", "d">>)
  @@ ("lib" :> <<"lib", "">>) @@ ("." :> <<"main", "">>) @@ ("out" :> <<"main", "out">>)
MCDetours == {"."}
MCSpelling == ("_code" :> <<95, 99, 111, 100, 101>>) @@ ("f" :> <<102>>)
  @@ ("g" :> <<103>>) @@ ("h" :> <<104>>)

NL == <<"\n">>
Lines(s) == FlattenSeq([j \in 1 .. Len(s) |-> s[j] \o NL])
Plainly == <<"main.anc216">>
One(text) == Source(Main :> text, Plainly)
-----------------------------------------------------------------------------
(* 1. Every short text over quotes, comments, ends of line and a letter.   *)
Short == UNION {[1 .. n -> {"\"", "'", ";", "\n", "a", "\\"}] : n \in 1 .. 4}
Texts == {One(t) : t \in Short}

(* 2. Conditionals: lines a program is made of, the fourth emits its byte. *)
UseA == <<"use", "a">>
IfA == <<"if", "a", "then">>
IfNotA == <<"if", "!", "a", "then">>
ElifA == <<"elif", "a", "then">>
Endif == <<"endif">>
Marks == <<"1", "2", "3", "5", "7", "100">>
LineKinds == {"use", "if", "if not", "elif", "endif", "mark"}
LineOf(kind, j) ==
  CASE kind = "use" -> UseA [] kind = "if" -> IfA [] kind = "if not" -> IfNotA
    [] kind = "elif" -> ElifA [] kind = "endif" -> Endif
    [] kind = "mark" -> <<Marks[j]>>
Kinds == {<<"if not">> \o s \o <<"endif">> : s \in [1 .. 4 -> LineKinds]}
           \cup UNION {[1 .. n -> LineKinds] : n \in 1 .. 3}
           \cup {start \o s \o <<"mark", "endif">> :
                   start \in {<<"if">>, <<"use", "if">>}, s \in [1 .. 2 -> LineKinds]}
Conditionals ==
  {One(Lines([j \in 1 .. Len(s) |-> LineOf(s[j], j)])) @@ [kinds |-> s] : s \in Kinds}

(* 3. Programs of several files.  Each file emits its own byte.            *)
m(name) == <<"main", name>>
lib(name) == <<"lib", name>>
Searching == <<"--stdlib", "lib", "main.anc216", "out">>
Parts ==
  {Source((Main :> Lines(<<<<"1">>, <<"import", "a">>, <<"2">>>>)) @@ (m("a") :> Lines(<<<<"3">>>>)), Plainly),
   Source((Main :> Lines(<<<<"import", "a">>, <<"import", "a">>, <<"2">>>>)) @@ (m("a") :> Lines(<<<<"3">>>>)), Plainly),
   Source((Main :> Lines(<<<<"import", "a">>, <<"2">>>>))
        @@ (m("a") :> Lines(<<<<"import", "d">>, <<"3">>>>))
        @@ (m("d") :> Lines(<<<<"import", "a">>, <<"import", "main">>, <<"5">>>>)), Plainly),
   Source((Main :> Lines(<<<<"import", "a">>, <<"import", "d">>, <<"2">>>>))
        @@ (m("a") :> Lines(<<<<"import", "d">>, <<"3">>>>))
        @@ (m("d") :> Lines(<<<<"import", "a">>, <<"5">>>>)), Plainly),
   Source((Main :> Lines(<<<<"use", "x", "as", "7">>, <<"import", "a">>, <<"import", "d">>, <<"y">>>>))
        @@ (m("a") :> Lines(<<<<"use", "y", "as", "3">>>>))
        @@ (m("d") :> Lines(<<<<"x", ",", "y">>>>)), Plainly),
   Source((Main :> Lines(<<<<"use", "x">>, <<"import", "a">>, <<"2">>>>))
        @@ (m("a") :> Lines(<<<<"use", "x", "as", "3">>, <<"5">>>>)), Plainly),
   Source((Main :> Lines(<<<<"import", "a">>, <<"2">>>>)) @@ (m("a") :> <<"1", "\n", "3">>), Plainly),
   Source((Main :> Lines(<<<<"import", "a">>, <<"-", "2">>>>)) @@ (m("a") :> Lines(<<<<"3">>>>)), Plainly),
   Source((Main :> <<"2", "\n", "import", "a">>) @@ (m("a") :> Lines(<<<<"3">>>>)), Plainly),
   Source((Main :> Lines(<<<<"import", "d">>, <<"2">>>>)), Plainly),
   Source((Main :> Lines(<<<<"import", "a">>, <<"2">>>>)) @@ (lib("a") :> Lines(<<<<"import", "d">>, <<"3">>>>))
        @@ (lib("d") :> Lines(<<<<"import", "a">>, <<"5">>>>)), Searching),
   Source((Main :> Lines(<<<<"import", "\"", "a", "\"">>, <<"2">>>>)) @@ (lib("a") :> Lines(<<<<"3">>>>))
        @@ (m("a") :> Lines(<<<<"5">>>>)), Searching),
   Source((Main :> Lines(<<<<"import", "a">>, <<"2">>>>)) @@ (lib("a") :> Lines(<<<<"import", "main">>, <<"3">>>>)),
          <<"--stdlib", "lib", "--stdlib", ".", "main.anc216">>),
   Source((Main :> Lines(<<IfA, <<"import", "d">>, Endif, <<"2">>>>)) @@ (m("d") :> Lines(<<UseA, <<"3">>>>)),
        <<"-u", "a", "main.anc216">>),
   Source((Main :> Lines(<<<<"x">>, <<"2">>>>)) @@ (m("d") :> Lines(<<<<"x">>>>)),
          <<"-u", "x", "-a", "5", "-i", "d.anc216">>),
   Source((Main :> Lines(<<<<"import", "a">>, <<"jmp", "g">>>>))
        @@ (m("a") :> Lines(<<<<"f", ":">>, <<"local", "g", ":">>, <<"jmp", "g">>>>)), Plainly),
   Source((Main :> Lines(<<<<"h", ":">>, <<"jmp", "*", "f">>, <<"import", "a">>>>))
        @@ (m("a") :> Lines(<<<<"f", ":">>, <<"local", "g", ":">>, <<"jmp", "g">>>>)), Plainly),
   Source((Main :> Lines(<<<<"use">>, <<"use", "x", "as">>, <<"use", "x", "y">>, <<"use", "x", "as", "1", "2">>,
                         <<"import">>, <<"1">>>>)), Plainly),
   Source((Main :> Lines(<<<<"use", "x", "as", "push">>, <<"use", "y", "as", "x">>, <<"x", "1">>, <<"y", ":">>,
                         <<"if", "x">>, Endif>>)), Plainly)}
-----------------------------------------------------------------------------
(* 4. Every form of operand and every kind of statement, under a label and *)
(* in front of two more that jumps back and forth cross it to reach.       *)
Forms ==
  {<<"push", "5">>, <<"push", "word", "5">>, <<"push", "256">>, <<"push", "g">>,
   <<"push", "g", "-", "1">>, <<"push", "-", "1">>, <<"push", "byte", "g">>,
   <<"push", "$">>, <<"push", "2", "*", "3", "-", "1">>,
   <<"push", "(", "1", "+", "2", ")", "*", "3">>, <<"push", "5", "/", "0">>,
   <<"push", "sizeof", "g">>, <<"push", "offset", "x">>, <<"push", "65536">>,
   <<"push", "-", "x">>, <<"push", "*">>,
   <<"push", "5", "+", "r0">>, <<"push", "2", "*", "r0">>, <<"push", "(", "r0", ")">>,
   <<"push", "byte", "r0">>, <<"push", "-", "r0">>, <<"1", "+", "r0">>, <<"org", "r0">>,
   <<"jmp", "[", "r0", "]">>, <<"var", "x", ":", "[", "r0", "byte", "]">>, <<"push", ")">>, <<"push", "r0">>,
   <<"push", "l0">>, <<"trsr", "l0">>, <<"trsr", "r0">>, <<"ldsr", "l0">>,
   <<"sili", "word", "5">>, <<"add", "r0", ",", "r1">>, <<"add", "l0", ",", "r1">>,
   <<"add", "r0", ",", "5">>, <<"add", "l0", ",", "5">>,
   <<"add", "l0", ",", "256">>, <<"load", "r0", ",", "g">>,
   <<"load", "r0", ",", "&", "g">>, <<"load", "l0", ",", "&", "5">>,
   <<"load", "r0", ",", "*", "2">>, <<"load", "r0", ",", "&", "bp", "+", "2">>,
   <<"load", "l0", ",", "&", "bp", "-", "1">>,
   <<"load", "r0", ",", "&", "5", "+", "l0">>, <<"load", "&", "5", ",">>,
   <<"load", "r0", ",", "-", "x">>, <<"store", "&", "5", ",", "r0">>,
   <<"store", "&", "5", ",", "l0">>, <<"store", "&", "256", ",", "byte", "5">>,
   <<"store", "&", "5", ",", "5">>, <<"store", "&", "5", ",", "word", "5">>,
   <<"store", "&", "5", "+", "l0", ",", "byte", "3">>,
   <<"store", "&", "5", "+", "l0", ",", "256">>,
   <<"store", "&", "5", "+", "l0", ",", "r0">>,
   <<"store", "&", "bp", "+", "2", ",", "5">>,
   <<"store", "&", "bp", "-", "1", ",", "256">>,
   <<"store", "&", "bp", "+", "l0", ",", "5">>,
   <<"store", "&", "bp", "+", "l0", ",", "256">>,
   <<"store", "&", "bp", "+", "2", ",", "r0">>, <<"store", "*", "2", ",", "r0">>,
   <<"store", "*", "2", ",", "5">>, <<"store", "x", ",", "r0">>,
   <<"read", "&", "5">>, <<"read", "&", "5", "+", "l0">>,
   <<"read", "&", "5", "-", "l0">>, <<"read", "&", "5", "+", "r0">>,
   <<"read", "&", "bp", "+", "2">>, <<"read", "&", "bp", "+", "l0">>,
   <<"read", "&", "bp">>, <<"read", "*", "l0">>, <<"read", "*", "l0", ",", "r1">>,
   <<"read", "*", "r0">>, <<"read", "*", "127">>, <<"jmp", "[", "5", "]">>,
   <<"jmp", "[", "g", "+", "1", "]", "+", "l0">>, <<"jmp", "[", "5">>,
   <<"jmp", "&", "g">>, <<"jmp", "&", "g", "+", "l0">>, <<"jmp", "*", "2">>,
   <<"jmp", "*", "g", "+", "1">>, <<"jmp", "h", "+", "1">>, <<"jz", "*", "f">>,
   <<"jnz", "g">>, <<"call", "g">>, <<"call", "&", "5">>, <<"call", "*", "g">>,
   <<"call", "[", "5", "]">>, <<"kill", "5">>, <<"g", "5">>,
   <<"var", "x", ":", "byte">>, <<"var", "x", ":", "word", "=", "5">>,
   <<"var", "x", ":", "[", "3", "byte", "]">>,
   <<"var", "x", ":", "[", "0", "byte", "]">>, <<"var", "x", ":", "s">>,
   <<"var", "x">>,
   <<"var", "x", ":", "word", "\n", "load", "r0", ",", "x", "\n", "store", "x", ",", "r0">>,
   <<"var", "x", ":", "byte", "\n", "push", "offset", "x", "\n", "load", "l0", ",", "x">>,
   <<"var", "x", ":", "byte", "\n", "load", "r0", ",", "-", "x">>,
   <<"var", "x", ":", "byte", "\n", "var", "x", ":", "word">>,
   <<"var", "x", ":", "[", "5", "word", "]", "\n", "load", "r0", ",", "x", "[", "1", "]">>,
   <<"var", "x", ":", "[", "5", "word", "]", "\n", "store", "x", "[", "2", "]", ",", "5", "\n", "store", "x", "[", "1", "]", ",", "r0">>,
   <<"var", "x", ":", "[", "5", "word", "]", "\n", "store", "x", "[", "-", "1", "]", ",", "r0">>,
   <<"var", "x", ":", "[", "5", "word", "]", "\n", "store", "x", "[", "1", "]">>,
   <<"structure", "s", ":", "\n", "a", ":", "word", ",", "\n", "b", ":", "byte", "\n", "var", "x", ":", "s">>,
   <<"structure", "s", ":", "\n", "a", ":", "word", ",", "\n", "b", ":", "byte", "\n", "var", "x", ":", "s", "=", "5">>,
   <<"structure", "s", ":", "\n", "b", ":", "byte", "\n", "var", "x", ":", "[", "3", "s", "]">>,
   <<"structure", "s", "5">>, <<"reserve", "3">>, <<"reserve", "1", "-", "2">>,
   <<"reserve", "65536">>, <<"reserve", "65535">>, <<"org", "100">>,
   <<"org", "1">>, <<"org", "g">>, <<"org", "$", "+", "1">>,
   <<"1", ",", "2", ",", "word", "3">>, <<"1", ",", "\n", "2">>,
   <<"g", ",", "g", "+", "1">>, <<"byte", "g", ",", "256">>,
   <<"\"", "a", "\"", ",", "5">>, <<"\"", "a", "d", "n">>, <<"section", ".", "a">>,
   <<"section", "a">>, <<"global", "5">>, <<"local", ":", "5">>, <<"\n", "1x">>,
   <<"0xz">>, <<"f", ":", "5">>}
Around(line) == Lines(<<<<"f", ":">>, line, <<"g", ":">>, <<"jmp", "*", "f">>,
                        <<"jmp", "g">>, <<"h", ":">>, <<"kill">>>>)
Statements == {One(Around(line)) : line \in Forms}

(* The same with a header: "_code" stands after the line.                  *)
Executable(line, symbols) ==
  Source((Main :> Lines(<<<<"g", ":">>, line, <<"local", "h", ":">>, <<"_code", ":">>,
                        <<"jmp", "*", "g">>>>)),
         (IF symbols THEN <<"-s">> ELSE <<>>) \o <<"-h=ualf", "main.anc216">>)
Executables ==
  {Executable(line, symbols) : line \in Forms, symbols \in BOOLEAN}

(* 5. Command lines, for a source that imports a library.                  *)
Arguments ==
  {<<"-t", "main.anc216", "-S">>, <<"main.anc216", "out", "out">>, <<"-x">>, <<"d.anc216">>,
   <<"--", "main.anc216", "-w">>, <<"main.anc216", "--", "out">>, <<"--preview", "main.anc216">>,
   <<"-h=elf", "main.anc216">>, <<"-h=ualf", "main.anc216">>, <<"-s", "main.anc216">>,
   <<"-ud", "main.anc216">>, <<"-u">>, <<"-u", "x", "-a">>, <<"-u", "x", "-a", "5", "main.anc216">>,
   <<"main.anc216", "-u", "x">>, <<"--stdlib">>, <<"--stdlib", "main.anc216">>,
   <<"--stdlib", "lib", "main.anc216">>, <<"main.anc216", ".", "--stdlib", "lib">>,
   <<"-i", "lib", "main.anc216">>, <<"-i", "lib">>, <<"main.anc216", "-i", "lib">>,
   <<"-i", "main.anc216", "out">>, <<"main.anc216", "out", "-i", "lib">>, <<"-i">>, <<"-i", "-s">>,
   <<"-i", "out">>}
Commands ==
  {Source((Main :> Lines(<<<<"import", "a">>, <<"kill">>>>)) @@ (lib("a") :> Lines(<<<<"_code", ":">>>>)), args) :
     args \in Arguments}

MCPrograms == Texts \cup Conditionals \cup Parts \cup Statements \cup Executables \cup Commands

(* Files: every addressing byte with an opcode of each family, whole and   *)
(* cut short, and a short one behind it.                                   *)
After == <<1, 130, 3, 200>>
MCImages ==
  {<<a, op>> \o After : a \in Bytes, op \in {0, 4, 6, 34, 30, 45, 47, 58, 59, 62, 68, 86, 255}}
    \cup {<<0, 0, a, op>> \o SubSeq(After, 1, n) :
            a \in {0, 8, 16, 3, 11, 7, 128, 132, 197, 193}, op \in {0, 6, 34, 59, 58, 27}, n \in 0 .. 3}
    \cup {<<a>> : a \in {0, 8, 192}}
    \cup {<<85, 65, 76, major, 0, 0, minor, 0, kind, 0, size>> \o symbols \o <<0, 6>> :
             major \in {1, 2}, minor \in {0, 1}, kind \in {2, 3}, size \in {10, 11, 13, 17, 18, 19},
             symbols \in {<<>>, <<102, 0, 0, 0, 0, 17>>, <<0, 0, 0, 0, 17>>}}
-----------------------------------------------------------------------------
(* Of each conditional exactly the first branch whose condition holds is   *)
(* assembled, and a program is refused only when its conditionals do not   *)
(* nest.                                                                   *)
Live(stack) == \A j \in 1 .. Len(stack) : stack[j].active
Branching(s, line) ==
  LET depth == Len(s.stack)
      Guarded(holds) == [active |-> holds, taken |-> holds]
      last == s.stack[depth]
      next == [active |-> ~ last.taken /\ s.def, taken |-> last.taken \/ s.def]
  IN CASE line[1] = "use" -> [s EXCEPT !.def = @ \/ Live(s.stack)]
       [] line[1] = "if" -> [s EXCEPT !.stack = Append(@, Guarded(s.def))]
       [] line[1] = "if not" -> [s EXCEPT !.stack = Append(@, Guarded(~ s.def))]
       [] line[1] = "mark" -> [s EXCEPT !.out = IF Live(s.stack) THEN Append(@, line[2]) ELSE @]
       [] line[1] \in {"elif", "endif"} /\ depth = 0 -> [s EXCEPT !.err = TRUE]
       [] line[1] = "elif" /\ depth > 0 -> [s EXCEPT !.stack[depth] = next]
       [] line[1] = "endif" /\ depth > 0 -> [s EXCEPT !.stack = Front(@)]
Branched(kinds) ==
  LET end == FoldLeft(Branching, [def |-> FALSE, stack |-> <<>>, out |-> <<>>, err |-> FALSE],
                      [j \in 1 .. Len(kinds) |-> <<kinds[j], Numbers[Marks[j]]>>])
  IN [out |-> end.out, refused |-> end.err \/ end.stack # <<>>]
TakenBranch ==
  "kinds" \in DOMAIN program /\ stage \in {"refused", "written", "done"} =>
    /\ refused = Branched(program.kinds).refused
    /\ ~ refused => file = Branched(program.kinds).out

(* An import stands for the lines of its file, once along each chain of    *)
(* imports: nothing is lost, and nothing changes places.                   *)
LinesOf(text) ==
  LET Add(s, ch) == IF ch = "\n" THEN Append(s, <<>>) ELSE [s EXCEPT ![Len(s)] = Append(@, ch)]
  IN SelectSeq(FoldLeft(Add, << <<>> >>, text), LAMBDA l : l # <<>>)
Simple ==
  \A f \in DOMAIN program.files : \A l \in ToSet(LinesOf(program.files[f])) :
    IF Len(l) = 1 THEN l[1] \in DOMAIN Numbers ELSE Len(l) = 2 /\ l[1] = "import"

RECURSIVE Inclusion(_, _)
Inclusion(from, known) ==
  LET Add(s, l) ==
        LET path == Located(from, l[2])[1]
            inner == Inclusion(path[2], s.known \cup {path, Canonical(path[2])})
        IN IF l[1] # "import" THEN [s EXCEPT !.out = Append(@, Numbers[l[1]])]
           ELSE IF path \in s.known THEN s
           ELSE [out |-> s.out \o inner.out, known |-> s.known \cup {path}]
  IN FoldLeft(Add, [out |-> <<>>, known |-> known], LinesOf(program.files[from]))
IncludedInPlace ==
  stage = "written" /\ program.args \in {Plainly, Searching} /\ Simple =>
    file = Inclusion(Main, {Canonical(Main)}).out

(* What the disassembler prints is a program, and assembles to the bytes   *)
(* it was read from.                                                       *)
RoundTrip ==
  /\ round = 2 => ~ refused /\ stage # "crashed"
  /\ stage = "done" => code = CodeIn(file)

(* What stands between quotes is emitted as it stands, and nothing else    *)
(* is; of texts without escapes and single quotes.                         *)
Quoting(s, ch) ==
  CASE s.in = "string" -> IF ch = "\"" THEN [s EXCEPT !.in = ""]
                          ELSE [s EXCEPT !.out = Append(@, CharCode[ch])]
    [] s.in = "comment" -> [s EXCEPT !.in = IF ch = "\n" THEN "" ELSE @]
    [] s.in = "" -> [s EXCEPT !.in = CASE ch = "\"" -> "string" [] ch = ";" -> "comment"
                                       [] OTHER -> ""]
StringsKept ==
  stage = "written" /\ program.args = Plainly /\ program.files[Main] \in Short
    /\ {"'", "\\"} \cap ToSet(program.files[Main]) = {}
    => file = FoldLeft(Quoting, [in |-> "", out |-> <<>>], program.files[Main]).out
=============================================================================
