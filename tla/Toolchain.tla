------------------------------ MODULE Toolchain ------------------------------
(***************************************************************************)
(* One run of the assembler, and the disassembler put behind it            *)
(* (assembler/src/main.cc, disassembler/src/main.cc): source text through  *)
(* the preprocessor, the parser and both passes to a file; that file to    *)
(* text; and the text to bytes again.                                      *)
(***************************************************************************)
EXTENDS Disassembler

CONSTANTS
  Programs,   (* sources: their files and the command line's arguments     *)
  PathTo,     (* the file an argument names: <<directory, name>>, the name  *)
              (* "" for a directory                                         *)
  Detours,    (* directories whose absolute path is not the canonical one  *)
  Images      (* files given to the disassembler as they are               *)

VARIABLES
  round,      (* 1: the source; 2: what the disassembler made of the file  *)
  ast,        (* the statements parsed                                     *)
  k,          (* the next statement to analyze or instruction to emit      *)
  env,        (* labels, structures, variables, instructions               *)
  code,       (* the bytes emitted                                         *)
  pos,        (* the second pass's current address                         *)
  file        (* the output file, <<>> until it is written                 *)

tVars == <<round, ast, k, env, code, pos, file>>
vars == <<pVars, tVars>>

NoFlags == [input |-> "", output |-> "", uses |-> <<>>, forced |-> <<>>,
            dirs |-> <<>>, ualf |-> FALSE, symbols |-> FALSE]
Source(files, args) == [files |-> files, args |-> args, flags |-> NoFlags, bytes |-> <<>>]
Raw(bytes, ualf) == [Source(<<>>, <<>>) EXCEPT !.bytes = bytes, !.flags.ualf = ualf]

(* get_flags.  The word after "-i" is looked at once more as the next      *)
(* argument.                                                               *)
Quiet == {"-t", "-S", "-w"}
Options == {"--", "-h=ualf", "-h=elf", "-ud", "--use-debug", "--preview", "--stdlib",
            "-s", "-i", "-u", "-a", "-x"} \cup Quiet
IsDirectory(word) == word \in DOMAIN PathTo /\ PathTo[word][2] = ""
Exists(word) == word \in DOMAIN PathTo
                /\ (IsDirectory(word) \/ PathTo[word] \in DOMAIN program.files)

(* The arguments from the i-th on, looked at one or more at a time.         *)
Reads(i, forced, flags, ok) == [i |-> i, forced |-> forced, flags |-> flags, ok |-> ok]
NextFlag(args, s) ==
  LET i == s.i
      f == s.flags
      a == args[i]
      b == IF i < Len(args) THEN args[i + 1] ELSE ""
      defined == i + 3 <= Len(args) /\ args[i + 2] = "-a"
      Go(n, g) == Reads(i + n, FALSE, g, TRUE)
      Used(name, value, n) == Go(n, [f EXCEPT !.uses = Append(@, <<name, value>>)])
      Searched(spelling, n) ==
        Go(n, IF IsDirectory(b) THEN [f EXCEPT !.dirs = Append(@, <<spelling, PathTo[b][1]>>)]
              ELSE [f EXCEPT !.forced = Append(@, PathTo[b][2])])
      wrong == Reads(Len(args) + 1, FALSE, f, FALSE)
  IN IF i > Len(args) THEN s
     ELSE IF (s.forced \/ a \notin Options) /\ f.input = "" THEN Go(1, [f EXCEPT !.input = a])
     ELSE IF (s.forced \/ a \notin Options) /\ f.output = "" THEN Go(1, [f EXCEPT !.output = a])
     ELSE CASE a = "--" -> Reads(i + 1, TRUE, f, TRUE)
            [] a = "-h=ualf" -> Go(1, [f EXCEPT !.ualf = TRUE])
            [] a = "-s" -> Go(1, [f EXCEPT !.symbols = TRUE])
            [] a \in Quiet -> Go(1, f)
            [] a \in {"-ud", "--use-debug"} -> Used("_DEBUG", "", 1)
            [] a = "--stdlib" /\ IsDirectory(b) ->
                 Searched(IF b \in Detours THEN "absolute" ELSE "canonical", 2)
            [] a = "-i" /\ b \notin Options /\ Exists(b) -> Searched("canonical", 1)
            [] a = "-u" /\ b \notin Options \cup {""} ->
                 IF defined THEN Used(b, args[i + 3], 4)
                 ELSE IF i + 2 = Len(args) /\ args[i + 2] = "-a" THEN wrong
                 ELSE Used(b, "", 2)
            [] OTHER -> wrong
GetFlags(args) ==
  LET read == FoldLeft(LAMBDA s, a : NextFlag(args, s), Reads(1, FALSE, NoFlags, TRUE), args)
  IN [ok |-> read.ok /\ Exists(read.flags.input), flags |-> read.flags]

Init ==
  /\ program \in Programs \cup {Raw(bytes, ualf) : bytes \in Images, ualf \in BOOLEAN}
  /\ stage = IF program.files = <<>> THEN "written" ELSE "start"
  /\ frames = <<>> /\ defines = <<>> /\ refused = FALSE
  /\ round = 1 /\ ast = <<>> /\ k = 1
  /\ env = EmptyEnvironment /\ code = <<>> /\ pos = 0
  /\ file = IF program.files = <<>> THEN program.bytes ELSE <<>>

ReadFlags ==
  /\ stage = "start"
  /\ LET read == GetFlags(program.args)
     IN /\ program' = [program EXCEPT !.flags = read.flags]
        /\ refused' = ~ read.ok
        /\ stage' = IF read.ok THEN "read" ELSE "refused"
  /\ UNCHANGED <<frames, defines, tVars>>

(* Parser's constructor, and parse: nothing runs on a source the tokenizer *)
(* has refused.                                                            *)
Opened(main) ==
  /\ frames' = <<main>>
  /\ refused' = main.err
  /\ stage' = IF main.err THEN "refused" ELSE "preprocess"

ReadSource ==
  /\ stage = "read"
  /\ Opened(Frame(PathTo[program.flags.input], {}))
  /\ UNCHANGED <<program, defines, tVars>>

Rewrite == Preprocess /\ UNCHANGED tVars

(* prog: one statement, or one line end.                                   *)
Keep(toks, s) ==
  /\ s.ast \in Trees
  /\ frames' = SetTop(toks, s.i)
  /\ ast' = IF s.ast = Null THEN ast ELSE Append(ast, s.ast)
  /\ refused' = (refused \/ s.err)

Parse ==
  /\ stage = "parse"
  /\ LET toks == frames[1].toks
         i == frames[1].i
         atEnd == Cur(toks, i).type = "END"
     IN /\ CASE atEnd -> UNCHANGED <<frames, ast, refused>>
             [] Is(toks, i, "\n") ->
                  frames' = SetTop(toks, SkipLine(toks, i)) /\ UNCHANGED <<ast, refused>>
             [] OTHER -> Keep(toks, Statement(toks, i))
        /\ stage' = IF ~ atEnd THEN stage ELSE IF refused THEN "refused" ELSE "analyze"
  /\ UNCHANGED <<program, defines, round, k, env, code, pos, file>>

AnalyzeNext ==
  /\ stage = "analyze" /\ k <= Len(ast)
  /\ LET done == Analyze(env, ast[k])
     IN /\ env' = done.env
        /\ refused' = (refused \/ done.err)
        /\ stage' = IF done.crash THEN "crashed" ELSE stage
  /\ k' = k + 1
  /\ UNCHANGED <<program, frames, defines, round, ast, code, pos, file>>

Analyzed2 ==
  /\ stage = "analyze" /\ k > Len(ast)
  /\ env' = [env EXCEPT !.labels = Closed(env)]
  /\ refused' = (refused \/ env.here > 65536)
  /\ stage' = IF refused' THEN "refused" ELSE "emit"
  /\ k' = 1
  /\ UNCHANGED <<program, frames, defines, round, ast, code, pos, file>>

(* dump_instructions.                                                      *)
EmitNext ==
  /\ stage = "emit" /\ k <= Len(env.items)
  /\ LET item == env.items[k]
         d == Dump(item, pos, ScopeOf(env, item.label))
     IN /\ code' = code \o d.bytes
        /\ refused' = (refused \/ d.err)
        /\ pos' = pos + Length(item)
        /\ stage' = IF d.crash THEN "crashed" ELSE stage
  /\ k' = k + 1
  /\ UNCHANGED <<program, frames, defines, round, ast, env, file>>

(* The output is opened, and what it held is lost, only when every pass    *)
(* went well.                                                              *)
Write ==
  /\ stage = "emit" /\ k > Len(env.items)
  /\ LET h == IF round = 1 THEN Header(env.labels, program.flags)
              ELSE [bytes |-> <<>>, err |-> FALSE]
         bad == refused \/ h.err \/ (round = 1 /\ IsDirectory(program.flags.output))
     IN /\ refused' = bad
        /\ stage' = IF bad THEN "refused" ELSE IF round = 1 THEN "written" ELSE "done"
        /\ file' = IF bad \/ round = 2 THEN file ELSE h.bytes \o code
  /\ UNCHANGED <<program, frames, defines, round, ast, k, env, code, pos>>

(* The disassembler reads the file the way it was written, and its text is *)
(* a source for the assembler.                                             *)
CodeIn(f) == IF program.flags.ualf THEN SubSeq(f, Process(f).used + 1, Len(f)) ELSE f

Disassemble ==
  /\ stage = "written"
  /\ IF program.flags.ualf /\ ~ Process(file).ok
     THEN stage' = "unreadable" /\ UNCHANGED <<frames, round, ast, k, env, code, pos>>
     ELSE /\ stage' = "parse"
          /\ frames' = <<[file |-> Main, i |-> 1, err |-> FALSE, modules |-> {},
                          toks |-> Append(Disassembled(CodeIn(file)), End(Main))]>>
          /\ round' = 2 /\ ast' = <<>> /\ k' = 1
          /\ env' = EmptyEnvironment /\ code' = <<>> /\ pos' = 0
  /\ UNCHANGED <<program, defines, refused, file>>

Ended == stage \in {"refused", "crashed", "unreadable", "done"} /\ UNCHANGED vars

Next == \/ ReadFlags \/ ReadSource \/ Rewrite \/ Parse \/ AnalyzeNext \/ Analyzed2 \/ EmitNext
        \/ Write \/ Disassemble \/ Ended

Spec == Init /\ [][Next]_vars
-----------------------------------------------------------------------------
Stages == {"start", "read", "preprocess", "parse", "analyze", "emit", "written",
           "refused", "crashed", "unreadable", "done"}

TypeOK ==
  /\ stage \in Stages /\ refused \in BOOLEAN /\ round \in {1, 2}
  /\ k \in 1 .. Len(ast) + Len(env.items) + 1 /\ env.here \in Nat /\ pos \in Nat
  /\ \A j \in 1 .. Len(frames) : frames[j].i \in 1 .. Len(frames[j].toks) + 2
  /\ ToSet(code) \cup ToSet(file) \subseteq Bytes
  /\ stage = "refused" => refused

(* No file is read inside itself, when every directory searched has been   *)
(* given by its canonical path.                                            *)
ImportChainAcyclic ==
  (\A j \in 1 .. Len(program.flags.dirs) : program.flags.dirs[j][1] = "canonical")
    => IsInjective([j \in 1 .. Len(frames) |-> frames[j].file])

(* A tree the analyzer is given has no hole in it.                         *)
Whole[tree \in Trees] == tree # Null /\ \A j \in 1 .. Len(tree.kids) : Whole[tree.kids[j]]
NoHoles == stage = "analyze" => \A j \in 1 .. Len(ast) : Whole[ast[j]]

(* The first pass and the second agree on where a label is: at the end of  *)
(* what has been emitted when the second pass comes to it.                 *)
LabelsAddressed ==
  stage = "emit" /\ ~ refused =>
    /\ pos = Len(code)
    /\ \A name \in DOMAIN env.labels :
         env.labels[name].at = k - 1 => env.labels[name].address = Len(code)

(* So they do in every program whose variables are pushed as a byte or a   *)
(* word, or have their room made in one step: not an empty array, and not  *)
(* a structure with a value.                                               *)
Plain ==
  \A j \in 1 .. Len(env.items) :
    env.items[j].mode \in {"IMMEDIATE_BYTE", "IMMEDIATE_WORD"} => env.items[j].size \in {1, 2}
LabelsAgree == Plain => LabelsAddressed

(* In such a program a jump "* label" goes to the label from where its own *)
(* bytes end up.                                                           *)
Signed(b) == IF b < 128 THEN b ELSE b - 256
JumpsLand ==
  [][Plain /\ stage = "emit" /\ code' # code /\ ~ refused' /\ Jump(env.items[k].name)
       /\ env.items[k].mode = "MEMORY_RELATIVE_TO_PC" /\ IsId[env.items[k].op1]
     => Len(code') + Signed(Last(code'))
          = Evaluate(env.items[k].op1, pos, ScopeOf(env, env.items[k].label)).v]_vars

(* The table and the entry point a file is written with lead to the code   *)
(* of the labels in it.                                                    *)
SymbolsLand ==
  stage = "written" /\ program.files # <<>> /\ program.flags.ualf =>
    LET h == Process(file)
        Leads(name, offset) == offset - h.used = env.labels[name].address
    IN /\ h.ok /\ Leads("_code", WordOf(file, 5))
       /\ DOMAIN h.symbols = IF ~ program.flags.symbols THEN {}
                             ELSE {Spelling[name] : name \in ToSet(PublicLabels(env.labels))}
       /\ program.flags.symbols => \A name \in ToSet(PublicLabels(env.labels)) :
            Leads(name, h.symbols[Spelling[name]])
=============================================================================
