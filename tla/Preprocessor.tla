---------------------------- MODULE Preprocessor ----------------------------
(***************************************************************************)
(* The preprocessor of the assembler (Parser::preprocessor and what it     *)
(* calls, assembler/include/parser.hh): a rewriting of the token list in   *)
(* place, with one nested parser for each import.                          *)
(*                                                                         *)
(* A file is a pair <<directory, name>>.  The module list of a parser      *)
(* holds paths as they were spelled, and a file has more than one: its     *)
(* canonical path, and what is glued together from a directory of the      *)
(* command line: the same for one given with -i, which is made canonical,  *)
(* but not for every one given with --stdlib, which is only made absolute. *)
(***************************************************************************)
EXTENDS Tokenizer

VARIABLES
  program,  (* the files and flags of this run of the assembler            *)
  stage,    (* how far the run has come                                    *)
  frames,   (* the nested parsers, the main file's first                   *)
  defines,  (* the aliases, shared by every parser                         *)
  refused   (* an error was reported                                       *)

pVars == <<program, stage, frames, defines, refused>>

Canonical(file) == <<"canonical", file>>
Main == <<"main", "main">>

(* Tokenizer's constructor: the command line's aliases, then its imports,  *)
(* are put one by one in front of every file.                              *)
Prelude(flags) ==
  LET Use(u) == IF u[2] = "" THEN <<"use", " ", u[1], "\n">>
                ELSE <<"use", " ", u[1], " ", "as", " ", u[2], "\n">>
      Forced(name) == <<"import", " ", "\"", name, "\"", "\n">>
      InFront(op(_), s) == FlattenSeq(Reverse([k \in 1 .. Len(s) |-> op(s[k])]))
  IN InFront(Forced, flags.forced) \o InFront(Use, flags.uses)

KnownCallers(file, modules) == modules   \* mutant
Known(file, modules) == modules \cup {Canonical(file)}

(* A new parser: its tokens, and its own path among the modules it knows.  *)
(* A directory reads as an empty file.                                     *)
Framed(file, modules, read) ==
  [file |-> file, toks |-> read.tokens, i |-> 1, err |-> read.err,
   modules |-> Known(file, modules)]
Frame(file, modules) ==
  LET text == IF file[2] = "" THEN <<>> ELSE program.files[file]
  IN Framed(file, modules, Tokenize(Prelude(program.flags) \o text, file))

Cur(toks, i) == IF i <= Len(toks) THEN toks[i] ELSE End(Main)
LineEnd(toks, i) == Cur(toks, i).type \in {"NEW_LINE", "END"}

Least(S) == CHOOSE k \in S : \A j \in S : k <= j

(* skip_line: only past line ends, from where the cursor stands.           *)
SkipLine(toks, i) ==
  Least({k \in i .. Len(toks) + 1 : Cur(toks, k).type # "NEW_LINE"} \cup {Len(toks) + 2})

(* remove_current_token, n times.                                          *)
Without(toks, i, n) == SubSeq(toks, 1, i - 1) \o SubSeq(toks, i + n, Len(toks))

Substituted(t) ==
  /\ t.type \in {"KEYWORD", "IDENTIFIER", "TYPE"}
  /\ t.text \in DOMAIN defines
  /\ defines[t.text].type # "END"
Directive(t) == t.text \in {"use", "if", "import"}

top == frames[Len(frames)]
NextSpot(toks, i) ==   \* the next token the main loop does more than pass over
  Least({k \in i .. Len(toks) : \/ Directive(toks[k]) \/ Substituted(toks[k])
                               \/ toks[k].type = "END"})
-----------------------------------------------------------------------------
(* use_as: what is left of the tokens, and the alias if the line is right. *)
NoAlias == Token("END", "", 0, <<>>, Main)

UseAs(toks, i) ==
  LET Bad(n) == [toks |-> Without(toks, i, n), alias |-> <<>>, err |-> TRUE,
                 i |-> SkipLine(Without(toks, i, n), i)]
      Good(n, sub) == [toks |-> Without(toks, i, n), i |-> i, err |-> FALSE,
                       alias |-> <<toks[i + 1].text, sub>>]
  IN IF Cur(toks, i + 1).type # "IDENTIFIER" THEN Bad(1)
     ELSE IF Cur(toks, i + 2).text # "as"
     THEN IF LineEnd(toks, i + 2) THEN Good(2, NoAlias) ELSE Bad(2)
     ELSE IF LineEnd(toks, i + 3) THEN Bad(3)
     ELSE IF LineEnd(toks, i + 4) THEN Good(4, toks[i + 3]) ELSE Bad(4)

SameValue(s, t) == s.text = t.text /\ s.n = t.n /\ s.chars = t.chars

(* conditional's guard: the condition and how many tokens it takes up, or  *)
(* an exception.                                                           *)
Guard(toks, i) ==
  LET negated == Cur(toks, i + 1).text = "!"
      k == IF negated THEN i + 2 ELSE i + 1
      wellFormed == /\ Cur(toks, k).type = "IDENTIFIER"
                    /\ Cur(toks, k + 1).text = "then"
                    /\ Cur(toks, k + 2).text = "\n"
  IN [thrown |-> ~ wellFormed,
      holds  |-> negated # (Cur(toks, k).text \in DOMAIN defines),
      width  |-> k + 3 - i]

ChosenAgain(taken, holds) == holds   \* mutant
Chosen(taken, holds) == ~ taken /\ holds

(* conditional: the scan from behind a guard to its endif: the tokens that *)
(* are kept, and the position the rest of the list starts at.              *)
Stopped(next, outcome) == [kept |-> <<>>, next |-> next, outcome |-> outcome]
Deeper(t, depth) == CASE t.text = "if" -> depth + 1
                      [] t.text = "endif" -> depth - 1
                      [] OTHER -> depth

Select(toks, start, holds) ==
  LET from[i \in 1 .. Len(toks) + 1, active \in BOOLEAN, taken \in BOOLEAN,
           depth \in 0 .. Len(toks)] ==
        LET t == Cur(toks, i)
            g == Guard(toks, i)
        IN IF t.type = "END" THEN Stopped(i, "missing endif")
           ELSE IF t.text = "endif" /\ depth = 0 THEN Stopped(i + 1, "rescan")
           ELSE IF t.text = "elif" /\ depth = 0
           THEN IF g.thrown THEN Stopped(i, "thrown")
                ELSE from[i + g.width, Chosen(taken, g.holds), taken \/ g.holds, 0]
           ELSE [from[i + 1, active, taken, Deeper(t, depth)] EXCEPT
                   !.kept = (IF active THEN <<t>> ELSE <<>>) \o @]
  IN from[start, holds, holds, 0]
-----------------------------------------------------------------------------
(* import: a file beside the importing one, else in the first import       *)
(* directory that has it.  flags.dirs is a sequence of <<spelling,         *)
(* directory>>.                                                            *)
Located(from, name) ==
  LET beside == <<from[1], name>>
      holders == {k \in 1 .. Len(program.flags.dirs) :
                    <<program.flags.dirs[k][2], name>> \in DOMAIN program.files}
      dir == program.flags.dirs[Least(holders)]
  IN IF beside \in DOMAIN program.files THEN <<Canonical(beside)>>
     ELSE IF holders # {} THEN <<<<dir[1], <<dir[2], name>>>>>>
     ELSE <<>>

NameOf(t) == IF t.type = "STRING_LITERAL"
             THEN IF t.chars = <<>> THEN "" ELSE t.chars[1]
             ELSE t.text

(* The end of an import line: the cursor is on the file name.              *)
EndOfImport(toks, i) ==
  IF Cur(toks, i + 1).text = "\n"
  THEN [toks |-> Without(toks, i, 2), i |-> i, err |-> FALSE]
  ELSE [toks |-> Without(toks, i, 1), i |-> i, err |-> TRUE]

SetTop(toks, i) == [frames EXCEPT ![Len(frames)].toks = toks, ![Len(frames)].i = i]
KnowingNothing(fs, modules) == fs   \* mutant
Knowing(fs, modules) == [fs EXCEPT ![Len(fs)].modules = modules]
At == NextSpot(top.toks, top.i)
Reading == stage = "preprocess" /\ frames # <<>>

Substitute ==
  /\ Reading /\ Substituted(top.toks[At])
  /\ LET t == top.toks[At]
         d == defines[t.text]
     IN frames' = SetTop([top.toks EXCEPT ![At] = [d EXCEPT !.file = t.file]], At + 1)
  /\ UNCHANGED <<program, stage, defines, refused>>

Define ==
  /\ Reading /\ ~ Substituted(top.toks[At]) /\ top.toks[At].text = "use"
  /\ LET u == UseAs(top.toks, At)
         id == u.alias[1]
         known == u.alias # <<>> /\ id \in DOMAIN defines
     IN /\ frames' = SetTop(u.toks, u.i)
        /\ defines' = IF u.err \/ known THEN defines
                      ELSE (id :> u.alias[2]) @@ defines
        /\ refused' = (\/ refused \/ u.err
                       \/ known /\ ~ SameValue(defines[id], u.alias[2]))
  /\ UNCHANGED <<program, stage>>

(* An exception leaves the assembler at once.                              *)
Selected(s) ==
  /\ stage' = IF s.outcome = "thrown" THEN "refused" ELSE stage
  /\ frames' = IF s.outcome = "thrown" THEN <<>>
               ELSE SetTop(SubSeq(top.toks, 1, At - 1) \o s.kept
                             \o SubSeq(top.toks, s.next, Len(top.toks)),
                           IF s.outcome = "rescan" THEN At ELSE At + Len(s.kept))
  /\ refused' = (refused \/ s.outcome # "rescan")

Conditional ==
  /\ Reading /\ ~ Substituted(top.toks[At]) /\ top.toks[At].text = "if"
  /\ LET g == Guard(top.toks, At)
     IN Selected(IF g.thrown THEN Stopped(At, "thrown")
                 ELSE Select(top.toks, At + g.width, g.holds))
  /\ UNCHANGED <<program, defines>>

Nest(toks, modules, child) ==
  /\ frames' = Append(Knowing(SetTop(toks, At), modules), child)
  /\ refused' = (refused \/ child.err)

Import ==
  /\ Reading /\ ~ Substituted(top.toks[At]) /\ top.toks[At].text = "import"
  /\ LET toks == Without(top.toks, At, 1)
         t == Cur(toks, At)
         found == Located(top.file, NameOf(t))
         bad == t.type \notin {"IDENTIFIER", "STRING_LITERAL"} \/ found = <<>>
         rest == EndOfImport(toks, At)
     IN \/ /\ bad
           /\ frames' = SetTop(toks, SkipLine(toks, At))
           /\ refused' = TRUE
        \/ /\ ~ bad /\ found[1] \in top.modules
           /\ frames' = SetTop(rest.toks, rest.i)
           /\ refused' = (refused \/ rest.err)
        \/ /\ ~ bad /\ found[1] \notin top.modules
           /\ Nest(toks, top.modules \cup {found[1]},
                   Frame(found[1][2], top.modules \cup {found[1]}))
  /\ UNCHANGED <<program, stage, defines>>

(* The end of an imported file: its tokens, without the END, go in front   *)
(* of the name on the import line, which is then finished.                 *)
Return ==
  /\ Reading /\ top.toks[At].type = "END" /\ Len(frames) > 1
  /\ LET parent == frames[Len(frames) - 1]
         k == Least({j \in 1 .. Len(top.toks) : top.toks[j].type = "END"})
         toks == SubSeq(parent.toks, 1, parent.i - 1) \o SubSeq(top.toks, 1, k - 1)
                   \o SubSeq(parent.toks, parent.i, Len(parent.toks))
         rest == EndOfImport(toks, parent.i + k - 1)
     IN /\ frames' = [SubSeq(frames, 1, Len(frames) - 1) EXCEPT
                        ![Len(frames) - 1] = [parent EXCEPT !.toks = rest.toks,
                                                            !.i = rest.i]]
        /\ refused' = (refused \/ rest.err)
  /\ UNCHANGED <<program, stage, defines>>

(* The end of the main file: errors end the run, otherwise it is parsed.   *)
Preprocessed ==
  /\ Reading /\ top.toks[At].type = "END" /\ Len(frames) = 1
  /\ stage' = IF refused THEN "refused" ELSE "parse"
  /\ frames' = SetTop(top.toks, 1)
  /\ UNCHANGED <<program, defines, refused>>

Preprocess == \/ Substitute \/ Define \/ Conditional \/ Import \/ Return
              \/ Preprocessed
=============================================================================
