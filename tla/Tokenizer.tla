------------------------------ MODULE Tokenizer ------------------------------
(***************************************************************************)
(* The assembler's lexical scanner (assembler/include/tokenizer.hh).       *)
(*                                                                         *)
(* A source text is a sequence of symbols, one symbol per character,       *)
(* except that a word (identifier, keyword, mnemonic, register or number)  *)
(* is one symbol: how it is spelled decides only its class.                *)
(***************************************************************************)
EXTENDS Integers, Sequences, FiniteSets, SequencesExt, Encoding

CONSTANTS
  Numbers,   (* the numeric words, a function from each to its value       *)
  CharCode   (* the code of each symbol that occurs between quotes         *)

(* Words no tokenizer accepts as a number, and one that parse_number       *)
(* rejects later.                                                          *)
Garbled == {"1x"}
Unparsable == {"0xz"}

Keywords == {"use", "as", "import", "if", "endif", "elif", "org", "section",
             "local", "global", "structure", "var", "reserve"}
Types == {"byte", "word"}
LowRegisters  == <<"l0", "l1", "l2", "l3", "l4", "l5", "l6", "l7">>
FullRegisters == <<"r0", "r1", "r2", "r3", "r4", "r5", "r6", "r7">>
Registers == ToSet(LowRegisters) \cup ToSet(FullRegisters)

Low8(register) == register \in ToSet(LowRegisters)
RegisterNumber(register) ==
  CHOOSE n \in 0 .. 7 : register \in {LowRegisters[n + 1], FullRegisters[n + 1]}

Blank == {" "}
Quotes == {"\"", "'"}
Classes ==
  {<<"NEW_LINE", {"\n"}>>, <<"SEPARATOR", {",", ".", ":"}>>, <<"COMMENT", {";"}>>,
   <<"OPEN_SQUARE_BRACKET", {"["}>>, <<"CLOSED_SQUARE_BRACKET", {"]"}>>,
   <<"OPEN_ROUND_BRACKET", {"("}>>, <<"CLOSED_ROUND_BRACKET", {")"}>>,
   <<"BINARY_OPERATOR", {"+", "-", "*", "/"}>>, <<"OTHER", {"&", "=", "!"}>>,
   <<"CURRENT_ADDRESS", {"$"}>>}
Signs == UNION {class[2] : class \in Classes}
SignType(ch) == (CHOOSE class \in Classes : ch \in class[2])[1]
NumericWords == DOMAIN Numbers \cup Unparsable

(* A token: its text, the value of a number, the characters of a string,   *)
(* and the module it was read from.                                        *)
Token(type, text, n, chars, file) ==
  [type |-> type, text |-> text, n |-> n, chars |-> chars, file |-> file]
End(file) == Token("END", "", 0, <<>>, file)

(* eat_id_or_keyword.                                                      *)
WordType(w) ==
  IF w \in Keywords THEN "KEYWORD"
  ELSE IF w \in Types THEN "TYPE"
  ELSE IF w \in {"sizeof", "offset"} THEN "UNARY_LEFT_OPERATOR"
  ELSE IF w \in Mnemonics \cup {"jz", "jnz"} THEN "INSTRUCTION"
  ELSE IF w \in Registers THEN "REGISTER"
  ELSE "IDENTIFIER"
-----------------------------------------------------------------------------
WithoutCommentsAnywhere(text) ==   \* mutant
  LET Step(s, ch) == [comment |-> ch = ";" \/ (s.comment /\ ch # "\n"),
                      out |-> IF ch = ";" \/ (s.comment /\ ch # "\n") THEN s.out
                              ELSE Append(s.out, ch)]
  IN FoldLeft(Step, [out |-> <<>>, comment |-> FALSE], text).out

(* remove_comments, with its own idea of where a string ends: after a      *)
(* backslash in a string, every further backslash keeps the escape on.     *)
WithoutComments(text) ==
  LET Step(s, ch) ==
        IF s.open # ""
        THEN [s EXCEPT !.out    = Append(@, ch),
                       !.open   = IF ch = s.open /\ ~ s.escape THEN "" ELSE @,
                       !.escape = ch = "\\"]
        ELSE IF ~ s.comment /\ ch \in Quotes
        THEN [s EXCEPT !.open = ch, !.out = Append(@, ch)]
        ELSE IF ch = ";"
        THEN [s EXCEPT !.comment = TRUE]
        ELSE [s EXCEPT !.comment = @ /\ ch # "\n",
                       !.out = IF s.comment /\ ch # "\n" THEN @ ELSE Append(@, ch)]
  IN FoldLeft(Step, [out |-> <<>>, open |-> "", escape |-> FALSE,
                     comment |-> FALSE], text).out

(* What one eat reads: the token, the position the scanner goes on from,   *)
(* and whether an error was reported.  The scanner goes on at the token's  *)
(* position plus the length of its VALUE, which is the length of its text  *)
(* only when the text holds no escape and is no character constant.        *)
Eaten(token, resume) == [token |-> token, resume |-> resume, err |-> FALSE]
Failed(i, file) == [token |-> End(file), resume |-> i, err |-> TRUE]

(* The positions of text that a backslash escapes in the string opened at i.*)
EscapedIn(text, i) ==
  LET esc[k \in i .. Len(text)] ==
        k > i + 1 /\ text[k - 1] = "\\" /\ ~ esc[k - 1]
  IN {k \in i .. Len(text) : esc[k]}

Digits(n) == IF n < 10 THEN 1 ELSE IF n < 100 THEN 2 ELSE 3

EscapeOf == [n |-> "\n", t |-> "\t"] @@ ("0" :> "\\0") @@ ("\\" :> "\\")

(* eat_string.  An unknown escape keeps its backslash.                     *)
Unescaped(text, k, escaped) ==
  IF k \notin escaped THEN IF text[k] = "\\" THEN <<>> ELSE <<text[k]>>
  ELSE IF text[k] \in DOMAIN EscapeOf THEN <<EscapeOf[text[k]]>> ELSE <<"\\", text[k]>>
Between(text, i, close, escaped) ==
  FoldLeft(LAMBDA s, k : s \o Unescaped(text, k, escaped), <<>>,
           [j \in 1 .. close - i - 1 |-> i + j])
Quoted(quote, i, chars, file) ==
  IF quote = "'" /\ Len(chars) = 1
  THEN Eaten(Token("NUMBER_LITERAL", "#", CharCode[chars[1]], <<>>, file),
             i + Digits(CharCode[chars[1]]))
  ELSE Eaten(Token("STRING_LITERAL", "\"", 0, chars, file), i + 2 + Len(chars))

EatString(text, i, file) ==
  LET escaped == EscapedIn(text, i)
      ends == {k \in i + 1 .. Len(text) : text[k] = text[i] /\ k \notin escaped}
  IN IF ends = {} THEN Failed(i, file)
     ELSE Quoted(text[i], i, Between(text, i, Min(ends), escaped), file)

(* eat: blanks first, then by the first character.                         *)
EatAt(text, i, ch, file) ==
  LET Is(type, n) == Eaten(Token(type, IF type = "NUMBER_LITERAL" THEN "#" ELSE ch,
                                 n, <<>>, file), i + 1)
  IN IF ch \in Quotes THEN EatString(text, i, file)
     ELSE IF ch \in Signs THEN Is(SignType(ch), 0)
     ELSE IF ch \in DOMAIN Numbers THEN Is("NUMBER_LITERAL", Numbers[ch])
     ELSE IF ch \in Unparsable THEN Is("NUMBER_LITERAL", -1)
     ELSE IF ch \in Garbled \cup {"\\"} THEN Failed(i, file)
     ELSE Is(WordType(ch), 0)
EatFrom(text, starts, file) ==
  IF starts = {} THEN Eaten(End(file), Len(text) + 1)
  ELSE EatAt(text, Min(starts), text[Min(starts)], file)
Eat(text, i, file) ==
  EatFrom(text, {k \in i .. Len(text) : text[k] \notin Blank}, file)

(* tokenize: everything up to and including the first END.                 *)
EatAll(text, file) ==
  LET from[i \in 1 .. Len(text) + 1] ==
        LET e == Eat(text, i, file)
        IN <<e>> \o (IF e.token.type = "END" THEN <<>> ELSE from[e.resume])
  IN from[1]
Tokens(eaten) == [tokens |-> [k \in DOMAIN eaten |-> eaten[k].token],
                  err    |-> \E k \in DOMAIN eaten : eaten[k].err]
Tokenize(text, file) == Tokens(EatAll(WithoutComments(text), file))
=============================================================================
