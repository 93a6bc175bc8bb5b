------------------------------- MODULE Grammar -------------------------------
(***************************************************************************)
(* The recursive descent parser of the assembler (assembler/include/       *)
(* parser.hh from prog on), as functions of the token list and the cursor. *)
(* Each returns the tree it built, the cursor it left, and whether it      *)
(* reported an error; a rule that fails returns Null, which its caller     *)
(* hangs into the tree like any other child.                               *)
(***************************************************************************)
EXTENDS Preprocessor

NoTok == Token("OTHER", "", 0, <<>>, Main)
Node(rule, kids) == [rule |-> rule, tok |-> NoTok, kids |-> kids]
Leaf(t)  == [rule |-> "NONE", tok |-> t, kids |-> <<>>]
Null     == [rule |-> "NULL", tok |-> NoTok, kids |-> <<>>]

(* The trees of the programs modelled are nested at most Depth deep; the    *)
(* recursion over a deeper one may overflow the program's stack.           *)
CONSTANT Depth
ASSUME DepthAssumption == Depth \in Nat

(* What STRING means for the words of a number's node: the provers leave    *)
(* it open, so the proofs cite it and TLC evaluates it.                     *)
ASSUME WordsAssumption == {"NUMBER_LITERAL", "#", "main", "NONE"} \subseteq STRING

TokenSet == [type : STRING, text : STRING, n : Int, chars : Seq(STRING),
             file : STRING \X STRING]
TreeOf[d \in Nat] ==
  [rule : STRING, tok : TokenSet, kids : IF d = 0 THEN {<<>>} ELSE Seq(TreeOf[d - 1])]
Trees == TreeOf[Depth]

Parsed(ast, i, err) == [ast |-> ast, i |-> i, err |-> err]
FailSilently(i) == Parsed(Null, i, FALSE)   \* mutant
Fail(i) == Parsed(Null, i, TRUE)
FailSkip(toks, i) == Fail(SkipLine(toks, i))

Is(toks, i, word) == Cur(toks, i).text = word
Typed(toks, i, type) == Cur(toks, i).type = type
Leaves(toks, i, j) == [k \in 1 .. j - i + 1 |-> Leaf(Cur(toks, i + k - 1))]

Words(toks, i, words) == Cur(toks, i).text \in words
Sign(toks, i) == Words(toks, i, {"+", "-"})

(* The tokens an expression may begin with, as the rules test for them.    *)
Starts(toks, i) ==
  \/ Cur(toks, i).type \in {"IDENTIFIER", "NUMBER_LITERAL", "OPEN_ROUND_BRACKET"}
  \/ Words(toks, i, {"+", "-", "sizeof", "offset", "word", "byte", "$"})
Register(toks, i) == Typed(toks, i, "REGISTER")
LowRegister(toks, i) == Register(toks, i) /\ Low8(Cur(toks, i).text)
-----------------------------------------------------------------------------
(* Expressions associate to the left: [[a + b] - c].  What follows the      *)
(* first operand is read as a list of operators with their operands.       *)
Rest(ops, i, err) == [ops |-> ops, i |-> i, err |-> err]
LeftToRight(first, ops) ==
  LET Join(tree, op) ==
        Node("EXPRESSION", <<[tree EXCEPT !.kids = @ \o <<Leaf(op[1]), op[2]>>]>>)
  IN FoldLeft(Join, Node("EXPRESSION", <<first>>), ops)
Joined(p, rest) == Parsed(LeftToRight(p.ast, rest.ops), rest.i, p.err \/ rest.err)
Preceding(operator, p, rest) ==
  Rest(<<<<operator, p.ast>>>> \o rest.ops, rest.i, p.err \/ rest.err)
Closing(toks, p) ==
  IF Is(toks, p.i, ")") THEN [p EXCEPT !.i = @ + 1] ELSE FailSkip(toks, p.i)

(* A sign before a low register is the caller's index, not an operator.    *)
Adds(toks, i) == Sign(toks, i) /\ ~ LowRegister(toks, i + 1)
Multiplies(toks, i) == Words(toks, i, {"*", "/"})

(* expression, multiplication and atom, and the rests of the first two.    *)
(* A register is no atom, and no error either.                             *)
ExpressionRules == {"expression", "terms", "multiplication", "factors", "atom"}
Expression(toks, start) ==
  LET read[rule \in ExpressionRules, i \in 1 .. Len(toks) + 2] ==
        LET t == toks[i]
            Operands(operand, rest) == Joined(read[operand, i], read[rest, read[operand, i].i])
            More(operand, rest) ==
              Preceding(t, read[operand, i + 1], read[rest, read[operand, i + 1].i])
            Under(tree, p) == [p EXCEPT !.ast = [tree EXCEPT !.kids = Append(@, p.ast)]]
        IN CASE rule = "expression" -> Operands("multiplication", "terms")
             [] rule = "multiplication" -> Operands("atom", "factors")
             [] rule = "terms" -> IF Adds(toks, i) THEN More("multiplication", "terms")
                                  ELSE Rest(<<>>, i, FALSE)
             [] rule = "factors" -> IF Multiplies(toks, i) THEN More("atom", "factors")
                                    ELSE Rest(<<>>, i, FALSE)
             [] rule = "atom" ->
                  CASE Typed(toks, i, "OPEN_ROUND_BRACKET") ->
                         Closing(toks, read["expression", i + 1])
                    [] Typed(toks, i, "UNARY_LEFT_OPERATOR") ->
                         IF Typed(toks, i + 1, "IDENTIFIER")
                         THEN Parsed(Node("EXPRESSION", Leaves(toks, i, i + 1)), i + 2, FALSE)
                         ELSE Fail(i + 1)
                    [] Typed(toks, i, "BINARY_OPERATOR") /\ Sign(toks, i) ->
                         Under([Node("EXPRESSION", <<>>) EXCEPT !.tok = t], read["atom", i + 1])
                    [] Typed(toks, i, "TYPE") ->
                         Under(Node("EXPRESSION", <<Leaf(t)>>), read["expression", i + 1])
                    [] Cur(toks, i).type \in {"NUMBER_LITERAL", "IDENTIFIER", "CURRENT_ADDRESS"} ->
                         Parsed(Leaf(t), i + 1, FALSE)
                    [] Typed(toks, i, "REGISTER") -> Parsed(Null, i, FALSE)
                    [] OTHER -> Fail(i + 1)
  IN read["expression", start]

(* The rest of a rule: the children read so far, then an expression.       *)
WithExpression(toks, rule, kids, i) ==
  [Expression(toks, i) EXCEPT !.ast = Node(rule, Append(kids, @))]

(* What a rule e has read, and the tokens up to j; and an expression after. *)
UpTo(toks, e, j) ==
  Parsed(Node(e.ast.rule, e.ast.kids \o Leaves(toks, e.i, j)), j + 1, e.err)
Continued(toks, e, j) ==
  [WithExpression(toks, e.ast.rule, UpTo(toks, e, j).ast.kids, j + 1) EXCEPT !.err = @ \/ e.err]
-----------------------------------------------------------------------------
AtLineEnd(toks, e) == IF LineEnd(toks, e.i) THEN e ELSE Fail(e.i + 1)
Org(toks, i) ==
  IF ~ Starts(toks, i + 1) THEN FailSkip(toks, i)
  ELSE AtLineEnd(toks, WithExpression(toks, "ORIGIN", Leaves(toks, i, i), i + 1))

Section(toks, i) ==
  IF ~ Is(toks, i + 1, ".") THEN Fail(i + 2)
  ELSE IF ~ Typed(toks, i + 2, "IDENTIFIER") THEN Fail(i + 3)
  ELSE IF ~ LineEnd(toks, i + 3) THEN Fail(i + 4)
  ELSE Parsed(Node("SECTION", Leaves(toks, i, i + 2)), i + 4, FALSE)

StructureEl(toks, start) ==
  LET read[i \in 1 .. Len(toks) + 2] ==
        LET after == SkipLine(toks, i + 4)
            own   == Leaves(toks, i, i + 2)
        IN IF ~ Is(toks, i + 1, ":") THEN FailSkip(toks, i + 1)
           ELSE IF ~ Words(toks, i + 2, {"word", "byte"}) THEN FailSkip(toks, i + 2)
           ELSE IF ~ Is(toks, i + 3, ",") THEN Parsed(Node("STRUCT_DEF", own), i + 3, FALSE)
           ELSE IF ~ Typed(toks, after, "IDENTIFIER")
           THEN Parsed(Node("STRUCT_DEF", Leaves(toks, i, i + 3)), after, FALSE)
           ELSE [read[after] EXCEPT
                   !.ast = Node("STRUCT_DEF", Append(Leaves(toks, i, i + 3), @))]
  IN read[start]

Structure(toks, i) ==
  LET body == SkipLine(toks, i + 3)
      el   == StructureEl(toks, body)
  IN IF ~ Typed(toks, i + 1, "IDENTIFIER") THEN FailSkip(toks, i + 1)
     ELSE IF ~ Is(toks, i + 2, ":") THEN Fail(i + 3)
     ELSE IF ~ Typed(toks, body, "IDENTIFIER") THEN FailSkip(toks, body)
     ELSE Parsed(Node("STRUCT_DEF", Append(Leaves(toks, i, i + 2), el.ast)),
                 el.i, el.err)

Label(toks, i) ==
  LET scoped == Words(toks, i, {"global", "local"})
      k == IF scoped THEN i + 1 ELSE i
  IN IF ~ Typed(toks, k, "IDENTIFIER") THEN Fail(k + 1)
     ELSE IF ~ Is(toks, k + 1, ":") THEN Fail(k + 2)
     ELSE Parsed(Node("LABEL", Leaves(toks, i, k + 1)), k + 2, FALSE)

(* The comma before a line end is left unread.                             *)
ListElement(toks, i) ==
  LET reserve == Is(toks, i, "reserve")
  IN IF Typed(toks, i, "STRING_LITERAL")
     THEN Parsed(Node("EXPRESSION_LIST", Leaves(toks, i, i)), i + 1, FALSE)
     ELSE IF reserve THEN WithExpression(toks, "EXPRESSION_LIST", Leaves(toks, i, i), i + 1)
     ELSE WithExpression(toks, "EXPRESSION_LIST", <<>>, i)
ExpList(toks, start) ==
  LET read[i \in 1 .. Len(toks) + 2] ==
        LET first == ListElement(toks, i)
            more  == read[first.i + 1]
        IN IF Is(toks, i, "reserve") /\ ~ Starts(toks, i + 1) THEN FailSkip(toks, i)
           ELSE IF ~ Is(toks, first.i, ",") THEN AtLineEnd(toks, first)
           ELSE IF LineEnd(toks, first.i + 1) THEN first
           ELSE Parsed([first.ast EXCEPT !.kids = Append(@, more.ast)], more.i,
                       first.err \/ more.err)
  IN read[start]

TypeName(toks, k) == Words(toks, k, {"byte", "word"}) \/ Typed(toks, k, "IDENTIFIER")
Declared(toks, whole) ==
  IF LineEnd(toks, whole.i) THEN [whole EXCEPT !.i = @ + 1] ELSE Fail(whole.i + 1)
DeclareMany(toks, i, size) ==
  LET k == size.i      \* the type
  IN IF ~ TypeName(toks, k) THEN Fail(k + 1)
     ELSE IF ~ Is(toks, k + 1, "]") THEN Fail(k + 2)
     ELSE IF Is(toks, k + 2, "=") THEN Fail(k + 3)
     ELSE Declared(toks, UpTo(toks, [size EXCEPT
                                       !.ast = Node("DECLARATION", Append(Leaves(toks, i, i + 3), @))],
                              k + 1))
DeclareOne(toks, i) ==
  IF ~ TypeName(toks, i + 3) THEN Fail(i + 4)
  ELSE Declared(toks, IF Is(toks, i + 4, "=")
                      THEN WithExpression(toks, "DECLARATION", Leaves(toks, i, i + 4), i + 5)
                      ELSE Parsed(Node("DECLARATION", Leaves(toks, i, i + 3)), i + 4, FALSE))
Declaration(toks, i) ==
  IF ~ Typed(toks, i + 1, "IDENTIFIER") THEN Fail(i + 2)
  ELSE IF ~ Is(toks, i + 2, ":") THEN Fail(i + 3)
  ELSE IF ~ Is(toks, i + 3, "[") THEN DeclareOne(toks, i)
  ELSE IF ~ Starts(toks, i + 4) THEN FailSkip(toks, i + 4)
  ELSE DeclareMany(toks, i, Expression(toks, i + 4))
-----------------------------------------------------------------------------
(* The operands of an instruction.  "id [ e ]" leaves the bracket unread   *)
(* when no comma follows it.                                               *)
Element(toks, e) ==
  IF ~ Is(toks, e.i, "]") THEN FailSkip(toks, e.i)
  ELSE IF ~ Is(toks, e.i + 1, ",") THEN [UpTo(toks, e, e.i) EXCEPT !.i = e.i]
  ELSE IF Register(toks, e.i + 2) THEN UpTo(toks, e, e.i + 2)
  ELSE IF ~ Starts(toks, e.i + 2) THEN FailSkip(toks, e.i + 2)
  ELSE Continued(toks, e, e.i + 1)
ArrayAccessLike(toks, i) ==
  IF ~ Starts(toks, i + 2) THEN FailSkip(toks, i + 2)
  ELSE Element(toks, WithExpression(toks, "ADDRESSING_MODE_RELATIVE_ARRAY",
                                    Leaves(toks, i, i + 1), i + 2))

RegToBp(toks, i) ==
  LET rule == "ADDRESSING_MODE_REG_TO_BP"
  IN IF Register(toks, i + 2)
     THEN Parsed(Node(rule, Leaves(toks, i, i + 2)), i + 3, FALSE)
     ELSE IF ~ Starts(toks, i + 2) THEN FailSkip(toks, i + 2)
     ELSE WithExpression(toks, rule, Leaves(toks, i, i + 1), i + 2)

IndirectAt(toks, e) ==
  IF ~ Is(toks, e.i, "]") THEN FailSkip(toks, e.i)
  ELSE IF ~ Sign(toks, e.i + 1) THEN UpTo(toks, e, e.i)
  ELSE IF ~ LowRegister(toks, e.i + 2) THEN FailSkip(toks, e.i + 2)
  ELSE UpTo(toks, e, e.i + 2)
Indirect(toks, i) ==
  IF ~ Starts(toks, i + 1) THEN FailSkip(toks, i)
  ELSE IndirectAt(toks, WithExpression(toks, "ADDRESSING_MODE_INDIRECT",
                                       Leaves(toks, i, i), i + 1))

(* After the comma anything but a register or an expression is left        *)
(* unread, and the tree ends with the comma.                               *)
AbsoluteAt(toks, e) ==
  LET indexed == Sign(toks, e.i)
      j == IF indexed THEN e.i + 2 ELSE e.i
  IN IF indexed /\ ~ LowRegister(toks, e.i + 1) THEN FailSkip(toks, e.i + 1)
     ELSE IF ~ Is(toks, j, ",") THEN UpTo(toks, e, j - 1)
     ELSE IF Register(toks, j + 1)
     THEN IF indexed THEN FailSkip(toks, j + 1) ELSE UpTo(toks, e, j + 1)
     ELSE IF Starts(toks, j + 1) THEN Continued(toks, e, j)
     ELSE UpTo(toks, e, j)
Absolute(toks, i) ==
  AbsoluteAt(toks, WithExpression(toks, "ADDRESSING_MODE_ABSOLUTE", Leaves(toks, i, i), i + 1))

RelativeToBpAt(toks, e, indexed) ==
  IF ~ Is(toks, e.i, ",") THEN e
  ELSE IF Register(toks, e.i + 1)
  THEN IF indexed THEN FailSkip(toks, e.i) ELSE UpTo(toks, e, e.i + 1)
  ELSE IF ~ Starts(toks, e.i + 1) THEN FailSkip(toks, e.i)
  ELSE Continued(toks, e, e.i)
RelativeToBp(toks, i) ==
  LET rule == "ADDRESSING_MODE_REALTIVE_BP"
      indexed == Register(toks, i + 3)
  IN IF ~ Sign(toks, i + 2) \/ ~ (Starts(toks, i + 3) \/ indexed)
     THEN FailSkip(toks, i + 2)
     ELSE IF indexed /\ ~ LowRegister(toks, i + 3) THEN FailSkip(toks, i + 3)
     ELSE RelativeToBpAt(toks,
            IF indexed THEN Parsed(Node(rule, Leaves(toks, i, i + 3)), i + 4, FALSE)
            ELSE WithExpression(toks, rule, Leaves(toks, i, i + 2), i + 3), indexed)

(* Here errors are reported and the parse goes on.                         *)
RelativeAt(toks, e) ==
  IF ~ Is(toks, e.i, ",") THEN e
  ELSE [UpTo(toks, e, e.i + 1) EXCEPT !.err = @ \/ ~ Register(toks, e.i + 1)]
Relative(toks, i) ==
  LET rule == "ADDRESSING_MODE_REALTIVE_PC"
  IN RelativeAt(toks, IF Register(toks, i + 1)
                      THEN Parsed(Node(rule, Leaves(toks, i, i + 1)), i + 2,
                                  ~ LowRegister(toks, i + 1))
                      ELSE WithExpression(toks, rule, Leaves(toks, i, i), i + 1))

NotIndexed(toks, e) ==
  IF Sign(toks, e.i) /\ Register(toks, e.i + 1) THEN FailSkip(toks, e.i) ELSE e
Bracketed(toks, e) ==
  IF Is(toks, e.i, "]") THEN UpTo(toks, e, e.i) ELSE FailSkip(toks, e.i)
MemoryToReg(toks, i) ==
  LET (* tokens up to k, and an expression *)
      From(k) == WithExpression(toks, "ADDRESSING_MODE_MEMORY_TO_REGISTER",
                                Leaves(toks, i, k), k + 1)
      t == Cur(toks, i + 2)
  IN CASE t.text = "&" /\ Is(toks, i + 3, "bp") ->
            IF Sign(toks, i + 4) /\ Starts(toks, i + 5) THEN From(i + 4)
            ELSE FailSkip(toks, i + 4)
       [] t.text = "&" /\ ~ Is(toks, i + 3, "bp") ->
            IF Starts(toks, i + 3) THEN NotIndexed(toks, From(i + 2))
            ELSE FailSkip(toks, i + 2)
       [] t.text = "*" -> From(i + 2)
       [] t.type = "REGISTER" ->
            Parsed(Node("ADDRESSING_MODE_REGISTER_TO_REGISTER", Leaves(toks, i, i + 2)),
                   i + 3, FALSE)
       [] t.type = "IDENTIFIER" /\ Is(toks, i + 3, "[") ->
            IF Starts(toks, i + 4) THEN Bracketed(toks, From(i + 3))
            ELSE FailSkip(toks, i + 4)
       [] OTHER -> IF Starts(toks, i + 2) THEN From(i + 1) ELSE FailSkip(toks, i + 2)

(* addr: Null without an error when there is no operand.                   *)
Addr(toks, i) ==
  LET Mode(r) == [r EXCEPT !.ast = Node("ADDRESSING_MODE", <<@>>)]
      t == Cur(toks, i)
  IN CASE LineEnd(toks, i) -> Parsed(Null, i, FALSE)
       [] t.type = "IDENTIFIER" /\ Is(toks, i + 1, "[") -> Mode(ArrayAccessLike(toks, i))
       [] t.type = "IDENTIFIER" /\ Is(toks, i + 1, ",") -> Mode(RegToBp(toks, i))
       [] t.text = "[" -> Mode(Indirect(toks, i))
       [] t.text = "&" ->
            IF Is(toks, i + 1, "bp") THEN Mode(RelativeToBp(toks, i))
            ELSE IF Starts(toks, i + 1) THEN Mode(Absolute(toks, i))
            ELSE FailSkip(toks, i)
       [] t.text = "*" -> Mode(Relative(toks, i))
       [] t.type = "REGISTER" ->
            IF LineEnd(toks, i + 1)
            THEN Parsed(Node("ADDRESSING_MODE_REGISTER", Leaves(toks, i, i)), i + 1, FALSE)
            ELSE IF Is(toks, i + 1, ",") THEN Mode(MemoryToReg(toks, i))
            ELSE FailSkip(toks, i)
       [] Starts(toks, i) /\ ~ (t.type = "IDENTIFIER" /\ Words(toks, i + 1, {"[", ","})) ->
            Mode(Expression(toks, i))
       [] OTHER -> Fail(i)

WithAddr(toks, i, a) ==
  LET kids == IF a.ast = Null THEN <<Leaf(toks[i])>> ELSE <<Leaf(toks[i]), a.ast>>
  IN IF LineEnd(toks, a.i) THEN Parsed(Node("INSTRUCTION_RULE", kids), a.i, a.err)
     ELSE Fail(a.i + 1)
Instruction(toks, i) == WithAddr(toks, i, Addr(toks, i + 1))

(* One turn of prog's loop.  A rule that consumed nothing is stepped over. *)
Rule(toks, i, t) ==
  CASE t.text = "section"   -> Section(toks, i)
    [] t.text = "structure" -> Structure(toks, i)
    [] t.text = "org"       -> Org(toks, i)
    [] t.text = "var"       -> Declaration(toks, i)
    [] t.type = "INSTRUCTION" -> Instruction(toks, i)
    [] \/ t.text \in {"global", "local"}
       \/ t.type = "IDENTIFIER" /\ Is(toks, i + 1, ":") -> Label(toks, i)
    [] \/ t.type = "STRING_LITERAL" \/ t.text = "reserve"
       \/ Starts(toks, i) /\ ~ (t.type = "IDENTIFIER" /\ Is(toks, i + 1, ":"))
       -> ExpList(toks, i)
    [] OTHER -> Fail(i)
Statement(toks, i) ==
  [Rule(toks, i, toks[i]) EXCEPT !.i = IF @ = i THEN i + 1 ELSE @]
=============================================================================
