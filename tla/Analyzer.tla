------------------------------ MODULE Analyzer ------------------------------
(***************************************************************************)
(* The assembler's first pass (assembler/include/analyzer.hh): it turns    *)
(* statements into instructions, decides how long each will be, and so     *)
(* fixes the address of every label before one byte is emitted.            *)
(***************************************************************************)
EXTENDS Grammar

(* The environment both passes share.  A label also keeps how many         *)
(* instructions came before it, which no code reads.                       *)
EmptyEnvironment ==
  [labels |-> <<>>, structures |-> <<>>, variables |-> <<>>, items |-> <<>>,
   here |-> 0, bp |-> 0, label |-> ""]

Number(n) == Leaf(Token("NUMBER_LITERAL", "#", n, <<>>, Main))
r0 == Leaf(Token("REGISTER", "r0", 0, <<>>, Main))
None == Null     \* an operand the instruction does not have

Item(mode, op1, op2, sign, index, size) ==
  [name |-> "", mode |-> mode, op1 |-> op1, op2 |-> op2, sign |-> sign,
   index |-> index, size |-> size, label |-> ""]
Named(item, name) == [item EXCEPT !.name = name]

Data == {"reserve", "string", "expression"}
LengthOfAll(item) == item.size + 2   \* mutant
Length(item) == IF item.name \in Data THEN item.size ELSE item.size + 2

Jump(name) == name \in (Branches \ {"call"}) \cup {"jz", "jnz"}
Base(name) == CASE name = "jz" -> "jeq" [] name = "jnz" -> "jne" [] OTHER -> name
-----------------------------------------------------------------------------
(* eval_expression, of both passes.  The scope says what a name is worth:  *)
(* the analyzer resolves none.  parse_number throws on a malformed word,   *)
(* and on the wrapped-around sum of a negative array offset: n = -1.       *)
Value(v, err) == [v |-> v, err |-> err]
NoScope == [resolves |-> FALSE]

(* Integer division of C++, toward zero.                                   *)
Quotient(a, b) ==
  LET abs(n) == IF n < 0 THEN - n ELSE n
  IN IF (a < 0) = (b < 0) THEN abs(a) \div abs(b) ELSE - (abs(a) \div abs(b))

Local(env, name, user) == env.labels[name].local /\ env.labels[name].file # user

(* A label as seen from the label the instruction stands under.            *)
Resolved(scope, name, field, otherwise) ==
  LET user == IF scope.label \in DOMAIN scope.labels
              THEN scope.labels[scope.label].file ELSE <<>>
  IN IF name \notin DOMAIN scope.labels \/ Local(scope, name, user)
     THEN Value(otherwise, TRUE)
     ELSE Value(scope.labels[name][field], FALSE)

LeafValue(t, here, scope) ==
  CASE t.type = "NUMBER_LITERAL" -> Value(t.n, t.n < 0)
    [] t.type = "CURRENT_ADDRESS" -> Value(here, FALSE)
    [] t.type = "IDENTIFIER" -> IF scope.resolves
                                THEN Resolved(scope, t.text, "address", here)
                                ELSE Value(-1, TRUE)
    [] OTHER -> Value(-1, TRUE)

NameValue(operator, name, scope) ==
  IF ~ scope.resolves THEN Value(-1, TRUE)
  ELSE IF operator = "sizeof" THEN Resolved(scope, name, "size", 0)
  ELSE IF <<scope.label, name>> \in DOMAIN scope.variables
  THEN Value(scope.variables[<<scope.label, name>>], FALSE)
  ELSE Value(0, TRUE)

Apply(operator, a, b) ==
  CASE operator = "+" -> Value(a + b, FALSE)
    [] operator = "-" -> Value(a - b, FALSE)
    [] operator = "*" -> Value(a * b, FALSE)
    [] OTHER -> IF b = 0 THEN Value(0, TRUE) ELSE Value(Quotient(a, b), FALSE)

(* The value of a tree, given those of its first and last child.           *)
Combined(ast, first, last, here, scope) ==
  LET k == ast.kids
      both == Apply(k[2].tok.text, first.v, last.v)
      head == k[1].tok.text
  IN CASE Len(k) = 0 -> LeafValue(ast.tok, here, scope)
       [] Len(k) = 1 -> IF ast.tok.text = "-" THEN Value(- first.v, first.err) ELSE first
       [] Len(k) = 2 -> IF head \in {"byte", "word"} THEN last
                        ELSE NameValue(head, k[2].tok.text, scope)
       [] OTHER -> Value(both.v, first.err \/ last.err \/ both.err)
Evaluate(tree, here, scope) ==
  LET value[ast \in Trees] ==
        Combined(ast, value[ast.kids[1]], value[Last(ast.kids)], here, scope)
  IN value[tree]

IsEvaluable[ast \in Trees] ==
  LET k == ast.kids
  IN CASE Len(k) = 0 -> ast.tok.type \notin {"IDENTIFIER", "TYPE"}
       [] Len(k) = 1 -> IsEvaluable[k[1]]
       [] Len(k) = 2 -> k[1].tok.text \in {"byte", "word"} /\ IsEvaluable[k[2]]
       [] OTHER -> Len(k) = 3 /\ IsEvaluable[k[1]] /\ IsEvaluable[k[3]]

(* get_expression_size.  A name in a sum counts as 255.                    *)
SizeOf(n) == Value(IF n > 255 \/ n < -128 THEN 2 ELSE 1, n > 65535 \/ n < -32768)

Stripped[ast \in Trees] == IF Len(ast.kids) = 1 THEN Stripped[ast.kids[1]] ELSE ast

ExpressionSize(tree, here) ==
  LET ast == Stripped[tree]
      k == ast.kids
      Guess(e) == IF IsEvaluable[e] THEN Evaluate(e, here, NoScope) ELSE Value(255, FALSE)
      v1 == Guess(k[1])
      v2 == Guess(k[3])
      both == Apply(k[2].tok.text, v1.v, v2.v)
  IN CASE Len(k) = 0 -> IF ast.tok.type # "NUMBER_LITERAL" THEN Value(2, FALSE)
                        ELSE IF ast.tok.n < 0 THEN Value(2, TRUE)
                        ELSE SizeOf(ast.tok.n)
       [] Len(k) = 2 -> Value(IF k[1].tok.text = "byte" THEN 1 ELSE 2, FALSE)
       [] OTHER -> IF both.err THEN Value(2, TRUE)
                   ELSE [SizeOf(both.v) EXCEPT !.err = @ \/ v1.err \/ v2.err]
-----------------------------------------------------------------------------
(* The operands of an instruction: the item, whether an error was          *)
(* reported, and whether a child is read that the tree does not have.      *)
Read(item, err) == [item |-> item, err |-> err, crash |-> FALSE]
OutOfRange == [item |-> Item("IMPLIED_MODE", None, None, "+", None, 0),
               err |-> TRUE, crash |-> TRUE]

Variable(env, name) == <<env.label, name>> \in DOMAIN env.variables

VariableIn[ast \in Trees] ==   \* the one name in an expression, signs and all
  IF Len(ast.kids) # 1 THEN ""
  ELSE IF ast.kids[1].tok.type = "IDENTIFIER" THEN ast.kids[1].tok.text
  ELSE VariableIn[ast.kids[1]]

GetImmediate(e, here) ==
  LET size == ExpressionSize(e, here)
  IN Read(Item(IF size.v = 2 THEN "IMMEDIATE_WORD" ELSE "IMMEDIATE_BYTE",
               e, None, "+", None, size.v), size.err)

GetRelative(k) ==
  IF k[2].tok.type = "REGISTER"
  THEN Read(Item("MEMORY_RELATIVE_TO_PC_WITH_REGISTER", k[2], None, "+", k[2], 0), FALSE)
  ELSE IF Len(k) > 2
  THEN Read(Item("REGISTER_TO_MEMORY_RELATIVE_TO_PC", k[2], k[4], "+", None, 1), FALSE)
  ELSE Read(Item("MEMORY_RELATIVE_TO_PC", k[2], None, "+", None, 1), FALSE)

GetIndirect(k) ==
  Read(IF Len(k) = 3 THEN Item("MEMORY_INDIRECT", k[2], None, "+", None, 2)
       ELSE Item("MEMORY_INDIRECT_INDEXED", k[2], None, k[4].tok.text, k[5], 2), FALSE)

GetAbsolute(k, here) ==
  LET indexed == Len(k) > 2 /\ k[3].tok.text \in {"+", "-"}
      sign  == IF indexed THEN k[3].tok.text ELSE "+"
      index == IF indexed THEN k[4] ELSE None
      v     == IF indexed THEN 6 ELSE 4         \* the value stored
      size  == ExpressionSize(k[v], here)
  IN CASE Len(k) = 2 -> Read(Item("MEMORY_ABSOULTE", k[2], None, "+", None, 2), FALSE)
       [] indexed /\ Len(k) = 4 ->
            Read(Item("MEMORY_ABSOULTE_INDEXED", k[2], None, sign, index, 2), FALSE)
       [] Len(k) \notin {2, v} /\ ~ (indexed /\ Len(k) = 4) -> OutOfRange
       [] Len(k) = v /\ k[v].rule = "EXPRESSION" ->
            Read(Item(IF indexed THEN "IMMEDIATE_TO_MEMORY_ABSOLUTE_INDEXED"
                      ELSE "IMMEDIATE_TO_MEMORY_ABSOLUTE",
                      k[2], k[v], sign, index, 2 + size.v), size.err)
       [] OTHER ->
            Read(Item("REGISTER_TO_MEMORY_ABSOULTE", k[2], k[v], sign, index, 2), FALSE)

GetMemoryToReg(k, env) ==
  LET from == k[3]
      name == VariableIn[from]
      isVar == from.rule = "EXPRESSION" /\ name # "" /\ Variable(env, name)
      width == IF Low8(k[1].tok.text) THEN 1 ELSE 2
      size == ExpressionSize(from, env.here)
      index == ExpressionSize(k[5], env.here)
      offset == ExpressionSize(k[4], env.here)
  IN CASE from.rule = "EXPRESSION" /\ isVar ->
            Read(Item("MEMORY_RELATIVE_TO_BP_TO_REGISTER", k[1], from, "+",
                      Number(env.variables[<<env.label, name>>]), 1), FALSE)
       [] from.rule = "EXPRESSION" /\ ~ isVar ->
            Read(Item("IMMEDIATE_TO_REGISTER", k[1], from, "+", None, width),
                 size.err \/ (size.v = 2 /\ width = 1))
       [] from.tok.type = "IDENTIFIER" ->
            Read(Item("MEMORY_RELATIVE_TO_BP_TO_REGISTER", k[1], from, "+", k[5], 1),
                 ~ Variable(env, from.tok.text) \/ index.err)
       [] from.tok.text = "&" /\ k[4].tok.text = "bp" ->
            Read(Item("MEMORY_RELATIVE_TO_BP_TO_REGISTER", k[1], None,
                      k[5].tok.text, k[6], 1), FALSE)
       [] from.tok.text = "&" /\ k[4].tok.text # "bp" ->
            Read(Item("MEMORY_ABSOULTE_TO_REGISTER", k[1], k[4], "+", None, 2), FALSE)
       [] from.tok.text = "*" ->
            Read(Item("MEMORY_RELATIVE_TO_PC_TO_REGISTER", k[1], k[4], "+", None, 1),
                 offset.err)
       [] OTHER -> Read(Item("REGISTER_ACCESS_MODE", k[1], None, "+", None, 0), FALSE)

GetBpRelative(k, here) ==
  LET byRegister == k[4].rule # "EXPRESSION"
      size == ExpressionSize(k[6], here)
      Of(mode, op1, n) == Item(mode, op1, None, k[3].tok.text, k[4], n)
  IN CASE Len(k) = 4 ->
            Read(IF byRegister THEN Of("MEMORY_RELATIVE_TO_BP_WITH_REGISTER", None, 0)
                 ELSE Of("MEMORY_RELATIVE_TO_BP", None, 1), FALSE)
       [] Len(k) = 6 /\ k[6].rule = "EXPRESSION" ->
            Read(IF byRegister
                 THEN Of("IMMEDIATE_TO_MEMORY_RELATIVE_TO_BP_WITH_REGISTER", k[6], size.v)
                 ELSE Of("IMMEDIATE_TO_MEMORY_RELATIVE_TO_BP", k[6], 1 + size.v), size.err)
       [] OTHER -> Read(Of("REGISTER_TO_MEMORY_RELATIVE_TO_BP", k[6], 1), FALSE)

(* An undefined variable is reported, but its entry is read all the same.  *)
GetArrayAccess(k, env) ==
  LET known == Variable(env, k[1].tok.text)
      base  == IF known THEN env.variables[<<env.label, k[1].tok.text>>] ELSE 0
      at    == Evaluate(k[3], env.here, NoScope)
      sum   == base + at.v
      index == Number(IF sum < 0 THEN -1 ELSE sum)
      size  == ExpressionSize(k[6], env.here)
      wide  == ExpressionSize(k[3], env.here)
      err   == ~ known \/ at.err \/ wide.err
  IN IF k[6].rule = "EXPRESSION"
     THEN Read(Item("IMMEDIATE_TO_MEMORY_RELATIVE_TO_BP", k[6], None, "+", index,
                    1 + size.v), err \/ size.err)
     ELSE Read(Item("REGISTER_TO_MEMORY_RELATIVE_TO_BP", k[6], None, "+", index, 1), err)

(* get_instruction.  "id , register" gets no base to index from.           *)
GetInstruction(ast, env) ==
  LET inner == ast.kids[1]
      k == inner.kids
      here == env.here
  IN CASE ast.rule = "ADDRESSING_MODE_REGISTER" ->
            Read(Item("REGISTER_ACCESS_MODE", inner, None, "+", None, 0), FALSE)
       [] inner.rule = "ADDRESSING_MODE_REALTIVE_BP" -> GetBpRelative(k, here)
       [] inner.rule = "ADDRESSING_MODE_MEMORY_TO_REGISTER" -> GetMemoryToReg(k, env)
       [] inner.rule = "ADDRESSING_MODE_ABSOLUTE" -> GetAbsolute(k, here)
       [] inner.rule = "EXPRESSION" -> GetImmediate(inner, here)
       [] inner.rule = "ADDRESSING_MODE_INDIRECT" -> GetIndirect(k)
       [] inner.rule = "ADDRESSING_MODE_REGISTER_TO_REGISTER" ->
            Read(Item("REGISTER_TO_REGISTER_MODE", k[1], k[3], "+", None, 0), FALSE)
       [] inner.rule = "ADDRESSING_MODE_REALTIVE_PC" -> GetRelative(k)
       [] inner.rule = "ADDRESSING_MODE_REG_TO_BP" ->
            Read(Item("REGISTER_TO_MEMORY_RELATIVE_TO_BP", k[1], k[3], "+", None, 1),
                 ~ Variable(env, k[1].tok.text))
       [] inner.rule = "ADDRESSING_MODE_RELATIVE_ARRAY" -> GetArrayAccess(k, env)
       [] OTHER -> Read(Item("IMPLIED_MODE", None, None, "+", None, 0), FALSE)

GetFamily(mode) ==
  CASE mode = "IMPLIED_MODE" -> "IMPLIED"
    [] mode \in {"IMMEDIATE_BYTE", "IMMEDIATE_WORD"} -> "IMMEDIATE"
    [] mode = "REGISTER_ACCESS_MODE" -> "REGISTER_ACCESS"
    [] mode = "REGISTER_TO_REGISTER_MODE" -> "REGISTER_TO_REGISTER"
    [] mode \in {"MEMORY_INDIRECT", "MEMORY_INDIRECT_INDEXED"} -> "INDIRECT"
    [] mode \in {"IMMEDIATE_TO_MEMORY_ABSOLUTE", "IMMEDIATE_TO_MEMORY_ABSOLUTE_INDEXED",
                 "IMMEDIATE_TO_MEMORY_RELATIVE_TO_BP",
                 "IMMEDIATE_TO_MEMORY_RELATIVE_TO_BP_WITH_REGISTER"} -> "IMMEDIATE_TO_MEMORY"
    [] mode \in {"REGISTER_TO_MEMORY_ABSOULTE", "REGISTER_TO_MEMORY_RELATIVE_TO_PC",
                 "REGISTER_TO_MEMORY_RELATIVE_TO_BP"} -> "REGISTER_TO_MEMORY"
    [] mode \in {"MEMORY_ABSOULTE_TO_REGISTER", "IMMEDIATE_TO_REGISTER",
                 "MEMORY_RELATIVE_TO_PC_TO_REGISTER",
                 "MEMORY_RELATIVE_TO_BP_TO_REGISTER"} -> "MEMORY_TO_REGISTER"
    [] OTHER -> "MEMORY_RELATED"
-----------------------------------------------------------------------------
(* What each statement does to the environment.                            *)
Analyzed(env, err) == [env |-> env, err |-> err, crash |-> FALSE]

(* A map with an entry more, or another value in it.                       *)
Put(f, x, v) == [y \in DOMAIN f \cup {x} |-> IF y = x THEN v ELSE f[y]]

(* Append items and move on by their length, or by what the code adds.     *)
Emitting(env, items, bytes) ==
  [env EXCEPT !.items = @ \o [j \in 1 .. Len(items) |->
                               [items[j] EXCEPT !.label = env.label]],
              !.here = @ + bytes]
PlainData(name, op, size) == Named(Item("IMPLIED_MODE", op, None, "+", None, size), name)

Addresses == 0 .. 65535
AnalyzeOrigin(env, k) ==
  LET to == Evaluate(k[2], env.here, NoScope)
      gap == to.v - env.here
  IN IF to.v \notin Addresses \/ gap < 0 THEN Analyzed(env, TRUE)
     ELSE IF gap = 0 THEN Analyzed(env, to.err)
     ELSE Analyzed(Emitting(env, <<PlainData("reserve", None, gap)>>, gap), to.err)

FieldsOf[ast \in Trees] ==
  LET k == ast.kids
      more == IF Last(k).rule = "STRUCT_DEF" THEN FieldsOf[Last(k)] ELSE <<>>
      name == k[1].tok.text
  IN IF name \in DOMAIN more THEN more
     ELSE Put(more, name, IF k[3].tok.text = "byte" THEN 1 ELSE 2)

AnalyzeStructure(env, k) ==
  Analyzed([env EXCEPT !.structures = Put(@, k[2].tok.text, FieldsOf[k[4]])], FALSE)

(* close: a label's size is known when the next one comes.                 *)
Closed(env) ==
  IF env.label = "" THEN env.labels
  ELSE [env.labels EXCEPT ![env.label].size = env.here - env.labels[env.label].address]

AnalyzeLabel(env, k) ==
  LET scoped == k[1].tok.text \in {"global", "local"}
      name == k[IF scoped THEN 2 ELSE 1].tok
      new == [address |-> env.here, local |-> k[1].tok.text = "local",
              file |-> name.file, size |-> 0, at |-> Len(env.items)]
  IN IF name.text \in DOMAIN env.labels THEN Analyzed(env, TRUE)
     ELSE Analyzed([env EXCEPT !.labels = Put(Closed(env), name.text, new),
                               !.label = name.text, !.bp = 0], FALSE)

(* A variable is pushed when the declaration runs, whatever its size.      *)
Reserved(size) ==
  IF size > 2 \/ size < 0
  THEN <<Named(Item("REGISTER_ACCESS_MODE", r0, None, "+", None, 0), "trsp"),
         Named(Item("IMMEDIATE_TO_REGISTER", r0, Number(IF size < 0 THEN -1 ELSE size),
                    "+", None, 2), "add"),
         Named(Item("REGISTER_ACCESS_MODE", r0, None, "+", None, 0), "ldsp")>>
  ELSE <<Named(Item(IF size = 2 THEN "IMMEDIATE_WORD" ELSE "IMMEDIATE_BYTE",
                    Number(0), None, "+", None, size), "push")>>

(* A value given makes one push of it, whatever the size.                  *)
Declaring(env, name, items, size, err) ==
  Analyzed(Emitting([env EXCEPT !.variables = Put(@, <<env.label, name>>, env.bp),
                                !.bp = @ + size],
                    items, IF Len(items) = 3 THEN 8 ELSE size + 2), err)
TypeSize(env, type) ==
  IF type.type = "IDENTIFIER"
  THEN FoldFunction(LAMBDA x, y : x + y, 0, env.structures[type.text])
  ELSE IF type.text = "byte" THEN 1 ELSE 2
DeclareArray(env, k, count, each) ==
  Declaring(env, k[2].tok.text, Reserved(count.v * each), count.v * each, count.err)
DeclareScalar(env, k, size) ==
  IF Len(k) = 4 THEN Declaring(env, k[2].tok.text, Reserved(size), size, FALSE)
  ELSE Declaring(env, k[2].tok.text,
                 <<Named(Item(IF size = 2 THEN "IMMEDIATE_WORD" ELSE "IMMEDIATE_BYTE",
                              k[6], None, "+", None, size), "push")>>,
                 size, Evaluate(k[6], env.here, NoScope).err)
AnalyzeDeclaration(env, k) ==
  LET many == k[4].tok.text = "["
      type == k[IF many THEN 6 ELSE 4].tok
  IN IF \/ env.label = "" \/ Variable(env, k[2].tok.text)
        \/ type.type = "IDENTIFIER" /\ type.text \notin DOMAIN env.structures
     THEN Analyzed(env, TRUE)
     ELSE IF many
     THEN DeclareArray(env, k, Evaluate(k[5], env.here, NoScope), TypeSize(env, type))
     ELSE DeclareScalar(env, k, TypeSize(env, type))

(* The instruction as it is looked up: a jump target is always a word.     *)
Widened(item, name) ==
  [Named(item, name) EXCEPT
     !.size = IF /\ Jump(name) \/ name = "call"
                 /\ item.mode \in {"IMMEDIATE_BYTE", "IMMEDIATE_WORD"} THEN 2 ELSE @]
Encodable(item) ==
  /\ \E f \in DOMAIN Supporting : f = GetFamily(item.mode) /\ Base(item.name) \in Supporting[f]
  /\ item.mode = "IMMEDIATE_TO_MEMORY_ABSOLUTE_INDEXED" => item.size = 3
  /\ item.mode = "REGISTER_TO_REGISTER_MODE" =>
       \A op \in {item.op1, item.op2} : ~ Low8(op.tok.text)
AddInstruction(env, item, err) ==
  IF Encodable(item) THEN Analyzed(Emitting(env, <<item>>, item.size + 2), err)
  ELSE Analyzed(env, TRUE)
AddRead(env, name, read) ==
  IF read.crash THEN [env |-> env, err |-> TRUE, crash |-> TRUE]
  ELSE AddInstruction(env, Widened(read.item, name), read.err)
AnalyzeInstruction(env, k) ==
  AddRead(env, k[1].tok.text,
          IF Len(k) = 1 THEN Read(Item("IMPLIED_MODE", None, None, "+", None, 0), FALSE)
          ELSE GetInstruction(k[2], env))

(* analyze_expression_list: an element, then the list that is its last     *)
(* child.  A list without an element would be read beyond its end.         *)
AddData(env, item, err) == Analyzed(Emitting(env, <<item>>, item.size), err)
Reserving(env, count) ==
  LET tooMuch == count.v \notin 0 .. 65536 - env.here
  IN AddData(env, PlainData("reserve", None, IF tooMuch THEN 0 ELSE count.v),
             count.err \/ tooMuch)
Storing(env, k, size) == AddData(env, PlainData("expression", k[1], size.v), size.err)
AnalyzeElement(env, k) ==
  CASE k[1].tok.type = "STRING_LITERAL" ->
         AddData(env, PlainData("string", k[1], Len(k[1].tok.chars)), FALSE)
    [] k[1].tok.type = "KEYWORD" -> Reserving(env, Evaluate(k[2], env.here, NoScope))
    [] OTHER -> Storing(env, k, ExpressionSize(k[1], env.here))
NextElement(env, k, err) ==
  LET done == AnalyzeElement(env, k)
  IN IF k = <<>> THEN [env |-> env, err |-> TRUE, crash |-> TRUE, rest |-> Null]
     ELSE [env |-> done.env, err |-> done.err \/ err, crash |-> FALSE, rest |-> Last(k)]
AfterElement(s) ==
  IF s.rest.rule # "EXPRESSION_LIST" THEN s ELSE NextElement(s.env, s.rest.kids, s.err)
AnalyzeList(env, k) ==
  LET at[n \in Nat] == IF n = 0 THEN NextElement(env, k, FALSE) ELSE AfterElement(at[n - 1])
  IN at[Depth]

(* analyze_command; a section's name is noted and never read.              *)
Analyze(env, ast) ==
  CASE ast.rule = "ORIGIN" -> AnalyzeOrigin(env, ast.kids)
    [] ast.rule = "STRUCT_DEF" -> AnalyzeStructure(env, ast.kids)
    [] ast.rule = "DECLARATION" -> AnalyzeDeclaration(env, ast.kids)
    [] ast.rule = "LABEL" -> AnalyzeLabel(env, ast.kids)
    [] ast.rule = "INSTRUCTION_RULE" -> AnalyzeInstruction(env, ast.kids)
    [] ast.rule = "EXPRESSION_LIST" -> AnalyzeList(env, ast.kids)
    [] OTHER -> Analyzed(env, FALSE)
=============================================================================
