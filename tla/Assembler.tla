------------------------------ MODULE Assembler ------------------------------
(***************************************************************************)
(* The assembler's second pass (assembler/include/assembler.hh): one       *)
(* instruction at a time into bytes, at the address the lengths of the     *)
(* first pass add up to; and the UALf header (assembler/include/header.hh).*)
(***************************************************************************)
EXTENDS Analyzer

LowByteUnmasked(n) == n   \* mutant
LowByte(n) == n % 256
Word(n)    == <<(n % 65536) \div 256, n % 256>>
Sized(n, width) == IF width = 1 THEN <<LowByte(n)>> ELSE Word(n)

ScopeOf(env, label) ==
  [resolves |-> TRUE, labels |-> env.labels, variables |-> env.variables,
   label |-> label]

IsId[ast \in Trees] ==
  ast.tok.type = "IDENTIFIER" \/ (Len(ast.kids) = 1 /\ IsId[ast.kids[1]])

(* build_addressing_mode.  3 bits of register, and the field of the mode.  *)
BuildAddressingMode(item) ==
  LET Field(ast) == 8 * RegisterNumber(ast.tok.text)
      Transfer(ast, kind) == 192 + Field(ast) + kind + (IF Low8(ast.tok.text) THEN 4 ELSE 0)
      one == item.op1
      two == item.op2
  IN CASE item.mode = "IMPLIED_MODE" -> 0
       [] item.mode = "IMMEDIATE_BYTE" -> 8
       [] item.mode = "IMMEDIATE_WORD" -> 16
       [] item.mode = "REGISTER_ACCESS_MODE" ->
            Field(one) + (IF Low8(one.tok.text) THEN 2 ELSE 1)
       [] item.mode = "REGISTER_TO_REGISTER_MODE" ->
            64 + Field(one) + RegisterNumber(two.tok.text)
       [] item.mode = "MEMORY_ABSOULTE" -> 128
       [] item.mode = "MEMORY_ABSOULTE_INDEXED" -> 129 + Field(item.index)
       [] item.mode = "MEMORY_INDIRECT" -> 130
       [] item.mode = "MEMORY_INDIRECT_INDEXED" -> 131 + Field(item.index)
       [] item.mode = "MEMORY_RELATIVE_TO_PC" -> 132
       [] item.mode = "MEMORY_RELATIVE_TO_PC_WITH_REGISTER" -> 133 + Field(item.index)
       [] item.mode = "MEMORY_RELATIVE_TO_BP" -> 140
       [] item.mode = "MEMORY_RELATIVE_TO_BP_WITH_REGISTER" -> 134 + Field(item.index)
       [] item.mode = "IMMEDIATE_TO_MEMORY_ABSOLUTE" -> IF item.size = 4 THEN 14 ELSE 6
       [] item.mode = "IMMEDIATE_TO_MEMORY_ABSOLUTE_INDEXED" -> 7 + Field(item.index)
       [] item.mode = "IMMEDIATE_TO_MEMORY_RELATIVE_TO_BP" -> IF item.size = 3 THEN 11 ELSE 3
       [] item.mode = "IMMEDIATE_TO_MEMORY_RELATIVE_TO_BP_WITH_REGISTER" ->
            Field(item.index) + (IF item.size = 2 THEN 5 ELSE 4)
       [] item.mode = "REGISTER_TO_MEMORY_ABSOULTE" -> Transfer(two, 0)
       [] item.mode = "MEMORY_ABSOULTE_TO_REGISTER" -> Transfer(one, 0)
       [] item.mode = "IMMEDIATE_TO_REGISTER" -> Transfer(one, 1)
       [] item.mode = "REGISTER_TO_MEMORY_RELATIVE_TO_PC" -> Transfer(two, 2)
       [] item.mode = "MEMORY_RELATIVE_TO_PC_TO_REGISTER" -> Transfer(one, 2)
       [] item.mode = "REGISTER_TO_MEMORY_RELATIVE_TO_BP" -> Transfer(one, 3)
       [] item.mode = "MEMORY_RELATIVE_TO_BP_TO_REGISTER" -> Transfer(one, 3)

(* get_arguments: the operand bytes, and whether an expression failed.     *)
OneWord == {"IMMEDIATE_WORD", "MEMORY_ABSOULTE", "MEMORY_ABSOULTE_INDEXED",
            "MEMORY_INDIRECT", "MEMORY_INDIRECT_INDEXED", "REGISTER_TO_MEMORY_ABSOULTE"}
OneByte == {"IMMEDIATE_BYTE", "MEMORY_RELATIVE_TO_PC", "REGISTER_TO_MEMORY_RELATIVE_TO_PC"}
FromBp  == {"MEMORY_RELATIVE_TO_BP", "MEMORY_RELATIVE_TO_BP_TO_REGISTER",
            "REGISTER_TO_MEMORY_RELATIVE_TO_BP"}

GetArguments(item, here, scope) ==
  LET Of(ast) == Evaluate(ast, here, scope)
      one == Of(item.op1)
      two == Of(item.op2)
      index == LET e == Of(item.index)
               IN Value(IF item.sign = "-" THEN - e.v ELSE e.v, e.err)
      Args(bytes, err) == [bytes |-> bytes, err |-> err]
      mode == item.mode
  IN CASE mode \in OneByte -> Args(<<LowByte(one.v)>>, one.err)
       [] mode \in FromBp -> Args(<<LowByte(index.v)>>, index.err)
       [] mode \in OneWord -> Args(Word(one.v), one.err)
       [] mode \in {"IMMEDIATE_TO_MEMORY_ABSOLUTE", "IMMEDIATE_TO_MEMORY_ABSOLUTE_INDEXED"} ->
            Args(Word(one.v) \o Sized(two.v, IF item.size = 3 THEN 1 ELSE 2),
                 one.err \/ two.err)
       [] mode = "IMMEDIATE_TO_MEMORY_RELATIVE_TO_BP" ->
            Args(<<LowByte(index.v)>> \o Sized(one.v, IF item.size = 2 THEN 1 ELSE 2),
                 index.err \/ one.err)
       [] mode = "IMMEDIATE_TO_MEMORY_RELATIVE_TO_BP_WITH_REGISTER" ->
            Args(Sized(one.v, item.size), one.err)
       [] mode = "MEMORY_ABSOULTE_TO_REGISTER" -> Args(Word(two.v), two.err)
       [] mode = "IMMEDIATE_TO_REGISTER" ->
            Args(Sized(two.v, IF Low8(item.op1.tok.text) THEN 1 ELSE 2), two.err)
       [] mode = "MEMORY_RELATIVE_TO_PC_TO_REGISTER" -> Args(<<LowByte(two.v)>>, two.err)
       [] OTHER -> Args(<<>>, FALSE)

BehindOpcode(here) == here + 2   \* mutant
BehindJump(here) == here + 3

(* A jump or call to a bare expression is absolute; a jump "* label" is    *)
(* turned into the distance from the end of its three bytes, and only      *)
(* there is the distance checked.                                          *)
Targeted(item, err) == [item |-> item, err |-> err]
ToLabel(item, to, next) ==
  Targeted([item EXCEPT !.op1 = Number(LowByte(to.v - next))],
           to.err \/ to.v \notin next - 128 .. next + 127)
Retargeted(item, here, scope) ==
  LET to == Evaluate(item.op1, here, scope)
  IN IF ~ (Jump(item.name) \/ item.name = "call") THEN Targeted(item, FALSE)
     ELSE IF item.mode \in {"IMMEDIATE_BYTE", "IMMEDIATE_WORD"}
     THEN Targeted([item EXCEPT !.mode = "MEMORY_ABSOULTE"], FALSE)
     ELSE IF item.mode # "MEMORY_RELATIVE_TO_PC" THEN Targeted(item, FALSE)
     ELSE IF IsId[item.op1] THEN ToLabel(item, to, BehindJump(here))
     ELSE Targeted(item, to.err)

(* dump_instruction.  What is no valid instruction is reported, and none   *)
(* of it written.                                                          *)
Dumped(bytes, err) == [bytes |-> bytes, err |-> err, crash |-> FALSE]
Encoded(addr, opc, args, err) ==
  IF Valid(opc, Decode(addr)) /\ Len(args.bytes) = Decode(addr).size
  THEN Dumped(<<addr, opc>> \o args.bytes, err \/ args.err)
  ELSE Dumped(<<>>, TRUE)
DumpTargeted(r, here, scope) ==
  Encoded(BuildAddressingMode(r.item), CodeOf[Base(r.item.name)],
          GetArguments(r.item, here, scope), r.err)

(* An operand relative to bp without an offset is read through a null      *)
(* pointer.                                                                *)
Dump(item, here, scope) ==
  LET Sized1(value) == Dumped(Sized(value.v, item.size), value.err)
      chars == item.op1.tok.chars
  IN CASE item.name = "reserve" -> Dumped([k \in 1 .. item.size |-> 0], FALSE)
       [] item.name = "string" -> Dumped([k \in DOMAIN chars |-> CharCode[chars[k]]], FALSE)
       [] item.name = "expression" -> Sized1(Evaluate(item.op1, here, scope))
       [] item.mode \in FromBp /\ item.index = None ->
            [bytes |-> <<>>, err |-> TRUE, crash |-> TRUE]
       [] item.index.tok.type = "REGISTER" /\ item.sign = "-" -> Dumped(<<>>, TRUE)
       [] OTHER -> DumpTargeted(Retargeted(item, here, scope), here, scope)
-----------------------------------------------------------------------------
(* HeaderBuilder: the table of public labels, then sizes and entry point.  *)
(* Labels are written in the order of their names.                         *)
CONSTANTS
  NamesInOrder,   (* the names of labels, in std::map order                *)
  Spelling        (* the bytes of each                                     *)

(* No two labels are spelled alike, and no spelling has a zero in it.      *)
Letters == 1 .. 255
ASSUME SpellingAssumption ==
  /\ NamesInOrder \in Seq(DOMAIN Spelling)
  /\ \A k \in 1 .. Len(NamesInOrder) : Spelling[NamesInOrder[k]] \in Seq(Letters) \ {<<>>}
  /\ \A j, k \in 1 .. Len(NamesInOrder) :
       Spelling[NamesInOrder[j]] = Spelling[NamesInOrder[k]] => j = k

BaseHeader == <<85, 65, 76, 1, 0, 0, 1, 0, 0, 0, 11>>
TooBig(n) == n > 65535

Public(labels, name) == name \in DOMAIN labels /\ ~ labels[name].local
PublicLabels(labels) ==
  LET among[n \in 0 .. Len(NamesInOrder)] ==
        IF n = 0 THEN <<>>
        ELSE IF Public(labels, NamesInOrder[n]) THEN Append(among[n - 1], NamesInOrder[n])
        ELSE among[n - 1]
  IN among[Len(NamesInOrder)]

TableSizeFrom(base, names) ==
  LET total[n \in 0 .. Len(names)] ==
        IF n = 0 THEN base ELSE total[n - 1] + Len(Spelling[names[n]]) + 5
  IN total[Len(names)]
TableSizeBare(names) == TableSizeFrom(0, names)   \* mutant
TableSize(names) == TableSizeFrom(11, names)

(* A name, its end, and its address in the code and in the file.           *)
SymbolEntry(name, address, total) ==
  (Spelling[name] \o <<0>>) \o (Word(address) \o Word(total + address))
SymbolTable(labels) ==
  LET names == PublicLabels(labels)
      total == TableSize(names)
      bytes[n \in 0 .. Len(names)] ==
        IF n = 0 THEN <<>>
        ELSE bytes[n - 1] \o SymbolEntry(names[n], labels[names[n]].address, total)
  IN [bytes |-> bytes[Len(names)],
      err   |-> TooBig(total)
                \/ \E k \in 1 .. Len(names) : TooBig(total + labels[names[k]].address)]

(* What main puts in front of the code: "-h=ualf" and "-s" of the flags.   *)
Header(labels, flags) ==
  LET table == IF flags.symbols THEN SymbolTable(labels) ELSE [bytes |-> <<>>, err |-> FALSE]
      size  == 11 + Len(table.bytes)
      entry == size + labels["_code"].address
  IN IF ~ flags.ualf THEN [bytes |-> <<>>, err |-> flags.symbols]
     ELSE IF "_code" \notin DOMAIN labels THEN [bytes |-> <<>>, err |-> TRUE]
     ELSE [bytes |-> [BaseHeader EXCEPT ![5] = Word(entry)[1], ![6] = Word(entry)[2],
                                        ![10] = Word(size)[1], ![11] = Word(size)[2]]
                       \o table.bytes,
           err |-> table.err \/ TooBig(entry)]
=============================================================================
