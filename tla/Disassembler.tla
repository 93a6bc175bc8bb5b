----------------------------- MODULE Disassembler -----------------------------
(***************************************************************************)
(* The disassembler (disassembler/include/disassembler.hh and header.hh).  *)
(* Its text is given as the tokens the assembler reads it back as: a       *)
(* number is printed in hexadecimal, a byte and a word with their type.    *)
(***************************************************************************)
EXTENDS Assembler

Mark(word) == Token(SignType(word), word, 0, <<>>, Main)
Text(word) == Token(WordType(word), word, 0, <<>>, Main)
Hex(n)     == Token("NUMBER_LITERAL", "#", n, <<>>, Main)
NewLine    == Mark("\n")

OffsetOffByOne(b) ==   \* mutant
  IF b < 128 THEN <<Mark("+"), Hex(b)>> ELSE <<Mark("-"), Hex(255 - b)>>
Offset(b) == IF b < 128 THEN <<Mark("+"), Hex(b)>> ELSE <<Mark("-"), Hex(256 - b)>>
Listing(op, operand) == <<Text(Name(op))>> \o operand \o <<NewLine>>

(* The operand of the instruction at i of mode e.                          *)
Operand(bytes, i, e) ==
  LET a == i + 2
      WordAt(k) == Hex(256 * bytes[k] + bytes[k + 1])
      ValueAt(k) == IF e.width = 1 THEN <<Text("byte"), Hex(bytes[k])>>
                    ELSE <<Text("word"), WordAt(k)>>
      r == Text((IF e.width = 1 THEN LowRegisters ELSE FullRegisters)[e.reg + 1])
      l == Text(LowRegisters[e.reg + 1])
      Memory(k) == <<Mark("&"), WordAt(k)>>
      Bp(k) == <<Mark("&"), Text("bp")>> \o Offset(bytes[k])
      PlusL == <<Mark("+"), l>>
      comma == <<Mark(",")>>
      Transfer(place) == IF bytes[i + 1] \in {59, 27, 29} THEN place \o comma \o <<r>>
                         ELSE <<r>> \o comma \o place
  IN CASE e.mode = "implied" -> <<>>
       [] e.mode = "immediate" -> ValueAt(a)
       [] e.mode = "reg" -> <<r>>
       [] e.mode = "regs" -> <<r>> \o comma \o <<Text(FullRegisters[e.source + 1])>>
       [] e.mode = "absolute" -> Memory(a)
       [] e.mode = "indexed" -> Memory(a) \o PlusL
       [] e.mode = "indirect" -> <<Mark("["), WordAt(a), Mark("]")>>
       [] e.mode = "indirect_indexed" -> <<Mark("["), WordAt(a), Mark("]")>> \o PlusL
       [] e.mode = "pc" -> <<Mark("*")>> \o Offset(bytes[a])
       [] e.mode = "bp" -> Bp(a)
       [] e.mode = "pc_reg" -> <<Mark("*"), l>>
       [] e.mode = "bp_reg" -> <<Mark("&"), Text("bp")>> \o PlusL
       [] e.mode = "store_bp" -> Bp(a) \o comma \o ValueAt(a + 1)
       [] e.mode = "store_bp_reg" -> <<Mark("&"), Text("bp")>> \o PlusL \o comma \o ValueAt(a)
       [] e.mode = "store_absolute" -> Memory(a) \o comma \o ValueAt(a + 2)
       [] e.mode = "store_indexed" -> Memory(a) \o PlusL \o comma \o ValueAt(a + 2)
       [] e.mode = "reg_immediate" -> <<r>> \o comma \o ValueAt(a)
       [] e.mode = "reg_absolute" -> Transfer(Memory(a))
       [] e.mode = "reg_pc" -> Transfer(<<Mark("*")>> \o Offset(bytes[a]))
       [] e.mode = "reg_bp" -> Transfer(Bp(a))

(* disassemble: a byte that begins no whole valid instruction is data.     *)
Instructs(bytes, i) ==
  LET e == Decode(bytes[i])
  IN i < Len(bytes) /\ Valid(bytes[i + 1], e) /\ i + 1 + e.size <= Len(bytes)

Disassembled(bytes) ==
  LET from[i \in 1 .. Len(bytes) + 1] ==
        LET e == Decode(bytes[i])
        IN IF i > Len(bytes) THEN <<>>
           ELSE IF Instructs(bytes, i)
           THEN Listing(bytes[i + 1], Operand(bytes, i, e)) \o from[i + 2 + e.size]
           ELSE <<Text("byte"), Hex(bytes[i]), NewLine>> \o from[i + 1]
  IN from[1]
-----------------------------------------------------------------------------
(* Header::process: the symbols it reads, and how far it read, or failure. *)
WordOf(file, k) == 256 * file[k] + file[k + 1]
Found(ok, used, symbols) == [ok |-> ok, used |-> used, symbols |-> symbols]

(* One turn of its loop, from the byte after used.                         *)
OneSymbol(file, size, used) ==
  LET zeros == {k \in used + 1 .. size : k <= Len(file) /\ file[k] = 0}
      z == Least(zeros)
      name == SubSeq(file, used + 1, z - 1)
  IN IF zeros = {} \/ name = <<>> \/ size - z < 4 \/ z + 4 > Len(file)
     THEN [ok |-> FALSE, used |-> used, name |-> <<>>, value |-> 0]
     ELSE [ok |-> TRUE, used |-> z + 4, name |-> name, value |-> WordOf(file, z + 3)]

(* A name that comes twice keeps what is read last.                        *)
Symbols(file, size) ==
  LET from[used \in 11 .. size] ==
        LET one == OneSymbol(file, size, used)
        IN IF used = size THEN Found(TRUE, used, <<>>)
           ELSE IF ~ one.ok THEN Found(FALSE, used, <<>>)
           ELSE [from[one.used] EXCEPT !.symbols =
                   IF one.name \in DOMAIN @ THEN @ ELSE Put(@, one.name, one.value)]
  IN from[11]

Process(file) ==
  IF \/ Len(file) < 11 \/ SubSeq(file, 1, 4) # <<85, 65, 76, 1>>
     \/ file[7] # 1 \/ file[9] > 2 \/ WordOf(file, 10) < 11
  THEN Found(FALSE, 0, <<>>)
  ELSE Symbols(file, WordOf(file, 10))
=============================================================================
