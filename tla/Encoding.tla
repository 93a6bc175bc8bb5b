------------------------------- MODULE Encoding -------------------------------
(***************************************************************************)
(* The wire format every tool shares (common/encoding.hh).  An instruction *)
(* is an addressing byte, an opcode byte and the operand bytes the         *)
(* addressing byte calls for.  Opcodes are bytes; their mnemonics are the  *)
(* source's.                                                               *)
(***************************************************************************)
EXTENDS Integers, Sequences

Bytes == 0 .. 255

(* Fields of the addressing byte: two bits, three bits, three bits.        *)
Top(a) == a \div 64
Mid(a) == (a \div 8) % 8
Low(a) == a % 8

Modes == {"invalid", "implied", "immediate", "reg", "regs", "absolute",
          "indexed", "indirect", "indirect_indexed", "pc", "bp", "pc_reg",
          "bp_reg", "store_bp", "store_bp_reg", "store_absolute",
          "store_indexed", "reg_absolute", "reg_immediate", "reg_pc", "reg_bp"}

(* mode, number of operand bytes, width of the value in bytes.             *)
Enc(mode, size, width) == [mode |-> mode, size |-> size, width |-> width]

PlainMode(a) ==
  CASE a = 0              -> Enc("implied", 0, 2)
    [] a = 8              -> Enc("immediate", 1, 1)
    [] a = 16             -> Enc("immediate", 2, 2)
    [] Low(a) = 1         -> Enc("reg", 0, 2)
    [] Low(a) = 2         -> Enc("reg", 0, 1)
    [] a = 3              -> Enc("store_bp", 2, 1)
    [] a = 11             -> Enc("store_bp", 3, 2)
    [] Low(a) = 4         -> Enc("store_bp_reg", 1, 1)
    [] Low(a) = 5         -> Enc("store_bp_reg", 2, 2)
    [] a = 6              -> Enc("store_absolute", 3, 1)
    [] a = 14             -> Enc("store_absolute", 4, 2)
    [] Low(a) = 7         -> Enc("store_indexed", 3, 1)
    [] OTHER              -> Enc("invalid", 0, 2)

MemoryMode(a) ==
  CASE a = 128            -> Enc("absolute", 2, 2)
    [] Low(a) = 1         -> Enc("indexed", 2, 2)
    [] a = 130            -> Enc("indirect", 2, 2)
    [] Low(a) = 3         -> Enc("indirect_indexed", 2, 2)
    [] a = 132            -> Enc("pc", 1, 2)
    [] a = 140            -> Enc("bp", 1, 2)
    [] Low(a) = 5         -> Enc("pc_reg", 0, 2)
    [] Low(a) = 6         -> Enc("bp_reg", 0, 2)
    [] OTHER              -> Enc("invalid", 0, 2)

TransferMode(a) ==
  LET width == IF Low(a) >= 4 THEN 1 ELSE 2
  IN CASE a % 4 = 0       -> Enc("reg_absolute", 2, width)
       [] a % 4 = 1       -> Enc("reg_immediate", width, width)
       [] a % 4 = 2       -> Enc("reg_pc", 1, width)
       [] a % 4 = 3       -> Enc("reg_bp", 1, width)

(* decode: reg and source are read whatever the mode is.                   *)
Decode(a) ==
  LET e == CASE Top(a) = 0 -> PlainMode(a)
             [] Top(a) = 1 -> Enc("regs", 0, 2)
             [] Top(a) = 2 -> MemoryMode(a)
             [] Top(a) = 3 -> TransferMode(a)
  IN [mode |-> e.mode, size |-> e.size, width |-> e.width,
      reg |-> Mid(a), source |-> Low(a)]
-----------------------------------------------------------------------------
(* The opcodes, in three runs of consecutive bytes.                        *)

From00 ==
  <<"kill", "reset", "cpuid", "syscall", "call", "ret", "push", "pop", "phpc",
    "popc", "phsr", "posr", "phsp", "posp", "phbp", "pobp", "seti", "sett",
    "sets", "clri", "clrt", "clrs", "clrn", "clro", "clrc", "ireq", "req",
    "write", "hreq", "hwrite", "read", "pareq", "cmp", "careq", "jmp", "jeq",
    "jne", "jge", "jgr", "jle", "jls", "jo", "jno", "jn", "jnn", "inc", "dec",
    "add", "sub", "neg", "and", "or", "xor", "not", "sign", "shl", "shr",
    "par", "load", "store", "tran", "swap", "ldsr", "ldsp", "ldbp", "stsr",
    "stsp", "stbp", "trsr", "trsp", "trbp">>
From50 == <<"sili", "sihi", "seli", "sehi", "sbp", "stp", "tili", "tihi",
            "teli", "tehi", "tbp", "ttp", "lcpid", "tcpid">>
From60 == <<"time", "tstart", "tstop", "trt">>

Opcodes == 0 .. 70 \cup 80 .. 93 \cup 96 .. 99

Name(op) == CASE op <= 70 -> From00[op + 1]
              [] op \in 80 .. 93 -> From50[op - 79]
              [] op >= 96 -> From60[op - 95]

Mnemonics == {Name(op) : op \in Opcodes}

CodeOf == [name \in Mnemonics |-> CHOOSE op \in Opcodes : Name(op) = name]

Branches == {"jmp", "jeq", "jne", "jge", "jgr", "jle", "jls", "jo", "jno",
             "jn", "jnn", "call"}
Stores   == {"write", "hwrite", "store"}
Pairs    == {"cmp", "add", "sub", "and", "or", "xor", "shl", "shr"}
Setters  == {"ldsr", "ldsp", "ldbp", "sili", "sihi", "seli", "sehi", "sbp",
             "stp", "lcpid", "time"}
Getters  == {"trsr", "trsp", "trbp", "tili", "tihi", "teli", "tehi", "tbp",
             "ttp", "tcpid", "trt"}
Queries  == {"ireq", "req", "hreq", "read", "sign", "par"}
Unary    == {"pop", "inc", "dec", "neg", "not"}

(* The families of addressing modes each mnemonic supports.                *)
Supporting ==
  [IMPLIED              |-> {"kill", "reset", "cpuid", "syscall", "ret", "phpc",
                             "popc", "phsr", "posr", "phsp", "posp", "phbp",
                             "pobp", "seti", "sett", "sets", "clri", "clrt",
                             "clrs", "clrn", "clro", "clrc", "pareq", "careq",
                             "tstart", "tstop"},
   IMMEDIATE            |-> Branches \cup Setters \cup {"push"},
   IMMEDIATE_TO_MEMORY  |-> Stores,
   MEMORY_RELATED       |-> Branches \cup Setters \cup Queries
                              \cup {"stsr", "stsp", "stbp"},
   REGISTER_ACCESS      |-> Unary \cup Getters \cup Setters \cup Queries
                              \cup {"push"},
   REGISTER_TO_MEMORY   |-> Stores,
   MEMORY_TO_REGISTER   |-> Pairs \cup {"load"},
   REGISTER_TO_REGISTER |-> Pairs \cup {"tran", "swap"},
   INDIRECT             |-> Branches]

FamilyOf(mode, name) ==
  CASE mode = "implied"   -> "IMPLIED"
    [] mode = "immediate" -> "IMMEDIATE"
    [] mode = "reg"       -> "REGISTER_ACCESS"
    [] mode = "regs"      -> "REGISTER_TO_REGISTER"
    [] mode \in {"indirect", "indirect_indexed"} -> "INDIRECT"
    [] mode \in {"store_bp", "store_bp_reg", "store_absolute", "store_indexed"}
                          -> "IMMEDIATE_TO_MEMORY"
    [] mode = "reg_immediate" -> "MEMORY_TO_REGISTER"
    [] mode \in {"reg_absolute", "reg_pc", "reg_bp"}
                          -> IF name \in Stores THEN "REGISTER_TO_MEMORY"
                             ELSE "MEMORY_TO_REGISTER"
    [] OTHER              -> "MEMORY_RELATED"

(* valid: a jump has no immediate form on the wire, a call only the        *)
(* absolute one, and transfers of special registers one width each.        *)
Valid(op, e) ==
  /\ op \in Opcodes
  /\ e.mode # "invalid"
  /\ LET name == Name(op) IN
       /\ name \in Supporting[FamilyOf(e.mode, name)]
       /\ name \in Branches => e.mode # "immediate"
       /\ name = "call" => e.mode = "absolute"
       /\ name = "trsr" \/ (name = "ldsr" /\ e.mode = "reg") => e.width = 1
       /\ name \in Getters \ {"trsr"} => e.width = 2
=============================================================================
