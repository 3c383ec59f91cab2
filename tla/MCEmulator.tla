------------------------------ MODULE MCEmulator ----------------------------
(***************************************************************************)
(* Programs for the emulator, those of the boot command among them, and    *)
(* what each should have done to memory and shown when it returns.         *)
(***************************************************************************)
EXTENDS BootPrograms

(* The product of two bytes at 0, by additions in a subroutine.            *)
Multiply(x, y) ==
  <<Op.MOVB, AL, x, Op.MOVB, BL, y, Op.MOVB, CL, 0>>                        (*  0 *)
    \o <<Op.CMP, BL, 0, Op.JE>> \o Addr(30) \o <<Op.CALL>> \o Addr(38)      (*  9 *)
    \o <<Op.DEC, BL, Op.JMP>> \o Addr(9) \o <<Op.NOP>>                      (* 22 *)
    \o <<Op.MOVMW, CL>> \o Addr(0) \o ReturnToOS                            (* 30 *)
    \o <<Op.ADD, CL, AL, Op.RET>>                                           (* 38 *)

(* The larger of two bytes at 1, through the stack, with either jump.      *)
Larger(x, y, jump) ==
  <<Op.MOVB, AL, x, Op.MOVB, BL, y, Op.PUSH, AL, Op.PUSH, BL, Op.POP, CL, Op.POP, DL>>
    \o (IF jump = Op.JG THEN <<Op.CMPR, CL, DL>> ELSE <<Op.CMPR, DL, CL>>)  (* 14 *)
    \o <<jump>> \o Addr(25) \o <<Op.MOVR, CL, DL>>                          (* 17 *)
    \o <<Op.MOVMW, CL>> \o Addr(1) \o ReturnToOS                            (* 25 *)

(* The remainder of a division at 0, and at 2 one more than its bits that  *)
(* the divisor has not.                                                    *)
Remainder(x, y) ==
  <<Op.MOVA, AL, x, 9, 0, 0, Op.MOVB, BL, y, Op.DIV, DL, AL, BL, Op.MUL, CL, DL, BL, Op.SUB, AL, CL>>
    \o <<Op.MOVMW, AL>> \o Addr(0)                                          (* 20 *)
    \o <<Op.MOVR, CL, AL, Op.NOT, CL, 0, Op.AND, CL, BL, Op.OR, CL, AL, Op.XOR, CL, BL, Op.INC, CL>>
    \o <<Op.MOVMW, CL>> \o Addr(2) \o <<Op.CMP, CL, 1, Op.JNE>> \o Addr(59) (* 43 *)
    \o <<Op.CLI, Op.STI>> \o ReturnToOS                                     (* 57 *)

(* A byte copied from 1 to 5, and at 6 the answer of the file service; the *)
(* other services; an opcode that is not known.                            *)
Copy ==
  <<Op.MOVMR, AL>> \o Addr(1) \o <<Op.MOVMW, AL>> \o Addr(5)
    \o <<Op.MOVB, AH, 3, Op.INT, 16, Op.MOVB, AH, 9, Op.INT, 16, Op.INT, 19>>
    \o <<Op.MOVMW, BL>> \o Addr(6)
    \o <<Op.MOVB, AH, 10, Op.INT, 20, Op.INT, 71, Op.MOVB, AH, 12, 204, 20, 1>> \o ReturnToOS

(* A subroutine that calls another one: it returns to the beginning of the *)
(* program, which never gets to its write.                                 *)
NestedCall ==
  <<Op.CALL>> \o Addr(13) \o <<Op.MOVMW, AL>> \o Addr(3) \o ReturnToOS
    \o <<Op.CALL>> \o Addr(19) \o <<Op.RET>> \o <<Op.RET>>

(* One write and then nothing to the end of the buffer.                    *)
FillsBuffer ==
  <<Op.MOVMW, AH>> \o Addr(3) \o [i \in 1 .. MAX_PROGRAM_SIZE - 6 |-> Op.NOP]

(* No promise for these: a stack that runs empty, and one that ends        *)
(* without returning, so that what an earlier program left is run.         *)
PopsEmpty == <<Op.POP, AL>>
NoReturn  == <<Op.INC, AL>>

MCPrograms ==
  {Multiply(3, 2), Multiply(200, 2), Multiply(7, 0), Larger(9, 4, Op.JG), Larger(4, 9, Op.JL),
   Larger(6, 6, Op.JL), Remainder(23, 5), Remainder(6, 3), Copy, NestedCall, FillsBuffer,
   PopsEmpty, NoReturn} \cup DropFileSystemFunc

MCByte == 0 .. 255

MCKernelReads  == {2, 63}
MCKernelWrites == {<<17, 7>>}
MCRegisters    == {1}
MCDriverWrites == {9}

-----------------------------------------------------------------------------
Loaded == [i \in 1 .. programSize |-> programBuffer[i - 1]]

(* What a program writes to user memory, from the memory it began with.    *)
Writes(code) ==
  CASE code = Multiply(3, 2) -> {<<0, 6>>}
    [] code = Multiply(200, 2) -> {<<0, 144>>}
    [] code = Multiply(7, 0) -> {<<0, 0>>}
    [] code \in {Larger(9, 4, Op.JG), Larger(4, 9, Op.JL)} -> {<<1, 9>>}
    [] code = Larger(6, 6, Op.JL) -> {<<1, 6>>}
    [] code = Remainder(23, 5) -> {<<0, 3>>, <<2, 3>>}
    [] code = Remainder(6, 3) -> {<<0, 0>>, <<2, 1>>}
    [] code = Copy -> {<<5, before[UserBegin + 1]>>, <<6, 1>>}
    [] code = FillsBuffer -> {<<3, reg[AH]>>}
    [] OTHER -> {}

(* What a program shows: without a network driver, with a file service     *)
(* that answers 1, and a loader of drivers that answers 0.                 *)
Shows(code) ==
  CASE code = NetProgram -> Text(102, 16)
    [] code = LdProgram -> Text(104, 6)
    [] code = VerProgram -> Text(108, 13)
    [] code = MkProgram -> Text(111, 12)
    [] code \in {MkdirProgram, RmProgram} -> Text(114, 12)
    [] OTHER -> <<0>>

Promising == MCPrograms \ {NestedCall, PopsEmpty, NoReturn}

(* A program that is started returns, and then memory, the kernel's and    *)
(* the user's, seen through the cache, is what it was but for the bytes    *)
(* the program writes, and the display shows what the program says, or     *)
(* what the registers of an earlier one point at; one that calls within a  *)
(* call never returns and writes nothing (x4.c:29, 58-386, services.c:55). *)
ProgramsDoWhatTheySay ==
  /\ [](stage = "returned" /\ Loaded \in Promising =>
          /\ \A w \in Writes(Loaded) : View[UserBegin + w[1]] = w[2]
          /\ \A a \in Address : View[a] # before[a] => \E w \in Writes(Loaded) : a = UserBegin + w[1]
          /\ Loaded # Copy => shown \o <<0>> = Shows(Loaded))
  /\ [](stage # "os" /\ Loaded = NestedCall => stage = "running" /\ View = before)
  /\ (stage = "running" /\ Loaded \in Promising) ~> stage = "returned"
=============================================================================
