------------------------------- MODULE Emulator -----------------------------
(***************************************************************************)
(* The X4 emulator (kernel/emulation/x4/x4.c and services.c) on the bus of *)
(* the RetroAVR X4.                                                        *)
(*                                                                         *)
(* The kernel loads a program of bytes and runs it, one instruction a      *)
(* step, until it returns control or runs off the end of its buffer; in    *)
(* between the kernel uses the same memory through the same cache.  The    *)
(* shell calls the emulator with interrupts disabled.  What a program      *)
(* sends is abstracted.                                                    *)
(***************************************************************************)
EXTENDS RetroAvrBus, Sequences, Bitwise

CONSTANTS
  Programs,          (* the programs, as sequences of bytes               *)
  MAX_PROGRAM_SIZE,  (* 256                                               *)
  StackSize,         (* 100                                               *)
  UserBegin,         (* 0x4000, where user memory begins                  *)
  TestByte,          (* 0xAA, what the RAM test leaves in memory          *)
  Networked,         (* whether there is a driver for the network         *)
  KernelReads,       (* addresses the kernel reads, and what it writes    *)
  KernelWrites,      (* to which: pairs of an address and a byte          *)
  DriverWrites,      (* the bytes its drivers write to their devices      *)
  MaxRuns            (* bound on the programs run                         *)

ASSUME EmulatorAssumption ==
  /\ \A p \in Programs : p \in Seq(Byte) /\ Len(p) <= MAX_PROGRAM_SIZE

VARIABLES
  programBuffer, programSize,
  reg, stack, stack_ptr, pc, pcRet, flag_compare, flag_greater, flag_consoleDirty,
  sreg_i,                      (* whether interrupts are enabled           *)
  heap_begin, mode,            (* user memory or the kernel's             *)
  shown,                       (* what the program has put on the display *)
  stage,                       (* "os", "running", "returned" or "undefined" *)
  runs, before                 (* the programs run, and the memory when the last began *)

cpuVars == <<reg, stack, stack_ptr, pc, pcRet, flag_compare, flag_greater, flag_consoleDirty,
             sreg_i>>
kernelVars == <<programBuffer, programSize, heap_begin, mode, stage, runs, before>>
osVars == <<kernelVars, shown>>
vars == <<busVars, cpuVars, osVars>>

Init ==
  /\ store = [a \in Address |-> TestByte] /\ BusInit
  /\ programBuffer = [i \in 0 .. MAX_PROGRAM_SIZE - 1 |-> ZeroByte] /\ programSize = 0
  /\ reg = [r \in 0 .. 7 |-> 0] /\ stack = [i \in 0 .. StackSize - 1 |-> 0] /\ stack_ptr = 0
  /\ pc = 0 /\ pcRet = 0 /\ flag_compare = 0 /\ flag_greater = 0 /\ flag_consoleDirty = 1
  /\ sreg_i = 0 /\ heap_begin = 0 /\ mode = "KERNEL" /\ shown = <<>>
  /\ stage = "os" /\ runs = 0 /\ before = View

-----------------------------------------------------------------------------
(* The kernel uses its memory.                                             *)
KernelRead ==
  /\ stage = "os"
  /\ \E a \in KernelReads : bus_read_memory(a)
  /\ UNCHANGED <<cpuVars, osVars>>

KernelWrite ==
  /\ stage = "os"
  /\ \E w \in KernelWrites : bus_write_memory(w[1], w[2])
  /\ UNCHANGED <<cpuVars, osVars>>

(* So do the drivers theirs.                                               *)
DriverAccess ==
  /\ stage = "os"
  /\ \E r \in Registers : bus_read_byte(r) \/ \E b \in DriverWrites : bus_write_byte(r, b)
  /\ UNCHANGED <<cpuVars, osVars>>

(* EmulatorSetProgram, which leaves the rest of an earlier program in the  *)
(* buffer, and the beginning of EmulateX4.  Registers and stack keep what  *)
(* they hold.                                                              *)
Start ==
  /\ stage = "os" /\ runs < MaxRuns
  /\ \E p \in Programs :
       /\ programBuffer' = [i \in DOMAIN programBuffer |-> IF i < Len(p) THEN p[i + 1] ELSE programBuffer[i]]
       /\ programSize' = Len(p)
  /\ pc' = 0 /\ pcRet' = 0 /\ stack_ptr' = 0
  /\ flag_compare' = 0 /\ flag_greater' = 0 /\ flag_consoleDirty' = 1
  /\ sreg_i' = 0
  /\ mode' = "USER" /\ heap_begin' = UserBegin /\ shown' = <<>>
  /\ stage' = "running" /\ runs' = runs + 1 /\ before' = View
  /\ UNCHANGED <<busVars, reg, stack>>

-----------------------------------------------------------------------------
(* The instruction at the program counter and its arguments.               *)
opCode == programBuffer[pc]
argA == programBuffer[pc + 1]
argB == programBuffer[pc + 2]
argC == programBuffer[pc + 3]

(* Four bytes from argument k on, the lowest first.                        *)
Pointer(k) ==
  programBuffer[pc + k] + 256 * programBuffer[pc + k + 1]
    + 65536 * programBuffer[pc + k + 2] + 16777216 * programBuffer[pc + k + 3]

(* The opcodes.  IN and OUT have numbers too, but the emulator has no case *)
(* for them.                                                               *)
Op ==
  [NOP |-> 144, MOVR |-> 136, MOVB |-> 137, MOVA |-> 131, MOVMW |-> 130, MOVMR |-> 129,
   INC |-> 253, DEC |-> 252, ADD |-> 0, SUB |-> 128, MUL |-> 246, DIV |-> 244,
   AND |-> 32, OR |-> 33, XOR |-> 34, NOT |-> 35, POP |-> 15, PUSH |-> 240,
   CMP |-> 56, CMPR |-> 57, JMP |-> 254, JE |-> 116, JNE |-> 243, JG |-> 117, JL |-> 241,
   CALL |-> 154, RET |-> 203, INT |-> 205, CLI |-> 250, STI |-> 251]

(* Those that set one register to a value.                                 *)
Setting == {Op.MOVR, Op.MOVB, Op.INC, Op.DEC, Op.ADD, Op.SUB, Op.MUL, Op.DIV,
            Op.AND, Op.OR, Op.XOR, Op.NOT}

Jumping == {Op.JMP, Op.JE, Op.JNE, Op.JG, Op.JL}

Interrupting == {204, Op.INT}

(* The registers that the services use.                                    *)
AH == 1
BL == 2
CL == 4
DL == 6
DH == 7

(* How many bytes an instruction takes; an unknown one takes its first.    *)
Length ==
  CASE opCode \in {Op.MOVMR, Op.MOVMW, Op.MOVA} -> 6
    [] opCode \in Jumping \cup {Op.CALL} -> 5
    [] opCode \in {Op.MUL, Op.DIV} -> 4
    [] opCode \in {Op.INC, Op.DEC, Op.POP, Op.PUSH} \cup Interrupting -> 2
    [] opCode \in Setting \cup {Op.CMP, Op.CMPR} -> 3
    [] OTHER -> 1

RegistersNamed ==
  CASE opCode \in {Op.MUL, Op.DIV} -> {argA, argB, argC}
    [] opCode \in {Op.MOVR, Op.ADD, Op.SUB, Op.AND, Op.OR, Op.XOR, Op.CMPR} -> {argA, argB}
    [] opCode = Op.MOVA -> {argA, argA + 1}
    [] opCode \in Setting \cup {Op.MOVMR, Op.MOVMW, Op.POP, Op.PUSH, Op.CMP} -> {argA}
    [] OTHER -> {}

(* The text at the address in DL and DH, to its zero, or as many bytes as  *)
(* the program has.                                                        *)
TextBegin == reg[DL] + 256 * reg[DH]

TextEnd ==
  CHOOSE n \in TextBegin .. TextBegin + programSize :
    /\ n = TextBegin + programSize \/ n >= MAX_PROGRAM_SIZE \/ programBuffer[n] = 0
    /\ \A m \in TextBegin .. n - 1 : m < MAX_PROGRAM_SIZE /\ programBuffer[m] # 0

Printing == opCode \in Interrupting /\ argA = 16 /\ reg[AH] = 9

(* Nothing checks that an instruction is all in the buffer, or a text, or  *)
(* that the registers and the stack exist.                                 *)
IsUndefined ==
  pc + Length <= MAX_PROGRAM_SIZE =>
  \/ Printing /\ TextEnd >= MAX_PROGRAM_SIZE
  \/ ~(RegistersNamed \subseteq DOMAIN reg)
  \/ opCode = Op.PUSH /\ stack_ptr = StackSize
  \/ opCode = Op.POP /\ stack_ptr = 0
  \/ opCode = Op.DIV /\ reg[argC] = 0

-----------------------------------------------------------------------------
Running == stage = "running" /\ pc < MAX_PROGRAM_SIZE

Runs(opCodes) == Running /\ opCode \in opCodes /\ ~IsUndefined

Advance == pc' = pc + Length

Value ==
  CASE opCode = Op.MOVR -> reg[argB]
    [] opCode = Op.MOVB -> argB
    [] opCode = Op.INC -> (reg[argA] + 1) % 256
    [] opCode = Op.DEC -> (reg[argA] + 255) % 256
    [] opCode = Op.ADD -> (reg[argA] + reg[argB]) % 256
    [] opCode = Op.SUB -> (reg[argA] + 256 - reg[argB]) % 256
    [] opCode = Op.MUL -> (reg[argB] * reg[argC]) % 256
    [] opCode = Op.DIV -> reg[argB] \div reg[argC]
    [] opCode = Op.AND -> reg[argA] & reg[argB]
    [] opCode = Op.OR -> reg[argA] | reg[argB]
    [] opCode = Op.XOR -> reg[argA] ^^ reg[argB]
    [] opCode = Op.NOT -> 255 - reg[argA]

SetRegister ==
  /\ Runs(Setting)
  /\ reg' = [reg EXCEPT ![argA] = Value]
  /\ Advance
  /\ UNCHANGED <<busVars, stack, stack_ptr, pcRet, flag_compare, flag_greater, flag_consoleDirty,
                 sreg_i, osVars>>

SetWord ==
  /\ Runs({Op.MOVA})
  /\ reg' = [reg EXCEPT ![argA] = argB, ![argA + 1] = argC]
  /\ Advance
  /\ UNCHANGED <<busVars, stack, stack_ptr, pcRet, flag_compare, flag_greater, flag_consoleDirty,
                 sreg_i, osVars>>

(* Memory, from the beginning of user memory on.  The check of the pointer *)
(* against the end of the heap, the largest address, never fails.          *)
ReadByte ==
  /\ Runs({Op.MOVMR})
  /\ bus_read_memory((heap_begin + Pointer(2)) % Space)
  /\ reg' = [reg EXCEPT ![argA] = out'.val]
  /\ Advance
  /\ UNCHANGED <<stack, stack_ptr, pcRet, flag_compare, flag_greater, flag_consoleDirty,
                 sreg_i, osVars>>

WriteByte ==
  /\ Runs({Op.MOVMW})
  /\ bus_write_memory((heap_begin + Pointer(2)) % Space, reg[argA])
  /\ Advance
  /\ UNCHANGED <<reg, stack, stack_ptr, pcRet, flag_compare, flag_greater, flag_consoleDirty,
                 sreg_i, osVars>>

Pop ==
  /\ Runs({Op.POP})
  /\ stack_ptr' = stack_ptr - 1
  /\ reg' = [reg EXCEPT ![argA] = stack[stack_ptr - 1]]
  /\ Advance
  /\ UNCHANGED <<busVars, stack, pcRet, flag_compare, flag_greater, flag_consoleDirty, sreg_i, osVars>>

Push ==
  /\ Runs({Op.PUSH})
  /\ stack' = [stack EXCEPT ![stack_ptr] = reg[argA]]
  /\ stack_ptr' = stack_ptr + 1
  /\ Advance
  /\ UNCHANGED <<busVars, reg, pcRet, flag_compare, flag_greater, flag_consoleDirty, sreg_i, osVars>>

Compare ==
  LET y == IF opCode = Op.CMP THEN argB ELSE reg[argB]
  IN
  /\ Runs({Op.CMP, Op.CMPR})
  /\ flag_compare' = IF reg[argA] = y THEN 1 ELSE 0
  /\ flag_greater' = IF reg[argA] > y THEN 1 ELSE 0
  /\ Advance
  /\ UNCHANGED <<busVars, reg, stack, stack_ptr, pcRet, flag_consoleDirty, sreg_i, osVars>>

-----------------------------------------------------------------------------
(* JL jumps when the values were equal too.                                *)
Taken ==
  \/ opCode = Op.JMP
  \/ opCode = Op.JE /\ flag_compare = 1
  \/ opCode = Op.JNE /\ flag_compare = 0
  \/ opCode = Op.JG /\ flag_greater = 1
  \/ opCode = Op.JL /\ flag_greater = 0

Jump ==
  /\ Runs(Jumping)
  /\ pc' = IF Taken THEN Pointer(1) ELSE pc + Length
  /\ UNCHANGED <<busVars, reg, stack, stack_ptr, pcRet, flag_compare, flag_greater,
                 flag_consoleDirty, sreg_i, osVars>>

(* There is one return address: a call in a call loses the outer one.      *)
(* Slip: the address of the call's own arguments is kept.                  *)
ReturnAddressEarly == pc + 1

ReturnAddress == pc + Length

Call ==
  /\ Runs({Op.CALL})
  /\ pcRet' = ReturnAddress
  /\ pc' = Pointer(1)
  /\ UNCHANGED <<busVars, reg, stack, stack_ptr, flag_compare, flag_greater, flag_consoleDirty,
                 sreg_i, osVars>>

Return ==
  /\ Runs({Op.RET})
  /\ pc' = pcRet /\ pcRet' = 0
  /\ UNCHANGED <<busVars, reg, stack, stack_ptr, flag_compare, flag_greater, flag_consoleDirty,
                 sreg_i, osVars>>

SetInterruptFlag ==
  /\ Runs({Op.CLI, Op.STI})
  /\ sreg_i' = IF opCode = Op.STI THEN 1 ELSE 0
  /\ Advance
  /\ UNCHANGED <<busVars, reg, stack, stack_ptr, pcRet, flag_compare, flag_greater,
                 flag_consoleDirty, osVars>>

(* NOP and the opcodes that are not known.                                 *)
Skip ==
  /\ Running
  /\ opCode \notin Setting \cup Jumping \cup Interrupting
       \cup {Op.MOVA, Op.MOVMR, Op.MOVMW, Op.POP, Op.PUSH, Op.CMP, Op.CMPR, Op.CALL, Op.RET, Op.CLI, Op.STI}
  /\ Advance
  /\ UNCHANGED <<busVars, reg, stack, stack_ptr, pcRet, flag_compare, flag_greater,
                 flag_consoleDirty, sreg_i, osVars>>

-----------------------------------------------------------------------------
(* The answers of the services, in register BL.                            *)
ISC_DisplayRoutine == IF reg[AH] \in {3, 9} THEN reg[BL] ELSE 1

ISC_FileSystemRoutine == 1

ISC_NetworkRoutine ==
  LET offset == reg[DL] + 256 * reg[DH]
  IN
  CASE reg[AH] = 10 -> IF Networked THEN 0 ELSE 1
    [] reg[AH] = 12 -> IF offset >= programSize \/ offset + reg[CL] >= programSize THEN 1 ELSE 0
    [] OTHER -> 1

(* LoadLibrary answers 0 in this build.                                    *)
ISC_OperatingSystem == IF reg[AH] = 10 THEN 0 ELSE reg[BL]

Interrupt ==
  /\ Runs(Interrupting) /\ argA # 32
  /\ reg' = [reg EXCEPT ![BL] = CASE argA = 16 -> ISC_DisplayRoutine
                                  [] argA = 19 -> ISC_FileSystemRoutine
                                  [] argA = 20 -> ISC_NetworkRoutine
                                  [] argA = 71 -> ISC_OperatingSystem
                                  [] OTHER -> @]
  /\ flag_consoleDirty' = IF Printing THEN 1
                          ELSE IF argA = 16 /\ reg[AH] = 3 THEN 0 ELSE flag_consoleDirty
  /\ shown' = IF Printing THEN shown \o [i \in 1 .. TextEnd - TextBegin |-> programBuffer[TextBegin + i - 1]]
              ELSE IF argA = 16 /\ reg[AH] = 3 THEN <<>> ELSE shown
  /\ Advance
  /\ UNCHANGED <<busVars, stack, stack_ptr, pcRet, flag_compare, flag_greater, sreg_i, kernelVars>>

(* Interrupt 20h returns control; the access mode and the heap stay those  *)
(* of the program.                                                         *)
ReturnControl ==
  /\ Runs(Interrupting) /\ argA = 32
  /\ Advance
  /\ stage' = "returned"
  /\ UNCHANGED <<busVars, reg, stack, stack_ptr, pcRet, flag_compare, flag_greater,
                 flag_consoleDirty, sreg_i, programBuffer, programSize, heap_begin, mode, shown, runs, before>>

(* Past the end of the buffer, the kernel's mode and heap come back.       *)
EndOfBuffer ==
  /\ stage = "running" /\ pc >= MAX_PROGRAM_SIZE
  /\ mode' = "KERNEL" /\ heap_begin' = 0
  /\ stage' = "returned"
  /\ UNCHANGED <<busVars, cpuVars, programBuffer, programSize, shown, runs, before>>

(* What follows is not defined by the code.                                *)
Undefined ==
  /\ Running /\ IsUndefined
  /\ stage' = "undefined"
  /\ UNCHANGED <<busVars, cpuVars, programBuffer, programSize, heap_begin, mode, shown, runs, before>>

ReturnToShell ==
  /\ stage = "returned"
  /\ stage' = "os"
  /\ UNCHANGED <<busVars, cpuVars, programBuffer, programSize, heap_begin, mode, shown, runs, before>>

EmulateX4 ==
  \/ SetRegister \/ SetWord \/ ReadByte \/ WriteByte \/ Pop \/ Push \/ Compare
  \/ Jump \/ Call \/ Return \/ SetInterruptFlag \/ Skip \/ Interrupt
  \/ ReturnControl \/ EndOfBuffer \/ Undefined \/ ReturnToShell

Next == KernelRead \/ KernelWrite \/ DriverAccess \/ Start \/ EmulateX4

(* The emulator goes on while it has something to do.                      *)
Spec == Init /\ [][Next]_vars /\ WF_vars(EmulateX4)
=============================================================================
