---------------------------- MODULE BootPrograms ----------------------------
(***************************************************************************)
(* The programs that the boot command drops into the bin directory         *)
(* (kernel/command/boot/boot.c), as bytes for the emulator.                *)
(*                                                                         *)
(* The text of a program is as long as in the code, and is written with    *)
(* one character, a different one for each text.                           *)
(***************************************************************************)
EXTENDS Emulator

AL == 0
CH == 5

(* An address of the program, the lowest byte first.                       *)
Addr(a) == <<a, 0, 0, 0>>

Text(character, length) == [n \in 1 .. length |-> character] \o <<0>>

ReturnToOS == <<Op.INT, 32>>

(* Show the text at an address and return; jump when a service answers n.  *)
Say(a) == <<Op.MOVB, AH, 9, Op.MOVA, DL>> \o Addr(a) \o <<Op.INT, 16>> \o ReturnToOS

On(n, a) == <<Op.CMP, BL, n, Op.JE>> \o Addr(a)

NetProgram ==
  <<Op.MOVB, AL, 0, Op.MOVB, AH, 10, Op.INT, 20>> \o On(1, 43) \o On(2, 56)
    \o <<Op.MOVA, DL>> \o Addr(69) \o <<Op.MOVB, CL, 12, Op.MOVB, AL, 1, Op.MOVB, AH, 12, Op.INT, 20>>
    \o ReturnToOS \o Say(81) \o Say(98)
    \o Text(101, 11)                                       (* "test packet" *)
    \o Text(102, 16)                                  (* "Initiation error" *)
    \o Text(103, 19)                               (* "Network drier error" *)

LdProgram ==
  <<Op.MOVB, AH, 10, Op.INT, 71>> \o On(1, 55) \o On(2, 68) \o On(3, 42)
    \o Say(81) \o Say(88) \o Say(103) \o Say(123)
    \o Text(104, 6)                                             (* "Loaded" *)
    \o Text(105, 14)                                    (* "Already loaded" *)
    \o Text(106, 19)                               (* "File does not exist" *)
    \o Text(107, 12)                                      (* "File corrupt" *)
    \o ReturnToOS

TypeProgram == <<Op.MOVB, AH, 76, Op.INT, 19>> \o ReturnToOS

VerProgram == Say(13) \o Text(108, 13)                   (* "Version 0.1.0" *)

ClsProgram == <<Op.MOVB, AH, 3, Op.INT, 16>> \o ReturnToOS

SilentLdProgram ==
  <<Op.MOVB, AH, 10, Op.INT, 71>> \o On(1, 47) \o On(2, 60) \o On(3, 34)
    \o <<Op.JMP>> \o Addr(121) \o Say(73) \o Say(88) \o Say(108)
    \o Text(105, 14) \o Text(106, 19) \o Text(107, 12) \o ReturnToOS

MkProgram ==
  <<Op.MOVB, AH, 60, Op.MOVB, CL, 0, Op.MOVB, CH, 20, Op.INT, 19>>
    \o On(0, 43) \o On(1, 71) \o On(2, 58) \o On(3, 45) \o ReturnToOS
    \o Say(84) \o Say(104) \o Say(124)
    \o Text(109, 19)                               (* "Error creating file" *)
    \o Text(110, 19)                               (* "File already exists" *)
    \o Text(111, 12)                                      (* "Bad filename" *)

MkdirProgram ==
  <<Op.MOVB, AH, 57, Op.INT, 19>> \o On(0, 37) \o On(1, 65) \o On(2, 52) \o On(3, 39) \o ReturnToOS
    \o Say(78) \o Say(97) \o Say(116)
    \o Text(112, 18)                                (* "Error creating dir" *)
    \o Text(113, 18)                                (* "Dir already exists" *)
    \o Text(114, 12)                                      (* "Bad dir name" *)

RmProgram ==
  <<Op.MOVB, AH, 65, Op.INT, 19>> \o On(0, 47) \o On(1, 62)
    \o <<Op.MOVB, AH, 58, Op.INT, 19>> \o On(0, 47) \o On(1, 62) \o <<Op.JMP>> \o Addr(49)
    \o ReturnToOS \o Say(75) \o Say(113)
    \o Text(115, 18)                                (* "Error deleting dir" *)
    \o Text(113, 18) \o Text(114, 12)

(* The files, in the order they are created.  A name that exists is left,  *)
(* so the second ld is never there.                                        *)
Binaries ==
  <<[name |-> "net", program |-> NetProgram], [name |-> "ld", program |-> LdProgram],
    [name |-> "type", program |-> TypeProgram], [name |-> "ver", program |-> VerProgram],
    [name |-> "cls", program |-> ClsProgram], [name |-> "ld", program |-> SilentLdProgram],
    [name |-> "mk", program |-> MkProgram], [name |-> "mkdir", program |-> MkdirProgram],
    [name |-> "rm", program |-> RmProgram]>>

DropFileSystemFunc ==
  {Binaries[i].program : i \in {i \in DOMAIN Binaries :
                                  \A j \in 1 .. i - 1 : Binaries[j].name # Binaries[i].name}}
=============================================================================
