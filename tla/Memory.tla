------------------------------- MODULE Memory -------------------------------
(***************************************************************************)
(* What the kernel expects of external memory (kernel/bus/bus.h:31-36,     *)
(* "Read a byte from memory address space"): a read of a RAM address       *)
(* returns the byte last written there, whatever was read or written in    *)
(* between.  An address outside RAM is a peripheral register and may       *)
(* return any byte.  BusCache is shown to implement this module.           *)
(***************************************************************************)
EXTENDS Naturals

CONSTANTS
  Ram,      (* the addresses of external RAM *)
  Address,  (* every address of the bus      *)
  Byte      (* the values of a byte          *)

VARIABLES
  mem,  (* mem[a]: the byte last written to RAM address a        *)
  out   (* the last read: its address and the byte it returned   *)

memVars == <<mem, out>>

Init ==
  /\ mem \in [Ram -> Byte]
  /\ out \in [addr: Address, val: Byte]

Read(a) ==
  /\ out' \in [addr: {a}, val: Byte]
  /\ a \in Ram => out'.val = mem[a]
  /\ UNCHANGED mem

Write(a, b) ==
  /\ mem' = [mem EXCEPT ![a] = b]
  /\ UNCHANGED out

Next ==
  \/ \E a \in Address : Read(a)
  \/ \E a \in Ram, b \in Byte : Write(a, b)

Spec == Init /\ [][Next]_memVars
=============================================================================
