------------------------------ MODULE Allocator -----------------------------
(***************************************************************************)
(* What the file system promises about storage (kernel/fs/fs.h:56-64):     *)
(* every block is a run of sectors of its own, a block stays whole until   *)
(* it is freed, and a request is refused only when no run is long enough.  *)
(***************************************************************************)
EXTENDS Integers

CONSTANTS
  Sector,   (* the sectors that can be handed out             *)
  Lengths,  (* the lengths of run that can be asked for       *)
  RootLength

VARIABLES
  owned,   (* owned[h]: the sectors of the block with handle h *)
  result   (* the last handle returned; 0 is a refusal         *)

allocVars == <<owned, result>>

Run(s, k) == s .. s + k - 1
FreeSectors == {s \in Sector : \A h \in DOMAIN owned : s \notin owned[h]}

Emptied ==
  \E s \in Sector :
    /\ Run(s, RootLength) \subseteq Sector
    /\ owned' = [h \in {s} |-> Run(s, RootLength)]
    /\ result' = s

Init ==
  \E s \in Sector :
    /\ Run(s, RootLength) \subseteq Sector
    /\ owned = [h \in {s} |-> Run(s, RootLength)]
    /\ result = s

Grant(k) ==
  \E s \in FreeSectors :
    /\ Run(s, k) \subseteq FreeSectors
    /\ owned' = [h \in DOMAIN owned \cup {s} |->
                   IF h = s THEN Run(s, k) ELSE owned[h]]
    /\ result' = s

Refuse(k) ==
  /\ \A s \in Sector : ~(Run(s, k) \subseteq FreeSectors)
  /\ result' = 0
  /\ UNCHANGED owned

Release(h) ==
  /\ owned' = [g \in DOMAIN owned \ {h} |-> owned[g]]
  /\ UNCHANGED result

Next ==
  \/ \E k \in Lengths : Grant(k) \/ Refuse(k)
  \/ \E h \in DOMAIN owned : Release(h)
  \/ Emptied

Spec == Init /\ [][Next]_allocVars
=============================================================================
