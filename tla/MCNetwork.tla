------------------------------ MODULE MCNetwork -----------------------------
EXTENDS Network
CONSTANTS A, B, C, S

MCWire ==
  LET ends == {<< <<A, 0>>, <<C, 0>> >>, << <<A, 1>>, <<B, 0>> >>, << <<B, 1>>, <<S, 0>> >>}
      all == ends \cup {<<e[2], e[1]>> : e \in ends}
  IN [n \in {e[1] : e \in all} |-> (CHOOSE e \in all : e[1] = n)[2]]

MCLate == {<<B, 0>>}

(* Once no more commands or faults are to come, a client only waits for    *)
(* the end of its send; with one to come, all that matters of its card is  *)
(* whether anything is in it.                                              *)
Observed ==
  <<buffer, inserted, tableVars, reconnVars, at, serverVars, events, HostsGetTheirOwn,
    IF events < MaxEvents THEN doing ELSE <<>>,
    IF events + 1 < MaxEvents THEN card ELSE <<>>,
    {c \in Clients : events + 1 = MaxEvents /\ card[c] # {}}>>
=============================================================================
