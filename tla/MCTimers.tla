------------------------------- MODULE MCTimers -------------------------------
EXTENDS TimerManager

AllTypes == {"none", "once", "repeat"}
HasCallback == {"once", "repeat"}

(* States that differ only in what the program does not read, the memory  *)
(* of freed timers and the arrays outside the active places, are one state.*)
Used == 0..(m.size - 1) \cap DOMAIN Active(m)
Places == [i \in Used |-> Active(m)[i]]
Timers == [b \in {Places[i] : i \in Used} \ {Null} |-> <<out[b], left[b], type[b], age[b]>>]
Readable == <<[m EXCEPT !.queue = Places], Timers, loopVars>>
=============================================================================
