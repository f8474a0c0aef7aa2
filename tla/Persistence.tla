----------------------------- MODULE Persistence -----------------------------
(***************************************************************************)
(* What a client may rely on when it reuses a connection: every request    *)
(* that the server takes up gets one head, which says whether the          *)
(* connection stays; and the server closes only behind a head that said it *)
(* would, or after the client itself has ended its side.                   *)
(***************************************************************************)
VARIABLES
    phase,      \* "idle", "asked" (a request is taken up) or "told" (its head is out)
    close,      \* the head of the latest request said that the connection closes
    link        \* "open", "closing" (output is still to go out) or "closed"

PVars == <<phase, close, link>>

PInit == phase = "idle" /\ close = FALSE /\ link = "open"

Take ==
    /\ phase = "idle" /\ link # "closed"
    /\ phase' = "asked"
    /\ close' = FALSE
    /\ UNCHANGED link

Tell ==
    /\ phase = "asked"
    /\ phase' = "told"
    /\ close' \in BOOLEAN
    /\ UNCHANGED link

(* A connection that was told to close may stay open all the same.         *)
Release ==
    /\ phase = "told"
    /\ phase' = "idle"
    /\ \/ UNCHANGED link
       \/ close /\ link' \in {"closing", "closed"}
    /\ UNCHANGED close

ClientEnds ==
    /\ phase = "idle" /\ link # "closed"
    /\ link' \in {"closing", "closed"}
    /\ UNCHANGED <<phase, close>>

Close ==
    /\ phase = "idle" /\ link = "closing"
    /\ link' = "closed"
    /\ UNCHANGED <<phase, close>>

PNext == Take \/ Tell \/ Release \/ ClientEnds \/ Close

PSpec == PInit /\ [][PNext]_PVars
=============================================================================
