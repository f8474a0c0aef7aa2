------------------------------- MODULE MCStartup -------------------------------
EXTENDS Startup

(* Too few, none, some, all and too many.                                  *)
Options == {-1, 0, 2, 4, 5}
=============================================================================
