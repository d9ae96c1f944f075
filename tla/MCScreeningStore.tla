-------------------------- MODULE MCScreeningStore --------------------------
(* Two workers complete, fail and restart one run.  The lists cross (so the  *)
(* inserts can deadlock), repeat a code, hold an invalid item, or are empty. *)
EXTENDS ScreeningStore, TLC

CONSTANTS w1, w2, run, a, b

MCLists == {<< >>, <<a>>, <<a, b>>, <<b, a>>, <<a, a>>,
            <<a, BadItem>>, <<a, BadItem, b>>}
=============================================================================
