---------------------------- MODULE MCInitialSync ----------------------------
(* Two stocks with delisting dates to be corrected, three days of two years;  *)
(* for the conflict, one stock with an identity to be corrected and one day.  *)
EXTENDS InitialSync, TLC

CONSTANTS c1, c2, listedOn1, listedOn2, delistedOn1, delistedOn2

MCDays == 1..3
MCYearOf == [d \in MCDays |-> IF d = 1 THEN 2025 ELSE 2026]

MCDay == {1}
MCYearOfDay == [d \in MCDay |-> 2026]

MCSymmetry == Permutations(Codes) \union Permutations(Dates)
==============================================================================
