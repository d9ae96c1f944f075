---------------------------- MODULE SchemaHistory ----------------------------
(***************************************************************************)
(* What the migration runner promises about a database, whoever runs it    *)
(* and however often it dies: the schema history is a stack.  At most one  *)
(* migration is half done; it is the next one of some released binary      *)
(* being applied, or the newest one being undone; and it is only ever      *)
(* finished in the direction in which it was begun.                        *)
(***************************************************************************)
EXTENDS Naturals, Sequences

CONSTANTS
  Files,      \* migrations (an up/down pair of scripts, told apart by checksum)
  Binaries,   \* the migration lists that released programs carry
  NoFile      \* no migration is half done

VARIABLES
  applied,    \* the fully applied migrations, oldest first
  changing,   \* the migration that is half done, or NoFile
  undoing     \* the half-done migration is being rolled back

vars == <<applied, changing, undoing>>

\* s is the beginning of the migration list b.
Begins(s, b) ==
  /\ Len(s) <= Len(b)
  /\ \A i \in 1..Len(s) : s[i] = b[i]

Init ==
  /\ applied = << >>
  /\ changing = NoFile
  /\ undoing = FALSE

BeginUp(f) ==
  /\ changing = NoFile
  /\ \E b \in Binaries : Begins(Append(applied, f), b)
  /\ changing' = f
  /\ undoing' = FALSE
  /\ UNCHANGED applied

FinishUp ==
  /\ changing # NoFile
  /\ ~undoing
  /\ applied' = Append(applied, changing)
  /\ changing' = NoFile
  /\ UNCHANGED undoing

BeginDown ==
  /\ changing = NoFile
  /\ applied # << >>
  /\ changing' = applied[Len(applied)]
  /\ applied' = SubSeq(applied, 1, Len(applied) - 1)
  /\ undoing' = TRUE

FinishDown ==
  /\ changing # NoFile
  /\ undoing
  /\ changing' = NoFile
  /\ undoing' = FALSE
  /\ UNCHANGED applied

Next ==
  \/ \E f \in Files : BeginUp(f)
  \/ FinishUp
  \/ BeginDown
  \/ FinishDown

Spec == Init /\ [][Next]_vars
==============================================================================
