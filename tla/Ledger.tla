------------------------------- MODULE Ledger -------------------------------
(***************************************************************************)
(* What the rest of the daemon relies on of a run's numbers: one counter,  *)
(* each number given to one writer, written at most once.                  *)
(***************************************************************************)
EXTENDS Integers

CONSTANT Counts

VARIABLES
  top,       \* the highest number given out
  out,       \* given out, neither written nor given back
  written,   \* the numbers of the rows
  closed     \* the run is no more

ledgerVars == <<top, out, written, closed>>

Init ==
  /\ top = -1
  /\ out = {}
  /\ written = {}
  /\ closed = FALSE

\* One writer gets the next count numbers, in one step.
Give(count) ==
  /\ top' = top + count
  /\ out' = out \cup (top + 1 .. top + count)
  /\ UNCHANGED <<written, closed>>

Write(n) ==
  /\ n \in out
  /\ out' = out \ {n}
  /\ written' = written \cup {n}
  /\ UNCHANGED <<top, closed>>

\* A writer failed: what it held is lost.
Void(lost) ==
  /\ lost \subseteq out
  /\ out' = out \ lost
  /\ UNCHANGED <<top, written, closed>>

\* A new launch counts on from the newest row.
Reopen ==
  /\ out' = {}
  /\ top' \in written \cup {-1}
  /\ \A n \in written : n <= top'
  /\ UNCHANGED <<written, closed>>

Close ==
  /\ closed' = TRUE
  /\ out' = {}
  /\ written' = {}
  /\ top' = -1

Next ==
  \/ \E count \in Counts : Give(count)
  \/ \E n \in out : Write(n)
  \/ \E lost \in SUBSET out : Void(lost)
  \/ Reopen
  \/ Close

Spec == Init /\ [][Next]_ledgerVars

=============================================================================
