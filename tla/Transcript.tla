----------------------------- MODULE Transcript -----------------------------
(***************************************************************************)
(* A run's rows and those who read them: the writers of ItemSeq with the   *)
(* daemon's cache of KindRows or a client's RunStream on the database.     *)
(* Reading changes nothing another reader sees, so a behaviour has one     *)
(* audience.                                                               *)
(***************************************************************************)
EXTENDS KindRows, RunStream

VARIABLE audience   \* "cache" or "client"

vars == <<seqVars, kindVars, streamVars, audience>>

Init ==
  /\ SeqInit
  /\ KindInit
  /\ StreamInit
  /\ audience \in {"cache", "client"}

\* Its two steps that a client may come to hear of.
Write(w) ==
  \/ /\ Insert(w)
     /\ IF audience = "client" THEN Landed(Least(writer[w].mine)) ELSE UNCHANGED streamVars
  \/ /\ Settle(w)
     /\ IF audience = "client" THEN Published(Least(writer[w].mine)) ELSE UNCHANGED streamVars

\* The daemon dies with its cache and its sockets. A client in the middle of
\* a replay is the one that loses its socket twice.
Relaunch ==
  /\ Restart
  /\ KindRestart
  /\ IF audience = "client"
     THEN /\ ReplayIsOver \/ "redrop" \in Happenings
          /\ history = NoAnswer
          /\ Dropped
     ELSE UNCHANGED streamVars

\* The run is deleted; clients close it.
Delete ==
  /\ Destroy
  /\ opening = "closed"
  /\ UNCHANGED <<kindVars, streamVars>>

Next ==
  /\ UNCHANGED audience
  /\ \/ Allocating /\ UNCHANGED <<kindVars, streamVars>>
     \/ \E w \in Writers : Write(w) /\ UNCHANGED kindVars
     \/ \E w \in Writers : GiveUp(w) /\ UNCHANGED <<kindVars, streamVars>>
     \/ audience = "cache" /\ KindStep /\ UNCHANGED <<seqVars, streamVars>>
     \/ audience = "client" /\ StreamStep /\ UNCHANGED <<seqVars, kindVars>>
     \/ Relaunch
     \/ Delete

Spec == Init /\ [][Next]_vars

=============================================================================
