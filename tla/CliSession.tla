----------------------------- MODULE CliSession -----------------------------
(***************************************************************************)
(* One kept CLI process, as runCliSession (utils/spawn-cli.ts) presents it *)
(* to its owner.  A process is a record; each operator below is what one   *)
(* call, or one event of the child, does to it.  Transcript text, costs    *)
(* and the protocol of each CLI are left out; what is kept is everything   *)
(* the owner's decisions read.                                             *)
(*                                                                         *)
(*   state    "free"   no process (never spawned, or `closed` resolved)    *)
(*            "live"   running, stdin open                                 *)
(*            "ending" stdin ended, the exit deadline armed                *)
(*            "killed" told to die (its group signalled, or about to be:   *)
(*                     closeGraceMs), it has not exited yet                *)
(*            "exited" `exit` fired (or the spawn failed), `closed` not    *)
(*                     resolved yet                                        *)
(*   turn     a turn is in flight (`current`), cancelling: it was asked to *)
(*            stop and the CLI has not ended it                            *)
(*   scoped   spawned to outlive its turns (stdinLifetime 'session')       *)
(*   retired  a stopped turn was ended for the CLI, not by it              *)
(*   parked   the CLI waits, between turns, for a verdict of the user      *)
(*   shells   the most lasting kind of command it still runs: "detached",  *)
(*            a delegate's own, or none                                    *)
(*   cause    closeCause: whose the next close is                          *)
(***************************************************************************)
EXTENDS Naturals

ProcStates == {"free", "live", "ending", "killed", "exited"}
ShellKinds == {"none", "delegate", "detached"}
Causes     == {"none", "user-stop"}

Proc == [state : ProcStates, scoped : BOOLEAN, turn : BOOLEAN, cancelling : BOOLEAN,
         retired : BOOLEAN, parked : BOOLEAN, shells : ShellKinds, cause : Causes]

FreeProc == [state |-> "free", scoped |-> FALSE, turn |-> FALSE, cancelling |-> FALSE,
             retired |-> FALSE, parked |-> FALSE, shells |-> "none", cause |-> "none"]

(* The getters of the session.  A signalled process is still alive, and    *)
(* idle once its turn settles: neither getter reads groupKilled.           *)
Alive(p)   == p.state \in {"live", "ending", "killed"}
Idle(p)    == p.state \in {"live", "killed"} /\ ~p.turn
Accepts(p) == Idle(p) /\ ~p.retired

\* (mutant) a process spawned during shutdown is kept like any other
Spawned_AlwaysKept(scoped, ok) ==
  [FreeProc EXCEPT !.state = IF ok THEN "live" ELSE "exited", !.scoped = TRUE, !.turn = TRUE]
\* startSession and the first startTurn of what it returned; a spawn that
\* failed hands back a dead session and a turn that has already settled.
Spawned(scoped, ok) ==
  [FreeProc EXCEPT !.state = IF ok THEN "live" ELSE "exited", !.scoped = scoped, !.turn = TRUE]

\* startTurn on a process that accepts it: requests parked between turns
\* become the turn's own.
WithTurn(p) == [p EXCEPT !.turn = TRUE, !.cancelling = FALSE, !.parked = FALSE, !.cause = "none"]

\* (mutant) a process whose stdin was ended is not signalled any more
Signalled_LiveOnly(p) == IF p.state = "live" THEN [p EXCEPT !.state = "killed"] ELSE p
\* The signal to the group.  It finds nothing of a process that is gone.
Signalled(p) == IF p.state \in {"live", "ending"} THEN [p EXCEPT !.state = "killed"] ELSE p

\* close(cause, {graceful}): stdin is ended and the exit deadline armed.
GracefullyClosed(p) == IF p.state = "live" THEN [p EXCEPT !.state = "ending"] ELSE p

\* (mutants) every close is the graceful one; an absent cause is kept as such
Closed_Gracefully(p, cause) == GracefullyClosed(p)
Closed_Undefined(p, cause) ==
  [Signalled(p) EXCEPT !.cause = IF @ = "none" /\ cause = "none" THEN "undefined" ELSE cause]
\* close(cause): the first cause given stands, the turn in flight is asked
\* to stop, the group is signalled.
Closed(p, cause) ==
  IF p.state = "free" THEN p
  ELSE Signalled([p EXCEPT !.cancelling = p.turn, !.cause = IF @ = "none" THEN cause ELSE @])

\* The turn settles on the CLI's own terminal line, or (forced) for it;
\* requests it leaves unanswered are parked again.
TurnSettled(p, forced, parked) ==
  [p EXCEPT !.turn = FALSE, !.cancelling = FALSE, !.parked = parked,
            !.retired = @ \/ (p.cancelling /\ forced)]
=============================================================================
