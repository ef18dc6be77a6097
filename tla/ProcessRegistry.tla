---------------------------- MODULE ProcessRegistry ----------------------------
(***************************************************************************)
(* ProcessRegistry, for one run: the slot a turn claims before any of its  *)
(* awaits and upgrades to its live handle once its process is started.     *)
(* Each operator is one synchronous method: the registry after the call.   *)
(***************************************************************************)
CONSTANTS
  Turns,    \* identities of turns, reused once a turn is over
  Nobody

ASSUME TurnsAssumption == Nobody \notin Turns

\* Whose entry `active` holds (null while it is only claimed), whether the
\* claim was asked to stop, and the daemon's shutdown.
Registry == [holder : Turns \cup {Nobody}, live : BOOLEAN,
             cancelRequested : BOOLEAN, shuttingDown : BOOLEAN]
EmptyRegistry == [holder |-> Nobody, live |-> FALSE,
                  cancelRequested |-> FALSE, shuttingDown |-> FALSE]

Has(r) == r.holder # Nobody
HasClaim(r) == Has(r) /\ ~r.live
HasHandle(r) == Has(r) /\ r.live

\* (mutant) only a started turn makes the run busy
CanClaim_OverClaims(r) == ~r.shuttingDown /\ ~HasHandle(r)
CanClaim(r) == ~r.shuttingDown /\ ~Has(r)
Claimed(r, t) == [r EXCEPT !.holder = t, !.live = FALSE]

\* (mutant) the claim goes, the Stop recorded for it stays
Released_KeepsStop(r) == IF HasClaim(r) THEN [r EXCEPT !.holder = Nobody] ELSE r
\* (mutant) only a handle is released
Released_Never(r) == r
Released(r) ==
  IF HasClaim(r) THEN [r EXCEPT !.holder = Nobody, !.cancelRequested = FALSE] ELSE r

CanStart(r) == ~r.shuttingDown /\ Has(r)

\* (mutant) a Stop of the claim is not looked up
RegisterCancels_ShutdownOnly(r) == r.shuttingDown
\* register cancels the handle it is given.
RegisterCancels(r) == r.shuttingDown \/ r.cancelRequested
Registered(r, t) == [r EXCEPT !.holder = t, !.live = TRUE, !.cancelRequested = FALSE]
\* handle.done: only the exact handle is unregistered.
Unregistered(r, t) == IF HasHandle(r) /\ r.holder = t
                      THEN [r EXCEPT !.holder = Nobody, !.live = FALSE] ELSE r

\* cancel: a handle is cancelled by the caller of this operator, a claim is
\* asked to stop as soon as it registers.
CancelNoted(r) == IF HasClaim(r) THEN [r EXCEPT !.cancelRequested = TRUE] ELSE r
\* drain, up to its first await; and its end, when all is gone or 5 s passed.
Draining(r) == [CancelNoted(r) EXCEPT !.shuttingDown = TRUE]
Drained(r) == [r EXCEPT !.holder = Nobody, !.live = FALSE, !.cancelRequested = FALSE]
=============================================================================
