----------------------------- MODULE TaskSettle -----------------------------
(***************************************************************************)
(* TaskSettleService: what the board does when a run ends, works again or  *)
(* is deleted, on the event bus or on a board's reconcile, with the        *)
(* continuations of TasksService that follow. A handler reads the card,    *)
(* and acts on what it read some awaits later.                             *)
(***************************************************************************)
EXTENDS TaskRuns

Dropped(h) == handlers' = handlers \ {h}
GoesOnTo(h, next) == handlers' = (handlers \ {h}) \union {next}
GoesOn(h, at, saw) == GoesOnTo(h, [h EXCEPT !.at = at, !.saw = saw])

\* The run is still there, and its card still names it.
Names(h) == Exists(h.of) /\ NamedBy(h.of)
Worked(h) == h.saw = "in_progress"
Interrupted(h) == h.how = "failed" /\ run[h.of].cut # "no"

\* Where the card of an ended run goes; a completed run moves no card.
ColumnAfter(h) ==
  IF Interrupted(h) THEN Intake
  ELSE IF h.how = "failed" THEN "failed"
  ELSE IF h.how = "cancelled" THEN "todo"
  ELSE "none"

-----------------------------------------------------------------------------
(* settle                                                                   *)

\* (mutant) A reconcile settles under a start in flight.
SettleReads_Now(h) ==
  /\ h.kind \in {"ended", "reconcile"} /\ h.at = "read"
  /\ IF Names(h) THEN GoesOn(h, "stamp", card[h.of[1]].column) ELSE Dropped(h)
  /\ UNCHANGED <<weather, card, run, owed, withheld, told, held, byHand, startVars>>

\* A card gone on to another run is not this run's. A reconcile that meets a
\* start in flight is owed to the end of that start.
SettleReads(h) ==
  LET t == h.of[1] IN
  /\ h.kind \in {"ended", "reconcile"} /\ h.at = "read"
  /\ CASE ~Names(h) -> Dropped(h) /\ UNCHANGED owed
       [] Names(h) /\ h.kind = "reconcile" /\ Starting(t) ->
            Dropped(h) /\ owed' = owed \union {t}
       [] OTHER -> GoesOn(h, "stamp", card[t].column) /\ UNCHANGED owed
  /\ UNCHANGED <<weather, card, run, withheld, told, held, byHand, startVars>>

\* (mutant) A stop leaves no stamp.
SettleStamps_NoStamp(h) ==
  /\ h.kind \in {"ended", "reconcile"} /\ h.at = "stamp"
  /\ CASE h.saw = "done" -> GoesOnTo(h, Handler("finish", h.of, "none"))
       [] Worked(h) /\ ColumnAfter(h) # "none" -> GoesOn(h, "move", ColumnAfter(h))
       [] OTHER -> Dropped(h)
  /\ UNCHANGED <<weather, card, run, owed, withheld, told, held, byHand, startVars>>

\* The stop is recorded on the card ahead of the move that puts it back in
\* the intake.
SettleStamps(h) ==
  LET t == h.of[1] IN
  /\ h.kind \in {"ended", "reconcile"} /\ h.at = "stamp"
  /\ card' = CASE Worked(h) /\ h.how = "cancelled" -> [card EXCEPT ![t].stopped = "user"]
               [] Worked(h) /\ Interrupted(h) /\ run[h.of].cut = "crash" ->
                    [card EXCEPT ![t].stopped = "crash"]
               [] OTHER -> card
  /\ CASE h.saw = "done" -> GoesOnTo(h, Handler("finish", h.of, "none"))
       [] Worked(h) /\ ColumnAfter(h) # "none" -> GoesOn(h, "move", ColumnAfter(h))
       [] OTHER -> Dropped(h)
  /\ UNCHANGED <<weather, run, owed, withheld, told, held, byHand, startVars>>

\* A compare-and-set out of in_progress; a card somebody else moved stays.
SettleMoves(h) ==
  LET t == h.of[1] IN
  /\ h.kind \in {"ended", "reconcile", "deleted"} /\ h.at = "move"
  /\ Dropped(h)
  /\ card' = IF card[t].column = "in_progress" THEN MovedTo(t, h.saw) ELSE card
  /\ UNCHANGED <<weather, run, owed, withheld, held, startVars>>
  /\ HistoryKept

-----------------------------------------------------------------------------
(* followRunWorking: only a failed card is put back to work.                *)

FollowReads(h) ==
  /\ h.kind = "working" /\ h.at = "read"
  /\ IF Names(h) /\ card[h.of[1]].column = "failed"
     THEN GoesOn(h, "move", "in_progress")
     ELSE Dropped(h)
  /\ UNCHANGED <<weather, card, run, owed, withheld, told, held, byHand, startVars>>

FollowMoves(h) ==
  LET t == h.of[1] IN
  /\ h.kind = "working" /\ h.at = "move"
  /\ Dropped(h)
  /\ card' = IF card[t].column = "failed" THEN MovedTo(t, "in_progress") ELSE card
  /\ UNCHANGED <<weather, run, owed, withheld, held, startVars>>
  /\ HistoryKept

-----------------------------------------------------------------------------
(* releaseDeletedRun                                                        *)

\* (mutant) Whatever run was deleted, the card lets go of its own.
ReleaseReads_Any(h) ==
  /\ h.kind = "deleted" /\ h.at = "read"
  /\ GoesOn(h, "unlink", card[h.of[1]].column)
  /\ UNCHANGED <<weather, card, run, owed, withheld, told, held, byHand, startVars>>

ReleaseReads(h) ==
  /\ h.kind = "deleted" /\ h.at = "read"
  /\ IF NamedBy(h.of) THEN GoesOn(h, "unlink", card[h.of[1]].column) ELSE Dropped(h)
  /\ UNCHANGED <<weather, card, run, owed, withheld, told, held, byHand, startVars>>

ReleaseUnlinks(h) ==
  LET t == h.of[1] IN
  /\ h.kind = "deleted" /\ h.at = "unlink"
  /\ card' = [card EXCEPT ![t].run = 0]
  /\ IF Worked(h) THEN GoesOn(h, "move", "todo") ELSE Dropped(h)
  /\ UNCHANGED <<weather, run, owed, withheld, held, startVars>>
  /\ HistoryKept

-----------------------------------------------------------------------------
(* The finish: finishWhenFree and the end of moveStatus ("finish"), and     *)
(* recheckFinish once the withheld run's work may have ended ("recheck").   *)

Finishes(h) ==
  /\ h.kind = "finish"
  /\ Dropped(h)
  /\ JudgeFinish(h.of)
  /\ UNCHANGED <<weather, card, run, owed, held, byHand, startVars>>

Rechecks(h) ==
  /\ h.kind = "recheck"
  /\ Dropped(h)
  /\ CASE h.of \notin withheld -> UNCHANGED <<withheld, told>>
       [] h.of \in withheld /\ (~NamedBy(h.of) \/ card[h.of[1]].column # "done") ->
            withheld' = withheld \ {h.of} /\ UNCHANGED told
       [] OTHER -> JudgeFinish(h.of)
  /\ UNCHANGED <<weather, card, run, owed, held, byHand, startVars>>

\* reconcileTask, the reconcile a start held off: the card's current run.
OwedReconcile(h) ==
  LET t == h.of[1] IN
  /\ h.kind = "owed"
  /\ handlers' = (handlers \ {h}) \union
       (IF card[t].column = "in_progress" /\ run[Edge(t)].status \in Ended
        THEN {Handler("reconcile", Edge(t), run[Edge(t)].status)} ELSE {})
  /\ UNCHANGED <<weather, card, run, owed, withheld, told, held, byHand, startVars>>

HandlerStep ==
  \E h \in handlers :
    \/ SettleReads(h) \/ SettleStamps(h) \/ SettleMoves(h)
    \/ FollowReads(h) \/ FollowMoves(h)
    \/ ReleaseReads(h) \/ ReleaseUnlinks(h)
    \/ Finishes(h) \/ Rechecks(h) \/ OwedReconcile(h)

-----------------------------------------------------------------------------
(* A board is loaded: every card it draws as worked is reconciled against   *)
(* its run's row.                                                           *)

LoadBoard(t) ==
  /\ May("boards")
  /\ RoomFor(1)
  /\ card[t].column = "in_progress"
  /\ run[Edge(t)].status \in Ended
  /\ handlers' = handlers \union {Handler("reconcile", Edge(t), run[Edge(t)].status)}
  /\ UNCHANGED <<weather, card, run, owed, withheld, told, held, byHand, startVars>>

\* The boot, before the daemon listens: the runs the stop cut off are closed
\* as failed with its cause, then the cards drawn as worked are settled. Main
\* then collects what is finished (reapFinishedWorktrees).
Cut(cause) ==
  [r \in Edges |->
     IF run[r].status = "running"
     THEN [run[r] EXCEPT !.status = "failed", !.cut = cause, !.holds = FALSE]
     ELSE [run[r] EXCEPT !.holds = FALSE]]

\* (mutant) Only failed runs are settled at boot.
SettledAtBoot_FailedOnly(rs, t) ==
  LET r == rs[Edge(t)]
      c == card[t]
  IN  IF c.column = "in_progress" /\ r.status = "failed"
      THEN [c EXCEPT !.column = IF r.cut = "no" THEN "failed" ELSE Intake,
                     !.stopped = IF r.cut = "crash" THEN "crash" ELSE @] ELSE c

SettledAtBoot(rs, t) ==
  LET r == rs[Edge(t)]
      c == card[t]
      stop == IF r.status = "cancelled" THEN "user"
              ELSE IF r.status = "failed" /\ r.cut = "crash" THEN "crash" ELSE c.stopped
      to == IF r.status = "failed" /\ r.cut = "no" THEN "failed" ELSE Intake
  IN  IF c.column = "in_progress" /\ r.status \in {"failed", "cancelled"}
      THEN [c EXCEPT !.column = to, !.stopped = stop] ELSE c

\* A start between its first write and its run's first turn, and a deletion
\* the board has not heard, leave rows that nothing mends later.
Torn == \/ \E t \in Cards : start[t].at \notin {"idle", "read", "judge", "count", "reserve", "clear"}
        \/ \E h \in handlers : h.kind = "deleted"

Restart(cause) ==
  /\ May(cause)
  /\ Torn => May("torn")
  /\ run' = Cut(cause)
  /\ card' = [t \in Cards |-> SettledAtBoot(run', t)]
  /\ start' = [t \in Cards |-> NoStart]
  /\ chain' = <<>>
  /\ offer' = {}
  /\ UNCHANGED weather
  /\ owed' = {} /\ withheld' = {} /\ handlers' = {}
  /\ told' = [t \in Cards |-> FinishedIn(card', run', t)]
  /\ held' = [t \in Cards |-> held[t] \/ (cause = "crash" /\ card[t].column = "in_progress"
                                          /\ run[Edge(t)].status = "running")]
  /\ byHand' = [t \in Cards |-> byHand[t] /\ card'[t].column = card[t].column]

=============================================================================
