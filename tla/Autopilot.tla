----------------------------- MODULE Autopilot -----------------------------
(***************************************************************************)
(* The task autopilot: the board with those who act on it. The conductor   *)
(* reads the queue and posts starts; people press Run, drag cards, stop,   *)
(* continue and delete the cards' chats; agents work and move their own    *)
(* cards; the daemon is stopped and started again.                         *)
(***************************************************************************)
EXTENDS TaskSettle

vars == <<boardVars, startVars>>

Init == BoardInit /\ StartsInit

-----------------------------------------------------------------------------
(* Acting on a card while its start is in flight, or while the end or the   *)
(* deletion of its run is still being heard, is a happening of its own.     *)

Unhurried(t, kinds) ==
  (Starting(t) \/ \E h \in handlers : h.of[1] = t /\ h.kind \in kinds) => May("overtake")

Settled(t) == Unhurried(t, {"ended", "deleted", "reconcile"})

\* The handlers of one run's earlier events have read the card: they ask the
\* database in the order the events came. A turn outlasts the hearing of its
\* start.
Heard(r) ==
  \A h \in handlers : h.of = r => h.at # "read" /\ (h.kind = "working" => May("overtake"))

-----------------------------------------------------------------------------
(* The conductor. A post that times out leaves its start going in the       *)
(* daemon, so it never waits for one here.                                  *)

\* readRaw and read: the intake's cards nobody works and nobody stopped, cut
\* to the free slots; which ones come first is their positions'.
Startable ==
  {t \in weather.cards : /\ card[t].column = Intake
                         /\ ~Live(Edge(t))
                         /\ card[t].stopped = "no" /\ run[Edge(t)].status # "cancelled"}

ReadQueue ==
  /\ offer = {}
  /\ \E ts \in SUBSET Startable :
       /\ ts # {} /\ Running + Cardinality(ts) <= Cap
       /\ offer' = ts
  /\ UNCHANGED <<boardVars, start, chain>>

\* A card already starting answers TASK_RUN_STARTING.
PostStart(t) ==
  /\ t \in offer
  /\ Starting(t) \/ Settled(t)
  /\ offer' = offer \ {t}
  /\ IF Starting(t) THEN UNCHANGED <<start, chain>> ELSE Claim(t, TRUE, Intake)
  /\ UNCHANGED boardVars

-----------------------------------------------------------------------------
(* People.                                                                  *)

\* A person acts on the card: it no longer waits for one.
Seen(t) == held' = [held EXCEPT ![t] = FALSE]

PressRun(t) ==
  /\ May("press")
  /\ t \in weather.cards /\ Settled(t)
  /\ Claim(t, FALSE, card[t].column)
  /\ Seen(t)
  /\ UNCHANGED <<card, run, owed, withheld, handlers, told, byHand, weather, offer>>

Drag(t, to) ==
  /\ May("drag")
  /\ t \in weather.cards /\ Unhurried(t, {"deleted"})
  /\ card[t].column # to
  /\ (to = "done") => RoomFor(1)
  /\ card' = MovedTo(t, to)
  /\ handlers' = handlers \union FinishCheck(t, to)
  /\ Seen(t)
  /\ UNCHANGED <<weather, run, owed, withheld, startVars>>
  /\ byHand' = [byHand EXCEPT ![t] = ~DrawnWorking(t)']
  /\ ToldKept

\* A message in the chat the card names sets its ended run going again; the
\* person leaves the card where it is, unless it failed.
FollowUp(r) ==
  /\ May("chat")
  /\ Settled(r[1]) /\ RoomFor(Cardinality(Broadcast("working", r, "none")))
  /\ Heard(r) /\ NamedBy(r) /\ run[r].status \in Ended
  /\ run' = [run EXCEPT ![r] = [@ EXCEPT !.status = "running", !.cut = "no", !.auto = FALSE]]
  /\ handlers' = handlers \union Broadcast("working", r, "none")
  /\ Seen(r[1])
  /\ byHand' = [byHand EXCEPT ![r[1]] = card[r[1]].column \notin {"failed", "in_progress"}]
  /\ UNCHANGED <<weather, card, owed, withheld, startVars>>
  /\ ToldKept

\* The chat is purged. One that works is stopped first and its shells are
\* ended, which are steps of their own, and its card has been read by then.
DeleteChat(r) ==
  /\ May("delete")
  /\ Settled(r[1]) /\ RoomFor(1)
  /\ Heard(r)
  /\ run[r].status \in Ended /\ ~run[r].holds
  /\ run' = [run EXCEPT ![r] = [NoRun EXCEPT !.status = "deleted"]]
  /\ handlers' = handlers \union {Handler("deleted", r, "none")}
  /\ Seen(r[1])
  /\ UNCHANGED <<weather, card, owed, withheld, startVars>>
  /\ HistoryKept

-----------------------------------------------------------------------------
(* Agents. A run that ends may hold work of its own for longer.             *)

Ends(r, how) ==
  /\ how = "completed" \/ May(how)
  /\ how = "cancelled" => Settled(r[1])
  /\ Heard(r)
  /\ run[r].status = "running" /\ RoomFor(Cardinality(Broadcast("ended", r, how)))
  /\ \E holds \in {FALSE, May("shells")} :
       run' = [run EXCEPT ![r] = [@ EXCEPT !.status = how, !.holds = holds]]
  /\ handlers' = handlers \union Broadcast("ended", r, how)
  /\ held' = [held EXCEPT ![r[1]] =
                 @ \/ (how = "cancelled" /\ NamedBy(r) /\ card[r[1]].column = "in_progress")]
  /\ UNCHANGED <<weather, card, owed, withheld, startVars>>
  /\ HistoryKept

WorkEnds(r) ==
  /\ run[r].holds /\ RoomFor(1)
  /\ run' = [run EXCEPT ![r].holds = FALSE]
  /\ handlers' = handlers \union (IF r \in withheld THEN {Handler("recheck", r, "none")} ELSE {})
  /\ UNCHANGED <<weather, card, owed, withheld, held, startVars>>
  /\ HistoryKept

\* update_task, of the card the conversation works: any column but the intake.
AgentMoves(r, to) ==
  LET t == r[1] IN
  /\ May("declare")
  /\ run[r].status = "running" /\ NamedBy(r) /\ Heard(r)
  /\ to # Intake /\ card[t].column # to
  /\ (to = "done") => RoomFor(1)
  /\ card' = MovedTo(t, to)
  /\ handlers' = handlers \union FinishCheck(t, to)
  /\ UNCHANGED <<weather, run, owed, withheld, held, startVars>>
  /\ byHand' = [byHand EXCEPT ![t] = ~DrawnWorking(t)']
  /\ ToldKept

-----------------------------------------------------------------------------

Next ==
  \/ ReadQueue
  \/ \E t \in Cards : PostStart(t) \/ PressRun(t) \/ LoadBoard(t) \/ \E to \in Columns : Drag(t, to)
  \/ \E r \in Runs : \/ FollowUp(r) \/ DeleteChat(r) \/ WorkEnds(r)
                     \/ \E how \in Ended : Ends(r, how)
                     \/ \E to \in Columns : AgentMoves(r, to)
  \/ StartStep
  \/ HandlerStep
  \/ \E cause \in {"quit", "crash"} : Restart(cause)

Spec == Init /\ [][Next]_vars

-----------------------------------------------------------------------------
(* Properties                                                               *)

\* No start and no handler is in flight.
Quiescent == handlers = {} /\ \A t \in Cards : ~Starting(t)

HandlerType ==
  [kind : {"ended", "working", "deleted", "reconcile", "owed", "finish", "recheck"},
   of : Edges, how : Ended \union {"none"}, at : {"read", "stamp", "move", "unlink"},
   saw : Columns \union {"none"}]

\* Types of the rows, of the handlers and of the starts; the chain holds
\* each card once, exactly while its start has not sent its brief.
BoardTypeOK ==
  /\ weather \in Weathers
  /\ card \in [Cards -> [column : Columns, run : 0 .. Threads, stopped : {"no", "user", "crash"}]]
  /\ run \in [Edges -> [status : Statuses, cut : {"no", "quit", "crash"}, auto : BOOLEAN, holds : BOOLEAN]]
  /\ owed \subseteq Cards /\ withheld \subseteq Edges /\ handlers \subseteq HandlerType
  /\ told \in [Cards -> BOOLEAN] /\ held \in [Cards -> BOOLEAN] /\ byHand \in [Cards -> BOOLEAN]
  /\ start \in [Cards -> [at : Points, auto : BOOLEAN, from : Columns, found : 0 .. Threads,
                          stopped : {"no", "user", "crash"}, thread : 0 .. Threads, fresh : BOOLEAN]]
  /\ offer \subseteq Cards
  /\ \A t \in Cards :
       Cardinality({i \in DOMAIN chain : chain[i] = t}) = (IF start[t].at \in {"idle", "clear"} THEN 0 ELSE 1)

\* The runs the autopilot set going never pass the project's cap, whatever
\* people start beside them: the count is read again inside the start, and
\* the project's starts go one after another, each until its run works.
CapHeld == Cardinality({r \in Runs : run[r].status = "running" /\ run[r].auto}) <= Cap

\* Two agents never work on one card at once.
OneAgentPerCard ==
  \A t \in Cards : Cardinality({i \in 1 .. Threads : run[<<t, i>>].status = "running"}) <= 1

\* A card a person stopped, or that was at work when the daemon crashed, is
\* not put to work by the autopilot until a person has acted on it.
HeldCardsWait ==
  [][\A t \in Cards : (start[t].auto /\ At(t, "reserve") /\ start'[t].at = "choose") => ~held[t]]_vars

\* Once everything in flight has ended, a card the board draws as worked has
\* a run that works or that completed.
WorkedCardsHaveARun ==
  Quiescent => \A t \in Cards :
    card[t].column = "in_progress" =>
      byHand[t] \/ run[Edge(t)].status \in {"running", "completed"}

\* Once everything in flight has ended, a card whose run works is drawn as
\* worked, unless its column was chosen by hand: no stale reading of an
\* earlier end puts back a card that was just started, and a failed card is
\* lifted when its conversation goes on.
WorkingRunsAreDrawn ==
  Quiescent => \A t \in Cards :
    run[Edge(t)].status = "running" => byHand[t] \/ card[t].column = "in_progress"

\* Once everything in flight has ended, every finished card is announced:
\* an announcement withheld for a run's shells is made when they end.
FinishedIsAnnounced ==
  Quiescent => \A t \in Cards : Finished(t) => told[t]

\* A start that fails leaves the card the conversation it had: a card names
\* no run only when its chat was deleted or no chat of it ever worked.
CardKeepsItsThread ==
  Quiescent => \A t \in Cards :
    card[t].run = 0 =>
      \A i \in 1 .. Threads : run[<<t, i>>].status \in {"none", "discarded", "deleted"}

=============================================================================
