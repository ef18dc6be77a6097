------------------------------ MODULE TaskRuns ------------------------------
(***************************************************************************)
(* TaskRunsService: a card's start, pressed by a person or posted by the   *)
(* autopilot. A card starts once at a time (claimStart), a project's       *)
(* starts go one after another (perProject), and a start that fails puts   *)
(* the card back.                                                          *)
(***************************************************************************)
EXTENDS TaskBoard

VARIABLES
  start,   \* each card's start in flight
  chain,   \* the starts of the project that wait for their turn, in order
  offer    \* the conductor's reading of the queue it has not started yet

startVars == <<start, chain, offer>>

\* Where a start is: waiting and reading the card; judging the run it found;
\* counting the running ones; reserving the card; choosing its run; writing
\* the run on the card; sending the brief; and, failed, putting the run the
\* card named back, putting the card back and deleting the run it made; or,
\* worked, clearing the stamp.
Points == {"idle", "read", "judge", "count", "reserve", "choose", "link", "send",
           "unlink", "giveback", "discard", "clear"}

NoStart == [at |-> "idle", auto |-> FALSE, from |-> Intake, found |-> 0,
            stopped |-> "no", thread |-> 0, fresh |-> FALSE]

Starting(t) == start[t].at # "idle"
First(t) == chain # <<>> /\ Head(chain) = t
At(t, point) == First(t) /\ start[t].at = point

\* Runs of the project's cards the queue counts as running: the ones a card
\* names (ProjectQueueService.readRuns).
Running == Cardinality({t \in Cards : Live(Edge(t))})

Thread(t) == <<t, start[t].thread>>

StartsInit ==
  /\ start = [t \in Cards |-> NoStart]
  /\ chain = <<>>
  /\ offer = {}

GoesTo(t, point) == start' = [start EXCEPT ![t].at = point]

\* releaseStart: the reconcile held off meanwhile is made now.
Released(t, others) ==
  /\ start' = [start EXCEPT ![t] = NoStart]
  /\ owed' = owed \ {t}
  /\ handlers' = handlers \union others \union
                 (IF t \in owed THEN {Handler("owed", Edge(t), "none")} ELSE {})

\* (mutant) A refused start keeps its place in the chain.
Refused_StaysFirst(t, others) ==
  /\ Released(t, others)
  /\ UNCHANGED <<chain, withheld, offer>>

\* A refusal, or the end of a start that failed.
Refused(t, others) ==
  /\ Released(t, others)
  /\ chain' = Tail(chain)
  /\ UNCHANGED <<withheld, offer>>

-----------------------------------------------------------------------------
(* start: the claim, and the place in the project's chain.                  *)

Claim(t, auto, from) ==
  /\ ~Starting(t)
  /\ start' = [start EXCEPT ![t] = [NoStart EXCEPT !.at = "read", !.auto = auto, !.from = from]]
  /\ chain' = Append(chain, t)

-----------------------------------------------------------------------------
(* startClaimed, at the head of the chain.                                  *)

ReadCard(t) ==
  /\ At(t, "read")
  /\ start' = [start EXCEPT ![t].at = "judge", ![t].found = card[t].run, ![t].stopped = card[t].stopped]
  /\ UNCHANGED <<boardVars, chain, offer>>

\* (mutant) A card whose run works is not refused.
JudgeRun_AnyRun(t) ==
  LET s == start[t] IN
  /\ At(t, "judge")
  /\ IF s.auto /\ s.stopped # "no"
     THEN Refused(t, {}) /\ UNCHANGED <<weather, card, run, told, held, byHand>>
     ELSE /\ GoesTo(t, IF s.auto THEN "count" ELSE "reserve")
          /\ UNCHANGED <<boardVars, chain, offer>>

\* assertNotAlreadyRunning; for the autopilot, then the stamp on the card as
\* it was read.
JudgeRun(t) ==
  LET s == start[t] IN
  /\ At(t, "judge")
  /\ IF Live(<<t, s.found>>) \/ (s.auto /\ s.stopped # "no")
     THEN Refused(t, {}) /\ UNCHANGED <<weather, card, run, told, held, byHand>>
     ELSE /\ GoesTo(t, IF s.auto THEN "count" ELSE "reserve")
          /\ UNCHANGED <<boardVars, chain, offer>>

\* (mutant) The cap is the queue reading's alone.
CountRuns_Trusts(t) ==
  /\ At(t, "count")
  /\ GoesTo(t, "reserve")
  /\ UNCHANGED <<boardVars, chain, offer>>

\* The breaker and the cap, read off the queue again.
CountRuns(t) ==
  /\ At(t, "count")
  /\ \/ /\ Running < Cap
        /\ GoesTo(t, "reserve")
        /\ UNCHANGED <<boardVars, chain, offer>>
     \/ /\ Running >= Cap \/ May("breaker")
        /\ Refused(t, {}) /\ UNCHANGED <<weather, card, run, told, held, byHand>>

\* The move to in_progress is the reservation.
Reserve(t) ==
  LET s == start[t] IN
  /\ At(t, "reserve")
  /\ IF card[t].column = s.from
     THEN /\ card' = MovedTo(t, "in_progress")
          /\ GoesTo(t, "choose")
          /\ UNCHANGED <<weather, run, owed, withheld, handlers, held, chain, offer>>
          /\ HistoryKept
     ELSE Refused(t, {}) /\ UNCHANGED <<weather, card, run, told, held, byHand>>

\* The card's handlers are through, or one is overtaken: a handler asks the
\* database a few times, making a run or sending its brief many.
Through(t) == (\E h \in handlers : h.of[1] = t) => May("overtake")

\* resumableRun: the run the card was read with, when it has ended and is of
\* the target this press resolves to; else createChat. Making a run may fail.
Choose(t) ==
  LET s == start[t]
      made == {i \in 1 .. Threads : run[<<t, i>>].status = "none"}
      next == CHOOSE i \in made : \A j \in made : i <= j
  IN
  /\ At(t, "choose")
  /\ Through(t)
  /\ \/ /\ run[<<t, s.found>>].status \in Ended
        /\ start' = [start EXCEPT ![t].at = "link", ![t].thread = s.found]
        /\ UNCHANGED <<boardVars, chain, offer>>
     \/ /\ run[<<t, s.found>>].status \notin Ended \/ May("retarget")
        /\ made # {}
        /\ run' = [run EXCEPT ![<<t, next>>] = [NoRun EXCEPT !.status = "pending"]]
        /\ start' = [start EXCEPT ![t].at = "link", ![t].thread = next, ![t].fresh = TRUE]
        /\ UNCHANGED <<weather, card, owed, withheld, handlers, told, held, byHand, chain, offer>>
     \/ /\ run[<<t, s.found>>].status \notin Ended
        /\ GoesTo(t, "giveback")
        /\ UNCHANGED <<boardVars, chain, offer>>

\* What a failure after the run was chosen undoes first.
GoesWrong(t) == GoesTo(t, IF start[t].fresh THEN "unlink" ELSE "giveback")

\* recordRun.
Link(t) ==
  /\ At(t, "link")
  /\ \/ /\ card' = [card EXCEPT ![t].run = start[t].thread]
        /\ GoesTo(t, "send")
     \/ /\ GoesWrong(t)
        /\ UNCHANGED card
  /\ UNCHANGED <<weather, run, owed, withheld, handlers, held, chain, offer>>
  /\ HistoryKept

\* sendMessage: the run works from here, and the start leaves the chain.
Send(t) ==
  LET s == start[t]
      r == Thread(t)
  IN
  /\ At(t, "send")
  /\ Through(t)
  /\ \/ /\ RoomFor(Cardinality(Broadcast("working", r, "none")))
        /\ run' = [run EXCEPT ![r] = [@ EXCEPT !.status = "running", !.cut = "no", !.auto = s.auto]]
        /\ handlers' = handlers \union Broadcast("working", r, "none")
        /\ GoesTo(t, "clear")
        /\ chain' = Tail(chain)
        /\ UNCHANGED <<weather, card, owed, withheld, held, offer>>
        /\ HistoryKept
     \/ /\ GoesWrong(t)
        /\ UNCHANGED <<boardVars, chain, offer>>

\* abandon: the run the card named, the column, then the run it made. A
\* resumed run is only given back.
Unlink(t) ==
  /\ At(t, "unlink")
  /\ card' = [card EXCEPT ![t].run = start[t].found]
  /\ GoesTo(t, "giveback")
  /\ UNCHANGED <<weather, run, owed, withheld, handlers, held, chain, offer>>
  /\ HistoryKept

GiveBack(t) ==
  LET s == start[t]
      moves == card[t].column = "in_progress"
      finish == IF moves THEN FinishCheck(t, s.from) ELSE {}
  IN
  /\ At(t, "giveback")
  /\ card' = IF moves THEN MovedTo(t, s.from) ELSE card
  /\ IF s.fresh
     THEN /\ GoesTo(t, "discard")
          /\ handlers' = handlers \union finish
          /\ UNCHANGED <<owed, withheld, chain, offer>>
     ELSE Refused(t, finish)
  /\ UNCHANGED <<weather, run, held>>
  /\ HistoryKept

Discard(t) ==
  /\ At(t, "discard")
  /\ run' = [run EXCEPT ![Thread(t)].status = "discarded"]
  /\ Refused(t, {Handler("deleted", Thread(t), "none")})
  /\ UNCHANGED <<weather, card, held>>
  /\ HistoryKept

\* A start that worked answers a stop: the card is the autopilot's again.
ClearStamp(t) ==
  /\ start[t].at = "clear"
  /\ card' = [card EXCEPT ![t].stopped = "no"]
  /\ Released(t, {})
  /\ UNCHANGED <<weather, run, withheld, told, held, byHand, chain, offer>>

StartStep ==
  \E t \in Cards :
    \/ ReadCard(t) \/ JudgeRun(t) \/ CountRuns(t) \/ Reserve(t) \/ Choose(t)
    \/ Link(t) \/ Send(t) \/ Unlink(t) \/ GiveBack(t) \/ Discard(t) \/ ClearStamp(t)

=============================================================================
