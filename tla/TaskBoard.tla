------------------------------ MODULE TaskBoard ------------------------------
(***************************************************************************)
(* The cards of one armed project and the runs they were given to, with    *)
(* the parts of TasksService every other part of the board goes through:   *)
(* the compare-and-set that moves a card, the run a card names, and the    *)
(* judgement that a card's work is finished.                               *)
(***************************************************************************)
EXTENDS Naturals, FiniteSets, Sequences

CONSTANTS Cards,        \* the project's cards
          Threads,      \* most runs one card is ever given
          Cap,          \* the project's autopilotMaxConcurrent
          MaxHandlers,  \* bound: handlers in flight at once
          Weathers      \* the cards in play and what may happen to them, for
                        \* each behaviour one of these

ASSUME BoardAssumption ==
  /\ IsFiniteSet(Cards)
  /\ Threads \in Nat \ {0}
  /\ Cap \in Nat \ {0}
  /\ MaxHandlers \in Nat \ {0}
  /\ Weathers \subseteq [cards : SUBSET Cards, may : SUBSET STRING]

Intake == "todo"        \* autopilotIntakeStatus, a column a card can wait in
Columns == {"todo", "in_progress", "in_review", "done", "failed"}
Runs == Cards \X (1 .. Threads)
Edges == Cards \X (0 .. Threads)     \* 0: the card names no run

Ended == {"completed", "failed", "cancelled"}
Statuses == {"none", "pending", "running", "deleted", "discarded"} \union Ended

VARIABLES
  weather,   \* the one of Weathers this behaviour is under
  card,      \* the task rows: column, the run named, how it was stopped
  run,       \* the run rows: status, what cut it off, who set it going, and
             \* whether it holds work outside a turn (RunLiveWork)
  owed,      \* TasksService.reconcileOwed
  withheld,  \* TasksService.finishWithheld
  handlers,  \* continuations of the settle and of the finish check in flight
  told,      \* history: the card was announced finished, and still is
  held,      \* history: the card waits for a person
  byHand     \* history: a person or an agent chose the card's column

boardVars == <<weather, card, run, owed, withheld, handlers, told, held, byHand>>

NoRun == [status |-> "none", cut |-> "no", auto |-> FALSE, holds |-> FALSE]

Exists(r) == run[r].status \notin {"none", "deleted", "discarded"}
Live(r) == run[r].status \in {"pending", "running"}
Edge(t) == <<t, card[t].run>>
NamedBy(r) == card[r[1]].run = r[2] /\ r[2] # 0

May(word) == word \in weather.may

BoardInit ==
  /\ weather \in Weathers
  /\ card = [t \in Cards |-> [column |-> Intake, run |-> 0, stopped |-> "no"]]
  /\ run = [r \in Edges |-> NoRun]
  /\ owed = {} /\ withheld = {} /\ handlers = {}
  /\ told = [t \in Cards |-> FALSE]
  /\ held = [t \in Cards |-> FALSE]
  /\ byHand = [t \in Cards |-> FALSE]

-----------------------------------------------------------------------------
(* Handlers: each is one asynchronous continuation about run "of".          *)

Handler(kind, r, how) ==
  [kind |-> kind, of |-> r, how |-> how, at |-> "read", saw |-> "none"]

RoomFor(n) == Cardinality(handlers) + n <= MaxHandlers

\* A status broadcast of run r reaches the settle, and the finish check too
\* when a finish of r was withheld (TasksService.onModuleInit).
Broadcast(kind, r, how) ==
  {Handler(kind, r, how)} \union
  (IF r \in withheld THEN {Handler("recheck", r, "none")} ELSE {})

-----------------------------------------------------------------------------
(* A card's work is finished: it is Done, no run works in it, and its run   *)
(* holds nothing that outlives a turn.                                      *)

FinishedIn(c, rs, t) ==
  /\ c[t].column = "done"
  /\ rs[<<t, c[t].run>>].status \notin {"pending", "running"}
  /\ ~rs[<<t, c[t].run>>].holds

Finished(t) == FinishedIn(card, run, t)

DrawnWorking(t) == card[t].column = "in_progress" /\ run[Edge(t)].status = "running"

\* The announcement stands for as long as the card stays finished, and a
\* column chosen by hand until the board moves the card, or draws as worked
\* one whose run works.
ToldKept == told' = [t \in Cards |-> told[t] /\ FinishedIn(card', run', t)]
HistoryKept ==
  /\ ToldKept
  /\ byHand' = [t \in Cards |-> byHand[t] /\ card'[t].column = card[t].column /\ ~DrawnWorking(t)']

Announce(t) == told' = [told EXCEPT ![t] = Finished(t)]

\* (mutant) A finish the run's shells hold up is not remembered.
JudgeFinish_Forgets(r) ==
  /\ UNCHANGED withheld
  /\ IF Live(r) THEN UNCHANGED told ELSE Announce(r[1])

\* judgeFinish, of a card read in Done: announced, or withheld until the
\* run's live work ends. (A run still working is judged again when it ends.)
JudgeFinish(r) ==
  IF run[r].holds /\ ~Live(r)
  THEN withheld' = withheld \union {r} /\ UNCHANGED told
  ELSE /\ withheld' = withheld \ {r}
       /\ IF Live(r) THEN UNCHANGED told ELSE Announce(r[1])

-----------------------------------------------------------------------------
(* moveStatus: the compare-and-set on the column. A move to Done is judged  *)
(* for the finish in the continuation of the same call.                     *)

MovedTo(t, to) == [card EXCEPT ![t].column = to]

FinishCheck(t, to) == IF to = "done" THEN {Handler("finish", Edge(t), "none")} ELSE {}

=============================================================================
