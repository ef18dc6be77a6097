-------------------------- MODULE BoardRestProofs --------------------------
(***************************************************************************)
(* Theorems about a board at rest, for any number of cards, runs, starts   *)
(* and handlers: what is still in flight for a card accounts for whatever  *)
(* its rows do not say yet, so that when nothing is in flight the rows say *)
(* it all.                                                                 *)
(***************************************************************************)
EXTENDS BoardProofs

-----------------------------------------------------------------------------
(* What is in flight fits the rows                                          *)

\* The points of a start that has the card reserved, and those that have
\* chosen its run.
Reserved == {"choose", "link", "send", "unlink", "giveback"}
Made == {"link", "send", "unlink", "giveback", "discard"}

\* A run that works was cut off by nothing, and only a run that has worked
\* holds work outside its turn.
RunsAreFit(t) ==
  \A i \in 0 .. Threads :
    /\ Works(<<t, i>>) => run[<<t, i>>].cut = "no"
    /\ run[<<t, i>>].holds => run[<<t, i>>].status \in Ended \union {"running"}

\* A card names a run that was made.  From the reservation on the card stays
\* in progress or is drawn as failed, and the start goes by the run it found
\* or by one it made itself.
StartIsFit(t) ==
  LET s == start[t] IN
  /\ card[t].run # 0 => run[Edge(t)].status # "none"
  /\ s.at \in Reserved => card[t].column \in {"in_progress", "failed"}
  /\ s.fresh => s.at \in Made \union {"clear"}
  /\ s.at \in {"link", "giveback", "discard"} => card[t].run = s.found
  /\ s.at \in Made /\ s.found # 0 => run[<<t, s.found>>].status # "none"
  /\ s.at \in Made /\ s.fresh => s.thread # s.found /\ run[Thread(t)].status = "pending"
  /\ s.at \in {"link", "send"} /\ ~s.fresh => s.thread = s.found /\ run[Thread(t)].status \in Ended

\* What a handler under way is about: the run the card names, for one that
\* hears it work or end, and for one that has read the card; and what it does
\* next.
Alone(t, h) ==
  /\ h.kind = "working" => h.of = Edge(t) /\ Works(h.of)
  /\ h.kind \in {"finish", "recheck", "owed"} => h.at = "read"
  /\ h.kind = "ended" =>
       /\ h.of = Edge(t) /\ run[h.of].status \in Ended /\ run[h.of].status = h.how /\ run[h.of].cut = "no"
       /\ start[t].at \notin Made
       /\ Starting(t) => h.how # "cancelled"
       /\ h.at = "move" /\ h.how # "cancelled" => h.saw = "failed"
  /\ h.kind = "reconcile" =>
       /\ ~Works(Edge(t))
       /\ h.at # "read" => ~Starting(t) /\ h.of = Edge(t)
  /\ h.kind \in {"ended", "reconcile"} /\ h.at = "move" => h.saw \in {"todo", "failed"}
  /\ h.kind = "deleted" => h.at # "stamp"
  /\ h.kind = "deleted" /\ h.at = "unlink" => card[t].column = h.saw /\ card[t].run # 0 /\ h.of = Edge(t)
  /\ h.kind = "deleted" /\ h.at = "move" => card[t].run = 0 /\ h.saw = "todo"

\* While the deletion d of the card's run is heard, nothing else about that
\* run is.
Apart(t, d, g) ==
  /\ d.of = Edge(t) \/ d.at # "read" => g.kind \notin {"ended", "reconcile"}
  /\ d.of = Edge(t) /\ g.of = d.of => g.kind \notin {"finish", "recheck"}
  /\ g.kind = "deleted" /\ g.of = d.of => g = d

HandlersAreFit(t) ==
  /\ \A h \in handlers : h.of[1] = t => Alone(t, h)
  /\ \A d, g \in handlers : d.of[1] = t /\ d.kind = "deleted" /\ g.of[1] = t => Apart(t, d, g)

CardIsFit(t) == RunsAreFit(t) /\ StartIsFit(t) /\ HandlersAreFit(t)

-----------------------------------------------------------------------------
(* What each step does to its card                                          *)

SameCard(t) == card'[t].column = card[t].column /\ card'[t].run = card[t].run
SameRuns(t) == \A i \in 0 .. Threads : run'[<<t, i>>] = run[<<t, i>>]
SameWithheld(t) == \A i \in 0 .. Threads : <<t, i>> \in withheld' <=> <<t, i>> \in withheld

\* An announcement stands while the card stays finished, and a column chosen
\* by hand stands until the card is moved or drawn as worked.
Remembers(t) ==
  /\ told[t] /\ FinishedIn(card', run', t) => told'[t]
  /\ byHand[t] /\ card'[t].column = card[t].column /\ ~DrawnWorking(t)' => byHand'[t]

\* The handlers of a card that a step sets off are among hs.
SetsOff(t, hs) == \A h \in handlers' : h.of[1] = t => h \in handlers \/ h \in hs
Owed(t) == {h \in HandlerType : h.of[1] = t /\ h.kind = "owed" /\ h.at = "read"}

\* History is kept by a step that leaves it or writes it as a move does.
LEMMA HistoryRemembers ==
  ASSUME RowsAreTyped, NEW t \in Cards, HistoryKept \/ (UNCHANGED told /\ UNCHANGED byHand)
  PROVE  Remembers(t)
BY DEF RowsAreTyped, HistoryKept, ToldKept, Remembers

\* A card's row after it is written.
LEMMA WritesOfCard ==
  ASSUME RowsAreTyped, NEW t \in Cards
  PROVE  /\ \A to : MovedTo(t, to)[t].column = to /\ MovedTo(t, to)[t].run = card[t].run
         /\ \A i : LET c == [card EXCEPT ![t].run = i] IN c[t].column = card[t].column /\ c[t].run = i
         /\ \A s : LET c == [card EXCEPT ![t].stopped = s] IN c[t].column = card[t].column /\ c[t].run = card[t].run
<1>1. card \in [Cards -> CardType]
  BY DEF RowsAreTyped
<1>2. card[t] = [column |-> card[t].column, run |-> card[t].run, stopped |-> card[t].stopped]
  BY <1>1 DEF CardType
<1> QED
  BY <1>1, <1>2 DEF MovedTo, CardType

\* The end of a start.
LEMMA ReleasedIs ==
  ASSUME RowsAreTyped, NEW t \in Cards, NEW others, Released(t, others)
  PROVE  /\ start'[t] = NoStart /\ start'[t].at = "idle" /\ start'[t].fresh = FALSE
         /\ handlers \subseteq handlers' /\ others \subseteq handlers'
         /\ SetsOff(t, others \union Owed(t))
<1>1. Handler("owed", Edge(t), "none") \in Owed(t)
  <2>1. Edge(t)[1] = t
    BY DEF Edge
  <2> QED
    BY <2>1, EdgeHandlerTyped DEF Owed
<1> QED
  BY <1>1, RefusedStart DEF Released, SetsOff

\* The steps of a start before it has reserved the card, its refusals, and
\* the clearing of the stamp.
Early == {"read", "judge", "count", "reserve", "clear"}
QuietStart(t) ==
  /\ SameCard(t) /\ run' = run /\ withheld' = withheld /\ Remembers(t)
  /\ start[t].at \in Early /\ start'[t].at \in {"idle", "judge", "count", "reserve"}
  /\ start'[t].fresh => start[t].fresh /\ start[t].at # "clear"
  /\ handlers \subseteq handlers' /\ SetsOff(t, Owed(t))

\* A start that only reads, judges, counts, clears its stamp or is refused
\* is a quiet one.
LEMMA QuietStartIs ==
  ASSUME RowsAreTyped, NEW t \in Cards,
         ReadCard(t) \/ JudgeRun(t) \/ CountRuns(t) \/ ClearStamp(t) \/ (Reserve(t) /\ card[t].column # start[t].from)
  PROVE  QuietStart(t)
<1> USE DEF boardVars
<1>9. ASSUME Released(t, {})
      PROVE  start'[t].at = "idle" /\ start'[t].fresh = FALSE /\ handlers \subseteq handlers' /\ SetsOff(t, Owed(t))
  <2>1. {} \union Owed(t) = Owed(t)
    OBVIOUS
  <2> QED
    BY <1>9, <2>1, ReleasedIs
<1>1. ASSUME Refused(t, {}), UNCHANGED <<weather, card, run, told, held, byHand>>, start[t].at \in Early
      PROVE  QuietStart(t)
  <2>1. Released(t, {}) /\ withheld' = withheld
    BY <1>1 DEF Refused
  <2>2. Remembers(t) /\ SameCard(t)
    BY <1>1, HistoryRemembers DEF SameCard
  <2> QED
    BY <1>1, <1>9, <2>1, <2>2 DEF QuietStart
<1>2. ASSUME NEW at \in {"judge", "count", "reserve"}, start'[t].at = at, start'[t].fresh = start[t].fresh,
             UNCHANGED boardVars, start[t].at \in Early \ {"clear"}
      PROVE  QuietStart(t)
  BY <1>2, HistoryRemembers DEF QuietStart, SameCard, SetsOff
<1>3. ASSUME NEW at, GoesTo(t, at) PROVE start'[t].at = at /\ start'[t].fresh = start[t].fresh
  BY <1>3, GoneOn
<1>4. CASE ReadCard(t)
  <2>1. start'[t] = [start[t] EXCEPT !.at = "judge", !.found = card[t].run, !.stopped = card[t].stopped]
    BY <1>4 DEF ReadCard, RowsAreTyped
  <2>2. start'[t].at = "judge" /\ start'[t].fresh = start[t].fresh
    BY <2>1, EdgesAre DEF StartType
  <2> QED
    BY <1>2, <1>4, <2>2 DEF ReadCard, At, Early
<1>5. CASE JudgeRun(t)
  <2>1. start[t].at \in Early \ {"clear"}
    BY <1>5 DEF JudgeRun, At, Early
  <2>2. \/ Refused(t, {}) /\ UNCHANGED <<weather, card, run, told, held, byHand>>
        \/ (GoesTo(t, "count") \/ GoesTo(t, "reserve")) /\ UNCHANGED boardVars
    BY <1>5 DEF JudgeRun
  <2> QED
    BY <1>1, <1>2, <1>3, <2>1, <2>2
<1>6. CASE CountRuns(t)
  <2>1. start[t].at \in Early \ {"clear"}
    BY <1>6 DEF CountRuns, At, Early
  <2>2. \/ Refused(t, {}) /\ UNCHANGED <<weather, card, run, told, held, byHand>>
        \/ GoesTo(t, "reserve") /\ UNCHANGED boardVars
    BY <1>6 DEF CountRuns
  <2> QED
    BY <1>1, <1>2, <1>3, <2>1, <2>2
<1>7. CASE Reserve(t) /\ card[t].column # start[t].from
  BY <1>1, <1>7 DEF Reserve, At, Early
<1>8. CASE ClearStamp(t)
  <2>1. SameCard(t)
    BY <1>8, WritesOfCard DEF ClearStamp, SameCard
  <2>2. Released(t, {}) /\ run' = run /\ withheld' = withheld /\ Remembers(t) /\ start[t].at \in Early
    BY <1>8, HistoryRemembers DEF ClearStamp, Early
  <2> QED
    BY <1>9, <2>1, <2>2 DEF QuietStart
<1> QED
  BY <1>4, <1>5, <1>6, <1>7, <1>8

\* A start goes on to a point with what it has read and chosen.
SameStart(t) ==
  /\ start'[t].found = start[t].found /\ start'[t].from = start[t].from
  /\ start'[t].thread = start[t].thread /\ start'[t].fresh = start[t].fresh

\* A start that goes on to its next point keeps all it knows.
LEMMA GoesToIs ==
  ASSUME RowsAreTyped, NEW t \in Cards, NEW at, GoesTo(t, at)
  PROVE  start'[t].at = at /\ SameStart(t)
<1>1. start'[t] = [start[t] EXCEPT !.at = at]
  BY DEF RowsAreTyped, GoesTo
<1>2. start[t] \in StartType
  BY EdgesAre
<1> QED
  BY <1>1, <1>2 DEF StartType, SameStart

\* On a calm board a start waits for the handlers of its card.
LEMMA CalmIsThrough ==
  ASSUME RowsAreTyped, Calm, NEW t \in Cards
  PROVE  /\ Through(t) => \A h \in handlers : h.of[1] # t
         /\ \A kinds : Unhurried(t, kinds) => ~Starting(t) /\ \A h \in handlers : h.of[1] = t => h.kind \notin kinds
         /\ Settled(t) => ~Starting(t) /\ \A h \in handlers : h.of[1] = t => h.kind \notin {"ended", "deleted", "reconcile"}
         /\ \A r : Heard(r) => \A h \in handlers : h.of = r => h.at # "read" /\ h.kind # "working"
<1>1. ~May("overtake")
  BY DEF RowsAreTyped, Calm, May
<1> QED
  BY <1>1 DEF Through, Unhurried, Settled, Heard

\* The reservation.
LEMMA ReserveIs ==
  ASSUME RowsAreTyped, NEW t \in Cards, Reserve(t), card[t].column = start[t].from
  PROVE  /\ start[t].at = "reserve" /\ start'[t].at = "choose" /\ SameStart(t)
         /\ card'[t].column = "in_progress" /\ card'[t].run = card[t].run
         /\ run' = run /\ withheld' = withheld /\ handlers' = handlers /\ Remembers(t)
<1>1. /\ start[t].at = "reserve" /\ card' = MovedTo(t, "in_progress") /\ GoesTo(t, "choose")
      /\ run' = run /\ withheld' = withheld /\ handlers' = handlers /\ HistoryKept
  BY DEF Reserve, At
<1> QED
  BY <1>1, GoesToIs, WritesOfCard, HistoryRemembers

\* The choice of the run: one that has ended goes on, or one is made, or
\* neither works out.
LEMMA ChooseIs ==
  ASSUME RowsAreTyped, Calm, NEW t \in Cards, Choose(t)
  PROVE  /\ start[t].at = "choose" /\ start'[t].found = start[t].found /\ start'[t].from = start[t].from
         /\ SameCard(t) /\ withheld' = withheld /\ handlers' = handlers /\ told' = told /\ byHand' = byHand
         /\ \A h \in handlers : h.of[1] # t
         /\ \/ /\ run[<<t, start[t].found>>].status \in Ended /\ run' = run
               /\ start'[t].at = "link" /\ start'[t].thread = start[t].found /\ start'[t].fresh = start[t].fresh
            \/ \E j \in 1 .. Threads :
                 /\ run[<<t, j>>].status = "none"
                 /\ run'[<<t, j>>].status = "pending" /\ ~run'[<<t, j>>].holds
                 /\ \A i \in 0 .. Threads : i # j => run'[<<t, i>>] = run[<<t, i>>]
                 /\ start'[t].at = "link" /\ start'[t].thread = j /\ start'[t].fresh = TRUE
                 /\ run[<<t, start[t].found>>].status \notin Ended \/ May("retarget")
            \/ /\ run[<<t, start[t].found>>].status \notin Ended /\ run' = run
               /\ start'[t].at = "giveback" /\ SameStart(t)
<1> DEFINE made == {i \in 1 .. Threads : run[<<t, i>>].status = "none"}
           next == CHOOSE i \in made : \A j \in made : i <= j
<1>1. /\ start[t].at = "choose" /\ card' = card /\ withheld' = withheld /\ handlers' = handlers
      /\ told' = told /\ byHand' = byHand
  BY DEF Choose, At, boardVars
<1>2. \A h \in handlers : h.of[1] # t
  BY CalmIsThrough DEF Choose
<1>3. SameCard(t)
  BY <1>1 DEF SameCard
<1>4. start[t] \in StartType /\ start \in [Cards -> StartType]
  BY EdgesAre DEF RowsAreTyped
<1>5. CASE /\ run[<<t, start[t].found>>].status \in Ended
           /\ start' = [start EXCEPT ![t].at = "link", ![t].thread = start[t].found]
           /\ UNCHANGED <<boardVars, chain, offer>>
  <2>1. start'[t] = [start[t] EXCEPT !.at = "link", !.thread = start[t].found]
    BY <1>4, <1>5
  <2>2. start'[t].at = "link" /\ start'[t].thread = start[t].found /\ start'[t].fresh = start[t].fresh
        /\ start'[t].found = start[t].found /\ start'[t].from = start[t].from
    BY <1>4, <2>1 DEF StartType
  <2> QED
    BY <1>1, <1>2, <1>3, <1>5, <2>2 DEF boardVars
<1>6. CASE /\ run[<<t, start[t].found>>].status \notin Ended \/ May("retarget")
           /\ made # {}
           /\ run' = [run EXCEPT ![<<t, next>>] = [NoRun EXCEPT !.status = "pending"]]
           /\ start' = [start EXCEPT ![t].at = "link", ![t].thread = next, ![t].fresh = TRUE]
  <2>1. next \in made
    BY <1>6, LeastRun
  <2>2. next \in 1 .. Threads /\ run[<<t, next>>].status = "none"
    BY <2>1
  <2> HIDE DEF next, made
  <2>3. start'[t] = [start[t] EXCEPT !.at = "link", !.thread = next, !.fresh = TRUE]
    BY <1>4, <1>6
  <2>4. start'[t].at = "link" /\ start'[t].thread = next /\ start'[t].fresh = TRUE
        /\ start'[t].found = start[t].found /\ start'[t].from = start[t].from
    BY <1>4, <2>3 DEF StartType
  <2>5. run \in [Edges -> RunType] /\ \A i \in 0 .. Threads : <<t, i>> \in Edges
    BY DEF RowsAreTyped, Edges
  <2>6. next \in 0 .. Threads
    BY <2>2, BoardAssumption
  <2>7. run'[<<t, next>>] = [NoRun EXCEPT !.status = "pending"]
    BY <1>6, <2>5, <2>6
  <2>8. run'[<<t, next>>].status = "pending" /\ ~run'[<<t, next>>].holds
    BY <2>7 DEF NoRun
  <2>9. \A i \in 0 .. Threads : i # next => run'[<<t, i>>] = run[<<t, i>>]
    BY <1>6, <2>5
  <2> QED
    BY <1>1, <1>2, <1>3, <1>6, <2>2, <2>4, <2>8, <2>9
<1>7. CASE /\ run[<<t, start[t].found>>].status \notin Ended
           /\ GoesTo(t, "giveback") /\ UNCHANGED <<boardVars, chain, offer>>
  BY <1>1, <1>2, <1>3, <1>7, GoesToIs DEF SameStart, boardVars
<1> QED
  BY <1>5, <1>6, <1>7 DEF Choose

\* The run is written on the card, or that goes wrong.
LEMMA LinkIs ==
  ASSUME RowsAreTyped, NEW t \in Cards, Link(t)
  PROVE  /\ start[t].at = "link" /\ SameStart(t)
         /\ card'[t].column = card[t].column
         /\ run' = run /\ withheld' = withheld /\ handlers' = handlers /\ Remembers(t)
         /\ \/ card'[t].run = start[t].thread /\ start'[t].at = "send"
            \/ card'[t].run = card[t].run /\ start'[t].at = (IF start[t].fresh THEN "unlink" ELSE "giveback")
<1>1. start[t].at = "link" /\ run' = run /\ withheld' = withheld /\ handlers' = handlers /\ HistoryKept
  BY DEF Link, At
<1>2. Remembers(t)
  BY <1>1, HistoryRemembers
<1>3. CASE card' = [card EXCEPT ![t].run = start[t].thread] /\ GoesTo(t, "send")
  BY <1>1, <1>2, <1>3, GoesToIs, WritesOfCard
<1>4. CASE GoesWrong(t) /\ UNCHANGED card
  <2>1. start'[t].at = (IF start[t].fresh THEN "unlink" ELSE "giveback") /\ SameStart(t)
    BY <1>4, GoesToIs DEF GoesWrong
  <2> QED
    BY <1>1, <1>2, <1>4, <2>1
<1> QED
  BY <1>3, <1>4 DEF Link

\* The brief is sent and the run works, or that goes wrong.
LEMMA SendIs ==
  ASSUME RowsAreTyped, Calm, NEW t \in Cards, Send(t)
  PROVE  /\ start[t].at = "send" /\ SameStart(t) /\ SameCard(t)
         /\ withheld' = withheld /\ Remembers(t)
         /\ \A h \in handlers : h.of[1] # t
         /\ \/ /\ start'[t].at = "clear" /\ handlers' = handlers \union Broadcast("working", Thread(t), "none")
               /\ run'[Thread(t)].status = "running" /\ run'[Thread(t)].cut = "no"
               /\ run'[Thread(t)].holds = run[Thread(t)].holds
               /\ \A i \in 0 .. Threads : i # start[t].thread => run'[<<t, i>>] = run[<<t, i>>]
            \/ /\ start'[t].at = (IF start[t].fresh THEN "unlink" ELSE "giveback")
               /\ run' = run /\ handlers' = handlers
<1>1. start[t].at = "send" /\ card' = card /\ withheld' = withheld
  BY DEF Send, At, boardVars
<1>2. \A h \in handlers : h.of[1] # t
  BY CalmIsThrough DEF Send
<1>3. SameCard(t)
  BY <1>1 DEF SameCard
<1>4. Remembers(t)
  <2>1. HistoryKept \/ (UNCHANGED told /\ UNCHANGED byHand)
    BY DEF Send, boardVars
  <2> QED
    BY <2>1, HistoryRemembers
<1>5. CASE /\ run' = [run EXCEPT ![Thread(t)] = [@ EXCEPT !.status = "running", !.cut = "no", !.auto = start[t].auto]]
           /\ handlers' = handlers \union Broadcast("working", Thread(t), "none")
           /\ GoesTo(t, "clear")
  <2>1. Thread(t) \in Edges /\ run \in [Edges -> RunType] /\ run[Thread(t)] \in RunType
    BY EdgesAre DEF RowsAreTyped
  <2>2. run'[Thread(t)] = [run[Thread(t)] EXCEPT !.status = "running", !.cut = "no", !.auto = start[t].auto]
    BY <1>5, <2>1
  <2>3. run'[Thread(t)].status = "running" /\ run'[Thread(t)].cut = "no" /\ run'[Thread(t)].holds = run[Thread(t)].holds
    BY <2>1, <2>2 DEF RunType
  <2>4. \A i \in 0 .. Threads : i # start[t].thread => run'[<<t, i>>] = run[<<t, i>>]
    BY <1>5, <2>1 DEF Edges, Thread
  <2> QED
    BY <1>1, <1>2, <1>3, <1>4, <1>5, <2>3, <2>4, GoesToIs
<1>6. CASE GoesWrong(t) /\ UNCHANGED <<boardVars, chain, offer>>
  <2>1. start'[t].at = (IF start[t].fresh THEN "unlink" ELSE "giveback") /\ SameStart(t)
    BY <1>6, GoesToIs DEF GoesWrong
  <2> QED
    BY <1>1, <1>2, <1>3, <1>4, <1>6, <2>1 DEF boardVars
<1> QED
  BY <1>5, <1>6 DEF Send

\* A failed start gives the card the run it had.
LEMMA UnlinkIs ==
  ASSUME RowsAreTyped, NEW t \in Cards, Unlink(t)
  PROVE  /\ start[t].at = "unlink" /\ start'[t].at = "giveback" /\ SameStart(t)
         /\ card'[t].column = card[t].column /\ card'[t].run = start[t].found
         /\ run' = run /\ withheld' = withheld /\ handlers' = handlers /\ Remembers(t)
<1>1. /\ start[t].at = "unlink" /\ GoesTo(t, "giveback") /\ card' = [card EXCEPT ![t].run = start[t].found]
      /\ run' = run /\ withheld' = withheld /\ handlers' = handlers /\ HistoryKept
  BY DEF Unlink, At
<1> QED
  BY <1>1, GoesToIs, WritesOfCard, HistoryRemembers

\* A failed start gives the card its column back; a move to Done is judged
\* for the finish.
LEMMA GiveBackIs ==
  ASSUME RowsAreTyped, NEW t \in Cards, GiveBack(t)
  PROVE  LET moves == card[t].column = "in_progress"
             finish == IF moves THEN FinishCheck(t, start[t].from) ELSE {} IN
         /\ start[t].at = "giveback"
         /\ card'[t].column = (IF moves THEN start[t].from ELSE card[t].column) /\ card'[t].run = card[t].run
         /\ run' = run /\ withheld' = withheld /\ Remembers(t)
         /\ handlers \subseteq handlers' /\ finish \subseteq handlers' /\ SetsOff(t, finish \union Owed(t))
         /\ \/ start[t].fresh /\ start'[t].at = "discard" /\ SameStart(t)
            \/ ~start[t].fresh /\ start'[t] = NoStart /\ start'[t].at = "idle" /\ start'[t].fresh = FALSE
<1> DEFINE moves == card[t].column = "in_progress"
           finish == IF moves THEN FinishCheck(t, start[t].from) ELSE {}
<1>1. /\ start[t].at = "giveback" /\ run' = run /\ withheld' = withheld /\ HistoryKept
      /\ card' = IF moves THEN MovedTo(t, start[t].from) ELSE card
  BY DEF GiveBack, At, Refused
<1>2. Remembers(t)
  BY <1>1, HistoryRemembers
<1>3. card'[t].column = (IF moves THEN start[t].from ELSE card[t].column) /\ card'[t].run = card[t].run
  BY <1>1, WritesOfCard
<1>4. CASE start[t].fresh /\ GoesTo(t, "discard") /\ handlers' = handlers \union finish
  <2> HIDE DEF finish
  <2>1. handlers \subseteq handlers' /\ finish \subseteq handlers' /\ SetsOff(t, finish \union Owed(t))
    BY <1>4 DEF SetsOff
  <2>2. start'[t].at = "discard" /\ SameStart(t)
    BY <1>4, GoesToIs
  <2> USE DEF finish
  <2> QED
    BY <1>1, <1>2, <1>3, <1>4, <2>1, <2>2
<1>5. CASE ~start[t].fresh /\ Released(t, finish)
  <2> HIDE DEF finish
  <2>1. /\ start'[t] = NoStart /\ start'[t].at = "idle" /\ start'[t].fresh = FALSE
        /\ handlers \subseteq handlers' /\ finish \subseteq handlers' /\ SetsOff(t, finish \union Owed(t))
    BY <1>5, ReleasedIs
  <2> USE DEF finish
  <2> QED
    BY <1>1, <1>2, <1>3, <1>5, <2>1
<1> QED
  BY <1>4, <1>5 DEF GiveBack, Refused

\* A failed start deletes the run it made, and the board hears of it.
LEMMA DiscardIs ==
  ASSUME RowsAreTyped, NEW t \in Cards, Discard(t)
  PROVE  /\ start[t].at = "discard" /\ start'[t] = NoStart /\ start'[t].at = "idle" /\ start'[t].fresh = FALSE
         /\ SameCard(t) /\ withheld' = withheld /\ Remembers(t)
         /\ run'[Thread(t)].status = "discarded" /\ run'[Thread(t)].cut = run[Thread(t)].cut
         /\ run'[Thread(t)].holds = run[Thread(t)].holds
         /\ \A i \in 0 .. Threads : i # start[t].thread => run'[<<t, i>>] = run[<<t, i>>]
         /\ handlers \subseteq handlers' /\ Handler("deleted", Thread(t), "none") \in handlers'
         /\ SetsOff(t, {Handler("deleted", Thread(t), "none")} \union Owed(t))
<1>1. start[t].at = "discard" /\ card' = card /\ withheld' = withheld /\ HistoryKept
  BY DEF Discard, At, Refused
<1>2. SameCard(t) /\ Remembers(t)
  BY <1>1, HistoryRemembers DEF SameCard
<1>3. Released(t, {Handler("deleted", Thread(t), "none")})
  BY DEF Discard, Refused
<1>4. Thread(t) \in Edges /\ run \in [Edges -> RunType] /\ run[Thread(t)] \in RunType
  BY EdgesAre DEF RowsAreTyped
<1>5. run' = [run EXCEPT ![Thread(t)].status = "discarded"]
  BY DEF Discard
<1>6. run'[Thread(t)] = [run[Thread(t)] EXCEPT !.status = "discarded"]
  BY <1>4, <1>5
<1>7. run'[Thread(t)].status = "discarded" /\ run'[Thread(t)].cut = run[Thread(t)].cut
      /\ run'[Thread(t)].holds = run[Thread(t)].holds
  BY <1>4, <1>6 DEF RunType
<1>8. \A i \in 0 .. Threads : i # start[t].thread => run'[<<t, i>>] = run[<<t, i>>]
  BY <1>4, <1>5 DEF Edges, Thread
<1>9. {Handler("deleted", Thread(t), "none")} \subseteq handlers'
  BY <1>3, ReleasedIs
<1> QED
  BY <1>1, <1>2, <1>3, <1>7, <1>8, <1>9, ReleasedIs

-----------------------------------------------------------------------------
(* Cards stay fit                                                           *)

\* The run of a handler or of a card after a step that leaves the runs.
LEMMA SameRunsAt ==
  ASSUME RowsAreTyped, NEW t \in Cards, SameRuns(t), NEW r \in Edges, r[1] = t
  PROVE  run'[r] = run[r]
BY DEF SameRuns, Edges

\* The starts a step leaves no further than they were.
NoFurther(t) == (Starting(t)' => Starting(t)) /\ (start'[t].at \in Made => start[t].at \in Made)

\* What a handler is about stays, unless the card, its runs or its start move.
LEMMA AloneStays ==
  ASSUME RowsAreTyped, RowsAreTyped', NEW t \in Cards, NEW h \in handlers, h.of[1] = t, Alone(t, h),
         SameRuns(t), card'[t].run = card[t].run, NoFurther(t),
         card'[t].column = card[t].column \/ ~(h.kind = "deleted" /\ h.at = "unlink")
  PROVE  Alone(t, h)'
<1>1. Edge(t)' = Edge(t) /\ Edge(t) \in Edges /\ Edge(t)[1] = t /\ h.of \in Edges
  BY EdgesAre, HandlerIsOf DEF Edge
<1>2. run'[h.of] = run[h.of] /\ run'[Edge(t)] = run[Edge(t)]
  BY <1>1, SameRunsAt
<1>3. (Starting(t)' => Starting(t)) /\ (start'[t].at \in Made => start[t].at \in Made)
  BY DEF NoFurther
<1> QED
  BY <1>1, <1>2, <1>3 DEF Alone, Works

\* The handlers of a card stay fit, when those that are set off are.
LEMMA HandlersStayFit ==
  ASSUME RowsAreTyped, RowsAreTyped', NEW t \in Cards, HandlersAreFit(t),
         SameRuns(t), card'[t].run = card[t].run, NoFurther(t),
         \/ card'[t].column = card[t].column
         \/ \A h \in handlers : h \in handlers' /\ h.of[1] = t /\ h.kind = "deleted" => h.at # "unlink",
         NEW new, SetsOff(t, new),
         \A n \in new : n \in handlers' /\ n.of[1] = t =>
           /\ Alone(t, n)'
           /\ \A d \in handlers : d \in handlers' /\ d.of[1] = t /\ d.kind = "deleted" => Apart(t, d, n)
           /\ n.kind = "deleted" => \A g \in handlers' : g.of[1] = t => Apart(t, n, g)
  PROVE  HandlersAreFit(t)'
<1>1. Edge(t)' = Edge(t)
  BY DEF Edge
<1>2. ASSUME NEW h \in handlers', h.of[1] = t PROVE Alone(t, h)'
  <2>1. CASE h \in handlers
    <3>1. Alone(t, h)
      BY <1>2, <2>1 DEF HandlersAreFit
    <3>2. card'[t].column = card[t].column \/ ~(h.kind = "deleted" /\ h.at = "unlink")
      BY <1>2, <2>1
    <3> QED
      BY <1>2, <2>1, <3>1, <3>2, AloneStays
  <2>2. CASE h \in new
    BY <1>2, <2>2
  <2> QED
    BY <1>2, <2>1, <2>2 DEF SetsOff
<1>3. ASSUME NEW d \in handlers', NEW g \in handlers', d.of[1] = t, d.kind = "deleted", g.of[1] = t
      PROVE  Apart(t, d, g)
  <2>1. CASE d \in new
    BY <1>3, <2>1
  <2>2. CASE d \in handlers /\ g \in new
    BY <1>3, <2>2
  <2>3. CASE d \in handlers /\ g \in handlers
    BY <1>3, <2>3 DEF HandlersAreFit
  <2> QED
    BY <1>3, <2>1, <2>2, <2>3 DEF SetsOff
<1>4. \A d, g : Apart(t, d, g)' <=> Apart(t, d, g)
  BY <1>1 DEF Apart
<1> QED
  BY <1>2, <1>3, <1>4 DEF HandlersAreFit

\* A handler set off that hears nothing of a run's end or deletion is fit.
LEMMA ChecksAreFit ==
  ASSUME NEW t \in Cards, NEW n, n.kind \in {"owed"}, n.at = "read"
  PROVE  Alone(t, n)' /\ (\A d : d.kind = "deleted" => Apart(t, d, n)) /\ n.kind # "deleted"
BY DEF Alone, Apart

\* The rows of a card stay fit when neither its runs, nor its run, nor its
\* start move.
LEMMA RowsStayFit ==
  ASSUME RowsAreTyped, RowsAreTyped', NEW t \in Cards, RunsAreFit(t), StartIsFit(t),
         SameRuns(t), card'[t].run = card[t].run
  PROVE  /\ RunsAreFit(t)'
         /\ (\/ start'[t] = start[t] /\ (card'[t].column = card[t].column \/ card'[t].column \in {"in_progress", "failed"}
                                           \/ start[t].at \notin Reserved)
             \/ start'[t].at \in {"idle", "read", "judge", "count", "reserve"} /\ ~start'[t].fresh)
            => StartIsFit(t)'
<1>1. RunsAreFit(t)'
  BY DEF RunsAreFit, SameRuns, Works
<1>2. Edge(t)' = Edge(t) /\ Edge(t) \in Edges /\ Edge(t)[1] = t /\ run'[Edge(t)] = run[Edge(t)]
  BY EdgesAre, SameRunsAt DEF Edge
<1>3. CASE start'[t] = start[t] /\ (card'[t].column = card[t].column \/ card'[t].column \in {"in_progress", "failed"}
                                           \/ start[t].at \notin Reserved)
  <2>1. Thread(t)' = Thread(t) /\ Thread(t) \in Edges /\ Thread(t)[1] = t /\ <<t, start[t].found>> \in Edges
    BY <1>3, EdgesAre DEF Thread
  <2>2. run'[Thread(t)] = run[Thread(t)] /\ run'[<<t, start[t].found>>] = run[<<t, start[t].found>>]
    BY <2>1, SameRunsAt
  <2> QED
    BY <1>1, <1>2, <1>3, <2>1, <2>2 DEF StartIsFit
<1>4. CASE start'[t].at \in {"idle", "read", "judge", "count", "reserve"} /\ ~start'[t].fresh
  BY <1>1, <1>2, <1>4 DEF StartIsFit, Reserved, Made
<1> QED
  BY <1>1, <1>3, <1>4

\* A card without handlers stays fit in its handlers.
LEMMA NoHandlersAreFit ==
  ASSUME NEW t, \A h \in handlers' : h.of[1] # t
  PROVE  HandlersAreFit(t)'
BY DEF HandlersAreFit

\* Whom a start that has chosen its run meets: handlers that have read
\* nothing, and hear neither work, nor an end, nor a deletion.
Aloof(h) == h.at = "read" /\ h.kind \in {"finish", "recheck", "owed", "reconcile"}
\* While a start has chosen its run, no run of the card works and the handlers
\* of the card have nothing to write.
LEMMA MadeIsAloof ==
  ASSUME RowsAreTyped, NEW t \in Cards, CardIsSound(t), CardIsFit(t), start[t].at \in Made
  PROVE  (\A h \in handlers : h.of[1] = t => Aloof(h)) /\ \A i \in 0 .. Threads : ~Works(<<t, i>>)
<1>1. Starting(t) /\ start[t].at \in Judged
  BY DEF Starting, Made, Judged
<1>2. \A i \in 1 .. Threads : ~Works(<<t, i>>)
  BY <1>1 DEF CardIsSound
<1>3. \A i \in 0 .. Threads : ~Works(<<t, i>>)
  BY <1>2, BoardAssumption DEF CardIsSound, Works
<1>4. ASSUME NEW h \in handlers, h.of[1] = t PROVE Aloof(h)
  <2>1. h \in HandlerType /\ h.of \in Edges /\ Alone(t, h)
    BY <1>4, HandlerIsOf DEF CardIsFit, HandlersAreFit
  <2>2. ~Works(h.of)
    BY <1>3, <1>4, <2>1 DEF Edges
  <2>3. h.kind # "deleted"
    BY <1>1, <1>4 DEF CardIsSound
  <2> QED
    BY <1>1, <2>1, <2>2, <2>3 DEF Alone, Aloof, HandlerType
<1> QED
  BY <1>3, <1>4

\* Handlers that hear nothing of the run stay fit while nothing works.
LEMMA AloofStayFit ==
  ASSUME NEW t \in Cards, \A h \in handlers' : h.of[1] = t => Aloof(h), ~Works(Edge(t))'
  PROVE  HandlersAreFit(t)'
BY DEF HandlersAreFit, Aloof, Alone

\* A card stays fit in the steps that move its start no further.
LEMMA QuietStartStaysFit ==
  ASSUME RowsAreTyped, RowsAreTyped', NEW t \in Cards, CardIsFit(t), QuietStart(t)
  PROVE  CardIsFit(t)'
<1>1. SameRuns(t) /\ card'[t].run = card[t].run /\ card'[t].column = card[t].column
  BY DEF QuietStart, SameCard, SameRuns
<1>2. start'[t].at \in {"idle", "judge", "count", "reserve"} /\ ~start'[t].fresh
  <2>1. start'[t].at \in {"idle", "judge", "count", "reserve"} /\ start[t].at \in Early
        /\ (start'[t].fresh => start[t].fresh /\ start[t].at # "clear")
    BY DEF QuietStart
  <2>2. start[t].fresh => start[t].at \in Made \union {"clear"}
    BY DEF CardIsFit, StartIsFit
  <2> QED
    BY <2>1, <2>2 DEF Early, Made
<1>3. NoFurther(t)
  BY <1>2 DEF NoFurther, Starting, QuietStart, Early, Made
<1>4. RunsAreFit(t)' /\ StartIsFit(t)'
  BY <1>1, <1>2, RowsStayFit DEF CardIsFit
<1>5. HandlersAreFit(t)'
  <2>1. SetsOff(t, Owed(t))
    BY DEF QuietStart
  <2>2. \A n \in Owed(t) : n.kind = "owed" /\ n.at = "read"
    BY DEF Owed
  <2>3. \A n \in Owed(t) : Alone(t, n)' /\ (\A d : d.kind = "deleted" => Apart(t, d, n)) /\ n.kind # "deleted"
    BY <2>2, ChecksAreFit
  <2> QED
    BY <1>1, <1>3, <2>1, <2>3, HandlersStayFit DEF CardIsFit
<1> QED
  BY <1>4, <1>5 DEF CardIsFit

\* The steps of a start keep its card fit.
LEMMA StartStepsFit ==
  ASSUME RowsAreTyped, RowsAreTyped', Calm, NEW t \in Cards, CardIsSound(t), CardIsSound(t)', CardIsFit(t),
         \/ ReadCard(t) \/ JudgeRun(t) \/ CountRuns(t) \/ Reserve(t) \/ Choose(t)
         \/ Link(t) \/ Send(t) \/ Unlink(t) \/ GiveBack(t) \/ Discard(t) \/ ClearStamp(t)
  PROVE  CardIsFit(t)'
<1> DEFINE s == start[t]
<1>1. start[t] \in StartType /\ s.thread \in 0 .. Threads /\ s.found \in 0 .. Threads /\ card[t].run \in 0 .. Threads
  BY EdgesAre DEF StartType, CardType
<1>2. CASE ReadCard(t) \/ JudgeRun(t) \/ CountRuns(t) \/ ClearStamp(t) \/ (Reserve(t) /\ card[t].column # start[t].from)
  BY <1>2, QuietStartIs, QuietStartStaysFit
<1>3. RunsAreFit(t) /\ StartIsFit(t) /\ HandlersAreFit(t)
  BY DEF CardIsFit
<1>4. CASE Reserve(t) /\ card[t].column = start[t].from
  <2>1. /\ s.at = "reserve" /\ start'[t].at = "choose" /\ SameStart(t)
        /\ card'[t].column = "in_progress" /\ card'[t].run = card[t].run
        /\ run' = run /\ handlers' = handlers
    BY <1>4, ReserveIs
  <2>2. SameRuns(t) /\ RunsAreFit(t)'
    BY <1>3, <2>1, RowsStayFit DEF SameRuns
  <2>3. Edge(t)' = Edge(t) /\ run'[Edge(t)] = run[Edge(t)]
    BY <2>1 DEF Edge
  <2>4. ~start'[t].fresh
    BY <1>3, <2>1 DEF StartIsFit, SameStart, Made
  <2>5. StartIsFit(t)'
    BY <1>3, <2>1, <2>3, <2>4 DEF StartIsFit, Made
  <2>6. HandlersAreFit(t)'
    <3>1. NoFurther(t)
      BY <2>1 DEF NoFurther, Starting, Made
    <3>2. \A h \in handlers : h.of[1] = t => h.kind # "deleted"
      BY <2>1 DEF CardIsSound, Starting
    <3>3. SetsOff(t, {})
      BY <2>1 DEF SetsOff
    <3> QED
      BY <1>3, <2>1, <2>2, <3>1, <3>2, <3>3, HandlersStayFit
  <2> QED
    BY <2>2, <2>5, <2>6 DEF CardIsFit
<1>5. CASE Choose(t)
  <2>1. /\ s.at = "choose" /\ start'[t].found = s.found /\ SameCard(t)
        /\ handlers' = handlers /\ \A h \in handlers : h.of[1] # t
    BY <1>5, ChooseIs
  <2>2. HandlersAreFit(t)'
    BY <2>1, NoHandlersAreFit
  <2>3. card'[t].column \in {"in_progress", "failed"} /\ card'[t].run = s.found /\ ~s.fresh
    BY <1>3, <2>1 DEF CardIsSound, StartIsFit, SameCard, Reserved, Made
  <2>4. Edge(t) = <<t, s.found>> /\ Edge(t)' = <<t, s.found>>
    BY <2>1, <2>3 DEF Edge, SameCard
  <2>5. s.found # 0 => run[<<t, s.found>>].status # "none"
    BY <1>3, <2>1, <2>3, <2>4 DEF StartIsFit, SameCard
  <2>6. CASE run[<<t, s.found>>].status \in Ended /\ run' = run /\ start'[t].at = "link"
             /\ start'[t].thread = s.found /\ start'[t].fresh = s.fresh
    <3>1. RunsAreFit(t)'
      BY <1>3, <2>6 DEF RunsAreFit, Works
    <3>2. Thread(t)' = <<t, s.found>>
      BY <2>6 DEF Thread
    <3>3. StartIsFit(t)'
      BY <2>1, <2>3, <2>4, <2>5, <2>6, <3>2 DEF StartIsFit, Made, Reserved
    <3> QED
      BY <2>2, <3>1, <3>3 DEF CardIsFit
  <2>7. ASSUME NEW j \in 1 .. Threads, run[<<t, j>>].status = "none",
               run'[<<t, j>>].status = "pending", ~run'[<<t, j>>].holds,
               \A i \in 0 .. Threads : i # j => run'[<<t, i>>] = run[<<t, i>>],
               start'[t].at = "link", start'[t].thread = j, start'[t].fresh = TRUE
        PROVE  CardIsFit(t)'
    <3>1. s.found # j
      BY <2>5, <2>7
    <3>2. RunsAreFit(t)'
      BY <1>3, <2>7 DEF RunsAreFit, Works
    <3>3. Thread(t)' = <<t, j>> /\ run'[<<t, s.found>>] = run[<<t, s.found>>]
      BY <1>1, <2>7, <3>1 DEF Thread
    <3>4. StartIsFit(t)'
      BY <2>1, <2>3, <2>4, <2>5, <2>7, <3>1, <3>3 DEF StartIsFit, Made, Reserved
    <3> QED
      BY <2>2, <3>2, <3>4 DEF CardIsFit
  <2>8. CASE run' = run /\ start'[t].at = "giveback" /\ SameStart(t)
    <3>1. RunsAreFit(t)'
      BY <1>3, <2>8 DEF RunsAreFit, Works
    <3>2. StartIsFit(t)'
      BY <2>1, <2>3, <2>4, <2>5, <2>8 DEF StartIsFit, Made, Reserved, SameStart
    <3> QED
      BY <2>2, <3>1, <3>2 DEF CardIsFit
  <2> QED
    BY <1>5, <2>6, <2>7, <2>8, ChooseIs
<1>6. CASE Link(t)
  <2>1. /\ s.at = "link" /\ SameStart(t) /\ card'[t].column = card[t].column
        /\ run' = run /\ handlers' = handlers
        /\ \/ card'[t].run = s.thread /\ start'[t].at = "send"
           \/ card'[t].run = card[t].run /\ start'[t].at = (IF s.fresh THEN "unlink" ELSE "giveback")
    BY <1>6, LinkIs
  <2>2. s.at \in Made
    BY <2>1 DEF Made
  <2>3. (\A h \in handlers : h.of[1] = t => Aloof(h)) /\ \A i \in 0 .. Threads : ~Works(<<t, i>>)
    BY <2>2, MadeIsAloof
  <2>4. card'[t].run \in 0 .. Threads /\ ~Works(Edge(t))'
    BY <1>1, <2>1, <2>3 DEF Edge, Works
  <2>5. HandlersAreFit(t)'
    BY <2>1, <2>3, <2>4, AloofStayFit
  <2>6. RunsAreFit(t)'
    BY <1>3, <2>1 DEF RunsAreFit, Works
  <2>7. Thread(t)' = Thread(t) /\ Thread(t) = <<t, s.thread>>
    BY <2>1 DEF Thread, SameStart
  <2>8. /\ card[t].column \in {"in_progress", "failed"} /\ card[t].run = s.found
        /\ s.found # 0 => run[<<t, s.found>>].status # "none"
        /\ s.fresh => s.thread # s.found /\ run[Thread(t)].status = "pending"
        /\ ~s.fresh => s.thread = s.found /\ run[Thread(t)].status \in Ended
    BY <1>3, <2>1 DEF StartIsFit, Made, Reserved
  <2>9. Edge(t)' = <<t, card'[t].run>>
    BY DEF Edge
  <2>10. card'[t].run # 0 => run'[Edge(t)'].status # "none"
    BY <2>1, <2>7, <2>8, <2>9 DEF Ended
  <2>11. StartIsFit(t)'
    BY <2>1, <2>7, <2>8, <2>10 DEF StartIsFit, Made, Reserved, SameStart
  <2> QED
    BY <2>5, <2>6, <2>11 DEF CardIsFit
<1>7. CASE Send(t)
  <2>1. /\ s.at = "send" /\ SameStart(t) /\ SameCard(t) /\ \A h \in handlers : h.of[1] # t
        /\ \/ /\ start'[t].at = "clear" /\ handlers' = handlers \union Broadcast("working", Thread(t), "none")
              /\ run'[Thread(t)].status = "running" /\ run'[Thread(t)].cut = "no"
              /\ run'[Thread(t)].holds = run[Thread(t)].holds
              /\ \A i \in 0 .. Threads : i # s.thread => run'[<<t, i>>] = run[<<t, i>>]
           \/ /\ start'[t].at = (IF s.fresh THEN "unlink" ELSE "giveback")
              /\ run' = run /\ handlers' = handlers
    BY <1>7, SendIs
  <2>2. card[t].run = s.thread /\ Edge(t) = Thread(t) /\ Edge(t)' = Thread(t) /\ Thread(t) = <<t, s.thread>>
    BY <2>1 DEF CardIsSound, Edge, Thread, SameCard
  <2>3. CASE /\ start'[t].at = "clear" /\ handlers' = handlers \union Broadcast("working", Thread(t), "none")
             /\ run'[Thread(t)].status = "running" /\ run'[Thread(t)].cut = "no"
             /\ run'[Thread(t)].holds = run[Thread(t)].holds
             /\ \A i \in 0 .. Threads : i # s.thread => run'[<<t, i>>] = run[<<t, i>>]
    <3>1. RunsAreFit(t)'
      BY <1>3, <2>2, <2>3 DEF RunsAreFit, Works
    <3>2. StartIsFit(t)'
      BY <2>2, <2>3 DEF StartIsFit, Made, Reserved
    <3>3. \A h \in Broadcast("working", Thread(t), "none") :
            h.at = "read" /\ h.of = Thread(t) /\ h.kind \in {"recheck", "working"}
      BY DEF Broadcast, Handler
    <3>4. \A h \in handlers' : h.of[1] = t => h.at = "read" /\ h.of = Thread(t) /\ h.kind \in {"recheck", "working"}
      BY <2>1, <2>3, <3>3
    <3>5. HandlersAreFit(t)'
      BY <2>2, <2>3, <3>4 DEF HandlersAreFit, Alone, Works
    <3> QED
      BY <3>1, <3>2, <3>5 DEF CardIsFit
  <2>4. CASE /\ start'[t].at = (IF s.fresh THEN "unlink" ELSE "giveback")
             /\ run' = run /\ handlers' = handlers
    <3>1. RunsAreFit(t)'
      BY <1>3, <2>4 DEF RunsAreFit, Works
    <3>2. Thread(t)' = Thread(t) /\ card'[t].run = s.thread /\ card'[t].column = card[t].column
      BY <2>1, <2>2 DEF Thread, SameStart, SameCard
    <3>3. /\ card[t].column \in {"in_progress", "failed"}
          /\ s.found # 0 => run[<<t, s.found>>].status # "none"
          /\ s.fresh => s.thread # s.found /\ run[Thread(t)].status = "pending"
          /\ ~s.fresh => s.thread = s.found /\ run[Thread(t)].status \in Ended
      BY <1>3, <2>1 DEF StartIsFit, Made, Reserved
    <3>4. StartIsFit(t)'
      BY <2>1, <2>2, <2>4, <3>2, <3>3 DEF StartIsFit, Made, Reserved, SameStart, Ended
    <3>5. HandlersAreFit(t)'
      BY <2>1, <2>4, NoHandlersAreFit
    <3> QED
      BY <3>1, <3>4, <3>5 DEF CardIsFit
  <2> QED
    BY <2>1, <2>3, <2>4
<1>8. CASE Unlink(t)
  <2>1. /\ s.at = "unlink" /\ start'[t].at = "giveback" /\ SameStart(t)
        /\ card'[t].column = card[t].column /\ card'[t].run = s.found
        /\ run' = run /\ handlers' = handlers
    BY <1>8, UnlinkIs
  <2>2. s.at \in Made
    BY <2>1 DEF Made
  <2>3. (\A h \in handlers : h.of[1] = t => Aloof(h)) /\ \A i \in 0 .. Threads : ~Works(<<t, i>>)
    BY <2>2, MadeIsAloof
  <2>4. ~Works(Edge(t))'
    BY <1>1, <2>1, <2>3 DEF Edge, Works
  <2>5. HandlersAreFit(t)'
    BY <2>1, <2>3, <2>4, AloofStayFit
  <2>6. RunsAreFit(t)'
    BY <1>3, <2>1 DEF RunsAreFit, Works
  <2>7. Thread(t)' = Thread(t) /\ Edge(t)' = <<t, s.found>>
    BY <2>1 DEF Thread, SameStart, Edge
  <2>8. /\ card[t].column \in {"in_progress", "failed"}
        /\ s.found # 0 => run[<<t, s.found>>].status # "none"
        /\ s.fresh => s.thread # s.found /\ run[Thread(t)].status = "pending"
    BY <1>3, <2>1 DEF StartIsFit, Made, Reserved
  <2>9. StartIsFit(t)'
    BY <2>1, <2>7, <2>8 DEF StartIsFit, Made, Reserved, SameStart
  <2> QED
    BY <2>5, <2>6, <2>9 DEF CardIsFit
<1>9. CASE GiveBack(t)
  <2> DEFINE finish == IF card[t].column = "in_progress" THEN FinishCheck(t, s.from) ELSE {}
  <2>1. /\ s.at = "giveback" /\ card'[t].run = card[t].run /\ run' = run
        /\ SetsOff(t, finish \union Owed(t))
        /\ \/ s.fresh /\ start'[t].at = "discard" /\ SameStart(t)
           \/ ~s.fresh /\ start'[t].at = "idle" /\ start'[t].fresh = FALSE
    BY <1>9, GiveBackIs
  <2>2. s.at \in Made
    BY <2>1 DEF Made
  <2>3. (\A h \in handlers : h.of[1] = t => Aloof(h)) /\ \A i \in 0 .. Threads : ~Works(<<t, i>>)
    BY <2>2, MadeIsAloof
  <2>4. ~Works(Edge(t))'
    BY <1>1, <2>1, <2>3 DEF Edge, Works
  <2>5. \A h \in finish \union Owed(t) : Aloof(h)
    BY DEF FinishCheck, Handler, Owed, Aloof
  <2> HIDE DEF finish
  <2>6. HandlersAreFit(t)'
    BY <2>1, <2>3, <2>4, <2>5, AloofStayFit DEF SetsOff
  <2>7. SameRuns(t) /\ RunsAreFit(t)'
    BY <1>3, <2>1, RowsStayFit DEF SameRuns
  <2>8. CASE ~s.fresh /\ start'[t].at = "idle" /\ start'[t].fresh = FALSE
    BY <1>3, <2>1, <2>6, <2>7, <2>8, RowsStayFit DEF CardIsFit
  <2>9. CASE s.fresh /\ start'[t].at = "discard" /\ SameStart(t)
    <3>1. Thread(t)' = Thread(t) /\ Edge(t)' = Edge(t)
      BY <2>1, <2>9 DEF Thread, SameStart, Edge
    <3>2. StartIsFit(t)'
      BY <1>3, <2>1, <2>9, <3>1 DEF StartIsFit, Made, Reserved, SameStart
    <3> QED
      BY <2>6, <2>7, <3>2 DEF CardIsFit
  <2> QED
    BY <2>1, <2>8, <2>9
<1>10. CASE Discard(t)
  <2> DEFINE gone == Handler("deleted", Thread(t), "none")
  <2>1. /\ s.at = "discard" /\ start'[t].at = "idle" /\ start'[t].fresh = FALSE /\ SameCard(t)
        /\ run'[Thread(t)].status = "discarded" /\ run'[Thread(t)].holds = run[Thread(t)].holds
        /\ \A i \in 0 .. Threads : i # s.thread => run'[<<t, i>>] = run[<<t, i>>]
        /\ SetsOff(t, {gone} \union Owed(t))
    BY <1>10, DiscardIs
  <2>2. s.at \in Made /\ s.fresh
    BY <2>1 DEF Made, CardIsSound
  <2>3. (\A h \in handlers : h.of[1] = t => Aloof(h)) /\ \A i \in 0 .. Threads : ~Works(<<t, i>>)
    BY <2>2, MadeIsAloof
  <2>4. s.thread # s.found /\ run[Thread(t)].status = "pending" /\ card[t].run = s.found
        /\ (s.found # 0 => run[<<t, s.found>>].status # "none")
    BY <1>3, <2>1, <2>2 DEF StartIsFit
  <2>5. Edge(t)' = <<t, s.found>> /\ run'[<<t, s.found>>] = run[<<t, s.found>>] /\ Thread(t) = <<t, s.thread>>
        /\ Thread(t) # <<t, s.found>>
    BY <1>1, <2>1, <2>4 DEF Edge, SameCard, Thread
  <2>6. RunsAreFit(t)'
    <3>1. ~run[<<t, s.thread>>].holds
      BY <1>1, <1>3, <2>4, <2>5 DEF RunsAreFit, Ended
    <3> QED
      BY <1>1, <1>3, <2>1, <2>5, <3>1 DEF RunsAreFit, Works
  <2>7. StartIsFit(t)'
    BY <2>1, <2>4, <2>5 DEF StartIsFit, Made, Reserved, SameCard
  <2>8. gone.kind = "deleted" /\ gone.at = "read" /\ gone.of = Thread(t)
    BY DEF Handler
  <2> HIDE DEF gone
  <2>9. \A h \in handlers' : h.of[1] = t => Aloof(h) \/ h = gone
    <3>1. \A h \in Owed(t) : Aloof(h)
      BY DEF Owed, Aloof
    <3> QED
      BY <2>1, <2>3, <3>1 DEF SetsOff
  <2>10. ~Works(Edge(t))'
    BY <1>1, <2>3, <2>5 DEF Works
  <2>11. HandlersAreFit(t)'
    <3>1. ASSUME NEW h \in handlers', h.of[1] = t PROVE Alone(t, h)'
      BY <2>8, <2>9, <2>10, <3>1 DEF Aloof, Alone
    <3>2. ASSUME NEW d \in handlers', NEW g \in handlers', d.of[1] = t, d.kind = "deleted", g.of[1] = t
          PROVE  Apart(t, d, g)'
      <4>1. d = gone
        BY <2>9, <3>2 DEF Aloof
      <4> QED
        BY <2>5, <2>8, <2>9, <3>2, <4>1 DEF Aloof, Apart
    <3> QED
      BY <3>1, <3>2 DEF HandlersAreFit
  <2> QED
    BY <2>6, <2>7, <2>11 DEF CardIsFit
<1> QED
  BY <1>2, <1>4, <1>5, <1>6, <1>7, <1>8, <1>9, <1>10

\* A handler goes on with what it has seen.
Later(h, at, saw) == [h EXCEPT !.at = at, !.saw = saw]

\* A handler that goes on is about the same run.
LEMMA NextIs ==
  ASSUME RowsAreTyped, NEW h \in handlers, NEW at, NEW saw
  PROVE  LET n == Later(h, at, saw) IN
         n.kind = h.kind /\ n.of = h.of /\ n.how = h.how /\ n.at = at /\ n.saw = saw
BY HandlerIsOf DEF Later, HandlerType

\* A handler touches neither a run nor a start, and takes no announcement
\* back.
LEMMA HandlerStepIs ==
  ASSUME RowsAreTyped, NEW h \in handlers,
         \/ SettleReads(h) \/ SettleStamps(h) \/ SettleMoves(h) \/ FollowReads(h) \/ FollowMoves(h)
         \/ ReleaseReads(h) \/ ReleaseUnlinks(h) \/ Finishes(h) \/ Rechecks(h) \/ OwedReconcile(h)
  PROVE  /\ h.of[1] \in Cards /\ run' = run /\ start' = start /\ Remembers(h.of[1])
         /\ handlers \ {h} \subseteq handlers'
<1> USE DEF startVars
<1>1. h.of[1] \in Cards
  BY HandlerIsOf
<1>2. run' = run /\ start' = start
  BY DEF SettleReads, SettleStamps, SettleMoves, FollowReads, FollowMoves,
         ReleaseReads, ReleaseUnlinks, Finishes, Rechecks, OwedReconcile
<1>3. handlers \ {h} \subseteq handlers'
  BY DEF SettleReads, SettleStamps, SettleMoves, FollowReads, FollowMoves,
         ReleaseReads, ReleaseUnlinks, Finishes, Rechecks, OwedReconcile, Dropped, GoesOn, GoesOnTo
<1>4. Remembers(h.of[1])
  <2>1. CASE Finishes(h) \/ Rechecks(h)
    <3>1. card' = card /\ byHand' = byHand /\ (UNCHANGED told \/ Announce(h.of[1]))
      BY <2>1 DEF Finishes, Rechecks, JudgeFinish
    <3>2. Announce(h.of[1]) => told'[h.of[1]] = FinishedIn(card, run, h.of[1])
      BY <1>1 DEF Announce, RowsAreTyped, Finished
    <3> QED
      BY <1>2, <3>1, <3>2 DEF Remembers
  <2>2. CASE ~Finishes(h) /\ ~Rechecks(h)
    <3>1. HistoryKept \/ (UNCHANGED told /\ UNCHANGED byHand)
      BY <2>2 DEF SettleReads, SettleStamps, SettleMoves, FollowReads, FollowMoves,
         ReleaseReads, ReleaseUnlinks, OwedReconcile
    <3> QED
      BY <1>1, <3>1, HistoryRemembers
  <2> QED
    BY <2>1, <2>2
<1> QED
  BY <1>1, <1>2, <1>3, <1>4

\* A card whose handler goes on, or is done, stays fit.
LEMMA HandlerGoesFit ==
  ASSUME RowsAreTyped, RowsAreTyped', NEW t \in Cards, CardIsFit(t), run' = run, start' = start,
         card'[t].run = card[t].run,
         \/ card'[t].column = card[t].column
         \/ /\ card'[t].column \in {"in_progress", "failed"} \/ start[t].at \notin Reserved
            /\ \A d \in handlers : d \in handlers' /\ d.of[1] = t /\ d.kind = "deleted" => d.at # "unlink",
         NEW new, SetsOff(t, new),
         \A n \in new : n \in handlers' /\ n.of[1] = t =>
           /\ Alone(t, n)'
           /\ \A d \in handlers : d \in handlers' /\ d.of[1] = t /\ d.kind = "deleted" => Apart(t, d, n)
           /\ n.kind = "deleted" => \A g \in handlers' : g.of[1] = t => Apart(t, n, g)
  PROVE  CardIsFit(t)'
<1>1. SameRuns(t) /\ NoFurther(t)
  BY DEF SameRuns, NoFurther, Starting
<1>2. start'[t] = start[t]
  OBVIOUS
<1>3. \/ card'[t].column = card[t].column \/ card'[t].column \in {"in_progress", "failed"}
      \/ start[t].at \notin Reserved
  OBVIOUS
<1>4. RunsAreFit(t)' /\ StartIsFit(t)'
  BY <1>1, <1>2, <1>3, RowsStayFit DEF CardIsFit
<1>5. HandlersAreFit(t)'
  BY <1>1, HandlersStayFit DEF CardIsFit
<1> QED
  BY <1>4, <1>5 DEF CardIsFit

\* The handlers keep their card fit.
LEMMA HandlerStepsFit ==
  ASSUME RowsAreTyped, RowsAreTyped', NEW h \in handlers, CardIsSound(h.of[1]), CardIsFit(h.of[1]),
         \/ SettleReads(h) \/ SettleStamps(h) \/ SettleMoves(h) \/ FollowReads(h) \/ FollowMoves(h)
         \/ ReleaseReads(h) \/ ReleaseUnlinks(h) \/ Finishes(h) \/ Rechecks(h) \/ OwedReconcile(h)
  PROVE  CardIsFit(h.of[1])'
<1> DEFINE t == h.of[1]
<1>1. /\ t \in Cards /\ h \in HandlerType /\ h.of \in Edges /\ h.of = <<t, h.of[2]>> /\ h.of[2] \in 0 .. Threads
      /\ Edge(t) = <<t, card[t].run>> /\ card[t] \in CardType
  BY HandlerIsOf, EdgesAre DEF Edge, Edges
<1>2. run' = run /\ start' = start
  BY HandlerStepIs
<1>3. /\ RunsAreFit(t) /\ StartIsFit(t) /\ HandlersAreFit(t) /\ Alone(t, h)
      /\ \A g \in handlers : g.of[1] = t => Alone(t, g)
      /\ \A d \in handlers : d.of[1] = t /\ d.kind = "deleted" => Apart(t, d, h) /\ ~Starting(t) /\ Purged(d.of)
  BY <1>1 DEF CardIsFit, HandlersAreFit, CardIsSound
<1>4. ASSUME SameCard(t), handlers' \subseteq handlers PROVE CardIsFit(t)'
  <2>1. SetsOff(t, {}) /\ card'[t].run = card[t].run /\ card'[t].column = card[t].column
    BY <1>4 DEF SetsOff, SameCard
  <2> QED
    BY <1>1, <1>2, <2>1, HandlerGoesFit
<1>5. ASSUME SameCard(t), NEW n, handlers' = (handlers \ {h}) \union {n}, n.of[1] = t => Alone(t, n)',
             \A d \in handlers : d # h /\ d.of[1] = t /\ d.kind = "deleted" => Apart(t, d, n),
             n.kind # "deleted"
      PROVE  CardIsFit(t)'
  <2>1. SetsOff(t, {n}) /\ card'[t].run = card[t].run /\ card'[t].column = card[t].column
    BY <1>5 DEF SetsOff, SameCard
  <2>2. \A m \in {n} : m \in handlers' /\ m.of[1] = t =>
           /\ Alone(t, m)'
           /\ \A d \in handlers : d \in handlers' /\ d.of[1] = t /\ d.kind = "deleted" => Apart(t, d, m)
           /\ m.kind = "deleted" => \A g \in handlers' : g.of[1] = t => Apart(t, m, g)
    BY <1>5
  <2> QED
    BY <1>1, <1>2, <2>1, <2>2, HandlerGoesFit
<1>6. ASSUME card' = card PROVE SameCard(t) /\ Edge(t)' = Edge(t)
  BY <1>6 DEF SameCard, Edge
<1>7. ASSUME NEW to, card' = MovedTo(t, to) \/ card' = card, handlers' = handlers \ {h},
             to \in {"in_progress", "failed"} \/ start[t].at \notin Reserved,
             \A d \in handlers : d # h /\ d.of[1] = t /\ d.kind = "deleted" => d.at # "unlink"
      PROVE  CardIsFit(t)'
  <2>1. SetsOff(t, {}) /\ card'[t].run = card[t].run /\ (card'[t].column = card[t].column \/ card'[t].column = to)
    BY <1>1, <1>7, WritesOfCard DEF SetsOff
  <2>2. \A d \in handlers : d \in handlers' /\ d.of[1] = t /\ d.kind = "deleted" => d.at # "unlink"
    BY <1>7
  <2>3. \/ card'[t].column = card[t].column
        \/ /\ card'[t].column \in {"in_progress", "failed"} \/ start[t].at \notin Reserved
           /\ \A d \in handlers : d \in handlers' /\ d.of[1] = t /\ d.kind = "deleted" => d.at # "unlink"
    BY <1>7, <2>1, <2>2
  <2> QED
    BY <1>1, <1>2, <2>1, <2>3, HandlerGoesFit
<1>8. CASE SettleReads(h)
  <2>1. card' = card /\ h.kind \in {"ended", "reconcile"} /\ h.at = "read"
    BY <1>8 DEF SettleReads
  <2>4. SameCard(t) /\ Edge(t)' = Edge(t)
    BY <1>6, <2>1
  <2>2. CASE Dropped(h)
    BY <1>4, <2>4, <2>2 DEF Dropped
  <2>3. CASE GoesOn(h, "stamp", card[t].column) /\ Names(h) /\ ~(h.kind = "reconcile" /\ Starting(t))
    <3>0. PICK n : n = Later(h, "stamp", card[t].column)
      OBVIOUS
    <3>1. handlers' = (handlers \ {h}) \union {n}
      BY <2>3, <3>0 DEF GoesOn, GoesOnTo, Later
    <3>2. n.kind = h.kind /\ n.of = h.of /\ n.how = h.how /\ n.at = "stamp"
      BY <3>0, NextIs
    <3>3. h.of = Edge(t)
      BY <1>1, <2>3 DEF Names, NamedBy
    <3>4. Alone(t, n)'
      BY <1>2, <1>3, <2>4, <2>1, <2>3, <3>2, <3>3 DEF Alone, Starting, Works
    <3>5. \A d \in handlers : d # h /\ d.of[1] = t /\ d.kind = "deleted" => Apart(t, d, n)
      BY <1>3, <2>1, <3>2 DEF Apart
    <3>6. n.kind # "deleted"
      BY <2>1, <3>2
    <3> QED
      BY <1>5, <2>4, <3>1, <3>4, <3>5, <3>6
  <2> QED
    BY <1>8, <2>1, <2>2, <2>3 DEF SettleReads
<1>9. CASE SettleStamps(h)
  <2>1. h.kind \in {"ended", "reconcile"} /\ h.at = "stamp"
    BY <1>9 DEF SettleStamps
  <2>2. SameCard(t)
    <3>1. \/ card' = card \/ card' = [card EXCEPT ![t].stopped = "user"]
          \/ card' = [card EXCEPT ![t].stopped = "crash"]
      BY <1>9 DEF SettleStamps
    <3>2. ASSUME NEW s, card' = [card EXCEPT ![t].stopped = s] PROVE SameCard(t)
      BY <1>1, <3>2, WritesOfCard DEF SameCard
    <3> QED
      BY <1>6, <3>1, <3>2
  <2>3. Edge(t)' = Edge(t)
    BY <2>2 DEF Edge, SameCard
  <2>4. CASE Dropped(h)
    BY <1>4, <2>2, <2>4 DEF Dropped
  <2>5. CASE GoesOnTo(h, Handler("finish", h.of, "none"))
    <3> DEFINE n == Handler("finish", h.of, "none")
    <3>1. n.kind = "finish" /\ n.at = "read" /\ n.of = h.of
      BY DEF Handler
    <3>2. handlers' = (handlers \ {h}) \union {n}
      BY <2>5 DEF GoesOnTo
    <3> HIDE DEF n
    <3>3. Alone(t, n)'
      BY <3>1 DEF Alone
    <3>4. h.of = Edge(t)
      BY <1>3, <2>1 DEF Alone
    <3>5. \A d \in handlers : d # h /\ d.of[1] = t /\ d.kind = "deleted" => Apart(t, d, n)
      BY <1>3, <2>1, <3>1, <3>4 DEF Apart
    <3> QED
      BY <1>5, <2>2, <3>1, <3>2, <3>3, <3>5
  <2>6. CASE Worked(h) /\ ColumnAfter(h) # "none" /\ GoesOn(h, "move", ColumnAfter(h))
    <3>0. PICK n : n = Later(h, "move", ColumnAfter(h))
      OBVIOUS
    <3>1. handlers' = (handlers \ {h}) \union {n}
      BY <2>6, <3>0 DEF GoesOn, GoesOnTo, Later
    <3>2. n.kind = h.kind /\ n.of = h.of /\ n.how = h.how /\ n.at = "move" /\ n.saw = ColumnAfter(h)
      BY <3>0, NextIs
    <3>3. n.saw \in {"todo", "failed"}
      BY <2>6, <3>2 DEF ColumnAfter, Intake
    <3>4. h.kind = "ended" /\ h.how # "cancelled" => n.saw = "failed"
      BY <1>3, <2>6, <3>2 DEF ColumnAfter, Interrupted, Alone
    <3>5. Alone(t, n)'
      BY <1>2, <1>3, <2>1, <2>3, <3>2, <3>3, <3>4 DEF Alone, Starting, Works
    <3>6. \A d \in handlers : d # h /\ d.of[1] = t /\ d.kind = "deleted" => Apart(t, d, n)
      BY <1>3, <2>1, <3>2 DEF Apart
    <3>7. n.kind # "deleted"
      BY <2>1, <3>2
    <3> QED
      BY <1>5, <2>2, <3>1, <3>5, <3>6, <3>7
  <2> QED
    BY <1>9, <2>4, <2>5, <2>6 DEF SettleStamps
<1>10. CASE SettleMoves(h)
  <2>1. /\ h.kind \in {"ended", "reconcile", "deleted"} /\ h.at = "move" /\ handlers' = handlers \ {h}
        /\ (card' = MovedTo(t, h.saw) \/ card' = card)
    BY <1>10 DEF SettleMoves, Dropped
  <2>2. h.saw \in {"in_progress", "failed"} \/ start[t].at \notin Reserved
    BY <1>3, <2>1 DEF Alone, Starting, Reserved
  <2>3. \A d \in handlers : d # h /\ d.of[1] = t /\ d.kind = "deleted" => d.at # "unlink"
    <3> SUFFICES ASSUME NEW d \in handlers, d # h, d.of[1] = t, d.kind = "deleted", d.at = "unlink" PROVE FALSE
      OBVIOUS
    <3>1. Apart(t, d, h) /\ Alone(t, d)
      BY <1>3
    <3> QED
      BY <1>3, <2>1, <3>1 DEF Apart, Alone
  <2> QED
    BY <1>7, <2>1, <2>2, <2>3
<1>11. CASE FollowReads(h)
  <2>1. card' = card /\ h.kind = "working"
    BY <1>11 DEF FollowReads
  <2>4. SameCard(t) /\ Edge(t)' = Edge(t)
    BY <1>6, <2>1
  <2>2. CASE Dropped(h)
    BY <1>4, <1>6, <2>1, <2>2 DEF Dropped
  <2>3. CASE GoesOn(h, "move", "in_progress")
    <3>0. PICK n : n = Later(h, "move", "in_progress")
      OBVIOUS
    <3>1. handlers' = (handlers \ {h}) \union {n}
      BY <2>3, <3>0 DEF GoesOn, GoesOnTo, Later
    <3>2. n.kind = h.kind /\ n.of = h.of
      BY <3>0, NextIs
    <3>3. Alone(t, n)'
      BY <1>2, <1>3, <2>4, <2>1, <3>2 DEF Alone, Works
    <3>4. \A d \in handlers : d # h /\ d.of[1] = t /\ d.kind = "deleted" => Apart(t, d, n)
      BY <2>1, <3>2 DEF Apart
    <3> QED
      BY <1>5, <1>6, <2>1, <3>1, <3>2, <3>3, <3>4
  <2> QED
    BY <1>11, <2>2, <2>3 DEF FollowReads
<1>12. CASE FollowMoves(h)
  <2>1. h.kind = "working" /\ handlers' = handlers \ {h} /\ (card' = MovedTo(t, "in_progress") \/ card' = card)
    BY <1>12 DEF FollowMoves, Dropped
  <2>2. \A d \in handlers : d # h /\ d.of[1] = t /\ d.kind = "deleted" => d.at # "unlink"
    <3> SUFFICES ASSUME NEW d \in handlers, d # h, d.of[1] = t, d.kind = "deleted", d.at = "unlink" PROVE FALSE
      OBVIOUS
    <3>1. Purged(d.of) /\ Alone(t, d)
      BY <1>3
    <3> QED
      BY <1>3, <2>1, <3>1 DEF Alone, Works, Purged
  <2> QED
    BY <1>7, <2>1, <2>2
<1>13. CASE ReleaseReads(h)
  <2>1. card' = card /\ h.kind = "deleted" /\ h.at = "read"
    BY <1>13 DEF ReleaseReads
  <2>4. SameCard(t) /\ Edge(t)' = Edge(t)
    BY <1>6, <2>1
  <2>2. CASE Dropped(h)
    BY <1>4, <2>4, <2>2 DEF Dropped
  <2>3. CASE NamedBy(h.of) /\ GoesOn(h, "unlink", card[t].column)
    <3>0. PICK n : n = Later(h, "unlink", card[t].column)
      OBVIOUS
    <3>1. handlers' = (handlers \ {h}) \union {n}
      BY <2>3, <3>0 DEF GoesOn, GoesOnTo, Later
    <3>2. n.kind = "deleted" /\ n.of = h.of /\ n.at = "unlink" /\ n.saw = card[t].column
      BY <2>1, <3>0, NextIs
    <3>3. h.of = Edge(t) /\ card[t].run # 0
      BY <1>1, <2>3 DEF NamedBy
    <3>4. Alone(t, n)'
      BY <2>1, <2>4, <3>2, <3>3 DEF Alone
    <3>5. \A d \in handlers : d.of[1] = t /\ d.kind = "deleted" /\ d.of = n.of => d = h
      BY <1>1, <1>3, <2>1, <3>2 DEF Apart
    <3>6. \A d \in handlers : d \in handlers' /\ d.of[1] = t /\ d.kind = "deleted" => Apart(t, d, n)
      <4> SUFFICES ASSUME NEW d \in handlers, d \in handlers', d.of[1] = t, d.kind = "deleted" PROVE Apart(t, d, n)
        OBVIOUS
      <4>1. CASE d = h
        <5>1. d = n
          BY <3>1, <4>1
        <5> QED
          BY <3>2, <5>1 DEF Apart
      <4>2. CASE d # h
        <5>1. d.of # n.of
          BY <3>5, <4>2
        <5> QED
          BY <3>2, <5>1 DEF Apart
      <4> QED
        BY <4>1, <4>2
    <3>7. \A g \in handlers' : g.of[1] = t => Apart(t, n, g)
      <4> SUFFICES ASSUME NEW g \in handlers', g.of[1] = t PROVE Apart(t, n, g)
        OBVIOUS
      <4>1. CASE g = n
        BY <3>2, <4>1 DEF Apart
      <4>2. CASE g \in handlers /\ g # h
        <5>1. Apart(t, h, g)
          BY <1>1, <2>1, <4>2 DEF CardIsFit, HandlersAreFit
        <5> QED
          BY <3>2, <3>3, <4>2, <5>1 DEF Apart
      <4> QED
        BY <3>1, <4>1, <4>2
    <3>8. SetsOff(t, {n}) /\ card'[t].run = card[t].run /\ card'[t].column = card[t].column
      BY <2>1, <3>1 DEF SetsOff
    <3>9. \A m \in {n} : m \in handlers' /\ m.of[1] = t =>
           /\ Alone(t, m)'
           /\ \A d \in handlers : d \in handlers' /\ d.of[1] = t /\ d.kind = "deleted" => Apart(t, d, m)
           /\ m.kind = "deleted" => \A g \in handlers' : g.of[1] = t => Apart(t, m, g)
      BY <3>4, <3>6, <3>7
    <3> QED
      BY <1>1, <1>2, <3>8, <3>9, HandlerGoesFit
  <2> QED
    BY <1>13, <2>1, <2>2, <2>3 DEF ReleaseReads
<1>14. CASE ReleaseUnlinks(h)
  <2>0. PICK n : n = Later(h, "move", "todo")
    OBVIOUS
  <2>1. /\ h.kind = "deleted" /\ h.at = "unlink" /\ card' = [card EXCEPT ![t].run = 0]
        /\ handlers' \subseteq (handlers \ {h}) \union {n}
    BY <1>14, <2>0 DEF ReleaseUnlinks, GoesOn, GoesOnTo, Dropped, Later
  <2>2. n.kind = "deleted" /\ n.of = h.of /\ n.at = "move" /\ n.saw = "todo"
    BY <2>0, <2>1, NextIs
  <2>3. card'[t].run = 0 /\ card'[t].column = card[t].column /\ Edge(t)' = <<t, 0>>
    BY <1>1, <2>1, WritesOfCard DEF Edge
  <2>4. ~Starting(t) /\ Purged(h.of) /\ h.of = Edge(t) /\ card[t].run # 0
    BY <1>3, <2>1 DEF Alone
  <2>5. \A g \in handlers : g.of[1] = t => Apart(t, h, g)
    BY <1>1, <2>1 DEF CardIsFit, HandlersAreFit
  <2>6. ASSUME NEW g \in handlers, g # h, g.of[1] = t
        PROVE  /\ g.kind \notin {"working", "ended", "reconcile"}
               /\ g.kind = "deleted" => g.at = "read" /\ g.of # h.of /\ Purged(g.of)
    <3>1. Alone(t, g) /\ Apart(t, h, g) /\ g \in HandlerType
      BY <1>3, <2>5, <2>6, HandlerIsOf
    <3>2. g.kind \notin {"ended", "reconcile"} /\ (g.kind = "deleted" => g.of # h.of)
      BY <2>4, <2>6, <3>1 DEF Apart
    <3>3. g.kind # "working"
      BY <2>4, <3>1 DEF Alone, Works, Purged
    <3>4. g.kind = "deleted" => g.at \notin {"stamp", "unlink", "move"}
      BY <2>4, <3>1, <3>2 DEF Alone
    <3> QED
      BY <1>3, <2>6, <3>1, <3>2, <3>3, <3>4 DEF HandlerType
  <2>7. ASSUME NEW g \in handlers', g.of[1] = t PROVE Alone(t, g)'
    <3>1. CASE g = n
      BY <2>2, <2>3, <3>1 DEF Alone
    <3>2. CASE g \in handlers /\ g # h
      <4>1. Alone(t, g) /\ g.kind \notin {"working", "ended", "reconcile"} /\ (g.kind = "deleted" => g.at = "read")
        BY <1>3, <2>6, <2>7, <3>2
      <4> QED
        BY <4>1 DEF Alone
    <3> QED
      BY <2>1, <2>7, <3>1, <3>2
  <2>8. ASSUME NEW d \in handlers', NEW g \in handlers', d.of[1] = t, d.kind = "deleted", g.of[1] = t
        PROVE  Apart(t, d, g)'
    <3>1. d.of # <<t, 0>>
      <4>1. d = n \/ (d \in handlers /\ d # h)
        BY <2>1
      <4>2. Purged(d.of)
        BY <2>2, <2>4, <2>6, <2>8, <4>1
      <4> QED
        BY <1>3, <4>2 DEF CardIsSound, Purged
    <3>2. g.kind \notin {"ended", "reconcile"}
      BY <2>1, <2>2, <2>6, <2>8
    <3>3. g.kind = "deleted" /\ g.of = d.of => g = d
      <4>1. CASE d = n
        BY <2>1, <2>2, <2>6, <2>8, <4>1
      <4>2. CASE d \in handlers /\ d # h /\ g = n
        BY <2>2, <2>6, <2>8, <4>2
      <4>3. CASE d \in handlers /\ d # h /\ g \in handlers
        BY <1>3, <2>8, <4>3 DEF HandlersAreFit, Apart
      <4> QED
        BY <2>1, <4>1, <4>2, <4>3
    <3> QED
      BY <2>3, <3>1, <3>2, <3>3 DEF Apart
  <2>9. SameRuns(t) /\ RunsAreFit(t)'
    BY <1>2, <1>3 DEF SameRuns, RunsAreFit, Works
  <2>10. StartIsFit(t)'
    BY <1>2, <1>3, <2>3, <2>4 DEF StartIsFit, Starting, Made, Reserved
  <2> QED
    BY <2>7, <2>8, <2>9, <2>10 DEF CardIsFit, HandlersAreFit
<1>15. CASE Finishes(h)
  BY <1>4, <1>6, <1>15 DEF Finishes, Dropped
<1>16. CASE Rechecks(h)
  BY <1>4, <1>6, <1>16 DEF Rechecks, Dropped
<1>17. CASE OwedReconcile(h)
  <2>1. card' = card
    BY <1>17 DEF OwedReconcile
  <2>5. SameCard(t) /\ Edge(t)' = Edge(t)
    BY <1>6, <2>1
  <2>2. CASE handlers' = handlers \ {h}
    BY <1>4, <2>5, <2>2
  <2>3. CASE /\ run[Edge(t)].status \in Ended
             /\ handlers' = (handlers \ {h}) \union {Handler("reconcile", Edge(t), run[Edge(t)].status)}
    <3>0. PICK n : n = Handler("reconcile", Edge(t), run[Edge(t)].status)
      OBVIOUS
    <3>1. n.kind = "reconcile" /\ n.at = "read" /\ n.of = Edge(t)
      BY <3>0 DEF Handler
    <3>4. handlers' = (handlers \ {h}) \union {n}
      BY <2>3, <3>0
    <3>2. Alone(t, n)'
      BY <1>2, <2>5, <2>3, <3>1 DEF Alone, Works, Ended
    <3>3. \A d \in handlers : d # h /\ d.of[1] = t /\ d.kind = "deleted" => Apart(t, d, n)
      <4> SUFFICES ASSUME NEW d \in handlers, d.of[1] = t, d.kind = "deleted" PROVE Apart(t, d, n)
        OBVIOUS
      <4>1. d.of # Edge(t)
        BY <1>3, <2>3 DEF Purged, Ended
      <4>2. d.at = "read"
        <5>1. Alone(t, d) /\ d \in HandlerType
          BY <1>3, HandlerIsOf
        <5>2. d.at # "unlink"
          BY <4>1, <5>1 DEF Alone
        <5>3. card[t].run # 0
          BY <1>1, <2>3 DEF CardIsSound, Ended
        <5>4. d.at \notin {"move", "stamp"}
          BY <1>3, <5>1, <5>3 DEF Alone, CardIsSound
        <5> QED
          BY <5>1, <5>2, <5>4 DEF HandlerType
      <4> QED
        BY <3>1, <4>1, <4>2 DEF Apart
    <3> QED
      BY <1>5, <2>5, <3>4, <3>1, <3>2, <3>3
  <2>4. \/ handlers' = handlers \ {h}
        \/ /\ run[Edge(t)].status \in Ended
           /\ handlers' = (handlers \ {h}) \union {Handler("reconcile", Edge(t), run[Edge(t)].status)}
    BY <1>17 DEF OwedReconcile
  <2> QED
    BY <2>2, <2>3, <2>4
<1> QED
  BY <1>8, <1>9, <1>10, <1>11, <1>12, <1>13, <1>14, <1>15, <1>16, <1>17

-----------------------------------------------------------------------------

\* Nobody starts the card, and no end, deletion or reconcile of it is heard.
AtPeace(t) == ~Starting(t) /\ \A h \in handlers : h.of[1] = t => h.kind \notin {"ended", "deleted", "reconcile"}

\* A start is claimed on a card at peace.
LEMMA ClaimIs ==
  ASSUME RowsAreTyped, Calm, NEW t \in Cards, PostStart(t) \/ PressRun(t)
  PROVE  /\ SameCard(t) /\ run' = run /\ handlers' = handlers /\ withheld' = withheld /\ Remembers(t)
         /\ \/ start'[t] = start[t]
            \/ AtPeace(t) /\ start'[t].at = "read" /\ start'[t].fresh = FALSE
<1>1. card' = card /\ run' = run /\ handlers' = handlers /\ withheld' = withheld /\ told' = told /\ byHand' = byHand
  BY DEF PostStart, PressRun, boardVars
<1>2. SameCard(t) /\ Remembers(t)
  BY <1>1, HistoryRemembers DEF SameCard
<1>3. ASSUME NEW auto, NEW from, Claim(t, auto, from)
      PROVE  start'[t].at = "read" /\ start'[t].fresh = FALSE
  <2>1. start'[t] = [NoStart EXCEPT !.at = "read", !.auto = auto, !.from = from]
    BY <1>3 DEF Claim, RowsAreTyped
  <2> QED
    BY <2>1 DEF NoStart
<1>4. Settled(t) => AtPeace(t)
  BY CalmIsThrough DEF AtPeace
<1>5. \/ start' = start
      \/ Settled(t) /\ Claim(t, TRUE, Intake)
      \/ Settled(t) /\ Claim(t, FALSE, card[t].column)
  BY DEF PostStart, PressRun
<1>6. start'[t] = start[t] \/ (AtPeace(t) /\ start'[t].at = "read" /\ start'[t].fresh = FALSE)
  BY <1>3, <1>4, <1>5
<1> QED
  BY <1>1, <1>2, <1>6

\* A board is loaded.
LEMMA LoadBoardIs ==
  ASSUME RowsAreTyped, NEW t \in Cards, LoadBoard(t)
  PROVE  /\ SameCard(t) /\ run' = run /\ start' = start /\ withheld' = withheld /\ Remembers(t)
         /\ run[Edge(t)].status \in Ended
         /\ handlers' = handlers \union {Handler("reconcile", Edge(t), run[Edge(t)].status)}
<1>1. card' = card /\ run' = run /\ start' = start /\ withheld' = withheld /\ told' = told /\ byHand' = byHand
      /\ run[Edge(t)].status \in Ended
      /\ handlers' = handlers \union {Handler("reconcile", Edge(t), run[Edge(t)].status)}
  BY DEF LoadBoard, startVars
<1> QED
  BY <1>1, HistoryRemembers DEF SameCard

\* A person drags the card.
LEMMA DragIs ==
  ASSUME RowsAreTyped, RowsAreTyped', Calm, NEW t \in Cards, NEW to \in Columns, Drag(t, to)
  PROVE  /\ card'[t].column = to /\ to # card[t].column /\ card'[t].run = card[t].run
         /\ run' = run /\ start' = start /\ withheld' = withheld /\ Remembers(t)
         /\ (byHand'[t] <=> ~DrawnWorking(t)')
         /\ ~Starting(t) /\ (\A h \in handlers : h.of[1] = t => h.kind # "deleted")
         /\ handlers' = handlers \union FinishCheck(t, to)
<1>1. card' = MovedTo(t, to) /\ card[t].column # to /\ run' = run /\ start' = start /\ withheld' = withheld
      /\ handlers' = handlers \union FinishCheck(t, to) /\ ToldKept
      /\ byHand' = [byHand EXCEPT ![t] = ~DrawnWorking(t)']
  BY DEF Drag, startVars
<1>2. card'[t].column = to /\ card'[t].run = card[t].run
  BY <1>1, WritesOfCard
<1>3. ~Starting(t) /\ (\A h \in handlers : h.of[1] = t => h.kind # "deleted")
  BY CalmIsThrough DEF Drag
<1>4. byHand'[t] <=> ~DrawnWorking(t)'
  BY <1>1 DEF RowsAreTyped
<1>5. Remembers(t)
  BY <1>1, <1>2 DEF ToldKept, Remembers, RowsAreTyped
<1> QED
  BY <1>1, <1>2, <1>3, <1>4, <1>5

\* The runs of a card but one.
OtherRunsStay(r) == \A i \in 0 .. Threads : <<r[1], i>> # r => run'[<<r[1], i>>] = run[<<r[1], i>>]

\* What a write of one run's row leaves of the others.
LEMMA WritesOfRun ==
  ASSUME RowsAreTyped, NEW r \in Runs, NEW x, run' = [run EXCEPT ![r] = x]
  PROVE  /\ r \in Edges /\ r[1] \in Cards /\ r = <<r[1], r[2]>> /\ r[2] \in 1 .. Threads /\ r[2] # 0
         /\ run[r] \in RunType /\ run'[r] = x /\ OtherRunsStay(r)
<1>1. r \in Edges /\ r[1] \in Cards /\ r = <<r[1], r[2]>> /\ r[2] \in 1 .. Threads
  BY RunsAreEdges DEF Runs
<1> QED
  BY <1>1 DEF RowsAreTyped, OtherRunsStay

\* A chat goes on.
LEMMA FollowUpIs ==
  ASSUME RowsAreTyped, RowsAreTyped', Calm, NEW r \in Runs, FollowUp(r)
  PROVE  /\ r \in Edges /\ r[1] \in Cards /\ r = Edge(r[1]) /\ card[r[1]].run # 0
         /\ SameCard(r[1]) /\ start' = start /\ withheld' = withheld
         /\ AtPeace(r[1]) /\ (\A h \in handlers : h.of = r => h.at # "read" /\ h.kind # "working")
         /\ run[r].status \in Ended
         /\ run'[r].status = "running" /\ run'[r].cut = "no" /\ run'[r].holds = run[r].holds /\ OtherRunsStay(r)
         /\ handlers' = handlers \union Broadcast("working", r, "none")
         /\ (byHand'[r[1]] <=> card[r[1]].column \notin {"failed", "in_progress"})
<1>1. /\ run' = [run EXCEPT ![r] = [run[r] EXCEPT !.status = "running", !.cut = "no", !.auto = FALSE]]
      /\ card' = card /\ start' = start /\ withheld' = withheld
      /\ handlers' = handlers \union Broadcast("working", r, "none") /\ run[r].status \in Ended
      /\ NamedBy(r) /\ Settled(r[1]) /\ Heard(r)
      /\ byHand' = [byHand EXCEPT ![r[1]] = card[r[1]].column \notin {"failed", "in_progress"}]
  BY DEF FollowUp, startVars
<1>2. /\ r \in Edges /\ r[1] \in Cards /\ r = <<r[1], r[2]>> /\ r[2] # 0 /\ OtherRunsStay(r)
      /\ run[r] \in RunType /\ run'[r] = [run[r] EXCEPT !.status = "running", !.cut = "no", !.auto = FALSE]
  BY <1>1, WritesOfRun
<1>3. run'[r].status = "running" /\ run'[r].cut = "no" /\ run'[r].holds = run[r].holds
  BY <1>2 DEF RunType
<1>4. r = Edge(r[1]) /\ card[r[1]].run # 0
  BY <1>1, <1>2 DEF NamedBy, Edge
<1>5. AtPeace(r[1]) /\ (\A h \in handlers : h.of = r => h.at # "read" /\ h.kind # "working")
  BY <1>1, <1>2, CalmIsThrough DEF AtPeace
<1>6. byHand'[r[1]] <=> card[r[1]].column \notin {"failed", "in_progress"}
  BY <1>1, <1>2 DEF RowsAreTyped
<1> QED
  BY <1>1, <1>2, <1>3, <1>4, <1>5, <1>6 DEF SameCard

\* A chat is deleted.
LEMMA DeleteChatIs ==
  ASSUME RowsAreTyped, Calm, NEW r \in Runs, DeleteChat(r)
  PROVE  /\ r \in Edges /\ r[1] \in Cards /\ r = <<r[1], r[2]>> /\ r[2] # 0 /\ May("delete")
         /\ SameCard(r[1]) /\ start' = start /\ withheld' = withheld /\ Remembers(r[1])
         /\ AtPeace(r[1]) /\ (\A h \in handlers : h.of = r => h.at # "read" /\ h.kind # "working")
         /\ run[r].status \in Ended /\ ~run[r].holds
         /\ run'[r].status = "deleted" /\ ~run'[r].holds /\ OtherRunsStay(r)
         /\ handlers' = handlers \union {Handler("deleted", r, "none")}
<1>1. /\ run' = [run EXCEPT ![r] = [NoRun EXCEPT !.status = "deleted"]]
      /\ card' = card /\ start' = start /\ withheld' = withheld /\ HistoryKept
      /\ handlers' = handlers \union {Handler("deleted", r, "none")}
      /\ run[r].status \in Ended /\ ~run[r].holds /\ Settled(r[1]) /\ Heard(r) /\ May("delete")
  BY DEF DeleteChat, startVars
<1>2. /\ r \in Edges /\ r[1] \in Cards /\ r = <<r[1], r[2]>> /\ r[2] # 0 /\ OtherRunsStay(r)
      /\ run'[r] = [NoRun EXCEPT !.status = "deleted"]
  BY <1>1, WritesOfRun
<1>3. run'[r].status = "deleted" /\ ~run'[r].holds
  BY <1>2 DEF NoRun
<1>4. AtPeace(r[1]) /\ (\A h \in handlers : h.of = r => h.at # "read" /\ h.kind # "working")
  BY <1>1, <1>2, CalmIsThrough DEF AtPeace
<1> QED
  BY <1>1, <1>2, <1>3, <1>4, HistoryRemembers DEF SameCard

\* What outlives a turn ends.
LEMMA WorkEndsIs ==
  ASSUME RowsAreTyped, NEW r \in Runs, WorkEnds(r)
  PROVE  /\ r \in Edges /\ r[1] \in Cards /\ r = <<r[1], r[2]>> /\ r[2] # 0
         /\ SameCard(r[1]) /\ start' = start /\ withheld' = withheld /\ Remembers(r[1])
         /\ run[r].holds
         /\ run'[r].status = run[r].status /\ run'[r].cut = run[r].cut /\ ~run'[r].holds /\ OtherRunsStay(r)
         /\ handlers' = handlers \union (IF r \in withheld THEN {Handler("recheck", r, "none")} ELSE {})
<1>1. /\ run' = [run EXCEPT ![r] = [run[r] EXCEPT !.holds = FALSE]]
      /\ card' = card /\ start' = start /\ withheld' = withheld /\ HistoryKept /\ run[r].holds
      /\ handlers' = handlers \union (IF r \in withheld THEN {Handler("recheck", r, "none")} ELSE {})
  BY DEF WorkEnds, startVars
<1>2. /\ r \in Edges /\ r[1] \in Cards /\ r = <<r[1], r[2]>> /\ r[2] # 0 /\ OtherRunsStay(r)
      /\ run[r] \in RunType /\ run'[r] = [run[r] EXCEPT !.holds = FALSE]
  BY <1>1, WritesOfRun
<1>3. run'[r].status = run[r].status /\ run'[r].cut = run[r].cut /\ ~run'[r].holds
  BY <1>2 DEF RunType
<1> QED
  BY <1>1, <1>2, <1>3, HistoryRemembers DEF SameCard

\* A run ends; it is the one its card names.
LEMMA EndsIs ==
  ASSUME RowsAreTyped, Calm, NEW r \in Runs, CardIsSound(r[1]), NEW how \in Ended, Ends(r, how)
  PROVE  /\ r \in Edges /\ r[1] \in Cards /\ r = Edge(r[1]) /\ card[r[1]].run # 0
         /\ SameCard(r[1]) /\ start' = start /\ withheld' = withheld /\ Remembers(r[1])
         /\ Works(r) /\ (how = "cancelled" => AtPeace(r[1]))
         /\ (\A h \in handlers : h.of = r => h.at # "read" /\ h.kind # "working")
         /\ run'[r].status = how /\ run'[r].cut = run[r].cut /\ OtherRunsStay(r)
         /\ handlers' = handlers \union Broadcast("ended", r, how)
<1>1. PICK holds \in {FALSE, May("shells")} : run' = [run EXCEPT ![r] = [run[r] EXCEPT !.status = how, !.holds = holds]]
  BY DEF Ends
<1>2. /\ card' = card /\ start' = start /\ withheld' = withheld /\ HistoryKept /\ run[r].status = "running"
      /\ handlers' = handlers \union Broadcast("ended", r, how) /\ Heard(r)
      /\ how = "cancelled" => Settled(r[1])
  BY DEF Ends, startVars
<1>3. /\ r \in Edges /\ r[1] \in Cards /\ r = <<r[1], r[2]>> /\ r[2] \in 1 .. Threads /\ r[2] # 0 /\ OtherRunsStay(r)
      /\ run[r] \in RunType /\ run'[r] = [run[r] EXCEPT !.status = how, !.holds = holds]
  BY <1>1, WritesOfRun
<1>4. run'[r].status = how /\ run'[r].cut = run[r].cut
  BY <1>3 DEF RunType
<1>5. Works(r) /\ r = Edge(r[1]) /\ card[r[1]].run # 0
  BY <1>2, <1>3 DEF CardIsSound, Works, Edge
<1>6. (how = "cancelled" => AtPeace(r[1])) /\ (\A h \in handlers : h.of = r => h.at # "read" /\ h.kind # "working")
  BY <1>2, <1>3, CalmIsThrough DEF AtPeace
<1> QED
  BY <1>2, <1>3, <1>4, <1>5, <1>6, HistoryRemembers DEF SameCard

\* An agent moves the card its run works on.
LEMMA AgentMovesIs ==
  ASSUME RowsAreTyped, RowsAreTyped', Calm, NEW r \in Runs, NEW to \in Columns, AgentMoves(r, to)
  PROVE  /\ r \in Edges /\ r[1] \in Cards /\ r = Edge(r[1]) /\ card[r[1]].run # 0
         /\ card'[r[1]].column = to /\ card'[r[1]].run = card[r[1]].run
         /\ start' = start /\ withheld' = withheld /\ run' = run /\ Works(r)
         /\ (byHand'[r[1]] <=> ~DrawnWorking(r[1])')
         /\ handlers' = handlers \union FinishCheck(r[1], to)
<1>1. /\ card' = MovedTo(r[1], to) /\ run' = run /\ start' = start /\ withheld' = withheld /\ Works(r) /\ NamedBy(r)
      /\ handlers' = handlers \union FinishCheck(r[1], to)
      /\ byHand' = [byHand EXCEPT ![r[1]] = ~DrawnWorking(r[1])']
  BY DEF AgentMoves, startVars, Works
<1>2. r \in Edges /\ r[1] \in Cards /\ r = <<r[1], r[2]>> /\ r[2] # 0
  BY RunsAreEdges DEF Runs
<1>3. card'[r[1]].column = to /\ card'[r[1]].run = card[r[1]].run
  BY <1>1, <1>2, WritesOfCard
<1>4. r = Edge(r[1]) /\ card[r[1]].run # 0
  BY <1>1, <1>2 DEF NamedBy, Edge
<1>5. byHand'[r[1]] <=> ~DrawnWorking(r[1])'
  BY <1>1, <1>2 DEF RowsAreTyped
<1> QED
  BY <1>1, <1>2, <1>3, <1>4, <1>5

\* Judging the finish hears nothing of a run's end.
LEMMA FinishesAreFit ==
  ASSUME NEW t \in Cards, NEW to, NEW n \in FinishCheck(t, to)
  PROVE  n.kind = "finish" /\ n.at = "read" /\ n.of = Edge(t) /\ Alone(t, n)' /\ to = "done"
BY DEF FinishCheck, Handler, Alone

\* What people do to a card keeps it fit.
LEMMA ActsFit ==
  ASSUME RowsAreTyped, RowsAreTyped', Calm, NEW t \in Cards, CardIsSound(t), CardIsFit(t),
         PostStart(t) \/ PressRun(t) \/ LoadBoard(t) \/ \E to \in Columns : Drag(t, to)
  PROVE  CardIsFit(t)'
<1>1. RunsAreFit(t) /\ StartIsFit(t) /\ HandlersAreFit(t)
  BY DEF CardIsFit
<1>2. /\ \A h \in handlers : h.of[1] = t => Alone(t, h) /\ h \in HandlerType /\ h.of \in Edges
      /\ \A d \in handlers : d.of[1] = t /\ d.kind = "deleted" => Purged(d.of) /\ ~Starting(t)
  BY <1>1, HandlerIsOf DEF HandlersAreFit, CardIsSound
<1>3. CASE PostStart(t) \/ PressRun(t)
  <2>1. /\ SameCard(t) /\ run' = run /\ handlers' = handlers
        /\ \/ start'[t] = start[t]
           \/ AtPeace(t) /\ start'[t].at = "read" /\ start'[t].fresh = FALSE
    BY <1>3, ClaimIs
  <2>2. SameRuns(t) /\ card'[t].run = card[t].run /\ card'[t].column = card[t].column /\ SetsOff(t, {})
    BY <2>1 DEF SameRuns, SameCard, SetsOff
  <2>3. RunsAreFit(t)' /\ StartIsFit(t)'
    BY <1>1, <2>1, <2>2, RowsStayFit
  <2>4. CASE start'[t] = start[t]
    <3>1. NoFurther(t)
      BY <2>4 DEF NoFurther, Starting
    <3>2. HandlersAreFit(t)'
      BY <1>1, <2>2, <3>1, HandlersStayFit
    <3> QED
      BY <2>3, <3>2 DEF CardIsFit
  <2>5. CASE AtPeace(t) /\ start'[t].at = "read"
    <3>1. \A h \in handlers : h.of[1] = t => h.kind \in {"working", "finish", "recheck", "owed"}
      BY <1>2, <2>5 DEF AtPeace, HandlerType
    <3>2. ASSUME NEW h \in handlers', h.of[1] = t PROVE Alone(t, h)'
      <4>1. Alone(t, h) /\ h.of \in Edges /\ run'[h.of] = run[h.of] /\ Edge(t)' = Edge(t)
            /\ h.kind \in {"working", "finish", "recheck", "owed"}
        BY <1>2, <2>1, <2>2, <3>1, <3>2 DEF Edge
      <4> QED
        BY <4>1 DEF Alone, Works
    <3>3. HandlersAreFit(t)'
      BY <2>1, <3>1, <3>2 DEF HandlersAreFit
    <3> QED
      BY <2>3, <3>3 DEF CardIsFit
  <2> QED
    BY <2>1, <2>4, <2>5
<1>4. CASE LoadBoard(t)
  <2>0. PICK n : n = Handler("reconcile", Edge(t), run[Edge(t)].status)
    OBVIOUS
  <2>1. /\ SameCard(t) /\ run' = run /\ start' = start /\ run[Edge(t)].status \in Ended
        /\ handlers' = handlers \union {n}
    BY <1>4, <2>0, LoadBoardIs
  <2>2. n.kind = "reconcile" /\ n.at = "read" /\ n.of = Edge(t)
    BY <2>0 DEF Handler
  <2>3. SetsOff(t, {n}) /\ card'[t].run = card[t].run /\ card'[t].column = card[t].column /\ Edge(t)' = Edge(t)
    BY <2>1 DEF SetsOff, SameCard, Edge
  <2>4. Alone(t, n)'
    BY <2>1, <2>2, <2>3 DEF Alone, Works, Ended
  <2>5. ASSUME NEW d \in handlers, d.of[1] = t, d.kind = "deleted" PROVE Apart(t, d, n)
    <3>1. Alone(t, d) /\ Purged(d.of) /\ d \in HandlerType
      BY <1>2, <2>5
    <3>2. d.of # Edge(t)
      BY <2>1, <3>1 DEF Purged, Ended
    <3>3. card[t].run # 0
      BY <2>1 DEF CardIsSound, Ended, Edge
    <3>4. d.at = "read"
      BY <2>5, <3>1, <3>2, <3>3 DEF Alone, HandlerType
    <3> QED
      BY <2>2, <3>2, <3>4 DEF Apart
  <2>6. \A m \in {n} : m \in handlers' /\ m.of[1] = t =>
           /\ Alone(t, m)'
           /\ \A d \in handlers : d \in handlers' /\ d.of[1] = t /\ d.kind = "deleted" => Apart(t, d, m)
           /\ m.kind = "deleted" => \A g \in handlers' : g.of[1] = t => Apart(t, m, g)
    BY <2>2, <2>4, <2>5
  <2> QED
    BY <2>1, <2>3, <2>6, HandlerGoesFit
<1>5. ASSUME NEW to \in Columns, Drag(t, to) PROVE CardIsFit(t)'
  <2>1. /\ card'[t].run = card[t].run /\ run' = run /\ start' = start
        /\ ~Starting(t) /\ (\A h \in handlers : h.of[1] = t => h.kind # "deleted")
        /\ handlers' = handlers \union FinishCheck(t, to)
    BY <1>5, DragIs
  <2>2. start[t].at \notin Reserved
    BY <2>1 DEF Starting, Reserved
  <2>3. SetsOff(t, FinishCheck(t, to))
    BY <2>1 DEF SetsOff
  <2>4. \A n \in FinishCheck(t, to) : n \in handlers' /\ n.of[1] = t =>
           /\ Alone(t, n)'
           /\ \A d \in handlers : d \in handlers' /\ d.of[1] = t /\ d.kind = "deleted" => Apart(t, d, n)
           /\ n.kind = "deleted" => \A g \in handlers' : g.of[1] = t => Apart(t, n, g)
    BY <2>1, FinishesAreFit
  <2>5. \A d \in handlers : d \in handlers' /\ d.of[1] = t /\ d.kind = "deleted" => d.at # "unlink"
    BY <2>1
  <2> QED
    BY <2>1, <2>2, <2>3, <2>4, <2>5, HandlerGoesFit
<1> QED
  BY <1>3, <1>4, <1>5

\* What a chat does keeps its card fit.
LEMMA ChatsFit ==
  ASSUME RowsAreTyped, RowsAreTyped', Calm, NEW r \in Runs, CardIsSound(r[1]), CardIsFit(r[1]),
         FollowUp(r) \/ DeleteChat(r) \/ WorkEnds(r) \/ (\E how \in Ended : Ends(r, how))
           \/ \E to \in Columns : AgentMoves(r, to)
  PROVE  CardIsFit(r[1])'
<1> DEFINE t == r[1]
<1>1. RunsAreFit(t) /\ StartIsFit(t) /\ HandlersAreFit(t)
  BY DEF CardIsFit
<1>2. /\ \A h \in handlers : h.of[1] = t => Alone(t, h) /\ h \in HandlerType /\ h.of \in Edges
      /\ \A d \in handlers : d.of[1] = t /\ d.kind = "deleted" => Purged(d.of) /\ ~Starting(t)
  BY <1>1, HandlerIsOf DEF HandlersAreFit, CardIsSound
<1>3. r \in Edges /\ t \in Cards /\ r = <<t, r[2]>> /\ r[2] \in 1 .. Threads /\ r[2] \in 0 .. Threads
  BY RunsAreEdges, BoardAssumption DEF Runs
<1>4. start[t] \in StartType /\ card[t] \in CardType
  BY <1>3, EdgesAre
<1>5. ASSUME ~Starting(t), start' = start PROVE start'[t].at \notin Reserved /\ start'[t].at \notin Made /\ ~start'[t].fresh
  BY <1>1, <1>5 DEF Starting, Reserved, Made, StartIsFit
<1>6. ASSUME SameCard(t), start' = start, OtherRunsStay(r), run'[r].status # "none",
             start[t].at \in Made => run'[r].status = run[r].status
      PROVE  StartIsFit(t)'
  <2>1. Edge(t)' = Edge(t) /\ Thread(t)' = Thread(t) /\ Edge(t) \in Edges /\ Thread(t) \in Edges
        /\ <<t, start[t].found>> \in Edges
    BY <1>3, <1>6, EdgesAre DEF SameCard, Edge, Thread
  <2>2. \A i \in 0 .. Threads : run[<<t, i>>].status # "none" => run'[<<t, i>>].status # "none"
    BY <1>3, <1>6 DEF OtherRunsStay
  <2>3. start[t].at \in Made => \A i \in 0 .. Threads : run'[<<t, i>>].status = run[<<t, i>>].status
    BY <1>3, <1>6 DEF OtherRunsStay
  <2>4. card[t].run \in 0 .. Threads /\ start[t].found \in 0 .. Threads /\ start[t].thread \in 0 .. Threads
    BY <1>4 DEF CardType, StartType
  <2>5. run[Edge(t)].status # "none" => run'[Edge(t)].status # "none"
    BY <2>2, <2>4 DEF Edge
  <2>6. start[t].at \in Made => /\ run'[Thread(t)].status = run[Thread(t)].status
                                /\ run'[<<t, start[t].found>>].status = run[<<t, start[t].found>>].status
    BY <2>3, <2>4 DEF Thread
  <2>7. {"link", "send", "discard", "giveback"} \subseteq Made
    BY DEF Made
  <2> QED
    BY <1>1, <1>6, <2>1, <2>5, <2>6, <2>7 DEF StartIsFit, SameCard
<1>7. CASE FollowUp(r)
  <2>1. /\ r = Edge(t) /\ card[t].run # 0 /\ SameCard(t) /\ start' = start
        /\ AtPeace(t) /\ (\A h \in handlers : h.of = r => h.at # "read" /\ h.kind # "working")
        /\ run[r].status \in Ended
        /\ run'[r].status = "running" /\ run'[r].cut = "no" /\ run'[r].holds = run[r].holds /\ OtherRunsStay(r)
        /\ handlers' = handlers \union Broadcast("working", r, "none")
    BY <1>7, FollowUpIs
  <2>2. ~Starting(t) /\ start[t].at \notin Made
    BY <2>1 DEF AtPeace, Starting, Made
  <2>3. RunsAreFit(t)'
    BY <1>1, <1>3, <2>1 DEF RunsAreFit, OtherRunsStay, Works
  <2>4. StartIsFit(t)'
    BY <1>6, <2>1, <2>2
  <2>5. \A h \in Broadcast("working", r, "none") : h.at = "read" /\ h.of = r /\ h.kind \in {"recheck", "working"}
    BY DEF Broadcast, Handler
  <2>6. Edge(t)' = r /\ Works(r)'
    BY <2>1 DEF Edge, SameCard, Works
  <2>7. ASSUME NEW h \in handlers', h.of[1] = t
        PROVE  h.kind \in {"working", "finish", "recheck", "owed"} /\ Alone(t, h)'
    <3>1. CASE h \in Broadcast("working", r, "none")
      BY <2>5, <2>6, <3>1 DEF Alone
    <3>2. CASE h \in handlers
      <4>1. h.kind \in {"working", "finish", "recheck", "owed"} /\ Alone(t, h)
        BY <1>2, <2>1, <2>7, <3>2 DEF AtPeace, HandlerType
      <4>2. h.kind # "working"
        BY <2>1, <3>2, <4>1 DEF Alone
      <4> QED
        BY <4>1, <4>2 DEF Alone
    <3> QED
      BY <2>1, <2>7, <3>1, <3>2
  <2>8. HandlersAreFit(t)'
    BY <2>7 DEF HandlersAreFit
  <2> QED
    BY <2>3, <2>4, <2>8 DEF CardIsFit
<1>8. CASE DeleteChat(r)
  <2>0. PICK n : n = Handler("deleted", r, "none")
    OBVIOUS
  <2>1. /\ SameCard(t) /\ start' = start
        /\ AtPeace(t) /\ (\A h \in handlers : h.of = r => h.at # "read" /\ h.kind # "working")
        /\ run[r].status \in Ended
        /\ run'[r].status = "deleted" /\ ~run'[r].holds /\ OtherRunsStay(r)
        /\ handlers' = handlers \union {n}
    BY <1>8, <2>0, DeleteChatIs
  <2>2. ~Starting(t) /\ start[t].at \notin Made
    BY <2>1 DEF AtPeace, Starting, Made
  <2>3. RunsAreFit(t)'
    BY <1>1, <1>3, <2>1 DEF RunsAreFit, OtherRunsStay, Works
  <2>4. StartIsFit(t)'
    BY <1>6, <2>1, <2>2
  <2>5. n.kind = "deleted" /\ n.at = "read" /\ n.of = r
    BY <2>0 DEF Handler
  <2>6. Edge(t)' = Edge(t)
    BY <2>1 DEF SameCard, Edge
  <2>7. ASSUME NEW h \in handlers, h.of[1] = t
        PROVE  h.kind \in {"working", "finish", "recheck", "owed"} /\ Alone(t, h)' /\ (h.of = r => h.kind = "owed" /\ FALSE)
    <3>1. h.kind \in {"working", "finish", "recheck", "owed"} /\ Alone(t, h) /\ h.of \in Edges
      BY <1>2, <2>1, <2>7 DEF AtPeace, HandlerType
    <3>2. h.of # r
      BY <2>1, <2>7, <3>1 DEF Alone
    <3>3. run'[h.of] = run[h.of]
      BY <2>1, <2>7, <3>1, <3>2 DEF OtherRunsStay, Edges
    <3> QED
      BY <2>6, <3>1, <3>2, <3>3 DEF Alone, Works
  <2>8. \A h \in handlers' : h.of[1] = t => h = n \/ (h.kind \in {"working", "finish", "recheck", "owed"} /\ h.of # r)
    BY <2>1, <2>7
  <2>9. \A h \in handlers' : h.of[1] = t => Alone(t, h)'
    <3>1. Alone(t, n)'
      BY <2>5 DEF Alone
    <3> QED
      BY <2>1, <2>7, <3>1
  <2>10. HandlersAreFit(t)'
    BY <2>5, <2>8, <2>9 DEF HandlersAreFit, Apart
  <2> QED
    BY <2>3, <2>4, <2>10 DEF CardIsFit
<1>9. ASSUME SameCard(t), start' = start, \A i \in 0 .. Threads : run'[<<t, i>>].status = run[<<t, i>>].status
                                                                  /\ run'[<<t, i>>].cut = run[<<t, i>>].cut,
             NEW h \in handlers, h.of[1] = t
      PROVE  Alone(t, h)'
  <2>1. Alone(t, h) /\ h.of \in Edges /\ Edge(t)' = Edge(t) /\ Edge(t) \in Edges /\ Edge(t)[1] = t
    BY <1>2, <1>3, <1>9, EdgesAre DEF SameCard, Edge
  <2>2. run'[h.of].status = run[h.of].status /\ run'[h.of].cut = run[h.of].cut
        /\ run'[Edge(t)].status = run[Edge(t)].status
    BY <1>9, <2>1 DEF Edges
  <2> QED
    BY <1>9, <2>1, <2>2 DEF Alone, Works, Starting, SameCard
<1>10. CASE WorkEnds(r)
  <2>1. /\ SameCard(t) /\ start' = start /\ run[r].holds
        /\ run'[r].status = run[r].status /\ run'[r].cut = run[r].cut /\ ~run'[r].holds /\ OtherRunsStay(r)
        /\ handlers' = handlers \union (IF r \in withheld THEN {Handler("recheck", r, "none")} ELSE {})
    BY <1>10, WorkEndsIs
  <2>2. \A i \in 0 .. Threads : run'[<<t, i>>].status = run[<<t, i>>].status /\ run'[<<t, i>>].cut = run[<<t, i>>].cut
    BY <1>3, <2>1 DEF OtherRunsStay
  <2>3. RunsAreFit(t)'
    BY <1>1, <1>3, <2>1, <2>2 DEF RunsAreFit, OtherRunsStay, Works
  <2>4. run[r].status \in Ended \union {"running"}
    BY <1>1, <1>3, <2>1 DEF RunsAreFit
  <2>5. StartIsFit(t)'
    BY <1>6, <2>1, <2>4 DEF Ended
  <2>6. PICK n : n = Handler("recheck", r, "none")
    OBVIOUS
  <2>7. n.kind = "recheck" /\ n.at = "read" /\ n.of = r /\ Alone(t, n)'
    BY <2>6 DEF Handler, Alone
  <2>8. \A h \in handlers' : h \in handlers \/ h = n
    BY <2>1, <2>6
  <2>9. \A h \in handlers' : h.of[1] = t => Alone(t, h)'
    BY <1>9, <2>1, <2>2, <2>7, <2>8
  <2>10. Edge(t)' = Edge(t)
    BY <2>1 DEF SameCard, Edge
  <2>11. ASSUME NEW d \in handlers', NEW g \in handlers', d.of[1] = t, d.kind = "deleted", g.of[1] = t
         PROVE  Apart(t, d, g)'
    <3>1. d \in handlers /\ Purged(d.of) /\ d.of # r
      BY <1>2, <2>4, <2>7, <2>8, <2>11 DEF Purged, Ended
    <3>2. CASE g \in handlers
      <4>1. Apart(t, d, g)
        BY <1>1, <2>11, <3>1, <3>2 DEF HandlersAreFit
      <4> QED
        BY <2>10, <4>1 DEF Apart
    <3>3. CASE g = n
      BY <2>7, <3>1, <3>3 DEF Apart
    <3> QED
      BY <2>8, <3>2, <3>3
  <2> QED
    BY <2>3, <2>5, <2>9, <2>11 DEF CardIsFit, HandlersAreFit
<1>11. ASSUME NEW how \in Ended, Ends(r, how) PROVE CardIsFit(t)'
  <2>1. /\ r = Edge(t) /\ card[t].run # 0 /\ SameCard(t) /\ start' = start
        /\ Works(r) /\ (how = "cancelled" => AtPeace(t))
        /\ (\A h \in handlers : h.of = r => h.at # "read" /\ h.kind # "working")
        /\ run'[r].status = how /\ run'[r].cut = run[r].cut /\ OtherRunsStay(r)
        /\ handlers' = handlers \union Broadcast("ended", r, how)
    BY <1>11, EndsIs
  <2>2. start[t].at \notin Made
    BY <1>3, <2>1 DEF CardIsSound, Made, Judged
  <2>3. RunsAreFit(t)'
    BY <1>1, <1>3, <2>1 DEF RunsAreFit, OtherRunsStay, Works, Ended
  <2>4. StartIsFit(t)'
    BY <1>6, <2>1, <2>2 DEF Ended
  <2>5. \A h \in Broadcast("ended", r, how) :
          h.at = "read" /\ h.of = r /\ (h.kind = "recheck" \/ (h.kind = "ended" /\ h.how = how))
    BY DEF Broadcast, Handler
  <2>6. Edge(t)' = r /\ run'[r].status \in Ended /\ run'[r].cut = "no" /\ ~Works(r)'
    BY <1>1, <1>3, <2>1 DEF SameCard, Edge, RunsAreFit, Works, Ended
  <2>7. ASSUME NEW h \in handlers, h.of[1] = t
        PROVE  h.kind \in {"finish", "recheck", "owed", "deleted"} /\ Alone(t, h)'
               /\ (h.kind = "deleted" => h.at = "read" /\ h.of # r)
    <3>1. Alone(t, h) /\ h.of \in Edges /\ h \in HandlerType /\ (h.kind = "deleted" => Purged(h.of))
      BY <1>2, <2>7
    <3>2. h.kind \notin {"working", "ended", "reconcile"}
      BY <2>1, <2>7, <3>1 DEF Alone, Works, Ended
    <3>3. h.kind = "deleted" => h.at = "read" /\ h.of # r
      BY <2>1, <3>1 DEF Alone, Works, Purged, HandlerType
    <3>4. Alone(t, h)'
      BY <3>1, <3>2, <3>3 DEF Alone
    <3> QED
      BY <3>1, <3>2, <3>3, <3>4 DEF HandlerType
  <2>8. ASSUME NEW h \in Broadcast("ended", r, how) PROVE Alone(t, h)'
    <3>1. start'[t].at \notin Made /\ (Starting(t)' => how # "cancelled")
      BY <2>1, <2>2 DEF AtPeace, Starting
    <3> QED
      BY <2>1, <2>5, <2>6, <2>8, <3>1 DEF Alone
  <2>9. \A h \in handlers' : h.of[1] = t => Alone(t, h)'
    BY <2>1, <2>7, <2>8
  <2>10. ASSUME NEW d \in handlers', NEW g \in handlers', d.of[1] = t, d.kind = "deleted", g.of[1] = t
         PROVE  Apart(t, d, g)'
    <3>1. d \in handlers /\ d.at = "read" /\ d.of # r
      BY <2>1, <2>5, <2>7, <2>10
    <3>2. CASE g \in handlers
      <4>1. Apart(t, d, g)
        BY <1>1, <2>10, <3>1, <3>2 DEF HandlersAreFit
      <4> QED
        BY <2>6, <3>1, <4>1 DEF Apart
    <3>3. CASE g \in Broadcast("ended", r, how)
      BY <2>5, <2>6, <3>1, <3>3 DEF Apart
    <3> QED
      BY <2>1, <2>10, <3>2, <3>3
  <2> QED
    BY <2>3, <2>4, <2>9, <2>10 DEF CardIsFit, HandlersAreFit
<1>12. ASSUME NEW to \in Columns, AgentMoves(r, to) PROVE CardIsFit(t)'
  <2>1. /\ r = Edge(t) /\ card'[t].run = card[t].run /\ start' = start /\ run' = run /\ Works(r)
        /\ handlers' = handlers \union FinishCheck(t, to)
    BY <1>12, AgentMovesIs
  <2>2. start[t].at \notin Reserved
    BY <1>3, <2>1 DEF CardIsSound, Reserved, Judged
  <2>3. SetsOff(t, FinishCheck(t, to))
    BY <2>1 DEF SetsOff
  <2>4. \A d \in handlers : d.of[1] = t /\ d.kind = "deleted" => d.at # "unlink" /\ d.of # Edge(t)
    BY <1>2, <2>1 DEF Alone, Works, Purged
  <2>5. \A n \in FinishCheck(t, to) : n \in handlers' /\ n.of[1] = t =>
           /\ Alone(t, n)'
           /\ \A d \in handlers : d \in handlers' /\ d.of[1] = t /\ d.kind = "deleted" => Apart(t, d, n)
           /\ n.kind = "deleted" => \A g \in handlers' : g.of[1] = t => Apart(t, n, g)
    <3> SUFFICES ASSUME NEW n \in FinishCheck(t, to)
                 PROVE  /\ Alone(t, n)'
                        /\ \A d \in handlers : d.of[1] = t /\ d.kind = "deleted" => Apart(t, d, n)
                        /\ n.kind # "deleted"
      OBVIOUS
    <3>1. n.kind = "finish" /\ n.of = Edge(t) /\ Alone(t, n)'
      BY <1>3, FinishesAreFit
    <3> QED
      BY <2>4, <3>1 DEF Apart
  <2> QED
    BY <1>3, <2>1, <2>2, <2>3, <2>4, <2>5, HandlerGoesFit
<1> QED
  BY <1>7, <1>8, <1>10, <1>11, <1>12

-----------------------------------------------------------------------------
(* The cards a step leaves alone                                            *)

StartGoes(t) ==
  \/ ReadCard(t) \/ JudgeRun(t) \/ CountRuns(t) \/ Reserve(t) \/ Choose(t)
  \/ Link(t) \/ Send(t) \/ Unlink(t) \/ GiveBack(t) \/ Discard(t) \/ ClearStamp(t)
Hears(h) ==
  \/ SettleReads(h) \/ SettleStamps(h) \/ SettleMoves(h) \/ FollowReads(h) \/ FollowMoves(h)
  \/ ReleaseReads(h) \/ ReleaseUnlinks(h) \/ Finishes(h) \/ Rechecks(h) \/ OwedReconcile(h)
ActedOn(t) == PostStart(t) \/ PressRun(t) \/ LoadBoard(t) \/ \E to \in Columns : Drag(t, to)
ChatGoes(r) ==
  \/ FollowUp(r) \/ DeleteChat(r) \/ WorkEnds(r) \/ (\E how \in Ended : Ends(r, how))
  \/ \E to \in Columns : AgentMoves(r, to)

\* Nothing of card u is touched, and what is remembered of it stands.
Untouched(u) ==
  /\ start'[u] = start[u] /\ SameCard(u) /\ SameRuns(u) /\ Remembers(u) /\ SameWithheld(u)
  /\ \A h \in HandlerType : h.of[1] = u => (h \in handlers' <=> h \in handlers)

OnlyCard(t) == \A u \in Cards \ {t} : Untouched(u)

\* A step elsewhere, that remembers the other cards, leaves them untouched.
LEMMA ElsewhereUntouched ==
  ASSUME NEW t \in Cards, Elsewhere(t), \A u \in Cards \ {t} : Remembers(u) /\ SameWithheld(u)
  PROVE  OnlyCard(t)
BY DEF Elsewhere, OnlyCard, Untouched, SameCard, SameRuns

\* A start's step is of its own card.
LEMMA StartsTouchOneCard ==
  ASSUME RowsAreTyped, NEW t \in Cards, StartGoes(t)
  PROVE  OnlyCard(t)
<1> USE DEF boardVars
<1>1. Elsewhere(t)
  BY StartStepsElsewhere DEF StartGoes
<1>2. withheld' = withheld
  BY DEF StartGoes, ReadCard, JudgeRun, CountRuns, Reserve, Choose, Link, Send, Unlink, GiveBack, Discard,
         ClearStamp, Refused
<1>3. HistoryKept \/ (UNCHANGED told /\ UNCHANGED byHand)
  BY DEF StartGoes, ReadCard, JudgeRun, CountRuns, Reserve, Choose, Link, Send, Unlink, GiveBack, Discard,
         ClearStamp
<1>4. \A u \in Cards : Remembers(u) /\ SameWithheld(u)
  BY <1>2, <1>3, HistoryRemembers DEF SameWithheld
<1> QED
  BY <1>1, <1>4, ElsewhereUntouched

\* A handler's step is of the card its run belongs to.
LEMMA HandlersTouchOneCard ==
  ASSUME RowsAreTyped, NEW h \in handlers, Hears(h)
  PROVE  h.of[1] \in Cards /\ OnlyCard(h.of[1])
<1>1. h.of[1] \in Cards /\ h.of \in Edges
  BY HandlerIsOf
<1>2. Elsewhere(h.of[1])
  BY HandlerStepsElsewhere DEF Hears
<1>3. CASE Finishes(h) \/ Rechecks(h)
  <2>1. /\ card' = card /\ byHand' = byHand /\ run' = run
        /\ UNCHANGED told \/ Announce(h.of[1])
        /\ withheld' = withheld \/ withheld' = withheld \union {h.of} \/ withheld' = withheld \ {h.of}
    BY <1>3 DEF Finishes, Rechecks, JudgeFinish
  <2>2. ASSUME NEW u \in Cards \ {h.of[1]} PROVE Remembers(u) /\ SameWithheld(u)
    <3>1. told'[u] = told[u]
      BY <2>1 DEF Announce, RowsAreTyped
    <3>2. \A i : <<u, i>> # h.of
      OBVIOUS
    <3> QED
      BY <2>1, <3>1, <3>2 DEF Remembers, SameWithheld
  <2> QED
    BY <1>1, <1>2, <2>2, ElsewhereUntouched
<1>4. CASE ~Finishes(h) /\ ~Rechecks(h)
  <2>1. withheld' = withheld /\ (HistoryKept \/ (UNCHANGED told /\ UNCHANGED byHand))
    BY <1>4 DEF Hears, SettleReads, SettleStamps, SettleMoves, FollowReads, FollowMoves,
                ReleaseReads, ReleaseUnlinks, OwedReconcile
  <2>2. \A u \in Cards : Remembers(u) /\ SameWithheld(u)
    BY <2>1, HistoryRemembers DEF SameWithheld
  <2> QED
    BY <1>1, <1>2, <2>2, ElsewhereUntouched
<1> QED
  BY <1>3, <1>4

\* What people, the conductor and a board do to a card is of that card.
LEMMA PeopleTouchOneCard ==
  ASSUME RowsAreTyped, NEW t \in Cards, ActedOn(t)
  PROVE  OnlyCard(t)
<1> USE DEF boardVars, startVars
<1>1. Elsewhere(t)
  BY ActsElsewhere DEF ActedOn
<1>2. withheld' = withheld
  BY DEF ActedOn, PostStart, PressRun, LoadBoard, Drag
<1>3. \/ UNCHANGED told /\ UNCHANGED byHand
      \/ ToldKept /\ \E x : byHand' = [byHand EXCEPT ![t] = x]
  BY DEF ActedOn, PostStart, PressRun, LoadBoard, Drag
<1>4. ASSUME NEW u \in Cards \ {t} PROVE Remembers(u) /\ SameWithheld(u)
  BY <1>2, <1>3 DEF Remembers, SameWithheld, ToldKept, RowsAreTyped
<1> QED
  BY <1>1, <1>4, ElsewhereUntouched

\* What happens in a chat is of the card the chat works.
LEMMA ChatsTouchOneCard ==
  ASSUME RowsAreTyped, NEW r \in Runs, ChatGoes(r)
  PROVE  r[1] \in Cards /\ OnlyCard(r[1])
<1> USE DEF boardVars, startVars
<1>1. Elsewhere(r[1]) /\ r[1] \in Cards
  BY ChatsElsewhere DEF ChatGoes, Runs
<1>2. withheld' = withheld
  BY DEF ChatGoes, FollowUp, DeleteChat, WorkEnds, Ends, AgentMoves
<1>3. \/ HistoryKept
      \/ ToldKept /\ \E x : byHand' = [byHand EXCEPT ![r[1]] = x]
  BY DEF ChatGoes, FollowUp, DeleteChat, WorkEnds, Ends, AgentMoves
<1>4. ASSUME NEW u \in Cards \ {r[1]} PROVE Remembers(u) /\ SameWithheld(u)
  <2>1. CASE HistoryKept
    BY <1>2, <2>1, HistoryRemembers DEF SameWithheld
  <2>2. CASE ToldKept /\ \E x : byHand' = [byHand EXCEPT ![r[1]] = x]
    BY <1>1, <1>2, <2>2 DEF Remembers, SameWithheld, ToldKept, RowsAreTyped
  <2> QED
    BY <1>3, <2>1, <2>2
<1> QED
  BY <1>1, <1>4, ElsewhereUntouched

\* A step is of one card, or a boot, or leaves every card alone.
LEMMA StepsTouchOneCard ==
  ASSUME RowsAreTyped, [Next]_vars
  PROVE  \/ \A u \in Cards : Untouched(u)
         \/ \E t \in Cards : OnlyCard(t) /\ (StartGoes(t) \/ ActedOn(t))
         \/ \E h \in handlers : h.of[1] \in Cards /\ OnlyCard(h.of[1]) /\ Hears(h)
         \/ \E r \in Runs : r[1] \in Cards /\ OnlyCard(r[1]) /\ ChatGoes(r)
         \/ \E cause \in {"quit", "crash"} : Restart(cause)
<1>1. CASE ReadQueue \/ UNCHANGED vars
  <2>1. UNCHANGED boardVars /\ UNCHANGED start
    BY <1>1 DEF ReadQueue, vars, startVars
  <2>2. \A u \in Cards : Remembers(u)
    BY <2>1, HistoryRemembers DEF boardVars
  <2> QED
    BY <2>1, <2>2 DEF boardVars, Untouched, SameCard, SameRuns, SameWithheld
<1>2. CASE StartStep
  BY <1>2, StartsTouchOneCard DEF StartStep, StartGoes
<1>3. CASE HandlerStep
  BY <1>3, HandlersTouchOneCard DEF HandlerStep, Hears
<1>4. ASSUME NEW t \in Cards, PostStart(t) \/ PressRun(t) \/ LoadBoard(t) \/ \E to \in Columns : Drag(t, to)
      PROVE  OnlyCard(t) /\ ActedOn(t)
  BY <1>4, PeopleTouchOneCard DEF ActedOn
<1>5. ASSUME NEW r \in Runs,
             FollowUp(r) \/ DeleteChat(r) \/ WorkEnds(r) \/ (\E how \in Ended : Ends(r, how))
               \/ \E to \in Columns : AgentMoves(r, to)
      PROVE  r[1] \in Cards /\ OnlyCard(r[1]) /\ ChatGoes(r)
  BY <1>5, ChatsTouchOneCard DEF ChatGoes
<1> QED
  BY <1>1, <1>2, <1>3, <1>4, <1>5 DEF Next

\* A card left alone stays fit.
LEMMA UntouchedStaysFit ==
  ASSUME RowsAreTyped, RowsAreTyped', NEW u \in Cards, CardIsFit(u), Untouched(u)
  PROVE  CardIsFit(u)'
<1>1. /\ start'[u] = start[u] /\ card'[u].column = card[u].column /\ card'[u].run = card[u].run /\ SameRuns(u)
      /\ RunsAreFit(u) /\ StartIsFit(u) /\ HandlersAreFit(u)
  BY DEF Untouched, SameCard, CardIsFit
<1>2. SetsOff(u, {}) /\ NoFurther(u)
  BY <1>1 DEF Untouched, SetsOff, RowsAreTyped, NoFurther, Starting
<1>3. RunsAreFit(u)' /\ StartIsFit(u)'
  BY <1>1, RowsStayFit
<1>4. HandlersAreFit(u)'
  BY <1>1, <1>2, HandlersStayFit
<1> QED
  BY <1>3, <1>4 DEF CardIsFit

\* What the boot leaves of a card and its runs.
LEMMA RestartIs ==
  ASSUME RowsAreTyped, NEW cause \in {"quit", "crash"}, Restart(cause), NEW t \in Cards
  PROVE  /\ handlers' = {} /\ start'[t] = NoStart /\ start'[t].at = "idle" /\ start'[t].fresh = FALSE
         /\ card'[t].run = card[t].run /\ May(cause) /\ weather' = weather
         /\ \A r \in Edges : /\ ~run'[r].holds /\ ~Works(r)'
                             /\ run'[r].status = (IF Works(r) THEN "failed" ELSE run[r].status)
                             /\ run'[r].cut = (IF Works(r) THEN cause ELSE run[r].cut)
         /\ told'[t] = FinishedIn(card', run', t)
<1>1. /\ handlers' = {} /\ start'[t] = NoStart /\ card'[t] = SettledAtBoot(run', t) /\ May(cause) /\ weather' = weather
      /\ told'[t] = FinishedIn(card', run', t)
  BY DEF Restart
<1>2. card[t] \in CardType
  BY EdgesAre
<1>3. card'[t].run = card[t].run
  BY <1>1, <1>2 DEF SettledAtBoot, CardType
<1>4. ASSUME NEW r \in Edges
      PROVE  /\ ~run'[r].holds /\ ~Works(r)'
             /\ run'[r].status = (IF Works(r) THEN "failed" ELSE run[r].status)
             /\ run'[r].cut = (IF Works(r) THEN cause ELSE run[r].cut)
  <2>1. run[r] \in RunType
    BY DEF RowsAreTyped
  <2>2. run'[r] = IF run[r].status = "running"
                  THEN [run[r] EXCEPT !.status = "failed", !.cut = cause, !.holds = FALSE]
                  ELSE [run[r] EXCEPT !.holds = FALSE]
    BY DEF Restart, Cut
  <2> QED
    BY <2>1, <2>2 DEF RunType, Works
<1> QED
  BY <1>1, <1>3, <1>4 DEF NoStart

\* A boot leaves every card fit.
LEMMA RestartFit ==
  ASSUME RowsAreTyped, NEW cause \in {"quit", "crash"}, Restart(cause), NEW t \in Cards, CardIsFit(t)
  PROVE  CardIsFit(t)'
<1>1. /\ handlers' = {} /\ start'[t].at = "idle" /\ start'[t].fresh = FALSE /\ card'[t].run = card[t].run
      /\ \A r \in Edges : /\ ~run'[r].holds /\ ~Works(r)'
                          /\ run'[r].status = (IF Works(r) THEN "failed" ELSE run[r].status)
  BY RestartIs
<1>2. Edge(t) \in Edges /\ Edge(t)' = Edge(t) /\ \A i \in 0 .. Threads : <<t, i>> \in Edges
  BY <1>1, EdgesAre DEF Edge, Edges
<1>3. RunsAreFit(t)'
  BY <1>1, <1>2 DEF RunsAreFit
<1>4. StartIsFit(t)'
  BY <1>1, <1>2 DEF CardIsFit, StartIsFit, Made, Reserved, Works
<1>5. HandlersAreFit(t)'
  BY <1>1, NoHandlersAreFit
<1> QED
  BY <1>3, <1>4, <1>5 DEF CardIsFit

CardsAreFit == \A t \in Cards : CardIsFit(t)

\* What is in flight for a card fits its rows after every step.
LEMMA CardsStayFit ==
  Calm /\ RowsAreTyped /\ CardsAreSound /\ CardsAreFit /\ [Next]_vars => CardsAreFit'
<1> SUFFICES ASSUME Calm, RowsAreTyped, CardsAreSound, CardsAreFit, [Next]_vars PROVE CardsAreFit'
  OBVIOUS
<1>1. RowsAreTyped' /\ CardsAreSound'
  BY RowsStayTyped, CardsStaySound
<1>2. \A t \in Cards : CardIsSound(t) /\ CardIsFit(t) /\ CardIsSound(t)'
  BY <1>1 DEF CardsAreSound, CardsAreFit
<1>3. ASSUME NEW t \in Cards, OnlyCard(t), CardIsFit(t)' PROVE CardsAreFit'
  BY <1>1, <1>2, <1>3, UntouchedStaysFit DEF CardsAreFit, OnlyCard
<1>4. CASE \A u \in Cards : Untouched(u)
  BY <1>1, <1>2, <1>4, UntouchedStaysFit DEF CardsAreFit
<1>5. ASSUME NEW t \in Cards, OnlyCard(t), StartGoes(t) \/ ActedOn(t) PROVE CardsAreFit'
  <2>1. CardIsFit(t)'
    BY <1>1, <1>2, <1>5, StartStepsFit, ActsFit DEF StartGoes, ActedOn
  <2> QED
    BY <1>3, <1>5, <2>1
<1>6. ASSUME NEW h \in handlers, h.of[1] \in Cards, OnlyCard(h.of[1]), Hears(h) PROVE CardsAreFit'
  <2>1. CardIsFit(h.of[1])'
    BY <1>1, <1>2, <1>6, HandlerStepsFit DEF Hears
  <2> QED
    BY <1>3, <1>6, <2>1
<1>7. ASSUME NEW r \in Runs, r[1] \in Cards, OnlyCard(r[1]), ChatGoes(r) PROVE CardsAreFit'
  <2>1. CardIsFit(r[1])'
    BY <1>1, <1>2, <1>7, ChatsFit DEF ChatGoes
  <2> QED
    BY <1>3, <1>7, <2>1
<1>8. ASSUME NEW cause \in {"quit", "crash"}, Restart(cause) PROVE CardsAreFit'
  BY <1>2, <1>8, RestartFit DEF CardsAreFit
<1> QED
  BY <1>4, <1>5, <1>6, <1>7, <1>8, StepsTouchOneCard

\* It does on a fresh board.
LEMMA CardsStartFit == Init => CardsAreFit
<1> SUFFICES ASSUME Init, NEW t \in Cards PROVE CardIsFit(t)
  BY DEF CardsAreFit
<1>1. start[t].at = "idle" /\ start[t].fresh = FALSE /\ handlers = {} /\ card[t].run = 0
  BY DEF Init, StartsInit, NoStart, BoardInit
<1>2. \A i \in 0 .. Threads : run[<<t, i>>].status = "none" /\ ~run[<<t, i>>].holds
  BY DEF Init, BoardInit, NoRun, Edges
<1> QED
  BY <1>1, <1>2 DEF CardIsFit, RunsAreFit, StartIsFit, HandlersAreFit, Works, Made, Reserved

-----------------------------------------------------------------------------
(* Working runs are drawn                                                   *)

\* A card whose run works is drawn as worked or was put elsewhere by hand,
\* or it failed and is about to be lifted.
DrawnSoon(t) ==
  Works(Edge(t)) =>
    \/ byHand[t] \/ card[t].column = "in_progress"
    \/ card[t].column = "failed" /\ \E h \in handlers : h.of = Edge(t) /\ h.kind = "working"

\* A card that keeps its column and run is drawn as it was.
LEMMA StaysDrawn ==
  ASSUME RowsAreTyped, NEW t \in Cards, DrawnSoon(t), SameCard(t), Remembers(t),
         Works(Edge(t))' => Works(Edge(t)),
         \A h \in handlers : h.of = Edge(t) /\ h.kind = "working" /\ card[t].column = "failed" => h \in handlers'
  PROVE  DrawnSoon(t)'
<1>1. Edge(t)' = Edge(t) /\ card'[t].column = card[t].column
  BY DEF SameCard, Edge
<1>2. byHand[t] => byHand'[t] \/ card'[t].column = "in_progress"
  BY <1>1 DEF Remembers, DrawnWorking
<1> QED
  BY <1>1, <1>2 DEF DrawnSoon

\* A card left alone is drawn as it was.
LEMMA UntouchedStaysDrawn ==
  ASSUME RowsAreTyped, NEW t \in Cards, DrawnSoon(t), Untouched(t)
  PROVE  DrawnSoon(t)'
<1>1. Edge(t)' = Edge(t) /\ Edge(t) \in Edges /\ Edge(t)[1] = t /\ SameCard(t) /\ Remembers(t) /\ SameRuns(t)
  BY EdgesAre DEF Untouched, SameCard, Edge
<1>2. Works(Edge(t))' => Works(Edge(t))
  BY <1>1, SameRunsAt DEF Works
<1>3. \A h \in handlers : h.of = Edge(t) => h \in handlers'
  BY <1>1 DEF Untouched, RowsAreTyped
<1> QED
  BY <1>1, <1>2, <1>3, StaysDrawn

\* Each step of a start leaves a working run drawn, or to be drawn.
LEMMA StartStepsDraw ==
  ASSUME RowsAreTyped, RowsAreTyped', Calm, NEW t \in Cards, CardIsSound(t), CardIsFit(t), DrawnSoon(t), StartGoes(t)
  PROVE  DrawnSoon(t)'
<1> DEFINE s == start[t]
<1>0. Edge(t) = <<t, card[t].run>> /\ Edge(t)' = <<t, card'[t].run>>
      /\ card[t].run \in 0 .. Threads /\ card'[t].run \in 0 .. Threads
  <2>1. card[t] \in CardType /\ card'[t] \in CardType
    BY DEF RowsAreTyped
  <2> QED
    BY <2>1 DEF Edge, CardType
<1>1. CASE ReadCard(t) \/ JudgeRun(t) \/ CountRuns(t) \/ ClearStamp(t) \/ (Reserve(t) /\ card[t].column # start[t].from)
  <2>1. SameCard(t) /\ run' = run /\ Remembers(t) /\ handlers \subseteq handlers'
    BY <1>1, QuietStartIs DEF QuietStart
  <2>2. Works(Edge(t))' => Works(Edge(t))
    BY <2>1 DEF Works, Edge, SameCard
  <2> QED
    BY <2>1, <2>2, StaysDrawn
<1>2. CASE Reserve(t) /\ card[t].column = start[t].from
  BY <1>2, ReserveIs DEF DrawnSoon
<1>3. ASSUME start[t].at \in Made, run' = run PROVE DrawnSoon(t)'
  <2>1. \A i \in 0 .. Threads : ~Works(<<t, i>>)
    BY <1>3, MadeIsAloof
  <2> QED
    BY <1>0, <1>3, <2>1 DEF DrawnSoon, Works
<1>4. CASE Choose(t)
  <2>1. s.at = "choose" /\ SameCard(t)
        /\ \A i \in 0 .. Threads : run'[<<t, i>>] = run[<<t, i>>] \/ run'[<<t, i>>].status = "pending"
    <3>1. /\ start[t].at = "choose" /\ SameCard(t)
          /\ \/ run' = run
             \/ \E j \in 1 .. Threads :
                  /\ run'[<<t, j>>].status = "pending"
                  /\ \A i \in 0 .. Threads : i # j => run'[<<t, i>>] = run[<<t, i>>]
      BY <1>4, ChooseIs
    <3> QED
      BY <3>1
  <2>2. \A i \in 0 .. Threads : ~Works(<<t, i>>)
    BY <2>1, BoardAssumption DEF CardIsSound, Judged, Works
  <2> QED
    BY <1>0, <2>1, <2>2 DEF DrawnSoon, Works
<1>5. CASE Link(t)
  BY <1>3, <1>5, LinkIs DEF Made
<1>6. CASE Send(t)
  <2>1. /\ s.at = "send" /\ SameCard(t)
        /\ \/ handlers' = handlers \union Broadcast("working", Thread(t), "none")
           \/ run' = run
    BY <1>6, SendIs
  <2>2. CASE run' = run
    BY <1>3, <2>1, <2>2 DEF Made
  <2>3. CASE handlers' = handlers \union Broadcast("working", Thread(t), "none")
    <3>1. card[t].column \in {"in_progress", "failed"}
      BY <2>1 DEF CardIsFit, StartIsFit, Reserved
    <3>2. Thread(t) = Edge(t)'
      BY <2>1 DEF CardIsSound, Edge, Thread, SameCard
    <3>3. Handler("working", Thread(t), "none") \in handlers'
      BY <2>3 DEF Broadcast
    <3>4. Handler("working", Thread(t), "none").kind = "working" /\ Handler("working", Thread(t), "none").of = Thread(t)
      BY DEF Handler
    <3> QED
      BY <2>1, <3>1, <3>2, <3>3, <3>4 DEF DrawnSoon, SameCard
  <2> QED
    BY <2>1, <2>2, <2>3
<1>7. CASE Unlink(t)
  BY <1>3, <1>7, UnlinkIs DEF Made
<1>8. CASE GiveBack(t)
  <2>1. start[t].at = "giveback" /\ run' = run
    BY <1>8, GiveBackIs
  <2> QED
    BY <1>3, <2>1 DEF Made
<1>9. CASE Discard(t)
  <2>1. /\ s.at = "discard"
        /\ \A i \in 0 .. Threads : run'[<<t, i>>] = run[<<t, i>>] \/ run'[<<t, i>>].status = "discarded"
    <3>1. Thread(t) = <<t, s.thread>>
      BY DEF Thread
    <3> QED
      BY <1>9, <3>1, DiscardIs
  <2>2. \A i \in 0 .. Threads : ~Works(<<t, i>>)
    BY <2>1, MadeIsAloof DEF Made
  <2> QED
    BY <1>0, <2>1, <2>2 DEF DrawnSoon, Works
<1> QED
  BY <1>1, <1>2, <1>4, <1>5, <1>6, <1>7, <1>8, <1>9 DEF StartGoes

\* Each handler leaves a working run drawn, or to be drawn: none that puts the
\* card back is about an end older than the work.
LEMMA HandlerStepsDraw ==
  ASSUME RowsAreTyped, RowsAreTyped', NEW h \in handlers, CardIsSound(h.of[1]), CardIsFit(h.of[1]), DrawnSoon(h.of[1]),
         Hears(h)
  PROVE  DrawnSoon(h.of[1])'
<1> DEFINE t == h.of[1]
<1>1. /\ t \in Cards /\ h.of \in Edges /\ h.of = <<t, h.of[2]>> /\ Edge(t) = <<t, card[t].run>> /\ Edge(t) \in Edges
      /\ card[t] \in CardType
  BY HandlerIsOf, EdgesAre DEF Edge
<1>2. run' = run /\ Remembers(t) /\ handlers \ {h} \subseteq handlers'
  BY HandlerStepIs DEF Hears
<1>3. Alone(t, h)
  BY DEF CardIsFit, HandlersAreFit
<1>4. ASSUME SameCard(t), h.kind # "working" \/ card[t].column # "failed" \/ h.of # Edge(t) PROVE DrawnSoon(t)'
  <2>1. Works(Edge(t))' => Works(Edge(t))
    BY <1>2, <1>4 DEF Works, Edge, SameCard
  <2>2. \A g \in handlers : g.of = Edge(t) /\ g.kind = "working" /\ card[t].column = "failed" => g \in handlers'
    BY <1>2, <1>4
  <2> QED
    BY <1>1, <1>2, <1>4, <2>1, <2>2, StaysDrawn
<1>5. ASSUME card'[t].run = card[t].run, ~Works(Edge(t)) PROVE DrawnSoon(t)'
  BY <1>2, <1>5 DEF DrawnSoon, Works, Edge
<1>6. card' = card => SameCard(t)
  BY DEF SameCard
<1>7. CASE SettleReads(h) \/ ReleaseReads(h) \/ Finishes(h) \/ Rechecks(h) \/ OwedReconcile(h)
  BY <1>4, <1>6, <1>7 DEF SettleReads, ReleaseReads, Finishes, Rechecks, OwedReconcile
<1>8. CASE SettleStamps(h)
  <2>1. \/ card' = card \/ card' = [card EXCEPT ![t].stopped = "user"]
        \/ card' = [card EXCEPT ![t].stopped = "crash"]
    BY <1>8 DEF SettleStamps
  <2>2. SameCard(t) /\ h.kind # "working"
    BY <1>1, <1>8, <2>1, WritesOfCard DEF SameCard, SettleStamps
  <2> QED
    BY <1>4, <2>2
<1>9. CASE SettleMoves(h)
  <2>1. h.kind \in {"ended", "reconcile", "deleted"} /\ h.at = "move" /\ (card' = MovedTo(t, h.saw) \/ card' = card)
    BY <1>9 DEF SettleMoves
  <2>2. card'[t].run = card[t].run
    BY <1>1, <2>1, WritesOfCard
  <2>3. ~Works(Edge(t))
    BY <1>1, <1>3, <2>1 DEF Alone, Works, Ended, CardIsSound
  <2> QED
    BY <1>5, <2>2, <2>3
<1>10. CASE FollowReads(h)
  <2>1. card' = card
    BY <1>10 DEF FollowReads
  <2>2. CASE Names(h) /\ card[t].column = "failed"
    <3>0. PICK n : n = Later(h, "move", "in_progress")
      OBVIOUS
    <3>1. n \in handlers'
      BY <1>10, <2>2, <3>0 DEF FollowReads, GoesOn, GoesOnTo, Later
    <3>2. n.kind = h.kind /\ n.of = h.of
      BY <3>0, NextIs
    <3>3. n.kind = "working" /\ n.of = Edge(t)
      BY <1>3, <1>10, <3>2 DEF FollowReads, Alone
    <3>4. Edge(t)' = Edge(t)
      BY <2>1 DEF Edge
    <3> QED
      BY <2>1, <2>2, <3>1, <3>3, <3>4 DEF DrawnSoon
  <2>3. CASE ~Names(h)
    <3>1. h.of = Edge(t) /\ Works(h.of) /\ card[t].run # 0
      BY <1>1, <1>3, <1>10 DEF FollowReads, Alone, CardIsSound, Works
    <3> QED
      BY <1>1, <2>3, <3>1 DEF Names, NamedBy, Exists, Works
  <2>4. CASE card[t].column # "failed"
    BY <1>4, <1>6, <2>1, <2>4
  <2> QED
    BY <2>2, <2>3, <2>4
<1>11. CASE FollowMoves(h)
  <2>1. card' = IF card[t].column = "failed" THEN MovedTo(t, "in_progress") ELSE card
    BY <1>11 DEF FollowMoves
  <2>2. CASE card[t].column = "failed"
    BY <1>1, <2>1, <2>2, WritesOfCard DEF DrawnSoon
  <2>3. CASE card[t].column # "failed"
    BY <1>4, <1>6, <2>1, <2>3
  <2> QED
    BY <2>2, <2>3
<1>12. CASE ReleaseUnlinks(h)
  <2>1. card'[t].run = 0
    BY <1>1, <1>12, WritesOfCard DEF ReleaseUnlinks
  <2> QED
    BY <1>2, <2>1 DEF DrawnSoon, Works, Edge, CardIsSound
<1> QED
  BY <1>7, <1>8, <1>9, <1>10, <1>11, <1>12 DEF Hears

\* A drag is a choice by hand; the other acts leave the card where it is.
LEMMA PeopleDraw ==
  ASSUME RowsAreTyped, RowsAreTyped', Calm, NEW t \in Cards, DrawnSoon(t), ActedOn(t)
  PROVE  DrawnSoon(t)'
<1>1. CASE PostStart(t) \/ PressRun(t) \/ LoadBoard(t)
  <2>1. SameCard(t) /\ run' = run /\ Remembers(t) /\ handlers \subseteq handlers'
    BY <1>1, ClaimIs, LoadBoardIs
  <2>2. Works(Edge(t))' => Works(Edge(t))
    BY <2>1 DEF Works, Edge, SameCard
  <2> QED
    BY <2>1, <2>2, StaysDrawn
<1>2. ASSUME NEW to \in Columns, Drag(t, to) PROVE DrawnSoon(t)'
  <2>1. byHand'[t] <=> ~DrawnWorking(t)'
    BY <1>2, DragIs
  <2> QED
    BY <2>1 DEF DrawnWorking, DrawnSoon
<1> QED
  BY <1>1, <1>2 DEF ActedOn

\* A run set going from its chat is drawn, chosen by hand, or lifted by the
\* handler set off.
LEMMA ChatsDraw ==
  ASSUME RowsAreTyped, RowsAreTyped', Calm, NEW r \in Runs, CardIsSound(r[1]), DrawnSoon(r[1]), ChatGoes(r)
  PROVE  DrawnSoon(r[1])'
<1> DEFINE t == r[1]
<1>1. t \in Cards /\ Edge(t) = <<t, card[t].run>> /\ card[t].run \in 0 .. Threads /\ r = <<t, r[2]>>
  <2>1. t \in Cards /\ r = <<t, r[2]>>
    BY DEF Runs
  <2> QED
    BY <2>1, EdgesAre DEF Edge, CardType
<1>2. CASE FollowUp(r)
  <2>1. /\ r = Edge(t) /\ SameCard(t) /\ handlers' = handlers \union Broadcast("working", r, "none")
        /\ (byHand'[t] <=> card[t].column \notin {"failed", "in_progress"})
    BY <1>2, FollowUpIs
  <2>2. Edge(t)' = r
    BY <2>1 DEF Edge, SameCard
  <2>3. Handler("working", r, "none") \in handlers'
    BY <2>1 DEF Broadcast
  <2>4. Handler("working", r, "none").kind = "working" /\ Handler("working", r, "none").of = r
    BY DEF Handler
  <2> QED
    BY <2>1, <2>2, <2>3, <2>4 DEF DrawnSoon, SameCard
<1>3. ASSUME SameCard(t), Remembers(t), handlers \subseteq handlers', OtherRunsStay(r),
             run'[r].status = run[r].status \/ run'[r].status # "running"
      PROVE  DrawnSoon(t)'
  <2>1. Works(Edge(t))' => Works(Edge(t))
    <3>1. Edge(t)' = Edge(t)
      BY <1>3 DEF Edge, SameCard
    <3>2. Edge(t) # r => run'[Edge(t)] = run[Edge(t)]
      BY <1>1, <1>3 DEF OtherRunsStay
    <3> QED
      BY <1>3, <3>1, <3>2 DEF Works
  <2> QED
    BY <1>1, <1>3, <2>1, StaysDrawn
<1>4. CASE DeleteChat(r)
  BY <1>3, <1>4, DeleteChatIs
<1>5. CASE WorkEnds(r)
  BY <1>3, <1>5, WorkEndsIs
<1>6. ASSUME NEW how \in Ended, Ends(r, how) PROVE DrawnSoon(t)'
  BY <1>3, <1>6, EndsIs DEF Ended
<1>7. ASSUME NEW to \in Columns, AgentMoves(r, to) PROVE DrawnSoon(t)'
  <2>1. byHand'[t] <=> ~DrawnWorking(t)'
    BY <1>7, AgentMovesIs
  <2> QED
    BY <2>1 DEF DrawnWorking, DrawnSoon
<1> QED
  BY <1>2, <1>4, <1>5, <1>6, <1>7 DEF ChatGoes

CardsAreDrawn == \A t \in Cards : DrawnSoon(t)

\* Every step keeps the working runs drawn, or to be drawn.
LEMMA CardsStayDrawn ==
  Calm /\ RowsAreTyped /\ CardsAreSound /\ CardsAreFit /\ CardsAreDrawn /\ [Next]_vars => CardsAreDrawn'
<1> SUFFICES ASSUME Calm, RowsAreTyped, CardsAreSound, CardsAreFit, CardsAreDrawn, [Next]_vars PROVE CardsAreDrawn'
  OBVIOUS
<1>1. RowsAreTyped'
  BY RowsStayTyped
<1>2. \A t \in Cards : CardIsSound(t) /\ CardIsFit(t) /\ DrawnSoon(t)
  BY DEF CardsAreSound, CardsAreFit, CardsAreDrawn
<1>3. ASSUME NEW t \in Cards, OnlyCard(t), DrawnSoon(t)' PROVE CardsAreDrawn'
  BY <1>2, <1>3, UntouchedStaysDrawn DEF CardsAreDrawn, OnlyCard
<1>4. CASE \A u \in Cards : Untouched(u)
  BY <1>2, <1>4, UntouchedStaysDrawn DEF CardsAreDrawn
<1>5. ASSUME NEW t \in Cards, OnlyCard(t), StartGoes(t) \/ ActedOn(t) PROVE CardsAreDrawn'
  BY <1>1, <1>2, <1>3, <1>5, StartStepsDraw, PeopleDraw
<1>6. ASSUME NEW h \in handlers, h.of[1] \in Cards, OnlyCard(h.of[1]), Hears(h) PROVE CardsAreDrawn'
  BY <1>1, <1>2, <1>3, <1>6, HandlerStepsDraw
<1>7. ASSUME NEW r \in Runs, r[1] \in Cards, OnlyCard(r[1]), ChatGoes(r) PROVE CardsAreDrawn'
  BY <1>1, <1>2, <1>3, <1>7, ChatsDraw
<1>8. ASSUME NEW cause \in {"quit", "crash"}, Restart(cause) PROVE CardsAreDrawn'
  <2>1. \A r \in Edges : ~Works(r)'
    BY <1>8, RestartSound
  <2>2. \A t \in Cards : Edge(t)' \in Edges
    BY <1>1 DEF RowsAreTyped, Edge, Edges, CardType
  <2> QED
    BY <2>1, <2>2 DEF CardsAreDrawn, DrawnSoon, Works
<1> QED
  BY <1>4, <1>5, <1>6, <1>7, <1>8, StepsTouchOneCard

\* On a calm board, once everything in flight has ended, a card whose run
\* works is drawn as worked unless its column was chosen by hand: whatever
\* moves a card out of in_progress (TaskSettleService.settle, releaseDeletedRun,
\* abandon) does so about a run that no longer works, and the followRunWorking
\* that every send and every follow-up sets off lifts a failed card.
THEOREM WorkingRunsAreDrawnAtRest ==
  ASSUME Calm
  PROVE  Spec => []WorkingRunsAreDrawn
<1>1. Init => RowsAreTyped /\ CardsAreSound /\ CardsAreFit /\ CardsAreDrawn
  <2>1. ASSUME Init, NEW t \in Cards PROVE DrawnSoon(t)
    <3>1. card[t].run = 0 /\ <<t, 0>> \in Edges /\ run = [r \in Edges |-> NoRun]
      BY <2>1, BoardAssumption DEF Init, BoardInit, Edges
    <3> QED
      BY <3>1 DEF DrawnSoon, Works, Edge, NoRun
  <2> QED
    BY <2>1, InitTyped, CardsStart, CardsStartFit DEF CardsAreDrawn
<1>2. RowsAreTyped /\ CardsAreSound /\ CardsAreFit /\ CardsAreDrawn /\ [Next]_vars
        => (RowsAreTyped /\ CardsAreSound /\ CardsAreFit /\ CardsAreDrawn)'
  BY Calm, RowsStayTyped, CardsStaySound, CardsStayFit, CardsStayDrawn
<1>3. CardsAreDrawn => WorkingRunsAreDrawn
  BY DEF CardsAreDrawn, DrawnSoon, WorkingRunsAreDrawn, Quiescent, Works
<1> QED
  BY <1>1, <1>2, <1>3, PTL DEF Spec

-----------------------------------------------------------------------------
(* What is finished is announced                                            *)

\* The finish of the card's run is still to be judged.
Judges(t, h) ==
  /\ h.of = Edge(t)
  /\ \/ h.kind = "finish"
     \/ h.kind = "recheck" /\ h.of \in withheld /\ card[t].run # 0
     \/ h.kind = "ended" /\ (h.at = "read" \/ (h.at = "stamp" /\ h.saw = "done"))

\* A card in Done whose run works no more is announced, or is withheld for
\* what its run holds, or is about to be judged.
ToldSoon(t) ==
  card[t].column = "done" /\ ~Live(Edge(t)) =>
    \/ ~run[Edge(t)].holds /\ told[t]
    \/ run[Edge(t)].holds /\ Edge(t) \in withheld
    \/ \E h \in handlers : Judges(t, h)

\* A card that keeps its column and run, and that is judged as before, is
\* told as it was.
LEMMA StaysTold ==
  ASSUME RowsAreTyped, NEW t \in Cards, ToldSoon(t), SameCard(t), Remembers(t),
         run'[Edge(t)] = run[Edge(t)] \/ card[t].column # "done",
         Edge(t) \in withheld' <=> Edge(t) \in withheld,
         \A h \in handlers : Judges(t, h) /\ card[t].column = "done" => h \in handlers'
  PROVE  ToldSoon(t)'
<1>1. Edge(t)' = Edge(t) /\ card'[t].column = card[t].column /\ card'[t].run = card[t].run
  BY DEF SameCard, Edge
<1> SUFFICES ASSUME card[t].column = "done", ~Live(Edge(t))'
             PROVE  \/ ~run'[Edge(t)].holds /\ told'[t]
                    \/ run'[Edge(t)].holds /\ Edge(t) \in withheld'
                    \/ \E h \in handlers' : Judges(t, h)'
  BY <1>1 DEF ToldSoon
<1>2. run'[Edge(t)] = run[Edge(t)] /\ ~Live(Edge(t))
  BY <1>1 DEF Live
<1>3. CASE ~run[Edge(t)].holds /\ told[t]
  <2>1. FinishedIn(card', run', t)
    BY <1>1, <1>2, <1>3 DEF FinishedIn, Live, Edge
  <2> QED
    BY <1>2, <1>3, <2>1 DEF Remembers
<1>4. CASE run[Edge(t)].holds /\ Edge(t) \in withheld
  BY <1>2, <1>4
<1>5. ASSUME NEW h \in handlers, Judges(t, h) PROVE h \in handlers' /\ Judges(t, h)'
  BY <1>1, <1>5 DEF Judges
<1> QED
  BY <1>1, <1>2, <1>3, <1>4, <1>5 DEF ToldSoon

\* A card left alone stays announced, or to be.
LEMMA UntouchedStaysTold ==
  ASSUME RowsAreTyped, NEW t \in Cards, ToldSoon(t), Untouched(t)
  PROVE  ToldSoon(t)'
<1>1. Edge(t) \in Edges /\ Edge(t)[1] = t /\ SameCard(t) /\ Remembers(t) /\ SameRuns(t) /\ SameWithheld(t)
  BY EdgesAre DEF Untouched, Edge
<1>2. run'[Edge(t)] = run[Edge(t)]
  BY <1>1, SameRunsAt
<1>3. Edge(t) \in withheld' <=> Edge(t) \in withheld
  BY <1>1, EdgesAre DEF SameWithheld, Edge, CardType
<1>4. \A h \in handlers : Judges(t, h) => h \in handlers'
  BY <1>1 DEF Untouched, RowsAreTyped, Judges
<1> QED
  BY <1>1, <1>2, <1>3, <1>4, StaysTold

\* Each step of a start keeps a finished card announced, or to be.
LEMMA StartStepsTell ==
  ASSUME RowsAreTyped, RowsAreTyped', Calm, NEW t \in Cards, CardIsSound(t), CardIsFit(t), CardIsFit(t)', ToldSoon(t),
         StartGoes(t)
  PROVE  ToldSoon(t)'
<1> DEFINE s == start[t]
<1>1. CASE ReadCard(t) \/ JudgeRun(t) \/ CountRuns(t) \/ ClearStamp(t) \/ (Reserve(t) /\ card[t].column # start[t].from)
  <2>1. SameCard(t) /\ run' = run /\ Remembers(t) /\ handlers \subseteq handlers' /\ withheld' = withheld
    BY <1>1, QuietStartIs DEF QuietStart
  <2> QED
    BY <2>1, StaysTold
<1>2. ASSUME start'[t].at \in Reserved PROVE ToldSoon(t)'
  BY <1>2 DEF CardIsFit, StartIsFit, ToldSoon
<1>3. CASE Reserve(t) /\ card[t].column = start[t].from
  BY <1>2, <1>3, ReserveIs DEF Reserved
<1>4. CASE Choose(t)
  <2>1. start'[t].at = "link" \/ start'[t].at = "giveback"
    BY <1>4, ChooseIs
  <2> QED
    BY <1>2, <2>1 DEF Reserved
<1>5. CASE Link(t)
  <2>1. start'[t].at \in {"send", "unlink", "giveback"}
    BY <1>5, LinkIs
  <2> QED
    BY <1>2, <2>1 DEF Reserved
<1>6. CASE Send(t)
  <2>1. s.at = "send" /\ SameCard(t)
    BY <1>6, SendIs
  <2>2. card[t].column \in {"in_progress", "failed"}
    BY <2>1 DEF CardIsFit, StartIsFit, Reserved
  <2> QED
    BY <2>1, <2>2 DEF ToldSoon, SameCard
<1>7. CASE Unlink(t)
  BY <1>2, <1>7, UnlinkIs DEF Reserved
<1>8. CASE GiveBack(t)
  <2> DEFINE finish == IF card[t].column = "in_progress" THEN FinishCheck(t, s.from) ELSE {}
  <2>1. /\ s.at = "giveback" /\ card'[t].run = card[t].run /\ finish \subseteq handlers'
        /\ card'[t].column = (IF card[t].column = "in_progress" THEN s.from ELSE card[t].column)
    BY <1>8, GiveBackIs
  <2>2. card[t].column \in {"in_progress", "failed"} /\ Edge(t)' = Edge(t)
    BY <2>1 DEF CardIsFit, StartIsFit, Reserved, Edge
  <2>3. CASE card'[t].column = "done"
    <3>0. PICK n : n = Handler("finish", Edge(t), "none")
      OBVIOUS
    <3>1. n \in handlers'
      BY <2>1, <2>2, <2>3, <3>0 DEF FinishCheck
    <3>2. Judges(t, n)'
      BY <2>2, <3>0 DEF Judges, Handler
    <3> QED
      BY <3>1, <3>2 DEF ToldSoon
  <2> QED
    BY <2>3 DEF ToldSoon
<1>9. CASE Discard(t)
  <2>1. /\ s.at = "discard" /\ SameCard(t) /\ withheld' = withheld /\ Remembers(t) /\ handlers \subseteq handlers'
        /\ \A i \in 0 .. Threads : i # start[t].thread => run'[<<t, i>>] = run[<<t, i>>]
    BY <1>9, DiscardIs
  <2>2. s.thread # s.found /\ card[t].run = s.found
    BY <2>1 DEF CardIsFit, StartIsFit, Made, CardIsSound
  <2>3. run'[Edge(t)] = run[Edge(t)]
    BY <2>1, <2>2, EdgesAre DEF Edge, CardType
  <2> QED
    BY <2>1, <2>3, StaysTold
<1> QED
  BY <1>1, <1>3, <1>4, <1>5, <1>6, <1>7, <1>8, <1>9 DEF StartGoes

\* What the judgement of a finish comes to.
LEMMA JudgedIs ==
  ASSUME RowsAreTyped, NEW r \in Edges, NEW t \in Cards, r[1] = t, JudgeFinish(r), card' = card, run' = run,
         ToldSoon(t), card[t].column = "done", ~Live(Edge(t)),
         r = Edge(t) \/ ~\E h \in handlers : Judges(t, h)
  PROVE  \/ ~run[Edge(t)].holds /\ told'[t]
         \/ run[Edge(t)].holds /\ Edge(t) \in withheld'
<1>1. told' = told \/ told'[t] = Finished(t)
  BY DEF JudgeFinish, Announce, RowsAreTyped
<1>2. Finished(t) <=> ~run[Edge(t)].holds
  BY DEF Finished, FinishedIn, Edge, Live
<1>3. CASE r = Edge(t)
  <2>1. CASE run[r].holds
    BY <1>3, <2>1 DEF JudgeFinish
  <2>2. CASE ~run[r].holds
    <3>1. told'[t] = Finished(t)
      BY <1>3, <2>2 DEF JudgeFinish, Announce, RowsAreTyped
    <3> QED
      BY <1>2, <1>3, <2>2, <3>1
  <2> QED
    BY <2>1, <2>2
<1>4. CASE r # Edge(t) /\ ~\E h \in handlers : Judges(t, h)
  <2>1. Edge(t) \in withheld' <=> Edge(t) \in withheld
    BY <1>4 DEF JudgeFinish
  <2> QED
    BY <1>1, <1>2, <1>4, <2>1 DEF ToldSoon
<1> QED
  BY <1>3, <1>4

\* Each handler keeps a finished card announced, or to be: one that withholds
\* the announcement remembers the run.
LEMMA HandlerStepsTell ==
  ASSUME RowsAreTyped, RowsAreTyped', NEW h \in handlers, CardIsSound(h.of[1]), CardIsFit(h.of[1]), ToldSoon(h.of[1]),
         Hears(h)
  PROVE  ToldSoon(h.of[1])'
<1> DEFINE t == h.of[1]
<1>1. /\ t \in Cards /\ h.of \in Edges /\ h.of = <<t, h.of[2]>> /\ Edge(t) = <<t, card[t].run>> /\ Edge(t) \in Edges
      /\ card[t] \in CardType
  BY HandlerIsOf, EdgesAre DEF Edge
<1>2. run' = run /\ Remembers(t) /\ handlers \ {h} \subseteq handlers'
  BY HandlerStepIs DEF Hears
<1>3. Alone(t, h)
  BY DEF CardIsFit, HandlersAreFit
<1>4. ASSUME SameCard(t), withheld' = withheld, ~Judges(t, h) \/ card[t].column # "done" PROVE ToldSoon(t)'
  BY <1>1, <1>2, <1>4, StaysTold
<1>5. ASSUME card'[t].column # "done" PROVE ToldSoon(t)'
  BY <1>5 DEF ToldSoon
<1>6. card' = card => SameCard(t)
  BY DEF SameCard
<1>7. ASSUME SameCard(t), NEW n \in handlers', Judges(t, n)' PROVE ToldSoon(t)'
  BY <1>7 DEF ToldSoon
<1>8. CASE FollowReads(h) \/ ReleaseReads(h) \/ OwedReconcile(h)
  <2>1. card' = card /\ withheld' = withheld /\ h.kind \in {"working", "deleted", "owed"}
    BY <1>8 DEF FollowReads, ReleaseReads, OwedReconcile
  <2> QED
    BY <1>4, <1>6, <2>1 DEF Judges
<1>9. CASE SettleReads(h)
  <2>1. card' = card /\ withheld' = withheld /\ h.kind \in {"ended", "reconcile"}
    BY <1>9 DEF SettleReads
  <2>2. CASE Judges(t, h) /\ card[t].column = "done"
    <3>1. h.kind = "ended" /\ h.of = Edge(t) /\ run[h.of].status \in Ended
      BY <1>3, <2>1, <2>2 DEF Judges, Alone
    <3>2. card[t].run # 0
      BY <1>1, <3>1 DEF CardIsSound, Ended
    <3>3. Names(h)
      BY <1>1, <3>1, <3>2 DEF Names, Exists, NamedBy, Ended
    <3>0. PICK n : n = Later(h, "stamp", card[t].column)
      OBVIOUS
    <3>4. n \in handlers'
      BY <1>9, <3>0, <3>1, <3>3 DEF SettleReads, GoesOn, GoesOnTo, Later
    <3>5. n.kind = "ended" /\ n.of = h.of /\ n.at = "stamp" /\ n.saw = "done"
      BY <2>2, <3>0, <3>1, NextIs
    <3>6. Judges(t, n)'
      BY <2>1, <3>1, <3>5 DEF Judges, Edge
    <3> QED
      BY <1>6, <1>7, <2>1, <3>4, <3>6
  <2> QED
    BY <1>4, <1>6, <2>1, <2>2
<1>10. CASE SettleStamps(h)
  <2>1. /\ \/ card' = card \/ card' = [card EXCEPT ![t].stopped = "user"]
           \/ card' = [card EXCEPT ![t].stopped = "crash"]
        /\ withheld' = withheld /\ h.at = "stamp" /\ h.kind \in {"ended", "reconcile"}
    BY <1>10 DEF SettleStamps
  <2>2. SameCard(t)
    <3>1. ASSUME NEW s, card' = [card EXCEPT ![t].stopped = s] PROVE SameCard(t)
      BY <1>1, <3>1, WritesOfCard DEF SameCard
    <3> QED
      BY <1>6, <2>1, <3>1
  <2>3. CASE h.saw = "done" /\ Judges(t, h)
    <3>0. PICK n : n = Handler("finish", h.of, "none")
      OBVIOUS
    <3>4. GoesOnTo(h, Handler("finish", h.of, "none"))
      BY <1>10, <2>3 DEF SettleStamps, Worked
    <3>1. n \in handlers'
      BY <3>0, <3>4 DEF GoesOnTo
    <3>2. n.kind = "finish" /\ n.of = h.of
      BY <3>0 DEF Handler
    <3>3. Judges(t, n)'
      BY <2>2, <2>3, <3>2 DEF Judges, Edge, SameCard
    <3> QED
      BY <1>7, <2>2, <3>1, <3>3
  <2>4. CASE ~(h.saw = "done" /\ Judges(t, h))
    BY <1>4, <2>1, <2>2, <2>4 DEF Judges
  <2> QED
    BY <2>3, <2>4
<1>11. CASE SettleMoves(h)
  <2>1. /\ h.kind \in {"ended", "reconcile", "deleted"} /\ h.at = "move" /\ withheld' = withheld
        /\ card' = IF card[t].column = "in_progress" THEN MovedTo(t, h.saw) ELSE card
    BY <1>11 DEF SettleMoves
  <2>2. h.saw \in {"todo", "failed"}
    BY <1>3, <2>1 DEF Alone
  <2>3. CASE card[t].column = "in_progress"
    BY <1>1, <1>5, <2>1, <2>2, <2>3, WritesOfCard
  <2>4. CASE card[t].column # "in_progress"
    BY <1>4, <1>6, <2>1, <2>4 DEF Judges
  <2> QED
    BY <2>3, <2>4
<1>12. CASE FollowMoves(h)
  <2>1. /\ h.kind = "working" /\ withheld' = withheld
        /\ card' = IF card[t].column = "failed" THEN MovedTo(t, "in_progress") ELSE card
    BY <1>12 DEF FollowMoves
  <2>2. CASE card[t].column = "failed"
    BY <1>1, <1>5, <2>1, <2>2, WritesOfCard
  <2>3. CASE card[t].column # "failed"
    BY <1>4, <1>6, <2>1, <2>3 DEF Judges
  <2> QED
    BY <2>2, <2>3
<1>13. CASE ReleaseUnlinks(h)
  <2>1. card'[t].run = 0 /\ card'[t].column = card[t].column /\ h.kind = "deleted" /\ h.at = "unlink"
    BY <1>1, <1>13, WritesOfCard DEF ReleaseUnlinks
  <2>2. Edge(t)' = <<t, 0>> /\ run'[<<t, 0>>].status = "none" /\ ~run'[<<t, 0>>].holds
    <3>1. run[<<t, 0>>].holds => run[<<t, 0>>].status \in Ended \union {"running"}
      BY BoardAssumption DEF CardIsFit, RunsAreFit
    <3> QED
      BY <1>2, <2>1, <3>1 DEF Edge, CardIsSound, Ended
  <2>3. h.of = Edge(t) /\ Purged(h.of)
    BY <1>3, <2>1 DEF Alone, CardIsSound
  <2>4. ~Live(Edge(t)) /\ ~run[Edge(t)].holds
    <3>1. run[Edge(t)].holds => run[Edge(t)].status \in Ended \union {"running"}
      BY <1>1 DEF CardIsFit, RunsAreFit, CardType
    <3> QED
      BY <2>3, <3>1 DEF Purged, Live, Ended
  <2>5. ~\E g \in handlers : Judges(t, g)
    <3> SUFFICES ASSUME NEW g \in handlers, Judges(t, g) PROVE FALSE
      OBVIOUS
    <3>1. Apart(t, h, g) /\ g.of = h.of
      BY <1>1, <2>1, <2>3 DEF CardIsFit, HandlersAreFit, Judges
    <3> QED
      BY <2>3, <3>1 DEF Apart, Judges
  <2>6. card[t].column = "done" => told'[t]
    <3>1. card[t].column = "done" => told[t] /\ FinishedIn(card', run', t)
      BY <2>1, <2>2, <2>4, <2>5 DEF ToldSoon, FinishedIn
    <3> QED
      BY <1>2, <3>1 DEF Remembers
  <2> QED
    BY <2>1, <2>2, <2>6 DEF ToldSoon
<1>14. ASSUME JudgeFinish(h.of), card' = card, Judges(t, h) \/ ~\E g \in handlers : Judges(t, g)
       PROVE  ToldSoon(t)'
  <2>1. h.of = Edge(t) \/ ~\E g \in handlers : Judges(t, g)
    BY <1>14 DEF Judges
  <2>2. card[t].column = "done" /\ ~Live(Edge(t)) =>
         \/ ~run[Edge(t)].holds /\ told'[t]
         \/ run[Edge(t)].holds /\ Edge(t) \in withheld'
    BY <1>1, <1>2, <1>14, <2>1, JudgedIs
  <2> QED
    BY <1>2, <1>14, <2>2 DEF ToldSoon, Edge, Live
<1>15. ASSUME NEW g \in handlers, Judges(t, g), ~Judges(t, h), card' = card,
              g.kind = "recheck" => (Edge(t) \in withheld => Edge(t) \in withheld')
       PROVE  ToldSoon(t)'
  <2>1. g # h
    BY <1>15
  <2>2. g \in handlers' /\ Judges(t, g)'
    BY <1>2, <1>15, <2>1 DEF Judges, Edge
  <2> QED
    BY <1>6, <1>7, <1>15, <2>2
<1>16. CASE Finishes(h)
  <2>1. h.kind = "finish" /\ JudgeFinish(h.of) /\ card' = card
    BY <1>16 DEF Finishes
  <2>2. CASE Judges(t, h)
    BY <1>14, <2>1, <2>2
  <2>3. ASSUME ~Judges(t, h), NEW g \in handlers, Judges(t, g) PROVE ToldSoon(t)'
    <3>1. h.of # Edge(t)
      BY <2>1, <2>3 DEF Judges
    <3>2. Edge(t) \in withheld => Edge(t) \in withheld'
      BY <2>1, <3>1 DEF JudgeFinish
    <3> QED
      BY <1>15, <2>1, <2>3, <3>2
  <2> QED
    BY <1>14, <2>1, <2>2, <2>3
<1>17. CASE Rechecks(h)
  <2>1. h.kind = "recheck" /\ card' = card
    BY <1>17 DEF Rechecks
  <2>2. CASE h.of \notin withheld
    <3>1. withheld' = withheld
      BY <1>17, <2>2 DEF Rechecks
    <3> QED
      BY <1>4, <1>6, <2>1, <2>2, <3>1 DEF Judges
  <2>3. CASE h.of \in withheld /\ (~NamedBy(h.of) \/ card[t].column # "done")
    <3>1. withheld' = withheld \ {h.of}
      BY <1>17, <2>3 DEF Rechecks
    <3>2. CASE card[t].column # "done"
      BY <1>5, <2>1, <3>2
    <3>3. CASE h.of # Edge(t)
      <4>1. Edge(t) \in withheld' <=> Edge(t) \in withheld
        BY <3>1, <3>3
      <4>2. \A g \in handlers : Judges(t, g) => g \in handlers'
        BY <1>2, <3>3 DEF Judges
      <4> QED
        BY <1>1, <1>2, <1>6, <2>1, <4>1, <4>2, StaysTold
    <3>4. CASE h.of = Edge(t) /\ card[t].run = 0
      <4>1. ~run[Edge(t)].holds
        <5>1. run[<<t, 0>>].holds => run[<<t, 0>>].status \in Ended \union {"running"}
          BY BoardAssumption DEF CardIsFit, RunsAreFit
        <5> QED
          BY <1>1, <3>4, <5>1 DEF CardIsSound, Ended
      <4>2. \A g \in handlers : Judges(t, g) => g \in handlers'
        BY <1>2, <2>1, <3>4 DEF Judges
      <4>3. CASE \E g \in handlers : Judges(t, g)
        <5>1. PICK g \in handlers : Judges(t, g)
          BY <4>3
        <5>2. g \in handlers' /\ Judges(t, g)'
          BY <2>1, <3>4, <4>2, <5>1 DEF Judges, Edge
        <5> QED
          BY <1>6, <1>7, <2>1, <5>2
      <4>4. CASE ~\E g \in handlers : Judges(t, g)
        <5>1. told' = told
          BY <1>17, <2>3 DEF Rechecks
        <5> QED
          BY <1>2, <2>1, <4>1, <4>4, <5>1 DEF ToldSoon, Edge, Live
      <4> QED
        BY <4>3, <4>4
    <3>5. h.of = Edge(t) /\ card[t].column = "done" => card[t].run = 0
      BY <1>1, <2>3 DEF NamedBy
    <3> QED
      BY <3>2, <3>3, <3>4, <3>5
  <2>4. CASE h.of \in withheld /\ NamedBy(h.of) /\ card[t].column = "done"
    <3>1. JudgeFinish(h.of)
      BY <1>17, <2>4 DEF Rechecks
    <3>2. Judges(t, h)
      BY <1>1, <2>1, <2>4 DEF Judges, NamedBy
    <3> QED
      BY <1>14, <2>1, <3>1, <3>2
  <2> QED
    BY <2>2, <2>3, <2>4
<1> QED
  BY <1>8, <1>9, <1>10, <1>11, <1>12, <1>13, <1>16, <1>17 DEF Hears

\* A move to Done by a person sets off the check of the finish.
LEMMA PeopleTell ==
  ASSUME RowsAreTyped, RowsAreTyped', Calm, NEW t \in Cards, ToldSoon(t), ActedOn(t)
  PROVE  ToldSoon(t)'
<1>1. CASE PostStart(t) \/ PressRun(t) \/ LoadBoard(t)
  <2>1. SameCard(t) /\ run' = run /\ Remembers(t) /\ handlers \subseteq handlers' /\ withheld' = withheld
    BY <1>1, ClaimIs, LoadBoardIs
  <2> QED
    BY <2>1, StaysTold
<1>2. ASSUME NEW to \in Columns, Drag(t, to) PROVE ToldSoon(t)'
  <2>1. card'[t].column = to /\ card'[t].run = card[t].run /\ handlers' = handlers \union FinishCheck(t, to)
    BY <1>2, DragIs
  <2>2. CASE to = "done"
    <3>0. PICK n : n = Handler("finish", Edge(t), "none")
      OBVIOUS
    <3>1. n \in handlers'
      BY <2>1, <2>2, <3>0 DEF FinishCheck
    <3>2. Judges(t, n)'
      BY <2>1, <3>0 DEF Judges, Handler, Edge
    <3> QED
      BY <3>1, <3>2 DEF ToldSoon
  <2> QED
    BY <2>1, <2>2 DEF ToldSoon
<1> QED
  BY <1>1, <1>2 DEF ActedOn

\* So does an agent's; the end of a run or of its work sets off the recheck of
\* a finish withheld.
LEMMA ChatsTell ==
  ASSUME RowsAreTyped, RowsAreTyped', Calm, NEW r \in Runs, CardIsSound(r[1]), CardIsFit(r[1]), ToldSoon(r[1]),
         ChatGoes(r)
  PROVE  ToldSoon(r[1])'
<1> DEFINE t == r[1]
<1>1. t \in Cards /\ Edge(t) = <<t, card[t].run>> /\ card[t].run \in 0 .. Threads /\ r = <<t, r[2]>> /\ r \in Edges
  <2>1. t \in Cards /\ r = <<t, r[2]>> /\ r \in Edges
    BY RunsAreEdges DEF Runs
  <2> QED
    BY <2>1, EdgesAre DEF Edge, CardType
<1>2. ASSUME r = Edge(t), SameCard(t), run'[r].status = "running" PROVE ToldSoon(t)'
  BY <1>2 DEF ToldSoon, Live, Edge, SameCard
<1>3. ASSUME SameCard(t), Remembers(t), handlers \subseteq handlers', OtherRunsStay(r), withheld' = withheld, r # Edge(t)
      PROVE  ToldSoon(t)'
  <2>1. run'[Edge(t)] = run[Edge(t)]
    BY <1>1, <1>3 DEF OtherRunsStay
  <2> QED
    BY <1>1, <1>3, <2>1, StaysTold
<1>4. CASE FollowUp(r)
  BY <1>2, <1>4, FollowUpIs
<1>5. CASE DeleteChat(r)
  <2>1. /\ r[2] # 0 /\ SameCard(t) /\ withheld' = withheld /\ Remembers(t)
        /\ AtPeace(t) /\ (\A h \in handlers : h.of = r => h.at # "read" /\ h.kind # "working")
        /\ run[r].status \in Ended /\ ~run[r].holds
        /\ run'[r].status = "deleted" /\ ~run'[r].holds /\ OtherRunsStay(r)
        /\ handlers \subseteq handlers'
    BY <1>5, DeleteChatIs
  <2>2. CASE r = Edge(t)
    <3>1. ~\E h \in handlers : Judges(t, h)
      <4> SUFFICES ASSUME NEW h \in handlers, Judges(t, h) PROVE FALSE
        OBVIOUS
      <4>1. h.of = r /\ h.of[1] = t
        BY <2>2 DEF Judges
      <4>2. Alone(t, h) /\ h.kind # "ended" /\ h.at # "read"
        BY <2>1, <4>1 DEF AtPeace, CardIsFit, HandlersAreFit
      <4> QED
        BY <4>2 DEF Judges, Alone
    <3>2. card[t].column = "done" => told[t]
      BY <2>1, <2>2, <3>1 DEF ToldSoon, Live, Ended
    <3>3. card'[t].column = "done" => FinishedIn(card', run', t)
      BY <1>1, <2>1, <2>2 DEF FinishedIn, SameCard
    <3>4. card'[t].column = "done" => told'[t]
      BY <2>1, <3>2, <3>3 DEF Remembers, SameCard
    <3>5. Edge(t)' = r
      BY <2>1, <2>2 DEF Edge, SameCard
    <3> QED
      BY <2>1, <3>4, <3>5 DEF ToldSoon
  <2> QED
    BY <1>3, <2>1, <2>2
<1>6. CASE WorkEnds(r)
  <2>1. /\ r[2] # 0 /\ SameCard(t) /\ withheld' = withheld /\ Remembers(t) /\ run[r].holds
        /\ run'[r].status = run[r].status /\ OtherRunsStay(r)
        /\ handlers' = handlers \union (IF r \in withheld THEN {Handler("recheck", r, "none")} ELSE {})
    BY <1>6, WorkEndsIs
  <2>2. CASE r = Edge(t)
    <3>1. Edge(t)' = r /\ card'[t].run = card[t].run /\ card'[t].column = card[t].column /\ card[t].run # 0
      BY <1>1, <2>1, <2>2 DEF Edge, SameCard
    <3>2. \A h \in handlers : Judges(t, h) => Judges(t, h)'
      BY <2>1, <2>2, <3>1 DEF Judges
    <3>3. CASE r \in withheld
      <4>1. Handler("recheck", r, "none") \in handlers'
        BY <2>1, <3>3
      <4>2. Judges(t, Handler("recheck", r, "none"))'
        BY <2>1, <3>1, <3>3 DEF Judges, Handler
      <4> QED
        BY <4>1, <4>2 DEF ToldSoon
    <3>4. CASE r \notin withheld
      <4>1. card[t].column = "done" /\ ~Live(r) => \E h \in handlers : Judges(t, h)
        BY <2>1, <2>2, <3>4 DEF ToldSoon
      <4>2. handlers \subseteq handlers' /\ (Live(r)' <=> Live(r))
        BY <2>1 DEF Live
      <4> QED
        BY <3>1, <3>2, <4>1, <4>2 DEF ToldSoon
    <3> QED
      BY <3>3, <3>4
  <2> QED
    BY <1>3, <2>1, <2>2
<1>7. ASSUME NEW how \in Ended, Ends(r, how) PROVE ToldSoon(t)'
  <2>1. r = Edge(t) /\ SameCard(t) /\ handlers' = handlers \union Broadcast("ended", r, how)
    BY <1>7, EndsIs
  <2>2. Handler("ended", r, how) \in handlers'
    BY <2>1 DEF Broadcast
  <2>3. Judges(t, Handler("ended", r, how))'
    BY <2>1 DEF Judges, Handler, Edge, SameCard
  <2> QED
    BY <2>2, <2>3 DEF ToldSoon
<1>8. ASSUME NEW to \in Columns, AgentMoves(r, to) PROVE ToldSoon(t)'
  <2>1. r = Edge(t) /\ run' = run /\ card'[t].run = card[t].run /\ Works(r)
    BY <1>8, AgentMovesIs
  <2> QED
    BY <2>1 DEF ToldSoon, Live, Edge, Works
<1> QED
  BY <1>4, <1>5, <1>6, <1>7, <1>8 DEF ChatGoes

CardsAreTold == \A t \in Cards : ToldSoon(t)

\* Every step keeps the finished cards announced, or to be.
LEMMA CardsStayTold ==
  Calm /\ RowsAreTyped /\ CardsAreSound /\ CardsAreFit /\ CardsAreTold /\ [Next]_vars => CardsAreTold'
<1> SUFFICES ASSUME Calm, RowsAreTyped, CardsAreSound, CardsAreFit, CardsAreTold, [Next]_vars PROVE CardsAreTold'
  OBVIOUS
<1>1. RowsAreTyped' /\ CardsAreFit'
  BY RowsStayTyped, CardsStayFit
<1>2. \A t \in Cards : CardIsSound(t) /\ CardIsFit(t) /\ CardIsFit(t)' /\ ToldSoon(t)
  BY <1>1 DEF CardsAreSound, CardsAreFit, CardsAreTold
<1>3. ASSUME NEW t \in Cards, OnlyCard(t), ToldSoon(t)' PROVE CardsAreTold'
  BY <1>2, <1>3, UntouchedStaysTold DEF CardsAreTold, OnlyCard
<1>4. CASE \A u \in Cards : Untouched(u)
  BY <1>2, <1>4, UntouchedStaysTold DEF CardsAreTold
<1>5. ASSUME NEW t \in Cards, OnlyCard(t), StartGoes(t) \/ ActedOn(t) PROVE CardsAreTold'
  BY <1>1, <1>2, <1>3, <1>5, StartStepsTell, PeopleTell
<1>6. ASSUME NEW h \in handlers, h.of[1] \in Cards, OnlyCard(h.of[1]), Hears(h) PROVE CardsAreTold'
  BY <1>1, <1>2, <1>3, <1>6, HandlerStepsTell
<1>7. ASSUME NEW r \in Runs, r[1] \in Cards, OnlyCard(r[1]), ChatGoes(r) PROVE CardsAreTold'
  BY <1>1, <1>2, <1>3, <1>7, ChatsTell
<1>8. ASSUME NEW cause \in {"quit", "crash"}, Restart(cause) PROVE CardsAreTold'
  <2> SUFFICES ASSUME NEW t \in Cards PROVE ToldSoon(t)'
    BY DEF CardsAreTold
  <2>1. Edge(t)' \in Edges
    BY <1>1 DEF RowsAreTyped, Edge, Edges, CardType
  <2>2. ~run'[Edge(t)'].holds /\ told'[t] = FinishedIn(card', run', t)
    BY <1>8, <2>1, RestartIs
  <2> QED
    BY <2>2 DEF ToldSoon, FinishedIn, Live, Edge
<1> QED
  BY <1>4, <1>5, <1>6, <1>7, <1>8, StepsTouchOneCard

\* On a calm board, once everything in flight has ended, every finished card
\* is announced: a move to Done is judged in its own continuation
\* (finishWhenFree), the end of a run in Done is judged by its settle, and
\* what was withheld for the run's live work is judged again when that ends
\* (recheckFinish), or at the next boot.
THEOREM FinishedIsAnnouncedAtRest ==
  ASSUME Calm
  PROVE  Spec => []FinishedIsAnnounced
<1>1. Init => RowsAreTyped /\ CardsAreSound /\ CardsAreFit /\ CardsAreTold
  <2>1. Init => CardsAreTold
    BY DEF Init, BoardInit, CardsAreTold, ToldSoon, Intake
  <2> QED
    BY <2>1, InitTyped, CardsStart, CardsStartFit
<1>2. RowsAreTyped /\ CardsAreSound /\ CardsAreFit /\ CardsAreTold /\ [Next]_vars
        => (RowsAreTyped /\ CardsAreSound /\ CardsAreFit /\ CardsAreTold)'
  BY Calm, RowsStayTyped, CardsStaySound, CardsStayFit, CardsStayTold
<1>3. CardsAreTold => FinishedIsAnnounced
  BY DEF CardsAreTold, ToldSoon, FinishedIsAnnounced, Quiescent, Finished, FinishedIn, Edge, Live
<1> QED
  BY <1>1, <1>2, <1>3, PTL DEF Spec

-----------------------------------------------------------------------------
(* Cards drawn as worked have a run                                         *)

\* No stop of the daemon comes in the middle of a start's writes, or of a
\* deletion the board has not heard.
Whole == \A w \in Weathers : "torn" \notin w.may

\* The end or the deletion of the card's run is still to be settled.
Settles(t, h) ==
  /\ h.of[1] = t
  /\ \/ h.kind = "ended" /\ h.of = Edge(t) /\ (h.at \in {"read", "move"} \/ (h.at = "stamp" /\ Worked(h)))
     \/ h.kind = "deleted" /\ (\/ h.at = "read" /\ h.of = Edge(t)
                               \/ h.at = "unlink" /\ Worked(h)
                               \/ h.at = "move")

Settling(t) == \E h \in handlers : Settles(t, h)
Standing(t) == byHand[t] \/ run[Edge(t)].status \in {"running", "completed"} \/ Settling(t)

\* A card drawn as worked stands, or is being started; one that was started
\* from there falls back on what it stood on.
WorkedSoon(t) ==
  card[t].column = "in_progress" =>
    /\ start[t].at \notin Reserved => Standing(t)
    /\ start[t].at \in Reserved /\ start[t].from = "in_progress" =>
         \/ byHand[t] \/ run[<<t, start[t].found>>].status = "completed"
         \/ start[t].at = "choose" /\ Settling(t)

\* A card whose start stays put, and whose end is settled as before, stands
\* as it did.
LEMMA StaysWorked ==
  ASSUME RowsAreTyped, NEW t \in Cards, CardIsSound(t), WorkedSoon(t), SameCard(t), Remembers(t),
         \/ start'[t] = start[t]
         \/ start[t].at \notin Reserved /\ start'[t].at \notin Reserved,
         \A i \in 0 .. Threads : run'[<<t, i>>].status = run[<<t, i>>].status,
         \A h \in handlers : Settles(t, h) /\ card[t].column = "in_progress" =>
           Settling(t)' \/ (run[Edge(t)].status = "completed" /\ h.of = Edge(t))
  PROVE  WorkedSoon(t)'
<1> SUFFICES ASSUME card'[t].column = "in_progress"
             PROVE  /\ start'[t].at \notin Reserved => Standing(t)'
                    /\ start'[t].at \in Reserved /\ start'[t].from = "in_progress" =>
                         \/ byHand'[t] \/ run'[<<t, start'[t].found>>].status = "completed"
                         \/ start'[t].at = "choose" /\ Settling(t)'
  BY DEF WorkedSoon
<1>1. /\ Edge(t)' = Edge(t) /\ Edge(t) = <<t, card[t].run>> /\ card[t].run \in 0 .. Threads /\ start[t].found \in 0 .. Threads
      /\ card[t].column = "in_progress"
  BY EdgesAre DEF SameCard, Edge, CardType, StartType
<1>2. run'[Edge(t)].status = run[Edge(t)].status /\ run'[<<t, start[t].found>>].status = run[<<t, start[t].found>>].status
  BY <1>1
<1>3. byHand[t] => byHand'[t] \/ run'[Edge(t)].status = "running"
  BY <1>1 DEF Remembers, SameCard, DrawnWorking
<1>4. Settling(t) => Settling(t)' \/ run[Edge(t)].status = "completed"
  BY <1>1 DEF Settling
<1>5. start'[t].at \notin Reserved => start[t].at \notin Reserved
  OBVIOUS
<1>6. start'[t].at \notin Reserved => Standing(t)'
  BY <1>1, <1>2, <1>3, <1>4, <1>5 DEF WorkedSoon, Standing
<1>7. ASSUME start'[t].at \in Reserved, start'[t].from = "in_progress"
      PROVE  \/ byHand'[t] \/ run'[<<t, start'[t].found>>].status = "completed"
             \/ start'[t].at = "choose" /\ Settling(t)'
  <2>1. start'[t] = start[t] /\ start[t].at \in Judged
    BY <1>7 DEF Reserved, Judged
  <2>2. run[Edge(t)].status # "running"
    BY <1>1, <2>1, BoardAssumption DEF CardIsSound, Works
  <2>3. start[t].at = "choose" => card[t].run = start[t].found
    BY DEF CardIsSound
  <2> QED
    BY <1>1, <1>2, <1>3, <1>4, <1>7, <2>1, <2>2, <2>3 DEF WorkedSoon
<1> QED
  BY <1>6, <1>7

\* A card left alone stands on what it stood on.
LEMMA UntouchedStaysWorked ==
  ASSUME RowsAreTyped, NEW t \in Cards, CardIsSound(t), WorkedSoon(t), Untouched(t)
  PROVE  WorkedSoon(t)'
<1>1. /\ SameCard(t) /\ Remembers(t) /\ start'[t] = start[t] /\ Edge(t)' = Edge(t)
      /\ \A i \in 0 .. Threads : run'[<<t, i>>].status = run[<<t, i>>].status
  BY DEF Untouched, SameRuns, SameCard, Edge
<1>2. \A h \in handlers : Settles(t, h) => h \in handlers' /\ Settles(t, h)'
  BY <1>1 DEF Untouched, RowsAreTyped, Settles, Worked
<1>3. Settling(t) => Settling(t)'
  BY <1>2 DEF Settling
<1> QED
  BY <1>1, <1>3, StaysWorked DEF Settling

\* A start goes on among the points that have the card reserved.
LEMMA ReservedStaysWorked ==
  ASSUME RowsAreTyped, NEW t \in Cards, CardIsSound(t), WorkedSoon(t), Remembers(t),
         start[t].at \in Reserved, start'[t].at \in Reserved, start'[t].found = start[t].found,
         start'[t].from = start[t].from, card'[t].column = card[t].column,
         start[t].at = "choose" => \A h \in handlers : h.of[1] # t,
         run'[<<t, start[t].found>>] = run[<<t, start[t].found>>],
         ~DrawnWorking(t)'
  PROVE  WorkedSoon(t)'
<1>1. byHand[t] => byHand'[t]
  BY DEF Remembers
<1>2. start[t].at = "choose" => ~Settling(t)
  BY DEF Settling, Settles
<1> QED
  BY <1>1, <1>2 DEF WorkedSoon

\* Each step of a start leaves a card drawn as worked standing, or something
\* to fall back on.
LEMMA StartStepsWork ==
  ASSUME RowsAreTyped, RowsAreTyped', Calm, NEW t \in Cards, CardIsSound(t), CardIsSound(t)', CardIsFit(t),
         WorkedSoon(t), StartGoes(t)
  PROVE  WorkedSoon(t)'
<1> DEFINE s == start[t]
<1>0. /\ Edge(t) = <<t, card[t].run>> /\ Edge(t)' = <<t, card'[t].run>>
      /\ card[t].run \in 0 .. Threads /\ card'[t].run \in 0 .. Threads /\ start[t].found \in 0 .. Threads
  <2>1. card[t] \in CardType /\ card'[t] \in CardType /\ start[t] \in StartType
    BY DEF RowsAreTyped
  <2> QED
    BY <2>1 DEF Edge, CardType, StartType
<1>1. CASE ReadCard(t) \/ JudgeRun(t) \/ CountRuns(t) \/ ClearStamp(t) \/ (Reserve(t) /\ card[t].column # start[t].from)
  <2>1. SameCard(t) /\ run' = run /\ Remembers(t) /\ handlers \subseteq handlers'
        /\ start[t].at \in Early /\ start'[t].at \in {"idle", "judge", "count", "reserve"}
    BY <1>1, QuietStartIs DEF QuietStart
  <2>2. start[t].at \notin Reserved /\ start'[t].at \notin Reserved
    BY <2>1 DEF Early, Reserved
  <2>3. Edge(t)' = Edge(t)
    BY <2>1 DEF SameCard, Edge
  <2>4. \A h \in handlers : Settles(t, h) => Settling(t)'
    BY <2>1, <2>3 DEF Settles, Settling, Worked
  <2>5. \A i \in 0 .. Threads : run'[<<t, i>>].status = run[<<t, i>>].status
    BY <2>1
  <2> QED
    BY <2>1, <2>2, <2>4, <2>5, StaysWorked
<1>9. ASSUME start[t].at \in Judged PROVE \A i \in 0 .. Threads : ~Works(<<t, i>>)
  BY <1>9, BoardAssumption DEF CardIsSound, Works
<1>10. ASSUME start'[t].at \in Judged PROVE ~DrawnWorking(t)'
  <2>1. (\A i \in 1 .. Threads : ~Works(<<t, i>>)) ' /\ run'[<<t, 0>>].status = "none"
    BY <1>10 DEF CardIsSound
  <2>2. run'[Edge(t)'].status # "running"
    BY <1>0, <2>1, BoardAssumption DEF Works
  <2> QED
    BY <2>2 DEF DrawnWorking, Works
<1>11. Reserved \subseteq Judged
  BY DEF Reserved, Judged
<1>2. CASE Reserve(t) /\ card[t].column = start[t].from
  <2>1. /\ s.at = "reserve" /\ start'[t].at = "choose" /\ SameStart(t)
        /\ card'[t].column = "in_progress" /\ card'[t].run = card[t].run
        /\ run' = run /\ handlers' = handlers /\ Remembers(t)
    BY <1>2, ReserveIs
  <2>2. CASE s.from = "in_progress"
    <3>1. Standing(t) /\ card[t].run = s.found
      BY <1>2, <2>1, <2>2 DEF WorkedSoon, CardIsSound, Reserved
    <3>2. ~Works(Edge(t))
      BY <1>0, <1>9, <2>1 DEF Judged
    <3>3. byHand[t] => byHand'[t]
      BY <1>2, <1>10, <2>1, <2>2 DEF Remembers, Judged
    <3>4. Settling(t) => Settling(t)'
      BY <1>0, <2>1 DEF Settling, Settles, Worked
    <3> QED
      BY <1>0, <2>1, <3>1, <3>2, <3>3, <3>4 DEF WorkedSoon, Standing, SameStart, Works, Reserved
  <2>3. CASE s.from # "in_progress"
    BY <2>1, <2>3 DEF WorkedSoon, SameStart, Reserved
  <2> QED
    BY <2>2, <2>3
<1>3. CASE Choose(t)
  <2>1. /\ s.at = "choose" /\ start'[t].found = s.found /\ start'[t].from = s.from /\ SameCard(t)
        /\ told' = told /\ byHand' = byHand /\ \A h \in handlers : h.of[1] # t
        /\ start'[t].at \in {"link", "giveback"}
    BY <1>3, ChooseIs
  <2>2. run[<<t, s.found>>].status = "completed" => run'[<<t, s.found>>] = run[<<t, s.found>>]
    <3>1. \/ run' = run
          \/ \E j \in 1 .. Threads :
               /\ run[<<t, j>>].status = "none"
               /\ \A i \in 0 .. Threads : i # j => run'[<<t, i>>] = run[<<t, i>>]
      BY <1>3, ChooseIs
    <3> QED
      BY <1>0, <3>1
  <2>3. ~Settling(t)
    BY <2>1 DEF Settling, Settles
  <2>4. s.at \in Reserved /\ start'[t].at \in Reserved
    BY <2>1 DEF Reserved
  <2> QED
    BY <2>1, <2>2, <2>3, <2>4 DEF WorkedSoon, SameCard
<1>4. CASE Link(t)
  <2>1. /\ s.at = "link" /\ SameStart(t) /\ card'[t].column = card[t].column /\ run' = run /\ Remembers(t)
        /\ start'[t].at \in {"send", "unlink", "giveback"}
    BY <1>4, LinkIs
  <2>2. s.at \in Reserved /\ start'[t].at \in Reserved
    BY <2>1 DEF Reserved
  <2> QED
    BY <1>10, <1>11, <2>1, <2>2, ReservedStaysWorked DEF SameStart
<1>5. CASE Send(t)
  <2>1. /\ s.at = "send" /\ SameStart(t) /\ SameCard(t) /\ Remembers(t)
        /\ \/ start'[t].at = "clear" /\ run'[Thread(t)].status = "running"
           \/ start'[t].at \in {"unlink", "giveback"} /\ run' = run
    BY <1>5, SendIs
  <2>2. CASE start'[t].at = "clear" /\ run'[Thread(t)].status = "running"
    <3>1. Edge(t)' = Thread(t)
      BY <2>1 DEF CardIsSound, Edge, Thread, SameCard
    <3> QED
      BY <2>2, <3>1 DEF WorkedSoon, Standing, Reserved
  <2>3. CASE start'[t].at \in {"unlink", "giveback"} /\ run' = run
    <3>1. s.at \in Reserved /\ start'[t].at \in Reserved
      BY <2>1, <2>3 DEF Reserved
    <3> QED
      BY <1>10, <1>11, <2>1, <2>3, <3>1, ReservedStaysWorked DEF SameStart, SameCard
  <2> QED
    BY <2>1, <2>2, <2>3
<1>6. CASE Unlink(t)
  <2>1. /\ s.at = "unlink" /\ start'[t].at = "giveback" /\ SameStart(t) /\ card'[t].column = card[t].column
        /\ run' = run /\ Remembers(t)
    BY <1>6, UnlinkIs
  <2>2. s.at \in Reserved /\ start'[t].at \in Reserved
    BY <2>1 DEF Reserved
  <2> QED
    BY <1>10, <1>11, <2>1, <2>2, ReservedStaysWorked DEF SameStart
<1>7. CASE GiveBack(t)
  <2>1. /\ s.at = "giveback" /\ card'[t].run = card[t].run /\ run' = run /\ Remembers(t)
        /\ card'[t].column = (IF card[t].column = "in_progress" THEN s.from ELSE card[t].column)
        /\ start'[t].at \in {"discard", "idle"}
    BY <1>7, GiveBackIs
  <2>2. CASE card'[t].column = "in_progress"
    <3>1. card[t].column = "in_progress" /\ s.from = "in_progress" /\ s.at \in Reserved /\ start'[t].at \notin Reserved
      BY <2>1, <2>2 DEF Reserved
    <3>2. byHand[t] \/ run[<<t, s.found>>].status = "completed"
      BY <2>1, <3>1 DEF WorkedSoon
    <3>3. card[t].run = s.found
      BY <2>1 DEF CardIsFit, StartIsFit
    <3>4. ~Works(Edge(t))
      BY <1>0, <1>9, <2>1 DEF Judged
    <3>5. ~DrawnWorking(t)'
      BY <1>0, <2>1, <3>4 DEF DrawnWorking, Works
    <3>6. byHand[t] => byHand'[t]
      BY <2>1, <3>1, <3>5 DEF Remembers
    <3> QED
      BY <1>0, <2>1, <3>1, <3>2, <3>3, <3>6 DEF WorkedSoon, Standing
  <2>3. CASE card'[t].column # "in_progress"
    BY <2>3 DEF WorkedSoon
  <2> QED
    BY <2>2, <2>3
<1>8. CASE Discard(t)
  <2>1. /\ s.at = "discard" /\ start'[t].at = "idle" /\ SameCard(t) /\ Remembers(t) /\ handlers \subseteq handlers'
        /\ \A i \in 0 .. Threads : i # s.thread => run'[<<t, i>>] = run[<<t, i>>]
    BY <1>8, DiscardIs
  <2>2. s.thread # s.found /\ card[t].run = s.found
    BY <2>1 DEF CardIsFit, StartIsFit, Made, CardIsSound
  <2>3. run'[Edge(t)] = run[Edge(t)] /\ Edge(t)' = Edge(t)
    BY <1>0, <2>1, <2>2 DEF SameCard
  <2>4. s.at \notin Reserved /\ start'[t].at \notin Reserved
    BY <2>1 DEF Reserved
  <2>5. Settling(t) => Settling(t)'
    BY <2>1, <2>3 DEF Settling, Settles, Worked
  <2>6. byHand[t] => byHand'[t] \/ run'[Edge(t)'].status = "running"
    BY <2>1 DEF Remembers, SameCard, DrawnWorking
  <2>7. card'[t].column = "in_progress" => Standing(t)
    BY <2>1, <2>4 DEF WorkedSoon, SameCard
  <2> QED
    BY <2>3, <2>4, <2>5, <2>6, <2>7 DEF WorkedSoon, Standing
<1> QED
  BY <1>1, <1>2, <1>3, <1>4, <1>5, <1>6, <1>7, <1>8 DEF StartGoes

\* Each handler settles the card it stands for, or hands it on.
LEMMA HandlerStepsWork ==
  ASSUME RowsAreTyped, RowsAreTyped', NEW h \in handlers, CardIsSound(h.of[1]), CardIsFit(h.of[1]), WorkedSoon(h.of[1]),
         Hears(h)
  PROVE  WorkedSoon(h.of[1])'
<1> DEFINE t == h.of[1]
<1>1. /\ t \in Cards /\ h.of \in Edges /\ h.of = <<t, h.of[2]>> /\ Edge(t) = <<t, card[t].run>> /\ Edge(t) \in Edges
      /\ card[t] \in CardType /\ h \in HandlerType
  BY HandlerIsOf, EdgesAre DEF Edge
<1>2. run' = run /\ Remembers(t) /\ handlers \ {h} \subseteq handlers' /\ start' = start
  BY HandlerStepIs DEF Hears
<1>3. Alone(t, h)
  BY DEF CardIsFit, HandlersAreFit
<1>4. ASSUME SameCard(t),
             Settles(t, h) /\ card[t].column = "in_progress" =>
               Settling(t)' \/ (run[Edge(t)].status = "completed" /\ h.of = Edge(t))
      PROVE  WorkedSoon(t)'
  <2>1. Edge(t)' = Edge(t) /\ start'[t] = start[t]
    BY <1>2, <1>4 DEF SameCard, Edge
  <2>2. \A g \in handlers : Settles(t, g) /\ g # h => Settling(t)'
    BY <1>2, <2>1 DEF Settles, Settling, Worked
  <2>3. \A g \in handlers : Settles(t, g) /\ card[t].column = "in_progress" =>
           Settling(t)' \/ (run[Edge(t)].status = "completed" /\ g.of = Edge(t))
    BY <1>4, <2>2
  <2>4. \A i \in 0 .. Threads : run'[<<t, i>>].status = run[<<t, i>>].status
    BY <1>2
  <2> QED
    BY <1>1, <1>2, <1>4, <2>1, <2>3, <2>4, StaysWorked
<1>5. ASSUME card'[t].column # "in_progress" PROVE WorkedSoon(t)'
  BY <1>5 DEF WorkedSoon
<1>6. card' = card => SameCard(t)
  BY DEF SameCard
<1>7. ASSUME NEW n \in handlers', Settles(t, n)' PROVE Settling(t)'
  BY <1>7 DEF Settling
<1>8. CASE FollowReads(h) \/ Finishes(h) \/ Rechecks(h) \/ OwedReconcile(h)
  <2>1. card' = card /\ h.kind \in {"working", "finish", "recheck", "owed"}
    BY <1>8 DEF FollowReads, Finishes, Rechecks, OwedReconcile
  <2> QED
    BY <1>4, <1>6, <2>1 DEF Settles
<1>9. CASE SettleReads(h)
  <2>1. card' = card /\ h.kind \in {"ended", "reconcile"}
    BY <1>9 DEF SettleReads
  <2>2. ASSUME Settles(t, h), card[t].column = "in_progress" PROVE Settling(t)'
    <3>1. h.kind = "ended" /\ h.of = Edge(t) /\ run[h.of].status \in Ended
      BY <1>3, <2>1, <2>2 DEF Settles, Alone
    <3>2. card[t].run # 0
      BY <1>1, <3>1 DEF CardIsSound, Ended
    <3>3. Names(h)
      BY <1>1, <3>1, <3>2 DEF Names, Exists, NamedBy, Ended
    <3>0. PICK n : n = Later(h, "stamp", card[t].column)
      OBVIOUS
    <3>4. n \in handlers'
      BY <1>9, <3>0, <3>1, <3>3 DEF SettleReads, GoesOn, GoesOnTo, Later
    <3>5. n.kind = "ended" /\ n.of = h.of /\ n.at = "stamp" /\ n.saw = "in_progress"
      BY <2>2, <3>0, <3>1, NextIs
    <3>6. Settles(t, n)'
      BY <2>1, <3>1, <3>5 DEF Settles, Edge, Worked
    <3> QED
      BY <1>7, <3>4, <3>6
  <2> QED
    BY <1>4, <1>6, <2>1, <2>2
<1>10. CASE SettleStamps(h)
  <2>1. /\ \/ card' = card \/ card' = [card EXCEPT ![t].stopped = "user"]
           \/ card' = [card EXCEPT ![t].stopped = "crash"]
        /\ h.at = "stamp" /\ h.kind \in {"ended", "reconcile"}
    BY <1>10 DEF SettleStamps
  <2>2. SameCard(t)
    <3>1. ASSUME NEW s, card' = [card EXCEPT ![t].stopped = s] PROVE SameCard(t)
      BY <1>1, <3>1, WritesOfCard DEF SameCard
    <3> QED
      BY <1>6, <2>1, <3>1
  <2>3. ASSUME Settles(t, h) PROVE Settling(t)' \/ (run[Edge(t)].status = "completed" /\ h.of = Edge(t))
    <3>1. h.kind = "ended" /\ h.of = Edge(t) /\ Worked(h) /\ run[h.of].status = h.how /\ h.how \in Ended /\ run[h.of].cut = "no"
      BY <1>3, <2>1, <2>3 DEF Settles, Alone
    <3>2. CASE h.how = "completed"
      BY <3>1, <3>2
    <3>3. CASE h.how # "completed"
      <4>1. ColumnAfter(h) # "none"
        BY <3>1, <3>3 DEF ColumnAfter, Interrupted, Ended, Intake
      <4>2. GoesOn(h, "move", ColumnAfter(h))
        BY <1>10, <3>1, <4>1 DEF SettleStamps, Worked
      <4>0. PICK n : n = Later(h, "move", ColumnAfter(h))
        OBVIOUS
      <4>3. n \in handlers'
        BY <4>0, <4>2 DEF GoesOn, GoesOnTo, Later
      <4>4. n.kind = "ended" /\ n.of = h.of /\ n.at = "move"
        BY <3>1, <4>0, NextIs
      <4>5. Settles(t, n)'
        BY <2>2, <3>1, <4>4 DEF Settles, Edge, SameCard
      <4> QED
        BY <1>7, <4>3, <4>5
    <3> QED
      BY <3>2, <3>3
  <2> QED
    BY <1>4, <2>2, <2>3
<1>11. CASE SettleMoves(h)
  <2>1. /\ h.kind \in {"ended", "reconcile", "deleted"} /\ h.at = "move"
        /\ card' = IF card[t].column = "in_progress" THEN MovedTo(t, h.saw) ELSE card
    BY <1>11 DEF SettleMoves
  <2>2. h.saw \in {"todo", "failed"}
    BY <1>3, <2>1 DEF Alone
  <2>3. card'[t].column # "in_progress"
    BY <1>1, <2>1, <2>2, WritesOfCard
  <2> QED
    BY <1>5, <2>3
<1>12. CASE FollowMoves(h)
  <2>1. /\ h.kind = "working"
        /\ card' = IF card[t].column = "failed" THEN MovedTo(t, "in_progress") ELSE card
    BY <1>12 DEF FollowMoves
  <2>2. CASE card[t].column = "failed"
    <3>1. card'[t].run = card[t].run
      BY <1>1, <2>1, <2>2, WritesOfCard
    <3>2. Works(Edge(t)) /\ card[t].run # 0
      BY <1>1, <1>3, <2>1 DEF Alone, CardIsSound, Works
    <3>3. start[t].at \notin Reserved
      <4>1. card[t].run \in 1 .. Threads
        BY <1>1, <3>2, BoardAssumption DEF CardType
      <4> QED
        BY <1>1, <3>2, <4>1 DEF CardIsSound, Reserved, Judged
    <3>4. Edge(t)' = Edge(t)
      BY <3>1 DEF Edge
    <3> QED
      BY <1>2, <3>2, <3>3, <3>4 DEF WorkedSoon, Standing, Works
  <2>3. CASE card[t].column # "failed"
    BY <1>4, <1>6, <2>1, <2>3 DEF Settles
  <2> QED
    BY <2>2, <2>3
<1>13. CASE ReleaseReads(h)
  <2>1. card' = card /\ h.kind = "deleted" /\ h.at = "read"
    BY <1>13 DEF ReleaseReads
  <2>2. ASSUME Settles(t, h), card[t].column = "in_progress" PROVE Settling(t)'
    <3>1. h.of = Edge(t) /\ Purged(h.of)
      BY <2>1, <2>2 DEF Settles, CardIsSound
    <3>2. NamedBy(h.of)
      BY <1>1, <3>1 DEF NamedBy, CardIsSound, Purged
    <3>0. PICK n : n = Later(h, "unlink", card[t].column)
      OBVIOUS
    <3>3. n \in handlers'
      BY <1>13, <3>0, <3>2 DEF ReleaseReads, GoesOn, GoesOnTo, Later
    <3>4. n.kind = "deleted" /\ n.of = h.of /\ n.at = "unlink" /\ n.saw = "in_progress"
      BY <2>1, <2>2, <3>0, NextIs
    <3>5. Settles(t, n)'
      BY <3>4 DEF Settles, Worked
    <3> QED
      BY <1>7, <3>3, <3>5
  <2> QED
    BY <1>4, <1>6, <2>1, <2>2
<1>14. CASE ReleaseUnlinks(h)
  <2>1. h.kind = "deleted" /\ h.at = "unlink" /\ card'[t].column = card[t].column
    BY <1>1, <1>14, WritesOfCard DEF ReleaseUnlinks
  <2>2. CASE Worked(h)
    <3>0. PICK n : n = Later(h, "move", "todo")
      OBVIOUS
    <3>1. n \in handlers'
      BY <1>14, <2>2, <3>0 DEF ReleaseUnlinks, GoesOn, GoesOnTo, Later
    <3>2. n.kind = "deleted" /\ n.of = h.of /\ n.at = "move"
      BY <2>1, <3>0, NextIs
    <3>3. Settles(t, n)'
      BY <3>2 DEF Settles
    <3>4. Settling(t)'
      BY <1>7, <3>1, <3>3
    <3>5. start'[t].at \notin Reserved
      BY <1>2, <2>1 DEF CardIsSound, Starting, Reserved
    <3> QED
      BY <3>4, <3>5 DEF WorkedSoon, Standing
  <2>3. CASE ~Worked(h)
    BY <1>3, <1>5, <2>1, <2>3 DEF Alone, Worked
  <2> QED
    BY <2>2, <2>3
<1> QED
  BY <1>8, <1>9, <1>10, <1>11, <1>12, <1>13, <1>14 DEF Hears

\* A card put in progress by hand stands on that.
LEMMA PeopleWork ==
  ASSUME RowsAreTyped, RowsAreTyped', Calm, NEW t \in Cards, CardIsSound(t), WorkedSoon(t), ActedOn(t)
  PROVE  WorkedSoon(t)'
<1>1. CASE PostStart(t) \/ PressRun(t) \/ LoadBoard(t)
  <2>1. /\ SameCard(t) /\ run' = run /\ Remembers(t) /\ handlers \subseteq handlers'
        /\ \/ start'[t] = start[t]
           \/ AtPeace(t) /\ start'[t].at = "read"
    BY <1>1, ClaimIs, LoadBoardIs
  <2>2. \/ start'[t] = start[t]
        \/ start[t].at \notin Reserved /\ start'[t].at \notin Reserved
    BY <2>1 DEF AtPeace, Starting, Reserved
  <2>3. Edge(t)' = Edge(t)
    BY <2>1 DEF SameCard, Edge
  <2>4. \A h \in handlers : Settles(t, h) => Settling(t)'
    BY <2>1, <2>3 DEF Settles, Settling, Worked
  <2>5. \A i \in 0 .. Threads : run'[<<t, i>>].status = run[<<t, i>>].status
    BY <2>1
  <2> QED
    BY <2>1, <2>2, <2>4, <2>5, StaysWorked
<1>2. ASSUME NEW to \in Columns, Drag(t, to) PROVE WorkedSoon(t)'
  <2>1. (byHand'[t] <=> ~DrawnWorking(t)') /\ ~Starting(t) /\ start' = start
    BY <1>2, DragIs
  <2> QED
    BY <2>1 DEF DrawnWorking, WorkedSoon, Standing, Starting, Reserved
<1> QED
  BY <1>1, <1>2 DEF ActedOn

\* A run that ends, or is deleted, leaves a handler that will settle its card.
LEMMA ChatsWork ==
  ASSUME RowsAreTyped, RowsAreTyped', Calm, NEW r \in Runs, CardIsSound(r[1]), WorkedSoon(r[1]), ChatGoes(r)
  PROVE  WorkedSoon(r[1])'
<1> DEFINE t == r[1]
<1>1. t \in Cards /\ Edge(t) = <<t, card[t].run>> /\ card[t].run \in 0 .. Threads /\ r = <<t, r[2]>> /\ r[2] \in 1 .. Threads
  <2>1. t \in Cards /\ r = <<t, r[2]>> /\ r[2] \in 1 .. Threads
    BY DEF Runs
  <2> QED
    BY <2>1, EdgesAre DEF Edge, CardType
<1>2. ASSUME start' = start, ~Starting(t) \/ Works(r), Standing(t)' PROVE WorkedSoon(t)'
  <2>1. start'[t].at \notin Reserved
    BY <1>1, <1>2 DEF CardIsSound, Reserved, Judged, Starting
  <2> QED
    BY <1>2, <2>1 DEF WorkedSoon
<1>3. CASE FollowUp(r)
  <2>1. /\ r = Edge(t) /\ SameCard(t) /\ run'[r].status = "running" /\ start' = start /\ AtPeace(t)
    BY <1>3, FollowUpIs
  <2>2. Standing(t)'
    BY <2>1 DEF Standing, Edge, SameCard
  <2> QED
    BY <1>2, <2>1, <2>2 DEF AtPeace
<1>4. CASE DeleteChat(r)
  <2>1. /\ SameCard(t) /\ Remembers(t) /\ start' = start /\ AtPeace(t) /\ OtherRunsStay(r)
        /\ handlers' = handlers \union {Handler("deleted", r, "none")}
    BY <1>4, DeleteChatIs
  <2>2. Edge(t)' = Edge(t)
    BY <2>1 DEF SameCard, Edge
  <2>3. CASE r = Edge(t)
    <3>1. Handler("deleted", r, "none") \in handlers'
      BY <2>1
    <3>2. Settles(t, Handler("deleted", r, "none"))'
      BY <2>2, <2>3 DEF Settles, Handler
    <3>3. Standing(t)'
      BY <3>1, <3>2 DEF Standing, Settling
    <3> QED
      BY <1>2, <2>1, <3>3 DEF AtPeace
  <2>4. CASE r # Edge(t)
    <3>1. run'[Edge(t)] = run[Edge(t)]
      BY <1>1, <2>1, <2>4 DEF OtherRunsStay
    <3>2. start[t].at \notin Reserved
      BY <2>1 DEF AtPeace, Starting, Reserved
    <3>3. Settling(t) => Settling(t)'
      BY <2>1, <2>2 DEF Settling, Settles, Worked
    <3>4. byHand[t] => byHand'[t] \/ card'[t].column # "in_progress" \/ run'[Edge(t)'].status = "running"
      BY <2>1 DEF Remembers, SameCard, DrawnWorking
    <3>5. card'[t].column = "in_progress" => Standing(t)
      BY <2>1, <3>2 DEF WorkedSoon, SameCard
    <3> QED
      BY <2>1, <2>2, <3>1, <3>2, <3>3, <3>4, <3>5 DEF WorkedSoon, Standing
  <2> QED
    BY <2>3, <2>4
<1>5. CASE WorkEnds(r)
  <2>1. /\ SameCard(t) /\ Remembers(t) /\ start' = start /\ handlers \subseteq handlers'
        /\ run'[r].status = run[r].status /\ OtherRunsStay(r)
    BY <1>5, WorkEndsIs
  <2>2. \A i \in 0 .. Threads : run'[<<t, i>>].status = run[<<t, i>>].status
    BY <1>1, <2>1 DEF OtherRunsStay
  <2>3. Edge(t)' = Edge(t) /\ start'[t] = start[t]
    BY <2>1 DEF SameCard, Edge
  <2>4. \A h \in handlers : Settles(t, h) => Settling(t)'
    BY <2>1, <2>3 DEF Settles, Settling, Worked
  <2> QED
    BY <1>1, <2>1, <2>2, <2>3, <2>4, StaysWorked
<1>6. ASSUME NEW how \in Ended, Ends(r, how) PROVE WorkedSoon(t)'
  <2>1. /\ r = Edge(t) /\ SameCard(t) /\ Works(r) /\ start' = start
        /\ handlers' = handlers \union Broadcast("ended", r, how)
    BY <1>6, EndsIs
  <2>2. Handler("ended", r, how) \in handlers'
    BY <2>1 DEF Broadcast
  <2>3. Settles(t, Handler("ended", r, how))'
    BY <2>1 DEF Settles, Handler, Edge, SameCard
  <2>4. Standing(t)'
    BY <2>2, <2>3 DEF Standing, Settling
  <2> QED
    BY <1>2, <2>1, <2>4
<1>7. ASSUME NEW to \in Columns, AgentMoves(r, to) PROVE WorkedSoon(t)'
  <2>1. (byHand'[t] <=> ~DrawnWorking(t)') /\ Works(r) /\ start' = start
    BY <1>7, AgentMovesIs
  <2>2. card'[t].column = "in_progress" => Standing(t)'
    BY <2>1 DEF DrawnWorking, Standing
  <2> QED
    BY <1>2, <2>1, <2>2 DEF WorkedSoon
<1> QED
  BY <1>3, <1>4, <1>5, <1>6, <1>7 DEF ChatGoes

\* Where a boot that interrupts no start leaves a card.
LEMMA WholeRestart ==
  ASSUME RowsAreTyped, Whole, NEW cause \in {"quit", "crash"}, Restart(cause), NEW t \in Cards
  PROVE  /\ start[t].at \in {"idle", "read", "judge", "count", "reserve", "clear"}
         /\ \A h \in handlers : h.kind # "deleted"
BY DEF RowsAreTyped, Whole, Restart, Torn, May

\* A boot that interrupts no start settles the cards whose runs it failed.
LEMMA RestartWorks ==
  ASSUME RowsAreTyped, RowsAreTyped', Whole, NEW cause \in {"quit", "crash"}, Restart(cause),
         NEW t \in Cards, CardIsFit(t), WorkedSoon(t)
  PROVE  WorkedSoon(t)'
<1> SUFFICES ASSUME card'[t].column = "in_progress"
             PROVE  byHand'[t] \/ run'[Edge(t)'].status \in {"running", "completed"}
  <2>1. start'[t].at \notin Reserved
    BY RestartIs DEF Reserved
  <2> QED
    BY <2>1 DEF WorkedSoon, Standing
<1>1. /\ card'[t].run = card[t].run /\ Edge(t)' = Edge(t) /\ Edge(t) \in Edges /\ card[t] \in CardType
      /\ run'[Edge(t)].status = (IF Works(Edge(t)) THEN "failed" ELSE run[Edge(t)].status)
  BY RestartIs, EdgesAre DEF Edge
<1>2. /\ card[t].column = "in_progress" /\ run'[Edge(t)].status \notin {"failed", "cancelled"}
  <2>1. card'[t] = SettledAtBoot(run', t)
    BY DEF Restart
  <2>2. \A to, stop : [card[t] EXCEPT !.column = to, !.stopped = stop].column = to
    BY <1>1 DEF CardType
  <2> QED
    BY <2>1, <2>2 DEF SettledAtBoot, Intake
<1>3. start[t].at \notin Reserved /\ \A h \in handlers : h.kind # "deleted"
  BY WholeRestart DEF Reserved
<1>4. Standing(t)
  BY <1>2, <1>3 DEF WorkedSoon
<1>5. CASE byHand[t]
  BY <1>2, <1>5 DEF Restart
<1>6. CASE run[Edge(t)].status \in {"running", "completed"}
  BY <1>1, <1>2, <1>6 DEF Works
<1>7. CASE Settling(t)
  <2>1. PICK h \in handlers : Settles(t, h)
    BY <1>7 DEF Settling
  <2>2. Alone(t, h) /\ h.kind = "ended" /\ h.of = Edge(t)
    BY <1>3, <2>1 DEF CardIsFit, HandlersAreFit, Settles
  <2>3. run[Edge(t)].status \in Ended
    BY <2>2 DEF Alone
  <2> QED
    BY <1>1, <1>2, <2>3 DEF Works, Ended
<1> QED
  BY <1>4, <1>5, <1>6, <1>7 DEF Standing

CardsAreWorked == \A t \in Cards : WorkedSoon(t)

\* Every step leaves the cards drawn as worked standing.
LEMMA CardsStayWorked ==
  Calm /\ Whole /\ RowsAreTyped /\ CardsAreSound /\ CardsAreFit /\ CardsAreWorked /\ [Next]_vars => CardsAreWorked'
<1> SUFFICES ASSUME Calm, Whole, RowsAreTyped, CardsAreSound, CardsAreFit, CardsAreWorked, [Next]_vars
             PROVE  CardsAreWorked'
  OBVIOUS
<1>1. RowsAreTyped' /\ CardsAreSound'
  BY RowsStayTyped, CardsStaySound
<1>2. \A t \in Cards : CardIsSound(t) /\ CardIsSound(t)' /\ CardIsFit(t) /\ WorkedSoon(t)
  BY <1>1 DEF CardsAreSound, CardsAreFit, CardsAreWorked
<1>3. ASSUME NEW t \in Cards, OnlyCard(t), WorkedSoon(t)' PROVE CardsAreWorked'
  BY <1>2, <1>3, UntouchedStaysWorked DEF CardsAreWorked, OnlyCard
<1>4. CASE \A u \in Cards : Untouched(u)
  BY <1>2, <1>4, UntouchedStaysWorked DEF CardsAreWorked
<1>5. ASSUME NEW t \in Cards, OnlyCard(t), StartGoes(t) \/ ActedOn(t) PROVE CardsAreWorked'
  BY <1>1, <1>2, <1>3, <1>5, StartStepsWork, PeopleWork
<1>6. ASSUME NEW h \in handlers, h.of[1] \in Cards, OnlyCard(h.of[1]), Hears(h) PROVE CardsAreWorked'
  BY <1>1, <1>2, <1>3, <1>6, HandlerStepsWork
<1>7. ASSUME NEW r \in Runs, r[1] \in Cards, OnlyCard(r[1]), ChatGoes(r) PROVE CardsAreWorked'
  BY <1>1, <1>2, <1>3, <1>7, ChatsWork
<1>8. ASSUME NEW cause \in {"quit", "crash"}, Restart(cause) PROVE CardsAreWorked'
  BY <1>1, <1>2, <1>8, RestartWorks DEF CardsAreWorked
<1> QED
  BY <1>4, <1>5, <1>6, <1>7, <1>8, StepsTouchOneCard

\* On a calm board whose daemon is not stopped in the middle of a start, once
\* everything in flight has ended, a card drawn as worked has a run that
\* works or completed, unless its column was chosen by hand: the end of its
\* run is settled (TaskSettleService.settle, or the boot), its deletion puts
\* it back (releaseDeletedRun), and a start that fails gives it back to the
\* column it was pressed in (abandon).
THEOREM WorkedCardsHaveARunAtRest ==
  ASSUME Calm, Whole
  PROVE  Spec => []WorkedCardsHaveARun
<1>1. Init => RowsAreTyped /\ CardsAreSound /\ CardsAreFit /\ CardsAreWorked
  <2>1. Init => CardsAreWorked
    BY DEF Init, BoardInit, CardsAreWorked, WorkedSoon, Intake
  <2> QED
    BY <2>1, InitTyped, CardsStart, CardsStartFit
<1>2. RowsAreTyped /\ CardsAreSound /\ CardsAreFit /\ CardsAreWorked /\ [Next]_vars
        => (RowsAreTyped /\ CardsAreSound /\ CardsAreFit /\ CardsAreWorked)'
  BY Calm, Whole, RowsStayTyped, CardsStaySound, CardsStayFit, CardsStayWorked
<1>3. CardsAreWorked => WorkedCardsHaveARun
  <2> SUFFICES ASSUME CardsAreWorked, Quiescent, NEW t \in Cards, card[t].column = "in_progress"
               PROVE  byHand[t] \/ run[Edge(t)].status \in {"running", "completed"}
    BY DEF WorkedCardsHaveARun
  <2>1. start[t].at \notin Reserved /\ ~Settling(t)
    BY DEF Quiescent, Starting, Reserved, Settling
  <2> QED
    BY <2>1 DEF CardsAreWorked, WorkedSoon, Standing
<1> QED
  BY <1>1, <1>2, <1>3, PTL DEF Spec

-----------------------------------------------------------------------------
(* A card keeps its conversation                                            *)

\* No board has chats deleted and presses that resolve to another target: a
\* press of another target leaves the card's earlier chat beside the new one,
\* and a card whose new chat is deleted then names neither.
Either == \A w \in Weathers : ~("delete" \in w.may /\ "retarget" \in w.may)

\* Runs that hold no conversation.
Gone == {"none", "discarded", "deleted"}

\* The card names a run, or will when its start has failed.
NamesOne(t) == IF start[t].at \in {"send", "unlink"} THEN start[t].found # 0 ELSE card[t].run # 0

\* What a start may fall back on.
StartKeeps(t) ==
  LET s == start[t] IN
  /\ card[t].run # 0 /\ run[Edge(t)].status = "pending" => s.at \in {"send", "unlink"}
  /\ s.at \in Made => run[<<t, s.found>>].status # "pending"
  /\ s.at \in Made /\ s.fresh /\ ~May("retarget") => run[<<t, s.found>>].status \in Gone
  /\ s.at = "unlink" => s.fresh /\ card[t].run \in {s.found, s.thread}
  /\ ~May("delete") => ~Purged(Edge(t)) /\ (s.at \in Made => ~Purged(<<t, s.found>>))

\* Every run of the card holds no conversation, is the one the card names or
\* the one being made, or is an earlier one of a card that names another.
ThreadsAreKept(t) ==
  \A i \in 1 .. Threads :
    \/ run[<<t, i>>].status \in Gone
    \/ i = card[t].run
    \/ start[t].at \in Made /\ start[t].fresh /\ start[t].thread = i
    \/ ~May("delete") /\ NamesOne(t)

CardIsKept(t) == StartKeeps(t) /\ ThreadsAreKept(t)

\* A card that names the same run, while no start writes on it, is kept.
LEMMA StaysKept ==
  ASSUME RowsAreTyped, NEW t \in Cards, CardIsKept(t), weather' = weather, card'[t].run = card[t].run,
         start'[t] = start[t] \/ (start[t].at \notin Made /\ start'[t].at \notin Made),
         \A i \in 0 .. Threads :
           /\ run'[<<t, i>>].status = "pending" => run[<<t, i>>].status = "pending"
           /\ run[<<t, i>>].status \in Gone => run'[<<t, i>>].status \in Gone
           /\ Purged(<<t, i>>)' => Purged(<<t, i>>) \/ May("delete")
  PROVE  CardIsKept(t)'
<1>1. /\ Edge(t)' = Edge(t) /\ Edge(t) = <<t, card[t].run>> /\ card[t].run \in 0 .. Threads
      /\ start[t].found \in 0 .. Threads
      /\ \A word : May(word)' <=> May(word)
  BY EdgesAre DEF Edge, CardType, StartType, May
<1>2. {"send", "unlink"} \subseteq Made
  BY DEF Made
<1>3. StartKeeps(t)'
  BY <1>1, <1>2 DEF CardIsKept, StartKeeps
<1>4. NamesOne(t)' <=> NamesOne(t)
  BY <1>2 DEF NamesOne
<1>5. ThreadsAreKept(t)'
  BY <1>1, <1>4 DEF CardIsKept, ThreadsAreKept
<1> QED
  BY <1>3, <1>5 DEF CardIsKept

\* A card left alone is kept.
LEMMA UntouchedStaysKept ==
  ASSUME RowsAreTyped, NEW t \in Cards, CardIsKept(t), weather' = weather, Untouched(t)
  PROVE  CardIsKept(t)'
<1>1. /\ card'[t].run = card[t].run /\ start'[t] = start[t]
      /\ \A i \in 0 .. Threads : run'[<<t, i>>] = run[<<t, i>>]
  BY DEF Untouched, SameCard, SameRuns
<1> QED
  BY <1>1, StaysKept DEF Purged

\* A run chosen: the card's own, when it ended, or one made for the start.
LEMMA ChooseKeeps ==
  ASSUME RowsAreTyped, RowsAreTyped', Calm, NEW t \in Cards, CardIsSound(t), CardIsFit(t), CardIsKept(t),
         weather' = weather, Choose(t)
  PROVE  CardIsKept(t)'
<1> DEFINE s == start[t]
<1>0. /\ Edge(t) = <<t, card[t].run>> /\ card[t].run \in 0 .. Threads /\ run[Edge(t)].status \in Statuses
      /\ \A word : May(word)' <=> May(word)
  BY EdgesAre DEF Edge, CardType, RunType, May
<1>1. /\ s.at = "choose" /\ start'[t].found = s.found /\ card'[t].run = card[t].run
  BY ChooseIs DEF SameCard
<1>2. /\ s.found = card[t].run /\ s.fresh = FALSE /\ Edge(t)' = Edge(t)
  <2>1. s.fresh \in BOOLEAN
    BY EdgesAre DEF StartType
  <2> QED
    BY <1>1, <2>1 DEF CardIsSound, CardIsFit, StartIsFit, Made, Edge
<1>3. run[Edge(t)].status \notin {"pending", "running"}
  <2>1. CASE card[t].run = 0
    BY <1>0, <2>1 DEF CardIsSound
  <2>2. CASE card[t].run # 0
    BY <1>0, <1>1, <2>2, BoardAssumption DEF CardIsKept, StartKeeps, CardIsSound, Judged, Works
  <2> QED
    BY <2>1, <2>2
<1>4. ~May("delete") => ~Purged(Edge(t))
  BY DEF CardIsKept, StartKeeps
<1>5. \A i \in 1 .. Threads :
        run[<<t, i>>].status \in Gone \/ i = card[t].run \/ (~May("delete") /\ card[t].run # 0)
  BY <1>1 DEF CardIsKept, ThreadsAreKept, NamesOne, Made
<1>6. CASE run' = run /\ start'[t].at \in {"link", "giveback"} /\ start'[t].fresh = FALSE
  <2>1. StartKeeps(t)'
    BY <1>0, <1>1, <1>2, <1>3, <1>4, <1>6 DEF StartKeeps, Purged
  <2>2. ThreadsAreKept(t)'
    BY <1>0, <1>1, <1>5, <1>6 DEF ThreadsAreKept, NamesOne
  <2> QED
    BY <2>1, <2>2 DEF CardIsKept
<1>7. ASSUME NEW j \in 1 .. Threads, run[<<t, j>>].status = "none",
             run'[<<t, j>>].status = "pending", \A i \in 0 .. Threads : i # j => run'[<<t, i>>] = run[<<t, i>>],
             start'[t].at = "link", start'[t].thread = j, start'[t].fresh = TRUE,
             run[<<t, s.found>>].status \notin Ended \/ May("retarget")
      PROVE  CardIsKept(t)'
  <2>1. card[t].run # j
    BY <1>0, <1>7, BoardAssumption DEF CardIsFit, StartIsFit
  <2>2. run'[Edge(t)] = run[Edge(t)]
    BY <1>0, <1>7, <2>1
  <2>3. ~May("retarget") => run[Edge(t)].status \in Gone
    BY <1>0, <1>2, <1>3, <1>7 DEF Statuses, Gone
  <2>4. StartKeeps(t)'
    BY <1>0, <1>1, <1>2, <1>3, <1>4, <1>7, <2>2, <2>3 DEF StartKeeps, Purged
  <2>5. ThreadsAreKept(t)'
    <3> SUFFICES ASSUME NEW i \in 1 .. Threads
                 PROVE  \/ run'[<<t, i>>].status \in Gone
                        \/ i = card'[t].run
                        \/ start'[t].at \in Made /\ start'[t].fresh /\ start'[t].thread = i
                        \/ ~May("delete")' /\ NamesOne(t)'
      BY DEF ThreadsAreKept
    <3>1. CASE i = j
      BY <1>7, <3>1 DEF Made
    <3>2. CASE i # j
      BY <1>0, <1>1, <1>5, <1>7, <3>2 DEF NamesOne
    <3> QED
      BY <3>1, <3>2
  <2> QED
    BY <2>4, <2>5 DEF CardIsKept
<1>8. \/ run' = run /\ start'[t].at \in {"link", "giveback"} /\ start'[t].fresh = start[t].fresh
      \/ \E j \in 1 .. Threads :
           /\ run[<<t, j>>].status = "none"
           /\ run'[<<t, j>>].status = "pending"
           /\ \A i \in 0 .. Threads : i # j => run'[<<t, i>>] = run[<<t, i>>]
           /\ start'[t].at = "link" /\ start'[t].thread = j /\ start'[t].fresh = TRUE
           /\ run[<<t, s.found>>].status \notin Ended \/ May("retarget")
  BY ChooseIs DEF SameStart
<1> QED
  BY <1>2, <1>6, <1>7, <1>8

\* The run written on the card, or the start gone wrong ahead of it.
LEMMA LinkKeeps ==
  ASSUME RowsAreTyped, RowsAreTyped', Either, NEW t \in Cards, CardIsSound(t), CardIsFit(t), CardIsKept(t),
         weather' = weather, Link(t)
  PROVE  CardIsKept(t)'
<1> DEFINE s == start[t]
<1>0. /\ Edge(t) = <<t, card[t].run>> /\ Edge(t)' = <<t, card'[t].run>>
      /\ s.found \in 0 .. Threads /\ s.fresh \in BOOLEAN
      /\ \A word : May(word)' <=> May(word)
  BY EdgesAre DEF Edge, StartType, May
<1>1. /\ s.at = "link" /\ SameStart(t) /\ run' = run
      /\ \/ card'[t].run = s.thread /\ start'[t].at = "send"
         \/ card'[t].run = card[t].run /\ start'[t].at = (IF s.fresh THEN "unlink" ELSE "giveback")
  BY LinkIs
<1>2. /\ card[t].run = s.found /\ Thread(t) = <<t, s.thread>>
      /\ s.fresh => run[Thread(t)].status = "pending"
      /\ ~s.fresh => s.thread = s.found /\ run[Thread(t)].status \in Ended
  BY <1>1 DEF CardIsFit, StartIsFit, Made, Thread
<1>3. /\ run[<<t, s.found>>].status # "pending"
      /\ s.fresh /\ ~May("retarget") => run[<<t, s.found>>].status \in Gone
      /\ ~May("delete") => ~Purged(<<t, s.found>>)
  BY <1>1 DEF CardIsKept, StartKeeps, Made
<1>4. \A i \in 1 .. Threads :
        \/ run[<<t, i>>].status \in Gone \/ i = s.found \/ (s.fresh /\ s.thread = i)
        \/ ~May("delete") /\ s.found # 0
  BY <1>1, <1>2 DEF CardIsKept, ThreadsAreKept, NamesOne
<1>5. CASE card'[t].run = s.thread /\ start'[t].at = "send"
  <2>1. ~Purged(Thread(t))
    BY <1>2 DEF Purged, Ended
  <2>2. StartKeeps(t)'
    BY <1>0, <1>1, <1>2, <1>3, <1>5, <2>1 DEF StartKeeps, SameStart, Purged
  <2>3. ThreadsAreKept(t)'
    <3> SUFFICES ASSUME NEW i \in 1 .. Threads
                 PROVE  \/ run[<<t, i>>].status \in Gone
                        \/ i = s.thread
                        \/ ~May("delete") /\ s.found # 0
      BY <1>0, <1>1, <1>5 DEF ThreadsAreKept, NamesOne, SameStart
    <3>1. CASE i = s.found /\ s.fresh
      <4>1. ~May("retarget") => run[<<t, i>>].status \in Gone
        BY <1>3, <3>1
      <4>2. May("retarget") => ~May("delete")
        BY DEF Either, May, RowsAreTyped
      <4> QED
        BY <3>1, <4>1, <4>2
    <3>2. CASE i = s.found /\ ~s.fresh
      BY <1>2, <3>2
    <3>3. CASE i # s.found
      BY <1>4, <3>3
    <3> QED
      BY <1>0, <3>1, <3>2, <3>3
  <2> QED
    BY <2>2, <2>3 DEF CardIsKept
<1>6. CASE card'[t].run = card[t].run /\ start'[t].at = (IF s.fresh THEN "unlink" ELSE "giveback")
  <2>1. StartKeeps(t)'
    BY <1>0, <1>1, <1>2, <1>3, <1>6 DEF StartKeeps, SameStart, Purged
  <2>2. ThreadsAreKept(t)'
    BY <1>0, <1>1, <1>2, <1>4, <1>6 DEF ThreadsAreKept, NamesOne, SameStart, Made
  <2> QED
    BY <2>1, <2>2 DEF CardIsKept
<1> QED
  BY <1>1, <1>5, <1>6

\* The brief sent: the card names the run that works; or refused.
LEMMA SendKeeps ==
  ASSUME RowsAreTyped, RowsAreTyped', Calm, NEW t \in Cards, CardIsSound(t), CardIsFit(t), CardIsKept(t),
         weather' = weather, Send(t)
  PROVE  CardIsKept(t)'
<1> DEFINE s == start[t]
<1>0. /\ Edge(t) = <<t, card[t].run>> /\ Edge(t)' = <<t, card'[t].run>> /\ Thread(t) = <<t, s.thread>>
      /\ s.thread \in 0 .. Threads /\ s.fresh \in BOOLEAN
      /\ \A word : May(word)' <=> May(word)
  BY EdgesAre DEF Edge, StartType, May, Thread
<1>1. /\ s.at = "send" /\ SameStart(t) /\ card'[t].run = card[t].run
      /\ \/ /\ start'[t].at = "clear" /\ run'[Thread(t)].status = "running"
            /\ \A i \in 0 .. Threads : i # s.thread => run'[<<t, i>>] = run[<<t, i>>]
         \/ start'[t].at = (IF s.fresh THEN "unlink" ELSE "giveback") /\ run' = run
  BY SendIs DEF SameCard
<1>2. card[t].run = s.thread /\ s.thread # 0 /\ (~s.fresh => run[Thread(t)].status \in Ended)
  BY <1>1 DEF CardIsSound, CardIsFit, StartIsFit
<1>3. /\ run[<<t, s.found>>].status # "pending"
      /\ s.fresh /\ ~May("retarget") => run[<<t, s.found>>].status \in Gone
      /\ ~May("delete") => ~Purged(Edge(t)) /\ ~Purged(<<t, s.found>>)
  BY <1>1 DEF CardIsKept, StartKeeps, Made
<1>4. \A i \in 1 .. Threads :
        \/ run[<<t, i>>].status \in Gone \/ i = s.thread
        \/ ~May("delete") /\ s.found # 0
  BY <1>1, <1>2 DEF CardIsKept, ThreadsAreKept, NamesOne
<1>5. CASE /\ start'[t].at = "clear" /\ run'[Thread(t)].status = "running"
           /\ \A i \in 0 .. Threads : i # s.thread => run'[<<t, i>>] = run[<<t, i>>]
  <2>1. StartKeeps(t)'
    BY <1>0, <1>1, <1>2, <1>5 DEF StartKeeps, Purged, Made
  <2>2. ThreadsAreKept(t)'
    BY <1>0, <1>1, <1>2, <1>4, <1>5 DEF ThreadsAreKept, NamesOne
  <2> QED
    BY <2>1, <2>2 DEF CardIsKept
<1>6. CASE start'[t].at = (IF s.fresh THEN "unlink" ELSE "giveback") /\ run' = run
  <2>1. StartKeeps(t)'
    BY <1>0, <1>1, <1>2, <1>3, <1>6 DEF StartKeeps, SameStart, Purged, Ended
  <2>2. ThreadsAreKept(t)'
    BY <1>0, <1>1, <1>2, <1>4, <1>6 DEF ThreadsAreKept, NamesOne, SameStart
  <2> QED
    BY <2>1, <2>2 DEF CardIsKept
<1> QED
  BY <1>1, <1>5, <1>6

\* A start that went wrong gives back the run the card named, then the
\* column, and deletes the run it made.
LEMMA AbandonKeeps ==
  ASSUME RowsAreTyped, RowsAreTyped', NEW t \in Cards, CardIsSound(t), CardIsFit(t), CardIsKept(t),
         weather' = weather, Unlink(t) \/ GiveBack(t) \/ Discard(t)
  PROVE  CardIsKept(t)'
<1> DEFINE s == start[t]
<1>0. /\ Edge(t) = <<t, card[t].run>> /\ Edge(t)' = <<t, card'[t].run>> /\ Thread(t) = <<t, s.thread>>
      /\ s.found \in 0 .. Threads /\ s.fresh \in BOOLEAN
      /\ \A word : May(word)' <=> May(word)
  BY EdgesAre DEF Edge, StartType, May, Thread
<1>1. ASSUME s.at \in Made
      PROVE  /\ run[<<t, s.found>>].status # "pending"
             /\ s.fresh /\ ~May("retarget") => run[<<t, s.found>>].status \in Gone
             /\ ~May("delete") => ~Purged(<<t, s.found>>)
  BY <1>1 DEF CardIsKept, StartKeeps
<1>2. CASE Unlink(t)
  <2>1. s.at = "unlink" /\ start'[t].at = "giveback" /\ SameStart(t) /\ card'[t].run = s.found /\ run' = run
    BY <1>2, UnlinkIs
  <2>2. s.fresh /\ card[t].run \in {s.found, s.thread}
    BY <2>1 DEF CardIsKept, StartKeeps
  <2>3. StartKeeps(t)'
    BY <1>0, <1>1, <2>1 DEF StartKeeps, SameStart, Purged, Made
  <2>4. ThreadsAreKept(t)'
    BY <1>0, <2>1, <2>2 DEF CardIsKept, ThreadsAreKept, NamesOne, SameStart, Made
  <2> QED
    BY <2>3, <2>4 DEF CardIsKept
<1>3. CASE GiveBack(t)
  <2>1. /\ s.at = "giveback" /\ card'[t].run = card[t].run /\ run' = run
        /\ \/ s.fresh /\ start'[t].at = "discard" /\ SameStart(t)
           \/ ~s.fresh /\ start'[t].at = "idle"
    BY <1>3, GiveBackIs
  <2>2. StartKeeps(t)'
    BY <1>0, <1>1, <2>1 DEF CardIsKept, StartKeeps, SameStart, Purged, Made
  <2>3. ThreadsAreKept(t)'
    BY <1>0, <2>1 DEF CardIsKept, ThreadsAreKept, NamesOne, SameStart, Made
  <2> QED
    BY <2>2, <2>3 DEF CardIsKept
<1>4. CASE Discard(t)
  <2>1. /\ s.at = "discard" /\ start'[t].at = "idle" /\ card'[t].run = card[t].run
        /\ run'[Thread(t)].status = "discarded"
        /\ \A i \in 0 .. Threads : i # s.thread => run'[<<t, i>>] = run[<<t, i>>]
    BY <1>4, DiscardIs DEF SameCard
  <2>2. s.thread # s.found /\ card[t].run = s.found
    BY <2>1 DEF CardIsFit, StartIsFit, Made, CardIsSound
  <2>3. run'[Edge(t)] = run[Edge(t)] /\ Edge(t)' = Edge(t)
    BY <1>0, <2>1, <2>2
  <2>4. StartKeeps(t)'
    BY <1>1, <1>0, <2>1, <2>3 DEF CardIsKept, StartKeeps, Purged, Made
  <2>5. ThreadsAreKept(t)'
    <3> SUFFICES ASSUME NEW i \in 1 .. Threads
                 PROVE  \/ run'[<<t, i>>].status \in Gone
                        \/ i = card'[t].run
                        \/ ~May("delete")' /\ NamesOne(t)'
      BY DEF ThreadsAreKept
    <3>1. CASE i = s.thread
      BY <1>0, <2>1, <3>1 DEF Gone
    <3>2. CASE i # s.thread
      BY <1>0, <2>1, <3>2 DEF CardIsKept, ThreadsAreKept, NamesOne
    <3> QED
      BY <3>1, <3>2
  <2> QED
    BY <2>4, <2>5 DEF CardIsKept
<1> QED
  BY <1>2, <1>3, <1>4

\* Each step of a start keeps the card's conversation.
LEMMA StartStepsKeep ==
  ASSUME RowsAreTyped, RowsAreTyped', Calm, Either, NEW t \in Cards, CardIsSound(t), CardIsFit(t), CardIsKept(t),
         weather' = weather, StartGoes(t)
  PROVE  CardIsKept(t)'
<1>1. CASE ReadCard(t) \/ JudgeRun(t) \/ CountRuns(t) \/ ClearStamp(t) \/ (Reserve(t) /\ card[t].column # start[t].from)
  <2>1. /\ card'[t].run = card[t].run /\ run' = run
        /\ start[t].at \in Early /\ start'[t].at \in {"idle", "judge", "count", "reserve"}
    BY <1>1, QuietStartIs DEF QuietStart, SameCard
  <2>2. start[t].at \notin Made /\ start'[t].at \notin Made
    BY <2>1 DEF Early, Made
  <2> QED
    BY <2>1, <2>2, StaysKept DEF Purged
<1>2. CASE Reserve(t) /\ card[t].column = start[t].from
  <2>1. /\ card'[t].run = card[t].run /\ run' = run /\ start[t].at = "reserve" /\ start'[t].at = "choose"
    BY <1>2, ReserveIs
  <2>2. start[t].at \notin Made /\ start'[t].at \notin Made
    BY <2>1 DEF Made
  <2> QED
    BY <2>1, <2>2, StaysKept DEF Purged
<1> QED
  BY <1>1, <1>2, ChooseKeeps, LinkKeeps, SendKeeps, AbandonKeeps DEF StartGoes

\* Of the handlers only the one that lets go of a deleted chat changes the
\* run a card names.
LEMMA HandlersKeepTheRun ==
  ASSUME RowsAreTyped, NEW h \in handlers, Hears(h), ~ReleaseUnlinks(h)
  PROVE  card'[h.of[1]].run = card[h.of[1]].run
<1> DEFINE t == h.of[1]
<1>1. t \in Cards
  BY HandlerIsOf
<1>2. CASE SettleReads(h) \/ FollowReads(h) \/ ReleaseReads(h) \/ Finishes(h) \/ Rechecks(h) \/ OwedReconcile(h)
  BY <1>2 DEF SettleReads, FollowReads, ReleaseReads, Finishes, Rechecks, OwedReconcile
<1>3. CASE SettleStamps(h)
  <2>1. \/ card' = card \/ card' = [card EXCEPT ![t].stopped = "user"]
        \/ card' = [card EXCEPT ![t].stopped = "crash"]
    BY <1>3 DEF SettleStamps
  <2>2. ASSUME NEW s, card' = [card EXCEPT ![t].stopped = s] PROVE card'[t].run = card[t].run
    BY <1>1, <2>2, WritesOfCard
  <2> QED
    BY <2>1, <2>2
<1>4. CASE SettleMoves(h) \/ FollowMoves(h)
  <2>1. card' = card \/ \E to : card' = MovedTo(t, to)
    BY <1>4 DEF SettleMoves, FollowMoves
  <2> QED
    BY <1>1, <2>1, WritesOfCard
<1> QED
  BY <1>2, <1>3, <1>4 DEF Hears

\* Each handler does: one takes the run off the card only when it was deleted,
\* and then no other run of the card holds a conversation.
LEMMA HandlerStepsKeep ==
  ASSUME RowsAreTyped, RowsAreTyped', NEW h \in handlers, CardIsSound(h.of[1]), CardIsFit(h.of[1]),
         CardIsKept(h.of[1]), weather' = weather, Hears(h)
  PROVE  CardIsKept(h.of[1])'
<1> DEFINE t == h.of[1]
<1>1. t \in Cards /\ run' = run /\ start' = start
  BY HandlerStepIs DEF Hears
<1>2. CASE ~ReleaseUnlinks(h)
  BY <1>1, <1>2, HandlersKeepTheRun, StaysKept DEF Purged
<1>3. CASE ReleaseUnlinks(h)
  <2>1. /\ h.kind = "deleted" /\ h.at = "unlink" /\ card'[t].run = 0
    BY <1>1, <1>3, WritesOfCard DEF ReleaseUnlinks
  <2>2. /\ ~Starting(t) /\ Purged(h.of) /\ h.of = Edge(t)
    BY <1>1, <2>1, HandlerIsOf DEF CardIsSound, CardIsFit, HandlersAreFit, Alone
  <2>3. May("delete") /\ May("delete")'
    BY <2>2 DEF CardIsKept, StartKeeps, May
  <2>4. start[t].at \notin Made
    BY <2>2 DEF Starting, Made
  <2>5. StartKeeps(t)'
    BY <1>1, <2>1, <2>3, <2>4 DEF StartKeeps, Made
  <2>6. \A i \in 1 .. Threads : run[<<t, i>>].status \in Gone
    BY <2>2, <2>3, <2>4 DEF CardIsKept, ThreadsAreKept, Purged, Gone, Edge
  <2> QED
    BY <1>1, <2>5, <2>6 DEF CardIsKept, ThreadsAreKept
<1> QED
  BY <1>2, <1>3

\* No act on a card changes the run it names.
LEMMA PeopleKeep ==
  ASSUME RowsAreTyped, RowsAreTyped', Calm, NEW t \in Cards, CardIsKept(t), weather' = weather, ActedOn(t)
  PROVE  CardIsKept(t)'
<1>1. /\ card'[t].run = card[t].run /\ run' = run
      /\ \/ start'[t] = start[t]
         \/ ~Starting(t) /\ start'[t].at = "read"
  BY ClaimIs, LoadBoardIs, DragIs DEF ActedOn, SameCard, AtPeace
<1>2. start'[t] = start[t] \/ (start[t].at \notin Made /\ start'[t].at \notin Made)
  BY <1>1 DEF Starting, Made
<1> QED
  BY <1>1, <1>2, StaysKept DEF Purged

\* Nothing in a chat does; a deleted chat holds no conversation.
LEMMA ChatsKeep ==
  ASSUME RowsAreTyped, RowsAreTyped', Calm, NEW r \in Runs, CardIsSound(r[1]), CardIsKept(r[1]),
         weather' = weather, ChatGoes(r)
  PROVE  CardIsKept(r[1])'
<1> DEFINE t == r[1]
<1>1. t \in Cards /\ r = <<t, r[2]>>
  BY DEF Runs
<1>2. /\ start' = start /\ card'[t].run = card[t].run
      /\ \/ run' = run
         \/ /\ OtherRunsStay(r)
            /\ \/ run'[r].status = run[r].status
               \/ run[r].status \in Ended \union {"running"} /\ run'[r].status \in Ended \union {"running"}
               \/ run'[r].status = "deleted" /\ May("delete")
  BY FollowUpIs, DeleteChatIs, WorkEndsIs, EndsIs, AgentMovesIs DEF ChatGoes, SameCard, Works
<1>3. ASSUME NEW i \in 0 .. Threads
      PROVE  /\ run'[<<t, i>>].status = "pending" => run[<<t, i>>].status = "pending"
             /\ run[<<t, i>>].status \in Gone => run'[<<t, i>>].status \in Gone
             /\ Purged(<<t, i>>)' => Purged(<<t, i>>) \/ May("delete")
  <2>1. CASE <<t, i>> = r
    BY <1>2, <2>1 DEF Gone, Purged, Ended
  <2>2. CASE <<t, i>> # r
    <3>1. run'[<<t, i>>] = run[<<t, i>>]
      BY <1>2, <2>2 DEF OtherRunsStay
    <3> QED
      BY <3>1 DEF Purged
  <2> QED
    BY <2>1, <2>2
<1> QED
  BY <1>1, <1>2, <1>3, StaysKept

\* A boot that interrupts no start fails the runs that worked, and keeps what
\* the cards name.
LEMMA RestartKeeps ==
  ASSUME RowsAreTyped, RowsAreTyped', Whole, NEW cause \in {"quit", "crash"}, Restart(cause),
         NEW t \in Cards, CardIsKept(t)
  PROVE  CardIsKept(t)'
<1>1. /\ weather' = weather /\ card'[t].run = card[t].run /\ start'[t].at = "idle"
      /\ \A r \in Edges : run'[r].status = (IF Works(r) THEN "failed" ELSE run[r].status)
  BY RestartIs
<1>2. start[t].at \notin Made /\ start'[t].at \notin Made
  BY <1>1, WholeRestart DEF Made
<1>3. \A i \in 0 .. Threads : <<t, i>> \in Edges
  BY DEF Edges
<1>4. \A i \in 0 .. Threads :
        run'[<<t, i>>].status = (IF run[<<t, i>>].status = "running" THEN "failed" ELSE run[<<t, i>>].status)
  BY <1>1, <1>3 DEF Works
<1> QED
  BY <1>1, <1>2, <1>4, StaysKept DEF Purged, Gone

\* Nothing changes the weather a board is under.
LEMMA WeatherStays == [Next]_vars => weather' = weather
BY DEF Next, vars, boardVars, startVars, ReadQueue, PostStart, PressRun, LoadBoard, Drag,
       FollowUp, DeleteChat, WorkEnds, Ends, AgentMoves,
       StartStep, ReadCard, JudgeRun, CountRuns, Reserve, Choose, Link, Send, Unlink, GiveBack, Discard, ClearStamp,
       Refused, HandlerStep, SettleReads, SettleStamps, SettleMoves, FollowReads, FollowMoves, ReleaseReads,
       ReleaseUnlinks, Finishes, Rechecks, OwedReconcile, Restart

CardsAreKept == \A t \in Cards : CardIsKept(t)

\* Every step keeps the cards' conversations.
LEMMA CardsStayKept ==
  Calm /\ Whole /\ Either /\ RowsAreTyped /\ CardsAreSound /\ CardsAreFit /\ CardsAreKept /\ [Next]_vars
    => CardsAreKept'
<1> SUFFICES ASSUME Calm, Whole, Either, RowsAreTyped, CardsAreSound, CardsAreFit, CardsAreKept, [Next]_vars
             PROVE  CardsAreKept'
  OBVIOUS
<1>1. RowsAreTyped' /\ weather' = weather
  BY RowsStayTyped, WeatherStays
<1>2. \A t \in Cards : CardIsSound(t) /\ CardIsFit(t) /\ CardIsKept(t)
  BY DEF CardsAreSound, CardsAreFit, CardsAreKept
<1>3. ASSUME NEW t \in Cards, OnlyCard(t), CardIsKept(t)' PROVE CardsAreKept'
  BY <1>1, <1>2, <1>3, UntouchedStaysKept DEF CardsAreKept, OnlyCard
<1>4. CASE \A u \in Cards : Untouched(u)
  BY <1>1, <1>2, <1>4, UntouchedStaysKept DEF CardsAreKept
<1>5. ASSUME NEW t \in Cards, OnlyCard(t), StartGoes(t) \/ ActedOn(t) PROVE CardsAreKept'
  BY <1>1, <1>2, <1>3, <1>5, StartStepsKeep, PeopleKeep
<1>6. ASSUME NEW h \in handlers, h.of[1] \in Cards, OnlyCard(h.of[1]), Hears(h) PROVE CardsAreKept'
  BY <1>1, <1>2, <1>3, <1>6, HandlerStepsKeep
<1>7. ASSUME NEW r \in Runs, r[1] \in Cards, OnlyCard(r[1]), ChatGoes(r) PROVE CardsAreKept'
  BY <1>1, <1>2, <1>3, <1>7, ChatsKeep
<1>8. ASSUME NEW cause \in {"quit", "crash"}, Restart(cause) PROVE CardsAreKept'
  BY <1>1, <1>2, <1>8, RestartKeeps DEF CardsAreKept
<1> QED
  BY <1>4, <1>5, <1>6, <1>7, <1>8, StepsTouchOneCard

\* On a calm board whose daemon is not stopped in the middle of a start, and
\* where chats are deleted or targets change but not both, a card that names
\* no run once everything in flight has ended has no conversation left: a
\* start that fails puts back the run it found before it deletes the one it
\* made (TaskRunsService.abandon), and only a deletion takes a run off a card
\* (releaseDeletedRun).
THEOREM CardsKeepTheirThread ==
  ASSUME Calm, Whole, Either
  PROVE  Spec => []CardKeepsItsThread
<1>1. Init => RowsAreTyped /\ CardsAreSound /\ CardsAreFit /\ CardsAreKept
  <2>1. ASSUME Init, NEW t \in Cards PROVE CardIsKept(t)
    <3>1. start[t].at = "idle" /\ card[t].run = 0 /\ Edge(t) = <<t, 0>>
      BY <2>1 DEF Init, StartsInit, NoStart, BoardInit, Edge
    <3>2. \A i \in 0 .. Threads : run[<<t, i>>].status = "none"
      BY <2>1 DEF Init, BoardInit, NoRun, Edges
    <3>3. run[<<t, 0>>].status = "none"
      BY <3>2, BoardAssumption
    <3> QED
      BY <3>1, <3>2, <3>3 DEF CardIsKept, StartKeeps, ThreadsAreKept, Made, Gone, Purged
  <2> QED
    BY <2>1, InitTyped, CardsStart, CardsStartFit DEF CardsAreKept
<1>2. RowsAreTyped /\ CardsAreSound /\ CardsAreFit /\ CardsAreKept /\ [Next]_vars
        => (RowsAreTyped /\ CardsAreSound /\ CardsAreFit /\ CardsAreKept)'
  BY Calm, Whole, Either, RowsStayTyped, CardsStaySound, CardsStayFit, CardsStayKept
<1>3. CardsAreKept => CardKeepsItsThread
  <2> SUFFICES ASSUME CardsAreKept, Quiescent, NEW t \in Cards, card[t].run = 0, NEW i \in 1 .. Threads
               PROVE  run[<<t, i>>].status \in Gone
    BY DEF CardKeepsItsThread, Gone
  <2>1. start[t].at = "idle" /\ CardIsKept(t)
    BY DEF Quiescent, Starting, CardsAreKept
  <2> QED
    BY <2>1 DEF CardIsKept, ThreadsAreKept, NamesOne, Made
<1> QED
  BY <1>1, <1>2, <1>3, PTL DEF Spec

=============================================================================
