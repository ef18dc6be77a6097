----------------------------- MODULE BoardProofs -----------------------------
(***************************************************************************)
(* Theorems about the board, for any number of cards, runs per card and    *)
(* handlers in flight, and any cap.                                        *)
(***************************************************************************)
EXTENDS Autopilot, FiniteSetTheorems, TLAPS

CardType == [column : Columns, run : 0 .. Threads, stopped : {"no", "user", "crash"}]
RunType == [status : Statuses, cut : {"no", "quit", "crash"}, auto : BOOLEAN, holds : BOOLEAN]
StartType == [at : Points, auto : BOOLEAN, from : Columns, found : 0 .. Threads,
              stopped : {"no", "user", "crash"}, thread : 0 .. Threads, fresh : BOOLEAN]

RowsAreTyped ==
  /\ weather \in Weathers
  /\ card \in [Cards -> CardType]
  /\ run \in [Edges -> RunType]
  /\ owed \subseteq Cards /\ withheld \subseteq Edges /\ handlers \subseteq HandlerType
  /\ told \in [Cards -> BOOLEAN] /\ held \in [Cards -> BOOLEAN] /\ byHand \in [Cards -> BOOLEAN]
  /\ start \in [Cards -> StartType]
  /\ offer \subseteq Cards
  /\ \A h \in handlers : h.at = "move" => h.saw \in Columns

-----------------------------------------------------------------------------
(* Types                                                                   *)

\* A handler of any kind on a card's run is a handler.
LEMMA HandlerTyped ==
  ASSUME NEW kind \in {"ended", "working", "deleted", "reconcile", "owed", "finish", "recheck"},
         NEW r \in Edges, NEW how \in Ended \union {"none"}
  PROVE  /\ Handler(kind, r, how) \in HandlerType
         /\ Handler(kind, r, how).at = "read" /\ Handler(kind, r, how).kind = kind
         /\ Handler(kind, r, how).of = r /\ Handler(kind, r, how).how = how
BY DEF Handler, HandlerType

\* What an ended or working run sets off: handlers that have read nothing, on
\* that run.
LEMMA BroadcastTyped ==
  ASSUME NEW kind \in {"ended", "working"}, NEW r \in Edges, NEW how \in Ended \union {"none"}
  PROVE  /\ Broadcast(kind, r, how) \subseteq HandlerType
         /\ \A h \in Broadcast(kind, r, how) :
              h.at = "read" /\ h.of = r /\ (h.kind = "recheck" \/ (h.kind = kind /\ h.how = how))
BY HandlerTyped DEF Broadcast

\* The run a card names, and the runs its start goes by, are among the runs
\* that may be named.
LEMMA EdgesAre ==
  ASSUME RowsAreTyped, NEW t \in Cards
  PROVE  /\ Edge(t) \in Edges /\ card[t] \in CardType /\ run[Edge(t)] \in RunType
         /\ start[t] \in StartType /\ Thread(t) \in Edges /\ <<t, start[t].found>> \in Edges
BY DEF RowsAreTyped, Edge, Edges, CardType, StartType, Thread

\* A handler set off on the run a card names.
LEMMA EdgeHandlerTyped ==
  ASSUME RowsAreTyped, NEW t \in Cards,
         NEW kind \in {"ended", "working", "deleted", "reconcile", "owed", "finish", "recheck"},
         NEW how \in Ended \union {"none"}
  PROVE  /\ Handler(kind, Edge(t), how) \in HandlerType
         /\ Handler(kind, Edge(t), how).at = "read" /\ Handler(kind, Edge(t), how).kind = kind
         /\ Handler(kind, Edge(t), how).of = Edge(t) /\ Handler(kind, Edge(t), how).how = how
<1>1. Edge(t) \in Edges
  BY EdgesAre
<1> QED
  BY <1>1 DEF Handler, HandlerType

\* Every run is one a card may name.
LEMMA RunsAreEdges == Runs \subseteq Edges
BY DEF Runs, Edges

\* A handler under way is on the run of some card.
LEMMA HandlerIsOf ==
  ASSUME RowsAreTyped, NEW h \in handlers
  PROVE  h \in HandlerType /\ h.of \in Edges /\ h.of[1] \in Cards /\ h.of = <<h.of[1], h.of[2]>>
BY DEF RowsAreTyped, HandlerType, Edges

\* Moving a card keeps its run and its stamp, and may set off the check of its
\* finish.
LEMMA MovedTyped ==
  ASSUME RowsAreTyped, NEW t \in Cards, NEW to \in Columns
  PROVE  /\ MovedTo(t, to) \in [Cards -> CardType]
         /\ FinishCheck(t, to) \subseteq HandlerType
         /\ \A h \in FinishCheck(t, to) : h.at = "read" /\ h.kind = "finish" /\ h.of = Edge(t)
         /\ \A u \in Cards : MovedTo(t, to)[u].run = card[u].run /\ MovedTo(t, to)[u].stopped = card[u].stopped
<1>1. MovedTo(t, to) \in [Cards -> CardType]
  BY DEF RowsAreTyped, MovedTo, CardType
<1>2. \A u \in Cards : MovedTo(t, to)[u].run = card[u].run /\ MovedTo(t, to)[u].stopped = card[u].stopped
  BY DEF RowsAreTyped, MovedTo, CardType
<1>3. /\ FinishCheck(t, to) \subseteq HandlerType
      /\ \A h \in FinishCheck(t, to) : h.at = "read" /\ h.kind = "finish" /\ h.of = Edge(t)
  BY EdgeHandlerTyped DEF FinishCheck
<1> QED
  BY <1>1, <1>2, <1>3

\* Judging a finish writes the two records of what was told.
LEMMA JudgeTyped ==
  ASSUME RowsAreTyped, NEW r \in Edges, JudgeFinish(r)
  PROVE  withheld' \subseteq Edges /\ told' \in [Cards -> BOOLEAN]
BY DEF RowsAreTyped, JudgeFinish, Announce, Finished, FinishedIn

\* The histories keep their types.
LEMMA HistoryTyped ==
  ASSUME RowsAreTyped
  PROVE  /\ ToldKept => told' \in [Cards -> BOOLEAN]
         /\ HistoryKept => told' \in [Cards -> BOOLEAN] /\ byHand' \in [Cards -> BOOLEAN]
BY DEF RowsAreTyped, ToldKept, HistoryKept, FinishedIn

\* Letting go of a card's start sets off its owed reconcile and the handlers
\* named, no others.
LEMMA ReleasedTyped ==
  ASSUME RowsAreTyped, NEW t \in Cards, NEW others \in SUBSET HandlerType, Released(t, others),
         \A h \in others : h.at = "read"
  PROVE  /\ start' \in [Cards -> StartType] /\ owed' \subseteq Cards /\ handlers' \subseteq HandlerType
         /\ \A h \in handlers' : h.at = "move" => h.saw \in Columns
<1>1. NoStart \in StartType
  BY BoardAssumption DEF NoStart, StartType, Points, Intake, Columns
<1>2. Handler("owed", Edge(t), "none") \in HandlerType /\ Handler("owed", Edge(t), "none").at = "read"
  BY EdgeHandlerTyped
<1>3. /\ start' = [start EXCEPT ![t] = NoStart] /\ owed' = owed \ {t}
      /\ handlers' \subseteq handlers \union others \union {Handler("owed", Edge(t), "none")}
  BY DEF Released
<1> QED
  BY <1>1, <1>2, <1>3 DEF RowsAreTyped

\* The number of the next run a card is given is one of its unused ones.
LEMMA LeastRun ==
  ASSUME NEW S \in SUBSET (1 .. Threads), S # {}
  PROVE  (CHOOSE i \in S : \A j \in S : i <= j) \in S
<1> DEFINE R == OpToRel(<, Nat)
<1>1. \A x, y \in Nat : <<x, y>> \in R <=> x < y
  BY DEF OpToRel
<1>2. IsWellFoundedOn(R, Nat)
  BY NatLessThanWellFounded
<1>3. S \subseteq Nat
  BY BoardAssumption
<1>4. \E x \in S : \A y \in S : ~ (<<y, x>> \in R)
  <2> HIDE DEF R
  <2> QED
    BY <1>2, <1>3, WFMin
<1> HIDE DEF R
<1>5. PICK x \in S : \A y \in S : ~ (<<y, x>> \in R)
  BY <1>4
<1>6. \A y \in S : x <= y
  <2> SUFFICES ASSUME NEW y \in S PROVE x <= y
    OBVIOUS
  <2>1. x \in Nat /\ y \in Nat
    BY <1>3
  <2>2. ~(y < x)
    BY <1>1, <1>5, <2>1
  <2> QED
    BY <2>1, <2>2
<1> QED
  BY <1>6

\* The board is typed at first.
LEMMA InitTyped == Init => RowsAreTyped
<1> SUFFICES ASSUME Init PROVE RowsAreTyped
  OBVIOUS
<1>1. NoStart \in StartType
  BY BoardAssumption DEF NoStart, StartType, Points, Intake, Columns
<1>2. NoRun \in RunType
  BY DEF NoRun, RunType, Statuses
<1>3. [column |-> Intake, run |-> 0, stopped |-> "no"] \in CardType
  BY BoardAssumption DEF CardType, Intake, Columns
<1> QED
  BY <1>1, <1>2, <1>3 DEF Init, BoardInit, StartsInit, RowsAreTyped

\* A refused start leaves typed rows.
LEMMA RefusedTyped ==
  ASSUME RowsAreTyped, NEW t \in Cards, Refused(t, {}), UNCHANGED <<weather, card, run, told, held, byHand>>
  PROVE  RowsAreTyped'
<1>1. {} \in SUBSET HandlerType /\ Released(t, {})
  BY DEF Refused
<1>2. \A h \in {} : h.at = "read"
  OBVIOUS
<1>3. /\ start' \in [Cards -> StartType] /\ owed' \subseteq Cards /\ handlers' \subseteq HandlerType
      /\ \A h \in handlers' : h.at = "move" => h.saw \in Columns
  BY <1>1, <1>2, ReleasedTyped
<1> QED
  BY <1>3 DEF Refused, RowsAreTyped

\* The start of a card: its steps before it leaves the chain...
LEMMA StartStepsTyped ==
  ASSUME RowsAreTyped, NEW t \in Cards,
         ReadCard(t) \/ JudgeRun(t) \/ CountRuns(t) \/ Reserve(t) \/ Choose(t) \/ Link(t)
  PROVE  RowsAreTyped'
<1> USE DEF boardVars
<1>0. \A p \in Points : GoesTo(t, p) => start' \in [Cards -> StartType]
  BY DEF RowsAreTyped, GoesTo, StartType
<1>1. CASE ReadCard(t)
  <2> DEFINE s == [start[t] EXCEPT !.at = "judge", !.found = card[t].run, !.stopped = card[t].stopped]
  <2>1. start' = [start EXCEPT ![t] = s]
    BY <1>1 DEF ReadCard
  <2>3. s \in StartType
    BY EdgesAre DEF StartType, CardType, Points
  <2> HIDE DEF s
  <2>2. start' \in [Cards -> StartType]
    BY <2>1, <2>3 DEF RowsAreTyped
  <2> QED
    BY <1>1, <2>2 DEF ReadCard, RowsAreTyped
<1>2. CASE JudgeRun(t)
  <2>1. CASE Refused(t, {}) /\ UNCHANGED <<weather, card, run, told, held, byHand>>
    BY <2>1, RefusedTyped
  <2>2. CASE (GoesTo(t, "count") \/ GoesTo(t, "reserve")) /\ UNCHANGED <<boardVars, chain, offer>>
    <3>1. start' \in [Cards -> StartType]
      BY <1>0, <2>2 DEF Points
    <3> QED
      BY <2>2, <3>1 DEF RowsAreTyped
  <2> QED
    BY <1>2, <2>1, <2>2 DEF JudgeRun
<1>3. CASE CountRuns(t)
  <2>1. CASE Refused(t, {}) /\ UNCHANGED <<weather, card, run, told, held, byHand>>
    BY <2>1, RefusedTyped
  <2>2. CASE GoesTo(t, "reserve") /\ UNCHANGED <<boardVars, chain, offer>>
    BY <1>0, <2>2 DEF RowsAreTyped, Points
  <2> QED
    BY <1>3, <2>1, <2>2 DEF CountRuns
<1>4. CASE Reserve(t)
  <2>1. CASE Refused(t, {}) /\ UNCHANGED <<weather, card, run, told, held, byHand>>
    BY <2>1, RefusedTyped
  <2>2. CASE card[t].column = start[t].from
    BY <1>0, <1>4, <2>2, MovedTyped, HistoryTyped DEF Reserve, RowsAreTyped, Points, Columns
  <2> QED
    BY <1>4, <2>1, <2>2 DEF Reserve
<1>5. CASE Choose(t)
  <2> DEFINE made == {i \in 1 .. Threads : run[<<t, i>>].status = "none"}
             next == CHOOSE i \in made : \A j \in made : i <= j
  <2>1. CASE start' = [start EXCEPT ![t].at = "link", ![t].thread = start[t].found] /\ UNCHANGED <<boardVars, chain, offer>>
    <3> DEFINE s == [start[t] EXCEPT !.at = "link", !.thread = start[t].found]
    <3>1. start' = [start EXCEPT ![t] = s]
      BY <2>1
    <3>3. s \in StartType
      BY EdgesAre DEF StartType, Points
    <3> HIDE DEF s
    <3>2. start' \in [Cards -> StartType]
      BY <3>1, <3>3 DEF RowsAreTyped
    <3> QED
      BY <2>1, <3>2 DEF RowsAreTyped
  <2>2. CASE /\ made # {}
             /\ run' = [run EXCEPT ![<<t, next>>] = [NoRun EXCEPT !.status = "pending"]]
             /\ start' = [start EXCEPT ![t].at = "link", ![t].thread = next, ![t].fresh = TRUE]
             /\ UNCHANGED <<weather, card, owed, withheld, handlers, told, held, byHand, chain, offer>>
    <3>1. next \in made
      BY <2>2, LeastRun
    <3>2. next \in 1 .. Threads
      BY <3>1
    <3> HIDE DEF next, made
    <3> DEFINE s == [start[t] EXCEPT !.at = "link", !.thread = next, !.fresh = TRUE]
    <3>3. start' = [start EXCEPT ![t] = s]
      BY <2>2
    <3>8. next \in 0 .. Threads
      BY <3>2, BoardAssumption
    <3>9. start[t] \in StartType
      BY EdgesAre
    <3>7. s \in StartType
      BY <3>8, <3>9 DEF StartType, Points
    <3> HIDE DEF s
    <3>4. start' \in [Cards -> StartType]
      BY <3>3, <3>7 DEF RowsAreTyped
    <3>5. [NoRun EXCEPT !.status = "pending"] \in RunType
      BY DEF NoRun, RunType, Statuses
    <3>6. run' \in [Edges -> RunType]
      BY <2>2, <3>5 DEF RowsAreTyped
    <3> QED
      BY <2>2, <3>4, <3>6 DEF RowsAreTyped
  <2>3. CASE GoesTo(t, "giveback") /\ UNCHANGED <<boardVars, chain, offer>>
    BY <1>0, <2>3 DEF RowsAreTyped, Points
  <2> QED
    BY <1>5, <2>1, <2>2, <2>3 DEF Choose
<1>6. CASE Link(t)
  <2>1. start' \in [Cards -> StartType]
    BY <1>0, <1>6 DEF Link, GoesWrong, Points
  <2>3. [card[t] EXCEPT !.run = start[t].thread] \in CardType
    BY EdgesAre DEF CardType, StartType
  <2>2. card' \in [Cards -> CardType]
    BY <1>6, <2>3 DEF Link, RowsAreTyped
  <2> QED
    BY <1>6, <2>1, <2>2, HistoryTyped DEF Link, RowsAreTyped
<1> QED
  BY <1>1, <1>2, <1>3, <1>4, <1>5, <1>6

\* ...and those from the sending of its brief on.
LEMMA SendStepsTyped ==
  ASSUME RowsAreTyped, NEW t \in Cards,
         Send(t) \/ Unlink(t) \/ GiveBack(t) \/ Discard(t) \/ ClearStamp(t)
  PROVE  RowsAreTyped'
<1> USE DEF boardVars
<1>0. \A p \in Points : GoesTo(t, p) => start' \in [Cards -> StartType]
  BY DEF RowsAreTyped, GoesTo, StartType
<1>1. CASE Send(t)
  <2>1. CASE GoesWrong(t) /\ UNCHANGED <<boardVars, chain, offer>>
    BY <1>0, <2>1 DEF GoesWrong, RowsAreTyped, Points
  <2>2. CASE /\ run' = [run EXCEPT ![Thread(t)] = [@ EXCEPT !.status = "running", !.cut = "no", !.auto = start[t].auto]]
             /\ handlers' = handlers \union Broadcast("working", Thread(t), "none")
             /\ GoesTo(t, "clear")
             /\ UNCHANGED <<weather, card, owed, withheld, held, offer>>
             /\ HistoryKept
    <3>1. Thread(t) \in Edges /\ start[t].auto \in BOOLEAN
      BY EdgesAre DEF StartType
    <3>2. run' \in [Edges -> RunType]
      BY <2>2, <3>1 DEF RowsAreTyped, RunType, Statuses
    <3>3. /\ handlers' \subseteq HandlerType
          /\ \A h \in handlers' : h.at = "move" => h.saw \in Columns
      BY <2>2, <3>1, BroadcastTyped DEF RowsAreTyped
    <3> QED
      BY <1>0, <2>2, <3>2, <3>3, HistoryTyped DEF RowsAreTyped, Points
  <2> QED
    BY <1>1, <2>1, <2>2 DEF Send
<1>2. CASE Unlink(t)
  <2>1. card' \in [Cards -> CardType]
    BY <1>2 DEF Unlink, RowsAreTyped, CardType, StartType
  <2> QED
    BY <1>0, <1>2, <2>1, HistoryTyped DEF Unlink, RowsAreTyped, Points
<1>3. CASE GiveBack(t)
  <2> DEFINE finish == IF card[t].column = "in_progress" THEN FinishCheck(t, start[t].from) ELSE {}
  <2>1. start[t].from \in Columns
    BY DEF RowsAreTyped, StartType
  <2>2. card' \in [Cards -> CardType]
    BY <1>3, <2>1, MovedTyped DEF GiveBack, RowsAreTyped
  <2>3. finish \subseteq HandlerType /\ \A h \in finish : h.at = "read"
    BY <2>1, MovedTyped
  <2> HIDE DEF finish
  <2>4. CASE GoesTo(t, "discard") /\ handlers' = handlers \union finish /\ UNCHANGED <<owed, withheld, chain, offer>>
    BY <1>0, <1>3, <2>2, <2>3, <2>4, HistoryTyped DEF GiveBack, RowsAreTyped, Points
  <2>5. CASE Refused(t, finish)
    BY <1>3, <2>2, <2>3, <2>5, ReleasedTyped, HistoryTyped DEF GiveBack, RowsAreTyped, Refused
  <2> QED
    BY <1>3, <2>4, <2>5 DEF GiveBack, finish
<1>4. CASE Discard(t)
  <2>1. Thread(t) \in Edges
    BY EdgesAre
  <2>2. run' \in [Edges -> RunType]
    BY <1>4, <2>1 DEF Discard, RowsAreTyped, RunType, Statuses
  <2>3. Handler("deleted", Thread(t), "none") \in HandlerType /\ Handler("deleted", Thread(t), "none").at = "read"
    BY <2>1 DEF Handler, HandlerType
  <2> QED
    BY <1>4, <2>2, <2>3, ReleasedTyped, HistoryTyped DEF Discard, Refused, RowsAreTyped
<1>5. CASE ClearStamp(t)
  <2>1. card' \in [Cards -> CardType]
    BY <1>5 DEF ClearStamp, RowsAreTyped, CardType
  <2> QED
    BY <1>5, <2>1, ReleasedTyped DEF ClearStamp, RowsAreTyped
<1> QED
  BY <1>1, <1>2, <1>3, <1>4, <1>5

-----------------------------------------------------------------------------
\* A handler that ends, or goes on to its next read or write.
LEMMA GoesOnTyped ==
  ASSUME RowsAreTyped, NEW h \in handlers
  PROVE  /\ Dropped(h) => /\ handlers' \subseteq HandlerType
                          /\ \A g \in handlers' : g.at = "move" => g.saw \in Columns
         /\ \A next \in HandlerType : GoesOnTo(h, next) /\ next.at # "move" =>
              /\ handlers' \subseteq HandlerType
              /\ \A g \in handlers' : g.at = "move" => g.saw \in Columns
         /\ \A at \in {"stamp", "move", "unlink"}, saw \in Columns : GoesOn(h, at, saw) =>
              /\ handlers' \subseteq HandlerType
              /\ \A g \in handlers' : g.at = "move" => g.saw \in Columns
<1>1. h \in HandlerType
  BY HandlerIsOf
<1>2. ASSUME NEW at \in {"stamp", "move", "unlink"}, NEW saw \in Columns
      PROVE  [h EXCEPT !.at = at, !.saw = saw] \in HandlerType /\ [h EXCEPT !.at = at, !.saw = saw].saw = saw
  BY <1>1 DEF HandlerType
<1>3. ASSUME NEW next \in HandlerType, GoesOnTo(h, next), next.at = "move" => next.saw \in Columns
      PROVE  /\ handlers' \subseteq HandlerType
             /\ \A g \in handlers' : g.at = "move" => g.saw \in Columns
  BY <1>3 DEF GoesOnTo, RowsAreTyped
<1>4. Dropped(h) => /\ handlers' \subseteq HandlerType
                    /\ \A g \in handlers' : g.at = "move" => g.saw \in Columns
  BY DEF Dropped, RowsAreTyped
<1>5. ASSUME NEW at \in {"stamp", "move", "unlink"}, NEW saw \in Columns, GoesOn(h, at, saw)
      PROVE  /\ handlers' \subseteq HandlerType
             /\ \A g \in handlers' : g.at = "move" => g.saw \in Columns
  BY <1>2, <1>3, <1>5 DEF GoesOn
<1> QED
  BY <1>3, <1>4, <1>5

\* What the board does when a run ends or works again...
LEMMA SettleStepsTyped ==
  ASSUME RowsAreTyped, NEW h \in handlers,
         SettleReads(h) \/ SettleStamps(h) \/ SettleMoves(h) \/ FollowReads(h) \/ FollowMoves(h)
  PROVE  RowsAreTyped'
<1> USE DEF startVars
<1> DEFINE t == h.of[1]
<1>1. t \in Cards /\ h.of \in Edges /\ card[t] \in CardType
  BY HandlerIsOf, EdgesAre
<1>2. Dropped(h) => handlers' \subseteq HandlerType /\ \A g \in handlers' : g.at = "move" => g.saw \in Columns
  BY GoesOnTyped
<1>3. ASSUME NEW at \in {"stamp", "move", "unlink"}, NEW saw \in Columns, GoesOn(h, at, saw)
      PROVE  handlers' \subseteq HandlerType /\ \A g \in handlers' : g.at = "move" => g.saw \in Columns
  BY <1>3, GoesOnTyped
<1>4. card[t].column \in Columns
  BY <1>1 DEF CardType
<1>5. CASE SettleReads(h)
  <2>1. handlers' \subseteq HandlerType /\ \A g \in handlers' : g.at = "move" => g.saw \in Columns
    BY <1>2, <1>3, <1>4, <1>5 DEF SettleReads
  <2>2. owed' \subseteq Cards
    BY <1>1, <1>5 DEF SettleReads, RowsAreTyped
  <2> QED
    BY <1>5, <2>1, <2>2 DEF SettleReads, RowsAreTyped
<1>6. CASE SettleStamps(h)
  <2>1. Handler("finish", h.of, "none") \in HandlerType /\ Handler("finish", h.of, "none").at = "read"
    BY <1>1, HandlerTyped
  <2>2. ColumnAfter(h) # "none" => ColumnAfter(h) \in Columns
    BY BoardAssumption DEF ColumnAfter, Columns, Intake
  <2>3. handlers' \subseteq HandlerType /\ \A g \in handlers' : g.at = "move" => g.saw \in Columns
    <3>1. GoesOnTo(h, Handler("finish", h.of, "none")) =>
            handlers' \subseteq HandlerType /\ \A g \in handlers' : g.at = "move" => g.saw \in Columns
      BY <2>1, GoesOnTyped
    <3> QED
      BY <1>2, <1>3, <1>6, <2>2, <3>1 DEF SettleStamps
  <2>4. \A stamp \in {"user", "crash"} : [card[t] EXCEPT !.stopped = stamp] \in CardType
    BY <1>1 DEF CardType
  <2>5. card' \in [Cards -> CardType]
    <3>1. card' = card \/ \E stamp \in {"user", "crash"} : card' = [card EXCEPT ![t] = [card[t] EXCEPT !.stopped = stamp]]
      BY <1>6 DEF SettleStamps
    <3> QED
      BY <2>4, <3>1 DEF RowsAreTyped
  <2> QED
    BY <1>6, <2>3, <2>5 DEF SettleStamps, RowsAreTyped
<1>7. CASE SettleMoves(h)
  <2>1. h.saw \in Columns
    BY <1>7 DEF SettleMoves, RowsAreTyped
  <2>2. card' \in [Cards -> CardType]
    BY <1>1, <1>7, <2>1, MovedTyped DEF SettleMoves, RowsAreTyped
  <2> QED
    BY <1>2, <1>7, <2>2, HistoryTyped DEF SettleMoves, RowsAreTyped
<1>8. CASE FollowReads(h)
  <2>1. handlers' \subseteq HandlerType /\ \A g \in handlers' : g.at = "move" => g.saw \in Columns
    BY <1>2, <1>3, <1>8 DEF FollowReads, Columns
  <2> QED
    BY <1>8, <2>1 DEF FollowReads, RowsAreTyped
<1>9. CASE FollowMoves(h)
  <2>1. "in_progress" \in Columns
    BY DEF Columns
  <2>2. card' \in [Cards -> CardType]
    BY <1>1, <1>9, <2>1, MovedTyped DEF FollowMoves, RowsAreTyped
  <2> QED
    BY <1>2, <1>9, <2>2, HistoryTyped DEF FollowMoves, RowsAreTyped
<1> QED
  BY <1>5, <1>6, <1>7, <1>8, <1>9

\* ...or its chat is deleted, or its finish is judged.
LEMMA ReleaseStepsTyped ==
  ASSUME RowsAreTyped, NEW h \in handlers,
         ReleaseReads(h) \/ ReleaseUnlinks(h) \/ Finishes(h) \/ Rechecks(h) \/ OwedReconcile(h)
  PROVE  RowsAreTyped'
<1> USE DEF startVars
<1> DEFINE t == h.of[1]
<1>1. t \in Cards /\ h.of \in Edges /\ card[t] \in CardType
  BY HandlerIsOf, EdgesAre
<1>2. Dropped(h) => handlers' \subseteq HandlerType /\ \A g \in handlers' : g.at = "move" => g.saw \in Columns
  BY GoesOnTyped
<1>3. ASSUME NEW at \in {"stamp", "move", "unlink"}, NEW saw \in Columns, GoesOn(h, at, saw)
      PROVE  handlers' \subseteq HandlerType /\ \A g \in handlers' : g.at = "move" => g.saw \in Columns
  BY <1>3, GoesOnTyped
<1>4. card[t].column \in Columns
  BY <1>1 DEF CardType
<1>5. CASE ReleaseReads(h)
  <2>1. handlers' \subseteq HandlerType /\ \A g \in handlers' : g.at = "move" => g.saw \in Columns
    BY <1>2, <1>3, <1>4, <1>5 DEF ReleaseReads
  <2> QED
    BY <1>5, <2>1 DEF ReleaseReads, RowsAreTyped
<1>6. CASE ReleaseUnlinks(h)
  <2>1. handlers' \subseteq HandlerType /\ \A g \in handlers' : g.at = "move" => g.saw \in Columns
    BY <1>2, <1>3, <1>6 DEF ReleaseUnlinks, Columns
  <2>2. [card[t] EXCEPT !.run = 0] \in CardType
    BY <1>1, BoardAssumption DEF CardType
  <2>3. card' \in [Cards -> CardType]
    BY <1>6, <2>2 DEF ReleaseUnlinks, RowsAreTyped
  <2> QED
    BY <1>6, <2>1, <2>3, HistoryTyped DEF ReleaseUnlinks, RowsAreTyped
<1>7. CASE Finishes(h)
  BY <1>1, <1>2, <1>7, JudgeTyped DEF Finishes, RowsAreTyped
<1>8. CASE Rechecks(h)
  <2>1. withheld' \subseteq Edges /\ told' \in [Cards -> BOOLEAN]
    <3>1. CASE JudgeFinish(h.of)
      BY <1>1, <3>1, JudgeTyped
    <3>2. CASE withheld' \subseteq withheld /\ UNCHANGED told
      BY <3>2 DEF RowsAreTyped
    <3> QED
      BY <1>8, <3>1, <3>2 DEF Rechecks
  <2> QED
    BY <1>2, <1>8, <2>1 DEF Rechecks, RowsAreTyped
<1>9. CASE OwedReconcile(h)
  <2>1. run[Edge(t)].status \in Ended =>
          /\ Handler("reconcile", Edge(t), run[Edge(t)].status) \in HandlerType
          /\ Handler("reconcile", Edge(t), run[Edge(t)].status).at = "read"
    BY <1>1, EdgeHandlerTyped
  <2>2. handlers' \subseteq HandlerType /\ \A g \in handlers' : g.at = "move" => g.saw \in Columns
    BY <1>9, <2>1 DEF OwedReconcile, RowsAreTyped
  <2> QED
    BY <1>9, <2>2 DEF OwedReconcile, RowsAreTyped
<1> QED
  BY <1>5, <1>6, <1>7, <1>8, <1>9

-----------------------------------------------------------------------------
\* The conductor and the people.
LEMMA QueueTyped == RowsAreTyped /\ ReadQueue => RowsAreTyped'
<1>1. RowsAreTyped => Startable \subseteq Cards
  BY BoardAssumption DEF Startable, RowsAreTyped
<1> QED
  BY <1>1 DEF ReadQueue, RowsAreTyped, boardVars

\* What a person does leaves typed rows.
LEMMA ActsTyped ==
  ASSUME RowsAreTyped, NEW t \in Cards,
         PostStart(t) \/ PressRun(t) \/ LoadBoard(t) \/ \E to \in Columns : Drag(t, to)
  PROVE  RowsAreTyped'
<1> USE DEF boardVars, startVars
<1>2. ASSUME NEW auto \in BOOLEAN, NEW from \in Columns, Claim(t, auto, from)
      PROVE  start' \in [Cards -> StartType]
  <2> DEFINE s == [NoStart EXCEPT !.at = "read", !.auto = auto, !.from = from]
  <2>3. NoStart \in StartType
    BY BoardAssumption DEF NoStart, StartType, Points, Intake, Columns
  <2>1. s \in StartType
    BY <2>3 DEF StartType, Points
  <2>2. start' = [start EXCEPT ![t] = s]
    BY <1>2 DEF Claim
  <2> HIDE DEF s
  <2> QED
    BY <2>1, <2>2 DEF RowsAreTyped
<1>3. CASE PostStart(t)
  <2>1. Intake \in Columns
    BY DEF Intake, Columns
  <2>2. start' \in [Cards -> StartType]
    BY <1>2, <1>3, <2>1 DEF PostStart, RowsAreTyped
  <2> QED
    BY <1>3, <2>2 DEF PostStart, RowsAreTyped
<1>4. CASE PressRun(t)
  <2>1. card[t].column \in Columns
    BY DEF RowsAreTyped, CardType
  <2>2. start' \in [Cards -> StartType]
    BY <1>2, <1>4, <2>1 DEF PressRun
  <2> QED
    BY <1>4, <2>2 DEF PressRun, Seen, RowsAreTyped
<1>5. CASE LoadBoard(t)
  <2>1. run[Edge(t)].status \in Ended =>
          /\ Handler("reconcile", Edge(t), run[Edge(t)].status) \in HandlerType
          /\ Handler("reconcile", Edge(t), run[Edge(t)].status).at = "read"
    BY EdgeHandlerTyped
  <2> QED
    BY <1>5, <2>1 DEF LoadBoard, RowsAreTyped
<1>6. ASSUME NEW to \in Columns, Drag(t, to) PROVE RowsAreTyped'
  <2>1. /\ card' \in [Cards -> CardType] /\ handlers' \subseteq HandlerType
        /\ \A h \in handlers' : h.at = "move" => h.saw \in Columns
    BY <1>6, MovedTyped DEF Drag, RowsAreTyped
  <2>2. held' \in [Cards -> BOOLEAN] /\ told' \in [Cards -> BOOLEAN]
    BY <1>6, HistoryTyped DEF Drag, Seen, RowsAreTyped
  <2>3. byHand' \in [Cards -> BOOLEAN]
    BY <1>6 DEF Drag, DrawnWorking, RowsAreTyped
  <2> QED
    BY <1>6, <2>1, <2>2, <2>3 DEF Drag, RowsAreTyped
<1> QED
  BY <1>3, <1>4, <1>5, <1>6

\* The chats and the agents in them.
LEMMA ChatsTyped ==
  ASSUME RowsAreTyped, NEW r \in Runs,
         FollowUp(r) \/ DeleteChat(r) \/ WorkEnds(r) \/ (\E how \in Ended : Ends(r, how))
           \/ \E to \in Columns : AgentMoves(r, to)
  PROVE  RowsAreTyped'
<1> USE DEF boardVars, startVars
<1>1. r \in Edges /\ r[1] \in Cards /\ run[r] \in RunType
  BY RunsAreEdges DEF RowsAreTyped, Runs
<1>2. CASE FollowUp(r)
  <2>1. [run[r] EXCEPT !.status = "running", !.cut = "no", !.auto = FALSE] \in RunType
    BY <1>1 DEF RunType, Statuses
  <2>2. run' \in [Edges -> RunType]
    BY <1>2, <2>1 DEF FollowUp, RowsAreTyped
  <2>3. handlers' \subseteq HandlerType /\ \A h \in handlers' : h.at = "move" => h.saw \in Columns
    BY <1>1, <1>2, BroadcastTyped DEF FollowUp, RowsAreTyped
  <2> QED
    BY <1>1, <1>2, <2>2, <2>3, HistoryTyped DEF FollowUp, Seen, RowsAreTyped
<1>3. CASE DeleteChat(r)
  <2>1. [NoRun EXCEPT !.status = "deleted"] \in RunType
    BY DEF RunType, Statuses, NoRun
  <2>2. run' \in [Edges -> RunType]
    BY <1>3, <2>1 DEF DeleteChat, RowsAreTyped
  <2>3. Handler("deleted", r, "none") \in HandlerType /\ Handler("deleted", r, "none").at = "read"
    BY <1>1 DEF Handler, HandlerType
  <2> QED
    BY <1>1, <1>3, <2>2, <2>3, HistoryTyped DEF DeleteChat, Seen, RowsAreTyped
<1>4. CASE WorkEnds(r)
  <2>1. [run[r] EXCEPT !.holds = FALSE] \in RunType
    BY <1>1 DEF RunType
  <2>2. run' \in [Edges -> RunType]
    BY <1>4, <2>1 DEF WorkEnds, RowsAreTyped
  <2>3. Handler("recheck", r, "none") \in HandlerType /\ Handler("recheck", r, "none").at = "read"
    BY <1>1 DEF Handler, HandlerType
  <2> QED
    BY <1>4, <2>2, <2>3, HistoryTyped DEF WorkEnds, RowsAreTyped
<1>5. ASSUME NEW how \in Ended, Ends(r, how) PROVE RowsAreTyped'
  <2>1. \A holds \in BOOLEAN : [run[r] EXCEPT !.status = how, !.holds = holds] \in RunType
    BY <1>1 DEF RunType, Statuses
  <2>5. PICK holds \in {FALSE, May("shells")} :
          run' = [run EXCEPT ![r] = [run[r] EXCEPT !.status = how, !.holds = holds]]
    BY <1>5 DEF Ends
  <2>6. holds \in BOOLEAN
    <3>1. ("shells" \in weather.may) \in BOOLEAN
      OBVIOUS
    <3>2. holds = FALSE \/ holds = ("shells" \in weather.may)
      BY <2>5 DEF May
    <3> QED
      BY <3>1, <3>2
  <2>2. run' \in [Edges -> RunType]
    BY <2>1, <2>5, <2>6 DEF RowsAreTyped
  <2>3. handlers' \subseteq HandlerType /\ \A h \in handlers' : h.at = "move" => h.saw \in Columns
    BY <1>1, <1>5, BroadcastTyped DEF Ends, RowsAreTyped
  <2>4. held' \in [Cards -> BOOLEAN]
    BY <1>1, <1>5 DEF Ends, RowsAreTyped
  <2> QED
    BY <1>5, <2>2, <2>3, <2>4, HistoryTyped DEF Ends, RowsAreTyped
<1>6. ASSUME NEW to \in Columns, AgentMoves(r, to) PROVE RowsAreTyped'
  <2>1. /\ card' \in [Cards -> CardType] /\ handlers' \subseteq HandlerType
        /\ \A h \in handlers' : h.at = "move" => h.saw \in Columns
    BY <1>1, <1>6, MovedTyped DEF AgentMoves, RowsAreTyped
  <2>2. told' \in [Cards -> BOOLEAN]
    BY <1>6, HistoryTyped DEF AgentMoves
  <2>3. byHand' \in [Cards -> BOOLEAN]
    BY <1>6 DEF AgentMoves, DrawnWorking, RowsAreTyped
  <2> QED
    BY <1>6, <2>1, <2>2, <2>3 DEF AgentMoves, RowsAreTyped
<1> QED
  BY <1>2, <1>3, <1>4, <1>5, <1>6

\* The daemon is stopped and boots again.
LEMMA RestartTyped ==
  ASSUME RowsAreTyped, NEW cause \in {"quit", "crash"}, Restart(cause)
  PROVE  RowsAreTyped'
<1>1. run' \in [Edges -> RunType]
  <2>1. \A r \in Edges : run[r] \in RunType
    BY DEF RowsAreTyped
  <2>2. ASSUME NEW r \in Edges
        PROVE  /\ [run[r] EXCEPT !.status = "failed", !.cut = cause, !.holds = FALSE] \in RunType
               /\ [run[r] EXCEPT !.holds = FALSE] \in RunType
    <3>1. run[r] \in RunType
      BY <2>1
    <3>2. "failed" \in Statuses /\ cause \in {"no", "quit", "crash"}
      BY DEF Statuses, Ended
    <3> QED
      BY <3>1, <3>2 DEF RunType
  <2> QED
    BY <2>2 DEF Restart, Cut
<1>2. \A t \in Cards : SettledAtBoot(run', t) \in CardType
  <2> SUFFICES ASSUME NEW t \in Cards PROVE SettledAtBoot(run', t) \in CardType
    OBVIOUS
  <2>1. card[t] \in CardType
    BY EdgesAre
  <2>2. \A to \in Columns, stop \in {"no", "user", "crash"} : [card[t] EXCEPT !.column = to, !.stopped = stop] \in CardType
    BY <2>1 DEF CardType
  <2>3. card[t].stopped \in {"no", "user", "crash"}
    BY <2>1 DEF CardType
  <2>4. Intake \in Columns /\ "failed" \in Columns
    BY DEF Intake, Columns
  <2> QED
    BY <2>1, <2>2, <2>3, <2>4 DEF SettledAtBoot
<1>3. NoStart \in StartType
  BY BoardAssumption DEF NoStart, StartType, Points, Intake, Columns
<1>4. told' \in [Cards -> BOOLEAN] /\ held' \in [Cards -> BOOLEAN] /\ byHand' \in [Cards -> BOOLEAN]
  BY DEF Restart, RowsAreTyped, FinishedIn
<1> QED
  BY <1>1, <1>2, <1>3, <1>4 DEF Restart, RowsAreTyped

\* Every step leaves typed rows.
LEMMA RowsStayTyped == RowsAreTyped /\ [Next]_vars => RowsAreTyped'
<1> SUFFICES ASSUME RowsAreTyped, [Next]_vars PROVE RowsAreTyped'
  OBVIOUS
<1>1. CASE UNCHANGED vars
  BY <1>1 DEF vars, boardVars, startVars, RowsAreTyped
<1>2. CASE StartStep
  BY <1>2, StartStepsTyped, SendStepsTyped DEF StartStep
<1>3. CASE HandlerStep
  BY <1>3, SettleStepsTyped, ReleaseStepsTyped DEF HandlerStep
<1>4. CASE ReadQueue
  BY <1>4, QueueTyped
<1> QED
  BY <1>1, <1>2, <1>3, <1>4, ActsTyped, ChatsTyped, RestartTyped DEF Next

-----------------------------------------------------------------------------
(* The chain                                                                *)

Waits(t) == start[t].at \notin {"idle", "clear"}

\* Every start that has not sent its brief waits in the chain, once, and
\* only the first has gone on.
ChainIsSound ==
  /\ chain \in Seq(Cards)
  /\ \A i, j \in 1 .. Len(chain) : chain[i] = chain[j] => i = j
  /\ \A t \in Cards : Waits(t) <=> \E i \in 1 .. Len(chain) : chain[i] = t
  /\ \A t \in Cards : start[t].at \in {"idle", "read", "clear"} \/ First(t)

\* Only the start of card t changes, to the point "at".
StartsOnly(t, at) ==
  /\ start'[t].at = at
  /\ \A u \in Cards \ {t} : start'[u] = start[u]

\* Only one start is the first of the chain, and it waits there.
LEMMA FirstIsFirst ==
  ASSUME ChainIsSound, NEW t \in Cards, First(t)
  PROVE  /\ Len(chain) \in Nat /\ Len(chain) > 0 /\ chain[1] = t
         /\ Waits(t)
         /\ \A u \in Cards : First(u) => u = t
<1>1. Len(chain) \in Nat /\ Len(chain) > 0 /\ chain[1] = t
  BY DEF ChainIsSound, First
<1> QED
  BY <1>1 DEF ChainIsSound, First

\* The first start goes on...
LEMMA ChainGoesOn ==
  ASSUME ChainIsSound, NEW t \in Cards, First(t), chain' = chain,
         NEW at \in Points \ {"idle", "clear"}, StartsOnly(t, at)
  PROVE  ChainIsSound'
<1>1. \A u \in Cards : Waits(u)' <=> Waits(u)
  BY FirstIsFirst DEF StartsOnly, Waits
<1>2. \A u \in Cards : First(u)' <=> First(u)
  BY DEF First
<1>3. \A u \in Cards : start'[u].at \in {"idle", "read", "clear"} \/ First(u)'
  BY <1>2 DEF StartsOnly, ChainIsSound
<1>4. \A u \in Cards : Waits(u)' <=> \E i \in 1 .. Len(chain) : chain[i] = u
  BY <1>1 DEF ChainIsSound
<1> QED
  BY <1>3, <1>4 DEF ChainIsSound

\* ...or leaves the chain...
LEMMA ChainMovesUp ==
  ASSUME ChainIsSound, NEW t \in Cards, First(t), chain' = Tail(chain),
         NEW at \in {"idle", "clear"}, StartsOnly(t, at)
  PROVE  ChainIsSound'
<1>1. Len(chain) \in Nat /\ Len(chain) > 0 /\ chain[1] = t /\ chain \in Seq(Cards)
  BY FirstIsFirst DEF ChainIsSound
<1>2. /\ chain' \in Seq(Cards) /\ Len(chain') = Len(chain) - 1
      /\ \A i \in 1 .. Len(chain') : chain'[i] = chain[i + 1]
  BY <1>1
<1>3. \A i, j \in 1 .. Len(chain') : chain'[i] = chain'[j] => i = j
  BY <1>1, <1>2 DEF ChainIsSound
<1>4. ASSUME NEW u \in Cards
      PROVE  Waits(u)' <=> \E i \in 1 .. Len(chain') : chain'[i] = u
  <2>1. CASE u = t
    <3>1. \A i \in 1 .. Len(chain') : chain'[i] # t
      BY <1>1, <1>2 DEF ChainIsSound
    <3> QED
      BY <2>1, <3>1 DEF StartsOnly, Waits
  <2>2. CASE u # t
    <3>1. Waits(u)' <=> Waits(u)
      BY <2>2 DEF StartsOnly, Waits
    <3>2. Waits(u) <=> \E i \in 1 .. Len(chain) : chain[i] = u
      BY DEF ChainIsSound
    <3>3. ASSUME NEW i \in 1 .. Len(chain), chain[i] = u
          PROVE  \E j \in 1 .. Len(chain') : chain'[j] = u
      <4>1. i # 1
        BY <1>1, <2>2, <3>3
      <4>2. i - 1 \in 1 .. Len(chain') /\ chain'[i - 1] = u
        BY <1>1, <1>2, <3>3, <4>1
      <4> QED
        BY <4>2
    <3>4. ASSUME NEW j \in 1 .. Len(chain'), chain'[j] = u
          PROVE  \E i \in 1 .. Len(chain) : chain[i] = u
      <4>1. j + 1 \in 1 .. Len(chain) /\ chain[j + 1] = u
        BY <1>1, <1>2, <3>4
      <4> QED
        BY <4>1
    <3> QED
      BY <3>1, <3>2, <3>3, <3>4
  <2> QED
    BY <2>1, <2>2
<1>5. \A u \in Cards : start'[u].at \in {"idle", "read", "clear"}
  <2>1. \A u \in Cards \ {t} : start[u].at \in {"idle", "read", "clear"}
    BY FirstIsFirst DEF ChainIsSound
  <2> QED
    BY <2>1 DEF StartsOnly
<1> QED
  BY <1>2, <1>3, <1>4, <1>5 DEF ChainIsSound

\* ...a new one waits behind the others.
LEMMA ChainGrows ==
  ASSUME ChainIsSound, NEW t \in Cards, ~Starting(t), chain' = Append(chain, t), StartsOnly(t, "read")
  PROVE  ChainIsSound'
<1>1. chain \in Seq(Cards) /\ Len(chain) \in Nat
  BY DEF ChainIsSound
<1>2. /\ chain' \in Seq(Cards) /\ Len(chain') = Len(chain) + 1
      /\ \A i \in 1 .. Len(chain) : chain'[i] = chain[i]
      /\ chain'[Len(chain) + 1] = t
  BY <1>1
<1>3. \A i \in 1 .. Len(chain) : chain[i] # t
  BY DEF ChainIsSound, Waits, Starting
<1>4. \A i, j \in 1 .. Len(chain') : chain'[i] = chain'[j] => i = j
  <2>1. ASSUME NEW i \in 1 .. Len(chain'), NEW j \in 1 .. Len(chain'), chain'[i] = chain'[j] PROVE i = j
    <3>1. CASE i = Len(chain) + 1 /\ j = Len(chain) + 1
      BY <3>1
    <3>2. CASE i \in 1 .. Len(chain) /\ j \in 1 .. Len(chain)
      <4>1. chain[i] = chain[j]
        BY <1>2, <2>1, <3>2
      <4> QED
        BY <3>2, <4>1 DEF ChainIsSound
    <3>3. CASE (i = Len(chain) + 1 /\ j \in 1 .. Len(chain)) \/ (j = Len(chain) + 1 /\ i \in 1 .. Len(chain))
      BY <1>2, <1>3, <2>1, <3>3
    <3> QED
      BY <1>1, <1>2, <3>1, <3>2, <3>3
  <2> QED
    BY <2>1
<1>5. ASSUME NEW u \in Cards
      PROVE  Waits(u)' <=> \E i \in 1 .. Len(chain') : chain'[i] = u
  <2>1. CASE u = t
    <3>1. Waits(u)'
      BY <2>1 DEF StartsOnly, Waits
    <3>2. Len(chain) + 1 \in 1 .. Len(chain')
      BY <1>1, <1>2
    <3> QED
      BY <1>2, <2>1, <3>1, <3>2
  <2>2. CASE u # t
    <3>1. Waits(u)' <=> Waits(u)
      BY <2>2 DEF StartsOnly, Waits
    <3>2. Waits(u) <=> \E i \in 1 .. Len(chain) : chain[i] = u
      BY DEF ChainIsSound
    <3>3. (\E i \in 1 .. Len(chain) : chain[i] = u) => \E i \in 1 .. Len(chain') : chain'[i] = u
      BY <1>1, <1>2
    <3>4. ASSUME NEW i \in 1 .. Len(chain'), chain'[i] = u
          PROVE  \E j \in 1 .. Len(chain) : chain[j] = u
      <4>1. i # Len(chain) + 1
        BY <1>2, <2>2, <3>4
      <4>2. i \in 1 .. Len(chain)
        BY <1>1, <1>2, <4>1
      <4> QED
        BY <1>2, <3>4, <4>2
    <3> QED
      BY <3>1, <3>2, <3>3, <3>4
  <2> QED
    BY <2>1, <2>2
<1>6. \A u \in Cards : First(u) => First(u)'
  <2>1. ASSUME NEW u \in Cards, First(u) PROVE First(u)'
    <3>1. Len(chain) > 0 /\ chain[1] = u
      BY <2>1, FirstIsFirst
    <3>2. chain'[1] = u /\ Len(chain') > 0
      BY <1>1, <1>2, <3>1
    <3> QED
      BY <1>2, <3>2 DEF First
  <2> QED
    BY <2>1
<1>7. \A u \in Cards : start'[u].at \in {"idle", "read", "clear"} \/ First(u)'
  BY <1>6 DEF StartsOnly, ChainIsSound
<1> QED
  BY <1>2, <1>4, <1>5, <1>7 DEF ChainIsSound

\* A step of a start, of the first in the chain or of one that has left it.
LEMMA StartStepsGo ==
  ASSUME RowsAreTyped, NEW t \in Cards,
         \/ ReadCard(t) \/ JudgeRun(t) \/ CountRuns(t) \/ Reserve(t) \/ Choose(t)
         \/ Link(t) \/ Send(t) \/ Unlink(t) \/ GiveBack(t) \/ Discard(t) \/ ClearStamp(t)
  PROVE  /\ StartsOnly(t, start'[t].at)
         /\ \/ First(t) /\ chain' = chain /\ start'[t].at \in Points \ {"idle", "clear"}
            \/ First(t) /\ chain' = Tail(chain) /\ start'[t].at \in {"idle", "clear"}
            \/ start[t].at = "clear" /\ chain' = chain /\ start'[t].at = "idle"
<1> USE DEF boardVars
<1>1. start \in [Cards -> StartType] /\ start[t] \in StartType
  BY EdgesAre DEF RowsAreTyped
<1>2. NoStart.at = "idle"
  BY DEF NoStart
<1>3. ASSUME NEW others, Released(t, others) PROVE StartsOnly(t, "idle")
  BY <1>1, <1>2, <1>3 DEF Released, StartsOnly
<1>4. ASSUME NEW others, Refused(t, others)
      PROVE  StartsOnly(t, "idle") /\ chain' = Tail(chain) /\ start'[t].at = "idle"
  <2>1. StartsOnly(t, "idle")
    BY <1>3, <1>4 DEF Refused
  <2> QED
    BY <1>4, <2>1 DEF Refused, StartsOnly
<1>5. ASSUME NEW at, GoesTo(t, at) PROVE StartsOnly(t, at) /\ start'[t].at = at
  <2>1. [start[t] EXCEPT !.at = at].at = at
    BY <1>1 DEF StartType
  <2> QED
    BY <1>1, <1>5, <2>1 DEF GoesTo, StartsOnly
<1>6. CASE ReadCard(t)
  <2>1. StartsOnly(t, "judge") /\ start'[t].at = "judge"
    BY <1>1, <1>6 DEF ReadCard, StartsOnly, StartType
  <2> QED
    BY <1>6, <2>1 DEF ReadCard, At, Points
<1>7. CASE JudgeRun(t)
  BY <1>4, <1>5, <1>7 DEF JudgeRun, At, Points
<1>8. CASE CountRuns(t)
  BY <1>4, <1>5, <1>8 DEF CountRuns, At, Points
<1>9. CASE Reserve(t)
  BY <1>4, <1>5, <1>9 DEF Reserve, At, Points
<1>10. CASE Choose(t)
  <2>1. \/ \E thread : start' = [start EXCEPT ![t].at = "link", ![t].thread = thread, ![t].fresh = TRUE]
        \/ \E thread : start' = [start EXCEPT ![t].at = "link", ![t].thread = thread]
        \/ GoesTo(t, "giveback")
    BY <1>10 DEF Choose
  <2>2. chain' = chain /\ First(t)
    BY <1>10 DEF Choose, At
  <2>3. CASE GoesTo(t, "giveback")
    BY <1>5, <2>2, <2>3 DEF Points
  <2>4. ASSUME NEW s, start' = [start EXCEPT ![t] = s], s.at = "link"
        PROVE  StartsOnly(t, start'[t].at) /\ start'[t].at \in Points \ {"idle", "clear"}
    BY <1>1, <2>4 DEF StartsOnly, Points
  <2>5. ASSUME NEW thread,
               \/ start' = [start EXCEPT ![t].at = "link", ![t].thread = thread, ![t].fresh = TRUE]
               \/ start' = [start EXCEPT ![t].at = "link", ![t].thread = thread]
        PROVE  \E s : start' = [start EXCEPT ![t] = s] /\ s.at = "link"
    <3>1. /\ [start[t] EXCEPT !.at = "link", !.thread = thread, !.fresh = TRUE].at = "link"
          /\ [start[t] EXCEPT !.at = "link", !.thread = thread].at = "link"
      BY <1>1 DEF StartType
    <3> QED
      BY <2>5, <3>1
  <2> QED
    BY <2>1, <2>2, <2>3, <2>4, <2>5
<1>11. CASE Link(t)
  BY <1>5, <1>11 DEF Link, GoesWrong, At, Points
<1>12. CASE Send(t)
  BY <1>5, <1>12 DEF Send, GoesWrong, At, Points
<1>13. CASE Unlink(t)
  BY <1>5, <1>13 DEF Unlink, At, Points
<1>14. CASE GiveBack(t)
  BY <1>4, <1>5, <1>14 DEF GiveBack, At, Points
<1>15. CASE Discard(t)
  BY <1>4, <1>15 DEF Discard, At
<1>16. CASE ClearStamp(t)
  <2>1. StartsOnly(t, "idle")
    BY <1>3, <1>16 DEF ClearStamp
  <2> QED
    BY <1>16, <2>1 DEF ClearStamp, StartsOnly
<1> QED
  BY <1>6, <1>7, <1>8, <1>9, <1>10, <1>11, <1>12, <1>13, <1>14, <1>15, <1>16

\* A claim begins a start of its card.
LEMMA ClaimGoes ==
  ASSUME RowsAreTyped, NEW t \in Cards, NEW auto \in BOOLEAN, NEW from, Claim(t, auto, from)
  PROVE  /\ ~Starting(t) /\ chain' = Append(chain, t) /\ StartsOnly(t, "read")
         /\ start'[t].auto = auto /\ start'[t].fresh = FALSE
<1>1. start' = [start EXCEPT ![t] = [NoStart EXCEPT !.at = "read", !.auto = auto, !.from = from]]
  BY DEF Claim
<1>2. start'[t] = [NoStart EXCEPT !.at = "read", !.auto = auto, !.from = from]
  BY <1>1 DEF RowsAreTyped
<1>3. start'[t].at = "read" /\ start'[t].auto = auto /\ start'[t].fresh = FALSE
  BY <1>2 DEF NoStart
<1>4. \A u \in Cards \ {t} : start'[u] = start[u]
  BY <1>1 DEF RowsAreTyped
<1> QED
  BY <1>3, <1>4 DEF Claim, StartsOnly

\* Every step keeps the chain of starts.
LEMMA ChainStays == RowsAreTyped /\ ChainIsSound /\ [Next]_vars => ChainIsSound'
<1> SUFFICES ASSUME RowsAreTyped, ChainIsSound, [Next]_vars PROVE ChainIsSound'
  OBVIOUS
<1>1. UNCHANGED <<start, chain>> => ChainIsSound'
  BY DEF ChainIsSound, Waits, First
<1>2. CASE UNCHANGED vars
  BY <1>1, <1>2 DEF vars, startVars
<1>3. CASE StartStep
  <2>1. PICK t \in Cards :
          \/ ReadCard(t) \/ JudgeRun(t) \/ CountRuns(t) \/ Reserve(t) \/ Choose(t)
          \/ Link(t) \/ Send(t) \/ Unlink(t) \/ GiveBack(t) \/ Discard(t) \/ ClearStamp(t)
    BY <1>3 DEF StartStep
  <2>2. /\ StartsOnly(t, start'[t].at)
        /\ \/ First(t) /\ chain' = chain /\ start'[t].at \in Points \ {"idle", "clear"}
           \/ First(t) /\ chain' = Tail(chain) /\ start'[t].at \in {"idle", "clear"}
           \/ start[t].at = "clear" /\ chain' = chain /\ start'[t].at = "idle"
    BY <2>1, StartStepsGo
  <2>3. CASE First(t) /\ chain' = chain /\ start'[t].at \in Points \ {"idle", "clear"}
    BY <2>2, <2>3, ChainGoesOn
  <2>4. CASE First(t) /\ chain' = Tail(chain) /\ start'[t].at \in {"idle", "clear"}
    BY <2>2, <2>4, ChainMovesUp
  <2>5. CASE start[t].at = "clear" /\ chain' = chain /\ start'[t].at = "idle"
    <3>1. \A u \in Cards : Waits(u)' <=> Waits(u)
      BY <2>2, <2>5 DEF StartsOnly, Waits
    <3>2. \A u \in Cards : start'[u].at \in {"idle", "read", "clear"} \/ First(u)'
      BY <2>2, <2>5 DEF StartsOnly, ChainIsSound, First
    <3> QED
      BY <2>5, <3>1, <3>2 DEF ChainIsSound
  <2> QED
    BY <2>2, <2>3, <2>4, <2>5
<1>4. ASSUME NEW t \in Cards, NEW auto \in BOOLEAN, NEW from, Claim(t, auto, from) PROVE ChainIsSound'
  BY <1>4, ClaimGoes, ChainGrows
<1>5. CASE HandlerStep
  BY <1>1, <1>5 DEF HandlerStep, SettleReads, SettleStamps, SettleMoves, FollowReads, FollowMoves,
                    ReleaseReads, ReleaseUnlinks, Finishes, Rechecks, OwedReconcile, startVars
<1>6. CASE ReadQueue
  BY <1>1, <1>6 DEF ReadQueue
<1>7. ASSUME NEW t \in Cards, PostStart(t) PROVE ChainIsSound'
  BY <1>1, <1>4, <1>7 DEF PostStart
<1>8. ASSUME NEW t \in Cards, PressRun(t) PROVE ChainIsSound'
  BY <1>4, <1>8 DEF PressRun
<1>9. ASSUME NEW t \in Cards, LoadBoard(t) \/ \E to \in Columns : Drag(t, to) PROVE ChainIsSound'
  BY <1>1, <1>9 DEF LoadBoard, Drag, startVars
<1>10. ASSUME NEW r \in Runs,
              FollowUp(r) \/ DeleteChat(r) \/ WorkEnds(r) \/ (\E how \in Ended : Ends(r, how))
                \/ \E to \in Columns : AgentMoves(r, to)
       PROVE  ChainIsSound'
  BY <1>1, <1>10 DEF FollowUp, DeleteChat, WorkEnds, Ends, AgentMoves, startVars
<1>11. ASSUME NEW cause \in {"quit", "crash"}, Restart(cause) PROVE ChainIsSound'
  <2>1. chain' = <<>> /\ start' = [t \in Cards |-> NoStart]
    BY <1>11 DEF Restart
  <2>2. chain' \in Seq(Cards) /\ Len(chain') = 0
    BY <2>1
  <2>3. \A t \in Cards : start'[t].at = "idle"
    BY <2>1 DEF NoStart
  <2> QED
    BY <2>2, <2>3 DEF ChainIsSound, Waits
<1> QED
  BY <1>2, <1>3, <1>5, <1>6, <1>7, <1>8, <1>9, <1>10, <1>11 DEF Next

\* The two invariants are the type the runs check.
LEMMA TypedBoard == RowsAreTyped /\ ChainIsSound => BoardTypeOK
<1> SUFFICES ASSUME RowsAreTyped, ChainIsSound PROVE BoardTypeOK
  OBVIOUS
<1>1. ASSUME NEW t \in Cards
      PROVE  Cardinality({i \in DOMAIN chain : chain[i] = t}) = (IF start[t].at \in {"idle", "clear"} THEN 0 ELSE 1)
  <2> DEFINE places == {i \in DOMAIN chain : chain[i] = t}
  <2>1. DOMAIN chain = 1 .. Len(chain)
    BY DEF ChainIsSound
  <2>2. CASE Waits(t)
    <3>1. PICK i \in 1 .. Len(chain) : chain[i] = t
      BY <2>2 DEF ChainIsSound
    <3>2. places = {i}
      BY <2>1, <3>1 DEF ChainIsSound
    <3> QED
      BY <2>2, <3>2, FS_Singleton DEF Waits
  <2>3. CASE ~Waits(t)
    <3>1. places = {}
      BY <2>1, <2>3 DEF ChainIsSound
    <3> QED
      BY <2>3, <3>1, FS_EmptySet DEF Waits
  <2> QED
    BY <2>2, <2>3
<1>2. \A t \in Cards :
        Cardinality({i \in DOMAIN chain : chain[i] = t}) = (IF start[t].at \in {"idle", "clear"} THEN 0 ELSE 1)
  BY <1>1
<1> QED
  BY <1>2 DEF RowsAreTyped, BoardTypeOK, CardType, RunType, StartType

\* The chain is empty at first.
LEMMA ChainStarts == Init => ChainIsSound
<1> SUFFICES ASSUME Init PROVE ChainIsSound
  OBVIOUS
<1>1. \A t \in Cards : start[t].at = "idle"
  BY DEF Init, StartsInit, NoStart
<1>2. chain \in Seq(Cards) /\ Len(chain) = 0
  BY DEF Init, StartsInit
<1> QED
  BY <1>1, <1>2 DEF ChainIsSound, Waits

\* The rows, the handlers and the starts keep their types, and the project's
\* chain holds each card once, exactly while its start has not sent its brief
\* (TaskRunsService.claimStart and perProject): a start that is refused or
\* fails always makes room for the next one.
THEOREM BoardIsTyped == Spec => []BoardTypeOK
<1>1. Init => RowsAreTyped /\ ChainIsSound
  BY InitTyped, ChainStarts
<1>2. RowsAreTyped /\ ChainIsSound /\ [Next]_vars => (RowsAreTyped /\ ChainIsSound)'
  BY RowsStayTyped, ChainStays
<1> QED
  BY <1>1, <1>2, TypedBoard, PTL DEF Spec

-----------------------------------------------------------------------------
(* A step is about one card                                                 *)

\* No step touches another card than t, its runs, its start or its handlers.
Elsewhere(t) ==
  \A u \in Cards \ {t} :
    /\ start'[u] = start[u] /\ card'[u] = card[u] /\ held'[u] = held[u]
    /\ \A i \in 0 .. Threads : run'[<<u, i>>] = run[<<u, i>>]
    /\ \A h \in HandlerType : h.of[1] = u => (h \in handlers' <=> h \in handlers)

\* What a run sets off is about its own card.
LEMMA HandlersOf ==
  ASSUME NEW t \in Cards, NEW r \in Edges, r[1] = t, NEW how \in Ended \union {"none"},
         NEW kind \in {"ended", "working", "deleted", "reconcile", "owed", "finish", "recheck"}
  PROVE  /\ Handler(kind, r, how).of[1] = t
         /\ \A h \in Broadcast(kind, r, how) : h.of[1] = t
BY DEF Handler, Broadcast

\* Pairs of different cards are different.
LEMMA OtherRuns ==
  ASSUME RowsAreTyped, NEW t \in Cards, NEW r, r[1] = t, NEW u \in Cards \ {t}, NEW x
  PROVE  \A i \in 0 .. Threads : [run EXCEPT ![r] = x][<<u, i>>] = run[<<u, i>>]
BY DEF RowsAreTyped, Edges

\* A step of one card's start leaves the other cards alone.
LEMMA StartStepsElsewhere ==
  ASSUME RowsAreTyped, NEW t \in Cards,
         \/ ReadCard(t) \/ JudgeRun(t) \/ CountRuns(t) \/ Reserve(t) \/ Choose(t)
         \/ Link(t) \/ Send(t) \/ Unlink(t) \/ GiveBack(t) \/ Discard(t) \/ ClearStamp(t)
  PROVE  Elsewhere(t)
<1> USE DEF boardVars
<1> SUFFICES ASSUME NEW u \in Cards \ {t}
             PROVE  /\ start'[u] = start[u] /\ card'[u] = card[u] /\ held'[u] = held[u]
                    /\ \A i \in 0 .. Threads : run'[<<u, i>>] = run[<<u, i>>]
                    /\ \A h \in HandlerType : h.of[1] = u => (h \in handlers' <=> h \in handlers)
  BY DEF Elsewhere
<1>1. start'[u] = start[u]
  BY StartStepsGo DEF StartsOnly
<1>2. held' = held
  BY DEF ReadCard, JudgeRun, CountRuns, Reserve, Choose, Link, Send, Unlink, GiveBack, Discard, ClearStamp
<1>3. card'[u] = card[u]
  BY DEF RowsAreTyped, ReadCard, JudgeRun, CountRuns, Reserve, Choose, Link, Send, Unlink, GiveBack, Discard,
         ClearStamp, MovedTo
<1>4. /\ Thread(t) \in Edges /\ Thread(t)[1] = t
      /\ Edge(t) \in Edges /\ Edge(t)[1] = t
  BY EdgesAre DEF Thread, Edge
<1>5. \A i \in 0 .. Threads : run'[<<u, i>>] = run[<<u, i>>]
  <2>1. ASSUME NEW r, r[1] = t, NEW x, run' = [run EXCEPT ![r] = x]
        PROVE  \A i \in 0 .. Threads : run'[<<u, i>>] = run[<<u, i>>]
    BY <2>1, OtherRuns
  <2>2. CASE Choose(t)
    <3>1. run' = run \/ \E n : run' = [run EXCEPT ![<<t, n>>] = [NoRun EXCEPT !.status = "pending"]]
      BY <2>2 DEF Choose
    <3>2. \A n : <<t, n>>[1] = t
      OBVIOUS
    <3> QED
      BY <2>1, <3>1, <3>2
  <2>3. CASE Send(t) \/ Discard(t)
    <3>1. run' = run \/ \E x : run' = [run EXCEPT ![Thread(t)] = x]
      BY <2>3 DEF Send, Discard
    <3> QED
      BY <1>4, <2>1, <3>1
  <2>4. CASE ~Choose(t) /\ ~Send(t) /\ ~Discard(t)
    BY <2>4 DEF ReadCard, JudgeRun, CountRuns, Reserve, Link, Unlink, GiveBack, ClearStamp
  <2> QED
    BY <2>2, <2>3, <2>4
<1>6. ASSUME NEW others, Released(t, others), \A g \in others : g.of[1] = t
      PROVE  \A h \in HandlerType : h.of[1] = u => (h \in handlers' <=> h \in handlers)
  <2>1. Handler("owed", Edge(t), "none").of[1] = t
    BY <1>4, HandlersOf
  <2> QED
    BY <1>6, <2>1 DEF Released
<1>7. ASSUME Refused(t, {})
      PROVE  \A h \in HandlerType : h.of[1] = u => (h \in handlers' <=> h \in handlers)
  BY <1>6, <1>7 DEF Refused
<1>8. \A h \in HandlerType : h.of[1] = u => (h \in handlers' <=> h \in handlers)
  <2>1. CASE ReadCard(t) \/ JudgeRun(t) \/ CountRuns(t) \/ Reserve(t)
    BY <1>7, <2>1 DEF ReadCard, JudgeRun, CountRuns, Reserve
  <2>2. CASE Choose(t) \/ Link(t) \/ Unlink(t)
    BY <2>2 DEF Choose, Link, Unlink
  <2>3. CASE Send(t)
    <3>1. \A g \in Broadcast("working", Thread(t), "none") : g.of[1] = t
      BY <1>4, HandlersOf
    <3> QED
      BY <2>3, <3>1 DEF Send
  <2>4. CASE GiveBack(t)
    <3> DEFINE finish == IF card[t].column = "in_progress" THEN FinishCheck(t, start[t].from) ELSE {}
    <3>1. \A g \in finish : g.of[1] = t
      BY <1>4, HandlersOf DEF FinishCheck
    <3>2. handlers' = handlers \union finish \/ Released(t, finish)
      BY <2>4 DEF GiveBack, Refused
    <3> HIDE DEF finish
    <3> QED
      BY <1>6, <3>1, <3>2
  <2>5. CASE Discard(t)
    <3>1. Handler("deleted", Thread(t), "none").of[1] = t
      BY <1>4, HandlersOf
    <3>2. Released(t, {Handler("deleted", Thread(t), "none")})
      BY <2>5 DEF Discard, Refused
    <3> QED
      BY <1>6, <3>1, <3>2
  <2>6. CASE ClearStamp(t)
    BY <1>6, <2>6 DEF ClearStamp
  <2> QED
    BY <2>1, <2>2, <2>3, <2>4, <2>5, <2>6
<1> QED
  BY <1>1, <1>2, <1>3, <1>5, <1>8

\* A handler leaves the other cards alone, and every start.
LEMMA HandlerStepsElsewhere ==
  ASSUME RowsAreTyped, NEW h \in handlers,
         \/ SettleReads(h) \/ SettleStamps(h) \/ SettleMoves(h) \/ FollowReads(h) \/ FollowMoves(h)
         \/ ReleaseReads(h) \/ ReleaseUnlinks(h) \/ Finishes(h) \/ Rechecks(h) \/ OwedReconcile(h)
  PROVE  Elsewhere(h.of[1]) /\ UNCHANGED <<start, held, run>>
<1> USE DEF startVars
<1> DEFINE t == h.of[1]
<1>1. UNCHANGED <<start, held, run>>
  BY DEF SettleReads, SettleStamps, SettleMoves, FollowReads, FollowMoves,
         ReleaseReads, ReleaseUnlinks, Finishes, Rechecks, OwedReconcile
<1>2. t \in Cards /\ h \in HandlerType /\ h.of \in Edges
  BY HandlerIsOf
<1>3. \A u \in Cards \ {t} : card'[u] = card[u]
  BY <1>2 DEF RowsAreTyped, SettleReads, SettleStamps, SettleMoves, FollowReads, FollowMoves,
         ReleaseReads, ReleaseUnlinks, Finishes, Rechecks, OwedReconcile, MovedTo
<1> DEFINE Locally == \A g \in HandlerType : g.of[1] # t => (g \in handlers' <=> g \in handlers)
<1>4. Dropped(h) => Locally
  BY DEF Dropped
<1>5. ASSUME NEW next, GoesOnTo(h, next), next.of = h.of PROVE Locally
  BY <1>5 DEF GoesOnTo
<1>6. ASSUME NEW at, NEW saw, GoesOn(h, at, saw) PROVE Locally
  <2>1. [h EXCEPT !.at = at, !.saw = saw].of = h.of
    BY <1>2 DEF HandlerType
  <2> QED
    BY <1>5, <1>6, <2>1 DEF GoesOn
<1>7. Locally
  <2>1. CASE SettleStamps(h)
    <3>1. Handler("finish", h.of, "none").of = h.of
      BY DEF Handler
    <3> HIDE DEF Locally
    <3> QED
      BY <1>4, <1>5, <1>6, <2>1, <3>1 DEF SettleStamps
  <2>2. CASE OwedReconcile(h)
    <3>1. Edge(t) \in Edges /\ Edge(t)[1] = t
      BY <1>2, EdgesAre DEF Edge
    <3>2. Handler("reconcile", Edge(t), run[Edge(t)].status).of[1] = t
      BY <3>1 DEF Handler
    <3> QED
      BY <2>2, <3>2 DEF OwedReconcile
  <2>3. CASE ~SettleStamps(h) /\ ~OwedReconcile(h)
    <3> HIDE DEF Locally
    <3> QED
      BY <1>4, <1>6, <2>3 DEF SettleReads, SettleMoves, FollowReads, FollowMoves,
         ReleaseReads, ReleaseUnlinks, Finishes, Rechecks
  <2> QED
    BY <2>1, <2>2, <2>3
<1> QED
  BY <1>1, <1>3, <1>7 DEF Elsewhere

\* What a person does to one card leaves the others alone.
LEMMA ActsElsewhere ==
  ASSUME RowsAreTyped, NEW t \in Cards,
         PostStart(t) \/ PressRun(t) \/ LoadBoard(t) \/ \E to \in Columns : Drag(t, to)
  PROVE  Elsewhere(t) /\ UNCHANGED run
<1> USE DEF boardVars, startVars
<1>1. UNCHANGED run
  BY DEF PostStart, PressRun, LoadBoard, Drag
<1>2. \A u \in Cards \ {t} : start'[u] = start[u]
  BY DEF RowsAreTyped, PostStart, PressRun, LoadBoard, Drag, Claim
<1>3. \A u \in Cards \ {t} : card'[u] = card[u] /\ held'[u] = held[u]
  BY DEF RowsAreTyped, PostStart, PressRun, LoadBoard, Drag, MovedTo, Seen
<1>4. Edge(t) \in Edges /\ Edge(t)[1] = t
  BY EdgesAre DEF Edge
<1>5. \A u \in Cards \ {t} : \A h \in HandlerType : h.of[1] = u => (h \in handlers' <=> h \in handlers)
  <2>1. CASE LoadBoard(t)
    <3>1. Handler("reconcile", Edge(t), run[Edge(t)].status).of[1] = t
      BY <1>4 DEF Handler
    <3> QED
      BY <2>1, <3>1 DEF LoadBoard
  <2>2. ASSUME NEW to \in Columns, Drag(t, to)
        PROVE  \A u \in Cards \ {t} : \A h \in HandlerType : h.of[1] = u => (h \in handlers' <=> h \in handlers)
    <3>1. \A g \in FinishCheck(t, to) : g.of[1] = t
      BY <1>4, HandlersOf DEF FinishCheck
    <3> QED
      BY <2>2, <3>1 DEF Drag
  <2>3. CASE PostStart(t) \/ PressRun(t)
    BY <2>3 DEF PostStart, PressRun
  <2> QED
    BY <2>1, <2>2, <2>3
<1> QED
  BY <1>1, <1>2, <1>3, <1>5 DEF Elsewhere

\* What a chat does leaves the cards of other runs alone.
LEMMA ChatsElsewhere ==
  ASSUME RowsAreTyped, NEW r \in Runs,
         FollowUp(r) \/ DeleteChat(r) \/ WorkEnds(r) \/ (\E how \in Ended : Ends(r, how))
           \/ \E to \in Columns : AgentMoves(r, to)
  PROVE  Elsewhere(r[1]) /\ UNCHANGED start
<1> USE DEF boardVars, startVars
<1> DEFINE t == r[1]
<1>1. t \in Cards /\ r \in Edges
  BY RunsAreEdges DEF Runs
<1>2. UNCHANGED start
  BY DEF FollowUp, DeleteChat, WorkEnds, Ends, AgentMoves
<1>3. \A u \in Cards \ {t} : card'[u] = card[u] /\ held'[u] = held[u]
  BY DEF RowsAreTyped, FollowUp, DeleteChat, WorkEnds, Ends, AgentMoves, MovedTo, Seen
<1>4. \A u \in Cards \ {t} : \A i \in 0 .. Threads : run'[<<u, i>>] = run[<<u, i>>]
  <2>1. run' = run \/ \E x : run' = [run EXCEPT ![r] = x]
    BY DEF FollowUp, DeleteChat, WorkEnds, Ends, AgentMoves
  <2>2. ASSUME NEW x, run' = [run EXCEPT ![r] = x]
        PROVE  \A u \in Cards \ {t} : \A i \in 0 .. Threads : run'[<<u, i>>] = run[<<u, i>>]
    BY <1>1, <2>2, OtherRuns
  <2> QED
    BY <2>1, <2>2
<1>5. Edge(t) \in Edges /\ Edge(t)[1] = t
  BY <1>1, EdgesAre DEF Edge
<1>6. \A u \in Cards \ {t} : \A h \in HandlerType : h.of[1] = u => (h \in handlers' <=> h \in handlers)
  <2>1. CASE FollowUp(r) \/ \E how \in Ended : Ends(r, how)
    <3>1. \A how \in Ended \union {"none"} : \A kind \in {"working", "ended"} :
            \A g \in Broadcast(kind, r, how) : g.of[1] = t
      BY <1>1, HandlersOf
    <3> QED
      BY <2>1, <3>1 DEF FollowUp, Ends
  <2>2. CASE DeleteChat(r) \/ WorkEnds(r)
    <3>1. Handler("deleted", r, "none").of[1] = t /\ Handler("recheck", r, "none").of[1] = t
      BY DEF Handler
    <3> QED
      BY <2>2, <3>1 DEF DeleteChat, WorkEnds
  <2>3. ASSUME NEW to \in Columns, AgentMoves(r, to)
        PROVE  \A u \in Cards \ {t} : \A h \in HandlerType : h.of[1] = u => (h \in handlers' <=> h \in handlers)
    <3>1. \A g \in FinishCheck(t, to) : g.of[1] = t
      BY <1>1, <1>5, HandlersOf DEF FinishCheck
    <3> QED
      BY <2>3, <3>1 DEF AgentMoves
  <2> QED
    BY <2>1, <2>2, <2>3
<1> QED
  BY <1>2, <1>3, <1>4, <1>6 DEF Elsewhere

-----------------------------------------------------------------------------
(* One agent per card                                                       *)

\* Nobody acts on a card while its start is in flight, or while the end or
\* the deletion of its run is still being heard.
Calm == \A w \in Weathers : "overtake" \notin w.may

Works(r) == run[r].status = "running"
Purged(r) == run[r].status \in {"deleted", "discarded"}

\* The points at which a start has found no run of its card at work.
Judged == {"count", "reserve", "choose", "link", "send", "unlink", "giveback", "discard"}

\* What holds of one card.  A run that works is the one the card names: so
\* the one agent a start can meet is the one it judges, and the run it writes
\* on the card is the only one of the card that works afterwards.  While a
\* deletion is heard the card is not started, and the run it lets go of is
\* the deleted one.
CardIsSound(t) ==
  /\ run[<<t, 0>>].status = "none"
  /\ \A i \in 1 .. Threads : Works(<<t, i>>) => card[t].run = i
  /\ start[t].at \in Judged => \A i \in 1 .. Threads : ~Works(<<t, i>>)
  /\ start[t].at \in {"judge", "count", "reserve", "choose"} => card[t].run = start[t].found
  /\ start[t].at = "send" => card[t].run = start[t].thread
  /\ start[t].at \in {"link", "send"} => start[t].thread # 0
  /\ start[t].fresh => start[t].thread # 0
  /\ start[t].at = "discard" => start[t].fresh
  /\ \A h \in handlers : h.of[1] = t /\ h.kind = "deleted" =>
       /\ ~Starting(t) /\ Purged(h.of)
       /\ h.at = "unlink" => card[t].run \in {h.of[2], 0}

CardsAreSound == \A t \in Cards : CardIsSound(t)

\* A step that starts nothing, names no other run, sets no run going and
\* leaves what was purged purged.
Quiet(t) ==
  /\ start'[t] = start[t] /\ card'[t].run = card[t].run
  /\ run'[<<t, 0>>] = run[<<t, 0>>]
  /\ \A i \in 1 .. Threads : (Works(<<t, i>>)' => Works(<<t, i>>)) /\ (Purged(<<t, i>>) => Purged(<<t, i>>)')
  /\ \A h \in handlers' : h.of[1] = t /\ h.kind = "deleted" => h \in handlers

\* A run that was never made neither works nor was purged.
LEMMA NothingIsPurgedAtNone == ASSUME NEW t, run[<<t, 0>>].status = "none" PROVE ~Purged(<<t, 0>>) /\ ~Works(<<t, 0>>)
BY DEF NoRun, Purged, Works

\* A card whose runs and start did not change stays sound.
LEMMA QuietIsSound ==
  ASSUME RowsAreTyped, RowsAreTyped', NEW t \in Cards, CardIsSound(t), Quiet(t)
  PROVE  CardIsSound(t)'
<1>1. \A h \in handlers' : h.of[1] = t /\ h.kind = "deleted" =>
        /\ ~Starting(t)' /\ Purged(h.of)'
        /\ h.at = "unlink" => card'[t].run \in {h.of[2], 0}
  <2> SUFFICES ASSUME NEW h \in handlers', h.of[1] = t, h.kind = "deleted"
               PROVE  /\ ~Starting(t)' /\ Purged(h.of)'
                      /\ h.at = "unlink" => card'[t].run \in {h.of[2], 0}
    OBVIOUS
  <2>1. h \in handlers /\ h.of = <<t, h.of[2]>> /\ h.of[2] \in 0 .. Threads
    BY HandlerIsOf DEF Quiet, Edges
  <2>2. /\ ~Starting(t) /\ Purged(h.of)
        /\ h.at = "unlink" => card[t].run \in {h.of[2], 0}
    BY <2>1 DEF CardIsSound
  <2>3. h.of[2] # 0
    BY <2>1, <2>2, NothingIsPurgedAtNone DEF CardIsSound
  <2>4. h.of[2] \in 1 .. Threads
    BY <2>1, <2>3, BoardAssumption
  <2>5. Purged(h.of)'
    BY <2>1, <2>2, <2>4 DEF Quiet
  <2> QED
    BY <2>2, <2>5 DEF Quiet, Starting
<1>2. \A i \in 1 .. Threads : Works(<<t, i>>)' => Works(<<t, i>>)
  BY DEF Quiet
<1>3. start'[t] = start[t] /\ card'[t].run = card[t].run /\ run'[<<t, 0>>] = run[<<t, 0>>]
  BY DEF Quiet
<1> QED
  BY <1>1, <1>2, <1>3 DEF CardIsSound

\* The cards a step leaves alone stay sound.
LEMMA OtherCardsAreSound ==
  ASSUME RowsAreTyped, RowsAreTyped', CardsAreSound, NEW t \in Cards, Elsewhere(t)
  PROVE  \A u \in Cards \ {t} : CardIsSound(u)'
<1> SUFFICES ASSUME NEW u \in Cards \ {t} PROVE CardIsSound(u)'
  OBVIOUS
<1>1. Quiet(u)
  <2>1. \A h \in handlers' : h.of[1] = u => h \in handlers
    BY DEF Elsewhere, RowsAreTyped
  <2>2. \A i \in 0 .. Threads : run'[<<u, i>>] = run[<<u, i>>]
    BY DEF Elsewhere
  <2>3. run'[<<u, 0>>] = run[<<u, 0>>] /\ \A i \in 1 .. Threads : run'[<<u, i>>] = run[<<u, i>>]
    BY <2>2, BoardAssumption
  <2>4. start'[u] = start[u] /\ card'[u].run = card[u].run
    BY DEF Elsewhere
  <2> QED
    BY <2>1, <2>3, <2>4 DEF Quiet, Works, Purged
<1> QED
  BY <1>1, QuietIsSound DEF CardsAreSound

\* A start in flight hears no deletion; only its discard sends one.
LEMMA StartHearsNoDeletion ==
  ASSUME RowsAreTyped, NEW t \in Cards, CardIsSound(t), Starting(t),
         \/ ReadCard(t) \/ JudgeRun(t) \/ CountRuns(t) \/ Reserve(t) \/ Choose(t)
         \/ Link(t) \/ Send(t) \/ Unlink(t) \/ GiveBack(t) \/ ClearStamp(t)
  PROVE  \A h \in handlers' : h.of[1] = t => h.kind # "deleted"
<1> USE DEF boardVars
<1>1. \A h \in handlers : h.of[1] = t => h.kind # "deleted"
  BY DEF CardIsSound
<1>2. ASSUME NEW others, Released(t, others), \A h \in others : h.kind # "deleted"
      PROVE  \A h \in handlers' : h.of[1] = t => h.kind # "deleted"
  <2>1. Handler("owed", Edge(t), "none").kind = "owed"
    BY DEF Handler
  <2> QED
    BY <1>1, <1>2, <2>1 DEF Released
<1>3. Refused(t, {}) => \A h \in handlers' : h.of[1] = t => h.kind # "deleted"
  BY <1>2 DEF Refused
<1>4. CASE ReadCard(t) \/ JudgeRun(t) \/ CountRuns(t) \/ Reserve(t)
  BY <1>1, <1>3, <1>4 DEF ReadCard, JudgeRun, CountRuns, Reserve
<1>5. CASE Choose(t) \/ Link(t) \/ Unlink(t)
  BY <1>1, <1>5 DEF Choose, Link, Unlink
<1>6. CASE Send(t)
  <2>1. \A h \in Broadcast("working", Thread(t), "none") : h.kind # "deleted"
    BY DEF Broadcast, Handler
  <2> QED
    BY <1>1, <1>6, <2>1 DEF Send
<1>7. CASE GiveBack(t)
  <2> DEFINE finish == IF card[t].column = "in_progress" THEN FinishCheck(t, start[t].from) ELSE {}
  <2>1. \A h \in finish : h.kind # "deleted"
    BY DEF FinishCheck, Handler
  <2>2. handlers' = handlers \union finish \/ Released(t, finish)
    BY <1>7 DEF GiveBack, Refused
  <2> HIDE DEF finish
  <2> QED
    BY <1>1, <1>2, <2>1, <2>2
<1>8. CASE ClearStamp(t)
  BY <1>2, <1>8 DEF ClearStamp
<1> QED
  BY <1>4, <1>5, <1>6, <1>7, <1>8

\* A refusal leaves no start behind.
LEMMA RefusedStart ==
  ASSUME RowsAreTyped, NEW t \in Cards, NEW others, Released(t, others)
  PROVE  start'[t] = NoStart /\ start'[t].at = "idle" /\ start'[t].fresh = FALSE
BY DEF RowsAreTyped, Released, NoStart

\* A start that goes on carries what it has read with it.
LEMMA GoneOn ==
  ASSUME RowsAreTyped, NEW t \in Cards, NEW at, GoesTo(t, at)
  PROVE  /\ start'[t].at = at /\ start'[t].found = start[t].found /\ start'[t].thread = start[t].thread
         /\ start'[t].fresh = start[t].fresh /\ start'[t].auto = start[t].auto
         /\ start'[t].stopped = start[t].stopped
<1>1. start'[t] = [start[t] EXCEPT !.at = at]
  BY DEF RowsAreTyped, GoesTo
<1>2. start[t] \in StartType
  BY EdgesAre
<1> QED
  BY <1>1, <1>2 DEF StartType

\* Every step of a start keeps its card sound.
LEMMA StartStepsSound ==
  ASSUME RowsAreTyped, RowsAreTyped', NEW t \in Cards, CardIsSound(t),
         \/ ReadCard(t) \/ JudgeRun(t) \/ CountRuns(t) \/ Reserve(t) \/ Choose(t)
         \/ Link(t) \/ Send(t) \/ Unlink(t) \/ GiveBack(t) \/ Discard(t) \/ ClearStamp(t)
  PROVE  CardIsSound(t)'
<1> USE DEF boardVars
<1>1. Starting(t)
  BY DEF Starting, At, ReadCard, JudgeRun, CountRuns, Reserve, Choose, Link, Send, Unlink, GiveBack, Discard, ClearStamp
<1>2. ~Discard(t) => \A h \in handlers' : h.of[1] = t => h.kind # "deleted"
  BY <1>1, StartHearsNoDeletion
<1>3. /\ run[<<t, 0>>].status = "none"
      /\ \A i \in 1 .. Threads : Works(<<t, i>>) => card[t].run = i
      /\ start[t].at \in Judged => \A i \in 1 .. Threads : ~Works(<<t, i>>)
      /\ start[t].at \in {"judge", "count", "reserve", "choose"} => card[t].run = start[t].found
      /\ start[t].at = "send" => card[t].run = start[t].thread
      /\ start[t].at \in {"link", "send"} => start[t].thread # 0
      /\ start[t].fresh => start[t].thread # 0
      /\ start[t].at = "discard" => start[t].fresh
  BY DEF CardIsSound
<1>4. start[t] \in StartType /\ start[t].thread \in 0 .. Threads /\ start[t].found \in 0 .. Threads
  BY EdgesAre DEF StartType
<1>5. ASSUME NEW others, Released(t, others), ~Discard(t), card'[t].run = card[t].run, run' = run
      PROVE  CardIsSound(t)'
  <2>1. start'[t].at = "idle" /\ start'[t].fresh = FALSE
    BY <1>5, RefusedStart
  <2>2. \A i \in 1 .. Threads : Works(<<t, i>>)' => card'[t].run = i
    BY <1>3, <1>5 DEF Works
  <2> QED
    BY <1>2, <1>3, <1>5, <2>1, <2>2 DEF CardIsSound, Judged
<1>6. ASSUME Refused(t, {}), UNCHANGED <<card, run>>, ~Discard(t) PROVE CardIsSound(t)'
  BY <1>5, <1>6 DEF Refused
<1>7. ASSUME ~Discard(t), run' = run, \A i \in 1 .. Threads : ~Works(<<t, i>>),
             NEW at \in Judged \ {"discard"}, GoesTo(t, at),
             at \in {"judge", "count", "reserve", "choose"} => card'[t].run = start[t].found,
             at = "send" => card'[t].run = start[t].thread,
             at \in {"link", "send"} => start[t].thread # 0
      PROVE  CardIsSound(t)'
  <2>1. /\ start'[t].at = at /\ start'[t].found = start[t].found /\ start'[t].thread = start[t].thread
        /\ start'[t].fresh = start[t].fresh
    BY <1>7, GoneOn
  <2>2. \A i \in 1 .. Threads : ~Works(<<t, i>>)'
    BY <1>7 DEF Works
  <2> QED
    BY <1>2, <1>3, <1>7, <2>1, <2>2 DEF CardIsSound
<1>8. CASE ReadCard(t)
  <2>1. start'[t] = [start[t] EXCEPT !.at = "judge", !.found = card[t].run, !.stopped = card[t].stopped]
    BY <1>8 DEF ReadCard, RowsAreTyped
  <2>2. start'[t].at = "judge" /\ start'[t].found = card[t].run /\ start'[t].fresh = start[t].fresh
        /\ start'[t].thread = start[t].thread
    BY <1>4, <2>1 DEF StartType
  <2>3. run' = run /\ card' = card /\ ~Discard(t)
    BY <1>8 DEF ReadCard, At, Discard
  <2> QED
    BY <1>2, <1>3, <2>2, <2>3 DEF CardIsSound, Judged, Works
<1>9. CASE JudgeRun(t)
  <2>1. start[t].at = "judge" /\ ~Discard(t)
    BY <1>9 DEF JudgeRun, At, Discard
  <2>2. CASE Refused(t, {}) /\ UNCHANGED <<weather, card, run, told, held, byHand>>
    BY <1>6, <2>1, <2>2
  <2>3. CASE ~Live(<<t, start[t].found>>) /\ (GoesTo(t, "count") \/ GoesTo(t, "reserve"))
               /\ UNCHANGED <<boardVars, chain, offer>>
    <3>1. \A i \in 1 .. Threads : ~Works(<<t, i>>)
      BY <1>3, <2>1, <2>3 DEF Works, Live
    <3> QED
      BY <1>3, <1>7, <2>1, <2>3, <3>1 DEF Judged
  <2> QED
    BY <1>9, <2>2, <2>3 DEF JudgeRun
<1>10. CASE CountRuns(t)
  <2>1. start[t].at = "count" /\ ~Discard(t)
    BY <1>10 DEF CountRuns, At, Discard
  <2>2. CASE Refused(t, {}) /\ UNCHANGED <<weather, card, run, told, held, byHand>>
    BY <1>6, <2>1, <2>2
  <2>3. CASE GoesTo(t, "reserve") /\ UNCHANGED <<boardVars, chain, offer>>
    BY <1>3, <1>7, <2>1, <2>3 DEF Judged
  <2> QED
    BY <1>10, <2>2, <2>3 DEF CountRuns
<1>11. CASE Reserve(t)
  <2>1. start[t].at = "reserve" /\ ~Discard(t)
    BY <1>11 DEF Reserve, At, Discard
  <2>2. CASE Refused(t, {}) /\ UNCHANGED <<weather, card, run, told, held, byHand>>
    BY <1>6, <2>1, <2>2
  <2>3. CASE card' = MovedTo(t, "in_progress") /\ GoesTo(t, "choose") /\ run' = run
    <3>1. card'[t].run = card[t].run
      BY <2>3, MovedTyped DEF Columns
    <3> QED
      BY <1>3, <1>7, <2>1, <2>3, <3>1 DEF Judged
  <2> QED
    BY <1>11, <2>2, <2>3 DEF Reserve
<1>12. CASE Choose(t)
  <2> DEFINE made == {i \in 1 .. Threads : run[<<t, i>>].status = "none"}
             next == CHOOSE i \in made : \A j \in made : i <= j
  <2>1. start[t].at = "choose" /\ ~Discard(t) /\ \A i \in 1 .. Threads : ~Works(<<t, i>>)
    BY <1>3, <1>12 DEF Choose, At, Discard, Judged
  <2>2. CASE /\ run[<<t, start[t].found>>].status \in Ended
             /\ start' = [start EXCEPT ![t].at = "link", ![t].thread = start[t].found]
             /\ UNCHANGED <<boardVars, chain, offer>>
    <3>1. start'[t] = [start[t] EXCEPT !.at = "link", !.thread = start[t].found]
      BY <2>2 DEF RowsAreTyped
    <3>2. start'[t].at = "link" /\ start'[t].thread = start[t].found
      BY <1>4, <3>1 DEF StartType
    <3>3. start[t].found # 0
      BY <1>3, <2>2 DEF NoRun, Ended
    <3>4. \A i \in 1 .. Threads : ~Works(<<t, i>>)'
      BY <2>1, <2>2 DEF Works
    <3> QED
      BY <1>2, <1>3, <2>1, <2>2, <3>2, <3>3, <3>4 DEF CardIsSound
  <2>3. CASE /\ made # {}
             /\ run' = [run EXCEPT ![<<t, next>>] = [NoRun EXCEPT !.status = "pending"]]
             /\ start' = [start EXCEPT ![t].at = "link", ![t].thread = next, ![t].fresh = TRUE]
             /\ card' = card
    <3>1. next \in made
      BY <2>3, LeastRun
    <3>2. next \in 1 .. Threads
      BY <3>1
    <3> HIDE DEF next, made
    <3>3. start'[t] = [start[t] EXCEPT !.at = "link", !.thread = next, !.fresh = TRUE]
      BY <2>3 DEF RowsAreTyped
    <3>4. start'[t].at = "link" /\ start'[t].thread = next
      BY <1>4, <3>3 DEF StartType
    <3>5. next # 0
      BY <3>2
    <3>6. run'[<<t, 0>>].status = "none"
      BY <1>3, <2>3, <3>5, BoardAssumption DEF RowsAreTyped, Edges
    <3>7. \A i \in 1 .. Threads : ~Works(<<t, i>>)'
      <4>1. [NoRun EXCEPT !.status = "pending"].status = "pending"
        BY DEF NoRun
      <4> QED
        BY <2>1, <2>3, <4>1 DEF RowsAreTyped, Edges, Works
    <3> QED
      BY <1>2, <2>1, <3>4, <3>5, <3>6, <3>7 DEF CardIsSound
  <2>4. CASE GoesTo(t, "giveback") /\ UNCHANGED <<boardVars, chain, offer>>
    BY <1>7, <2>1, <2>4 DEF Judged
  <2> QED
    BY <1>12, <2>2, <2>3, <2>4 DEF Choose
<1>13. CASE Link(t)
  <2>1. start[t].at = "link" /\ ~Discard(t) /\ (\A i \in 1 .. Threads : ~Works(<<t, i>>)) /\ run' = run
    BY <1>3, <1>13 DEF Link, At, Discard, Judged
  <2>2. CASE card' = [card EXCEPT ![t].run = start[t].thread] /\ GoesTo(t, "send")
    <3>1. card'[t].run = start[t].thread
      BY <2>2 DEF RowsAreTyped, CardType
    <3> QED
      BY <1>3, <1>7, <2>1, <2>2, <3>1 DEF Judged
  <2>3. CASE GoesWrong(t) /\ card' = card
    BY <1>7, <2>1, <2>3 DEF Judged, GoesWrong
  <2> QED
    BY <1>13, <2>2, <2>3 DEF Link
<1>14. CASE Send(t)
  <2>1. start[t].at = "send" /\ ~Discard(t) /\ (\A i \in 1 .. Threads : ~Works(<<t, i>>)) /\ card' = card
    BY <1>3, <1>14 DEF Send, At, Discard, Judged
  <2>2. CASE /\ run' = [run EXCEPT ![Thread(t)] = [@ EXCEPT !.status = "running", !.cut = "no", !.auto = start[t].auto]]
             /\ GoesTo(t, "clear")
    <3>1. start'[t].at = "clear" /\ start'[t].fresh = start[t].fresh /\ start'[t].thread = start[t].thread
      BY <2>2, GoneOn
    <3>2. run'[<<t, 0>>].status = "none"
      BY <1>3, <2>1, <2>2, BoardAssumption DEF RowsAreTyped, Edges, Thread
    <3>3. \A i \in 1 .. Threads : Works(<<t, i>>)' => card'[t].run = i
      <4>1. \A i \in 1 .. Threads : i # start[t].thread => run'[<<t, i>>] = run[<<t, i>>]
        BY <2>2 DEF RowsAreTyped, Edges, Thread
      <4> QED
        BY <1>3, <2>1, <4>1 DEF Works
    <3> QED
      BY <1>2, <1>3, <2>1, <3>1, <3>2, <3>3 DEF CardIsSound, Judged
  <2>3. CASE GoesWrong(t) /\ UNCHANGED <<boardVars, chain, offer>>
    BY <1>7, <2>1, <2>3 DEF Judged, GoesWrong
  <2> QED
    BY <1>14, <2>2, <2>3 DEF Send
<1>15. CASE Unlink(t)
  <2>1. (\A i \in 1 .. Threads : ~Works(<<t, i>>)) /\ run' = run /\ GoesTo(t, "giveback") /\ ~Discard(t)
    BY <1>3, <1>15 DEF Unlink, At, Judged, Discard
  <2> QED
    BY <1>7, <2>1 DEF Judged
<1>16. CASE GiveBack(t)
  <2> DEFINE finish == IF card[t].column = "in_progress" THEN FinishCheck(t, start[t].from) ELSE {}
  <2>1. start[t].at = "giveback" /\ ~Discard(t) /\ (\A i \in 1 .. Threads : ~Works(<<t, i>>)) /\ run' = run
    BY <1>3, <1>16 DEF GiveBack, At, Discard, Judged
  <2>2. card'[t].run = card[t].run
    BY <1>4, <1>16, MovedTyped DEF GiveBack, StartType
  <2>3. CASE start[t].fresh /\ GoesTo(t, "discard")
    <3>1. start'[t].at = "discard" /\ start'[t].fresh = start[t].fresh /\ start'[t].thread = start[t].thread
      BY <2>3, GoneOn
    <3>2. \A i \in 1 .. Threads : ~Works(<<t, i>>)'
      BY <2>1 DEF Works
    <3> QED
      BY <1>2, <1>3, <2>1, <2>3, <3>1, <3>2 DEF CardIsSound
  <2>4. CASE Released(t, finish)
    BY <1>5, <2>1, <2>2, <2>4
  <2> QED
    BY <1>16, <2>3, <2>4 DEF GiveBack, Refused
<1>17. CASE Discard(t)
  <2>1. start[t].at = "discard" /\ start[t].thread # 0 /\ (\A i \in 1 .. Threads : ~Works(<<t, i>>)) /\ card' = card
    BY <1>3, <1>17 DEF Discard, At, Judged
  <2>2. Thread(t) \in Edges /\ run[Thread(t)] \in RunType
    BY EdgesAre DEF RowsAreTyped
  <2>3. Released(t, {Handler("deleted", Thread(t), "none")})
    BY <1>17 DEF Discard, Refused
  <2>4. start'[t].at = "idle" /\ start'[t].fresh = FALSE
    BY <2>3, RefusedStart
  <2>5. run'[Thread(t)].status = "discarded" /\ \A r \in Edges : r # Thread(t) => run'[r] = run[r]
    BY <1>17, <2>2 DEF Discard, RowsAreTyped, RunType
  <2>6. run'[<<t, 0>>].status = "none"
    BY <1>3, <2>1, <2>5, BoardAssumption DEF Edges, Thread
  <2>7. \A i \in 1 .. Threads : ~Works(<<t, i>>)'
    BY <2>1, <2>5 DEF Works, Edges, Thread
  <2>8. \A h \in handlers' : h.of[1] = t /\ h.kind = "deleted" => h.of = Thread(t) /\ h.at = "read"
    <3>1. \A h \in handlers : h.of[1] = t => h.kind # "deleted"
      BY <1>1 DEF CardIsSound
    <3>2. /\ Handler("deleted", Thread(t), "none").of = Thread(t)
          /\ Handler("deleted", Thread(t), "none").at = "read"
          /\ Handler("owed", Edge(t), "none").kind = "owed"
      BY DEF Handler
    <3> QED
      BY <2>3, <3>1, <3>2 DEF Released
  <2>9. \A h \in handlers' : h.of[1] = t /\ h.kind = "deleted" =>
          /\ ~Starting(t)' /\ Purged(h.of)'
          /\ h.at = "unlink" => card'[t].run \in {h.of[2], 0}
    BY <2>4, <2>5, <2>8 DEF Starting, Purged
  <2> QED
    BY <2>4, <2>6, <2>7, <2>9 DEF CardIsSound, Judged
<1>18. CASE ClearStamp(t)
  <2>1. Released(t, {}) /\ run' = run /\ ~Discard(t)
    BY <1>18 DEF ClearStamp, Discard, At
  <2>2. card'[t].run = card[t].run
    BY <1>18, EdgesAre DEF ClearStamp, RowsAreTyped, CardType
  <2> QED
    BY <1>5, <2>1, <2>2
<1> QED
  BY <1>8, <1>9, <1>10, <1>11, <1>12, <1>13, <1>14, <1>15, <1>16, <1>17, <1>18

\* A settled card has no start and no handler left that could act on it.
LEMMA SettledCards ==
  ASSUME RowsAreTyped, Calm, NEW t, Settled(t)
  PROVE  ~Starting(t) /\ \A h \in handlers : h.of[1] = t => h.kind \notin {"ended", "deleted", "reconcile"}
<1>1. ~May("overtake")
  BY DEF RowsAreTyped, Calm, May
<1> QED
  BY <1>1 DEF Settled, Unhurried

\* What a handler does to the runs and the run its card names.
LEMMA HandlerStepsSound ==
  ASSUME RowsAreTyped, RowsAreTyped', NEW h \in handlers, CardIsSound(h.of[1]),
         \/ SettleReads(h) \/ SettleStamps(h) \/ SettleMoves(h) \/ FollowReads(h) \/ FollowMoves(h)
         \/ ReleaseReads(h) \/ ReleaseUnlinks(h) \/ Finishes(h) \/ Rechecks(h) \/ OwedReconcile(h)
  PROVE  CardIsSound(h.of[1])'
<1> USE DEF startVars
<1> DEFINE t == h.of[1]
<1>1. t \in Cards /\ h \in HandlerType /\ h.of \in Edges /\ h.of = <<t, h.of[2]>> /\ card[t] \in CardType
  BY HandlerIsOf, EdgesAre
<1>2. UNCHANGED <<start, run>>
  BY HandlerStepsElsewhere
<1>3. ASSUME card'[t].run = card[t].run, \A g \in handlers' : g.of[1] = t /\ g.kind = "deleted" => g \in handlers
      PROVE  CardIsSound(t)'
  <2>1. Quiet(t)
    BY <1>2, <1>3 DEF Quiet, Works, Purged
  <2> QED
    BY <1>1, <2>1, QuietIsSound
<1>4. Dropped(h) => \A g \in handlers' : g.of[1] = t /\ g.kind = "deleted" => g \in handlers
  BY DEF Dropped
<1>5. ASSUME NEW at, NEW saw, GoesOn(h, at, saw), h.kind # "deleted"
      PROVE  \A g \in handlers' : g.of[1] = t /\ g.kind = "deleted" => g \in handlers
  <2>1. [h EXCEPT !.at = at, !.saw = saw].kind = h.kind
    BY <1>1 DEF HandlerType
  <2> QED
    BY <1>5, <2>1 DEF GoesOn, GoesOnTo
<1>6. CASE SettleReads(h)
  BY <1>3, <1>4, <1>5, <1>6 DEF SettleReads
<1>7. CASE SettleStamps(h)
  <2>1. card'[t].run = card[t].run
    BY <1>1, <1>7 DEF SettleStamps, RowsAreTyped, CardType
  <2>2. GoesOnTo(h, Handler("finish", h.of, "none")) =>
          \A g \in handlers' : g.of[1] = t /\ g.kind = "deleted" => g \in handlers
    BY DEF GoesOnTo, Handler
  <2>3. \A g \in handlers' : g.of[1] = t /\ g.kind = "deleted" => g \in handlers
    BY <1>4, <1>5, <1>7, <2>2 DEF SettleStamps
  <2> QED
    BY <1>3, <2>1, <2>3
<1>8. CASE SettleMoves(h)
  <2>1. h.saw \in Columns
    BY <1>8 DEF SettleMoves, RowsAreTyped
  <2>2. card'[t].run = card[t].run
    BY <1>1, <1>8, <2>1, MovedTyped DEF SettleMoves
  <2> QED
    BY <1>3, <1>4, <1>8, <2>2 DEF SettleMoves
<1>9. CASE FollowReads(h)
  BY <1>3, <1>4, <1>5, <1>9 DEF FollowReads
<1>10. CASE FollowMoves(h)
  <2>1. card'[t].run = card[t].run
    BY <1>1, <1>10, MovedTyped DEF FollowMoves, Columns
  <2> QED
    BY <1>3, <1>4, <1>10, <2>1 DEF FollowMoves
<1>11. CASE ReleaseReads(h)
  <2>1. CASE Dropped(h)
    BY <1>3, <1>4, <1>11, <2>1 DEF ReleaseReads
  <2>2. CASE NamedBy(h.of) /\ GoesOn(h, "unlink", card[t].column)
    <3> DEFINE next == [h EXCEPT !.at = "unlink", !.saw = card[t].column]
    <3>1. next.of = h.of /\ next.kind = "deleted"
      BY <1>1, <1>11 DEF HandlerType, ReleaseReads
    <3>2. handlers' = (handlers \ {h}) \union {next}
      BY <2>2 DEF GoesOn, GoesOnTo
    <3> HIDE DEF next
    <3>3. card[t].run = h.of[2]
      BY <2>2 DEF NamedBy
    <3>4. ~Starting(t) /\ Purged(h.of)
      BY <1>11 DEF CardIsSound, ReleaseReads
    <3>5. \A g \in handlers' : g.of[1] = t /\ g.kind = "deleted" =>
            /\ ~Starting(t) /\ Purged(g.of)
            /\ g.at = "unlink" => card[t].run \in {g.of[2], 0}
      BY <3>1, <3>2, <3>3, <3>4 DEF CardIsSound
    <3>6. card' = card
      BY <1>11 DEF ReleaseReads
    <3> QED
      BY <1>2, <3>5, <3>6 DEF CardIsSound, Works, Purged, Starting
  <2> QED
    BY <1>11, <2>1, <2>2 DEF ReleaseReads
<1>12. CASE ReleaseUnlinks(h)
  <2>1. h.kind = "deleted" /\ h.at = "unlink"
    BY <1>12 DEF ReleaseUnlinks
  <2>2. ~Starting(t) /\ Purged(h.of) /\ card[t].run \in {h.of[2], 0}
    BY <2>1 DEF CardIsSound
  <2>3. \A i \in 1 .. Threads : ~Works(<<t, i>>)
    <3> SUFFICES ASSUME NEW i \in 1 .. Threads, Works(<<t, i>>) PROVE FALSE
      OBVIOUS
    <3>1. card[t].run = i /\ i # 0
      BY DEF CardIsSound
    <3>2. h.of = <<t, i>>
      BY <1>1, <2>2, <3>1
    <3> QED
      BY <2>2, <3>2 DEF Works, Purged
  <2>4. card'[t].run = 0
    BY <1>1, <1>12 DEF ReleaseUnlinks, RowsAreTyped, CardType
  <2>5. \A g \in handlers' : g.of[1] = t /\ g.kind = "deleted" => Purged(g.of)
    <3> DEFINE next == [h EXCEPT !.at = "move", !.saw = "todo"]
    <3>1. next.of = h.of
      BY <1>1 DEF HandlerType
    <3>2. handlers' \subseteq handlers \union {next}
      BY <1>12 DEF ReleaseUnlinks, GoesOn, GoesOnTo, Dropped
    <3> HIDE DEF next
    <3> QED
      BY <2>2, <3>1, <3>2 DEF CardIsSound
  <2> QED
    BY <1>2, <2>2, <2>3, <2>4, <2>5 DEF CardIsSound, Works, Purged, Starting, Judged
<1>13. CASE Finishes(h)
  BY <1>3, <1>4, <1>13 DEF Finishes
<1>14. CASE Rechecks(h)
  BY <1>3, <1>4, <1>14 DEF Rechecks
<1>15. CASE OwedReconcile(h)
  <2>1. Handler("reconcile", Edge(t), run[Edge(t)].status).kind = "reconcile"
    BY DEF Handler
  <2> QED
    BY <1>3, <1>15, <2>1 DEF OwedReconcile
<1> QED
  BY <1>6, <1>7, <1>8, <1>9, <1>10, <1>11, <1>12, <1>13, <1>14, <1>15

\* A start is claimed only for a card nobody starts and no deletion of which
\* is still heard.
LEMMA ActsSound ==
  ASSUME RowsAreTyped, RowsAreTyped', Calm, NEW t \in Cards, CardIsSound(t),
         PostStart(t) \/ PressRun(t) \/ LoadBoard(t) \/ \E to \in Columns : Drag(t, to)
  PROVE  CardIsSound(t)'
<1> USE DEF boardVars, startVars
<1>1. run' = run
  BY ActsElsewhere
<1>2. ASSUME start' = start, card'[t].run = card[t].run,
             \A g \in handlers' : g.of[1] = t /\ g.kind = "deleted" => g \in handlers
      PROVE  CardIsSound(t)'
  <2>1. Quiet(t)
    BY <1>1, <1>2 DEF Quiet, Works, Purged
  <2> QED
    BY <2>1, QuietIsSound
<1>3. ASSUME NEW auto \in BOOLEAN, NEW from, Claim(t, auto, from), Settled(t), UNCHANGED <<card, handlers>>
      PROVE  CardIsSound(t)'
  <2>1. start'[t].at = "read" /\ start'[t].fresh = FALSE
    BY <1>3, ClaimGoes DEF StartsOnly
  <2>2. \A h \in handlers' : h.of[1] = t => h.kind # "deleted"
    BY <1>3, SettledCards
  <2> QED
    BY <1>1, <1>3, <2>1, <2>2 DEF CardIsSound, Judged, Works
<1>4. CASE PostStart(t)
  BY <1>2, <1>3, <1>4 DEF PostStart
<1>5. CASE PressRun(t)
  BY <1>3, <1>5 DEF PressRun
<1>6. CASE LoadBoard(t)
  <2>1. Handler("reconcile", Edge(t), run[Edge(t)].status).kind = "reconcile"
    BY DEF Handler
  <2> QED
    BY <1>2, <1>6, <2>1 DEF LoadBoard
<1>7. ASSUME NEW to \in Columns, Drag(t, to) PROVE CardIsSound(t)'
  BY <1>2, <1>7, MovedTyped DEF Drag
<1> QED
  BY <1>4, <1>5, <1>6, <1>7

\* A run set going again is the one its card names, and a chat is deleted
\* when no start can name it.
LEMMA ChatsSound ==
  ASSUME RowsAreTyped, RowsAreTyped', Calm, NEW r \in Runs, CardIsSound(r[1]),
         FollowUp(r) \/ DeleteChat(r) \/ WorkEnds(r) \/ (\E how \in Ended : Ends(r, how))
           \/ \E to \in Columns : AgentMoves(r, to)
  PROVE  CardIsSound(r[1])'
<1> USE DEF boardVars, startVars
<1> DEFINE t == r[1]
<1>1. t \in Cards /\ r \in Edges /\ r = <<t, r[2]>> /\ r[2] \in 1 .. Threads /\ r[2] # 0 /\ run[r] \in RunType
  BY RunsAreEdges, BoardAssumption DEF Runs, RowsAreTyped
<1>2. start' = start
  BY ChatsElsewhere
<1>3. ASSUME NEW x, run' = [run EXCEPT ![r] = x]
      PROVE  /\ run'[r] = x /\ run'[<<t, 0>>] = run[<<t, 0>>]
             /\ \A i \in 1 .. Threads : i # r[2] => run'[<<t, i>>] = run[<<t, i>>]
  BY <1>1, <1>3, BoardAssumption DEF RowsAreTyped, Edges
<1>4. CASE FollowUp(r)
  <2>1. ~Starting(t) /\ \A h \in handlers : h.of[1] = t => h.kind # "deleted"
    BY <1>4, SettledCards DEF FollowUp
  <2>2. \A h \in Broadcast("working", r, "none") : h.kind # "deleted"
    BY DEF Broadcast, Handler
  <2>3. \A h \in handlers' : h.of[1] = t => h.kind # "deleted"
    BY <1>4, <2>1, <2>2 DEF FollowUp
  <2>4. run'[<<t, 0>>].status = "none" /\ \A i \in 1 .. Threads : i # r[2] => run'[<<t, i>>] = run[<<t, i>>]
    BY <1>3, <1>4 DEF FollowUp, CardIsSound
  <2>5. card' = card /\ card[t].run = r[2]
    BY <1>4 DEF FollowUp, NamedBy
  <2>6. \A i \in 1 .. Threads : Works(<<t, i>>)' => card'[t].run = i
    BY <2>4, <2>5 DEF Works, CardIsSound
  <2>7. start'[t].at = "idle"
    BY <1>2, <2>1 DEF Starting
  <2>8. start'[t].fresh => start'[t].thread # 0
    BY <1>2 DEF CardIsSound
  <2> QED
    BY <2>3, <2>4, <2>6, <2>7, <2>8 DEF CardIsSound, Judged
<1>5. CASE DeleteChat(r)
  <2>1. ~Starting(t) /\ \A h \in handlers : h.of[1] = t => h.kind # "deleted"
    BY <1>5, SettledCards DEF DeleteChat
  <2>2. run' = [run EXCEPT ![r] = [NoRun EXCEPT !.status = "deleted"]] /\ card' = card
    BY <1>5 DEF DeleteChat
  <2>3. /\ run'[r] = [NoRun EXCEPT !.status = "deleted"] /\ run'[<<t, 0>>].status = "none"
        /\ \A i \in 1 .. Threads : i # r[2] => run'[<<t, i>>] = run[<<t, i>>]
    BY <1>3, <2>2 DEF CardIsSound
  <2>4. run'[r].status = "deleted"
    BY <2>3 DEF NoRun
  <2>5. /\ Handler("deleted", r, "none").of = r /\ Handler("deleted", r, "none").at = "read"
        /\ handlers' = handlers \union {Handler("deleted", r, "none")}
    BY <1>5 DEF Handler, DeleteChat
  <2>6. \A h \in handlers' : h.of[1] = t /\ h.kind = "deleted" => h.of = r /\ h.at = "read"
    BY <2>1, <2>5
  <2>7. \A i \in 1 .. Threads : Works(<<t, i>>)' => card'[t].run = i
    <3>1. \A i \in 1 .. Threads : Works(<<t, i>>)' => Works(<<t, i>>)
      BY <1>1, <2>3, <2>4 DEF Works
    <3> QED
      BY <2>2, <3>1 DEF CardIsSound
  <2>8. start'[t].at = "idle"
    BY <1>2, <2>1 DEF Starting
  <2>9. start'[t].fresh => start'[t].thread # 0
    BY <1>2 DEF CardIsSound
  <2> QED
    BY <2>3, <2>4, <2>6, <2>7, <2>8, <2>9 DEF CardIsSound, Judged, Starting, Purged
<1>6. ASSUME NEW x, run' = [run EXCEPT ![r] = x], x.status = "running" => run[r].status = "running",
             run[r].status \in {"deleted", "discarded"} => x.status \in {"deleted", "discarded"},
             card'[t].run = card[t].run,
             \A g \in handlers' : g.of[1] = t /\ g.kind = "deleted" => g \in handlers
      PROVE  CardIsSound(t)'
  <2>1. /\ run'[r] = x /\ run'[<<t, 0>>] = run[<<t, 0>>]
        /\ \A i \in 1 .. Threads : i # r[2] => run'[<<t, i>>] = run[<<t, i>>]
    BY <1>3, <1>6
  <2>2. \A i \in 1 .. Threads : (Works(<<t, i>>)' => Works(<<t, i>>)) /\ (Purged(<<t, i>>) => Purged(<<t, i>>)')
    BY <1>1, <1>6, <2>1 DEF Works, Purged
  <2>3. Quiet(t)
    BY <1>2, <1>6, <2>1, <2>2 DEF Quiet
  <2> QED
    BY <1>1, <2>3, QuietIsSound
<1>7. CASE WorkEnds(r)
  <2>1. Handler("recheck", r, "none").kind = "recheck"
    BY DEF Handler
  <2>2. [run[r] EXCEPT !.holds = FALSE].status = run[r].status
    BY <1>1 DEF RunType
  <2>3. run' = [run EXCEPT ![r] = [run[r] EXCEPT !.holds = FALSE]]
    BY <1>7 DEF WorkEnds
  <2> QED
    BY <1>6, <1>7, <2>1, <2>2, <2>3 DEF WorkEnds
<1>8. ASSUME NEW how \in Ended, Ends(r, how) PROVE CardIsSound(t)'
  <2>1. PICK holds \in {FALSE, May("shells")} :
          run' = [run EXCEPT ![r] = [run[r] EXCEPT !.status = how, !.holds = holds]]
    BY <1>8 DEF Ends
  <2>2. [run[r] EXCEPT !.status = how, !.holds = holds].status = how
    BY <1>1 DEF RunType
  <2>3. run[r].status = "running" /\ how # "running"
    BY <1>8 DEF Ends, Ended
  <2>4. \A g \in Broadcast("ended", r, how) : g.kind # "deleted"
    BY DEF Broadcast, Handler
  <2> QED
    BY <1>6, <1>8, <2>1, <2>2, <2>3, <2>4 DEF Ends
<1>9. ASSUME NEW to \in Columns, AgentMoves(r, to) PROVE CardIsSound(t)'
  <2>1. run' = run /\ card'[t].run = card[t].run
    BY <1>1, <1>9, MovedTyped DEF AgentMoves
  <2>2. \A g \in handlers' : g.of[1] = t /\ g.kind = "deleted" => g \in handlers
    BY <1>1, <1>9, MovedTyped DEF AgentMoves
  <2>3. Quiet(t)
    BY <1>2, <2>1, <2>2 DEF Quiet, Works, Purged
  <2> QED
    BY <1>1, <2>3, QuietIsSound
<1> QED
  BY <1>4, <1>5, <1>7, <1>8, <1>9

\* After a boot no run works and nothing is in flight.
LEMMA RestartSound ==
  ASSUME RowsAreTyped, CardsAreSound, NEW cause \in {"quit", "crash"}, Restart(cause)
  PROVE  CardsAreSound' /\ \A r \in Edges : ~Works(r)'
<1>1. \A r \in Edges : run'[r].status # "running"
  <2> SUFFICES ASSUME NEW r \in Edges PROVE run'[r].status # "running"
    OBVIOUS
  <2>1. run[r] \in RunType
    BY DEF RowsAreTyped
  <2>2. run'[r] = IF run[r].status = "running"
                  THEN [run[r] EXCEPT !.status = "failed", !.cut = cause, !.holds = FALSE]
                  ELSE [run[r] EXCEPT !.holds = FALSE]
    BY DEF Restart, Cut
  <2> QED
    BY <2>1, <2>2 DEF RunType
<1>2. ASSUME NEW t \in Cards PROVE CardIsSound(t)'
  <2>1. run[<<t, 0>>].status = "none" /\ <<t, 0>> \in Edges /\ run[<<t, 0>>] \in RunType
    BY BoardAssumption DEF CardsAreSound, CardIsSound, Edges, RowsAreTyped
  <2>2. run'[<<t, 0>>].status = "none"
    <3>1. run'[<<t, 0>>] = [run[<<t, 0>>] EXCEPT !.holds = FALSE]
      BY <2>1 DEF Restart, Cut
    <3> QED
      BY <2>1, <3>1 DEF RunType
  <2>3. \A i \in 1 .. Threads : ~Works(<<t, i>>)'
    BY <1>1 DEF Works, Edges
  <2>4. start'[t] = NoStart /\ handlers' = {}
    BY DEF Restart
  <2> QED
    BY <2>2, <2>3, <2>4 DEF CardIsSound, NoStart, Judged
<1> QED
  BY <1>1, <1>2 DEF CardsAreSound, Works

\* Every step in calm weather keeps the cards sound.
LEMMA CardsStaySound ==
  Calm /\ RowsAreTyped /\ CardsAreSound /\ [Next]_vars => CardsAreSound'
<1> SUFFICES ASSUME Calm, RowsAreTyped, CardsAreSound, [Next]_vars PROVE CardsAreSound'
  OBVIOUS
<1>1. RowsAreTyped'
  BY RowsStayTyped
<1>2. ASSUME NEW t \in Cards, Elsewhere(t), CardIsSound(t)' PROVE CardsAreSound'
  BY <1>1, <1>2, OtherCardsAreSound DEF CardsAreSound
<1>3. \A t \in Cards : CardIsSound(t)
  BY DEF CardsAreSound
<1>4. CASE UNCHANGED <<card, run, handlers, start>>
  BY <1>4 DEF CardsAreSound, CardIsSound, Works, Purged, Starting
<1>5. CASE StartStep
  <2>1. PICK t \in Cards :
          \/ ReadCard(t) \/ JudgeRun(t) \/ CountRuns(t) \/ Reserve(t) \/ Choose(t)
          \/ Link(t) \/ Send(t) \/ Unlink(t) \/ GiveBack(t) \/ Discard(t) \/ ClearStamp(t)
    BY <1>5 DEF StartStep
  <2>2. Elsewhere(t) /\ CardIsSound(t)'
    BY <1>1, <1>3, <2>1, StartStepsElsewhere, StartStepsSound
  <2> QED
    BY <1>2, <2>2
<1>6. CASE HandlerStep
  <2>1. PICK h \in handlers :
          \/ SettleReads(h) \/ SettleStamps(h) \/ SettleMoves(h) \/ FollowReads(h) \/ FollowMoves(h)
          \/ ReleaseReads(h) \/ ReleaseUnlinks(h) \/ Finishes(h) \/ Rechecks(h) \/ OwedReconcile(h)
    BY <1>6 DEF HandlerStep
  <2>2. h.of[1] \in Cards
    BY HandlerIsOf
  <2>3. Elsewhere(h.of[1]) /\ CardIsSound(h.of[1])'
    BY <1>1, <1>3, <2>1, <2>2, HandlerStepsElsewhere, HandlerStepsSound
  <2> QED
    BY <1>2, <2>2, <2>3
<1>7. CASE ReadQueue
  BY <1>4, <1>7 DEF ReadQueue, boardVars
<1>8. ASSUME NEW t \in Cards, PostStart(t) \/ PressRun(t) \/ LoadBoard(t) \/ \E to \in Columns : Drag(t, to)
      PROVE  CardsAreSound'
  <2>1. Elsewhere(t) /\ CardIsSound(t)'
    BY <1>1, <1>3, <1>8, ActsElsewhere, ActsSound
  <2> QED
    BY <1>2, <2>1
<1>9. ASSUME NEW r \in Runs,
             FollowUp(r) \/ DeleteChat(r) \/ WorkEnds(r) \/ (\E how \in Ended : Ends(r, how))
               \/ \E to \in Columns : AgentMoves(r, to)
      PROVE  CardsAreSound'
  <2>1. r[1] \in Cards
    BY DEF Runs
  <2>2. Elsewhere(r[1]) /\ CardIsSound(r[1])'
    BY <1>1, <1>3, <1>9, <2>1, ChatsElsewhere, ChatsSound
  <2> QED
    BY <1>2, <2>1, <2>2
<1>10. CASE \E cause \in {"quit", "crash"} : Restart(cause)
  BY <1>10, RestartSound
<1>11. CASE UNCHANGED vars
  BY <1>4, <1>11 DEF vars, boardVars, startVars
<1> QED
  BY <1>5, <1>6, <1>7, <1>8, <1>9, <1>10, <1>11 DEF Next

\* The cards are sound at first.
LEMMA CardsStart == Init => CardsAreSound
<1> SUFFICES ASSUME Init, NEW t \in Cards PROVE CardIsSound(t)
  BY DEF CardsAreSound
<1>1. start[t].at = "idle" /\ start[t].fresh = FALSE
  BY DEF Init, StartsInit, NoStart
<1>2. \A i \in 0 .. Threads : run[<<t, i>>].status = "none"
  BY DEF Init, BoardInit, NoRun, Edges
<1>3. run[<<t, 0>>].status = "none" /\ \A i \in 1 .. Threads : run[<<t, i>>].status = "none"
  BY <1>2, BoardAssumption
<1>4. handlers = {}
  BY DEF Init, BoardInit
<1> QED
  BY <1>1, <1>3, <1>4 DEF CardIsSound, Works, Judged

\* Sound cards have one agent each.
LEMMA SoundCardsHaveOneAgent == RowsAreTyped /\ CardsAreSound => OneAgentPerCard
<1> SUFFICES ASSUME RowsAreTyped, CardsAreSound, NEW t \in Cards
             PROVE  Cardinality({i \in 1 .. Threads : run[<<t, i>>].status = "running"}) <= 1
  BY DEF OneAgentPerCard
<1> DEFINE S == {i \in 1 .. Threads : run[<<t, i>>].status = "running"}
<1>1. S \subseteq {card[t].run}
  BY DEF CardsAreSound, CardIsSound, Works
<1>2. IsFiniteSet({card[t].run}) /\ Cardinality({card[t].run}) = 1
  BY FS_Singleton
<1>3. IsFiniteSet(S) /\ Cardinality(S) <= Cardinality({card[t].run})
  BY <1>1, <1>2, FS_Subset
<1> QED
  BY <1>2, <1>3

\* On a calm board two agents never work on one card, for any number of
\* cards, starts and handlers: a start refuses the run it finds at work
\* (assertNotAlreadyRunning), nobody sets another run going while it is in
\* flight, and a chat that goes on is the one the card names.
THEOREM OneAgentWorksOnACard ==
  ASSUME Calm
  PROVE  Spec => []OneAgentPerCard
<1>1. Init => RowsAreTyped /\ CardsAreSound
  BY InitTyped, CardsStart
<1>2. RowsAreTyped /\ CardsAreSound /\ [Next]_vars => (RowsAreTyped /\ CardsAreSound)'
  BY Calm, RowsStayTyped, CardsStaySound
<1> QED
  BY <1>1, <1>2, SoundCardsHaveOneAgent, PTL DEF Spec

-----------------------------------------------------------------------------
(* The cap                                                                  *)

\* The runs the autopilot set going.
Autos == {r \in Runs : Works(r) /\ run[r].auto}

\* An autopilot's start that has counted the running ones has room for its
\* own: it is the first in the chain, so nobody else fills it.
CapIsKept ==
  /\ Cardinality(Autos) <= Cap
  /\ \A t \in Cards : start[t].auto /\ start[t].at \in {"reserve", "choose", "link", "send"}
       => Cardinality(Autos) < Cap

\* The autopilot's runs at work map into the cards it counts one to one, so
\* there are no more of them.
LEMMA AutosAreFew ==
  ASSUME RowsAreTyped, CardsAreSound
  PROVE  IsFiniteSet(Autos) /\ Cardinality(Autos) <= Running /\ Running \in Nat
<1> DEFINE busy == {t \in Cards : Live(Edge(t))}
           f == [r \in Autos |-> r[1]]
<1>1. IsFiniteSet(busy)
  BY BoardAssumption, FS_Subset
<1>2. ASSUME NEW r \in Autos PROVE r[1] \in busy /\ r = Edge(r[1])
  <2>1. r[1] \in Cards /\ r[2] \in 1 .. Threads /\ r = <<r[1], r[2]>>
    BY DEF Autos, Runs
  <2>2. card[r[1]].run = r[2]
    BY <2>1 DEF CardsAreSound, CardIsSound, Autos
  <2>3. r = Edge(r[1])
    BY <2>1, <2>2 DEF Edge
  <2> QED
    BY <2>1, <2>3 DEF Live, Autos, Works
<1>3. f \in Injection(Autos, busy)
  <2>1. f \in [Autos -> busy]
    BY <1>2
  <2>2. \A a, b \in Autos : f[a] = f[b] => a = b
    BY <1>2
  <2> QED
    BY <2>1, <2>2 DEF Injection, IsInjective
<1>4. IsFiniteSet(Autos) /\ Cardinality(Autos) <= Cardinality(busy)
  BY <1>1, <1>3, FS_Injection
<1>5. Cardinality(busy) \in Nat
  BY <1>1, FS_CardinalityType
<1> QED
  BY <1>4, <1>5 DEF Running

RoomPoints == {"reserve", "choose", "link", "send"}

\* A step that sets no run of the autopilot's going and takes no start past
\* the count without room.
LEMMA CapStands ==
  ASSUME RowsAreTyped, CardsAreSound, CapIsKept, Autos' \subseteq Autos,
         \A t \in Cards : start'[t].auto /\ start'[t].at \in RoomPoints =>
           (start[t].auto /\ start[t].at \in RoomPoints) \/ Cardinality(Autos) < Cap
  PROVE  CapIsKept'
<1>1. IsFiniteSet(Autos)
  BY AutosAreFew
<1>2. Cardinality(Autos') <= Cardinality(Autos) /\ IsFiniteSet(Autos')
  BY <1>1, FS_Subset
<1>3. Cardinality(Autos) \in Nat /\ Cardinality(Autos') \in Nat /\ Cap \in Nat
  BY <1>1, <1>2, FS_CardinalityType, BoardAssumption
<1>4. Cardinality(Autos') <= Cap
  BY <1>2, <1>3 DEF CapIsKept
<1>5. \A t \in Cards : start'[t].auto /\ start'[t].at \in RoomPoints => Cardinality(Autos') < Cap
  <2> SUFFICES ASSUME NEW t \in Cards, start'[t].auto, start'[t].at \in RoomPoints PROVE Cardinality(Autos') < Cap
    OBVIOUS
  <2>1. Cardinality(Autos) < Cap
    BY DEF CapIsKept, RoomPoints
  <2> QED
    BY <1>2, <1>3, <2>1
<1> QED
  BY <1>4, <1>5 DEF CapIsKept, RoomPoints

\* A step that touches one run adds no run of the autopilot unless that run was
\* one.
LEMMA AutosOfOneRun ==
  ASSUME RowsAreTyped, NEW r \in Edges, NEW x, run' = [run EXCEPT ![r] = x],
         x.status = "running" /\ x.auto => Works(r) /\ run[r].auto
  PROVE  Autos' \subseteq Autos
<1>1. ASSUME NEW q \in Runs, Works(q)', run'[q].auto PROVE Works(q) /\ run[q].auto
  <2>1. q \in Edges
    BY RunsAreEdges
  <2>2. CASE q = r
    BY <1>1, <2>1, <2>2 DEF RowsAreTyped, Works
  <2>3. CASE q # r
    BY <1>1, <2>1, <2>3 DEF RowsAreTyped, Works
  <2> QED
    BY <2>2, <2>3
<1> QED
  BY <1>1 DEF Autos

\* A step that touches no run adds none.
LEMMA AutosKept == UNCHANGED run => Autos' \subseteq Autos
BY DEF Autos, Works

\* Every step of a start keeps the cap: it sends only with the room it counted.
LEMMA StartStepsKeepTheCap ==
  ASSUME RowsAreTyped, ChainIsSound, CardsAreSound, CapIsKept, NEW t \in Cards,
         \/ ReadCard(t) \/ JudgeRun(t) \/ CountRuns(t) \/ Reserve(t) \/ Choose(t)
         \/ Link(t) \/ Send(t) \/ Unlink(t) \/ GiveBack(t) \/ Discard(t) \/ ClearStamp(t)
  PROVE  CapIsKept'
<1> USE DEF boardVars
<1>1. \A u \in Cards \ {t} : start'[u] = start[u]
  BY StartStepsGo DEF StartsOnly
<1>2. ASSUME Autos' \subseteq Autos,
             start'[t].auto /\ start'[t].at \in RoomPoints =>
               (start[t].auto /\ start[t].at \in RoomPoints) \/ Cardinality(Autos) < Cap
      PROVE  CapIsKept'
  BY <1>1, <1>2, CapStands
<1>3. ASSUME NEW others, Released(t, others) PROVE start'[t].at \notin RoomPoints
  BY <1>3, RefusedStart DEF RoomPoints
<1>4. Refused(t, {}) => start'[t].at \notin RoomPoints
  BY <1>3 DEF Refused
<1>5. ASSUME NEW at, GoesTo(t, at) PROVE start'[t].at = at /\ start'[t].auto = start[t].auto
  BY <1>5, GoneOn
<1>6. start[t] \in StartType /\ Thread(t) \in Edges /\ run[Thread(t)] \in RunType
  BY EdgesAre DEF RowsAreTyped
<1>7. CASE ReadCard(t)
  <2>1. start'[t] = [start[t] EXCEPT !.at = "judge", !.found = card[t].run, !.stopped = card[t].stopped]
    BY <1>7 DEF ReadCard, RowsAreTyped
  <2>2. start'[t].at = "judge"
    BY <1>6, <2>1 DEF StartType
  <2> QED
    BY <1>2, <1>7, <2>2, AutosKept DEF ReadCard, RoomPoints
<1>8. CASE JudgeRun(t)
  <2>1. run' = run
    BY <1>8 DEF JudgeRun
  <2>2. start'[t].auto => start'[t].at \notin RoomPoints
    <3>1. CASE Refused(t, {})
      BY <1>4, <3>1
    <3>2. CASE start[t].auto /\ GoesTo(t, "count")
      BY <1>5, <3>2 DEF RoomPoints
    <3>3. CASE ~start[t].auto /\ GoesTo(t, "reserve")
      BY <1>5, <3>3
    <3> QED
      BY <1>8, <3>1, <3>2, <3>3 DEF JudgeRun
  <2> QED
    BY <1>2, <2>1, <2>2, AutosKept
<1>9. CASE CountRuns(t)
  <2>1. run' = run
    BY <1>9 DEF CountRuns
  <2>2. CASE Refused(t, {})
    BY <1>2, <1>4, <2>1, <2>2, AutosKept
  <2>3. CASE Running < Cap
    <3>1. Cardinality(Autos) < Cap
      BY <2>3, AutosAreFew, FS_CardinalityType, BoardAssumption
    <3> QED
      BY <1>2, <2>1, <3>1, AutosKept
  <2> QED
    BY <1>9, <2>2, <2>3 DEF CountRuns
<1>10. CASE Reserve(t)
  <2>1. run' = run /\ start[t].at = "reserve"
    BY <1>10 DEF Reserve, At
  <2>2. start'[t].at \in RoomPoints => start'[t].auto = start[t].auto
    BY <1>4, <1>5, <1>10 DEF Reserve
  <2> QED
    BY <1>2, <2>1, <2>2, AutosKept DEF RoomPoints
<1>11. CASE Choose(t)
  <2> DEFINE made == {i \in 1 .. Threads : run[<<t, i>>].status = "none"}
             next == CHOOSE i \in made : \A j \in made : i <= j
  <2>1. start[t].at = "choose"
    BY <1>11 DEF Choose, At
  <2>2. start'[t].auto = start[t].auto
    <3>1. \A thread : /\ [start[t] EXCEPT !.at = "link", !.thread = thread].auto = start[t].auto
                      /\ [start[t] EXCEPT !.at = "link", !.thread = thread, !.fresh = TRUE].auto = start[t].auto
      BY <1>6 DEF StartType
    <3>2. \/ \E thread : start'[t] = [start[t] EXCEPT !.at = "link", !.thread = thread]
          \/ \E thread : start'[t] = [start[t] EXCEPT !.at = "link", !.thread = thread, !.fresh = TRUE]
          \/ GoesTo(t, "giveback")
      BY <1>11 DEF Choose, RowsAreTyped
    <3> QED
      BY <1>5, <3>1, <3>2
  <2>3. Autos' \subseteq Autos
    <3>1. CASE run' = run
      BY <3>1, AutosKept
    <3>2. CASE made # {} /\ run' = [run EXCEPT ![<<t, next>>] = [NoRun EXCEPT !.status = "pending"]]
      <4>1. next \in made
        BY <3>2, LeastRun
      <4>4. next \in 1 .. Threads
        BY <4>1
      <4> HIDE DEF next, made
      <4>2. <<t, next>> \in Edges
        BY <4>4, BoardAssumption DEF Edges
      <4>3. [NoRun EXCEPT !.status = "pending"].status = "pending"
        BY DEF NoRun
      <4> QED
        BY <3>2, <4>2, <4>3, AutosOfOneRun
    <3> QED
      BY <1>11, <3>1, <3>2 DEF Choose
  <2> QED
    BY <1>2, <2>1, <2>2, <2>3 DEF RoomPoints
<1>12. CASE Link(t)
  <2>1. run' = run /\ start[t].at = "link" /\ start'[t].auto = start[t].auto
    BY <1>5, <1>12 DEF Link, At, GoesWrong
  <2> QED
    BY <1>2, <2>1, AutosKept DEF RoomPoints
<1>13. CASE Send(t)
  <2>1. First(t) /\ start[t].at = "send"
    BY <1>13 DEF Send, At
  <2>2. CASE GoesWrong(t) /\ UNCHANGED <<boardVars, chain, offer>>
    <3>1. start'[t].auto = start[t].auto
      BY <1>5, <2>2 DEF GoesWrong
    <3> QED
      BY <1>2, <2>1, <2>2, <3>1, AutosKept DEF RoomPoints
  <2>3. CASE /\ run' = [run EXCEPT ![Thread(t)] =
                          [run[Thread(t)] EXCEPT !.status = "running", !.cut = "no", !.auto = start[t].auto]]
             /\ GoesTo(t, "clear")
    <3> DEFINE x == [run[Thread(t)] EXCEPT !.status = "running", !.cut = "no", !.auto = start[t].auto]
    <3>1. start'[t].at = "clear"
      BY <1>5, <2>3
    <3>2. CASE ~start[t].auto
      <4>1. x.auto = start[t].auto
        BY <1>6 DEF RunType
      <4> HIDE DEF x
      <4>2. Autos' \subseteq Autos
        BY <1>6, <2>3, <3>2, <4>1, AutosOfOneRun DEF x
      <4> QED
        BY <1>2, <3>1, <4>2 DEF RoomPoints
    <3>3. CASE start[t].auto
      <4>1. Cardinality(Autos) < Cap
        BY <2>1, <3>3 DEF CapIsKept
      <4>2. IsFiniteSet(Autos) /\ Cardinality(Autos) \in Nat
        BY AutosAreFew, FS_CardinalityType
      <4>3. Autos' \subseteq Autos \union {Thread(t)}
        <5>1. \A q \in Edges : q # Thread(t) => run'[q] = run[q]
          BY <2>3 DEF RowsAreTyped
        <5> QED
          BY <5>1, RunsAreEdges DEF Autos, Works
      <4>4. /\ IsFiniteSet(Autos \union {Thread(t)})
            /\ Cardinality(Autos \union {Thread(t)}) <= Cardinality(Autos) + 1
        <5>1. /\ IsFiniteSet(Autos \union {Thread(t)})
              /\ Cardinality(Autos \union {Thread(t)}) =
                   IF Thread(t) \in Autos THEN Cardinality(Autos) ELSE Cardinality(Autos) + 1
          BY <4>2, FS_AddElement
        <5> QED
          BY <4>2, <5>1
      <4>5. IsFiniteSet(Autos') /\ Cardinality(Autos') <= Cardinality(Autos \union {Thread(t)})
        BY <4>3, <4>4, FS_Subset
      <4>6. Cardinality(Autos') <= Cap
        BY <4>1, <4>2, <4>4, <4>5, FS_CardinalityType, BoardAssumption
      <4>7. \A u \in Cards : start'[u].at \notin RoomPoints
        BY <1>1, <2>1, <3>1, FirstIsFirst DEF ChainIsSound, RoomPoints
      <4> QED
        BY <4>6, <4>7 DEF CapIsKept, RoomPoints
    <3> QED
      BY <3>2, <3>3
  <2> QED
    BY <1>13, <2>2, <2>3 DEF Send
<1>14. CASE Unlink(t)
  BY <1>2, <1>5, <1>14, AutosKept DEF Unlink, RoomPoints
<1>15. CASE GiveBack(t)
  <2>1. run' = run /\ start'[t].at \notin RoomPoints
    BY <1>3, <1>5, <1>15 DEF GiveBack, Refused, RoomPoints
  <2> QED
    BY <1>2, <2>1, AutosKept
<1>16. CASE Discard(t)
  <2>1. start'[t].at \notin RoomPoints
    BY <1>3, <1>16 DEF Discard, Refused
  <2>2. [run[Thread(t)] EXCEPT !.status = "discarded"].status = "discarded"
    BY <1>6 DEF RunType
  <2>3. run' = [run EXCEPT ![Thread(t)] = [run[Thread(t)] EXCEPT !.status = "discarded"]]
    BY <1>16 DEF Discard
  <2>4. Autos' \subseteq Autos
    BY <1>6, <2>2, <2>3, AutosOfOneRun
  <2> QED
    BY <1>2, <2>1, <2>4
<1>17. CASE ClearStamp(t)
  BY <1>2, <1>3, <1>17, AutosKept DEF ClearStamp
<1> QED
  BY <1>7, <1>8, <1>9, <1>10, <1>11, <1>12, <1>13, <1>14, <1>15, <1>16, <1>17

\* Every step keeps the cap.
LEMMA CapStays ==
  RowsAreTyped /\ ChainIsSound /\ CardsAreSound /\ CapIsKept /\ [Next]_vars => CapIsKept'
<1> SUFFICES ASSUME RowsAreTyped, ChainIsSound, CardsAreSound, CapIsKept, [Next]_vars PROVE CapIsKept'
  OBVIOUS
<1>1. ASSUME UNCHANGED start, Autos' \subseteq Autos PROVE CapIsKept'
  BY <1>1, CapStands
<1>2. CASE UNCHANGED <<start, run>>
  BY <1>1, <1>2, AutosKept
<1>3. CASE StartStep
  BY <1>3, StartStepsKeepTheCap DEF StartStep
<1>4. CASE HandlerStep
  BY <1>2, <1>4, HandlerStepsElsewhere DEF HandlerStep
<1>5. CASE ReadQueue
  BY <1>2, <1>5 DEF ReadQueue, boardVars
<1>6. ASSUME NEW t \in Cards, PostStart(t) \/ PressRun(t) \/ LoadBoard(t) \/ \E to \in Columns : Drag(t, to)
      PROVE  CapIsKept'
  <2>1. run' = run
    BY <1>6, ActsElsewhere
  <2>2. ASSUME NEW auto \in BOOLEAN, NEW from, Claim(t, auto, from) PROVE CapIsKept'
    <3>1. start'[t].at = "read" /\ \A u \in Cards \ {t} : start'[u] = start[u]
      BY <2>2, ClaimGoes DEF StartsOnly
    <3>2. \A u \in Cards : start'[u].auto /\ start'[u].at \in RoomPoints => start[u].auto /\ start[u].at \in RoomPoints
      BY <3>1 DEF RoomPoints
    <3> QED
      BY <2>1, <3>2, AutosKept, CapStands
  <2>3. CASE start' = start
    BY <1>2, <2>1, <2>3
  <2> QED
    BY <1>6, <2>2, <2>3 DEF PostStart, PressRun, LoadBoard, Drag, startVars
<1>7. ASSUME NEW r \in Runs,
             FollowUp(r) \/ DeleteChat(r) \/ WorkEnds(r) \/ (\E how \in Ended : Ends(r, how))
               \/ \E to \in Columns : AgentMoves(r, to)
      PROVE  CapIsKept'
  <2>1. r \in Edges /\ run[r] \in RunType
    BY RunsAreEdges DEF RowsAreTyped
  <2>2. ASSUME NEW x, run' = [run EXCEPT ![r] = x], x.status = "running" /\ x.auto => Works(r) /\ run[r].auto
        PROVE  Autos' \subseteq Autos
    BY <2>1, <2>2, AutosOfOneRun
  <2>3. Autos' \subseteq Autos
    <3>1. CASE FollowUp(r)
      <4>1. [run[r] EXCEPT !.status = "running", !.cut = "no", !.auto = FALSE].auto = FALSE
        BY <2>1 DEF RunType
      <4> QED
        BY <2>2, <3>1, <4>1 DEF FollowUp
    <3>2. CASE DeleteChat(r)
      <4>1. [NoRun EXCEPT !.status = "deleted"].status = "deleted"
        BY DEF NoRun
      <4> QED
        BY <2>2, <3>2, <4>1 DEF DeleteChat
    <3>3. CASE WorkEnds(r)
      <4>1. /\ [run[r] EXCEPT !.holds = FALSE].status = run[r].status
            /\ [run[r] EXCEPT !.holds = FALSE].auto = run[r].auto
        BY <2>1 DEF RunType
      <4>2. run' = [run EXCEPT ![r] = [run[r] EXCEPT !.holds = FALSE]]
        BY <3>3 DEF WorkEnds
      <4> QED
        BY <2>2, <4>1, <4>2 DEF Works
    <3>4. ASSUME NEW how \in Ended, Ends(r, how) PROVE Autos' \subseteq Autos
      <4>1. PICK holds \in {FALSE, May("shells")} :
              run' = [run EXCEPT ![r] = [run[r] EXCEPT !.status = how, !.holds = holds]]
        BY <3>4 DEF Ends
      <4>2. [run[r] EXCEPT !.status = how, !.holds = holds].status # "running"
        BY <2>1 DEF RunType, Ended
      <4> QED
        BY <2>2, <4>1, <4>2
    <3>5. ASSUME NEW to \in Columns, AgentMoves(r, to) PROVE Autos' \subseteq Autos
      BY <3>5, AutosKept DEF AgentMoves
    <3> QED
      BY <1>7, <3>1, <3>2, <3>3, <3>4, <3>5
  <2> QED
    BY <1>1, <1>7, <2>3, ChatsElsewhere
<1>8. ASSUME NEW cause \in {"quit", "crash"}, Restart(cause) PROVE CapIsKept'
  <2>1. Autos' \subseteq Autos
    BY <1>8, RestartSound, RunsAreEdges DEF Autos
  <2>2. \A t \in Cards : start'[t].at \notin RoomPoints
    BY <1>8 DEF Restart, NoStart, RoomPoints
  <2> QED
    BY <2>1, <2>2, CapStands
<1>9. CASE UNCHANGED vars
  BY <1>2, <1>9 DEF vars, boardVars, startVars
<1> QED
  BY <1>3, <1>4, <1>5, <1>6, <1>7, <1>8, <1>9 DEF Next

\* The cap is kept at first.
LEMMA CapStarts == Init => CapIsKept
<1> SUFFICES ASSUME Init PROVE CapIsKept
  OBVIOUS
<1>1. Autos = {}
  BY RunsAreEdges DEF Init, BoardInit, NoRun, Autos, Works
<1>2. \A t \in Cards : start[t].at = "idle"
  BY DEF Init, StartsInit, NoStart
<1> QED
  BY <1>1, <1>2, FS_EmptySet, BoardAssumption DEF CapIsKept

\* On a calm board the runs the autopilot set going never pass the project's
\* cap, for any cap and any number of cards, whatever people start, continue
\* and stop beside them: every start counts again where no other start can
\* come between (TaskRunsService.perProject).
THEOREM CapIsNeverPassed ==
  ASSUME Calm
  PROVE  Spec => []CapHeld
<1>1. Init => RowsAreTyped /\ ChainIsSound /\ CardsAreSound /\ CapIsKept
  BY InitTyped, ChainStarts, CardsStart, CapStarts
<1>2. RowsAreTyped /\ ChainIsSound /\ CardsAreSound /\ CapIsKept /\ [Next]_vars
        => (RowsAreTyped /\ ChainIsSound /\ CardsAreSound /\ CapIsKept)'
  BY Calm, RowsStayTyped, ChainStays, CardsStaySound, CapStays
<1>3. CapIsKept => CapHeld
  BY DEF CapIsKept, CapHeld, Autos, Works
<1> QED
  BY <1>1, <1>2, <1>3, PTL DEF Spec

-----------------------------------------------------------------------------
(* Held cards                                                               *)

\* A stop on its way to the card: its run is cancelled, the end of it is
\* still being heard, and whatever hears the end stamps the card before it
\* moves it.
Stopping(t) ==
  /\ ~Starting(t) /\ card[t].column = "in_progress" /\ run[Edge(t)].status = "cancelled"
  /\ \A h \in handlers : h.of[1] = t /\ h.kind \in {"ended", "reconcile"} =>
       h.of = Edge(t) /\ h.how = "cancelled" /\ (h.at = "read" \/ (h.at = "stamp" /\ Worked(h)))
  /\ \E h \in handlers : h.of[1] = t /\ h.kind = "ended"
  /\ \A h \in handlers : h.of[1] = t => h.kind # "deleted"

\* A card that waits for a person is stamped, or about to be; a start in
\* flight for it is the autopilot's, which the stamp turns away.
HoldIsSound(t) ==
  held[t] =>
    /\ card[t].stopped # "no" \/ Stopping(t)
    /\ Starting(t) => start[t].auto /\ start[t].at \in {"read", "judge"}
    /\ start[t].at = "judge" => start[t].stopped # "no"

HoldsAreSound == \A t \in Cards : HoldIsSound(t)

\* The cards a step leaves alone keep their holds sound.
LEMMA OtherCardsHold ==
  ASSUME RowsAreTyped, RowsAreTyped', HoldsAreSound, NEW t \in Cards, Elsewhere(t)
  PROVE  \A u \in Cards \ {t} : HoldIsSound(u)'
<1> SUFFICES ASSUME NEW u \in Cards \ {t} PROVE HoldIsSound(u)'
  OBVIOUS
<1>1. start'[u] = start[u] /\ card'[u] = card[u] /\ held'[u] = held[u]
  BY DEF Elsewhere
<1>2. \A i \in 0 .. Threads : run'[<<u, i>>] = run[<<u, i>>]
  BY DEF Elsewhere
<1>3. \A h \in handlers' : h.of[1] = u => h \in handlers
  BY DEF Elsewhere, RowsAreTyped
<1>4. \A h \in handlers : h.of[1] = u => h \in handlers'
  BY DEF Elsewhere, RowsAreTyped
<1>5. Edge(u)' = Edge(u) /\ run'[Edge(u)] = run[Edge(u)]
  BY <1>1, <1>2, EdgesAre DEF Edge, CardType
<1>6. Stopping(u) => Stopping(u)'
  BY <1>1, <1>3, <1>4, <1>5 DEF Stopping, Starting, Worked
<1> QED
  BY <1>1, <1>6 DEF HoldsAreSound, HoldIsSound, Starting

\* A start in flight meets no stop that is still on its way.
LEMMA StartStepsHold ==
  ASSUME RowsAreTyped, NEW t \in Cards, HoldIsSound(t),
         \/ ReadCard(t) \/ JudgeRun(t) \/ CountRuns(t) \/ Reserve(t) \/ Choose(t)
         \/ Link(t) \/ Send(t) \/ Unlink(t) \/ GiveBack(t) \/ Discard(t) \/ ClearStamp(t)
  PROVE  HoldIsSound(t)'
<1> USE DEF boardVars
<1> SUFFICES ASSUME held'[t]
             PROVE  /\ card'[t].stopped # "no"
                    /\ Starting(t)' => start'[t].auto /\ start'[t].at \in {"read", "judge"}
                    /\ start'[t].at = "judge" => start'[t].stopped # "no"
  BY DEF HoldIsSound
<1>1. held' = held
  BY DEF ReadCard, JudgeRun, CountRuns, Reserve, Choose, Link, Send, Unlink, GiveBack, Discard, ClearStamp
<1>2. Starting(t)
  BY DEF Starting, At, ReadCard, JudgeRun, CountRuns, Reserve, Choose, Link, Send, Unlink, GiveBack, Discard, ClearStamp
<1>3. /\ card[t].stopped # "no" /\ start[t].auto /\ start[t].at \in {"read", "judge"}
      /\ start[t].at = "judge" => start[t].stopped # "no"
  BY <1>1, <1>2 DEF HoldIsSound, Stopping
<1>4. CASE ReadCard(t)
  <2>1. start'[t] = [start[t] EXCEPT !.at = "judge", !.found = card[t].run, !.stopped = card[t].stopped]
    BY <1>4 DEF ReadCard, RowsAreTyped
  <2>2. start'[t].at = "judge" /\ start'[t].auto = start[t].auto /\ start'[t].stopped = card[t].stopped
    BY <2>1, EdgesAre DEF StartType
  <2> QED
    BY <1>3, <1>4, <2>2 DEF ReadCard
<1>5. CASE JudgeRun(t)
  <2>1. Refused(t, {}) /\ card' = card
    BY <1>3, <1>5 DEF JudgeRun, At
  <2>2. start'[t].at = "idle"
    BY <2>1, RefusedStart DEF Refused
  <2> QED
    BY <1>3, <2>1, <2>2 DEF Starting
<1> QED
  BY <1>3, <1>4, <1>5 DEF At, CountRuns, Reserve, Choose, Link, Send, Unlink, GiveBack, Discard, ClearStamp

\* Whatever hears the end of a stopped run brings the stamp nearer.
LEMMA HandlerStepsHold ==
  ASSUME RowsAreTyped, RowsAreTyped', NEW h \in handlers, CardIsSound(h.of[1]), HoldIsSound(h.of[1]),
         \/ SettleReads(h) \/ SettleStamps(h) \/ SettleMoves(h) \/ FollowReads(h) \/ FollowMoves(h)
         \/ ReleaseReads(h) \/ ReleaseUnlinks(h) \/ Finishes(h) \/ Rechecks(h) \/ OwedReconcile(h)
  PROVE  HoldIsSound(h.of[1])'
<1> USE DEF startVars
<1> DEFINE t == h.of[1]
<1>1. t \in Cards /\ h \in HandlerType /\ h.of \in Edges /\ h.of = <<t, h.of[2]>> /\ card[t] \in CardType
  BY HandlerIsOf, EdgesAre
<1>2. UNCHANGED <<start, run, held>>
  BY HandlerStepsElsewhere
<1>3. card[t].stopped # "no" => card'[t].stopped # "no"
  <2>1. CASE SettleStamps(h)
    BY <1>1, <2>1 DEF SettleStamps, RowsAreTyped, CardType
  <2>2. CASE ReleaseUnlinks(h)
    BY <1>1, <2>2 DEF ReleaseUnlinks, RowsAreTyped, CardType
  <2>3. CASE SettleMoves(h)
    <3>1. h.saw \in Columns
      BY <2>3 DEF SettleMoves, RowsAreTyped
    <3> QED
      BY <1>1, <2>3, <3>1, MovedTyped DEF SettleMoves
  <2>4. CASE FollowMoves(h)
    BY <1>1, <2>4, MovedTyped DEF FollowMoves, Columns
  <2>5. CASE ~SettleStamps(h) /\ ~ReleaseUnlinks(h) /\ ~SettleMoves(h) /\ ~FollowMoves(h)
    BY <2>5 DEF SettleReads, FollowReads, ReleaseReads, Finishes, Rechecks, OwedReconcile
  <2> QED
    BY <2>1, <2>2, <2>3, <2>4, <2>5
<1>4. ASSUME Stopping(t) PROVE card'[t].stopped # "no" \/ Stopping(t)'
  <2>1. /\ h.kind # "deleted"
        /\ h.kind \in {"ended", "reconcile"} =>
             h.of = Edge(t) /\ h.how = "cancelled" /\ (h.at = "read" \/ (h.at = "stamp" /\ Worked(h)))
    BY <1>4 DEF Stopping
  <2>2. CASE SettleReads(h)
    <3> DEFINE next == [h EXCEPT !.at = "stamp", !.saw = card[t].column]
    <3>1. h.of = Edge(t) /\ h.how = "cancelled" /\ h.kind \in {"ended", "reconcile"}
      BY <2>1, <2>2 DEF SettleReads
    <3>2. Names(h) /\ ~Starting(t)
      <4>1. run[h.of].status = "cancelled" /\ ~Starting(t)
        BY <1>4, <3>1 DEF Stopping
      <4>2. card[t].run # 0
        BY <3>1, <4>1 DEF CardIsSound, Edge
      <4>3. card[t].run = h.of[2]
        BY <3>1 DEF Edge
      <4> QED
        BY <4>1, <4>2, <4>3 DEF Names, Exists, NamedBy
    <3>3. handlers' = (handlers \ {h}) \union {next} /\ card' = card
      BY <2>2, <3>2 DEF SettleReads, GoesOn, GoesOnTo
    <3>4. /\ next.of = h.of /\ next.how = h.how /\ next.kind = h.kind /\ next.at = "stamp"
          /\ next.saw = "in_progress"
      BY <1>1, <1>4 DEF HandlerType, Stopping
    <3> HIDE DEF next
    <3>5. \A g \in handlers' : g.of[1] = t /\ g.kind \in {"ended", "reconcile"} =>
            g.of = Edge(t) /\ g.how = "cancelled" /\ (g.at = "read" \/ (g.at = "stamp" /\ Worked(g)))
      BY <1>4, <3>1, <3>3, <3>4 DEF Stopping, Worked
    <3>6. \E g \in handlers' : g.of[1] = t /\ g.kind = "ended"
      BY <1>4, <3>3, <3>4 DEF Stopping
    <3>7. \A g \in handlers' : g.of[1] = t => g.kind # "deleted"
      BY <1>4, <3>1, <3>3, <3>4 DEF Stopping
    <3> QED
      BY <1>2, <1>4, <3>3, <3>5, <3>6, <3>7 DEF Stopping, Starting, Edge, Worked
  <2>3. CASE SettleStamps(h)
    <3>1. Worked(h) /\ h.how = "cancelled"
      BY <2>1, <2>3 DEF SettleStamps
    <3>2. card' = [card EXCEPT ![t].stopped = "user"]
      BY <2>3, <3>1 DEF SettleStamps, Interrupted
    <3> QED
      BY <1>1, <3>2 DEF RowsAreTyped, CardType
  <2>4. CASE SettleMoves(h)
    BY <2>1, <2>4 DEF SettleMoves
  <2>5. CASE ReleaseReads(h) \/ ReleaseUnlinks(h)
    BY <2>1, <2>5 DEF ReleaseReads, ReleaseUnlinks
  <2>6. ASSUME h.kind \notin {"ended", "reconcile", "deleted"}, card' = card,
               \A g \in handlers \ {h} : g \in handlers',
               \A g \in handlers' : g.of[1] = t /\ g \notin handlers =>
                 /\ g.kind # "deleted"
                 /\ g.kind \in {"ended", "reconcile"} => g.of = Edge(t) /\ g.how = "cancelled" /\ g.at = "read"
        PROVE  Stopping(t)'
    <3>1. \A g \in handlers' : g.of[1] = t /\ g.kind \in {"ended", "reconcile"} =>
            g.of = Edge(t) /\ g.how = "cancelled" /\ (g.at = "read" \/ (g.at = "stamp" /\ Worked(g)))
      BY <1>4, <2>6 DEF Stopping
    <3>2. \E g \in handlers' : g.of[1] = t /\ g.kind = "ended"
      BY <1>4, <2>6 DEF Stopping
    <3>3. \A g \in handlers' : g.of[1] = t => g.kind # "deleted"
      BY <1>4, <2>6 DEF Stopping
    <3> QED
      BY <1>2, <1>4, <2>6, <3>1, <3>2, <3>3 DEF Stopping, Starting, Edge, Worked
  <2>7. CASE FollowReads(h)
    <3>1. h.kind = "working" /\ card' = card /\ Dropped(h)
      BY <1>4, <2>7 DEF FollowReads, Stopping
    <3> QED
      BY <2>6, <3>1 DEF Dropped
  <2>8. CASE FollowMoves(h)
    <3>1. h.kind = "working" /\ card' = card /\ Dropped(h)
      BY <1>4, <2>8 DEF FollowMoves, Stopping
    <3> QED
      BY <2>6, <3>1 DEF Dropped
  <2>9. CASE Finishes(h) \/ Rechecks(h)
    <3>1. h.kind \in {"finish", "recheck"} /\ card' = card /\ Dropped(h)
      BY <2>9 DEF Finishes, Rechecks
    <3> QED
      BY <2>6, <3>1 DEF Dropped
  <2>10. CASE OwedReconcile(h)
    <3> DEFINE next == Handler("reconcile", Edge(t), run[Edge(t)].status)
    <3>1. h.kind = "owed" /\ card' = card /\ handlers' = (handlers \ {h}) \union {next}
      BY <1>4, <2>10 DEF OwedReconcile, Stopping, Ended
    <3>2. /\ next.kind = "reconcile" /\ next.of = Edge(t) /\ next.how = "cancelled" /\ next.at = "read"
      BY <1>4 DEF Handler, Stopping
    <3> HIDE DEF next
    <3> QED
      BY <2>6, <3>1, <3>2
  <2> QED
    BY <2>2, <2>3, <2>4, <2>5, <2>7, <2>8, <2>9, <2>10
<1> QED
  BY <1>2, <1>3, <1>4 DEF HoldIsSound, Starting

\* A person who acts on a card takes it back, and the autopilot's claim of a
\* held card is one the stamp will turn away.
LEMMA ActsHold ==
  ASSUME RowsAreTyped, RowsAreTyped', Calm, NEW t \in Cards, HoldIsSound(t),
         PostStart(t) \/ PressRun(t) \/ LoadBoard(t) \/ \E to \in Columns : Drag(t, to)
  PROVE  HoldIsSound(t)'
<1> USE DEF boardVars, startVars
<1>1. CASE PressRun(t) \/ \E to \in Columns : Drag(t, to)
  <2>1. held'[t] = FALSE
    BY <1>1 DEF PressRun, Drag, Seen, RowsAreTyped
  <2> QED
    BY <2>1 DEF HoldIsSound
<1>2. CASE PostStart(t)
  <2>1. UNCHANGED <<card, run, handlers, held>>
    BY <1>2 DEF PostStart
  <2>2. CASE UNCHANGED start
    BY <2>1, <2>2 DEF HoldIsSound, Stopping, Starting, Edge, Worked
  <2>3. CASE Claim(t, TRUE, Intake) /\ Settled(t)
    <3>1. start'[t].at = "read" /\ start'[t].auto = TRUE
      BY <2>3, ClaimGoes DEF StartsOnly
    <3>2. ~Stopping(t)
      BY <2>3, SettledCards DEF Stopping
    <3> QED
      BY <2>1, <3>1, <3>2 DEF HoldIsSound, Starting
  <2> QED
    BY <1>2, <2>2, <2>3 DEF PostStart
<1>3. CASE LoadBoard(t)
  <2> DEFINE next == Handler("reconcile", Edge(t), run[Edge(t)].status)
  <2>1. UNCHANGED <<card, run, start, held>> /\ handlers' = handlers \union {next}
    BY <1>3 DEF LoadBoard
  <2>2. next.kind = "reconcile" /\ next.of = Edge(t) /\ next.how = run[Edge(t)].status /\ next.at = "read"
    BY DEF Handler
  <2> HIDE DEF next
  <2>3. ASSUME Stopping(t) PROVE Stopping(t)'
    <3>1. \A g \in handlers' : g.of[1] = t /\ g.kind \in {"ended", "reconcile"} =>
            g.of = Edge(t) /\ g.how = "cancelled" /\ (g.at = "read" \/ (g.at = "stamp" /\ Worked(g)))
      BY <2>1, <2>2, <2>3 DEF Stopping
    <3>2. \E g \in handlers' : g.of[1] = t /\ g.kind = "ended"
      BY <2>1, <2>3 DEF Stopping
    <3>3. \A g \in handlers' : g.of[1] = t => g.kind # "deleted"
      BY <2>1, <2>2, <2>3 DEF Stopping
    <3> QED
      BY <2>1, <2>3, <3>1, <3>2, <3>3 DEF Stopping, Starting, Edge, Worked
  <2> QED
    BY <2>1, <2>3 DEF HoldIsSound, Starting
<1> QED
  BY <1>1, <1>2, <1>3

\* A stop holds the card it found at work, and nobody works in the chat of a
\* card whose stop is on its way.
LEMMA ChatsHold ==
  ASSUME RowsAreTyped, RowsAreTyped', Calm, NEW r \in Runs, CardIsSound(r[1]), HoldIsSound(r[1]),
         FollowUp(r) \/ DeleteChat(r) \/ WorkEnds(r) \/ (\E how \in Ended : Ends(r, how))
           \/ \E to \in Columns : AgentMoves(r, to)
  PROVE  HoldIsSound(r[1])'
<1> USE DEF boardVars, startVars
<1> DEFINE t == r[1]
<1>1. t \in Cards /\ r \in Edges /\ r = <<t, r[2]>> /\ r[2] \in 1 .. Threads /\ r[2] # 0 /\ run[r] \in RunType
  BY RunsAreEdges, BoardAssumption DEF Runs, RowsAreTyped
<1>2. start' = start
  BY ChatsElsewhere
<1>3. Edge(t) \in Edges
  BY <1>1, EdgesAre
<1>4. Works(r) => card[t].run = r[2] /\ Edge(t) = r
  BY <1>1 DEF CardIsSound, Edge
<1>5. Works(r) => ~Stopping(t)
  BY <1>4 DEF Stopping, Works
<1>6. CASE FollowUp(r) \/ DeleteChat(r)
  <2>1. held'[t] = FALSE
    BY <1>1, <1>6 DEF FollowUp, DeleteChat, Seen, RowsAreTyped
  <2> QED
    BY <2>1 DEF HoldIsSound
<1>7. CASE WorkEnds(r)
  <2>1. card' = card /\ held' = held
    BY <1>7 DEF WorkEnds
  <2>2. [run[r] EXCEPT !.holds = FALSE].status = run[r].status
    BY <1>1 DEF RunType
  <2>3. run'[Edge(t)].status = run[Edge(t)].status
    BY <1>1, <1>3, <1>7, <2>2 DEF WorkEnds, RowsAreTyped
  <2>4. Handler("recheck", r, "none").kind = "recheck"
    BY DEF Handler
  <2>5. \A g \in handlers : g \in handlers'
    BY <1>7 DEF WorkEnds
  <2>6. \A g \in handlers' : g \in handlers \/ g.kind = "recheck"
    BY <1>7, <2>4 DEF WorkEnds
  <2>7. Stopping(t) => Stopping(t)'
    BY <1>2, <2>1, <2>3, <2>5, <2>6 DEF Stopping, Starting, Edge, Worked
  <2> QED
    BY <1>2, <2>1, <2>7 DEF HoldIsSound, Starting
<1>8. ASSUME NEW how \in Ended, Ends(r, how) PROVE HoldIsSound(t)'
  <2>1. Works(r) /\ card' = card
    BY <1>8 DEF Ends, Works
  <2>2. held'[t] => held[t] \/ (how = "cancelled" /\ NamedBy(r) /\ card[t].column = "in_progress")
    BY <1>1, <1>8 DEF Ends, RowsAreTyped
  <2>3. CASE held[t]
    BY <1>2, <1>5, <2>1, <2>3 DEF HoldIsSound, Starting
  <2>4. CASE how = "cancelled" /\ card[t].column = "in_progress"
    <3>1. ~Starting(t) /\ \A g \in handlers : g.of[1] = t => g.kind \notin {"ended", "deleted", "reconcile"}
      BY <1>8, <2>4, SettledCards DEF Ends
    <3>2. \E holds : run' = [run EXCEPT ![r] = [run[r] EXCEPT !.status = how, !.holds = holds]]
      BY <1>8 DEF Ends
    <3>3. \A holds : [run[r] EXCEPT !.status = how, !.holds = holds].status = how
      BY <1>1 DEF RunType
    <3>4. run'[Edge(t)].status = "cancelled"
      BY <1>1, <1>4, <2>1, <2>4, <3>2, <3>3 DEF RowsAreTyped
    <3>5. handlers' = handlers \union Broadcast("ended", r, how)
      BY <1>8 DEF Ends
    <3>6. /\ Handler("ended", r, how) \in Broadcast("ended", r, how)
          /\ Handler("ended", r, how).kind = "ended" /\ Handler("ended", r, how).of = r
      BY DEF Broadcast, Handler
    <3>7. \A g \in Broadcast("ended", r, how) :
            g.at = "read" /\ g.of = r /\ (g.kind = "recheck" \/ (g.kind = "ended" /\ g.how = how))
      BY <1>1, BroadcastTyped
    <3>8. \A g \in handlers' : g.of[1] = t /\ g.kind \in {"ended", "reconcile"} =>
            g.of = Edge(t) /\ g.how = "cancelled" /\ g.at = "read"
      BY <1>4, <2>1, <2>4, <3>1, <3>5, <3>7
    <3>9. \E g \in handlers' : g.of[1] = t /\ g.kind = "ended"
      BY <3>5, <3>6
    <3>10. \A g \in handlers' : g.of[1] = t => g.kind # "deleted"
      BY <3>1, <3>5, <3>7
    <3>11. Stopping(t)'
      BY <1>2, <2>1, <2>4, <3>1, <3>4, <3>8, <3>9, <3>10 DEF Stopping, Starting, Edge
    <3> QED
      BY <1>2, <3>1, <3>11 DEF HoldIsSound, Starting
  <2> QED
    BY <2>2, <2>3, <2>4 DEF HoldIsSound
<1>9. ASSUME NEW to \in Columns, AgentMoves(r, to) PROVE HoldIsSound(t)'
  <2>1. Works(r) /\ held' = held /\ card'[t].stopped = card[t].stopped
    BY <1>1, <1>9, MovedTyped DEF AgentMoves, Works
  <2> QED
    BY <1>2, <1>5, <2>1 DEF HoldIsSound, Starting
<1> QED
  BY <1>6, <1>7, <1>8, <1>9

\* The boot stamps every card it finds stopped, and with a crash every card
\* it finds at work.
LEMMA RestartHolds ==
  ASSUME RowsAreTyped, CardsAreSound, HoldsAreSound, NEW cause \in {"quit", "crash"}, Restart(cause)
  PROVE  HoldsAreSound'
<1> SUFFICES ASSUME NEW t \in Cards, held'[t]
             PROVE  card'[t].stopped # "no" /\ start'[t].at = "idle"
  BY DEF HoldsAreSound, HoldIsSound, Starting
<1>1. start'[t].at = "idle"
  BY DEF Restart, NoStart
<1>2. card[t] \in CardType /\ Edge(t) \in Edges /\ run[Edge(t)] \in RunType
  BY EdgesAre
<1>3. card'[t] = SettledAtBoot(run', t)
  BY DEF Restart
<1>4. run'[Edge(t)] = IF run[Edge(t)].status = "running"
                      THEN [run[Edge(t)] EXCEPT !.status = "failed", !.cut = cause, !.holds = FALSE]
                      ELSE [run[Edge(t)] EXCEPT !.holds = FALSE]
  BY <1>2 DEF Restart, Cut
<1>5. \A to, stop : [card[t] EXCEPT !.column = to, !.stopped = stop].stopped = stop
  BY <1>2 DEF CardType
<1>6. CASE card[t].stopped # "no"
  BY <1>1, <1>3, <1>5, <1>6 DEF SettledAtBoot
<1>7. CASE Stopping(t)
  <2>1. card[t].column = "in_progress" /\ run[Edge(t)].status = "cancelled"
    BY <1>7 DEF Stopping
  <2>2. run'[Edge(t)].status = "cancelled"
    BY <1>2, <1>4, <2>1 DEF RunType
  <2> QED
    BY <1>1, <1>3, <1>5, <2>1, <2>2 DEF SettledAtBoot
<1>8. CASE cause = "crash" /\ card[t].column = "in_progress" /\ run[Edge(t)].status = "running"
  <2>1. run'[Edge(t)].status = "failed" /\ run'[Edge(t)].cut = "crash"
    BY <1>2, <1>4, <1>8 DEF RunType
  <2> QED
    BY <1>1, <1>3, <1>5, <1>8, <2>1 DEF SettledAtBoot
<1> QED
  BY <1>6, <1>7, <1>8 DEF Restart, HoldsAreSound, HoldIsSound

\* Every step in calm weather keeps the holds sound.
LEMMA HoldsStaySound ==
  Calm /\ RowsAreTyped /\ CardsAreSound /\ HoldsAreSound /\ [Next]_vars => HoldsAreSound'
<1> SUFFICES ASSUME Calm, RowsAreTyped, CardsAreSound, HoldsAreSound, [Next]_vars PROVE HoldsAreSound'
  OBVIOUS
<1>1. RowsAreTyped'
  BY RowsStayTyped
<1>2. ASSUME NEW t \in Cards, Elsewhere(t), HoldIsSound(t)' PROVE HoldsAreSound'
  BY <1>1, <1>2, OtherCardsHold DEF HoldsAreSound
<1>3. \A t \in Cards : CardIsSound(t) /\ HoldIsSound(t)
  BY DEF CardsAreSound, HoldsAreSound
<1>4. CASE UNCHANGED <<card, run, handlers, start, held>>
  BY <1>4 DEF HoldsAreSound, HoldIsSound, Stopping, Starting, Edge, Worked
<1>5. CASE StartStep
  <2>1. PICK t \in Cards :
          \/ ReadCard(t) \/ JudgeRun(t) \/ CountRuns(t) \/ Reserve(t) \/ Choose(t)
          \/ Link(t) \/ Send(t) \/ Unlink(t) \/ GiveBack(t) \/ Discard(t) \/ ClearStamp(t)
    BY <1>5 DEF StartStep
  <2>2. Elsewhere(t) /\ HoldIsSound(t)'
    BY <1>3, <2>1, StartStepsElsewhere, StartStepsHold
  <2> QED
    BY <1>2, <2>2
<1>6. CASE HandlerStep
  <2>1. PICK h \in handlers :
          \/ SettleReads(h) \/ SettleStamps(h) \/ SettleMoves(h) \/ FollowReads(h) \/ FollowMoves(h)
          \/ ReleaseReads(h) \/ ReleaseUnlinks(h) \/ Finishes(h) \/ Rechecks(h) \/ OwedReconcile(h)
    BY <1>6 DEF HandlerStep
  <2>2. h.of[1] \in Cards
    BY HandlerIsOf
  <2>3. Elsewhere(h.of[1]) /\ HoldIsSound(h.of[1])'
    BY <1>1, <1>3, <2>1, <2>2, HandlerStepsElsewhere, HandlerStepsHold
  <2> QED
    BY <1>2, <2>2, <2>3
<1>7. CASE ReadQueue
  BY <1>4, <1>7 DEF ReadQueue, boardVars
<1>8. ASSUME NEW t \in Cards, PostStart(t) \/ PressRun(t) \/ LoadBoard(t) \/ \E to \in Columns : Drag(t, to)
      PROVE  HoldsAreSound'
  <2>1. Elsewhere(t) /\ HoldIsSound(t)'
    BY <1>1, <1>3, <1>8, ActsElsewhere, ActsHold
  <2> QED
    BY <1>2, <2>1
<1>9. ASSUME NEW r \in Runs,
             FollowUp(r) \/ DeleteChat(r) \/ WorkEnds(r) \/ (\E how \in Ended : Ends(r, how))
               \/ \E to \in Columns : AgentMoves(r, to)
      PROVE  HoldsAreSound'
  <2>1. r[1] \in Cards
    BY DEF Runs
  <2>2. Elsewhere(r[1]) /\ HoldIsSound(r[1])'
    BY <1>1, <1>3, <1>9, <2>1, ChatsElsewhere, ChatsHold
  <2> QED
    BY <1>2, <2>1, <2>2
<1>10. CASE \E cause \in {"quit", "crash"} : Restart(cause)
  BY <1>10, RestartHolds
<1>11. CASE UNCHANGED vars
  BY <1>4, <1>11 DEF vars, boardVars, startVars
<1> QED
  BY <1>5, <1>6, <1>7, <1>8, <1>9, <1>10, <1>11 DEF Next

\* Nothing is held at first.
LEMMA HoldsStart == Init => HoldsAreSound
BY DEF Init, BoardInit, HoldsAreSound, HoldIsSound

\* On a calm board a card a person stopped, or that was at work when the
\* daemon crashed, is not put to work by the autopilot until a person has
\* acted on it: the stop is stamped on the card before the card goes back to
\* the intake (TaskSettleService.settle), and a start that read the card
\* before the stamp cannot be in flight.
THEOREM HeldCardsAreNotStarted ==
  ASSUME Calm
  PROVE  Spec => HeldCardsWait
<1>1. Init => RowsAreTyped /\ CardsAreSound /\ HoldsAreSound
  BY InitTyped, CardsStart, HoldsStart
<1>2. RowsAreTyped /\ CardsAreSound /\ HoldsAreSound /\ [Next]_vars
        => (RowsAreTyped /\ CardsAreSound /\ HoldsAreSound)'
  BY Calm, RowsStayTyped, CardsStaySound, HoldsStaySound
<1>3. HoldsAreSound =>
        \A t \in Cards : (start[t].auto /\ At(t, "reserve") /\ start'[t].at = "choose") => ~held[t]
  BY DEF HoldsAreSound, HoldIsSound, At, Starting
<1> QED
  BY <1>1, <1>2, <1>3, PTL DEF Spec, HeldCardsWait
=============================================================================
