----------------------------- MODULE CallBroker -----------------------------
(***************************************************************************)
(* Calls between the agents of a team's run: CallBroker, with the turns    *)
(* TeamExecutor gives the callees and the lead. An action is one callback  *)
(* of the event loop, with the promise reactions it sets off.              *)
(***************************************************************************)
EXTENDS CallBook

CONSTANTS
  MaxDepth,   \* MAX_CALL_DEPTH, smaller
  Weathers    \* what behaviours include, see the README

ASSUME DepthAssumption == MaxDepth \in Nat \ {0}

VARIABLES run, weather
vars == <<run, weather>>

Init == run = NewRun /\ weather \in Weathers

\* Every step keeps to the bound of the model.
Becomes(s) == s.made <= MaxCalls /\ run' = s /\ UNCHANGED weather

\* An agent makes one request at a time, unless it makes them in parallel.
Attends(k) == "wide" \in weather \/ \A w \in Requests : run.wait[w].how = "none" \/ run.wait[w].of # k
Working(k) ==
  /\ Attends(k)
  /\ IF k = Lead THEN run.lead = "turn"
     ELSE \E c \in CallsOn(run, k) : run.call[c].stage = "turn"
Free(w) == run.wait[w] = NoWait
Owns(k, c) == run.call[c].owner = k /\ run.call[c].stage # "unmade"
Waits(s, w, k, how, on) == [s EXCEPT !.wait[w] = [of |-> k, how |-> how, on |-> on]]
At(s, c, stage) == [s EXCEPT !.call[c].stage = stage]

\* The first question of k's that no wait has shown it, or 0.
Unseen(s, k, c) ==
  LET fresh == {d \in AskedOf(s, k) \ {c} : ~s.call[d].seen}
  IN  IF fresh = {} THEN 0 ELSE Min(fresh)

-----------------------------------------------------------------------------
(* The tools of a working agent.                                            *)

\* A settled conversation of k's that may be called again.
MayContinue(k, t) ==
  /\ "threads" \in weather
  /\ CallsOn(run, t) = {} /\ Resumable(run, t)
  /\ \E c \in Calls : Owns(k, c) /\ run.call[c].conv = t

\* A sync call waits, unless another question of its caller's is still unseen.
SyncWaits(s, w, k, c) ==
  LET q == Unseen(s, k, c) IN
  IF q # 0 THEN Seen(Collectable(s, {c}), q) ELSE Waits(s, w, k, "sync", {c})

\* The bound on the calls of one caller open at once.
Room(k) ==
  Cardinality({c \in Active(run) : Owns(k, c)}) < IF "wide" \in weather THEN 2 ELSE 1

CallAgent(k) ==
  /\ ~run.over /\ Room(k)
  /\ Depth(run, k) < IF "deep" \in weather THEN MaxDepth ELSE 1
  /\ \E t \in {Lead} \union {c \in Calls : MayContinue(k, c)},
        stage \in {"turn"} \union ({"queued"} \intersect weather) :
       \/ \E mode \in {"async", "fire"} \intersect weather :
            Becomes(Opened(run, k, t, mode, stage))
       \/ \E w \in Requests :
            /\ "sync" \in weather /\ Free(w) /\ run.made < MaxCalls
            /\ Becomes(SyncWaits(Opened(run, k, t, "sync", stage), w, k, run.made + 1))

Collected(s, c) == [s EXCEPT !.book[c] = "no", !.heard[c] = @ + 1]

AwaitAgent(k, c) ==
  /\ Owns(k, c) /\ run.book[c] # "no"
  /\ LET q == Unseen(run, k, c) IN
     IF c \notin Active(run) THEN Becomes(Collected(run, c))
     ELSE IF run.call[c].q # "none" THEN Becomes(Seen(run, c))
     ELSE IF q # 0 THEN Becomes(Seen(run, q))
     ELSE \E w \in Requests : Free(w) /\ Becomes(Waits(run, w, k, "one", {c}))

AwaitAny(k) ==
  LET open == {c \in Calls : Owns(k, c) /\ run.book[c] # "no"}
      q == Unseen(run, k, Lead)
      settled == open \ Active(run)
  IN
  /\ open # {}
  /\ IF q # 0 THEN Becomes(Seen(run, q))
     ELSE IF open \subseteq Parked(run) THEN Becomes(run)
     ELSE IF settled # {} THEN Becomes(Collected(run, Min(settled)))
     ELSE \E w \in Requests : Free(w) /\ Becomes(Waits(run, w, k, "any", open))

\* A wait's deadline, the end of its request, or a message of the user.
WaitLetGo(w) ==
  ~Free(w) /\ Becomes(Released(run, {w}))

AnswerAgent(k, c) ==
  /\ Owns(k, c) /\ c \in Parked(run)
  /\ Becomes(Unparked(run, {c}))

\* cancelSubCalls, one level: what the stop of call c stops next.
StopsNext(c) ==
  LET adopted == run.call[c].ended \/ run.call[c].everHeld
  IN  {d \in OpenSubs(run, run.call[c].conv) : adopted \/ run.call[d].madeIn = c}
GoesOnTo(d) == ~run.call[d].failed /\ ~IsFinishedWork(run, d)
StoppedWith(c) ==
  LET reach[n \in 0..MaxDepth] ==
        IF n = 0 THEN StopsNext(c)
        ELSE reach[n - 1] \union UNION {StopsNext(d) : d \in {e \in reach[n - 1] : GoesOnTo(e)}}
  IN  reach[MaxDepth]

CancelAgent(k, c) ==
  /\ "cancel" \in weather
  /\ Owns(k, c) /\ c \in Active(run) /\ ~IsFinishedWork(run, c)
  /\ LET subs == StoppedWith(c)
         gone == {c} \union {d \in subs : GoesOnTo(d)}
         s == Unparked(run, gone)
         t == [s EXCEPT
                !.book = [d \in Calls |-> IF d \in subs /\ @[d] # "no" THEN "told" ELSE @[d]],
                !.call = [d \in Calls |->
                   IF d \in gone THEN [@[d] EXCEPT !.failed = TRUE, !.stopped = TRUE] ELSE @[d]]]
     IN  Becomes(Settling(t, {d \in gone : run.call[d].stage = "held"}))

-----------------------------------------------------------------------------
(* The life of a call.                                                      *)

\* parkQuestion
Park(c) ==
  LET k == run.call[c].owner
      s == Blocked(Rearmed([run EXCEPT !.call[c].q = "put"], {c}), run.call[c].conv)
      t == Collectable(s, {c})
  IN
  /\ run.call[c].stage = "turn" /\ run.call[c].q = "none" /\ Attends(run.call[c].conv)
  /\ Becomes(IF run.call[c].mode = "fire" THEN Orphaned(s, {c})
             ELSE IF Live(t, k) THEN HandedToWaiter(t, c)
             ELSE IF WakeOf(t, k, {c}, {}) = "none" THEN Orphaned(t, {c})
             ELSE Woken(t, k, {c}, {}))

ExpireQuestion(c) ==
  /\ "expire" \in weather
  /\ c \in Parked(run) /\ run.call[c].timed /\ Becomes(FailedParked(run, {c}))

\* The cap of active turns lets a queued call start.
Admit(c) ==
  /\ run.call[c].stage = "queued" /\ ~Stopped(run, c)
  /\ Becomes(At(run, c, "turn"))

\* handle.done: the turn's requests are gone before it is.
TurnDone(c) ==
  LET s == Released(run, {w \in Requests : ~Free(w) /\ run.wait[w].of = run.call[c].conv})
  IN
  /\ run.call[c].stage = "turn"
  /\ Becomes([At(s, c, "finishing") EXCEPT !.call[c].ended = TRUE])

EndCalleeTurn(c) ==
  /\ run.call[c].stage = "finishing"
  /\ Becomes(DrainedCaller(At(run, c, "sweeping"), run.call[c].conv))

\* (mutant) A call is held with a question its callee left unanswered still open.
HeldCall_KeepsAsked(c) ==
  IF OwesHold(run, c) THEN Reviewed([At(run, c, "held") EXCEPT !.call[c].everHeld = TRUE], c)
  ELSE At(run, c, "writing")
\* holdCall
HeldCall(c) ==
  LET t == Orphaned(run, {d \in AskedOf(run, run.call[c].conv) : run.call[d].q = "told"})
  IN  IF OwesHold(t, c) THEN Reviewed([At(t, c, "held") EXCEPT !.call[c].everHeld = TRUE], c)
      ELSE At(t, c, "writing")

\* A completed turn may hold its call; a failed one, or one past
\* MAX_CALL_WAKES, settles.
Swept(c) ==
  /\ run.call[c].stage = "sweeping"
  /\ \/ ~Stopped(run, c) /\ Becomes(HeldCall(c))
     \/ Becomes(At(run, c, "writing"))

\* (mutant) Only the lead is woken for a result.
Noted_LeadOnly(s, c) ==
  IF s.book[c] # "untold" \/ s.call[c].owner # Lead \/ Live(s, Lead) THEN s ELSE Woken(s, Lead, {}, {c})
\* noteCalleeSettling
Noted(s, c) ==
  LET k == s.call[c].owner IN
  IF s.book[c] # "untold" \/ Live(s, k) THEN s ELSE Woken(s, k, {}, {c})

\* Of the waits on a settled call one collects it, and awaitAny goes on with the rest.
WaitsAnswered(s, c, w) ==
  LET on == Listening(s, c)
      sync == {v \in on : s.wait[v].how = "sync"}
      left(v) == {d \in s.wait[v].on \ {c} : s.book[d] # "no"}
      goes == {v \in on \ {w} : s.wait[v].how = "any" /\ ~(left(v) \subseteq Parked(s))}
      t == [s EXCEPT !.wait = [v \in Requests |->
              IF v \in goes THEN [@[v] EXCEPT !.on = left(v)]
              ELSE IF v \in on THEN NoWait ELSE @[v]]]
  IN  IF sync # {} THEN [t EXCEPT !.heard[c] = @ + 1]
      ELSE IF on # {} /\ s.book[c] # "no" THEN Collected(t, c)
      ELSE t

\* The reactions to settled: the row, the caller's hold, the waits, the drain
\* that waited for this call.
Settled(s, c, session, w) ==
  LET old == s.call[c]
      u == Unparked(s, {c})
      t == [u EXCEPT !.call[c] = [NoCall EXCEPT !.stage = "done", !.owner = old.owner, !.conv = old.conv,
                                    !.mode = old.mode, !.depth = old.depth, !.session = session]]
      a == WaitsAnswered(ReviewedIfHeld(t, old.owner), c, w)
  IN  IF old.conv \in a.deferred
      THEN DrainedWhenFree([a EXCEPT !.deferred = @ \ {old.conv}], old.conv)
      ELSE a

Winner(c, w) == w \in Listening(run, c) \/ Listening(run, c) = {}
Sessions == {TRUE} \union (IF "nosession" \in weather THEN {FALSE} ELSE {})

\* The bookkeeping of a call's turn ends, and the promise reactions settle the
\* call. With "backtoback" the next work of the run's chain may run in between.
Write(c) ==
  /\ run.call[c].stage = "writing"
  /\ IF "backtoback" \in weather THEN Becomes(At(Noted(run, c), c, "noted"))
     ELSE \E session \in Sessions, w \in Requests :
            Winner(c, w) /\ Becomes(Settled(Noted(run, c), c, session, w))

Settle(c) ==
  /\ run.call[c].stage = "noted"
  /\ \E session \in Sessions, w \in Requests :
       Winner(c, w) /\ Becomes(Settled(run, c, session, w))

\* A queued call that was stopped returns without a turn.
QueuedStopped(c) ==
  /\ run.call[c].stage = "queued" /\ Stopped(run, c)
  /\ \E w \in Requests : Winner(c, w) /\ Becomes(Settled(run, c, FALSE, w))

\* beginAgentTurn throws: the call settles, and is not noted as settling.
StartFails(c) ==
  /\ "startfail" \in weather
  /\ run.call[c].stage = "turn" /\ \A d \in Calls : run.call[d].madeIn # c
  /\ \E w \in Requests : Winner(c, w) /\
       Becomes(Settled(DrainedCaller(At(run, c, "noted"), run.call[c].conv), c, FALSE, w))

-----------------------------------------------------------------------------
(* The lead's own turns, and the user.                                      *)

LeadDone ==
  LET s == Released(run, {w \in Requests : ~Free(w) /\ run.wait[w].of = Lead})
  IN  run.lead = "turn" /\ Becomes([s EXCEPT !.lead = "finishing"])

EndLeadTurn ==
  run.lead = "finishing" /\ Becomes(DrainedCaller([run EXCEPT !.lead = "idle"], Lead))

\* scheduleOwnTurn: a wake that finds the lead at work is a message into that
\* turn, or waits for its end.
WakeLead ==
  /\ run.wake
  /\ IF run.lead = "idle" /\ ~run.over THEN Becomes([run EXCEPT !.wake = FALSE, !.lead = "turn"])
     ELSE Becomes([run EXCEPT !.wake = FALSE])

\* Nothing works and nothing is on its way: the run finishes, and a message
\* after that is the next pass, with a book of its own.
Quiet == run.lead = "idle" /\ ~run.wake /\ Active(run) = {}

UserWrites ==
  /\ "user" \in weather
  /\ run.lead = "idle" /\ ~run.over /\ ~Quiet /\ Becomes([run EXCEPT !.lead = "turn"])

\* cancel of the run: releaseHolds, and every turn is told to end.
StopRun ==
  /\ "stop" \in weather /\ ~run.over
  /\ Becomes(Settling([run EXCEPT !.over = TRUE],
                      {c \in Calls : run.call[c].stage = "held"}))

AgentActs(k) ==
  /\ Working(k)
  /\ \/ CallAgent(k) \/ AwaitAny(k)
     \/ \E c \in Calls : AwaitAgent(k, c) \/ AnswerAgent(k, c) \/ CancelAgent(k, c)

CallLives(c) ==
  \/ Park(c) \/ ExpireQuestion(c) \/ Admit(c) \/ TurnDone(c)
  \/ Swept(c) \/ Write(c) \/ StartFails(c)

\* Promise reactions under way: before them only the chain's next work runs.
Reacting == \E c \in Calls :
  run.call[c].stage = "noted" \/ (run.call[c].stage = "queued" /\ Stopped(run, c))

Next ==
  \/ \E c \in Calls : Settle(c) \/ QueuedStopped(c) \/ EndCalleeTurn(c)
  \/ EndLeadTurn
  \/ /\ ~Reacting
     /\ \/ \E k \in Convs : AgentActs(k)
        \/ \E c \in Calls : CallLives(c)
        \/ \E w \in Requests : WaitLetGo(w)
        \/ LeadDone \/ WakeLead \/ UserWrites \/ StopRun

Spec == Init /\ [][Next]_vars

-----------------------------------------------------------------------------
(* Properties.                                                              *)

\* The result of a call that somebody is owed is, once the call has settled,
\* either still to collect or was handed over once: never both and never
\* neither, whichever question, deadline or message took the wait away.
ResultsArriveOnce ==
  \A c \in Calls :
    /\ run.heard[c] <= 1
    /\ run.call[c].stage = "done" /\ run.call[c].mode # "fire" =>
         (run.heard[c] = 1) = (run.book[c] = "no")

\* When a run finishes, no agent that could be woken is left with a result it
\* was never told of. A start that throws and a caller that ends between a
\* call's last bookkeeping and its settling are excepted: there the code fails.
NothingIsLeftUntold ==
  Quiet /\ ~run.over /\ weather \intersect {"startfail", "backtoback"} = {} =>
    \A c \in Calls : run.book[c] = "untold" =>
      run.call[c].owner # Lead /\ ~Resumable(run, run.call[c].owner)

\* A held call waits for calls that work: it has one open, and none of them
\* waits for it in turn. And every question will be answered, fail or be put
\* again: its clock runs, or the one who must answer is blocked itself, or is
\* drained as soon as its own call has settled or is held.
HeldCallsWaitForWork ==
  \A c \in Active(run) : run.call[c].stage = "held" =>
    /\ OpenSubs(run, run.call[c].conv) # {}
    /\ AskedOf(run, run.call[c].conv) = {}
QuestionsHaveAClock ==
  \A c \in Parked(run) :
    run.call[c].timed \/ run.call[c].owner \in run.blocked \union run.deferred
NobodyWaitsForNobody == HeldCallsWaitForWork /\ QuestionsHaveAClock
=============================================================================
