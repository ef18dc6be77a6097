------------------------------ MODULE CallBook ------------------------------
(***************************************************************************)
(* What CallBroker keeps of one run: the calls between its agents, the     *)
(* results to collect, the questions callees are blocked on, the tool      *)
(* requests that wait. Every operator is one of its methods, from a state  *)
(* of the book to the next. A conversation is named by the call that began *)
(* it, and Lead is the lead agent's own.                                   *)
(***************************************************************************)
EXTENDS Integers, FiniteSets, FiniteSetsExt

CONSTANTS
  MaxCalls,  \* bound of the model: calls made in a run
  Requests   \* tool requests that may wait at once

ASSUME CallsAssumption == MaxCalls \in Nat \ {0}

Calls == 1..MaxCalls
Lead == 0
Convs == {Lead} \union Calls

Stages == {"unmade", "queued", "turn", "finishing", "sweeping", "held", "writing", "noted", "done"}

NoCall ==
  [stage |-> "unmade", owner |-> Lead, conv |-> Lead, mode |-> "async", madeIn |-> Lead,
   depth |-> 0, q |-> "none", seen |-> FALSE, timed |-> FALSE, failed |-> FALSE,
   stopped |-> FALSE, ended |-> FALSE, everHeld |-> FALSE, session |-> FALSE]
NoWait == [of |-> Lead, how |-> "none", on |-> {}]

\* registerRun: the lead works, nothing is called. heard is history: how often
\* the result of a call was handed to its caller.
NewRun ==
  [call |-> [c \in Calls |-> NoCall], made |-> 0, book |-> [c \in Calls |-> "no"],
   blocked |-> {}, deferred |-> {}, wait |-> [w \in Requests |-> NoWait],
   lead |-> "turn", wake |-> FALSE, over |-> FALSE, heard |-> [c \in Calls |-> 0]]

Active(s) == {c \in Calls : s.call[c].stage \notin {"unmade", "done"}}
CallsOn(s, k) == {c \in Active(s) : s.call[c].conv = k}
HeldOn(s, k) == {c \in CallsOn(s, k) : s.call[c].stage = "held"}
Live(s, k) ==
  IF k = Lead THEN s.lead # "idle"
  ELSE \E c \in CallsOn(s, k) : s.call[c].stage \in {"turn", "finishing"}
Parked(s) == {c \in Active(s) : s.call[c].q # "none"}
AskedOf(s, k) == {c \in Parked(s) : s.call[c].owner = k}
Resumable(s, k) == \E c \in Calls : s.call[c].conv = k /\ s.call[c].session
Stopped(s, c) == s.over \/ s.call[c].stopped
Listening(s, c) == {w \in Requests : c \in s.wait[w].on}

\* A fire-and-forget call holds nothing: nobody collects it.
OpenSubs(s, k) == {c \in Active(s) : s.call[c].owner = k /\ s.call[c].mode # "fire"}
Untold(s, k) ==
  {c \in Calls \ Active(s) : s.call[c].owner = k /\ s.book[c] = "untold"}
OwesHold(s, c) ==
  OpenSubs(s, s.call[c].conv) # {} \/ Untold(s, s.call[c].conv) # {}
IsFinishedWork(s, c) ==
  s.call[c].ended /\ s.call[c].stage # "held" /\ ~OwesHold(s, c)

\* (mutant) A call whose wait is let go stays out of the collectable ones.
Collectable_Never(s, C) == s
Collectable(s, C) ==
  [s EXCEPT !.book = [c \in Calls |-> IF c \in C /\ @[c] = "no" THEN "untold" ELSE @[c]]]
EndedWaits(s, W) ==
  [s EXCEPT !.wait = [w \in Requests |-> IF w \in W THEN NoWait ELSE @[w]]]
\* A wait let go by its deadline, its request or a message of the user.
Released(s, W) ==
  EndedWaits(Collectable(s, UNION {s.wait[w].on : w \in {v \in W : s.wait[v].how = "sync"}}), W)

-----------------------------------------------------------------------------
(* Questions.                                                               *)

\* A question's clock stands while the one who must answer is blocked.
Rearmed(s, C) ==
  [s EXCEPT !.call = [c \in Calls |->
     IF c \in C /\ @[c].q # "none" THEN [@[c] EXCEPT !.timed = s.call[c].owner \notin s.blocked] ELSE @[c]]]

Blocked(s, k) ==
  LET t == [s EXCEPT !.blocked = @ \union {k}]
  IN  IF k \in s.blocked THEN s ELSE Rearmed(t, AskedOf(s, k))

Unparked(s, C) ==
  LET asked == C \intersect Parked(s)
      freed == {s.call[c].conv : c \in asked} \intersect s.blocked
      t == [s EXCEPT !.blocked = @ \ freed,
                     !.call = [c \in Calls |-> IF c \in asked
                        THEN [@[c] EXCEPT !.q = "none", !.seen = FALSE, !.timed = FALSE] ELSE @[c]]]
  IN  Rearmed(t, UNION {AskedOf(t, k) : k \in freed})

FailedParked(s, C) ==
  LET asked == C \intersect Parked(s)
      t == Unparked(s, asked)
  IN  [t EXCEPT !.call = [c \in Calls |-> IF c \in asked THEN [@[c] EXCEPT !.failed = TRUE] ELSE @[c]]]

Orphaned(s, C) ==
  FailedParked([s EXCEPT !.book = [c \in Calls |->
                  IF c \in C /\ @[c] # "no" THEN "told" ELSE @[c]]], C)

Seen(s, c) == Rearmed([s EXCEPT !.call[c].seen = TRUE], {c})

\* A wait on the call itself, else one on any other call of the same caller.
HandedToWaiter(s, c) ==
  LET others == {d \in Active(s) \ {c} : s.call[d].owner = s.call[c].owner /\ Listening(s, d) # {}}
  IN  IF Listening(s, c) # {} THEN Seen(EndedWaits(s, Listening(s, c)), c)
      ELSE IF others # {}
        THEN LET d == Min(others) IN Seen(Collectable(EndedWaits(s, Listening(s, d)), {d}), c)
      ELSE s

-----------------------------------------------------------------------------
(* Waking.                                                                  *)

Told(s, asked, finished) ==
  Rearmed([s EXCEPT !.call = [c \in Calls |-> IF c \in asked THEN [@[c] EXCEPT !.q = "told"] ELSE @[c]],
                    !.book = [c \in Calls |-> IF c \in finished /\ @[c] # "no" THEN "told" ELSE @[c]]],
          asked)

Settling(s, C) ==
  [s EXCEPT !.call = [c \in Calls |-> IF c \in C THEN [@[c] EXCEPT !.stage = "writing"] ELSE @[c]]]

\* followHold: a held call released to a wake goes on in a further turn, unless stopped.
Resumed(s, c) ==
  [s EXCEPT !.call[c].stage = IF Stopped(s, c) THEN "writing" ELSE "turn", !.call[c].ended = FALSE]

Reviewed(s, c) ==
  LET k == s.call[c].conv
      asked == {d \in AskedOf(s, k) \intersect OpenSubs(s, k) : s.call[d].q = "put"}
  IN  IF asked = {} /\ OpenSubs(s, k) # {} THEN s
      ELSE IF asked = {} /\ Untold(s, k) = {} THEN Settling(s, {c})
      ELSE Resumed(Told(s, asked, Untold(s, k)), c)
ReviewedIfHeld(s, k) == IF HeldOn(s, k) = {} THEN s ELSE Reviewed(s, CHOOSE c \in HeldOn(s, k) : TRUE)

\* The call a conversation is making calls from.
MadeIn(s, k) == IF CallsOn(s, k) = {} THEN Lead ELSE Min(CallsOn(s, k))
Depth(s, k) == IF k = Lead THEN 0 ELSE s.call[k].depth

\* openCall. A call past the bound is counted and not recorded.
Opened(s, k, thread, mode, stage) ==
  LET n == s.made + 1
      new == [NoCall EXCEPT !.stage = stage, !.owner = k, !.mode = mode, !.madeIn = MadeIn(s, k),
                            !.conv = IF thread = Lead THEN n ELSE thread, !.depth = Depth(s, k) + 1]
  IN  IF n \notin Calls THEN [s EXCEPT !.made = n]
      ELSE [s EXCEPT !.made = n, !.call[n] = new, !.book[n] = IF mode = "async" THEN "untold" ELSE "no"]

\* What a wake of k comes to: "held", "none" or "deferred" when it starts no turn.
WakeOf(s, k, asked, finished) ==
  IF HeldOn(s, k) # {} THEN "held"
  ELSE IF asked = {} /\ finished = {} THEN "none"
  ELSE IF k # Lead /\ CallsOn(s, k) # {} THEN "deferred"
  ELSE IF s.over \/ (k # Lead /\ ~Resumable(s, k)) THEN "none"
  ELSE "started"

\* startOwnerTurn: a callee's conversation goes on in a new call of its caller.
TurnStarted(s, k) ==
  IF k = Lead THEN [s EXCEPT !.wake = TRUE] ELSE Opened(s, s.call[k].owner, k, "async", "turn")

Deferred(s, k) == [s EXCEPT !.deferred = @ \union {k}]

Woken(s, k, asked, finished) ==
  LET to == WakeOf(s, k, asked, finished)
  IN  IF to = "held" THEN ReviewedIfHeld(s, k)
      ELSE IF to = "deferred" THEN Deferred(s, k)
      ELSE IF to = "started" THEN Told(TurnStarted(s, k), asked, finished)
      ELSE s

\* drainWhenFree: a question asked again of a caller that ended without
\* answering is orphaned, and so is one nobody can be woken for.
DrainedWhenFree(s, k) ==
  LET t == Orphaned(s, {c \in AskedOf(s, k) : s.call[c].q = "told"})
      asked == {c \in AskedOf(t, k) : t.call[c].q = "put"}
  IN  IF CallsOn(s, k) # {} THEN Deferred(s, k)
      ELSE IF WakeOf(t, k, asked, Untold(t, k)) = "none" THEN Orphaned(t, asked)
      ELSE Woken(t, k, asked, Untold(t, k))

DrainedCaller(s, k) == DrainedWhenFree([s EXCEPT !.blocked = @ \ {k}], k)
=============================================================================
