--------------------------- MODULE CallWakeProofs ---------------------------
(***************************************************************************)
(* Nobody waits for nobody, and no result is left untold when a run goes   *)
(* quiet, for any number of calls, waits and levels. The invariant says of *)
(* every question, hold, drain and result who still comes to it; a gentle  *)
(* step, which begins, ends and asks nothing, keeps all of that.           *)
(***************************************************************************)
EXTENDS CallProofs

-----------------------------------------------------------------------------
(* The invariant: what is asked, held, to be drained and to be told.         *)

AfterTurn == {"sweeping", "held", "writing", "noted"}

\* The question of c has a clock, or somebody who will come to it.
Clock(s, c) == s.call[c].timed \/ s.call[c].owner \in s.blocked \union s.deferred

\* A question is asked of somebody who is owed the answer, and has a clock.
AskSound(s, K, X, c) ==
  /\ s.call[c].q \in {"none", "put", "told"}
  /\ c \in Parked(s) => /\ s.call[c].owner \in K \/ Clock(s, c)
                        /\ c \in X \/ s.call[c].mode # "fire"

\* A held call waits for open ones, and nobody waits for its answer.
HoldSound(s, H, c) ==
  s.call[c].stage = "held" =>
    /\ \A d \in AskedOf(s, s.call[c].conv) : s.call[d].q = "put"
    /\ \/ s.call[c].conv \in H
       \/ OpenSubs(s, s.call[c].conv) # {} /\ AskedOf(s, s.call[c].conv) = {}

\* A call past the end of its turn will be drained.
DrainSound(s, K, c) == s.call[c].stage \in AfterTurn => s.call[c].conv \in K \union s.deferred

\* All of it, but for the questions and drains of K, the holds of H, and the
\* calls X that just asked.
Fit(s, K, H, X) ==
  \A c \in Calls : AskSound(s, K, X, c) /\ HoldSound(s, H, c) /\ DrainSound(s, K, c)

AtWork(s, k) ==
  IF k = Lead THEN s.lead = "turn" ELSE \E x \in CallsOn(s, k) : s.call[x].stage = "turn"

\* Whoever is k will hear of its results, or can never be woken again.
WillHear(s, k) ==
  IF k = Lead THEN s.lead # "idle"
  ELSE \/ CallsOn(s, k) # {} /\ (k \in s.deferred \/ \E x \in CallsOn(s, k) : s.call[x].stage \in {"turn", "finishing"})
       \/ CallsOn(s, k) = {} /\ ~Resumable(s, k)

\* A result left to tell has a caller who will hear of it; one that a stop
\* leaves without a turn has a caller at work; and no settling is under way.
HearSound(s, K, c) ==
  s.book[c] = "untold" /\ s.call[c].stage = "done" =>
    s.call[c].owner \in K \/ WillHear(s, s.call[c].owner)
StopSound(s, c) ==
  s.book[c] = "untold" /\ s.call[c].stage = "queued" /\ s.call[c].stopped => AtWork(s, s.call[c].owner)
Heard(s, K) ==
  s.over \/ \A c \in Calls : HearSound(s, K, c) /\ StopSound(s, c) /\ s.call[c].stage # "noted"

\* Calls whose reactions are under way.
Ready(s, c) == s.call[c].stage = "noted" \/ (s.call[c].stage = "queued" /\ s.call[c].stopped)

\* How a stage may go on in a gentle step.
Follows(a, b) == \/ a = b
                 \/ a = "held" /\ b = "turn"
                 \/ a \in {"sweeping", "held"} /\ b = "writing"

\* What a gentle step keeps of a call.
GentleOn(s, t, c) ==
  /\ t.call[c].owner = s.call[c].owner /\ t.call[c].conv = s.call[c].conv /\ t.call[c].mode = s.call[c].mode
  /\ t.call[c].session = s.call[c].session /\ t.call[c].stopped = s.call[c].stopped
  /\ Follows(s.call[c].stage, t.call[c].stage)
  /\ t.book[c] = "untold" => s.book[c] = "untold" \/ (IsOpen(s, c) /\ ~Ready(s, c))
  /\ t.call[c].q \in {"none", "told", s.call[c].q}
  /\ IsOpen(s, c) /\ t.call[c].q # "none" =>
       /\ s.call[c].q # "none" /\ (Clock(s, c) => Clock(t, c))
       /\ t.call[c].q = s.call[c].q \/ HeldOn(t, s.call[c].owner) = {}

\* No call begins or ends, nothing settled is noted anew, and no question is
\* put or loses its clock.
Gentle(s, t) ==
  /\ t.lead = s.lead /\ t.over = s.over /\ s.deferred \subseteq t.deferred
  /\ \A c \in Calls : GentleOn(s, t, c)

\* Where nothing begins or ends, who works on what is as it was.
LEMMA GentleSets ==
  ASSUME NEW s, NEW t, Gentle(s, t), NEW k
  PROVE  /\ Active(t) = Active(s) /\ CallsOn(t, k) = CallsOn(s, k) /\ HeldOn(t, k) \subseteq HeldOn(s, k)
         /\ OpenSubs(t, k) = OpenSubs(s, k) /\ Parked(t) \subseteq Parked(s) /\ AskedOf(t, k) \subseteq AskedOf(s, k)
         /\ Resumable(t, k) <=> Resumable(s, k)
<1>1. Active(t) = Active(s)
  BY DEF Gentle, GentleOn, Follows, Active
<1>2. CallsOn(t, k) = CallsOn(s, k)
  BY <1>1 DEF Gentle, GentleOn, CallsOn, Active
<1>3. HeldOn(t, k) \subseteq HeldOn(s, k)
  BY <1>2 DEF Gentle, GentleOn, HeldOn, CallsOn, Active, Follows
<1>4. OpenSubs(t, k) = OpenSubs(s, k)
  BY <1>1 DEF Gentle, GentleOn, OpenSubs, Active
<1>5. Parked(t) \subseteq Parked(s)
  BY <1>1 DEF Gentle, GentleOn, Parked, Active, IsOpen
<1>6. AskedOf(t, k) \subseteq AskedOf(s, k)
  BY <1>5 DEF Gentle, GentleOn, AskedOf, Parked, Active
<1>7. Resumable(t, k) <=> Resumable(s, k)
  BY DEF Gentle, GentleOn, Resumable
<1> QED
  BY <1>1, <1>2, <1>3, <1>4, <1>5, <1>6, <1>7

\* What is gentle in turn is gentle.
LEMMA GentleInTurn ==
  ASSUME NEW s, NEW t, NEW u, Gentle(s, t), Gentle(t, u)
  PROVE  Gentle(s, u)
<1> SUFFICES ASSUME NEW c \in Calls PROVE GentleOn(s, u, c)
  BY DEF Gentle
<1>1. GentleOn(s, t, c) /\ GentleOn(t, u, c)
  BY DEF Gentle
<1>2. Follows(s.call[c].stage, u.call[c].stage)
  BY <1>1 DEF GentleOn, Follows
<1>3. (IsOpen(t, c) <=> IsOpen(s, c)) /\ (Ready(t, c) <=> Ready(s, c))
  BY <1>1 DEF GentleOn, Follows, IsOpen, Ready
<1>4. HeldOn(t, s.call[c].owner) = {} => HeldOn(u, s.call[c].owner) = {}
  BY GentleSets
<1> QED
  BY <1>1, <1>2, <1>3, <1>4 DEF GentleOn

\* A gentle step leaves questions, holds and drains sound.
LEMMA GentleFit ==
  ASSUME NEW s, NEW t, NEW K, NEW H, NEW X, Fit(s, K, H, X), Gentle(s, t)
  PROVE  Fit(t, K, H, X)
<1> SUFFICES ASSUME NEW c \in Calls PROVE AskSound(t, K, X, c) /\ HoldSound(t, H, c) /\ DrainSound(t, K, c)
  BY DEF Fit
<1>1. AskSound(s, K, X, c) /\ HoldSound(s, H, c) /\ DrainSound(s, K, c) /\ GentleOn(s, t, c)
  BY DEF Fit, Gentle
<1>2. AskSound(t, K, X, c)
  BY <1>1, GentleSets DEF AskSound, GentleOn, Parked, Active, IsOpen
<1>3. HoldSound(t, H, c)
  <2> SUFFICES ASSUME t.call[c].stage = "held" PROVE HoldSound(t, H, c)
    BY DEF HoldSound
  <2> DEFINE k == s.call[c].conv
  <2>1. s.call[c].stage = "held" /\ t.call[c].conv = k
    BY <1>1 DEF GentleOn, Follows
  <2>2. OpenSubs(t, k) = OpenSubs(s, k) /\ AskedOf(t, k) \subseteq AskedOf(s, k)
    BY GentleSets
  <2>3. c \in HeldOn(t, k)
    BY <2>1 DEF HeldOn, CallsOn, Active
  <2>4. ASSUME NEW d \in AskedOf(t, k) PROVE t.call[d].q = "put"
    <3>1. d \in Calls /\ d \in AskedOf(s, k) /\ t.call[d].q # "none"
      BY <2>2 DEF AskedOf, Parked, Active
    <3>2. GentleOn(s, t, d) /\ s.call[d].owner = k /\ IsOpen(s, d)
      BY <3>1 DEF Gentle, AskedOf, Parked, Active, IsOpen
    <3>3. t.call[d].q = s.call[d].q
      BY <2>3, <3>1, <3>2 DEF GentleOn
    <3> QED
      BY <1>1, <2>1, <3>1, <3>3 DEF HoldSound
  <2> QED
    BY <1>1, <2>1, <2>2, <2>4 DEF HoldSound
<1>4. DrainSound(t, K, c)
  BY <1>1 DEF DrainSound, GentleOn, Follows, AfterTurn, Gentle
<1> QED
  BY <1>2, <1>3, <1>4

\* A gentle step takes nobody from those who will hear.
LEMMA GentleWillHear ==
  ASSUME NEW s, NEW t, Gentle(s, t), NEW k
  PROVE  /\ WillHear(s, k) => WillHear(t, k)
         /\ AtWork(s, k) => AtWork(t, k)
<1>1. t.lead = s.lead /\ s.deferred \subseteq t.deferred /\ CallsOn(t, k) = CallsOn(s, k)
      /\ (Resumable(t, k) <=> Resumable(s, k))
  BY GentleSets DEF Gentle
<1>2. \A x \in CallsOn(s, k) : s.call[x].stage \in {"turn", "finishing"} => t.call[x].stage = s.call[x].stage
  BY DEF Gentle, GentleOn, Follows, CallsOn, Active
<1> QED
  BY <1>1, <1>2 DEF WillHear, AtWork

\* A gentle step leaves everybody in reach of their results.
LEMMA GentleHeard ==
  ASSUME NEW s, NEW t, NEW K, Heard(s, K), Gentle(s, t)
  PROVE  Heard(t, K)
<1> SUFFICES ASSUME ~s.over, NEW c \in Calls
             PROVE  HearSound(t, K, c) /\ StopSound(t, c) /\ t.call[c].stage # "noted"
  BY DEF Heard, Gentle
<1>1. HearSound(s, K, c) /\ StopSound(s, c) /\ s.call[c].stage # "noted" /\ GentleOn(s, t, c)
  BY DEF Heard, Gentle
<1>2. WillHear(s, s.call[c].owner) => WillHear(t, s.call[c].owner)
  BY GentleWillHear
<1>3. AtWork(s, s.call[c].owner) => AtWork(t, s.call[c].owner)
  BY GentleWillHear
<1>4. t.call[c].stage \in {"done", "noted", "queued"} => s.call[c].stage = t.call[c].stage
  BY <1>1 DEF GentleOn, Follows
<1>5. HearSound(t, K, c)
  BY <1>1, <1>2, <1>4 DEF HearSound, GentleOn, IsOpen, Ready
<1>6. StopSound(t, c)
  BY <1>1, <1>3, <1>4 DEF StopSound, GentleOn, IsOpen, Ready
<1>7. t.call[c].stage # "noted"
  BY <1>1, <1>4
<1> QED
  BY <1>5, <1>6, <1>7

-----------------------------------------------------------------------------
(* Which operators are gentle.                                              *)

\* A book is gentle with itself.
LEMMA GentleStutter ==
  ASSUME NEW s, NEW t, t.lead = s.lead, t.over = s.over, t.deferred = s.deferred, t.blocked = s.blocked,
         t.call = s.call, \A c \in Calls : t.book[c] = "untold" => s.book[c] = "untold" \/ (IsOpen(s, c) /\ ~Ready(s, c))
  PROVE  Gentle(s, t)
BY DEF Gentle, GentleOn, Follows, Clock

\* A step that touches no call but its clock, and sets clocks as they stand.
LEMMA RearmedGentle ==
  ASSUME NEW s, Shaped(s), NEW C
  PROVE  Gentle(s, Rearmed(s, C))
<1> DEFINE t == Rearmed(s, C)
<1>1. t.lead = s.lead /\ t.over = s.over /\ t.deferred = s.deferred /\ t.blocked = s.blocked /\ t.book = s.book
  BY DEF Shaped, Parts, Rearmed
<1>2. ASSUME NEW c \in Calls
      PROVE  /\ t.call[c].mode = s.call[c].mode /\ t.call[c].owner = s.call[c].owner /\ t.call[c].conv = s.call[c].conv
             /\ t.call[c].stage = s.call[c].stage /\ t.call[c].q = s.call[c].q
             /\ t.call[c].session = s.call[c].session /\ t.call[c].stopped = s.call[c].stopped
             /\ t.call[c].timed = IF c \in C /\ s.call[c].q # "none" THEN s.call[c].owner \notin s.blocked
                                  ELSE s.call[c].timed
  BY DEF Shaped, Parts, Fields, Rearmed
<1> HIDE DEF t
<1> QED
  BY <1>1, <1>2 DEF Gentle, GentleOn, Follows, Clock, t

\* Where questions are set by those who may, the rest being as it was.
LEMMA QuestionsGentle ==
  ASSUME NEW s, NEW t, t.lead = s.lead, t.over = s.over, t.deferred = s.deferred, t.blocked = s.blocked,
         \A c \in Calls :
           /\ t.call[c].owner = s.call[c].owner /\ t.call[c].conv = s.call[c].conv /\ t.call[c].mode = s.call[c].mode
           /\ t.call[c].session = s.call[c].session /\ t.call[c].stopped = s.call[c].stopped
           /\ t.call[c].stage = s.call[c].stage
           /\ t.book[c] = "untold" => s.book[c] = "untold"
           /\ \/ t.call[c].q = "none"
              \/ t.call[c].q = s.call[c].q /\ t.call[c].timed = s.call[c].timed
  PROVE  Gentle(s, t)
BY DEF Gentle, GentleOn, Follows, Clock

\* Questions that end, and the clocks of those who were blocked by them.
LEMMA UnparkedGentle ==
  ASSUME NEW s, Shaped(s), NEW C
  PROVE  Gentle(s, Unparked(s, C)) /\ Unparked(s, C).book = s.book
<1> DEFINE asked == C \intersect Parked(s)
           freed == {s.call[c].conv : c \in asked} \intersect s.blocked
           t == [s EXCEPT !.blocked = @ \ freed,
                          !.call = [c \in Calls |-> IF c \in asked
                            THEN [@[c] EXCEPT !.q = "none", !.seen = FALSE, !.timed = FALSE] ELSE @[c]]]
           R == UNION {AskedOf(t, k) : k \in freed}
           u == Rearmed(t, R)
<1>0. Unparked(s, C) = u
  BY DEF Unparked
<1>1. /\ t.lead = s.lead /\ t.over = s.over /\ t.deferred = s.deferred /\ t.book = s.book
      /\ t.blocked = s.blocked \ freed /\ DOMAIN t = Parts /\ DOMAIN t.call = Calls
  BY DEF Shaped, Parts
<1>2. ASSUME NEW c \in Calls
      PROVE  /\ t.call[c].mode = s.call[c].mode /\ t.call[c].owner = s.call[c].owner /\ t.call[c].conv = s.call[c].conv
             /\ t.call[c].stage = s.call[c].stage
             /\ t.call[c].session = s.call[c].session /\ t.call[c].stopped = s.call[c].stopped
             /\ c \in asked => t.call[c].q = "none"
             /\ c \notin asked => t.call[c] = s.call[c]
             /\ DOMAIN t.call[c] = Fields
  BY DEF Shaped, Parts, Fields
<1> HIDE DEF t, freed, asked
<1>3. /\ u.lead = t.lead /\ u.over = t.over /\ u.deferred = t.deferred /\ u.blocked = t.blocked /\ u.book = t.book
  BY <1>1 DEF Parts, Rearmed
<1>4. ASSUME NEW c \in Calls
      PROVE  u.call[c] = IF c \in R /\ t.call[c].q # "none" THEN [t.call[c] EXCEPT !.timed = t.call[c].owner \notin t.blocked]
                         ELSE t.call[c]
  BY <1>1 DEF Parts, Rearmed
<1> HIDE DEF u
<1>5. ASSUME NEW c \in Calls PROVE GentleOn(s, u, c)
  <2>1. CASE c \in R /\ t.call[c].q # "none"
    <3>1. c \notin asked /\ u.call[c] = [s.call[c] EXCEPT !.timed = s.call[c].owner \notin u.blocked]
      BY <1>2, <1>3, <1>4, <2>1
    <3>2. DOMAIN s.call[c] = Fields
      BY DEF Shaped
    <3>3. u.call[c].timed = (s.call[c].owner \notin u.blocked) /\ u.call[c].owner = s.call[c].owner
          /\ u.call[c].conv = s.call[c].conv /\ u.call[c].mode = s.call[c].mode /\ u.call[c].stage = s.call[c].stage
          /\ u.call[c].session = s.call[c].session /\ u.call[c].stopped = s.call[c].stopped /\ u.call[c].q = s.call[c].q
      BY <3>1, <3>2 DEF Fields
    <3>4. Clock(u, c)
      BY <3>3 DEF Clock
    <3> QED
      BY <1>1, <1>2, <1>3, <2>1, <3>1, <3>3, <3>4 DEF GentleOn, Follows
  <2>2. CASE ~(c \in R /\ t.call[c].q # "none")
    <3>1. u.call[c] = t.call[c]
      BY <1>4, <2>2
    <3>2. CASE c \in asked
      BY <1>1, <1>2, <1>3, <3>1, <3>2 DEF GentleOn, Follows
    <3>3. CASE c \notin asked
      <4>1. u.call[c] = s.call[c]
        BY <1>2, <3>1, <3>3
      <4>2. CASE s.call[c].q # "none" /\ IsOpen(s, c)
        <5>1. c \notin R
          BY <2>2, <3>1, <4>1, <4>2
        <5>2. c \in Parked(t)
          BY <1>2, <3>3, <4>2 DEF Parked, Active, IsOpen
        <5>3. s.call[c].owner \notin freed
          BY <1>2, <5>1, <5>2 DEF AskedOf
        <5> QED
          BY <1>1, <1>3, <4>1, <5>3 DEF GentleOn, Follows, Clock
      <4>3. CASE ~(s.call[c].q # "none" /\ IsOpen(s, c))
        BY <1>1, <1>3, <4>1, <4>3 DEF GentleOn, Follows
      <4> QED
        BY <4>2, <4>3
    <3> QED
      BY <3>2, <3>3
  <2> QED
    BY <2>1, <2>2
<1> QED
  BY <1>0, <1>1, <1>3, <1>5 DEF Gentle

\* Questions nobody answers fail.
LEMMA FailedParkedGentle ==
  ASSUME NEW s, Shaped(s), NEW C
  PROVE  Gentle(s, FailedParked(s, C))
<1> DEFINE asked == C \intersect Parked(s)
           u == Unparked(s, asked)
           t == [u EXCEPT !.call = [c \in Calls |-> IF c \in asked THEN [@[c] EXCEPT !.failed = TRUE] ELSE @[c]]]
<1>0. FailedParked(s, C) = t
  BY DEF FailedParked
<1>1. Gentle(s, u) /\ Shaped(u)
  BY UnparkedGentle, UnparkedLike DEF Like
<1> HIDE DEF u, asked
<1>2. t.lead = u.lead /\ t.over = u.over /\ t.deferred = u.deferred /\ t.blocked = u.blocked /\ t.book = u.book
  BY <1>1 DEF Shaped, Parts
<1>3. ASSUME NEW c \in Calls
      PROVE  /\ t.call[c].mode = u.call[c].mode /\ t.call[c].owner = u.call[c].owner /\ t.call[c].conv = u.call[c].conv
             /\ t.call[c].stage = u.call[c].stage /\ t.call[c].q = u.call[c].q /\ t.call[c].timed = u.call[c].timed
             /\ t.call[c].session = u.call[c].session /\ t.call[c].stopped = u.call[c].stopped
  BY <1>1 DEF Shaped, Parts, Fields
<1> HIDE DEF t
<1>4. Gentle(u, t)
  BY <1>2, <1>3, QuestionsGentle
<1> QED
  BY <1>0, <1>1, <1>4, GentleInTurn

\* Orphaning, and who is rid of their questions by it.
LEMMA OrphanedGentle ==
  ASSUME NEW s, Shaped(s), NEW C
  PROVE  Gentle(s, Orphaned(s, C))
<1> DEFINE t == [s EXCEPT !.book = [c \in Calls |-> IF c \in C /\ @[c] # "no" THEN "told" ELSE @[c]]]
<1>0. Orphaned(s, C) = FailedParked(t, C)
  BY DEF Orphaned
<1>1. DOMAIN t = Parts /\ t.call = s.call /\ t.lead = s.lead /\ t.over = s.over /\ t.deferred = s.deferred
      /\ t.blocked = s.blocked /\ t.wait = s.wait /\ t.heard = s.heard
      /\ DOMAIN t.book = Calls /\ \A c \in Calls : t.book[c] = "untold" => s.book[c] = "untold"
  BY DEF Shaped, Parts
<1> HIDE DEF t
<1>2. Gentle(s, t) /\ Shaped(t)
  BY <1>1, GentleStutter DEF Shaped
<1> QED
  BY <1>0, <1>2, FailedParkedGentle, GentleInTurn

\* Questions only end.
Hushed(s, t) == \A c \in Calls : t.call[c].q \in {"none", s.call[c].q}

\* A question that is ended, or orphaned, is asked no more.
LEMMA UnparkedAsks ==
  ASSUME NEW s, Shaped(s), NEW C
  PROVE  Parked(Unparked(s, C)) \cap C = {} /\ Hushed(s, Unparked(s, C))
<1> DEFINE asked == C \intersect Parked(s)
           freed == {s.call[c].conv : c \in asked} \intersect s.blocked
           t == [s EXCEPT !.blocked = @ \ freed,
                          !.call = [c \in Calls |-> IF c \in asked
                            THEN [@[c] EXCEPT !.q = "none", !.seen = FALSE, !.timed = FALSE] ELSE @[c]]]
           R == UNION {AskedOf(t, k) : k \in freed}
<1>0. Unparked(s, C) = Rearmed(t, R)
  BY DEF Unparked
<1>1. /\ DOMAIN t = Parts /\ DOMAIN t.call = Calls
      /\ \A c \in Calls : c \in asked => t.call[c].q = "none"
      /\ \A c \in Calls : c \notin asked => t.call[c] = s.call[c]
      /\ \A c \in Calls : DOMAIN t.call[c] = Fields
      /\ t.book = s.book /\ t.wait = s.wait /\ t.heard = s.heard
  BY DEF Shaped, Parts, Fields
<1> HIDE DEF t, R, asked
<1>2. Shaped(t)
  <2>1. DOMAIN t = Parts /\ DOMAIN t.call = Calls /\ \A c \in Calls : DOMAIN t.call[c] = Fields
    BY <1>1
  <2>2. t.book = s.book /\ t.wait = s.wait /\ t.heard = s.heard
    BY <1>1
  <2> QED
    BY <2>1, <2>2 DEF Shaped
<1>3. Gentle(t, Rearmed(t, R))
  BY <1>2, RearmedGentle
<1>4. Parked(Rearmed(t, R)) \subseteq Parked(t)
  BY <1>3, GentleSets
<1>5. Parked(t) \cap C = {}
  <2> SUFFICES ASSUME NEW c \in Parked(t), c \in C PROVE FALSE
    OBVIOUS
  <2>1. c \in Calls /\ t.call[c].q # "none" /\ t.call[c].stage \notin {"unmade", "done"}
    BY DEF Parked, Active
  <2>2. c \notin asked /\ t.call[c] = s.call[c]
    BY <1>1, <2>1
  <2> QED
    BY <2>1, <2>2 DEF Parked, Active, asked
<1>6. \A c \in Calls : Rearmed(t, R).call[c].q = t.call[c].q
  BY <1>2 DEF Rearmed, Shaped, Parts, Fields
<1>7. Hushed(s, Rearmed(t, R))
  BY <1>1, <1>6 DEF Hushed
<1> QED
  BY <1>0, <1>4, <1>5, <1>7

\* A call that was orphaned asks no more.
LEMMA OrphanedAsks ==
  ASSUME NEW s, Shaped(s), NEW C
  PROVE  Parked(Orphaned(s, C)) \cap C = {} /\ Hushed(s, Orphaned(s, C))
<1> DEFINE t == [s EXCEPT !.book = [c \in Calls |-> IF c \in C /\ @[c] # "no" THEN "told" ELSE @[c]]]
           asked == C \intersect Parked(t)
           u == Unparked(t, asked)
           v == [u EXCEPT !.call = [c \in Calls |-> IF c \in asked THEN [@[c] EXCEPT !.failed = TRUE] ELSE @[c]]]
<1>0. Orphaned(s, C) = v
  BY DEF Orphaned, FailedParked
<1>1. DOMAIN t = Parts /\ t.call = s.call /\ t.wait = s.wait /\ t.heard = s.heard /\ DOMAIN t.book = Calls
  BY DEF Shaped, Parts
<1> HIDE DEF t
<1>2. Shaped(t)
  BY <1>1 DEF Shaped
<1>3. Parked(u) \cap asked = {} /\ Hushed(t, u) /\ Shaped(u) /\ Parked(u) \subseteq Parked(t)
  BY <1>2, UnparkedAsks, UnparkedLike, UnparkedGentle, GentleSets DEF Like
<1> HIDE DEF u
<1>4. \A c \in Calls : v.call[c].stage = u.call[c].stage /\ v.call[c].q = u.call[c].q
  BY <1>3 DEF Shaped, Parts, Fields
<1> HIDE DEF v
<1>5. Parked(v) = Parked(u)
  BY <1>4 DEF Parked, Active
<1>6. Hushed(s, v)
  BY <1>1, <1>3, <1>4 DEF Hushed
<1> QED
  BY <1>0, <1>3, <1>5, <1>6

\* A question that was shown.
LEMMA SeenGentle ==
  ASSUME NEW s, Shaped(s), NEW d \in Calls
  PROVE  Gentle(s, Seen(s, d))
<1> DEFINE t == [s EXCEPT !.call[d].seen = TRUE]
<1>0. Seen(s, d) = Rearmed(t, {d})
  BY DEF Seen
<1>1. t.lead = s.lead /\ t.over = s.over /\ t.deferred = s.deferred /\ t.blocked = s.blocked /\ t.book = s.book
      /\ t.wait = s.wait /\ t.heard = s.heard /\ DOMAIN t = Parts /\ DOMAIN t.call = Calls
  BY DEF Shaped, Parts
<1>2. ASSUME NEW c \in Calls
      PROVE  /\ t.call[c].mode = s.call[c].mode /\ t.call[c].owner = s.call[c].owner /\ t.call[c].conv = s.call[c].conv
             /\ t.call[c].stage = s.call[c].stage /\ t.call[c].q = s.call[c].q /\ t.call[c].timed = s.call[c].timed
             /\ t.call[c].session = s.call[c].session /\ t.call[c].stopped = s.call[c].stopped
             /\ DOMAIN t.call[c] = Fields
  BY DEF Shaped, Parts, Fields
<1> HIDE DEF t
<1>3. Shaped(t) /\ Gentle(s, t)
  BY <1>1, <1>2, QuestionsGentle DEF Shaped
<1> QED
  BY <1>0, <1>3, RearmedGentle, GentleInTurn

\* An agent that asked, and those who wait for its answers.
LEMMA BlockedGentle ==
  ASSUME NEW s, Shaped(s), NEW k
  PROVE  Gentle(s, Blocked(s, k))
<1> DEFINE t == [s EXCEPT !.blocked = @ \union {k}]
<1>1. /\ t.lead = s.lead /\ t.over = s.over /\ t.deferred = s.deferred /\ t.blocked = s.blocked \union {k}
      /\ t.book = s.book /\ t.call = s.call /\ t.wait = s.wait /\ t.heard = s.heard /\ DOMAIN t = Parts
  BY DEF Shaped, Parts
<1>2. Blocked(s, k) = IF k \in s.blocked THEN s ELSE Rearmed(t, AskedOf(s, k))
  BY DEF Blocked
<1> HIDE DEF t
<1>3. Shaped(t) /\ Gentle(s, t)
  BY <1>1 DEF Shaped, Gentle, GentleOn, Follows, Clock
<1>4. Gentle(t, Rearmed(t, AskedOf(s, k))) /\ Gentle(s, s)
  BY <1>3, RearmedGentle, GentleStutter
<1> QED
  BY <1>2, <1>3, <1>4, GentleInTurn

\* Putting a drain off.
LEMMA DeferredGentle ==
  ASSUME NEW s, Shaped(s), NEW k
  PROVE  Gentle(s, Deferred(s, k)) /\ Deferred(s, k).deferred = s.deferred \union {k}
<1> DEFINE t == Deferred(s, k)
<1>1. /\ t.lead = s.lead /\ t.over = s.over /\ t.deferred = s.deferred \union {k} /\ t.blocked = s.blocked
      /\ t.book = s.book /\ t.call = s.call
  BY DEF Shaped, Parts, Deferred
<1> HIDE DEF t
<1> QED
  BY <1>1 DEF Gentle, GentleOn, Follows, Clock, t

\* What a wake tells.
LEMMA ToldFields ==
  ASSUME NEW s, Shaped(s), NEW A, NEW F
  PROVE  LET t == Told(s, A, F) IN
         /\ t.lead = s.lead /\ t.over = s.over /\ t.deferred = s.deferred /\ t.blocked = s.blocked
         /\ DOMAIN t = Parts /\ DOMAIN t.call = Calls
         /\ \A c \in Calls :
              /\ DOMAIN t.call[c] = Fields
              /\ t.call[c].owner = s.call[c].owner /\ t.call[c].conv = s.call[c].conv
              /\ t.call[c].mode = s.call[c].mode /\ t.call[c].stage = s.call[c].stage
              /\ t.call[c].session = s.call[c].session /\ t.call[c].stopped = s.call[c].stopped
              /\ t.call[c].q = IF c \in A THEN "told" ELSE s.call[c].q
              /\ t.call[c].timed = IF c \in A THEN s.call[c].owner \notin s.blocked ELSE s.call[c].timed
              /\ t.book[c] = IF c \in F /\ s.book[c] # "no" THEN "told" ELSE s.book[c]
<1> DEFINE u == [s EXCEPT !.call = [c \in Calls |-> IF c \in A THEN [@[c] EXCEPT !.q = "told"] ELSE @[c]],
                          !.book = [c \in Calls |-> IF c \in F /\ @[c] # "no" THEN "told" ELSE @[c]]]
           t == Rearmed(u, A)
<1>0. Told(s, A, F) = t
  BY DEF Told
<1>1. /\ u.lead = s.lead /\ u.over = s.over /\ u.deferred = s.deferred /\ u.blocked = s.blocked
      /\ DOMAIN u = Parts /\ DOMAIN u.call = Calls
      /\ \A c \in Calls : u.book[c] = IF c \in F /\ s.book[c] # "no" THEN "told" ELSE s.book[c]
  BY DEF Shaped, Parts
<1>2. ASSUME NEW c \in Calls
      PROVE  /\ DOMAIN u.call[c] = Fields
             /\ u.call[c].owner = s.call[c].owner /\ u.call[c].conv = s.call[c].conv
             /\ u.call[c].mode = s.call[c].mode /\ u.call[c].stage = s.call[c].stage
             /\ u.call[c].session = s.call[c].session /\ u.call[c].stopped = s.call[c].stopped
             /\ u.call[c].q = IF c \in A THEN "told" ELSE s.call[c].q
             /\ u.call[c].timed = s.call[c].timed
  BY DEF Shaped, Parts, Fields
<1> HIDE DEF u
<1>3. /\ t.lead = u.lead /\ t.over = u.over /\ t.deferred = u.deferred /\ t.blocked = u.blocked /\ t.book = u.book
      /\ DOMAIN t = Parts /\ DOMAIN t.call = Calls
      /\ \A c \in Calls : t.call[c] = IF c \in A /\ u.call[c].q # "none"
                            THEN [u.call[c] EXCEPT !.timed = u.call[c].owner \notin u.blocked] ELSE u.call[c]
  BY <1>1 DEF Rearmed, Parts
<1> HIDE DEF t
<1>4. ASSUME NEW c \in Calls
      PROVE  /\ DOMAIN t.call[c] = Fields
             /\ t.call[c].owner = s.call[c].owner /\ t.call[c].conv = s.call[c].conv
             /\ t.call[c].mode = s.call[c].mode /\ t.call[c].stage = s.call[c].stage
             /\ t.call[c].session = s.call[c].session /\ t.call[c].stopped = s.call[c].stopped
             /\ t.call[c].q = IF c \in A THEN "told" ELSE s.call[c].q
             /\ t.call[c].timed = IF c \in A THEN s.call[c].owner \notin s.blocked ELSE s.call[c].timed
  <2>1. CASE c \in A
    <3>1. t.call[c] = [u.call[c] EXCEPT !.timed = u.call[c].owner \notin u.blocked]
      BY <1>2, <1>3, <2>1
    <3> QED
      BY <1>1, <1>2, <2>1, <3>1 DEF Fields
  <2>2. CASE c \notin A
    BY <1>2, <1>3, <2>2
  <2> QED
    BY <2>1, <2>2
<1>5. t.lead = s.lead /\ t.over = s.over /\ t.deferred = s.deferred /\ t.blocked = s.blocked
  BY <1>1, <1>3
<1>6. \A c \in Calls : t.book[c] = IF c \in F /\ s.book[c] # "no" THEN "told" ELSE s.book[c]
  BY <1>1, <1>3
<1> QED
  BY <1>0, <1>3, <1>4, <1>5, <1>6

\* Telling agents that hold nothing.
LEMMA ToldGentle ==
  ASSUME NEW s, Shaped(s), NEW A, NEW F,
         \A c \in A : c \in Parked(s) /\ HeldOn(s, s.call[c].owner) = {}
  PROVE  Gentle(s, Told(s, A, F))
<1> DEFINE t == Told(s, A, F)
<1>1. /\ t.lead = s.lead /\ t.over = s.over /\ t.deferred = s.deferred /\ t.blocked = s.blocked
      /\ \A c \in Calls :
              /\ t.call[c].owner = s.call[c].owner /\ t.call[c].conv = s.call[c].conv
              /\ t.call[c].mode = s.call[c].mode /\ t.call[c].stage = s.call[c].stage
              /\ t.call[c].session = s.call[c].session /\ t.call[c].stopped = s.call[c].stopped
              /\ t.call[c].q = IF c \in A THEN "told" ELSE s.call[c].q
              /\ t.call[c].timed = IF c \in A THEN s.call[c].owner \notin s.blocked ELSE s.call[c].timed
              /\ t.book[c] = IF c \in F /\ s.book[c] # "no" THEN "told" ELSE s.book[c]
  BY ToldFields
<1> HIDE DEF t
<1>2. ASSUME NEW k PROVE HeldOn(t, k) = HeldOn(s, k)
  BY <1>1 DEF HeldOn, CallsOn, Active
<1>3. ASSUME NEW c \in Calls PROVE GentleOn(s, t, c)
  <2>1. CASE c \in A
    <3>1. s.call[c].q # "none" /\ HeldOn(t, s.call[c].owner) = {}
      BY <1>2, <2>1 DEF Parked
    <3> QED
      BY <1>1, <2>1, <3>1 DEF GentleOn, Follows, Clock
  <2>2. CASE c \notin A
    BY <1>1, <2>2 DEF GentleOn, Follows, Clock
  <2> QED
    BY <2>1, <2>2
<1> QED
  BY <1>1, <1>3 DEF Gentle, t

\* Holds let go.
LEMMA SettlingGentle ==
  ASSUME NEW s, Shaped(s), NEW C, \A c \in C \cap Calls : s.call[c].stage = "held"
  PROVE  Gentle(s, Settling(s, C))
<1> DEFINE t == Settling(s, C)
<1>1. /\ t.lead = s.lead /\ t.over = s.over /\ t.deferred = s.deferred /\ t.blocked = s.blocked /\ t.book = s.book
  BY DEF Shaped, Parts, Settling
<1>2. ASSUME NEW c \in Calls
      PROVE  /\ t.call[c].owner = s.call[c].owner /\ t.call[c].conv = s.call[c].conv
             /\ t.call[c].mode = s.call[c].mode /\ t.call[c].q = s.call[c].q /\ t.call[c].timed = s.call[c].timed
             /\ t.call[c].session = s.call[c].session /\ t.call[c].stopped = s.call[c].stopped
             /\ t.call[c].stage = IF c \in C THEN "writing" ELSE s.call[c].stage
  BY DEF Shaped, Parts, Fields, Settling
<1> HIDE DEF t
<1> QED
  BY <1>1, <1>2 DEF Gentle, GentleOn, Follows, Clock, t

\* A hold that is looked at.
LEMMA ReviewedGentle ==
  ASSUME NEW s, Shaped(s), OnePerConv(s), NEW c \in Calls, s.call[c].stage = "held"
  PROVE  Gentle(s, Reviewed(s, c))
<1> DEFINE k == s.call[c].conv
           asked == {d \in AskedOf(s, k) \intersect OpenSubs(s, k) : s.call[d].q = "put"}
           u == Told(s, asked, Untold(s, k))
           t == Resumed(u, c)
<1>1. Reviewed(s, c) \in {s, Settling(s, {c}), t}
  BY DEF Reviewed
<1>2. Gentle(s, s) /\ Gentle(s, Settling(s, {c}))
  BY GentleStutter, SettlingGentle
<1>3. Gentle(s, t)
  <2>1. /\ u.lead = s.lead /\ u.over = s.over /\ u.deferred = s.deferred /\ u.blocked = s.blocked
        /\ DOMAIN u = Parts /\ DOMAIN u.call = Calls
        /\ \A d \in Calls :
                /\ DOMAIN u.call[d] = Fields
                /\ u.call[d].owner = s.call[d].owner /\ u.call[d].conv = s.call[d].conv
                /\ u.call[d].mode = s.call[d].mode /\ u.call[d].stage = s.call[d].stage
                /\ u.call[d].session = s.call[d].session /\ u.call[d].stopped = s.call[d].stopped
                /\ u.call[d].q = IF d \in asked THEN "told" ELSE s.call[d].q
                /\ u.call[d].timed = IF d \in asked THEN s.call[d].owner \notin s.blocked ELSE s.call[d].timed
                /\ u.book[d] = "untold" => s.book[d] = "untold"
    BY ToldFields
  <2>2. \A d \in asked : s.call[d].owner = k /\ s.call[d].q # "none"
    BY DEF AskedOf, Parked
  <2> HIDE DEF u, asked
  <2>3. t.lead = u.lead /\ t.over = u.over /\ t.deferred = u.deferred /\ t.blocked = u.blocked /\ t.book = u.book
    BY <2>1 DEF Parts, Resumed
  <2>4. ASSUME NEW d \in Calls
        PROVE  /\ t.call[d].owner = u.call[d].owner /\ t.call[d].conv = u.call[d].conv
               /\ t.call[d].mode = u.call[d].mode /\ t.call[d].q = u.call[d].q /\ t.call[d].timed = u.call[d].timed
               /\ t.call[d].session = u.call[d].session /\ t.call[d].stopped = u.call[d].stopped
               /\ d # c => t.call[d].stage = u.call[d].stage
               /\ d = c => t.call[d].stage \in {"turn", "writing"}
    BY <2>1 DEF Parts, Fields, Resumed
  <2> HIDE DEF t
  <2>5. HeldOn(t, k) = {}
    <3>1. ASSUME NEW d \in HeldOn(t, k) PROVE FALSE
      <4>1. d \in Calls /\ t.call[d].stage = "held" /\ t.call[d].conv = k
        BY DEF HeldOn, CallsOn, Active
      <4>2. d # c /\ s.call[d].stage = "held" /\ s.call[d].conv = k
        BY <2>1, <2>4, <4>1
      <4> QED
        BY <4>1, <4>2 DEF OnePerConv, IsOpen
    <3> QED
      BY <3>1
  <2>6. ASSUME NEW d \in Calls PROVE GentleOn(s, t, d)
    <3>0. Follows(s.call[d].stage, t.call[d].stage)
      <4>1. CASE d = c
        BY <2>4, <4>1 DEF Follows
      <4>2. CASE d # c
        BY <2>1, <2>4, <4>2 DEF Follows
      <4> QED
        BY <4>1, <4>2
    <3>1. CASE d \in asked
      <4>1. s.call[d].owner = k /\ s.call[d].q # "none" /\ t.call[d].q = "told" /\ t.blocked = s.blocked
            /\ t.call[d].timed = (s.call[d].owner \notin s.blocked) /\ t.call[d].owner = s.call[d].owner
        BY <2>1, <2>2, <2>3, <2>4, <3>1
      <4>2. Clock(t, d)
        BY <4>1 DEF Clock
      <4> QED
        BY <2>1, <2>3, <2>4, <2>5, <3>0, <4>1, <4>2 DEF GentleOn
    <3>2. CASE d \notin asked
      BY <2>1, <2>3, <2>4, <3>0, <3>2 DEF GentleOn, Clock
    <3> QED
      BY <3>1, <3>2
  <2> QED
    BY <2>1, <2>3, <2>6 DEF Gentle
<1> QED
  BY <1>1, <1>2, <1>3

\* A hold that was looked at waits for open calls, and nobody waits for it.
LEMMA ReviewedFit ==
  ASSUME NEW s, Shaped(s), OnePerConv(s), NEW c \in Calls, s.call[c].stage = "held", NEW K, NEW H,
         Fit(s, K, H, {})
  PROVE  Fit(Reviewed(s, c), K, H \ {s.call[c].conv}, {})
<1> DEFINE k == s.call[c].conv
           t == Reviewed(s, c)
           asked == {d \in AskedOf(s, k) \intersect OpenSubs(s, k) : s.call[d].q = "put"}
<1>1. Gentle(s, t) /\ Fit(t, K, H, {})
  BY ReviewedGentle, GentleFit
<1>2. ASSUME NEW d \in Calls PROVE HoldSound(t, H \ {k}, d)
  <2>1. HoldSound(t, H, d) /\ GentleOn(s, t, d)
    BY <1>1 DEF Fit, Gentle
  <2>2. CASE t.call[d].stage = "held" /\ t.call[d].conv = k
    <3>1. d = c
      BY <2>1, <2>2 DEF GentleOn, Follows, OnePerConv, IsOpen
    <3>2. t = s /\ asked = {} /\ OpenSubs(s, k) # {}
      <4>1. ASSUME t = Settling(s, {c}) PROVE FALSE
        <5>1. t.call[c].stage = "writing"
          BY <4>1 DEF Settling, Shaped, Parts, Fields
        <5> QED
          BY <2>2, <3>1, <5>1
      <4>2. ASSUME NEW u, u = Told(s, asked, Untold(s, k)), t = Resumed(u, c) PROVE FALSE
        <5>1. DOMAIN u = Parts /\ DOMAIN u.call = Calls /\ DOMAIN u.call[c] = Fields
          BY <4>2, ToldFields
        <5>2. Resumed(u, c).call[c].stage \in {"writing", "turn"}
          BY <5>1 DEF Resumed, Parts, Fields
        <5> QED
          BY <2>2, <3>1, <4>2, <5>2
      <4> QED
        BY <4>1, <4>2 DEF Reviewed
    <3>3. ASSUME NEW e \in AskedOf(s, k) PROVE FALSE
      <4>1. e \in Calls /\ e \in Parked(s) /\ s.call[e].owner = k /\ e \in Active(s)
        BY DEF AskedOf, Parked, Active
      <4>2. s.call[e].mode # "fire" /\ s.call[e].q = "put"
        BY <4>1 DEF Fit, AskSound, HoldSound
      <4> QED
        BY <3>2, <4>1, <4>2 DEF OpenSubs
    <3> QED
      BY <3>1, <3>2, <3>3 DEF HoldSound
  <2>3. CASE ~(t.call[d].stage = "held" /\ t.call[d].conv = k)
    BY <2>1, <2>3 DEF HoldSound
  <2> QED
    BY <2>2, <2>3
<1> QED
  BY <1>1, <1>2 DEF Fit

\* The same where there may be no hold.
LEMMA ReviewedIfHeldFit ==
  ASSUME NEW s, Shaped(s), OnePerConv(s), NEW k, NEW K, NEW H, Fit(s, K, H, {})
  PROVE  /\ Gentle(s, ReviewedIfHeld(s, k))
         /\ Fit(ReviewedIfHeld(s, k), K, H \ {k}, {})
<1>1. CASE HeldOn(s, k) = {}
  <2>1. ReviewedIfHeld(s, k) = s /\ Gentle(s, s)
    BY <1>1, GentleStutter DEF ReviewedIfHeld
  <2>2. ASSUME NEW c \in Calls PROVE HoldSound(s, H \ {k}, c)
    <3>1. s.call[c].stage = "held" => s.call[c].conv # k
      BY <1>1 DEF HeldOn, CallsOn, Active
    <3> QED
      BY <3>1 DEF Fit, HoldSound
  <2> QED
    BY <2>1, <2>2 DEF Fit
<1>2. CASE HeldOn(s, k) # {}
  <2>1. PICK c \in HeldOn(s, k) : ReviewedIfHeld(s, k) = Reviewed(s, c)
    BY <1>2 DEF ReviewedIfHeld
  <2>2. c \in Calls /\ s.call[c].stage = "held" /\ s.call[c].conv = k
    BY DEF HeldOn, CallsOn, Active
  <2> QED
    BY <2>1, <2>2, ReviewedGentle, ReviewedFit
<1> QED
  BY <1>1, <1>2

\* A wait that begins, and a result that is handed over.
LEMMA WaitsGentle ==
  ASSUME NEW s, Shaped(s), NEW w, NEW k, NEW how, NEW on
  PROVE  Gentle(s, Waits(s, w, k, how, on))
<1> DEFINE t == Waits(s, w, k, how, on)
<1>1. t.lead = s.lead /\ t.over = s.over /\ t.deferred = s.deferred /\ t.blocked = s.blocked
      /\ t.call = s.call /\ t.book = s.book
  BY DEF Shaped, Parts, Waits
<1> HIDE DEF t
<1> QED
  BY <1>1, GentleStutter DEF t

\* A result that is handed over.
LEMMA CollectedGentle ==
  ASSUME NEW s, Shaped(s), NEW c \in Calls
  PROVE  Gentle(s, Collected(s, c))
<1> DEFINE t == Collected(s, c)
<1>1. /\ t.lead = s.lead /\ t.over = s.over /\ t.deferred = s.deferred /\ t.blocked = s.blocked /\ t.call = s.call
      /\ \A d \in Calls : t.book[d] = "untold" => s.book[d] = "untold"
  BY DEF Shaped, Parts, Collected
<1> HIDE DEF t
<1> QED
  BY <1>1, GentleStutter DEF t

\* Answering the waits on a call takes results out of the book.
LEMMA WaitsAnsweredGentle ==
  ASSUME NEW s, Shaped(s), NEW c \in Calls, NEW w
  PROVE  Gentle(s, WaitsAnswered(s, c, w))
<1> DEFINE on == Listening(s, c)
           left(v) == {d \in s.wait[v].on \ {c} : s.book[d] # "no"}
           goes == {v \in on \ {w} : s.wait[v].how = "any" /\ ~(left(v) \subseteq Parked(s))}
           t == [s EXCEPT !.wait = [v \in Requests |->
                   IF v \in goes THEN [@[v] EXCEPT !.on = left(v)]
                   ELSE IF v \in on THEN NoWait ELSE @[v]]]
           h == [t EXCEPT !.heard[c] = @ + 1]
<1>1. WaitsAnswered(s, c, w) \in {h, Collected(t, c), t}
  BY DEF WaitsAnswered
<1>2. /\ t.lead = s.lead /\ t.over = s.over /\ t.deferred = s.deferred /\ t.blocked = s.blocked /\ t.call = s.call
      /\ t.book = s.book /\ t.heard = s.heard /\ DOMAIN t = Parts
  BY DEF Shaped, Parts
<1> HIDE DEF t
<1>3. Gentle(s, t)
  BY <1>2, GentleStutter
<1>4. /\ h.lead = t.lead /\ h.over = t.over /\ h.deferred = t.deferred /\ h.blocked = t.blocked /\ h.call = t.call
      /\ h.book = t.book
  BY <1>2 DEF Parts
<1> HIDE DEF h
<1>5. Gentle(t, h)
  BY <1>4, GentleStutter
<1> DEFINE v == Collected(t, c)
<1>6. /\ v.lead = t.lead /\ v.over = t.over /\ v.deferred = t.deferred /\ v.blocked = t.blocked /\ v.call = t.call
      /\ \A d \in Calls : v.book[d] = "untold" => t.book[d] = "untold"
  BY <1>2 DEF Shaped, Parts, Collected
<1> HIDE DEF v
<1>7. Gentle(t, v)
  BY <1>6, GentleStutter
<1> QED
  BY <1>1, <1>3, <1>5, <1>7, GentleInTurn DEF v

\* Calls whose waits are let go are open, and nothing of theirs is under way.
LEMMA CollectableGentle ==
  ASSUME NEW s, Shaped(s), NEW C, \A c \in C \cap Calls : IsOpen(s, c) /\ ~Ready(s, c)
  PROVE  Gentle(s, Collectable(s, C))
<1> DEFINE t == Collectable(s, C)
<1>1. /\ t.lead = s.lead /\ t.over = s.over /\ t.deferred = s.deferred /\ t.blocked = s.blocked /\ t.call = s.call
      /\ \A d \in Calls : t.book[d] = IF d \in C /\ s.book[d] = "no" THEN "untold" ELSE s.book[d]
  BY DEF Shaped, Parts, Collectable
<1> HIDE DEF t
<1> QED
  BY <1>1, GentleStutter DEF t

\* Waits that end.
LEMMA EndedWaitsGentle ==
  ASSUME NEW s, Shaped(s), NEW W
  PROVE  Gentle(s, EndedWaits(s, W)) /\ EndedWaits(s, W).call = s.call
<1> DEFINE t == EndedWaits(s, W)
<1>1. t.lead = s.lead /\ t.over = s.over /\ t.deferred = s.deferred /\ t.blocked = s.blocked
      /\ t.call = s.call /\ t.book = s.book
  BY DEF Shaped, Parts, EndedWaits
<1> HIDE DEF t
<1> QED
  BY <1>1, GentleStutter DEF t

\* Letting waits go, while no call is settling.
LEMMA ReleasedGentle ==
  ASSUME NEW s, Sound(s, Lead), NEW W \in SUBSET Requests, \A c \in Calls : ~Ready(s, c)
  PROVE  Gentle(s, Released(s, W))
<1> DEFINE C == UNION {s.wait[w].on : w \in {v \in W : s.wait[v].how = "sync"}}
           t == Collectable(s, C)
<1>0. Released(s, W) = EndedWaits(t, W)
  BY DEF Released
<1>1. \A c \in C \cap Calls : IsOpen(s, c) /\ ~Ready(s, c)
  <2> SUFFICES ASSUME NEW w \in Requests, s.wait[w].how = "sync", NEW c \in s.wait[w].on, c \in Calls
               PROVE  IsOpen(s, c)
    OBVIOUS
  <2>1. PICK d \in Calls : Pending(s, Lead, d) /\ SyncOn(s, w, d)
    BY DEF Sound, WaitSound
  <2> QED
    BY <2>1 DEF Pending, SyncOn, Calls, Lead
<1> HIDE DEF C
<1>2. Gentle(s, t) /\ Shaped(t)
  BY <1>1, CollectableGentle, CollectableFields DEF Sound
<1> QED
  BY <1>0, <1>2, EndedWaitsGentle, GentleInTurn

\* A question handed to a wait of its caller.
LEMMA HandedToWaiterGentle ==
  ASSUME NEW s, Shaped(s), NEW c \in Calls, \A d \in Calls : ~Ready(s, d)
  PROVE  Gentle(s, HandedToWaiter(s, c))
<1> DEFINE others == {d \in Active(s) \ {c} : s.call[d].owner = s.call[c].owner /\ Listening(s, d) # {}}
<1>1. ASSUME NEW W PROVE Gentle(s, EndedWaits(s, W)) /\ Shaped(EndedWaits(s, W)) /\ EndedWaits(s, W).call = s.call
  BY EndedWaitsGentle, EndedWaitsFields
<1>2. CASE Listening(s, c) # {}
  BY <1>1, <1>2, SeenGentle, GentleInTurn DEF HandedToWaiter
<1>3. CASE Listening(s, c) = {} /\ others # {}
  <2> DEFINE d == Min(others)
             t == EndedWaits(s, Listening(s, d))
             u == Collectable(t, {d})
  <2>1. HandedToWaiter(s, c) = Seen(u, c)
    BY <1>3 DEF HandedToWaiter
  <2>2. others \subseteq Calls /\ d \in others
    BY <1>3, FirstCall DEF Active
  <2>3. d \in Calls /\ IsOpen(s, d)
    BY <2>2 DEF Active, IsOpen
  <2>4. Gentle(s, t) /\ Shaped(t) /\ t.call = s.call
    BY <1>1
  <2> HIDE DEF t, d
  <2>5. IsOpen(t, d) /\ ~Ready(t, d)
    BY <2>3, <2>4 DEF IsOpen, Ready
  <2>6. Gentle(t, u) /\ Shaped(u)
    BY <2>4, <2>5, CollectableGentle, CollectableFields
  <2> HIDE DEF u
  <2> QED
    BY <2>1, <2>4, <2>6, SeenGentle, GentleInTurn
<1>4. CASE Listening(s, c) = {} /\ others = {}
  BY <1>4, GentleStutter DEF HandedToWaiter
<1> QED
  BY <1>2, <1>3, <1>4

-----------------------------------------------------------------------------
(* A call that begins.                                                      *)

\* What openCall leaves alone, and what a new call has not.
LEMMA OpenedRest ==
  ASSUME NEW s, Sound(s, Lead), NEW k, NEW thread, NEW mode, NEW stage, NEW n \in Calls, n = s.made + 1
  PROVE  LET t == Opened(s, k, thread, mode, stage) IN
         /\ t.over = s.over /\ t.lead = s.lead /\ t.deferred = s.deferred /\ t.blocked = s.blocked
         /\ \A c \in Calls \ {n} : t.call[c] = s.call[c] /\ t.book[c] = s.book[c]
         /\ t.call[n].q = "none" /\ ~t.call[n].session /\ ~t.call[n].stopped
         /\ t.call[n].stage = stage /\ t.call[n].conv = IF thread = Lead THEN n ELSE thread
         /\ s.call[n].stage = "unmade" /\ \A c \in Calls : IsMade(s, c) => s.call[c].owner # n
<1> DEFINE new == [NoCall EXCEPT !.stage = stage, !.owner = k, !.mode = mode, !.madeIn = MadeIn(s, k),
                            !.conv = IF thread = Lead THEN n ELSE thread, !.depth = Depth(s, k) + 1]
           t == Opened(s, k, thread, mode, stage)
<1>1. t = [s EXCEPT !.made = n, !.call[n] = new, !.book[n] = IF mode = "async" THEN "untold" ELSE "no"]
  BY DEF Opened
<1>2. new.q = "none" /\ ~new.session /\ ~new.stopped
  BY DEF NoCall
<1> HIDE DEF new, t
<1>3. t.over = s.over /\ t.deferred = s.deferred /\ t.blocked = s.blocked /\ t.call[n] = new
  BY <1>1 DEF Sound, Shaped, Parts
<1>4. s.made \in Nat /\ ~(n <= s.made)
  BY DEF Sound
<1>5. ~IsMade(s, n)
  BY <1>4 DEF Sound, CallMade
<1>6. ASSUME NEW c \in Calls, IsMade(s, c) PROVE s.call[c].owner # n
  BY <1>5, <1>6 DEF Sound, CallMade, Calls, Lead
<1> QED
  BY <1>2, <1>3, <1>5, <1>6, OpenedFields DEF Sound, t, IsMade

\* A call that begins asks nothing and waits for nothing.
LEMMA OpenedFit ==
  ASSUME NEW s, Sound(s, Lead), NEW K, NEW H, NEW X, Fit(s, K, H, X), NEW k, NEW thread, NEW mode,
         NEW stage \in {"turn", "queued"}
  PROVE  Fit(Opened(s, k, thread, mode, stage), K, H, X)
<1> DEFINE n == s.made + 1
           t == Opened(s, k, thread, mode, stage)
<1>1. CASE n \in Calls
  <2>1. /\ t.deferred = s.deferred /\ t.blocked = s.blocked
        /\ \A c \in Calls \ {n} : t.call[c] = s.call[c]
        /\ t.call[n].q = "none" /\ t.call[n].stage = stage /\ s.call[n].stage = "unmade"
    BY <1>1, OpenedRest
  <2> HIDE DEF t, n
  <2>2. Parked(t) = Parked(s)
    BY <1>1, <2>1 DEF Parked, Active
  <2>3. ASSUME NEW j PROVE AskedOf(t, j) = AskedOf(s, j) /\ OpenSubs(s, j) \subseteq OpenSubs(t, j)
    <3>1. \A c \in Parked(s) : c \in Calls \ {n}
      BY <2>1 DEF Parked, Active
    <3>2. AskedOf(t, j) = AskedOf(s, j)
      BY <2>1, <2>2, <3>1 DEF AskedOf
    <3>3. OpenSubs(s, j) \subseteq OpenSubs(t, j)
      BY <2>1 DEF OpenSubs, Active
    <3> QED
      BY <3>2, <3>3
  <2>4. ASSUME NEW c \in Calls PROVE AskSound(t, K, X, c)
    BY <1>1, <2>1, <2>2 DEF Fit, AskSound, Clock, Parked, Active
  <2>5. ASSUME NEW c \in Calls PROVE DrainSound(t, K, c)
    BY <2>1 DEF Fit, DrainSound, AfterTurn
  <2>6. ASSUME NEW c \in Calls PROVE HoldSound(t, H, c)
    <3>1. CASE c = n
      BY <2>1, <3>1 DEF HoldSound
    <3>2. CASE c # n
      <4>1. HoldSound(s, H, c) /\ t.call[c] = s.call[c]
        BY <2>1, <3>2 DEF Fit
      <4>2. \A d \in AskedOf(s, s.call[c].conv) : t.call[d] = s.call[d]
        BY <2>1 DEF AskedOf, Parked, Active
      <4> QED
        BY <2>3, <4>1, <4>2 DEF HoldSound
    <3> QED
      BY <3>1, <3>2
  <2> QED
    BY <2>4, <2>5, <2>6 DEF Fit, t
<1>2. CASE n \notin Calls
  <2>1. t.call = s.call /\ t.deferred = s.deferred /\ t.blocked = s.blocked
    BY <1>2 DEF Opened, Sound, Shaped, Parts
  <2> HIDE DEF t
  <2>2. \A c \in Calls : AskSound(t, K, X, c) /\ HoldSound(t, H, c) /\ DrainSound(t, K, c)
    BY <2>1 DEF Fit, AskSound, HoldSound, DrainSound, Clock, Parked, Active, AskedOf, OpenSubs
  <2> QED
    BY <2>2 DEF Fit, t
<1> QED
  BY <1>1, <1>2

\* Whoever is owed a result still hears of it when a call begins: a new
\* conversation is owed nothing, and one that is continued could be woken.
LEMMA OpenedHeard ==
  ASSUME NEW s, Sound(s, Lead), NEW K, Heard(s, K), NEW k, NEW thread,
         thread # Lead => CallsOn(s, thread) = {} /\ Resumable(s, thread),
         NEW mode, NEW stage \in {"turn", "queued"}
  PROVE  Heard(Opened(s, k, thread, mode, stage), K)
<1> DEFINE n == s.made + 1
           t == Opened(s, k, thread, mode, stage)
<1>1. CASE n \in Calls
  <2>1. /\ t.over = s.over /\ t.lead = s.lead /\ t.deferred = s.deferred
        /\ \A c \in Calls \ {n} : t.call[c] = s.call[c] /\ t.book[c] = s.book[c]
        /\ ~t.call[n].session /\ ~t.call[n].stopped
        /\ t.call[n].stage = stage /\ t.call[n].conv = IF thread = Lead THEN n ELSE thread
        /\ s.call[n].stage = "unmade" /\ \A c \in Calls : IsMade(s, c) => s.call[c].owner # n
    BY <1>1, OpenedRest
  <2> HIDE DEF t, n
  <2>2. ASSUME NEW j PROVE CallsOn(s, j) \subseteq CallsOn(t, j) /\ \A x \in CallsOn(s, j) : t.call[x] = s.call[x]
    BY <2>1 DEF CallsOn, Active
  <2>3. ASSUME NEW j, j # t.call[n].conv
        PROVE  CallsOn(t, j) = CallsOn(s, j) /\ (Resumable(t, j) => Resumable(s, j))
    <3>1. CallsOn(t, j) = CallsOn(s, j)
      BY <2>1, <2>2, <2>3 DEF CallsOn, Active
    <3>2. Resumable(t, j) => Resumable(s, j)
      BY <2>1 DEF Resumable
    <3> QED
      BY <3>1, <3>2
  <2>4. ASSUME NEW j, WillHear(s, j), j # n PROVE WillHear(t, j)
    <3>1. CASE j = Lead
      BY <2>1, <2>4, <3>1 DEF WillHear
    <3>2. CASE j # Lead
      <4>1. j # t.call[n].conv
        BY <2>1, <2>4, <3>2 DEF WillHear
      <4> QED
        BY <2>1, <2>2, <2>3, <2>4, <3>2, <4>1 DEF WillHear
    <3> QED
      BY <3>1, <3>2
  <2>5. ASSUME NEW j, AtWork(s, j) PROVE AtWork(t, j)
    BY <2>1, <2>2, <2>5 DEF AtWork
  <2>6. ASSUME ~s.over, NEW c \in Calls PROVE HearSound(t, K, c) /\ StopSound(t, c) /\ t.call[c].stage # "noted"
    <3>1. CASE c = n
      BY <2>1, <3>1 DEF HearSound, StopSound
    <3>2. CASE c # n
      <4>1. HearSound(s, K, c) /\ StopSound(s, c) /\ s.call[c].stage # "noted" /\ t.call[c] = s.call[c] /\ t.book[c] = s.book[c]
        BY <2>1, <2>6, <3>2 DEF Heard
      <4>2. s.call[c].stage \in {"done", "noted"} => s.call[c].owner # n
        BY <2>1 DEF IsMade
      <4>3. HearSound(t, K, c)
        BY <2>4, <4>1, <4>2 DEF HearSound
      <4>4. StopSound(t, c)
        BY <2>5, <4>1 DEF StopSound
      <4> QED
        BY <4>1, <4>3, <4>4
    <3> QED
      BY <3>1, <3>2
  <2> QED
    BY <2>1, <2>6 DEF Heard, t
<1>2. CASE n \notin Calls
  <2>1. /\ t.call = s.call /\ t.deferred = s.deferred /\ t.blocked = s.blocked /\ t.lead = s.lead
        /\ t.over = s.over /\ t.book = s.book
    BY <1>2 DEF Opened, Sound, Shaped, Parts
  <2> HIDE DEF t
  <2>2. Gentle(s, t)
    BY <2>1, GentleStutter
  <2> QED
    BY <2>2, GentleHeard DEF t
<1> QED
  BY <1>1, <1>2

\* What a wake that starts a turn leaves alone.
Woke(s, t) ==
  /\ t.over = s.over
  /\ \A c \in Calls : IsMade(s, c) =>
       /\ t.call[c].stage = s.call[c].stage /\ t.call[c].owner = s.call[c].owner /\ t.call[c].conv = s.call[c].conv
       /\ t.book[c] = "untold" => s.book[c] = "untold"
  /\ \A c \in Calls : ~IsMade(s, c) => t.call[c].stage \in {"unmade", "turn"}
  /\ Parked(t) \subseteq Parked(s)

\* A conversation nothing is called on holds nothing, and the lead never does.
LEMMA NothingHeld ==
  ASSUME NEW s, Sound(s, Lead), NEW k, k = Lead \/ CallsOn(s, k) = {}
  PROVE  HeldOn(s, k) = {} /\ (k = Lead => CallsOn(s, k) = {})
<1>1. ASSUME k = Lead, NEW c \in CallsOn(s, k) PROVE FALSE
  <2>1. c \in Calls /\ IsMade(s, c) /\ s.call[c].conv = Lead
    BY <1>1 DEF CallsOn, Active, IsMade
  <2> QED
    BY <2>1 DEF Sound, CallMade, Calls, Lead
<1> QED
  BY <1>1 DEF HeldOn

\* A turn that a wake starts, before its agent is told why.
LEMMA TurnStartedFit ==
  ASSUME NEW s, Sound(s, Lead), NEW k \in Convs, NEW A, NEW F, WakeOf(s, k, A, F) = "started",
         NEW K, NEW H, NEW X, Fit(s, K, H, X)
  PROVE  LET u == TurnStarted(s, k) IN
         /\ Shaped(u) /\ Fit(u, K, H, X) /\ HeldOn(u, k) = {} /\ Parked(u) = Parked(s)
         /\ u.over = s.over
         /\ \A c \in Calls : IsMade(s, c) => u.call[c] = s.call[c] /\ u.book[c] = s.book[c]
         /\ \A c \in Calls : ~IsMade(s, c) => u.call[c].stage \in {"unmade", "turn"}
<1> DEFINE u == TurnStarted(s, k)
<1>0. Shaped(u)
  BY TurnStartedSound DEF Sound
<1>1. CASE k = Lead
  <2>1. u = [s EXCEPT !.wake = TRUE]
    BY <1>1 DEF TurnStarted
  <2>2. /\ u.lead = s.lead /\ u.over = s.over /\ u.deferred = s.deferred /\ u.blocked = s.blocked
        /\ u.call = s.call /\ u.book = s.book
    BY <2>1 DEF Sound, Shaped, Parts
  <2> HIDE DEF u
  <2>3. Gentle(s, u)
    BY <2>2, GentleStutter
  <2>4. HeldOn(u, k) = {} /\ Parked(u) = Parked(s)
    BY <1>1, <2>2, NothingHeld DEF HeldOn, CallsOn, Parked, Active
  <2> QED
    BY <1>0, <2>2, <2>3, <2>4, GentleFit DEF u, IsMade
<1>2. CASE k # Lead
  <2> DEFINE n == s.made + 1
             o == s.call[k].owner
  <2>1. u = Opened(s, o, k, "async", "turn") /\ CallsOn(s, k) = {}
    BY <1>2 DEF TurnStarted, WakeOf
  <2>2. Fit(u, K, H, X)
    BY <2>1, OpenedFit
  <2>3. CASE n \in Calls
    <3>1. /\ u.over = s.over
          /\ \A c \in Calls \ {n} : u.call[c] = s.call[c] /\ u.book[c] = s.book[c]
          /\ u.call[n].q = "none" /\ u.call[n].stage = "turn" /\ s.call[n].stage = "unmade"
      BY <2>1, <2>3, OpenedRest
    <3> HIDE DEF u, n
    <3>2. Parked(u) = Parked(s)
      BY <2>3, <3>1 DEF Parked, Active
    <3>3. HeldOn(u, k) = {}
      BY <2>1, <3>1 DEF HeldOn, CallsOn, Active
    <3> QED
      BY <1>0, <2>2, <3>1, <3>2, <3>3 DEF u, IsMade
  <2>4. CASE n \notin Calls
    <3>1. u.over = s.over /\ u.call = s.call /\ u.book = s.book
      BY <2>1, <2>4 DEF Opened, Sound, Shaped, Parts
    <3> HIDE DEF u, n
    <3>2. Parked(u) = Parked(s) /\ HeldOn(u, k) = {}
      BY <2>1, <3>1 DEF Parked, Active, HeldOn, CallsOn
    <3> QED
      BY <1>0, <2>2, <3>1, <3>2 DEF u, IsMade
  <2> QED
    BY <2>3, <2>4
<1> QED
  BY <1>1, <1>2

\* That turn takes nothing from anybody.
LEMMA TurnStartedHeard ==
  ASSUME NEW s, Sound(s, Lead), NEW k \in Convs, NEW A, NEW F, WakeOf(s, k, A, F) = "started", NEW K, Heard(s, K)
  PROVE  Heard(TurnStarted(s, k), K)
<1> DEFINE u == TurnStarted(s, k)
<1>1. CASE k = Lead
  <2>1. u = [s EXCEPT !.wake = TRUE]
    BY <1>1 DEF TurnStarted
  <2>2. /\ u.lead = s.lead /\ u.over = s.over /\ u.deferred = s.deferred /\ u.blocked = s.blocked
        /\ u.call = s.call /\ u.book = s.book
    BY <2>1 DEF Sound, Shaped, Parts
  <2> HIDE DEF u
  <2> QED
    BY <2>2, GentleStutter, GentleHeard DEF u
<1>2. CASE k # Lead
  <2>1. u = Opened(s, s.call[k].owner, k, "async", "turn") /\ CallsOn(s, k) = {} /\ Resumable(s, k)
    BY <1>2 DEF TurnStarted, WakeOf
  <2> QED
    BY <2>1, OpenedHeard
<1> QED
  BY <1>1, <1>2

\* A wake that starts a turn tells of its questions, which get their clocks,
\* and of its results.
LEMMA StartedFit ==
  ASSUME NEW s, Sound(s, Lead), NEW k \in Convs, NEW A, A \subseteq AskedOf(s, k), NEW F,
         WakeOf(s, k, A, F) = "started", NEW K, NEW H, NEW X, Fit(s, K, H, X)
  PROVE  LET t == Woken(s, k, A, F) IN
         /\ Fit(t, K, H, X) /\ Woke(s, t)
         /\ \A c \in A : Clock(t, c)
         /\ \A c \in F : c \in Calls => t.book[c] # "untold" \/ ~IsMade(s, c)
         /\ Gentle(TurnStarted(s, k), t)
<1> DEFINE u == TurnStarted(s, k)
           t == Told(u, A, F)
<1>0. Woken(s, k, A, F) = t
  BY DEF Woken
<1>1. /\ Shaped(u) /\ Fit(u, K, H, X) /\ HeldOn(u, k) = {} /\ Parked(u) = Parked(s)
      /\ u.over = s.over
      /\ \A c \in Calls : IsMade(s, c) => u.call[c] = s.call[c] /\ u.book[c] = s.book[c]
      /\ \A c \in Calls : ~IsMade(s, c) => u.call[c].stage \in {"unmade", "turn"}
  BY TurnStartedFit
<1> HIDE DEF u
<1>2. /\ t.over = u.over /\ t.blocked = u.blocked
      /\ \A c \in Calls :
              /\ t.call[c].owner = u.call[c].owner /\ t.call[c].conv = u.call[c].conv
              /\ t.call[c].stage = u.call[c].stage
              /\ t.call[c].timed = IF c \in A THEN u.call[c].owner \notin u.blocked ELSE u.call[c].timed
              /\ t.book[c] = IF c \in F /\ u.book[c] # "no" THEN "told" ELSE u.book[c]
  BY <1>1, ToldFields
<1>3. Gentle(u, t)
  <2>1. \A c \in A : c \in Parked(s) /\ c \in Calls /\ IsMade(s, c) /\ s.call[c].owner = k
    BY DEF AskedOf, Parked, Active, IsMade
  <2> QED
    BY <1>1, <2>1, ToldGentle
<1> HIDE DEF t
<1>4. Fit(t, K, H, X) /\ Parked(t) \subseteq Parked(s)
  BY <1>1, <1>3, GentleFit, GentleSets
<1>5. \A c \in A : Clock(t, c)
  <2>1. \A c \in A : c \in Calls
    BY DEF AskedOf, Parked, Active
  <2> QED
    BY <1>2, <2>1 DEF Clock
<1>6. Woke(s, t)
  BY <1>1, <1>2, <1>4 DEF Woke
<1>7. \A c \in F : c \in Calls => t.book[c] # "untold" \/ ~IsMade(s, c)
  BY <1>1, <1>2
<1> QED
  BY <1>0, <1>3, <1>4, <1>5, <1>6, <1>7 DEF u

-----------------------------------------------------------------------------
(* Draining an agent: k's questions and results are told, given up, or wait  *)
(* for the end of the call its conversation works on.                        *)

\* What is fit but for k is fit, when k has no question and no call past its
\* turn that nobody will come to.
LEMMA FitBut ==
  ASSUME NEW s, NEW k, NEW H, Fit(s, {k}, H, {}), \A c \in AskedOf(s, k) : Clock(s, c),
         k \in s.deferred \/ \A c \in Calls : s.call[c].stage \in AfterTurn => s.call[c].conv # k
  PROVE  Fit(s, {}, H, {})
<1> SUFFICES ASSUME NEW c \in Calls PROVE AskSound(s, {}, {}, c) /\ HoldSound(s, H, c) /\ DrainSound(s, {}, c)
  BY DEF Fit
<1>1. AskSound(s, {k}, {}, c) /\ HoldSound(s, H, c) /\ DrainSound(s, {k}, c)
  BY DEF Fit
<1> QED
  BY <1>1 DEF AskSound, DrainSound, AskedOf

\* Once those whose drain was under way hear again, all do.
LEMMA HeardBut ==
  ASSUME NEW s, NEW k, Heard(s, {k}),
         s.over \/ WillHear(s, k) \/ \A c \in Calls : s.call[c].stage = "done" /\ s.call[c].owner = k => s.book[c] # "untold"
  PROVE  Heard(s, {})
BY DEF Heard, HearSound

\* A drain answers for the questions and results of the conversation it drains.
LEMMA DrainedWhenFreeFit ==
  ASSUME NEW s, Sound(s, Lead), NEW k \in Convs, NEW H, Fit(s, {k}, H, {})
  PROVE  /\ Fit(DrainedWhenFree(s, k), {}, H, {})
         /\ Heard(s, {k}) => Heard(DrainedWhenFree(s, k), {})
<1> DEFINE t == Orphaned(s, {c \in AskedOf(s, k) : s.call[c].q = "told"})
           asked == {c \in AskedOf(t, k) : t.call[c].q = "put"}
           F == Untold(t, k)
           r == DrainedWhenFree(s, k)
<1>0. Shaped(s) /\ OnePerConv(s)
  BY DEF Sound
<1>1. CASE CallsOn(s, k) # {}
  <2> DEFINE d == Deferred(s, k)
  <2>1. r = d /\ Gentle(s, d) /\ d.deferred = s.deferred \union {k}
    BY <1>0, <1>1, DeferredGentle DEF DrainedWhenFree
  <2> HIDE DEF d, r
  <2>2. Fit(d, {k}, H, {}) /\ CallsOn(d, k) # {} /\ k # Lead
    BY <1>1, <2>1, GentleFit, GentleSets, NothingHeld
  <2>3. Fit(d, {}, H, {})
    <3>1. \A c \in AskedOf(d, k) : Clock(d, c)
      BY <2>1 DEF AskedOf, Clock
    <3> QED
      BY <2>1, <2>2, <3>1, FitBut
  <2>4. WillHear(d, k)
    BY <2>1, <2>2 DEF WillHear
  <2>5. Heard(s, {k}) => Heard(d, {})
    BY <2>1, <2>4, GentleHeard, HeardBut
  <2> QED
    BY <2>1, <2>3, <2>5 DEF r
<1>2. CASE CallsOn(s, k) = {}
  <2>1. /\ r = IF WakeOf(t, k, asked, F) = "none" THEN Orphaned(t, asked) ELSE Woken(t, k, asked, F)
    BY <1>2 DEF DrainedWhenFree
  <2>2. Sound(t, Lead) /\ Shaped(t) /\ Gentle(s, t) /\ CallsOn(t, k) = {}
    BY <1>0, <1>2, OrphanedLike, OrphanedGentle, LikeSound, GentleSets DEF Like
  <2>3. Parked(t) \cap {c \in AskedOf(s, k) : s.call[c].q = "told"} = {} /\ Hushed(s, t)
    BY <1>0, OrphanedAsks
  <2> HIDE DEF t
  <2>4. Fit(t, {k}, H, {}) /\ HeldOn(t, k) = {}
    BY <2>2, GentleFit, NothingHeld
  <2>5. AskedOf(t, k) = asked
    <3> SUFFICES ASSUME NEW c \in AskedOf(t, k) PROVE t.call[c].q = "put"
      OBVIOUS
    <3>1. c \in Calls /\ c \in Parked(t) /\ t.call[c].q # "none"
      BY DEF AskedOf, Parked, Active
    <3>2. c \in AskedOf(s, k)
      BY <2>2, GentleSets
    <3>3. s.call[c].q # "told" /\ s.call[c].q \in {"none", "put", "told"}
      BY <2>3, <3>1, <3>2 DEF Fit, AskSound
    <3> QED
      BY <2>3, <3>1, <3>3 DEF Hushed
  <2> HIDE DEF asked, F
  <2>6. CASE WakeOf(t, k, asked, F) = "none"
    <3> DEFINE v == Orphaned(t, asked)
    <3>1. r = v /\ Gentle(t, v) /\ Parked(v) \cap asked = {}
      BY <2>1, <2>2, <2>6, OrphanedGentle, OrphanedAsks
    <3> HIDE DEF v, r
    <3>2. AskedOf(v, k) = {}
      BY <2>5, <3>1, GentleSets DEF AskedOf
    <3>3. CallsOn(v, k) = {} /\ (Resumable(v, k) <=> Resumable(t, k)) /\ Fit(v, {k}, H, {})
      BY <2>2, <2>4, <3>1, GentleSets, GentleFit
    <3>4. \A c \in Calls : v.call[c].stage \in AfterTurn => v.call[c].conv # k
      BY <3>3 DEF CallsOn, Active, AfterTurn
    <3>5. Fit(v, {}, H, {})
      BY <3>2, <3>3, <3>4, FitBut
    <3>6. F = {} \/ t.over \/ (k # Lead /\ ~Resumable(t, k))
      BY <2>2, <2>4, <2>6 DEF WakeOf
    <3>7. ASSUME F = {}, NEW c \in Calls, v.call[c].stage = "done", v.call[c].owner = k
          PROVE  v.book[c] # "untold"
      <4>1. GentleOn(t, v, c)
        BY <3>1 DEF Gentle
      <4>2. t.call[c].stage = "done" /\ t.call[c].owner = k /\ (v.book[c] = "untold" => t.book[c] = "untold")
        BY <3>7, <4>1 DEF GentleOn, Follows, IsOpen
      <4> QED
        BY <3>7, <4>2 DEF F, Untold, Active
    <3>8. v.over \/ WillHear(v, k) \/ F = {}
      BY <3>1, <3>3, <3>6 DEF WillHear, Gentle
    <3>9. Heard(s, {k}) => Heard(v, {k})
      BY <2>2, <3>1, GentleHeard
    <3>10. Heard(s, {k}) => Heard(v, {})
      BY <3>7, <3>8, <3>9, HeardBut
    <3> QED
      BY <3>1, <3>5, <3>10 DEF r
  <2>7. CASE WakeOf(t, k, asked, F) # "none"
    <3> DEFINE v == Woken(t, k, asked, F)
    <3>1. r = v /\ WakeOf(t, k, asked, F) = "started"
      BY <2>1, <2>2, <2>4, <2>7 DEF WakeOf
    <3>2. /\ Fit(v, {k}, H, {}) /\ Woke(t, v)
          /\ \A c \in asked : Clock(v, c)
          /\ \A c \in F : c \in Calls => v.book[c] # "untold" \/ ~IsMade(t, c)
          /\ Gentle(TurnStarted(t, k), v)
      BY <2>2, <2>4, <2>5, <3>1, StartedFit
    <3> HIDE DEF v, r
    <3>3. \A c \in AskedOf(v, k) : Clock(v, c)
      <4> SUFFICES ASSUME NEW c \in AskedOf(v, k) PROVE c \in AskedOf(t, k)
        BY <2>5, <3>2
      <4>1. c \in Parked(t) /\ c \in Calls /\ IsMade(t, c) /\ v.call[c].owner = k
        BY <3>2 DEF AskedOf, Parked, Active, Woke, IsMade
      <4> QED
        BY <3>2, <4>1 DEF Woke, AskedOf
    <3>4. \A c \in Calls : v.call[c].stage \in AfterTurn => v.call[c].conv # k
      BY <2>2, <3>2 DEF Woke, CallsOn, Active, AfterTurn
    <3>5. Fit(v, {}, H, {})
      BY <3>2, <3>3, <3>4, FitBut
    <3>6. ASSUME NEW c \in Calls, v.call[c].stage = "done", v.call[c].owner = k
          PROVE  v.book[c] # "untold"
      <4>1. IsMade(t, c) /\ t.call[c].stage = "done" /\ t.call[c].owner = k
            /\ (v.book[c] = "untold" => t.book[c] = "untold")
        BY <3>2, <3>6 DEF Woke
      <4> QED
        BY <3>2, <4>1 DEF F, Untold, Active
    <3>7. Heard(s, {k}) => Heard(v, {k})
      BY <2>2, <3>1, <3>2, GentleHeard, TurnStartedHeard
    <3>8. Heard(s, {k}) => Heard(v, {})
      BY <3>6, <3>7, HeardBut
    <3> QED
      BY <3>1, <3>5, <3>8 DEF r
  <2> QED
    BY <2>6, <2>7
<1> QED
  BY <1>1, <1>2

\* A conversation whose turn has ended is blocked by nothing any more.
LEMMA DrainedCallerFit ==
  ASSUME NEW s, Sound(s, Lead), NEW k \in Convs, NEW H, Fit(s, {k}, H, {})
  PROVE  /\ Fit(DrainedCaller(s, k), {}, H, {})
         /\ Heard(s, {k}) => Heard(DrainedCaller(s, k), {})
<1> DEFINE t == [s EXCEPT !.blocked = @ \ {k}]
<1>0. DrainedCaller(s, k) = DrainedWhenFree(t, k)
  BY DEF DrainedCaller
<1>1. DOMAIN t = Parts /\ t.made = s.made /\ t.wait = s.wait /\ t.heard = s.heard /\ t.lead = s.lead /\ t.book = s.book
      /\ t.call = s.call /\ t.over = s.over /\ t.deferred = s.deferred /\ t.blocked = s.blocked \ {k}
  BY DEF Sound, Shaped, Parts
<1> HIDE DEF t
<1>2. Like(s, t)
  BY <1>1 DEF Sound, Shaped, Like, SameLife
<1>3. Sound(t, Lead)
  BY <1>2, LikeSound
<1>4. ASSUME NEW c \in Calls PROVE AskSound(t, {k}, {}, c) /\ HoldSound(t, H, c) /\ DrainSound(t, {k}, c)
  <2>1. AskSound(s, {k}, {}, c) /\ HoldSound(s, H, c) /\ DrainSound(s, {k}, c)
    BY DEF Fit
  <2> QED
    BY <1>1, <2>1 DEF AskSound, HoldSound, DrainSound, Clock, Parked, Active, AskedOf, OpenSubs
<1>5. Fit(t, {k}, H, {})
  BY <1>4 DEF Fit
<1>6. Heard(s, {k}) => Heard(t, {k})
  BY <1>1 DEF Heard, HearSound, StopSound, WillHear, AtWork, CallsOn, Active, Resumable
<1> QED
  BY <1>0, <1>3, <1>5, <1>6, DrainedWhenFreeFit

\* A caller that has stopped working is told of a call that settles, will look
\* at it later, or can never be woken.
LEMMA NotedFit ==
  ASSUME NEW s, Sound(s, Lead), NEW c \in Calls, s.call[c].stage = "writing", Fit(s, {}, {}, {})
  PROVE  LET t == Noted(s, c) IN
         /\ Fit(t, {}, {}, {}) /\ t.call[c].stage = "writing" /\ t.call[c].owner = s.call[c].owner
         /\ Heard(s, {}) => Heard(t, {})
         /\ t.book[c] = "untold" => t.over \/ WillHear(t, s.call[c].owner)
<1> DEFINE k == s.call[c].owner
           t == Noted(s, c)
           wake == WakeOf(s, k, {}, {c})
<1>0. Shaped(s) /\ OnePerConv(s) /\ k \in Convs /\ IsMade(s, c)
  BY DEF Sound, CallMade, IsMade
<1>1. CASE s.book[c] # "untold" \/ Live(s, k)
  <2>1. t = s
    BY <1>1 DEF Noted
  <2>2. Live(s, k) => WillHear(s, k)
    BY DEF Live, WillHear
  <2> QED
    BY <1>1, <2>1, <2>2
<1>2. ASSUME NEW v, t = v, Gentle(s, v)
      PROVE  /\ Fit(v, {}, {}, {}) /\ v.call[c].owner = k /\ v.call[c].stage = "writing"
             /\ Heard(s, {}) => Heard(v, {})
             /\ WillHear(s, k) => WillHear(v, k)
  <2>1. GentleOn(s, v, c)
    BY <1>2 DEF Gentle
  <2>2. v.call[c].owner = k /\ v.call[c].stage = "writing"
    BY <2>1 DEF GentleOn, Follows
  <2> QED
    BY <1>2, <2>2, GentleFit, GentleHeard, GentleWillHear
<1>3. CASE s.book[c] = "untold" /\ ~Live(s, k)
  <2>0. t = Woken(s, k, {}, {c})
    BY <1>3 DEF Noted
  <2>1. CASE wake = "held"
    <3>1. t = ReviewedIfHeld(s, k) /\ HeldOn(s, k) # {}
      BY <2>0, <2>1 DEF Woken, WakeOf
    <3>2. Gentle(s, t)
      BY <1>0, <3>1, ReviewedIfHeldFit
    <3>3. PICK x \in Calls : x \in CallsOn(s, k) /\ s.call[x].stage = "held" /\ s.call[x].conv = k
      BY <3>1 DEF HeldOn, CallsOn, Active
    <3>4. k \in s.deferred /\ k # Lead
      BY <3>1, <3>3, NothingHeld DEF Fit, DrainSound, AfterTurn
    <3>5. WillHear(s, k)
      BY <3>3, <3>4 DEF WillHear
    <3> QED
      BY <1>2, <3>2, <3>5
  <2>2. CASE wake = "deferred"
    <3>1. t = Deferred(s, k) /\ k # Lead /\ CallsOn(s, k) # {}
      BY <2>0, <2>2 DEF Woken, WakeOf
    <3>2. Gentle(s, t) /\ k \in t.deferred
      BY <1>0, <3>1, DeferredGentle
    <3>3. WillHear(t, k)
      BY <3>1, <3>2, GentleSets DEF WillHear
    <3> QED
      BY <1>2, <3>2, <3>3
  <2>3. CASE wake = "started"
    <3> DEFINE u == Woken(s, k, {}, {c})
    <3>1. /\ Fit(u, {}, {}, {}) /\ Woke(s, u) /\ (u.book[c] # "untold" \/ ~IsMade(s, c))
          /\ Gentle(TurnStarted(s, k), u)
      BY <1>0, <2>3, StartedFit
    <3>2. Heard(s, {}) => Heard(u, {})
      BY <1>0, <2>3, <3>1, TurnStartedHeard, GentleHeard
    <3> HIDE DEF u
    <3>3. u.call[c].stage = "writing" /\ u.call[c].owner = k
      BY <1>0, <3>1 DEF Woke
    <3> QED
      BY <1>0, <2>0, <3>1, <3>2, <3>3 DEF u
  <2>4. CASE wake \notin {"held", "deferred", "started"}
    <3>1. t = s
      BY <2>0, <2>4 DEF Woken
    <3>2. s.over \/ WillHear(s, k)
      BY <2>4 DEF WakeOf, WillHear
    <3> QED
      BY <3>1, <3>2
  <2> QED
    BY <2>1, <2>2, <2>3, <2>4
<1> QED
  BY <1>1, <1>3

\* The call is done: the hold of its caller is not looked at yet, and what
\* waited for its own end is drained next.
Ended(u, t, c) ==
  /\ t.lead = u.lead /\ t.over = u.over /\ t.deferred = u.deferred /\ t.blocked = u.blocked /\ t.book = u.book
  /\ \A d \in Calls \ {c} : t.call[d] = u.call[d]
  /\ t.call[c].stage = "done" /\ t.call[c].owner = u.call[c].owner /\ t.call[c].conv = u.call[c].conv
  /\ t.call[c].q = "none"
  /\ IsOpen(u, c) /\ u.call[c].stage \in {"queued", "writing", "noted"} /\ c \notin Parked(u)

\* A call that is done leaves only the hold of its caller to look at.
LEMMA DoneFit ==
  ASSUME NEW u, NEW t, NEW c \in Calls, Ended(u, t, c), Fit(u, {}, {}, {})
  PROVE  Fit(t, {}, {u.call[c].owner}, {})
<1>1. Parked(t) = Parked(u) /\ \A d \in Parked(u) : d \in Calls \ {c}
  BY DEF Ended, Parked, Active
<1>2. ASSUME NEW j PROVE AskedOf(t, j) = AskedOf(u, j)
  BY <1>1 DEF Ended, AskedOf
<1>3. ASSUME NEW j, j # u.call[c].owner PROVE OpenSubs(t, j) = OpenSubs(u, j)
  BY <1>3 DEF Ended, OpenSubs, Active
<1>4. ASSUME NEW d \in Calls, d # c
      PROVE  AskSound(t, {}, {}, d) /\ HoldSound(t, {u.call[c].owner}, d) /\ DrainSound(t, {}, d)
  <2>1. AskSound(u, {}, {}, d) /\ HoldSound(u, {}, d) /\ DrainSound(u, {}, d) /\ t.call[d] = u.call[d]
        /\ t.deferred = u.deferred /\ t.blocked = u.blocked
    BY <1>4 DEF Fit, Ended
  <2>2. AskSound(t, {}, {}, d) /\ DrainSound(t, {}, d)
    BY <1>1, <2>1 DEF AskSound, DrainSound, Clock
  <2>3. \A e \in AskedOf(u, u.call[d].conv) : t.call[e] = u.call[e]
    BY <1>1 DEF Ended, AskedOf
  <2>4. HoldSound(t, {u.call[c].owner}, d)
    BY <1>2, <1>3, <2>1, <2>3 DEF HoldSound
  <2> QED
    BY <2>2, <2>4
<1>5. AskSound(t, {}, {}, c) /\ HoldSound(t, {u.call[c].owner}, c) /\ DrainSound(t, {}, c)
  BY <1>1 DEF Ended, AskSound, HoldSound, DrainSound, AfterTurn
<1> QED
  BY <1>4, <1>5 DEF Fit

\* Its result is to be heard where its caller will hear, or by the drain it waited for.
LEMMA DoneHeard ==
  ASSUME NEW u, Sound(u, Lead), NEW t, NEW c \in Calls, Ended(u, t, c), Heard(u, {}),
         u.book[c] = "untold" => u.over \/ WillHear(u, u.call[c].owner)
  PROVE  Heard(t, IF u.call[c].conv \in u.deferred THEN {u.call[c].conv} ELSE {})
<1> DEFINE k == u.call[c].conv
           K == IF k \in u.deferred THEN {k} ELSE {}
<1>1. k # Lead
  BY DEF Sound, CallMade, Ended, IsOpen, IsMade, Calls, Lead
<1>2. CallsOn(u, k) = {c}
  BY DEF Sound, OnePerConv, Ended, CallsOn, Active, IsOpen
<1>3. ASSUME NEW j, j # k
      PROVE  CallsOn(t, j) = CallsOn(u, j) /\ (Resumable(t, j) => Resumable(u, j))
             /\ \A x \in CallsOn(u, j) : t.call[x] = u.call[x]
  BY <1>3 DEF Ended, CallsOn, Active, Resumable
<1>4. WillHear(u, k) => k \in u.deferred
  BY <1>1, <1>2 DEF WillHear, Ended
<1>5. ASSUME NEW j, WillHear(u, j) PROVE j \in K \/ WillHear(t, j)
  <2>1. CASE j = k
    BY <1>4, <1>5, <2>1
  <2>2. CASE j # k
    BY <1>3, <1>5, <2>2 DEF WillHear, Ended
  <2> QED
    BY <2>1, <2>2
<1>6. ASSUME NEW j, AtWork(u, j) PROVE AtWork(t, j)
  <2>1. \A x \in CallsOn(u, j) : u.call[x].stage = "turn" => x \in CallsOn(t, j) /\ t.call[x] = u.call[x]
    BY DEF Ended, CallsOn, Active
  <2> QED
    BY <1>6, <2>1 DEF AtWork, Ended
<1> HIDE DEF K
<1>7. ASSUME ~u.over, NEW d \in Calls
      PROVE  HearSound(t, K, d) /\ StopSound(t, d) /\ t.call[d].stage # "noted"
  <2>1. CASE d = c
    <3>1. HearSound(t, K, d)
      BY <1>5, <1>7, <2>1 DEF HearSound, Ended
    <3> QED
      BY <2>1, <3>1 DEF StopSound, Ended
  <2>2. CASE d # c
    <3>1. HearSound(u, {}, d) /\ StopSound(u, d) /\ u.call[d].stage # "noted" /\ t.call[d] = u.call[d]
          /\ t.book = u.book
      BY <1>7, <2>2 DEF Heard, Ended
    <3>2. HearSound(t, K, d)
      BY <1>5, <3>1 DEF HearSound
    <3>3. StopSound(t, d)
      BY <1>6, <3>1 DEF StopSound
    <3> QED
      BY <3>1, <3>2, <3>3
  <2> QED
    BY <2>1, <2>2
<1> QED
  BY <1>7 DEF Heard, Ended, K

\* The whole of a call's settling.
LEMMA SettledFit ==
  ASSUME NEW s, Sound(s, Lead), NEW c \in Calls, NobodyWaitsFrom(s, c),
         s.call[c].stage \in {"queued", "writing", "noted"}, Fit(s, {}, {}, {}), NEW session, NEW w
  PROVE  /\ Fit(Settled(s, c, session, w), {}, {}, {})
         /\ Heard(s, {}) /\ (s.book[c] = "untold" => s.over \/ WillHear(s, s.call[c].owner))
              => Heard(Settled(s, c, session, w), {})
<1> DEFINE u == Unparked(s, {c})
           old == s.call[c]
           k == old.conv
           gone == [NoCall EXCEPT !.stage = "done", !.owner = old.owner, !.conv = old.conv,
                                  !.mode = old.mode, !.depth = old.depth, !.session = session]
           t == [u EXCEPT !.call[c] = gone]
           v == ReviewedIfHeld(t, old.owner)
           a == WaitsAnswered(v, c, w)
           b == [a EXCEPT !.deferred = @ \ {old.conv}]
           told == Heard(s, {}) /\ (s.book[c] = "untold" => s.over \/ WillHear(s, s.call[c].owner))
           K == IF k \in u.deferred THEN {k} ELSE {}
<1>1. Settled(s, c, session, w) = IF k \in a.deferred THEN DrainedWhenFree(b, k) ELSE a
  BY DEF Settled
<1>2. /\ Like(s, u) /\ Gentle(s, u) /\ Parked(u) \cap {c} = {} /\ u.book = s.book
  BY UnparkedLike, UnparkedGentle, UnparkedAsks DEF Sound
<1>3. /\ DOMAIN gone = Fields /\ gone.stage = "done" /\ gone.mode = old.mode
      /\ gone.owner = old.owner /\ gone.conv = old.conv /\ gone.q = "none"
  BY DEF NoCall, Fields
<1>4. Sound(u, Lead) /\ Keeps(s, u) /\ Shaped(u)
  BY <1>2, LikeSound, LikeKeeps DEF Like
<1>5. IsOpen(u, c) /\ NobodyWaitsFrom(u, c) /\ u.call[c].stage = old.stage
      /\ u.call[c].mode = old.mode /\ u.call[c].owner = old.owner /\ u.call[c].conv = old.conv
  BY <1>2, <1>4, NobodyStillWaits DEF IsOpen, Like, Gentle, GentleOn, Follows
<1>6. Fit(u, {}, {}, {}) /\ (told => Heard(u, {})) /\ u.over = s.over
      /\ (WillHear(s, old.owner) => WillHear(u, old.owner))
  BY <1>2, GentleFit, GentleHeard, GentleWillHear DEF Gentle
<1> HIDE DEF u, gone
<1>7. /\ DOMAIN t = Parts /\ t.made = u.made /\ t.heard = u.heard /\ t.lead = u.lead /\ t.wait = u.wait
      /\ t.book = u.book /\ DOMAIN t.call = Calls /\ t.over = u.over /\ t.deferred = u.deferred
      /\ t.blocked = u.blocked
      /\ \A d \in Calls \ {c} : t.call[d] = u.call[d]
      /\ t.call[c] = gone
  BY <1>4 DEF Shaped, Parts
<1> HIDE DEF t
<1>8. Shaped(t) /\ Ended(u, t, c)
  BY <1>2, <1>3, <1>4, <1>5, <1>7 DEF Shaped, Ended
<1>9. Sound(t, c)
  BY <1>3, <1>4, <1>5, <1>7, <1>8, DoneSound
<1>10. Fit(t, {}, {old.owner}, {})
  BY <1>5, <1>6, <1>8, DoneFit
<1>11. told => Heard(t, K)
  BY <1>2, <1>4, <1>5, <1>6, <1>8, DoneHeard
<1> HIDE DEF told, K
<1>12. OnePerConv(t) /\ Like(t, v)
  BY <1>8, <1>9, ReviewedIfHeldLike DEF Sound
<1>13. Gentle(t, v) /\ Fit(v, {}, {}, {})
  <2>1. Fit(v, {}, {old.owner} \ {old.owner}, {}) /\ Gentle(t, v)
    BY <1>8, <1>10, <1>12, ReviewedIfHeldFit
  <2>2. {old.owner} \ {old.owner} = {}
    OBVIOUS
  <2> QED
    BY <2>1, <2>2
<1> HIDE DEF v
<1>14. Sound(v, c) /\ v.call[c].stage = "done" /\ Shaped(v)
  BY <1>3, <1>7, <1>9, <1>12, LikeSound DEF Like, SameLife
<1>15. Sound(a, Lead) /\ Gentle(v, a)
  BY <1>14, WaitsAnsweredSound, WaitsAnsweredGentle
<1> HIDE DEF a
<1>16. Fit(a, {}, {}, {}) /\ (told => Heard(a, K))
  BY <1>11, <1>13, <1>15, GentleFit, GentleHeard
<1>17. k \in u.deferred => k \in a.deferred
  BY <1>7, <1>13, <1>15 DEF Gentle
<1>18. CASE k \notin a.deferred
  BY <1>1, <1>16, <1>17, <1>18 DEF K, told
<1>19. CASE k \in a.deferred
  <2>1. /\ DOMAIN b = Parts /\ b.made = a.made /\ b.heard = a.heard /\ b.lead = a.lead /\ b.wait = a.wait
        /\ b.call = a.call /\ b.book = a.book /\ b.over = a.over /\ b.blocked = a.blocked
        /\ b.deferred = a.deferred \ {k}
    BY <1>15 DEF Sound, Shaped, Parts
  <2> HIDE DEF b
  <2>2. Like(a, b)
    BY <1>15, <2>1 DEF Sound, Shaped, Like, SameLife
  <2>3. Sound(b, Lead)
    BY <1>15, <2>2, LikeSound
  <2>4. k \in Convs
    <3>1. CallMade(s, c) /\ IsMade(s, c)
      BY DEF Sound, IsMade
    <3> QED
      BY <3>1 DEF CallMade, Convs
  <2>5. ASSUME NEW d \in Calls PROVE AskSound(b, {k}, {}, d) /\ HoldSound(b, {}, d) /\ DrainSound(b, {k}, d)
    <3>1. AskSound(a, {}, {}, d) /\ HoldSound(a, {}, d) /\ DrainSound(a, {}, d)
      BY <1>16 DEF Fit
    <3> QED
      BY <2>1, <3>1 DEF AskSound, HoldSound, DrainSound, Clock, Parked, Active, AskedOf, OpenSubs
  <2>6. Fit(b, {k}, {}, {})
    BY <2>5 DEF Fit
  <2>7. told => Heard(b, {k})
    <3> SUFFICES ASSUME told PROVE Heard(b, {k})
      OBVIOUS
    <3>1. Heard(a, K) /\ K \subseteq {k}
      BY <1>16 DEF K
    <3>2. ASSUME NEW j, j # k, WillHear(a, j) PROVE WillHear(b, j)
      BY <2>1, <3>2 DEF WillHear, CallsOn, Active, Resumable
    <3>3. ASSUME NEW j, AtWork(a, j) PROVE AtWork(b, j)
      BY <2>1, <3>3 DEF AtWork, CallsOn, Active
    <3> QED
      BY <2>1, <3>1, <3>2, <3>3 DEF Heard, HearSound, StopSound
  <2> QED
    BY <1>1, <1>19, <2>3, <2>4, <2>6, <2>7, DrainedWhenFreeFit DEF told
<1> QED
  BY <1>18, <1>19

-----------------------------------------------------------------------------
(* Every step keeps it.                                                      *)

\* What a step from the present book must leave.
Lasting(t) == Fit(t, {}, {}, {}) /\ (Heard(run, {}) => Heard(t, {}))

\* The book, sound and fit, with no reactions under way.
AtRest == Sound(run, Lead) /\ Fit(run, {}, {}, {}) /\ \A c \in Calls : ~Ready(run, c)

\* A gentle step lasts.
LEMMA GentleLasting ==
  ASSUME NEW t, AtRest, Gentle(run, t)
  PROVE  Lasting(t)
BY GentleFit, GentleHeard DEF Lasting, AtRest

\* The wait of a sync call that was just opened.
LEMMA SyncWaitsGentle ==
  ASSUME NEW o, Shaped(o), NEW w, NEW k, NEW n \in Calls, IsOpen(o, n), ~Ready(o, n)
  PROVE  Gentle(o, SyncWaits(o, w, k, n))
<1> DEFINE q == Unseen(o, k, n)
           v == Collectable(o, {n})
<1>1. CASE q # 0
  <2>1. SyncWaits(o, w, k, n) = Seen(v, q) /\ q \in Calls
    BY <1>1, UnseenIsACall DEF SyncWaits
  <2> HIDE DEF q
  <2>2. Shaped(v) /\ Gentle(o, v)
    BY CollectableFields, CollectableGentle
  <2> HIDE DEF v
  <2> QED
    BY <2>1, <2>2, SeenGentle, GentleInTurn
<1>2. CASE q = 0
  BY <1>2, WaitsGentle DEF SyncWaits
<1> QED
  BY <1>1, <1>2

\* call_agent.
LEMMA CallAgentLasts ==
  ASSUME NEW k \in Convs, AtRest, CallAgent(k)
  PROVE  Lasting(run')
<1>1. PICK t \in {Lead} \union {c \in Calls : MayContinue(k, c)},
           stage \in {"turn"} \union ({"queued"} \intersect weather) :
        \/ \E mode \in {"async", "fire"} \intersect weather : Becomes(Opened(run, k, t, mode, stage))
        \/ \E w \in Requests :
             /\ "sync" \in weather /\ Free(w) /\ run.made < MaxCalls
             /\ Becomes(SyncWaits(Opened(run, k, t, "sync", stage), w, k, run.made + 1))
  BY DEF CallAgent
<1>2. stage \in {"turn", "queued"} /\ (t # Lead => CallsOn(run, t) = {} /\ Resumable(run, t))
  BY DEF MayContinue
<1>3. ASSUME NEW mode PROVE Lasting(Opened(run, k, t, mode, stage))
  BY <1>2, OpenedFit, OpenedHeard DEF Lasting, AtRest
<1>4. CASE \E mode \in {"async", "fire"} \intersect weather : Becomes(Opened(run, k, t, mode, stage))
  BY <1>3, <1>4 DEF Becomes
<1>5. CASE \E w \in Requests :
             /\ "sync" \in weather /\ Free(w) /\ run.made < MaxCalls
             /\ Becomes(SyncWaits(Opened(run, k, t, "sync", stage), w, k, run.made + 1))
  <2> DEFINE n == run.made + 1
             o == Opened(run, k, t, "sync", stage)
  <2>1. PICK w \in Requests : run.made < MaxCalls /\ run' = SyncWaits(o, w, k, n)
    BY <1>5 DEF Becomes
  <2>2. n \in Calls /\ ~IsMade(run, n) /\ n = run.made + 1
    <3>1. n \in Calls /\ ~(n <= run.made)
      BY <2>1, CallsAssumption DEF AtRest, Sound, Calls
    <3> QED
      BY <3>1 DEF AtRest, Sound, CallMade
  <2>3. Lasting(o)
    BY <1>3
  <2>4. Shaped(o) /\ o.call[n].stage = stage
    BY <2>2, OpenedFields DEF AtRest, Sound
  <2>5. ~o.call[n].stopped
    BY <2>2, OpenedRest DEF AtRest
  <2> HIDE DEF o, n
  <2>6. IsOpen(o, n) /\ ~Ready(o, n)
    BY <1>2, <2>4, <2>5 DEF IsOpen, Ready
  <2>7. Gentle(o, run')
    BY <2>1, <2>2, <2>4, <2>6, SyncWaitsGentle
  <2> QED
    BY <2>3, <2>7, GentleFit, GentleHeard DEF Lasting
<1> QED
  BY <1>1, <1>4, <1>5

\* await_agent.
LEMMA AwaitAgentLasts ==
  ASSUME NEW k, NEW c \in Calls, AtRest, AwaitAgent(k, c)
  PROVE  Lasting(run')
<1> DEFINE q == Unseen(run, k, c)
<1>1. Shaped(run)
  BY DEF AtRest, Sound
<1>2. \/ run' = Collected(run, c)
      \/ run' = Seen(run, c)
      \/ run' = Seen(run, q) /\ q \in Calls
      \/ \E w \in Requests : run' = Waits(run, w, k, "one", {c})
  BY UnseenIsACall DEF AwaitAgent, Becomes
<1> HIDE DEF q
<1>3. Gentle(run, run')
  BY <1>1, <1>2, CollectedGentle, SeenGentle, WaitsGentle
<1> QED
  BY <1>3, GentleLasting

\* await_any.
LEMMA AwaitAnyLasts ==
  ASSUME NEW k, AtRest, AwaitAny(k)
  PROVE  Lasting(run')
<1> DEFINE open == {c \in Calls : Owns(k, c) /\ run.book[c] # "no"}
           q == Unseen(run, k, Lead)
           settled == open \ Active(run)
<1>1. Shaped(run)
  BY DEF AtRest, Sound
<1>2. settled \in SUBSET Calls
  OBVIOUS
<1>3. \/ run' = Seen(run, q) /\ q \in Calls
      \/ run' = run
      \/ settled # {} /\ run' = Collected(run, Min(settled))
      \/ \E w \in Requests : run' = Waits(run, w, k, "any", open)
  BY UnseenIsACall DEF AwaitAny, Becomes
<1> HIDE DEF q, settled, open
<1>4. settled # {} => Min(settled) \in Calls
  BY <1>2, FirstCall
<1>5. Gentle(run, run')
  BY <1>1, <1>3, <1>4, CollectedGentle, SeenGentle, WaitsGentle, GentleStutter
<1> QED
  BY <1>5, GentleLasting

\* A wait let go, an answer, and a clock that runs out.
LEMMA SmallStepsLast ==
  ASSUME AtRest,
         \/ \E w \in Requests : WaitLetGo(w)
         \/ \E k \in Convs, c \in Calls : AnswerAgent(k, c)
         \/ \E c \in Calls : ExpireQuestion(c)
  PROVE  Lasting(run')
<1>1. Shaped(run) /\ Sound(run, Lead) /\ \A c \in Calls : ~Ready(run, c)
  BY DEF AtRest, Sound
<1>2. \/ \E w \in Requests : run' = Released(run, {w})
      \/ \E c \in Calls : run' = Unparked(run, {c})
      \/ \E c \in Calls : run' = FailedParked(run, {c})
  BY DEF WaitLetGo, AnswerAgent, ExpireQuestion, Becomes
<1>3. \A w \in Requests : {w} \in SUBSET Requests
  OBVIOUS
<1>4. Gentle(run, run')
  BY <1>1, <1>2, <1>3, ReleasedGentle, UnparkedGentle, FailedParkedGentle
<1> QED
  BY <1>4, GentleLasting

\* A question that ends moves no call on.
LEMMA UnparkedStage ==
  ASSUME NEW s, Shaped(s), NEW C, NEW d \in Calls
  PROVE  Unparked(s, C).call[d].stage = s.call[d].stage
<1> DEFINE asked == C \intersect Parked(s)
           freed == {s.call[c].conv : c \in asked} \intersect s.blocked
           t == [s EXCEPT !.blocked = @ \ freed,
                          !.call = [c \in Calls |-> IF c \in asked
                            THEN [@[c] EXCEPT !.q = "none", !.seen = FALSE, !.timed = FALSE] ELSE @[c]]]
           R == UNION {AskedOf(t, k) : k \in freed}
<1>1. Unparked(s, C) = Rearmed(t, R)
  BY DEF Unparked
<1>2. DOMAIN t = Parts /\ DOMAIN t.call = Calls /\ DOMAIN t.call[d] = Fields /\ t.call[d].stage = s.call[d].stage
  BY DEF Shaped, Parts, Fields
<1> HIDE DEF t, R
<1>3. Rearmed(t, R).call[d].stage = t.call[d].stage
  BY <1>2 DEF Rearmed, Parts, Fields
<1> QED
  BY <1>1, <1>2, <1>3

\* An agent at work is so in the book.
LEMMA WorkingIsAtWork ==
  ASSUME NEW k \in Convs, Sound(run, Lead), Working(k)
  PROVE  AtWork(run, k)
BY WorkingIsMade DEF AtWork

\* cancel_agent: a queued call stopped here settles while its caller works,
\* and what hangs on it counts as told.
LEMMA CancelAgentLasts ==
  ASSUME NEW k \in Convs, NEW c \in Calls, AtRest, Working(k), CancelAgent(k, c)
  PROVE  Lasting(run')
<1> DEFINE subs == StoppedWith(c)
           gone == {c} \union {d \in subs : GoesOnTo(d)}
           s == Unparked(run, gone)
           t == [s EXCEPT
                  !.book = [d \in Calls |-> IF d \in subs /\ @[d] # "no" THEN "told" ELSE @[d]],
                  !.call = [d \in Calls |->
                     IF d \in gone THEN [@[d] EXCEPT !.failed = TRUE, !.stopped = TRUE] ELSE @[d]]]
           held == {d \in gone : run.call[d].stage = "held"}
<1>1. run' = Settling(t, held) /\ run.call[c].owner = k
  BY DEF CancelAgent, Becomes, Owns
<1>2. \A d \in gone : d = c \/ d \in subs
  OBVIOUS
<1> HIDE DEF subs, gone
<1>3. Gentle(run, s) /\ Shaped(s) /\ \A d \in Calls : s.call[d].stage = run.call[d].stage
  BY UnparkedGentle, UnparkedLike, UnparkedStage DEF AtRest, Sound, Like
<1>4. Lasting(s)
  BY <1>3, GentleLasting
<1> HIDE DEF s
<1>5. /\ DOMAIN t = Parts /\ DOMAIN t.call = Calls /\ t.wait = s.wait /\ t.heard = s.heard /\ DOMAIN t.book = Calls
      /\ t.lead = s.lead /\ t.over = s.over /\ t.deferred = s.deferred /\ t.blocked = s.blocked
      /\ \A d \in Calls : t.book[d] = IF d \in subs /\ s.book[d] # "no" THEN "told" ELSE s.book[d]
  BY <1>3 DEF Shaped, Parts
<1>6. ASSUME NEW d \in Calls
      PROVE  /\ DOMAIN t.call[d] = Fields
             /\ t.call[d].owner = s.call[d].owner /\ t.call[d].conv = s.call[d].conv
             /\ t.call[d].mode = s.call[d].mode /\ t.call[d].stage = s.call[d].stage
             /\ t.call[d].q = s.call[d].q /\ t.call[d].timed = s.call[d].timed
             /\ t.call[d].session = s.call[d].session
             /\ t.call[d].stopped => d \in gone \/ s.call[d].stopped
  BY <1>3 DEF Shaped, Parts, Fields
<1> HIDE DEF t
<1>7. Parked(t) = Parked(s) /\ Active(t) = Active(s)
  BY <1>6 DEF Parked, Active
<1>8. ASSUME NEW j
      PROVE  /\ CallsOn(t, j) = CallsOn(s, j) /\ OpenSubs(t, j) = OpenSubs(s, j) /\ AskedOf(t, j) = AskedOf(s, j)
             /\ (Resumable(t, j) <=> Resumable(s, j))
             /\ CallsOn(s, j) \subseteq Calls /\ AskedOf(s, j) \subseteq Calls
  BY <1>6, <1>7 DEF CallsOn, OpenSubs, AskedOf, Resumable, Parked, Active
<1>9. Fit(t, {}, {}, {})
  <2>1. ASSUME NEW d \in Calls
        PROVE  AskSound(t, {}, {}, d) /\ HoldSound(t, {}, d) /\ DrainSound(t, {}, d)
    <3>1. AskSound(s, {}, {}, d) /\ HoldSound(s, {}, d) /\ DrainSound(s, {}, d)
      BY <1>4 DEF Lasting, Fit
    <3>2. AskSound(t, {}, {}, d) /\ DrainSound(t, {}, d)
      BY <1>5, <1>6, <1>7, <3>1 DEF AskSound, DrainSound, Clock
    <3>3. HoldSound(t, {}, d)
      BY <1>6, <1>8, <3>1 DEF HoldSound
    <3> QED
      BY <3>2, <3>3
  <2> QED
    BY <2>1 DEF Fit
<1>10. ASSUME Heard(run, {}) PROVE Heard(t, {})
  <2> SUFFICES ASSUME ~s.over, NEW d \in Calls
               PROVE  HearSound(t, {}, d) /\ StopSound(t, d) /\ t.call[d].stage # "noted"
    BY <1>5 DEF Heard
  <2>1. HearSound(s, {}, d) /\ StopSound(s, d) /\ s.call[d].stage # "noted"
    BY <1>4, <1>10 DEF Lasting, Heard
  <2>2. ASSUME NEW j PROVE (WillHear(s, j) => WillHear(t, j)) /\ (AtWork(s, j) => AtWork(t, j))
    BY <1>5, <1>6, <1>8 DEF WillHear, AtWork
  <2>3. HearSound(t, {}, d)
    BY <1>5, <1>6, <2>1, <2>2 DEF HearSound
  <2>4. StopSound(t, d)
    <3>1. CASE d = c
      <4>1. AtWork(run, k)
        BY WorkingIsAtWork DEF AtRest
      <4>2. AtWork(t, k)
        BY <1>3, <2>2, <4>1, GentleWillHear
      <4>3. t.call[c].owner = k
        BY <1>1, <1>3, <1>6 DEF Gentle, GentleOn
      <4> QED
        BY <3>1, <4>2, <4>3 DEF StopSound
    <3>2. CASE d # c
      <4>1. t.book[d] = "untold" => d \notin gone /\ s.book[d] = "untold"
        BY <1>2, <1>5, <3>2
      <4> QED
        BY <1>6, <2>1, <2>2, <4>1 DEF StopSound
    <3> QED
      BY <3>1, <3>2
  <2> QED
    BY <1>6, <2>1, <2>3, <2>4
<1>11. Shaped(t)
  BY <1>3, <1>5, <1>6 DEF Shaped
<1>12. \A d \in held \cap Calls : t.call[d].stage = "held"
  BY <1>3, <1>6
<1> HIDE DEF held
<1>13. Gentle(t, run')
  BY <1>1, <1>11, <1>12, SettlingGentle
<1> QED
  BY <1>9, <1>10, <1>13, GentleFit, GentleHeard DEF Lasting

\* Call c went on to the given stage, and nothing else did.
MovedTo(s, t, c, stage) ==
  /\ t.lead = s.lead /\ t.over = s.over /\ t.deferred = s.deferred /\ t.blocked = s.blocked /\ t.book = s.book
  /\ \A d \in Calls :
       /\ t.call[d].owner = s.call[d].owner /\ t.call[d].conv = s.call[d].conv /\ t.call[d].mode = s.call[d].mode
       /\ t.call[d].q = s.call[d].q /\ t.call[d].timed = s.call[d].timed
       /\ t.call[d].session = s.call[d].session /\ t.call[d].stopped = s.call[d].stopped
       /\ d # c => t.call[d].stage = s.call[d].stage
  /\ t.call[c].stage = stage /\ IsOpen(s, c) /\ stage \notin {"unmade", "done", "queued"}

\* A move within a life changes nobody's calls.
LEMMA MovedSets ==
  ASSUME NEW s, NEW t, NEW c \in Calls, NEW stage, MovedTo(s, t, c, stage), NEW k
  PROVE  /\ Active(t) = Active(s) /\ Parked(t) = Parked(s) /\ CallsOn(t, k) = CallsOn(s, k)
         /\ OpenSubs(t, k) = OpenSubs(s, k) /\ AskedOf(t, k) = AskedOf(s, k)
         /\ (Resumable(t, k) <=> Resumable(s, k))
<1>1. Active(t) = Active(s)
  BY DEF MovedTo, Active, IsOpen
<1>2. Parked(t) = Parked(s)
  BY <1>1 DEF MovedTo, Parked, Active
<1>3. Active(s) \subseteq Calls /\ Parked(s) \subseteq Calls
  BY DEF Active, Parked
<1>4. CallsOn(t, k) = CallsOn(s, k) /\ OpenSubs(t, k) = OpenSubs(s, k)
  BY <1>1, <1>3 DEF MovedTo, CallsOn, OpenSubs
<1>5. AskedOf(t, k) = AskedOf(s, k)
  BY <1>2, <1>3 DEF MovedTo, AskedOf
<1>6. Resumable(t, k) <=> Resumable(s, k)
  BY DEF MovedTo, Resumable
<1> QED
  BY <1>1, <1>2, <1>4, <1>5, <1>6

\* What stays sound as a call moves on.
LEMMA MovedFit ==
  ASSUME NEW s, NEW t, NEW c \in Calls, NEW stage, MovedTo(s, t, c, stage),
         NEW K, NEW H, NEW X, Fit(s, K, H, X), NEW L, K \subseteq L, NEW J, H \subseteq J,
         stage = "held" => s.call[c].conv \in J /\ \A d \in AskedOf(s, s.call[c].conv) : s.call[d].q = "put",
         stage \in AfterTurn => s.call[c].stage \in AfterTurn \/ s.call[c].conv \in L
  PROVE  Fit(t, L, J, X)
<1> SUFFICES ASSUME NEW d \in Calls PROVE AskSound(t, L, X, d) /\ HoldSound(t, J, d) /\ DrainSound(t, L, d)
  BY DEF Fit
<1>1. AskSound(s, K, X, d) /\ HoldSound(s, H, d) /\ DrainSound(s, K, d)
  BY DEF Fit
<1>2. Parked(t) = Parked(s)
  BY MovedSets
<1>3. AskSound(t, L, X, d)
  BY <1>1, <1>2 DEF AskSound, MovedTo, Clock
<1>4. HoldSound(t, J, d)
  <2>0. AskedOf(s, s.call[d].conv) \subseteq Calls
    BY DEF AskedOf, Parked, Active
  <2>1. AskedOf(t, s.call[d].conv) = AskedOf(s, s.call[d].conv) /\ OpenSubs(t, s.call[d].conv) = OpenSubs(s, s.call[d].conv)
    BY MovedSets
  <2>2. t.call[d].conv = s.call[d].conv /\ \A e \in Calls : t.call[e].q = s.call[e].q
    BY DEF MovedTo
  <2>3. CASE d = c
    BY <2>0, <2>1, <2>2, <2>3 DEF HoldSound, MovedTo
  <2>4. CASE d # c
    <3>1. t.call[d].stage = s.call[d].stage
      BY <2>4 DEF MovedTo
    <3> QED
      BY <1>1, <2>0, <2>1, <2>2, <3>1 DEF HoldSound
  <2> QED
    BY <2>3, <2>4
<1>5. DrainSound(t, L, d)
  BY <1>1 DEF DrainSound, MovedTo
<1> QED
  BY <1>3, <1>4, <1>5

\* Who still hears as a call moves on.
LEMMA MovedHeard ==
  ASSUME NEW s, NEW t, NEW c \in Calls, NEW stage, MovedTo(s, t, c, stage), stage # "noted",
         NEW K, Heard(s, K), NEW L, K \subseteq L,
         s.call[c].stage \in {"turn", "finishing"} =>
           stage \in {"turn", "finishing"} \/ s.call[c].conv \in s.deferred \union L,
         s.call[c].stage = "turn" => stage = "turn" \/ \A d \in Calls : ~Ready(s, d)
  PROVE  Heard(t, L)
<1> SUFFICES ASSUME ~s.over, NEW d \in Calls
             PROVE  HearSound(t, L, d) /\ StopSound(t, d) /\ t.call[d].stage # "noted"
  BY DEF Heard, MovedTo
<1>1. HearSound(s, K, d) /\ StopSound(s, d) /\ s.call[d].stage # "noted"
  BY DEF Heard
<1>2. ASSUME NEW j PROVE CallsOn(t, j) = CallsOn(s, j) /\ (Resumable(t, j) <=> Resumable(s, j)) /\ CallsOn(s, j) \subseteq Calls
  <2>1. CallsOn(s, j) \subseteq Calls
    BY DEF CallsOn, Active
  <2> QED
    BY <2>1, MovedSets
<1>3. ASSUME NEW j, WillHear(s, j) PROVE j \in L \/ WillHear(t, j)
  <2>1. CASE j = Lead
    BY <1>3, <2>1 DEF WillHear, MovedTo
  <2>2. CASE j # Lead /\ CallsOn(s, j) = {}
    BY <1>2, <1>3, <2>2 DEF WillHear
  <2>3. CASE j # Lead /\ CallsOn(s, j) # {} /\ j \in s.deferred
    BY <1>2, <2>3 DEF WillHear, MovedTo
  <2>4. CASE j # Lead /\ CallsOn(s, j) # {} /\ j \notin s.deferred
    <3>1. PICK x \in CallsOn(s, j) : s.call[x].stage \in {"turn", "finishing"}
      BY <1>3, <2>4 DEF WillHear
    <3>2. x \in Calls /\ s.call[x].conv = j
      BY <1>2, <3>1 DEF CallsOn
    <3>3. j \in L \/ t.call[x].stage \in {"turn", "finishing"}
      BY <2>4, <3>1, <3>2 DEF MovedTo
    <3> QED
      BY <1>2, <2>4, <3>1, <3>3 DEF WillHear
  <2> QED
    BY <2>1, <2>2, <2>3, <2>4
<1>4. HearSound(t, L, d)
  <2>1. t.call[d].stage = "done" => s.call[d].stage = "done"
    BY DEF MovedTo
  <2> QED
    BY <1>1, <1>3, <2>1 DEF HearSound, MovedTo
<1>5. StopSound(t, d)
  <2> SUFFICES ASSUME t.book[d] = "untold", t.call[d].stage = "queued", t.call[d].stopped
               PROVE  AtWork(t, t.call[d].owner)
    BY DEF StopSound
  <2>1. s.book[d] = "untold" /\ s.call[d].stage = "queued" /\ s.call[d].stopped /\ t.call[d].owner = s.call[d].owner
    BY DEF MovedTo
  <2>2. Ready(s, d) /\ AtWork(s, s.call[d].owner)
    BY <1>1, <2>1 DEF Ready, StopSound
  <2>3. s.call[c].stage = "turn" => t.call[c].stage = "turn"
    BY <2>2 DEF MovedTo
  <2>4. \A x \in Calls : s.call[x].stage = "turn" => t.call[x].stage = "turn"
    BY <2>3 DEF MovedTo
  <2> QED
    BY <1>2, <2>1, <2>2, <2>4 DEF AtWork, MovedTo
<1>6. t.call[d].stage # "noted"
  BY <1>1 DEF MovedTo
<1> QED
  BY <1>4, <1>5, <1>6

\* Setting a stage moves a call.
LEMMA AtMoves ==
  ASSUME NEW s, Shaped(s), NEW c \in Calls, IsOpen(s, c), NEW stage, stage \notin {"unmade", "done", "queued"},
         NEW t, \/ t = At(s, c, stage)
                \/ t = [At(s, c, stage) EXCEPT !.call[c].everHeld = TRUE]
                \/ t = [At(s, c, stage) EXCEPT !.call[c].ended = TRUE]
  PROVE  MovedTo(s, t, c, stage) /\ Shaped(t)
<1>1. CASE t = At(s, c, stage)
  BY <1>1 DEF Shaped, Parts, Fields, At, MovedTo
<1>2. CASE t = [At(s, c, stage) EXCEPT !.call[c].everHeld = TRUE]
  BY <1>2 DEF Shaped, Parts, Fields, At, MovedTo
<1>3. CASE t = [At(s, c, stage) EXCEPT !.call[c].ended = TRUE]
  BY <1>3 DEF Shaped, Parts, Fields, At, MovedTo
<1> QED
  BY <1>1, <1>2, <1>3

\* A queued call starts.
LEMMA AdmitLasts ==
  ASSUME NEW c \in Calls, AtRest, Admit(c)
  PROVE  Lasting(run')
<1>1. run' = At(run, c, "turn") /\ run.call[c].stage = "queued" /\ IsOpen(run, c) /\ Shaped(run)
  BY DEF Admit, Becomes, AtRest, Sound, IsOpen
<1>2. MovedTo(run, run', c, "turn")
  BY <1>1, AtMoves
<1>3. Fit(run', {}, {}, {})
  BY <1>2, MovedFit DEF AtRest, AfterTurn
<1>4. Heard(run, {}) => Heard(run', {})
  BY <1>1, <1>2, MovedHeard
<1> QED
  BY <1>3, <1>4 DEF Lasting

\* The end of a turn: what its waits were on is to be told at the drain.
LEMMA TurnDoneLasts ==
  ASSUME NEW c \in Calls, AtRest, TurnDone(c)
  PROVE  Lasting(run')
<1> DEFINE W == {w \in Requests : ~Free(w) /\ run.wait[w].of = run.call[c].conv}
           s == Released(run, W)
<1>1. run' = [At(s, c, "finishing") EXCEPT !.call[c].ended = TRUE] /\ run.call[c].stage = "turn"
  BY DEF TurnDone, Becomes
<1>2. Gentle(run, s)
  BY ReleasedGentle DEF AtRest
<1>3. Sound(s, Lead) /\ s.call = run.call
  BY ReleasedSound DEF AtRest
<1> HIDE DEF s
<1>4. Lasting(s)
  BY <1>2, GentleLasting
<1>5. MovedTo(s, run', c, "finishing")
  BY <1>1, <1>3, AtMoves DEF Sound, IsOpen
<1>6. Fit(run', {}, {}, {})
  BY <1>4, <1>5, MovedFit DEF Lasting, AfterTurn
<1>7. \A d \in Calls : ~Ready(s, d)
  BY <1>3 DEF AtRest, Ready
<1>8. Heard(run, {}) => Heard(run', {})
  BY <1>4, <1>5, <1>7, MovedHeard DEF Lasting
<1> QED
  BY <1>6, <1>8 DEF Lasting

\* The drain at the end of a callee's turn.
LEMMA EndCalleeTurnLasts ==
  ASSUME NEW c \in Calls, Sound(run, Lead), Fit(run, {}, {}, {}), EndCalleeTurn(c)
  PROVE  Lasting(run')
<1> DEFINE k == run.call[c].conv
           s == At(run, c, "sweeping")
<1>1. run' = DrainedCaller(s, k) /\ run.call[c].stage = "finishing" /\ IsOpen(run, c)
  BY DEF EndCalleeTurn, Becomes, IsOpen
<1>2. k \in Convs
  <2>1. CallMade(run, c) /\ IsMade(run, c)
    BY <1>1 DEF IsMade, Sound
  <2> QED
    BY <2>1 DEF CallMade, Convs
<1>3. Like(run, s) /\ MovedTo(run, s, c, "sweeping")
  BY <1>1, AtLike, AtMoves DEF Sound
<1> HIDE DEF s
<1>4. Sound(s, Lead)
  BY <1>3, LikeSound
<1>5. Fit(s, {k}, {}, {})
  BY <1>3, MovedFit
<1>6. Heard(run, {}) => Heard(s, {k})
  <2> SUFFICES ASSUME Heard(run, {}) PROVE Heard(s, {k})
    OBVIOUS
  <2>1. run.call[c].stage # "turn" /\ run.call[c].conv \in run.deferred \union {k}
    BY <1>1
  <2> HIDE DEF k
  <2>2. {} \subseteq {k} /\ "sweeping" # "noted"
    OBVIOUS
  <2> QED
    <3>1. run.call[c].stage \in {"turn", "finishing"} =>
           "sweeping" \in {"turn", "finishing"} \/ run.call[c].conv \in run.deferred \union {k}
      BY <2>1
    <3>2. run.call[c].stage = "turn" => "sweeping" = "turn" \/ \A d \in Calls : ~Ready(run, d)
      BY <2>1
    <3> QED
      BY <1>3, <2>2, <3>1, <3>2, MovedHeard
<1> QED
  BY <1>1, <1>2, <1>4, <1>5, <1>6, DrainedCallerFit DEF Lasting

\* A turn that was swept up: what its callee left unanswered is orphaned before
\* the call may be held.
LEMMA SweptLasts ==
  ASSUME NEW c \in Calls, AtRest, Swept(c)
  PROVE  Lasting(run')
<1> DEFINE k == run.call[c].conv
           D == {d \in AskedOf(run, k) : run.call[d].q = "told"}
           t == Orphaned(run, D)
           h == [At(t, c, "held") EXCEPT !.call[c].everHeld = TRUE]
<1>0. Shaped(run) /\ Sound(run, Lead)
  BY DEF AtRest, Sound
<1>1. run.call[c].stage = "sweeping" /\ IsOpen(run, c)
      /\ (run' = HeldCall(c) \/ run' = At(run, c, "writing"))
  BY DEF Swept, Becomes, IsOpen
<1>2. HeldCall(c) = Reviewed(h, c) \/ HeldCall(c) = At(t, c, "writing")
  BY DEF HeldCall
<1>3. Gentle(run, t) /\ Parked(t) \cap D = {} /\ Hushed(run, t) /\ Like(run, t)
  BY <1>0, OrphanedGentle, OrphanedAsks, OrphanedLike
<1> HIDE DEF t
<1>4. Lasting(t)
  BY <1>3, GentleLasting
<1>5. Lasting(run)
  BY DEF Lasting, AtRest
<1>6. Shaped(t) /\ IsOpen(t, c) /\ t.call[c].stage \in {"sweeping", "writing"} /\ t.call[c].conv = k
  BY <1>1, <1>3 DEF Like, Gentle, GentleOn, Follows, IsOpen
<1>7. ASSUME NEW s, Lasting(s), Shaped(s), IsOpen(s, c), s.call[c].stage \in {"sweeping", "writing"}
      PROVE  Lasting(At(s, c, "writing"))
  <2>1. MovedTo(s, At(s, c, "writing"), c, "writing")
    BY <1>7, AtMoves
  <2>2. Fit(At(s, c, "writing"), {}, {}, {})
    BY <1>7, <2>1, MovedFit DEF Lasting, AfterTurn
  <2>3. Heard(run, {}) => Heard(At(s, c, "writing"), {})
    BY <1>7, <2>1, MovedHeard DEF Lasting
  <2> QED
    BY <2>2, <2>3 DEF Lasting
<1>8. ASSUME NEW d \in AskedOf(t, k) PROVE t.call[d].q = "put"
  <2>1. d \in AskedOf(run, k)
    BY <1>3, GentleSets
  <2>2. d \in Calls /\ d \in Parked(t) /\ t.call[d].q # "none"
    BY DEF AskedOf, Parked, Active
  <2>3. d \notin D /\ run.call[d].q = t.call[d].q
    BY <1>3, <2>2 DEF Hushed
  <2>4. AskSound(run, {}, {}, d)
    BY <2>2 DEF AtRest, Fit
  <2> QED
    BY <2>1, <2>2, <2>3, <2>4 DEF AskSound
<1> HIDE DEF D
<1>9. MovedTo(t, h, c, "held") /\ Shaped(h)
  BY <1>6, AtMoves
<1>10. Like(run, h)
  BY <1>1, <1>3, MovedLike
<1> HIDE DEF h
<1>11. Sound(h, Lead) /\ h.call[c].stage = "held" /\ h.call[c].conv = k /\ OnePerConv(h)
  <2>1. Sound(h, Lead)
    BY <1>0, <1>10, LikeSound
  <2> QED
    BY <1>6, <1>9, <2>1 DEF MovedTo, Sound
<1>12. Fit(h, {}, {k}, {})
  <2>1. Fit(t, {}, {}, {}) /\ {} \subseteq {k} /\ "held" \in AfterTurn
    BY <1>4 DEF Lasting, AfterTurn
  <2>2. t.call[c].conv \in {k} /\ \A d \in AskedOf(t, t.call[c].conv) : t.call[d].q = "put"
    BY <1>6, <1>8
  <2>3. t.call[c].stage \in AfterTurn
    BY <1>6 DEF AfterTurn
  <2> HIDE DEF k
  <2> QED
    BY <1>9, <2>1, <2>2, <2>3, MovedFit
<1>13. Heard(run, {}) => Heard(h, {})
  BY <1>4, <1>6, <1>9, MovedHeard DEF Lasting
<1>14. Lasting(Reviewed(h, c))
  <2>1. Gentle(h, Reviewed(h, c))
    BY <1>9, <1>11, ReviewedGentle
  <2>2. Fit(Reviewed(h, c), {}, {k} \ {h.call[c].conv}, {})
    BY <1>9, <1>11, <1>12, ReviewedFit
  <2>3. {k} \ {h.call[c].conv} = {}
    BY <1>11
  <2>4. Heard(run, {}) => Heard(Reviewed(h, c), {})
    BY <1>13, <2>1, GentleHeard
  <2> QED
    BY <2>2, <2>3, <2>4 DEF Lasting
<1>15. Lasting(At(run, c, "writing"))
  BY <1>0, <1>1, <1>5, <1>7
<1>16. Lasting(At(t, c, "writing"))
  BY <1>4, <1>6, <1>7
<1> QED
  BY <1>1, <1>2, <1>14, <1>15, <1>16

\* Where starts may throw, or a turn may end between a call's last bookkeeping
\* and its settling.
Odd == weather \intersect {"startfail", "backtoback"} # {}

\* The last bookkeeping.
LEMMA WriteLasts ==
  ASSUME NEW c \in Calls, AtRest, Write(c)
  PROVE  Fit(run', {}, {}, {}) /\ (Odd \/ Lasting(run'))
<1> DEFINE s == Noted(run, c)
<1>1. run.call[c].stage = "writing" /\ IsOpen(run, c) /\ IsMade(run, c) /\ Sound(run, Lead) /\ Fit(run, {}, {}, {})
  BY DEF Write, IsOpen, IsMade, AtRest
<1>2. Sound(s, Lead) /\ Keeps(run, s)
  BY <1>1, NotedSound
<1>3. NobodyWaitsFrom(run, c)
  BY <1>1, NobodyWaitsUnlessTurn
<1>4. /\ Fit(s, {}, {}, {}) /\ s.call[c].stage = "writing" /\ s.call[c].owner = run.call[c].owner
      /\ Heard(run, {}) => Heard(s, {})
      /\ s.book[c] = "untold" => s.over \/ WillHear(s, run.call[c].owner)
  BY <1>1, NotedFit
<1>5. \/ Odd /\ run' = At(s, c, "noted")
      \/ \E session, w : run' = Settled(s, c, session, w)
  BY DEF Write, Becomes, Odd
<1> HIDE DEF s
<1>6. IsOpen(s, c) /\ NobodyWaitsFrom(s, c) /\ Shaped(s)
  BY <1>1, <1>2, <1>3, NobodyStillWaits DEF Keeps
<1>7. CASE Odd /\ run' = At(s, c, "noted")
  <2>1. MovedTo(s, run', c, "noted")
    BY <1>6, <1>7, AtMoves
  <2>2. Fit(run', {}, {}, {})
    BY <1>4, <2>1, MovedFit DEF AfterTurn
  <2> QED
    BY <1>7, <2>2
<1>8. ASSUME NEW session, NEW w, run' = Settled(s, c, session, w)
      PROVE  Lasting(run')
  BY <1>2, <1>4, <1>6, <1>8, SettledFit DEF Lasting
<1> QED
  BY <1>5, <1>7, <1>8 DEF Lasting

\* A call noted as settling settles.
LEMMA SettleLasts ==
  ASSUME NEW c \in Calls, Sound(run, Lead), Fit(run, {}, {}, {}), Settle(c)
  PROVE  Lasting(run')
<1>1. run.call[c].stage = "noted" /\ NobodyWaitsFrom(run, c)
  BY NobodyWaitsUnlessTurn DEF Settle, IsOpen
<1>2. PICK session, w : run' = Settled(run, c, session, w)
  BY DEF Settle, Becomes
<1>3. Heard(run, {}) => run.over
  BY <1>1 DEF Heard
<1> QED
  BY <1>1, <1>2, <1>3, SettledFit DEF Lasting

\* A queued call that was stopped settles while its caller still works.
LEMMA QueuedStoppedLasts ==
  ASSUME NEW c \in Calls, Sound(run, Lead), Fit(run, {}, {}, {}), QueuedStopped(c)
  PROVE  Lasting(run')
<1>1. run.call[c].stage = "queued" /\ NobodyWaitsFrom(run, c) /\ Stopped(run, c)
  BY NobodyWaitsUnlessTurn DEF QueuedStopped, IsOpen
<1>2. PICK w : run' = Settled(run, c, FALSE, w)
  BY DEF QueuedStopped, Becomes
<1>3. AtWork(run, run.call[c].owner) => WillHear(run, run.call[c].owner)
  BY DEF AtWork, WillHear
<1>4. Heard(run, {}) => (run.book[c] = "untold" => run.over \/ WillHear(run, run.call[c].owner))
  BY <1>1, <1>3 DEF Heard, StopSound, Stopped
<1> QED
  BY <1>1, <1>2, <1>4, SettledFit DEF Lasting

\* A call whose turn could not start drains its conversation and settles.
LEMMA StartFailsLasts ==
  ASSUME NEW c \in Calls, Sound(run, Lead), Fit(run, {}, {}, {}), StartFails(c)
  PROVE  Fit(run', {}, {}, {}) /\ Odd
<1> DEFINE k == run.call[c].conv
           s == At(run, c, "noted")
           t == DrainedCaller(s, k)
<1>1. IsOpen(run, c) /\ IsMade(run, c) /\ Odd /\ Shaped(run)
  BY DEF StartFails, IsOpen, IsMade, Odd, Sound
<1>2. k \in Convs
  BY <1>1 DEF Sound, CallMade, Convs
<1>3. NobodyWaitsFrom(run, c)
  BY DEF StartFails, NobodyWaitsFrom, Sound, WaitSound
<1>4. Sound(s, Lead) /\ Keeps(run, s)
  BY <1>1, <1>3, AtSound
<1>5. PICK w : run' = Settled(t, c, FALSE, w)
  BY DEF StartFails, Becomes
<1>6. MovedTo(run, s, c, "noted")
  BY <1>1, AtMoves
<1> HIDE DEF s
<1>7. Fit(s, {k}, {}, {})
  BY <1>6, MovedFit
<1>10. t.call = s.call /\ s.call[c].stage = "noted"
  <2> DEFINE f == [s EXCEPT !.blocked = @ \ {k}]
  <2>1. f.call = s.call /\ DOMAIN f = Parts
    BY <1>4 DEF Sound, Shaped, Parts
  <2>2. t = DrainedWhenFree(f, k)
    BY DEF DrainedCaller
  <2> HIDE DEF f
  <2>3. c \in CallsOn(f, k)
    BY <1>6, <2>1 DEF MovedTo, CallsOn, Active
  <2>4. t = Deferred(f, k)
    BY <2>2, <2>3 DEF DrainedWhenFree
  <2>5. Deferred(f, k).call = f.call
    BY <2>1 DEF Deferred, Parts
  <2> QED
    BY <1>6, <2>1, <2>4, <2>5 DEF MovedTo
<1> HIDE DEF k
<1>8. Sound(t, Lead) /\ Keeps(s, t) /\ Fit(t, {}, {}, {})
  BY <1>2, <1>4, <1>7, DrainedCallerSound, DrainedCallerFit
<1> HIDE DEF t
<1>9. NobodyWaitsFrom(t, c)
  <2>1. Keeps(run, t)
    BY <1>4, <1>8, KeepsInTurn
  <2> QED
    BY <1>1, <1>3, <2>1, NobodyStillWaits
<1> QED
  BY <1>1, <1>5, <1>8, <1>9, <1>10, SettledFit

\* Only the lead, its wake or the end of the run is another.
LeadMoved(s, t) ==
  /\ t.call = s.call /\ t.book = s.book /\ t.deferred = s.deferred /\ t.blocked = s.blocked

\* Questions, holds and drains do not depend on the lead.
LEMMA LeadMovedFit ==
  ASSUME NEW s, NEW t, LeadMoved(s, t), NEW K, NEW H, NEW X, Fit(s, K, H, X), NEW L, K \subseteq L
  PROVE  Fit(t, L, H, X)
<1> SUFFICES ASSUME NEW d \in Calls PROVE AskSound(t, L, X, d) /\ HoldSound(t, H, d) /\ DrainSound(t, L, d)
  BY DEF Fit
<1>1. AskSound(s, K, X, d) /\ HoldSound(s, H, d) /\ DrainSound(s, K, d)
  BY DEF Fit
<1>2. /\ Parked(t) = Parked(s)
      /\ \A j : AskedOf(t, j) = AskedOf(s, j) /\ OpenSubs(t, j) = OpenSubs(s, j)
  BY DEF LeadMoved, Parked, AskedOf, OpenSubs, Active
<1>3. AskSound(t, L, X, d)
  BY <1>1, <1>2 DEF AskSound, Clock, LeadMoved
<1>4. HoldSound(t, H, d)
  BY <1>1, <1>2 DEF HoldSound, LeadMoved
<1>5. DrainSound(t, L, d)
  BY <1>1 DEF DrainSound, LeadMoved
<1> QED
  BY <1>3, <1>4, <1>5

\* Who still hears as the lead moves on.
LEMMA LeadMovedHeard ==
  ASSUME NEW s, NEW t, LeadMoved(s, t), t.over = s.over, NEW K, Heard(s, K), NEW L, K \subseteq L,
         s.lead # "idle" => t.lead # "idle" \/ Lead \in L,
         s.lead = "turn" => t.lead = "turn" \/ \A d \in Calls : ~Ready(s, d)
  PROVE  Heard(t, L)
<1> SUFFICES ASSUME ~s.over, NEW d \in Calls
             PROVE  HearSound(t, L, d) /\ StopSound(t, d) /\ t.call[d].stage # "noted"
  BY DEF Heard
<1>1. HearSound(s, K, d) /\ StopSound(s, d) /\ s.call[d].stage # "noted"
  BY DEF Heard
<1>2. \A j : CallsOn(t, j) = CallsOn(s, j) /\ (Resumable(t, j) <=> Resumable(s, j))
  BY DEF LeadMoved, CallsOn, Active, Resumable
<1>3. ASSUME NEW j, WillHear(s, j) PROVE j \in L \/ WillHear(t, j)
  BY <1>2, <1>3 DEF WillHear, LeadMoved
<1>4. HearSound(t, L, d)
  BY <1>1, <1>3 DEF HearSound, LeadMoved
<1>5. StopSound(t, d)
  <2> SUFFICES ASSUME t.book[d] = "untold", t.call[d].stage = "queued", t.call[d].stopped
               PROVE  AtWork(t, t.call[d].owner)
    BY DEF StopSound
  <2>1. t.call = s.call /\ t.book = s.book
    BY DEF LeadMoved
  <2>2. Ready(s, d) /\ AtWork(s, s.call[d].owner)
    BY <1>1, <2>1 DEF Ready, StopSound
  <2>3. s.lead = "turn" => t.lead = "turn"
    BY <2>2
  <2> QED
    BY <1>2, <2>1, <2>2, <2>3 DEF AtWork
<1> QED
  BY <1>1, <1>4, <1>5 DEF LeadMoved

\* The lead's turn is over.
LEMMA LeadDoneLasts ==
  ASSUME AtRest, LeadDone
  PROVE  Lasting(run')
<1> DEFINE W == {w \in Requests : ~Free(w) /\ run.wait[w].of = Lead}
           s == Released(run, W)
           t == [s EXCEPT !.lead = "finishing"]
<1>1. run' = t
  BY DEF LeadDone, Becomes
<1>2. Gentle(run, s)
  BY ReleasedGentle DEF AtRest
<1>3. Sound(s, Lead) /\ s.call = run.call
  BY ReleasedSound DEF AtRest
<1> HIDE DEF s
<1>4. Lasting(s)
  BY <1>2, GentleLasting
<1>5. LeadMoved(s, t) /\ t.over = s.over /\ t.lead = "finishing"
  BY <1>3 DEF LeadMoved, Sound, Shaped, Parts
<1> HIDE DEF t
<1>6. \A d \in Calls : ~Ready(s, d)
  BY <1>3 DEF AtRest, Ready
<1>7. Fit(t, {}, {}, {})
  BY <1>4, <1>5, LeadMovedFit DEF Lasting
<1>8. Heard(run, {}) => Heard(t, {})
  BY <1>4, <1>5, <1>6, LeadMovedHeard DEF Lasting
<1> QED
  BY <1>1, <1>7, <1>8 DEF Lasting

\* The lead's bookkeeping: what settled during its turn is drained.
LEMMA EndLeadTurnLasts ==
  ASSUME Sound(run, Lead), Fit(run, {}, {}, {}), EndLeadTurn
  PROVE  Lasting(run')
<1> DEFINE t == [run EXCEPT !.lead = "idle"]
<1>1. run' = DrainedCaller(t, Lead) /\ run.lead = "finishing"
  BY DEF EndLeadTurn, Becomes
<1>2. /\ DOMAIN t = Parts /\ t.made = run.made /\ t.heard = run.heard /\ t.wait = run.wait
      /\ t.over = run.over /\ t.lead = "idle" /\ LeadMoved(run, t)
  BY DEF Sound, Shaped, Parts, LeadMoved
<1> HIDE DEF t
<1>3. Sound(t, Lead)
  BY <1>1, <1>2, LeadMovedSound DEF LeadMoved
<1>4. Fit(t, {Lead}, {}, {})
  BY <1>2, LeadMovedFit
<1>5. ASSUME Heard(run, {}) PROVE Heard(t, {Lead})
  <2>1. run.lead = "turn" => t.lead = "turn" \/ \A d \in Calls : ~Ready(run, d)
    BY <1>1
  <2>2. {} \subseteq {Lead} /\ Lead \in {Lead}
    OBVIOUS
  <2> QED
    BY <1>2, <1>5, <2>1, <2>2, LeadMovedHeard
<1>6. Lead \in Convs
  BY DEF Convs
<1> QED
  BY <1>1, <1>3, <1>4, <1>5, <1>6, DrainedCallerFit DEF Lasting

\* The lead's wakes, and the user's messages.
LEMMA LeadBegunLasts ==
  ASSUME AtRest, WakeLead \/ UserWrites
  PROVE  Lasting(run')
<1>1. \/ run' = [run EXCEPT !.wake = FALSE, !.lead = "turn"]
      \/ run' = [run EXCEPT !.wake = FALSE]
      \/ run' = [run EXCEPT !.lead = "turn"]
  BY DEF WakeLead, UserWrites, Becomes
<1>2. DOMAIN run = Parts
  BY DEF AtRest, Sound, Shaped
<1>3. LeadMoved(run, run') /\ run'.over = run.over /\ run'.lead \in {run.lead, "turn"}
  <2>1. CASE run' = [run EXCEPT !.wake = FALSE, !.lead = "turn"]
    BY <1>2, <2>1 DEF Parts, LeadMoved
  <2>2. CASE run' = [run EXCEPT !.wake = FALSE]
    BY <1>2, <2>2 DEF Parts, LeadMoved
  <2>3. CASE run' = [run EXCEPT !.lead = "turn"]
    BY <1>2, <2>3 DEF Parts, LeadMoved
  <2> QED
    BY <1>1, <2>1, <2>2, <2>3
<1>4. Fit(run', {}, {}, {})
  BY <1>3, LeadMovedFit DEF AtRest
<1>5. Heard(run, {}) => Heard(run', {})
  BY <1>3, LeadMovedHeard
<1> QED
  BY <1>4, <1>5 DEF Lasting

\* The stop of the run: nobody is owed anything after it.
LEMMA StopRunLasts ==
  ASSUME AtRest, StopRun
  PROVE  Lasting(run')
<1> DEFINE s == [run EXCEPT !.over = TRUE]
           held == {c \in Calls : run.call[c].stage = "held"}
<1>1. run' = Settling(s, held)
  BY DEF StopRun, Becomes
<1>2. LeadMoved(run, s) /\ s.over /\ Shaped(s)
  BY DEF AtRest, Sound, Shaped, Parts, LeadMoved
<1> HIDE DEF s
<1>3. Fit(s, {}, {}, {}) /\ Heard(s, {})
  BY <1>2, LeadMovedFit DEF AtRest, Heard
<1>4. \A c \in held \cap Calls : s.call[c].stage = "held"
  BY <1>2 DEF LeadMoved
<1> HIDE DEF held
<1>5. Gentle(s, Settling(s, held))
  BY <1>2, <1>4, SettlingGentle
<1> QED
  BY <1>1, <1>3, <1>5, GentleFit, GentleHeard DEF Lasting

\* An agent that is blocked by its question keeps it.
LEMMA BlockedAsks ==
  ASSUME NEW s, Shaped(s), NEW k, NEW d \in Calls
  PROVE  Blocked(s, k).call[d].q = s.call[d].q
<1> DEFINE t == [s EXCEPT !.blocked = @ \union {k}]
<1>1. Blocked(s, k) = IF k \in s.blocked THEN s ELSE Rearmed(t, AskedOf(s, k))
  BY DEF Blocked
<1>2. DOMAIN t = Parts /\ DOMAIN t.call = Calls /\ DOMAIN t.call[d] = Fields /\ t.call = s.call
  BY DEF Shaped, Parts
<1> HIDE DEF t
<1>3. Rearmed(t, AskedOf(s, k)).call[d].q = t.call[d].q
  BY <1>2 DEF Rearmed, Parts, Fields
<1> QED
  BY <1>1, <1>2, <1>3

\* Call c put a question, and nothing else is changed but its clock.
Asks(s, r, c) ==
  /\ r.lead = s.lead /\ r.over = s.over /\ r.deferred = s.deferred /\ r.blocked = s.blocked /\ r.book = s.book
  /\ \A d \in Calls \ {c} : r.call[d] = s.call[d]
  /\ r.call[c].owner = s.call[c].owner /\ r.call[c].conv = s.call[c].conv /\ r.call[c].mode = s.call[c].mode
  /\ r.call[c].session = s.call[c].session /\ r.call[c].stopped = s.call[c].stopped
  /\ r.call[c].stage = s.call[c].stage /\ s.call[c].stage = "turn"
  /\ r.call[c].q = "put" /\ (r.call[c].timed <=> s.call[c].owner \notin s.blocked)

\* Who works on what is as it was before a question.
LEMMA AsksSets ==
  ASSUME NEW s, NEW r, NEW c \in Calls, Asks(s, r, c), NEW j
  PROVE  /\ OpenSubs(r, j) = OpenSubs(s, j) /\ CallsOn(r, j) = CallsOn(s, j)
         /\ (Resumable(r, j) <=> Resumable(s, j))
         /\ Parked(r) \subseteq Parked(s) \union {c} /\ c \in Parked(r)
         /\ AskedOf(r, j) \subseteq AskedOf(s, j) \union {c}
         /\ j # s.call[c].owner => AskedOf(r, j) \subseteq AskedOf(s, j)
         /\ AskedOf(r, j) \subseteq Calls /\ CallsOn(s, j) \subseteq Calls
<1>1. Active(r) = Active(s) /\ Active(s) \subseteq Calls
  BY DEF Asks, Active
<1>2. OpenSubs(r, j) = OpenSubs(s, j) /\ CallsOn(r, j) = CallsOn(s, j)
  BY <1>1 DEF Asks, OpenSubs, CallsOn
<1>3. Resumable(r, j) <=> Resumable(s, j)
  BY DEF Asks, Resumable
<1>4. Parked(r) \subseteq Parked(s) \union {c} /\ c \in Parked(r) /\ Parked(r) \subseteq Calls
  BY <1>1 DEF Asks, Parked, Active
<1>5. /\ AskedOf(r, j) \subseteq AskedOf(s, j) \union {c}
      /\ j # s.call[c].owner => AskedOf(r, j) \subseteq AskedOf(s, j)
      /\ AskedOf(r, j) \subseteq Calls
  BY <1>4 DEF Asks, AskedOf
<1>6. CallsOn(s, j) \subseteq Calls
  BY <1>1 DEF CallsOn
<1> QED
  BY <1>2, <1>3, <1>4, <1>5, <1>6

\* A question just put has a clock; the hold of its caller is not looked at
\* yet, and a fire-and-forget call's question is not orphaned yet.
LEMMA AsksFit ==
  ASSUME NEW s, NEW r, NEW c \in Calls, Asks(s, r, c), Fit(s, {}, {}, {})
  PROVE  Fit(r, {}, {s.call[c].owner}, IF s.call[c].mode = "fire" THEN {c} ELSE {})
<1> DEFINE k == s.call[c].owner
           X == IF s.call[c].mode = "fire" THEN {c} ELSE {}
<1> SUFFICES ASSUME NEW d \in Calls PROVE AskSound(r, {}, X, d) /\ HoldSound(r, {k}, d) /\ DrainSound(r, {}, d)
  BY DEF Fit
<1>1. AskSound(s, {}, {}, d) /\ HoldSound(s, {}, d) /\ DrainSound(s, {}, d)
  BY DEF Fit
<1>2. Parked(r) \subseteq Parked(s) \union {c}
  BY AsksSets
<1>3. AskSound(r, {}, X, d)
  <2>1. CASE d = c
    BY <2>1 DEF AskSound, Asks, Clock
  <2>2. CASE d # c
    BY <1>1, <1>2, <2>2 DEF AskSound, Asks, Clock
  <2> QED
    BY <2>1, <2>2
<1>4. HoldSound(r, {k}, d)
  <2> SUFFICES ASSUME r.call[d].stage = "held" PROVE HoldSound(r, {k}, d)
    BY DEF HoldSound
  <2>1. d # c /\ r.call[d] = s.call[d] /\ s.call[d].stage = "held"
    BY DEF Asks
  <2> DEFINE j == s.call[d].conv
  <2>2. OpenSubs(s, j) # {} /\ AskedOf(s, j) = {}
    BY <1>1, <2>1 DEF HoldSound
  <2>3. OpenSubs(r, j) = OpenSubs(s, j) /\ AskedOf(r, j) \subseteq {c} /\ (j # k => AskedOf(r, j) = {})
    BY <2>2, AsksSets
  <2>4. r.call[c].q = "put"
    BY DEF Asks
  <2> QED
    BY <2>1, <2>2, <2>3, <2>4 DEF HoldSound
<1>5. DrainSound(r, {}, d)
  BY <1>1 DEF DrainSound, Asks
<1> QED
  BY <1>3, <1>4, <1>5

\* A question takes nothing from anybody.
LEMMA AsksHeard ==
  ASSUME NEW s, NEW r, NEW c \in Calls, Asks(s, r, c), Heard(s, {})
  PROVE  Heard(r, {})
<1> SUFFICES ASSUME ~s.over, NEW d \in Calls
             PROVE  HearSound(r, {}, d) /\ StopSound(r, d) /\ r.call[d].stage # "noted"
  BY DEF Heard, Asks
<1>1. HearSound(s, {}, d) /\ StopSound(s, d) /\ s.call[d].stage # "noted"
  BY DEF Heard
<1>2. \A e \in Calls : r.call[e].stage = s.call[e].stage /\ r.call[e].owner = s.call[e].owner
                       /\ r.call[e].stopped = s.call[e].stopped
  BY DEF Asks
<1>3. ASSUME NEW j PROVE (WillHear(s, j) => WillHear(r, j)) /\ (AtWork(s, j) => AtWork(r, j))
  <2>1. CallsOn(r, j) = CallsOn(s, j) /\ (Resumable(r, j) <=> Resumable(s, j)) /\ CallsOn(s, j) \subseteq Calls
    BY AsksSets
  <2> QED
    BY <1>2, <2>1 DEF WillHear, AtWork, Asks
<1>4. HearSound(r, {}, d)
  BY <1>1, <1>2, <1>3 DEF HearSound, Asks
<1>5. StopSound(r, d)
  BY <1>1, <1>2, <1>3 DEF StopSound, Asks
<1> QED
  BY <1>1, <1>2, <1>4, <1>5

\* Once the question is gone again, or nobody is held who would answer it, the
\* book is as fit as before.
LEMMA AsksDealtWith ==
  ASSUME NEW s, NEW r, NEW c \in Calls, Asks(s, r, c), Fit(s, {}, {}, {}), NEW u, Gentle(r, u),
         \/ c \notin Parked(u)
         \/ HeldOn(u, s.call[c].owner) = {} /\ s.call[c].mode # "fire"
  PROVE  Fit(u, {}, {}, {})
<1> DEFINE k == s.call[c].owner
           X == IF s.call[c].mode = "fire" THEN {c} ELSE {}
<1> SUFFICES ASSUME NEW d \in Calls PROVE AskSound(u, {}, {}, d) /\ HoldSound(u, {}, d) /\ DrainSound(u, {}, d)
  BY DEF Fit
<1>1. Fit(u, {}, {k}, X)
  BY AsksFit, GentleFit
<1>2. AskSound(u, {}, X, d) /\ HoldSound(u, {k}, d) /\ DrainSound(u, {}, d)
  BY <1>1 DEF Fit
<1>3. AskSound(u, {}, {}, d)
  BY <1>2 DEF AskSound
<1>4. HoldSound(u, {}, d)
  <2> SUFFICES ASSUME u.call[d].stage = "held", u.call[d].conv = k PROVE HoldSound(u, {}, d)
    BY <1>2 DEF HoldSound
  <2>1. d \in HeldOn(u, k)
    BY DEF HeldOn, CallsOn, Active
  <2>2. c \notin Parked(u)
    BY <2>1
  <2>3. s.call[d].stage = "held" /\ s.call[d].conv = k
    BY DEF Gentle, GentleOn, Follows, Asks
  <2>4. OpenSubs(s, k) # {} /\ AskedOf(s, k) = {}
    BY <2>3 DEF Fit, HoldSound
  <2>5. OpenSubs(u, k) = OpenSubs(s, k) /\ AskedOf(u, k) \subseteq {c}
    BY <2>4, AsksSets, GentleSets
  <2>6. AskedOf(u, k) = {}
    BY <2>2, <2>5 DEF AskedOf
  <2> QED
    BY <2>4, <2>5, <2>6 DEF HoldSound
<1> QED
  BY <1>2, <1>3, <1>4

\* A question parked: handed to a wait, told to a caller woken for it, put off
\* to a drain, or orphaned.
LEMMA ParkLasts ==
  ASSUME NEW c \in Calls, AtRest, Park(c)
  PROVE  Lasting(run')
<1> DEFINE k == run.call[c].owner
           asks == [run EXCEPT !.call[c].q = "put"]
           r == Rearmed(asks, {c})
           s == Blocked(r, run.call[c].conv)
           t == Collectable(s, {c})
<1>1. run' = IF run.call[c].mode = "fire" THEN Orphaned(s, {c})
             ELSE IF Live(t, k) THEN HandedToWaiter(t, c)
             ELSE IF WakeOf(t, k, {c}, {}) = "none" THEN Orphaned(t, {c})
             ELSE Woken(t, k, {c}, {})
  BY DEF Park, Becomes
<1>2. Sound(run, Lead) /\ Shaped(run) /\ Fit(run, {}, {}, {}) /\ run.call[c].stage = "turn"
  BY DEF AtRest, Sound, Park
<1>3. /\ DOMAIN asks = Parts /\ asks.made = run.made /\ asks.wait = run.wait /\ asks.heard = run.heard
      /\ asks.lead = run.lead /\ asks.book = run.book /\ DOMAIN asks.call = Calls /\ asks.over = run.over
      /\ asks.deferred = run.deferred /\ asks.blocked = run.blocked
      /\ \A d \in Calls : asks.call[d] = IF d = c THEN [run.call[d] EXCEPT !.q = "put"] ELSE run.call[d]
  BY <1>2 DEF Shaped, Parts
<1>4. \A d \in Calls : DOMAIN run.call[d] = Fields
  BY <1>2 DEF Shaped
<1>5. ASSUME NEW d \in Calls
      PROVE  /\ DOMAIN asks.call[d] = Fields
             /\ asks.call[d].mode = run.call[d].mode /\ asks.call[d].owner = run.call[d].owner
             /\ asks.call[d].conv = run.call[d].conv /\ asks.call[d].madeIn = run.call[d].madeIn
             /\ asks.call[d].stage = run.call[d].stage /\ asks.call[d].session = run.call[d].session
             /\ asks.call[d].stopped = run.call[d].stopped
             /\ d = c => asks.call[d].q = "put"
  BY <1>3, <1>4 DEF Fields
<1> HIDE DEF asks
<1>6. Like(run, asks) /\ Shaped(asks)
  <2>1. Like(run, asks)
    BY <1>2, <1>3, <1>5, CallsMoved DEF SameLife
  <2> QED
    BY <2>1 DEF Like
<1>7. /\ r.lead = run.lead /\ r.over = run.over /\ r.deferred = run.deferred /\ r.blocked = run.blocked
      /\ r.book = run.book
      /\ \A d \in Calls : r.call[d] = IF d = c THEN [asks.call[d] EXCEPT !.timed = run.call[d].owner \notin run.blocked]
                                      ELSE run.call[d]
  BY <1>3, <1>5, <1>6 DEF Shaped, Parts, Rearmed
<1>8. Like(asks, r) /\ Shaped(r)
  BY <1>6, RearmedLike DEF Like
<1> HIDE DEF r
<1>9. Asks(run, r, c)
  <2>1. r.call[c] = [asks.call[c] EXCEPT !.timed = run.call[c].owner \notin run.blocked]
    BY <1>7
  <2>2. /\ r.call[c].owner = run.call[c].owner /\ r.call[c].conv = run.call[c].conv /\ r.call[c].mode = run.call[c].mode
        /\ r.call[c].session = run.call[c].session /\ r.call[c].stopped = run.call[c].stopped
        /\ r.call[c].stage = run.call[c].stage /\ r.call[c].q = "put"
        /\ r.call[c].timed = (run.call[c].owner \notin run.blocked)
    BY <1>5, <2>1 DEF Fields
  <2> QED
    BY <1>2, <1>7, <2>2 DEF Asks
<1>10. Gentle(r, s) /\ Like(r, s) /\ Shaped(s) /\ s.call[c].q = "put"
  <2>1. s.call[c].q = r.call[c].q
    BY <1>8, BlockedAsks
  <2> QED
    BY <1>8, <1>9, <2>1, BlockedGentle, BlockedLike DEF Like, Asks
<1> HIDE DEF s
<1>11. Sound(s, Lead)
  BY <1>2, <1>6, <1>8, <1>10, LikeInTurn, LikeSound
<1>12. Heard(run, {}) => Heard(r, {})
  BY <1>9, AsksHeard
<1>13. ASSUME NEW u, Gentle(r, u), c \notin Parked(u) \/ (HeldOn(u, k) = {} /\ run.call[c].mode # "fire")
       PROVE  Lasting(u)
  <2>1. Fit(u, {}, {}, {})
    BY <1>2, <1>9, <1>13, AsksDealtWith
  <2>2. Heard(run, {}) => Heard(u, {})
    BY <1>12, <1>13, GentleHeard
  <2> QED
    BY <2>1, <2>2 DEF Lasting
<1>14. CASE run.call[c].mode = "fire"
  <2>1. run' = Orphaned(s, {c})
    BY <1>1, <1>14
  <2>2. Gentle(s, run') /\ Parked(run') \cap {c} = {}
    BY <1>10, <2>1, OrphanedGentle, OrphanedAsks
  <2>3. Gentle(r, run') /\ c \notin Parked(run')
    BY <1>10, <2>2, GentleInTurn
  <2> QED
    BY <1>13, <2>3
<1>15. IsOpen(s, c) /\ ~Ready(s, c) /\ s.call[c].stage = "turn" /\ s.call[c].owner = k /\ s.call[c].mode = run.call[c].mode
  BY <1>9, <1>10 DEF Asks, Gentle, GentleOn, Follows, IsOpen, Ready
<1>16. k \in Convs
  <2>1. CallMade(s, c) /\ IsMade(s, c)
    BY <1>11, <1>15 DEF Sound, IsMade, IsOpen
  <2> QED
    BY <1>15, <2>1 DEF CallMade
<1>17. /\ Shaped(t) /\ t.lead = s.lead /\ t.call = s.call /\ t.made = s.made /\ t.wait = s.wait
       /\ Gentle(s, t)
  BY <1>10, <1>15, CollectableFields, CollectableGentle
<1>18. Gentle(r, t)
  BY <1>10, <1>17, GentleInTurn
<1>19. ASSUME NEW d \in Calls PROVE ~Ready(t, d)
  <2>1. r.call[d].stage = run.call[d].stage /\ (r.call[d].stopped <=> run.call[d].stopped)
    BY <1>9 DEF Asks
  <2>2. GentleOn(r, t, d)
    BY <1>18 DEF Gentle
  <2>3. ~Ready(run, d)
    BY DEF AtRest
  <2> HIDE DEF t
  <2> QED
    BY <2>1, <2>2, <2>3 DEF Ready, GentleOn, Follows
<1>20. Live(t, k) => HeldOn(t, k) = {}
  <2>1. CASE k = Lead
    <3>1. HeldOn(s, k) = {}
      BY <1>11, <2>1, NothingHeld
    <3> QED
      BY <1>17, <3>1, GentleSets
  <2>2. CASE k # Lead
    <3> SUFFICES ASSUME NEW x \in CallsOn(t, k), t.call[x].stage \in {"turn", "finishing"}, NEW d \in HeldOn(t, k)
                 PROVE  FALSE
      BY <2>2 DEF Live
    <3>1. x \in Calls /\ d \in Calls /\ IsOpen(s, x) /\ IsOpen(s, d) /\ s.call[x].conv = k /\ s.call[d].conv = k
          /\ s.call[d].stage = "held" /\ s.call[x].stage # "held"
      BY <1>17 DEF CallsOn, HeldOn, Active, IsOpen
    <3> QED
      BY <1>11, <3>1 DEF Sound, OnePerConv
  <2> QED
    BY <2>1, <2>2
<1>21. CASE run.call[c].mode # "fire" /\ Live(t, k)
  <2>1. run' = HandedToWaiter(t, c)
    BY <1>1, <1>21
  <2>2. Lasting(t)
    BY <1>13, <1>18, <1>20, <1>21
  <2> HIDE DEF t
  <2>3. Gentle(t, run')
    BY <1>17, <1>19, <2>1, HandedToWaiterGentle
  <2> QED
    BY <2>2, <2>3, GentleFit, GentleHeard DEF Lasting
<1>22. CASE run.call[c].mode # "fire" /\ ~Live(t, k)
  <2>1. ~Live(s, s.call[c].owner)
    BY <1>15, <1>17, <1>22 DEF Live, CallsOn, Active
  <2>2. \A w \in Requests : s.wait[w].how = "sync" => c \notin s.wait[w].on
    BY <1>11, <2>1, NoSyncWaitUnlessLive
  <2>3. Sound(t, Lead) /\ OnePerConv(t)
    BY <1>11, <1>15, <1>22, <2>2, CollectableSound DEF Sound
  <2>4. run' = IF WakeOf(t, k, {c}, {}) = "none" THEN Orphaned(t, {c}) ELSE Woken(t, k, {c}, {})
    BY <1>1, <1>22
  <2>5. {c} \subseteq AskedOf(t, k)
    BY <1>10, <1>15, <1>17 DEF AskedOf, Parked, Active
  <2> HIDE DEF t
  <2>6. Fit(t, {}, {k}, {}) /\ (Heard(run, {}) => Heard(t, {}))
    <3>1. Fit(r, {}, {k}, {})
      BY <1>2, <1>9, <1>22, AsksFit
    <3> QED
      BY <1>12, <1>18, <3>1, GentleFit, GentleHeard
  <2>7. CASE WakeOf(t, k, {c}, {}) = "none"
    <3>1. Gentle(t, run') /\ Parked(run') \cap {c} = {}
      BY <1>17, <2>4, <2>7, OrphanedGentle, OrphanedAsks
    <3>2. Gentle(r, run') /\ c \notin Parked(run')
      BY <1>18, <3>1, GentleInTurn
    <3> QED
      BY <1>13, <3>2
  <2>8. CASE WakeOf(t, k, {c}, {}) = "held"
    <3>1. run' = ReviewedIfHeld(t, k)
      BY <2>4, <2>8 DEF Woken
    <3>2. Gentle(t, run') /\ Fit(run', {}, {k} \ {k}, {})
      BY <1>17, <2>3, <2>6, <3>1, ReviewedIfHeldFit
    <3>3. {k} \ {k} = {}
      OBVIOUS
    <3> QED
      BY <2>6, <3>2, <3>3, GentleHeard DEF Lasting
  <2>9. CASE WakeOf(t, k, {c}, {}) = "deferred"
    <3>1. run' = Deferred(t, k)
      BY <2>4, <2>9 DEF Woken
    <3>2. HeldOn(t, k) = {}
      BY <2>9 DEF WakeOf
    <3>3. Gentle(t, run')
      BY <1>17, <3>1, DeferredGentle
    <3>4. Gentle(r, run') /\ HeldOn(run', k) = {}
      BY <1>18, <3>2, <3>3, GentleInTurn, GentleSets
    <3> QED
      BY <1>13, <1>22, <3>4
  <2>10. CASE WakeOf(t, k, {c}, {}) = "started"
    <3>1. run' = Woken(t, k, {c}, {})
      BY <2>4, <2>10
    <3>2. HeldOn(t, k) = {}
      BY <2>10 DEF WakeOf
    <3>3. Lasting(t)
      BY <1>13, <1>18, <1>22, <3>2
    <3>4. Fit(run', {}, {}, {}) /\ Gentle(TurnStarted(t, k), run')
      BY <1>16, <2>3, <2>5, <2>10, <3>1, <3>3, StartedFit DEF Lasting
    <3>5. Heard(t, {}) => Heard(TurnStarted(t, k), {})
      BY <1>16, <2>3, <2>10, TurnStartedHeard
    <3> QED
      BY <3>3, <3>4, <3>5, GentleHeard DEF Lasting
  <2>11. WakeOf(t, k, {c}, {}) \in {"none", "held", "deferred", "started"}
    BY DEF WakeOf
  <2> QED
    BY <2>7, <2>8, <2>9, <2>10, <2>11
<1> QED
  BY <1>14, <1>21, <1>22

\* Every step leaves questions, holds and drains sound, and, where no start
\* throws and no turn ends amid a settling, everybody in reach of their results.
LEMMA NextLasts ==
  ASSUME Sound(run, Lead), Fit(run, {}, {}, {}), Next
  PROVE  Fit(run', {}, {}, {}) /\ (Odd \/ Lasting(run'))
<1>1. ASSUME NEW c \in Calls, Settle(c) \/ QueuedStopped(c) \/ EndCalleeTurn(c)
      PROVE  Lasting(run')
  BY <1>1, SettleLasts, QueuedStoppedLasts, EndCalleeTurnLasts
<1>2. CASE EndLeadTurn
  BY <1>2, EndLeadTurnLasts DEF Lasting
<1>3. ~Reacting => AtRest
  BY DEF Reacting, AtRest, Ready, Stopped
<1>4. ASSUME ~Reacting, NEW k \in Convs, AgentActs(k)
      PROVE  Lasting(run')
  <2>1. AtRest
    BY <1>3, <1>4
  <2>2. Working(k) /\ (CallAgent(k) \/ AwaitAny(k) \/ \E c \in Calls : AwaitAgent(k, c) \/ AnswerAgent(k, c) \/ CancelAgent(k, c))
    BY <1>4 DEF AgentActs
  <2> QED
    BY <2>1, <2>2, CallAgentLasts, AwaitAnyLasts, AwaitAgentLasts, SmallStepsLast, CancelAgentLasts
<1>5. ASSUME ~Reacting, NEW c \in Calls, CallLives(c)
      PROVE  Fit(run', {}, {}, {}) /\ (Odd \/ Lasting(run'))
  <2>1. AtRest
    BY <1>3, <1>5
  <2>2. Park(c) \/ ExpireQuestion(c) \/ Admit(c) \/ TurnDone(c) \/ Swept(c) \/ Write(c) \/ StartFails(c)
    BY <1>5 DEF CallLives
  <2>3. CASE Park(c) \/ ExpireQuestion(c) \/ Admit(c) \/ TurnDone(c) \/ Swept(c)
    <3>1. Lasting(run')
      BY <2>1, <2>3, ParkLasts, SmallStepsLast, AdmitLasts, TurnDoneLasts, SweptLasts
    <3> QED
      BY <3>1 DEF Lasting
  <2>4. CASE Write(c)
    BY <2>1, <2>4, WriteLasts
  <2>5. CASE StartFails(c)
    BY <2>5, StartFailsLasts
  <2> QED
    BY <2>2, <2>3, <2>4, <2>5
<1>6. ASSUME ~Reacting, (\E w \in Requests : WaitLetGo(w)) \/ LeadDone \/ WakeLead \/ UserWrites \/ StopRun
      PROVE  Lasting(run')
  <2>1. AtRest
    BY <1>3, <1>6
  <2> QED
    BY <1>6, <2>1, SmallStepsLast, LeadDoneLasts, LeadBegunLasts, StopRunLasts
<1> QED
  BY <1>1, <1>2, <1>4, <1>5, <1>6 DEF Next, Lasting

\* The whole invariant of the broker.
AtEase == Sound(run, Lead) /\ Fit(run, {}, {}, {}) /\ (Odd \/ Heard(run, {}))

\* Nothing is asked, held or owed at first.
LEMMA InitIsAtEase == Init => AtEase
<1> SUFFICES ASSUME Init PROVE AtEase
  OBVIOUS
<1>1. run = NewRun
  BY DEF Init
<1>2. /\ \A c \in Calls : run.call[c] = NoCall /\ run.book[c] = "no"
      /\ NoCall.stage = "unmade" /\ NoCall.q = "none"
  BY <1>1 DEF NewRun, NoCall
<1>3. Parked(run) = {}
  BY <1>2 DEF Parked, Active
<1>4. Fit(run, {}, {}, {})
  BY <1>2, <1>3 DEF Fit, AskSound, HoldSound, DrainSound, AfterTurn
<1>5. Heard(run, {})
  BY <1>2 DEF Heard, HearSound, StopSound
<1> QED
  BY <1>4, <1>5, InitIsSound DEF AtEase

\* The weather of a behaviour is one.
LEMMA WeatherHolds ==
  ASSUME [Next]_vars
  PROVE  weather' = weather
<1>1. ASSUME NEW k \in Convs, AgentActs(k) PROVE weather' = weather
  <2>1. ASSUME CallAgent(k) \/ AwaitAny(k) PROVE weather' = weather
    BY <2>1 DEF CallAgent, AwaitAny, Becomes
  <2>2. ASSUME NEW c \in Calls, AwaitAgent(k, c) \/ AnswerAgent(k, c) \/ CancelAgent(k, c)
        PROVE  weather' = weather
    BY <2>2 DEF AwaitAgent, AnswerAgent, CancelAgent, Becomes
  <2> QED
    BY <1>1, <2>1, <2>2 DEF AgentActs
<1>2. ASSUME NEW c \in Calls, CallLives(c) PROVE weather' = weather
  <2>1. ASSUME Park(c) \/ ExpireQuestion(c) \/ Admit(c) \/ TurnDone(c) PROVE weather' = weather
    BY <2>1 DEF Park, ExpireQuestion, Admit, TurnDone, Becomes
  <2>2. ASSUME Swept(c) \/ Write(c) \/ StartFails(c) PROVE weather' = weather
    BY <2>2 DEF Swept, Write, StartFails, Becomes
  <2> QED
    BY <1>2, <2>1, <2>2 DEF CallLives
<1>3. ASSUME NEW c \in Calls, Settle(c) \/ QueuedStopped(c) \/ EndCalleeTurn(c) PROVE weather' = weather
  BY <1>3 DEF Settle, QueuedStopped, EndCalleeTurn, Becomes
<1>4. ASSUME NEW w \in Requests, WaitLetGo(w) PROVE weather' = weather
  BY <1>4 DEF WaitLetGo, Becomes
<1>5. ASSUME EndLeadTurn \/ LeadDone \/ WakeLead \/ UserWrites \/ StopRun PROVE weather' = weather
  BY <1>5 DEF EndLeadTurn, LeadDone, WakeLead, UserWrites, StopRun, Becomes
<1> QED
  BY <1>1, <1>2, <1>3, <1>4, <1>5 DEF Next, vars

\* The invariant is inductive.
LEMMA NextKeepsEase ==
  ASSUME AtEase, [Next]_vars
  PROVE  AtEase'
<1>1. Sound(run', Lead)
  BY NextKeepsSound DEF AtEase
<1>2. weather' = weather
  BY WeatherHolds
<1>3. CASE Next
  BY <1>1, <1>2, <1>3, NextLasts DEF AtEase, Lasting, Odd
<1>4. CASE UNCHANGED vars
  BY <1>4 DEF AtEase, vars, Odd
<1> QED
  BY <1>3, <1>4

\* Every reachable book is at ease.
LEMMA AlwaysAtEase == Spec => []AtEase
<1>1. AtEase /\ [Next]_vars => AtEase'
  BY NextKeepsEase
<1> QED
  BY <1>1, InitIsAtEase, PTL DEF Spec

\* A held call waits for open calls none of which waits for it in turn, and
\* every question has a clock that runs, or somebody who comes to it: nobody in
\* a run waits for nobody, however calls are held, woken, stopped or orphaned.
THEOREM NobodyIsStuck == Spec => []NobodyWaitsForNobody
<1>1. AtEase => NobodyWaitsForNobody
  <2> SUFFICES ASSUME AtEase, NEW c \in Active(run)
               PROVE  /\ run.call[c].stage = "held" =>
                           OpenSubs(run, run.call[c].conv) # {} /\ AskedOf(run, run.call[c].conv) = {}
                      /\ c \in Parked(run) =>
                           run.call[c].timed \/ run.call[c].owner \in run.blocked \union run.deferred
    BY DEF NobodyWaitsForNobody, HeldCallsWaitForWork, QuestionsHaveAClock, Parked
  <2>1. c \in Calls
    BY DEF Active
  <2>2. AskSound(run, {}, {}, c) /\ HoldSound(run, {}, c)
    BY <2>1 DEF AtEase, Fit
  <2> QED
    BY <2>2 DEF AskSound, HoldSound, Clock
<1> QED
  BY <1>1, AlwaysAtEase, PTL

\* When a run goes quiet, every result that was not collected was told to its
\* caller, unless that is a conversation nothing can wake: for any calls, waits
\* and levels, with holds, wakes, questions, stops and queued starts.
THEOREM ResultsAreTold == Spec => []NothingIsLeftUntold
<1>1. AtEase => NothingIsLeftUntold
  <2> SUFFICES ASSUME AtEase, Quiet, ~run.over, ~Odd, NEW c \in Calls, run.book[c] = "untold"
               PROVE  run.call[c].owner # Lead /\ ~Resumable(run, run.call[c].owner)
    BY DEF NothingIsLeftUntold, Odd
  <2>1. CallTallied(run, Lead, c) /\ c \notin Active(run)
    BY DEF AtEase, Sound, Quiet
  <2>2. run.call[c].stage = "done"
    BY <2>1 DEF CallTallied, Owed, IsMade, Active
  <2>3. HearSound(run, {}, c)
    BY DEF AtEase, Heard
  <2>4. WillHear(run, run.call[c].owner)
    BY <2>2, <2>3 DEF HearSound
  <2>5. run.lead = "idle" /\ CallsOn(run, run.call[c].owner) = {}
    BY DEF Quiet, CallsOn
  <2> QED
    BY <2>4, <2>5 DEF WillHear
<1> QED
  BY <1>1, AlwaysAtEase, PTL
=============================================================================
