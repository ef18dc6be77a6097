----------------------------- MODULE CallProofs -----------------------------
(***************************************************************************)
(* Every result is handed over once, for any number of calls, waits and    *)
(* levels and any weather, from one inductive invariant over the book.     *)
(***************************************************************************)
EXTENDS CallBroker, WellFoundedInduction, TLAPS

Parts == {"call", "made", "book", "blocked", "deferred", "wait", "lead", "wake", "over", "heard"}
Fields == {"stage", "owner", "conv", "mode", "madeIn", "depth", "q", "seen", "timed", "failed",
           "stopped", "ended", "everHeld", "session"}

\* A book is made of the records it is made of.
Shaped(s) ==
  /\ DOMAIN s = Parts
  /\ DOMAIN s.call = Calls /\ DOMAIN s.book = Calls /\ DOMAIN s.heard = Calls /\ DOMAIN s.wait = Requests
  /\ \A c \in Calls : DOMAIN s.call[c] = Fields
  /\ \A w \in Requests : DOMAIN s.wait[w] = {"of", "how", "on"}

IsOpen(s, c) == s.call[c].stage \notin {"unmade", "done"}

\* Between the two stages nothing begins, settles, or leaves its turn.
SameLife(a, b) ==
  /\ a = "unmade" <=> b = "unmade"
  /\ a = "done" <=> b = "done"
  /\ a = "turn" => b = "turn"

\* Nothing was handed over, no wait began or ended, and what is collectable
\* is as it was; what changed is questions, notes and stages within a life.
Like(s, t) ==
  /\ Shaped(t)
  /\ t.made = s.made /\ t.wait = s.wait /\ t.heard = s.heard /\ t.lead = s.lead
  /\ \A c \in Calls :
       /\ t.book[c] = "no" <=> s.book[c] = "no"
       /\ t.call[c].mode = s.call[c].mode
       /\ t.call[c].owner = s.call[c].owner
       /\ t.call[c].conv = s.call[c].conv
       /\ t.call[c].madeIn = s.call[c].madeIn
       /\ SameLife(s.call[c].stage, t.call[c].stage)

\* What is the same in turn is the same.
LEMMA LikeInTurn ==
  ASSUME NEW s, NEW t, NEW u, Like(s, t), Like(t, u)
  PROVE  Like(s, u)
BY DEF Like, SameLife

\* Setting the clocks of questions.
LEMMA RearmedLike ==
  ASSUME NEW s, Shaped(s), NEW C
  PROVE  Like(s, Rearmed(s, C))
<1> DEFINE t == Rearmed(s, C)
<1>1. DOMAIN t = Parts /\ t.made = s.made /\ t.wait = s.wait /\ t.heard = s.heard /\ t.lead = s.lead /\ t.book = s.book
      /\ DOMAIN t.call = Calls
  BY DEF Shaped, Parts, Rearmed
<1>2. ASSUME NEW c \in Calls
      PROVE  /\ DOMAIN t.call[c] = Fields
             /\ t.call[c].mode = s.call[c].mode /\ t.call[c].owner = s.call[c].owner /\ t.call[c].conv = s.call[c].conv
             /\ t.call[c].madeIn = s.call[c].madeIn /\ t.call[c].stage = s.call[c].stage
  BY DEF Shaped, Parts, Fields, Rearmed
<1> QED
  BY <1>1, <1>2 DEF Shaped, Like, SameLife

\* A step that sets questions and marks of calls, and notes, is alike.
LEMMA UnparkedLike ==
  ASSUME NEW s, Shaped(s), NEW C
  PROVE  Like(s, Unparked(s, C))
<1> DEFINE asked == C \intersect Parked(s)
           freed == {s.call[c].conv : c \in asked} \intersect s.blocked
           t == [s EXCEPT !.blocked = @ \ freed,
                          !.call = [c \in Calls |-> IF c \in asked
                            THEN [@[c] EXCEPT !.q = "none", !.seen = FALSE, !.timed = FALSE] ELSE @[c]]]
<1>0. Unparked(s, C) = Rearmed(t, UNION {AskedOf(t, k) : k \in freed})
  BY DEF Unparked
<1>1. DOMAIN t = Parts /\ t.made = s.made /\ t.wait = s.wait /\ t.heard = s.heard /\ t.lead = s.lead /\ t.book = s.book
      /\ DOMAIN t.call = Calls
  BY DEF Shaped, Parts
<1>2. ASSUME NEW c \in Calls
      PROVE  /\ DOMAIN t.call[c] = Fields
             /\ t.call[c].mode = s.call[c].mode /\ t.call[c].owner = s.call[c].owner /\ t.call[c].conv = s.call[c].conv
             /\ t.call[c].madeIn = s.call[c].madeIn /\ t.call[c].stage = s.call[c].stage
  BY DEF Shaped, Parts, Fields
<1> HIDE DEF t, freed, asked
<1>3. Like(s, t)
  BY <1>1, <1>2 DEF Shaped, Like, SameLife
<1>4. Like(t, Rearmed(t, UNION {AskedOf(t, k) : k \in freed}))
  BY <1>3, RearmedLike DEF Like
<1> QED
  BY <1>0, <1>3, <1>4, LikeInTurn

\* Failing the calls whose questions nobody answers.
LEMMA FailedParkedLike ==
  ASSUME NEW s, Shaped(s), NEW C
  PROVE  Like(s, FailedParked(s, C))
<1> DEFINE asked == C \intersect Parked(s)
           u == Unparked(s, asked)
           t == [u EXCEPT !.call = [c \in Calls |-> IF c \in asked THEN [@[c] EXCEPT !.failed = TRUE] ELSE @[c]]]
<1>0. FailedParked(s, C) = t
  BY DEF FailedParked
<1>1. Like(s, u) /\ Shaped(u)
  BY UnparkedLike DEF Like
<1> HIDE DEF u, asked
<1>2. DOMAIN t = Parts /\ t.made = u.made /\ t.wait = u.wait /\ t.heard = u.heard /\ t.lead = u.lead /\ t.book = u.book
      /\ DOMAIN t.call = Calls
  BY <1>1 DEF Shaped, Parts
<1>3. ASSUME NEW c \in Calls
      PROVE  /\ DOMAIN t.call[c] = Fields
             /\ t.call[c].mode = u.call[c].mode /\ t.call[c].owner = u.call[c].owner /\ t.call[c].conv = u.call[c].conv
             /\ t.call[c].madeIn = u.call[c].madeIn /\ t.call[c].stage = u.call[c].stage
  BY <1>1 DEF Shaped, Parts, Fields
<1> HIDE DEF t
<1>4. Like(u, t)
  BY <1>1, <1>2, <1>3 DEF Shaped, Like, SameLife
<1> QED
  BY <1>0, <1>1, <1>4, LikeInTurn

\* Giving up on questions: what was to be told counts as told.
LEMMA OrphanedLike ==
  ASSUME NEW s, Shaped(s), NEW C
  PROVE  Like(s, Orphaned(s, C))
<1> DEFINE t == [s EXCEPT !.book = [c \in Calls |-> IF c \in C /\ @[c] # "no" THEN "told" ELSE @[c]]]
<1>0. Orphaned(s, C) = FailedParked(t, C)
  BY DEF Orphaned
<1>1. DOMAIN t = Parts /\ t.made = s.made /\ t.wait = s.wait /\ t.heard = s.heard /\ t.lead = s.lead /\ t.call = s.call
      /\ DOMAIN t.book = Calls /\ \A c \in Calls : t.book[c] = "no" <=> s.book[c] = "no"
  BY DEF Shaped, Parts
<1> HIDE DEF t
<1>2. Like(s, t) /\ Shaped(t)
  BY <1>1 DEF Shaped, Like, SameLife
<1> QED
  BY <1>0, <1>2, FailedParkedLike, LikeInTurn

\* Moving calls within their lives, or setting what no result depends on.
LEMMA CallsMoved ==
  ASSUME NEW s, NEW t, Shaped(s), DOMAIN t = Parts, t.made = s.made, t.wait = s.wait, t.heard = s.heard,
         t.lead = s.lead, t.book = s.book, DOMAIN t.call = Calls,
         \A c \in Calls :
           /\ DOMAIN t.call[c] = Fields
           /\ t.call[c].mode = s.call[c].mode /\ t.call[c].owner = s.call[c].owner
           /\ t.call[c].conv = s.call[c].conv /\ t.call[c].madeIn = s.call[c].madeIn
           /\ SameLife(s.call[c].stage, t.call[c].stage)
  PROVE  Like(s, t)
BY DEF Like, Shaped

\* Showing a question.
LEMMA SeenLike ==
  ASSUME NEW s, Shaped(s), NEW c \in Calls
  PROVE  Like(s, Seen(s, c))
<1> DEFINE t == [s EXCEPT !.call[c].seen = TRUE]
<1>1. DOMAIN t = Parts /\ t.made = s.made /\ t.wait = s.wait /\ t.heard = s.heard /\ t.lead = s.lead
      /\ t.book = s.book /\ DOMAIN t.call = Calls
  BY DEF Shaped, Parts
<1>2. ASSUME NEW d \in Calls
      PROVE  /\ DOMAIN t.call[d] = Fields
             /\ t.call[d].mode = s.call[d].mode /\ t.call[d].owner = s.call[d].owner /\ t.call[d].conv = s.call[d].conv
             /\ t.call[d].madeIn = s.call[d].madeIn /\ t.call[d].stage = s.call[d].stage
  BY DEF Shaped, Parts, Fields
<1> HIDE DEF t
<1>3. Like(s, t)
  BY <1>1, <1>2, CallsMoved DEF SameLife
<1>4. Like(t, Rearmed(t, {c}))
  BY <1>3, RearmedLike DEF Like
<1>5. Seen(s, c) = Rearmed(t, {c})
  BY DEF Seen, t
<1> QED
  BY <1>3, <1>4, <1>5, LikeInTurn

\* Stopping the clocks of those who wait for a blocked agent.
LEMMA BlockedLike ==
  ASSUME NEW s, Shaped(s), NEW k
  PROVE  Like(s, Blocked(s, k))
<1> DEFINE t == [s EXCEPT !.blocked = @ \union {k}]
<1>1. DOMAIN t = Parts /\ t.made = s.made /\ t.wait = s.wait /\ t.heard = s.heard /\ t.lead = s.lead
      /\ t.book = s.book /\ t.call = s.call
  BY DEF Shaped, Parts
<1>5. Blocked(s, k) = s \/ Blocked(s, k) = Rearmed(t, AskedOf(s, k))
  BY DEF Blocked
<1> HIDE DEF t
<1>2. Like(s, t)
  BY <1>1 DEF Like, Shaped, SameLife
<1>3. Like(t, Rearmed(t, AskedOf(s, k)))
  BY <1>2, RearmedLike DEF Like
<1>4. Like(s, s)
  BY DEF Like, SameLife
<1>6. Like(s, Rearmed(t, AskedOf(s, k)))
  BY <1>2, <1>3, LikeInTurn
<1> QED
  BY <1>4, <1>5, <1>6

\* Telling an agent what it is woken for.
LEMMA ToldLike ==
  ASSUME NEW s, Shaped(s), NEW A, NEW F
  PROVE  Like(s, Told(s, A, F))
<1> DEFINE t == [s EXCEPT !.call = [c \in Calls |-> IF c \in A THEN [@[c] EXCEPT !.q = "told"] ELSE @[c]],
                          !.book = [c \in Calls |-> IF c \in F /\ @[c] # "no" THEN "told" ELSE @[c]]]
<1>1. DOMAIN t = Parts /\ t.made = s.made /\ t.wait = s.wait /\ t.heard = s.heard /\ t.lead = s.lead
      /\ DOMAIN t.call = Calls /\ DOMAIN t.book = Calls
      /\ \A c \in Calls : t.book[c] = "no" <=> s.book[c] = "no"
  BY DEF Shaped, Parts
<1>2. ASSUME NEW c \in Calls
      PROVE  /\ DOMAIN t.call[c] = Fields
             /\ t.call[c].mode = s.call[c].mode /\ t.call[c].owner = s.call[c].owner /\ t.call[c].conv = s.call[c].conv
             /\ t.call[c].madeIn = s.call[c].madeIn /\ t.call[c].stage = s.call[c].stage
  BY DEF Shaped, Parts, Fields
<1>3. Told(s, A, F) = Rearmed(t, A)
  BY DEF Told
<1> HIDE DEF t
<1>4. Like(s, t)
  BY <1>1, <1>2 DEF Shaped, Like, SameLife
<1>5. Like(t, Rearmed(t, A))
  BY <1>4, RearmedLike DEF Like
<1> QED
  BY <1>3, <1>4, <1>5, LikeInTurn

\* Held calls that settle.
LEMMA SettlingLike ==
  ASSUME NEW s, Shaped(s), NEW C, \A c \in Calls \cap C : s.call[c].stage \in {"held", "writing"}
  PROVE  Like(s, Settling(s, C))
<1> DEFINE t == Settling(s, C)
<1>1. DOMAIN t = Parts /\ t.made = s.made /\ t.wait = s.wait /\ t.heard = s.heard /\ t.lead = s.lead
      /\ t.book = s.book /\ DOMAIN t.call = Calls
  BY DEF Shaped, Parts, Settling
<1>2. ASSUME NEW c \in Calls
      PROVE  /\ DOMAIN t.call[c] = Fields
             /\ t.call[c].mode = s.call[c].mode /\ t.call[c].owner = s.call[c].owner /\ t.call[c].conv = s.call[c].conv
             /\ t.call[c].madeIn = s.call[c].madeIn
             /\ t.call[c].stage = IF c \in C THEN "writing" ELSE s.call[c].stage
  BY DEF Shaped, Parts, Fields, Settling
<1> HIDE DEF t
<1>3. \A c \in Calls : SameLife(s.call[c].stage, t.call[c].stage)
  BY <1>2 DEF SameLife
<1> QED
  BY <1>1, <1>2, <1>3, CallsMoved DEF t

\* A held call goes on, or settles if it was stopped.
LEMMA ResumedLike ==
  ASSUME NEW s, Shaped(s), NEW c \in Calls, s.call[c].stage = "held"
  PROVE  Like(s, Resumed(s, c))
<1> DEFINE t == Resumed(s, c)
<1>1. DOMAIN t = Parts /\ t.made = s.made /\ t.wait = s.wait /\ t.heard = s.heard /\ t.lead = s.lead
      /\ t.book = s.book /\ DOMAIN t.call = Calls
  BY DEF Shaped, Parts, Resumed
<1>2. ASSUME NEW d \in Calls
      PROVE  /\ DOMAIN t.call[d] = Fields
             /\ t.call[d].mode = s.call[d].mode /\ t.call[d].owner = s.call[d].owner /\ t.call[d].conv = s.call[d].conv
             /\ t.call[d].madeIn = s.call[d].madeIn
             /\ d # c => t.call[d].stage = s.call[d].stage
             /\ d = c => t.call[d].stage \in {"writing", "turn"}
  BY DEF Shaped, Parts, Fields, Resumed
<1> HIDE DEF t
<1>3. \A d \in Calls : SameLife(s.call[d].stage, t.call[d].stage)
  BY <1>2 DEF SameLife
<1> QED
  BY <1>1, <1>2, <1>3, CallsMoved DEF t

\* A review of a held call, whatever it comes to.
LEMMA ReviewedLike ==
  ASSUME NEW s, Shaped(s), NEW c \in Calls, s.call[c].stage = "held"
  PROVE  Like(s, Reviewed(s, c))
<1> DEFINE k == s.call[c].conv
           asked == {d \in AskedOf(s, k) \intersect OpenSubs(s, k) : s.call[d].q = "put"}
           t == Told(s, asked, Untold(s, k))
<1>1. \/ Reviewed(s, c) = s
      \/ Reviewed(s, c) = Settling(s, {c})
      \/ Reviewed(s, c) = Resumed(t, c)
  BY DEF Reviewed
<1>2. Like(s, s)
  BY DEF Like, SameLife
<1>3. Like(s, Settling(s, {c}))
  BY SettlingLike
<1>4. t.call[c].stage = "held" /\ Like(s, t) /\ Shaped(t)
  <2> DEFINE u == [s EXCEPT !.call = [d \in Calls |-> IF d \in asked THEN [@[d] EXCEPT !.q = "told"] ELSE @[d]],
                            !.book = [d \in Calls |-> IF d \in Untold(s, k) /\ @[d] # "no" THEN "told" ELSE @[d]]]
  <2>1. t = Rearmed(u, asked)
    BY DEF Told
  <2> HIDE DEF asked, k
  <2>2. DOMAIN u = Parts /\ DOMAIN u.call = Calls /\ DOMAIN u.call[c] = Fields /\ u.call[c].stage = "held"
    BY DEF Shaped, Parts, Fields
  <2>3. t.call[c].stage = "held"
    BY <2>1, <2>2 DEF Rearmed, Parts, Fields
  <2> QED
    BY <2>3, ToldLike DEF Like
<1> HIDE DEF t
<1>5. Like(s, Resumed(t, c))
  BY <1>4, ResumedLike, LikeInTurn
<1> QED
  BY <1>1, <1>2, <1>3, <1>5

\* The same where a call is held at all.
LEMMA ReviewedIfHeldLike ==
  ASSUME NEW s, Shaped(s), NEW k
  PROVE  Like(s, ReviewedIfHeld(s, k))
<1>1. CASE HeldOn(s, k) = {}
  BY <1>1 DEF ReviewedIfHeld, Like, SameLife
<1>2. CASE HeldOn(s, k) # {}
  <2> DEFINE c == CHOOSE d \in HeldOn(s, k) : TRUE
  <2>1. c \in Calls /\ s.call[c].stage = "held"
    BY <1>2 DEF HeldOn, CallsOn, Active
  <2>2. ReviewedIfHeld(s, k) = Reviewed(s, c)
    BY <1>2 DEF ReviewedIfHeld
  <2> HIDE DEF c
  <2> QED
    BY <2>1, <2>2, ReviewedLike
<1> QED
  BY <1>1, <1>2

\* Putting a drain off.
LEMMA DeferredLike ==
  ASSUME NEW s, Shaped(s), NEW k
  PROVE  Like(s, Deferred(s, k))
<1> DEFINE t == Deferred(s, k)
<1>1. DOMAIN t = Parts /\ t.made = s.made /\ t.wait = s.wait /\ t.heard = s.heard /\ t.lead = s.lead
      /\ t.book = s.book /\ t.call = s.call
  BY DEF Shaped, Parts, Deferred
<1> HIDE DEF t
<1>2. Like(s, t)
  BY <1>1 DEF Like, Shaped, SameLife
<1> QED
  BY <1>2 DEF t

\* A call goes from one stage to another, neither of them a beginning, an end,
\* or its turn.
LEMMA AtLike ==
  ASSUME NEW s, Shaped(s), NEW c \in Calls, NEW stage,
         s.call[c].stage \notin {"unmade", "done", "turn"}, stage \notin {"unmade", "done"}
  PROVE  Like(s, At(s, c, stage))
<1> DEFINE t == At(s, c, stage)
<1>1. DOMAIN t = Parts /\ t.made = s.made /\ t.wait = s.wait /\ t.heard = s.heard /\ t.lead = s.lead
      /\ t.book = s.book /\ DOMAIN t.call = Calls
  BY DEF Shaped, Parts, At
<1>2. ASSUME NEW d \in Calls
      PROVE  /\ DOMAIN t.call[d] = Fields
             /\ t.call[d].mode = s.call[d].mode /\ t.call[d].owner = s.call[d].owner /\ t.call[d].conv = s.call[d].conv
             /\ t.call[d].madeIn = s.call[d].madeIn
             /\ d # c => t.call[d].stage = s.call[d].stage
             /\ d = c => t.call[d].stage = stage
  BY DEF Shaped, Parts, Fields, At
<1> HIDE DEF t
<1>3. \A d \in Calls : SameLife(s.call[d].stage, t.call[d].stage)
  BY <1>2 DEF SameLife
<1> QED
  BY <1>1, <1>2, <1>3, CallsMoved DEF t

-----------------------------------------------------------------------------
(* The invariant. x is a call whose settling is under way: its waits are     *)
(* not answered yet, and it counts as open; Lead when there is none.         *)

IsMade(s, c) == s.call[c].stage # "unmade"
Owed(s, c) == IsMade(s, c) /\ s.call[c].mode # "fire"
Pending(s, x, c) == IsOpen(s, c) \/ c = x

\* The caller of c is in the turn it called c from.
CallerWorks(s, c) ==
  IF s.call[c].owner = Lead THEN s.lead = "turn"
  ELSE LET x == s.call[c].madeIn IN
       x \in Calls /\ s.call[x].stage = "turn" /\ s.call[x].conv = s.call[c].owner

\* Wait w is of the caller of c, for the sync call c it opened.
SyncOn(s, w, c) ==
  /\ s.wait[w].how = "sync" /\ s.wait[w].on = {c} /\ s.wait[w].of = s.call[c].owner
  /\ s.book[c] = "no" /\ s.call[c].mode = "sync"

CallMade(s, c) ==
  /\ IsMade(s, c) <=> c <= s.made
  /\ ~IsMade(s, c) => s.call[c].conv = Lead
  /\ IsMade(s, c) =>
       /\ s.call[c].mode \in {"async", "sync", "fire"}
       /\ s.call[c].conv \in Calls /\ IsMade(s, s.call[c].conv)
       /\ s.call[c].owner \in Convs /\ (s.call[c].owner # Lead => IsMade(s, s.call[c].owner))

CallTallied(s, x, c) ==
  /\ s.heard[c] \in {0, 1}
  /\ s.call[c].stage # "done" \/ c = x => s.heard[c] = 0
  /\ ~Owed(s, c) => s.book[c] = "no" /\ s.heard[c] = 0
  /\ Pending(s, x, c) /\ s.call[c].mode = "async" => s.book[c] # "no"
  /\ Pending(s, x, c) /\ s.call[c].mode = "sync" /\ s.book[c] = "no" => \E w \in Requests : SyncOn(s, w, c)
  /\ s.call[c].stage = "done" /\ c # x /\ s.call[c].mode # "fire" => (s.heard[c] = 1 <=> s.book[c] = "no")

WaitSound(s, x, w) ==
  /\ \A c \in s.wait[w].on : c \in Calls /\ Owed(s, c)
  /\ s.wait[w].how = "sync" =>
       \E c \in Calls : Pending(s, x, c) /\ SyncOn(s, w, c) /\ (c = x \/ CallerWorks(s, c))

\* A conversation works on one call at a time, and one sync wait is on a call.
OnePerConv(s) ==
  \A c, d \in Calls : IsOpen(s, c) /\ IsOpen(s, d) /\ s.call[c].conv = s.call[d].conv => c = d
OneSyncWait(s) ==
  \A v, w \in Requests :
    s.wait[v].how = "sync" /\ s.wait[w].how = "sync" /\ s.wait[v].on = s.wait[w].on => v = w

Sound(s, x) ==
  /\ Shaped(s) /\ s.made \in Nat
  /\ \A c \in Calls : CallMade(s, c)
  /\ \A c \in Calls : CallTallied(s, x, c)
  /\ \A w \in Requests : WaitSound(s, x, w)
  /\ OnePerConv(s) /\ OneSyncWait(s)

\* Nothing that is open is gone, and no call changed hands.
Keeps(s, t) ==
  /\ Shaped(t) /\ t.wait = s.wait
  /\ \A c \in Calls : IsMade(s, c) =>
       /\ t.call[c].mode = s.call[c].mode /\ t.call[c].owner = s.call[c].owner
       /\ t.call[c].conv = s.call[c].conv /\ t.call[c].madeIn = s.call[c].madeIn
       /\ IsMade(t, c) /\ (IsOpen(s, c) => IsOpen(t, c))

\* No wait of a sync call is of a caller in its turn c.
NobodyWaitsFrom(s, c) ==
  \A w \in Requests : s.wait[w].how = "sync" =>
    \A d \in s.wait[w].on : s.call[d].owner # Lead => s.call[d].madeIn # c

\* What is kept in turn is kept.
LEMMA KeepsInTurn ==
  ASSUME NEW s, NEW t, NEW u, Keeps(s, t), Keeps(t, u)
  PROVE  Keeps(s, u)
BY DEF Keeps

\* A like book keeps every call.
LEMMA LikeKeeps ==
  ASSUME NEW s, NEW t, Like(s, t)
  PROVE  Keeps(s, t)
BY DEF Keeps, Like, SameLife, IsMade, IsOpen

\* What is like a sound book is sound.
LEMMA LikeSound ==
  ASSUME NEW s, NEW x, NEW t, Sound(s, x), Like(s, t)
  PROVE  Sound(t, x)
<1>1. \A c \in Calls : /\ IsMade(s, c) <=> IsMade(t, c)
                       /\ IsOpen(s, c) <=> IsOpen(t, c)
                       /\ Owed(s, c) <=> Owed(t, c)
                       /\ Pending(s, x, c) <=> Pending(t, x, c)
                       /\ s.call[c].stage = "done" <=> t.call[c].stage = "done"
  BY DEF Like, SameLife, IsMade, IsOpen, Owed, Pending
<1>2. \A c \in Calls : CallerWorks(s, c) => CallerWorks(t, c)
  BY DEF Like, SameLife, CallerWorks
<1>3. \A w \in Requests, c \in Calls : SyncOn(s, w, c) => SyncOn(t, w, c)
  BY DEF Like, SyncOn
<1>4. ASSUME NEW c \in Calls PROVE CallMade(t, c)
  <2>1. CallMade(s, c) /\ t.made = s.made /\ t.call[c].mode = s.call[c].mode
        /\ t.call[c].owner = s.call[c].owner /\ t.call[c].conv = s.call[c].conv
    BY DEF Sound, Like
  <2>2. s.call[c].owner \in Convs /\ s.call[c].owner # Lead => s.call[c].owner \in Calls
    BY DEF Convs
  <2> QED
    BY <1>1, <2>1, <2>2 DEF CallMade
<1>5. ASSUME NEW c \in Calls PROVE CallTallied(t, x, c)
  <2>1. CallTallied(s, x, c) /\ t.heard = s.heard /\ t.call[c].mode = s.call[c].mode
        /\ (t.book[c] = "no" <=> s.book[c] = "no")
    BY DEF Sound, Like
  <2>2. (\E w \in Requests : SyncOn(s, w, c)) => (\E w \in Requests : SyncOn(t, w, c))
    BY <1>3
  <2> QED
    BY <1>1, <2>1, <2>2 DEF CallTallied
<1>6. ASSUME NEW w \in Requests PROVE WaitSound(t, x, w)
  <2>1. WaitSound(s, x, w) /\ t.wait = s.wait
    BY DEF Sound, Like
  <2> QED
    BY <1>1, <1>2, <1>3, <2>1 DEF WaitSound
<1>7. OnePerConv(t)
  BY <1>1 DEF Sound, OnePerConv, Like
<1>8. OneSyncWait(t)
  BY DEF Sound, OneSyncWait, Like
<1> QED
  BY <1>4, <1>5, <1>6, <1>7, <1>8 DEF Sound, Like

\* Waits that are let go: the calls their callers opened and waited for become
\* collectable, and every sync wait on one of those goes.
LetGo(s, t, C, W) ==
  /\ Shaped(t) /\ t.made = s.made /\ t.heard = s.heard /\ t.lead = s.lead /\ t.call = s.call
  /\ \A c \in Calls : t.book[c] = IF c \in C /\ s.book[c] = "no" THEN "untold" ELSE s.book[c]
  /\ \A w \in Requests : t.wait[w] = IF w \in W THEN NoWait ELSE s.wait[w]
  /\ \A c \in Calls \cap C : IsOpen(s, c) /\ s.call[c].mode # "fire"
  /\ \A w \in Requests : s.wait[w].how = "sync" =>
       IF w \in W THEN s.wait[w].on \subseteq C ELSE s.wait[w].on \cap C = {}

\* Letting go of waits leaves a sound book.
LEMMA LetGoSound ==
  ASSUME NEW s, NEW t, NEW C, NEW W, Sound(s, Lead), LetGo(s, t, C, W)
  PROVE  Sound(t, Lead)
<1> USE DEF LetGo
<1>1. \A c \in Calls : /\ IsMade(s, c) <=> IsMade(t, c)
                       /\ IsOpen(s, c) <=> IsOpen(t, c)
                       /\ Owed(s, c) <=> Owed(t, c)
                       /\ Pending(s, Lead, c) <=> Pending(t, Lead, c)
                       /\ CallerWorks(s, c) <=> CallerWorks(t, c)
  BY DEF IsMade, IsOpen, Owed, Pending, CallerWorks
<1>2. \A w \in Requests : t.wait[w].how = "sync" => w \notin W /\ t.wait[w] = s.wait[w]
  BY DEF NoWait
<1>3. ASSUME NEW w \in Requests, NEW c \in Calls, w \notin W, SyncOn(s, w, c)
      PROVE  SyncOn(t, w, c)
  <2>1. t.wait[w] = s.wait[w] /\ c \notin C
    BY <1>3 DEF SyncOn
  <2> QED
    BY <1>1, <1>3, <2>1 DEF SyncOn
<1>4. ASSUME NEW c \in Calls PROVE CallMade(t, c)
  <2>1. CallMade(s, c)
    BY DEF Sound
  <2>2. s.call[c].owner \in Convs /\ s.call[c].owner # Lead => s.call[c].owner \in Calls
    BY DEF Convs
  <2> QED
    BY <1>1, <2>1, <2>2 DEF CallMade
<1>5. ASSUME NEW c \in Calls PROVE CallTallied(t, Lead, c)
  <2>1. CallTallied(s, Lead, c) /\ c # Lead
    BY DEF Sound, Lead, Calls
  <2>2. CASE c \in C
    <3>1. IsOpen(s, c) /\ s.call[c].mode # "fire" /\ t.book[c] # "no"
      BY <2>2
    <3>2. s.call[c].stage # "done" /\ Owed(s, c)
      BY <3>1 DEF IsOpen, Owed, IsMade
    <3> QED
      BY <1>1, <2>1, <3>1, <3>2 DEF CallTallied
  <2>3. CASE c \notin C
    <3>1. t.book[c] = s.book[c]
      BY <2>3
    <3>2. ASSUME NEW w \in Requests, SyncOn(s, w, c)
          PROVE  SyncOn(t, w, c)
      <4>1. w \notin W
        BY <2>3, <3>2 DEF SyncOn
      <4> QED
        BY <1>3, <3>2, <4>1
    <3> QED
      BY <1>1, <2>1, <3>1, <3>2 DEF CallTallied
  <2> QED
    BY <2>2, <2>3
<1>6. ASSUME NEW w \in Requests PROVE WaitSound(t, Lead, w)
  <2>1. WaitSound(s, Lead, w)
    BY DEF Sound
  <2>2. CASE w \in W
    BY <2>2 DEF WaitSound, NoWait
  <2>3. CASE w \notin W
    <3>1. t.wait[w] = s.wait[w]
      BY <2>3
    <3>2. \A c \in Calls : SyncOn(s, w, c) => SyncOn(t, w, c)
      BY <1>3, <2>3
    <3> QED
      BY <1>1, <2>1, <3>1, <3>2 DEF WaitSound
  <2> QED
    BY <2>2, <2>3
<1>7. OnePerConv(t)
  BY <1>1 DEF Sound, OnePerConv
<1>8. OneSyncWait(t)
  <2> SUFFICES ASSUME NEW v \in Requests, NEW w \in Requests, t.wait[v].how = "sync", t.wait[w].how = "sync",
                      t.wait[v].on = t.wait[w].on
               PROVE  v = w
    BY DEF OneSyncWait
  <2>1. t.wait[v] = s.wait[v] /\ t.wait[w] = s.wait[w]
    BY <1>2
  <2> QED
    BY <2>1 DEF Sound, OneSyncWait
<1> QED
  BY <1>4, <1>5, <1>6, <1>7, <1>8 DEF Sound

\* A call that is opened, in no conversation at work: collectable, or nobody's,
\* or with the wait that its caller opened it with.
Begun(s, t, n) ==
  /\ n = s.made + 1 /\ t.made = n
  /\ Shaped(t) /\ t.heard = s.heard /\ t.lead = s.lead
  /\ \A c \in Calls \ {n} : t.call[c] = s.call[c] /\ t.book[c] = s.book[c]
  /\ IsOpen(t, n) /\ t.call[n].mode \in {"async", "sync", "fire"}
  /\ \/ t.call[n].conv = n
     \/ t.call[n].conv \in Calls /\ IsMade(s, t.call[n].conv) /\ CallsOn(s, t.call[n].conv) = {}
  /\ t.call[n].owner = Lead \/ (t.call[n].owner \in Calls /\ IsMade(s, t.call[n].owner))
  /\ \/ t.wait = s.wait /\ t.book[n] = "no" /\ t.call[n].mode = "fire"
     \/ t.wait = s.wait /\ t.book[n] # "no" /\ t.call[n].mode # "fire"
     \/ \E w \in Requests :
          /\ s.wait[w].how # "sync" /\ SyncOn(t, w, n) /\ CallerWorks(t, n)
          /\ \A v \in Requests \ {w} : t.wait[v] = s.wait[v]

\* Opening a call leaves a sound book, and every other call as it was.
LEMMA BegunSound ==
  ASSUME NEW s, NEW t, NEW n \in Calls, Sound(s, Lead), Begun(s, t, n)
  PROVE  Sound(t, Lead) /\ (t.wait = s.wait => Keeps(s, t))
<1> USE DEF Begun
<1>0. s.made \in Nat /\ n \notin {Lead} /\ \A c \in Calls : c \in Nat
  BY DEF Sound, Calls, Lead
<1>1. ~IsMade(s, n) /\ IsMade(t, n) /\ s.heard[n] = 0 /\ s.call[n].conv = Lead
  <2>1. CallMade(s, n) /\ CallTallied(s, Lead, n)
    BY DEF Sound
  <2>2. ~IsMade(s, n)
    BY <1>0, <2>1 DEF CallMade
  <2>3. s.heard[n] = 0
    BY <2>1, <2>2 DEF CallTallied, Owed
  <2> QED
    BY <2>1, <2>2, <2>3 DEF CallMade, IsMade, IsOpen
<1>2. \A c \in Calls \ {n} : /\ IsMade(s, c) <=> IsMade(t, c)
                             /\ IsOpen(s, c) <=> IsOpen(t, c)
                             /\ Owed(s, c) <=> Owed(t, c)
                             /\ Pending(s, Lead, c) <=> Pending(t, Lead, c)
  BY DEF IsMade, IsOpen, Owed, Pending
<1>3. ASSUME NEW c \in Calls \ {n}, CallerWorks(s, c)
      PROVE  CallerWorks(t, c)
  <2>1. s.call[n].stage # "turn" /\ t.call[c] = s.call[c]
    BY <1>1 DEF IsMade, IsOpen
  <2>2. s.call[c].madeIn \in Calls /\ s.call[s.call[c].madeIn].stage = "turn" =>
          t.call[s.call[c].madeIn] = s.call[s.call[c].madeIn]
    BY <2>1
  <2> QED
    BY <1>3, <2>1, <2>2 DEF CallerWorks
<1>4. ASSUME NEW w \in Requests, NEW c \in Calls \ {n}, SyncOn(s, w, c)
      PROVE  SyncOn(t, w, c)
  <2>1. t.wait[w] = s.wait[w]
    BY <1>4 DEF SyncOn
  <2> QED
    BY <1>4, <2>1 DEF SyncOn
<1>5. ASSUME NEW c \in Calls PROVE CallMade(t, c)
  <2>1. CallMade(s, c)
    BY DEF Sound
  <2>2. CASE c # n
    <3>1. c <= s.made <=> c <= t.made
      BY <1>0, <2>2
    <3>2. t.call[c] = s.call[c]
      BY <2>2
    <3>3. \A d \in Calls : IsMade(s, d) => IsMade(t, d)
      BY <1>1, <1>2
    <3>4. s.call[c].owner \in Convs /\ s.call[c].owner # Lead => s.call[c].owner \in Calls
      BY DEF Convs
    <3> QED
      BY <1>2, <2>1, <2>2, <3>1, <3>2, <3>3, <3>4 DEF CallMade
  <2>3. CASE c = n
    <3>1. \A d \in Calls : IsMade(s, d) => IsMade(t, d)
      BY <1>1, <1>2
    <3>2. t.call[n].conv \in Calls /\ IsMade(t, t.call[n].conv)
      BY <1>1, <3>1
    <3>3. t.call[n].owner \in Convs /\ (t.call[n].owner # Lead => IsMade(t, t.call[n].owner))
      BY <3>1 DEF Convs
    <3>4. n <= t.made
      BY <1>0
    <3> QED
      BY <1>1, <2>3, <3>2, <3>3, <3>4 DEF CallMade
  <2> QED
    BY <2>2, <2>3
<1>6. ASSUME NEW c \in Calls PROVE CallTallied(t, Lead, c)
  <2>1. CallTallied(s, Lead, c) /\ c # Lead
    BY DEF Sound, Lead, Calls
  <2>2. CASE c # n
    <3>1. t.call[c] = s.call[c] /\ t.book[c] = s.book[c]
      BY <2>2
    <3>2. (\E w \in Requests : SyncOn(s, w, c)) => (\E w \in Requests : SyncOn(t, w, c))
      BY <1>4, <2>2
    <3> QED
      BY <1>2, <2>1, <2>2, <3>1, <3>2 DEF CallTallied
  <2>3. CASE c = n
    <3>1. t.call[n].stage # "done" /\ Pending(t, Lead, n) /\ (Owed(t, n) <=> t.call[n].mode # "fire")
      BY <1>1 DEF IsOpen, Pending, Owed
    <3>2. \A w \in Requests : SyncOn(t, w, n) => t.call[n].mode = "sync" /\ t.book[n] = "no"
      BY DEF SyncOn
    <3> QED
      BY <1>1, <2>3, <3>1, <3>2 DEF CallTallied
  <2> QED
    BY <2>2, <2>3
<1>7. ASSUME NEW w \in Requests PROVE WaitSound(t, Lead, w)
  <2>1. WaitSound(s, Lead, w)
    BY DEF Sound
  <2>2. CASE t.wait[w] = s.wait[w]
    <3>1. \A c \in s.wait[w].on : c \in Calls \ {n}
      BY <1>1, <2>1 DEF WaitSound, Owed
    <3>2. \A c \in Calls : SyncOn(s, w, c) => c # n /\ SyncOn(t, w, c)
      BY <1>4, <3>1 DEF SyncOn
    <3> QED
      BY <1>2, <1>3, <2>1, <2>2, <3>1, <3>2 DEF WaitSound
  <2>3. CASE t.wait[w] # s.wait[w]
    <3>1. SyncOn(t, w, n) /\ CallerWorks(t, n)
      BY <2>3
    <3>2. t.wait[w].on = {n} /\ Owed(t, n) /\ Pending(t, Lead, n)
      BY <1>1, <3>1 DEF SyncOn, Owed, Pending
    <3> QED
      BY <3>1, <3>2 DEF WaitSound
  <2> QED
    BY <2>2, <2>3
<1>8. OnePerConv(t)
  <2>1. ASSUME NEW c \in Calls \ {n}, IsOpen(t, c)
        PROVE  t.call[c].conv # t.call[n].conv
    <3>1. IsOpen(s, c) /\ IsMade(s, c) /\ t.call[c] = s.call[c] /\ CallMade(s, c)
      BY <1>2, <2>1 DEF IsOpen, IsMade, Sound
    <3>2. IsMade(s, s.call[c].conv)
      BY <3>1 DEF CallMade
    <3>3. CASE t.call[n].conv = n
      BY <1>1, <3>1, <3>2, <3>3
    <3>4. CASE CallsOn(s, t.call[n].conv) = {}
      <4>1. c \in CallsOn(s, s.call[c].conv)
        BY <3>1 DEF CallsOn, Active, IsOpen
      <4> QED
        BY <3>1, <3>4, <4>1
    <3> QED
      BY <3>3, <3>4
  <2> SUFFICES ASSUME NEW c \in Calls, NEW d \in Calls, IsOpen(t, c), IsOpen(t, d), t.call[c].conv = t.call[d].conv
               PROVE  c = d
    BY DEF OnePerConv
  <2>2. CASE c # n /\ d # n
    BY <1>2, <2>2 DEF Sound, OnePerConv
  <2> QED
    BY <2>1, <2>2
<1>9. OneSyncWait(t)
  <2> SUFFICES ASSUME NEW v \in Requests, NEW w \in Requests, t.wait[v].how = "sync", t.wait[w].how = "sync",
                      t.wait[v].on = t.wait[w].on
               PROVE  v = w
    BY DEF OneSyncWait
  <2>1. \A u \in Requests : t.wait[u] = s.wait[u] => n \notin t.wait[u].on
    BY <1>1 DEF Sound, WaitSound, Owed
  <2>2. CASE t.wait[v] = s.wait[v] /\ t.wait[w] = s.wait[w]
    BY <2>2 DEF Sound, OneSyncWait
  <2>3. CASE ~(t.wait[v] = s.wait[v] /\ t.wait[w] = s.wait[w])
    <3>1. PICK u \in Requests : SyncOn(t, u, n) /\ \A z \in Requests \ {u} : t.wait[z] = s.wait[z]
      BY <2>3
    <3>2. v = u \/ w = u
      BY <2>3, <3>1
    <3>3. n \in t.wait[v].on /\ n \in t.wait[w].on
      BY <3>1, <3>2 DEF SyncOn
    <3> QED
      BY <2>1, <3>1, <3>3
  <2> QED
    BY <2>2, <2>3
<1>10. Keeps(s, t) \/ t.wait # s.wait
  BY <1>1, <1>2 DEF Keeps
<1> QED
  BY <1>5, <1>6, <1>7, <1>8, <1>9, <1>10, <1>0 DEF Sound

\* A set of calls that is not empty has a first one.
LEMMA FirstCall ==
  ASSUME NEW S \in SUBSET Calls, S # {}
  PROVE  Min(S) \in S /\ \A x \in S : Min(S) <= x
<1>1. S \subseteq Nat
  BY DEF Calls
<1>2. \E x \in S : \A y \in S : x <= y
  <2>1. IsWellFoundedOn(OpToRel(<, Nat), Nat)
    BY NatLessThanWellFounded
  <2>2. PICK x \in S : \A y \in S : ~(<<y, x>> \in OpToRel(<, Nat))
    BY <1>1, <2>1, WFMin
  <2>3. \A y \in S : ~(y < x)
    BY <1>1, <2>2 DEF OpToRel
  <2> QED
    BY <1>1, <2>3
<1> QED
  BY <1>2 DEF Min

\* What openCall writes.
LEMMA OpenedFields ==
  ASSUME NEW s, Shaped(s), NEW k, NEW thread, NEW mode, NEW stage, NEW n \in Calls, n = s.made + 1
  PROVE  LET t == Opened(s, k, thread, mode, stage) IN
         /\ Shaped(t) /\ t.made = n /\ t.heard = s.heard /\ t.lead = s.lead /\ t.wait = s.wait
         /\ \A c \in Calls \ {n} : t.call[c] = s.call[c] /\ t.book[c] = s.book[c]
         /\ t.call[n].stage = stage /\ t.call[n].mode = mode /\ t.call[n].owner = k
         /\ t.call[n].madeIn = MadeIn(s, k)
         /\ t.call[n].conv = IF thread = Lead THEN n ELSE thread
         /\ t.book[n] = IF mode = "async" THEN "untold" ELSE "no"
<1> DEFINE new == [NoCall EXCEPT !.stage = stage, !.owner = k, !.mode = mode, !.madeIn = MadeIn(s, k),
                            !.conv = IF thread = Lead THEN n ELSE thread, !.depth = Depth(s, k) + 1]
           t == Opened(s, k, thread, mode, stage)
<1>1. t = [s EXCEPT !.made = n, !.call[n] = new, !.book[n] = IF mode = "async" THEN "untold" ELSE "no"]
  BY DEF Opened
<1>2. /\ DOMAIN new = Fields /\ new.stage = stage /\ new.mode = mode /\ new.owner = k
      /\ new.madeIn = MadeIn(s, k) /\ new.conv = IF thread = Lead THEN n ELSE thread
  BY DEF NoCall, Fields
<1> HIDE DEF new, t
<1>3. /\ DOMAIN t = Parts /\ DOMAIN t.call = Calls /\ DOMAIN t.book = Calls
      /\ t.made = n /\ t.heard = s.heard /\ t.lead = s.lead /\ t.wait = s.wait
  BY <1>1 DEF Shaped, Parts
<1>4. /\ t.call[n] = new /\ t.book[n] = IF mode = "async" THEN "untold" ELSE "no"
      /\ \A c \in Calls \ {n} : t.call[c] = s.call[c] /\ t.book[c] = s.book[c]
  BY <1>1 DEF Shaped, Parts
<1>5. Shaped(t)
  BY <1>2, <1>3, <1>4 DEF Shaped
<1> QED
  BY <1>2, <1>3, <1>4, <1>5 DEF t

\* Opening a call nobody waits for.
LEMMA OpenedSound ==
  ASSUME NEW s, Sound(s, Lead), NEW k \in Convs, k # Lead => IsMade(s, k),
         NEW thread \in Convs, thread # Lead => IsMade(s, thread) /\ CallsOn(s, thread) = {},
         NEW mode \in {"async", "fire"}, NEW stage \in {"turn", "queued"}
  PROVE  /\ Sound(Opened(s, k, thread, mode, stage), Lead)
         /\ Keeps(s, Opened(s, k, thread, mode, stage))
<1> DEFINE n == s.made + 1
           t == Opened(s, k, thread, mode, stage)
<1>1. CASE n \in Calls
  <2>1. /\ Shaped(t) /\ t.made = n /\ t.heard = s.heard /\ t.lead = s.lead /\ t.wait = s.wait
        /\ \A c \in Calls \ {n} : t.call[c] = s.call[c] /\ t.book[c] = s.book[c]
        /\ t.call[n].stage = stage /\ t.call[n].mode = mode /\ t.call[n].owner = k
        /\ t.call[n].conv = IF thread = Lead THEN n ELSE thread
        /\ t.book[n] = IF mode = "async" THEN "untold" ELSE "no"
    BY <1>1, OpenedFields DEF Sound
  <2> HIDE DEF t, n
  <2>2. IsOpen(t, n)
    BY <2>1 DEF IsOpen
  <2>3. t.call[n].conv = n \/ (t.call[n].conv \in Calls /\ IsMade(s, t.call[n].conv) /\ CallsOn(s, t.call[n].conv) = {})
    BY <2>1 DEF Convs
  <2>4. t.call[n].owner = Lead \/ (t.call[n].owner \in Calls /\ IsMade(s, t.call[n].owner))
    BY <2>1 DEF Convs
  <2>5. \/ t.wait = s.wait /\ t.book[n] = "no" /\ t.call[n].mode = "fire"
        \/ t.wait = s.wait /\ t.book[n] # "no" /\ t.call[n].mode # "fire"
    BY <2>1
  <2>6. t.call[n].mode \in {"async", "sync", "fire"} /\ n = s.made + 1
    BY <2>1 DEF n
  <2>7. Begun(s, t, n)
    BY <2>1, <2>2, <2>3, <2>4, <2>5, <2>6 DEF Begun
  <2>8. Sound(t, Lead) /\ (t.wait = s.wait => Keeps(s, t))
    BY <1>1, <2>7, BegunSound
  <2> QED
    BY <2>1, <2>8 DEF t
<1>2. CASE n \notin Calls
  <2>1. t = [s EXCEPT !.made = n]
    BY <1>2 DEF Opened
  <2>2. /\ DOMAIN t = Parts /\ t.made = n /\ t.heard = s.heard /\ t.lead = s.lead /\ t.wait = s.wait
        /\ t.call = s.call /\ t.book = s.book
    BY <2>1 DEF Sound, Shaped, Parts
  <2>3. Shaped(t) /\ Keeps(s, t)
    BY <2>2 DEF Sound, Shaped, Keeps, IsMade, IsOpen
  <2>4. n \in Nat /\ \A c \in Calls : c <= s.made /\ c <= n
    BY <1>2, CallsAssumption DEF Sound, Calls
  <2> HIDE DEF t, n
  <2>5. \A c \in Calls : CallMade(t, c)
    <3>1. \A c \in Calls : IsMade(s, c) <=> IsMade(t, c)
      BY <2>2 DEF IsMade
    <3> QED
      BY <2>2, <2>4, <3>1 DEF Sound, CallMade, IsMade
  <2>6. \A c \in Calls : CallTallied(t, Lead, c)
    BY <2>2 DEF Sound, CallTallied, Owed, IsMade, Pending, IsOpen, SyncOn, CallerWorks
  <2>7. \A w \in Requests : WaitSound(t, Lead, w)
    BY <2>2 DEF Sound, WaitSound, Owed, IsMade, Pending, IsOpen, SyncOn, CallerWorks
  <2>8. OnePerConv(t) /\ OneSyncWait(t)
    BY <2>2 DEF Sound, OnePerConv, OneSyncWait, IsOpen
  <2>9. Sound(t, Lead)
    BY <2>2, <2>3, <2>4, <2>5, <2>6, <2>7, <2>8 DEF Sound
  <2> QED
    BY <2>3, <2>9 DEF t
<1> QED
  BY <1>1, <1>2

\* Nothing is made on a conversation that has no call, and a session is one of
\* a call that was made.
LEMMA ResumableIsMade ==
  ASSUME NEW s, Sound(s, Lead), NEW k \in Calls, Resumable(s, k)
  PROVE  IsMade(s, k)
<1>1. PICK c \in Calls : s.call[c].conv = k
  BY DEF Resumable
<1>2. CallMade(s, c) /\ k # Lead
  BY DEF Sound, Calls, Lead
<1> QED
  BY <1>1, <1>2 DEF CallMade

\* A wake that starts a turn opens a call of the woken conversation's own
\* caller.
LEMMA TurnStartedSound ==
  ASSUME NEW s, Sound(s, Lead), NEW k \in Convs, NEW A, NEW F, WakeOf(s, k, A, F) = "started"
  PROVE  Sound(TurnStarted(s, k), Lead) /\ Keeps(s, TurnStarted(s, k))
<1>1. CASE k = Lead
  <2> DEFINE t == [s EXCEPT !.wake = TRUE]
  <2>1. /\ DOMAIN t = Parts /\ t.made = s.made /\ t.heard = s.heard /\ t.lead = s.lead /\ t.wait = s.wait
        /\ t.call = s.call /\ t.book = s.book
    BY DEF Sound, Shaped, Parts
  <2>2. TurnStarted(s, k) = t
    BY <1>1 DEF TurnStarted
  <2> HIDE DEF t
  <2>3. Like(s, t)
    BY <2>1 DEF Sound, Shaped, Like, SameLife
  <2> QED
    BY <2>2, <2>3, LikeSound, LikeKeeps
<1>2. CASE k # Lead
  <2>1. k \in Calls /\ CallsOn(s, k) = {} /\ Resumable(s, k)
    BY <1>2 DEF WakeOf, Convs
  <2>2. IsMade(s, k) /\ CallMade(s, k)
    BY <2>1, ResumableIsMade DEF Sound
  <2>3. s.call[k].owner \in Convs /\ (s.call[k].owner # Lead => IsMade(s, s.call[k].owner))
    BY <2>2 DEF CallMade
  <2>4. TurnStarted(s, k) = Opened(s, s.call[k].owner, k, "async", "turn")
    BY <1>2 DEF TurnStarted
  <2> QED
    BY <2>1, <2>2, <2>3, <2>4, OpenedSound
<1> QED
  BY <1>1, <1>2

\* A wake, whatever it comes to.
LEMMA WokenSound ==
  ASSUME NEW s, Sound(s, Lead), NEW k \in Convs, NEW A, NEW F
  PROVE  Sound(Woken(s, k, A, F), Lead) /\ Keeps(s, Woken(s, k, A, F))
<1> DEFINE u == TurnStarted(s, k)
<1>0. Shaped(s) /\ Keeps(s, s)
  BY DEF Sound, Keeps
<1>1. CASE WakeOf(s, k, A, F) = "held"
  BY <1>0, <1>1, ReviewedIfHeldLike, LikeSound, LikeKeeps DEF Woken
<1>2. CASE WakeOf(s, k, A, F) = "deferred"
  BY <1>0, <1>2, DeferredLike, LikeSound, LikeKeeps DEF Woken
<1>3. CASE WakeOf(s, k, A, F) = "started"
  <2>1. Woken(s, k, A, F) = Told(u, A, F)
    BY <1>3 DEF Woken
  <2>2. Sound(u, Lead) /\ Keeps(s, u)
    BY <1>3, TurnStartedSound
  <2> HIDE DEF u
  <2>3. Like(u, Told(u, A, F))
    BY <2>2, ToldLike DEF Sound
  <2>4. Sound(Told(u, A, F), Lead) /\ Keeps(u, Told(u, A, F))
    BY <2>2, <2>3, LikeSound, LikeKeeps
  <2> QED
    BY <2>1, <2>2, <2>4, KeepsInTurn
<1>4. CASE WakeOf(s, k, A, F) \notin {"held", "deferred", "started"}
  BY <1>0, <1>4 DEF Woken
<1> QED
  BY <1>1, <1>2, <1>3, <1>4

\* A drain: questions are orphaned, the agent is woken, or the drain is put
\* off.
LEMMA DrainedWhenFreeSound ==
  ASSUME NEW s, Sound(s, Lead), NEW k \in Convs
  PROVE  Sound(DrainedWhenFree(s, k), Lead) /\ Keeps(s, DrainedWhenFree(s, k))
<1> DEFINE told == {c \in AskedOf(s, k) : s.call[c].q = "told"}
           t == Orphaned(s, told)
           asked == {c \in AskedOf(t, k) : t.call[c].q = "put"}
<1>1. Shaped(s)
  BY DEF Sound
<1>2. CASE CallsOn(s, k) # {}
  <2>1. DrainedWhenFree(s, k) = Deferred(s, k)
    BY <1>2 DEF DrainedWhenFree
  <2> QED
    BY <1>1, <2>1, DeferredLike, LikeSound, LikeKeeps
<1>3. CASE CallsOn(s, k) = {}
  <2>1. \/ DrainedWhenFree(s, k) = Orphaned(t, asked)
        \/ DrainedWhenFree(s, k) = Woken(t, k, asked, Untold(t, k))
    BY <1>3 DEF DrainedWhenFree
  <2> HIDE DEF told
  <2>2. Sound(t, Lead) /\ Keeps(s, t) /\ Shaped(t)
    BY <1>1, OrphanedLike, LikeSound, LikeKeeps DEF Sound
  <2> HIDE DEF t, asked
  <2>3. Like(t, Orphaned(t, asked))
    BY <2>2, OrphanedLike
  <2>4. Sound(Orphaned(t, asked), Lead) /\ Keeps(t, Orphaned(t, asked))
    BY <2>2, <2>3, LikeSound, LikeKeeps
  <2>5. /\ Sound(Woken(t, k, asked, Untold(t, k)), Lead)
        /\ Keeps(t, Woken(t, k, asked, Untold(t, k)))
    BY <2>2, WokenSound
  <2> QED
    BY <2>1, <2>2, <2>4, <2>5, KeepsInTurn
<1> QED
  BY <1>2, <1>3

\* The drain of a caller whose turn has ended.
LEMMA DrainedCallerSound ==
  ASSUME NEW s, Sound(s, Lead), NEW k \in Convs
  PROVE  Sound(DrainedCaller(s, k), Lead) /\ Keeps(s, DrainedCaller(s, k))
<1> DEFINE t == [s EXCEPT !.blocked = @ \ {k}]
<1>1. /\ DOMAIN t = Parts /\ t.made = s.made /\ t.heard = s.heard /\ t.lead = s.lead /\ t.wait = s.wait
      /\ t.call = s.call /\ t.book = s.book
  BY DEF Sound, Shaped, Parts
<1>2. DrainedCaller(s, k) = DrainedWhenFree(t, k)
  BY DEF DrainedCaller
<1> HIDE DEF t
<1>3. Like(s, t)
  BY <1>1 DEF Sound, Shaped, Like, SameLife
<1>4. Sound(t, Lead) /\ Keeps(s, t)
  BY <1>3, LikeSound, LikeKeeps
<1> QED
  BY <1>2, <1>4, DrainedWhenFreeSound, KeepsInTurn

\* A caller that works no longer is told of the call that settles.
LEMMA NotedSound ==
  ASSUME NEW s, Sound(s, Lead), NEW c \in Calls, IsMade(s, c)
  PROVE  Sound(Noted(s, c), Lead) /\ Keeps(s, Noted(s, c))
<1>1. s.call[c].owner \in Convs
  BY DEF Sound, CallMade
<1>2. Keeps(s, s)
  BY DEF Sound, Keeps
<1> QED
  BY <1>1, <1>2, WokenSound DEF Noted

-----------------------------------------------------------------------------
(* A call settles.                                                           *)

\* The call is done and its waits are not answered yet. Nobody waits in it.
LEMMA DoneSound ==
  ASSUME NEW s, Sound(s, Lead), NEW c \in Calls, IsOpen(s, c), NobodyWaitsFrom(s, c), NEW t, Shaped(t),
         t.made = s.made, t.heard = s.heard, t.lead = s.lead, t.wait = s.wait, t.book = s.book,
         \A d \in Calls \ {c} : t.call[d] = s.call[d],
         t.call[c].stage = "done", t.call[c].mode = s.call[c].mode,
         t.call[c].owner = s.call[c].owner, t.call[c].conv = s.call[c].conv
  PROVE  Sound(t, c)
<1>0. \A d \in Calls : d # Lead
  BY DEF Calls, Lead
<1>1. \A d \in Calls : /\ IsMade(s, d) <=> IsMade(t, d)
                       /\ Owed(s, d) <=> Owed(t, d)
                       /\ Pending(s, Lead, d) <=> Pending(t, c, d)
                       /\ IsOpen(t, d) => IsOpen(s, d)
                       /\ t.call[d].mode = s.call[d].mode /\ t.call[d].owner = s.call[d].owner
                       /\ t.call[d].conv = s.call[d].conv
                       /\ (t.call[d].stage = "done" /\ d # c) <=> (s.call[d].stage = "done")
  BY <1>0 DEF IsMade, IsOpen, Owed, Pending
<1>2. \A w \in Requests, d \in Calls : SyncOn(s, w, d) => SyncOn(t, w, d)
  BY <1>1 DEF SyncOn
<1>3. ASSUME NEW w \in Requests, NEW d \in Calls \ {c}, SyncOn(s, w, d), CallerWorks(s, d)
      PROVE  CallerWorks(t, d)
  <2>1. s.call[d].owner # Lead => s.call[d].madeIn # c
    BY <1>3 DEF SyncOn, NobodyWaitsFrom
  <2>2. s.call[d].madeIn \in Calls \ {c} => t.call[s.call[d].madeIn] = s.call[s.call[d].madeIn]
    OBVIOUS
  <2>3. t.call[d] = s.call[d]
    OBVIOUS
  <2> QED
    BY <1>3, <2>1, <2>2, <2>3 DEF CallerWorks
<1>4. ASSUME NEW d \in Calls PROVE CallMade(t, d)
  <2>1. CallMade(s, d)
    BY DEF Sound
  <2>2. s.call[d].owner \in Convs /\ s.call[d].owner # Lead => s.call[d].owner \in Calls
    BY DEF Convs
  <2>3. \A e \in Calls : IsMade(s, e) <=> IsMade(t, e)
    BY <1>1
  <2> QED
    BY <1>1, <2>1, <2>2, <2>3 DEF CallMade
<1>5. ASSUME NEW d \in Calls PROVE CallTallied(t, c, d)
  <2>1. CallTallied(s, Lead, d) /\ d # Lead
    BY <1>0 DEF Sound
  <2>2. (\E w \in Requests : SyncOn(s, w, d)) => (\E w \in Requests : SyncOn(t, w, d))
    BY <1>2
  <2>3. t.heard[d] = s.heard[d] /\ t.book[d] = s.book[d]
    OBVIOUS
  <2>4. t.call[d].stage # "done" \/ d = c => s.call[d].stage # "done"
    BY DEF IsOpen
  <2> QED
    BY <1>1, <2>1, <2>2, <2>3, <2>4 DEF CallTallied
<1>6. ASSUME NEW w \in Requests PROVE WaitSound(t, c, w)
  <2>1. WaitSound(s, Lead, w) /\ t.wait[w] = s.wait[w]
    BY DEF Sound
  <2>2. \A d \in Calls : SyncOn(s, w, d) /\ CallerWorks(s, d) => d = c \/ CallerWorks(t, d)
    BY <1>3
  <2> QED
    BY <1>0, <1>1, <1>2, <2>1, <2>2 DEF WaitSound
<1>7. OnePerConv(t)
  BY <1>1 DEF Sound, OnePerConv
<1>8. OneSyncWait(t)
  BY DEF Sound, OneSyncWait
<1> QED
  BY <1>4, <1>5, <1>6, <1>7, <1>8 DEF Sound

\* The waits of the settled call are answered: it is heard of once, or left to
\* collect, and nobody listens for it any more.
LEMMA WaitsAnsweredSound ==
  ASSUME NEW s, NEW c \in Calls, Sound(s, c), s.call[c].stage = "done", NEW w
  PROVE  Sound(WaitsAnswered(s, c, w), Lead)
<1> DEFINE on == Listening(s, c)
           left(v) == {d \in s.wait[v].on \ {c} : s.book[d] # "no"}
           goes == {v \in on \ {w} : s.wait[v].how = "any" /\ ~(left(v) \subseteq Parked(s))}
           wait == [v \in Requests |->
                      IF v \in goes THEN [s.wait[v] EXCEPT !.on = left(v)]
                      ELSE IF v \in on THEN NoWait ELSE s.wait[v]]
           t == [s EXCEPT !.wait = [v \in Requests |->
                      IF v \in goes THEN [@[v] EXCEPT !.on = left(v)]
                      ELSE IF v \in on THEN NoWait ELSE @[v]]]
           u == WaitsAnswered(s, c, w)
           sync == {v \in on : s.wait[v].how = "sync"}
<1>0. Shaped(s) /\ c # Lead
  BY DEF Sound, Calls, Lead
<1>1. \/ /\ sync # {} /\ u = [t EXCEPT !.heard[c] = @ + 1]
      \/ /\ sync = {} /\ on # {} /\ s.book[c] # "no" /\ u = [t EXCEPT !.book[c] = "no", !.heard[c] = @ + 1]
      \/ /\ sync = {} /\ (on = {} \/ s.book[c] = "no") /\ u = t
  BY DEF WaitsAnswered, Collected
<1>2. t = [s EXCEPT !.wait = wait] /\ DOMAIN wait = Requests
      /\ \A v \in Requests :
           /\ wait[v].how = s.wait[v].how \/ (v \in on /\ wait[v] = NoWait)
           /\ v \in goes => wait[v].how = "any" /\ wait[v].on \subseteq s.wait[v].on \ {c}
           /\ v \in on /\ v \notin goes => wait[v] = NoWait
           /\ v \notin on => wait[v] = s.wait[v]
           /\ DOMAIN wait[v] = {"of", "how", "on"}
  <2>1. t = [s EXCEPT !.wait = wait]
    BY <1>0 DEF Shaped, Parts
  <2>2. goes \subseteq on /\ \A v \in goes : s.wait[v].how = "any" /\ left(v) \subseteq s.wait[v].on \ {c}
    OBVIOUS
  <2>3. \A v \in Requests : DOMAIN s.wait[v] = {"of", "how", "on"}
    BY <1>0 DEF Shaped
  <2>4. DOMAIN wait = Requests /\ \A v \in Requests :
          wait[v] = IF v \in goes THEN [s.wait[v] EXCEPT !.on = left(v)]
                    ELSE IF v \in on THEN NoWait ELSE s.wait[v]
    OBVIOUS
  <2> HIDE DEF on, goes, left, wait, t
  <2> QED
    BY <2>1, <2>2, <2>3, <2>4 DEF NoWait
<1> HIDE DEF goes, left, wait, t
<1> HIDE DEF u, on, sync
<1>3. /\ DOMAIN t = Parts /\ t.made = s.made /\ t.lead = s.lead /\ t.call = s.call /\ t.wait = wait
       /\ t.heard = s.heard /\ t.book = s.book /\ DOMAIN t.heard = Calls /\ DOMAIN t.book = Calls
  BY <1>0, <1>2 DEF Shaped, Parts
<1>4. /\ DOMAIN u = Parts /\ u.made = s.made /\ u.lead = s.lead /\ u.call = s.call /\ u.wait = wait
      /\ DOMAIN u.heard = Calls /\ DOMAIN u.book = Calls
      /\ \A d \in Calls \ {c} : u.heard[d] = s.heard[d] /\ u.book[d] = s.book[d]
  <2>1. CASE u = [t EXCEPT !.heard[c] = @ + 1]
    BY <1>3, <2>1 DEF Parts
  <2>2. CASE u = [t EXCEPT !.book[c] = "no", !.heard[c] = @ + 1]
    BY <1>3, <2>2 DEF Parts
  <2>3. CASE u = t
    BY <1>3, <2>3
  <2> QED
    BY <1>1, <2>1, <2>2, <2>3
<1>5. \/ sync # {} /\ u.heard[c] = s.heard[c] + 1 /\ u.book[c] = s.book[c]
      \/ sync = {} /\ s.book[c] # "no" /\ u.heard[c] = s.heard[c] + 1 /\ u.book[c] = "no"
      \/ sync = {} /\ (on = {} \/ s.book[c] = "no") /\ u.heard[c] = s.heard[c] /\ u.book[c] = s.book[c]
  <2>1. u = [t EXCEPT !.heard[c] = @ + 1] => u.heard[c] = s.heard[c] + 1 /\ u.book[c] = s.book[c]
    BY <1>3 DEF Parts
  <2>2. u = [t EXCEPT !.book[c] = "no", !.heard[c] = @ + 1] => u.heard[c] = s.heard[c] + 1 /\ u.book[c] = "no"
    BY <1>3 DEF Parts
  <2>3. u = t => u.heard[c] = s.heard[c] /\ u.book[c] = s.book[c]
    BY <1>3
  <2> QED
    BY <1>1, <2>1, <2>2, <2>3
<1>6. Shaped(u)
  BY <1>0, <1>2, <1>4 DEF Shaped
<1>7. \A d \in Calls : /\ IsMade(s, d) <=> IsMade(u, d)
                       /\ Owed(s, d) <=> Owed(u, d)
                       /\ IsOpen(s, d) <=> IsOpen(u, d)
                       /\ CallerWorks(s, d) <=> CallerWorks(u, d)
  BY <1>4 DEF IsMade, IsOpen, Owed, CallerWorks
<1>8. \A v \in Requests : v \in on <=> c \in s.wait[v].on
  BY DEF on, Listening
<1>9. ASSUME NEW v \in Requests, NEW d \in Calls, SyncOn(s, v, d)
      PROVE  IF d = c THEN v \in sync /\ s.book[c] = "no" ELSE SyncOn(u, v, d)
  <2>1. d = c <=> v \in on
    BY <1>8, <1>9 DEF SyncOn
  <2>2. CASE d = c
    BY <1>9, <2>1, <2>2 DEF SyncOn, sync
  <2>3. CASE d # c
    BY <1>2, <1>4, <1>9, <2>1, <2>3 DEF SyncOn
  <2> QED
    BY <2>2, <2>3
<1>10. CallTallied(u, Lead, c)
  <2>1. CallTallied(s, c, c) /\ CallMade(s, c) /\ IsMade(s, c)
    BY DEF Sound, IsMade
  <2>2. s.heard[c] = 0 /\ (~Owed(s, c) => s.book[c] = "no")
        /\ (s.call[c].mode = "async" => s.book[c] # "no")
        /\ (s.call[c].mode = "sync" /\ s.book[c] = "no" => \E v \in Requests : SyncOn(s, v, c))
    BY <2>1 DEF CallTallied, Pending
  <2>3. sync # {} => s.book[c] = "no" /\ Owed(s, c)
    <3> SUFFICES ASSUME NEW v \in on, s.wait[v].how = "sync"
                 PROVE  s.book[c] = "no" /\ Owed(s, c)
      BY DEF sync
    <3>1. v \in Requests /\ c \in s.wait[v].on /\ WaitSound(s, c, v)
      BY DEF on, Listening, Sound
    <3>2. PICK d \in Calls : SyncOn(s, v, d)
      BY <3>1 DEF WaitSound
    <3> QED
      BY <3>1, <3>2 DEF SyncOn, WaitSound
  <2>4. sync = {} => s.book[c] # "no" \/ s.call[c].mode = "fire"
    BY <1>9, <2>1, <2>2 DEF CallMade
  <2>5. \/ u.heard[c] = 1 /\ u.book[c] = "no" /\ Owed(s, c)
        \/ u.heard[c] = 0 /\ u.book[c] # "no" /\ Owed(s, c)
        \/ u.heard[c] = 0 /\ u.book[c] = s.book[c] /\ s.call[c].mode = "fire"
    <3>1. s.book[c] # "no" => Owed(s, c)
      BY <2>2
    <3> QED
      BY <1>5, <2>2, <2>3, <2>4, <3>1
  <2>6. ~Pending(u, Lead, c) /\ u.call[c] = s.call[c]
    BY <1>0, <1>4 DEF Pending, IsOpen
  <2> QED
    BY <1>0, <1>7, <2>2, <2>5, <2>6 DEF CallTallied, Owed
<1>11. ASSUME NEW d \in Calls \ {c} PROVE CallTallied(u, Lead, d)
  <2>1. CallTallied(s, c, d) /\ d # Lead
    BY DEF Sound, Calls, Lead
  <2>2. u.call[d] = s.call[d] /\ u.heard[d] = s.heard[d] /\ u.book[d] = s.book[d]
        /\ (Pending(s, c, d) <=> Pending(u, Lead, d))
    BY <1>7, <1>4, <2>1 DEF Pending
  <2>3. (\E v \in Requests : SyncOn(s, v, d)) => (\E v \in Requests : SyncOn(u, v, d))
    BY <1>9
  <2> QED
    BY <1>7, <2>1, <2>2, <2>3 DEF CallTallied
<1>12. ASSUME NEW v \in Requests PROVE WaitSound(u, Lead, v)
  <2>1. WaitSound(s, c, v)
    BY DEF Sound
  <2>2. u.wait[v].on \subseteq s.wait[v].on
    BY <1>2, <1>4 DEF NoWait
  <2>3. ASSUME u.wait[v].how = "sync"
        PROVE  \E d \in Calls : Pending(u, Lead, d) /\ SyncOn(u, v, d) /\ CallerWorks(u, d)
    <3>1. v \notin on /\ s.wait[v].how = "sync"
      BY <1>2, <1>4, <2>3 DEF NoWait
    <3>2. PICK d \in Calls : Pending(s, c, d) /\ SyncOn(s, v, d) /\ (d = c \/ CallerWorks(s, d))
      BY <2>1, <3>1 DEF WaitSound
    <3>3. d # c
      BY <1>8, <3>1, <3>2 DEF SyncOn
    <3> QED
      BY <1>7, <1>9, <3>2, <3>3 DEF Pending
  <2> QED
    BY <1>7, <2>1, <2>2, <2>3 DEF WaitSound
<1>13. ASSUME NEW d \in Calls PROVE CallMade(u, d)
  <2>1. CallMade(s, d) /\ u.call = s.call
    BY <1>4 DEF Sound
  <2> QED
    BY <1>4, <2>1 DEF CallMade, IsMade
<1>14. OnePerConv(u)
  BY <1>4 DEF Sound, OnePerConv, IsOpen
<1>15. OneSyncWait(u)
  <2>1. \A v \in Requests : u.wait[v].how = "sync" => u.wait[v] = s.wait[v]
    BY <1>2, <1>4 DEF NoWait
  <2> QED
    BY <2>1 DEF Sound, OneSyncWait
<1>16. Sound(u, Lead)
  BY <1>4, <1>6, <1>10, <1>11, <1>12, <1>13, <1>14, <1>15 DEF Sound
<1> QED
  BY <1>16 DEF u

\* Where the calls and the waits are kept, still nobody waits in the call.
LEMMA NobodyStillWaits ==
  ASSUME NEW s, NEW t, NEW c, Sound(s, Lead), Keeps(s, t), NobodyWaitsFrom(s, c)
  PROVE  NobodyWaitsFrom(t, c)
<1> SUFFICES ASSUME NEW w \in Requests, t.wait[w].how = "sync", NEW d \in t.wait[w].on, t.call[d].owner # Lead
             PROVE  t.call[d].madeIn # c
  BY DEF NobodyWaitsFrom
<1>1. t.wait = s.wait /\ d \in Calls /\ IsMade(s, d)
  BY DEF Keeps, Sound, WaitSound, Owed
<1>2. t.call[d].owner = s.call[d].owner /\ t.call[d].madeIn = s.call[d].madeIn
  BY <1>1 DEF Keeps
<1> QED
  BY <1>1, <1>2 DEF NobodyWaitsFrom

\* A call not in its turn has no caller's wait in it.
LEMMA NobodyWaitsUnlessTurn ==
  ASSUME NEW s, Sound(s, Lead), NEW c \in Calls, s.call[c].stage # "turn"
  PROVE  NobodyWaitsFrom(s, c)
<1> SUFFICES ASSUME NEW w \in Requests, s.wait[w].how = "sync", NEW d \in s.wait[w].on, s.call[d].owner # Lead
             PROVE  s.call[d].madeIn # c
  BY DEF NobodyWaitsFrom
<1>1. WaitSound(s, Lead, w) /\ \A e \in Calls : e # Lead
  BY DEF Sound, Calls, Lead
<1>2. PICK e \in Calls : SyncOn(s, w, e) /\ CallerWorks(s, e)
  BY <1>1 DEF WaitSound
<1>3. e = d
  BY <1>2 DEF SyncOn
<1> QED
  BY <1>2, <1>3 DEF CallerWorks

\* The reactions to a settled call, in their order.
LEMMA SettledSound ==
  ASSUME NEW s, Sound(s, Lead), NEW c \in Calls, IsOpen(s, c), NobodyWaitsFrom(s, c), NEW session, NEW w
  PROVE  Sound(Settled(s, c, session, w), Lead)
<1> DEFINE u == Unparked(s, {c})
           old == s.call[c]
           gone == [NoCall EXCEPT !.stage = "done", !.owner = old.owner, !.conv = old.conv,
                                  !.mode = old.mode, !.depth = old.depth, !.session = session]
           t == [u EXCEPT !.call[c] = gone]
           v == ReviewedIfHeld(t, old.owner)
           a == WaitsAnswered(v, c, w)
           b == [a EXCEPT !.deferred = @ \ {old.conv}]
<1>1. Settled(s, c, session, w) = IF old.conv \in a.deferred THEN DrainedWhenFree(b, old.conv) ELSE a
  BY DEF Settled
<1>2. Like(s, u)
  BY UnparkedLike DEF Sound
<1>3. /\ DOMAIN gone = Fields /\ gone.stage = "done" /\ gone.mode = old.mode
      /\ gone.owner = old.owner /\ gone.conv = old.conv
  BY DEF NoCall, Fields
<1>4. Sound(u, Lead) /\ Keeps(s, u)
  BY <1>2, LikeSound, LikeKeeps
<1>5. IsOpen(u, c) /\ NobodyWaitsFrom(u, c) /\ Shaped(u)
      /\ u.call[c].mode = old.mode /\ u.call[c].owner = old.owner /\ u.call[c].conv = old.conv
  BY <1>2, <1>4, NobodyStillWaits DEF Keeps, IsMade, IsOpen, Like
<1> HIDE DEF u, gone
<1>6. /\ DOMAIN t = Parts /\ t.made = u.made /\ t.heard = u.heard /\ t.lead = u.lead /\ t.wait = u.wait
      /\ t.book = u.book /\ DOMAIN t.call = Calls
      /\ \A d \in Calls \ {c} : t.call[d] = u.call[d]
      /\ t.call[c] = gone
  BY <1>5 DEF Shaped, Parts
<1> HIDE DEF t
<1>7. Shaped(t)
  BY <1>3, <1>5, <1>6 DEF Shaped
<1>8. Sound(t, c)
  BY <1>3, <1>4, <1>5, <1>6, <1>7, DoneSound
<1>9. Like(t, v)
  BY <1>7, ReviewedIfHeldLike
<1> HIDE DEF v
<1>10. Sound(v, c) /\ v.call[c].stage = "done"
  BY <1>3, <1>6, <1>8, <1>9, LikeSound DEF Like, SameLife
<1>11. Sound(a, Lead)
  BY <1>10, WaitsAnsweredSound
<1> HIDE DEF a
<1>12. /\ DOMAIN b = Parts /\ b.made = a.made /\ b.heard = a.heard /\ b.lead = a.lead /\ b.wait = a.wait
       /\ b.call = a.call /\ b.book = a.book
  BY <1>11 DEF Sound, Shaped, Parts
<1> HIDE DEF b
<1>13. Like(a, b)
  BY <1>11, <1>12 DEF Sound, Shaped, Like, SameLife
<1>14. old.conv \in Convs
  <2>1. CallMade(s, c) /\ IsMade(s, c)
    BY DEF Sound, IsOpen, IsMade
  <2> QED
    BY <2>1 DEF CallMade, Convs
<1>15. Sound(DrainedWhenFree(b, old.conv), Lead)
  BY <1>11, <1>13, <1>14, LikeSound, DrainedWhenFreeSound
<1> QED
  BY <1>1, <1>11, <1>15

-----------------------------------------------------------------------------
(* Waits.                                                                    *)

\* A result that is collected is heard of, and is no longer in the book.
LEMMA CollectedSound ==
  ASSUME NEW s, Sound(s, Lead), NEW c \in Calls, IsMade(s, c), ~IsOpen(s, c), s.book[c] # "no"
  PROVE  Sound(Collected(s, c), Lead)
<1> DEFINE t == Collected(s, c)
<1>1. /\ DOMAIN t = Parts /\ t.made = s.made /\ t.wait = s.wait /\ t.lead = s.lead /\ t.call = s.call
      /\ DOMAIN t.book = Calls /\ DOMAIN t.heard = Calls
      /\ t.book[c] = "no" /\ t.heard[c] = s.heard[c] + 1
      /\ \A d \in Calls \ {c} : t.book[d] = s.book[d] /\ t.heard[d] = s.heard[d]
  BY DEF Sound, Shaped, Parts, Collected
<1> HIDE DEF t
<1>2. Shaped(t)
  BY <1>1 DEF Sound, Shaped
<1>3. \A d \in Calls : /\ IsMade(s, d) <=> IsMade(t, d)
                       /\ Owed(s, d) <=> Owed(t, d)
                       /\ IsOpen(s, d) <=> IsOpen(t, d)
                       /\ Pending(s, Lead, d) <=> Pending(t, Lead, d)
                       /\ CallerWorks(s, d) <=> CallerWorks(t, d)
  BY <1>1 DEF IsMade, IsOpen, Owed, Pending, CallerWorks
<1>4. \A w \in Requests, d \in Calls : SyncOn(s, w, d) => SyncOn(t, w, d)
  BY <1>1 DEF SyncOn
<1>5. ASSUME NEW d \in Calls PROVE CallMade(t, d)
  <2>1. CallMade(s, d)
    BY DEF Sound
  <2> QED
    BY <1>1, <2>1 DEF CallMade, IsMade
<1>6. ASSUME NEW d \in Calls PROVE CallTallied(t, Lead, d)
  <2>1. CallTallied(s, Lead, d) /\ d # Lead
    BY DEF Sound, Calls, Lead
  <2>2. CASE d = c
    <3>1. s.call[c].stage = "done" /\ ~Pending(s, Lead, c) /\ s.heard[c] = 0 /\ Owed(s, c)
      BY <2>1, <2>2 DEF IsMade, IsOpen, Pending, CallTallied, Owed
    <3>2. t.heard[c] = 1 /\ t.book[c] = "no" /\ t.call[c] = s.call[c]
      BY <1>1, <3>1
    <3> QED
      BY <1>3, <2>1, <2>2, <3>1, <3>2 DEF CallTallied
  <2>3. CASE d # c
    <3>1. (\E w \in Requests : SyncOn(s, w, d)) => (\E w \in Requests : SyncOn(t, w, d))
      BY <1>4
    <3> QED
      BY <1>1, <1>3, <2>1, <2>3, <3>1 DEF CallTallied
  <2> QED
    BY <2>2, <2>3
<1>7. ASSUME NEW w \in Requests PROVE WaitSound(t, Lead, w)
  <2>1. WaitSound(s, Lead, w)
    BY DEF Sound
  <2> QED
    BY <1>1, <1>3, <1>4, <2>1 DEF WaitSound
<1>8. OnePerConv(t) /\ OneSyncWait(t)
  BY <1>1 DEF Sound, OnePerConv, OneSyncWait, IsOpen
<1> QED
  BY <1>1, <1>2, <1>5, <1>6, <1>7, <1>8 DEF Sound, t

\* A wait on calls that are collectable, as await_agent and await_any begin.
LEMMA WaitsSound ==
  ASSUME NEW s, Sound(s, Lead), NEW w \in Requests, s.wait[w] = NoWait, NEW k, NEW how, how # "sync",
         NEW on \in SUBSET Calls, \A c \in on : Owed(s, c)
  PROVE  Sound(Waits(s, w, k, how, on), Lead)
<1> DEFINE t == Waits(s, w, k, how, on)
<1>1. /\ DOMAIN t = Parts /\ t.made = s.made /\ t.heard = s.heard /\ t.lead = s.lead /\ t.call = s.call
      /\ t.book = s.book /\ DOMAIN t.wait = Requests
      /\ t.wait[w] = [of |-> k, how |-> how, on |-> on]
      /\ \A v \in Requests \ {w} : t.wait[v] = s.wait[v]
  BY DEF Sound, Shaped, Parts, Waits
<1> HIDE DEF t
<1>2. Shaped(t)
  BY <1>1 DEF Sound, Shaped
<1>3. \A d \in Calls : /\ IsMade(s, d) <=> IsMade(t, d)
                       /\ Owed(s, d) <=> Owed(t, d)
                       /\ IsOpen(s, d) <=> IsOpen(t, d)
                       /\ Pending(s, Lead, d) <=> Pending(t, Lead, d)
                       /\ CallerWorks(s, d) <=> CallerWorks(t, d)
  BY <1>1 DEF IsMade, IsOpen, Owed, Pending, CallerWorks
<1>4. ASSUME NEW v \in Requests, NEW d \in Calls, SyncOn(s, v, d)
      PROVE  SyncOn(t, v, d)
  <2>1. v # w
    BY <1>4 DEF SyncOn, NoWait
  <2> QED
    BY <1>1, <1>4, <2>1 DEF SyncOn
<1>5. ASSUME NEW d \in Calls PROVE CallMade(t, d)
  <2>1. CallMade(s, d)
    BY DEF Sound
  <2> QED
    BY <1>1, <2>1 DEF CallMade, IsMade
<1>6. ASSUME NEW d \in Calls PROVE CallTallied(t, Lead, d)
  <2>1. CallTallied(s, Lead, d)
    BY DEF Sound
  <2>2. (\E v \in Requests : SyncOn(s, v, d)) => (\E v \in Requests : SyncOn(t, v, d))
    BY <1>4
  <2> QED
    BY <1>1, <1>3, <2>1, <2>2 DEF CallTallied
<1>7. ASSUME NEW v \in Requests PROVE WaitSound(t, Lead, v)
  <2>1. WaitSound(s, Lead, v)
    BY DEF Sound
  <2>2. CASE v = w
    BY <1>1, <1>3, <2>2 DEF WaitSound
  <2>3. CASE v # w
    <3>1. \A d \in Calls : SyncOn(s, v, d) => SyncOn(t, v, d)
      BY <1>4
    <3> QED
      BY <1>1, <1>3, <2>1, <2>3, <3>1 DEF WaitSound
  <2> QED
    BY <2>2, <2>3
<1>8. OnePerConv(t)
  BY <1>1 DEF Sound, OnePerConv, IsOpen
<1>9. OneSyncWait(t)
  <2>1. \A v \in Requests : t.wait[v].how = "sync" => t.wait[v] = s.wait[v]
    BY <1>1
  <2> QED
    BY <2>1 DEF Sound, OneSyncWait
<1> QED
  BY <1>1, <1>2, <1>5, <1>6, <1>7, <1>8, <1>9 DEF Sound, t

\* What the waits W let go of.
LEMMA ReleasedSound ==
  ASSUME NEW s, Sound(s, Lead), NEW W \in SUBSET Requests
  PROVE  /\ Sound(Released(s, W), Lead) /\ Released(s, W).call = s.call /\ Released(s, W).lead = s.lead
         /\ \A w \in Requests : Released(s, W).wait[w] = IF w \in W THEN NoWait ELSE s.wait[w]
<1> DEFINE C == UNION {s.wait[w].on : w \in {v \in W : s.wait[v].how = "sync"}}
           u == Collectable(s, C)
           t == EndedWaits(u, W)
<1>1. \A w \in Requests : s.wait[w].how = "sync" => \E c \in Calls : SyncOn(s, w, c) /\ IsOpen(s, c)
  BY DEF Sound, WaitSound, Pending, Calls, Lead
<1>2. \A c \in Calls \cap C : IsOpen(s, c) /\ s.call[c].mode # "fire"
  BY <1>1 DEF SyncOn
<1>3. ASSUME NEW w \in Requests, s.wait[w].how = "sync"
      PROVE  IF w \in W THEN s.wait[w].on \subseteq C ELSE s.wait[w].on \cap C = {}
  <2>1. ASSUME w \notin W, NEW c \in s.wait[w].on, c \in C
        PROVE  FALSE
    <3>1. PICK v \in W : s.wait[v].how = "sync" /\ c \in s.wait[v].on
      BY <2>1
    <3>2. \A x \in {v, w} : s.wait[x].on = {c}
      BY <1>1, <1>3, <2>1, <3>1 DEF SyncOn
    <3> QED
      BY <1>3, <2>1, <3>1, <3>2 DEF Sound, OneSyncWait
  <2> QED
    BY <1>3, <2>1
<1> HIDE DEF C
<1>4. /\ DOMAIN u = Parts /\ u.made = s.made /\ u.heard = s.heard /\ u.lead = s.lead /\ u.call = s.call
      /\ u.wait = s.wait /\ DOMAIN u.book = Calls
      /\ \A c \in Calls : u.book[c] = IF c \in C /\ s.book[c] = "no" THEN "untold" ELSE s.book[c]
  BY DEF Sound, Shaped, Parts, Collectable
<1> HIDE DEF u
<1>5. /\ DOMAIN t = Parts /\ t.made = s.made /\ t.heard = s.heard /\ t.lead = s.lead /\ t.call = s.call
      /\ t.book = u.book /\ DOMAIN t.wait = Requests
      /\ \A w \in Requests : t.wait[w] = IF w \in W THEN NoWait ELSE s.wait[w]
  BY <1>4 DEF Sound, Shaped, Parts, EndedWaits
<1>6. Released(s, W) = t
  BY DEF Released, u, C
<1> HIDE DEF t
<1>7. Shaped(t)
  BY <1>4, <1>5 DEF Sound, Shaped, NoWait
<1>8. Sound(t, Lead)
  <2>1. \A c \in Calls : t.book[c] = IF c \in C /\ s.book[c] = "no" THEN "untold" ELSE s.book[c]
    BY <1>4, <1>5
  <2>2. LetGo(s, t, C, W)
    BY <1>2, <1>3, <1>5, <1>7, <2>1 DEF LetGo
  <2> QED
    BY <2>2, LetGoSound
<1> QED
  BY <1>5, <1>6, <1>8

\* What makeCollectable writes.
LEMMA CollectableFields ==
  ASSUME NEW s, Shaped(s), NEW C
  PROVE  LET t == Collectable(s, C) IN
         /\ Shaped(t) /\ t.made = s.made /\ t.heard = s.heard /\ t.lead = s.lead /\ t.call = s.call
         /\ t.wait = s.wait
         /\ \A c \in Calls : t.book[c] = IF c \in C /\ s.book[c] = "no" THEN "untold" ELSE s.book[c]
<1> DEFINE t == Collectable(s, C)
<1>1. /\ DOMAIN t = Parts /\ t.made = s.made /\ t.heard = s.heard /\ t.lead = s.lead /\ t.call = s.call
      /\ t.wait = s.wait /\ DOMAIN t.book = Calls
      /\ \A c \in Calls : t.book[c] = IF c \in C /\ s.book[c] = "no" THEN "untold" ELSE s.book[c]
  BY DEF Shaped, Parts, Collectable
<1> HIDE DEF t
<1>2. Shaped(t)
  BY <1>1 DEF Shaped
<1> QED
  BY <1>1, <1>2 DEF t

\* What the end of waits writes.
LEMMA EndedWaitsFields ==
  ASSUME NEW s, Shaped(s), NEW W
  PROVE  LET t == EndedWaits(s, W) IN
         /\ Shaped(t) /\ t.made = s.made /\ t.heard = s.heard /\ t.lead = s.lead /\ t.call = s.call
         /\ t.book = s.book
         /\ \A w \in Requests : t.wait[w] = IF w \in W THEN NoWait ELSE s.wait[w]
<1> DEFINE t == EndedWaits(s, W)
<1>1. /\ DOMAIN t = Parts /\ t.made = s.made /\ t.heard = s.heard /\ t.lead = s.lead /\ t.call = s.call
      /\ t.book = s.book /\ DOMAIN t.wait = Requests
      /\ \A w \in Requests : t.wait[w] = IF w \in W THEN NoWait ELSE s.wait[w]
  BY DEF Shaped, Parts, EndedWaits
<1> HIDE DEF t
<1>2. Shaped(t)
  BY <1>1 DEF Shaped, NoWait
<1> QED
  BY <1>1, <1>2 DEF t

\* Every wait on an open call is let go at once: the call is collectable.
LEMMA CallLetGo ==
  ASSUME NEW s, Sound(s, Lead), NEW c \in Calls, IsOpen(s, c), s.call[c].mode # "fire",
         NEW t, Shaped(t), t.made = s.made, t.heard = s.heard, t.lead = s.lead, t.call = s.call,
         \A d \in Calls : t.book[d] = IF d \in {c} /\ s.book[d] = "no" THEN "untold" ELSE s.book[d],
         \A w \in Requests : t.wait[w] = IF w \in Listening(s, c) THEN NoWait ELSE s.wait[w]
  PROVE  LetGo(s, t, {c}, Listening(s, c))
<1>1. ASSUME NEW w \in Requests, s.wait[w].how = "sync"
      PROVE  IF w \in Listening(s, c) THEN s.wait[w].on \subseteq {c} ELSE s.wait[w].on \cap {c} = {}
  <2>1. WaitSound(s, Lead, w)
    BY DEF Sound
  <2>2. \E d \in Calls : s.wait[w].on = {d}
    BY <1>1, <2>1 DEF WaitSound, SyncOn
  <2> QED
    BY <2>2 DEF Listening
<1>2. \A d \in Calls \cap {c} : IsOpen(s, d) /\ s.call[d].mode # "fire"
  OBVIOUS
<1> QED
  BY <1>1, <1>2 DEF LetGo

\* The question of call c wakes a wait of its caller, with c collectable.
LEMMA HandedToWaiterSound ==
  ASSUME NEW s, Sound(s, Lead), NEW c \in Calls, IsOpen(s, c), s.call[c].mode # "fire"
  PROVE  Sound(HandedToWaiter(Collectable(s, {c}), c), Lead)
<1> DEFINE t == Collectable(s, {c})
           others == {d \in Active(t) \ {c} : t.call[d].owner = t.call[c].owner /\ Listening(t, d) # {}}
<1>0. Shaped(s)
  BY DEF Sound
<1>1. /\ Shaped(t) /\ t.made = s.made /\ t.heard = s.heard /\ t.lead = s.lead /\ t.call = s.call
      /\ t.wait = s.wait
      /\ \A d \in Calls : t.book[d] = IF d \in {c} /\ s.book[d] = "no" THEN "untold" ELSE s.book[d]
  BY <1>0, CollectableFields
<1> HIDE DEF t
<1>2. Listening(t, c) = Listening(s, c)
  BY <1>1 DEF Listening
<1>3. CASE Listening(s, c) # {}
  <2> DEFINE u == EndedWaits(t, Listening(s, c))
  <2>1. HandedToWaiter(t, c) = Seen(u, c)
    BY <1>2, <1>3 DEF HandedToWaiter
  <2>2. /\ Shaped(u) /\ u.made = s.made /\ u.heard = s.heard /\ u.lead = s.lead /\ u.call = s.call
        /\ u.book = t.book
        /\ \A w \in Requests : u.wait[w] = IF w \in Listening(s, c) THEN NoWait ELSE s.wait[w]
    BY <1>1, EndedWaitsFields
  <2> HIDE DEF u
  <2>3. \A d \in Calls : u.book[d] = IF d \in {c} /\ s.book[d] = "no" THEN "untold" ELSE s.book[d]
    BY <1>1, <2>2
  <2>4. LetGo(s, u, {c}, Listening(s, c))
    BY <2>2, <2>3, CallLetGo
  <2>5. Like(u, Seen(u, c))
    BY <2>2, SeenLike
  <2> QED
    BY <2>1, <2>4, <2>5, LetGoSound, LikeSound DEF t
<1>4. CASE Listening(s, c) = {}
  <2>1. LetGo(s, t, {c}, Listening(s, c))
    <3>1. \A w \in Requests : t.wait[w] = IF w \in Listening(s, c) THEN NoWait ELSE s.wait[w]
      BY <1>1, <1>4
    <3> QED
      BY <1>1, <3>1, CallLetGo
  <2>2. Sound(t, Lead)
    BY <2>1, LetGoSound
  <2>3. CASE others = {}
    BY <1>2, <1>4, <2>2, <2>3 DEF HandedToWaiter, t
  <2>4. CASE others # {}
    <3> DEFINE d == Min(others)
               u == EndedWaits(t, Listening(t, d))
               v == Collectable(u, {d})
    <3>1. HandedToWaiter(t, c) = Seen(v, c)
      BY <1>2, <1>4, <2>4 DEF HandedToWaiter
    <3>2. d \in others
      <4>1. others \in SUBSET Calls
        BY DEF Active
      <4> HIDE DEF others
      <4> QED
        BY <2>4, <4>1, FirstCall
    <3>3. d \in Calls /\ IsOpen(t, d) /\ Listening(t, d) # {}
      BY <3>2 DEF Active, IsOpen
    <3> HIDE DEF d
    <3>4. t.call[d].mode # "fire"
      <4>1. PICK w \in Requests : d \in t.wait[w].on
        BY <3>3 DEF Listening
      <4>2. WaitSound(t, Lead, w)
        BY <2>2 DEF Sound
      <4> QED
        BY <4>1, <4>2 DEF WaitSound, Owed
    <3>5. /\ Shaped(u) /\ u.made = t.made /\ u.heard = t.heard /\ u.lead = t.lead /\ u.call = t.call
          /\ u.book = t.book
          /\ \A w \in Requests : u.wait[w] = IF w \in Listening(t, d) THEN NoWait ELSE t.wait[w]
      BY <1>1, EndedWaitsFields
    <3> HIDE DEF u
    <3>6. /\ Shaped(v) /\ v.made = u.made /\ v.heard = u.heard /\ v.lead = u.lead /\ v.call = u.call
          /\ v.wait = u.wait
          /\ \A e \in Calls : v.book[e] = IF e \in {d} /\ u.book[e] = "no" THEN "untold" ELSE u.book[e]
      BY <3>5, CollectableFields
    <3> HIDE DEF v
    <3>7. /\ \A e \in Calls : v.book[e] = IF e \in {d} /\ t.book[e] = "no" THEN "untold" ELSE t.book[e]
          /\ \A w \in Requests : v.wait[w] = IF w \in Listening(t, d) THEN NoWait ELSE t.wait[w]
          /\ v.made = t.made /\ v.heard = t.heard /\ v.lead = t.lead /\ v.call = t.call
      BY <3>5, <3>6
    <3>8. LetGo(t, v, {d}, Listening(t, d))
      BY <2>2, <3>3, <3>4, <3>6, <3>7, CallLetGo
    <3>9. Like(v, Seen(v, c))
      BY <3>6, SeenLike
    <3> QED
      BY <3>1, <3>8, <3>9, <2>2, LetGoSound, LikeSound DEF t
  <2> QED
    BY <2>3, <2>4
<1> QED
  BY <1>3, <1>4

\* A call whose caller is not at work has no sync wait on it.
LEMMA NoSyncWaitUnlessLive ==
  ASSUME NEW s, Sound(s, Lead), NEW c \in Calls, ~Live(s, s.call[c].owner), NEW w \in Requests,
         s.wait[w].how = "sync"
  PROVE  c \notin s.wait[w].on
<1> SUFFICES ASSUME c \in s.wait[w].on PROVE FALSE
  OBVIOUS
<1>1. WaitSound(s, Lead, w) /\ \A d \in Calls : d # Lead
  BY DEF Sound, Calls, Lead
<1>2. SyncOn(s, w, c) /\ CallerWorks(s, c)
  BY <1>1 DEF WaitSound, SyncOn
<1>3. CASE s.call[c].owner = Lead
  BY <1>2, <1>3 DEF CallerWorks, Live
<1>4. CASE s.call[c].owner # Lead
  <2> DEFINE x == s.call[c].madeIn
  <2>1. x \in Calls /\ s.call[x].stage = "turn" /\ s.call[x].conv = s.call[c].owner
    BY <1>2, <1>4 DEF CallerWorks
  <2>2. x \in CallsOn(s, s.call[c].owner)
    BY <2>1 DEF CallsOn, Active
  <2> QED
    BY <1>4, <2>1, <2>2 DEF Live
<1> QED
  BY <1>3, <1>4

\* The call becomes collectable, and no wait is on it that says it was not.
LEMMA CollectableSound ==
  ASSUME NEW s, Sound(s, Lead), NEW c \in Calls, IsOpen(s, c), s.call[c].mode # "fire",
         \A w \in Requests : s.wait[w].how = "sync" => c \notin s.wait[w].on
  PROVE  Sound(Collectable(s, {c}), Lead) /\ Keeps(s, Collectable(s, {c}))
<1> DEFINE t == Collectable(s, {c})
<1>0. Shaped(s)
  BY DEF Sound
<1>1. /\ Shaped(t) /\ t.made = s.made /\ t.heard = s.heard /\ t.lead = s.lead /\ t.call = s.call
      /\ t.wait = s.wait
      /\ \A d \in Calls : t.book[d] = IF d \in {c} /\ s.book[d] = "no" THEN "untold" ELSE s.book[d]
  BY <1>0, CollectableFields
<1> HIDE DEF t
<1>2. LetGo(s, t, {c}, {})
  BY <1>1 DEF LetGo
<1>3. Sound(t, Lead)
  BY <1>2, LetGoSound
<1>4. Keeps(s, t)
  BY <1>1 DEF Keeps, IsMade, IsOpen
<1> QED
  BY <1>3, <1>4 DEF t

-----------------------------------------------------------------------------
(* The steps.                                                                *)

\* A caller at work makes its calls from the call whose turn it is in.
LEMMA MadeInTurn ==
  ASSUME NEW s, Sound(s, Lead), NEW k \in Calls, NEW c \in CallsOn(s, k), s.call[c].stage = "turn"
  PROVE  MadeIn(s, k) = c /\ IsMade(s, k)
<1>1. c \in Calls /\ IsOpen(s, c) /\ s.call[c].conv = k
  BY DEF CallsOn, Active, IsOpen
<1>2. \A d \in CallsOn(s, k) : d = c
  BY <1>1 DEF Sound, OnePerConv, CallsOn, Active, IsOpen
<1>3. CallsOn(s, k) \in SUBSET Calls /\ CallsOn(s, k) # {}
  BY DEF CallsOn, Active
<1>4. MadeIn(s, k) = Min(CallsOn(s, k))
  BY <1>3 DEF MadeIn
<1>5. Min(CallsOn(s, k)) \in CallsOn(s, k)
  BY <1>3, FirstCall
<1>6. CallMade(s, c) /\ IsMade(s, c)
  BY <1>1 DEF Sound, IsOpen, IsMade
<1> QED
  BY <1>1, <1>2, <1>4, <1>5, <1>6 DEF CallMade

\* The question a wait shows is a call's.
LEMMA UnseenIsACall ==
  ASSUME NEW s, NEW k, NEW c, Unseen(s, k, c) # 0
  PROVE  Unseen(s, k, c) \in Calls
<1> DEFINE fresh == {d \in AskedOf(s, k) \ {c} : ~s.call[d].seen}
<1>1. fresh \in SUBSET Calls
  BY DEF AskedOf, Parked, Active
<1>2. fresh # {} /\ Unseen(s, k, c) = Min(fresh)
  BY DEF Unseen
<1> HIDE DEF fresh
<1> QED
  BY <1>1, <1>2, FirstCall

\* A sync call that its caller waits for, or that is collectable at once.
LEMMA SyncCallSound ==
  ASSUME NEW s, Sound(s, Lead), NEW k \in Convs,
         IF k = Lead THEN s.lead = "turn" ELSE \E c \in CallsOn(s, k) : s.call[c].stage = "turn",
         NEW thread \in Convs, thread # Lead => IsMade(s, thread) /\ CallsOn(s, thread) = {},
         NEW stage \in {"turn", "queued"}, NEW w \in Requests, s.wait[w] = NoWait, s.made < MaxCalls
  PROVE  Sound(SyncWaits(Opened(s, k, thread, "sync", stage), w, k, s.made + 1), Lead)
<1> DEFINE n == s.made + 1
           o == Opened(s, k, thread, "sync", stage)
           q == Unseen(o, k, n)
<1>0. n \in Calls /\ Shaped(s) /\ ~IsMade(s, n) /\ n = s.made + 1 /\ n # Lead
  <2>1. n \in Calls /\ ~(n <= s.made)
    BY CallsAssumption DEF Sound, Calls
  <2> QED
    BY <2>1 DEF Sound, CallMade, Calls, Lead
<1>1. /\ Shaped(o) /\ o.made = n /\ o.heard = s.heard /\ o.lead = s.lead /\ o.wait = s.wait
      /\ \A c \in Calls \ {n} : o.call[c] = s.call[c] /\ o.book[c] = s.book[c]
      /\ o.call[n].stage = stage /\ o.call[n].mode = "sync" /\ o.call[n].owner = k
      /\ o.call[n].madeIn = MadeIn(s, k)
      /\ o.call[n].conv = IF thread = Lead THEN n ELSE thread
      /\ o.book[n] = "no"
  BY <1>0, OpenedFields
<1> HIDE DEF n, o
<1>2. k # Lead => IsMade(s, k) /\ MadeIn(s, k) \in Calls /\ s.call[MadeIn(s, k)].stage = "turn"
                  /\ s.call[MadeIn(s, k)].conv = k
  <2> SUFFICES ASSUME k # Lead
               PROVE  IsMade(s, k) /\ MadeIn(s, k) \in Calls /\ s.call[MadeIn(s, k)].stage = "turn"
                      /\ s.call[MadeIn(s, k)].conv = k
    OBVIOUS
  <2>1. PICK c \in CallsOn(s, k) : s.call[c].stage = "turn"
    OBVIOUS
  <2>2. k \in Calls
    BY DEF Convs
  <2>3. MadeIn(s, k) = c /\ IsMade(s, k)
    BY <2>1, <2>2, MadeInTurn
  <2> QED
    BY <2>1, <2>3 DEF CallsOn, Active
<1>3. o.call[n].conv = n \/ (o.call[n].conv \in Calls /\ IsMade(s, o.call[n].conv) /\ CallsOn(s, o.call[n].conv) = {})
  BY <1>1 DEF Convs
<1>4. o.call[n].owner = Lead \/ (o.call[n].owner \in Calls /\ IsMade(s, o.call[n].owner))
  BY <1>1, <1>2 DEF Convs
<1>5. IsOpen(o, n) /\ o.call[n].mode \in {"async", "sync", "fire"}
  BY <1>1 DEF IsOpen
<1>6. CallerWorks(o, n)
  <2>1. MadeIn(s, k) # n \/ k = Lead
    BY <1>0, <1>2 DEF IsMade
  <2>2. k # Lead => o.call[MadeIn(s, k)] = s.call[MadeIn(s, k)]
    BY <1>1, <1>2, <2>1
  <2>3. k = Lead => s.lead = "turn"
    OBVIOUS
  <2> QED
    BY <1>1, <1>2, <2>2, <2>3 DEF CallerWorks
<1>7. CASE q # 0
  <2> DEFINE v == Collectable(o, {n})
  <2>1. SyncWaits(o, w, k, n) = Seen(v, q) /\ q \in Calls
    BY <1>7, UnseenIsACall DEF SyncWaits
  <2> HIDE DEF q
  <2>2. /\ Shaped(v) /\ v.made = o.made /\ v.heard = o.heard /\ v.lead = o.lead /\ v.call = o.call
        /\ v.wait = o.wait
        /\ \A c \in Calls : v.book[c] = IF c \in {n} /\ o.book[c] = "no" THEN "untold" ELSE o.book[c]
    BY <1>1, CollectableFields
  <2> HIDE DEF v
  <2>3. /\ v.made = n /\ v.heard = s.heard /\ v.lead = s.lead
        /\ \A c \in Calls \ {n} : v.call[c] = s.call[c] /\ v.book[c] = s.book[c]
        /\ v.wait = s.wait /\ v.book[n] # "no" /\ v.call[n].mode # "fire"
    BY <1>0, <1>1, <2>2
  <2>4. IsOpen(v, n) /\ v.call[n].mode \in {"async", "sync", "fire"} /\ v.call[n] = o.call[n]
    BY <1>5, <2>2 DEF IsOpen
  <2>5. Begun(s, v, n)
    BY <1>0, <1>3, <1>4, <2>2, <2>3, <2>4 DEF Begun
  <2>6. Like(v, Seen(v, q))
    BY <2>1, <2>2, SeenLike
  <2> QED
    BY <1>0, <2>1, <2>5, <2>6, BegunSound, LikeSound DEF o, n
<1>8. CASE q = 0
  <2> DEFINE v == Waits(o, w, k, "sync", {n})
  <2>1. SyncWaits(o, w, k, n) = v
    BY <1>8 DEF SyncWaits
  <2>2. /\ DOMAIN v = Parts /\ v.made = n /\ v.heard = s.heard /\ v.lead = s.lead /\ v.call = o.call
        /\ v.book = o.book /\ DOMAIN v.wait = Requests
        /\ v.wait[w] = [of |-> k, how |-> "sync", on |-> {n}]
        /\ \A u \in Requests \ {w} : v.wait[u] = s.wait[u]
    BY <1>1 DEF Shaped, Parts, Waits
  <2> HIDE DEF v
  <2>3. Shaped(v)
    BY <1>1, <2>2 DEF Shaped
  <2>4. IsOpen(v, n) /\ v.call[n].mode \in {"async", "sync", "fire"} /\ v.call[n] = o.call[n]
        /\ CallerWorks(v, n)
    <3>1. v.lead = o.lead /\ v.call = o.call
      BY <1>1, <2>2
    <3> QED
      BY <1>5, <1>6, <3>1 DEF IsOpen, CallerWorks
  <2>5. s.wait[w].how # "sync" /\ SyncOn(v, w, n)
    BY <1>1, <2>2 DEF SyncOn, NoWait
  <2>6. \A c \in Calls \ {n} : v.call[c] = s.call[c] /\ v.book[c] = s.book[c]
    BY <1>1, <2>2
  <2>7. \E u \in Requests :
          /\ s.wait[u].how # "sync" /\ SyncOn(v, u, n) /\ CallerWorks(v, n)
          /\ \A x \in Requests \ {u} : v.wait[x] = s.wait[x]
    BY <2>2, <2>4, <2>5
  <2>8. Begun(s, v, n)
    BY <1>0, <1>3, <1>4, <2>2, <2>3, <2>4, <2>6, <2>7 DEF Begun
  <2> QED
    BY <1>0, <2>1, <2>8, BegunSound DEF o, n
<1> QED
  BY <1>7, <1>8

\* An agent at work is the lead in its turn, or has a call in its turn.
LEMMA WorkingIsMade ==
  ASSUME NEW k \in Convs, Sound(run, Lead), Working(k)
  PROVE  /\ k # Lead => IsMade(run, k)
         /\ IF k = Lead THEN run.lead = "turn" ELSE \E c \in CallsOn(run, k) : run.call[c].stage = "turn"
BY MadeInTurn DEF Working, Convs

\* call_agent: without a wait, or with one.
LEMMA CallAgentKeeps ==
  ASSUME NEW k \in Convs, Sound(run, Lead), Working(k), CallAgent(k)
  PROVE  Sound(run', Lead)
<1>1. PICK t \in {Lead} \union {c \in Calls : MayContinue(k, c)},
           stage \in {"turn"} \union ({"queued"} \intersect weather) :
        \/ \E mode \in {"async", "fire"} \intersect weather : Becomes(Opened(run, k, t, mode, stage))
        \/ \E w \in Requests :
             /\ "sync" \in weather /\ Free(w) /\ run.made < MaxCalls
             /\ Becomes(SyncWaits(Opened(run, k, t, "sync", stage), w, k, run.made + 1))
  BY DEF CallAgent
<1>2. t \in Convs /\ stage \in {"turn", "queued"}
      /\ (t # Lead => IsMade(run, t) /\ CallsOn(run, t) = {})
  BY ResumableIsMade DEF Convs, MayContinue
<1>3. CASE \E mode \in {"async", "fire"} \intersect weather : Becomes(Opened(run, k, t, mode, stage))
  <2>1. PICK mode \in {"async", "fire"} : run' = Opened(run, k, t, mode, stage)
    BY <1>3 DEF Becomes
  <2> QED
    BY <1>2, <2>1, WorkingIsMade, OpenedSound
<1>4. CASE \E w \in Requests :
             /\ "sync" \in weather /\ Free(w) /\ run.made < MaxCalls
             /\ Becomes(SyncWaits(Opened(run, k, t, "sync", stage), w, k, run.made + 1))
  <2>1. PICK w \in Requests : /\ run.wait[w] = NoWait /\ run.made < MaxCalls
                              /\ run' = SyncWaits(Opened(run, k, t, "sync", stage), w, k, run.made + 1)
    BY <1>4 DEF Becomes, Free
  <2> QED
    BY <1>2, <2>1, WorkingIsMade, SyncCallSound
<1> QED
  BY <1>1, <1>3, <1>4

\* A step to a like book keeps it sound.
LEMMA LikeStep ==
  ASSUME NEW t, Sound(run, Lead), Like(run, t), run' = t
  PROVE  Sound(run', Lead)
BY LikeSound

\* What the book holds is owed to somebody.
LEMMA BookedIsOwed ==
  ASSUME Sound(run, Lead), NEW c \in Calls, run.book[c] # "no"
  PROVE  Owed(run, c) /\ IsMade(run, c)
BY DEF Sound, CallTallied, Owed

\* await_agent: the result, a question, or a wait.
LEMMA AwaitAgentKeeps ==
  ASSUME NEW k, NEW c \in Calls, Sound(run, Lead), AwaitAgent(k, c)
  PROVE  Sound(run', Lead)
<1> DEFINE q == Unseen(run, k, c)
<1>1. Owed(run, c) /\ IsMade(run, c) /\ run.book[c] # "no" /\ Shaped(run)
  BY BookedIsOwed DEF AwaitAgent, Sound
<1>2. CASE c \notin Active(run)
  <2>1. run' = Collected(run, c) /\ ~IsOpen(run, c)
    BY <1>2 DEF AwaitAgent, Becomes, Active, IsOpen
  <2> QED
    BY <1>1, <2>1, CollectedSound
<1>3. CASE c \in Active(run) /\ run.call[c].q # "none"
  <2>1. run' = Seen(run, c)
    BY <1>3 DEF AwaitAgent, Becomes
  <2> QED
    BY <1>1, <2>1, SeenLike, LikeStep
<1>4. CASE c \in Active(run) /\ ~(run.call[c].q # "none") /\ q # 0
  <2>1. run' = Seen(run, q) /\ q \in Calls
    BY <1>4, UnseenIsACall DEF AwaitAgent, Becomes
  <2> QED
    BY <1>1, <2>1, SeenLike, LikeStep
<1>5. CASE c \in Active(run) /\ ~(run.call[c].q # "none") /\ ~(q # 0)
  <2>1. PICK w \in Requests : Free(w) /\ Becomes(Waits(run, w, k, "one", {c}))
    BY <1>5 DEF AwaitAgent
  <2>2. run.wait[w] = NoWait /\ run' = Waits(run, w, k, "one", {c})
    BY <2>1 DEF Free, Becomes
  <2>3. {c} \in SUBSET Calls /\ \A d \in {c} : Owed(run, d)
    BY <1>1
  <2> QED
    BY <2>2, <2>3, WaitsSound
<1> QED
  BY <1>2, <1>3, <1>4, <1>5

\* await_any: a question, the first result, or a wait on all that are open.
LEMMA AwaitAnyKeeps ==
  ASSUME NEW k, Sound(run, Lead), AwaitAny(k)
  PROVE  Sound(run', Lead)
<1> DEFINE open == {c \in Calls : Owns(k, c) /\ run.book[c] # "no"}
           q == Unseen(run, k, Lead)
           settled == open \ Active(run)
<1>1. open \in SUBSET Calls /\ Shaped(run) /\ \A c \in open : Owed(run, c) /\ IsMade(run, c)
  BY BookedIsOwed DEF Sound
<1>2. CASE q # 0
  <2>1. run' = Seen(run, q) /\ q \in Calls
    BY <1>2, UnseenIsACall DEF AwaitAny, Becomes
  <2> QED
    BY <1>1, <2>1, SeenLike, LikeStep
<1>3. CASE ~(q # 0) /\ open \subseteq Parked(run)
  <2>1. run' = run
    BY <1>3 DEF AwaitAny, Becomes
  <2> QED
    BY <2>1
<1>4. CASE ~(q # 0) /\ ~(open \subseteq Parked(run)) /\ settled # {}
  <2>1. run' = Collected(run, Min(settled))
    BY <1>4 DEF AwaitAny, Becomes
  <2>2. settled \in SUBSET Calls
    BY <1>1
  <2>3. Min(settled) \in settled
    <3> HIDE DEF settled
    <3> QED
      BY <1>4, <2>2, FirstCall
  <2>4. Min(settled) \in Calls /\ IsMade(run, Min(settled)) /\ ~IsOpen(run, Min(settled))
        /\ run.book[Min(settled)] # "no"
    BY <1>1, <2>3 DEF Active, IsOpen
  <2> HIDE DEF settled
  <2> QED
    BY <2>1, <2>4, CollectedSound
<1>5. CASE ~(q # 0) /\ ~(open \subseteq Parked(run)) /\ ~(settled # {})
  <2>1. PICK w \in Requests : Free(w) /\ Becomes(Waits(run, w, k, "any", open))
    BY <1>5 DEF AwaitAny
  <2>2. run.wait[w] = NoWait /\ run' = Waits(run, w, k, "any", open)
    BY <2>1 DEF Free, Becomes
  <2> HIDE DEF open
  <2> QED
    BY <1>1, <2>2, WaitsSound
<1> QED
  BY <1>2, <1>3, <1>4, <1>5

\* A wait that is let go leaves its call collectable.
LEMMA WaitLetGoKeeps ==
  ASSUME NEW w \in Requests, Sound(run, Lead), WaitLetGo(w)
  PROVE  Sound(run', Lead)
BY ReleasedSound DEF WaitLetGo, Becomes

\* An answer unparks the question.
LEMMA AnswerAgentKeeps ==
  ASSUME NEW k, NEW c, Sound(run, Lead), AnswerAgent(k, c)
  PROVE  Sound(run', Lead)
BY UnparkedLike, LikeStep DEF AnswerAgent, Becomes, Sound

\* A cancel stops a call and what hangs on it.
LEMMA CancelAgentKeeps ==
  ASSUME NEW k, NEW c, Sound(run, Lead), CancelAgent(k, c)
  PROVE  Sound(run', Lead)
<1> DEFINE subs == StoppedWith(c)
           gone == {c} \union {d \in subs : GoesOnTo(d)}
           s == Unparked(run, gone)
           t == [s EXCEPT
                  !.book = [d \in Calls |-> IF d \in subs /\ @[d] # "no" THEN "told" ELSE @[d]],
                  !.call = [d \in Calls |->
                     IF d \in gone THEN [@[d] EXCEPT !.failed = TRUE, !.stopped = TRUE] ELSE @[d]]]
           held == {d \in gone : run.call[d].stage = "held"}
           u == Settling(t, held)
<1>1. run' = u
  BY DEF CancelAgent, Becomes
<1> HIDE DEF subs, gone
<1>2. Like(run, s) /\ Shaped(s)
  BY UnparkedLike DEF Sound, Like
<1> HIDE DEF s
<1>3. /\ DOMAIN t = Parts /\ t.made = s.made /\ t.wait = s.wait /\ t.heard = s.heard /\ t.lead = s.lead
      /\ DOMAIN t.call = Calls /\ DOMAIN t.book = Calls
      /\ \A d \in Calls : t.book[d] = "no" <=> s.book[d] = "no"
  BY <1>2 DEF Shaped, Parts
<1>4. \A d \in Calls :
        /\ DOMAIN t.call[d] = Fields
        /\ t.call[d].mode = s.call[d].mode /\ t.call[d].owner = s.call[d].owner /\ t.call[d].conv = s.call[d].conv
        /\ t.call[d].madeIn = s.call[d].madeIn /\ t.call[d].stage = s.call[d].stage
  BY <1>2 DEF Shaped, Parts, Fields
<1> HIDE DEF t
<1>5. /\ DOMAIN u = Parts /\ u.made = t.made /\ u.wait = t.wait /\ u.heard = t.heard /\ u.lead = t.lead
      /\ u.book = t.book /\ DOMAIN u.call = Calls
      /\ \A d \in Calls : u.call[d] = IF d \in held THEN [t.call[d] EXCEPT !.stage = "writing"] ELSE t.call[d]
  BY <1>3 DEF Parts, Settling
<1>6. \A d \in held : run.call[d].stage = "held"
  OBVIOUS
<1> HIDE DEF u, held
<1>7. \A d \in Calls :
        /\ DOMAIN u.call[d] = Fields
        /\ u.call[d].mode = s.call[d].mode /\ u.call[d].owner = s.call[d].owner /\ u.call[d].conv = s.call[d].conv
        /\ u.call[d].madeIn = s.call[d].madeIn
        /\ u.call[d].stage = IF d \in held THEN "writing" ELSE s.call[d].stage
  <2> TAKE d \in Calls
  <2>1. CASE d \in held
    <3>1. u.call[d] = [t.call[d] EXCEPT !.stage = "writing"]
      BY <1>5, <2>1
    <3> QED
      BY <1>4, <2>1, <3>1 DEF Fields
  <2>2. CASE d \notin held
    <3>1. u.call[d] = t.call[d]
      BY <1>5, <2>2
    <3> QED
      BY <1>4, <2>2, <3>1
  <2> QED
    BY <2>1, <2>2
<1>8. \A d \in Calls : SameLife(run.call[d].stage, u.call[d].stage)
  BY <1>2, <1>6, <1>7 DEF Like, SameLife
<1>9. Shaped(u)
  BY <1>2, <1>3, <1>5, <1>7 DEF Shaped, Like
<1>10. Like(run, u)
  BY <1>2, <1>3, <1>5, <1>7, <1>8, <1>9 DEF Like
<1> QED
  BY <1>1, <1>10, LikeStep

\* A question parked: handed to a wait of the caller, told to a caller woken
\* for it, or orphaned.
LEMMA ParkKeeps ==
  ASSUME NEW c \in Calls, Sound(run, Lead), Park(c)
  PROVE  Sound(run', Lead)
<1> DEFINE k == run.call[c].owner
           asks == [run EXCEPT !.call[c].q = "put"]
           rearmed == Rearmed(asks, {c})
           s == Blocked(rearmed, run.call[c].conv)
           t == Collectable(s, {c})
<1>1. run' = IF run.call[c].mode = "fire" THEN Orphaned(s, {c})
             ELSE IF Live(t, k) THEN HandedToWaiter(t, c)
             ELSE IF WakeOf(t, k, {c}, {}) = "none" THEN Orphaned(t, {c})
             ELSE Woken(t, k, {c}, {})
  BY DEF Park, Becomes
<1>2. Like(run, asks)
  <2>1. /\ DOMAIN asks = Parts /\ asks.made = run.made /\ asks.wait = run.wait /\ asks.heard = run.heard
        /\ asks.lead = run.lead /\ asks.book = run.book /\ DOMAIN asks.call = Calls
    BY DEF Sound, Shaped, Parts
  <2>2. ASSUME NEW d \in Calls
        PROVE  /\ DOMAIN asks.call[d] = Fields
               /\ asks.call[d].mode = run.call[d].mode /\ asks.call[d].owner = run.call[d].owner
               /\ asks.call[d].conv = run.call[d].conv /\ asks.call[d].madeIn = run.call[d].madeIn
               /\ asks.call[d].stage = run.call[d].stage
    BY DEF Sound, Shaped, Parts, Fields
  <2> HIDE DEF asks
  <2> QED
    BY <2>1, <2>2, CallsMoved DEF Sound, SameLife
<1> HIDE DEF asks
<1>3. Like(asks, rearmed) /\ Shaped(rearmed)
  BY <1>2, RearmedLike DEF Like
<1> HIDE DEF rearmed
<1>4. Like(rearmed, s) /\ Shaped(s)
  BY <1>3, BlockedLike DEF Like
<1> HIDE DEF s
<1>5. Like(run, s)
  BY <1>2, <1>3, <1>4, LikeInTurn
<1>6. Sound(s, Lead)
  BY <1>5, LikeSound
<1>7. IsOpen(s, c) /\ s.call[c].mode = run.call[c].mode /\ s.call[c].owner = k
  <2>1. run.call[c].stage = "turn"
    BY DEF Park
  <2> QED
    BY <1>5, <2>1 DEF Like, SameLife, IsOpen
<1>8. k \in Convs
  <2>1. CallMade(s, c) /\ IsMade(s, c)
    BY <1>6, <1>7 DEF Sound, IsOpen, IsMade
  <2> QED
    BY <1>7, <2>1 DEF CallMade
<1>9. CASE run.call[c].mode = "fire"
  <2>1. run' = Orphaned(s, {c})
    BY <1>1, <1>9
  <2> QED
    BY <1>4, <1>6, <2>1, OrphanedLike, LikeSound
<1>10. CASE run.call[c].mode # "fire" /\ Live(t, k)
  <2>1. run' = HandedToWaiter(t, c)
    BY <1>1, <1>10
  <2> QED
    BY <1>6, <1>7, <1>10, <2>1, HandedToWaiterSound
<1>11. CASE run.call[c].mode # "fire" /\ ~Live(t, k)
  <2>1. t.call = s.call /\ t.lead = s.lead /\ Shaped(t)
    BY <1>4, CollectableFields
  <2> HIDE DEF t
  <2>2. ~Live(s, s.call[c].owner)
    BY <1>7, <1>11, <2>1 DEF Live, CallsOn, Active
  <2>3. \A w \in Requests : s.wait[w].how = "sync" => c \notin s.wait[w].on
    BY <1>6, <2>2, NoSyncWaitUnlessLive
  <2>4. Sound(t, Lead)
    BY <1>6, <1>7, <1>11, <2>3, CollectableSound DEF t
  <2>5. run' = Orphaned(t, {c}) \/ run' = Woken(t, k, {c}, {})
    BY <1>1, <1>11
  <2>6. Sound(Orphaned(t, {c}), Lead)
    BY <2>1, <2>4, OrphanedLike, LikeSound
  <2>7. Sound(Woken(t, k, {c}, {}), Lead)
    BY <1>8, <2>4, WokenSound
  <2> QED
    BY <2>5, <2>6, <2>7
<1> QED
  BY <1>9, <1>10, <1>11

\* A question's clock runs out.
LEMMA ExpireQuestionKeeps ==
  ASSUME NEW c \in Calls, Sound(run, Lead), ExpireQuestion(c)
  PROVE  Sound(run', Lead)
BY FailedParkedLike, LikeStep DEF ExpireQuestion, Becomes, Sound

\* A queued call starts.
LEMMA AdmitKeeps ==
  ASSUME NEW c \in Calls, Sound(run, Lead), Admit(c)
  PROVE  Sound(run', Lead)
BY AtLike, LikeStep DEF Admit, Becomes, Sound

\* A call moves on within its life, and may leave its turn: nobody waits in it.
LEMMA LeftTurnSound ==
  ASSUME NEW s, Sound(s, Lead), NEW c \in Calls, IsOpen(s, c), NobodyWaitsFrom(s, c), NEW t, Shaped(t),
         t.made = s.made, t.heard = s.heard, t.lead = s.lead, t.wait = s.wait, t.book = s.book,
         \A d \in Calls : /\ t.call[d].mode = s.call[d].mode /\ t.call[d].owner = s.call[d].owner
                          /\ t.call[d].conv = s.call[d].conv /\ t.call[d].madeIn = s.call[d].madeIn
                          /\ d # c => t.call[d].stage = s.call[d].stage,
         IsOpen(t, c)
  PROVE  Sound(t, Lead) /\ Keeps(s, t)
<1>1. \A d \in Calls : /\ IsMade(s, d) <=> IsMade(t, d)
                       /\ Owed(s, d) <=> Owed(t, d)
                       /\ IsOpen(t, d) <=> IsOpen(s, d)
                       /\ Pending(s, Lead, d) <=> Pending(t, Lead, d)
                       /\ t.call[d].stage = "done" <=> s.call[d].stage = "done"
  BY DEF IsMade, IsOpen, Owed, Pending
<1>2. \A w \in Requests, d \in Calls : SyncOn(s, w, d) => SyncOn(t, w, d)
  BY DEF SyncOn
<1>3. ASSUME NEW w \in Requests, NEW d \in Calls, SyncOn(s, w, d), CallerWorks(s, d)
      PROVE  CallerWorks(t, d)
  <2>1. s.call[d].owner # Lead => s.call[d].madeIn # c
    BY <1>3 DEF SyncOn, NobodyWaitsFrom
  <2> QED
    BY <1>3, <2>1 DEF CallerWorks
<1>4. ASSUME NEW d \in Calls PROVE CallMade(t, d)
  <2>1. CallMade(s, d)
    BY DEF Sound
  <2>2. s.call[d].owner \in Convs /\ s.call[d].owner # Lead => s.call[d].owner \in Calls
    BY DEF Convs
  <2>3. \A e \in Calls : IsMade(s, e) <=> IsMade(t, e)
    BY <1>1
  <2> QED
    BY <2>1, <2>2, <2>3 DEF CallMade
<1>5. ASSUME NEW d \in Calls PROVE CallTallied(t, Lead, d)
  <2>1. CallTallied(s, Lead, d)
    BY DEF Sound
  <2>2. (\E w \in Requests : SyncOn(s, w, d)) => (\E w \in Requests : SyncOn(t, w, d))
    BY <1>2
  <2> QED
    BY <1>1, <2>1, <2>2 DEF CallTallied
<1>6. ASSUME NEW w \in Requests PROVE WaitSound(t, Lead, w)
  <2>1. WaitSound(s, Lead, w) /\ \A d \in Calls : d # Lead
    BY DEF Sound, Calls, Lead
  <2>2. \A d \in Calls : SyncOn(s, w, d) /\ CallerWorks(s, d) => CallerWorks(t, d)
    BY <1>3
  <2> QED
    BY <1>1, <1>2, <2>1, <2>2 DEF WaitSound
<1>7. OnePerConv(t)
  BY <1>1 DEF Sound, OnePerConv
<1>8. OneSyncWait(t)
  BY DEF Sound, OneSyncWait
<1>9. Keeps(s, t)
  BY <1>1 DEF Keeps
<1> QED
  BY <1>4, <1>5, <1>6, <1>7, <1>8, <1>9 DEF Sound

\* A call leaves its turn for its last bookkeeping.
LEMMA AtSound ==
  ASSUME NEW s, Sound(s, Lead), NEW c \in Calls, IsOpen(s, c), NobodyWaitsFrom(s, c)
  PROVE  Sound(At(s, c, "noted"), Lead) /\ Keeps(s, At(s, c, "noted"))
<1> DEFINE t == At(s, c, "noted")
<1>1. /\ DOMAIN t = Parts /\ t.made = s.made /\ t.heard = s.heard /\ t.lead = s.lead /\ t.wait = s.wait
      /\ t.book = s.book /\ DOMAIN t.call = Calls
      /\ \A d \in Calls :
           /\ DOMAIN t.call[d] = Fields
           /\ t.call[d].mode = s.call[d].mode /\ t.call[d].owner = s.call[d].owner
           /\ t.call[d].conv = s.call[d].conv /\ t.call[d].madeIn = s.call[d].madeIn
           /\ t.call[d].stage = IF d = c THEN "noted" ELSE s.call[d].stage
  BY DEF Sound, Shaped, Parts, Fields, At
<1> HIDE DEF t
<1>2. Shaped(t) /\ IsOpen(t, c)
  BY <1>1 DEF Sound, Shaped, IsOpen
<1>3. Sound(t, Lead) /\ Keeps(s, t)
  BY <1>1, <1>2, LeftTurnSound
<1> QED
  BY <1>3 DEF t

\* The lead begins or ends a turn, with no wait of its own left at the end.
LEMMA LeadMovedSound ==
  ASSUME NEW s, Sound(s, Lead), NEW t, DOMAIN t = Parts, t.made = s.made, t.heard = s.heard,
         t.wait = s.wait, t.book = s.book, t.call = s.call,
         s.lead = "turn" =>
           t.lead = "turn" \/ (\A w \in Requests : s.wait[w].how = "sync" => s.wait[w].of # Lead)
  PROVE  Sound(t, Lead)
<1>1. \A d \in Calls : /\ IsMade(s, d) <=> IsMade(t, d)
                       /\ Owed(s, d) <=> Owed(t, d)
                       /\ IsOpen(t, d) <=> IsOpen(s, d)
                       /\ Pending(s, Lead, d) <=> Pending(t, Lead, d)
  BY DEF IsMade, IsOpen, Owed, Pending
<1>2. \A w \in Requests, d \in Calls : SyncOn(s, w, d) => SyncOn(t, w, d)
  BY DEF SyncOn
<1>3. ASSUME NEW w \in Requests, NEW d \in Calls, SyncOn(s, w, d), CallerWorks(s, d)
      PROVE  CallerWorks(t, d)
  <2>1. s.call[d].owner = Lead => s.wait[w].of = Lead /\ s.wait[w].how = "sync" /\ s.lead = "turn"
    BY <1>3 DEF SyncOn, CallerWorks
  <2> QED
    BY <1>3, <2>1 DEF CallerWorks
<1>4. ASSUME NEW d \in Calls PROVE CallMade(t, d)
  <2>1. CallMade(s, d)
    BY DEF Sound
  <2> QED
    BY <2>1 DEF CallMade, IsMade
<1>5. ASSUME NEW d \in Calls PROVE CallTallied(t, Lead, d)
  <2>1. CallTallied(s, Lead, d)
    BY DEF Sound
  <2>2. (\E w \in Requests : SyncOn(s, w, d)) => (\E w \in Requests : SyncOn(t, w, d))
    BY <1>2
  <2> QED
    BY <1>1, <2>1, <2>2 DEF CallTallied
<1>6. ASSUME NEW w \in Requests PROVE WaitSound(t, Lead, w)
  <2>1. WaitSound(s, Lead, w) /\ \A d \in Calls : d # Lead
    BY DEF Sound, Calls, Lead
  <2>2. \A d \in Calls : SyncOn(s, w, d) /\ CallerWorks(s, d) => CallerWorks(t, d)
    BY <1>3
  <2> QED
    BY <1>1, <1>2, <2>1, <2>2 DEF WaitSound
<1>7. OnePerConv(t) /\ OneSyncWait(t)
  BY DEF Sound, OnePerConv, OneSyncWait, IsOpen
<1>8. Shaped(t)
  BY DEF Sound, Shaped
<1> QED
  BY <1>4, <1>5, <1>6, <1>7, <1>8 DEF Sound

\* The end of a turn: every wait made in it is over.
LEMMA TurnDoneKeeps ==
  ASSUME NEW c \in Calls, Sound(run, Lead), TurnDone(c)
  PROVE  Sound(run', Lead)
<1> DEFINE W == {w \in Requests : ~Free(w) /\ run.wait[w].of = run.call[c].conv}
           s == Released(run, W)
           t == [At(s, c, "finishing") EXCEPT !.call[c].ended = TRUE]
<1>1. run' = t /\ run.call[c].stage = "turn"
  BY DEF TurnDone, Becomes
<1>2. /\ Sound(s, Lead) /\ s.call = run.call /\ s.lead = run.lead
      /\ \A w \in Requests : s.wait[w] = IF w \in W THEN NoWait ELSE run.wait[w]
  BY ReleasedSound
<1> HIDE DEF s
<1>3. ASSUME NEW w \in Requests, s.wait[w].how = "sync"
      PROVE  s.wait[w].of # run.call[c].conv
  <2>1. NoWait.how # "sync"
    BY DEF NoWait
  <2>2. w \notin W /\ s.wait[w] = run.wait[w]
    BY <1>2, <1>3, <2>1
  <2>3. ~Free(w)
    BY <1>3, <2>1, <2>2 DEF Free
  <2> QED
    BY <2>2, <2>3
<1>4. NobodyWaitsFrom(s, c)
  <2> SUFFICES ASSUME NEW w \in Requests, s.wait[w].how = "sync", NEW d \in s.wait[w].on, s.call[d].owner # Lead,
                      s.call[d].madeIn = c
               PROVE  FALSE
    BY DEF NobodyWaitsFrom
  <2>1. WaitSound(s, Lead, w) /\ \A e \in Calls : e # Lead
    BY <1>2 DEF Sound, Calls, Lead
  <2>2. SyncOn(s, w, d) /\ CallerWorks(s, d)
    BY <2>1 DEF WaitSound, SyncOn
  <2>3. s.call[c].conv = s.wait[w].of
    BY <2>2 DEF SyncOn, CallerWorks
  <2> QED
    BY <1>2, <1>3, <2>3
<1>5. DOMAIN s = Parts /\ DOMAIN s.call = Calls /\ \A d \in Calls : DOMAIN s.call[d] = Fields
  BY <1>2 DEF Sound, Shaped
<1>6. /\ DOMAIN t = Parts /\ t.made = s.made /\ t.heard = s.heard /\ t.lead = s.lead /\ t.wait = s.wait
      /\ t.book = s.book /\ DOMAIN t.call = Calls
      /\ \A d \in Calls :
           /\ DOMAIN t.call[d] = Fields
           /\ t.call[d].mode = s.call[d].mode /\ t.call[d].owner = s.call[d].owner
           /\ t.call[d].conv = s.call[d].conv /\ t.call[d].madeIn = s.call[d].madeIn
           /\ t.call[d].stage = IF d = c THEN "finishing" ELSE s.call[d].stage
  BY <1>5 DEF Parts, Fields, At
<1> HIDE DEF t
<1>7. Shaped(t) /\ IsOpen(t, c) /\ IsOpen(s, c)
  BY <1>1, <1>2, <1>6 DEF Sound, Shaped, IsOpen
<1>8. Sound(t, Lead)
  BY <1>2, <1>4, <1>6, <1>7, LeftTurnSound
<1> QED
  BY <1>1, <1>8

\* The drain at the end of a callee's turn.
LEMMA EndCalleeTurnKeeps ==
  ASSUME NEW c \in Calls, Sound(run, Lead), EndCalleeTurn(c)
  PROVE  Sound(run', Lead)
<1>1. Like(run, At(run, c, "sweeping"))
  BY AtLike DEF EndCalleeTurn, Sound
<1>2. run.call[c].conv \in Convs
  <2>1. CallMade(run, c) /\ IsMade(run, c)
    BY DEF EndCalleeTurn, IsMade, Sound
  <2> QED
    BY <2>1 DEF CallMade, Convs
<1> QED
  BY <1>1, <1>2, LikeSound, DrainedCallerSound DEF EndCalleeTurn, Becomes

\* A call moves on after steps that left it alone.
LEMMA MovedLike ==
  ASSUME NEW s, NEW t, Like(s, t), NEW c \in Calls, NEW stage,
         s.call[c].stage \notin {"unmade", "done", "turn"}, stage \notin {"unmade", "done"},
         NEW u, u = At(t, c, stage) \/ u = [At(t, c, stage) EXCEPT !.call[c].everHeld = TRUE]
  PROVE  Like(s, u) /\ u.call[c].stage = stage
<1>1. Shaped(t)
  BY DEF Like
<1>2. /\ DOMAIN u = Parts /\ u.made = t.made /\ u.heard = t.heard /\ u.lead = t.lead /\ u.wait = t.wait
      /\ u.book = t.book /\ DOMAIN u.call = Calls
  BY <1>1 DEF Shaped, Parts, At
<1>3. \A d \in Calls :
        /\ DOMAIN u.call[d] = Fields
        /\ u.call[d].mode = t.call[d].mode /\ u.call[d].owner = t.call[d].owner
        /\ u.call[d].conv = t.call[d].conv /\ u.call[d].madeIn = t.call[d].madeIn
        /\ u.call[d].stage = IF d = c THEN stage ELSE t.call[d].stage
  <2>1. CASE u = At(t, c, stage)
    BY <1>1, <2>1 DEF Shaped, Parts, Fields, At
  <2>2. CASE u = [At(t, c, stage) EXCEPT !.call[c].everHeld = TRUE]
    BY <1>1, <2>2 DEF Shaped, Parts, Fields, At
  <2> QED
    BY <2>1, <2>2
<1>4. Shaped(u)
  BY <1>1, <1>2, <1>3 DEF Shaped
<1>5. \A d \in Calls : SameLife(s.call[d].stage, u.call[d].stage)
  BY <1>3 DEF Like, SameLife
<1> QED
  BY <1>2, <1>3, <1>4, <1>5 DEF Like

\* A turn that was swept up: its call is held, or settles.
LEMMA SweptKeeps ==
  ASSUME NEW c \in Calls, Sound(run, Lead), Swept(c)
  PROVE  Sound(run', Lead)
<1> DEFINE t == Orphaned(run, {d \in AskedOf(run, run.call[c].conv) : run.call[d].q = "told"})
           h == [At(t, c, "held") EXCEPT !.call[c].everHeld = TRUE]
<1>1. run.call[c].stage = "sweeping"
      /\ (run' = HeldCall(c) \/ run' = At(run, c, "writing"))
  BY DEF Swept, Becomes
<1>2. HeldCall(c) = Reviewed(h, c) \/ HeldCall(c) = At(t, c, "writing")
  BY DEF HeldCall
<1>3. Like(run, At(run, c, "writing"))
  BY <1>1, AtLike DEF Sound
<1>4. Like(run, t)
  BY OrphanedLike DEF Sound
<1> HIDE DEF t
<1>5. Like(run, h) /\ h.call[c].stage = "held" /\ Like(run, At(t, c, "writing"))
  BY <1>1, <1>4, MovedLike
<1> HIDE DEF h
<1>6. Like(run, Reviewed(h, c))
  BY <1>5, ReviewedLike, LikeInTurn DEF Like
<1> QED
  BY <1>1, <1>2, <1>3, <1>5, <1>6, LikeStep

\* The last bookkeeping, with the settling behind it or before another task.
LEMMA WriteKeeps ==
  ASSUME NEW c \in Calls, Sound(run, Lead), Write(c)
  PROVE  Sound(run', Lead)
<1> DEFINE s == Noted(run, c)
<1>1. run.call[c].stage = "writing" /\ IsOpen(run, c) /\ IsMade(run, c)
  BY DEF Write, IsOpen, IsMade
<1>2. Sound(s, Lead) /\ Keeps(run, s)
  BY <1>1, NotedSound
<1>3. NobodyWaitsFrom(run, c)
  BY <1>1, NobodyWaitsUnlessTurn
<1>4. run' = At(s, c, "noted") \/ \E session, w : run' = Settled(s, c, session, w)
  BY DEF Write, Becomes
<1> HIDE DEF s
<1>5. IsOpen(s, c) /\ NobodyWaitsFrom(s, c)
  BY <1>1, <1>2, <1>3, NobodyStillWaits DEF Keeps
<1>6. Sound(At(s, c, "noted"), Lead)
  BY <1>2, <1>5, AtSound
<1> QED
  BY <1>2, <1>4, <1>5, <1>6, SettledSound

\* A call noted as settling settles.
LEMMA SettleKeeps ==
  ASSUME NEW c \in Calls, Sound(run, Lead), Settle(c)
  PROVE  Sound(run', Lead)
<1>1. IsOpen(run, c) /\ NobodyWaitsFrom(run, c)
  BY NobodyWaitsUnlessTurn DEF Settle, IsOpen
<1>2. \E session, w : run' = Settled(run, c, session, w)
  BY DEF Settle, Becomes
<1> QED
  BY <1>1, <1>2, SettledSound

\* A queued call that was stopped settles.
LEMMA QueuedStoppedKeeps ==
  ASSUME NEW c \in Calls, Sound(run, Lead), QueuedStopped(c)
  PROVE  Sound(run', Lead)
<1>1. IsOpen(run, c) /\ NobodyWaitsFrom(run, c)
  BY NobodyWaitsUnlessTurn DEF QueuedStopped, IsOpen
<1>2. \E w : run' = Settled(run, c, FALSE, w)
  BY DEF QueuedStopped, Becomes
<1> QED
  BY <1>1, <1>2, SettledSound

\* A call whose turn could not start drains its conversation and settles.
LEMMA StartFailsKeeps ==
  ASSUME NEW c \in Calls, Sound(run, Lead), StartFails(c)
  PROVE  Sound(run', Lead)
<1> DEFINE k == run.call[c].conv
           s == At(run, c, "noted")
           t == DrainedCaller(s, k)
<1>1. IsOpen(run, c) /\ IsMade(run, c)
  BY DEF StartFails, IsOpen, IsMade
<1>2. k \in Convs
  BY <1>1 DEF Sound, CallMade, Convs
<1>3. NobodyWaitsFrom(run, c)
  BY DEF StartFails, NobodyWaitsFrom, Sound, WaitSound
<1>4. Sound(s, Lead) /\ Keeps(run, s)
  BY <1>1, <1>3, AtSound
<1>5. \E w : run' = Settled(t, c, FALSE, w)
  BY DEF StartFails, Becomes
<1> HIDE DEF s, k
<1>6. Sound(t, Lead) /\ Keeps(s, t)
  BY <1>2, <1>4, DrainedCallerSound
<1> HIDE DEF t
<1>7. IsOpen(t, c) /\ NobodyWaitsFrom(t, c)
  <2>1. Keeps(run, t)
    BY <1>4, <1>6, KeepsInTurn
  <2> QED
    BY <1>1, <1>3, <2>1, NobodyStillWaits DEF Keeps
<1> QED
  BY <1>5, <1>6, <1>7, SettledSound

\* The lead's turn is over, and every wait made in it.
LEMMA LeadDoneKeeps ==
  ASSUME Sound(run, Lead), LeadDone
  PROVE  Sound(run', Lead)
<1> DEFINE W == {w \in Requests : ~Free(w) /\ run.wait[w].of = Lead}
           s == Released(run, W)
           t == [s EXCEPT !.lead = "finishing"]
<1>1. run' = t
  BY DEF LeadDone, Becomes
<1>2. /\ Sound(s, Lead)
      /\ \A w \in Requests : s.wait[w] = IF w \in W THEN NoWait ELSE run.wait[w]
  BY ReleasedSound
<1> HIDE DEF s
<1>3. ASSUME NEW w \in Requests, s.wait[w].how = "sync"
      PROVE  s.wait[w].of # Lead
  <2>1. NoWait.how # "sync"
    BY DEF NoWait
  <2>2. w \notin W /\ s.wait[w] = run.wait[w]
    BY <1>2, <1>3, <2>1
  <2>3. ~Free(w)
    BY <1>3, <2>1, <2>2 DEF Free
  <2> QED
    BY <2>2, <2>3
<1>4. /\ DOMAIN t = Parts /\ t.made = s.made /\ t.heard = s.heard /\ t.wait = s.wait
      /\ t.book = s.book /\ t.call = s.call
  BY <1>2 DEF Sound, Shaped, Parts
<1> HIDE DEF t
<1> QED
  BY <1>1, <1>2, <1>3, <1>4, LeadMovedSound

\* The lead's bookkeeping, its wakes and the user's messages.
LEMMA LeadTurnsKeep ==
  ASSUME Sound(run, Lead), EndLeadTurn \/ WakeLead \/ UserWrites
  PROVE  Sound(run', Lead)
<1>0. DOMAIN run = Parts
  BY DEF Sound, Shaped
<1>1. CASE EndLeadTurn
  <2> DEFINE t == [run EXCEPT !.lead = "idle"]
  <2>1. run' = DrainedCaller(t, Lead) /\ run.lead = "finishing"
    BY <1>1 DEF EndLeadTurn, Becomes
  <2>2. /\ DOMAIN t = Parts /\ t.made = run.made /\ t.heard = run.heard /\ t.wait = run.wait
        /\ t.book = run.book /\ t.call = run.call
    BY <1>0 DEF Parts
  <2> HIDE DEF t
  <2>3. Sound(t, Lead)
    BY <2>1, <2>2, LeadMovedSound
  <2> QED
    BY <2>1, <2>3, DrainedCallerSound DEF Convs
<1>2. CASE WakeLead \/ UserWrites
  <2>1. /\ DOMAIN run' = Parts /\ run'.made = run.made /\ run'.heard = run.heard
        /\ run'.wait = run.wait /\ run'.book = run.book /\ run'.call = run.call
        /\ (run.lead = "turn" => run'.lead = "turn")
    <3>1. \/ run' = [run EXCEPT !.wake = FALSE, !.lead = "turn"] /\ run.lead = "idle"
          \/ run' = [run EXCEPT !.wake = FALSE]
          \/ run' = [run EXCEPT !.lead = "turn"] /\ run.lead = "idle"
      BY <1>2 DEF WakeLead, UserWrites, Becomes
    <3>2. CASE run' = [run EXCEPT !.wake = FALSE, !.lead = "turn"] /\ run.lead = "idle"
      BY <1>0, <3>2 DEF Parts
    <3>3. CASE run' = [run EXCEPT !.wake = FALSE]
      BY <1>0, <3>3 DEF Parts
    <3>4. CASE run' = [run EXCEPT !.lead = "turn"] /\ run.lead = "idle"
      BY <1>0, <3>4 DEF Parts
    <3> QED
      BY <3>1, <3>2, <3>3, <3>4
  <2> QED
    BY <2>1, LeadMovedSound
<1> QED
  BY <1>1, <1>2

\* The stop of the run settles what is held.
LEMMA StopRunKeeps ==
  ASSUME Sound(run, Lead), StopRun
  PROVE  Sound(run', Lead)
<1> DEFINE s == [run EXCEPT !.over = TRUE]
           held == {c \in Calls : run.call[c].stage = "held"}
<1>1. run' = Settling(s, held)
  BY DEF StopRun, Becomes
<1>2. /\ DOMAIN s = Parts /\ s.made = run.made /\ s.heard = run.heard /\ s.wait = run.wait
      /\ s.book = run.book /\ s.call = run.call /\ s.lead = run.lead
  BY DEF Sound, Shaped, Parts
<1> HIDE DEF s
<1>3. Like(run, s)
  BY <1>2 DEF Sound, Shaped, Like, SameLife
<1>4. \A c \in Calls \cap held : s.call[c].stage \in {"held", "writing"}
  BY <1>2
<1> HIDE DEF held
<1>5. Like(s, Settling(s, held))
  BY <1>3, <1>4, SettlingLike DEF Like
<1> QED
  BY <1>1, <1>3, <1>5, LikeInTurn, LikeStep

-----------------------------------------------------------------------------
(* The theorem.                                                              *)

\* Nothing is called at first.
LEMMA InitIsSound == Init => Sound(run, Lead)
<1> SUFFICES ASSUME Init PROVE Sound(run, Lead)
  OBVIOUS
<1>1. run = NewRun
  BY DEF Init
<1>2. /\ DOMAIN run = Parts /\ run.made = 0 /\ DOMAIN run.call = Calls /\ DOMAIN run.book = Calls
      /\ DOMAIN run.heard = Calls /\ DOMAIN run.wait = Requests
      /\ \A c \in Calls : run.call[c] = NoCall /\ run.book[c] = "no" /\ run.heard[c] = 0
      /\ \A w \in Requests : run.wait[w] = NoWait
  BY <1>1 DEF NewRun, Parts
<1>3. DOMAIN NoCall = Fields /\ NoCall.stage = "unmade" /\ NoCall.conv = Lead /\ NoCall.mode = "async"
  BY DEF NoCall, Fields
<1>4. DOMAIN NoWait = {"of", "how", "on"} /\ NoWait.how # "sync" /\ NoWait.on = {}
  BY DEF NoWait
<1>5. Shaped(run)
  BY <1>2, <1>3, <1>4 DEF Shaped
<1>6. \A c \in Calls : ~(c <= 0) /\ c # Lead
  BY DEF Calls, Lead
<1>7. \A c \in Calls : CallMade(run, c)
  BY <1>2, <1>3, <1>6 DEF CallMade, IsMade
<1>8. \A c \in Calls : CallTallied(run, Lead, c)
  BY <1>2, <1>3, <1>6 DEF CallTallied, Owed, IsMade, Pending, IsOpen
<1>9. \A w \in Requests : WaitSound(run, Lead, w)
  BY <1>2, <1>4 DEF WaitSound
<1>10. OnePerConv(run) /\ OneSyncWait(run)
  BY <1>2, <1>3, <1>4 DEF OnePerConv, OneSyncWait, IsOpen
<1> QED
  BY <1>2, <1>5, <1>7, <1>8, <1>9, <1>10 DEF Sound

\* Every step keeps the book sound.
LEMMA NextKeepsSound ==
  ASSUME Sound(run, Lead), [Next]_vars
  PROVE  Sound(run', Lead)
<1>1. CASE UNCHANGED vars
  BY <1>1 DEF vars
<1>2. ASSUME NEW c \in Calls, Settle(c) \/ QueuedStopped(c) \/ EndCalleeTurn(c)
      PROVE  Sound(run', Lead)
  BY <1>2, SettleKeeps, QueuedStoppedKeeps, EndCalleeTurnKeeps
<1>3. ASSUME NEW c \in Calls, CallLives(c)
      PROVE  Sound(run', Lead)
  BY <1>3, ParkKeeps, ExpireQuestionKeeps, AdmitKeeps, TurnDoneKeeps, SweptKeeps, WriteKeeps, StartFailsKeeps
     DEF CallLives
<1>4. ASSUME NEW k \in Convs, AgentActs(k)
      PROVE  Sound(run', Lead)
  BY <1>4, CallAgentKeeps, AwaitAnyKeeps, AwaitAgentKeeps, AnswerAgentKeeps, CancelAgentKeeps DEF AgentActs
<1>5. ASSUME NEW w \in Requests, WaitLetGo(w)
      PROVE  Sound(run', Lead)
  BY <1>5, WaitLetGoKeeps
<1>6. CASE EndLeadTurn \/ LeadDone \/ WakeLead \/ UserWrites \/ StopRun
  BY <1>6, LeadTurnsKeep, LeadDoneKeeps, StopRunKeeps
<1> QED
  BY <1>1, <1>2, <1>3, <1>4, <1>5, <1>6 DEF Next

\* A result somebody is owed is still to collect or was handed over once,
\* never both and never neither, whatever took a wait away: the broker's book
\* and its waits agree in every state of every run.
THEOREM ResultsAreTallied == Spec => []ResultsArriveOnce
<1>1. Init => Sound(run, Lead)
  BY InitIsSound
<1>2. Sound(run, Lead) /\ [Next]_vars => Sound(run, Lead)'
  <2>1. Sound(run, Lead) /\ [Next]_vars => Sound(run', Lead)
    BY NextKeepsSound
  <2> QED
    BY <2>1
<1>3. Sound(run, Lead) => ResultsArriveOnce
  <2> SUFFICES ASSUME Sound(run, Lead), NEW c \in Calls
               PROVE  /\ run.heard[c] <= 1
                      /\ run.call[c].stage = "done" /\ run.call[c].mode # "fire" =>
                           (run.heard[c] = 1) = (run.book[c] = "no")
    BY DEF ResultsArriveOnce
  <2>1. CallTallied(run, Lead, c) /\ c # Lead
    BY DEF Sound, Calls, Lead
  <2>2. run.heard[c] <= 1
    BY <2>1 DEF CallTallied
  <2>3. run.call[c].stage = "done" /\ run.call[c].mode # "fire" =>
          (run.heard[c] = 1 <=> run.book[c] = "no")
    BY <2>1 DEF CallTallied
  <2> QED
    BY <2>2, <2>3
<1> QED
  BY <1>1, <1>2, <1>3, PTL DEF Spec
=============================================================================
