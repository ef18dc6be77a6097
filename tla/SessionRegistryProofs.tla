----------------------- MODULE SessionRegistryProofs -----------------------
(***************************************************************************)
(* Theorems about the kept-session registry, for every set of keys, runs   *)
(* and processes, every ceiling and every idle window: type correctness,   *)
(* then the safety properties and what a step may never do, from one       *)
(* inductive invariant over what each process is, whether it is kept or    *)
(* closing, its idle window, and what was announced of it.                 *)
(***************************************************************************)
EXTENDS SessionRegistry, FiniteSetTheorems, TLAPS

-----------------------------------------------------------------------------
(* What a process is stays a process under each operation of CliSession.   *)

\* An unused slot for a process is well-typed.
LEMMA FreeProcType == FreeProc \in Proc
BY DEF FreeProc, Proc, ProcStates, ShellKinds, Causes

\* A spawned process is well-typed.
LEMMA SpawnedType ==
  ASSUME NEW scoped \in BOOLEAN, NEW ok \in BOOLEAN
  PROVE  Spawned(scoped, ok) \in Proc
BY DEF Spawned, FreeProc, Proc, ProcStates, ShellKinds, Causes

\* A process given a turn is well-typed.
LEMMA WithTurnType == ASSUME NEW p \in Proc PROVE WithTurn(p) \in Proc
BY DEF WithTurn, Proc, ProcStates, ShellKinds, Causes

\* A signalled process is well-typed.
LEMMA SignalledType == ASSUME NEW p \in Proc PROVE Signalled(p) \in Proc
BY DEF Signalled, Proc, ProcStates, ShellKinds, Causes

\* A closed process is well-typed.
LEMMA ClosedType ==
  ASSUME NEW p \in Proc, NEW cause \in Causes
  PROVE  Closed(p, cause) \in Proc
<1> DEFINE q == [p EXCEPT !.cancelling = p.turn, !.cause = IF @ = "none" THEN cause ELSE @]
<1>1. q \in Proc
  BY DEF Proc, ProcStates, ShellKinds, Causes
<1>2. Signalled(q) \in Proc
  BY <1>1, SignalledType
<1> QED
  BY <1>2 DEF Closed

\* A gracefully closed process is well-typed.
LEMMA GracefullyClosedType == ASSUME NEW p \in Proc PROVE GracefullyClosed(p) \in Proc
BY DEF GracefullyClosed, Proc, ProcStates, ShellKinds, Causes

\* A process whose turn has settled is well-typed.
LEMMA TurnSettledType ==
  ASSUME NEW p \in Proc, NEW forced \in BOOLEAN, NEW parked \in BOOLEAN
  PROVE  TurnSettled(p, forced, parked) \in Proc
BY DEF TurnSettled, Proc, ProcStates, ShellKinds, Causes

\* Two stale marks merge into a stale mark.
LEMMA MergeStaleType ==
  ASSUME NEW mark \in Mark, NEW cause \in StaleCauses, NEW same \in BOOLEAN
  PROVE  MergeStale(mark, cause, same) \in Mark
BY DEF MergeStale, Mark

\* Ages grow up to the cap and no further.
LEMMA OlderType == ASSUME NEW age \in Ages PROVE Older(age) \in Ages
BY TimeAssumption DEF Older, Ages

\* The ends of the scale of ages are ages.
LEMMA AgeFacts == 0 \in Ages /\ MaxWindow \in Ages
BY TimeAssumption DEF Ages
-----------------------------------------------------------------------------
(* The operators that close entries.                                       *)

\* Telling the onClosed listeners keeps the notices typed.
LEMMA NoticesType ==
  ASSUME TypeOK, NEW C \in SUBSET Sessions
  PROVE  NoticesWith(C) \in [Sessions -> Notices]
BY DEF NoticesWith, NotifyClosed, TypeOK, Notices

\* A close adds notes of stopped commands to those a run is owed.
LEMMA OwedType ==
  ASSUME TypeOK, NEW C \in SUBSET Sessions
  PROVE  OwedWith(C) \in [Keys -> Notes]
<1> SUFFICES ASSUME NEW k \in Keys PROVE OwedWith(C)[k] \in Notes
  BY DEF OwedWith
<1>1. owed[k] \in Notes
  BY DEF TypeOK
<1>2. {s \in C : owner[s] = k /\ proc[s].shells = "detached"} \subseteq Sessions
  OBVIOUS
<1> QED
  BY <1>1, <1>2 DEF OwedWith, Notes

\* A turn that is started carries away the notes its run was owed.
LEMMA ToldType ==
  ASSUME NEW notes \in [Keys -> Notes], NEW k \in Keys, NEW carried \in BOOLEAN
  PROVE  Told(notes, k, carried) \in [Keys -> Notes]
<1> SUFFICES ASSUME NEW x \in Keys PROVE Told(notes, k, carried)[x] \in Notes
  BY DEF Told
<1>1. notes[x] \in Notes
  OBVIOUS
<1> QED
  BY <1>1 DEF Told, Notes

\* Closing several processes at once keeps each typed.
LEMMA ProcsClosingType ==
  ASSUME TypeOK, NEW C \in SUBSET Sessions, NEW cause \in Causes
  PROVE  ProcsClosing(C, cause) \in [Sessions -> Proc]
BY ClosedType DEF ProcsClosing, TypeOK

\* Removing entries keeps the map and the timers typed.
LEMMA EntriesType ==
  ASSUME TypeOK, NEW C \in SUBSET Sessions
  PROVE  /\ EntriesWithout(C) \in [Keys -> Sessions \cup {NoSession}]
         /\ TimersWithout(C) \in [Sessions -> Ages \cup {NoTimer}]
BY DEF EntriesWithout, TimersWithout, TypeOK

\* A use resets the age of one run.
LEMMA UsedNowType ==
  ASSUME TypeOK, NEW k \in Keys
  PROVE  UsedNow(k) \in [Runs -> Ages]
BY AgeFacts DEF UsedNow, TypeOK

\* A touch restarts the windows of one key.
LEMMA TouchType ==
  ASSUME TypeOK, NEW k \in Keys, TouchOffTurn(k)
  PROVE  /\ used' \in [Sessions -> Ages] /\ off' \in [Sessions -> Ages]
         /\ timer' \in [Sessions -> Ages \cup {NoTimer}]
         /\ runUsed' \in [Runs -> Ages]
BY AgeFacts, UsedNowType DEF TouchOffTurn, TypeOK
-----------------------------------------------------------------------------
(* Type correctness.                                                       *)

\* The initial state is well-typed.
LEMMA InitType == Init => TypeOK
<1> SUFFICES ASSUME Init PROVE TypeOK
  OBVIOUS
<1>1. (CHOOSE k \in Keys : TRUE) \in Keys
  BY KeysAssumption
<1>2. NoMark \in Mark /\ NoNotes \in Notes
  BY DEF NoMark, Mark, StaleCauses, NoNotes, Notes
<1>3. 0 \in Notices
  BY DEF Notices
<1> QED
  BY <1>1, <1>2, <1>3, FreeProcType, AgeFacts DEF Init, TypeOK

\* The steps that run turns keep the types.
LEMMA TurnsType == TypeOK /\ Turns => TypeOK'
<1> SUFFICES ASSUME TypeOK, Turns PROVE TypeOK'
  OBVIOUS
<1> USE DEF entryVars, closeVars
<1>1. ASSUME NEW k \in Keys, NEW carry \in BOOLEAN, ReuseTurn(k, carry) PROVE TypeOK'
  <2>1. PICK s \in Registered :
          /\ stale' = IF stale[s].cause # "none" /\ ~stale[s].told
                      THEN [stale EXCEPT ![s] = [@ EXCEPT !.rowWritten = TRUE, !.told = carry]]
                      ELSE stale
          /\ proc' = [proc EXCEPT ![s] = WithTurn(@)]
          /\ timer' = [timer EXCEPT ![s] = NoTimer]
    BY <1>1 DEF ReuseTurn
  <2>2. s \in Sessions
    BY DEF Registered
  <2>3. proc' \in [Sessions -> Proc]
    BY <2>1, <2>2, WithTurnType DEF TypeOK
  <2>4. stale' \in [Sessions -> Mark]
    <3>1. [stale[s] EXCEPT !.rowWritten = TRUE, !.told = carry] \in Mark
      BY <2>2 DEF TypeOK, Mark
    <3> QED
      BY <2>1, <2>2, <3>1 DEF TypeOK
  <2>5. timer' \in [Sessions -> Ages \cup {NoTimer}]
    BY <2>1, <2>2 DEF TypeOK
  <2>6. owed' \in [Keys -> Notes]
    BY <1>1, ToldType DEF ReuseTurn, TypeOK
  <2>7. runUsed' \in [Runs -> Ages]
    BY <1>1, UsedNowType DEF ReuseTurn
  <2> QED
    BY <1>1, <2>3, <2>4, <2>5, <2>6, <2>7 DEF ReuseTurn, TypeOK
<1>2. ASSUME NEW k \in Keys, NEW s \in Sessions, NEW carry \in BOOLEAN, NEW ok \in BOOLEAN,
             SpawnTurn(k, s, carry, ok)
      PROVE  TypeOK'
  <2> DEFINE kept == {e \in Registered : owner[e] = k}
             Closing(V) == kept \cup {e \in Registered : Unusable(e)} \cup V
  <2>1. PICK V \in Victims({e \in Registered : owner[e] # k}) :
          /\ entries' = [EntriesWithout(Closing(V)) EXCEPT ![k] = s]
          /\ timer' = [TimersWithout(Closing(V)) EXCEPT ![s] = NoTimer]
          /\ proc' = [x \in Sessions |->
                     IF x = s THEN Spawned(~shuttingDown, ok)
                     ELSE IF x \in kept THEN Closed([proc[x] EXCEPT !.cause = "none"], "none")
                     ELSE IF x \in Closing(V) THEN Closed(proc[x], "none") ELSE proc[x]]
          /\ notice' = [NoticesWith(Closing(V)) EXCEPT ![s] = 0]
          /\ owed' = Told(OwedWith(Closing(V)), k, carry /\ ok)
    BY <1>2 DEF SpawnTurn
  <2> DEFINE C == Closing(V)
  <2>2. C \in SUBSET Sessions
    BY DEF Registered, Victims
  <2> HIDE DEF C, Closing
  <2>3. entries' \in [Keys -> Sessions \cup {NoSession}] /\ timer' \in [Sessions -> Ages \cup {NoTimer}]
    BY <2>1, <2>2, EntriesType DEF C
  <2>4. proc' \in [Sessions -> Proc]
    <3> SUFFICES ASSUME NEW x \in Sessions PROVE proc'[x] \in Proc
      BY <2>1
    <3>1. proc[x] \in Proc /\ "none" \in Causes
      BY DEF TypeOK, Causes
    <3>2. [proc[x] EXCEPT !.cause = "none"] \in Proc
      BY <3>1 DEF Proc
    <3>3. Spawned(~shuttingDown, ok) \in Proc
      BY SpawnedType DEF TypeOK
    <3>4. Closed(proc[x], "none") \in Proc
      BY <3>1, ClosedType
    <3>5. Closed([proc[x] EXCEPT !.cause = "none"], "none") \in Proc
      BY <3>1, <3>2, ClosedType
    <3> QED
      BY <2>1, <3>1, <3>3, <3>4, <3>5
  <2>5. notice' \in [Sessions -> Notices]
    BY <2>1, <2>2, NoticesType DEF C, Notices
  <2>6. owed' \in [Keys -> Notes]
    <3>1. OwedWith(C) \in [Keys -> Notes] /\ (carry /\ ok) \in BOOLEAN
      BY <2>2, OwedType
    <3> QED
      BY <2>1, <3>1, ToldType DEF C
  <2>7. NoMark \in Mark
    BY DEF NoMark, Mark, StaleCauses
  <2>8. runUsed' \in [Runs -> Ages]
    BY <1>2, UsedNowType DEF SpawnTurn
  <2> QED
    BY <1>2, <2>3, <2>4, <2>5, <2>6, <2>7, <2>8, AgeFacts DEF SpawnTurn, TypeOK
<1>3. ASSUME NEW s \in Sessions, NEW forced \in BOOLEAN, NEW parked \in BOOLEAN,
             SettleTurn(s, forced, parked)
      PROVE  TypeOK'
  <2>1. proc' \in [Sessions -> Proc]
    BY <1>3, TurnSettledType DEF SettleTurn, TypeOK
  <2>2. owner[s] \in Keys
    BY DEF TypeOK
  <2>3. /\ used' \in [Sessions -> Ages] /\ timer' \in [Sessions -> Ages \cup {NoTimer}]
        /\ runUsed' \in [Runs -> Ages]
    BY <1>3, <2>2, AgeFacts, UsedNowType DEF SettleTurn, TypeOK
  <2> QED
    BY <1>3, <2>1, <2>3 DEF SettleTurn, TypeOK
<1>4. ASSUME NEW s \in Sessions, FinishOneTurn(s) PROVE TypeOK'
  <2>1. proc' \in [Sessions -> Proc]
    BY <1>4 DEF FinishOneTurn, TypeOK, Proc, ProcStates
  <2> QED
    BY <1>4, <2>1 DEF FinishOneTurn, TypeOK
<1>5. ASSUME NEW s \in Sessions, CancelTurn(s) PROVE TypeOK'
  <2>0. proc[s] \in Proc
    BY DEF TypeOK
  <2>1. [proc[s] EXCEPT !.cancelling = TRUE] \in Proc
    BY <2>0 DEF Proc
  <2>2. proc' \in [Sessions -> Proc]
    BY <1>5, <2>1, SignalledType DEF CancelTurn, TypeOK
  <2> QED
    BY <1>5, <2>2 DEF CancelTurn, TypeOK
<1>6. ASSUME NEW s \in Sessions, InterruptDeadline(s) PROVE TypeOK'
  <2>1. proc' \in [Sessions -> Proc]
    BY <1>6, SignalledType DEF InterruptDeadline, TypeOK
  <2> QED
    BY <1>6, <2>1 DEF InterruptDeadline, TypeOK
<1> QED
  BY <1>1, <1>2, <1>3, <1>4, <1>5, <1>6 DEF Turns

\* So do the steps a process takes by itself.
LEMMA ProcessesType == TypeOK /\ Processes => TypeOK'
<1> SUFFICES ASSUME TypeOK, Processes PROVE TypeOK'
  OBVIOUS
<1> USE DEF entryVars, closeVars
<1>1. ASSUME NEW s \in Sessions, OffTurnRow(s) PROVE TypeOK'
  <2>1. owner[s] \in Keys /\ TouchOffTurn(owner[s])
    BY <1>1 DEF TypeOK, OffTurnRow
  <2>2. /\ used' \in [Sessions -> Ages] /\ off' \in [Sessions -> Ages]
        /\ timer' \in [Sessions -> Ages \cup {NoTimer}]
        /\ runUsed' \in [Runs -> Ages]
    BY <2>1, TouchType
  <2> QED
    BY <1>1, <2>2, AgeFacts DEF OffTurnRow, TypeOK
<1>2. ASSUME NEW s \in Sessions, NEW shown \in BOOLEAN, Park(s, shown) PROVE TypeOK'
  <2>1. proc[s] \in Proc /\ owner[s] \in Keys
    BY DEF TypeOK
  <2>2. [proc[s] EXCEPT !.parked = ~proc[s].parked] \in Proc
    BY <2>1 DEF Proc
  <2>3. proc' \in [Sessions -> Proc]
    BY <1>2, <2>2 DEF Park, TypeOK
  <2>4. /\ used' \in [Sessions -> Ages] /\ off' \in [Sessions -> Ages]
        /\ timer' \in [Sessions -> Ages \cup {NoTimer}]
        /\ runUsed' \in [Runs -> Ages]
    <3>1. CASE shown
      <4>1. TouchOffTurn(owner[s])
        BY <1>2, <3>1 DEF Park
      <4> QED
        BY <4>1, <2>1, TouchType
    <3>2. CASE ~shown
      BY <1>2, <3>2 DEF Park, TypeOK
    <3> QED
      BY <3>1, <3>2
  <2> QED
    BY <1>2, <2>3, <2>4 DEF Park, TypeOK
<1>3. ASSUME NEW s \in Sessions, NEW kind \in ShellKinds, ShellsChange(s, kind) PROVE TypeOK'
  <2>1. proc[s] \in Proc /\ owner[s] \in Keys
    BY DEF TypeOK
  <2>2. [proc[s] EXCEPT !.shells = kind] \in Proc
    BY <2>1 DEF Proc
  <2>3. proc' \in [Sessions -> Proc]
    BY <1>3, <2>2 DEF ShellsChange, TypeOK
  <2>4. /\ used' \in [Sessions -> Ages] /\ off' \in [Sessions -> Ages]
        /\ timer' \in [Sessions -> Ages \cup {NoTimer}]
        /\ runUsed' \in [Runs -> Ages]
    <3>1. CASE ~proc[s].turn /\ "detached" \in {kind, proc[s].shells}
      <4>1. TouchOffTurn(owner[s])
        BY <1>3, <3>1 DEF ShellsChange
      <4> QED
        BY <4>1, <2>1, TouchType
    <3>2. CASE ~(~proc[s].turn /\ "detached" \in {kind, proc[s].shells})
      BY <1>3, <3>2 DEF ShellsChange, TypeOK
    <3> QED
      BY <3>1, <3>2
  <2> QED
    BY <1>3, <2>3, <2>4 DEF ShellsChange, TypeOK
<1>4. ASSUME NEW s \in Sessions, ExitDeadline(s) PROVE TypeOK'
  <2>1. proc' \in [Sessions -> Proc]
    BY <1>4, SignalledType DEF ExitDeadline, TypeOK
  <2> QED
    BY <1>4, <2>1 DEF ExitDeadline, TypeOK
<1>5. ASSUME NEW s \in Sessions, Exit(s) PROVE TypeOK'
  <2>1. [proc[s] EXCEPT !.state = "exited"] \in Proc
    BY DEF TypeOK, Proc, ProcStates
  <2>2. proc' \in [Sessions -> Proc]
    BY <1>5, <2>1 DEF Exit, TypeOK
  <2> QED
    BY <1>5, <2>2 DEF Exit, TypeOK
<1>6. ASSUME NEW s \in Sessions, Ended(s) PROVE TypeOK'
  <2>1. proc' \in [Sessions -> Proc]
    BY <1>6, FreeProcType DEF Ended, TypeOK
  <2>2. stale' \in [Sessions -> Mark]
    BY <1>6 DEF Ended, TypeOK, NoMark, Mark, StaleCauses
  <2>3. /\ used' \in [Sessions -> Ages] /\ off' \in [Sessions -> Ages]
        /\ timer' \in [Sessions -> Ages \cup {NoTimer}]
    BY <1>6, AgeFacts DEF Ended, TypeOK
  <2>4. owner[s] \in Keys
    BY DEF TypeOK
  <2>5. runUsed' \in [Runs -> Ages]
    <3> DEFINE touched == IF proc[s].shells # "none" /\ ~proc[s].turn THEN Touched(owner[s]) ELSE {}
               uses == IF touched = {} THEN runUsed ELSE UsedNow(owner[s])
               run == RunOf[owner[s]]
    <3>1. uses \in [Runs -> Ages]
      BY <2>4, UsedNowType DEF TypeOK
    <3>2. [uses EXCEPT ![run] = MaxWindow] \in [Runs -> Ages]
      BY <3>1, AgeFacts
    <3>3. runUsed' = IF s \in idleExits /\ uses[run] >= idleWindow
                     THEN [uses EXCEPT ![run] = MaxWindow] ELSE uses
      BY <1>6 DEF Ended
    <3> QED
      BY <3>1, <3>2, <3>3
  <2>6. entries' \in [Keys -> Sessions \cup {NoSession}]
    BY <1>6, EntriesType DEF Ended
  <2>7. owed' \in [Keys -> Notes]
    BY <1>6, OwedType DEF Ended, TypeOK
  <2>8. notice' \in [Sessions -> Notices]
    BY <1>6 DEF Ended, TypeOK, NotifyClosed, Notices
  <2> QED
    BY <1>6, <2>1, <2>2, <2>3, <2>5, <2>6, <2>7, <2>8 DEF Ended, TypeOK
<1> QED
  BY <1>1, <1>2, <1>3, <1>4, <1>5, <1>6 DEF Processes

\* So do the idle windows.
LEMMA WindowingType == TypeOK /\ Windowing => TypeOK'
<1> SUFFICES ASSUME TypeOK, Windowing PROVE TypeOK'
  OBVIOUS
<1> USE DEF entryVars, closeVars
<1>1. ASSUME NEW k \in Keys, IdleFire(k) PROVE TypeOK'
  <2>1. PICK s \in Registered :
          /\ timer' = [timer EXCEPT ![s] = Rearmed(s)]
          /\ farewell' = IF Idle(proc[s]) /\ ~Waits(s) THEN farewell \cup {s} ELSE farewell
    BY <1>1 DEF IdleFire
  <2>2. s \in Sessions /\ Rearmed(s) \in Ages \cup {NoTimer}
    BY AgeFacts DEF Registered, Rearmed
  <2>3. timer' \in [Sessions -> Ages \cup {NoTimer}] /\ farewell' \subseteq Sessions
    BY <2>1, <2>2 DEF TypeOK
  <2> QED
    BY <1>1, <2>3 DEF IdleFire, TypeOK
<1>2. ASSUME NEW s \in Sessions, FarewellDone(s) PROVE TypeOK'
  <2>1. CASE s \in Registered /\ Idle(proc[s])
    <3>1. /\ owed' = OwedWith({s}) /\ entries' = EntriesWithout({s}) /\ timer' = TimersWithout({s})
          /\ closing' = closing \cup {s} /\ idleExits' = idleExits \cup {s}
          /\ proc' = [proc EXCEPT ![s] = GracefullyClosed(@)]
          /\ notice' = NoticesWith({s})
      BY <1>2, <2>1 DEF FarewellDone
    <3>2. proc' \in [Sessions -> Proc]
      BY <3>1, GracefullyClosedType DEF TypeOK
    <3>3. notice' \in [Sessions -> Notices] /\ owed' \in [Keys -> Notes]
      BY <3>1, NoticesType, OwedType
    <3>4. /\ entries' \in [Keys -> Sessions \cup {NoSession}]
          /\ timer' \in [Sessions -> Ages \cup {NoTimer}]
      BY <3>1, EntriesType
    <3> QED
      BY <1>2, <3>1, <3>2, <3>3, <3>4 DEF FarewellDone, TypeOK
  <2>2. CASE ~(s \in Registered /\ Idle(proc[s]))
    BY <1>2, <2>2 DEF FarewellDone, TypeOK
  <2> QED
    BY <2>1, <2>2
<1>3. ASSUME NEW w \in Windows, SetIdleMinutes(w) PROVE TypeOK'
  BY <1>3 DEF SetIdleMinutes, TypeOK
<1> QED
  BY <1>1, <1>2, <1>3 DEF Windowing

\* So do the closes the daemon asks for.
LEMMA ClosesType == TypeOK /\ Closes => TypeOK'
<1> SUFFICES ASSUME TypeOK, Closes PROVE TypeOK'
  OBVIOUS
<1> USE DEF entryVars, closeVars
<1>0. "none" \in Causes
  BY DEF Causes
<1>1. ASSUME NEW k \in Keys, NEW cause \in Causes, Close(k, cause) PROVE TypeOK'
  <2>1. PICK s \in Registered :
          /\ owed' = OwedWith({s}) /\ entries' = EntriesWithout({s}) /\ timer' = TimersWithout({s})
          /\ proc' = ProcsClosing({s}, cause) /\ notice' = NoticesWith({s})
    BY <1>1 DEF Close
  <2>2. {s} \in SUBSET Sessions
    BY DEF Registered
  <2>3. /\ owed' \in [Keys -> Notes] /\ proc' \in [Sessions -> Proc] /\ notice' \in [Sessions -> Notices]
        /\ entries' \in [Keys -> Sessions \cup {NoSession}]
        /\ timer' \in [Sessions -> Ages \cup {NoTimer}]
    BY <2>1, <2>2, OwedType, ProcsClosingType, NoticesType, EntriesType
  <2> QED
    BY <1>1, <2>3 DEF Close, TypeOK
<1>2. ASSUME NEW r \in Runs, CloseRun(r) PROVE TypeOK'
  <2> DEFINE C == UnderRun(Registered, r)
             E == UnderRun(closing, r)
  <2>1. C \in SUBSET Sessions /\ E \in SUBSET Sessions
    BY DEF UnderRun, Registered, TypeOK
  <2>2. /\ closing' = closing \ E /\ idleExits' = idleExits \ E
        /\ entries' = EntriesWithout(C) /\ timer' = TimersWithout(C)
        /\ proc' = ProcsClosing(C \cup E, "none") /\ notice' = NoticesWith(C)
    BY <1>2 DEF CloseRun
  <2> HIDE DEF C, E
  <2>3. C \cup E \in SUBSET Sessions
    BY <2>1
  <2>4. /\ proc' \in [Sessions -> Proc] /\ notice' \in [Sessions -> Notices]
        /\ entries' \in [Keys -> Sessions \cup {NoSession}]
        /\ timer' \in [Sessions -> Ages \cup {NoTimer}]
    BY <1>0, <2>1, <2>2, <2>3, ProcsClosingType, NoticesType, EntriesType
  <2>5. NoNotes \in Notes
    BY DEF NoNotes, Notes
  <2>6. owed' \in [Keys -> Notes] /\ runUsed' \in [Runs -> Ages]
    BY <1>2, <2>5, AgeFacts DEF CloseRun, TypeOK
  <2> QED
    BY <1>2, <2>2, <2>4, <2>6 DEF CloseRun, TypeOK
<1>3. ASSUME NEW r \in Runs, NoteUserStop(r) PROVE TypeOK'
  <2>1. ASSUME NEW s \in Sessions PROVE [proc[s] EXCEPT !.cause = "user-stop"] \in Proc
    <3>1. proc[s] \in Proc
      BY DEF TypeOK
    <3> QED
      BY <3>1 DEF Proc, Causes
  <2>2. proc' \in [Sessions -> Proc]
    BY <1>3, <2>1 DEF NoteUserStop, TypeOK
  <2> QED
    BY <1>3, <2>2 DEF NoteUserStop, TypeOK
<1>4. ASSUME CloseAll PROVE TypeOK'
  <2>1. Registered \in SUBSET Sessions /\ Registered \cup closing \in SUBSET Sessions
    BY DEF Registered, TypeOK
  <2>2. /\ entries' = EntriesWithout(Registered) /\ timer' = TimersWithout(Registered)
        /\ proc' = ProcsClosing(Registered \cup closing, "none")
        /\ closing' = {} /\ idleExits' = {} /\ shuttingDown' = TRUE
    BY <1>4 DEF CloseAll
  <2>3. /\ proc' \in [Sessions -> Proc]
        /\ entries' \in [Keys -> Sessions \cup {NoSession}]
        /\ timer' \in [Sessions -> Ages \cup {NoTimer}]
    BY <1>0, <2>1, <2>2, ProcsClosingType, EntriesType
  <2> QED
    BY <1>4, <2>2, <2>3 DEF CloseAll, TypeOK
<1>5. ASSUME NEW s \in Sessions, NEW cause \in StaleCauses \ {"none"}, NEW same \in BOOLEAN,
             MarkStale(s, cause, same)
      PROVE  TypeOK'
  <2>1. stale' = [stale EXCEPT ![s] = MergeStale(stale[s], cause, same)]
    BY <1>5 DEF MarkStale
  <2>2. stale[s] \in Mark /\ cause \in StaleCauses
    BY DEF TypeOK
  <2>3. stale' \in [Sessions -> Mark]
    BY <2>1, <2>2, MergeStaleType DEF TypeOK
  <2> QED
    BY <1>5, <2>3 DEF MarkStale, TypeOK
<1>6. ASSUME NEW k \in Keys, OweKeyNote(k) PROVE TypeOK'
  <2>1. owed[k] \in Notes
    BY DEF TypeOK
  <2>2. [owed[k] EXCEPT !.prompts = owed[k].prompts \cup {HostNote}] \in Notes
    BY <2>1 DEF Notes
  <2>3. owed' \in [Keys -> Notes]
    BY <1>6, <2>2 DEF OweKeyNote, TypeOK
  <2> QED
    BY <1>6, <2>3 DEF OweKeyNote, TypeOK
<1> QED
  BY <1>1, <1>2, <1>3, <1>4, <1>5, <1>6 DEF Closes

\* So does time.
LEMMA TimeType == TypeOK /\ (Tick \/ Sleep) => TypeOK'
<1> USE DEF entryVars, closeVars
<1>1. TypeOK /\ Tick => TypeOK'
  <2> SUFFICES ASSUME TypeOK, Tick PROVE TypeOK'
    OBVIOUS
  <2>1. ASSUME NEW s \in Sessions, timer[s] # NoTimer PROVE Older(timer[s]) \in Ages
    BY <2>1, OlderType DEF TypeOK
  <2>2. timer' \in [Sessions -> Ages \cup {NoTimer}]
    BY <2>1 DEF Tick
  <2>3. /\ used' \in [Sessions -> Ages] /\ off' \in [Sessions -> Ages]
        /\ runUsed' \in [Runs -> Ages]
    BY OlderType DEF Tick, TypeOK
  <2> QED
    BY <2>2, <2>3 DEF Tick, TypeOK
<1>2. TypeOK /\ Sleep => TypeOK'
  BY AgeFacts DEF Sleep, TypeOK
<1> QED
  BY <1>1, <1>2

\* So does every step.
LEMMA NextType == TypeOK /\ [Next]_vars => TypeOK'
<1>1. TypeOK /\ UNCHANGED vars => TypeOK'
  BY DEF TypeOK, vars, entryVars, closeVars
<1> QED
  BY <1>1, TurnsType, ProcessesType, WindowingType, ClosesType, TimeType DEF Next

\* Every reachable state of the registry is well-typed, whatever the keys,
\* runs, processes, ceiling and windows.
THEOREM TypeCorrect == Spec => []TypeOK
<1>1. Init => TypeOK
  BY InitType
<1>2. TypeOK /\ [Next]_vars => TypeOK'
  BY NextType
<1> QED
  BY <1>1, <1>2, PTL DEF Spec

-----------------------------------------------------------------------------
(* The registry owns every process                                         *)

\* What holds of one process.  Beside the four properties it says what they
\* lean on: the registry holds no gone process, in one place at most; a
\* one-turn process is in its turn until it is gone, and is the only kind
\* that is kept while its stdin is ended or once the daemon shuts down.
Sound(s) ==
  /\ proc[s].state = "live" => s \in Registered
  /\ proc[s].state = "ending" => s \in Registered \cup closing
  /\ s \in Registered \cup closing => proc[s].state # "free"
  /\ s \in closing => s \notin Registered /\ ~shuttingDown
  /\ proc[s].state # "free" /\ ~proc[s].scoped => proc[s].turn
  /\ s \in Registered /\ (proc[s].state = "ending" \/ shuttingDown) => ~proc[s].scoped
  /\ s \in Registered /\ Idle(proc[s]) => timer[s] # NoTimer \/ s \in farewell
  /\ notice[s] < 2
  /\ s \in Registered => notice[s] = 0
  /\ proc[s].state # "free" /\ s \notin Registered /\ ~shuttingDown => notice[s] = 1

SoundRegistry == TypeOK /\ \A s \in Sessions : Sound(s)
-----------------------------------------------------------------------------
(* What the operations of a process do to its state, kind and turn.        *)

\* A signal kills a process that runs, and leaves it its kind and its turn.
LEMMA SignalledFields ==
  ASSUME NEW p \in Proc
  PROVE  /\ Signalled(p).state = IF p.state \in {"live", "ending"} THEN "killed" ELSE p.state
         /\ Signalled(p).scoped = p.scoped /\ Signalled(p).turn = p.turn
BY DEF Signalled, Proc

\* A close does the same, whatever its cause.
LEMMA ClosedFields ==
  ASSUME NEW p \in Proc, NEW cause \in Causes
  PROVE  /\ Closed(p, cause).state = IF p.state \in {"live", "ending"} THEN "killed" ELSE p.state
         /\ Closed(p, cause).scoped = p.scoped /\ Closed(p, cause).turn = p.turn
<1> DEFINE q == [p EXCEPT !.cancelling = p.turn, !.cause = IF @ = "none" THEN cause ELSE @]
<1>1. q \in Proc
  BY DEF Proc, ProcStates, ShellKinds, Causes
<1>2. q.state = p.state /\ q.scoped = p.scoped /\ q.turn = p.turn
  BY DEF Proc
<1>3. /\ Signalled(q).state = IF q.state \in {"live", "ending"} THEN "killed" ELSE q.state
      /\ Signalled(q).scoped = q.scoped /\ Signalled(q).turn = q.turn
  BY <1>1, SignalledFields
<1>4. Closed(p, cause) = IF p.state = "free" THEN p ELSE Signalled(q)
  BY DEF Closed
<1> HIDE DEF q
<1> QED
  BY <1>2, <1>3, <1>4

\* A graceful close asks it to end, and leaves it its kind and its turn.
LEMMA GracefullyClosedFields ==
  ASSUME NEW p \in Proc
  PROVE  /\ GracefullyClosed(p).state = IF p.state = "live" THEN "ending" ELSE p.state
         /\ GracefullyClosed(p).scoped = p.scoped /\ GracefullyClosed(p).turn = p.turn
BY DEF GracefullyClosed, Proc

\* A process spawned for a turn is of the turn's kind and has the turn.
LEMMA SpawnedFields ==
  ASSUME NEW scoped \in BOOLEAN, NEW ok \in BOOLEAN
  PROVE  /\ Spawned(scoped, ok).state \in {"live", "exited"}
         /\ Spawned(scoped, ok).scoped = scoped /\ Spawned(scoped, ok).turn = TRUE
BY DEF Spawned, FreeProc

\* A turn starts and settles; the process it runs on stays of its kind.
LEMMA TurnFields ==
  ASSUME NEW p \in Proc, NEW forced \in BOOLEAN, NEW parked \in BOOLEAN
  PROVE  /\ WithTurn(p).state = p.state /\ WithTurn(p).scoped = p.scoped /\ WithTurn(p).turn = TRUE
         /\ TurnSettled(p, forced, parked).state = p.state
         /\ TurnSettled(p, forced, parked).scoped = p.scoped
         /\ TurnSettled(p, forced, parked).turn = FALSE
BY DEF WithTurn, TurnSettled, Proc

\* A timer that has just been set is a set timer.
LEMMA ZeroIsATimer == 0 # NoTimer
BY TimeAssumption
-----------------------------------------------------------------------------
(* Who is registered after entries were closed, or replaced.               *)

\* Taking sessions out of the map takes out exactly those.
LEMMA RegisteredWithout ==
  ASSUME TypeOK, NEW C \in SUBSET Sessions, entries' = EntriesWithout(C), owner' = owner
  PROVE  Registered' = Registered \ C
<1>1. ASSUME NEW s \in Sessions
      PROVE  (entries'[owner'[s]] = s) <=> (entries[owner[s]] = s /\ s \notin C)
  <2>1. owner[s] \in Keys /\ s # NoSession
    BY SessionsAssumption DEF TypeOK
  <2> QED
    BY <2>1 DEF EntriesWithout
<1> QED
  BY <1>1 DEF Registered

\* Putting a session in replaces the entry of its key, and no other.
LEMMA RegisteredSpawn ==
  ASSUME TypeOK, NEW C \in SUBSET Sessions, NEW k \in Keys, NEW s \in Sessions,
         {e \in Registered : owner[e] = k} \subseteq C,
         entries' = [EntriesWithout(C) EXCEPT ![k] = s],
         owner' = [owner EXCEPT ![s] = k]
  PROVE  Registered' = (Registered \ C) \cup {s}
<1>1. owner'[s] = k /\ entries'[k] = s
  BY DEF TypeOK, EntriesWithout
<1>2. ASSUME NEW x \in Sessions, x # s
      PROVE  (entries'[owner'[x]] = x) <=> (entries[owner[x]] = x /\ x \notin C)
  <2>1. owner'[x] = owner[x] /\ owner[x] \in Keys /\ x # NoSession
    BY <1>2, SessionsAssumption DEF TypeOK
  <2>2. CASE owner[x] = k
    <3>1. entries[owner[x]] = x => x \in C
      BY <2>2 DEF Registered
    <3> QED
      BY <1>1, <1>2, <2>1, <2>2, <3>1
  <2>3. CASE owner[x] # k
    <3>1. entries'[owner[x]] = EntriesWithout(C)[owner[x]]
      BY <2>1, <2>3 DEF EntriesWithout
    <3> QED
      BY <2>1, <3>1 DEF EntriesWithout
  <2> QED
    BY <2>2, <2>3
<1> QED
  BY <1>1, <1>2 DEF Registered

\* Entries closed by anything but an idle close: C leaves the map, and the
\* processes of D, which holds C and maybe closing ones, are signalled.
LEMMA CloseKeepsSound ==
  ASSUME SoundRegistry, NEW C \in SUBSET Registered, NEW E \in SUBSET closing, NEW cause \in Causes,
         entries' = EntriesWithout(C), owner' = owner, timer' = TimersWithout(C),
         proc' = ProcsClosing(C \cup E, cause), closing' = closing \ E,
         notice' = NoticesWith(C), UNCHANGED <<farewell, shuttingDown>>
  PROVE  \A s \in Sessions : Sound(s)'
<1> SUFFICES ASSUME NEW s \in Sessions PROVE Sound(s)'
  OBVIOUS
<1>1. Sound(s) /\ proc[s] \in Proc /\ notice[s] \in Notices
  BY DEF SoundRegistry, TypeOK
<1>2. C \in SUBSET Sessions /\ TypeOK
  BY DEF Registered, SoundRegistry
<1>3. Registered' = Registered \ C
  BY <1>2, RegisteredWithout
<1>4. proc'[s] = IF s \in C \cup E THEN Closed(proc[s], cause) ELSE proc[s]
  BY DEF ProcsClosing
<1>5. timer'[s] = IF s \in C THEN NoTimer ELSE timer[s]
  BY DEF TimersWithout
<1>6. notice'[s] = IF s \in C /\ ~shuttingDown THEN 1 ELSE notice[s]
  <2>1. notice'[s] = IF s \in C /\ ~shuttingDown THEN NotifyClosed(notice[s]) ELSE notice[s]
    BY DEF NoticesWith
  <2>2. s \in C => notice[s] = 0
    BY <1>1 DEF Sound
  <2> QED
    BY <1>1, <2>1, <2>2 DEF NotifyClosed
<1>7. /\ Closed(proc[s], cause).state = IF proc[s].state \in {"live", "ending"} THEN "killed" ELSE proc[s].state
      /\ Closed(proc[s], cause).scoped = proc[s].scoped /\ Closed(proc[s], cause).turn = proc[s].turn
  BY <1>1, ClosedFields
<1> QED
  BY <1>1, <1>3, <1>4, <1>5, <1>6, <1>7 DEF Sound, Idle

\* A step that changes processes only, one of them: what it must respect.
LEMMA ProcStepKeepsSound ==
  ASSUME SoundRegistry, NEW s \in Sessions, NEW p \in Proc,
         proc' = [proc EXCEPT ![s] = p],
         UNCHANGED <<entries, owner, closing, farewell, timer, shuttingDown, notice>>,
         p.state # "free", proc[s].state # "free", p.scoped = proc[s].scoped,
         p.turn = proc[s].turn,
         p.state = "live" => proc[s].state = "live",
         p.state = "ending" => proc[s].state = "ending" \/ (~p.scoped /\ proc[s].state = "live"),
         p.state = "killed" => proc[s].state \in {"live", "ending", "killed"}
  PROVE  \A x \in Sessions : Sound(x)'
<1> SUFFICES ASSUME NEW x \in Sessions PROVE Sound(x)'
  OBVIOUS
<1>1. Sound(x) /\ Sound(s)
  BY DEF SoundRegistry
<1>2. proc'[x] = IF x = s THEN p ELSE proc[x]
  BY DEF SoundRegistry, TypeOK
<1>3. Registered' = Registered
  BY DEF Registered
<1>4. p.state \in ProcStates /\ proc[s].state \in ProcStates
  BY DEF SoundRegistry, TypeOK, Proc
<1> QED
  BY <1>1, <1>2, <1>3, <1>4 DEF Sound, Idle, ProcStates
-----------------------------------------------------------------------------
\* The steps that run turns keep every session sound.
LEMMA TurnsSound == SoundRegistry /\ Turns => \A s \in Sessions : Sound(s)'
<1> SUFFICES ASSUME SoundRegistry, Turns PROVE \A s \in Sessions : Sound(s)'
  OBVIOUS
<1>0. TypeOK /\ proc \in [Sessions -> Proc]
  BY DEF SoundRegistry, TypeOK
<1> USE DEF entryVars, closeVars
<1>1. ASSUME NEW k \in Keys, NEW carry \in BOOLEAN, ReuseTurn(k, carry)
      PROVE  \A s \in Sessions : Sound(s)'
  <2>1. PICK s \in Registered :
          /\ Accepts(proc[s])
          /\ proc' = [proc EXCEPT ![s] = WithTurn(@)]
          /\ timer' = [timer EXCEPT ![s] = NoTimer]
    BY <1>1 DEF ReuseTurn
  <2> SUFFICES ASSUME NEW x \in Sessions PROVE Sound(x)'
    OBVIOUS
  <2>2. s \in Sessions /\ Sound(x) /\ Registered' = Registered
    BY <1>1 DEF Registered, SoundRegistry, ReuseTurn
  <2>3. /\ x = s => proc'[x] = WithTurn(proc[x])
        /\ x # s => proc'[x] = proc[x] /\ timer'[x] = timer[x]
    BY <1>0, <2>1, <2>2 DEF TypeOK
  <2>4. WithTurn(proc[x]).state = proc[x].state /\ WithTurn(proc[x]).scoped = proc[x].scoped
        /\ WithTurn(proc[x]).turn = TRUE
    BY <1>0, TurnFields
  <2>5. UNCHANGED <<closing, farewell, shuttingDown, notice>>
    BY <1>1 DEF ReuseTurn
  <2> QED
    BY <2>2, <2>3, <2>4, <2>5 DEF Sound, Idle
<1>2. ASSUME NEW k \in Keys, NEW s \in Sessions, NEW carry \in BOOLEAN, NEW ok \in BOOLEAN,
             SpawnTurn(k, s, carry, ok)
      PROVE  \A x \in Sessions : Sound(x)'
  <2> DEFINE kept == {e \in Registered : owner[e] = k}
             Closing(V) == kept \cup {e \in Registered : Unusable(e)} \cup V
  <2>1. PICK V \in Victims({e \in Registered : owner[e] # k}) :
          /\ entries' = [EntriesWithout(Closing(V)) EXCEPT ![k] = s]
          /\ timer' = [TimersWithout(Closing(V)) EXCEPT ![s] = NoTimer]
          /\ proc' = [x \in Sessions |->
                     IF x = s THEN Spawned(~shuttingDown, ok)
                     ELSE IF x \in kept THEN Closed([proc[x] EXCEPT !.cause = "none"], "none")
                     ELSE IF x \in Closing(V) THEN Closed(proc[x], "none") ELSE proc[x]]
          /\ notice' = [NoticesWith(Closing(V)) EXCEPT ![s] = 0]
    BY <1>2 DEF SpawnTurn
  <2> DEFINE C == Closing(V)
  <2>2. C \subseteq Registered /\ Registered \subseteq Sessions /\ kept \subseteq C
    BY DEF Registered, Victims
  <2>3. owner' = [owner EXCEPT ![s] = k]
    BY <1>2 DEF SpawnTurn
  <2> HIDE DEF Closing
  <2>4. Registered' = (Registered \ C) \cup {s}
    BY <1>0, <2>1, <2>2, <2>3, RegisteredSpawn
  <2> SUFFICES ASSUME NEW x \in Sessions PROVE Sound(x)'
    OBVIOUS
  <2>5. Sound(x) /\ Sound(s) /\ proc[x] \in Proc /\ notice[x] \in Notices
    BY DEF SoundRegistry, TypeOK
  <2>6. proc[s].state = "free" /\ UNCHANGED <<closing, farewell, shuttingDown>>
    BY <1>2 DEF SpawnTurn, FreeProc
  <2> HIDE DEF C, kept
  <2>7. CASE x = s
    <3>1. proc'[s] = Spawned(~shuttingDown, ok) /\ notice'[s] = 0
      BY <2>1, <1>0 DEF NoticesWith
    <3>2. (~shuttingDown) \in BOOLEAN
      OBVIOUS
    <3>3. /\ proc'[s].state \in {"live", "exited"} /\ proc'[s].scoped = ~shuttingDown
          /\ proc'[s].turn = TRUE
      BY <3>1, <3>2, SpawnedFields
    <3>4. shuttingDown => ~proc'[s].scoped
      BY <3>3
    <3>5. notice'[s] = 0
      BY <3>1
    <3>6. s \in Registered' /\ s \notin closing' /\ (shuttingDown' <=> shuttingDown)
      BY <2>4, <2>5, <2>6 DEF Sound
    <3> QED
      BY <2>7, <3>3, <3>4, <3>5, <3>6 DEF Sound, Idle
  <2>8. CASE x # s
    <3>1. proc'[x] = IF x \in kept THEN Closed([proc[x] EXCEPT !.cause = "none"], "none")
                     ELSE IF x \in C THEN Closed(proc[x], "none") ELSE proc[x]
      BY <2>1, <2>8 DEF C
    <3>2. x \notin C => proc'[x] = proc[x] /\ timer'[x] = timer[x] /\ notice'[x] = notice[x]
      BY <2>1, <2>2, <2>8, <3>1 DEF C, TimersWithout, NoticesWith
    <3>3. x \in C => /\ proc'[x].state = IF proc[x].state \in {"live", "ending"} THEN "killed" ELSE proc[x].state
                     /\ proc'[x].scoped = proc[x].scoped /\ proc'[x].turn = proc[x].turn
      <4> DEFINE q == [proc[x] EXCEPT !.cause = "none"]
      <4>1. q \in Proc /\ q.state = proc[x].state /\ q.scoped = proc[x].scoped /\ q.turn = proc[x].turn
        BY <2>5 DEF Proc, Causes
      <4>2. proc'[x] = IF x \in kept THEN Closed(q, "none")
                       ELSE IF x \in C THEN Closed(proc[x], "none") ELSE proc[x]
        BY <3>1
      <4>3. "none" \in Causes
        BY DEF Causes
      <4> HIDE DEF q
      <4>4. /\ Closed(q, "none").state = IF q.state \in {"live", "ending"} THEN "killed" ELSE q.state
            /\ Closed(q, "none").scoped = q.scoped /\ Closed(q, "none").turn = q.turn
        BY <4>1, <4>3, ClosedFields
      <4>5. /\ Closed(proc[x], "none").state = IF proc[x].state \in {"live", "ending"} THEN "killed" ELSE proc[x].state
            /\ Closed(proc[x], "none").scoped = proc[x].scoped /\ Closed(proc[x], "none").turn = proc[x].turn
        BY <2>5, <4>3, ClosedFields
      <4> QED
        BY <4>1, <4>2, <4>4, <4>5
    <3>4. x \in C => notice'[x] = IF shuttingDown THEN notice[x] ELSE 1
      <4>1. x \in C => notice'[x] = IF ~shuttingDown THEN NotifyClosed(notice[x]) ELSE notice[x]
        BY <2>1, <2>8 DEF C, NoticesWith
      <4>2. x \in C => notice[x] = 0
        BY <2>2, <2>5 DEF Sound
      <4> QED
        BY <2>5, <4>1, <4>2 DEF NotifyClosed
    <3> QED
      BY <2>2, <2>4, <2>5, <2>6, <2>8, <3>2, <3>3, <3>4 DEF Sound, Idle
  <2> QED
    BY <2>7, <2>8
<1>3. ASSUME NEW s \in Sessions, NEW forced \in BOOLEAN, NEW parked \in BOOLEAN,
             SettleTurn(s, forced, parked)
      PROVE  \A x \in Sessions : Sound(x)'
  <2> SUFFICES ASSUME NEW x \in Sessions PROVE Sound(x)'
    OBVIOUS
  <2>1. Sound(x) /\ Sound(s) /\ proc[s].scoped /\ Alive(proc[s])
    BY <1>3 DEF SoundRegistry, SettleTurn
  <2>2. UNCHANGED <<entries, owner, closing, farewell, shuttingDown, notice>>
    BY <1>3 DEF SettleTurn
  <2>3. Registered' = Registered
    BY <2>2 DEF Registered
  <2>4. /\ x # s => proc'[x] = proc[x] /\ timer'[x] = timer[x]
        /\ x = s => proc'[x] = TurnSettled(proc[s], forced, parked)
        /\ x = s /\ s \in Registered => timer'[x] = 0
    BY <1>0, <1>3 DEF SettleTurn, TypeOK
  <2>5. /\ TurnSettled(proc[s], forced, parked).state = proc[s].state
        /\ TurnSettled(proc[s], forced, parked).scoped = proc[s].scoped
    BY <1>0, TurnFields
  <2> QED
    BY <2>1, <2>2, <2>3, <2>4, <2>5, ZeroIsATimer DEF Sound, Idle, Alive
<1>4. ASSUME NEW s \in Sessions, FinishOneTurn(s) PROVE \A x \in Sessions : Sound(x)'
  <2> DEFINE p == [proc[s] EXCEPT !.state = "ending"]
  <2>1. p \in Proc /\ p.state = "ending" /\ p.scoped = proc[s].scoped /\ p.turn = proc[s].turn
    BY <1>0 DEF Proc, ProcStates
  <2>2. proc[s].state = "live" /\ ~proc[s].scoped /\ proc' = [proc EXCEPT ![s] = p]
    BY <1>4 DEF FinishOneTurn
  <2> HIDE DEF p
  <2>3. UNCHANGED <<entries, owner, closing, farewell, timer, shuttingDown, notice>>
    BY <1>4 DEF FinishOneTurn
  <2> QED
    BY <2>1, <2>2, <2>3, ProcStepKeepsSound
<1>5. ASSUME NEW s \in Sessions, CancelTurn(s) PROVE \A x \in Sessions : Sound(x)'
  <2> DEFINE q == [proc[s] EXCEPT !.cancelling = TRUE]
             p == IF proc[s].scoped THEN q ELSE Signalled(q)
  <2>1. q \in Proc /\ q.state = proc[s].state /\ q.scoped = proc[s].scoped /\ q.turn = proc[s].turn
    <3>1. proc[s] \in Proc
      BY <1>0
    <3> QED
      BY <3>1 DEF Proc
  <2>2. proc[s].state = "live" /\ proc' = [proc EXCEPT ![s] = p]
    BY <1>5 DEF CancelTurn
  <2> HIDE DEF q
  <2>3. /\ Signalled(q) \in Proc
        /\ Signalled(q).state = IF q.state \in {"live", "ending"} THEN "killed" ELSE q.state
        /\ Signalled(q).scoped = q.scoped /\ Signalled(q).turn = q.turn
    BY <2>1, SignalledFields, SignalledType
  <2>4. p \in Proc /\ p.state \in {"live", "killed"} /\ p.scoped = proc[s].scoped /\ p.turn = proc[s].turn
    BY <2>1, <2>2, <2>3
  <2> HIDE DEF p
  <2>5. UNCHANGED <<entries, owner, closing, farewell, timer, shuttingDown, notice>>
    BY <1>5 DEF CancelTurn
  <2> QED
    BY <2>2, <2>4, <2>5, ProcStepKeepsSound
<1>6. ASSUME NEW s \in Sessions, InterruptDeadline(s) PROVE \A x \in Sessions : Sound(x)'
  <2>1. proc[s].state = "live" /\ proc' = [proc EXCEPT ![s] = Signalled(proc[s])]
    BY <1>6 DEF InterruptDeadline
  <2>2. /\ Signalled(proc[s]) \in Proc /\ Signalled(proc[s]).state = "killed"
        /\ Signalled(proc[s]).scoped = proc[s].scoped /\ Signalled(proc[s]).turn = proc[s].turn
    BY <1>0, <2>1, SignalledFields, SignalledType
  <2>3. UNCHANGED <<entries, owner, closing, farewell, timer, shuttingDown, notice>>
    BY <1>6 DEF InterruptDeadline
  <2> QED
    BY <2>1, <2>2, <2>3, ProcStepKeepsSound
<1> QED
  BY <1>1, <1>2, <1>3, <1>4, <1>5, <1>6 DEF Turns

\* A row touches the entry of its key: its window is started again, which
\* no process loses one by.
LEMMA TouchKeepsWindows ==
  ASSUME TypeOK, NEW key \in Keys, TouchOffTurn(key), NEW x \in Sessions, timer[x] # NoTimer
  PROVE  timer'[x] # NoTimer
BY ZeroIsATimer DEF TouchOffTurn

\* So do the steps a process takes by itself: exits, shells, rows.
LEMMA ProcessesSound == SoundRegistry /\ Processes => \A s \in Sessions : Sound(s)'
<1> SUFFICES ASSUME SoundRegistry, Processes PROVE \A s \in Sessions : Sound(s)'
  OBVIOUS
<1>0. TypeOK /\ proc \in [Sessions -> Proc]
  BY DEF SoundRegistry, TypeOK
<1> USE DEF entryVars, closeVars
<1>1. ASSUME NEW s \in Sessions, OffTurnRow(s) PROVE \A x \in Sessions : Sound(x)'
  <2> SUFFICES ASSUME NEW x \in Sessions PROVE Sound(x)'
    OBVIOUS
  <2>1. Sound(x) /\ owner[s] \in Keys /\ TouchOffTurn(owner[s])
    BY <1>1 DEF SoundRegistry, TypeOK, OffTurnRow
  <2>2. timer[x] # NoTimer => timer'[x] # NoTimer
    BY <1>0, <2>1, TouchKeepsWindows
  <2>3. UNCHANGED <<proc, entries, owner, closing, farewell, shuttingDown, notice>> /\ Registered' = Registered
    BY <1>1 DEF OffTurnRow, Registered
  <2> QED
    BY <2>1, <2>2, <2>3 DEF Sound
<1>2. ASSUME NEW s \in Sessions, NEW shown \in BOOLEAN, Park(s, shown)
      PROVE  \A x \in Sessions : Sound(x)'
  <2> SUFFICES ASSUME NEW x \in Sessions PROVE Sound(x)'
    OBVIOUS
  <2> DEFINE p == [proc[s] EXCEPT !.parked = ~proc[s].parked]
  <2>1. proc[s] \in Proc /\ proc' = [proc EXCEPT ![s] = p]
    BY <1>0, <1>2 DEF Park
  <2>2. p.state = proc[s].state /\ p.scoped = proc[s].scoped /\ p.turn = proc[s].turn
    BY <2>1 DEF Proc
  <2>3. proc'[x] = IF x = s THEN p ELSE proc[x]
    BY <1>0, <2>1
  <2> HIDE DEF p
  <2>4. Sound(x) /\ owner[s] \in Keys
    BY DEF SoundRegistry, TypeOK
  <2>5. timer[x] # NoTimer => timer'[x] # NoTimer
    <3>1. CASE shown
      BY <1>0, <1>2, <2>4, <3>1, TouchKeepsWindows DEF Park
    <3>2. CASE ~shown
      BY <1>2, <3>2 DEF Park
    <3> QED
      BY <3>1, <3>2
  <2>6. UNCHANGED <<entries, owner, closing, farewell, shuttingDown, notice>> /\ Registered' = Registered
    BY <1>2 DEF Park, Registered
  <2> QED
    BY <2>2, <2>3, <2>4, <2>5, <2>6 DEF Sound, Idle
<1>3. ASSUME NEW s \in Sessions, NEW kind \in ShellKinds, ShellsChange(s, kind)
      PROVE  \A x \in Sessions : Sound(x)'
  <2> SUFFICES ASSUME NEW x \in Sessions PROVE Sound(x)'
    OBVIOUS
  <2> DEFINE p == [proc[s] EXCEPT !.shells = kind]
  <2>1. proc[s] \in Proc /\ proc' = [proc EXCEPT ![s] = p] /\ proc[s].state # "free"
    BY <1>0, <1>3 DEF ShellsChange, Alive
  <2>2. p.state = proc[s].state /\ p.scoped = proc[s].scoped /\ p.turn = proc[s].turn
    BY <2>1 DEF Proc
  <2>3. proc'[x] = IF x = s THEN p ELSE proc[x]
    BY <1>0, <2>1
  <2> HIDE DEF p
  <2>4. Sound(x) /\ owner[s] \in Keys
    BY DEF SoundRegistry, TypeOK
  <2>5. timer[x] # NoTimer => timer'[x] # NoTimer
    <3>1. CASE ~proc[s].turn /\ "detached" \in {kind, proc[s].shells}
      BY <1>0, <1>3, <2>4, <3>1, TouchKeepsWindows DEF ShellsChange
    <3>2. CASE ~(~proc[s].turn /\ "detached" \in {kind, proc[s].shells})
      <4>1. UNCHANGED <<used, off, timer, runUsed>>
        BY <1>3, <3>2 DEF ShellsChange
      <4> QED
        BY <4>1
    <3> QED
      BY <3>1, <3>2
  <2>6. UNCHANGED <<entries, owner, closing, farewell, shuttingDown, notice>> /\ Registered' = Registered
    BY <1>3 DEF ShellsChange, Registered
  <2> QED
    BY <2>2, <2>3, <2>4, <2>5, <2>6 DEF Sound, Idle
<1>4. ASSUME NEW s \in Sessions, ExitDeadline(s) PROVE \A x \in Sessions : Sound(x)'
  <2>1. proc[s].state = "ending" /\ proc' = [proc EXCEPT ![s] = Signalled(proc[s])]
    BY <1>4 DEF ExitDeadline
  <2>2. /\ Signalled(proc[s]) \in Proc /\ Signalled(proc[s]).state = "killed"
        /\ Signalled(proc[s]).scoped = proc[s].scoped /\ Signalled(proc[s]).turn = proc[s].turn
    BY <1>0, <2>1, SignalledFields, SignalledType
  <2>3. UNCHANGED <<entries, owner, closing, farewell, timer, shuttingDown, notice>>
    BY <1>4 DEF ExitDeadline
  <2> QED
    BY <2>1, <2>2, <2>3, ProcStepKeepsSound
<1>5. ASSUME NEW s \in Sessions, Exit(s) PROVE \A x \in Sessions : Sound(x)'
  <2> DEFINE p == [proc[s] EXCEPT !.state = "exited"]
  <2>1. proc[s] \in Proc /\ proc' = [proc EXCEPT ![s] = p] /\ proc[s].state # "free"
    BY <1>0, <1>5 DEF Exit, Alive
  <2>2. p \in Proc /\ p.state = "exited" /\ p.scoped = proc[s].scoped /\ p.turn = proc[s].turn
    BY <2>1 DEF Proc, ProcStates
  <2> HIDE DEF p
  <2>3. UNCHANGED <<entries, owner, closing, farewell, timer, shuttingDown, notice>>
    BY <1>5 DEF Exit
  <2> QED
    BY <2>1, <2>2, <2>3, ProcStepKeepsSound
<1>6. ASSUME NEW s \in Sessions, Ended(s) PROVE \A x \in Sessions : Sound(x)'
  <2> SUFFICES ASSUME NEW x \in Sessions PROVE Sound(x)'
    OBVIOUS
  <2>1. /\ Sound(x) /\ Sound(s) /\ notice[s] \in Notices
    BY DEF SoundRegistry, TypeOK
  <2>2. /\ entries' = EntriesWithout({s}) /\ owner' = owner /\ closing' = closing \ {s}
        /\ UNCHANGED <<farewell, shuttingDown>>
    BY <1>6 DEF Ended
  <2>3. Registered' = Registered \ {s}
    BY <1>0, <2>2, RegisteredWithout
  <2>4. CASE x = s
    <3>1. proc'[s] = FreeProc
      BY <1>0, <1>6 DEF Ended
    <3>2. proc'[s].state = "free"
      BY <3>1 DEF FreeProc
    <3>3. notice'[s] < 2
      <4>1. notice' = IF s \in Registered /\ ~shuttingDown
                      THEN [notice EXCEPT ![s] = NotifyClosed(@)] ELSE notice
        BY <1>6 DEF Ended, StillRegistered
      <4>2. s \in Registered => notice[s] = 0
        BY <2>1 DEF Sound
      <4>4. CASE s \in Registered /\ ~shuttingDown
        BY <1>0, <4>1, <4>2, <4>4 DEF TypeOK, NotifyClosed
      <4>5. CASE ~(s \in Registered /\ ~shuttingDown)
        BY <2>1, <4>1, <4>5 DEF Sound
      <4> QED
        BY <4>4, <4>5
    <3> QED
      BY <2>2, <2>3, <2>4, <3>2, <3>3 DEF Sound
  <2>5. CASE x # s
    <3>1. proc'[x] = proc[x] /\ notice'[x] = notice[x]
      BY <1>6, <2>5 DEF Ended
    <3>2. timer[x] # NoTimer => timer'[x] # NoTimer
      BY <1>6, <2>5, ZeroIsATimer DEF Ended
    <3> QED
      BY <2>1, <2>2, <2>3, <2>5, <3>1, <3>2 DEF Sound
  <2> QED
    BY <2>4, <2>5
<1> QED
  BY <1>1, <1>2, <1>3, <1>4, <1>5, <1>6 DEF Processes

\* So do the idle windows.
LEMMA WindowingSound == SoundRegistry /\ Windowing => \A s \in Sessions : Sound(s)'
<1> SUFFICES ASSUME SoundRegistry, Windowing PROVE \A s \in Sessions : Sound(s)'
  OBVIOUS
<1>0. TypeOK /\ proc \in [Sessions -> Proc]
  BY DEF SoundRegistry, TypeOK
<1> USE DEF entryVars, closeVars
<1>1. ASSUME NEW k \in Keys, IdleFire(k) PROVE \A x \in Sessions : Sound(x)'
  <2> SUFFICES ASSUME NEW x \in Sessions PROVE Sound(x)'
    OBVIOUS
  <2>1. PICK s \in Registered :
          /\ timer' = [timer EXCEPT ![s] = Rearmed(s)]
          /\ farewell' = IF Idle(proc[s]) /\ ~Waits(s) THEN farewell \cup {s} ELSE farewell
    BY <1>1 DEF IdleFire
  <2>2. Sound(x) /\ s \in Sessions
    BY DEF SoundRegistry, Registered
  <2>3. UNCHANGED <<proc, entries, owner, closing, shuttingDown, notice>> /\ Registered' = Registered
    BY <1>1 DEF IdleFire, Registered
  <2>4. Idle(proc[x]) /\ x = s => timer'[x] # NoTimer \/ x \in farewell'
    BY <1>0, <2>1, <2>2, ZeroIsATimer DEF Rearmed, TypeOK
  <2>5. x # s => timer'[x] = timer[x] /\ (x \in farewell => x \in farewell')
    BY <1>0, <2>1, <2>2 DEF TypeOK
  <2> QED
    BY <2>2, <2>3, <2>4, <2>5 DEF Sound
<1>2. ASSUME NEW s \in Sessions, FarewellDone(s) PROVE \A x \in Sessions : Sound(x)'
  <2> SUFFICES ASSUME NEW x \in Sessions PROVE Sound(x)'
    OBVIOUS
  <2>1. Sound(x) /\ Sound(s) /\ proc[s] \in Proc /\ notice[s] \in Notices
    BY DEF SoundRegistry, TypeOK
  <2>2. farewell' = farewell \ {s} /\ UNCHANGED <<owner, shuttingDown>>
    BY <1>2 DEF FarewellDone
  <2>3. CASE s \in Registered /\ Idle(proc[s])
    <3>1. /\ entries' = EntriesWithout({s}) /\ timer' = TimersWithout({s})
          /\ closing' = closing \cup {s}
          /\ proc' = [proc EXCEPT ![s] = GracefullyClosed(@)]
          /\ notice' = NoticesWith({s})
      BY <1>2, <2>3 DEF FarewellDone
    <3>2. Registered' = Registered \ {s}
      BY <1>0, <2>2, <3>1, RegisteredWithout
    <3>3. /\ x # s => proc'[x] = proc[x] /\ notice'[x] = notice[x] /\ timer'[x] = timer[x]
          /\ x = s => proc'[x] = GracefullyClosed(proc[s])
      BY <1>0, <3>1 DEF NoticesWith, TimersWithout
    <3>4. /\ GracefullyClosed(proc[s]).state = IF proc[s].state = "live" THEN "ending" ELSE proc[s].state
          /\ GracefullyClosed(proc[s]).scoped = proc[s].scoped
          /\ GracefullyClosed(proc[s]).turn = proc[s].turn
      BY <2>1, GracefullyClosedFields
    <3>5. ~shuttingDown /\ proc[s].state \in {"live", "killed"} /\ notice[s] = 0
      BY <2>1, <2>3 DEF Sound, Idle
    <3>6. notice'[s] = 1
      <4>1. notice'[s] = NotifyClosed(notice[s])
        BY <3>1, <3>5 DEF NoticesWith
      <4> QED
        BY <3>5, <4>1 DEF NotifyClosed
    <3>7. CASE x = s
      BY <2>1, <2>2, <3>1, <3>2, <3>3, <3>4, <3>5, <3>6, <3>7 DEF Sound
    <3>8. CASE x # s
      BY <2>1, <2>2, <3>1, <3>2, <3>3, <3>8 DEF Sound
    <3> QED
      BY <3>7, <3>8
  <2>4. CASE ~(s \in Registered /\ Idle(proc[s]))
    <3>1. UNCHANGED <<proc, entries, timer, closing, notice>>
      BY <1>2, <2>4 DEF FarewellDone
    <3>2. Registered' = Registered
      BY <2>2, <3>1 DEF Registered
    <3> QED
      BY <2>1, <2>2, <2>4, <3>1, <3>2 DEF Sound
  <2> QED
    BY <2>3, <2>4
<1>3. ASSUME NEW w \in Windows, SetIdleMinutes(w) PROVE \A x \in Sessions : Sound(x)'
  <2>1. UNCHANGED <<proc, entries, owner, closing, farewell, timer, shuttingDown, notice>>
    BY <1>3 DEF SetIdleMinutes
  <2> QED
    BY <2>1 DEF SoundRegistry, Sound, Registered
<1> QED
  BY <1>1, <1>2, <1>3 DEF Windowing

\* So do the closes the daemon asks for.
LEMMA ClosesSound == SoundRegistry /\ Closes => \A s \in Sessions : Sound(s)'
<1> SUFFICES ASSUME SoundRegistry, Closes PROVE \A s \in Sessions : Sound(s)'
  OBVIOUS
<1>0. TypeOK /\ proc \in [Sessions -> Proc] /\ "none" \in Causes
  BY DEF SoundRegistry, TypeOK, Causes
<1> USE DEF entryVars, closeVars
<1>1. ASSUME NEW k \in Keys, NEW cause \in Causes, Close(k, cause) PROVE \A x \in Sessions : Sound(x)'
  <2>1. PICK s \in Registered :
          /\ entries' = EntriesWithout({s}) /\ timer' = TimersWithout({s})
          /\ proc' = ProcsClosing({s}, cause) /\ notice' = NoticesWith({s})
    BY <1>1 DEF Close
  <2>2. /\ {s} \in SUBSET Registered /\ {} \in SUBSET closing /\ {s} \cup {} = {s}
        /\ closing' = closing \ {} /\ owner' = owner /\ UNCHANGED <<farewell, shuttingDown>>
    BY <1>1 DEF Close
  <2> QED
    BY <2>1, <2>2, CloseKeepsSound
<1>2. ASSUME NEW r \in Runs, CloseRun(r) PROVE \A x \in Sessions : Sound(x)'
  <2> DEFINE C == UnderRun(Registered, r)
             E == UnderRun(closing, r)
  <2>1. C \in SUBSET Registered /\ E \in SUBSET closing
    BY DEF UnderRun
  <2>2. /\ closing' = closing \ E /\ entries' = EntriesWithout(C) /\ timer' = TimersWithout(C)
        /\ proc' = ProcsClosing(C \cup E, "none") /\ notice' = NoticesWith(C)
        /\ owner' = owner /\ UNCHANGED <<farewell, shuttingDown>>
    BY <1>2 DEF CloseRun
  <2> HIDE DEF C, E
  <2> QED
    BY <1>0, <2>1, <2>2, CloseKeepsSound
<1>3. ASSUME NEW r \in Runs, NoteUserStop(r) PROVE \A x \in Sessions : Sound(x)'
  <2> SUFFICES ASSUME NEW x \in Sessions PROVE Sound(x)'
    OBVIOUS
  <2>1. proc'[x] \in {proc[x], [proc[x] EXCEPT !.cause = "user-stop"]}
    BY <1>3 DEF NoteUserStop
  <2>2. proc[x] \in Proc /\ Sound(x)
    BY <1>0 DEF SoundRegistry
  <2>3. proc'[x].state = proc[x].state /\ proc'[x].scoped = proc[x].scoped /\ proc'[x].turn = proc[x].turn
    BY <2>1, <2>2 DEF Proc
  <2>4. UNCHANGED <<entries, owner, closing, farewell, timer, shuttingDown, notice>> /\ Registered' = Registered
    BY <1>3 DEF NoteUserStop, Registered
  <2> QED
    BY <2>2, <2>3, <2>4 DEF Sound, Idle
<1>4. ASSUME CloseAll PROVE \A x \in Sessions : Sound(x)'
  <2> SUFFICES ASSUME NEW x \in Sessions PROVE Sound(x)'
    OBVIOUS
  <2>1. Registered \in SUBSET Sessions
    BY DEF Registered
  <2>2. /\ entries' = EntriesWithout(Registered) /\ owner' = owner /\ closing' = {}
        /\ proc' = ProcsClosing(Registered \cup closing, "none") /\ UNCHANGED notice
    BY <1>4 DEF CloseAll
  <2>3. Registered' = {}
    BY <1>0, <2>1, <2>2, RegisteredWithout
  <2>4. /\ Sound(x) /\ proc[x] \in Proc
        /\ proc'[x] = IF x \in Registered \cup closing THEN Closed(proc[x], "none") ELSE proc[x]
    BY <2>2 DEF SoundRegistry, TypeOK, ProcsClosing
  <2>5. /\ Closed(proc[x], "none").state = IF proc[x].state \in {"live", "ending"} THEN "killed" ELSE proc[x].state
        /\ Closed(proc[x], "none").scoped = proc[x].scoped /\ Closed(proc[x], "none").turn = proc[x].turn
    BY <1>0, <2>4, ClosedFields
  <2>6. shuttingDown'
    BY <1>4 DEF CloseAll
  <2> QED
    BY <2>2, <2>3, <2>4, <2>5, <2>6 DEF Sound
<1>5. ASSUME NEW s \in Sessions, NEW cause \in StaleCauses \ {"none"}, NEW same \in BOOLEAN,
             MarkStale(s, cause, same)
      PROVE  \A x \in Sessions : Sound(x)'
  <2>1. UNCHANGED <<proc, entries, owner, closing, farewell, timer, shuttingDown, notice>>
    BY <1>5 DEF MarkStale
  <2> QED
    BY <2>1 DEF SoundRegistry, Sound, Registered
<1>6. ASSUME NEW k \in Keys, OweKeyNote(k) PROVE \A x \in Sessions : Sound(x)'
  <2>1. UNCHANGED <<proc, entries, owner, closing, farewell, timer, shuttingDown, notice>>
    BY <1>6 DEF OweKeyNote
  <2> QED
    BY <2>1 DEF SoundRegistry, Sound, Registered
<1> QED
  BY <1>1, <1>2, <1>3, <1>4, <1>5, <1>6 DEF Closes

\* So does time.
LEMMA TimeSound == SoundRegistry /\ (Tick \/ Sleep) => \A s \in Sessions : Sound(s)'
<1> SUFFICES ASSUME SoundRegistry, Tick \/ Sleep, NEW x \in Sessions PROVE Sound(x)'
  OBVIOUS
<1>1. Sound(x) /\ TypeOK
  BY DEF SoundRegistry
<1>2. UNCHANGED <<proc, entries, owner, closing, farewell, shuttingDown, notice>> /\ Registered' = Registered
  BY DEF Tick, Sleep, Registered, closeVars
<1>3. timer[x] # NoTimer => timer'[x] # NoTimer
  <2>1. timer[x] # NoTimer => Older(timer[x]) \in Nat
    BY <1>1, TimeAssumption DEF TypeOK, Older, Ages
  <2>2. timer[x] # NoTimer => timer'[x] \in {0, Older(timer[x])}
    BY DEF Tick, Sleep
  <2> QED
    BY <2>1, <2>2, TimeAssumption
<1> QED
  BY <1>1, <1>2, <1>3 DEF Sound
-----------------------------------------------------------------------------
\* The invariant is inductive, for any keys, processes, ceiling and windows.
THEOREM RegistryIsSound == Spec => []SoundRegistry
<1>1. Init => SoundRegistry
  <2> SUFFICES ASSUME Init PROVE SoundRegistry
    OBVIOUS
  <2>1. TypeOK
    BY InitType
  <2>2. ASSUME NEW s \in Sessions PROVE Sound(s)
    <3>1. proc[s].state = "free" /\ s \notin closing /\ notice[s] = 0
      BY DEF Init, FreeProc
    <3>2. s \notin Registered
      BY SessionsAssumption, <2>1 DEF Init, TypeOK, Registered
    <3> QED
      BY <3>1, <3>2 DEF Sound
  <2> QED
    BY <2>1, <2>2 DEF SoundRegistry
<1>2. SoundRegistry /\ [Next]_vars => SoundRegistry'
  <2> SUFFICES ASSUME SoundRegistry, [Next]_vars PROVE SoundRegistry'
    OBVIOUS
  <2>1. TypeOK'
    BY NextType DEF SoundRegistry
  <2>2. UNCHANGED vars => \A s \in Sessions : Sound(s)'
    BY DEF SoundRegistry, Sound, Registered, vars, entryVars, closeVars
  <2>3. \A s \in Sessions : Sound(s)'
    BY <2>2, TurnsSound, ProcessesSound, WindowingSound, ClosesSound, TimeSound DEF Next
  <2> QED
    BY <2>1, <2>3 DEF SoundRegistry
<1> QED
  BY <1>1, <1>2, PTL DEF Spec

\* No live process escapes the registry ("Nothing else reaps one").
THEOREM ProcessesAreOwned == Spec => []EveryProcessIsOwned
<1>1. SoundRegistry => EveryProcessIsOwned
  BY DEF SoundRegistry, Sound, EveryProcessIsOwned
<1> QED
  BY <1>1, RegistryIsSound, PTL

\* The onClosed listeners hear of each process once, and only when it is
\* no longer kept.
THEOREM ClosesAreAnnounced == Spec => []ClosedAnnouncedOnce
<1>1. SoundRegistry => ClosedAnnouncedOnce
  BY DEF SoundRegistry, Sound, ClosedAnnouncedOnce
<1> QED
  BY <1>1, RegistryIsSound, PTL

\* An idle process always has a running window, or its farewell pending.
THEOREM IdleIsTimed == Spec => []IdleHasClock
<1>1. SoundRegistry => IdleHasClock
  BY DEF SoundRegistry, Sound, IdleHasClock, Registered
<1> QED
  BY <1>1, RegistryIsSound, PTL

\* After closeAll only processes that end with the turn they serve remain.
THEOREM ShutdownIsFinal == Spec => []ShutdownKeepsNothing
<1>1. SoundRegistry => ShutdownKeepsNothing
  <2>1. SoundRegistry => closing \subseteq Sessions
    BY DEF SoundRegistry, TypeOK
  <2> QED
    BY <2>1 DEF SoundRegistry, Sound, ShutdownKeepsNothing
<1> QED
  BY <1>1, RegistryIsSound, PTL

-----------------------------------------------------------------------------
(* What a step may do to the turns, the map and the notes.                  *)

\* A spawn, with the victims of its eviction.
Dropped(k, V) == {e \in Registered : owner[e] = k} \cup {e \in Registered : Unusable(e)} \cup V
Spawning(k, s, carry, ok, V) ==
  /\ V \in Victims({e \in Registered : owner[e] # k})
  /\ entries' = [EntriesWithout(Dropped(k, V)) EXCEPT ![k] = s]
  /\ owner' = [owner EXCEPT ![s] = k]
  /\ stale' = [stale EXCEPT ![s] = NoMark]
  /\ proc[s] = FreeProc /\ proc'[s] = Spawned(~shuttingDown, ok)
  /\ \A x \in Sessions \ {s} : x \in Registered \ Dropped(k, V) => proc'[x] = proc[x]
  /\ \A x \in Sessions \ {s} : proc'[x].turn => proc[x].turn
  /\ owed' = Told(OwedWith(Dropped(k, V)), k, carry /\ ok)
  /\ Dropped(k, V) \subseteq Registered /\ s \notin Registered
  /\ Registered' = (Registered \ Dropped(k, V)) \cup {s}

\* SpawnTurn is a spawn for some victims.
LEMMA SpawnTurnSpawns ==
  ASSUME SoundRegistry, NEW k \in Keys, NEW s \in Sessions, NEW carry \in BOOLEAN, NEW ok \in BOOLEAN,
         SpawnTurn(k, s, carry, ok)
  PROVE  \E V : Spawning(k, s, carry, ok, V)
<1> DEFINE kept == {e \in Registered : owner[e] = k}
           Closing(V) == kept \cup {e \in Registered : Unusable(e)} \cup V
<1>1. PICK V \in Victims({e \in Registered : owner[e] # k}) :
        /\ entries' = [EntriesWithout(Closing(V)) EXCEPT ![k] = s]
        /\ proc' = [x \in Sessions |->
                   IF x = s THEN Spawned(~shuttingDown, ok)
                   ELSE IF x \in kept THEN Closed([proc[x] EXCEPT !.cause = "none"], "none")
                   ELSE IF x \in Closing(V) THEN Closed(proc[x], "none") ELSE proc[x]]
        /\ owed' = Told(OwedWith(Closing(V)), k, carry /\ ok)
  BY DEF SpawnTurn
<1>2. Closing(V) = Dropped(k, V) /\ kept \subseteq Dropped(k, V)
  BY DEF Dropped
<1>3. Dropped(k, V) \subseteq Registered
  BY DEF Dropped, Victims
<1>4. /\ owner' = [owner EXCEPT ![s] = k] /\ stale' = [stale EXCEPT ![s] = NoMark]
      /\ proc[s] = FreeProc
  BY DEF SpawnTurn
<1> HIDE DEF Closing
<1>5. TypeOK /\ Sound(s)
  BY DEF SoundRegistry
<1>6. s \notin Registered
  BY <1>4, <1>5 DEF Sound, FreeProc
<1>7. Registered' = (Registered \ Dropped(k, V)) \cup {s}
  <2>1. Dropped(k, V) \in SUBSET Sessions
    BY <1>3 DEF Registered
  <2> QED
    BY <1>1, <1>2, <1>4, <1>5, <2>1, RegisteredSpawn
<1>8. ASSUME NEW x \in Sessions \ {s}
      PROVE  /\ x \in Registered \ Dropped(k, V) => proc'[x] = proc[x]
             /\ proc'[x].turn => proc[x].turn
  <2>1. proc[x] \in Proc /\ "none" \in Causes
    BY <1>5 DEF TypeOK, Causes
  <2> DEFINE q == [proc[x] EXCEPT !.cause = "none"]
  <2>2. q \in Proc /\ q.turn = proc[x].turn
    BY <2>1 DEF Proc
  <2>3. proc'[x] = IF x \in kept THEN Closed(q, "none")
                   ELSE IF x \in Dropped(k, V) THEN Closed(proc[x], "none") ELSE proc[x]
    BY <1>1, <1>2
  <2> HIDE DEF q
  <2>4. Closed(q, "none").turn = q.turn /\ Closed(proc[x], "none").turn = proc[x].turn
    BY <2>1, <2>2, ClosedFields
  <2> QED
    BY <1>2, <2>2, <2>3, <2>4
<1>9. proc'[s] = Spawned(~shuttingDown, ok)
  BY <1>1
<1>10. Spawning(k, s, carry, ok, V)
  BY <1>1, <1>2, <1>3, <1>4, <1>6, <1>7, <1>8, <1>9 DEF Spawning
<1> QED
  BY <1>10

\* The steps that open no turn: everything but a turn's own start.
OtherStep ==
  \/ \E s \in Sessions, forced, parked \in BOOLEAN : SettleTurn(s, forced, parked)
  \/ \E s \in Sessions : FinishOneTurn(s) \/ CancelTurn(s) \/ InterruptDeadline(s)
  \/ Processes \/ Windowing \/ Closes \/ Tick \/ Sleep

\* Every step starts a turn on a kept process, spawns one for it, or is one
\* of the others.
LEMMA StepsAre ==
  Next => \/ \E k \in Keys, carry \in BOOLEAN : ReuseTurn(k, carry)
          \/ \E k \in Keys, s \in Sessions, carry, ok \in BOOLEAN : SpawnTurn(k, s, carry, ok)
          \/ OtherStep
BY DEF Next, Turns, OtherStep

\* What such a step does to the turns and the map, and to the stale marks
\* of the processes it keeps.
Lull ==
  /\ \A s \in Sessions : proc'[s].turn => proc[s].turn
  /\ owner' = owner
  /\ \A k \in Keys : entries'[k] \in {entries[k], NoSession}
  /\ \A s \in Sessions :
       \/ stale'[s] = stale[s]
       \/ s \notin Registered'
       \/ \E cause \in StaleCauses \ {"none"}, same \in BOOLEAN : stale'[s] = MergeStale(stale[s], cause, same)

\* A step that only moves one process, to a state with no other turn.
LEMMA OneProcLulls ==
  ASSUME TypeOK, NEW s \in Sessions, NEW p, proc' = [proc EXCEPT ![s] = p], p.turn => proc[s].turn,
         UNCHANGED <<owner, entries, stale>>
  PROVE  Lull
<1>1. \A x \in Sessions : proc'[x] = IF x = s THEN p ELSE proc[x]
  BY DEF TypeOK
<1> QED
  BY <1>1 DEF Lull

\* A step that closes some processes.
LEMMA ClosesLull ==
  ASSUME TypeOK, NEW C \in SUBSET Sessions, NEW D \in SUBSET Sessions, NEW cause \in Causes,
         entries' = EntriesWithout(C), proc' = ProcsClosing(D, cause), UNCHANGED <<owner, stale>>
  PROVE  Lull
<1>1. ASSUME NEW x \in Sessions PROVE proc'[x].turn => proc[x].turn
  <2>1. proc[x] \in Proc /\ proc'[x] = IF x \in D THEN Closed(proc[x], cause) ELSE proc[x]
    BY DEF TypeOK, ProcsClosing
  <2> QED
    BY <2>1, ClosedFields
<1>2. \A k \in Keys : entries'[k] \in {entries[k], NoSession}
  BY DEF EntriesWithout
<1> QED
  BY <1>1, <1>2 DEF Lull

\* The steps that open no turn keep to that.
LEMMA OtherStepsLull == SoundRegistry /\ OtherStep => Lull
<1> SUFFICES ASSUME SoundRegistry, OtherStep PROVE Lull
  OBVIOUS
<1>0. TypeOK /\ proc \in [Sessions -> Proc] /\ "none" \in Causes
  BY DEF SoundRegistry, TypeOK, Causes
<1> USE DEF entryVars, closeVars
<1>1. ASSUME NEW s \in Sessions, NEW forced \in BOOLEAN, NEW parked \in BOOLEAN, SettleTurn(s, forced, parked)
      PROVE  Lull
  <2>1. TurnSettled(proc[s], forced, parked).turn = FALSE
    BY <1>0, TurnFields
  <2>2. proc' = [proc EXCEPT ![s] = TurnSettled(proc[s], forced, parked)] /\ UNCHANGED <<owner, entries, stale>>
    BY <1>1 DEF SettleTurn
  <2> QED
    BY <1>0, <2>1, <2>2, OneProcLulls
<1>2. ASSUME NEW s \in Sessions, FinishOneTurn(s) \/ CancelTurn(s) PROVE Lull
  BY <1>0, <1>2, OneProcLulls DEF FinishOneTurn, CancelTurn
<1>3. ASSUME NEW s \in Sessions, InterruptDeadline(s) \/ ExitDeadline(s) PROVE Lull
  <2>1. proc' = [proc EXCEPT ![s] = Signalled(proc[s])] /\ UNCHANGED <<owner, entries, stale>>
    BY <1>3 DEF InterruptDeadline, ExitDeadline
  <2>2. Signalled(proc[s]).turn = proc[s].turn
    BY <1>0, SignalledFields
  <2> QED
    BY <1>0, <2>1, <2>2, OneProcLulls
<1>4. ASSUME NEW s \in Sessions, Exit(s) PROVE Lull
  <2>1. proc' = [proc EXCEPT ![s] = [proc[s] EXCEPT !.state = "exited"]] /\ UNCHANGED <<owner, entries, stale>>
    BY <1>4 DEF Exit
  <2>2. [proc[s] EXCEPT !.state = "exited"].turn = proc[s].turn
    BY <1>0 DEF Proc
  <2> QED
    BY <1>0, <2>1, <2>2, OneProcLulls
<1>5. ASSUME NEW s \in Sessions, NEW shown \in BOOLEAN, Park(s, shown) PROVE Lull
  <2>1. /\ proc' = [proc EXCEPT ![s] = [proc[s] EXCEPT !.parked = ~proc[s].parked]]
        /\ UNCHANGED <<owner, entries, stale>>
    BY <1>5 DEF Park
  <2>2. [proc[s] EXCEPT !.parked = ~proc[s].parked].turn = proc[s].turn
    BY <1>0 DEF Proc
  <2> QED
    BY <1>0, <2>1, <2>2, OneProcLulls
<1>6. ASSUME NEW s \in Sessions, NEW kind \in ShellKinds, ShellsChange(s, kind) PROVE Lull
  <2>1. /\ proc' = [proc EXCEPT ![s] = [proc[s] EXCEPT !.shells = kind]]
        /\ UNCHANGED <<owner, entries, stale>>
    BY <1>6 DEF ShellsChange
  <2>2. [proc[s] EXCEPT !.shells = kind].turn = proc[s].turn
    BY <1>0 DEF Proc
  <2> QED
    BY <1>0, <2>1, <2>2, OneProcLulls
<1>7. ASSUME NEW s \in Sessions, Ended(s) PROVE Lull
  <2>1. /\ proc' = [proc EXCEPT ![s] = FreeProc] /\ stale' = [stale EXCEPT ![s] = NoMark]
        /\ entries' = EntriesWithout({s}) /\ owner' = owner
    BY <1>7 DEF Ended
  <2>2. {s} \in SUBSET Sessions
    OBVIOUS
  <2>3. s \notin Registered'
    BY <1>0, <2>1, <2>2, RegisteredWithout
  <2>4. \A x \in Sessions : proc'[x] = (IF x = s THEN FreeProc ELSE proc[x]) /\ (x # s => stale'[x] = stale[x])
    BY <1>0, <2>1 DEF TypeOK
  <2>5. \A k \in Keys : entries'[k] \in {entries[k], NoSession}
    BY <2>1 DEF EntriesWithout
  <2>6. FreeProc.turn = FALSE
    BY DEF FreeProc
  <2> QED
    BY <2>1, <2>3, <2>4, <2>5, <2>6 DEF Lull
<1>8. ASSUME UNCHANGED <<proc, owner, entries, stale>> PROVE Lull
  BY <1>8 DEF Lull
<1>9. ASSUME NEW s \in Sessions, FarewellDone(s) PROVE Lull
  <2>1. CASE s \in Registered /\ Idle(proc[s])
    <3>1. /\ entries' = EntriesWithout({s}) /\ proc' = [proc EXCEPT ![s] = GracefullyClosed(proc[s])]
          /\ UNCHANGED <<owner, stale>>
      BY <1>9, <2>1 DEF FarewellDone
    <3>2. GracefullyClosed(proc[s]).turn = proc[s].turn
      BY <1>0, GracefullyClosedFields
    <3>3. \A x \in Sessions : proc'[x].turn => proc[x].turn
      BY <1>0, <3>1, <3>2
    <3>4. \A k \in Keys : entries'[k] \in {entries[k], NoSession}
      BY <3>1 DEF EntriesWithout
    <3> QED
      BY <3>1, <3>3, <3>4 DEF Lull
  <2>2. CASE ~(s \in Registered /\ Idle(proc[s]))
    BY <1>8, <1>9, <2>2 DEF FarewellDone
  <2> QED
    BY <2>1, <2>2
<1>10. ASSUME NEW k \in Keys, NEW cause \in Causes, Close(k, cause) PROVE Lull
  <2>1. PICK s \in Registered : entries' = EntriesWithout({s}) /\ proc' = ProcsClosing({s}, cause)
    BY <1>10 DEF Close
  <2>2. {s} \in SUBSET Sessions /\ UNCHANGED <<owner, stale>>
    BY <1>10 DEF Close, Registered
  <2> QED
    BY <1>0, <2>1, <2>2, ClosesLull
<1>11. ASSUME NEW r \in Runs, CloseRun(r) PROVE Lull
  <2> DEFINE C == UnderRun(Registered, r)
             D == C \cup UnderRun(closing, r)
  <2>1. /\ entries' = EntriesWithout(C) /\ proc' = ProcsClosing(D, "none")
        /\ UNCHANGED <<owner, stale>>
    BY <1>11 DEF CloseRun
  <2>2. C \in SUBSET Sessions /\ D \in SUBSET Sessions
    BY <1>0 DEF UnderRun, Registered, TypeOK
  <2> HIDE DEF C, D
  <2> QED
    BY <1>0, <2>1, <2>2, ClosesLull
<1>12. ASSUME NEW r \in Runs, NoteUserStop(r) PROVE Lull
  <2>1. ASSUME NEW x \in Sessions PROVE proc'[x].turn = proc[x].turn
    <3>1. proc[x] \in Proc /\ proc'[x] \in {proc[x], [proc[x] EXCEPT !.cause = "user-stop"]}
      BY <1>0, <1>12 DEF NoteUserStop
    <3> QED
      BY <3>1 DEF Proc
  <2>2. UNCHANGED <<owner, entries, stale>>
    BY <1>12 DEF NoteUserStop
  <2> QED
    BY <2>1, <2>2 DEF Lull
<1>13. CASE CloseAll
  <2>1. /\ entries' = EntriesWithout(Registered) /\ proc' = ProcsClosing(Registered \cup closing, "none")
        /\ UNCHANGED <<owner, stale>>
    BY <1>13 DEF CloseAll
  <2>2. Registered \in SUBSET Sessions /\ Registered \cup closing \in SUBSET Sessions
    BY <1>0 DEF Registered, TypeOK
  <2> QED
    BY <1>0, <2>1, <2>2, ClosesLull
<1>14. ASSUME NEW s \in Sessions, NEW cause \in StaleCauses \ {"none"}, NEW same \in BOOLEAN,
              MarkStale(s, cause, same)
       PROVE  Lull
  <2>1. stale' = [stale EXCEPT ![s] = MergeStale(stale[s], cause, same)] /\ UNCHANGED <<proc, owner, entries>>
    BY <1>14 DEF MarkStale
  <2>2. \A x \in Sessions : stale'[x] = IF x = s THEN MergeStale(stale[s], cause, same) ELSE stale[x]
    BY <1>0, <2>1 DEF TypeOK
  <2> QED
    BY <2>1, <2>2 DEF Lull
<1>15. CASE Tick \/ Sleep
  BY <1>8, <1>15 DEF Tick, Sleep
<1>16. CASE Processes
  <2>1. ASSUME NEW s \in Sessions, OffTurnRow(s) PROVE Lull
    BY <1>8, <2>1 DEF OffTurnRow
  <2> QED
    BY <1>3, <1>4, <1>5, <1>6, <1>7, <1>16, <2>1 DEF Processes
<1>17. CASE Windowing
  <2>1. ASSUME NEW k \in Keys, IdleFire(k) PROVE Lull
    BY <1>8, <2>1 DEF IdleFire
  <2>2. ASSUME NEW w \in Windows, SetIdleMinutes(w) PROVE Lull
    BY <1>8, <2>2 DEF SetIdleMinutes
  <2> QED
    BY <1>9, <1>17, <2>1, <2>2 DEF Windowing
<1>18. CASE Closes
  <2>1. ASSUME NEW k \in Keys, OweKeyNote(k) PROVE Lull
    BY <1>8, <2>1 DEF OweKeyNote
  <2> QED
    BY <1>10, <1>11, <1>12, <1>13, <1>14, <1>18, <2>1 DEF Closes
<1> QED
  BY <1>1, <1>2, <1>3, <1>15, <1>16, <1>17, <1>18 DEF OtherStep

-----------------------------------------------------------------------------
(* Action properties.                                                       *)

Hard == {"account", "conversation"}

\* No step weakens a mark that cannot wait, and none serves a turn under it.
LEMMA HardStaleStays ==
  ASSUME SoundRegistry, [Next]_vars, NEW s \in Registered, stale[s].cause \in Hard
  PROVE  ~TurnOpened(s) /\ (s \in Registered' => stale'[s].cause \in Hard)
<1>0. TypeOK /\ s \in Sessions /\ Sound(s) /\ proc[s] \in Proc
  BY DEF SoundRegistry, Registered, TypeOK
<1>1. ASSUME NEW k \in Keys, NEW carry \in BOOLEAN, ReuseTurn(k, carry)
      PROVE  ~TurnOpened(s) /\ stale'[s].cause \in Hard
  <2>1. PICK x \in Registered :
          /\ ~MustReplace(x)
          /\ stale' = IF stale[x].cause # "none" /\ ~stale[x].told
                      THEN [stale EXCEPT ![x] = [@ EXCEPT !.rowWritten = TRUE, !.told = carry]]
                      ELSE stale
          /\ proc' = [proc EXCEPT ![x] = WithTurn(@)]
    BY <1>1 DEF ReuseTurn
  <2>2. x # s
    BY <2>1 DEF MustReplace, MayKeepStale, Hard
  <2>3. proc'[s] = proc[s] /\ stale'[s] = stale[s]
    BY <1>0, <2>1, <2>2 DEF TypeOK
  <2> QED
    BY <2>3 DEF TurnOpened
<1>2. ASSUME NEW k \in Keys, NEW x \in Sessions, NEW carry \in BOOLEAN, NEW ok \in BOOLEAN,
             SpawnTurn(k, x, carry, ok)
      PROVE  ~TurnOpened(s) /\ stale'[s].cause \in Hard
  <2>1. PICK V : Spawning(k, x, carry, ok, V)
    BY <1>2, SpawnTurnSpawns
  <2>2. x # s
    BY <2>1 DEF Spawning
  <2>3. stale'[s] = stale[s] /\ (proc'[s].turn => proc[s].turn)
    BY <1>0, <2>1, <2>2 DEF Spawning, TypeOK
  <2> QED
    BY <2>3 DEF TurnOpened
<1>3. CASE OtherStep
  <2>1. Lull
    BY <1>3, OtherStepsLull
  <2>2. ASSUME NEW cause \in StaleCauses \ {"none"}, NEW same \in BOOLEAN
        PROVE  MergeStale(stale[s], cause, same) = stale[s]
    BY DEF MergeStale, Hard
  <2> QED
    BY <1>0, <2>1, <2>2 DEF Lull, TurnOpened
<1>4. CASE UNCHANGED vars
  BY <1>4 DEF vars, entryVars, TurnOpened
<1> QED
  BY <1>1, <1>2, <1>3, <1>4, StepsAre

\* A sign-in, a sign-out or a replaced conversation retires a kept process
\* for good: no later change weakens its mark, and no turn is served by it
\* ("A cause that cannot wait outranks mcp").
THEOREM StaleProcessesServeNobody == Spec => HardStaleIsFinal
<1>1. SoundRegistry /\ [Next]_vars =>
        \A s \in Registered : stale[s].cause \in {"account", "conversation"} =>
          /\ ~TurnOpened(s)
          /\ s \in Registered' => stale'[s].cause \in {"account", "conversation"}
  BY HardStaleStays DEF Hard
<1> QED
  BY <1>1, RegistryIsSound, PTL DEF Spec, HardStaleIsFinal

\* A process dropped for another key's turn while it could serve one is a
\* victim of the eviction.
LEMMA EvictedAreVictims ==
  ASSUME SoundRegistry, Next, NEW s \in Sessions, NEW k \in Keys, EvictedFor(s, k), Usable(proc[s])
  PROVE  \E x \in Sessions, carry, ok \in BOOLEAN : \E V :
           Spawning(k, x, carry, ok, V) /\ SpawnTurn(k, x, carry, ok) /\ s \in V
<1>0. TypeOK
  BY DEF SoundRegistry
<1>1. ~(\A j \in Keys : entries'[j] \in {entries[j], NoSession})
  BY DEF EvictedFor
<1>2. ASSUME NEW j \in Keys, NEW carry \in BOOLEAN, ReuseTurn(j, carry) PROVE FALSE
  BY <1>1, <1>2 DEF ReuseTurn
<1>3. ~OtherStep
  BY <1>1, OtherStepsLull DEF Lull
<1>4. PICK j \in Keys, x \in Sessions, carry \in BOOLEAN, ok \in BOOLEAN : SpawnTurn(j, x, carry, ok)
  BY <1>2, <1>3, StepsAre
<1>5. PICK V : Spawning(j, x, carry, ok, V)
  BY <1>4, SpawnTurnSpawns
<1>6. j = k
  <2>1. j # k => entries'[k] = EntriesWithout(Dropped(j, V))[k]
    BY <1>5 DEF Spawning, EntriesWithout
  <2> QED
    BY <2>1 DEF EvictedFor, EntriesWithout
<1>7. s \in V
  <2>1. s \in Dropped(k, V) /\ owner[s] # k /\ ~Unusable(s)
    BY <1>5, <1>6 DEF Spawning, EvictedFor, Usable, Unusable
  <2> QED
    BY <2>1 DEF Dropped
<1> QED
  BY <1>4, <1>5, <1>6, <1>7

\* The victims of an eviction have nothing to do.
LEMMA VictimsAreIdle ==
  ASSUME NEW R, NEW V \in Victims(R), NEW s \in V
  PROVE  s \in R /\ ~Unusable(s) /\ Evictable(s)
BY DEF Victims

\* Making room for another key's process never ends one that could serve a
\* turn while it has one in flight, waits for a verdict, writes rows, or
\* serves a command (evictIfFull).
THEOREM VictimsDoNothing == Spec => EvictionSparesWork
<1>1. SoundRegistry /\ [Next]_vars =>
        \A s \in Sessions, k \in Keys : EvictedFor(s, k) /\ Usable(proc[s]) => Idle(proc[s]) /\ ~AtWork(s)
  <2> SUFFICES ASSUME SoundRegistry, [Next]_vars, NEW s \in Sessions, NEW k \in Keys,
                      EvictedFor(s, k), Usable(proc[s])
               PROVE  Idle(proc[s]) /\ ~AtWork(s)
    OBVIOUS
  <2>1. ~UNCHANGED vars
    BY DEF EvictedFor, vars, entryVars
  <2>2. PICK x \in Sessions, carry \in BOOLEAN, ok \in BOOLEAN : \E V :
          Spawning(k, x, carry, ok, V) /\ SpawnTurn(k, x, carry, ok) /\ s \in V
    BY <2>1, EvictedAreVictims
  <2>4. PICK V : Spawning(k, x, carry, ok, V) /\ SpawnTurn(k, x, carry, ok) /\ s \in V
    BY <2>2
  <2>3. Evictable(s)
    BY <2>4, VictimsAreIdle DEF Spawning
  <2> QED
    BY <2>3 DEF Evictable, HoldsWork, WorksOffTurn, AtWork
<1> QED
  BY <1>1, RegistryIsSound, PTL DEF Spec, EvictionSparesWork

-----------------------------------------------------------------------------
(* The map: finitely many processes are kept, each under its own key.       *)

MapIsSound ==
  /\ IsFiniteSet(Registered)
  /\ \A k \in Keys : entries[k] = NoSession \/ owner[entries[k]] = k

\* The map stays so.
LEMMA MapStaysSound == SoundRegistry /\ MapIsSound /\ [Next]_vars => MapIsSound'
<1> SUFFICES ASSUME SoundRegistry, MapIsSound, [Next]_vars PROVE MapIsSound'
  OBVIOUS
<1>0. TypeOK
  BY DEF SoundRegistry
<1>1. ASSUME owner' = owner, \A k \in Keys : entries'[k] \in {entries[k], NoSession} PROVE MapIsSound'
  <2>1. Registered' \subseteq Registered
    <3> SUFFICES ASSUME NEW s \in Registered' PROVE s \in Registered
      OBVIOUS
    <3>1. s \in Sessions /\ owner[s] \in Keys /\ entries'[owner[s]] = s /\ s # NoSession
      BY <1>0, <1>1, SessionsAssumption DEF Registered, TypeOK
    <3> QED
      BY <1>1, <3>1 DEF Registered
  <2>2. IsFiniteSet(Registered')
    BY <2>1, FS_Subset DEF MapIsSound
  <2> QED
    BY <1>1, <2>2 DEF MapIsSound
<1>2. ASSUME NEW k \in Keys, NEW carry \in BOOLEAN, ReuseTurn(k, carry) PROVE MapIsSound'
  BY <1>1, <1>2 DEF ReuseTurn
<1>3. ASSUME NEW k \in Keys, NEW s \in Sessions, NEW carry \in BOOLEAN, NEW ok \in BOOLEAN,
             SpawnTurn(k, s, carry, ok)
      PROVE  MapIsSound'
  <2>1. PICK V : Spawning(k, s, carry, ok, V)
    BY <1>3, SpawnTurnSpawns
  <2>2. IsFiniteSet(Registered')
    <3>1. IsFiniteSet(Registered \ Dropped(k, V))
      BY FS_Subset DEF MapIsSound
    <3>2. IsFiniteSet((Registered \ Dropped(k, V)) \cup {s})
      BY <3>1, FS_AddElement
    <3> QED
      BY <2>1, <3>2 DEF Spawning
  <2>3. ASSUME NEW j \in Keys PROVE entries'[j] = NoSession \/ owner'[entries'[j]] = j
    <3>1. entries'[j] = IF j = k THEN s ELSE EntriesWithout(Dropped(k, V))[j]
      BY <2>1 DEF Spawning, EntriesWithout
    <3>2. owner'[s] = k
      BY <1>0, <2>1 DEF Spawning, TypeOK
    <3>3. CASE j # k /\ entries[j] # NoSession /\ entries[j] \notin Dropped(k, V)
      <4>1. entries'[j] = entries[j] /\ entries[j] \in Sessions /\ owner[entries[j]] = j
        BY <1>0, <3>1, <3>3 DEF EntriesWithout, TypeOK, MapIsSound
      <4>2. entries[j] # s
        BY <2>1, <4>1 DEF Spawning, Registered
      <4> QED
        BY <1>0, <2>1, <4>1, <4>2 DEF Spawning, TypeOK
    <3> QED
      BY <3>1, <3>2, <3>3 DEF EntriesWithout
  <2> QED
    BY <2>2, <2>3 DEF MapIsSound
<1>4. CASE OtherStep
  BY <1>1, <1>4, OtherStepsLull DEF Lull
<1>5. CASE UNCHANGED vars
  BY <1>1, <1>5 DEF vars, entryVars
<1> QED
  BY <1>2, <1>3, <1>4, <1>5, StepsAre

\* And it is sound at the start.
LEMMA MapStartsSound == Init => MapIsSound
<1> SUFFICES ASSUME Init PROVE MapIsSound
  OBVIOUS
<1>1. Registered = {}
  BY InitType, SessionsAssumption DEF Init, Registered, TypeOK
<1>2. \A k \in Keys : entries[k] = NoSession
  BY DEF Init
<1> QED
  BY <1>1, <1>2, FS_EmptySet DEF MapIsSound

\* The map is sound in every reachable state.
LEMMA MapIsAlwaysSound == Spec => [](SoundRegistry /\ MapIsSound)
<1>1. MapIsSound /\ SoundRegistry /\ [Next]_vars => MapIsSound'
  BY MapStaysSound
<1> QED
  BY <1>1, MapStartsSound, RegistryIsSound, PTL DEF Spec

\* The usable processes of other keys, and those of them with nothing to do.
Left(k) == {e \in Registered : owner[e] # k /\ ~Unusable(e)}
Free(k) == {e \in Left(k) : Evictable(e)}

\* What an eviction leaves: nothing unusable, and of the rest all but the
\* victims, with the new process.
LEMMA AfterSpawn ==
  ASSUME SoundRegistry, MapIsSound, NEW k \in Keys, NEW s \in Sessions, NEW carry, NEW ok, NEW V,
         Spawning(k, s, carry, ok, V)
  PROVE  /\ Registered' = (Left(k) \ V) \cup {s}
         /\ IsFiniteSet(Left(k)) /\ V \in SUBSET Free(k)
         /\ Cardinality(Left(k)) \in Nat /\ Cardinality(Free(k)) \in Nat /\ Cardinality(V) \in Nat
         /\ Cardinality(V) <= ToEvict(Cardinality(Left(k)))
         /\ Cardinality(V) = ToEvict(Cardinality(Left(k))) \/ Cardinality(V) = Cardinality(Free(k))
         /\ Cardinality(Registered') = Cardinality(Left(k)) - Cardinality(V) + 1
<1> DEFINE left == Left(k)
           free == Free(k)
           need == ToEvict(Cardinality(left))
<1> USE DEF Left, Free
<1>1. left = {e \in {x \in Registered : owner[x] # k} : ~Unusable(e)}
  OBVIOUS
<1>2. V \in SUBSET free /\ Cardinality(V) = IF Cardinality(free) < need THEN Cardinality(free) ELSE need
  BY <1>1 DEF Spawning, Victims
<1>3. Registered' = (left \ V) \cup {s} /\ s \notin left
  BY DEF Spawning, Dropped
<1> HIDE DEF need
<1>4. IsFiniteSet(left) /\ IsFiniteSet(free) /\ IsFiniteSet(V) /\ IsFiniteSet(left \ V)
  <2>1. IsFiniteSet(left)
    BY FS_Subset DEF MapIsSound
  <2>2. free \subseteq left /\ V \subseteq left /\ left \ V \subseteq left
    BY <1>2
  <2> HIDE DEF left, free
  <2> QED
    BY <2>1, <2>2, FS_Subset
<1>5. free \subseteq left
  OBVIOUS
<1> HIDE DEF left, free, Left, Free
<1>6. Cardinality(left) \in Nat /\ Cardinality(free) \in Nat /\ Cardinality(V) \in Nat
      /\ Cardinality(left \ V) \in Nat
  BY <1>4, FS_CardinalityType
<1>7. Cardinality(left \ V) = Cardinality(left) - Cardinality(V)
  <2>1. left \cap V = V
    BY <1>2, <1>5
  <2>2. Cardinality(left \ V) = Cardinality(left) - Cardinality(left \cap V)
    BY <1>4, FS_Difference
  <2> QED
    BY <2>1, <2>2
<1>8. Cardinality((left \ V) \cup {s}) = Cardinality(left \ V) + 1
  <2>1. s \notin left \ V
    BY <1>3
  <2>2. Cardinality((left \ V) \cup {s}) =
          IF s \in left \ V THEN Cardinality(left \ V) ELSE Cardinality(left \ V) + 1
    BY <1>4, FS_AddElement
  <2> QED
    BY <2>1, <2>2
<1>9. Cardinality(Registered') = Cardinality(left) - Cardinality(V) + 1
  BY <1>3, <1>6, <1>7, <1>8
<1>10. need \in Nat
  BY <1>6, CeilingAssumption DEF need, ToEvict
<1>11. Cardinality(V) <= need /\ (Cardinality(V) = need \/ Cardinality(V) = Cardinality(free))
  BY <1>2, <1>6, <1>10
<1> QED
  BY <1>2, <1>3, <1>4, <1>6, <1>9, <1>11 DEF left, free, need

\* A process that could serve a turn is evicted only from a full registry.
LEMMA EvictedWhenFull ==
  ASSUME SoundRegistry, MapIsSound, NEW k \in Keys, NEW s \in Sessions, NEW carry, NEW ok, NEW V,
         Spawning(k, s, carry, ok, V), V # {}
  PROVE  Cardinality({x \in Registered' : x \in Registered => Usable(proc'[x])}) >= Ceiling
<1>1. /\ Registered' = (Left(k) \ V) \cup {s}
      /\ IsFiniteSet(Left(k)) /\ V \in SUBSET Free(k)
      /\ Cardinality(Left(k)) \in Nat /\ Cardinality(V) \in Nat
      /\ Cardinality(V) <= ToEvict(Cardinality(Left(k)))
      /\ Cardinality(Registered') = Cardinality(Left(k)) - Cardinality(V) + 1
  BY AfterSpawn
<1>2. {x \in Registered' : x \in Registered => Usable(proc'[x])} = Registered'
  <2> SUFFICES ASSUME NEW x \in Registered', x \in Registered PROVE Usable(proc'[x])
    OBVIOUS
  <2>1. x # s /\ x \in Left(k) /\ x \notin V /\ x \in Sessions
    BY <1>1 DEF Spawning, Registered
  <2>2. x \notin Dropped(k, V)
    BY <2>1 DEF Dropped, Left
  <2>3. proc'[x] = proc[x]
    BY <2>1, <2>2 DEF Spawning
  <2> QED
    BY <2>1, <2>3 DEF Usable, Unusable, Left
<1>3. Cardinality(V) # 0
  <2>1. IsFiniteSet(V)
    BY <1>1, FS_Subset DEF Free
  <2> QED
    BY <2>1, FS_EmptySet
<1>4. Cardinality(V) <= Cardinality(Left(k)) + 1 - Ceiling
  BY <1>1, <1>3, CeilingAssumption DEF ToEvict
<1>5. Cardinality(Registered') >= Ceiling
  BY <1>1, <1>4, CeilingAssumption
<1> QED
  BY <1>2, <1>5

\* More than the ceiling are kept only when all the others are at work.
LEMMA OverfullWhenAllWork ==
  ASSUME SoundRegistry, MapIsSound, NEW k \in Keys, NEW s \in Sessions, NEW carry, NEW ok, NEW V,
         Spawning(k, s, carry, ok, V),
         Cardinality(Registered') > Cardinality(Registered), Cardinality(Registered') > Ceiling
  PROVE  \A x \in Registered : ~Idle(proc[x]) \/ AtWork(x)
<1>1. /\ IsFiniteSet(Left(k)) /\ V \in SUBSET Free(k)
      /\ Cardinality(Left(k)) \in Nat /\ Cardinality(Free(k)) \in Nat /\ Cardinality(V) \in Nat
      /\ Cardinality(V) <= ToEvict(Cardinality(Left(k)))
      /\ Cardinality(V) = ToEvict(Cardinality(Left(k))) \/ Cardinality(V) = Cardinality(Free(k))
      /\ Cardinality(Registered') = Cardinality(Left(k)) - Cardinality(V) + 1
  BY AfterSpawn
<1>2. Left(k) \subseteq Registered /\ IsFiniteSet(Registered) /\ Free(k) \subseteq Left(k)
  BY DEF MapIsSound, Left, Free
<1>3. IsFiniteSet(Free(k))
  BY <1>1, <1>2, FS_Subset
<1>4. Cardinality(Registered) \in Nat /\ Cardinality(Left(k)) <= Cardinality(Registered)
  BY <1>2, FS_CardinalityType, FS_Subset
<1>5. Left(k) = Registered /\ Cardinality(V) = 0
  <2>1. Cardinality(V) = 0 /\ Cardinality(Left(k)) = Cardinality(Registered)
    BY <1>1, <1>4
  <2> QED
    BY <1>2, <2>1, FS_Subset
<1>6. ToEvict(Cardinality(Left(k))) # 0
  <2>1. Cardinality(Left(k)) + 1 > Ceiling
    BY <1>1, <1>5
  <2> QED
    BY <1>1, <2>1, CeilingAssumption DEF ToEvict
<1>7. Free(k) = {}
  <2>1. Cardinality(Free(k)) = 0
    BY <1>1, <1>5, <1>6
  <2> QED
    BY <1>3, <2>1, FS_EmptySet
<1> QED
  BY <1>5, <1>7 DEF Free, Evictable, HoldsWork, WorksOffTurn, AtWork

\* A step other than a spawn keeps no process more.
LEMMA OnlySpawnsAdd ==
  ASSUME SoundRegistry, MapIsSound, [Next]_vars, Cardinality(Registered') > Cardinality(Registered)
  PROVE  \E k \in Keys, s \in Sessions, carry, ok \in BOOLEAN : \E V : Spawning(k, s, carry, ok, V)
<1>0. TypeOK
  BY DEF SoundRegistry
<1>1. ASSUME owner' = owner, \A k \in Keys : entries'[k] \in {entries[k], NoSession} PROVE FALSE
  <2>1. Registered' \subseteq Registered
    <3> SUFFICES ASSUME NEW s \in Registered' PROVE s \in Registered
      OBVIOUS
    <3>1. s \in Sessions /\ owner[s] \in Keys /\ entries'[owner[s]] = s /\ s # NoSession
      BY <1>0, <1>1, SessionsAssumption DEF Registered, TypeOK
    <3> QED
      BY <1>1, <3>1 DEF Registered
  <2>2. Cardinality(Registered') <= Cardinality(Registered)
    BY <2>1, FS_Subset DEF MapIsSound
  <2>3. Cardinality(Registered') \in Nat /\ Cardinality(Registered) \in Nat
    BY <2>1, FS_Subset, FS_CardinalityType DEF MapIsSound
  <2> QED
    BY <2>2, <2>3
<1>2. ASSUME NEW k \in Keys, NEW carry \in BOOLEAN, ReuseTurn(k, carry) PROVE FALSE
  BY <1>1, <1>2 DEF ReuseTurn
<1>3. ~OtherStep /\ ~UNCHANGED vars
  BY <1>1, OtherStepsLull DEF Lull, vars, entryVars
<1>4. PICK k \in Keys, s \in Sessions, carry \in BOOLEAN, ok \in BOOLEAN : SpawnTurn(k, s, carry, ok)
  BY <1>2, <1>3, StepsAre
<1> QED
  BY <1>4, SpawnTurnSpawns

\* The eviction makes room and no more: a process that could serve a turn
\* goes only when the registry is full without the dead and the retired, and
\* the ceiling is passed only when everything kept is at work (evictIfFull).
THEOREM EvictionIsMeasured == Spec => EvictionFitsTheCeiling
<1>1. SoundRegistry /\ MapIsSound /\ [Next]_vars =>
        /\ (\E s \in Sessions, k \in Keys : EvictedFor(s, k) /\ Usable(proc[s]))
             => Cardinality({s \in Registered' : s \in Registered => Usable(proc'[s])}) >= Ceiling
        /\ Cardinality(Registered') > Cardinality(Registered) /\ Cardinality(Registered') > Ceiling
             => \A s \in Registered : ~Idle(proc[s]) \/ AtWork(s)
  <2> SUFFICES ASSUME SoundRegistry, MapIsSound, [Next]_vars
               PROVE  /\ (\E s \in Sessions, k \in Keys : EvictedFor(s, k) /\ Usable(proc[s]))
                           => Cardinality({s \in Registered' : s \in Registered => Usable(proc'[s])}) >= Ceiling
                      /\ Cardinality(Registered') > Cardinality(Registered) /\ Cardinality(Registered') > Ceiling
                           => \A s \in Registered : ~Idle(proc[s]) \/ AtWork(s)
    OBVIOUS
  <2>1. ASSUME NEW s \in Sessions, NEW k \in Keys, EvictedFor(s, k), Usable(proc[s])
        PROVE  Cardinality({x \in Registered' : x \in Registered => Usable(proc'[x])}) >= Ceiling
    <3>1. ~UNCHANGED vars
      BY <2>1 DEF EvictedFor, vars, entryVars
    <3>2. PICK x \in Sessions, carry \in BOOLEAN, ok \in BOOLEAN : \E V :
            Spawning(k, x, carry, ok, V) /\ SpawnTurn(k, x, carry, ok) /\ s \in V
      BY <2>1, <3>1, EvictedAreVictims
    <3>3. PICK V : Spawning(k, x, carry, ok, V) /\ SpawnTurn(k, x, carry, ok) /\ s \in V
      BY <3>2
    <3> QED
      BY <3>3, EvictedWhenFull
  <2>2. ASSUME Cardinality(Registered') > Cardinality(Registered), Cardinality(Registered') > Ceiling
        PROVE  \A s \in Registered : ~Idle(proc[s]) \/ AtWork(s)
    <3>1. PICK k \in Keys, s \in Sessions, carry \in BOOLEAN, ok \in BOOLEAN :
            \E V : Spawning(k, s, carry, ok, V)
      BY <2>2, OnlySpawnsAdd
    <3>2. PICK V : Spawning(k, s, carry, ok, V)
      BY <3>1
    <3> QED
      BY <2>2, <3>2, OverfullWhenAllWork
  <2> QED
    BY <2>1, <2>2
<1> QED
  BY <1>1, MapIsAlwaysSound, PTL DEF Spec, EvictionFitsTheCeiling

-----------------------------------------------------------------------------
(* What a close stops is told.                                              *)

\* A close owes the detached commands it stops to their key, and drops no
\* line.
LEMMA OwedGrows ==
  ASSUME TypeOK, NEW C \in SUBSET Sessions
  PROVE  /\ \A x \in Keys : owed[x].prompts \subseteq OwedWith(C)[x].prompts
         /\ ~shuttingDown => \A s \in C : proc[s].shells = "detached" => s \in OwedWith(C)[owner[s]].prompts
<1>1. ASSUME NEW x \in Keys
      PROVE  OwedWith(C)[x].prompts =
               IF shuttingDown THEN owed[x].prompts
               ELSE owed[x].prompts \cup {s \in C : owner[s] = x /\ proc[s].shells = "detached"}
  BY DEF OwedWith
<1>2. \A s \in C : owner[s] \in Keys
  BY DEF TypeOK
<1> QED
  BY <1>1, <1>2

\* A turn opened on a key drops the lines of the notes it reads, and only
\* when its prompt carried them.
LEMMA ToldDrops ==
  ASSUME NEW notes, NEW k, NEW carried \in BOOLEAN, NEW x \in Keys, ~carried \/ x \notin OwedKeys(k)
  PROVE  Told(notes, k, carried)[x].prompts = notes[x].prompts
BY DEF Told

\* No line is dropped but with a torn-down run, and whatever left the map
\* with a detached command is in a line.
NotesKept ==
  /\ \A x \in Keys : owed[x].prompts \subseteq owed'[x].prompts \/ RunCleared(RunOf[x])
  /\ \A s \in Registered \ Registered' : proc[s].shells = "detached" /\ ~shuttingDown'
       => s \in owed'[owner[s]].prompts \/ RunCleared(RunOf[owner[s]])

\* One process leaves the map, and what it served is owed.
LEMMA OneCloseKeepsNotes ==
  ASSUME SoundRegistry, NEW s \in Sessions, entries' = EntriesWithout({s}), owed' = OwedWith({s}),
         UNCHANGED <<owner, shuttingDown>>
  PROVE  NotesKept
<1>1. TypeOK /\ {s} \in SUBSET Sessions
  BY DEF SoundRegistry
<1>2. Registered' = Registered \ {s}
  BY <1>1, RegisteredWithout
<1> QED
  BY <1>1, <1>2, OwedGrows DEF NotesKept

\* A teardown clears what its run was owed, with its processes.
LEMMA TeardownClears ==
  ASSUME SoundRegistry, MapIsSound, NEW r \in Runs, CloseRun(r) PROVE NotesKept
<1> DEFINE C == UnderRun(Registered, r)
<1>0. TypeOK /\ C \in SUBSET Sessions
  BY DEF SoundRegistry, UnderRun, Registered
<1>1. /\ entries' = EntriesWithout(C) /\ owner' = owner
      /\ owed' = [k \in Keys |-> IF RunOf[k] = r THEN NoNotes ELSE owed[k]]
  BY DEF CloseRun
<1>2. RunCleared(r)
  <2> SUFFICES ASSUME NEW k \in Keys, RunOf[k] = r PROVE entries'[k] = NoSession /\ owed'[k] = NoNotes
    BY DEF RunCleared, KeysOfRun
  <2>1. entries[k] # NoSession => entries[k] \in C
    BY <1>0 DEF MapIsSound, TypeOK, UnderRun, Registered
  <2> QED
    BY <1>1, <2>1 DEF EntriesWithout
<1>3. Registered' = Registered \ C
  BY <1>0, <1>1, RegisteredWithout
<1> QED
  BY <1>1, <1>2, <1>3 DEF NotesKept, UnderRun

\* The steps that open no turn keep the notes.
LEMMA OtherStepsKeepNotes == SoundRegistry /\ MapIsSound /\ OtherStep => NotesKept
<1> SUFFICES ASSUME SoundRegistry, MapIsSound, OtherStep PROVE NotesKept
  OBVIOUS
<1>0. TypeOK
  BY DEF SoundRegistry
<1> USE DEF entryVars, closeVars
<1>1. ASSUME UNCHANGED <<entries, owner, owed>> PROVE NotesKept
  BY <1>1 DEF NotesKept, Registered
<1>2. ASSUME NEW s \in Sessions, NEW forced \in BOOLEAN, NEW parked \in BOOLEAN, SettleTurn(s, forced, parked)
      PROVE  NotesKept
  BY <1>1, <1>2 DEF SettleTurn
<1>3. ASSUME NEW s \in Sessions, FinishOneTurn(s) \/ CancelTurn(s) \/ InterruptDeadline(s) PROVE NotesKept
  BY <1>1, <1>3 DEF FinishOneTurn, CancelTurn, InterruptDeadline
<1>4. CASE Processes
  <2>1. ASSUME NEW s \in Sessions, OffTurnRow(s) \/ ExitDeadline(s) \/ Exit(s) PROVE NotesKept
    BY <1>1, <2>1 DEF OffTurnRow, ExitDeadline, Exit
  <2>2. ASSUME NEW s \in Sessions, NEW shown \in BOOLEAN, Park(s, shown) PROVE NotesKept
    BY <1>1, <2>2 DEF Park
  <2>3. ASSUME NEW s \in Sessions, NEW kind \in ShellKinds, ShellsChange(s, kind) PROVE NotesKept
    BY <1>1, <2>3 DEF ShellsChange
  <2>4. ASSUME NEW s \in Sessions, Ended(s) PROVE NotesKept
    <3>1. /\ entries' = EntriesWithout({s}) /\ UNCHANGED <<owner, shuttingDown>>
          /\ owed' = IF s \in Registered THEN OwedWith({s}) ELSE owed
      BY <2>4 DEF Ended, StillRegistered
    <3>2. CASE s \in Registered
      BY <3>1, <3>2, OneCloseKeepsNotes
    <3>3. CASE s \notin Registered
      <4>1. {s} \in SUBSET Sessions
        OBVIOUS
      <4>2. Registered' = Registered \ {s}
        BY <1>0, <3>1, <4>1, RegisteredWithout
      <4> QED
        BY <3>1, <3>3, <4>2 DEF NotesKept
    <3> QED
      BY <3>2, <3>3
  <2> QED
    BY <1>4, <2>1, <2>2, <2>3, <2>4 DEF Processes
<1>5. CASE Windowing
  <2>1. ASSUME NEW k \in Keys, IdleFire(k) PROVE NotesKept
    BY <1>1, <2>1 DEF IdleFire
  <2>2. ASSUME NEW w \in Windows, SetIdleMinutes(w) PROVE NotesKept
    BY <1>1, <2>2 DEF SetIdleMinutes
  <2>3. ASSUME NEW s \in Sessions, FarewellDone(s) PROVE NotesKept
    <3>1. CASE s \in Registered /\ Idle(proc[s])
      BY <2>3, <3>1, OneCloseKeepsNotes DEF FarewellDone
    <3>2. CASE ~(s \in Registered /\ Idle(proc[s]))
      BY <1>1, <2>3, <3>2 DEF FarewellDone
    <3> QED
      BY <3>1, <3>2
  <2> QED
    BY <1>5, <2>1, <2>2, <2>3 DEF Windowing
<1>6. CASE Closes
  <2>1. ASSUME NEW k \in Keys, NEW cause \in Causes, Close(k, cause) PROVE NotesKept
    <3>1. PICK s \in Registered : entries' = EntriesWithout({s}) /\ owed' = OwedWith({s})
      BY <2>1 DEF Close
    <3>2. s \in Sessions /\ UNCHANGED <<owner, shuttingDown>>
      BY <2>1 DEF Close, Registered
    <3> QED
      BY <3>1, <3>2, OneCloseKeepsNotes
  <2>2. ASSUME NEW r \in Runs, NoteUserStop(r) PROVE NotesKept
    BY <1>1, <2>2 DEF NoteUserStop
  <2>3. CASE CloseAll
    BY <2>3 DEF CloseAll, NotesKept
  <2>4. ASSUME NEW s \in Sessions, NEW cause \in StaleCauses \ {"none"}, NEW same \in BOOLEAN,
               MarkStale(s, cause, same)
        PROVE  NotesKept
    BY <1>1, <2>4 DEF MarkStale
  <2>5. ASSUME NEW k \in Keys, OweKeyNote(k) PROVE NotesKept
    <3>1. \A x \in Keys : owed[x].prompts \subseteq owed'[x].prompts
      BY <1>0, <2>5 DEF OweKeyNote, TypeOK, Notes
    <3>2. Registered' = Registered
      BY <2>5 DEF OweKeyNote, Registered
    <3> QED
      BY <3>1, <3>2 DEF NotesKept
  <2> QED
    BY <1>6, <2>1, <2>2, <2>3, <2>4, <2>5, TeardownClears DEF Closes
<1>7. CASE Tick \/ Sleep
  BY <1>1, <1>7 DEF Tick, Sleep
<1> QED
  BY <1>2, <1>3, <1>4, <1>5, <1>6, <1>7 DEF OtherStep

\* A turn opens on s for key k: the notes k is owed are read.
LEMMA OpenedTurnsRead ==
  ASSUME NEW s \in Sessions, NEW k \in Keys, TurnOpened(s), proc'[s].state \in {"live", "killed"}, owner'[s] = k
  PROVE  \A x \in OwedKeys(k) : ReadBy(x)
BY DEF ReadBy

\* A turn's own start keeps the notes, or its agent reads them.
LEMMA TurnsTell ==
  ASSUME SoundRegistry, NEW k \in Keys, NEW carry \in BOOLEAN,
         \/ ReuseTurn(k, carry)
         \/ \E s \in Sessions, ok \in BOOLEAN : SpawnTurn(k, s, carry, ok)
  PROVE  /\ \A x \in Keys : owed[x].prompts \subseteq owed'[x].prompts \/ ReadBy(x)
         /\ \A s \in Registered \ Registered' : proc[s].shells = "detached" /\ ~shuttingDown'
              => s \in owed'[owner[s]].prompts \/ ReadBy(owner[s])
<1>0. TypeOK /\ proc \in [Sessions -> Proc] /\ owner \in [Sessions -> Keys]
  BY DEF SoundRegistry, TypeOK
<1>1. CASE ReuseTurn(k, carry)
  <2>1. PICK s \in Registered :
          owner[s] = k /\ Accepts(proc[s]) /\ proc' = [proc EXCEPT ![s] = WithTurn(@)]
    BY <1>1 DEF ReuseTurn
  <2>2. s \in Sessions /\ owner' = owner /\ Registered' = Registered /\ owed' = Told(owed, k, carry)
    BY <1>1 DEF Registered, ReuseTurn
  <2>3. WithTurn(proc[s]).turn = TRUE /\ WithTurn(proc[s]).state = proc[s].state
    BY <1>0, <2>2, TurnFields
  <2>4. proc'[s] = WithTurn(proc[s]) /\ proc[s].state \in {"live", "killed"} /\ ~proc[s].turn
    BY <1>0, <2>1, <2>2 DEF Accepts, Idle
  <2>5. TurnOpened(s) /\ proc'[s].state \in {"live", "killed"} /\ owner'[s] = k
    BY <2>1, <2>2, <2>3, <2>4 DEF TurnOpened
  <2>6. \A x \in OwedKeys(k) : ReadBy(x)
    BY <2>2, <2>5, OpenedTurnsRead
  <2>7. \A x \in Keys : x \notin OwedKeys(k) => owed'[x].prompts = owed[x].prompts
    BY <2>2, ToldDrops
  <2> QED
    BY <2>2, <2>6, <2>7
<1>2. ASSUME NEW s \in Sessions, NEW ok \in BOOLEAN, SpawnTurn(k, s, carry, ok)
      PROVE  /\ \A x \in Keys : owed[x].prompts \subseteq owed'[x].prompts \/ ReadBy(x)
             /\ \A e \in Registered \ Registered' : proc[e].shells = "detached" /\ ~shuttingDown'
                  => e \in owed'[owner[e]].prompts \/ ReadBy(owner[e])
  <2>1. PICK V : Spawning(k, s, carry, ok, V)
    BY <1>2, SpawnTurnSpawns
  <2> DEFINE C == Dropped(k, V)
  <2>2. C \in SUBSET Sessions /\ owed' = Told(OwedWith(C), k, carry /\ ok) /\ Registered \ Registered' \subseteq C
    BY <2>1 DEF Spawning, Registered
  <2>3. shuttingDown' = shuttingDown
    BY <1>2 DEF SpawnTurn
  <2> HIDE DEF C
  <2>4. /\ \A x \in Keys : owed[x].prompts \subseteq OwedWith(C)[x].prompts
        /\ ~shuttingDown => \A e \in C : proc[e].shells = "detached" => e \in OwedWith(C)[owner[e]].prompts
    BY <1>0, <2>2, OwedGrows
  <2>5. CASE carry /\ ok
    <3>1. proc'[s] = Spawned(~shuttingDown, ok) /\ proc[s] = FreeProc /\ owner'[s] = k
      BY <1>0, <2>1 DEF Spawning
    <3>2. proc'[s].turn /\ proc'[s].state = "live" /\ ~proc[s].turn
      BY <2>5, <3>1 DEF Spawned, FreeProc
    <3>3. \A x \in OwedKeys(k) : ReadBy(x)
      BY <3>1, <3>2, OpenedTurnsRead DEF TurnOpened
    <3>4. \A x \in Keys : x \notin OwedKeys(k) => owed'[x].prompts = OwedWith(C)[x].prompts
      BY <2>2, <2>5, ToldDrops
    <3> QED
      BY <1>0, <2>2, <2>3, <2>4, <3>3, <3>4
  <2>6. CASE ~(carry /\ ok)
    <3>1. \A x \in Keys : owed'[x].prompts = OwedWith(C)[x].prompts
      BY <2>2, <2>6, ToldDrops
    <3> QED
      BY <1>0, <2>2, <2>3, <2>4, <3>1
  <2> QED
    BY <2>5, <2>6
<1> QED
  BY <1>1, <1>2

\* What a close or a crash stopped is carried to the agent: the line stays
\* owed until a turn that can read it opens, or its run is torn down
\* (closeEntry, tellStopped).
THEOREM StopsAreTold == Spec => StoppedCommandsAreTold
<1>1. SoundRegistry /\ MapIsSound /\ [Next]_vars =>
        \A s \in Sessions :
          /\ s \in Registered /\ s \notin Registered' /\ proc[s].shells = "detached" /\ ~shuttingDown'
               => s \in owed'[owner[s]].prompts \/ ReadBy(owner[s]) \/ RunCleared(RunOf[owner[s]])
          /\ \A x \in Keys : s \in owed[x].prompts /\ s \notin owed'[x].prompts
               => ReadBy(x) \/ RunCleared(RunOf[x])
  <2> SUFFICES ASSUME SoundRegistry, MapIsSound, [Next]_vars, NEW s \in Sessions
               PROVE  /\ s \in Registered /\ s \notin Registered' /\ proc[s].shells = "detached" /\ ~shuttingDown'
                           => s \in owed'[owner[s]].prompts \/ ReadBy(owner[s]) \/ RunCleared(RunOf[owner[s]])
                      /\ \A x \in Keys : s \in owed[x].prompts /\ s \notin owed'[x].prompts
                           => ReadBy(x) \/ RunCleared(RunOf[x])
    OBVIOUS
  <2>1. CASE OtherStep
    BY <2>1, OtherStepsKeepNotes DEF NotesKept
  <2>2. CASE UNCHANGED vars
    BY <2>2 DEF vars, entryVars, Registered
  <2>3. ASSUME NEW k \in Keys, NEW carry \in BOOLEAN,
               \/ ReuseTurn(k, carry)
               \/ \E e \in Sessions, ok \in BOOLEAN : SpawnTurn(k, e, carry, ok)
        PROVE  /\ s \in Registered /\ s \notin Registered' /\ proc[s].shells = "detached" /\ ~shuttingDown'
                    => s \in owed'[owner[s]].prompts \/ ReadBy(owner[s])
               /\ \A x \in Keys : s \in owed[x].prompts /\ s \notin owed'[x].prompts => ReadBy(x)
    BY <2>3, TurnsTell
  <2> QED
    BY <2>1, <2>2, <2>3, StepsAre
<1> QED
  BY <1>1, MapIsAlwaysSound, PTL DEF Spec, StoppedCommandsAreTold
=============================================================================
