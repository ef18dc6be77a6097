--------------------------- MODULE SessionRegistry ---------------------------
(***************************************************************************)
(* AgentSessionRegistry: the owner of the CLI processes that outlive the   *)
(* turns run on them.  At most one process is kept per session key (a      *)
(* chat's run, or one conversation of a team's run); it is reused by the   *)
(* next turn, replaced when a change made it stale, evicted when too many  *)
(* are kept, and closed when it went unused for the idle window.           *)
(*                                                                         *)
(* Time counts units of OFF_TURN_ACTIVE_MS (five minutes, also the least   *)
(* idle window).  What takes seconds (a farewell, an exit) is shorter than *)
(* one unit: Tick waits for it.  Ages stop at their cap, so no behaviour   *)
(* is cut by a clock bound.  A promise's callbacks run before the next     *)
(* event of a child, a timer or a request: they belong to the action that  *)
(* resolves it.                                                            *)
(***************************************************************************)
EXTENDS CliSession, FiniteSets

CONSTANTS
  Keys,        \* session keys
  Runs,        \* runs; a chat's run is itself a key
  RunOf,       \* runIdOfSessionKey
  Sessions,    \* identities of CLI processes, reused once a process is gone
  NoSession,
  HostNote,    \* a prompt line owed by another service
  Ceiling,     \* MAX_LIVE_SESSIONS
  Windows,     \* idle windows the user may set, in units
  MaxWindow,   \* the cap of an age
  NoTimer,
  Happenings   \* which events of the environment an instance includes

ASSUME KeysAssumption ==
  /\ Runs \subseteq Keys /\ Keys # {}
  /\ RunOf \in [Keys -> Runs]
  /\ \A r \in Runs : RunOf[r] = r
ASSUME SessionsAssumption == NoSession \notin Sessions /\ HostNote \notin Sessions
ASSUME TimeAssumption ==
  /\ MaxWindow \in Nat \ {0}
  /\ Windows \subseteq 1 .. MaxWindow
  /\ Windows # {}
  /\ NoTimer \notin Nat
ASSUME CeilingAssumption == Ceiling \in Nat \ {0}

StaleCauses == {"none", "mcp", "account", "conversation"}
OffTurnActive == 1     \* OFF_TURN_ACTIVE_MS, in units

VARIABLES
  proc,         \* [Sessions -> Proc]
  entries,      \* [Keys -> Sessions or NoSession]: the kept process of a key
  owner,        \* [Sessions -> Keys]: the key it was spawned under
  stale,        \* [Sessions -> mark]: cause, and which deferral notes were given
  used,         \* [Sessions -> age of lastUsedAt]
  off,          \* [Sessions -> age of offTurnActiveAt]
  timer,        \* [Sessions -> NoTimer, or awake time since the window started]
  farewell,     \* sessions whose farewell is being awaited
  closing,      \* closed gracefully and not ended
  idleExits,    \* whose end the idle-close listeners are owed
  owed,         \* [Keys -> rows and prompts of the notes a next turn carries]
  runUsed,      \* [Runs -> age of runUsedAt]
  idleWindow,
  shuttingDown,
  notice        \* history: how often onClosed listeners were told of each process

entryVars == <<entries, owner, stale, used, off, timer>>
closeVars == <<closing, idleExits, farewell>>
vars == <<proc, entryVars, closeVars, owed, runUsed, idleWindow, shuttingDown, notice>>

Mark == [cause : StaleCauses, rowWritten : BOOLEAN, told : BOOLEAN]
NoMark == [cause |-> "none", rowWritten |-> FALSE, told |-> FALSE]
Ages == 0 .. MaxWindow
Notes == [rows : SUBSET Sessions, prompts : SUBSET (Sessions \cup {HostNote})]
NoNotes == [rows |-> {}, prompts |-> {}]
Notices == 0 .. 2      \* 2: more than once

TypeOK ==
  /\ proc \in [Sessions -> Proc]
  /\ entries \in [Keys -> Sessions \cup {NoSession}]
  /\ owner \in [Sessions -> Keys]
  /\ stale \in [Sessions -> Mark]
  /\ used \in [Sessions -> Ages] /\ off \in [Sessions -> Ages]
  /\ timer \in [Sessions -> Ages \cup {NoTimer}]
  /\ farewell \subseteq Sessions /\ closing \subseteq Sessions /\ idleExits \subseteq Sessions
  /\ owed \in [Keys -> Notes]
  /\ runUsed \in [Runs -> Ages]
  /\ idleWindow \in Windows
  /\ shuttingDown \in BOOLEAN
  /\ notice \in [Sessions -> Notices]

Init ==
  /\ proc = [s \in Sessions |-> FreeProc]
  /\ entries = [k \in Keys |-> NoSession]
  /\ owner = [s \in Sessions |-> CHOOSE k \in Keys : TRUE]
  /\ stale = [s \in Sessions |-> NoMark]
  /\ used = [s \in Sessions |-> 0]
  /\ off = [s \in Sessions |-> MaxWindow]
  /\ timer = [s \in Sessions |-> NoTimer]
  /\ farewell = {} /\ closing = {} /\ idleExits = {}
  /\ owed = [k \in Keys |-> NoNotes]
  /\ runUsed = [r \in Runs |-> MaxWindow]
  /\ idleWindow \in Windows
  /\ shuttingDown = FALSE
  /\ notice = [s \in Sessions |-> 0]
-----------------------------------------------------------------------------
(* What the registry reads off an entry.                                   *)

Registered == {s \in Sessions : entries[owner[s]] = s}
KeysOfRun(r) == {k \in Keys : RunOf[k] = r}
UnderRun(S, r) == {s \in S : RunOf[owner[s]] = r}

WorksOffTurn(s) == off[s] < OffTurnActive
\* (mutant) eviction and stale marks forget the agent that works by itself
HoldsWork_QuietOnly(s) == proc[s].parked \/ proc[s].shells # "none"
HoldsWork(s) == proc[s].parked \/ WorksOffTurn(s) \/ proc[s].shells # "none"
MayKeepStale(s) == stale[s].cause = "mcp" /\ Alive(proc[s]) /\ HoldsWork(s)
MustReplace(s) == stale[s].cause # "none" /\ ~MayKeepStale(s)
\* Where a turn on key k finds what it is owed: its own key, then its run.
OwedKeys(k) == {k, RunOf[k]}

\* (mutant) the last change wins
MergeStale_LastWins(mark, cause, sameReason) ==
  IF mark.cause = cause /\ sameReason THEN mark
  ELSE [cause |-> cause, rowWritten |-> FALSE, told |-> FALSE]
\* A cause that cannot wait outranks mcp, and stands; a new mcp reason is a
\* new mark, to be told again.
MergeStale(mark, cause, sameReason) ==
  LET fresh == [cause |-> cause, rowWritten |-> FALSE, told |-> FALSE] IN
  IF mark.cause \notin {"none", "mcp"} \/ (mark.cause = "mcp" /\ cause = "mcp" /\ sameReason)
  THEN mark ELSE fresh
-----------------------------------------------------------------------------
(* closeEntry, for a set C of entries closed in one step.                  *)

EntriesWithout(C) == [k \in Keys |-> IF entries[k] \in C THEN NoSession ELSE entries[k]]
TimersWithout(C)  == [s \in Sessions |-> IF s \in C THEN NoTimer ELSE timer[s]]
\* The onClosed listeners are told.
NotifyClosed(times) == IF times = 0 THEN 1 ELSE 2
NoticesWith(C) ==
  [s \in Sessions |-> IF s \in C /\ ~shuttingDown THEN NotifyClosed(notice[s]) ELSE notice[s]]
\* The detached commands a close stops are owed to the next turn on the key.
OwedWith(C) ==
  [k \in Keys |->
     LET stopped == {s \in C : owner[s] = k /\ proc[s].shells = "detached"} IN
     IF shuttingDown THEN owed[k]
     ELSE [rows |-> owed[k].rows \cup stopped, prompts |-> owed[k].prompts \cup stopped]]
ProcsClosing(C, cause) ==
  [s \in Sessions |-> IF s \in C THEN Closed(proc[s], cause) ELSE proc[s]]

\* (mutant) the lines are dropped with the rows, carried or not
Told_DropsPrompts(notes, k, carried) ==
  [x \in Keys |-> IF x \notin OwedKeys(k) THEN notes[x] ELSE NoNotes]
\* tellStopped: a turn opened on k writes the owed rows, and drops the
\* prompt lines once its own prompt carried them.
Told(notes, k, carried) ==
  [x \in Keys |->
     IF x \notin OwedKeys(k) THEN notes[x]
     ELSE [rows |-> {}, prompts |-> IF carried THEN {} ELSE notes[x].prompts]]

\* noteUsed: uses older than the window are forgotten, this run's is now.
UsedNow(key) ==
  [r \in Runs |-> IF r = RunOf[key] THEN 0
                  ELSE IF runUsed[r] >= idleWindow THEN MaxWindow ELSE runUsed[r]]

\* touchOffTurn(key): the entry now registered under the key, if its window runs.
Touched(key) == {s \in Sessions : entries[key] = s /\ timer[s] # NoTimer}
TouchOffTurn(key) ==
  LET T == Touched(key) IN
  /\ used'  = [s \in Sessions |-> IF s \in T THEN 0 ELSE used[s]]
  /\ off'   = [s \in Sessions |-> IF s \in T THEN 0 ELSE off[s]]
  /\ timer' = [s \in Sessions |-> IF s \in T THEN 0 ELSE timer[s]]
  /\ runUsed' = IF T = {} THEN runUsed ELSE UsedNow(key)
-----------------------------------------------------------------------------
(* Turns.  A key has at most one turn in flight: its caller claims it.     *)

CallerFree(k) == \A s \in Registered : owner[s] = k => ~proc[s].turn

\* startTurn on the kept process: the change that made it stale may wait,
\* and the process accepts the turn.
ReuseTurn(k, carry) ==
  /\ CallerFree(k)
  /\ \E s \in Registered :
       /\ owner[s] = k
       /\ ~MustReplace(s)
       /\ Accepts(proc[s])
       /\ stale' = IF stale[s].cause # "none" /\ ~stale[s].told
                   THEN [stale EXCEPT ![s] = [@ EXCEPT !.rowWritten = TRUE, !.told = carry]]
                   ELSE stale
       /\ proc' = [proc EXCEPT ![s] = WithTurn(@)]
       /\ timer' = [timer EXCEPT ![s] = NoTimer]
  /\ owed' = Told(owed, k, carry)
  /\ runUsed' = UsedNow(k)
  /\ UNCHANGED <<entries, owner, used, off, closeVars, idleWindow, shuttingDown, notice>>

\* evictIfFull over the entries left: the dead and the retired go, then the
\* least recently used of those that do nothing, until there is room.
Unusable(s) == ~Alive(proc[s]) \/ proc[s].retired
Evictable(s) == Idle(proc[s]) /\ ~HoldsWork(s)
\* (mutant) room is made only once the ceiling is passed
ToEvict_Late(n) == IF n > Ceiling THEN n - Ceiling ELSE 0
\* How many of n must go for one more to fit.
ToEvict(n) == IF n >= Ceiling THEN n + 1 - Ceiling ELSE 0
Victims(R) ==
  LET left == {s \in R : ~Unusable(s)}
      free == {s \in left : Evictable(s)}
      need == ToEvict(Cardinality(left))
  IN {V \in SUBSET free :
        /\ Cardinality(V) = IF Cardinality(free) < need THEN Cardinality(free) ELSE need
        /\ \A v \in V, u \in free \ V : used[v] >= used[u]}

\* startTurn with no process it can use: the one kept (if any) is closed,
\* room is made, and a fresh one is spawned.  argv is what the turn needs
\* that the kept process may not have been spawned with.
SpawnTurn(k, s, carry, ok) ==
  /\ CallerFree(k)
  /\ proc[s] = FreeProc
  /\ s \notin farewell
  /\ \A x \in Keys : s \notin owed[x].rows \cup owed[x].prompts
  /\ \A e \in Registered :
       owner[e] = k => MustReplace(e) \/ ~Accepts(proc[e]) \/ "argv" \in Happenings
  /\ \E V \in Victims({e \in Registered : owner[e] # k}) :
       LET kept == {e \in Registered : owner[e] = k}
           C == kept \cup {e \in Registered : Unusable(e)} \cup V
       IN
       /\ entries' = [EntriesWithout(C) EXCEPT ![k] = s]
       /\ timer' = [TimersWithout(C) EXCEPT ![s] = NoTimer]
       /\ proc' = [x \in Sessions |->
                     IF x = s THEN Spawned(~shuttingDown, ok)
                     ELSE IF x \in kept THEN Closed([proc[x] EXCEPT !.cause = "none"], "none")
                     ELSE IF x \in C THEN Closed(proc[x], "none") ELSE proc[x]]
       /\ notice' = [NoticesWith(C) EXCEPT ![s] = 0]
       /\ owed' = Told(OwedWith(C), k, carry /\ ok)
  /\ owner' = [owner EXCEPT ![s] = k]
  /\ stale' = [stale EXCEPT ![s] = NoMark]
  /\ used' = [used EXCEPT ![s] = 0]
  /\ off' = [off EXCEPT ![s] = MaxWindow]
  /\ runUsed' = UsedNow(k)
  /\ UNCHANGED <<closeVars, idleWindow, shuttingDown>>

\* The CLI ends the turn of a kept process; track arms the idle window if
\* the entry is still the registered one.
SettleTurn(s, forced, parked) ==
  /\ Alive(proc[s]) /\ proc[s].scoped /\ proc[s].turn
  /\ parked => "park" \in Happenings
  /\ proc' = [proc EXCEPT ![s] = TurnSettled(@, forced, parked)]
  /\ IF s \in Registered
     THEN /\ used' = [used EXCEPT ![s] = 0]
          /\ timer' = [timer EXCEPT ![s] = 0]
          /\ runUsed' = UsedNow(owner[s])
     ELSE UNCHANGED <<used, timer, runUsed>>
  /\ UNCHANGED <<entries, owner, stale, off, closeVars, owed, idleWindow, shuttingDown, notice>>

\* A process spawned during shutdown serves one turn: stdin is ended with
\* it, and the turn settles when the process does.
FinishOneTurn(s) ==
  /\ proc[s].state = "live" /\ ~proc[s].scoped /\ proc[s].turn
  /\ proc' = [proc EXCEPT ![s].state = "ending"]
  /\ UNCHANGED <<entryVars, closeVars, owed, runUsed, idleWindow, shuttingDown, notice>>

\* The turn's handle is cancelled: a kept process is asked to stop in
\* protocol (a turn whose prompt it was not sent yet settles next, for it),
\* a one-turn process is signalled.
CancelTurn(s) ==
  /\ "cancel" \in Happenings
  /\ proc[s].state = "live" /\ proc[s].turn /\ ~proc[s].cancelling
  /\ proc' = [proc EXCEPT ![s] = IF @.scoped THEN [@ EXCEPT !.cancelling = TRUE]
                                 ELSE Signalled([@ EXCEPT !.cancelling = TRUE])]
  /\ UNCHANGED <<entryVars, closeVars, owed, runUsed, idleWindow, shuttingDown, notice>>

\* INTERRUPT_SETTLE_GRACE_MS passed and the stopped turn is still open.
InterruptDeadline(s) ==
  /\ proc[s].state = "live" /\ proc[s].cancelling
  /\ proc' = [proc EXCEPT ![s] = Signalled(@)]
  /\ UNCHANGED <<entryVars, closeVars, owed, runUsed, idleWindow, shuttingDown, notice>>
-----------------------------------------------------------------------------
(* What a process does between turns.                                      *)

\* A row with no turn of ours open.
OffTurnRow(s) ==
  /\ "rows" \in Happenings
  /\ Alive(proc[s]) /\ ~proc[s].turn
  /\ TouchOffTurn(owner[s])
  /\ UNCHANGED <<proc, entries, owner, stale, closeVars, owed, idleWindow, shuttingDown, notice>>

\* A request is held for the user, or leaves: answered or withdrawn.  The
\* withdrawal of one whose card was shown is a row.
Park(s, shown) ==
  /\ "park" \in Happenings
  /\ Alive(proc[s]) /\ ~proc[s].turn
  /\ shown => proc[s].parked
  /\ proc' = [proc EXCEPT ![s].parked = ~@]
  /\ IF shown THEN TouchOffTurn(owner[s])
     ELSE UNCHANGED <<used, off, timer, runUsed>>
  /\ UNCHANGED <<entries, owner, stale, closeVars, owed, idleWindow, shuttingDown, notice>>

\* The commands it runs change.  A detached one's start and end are rows.
ShellsChange(s, kind) ==
  /\ "shells" \in Happenings
  /\ Alive(proc[s]) /\ kind # proc[s].shells
  /\ proc' = [proc EXCEPT ![s].shells = kind]
  /\ IF ~proc[s].turn /\ "detached" \in {kind, proc[s].shells}
     THEN TouchOffTurn(owner[s])
     ELSE UNCHANGED <<used, off, timer, runUsed>>
  /\ UNCHANGED <<entries, owner, stale, closeVars, owed, idleWindow, shuttingDown, notice>>

\* TURN_END_EXIT_GRACE_MS after stdin was ended.
ExitDeadline(s) ==
  /\ proc[s].state = "ending"
  /\ proc' = [proc EXCEPT ![s] = Signalled(@)]
  /\ UNCHANGED <<entryVars, closeVars, owed, runUsed, idleWindow, shuttingDown, notice>>

\* `exit`: asked for, or a crash.
Exit(s) ==
  /\ Alive(proc[s])
  /\ proc[s].state = "live" => "crash" \in Happenings
  /\ proc' = [proc EXCEPT ![s].state = "exited"]
  /\ UNCHANGED <<entryVars, closeVars, owed, runUsed, idleWindow, shuttingDown, notice>>

\* (mutant) whoever ends is announced, registered or not
StillRegistered_Always(s) == proc[s].state # "free"
\* forgetWhenClosed speaks only for the entry still in the map.
StillRegistered(s) == s \in Registered

\* `closed` resolves.  Ending the process first writes the rows of the work
\* still out in it (off-turn rows when no turn is open), then an entry still
\* registered is forgotten, and the listeners of an idle close are told
\* unless the run was used meanwhile.  The record of a gone process is reset.
Ended(s) ==
  /\ proc[s].state = "exited"
  /\ LET own     == StillRegistered(s)
         touched == IF proc[s].shells # "none" /\ ~proc[s].turn THEN Touched(owner[s]) ELSE {}
         late    == touched \ {s}
         uses    == IF touched = {} THEN runUsed ELSE UsedNow(owner[s])
         run     == RunOf[owner[s]]
     IN
     /\ used'  = [x \in Sessions |-> IF x \in late \cup {s} THEN 0 ELSE used[x]]
     /\ off'   = [x \in Sessions |-> IF x = s THEN MaxWindow ELSE IF x \in late THEN 0 ELSE off[x]]
     /\ timer' = [x \in Sessions |-> IF x = s THEN NoTimer ELSE IF x \in late THEN 0 ELSE timer[x]]
     /\ runUsed' = IF s \in idleExits /\ uses[run] >= idleWindow
                   THEN [uses EXCEPT ![run] = MaxWindow] ELSE uses
     /\ entries' = EntriesWithout({s})
     /\ notice' = IF own /\ ~shuttingDown
                  THEN [notice EXCEPT ![s] = NotifyClosed(@)] ELSE notice
     /\ owed' = IF own THEN OwedWith({s}) ELSE owed
  /\ proc' = [proc EXCEPT ![s] = FreeProc]
  /\ stale' = [stale EXCEPT ![s] = NoMark]
  /\ closing' = closing \ {s}
  /\ idleExits' = idleExits \ {s}
  /\ UNCHANGED <<owner, farewell, idleWindow, shuttingDown>>
-----------------------------------------------------------------------------
(* The idle window.                                                        *)

\* (mutant) a process found busy is left without a window
Rearmed_Never(s) == NoTimer
\* The timer after it fired: armed again over a question or a command.
Waits(s) == proc[s].shells # "none" \/ proc[s].parked
Rearmed(s) == IF Idle(proc[s]) /\ Waits(s) THEN 0 ELSE NoTimer

\* The window of key k ran out.
IdleFire(k) ==
  \E s \in Registered :
    /\ owner[s] = k /\ timer[s] # NoTimer /\ timer[s] >= idleWindow
    /\ timer' = [timer EXCEPT ![s] = Rearmed(s)]
    /\ farewell' = IF Idle(proc[s]) /\ ~Waits(s) THEN farewell \cup {s} ELSE farewell
    /\ UNCHANGED <<proc, entries, owner, stale, used, off, closing, idleExits, owed, runUsed,
                   idleWindow, shuttingDown, notice>>

\* The farewell came back: what is still registered and idle is closed,
\* gracefully.
FarewellDone(s) ==
  /\ s \in farewell
  /\ farewell' = farewell \ {s}
  /\ IF s \in Registered /\ Idle(proc[s])
     THEN /\ owed' = OwedWith({s})
          /\ entries' = EntriesWithout({s})
          /\ timer' = TimersWithout({s})
          /\ closing' = closing \cup {s}
          /\ idleExits' = idleExits \cup {s}
          /\ proc' = [proc EXCEPT ![s] = GracefullyClosed(@)]
          /\ notice' = NoticesWith({s})
     ELSE UNCHANGED <<owed, entries, timer, closing, idleExits, proc, notice>>
  /\ UNCHANGED <<owner, stale, used, off, runUsed, idleWindow, shuttingDown>>

\* setIdleMinutes: a window already waited out is re-timed from its start.
SetIdleMinutes(w) ==
  /\ "window" \in Happenings
  /\ w # idleWindow
  /\ idleWindow' = w
  /\ UNCHANGED <<proc, entryVars, closeVars, owed, runUsed, shuttingDown, notice>>
-----------------------------------------------------------------------------
(* Closes asked for by the other services.                                 *)

Close(k, cause) ==
  /\ "close" \in Happenings
  /\ \E s \in Registered :
       /\ owner[s] = k
       /\ owed' = OwedWith({s})
       /\ entries' = EntriesWithout({s})
       /\ timer' = TimersWithout({s})
       /\ proc' = ProcsClosing({s}, cause)
       /\ notice' = NoticesWith({s})
  /\ UNCHANGED <<owner, stale, used, off, closeVars, runUsed, idleWindow, shuttingDown>>

\* A teardown: every process of the run, one still finishing an idle close
\* included, and nothing owed to its next turn.
CloseRun(r) ==
  /\ "teardown" \in Happenings
  /\ LET C == UnderRun(Registered, r)
         E == UnderRun(closing, r)
     IN
     /\ C \cup E # {}
     /\ closing' = closing \ E
     /\ idleExits' = idleExits \ E
     /\ entries' = EntriesWithout(C)
     /\ timer' = TimersWithout(C)
     /\ proc' = ProcsClosing(C \cup E, "none")
     /\ notice' = NoticesWith(C)
  /\ runUsed' = [runUsed EXCEPT ![r] = MaxWindow]
  /\ owed' = [k \in Keys |-> IF RunOf[k] = r THEN NoNotes ELSE owed[k]]
  /\ UNCHANGED <<owner, stale, used, off, farewell, idleWindow, shuttingDown>>

\* onApplicationShutdown, and the pidfile and lock hooks: every process.
CloseAll ==
  /\ "shutdown" \in Happenings
  /\ shuttingDown' = TRUE
  /\ closing' = {} /\ idleExits' = {}
  /\ entries' = EntriesWithout(Registered)
  /\ timer' = TimersWithout(Registered)
  /\ proc' = ProcsClosing(Registered \cup closing, "none")
  /\ UNCHANGED <<owner, stale, used, off, farewell, owed, runUsed, idleWindow, notice>>

NoteUserStop(r) ==
  /\ "stop" \in Happenings
  /\ proc' = [s \in Sessions |->
                IF s \in UnderRun(Registered, r) THEN [proc[s] EXCEPT !.cause = "user-stop"] ELSE proc[s]]
  /\ UNCHANGED <<entryVars, closeVars, owed, runUsed, idleWindow, shuttingDown, notice>>

\* markStaleWhere (mcp, account) and retire (conversation), for one entry.
MarkStale(s, cause, sameReason) ==
  /\ "stale" \in Happenings
  /\ s \in Registered
  /\ stale' = [stale EXCEPT ![s] = MergeStale(@, cause, sameReason)]
  /\ UNCHANGED <<proc, entries, owner, used, off, timer, closeVars, owed, runUsed, idleWindow,
                 shuttingDown, notice>>

\* oweKeyNote, and oweRunNote on the run's own key.
OweKeyNote(k) ==
  /\ "notes" \in Happenings
  /\ ~shuttingDown
  /\ owed' = [owed EXCEPT ![k].prompts = @ \cup {HostNote}]
  /\ UNCHANGED <<proc, entryVars, closeVars, runUsed, idleWindow, shuttingDown, notice>>
-----------------------------------------------------------------------------
(* Time.                                                                   *)

Older(age) == IF age < MaxWindow THEN age + 1 ELSE age
Due(s) == timer[s] # NoTimer /\ timer[s] >= idleWindow
Settled == /\ farewell = {}
           /\ \A s \in Sessions : proc[s].state \in {"free", "live"} /\ ~proc[s].cancelling

\* One unit of awake time, once what takes seconds is over.
Tick ==
  /\ Settled /\ \A s \in Sessions : ~Due(s)
  /\ used'   = [s \in Sessions |-> IF s \in Registered THEN Older(used[s]) ELSE used[s]]
  /\ off'    = [s \in Sessions |-> Older(off[s])]
  /\ timer'  = [s \in Sessions |-> IF timer[s] = NoTimer THEN NoTimer ELSE Older(timer[s])]
  /\ runUsed' = [r \in Runs |-> Older(runUsed[r])]
  /\ UNCHANGED <<proc, entries, owner, stale, closeVars, owed, idleWindow, shuttingDown, notice>>

\* The machine slept: wall ages grow, an awake window starts again.
Sleep ==
  /\ "sleep" \in Happenings
  /\ used'   = [s \in Sessions |-> IF s \in Registered THEN MaxWindow ELSE used[s]]
  /\ off'    = [s \in Sessions |-> MaxWindow]
  /\ timer'  = [s \in Sessions |-> IF timer[s] = NoTimer THEN NoTimer ELSE 0]
  /\ runUsed' = [r \in Runs |-> MaxWindow]
  /\ UNCHANGED <<proc, entries, owner, stale, closeVars, owed, idleWindow, shuttingDown, notice>>
-----------------------------------------------------------------------------
Turns == \/ \E k \in Keys, carry \in BOOLEAN : ReuseTurn(k, carry)
         \/ \E k \in Keys, s \in Sessions, carry, ok \in BOOLEAN : SpawnTurn(k, s, carry, ok)
         \/ \E s \in Sessions, forced, parked \in BOOLEAN : SettleTurn(s, forced, parked)
         \/ \E s \in Sessions : FinishOneTurn(s) \/ CancelTurn(s) \/ InterruptDeadline(s)
Processes == \/ \E s \in Sessions : OffTurnRow(s) \/ ExitDeadline(s) \/ Exit(s) \/ Ended(s)
             \/ \E s \in Sessions, shown \in BOOLEAN : Park(s, shown)
             \/ \E s \in Sessions, kind \in ShellKinds : ShellsChange(s, kind)
Windowing == \/ \E k \in Keys : IdleFire(k)
             \/ \E s \in Sessions : FarewellDone(s)
             \/ \E w \in Windows : SetIdleMinutes(w)
Closes == \/ \E k \in Keys, cause \in Causes : Close(k, cause)
          \/ \E r \in Runs : CloseRun(r) \/ NoteUserStop(r)
          \/ CloseAll
          \/ \E s \in Sessions, cause \in StaleCauses \ {"none"}, same \in BOOLEAN : MarkStale(s, cause, same)
          \/ \E k \in Keys : OweKeyNote(k)
Next == Turns \/ Processes \/ Windowing \/ Closes \/ Tick \/ Sleep
Spec == Init /\ [][Next]_vars

(* Scheduling: timers fire, awaited questions come back (the farewell asks  *)
(* with a deadline), a process told to go exits (SIGKILL follows SIGTERM)   *)
(* and its end is reported, and awake time passes.                          *)
Fairness ==
  /\ WF_vars(Tick)
  /\ \A k \in Keys : WF_vars(IdleFire(k))
  /\ \A s \in Sessions :
       /\ WF_vars(FarewellDone(s))
       /\ WF_vars(InterruptDeadline(s))
       /\ WF_vars(ExitDeadline(s))
       /\ WF_vars(proc[s].state = "killed" /\ Exit(s))
       /\ WF_vars(Ended(s))
FairSpec == Spec /\ Fairness
-----------------------------------------------------------------------------
(* Correctness.                                                            *)

\* A running process nothing has signalled is always one the registry can
\* still reach: kept under its key, or finishing a graceful close.  The class
\* doc: "This registry is the owner of those processes.  Nothing else reaps one".
EveryProcessIsOwned ==
  \A s \in Sessions :
    /\ proc[s].state = "live"   => s \in Registered
    /\ proc[s].state = "ending" => s \in Registered \cup closing

\* Listeners of onClosed hear of each process at most once, never of one still
\* kept, and of each one gone unless the daemon is shutting down: a stranded
\* off-turn badge is settled by that call alone.
ClosedAnnouncedOnce ==
  \A s \in Sessions :
    /\ notice[s] < 2
    /\ s \in Registered => notice[s] = 0
    /\ proc[s].state # "free" /\ s \notin Registered /\ ~shuttingDown => notice[s] = 1

\* A kept process with no turn in flight always has a running window, or a
\* farewell that decides for it: nothing else would ever reap it.
IdleHasClock ==
  \A s \in Registered : Idle(proc[s]) => timer[s] # NoTimer \/ s \in farewell

\* Once every process was closed for shutdown, none is left that would
\* outlast the turn it is serving, whatever started meanwhile.
ShutdownKeepsNothing ==
  shuttingDown => /\ closing = {}
                  /\ \A s \in Sessions : proc[s].state = "live" => ~proc[s].scoped /\ proc[s].turn

\* A process leaves the map for the sake of another key's turn.
EvictedFor(s, k) == /\ s \in Registered /\ s \notin Registered'
                    /\ k # owner[s] /\ entries'[k] # entries[k] /\ entries'[k] # NoSession

\* At work with no turn of ours: what closing the process would stop.
AtWork(s) == proc[s].parked \/ off[s] < OffTurnActive \/ proc[s].shells # "none"
Usable(p) == Alive(p) /\ ~p.retired

\* Making room for another key's process never ends one that could serve a
\* turn while it has one in flight, waits for a verdict, writes rows, or
\* serves a command.
EvictionSparesWork ==
  [][\A s \in Sessions, k \in Keys :
       EvictedFor(s, k) /\ Usable(proc[s]) => Idle(proc[s]) /\ ~AtWork(s)]_vars

\* A process that could serve another turn is evicted only when, the dead and
\* the retired dropped, the registry is full; and more than the ceiling are
\* kept only when all the others are at work.
EvictionFitsTheCeiling ==
  [][/\ (\E s \in Sessions, k \in Keys : EvictedFor(s, k) /\ Usable(proc[s]))
          => Cardinality({s \in Registered' : s \in Registered => Usable(proc'[s])}) >= Ceiling
     /\ Cardinality(Registered') > Cardinality(Registered) /\ Cardinality(Registered') > Ceiling
          => \A s \in Registered : ~Idle(proc[s]) \/ AtWork(s)]_vars

TurnOpened(s) == proc'[s].turn /\ ~proc[s].turn

\* A sign-in, sign-out or replaced conversation retires the process for good:
\* the mark is never weakened by a later change, and no turn is served by it.
HardStaleIsFinal ==
  [][\A s \in Registered : stale[s].cause \in {"account", "conversation"} =>
       /\ ~TurnOpened(s)
       /\ s \in Registered' => stale'[s].cause \in {"account", "conversation"}]_vars

\* What a close or a crash stopped is carried to the agent: the prompt line is
\* owed to the key, across refused turns, failed spawns and turns without a
\* prompt, until a turn opens on a running process that reads it, or its run
\* is torn down.
RunCleared(r) == \A k \in KeysOfRun(r) : entries'[k] = NoSession /\ owed'[k] = NoNotes
ReadBy(x) == \E s \in Sessions : TurnOpened(s) /\ proc'[s].state \in {"live", "killed"} /\ x \in OwedKeys(owner'[s])
StoppedCommandsAreTold ==
  [][\A s \in Sessions :
       /\ s \in Registered /\ s \notin Registered' /\ proc[s].shells = "detached" /\ ~shuttingDown'
            => s \in owed'[owner[s]].prompts \/ ReadBy(owner[s]) \/ RunCleared(RunOf[owner[s]])
       /\ \A x \in Keys : s \in owed[x].prompts /\ s \notin owed'[x].prompts
            => ReadBy(x) \/ RunCleared(RunOf[x])]_vars

\* A process left with nothing to do is closed once its window passes.
Unused(s) == s \in Registered /\ Idle(proc[s]) /\ ~AtWork(s)
UnusedIsClosed == \A s \in Sessions : []<>~Unused(s)

\* A graceful close comes to an end, even of a CLI that ignores it.
GracefulCloseEnds == \A s \in Sessions : s \in closing ~> s \notin closing

\* "A holder must not reap a process holding them for going quiet".
IdleCloseSparesWork == [][\A s \in closing' \ closing : ~AtWork(s)]_vars
=============================================================================
