-------------------------------- MODULE ChatTurn --------------------------------
(***************************************************************************)
(* The life of a chat's turns in ChatService: a message claims the run's   *)
(* slot, prepares over many awaits, launches its process, and is finalized *)
(* after the process settled; meanwhile the user stops, archives or        *)
(* deletes the chat, and the daemon shuts down, dies and boots again.      *)
(*                                                                         *)
(* One chat.  An action is what runs between two awaits: the database call *)
(* awaited completes, and the code after it runs up to the next await.     *)
(* The rows a turn writes while it works and the badge of work between     *)
(* turns are left out; every row and status written here is a step.        *)
(***************************************************************************)
EXTENDS ProcessRegistry, Sequences

CONSTANTS
  Stopper,      \* the Stop request, as a writer of the run's status
  Happenings    \* which events of the environment an instance includes

ASSUME StopperAssumption == Stopper \notin Turns \cup {Nobody}

Kinds    == {"message", "host", "command"}   \* command: a compaction that replaces the session
Endings  == {"none", "completed", "failed", "cancelled"}
Statuses == {"pending", "running", "completed", "failed", "cancelled"}
Terminal == {"completed", "failed", "cancelled"}
Starting == {"claimed", "opened", "announcing", "announced", "probing", "failing"}
Settling == {"ended", "recording", "drained", "patching"}
Stages   == {"none", "asked", "live"} \cup Starting \cup Settling

VARIABLES
  turn,            \* [Turns -> Turn]
  reg,             \* the run's entry in ProcessRegistry
  run,             \* the runs row
  statusWrites,    \* who waits to write the row's status, in order of call
  finalizing,      \* whose finalizer a delete or a Stop waits for
  compacting,      \* the turn that holds compactingRuns
  stopsRequested,
  shuttingDown,    \* ChatService's own flag, set ahead of the registry's
  stop, archive, deletion,   \* how far each request got; one of each at a time
  up,              \* the daemon runs
  orphans,         \* history: rows written for a run already destroyed
  dangling         \* history: a crash cut a launched turn that has no terminal row

flags == <<finalizing, compacting, stopsRequested, shuttingDown>>
requests == <<stop, archive, deletion>>
history == <<orphans, dangling>>
vars == <<turn, reg, run, statusWrites, flags, requests, up, history>>

Turn == [stage : Stages, kind : Kinds,
         before : Statuses,          \* statusBefore, of a host's turn
         wrote : BOOLEAN,            \* wroteRunning
         told : BOOLEAN,             \* its handle was cancelled
         closed : BOOLEAN,           \* its process was closed under it
         ending : Endings,           \* the terminal event queued for the persist chain
         result : {"none", "seen", "broken"},  \* sawTerminal, eventHandlingFailed
         asks : SUBSET {"stop", "delete"},     \* history: who cancelled it, by pressing what
         row : BOOLEAN]              \* history: a terminal row stands for it
NoTurn == [stage |-> "none", kind |-> "message", before |-> "pending", wrote |-> FALSE,
           told |-> FALSE, closed |-> FALSE, ending |-> "none", result |-> "none",
           asks |-> {}, row |-> FALSE]

Idle == "idle"
StopPhases     == {Idle, "waiting", "checked", "draining", "rechecked", "noting", "writing"}
ArchivePhases  == {Idle, "stopping", "stopped", "ending", "marking", "leaving"}
DeletionPhases == {Idle, "settling", "destroying", "leaving"}
NoStop == [phase |-> Idle, waits |-> Nobody]
NoDeletion == [phase |-> Idle, waits |-> Nobody]
Writers == Turns \cup {Stopper}

TypeOK ==
  /\ turn \in [Turns -> Turn]
  /\ reg \in Registry
  /\ run \in [exists : BOOLEAN, status : Statuses, archived : BOOLEAN]
  /\ statusWrites \in Seq(Writers)
  /\ finalizing \in Turns \cup {Nobody} /\ compacting \in Turns \cup {Nobody}
  /\ stopsRequested \in BOOLEAN /\ shuttingDown \in BOOLEAN /\ up \in BOOLEAN
  /\ stop \in [phase : StopPhases, waits : Writers \cup {Nobody}]
  /\ archive \in ArchivePhases
  /\ deletion \in [phase : DeletionPhases, waits : Turns \cup {Nobody}]
  /\ orphans \subseteq {"opening", "ending"}
  /\ dangling \in BOOLEAN

Init ==
  /\ turn = [t \in Turns |-> NoTurn]
  /\ reg = EmptyRegistry
  /\ run \in [exists : {TRUE}, status : {"pending", "completed"}, archived : {FALSE}]
  /\ statusWrites = <<>>
  /\ finalizing = Nobody /\ compacting = Nobody
  /\ stopsRequested = FALSE /\ shuttingDown = FALSE
  /\ stop = NoStop /\ archive = Idle /\ deletion = NoDeletion
  /\ up = TRUE
  /\ orphans = {} /\ dangling = FALSE
-----------------------------------------------------------------------------
StageOf(t) == turn[t].stage
Live == {t \in Turns : StageOf(t) = "live"}
Unfinished == {t \in Turns : StageOf(t) \in {"live"} \cup Starting \cup Settling}
deleting == deletion.phase # Idle
archiving == archive # Idle

\* A row written for the chat now.
Written(kind) == IF run.exists THEN orphans ELSE orphans \cup {kind}
\* setRunStatus: the writes of a run are done in the order they were called.
NextToWrite(w) == statusWrites # <<>> /\ Head(statusWrites) = w
StatusWritten(w) ==
  /\ statusWrites' = Tail(statusWrites)
  /\ stop' = IF stop.phase = "draining" /\ stop.waits = w THEN [stop EXCEPT !.waits = Nobody] ELSE stop
\* An update of a row that is gone changes nothing.
RunSaying(status) == IF run.exists THEN [run EXCEPT !.status = status] ELSE run

\* sessions.close and closeRun: the chat's kept process, with the turn on it.
SessionClosed(T) == [t \in Turns |-> IF T[t].stage = "live" THEN [T[t] EXCEPT !.closed = TRUE] ELSE T[t]]
\* (mutant) the live handle is not cancelled
HandleCancelled_ClaimOnly(who) ==
  [t \in Turns |-> IF t # reg.holder THEN turn[t] ELSE [turn[t] EXCEPT !.asks = @ \cup {who}]]
\* ProcessRegistry.cancel, asked for by `who`.
HandleCancelled(who) ==
  [t \in Turns |-> IF t # reg.holder THEN turn[t]
                   ELSE [turn[t] EXCEPT !.asks = @ \cup {who}, !.told = @ \/ reg.live]]

\* (mutant) whichever turn ends clears the compaction of the other
CompactionReleased_Any(t) == Nobody
CompactionReleased(t) == IF compacting = t THEN Nobody ELSE compacting

\* The turn is over for every wait on it.
Over(t) ==
  /\ turn' = [turn EXCEPT ![t] = NoTurn]
  /\ compacting' = CompactionReleased(t)
  /\ finalizing' = IF finalizing = t THEN Nobody ELSE finalizing
  /\ stop' = IF stop.waits = t THEN [stop EXCEPT !.waits = Nobody] ELSE stop
  /\ deletion' = IF deletion.waits = t THEN [deletion EXCEPT !.waits = Nobody] ELSE deletion
-----------------------------------------------------------------------------
(* A message starts a turn.                                                *)

\* sendMessage reads the row; the claim may come awaits later.
Send(t, kind) ==
  /\ up /\ StageOf(t) = "none"
  /\ kind = "message" \/ kind \in Happenings
  /\ run.exists /\ ~run.archived
  /\ turn' = [turn EXCEPT ![t] = [NoTurn EXCEPT !.stage = "asked", !.kind = kind,
                                               !.before = IF kind = "host" THEN run.status ELSE @]]
  /\ UNCHANGED <<reg, run, statusWrites, flags, requests, up, history>>

\* sendMessageOnce: the run is free.  A client that heard the last turn settle
\* does not send before its finalizer is through; one that did not may.
Claim(t) ==
  /\ StageOf(t) = "asked"
  /\ compacting = Nobody /\ CanClaim(reg)
  /\ "overtake" \in Happenings \/ \A u \in Turns : StageOf(u) \notin Settling
  /\ reg' = Claimed(reg, t)
  /\ turn' = [turn EXCEPT ![t].stage = "claimed"]
  /\ UNCHANGED <<run, statusWrites, flags, requests, up, history>>

\* The run is busy: the message goes to the running turn, or back to the sender.
Refuse(t) ==
  /\ StageOf(t) = "asked"
  /\ compacting # Nobody \/ ~CanClaim(reg)
  /\ turn' = [turn EXCEPT ![t] = NoTurn]
  /\ UNCHANGED <<reg, run, statusWrites, flags, requests, up, history>>

\* The opening row is written, after a command took compactingRuns.
Open(t) ==
  /\ StageOf(t) = "claimed"
  /\ turn' = [turn EXCEPT ![t].stage = "opened"]
  /\ compacting' = IF turn[t].kind = "command" THEN t ELSE compacting
  /\ orphans' = Written("opening")
  /\ UNCHANGED <<reg, run, statusWrites, finalizing, stopsRequested, shuttingDown, requests, up, dangling>>

Announce(t) ==
  /\ StageOf(t) = "opened"
  /\ turn' = [turn EXCEPT ![t].stage = "announcing"]
  /\ statusWrites' = Append(statusWrites, t)
  /\ UNCHANGED <<reg, run, flags, requests, up, history>>

Announced(t) ==
  /\ StageOf(t) = "announcing" /\ NextToWrite(t)
  /\ run' = RunSaying("running")
  /\ StatusWritten(t)
  /\ turn' = [turn EXCEPT ![t].stage = "announced", ![t].wrote = TRUE]
  /\ UNCHANGED <<reg, flags, archive, deletion, up, history>>

\* settleTo; a host's turn that never said `running` leaves the run as it is.
SettleTo(t) == IF turn[t].kind # "host" THEN "failed"
               ELSE IF ~turn[t].wrote THEN "null"
               ELSE IF turn[t].before \in Terminal THEN turn[t].before ELSE "failed"
\* (mutant) the null is written too
Settles_Always(t) == TRUE
Settles(t) == SettleTo(t) # "null"
\* The end of the catch: the claim goes, and the Stop pressed at it.
Abandon(t) ==
  /\ Over(t)
  /\ stopsRequested' = FALSE
  /\ reg' = Released(reg)
  /\ UNCHANGED <<shuttingDown, archive, up, history>>
Fail(t) ==
  IF ~Settles(t) THEN Abandon(t) /\ UNCHANGED <<run, statusWrites>>
  ELSE /\ turn' = [turn EXCEPT ![t].stage = "failing"]
       /\ statusWrites' = Append(statusWrites, t)
       /\ UNCHANGED <<reg, run, flags, requests, up, history>>

\* A check or a call on the way to the launch throws.
FailStart(t) ==
  /\ "startfail" \in Happenings
  /\ StageOf(t) \in {"claimed", "opened", "announced", "probing"}
  /\ Fail(t)

FailDone(t) ==
  /\ StageOf(t) = "failing" /\ NextToWrite(t)
  /\ run' = RunSaying(SettleTo(t))
  /\ statusWrites' = Tail(statusWrites)
  /\ Abandon(t)

\* canStart, asked before the row is read again.
Probe(t) ==
  /\ StageOf(t) = "announced"
  /\ IF CanStart(reg)
     THEN /\ turn' = [turn EXCEPT ![t].stage = "probing"]
          /\ UNCHANGED <<reg, run, statusWrites, flags, requests, up, history>>
     ELSE Fail(t)

\* (mutant) the deletion is not looked at again, only the row
Doomed_RowOnly == ~run.exists \/ archiving \/ run.archived
\* (mutant) the archive is seen in the row alone
Doomed_NoArchiving == ~run.exists \/ deleting \/ run.archived
\* The row read last, and the requests under way.
Doomed == ~run.exists \/ deleting \/ archiving \/ run.archived

\* The last check, the spawn, register and the Stop check: no await between.
Launch(t) ==
  /\ StageOf(t) = "probing"
  /\ IF Doomed THEN Fail(t)
     ELSE /\ turn' = [turn EXCEPT ![t].stage = "live", ![t].told = RegisterCancels(reg),
                                  ![t].closed = stopsRequested]
          /\ reg' = Registered(reg, t)
          /\ finalizing' = t
          /\ UNCHANGED <<run, statusWrites, compacting, stopsRequested, shuttingDown, requests, up, history>>
-----------------------------------------------------------------------------
(* The turn ends, and is finalized.                                        *)

\* The handle settles as it hands its terminal event, if any, to the chain.
EndTurn(t, ending) ==
  /\ StageOf(t) = "live"
  /\ ending = "cancelled" => turn[t].told \/ turn[t].closed
  /\ ending = "none" => "silent" \in Happenings /\ ~turn[t].told /\ ~turn[t].closed
  /\ turn' = [turn EXCEPT ![t].stage = IF ending = "none" THEN "drained" ELSE "ended",
                          ![t].told = FALSE, ![t].closed = FALSE, ![t].ending = ending]
  /\ reg' = Unregistered(reg, t)
  /\ UNCHANGED <<run, statusWrites, flags, requests, up, history>>

\* (mutant) a Stop pressed before the shutdown is forgotten
Interrupted_AnyCancel(t) == turn[t].ending = "cancelled" /\ shuttingDown
\* Cut off by the shutdown, not by a Stop: left `running` for the next boot.
Interrupted(t) == turn[t].ending = "cancelled" /\ shuttingDown /\ ~stopsRequested

\* The chain handles the terminal event: the Stop is consumed and the row
\* written; a write that throws is noted.
TerminalEvent(t, ok) ==
  /\ StageOf(t) = "ended"
  /\ ok \/ "dbfail" \in Happenings
  /\ stopsRequested' = FALSE
  /\ IF Interrupted(t) \/ ~ok
     THEN /\ turn' = [turn EXCEPT ![t].stage = "drained", ![t].ending = "none",
                                  ![t].result = IF Interrupted(t) THEN "seen" ELSE "broken"]
          /\ dangling' = (dangling \/ (Interrupted(t) /\ run.exists))
          /\ UNCHANGED <<statusWrites, orphans>>
     ELSE /\ turn' = [turn EXCEPT ![t].stage = "recording", ![t].row = TRUE]
          /\ statusWrites' = Append(statusWrites, t)
          /\ orphans' = Written("ending")
          /\ UNCHANGED dangling
  /\ UNCHANGED <<reg, run, finalizing, compacting, shuttingDown, requests, up>>

RecordStatus(t, ok) ==
  /\ StageOf(t) = "recording" /\ NextToWrite(t)
  /\ ok \/ "dbfail" \in Happenings
  /\ run' = IF ok THEN RunSaying(turn[t].ending) ELSE run
  /\ StatusWritten(t)
  /\ turn' = [turn EXCEPT ![t].stage = "drained", ![t].ending = "none",
                          ![t].result = IF ok THEN "seen" ELSE "broken"]
  /\ UNCHANGED <<reg, flags, archive, deletion, up, history>>

\* (mutant) a turn whose handling failed counts as one that ended
Finishes_Any(t) == turn[t].result # "none"
\* The finalizer finds the turn's ending recorded.
Finishes(t) == turn[t].result = "seen"

\* The finalizer, once the chain is drained: a compaction is committed, or
\* the missing ending is made up.
Finalize(t) ==
  /\ StageOf(t) = "drained"
  /\ IF Finishes(t)
     THEN /\ Over(t)
          /\ orphans' = IF turn[t].kind = "command" THEN Written("ending") ELSE orphans
          /\ UNCHANGED statusWrites
     ELSE /\ turn' = [turn EXCEPT ![t].stage = "patching", ![t].row = @ \/ turn[t].result = "none"]
          /\ statusWrites' = Append(statusWrites, t)
          /\ orphans' = IF turn[t].result = "none" THEN Written("ending") ELSE orphans
          /\ UNCHANGED <<compacting, finalizing, stop, deletion>>
  /\ UNCHANGED <<reg, run, stopsRequested, shuttingDown, archive, up, dangling>>

\* The made-up ending: `completed` for a turn that never said, an error for
\* one whose handling failed.
Patch(t) ==
  /\ StageOf(t) = "patching" /\ NextToWrite(t)
  /\ run' = RunSaying(IF turn[t].result = "broken" THEN "failed" ELSE "completed")
  /\ statusWrites' = Tail(statusWrites)
  /\ orphans' = IF turn[t].result = "broken" THEN Written("ending") ELSE orphans
  /\ Over(t)
  /\ UNCHANGED <<reg, stopsRequested, shuttingDown, archive, up, dangling>>
-----------------------------------------------------------------------------
(* Stop: ChatService.cancel, pressed by the user or asked by an archive.   *)

Decided == IF run.exists /\ run.status \notin Terminal THEN [phase |-> "noting", waits |-> Nobody] ELSE NoStop
\* The chat's process is closed; then the status writes under way are waited for.
CloseThenDecide ==
  /\ turn' = SessionClosed(turn)
  /\ stop' = IF statusWrites = <<>> THEN Decided
             ELSE [phase |-> "draining", waits |-> statusWrites[Len(statusWrites)]]
  /\ UNCHANGED <<reg, stopsRequested>>

\* cancel, up to the first await behind the row's read.
CancelRun ==
  IF Has(reg)
  THEN /\ reg' = CancelNoted(reg)
       /\ turn' = SessionClosed(HandleCancelled("stop"))
       /\ stopsRequested' = TRUE
       /\ UNCHANGED stop
  ELSE IF finalizing # Nobody
  THEN /\ stop' = [phase |-> "waiting", waits |-> finalizing]
       /\ UNCHANGED <<reg, turn, stopsRequested>>
  ELSE CloseThenDecide

Stop ==
  /\ "stop" \in Happenings /\ up /\ stop.phase = Idle /\ run.exists
  /\ Has(reg) \/ "early" \in Happenings
  /\ CancelRun
  /\ UNCHANGED <<run, statusWrites, finalizing, compacting, shuttingDown, archive, deletion, up, history>>

stopRest == <<run, finalizing, compacting, shuttingDown, archive, deletion, up, dangling>>
\* The finalizer, or the write, waited for is through: a turn that started since owns the run.
StopWaited ==
  /\ \/ stop.phase = "waiting" /\ stop.waits = Nobody /\ stop' =
          IF Has(reg) THEN NoStop ELSE [phase |-> "checked", waits |-> Nobody]
     \/ stop.phase = "draining" /\ stop.waits = Nobody /\ stop' =
          IF Has(reg) THEN NoStop ELSE [phase |-> "rechecked", waits |-> Nobody]
  /\ UNCHANGED <<turn, reg, statusWrites, stopsRequested, orphans, stopRest>>

\* The row is read again; a deleted chat refuses.
StopReread ==
  /\ \/ stop.phase = "checked" /\ run.exists /\ CloseThenDecide
     \/ /\ stop.phase = "rechecked" \/ (stop.phase = "checked" /\ ~run.exists)
        /\ stop' = Decided
        /\ UNCHANGED <<reg, turn, stopsRequested>>
  /\ UNCHANGED <<statusWrites, orphans, stopRest>>

\* Nothing was in flight and the row does not say so: it is made to.
StopNote ==
  /\ stop.phase = "noting"
  /\ stop' = [stop EXCEPT !.phase = "writing"]
  /\ statusWrites' = Append(statusWrites, Stopper)
  /\ orphans' = Written("ending")
  /\ UNCHANGED <<turn, reg, stopsRequested, stopRest>>
StopWrite ==
  /\ stop.phase = "writing" /\ NextToWrite(Stopper)
  /\ run' = RunSaying("cancelled")
  /\ statusWrites' = Tail(statusWrites)
  /\ stop' = NoStop
  /\ UNCHANGED <<turn, reg, flags, archive, deletion, up, history>>
-----------------------------------------------------------------------------
(* Archive and delete.                                                     *)

\* The row is read, and the archive claimed ahead of the cancel.
Archive ==
  /\ "archive" \in Happenings /\ up /\ archive = Idle /\ run.exists
  /\ archive' = IF run.status = "running" THEN "stopping" ELSE "ending"
  /\ UNCHANGED <<turn, reg, run, statusWrites, flags, stop, deletion, up, history>>
ArchiveStop ==
  /\ archive = "stopping" /\ stop.phase = Idle
  /\ IF run.exists THEN CancelRun /\ archive' = "stopped"
     ELSE archive' = Idle /\ UNCHANGED <<turn, reg, stop, stopsRequested>>
  /\ UNCHANGED <<run, statusWrites, finalizing, compacting, shuttingDown, deletion, up, history>>
\* endProcesses.
ArchiveEnd ==
  /\ archive = "ending" \/ (archive = "stopped" /\ stop.phase = Idle)
  /\ turn' = SessionClosed(turn)
  /\ archive' = "marking"
  /\ UNCHANGED <<reg, run, statusWrites, flags, stop, deletion, up, history>>
ArchiveMark ==
  /\ archive = "marking"
  /\ run' = [run EXCEPT !.archived = run.exists]
  /\ archive' = "leaving"
  /\ UNCHANGED <<turn, reg, statusWrites, flags, stop, deletion, up, history>>
ArchiveLeave ==
  /\ archive = "leaving"
  /\ archive' = Idle
  /\ UNCHANGED <<turn, reg, run, statusWrites, flags, stop, deletion, up, history>>
Unarchive ==
  /\ up /\ run.exists /\ run.archived
  /\ run' = [run EXCEPT !.archived = FALSE]
  /\ UNCHANGED <<turn, reg, statusWrites, flags, requests, up, history>>

\* The delete is claimed, the turn cancelled, and its finalizer waited for.
Delete ==
  /\ "delete" \in Happenings /\ up /\ deletion.phase = Idle /\ run.exists
  /\ deletion' = [phase |-> "settling", waits |-> finalizing]
  /\ reg' = CancelNoted(reg)
  /\ turn' = HandleCancelled("delete")
  /\ UNCHANGED <<run, statusWrites, flags, stop, archive, up, history>>
\* It settled, or DELETE_SETTLE_TIMEOUT_MS passed: endProcesses.
DeleteSettled ==
  /\ deletion.phase = "settling"
  /\ deletion.waits = Nobody \/ "slow" \in Happenings
  /\ turn' = SessionClosed(turn)
  /\ deletion' = [phase |-> "destroying", waits |-> Nobody]
  /\ UNCHANGED <<reg, run, statusWrites, flags, stop, archive, up, history>>
Destroy ==
  /\ deletion.phase = "destroying"
  /\ run' = [run EXCEPT !.exists = FALSE, !.archived = FALSE]
  /\ dangling' = FALSE
  /\ deletion' = [deletion EXCEPT !.phase = "leaving"]
  /\ UNCHANGED <<turn, reg, statusWrites, flags, stop, archive, up, orphans>>
DeleteLeave ==
  /\ deletion.phase = "leaving"
  /\ deletion' = NoDeletion
  /\ UNCHANGED <<turn, reg, run, statusWrites, flags, stop, archive, up, history>>
-----------------------------------------------------------------------------
(* The daemon.                                                             *)

\* beforeApplicationShutdown.
Quit ==
  /\ "shutdown" \in Happenings /\ up /\ ~shuttingDown
  /\ shuttingDown' = TRUE
  /\ UNCHANGED <<turn, reg, run, statusWrites, finalizing, compacting, stopsRequested, requests, up, history>>
\* drain, beside the close of every kept process.
Drain ==
  /\ shuttingDown /\ ~reg.shuttingDown
  /\ reg' = Draining(reg)
  /\ turn' = [t \in Turns |-> IF StageOf(t) = "live" THEN [turn[t] EXCEPT !.told = TRUE, !.closed = TRUE]
                             ELSE turn[t]]
  /\ UNCHANGED <<run, statusWrites, flags, requests, up, history>>
\* SHUTDOWN_DRAIN_MS passed with a turn still registered.
DrainDeadline ==
  /\ "slow" \in Happenings /\ reg.shuttingDown /\ Has(reg)
  /\ reg' = Drained(reg)
  /\ UNCHANGED <<turn, run, statusWrites, flags, requests, up, history>>

Cut(t) == StageOf(t) \in {"live"} \cup Settling /\ ~turn[t].row
\* The process ends: drained, or killed.  What it held in memory is gone.
Down ==
  /\ up
  /\ "crash" \in Happenings \/ (reg.shuttingDown /\ ~Has(reg))
  /\ up' = FALSE
  /\ dangling' = (dangling \/ (run.exists /\ \E t \in Turns : Cut(t)))
  /\ turn' = [t \in Turns |-> NoTurn]
  /\ reg' = EmptyRegistry
  /\ statusWrites' = <<>>
  /\ finalizing' = Nobody /\ compacting' = Nobody
  /\ stopsRequested' = FALSE /\ shuttingDown' = FALSE
  /\ stop' = NoStop /\ archive' = Idle /\ deletion' = NoDeletion
  /\ UNCHANGED <<run, orphans>>

\* (mutant) the boot closes nothing
LeftRunning_None == FALSE
LeftRunning == run.exists /\ run.status = "running"
\* reconcileOrphanedRuns, before anything can be asked of the daemon.
Boot ==
  /\ ~up
  /\ up' = TRUE
  /\ run' = IF LeftRunning THEN [run EXCEPT !.status = "failed"] ELSE run
  /\ dangling' = (dangling /\ ~LeftRunning)
  /\ UNCHANGED <<turn, reg, statusWrites, flags, requests, orphans>>
-----------------------------------------------------------------------------
Prepare(t) == Claim(t) \/ Refuse(t) \/ Open(t) \/ Announce(t) \/ Announced(t)
              \/ FailDone(t) \/ Probe(t) \/ Launch(t)
Settle(t) == \/ \E ok \in BOOLEAN : TerminalEvent(t, ok) \/ RecordStatus(t, ok)
             \/ Finalize(t) \/ Patch(t)
Stopping == StopWaited \/ StopReread \/ StopNote \/ StopWrite
Archiving == ArchiveStop \/ ArchiveEnd \/ ArchiveMark \/ ArchiveLeave
Deleting == DeleteSettled \/ Destroy \/ DeleteLeave
Next == \/ \E t \in Turns : \/ \E kind \in Kinds : Send(t, kind)
                            \/ Prepare(t) \/ FailStart(t)
                            \/ \E ending \in Endings : EndTurn(t, ending)
                            \/ Settle(t)
        \/ Stop \/ Stopping \/ Archive \/ Archiving \/ Unarchive \/ Delete \/ Deleting
        \/ Quit \/ Drain \/ DrainDeadline \/ Down \/ Boot
Spec == Init /\ [][Next]_vars

(* Scheduling: every await comes back, and a process told to go goes (its   *)
(* turn settles when it does: SIGKILL follows SIGTERM).                     *)
Fairness ==
  /\ \A t \in Turns : WF_vars(Prepare(t)) /\ WF_vars(Settle(t))
  /\ \A t \in Turns : WF_vars((turn[t].told \/ turn[t].closed) /\ \E e \in Endings : EndTurn(t, e))
  /\ WF_vars(Stopping) /\ WF_vars(Archiving) /\ WF_vars(Deleting)
FairSpec == Spec /\ Fairness
-----------------------------------------------------------------------------
(* Correctness.                                                            *)

\* The slot is held by exactly the turn that is starting or live, for as
\* long as it is: none is out of the reach of a Stop, a delete or a shutdown,
\* no two prepare or run at once, and no run is left busy by nobody.
SlotMatchesTurn ==
  /\ Has(reg) => StageOf(reg.holder) \in (IF reg.live THEN {"live"} ELSE Starting)
  /\ ~reg.shuttingDown =>
       \A t \in Turns : StageOf(t) \in Starting \cup {"live"} => reg.holder = t

\* A Stop or a delete accepted for a turn still starting is not a silent
\* no-op: the turn never runs uncancelled.
StopIsNeverLost == \A t \in Live : turn[t].asks # {} => turn[t].told

\* No turn is cancelled for a Stop pressed at an earlier one.
NoStrayCancel == \A t \in Live : turn[t].told => turn[t].asks # {} \/ reg.shuttingDown

\* No process works for a chat that no longer exists.
NothingOutlivesDelete == \A t \in Live : run.exists

\* Once an archive is through, no turn runs on uninterrupted out of sight.
ArchivedIsQuiet ==
  run.archived /\ ~archiving => \A t \in Live : turn[t].told \/ turn[t].closed

\* No turn starts behind a compaction that is not committed: it would resume
\* the replaced session and be missing from the summary.
NothingBehindACompaction ==
  [][\A t, c \in Turns : StageOf(t) = "asked" /\ StageOf(t)' = "claimed"
                         => ~(turn[c].kind = "command" /\ c \in Unfinished)]_vars

\* The row says `running` only while a turn is there to end it.
NoGhostRunning ==
  up /\ ~shuttingDown /\ run.exists /\ run.status = "running" => Unfinished # {}

\* In a shutdown a cancelled turn is written down as stopped if and only if
\* the user stopped it; the others are left for the boot to call interrupted.
StopSurvivesShutdown ==
  [][\A t \in Turns :
       shuttingDown /\ StageOf(t) = "ended" /\ turn[t].ending = "cancelled" =>
         /\ StageOf(t)' = "recording" => "stop" \in turn[t].asks
         /\ StageOf(t)' = "drained" /\ turn[t]'.result = "seen" => "stop" \notin turn[t].asks]_vars

\* Whatever a crash or a shutdown cut off has a terminal row once the daemon
\* is up again.
BootClosesTheTranscript == up /\ ~shuttingDown => ~dangling

\* A Stop frees the run: the turn it was pressed at gives up the slot.
StopFreesTheRun == \A t \in Turns : "stop" \in turn[t].asks /\ reg.holder = t ~> reg.holder # t

\* A delete and an archive come to their end.
RequestsEnd == (deleting ~> ~deleting) /\ (archiving ~> ~archiving)

\* "so it cannot be mistaken for a Stop of the next turn."
StopIsForItsTurn ==
  [][\A t \in Turns : StageOf(t) = "probing" /\ StageOf(t)' = "live" /\ turn[t]'.closed
                     => "stop" \in turn[t].asks]_vars

\* "Stop the run's live work, then destroy everything it owns."
NoOrphanRows == orphans = {}
=============================================================================
