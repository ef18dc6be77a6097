---------------------------- MODULE ChatTurnProofs ----------------------------
(***************************************************************************)
(* Theorems about a chat's turns, for any set of turn identities and any   *)
(* happenings of the environment.                                          *)
(***************************************************************************)
EXTENDS ChatTurn, TLAPS

-----------------------------------------------------------------------------
(* Types.  The words a turn's stage is told with are spelled out once.     *)

\* A stage on the way up or on the way down is a stage.
LEMMA Words ==
  /\ Stages = {"none", "asked", "live", "claimed", "opened", "announcing", "announced",
               "probing", "failing", "ended", "recording", "drained", "patching"}
  /\ Starting = {"claimed", "opened", "announcing", "announced", "probing", "failing"}
  /\ Settling = {"ended", "recording", "drained", "patching"}
BY DEF Stages, Starting, Settling

\* A turn's record stays one, whatever field a step sets.
LEMMA TurnFields ==
  ASSUME NEW r \in Turn
  PROVE  /\ \A s \in Stages : [r EXCEPT !.stage = s] \in Turn
         /\ \A s \in Stages, b \in BOOLEAN : [r EXCEPT !.stage = s, !.wrote = b] \in Turn
         /\ \A s \in Stages, b \in BOOLEAN, c \in BOOLEAN :
              [r EXCEPT !.stage = s, !.told = b, !.closed = c] \in Turn
         /\ \A s \in Stages, b \in BOOLEAN, c \in BOOLEAN, e \in Endings :
              [r EXCEPT !.stage = s, !.told = b, !.closed = c, !.ending = e] \in Turn
         /\ \A s \in Stages, e \in Endings, x \in {"none", "seen", "broken"} :
              [r EXCEPT !.stage = s, !.ending = e, !.result = x] \in Turn
         /\ \A s \in Stages, b \in BOOLEAN : [r EXCEPT !.stage = s, !.row = b] \in Turn
         /\ \A b \in BOOLEAN : [r EXCEPT !.closed = b] \in Turn
         /\ \A b \in BOOLEAN, c \in BOOLEAN : [r EXCEPT !.told = b, !.closed = c] \in Turn
         /\ \A a \in SUBSET {"stop", "delete"}, b \in BOOLEAN :
              [r EXCEPT !.asks = a, !.told = b] \in Turn
BY DEF Turn

\* A turn that was never sent, or has just been, is a turn.
LEMMA FreshTurns ==
  /\ NoTurn \in Turn
  /\ \A k \in Kinds, b \in Statuses :
       [NoTurn EXCEPT !.stage = "asked", !.kind = k, !.before = b] \in Turn
BY Words DEF NoTurn, Turn, Kinds, Statuses, Endings

\* Each method of the registry leaves it a registry.
LEMMA RegistryType ==
  ASSUME NEW r \in Registry, NEW t \in Turns
  PROVE  /\ Claimed(r, t) \in Registry /\ Released(r) \in Registry
         /\ Registered(r, t) \in Registry /\ Unregistered(r, t) \in Registry
         /\ CancelNoted(r) \in Registry /\ Draining(r) \in Registry
         /\ Drained(r) \in Registry /\ EmptyRegistry \in Registry
BY DEF Registry, Claimed, Released, Registered, Unregistered, CancelNoted, Draining, Drained, EmptyRegistry

\* A status written leaves the run's row a row.
LEMMA RunType ==
  ASSUME TypeOK, NEW status \in Statuses
  PROVE  RunSaying(status) \in [exists : BOOLEAN, status : Statuses, archived : BOOLEAN]
BY DEF TypeOK, RunSaying

\* A transcript row is an opening or an ending, whether the write took or failed.
LEMMA RowType ==
  ASSUME TypeOK, NEW kind \in {"opening", "ending"}
  PROVE  Written(kind) \subseteq {"opening", "ending"}
BY DEF TypeOK, Written

\* The two operators that touch every turn at once.
LEMMA ClosedTurns ==
  ASSUME NEW T \in [Turns -> Turn]
  PROVE  SessionClosed(T) \in [Turns -> Turn]
BY TurnFields DEF SessionClosed

\* Cancelling a handle leaves turns.
LEMMA CancelledTurns ==
  ASSUME TypeOK, NEW who \in {"stop", "delete"}
  PROVE  HandleCancelled(who) \in [Turns -> Turn]
<1> SUFFICES ASSUME NEW t \in Turns
             PROVE [turn[t] EXCEPT !.asks = @ \cup {who}, !.told = @ \/ reg.live] \in Turn
  BY DEF HandleCancelled, TypeOK
<1>1. turn[t] \in Turn /\ turn[t].asks \cup {who} \in SUBSET {"stop", "delete"} /\ (turn[t].told \/ reg.live) \in BOOLEAN
  BY DEF TypeOK, Turn
<1> QED
  BY <1>1, TurnFields

\* The queue of status writes keeps its type when its head is taken off.
LEMMA WritesType ==
  ASSUME TypeOK, NEW w \in Writers
  PROVE  /\ Append(statusWrites, w) \in Seq(Writers)
         /\ statusWrites # <<>> => Tail(statusWrites) \in Seq(Writers)
         /\ statusWrites # <<>> => statusWrites[Len(statusWrites)] \in Writers
<1>1. statusWrites \in Seq(Writers)
  BY DEF TypeOK
<1> QED
  BY <1>1

\* A turn that is through leaves everything typed.
LEMMA OverType ==
  ASSUME TypeOK, NEW t \in Turns, Over(t)
  PROVE  /\ turn' \in [Turns -> Turn]
         /\ compacting' \in Turns \cup {Nobody} /\ finalizing' \in Turns \cup {Nobody}
         /\ stop' \in [phase : StopPhases, waits : Writers \cup {Nobody}]
         /\ deletion' \in [phase : DeletionPhases, waits : Turns \cup {Nobody}]
BY FreshTurns DEF TypeOK, Over, CompactionReleased

\* A turn that waits to write a status has one to write: neither the null of
\* a host's turn nor the ending of a silent one is written.
StatusesAreKnown ==
  \A t \in Turns :
    /\ StageOf(t) = "failing" => SettleTo(t) # "null"
    /\ StageOf(t) \in {"ended", "recording"} => turn[t].ending # "none"

\* The initial state is well-typed.
LEMMA TypeInit == Init => TypeOK /\ StatusesAreKnown
<1> SUFFICES ASSUME Init PROVE TypeOK /\ StatusesAreKnown
  OBVIOUS
<1>1. turn \in [Turns -> Turn] /\ reg \in Registry
  BY FreshTurns DEF Init, EmptyRegistry, Registry
<1>2. run \in [exists : BOOLEAN, status : Statuses, archived : BOOLEAN]
  BY DEF Init, Statuses
<1>3. stop \in [phase : StopPhases, waits : Writers \cup {Nobody}]
  BY DEF Init, NoStop, StopPhases
<1>4. deletion \in [phase : DeletionPhases, waits : Turns \cup {Nobody}] /\ archive \in ArchivePhases
  BY DEF Init, NoDeletion, DeletionPhases, ArchivePhases
<1>0. statusWrites \in Seq(Writers)
  BY DEF Init
<1>5. TypeOK
  <2> USE DEF Init
  <2>1. stopsRequested \in BOOLEAN /\ shuttingDown \in BOOLEAN /\ up \in BOOLEAN /\ dangling \in BOOLEAN
    OBVIOUS
  <2>2. /\ finalizing \in Turns \cup {Nobody} /\ compacting \in Turns \cup {Nobody}
        /\ orphans \subseteq {"opening", "ending"}
    OBVIOUS
  <2> HIDE DEF Init
  <2> QED
    BY <1>0, <1>1, <1>2, <1>3, <1>4, <2>1, <2>2 DEF TypeOK
<1>6. StatusesAreKnown
  BY DEF Init, StatusesAreKnown, StageOf, NoTurn
<1> QED
  BY <1>5, <1>6

\* The steps that prepare a turn.
LEMMA TypePrepare ==
  ASSUME TypeOK, StatusesAreKnown, NEW t \in Turns,
         Prepare(t) \/ FailStart(t) \/ \E kind \in Kinds : Send(t, kind)
  PROVE  TypeOK'
<1> USE DEF flags, requests, history
<1>1. turn[t] \in Turn /\ run.status \in Statuses /\ t \in Writers
  BY DEF TypeOK, Writers
<1>2. SettleTo(t) \in Statuses \cup {"null"} /\ (Settles(t) => SettleTo(t) \in Statuses)
  BY <1>1 DEF SettleTo, Settles, Turn, Statuses, Terminal
<1>3. ASSUME Abandon(t) PROVE /\ turn' \in [Turns -> Turn] /\ reg' \in Registry
                              /\ finalizing' \in Turns \cup {Nobody} /\ compacting' \in Turns \cup {Nobody}
                              /\ stopsRequested' \in BOOLEAN /\ shuttingDown' \in BOOLEAN /\ up' \in BOOLEAN
                              /\ stop' \in [phase : StopPhases, waits : Writers \cup {Nobody}]
                              /\ archive' \in ArchivePhases
                              /\ deletion' \in [phase : DeletionPhases, waits : Turns \cup {Nobody}]
                              /\ orphans' \subseteq {"opening", "ending"} /\ dangling' \in BOOLEAN
  BY <1>3, OverType, RegistryType DEF Abandon, TypeOK
<1>4. ASSUME Fail(t) PROVE TypeOK'
  <2>1. CASE ~Settles(t)
    BY <2>1, <1>3, <1>4 DEF Fail, TypeOK
  <2>2. CASE Settles(t)
    <3>1. [turn[t] EXCEPT !.stage = "failing"] \in Turn
      BY <1>1, TurnFields, Words
    <3>2. turn' \in [Turns -> Turn] /\ statusWrites' \in Seq(Writers)
      BY <2>2, <3>1, <1>1, <1>4, WritesType DEF Fail, TypeOK
    <3> QED
      BY <2>2, <3>2, <1>4 DEF Fail, TypeOK
  <2> QED
    BY <2>1, <2>2
<1>5. ASSUME NEW kind \in Kinds, Send(t, kind) PROVE TypeOK'
  <2> DEFINE b == IF kind = "host" THEN run.status ELSE NoTurn.before
  <2>1. b \in Statuses
    BY <1>1, FreshTurns DEF Turn
  <2>2. [NoTurn EXCEPT !.stage = "asked", !.kind = kind, !.before = b] \in Turn
    BY <2>1, FreshTurns
  <2>3. turn' = [turn EXCEPT ![t] = [NoTurn EXCEPT !.stage = "asked", !.kind = kind, !.before = b]]
    BY <1>5 DEF Send, NoTurn
  <2>4. turn' \in [Turns -> Turn]
    BY <2>2, <2>3 DEF TypeOK
  <2> QED
    BY <2>4, <1>5 DEF Send, TypeOK
<1>6. ASSUME Claim(t) PROVE TypeOK'
  BY <1>6, <1>1, TurnFields, RegistryType, Words DEF Claim, TypeOK
<1>7. ASSUME Refuse(t) PROVE TypeOK'
  BY <1>7, FreshTurns DEF Refuse, TypeOK
<1>8. ASSUME Open(t) PROVE TypeOK'
  BY <1>8, <1>1, TurnFields, RowType, Words DEF Open, TypeOK
<1>9. ASSUME Announce(t) PROVE TypeOK'
  BY <1>9, <1>1, TurnFields, WritesType, Words DEF Announce, TypeOK
<1>10. ASSUME Announced(t) PROVE TypeOK'
  <2>1. run' \in [exists : BOOLEAN, status : Statuses, archived : BOOLEAN]
    BY <1>10, RunType DEF Announced, Statuses
  <2>2. turn' \in [Turns -> Turn]
    BY <1>10, <1>1, TurnFields, Words DEF Announced, TypeOK
  <2>3. /\ statusWrites' \in Seq(Writers)
        /\ stop' \in [phase : StopPhases, waits : Writers \cup {Nobody}]
    BY <1>10, <1>1, WritesType DEF Announced, NextToWrite, StatusWritten, TypeOK
  <2> QED
    BY <1>10, <2>1, <2>2, <2>3 DEF Announced, TypeOK
<1>11. ASSUME FailDone(t) PROVE TypeOK'
  <2>0. SettleTo(t) \in Statuses
    BY <1>2, <1>11 DEF FailDone, StatusesAreKnown
  <2>1. run' \in [exists : BOOLEAN, status : Statuses, archived : BOOLEAN]
    BY <2>0, <1>11, RunType DEF FailDone
  <2>2. statusWrites' \in Seq(Writers)
    BY <1>11, WritesType, <1>1 DEF FailDone, NextToWrite
  <2>3. Abandon(t)
    BY <1>11 DEF FailDone
  <2> QED
    BY <1>3, <2>1, <2>2, <2>3 DEF TypeOK
<1>12. ASSUME Probe(t) PROVE TypeOK'
  <2>1. CASE CanStart(reg)
    <3>1. [turn[t] EXCEPT !.stage = "probing"] \in Turn
      BY <1>1, TurnFields, Words
    <3> QED
      BY <2>1, <3>1, <1>12 DEF Probe, TypeOK
  <2>2. CASE ~CanStart(reg)
    BY <2>2, <1>12, <1>4 DEF Probe
  <2> QED
    BY <2>1, <2>2
<1>13. ASSUME Launch(t) PROVE TypeOK'
  <2>1. CASE Doomed
    BY <2>1, <1>13, <1>4 DEF Launch
  <2>2. CASE ~Doomed
    <3>1. RegisterCancels(reg) \in BOOLEAN /\ stopsRequested \in BOOLEAN
      BY DEF RegisterCancels, TypeOK, Registry
    <3>2. [turn[t] EXCEPT !.stage = "live", !.told = RegisterCancels(reg), !.closed = stopsRequested] \in Turn
      BY <3>1, <1>1, TurnFields, Words
    <3>3. turn' \in [Turns -> Turn]
      BY <2>2, <3>2, <1>13 DEF Launch, TypeOK
    <3>4. reg' \in Registry /\ finalizing' \in Turns \cup {Nobody}
      <4>1. reg' = Registered(reg, t) /\ finalizing' = t
        BY <2>2, <1>13 DEF Launch
      <4>2. reg \in Registry
        BY DEF TypeOK
      <4>3. Registered(reg, t) \in Registry
        BY <4>2, RegistryType
      <4> QED
        BY <4>1, <4>3
    <3>5. UNCHANGED <<run, statusWrites, compacting, stopsRequested, shuttingDown, requests, up, history>>
      BY <2>2, <1>13 DEF Launch
    <3> QED
      BY <3>3, <3>4, <3>5 DEF TypeOK
  <2> QED
    BY <2>1, <2>2
<1>14. ASSUME FailStart(t) PROVE TypeOK'
  BY <1>14, <1>4 DEF FailStart
<1> QED
  BY <1>5, <1>6, <1>7, <1>8, <1>9, <1>10, <1>11, <1>12, <1>13, <1>14 DEF Prepare

\* The steps that end and settle a turn.
LEMMA TypeSettle ==
  ASSUME TypeOK, StatusesAreKnown, NEW t \in Turns, Settle(t) \/ \E ending \in Endings : EndTurn(t, ending)
  PROVE  TypeOK'
<1> USE DEF flags, requests, history
<1>1. turn[t] \in Turn /\ run.status \in Statuses /\ t \in Writers
  BY DEF TypeOK, Writers
<1>2. turn[t].ending \in Endings /\ "none" \in Endings /\ turn[t].row \in BOOLEAN
  BY <1>1 DEF Turn, Endings
<1>3. ASSUME NEW ending \in Endings, EndTurn(t, ending) PROVE TypeOK'
  <2>1. \A s \in {"ended", "drained"} :
          [turn[t] EXCEPT !.stage = s, !.told = FALSE, !.closed = FALSE, !.ending = ending] \in Turn
    BY <1>1, TurnFields, Words
  <2>2. turn' \in [Turns -> Turn] /\ reg' \in Registry
    BY <2>1, <1>3, RegistryType DEF EndTurn, TypeOK
  <2> QED
    BY <2>2, <1>3 DEF EndTurn, TypeOK
<1>4. ASSUME NEW ok \in BOOLEAN, TerminalEvent(t, ok) PROVE TypeOK'
  <2>1. CASE Interrupted(t) \/ ~ok
    <3>1. \A x \in {"none", "seen", "broken"} :
            [turn[t] EXCEPT !.stage = "drained", !.ending = "none", !.result = x] \in Turn
      BY <1>1, <1>2, TurnFields, Words
    <3>2. /\ turn' = [turn EXCEPT ![t] = [turn[t] EXCEPT !.stage = "drained", !.ending = "none",
                              !.result = IF Interrupted(t) THEN "seen" ELSE "broken"]]
          /\ dangling' = (dangling \/ (Interrupted(t) /\ run.exists))
          /\ UNCHANGED <<statusWrites, orphans>>
      BY <2>1, <1>4 DEF TerminalEvent, TypeOK
    <3>3. turn' \in [Turns -> Turn]
      BY <3>1, <3>2 DEF TypeOK
    <3>4. dangling' \in BOOLEAN
      BY <3>2
    <3> QED
      BY <3>2, <3>3, <3>4, <1>4 DEF TerminalEvent, TypeOK
  <2>2. CASE ~(Interrupted(t) \/ ~ok)
    <3>1. [turn[t] EXCEPT !.stage = "recording", !.row = TRUE] \in Turn
      BY <1>1, TurnFields, Words
    <3>2. turn' = [turn EXCEPT ![t] = [turn[t] EXCEPT !.stage = "recording", !.row = TRUE]] /\ UNCHANGED dangling
      BY <2>2, <1>4 DEF TerminalEvent, TypeOK
    <3>4. turn' \in [Turns -> Turn]
      BY <3>1, <3>2 DEF TypeOK
    <3>3. statusWrites' \in Seq(Writers) /\ orphans' \subseteq {"opening", "ending"}
      BY <2>2, <1>1, <1>4, WritesType, RowType DEF TerminalEvent
    <3> QED
      BY <3>2, <3>3, <3>4, <1>4 DEF TerminalEvent, TypeOK
  <2> QED
    BY <2>1, <2>2
<1>5. ASSUME NEW ok \in BOOLEAN, RecordStatus(t, ok) PROVE TypeOK'
  <2>1. \A x \in {"none", "seen", "broken"} :
          [turn[t] EXCEPT !.stage = "drained", !.ending = "none", !.result = x] \in Turn
    BY <1>1, <1>2, TurnFields, Words
  <2>2. turn' \in [Turns -> Turn]
    BY <2>1, <1>5 DEF RecordStatus, TypeOK
  <2>3. statusWrites' \in Seq(Writers) /\ stop' \in [phase : StopPhases, waits : Writers \cup {Nobody}]
    BY <1>1, <1>5, WritesType DEF RecordStatus, NextToWrite, StatusWritten, TypeOK
  <2>4. turn[t].ending \in Statuses
    BY <1>2, <1>5 DEF RecordStatus, StatusesAreKnown, Endings, Statuses
  <2>5. run' \in [exists : BOOLEAN, status : Statuses, archived : BOOLEAN]
    BY <2>4, <1>5, RunType DEF RecordStatus, TypeOK
  <2> QED
    BY <2>2, <2>3, <2>5, <1>5 DEF RecordStatus, TypeOK
<1>6. ASSUME Finalize(t) PROVE TypeOK'
  <2>1. CASE Finishes(t)
    BY <2>1, <1>6, OverType, RowType DEF Finalize, TypeOK
  <2>2. CASE ~Finishes(t)
    <3>1. \A b \in BOOLEAN : [turn[t] EXCEPT !.stage = "patching", !.row = b] \in Turn
      BY <1>1, TurnFields, Words
    <3>2. turn' = [turn EXCEPT ![t] = [turn[t] EXCEPT !.stage = "patching",
                                                    !.row = turn[t].row \/ turn[t].result = "none"]]
      BY <2>2, <1>1, <1>6 DEF Finalize, TypeOK, Turn
    <3>3. turn' \in [Turns -> Turn]
      BY <3>1, <3>2, <1>2 DEF TypeOK
    <3>4. statusWrites' \in Seq(Writers) /\ orphans' \subseteq {"opening", "ending"}
      <4>1. statusWrites' = Append(statusWrites, t) /\ orphans' \in {Written("ending"), orphans}
        BY <2>2, <1>6 DEF Finalize
      <4> QED
        BY <4>1, <1>1, WritesType, RowType DEF TypeOK
    <3>5. UNCHANGED <<compacting, finalizing, stop, deletion>>
      BY <2>2, <1>6 DEF Finalize
    <3> QED
      BY <3>3, <3>4, <3>5, <1>6 DEF Finalize, TypeOK
  <2> QED
    BY <2>1, <2>2
<1>7. ASSUME Patch(t) PROVE TypeOK'
  <2>1. run' \in [exists : BOOLEAN, status : Statuses, archived : BOOLEAN]
    BY <1>7, RunType DEF Patch, Statuses
  <2>2. statusWrites' \in Seq(Writers) /\ orphans' \subseteq {"opening", "ending"}
    BY <1>7, <1>1, WritesType, RowType DEF Patch, NextToWrite, TypeOK
  <2> QED
    BY <2>1, <2>2, <1>7, OverType DEF Patch, TypeOK
<1> QED
  BY <1>3, <1>4, <1>5, <1>6, <1>7 DEF Settle

\* The phases of the requests, spelled out once.
LEMMA StopTypes ==
  /\ NoStop \in [phase : StopPhases, waits : Writers \cup {Nobody}]
  /\ \A p \in StopPhases, w \in Writers \cup {Nobody} :
       [phase |-> p, waits |-> w] \in [phase : StopPhases, waits : Writers \cup {Nobody}]
  /\ StopPhases = {"idle", "waiting", "checked", "draining", "rechecked", "noting", "writing"}
  /\ NoDeletion \in [phase : DeletionPhases, waits : Turns \cup {Nobody}]
  /\ DeletionPhases = {"idle", "settling", "destroying", "leaving"}
  /\ ArchivePhases = {"idle", "stopping", "stopped", "ending", "marking", "leaving"}
BY DEF NoStop, NoDeletion, StopPhases, DeletionPhases, ArchivePhases, Idle

\* A Stop that has decided is in one of its phases.
LEMMA DecidedType == Decided \in [phase : StopPhases, waits : Writers \cup {Nobody}]
BY StopTypes DEF Decided

\* CancelRun leaves the registry, the turns and the sessions typed.
LEMMA CancelRunType ==
  ASSUME TypeOK, CancelRun \/ CloseThenDecide
  PROVE  /\ turn' \in [Turns -> Turn] /\ reg' \in Registry /\ stopsRequested' \in BOOLEAN
         /\ stop' \in [phase : StopPhases, waits : Writers \cup {Nobody}]
<1>1. ASSUME CloseThenDecide
      PROVE  /\ turn' \in [Turns -> Turn] /\ reg' \in Registry /\ stopsRequested' \in BOOLEAN
             /\ stop' \in [phase : StopPhases, waits : Writers \cup {Nobody}]
  <2>1. turn' \in [Turns -> Turn]
    BY <1>1, ClosedTurns DEF CloseThenDecide, TypeOK
  <2>2. stop' \in [phase : StopPhases, waits : Writers \cup {Nobody}]
    <3>1. CASE statusWrites = <<>>
      BY <3>1, <1>1, DecidedType DEF CloseThenDecide
    <3>2. CASE statusWrites # <<>>
      BY <3>2, <1>1, WritesType, StopTypes, TypeOK DEF CloseThenDecide, Writers
    <3> QED
      BY <3>1, <3>2
  <2> QED
    BY <2>1, <2>2, <1>1 DEF CloseThenDecide, TypeOK
<1>2. CASE CancelRun /\ Has(reg)
  <2>1. turn' \in [Turns -> Turn]
    BY <1>2, CancelledTurns, ClosedTurns DEF CancelRun
  <2> QED
    <3>1. reg' = CancelNoted(reg) /\ stopsRequested' = TRUE /\ stop' = stop
      BY <1>2 DEF CancelRun
    <3>2. CancelNoted(reg) \in Registry
      BY DEF TypeOK, CancelNoted, Registry
    <3> QED
      BY <2>1, <3>1, <3>2 DEF TypeOK
<1>3. CASE CancelRun /\ ~Has(reg) /\ finalizing # Nobody
  <2>1. finalizing \in Writers \cup {Nobody}
    BY DEF TypeOK, Writers
  <2>2. stop' = [phase |-> "waiting", waits |-> finalizing] /\ UNCHANGED <<reg, turn, stopsRequested>>
    BY <1>3 DEF CancelRun
  <2> QED
    BY <2>1, <2>2, StopTypes DEF TypeOK
<1>4. CASE CancelRun /\ ~Has(reg) /\ finalizing = Nobody
  BY <1>1, <1>4 DEF CancelRun
<1> QED
  BY <1>1, <1>2, <1>3, <1>4

\* The steps of the requests.
LEMMA TypeRequests ==
  ASSUME TypeOK, Stop \/ Stopping \/ Archive \/ Archiving \/ Unarchive \/ Delete \/ Deleting
  PROVE  TypeOK'
<1> USE DEF flags, requests, history, stopRest
<1>1. ASSUME Stop PROVE TypeOK'
  BY <1>1, CancelRunType DEF Stop, TypeOK
<1>2. ASSUME StopWaited PROVE TypeOK'
  <2>1. stop' \in [phase : StopPhases, waits : Writers \cup {Nobody}]
    BY <1>2, StopTypes DEF StopWaited
  <2> QED
    BY <2>1, <1>2 DEF StopWaited, TypeOK
<1>3. ASSUME StopReread PROVE TypeOK'
  <2>1. /\ turn' \in [Turns -> Turn] /\ reg' \in Registry /\ stopsRequested' \in BOOLEAN
        /\ stop' \in [phase : StopPhases, waits : Writers \cup {Nobody}]
    <3>1. CASE CloseThenDecide
      BY <3>1, CancelRunType
    <3>2. CASE stop' = Decided /\ UNCHANGED <<reg, turn, stopsRequested>>
      BY <3>2, DecidedType DEF TypeOK
    <3> QED
      BY <3>1, <3>2, <1>3 DEF StopReread
  <2> QED
    BY <2>1, <1>3 DEF StopReread, TypeOK
<1>4. ASSUME StopNote PROVE TypeOK'
  <2>1. stop' \in [phase : StopPhases, waits : Writers \cup {Nobody}]
    BY <1>4, StopTypes DEF StopNote, TypeOK
  <2>2. Stopper \in Writers
    BY DEF Writers
  <2>3. statusWrites' \in Seq(Writers) /\ orphans' \subseteq {"opening", "ending"}
    BY <1>4, <2>2, WritesType, RowType DEF StopNote
  <2> QED
    BY <2>1, <2>3, <1>4 DEF StopNote, TypeOK
<1>5. ASSUME StopWrite PROVE TypeOK'
  <2>1. run' \in [exists : BOOLEAN, status : Statuses, archived : BOOLEAN]
    BY <1>5, RunType DEF StopWrite, Statuses
  <2>2. statusWrites' \in Seq(Writers)
    BY <1>5, WritesType, StopTypes DEF StopWrite, NextToWrite, Writers
  <2> QED
    BY <2>1, <2>2, <1>5, StopTypes DEF StopWrite, TypeOK
<1>6. ASSUME Archive PROVE TypeOK'
  BY <1>6, StopTypes DEF Archive, TypeOK
<1>7. ASSUME ArchiveStop PROVE TypeOK'
  <2>1. /\ turn' \in [Turns -> Turn] /\ reg' \in Registry /\ stopsRequested' \in BOOLEAN
        /\ stop' \in [phase : StopPhases, waits : Writers \cup {Nobody}]
        /\ archive' \in ArchivePhases
    <3>1. CASE run.exists
      BY <3>1, <1>7, CancelRunType, StopTypes DEF ArchiveStop
    <3>2. CASE ~run.exists
      BY <3>2, <1>7, StopTypes DEF ArchiveStop, TypeOK, Idle
    <3> QED
      BY <3>1, <3>2
  <2> QED
    BY <2>1, <1>7 DEF ArchiveStop, TypeOK
<1>8. ASSUME ArchiveEnd PROVE TypeOK'
  BY <1>8, ClosedTurns, StopTypes DEF ArchiveEnd, TypeOK
<1>9. ASSUME ArchiveMark PROVE TypeOK'
  BY <1>9, StopTypes DEF ArchiveMark, TypeOK
<1>10. ASSUME ArchiveLeave PROVE TypeOK'
  BY <1>10, StopTypes DEF ArchiveLeave, TypeOK, Idle
<1>11. ASSUME Unarchive PROVE TypeOK'
  BY <1>11 DEF Unarchive, TypeOK
<1>12. ASSUME Delete PROVE TypeOK'
  <2>1. deletion' \in [phase : DeletionPhases, waits : Turns \cup {Nobody}]
    BY <1>12, StopTypes DEF Delete, TypeOK
  <2>2. turn' \in [Turns -> Turn] /\ reg' \in Registry
    BY <1>12, CancelledTurns DEF Delete, TypeOK, CancelNoted, Registry
  <2> QED
    BY <2>1, <2>2, <1>12 DEF Delete, TypeOK
<1>13. ASSUME DeleteSettled PROVE TypeOK'
  <2>1. turn' \in [Turns -> Turn]
    BY <1>13, ClosedTurns DEF DeleteSettled, TypeOK
  <2> QED
    BY <2>1, <1>13, StopTypes DEF DeleteSettled, TypeOK
<1>14. ASSUME Destroy PROVE TypeOK'
  BY <1>14, StopTypes DEF Destroy, TypeOK
<1>15. ASSUME DeleteLeave PROVE TypeOK'
  BY <1>15, StopTypes DEF DeleteLeave, TypeOK
<1> QED
  BY <1>1, <1>2, <1>3, <1>4, <1>5, <1>6, <1>7, <1>8, <1>9, <1>10, <1>11, <1>12, <1>13, <1>14, <1>15
     DEF Stopping, Archiving, Deleting

\* The steps of the daemon.
LEMMA TypeDaemon ==
  ASSUME TypeOK, Quit \/ Drain \/ DrainDeadline \/ Down \/ Boot
  PROVE  TypeOK'
<1> USE DEF flags, requests, history
<1>1. ASSUME Quit PROVE TypeOK'
  BY <1>1 DEF Quit, TypeOK
<1>2. ASSUME Drain PROVE TypeOK'
  <2>1. \A t \in Turns : [turn[t] EXCEPT !.told = TRUE, !.closed = TRUE] \in Turn
    BY TurnFields DEF TypeOK
  <2>2. turn' \in [Turns -> Turn]
    BY <2>1, <1>2 DEF Drain, TypeOK
  <2>3. reg' \in Registry
    BY <1>2 DEF Drain, Draining, CancelNoted, TypeOK, Registry
  <2> QED
    BY <2>2, <2>3, <1>2 DEF Drain, TypeOK
<1>3. ASSUME DrainDeadline PROVE TypeOK'
  <2>1. reg' \in Registry
    BY <1>3 DEF DrainDeadline, Drained, TypeOK, Registry
  <2> QED
    BY <2>1, <1>3 DEF DrainDeadline, TypeOK
<1>4. ASSUME Down PROVE TypeOK'
  <2>1. turn' \in [Turns -> Turn] /\ reg' \in Registry
    BY <1>4, FreshTurns DEF Down, EmptyRegistry, Registry
  <2>2. statusWrites' \in Seq(Writers) /\ archive' \in ArchivePhases
    BY <1>4, StopTypes DEF Down, Idle
  <2>3. /\ up' = FALSE /\ stopsRequested' = FALSE /\ shuttingDown' = FALSE
        /\ dangling' = (dangling \/ (run.exists /\ \E t \in Turns : Cut(t)))
        /\ finalizing' = Nobody /\ compacting' = Nobody
        /\ stop' = NoStop /\ deletion' = NoDeletion /\ UNCHANGED <<run, orphans>>
    BY <1>4 DEF Down
  <2> QED
    BY <2>1, <2>2, <2>3, StopTypes DEF TypeOK
<1>5. ASSUME Boot PROVE TypeOK'
  <2>1. run' \in [exists : BOOLEAN, status : Statuses, archived : BOOLEAN]
    BY <1>5 DEF Boot, TypeOK, Statuses
  <2>2. up' = TRUE /\ dangling' = (dangling /\ ~LeftRunning)
        /\ UNCHANGED <<turn, reg, statusWrites, flags, requests, orphans>>
    BY <1>5 DEF Boot
  <2> QED
    BY <2>1, <2>2 DEF TypeOK
<1> QED
  BY <1>1, <1>2, <1>3, <1>4, <1>5

\* What a turn that waits to write says is settled when the wait begins.
LEMMA KnownKept ==
  ASSUME TypeOK, StatusesAreKnown,
         \A u \in Turns : turn'[u].stage \in {"failing", "ended", "recording"} =>
            /\ turn'[u].stage = turn[u].stage /\ turn'[u].kind = turn[u].kind
            /\ turn'[u].wrote = turn[u].wrote /\ turn'[u].before = turn[u].before
            /\ turn'[u].ending = turn[u].ending
  PROVE  StatusesAreKnown'
BY DEF StatusesAreKnown, SettleTo, StageOf

\* A request or the daemon marks turns, or takes all of them down with it,
\* but moves none on.
StagesStand ==
  \A u \in Turns : \/ turn'[u] = NoTurn
                   \/ /\ turn'[u].stage = turn[u].stage /\ turn'[u].kind = turn[u].kind
                      /\ turn'[u].wrote = turn[u].wrote /\ turn'[u].before = turn[u].before
                      /\ turn'[u].ending = turn[u].ending

RequestStep == Stop \/ Stopping \/ Archive \/ Archiving \/ Unarchive \/ Delete \/ Deleting
DaemonStep == Quit \/ Drain \/ DrainDeadline \/ Down \/ Boot

\* No request and no step of the daemon puts a turn in the queue for a status.
LEMMA OthersStand ==
  ASSUME TypeOK, RequestStep \/ DaemonStep
  PROVE  StagesStand
<1> USE DEF StageOf, Turn
<1>0. turn \in [Turns -> Turn]
  BY DEF TypeOK
<1>1. ASSUME turn' = SessionClosed(turn) PROVE StagesStand
  BY <1>0, <1>1 DEF SessionClosed, StagesStand
<1>2. ASSUME NEW who, turn' = HandleCancelled(who) PROVE StagesStand
  BY <1>0, <1>2 DEF HandleCancelled, StagesStand
<1>3. ASSUME turn' = SessionClosed(HandleCancelled("stop")) PROVE StagesStand
  <2>1. HandleCancelled("stop") \in [Turns -> Turn]
    BY CancelledTurns
  <2>2. \A u \in Turns : LET c == HandleCancelled("stop")[u] IN
          /\ c.stage = turn[u].stage /\ c.kind = turn[u].kind /\ c.wrote = turn[u].wrote
          /\ c.before = turn[u].before /\ c.ending = turn[u].ending
    BY <1>0 DEF HandleCancelled
  <2>3. \A u \in Turns : LET c == HandleCancelled("stop")[u] IN
          /\ turn'[u].stage = c.stage /\ turn'[u].kind = c.kind /\ turn'[u].wrote = c.wrote
          /\ turn'[u].before = c.before /\ turn'[u].ending = c.ending
    BY <1>3, <2>1 DEF SessionClosed
  <2> QED
    BY <2>2, <2>3 DEF StagesStand
<1>4. ASSUME turn' = turn PROVE StagesStand
  BY <1>4 DEF StagesStand
<1>5. CancelRun \/ CloseThenDecide => StagesStand
  BY <1>1, <1>3, <1>4 DEF CancelRun, CloseThenDecide
<1>6. CASE Stop \/ Stopping
  BY <1>4, <1>5, <1>6 DEF Stop, Stopping, StopWaited, StopReread, StopNote, StopWrite
<1>7. CASE Archive \/ Archiving \/ Unarchive
  BY <1>1, <1>4, <1>5, <1>7 DEF Archive, Archiving, ArchiveStop, ArchiveEnd, ArchiveMark, ArchiveLeave, Unarchive
<1>8. CASE Delete \/ Deleting
  BY <1>1, <1>2, <1>4, <1>8 DEF Delete, Deleting, DeleteSettled, Destroy, DeleteLeave
<1>9. CASE Down
  BY <1>9 DEF Down, StagesStand
<1>10. CASE Drain
  BY <1>0, <1>10 DEF Drain, StagesStand
<1>11. CASE Quit \/ DrainDeadline \/ Boot
  BY <1>4, <1>11 DEF Quit, DrainDeadline, Boot
<1> QED
  BY <1>6, <1>7, <1>8, <1>9, <1>10, <1>11 DEF RequestStep, DaemonStep

\* Every step keeps StatusesAreKnown.
LEMMA KnownStep ==
  ASSUME TypeOK, StatusesAreKnown, [Next]_vars
  PROVE  StatusesAreKnown'
<1> USE DEF StageOf, Turn
<1>0. turn \in [Turns -> Turn]
  BY DEF TypeOK
<1>1. ASSUME NEW t \in Turns, Fail(t) PROVE StatusesAreKnown'
  <2>1. CASE Settles(t)
    <3>1. turn' = [turn EXCEPT ![t].stage = "failing"]
      BY <2>1, <1>1 DEF Fail
    <3>2. SettleTo(t)' = SettleTo(t)
      BY <3>1, <1>0 DEF SettleTo
    <3>3. \A u \in Turns \ {t} : turn'[u] = turn[u] /\ SettleTo(u)' = SettleTo(u)
      BY <3>1, <1>0 DEF SettleTo
    <3>4. turn'[t].stage = "failing"
      BY <3>1, <1>0
    <3> QED
      BY <2>1, <3>2, <3>3, <3>4 DEF StatusesAreKnown, Settles
  <2>2. CASE ~Settles(t)
    BY <2>2, <1>1, <1>0, KnownKept DEF Fail, Abandon, Over, NoTurn
  <2> QED
    BY <2>1, <2>2
<1>2. ASSUME NEW t \in Turns, Prepare(t) PROVE StatusesAreKnown'
  <2>1. CASE Claim(t) \/ Refuse(t) \/ Open(t) \/ Announce(t) \/ Announced(t)
    BY <2>1, <1>0, KnownKept DEF Claim, Refuse, Open, Announce, Announced, NoTurn
  <2>2. CASE FailDone(t)
    BY <2>2, <1>0, KnownKept DEF FailDone, Abandon, Over, NoTurn
  <2>3. CASE Probe(t)
    BY <2>3, <1>0, <1>1, KnownKept DEF Probe
  <2>4. CASE Launch(t)
    BY <2>4, <1>0, <1>1, KnownKept DEF Launch
  <2> QED
    BY <1>2, <2>1, <2>2, <2>3, <2>4 DEF Prepare
<1>3. ASSUME NEW t \in Turns, FailStart(t) PROVE StatusesAreKnown'
  BY <1>3, <1>1 DEF FailStart
<1>4. ASSUME NEW t \in Turns, NEW kind \in Kinds, Send(t, kind) PROVE StatusesAreKnown'
  BY <1>4, <1>0, KnownKept DEF Send, NoTurn
<1>5. ASSUME NEW t \in Turns, NEW ending \in Endings, EndTurn(t, ending) PROVE StatusesAreKnown'
  <2>1. \A u \in Turns : SettleTo(u)' = SettleTo(u)
    BY <1>5, <1>0 DEF EndTurn, SettleTo
  <2>2. \A u \in Turns \ {t} : turn'[u] = turn[u]
    BY <1>5, <1>0 DEF EndTurn
  <2>3. turn'[t].stage # "failing" /\ (turn'[t].stage \in {"ended", "recording"} => turn'[t].ending # "none")
    BY <1>5, <1>0 DEF EndTurn
  <2> QED
    BY <2>1, <2>2, <2>3 DEF StatusesAreKnown
<1>6. ASSUME NEW t \in Turns, Settle(t) PROVE StatusesAreKnown'
  <2>1. ASSUME NEW ok \in BOOLEAN, TerminalEvent(t, ok) PROVE StatusesAreKnown'
    <3>1. \A u \in Turns : SettleTo(u)' = SettleTo(u)
      BY <2>1, <1>0 DEF TerminalEvent, SettleTo
    <3>2. \A u \in Turns \ {t} : turn'[u] = turn[u]
      BY <2>1, <1>0 DEF TerminalEvent
    <3>3. \/ turn'[t].stage = "drained"
          \/ turn'[t].stage = "recording" /\ turn'[t].ending = turn[t].ending
      BY <2>1, <1>0 DEF TerminalEvent
    <3>4. turn[t].stage = "ended"
      BY <2>1 DEF TerminalEvent
    <3> QED
      BY <3>1, <3>2, <3>3, <3>4 DEF StatusesAreKnown
  <2>2. ASSUME NEW ok \in BOOLEAN, RecordStatus(t, ok) PROVE StatusesAreKnown'
    BY <2>2, <1>0, KnownKept DEF RecordStatus
  <2>3. CASE Finalize(t)
    BY <2>3, <1>0, KnownKept DEF Finalize, Over, NoTurn
  <2>4. CASE Patch(t)
    BY <2>4, <1>0, KnownKept DEF Patch, Over, NoTurn
  <2> QED
    BY <1>6, <2>1, <2>2, <2>3, <2>4 DEF Settle
<1>7. CASE RequestStep \/ DaemonStep
  BY <1>7, OthersStand, KnownKept DEF StagesStand, NoTurn
<1>8. CASE UNCHANGED vars
  BY <1>8, KnownKept DEF vars
<1> QED
  BY <1>2, <1>3, <1>4, <1>5, <1>6, <1>7, <1>8 DEF Next, RequestStep, DaemonStep

\* Every reachable state is well-typed: every status written is one of a
\* run's, and whoever waits waits for a turn, the Stop request or nobody.
THEOREM TypeCorrect == Spec => [](TypeOK /\ StatusesAreKnown)
<1>1. ASSUME TypeOK, StatusesAreKnown, [Next]_vars PROVE TypeOK'
  <2>1. CASE UNCHANGED vars
    BY <1>1, <2>1 DEF vars, flags, requests, history, TypeOK
  <2>2. ASSUME NEW t \in Turns, Prepare(t) \/ FailStart(t) \/ \E kind \in Kinds : Send(t, kind) PROVE TypeOK'
    BY <1>1, <2>2, TypePrepare
  <2>3. ASSUME NEW t \in Turns, Settle(t) \/ \E ending \in Endings : EndTurn(t, ending) PROVE TypeOK'
    BY <1>1, <2>3, TypeSettle
  <2>4. CASE RequestStep
    BY <1>1, <2>4, TypeRequests DEF RequestStep
  <2>5. CASE DaemonStep
    BY <1>1, <2>5, TypeDaemon DEF DaemonStep
  <2> QED
    BY <1>1, <2>1, <2>2, <2>3, <2>4, <2>5 DEF Next, RequestStep, DaemonStep
<1>2. TypeOK /\ StatusesAreKnown /\ [Next]_vars => TypeOK' /\ StatusesAreKnown'
  BY <1>1, KnownStep
<1> QED
  BY TypeInit, <1>2, PTL DEF Spec
-----------------------------------------------------------------------------
(* The run's slot, proved for any number of turns and any happenings: it   *)
(* is held by the turn that starts or runs, and a Stop or a delete reaches *)
(* that turn and no other.                                                 *)

Fresh == {"none", "asked"}

\* A turn that has not claimed the slot was cancelled by nobody.
FreshIsUnasked == \A t \in Turns : StageOf(t) \in Fresh => turn[t].asks = {}
\* A Stop of a turn that is starting is on record for register to find.
AsksAreNoted ==
  \A t \in Turns : StageOf(t) \in Starting /\ turn[t].asks # {} => reg.cancelRequested \/ reg.shuttingDown
\* What is on record is a Stop of the turn that holds the claim now.
NotesAreAsked ==
  reg.cancelRequested /\ ~reg.shuttingDown => HasClaim(reg) /\ turn[reg.holder].asks # {}

\* The inductive invariant: between the claim and register the record in the
\* registry and the presses at the turn are the same thing.
SoundSlot ==
  /\ SlotMatchesTurn /\ StopIsNeverLost /\ NoStrayCancel
  /\ FreshIsUnasked /\ AsksAreNoted /\ NotesAreAsked

-----------------------------------------------------------------------------
\* The invariant holds with an empty registry and no turn.
LEMMA SlotInit == Init => SoundSlot
<1> SUFFICES ASSUME Init PROVE SoundSlot
  OBVIOUS
<1>1. reg = EmptyRegistry /\ \A t \in Turns : turn[t] = NoTurn
  BY DEF Init
<1> QED
  BY <1>1, Words DEF SoundSlot, SlotMatchesTurn, StopIsNeverLost, NoStrayCancel, FreshIsUnasked, AsksAreNoted,
     NotesAreAsked, EmptyRegistry, NoTurn, Has, HasClaim, Live, StageOf, Fresh

\* A step that leaves the registry alone, and every turn within its part of
\* life or takes one that gave up the slot out of it.
Within(u) ==
  \/ /\ turn'[u].asks = turn[u].asks /\ turn'[u].told = turn[u].told
     /\ (turn'[u].stage \in Fresh) = (turn[u].stage \in Fresh)
     /\ (turn'[u].stage \in Starting) = (turn[u].stage \in Starting)
     /\ (turn'[u].stage = "live") = (turn[u].stage = "live")
  \/ turn[u].stage \in Settling \cup Fresh /\ turn'[u] = NoTurn

\* It survives a step that leaves the slot and each turn's part of life alone.
LEMMA SlotStands ==
  ASSUME SoundSlot, TypeOK, reg' = reg, \A u \in Turns : Within(u)
  PROVE  SoundSlot'
<1> USE DEF StageOf, Fresh
<1>1. ASSUME NEW u \in Turns
      PROVE  /\ (turn'[u].stage \in Starting) = (turn[u].stage \in Starting)
             /\ (turn'[u].stage = "live") = (turn[u].stage = "live")
             /\ turn'[u].stage \in Starting \cup {"live"} =>
                  turn'[u].asks = turn[u].asks /\ turn'[u].told = turn[u].told
             /\ turn'[u].stage \in Fresh => turn'[u].asks = {}
  <2>1. CASE turn[u].stage \in Settling \cup Fresh /\ turn'[u] = NoTurn
    BY <2>1, Words DEF NoTurn
  <2>2. CASE ~(turn[u].stage \in Settling \cup Fresh /\ turn'[u] = NoTurn)
    BY <2>2 DEF Within, SoundSlot, FreshIsUnasked
  <2> QED
    BY <2>1, <2>2
<1>2. Has(reg) => reg.holder \in Turns
  BY DEF TypeOK, Registry, Has
<1>3. SlotMatchesTurn'
  BY <1>1, <1>2 DEF SoundSlot, SlotMatchesTurn, Has
<1>4. StopIsNeverLost' /\ NoStrayCancel'
  BY <1>1 DEF SoundSlot, StopIsNeverLost, NoStrayCancel, Live
<1>5. FreshIsUnasked' /\ AsksAreNoted'
  BY <1>1 DEF SoundSlot, FreshIsUnasked, AsksAreNoted
<1>6. NotesAreAsked'
  <2>1. HasClaim(reg) => turn[reg.holder].stage \in Starting
    BY <1>2 DEF SoundSlot, SlotMatchesTurn, HasClaim
  <2> QED
    BY <1>1, <1>2, <2>1 DEF SoundSlot, NotesAreAsked, HasClaim, Has
<1> QED
  BY <1>3, <1>4, <1>5, <1>6 DEF SoundSlot
-----------------------------------------------------------------------------
\* A start that fails gives the claim up, and the Stop recorded for it.
LEMMA SlotAbandon ==
  ASSUME SoundSlot, TypeOK, NEW t \in Turns, StageOf(t) \in Starting, Abandon(t)
  PROVE  SoundSlot'
<1> USE DEF StageOf, Fresh
<1>0. turn \in [Turns -> Turn] /\ reg \in Registry
  BY DEF TypeOK
<1>1. turn' = [turn EXCEPT ![t] = NoTurn] /\ reg' = Released(reg)
  BY DEF Abandon, Over
<1>2. turn'[t] = NoTurn /\ \A u \in Turns \ {t} : turn'[u] = turn[u]
  BY <1>0, <1>1
<1>3. ~reg.shuttingDown => reg.holder = t /\ HasClaim(reg)
  BY <1>0, TurnsAssumption, Words DEF SoundSlot, SlotMatchesTurn, HasClaim, Has
<1>4. /\ reg'.shuttingDown = reg.shuttingDown
      /\ HasClaim(reg) => reg'.holder = Nobody /\ ~reg'.cancelRequested
      /\ ~HasClaim(reg) => reg' = reg
  BY <1>0, <1>1 DEF Released, Registry
<1>5. ~reg.shuttingDown => \A u \in Turns \ {t} : turn[u].stage \notin Starting \cup {"live"}
  BY <1>3 DEF SoundSlot, SlotMatchesTurn
<1>6. SlotMatchesTurn'
  <2>1. CASE HasClaim(reg)
    BY <2>1, <1>2, <1>4, <1>5, Words DEF SlotMatchesTurn, Has, NoTurn
  <2>2. CASE ~HasClaim(reg)
    <3>1. reg.shuttingDown /\ reg' = reg
      BY <2>2, <1>3, <1>4
    <3>2. Has(reg) => reg.live /\ reg.holder # t
      BY <2>2, <1>0, Words DEF SoundSlot, SlotMatchesTurn, Has, HasClaim, Registry
    <3> QED
      BY <3>1, <3>2, <1>0, <1>2 DEF SoundSlot, SlotMatchesTurn, Has, Registry
  <2> QED
    BY <2>1, <2>2
<1>7. StopIsNeverLost' /\ NoStrayCancel'
  BY <1>2, <1>4 DEF SoundSlot, StopIsNeverLost, NoStrayCancel, Live, NoTurn
<1>8. FreshIsUnasked' /\ AsksAreNoted' /\ NotesAreAsked'
  BY <1>2, <1>3, <1>4, <1>5, Words DEF SoundSlot, FreshIsUnasked, AsksAreNoted, NotesAreAsked, NoTurn
<1> QED
  BY <1>6, <1>7, <1>8 DEF SoundSlot

\* tryClaim finds the registry empty, and so without a Stop on record.
LEMMA SlotClaim ==
  ASSUME SoundSlot, TypeOK, NEW t \in Turns, Claim(t)
  PROVE  SoundSlot'
<1> USE DEF StageOf, Fresh
<1>0. turn \in [Turns -> Turn] /\ reg \in Registry
  BY DEF TypeOK
<1>1. turn' = [turn EXCEPT ![t].stage = "claimed"] /\ reg' = Claimed(reg, t)
  BY DEF Claim
<1>2. /\ \A u \in Turns \ {t} : turn'[u] = turn[u]
      /\ turn'[t].stage = "claimed" /\ turn'[t].asks = turn[t].asks /\ turn[t].asks = {}
  BY <1>0, <1>1 DEF Claim, SoundSlot, FreshIsUnasked, Turn
<1>3. ~Has(reg) /\ ~reg.shuttingDown /\ ~reg.cancelRequested
  BY DEF Claim, CanClaim, SoundSlot, NotesAreAsked, HasClaim
<1>4. /\ reg'.holder = t /\ ~reg'.live
      /\ reg'.cancelRequested = reg.cancelRequested /\ reg'.shuttingDown = reg.shuttingDown
  BY <1>0, <1>1 DEF Claimed, Registry
<1>5. \A u \in Turns : turn[u].stage \notin Starting \cup {"live"}
  BY <1>3, TurnsAssumption DEF SoundSlot, SlotMatchesTurn, Has
<1>6. SlotMatchesTurn'
  BY <1>2, <1>4, <1>5, Words DEF SlotMatchesTurn
<1>7. StopIsNeverLost' /\ NoStrayCancel'
  BY <1>2, <1>5 DEF StopIsNeverLost, NoStrayCancel, Live
<1>8. FreshIsUnasked' /\ AsksAreNoted' /\ NotesAreAsked'
  BY <1>2, <1>3, <1>4, <1>5 DEF SoundSlot, FreshIsUnasked, AsksAreNoted, NotesAreAsked
<1> QED
  BY <1>6, <1>7, <1>8 DEF SoundSlot

\* register finds the Stop pressed since the claim, and only that one.
LEMMA SlotLaunch ==
  ASSUME SoundSlot, TypeOK, NEW t \in Turns, StageOf(t) = "probing",
         turn' = [turn EXCEPT ![t] = [turn[t] EXCEPT !.stage = "live", !.told = RegisterCancels(reg),
                                                     !.closed = stopsRequested]],
         reg' = Registered(reg, t)
  PROVE  SoundSlot'
<1> USE DEF StageOf, Fresh
<1>0. turn \in [Turns -> Turn] /\ reg \in Registry
  BY DEF TypeOK
<1>2. /\ \A u \in Turns \ {t} : turn'[u] = turn[u]
      /\ turn'[t].stage = "live" /\ turn'[t].asks = turn[t].asks /\ turn'[t].told = RegisterCancels(reg)
  BY <1>0 DEF Turn
<1>3. reg'.holder = t /\ reg'.live /\ ~reg'.cancelRequested /\ reg'.shuttingDown = reg.shuttingDown
  BY <1>0 DEF Registered, Registry
<1>4. turn[t].stage \in Starting
  BY Words
<1>5. ~reg.shuttingDown => /\ reg.holder = t
                           /\ \A u \in Turns \ {t} : turn[u].stage \notin Starting \cup {"live"}
  BY <1>4 DEF SoundSlot, SlotMatchesTurn
<1>6. SlotMatchesTurn'
  BY <1>2, <1>3, <1>5 DEF SlotMatchesTurn
<1>7. StopIsNeverLost'
  <2>1. turn[t].asks # {} => RegisterCancels(reg)
    BY <1>4 DEF SoundSlot, AsksAreNoted, RegisterCancels
  <2>2. \A u \in Turns \ {t} : turn[u].stage = "live" /\ turn[u].asks # {} => turn[u].told
    BY DEF SoundSlot, StopIsNeverLost, Live
  <2> QED
    BY <2>1, <2>2, <1>2 DEF StopIsNeverLost, Live
<1>8. NoStrayCancel'
  <2>1. RegisterCancels(reg) => turn[t].asks # {} \/ reg.shuttingDown
    BY <1>5 DEF SoundSlot, NotesAreAsked, RegisterCancels
  <2>2. \A u \in Turns \ {t} : turn[u].stage = "live" /\ turn[u].told => turn[u].asks # {} \/ reg.shuttingDown
    BY DEF SoundSlot, NoStrayCancel, Live
  <2> QED
    BY <2>1, <2>2, <1>2, <1>3 DEF NoStrayCancel, Live
<1>9. FreshIsUnasked' /\ AsksAreNoted' /\ NotesAreAsked'
  BY <1>2, <1>3, <1>5, Words DEF SoundSlot, FreshIsUnasked, AsksAreNoted, NotesAreAsked
<1> QED
  BY <1>6, <1>7, <1>8, <1>9 DEF SoundSlot

\* The turn ends and the registry forgets exactly its handle.
LEMMA SlotEnd ==
  ASSUME SoundSlot, TypeOK, NEW t \in Turns, NEW ending \in Endings, EndTurn(t, ending)
  PROVE  SoundSlot'
<1> USE DEF StageOf, Fresh
<1>0. turn \in [Turns -> Turn] /\ reg \in Registry
  BY DEF TypeOK
<1>1. turn[t].stage = "live" /\ reg' = Unregistered(reg, t)
  BY DEF EndTurn
<1>2. /\ \A u \in Turns \ {t} : turn'[u] = turn[u]
      /\ turn'[t].stage \in Settling
  BY <1>0, Words DEF EndTurn, Turn
<1>3. /\ reg'.shuttingDown = reg.shuttingDown /\ reg'.cancelRequested = reg.cancelRequested
      /\ HasHandle(reg) /\ reg.holder = t => reg'.holder = Nobody
      /\ ~(HasHandle(reg) /\ reg.holder = t) => reg' = reg
  BY <1>0, <1>1 DEF Unregistered, Registry
<1>4. ~reg.shuttingDown =>
        /\ HasHandle(reg) /\ reg.holder = t /\ ~reg.cancelRequested
        /\ \A u \in Turns \ {t} : turn[u].stage \notin Starting \cup {"live"}
  BY <1>0, <1>1, TurnsAssumption, Words
     DEF SoundSlot, SlotMatchesTurn, NotesAreAsked, HasHandle, HasClaim, Has
<1>5. SlotMatchesTurn'
  <2>1. CASE HasHandle(reg) /\ reg.holder = t
    BY <2>1, <1>2, <1>3, <1>4, Words DEF SlotMatchesTurn, Has
  <2>2. CASE ~(HasHandle(reg) /\ reg.holder = t)
    <3>1. reg' = reg /\ reg.shuttingDown
      BY <2>2, <1>3, <1>4
    <3>2. Has(reg) => reg.holder # t
      BY <2>2, <1>1, Words DEF SoundSlot, SlotMatchesTurn, HasHandle
    <3> QED
      BY <3>1, <3>2, <1>0, <1>2 DEF SoundSlot, SlotMatchesTurn, Has, Registry
  <2> QED
    BY <2>1, <2>2
<1>6. StopIsNeverLost' /\ NoStrayCancel'
  BY <1>2, <1>3, Words DEF SoundSlot, StopIsNeverLost, NoStrayCancel, Live
<1>7. FreshIsUnasked' /\ AsksAreNoted' /\ NotesAreAsked'
  BY <1>2, <1>3, <1>4, Words DEF SoundSlot, FreshIsUnasked, AsksAreNoted, NotesAreAsked
<1> QED
  BY <1>5, <1>6, <1>7 DEF SoundSlot

\* A cancel reaches the handle, or is noted for the claim.
LEMMA SlotCancel ==
  ASSUME SoundSlot, TypeOK, NEW who \in {"stop", "delete"}, Has(reg), reg' = CancelNoted(reg),
         turn' \in {HandleCancelled(who), SessionClosed(HandleCancelled(who))}
  PROVE  SoundSlot'
<1> USE DEF StageOf, Fresh
<1> DEFINE h == reg.holder
<1>0. turn \in [Turns -> Turn] /\ reg \in Registry /\ h \in Turns
  BY DEF TypeOK, Registry, Has
<1>1. HandleCancelled(who) \in [Turns -> Turn]
  BY CancelledTurns
<1>2. /\ \A u \in Turns \ {h} : HandleCancelled(who)[u] = turn[u]
      /\ HandleCancelled(who)[h].stage = turn[h].stage
      /\ HandleCancelled(who)[h].asks = turn[h].asks \cup {who}
      /\ HandleCancelled(who)[h].told = (turn[h].told \/ reg.live)
  <2>1. HandleCancelled(who)[h] = [turn[h] EXCEPT !.asks = turn[h].asks \cup {who}, !.told = turn[h].told \/ reg.live]
    BY <1>0 DEF HandleCancelled, Turn
  <2>2. turn[h] \in Turn
    BY <1>0
  <2>3. ASSUME NEW r \in Turn, NEW a, NEW b
        PROVE  LET c == [r EXCEPT !.asks = a, !.told = b] IN c.stage = r.stage /\ c.asks = a /\ c.told = b
    BY DEF Turn
  <2>4. \A u \in Turns \ {h} : HandleCancelled(who)[u] = turn[u]
    BY <1>0 DEF HandleCancelled
  <2> QED
    BY <2>1, <2>2, <2>3, <2>4
<1>3. \A u \in Turns : /\ turn'[u].stage = HandleCancelled(who)[u].stage
                       /\ turn'[u].asks = HandleCancelled(who)[u].asks
                       /\ turn'[u].told = HandleCancelled(who)[u].told
  <2> DEFINE H == HandleCancelled(who)
  <2>1. \A u \in Turns : /\ SessionClosed(H)[u].stage = H[u].stage /\ SessionClosed(H)[u].asks = H[u].asks
                         /\ SessionClosed(H)[u].told = H[u].told
    <3> HIDE DEF H
    <3> QED
      BY <1>1 DEF SessionClosed, Turn, H
  <2> QED
    BY <2>1
<1>4. /\ reg'.shuttingDown = reg.shuttingDown /\ reg'.holder = h /\ reg'.live = reg.live
      /\ ~reg.live => reg'.cancelRequested
      /\ reg.live => reg'.cancelRequested = reg.cancelRequested
  BY <1>0 DEF CancelNoted, HasClaim, Registry
<1>5. turn[h].stage = "live" <=> reg.live
  BY <1>0, Words DEF SoundSlot, SlotMatchesTurn, Registry
<1>6. turn[h].stage \in Starting \cup {"live"}
  BY <1>0 DEF SoundSlot, SlotMatchesTurn
<1>7. SlotMatchesTurn'
  BY <1>2, <1>3, <1>4, <1>0 DEF SoundSlot, SlotMatchesTurn, Has
<1>8. StopIsNeverLost'
  <2>1. turn'[h].stage = "live" => turn'[h].told
    BY <1>0, <1>2, <1>3, <1>5
  <2>2. \A u \in Turns \ {h} : turn'[u].stage = "live" /\ turn'[u].asks # {} => turn'[u].told
    BY <1>2, <1>3 DEF SoundSlot, StopIsNeverLost, Live
  <2> QED
    BY <2>1, <2>2 DEF StopIsNeverLost, Live
<1>9. NoStrayCancel'
  <2>1. turn'[h].asks # {}
    BY <1>0, <1>2, <1>3
  <2>2. \A u \in Turns \ {h} : turn'[u].stage = "live" /\ turn'[u].told => turn'[u].asks # {} \/ reg.shuttingDown
    BY <1>2, <1>3 DEF SoundSlot, NoStrayCancel, Live
  <2> QED
    BY <2>1, <2>2, <1>4 DEF NoStrayCancel, Live
<1>10. FreshIsUnasked'
  BY <1>0, <1>2, <1>3, <1>6, Words DEF SoundSlot, FreshIsUnasked
<1>11. AsksAreNoted'
  <2>1. CASE reg.live
    BY <2>1, <1>0, <1>2, <1>3, <1>4, <1>5, Words DEF SoundSlot, AsksAreNoted
  <2>2. CASE ~reg.live
    BY <2>2, <1>4 DEF AsksAreNoted
  <2> QED
    BY <2>1, <2>2
<1>12. NotesAreAsked'
  <2>1. CASE reg.live
    BY <2>1, <1>4 DEF SoundSlot, NotesAreAsked, HasClaim, Has
  <2>2. CASE ~reg.live
    BY <2>2, <1>0, <1>2, <1>3, <1>4, TurnsAssumption DEF NotesAreAsked, HasClaim, Has
  <2> QED
    BY <2>1, <2>2
<1> QED
  BY <1>7, <1>8, <1>9, <1>10, <1>11, <1>12 DEF SoundSlot

\* A shutdown cancels everything, and says so in shuttingDown.
LEMMA SlotDaemon ==
  ASSUME SoundSlot, TypeOK, DaemonStep
  PROVE  SoundSlot'
<1> USE DEF StageOf, Fresh
<1>0. turn \in [Turns -> Turn] /\ reg \in Registry
  BY DEF TypeOK
<1>1. CASE Quit \/ Boot
  <2>1. turn' = turn /\ reg' = reg
    BY <1>1 DEF Quit, Boot
  <2> QED
    BY <2>1, SlotStands DEF Within
<1>2. CASE Drain
  <2>1. /\ \A u \in Turns : /\ turn'[u].stage = turn[u].stage /\ turn'[u].asks = turn[u].asks
                            /\ turn[u].stage = "live" => turn'[u].told
                            /\ turn[u].stage # "live" => turn'[u] = turn[u]
        /\ reg' = Draining(reg)
    BY <1>0, <1>2 DEF Drain, Turn
  <2>2. reg'.shuttingDown /\ reg'.holder = reg.holder /\ reg'.live = reg.live
    BY <2>1, <1>0 DEF Draining, CancelNoted, Registry
  <2> QED
    BY <2>1, <2>2, <1>0 DEF SoundSlot, SlotMatchesTurn, StopIsNeverLost, NoStrayCancel, FreshIsUnasked,
       AsksAreNoted, NotesAreAsked, Live, Has, Registry
<1>3. CASE DrainDeadline
  <2>1. turn' = turn /\ reg'.shuttingDown /\ reg'.holder = Nobody
    BY <1>0, <1>3 DEF DrainDeadline, Drained, Registry
  <2> QED
    BY <2>1 DEF SoundSlot, SlotMatchesTurn, StopIsNeverLost, NoStrayCancel, FreshIsUnasked,
       AsksAreNoted, NotesAreAsked, Live, Has
<1>4. CASE Down
  <2>1. reg' = EmptyRegistry /\ \A u \in Turns : turn'[u] = NoTurn
    BY <1>4 DEF Down
  <2> QED
    BY <2>1, Words DEF SoundSlot, SlotMatchesTurn, StopIsNeverLost, NoStrayCancel, FreshIsUnasked,
       AsksAreNoted, NotesAreAsked, Live, Has, HasClaim, EmptyRegistry, NoTurn
<1> QED
  BY <1>1, <1>2, <1>3, <1>4 DEF DaemonStep

\* What the other requests do leaves every turn within its part of life.
LEMMA SlotRequests ==
  ASSUME SoundSlot, TypeOK, RequestStep
  PROVE  SoundSlot'
<1> USE DEF StageOf, Fresh
<1>0. turn \in [Turns -> Turn] /\ reg \in Registry
  BY DEF TypeOK
<1>1. ASSUME turn' \in {turn, SessionClosed(turn)}, reg' = reg PROVE SoundSlot'
  <2>1. \A u \in Turns : /\ turn'[u].stage = turn[u].stage /\ turn'[u].asks = turn[u].asks
                         /\ turn'[u].told = turn[u].told
    BY <1>0, <1>1 DEF SessionClosed, Turn
  <2> QED
    BY <2>1, <1>1, SlotStands DEF Within
<1>2. CloseThenDecide => SoundSlot'
  BY <1>1 DEF CloseThenDecide
<1>3. ASSUME CancelRun PROVE SoundSlot'
  <2>1. CASE Has(reg)
    BY <2>1, <1>3, SlotCancel DEF CancelRun
  <2>2. CASE ~Has(reg)
    BY <2>2, <1>1, <1>2, <1>3 DEF CancelRun
  <2> QED
    BY <2>1, <2>2
<1>4. CASE Stop \/ Stopping
  BY <1>1, <1>2, <1>3, <1>4 DEF Stop, Stopping, StopWaited, StopReread, StopNote, StopWrite
<1>5. CASE Archive \/ Archiving \/ Unarchive
  BY <1>1, <1>3, <1>5 DEF Archive, Archiving, ArchiveStop, ArchiveEnd, ArchiveMark, ArchiveLeave, Unarchive, flags
<1>6. CASE Delete
  <2>1. reg' = CancelNoted(reg) /\ turn' = HandleCancelled("delete")
    BY <1>6 DEF Delete
  <2>2. CASE Has(reg)
    BY <2>1, <2>2, SlotCancel
  <2>3. CASE ~Has(reg)
    <3>1. reg' = reg
      BY <2>1, <2>3 DEF CancelNoted, HasClaim
    <3>2. reg.holder \notin Turns
      BY <2>3, TurnsAssumption DEF Has
    <3>3. turn' = turn
      BY <2>1, <3>2, <1>0 DEF HandleCancelled
    <3> QED
      BY <3>1, <3>3, <1>1
  <2> QED
    BY <2>2, <2>3
<1>7. CASE Deleting
  BY <1>1, <1>7 DEF Deleting, DeleteSettled, Destroy, DeleteLeave
<1> QED
  BY <1>4, <1>5, <1>6, <1>7 DEF RequestStep

\* It survives every step of a turn.
LEMMA SlotTurns ==
  ASSUME SoundSlot, TypeOK, NEW t \in Turns,
         \/ Prepare(t) \/ FailStart(t) \/ Settle(t)
         \/ \E kind \in Kinds : Send(t, kind)
         \/ \E ending \in Endings : EndTurn(t, ending)
  PROVE  SoundSlot'
<1> USE DEF StageOf, Fresh
<1>0. turn \in [Turns -> Turn] /\ reg \in Registry
  BY DEF TypeOK
<1>1. ASSUME turn[t].stage \in Starting, Fail(t) PROVE SoundSlot'
  <2>1. CASE Settles(t)
    BY <2>1, <1>0, <1>1, SlotStands, Words DEF Fail, Within, Turn
  <2>2. CASE ~Settles(t)
    BY <2>2, <1>1, SlotAbandon DEF Fail
  <2> QED
    BY <2>1, <2>2
<1>2. CASE \E kind \in Kinds : Send(t, kind)
  <2>1. turn[t].asks = {} /\ turn[t].stage = "none"
    BY <1>2 DEF Send, SoundSlot, FreshIsUnasked
  <2>2. \A u \in Turns \ {t} : turn'[u] = turn[u]
    BY <1>0, <1>2 DEF Send
  <2>3. turn'[t].stage = "asked" /\ turn'[t].asks = {} /\ turn'[t].told = FALSE
    <3>1. PICK kind \in Kinds : Send(t, kind)
      BY <1>2
    <3>2. PICK b : turn'[t] = [NoTurn EXCEPT !.stage = "asked", !.kind = kind, !.before = b]
      BY <3>1, <1>0 DEF Send
    <3> QED
      BY <3>2 DEF NoTurn
  <2>4. reg' = reg
    BY <1>2 DEF Send
  <2>5. StopIsNeverLost' /\ NoStrayCancel' /\ FreshIsUnasked' /\ AsksAreNoted'
    BY <2>1, <2>2, <2>3, <2>4, Words
       DEF SoundSlot, StopIsNeverLost, NoStrayCancel, FreshIsUnasked, AsksAreNoted, Live
  <2>6. SlotMatchesTurn'
    BY <1>0, <2>1, <2>2, <2>3, <2>4, Words DEF SoundSlot, SlotMatchesTurn, Has, Registry
  <2>7. NotesAreAsked'
    <3>1. HasClaim(reg) => reg.holder # t /\ reg.holder \in Turns
      BY <1>0, <2>1, Words DEF SoundSlot, SlotMatchesTurn, HasClaim, Has, Registry
    <3> QED
      BY <3>1, <2>2, <2>4 DEF SoundSlot, NotesAreAsked, HasClaim, Has
  <2> QED
    BY <2>5, <2>6, <2>7 DEF SoundSlot
<1>3. CASE Claim(t)
  BY <1>3, SlotClaim
<1>4. CASE Refuse(t) \/ Open(t) \/ Announce(t) \/ Announced(t)
  BY <1>0, <1>4, SlotStands, Words DEF Refuse, Open, Announce, Announced, Within, Turn
<1>5. CASE FailDone(t)
  BY <1>5, SlotAbandon, Words DEF FailDone
<1>6. CASE Probe(t)
  <2>1. CASE CanStart(reg)
    BY <2>1, <1>0, <1>6, SlotStands, Words DEF Probe, Within, Turn
  <2>2. CASE ~CanStart(reg)
    BY <2>2, <1>1, <1>6, Words DEF Probe
  <2> QED
    BY <2>1, <2>2
<1>7. CASE Launch(t)
  <2>1. CASE Doomed
    BY <2>1, <1>1, <1>7, Words DEF Launch
  <2>2. CASE ~Doomed
    BY <2>2, <1>7, SlotLaunch DEF Launch
  <2> QED
    BY <2>1, <2>2
<1>8. CASE FailStart(t)
  BY <1>1, <1>8, Words DEF FailStart
<1>9. CASE \E ending \in Endings : EndTurn(t, ending)
  BY <1>9, SlotEnd
<1>10. CASE Settle(t)
  <2>1. ASSUME NEW ok \in BOOLEAN, TerminalEvent(t, ok) PROVE SoundSlot'
    BY <2>1, <1>0, SlotStands, Words DEF TerminalEvent, Within, Turn
  <2>2. ASSUME NEW ok \in BOOLEAN, RecordStatus(t, ok) PROVE SoundSlot'
    BY <2>2, <1>0, SlotStands, Words DEF RecordStatus, Within, Turn
  <2>3. CASE Finalize(t)
    BY <2>3, <1>0, SlotStands, Words DEF Finalize, Over, Within, Turn
  <2>4. CASE Patch(t)
    BY <2>4, <1>0, SlotStands, Words DEF Patch, Over, Within, Turn
  <2> QED
    BY <1>10, <2>1, <2>2, <2>3, <2>4 DEF Settle
<1> QED
  BY <1>2, <1>3, <1>4, <1>5, <1>6, <1>7, <1>8, <1>9, <1>10 DEF Prepare

\* The slot's invariant holds in every reachable state.
THEOREM SlotIsSound == Spec => []SoundSlot
<1>1. SoundSlot /\ TypeOK /\ [Next]_vars => SoundSlot'
  <2> SUFFICES ASSUME SoundSlot, TypeOK, [Next]_vars PROVE SoundSlot'
    OBVIOUS
  <2>1. CASE UNCHANGED vars
    BY <2>1, SlotStands DEF vars, Within
  <2>2. ASSUME NEW t \in Turns, \/ Prepare(t) \/ FailStart(t) \/ Settle(t)
                                \/ \E kind \in Kinds : Send(t, kind)
                                \/ \E ending \in Endings : EndTurn(t, ending)
        PROVE  SoundSlot'
    BY <2>2, SlotTurns
  <2>3. CASE RequestStep
    BY <2>3, SlotRequests
  <2>4. CASE DaemonStep
    BY <2>4, SlotDaemon
  <2> QED
    BY <2>1, <2>2, <2>3, <2>4 DEF Next, RequestStep, DaemonStep
<1> QED
  BY SlotInit, TypeCorrect, <1>1, PTL DEF Spec

\* No two turns of a chat prepare or run at once, none is out of the reach
\* of a Stop, a delete or a shutdown, and no slot is held by nobody.
THEOREM SlotHasOneOwner == Spec => []SlotMatchesTurn
BY SlotIsSound, PTL DEF SoundSlot

\* A Stop or a delete accepted before the process exists cancels it.
THEOREM StopsReachTheirTurn == Spec => []StopIsNeverLost
BY SlotIsSound, PTL DEF SoundSlot

\* No turn is cancelled for a Stop that was pressed at an earlier one.
THEOREM StopsReachNoOther == Spec => []NoStrayCancel
BY SlotIsSound, PTL DEF SoundSlot

-----------------------------------------------------------------------------
(* The two doors a chat goes through, archive and delete, against a turn   *)
(* that crosses the window between its claim and its process.              *)

\* From the moment an archive has ended the chat's processes, what still runs
\* is a turn whose process was closed.
QuietBehindArchive ==
  run.archived \/ archive \in {"marking", "leaving"} => \A t \in Live : turn[t].closed

\* Only a launch makes a turn live; a close or a cancel leaves it closed.
StillLive ==
  \A t \in Turns : StageOf(t)' = "live" => StageOf(t) = "live" /\ (turn[t].closed => turn'[t].closed)

\* No request and no step of the daemon makes a turn live or reopens its session.
LEMMA MarksStand ==
  ASSUME TypeOK, RequestStep \/ DaemonStep
  PROVE  StillLive
<1> USE DEF StageOf, StillLive
<1>0. turn \in [Turns -> Turn]
  BY DEF TypeOK
<1>1. ASSUME turn' = turn PROVE StillLive
  BY <1>1
<1>2. ASSUME turn' = SessionClosed(turn) PROVE StillLive
  BY <1>0, <1>2 DEF SessionClosed, Turn
<1>3. ASSUME NEW who \in {"stop", "delete"} PROVE
        /\ HandleCancelled(who) \in [Turns -> Turn]
        /\ \A u \in Turns : /\ HandleCancelled(who)[u].stage = turn[u].stage
                            /\ HandleCancelled(who)[u].closed = turn[u].closed
  BY <1>0, CancelledTurns DEF HandleCancelled, Turn
<1>4. ASSUME turn' = HandleCancelled("delete") PROVE StillLive
  BY <1>3, <1>4
<1>5. ASSUME turn' = SessionClosed(HandleCancelled("stop")) PROVE StillLive
  <2> DEFINE H == HandleCancelled("stop")
  <2>1. H \in [Turns -> Turn] /\ \A u \in Turns : H[u].stage = turn[u].stage /\ H[u].closed = turn[u].closed
    BY <1>3
  <2>2. turn' = SessionClosed(H)
    BY <1>5
  <2> HIDE DEF H
  <2> QED
    BY <2>1, <2>2 DEF SessionClosed, Turn
<1>6. CancelRun \/ CloseThenDecide => StillLive
  BY <1>1, <1>2, <1>5 DEF CancelRun, CloseThenDecide
<1>7. CASE Stop \/ Stopping
  BY <1>1, <1>6, <1>7 DEF Stop, Stopping, StopWaited, StopReread, StopNote, StopWrite
<1>8. CASE Archive \/ Archiving \/ Unarchive
  BY <1>1, <1>2, <1>6, <1>8 DEF Archive, Archiving, ArchiveStop, ArchiveEnd, ArchiveMark, ArchiveLeave, Unarchive
<1>9. CASE Delete \/ Deleting
  BY <1>1, <1>2, <1>4, <1>9 DEF Delete, Deleting, DeleteSettled, Destroy, DeleteLeave
<1>10. CASE Down
  BY <1>10 DEF Down, NoTurn
<1>11. CASE Drain
  BY <1>0, <1>11 DEF Drain, Turn
<1>12. CASE Quit \/ DrainDeadline \/ Boot
  BY <1>1, <1>12 DEF Quit, DrainDeadline, Boot
<1> QED
  BY <1>7, <1>8, <1>9, <1>10, <1>11, <1>12 DEF RequestStep, DaemonStep

\* Only a launch that passes the doors makes a turn live.
LEMMA LaunchAlone ==
  ASSUME TypeOK, [Next]_vars
  PROVE  StillLive \/ \E t \in Turns : Launch(t) /\ ~Doomed
<1> USE DEF StageOf, StillLive
<1>0. turn \in [Turns -> Turn]
  BY DEF TypeOK
<1>1. ASSUME NEW t \in Turns, Fail(t) PROVE StillLive
  <2>1. CASE Settles(t)
    BY <2>1, <1>0, <1>1 DEF Fail, Turn
  <2>2. CASE ~Settles(t)
    BY <2>2, <1>0, <1>1 DEF Fail, Abandon, Over, NoTurn, Turn
  <2> QED
    BY <2>1, <2>2
<1>2. ASSUME NEW t \in Turns, Prepare(t) \/ FailStart(t) \/ \E kind \in Kinds : Send(t, kind)
      PROVE  StillLive \/ (Launch(t) /\ ~Doomed)
  <2>1. CASE \E kind \in Kinds : Send(t, kind)
    BY <2>1, <1>0 DEF Send, NoTurn, Turn
  <2>2. CASE Claim(t) \/ Refuse(t) \/ Open(t) \/ Announce(t) \/ Announced(t)
    BY <2>2, <1>0 DEF Claim, Refuse, Open, Announce, Announced, NoTurn, Turn
  <2>3. CASE FailDone(t)
    BY <2>3, <1>0 DEF FailDone, Abandon, Over, NoTurn, Turn
  <2>4. CASE Probe(t)
    BY <2>4, <1>0, <1>1 DEF Probe, Turn
  <2>5. CASE Launch(t)
    BY <2>5, <1>1 DEF Launch
  <2>6. CASE FailStart(t)
    BY <2>6, <1>1 DEF FailStart
  <2> QED
    BY <1>2, <2>1, <2>2, <2>3, <2>4, <2>5, <2>6 DEF Prepare
<1>3. ASSUME NEW t \in Turns, NEW ending \in Endings, EndTurn(t, ending) PROVE StillLive
  BY <1>0, <1>3 DEF EndTurn, Turn
<1>4. ASSUME NEW t \in Turns, Settle(t) PROVE StillLive
  <2>1. ASSUME NEW ok \in BOOLEAN, TerminalEvent(t, ok) \/ RecordStatus(t, ok) PROVE StillLive
    BY <2>1, <1>0 DEF TerminalEvent, RecordStatus, Turn
  <2>2. CASE Finalize(t) \/ Patch(t)
    BY <2>2, <1>0 DEF Finalize, Patch, Over, NoTurn, Turn
  <2> QED
    BY <1>4, <2>1, <2>2 DEF Settle
<1>5. CASE RequestStep \/ DaemonStep
  BY <1>5, MarksStand
<1>6. CASE UNCHANGED vars
  BY <1>6 DEF vars
<1> QED
  BY <1>2, <1>3, <1>4, <1>5, <1>6 DEF Next, RequestStep, DaemonStep
-----------------------------------------------------------------------------
(* Archive.                                                                *)

Shelved == run.archived \/ archive \in {"marking", "leaving"}

\* The chat is shelved by the end of its processes and by nothing else.
LEMMA ShelvedStands ==
  ASSUME TypeOK, [Next]_vars, Shelved'
  PROVE  Shelved \/ ArchiveEnd
<1> USE DEF Shelved, flags, requests, history, stopRest
<1>0. \A status : RunSaying(status).archived = run.archived
  BY DEF RunSaying, TypeOK
<1>1. ASSUME run'.archived = run.archived, archive' = archive PROVE Shelved
  BY <1>1
<1>2. ASSUME NEW t \in Turns, Fail(t) PROVE Shelved
  <2>1. run' = run /\ archive' = archive
    BY <1>2 DEF Fail, Abandon
  <2> QED
    BY <2>1, <1>1
<1>3. ASSUME NEW t \in Turns, Prepare(t) \/ FailStart(t) \/ \E kind \in Kinds : Send(t, kind) PROVE Shelved
  <2>1. CASE \/ \E kind \in Kinds : Send(t, kind)
             \/ Claim(t) \/ Refuse(t) \/ Open(t) \/ Announce(t)
    BY <2>1, <1>1 DEF Send, Claim, Refuse, Open, Announce
  <2>2. CASE Announced(t) \/ FailDone(t)
    BY <2>2, <1>0, <1>1 DEF Announced, FailDone, Abandon
  <2>3. CASE Probe(t) \/ Launch(t) \/ FailStart(t)
    BY <2>3, <1>1, <1>2 DEF Probe, Launch, FailStart
  <2> QED
    BY <1>3, <2>1, <2>2, <2>3 DEF Prepare
<1>4. ASSUME NEW t \in Turns, Settle(t) \/ \E ending \in Endings : EndTurn(t, ending) PROVE Shelved
  <2>1. CASE \E ending \in Endings : EndTurn(t, ending)
    BY <2>1, <1>1 DEF EndTurn
  <2>2. ASSUME NEW ok \in BOOLEAN, TerminalEvent(t, ok) PROVE Shelved
    BY <2>2, <1>1 DEF TerminalEvent
  <2>3. ASSUME NEW ok \in BOOLEAN, RecordStatus(t, ok) PROVE Shelved
    BY <2>3, <1>0, <1>1 DEF RecordStatus
  <2>4. CASE Finalize(t) \/ Patch(t)
    BY <2>4, <1>0, <1>1 DEF Finalize, Patch
  <2> QED
    BY <1>4, <2>1, <2>2, <2>3, <2>4 DEF Settle
<1>5. CASE Stop \/ Stopping
  BY <1>0, <1>1, <1>5 DEF Stop, Stopping, StopWaited, StopReread, StopNote, StopWrite
<1>6. CASE Archive \/ Archiving \/ Unarchive
  BY <1>6 DEF Archive, Archiving, ArchiveStop, ArchiveMark, ArchiveLeave, Unarchive, TypeOK, Idle
<1>7. CASE Delete \/ Deleting
  BY <1>7 DEF Delete, Deleting, DeleteSettled, Destroy, DeleteLeave, TypeOK
<1>8. CASE DaemonStep
  <2>1. CASE Quit \/ Drain \/ DrainDeadline
    BY <2>1, <1>1 DEF Quit, Drain, DrainDeadline
  <2>2. CASE Down
    BY <2>2 DEF Down, Idle
  <2>3. CASE Boot
    BY <2>3, <1>1 DEF Boot, TypeOK
  <2> QED
    BY <1>8, <2>1, <2>2, <2>3 DEF DaemonStep
<1>9. CASE UNCHANGED vars
  BY <1>1, <1>9 DEF vars
<1> QED
  BY <1>3, <1>4, <1>5, <1>6, <1>7, <1>8, <1>9 DEF Next, DaemonStep

\* Once an archive is through, no turn runs on uninterrupted out of sight,
\* however the archive and a start of a turn interleave.
THEOREM ArchivesAreQuiet == Spec => []ArchivedIsQuiet
<1>1. Init => QuietBehindArchive
  <2> SUFFICES ASSUME Init PROVE Live = {}
    BY DEF QuietBehindArchive
  <2>1. \A t \in Turns : turn[t] = NoTurn
    BY DEF Init
  <2>2. NoTurn.stage = "none"
    BY DEF NoTurn
  <2> QED
    BY <2>1, <2>2 DEF Live, StageOf
<1>2. ASSUME TypeOK, QuietBehindArchive, [Next]_vars PROVE QuietBehindArchive'
  <2> SUFFICES ASSUME Shelved', NEW t \in Turns, turn'[t].stage = "live" PROVE turn'[t].closed
    BY DEF QuietBehindArchive, Shelved, Live, StageOf
  <2>1. Shelved \/ ArchiveEnd
    BY <1>2, ShelvedStands
  <2>2. CASE ArchiveEnd
    <3>1. turn' = SessionClosed(turn) /\ turn[t] \in Turn
      BY <1>2, <2>2 DEF ArchiveEnd, TypeOK
    <3> QED
      BY <3>1 DEF SessionClosed, Turn
  <2>3. CASE Shelved
    <3>1. StillLive
      BY <1>2, <2>3, LaunchAlone DEF Shelved, Doomed, archiving, Idle
    <3> QED
      BY <1>2, <2>3, <3>1 DEF StillLive, QuietBehindArchive, Shelved, Live, StageOf
  <2> QED
    BY <2>1, <2>2, <2>3
<1>3. QuietBehindArchive => ArchivedIsQuiet
  BY DEF QuietBehindArchive, ArchivedIsQuiet
<1> QED
  BY <1>1, <1>2, <1>3, TypeCorrect, PTL DEF Spec
-----------------------------------------------------------------------------
(* Delete, when no deadline passes.                                        *)

\* A live turn holds the slot alone, and a delete under way waits for it.
LiveIsAwaited ==
  /\ \A t \in Turns : StageOf(t) \in Starting \cup {"live"} => reg.holder = t
  /\ \A t \in Live : /\ finalizing = t /\ run.exists
                     /\ deletion.phase \in {"idle", "settling"}
                     /\ deletion.phase = "settling" => deletion.waits = t

NoneJoins ==
  \A u \in Turns : /\ turn'[u].stage \in Starting \cup {"live"} => turn[u].stage \in Starting \cup {"live"}
                   /\ turn'[u].stage = "live" => turn[u].stage = "live"

\* LiveIsAwaited survives a step that starts no turn and keeps the deletion waiting.
LEMMA AwaitKept ==
  ASSUME LiveIsAwaited, NoneJoins, reg'.holder = reg.holder, run'.exists = run.exists,
         finalizing' = finalizing \/ finalizing \notin Live,
         \/ deletion' = deletion
         \/ deletion.waits \notin Live /\ deletion'.phase = deletion.phase
  PROVE  LiveIsAwaited'
<1> USE DEF StageOf, Live
<1>1. \A t \in Turns : turn'[t].stage \in Starting \cup {"live"} => reg'.holder = t
  BY DEF LiveIsAwaited, NoneJoins
<1>2. ASSUME NEW t \in Turns, turn'[t].stage = "live"
      PROVE  /\ finalizing' = t /\ run'.exists /\ deletion'.phase \in {"idle", "settling"}
             /\ deletion'.phase = "settling" => deletion'.waits = t
  <2>1. t \in Live
    BY <1>2 DEF NoneJoins
  <2>2. finalizing = t /\ run.exists /\ deletion.phase \in {"idle", "settling"}
        /\ (deletion.phase = "settling" => deletion.waits = t)
    BY <2>1 DEF LiveIsAwaited
  <2> QED
    BY <2>1, <2>2
<1> QED
  BY <1>1, <1>2 DEF LiveIsAwaited

\* A turn that is through is not a live one.
LEMMA AwaitOver ==
  ASSUME LiveIsAwaited, TypeOK, NEW t \in Turns, StageOf(t) # "live", Over(t), run'.exists = run.exists,
         \/ reg' = reg
         \/ reg' = Released(reg) /\ StageOf(t) \in Starting
  PROVE  LiveIsAwaited'
<1> USE DEF StageOf
<1>0. turn \in [Turns -> Turn] /\ reg \in Registry
  BY DEF TypeOK
<1>1. turn'[t] = NoTurn /\ \A u \in Turns \ {t} : turn'[u] = turn[u]
  BY <1>0 DEF Over
<1>2. NoTurn.stage = "none"
  BY DEF NoTurn
<1>3. NoneJoins
  BY <1>1, <1>2, Words DEF NoneJoins
<1>4. finalizing' = finalizing \/ finalizing \notin Live
  BY DEF Over, Live
<1>5. \/ deletion' = deletion
      \/ deletion.waits \notin Live /\ deletion'.phase = deletion.phase
  BY DEF Over, Live, TypeOK
<1>6. CASE reg' = reg
  BY <1>3, <1>4, <1>5, <1>6, AwaitKept
<1>7. CASE reg' = Released(reg) /\ StageOf(t) \in Starting
  <2>1. \A u \in Turns \ {t} : turn[u].stage \notin Starting \cup {"live"}
    BY <1>7 DEF LiveIsAwaited
  <2>2. \A u \in Turns : turn'[u].stage \notin Starting \cup {"live"}
    BY <2>1, <1>1, <1>2, Words
  <2> QED
    BY <2>2 DEF LiveIsAwaited, Live
<1> QED
  BY <1>6, <1>7

\* No step of a turn makes a live turn a delete does not wait for.
LEMMA AwaitTurns ==
  ASSUME LiveIsAwaited, SoundSlot, TypeOK, NEW t \in Turns,
         \/ Prepare(t) \/ FailStart(t) \/ Settle(t)
         \/ \E kind \in Kinds : Send(t, kind)
         \/ \E ending \in Endings : EndTurn(t, ending)
  PROVE  LiveIsAwaited'
<1> USE DEF StageOf, flags, requests
<1>0. turn \in [Turns -> Turn] /\ reg \in Registry /\ \A status : RunSaying(status).exists = run.exists
  BY DEF TypeOK, RunSaying
<1>1. ASSUME turn[t].stage \in Starting, Fail(t), run' = run PROVE LiveIsAwaited'
  <2>1. CASE Settles(t)
    <3>1. NoneJoins
      BY <2>1, <1>0, <1>1, Words DEF Fail, NoneJoins, Turn
    <3> QED
      BY <2>1, <3>1, <1>1, AwaitKept DEF Fail
  <2>2. CASE ~Settles(t)
    BY <2>2, <1>1, AwaitOver, Words DEF Fail, Abandon
  <2> QED
    BY <2>1, <2>2
<1>2. CASE \E kind \in Kinds : Send(t, kind)
  <2>1. NoneJoins
    <3>1. PICK kind \in Kinds : Send(t, kind)
      BY <1>2
    <3>2. PICK b : turn' = [turn EXCEPT ![t] = [NoTurn EXCEPT !.stage = "asked", !.kind = kind, !.before = b]]
      BY <3>1 DEF Send
    <3>3. turn'[t].stage = "asked"
      BY <3>2, <1>0 DEF NoTurn
    <3>4. \A u \in Turns \ {t} : turn'[u] = turn[u]
      BY <3>2, <1>0
    <3> QED
      BY <3>3, <3>4, Words DEF NoneJoins
  <2> QED
    BY <2>1, <1>2, AwaitKept DEF Send
<1>3. CASE Claim(t)
  <2>1. \A u \in Turns : turn[u].stage \notin Starting \cup {"live"}
    BY <1>3, TurnsAssumption DEF Claim, CanClaim, Has, LiveIsAwaited
  <2>2. reg'.holder = t
    BY <1>0, <1>3 DEF Claim, Claimed, Registry
  <2>3. turn'[t].stage = "claimed" /\ \A u \in Turns \ {t} : turn'[u] = turn[u]
    BY <1>0, <1>3 DEF Claim, Turn
  <2> QED
    BY <2>1, <2>2, <2>3, Words DEF LiveIsAwaited, Live
<1>4. CASE Refuse(t) \/ Open(t) \/ Announce(t) \/ Announced(t)
  <2>1. NoneJoins
    BY <1>0, <1>4, Words DEF Refuse, Open, Announce, Announced, NoneJoins, NoTurn, Turn
  <2>2. reg' = reg /\ finalizing' = finalizing /\ run'.exists = run.exists /\ deletion' = deletion
    BY <1>0, <1>4 DEF Refuse, Open, Announce, Announced
  <2> QED
    BY <2>1, <2>2, AwaitKept
<1>5. CASE FailDone(t)
  BY <1>0, <1>5, AwaitOver, Words DEF FailDone, Abandon
<1>6. CASE Probe(t)
  <2>1. CASE CanStart(reg)
    <3>1. NoneJoins
      BY <2>1, <1>0, <1>6, Words DEF Probe, NoneJoins, Turn
    <3> QED
      BY <2>1, <3>1, <1>6, AwaitKept DEF Probe
  <2>2. CASE ~CanStart(reg)
    BY <2>2, <1>1, <1>6, Words DEF Probe, Fail, Abandon
  <2> QED
    BY <2>1, <2>2
<1>7. CASE Launch(t)
  <2>1. CASE Doomed
    BY <2>1, <1>1, <1>7, Words DEF Launch, Fail, Abandon
  <2>2. CASE ~Doomed
    <3>1. turn[t].stage \in Starting
      BY <1>7, Words DEF Launch
    <3>2. \A u \in Turns \ {t} : turn[u].stage \notin Starting \cup {"live"}
      BY <3>1 DEF LiveIsAwaited
    <3>3. /\ turn'[t].stage = "live" /\ \A u \in Turns \ {t} : turn'[u] = turn[u]
          /\ reg'.holder = t
      <4>1. /\ turn' = [turn EXCEPT ![t] = [turn[t] EXCEPT !.stage = "live", !.told = RegisterCancels(reg),
                                                     !.closed = stopsRequested]]
            /\ reg' = Registered(reg, t)
        BY <2>2, <1>7 DEF Launch
      <4>2. reg'.holder = t
        BY <4>1, <1>0 DEF Registered, Registry
      <4> QED
        BY <4>1, <4>2, <1>0 DEF Turn
    <3>4. finalizing' = t /\ run' = run /\ deletion' = deletion
      BY <2>2, <1>7 DEF Launch
    <3>5. run.exists /\ deletion.phase = "idle"
      BY <2>2 DEF Doomed, deleting, Idle
    <3> QED
      BY <3>2, <3>3, <3>4, <3>5, Words DEF LiveIsAwaited, Live
  <2> QED
    BY <2>1, <2>2
<1>8. CASE FailStart(t)
  BY <1>1, <1>8, Words DEF FailStart, Fail, Abandon
<1>9. CASE \E ending \in Endings : EndTurn(t, ending)
  <2>1. \A u \in Turns \ {t} : turn[u].stage \notin Starting \cup {"live"}
    BY <1>9 DEF LiveIsAwaited, EndTurn
  <2>2. turn'[t].stage \in {"ended", "drained"} /\ \A u \in Turns \ {t} : turn'[u] = turn[u]
    <3>1. PICK ending \in Endings : EndTurn(t, ending)
      BY <1>9
    <3>2. \A u \in Turns \ {t} : turn'[u] = turn[u]
      BY <3>1, <1>0 DEF EndTurn
    <3>3. turn'[t].stage = IF ending = "none" THEN "drained" ELSE "ended"
      <4> DEFINE s == IF ending = "none" THEN "drained" ELSE "ended"
      <4>1. turn' = [turn EXCEPT ![t] = [turn[t] EXCEPT !.stage = s, !.told = FALSE,
                                                        !.closed = FALSE, !.ending = ending]]
        BY <3>1 DEF EndTurn
      <4>2. turn[t] \in Turn
        BY <1>0
      <4> HIDE DEF s
      <4>3. turn'[t].stage = s
        BY <4>1, <4>2, <1>0 DEF Turn
      <4> QED
        BY <4>3 DEF s
    <3> QED
      BY <3>2, <3>3
  <2> QED
    BY <2>1, <2>2, Words DEF LiveIsAwaited, Live
<1>10. CASE Settle(t)
  <2>1. ASSUME NEW ok \in BOOLEAN, TerminalEvent(t, ok) PROVE LiveIsAwaited'
    <3>1. NoneJoins
      BY <2>1, <1>0, Words DEF TerminalEvent, NoneJoins, Turn
    <3> QED
      BY <2>1, <3>1, AwaitKept DEF TerminalEvent
  <2>2. ASSUME NEW ok \in BOOLEAN, RecordStatus(t, ok) PROVE LiveIsAwaited'
    <3>1. NoneJoins
      BY <2>2, <1>0, Words DEF RecordStatus, NoneJoins, Turn
    <3>2. run'.exists = run.exists /\ reg' = reg /\ finalizing' = finalizing /\ deletion' = deletion
      BY <2>2, <1>0 DEF RecordStatus
    <3> QED
      BY <3>1, <3>2, AwaitKept
  <2>3. CASE Finalize(t)
    <3>1. CASE Finishes(t)
      BY <2>3, <3>1, AwaitOver DEF Finalize
    <3>2. CASE ~Finishes(t)
      <4>1. NoneJoins
        BY <2>3, <3>2, <1>0, Words DEF Finalize, NoneJoins, Turn
      <4> QED
        BY <2>3, <3>2, <4>1, AwaitKept DEF Finalize
    <3> QED
      BY <3>1, <3>2
  <2>4. CASE Patch(t)
    <3>1. run'.exists = run.exists /\ reg' = reg /\ Over(t) /\ turn[t].stage # "live"
      BY <2>4, <1>0 DEF Patch
    <3> QED
      BY <3>1, AwaitOver
  <2> QED
    BY <1>10, <2>1, <2>2, <2>3, <2>4 DEF Settle
<1> QED
  BY <1>2, <1>3, <1>4, <1>5, <1>6, <1>7, <1>8, <1>9, <1>10 DEF Prepare

\* The delete lets go of the rows only once the turn it waits for is through.
LEMMA AwaitOthers ==
  ASSUME LiveIsAwaited, TypeOK, "slow" \notin Happenings, RequestStep \/ DaemonStep
  PROVE  LiveIsAwaited'
<1> USE DEF StageOf, flags, requests, stopRest
<1>0. reg \in Registry /\ \A status : RunSaying(status).exists = run.exists
  BY DEF TypeOK, RunSaying
<1>1. NoneJoins
  BY OthersStand, Words DEF StagesStand, NoneJoins, NoTurn
<1>2. \A r \in Registry : CancelNoted(r).holder = r.holder /\ Draining(r).holder = r.holder
  BY DEF CancelNoted, Draining, Registry
<1>3. CancelRun \/ CloseThenDecide => reg'.holder = reg.holder
  BY <1>0, <1>2 DEF CancelRun, CloseThenDecide
<1>4. CASE Stop \/ Stopping
  BY <1>0, <1>1, <1>3, <1>4, AwaitKept DEF Stop, Stopping, StopWaited, StopReread, StopNote, StopWrite
<1>5. CASE Archive \/ Archiving \/ Unarchive
  <2>1. run'.exists = run.exists /\ finalizing' = finalizing /\ deletion' = deletion
    BY <1>5 DEF Archive, Archiving, ArchiveStop, ArchiveEnd, ArchiveMark, ArchiveLeave, Unarchive, TypeOK
  <2>2. reg'.holder = reg.holder
    BY <1>3, <1>5 DEF Archive, Archiving, ArchiveStop, ArchiveEnd, ArchiveMark, ArchiveLeave, Unarchive
  <2> QED
    BY <1>1, <2>1, <2>2, AwaitKept
<1>6. ASSUME reg'.holder = reg.holder,
             \A t \in Live : /\ finalizing' = t /\ run'.exists /\ deletion'.phase \in {"idle", "settling"}
                             /\ deletion'.phase = "settling" => deletion'.waits = t
      PROVE  LiveIsAwaited'
  BY <1>1, <1>6 DEF LiveIsAwaited, NoneJoins, Live
<1>7. CASE Delete
  <2>1. /\ deletion' = [phase |-> "settling", waits |-> finalizing]
        /\ finalizing' = finalizing /\ run' = run /\ reg' = CancelNoted(reg)
    BY <1>7 DEF Delete
  <2> QED
    BY <2>1, <1>0, <1>2, <1>6 DEF LiveIsAwaited
<1>8. CASE DeleteSettled
  <2>1. deletion.phase = "settling" /\ deletion.waits = Nobody /\ reg' = reg
    BY <1>8 DEF DeleteSettled
  <2>2. Live = {}
    BY <2>1, TurnsAssumption DEF LiveIsAwaited, Live
  <2> QED
    BY <2>1, <2>2, <1>6
<1>9. CASE Destroy \/ DeleteLeave
  <2>1. deletion.phase \in {"destroying", "leaving"} /\ reg' = reg
    BY <1>9 DEF Destroy, DeleteLeave
  <2>2. Live = {}
    BY <2>1 DEF LiveIsAwaited
  <2> QED
    BY <2>1, <2>2, <1>6
<1>10. CASE Quit \/ Boot
  <2>1. reg' = reg /\ finalizing' = finalizing /\ deletion' = deletion /\ run'.exists = run.exists
    BY <1>10 DEF Quit, Boot, TypeOK
  <2> QED
    BY <2>1, <1>1, AwaitKept
<1>11. CASE Drain
  BY <1>0, <1>1, <1>2, <1>11, AwaitKept DEF Drain
<1>12. CASE DrainDeadline
  BY <1>12 DEF DrainDeadline
<1>13. CASE Down
  <2>1. \A u \in Turns : turn'[u] = NoTurn
    BY <1>13 DEF Down
  <2> QED
    BY <2>1, Words DEF LiveIsAwaited, Live, NoTurn
<1> QED
  BY <1>4, <1>5, <1>7, <1>8, <1>9, <1>10, <1>11, <1>12, <1>13 DEF RequestStep, DaemonStep, Deleting

\* No process works for a chat that no longer exists, as long as no delete
\* gives up waiting (DELETE_SETTLE_TIMEOUT_MS) and no drain does.
THEOREM DeletesAreFinal ==
  ASSUME "slow" \notin Happenings
  PROVE  Spec => []NothingOutlivesDelete
<1>1. Init => LiveIsAwaited
  <2> SUFFICES ASSUME Init PROVE LiveIsAwaited
    OBVIOUS
  <2>1. \A t \in Turns : turn[t] = NoTurn
    BY DEF Init
  <2> QED
    BY <2>1, Words DEF LiveIsAwaited, Live, StageOf, NoTurn
<1>2. LiveIsAwaited /\ SoundSlot /\ TypeOK /\ [Next]_vars => LiveIsAwaited'
  <2> SUFFICES ASSUME LiveIsAwaited, SoundSlot, TypeOK, [Next]_vars PROVE LiveIsAwaited'
    OBVIOUS
  <2>1. CASE UNCHANGED vars
    BY <2>1, AwaitKept DEF vars, flags, requests, NoneJoins
  <2>2. ASSUME NEW t \in Turns, \/ Prepare(t) \/ FailStart(t) \/ Settle(t)
                                \/ \E kind \in Kinds : Send(t, kind)
                                \/ \E ending \in Endings : EndTurn(t, ending)
        PROVE  LiveIsAwaited'
    BY <2>2, AwaitTurns
  <2>3. CASE RequestStep \/ DaemonStep
    BY <2>3, AwaitOthers
  <2> QED
    BY <2>1, <2>2, <2>3 DEF Next, RequestStep, DaemonStep
<1>3. LiveIsAwaited => NothingOutlivesDelete
  BY DEF LiveIsAwaited, NothingOutlivesDelete
<1> QED
  BY <1>1, <1>2, <1>3, TypeCorrect, SlotIsSound, PTL DEF Spec

-----------------------------------------------------------------------------
(* How a turn ends: a compaction keeps every other turn out, `running` has  *)
(* somebody to end it, and a shutdown knows a Stop from its own cancel.     *)

(* What each step does to the turns, field by field.                       *)

Others(t) == \A u \in Turns \ {t} : turn'[u] = turn[u]
\* Who the turn is, and what was asked of it.
SameTurn(t) == /\ turn'[t].kind = turn[t].kind /\ turn'[t].before = turn[t].before
               /\ turn'[t].asks = turn[t].asks
\* What became of it.
SameOutcome(t) == /\ turn'[t].wrote = turn[t].wrote /\ turn'[t].ending = turn[t].ending
                  /\ turn'[t].result = turn[t].result /\ turn'[t].row = turn[t].row
SameMarks(t) == turn'[t].told = turn[t].told /\ turn'[t].closed = turn[t].closed
Moved(t, s) == Others(t) /\ SameTurn(t) /\ SameOutcome(t) /\ SameMarks(t) /\ turn'[t].stage = s
Gone(t) == Others(t) /\ turn'[t] = NoTurn

\* A step that sets only the stage moves the turn there.
LEMMA StageSet ==
  ASSUME TypeOK, NEW t \in Turns, NEW s, turn' = [turn EXCEPT ![t].stage = s]
  PROVE  Moved(t, s)
<1>1. turn[t] \in Turn /\ turn'[t] = [turn[t] EXCEPT !.stage = s] /\ Others(t)
  BY DEF TypeOK, Others
<1> QED
  BY <1>1 DEF Moved, SameTurn, SameOutcome, SameMarks, Turn

\* A start that fails is gone, or waits to write its end.
LEMMA FailCourse ==
  ASSUME TypeOK, NEW t \in Turns, Fail(t)
  PROVE  \/ ~Settles(t) /\ Gone(t)
         \/ Settles(t) /\ Moved(t, "failing")
<1>1. CASE Settles(t)
  BY <1>1, StageSet DEF Fail
<1>2. CASE ~Settles(t)
  BY <1>2 DEF Fail, Abandon, Over, Gone, Others, TypeOK
<1> QED
  BY <1>1, <1>2

\* The steps up to the launch.
LEMMA StartCourse ==
  ASSUME TypeOK, NEW t \in Turns
  PROVE  /\ Claim(t) => Moved(t, "claimed")
         /\ Refuse(t) => Gone(t)
         /\ Open(t) => Moved(t, "opened")
         /\ Announce(t) => Moved(t, "announcing")
         /\ FailDone(t) => Gone(t)
         /\ Probe(t) => Fail(t) \/ Moved(t, "probing")
<1>1. (Claim(t) => Moved(t, "claimed")) /\ (Open(t) => Moved(t, "opened")) /\ (Announce(t) => Moved(t, "announcing"))
  BY StageSet DEF Claim, Open, Announce
<1>2. (Refuse(t) => Gone(t)) /\ (FailDone(t) => Gone(t))
  BY DEF Refuse, FailDone, Abandon, Over, Gone, Others, TypeOK
<1>3. Probe(t) => Fail(t) \/ Moved(t, "probing")
  BY StageSet DEF Probe
<1> QED
  BY <1>1, <1>2, <1>3

\* A message is asked with nothing behind it.
LEMMA SendCourse ==
  ASSUME TypeOK, NEW t \in Turns, NEW kind \in Kinds, Send(t, kind)
  PROVE  /\ Others(t) /\ turn'[t].stage = "asked" /\ turn'[t].kind = kind
         /\ turn'[t].asks = {} /\ turn'[t].result = "none" /\ turn'[t].row = FALSE
<1>1. PICK b : turn' = [turn EXCEPT ![t] = [NoTurn EXCEPT !.stage = "asked", !.kind = kind, !.before = b]]
  BY DEF Send
<1>2. Others(t) /\ turn'[t] = [NoTurn EXCEPT !.stage = "asked", !.kind = kind, !.before = b]
  BY <1>1 DEF TypeOK, Others
<1> QED
  BY <1>2 DEF NoTurn

\* `running` is written.
LEMMA AnnouncedCourse ==
  ASSUME TypeOK, NEW t \in Turns, Announced(t)
  PROVE  /\ Others(t) /\ SameTurn(t) /\ SameMarks(t) /\ turn'[t].stage = "announced" /\ turn'[t].wrote
         /\ turn'[t].ending = turn[t].ending /\ turn'[t].result = turn[t].result /\ turn'[t].row = turn[t].row
<1>1. turn' = [turn EXCEPT ![t] = [turn[t] EXCEPT !.stage = "announced", !.wrote = TRUE]]
  BY DEF Announced, TypeOK
<1>2. Others(t) /\ turn'[t] = [turn[t] EXCEPT !.stage = "announced", !.wrote = TRUE] /\ turn[t] \in Turn
  BY <1>1 DEF TypeOK, Others
<1> QED
  BY <1>2 DEF SameTurn, SameMarks, Turn

\* The process is there.
LEMMA LaunchCourse ==
  ASSUME TypeOK, NEW t \in Turns, Launch(t), ~Doomed
  PROVE  /\ Others(t) /\ SameTurn(t) /\ SameOutcome(t) /\ turn'[t].stage = "live"
         /\ turn'[t].told = RegisterCancels(reg) /\ turn'[t].closed = stopsRequested
<1> DEFINE after == [turn[t] EXCEPT !.stage = "live", !.told = RegisterCancels(reg), !.closed = stopsRequested]
<1>1. turn' = [turn EXCEPT ![t] = after]
  BY DEF Launch
<1>2. Others(t) /\ turn'[t] = after /\ turn[t] \in Turn
  BY <1>1 DEF TypeOK, Others
<1> QED
  BY <1>2 DEF SameTurn, SameOutcome, Turn

\* The process is through.
LEMMA EndCourse ==
  ASSUME TypeOK, NEW t \in Turns, NEW ending \in Endings, EndTurn(t, ending)
  PROVE  /\ Others(t) /\ SameTurn(t) /\ turn'[t].stage = (IF ending = "none" THEN "drained" ELSE "ended")
         /\ turn'[t].ending = ending /\ turn'[t].wrote = turn[t].wrote
         /\ turn'[t].result = turn[t].result /\ turn'[t].row = turn[t].row
<1> DEFINE s == IF ending = "none" THEN "drained" ELSE "ended"
<1>1. turn' = [turn EXCEPT ![t] = [turn[t] EXCEPT !.stage = s, !.told = FALSE, !.closed = FALSE, !.ending = ending]]
  BY DEF EndTurn, TypeOK
<1>2. Others(t) /\ turn[t] \in Turn
      /\ turn'[t] = [turn[t] EXCEPT !.stage = s, !.told = FALSE, !.closed = FALSE, !.ending = ending]
  BY <1>1 DEF TypeOK, Others
<1> HIDE DEF s
<1>3. /\ Others(t) /\ SameTurn(t) /\ turn'[t].stage = s
      /\ turn'[t].ending = ending /\ turn'[t].wrote = turn[t].wrote
      /\ turn'[t].result = turn[t].result /\ turn'[t].row = turn[t].row
  BY <1>2 DEF SameTurn, Turn
<1> QED
  BY <1>3 DEF s

\* The chain has seen the terminal event: it is recorded next, or the turn is drained.
LEMMA EventCourse ==
  ASSUME TypeOK, NEW t \in Turns, NEW ok \in BOOLEAN, TerminalEvent(t, ok)
  PROVE  /\ Others(t) /\ SameTurn(t) /\ turn'[t].wrote = turn[t].wrote
         /\ Interrupted(t) \/ ~ok => /\ turn'[t].stage = "drained" /\ turn'[t].row = turn[t].row
                                     /\ turn'[t].result = (IF Interrupted(t) THEN "seen" ELSE "broken")
         /\ ~Interrupted(t) /\ ok => /\ turn'[t].stage = "recording" /\ turn'[t].row
                                     /\ turn'[t].result = turn[t].result /\ turn'[t].ending = turn[t].ending
<1>0. turn[t] \in Turn
  BY DEF TypeOK
<1>1. CASE Interrupted(t) \/ ~ok
  <2> DEFINE x == IF Interrupted(t) THEN "seen" ELSE "broken"
  <2>1. turn' = [turn EXCEPT ![t] = [turn[t] EXCEPT !.stage = "drained", !.ending = "none", !.result = x]]
    BY <1>1 DEF TerminalEvent, TypeOK
  <2>2. Others(t) /\ turn'[t] = [turn[t] EXCEPT !.stage = "drained", !.ending = "none", !.result = x]
    BY <2>1 DEF TypeOK, Others
  <2> HIDE DEF x
  <2>3. /\ Others(t) /\ SameTurn(t) /\ turn'[t].wrote = turn[t].wrote
        /\ turn'[t].stage = "drained" /\ turn'[t].row = turn[t].row /\ turn'[t].result = x
    BY <2>2, <1>0 DEF SameTurn, Turn
  <2> QED
    BY <1>1, <2>3 DEF x
<1>2. CASE ~(Interrupted(t) \/ ~ok)
  <2>1. turn' = [turn EXCEPT ![t] = [turn[t] EXCEPT !.stage = "recording", !.row = TRUE]]
    BY <1>2 DEF TerminalEvent, TypeOK
  <2>2. Others(t) /\ turn'[t] = [turn[t] EXCEPT !.stage = "recording", !.row = TRUE]
    BY <2>1 DEF TypeOK, Others
  <2> QED
    BY <1>2, <2>2, <1>0 DEF SameTurn, Turn
<1> QED
  BY <1>1, <1>2

\* The ending is recorded, or the turn is broken.
LEMMA RecordCourse ==
  ASSUME TypeOK, NEW t \in Turns, NEW ok \in BOOLEAN, RecordStatus(t, ok)
  PROVE  /\ Others(t) /\ SameTurn(t) /\ turn'[t].stage = "drained"
         /\ turn'[t].wrote = turn[t].wrote /\ turn'[t].row = turn[t].row
         /\ turn'[t].result = (IF ok THEN "seen" ELSE "broken")
<1> DEFINE x == IF ok THEN "seen" ELSE "broken"
<1>1. turn' = [turn EXCEPT ![t] = [turn[t] EXCEPT !.stage = "drained", !.ending = "none", !.result = x]]
  BY DEF RecordStatus, TypeOK
<1>2. Others(t) /\ turn'[t] = [turn[t] EXCEPT !.stage = "drained", !.ending = "none", !.result = x] /\ turn[t] \in Turn
  BY <1>1 DEF TypeOK, Others
<1> HIDE DEF x
<1>3. /\ Others(t) /\ SameTurn(t) /\ turn'[t].stage = "drained"
      /\ turn'[t].wrote = turn[t].wrote /\ turn'[t].row = turn[t].row /\ turn'[t].result = x
  BY <1>2 DEF SameTurn, Turn
<1> QED
  BY <1>3 DEF x

\* The finalizer is through with a turn that ended, and patches any other.
LEMMA FinalCourse ==
  ASSUME TypeOK, NEW t \in Turns
  PROVE  /\ Finalize(t) /\ Finishes(t) => Gone(t)
         /\ Finalize(t) /\ ~Finishes(t) =>
              /\ Others(t) /\ SameTurn(t) /\ turn'[t].stage = "patching"
              /\ turn'[t].wrote = turn[t].wrote /\ turn'[t].result = turn[t].result
              /\ turn'[t].row = (turn[t].row \/ turn[t].result = "none")
         /\ Patch(t) => Gone(t)
<1>1. (Finalize(t) /\ Finishes(t) => Gone(t)) /\ (Patch(t) => Gone(t))
  BY DEF Finalize, Patch, Over, Gone, Others, TypeOK
<1>2. ASSUME Finalize(t), ~Finishes(t)
      PROVE  /\ Others(t) /\ SameTurn(t) /\ turn'[t].stage = "patching"
             /\ turn'[t].wrote = turn[t].wrote /\ turn'[t].result = turn[t].result
             /\ turn'[t].row = (turn[t].row \/ turn[t].result = "none")
  <2> DEFINE b == turn[t].row \/ turn[t].result = "none"
  <2>0. turn[t] \in Turn
    BY DEF TypeOK
  <2>1. turn' = [turn EXCEPT ![t] = [turn[t] EXCEPT !.stage = "patching", !.row = b]]
    BY <1>2, <2>0 DEF Finalize, TypeOK, Turn
  <2>2. Others(t) /\ turn'[t] = [turn[t] EXCEPT !.stage = "patching", !.row = b]
    BY <2>1 DEF TypeOK, Others
  <2> HIDE DEF b
  <2>3. /\ Others(t) /\ SameTurn(t) /\ turn'[t].stage = "patching"
        /\ turn'[t].wrote = turn[t].wrote /\ turn'[t].result = turn[t].result /\ turn'[t].row = b
    BY <2>0, <2>2 DEF SameTurn, Turn
  <2> QED
    BY <2>3 DEF b
<1> QED
  BY <1>1, <1>2

\* Nobody's life moves on.
Standing ==
  \A u \in Turns : /\ turn'[u].stage = turn[u].stage /\ turn'[u].kind = turn[u].kind /\ turn'[u].before = turn[u].before
                   /\ SameOutcome(u)
AsksStand == \A u \in Turns : turn'[u].asks = turn[u].asks
\* The turn that holds the slot was asked to go by `who`, and no other turn was.
HolderAsked(who) ==
  \A u \in Turns : turn'[u].asks = IF u = reg.holder THEN turn[u].asks \cup {who} ELSE turn[u].asks

\* A cancel asks the holder and moves nobody on.
LEMMA CancelCourse ==
  ASSUME TypeOK, NEW who \in {"stop", "delete"},
         turn' \in {HandleCancelled(who), SessionClosed(HandleCancelled(who))}
  PROVE  Standing /\ HolderAsked(who)
<1> DEFINE H == HandleCancelled(who)
<1>0. turn \in [Turns -> Turn] /\ H \in [Turns -> Turn]
  BY CancelledTurns DEF TypeOK
<1>1. \A u \in Turns : /\ H[u].stage = turn[u].stage /\ H[u].kind = turn[u].kind /\ H[u].before = turn[u].before
                       /\ H[u].wrote = turn[u].wrote /\ H[u].ending = turn[u].ending
                       /\ H[u].result = turn[u].result /\ H[u].row = turn[u].row
                       /\ H[u].asks = IF u = reg.holder THEN turn[u].asks \cup {who} ELSE turn[u].asks
  <2>1. \A u \in Turns \ {reg.holder} : H[u] = turn[u]
    BY DEF HandleCancelled
  <2>2. ASSUME reg.holder \in Turns
        PROVE  H[reg.holder] = [turn[reg.holder] EXCEPT !.asks = turn[reg.holder].asks \cup {who},
                                                        !.told = turn[reg.holder].told \/ reg.live]
    BY <2>2, <1>0 DEF HandleCancelled, Turn
  <2>3. ASSUME NEW r \in Turn, NEW a, NEW b
        PROVE  LET c == [r EXCEPT !.asks = a, !.told = b] IN
                 /\ c.stage = r.stage /\ c.kind = r.kind /\ c.before = r.before /\ c.wrote = r.wrote
                 /\ c.ending = r.ending /\ c.result = r.result /\ c.row = r.row /\ c.asks = a
    BY DEF Turn
  <2> HIDE DEF H
  <2> TAKE u \in Turns
  <2>4. CASE u = reg.holder
    <3>1. turn[u] \in Turn
      BY <1>0
    <3>2. H[u] = [turn[u] EXCEPT !.asks = turn[u].asks \cup {who}, !.told = turn[u].told \/ reg.live]
      BY <2>2, <2>4
    <3> QED
      BY <3>1, <3>2, <2>3, <2>4
  <2>5. CASE u # reg.holder
    BY <2>1, <2>5
  <2> QED
    BY <2>4, <2>5
<1>2. \A u \in Turns : /\ turn'[u].stage = H[u].stage /\ turn'[u].kind = H[u].kind /\ turn'[u].before = H[u].before
                       /\ turn'[u].wrote = H[u].wrote /\ turn'[u].ending = H[u].ending
                       /\ turn'[u].result = H[u].result /\ turn'[u].row = H[u].row
                       /\ turn'[u].asks = H[u].asks
  <2>1. turn' \in {H, SessionClosed(H)}
    OBVIOUS
  <2> HIDE DEF H
  <2> QED
    BY <1>0, <2>1 DEF SessionClosed, Turn
<1> HIDE DEF H
<1>3. Standing
  <2>1. ASSUME NEW u \in Turns
        PROVE  /\ turn'[u].stage = turn[u].stage /\ turn'[u].kind = turn[u].kind /\ turn'[u].before = turn[u].before
               /\ turn'[u].wrote = turn[u].wrote /\ turn'[u].ending = turn[u].ending
               /\ turn'[u].result = turn[u].result /\ turn'[u].row = turn[u].row
    <3>1. turn'[u].stage = turn[u].stage
      BY <1>1, <1>2, Zenon
    <3>5. turn'[u].kind = turn[u].kind
      BY <1>1, <1>2, Zenon
    <3>6. turn'[u].before = turn[u].before
      BY <1>1, <1>2, Zenon
    <3>4. turn'[u].ending = turn[u].ending /\ turn'[u].result = turn[u].result
      BY <1>1, <1>2, Zenon
    <3>2. turn'[u].wrote = turn[u].wrote
      BY <1>1, <1>2, Zenon
    <3>3. turn'[u].row = turn[u].row
      BY <1>1, <1>2, Zenon
    <3> QED
      BY <3>1, <3>2, <3>3, <3>4, <3>5, <3>6
  <2> QED
    BY <2>1, Zenon DEF Standing, SameOutcome
<1>4. HolderAsked(who)
  BY <1>1, <1>2 DEF HolderAsked
<1> QED
  BY <1>3, <1>4

\* The session is closed, or nothing is done to the turns.
LEMMA CloseCourse ==
  ASSUME TypeOK, turn' \in {turn, SessionClosed(turn)}
  PROVE  Standing /\ AsksStand
<1>0. turn \in [Turns -> Turn]
  BY DEF TypeOK
<1> QED
  BY <1>0 DEF SessionClosed, Turn, Standing, AsksStand, SameOutcome

\* What a request may do to the turns: a Stop that finds the slot taken is asked of
\* its holder and put on record, a delete is asked of it, and nothing else is asked.
Stops == /\ Has(reg) /\ HolderAsked("stop") /\ stopsRequested' = TRUE /\ stop' = stop /\ reg' = CancelNoted(reg)
Asked == \/ AsksStand /\ stopsRequested' = stopsRequested
         \/ HolderAsked("delete") /\ stopsRequested' = stopsRequested /\ Delete
         \/ Stops

\* A Stop, asked by the user or by an archive.
LEMMA CancelRunCourse ==
  ASSUME TypeOK, CancelRun \/ CloseThenDecide
  PROVE  Standing /\ Asked
<1>1. CASE CloseThenDecide
  BY <1>1, CloseCourse DEF CloseThenDecide, Asked
<1>2. CASE CancelRun /\ Has(reg)
  BY <1>2, CancelCourse DEF CancelRun, Asked, Stops
<1>3. CASE CancelRun /\ ~Has(reg)
  BY <1>1, <1>3, CloseCourse DEF CancelRun, Asked
<1> QED
  BY <1>1, <1>2, <1>3

\* No request moves a turn on.
LEMMA RequestCourse ==
  ASSUME TypeOK, RequestStep
  PROVE  Standing /\ Asked
<1> USE DEF flags, requests, stopRest
<1>1. ASSUME turn' \in {turn, SessionClosed(turn)}, stopsRequested' = stopsRequested PROVE Standing /\ Asked
  BY <1>1, CloseCourse DEF Asked
<1>2. CASE Stop \/ Stopping
  BY <1>1, <1>2, CancelRunCourse DEF Stop, Stopping, StopWaited, StopReread, StopNote, StopWrite
<1>3. CASE Archive \/ Archiving \/ Unarchive
  BY <1>1, <1>3, CancelRunCourse DEF Archive, Archiving, ArchiveStop, ArchiveEnd, ArchiveMark, ArchiveLeave, Unarchive
<1>4. CASE Delete
  BY <1>4, CancelCourse DEF Delete, Asked
<1>5. CASE Deleting
  BY <1>1, <1>5 DEF Deleting, DeleteSettled, Destroy, DeleteLeave
<1> QED
  BY <1>2, <1>3, <1>4, <1>5 DEF RequestStep

\* Of the daemon's steps only its end moves turns, all of them.
LEMMA DaemonCourse ==
  ASSUME TypeOK, DaemonStep
  PROVE  \/ Down
         \/ Standing /\ AsksStand /\ stopsRequested' = stopsRequested /\ compacting' = compacting
<1> USE DEF flags
<1>0. turn \in [Turns -> Turn]
  BY DEF TypeOK
<1>1. CASE Quit \/ DrainDeadline \/ Boot
  BY <1>1, CloseCourse DEF Quit, DrainDeadline, Boot
<1>2. CASE Drain
  <2>1. ASSUME NEW u \in Turns
        PROVE  /\ turn'[u].stage = turn[u].stage /\ turn'[u].kind = turn[u].kind /\ turn'[u].before = turn[u].before
               /\ turn'[u].wrote = turn[u].wrote /\ turn'[u].ending = turn[u].ending
               /\ turn'[u].result = turn[u].result /\ turn'[u].row = turn[u].row /\ turn'[u].asks = turn[u].asks
    <3>1. turn[u] \in Turn /\ turn'[u] \in {turn[u], [turn[u] EXCEPT !.told = TRUE, !.closed = TRUE]}
      BY <1>0, <1>2 DEF Drain
    <3> QED
      BY <3>1 DEF Turn
  <2> QED
    BY <2>1, <1>2 DEF Drain, Standing, AsksStand, SameOutcome
<1> QED
  BY <1>1, <1>2 DEF DaemonStep
-----------------------------------------------------------------------------
(* Compactions.                                                            *)

Occupied == Starting \cup {"live"}

\* One turn at a time starts or runs; a claim finds no compaction under way,
\* and a compaction holds compactingRuns from its opening row on, but for a start
\* that failed.
AloneWithCompaction ==
  /\ \A t, u \in Turns : StageOf(t) \in Occupied /\ StageOf(u) \in Occupied => t = u
  /\ \A t \in Turns : StageOf(t) = "claimed" => compacting = Nobody
  /\ \A t \in Unfinished : turn[t].kind = "command" /\ StageOf(t) \notin {"claimed", "failing"} => compacting = t

\* A claim finds nobody starting or running.
LEMMA ClaimIsAlone ==
  ASSUME TypeOK, SoundSlot, NEW t \in Turns, Claim(t)
  PROVE  \A u \in Turns : StageOf(u) \notin Occupied
BY TurnsAssumption DEF Claim, CanClaim, Has, SoundSlot, SlotMatchesTurn, Occupied

\* The invariant survives a step that brings nobody in and lets nobody change its compaction.
LEMMA AloneKept ==
  ASSUME AloneWithCompaction, compacting' = compacting,
         \A u \in Turns : /\ turn'[u].stage \in Occupied => turn[u].stage \in Occupied
                          /\ turn'[u].stage = "claimed" => turn[u].stage = "claimed"
                          /\ turn'[u].stage \in Occupied \cup Settling =>
                               /\ turn[u].stage \in Occupied \cup Settling
                               /\ turn[u].stage \in {"claimed", "failing"} => turn'[u].stage \in {"claimed", "failing"}
                               /\ turn'[u].kind = turn[u].kind
  PROVE  AloneWithCompaction'
BY DEF AloneWithCompaction, Unfinished, StageOf, Occupied

\* A turn that is gone lets go of its own compaction only.
LEMMA AloneOver ==
  ASSUME AloneWithCompaction, TypeOK, NEW t \in Turns, Gone(t), compacting' = CompactionReleased(t)
  PROVE  AloneWithCompaction'
<1> USE DEF StageOf, Unfinished, Occupied
<1>1. turn'[t].stage = "none" /\ \A u \in Turns \ {t} : turn'[u] = turn[u]
  BY DEF Gone, Others, NoTurn
<1>2. compacting' = compacting \/ (compacting = t /\ compacting' = Nobody)
  BY DEF CompactionReleased
<1>3. \A u, v \in Turns : turn'[u].stage \in Occupied /\ turn'[v].stage \in Occupied => u = v
  BY <1>1, Words DEF AloneWithCompaction
<1>4. \A u \in Turns : turn'[u].stage = "claimed" => compacting' = Nobody
  BY <1>1, <1>2 DEF AloneWithCompaction
<1>5. \A u \in Turns : turn'[u].stage \in {"live"} \cup Starting \cup Settling /\ turn'[u].kind = "command"
                       /\ turn'[u].stage \notin {"claimed", "failing"} => compacting' = u
  BY <1>1, <1>2, Words DEF AloneWithCompaction
<1> QED
  BY <1>3, <1>4, <1>5 DEF AloneWithCompaction

\* No step of a turn breaks it: a claim finds the slot free, and only the turn that
\* claimed opens.
LEMMA AloneTurns ==
  ASSUME AloneWithCompaction, SoundSlot, TypeOK, NEW t \in Turns,
         \/ Prepare(t) \/ FailStart(t) \/ Settle(t)
         \/ \E kind \in Kinds : Send(t, kind)
         \/ \E ending \in Endings : EndTurn(t, ending)
  PROVE  AloneWithCompaction'
<1> USE DEF StageOf, Unfinished, Occupied, flags
<1>1. ASSUME Fail(t), turn[t].stage \in Starting PROVE AloneWithCompaction'
  <2>1. CASE Settles(t)
    <3>1. Moved(t, "failing")
      BY <1>1, <2>1, FailCourse DEF Gone
    <3>3. compacting' = compacting
      BY <1>1, <2>1 DEF Fail
    <3> QED
      BY <1>1, <3>1, <3>3, AloneKept, Words DEF Moved, Others, SameTurn
  <2>2. CASE ~Settles(t)
    BY <1>1, <2>2, FailCourse, AloneOver DEF Fail, Abandon, Over
  <2> QED
    BY <2>1, <2>2
<1>2. CASE \E kind \in Kinds : Send(t, kind)
  <2>1. Others(t) /\ turn'[t].stage = "asked" /\ compacting' = compacting
    BY <1>2, SendCourse DEF Send
  <2> QED
    BY <2>1, AloneKept, Words DEF Others
<1>3. CASE Claim(t)
  <2>1. Moved(t, "claimed") /\ compacting' = compacting /\ compacting = Nobody /\ turn[t].stage = "asked"
    BY <1>3, StartCourse DEF Claim
  <2>2. \A u \in Turns : turn[u].stage \notin Occupied
    BY <1>3, ClaimIsAlone
  <2> QED
    BY <2>1, <2>2, Words DEF AloneWithCompaction, Moved, Others, SameTurn
<1>4. CASE Refuse(t)
  <2>1. Gone(t) /\ compacting' = compacting
    BY <1>4, StartCourse DEF Refuse
  <2> QED
    BY <2>1, AloneKept, Words DEF Gone, Others, NoTurn
<1>5. CASE Open(t)
  <2>1. Moved(t, "opened") /\ turn[t].stage = "claimed" /\ compacting' = IF turn[t].kind = "command" THEN t ELSE compacting
    BY <1>5, StartCourse DEF Open
  <2>2. compacting = Nobody /\ \A u \in Turns : turn[u].stage \in Occupied => u = t
    BY <2>1, Words DEF AloneWithCompaction
  <2> QED
    BY <2>1, <2>2, Words, TurnsAssumption DEF AloneWithCompaction, Moved, Others, SameTurn
<1>6. CASE Announce(t) \/ Announced(t)
  <2>1. Others(t) /\ SameTurn(t) /\ turn'[t].stage \in {"announcing", "announced"} /\ compacting' = compacting
    BY <1>6, StartCourse, AnnouncedCourse DEF Announce, Announced, Moved
  <2>2. turn[t].stage \in {"opened", "announcing"}
    BY <1>6 DEF Announce, Announced
  <2> QED
    BY <2>1, <2>2, AloneKept, Words DEF Others, SameTurn
<1>7. CASE FailDone(t)
  BY <1>7, StartCourse, AloneOver DEF FailDone, Abandon, Over
<1>8. CASE Probe(t)
  <2>1. turn[t].stage = "announced"
    BY <1>8 DEF Probe
  <2>2. CASE CanStart(reg)
    <3>1. Moved(t, "probing") /\ compacting' = compacting
      BY <1>8, <2>2, StageSet DEF Probe
    <3> QED
      BY <2>1, <3>1, AloneKept, Words DEF Moved, Others, SameTurn
  <2>3. CASE ~CanStart(reg)
    BY <1>1, <1>8, <2>1, <2>3, Words DEF Probe
  <2> QED
    BY <2>2, <2>3
<1>9. CASE Launch(t)
  <2>1. turn[t].stage = "probing"
    BY <1>9 DEF Launch
  <2>2. CASE Doomed
    BY <1>1, <1>9, <2>1, <2>2, Words DEF Launch
  <2>3. CASE ~Doomed
    <3>1. Others(t) /\ SameTurn(t) /\ turn'[t].stage = "live" /\ compacting' = compacting
      BY <1>9, <2>3, LaunchCourse DEF Launch
    <3> QED
      BY <2>1, <3>1, AloneKept, Words DEF Others, SameTurn
  <2> QED
    BY <2>2, <2>3
<1>10. CASE FailStart(t)
  BY <1>1, <1>10, Words DEF FailStart
<1>11. ASSUME NEW ending \in Endings, EndTurn(t, ending) PROVE AloneWithCompaction'
  <2>1. Others(t) /\ SameTurn(t) /\ turn'[t].stage \in {"drained", "ended"} /\ compacting' = compacting
        /\ turn[t].stage = "live"
    <3>1. turn'[t].stage = IF ending = "none" THEN "drained" ELSE "ended"
      BY <1>11, EndCourse
    <3>2. turn'[t].stage \in {"drained", "ended"}
      BY <3>1
    <3> QED
      BY <1>11, <3>2, EndCourse DEF EndTurn
  <2> QED
    BY <2>1, AloneKept, Words DEF Others, SameTurn
<1>12. ASSUME NEW ok \in BOOLEAN, TerminalEvent(t, ok) \/ RecordStatus(t, ok) PROVE AloneWithCompaction'
  <2>1. Others(t) /\ SameTurn(t) /\ turn'[t].stage \in {"drained", "recording"} /\ compacting' = compacting
    BY <1>12, EventCourse, RecordCourse DEF TerminalEvent, RecordStatus
  <2>2. turn[t].stage \in {"ended", "recording"}
    BY <1>12 DEF TerminalEvent, RecordStatus
  <2> QED
    BY <2>1, <2>2, AloneKept, Words DEF Others, SameTurn
<1>13. CASE Patch(t) \/ (Finalize(t) /\ Finishes(t))
  BY <1>13, FinalCourse, AloneOver DEF Patch, Finalize, Over
<1>14. CASE Finalize(t) /\ ~Finishes(t)
  <2>1. Others(t) /\ SameTurn(t) /\ turn'[t].stage = "patching" /\ compacting' = compacting /\ turn[t].stage = "drained"
    BY <1>14, FinalCourse DEF Finalize
  <2> QED
    BY <2>1, AloneKept, Words DEF Others, SameTurn
<1> QED
  BY <1>2, <1>3, <1>4, <1>5, <1>6, <1>7, <1>8, <1>9, <1>10, <1>11, <1>12, <1>13, <1>14 DEF Prepare, Settle

\* Requests and the daemon let go of a compaction only when they take every turn down.
LEMMA AloneOthers ==
  ASSUME AloneWithCompaction, TypeOK, RequestStep \/ DaemonStep \/ UNCHANGED vars
  PROVE  AloneWithCompaction'
<1> USE DEF flags, requests, stopRest
<1>1. ASSUME Standing, compacting' = compacting PROVE AloneWithCompaction'
  BY <1>1, AloneKept DEF Standing
<1>2. CASE RequestStep
  <2>1. compacting' = compacting
    BY <1>2 DEF RequestStep, Stop, Stopping, StopWaited, StopReread, StopNote, StopWrite, Archive, Archiving,
       ArchiveStop, ArchiveEnd, ArchiveMark, ArchiveLeave, Unarchive, Delete, Deleting, DeleteSettled, Destroy, DeleteLeave
  <2> QED
    BY <1>1, <1>2, <2>1, RequestCourse
<1>3. CASE Down
  <2>1. \A u \in Turns : turn'[u].stage = "none"
    BY <1>3 DEF Down, NoTurn
  <2> QED
    BY <2>1, Words DEF AloneWithCompaction, Unfinished, StageOf, Occupied
<1>4. CASE DaemonStep /\ ~Down
  BY <1>1, <1>4, DaemonCourse
<1>5. CASE UNCHANGED vars
  BY <1>1, <1>5, CloseCourse DEF vars
<1> QED
  BY <1>2, <1>3, <1>4, <1>5

\* One turn at a time starts or runs, and a compaction that is not committed
\* keeps every claim out, however turns are finalized, fail and are refused around it.
THEOREM CompactionsKeepOthersOut == Spec => NothingBehindACompaction
<1>1. Init => AloneWithCompaction
  <2> SUFFICES ASSUME Init PROVE AloneWithCompaction
    OBVIOUS
  <2>1. \A u \in Turns : turn[u].stage = "none"
    BY DEF Init, NoTurn
  <2> QED
    BY <2>1, Words DEF AloneWithCompaction, Unfinished, StageOf, Occupied
<1>2. AloneWithCompaction /\ SoundSlot /\ TypeOK /\ [Next]_vars => AloneWithCompaction'
  BY AloneTurns, AloneOthers DEF Next, RequestStep, DaemonStep
<1>3. AloneWithCompaction /\ SoundSlot /\ TypeOK /\ [Next]_vars
      => [\A t, c \in Turns : StageOf(t) = "asked" /\ StageOf(t)' = "claimed"
                              => ~(turn[c].kind = "command" /\ c \in Unfinished)]_vars
  <2> SUFFICES ASSUME AloneWithCompaction, SoundSlot, TypeOK, Next,
                      NEW t \in Turns, NEW c \in Turns, StageOf(t) = "asked", turn'[t].stage = "claimed",
                      turn[c].kind = "command", c \in Unfinished
               PROVE  FALSE
    BY DEF StageOf
  <2>1. ASSUME Claim(t) PROVE FALSE
    <3>1. compacting = Nobody /\ StageOf(c) \notin Occupied
      BY <2>1, ClaimIsAlone DEF Claim
    <3> QED
      BY <3>1, TurnsAssumption, Words DEF AloneWithCompaction, Occupied
  <2>2. ASSUME NEW u \in Turns, Others(u), turn'[u].stage # "claimed" PROVE FALSE
    BY <2>2 DEF Others, StageOf
  <2>3. ASSUME Standing PROVE FALSE
    BY <2>3 DEF Standing, StageOf
  <2>4. CASE \E u \in Turns : Prepare(u) \/ FailStart(u) \/ \E kind \in Kinds : Send(u, kind)
    <3>1. PICK u \in Turns : Prepare(u) \/ FailStart(u) \/ \E kind \in Kinds : Send(u, kind)
      BY <2>4
    <3>2. ASSUME Fail(u) PROVE FALSE
      BY <2>2, <3>2, FailCourse DEF Moved, Gone, NoTurn
    <3>3. CASE Claim(u)
      <4>1. u = t
        BY <3>3, StartCourse DEF Moved, Others, StageOf
      <4> QED
        BY <2>1, <3>3, <4>1
    <3>4. CASE Refuse(u) \/ Open(u) \/ Announce(u) \/ FailDone(u) \/ Probe(u)
      BY <2>2, <3>2, <3>4, StartCourse DEF Moved, Gone, NoTurn
    <3>5. CASE Announced(u) \/ Launch(u)
      BY <2>2, <3>2, <3>5, AnnouncedCourse, LaunchCourse DEF Launch
    <3>6. CASE FailStart(u) \/ \E kind \in Kinds : Send(u, kind)
      BY <2>2, <3>2, <3>6, SendCourse DEF FailStart
    <3> QED
      BY <3>1, <3>3, <3>4, <3>5, <3>6 DEF Prepare
  <2>5. CASE \E u \in Turns : Settle(u) \/ \E ending \in Endings : EndTurn(u, ending)
    <3>1. PICK u \in Turns : Settle(u) \/ \E ending \in Endings : EndTurn(u, ending)
      BY <2>5
    <3>2. CASE \E ending \in Endings : EndTurn(u, ending)
      BY <2>2, <3>2, EndCourse
    <3>3. ASSUME NEW ok \in BOOLEAN, TerminalEvent(u, ok) \/ RecordStatus(u, ok) PROVE FALSE
      BY <2>2, <3>3, EventCourse, RecordCourse
    <3>4. CASE Finalize(u) \/ Patch(u)
      BY <2>2, <3>4, FinalCourse DEF Gone, NoTurn
    <3> QED
      BY <3>1, <3>2, <3>3, <3>4 DEF Settle
  <2>6. CASE RequestStep
    BY <2>3, <2>6, RequestCourse
  <2>7. CASE DaemonStep
    <3>1. Down => turn'[t].stage = "none"
      BY DEF Down, NoTurn
    <3> QED
      BY <2>3, <2>7, <3>1, DaemonCourse
  <2> QED
    BY <2>4, <2>5, <2>6, <2>7 DEF Next, RequestStep, DaemonStep
<1> QED
  BY <1>1, <1>2, <1>3, TypeCorrect, SlotIsSound, PTL DEF Spec, NothingBehindACompaction

-----------------------------------------------------------------------------
(* Stops, when no message overtakes a finalizer.                           *)

\* The stages in which the next terminal event the chain handles is the turn's.
Pressable == Starting \cup {"live", "ended"}

\* One turn is unfinished at a time, and the chat's record of a Stop is the record
\* of a Stop pressed at that turn.
StopIsOnRecord ==
  /\ \A t, u \in Unfinished : t = u
  /\ \A t \in Turns : StageOf(t) \in Pressable => ("stop" \in turn[t].asks <=> stopsRequested)
  /\ stopsRequested => \E t \in Turns : StageOf(t) \in Pressable

\* The invariant survives a step that moves one turn within its part of life.
LEMMA RecordStands ==
  ASSUME StopIsOnRecord, NEW t \in Turns, Others(t), stopsRequested' = stopsRequested,
         turn'[t].asks = turn[t].asks,
         turn'[t].stage \in Starting \cup {"live"} \cup Settling => turn[t].stage \in Starting \cup {"live"} \cup Settling,
         turn'[t].stage \in Pressable <=> turn[t].stage \in Pressable
  PROVE  StopIsOnRecord'
<1> USE DEF StageOf, Unfinished
<1>1. \A u \in Turns : /\ turn'[u].asks = turn[u].asks
                       /\ turn'[u].stage \in Starting \cup {"live"} \cup Settling
                          => turn[u].stage \in Starting \cup {"live"} \cup Settling
                       /\ (turn'[u].stage \in Pressable <=> turn[u].stage \in Pressable)
  BY DEF Others
<1> QED
  BY <1>1 DEF StopIsOnRecord

\* It survives the turn's end, which takes the record with it.
LEMMA RecordConsumed ==
  ASSUME StopIsOnRecord, NEW t \in Unfinished, Others(t), stopsRequested' = FALSE, turn'[t].stage \notin Pressable
  PROVE  StopIsOnRecord'
<1> USE DEF StageOf, Unfinished
<1>1. \A u \in Turns \ {t} : turn'[u] = turn[u] /\ turn[u].stage \notin Starting \cup {"live"} \cup Settling
  BY DEF Others, StopIsOnRecord
<1>2. \A u \in Turns : turn'[u].stage \notin Pressable
  BY <1>1, Words DEF Pressable
<1> QED
  BY <1>1, <1>2 DEF StopIsOnRecord

\* No step of a turn breaks it.
LEMMA RecordTurns ==
  ASSUME StopIsOnRecord, SoundSlot, TypeOK, "overtake" \notin Happenings, NEW t \in Turns,
         \/ Prepare(t) \/ FailStart(t) \/ Settle(t)
         \/ \E kind \in Kinds : Send(t, kind)
         \/ \E ending \in Endings : EndTurn(t, ending)
  PROVE  StopIsOnRecord'
<1> USE DEF StageOf, Unfinished, flags
<1>1. ASSUME Fail(t), turn[t].stage \in Starting PROVE StopIsOnRecord'
  <2>1. CASE Settles(t)
    <3>1. Moved(t, "failing") /\ stopsRequested' = stopsRequested
      BY <1>1, <2>1, FailCourse DEF Fail
    <3> QED
      BY <1>1, <3>1, RecordStands, Words DEF Moved, SameTurn, Pressable
  <2>2. CASE ~Settles(t)
    <3>1. Gone(t) /\ stopsRequested' = FALSE
      BY <1>1, <2>2, FailCourse DEF Fail, Abandon
    <3>2. turn'[t].stage = "none" /\ Others(t) /\ t \in Unfinished
      BY <1>1, <3>1 DEF Gone, NoTurn
    <3>3. turn'[t].stage \notin Pressable
      BY <3>2, Words DEF Pressable
    <3> QED
      BY <3>1, <3>2, <3>3, RecordConsumed
  <2> QED
    BY <2>1, <2>2
<1>2. CASE \E kind \in Kinds : Send(t, kind)
  <2>1. Others(t) /\ turn'[t].stage = "asked" /\ turn[t].stage = "none" /\ turn'[t].asks = {}
        /\ stopsRequested' = stopsRequested
    BY <1>2, SendCourse DEF Send
  <2>2. turn[t].asks = {}
    BY <2>1 DEF SoundSlot, FreshIsUnasked, Fresh
  <2> QED
    <3>1. turn[t].stage \notin Pressable /\ turn'[t].stage \notin Starting \cup {"live"} \cup Settling \cup Pressable
      BY <2>1, Words DEF Pressable
    <3> QED
      BY <2>1, <2>2, <3>1, RecordStands
<1>3. CASE Claim(t)
  <2>1. Moved(t, "claimed") /\ turn[t].stage = "asked" /\ stopsRequested' = stopsRequested
    BY <1>3, StartCourse DEF Claim
  <2>2. \A u \in Turns : turn[u].stage \notin Starting \cup {"live"}
    BY <1>3, ClaimIsAlone DEF Occupied
  <2>3. \A u \in Turns : turn[u].stage \notin Settling
    BY <1>3 DEF Claim
  <2>4. turn[t].asks = {} /\ ~stopsRequested
    BY <2>1, <2>2, <2>3, Words DEF SoundSlot, FreshIsUnasked, Fresh, StopIsOnRecord, Pressable
  <2>5. \A u \in Turns \ {t} : turn'[u].stage \notin Starting \cup {"live"} \cup Settling
    BY <2>1, <2>2, <2>3 DEF Moved, Others
  <2>6. turn'[t].asks = {} /\ ~stopsRequested' /\ turn'[t].stage = "claimed"
    BY <2>1, <2>4 DEF Moved, SameTurn
  <2> QED
    BY <2>5, <2>6, Words DEF StopIsOnRecord, Pressable
<1>4. CASE Refuse(t)
  <2>1. Gone(t) /\ turn[t].stage = "asked" /\ stopsRequested' = stopsRequested
    BY <1>4, StartCourse DEF Refuse
  <2>2. turn[t].asks = {} /\ turn'[t].asks = {} /\ turn'[t].stage = "none"
    BY <2>1 DEF SoundSlot, FreshIsUnasked, Fresh, Gone, NoTurn
  <2> QED
    <3>1. turn[t].stage \notin Pressable /\ turn'[t].stage \notin Starting \cup {"live"} \cup Settling \cup Pressable
      BY <2>1, <2>2, Words DEF Pressable
    <3>2. Others(t)
      BY <2>1 DEF Gone
    <3> QED
      BY <2>1, <2>2, <3>1, <3>2, RecordStands
<1>5. CASE Open(t) \/ Announce(t) \/ Announced(t)
  <2>1. /\ Others(t) /\ SameTurn(t) /\ stopsRequested' = stopsRequested
        /\ turn'[t].stage \in {"opened", "announcing", "announced"}
    BY <1>5, StartCourse, AnnouncedCourse DEF Open, Announce, Announced, Moved
  <2>2. turn[t].stage \in {"claimed", "opened", "announcing"}
    BY <1>5 DEF Open, Announce, Announced
  <2> QED
    BY <2>1, <2>2, RecordStands, Words DEF SameTurn, Pressable
<1>6. CASE FailDone(t)
  <2>1. Gone(t) /\ stopsRequested' = FALSE /\ turn[t].stage = "failing"
    BY <1>6, StartCourse DEF FailDone, Abandon
  <2> QED
    <3>1. turn'[t].stage = "none" /\ Others(t) /\ t \in Unfinished
      BY <2>1, Words DEF Gone, NoTurn
    <3>2. turn'[t].stage \notin Pressable
      BY <3>1, Words DEF Pressable
    <3> QED
      BY <2>1, <3>1, <3>2, RecordConsumed
<1>7. CASE Probe(t)
  <2>1. turn[t].stage = "announced"
    BY <1>7 DEF Probe
  <2>2. CASE CanStart(reg)
    <3>1. Moved(t, "probing") /\ stopsRequested' = stopsRequested
      BY <1>7, <2>2, StageSet DEF Probe
    <3> QED
      BY <2>1, <3>1, RecordStands, Words DEF Moved, SameTurn, Pressable
  <2>3. CASE ~CanStart(reg)
    BY <1>1, <1>7, <2>1, <2>3, Words DEF Probe
  <2> QED
    BY <2>2, <2>3
<1>8. CASE Launch(t)
  <2>1. turn[t].stage = "probing"
    BY <1>8 DEF Launch
  <2>2. CASE Doomed
    BY <1>1, <1>8, <2>1, <2>2, Words DEF Launch
  <2>3. CASE ~Doomed
    <3>1. Others(t) /\ SameTurn(t) /\ turn'[t].stage = "live" /\ stopsRequested' = stopsRequested
      BY <1>8, <2>3, LaunchCourse DEF Launch
    <3> QED
      BY <2>1, <3>1, RecordStands, Words DEF SameTurn, Pressable
  <2> QED
    BY <2>2, <2>3
<1>9. CASE FailStart(t)
  BY <1>1, <1>9, Words DEF FailStart
<1>10. ASSUME NEW ending \in Endings, EndTurn(t, ending) PROVE StopIsOnRecord'
  <2>1. Others(t) /\ SameTurn(t) /\ stopsRequested' = stopsRequested /\ turn[t].stage = "live"
    BY <1>10, EndCourse DEF EndTurn
  <2>2. CASE ending # "none"
    <3>1. turn'[t].stage = "ended"
      BY <1>10, <2>2, EndCourse
    <3> QED
      BY <2>1, <3>1, RecordStands, Words DEF SameTurn, Pressable
  <2>3. CASE ending = "none"
    <3>1. turn'[t].stage = "drained"
      BY <1>10, <2>3, EndCourse
    <3>2. ~turn[t].told
      BY <1>10, <2>3 DEF EndTurn
    <3>3. turn[t].asks = {}
      BY <2>1, <3>2 DEF SoundSlot, StopIsNeverLost, Live
    <3>4. ~stopsRequested
      BY <2>1, <3>3 DEF StopIsOnRecord, Pressable
    <3>5. stopsRequested' = FALSE
      BY <2>1, <3>4 DEF TypeOK
    <3> QED
      BY <2>1, <3>1, <3>5, RecordConsumed, Words DEF Pressable
  <2> QED
    BY <2>2, <2>3
<1>11. ASSUME NEW ok \in BOOLEAN, TerminalEvent(t, ok) PROVE StopIsOnRecord'
  <2>1. Others(t) /\ turn[t].stage = "ended" /\ stopsRequested' = FALSE /\ turn'[t].stage \in {"drained", "recording"}
    BY <1>11, EventCourse DEF TerminalEvent
  <2> QED
    BY <2>1, RecordConsumed, Words DEF Pressable
<1>12. ASSUME NEW ok \in BOOLEAN, RecordStatus(t, ok) PROVE StopIsOnRecord'
  <2>1. Others(t) /\ SameTurn(t) /\ turn[t].stage = "recording" /\ turn'[t].stage = "drained"
        /\ stopsRequested' = stopsRequested
    BY <1>12, RecordCourse DEF RecordStatus
  <2> QED
    BY <2>1, RecordStands, Words DEF SameTurn, Pressable
<1>13. CASE Finalize(t) \/ Patch(t)
  <2>0. turn[t].stage \in {"drained", "patching"} /\ stopsRequested' = stopsRequested
    BY <1>13 DEF Finalize, Patch
  <2>1. Others(t) /\ turn'[t].stage \in {"none", "patching"}
    BY <1>13, FinalCourse DEF Gone, NoTurn
  <2>2. \A u \in Turns \ {t} : turn'[u] = turn[u] /\ turn[u].stage \notin Starting \cup {"live"} \cup Settling
    BY <2>0, <2>1, Words DEF Others, StopIsOnRecord
  <2>3. ~stopsRequested
    BY <2>0, <2>2, Words DEF StopIsOnRecord, Pressable
  <2>4. stopsRequested' = FALSE
    BY <2>0, <2>3 DEF TypeOK
  <2> QED
    BY <2>0, <2>1, <2>4, RecordConsumed, Words DEF Pressable
<1> QED
  BY <1>2, <1>3, <1>4, <1>5, <1>6, <1>7, <1>8, <1>9, <1>10, <1>11, <1>12, <1>13 DEF Prepare, Settle

\* A Stop goes on record with the chat and at the turn in one step, and a delete on
\* neither record of a Stop.
LEMMA RecordOthers ==
  ASSUME StopIsOnRecord, SoundSlot, TypeOK, RequestStep \/ DaemonStep \/ UNCHANGED vars
  PROVE  StopIsOnRecord'
<1> USE DEF StageOf, Unfinished, flags
<1>1. ASSUME Standing, stopsRequested' = stopsRequested,
             \A u \in Turns : ("stop" \in turn'[u].asks) = ("stop" \in turn[u].asks)
      PROVE  StopIsOnRecord'
  <2>1. \A u \in Turns : turn'[u].stage = turn[u].stage
    BY <1>1 DEF Standing
  <2> QED
    BY <1>1, <2>1 DEF StopIsOnRecord
<1>2. ASSUME Standing, Stops PROVE StopIsOnRecord'
  <2>1. reg.holder \in Turns /\ turn[reg.holder].stage \in Starting \cup {"live"}
    BY <1>2 DEF Stops, Has, TypeOK, Registry, SoundSlot, SlotMatchesTurn
  <2>2. \A u \in Turns : turn'[u].stage = turn[u].stage
    BY <1>2 DEF Standing
  <2>3. \A u \in Turns \ {reg.holder} : turn[u].stage \notin Pressable
    BY <2>1, Words DEF StopIsOnRecord, Pressable
  <2>4. "stop" \in turn'[reg.holder].asks /\ stopsRequested' = TRUE
    BY <1>2, <2>1 DEF Stops, HolderAsked
  <2>5. \A u, v \in Turns : turn'[u].stage \in {"live"} \cup Starting \cup Settling
                            /\ turn'[v].stage \in {"live"} \cup Starting \cup Settling => u = v
    BY <2>2 DEF StopIsOnRecord
  <2>6. \A u \in Turns : turn'[u].stage \in Pressable => u = reg.holder
    BY <2>2, <2>3
  <2>7. turn'[reg.holder].stage \in Pressable
    BY <2>1, <2>2 DEF Pressable
  <2> QED
    BY <2>1, <2>4, <2>5, <2>6, <2>7 DEF StopIsOnRecord
<1>3. CASE RequestStep
  <2>1. Standing /\ Asked
    BY <1>3, RequestCourse
  <2>2. ASSUME HolderAsked("delete"), NEW u \in Turns PROVE ("stop" \in turn'[u].asks) = ("stop" \in turn[u].asks)
    <3>1. turn'[u].asks = turn[u].asks \/ turn'[u].asks = turn[u].asks \cup {"delete"}
      BY <2>2 DEF HolderAsked
    <3>2. "stop" \in turn'[u].asks <=> "stop" \in turn[u].asks
      BY <3>1
    <3> QED
      BY <3>2
  <2> QED
    BY <1>1, <1>2, <2>1, <2>2 DEF Asked, AsksStand
<1>4. CASE Down
  <2>1. stopsRequested' = FALSE /\ \A u \in Turns : turn'[u].stage = "none"
    BY <1>4 DEF Down, NoTurn
  <2> QED
    BY <2>1, Words DEF StopIsOnRecord, Pressable
<1>5. CASE DaemonStep /\ ~Down
  BY <1>1, <1>5, DaemonCourse DEF AsksStand
<1>6. CASE UNCHANGED vars
  BY <1>1, <1>6, CloseCourse DEF vars, AsksStand
<1> QED
  BY <1>3, <1>4, <1>5, <1>6

\* The record of a Stop is sound as long as no message overtakes a finalizer.
THEOREM RecordIsSound ==
  ASSUME "overtake" \notin Happenings
  PROVE  Spec => []StopIsOnRecord
<1>1. Init => StopIsOnRecord
  <2> SUFFICES ASSUME Init PROVE StopIsOnRecord
    OBVIOUS
  <2>1. stopsRequested = FALSE /\ \A u \in Turns : turn[u].stage = "none"
    BY DEF Init, NoTurn
  <2> QED
    BY <2>1, Words DEF StopIsOnRecord, Unfinished, StageOf, Pressable
<1>2. StopIsOnRecord /\ SoundSlot /\ TypeOK /\ [Next]_vars => StopIsOnRecord'
  BY RecordTurns, RecordOthers DEF Next, RequestStep, DaemonStep
<1> QED
  BY <1>1, <1>2, TypeCorrect, SlotIsSound, PTL DEF Spec

\* In a shutdown a turn that was cancelled is written down as stopped if and only if
\* the user had stopped it, as long as no message overtakes a finalizer.
THEOREM StopsSurviveShutdown ==
  ASSUME "overtake" \notin Happenings
  PROVE  Spec => StopSurvivesShutdown
<1>1. StopIsOnRecord /\ TypeOK /\ [Next]_vars
      => [\A t \in Turns :
            shuttingDown /\ StageOf(t) = "ended" /\ turn[t].ending = "cancelled" =>
              /\ StageOf(t)' = "recording" => "stop" \in turn[t].asks
              /\ StageOf(t)' = "drained" /\ turn[t]'.result = "seen" => "stop" \notin turn[t].asks]_vars
  <2> SUFFICES ASSUME StopIsOnRecord, TypeOK, Next, NEW t \in Turns,
                      shuttingDown, turn[t].stage = "ended", turn[t].ending = "cancelled"
               PROVE  /\ turn'[t].stage = "recording" => "stop" \in turn[t].asks
                      /\ turn'[t].stage = "drained" /\ turn'[t].result = "seen" => "stop" \notin turn[t].asks
    BY DEF StageOf
  <2> DEFINE Told == /\ turn'[t].stage = "recording" => "stop" \in turn[t].asks
                     /\ turn'[t].stage = "drained" /\ turn'[t].result = "seen" => "stop" \notin turn[t].asks
  <2>0. "stop" \in turn[t].asks <=> stopsRequested
    BY Words DEF StopIsOnRecord, Pressable, StageOf
  <2>1. ASSUME turn'[t].stage \notin {"recording", "drained"} PROVE Told
    BY <2>1
  <2>2. ASSUME NEW u \in Turns, Others(u), turn[u].stage # "ended" PROVE Told
    <3>1. turn'[t] = turn[t]
      BY <2>2 DEF Others
    <3> QED
      BY <3>1, <2>1
  <2>3. ASSUME Standing PROVE Told
    BY <2>3, <2>1 DEF Standing
  <2>4. ASSUME NEW u \in Turns, Prepare(u) \/ FailStart(u) \/ \E kind \in Kinds : Send(u, kind) PROVE Told
    <3>1. ASSUME Fail(u), turn[u].stage # "ended" PROVE Told
      BY <2>2, <3>1, FailCourse DEF Moved, Gone
    <3>2. CASE Claim(u) \/ Refuse(u) \/ Open(u) \/ Announce(u) \/ FailDone(u) \/ Probe(u)
      <4>1. turn[u].stage # "ended"
        BY <3>2 DEF Claim, Refuse, Open, Announce, FailDone, Probe, StageOf
      <4> QED
        BY <2>2, <3>1, <3>2, <4>1, StartCourse DEF Moved, Gone
    <3>3. CASE Announced(u) \/ Launch(u)
      <4>1. turn[u].stage # "ended"
        BY <3>3 DEF Announced, Launch, StageOf
      <4>2. Launch(u) /\ Doomed => Fail(u)
        BY DEF Launch
      <4> QED
        BY <2>2, <3>1, <3>3, <4>1, <4>2, AnnouncedCourse, LaunchCourse
    <3>4. CASE FailStart(u) \/ \E kind \in Kinds : Send(u, kind)
      <4>1. turn[u].stage # "ended"
        BY <3>4 DEF FailStart, Send, StageOf
      <4> QED
        BY <2>2, <3>1, <3>4, <4>1, SendCourse DEF FailStart
    <3> QED
      BY <2>4, <3>2, <3>3, <3>4 DEF Prepare
  <2>5. ASSUME NEW u \in Turns, Settle(u) \/ \E ending \in Endings : EndTurn(u, ending) PROVE Told
    <3>1. CASE \E ending \in Endings : EndTurn(u, ending)
      BY <2>2, <3>1, EndCourse DEF EndTurn, StageOf
    <3>2. ASSUME NEW ok \in BOOLEAN, TerminalEvent(u, ok) PROVE Told
      <4>1. CASE u # t
        BY <2>1, <3>2, <4>1, EventCourse DEF Others
      <4>2. CASE u = t
        <5>1. Interrupted(t) <=> ~stopsRequested
          BY DEF Interrupted
        <5>2. CASE Interrupted(t)
          <6>1. turn'[t].stage = "drained"
            BY <3>2, <4>2, <5>2, EventCourse
          <6> QED
            BY <2>0, <5>1, <5>2, <6>1
        <5>3. CASE ~Interrupted(t)
          <6>1. turn'[t].stage = "drained" => turn'[t].result = "broken"
            BY <3>2, <4>2, <5>3, EventCourse
          <6> QED
            BY <2>0, <5>1, <5>3, <6>1
        <5> QED
          BY <5>2, <5>3
      <4> QED
        BY <4>1, <4>2
    <3>3. ASSUME NEW ok \in BOOLEAN, RecordStatus(u, ok) PROVE Told
      BY <2>2, <3>3, RecordCourse DEF RecordStatus, StageOf
    <3>4. CASE Finalize(u) \/ Patch(u)
      <4>1. turn[u].stage # "ended"
        BY <3>4 DEF Finalize, Patch, StageOf
      <4> QED
        BY <2>2, <3>4, <4>1, FinalCourse DEF Gone
    <3> QED
      BY <2>5, <3>1, <3>2, <3>3, <3>4 DEF Settle
  <2>6. CASE RequestStep
    BY <2>3, <2>6, RequestCourse
  <2>7. CASE DaemonStep
    <3>1. Down => turn'[t].stage = "none"
      BY DEF Down, NoTurn
    <3> QED
      BY <2>1, <2>3, <2>7, <3>1, DaemonCourse
  <2> QED
    BY <2>4, <2>5, <2>6, <2>7 DEF Next, RequestStep, DaemonStep
<1> QED
  BY <1>1, TypeCorrect, RecordIsSound, PTL DEF Spec, StopSurvivesShutdown

-----------------------------------------------------------------------------
(* The row that says `running`.                                            *)

\* A turn that writes a last status before it is through.
WillSettle(t) ==
  \/ StageOf(t) \in {"failing", "live", "ended", "recording", "patching"}
  \/ StageOf(t) \in {"announced", "probing"} /\ turn[t].wrote
  \/ StageOf(t) = "drained" /\ turn[t].result # "seen"

SaysRunning == run.exists /\ run.status = "running"

\* A result is known from the drain on only, and `running` has a turn that will settle it.
RunningIsTended ==
  /\ \A t \in Turns : StageOf(t) \notin {"drained", "patching"} => turn[t].result = "none"
  /\ up /\ ~shuttingDown /\ SaysRunning => \E t \in Turns : WillSettle(t)

\* The row says something final, or what it said.
LEMMA Said ==
  ASSUME TypeOK, NEW status, run' = RunSaying(status)
  PROVE  /\ status # "running" => ~SaysRunning'
         /\ run'.exists = run.exists
BY DEF TypeOK, RunSaying, SaysRunning

\* The invariant survives a step of one turn that does not drop its duty to settle.
LEMMA TendedKept ==
  ASSUME RunningIsTended, NEW t \in Turns, Others(t), up' = up, shuttingDown' = shuttingDown,
         turn'[t].stage \notin {"drained", "patching"} => turn'[t].result = "none",
         \/ ~SaysRunning'
         \/ WillSettle(t)'
         \/ run' = run /\ (up /\ ~shuttingDown => ~WillSettle(t))
  PROVE  RunningIsTended'
<1> USE DEF StageOf
<1>1. \A u \in Turns : turn'[u].stage \notin {"drained", "patching"} => turn'[u].result = "none"
  BY DEF RunningIsTended, Others
<1>2. ASSUME up', ~shuttingDown', SaysRunning' PROVE \E u \in Turns : WillSettle(u)'
  <2>1. CASE WillSettle(t)'
    BY <2>1
  <2>2. CASE ~WillSettle(t)'
    <3>1. SaysRunning /\ ~WillSettle(t)
      BY <1>2, <2>2 DEF SaysRunning
    <3>2. PICK u \in Turns : WillSettle(u)
      BY <1>2, <3>1 DEF RunningIsTended
    <3>3. turn'[u] = turn[u]
      BY <3>1, <3>2 DEF Others
    <3>4. WillSettle(u)'
      BY <3>2, <3>3 DEF WillSettle
    <3> QED
      BY <3>4
  <2> QED
    BY <2>1, <2>2
<1> QED
  BY <1>1, <1>2 DEF RunningIsTended

\* No step of a turn breaks it: who said `running` says something final before it goes.
LEMMA TendedTurns ==
  ASSUME RunningIsTended, StatusesAreKnown, TypeOK, NEW t \in Turns,
         \/ Prepare(t) \/ FailStart(t) \/ Settle(t)
         \/ \E kind \in Kinds : Send(t, kind)
         \/ \E ending \in Endings : EndTurn(t, ending)
  PROVE  RunningIsTended'
<1> USE DEF StageOf, flags
<1>0. turn[t].stage \notin {"drained", "patching"} => turn[t].result = "none"
  BY DEF RunningIsTended
<1>1. ASSUME Fail(t), turn[t].stage \in {"claimed", "opened", "announced", "probing"} PROVE RunningIsTended'
  <2>0. up' = up /\ shuttingDown' = shuttingDown /\ run' = run
    BY <1>1 DEF Fail, Abandon
  <2>1. CASE Settles(t)
    <3>1. Moved(t, "failing")
      BY <1>1, <2>1, FailCourse
    <3>2. turn'[t].stage = "failing" /\ turn'[t].result = "none" /\ Others(t)
      BY <1>0, <1>1, <3>1 DEF Moved, SameOutcome
    <3> QED
      BY <2>0, <3>2, TendedKept DEF WillSettle
  <2>2. CASE ~Settles(t)
    <3>1. ~WillSettle(t)
      BY <1>1, <2>2 DEF Settles, SettleTo, WillSettle, Terminal
    <3>2. Others(t) /\ turn'[t].result = "none"
      BY <1>1, <2>2, FailCourse DEF Gone, NoTurn
    <3> QED
      BY <2>0, <3>1, <3>2, TendedKept
  <2> QED
    BY <2>1, <2>2
<1>2. CASE \E kind \in Kinds : Send(t, kind)
  <2>1. /\ Others(t) /\ turn'[t].result = "none" /\ turn[t].stage = "none"
        /\ up' = up /\ shuttingDown' = shuttingDown /\ run' = run
    BY <1>2, SendCourse DEF Send
  <2>2. ~WillSettle(t)
    BY <2>1 DEF WillSettle
  <2> QED
    BY <2>1, <2>2, TendedKept
<1>3. CASE Claim(t) \/ Refuse(t) \/ Open(t) \/ Announce(t)
  <2>1. /\ turn[t].stage \in {"asked", "claimed", "opened"}
        /\ up' = up /\ shuttingDown' = shuttingDown /\ run' = run
    BY <1>3 DEF Claim, Refuse, Open, Announce
  <2>2. Others(t) /\ turn'[t].result = "none"
    BY <1>0, <1>3, <2>1, StartCourse DEF Moved, Gone, SameOutcome, NoTurn
  <2>3. ~WillSettle(t)
    BY <2>1 DEF WillSettle
  <2> QED
    BY <2>1, <2>2, <2>3, TendedKept
<1>4. CASE Announced(t)
  <2>1. turn[t].stage = "announcing" /\ up' = up /\ shuttingDown' = shuttingDown
    BY <1>4 DEF Announced
  <2>2. Others(t) /\ turn'[t].stage = "announced" /\ turn'[t].wrote /\ turn'[t].result = "none"
    BY <1>0, <1>4, <2>1, AnnouncedCourse
  <2> QED
    BY <2>1, <2>2, TendedKept DEF WillSettle
<1>5. CASE FailDone(t)
  <2>1. up' = up /\ shuttingDown' = shuttingDown /\ run' = RunSaying(SettleTo(t))
    BY <1>5 DEF FailDone, Abandon
  <2>2. SettleTo(t) # "running"
    BY DEF SettleTo, Terminal
  <2>3. Others(t) /\ turn'[t].result = "none"
    BY <1>5, StartCourse DEF Gone, NoTurn
  <2> QED
    BY <2>1, <2>2, <2>3, Said, TendedKept
<1>6. CASE Probe(t)
  <2>1. turn[t].stage = "announced"
    BY <1>6 DEF Probe
  <2>2. CASE CanStart(reg)
    <3>1. Moved(t, "probing") /\ up' = up /\ shuttingDown' = shuttingDown /\ run' = run
      BY <1>6, <2>2, StageSet DEF Probe
    <3>2. /\ Others(t) /\ turn'[t].result = "none" /\ turn'[t].stage = "probing"
          /\ turn'[t].wrote = turn[t].wrote
      BY <1>0, <2>1, <3>1 DEF Moved, SameOutcome
    <3>3. WillSettle(t)' \/ ~WillSettle(t)
      BY <2>1, <3>2 DEF WillSettle
    <3> QED
      BY <3>1, <3>2, <3>3, TendedKept
  <2>3. CASE ~CanStart(reg)
    BY <1>1, <1>6, <2>1, <2>3 DEF Probe
  <2> QED
    BY <2>2, <2>3
<1>7. CASE Launch(t)
  <2>1. turn[t].stage = "probing"
    BY <1>7 DEF Launch
  <2>2. CASE Doomed
    BY <1>1, <1>7, <2>1, <2>2 DEF Launch
  <2>3. CASE ~Doomed
    <3>1. Others(t) /\ SameOutcome(t) /\ turn'[t].stage = "live" /\ up' = up /\ shuttingDown' = shuttingDown
      BY <1>7, <2>3, LaunchCourse DEF Launch
    <3>2. turn'[t].result = "none"
      BY <1>0, <2>1, <3>1 DEF SameOutcome
    <3> QED
      BY <3>1, <3>2, TendedKept DEF WillSettle
  <2> QED
    BY <2>2, <2>3
<1>8. CASE FailStart(t)
  BY <1>1, <1>8 DEF FailStart
<1>9. ASSUME NEW ending \in Endings, EndTurn(t, ending) PROVE RunningIsTended'
  <2>1. turn[t].stage = "live" /\ up' = up /\ shuttingDown' = shuttingDown
    BY <1>9 DEF EndTurn
  <2>2. Others(t) /\ turn'[t].result = "none"
    BY <1>0, <1>9, <2>1, EndCourse
  <2>3. turn'[t].stage = "drained" \/ turn'[t].stage = "ended"
    BY <1>9, EndCourse
  <2> QED
    BY <2>1, <2>2, <2>3, TendedKept DEF WillSettle
<1>10. ASSUME NEW ok \in BOOLEAN, TerminalEvent(t, ok) PROVE RunningIsTended'
  <2>1. turn[t].stage = "ended" /\ up' = up /\ shuttingDown' = shuttingDown /\ run' = run /\ Others(t)
    BY <1>10, EventCourse DEF TerminalEvent
  <2>2. CASE Interrupted(t)
    <3>1. shuttingDown' /\ turn'[t].stage = "drained"
      BY <1>10, <2>1, <2>2, EventCourse DEF Interrupted
    <3> QED
      BY <2>1, <3>1, TendedKept
  <2>3. CASE ~Interrupted(t) /\ ok
    <3>1. turn'[t].stage = "recording" /\ turn'[t].result = "none"
      BY <1>0, <1>10, <2>1, <2>3, EventCourse
    <3> QED
      BY <2>1, <3>1, TendedKept DEF WillSettle
  <2>4. CASE ~Interrupted(t) /\ ~ok
    <3>1. turn'[t].stage = "drained" /\ turn'[t].result = "broken"
      BY <1>10, <2>4, EventCourse
    <3> QED
      BY <2>1, <3>1, TendedKept DEF WillSettle
  <2> QED
    BY <2>2, <2>3, <2>4
<1>11. ASSUME NEW ok \in BOOLEAN, RecordStatus(t, ok) PROVE RunningIsTended'
  <2>1. turn[t].stage = "recording" /\ up' = up /\ shuttingDown' = shuttingDown /\ Others(t)
        /\ turn'[t].stage = "drained"
    BY <1>11, RecordCourse DEF RecordStatus
  <2>2. CASE ok
    <3>1. run' = RunSaying(turn[t].ending) /\ turn[t] \in Turn
      BY <1>11, <2>2 DEF RecordStatus, TypeOK
    <3>2. turn[t].ending # "running"
      BY <3>1 DEF Turn, Endings
    <3> QED
      BY <2>1, <3>1, <3>2, Said, TendedKept
  <2>3. CASE ~ok
    <3>1. turn'[t].result = "broken"
      BY <1>11, <2>3, RecordCourse
    <3> QED
      BY <2>1, <3>1, TendedKept DEF WillSettle
  <2> QED
    BY <2>2, <2>3
<1>12. CASE Finalize(t) /\ Finishes(t)
  <2>1. up' = up /\ shuttingDown' = shuttingDown /\ run' = run /\ turn[t].stage = "drained"
    BY <1>12 DEF Finalize
  <2>2. Others(t) /\ turn'[t].result = "none"
    BY <1>12, FinalCourse DEF Gone, NoTurn
  <2>3. ~WillSettle(t)
    BY <1>12, <2>1 DEF WillSettle, Finishes
  <2> QED
    BY <2>1, <2>2, <2>3, TendedKept
<1>13. CASE Finalize(t) /\ ~Finishes(t)
  <2>1. up' = up /\ shuttingDown' = shuttingDown /\ Others(t) /\ turn'[t].stage = "patching"
    BY <1>13, FinalCourse DEF Finalize
  <2> QED
    BY <2>1, TendedKept DEF WillSettle
<1>14. CASE Patch(t)
  <2>1. up' = up /\ shuttingDown' = shuttingDown
        /\ run' = RunSaying(IF turn[t].result = "broken" THEN "failed" ELSE "completed")
    BY <1>14 DEF Patch
  <2>2. (IF turn[t].result = "broken" THEN "failed" ELSE "completed") # "running"
    OBVIOUS
  <2>3. Others(t) /\ turn'[t].result = "none" /\ ~SaysRunning'
    BY <1>14, <2>1, <2>2, FinalCourse, Said DEF Gone, NoTurn
  <2> QED
    BY <2>1, <2>3, TendedKept
<1> QED
  BY <1>2, <1>3, <1>4, <1>5, <1>6, <1>7, <1>8, <1>9, <1>10, <1>11, <1>12, <1>13, <1>14 DEF Prepare, Settle

\* No request writes `running`, and the daemon closes what it finds running at boot.
LEMMA TendedOthers ==
  ASSUME RunningIsTended, TypeOK, RequestStep \/ DaemonStep \/ UNCHANGED vars
  PROVE  RunningIsTended'
<1> USE DEF StageOf, flags, requests, stopRest
<1>1. ASSUME Standing, ~(up' /\ ~shuttingDown' /\ SaysRunning') \/ (up /\ ~shuttingDown /\ SaysRunning)
      PROVE  RunningIsTended'
  <2>1. \A u \in Turns : /\ turn'[u].stage = turn[u].stage /\ turn'[u].result = turn[u].result
                         /\ turn'[u].wrote = turn[u].wrote
    BY <1>1 DEF Standing, SameOutcome
  <2>2. \A u \in Turns : WillSettle(u) => WillSettle(u)'
    BY <2>1 DEF WillSettle
  <2> QED
    BY <1>1, <2>1, <2>2 DEF RunningIsTended
<1>2. CASE RequestStep
  <2>1. up' = up /\ shuttingDown' = shuttingDown
    BY <1>2 DEF RequestStep, Stop, Stopping, StopWaited, StopReread, StopNote, StopWrite, Archive, Archiving,
       ArchiveStop, ArchiveEnd, ArchiveMark, ArchiveLeave, Unarchive, Delete, Deleting, DeleteSettled, Destroy, DeleteLeave
  <2>2. SaysRunning' => SaysRunning
    <3>1. CASE run' = run
      BY <3>1 DEF SaysRunning
    <3>2. CASE StopWrite
      BY <3>2, Said DEF StopWrite
    <3>3. CASE ArchiveMark \/ Unarchive \/ Destroy
      BY <3>3 DEF ArchiveMark, Unarchive, Destroy, SaysRunning, TypeOK
    <3> QED
      BY <1>2, <3>1, <3>2, <3>3 DEF RequestStep, Stop, Stopping, StopWaited, StopReread, StopNote, Archive, Archiving,
         ArchiveStop, ArchiveEnd, ArchiveLeave, Delete, Deleting, DeleteSettled, DeleteLeave
  <2> QED
    BY <1>1, <1>2, <2>1, <2>2, RequestCourse
<1>3. CASE Down
  <2>1. up' = FALSE /\ \A u \in Turns : turn'[u].result = "none"
    BY <1>3 DEF Down, NoTurn
  <2> QED
    BY <2>1 DEF RunningIsTended
<1>4. CASE Quit \/ Drain \/ DrainDeadline
  <2>1. ~Down /\ DaemonStep
    BY <1>4 DEF DaemonStep, Quit, Drain, DrainDeadline, Down, TypeOK
  <2>2. Standing
    BY <2>1, DaemonCourse
  <2>3. up' = up /\ run' = run /\ (shuttingDown' = TRUE \/ shuttingDown' = shuttingDown)
    BY <1>4 DEF Quit, Drain, DrainDeadline
  <2> QED
    BY <1>1, <2>2, <2>3 DEF SaysRunning
<1>5. CASE Boot
  <2>1. ~SaysRunning'
    BY <1>5 DEF Boot, LeftRunning, SaysRunning, TypeOK
  <2>2. Standing
    BY <1>5, CloseCourse DEF Boot
  <2> QED
    BY <1>1, <2>1, <2>2
<1>6. CASE UNCHANGED vars
  BY <1>1, <1>6, CloseCourse DEF vars, SaysRunning
<1> QED
  BY <1>2, <1>3, <1>4, <1>5, <1>6 DEF DaemonStep

\* The row says `running` only while a turn is there that will write how it ended,
\* whichever write fails, and whatever overtakes what.
THEOREM RunningHasATurn == Spec => []NoGhostRunning
<1>1. Init => RunningIsTended
  <2> SUFFICES ASSUME Init PROVE RunningIsTended
    OBVIOUS
  <2>1. \A u \in Turns : turn[u].result = "none"
    BY DEF Init, NoTurn
  <2>2. ~SaysRunning
    BY DEF Init, SaysRunning
  <2> QED
    BY <2>1, <2>2 DEF RunningIsTended
<1>2. RunningIsTended /\ StatusesAreKnown /\ TypeOK /\ [Next]_vars => RunningIsTended'
  BY TendedTurns, TendedOthers DEF Next, RequestStep, DaemonStep
<1>3. RunningIsTended => NoGhostRunning
  BY Words DEF RunningIsTended, NoGhostRunning, WillSettle, SaysRunning, Unfinished
<1> QED
  BY <1>1, <1>2, <1>3, TypeCorrect, PTL DEF Spec

-----------------------------------------------------------------------------
(* What a shutdown cuts off, when no message overtakes a finalizer and the *)
(* only request is a Stop of a turn that holds the slot.                   *)

TurnStep(t) == \/ Prepare(t) \/ FailStart(t) \/ Settle(t)
               \/ \E kind \in Kinds : Send(t, kind)
               \/ \E ending \in Endings : EndTurn(t, ending)
StopsOnly == {"early", "overtake", "archive", "delete"} \cap Happenings = {}

\* No request has more than one step, a daemon that is down has no turns, and the
\* registry hears of the shutdown from the chats.
Quiet == /\ stop.phase = Idle /\ archive = Idle /\ deletion.phase = Idle
         /\ ~up => \A t \in Turns : StageOf(t) = "none"
         /\ reg.shuttingDown => shuttingDown

\* A turn is cancelled, or its process closed, for its own Stop or by the drain.
CutByStopOrDrain ==
  \A t \in Turns :
    /\ turn[t].asks \subseteq {"stop"}
    /\ \/ StageOf(t) = "live" /\ (turn[t].told \/ turn[t].closed)
       \/ StageOf(t) = "ended" /\ turn[t].ending = "cancelled"
       => "stop" \in turn[t].asks \/ reg.shuttingDown

RunningStages == {"announced", "probing", "live"} \cup Settling
\* The chat says `running` from the announcement of a turn to its terminal row.
RowOrRunning ==
  \A t \in Turns :
    /\ turn[t].row => StageOf(t) \in {"recording", "drained", "patching"}
    /\ StageOf(t) = "recording" => turn[t].row
    /\ StageOf(t) \in RunningStages /\ run.exists /\ ~turn[t].row => run.status = "running"

\* What was cut off is left `running`, and nobody is left to say anything else.
CutsAreRunning ==
  dangling => /\ SaysRunning
              /\ up => reg.shuttingDown /\ \A u \in Unfinished : StageOf(u) = "drained" /\ turn[u].result = "seen"

CutsAreClosed == Quiet /\ CutByStopOrDrain /\ RowOrRunning /\ CutsAreRunning

\* What no step of a turn touches.
LEMMA TurnRest ==
  ASSUME TypeOK, NEW t \in Turns, TurnStep(t)
  PROVE  /\ up' = up /\ shuttingDown' = shuttingDown /\ archive' = archive
         /\ stop'.phase = stop.phase /\ deletion'.phase = deletion.phase
         /\ reg'.shuttingDown = reg.shuttingDown /\ run'.exists = run.exists /\ Others(t)
<1> USE DEF flags, requests, history
<1> DEFINE Rest == /\ up' = up /\ shuttingDown' = shuttingDown /\ archive' = archive
                   /\ stop'.phase = stop.phase /\ deletion'.phase = deletion.phase
                   /\ reg'.shuttingDown = reg.shuttingDown /\ run'.exists = run.exists
<1>0. /\ reg \in Registry /\ \A status : RunSaying(status).exists = run.exists
      /\ Over(t) => stop'.phase = stop.phase /\ deletion'.phase = deletion.phase
      /\ \A w : StatusWritten(w) => stop'.phase = stop.phase
  BY DEF TypeOK, RunSaying, Over, StatusWritten
<1>1. /\ Claimed(reg, t).shuttingDown = reg.shuttingDown /\ Released(reg).shuttingDown = reg.shuttingDown
      /\ Registered(reg, t).shuttingDown = reg.shuttingDown /\ Unregistered(reg, t).shuttingDown = reg.shuttingDown
  BY <1>0 DEF Registry, Claimed, Released, Registered, Unregistered
<1>2. ASSUME Fail(t) PROVE Rest /\ Others(t)
  <2>1. Rest
    BY <1>0, <1>1, <1>2 DEF Fail, Abandon
  <2> QED
    BY <1>2, <2>1, FailCourse DEF Moved, Gone
<1>3. CASE \E kind \in Kinds : Send(t, kind)
  BY <1>3, SendCourse DEF Send
<1>4. CASE Claim(t) \/ Refuse(t) \/ Open(t) \/ Announce(t)
  <2>1. Rest
    BY <1>1, <1>4 DEF Claim, Refuse, Open, Announce
  <2> QED
    BY <1>4, <2>1, StartCourse DEF Moved, Gone
<1>5. CASE Announced(t)
  BY <1>0, <1>5, AnnouncedCourse DEF Announced
<1>6. CASE FailDone(t)
  <2>1. Rest
    BY <1>0, <1>1, <1>6 DEF FailDone, Abandon
  <2> QED
    BY <1>6, <2>1, StartCourse DEF Gone
<1>7. CASE Probe(t)
  <2>1. CASE CanStart(reg)
    BY <1>7, <2>1, StageSet DEF Probe, Moved
  <2>2. CASE ~CanStart(reg)
    BY <1>2, <1>7, <2>2 DEF Probe
  <2> QED
    BY <2>1, <2>2
<1>8. CASE Launch(t)
  <2>1. CASE Doomed
    BY <1>2, <1>8, <2>1 DEF Launch
  <2>2. CASE ~Doomed
    BY <1>1, <1>8, <2>2, LaunchCourse DEF Launch
  <2> QED
    BY <2>1, <2>2
<1>9. CASE FailStart(t)
  BY <1>2, <1>9 DEF FailStart
<1>10. ASSUME NEW ending \in Endings, EndTurn(t, ending) PROVE Rest /\ Others(t)
  BY <1>1, <1>10, EndCourse DEF EndTurn
<1>11. ASSUME NEW ok \in BOOLEAN, TerminalEvent(t, ok) PROVE Rest /\ Others(t)
  BY <1>11, EventCourse DEF TerminalEvent
<1>12. ASSUME NEW ok \in BOOLEAN, RecordStatus(t, ok) PROVE Rest /\ Others(t)
  <2>1. Rest
    BY <1>0, <1>12 DEF RecordStatus
  <2> QED
    BY <1>12, <2>1, RecordCourse
<1>13. CASE Finalize(t) \/ Patch(t)
  <2>1. Rest
    BY <1>0, <1>13 DEF Finalize, Patch
  <2> QED
    BY <1>13, <2>1, FinalCourse DEF Gone
<1> QED
  BY <1>3, <1>4, <1>5, <1>6, <1>7, <1>8, <1>9, <1>10, <1>11, <1>12, <1>13 DEF TurnStep, Prepare, Settle

\* With no other request about, a request is a Stop of the turn that holds the slot,
\* or takes the chat out of the archive.
LEMMA OnlyStops ==
  ASSUME TypeOK, StopsOnly, Quiet, RequestStep
  PROVE  /\ reg'.shuttingDown = reg.shuttingDown /\ Standing
         /\ run'.exists = run.exists /\ run'.status = run.status
         /\ UNCHANGED <<stop, archive, deletion, up, shuttingDown, dangling>>
         /\ \/ Stops /\ turn' = SessionClosed(HandleCancelled("stop"))
            \/ turn' = turn
<1> USE DEF flags, requests, history, Idle
<1>1. Stop \/ Unarchive
  BY DEF RequestStep, Stopping, StopWaited, StopReread, StopNote, StopWrite, Archive, Archiving, ArchiveStop, ArchiveEnd,
     ArchiveMark, ArchiveLeave, Delete, Deleting, DeleteSettled, Destroy, DeleteLeave, StopsOnly, Quiet
<1>2. CASE Stop
  <2>1. Has(reg) /\ CancelRun
    BY <1>2 DEF Stop, StopsOnly
  <2>2. /\ reg' = CancelNoted(reg) /\ turn' = SessionClosed(HandleCancelled("stop"))
        /\ stopsRequested' = TRUE /\ stop' = stop
    BY <2>1 DEF CancelRun
  <2>3. reg'.shuttingDown = reg.shuttingDown
    BY <2>2 DEF CancelNoted, TypeOK, Registry
  <2>4. Standing /\ HolderAsked("stop")
    BY <2>2, CancelCourse
  <2> QED
    BY <1>2, <2>1, <2>2, <2>3, <2>4 DEF Stop, Stops
<1>3. CASE Unarchive
  BY <1>3, CloseCourse DEF Unarchive, TypeOK
<1> QED
  BY <1>1, <1>2, <1>3

\* Quiet survives every step.
LEMMA QuietStep ==
  ASSUME TypeOK, StopsOnly, Quiet, [Next]_vars
  PROVE  Quiet'
<1> USE DEF flags, requests, history, StageOf
<1>1. ASSUME NEW t \in Turns, TurnStep(t) PROVE Quiet'
  <2>1. CASE up
    BY <1>1, <2>1, TurnRest DEF Quiet
  <2>2. CASE ~up
    <3>1. turn[t].stage = "none"
      BY <2>2 DEF Quiet
    <3>2. FALSE
      BY <1>1, <2>2, <3>1 DEF TurnStep, Prepare, Claim, Refuse, Open, Announce, Announced, FailDone, Probe, Launch,
         FailStart, Settle, TerminalEvent, RecordStatus, Finalize, Patch, Send, EndTurn
    <3> QED
      BY <3>2
  <2> QED
    BY <2>1, <2>2
<1>2. CASE RequestStep
  <2>1. /\ reg'.shuttingDown = reg.shuttingDown /\ Standing
        /\ UNCHANGED <<stop, archive, deletion, up, shuttingDown>>
    BY <1>2, OnlyStops
  <2> QED
    BY <2>1 DEF Quiet, Standing
<1>3. CASE Down
  <2>1. /\ stop' = NoStop /\ archive' = Idle /\ deletion' = NoDeletion /\ reg' = EmptyRegistry
        /\ \A t \in Turns : turn'[t] = NoTurn
    BY <1>3 DEF Down
  <2>2. NoTurn.stage = "none" /\ NoStop.phase = Idle /\ NoDeletion.phase = Idle /\ EmptyRegistry.shuttingDown = FALSE
    BY DEF NoTurn, NoStop, NoDeletion, EmptyRegistry
  <2> QED
    BY <2>1, <2>2 DEF Quiet
<1>4. CASE Quit \/ Drain \/ DrainDeadline \/ Boot
  <2>1. Standing /\ UNCHANGED <<stop, archive, deletion>>
    <3>1. Quit \/ Boot \/ DrainDeadline => turn' = turn
      BY DEF Quit, Boot, DrainDeadline
    <3>2. Drain => ~Down
      BY DEF Drain, Down, TypeOK
    <3> QED
      BY <1>4, <3>1, <3>2, CloseCourse, DaemonCourse DEF DaemonStep, Quit, Drain, DrainDeadline, Boot
  <2>2. CASE Quit \/ Boot
    BY <2>1, <2>2 DEF Quiet, Standing, Quit, Boot
  <2>3. CASE Drain \/ DrainDeadline
    <3>1. shuttingDown /\ UNCHANGED <<up, shuttingDown>>
      BY <2>3 DEF Drain, DrainDeadline, Quiet
    <3> QED
      BY <2>1, <3>1 DEF Quiet, Standing
  <2> QED
    BY <1>4, <2>2, <2>3
<1>5. CASE UNCHANGED vars
  BY <1>5 DEF vars, Quiet
<1> QED
  BY <1>1, <1>2, <1>3, <1>4, <1>5 DEF Next, RequestStep, TurnStep

\* No step of a turn cuts it for anything but its own Stop or the drain.
LEMMA CutTurns ==
  ASSUME TypeOK, SoundSlot', StopIsOnRecord, CutByStopOrDrain, NEW t \in Turns, TurnStep(t)
  PROVE  CutByStopOrDrain'
<1> USE DEF StageOf
<1> DEFINE Good == /\ turn'[t].asks \subseteq {"stop"}
                   /\ turn'[t].stage = "live" /\ turn'[t].closed => "stop" \in turn'[t].asks \/ reg'.shuttingDown
                   /\ turn'[t].stage = "ended" /\ turn'[t].ending = "cancelled"
                      => "stop" \in turn'[t].asks \/ reg'.shuttingDown
<1>1. SUFFICES Good
  <2>1. Others(t) /\ reg'.shuttingDown = reg.shuttingDown
    BY TurnRest
  <2>2. ASSUME Good
        PROVE  turn'[t].stage = "live" /\ turn'[t].told => "stop" \in turn'[t].asks \/ reg'.shuttingDown
    <3>1. turn'[t].stage = "live" /\ turn'[t].told => turn'[t].asks # {} \/ reg'.shuttingDown
      BY DEF SoundSlot, NoStrayCancel, Live
    <3> QED
      BY <2>2, <3>1
  <2>3. ASSUME NEW u \in Turns, u # t
        PROVE  /\ turn'[u].asks \subseteq {"stop"}
               /\ \/ turn'[u].stage = "live" /\ (turn'[u].told \/ turn'[u].closed)
                  \/ turn'[u].stage = "ended" /\ turn'[u].ending = "cancelled"
                  => "stop" \in turn'[u].asks \/ reg'.shuttingDown
    <3>1. turn'[u] = turn[u]
      BY <2>1, <2>3 DEF Others
    <3> QED
      BY <2>1, <3>1 DEF CutByStopOrDrain
  <2>4. ASSUME Good
        PROVE  /\ turn'[t].asks \subseteq {"stop"}
               /\ \/ turn'[t].stage = "live" /\ (turn'[t].told \/ turn'[t].closed)
                  \/ turn'[t].stage = "ended" /\ turn'[t].ending = "cancelled"
                  => "stop" \in turn'[t].asks \/ reg'.shuttingDown
    BY <2>2, <2>4
  <2> HIDE DEF Good
  <2> QED
    BY <2>3, <2>4 DEF CutByStopOrDrain
<1>2. turn[t].asks \subseteq {"stop"}
  BY DEF CutByStopOrDrain
<1>3. ASSUME turn'[t].asks \in {turn[t].asks, {}}, turn'[t].stage \notin {"live", "ended"} PROVE Good
  BY <1>2, <1>3
<1>4. ASSUME Gone(t) PROVE Good
  BY <1>4 DEF Gone, NoTurn
<1>5. ASSUME Fail(t) PROVE Good
  BY <1>3, <1>4, <1>5, FailCourse DEF Moved, SameTurn
<1>6. CASE \E kind \in Kinds : Send(t, kind)
  BY <1>3, <1>6, SendCourse
<1>7. CASE Claim(t) \/ Refuse(t) \/ Open(t) \/ Announce(t) \/ FailDone(t) \/ Probe(t)
  <2>1. CASE Refuse(t) \/ FailDone(t)
    BY <1>4, <2>1, StartCourse
  <2>2. CASE Claim(t) \/ Open(t) \/ Announce(t) \/ Probe(t)
    <3>1. Fail(t) \/ (SameTurn(t) /\ turn'[t].stage \in {"claimed", "opened", "announcing", "probing"})
      BY <2>2, StartCourse DEF Moved
    <3> QED
      BY <1>3, <1>5, <3>1 DEF SameTurn
  <2> QED
    BY <1>7, <2>1, <2>2
<1>8. CASE Announced(t)
  BY <1>3, <1>8, AnnouncedCourse DEF SameTurn
<1>9. CASE Launch(t)
  <2>1. CASE Doomed
    BY <1>5, <1>9, <2>1 DEF Launch
  <2>2. CASE ~Doomed
    <3>1. turn'[t].stage = "live" /\ turn'[t].asks = turn[t].asks /\ turn'[t].closed = stopsRequested
      BY <1>9, <2>2, LaunchCourse DEF SameTurn
    <3>2. "stop" \in turn[t].asks <=> stopsRequested
      BY <1>9, Words DEF Launch, StopIsOnRecord, Pressable
    <3> QED
      BY <1>2, <3>1, <3>2
  <2> QED
    BY <2>1, <2>2
<1>10. CASE FailStart(t)
  BY <1>5, <1>10 DEF FailStart
<1>11. ASSUME NEW ending \in Endings, EndTurn(t, ending) PROVE Good
  <2>1. turn'[t].asks = turn[t].asks /\ turn'[t].ending = ending /\ turn[t].stage = "live"
        /\ (ending = "cancelled" => turn[t].told \/ turn[t].closed)
    BY <1>11, EndCourse DEF EndTurn, SameTurn
  <2>2. turn'[t].stage # "live"
    BY <1>11, EndCourse
  <2>3. ending = "cancelled" => "stop" \in turn[t].asks \/ reg'.shuttingDown
    BY <2>1, TurnRest DEF CutByStopOrDrain
  <2> QED
    BY <1>2, <2>1, <2>2, <2>3
<1>12. ASSUME NEW ok \in BOOLEAN, TerminalEvent(t, ok) \/ RecordStatus(t, ok) PROVE Good
  <2>1. turn'[t].asks = turn[t].asks /\ turn'[t].stage \in {"drained", "recording"}
    BY <1>12, EventCourse, RecordCourse DEF SameTurn
  <2> QED
    BY <1>3, <2>1
<1>13. CASE Finalize(t) \/ Patch(t)
  <2>1. Gone(t) \/ (turn'[t].asks = turn[t].asks /\ turn'[t].stage = "patching")
    BY <1>13, FinalCourse DEF SameTurn
  <2> QED
    BY <1>3, <1>4, <2>1
<1> HIDE DEF Good
<1> QED
  BY <1>6, <1>7, <1>8, <1>9, <1>10, <1>11, <1>12, <1>13 DEF TurnStep, Prepare, Settle

\* A Stop asks the one turn whose process it closes; the drain says so.
LEMMA CutOthers ==
  ASSUME TypeOK, SoundSlot, StopIsOnRecord, StopsOnly, Quiet, CutByStopOrDrain,
         RequestStep \/ DaemonStep \/ UNCHANGED vars
  PROVE  CutByStopOrDrain'
<1> USE DEF StageOf, Unfinished
<1>1. ASSUME Standing, \A u \in Turns : turn'[u].asks \subseteq {"stop"},
             \A u \in Turns : turn[u].stage \in {"live", "ended"} => "stop" \in turn'[u].asks \/ reg'.shuttingDown
      PROVE  CutByStopOrDrain'
  BY <1>1 DEF CutByStopOrDrain, Standing
<1>2. ASSUME turn' = turn, reg'.shuttingDown = reg.shuttingDown PROVE CutByStopOrDrain'
  BY <1>2 DEF CutByStopOrDrain
<1>3. CASE RequestStep
  <2>1. CASE turn' = turn
    BY <1>2, <1>3, <2>1, OnlyStops
  <2>2. CASE Stops
    <3>1. reg.holder \in Turns /\ turn[reg.holder].stage \in Starting \cup {"live"}
      BY <2>2 DEF Stops, Has, TypeOK, Registry, SoundSlot, SlotMatchesTurn
    <3>2. \A u \in Turns : turn[u].stage \in {"live", "ended"} => u = reg.holder
      BY <3>1, Words DEF StopIsOnRecord
    <3>3. "stop" \in turn'[reg.holder].asks
      BY <2>2, <3>1 DEF Stops, HolderAsked
    <3>4. \A u \in Turns : turn'[u].asks \subseteq {"stop"}
      BY <2>2 DEF Stops, HolderAsked, CutByStopOrDrain
    <3>5. Standing
      BY <1>3, OnlyStops
    <3> QED
      BY <1>1, <3>2, <3>3, <3>4, <3>5
  <2> QED
    BY <1>3, <2>1, <2>2, OnlyStops
<1>4. CASE Down
  <2>1. \A u \in Turns : turn'[u] = NoTurn
    BY <1>4 DEF Down
  <2>2. NoTurn.stage = "none" /\ NoTurn.asks = {}
    BY DEF NoTurn
  <2> QED
    BY <2>1, <2>2 DEF CutByStopOrDrain
<1>5. CASE Drain
  <2>1. reg'.shuttingDown
    BY <1>5 DEF Drain, Draining, CancelNoted, TypeOK, Registry
  <2>2. ~Down
    BY <1>5 DEF Drain, Down, TypeOK
  <2>3. Standing /\ AsksStand
    BY <1>5, <2>2, DaemonCourse DEF DaemonStep
  <2> QED
    BY <1>1, <2>1, <2>3 DEF AsksStand, CutByStopOrDrain
<1>6. CASE Quit \/ DrainDeadline \/ Boot \/ UNCHANGED vars
  <2>1. turn' = turn /\ reg'.shuttingDown = reg.shuttingDown
    BY <1>6 DEF Quit, DrainDeadline, Drained, Boot, vars, TypeOK, Registry
  <2> QED
    BY <1>2, <2>1
<1> QED
  BY <1>3, <1>4, <1>5, <1>6 DEF DaemonStep

\* A daemon that is down has no turn to take a step.
LEMMA DownIsStill ==
  ASSUME Quiet, NEW t \in Turns, TurnStep(t)
  PROVE  up
<1> SUFFICES ASSUME ~up PROVE FALSE
  OBVIOUS
<1>1. turn[t].stage = "none"
  BY DEF Quiet, StageOf
<1> QED
  BY <1>1 DEF TurnStep, Prepare, Claim, Refuse, Open, Announce, Announced, FailDone, Probe, Launch,
     FailStart, Settle, TerminalEvent, RecordStatus, Finalize, Patch, Send, EndTurn, StageOf

\* Only an unfinished turn writes a status, and a status only where its stage says so.
LEMMA WhoWrites ==
  ASSUME TypeOK, NEW t \in Turns, TurnStep(t)
  PROVE  \/ run' = run
         \/ t \in Unfinished /\ \/ Announced(t)
                                \/ turn[t].stage \in {"failing", "recording", "patching"}
                                   /\ turn'[t].stage \in {"none", "drained"}
<1> USE DEF StageOf, Unfinished, flags
<1>1. Fail(t) => run' = run
  BY DEF Fail, Abandon
<1>2. CASE \E kind \in Kinds : Send(t, kind)
  BY <1>2 DEF Send
<1>3. CASE Claim(t) \/ Refuse(t) \/ Open(t) \/ Announce(t) \/ Probe(t) \/ Launch(t) \/ FailStart(t)
  BY <1>1, <1>3 DEF Claim, Refuse, Open, Announce, Probe, Launch, FailStart
<1>4. CASE Announced(t)
  BY <1>4, Words DEF Announced
<1>5. CASE FailDone(t) \/ Patch(t)
  <2>1. turn[t].stage \in {"failing", "patching"}
    BY <1>5 DEF FailDone, Patch
  <2>2. turn'[t].stage = "none"
    BY <1>5, StartCourse, FinalCourse DEF Gone, NoTurn
  <2> QED
    BY <2>1, <2>2, Words
<1>6. CASE \E ending \in Endings : EndTurn(t, ending)
  BY <1>6 DEF EndTurn
<1>7. ASSUME NEW ok \in BOOLEAN, TerminalEvent(t, ok) PROVE run' = run
  BY <1>7 DEF TerminalEvent
<1>8. ASSUME NEW ok \in BOOLEAN, RecordStatus(t, ok)
      PROVE  t \in Unfinished /\ turn[t].stage = "recording" /\ turn'[t].stage = "drained"
  BY <1>8, RecordCourse, Words DEF RecordStatus
<1>9. CASE Finalize(t)
  BY <1>9 DEF Finalize
<1> QED
  BY <1>2, <1>3, <1>4, <1>5, <1>6, <1>7, <1>8, <1>9 DEF TurnStep, Prepare, Settle

\* No step of a turn leaves it without a row and the chat not `running`.
LEMMA RowTurns ==
  ASSUME TypeOK, StopIsOnRecord, RowOrRunning, NEW t \in Turns, TurnStep(t)
  PROVE  RowOrRunning'
<1> USE DEF StageOf
<1> DEFINE Good == /\ turn'[t].row => turn'[t].stage \in {"recording", "drained", "patching"}
                   /\ turn'[t].stage = "recording" => turn'[t].row
                   /\ turn'[t].stage \in RunningStages /\ run'.exists /\ ~turn'[t].row => run'.status = "running"
<1>1. SUFFICES Good
  <2>1. ASSUME NEW u \in Turns, u # t
        PROVE  /\ turn'[u].row => turn'[u].stage \in {"recording", "drained", "patching"}
               /\ turn'[u].stage = "recording" => turn'[u].row
               /\ turn'[u].stage \in RunningStages /\ run'.exists /\ ~turn'[u].row => run'.status = "running"
    <3>1. turn'[u] = turn[u]
      BY <2>1, TurnRest DEF Others
    <3>2. CASE run' = run
      BY <3>1, <3>2 DEF RowOrRunning
    <3>3. CASE t \in Unfinished
      <4>1. turn[u].stage \notin RunningStages
        BY <2>1, <3>3, Words DEF StopIsOnRecord, Unfinished, RunningStages
      <4> QED
        BY <3>1, <4>1 DEF RowOrRunning
    <3> QED
      BY <3>2, <3>3, WhoWrites
  <2> HIDE DEF Good
  <2>2. /\ turn'[t].row => turn'[t].stage \in {"recording", "drained", "patching"}
        /\ turn'[t].stage = "recording" => turn'[t].row
        /\ turn'[t].stage \in RunningStages /\ run'.exists /\ ~turn'[t].row => run'.status = "running"
    BY <1>1 DEF Good
  <2> QED
    BY <2>1, <2>2 DEF RowOrRunning
<1>2. /\ turn[t].row => turn[t].stage \in {"recording", "drained", "patching"}
      /\ turn[t].stage = "recording" => turn[t].row
      /\ turn[t].stage \in RunningStages /\ run.exists /\ ~turn[t].row => run.status = "running"
  BY DEF RowOrRunning
<1>3. ASSUME turn'[t].row = FALSE, turn'[t].stage \notin RunningStages PROVE Good
  BY <1>3, Words DEF RunningStages
<1>4. ASSUME Gone(t) PROVE Good
  BY <1>3, <1>4, Words DEF Gone, NoTurn, RunningStages
<1>5. turn[t] \in Turn /\ turn[t].row \in BOOLEAN
  BY DEF TypeOK, Turn
<1>6. ASSUME turn[t].stage \notin {"recording", "drained", "patching"}, turn'[t].row = turn[t].row,
             turn'[t].stage \notin RunningStages
      PROVE  Good
  BY <1>2, <1>3, <1>5, <1>6
<1>7. ASSUME Fail(t), turn[t].stage \in Starting PROVE Good
  <2>1. turn[t].stage \notin {"recording", "drained", "patching"}
    BY <1>7, Words
  <2>2. Gone(t) \/ (turn'[t].row = turn[t].row /\ turn'[t].stage = "failing")
    BY <1>7, FailCourse DEF Moved, SameOutcome
  <2> QED
    BY <1>4, <1>6, <2>1, <2>2, Words DEF RunningStages
<1>8. CASE \E kind \in Kinds : Send(t, kind)
  BY <1>3, <1>8, SendCourse, Words DEF RunningStages
<1>9. CASE Claim(t) \/ Open(t) \/ Announce(t)
  <2>1. turn[t].stage \in {"asked", "claimed", "opened"}
    BY <1>9 DEF Claim, Open, Announce
  <2>2. turn'[t].row = turn[t].row /\ turn'[t].stage \in {"claimed", "opened", "announcing"}
    BY <1>9, StartCourse DEF Moved, SameOutcome
  <2> QED
    BY <1>6, <2>1, <2>2, Words DEF RunningStages
<1>10. CASE Refuse(t) \/ FailDone(t) \/ Patch(t)
  BY <1>4, <1>10, StartCourse, FinalCourse
<1>11. CASE Announced(t)
  <2>1. turn[t].stage = "announcing" /\ run' = RunSaying("running")
    BY <1>11 DEF Announced
  <2>2. turn'[t].stage = "announced" /\ turn'[t].row = turn[t].row
    BY <1>11, AnnouncedCourse
  <2>3. run'.exists => run'.status = "running"
    BY <2>1 DEF RunSaying, TypeOK
  <2> QED
    BY <1>2, <2>1, <2>2, <2>3
<1>12. CASE Probe(t)
  <2>1. turn[t].stage = "announced"
    BY <1>12 DEF Probe
  <2>2. CASE CanStart(reg)
    <3>1. Moved(t, "probing") /\ run' = run
      BY <1>12, <2>2, StageSet DEF Probe
    <3> QED
      BY <1>2, <2>1, <3>1 DEF Moved, SameOutcome, RunningStages
  <2>3. CASE ~CanStart(reg)
    BY <1>7, <1>12, <2>1, <2>3, Words DEF Probe
  <2> QED
    BY <2>2, <2>3
<1>13. CASE Launch(t)
  <2>1. turn[t].stage = "probing"
    BY <1>13 DEF Launch
  <2>2. CASE Doomed
    BY <1>7, <1>13, <2>1, <2>2, Words DEF Launch
  <2>3. CASE ~Doomed
    <3>1. turn'[t].stage = "live" /\ turn'[t].row = turn[t].row /\ run' = run
      BY <1>13, <2>3, LaunchCourse DEF Launch, SameOutcome
    <3> QED
      BY <1>2, <2>1, <3>1 DEF RunningStages
  <2> QED
    BY <2>2, <2>3
<1>14. CASE FailStart(t)
  BY <1>7, <1>14, Words DEF FailStart
<1>15. ASSUME NEW ending \in Endings, EndTurn(t, ending) PROVE Good
  <2>1. turn[t].stage = "live" /\ turn'[t].row = turn[t].row /\ run' = run
    BY <1>15, EndCourse DEF EndTurn
  <2>2. turn'[t].stage = "drained" \/ turn'[t].stage = "ended"
    BY <1>15, EndCourse
  <2> QED
    BY <1>2, <2>1, <2>2 DEF RunningStages
<1>16. ASSUME NEW ok \in BOOLEAN, TerminalEvent(t, ok) PROVE Good
  <2>1. turn[t].stage = "ended" /\ run' = run
    BY <1>16 DEF TerminalEvent
  <2>2. \/ turn'[t].stage = "drained" /\ turn'[t].row = turn[t].row
        \/ turn'[t].stage = "recording" /\ turn'[t].row
    BY <1>16, EventCourse
  <2> QED
    BY <1>2, <2>1, <2>2, Words DEF RunningStages
<1>17. ASSUME NEW ok \in BOOLEAN, RecordStatus(t, ok) PROVE Good
  <2>1. turn[t].stage = "recording" /\ turn'[t].stage = "drained" /\ turn'[t].row = turn[t].row
    BY <1>17, RecordCourse DEF RecordStatus
  <2> QED
    BY <1>2, <2>1
<1>18. CASE Finalize(t)
  <2>1. CASE Finishes(t)
    BY <1>4, <1>18, <2>1, FinalCourse
  <2>2. CASE ~Finishes(t)
    <3>1. turn[t].stage = "drained" /\ turn'[t].stage = "patching" /\ run' = run
          /\ turn'[t].row = (turn[t].row \/ turn[t].result = "none")
      BY <1>18, <2>2, FinalCourse DEF Finalize
    <3> QED
      BY <1>2, <3>1, Words DEF RunningStages
  <2> QED
    BY <2>1, <2>2
<1> HIDE DEF Good
<1> QED
  BY <1>8, <1>9, <1>10, <1>11, <1>12, <1>13, <1>14, <1>15, <1>16, <1>17, <1>18 DEF TurnStep, Prepare, Settle

\* Nor does a Stop, or the daemon.
LEMMA RowOthers ==
  ASSUME TypeOK, StopsOnly, Quiet, RowOrRunning, RequestStep \/ DaemonStep \/ UNCHANGED vars
  PROVE  RowOrRunning'
<1> USE DEF StageOf
<1>1. ASSUME Standing, run'.exists = run.exists, run'.status = run.status PROVE RowOrRunning'
  <2>1. \A u \in Turns : turn'[u].stage = turn[u].stage /\ turn'[u].row = turn[u].row
    BY <1>1 DEF Standing, SameOutcome
  <2> QED
    BY <1>1, <2>1 DEF RowOrRunning
<1>2. ASSUME \A u \in Turns : turn'[u].stage = "none" /\ turn'[u].row = FALSE PROVE RowOrRunning'
  BY <1>2, Words DEF RowOrRunning, RunningStages
<1>3. CASE RequestStep
  BY <1>1, <1>3, OnlyStops
<1>4. CASE Down
  BY <1>2, <1>4 DEF Down, NoTurn
<1>5. CASE Boot
  <2>1. turn' = turn /\ \A u \in Turns : turn[u].stage = "none"
    BY <1>5 DEF Boot, Quiet
  <2>2. \A u \in Turns : turn[u].row = FALSE
    BY <2>1 DEF RowOrRunning, TypeOK, Turn
  <2> QED
    BY <1>2, <2>1, <2>2
<1>6. CASE Quit \/ Drain \/ DrainDeadline
  <2>1. ~Down /\ DaemonStep
    BY <1>6 DEF DaemonStep, Quit, Drain, DrainDeadline, Down, TypeOK
  <2>2. run' = run
    BY <1>6 DEF Quit, Drain, DrainDeadline
  <2> QED
    BY <1>1, <2>1, <2>2, DaemonCourse
<1>7. CASE UNCHANGED vars
  BY <1>1, <1>7, CloseCourse DEF vars
<1> QED
  BY <1>3, <1>4, <1>5, <1>6, <1>7 DEF DaemonStep

\* A turn that is cut off in the shutdown leaves the chat `running`, and nobody
\* takes the slot after it.
LEMMA CutsTurns ==
  ASSUME TypeOK, StopIsOnRecord, CutsAreClosed, NEW t \in Turns, TurnStep(t)
  PROVE  CutsAreRunning'
<1> USE DEF StageOf, Unfinished
<1>0. Quiet /\ CutByStopOrDrain /\ RowOrRunning /\ CutsAreRunning /\ up
  BY DownIsStill DEF CutsAreClosed
<1>1. CASE dangling
  <2>1. /\ SaysRunning /\ reg.shuttingDown
        /\ \A u \in Turns : turn[u].stage \in {"live"} \cup Starting \cup Settling
                            => turn[u].stage = "drained" /\ turn[u].result = "seen"
    BY <1>0, <1>1 DEF CutsAreRunning
  <2>2. turn[t].stage \notin Starting \cup {"live", "ended", "recording", "patching"}
    BY <2>1, Words
  <2>3. turn'[t].stage \notin {"live"} \cup Starting \cup Settling /\ run' = run
    <3>1. CASE \E kind \in Kinds : Send(t, kind)
      BY <3>1, SendCourse, Words DEF Send
    <3>2. CASE Refuse(t)
      BY <3>2, StartCourse, Words DEF Refuse, Gone, NoTurn
    <3>3. CASE Finalize(t)
      <4>1. Finishes(t)
        BY <2>1, <3>3, Words DEF Finalize, Finishes
      <4>2. Gone(t) /\ run' = run
        BY <3>3, <4>1, FinalCourse DEF Finalize
      <4> QED
        BY <4>2, Words DEF Gone, NoTurn
    <3>4. ~Claim(t)
      BY <2>1 DEF Claim, CanClaim
    <3> QED
      BY <2>2, <3>1, <3>2, <3>3, <3>4, Words DEF TurnStep, Prepare, Open, Announce, Announced, FailDone, Probe, Launch,
         FailStart, Settle, TerminalEvent, RecordStatus, Patch, EndTurn
  <2>4. \A u \in Turns \ {t} : turn'[u] = turn[u]
    BY TurnRest DEF Others
  <2> QED
    BY <2>1, <2>3, <2>4, TurnRest DEF CutsAreRunning, SaysRunning
<1>2. CASE ~dangling
  <2>1. ASSUME dangling'
        PROVE  \E ok \in BOOLEAN : TerminalEvent(t, ok) /\ Interrupted(t) /\ run.exists
    <3>1. Fail(t) => UNCHANGED dangling
      BY DEF Fail, Abandon, history
    <3>2. ~Prepare(t) /\ ~FailStart(t) /\ ~\E kind \in Kinds : Send(t, kind)
      BY <1>2, <2>1, <3>1 DEF Prepare, Claim, Refuse, Open, Announce, Announced, FailDone, Abandon, Probe, Launch, FailStart,
         Send, history
    <3>3. ~(\E ending \in Endings : EndTurn(t, ending)) /\ ~Finalize(t) /\ ~Patch(t)
          /\ ~\E ok \in BOOLEAN : RecordStatus(t, ok)
      BY <1>2, <2>1 DEF EndTurn, Finalize, Patch, RecordStatus, history
    <3>4. PICK ok \in BOOLEAN : TerminalEvent(t, ok)
      BY <3>2, <3>3 DEF TurnStep, Settle
    <3>5. Interrupted(t) /\ run.exists
      BY <1>2, <2>1, <3>4 DEF TerminalEvent
    <3> QED
      BY <3>4, <3>5
  <2>2. ASSUME NEW ok \in BOOLEAN, TerminalEvent(t, ok), Interrupted(t), run.exists PROVE CutsAreRunning'
    <3>1. turn[t].stage = "ended" /\ turn[t].ending = "cancelled" /\ ~stopsRequested /\ run' = run
      BY <2>2 DEF TerminalEvent, Interrupted
    <3>2. "stop" \notin turn[t].asks
      BY <3>1, Words DEF StopIsOnRecord, Pressable
    <3>3. reg'.shuttingDown
      BY <1>0, <3>1, <3>2, TurnRest DEF CutByStopOrDrain
    <3>4. turn[t].row = FALSE
      BY <1>0, <3>1 DEF RowOrRunning, TypeOK, Turn
    <3>5. SaysRunning'
      BY <1>0, <2>2, <3>1, <3>4, Words DEF RowOrRunning, RunningStages, SaysRunning
    <3>6. turn'[t].stage = "drained" /\ turn'[t].result = "seen"
      BY <2>2, EventCourse
    <3>7. \A u \in Turns \ {t} : turn'[u] = turn[u] /\ turn[u].stage \notin {"live"} \cup Starting \cup Settling
      BY <3>1, TurnRest, Words DEF Others, StopIsOnRecord
    <3> QED
      BY <3>3, <3>5, <3>6, <3>7 DEF CutsAreRunning
  <2> QED
    BY <2>1, <2>2 DEF CutsAreRunning
<1> QED
  BY <1>1, <1>2

\* The end of the daemon leaves what it cut off `running`, and the boot closes it.
LEMMA CutsOthers ==
  ASSUME TypeOK, StopsOnly, CutsAreClosed, RequestStep \/ DaemonStep \/ UNCHANGED vars
  PROVE  CutsAreRunning'
<1> USE DEF StageOf, Unfinished
<1>0. Quiet /\ RowOrRunning /\ CutsAreRunning
  BY DEF CutsAreClosed
<1>1. ASSUME Standing, run'.exists = run.exists, run'.status = run.status, dangling' = dangling, up' = up,
             reg.shuttingDown => reg'.shuttingDown
      PROVE  CutsAreRunning'
  <2>1. \A u \in Turns : turn'[u].stage = turn[u].stage /\ turn'[u].result = turn[u].result
    BY <1>1 DEF Standing, SameOutcome
  <2> QED
    BY <1>0, <1>1, <2>1 DEF CutsAreRunning, SaysRunning
<1>2. CASE RequestStep
  BY <1>0, <1>1, <1>2, OnlyStops
<1>3. CASE Down
  <2>1. up' = FALSE /\ run' = run /\ dangling' = (dangling \/ (run.exists /\ \E t \in Turns : Cut(t)))
    BY <1>3 DEF Down
  <2>2. ASSUME run.exists, NEW t \in Turns, Cut(t) PROVE SaysRunning
    BY <1>0, <2>2 DEF Cut, RowOrRunning, RunningStages, SaysRunning
  <2> QED
    BY <1>0, <2>1, <2>2 DEF CutsAreRunning, SaysRunning
<1>4. CASE Boot
  <2>1. dangling' = (dangling /\ ~LeftRunning)
    BY <1>4 DEF Boot
  <2> QED
    BY <1>0, <2>1 DEF CutsAreRunning, LeftRunning, SaysRunning
<1>5. CASE Quit \/ Drain \/ DrainDeadline
  <2>1. ~Down /\ DaemonStep
    BY <1>5 DEF DaemonStep, Quit, Drain, DrainDeadline, Down, TypeOK
  <2>2. run' = run /\ dangling' = dangling /\ up' = up
    BY <1>5 DEF Quit, Drain, DrainDeadline, history
  <2>3. reg.shuttingDown => reg'.shuttingDown
    BY <1>5 DEF Quit, Drain, DrainDeadline, Draining, Drained, TypeOK, Registry
  <2> QED
    BY <1>1, <2>1, <2>2, <2>3, DaemonCourse
<1>6. CASE UNCHANGED vars
  BY <1>1, <1>6, CloseCourse DEF vars, history
<1> QED
  BY <1>2, <1>3, <1>4, <1>5, <1>6 DEF DaemonStep

\* Whatever a crash or a shutdown cut off has a terminal row once the daemon is up
\* again, when the requests are Stops of a turn that holds the slot and no message
\* overtakes a finalizer; each of the four others breaks it.
THEOREM BootsCloseTheTranscript ==
  ASSUME StopsOnly
  PROVE  Spec => []BootClosesTheTranscript
<1>0. "overtake" \notin Happenings
  BY DEF StopsOnly
<1>1. Init => CutsAreClosed
  <2> SUFFICES ASSUME Init PROVE CutsAreClosed
    OBVIOUS
  <2>1. \A u \in Turns : turn[u].stage = "none" /\ turn[u].asks = {} /\ turn[u].row = FALSE
    BY DEF Init, NoTurn
  <2>2. /\ stop.phase = Idle /\ archive = Idle /\ deletion.phase = Idle
        /\ ~reg.shuttingDown /\ ~dangling /\ up
    BY DEF Init, NoStop, NoDeletion, EmptyRegistry
  <2> QED
    BY <2>1, <2>2, Words DEF CutsAreClosed, Quiet, CutByStopOrDrain, RowOrRunning, RunningStages, CutsAreRunning, StageOf
<1>2. CutsAreClosed /\ StopIsOnRecord /\ SoundSlot /\ SoundSlot' /\ TypeOK /\ [Next]_vars => CutsAreClosed'
  <2> SUFFICES ASSUME CutsAreClosed, StopIsOnRecord, SoundSlot, SoundSlot', TypeOK, [Next]_vars
               PROVE  CutsAreClosed'
    OBVIOUS
  <2>1. Quiet /\ CutByStopOrDrain /\ RowOrRunning
    BY DEF CutsAreClosed
  <2>2. Quiet'
    BY <2>1, QuietStep
  <2>3. (\E t \in Turns : TurnStep(t)) \/ RequestStep \/ DaemonStep \/ UNCHANGED vars
    BY DEF Next, TurnStep, RequestStep, DaemonStep
  <2>4. CutByStopOrDrain'
    BY <2>1, <2>3, CutTurns, CutOthers
  <2>5. RowOrRunning'
    BY <2>1, <2>3, RowTurns, RowOthers
  <2>6. CutsAreRunning'
    BY <2>3, CutsTurns, CutsOthers
  <2> QED
    BY <2>2, <2>4, <2>5, <2>6 DEF CutsAreClosed
<1>3. CutsAreClosed => BootClosesTheTranscript
  BY DEF CutsAreClosed, Quiet, CutsAreRunning, BootClosesTheTranscript
<1>4. Spec => []StopIsOnRecord
  BY <1>0, RecordIsSound
<1> QED
  BY <1>1, <1>2, <1>3, <1>4, TypeCorrect, SlotIsSound, PTL DEF Spec
=============================================================================
