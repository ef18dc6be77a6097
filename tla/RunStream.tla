----------------------------- MODULE RunStream -----------------------------
(***************************************************************************)
(* One client's transcript of the run: DaemonClient's socket and rooms,    *)
(* activateRun's join-then-read, useRunStream's window and replay cursor.  *)
(* Rows come live over the socket and by HTTP reads of the database; both  *)
(* go through ingest, which merges.  The window is at the conversation's   *)
(* tail, and one page holds the run.                                       *)
(***************************************************************************)
EXTENDS ItemSeq

CONSTANTS
  NoAnswer      \* no read under way

VARIABLES
  link,         \* the socket: down, up, in the run's room, acknowledged
  wire,         \* what the gateway emitted to it and has not arrived
  opening,      \* activateRun: "closed", "joining", "fetching", "open"
  shown,        \* items: the rows in the window
  lastSeq,      \* lastSeqRef: the newest number taken in
  cursor,       \* reconnectAfterSeqRef
  rejoining,    \* the socket is back, its reconnect listeners wait for the join
  history,      \* the rows activateRun's read brought, or NoAnswer
  replay,       \* the reconnect's read: asked from a cursor, or its rows
  passed        \* history: the rows published, and those a greater one came before

streamVars == <<link, wire, opening, shown, lastSeq, cursor, rejoining, history, replay, passed>>

Ack == -1       \* the gateway's `joined` on the wire, between row numbers
NoReplay == [at |-> "none", from |-> -1, rows |-> {}]

StreamInit ==
  /\ link = "up"
  /\ wire = <<>>
  /\ opening = "closed"
  /\ shown = {}
  /\ lastSeq = -1
  /\ cursor = -1
  /\ rejoining = FALSE
  /\ history = NoAnswer
  /\ replay = NoReplay
  /\ passed = [published |-> {}, late |-> {}]

Newest(rows) == CHOOSE n \in rows : \A m \in rows : m <= n

\* ingest, for a set of rows.
Ingested(rows) ==
  /\ shown' = shown \cup rows
  /\ lastSeq' = Newest(rows \cup {lastSeq})

\* bus.publish: the gateway emits the row to the run's room.
Published(n) ==
  /\ wire' = IF link \in {"room", "joined"} THEN Append(wire, n) ELSE wire
  /\ passed' = [published |-> passed.published \cup {n},
                late |-> passed.late \cup {m \in disk \ passed.published : m < n}]
  /\ UNCHANGED <<link, opening, shown, lastSeq, cursor, rejoining, history, replay>>

\* A row reached the disk (nobody is told yet).
Landed(n) ==
  /\ passed' = IF \E m \in disk : m > n
               THEN [passed EXCEPT !.late = @ \cup {n}] ELSE passed
  /\ UNCHANGED <<link, wire, opening, shown, lastSeq, cursor, rejoining, history, replay>>

\* activateRun: join first, so that rows published during the read arrive too.
OpenRun ==
  /\ opening = "closed"
  /\ ~gone
  /\ opening' = "joining"
  /\ UNCHANGED <<link, wire, shown, lastSeq, cursor, rejoining, history, replay, passed>>

\* The gateway's join handler: into the room...
JoinRoom ==
  /\ link = "up"
  /\ opening # "closed"
  /\ link' = "room"
  /\ UNCHANGED <<wire, opening, shown, lastSeq, cursor, rejoining, history, replay, passed>>

\* ...and the answer, which rows may overtake.
AnswerJoin ==
  /\ link = "room"
  /\ link' = "joined"
  /\ wire' = Append(wire, Ack)
  /\ UNCHANGED <<opening, shown, lastSeq, cursor, rejoining, history, replay, passed>>

\* (mutant) the cursor follows the rows that come live
ReplayFrom_Newest == lastSeq
\* The newest row the client had when its socket went.
ReplayFrom == cursor

\* `joined` arrives: the open goes on to its read, a reconnect to its replay.
Joined ==
  /\ wire # <<>>
  /\ Head(wire) = Ack
  /\ wire' = Tail(wire)
  /\ opening' = IF opening = "joining" THEN "fetching" ELSE opening
  /\ replay' = IF rejoining THEN [NoReplay EXCEPT !.at = "asked", !.from = ReplayFrom] ELSE replay
  /\ rejoining' = FALSE
  /\ UNCHANGED <<link, shown, lastSeq, cursor, history, passed>>

\* A row arrives live.
Arrive ==
  /\ wire # <<>>
  /\ Head(wire) # Ack
  /\ wire' = Tail(wire)
  /\ Ingested({Head(wire)})
  /\ UNCHANGED <<link, opening, cursor, rejoining, history, replay, passed>>

\* The join was not answered: the thread is read all the same.
JoinGivesUp ==
  /\ opening = "joining"
  /\ link = "down"
  /\ opening' = "fetching"
  /\ UNCHANGED <<link, wire, shown, lastSeq, cursor, rejoining, history, replay, passed>>

\* activateRun's read of the newest page.
ReadHistory ==
  /\ opening = "fetching"
  /\ history = NoAnswer
  /\ history' = disk
  /\ UNCHANGED <<link, wire, opening, shown, lastSeq, cursor, rejoining, replay, passed>>

ShowHistory ==
  /\ history # NoAnswer
  /\ Ingested(history)
  /\ cursor' = lastSeq'
  /\ opening' = "open"
  /\ history' = NoAnswer
  /\ UNCHANGED <<link, wire, rejoining, replay, passed>>

\* listRunItems past the cursor; without a cursor, the newest page.
ReadReplay ==
  /\ replay.at = "asked"
  /\ replay' = [replay EXCEPT !.at = "read", !.rows = {n \in disk : n > replay.from}]
  /\ UNCHANGED <<link, wire, opening, shown, lastSeq, cursor, rejoining, history, passed>>

ShowReplay ==
  /\ replay.at = "read"
  /\ Ingested(replay.rows)
  /\ replay' = NoReplay
  /\ UNCHANGED <<link, wire, opening, cursor, rejoining, history, passed>>

\* Whether the last reconnect has brought back what it missed.
ReplayIsOver == ~rejoining /\ replay = NoReplay

\* The socket is gone with what was on the wire; waiting joins are rejected.
Dropped ==
  /\ link' = "down"
  /\ wire' = <<>>
  /\ cursor' = lastSeq
  /\ rejoining' = FALSE
  /\ opening' = IF opening = "joining" THEN "fetching" ELSE opening
  /\ UNCHANGED <<shown, lastSeq, history, replay, passed>>

\* "redrop": the connection may also break while rows are being caught up
\* with: again before the reconnect has replayed, or with the thread's read
\* outstanding over the reconnect, whose cursor the read then moves.
Drop ==
  /\ "drop" \in Happenings
  /\ link # "down"
  /\ ReplayIsOver \/ "redrop" \in Happenings
  /\ Dropped

\* The socket is back; the rooms it held are joined again.
Connect ==
  /\ link = "down"
  /\ opening \in {"closed", "open"} \/ "redrop" \in Happenings
  /\ link' = "up"
  /\ rejoining' = (opening # "closed")
  /\ UNCHANGED <<wire, opening, shown, lastSeq, cursor, history, replay, passed>>

StreamStep ==
  \/ OpenRun \/ JoinRoom \/ AnswerJoin \/ Joined \/ Arrive \/ JoinGivesUp
  \/ ReadHistory \/ ShowHistory \/ ReadReplay \/ ShowReplay
  \/ Drop \/ Connect

----------------------------------------------------------------------------

\* The client waits for nothing: it is connected, joined, and no row is on
\* its way to it.
CaughtUp ==
  /\ opening = "open"
  /\ link = "joined"
  /\ wire = <<>>
  /\ ReplayIsOver
  /\ \A w \in Writers : writer[w].at # "inserted"

\* A client that opened the run, at whatever moment, and lost its socket any
\* number of times shows every row that came in order.
InOrderRowsAreShown == CaughtUp => disk \ passed.late \subseteq shown

\* persist-item.ts: "a reconnecting client can replay everything it missed".
ReplayMissesNothing == CaughtUp => disk \subseteq shown

============================================================================
