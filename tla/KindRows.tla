------------------------------ MODULE KindRows ------------------------------
(***************************************************************************)
(* RunKindRowsCache for one run and one view: rows read once, then only    *)
(* past the mark already read, shared by every reader that asks meanwhile. *)
(* Rows are their numbers; the view keeps all of them.                     *)
(***************************************************************************)
EXTENDS ItemSeq

CONSTANTS
  Readers,      \* requests that read the view
  ReadWindow,   \* READ_WINDOW_SEQS
  Nothing       \* no kept rows, no read under way

ASSUME WindowAssumption == ReadWindow \in Nat \ {0}

VARIABLES
  held,         \* held: the rows kept and the mark they reach, or Nothing
  reading,      \* reading: the catchUp() under way, or Nothing
  reader,       \* each request: what it asked for, where it waits, what it got
  announced     \* the bus was told that the run is deleted

kindVars == <<held, reading, reader, announced>>

NoRows == [through |-> -1, rows |-> {}]

\* What a request may ask for: rows at least up to a mark, or nothing older
\* than the request itself.
Fresh == -2
Away == [at |-> "away", need |-> -1, floor |-> -1, rows |-> {}]

KindInit ==
  /\ held = Nothing
  /\ reading = Nothing
  /\ reader = [r \in Readers |-> Away]
  /\ announced = FALSE

\* catchUp, to its first await. `kept` says whether it may keep what it reads:
\* deletionEpoch has not moved since.
StartRead == [at |-> "indexing", base |-> NoRows, max |-> -1, from |-> -1,
              through |-> -1, added |-> {}, kept |-> TRUE]

\* rowsOfView: join the read under way, or start one.
Enter(rs, r) ==
  IF reading = Nothing
  THEN /\ reading' = StartRead
       /\ reader' = [rs EXCEPT ![r].at = "own"]
  ELSE /\ reader' = [rs EXCEPT ![r].at = "joined"]
       /\ UNCHANGED reading

\* A request asks. Its floor is what the answer must cover: a mark the caller
\* read from the allocator, or everything settled when it asked.
Ask(r, need) ==
  /\ ~gone
  /\ reader[r].at = "away"
  /\ need = Fresh \/ need <= WrittenThrough(MaxOnDisk)
  /\ LET floor == IF need = Fresh THEN WrittenThrough(MaxOnDisk) ELSE need
     IN  Enter([reader EXCEPT ![r] = [Away EXCEPT !.need = need, !.floor = floor]], r)
  /\ UNCHANGED held

\* The call index is complete: what is kept is taken out of the cache, and
\* the run's newest number is asked for.
TakeHeld ==
  /\ reading # Nothing
  /\ reading.at = "indexing"
  /\ reading' = [reading EXCEPT !.at = "asking", !.base = IF held = Nothing THEN NoRows ELSE held]
  /\ held' = Nothing
  /\ UNCHANGED reader

\* The database answers with the newest number...
ReadMax ==
  /\ reading # Nothing
  /\ reading.at = "asking"
  /\ reading' = [reading EXCEPT !.at = "measuring", !.max = MaxOnDisk]
  /\ UNCHANGED <<held, reader>>

\* (mutant) the newest row is taken for the end
Mark_Newest == reading.max
\* How far the run may be taken as read.
Mark == WrittenThrough(reading.max)

\* ...and the code goes on, with the reservations as they are by then.
TakeMark ==
  /\ reading # Nothing
  /\ reading.at = "measuring"
  /\ reading' = [reading EXCEPT !.at = "reading", !.from = reading.base.through,
                                !.through = Mark]
  /\ UNCHANGED <<held, reader>>

\* One window of rows.
ReadRows ==
  /\ reading # Nothing
  /\ reading.at = "reading"
  /\ reading.from < reading.through
  /\ LET to == Least({reading.from + ReadWindow, reading.through})
     IN  reading' = [reading EXCEPT !.from = to,
                       !.added = @ \cup {n \in disk : reading.from < n /\ n <= to}]
  /\ UNCHANGED <<held, reader>>

\* (mutant) a fresh ask takes the answer of the read it joined
Suffices_Joined(answer, need) == need = Fresh \/ answer.through >= need
\* Whether a joined request takes the answer of another's read.
Suffices(answer, need) == need # Fresh /\ answer.through >= need

\* The read's answer reaches those who wait on it: the one that started it
\* takes it, a joined one takes it if it reaches far enough, and asks again
\* otherwise. Asking again for a fresh read is an ordinary ask.
Answered(answer) ==
  [r \in Readers |->
    CASE reader[r].at = "own" -> [reader[r] EXCEPT !.at = "served", !.rows = answer.rows]
      [] reader[r].at = "joined" ->
           IF Suffices(answer, reader[r].need)
           THEN [reader[r] EXCEPT !.at = "served", !.rows = answer.rows]
           ELSE [reader[r] EXCEPT !.at = "again",
                                  !.need = IF @ = Fresh THEN -1 ELSE @]
      [] OTHER -> reader[r]]

\* catchUp returns: the rows are kept, unless some run was deleted meanwhile.
FinishRead ==
  /\ reading # Nothing
  /\ reading.at = "reading"
  /\ reading.from >= reading.through
  /\ LET answer == IF reading.through > reading.base.through
                   THEN [through |-> reading.through,
                         rows |-> reading.base.rows \cup reading.added]
                   ELSE reading.base
     IN  /\ reader' = Answered(answer)
         /\ held' = IF reading.kept THEN answer ELSE held
  /\ reading' = Nothing

\* A read fails: whoever waits gets the error, except those who wanted a
\* fresh one and only waited for this one to be over.
FailRead ==
  /\ "dbfail" \in Happenings
  /\ reading # Nothing
  /\ reading' = Nothing
  /\ reader' = [r \in Readers |->
       CASE reader[r].at = "own" -> Away
         [] reader[r].at = "joined" ->
              IF reader[r].need = Fresh THEN [reader[r] EXCEPT !.at = "again", !.need = -1] ELSE Away
         [] OTHER -> reader[r]]
  /\ UNCHANGED held

\* The callbacks of the read that ended run one after the other.
AskAgain(r) ==
  /\ reader[r].at = "again"
  /\ Enter(reader, r)
  /\ UNCHANGED held

\* The caller is done with its rows.
Leave(r) ==
  /\ reader[r].at = "served"
  /\ reader' = [reader EXCEPT ![r] = Away]
  /\ UNCHANGED <<held, reading>>

\* The cache is over its size and another view is in use.
Evict ==
  /\ held # Nothing
  /\ held' = Nothing
  /\ UNCHANGED <<reading, reader>>

\* bus.allDeleted, told once the run's rows are destroyed: what is kept of
\* them is dropped, and reads under way keep none.
RunDeleted ==
  /\ gone
  /\ ~announced
  /\ announced' = TRUE
  /\ held' = Nothing
  /\ reading' = IF reading = Nothing THEN Nothing ELSE [reading EXCEPT !.kept = FALSE]
  /\ UNCHANGED reader

\* A new launch starts with an empty cache; the requests died with the old.
KindRestart ==
  /\ held' = Nothing
  /\ reading' = Nothing
  /\ reader' = [r \in Readers |-> Away]
  /\ UNCHANGED announced

\* What the cache does by itself.
Reading ==
  \/ \E r \in Readers : \/ \E need \in {Fresh, -1} \cup disk : Ask(r, need)
                        \/ AskAgain(r)
                        \/ Leave(r)
  \/ TakeHeld \/ ReadMax \/ TakeMark \/ ReadRows \/ FinishRead \/ FailRead
  \/ Evict

KindStep == (Reading /\ UNCHANGED announced) \/ RunDeleted

----------------------------------------------------------------------------

\* What is kept is all there is: no row at or below the mark is missing, so
\* reading on from the mark never skips one for good, whatever was reserved,
\* in flight or failed when the mark was taken; and once the deletion of the
\* run is announced none of its rows is kept, also by a read under way.
KeptRowsAreComplete ==
  held # Nothing /\ (gone => announced) => held.rows = {n \in disk : n <= held.through}

\* An answer covers what was asked, also one that was read for somebody else:
\* the rows up to the caller's mark, or up to the moment of a fresh ask.
AnswersReachTheirAsk ==
  ~gone => \A r \in Readers :
    reader[r].at = "served" => {n \in disk : n <= reader[r].floor} \subseteq reader[r].rows

============================================================================
