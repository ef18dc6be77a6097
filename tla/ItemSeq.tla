------------------------------ MODULE ItemSeq ------------------------------
(***************************************************************************)
(* The numbers of one run's rows: ItemSeqAllocator and the insert seam     *)
(* persistItemAndEmit, as the run's concurrent writers use them (a turn's  *)
(* chain, an HTTP handler, a pass of a team and the passes before it).     *)
(*                                                                         *)
(* A number is reserved, its row inserted, the reservation settled, the    *)
(* row published; other writers run between any two of these.  The         *)
(* database is read only to seed a run this launch has not written to.     *)
(* The run's life ends at its teardown: what a straggler writes after that *)
(* is the orphan row of ChatTurn.                                          *)
(***************************************************************************)
EXTENDS Integers, Sequences, FiniteSets

CONSTANTS
  Writers,      \* the promise chains that write rows of the run
  Counts,       \* how many numbers one reserve may ask for
  MaxSeq,       \* bound of the model: no number beyond it is reserved
  Unseeded,     \* tails.get(runId) = undefined
  Happenings    \* which of "dbfail", "restart", "destroy" an instance includes

ASSUME CountsAssumption == Counts \subseteq Nat \ {0}
ASSUME UnseededAssumption == Unseeded \notin Int

VARIABLES
  tail,         \* tails: the highest number reserved, or Unseeded
  chain,        \* chains: the writers whose allocate() has not settled, in order
  seed,         \* what the first of them read from the database, or Unseeded
  unwritten,    \* unwritten: reserved, neither written nor given up on
  writer,       \* each writer: the await it is at, the numbers it holds
  disk,         \* the numbers of the rows in the database
  gone          \* the run was torn down

seqVars == <<tail, chain, seed, unwritten, writer, disk, gone>>

\* A writer with nothing reserved.
Idle == [at |-> "idle", count |-> 0, mine |-> {}]

Least(S) == CHOOSE n \in S : \A m \in S : n <= m

\* (mutant) the rows are counted
MaxOnDisk_Counts == Cardinality(disk) - 1
\* What ItemDao.maxSeq answers: -1 for a run without rows.
MaxOnDisk == CHOOSE n \in disk \cup {-1} : \A m \in disk \cup {-1} : m <= n

\* The highest number at or below max with every number below it written.
WrittenThrough(max) ==
  Least({max} \cup {n - 1 : n \in {m \in unwritten : m <= max}})

SeqInit ==
  /\ disk = {}
  /\ tail = Unseeded
  /\ chain = <<>>
  /\ seed = Unseeded
  /\ unwritten = {}
  /\ writer = [w \in Writers |-> Idle]
  /\ gone = FALSE

----------------------------------------------------------------------------
(* ItemSeqAllocator                                                        *)

\* reserve: the call joins the run's chain, whatever becomes of those before.
Reserve(w, count) ==
  /\ ~gone
  /\ writer[w].at = "idle"
  /\ writer' = [writer EXCEPT ![w] = [Idle EXCEPT !.at = "waiting", !.count = count]]
  /\ chain' = Append(chain, w)
  /\ UNCHANGED <<tail, seed, unwritten, disk, gone>>

\* allocate, its one await: the tail is unknown, the database is asked.
ReadSeed ==
  /\ chain # <<>>
  /\ tail = Unseeded
  /\ seed = Unseeded
  /\ seed' = MaxOnDisk
  /\ UNCHANGED <<tail, chain, unwritten, writer, disk, gone>>

\* The read fails: its caller sees the error, the next one asks again.
SeedFails ==
  /\ "dbfail" \in Happenings
  /\ chain # <<>>
  /\ tail = Unseeded
  /\ seed = Unseeded
  /\ writer' = [writer EXCEPT ![Head(chain)] = Idle]
  /\ chain' = Tail(chain)
  /\ UNCHANGED <<tail, seed, unwritten, disk, gone>>

\* (mutant) every call counts on from the newest row, as before the allocator
Base_FromDisk == MaxOnDisk
\* What a reservation counts on from.
Base == IF tail # Unseeded THEN tail ELSE seed

\* (mutant) the newest number is handed out again
Numbers_FromBase(count) == Base .. Base + count - 1
Numbers(count) == Base + 1 .. Base + count

\* allocate, from the tail or from the seed to its return.
Allocate ==
  /\ chain # <<>>
  /\ tail # Unseeded \/ seed # Unseeded
  /\ LET w    == Head(chain)
         mine == Numbers(writer[w].count)
     IN  /\ mine \subseteq -1 .. MaxSeq
         /\ tail' = Base + writer[w].count
         /\ unwritten' = unwritten \cup mine
         /\ writer' = [writer EXCEPT ![w].at = "holding", ![w].mine = mine]
  /\ chain' = Tail(chain)
  /\ seed' = Unseeded
  /\ UNCHANGED <<disk, gone>>

\* A reservation nobody will write is a minute old and holds nothing back.
\* A writer that still means to write is never that late.
Abandon(n) ==
  /\ n \in unwritten
  /\ \A w \in Writers : n \notin writer[w].mine
  /\ unwritten' = unwritten \ {n}
  /\ UNCHANGED <<tail, chain, seed, writer, disk, gone>>

----------------------------------------------------------------------------
(* persistItemAndEmit                                                      *)

\* The insert commits.
Insert(w) ==
  /\ writer[w].at = "holding"
  /\ disk' = disk \cup {Least(writer[w].mine)}
  /\ writer' = [writer EXCEPT ![w].at = "inserted"]
  /\ UNCHANGED <<tail, chain, seed, unwritten, gone>>

\* The call returns: the number is settled, the row published, and the rest
\* of the burst is next.
Settle(w) ==
  /\ writer[w].at = "inserted"
  /\ LET n    == Least(writer[w].mine)
         rest == writer[w].mine \ {n}
     IN  /\ unwritten' = unwritten \ {n}
         /\ writer' = [writer EXCEPT ![w] =
              IF rest = {} THEN Idle
              ELSE [at |-> "holding", count |-> writer[w].count, mine |-> rest]]
  /\ UNCHANGED <<tail, chain, seed, disk, gone>>

\* The insert fails: the number is settled all the same, and the error ends
\* the writer's burst.
InsertFails(w) ==
  /\ "dbfail" \in Happenings
  /\ writer[w].at = "holding"
  /\ unwritten' = unwritten \ {Least(writer[w].mine)}
  /\ writer' = [writer EXCEPT ![w] = Idle]
  /\ UNCHANGED <<tail, chain, seed, disk, gone>>

\* The writer fails between reserving and the insert seam.
NeverWrites(w) ==
  /\ "dbfail" \in Happenings
  /\ writer[w].at = "holding"
  /\ writer' = [writer EXCEPT ![w] = Idle]
  /\ UNCHANGED <<tail, chain, seed, unwritten, disk, gone>>

GiveUp(w) == InsertFails(w) \/ NeverWrites(w)

----------------------------------------------------------------------------
(* The daemon and the run                                                  *)

ForgetAll ==
  /\ tail' = Unseeded
  /\ chain' = <<>>
  /\ seed' = Unseeded
  /\ unwritten' = {}
  /\ writer' = [w \in Writers |-> Idle]

\* The daemon dies and a new launch starts from what was committed.
Restart ==
  /\ "restart" \in Happenings
  /\ ForgetAll
  /\ UNCHANGED <<disk, gone>>

\* RunTeardownService: the allocator forgets the run and its rows are deleted.
Destroy ==
  /\ "destroy" \in Happenings
  /\ ~gone
  /\ gone' = TRUE
  /\ disk' = {}
  /\ ForgetAll

----------------------------------------------------------------------------

\* Steps of the allocator that nobody outside it sees.
Allocating ==
  \/ \E w \in Writers, count \in Counts : Reserve(w, count)
  \/ ReadSeed
  \/ SeedFails
  \/ Allocate
  \/ \E n \in unwritten : Abandon(n)

SeqNext ==
  \/ Allocating
  \/ \E w \in Writers : Insert(w) \/ Settle(w) \/ GiveUp(w)
  \/ Restart
  \/ Destroy

SeqSpec == SeqInit /\ [][SeqNext]_seqVars

----------------------------------------------------------------------------

\* The shape of the allocator's state and of its writers'.
SeqTypeOK ==
  /\ tail \in Nat \cup {Unseeded}
  /\ seed \in Nat \cup {-1, Unseeded}
  /\ chain \in Seq(Writers)
  /\ unwritten \subseteq Nat
  /\ disk \subseteq Nat
  /\ gone \in BOOLEAN
  /\ writer \in [Writers -> [at : {"idle", "waiting", "holding", "inserted"},
                             count : Nat, mine : SUBSET Nat]]

\* What a writer still has to write.
Pending(w) ==
  IF writer[w].at = "inserted"
  THEN writer[w].mine \ {Least(writer[w].mine)} ELSE writer[w].mine

\* Two rows of a run never share a number: what a writer is about to write is
\* on no row and in no other writer's hands, across failures, restarts and
\* bursts (the defect the allocator was written against).
NumbersAreUnique ==
  \A w \in Writers :
    /\ Pending(w) \cap disk = {}
    /\ \A v \in Writers \ {w} : writer[w].mine \cap writer[v].mine = {}

\* The allocator's three maps and their awaits amount to one atomic counter
\* per run, across failures, restarts and the run's deletion: a writer never
\* sees that a reservation queues, reads the database or fails half-way.
LedgerOf == INSTANCE Ledger WITH
  top     <- IF gone THEN -1 ELSE IF tail = Unseeded THEN MaxOnDisk ELSE tail,
  out     <- UNION {Pending(w) : w \in Writers},
  written <- disk,
  closed  <- gone

ImplementsLedger == LedgerOf!Spec

============================================================================
