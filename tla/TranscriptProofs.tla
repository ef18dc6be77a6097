-------------------------- MODULE TranscriptProofs --------------------------
(***************************************************************************)
(* For any number of writers and readers, bursts and windows of any size,  *)
(* whatever fails, restarts or is deleted: what the cache keeps and        *)
(* answers misses no row, and a client shows every row that came in order, *)
(* since one that is not shown is on its way, or a read that brings it is. *)
(***************************************************************************)
EXTENDS Transcript, ItemSeqProofs, WellFoundedInduction

Marks == Nat \cup {-1}
Kept == [through : Marks, rows : SUBSET Nat]
Reads == [at : {"indexing", "asking", "measuring", "reading"}, base : Kept, max : Marks,
          from : Marks, through : Marks, added : SUBSET Nat, kept : BOOLEAN]
Requests == [at : {"away", "own", "joined", "again", "served"}, need : Marks \cup {Fresh},
             floor : Marks, rows : SUBSET Nat]

Upto(m) == {n \in disk : n <= m}

\* No row will ever come at or below a solid mark: what is reserved is above
\* it, and so is what will be, as something on disk is not below it.
Below(m) == m = -1 \/ \E n \in disk : m <= n
Solid(m) == Below(m) /\ \A n \in unwritten : m < n

Whole(kept) == Solid(kept.through) /\ kept.rows = Upto(kept.through)

KindType ==
  /\ held # Nothing => held \in Kept
  /\ reading # Nothing => reading \in Reads
  /\ reader \in [Readers -> Requests]
  /\ announced \in BOOLEAN

HandsUnwritten == \A w \in Writers : writer[w].mine \subseteq unwritten

\* The time between a deletion and its announcement, when nothing is claimed.
Telling == gone /\ ~announced

HeldIsSound == held # Nothing /\ ~Telling => Whole(held)

\* The read under way: its mark is no mark yet, or solid, and it has
\* everything up to where it is.
ReadIsSound ==
  reading # Nothing /\ ~Telling /\ reading.kept =>
    /\ reading.at # "indexing" => Whole(reading.base)
    /\ reading.at # "reading" => reading.added = {}
    /\ reading.at = "measuring" => Below(reading.max)
    /\ reading.at = "reading" =>
         /\ Solid(reading.through) /\ Solid(reading.from)
         /\ reading.from <= reading.through \/ reading.from = reading.base.through
         /\ reading.base.rows \cup reading.added = Upto(reading.from)

\* A read under way will cover a mark.
WillCover(m) ==
  reading # Nothing =>
    /\ reading.at = "measuring" => m <= reading.max
    /\ reading.at = "reading" => m <= reading.through \/ m <= reading.base.through

RequestIsSound(r) ==
  /\ reader[r].at # "away" => Solid(reader[r].floor)
  /\ reader[r].at = "own" => WillCover(reader[r].floor)
  /\ reader[r].at = "joined" =>
       \/ reader[r].need \in {Fresh, reader[r].floor} \/ WillCover(reader[r].floor)
  /\ reader[r].at = "again" => reader[r].need = reader[r].floor \/ WillCover(reader[r].floor)
  /\ reader[r].at = "again" => reader[r].need # Fresh
  /\ reader[r].at = "served" => Upto(reader[r].floor) \subseteq reader[r].rows

RequestsAreSound == ~gone => \A r \in Readers : RequestIsSound(r)

DeletionIsSound ==
  /\ announced => gone
  /\ ~gone /\ reading # Nothing => reading.kept

KindSound ==
  /\ KindType /\ HandsUnwritten /\ HeldIsSound /\ ReadIsSound /\ RequestsAreSound
  /\ DeletionIsSound

----------------------------------------------------------------------------
(* Marks                                                                   *)

\* A set of numbers that is not empty has a least one.
LEMMA LeastExists ==
  ASSUME NEW S, S \subseteq Nat, S # {}
  PROVE  \E n \in S : \A m \in S : n <= m
<1> DEFINE R == OpToRel(<, Nat)
<1>1. \A x, y \in Nat : <<x, y>> \in R <=> x < y
  BY DEF OpToRel
<1>2. IsWellFoundedOn(R, Nat)
  BY NatLessThanWellFounded
<1>3. \E x \in S : \A y \in S : ~ (<<y, x>> \in R)
  <2> HIDE DEF R
  <2> QED
    BY <1>2, WFMin
<1> HIDE DEF R
<1>4. PICK x \in S : \A y \in S : ~ (<<y, x>> \in R)
  BY <1>3
<1>5. \A y \in S : x <= y
  <2> SUFFICES ASSUME NEW y \in S PROVE x <= y
    OBVIOUS
  <2>1. x \in Nat /\ y \in Nat
    OBVIOUS
  <2>2. ~(y < x)
    BY <1>1, <1>4, <2>1
  <2> QED
    BY <2>1, <2>2
<1> QED
  BY <1>5

\* A mark is at most the newest row, below everything reserved, and not below
\* what is below both.
LEMMA WrittenThroughIs ==
  ASSUME unwritten \subseteq Nat, NEW max \in Marks
  PROVE  /\ WrittenThrough(max) \in Marks
         /\ WrittenThrough(max) <= max
         /\ \A n \in unwritten : WrittenThrough(max) < n
         /\ \A m \in Marks : m <= max /\ (\A n \in unwritten : m < n) => m <= WrittenThrough(max)
<1> DEFINE S == {max} \cup {n - 1 : n \in {m \in unwritten : m <= max}}
           T == {n + 1 : n \in S}
<1>1. S \subseteq Marks /\ max \in S
  BY DEF Marks
<1>2. T \subseteq Nat /\ max + 1 \in T
  BY <1>1 DEF Marks
<1>3. PICK t \in T : \A u \in T : t <= u
  <2> HIDE DEF T
  <2> QED
    BY <1>2, LeastExists
<1>4. PICK n \in S : t = n + 1
  OBVIOUS
<1>5. n \in Marks /\ \A m \in S : n <= m
  <2> SUFFICES ASSUME NEW m \in S PROVE n <= m
    BY <1>1, <1>4
  <2>1. m + 1 \in T /\ m \in Marks /\ n \in Marks
    BY <1>1, <1>4
  <2> QED
    BY <1>3, <1>4, <2>1 DEF Marks
<1>6. WrittenThrough(max) = Least(S)
  BY DEF WrittenThrough
<1>7. Least(S) \in S /\ \A m \in S : Least(S) <= m
  <2> HIDE DEF S
  <2> QED
    BY <1>4, <1>5 DEF Least
<1>8. \A k \in unwritten : k <= max => k - 1 \in S
  OBVIOUS
<1> DEFINE l == Least(S)
<1>9. l \in Marks /\ l <= max /\ \A k \in unwritten : k <= max => l <= k - 1
  BY <1>1, <1>7, <1>8
<1>10. \A k \in unwritten : l < k
  <2> HIDE DEF l
  <2> QED
    BY <1>9 DEF Marks
<1>11. ASSUME NEW m \in Marks, m <= max, \A k \in unwritten : m < k
       PROVE  m <= l
  <2>1. \A k \in S : m <= k
    BY <1>11 DEF Marks
  <2> QED
    BY <1>7, <2>1
<1> QED
  BY <1>6, <1>9, <1>10, <1>11

\* The lesser of two numbers is one of them.
LEMMA LeastOfTwo ==
  ASSUME NEW a \in Int, NEW b \in Int
  PROVE  /\ Least({a, b}) \in {a, b}
         /\ Least({a, b}) <= a /\ Least({a, b}) <= b
<1>1. \E n \in {a, b} : \A m \in {a, b} : n <= m
  OBVIOUS
<1> QED
  BY <1>1 DEF Least
----------------------------------------------------------------------------
(* The writers' steps                                                      *)

\* The fields of a typed writer.
LEMMA SlotFields ==
  ASSUME SeqSound
  PROVE  /\ writer \in [Writers -> Slot] /\ unwritten \subseteq Nat /\ disk \subseteq Nat
         /\ \A w \in Writers : writer[w].mine \subseteq Nat
BY DEF SeqSound, SeqTypeOK, Slot

\* A writer that holds numbers holds a least one.
LEMMA HandHasLeast ==
  ASSUME SeqSound, NEW w \in Writers, Holds(w)
  PROVE  Least(writer[w].mine) \in writer[w].mine
<1>1. PICK a \in Nat, b \in Nat : a <= b /\ writer[w].mine = a .. b
  BY DEF SeqSound, HandsAreSound, HandIsSound
<1> QED
  BY <1>1, LeastOfInterval

\* What is handed out is above everything written.
LEMMA NumbersAbove ==
  ASSUME SeqSound, Allocate
  PROVE  /\ Head(chain) \in Writers /\ writer[Head(chain)].count \in Nat
         /\ Base \in Marks
         /\ \A n \in disk : n <= Base
         /\ \A n \in Numbers(writer[Head(chain)].count) : n \in Nat /\ Base < n
<1>1. chain \in Seq(Writers) /\ chain # <<>>
  BY DEF SeqSound, SeqTypeOK, Allocate
<1>2. Head(chain) \in Writers
  BY <1>1
<1>3. writer[Head(chain)].count \in Nat
  BY <1>2, SlotFields DEF Slot
<1>4. Base \in Marks /\ \A n \in disk : n <= Base
  <2>1. CASE tail # Unseeded
    BY <2>1 DEF Base, SeqSound, SeqTypeOK, TailIsSound, Marks
  <2>2. CASE tail = Unseeded
    <3>1. seed # Unseeded /\ seed = MaxOnDisk
      BY <2>2 DEF Allocate, SeqSound, TailIsSound
    <3>2. MaxOnDisk \in Marks /\ \A n \in disk : n <= MaxOnDisk
      BY SlotFields, NewestExists DEF SeqSound, TailIsSound, Marks
    <3> QED
      BY <2>2, <3>1, <3>2 DEF Base
  <2> QED
    BY <2>1, <2>2
<1>5. \A n \in Numbers(writer[Head(chain)].count) : n \in Nat /\ Base < n
  BY <1>3, <1>4 DEF Numbers, Marks
<1> QED
  BY <1>2, <1>3, <1>4, <1>5

\* What each kind of step does to the disk and to the reservations.
LEMMA DiskAndReservations ==
  ASSUME SeqSound, HandsUnwritten, [SeqNext]_seqVars, gone' = gone
  PROVE  /\ \/ disk' = disk
            \/ \E n \in unwritten : disk' = disk \cup {n}
         /\ \A n \in unwritten' : n \in unwritten \/ (n \in Nat /\ \A d \in disk : d < n)
<1>1. CASE UNCHANGED seqVars
  BY <1>1 DEF seqVars
<1>2. CASE Restart
  BY <1>2 DEF Restart, ForgetAll
<1>3. CASE Destroy
  BY <1>3 DEF Destroy
<1>4. CASE \E w \in Writers, count \in Counts : Reserve(w, count)
  BY <1>4 DEF Reserve
<1>5. CASE ReadSeed
  BY <1>5 DEF ReadSeed
<1>6. CASE SeedFails
  BY <1>6 DEF SeedFails
<1>7. CASE Allocate
  <2>1. /\ disk' = disk
        /\ unwritten' = unwritten \cup Numbers(writer[Head(chain)].count)
    BY <1>7 DEF Allocate
  <2>2. \A n \in Numbers(writer[Head(chain)].count) : n \in Nat /\ \A d \in disk : d < n
    BY <1>7, NumbersAbove, SlotFields DEF Marks
  <2> QED
    BY <2>1, <2>2
<1>8. CASE \E n \in unwritten : Abandon(n)
  BY <1>8 DEF Abandon
<1>9. ASSUME NEW w \in Writers, Insert(w)
      PROVE  disk' = disk \cup {Least(writer[w].mine)} /\ Least(writer[w].mine) \in unwritten
             /\ unwritten' = unwritten
  BY <1>9, HandHasLeast DEF Insert, Holds, HandsUnwritten
<1>10. ASSUME NEW w \in Writers, Settle(w) \/ GiveUp(w)
       PROVE  disk' = disk /\ unwritten' \subseteq unwritten
  BY <1>10 DEF Settle, GiveUp, InsertFails, NeverWrites
<1> QED
  BY <1>1, <1>2, <1>3, <1>4, <1>5, <1>6, <1>7, <1>8, <1>9, <1>10 DEF SeqNext, Allocating

\* What no reservation can come below stays so, and the rows up to a solid mark
\* are all there.
LEMMA SolidStays ==
  ASSUME SeqSound, HandsUnwritten, [SeqNext]_seqVars, gone' = gone, NEW m \in Marks
  PROVE  /\ Below(m) => Below(m)'
         /\ Solid(m) => Solid(m)' /\ Upto(m)' = Upto(m)
<1>0. disk \subseteq Nat /\ unwritten \subseteq Nat /\ m \in Int
  BY SlotFields DEF Marks
<1>1. disk \subseteq disk'
  BY DiskAndReservations
<1>2. Below(m) => Below(m)'
  BY <1>1 DEF Below
<1>3. ASSUME Solid(m)
      PROVE  Upto(m)' = Upto(m)
  BY <1>0, <1>3, DiskAndReservations DEF Solid, Upto
<1>4. ASSUME Solid(m), NEW n \in unwritten'
      PROVE  m < n
  <2>1. CASE n \in unwritten
    BY <1>4, <2>1 DEF Solid
  <2>2. CASE n \in Nat /\ \A d \in disk : d < n
    <3>1. CASE m = -1
      BY <2>2, <3>1
    <3>2. CASE \E d \in disk : m <= d
      BY <1>0, <2>2, <3>2
    <3> QED
      BY <1>4, <3>1, <3>2 DEF Solid, Below
  <2> QED
    BY <2>1, <2>2, DiskAndReservations
<1> QED
  BY <1>2, <1>3, <1>4 DEF Solid

\* A number that is held stays unwritten.
LEMMA HandsStay ==
  ASSUME SeqSound, HandsUnwritten, [SeqNext]_seqVars
  PROVE  HandsUnwritten'
<1>0. /\ writer \in [Writers -> Slot]
      /\ \A v, w \in Writers : v # w => writer[v].mine \cap writer[w].mine = {}
      /\ \A v \in Writers : writer[v].mine \subseteq unwritten
  BY SlotFields DEF SeqSound, NumbersAreUnique, HandsUnwritten
<1>1. CASE UNCHANGED seqVars
  BY <1>0, <1>1 DEF seqVars, HandsUnwritten
<1>2. CASE Restart \/ Destroy
  BY <1>2 DEF Restart, Destroy, ForgetAll, HandsUnwritten, Idle
<1>3. ASSUME NEW w \in Writers, NEW count \in Counts, Reserve(w, count)
      PROVE  HandsUnwritten'
  BY <1>0, <1>3 DEF Reserve, HandsUnwritten, Idle, Slot
<1>4. CASE ReadSeed
  BY <1>0, <1>4 DEF ReadSeed, HandsUnwritten
<1>5. CASE SeedFails
  BY <1>0, <1>5 DEF SeedFails, HandsUnwritten, Idle, Slot
<1>6. CASE Allocate
  <2> DEFINE w == Head(chain)
             mine == Numbers(writer[w].count)
  <2>1. /\ unwritten' = unwritten \cup mine
        /\ writer' = [writer EXCEPT ![w].at = "holding", ![w].mine = mine]
    BY <1>6 DEF Allocate
  <2>2. \A v \in Writers : writer'[v].mine = IF v = w THEN mine ELSE writer[v].mine
    <3> HIDE DEF mine, w
    <3> QED
      BY <1>0, <2>1 DEF Slot
  <2> QED
    BY <1>0, <2>1, <2>2 DEF HandsUnwritten
<1>7. ASSUME NEW n \in unwritten, Abandon(n)
      PROVE  HandsUnwritten'
  BY <1>0, <1>7 DEF Abandon, HandsUnwritten
<1>8. ASSUME NEW w \in Writers, Insert(w)
      PROVE  HandsUnwritten'
  BY <1>0, <1>8 DEF Insert, HandsUnwritten, Slot
<1>9. ASSUME NEW w \in Writers, Settle(w)
      PROVE  HandsUnwritten'
  <2> DEFINE n == Least(writer[w].mine)
             rest == writer[w].mine \ {n}
  <2>1. n \in writer[w].mine
    BY <1>9, HandHasLeast DEF Settle, Holds
  <2>2. /\ unwritten' = unwritten \ {n}
        /\ writer' = [writer EXCEPT ![w] = IF rest = {} THEN Idle
                        ELSE [at |-> "holding", count |-> writer[w].count, mine |-> rest]]
    BY <1>9 DEF Settle
  <2>3. \A v \in Writers : writer'[v].mine = IF v = w THEN rest ELSE writer[v].mine
    <3> HIDE DEF rest
    <3> QED
      BY <1>0, <2>2 DEF Idle
  <2> HIDE DEF n
  <2> QED
    BY <1>0, <2>1, <2>2, <2>3 DEF HandsUnwritten
<1>10. ASSUME NEW w \in Writers, GiveUp(w)
       PROVE  HandsUnwritten'
  <2>1. Holds(w)
    BY <1>10 DEF GiveUp, InsertFails, NeverWrites, Holds
  <2>2. Least(writer[w].mine) \in writer[w].mine
    BY <2>1, HandHasLeast
  <2>3. unwritten' = unwritten \/ unwritten' = unwritten \ {Least(writer[w].mine)}
    BY <1>10 DEF GiveUp, InsertFails, NeverWrites
  <2>4. \A v \in Writers : writer'[v].mine = IF v = w THEN {} ELSE writer[v].mine
    BY <1>0, <1>10 DEF GiveUp, InsertFails, NeverWrites, Idle
  <2> QED
    BY <1>0, <2>2, <2>3, <2>4 DEF HandsUnwritten
<1> QED
  BY <1>1, <1>2, <1>3, <1>4, <1>5, <1>6, <1>7, <1>8, <1>9, <1>10 DEF SeqNext, Allocating

\* A step of the writers, or a teardown, that the cache has not heard of.
LEMMA WritersKeep ==
  ASSUME SeqSound, KindSound, [SeqNext]_seqVars, UNCHANGED kindVars
  PROVE  KindSound'
<1>0. UNCHANGED <<held, reading, reader, announced>>
  BY DEF kindVars
<1>1. KindType' /\ HandsUnwritten'
  BY <1>0, HandsStay DEF KindSound, KindType
<1>2. CASE gone' # gone
  <2>1. gone' /\ ~gone
    BY <1>2 DEF SeqNext, seqVars, Allocating, Reserve, ReadSeed, SeedFails, Allocate, Abandon,
       Insert, Settle, GiveUp, InsertFails, NeverWrites, Restart, Destroy
  <2> QED
    BY <1>0, <1>1, <2>1 DEF KindSound, DeletionIsSound, HeldIsSound, ReadIsSound, RequestsAreSound, Telling
<1>3. CASE gone' = gone
  <2>1. \A m \in Marks : /\ Below(m) => Below(m)'
                         /\ Solid(m) => Solid(m)' /\ Upto(m)' = Upto(m)
    BY <1>3, SolidStays DEF KindSound
  <2>2. DeletionIsSound' /\ Telling' = Telling
    BY <1>0, <1>3 DEF KindSound, DeletionIsSound, Telling
  <2>3. HeldIsSound'
    <3> SUFFICES ASSUME held # Nothing, ~Telling PROVE Whole(held)'
      BY <1>0, <2>2 DEF HeldIsSound
    <3>1. held.through \in Marks /\ Solid(held.through) /\ held.rows = Upto(held.through)
      BY DEF KindSound, KindType, Kept, HeldIsSound, Whole
    <3>2. Solid(held.through)' /\ Upto(held.through)' = Upto(held.through)
      BY <1>0, <2>1, <3>1 DEF Solid, Below, Upto
    <3> QED
      BY <1>0, <3>1, <3>2 DEF Whole
  <2>4. ReadIsSound'
    <3> SUFFICES ASSUME reading # Nothing, ~Telling, reading.kept PROVE ReadIsSound'
      BY <1>0, <2>2 DEF ReadIsSound
    <3>1. reading \in Reads /\ reading.base \in Kept
      BY DEF KindSound, KindType, Reads
    <3>2. reading.at # "indexing" => Whole(reading.base)'
      BY <1>0, <2>1, <3>1 DEF KindSound, ReadIsSound, Whole, Kept, Solid, Below, Upto
    <3>3. reading.at = "measuring" => Below(reading.max)'
      BY <1>0, <2>1, <3>1 DEF KindSound, ReadIsSound, Reads, Below
    <3>4. reading.at = "reading" =>
            /\ Solid(reading.through)' /\ Solid(reading.from)'
            /\ reading.base.rows \cup reading.added = Upto(reading.from)'
      BY <1>0, <2>1, <3>1 DEF KindSound, ReadIsSound, Reads, Solid, Below, Upto
    <3> QED
      BY <1>0, <3>2, <3>3, <3>4 DEF KindSound, ReadIsSound
  <2>5. RequestsAreSound'
    <3> SUFFICES ASSUME ~gone, NEW r \in Readers PROVE RequestIsSound(r)'
      BY <1>3 DEF RequestsAreSound
    <3>1. reader[r].floor \in Marks /\ RequestIsSound(r)
      BY DEF KindSound, KindType, Requests, RequestsAreSound
    <3>2. reader[r].at # "away" => Solid(reader[r].floor)' /\ Upto(reader[r].floor)' = Upto(reader[r].floor)
      BY <1>0, <2>1, <3>1 DEF RequestIsSound, Solid, Below, Upto
    <3>3. WillCover(reader[r].floor)' = WillCover(reader[r].floor)
      BY <1>0 DEF WillCover
    <3> QED
      BY <1>0, <3>1, <3>2, <3>3 DEF RequestIsSound
  <2> QED
    BY <1>1, <2>2, <2>3, <2>4, <2>5 DEF KindSound
<1> QED
  BY <1>2, <1>3

\* The daemon's death takes the cache with it.
LEMMA RestartKeeps ==
  ASSUME SeqSound, KindSound, Restart, KindRestart
  PROVE  KindSound'
<1>1. HandsUnwritten'
  BY HandsStay DEF KindSound, SeqNext
<1>2. Away \in Requests
  BY DEF Away, Requests, Marks, Fresh
<1>3. /\ held' = Nothing /\ reading' = Nothing
      /\ reader' = [r \in Readers |-> Away]
      /\ announced' = announced /\ gone' = gone
  BY DEF KindRestart, Restart
<1>4. \A r \in Readers : reader'[r].at = "away"
  BY <1>3 DEF Away
<1> QED
  BY <1>1, <1>2, <1>3, <1>4
     DEF KindSound, KindType, HeldIsSound, ReadIsSound, RequestsAreSound, RequestIsSound, DeletionIsSound

----------------------------------------------------------------------------
(* The cache's steps                                                       *)

\* A solid mark stays solid as the allocator moves.
LEMMA StillSolid ==
  ASSUME UNCHANGED seqVars
  PROVE  /\ disk' = disk /\ unwritten' = unwritten /\ gone' = gone
         /\ HandsUnwritten => HandsUnwritten'
BY DEF seqVars, HandsUnwritten

\* What is below a solid mark is solid.
LEMMA SolidBelow ==
  ASSUME SeqSound, NEW m \in Marks, NEW l \in Marks, l <= m
  PROVE  (Below(m) => Below(l)) /\ (Solid(m) => Solid(l))
<1>0. disk \subseteq Nat /\ unwritten \subseteq Nat
  BY SlotFields
<1>1. Below(m) => Below(l)
  BY <1>0 DEF Below, Marks
<1> QED
  BY <1>0, <1>1 DEF Solid, Marks

\* The newest row is at or above every number no reservation can come below.
LEMMA MaxIsNewest ==
  ASSUME SeqSound
  PROVE  /\ MaxOnDisk \in Marks /\ Below(MaxOnDisk)
         /\ \A m \in Marks : Below(m) => m <= MaxOnDisk
<1>1. /\ disk \subseteq Nat /\ MaxOnDisk \in disk \cup {-1} /\ MaxOnDisk \in Marks
      /\ MaxOnDisk >= -1 /\ \A n \in disk : n <= MaxOnDisk
  BY SlotFields, NewestExists DEF SeqSound, TailIsSound, Marks
<1>2. Below(MaxOnDisk)
  BY <1>1 DEF Below, Marks
<1>3. \A m \in Marks : Below(m) => m <= MaxOnDisk
  BY <1>1 DEF Below, Marks
<1> QED
  BY <1>1, <1>2, <1>3

\* The mark catchUp takes from the newest row and the reservations is solid,
\* and reaches any solid mark up to that row.
LEMMA MarkIsSolid ==
  ASSUME SeqSound, NEW max \in Marks, Below(max)
  PROVE  /\ WrittenThrough(max) \in Marks /\ Solid(WrittenThrough(max))
         /\ \A m \in Marks : m <= max /\ Solid(m) => m <= WrittenThrough(max)
<1>1. /\ WrittenThrough(max) \in Marks /\ WrittenThrough(max) <= max
      /\ \A n \in unwritten : WrittenThrough(max) < n
      /\ \A m \in Marks : m <= max /\ (\A n \in unwritten : m < n) => m <= WrittenThrough(max)
  BY SlotFields, WrittenThroughIs
<1>2. Below(WrittenThrough(max))
  BY <1>1, SolidBelow
<1> QED
  BY <1>1, <1>2 DEF Solid

\* An empty cache misses nothing.
LEMMA NoRowsIsWhole == SeqSound => NoRows \in Kept /\ Whole(NoRows)
<1> SUFFICES ASSUME SeqSound PROVE NoRows \in Kept /\ Whole(NoRows)
  OBVIOUS
<1>1. disk \subseteq Nat /\ unwritten \subseteq Nat
  BY SlotFields
<1>2. NoRows = [through |-> -1, rows |-> {}]
  BY DEF NoRows
<1>3. Solid(-1) /\ Upto(-1) = {}
  <2>1. \A n \in Nat : -1 < n /\ ~(n <= -1)
    OBVIOUS
  <2>2. Below(-1) /\ \A n \in unwritten : -1 < n
    BY <1>1, <2>1 DEF Below
  <2>3. Upto(-1) = {}
    BY <1>1, <2>1 DEF Upto
  <2> QED
    BY <2>2, <2>3 DEF Solid
<1> QED
  BY <1>2, <1>3 DEF Kept, Marks, Whole

\* A read that begins has no rows of its own yet.
LEMMA StartIsSound ==
  /\ StartRead \in Reads /\ StartRead.at = "indexing" /\ StartRead.kept
  /\ StartRead.added = {} /\ Away \in Requests /\ Away.at = "away"
BY DEF StartRead, Reads, NoRows, Kept, Marks, Away, Requests, Fresh

\* A request that joins the read under way, or starts one.
LEMMA EnterKeeps ==
  ASSUME SeqSound, KindSound, UNCHANGED <<seqVars, held, announced>>,
         NEW rs \in [Readers -> Requests], NEW r \in Readers,
         \A q \in Readers : q # r => rs[q] = reader[q],
         ~gone => Solid(rs[r].floor) /\ \/ rs[r].need \in {Fresh, rs[r].floor}
                                        \/ WillCover(rs[r].floor),
         Enter(rs, r)
  PROVE  KindSound'
<1>0. /\ disk' = disk /\ unwritten' = unwritten /\ gone' = gone /\ HandsUnwritten'
      /\ held' = held /\ announced' = announced
  BY StillSolid DEF KindSound
<1>1. /\ reader' \in [Readers -> Requests]
      /\ \A q \in Readers : q # r => reader'[q] = reader[q]
      /\ reader'[r] = [rs[r] EXCEPT !.at = IF reading = Nothing THEN "own" ELSE "joined"]
      /\ reading' = IF reading = Nothing THEN StartRead ELSE reading
  <2>1. \A a \in {"own", "joined"} : [rs[r] EXCEPT !.at = a] \in Requests
    BY DEF Requests
  <2> QED
    BY <2>1 DEF Enter
<1>2. KindType'
  BY <1>0, <1>1, StartIsSound DEF KindSound, KindType
<1>3. HeldIsSound' /\ DeletionIsSound'
  BY <1>0, <1>1, StartIsSound
     DEF KindSound, HeldIsSound, DeletionIsSound, Telling, Whole, Solid, Below, Upto
<1>4. ReadIsSound'
  <2>1. CASE reading = Nothing
    BY <1>1, <2>1, StartIsSound DEF ReadIsSound
  <2>2. CASE reading # Nothing
    BY <1>0, <1>1, <2>2 DEF KindSound, ReadIsSound, Telling, Whole, Solid, Below, Upto
  <2> QED
    BY <2>1, <2>2
<1>5. RequestsAreSound'
  <2> SUFFICES ASSUME ~gone, NEW q \in Readers PROVE RequestIsSound(q)'
    BY <1>0 DEF RequestsAreSound
  <2>1. \A m \in Marks : WillCover(m) => WillCover(m)'
    BY <1>1, StartIsSound DEF WillCover
  <2>2. reading = Nothing => \A m \in Marks : WillCover(m)'
    BY <1>1, StartIsSound DEF WillCover
  <2>3. CASE q # r
    <3>1. reader'[q] = reader[q] /\ reader[q].floor \in Marks /\ RequestIsSound(q)
      BY <1>1, <2>3 DEF KindSound, KindType, RequestsAreSound, Requests
    <3>2. PICK m \in Marks : m = reader[q].floor
      BY <3>1
    <3>3. WillCover(reader[q].floor) => WillCover(reader[q].floor)'
      <4>1. WillCover(reader[q].floor) => WillCover(m)
        BY <3>2
      <4>2. WillCover(m)' => WillCover(reader[q].floor)'
        BY <3>1, <3>2 DEF WillCover
      <4> QED
        BY <2>1, <4>1, <4>2
    <3>4. /\ Solid(reader[q].floor) => Solid(reader[q].floor)'
          /\ Upto(reader[q].floor)' = Upto(reader[q].floor)
      BY <1>0, <3>1 DEF Solid, Below, Upto
    <3> QED
      BY <3>1, <3>3, <3>4 DEF RequestIsSound
  <2>4. CASE q = r
    <3>1. /\ reader'[r].floor = rs[r].floor /\ reader'[r].need = rs[r].need
          /\ reader'[r].at = IF reading = Nothing THEN "own" ELSE "joined"
          /\ rs[r].floor \in Marks
      BY <1>1 DEF Requests
    <3>2. Solid(reader[r].floor)'
      BY <1>0, <3>1 DEF Solid, Below
    <3>3. reading = Nothing => WillCover(reader[r].floor)'
      BY <2>2, <3>1 DEF WillCover
    <3>4. WillCover(rs[r].floor) => WillCover(reader[r].floor)'
      BY <2>1, <3>1 DEF WillCover
    <3> QED
      BY <2>4, <3>1, <3>2, <3>3, <3>4 DEF RequestIsSound
  <2> QED
    BY <2>3, <2>4
<1> QED
  BY <1>0, <1>2, <1>3, <1>4, <1>5 DEF KindSound

\* A request that asks starts a read or joins the one under way.
LEMMA AskKeeps ==
  ASSUME SeqSound, KindSound, UNCHANGED <<seqVars, announced>>,
         NEW r \in Readers, NEW need \in {Fresh, -1} \cup disk, Ask(r, need)
  PROVE  KindSound'
<1> DEFINE floor == IF need = Fresh THEN WrittenThrough(MaxOnDisk) ELSE need
           request == [Away EXCEPT !.need = need, !.floor = floor]
           rs == [reader EXCEPT ![r] = request]
<1>1. /\ need \in Marks \cup {Fresh}
      /\ need # Fresh => need \in Marks
  BY SlotFields DEF Marks, Fresh
<1>2. WrittenThrough(MaxOnDisk) \in Marks /\ Solid(WrittenThrough(MaxOnDisk))
  BY MaxIsNewest, MarkIsSolid
<1>3. floor \in Marks /\ Solid(floor)
  <2>1. CASE need = Fresh
    BY <1>2, <2>1
  <2>2. CASE need # Fresh
    <3>1. need <= WrittenThrough(MaxOnDisk)
      BY <2>2 DEF Ask
    <3> QED
      BY <1>1, <1>2, <2>2, <3>1, SolidBelow
  <2> QED
    BY <2>1, <2>2
<1>4. need \in {Fresh, floor}
  OBVIOUS
<1>5. Enter(rs, r) /\ held' = held
  BY DEF Ask
<1> HIDE DEF floor
<1>6. request \in Requests /\ request.floor = floor /\ request.need = need
  BY <1>1, <1>3 DEF Requests, Away
<1> HIDE DEF request
<1>7. /\ reader \in [Readers -> Requests] /\ rs \in [Readers -> Requests]
      /\ rs[r] = request /\ \A q \in Readers : q # r => rs[q] = reader[q]
  BY <1>6 DEF KindSound, KindType
<1> HIDE DEF rs
<1> QED
  BY <1>3, <1>4, <1>5, <1>6, <1>7, EnterKeeps

\* A request that was not served asks again.
LEMMA AskAgainKeeps ==
  ASSUME SeqSound, KindSound, UNCHANGED <<seqVars, announced>>,
         NEW r \in Readers, AskAgain(r)
  PROVE  KindSound'
<1>1. reader \in [Readers -> Requests]
  BY DEF KindSound, KindType
<1>2. ~gone => Solid(reader[r].floor) /\ \/ reader[r].need \in {Fresh, reader[r].floor}
                                         \/ WillCover(reader[r].floor)
  BY DEF AskAgain, KindSound, RequestsAreSound, RequestIsSound
<1>3. Enter(reader, r) /\ held' = held
  BY DEF AskAgain
<1> QED
  BY <1>1, <1>2, <1>3, EnterKeeps

\* A step that leaves the requests alone keeps them sound if the read goes on
\* towards what it was to cover.
LEMMA RequestsStay ==
  ASSUME KindSound, UNCHANGED <<seqVars, reader>>,
         ~gone => \A m \in Marks : Solid(m) /\ WillCover(m) => WillCover(m)'
  PROVE  RequestsAreSound'
<1>0. /\ disk' = disk /\ unwritten' = unwritten /\ gone' = gone /\ reader' = reader
  BY StillSolid
<1> SUFFICES ASSUME ~gone, NEW r \in Readers PROVE RequestIsSound(r)'
  BY <1>0 DEF RequestsAreSound
<1>1. reader[r].floor \in Marks /\ RequestIsSound(r)
  BY DEF KindSound, KindType, RequestsAreSound, Requests
<1>2. PICK m \in Marks : m = reader[r].floor
  BY <1>1
<1>3. Solid(reader[r].floor) /\ WillCover(reader[r].floor) => WillCover(reader[r].floor)'
  <2>1. Solid(m) /\ WillCover(m) => WillCover(m)'
    OBVIOUS
  <2>2. WillCover(m)' => WillCover(reader[r].floor)'
    BY <1>0, <1>2 DEF WillCover
  <2> QED
    BY <1>2, <2>1, <2>2
<1>4. /\ Solid(reader[r].floor) => Solid(reader[r].floor)'
      /\ Upto(reader[r].floor)' = Upto(reader[r].floor)
  BY <1>0 DEF Solid, Below, Upto
<1> QED
  BY <1>0, <1>1, <1>3, <1>4 DEF RequestIsSound

\* A step of the read alone: what is left to show is about the read and the
\* requests that wait for it.
LEMMA ReadMoves ==
  ASSUME KindSound, UNCHANGED <<seqVars, reader, announced>>,
         held' = held \/ held' = Nothing,
         reading # Nothing, reading' \in Reads, reading'.kept = reading.kept,
         ReadIsSound', RequestsAreSound'
  PROVE  KindSound'
<1>0. /\ disk' = disk /\ unwritten' = unwritten /\ gone' = gone /\ HandsUnwritten'
      /\ reader' = reader /\ announced' = announced
  BY StillSolid DEF KindSound
<1>1. KindType' /\ DeletionIsSound'
  BY <1>0 DEF KindSound, KindType, DeletionIsSound
<1>2. HeldIsSound'
  BY <1>0 DEF KindSound, HeldIsSound, Telling, Whole, Solid, Below, Upto
<1> QED
  BY <1>0, <1>1, <1>2 DEF KindSound

\* The read starts from what is kept, or from nothing.
LEMMA TakeHeldKeeps ==
  ASSUME SeqSound, KindSound, UNCHANGED <<seqVars, announced>>, TakeHeld
  PROVE  KindSound'
<1> DEFINE base == IF held = Nothing THEN NoRows ELSE held
<1>0. /\ disk' = disk /\ unwritten' = unwritten /\ gone' = gone
      /\ reader' = reader /\ announced' = announced /\ held' = Nothing
      /\ reading # Nothing /\ reading.at = "indexing" /\ reading \in Reads
      /\ reading' = [reading EXCEPT !.at = "asking", !.base = base]
  BY StillSolid DEF TakeHeld, KindSound, KindType
<1>1. base \in Kept /\ (~Telling => Whole(base))
  BY NoRowsIsWhole DEF KindSound, KindType, HeldIsSound
<1> HIDE DEF base
<1>2. /\ reading' \in Reads /\ reading'.kept = reading.kept /\ reading'.at = "asking"
      /\ reading'.base = base /\ reading'.added = reading.added
  BY <1>0, <1>1 DEF Reads
<1>3. ReadIsSound'
  <2> SUFFICES ASSUME ~Telling, reading.kept PROVE ReadIsSound'
    BY <1>0, <1>2 DEF ReadIsSound, Telling
  <2>1. reading.added = {} /\ Whole(base)
    BY <1>0, <1>1 DEF KindSound, ReadIsSound
  <2>2. Whole(reading.base)'
    BY <1>0, <1>2, <2>1 DEF Whole, Solid, Below, Upto
  <2> QED
    BY <1>2, <2>1, <2>2 DEF ReadIsSound
<1>4. RequestsAreSound'
  <2>1. \A m \in Marks : WillCover(m)'
    BY <1>2 DEF WillCover
  <2> QED
    BY <1>0, <2>1, RequestsStay
<1> QED
  BY <1>0, <1>2, <1>3, <1>4, ReadMoves

\* The newest number is read before the reservations.
LEMMA ReadMaxKeeps ==
  ASSUME SeqSound, KindSound, UNCHANGED <<seqVars, announced>>, ReadMax
  PROVE  KindSound'
<1>0. /\ disk' = disk /\ unwritten' = unwritten /\ gone' = gone
      /\ reader' = reader /\ announced' = announced /\ held' = held
      /\ reading # Nothing /\ reading.at = "asking" /\ reading \in Reads
      /\ reading' = [reading EXCEPT !.at = "measuring", !.max = MaxOnDisk]
  BY StillSolid DEF ReadMax, KindSound, KindType
<1>1. /\ MaxOnDisk \in Marks /\ Below(MaxOnDisk)
      /\ \A m \in Marks : Solid(m) => m <= MaxOnDisk
  BY MaxIsNewest DEF Solid
<1>2. /\ reading' \in Reads /\ reading'.kept = reading.kept /\ reading'.at = "measuring"
      /\ reading'.base = reading.base /\ reading'.added = reading.added
      /\ reading'.max = MaxOnDisk
  BY <1>0, <1>1 DEF Reads
<1>3. ReadIsSound'
  <2> SUFFICES ASSUME ~Telling, reading.kept PROVE ReadIsSound'
    BY <1>0, <1>2 DEF ReadIsSound, Telling
  <2>1. reading.added = {} /\ Whole(reading.base)
    BY <1>0 DEF KindSound, ReadIsSound
  <2>2. Whole(reading.base)' /\ Below(reading.max)'
    BY <1>0, <1>1, <1>2, <2>1 DEF Whole, Solid, Below, Upto
  <2> QED
    BY <1>2, <2>1, <2>2 DEF ReadIsSound
<1>4. RequestsAreSound'
  <2>1. \A m \in Marks : Solid(m) => WillCover(m)'
    BY <1>1, <1>2 DEF WillCover
  <2> QED
    BY <1>0, <2>1, RequestsStay
<1> QED
  BY <1>0, <1>2, <1>3, <1>4, ReadMoves

\* The mark of the read is solid.
LEMMA TakeMarkKeeps ==
  ASSUME SeqSound, KindSound, UNCHANGED <<seqVars, announced>>, TakeMark
  PROVE  KindSound'
<1>0. /\ disk' = disk /\ unwritten' = unwritten /\ gone' = gone
      /\ reader' = reader /\ announced' = announced /\ held' = held
      /\ reading # Nothing /\ reading.at = "measuring" /\ reading \in Reads
      /\ reading' = [reading EXCEPT !.at = "reading", !.from = reading.base.through,
                                    !.through = WrittenThrough(reading.max)]
  BY StillSolid DEF TakeMark, Mark, KindSound, KindType
<1>1. reading.max \in Marks /\ reading.base.through \in Marks
  BY <1>0 DEF Reads, Kept
<1>2. WrittenThrough(reading.max) \in Marks
  BY <1>1, SlotFields, WrittenThroughIs
<1>3. /\ reading' \in Reads /\ reading'.kept = reading.kept /\ reading'.at = "reading"
      /\ reading'.base = reading.base /\ reading'.added = reading.added
      /\ reading'.from = reading.base.through
      /\ reading'.through = WrittenThrough(reading.max)
  BY <1>0, <1>1, <1>2 DEF Reads
<1>4. ASSUME ~Telling, reading.kept
      PROVE  /\ reading.added = {} /\ Whole(reading.base)
             /\ Solid(WrittenThrough(reading.max))
             /\ \A m \in Marks : m <= reading.max /\ Solid(m) => m <= WrittenThrough(reading.max)
  <2>1. reading.added = {} /\ Whole(reading.base) /\ Below(reading.max)
    BY <1>0, <1>4 DEF KindSound, ReadIsSound
  <2> QED
    BY <1>1, <2>1, MarkIsSolid
<1>5. ReadIsSound'
  <2> SUFFICES ASSUME ~Telling, reading.kept PROVE ReadIsSound'
    BY <1>0, <1>3 DEF ReadIsSound, Telling
  <2>1. Whole(reading.base)' /\ Solid(reading.through)' /\ Solid(reading.from)'
    BY <1>0, <1>3, <1>4 DEF Whole, Solid, Below, Upto
  <2>2. reading'.base.rows \cup reading'.added = Upto(reading.from)'
    BY <1>0, <1>3, <1>4 DEF Whole, Upto
  <2> QED
    BY <1>3, <2>1, <2>2 DEF ReadIsSound
<1>6. RequestsAreSound'
  <2>1. ASSUME ~gone, NEW m \in Marks, Solid(m), WillCover(m)
        PROVE  WillCover(m)'
    <3>1. ~Telling /\ reading.kept /\ m <= reading.max
      BY <1>0, <2>1 DEF Telling, KindSound, DeletionIsSound, WillCover
    <3>2. m <= WrittenThrough(reading.max)
      BY <1>4, <2>1, <3>1
    <3> QED
      BY <1>3, <3>2 DEF WillCover
  <2> QED
    BY <1>0, <2>1, RequestsStay
<1> QED
  BY <1>0, <1>3, <1>5, <1>6, ReadMoves

\* The rows up to the mark are all read.
LEMMA ReadRowsKeeps ==
  ASSUME SeqSound, KindSound, UNCHANGED <<seqVars, announced>>, ReadRows
  PROVE  KindSound'
<1> DEFINE to == Least({reading.from + ReadWindow, reading.through})
           rows == {n \in disk : reading.from < n /\ n <= to}
<1>0. /\ disk' = disk /\ unwritten' = unwritten /\ gone' = gone
      /\ reader' = reader /\ announced' = announced /\ held' = held
      /\ reading # Nothing /\ reading.at = "reading" /\ reading \in Reads
      /\ reading.from < reading.through
      /\ reading' = [reading EXCEPT !.from = to, !.added = @ \cup rows]
  BY StillSolid DEF ReadRows, KindSound, KindType
<1>1. /\ reading.from \in Marks /\ reading.through \in Marks
      /\ disk \subseteq Nat /\ reading.added \subseteq Nat
  BY <1>0, SlotFields DEF Reads
<1>2. to \in Marks /\ to <= reading.through /\ reading.from < to
  <2>1. reading.from + ReadWindow \in Nat /\ reading.from < reading.from + ReadWindow
    BY <1>1, WindowAssumption DEF Marks
  <2>2. /\ to \in {reading.from + ReadWindow, reading.through}
        /\ to <= reading.through
    <3>1. reading.from + ReadWindow \in Int /\ reading.through \in Int
      BY <1>1, <2>1 DEF Marks
    <3> QED
      BY <3>1, LeastOfTwo
  <2> HIDE DEF to
  <2> QED
    BY <1>0, <1>1, <2>1, <2>2 DEF Marks
<1> HIDE DEF to
<1>3. /\ reading' \in Reads /\ reading'.kept = reading.kept /\ reading'.at = "reading"
      /\ reading'.base = reading.base /\ reading'.added = reading.added \cup rows
      /\ reading'.from = to /\ reading'.through = reading.through
  <2>1. reading.added \cup rows \in SUBSET Nat
    BY <1>1
  <2> HIDE DEF rows
  <2> QED
    BY <1>0, <1>2, <2>1 DEF Reads
<1>4. ReadIsSound'
  <2> SUFFICES ASSUME ~Telling, reading.kept PROVE ReadIsSound'
    BY <1>0, <1>3 DEF ReadIsSound, Telling
  <2>1. /\ Whole(reading.base) /\ Solid(reading.through)
        /\ reading.base.rows \cup reading.added = Upto(reading.from)
    BY <1>0 DEF KindSound, ReadIsSound
  <2>2. Solid(to)
    BY <1>1, <1>2, <2>1, SolidBelow
  <2>3. Upto(reading.from) \cup rows = Upto(to)
    <3>1. \A n \in Nat : n <= reading.from \/ (reading.from < n /\ n <= to) <=> n <= to
      BY <1>1, <1>2 DEF Marks
    <3> QED
      BY <1>1, <3>1 DEF Upto
  <2>4. reading'.base.rows \cup reading'.added = Upto(to)
    BY <1>3, <2>1, <2>3
  <2>5. Upto(reading.from)' = Upto(to)
    BY <1>0, <1>3 DEF Upto
  <2>6. Whole(reading.base)' /\ Solid(reading.through)' /\ Solid(reading.from)'
    BY <1>0, <1>3, <2>1, <2>2 DEF Whole, Solid, Below, Upto
  <2> QED
    BY <1>2, <1>3, <2>4, <2>5, <2>6 DEF ReadIsSound
<1>5. RequestsAreSound'
  <2>1. \A m \in Marks : WillCover(m) => WillCover(m)'
    BY <1>0, <1>3 DEF WillCover
  <2> QED
    BY <1>0, <2>1, RequestsStay
<1> QED
  BY <1>0, <1>3, <1>4, <1>5, ReadMoves

\* The answer serves whoever it reaches far enough for.
LEMMA FinishReadKeeps ==
  ASSUME SeqSound, KindSound, UNCHANGED <<seqVars, announced>>, FinishRead
  PROVE  KindSound'
<1> DEFINE answer == IF reading.through > reading.base.through
                     THEN [through |-> reading.through,
                           rows |-> reading.base.rows \cup reading.added]
                     ELSE reading.base
<1>0. /\ disk' = disk /\ unwritten' = unwritten /\ gone' = gone /\ HandsUnwritten'
      /\ announced' = announced /\ reading' = Nothing
      /\ held' = IF reading.kept THEN answer ELSE held
      /\ reader' = Answered(answer)
      /\ reading # Nothing /\ reading.at = "reading" /\ reading.from >= reading.through
      /\ reading \in Reads /\ reader \in [Readers -> Requests]
  BY StillSolid DEF FinishRead, KindSound, KindType
<1>1. /\ reading.from \in Marks /\ reading.through \in Marks
      /\ reading.base \in Kept /\ reading.base.through \in Marks
      /\ reading.base.rows \cup reading.added \in SUBSET Nat
  BY <1>0 DEF Reads, Kept
<1>2. /\ answer \in Kept
      /\ \A m \in Marks : m <= reading.through \/ m <= reading.base.through => m <= answer.through
  <2>1. CASE reading.through > reading.base.through
    BY <1>1, <2>1 DEF Kept, Marks
  <2>2. CASE ~(reading.through > reading.base.through)
    BY <1>1, <2>2 DEF Kept, Marks
  <2> QED
    BY <2>1, <2>2
<1>3. ~Telling /\ reading.kept => Whole(answer)
  <2> SUFFICES ASSUME ~Telling, reading.kept PROVE Whole(answer)
    OBVIOUS
  <2>1. /\ Whole(reading.base) /\ Solid(reading.through)
        /\ reading.from <= reading.through \/ reading.from = reading.base.through
        /\ reading.base.rows \cup reading.added = Upto(reading.from)
    BY <1>0 DEF KindSound, ReadIsSound
  <2>2. CASE reading.through > reading.base.through
    <3>1. reading.from = reading.through
      BY <1>0, <1>1, <2>1, <2>2 DEF Marks
    <3> QED
      BY <2>1, <2>2, <3>1 DEF Whole
  <2>3. CASE ~(reading.through > reading.base.through)
    BY <2>1, <2>3
  <2> QED
    BY <2>2, <2>3
<1> HIDE DEF answer
<1>4. \A r \in Readers : reader'[r] =
        CASE reader[r].at = "own" -> [reader[r] EXCEPT !.at = "served", !.rows = answer.rows]
          [] reader[r].at = "joined" ->
               IF Suffices(answer, reader[r].need)
               THEN [reader[r] EXCEPT !.at = "served", !.rows = answer.rows]
               ELSE [reader[r] EXCEPT !.at = "again",
                                      !.need = IF @ = Fresh THEN -1 ELSE @]
          [] OTHER -> reader[r]
  BY <1>0 DEF Answered
<1>5. KindType'
  <2>1. reader' \in [Readers -> Requests]
    <3>1. \A r \in Readers :
            /\ reader[r] \in Requests
            /\ [reader[r] EXCEPT !.at = "served", !.rows = answer.rows] \in Requests
            /\ [reader[r] EXCEPT !.at = "again",
                                 !.need = IF @ = Fresh THEN -1 ELSE @] \in Requests
      BY <1>0, <1>2 DEF Requests, Kept, Marks
    <3>2. \A r \in Readers : reader'[r] \in Requests
      BY <1>4, <3>1
    <3>3. reader' = [r \in Readers |-> reader'[r]]
      BY <1>0 DEF Answered
    <3> QED
      BY <3>2, <3>3
  <2> QED
    BY <1>0, <1>2, <2>1 DEF KindSound, KindType
<1>6. HeldIsSound' /\ ReadIsSound' /\ DeletionIsSound'
  <2>1. HeldIsSound'
    <3> SUFFICES ASSUME ~Telling, held' # Nothing PROVE Whole(held)'
      BY <1>0 DEF HeldIsSound, Telling
    <3>1. Whole(held')
      BY <1>0, <1>3 DEF KindSound, HeldIsSound
    <3> QED
      BY <1>0, <3>1 DEF Whole, Solid, Below, Upto
  <2> QED
    BY <1>0, <2>1 DEF KindSound, ReadIsSound, DeletionIsSound
<1>7. RequestsAreSound'
  <2> SUFFICES ASSUME ~gone, NEW r \in Readers PROVE RequestIsSound(r)'
    BY <1>0 DEF RequestsAreSound
  <2> DEFINE floor == reader[r].floor
  <2>1. /\ reader[r] \in Requests /\ floor \in Marks /\ RequestIsSound(r)
        /\ Whole(answer) /\ answer.through \in Marks
    BY <1>0, <1>2, <1>3 DEF KindSound, RequestsAreSound, Requests, DeletionIsSound, Telling, Kept
  <2>2. \A m \in Marks : WillCover(m) => m <= answer.through
    BY <1>0, <1>2 DEF WillCover
  <2>3. floor <= answer.through => Upto(floor) \subseteq answer.rows
    BY <2>1, SlotFields DEF Whole, Upto, Marks
  <2>4. WillCover(reader[r].floor)'
    BY <1>0 DEF WillCover
  <2>5. ASSUME reader'[r].floor = floor, Solid(floor)
        PROVE  Solid(reader[r].floor)' /\ Upto(reader[r].floor)' = Upto(floor)
    BY <1>0, <2>5 DEF Solid, Below, Upto
  <2>6. CASE reader[r].at = "own"
    <3>1. reader'[r] = [reader[r] EXCEPT !.at = "served", !.rows = answer.rows]
      BY <1>4, <2>6
    <3>2. /\ reader'[r].at = "served" /\ reader'[r].rows = answer.rows
          /\ reader'[r].floor = floor
      BY <2>1, <3>1 DEF Requests
    <3>3. Solid(floor) /\ Upto(floor) \subseteq answer.rows
      BY <2>1, <2>2, <2>3, <2>6 DEF RequestIsSound
    <3> QED
      BY <2>5, <3>2, <3>3 DEF RequestIsSound
  <2>7. CASE reader[r].at = "joined" /\ Suffices(answer, reader[r].need)
    <3>1. reader'[r] = [reader[r] EXCEPT !.at = "served", !.rows = answer.rows]
      BY <1>4, <2>7
    <3>2. /\ reader'[r].at = "served" /\ reader'[r].rows = answer.rows
          /\ reader'[r].floor = floor
      BY <2>1, <3>1 DEF Requests
    <3>3. floor <= answer.through
      BY <2>1, <2>2, <2>7 DEF RequestIsSound, Suffices, Marks
    <3>4. Solid(floor) /\ Upto(floor) \subseteq answer.rows
      BY <2>1, <2>3, <2>7, <3>3 DEF RequestIsSound
    <3> QED
      BY <2>5, <3>2, <3>4 DEF RequestIsSound
  <2>8. CASE reader[r].at = "joined" /\ ~Suffices(answer, reader[r].need)
    <3>1. reader'[r] = [reader[r] EXCEPT !.at = "again",
                                         !.need = IF @ = Fresh THEN -1 ELSE @]
      BY <1>4, <2>8
    <3>2. reader'[r].at = "again" /\ reader'[r].floor = floor /\ reader'[r].need # Fresh
      BY <2>1, <3>1 DEF Requests, Fresh
    <3>3. Solid(floor)
      BY <2>1, <2>8 DEF RequestIsSound
    <3> QED
      BY <2>4, <2>5, <3>2, <3>3 DEF RequestIsSound
  <2>9. CASE reader[r].at \notin {"own", "joined"}
    <3>1. reader'[r] = reader[r]
      BY <1>4, <2>9
    <3> QED
      BY <2>1, <2>4, <2>5, <2>9, <3>1 DEF RequestIsSound
  <2> QED
    BY <2>6, <2>7, <2>8, <2>9
<1> QED
  BY <1>0, <1>5, <1>6, <1>7 DEF KindSound

\* A step after which some requests are over, or know that they must ask
\* again, and no read is under way.
LEMMA FailReadKeeps ==
  ASSUME SeqSound, KindSound, UNCHANGED <<seqVars, announced>>, FailRead
  PROVE  KindSound'
<1>0. /\ disk' = disk /\ unwritten' = unwritten /\ gone' = gone /\ HandsUnwritten'
      /\ announced' = announced /\ reading' = Nothing /\ held' = held
      /\ reader \in [Readers -> Requests]
      /\ reader' = [r \in Readers |->
           CASE reader[r].at = "own" -> Away
             [] reader[r].at = "joined" ->
                  IF reader[r].need = Fresh
                  THEN [reader[r] EXCEPT !.at = "again", !.need = -1] ELSE Away
             [] OTHER -> reader[r]]
  BY StillSolid DEF FailRead, KindSound, KindType
<1>1. \A r \in Readers :
        /\ reader[r] \in Requests
        /\ [reader[r] EXCEPT !.at = "again", !.need = -1] \in Requests
  BY <1>0 DEF Requests, Marks
<1>2. \A r \in Readers :
        \/ reader'[r] = Away
        \/ /\ reader[r].at = "joined"
           /\ reader'[r] = [reader[r] EXCEPT !.at = "again", !.need = -1]
        \/ reader'[r] = reader[r] /\ reader[r].at \notin {"own", "joined"}
  BY <1>0
<1>3. KindType'
  <2>1. \A r \in Readers : reader'[r] \in Requests
    BY <1>1, <1>2, StartIsSound
  <2>2. reader' = [r \in Readers |-> reader'[r]]
    BY <1>0
  <2>3. reader' \in [Readers -> Requests]
    BY <2>1, <2>2
  <2> QED
    BY <1>0, <2>3 DEF KindSound, KindType
<1>c. /\ disk' = disk /\ unwritten' = unwritten /\ gone' = gone
      /\ announced' = announced /\ reading' = Nothing /\ held' = held
  BY <1>0
<1>4. HeldIsSound' /\ ReadIsSound' /\ DeletionIsSound'
  <2>1. ReadIsSound' /\ DeletionIsSound'
    BY <1>c DEF KindSound, ReadIsSound, DeletionIsSound
  <2>2. HeldIsSound'
    BY <1>c DEF KindSound, HeldIsSound, Telling, Whole, Solid, Below, Upto
  <2> QED
    BY <2>1, <2>2
<1>5. RequestsAreSound'
  <2> SUFFICES ASSUME ~gone, NEW r \in Readers PROVE RequestIsSound(r)'
    BY <1>0 DEF RequestsAreSound
  <2>1. RequestIsSound(r) /\ reader[r] \in Requests
    BY <1>1 DEF KindSound, RequestsAreSound
  <2>2. WillCover(reader[r].floor)'
    BY <1>0 DEF WillCover
  <2>3. CASE reader'[r] = Away
    BY <2>3, StartIsSound DEF RequestIsSound
  <2>4. CASE /\ reader[r].at = "joined"
             /\ reader'[r] = [reader[r] EXCEPT !.at = "again", !.need = -1]
    <3>1. /\ reader'[r].at = "again" /\ reader'[r].floor = reader[r].floor
          /\ reader'[r].need # Fresh
      BY <2>1, <2>4 DEF Requests, Fresh
    <3>2. Solid(reader[r].floor)'
      BY <1>0, <2>1, <2>4, <3>1 DEF RequestIsSound, Solid, Below
    <3> QED
      BY <2>2, <3>1, <3>2 DEF RequestIsSound
  <2>5. CASE reader'[r] = reader[r] /\ reader[r].at \notin {"own", "joined"}
    <3>1. /\ Solid(reader[r].floor) => Solid(reader[r].floor)'
          /\ Upto(reader[r].floor)' = Upto(reader[r].floor)
      BY <1>0, <2>5 DEF Solid, Below, Upto
    <3> QED
      BY <2>1, <2>2, <2>5, <3>1 DEF RequestIsSound
  <2> QED
    BY <1>2, <2>3, <2>4, <2>5
<1> QED
  BY <1>0, <1>3, <1>4, <1>5 DEF KindSound

\* A served request leaves.
LEMMA LeaveKeeps ==
  ASSUME SeqSound, KindSound, UNCHANGED <<seqVars, announced>>,
         NEW r \in Readers, Leave(r)
  PROVE  KindSound'
<1>0. /\ disk' = disk /\ unwritten' = unwritten /\ gone' = gone /\ HandsUnwritten'
      /\ announced' = announced /\ reading' = reading /\ held' = held
      /\ reader \in [Readers -> Requests]
      /\ reader' = [reader EXCEPT ![r] = Away]
  BY StillSolid DEF Leave, KindSound, KindType
<1>1. KindType'
  BY <1>0, StartIsSound DEF KindSound, KindType
<1>2. HeldIsSound' /\ DeletionIsSound'
  BY <1>0 DEF KindSound, HeldIsSound, DeletionIsSound, Telling, Whole, Solid, Below, Upto
<1>r. ReadIsSound'
  BY <1>0 DEF KindSound, ReadIsSound, Telling, Whole, Solid, Below, Upto
<1>3. RequestsAreSound'
  <2> SUFFICES ASSUME ~gone, NEW q \in Readers PROVE RequestIsSound(q)'
    BY <1>0 DEF RequestsAreSound
  <2>1. CASE q = r
    <3>1. reader'[q].at = "away"
      BY <1>0, <2>1, StartIsSound
    <3> QED
      BY <3>1 DEF RequestIsSound
  <2>2. CASE q # r
    <3>1. reader'[q] = reader[q] /\ RequestIsSound(q)
      BY <1>0, <2>2 DEF KindSound, RequestsAreSound
    <3>2. /\ Solid(reader[q].floor) => Solid(reader[q].floor)'
          /\ Upto(reader[q].floor)' = Upto(reader[q].floor)
          /\ WillCover(reader[q].floor) => WillCover(reader[q].floor)'
      BY <1>0, <3>1 DEF Solid, Below, Upto, WillCover
    <3> QED
      BY <3>1, <3>2 DEF RequestIsSound
  <2> QED
    BY <2>1, <2>2
<1> QED
  BY <1>0, <1>1, <1>2, <1>r, <1>3 DEF KindSound

\* Dropping what is kept leaves nothing incomplete.
LEMMA EvictKeeps ==
  ASSUME KindSound, UNCHANGED <<seqVars, announced>>, Evict
  PROVE  KindSound'
<1>0. /\ disk' = disk /\ unwritten' = unwritten /\ gone' = gone /\ HandsUnwritten'
      /\ announced' = announced /\ reading' = reading /\ held' = Nothing /\ reader' = reader
  BY StillSolid DEF Evict, KindSound
<1>1. KindType' /\ DeletionIsSound' /\ HeldIsSound'
  BY <1>0 DEF KindSound, KindType, DeletionIsSound, HeldIsSound
<1>2. ReadIsSound'
  BY <1>0 DEF KindSound, ReadIsSound, Telling, Whole, Solid, Below, Upto
<1>3. RequestsAreSound'
  <2>1. \A m \in Marks : WillCover(m) => WillCover(m)'
    BY <1>0 DEF WillCover
  <2> QED
    BY <1>0, <2>1, RequestsStay
<1> QED
  BY <1>0, <1>1, <1>2, <1>3 DEF KindSound

\* The news of a deletion drops what is kept, and spoils the read under way.
LEMMA RunDeletedKeeps ==
  ASSUME KindSound, UNCHANGED seqVars, RunDeleted
  PROVE  KindSound'
<1>0. /\ gone /\ gone' = gone /\ HandsUnwritten' /\ announced' = TRUE /\ held' = Nothing
      /\ reader' = reader
      /\ reading' = IF reading = Nothing THEN Nothing ELSE [reading EXCEPT !.kept = FALSE]
  BY StillSolid DEF RunDeleted, KindSound
<1>1. reading' # Nothing => reading' \in Reads /\ ~reading'.kept
  BY <1>0 DEF KindSound, KindType, Reads
<1> QED
  BY <1>0, <1>1 DEF KindSound, KindType, HeldIsSound, ReadIsSound, RequestsAreSound, DeletionIsSound

----------------------------------------------------------------------------
(* The whole                                                               *)

\* Nothing is kept or asked at first.
LEMMA InitIsSound == Init => SeqSound /\ KindSound
<1> SUFFICES ASSUME Init PROVE SeqSound /\ KindSound
  OBVIOUS
<1>1. SeqSound
  BY SeqInitSound DEF Init
<1>2. /\ held = Nothing /\ reading = Nothing /\ announced = FALSE
      /\ reader = [r \in Readers |-> Away] /\ writer = [w \in Writers |-> Idle]
  BY DEF Init, KindInit, SeqInit
<1>3. \A w \in Writers : writer[w].mine = {}
  BY <1>2 DEF Idle
<1> QED
  BY <1>1, <1>2, <1>3, StartIsSound
     DEF KindSound, KindType, HandsUnwritten, HeldIsSound, ReadIsSound, RequestsAreSound,
         RequestIsSound, DeletionIsSound

\* Every step of the transcript keeps both invariants.
LEMMA StepIsSound == SeqSound /\ KindSound /\ [Next]_vars => (SeqSound /\ KindSound)'
<1> SUFFICES ASSUME SeqSound, KindSound, [Next]_vars PROVE (SeqSound /\ KindSound)'
  OBVIOUS
<1>1. ASSUME [SeqNext]_seqVars, UNCHANGED kindVars
      PROVE  (SeqSound /\ KindSound)'
  BY <1>1, SeqStepSound, WritersKeep
<1>2. CASE UNCHANGED vars
  BY <1>1, <1>2 DEF vars
<1>3. CASE Allocating /\ UNCHANGED <<kindVars, streamVars>>
  BY <1>1, <1>3 DEF SeqNext
<1>4. ASSUME NEW w \in Writers, Write(w), UNCHANGED kindVars
      PROVE  (SeqSound /\ KindSound)'
  BY <1>1, <1>4 DEF Write, SeqNext
<1>5. CASE \E w \in Writers : GiveUp(w) /\ UNCHANGED <<kindVars, streamVars>>
  BY <1>1, <1>5 DEF SeqNext
<1>6. CASE KindStep /\ UNCHANGED seqVars
  <2>1. SeqSound'
    BY <1>6, SeqStepSound
  <2>2. CASE RunDeleted
    BY <1>6, <2>1, <2>2, RunDeletedKeeps
  <2>3. CASE Reading /\ UNCHANGED announced
    <3>1. UNCHANGED <<seqVars, announced>>
      BY <1>6, <2>3
    <3>2. ASSUME NEW r \in Readers, NEW need \in {Fresh, -1} \cup disk, Ask(r, need)
          PROVE  KindSound'
      BY <3>1, <3>2, AskKeeps
    <3>3. ASSUME NEW r \in Readers, AskAgain(r) \/ Leave(r)
          PROVE  KindSound'
      BY <3>1, <3>3, AskAgainKeeps, LeaveKeeps
    <3>4. CASE TakeHeld \/ ReadMax \/ TakeMark \/ ReadRows
      BY <2>1, <3>1, <3>4, TakeHeldKeeps, ReadMaxKeeps, TakeMarkKeeps, ReadRowsKeeps
    <3>5. CASE FinishRead \/ FailRead \/ Evict
      BY <2>1, <3>1, <3>5, FinishReadKeeps, FailReadKeeps, EvictKeeps
    <3> QED
      BY <2>1, <2>3, <3>2, <3>3, <3>4, <3>5 DEF Reading
  <2> QED
    BY <1>6, <2>2, <2>3 DEF KindStep
<1>7. CASE audience = "client" /\ StreamStep /\ UNCHANGED <<seqVars, kindVars>>
  BY <1>1, <1>7
<1>8. CASE Relaunch
  <2>1. Restart /\ KindRestart
    BY <1>8 DEF Relaunch
  <2>2. SeqNext
    BY <2>1 DEF SeqNext
  <2> QED
    BY <2>1, <2>2, SeqStepSound, RestartKeeps
<1>9. CASE Delete
  <2>1. Destroy /\ UNCHANGED kindVars
    BY <1>9 DEF Delete
  <2>2. SeqNext
    BY <2>1 DEF SeqNext
  <2> QED
    BY <1>1, <2>1, <2>2
<1> QED
  BY <1>2, <1>3, <1>4, <1>5, <1>6, <1>7, <1>8, <1>9 DEF Next

\* Both invariants hold throughout.
LEMMA AlwaysSound == Spec => [](SeqSound /\ KindSound)
BY InitIsSound, StepIsSound, PTL DEF Spec

\* RunKindRowsCache keeps all there is up to its mark: whatever is reserved,
\* in flight or given up on while it reads, no row is missing from what is
\* kept, and nothing of a deleted run is kept once the deletion is announced.
THEOREM NothingKeptIsIncomplete == Spec => []KeptRowsAreComplete
<1>1. SeqSound /\ KindSound => KeptRowsAreComplete
  BY DEF KindSound, HeldIsSound, Telling, Whole, Upto, KeptRowsAreComplete
<1> QED
  BY <1>1, AlwaysSound, PTL

\* rowsOfView answers a caller with all the rows it asked for, also when it
\* joined a read that somebody else had started, or that failed.
THEOREM EveryAnswerReaches == Spec => []AnswersReachTheirAsk
<1>1. SeqSound /\ KindSound => AnswersReachTheirAsk
  BY DEF KindSound, RequestsAreSound, RequestIsSound, Upto, AnswersReachTheirAsk
<1> QED
  BY <1>1, AlwaysSound, PTL

-----------------------------------------------------------------------------
(* The client: a row it does not show is on its way to it.                   *)

\* The client's state is of its kinds.
StreamTypes ==
  /\ link \in {"down", "up", "room", "joined"}
  /\ opening \in {"closed", "joining", "fetching", "open"}
  /\ wire \in Seq(Marks)
  /\ replay \in [at : {"none", "asked", "read"}, from : Marks, rows : SUBSET Nat]
  /\ passed \in [published : SUBSET Nat, late : SUBSET Nat]
  /\ rejoining \in BOOLEAN

\* A number above everything the client took in, or has in its hands.
Newer(n) ==
  /\ n > lastSeq
  /\ history # NoAnswer => \A m \in history : n > m
  /\ \A m \in replay.rows : n > m

\* A read that brings the row is to come, or is in the client's hands.
Due(n) ==
  \/ opening \in {"closed", "joining"}
  \/ opening = "fetching" /\ history = NoAnswer
  \/ history # NoAnswer /\ n \in history
  \/ rejoining /\ n > cursor
  \/ replay.at = "asked" /\ n > replay.from
  \/ replay.at = "read" /\ n \in replay.rows

OnWire(n) == \E i \in 1 .. Len(wire) : wire[i] = n
Unpublished(n) == \E w \in Writers : writer[w].at = "inserted" /\ n = Least(writer[w].mine)

\* A row that came in order is shown, or will be.
RowIsComing(n) ==
  \/ n \in shown
  \/ Due(n)
  \/ Newer(n) /\ (link = "down" \/ OnWire(n) \/ Unpublished(n))

InOrder == disk \ passed.late
RowsAreComing == \A n \in InOrder : RowIsComing(n)

\* What came in order is published in order, and arrives so.
PublishedInOrder ==
  /\ \A m \in passed.published, n \in InOrder : n < m => n \in passed.published
  /\ \A w \in Writers : writer[w].at = "inserted" => Least(writer[w].mine) \notin passed.published
  /\ ~gone => passed.published \subseteq disk
WireInOrder ==
  /\ \A i \in 1 .. Len(wire) : wire[i] # Ack => wire[i] \in passed.published \cap disk
  /\ \A i, j \in 1 .. Len(wire) : i < j /\ wire[j] \in InOrder => wire[i] < wire[j]

\* What the client took in is on disk; its replay starts no later than that.
Seen ==
  /\ lastSeq \in disk \cup {-1}
  /\ cursor \in Marks /\ cursor <= lastSeq
  /\ history # NoAnswer => history \subseteq disk /\ HasNewest(history)
  /\ replay.rows \subseteq disk /\ HasNewest(replay.rows)
  /\ replay.from <= lastSeq

\* The stages of the socket, the opening and the replay fit.
Stages ==
  /\ opening = "closed" => link \in {"down", "up"} /\ lastSeq = -1 /\ ~rejoining
  /\ link \in {"down", "up"} => wire = <<>>
  /\ gone => opening = "closed"
  /\ history # NoAnswer => opening = "fetching"
  /\ link = "down" => ReplayIsOver /\ (opening = "open" => cursor = lastSeq)
  /\ link = "up" /\ opening \notin {"closed", "joining"} => rejoining
  /\ rejoining => opening = "open" /\ replay = NoReplay
  /\ replay # NoReplay => opening = "open"
  /\ replay.at # "read" => replay.rows = {}

\* The client's part of the invariant.
Following ==
  StreamTypes /\ PublishedInOrder /\ WireInOrder /\ Seen /\ Stages /\ RowsAreComing
StreamSound ==
  /\ audience = "client" => Following
  /\ audience = "cache" => opening = "closed"
  /\ audience \in {"cache", "client"}

\* Newest exists where ingest looks for it.
LEMMA IngestedIs ==
  ASSUME NEW rows, rows \subseteq Nat, HasNewest(rows), lastSeq \in Marks, Ingested(rows)
  PROVE  /\ shown' = shown \cup rows
         /\ lastSeq' \in rows \cup {lastSeq}
         /\ lastSeq <= lastSeq'
         /\ \A n \in rows : n <= lastSeq'
<1>1. PICK top \in rows \cup {-1} : \A n \in rows \cup {-1} : n <= top
  BY DEF HasNewest
<1>2. \E n \in rows \cup {lastSeq} : \A m \in rows \cup {lastSeq} : m <= n
  <2>1. CASE top >= lastSeq /\ top \in rows
    BY <1>1, <2>1 DEF Marks
  <2>2. CASE top < lastSeq \/ top \notin rows
    BY <1>1, <2>2 DEF Marks
  <2> QED
    BY <2>1, <2>2, <1>1 DEF Marks
<1> QED
  BY <1>2 DEF Ingested, Newest, Marks

\* The window is closed at first and nothing was published.
LEMMA StreamInitSound == Init => StreamSound
<1> SUFFICES ASSUME Init PROVE StreamSound
  OBVIOUS
<1>1. disk = {} /\ gone = FALSE /\ audience \in {"cache", "client"} /\ opening = "closed"
      /\ \A w \in Writers : writer[w].at = "idle"
  BY DEF Init, SeqInit, StreamInit, Idle
<1>2. StreamInit
  BY DEF Init
<1>3. StreamTypes
  <2>1. wire \in Seq(Marks) /\ NoReplay \in [at : {"none", "asked", "read"}, from : Marks, rows : SUBSET Nat]
    BY <1>2 DEF StreamInit, NoReplay, Marks
  <2>2. [published |-> {}, late |-> {}] \in [published : SUBSET Nat, late : SUBSET Nat]
    OBVIOUS
  <2> QED
    BY <1>2, <2>1, <2>2 DEF StreamInit, StreamTypes
<1>4. PublishedInOrder /\ WireInOrder /\ RowsAreComing
  BY <1>1, <1>2 DEF StreamInit, PublishedInOrder, WireInOrder, RowsAreComing, InOrder
<1>5. Seen /\ Stages
  BY <1>1, <1>2 DEF StreamInit, Seen, Stages, NoReplay, HasNewest, ReplayIsOver, Marks
<1> QED
  BY <1>1, <1>3, <1>4, <1>5 DEF StreamSound, Following

----------------------------------------------------------------------------
(* The writers' steps, as the client hears of them                         *)

\* A row whose writer is between insert and settle stays so unless it is that
\* writer's own step.
SameInserts ==
  \A w \in Writers : /\ writer'[w].at = "inserted" <=> writer[w].at = "inserted"
                     /\ writer[w].at = "inserted" => writer'[w].mine = writer[w].mine

\* Steps that neither insert nor settle leave the same rows to publish.
LEMMA SameUnpublished ==
  ASSUME SameInserts
  PROVE  /\ \A n : Unpublished(n)' <=> Unpublished(n)
         /\ \A w \in Writers : writer'[w].at = "inserted" =>
              writer[w].at = "inserted" /\ Least(writer'[w].mine) = Least(writer[w].mine)
<1>1. \A w \in Writers : writer'[w].at = "inserted" =>
        writer[w].at = "inserted" /\ Least(writer'[w].mine) = Least(writer[w].mine)
  BY DEF SameInserts
<1>2. \A w \in Writers : writer[w].at = "inserted" =>
        writer'[w].at = "inserted" /\ Least(writer'[w].mine) = Least(writer[w].mine)
  BY DEF SameInserts
<1> QED
  BY <1>1, <1>2 DEF Unpublished

\* What the client stands on is untouched.
LEMMA NothingHeard ==
  ASSUME Following, UNCHANGED streamVars, UNCHANGED <<disk, gone>>, SameInserts
  PROVE  Following'
<1>0. UNCHANGED <<link, wire, opening, shown, lastSeq, cursor, rejoining, history, replay, passed>>
  BY DEF streamVars
<1>1. StreamTypes' /\ WireInOrder' /\ Seen' /\ Stages'
  BY <1>0 DEF Following, StreamTypes, WireInOrder, InOrder, Seen, Stages, HasNewest, ReplayIsOver
<1>2. PublishedInOrder'
  BY <1>0, SameUnpublished DEF Following, PublishedInOrder, InOrder
<1>3. RowsAreComing'
  <2> SUFFICES ASSUME NEW n \in InOrder' PROVE RowIsComing(n)'
    BY DEF RowsAreComing
  <2>1. RowIsComing(n)
    BY <1>0 DEF Following, RowsAreComing, InOrder
  <2>2. Due(n) => Due(n)'
    BY <1>0 DEF Due
  <2>3. Newer(n) => Newer(n)'
    BY <1>0 DEF Newer
  <2>4. OnWire(n) => OnWire(n)'
    BY <1>0 DEF OnWire
  <2> QED
    BY <1>0, <2>1, <2>2, <2>3, <2>4, SameUnpublished DEF RowIsComing
<1> QED
  BY <1>1, <1>2, <1>3 DEF Following

\* Reserving and giving up publish nothing and insert nothing.
LEMMA QuietSteps ==
  ASSUME SeqSound, Allocating \/ (\E w \in Writers : GiveUp(w))
  PROVE  SameInserts /\ UNCHANGED <<disk, gone>>
<1>0. writer \in [Writers -> Slot] /\ chain \in Seq(Writers)
  BY SlotFields DEF SeqSound, SeqTypeOK
<1>1. ASSUME NEW w \in Writers, NEW count \in Counts, Reserve(w, count)
      PROVE  SameInserts /\ UNCHANGED <<disk, gone>>
  BY <1>0, <1>1 DEF Reserve, Idle, SameInserts
<1>2. CASE ReadSeed \/ \E n \in unwritten : Abandon(n)
  BY <1>2 DEF ReadSeed, Abandon, SameInserts
<1>3. ASSUME chain # <<>> PROVE Head(chain) \in Writers /\ writer[Head(chain)].at = "waiting"
  <2>1. Head(chain) = chain[1] /\ 1 \in 1 .. Len(chain)
    BY <1>0, <1>3
  <2> QED
    BY <1>0, <2>1 DEF SeqSound, ChainWaits
<1>4. CASE SeedFails
  BY <1>0, <1>3, <1>4 DEF SeedFails, Idle, SameInserts
<1>5. CASE Allocate
  <2>1. writer' = [writer EXCEPT ![Head(chain)].at = "holding",
                                 ![Head(chain)].mine = Numbers(writer[Head(chain)].count)]
        /\ UNCHANGED <<disk, gone>> /\ chain # <<>>
    BY <1>5 DEF Allocate
  <2>2. \A w \in Writers \ {Head(chain)} : writer'[w] = writer[w]
    BY <1>0, <2>1
  <2>3. writer'[Head(chain)].at = "holding"
    BY <1>0, <1>3, <2>1 DEF Slot
  <2> QED
    BY <1>3, <2>1, <2>2, <2>3 DEF SameInserts
<1>6. ASSUME NEW w \in Writers, GiveUp(w) PROVE SameInserts /\ UNCHANGED <<disk, gone>>
  BY <1>0, <1>6 DEF GiveUp, InsertFails, NeverWrites, Idle, SameInserts
<1> QED
  BY <1>1, <1>2, <1>4, <1>5, <1>6 DEF Allocating

\* The two of a writer's steps that the client's invariant is about.
LEMMA InsertIs ==
  ASSUME SeqSound, NEW w \in Writers, Insert(w)
  PROVE  LET n == Least(writer[w].mine) IN
         /\ n \in Nat \ disk /\ disk' = disk \cup {n} /\ gone' = gone /\ ~gone
         /\ \A v \in Writers : writer'[v].at = "inserted" =>
              \/ writer[v].at = "inserted" /\ writer'[v].mine = writer[v].mine
              \/ v = w /\ Least(writer'[v].mine) = n
         /\ \A v \in Writers : writer[v].at = "inserted" =>
              writer'[v].at = "inserted" /\ writer'[v].mine = writer[v].mine
         /\ \A m : m = n => Unpublished(m)'
<1> DEFINE n == Least(writer[w].mine)
<1>0. writer \in [Writers -> Slot] /\ writer[w].at = "holding"
  BY SlotFields DEF Insert
<1>1. n \in writer[w].mine /\ n \in Nat
  BY <1>0, HandHasLeast, SlotFields DEF Holds
<1>2. writer[w].mine \cap disk = {}
  BY <1>0 DEF SeqSound, NumbersAreUnique, Pending
<1>3. writer' = [writer EXCEPT ![w].at = "inserted"] /\ gone' = gone /\ disk' = disk \cup {n}
  BY DEF Insert
<1>4. writer'[w].at = "inserted" /\ writer'[w].mine = writer[w].mine
      /\ \A v \in Writers \ {w} : writer'[v] = writer[v]
  BY <1>0, <1>3 DEF Slot
<1>5. ~gone
  BY <1>0, UnseededAssumption DEF SeqSound, HandsAreSound, HandIsSound, Holds, TailIsSound, SeqTypeOK
<1> QED
  BY <1>0, <1>1, <1>2, <1>3, <1>4, <1>5 DEF Unpublished

\* What settling an insert does: its row is the one published.
LEMMA SettleIs ==
  ASSUME SeqSound, NEW w \in Writers, Settle(w)
  PROVE  LET n == Least(writer[w].mine) IN
         /\ n \in disk /\ UNCHANGED <<disk, gone>> /\ writer[w].at = "inserted"
         /\ \A v \in Writers : writer'[v].at = "inserted" <=> writer[v].at = "inserted" /\ v # w
         /\ \A v \in Writers \ {w} : writer'[v] = writer[v]
         /\ \A v \in Writers \ {w} : writer[v].at = "inserted" => Least(writer[v].mine) # n
         /\ \A m : Unpublished(m) => m = n \/ Unpublished(m)'
<1> DEFINE n == Least(writer[w].mine)
           rest == writer[w].mine \ {n}
<1>0. writer \in [Writers -> Slot] /\ writer[w].at = "inserted"
  BY SlotFields DEF Settle
<1>1. n \in writer[w].mine /\ n \in disk
  BY <1>0, HandHasLeast DEF Holds, SeqSound, HandsAreSound, HandIsSound
<1>2. \A v \in Writers \ {w} : writer[v].at = "inserted" => Least(writer[v].mine) # n
  <2> SUFFICES ASSUME NEW v \in Writers \ {w}, writer[v].at = "inserted" PROVE Least(writer[v].mine) # n
    OBVIOUS
  <2>1. Least(writer[v].mine) \in writer[v].mine
    BY HandHasLeast DEF Holds
  <2> QED
    BY <1>1, <2>1 DEF SeqSound, NumbersAreUnique
<1>3. UNCHANGED <<disk, gone>>
      /\ writer' = [writer EXCEPT ![w] = IF rest = {} THEN Idle
                      ELSE [at |-> "holding", count |-> writer[w].count, mine |-> rest]]
  BY DEF Settle
<1>4. writer'[w].at # "inserted" /\ \A v \in Writers \ {w} : writer'[v] = writer[v]
  BY <1>0, <1>3 DEF Idle
<1>5. \A m : Unpublished(m) => m = n \/ Unpublished(m)'
  BY <1>4 DEF Unpublished
<1> QED
  BY <1>0, <1>1, <1>2, <1>3, <1>4, <1>5

\* A row lands: it is above everything, or late.
LEMMA InsertFollows ==
  ASSUME SeqSound, Following, NEW w \in Writers, Insert(w), Landed(Least(writer[w].mine))
  PROVE  Following'
<1> DEFINE n == Least(writer[w].mine)
<1>1. /\ n \in Nat \ disk /\ disk' = disk \cup {n} /\ gone' = gone /\ ~gone
      /\ \A v \in Writers : writer'[v].at = "inserted" =>
           \/ writer[v].at = "inserted" /\ writer'[v].mine = writer[v].mine
           \/ v = w /\ Least(writer'[v].mine) = n
      /\ \A v \in Writers : writer[v].at = "inserted" =>
           writer'[v].at = "inserted" /\ writer'[v].mine = writer[v].mine
      /\ \A m : m = n => Unpublished(m)'
  BY InsertIs
<1>2. UNCHANGED <<link, wire, opening, shown, lastSeq, cursor, rejoining, history, replay>>
      /\ passed' = IF \E m \in disk : m > n THEN [passed EXCEPT !.late = @ \cup {n}] ELSE passed
  BY DEF Landed
<1> HIDE DEF n
<1>3. passed \in [published : SUBSET Nat, late : SUBSET Nat] /\ disk \subseteq Nat
  BY SlotFields DEF Following, StreamTypes
<1>4. /\ passed'.published = passed.published
      /\ passed' \in [published : SUBSET Nat, late : SUBSET Nat]
      /\ InOrder' \subseteq InOrder \cup {n}
      /\ n \in InOrder' => \A m \in disk : m < n
  <2>1. CASE \E m \in disk : m > n
    <3>1. passed' = [passed EXCEPT !.late = @ \cup {n}]
      BY <1>2, <2>1
    <3>2. passed'.published = passed.published /\ passed'.late = passed.late \cup {n}
      BY <1>3, <3>1
    <3>3. passed' \in [published : SUBSET Nat, late : SUBSET Nat]
      BY <1>1, <1>3, <3>1
    <3> QED
      BY <1>1, <3>2, <3>3 DEF InOrder
  <2>2. CASE ~\E m \in disk : m > n
    <3>1. passed' = passed
      BY <1>2, <2>2
    <3> QED
      BY <1>1, <1>3, <2>2, <3>1 DEF InOrder
  <2> QED
    BY <2>1, <2>2
<1>5. n \notin passed.published /\ passed.published \subseteq disk
  BY <1>1 DEF Following, PublishedInOrder
<1>6. StreamTypes' /\ Stages'
  BY <1>1, <1>2, <1>4 DEF Following, StreamTypes, Stages, ReplayIsOver
<1>7. Seen'
  BY <1>1, <1>2 DEF Following, Seen, HasNewest
<1>8. PublishedInOrder'
  <2>1. \A m \in passed.published, k \in InOrder' : k < m => k \in passed.published
    <3> SUFFICES ASSUME NEW m \in passed.published, NEW k \in InOrder', k < m PROVE k \in passed.published
      OBVIOUS
    <3>1. m \in disk
      BY <1>5
    <3>2. k # n
      BY <1>1, <1>3, <1>4, <3>1
    <3> QED
      BY <1>4, <3>2 DEF Following, PublishedInOrder
  <2>2. \A v \in Writers : writer'[v].at = "inserted" => Least(writer'[v].mine) \notin passed.published
    BY <1>1, <1>5 DEF Following, PublishedInOrder
  <2> QED
    BY <1>1, <1>4, <1>5, <2>1, <2>2 DEF PublishedInOrder
<1>9. WireInOrder'
  <2>1. \A i \in 1 .. Len(wire) : wire[i] # Ack => wire[i] \in passed.published \cap disk
    BY DEF Following, WireInOrder
  <2>2. \A i, j \in 1 .. Len(wire) : i < j /\ wire[j] \in InOrder' => wire[i] < wire[j]
    <3> SUFFICES ASSUME NEW i \in 1 .. Len(wire), NEW j \in 1 .. Len(wire), i < j, wire[j] \in InOrder'
                 PROVE  wire[i] < wire[j]
      OBVIOUS
    <3>1. wire[j] # n
      BY <1>1, <2>1 DEF Ack
    <3> QED
      BY <1>4, <3>1 DEF Following, WireInOrder
  <2> QED
    BY <1>1, <1>2, <1>4, <2>1, <2>2 DEF WireInOrder
<1>10. RowsAreComing'
  <2>1. \A k : /\ Due(k) => Due(k)'
               /\ Newer(k) <=> Newer(k)'
               /\ OnWire(k) => OnWire(k)'
    BY <1>2 DEF Due, Newer, OnWire
  <2>2. \A k : Unpublished(k) => Unpublished(k)'
    BY <1>1 DEF Unpublished
  <2> SUFFICES ASSUME NEW k \in InOrder' PROVE RowIsComing(k)'
    BY DEF RowsAreComing
  <2>3. CASE k = n
    <3>1. \A m \in disk : m < n
      BY <1>4, <2>3
    <3>2. Newer(n)
      BY <1>1, <3>1 DEF Newer, Following, Seen
    <3> QED
      <4>1. Newer(k)' /\ Unpublished(k)'
        BY <1>1, <2>1, <2>3, <3>2
      <4> QED
        BY <4>1 DEF RowIsComing
  <2>4. CASE k # n
    <3>1. RowIsComing(k)
      BY <1>4, <2>4 DEF Following, RowsAreComing
    <3> QED
      BY <1>2, <2>1, <2>2, <3>1 DEF RowIsComing
  <2> QED
    BY <2>3, <2>4
<1> QED
  BY <1>6, <1>7, <1>8, <1>9, <1>10 DEF Following

\* A row is published: the rows below it that are to come will be late.
LEMMA SettleFollows ==
  ASSUME SeqSound, Following, NEW w \in Writers, Settle(w), Published(Least(writer[w].mine))
  PROVE  Following'
<1> DEFINE n == Least(writer[w].mine)
<1>1. /\ n \in disk /\ UNCHANGED <<disk, gone>> /\ writer[w].at = "inserted"
      /\ \A v \in Writers : writer'[v].at = "inserted" <=> writer[v].at = "inserted" /\ v # w
      /\ \A v \in Writers \ {w} : writer'[v] = writer[v]
      /\ \A v \in Writers \ {w} : writer[v].at = "inserted" => Least(writer[v].mine) # n
      /\ \A m : Unpublished(m) => m = n \/ Unpublished(m)'
  BY SettleIs
<1>2. n \notin passed.published /\ ~gone /\ n \in Nat
  BY <1>1, SlotFields DEF Following, PublishedInOrder, SeqSound, TailIsSound
<1>3. /\ UNCHANGED <<link, opening, shown, lastSeq, cursor, rejoining, history, replay>>
      /\ wire' = IF link \in {"room", "joined"} THEN Append(wire, n) ELSE wire
      /\ passed' = [published |-> passed.published \cup {n},
                    late |-> passed.late \cup {m \in disk \ passed.published : m < n}]
  BY DEF Published
<1> HIDE DEF n
<1>4. disk \subseteq Nat /\ passed.published \subseteq disk
      /\ passed \in [published : SUBSET Nat, late : SUBSET Nat] /\ wire \in Seq(Marks)
  BY <1>2, SlotFields DEF Following, StreamTypes, PublishedInOrder
<1>5. /\ passed'.published = passed.published \cup {n}
      /\ InOrder' = {k \in InOrder : k < n => k \in passed.published}
      /\ passed' \in [published : SUBSET Nat, late : SUBSET Nat]
  <2>1. InOrder' = disk \ passed'.late
    BY <1>1 DEF InOrder
  <2> QED
    BY <1>2, <1>3, <1>4, <2>1 DEF InOrder
<1>6. StreamTypes' /\ Stages'
  <2>1. wire' \in Seq(Marks)
    BY <1>2, <1>3, <1>4 DEF Marks
  <2>2. link \in {"room", "joined"} => link # "down" /\ opening # "closed"
    BY DEF Following, Stages
  <2> QED
    BY <1>1, <1>3, <1>5, <2>1, <2>2 DEF Following, StreamTypes, Stages, ReplayIsOver
<1>7. Seen'
  BY <1>1, <1>3 DEF Following, Seen, HasNewest
<1>8. PublishedInOrder'
  <2>1. \A m \in passed.published \cup {n}, k \in InOrder' : k < m => k \in passed.published \cup {n}
    BY <1>5 DEF Following, PublishedInOrder
  <2>2. \A v \in Writers : writer'[v].at = "inserted" => Least(writer'[v].mine) \notin passed.published \cup {n}
    BY <1>1 DEF Following, PublishedInOrder
  <2> QED
    BY <1>1, <1>4, <1>5, <2>1, <2>2 DEF PublishedInOrder
<1>9. /\ Len(wire') >= Len(wire)
      /\ \A i \in 1 .. Len(wire) : wire'[i] = wire[i]
      /\ \A i \in 1 .. Len(wire') : i > Len(wire) => wire'[i] = n /\ i = Len(wire')
      /\ link \in {"room", "joined"} => wire'[Len(wire')] = n /\ Len(wire') > 0
      /\ Len(wire') \in Nat /\ Len(wire) \in Nat
  <2>1. CASE link \in {"room", "joined"}
    <3>1. wire' = Append(wire, n) /\ Len(wire') = Len(wire) + 1 /\ Len(wire) \in Nat
      BY <1>2, <1>3, <1>4, <2>1 DEF Marks
    <3> QED
      BY <1>2, <1>4, <3>1 DEF Marks
  <2>2. CASE link \notin {"room", "joined"}
    BY <1>3, <1>4, <2>2
  <2> QED
    BY <2>1, <2>2
<1>10. WireInOrder'
  <2>1. \A i \in 1 .. Len(wire) : wire[i] # Ack => wire[i] \in passed.published \cap disk
    BY DEF Following, WireInOrder
  <2>2. \A i \in 1 .. Len(wire') : wire'[i] # Ack => wire'[i] \in (passed.published \cup {n}) \cap disk
    BY <1>1, <1>9, <2>1
  <2>3. \A i, j \in 1 .. Len(wire') : i < j /\ wire'[j] \in InOrder' => wire'[i] < wire'[j]
    <3> SUFFICES ASSUME NEW i \in 1 .. Len(wire'), NEW j \in 1 .. Len(wire'), i < j, wire'[j] \in InOrder'
                 PROVE  wire'[i] < wire'[j]
      OBVIOUS
    <3>0. i \in 1 .. Len(wire) /\ wire'[i] = wire[i]
      BY <1>9
    <3>1. CASE j <= Len(wire)
      <4>1. j \in 1 .. Len(wire) /\ wire'[j] = wire[j] /\ wire[j] \in InOrder
        BY <1>5, <1>9, <3>1
      <4> QED
        BY <3>0, <4>1 DEF Following, WireInOrder
    <3>2. CASE j > Len(wire)
      <4>1. wire'[j] = n /\ n \in InOrder
        BY <1>5, <1>9, <3>2
      <4>2. CASE wire[i] = Ack
        BY <1>2, <3>0, <4>1, <4>2 DEF Ack
      <4>3. CASE wire[i] # Ack
        <5>1. wire[i] \in passed.published /\ wire[i] \in Nat
          BY <1>4, <2>1, <3>0, <4>3
        <5>2. ~(n < wire[i])
          BY <1>2, <4>1, <5>1 DEF Following, PublishedInOrder
        <5> QED
          BY <1>2, <3>0, <4>1, <5>1, <5>2
      <4> QED
        BY <4>2, <4>3
    <3> QED
      BY <1>9, <3>1, <3>2
  <2> QED
    BY <1>1, <1>5, <2>2, <2>3 DEF WireInOrder
<1>11. RowsAreComing'
  <2>1. \A k : /\ Due(k) => Due(k)'
               /\ Newer(k) => Newer(k)'
    BY <1>3 DEF Due, Newer
  <2>2. \A k : OnWire(k) => OnWire(k)'
    BY <1>9 DEF OnWire
  <2> SUFFICES ASSUME NEW k \in InOrder' PROVE RowIsComing(k)'
    BY DEF RowsAreComing
  <2>3. RowIsComing(k) /\ k \in Nat
    BY <1>4, <1>5 DEF Following, RowsAreComing, InOrder
  <2>4. CASE k = n /\ Newer(k)
    <3>1. CASE link \in {"room", "joined"}
      <4>1. OnWire(k)'
        BY <1>9, <2>4, <3>1 DEF OnWire
      <4> QED
        BY <2>1, <2>4, <4>1 DEF RowIsComing
    <3>2. CASE link = "down"
      BY <1>3, <2>1, <2>4, <3>2 DEF RowIsComing
    <3>3. CASE link = "up"
      <4>1. opening \in {"closed", "joining"} \/ rejoining
        BY <3>3 DEF Following, Stages
      <4>2. k > cursor
        <5>1. k > lastSeq
          BY <2>4 DEF Newer
        <5>2. cursor \in Int /\ lastSeq \in Int /\ cursor =< lastSeq
          BY <1>4 DEF Following, Seen, Marks
        <5> QED
          BY <2>3, <5>1, <5>2
      <4>3. Due(k)
        BY <4>1, <4>2 DEF Due
      <4> QED
        BY <2>1, <4>3 DEF RowIsComing
    <3> QED
      BY <3>1, <3>2, <3>3 DEF Following, StreamTypes
  <2>5. CASE ~(k = n /\ Newer(k))
    <3>1. Newer(k) /\ Unpublished(k) => Unpublished(k)'
      BY <1>1, <2>5
    <3> QED
      BY <1>3, <2>1, <2>2, <2>3, <3>1 DEF RowIsComing
  <2> QED
    BY <2>4, <2>5
<1> QED
  BY <1>6, <1>7, <1>8, <1>10, <1>11 DEF Following

----------------------------------------------------------------------------
(* The client's steps                                                      *)

\* The order of the rows is the writers' business.
LEMMA RowsStandStill ==
  ASSUME Following, UNCHANGED seqVars, passed' = passed
  PROVE  /\ PublishedInOrder' /\ InOrder' = InOrder
         /\ \A n : Unpublished(n)' <=> Unpublished(n)
BY DEF seqVars, Following, PublishedInOrder, InOrder, Unpublished

\* A row stays on its way when the client's hands and the link stay.
LEMMA WaysStay ==
  ASSUME Following, UNCHANGED seqVars, UNCHANGED <<shown, lastSeq, history, replay, passed, link, wire>>,
         \A n \in InOrder : Due(n) => Due(n)'
  PROVE  RowsAreComing'
<1> SUFFICES ASSUME NEW n \in InOrder' PROVE RowIsComing(n)'
  BY DEF RowsAreComing
<1>1. n \in InOrder /\ RowIsComing(n) /\ (Unpublished(n)' <=> Unpublished(n))
  BY RowsStandStill DEF Following, RowsAreComing
<1>2. (Newer(n) => Newer(n)') /\ (OnWire(n) => OnWire(n)') /\ (Due(n) => Due(n)')
  BY <1>1 DEF Newer, OnWire
<1> QED
  BY <1>1, <1>2 DEF RowIsComing

\* Opening a run: every row is still to be read.
LEMMA OpenRunFollows == ASSUME SeqSound, Following, UNCHANGED seqVars, OpenRun PROVE Following'
<1>1. UNCHANGED <<link, wire, shown, lastSeq, cursor, rejoining, history, replay, passed>> /\ UNCHANGED <<disk, gone>>
      /\ opening = "closed" /\ opening' = "joining" /\ ~gone
  BY DEF OpenRun, seqVars
<1>2. PublishedInOrder' /\ InOrder' = InOrder
  BY <1>1, RowsStandStill
<1>3. StreamTypes' /\ WireInOrder' /\ Seen' /\ Stages'
  BY <1>1, <1>2 DEF Following, StreamTypes, WireInOrder, Seen, Stages, HasNewest, ReplayIsOver
<1>4. RowsAreComing'
  BY <1>1, WaysStay DEF Due
<1> QED
  BY <1>2, <1>3, <1>4 DEF Following

\* Joining the room: rows published from here on are on the wire.
LEMMA JoinRoomFollows == ASSUME SeqSound, Following, UNCHANGED seqVars, JoinRoom PROVE Following'
<1>1. UNCHANGED <<wire, opening, shown, lastSeq, cursor, rejoining, history, replay, passed>> /\ UNCHANGED <<disk, gone>>
      /\ opening # "closed" /\ link = "up" /\ link' = "room"
  BY DEF JoinRoom, seqVars
<1>2. PublishedInOrder' /\ InOrder' = InOrder /\ \A n : Unpublished(n)' <=> Unpublished(n)
  BY <1>1, RowsStandStill
<1>3. StreamTypes' /\ WireInOrder' /\ Seen' /\ Stages'
  BY <1>1, <1>2 DEF Following, StreamTypes, WireInOrder, Seen, Stages, HasNewest, ReplayIsOver
<1>4. RowsAreComing'
  <2> SUFFICES ASSUME NEW n \in InOrder PROVE RowIsComing(n)'
    BY <1>2 DEF RowsAreComing
  <2>1. (Due(n) => Due(n)') /\ (Newer(n) => Newer(n)') /\ (OnWire(n) => OnWire(n)')
    BY <1>1 DEF Due, Newer, OnWire
  <2> QED
    BY <1>1, <1>2, <2>1 DEF Following, RowsAreComing, RowIsComing
<1> QED
  BY <1>2, <1>3, <1>4 DEF Following

\* The acknowledgement takes its place on the wire.
LEMMA AnswerJoinFollows == ASSUME SeqSound, Following, UNCHANGED seqVars, AnswerJoin PROVE Following'
<1>1. UNCHANGED <<opening, shown, lastSeq, cursor, rejoining, history, replay, passed>> /\ UNCHANGED <<disk, gone>>
      /\ link = "room" /\ link' = "joined" /\ wire' = Append(wire, Ack)
  BY DEF AnswerJoin, seqVars
<1>2. PublishedInOrder' /\ InOrder' = InOrder /\ \A n : Unpublished(n)' <=> Unpublished(n)
  BY <1>1, RowsStandStill
<1>3. wire \in Seq(Marks) /\ Ack \in Marks /\ disk \subseteq Nat
  BY SlotFields DEF Following, StreamTypes, Ack, Marks
<1>4. /\ wire' \in Seq(Marks) /\ Len(wire') = Len(wire) + 1 /\ Len(wire) \in Nat
      /\ \A i \in 1 .. Len(wire) : wire'[i] = wire[i]
      /\ wire'[Len(wire) + 1] = Ack
  BY <1>1, <1>3
<1>5. StreamTypes' /\ Seen' /\ Stages'
  BY <1>1, <1>4 DEF Following, StreamTypes, Seen, Stages, HasNewest, ReplayIsOver
<1>6. WireInOrder'
  <2>1. \A i \in 1 .. Len(wire') : wire'[i] # Ack => i \in 1 .. Len(wire) /\ wire'[i] = wire[i]
    BY <1>4
  <2>2. \A i, j \in 1 .. Len(wire') : i < j /\ wire'[j] \in InOrder => wire'[i] < wire'[j]
    <3> SUFFICES ASSUME NEW i \in 1 .. Len(wire'), NEW j \in 1 .. Len(wire'), i < j, wire'[j] \in InOrder
                 PROVE  wire'[i] < wire'[j]
      OBVIOUS
    <3>1. wire'[j] # Ack
      BY <1>3 DEF InOrder, Ack
    <3>2. i \in 1 .. Len(wire) /\ j \in 1 .. Len(wire) /\ wire'[j] = wire[j] /\ wire'[i] = wire[i]
      BY <1>4, <2>1, <3>1
    <3> QED
      BY <3>2 DEF Following, WireInOrder
  <2>3. \A i \in 1 .. Len(wire') : wire'[i] # Ack => wire'[i] \in passed.published \cap disk
    BY <2>1 DEF Following, WireInOrder
  <2> QED
    BY <1>1, <1>2, <2>2, <2>3 DEF WireInOrder
<1>7. RowsAreComing'
  <2> SUFFICES ASSUME NEW n \in InOrder PROVE RowIsComing(n)'
    BY <1>2 DEF RowsAreComing
  <2>1. (Due(n) => Due(n)') /\ (Newer(n) => Newer(n)')
    BY <1>1 DEF Due, Newer
  <2>2. OnWire(n) => OnWire(n)'
    BY <1>4 DEF OnWire
  <2> QED
    BY <1>1, <1>2, <2>1, <2>2 DEF Following, RowsAreComing, RowIsComing
<1> QED
  BY <1>2, <1>5, <1>6, <1>7 DEF Following

\* The head of the wire is taken off.
LEMMA WireAdvances ==
  ASSUME Following, wire # <<>>, wire' = Tail(wire), InOrder' = InOrder, UNCHANGED <<passed, disk>>
  PROVE  /\ wire' \in Seq(Marks) /\ WireInOrder' /\ Head(wire) \in Marks
         /\ Head(wire) # Ack => Head(wire) \in passed.published \cap disk
         /\ \A n : OnWire(n) => n = Head(wire) \/ OnWire(n)'
         /\ \A n \in InOrder : OnWire(n) => n = Head(wire) \/ Head(wire) < n
<1>1. wire \in Seq(Marks) /\ Len(wire) \in Nat \ {0}
  BY DEF Following, StreamTypes
<1>2. /\ wire' \in Seq(Marks) /\ Len(wire') = Len(wire) - 1 /\ Head(wire) = wire[1] /\ wire[1] \in Marks
      /\ \A i \in 1 .. Len(wire') : wire'[i] = wire[i + 1]
  BY <1>1
<1>3. \A i \in 1 .. Len(wire') : i + 1 \in 1 .. Len(wire)
  BY <1>1, <1>2
<1>4. \A i \in 1 .. Len(wire) : i = 1 \/ (i - 1 \in 1 .. Len(wire') /\ wire'[i - 1] = wire[i])
  BY <1>1, <1>2
<1>5. WireInOrder'
  <2>1. \A i \in 1 .. Len(wire') : wire'[i] # Ack => wire'[i] \in passed.published \cap disk
    BY <1>2, <1>3 DEF Following, WireInOrder
  <2>2. \A i, j \in 1 .. Len(wire') : i < j /\ wire'[j] \in InOrder => wire'[i] < wire'[j]
    <3> SUFFICES ASSUME NEW i \in 1 .. Len(wire'), NEW j \in 1 .. Len(wire'), i < j, wire'[j] \in InOrder
                 PROVE  wire'[i] < wire'[j]
      OBVIOUS
    <3>1. i + 1 < j + 1 /\ wire[j + 1] \in InOrder
      BY <1>2
    <3>2. wire[i + 1] < wire[j + 1]
      BY <1>3, <3>1 DEF Following, WireInOrder
    <3> QED
      BY <1>2, <3>2
  <2> QED
    BY <2>1, <2>2 DEF WireInOrder
<1>6. \A n : OnWire(n) => n = Head(wire) \/ OnWire(n)'
  BY <1>2, <1>4 DEF OnWire
<1>7. \A n \in InOrder : OnWire(n) => n = Head(wire) \/ Head(wire) < n
  BY <1>1, <1>2 DEF OnWire, Following, WireInOrder
<1>8. Head(wire) # Ack => Head(wire) \in passed.published \cap disk
  BY <1>1, <1>2 DEF Following, WireInOrder
<1> QED
  BY <1>2, <1>5, <1>6, <1>7, <1>8

\* The acknowledged join: the thread may be read.
LEMMA JoinedFollows == ASSUME SeqSound, Following, UNCHANGED seqVars, Joined PROVE Following'
<1>1. UNCHANGED <<link, shown, lastSeq, cursor, history, passed>> /\ UNCHANGED <<disk, gone>>
      /\ wire # <<>> /\ Head(wire) = Ack /\ wire' = Tail(wire) /\ rejoining' = FALSE
      /\ opening' = (IF opening = "joining" THEN "fetching" ELSE opening)
      /\ replay' = IF rejoining THEN [NoReplay EXCEPT !.at = "asked", !.from = cursor] ELSE replay
  BY DEF Joined, seqVars, ReplayFrom
<1>2. PublishedInOrder' /\ InOrder' = InOrder /\ \A n : Unpublished(n)' <=> Unpublished(n)
  BY <1>1, RowsStandStill
<1>3. /\ wire' \in Seq(Marks) /\ WireInOrder'
      /\ \A n : OnWire(n) => n = Head(wire) \/ OnWire(n)'
  BY <1>1, <1>2, WireAdvances
<1>4. lastSeq \in Marks /\ cursor \in Marks /\ cursor <= lastSeq /\ disk \subseteq Nat
  BY SlotFields DEF Following, Seen, Marks
<1>5. rejoining => replay' = [at |-> "asked", from |-> cursor, rows |-> {}]
  BY <1>1 DEF NoReplay
<1>6. ~rejoining => replay' = replay
  BY <1>1
<1>7. StreamTypes'
  BY <1>1, <1>3, <1>4, <1>5, <1>6 DEF Following, StreamTypes
<1>8. Seen'
  <2>1. replay'.rows \subseteq disk /\ HasNewest(replay'.rows) /\ replay'.from <= lastSeq
    <3>1. CASE rejoining
      <4>1. replay'.rows = {} /\ replay'.from = cursor
        BY <1>5, <3>1
      <4> QED
        BY <1>4, <4>1 DEF HasNewest
    <3>2. CASE ~rejoining
      BY <1>6, <3>2 DEF Following, Seen
    <3> QED
      BY <3>1, <3>2
  <2> QED
    BY <1>1, <2>1 DEF Following, Seen, HasNewest
<1>9. Stages'
  <2>1. link \notin {"down", "up"} /\ opening # "closed"
    BY <1>1 DEF Following, Stages
  <2> QED
    BY <1>1, <1>5, <1>6, <2>1 DEF Following, Stages, ReplayIsOver
<1>10. RowsAreComing'
  <2> SUFFICES ASSUME NEW n \in InOrder PROVE RowIsComing(n)'
    BY <1>2 DEF RowsAreComing
  <2>1. Due(n) => Due(n)'
    <3>1. opening = "joining" => history = NoAnswer
      BY DEF Following, Stages
    <3>2. rejoining /\ n > cursor => Due(n)'
      BY <1>5 DEF Due
    <3>3. (replay.at = "asked" /\ n > replay.from) \/ (replay.at = "read" /\ n \in replay.rows) => ~rejoining
      BY DEF Following, Stages, NoReplay
    <3> QED
      BY <1>1, <1>6, <3>1, <3>2, <3>3 DEF Due
  <2>2. Newer(n) => Newer(n)'
    BY <1>1, <1>5, <1>6 DEF Newer
  <2>3. OnWire(n) => OnWire(n)'
    BY <1>1, <1>3, <1>4 DEF InOrder, Ack
  <2> QED
    BY <1>1, <1>2, <2>1, <2>2, <2>3 DEF Following, RowsAreComing, RowIsComing
<1> QED
  BY <1>2, <1>3, <1>7, <1>8, <1>9, <1>10 DEF Following

\* A row arrives and is shown, or is an old one.
LEMMA ArriveFollows == ASSUME SeqSound, Following, UNCHANGED seqVars, Arrive PROVE Following'
<1> DEFINE m == Head(wire)
<1>1. UNCHANGED <<link, opening, cursor, rejoining, history, replay, passed>> /\ UNCHANGED <<disk, gone>>
      /\ wire # <<>> /\ m # Ack /\ wire' = Tail(wire) /\ Ingested({m})
  BY DEF Arrive, seqVars
<1>2. PublishedInOrder' /\ InOrder' = InOrder /\ \A n : Unpublished(n)' <=> Unpublished(n)
  BY <1>1, RowsStandStill
<1>3. /\ wire' \in Seq(Marks) /\ WireInOrder'
      /\ m \in passed.published \cap disk
      /\ \A n : OnWire(n) => n = m \/ OnWire(n)'
      /\ \A n \in InOrder : OnWire(n) => n = m \/ m < n
  BY <1>1, <1>2, WireAdvances
<1> HIDE DEF m
<1>4. lastSeq \in Marks /\ cursor \in Marks /\ cursor <= lastSeq /\ disk \subseteq Nat /\ m \in Nat
  BY <1>3, SlotFields DEF Following, Seen, Marks
<1>5. HasNewest({m})
  BY <1>4 DEF HasNewest
<1>6. shown' = shown \cup {m} /\ lastSeq' \in {m, lastSeq} /\ lastSeq <= lastSeq' /\ m <= lastSeq'
  <2>1. {m} \subseteq Nat
    BY <1>4
  <2> QED
    BY <1>1, <1>4, <1>5, <2>1, IngestedIs
<1>7. StreamTypes'
  BY <1>1, <1>3 DEF Following, StreamTypes
<1>8. Seen'
  <2>1. replay.from \in Marks
    BY DEF Following, StreamTypes
  <2> QED
    BY <1>1, <1>3, <1>4, <1>6, <2>1 DEF Following, Seen, HasNewest, Marks
<1>9. Stages'
  <2>1. link # "down" /\ opening # "closed"
    BY <1>1 DEF Following, Stages
  <2> QED
    BY <1>1, <2>1 DEF Following, Stages, ReplayIsOver
<1>10. RowsAreComing'
  <2> SUFFICES ASSUME NEW n \in InOrder PROVE RowIsComing(n)'
    BY <1>2 DEF RowsAreComing
  <2>0. n \in Nat /\ RowIsComing(n) /\ link # "down"
    BY <1>1, <1>4 DEF InOrder, Following, RowsAreComing, Stages
  <2>1. CASE n \in shown \/ n = m
    BY <1>6, <2>1 DEF RowIsComing
  <2>2. CASE Due(n)
    BY <1>1, <2>2 DEF RowIsComing, Due
  <2>3. CASE n # m /\ Newer(n) /\ (OnWire(n) \/ Unpublished(n))
    <3>1. m < n
      <4>1. CASE OnWire(n)
        BY <1>3, <2>3, <4>1
      <4>2. CASE Unpublished(n)
        <5>1. n \notin passed.published
          BY <4>2 DEF Unpublished, Following, PublishedInOrder
        <5>2. ~(n < m)
          BY <1>3, <5>1 DEF Following, PublishedInOrder
        <5> QED
          BY <1>4, <2>0, <2>3, <5>2
      <4> QED
        BY <2>3, <4>1, <4>2
    <3>2. Newer(n)'
      BY <1>1, <1>4, <1>6, <2>0, <2>3, <3>1 DEF Newer
    <3>3. OnWire(n)' \/ Unpublished(n)'
      BY <1>2, <1>3, <2>3
    <3> QED
      BY <3>2, <3>3 DEF RowIsComing
  <2> QED
    BY <2>0, <2>1, <2>2, <2>3 DEF RowIsComing
<1> QED
  BY <1>2, <1>3, <1>7, <1>8, <1>9, <1>10 DEF Following

\* The join was not answered: the thread is read all the same.
LEMMA JoinGivesUpFollows == ASSUME SeqSound, Following, UNCHANGED seqVars, JoinGivesUp PROVE Following'
<1>1. UNCHANGED <<link, wire, shown, lastSeq, cursor, rejoining, history, replay, passed>> /\ UNCHANGED <<disk, gone>>
      /\ opening = "joining" /\ opening' = "fetching" /\ link = "down"
  BY DEF JoinGivesUp, seqVars
<1>2. PublishedInOrder' /\ InOrder' = InOrder
  BY <1>1, RowsStandStill
<1>3. StreamTypes' /\ WireInOrder' /\ Seen' /\ Stages'
  BY <1>1, <1>2 DEF Following, StreamTypes, WireInOrder, Seen, Stages, HasNewest, ReplayIsOver
<1>4. history = NoAnswer
  BY <1>1 DEF Following, Stages
<1>5. RowsAreComing'
  BY <1>1, <1>4, WaysStay DEF Due
<1> QED
  BY <1>2, <1>3, <1>5 DEF Following

\* The thread is read: every row on disk is in the client's hands.
LEMMA ReadHistoryFollows == ASSUME SeqSound, Following, UNCHANGED seqVars, ReadHistory PROVE Following'
<1>1. UNCHANGED <<link, wire, opening, shown, lastSeq, cursor, rejoining, replay, passed>> /\ UNCHANGED <<disk, gone>>
      /\ opening = "fetching" /\ history = NoAnswer /\ history' = disk
  BY DEF ReadHistory, seqVars
<1>2. PublishedInOrder' /\ InOrder' = InOrder
  BY <1>1, RowsStandStill
<1>3. HasNewest(disk)
  BY DEF SeqSound, TailIsSound
<1>4. StreamTypes' /\ WireInOrder' /\ Stages'
  BY <1>1, <1>2 DEF Following, StreamTypes, WireInOrder, Stages, ReplayIsOver
<1>5. Seen'
  BY <1>1, <1>3 DEF Following, Seen, HasNewest
<1>6. RowsAreComing'
  <2> SUFFICES ASSUME NEW n \in InOrder PROVE Due(n)'
    BY <1>2 DEF RowsAreComing, RowIsComing
  <2>1. n \in history'
    BY <1>1 DEF InOrder
  <2> QED
    BY <1>1, <2>1 DEF Due
<1> QED
  BY <1>2, <1>4, <1>5, <1>6 DEF Following

\* The thread is shown, and the cursor taken from it.
LEMMA ShowHistoryFollows == ASSUME SeqSound, Following, UNCHANGED seqVars, ShowHistory PROVE Following'
<1>1. UNCHANGED <<link, wire, rejoining, replay, passed>> /\ UNCHANGED <<disk, gone>>
      /\ history # NoAnswer /\ Ingested(history) /\ cursor' = lastSeq' /\ opening' = "open" /\ history' = NoAnswer
  BY DEF ShowHistory, seqVars
<1>2. PublishedInOrder' /\ InOrder' = InOrder /\ \A n : Unpublished(n)' <=> Unpublished(n)
  BY <1>1, RowsStandStill
<1>3. /\ lastSeq \in Marks /\ disk \subseteq Nat /\ history \subseteq disk /\ HasNewest(history)
      /\ opening = "fetching" /\ ~rejoining /\ replay = NoReplay /\ lastSeq \in disk \cup {-1}
  BY <1>1, SlotFields DEF Following, Seen, Stages, Marks
<1>4. shown' = shown \cup history /\ lastSeq' \in history \cup {lastSeq} /\ lastSeq <= lastSeq'
      /\ \A n \in history : n <= lastSeq'
  <2>1. history \subseteq Nat
    BY <1>3
  <2> QED
    BY <1>1, <1>3, <2>1, IngestedIs
<1>5. StreamTypes' /\ WireInOrder'
  BY <1>1, <1>2 DEF Following, StreamTypes, WireInOrder
<1>6. Seen'
  <2>1. lastSeq' \in disk \cup {-1} /\ lastSeq' \in Marks
    BY <1>3, <1>4 DEF Marks
  <2>2. replay.from \in Marks /\ replay.from <= lastSeq
    BY DEF Following, Seen, StreamTypes
  <2>3. replay.from <= lastSeq'
    BY <1>3, <1>4, <2>1, <2>2 DEF Marks
  <2> QED
    BY <1>1, <2>1, <2>3 DEF Following, Seen, HasNewest, Marks
<1>7. Stages'
  <2>1. link # "up" /\ ~gone
    BY <1>3 DEF Following, Stages
  <2> QED
    BY <1>1, <1>3, <2>1 DEF Following, Stages, ReplayIsOver
<1>8. RowsAreComing'
  <2> SUFFICES ASSUME NEW n \in InOrder PROVE RowIsComing(n)'
    BY <1>2 DEF RowsAreComing
  <2>0. n \in Nat /\ RowIsComing(n)
    BY <1>3 DEF InOrder, Following, RowsAreComing
  <2>1. CASE n \in shown \/ n \in history
    BY <1>4, <2>1 DEF RowIsComing
  <2>2. CASE n \notin shown /\ n \notin history
    <3>1. ~Due(n)
      BY <1>1, <1>3, <2>2 DEF Due, NoReplay
    <3>2. Newer(n) /\ (link = "down" \/ OnWire(n) \/ Unpublished(n))
      BY <2>0, <2>2, <3>1 DEF RowIsComing
    <3>3. Newer(n)'
      BY <1>1, <1>4, <3>2 DEF Newer
    <3>4. OnWire(n) => OnWire(n)'
      BY <1>1 DEF OnWire
    <3> QED
      BY <1>1, <1>2, <3>2, <3>3, <3>4 DEF RowIsComing
  <2> QED
    BY <2>1, <2>2
<1> QED
  BY <1>2, <1>5, <1>6, <1>7, <1>8 DEF Following

\* The replay is read from the cursor.
LEMMA ReadReplayFollows == ASSUME SeqSound, Following, UNCHANGED seqVars, ReadReplay PROVE Following'
<1> DEFINE fresh == {n \in disk : n > replay.from}
<1>1. UNCHANGED <<link, wire, opening, shown, lastSeq, cursor, rejoining, history, passed>> /\ UNCHANGED <<disk, gone>>
      /\ replay.at = "asked" /\ replay' = [replay EXCEPT !.at = "read", !.rows = fresh]
  BY DEF ReadReplay, seqVars
<1>2. PublishedInOrder' /\ InOrder' = InOrder /\ \A n : Unpublished(n)' <=> Unpublished(n)
  BY <1>1, RowsStandStill
<1>3. /\ disk \subseteq Nat /\ HasNewest(disk) /\ fresh \subseteq disk
      /\ replay \in [at : {"none", "asked", "read"}, from : Marks, rows : SUBSET Nat]
      /\ replay.from \in Marks /\ replay.from <= lastSeq /\ lastSeq \in Marks
  BY SlotFields DEF SeqSound, TailIsSound, Following, StreamTypes, Seen, Marks
<1>4. HasNewest(fresh)
  <2>1. PICK top \in disk \cup {-1} : \A n \in disk \cup {-1} : n <= top
    BY <1>3 DEF HasNewest
  <2>2. CASE top > replay.from
    <3>1. top \in fresh
      BY <1>3, <2>1, <2>2 DEF Marks
    <3> QED
      BY <1>3, <2>1, <3>1 DEF HasNewest
  <2>3. CASE ~(top > replay.from)
    <3>1. \A n \in disk : ~(n > replay.from)
      BY <1>3, <2>1, <2>3 DEF Marks
    <3>2. fresh = {}
      BY <3>1
    <3> QED
      BY <3>2 DEF HasNewest
  <2> QED
    BY <2>2, <2>3
<1>5. replay'.at = "read" /\ replay'.from = replay.from /\ replay'.rows = fresh
      /\ replay' \in [at : {"none", "asked", "read"}, from : Marks, rows : SUBSET Nat]
  BY <1>1, <1>3
<1>6. \A n : n \in fresh <=> n \in disk /\ n > replay.from
  OBVIOUS
<1> HIDE DEF fresh
<1>7. StreamTypes' /\ WireInOrder'
  BY <1>1, <1>2, <1>5 DEF Following, StreamTypes, WireInOrder
<1>8. Seen'
  BY <1>1, <1>3, <1>4, <1>5 DEF Following, Seen, HasNewest
<1>9. Stages'
  <2>1. replay # NoReplay /\ opening = "open" /\ ~rejoining /\ link # "down"
    BY <1>1 DEF NoReplay, Following, Stages, ReplayIsOver
  <2> QED
    BY <1>1, <1>5, <2>1 DEF Following, Stages, ReplayIsOver
<1>10. RowsAreComing'
  <2> SUFFICES ASSUME NEW n \in InOrder PROVE RowIsComing(n)'
    BY <1>2 DEF RowsAreComing
  <2>0. n \in Nat /\ n \in disk /\ RowIsComing(n)
    BY <1>3 DEF InOrder, Following, RowsAreComing
  <2>1. CASE n \in fresh
    BY <1>5, <2>1 DEF RowIsComing, Due
  <2>2. CASE n \notin fresh
    <3>1. ~(n > replay.from)
      BY <1>6, <2>0, <2>2
    <3>2. ~Newer(n)
      BY <1>3, <2>0, <3>1 DEF Newer, Marks
    <3>3. Due(n) => Due(n)'
      BY <1>1, <3>1 DEF Due
    <3> QED
      BY <1>1, <2>0, <3>2, <3>3 DEF RowIsComing
  <2> QED
    BY <2>1, <2>2
<1> QED
  BY <1>2, <1>7, <1>8, <1>9, <1>10 DEF Following

\* The replay is shown.
LEMMA ShowReplayFollows == ASSUME SeqSound, Following, UNCHANGED seqVars, ShowReplay PROVE Following'
<1>1. UNCHANGED <<link, wire, opening, cursor, rejoining, history, passed>> /\ UNCHANGED <<disk, gone>>
      /\ replay.at = "read" /\ Ingested(replay.rows) /\ replay' = NoReplay
  BY DEF ShowReplay, seqVars
<1>2. PublishedInOrder' /\ InOrder' = InOrder /\ \A n : Unpublished(n)' <=> Unpublished(n)
  BY <1>1, RowsStandStill
<1>3. /\ lastSeq \in Marks /\ disk \subseteq Nat /\ replay.rows \subseteq disk /\ HasNewest(replay.rows)
      /\ lastSeq \in disk \cup {-1} /\ cursor \in Marks /\ cursor <= lastSeq
  BY <1>1, SlotFields DEF Following, Seen, Stages, Marks
<1>4. replay # NoReplay /\ opening = "open" /\ ~rejoining /\ link # "down" /\ history = NoAnswer
  BY <1>1 DEF NoReplay, Following, Stages, ReplayIsOver
<1>5. shown' = shown \cup replay.rows /\ lastSeq' \in replay.rows \cup {lastSeq} /\ lastSeq <= lastSeq'
      /\ \A n \in replay.rows : n <= lastSeq'
  <2>1. replay.rows \subseteq Nat
    BY <1>3
  <2> QED
    BY <1>1, <1>3, <2>1, IngestedIs
<1>6. lastSeq' \in disk \cup {-1} /\ lastSeq' \in Marks
  BY <1>3, <1>5 DEF Marks
<1>7. replay'.at = "none" /\ replay'.from = -1 /\ replay'.rows = {}
      /\ replay' \in [at : {"none", "asked", "read"}, from : Marks, rows : SUBSET Nat]
  BY <1>1 DEF NoReplay, Marks
<1>8. StreamTypes' /\ WireInOrder'
  BY <1>1, <1>2, <1>7 DEF Following, StreamTypes, WireInOrder
<1>9. Seen'
  <2>1. cursor <= lastSeq' /\ -1 <= lastSeq'
    BY <1>3, <1>5, <1>6 DEF Marks
  <2>2. HasNewest(replay'.rows)
    BY <1>7 DEF HasNewest
  <2> QED
    BY <1>1, <1>3, <1>4, <1>6, <1>7, <2>1, <2>2 DEF Seen, HasNewest
<1>10. Stages'
  BY <1>1, <1>4, <1>7 DEF Following, Stages, ReplayIsOver
<1>11. RowsAreComing'
  <2> SUFFICES ASSUME NEW n \in InOrder PROVE RowIsComing(n)'
    BY <1>2 DEF RowsAreComing
  <2>0. n \in Nat /\ RowIsComing(n)
    BY <1>3 DEF InOrder, Following, RowsAreComing
  <2>1. CASE n \in shown \/ n \in replay.rows
    BY <1>5, <2>1 DEF RowIsComing
  <2>2. CASE n \notin shown /\ n \notin replay.rows
    <3>1. ~Due(n)
      BY <1>1, <1>4, <2>2 DEF Due
    <3>2. Newer(n) /\ (link = "down" \/ OnWire(n) \/ Unpublished(n))
      BY <2>0, <2>2, <3>1 DEF RowIsComing
    <3>3. Newer(n)'
      BY <1>1, <1>4, <1>5, <1>7, <3>2 DEF Newer
    <3>4. OnWire(n) => OnWire(n)'
      BY <1>1 DEF OnWire
    <3> QED
      BY <1>1, <1>2, <3>2, <3>3, <3>4 DEF RowIsComing
  <2> QED
    BY <2>1, <2>2
<1> QED
  BY <1>2, <1>8, <1>9, <1>10, <1>11 DEF Following

\* The socket goes, perhaps with the daemon and its writers.
LEMMA DroppedFollows ==
  ASSUME SeqSound, Following, Dropped, ReplayIsOver, UNCHANGED <<disk, gone>>,
         \A w \in Writers : writer'[w].at = "inserted" =>
           writer[w].at = "inserted" /\ writer'[w].mine = writer[w].mine
  PROVE  Following'
<1>1. UNCHANGED <<shown, lastSeq, history, replay, passed>>
      /\ link' = "down" /\ wire' = <<>> /\ cursor' = lastSeq /\ rejoining' = FALSE
      /\ opening' = IF opening = "joining" THEN "fetching" ELSE opening
  BY DEF Dropped
<1>2. ~rejoining /\ replay = NoReplay /\ InOrder' = InOrder
  BY <1>1 DEF ReplayIsOver, InOrder
<1>3. disk \subseteq Nat /\ lastSeq \in Marks
  BY SlotFields DEF Following, Seen, Marks
<1>4. PublishedInOrder'
  <2>1. \A w \in Writers : writer'[w].at = "inserted" => Least(writer'[w].mine) \notin passed.published
    BY DEF Following, PublishedInOrder
  <2> QED
    BY <1>1, <1>2, <2>1 DEF Following, PublishedInOrder
<1>5. StreamTypes' /\ WireInOrder'
  <2>1. wire' \in Seq(Marks) /\ Len(wire') = 0
    BY <1>1
  <2>2. opening' \in {"closed", "joining", "fetching", "open"}
    BY <1>1 DEF Following, StreamTypes
  <2>3. StreamTypes'
    BY <1>1, <2>1, <2>2 DEF Following, StreamTypes
  <2>4. \A i \in 1 .. Len(wire') : FALSE
    BY <2>1
  <2> QED
    BY <2>3, <2>4 DEF WireInOrder
<1>6. Seen'
  BY <1>1, <1>3 DEF Following, Seen, HasNewest, Marks
<1>7. Stages'
  BY <1>1, <1>2 DEF Following, Stages, ReplayIsOver
<1>8. RowsAreComing'
  <2> SUFFICES ASSUME NEW n \in InOrder PROVE RowIsComing(n)'
    BY <1>2 DEF RowsAreComing
  <2>0. RowIsComing(n)
    BY DEF Following, RowsAreComing
  <2>1. Due(n) => Due(n)'
    BY <1>1, <1>2 DEF Due, NoReplay, Following, Stages
  <2>2. Newer(n) => Newer(n)'
    BY <1>1 DEF Newer
  <2> QED
    BY <1>1, <2>0, <2>1, <2>2 DEF RowIsComing
<1> QED
  BY <1>4, <1>5, <1>6, <1>7, <1>8 DEF Following

\* The socket is back; with the thread open, its rows are asked for again.
LEMMA ConnectFollows ==
  ASSUME SeqSound, Following, UNCHANGED seqVars, Connect, "redrop" \notin Happenings
  PROVE  Following'
<1>1. UNCHANGED <<wire, opening, shown, lastSeq, cursor, history, replay, passed>> /\ UNCHANGED <<disk, gone>>
      /\ link = "down" /\ link' = "up" /\ rejoining' = (opening # "closed") /\ opening \in {"closed", "open"}
  BY DEF Connect, seqVars
<1>2. PublishedInOrder' /\ InOrder' = InOrder
  BY <1>1, RowsStandStill
<1>3. ~rejoining /\ replay = NoReplay /\ (opening = "open" => cursor = lastSeq)
  BY <1>1 DEF Following, Stages, ReplayIsOver
<1>4. StreamTypes' /\ WireInOrder' /\ Seen'
  <2>1. rejoining' \in BOOLEAN
    BY <1>1
  <2>2. StreamTypes'
    BY <1>1, <2>1 DEF Following, StreamTypes
  <2> QED
    BY <1>1, <1>2, <2>2 DEF Following, WireInOrder, Seen, HasNewest
<1>5. Stages'
  BY <1>1, <1>3 DEF Following, Stages, ReplayIsOver
<1>6. RowsAreComing'
  <2> SUFFICES ASSUME NEW n \in InOrder PROVE RowIsComing(n)'
    BY <1>2 DEF RowsAreComing
  <2>0. RowIsComing(n)
    BY DEF Following, RowsAreComing
  <2>1. Due(n) => Due(n)'
    BY <1>1, <1>3 DEF Due
  <2>2. Newer(n) => Due(n)'
    BY <1>1, <1>3 DEF Newer, Due
  <2> QED
    BY <1>1, <2>0, <2>1, <2>2 DEF RowIsComing
<1> QED
  BY <1>2, <1>4, <1>5, <1>6 DEF Following

\* A deletion finds the thread closed.
LEMMA DeleteFollows == ASSUME SeqSound, Following, Delete PROVE Following'
<1>1. UNCHANGED <<link, wire, opening, shown, lastSeq, cursor, rejoining, history, replay, passed>>
      /\ opening = "closed" /\ disk' = {} /\ gone' = TRUE
      /\ \A w \in Writers : writer'[w].at = "idle"
  BY DEF Delete, streamVars, Destroy, ForgetAll, Idle
<1>2. wire = <<>> /\ lastSeq = -1 /\ history = NoAnswer /\ replay = NoReplay /\ cursor \in Marks
  BY <1>1 DEF Following, Stages, Seen
<1>3. InOrder' = {}
  BY <1>1 DEF InOrder
<1>4. PublishedInOrder' /\ WireInOrder' /\ RowsAreComing'
  BY <1>1, <1>2, <1>3 DEF PublishedInOrder, WireInOrder, RowsAreComing
<1>5. StreamTypes' /\ Stages'
  BY <1>1 DEF Following, StreamTypes, Stages, ReplayIsOver
<1>6. Seen'
  BY <1>1, <1>2 DEF Following, Seen, HasNewest, NoReplay
<1> QED
  BY <1>4, <1>5, <1>6 DEF Following

\* Every step that the client sees keeps the invariant, as long as the cursor
\* stays with a replay.
LEMMA StreamStepSound ==
  ASSUME "redrop" \notin Happenings, SeqSound, StreamSound, Next, audience = "client"
  PROVE  Following'
<1>0. Following
  BY DEF StreamSound
<1>1. CASE Allocating /\ UNCHANGED <<kindVars, streamVars>>
  BY <1>0, <1>1, QuietSteps, NothingHeard
<1>2. ASSUME NEW w \in Writers, Write(w) PROVE Following'
  BY <1>0, <1>2, InsertFollows, SettleFollows DEF Write
<1>3. ASSUME NEW w \in Writers, GiveUp(w), UNCHANGED <<kindVars, streamVars>> PROVE Following'
  BY <1>0, <1>3, QuietSteps, NothingHeard
<1>4. CASE StreamStep /\ UNCHANGED <<seqVars, kindVars>>
  <2>1. CASE Drop
    <3>1. Dropped /\ ReplayIsOver
      BY <2>1 DEF Drop
    <3>2. UNCHANGED <<disk, gone, writer>>
      BY <1>4 DEF seqVars
    <3> QED
      BY <1>0, <3>1, <3>2, DroppedFollows
  <2> QED
    BY <1>0, <1>4, <2>1, OpenRunFollows, JoinRoomFollows, AnswerJoinFollows, JoinedFollows, ArriveFollows,
       JoinGivesUpFollows, ReadHistoryFollows, ShowHistoryFollows, ReadReplayFollows, ShowReplayFollows,
       ConnectFollows DEF StreamStep
<1>5. CASE Relaunch
  <2>1. Dropped /\ ReplayIsOver
    BY <1>5 DEF Relaunch
  <2>2. UNCHANGED <<disk, gone>> /\ \A w \in Writers : writer'[w].at = "idle"
    BY <1>5 DEF Relaunch, Restart, ForgetAll, Idle
  <2> QED
    BY <1>0, <2>1, <2>2, DroppedFollows
<1>6. CASE Delete
  BY <1>0, <1>6, DeleteFollows
<1> QED
  BY <1>1, <1>2, <1>3, <1>4, <1>5, <1>6 DEF Next

\* With the cache as the audience the client's thread stays closed.
LEMMA ClientAbsent ==
  ASSUME StreamSound, Next, audience = "cache"
  PROVE  opening' = "closed"
<1>0. opening = "closed" /\ audience # "client"
  BY DEF StreamSound
<1>1. ASSUME UNCHANGED streamVars PROVE opening' = "closed"
  BY <1>0, <1>1 DEF streamVars
<1> QED
  BY <1>0, <1>1 DEF Next, Write, Relaunch, Delete

\* The client's invariant, whatever the writers, the daemon and the socket do
\* short of a second loss while rows are being caught up with.
LEMMA ClientAlwaysSound ==
  ASSUME "redrop" \notin Happenings
  PROVE  Spec => [](SeqSound /\ StreamSound)
<1>1. SeqSound /\ StreamSound /\ [Next]_vars => StreamSound'
  <2> SUFFICES ASSUME SeqSound, StreamSound, [Next]_vars PROVE StreamSound'
    OBVIOUS
  <2>1. CASE UNCHANGED vars
    <3>1. UNCHANGED streamVars /\ UNCHANGED <<disk, gone, writer, audience>>
      BY <2>1 DEF vars, seqVars
    <3>2. SameInserts
      BY <3>1 DEF SameInserts
    <3>3. opening' = opening
      BY <3>1 DEF streamVars
    <3> QED
      BY <3>1, <3>2, <3>3, NothingHeard DEF StreamSound
  <2>2. CASE Next
    <3>1. audience' = audience
      BY <2>2 DEF Next
    <3> QED
      BY <2>2, <3>1, StreamStepSound, ClientAbsent DEF StreamSound
  <2> QED
    BY <2>1, <2>2
<1> QED
  BY <1>1, StreamInitSound, AlwaysSound, PTL DEF Spec

\* useRunStream and activateRun: a client that opened the run at whatever
\* moment, and lost its socket or its daemon any number of times, shows every
\* row that came in order once nothing is on its way to it - any number of
\* writers, any bursts. Left out ("redrop") are a socket lost again before the
\* reconnect has replayed, and one that is back while the thread is being read.
THEOREM RowsReachTheWindow ==
  ASSUME "redrop" \notin Happenings
  PROVE  Spec => []InOrderRowsAreShown
<1>1. SeqSound /\ StreamSound => InOrderRowsAreShown
  <2> SUFFICES ASSUME StreamSound, CaughtUp, NEW n \in InOrder PROVE n \in shown
    BY DEF InOrderRowsAreShown, InOrder
  <2>1. Following
    BY DEF StreamSound, CaughtUp
  <2>2. history = NoAnswer
    BY <2>1 DEF Following, Stages, CaughtUp
  <2>3. ~Due(n)
    BY <2>2 DEF Due, CaughtUp, ReplayIsOver, NoReplay
  <2>4. link # "down" /\ ~OnWire(n) /\ ~Unpublished(n)
    BY DEF CaughtUp, OnWire, Unpublished
  <2> QED
    BY <2>1, <2>3, <2>4 DEF Following, RowsAreComing, RowIsComing
<1> QED
  BY <1>1, ClientAlwaysSound, PTL
=============================================================================
