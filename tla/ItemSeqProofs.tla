--------------------------- MODULE ItemSeqProofs ---------------------------
(***************************************************************************)
(* The inductive invariant of the allocator, for any number of writers and *)
(* bursts of any size; the numbers are unique; the ledger is implemented.  *)
(***************************************************************************)
EXTENDS ItemSeq, TLAPS

HasNewest(rows) == \E m \in rows \cup {-1} : \A n \in rows \cup {-1} : n <= m

Holds(w) == writer[w].at \in {"holding", "inserted"}

\* The calls in the chain wait, and each is there once.
ChainWaits ==
  /\ \A i \in 1 .. Len(chain) : writer[chain[i]].at = "waiting"
  /\ \A i, j \in 1 .. Len(chain) : chain[i] = chain[j] => i = j

\* A writer holds an interval of numbers, the first of them on disk once its
\* insert is through; nobody else holds or wrote the others.
HandIsSound(w) ==
  /\ writer[w].at = "waiting" => writer[w].count \in Counts
  /\ Holds(w) => \E a, b \in Nat : a <= b /\ writer[w].mine = a .. b
  /\ ~Holds(w) => writer[w].mine = {}
  /\ writer[w].at = "inserted" => Least(writer[w].mine) \in disk
  /\ Holds(w) => tail \in Nat /\ \A n \in writer[w].mine : n <= tail

HandsAreSound == \A w \in Writers : HandIsSound(w)

\* The tail is at or above everything written; without one nothing moves.
TailIsSound ==
  /\ HasNewest(disk)
  /\ tail \in Nat => \A n \in disk : n <= tail
  /\ seed # Unseeded => tail = Unseeded /\ seed = MaxOnDisk /\ chain # <<>>
  /\ gone => tail = Unseeded /\ disk = {} /\ chain = <<>>

SeqSound == SeqTypeOK /\ ChainWaits /\ HandsAreSound /\ TailIsSound /\ NumbersAreUnique

----------------------------------------------------------------------------

\* The least number of an interval is its lower end.
LEMMA LeastOfInterval ==
  ASSUME NEW a \in Nat, NEW b \in Nat, a <= b
  PROVE  Least(a .. b) = a
<1>1. \A m \in a .. b : a <= m
  OBVIOUS
<1>2. a \in a .. b
  OBVIOUS
<1>3. \A n \in a .. b : (\A m \in a .. b : n <= m) => n = a
  OBVIOUS
<1> QED
  BY <1>1, <1>2, <1>3 DEF Least

\* maxSeq is the newest number, or -1.
LEMMA NewestExists ==
  ASSUME disk \subseteq Nat, HasNewest(disk)
  PROVE  /\ MaxOnDisk \in disk \cup {-1}
         /\ \A n \in disk : n <= MaxOnDisk
         /\ MaxOnDisk >= -1
         /\ MaxOnDisk \in Nat \cup {-1}
<1>1. MaxOnDisk \in disk \cup {-1} /\ \A n \in disk \cup {-1} : n <= MaxOnDisk
  BY DEF HasNewest, MaxOnDisk
<1> QED
  BY <1>1

\* Nothing is held or written at first.
LEMMA SeqInitSound == SeqInit => SeqSound
<1> SUFFICES ASSUME SeqInit PROVE SeqSound
  OBVIOUS
<1>1. SeqTypeOK
  <2>1. <<>> \in Seq(Writers)
    OBVIOUS
  <2>2. Idle \in [at : {"idle", "waiting", "holding", "inserted"}, count : Nat, mine : SUBSET Nat]
    BY DEF Idle
  <2>3. writer \in [Writers -> [at : {"idle", "waiting", "holding", "inserted"},
                               count : Nat, mine : SUBSET Nat]]
    BY <2>2 DEF SeqInit
  <2> QED
    BY <2>1, <2>3 DEF SeqInit, SeqTypeOK
<1>2. ChainWaits
  BY DEF SeqInit, ChainWaits
<1>3. HandsAreSound
  BY DEF SeqInit, HandsAreSound, HandIsSound, Holds, Idle
<1>4. TailIsSound
  BY UnseededAssumption DEF SeqInit, TailIsSound, HasNewest
<1>5. NumbersAreUnique
  BY DEF SeqInit, NumbersAreUnique, Pending, Idle
<1> QED
  BY <1>1, <1>2, <1>3, <1>4, <1>5 DEF SeqSound

----------------------------------------------------------------------------

Slot == [at : {"idle", "waiting", "holding", "inserted"}, count : Nat, mine : SUBSET Nat]

\* Every step keeps the types.
LEMMA TypeKept == SeqSound /\ [SeqNext]_seqVars => SeqTypeOK'
<1> SUFFICES ASSUME SeqSound, [SeqNext]_seqVars PROVE SeqTypeOK'
  OBVIOUS
<1> USE DEF SeqSound
<1>0. /\ Idle \in Slot
      /\ writer \in [Writers -> Slot]
      /\ SeqTypeOK
  BY DEF SeqTypeOK, Slot, Idle
<1>1. ASSUME NEW w \in Writers, NEW count \in Counts, Reserve(w, count) PROVE SeqTypeOK'
  <2>1. writer' \in [Writers -> Slot]
    BY <1>0, <1>1, CountsAssumption DEF Reserve, Idle, Slot
  <2> QED
    BY <1>0, <1>1, <2>1 DEF Reserve, SeqTypeOK, Slot
<1>2. CASE ReadSeed
  BY <1>0, <1>2, NewestExists DEF ReadSeed, SeqTypeOK, TailIsSound
<1>3. CASE SeedFails
  <2>1. writer' \in [Writers -> Slot]
    BY <1>0, <1>3 DEF SeedFails
  <2>2. chain' \in Seq(Writers)
    BY <1>0, <1>3 DEF SeedFails, SeqTypeOK
  <2> QED
    BY <1>0, <1>3, <2>1, <2>2 DEF SeedFails, SeqTypeOK, Slot
<1>4. CASE Allocate
  <2> DEFINE w == Head(chain)
  <2>1. w \in Writers /\ w = chain[1] /\ 1 \in 1 .. Len(chain)
    BY <1>0, <1>4 DEF Allocate, SeqTypeOK
  <2>2. Base \in Nat \cup {-1} /\ Base \in Int
    BY <1>0, <1>4 DEF Allocate, SeqTypeOK, Base
  <2>3. writer[w].count \in Nat \ {0}
    BY <1>0, <2>1, CountsAssumption DEF HandsAreSound, HandIsSound, ChainWaits
  <2>4. Numbers(writer[w].count) \in SUBSET Nat
    BY <2>2, <2>3 DEF Numbers
  <2>5. writer' \in [Writers -> Slot]
    BY <1>0, <1>4, <2>1, <2>4 DEF Allocate, Slot
  <2>6. tail' \in Nat
    BY <1>4, <2>2, <2>3 DEF Allocate
  <2>7. chain' \in Seq(Writers)
    BY <1>0, <1>4 DEF Allocate, SeqTypeOK
  <2>8. unwritten' \subseteq Nat
    BY <1>0, <1>4, <2>4 DEF Allocate, SeqTypeOK
  <2> QED
    BY <1>0, <1>4, <2>5, <2>6, <2>7, <2>8 DEF Allocate, SeqTypeOK, Slot
<1>5. ASSUME NEW n \in unwritten, Abandon(n) PROVE SeqTypeOK'
  BY <1>0, <1>5 DEF Abandon, SeqTypeOK
<1>6. ASSUME NEW w \in Writers, Insert(w) PROVE SeqTypeOK'
  <2>1. Least(writer[w].mine) \in Nat
    BY <1>6, LeastOfInterval DEF Insert, HandsAreSound, HandIsSound, Holds
  <2>2. writer' \in [Writers -> Slot]
    BY <1>0, <1>6 DEF Insert, Slot
  <2> QED
    BY <1>0, <1>6, <2>1, <2>2 DEF Insert, SeqTypeOK, Slot
<1>7. ASSUME NEW w \in Writers, Settle(w) PROVE SeqTypeOK'
  <2>1. writer' \in [Writers -> Slot]
    BY <1>0, <1>7 DEF Settle, Slot
  <2> QED
    BY <1>0, <1>7, <2>1 DEF Settle, SeqTypeOK, Slot
<1>8. ASSUME NEW w \in Writers, GiveUp(w) PROVE SeqTypeOK'
  <2>1. writer' \in [Writers -> Slot]
    BY <1>0, <1>8 DEF GiveUp, InsertFails, NeverWrites
  <2> QED
    BY <1>0, <1>8, <2>1 DEF GiveUp, InsertFails, NeverWrites, SeqTypeOK, Slot
<1>9. CASE ForgetAll /\ gone' \in BOOLEAN /\ disk' \subseteq Nat
  BY <1>0, <1>9 DEF ForgetAll, SeqTypeOK, Slot
<1>10. CASE UNCHANGED seqVars
  BY <1>0, <1>10 DEF seqVars, SeqTypeOK
<1> QED
  BY <1>0, <1>1, <1>2, <1>3, <1>4, <1>5, <1>6, <1>7, <1>8, <1>9, <1>10
     DEF SeqNext, Allocating, Restart, Destroy, SeqTypeOK

----------------------------------------------------------------------------

Invariants == ChainWaits /\ HandsAreSound /\ TailIsSound /\ NumbersAreUnique

\* Without a tail nobody holds a number.
LEMMA NothingHeldUnseeded ==
  ASSUME SeqSound, tail = Unseeded, NEW w \in Writers
  PROVE  ~Holds(w) /\ writer[w].mine = {}
BY UnseededAssumption DEF SeqSound, HandsAreSound, HandIsSound

\* A step of one writer leaves the others' hands sound.
LEMMA OtherHands ==
  ASSUME SeqSound, NEW v \in Writers, writer'[v] = writer[v], disk \subseteq disk',
         tail' = tail
  PROVE  HandIsSound(v)'
<1>1. HandIsSound(v)
  BY DEF SeqSound, HandsAreSound
<1> QED
  BY <1>1 DEF HandIsSound, Holds, Least

\* A step after which a writer holds less, and nothing more is written.
LEMMA FewerHeld ==
  ASSUME SeqSound, NEW w \in Writers, disk' = disk,
         \A v \in Writers : v # w => writer'[v] = writer[v],
         Pending(w)' \subseteq Pending(w), writer'[w].mine \subseteq writer[w].mine
  PROVE  NumbersAreUnique'
<1>1. \A v \in Writers : Pending(v)' \subseteq Pending(v)
  <2> SUFFICES ASSUME NEW v \in Writers, v # w PROVE Pending(v)' = Pending(v)
    OBVIOUS
  <2> QED
    BY DEF Pending, Least
<1>2. \A v \in Writers : Pending(v)' \cap disk' = {}
  BY <1>1 DEF SeqSound, NumbersAreUnique
<1>3. \A v, u \in Writers : v # u => writer[v].mine \cap writer[u].mine = {}
  BY DEF SeqSound, NumbersAreUnique
<1>4. \A v \in Writers : writer'[v].mine \subseteq writer[v].mine
  OBVIOUS
<1>5. \A v, u \in Writers : v # u => writer'[v].mine \cap writer'[u].mine = {}
  BY <1>3, <1>4
<1> QED
  BY <1>2, <1>5 DEF NumbersAreUnique

\* Joining the chain gives nothing out.
LEMMA ReserveKeeps ==
  ASSUME SeqSound, NEW w \in Writers, NEW count \in Counts, Reserve(w, count)
  PROVE  Invariants'
<1> USE DEF SeqSound
<1>0. /\ writer \in [Writers -> Slot] /\ chain \in Seq(Writers)
      /\ chain' = Append(chain, w) /\ writer[w].at = "idle"
      /\ writer' = [writer EXCEPT ![w] = [Idle EXCEPT !.at = "waiting", !.count = count]]
      /\ UNCHANGED <<tail, seed, unwritten, disk, gone>> /\ ~gone
  BY DEF Reserve, SeqTypeOK, Slot
<1>1. /\ writer'[w] = [at |-> "waiting", count |-> count, mine |-> {}]
      /\ \A v \in Writers \ {w} : writer'[v] = writer[v]
  BY <1>0 DEF Idle
<1>2. ~Holds(w) /\ writer[w].mine = {}
  BY <1>0 DEF Holds, HandsAreSound, HandIsSound
<1>3. ChainWaits'
  <2>1. /\ Len(chain') = Len(chain) + 1
        /\ \A i \in 1 .. Len(chain) : chain'[i] = chain[i] /\ chain[i] \in Writers
        /\ chain'[Len(chain) + 1] = w
    BY <1>0
  <2>2. \A i \in 1 .. Len(chain) : chain[i] # w
    BY <1>0 DEF ChainWaits
  <2>3. \A i \in 1 .. Len(chain') : i \in 1 .. Len(chain) \/ i = Len(chain) + 1
    BY <2>1, <1>0
  <2> QED
    BY <1>1, <2>1, <2>2, <2>3 DEF ChainWaits
<1>4. HandsAreSound'
  <2> SUFFICES ASSUME NEW v \in Writers PROVE HandIsSound(v)'
    BY DEF HandsAreSound
  <2>1. CASE v = w
    BY <1>1, <2>1 DEF HandIsSound, Holds
  <2>2. CASE v # w
    BY <1>0, <1>1, <2>2, OtherHands
  <2> QED
    BY <2>1, <2>2
<1>5. TailIsSound'
  <2>1. chain' # <<>>
    BY <1>0
  <2> QED
    BY <1>0, <2>1 DEF TailIsSound, HasNewest, MaxOnDisk
<1>6. NumbersAreUnique'
  <2>1. Pending(w)' = {} /\ writer'[w].mine = {}
    BY <1>1 DEF Pending
  <2> QED
    BY <1>0, <1>1, <2>1, FewerHeld
<1> QED
  BY <1>3, <1>4, <1>5, <1>6 DEF Invariants

\* A seed read by the head of the chain is the newest number there is.
LEMMA ReadSeedKeeps == ASSUME SeqSound, ReadSeed PROVE Invariants'
<1> USE DEF SeqSound
<1>1. UNCHANGED <<tail, chain, unwritten, writer, disk, gone>> /\ seed' = MaxOnDisk
      /\ tail = Unseeded /\ chain # <<>>
  BY DEF ReadSeed
<1>2. ChainWaits' /\ HandsAreSound' /\ NumbersAreUnique'
  BY <1>1 DEF ChainWaits, HandsAreSound, HandIsSound, Holds, Least, NumbersAreUnique, Pending
<1>3. TailIsSound'
  BY <1>1 DEF TailIsSound, HasNewest, MaxOnDisk
<1> QED
  BY <1>2, <1>3 DEF Invariants

\* What the chain is after its first call left it.
LEMMA ChainAdvances ==
  ASSUME SeqSound, chain # <<>>, chain' = Tail(chain),
         \A v \in Writers : v # Head(chain) => writer'[v] = writer[v]
  PROVE  ChainWaits'
<1>1. chain \in Seq(Writers)
  BY DEF SeqSound, SeqTypeOK
<1>2. /\ Len(chain') = Len(chain) - 1 /\ Head(chain) = chain[1]
      /\ \A i \in 1 .. Len(chain') : chain'[i] = chain[i + 1] /\ i + 1 \in 1 .. Len(chain)
      /\ 1 \in 1 .. Len(chain)
  BY <1>1
<1>3. \A i \in 1 .. Len(chain') : chain'[i] # Head(chain) /\ chain'[i] \in Writers
  <2> TAKE i \in 1 .. Len(chain')
  <2>1. chain'[i] = chain[i + 1] /\ i + 1 # 1 /\ i + 1 \in 1 .. Len(chain)
    BY <1>2
  <2> QED
    BY <1>1, <1>2, <2>1 DEF SeqSound, ChainWaits
<1>4. \A i \in 1 .. Len(chain') : writer'[chain'[i]].at = "waiting"
  BY <1>2, <1>3 DEF SeqSound, ChainWaits
<1>5. ASSUME NEW i \in 1 .. Len(chain'), NEW j \in 1 .. Len(chain'), chain'[i] = chain'[j]
      PROVE  i = j
  <2>1. i + 1 = j + 1
    BY <1>2, <1>5 DEF SeqSound, ChainWaits
  <2> QED
    BY <2>1
<1> QED
  BY <1>4, <1>5 DEF ChainWaits

\* A failed read of the seed leaves the tail unknown and nothing held.
LEMMA SeedFailsKeeps == ASSUME SeqSound, SeedFails PROVE Invariants'
<1> USE DEF SeqSound
<1>w. PICK w \in Writers : w = Head(chain)
  <2>1. Head(chain) \in Writers
    BY DEF SeedFails, SeqTypeOK
  <2> QED
    BY <2>1
<1>0. /\ writer \in [Writers -> Slot] /\ w = Head(chain)
      /\ chain # <<>> /\ tail = Unseeded /\ seed = Unseeded /\ chain' = Tail(chain)
      /\ writer' = [writer EXCEPT ![w] = Idle]
      /\ UNCHANGED <<tail, seed, unwritten, disk, gone>>
  BY <1>w DEF SeedFails, SeqTypeOK, Slot
<1>1. writer'[w] = Idle /\ \A v \in Writers : v # w => writer'[v] = writer[v]
  BY <1>0
<1>2. ChainWaits'
  BY <1>0, <1>1, ChainAdvances
<1>3. HandsAreSound'
  BY <1>0, <1>1 DEF HandsAreSound, HandIsSound, Holds, Least, Idle
<1>4. TailIsSound'
  BY <1>0 DEF TailIsSound, HasNewest, MaxOnDisk
<1>5. NumbersAreUnique'
  BY <1>0, <1>1 DEF NumbersAreUnique, Pending, Least, Idle
<1> QED
  BY <1>2, <1>3, <1>4, <1>5 DEF Invariants

\* The numbers handed out are above everything written or held.
LEMMA AllocateKeeps == ASSUME SeqSound, Allocate PROVE Invariants'
<1> USE DEF SeqSound
<1>w. PICK w \in Writers : w = Head(chain)
  <2>1. Head(chain) \in Writers
    BY DEF Allocate, SeqTypeOK
  <2> QED
    BY <2>1
<1> DEFINE mine == Numbers(writer[w].count)
<1>0. /\ writer \in [Writers -> Slot] /\ w = Head(chain) /\ disk \subseteq Nat
      /\ chain # <<>> /\ chain' = Tail(chain) /\ chain \in Seq(Writers) /\ w = chain[1]
      /\ tail # Unseeded \/ seed # Unseeded
      /\ tail' = Base + writer[w].count /\ seed' = Unseeded
      /\ writer' = [writer EXCEPT ![w].at = "holding", ![w].mine = mine]
      /\ UNCHANGED <<disk, gone>>
  <2>1. /\ chain # <<>> /\ chain' = Tail(chain) /\ seed' = Unseeded
        /\ tail # Unseeded \/ seed # Unseeded
        /\ tail' = Base + writer[w].count /\ UNCHANGED <<disk, gone>>
        /\ writer' = [writer EXCEPT ![w].at = "holding", ![w].mine = mine]
    BY <1>w DEF Allocate
  <2>2. chain \in Seq(Writers) /\ writer \in [Writers -> Slot] /\ disk \subseteq Nat
    BY DEF SeqTypeOK, Slot
  <2>3. w = Head(chain) /\ w = chain[1]
    BY <1>w, <2>1, <2>2
  <2> QED
    BY <2>1, <2>2, <2>3
<1>1. writer[w].at = "waiting" /\ writer[w].count \in Nat \ {0} /\ writer[w].count \in Counts
  <2>1. 1 \in 1 .. Len(chain)
    BY <1>0
  <2> QED
    BY <1>0, <2>1, CountsAssumption DEF ChainWaits, HandsAreSound, HandIsSound
<1>2. /\ Base \in Nat \cup {-1}
      /\ \A n \in disk : n <= Base
      /\ \A v \in Writers : \A n \in writer[v].mine : n <= Base /\ n \in Nat
  <2>1. CASE tail # Unseeded
    <3>1. tail \in Nat /\ Base = tail
      BY <2>1 DEF Base, SeqTypeOK
    <3>2. \A v \in Writers : \A n \in writer[v].mine : n <= tail /\ n \in Nat
      BY <1>0 DEF HandsAreSound, HandIsSound, Slot
    <3> QED
      BY <3>1, <3>2 DEF TailIsSound
  <2>2. CASE tail = Unseeded
    <3>1. Base = MaxOnDisk
      BY <1>0, <2>2 DEF Base, TailIsSound
    <3>2. \A v \in Writers : writer[v].mine = {}
      BY <2>2, NothingHeldUnseeded
    <3> QED
      BY <1>0, <3>1, <3>2, NewestExists DEF TailIsSound
  <2> QED
    BY <2>1, <2>2
<1>3. /\ mine = Base + 1 .. tail' /\ Base + 1 <= tail' /\ Base + 1 \in Nat /\ tail' \in Nat
      /\ Base \in Int
  BY <1>0, <1>1, <1>2 DEF Numbers
<1> HIDE DEF mine
<1>4. /\ writer'[w] = [at |-> "holding", count |-> writer[w].count, mine |-> mine]
      /\ \A v \in Writers : v # w => writer'[v] = writer[v]
  BY <1>0 DEF Slot
<1>5. ~gone
  BY <1>0 DEF TailIsSound
<1>6. ChainWaits'
  BY <1>0, <1>4, ChainAdvances
<1>7. HandsAreSound'
  <2> SUFFICES ASSUME NEW v \in Writers
               PROVE  /\ writer'[v].at = "waiting" => writer'[v].count \in Counts
                      /\ Holds(v)' => \E a, b \in Nat : a <= b /\ writer'[v].mine = a .. b
                      /\ ~Holds(v)' => writer'[v].mine = {}
                      /\ writer'[v].at = "inserted" => Least(writer'[v].mine) \in disk'
                      /\ Holds(v)' => tail' \in Nat /\ \A n \in writer'[v].mine : n <= tail'
    BY DEF HandsAreSound, HandIsSound, Least
  <2>1. CASE v = w
    BY <2>1, <1>3, <1>4 DEF Holds
  <2>2. CASE v # w
    <3>1. \A n \in writer[v].mine : n <= tail'
      BY <1>2, <1>3
    <3> QED
      BY <2>2, <3>1, <1>0, <1>3, <1>4 DEF Holds, HandsAreSound, HandIsSound
  <2> QED
    BY <2>1, <2>2
<1>8. TailIsSound'
  <2>1. \A n \in disk : n <= tail'
    BY <1>0, <1>2, <1>3
  <2> QED
    BY <1>0, <1>3, <1>5, <2>1 DEF TailIsSound, HasNewest
<1>9. NumbersAreUnique'
  <2>1. mine \cap disk = {}
    BY <1>0, <1>2, <1>3
  <2>2. \A v \in Writers : mine \cap writer[v].mine = {}
    BY <1>2, <1>3
  <2>3. Pending(w)' = mine /\ writer'[w].mine = mine
    BY <1>4 DEF Pending
  <2>4. \A v \in Writers : v # w => Pending(v)' = Pending(v) /\ writer'[v].mine = writer[v].mine
    BY <1>4 DEF Pending, Least
  <2>5. \A v \in Writers : Pending(v)' \cap disk' = {}
    BY <1>0, <2>1, <2>3, <2>4 DEF NumbersAreUnique
  <2>6. \A v, u \in Writers : v # u => writer'[v].mine \cap writer'[u].mine = {}
    BY <2>2, <2>3, <2>4 DEF NumbersAreUnique
  <2> QED
    BY <2>5, <2>6 DEF NumbersAreUnique
<1> QED
  BY <1>6, <1>7, <1>8, <1>9 DEF Invariants

----------------------------------------------------------------------------

\* A step that touches nothing keeps everything.
LEMMA NothingMoved ==
  ASSUME SeqSound, UNCHANGED <<tail, chain, seed, writer, disk, gone>>
  PROVE  Invariants'
<1> USE DEF SeqSound
<1>1. ChainWaits'
  BY DEF ChainWaits
<1>2. HandsAreSound'
  BY DEF HandsAreSound, HandIsSound, Holds, Least
<1>3. TailIsSound'
  BY DEF TailIsSound, HasNewest, MaxOnDisk
<1>4. NumbersAreUnique'
  BY DEF NumbersAreUnique, Pending, Least
<1> QED
  BY <1>1, <1>2, <1>3, <1>4 DEF Invariants

\* Numbers that are given up belong to nobody.
LEMMA AbandonKeeps ==
  ASSUME SeqSound, NEW n \in unwritten, Abandon(n)
  PROVE  Invariants'
<1> USE DEF SeqSound
<1>1. UNCHANGED <<tail, chain, seed, writer, disk, gone>>
  BY DEF Abandon
<1> QED
  BY <1>1, NothingMoved

\* The chain is not disturbed by a writer that is not in it.
LEMMA ChainStays ==
  ASSUME SeqSound, NEW w \in Writers, writer[w].at # "waiting", chain' = chain,
         \A v \in Writers : v # w => writer'[v] = writer[v]
  PROVE  ChainWaits'
<1>1. \A i \in 1 .. Len(chain) : chain[i] \in Writers
  BY DEF SeqSound, SeqTypeOK
<1> QED
  BY <1>1 DEF SeqSound, ChainWaits

\* A number that is written leaves its writer's hands.
LEMMA InsertKeeps ==
  ASSUME SeqSound, NEW w \in Writers, Insert(w)
  PROVE  Invariants'
<1> USE DEF SeqSound
<1>0. /\ writer \in [Writers -> Slot] /\ disk \subseteq Nat
      /\ writer[w].at = "holding"
      /\ disk' = disk \cup {Least(writer[w].mine)}
      /\ writer' = [writer EXCEPT ![w] = [@ EXCEPT !.at = "inserted"]]
      /\ UNCHANGED <<tail, chain, seed, unwritten, gone>>
  BY DEF Insert, SeqTypeOK, Slot
<1>1. PICK a \in Nat, b \in Nat : a <= b /\ writer[w].mine = a .. b
  BY <1>0 DEF HandsAreSound, HandIsSound, Holds
<1>2. Least(writer[w].mine) = a
  BY <1>1, LeastOfInterval
<1>3. /\ writer'[w].at = "inserted" /\ writer'[w].mine = a .. b
      /\ \A v \in Writers : v # w => writer'[v] = writer[v]
  BY <1>0, <1>1 DEF Slot
<1>4. tail \in Nat /\ b <= tail /\ a <= tail
  BY <1>0, <1>1 DEF HandsAreSound, HandIsSound, Holds
<1>5. ChainWaits'
  BY <1>0, <1>3, ChainStays
<1>6. HandsAreSound'
  <2> SUFFICES ASSUME NEW v \in Writers PROVE HandIsSound(v)'
    BY DEF HandsAreSound
  <2>1. CASE v = w
    <3>1. Least(writer'[w].mine) = a /\ a \in disk'
      BY <1>0, <1>1, <1>2, <1>3
    <3>2. Least(writer[w].mine)' = Least(writer'[w].mine)
      BY DEF Least
    <3> QED
      BY <1>0, <1>1, <1>3, <1>4, <2>1, <3>1, <3>2 DEF HandIsSound, Holds
  <2>2. CASE v # w
    BY <1>0, <1>3, <2>2, OtherHands
  <2> QED
    BY <2>1, <2>2
<1>7. TailIsSound'
  <2>1. HasNewest(disk')
    <3>1. PICK m \in disk \cup {-1} : \A n \in disk \cup {-1} : n <= m
      BY DEF TailIsSound, HasNewest
    <3>2. CASE a <= m
      BY <1>0, <1>2, <3>1, <3>2 DEF HasNewest
    <3>3. CASE ~(a <= m)
      <4>1. \A n \in disk' \cup {-1} : n <= a
        BY <1>0, <1>2, <3>1, <3>3
      <4> QED
        BY <1>0, <1>2, <4>1 DEF HasNewest
    <3> QED
      BY <3>2, <3>3
  <2>2. seed = Unseeded /\ ~gone
    BY <1>4, UnseededAssumption DEF TailIsSound
  <2> QED
    BY <1>0, <1>2, <1>4, <2>1, <2>2 DEF TailIsSound, HasNewest
<1>8. NumbersAreUnique'
  <2>1. Pending(w)' = (a .. b) \ {a}
    BY <1>1, <1>3, LeastOfInterval DEF Pending, Least
  <2>2. Pending(w) = a .. b
    BY <1>0, <1>1 DEF Pending
  <2>3. \A v \in Writers : v # w => Pending(v)' = Pending(v) /\ a \notin writer[v].mine
    <3> SUFFICES ASSUME NEW v \in Writers, v # w
                 PROVE  Pending(v)' = Pending(v) /\ a \notin writer[v].mine
      OBVIOUS
    <3>1. Pending(v)' = Pending(v)
      BY <1>3 DEF Pending, Least
    <3>2. a \notin writer[v].mine
      BY <1>1 DEF NumbersAreUnique
    <3> QED
      BY <3>1, <3>2
  <2>4. \A v \in Writers : Pending(v) \subseteq writer[v].mine
    BY DEF Pending
  <2>5. \A v \in Writers : Pending(v)' \cap disk' = {}
    <3> SUFFICES ASSUME NEW v \in Writers PROVE Pending(v)' \cap disk' = {}
      OBVIOUS
    <3>1. Pending(v) \cap disk = {}
      BY DEF NumbersAreUnique
    <3>2. CASE v = w
      BY <1>0, <1>2, <2>1, <2>2, <3>1, <3>2
    <3>3. CASE v # w
      BY <1>0, <1>2, <2>3, <2>4, <3>1, <3>3
    <3> QED
      BY <3>2, <3>3
  <2>6. \A v \in Writers : writer'[v].mine = writer[v].mine
    BY <1>1, <1>3
  <2> QED
    BY <2>5, <2>6 DEF NumbersAreUnique
<1> QED
  BY <1>5, <1>6, <1>7, <1>8 DEF Invariants

\* A settled insert changes nobody's numbers.
LEMMA SettleKeeps ==
  ASSUME SeqSound, NEW w \in Writers, Settle(w)
  PROVE  Invariants' /\ Pending(w)' = Pending(w)
<1> USE DEF SeqSound
<1>0. /\ writer \in [Writers -> Slot]
      /\ writer[w].at = "inserted"
      /\ UNCHANGED <<tail, chain, seed, disk, gone>>
  BY DEF Settle, SeqTypeOK, Slot
<1>1. PICK a \in Nat, b \in Nat : a <= b /\ writer[w].mine = a .. b
  BY <1>0 DEF HandsAreSound, HandIsSound, Holds
<1>2. Least(writer[w].mine) = a
  BY <1>1, LeastOfInterval
<1> DEFINE rest == (a .. b) \ {a}
<1>3. /\ writer' = [writer EXCEPT ![w] =
           IF rest = {} THEN Idle ELSE [at |-> "holding", count |-> writer[w].count, mine |-> rest]]
      /\ writer'[w] = IF rest = {} THEN Idle ELSE [at |-> "holding", count |-> writer[w].count, mine |-> rest]
      /\ \A v \in Writers : v # w => writer'[v] = writer[v]
  <2>1. writer' = [writer EXCEPT ![w] = IF rest = {} THEN Idle
                     ELSE [at |-> "holding", count |-> writer[w].count, mine |-> rest]]
    BY <1>1, <1>2 DEF Settle
  <2> HIDE DEF rest
  <2> QED
    BY <1>0, <2>1
<1>4. /\ writer'[w].mine = rest
      /\ writer'[w].at = IF rest = {} THEN "idle" ELSE "holding"
  BY <1>3 DEF Idle
<1>5. Pending(w)' = rest /\ Pending(w) = rest
  BY <1>0, <1>1, <1>2, <1>4 DEF Pending
<1>6. ChainWaits'
  BY <1>0, <1>3, ChainStays
<1>7. HandsAreSound'
  <2> SUFFICES ASSUME NEW v \in Writers PROVE HandIsSound(v)'
    BY DEF HandsAreSound
  <2>1. CASE v = w
    <3>1. tail \in Nat /\ \A n \in a .. b : n <= tail
      BY <1>0, <1>1 DEF HandsAreSound, HandIsSound, Holds
    <3>2. rest # {} => a + 1 \in Nat /\ a + 1 <= b /\ rest = a + 1 .. b
      OBVIOUS
    <3> QED
      BY <1>0, <1>4, <2>1, <3>1, <3>2 DEF HandIsSound, Holds
  <2>2. CASE v # w
    BY <1>0, <1>3, <2>2, OtherHands
  <2> QED
    BY <2>1, <2>2
<1>8. TailIsSound'
  BY <1>0 DEF TailIsSound, HasNewest, MaxOnDisk
<1>9. NumbersAreUnique'
  BY <1>0, <1>1, <1>3, <1>4, <1>5, FewerHeld
<1> QED
  BY <1>5, <1>6, <1>7, <1>8, <1>9 DEF Invariants

\* A writer that gives up drops its numbers.
LEMMA GiveUpKeeps ==
  ASSUME SeqSound, NEW w \in Writers, GiveUp(w)
  PROVE  Invariants' /\ Pending(w)' = {}
<1> USE DEF SeqSound
<1>0. /\ writer \in [Writers -> Slot]
      /\ writer[w].at = "holding"
      /\ writer' = [writer EXCEPT ![w] = Idle]
      /\ UNCHANGED <<tail, chain, seed, disk, gone>>
  BY DEF GiveUp, InsertFails, NeverWrites, SeqTypeOK, Slot
<1>1. writer'[w] = Idle /\ \A v \in Writers : v # w => writer'[v] = writer[v]
  BY <1>0
<1>2. Pending(w)' = {} /\ writer'[w].mine = {}
  BY <1>1 DEF Pending, Idle
<1>3. ChainWaits'
  BY <1>0, <1>1, ChainStays
<1>4. HandsAreSound'
  <2> SUFFICES ASSUME NEW v \in Writers PROVE HandIsSound(v)'
    BY DEF HandsAreSound
  <2>1. CASE v = w
    BY <1>1, <2>1 DEF HandIsSound, Holds, Idle
  <2>2. CASE v # w
    BY <1>0, <1>1, <2>2, OtherHands
  <2> QED
    BY <2>1, <2>2
<1>5. TailIsSound'
  BY <1>0 DEF TailIsSound, HasNewest, MaxOnDisk
<1>6. NumbersAreUnique'
  BY <1>0, <1>1, <1>2, FewerHeld
<1> QED
  BY <1>2, <1>3, <1>4, <1>5, <1>6 DEF Invariants

\* A new launch, or the end of the run: nothing is held.
LEMMA ForgetKeeps ==
  ASSUME SeqSound, ForgetAll, disk' = disk \/ disk' = {}, gone' => disk' = {}
  PROVE  Invariants' /\ \A w \in Writers : Pending(w)' = {}
<1> USE DEF SeqSound
<1>1. /\ tail' = Unseeded /\ seed' = Unseeded /\ chain' = <<>>
      /\ \A w \in Writers : writer'[w] = Idle
  BY DEF ForgetAll
<1>2. \A w \in Writers : Pending(w)' = {} /\ writer'[w].mine = {}
  BY <1>1 DEF Pending, Idle
<1>3. ChainWaits'
  BY <1>1 DEF ChainWaits
<1>4. HandsAreSound'
  BY <1>1 DEF HandsAreSound, HandIsSound, Holds, Idle
<1>5. TailIsSound'
  BY <1>1, UnseededAssumption DEF TailIsSound, HasNewest
<1>6. NumbersAreUnique'
  BY <1>2 DEF NumbersAreUnique
<1> QED
  BY <1>2, <1>3, <1>4, <1>5, <1>6 DEF Invariants

----------------------------------------------------------------------------

\* Every step keeps the invariant.
LEMMA SeqStepSound == SeqSound /\ [SeqNext]_seqVars => SeqSound'
<1> SUFFICES ASSUME SeqSound, [SeqNext]_seqVars PROVE Invariants'
  BY TypeKept DEF SeqSound, Invariants
<1>1. CASE Restart
  BY <1>1, ForgetKeeps DEF Restart, SeqSound, TailIsSound
<1>2. CASE Destroy
  BY <1>2, ForgetKeeps DEF Destroy
<1>3. CASE UNCHANGED seqVars
  BY <1>3, NothingMoved DEF seqVars
<1>4. CASE Allocating
  BY <1>4, ReserveKeeps, ReadSeedKeeps, SeedFailsKeeps, AllocateKeeps, AbandonKeeps
     DEF Allocating
<1>5. CASE \E w \in Writers : Insert(w) \/ Settle(w) \/ GiveUp(w)
  BY <1>5, InsertKeeps, SettleKeeps, GiveUpKeeps
<1> QED
  BY <1>1, <1>2, <1>3, <1>4, <1>5 DEF SeqNext

\* item-seq.allocator.ts: whatever writers, failures, launches and deletions
\* do, what is held and what is written is numbered apart.
THEOREM SequenceIsSound == SeqSpec => []SeqSound
BY SeqInitSound, SeqStepSound, PTL DEF SeqSpec

\* The allocator's and the writers' state keeps its shape.
THEOREM SeqTypeCorrect == SeqSpec => []SeqTypeOK
<1>1. SeqSound => SeqTypeOK
  BY DEF SeqSound
<1> QED
  BY <1>1, SequenceIsSound, PTL

\* Two rows of a run never share a number.
THEOREM RowsAreNumberedApart == SeqSpec => []NumbersAreUnique
<1>1. SeqSound => NumbersAreUnique
  BY DEF SeqSound
<1> QED
  BY <1>1, SequenceIsSound, PTL

----------------------------------------------------------------------------
(* The ledger                                                              *)

\* An allocator at its start is an empty ledger.
LEMMA LedgerInit == SeqInit => LedgerOf!Init
<1> SUFFICES ASSUME SeqInit PROVE LedgerOf!Init
  OBVIOUS
<1>1. MaxOnDisk = -1
  BY DEF SeqInit, MaxOnDisk
<1>2. \A w \in Writers : Pending(w) = {}
  BY DEF SeqInit, Pending, Idle
<1> QED
  BY <1>1, <1>2 DEF SeqInit, LedgerOf!Init

Top == IF gone THEN -1 ELSE IF tail = Unseeded THEN MaxOnDisk ELSE tail
Out == UNION {Pending(w) : w \in Writers}

\* A step that moves no hand, no row and no tail is a stutter of the ledger.
LEMMA LedgerStutters ==
  ASSUME \A w \in Writers : Pending(w)' = Pending(w), tail' = tail, disk' = disk, gone' = gone
  PROVE  UNCHANGED LedgerOf!ledgerVars
<1>1. Out' = Out
  BY DEF Out
<1>2. Top' = Top
  BY DEF Top, MaxOnDisk
<1> QED
  BY <1>1, <1>2 DEF LedgerOf!ledgerVars, Out, Top

\* Joining the chain is hidden from the ledger.
LEMMA ReserveHidden ==
  ASSUME SeqSound, NEW w \in Writers, NEW count \in Counts, Reserve(w, count)
  PROVE  UNCHANGED LedgerOf!ledgerVars
<1>1. writer \in [Writers -> Slot]
  BY DEF SeqSound, SeqTypeOK, Slot
<1>2. /\ writer'[w] = [at |-> "waiting", count |-> count, mine |-> {}]
      /\ \A v \in Writers : v # w => writer'[v] = writer[v]
  BY <1>1 DEF Reserve, Idle
<1>3. writer[w].mine = {} /\ writer[w].at = "idle"
  BY DEF Reserve, SeqSound, HandsAreSound, HandIsSound, Holds
<1>4. \A v \in Writers : Pending(v)' = Pending(v)
  BY <1>2, <1>3 DEF Pending, Least
<1> QED
  BY <1>4, LedgerStutters DEF Reserve

\* A failed read of the seed is hidden from the ledger.
LEMMA SeedFailsHidden ==
  ASSUME SeqSound, SeedFails
  PROVE  UNCHANGED LedgerOf!ledgerVars
<1>1. PICK w \in Writers : w = Head(chain)
  <2>1. Head(chain) \in Writers
    BY DEF SeedFails, SeqSound, SeqTypeOK
  <2> QED
    BY <2>1
<1>2. writer \in [Writers -> Slot] /\ writer' = [writer EXCEPT ![w] = Idle]
  BY <1>1 DEF SeedFails, SeqSound, SeqTypeOK, Slot
<1>3. writer[w].mine = {} /\ ~Holds(w)
  BY NothingHeldUnseeded DEF SeedFails
<1>4. Pending(w)' = {} /\ Pending(w) = {}
  BY <1>2, <1>3 DEF Pending, Idle, Holds
<1>5. \A v \in Writers : v # w => Pending(v)' = Pending(v)
  BY <1>2 DEF Pending, Least
<1> QED
  BY <1>4, <1>5, LedgerStutters DEF SeedFails

\* The end of allocate, however long it waited, is the moment of giving.
LEMMA AllocateGives ==
  ASSUME SeqSound, Allocate
  PROVE  LedgerOf!Next
<1>1. PICK w \in Writers : w = Head(chain)
  <2>1. Head(chain) \in Writers
    BY DEF Allocate, SeqSound, SeqTypeOK
  <2> QED
    BY <2>1
<1> DEFINE count == writer[w].count
           mine == Numbers(count)
<1>2. /\ writer \in [Writers -> Slot] /\ w = chain[1] /\ 1 \in 1 .. Len(chain)
      /\ chain # <<>> /\ (tail # Unseeded \/ seed # Unseeded)
      /\ tail' = Base + count /\ UNCHANGED <<disk, gone>>
      /\ writer' = [writer EXCEPT ![w].at = "holding", ![w].mine = mine]
  BY <1>1 DEF Allocate, SeqSound, SeqTypeOK, Slot
<1>3. count \in Counts /\ count \in Nat \ {0} /\ writer[w].at = "waiting" /\ writer[w].mine = {}
  BY <1>2, CountsAssumption DEF SeqSound, ChainWaits, HandsAreSound, HandIsSound, Holds
<1>4. ~gone
  BY <1>2 DEF SeqSound, TailIsSound
<1>5. Top = Base /\ Base \in Int
  BY <1>2, <1>4 DEF Top, Base, SeqSound, TailIsSound, SeqTypeOK
<1>6. Top' = Top + count
  BY <1>2, <1>3, <1>4, <1>5, UnseededAssumption DEF Top
<1>7. mine = Top + 1 .. Top + count
  BY <1>5 DEF Numbers
<1> HIDE DEF mine, count
<1>8. Pending(w)' = mine /\ Pending(w) = {}
  BY <1>2, <1>3 DEF Pending, Slot
<1>9. \A v \in Writers : v # w => Pending(v)' = Pending(v)
  BY <1>2 DEF Pending, Least
<1>10. Out' = Out \cup mine
  BY <1>8, <1>9 DEF Out
<1>11. LedgerOf!Give(count)
  BY <1>2, <1>6, <1>7, <1>10 DEF LedgerOf!Give, Top, Out
<1> QED
  BY <1>3, <1>11 DEF LedgerOf!Next

\* An insert writes the number in the ledger.
LEMMA InsertWrites ==
  ASSUME SeqSound, NEW w \in Writers, Insert(w)
  PROVE  LedgerOf!Next
<1>1. /\ writer \in [Writers -> Slot] /\ writer[w].at = "holding"
      /\ disk' = disk \cup {Least(writer[w].mine)}
      /\ writer' = [writer EXCEPT ![w] = [@ EXCEPT !.at = "inserted"]]
      /\ UNCHANGED <<tail, gone>>
  BY DEF Insert, SeqSound, SeqTypeOK, Slot
<1>2. PICK a \in Nat, b \in Nat : a <= b /\ writer[w].mine = a .. b
  BY <1>1 DEF SeqSound, HandsAreSound, HandIsSound, Holds
<1>3. Least(writer[w].mine) = a
  BY <1>2, LeastOfInterval
<1>4. writer'[w].at = "inserted" /\ writer'[w].mine = a .. b
  BY <1>1, <1>2 DEF Slot
<1>5. Pending(w) = a .. b /\ Pending(w)' = (a .. b) \ {a}
  <2>1. Pending(w) = a .. b
    BY <1>1, <1>2 DEF Pending
  <2>2. Least(writer'[w].mine) = a
    BY <1>2, <1>3, <1>4
  <2>3. Pending(w)' = writer'[w].mine \ {Least(writer'[w].mine)}
    BY <1>4 DEF Pending, Least
  <2> QED
    BY <1>4, <2>1, <2>2, <2>3
<1>6. \A v \in Writers : v # w => Pending(v)' = Pending(v) /\ a \notin Pending(v)
  <2> SUFFICES ASSUME NEW v \in Writers, v # w
               PROVE  Pending(v)' = Pending(v) /\ a \notin Pending(v)
    OBVIOUS
  <2>1. Pending(v)' = Pending(v)
    BY <1>1 DEF Pending, Least
  <2>2. a \notin writer[v].mine
    BY <1>2 DEF SeqSound, NumbersAreUnique
  <2>3. a \notin Pending(v)
    BY <2>2 DEF Pending
  <2> QED
    BY <2>1, <2>3
<1>7. Out' = Out \ {a} /\ a \in Out
  <2>1. a \in a .. b
    BY <1>2
  <2>2. ASSUME NEW n PROVE n \in Out' <=> n \in Out \ {a}
    BY <1>5, <1>6 DEF Out
  <2>3. Out' = Out \ {a}
    BY <2>2
  <2> QED
    BY <1>5, <2>1, <2>3 DEF Out
<1>8. Top' = Top
  <2>1. tail \in Nat
    BY <1>1 DEF SeqSound, HandsAreSound, HandIsSound, Holds
  <2>2. tail # Unseeded
    BY <2>1, UnseededAssumption
  <2> QED
    BY <1>1, <2>2 DEF Top
<1>9. LedgerOf!Write(a)
  BY <1>1, <1>3, <1>7, <1>8 DEF LedgerOf!Write, Top, Out
<1> QED
  BY <1>7, <1>9 DEF LedgerOf!Next, Out

\* Giving up voids the numbers in the ledger.
LEMMA GiveUpVoids ==
  ASSUME SeqSound, NEW w \in Writers, GiveUp(w)
  PROVE  LedgerOf!Next
<1>1. /\ writer \in [Writers -> Slot]
      /\ writer' = [writer EXCEPT ![w] = Idle]
      /\ UNCHANGED <<tail, disk, gone>>
  BY DEF GiveUp, InsertFails, NeverWrites, SeqSound, SeqTypeOK, Slot
<1>2. Pending(w)' = {}
  BY GiveUpKeeps
<1>3. \A v \in Writers : v # w => Pending(v)' = Pending(v)
  BY <1>1 DEF Pending, Least
<1>4. Out' \subseteq Out
  BY <1>2, <1>3 DEF Out
<1>5. Top' = Top
  BY <1>1 DEF Top, MaxOnDisk
<1>6. Out' = Out \ (Out \ Out') /\ Out \ Out' \in SUBSET Out
  BY <1>4
<1>7. LedgerOf!Void(Out \ Out')
  BY <1>1, <1>5, <1>6 DEF LedgerOf!Void, Top, Out
<1> QED
  BY <1>6, <1>7 DEF LedgerOf!Next, Out

\* A restart reopens the ledger.
LEMMA RestartReopens ==
  ASSUME SeqSound, Restart
  PROVE  LedgerOf!Next
<1>1. /\ tail' = Unseeded /\ UNCHANGED <<disk, gone>>
      /\ \A w \in Writers : Pending(w)' = {}
  <2>1. gone' => disk' = {}
    BY DEF Restart, SeqSound, TailIsSound
  <2> QED
    BY <2>1, ForgetKeeps DEF Restart, ForgetAll
<1>2. Out' = {}
  BY <1>1 DEF Out
<1>3. MaxOnDisk' = MaxOnDisk
  BY <1>1 DEF MaxOnDisk
<1>4. Top' \in disk \cup {-1} /\ \A n \in disk : n <= Top'
  BY <1>1, <1>3, NewestExists DEF Top, SeqSound, SeqTypeOK, TailIsSound
<1>5. LedgerOf!Reopen
  BY <1>1, <1>2, <1>4 DEF LedgerOf!Reopen, Top, Out
<1> QED
  BY <1>5 DEF LedgerOf!Next

\* The teardown closes the ledger.
LEMMA DestroyCloses ==
  ASSUME SeqSound, Destroy
  PROVE  LedgerOf!Next
<1>1. /\ gone' = TRUE /\ disk' = {}
      /\ \A w \in Writers : Pending(w)' = {}
  BY ForgetKeeps DEF Destroy
<1>2. Out' = {}
  BY <1>1 DEF Out
<1>3. Top' = -1
  BY <1>1 DEF Top
<1>4. LedgerOf!Close
  BY <1>1, <1>2, <1>3 DEF LedgerOf!Close, Top, Out
<1> QED
  BY <1>4 DEF LedgerOf!Next

\* Every step of the allocator is a step of the ledger or none.
LEMMA LedgerSteps ==
  SeqSound /\ [SeqNext]_seqVars => [LedgerOf!Next]_LedgerOf!ledgerVars
<1> SUFFICES ASSUME SeqSound, [SeqNext]_seqVars
             PROVE  LedgerOf!Next \/ UNCHANGED LedgerOf!ledgerVars
  OBVIOUS
<1>1. ASSUME UNCHANGED <<writer, tail, disk, gone>> PROVE UNCHANGED LedgerOf!ledgerVars
  BY <1>1, LedgerStutters DEF Pending, Least
<1>2. CASE UNCHANGED seqVars
  BY <1>1, <1>2 DEF seqVars
<1>3. CASE ReadSeed
  BY <1>1, <1>3 DEF ReadSeed
<1>4. ASSUME NEW n \in unwritten, Abandon(n) PROVE UNCHANGED LedgerOf!ledgerVars
  BY <1>1, <1>4 DEF Abandon
<1>5. ASSUME NEW w \in Writers, Settle(w) PROVE UNCHANGED LedgerOf!ledgerVars
  <2>1. Pending(w)' = Pending(w)
    BY <1>5, SettleKeeps
  <2>2. UNCHANGED <<tail, disk, gone>> /\ \A v \in Writers : v # w => writer'[v] = writer[v]
    BY <1>5 DEF Settle, SeqSound, SeqTypeOK
  <2>3. \A v \in Writers : Pending(v)' = Pending(v)
    BY <2>1, <2>2 DEF Pending, Least
  <2> QED
    BY <2>2, <2>3, LedgerStutters
<1>6. CASE Allocating
  BY <1>3, <1>4, <1>6, ReserveHidden, SeedFailsHidden, AllocateGives DEF Allocating
<1>7. CASE \E w \in Writers : Insert(w) \/ Settle(w) \/ GiveUp(w)
  BY <1>5, <1>7, InsertWrites, GiveUpVoids
<1> QED
  BY <1>2, <1>6, <1>7, RestartReopens, DestroyCloses DEF SeqNext

\* The allocator, its awaits and its failures included, is one atomic counter
\* of each run's rows.
THEOREM LedgerIsImplemented == SeqSpec => ImplementsLedger
<1>1. SeqInit => LedgerOf!Init
  BY LedgerInit
<1>2. SeqSound /\ [SeqNext]_seqVars => [LedgerOf!Next]_LedgerOf!ledgerVars
  BY LedgerSteps
<1> QED
  BY <1>1, <1>2, SequenceIsSound, PTL DEF SeqSpec, ImplementsLedger, LedgerOf!Spec
=============================================================================
