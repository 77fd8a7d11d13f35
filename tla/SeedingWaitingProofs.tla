------------------------ MODULE SeedingWaitingProofs ------------------------
(***************************************************************************)
(* Seeds do not wait for each other in a circle.  Every seed goes through  *)
(* the same levels in the same order: the administrator, the contest, the  *)
(* retired questions, the questions of the catalogue one by one.  What it  *)
(* has flushed is below what it has not (InOrder), so that the one whose   *)
(* next lock is highest waits for nobody who waits.                        *)
(***************************************************************************)
EXTENDS SeedingProofs

Top == Len(Catalogue) + 2

LEMMA TopIsNat == Top \in Nat /\ Len(Catalogue) \in Nat
BY CatalogueFacts, SMT DEF Top

LEMMA TitleLevel ==
    ASSUME NEW n \in 1..Len(Catalogue)
    PROVE  QuestionLevel(Catalogue[n]) = 2 + n
<1>1. Catalogue[n] \in Titles /\ Catalogue[n] \notin Retired
  BY CatalogueFacts, CatalogueAssumption
<1>2. \A m \in 1..Len(Catalogue) : Catalogue[m] = Catalogue[n] => m = n
  BY CatalogueAssumption
<1>3. (CHOOSE m \in 1..Len(Catalogue) : Catalogue[m] = Catalogue[n]) = n
  BY <1>2
<1>4. QED
  BY <1>1, <1>3 DEF QuestionLevel

LEMMA QuestionLevelType ==
    ASSUME NEW key \in Titles \cup Retired
    PROVE  QuestionLevel(key) \in 2..Top
<1>1. CASE key \in Retired
  <2>1. QuestionLevel(key) = 2
    BY <1>1 DEF QuestionLevel
  <2>2. QED
    BY <2>1, TopIsNat, SMT DEF Top
<1>2. CASE key \in Titles
  <2>1. PICK n \in 1..Len(Catalogue) : key = Catalogue[n]
    BY <1>2 DEF Titles
  <2>2. QuestionLevel(key) = 2 + n
    BY <2>1, TitleLevel
  <2>3. QED
    BY <2>2, TopIsNat, SMT DEF Top
<1>3. QED
  BY <1>1, <1>2

LEMMA QuestionKey ==
    ASSUME TypeOK, NEW i \in Ids, db[i] # Null, db[i].table = "question"
    PROVE  db[i].key \in Titles \cup Retired
BY RowFacts, RowTypes

LEMMA LevelType ==
    ASSUME TypeOK, NEW i \in Ids, db[i] # Null
    PROVE  Level(i) \in 0..Top
<1>1. /\ db[i].table \in {"user", "test", "question", "case", "submission"}
      /\ db[i].table \in {"case", "submission"} =>
            /\ db[i].parent \in Ids /\ db[db[i].parent] # Null
            /\ db[db[i].parent].table = "question"
  BY RowFacts DEF ParentTable
<1>2. CASE db[i].table = "user"
  <2>1. Level(i) = 0
    BY <1>2 DEF Level
  <2>2. QED
    BY <2>1, TopIsNat, SMT
<1>3. CASE db[i].table = "test"
  <2>1. Level(i) = 1
    BY <1>3 DEF Level
  <2>2. QED
    BY <2>1, TopIsNat, SMT DEF Top
<1>4. 2..Top \subseteq 0..Top
  BY TopIsNat, SMT
<1>5. CASE db[i].table = "question"
  <2>1. Level(i) = QuestionLevel(db[i].key)
    BY <1>5 DEF Level
  <2>2. QED
    BY <1>4, <1>5, <2>1, QuestionKey, QuestionLevelType
<1>6. CASE db[i].table \in {"case", "submission"}
  <2>1. Level(i) = QuestionLevel(db[db[i].parent].key)
    BY <1>6 DEF Level
  <2>2. db[db[i].parent].key \in Titles \cup Retired
    BY <1>1, <1>6, QuestionKey
  <2>3. QED
    BY <1>4, <2>1, <2>2, QuestionLevelType
<1>7. QED
  BY <1>1, <1>2, <1>3, <1>5, <1>6

LEMMA RankType ==
    ASSUME Base, NEW p \in Seeders, Running(p), NEW w \in Pending(p), Locks(w)
    PROVE  Rank(w) \in 0..Top /\ Rank(w) \in Nat
<1>1. TypeOK /\ w.id \in Ids
  BY PendingFacts DEF Base
<1>2. Rank(w) \in 0..Top
  <2>1. CASE w.op = "insert"
    <3>1. Rank(w) = 0
      BY <2>1 DEF Rank
    <3>2. QED
      BY <3>1, TopIsNat, SMT
  <2>2. CASE w.op # "insert"
    BY <1>1, <2>2, LevelType DEF Rank, Locks
  <2>3. QED
    BY <2>1, <2>2
<1>3. QED
  BY <1>2, TopIsNat, SMT

LEMMA AheadType ==
    ASSUME NEW p, seed[p].nth \in Nat
    PROVE  Ahead(p) \in Nat
BY SMT DEF Ahead

-----------------------------------------------------------------------------
(* Waiting for a seed is waiting at the level of something it has flushed *)

LEMMA BlockedBy ==
    ASSUME Base, NEW p \in Seeders, NEW q \in Seeders, q # p, Running(p), Running(q),
           NEW w \in seed[p].unsent, Blocks(q, w)
    PROVE  Locks(w) /\ \E x \in seed[q].sent : Locks(x) /\ Rank(x) = Rank(w)
<1>1. /\ TypeOK /\ w \in Pending(p) /\ w.id \in Ids /\ WriteFits(p, w)
      /\ w.op \in {"insert", "update", "delete"}
  BY PendingFacts DEF Base
<1>2. \A x \in seed[q].sent : /\ x \in Pending(q) /\ WriteFits(q, x) /\ x.id \in Ids
                              /\ x.op \in {"insert", "update", "delete"}
  BY PendingFacts
\* What is deleted and still there is a retired question or a case.
<1>3. ASSUME NEW i \in Removing(q)
      PROVE  /\ i \in Ids /\ db[i] # Null
             /\ \E x \in seed[q].sent : x.op = "delete" /\ x.id = i
             /\ (db[i].table = "question" /\ db[i].key \in Retired) \/ db[i].table = "case"
  <2>1. PICK x \in seed[q].sent : x.op = "delete" /\ x.id = i /\ db[i] # Null
    BY DEF Removing, Deleted
  <2>2. QED
    BY <1>2, <2>1 DEF WriteFits
<1>4. CASE w.op # "insert"
  <2>1. w.id \in Locked(q)
    BY <1>4 DEF Blocks
  <2>2. db[w.id] # Null /\ Locks(w) /\ Rank(w) = Level(w.id)
    BY <1>4, <2>1 DEF Locked, Locks, Rank
  <2>3. CASE \E x \in seed[q].sent : x.op # "insert" /\ x.id = w.id
    BY <2>2, <2>3 DEF Locks, Rank
  <2>4. CASE db[w.id].parent \in Removing(q)
    <3>1. PICK i \in Removing(q) : i = db[w.id].parent
      BY <2>4
    <3>2. PICK x \in seed[q].sent : x.op = "delete" /\ x.id = i /\ db[i] # Null
      BY <1>3
    <3>3. /\ db[i].table = ParentTable(db[w.id].table)
          /\ db[w.id].table \in {"test", "question", "case", "submission"}
      <4>1. i \in Ids /\ i # Null
        BY <1>3, <3>1, IdFacts
      <4>2. /\ db[w.id].table # "user" => db[db[w.id].parent].table = ParentTable(db[w.id].table)
            /\ db[w.id].table = "user" => db[w.id].parent = Null
            /\ db[w.id].table \in {"user", "test", "question", "case", "submission"}
        BY <1>1, <2>2, RowFacts
      <4>3. QED
        BY <3>1, <4>1, <4>2
    <3>4. db[i].table = "question" /\ db[w.id].table \in {"case", "submission"}
      BY <1>3, <3>3 DEF ParentTable
    <3>5. Level(w.id) = QuestionLevel(db[i].key) /\ Level(i) = QuestionLevel(db[i].key)
      BY <3>1, <3>4 DEF Level
    <3>6. Locks(x) /\ Rank(x) = Level(i)
      BY <3>2 DEF Locks, Rank
    <3>7. QED
      BY <2>2, <3>5, <3>6
  <2>5. QED
    BY <2>1, <2>3, <2>4 DEF Locked
<1>5. CASE w.op = "insert"
  <2>1. ContentFits(p, w.row) /\ w.row.table \in {"user", "test", "question", "case"}
    BY <1>1, <1>5, ContentTypes
  <2>2. ASSUME w.row.parent \in Removing(q) PROVE FALSE
    <3>1. PICK i \in Ids : i = w.row.parent /\ db[i] # Null
              /\ ((db[i].table = "question" /\ db[i].key \in Retired) \/ db[i].table = "case")
      BY <1>3, <2>2
    <3>2. db[i] \in RowsAt(p, i)
      BY <3>1 DEF RowsAt
    <3>3. w.row.parent \in Ids
      BY <3>1
    <3>4. SessionFits(p) /\ seed[p].pc \in SeedPCs
      BY PendingFacts, SessionTypes
    <3>5. CASE w.row.table = "user"
      BY <1>1, <1>5, <3>3, <3>5, ContentTypes, IdFacts
    <3>6. CASE w.row.table = "test"
      <4>1. i = seed[p].admin /\ HasAdmin(p)
        BY <1>1, <1>5, <3>1, <3>4, <3>6, ContentTypes, IdFacts DEF SessionFits, PlaceFits
      <4>2. QED
        BY <3>1, <3>2, <4>1, OneRowAt DEF HasAdmin
    <3>7. CASE w.row.table = "question"
      <4>1. i = seed[p].test /\ HasTest(p)
        BY <1>1, <1>5, <3>1, <3>4, <3>7, ContentTypes, IdFacts DEF SessionFits, PlaceFits
      <4>2. QED
        BY <3>1, <3>2, <4>1, OneRowAt DEF HasTest
    <3>8. CASE w.row.table = "case"
      <4>1. i \in seed[p].synced
        BY <1>1, <1>5, <3>1, <3>8, ContentTypes
      <4>2. db[i].table = "question" /\ db[i].key \in Titles
        BY <3>1, <4>1, SyncedIds
      <4>3. QED
        BY <3>1, <4>2, CatalogueFacts
    <3>9. QED
      BY <2>1, <3>5, <3>6, <3>7, <3>8
  <2>3. /\ w.row.table = "user"
        /\ \E x \in seed[q].sent : x.op = "insert" /\ x.row.table = "user"
    BY <1>5, <2>2 DEF Blocks
  <2>4. QED
    BY <1>5, <2>3 DEF Locks, Rank
<1>6. QED
  BY <1>4, <1>5

\* So locks in order are no circle: somebody waits at the highest level, and
\* whoever is waited for there goes on.
LEMMA NoCircle ==
    ASSUME IndInv, LocksInOrder
    PROVE  WaitingEnds
<1>1. Base /\ TypeOK
  BY DEF IndInv, Base
<1> SUFFICES ASSUME NEW v \in Seeders, Waiting(v),
                    \A q \in Seeders : Running(q) => ~CanGoOn(q)
             PROVE  FALSE
  BY DEF WaitingEnds
<1>2. ASSUME NEW p \in Seeders, Running(p)
      PROVE  \E q \in Seeders \ {p} : Running(q) /\ \E w \in seed[p].unsent : Blocks(q, w)
  <2>1. seed[p].pc \in SeedPCs
    BY <1>1, <1>2, RunningSession, SessionTypes
  <2>2. ~Unblocked(p)
    BY <1>2, <2>1 DEF CanGoOn
  <2>3. QED
    BY <2>2 DEF Unblocked
<1>3. Running(v)
  BY <1>1, RunningSession DEF Waiting, SeedPCs
<1> DEFINE Stuck(m) == \E p \in Seeders : \E q \in Seeders \ {p} : \E w \in seed[p].unsent :
                          Running(p) /\ Running(q) /\ Blocks(q, w) /\ m + Rank(w) = Top
           S == {m \in Nat : Stuck(m)}
<1>4. ASSUME NEW p \in Seeders, NEW q \in Seeders \ {p}, NEW w \in seed[p].unsent,
             Running(p), Running(q), Blocks(q, w)
      PROVE  /\ Rank(w) \in 0..Top /\ Locks(w) /\ Top - Rank(w) \in S
             /\ \E x \in seed[q].sent : Locks(x) /\ Rank(x) = Rank(w)
  <2>1. Locks(w) /\ \E x \in seed[q].sent : Locks(x) /\ Rank(x) = Rank(w)
    BY <1>1, <1>4, BlockedBy
  <2>2. w \in Pending(p)
    BY DEF Pending
  <2>3. Rank(w) \in 0..Top
    BY <1>1, <1>4, <2>1, <2>2, RankType
  <2>4. Top - Rank(w) \in Nat /\ (Top - Rank(w)) + Rank(w) = Top
    BY <2>3, TopIsNat, SMT
  <2>5. QED
    BY <1>4, <2>1, <2>3, <2>4
<1>5. S # {} /\ S \subseteq Nat
  <2>1. PICK q \in Seeders \ {v} : Running(q) /\ \E w \in seed[v].unsent : Blocks(q, w)
    BY <1>2, <1>3
  <2>2. PICK w \in seed[v].unsent : Blocks(q, w)
    BY <2>1
  <2>3. Top - Rank(w) \in S
    BY <1>3, <1>4, <2>1, <2>2
  <2>4. QED
    BY <2>3
<1> HIDE DEF S
<1>6. PICK m \in S : \A n \in S : m <= n
  BY <1>5, LeastOf
<1>7. m \in Nat /\ Stuck(m)
  BY <1>6 DEF S
<1>8. PICK p \in Seeders :
           \E q \in Seeders \ {p} : \E w \in seed[p].unsent :
               Running(p) /\ Running(q) /\ Blocks(q, w) /\ m + Rank(w) = Top
  BY <1>7
<1>9. PICK q \in Seeders \ {p} :
           \E w \in seed[p].unsent : Running(p) /\ Running(q) /\ Blocks(q, w) /\ m + Rank(w) = Top
  BY <1>8
<1>10. PICK w \in seed[p].unsent : Running(p) /\ Running(q) /\ Blocks(q, w) /\ m + Rank(w) = Top
  BY <1>9
<1>11. PICK x \in seed[q].sent : Locks(x) /\ Rank(x) = Rank(w) /\ Rank(w) \in 0..Top
  BY <1>4, <1>10
<1>12. PICK u \in Seeders \ {q} : Running(u) /\ \E y \in seed[q].unsent : Blocks(u, y)
  BY <1>2, <1>10
<1>13. PICK y \in seed[q].unsent : Blocks(u, y)
  BY <1>12
<1>14. Locks(y) /\ Rank(y) \in 0..Top /\ Top - Rank(y) \in S
  BY <1>4, <1>10, <1>12, <1>13
<1>15. Rank(x) < Rank(y)
  BY <1>10, <1>11, <1>14 DEF LocksInOrder, InOrder
<1>16. m <= Top - Rank(y)
  BY <1>6, <1>14
<1>17. QED
  BY <1>7, <1>10, <1>11, <1>14, <1>15, <1>16, TopIsNat, SMT

-----------------------------------------------------------------------------
(* Sessions that do not step *)

\* What others commit leaves levels as they are.
SameLevels(q) ==
    /\ \A i \in Ids : db[i] # Null /\ db'[i] # Null => SameRow(db[i], db'[i])
    /\ \A w \in Pending(q) : db[w.id] = Null => db'[w.id] = Null

LEMMA LevelStays ==
    ASSUME TypeOK, TypeOK', NEW CONSTANT i \in Ids, db[i] # Null, db'[i] # Null,
           \A j \in Ids : db[j] # Null /\ db'[j] # Null => SameRow(db[j], db'[j])
    PROVE  Level(i)' = Level(i)
<1>1. db'[i].table = db[i].table /\ db'[i].key = db[i].key
      /\ (db[i].table # "test" => db'[i].parent = db[i].parent)
  BY DEF SameRow
<1>2. CASE db[i].table \in {"user", "test", "question"}
  BY <1>1, <1>2 DEF Level, QuestionLevel
<1>3. CASE db[i].table \in {"case", "submission"}
  <2>1. db[i].parent \in Ids /\ db[db[i].parent] # Null
    BY <1>3, RowFacts
  <2>2. Fits(db', i)
    BY DEF TypeOK
  <2>3. db'[i].parent = db[i].parent /\ db'[db[i].parent] # Null
    BY <1>1, <1>3, <2>2 DEF Fits
  <2>4. db'[db[i].parent].key = db[db[i].parent].key
    BY <2>1, <2>3 DEF SameRow
  <2>5. QED
    BY <1>1, <1>3, <2>3, <2>4 DEF Level, QuestionLevel
<1>4. QED
  BY <1>2, <1>3, RowFacts

LEMMA AheadStays ==
    ASSUME NEW q, Keeps(q)
    PROVE  Ahead(q)' = Ahead(q)
BY DEF Keeps, Ahead, BeforeTest, BeforeCheck

LEMMA InOrderStays ==
    ASSUME Base, TypeOK', NEW q \in Seeders, Running(q), Keeps(q), SameLevels(q), InOrder(q)
    PROVE  InOrder(q)'
<1>1. TypeOK
  BY DEF Base
<1>2. ASSUME NEW w \in Pending(q), Locks(w)'
      PROVE  Locks(w) /\ Rank(w)' = Rank(w)
  <2>1. w.id \in Ids
    BY PendingFacts
  <2>2. CASE w.op = "insert"
    BY <1>2, <2>2 DEF Locks, Rank
  <2>3. CASE w.op # "insert"
    <3>1. db'[w.id] # Null /\ db[w.id] # Null
      BY <1>2, <2>3 DEF Locks, SameLevels
    <3>2. PICK i \in Ids : i = w.id
      BY <2>1
    <3>3. Level(i)' = Level(i)
      BY <1>1, <3>1, <3>2, LevelStays DEF SameLevels
    <3>4. QED
      BY <2>3, <3>1, <3>2, <3>3 DEF Locks, Rank
  <2>4. QED
    BY <2>2, <2>3
<1>3. /\ seed'[q].sent = seed[q].sent /\ seed'[q].unsent = seed[q].unsent
      /\ seed'[q].pc = seed[q].pc /\ Ahead(q)' = Ahead(q)
  BY AheadStays DEF Keeps
<1>4. seed[q].sent \subseteq Pending(q) /\ seed[q].unsent \subseteq Pending(q)
  BY DEF Pending
<1>5. QED
  BY <1>2, <1>3, <1>4 DEF InOrder

\* Whatever happens in a step, every session but the one that steps is left so.
LEMMA InsertedLevels ==
    ASSUME Base, NEW row \in Row, InsertRow(row), NEW q \in Seeders, Running(q)
    PROVE  SameLevels(q)
<1>1. TypeOK
  BY DEF Base
<1>2. CASE db' = db
  BY <1>2 DEF SameLevels, SameRow
<1>3. CASE given + 1 \in Ids /\ db' = [db EXCEPT ![given + 1] = row]
  <2>1. given \in Nat /\ ~(given + 1 <= given)
    BY <1>1, GivenFacts, SMT
  <2>2. db[given + 1] = Null
    BY <1>3, <2>1 DEF Base, DatabaseInv
  <2>3. \A w \in Pending(q) : w.id # given + 1
    BY <2>1, PendingFacts DEF WriteFits
  <2>4. \A i \in Ids : i # given + 1 => db'[i] = db[i]
    BY <1>1, <1>3 DEF TypeOK
  <2>5. \A w \in Pending(q) : w.id \in Ids
    BY PendingFacts
  <2>6. QED
    BY <2>2, <2>3, <2>4, <2>5 DEF SameLevels, SameRow
<1>4. QED
  BY <1>2, <1>3 DEF InsertRow

LEMMA ValuedLevels ==
    ASSUME Base, NEW j \in Ids, NEW v, db[j] # Null, db' = [db EXCEPT ![j].value = v],
           NEW q \in Seeders, Running(q)
    PROVE  SameLevels(q)
<1>1. TypeOK /\ db[j] \in Row
  BY RowFacts DEF Base
<1>2. /\ db'[j].table = db[j].table /\ db'[j].parent = db[j].parent /\ db'[j].key = db[j].key
      /\ \A i \in Ids : i # j => db'[i] = db[i]
  <2>1. db'[j] = [db[j] EXCEPT !.value = v] /\ \A i \in Ids : i # j => db'[i] = db[i]
    BY <1>1 DEF TypeOK
  <2>2. QED
    BY <1>1, <2>1, SMT DEF Row
<1>3. \A w \in Pending(q) : w.id \in Ids
  BY PendingFacts
<1>4. QED
  BY <1>2, <1>3 DEF SameLevels, SameRow

-----------------------------------------------------------------------------
(* The session that steps *)

Tied == {"check", "cases"}

LEMMA AheadIs ==
    ASSUME NEW p
    PROVE  /\ seed[p].pc = "admin" => Ahead(p) = 0
           /\ seed[p].pc = "test" \/ (seed[p].pc = "flush" /\ seed[p].next = "test") => Ahead(p) = 1
           /\ seed[p].pc \in {"retired", "check"} => Ahead(p) = 2
           /\ seed[p].pc = "flush" /\ seed[p].next = "retired" => Ahead(p) = 2
           /\ seed[p].pc \in {"question", "cases", "commit"} => Ahead(p) = 2 + seed[p].nth
           /\ seed[p].pc = "flush" /\ seed[p].next = "cases" => Ahead(p) = 2 + seed[p].nth
BY DEF Ahead, BeforeTest, BeforeCheck

LEMMA NextAheadIs ==
    ASSUME NEW CONSTANT p
    PROVE  LET t == seed'[p] IN
           /\ t.pc = "admin" => Ahead(p)' = 0
           /\ t.pc = "test" \/ (t.pc = "flush" /\ t.next = "test") => Ahead(p)' = 1
           /\ t.pc \in {"retired", "check"} => Ahead(p)' = 2
           /\ t.pc = "flush" /\ t.next = "retired" => Ahead(p)' = 2
           /\ t.pc \in {"question", "cases", "commit"} => Ahead(p)' = 2 + t.nth
           /\ t.pc = "flush" /\ t.next = "cases" => Ahead(p)' = 2 + t.nth
BY DEF Ahead, BeforeTest, BeforeCheck

LEMMA SameRanks ==
    ASSUME db' = db, NEW CONSTANT w
    PROVE  (Locks(w)' <=> Locks(w)) /\ Rank(w)' = Rank(w)
BY DEF Locks, Rank, Level, QuestionLevel

LEMMA NthIsNat ==
    ASSUME Base, NEW p \in Seeders, Running(p)
    PROVE  seed[p].nth \in Nat /\ Ahead(p) \in Nat
<1>1. seed[p].nth \in 1..(Len(Catalogue) + 1)
  BY PendingFacts, SessionTypes
<1>2. seed[p].nth \in Nat
  BY <1>1, TopIsNat, SMT
<1>3. QED
  BY <1>2, AheadType

\* New writes at or above the level where the session is.
LEMMA OwnInOrder ==
    ASSUME Base, NEW CONSTANT p \in Seeders, Running(p), InOrder(p), db' = db, NEW W,
           seed'[p].sent = seed[p].sent, seed'[p].unsent = seed[p].unsent \cup W,
           Ahead(p)' \in Nat, Ahead(p) <= Ahead(p)',
           Ahead(p) < Ahead(p)' \/ seed[p].pc \notin Tied \/ seed'[p].pc \in Tied,
           \A w \in W : Locks(w) =>
               /\ Rank(w) \in Nat /\ Ahead(p) <= Rank(w)
               /\ Rank(w) < Ahead(p)' \/ (Rank(w) = Ahead(p)' /\ seed'[p].pc \in Tied)
    PROVE  InOrder(p)'
<1> DEFINE s == seed[p]
           t == seed'[p]
<1>1. Ahead(p) \in Nat
  BY NthIsNat
<1>2. \A w \in s.sent \cup s.unsent : Locks(w) => Rank(w) \in Nat
  BY RankType DEF Pending
<1>3. \A w \in s.sent : Locks(w) => Rank(w) < Ahead(p)
  BY DEF InOrder
<1>4. \A w \in s.sent, x \in t.unsent : Locks(w) /\ Locks(x) => Rank(w) < Rank(x)
  <2>1. \A w \in s.sent, x \in s.unsent : Locks(w) /\ Locks(x) => Rank(w) < Rank(x)
    BY DEF InOrder
  <2>2. ASSUME NEW w \in s.sent, NEW x \in W, Locks(w), Locks(x) PROVE Rank(w) < Rank(x)
    <3>1. Rank(w) \in Nat /\ Rank(x) \in Nat /\ Rank(w) < Ahead(p) /\ Ahead(p) <= Rank(x)
      BY <1>2, <1>3, <2>2
    <3>2. QED
      BY <1>1, <3>1, SMT
  <2>3. QED
    BY <2>1, <2>2
<1>5. ASSUME NEW w \in s.sent, Locks(w) PROVE Rank(w) < Ahead(p)'
  <2>1. Rank(w) \in Nat /\ Rank(w) < Ahead(p)
    BY <1>2, <1>3, <1>5
  <2>2. QED
    BY <1>1, <2>1, SMT
<1>6. ASSUME NEW w \in s.unsent, Locks(w)
      PROVE  Rank(w) < Ahead(p)' \/ (Rank(w) = Ahead(p)' /\ t.pc \in Tied)
  <2>1. /\ Rank(w) \in Nat
        /\ Rank(w) < Ahead(p) \/ (Rank(w) = Ahead(p) /\ s.pc \in Tied)
    BY <1>2, <1>6 DEF InOrder, Tied
  <2>2. QED
    BY <1>1, <2>1, SMT
<1>7. \A w : (Locks(w)' <=> Locks(w)) /\ Rank(w)' = Rank(w)
  BY SameRanks
<1>8. \A w \in t.unsent : Locks(w) => Rank(w) < Ahead(p)' \/ (Rank(w) = Ahead(p)' /\ t.pc \in Tied)
  BY <1>6
<1>9. QED
  BY <1>4, <1>5, <1>7, <1>8 DEF InOrder, Tied

\* A row a session has found or made, and writes.
LEMMA FoundRank ==
    ASSUME NEW i, NEW row, row.table \in {"user", "test", "question"}, db[i] # Null,
           SameRow(db[i], row)
    PROVE  Level(i) = IF row.table = "user" THEN 0
                      ELSE IF row.table = "test" THEN 1 ELSE QuestionLevel(row.key)
BY DEF SameRow, Level

LEMMA LookUpInOrder ==
    ASSUME Base, SessionsInv', NEW CONSTANT p \in Seeders, Running(p), Running(p)', InOrder(p), db' = db,
           seed[p].pc \notin Tied,
           NEW row \in Row, row.table \in {"user", "test", "question"},
           NEW found, NEW next, NEW i, NEW level \in Nat,
           seed'[p].sent = seed[p].sent,
           (found = {} /\ Adds(p, row, next)) \/ (i \in found /\ Takes(p, i, row, next)),
           Ahead(p) = level,
           level = IF row.table = "user" THEN 0
                   ELSE IF row.table = "test" THEN 1 ELSE QuestionLevel(row.key),
           Ahead(p)' = level + 1 \/ (Ahead(p)' = level /\ row.table # "user" /\ next \in Tied)
    PROVE  InOrder(p)'
<1>1. level <= level /\ level < level + 1 /\ level <= level + 1 /\ level + 1 \in Nat
  BY SMT
<1>2. CASE Adds(p, row, next)
  <2>1. PICK w : w = Insert(given + 1, row)
    OBVIOUS
  <2>2. w.op = "insert" /\ w.row = row
    BY <2>1 DEF Insert
  <2>3. seed'[p].unsent = seed[p].unsent \cup {w}
    BY <1>2, <2>1 DEF Adds
  <2>4. Locks(w) => row.table = "user" /\ Rank(w) = 0
    BY <2>2 DEF Locks, Rank
  <2>5. Locks(w) => Rank(w) \in Nat /\ Ahead(p) <= Rank(w) /\ Rank(w) < Ahead(p)'
    BY <1>1, <2>4
  <2>6. \A x \in {w} : Locks(x) => /\ Rank(x) \in Nat /\ Ahead(p) <= Rank(x)
                                   /\ Rank(x) < Ahead(p)' \/ (Rank(x) = Ahead(p)' /\ seed'[p].pc \in Tied)
    BY <2>5
  <2>7. Ahead(p)' \in Nat /\ Ahead(p) <= Ahead(p)'
    BY <1>1
  <2>8. QED
    BY <2>3, <2>6, <2>7, OwnInOrder
<1>3. CASE Takes(p, i, row, next)
  <2>1. PICK W : W = Setting(i, View(p)[i], row)
    OBVIOUS
  <2>2. seed'[p].unsent = seed[p].unsent \cup W /\ seed'[p].pc = next
    BY <1>3, <2>1 DEF Takes
  <2>3. ASSUME NEW w \in W PROVE Rank(w) = level
    <3>1. w = Update(i, row)
      BY <2>1 DEF Setting
    <3>2. w.op = "update" /\ w.id = i /\ w.row = row
      BY <3>1 DEF Update
    <3>3. w \in Pending(p)'
      BY <2>2 DEF Pending
    <3>4. WriteFits(p, w)'
      BY <3>3 DEF SessionsInv, SessionFits, WritesFit
    <3>5. db[i] # Null /\ SameRow(db[i], row)
      BY <3>2, <3>4 DEF WriteFits
    <3>6. QED
      BY <3>2, <3>5, FoundRank DEF Rank
  <2>4. QED
    BY <1>1, <2>2, <2>3, OwnInOrder
<1>4. QED
  BY <1>2, <1>3

LEMMA FindAdminInOrder ==
    ASSUME IndInv, IndInv', NEW CONSTANT p \in Seeders, FindAdmin(p), InOrder(p)
    PROVE  InOrder(p)'
<1>1. Base /\ TypeOK /\ seed[p].pc = "admin" /\ Running(p) /\ UNCHANGED outside
  BY RunningSession DEF IndInv, Base, FindAdmin, SeedPCs
<1>2. PICK row \in Row :
          row = [table |-> "user", parent |-> Null, key |-> "admin", value |-> "catalogue"]
  BY RowsMade
<1>3. PICK found \in SUBSET Ids : found = Select(p, "user", Null, "admin")
  BY DEF Select
<1>4. LookUp(p, found, row, "admin", "test")
  BY <1>2, <1>3 DEF FindAdmin
<1>5. "test" \in SeedPCs /\ "admin" \in {"admin", "test", "question"}
  BY DEF SeedPCs
<1>6. PICK i \in Ids : /\ Steps(p) /\ SameElse(p)
                       /\ \/ found = {} /\ Adds(p, row, "test") /\ i = given + 1
                          \/ i \in found /\ Takes(p, i, row, "test")
  BY <1>1, <1>4, <1>5, LookUpStep
<1>7. Ahead(p) = 0 /\ Ahead(p)' = 0 + 1 /\ Running(p)'
  <2>1. seed'[p].pc = "test" \/ (seed'[p].pc = "flush" /\ seed'[p].next = "test")
    BY <1>6 DEF Adds, Takes
  <2>2. Ahead(p) = 0 /\ Ahead(p)' = 1
    BY <1>1, <2>1, AheadIs, NextAheadIs
  <2>3. QED
    BY <2>1, <2>2, SMT DEF Running
<1>8. db' = db /\ seed[p].pc \notin Tied /\ seed'[p].sent = seed[p].sent /\ SessionsInv' /\ 0 \in Nat
      /\ row.table = "user"
  BY <1>1, <1>2, <1>6, SMT DEF outside, Tied, SameElse, IndInv
<1>9. QED
  BY <1>1, <1>6, <1>7, <1>8, LookUpInOrder

LEMMA FindTestInOrder ==
    ASSUME IndInv, IndInv', NEW CONSTANT p \in Seeders, FindTest(p), InOrder(p)
    PROVE  InOrder(p)'
<1>1. Base /\ TypeOK /\ seed[p].pc = "test" /\ Running(p) /\ UNCHANGED outside
  BY RunningSession DEF IndInv, Base, FindTest, SeedPCs
<1>2. seed[p].admin \in Ids
  BY <1>1, PendingFacts DEF SessionFits, PlaceFits
<1>3. PICK row \in Row :
          row = [table |-> "test", parent |-> seed[p].admin, key |-> "contest", value |-> "catalogue"]
  BY <1>2, RowsMade
<1>4. PICK found \in SUBSET Ids : found = Contests(p)
  BY DEF Contests, Select
<1>5. LookUp(p, found, row, "test", "retired")
  BY <1>3, <1>4 DEF FindTest
<1>6. "retired" \in SeedPCs /\ "test" \in {"admin", "test", "question"}
  BY DEF SeedPCs
<1>7. PICK i \in Ids : /\ Steps(p) /\ SameElse(p)
                       /\ \/ found = {} /\ Adds(p, row, "retired") /\ i = given + 1
                          \/ i \in found /\ Takes(p, i, row, "retired")
  BY <1>1, <1>5, <1>6, LookUpStep
<1>8. Ahead(p) = 1 /\ Ahead(p)' = 1 + 1 /\ Running(p)'
  <2>1. seed'[p].pc = "retired" \/ (seed'[p].pc = "flush" /\ seed'[p].next = "retired")
    BY <1>7 DEF Adds, Takes
  <2>2. Ahead(p) = 1 /\ Ahead(p)' = 2
    BY <1>1, <2>1, AheadIs, NextAheadIs
  <2>3. QED
    BY <2>1, <2>2, SMT DEF Running
<1>9. db' = db /\ seed[p].pc \notin Tied /\ seed'[p].sent = seed[p].sent /\ SessionsInv' /\ 1 \in Nat
      /\ row.table = "test"
  BY <1>1, <1>3, <1>7, SMT DEF outside, Tied, SameElse, IndInv
<1>10. QED
  BY <1>1, <1>7, <1>8, <1>9, LookUpInOrder

LEMMA FindQuestionInOrder ==
    ASSUME IndInv, IndInv', NEW CONSTANT p \in Seeders, FindQuestion(p), InOrder(p)
    PROVE  InOrder(p)'
<1>1. Base /\ TypeOK /\ seed[p].pc = "question" /\ UNCHANGED outside
  BY DEF IndInv, Base, FindQuestion
<1>2. /\ Running(p) /\ seed[p].nth \in 1..Len(Catalogue) /\ Title(p) \in Titles
      /\ seed[p].test \in Ids
  BY <1>1, AtAQuestion
<1>3. PICK row \in Row :
          row = [table |-> "question", parent |-> seed[p].test, key |-> Title(p), value |-> "catalogue"]
  BY <1>2, RowsMade
<1>4. PICK found \in SUBSET Ids : found = Select(p, "question", seed[p].test, Title(p))
  BY DEF Select
<1>5. LookUp(p, found, row, "question", "cases")
  BY <1>3, <1>4 DEF FindQuestion
<1>6. "cases" \in SeedPCs /\ "question" \in {"admin", "test", "question"}
  BY DEF SeedPCs
<1>7. PICK i \in Ids : /\ Steps(p) /\ SameElse(p)
                       /\ \/ found = {} /\ Adds(p, row, "cases") /\ i = given + 1
                          \/ i \in found /\ Takes(p, i, row, "cases")
  BY <1>1, <1>2, <1>5, <1>6, LookUpStep
<1>8. PICK level \in Nat : level = 2 + seed[p].nth
  <2>1. 2 + seed[p].nth \in Nat
    BY <1>2, TopIsNat, SMT
  <2>2. QED
    BY <2>1
<1>9. Ahead(p) = level /\ Ahead(p)' = level /\ Running(p)'
  <2>1. seed'[p].pc = "cases" \/ (seed'[p].pc = "flush" /\ seed'[p].next = "cases")
    BY <1>7 DEF Adds, Takes
  <2>2. Ahead(p) = 2 + seed[p].nth /\ Ahead(p)' = 2 + seed[p].nth
    BY <1>1, <1>7, <2>1, AheadIs, NextAheadIs DEF SameElse
  <2>3. QED
    BY <1>8, <2>1, <2>2 DEF Running
<1>10. QuestionLevel(Title(p)) = level
  BY <1>2, <1>8, TitleLevel DEF Title
<1>11. db' = db /\ seed[p].pc \notin Tied /\ seed'[p].sent = seed[p].sent /\ SessionsInv'
       /\ row.table = "question" /\ row.key = Title(p) /\ "cases" \in Tied
  BY <1>1, <1>3, <1>7 DEF outside, Tied, SameElse, IndInv
<1>12. QED
  BY <1>1, <1>2, <1>7, <1>9, <1>10, <1>11, LookUpInOrder

LEMMA ListRetiredInOrder ==
    ASSUME IndInv, NEW CONSTANT p \in Seeders, ListRetired(p), InOrder(p)
    PROVE  InOrder(p)'
<1> DEFINE s == seed[p]
           t == seed'[p]
<1>1. Base /\ TypeOK /\ s.pc = "retired" /\ Running(p)
  BY RunningSession DEF IndInv, Base, ListRetired, SeedPCs
<1>2. /\ Steps(p) /\ SameRefs(p) /\ t.sent = s.sent /\ t.unsent = s.unsent /\ t.nth = s.nth
      /\ t.pc \in {"question", "check"}
  BY <1>1, ListRetiredStep
<1>3. s.nth \in Nat /\ db' = db
  BY <1>1, <1>2, NthIsNat DEF Steps, outside
<1>4. Ahead(p) = 2 /\ (Ahead(p)' = 2 \/ Ahead(p)' = 2 + s.nth)
  BY <1>1, <1>2, AheadIs, NextAheadIs
<1>5. Ahead(p)' \in Nat /\ Ahead(p) <= Ahead(p)' /\ s.pc \notin Tied
  BY <1>1, <1>3, <1>4, SMT DEF Tied
<1>6. PICK W : W = {}
  OBVIOUS
<1>7. t.unsent = s.unsent \cup W /\ \A w \in W : FALSE
  BY <1>2, <1>6
<1>8. QED
  BY <1>1, <1>2, <1>3, <1>5, <1>7, OwnInOrder

LEMMA CheckRetiredInOrder ==
    ASSUME IndInv, NEW CONSTANT p \in Seeders, CheckRetired(p), InOrder(p)
    PROVE  InOrder(p)'
<1> DEFINE s == seed[p]
           t == seed'[p]
<1>1. Base /\ TypeOK /\ s.pc = "check" /\ Running(p)
  BY RunningSession DEF IndInv, Base, CheckRetired, SeedPCs
<1>2. /\ Steps(p) /\ SameRefs(p) /\ t.sent = s.sent /\ t.nth = s.nth
      /\ t.pc \in {"check", "question"}
      /\ \E r \in s.check : t.unsent = s.unsent \cup (IF UnusedQuestion(p, r) THEN {Delete(r)} ELSE {})
  BY <1>1, CheckRetiredStep
<1>3. s.nth \in Nat /\ db' = db /\ s.nth \in 1..(Len(Catalogue) + 1) /\ PlaceFits(p)
  BY <1>1, <1>2, NthIsNat, PendingFacts, SessionTypes DEF Steps, outside, SessionFits
<1>4. PICK r \in s.check : t.unsent = s.unsent \cup (IF UnusedQuestion(p, r) THEN {Delete(r)} ELSE {})
  BY <1>2
<1>5. PICK W : W = IF UnusedQuestion(p, r) THEN {Delete(r)} ELSE {}
  OBVIOUS
<1>6. \A w \in W : Locks(w) => Rank(w) = 2
  <2> SUFFICES ASSUME NEW w \in W, Locks(w) PROVE Rank(w) = 2
    OBVIOUS
  <2>1. w.op = "delete" /\ w.id = r
    BY <1>5 DEF Delete
  <2>2. db[r] # Null
    BY <2>1 DEF Locks
  <2>3. db[r].table = "question" /\ db[r].key \in Retired
    BY <1>3, <2>2 DEF PlaceFits
  <2>4. QED
    BY <2>1, <2>3 DEF Rank, Level, QuestionLevel
<1>7. Ahead(p) = 2 /\ ((Ahead(p)' = 2 /\ t.pc \in Tied) \/ Ahead(p)' = 2 + s.nth)
  BY <1>1, <1>2, AheadIs, NextAheadIs DEF Tied
<1>8. Ahead(p) = 2
  BY <1>1, AheadIs
<1>9. 2 \in Nat /\ 2 <= 2 /\ 2 + s.nth \in Nat /\ 2 < 2 + s.nth /\ 2 <= 2 + s.nth
  BY <1>3, TopIsNat, SMT
<1>10. Ahead(p)' \in Nat /\ Ahead(p) <= Ahead(p)' /\ (Ahead(p) < Ahead(p)' \/ t.pc \in Tied)
  BY <1>7, <1>8, <1>9
<1>11. \A w \in W : Locks(w) =>
          /\ Rank(w) \in Nat /\ Ahead(p) <= Rank(w)
          /\ (Rank(w) < Ahead(p)' \/ (Rank(w) = Ahead(p)' /\ t.pc \in Tied))
  BY <1>6, <1>7, <1>8, <1>9
<1>12. QED
  BY <1>1, <1>2, <1>3, <1>4, <1>5, <1>10, <1>11, OwnInOrder

LEMMA FlushInOrder ==
    ASSUME IndInv, NEW CONSTANT p \in Seeders, Flush(p), InOrder(p)
    PROVE  InOrder(p)'
<1> DEFINE s == seed[p]
           t == seed'[p]
<1>1. Base /\ TypeOK /\ s.pc = "flush" /\ Running(p)
  BY RunningSession DEF IndInv, Base, Flush, SeedPCs
<1>2. /\ Steps(p) /\ SameRefs(p) /\ t.nth = s.nth /\ t.unsent = {} /\ t.sent = s.sent \cup s.unsent
      /\ t.pc = s.next
  BY <1>1, FlushStep
<1>3. s.next \in {"test", "retired", "cases"} /\ db' = db
  BY <1>1, <1>2, PendingFacts DEF SessionFits, PlaceFits, Steps, outside
<1>4. Ahead(p)' = Ahead(p)
  BY <1>1, <1>2, <1>3, AheadIs, NextAheadIs
<1>5. \A w \in t.sent : Locks(w) => Rank(w) < Ahead(p)'
  BY <1>1, <1>2, <1>4 DEF InOrder
<1>6. \A w : (Locks(w)' <=> Locks(w)) /\ Rank(w)' = Rank(w)
  BY <1>3, SameRanks
<1>7. QED
  BY <1>2, <1>5, <1>6 DEF InOrder

LEMMA SyncInOrder ==
    ASSUME IndInv, NEW CONSTANT p \in Seeders, SyncCases(p), InOrder(p)
    PROVE  InOrder(p)'
<1> DEFINE s == seed[p]
           t == seed'[p]
<1>1. /\ Base /\ TypeOK /\ s.pc = "cases" /\ given + Len(CaseKeys[Title(p)]) \in Ids
  BY DEF IndInv, Base, SyncCases
<1>2. /\ Running(p) /\ s.nth \in 1..Len(Catalogue) /\ Title(p) \in Titles
  BY <1>1, AtAQuestion
<1>3. PICK q \in Ids : q = s.question
  BY <1>1, CasesSeen
<1>4. PICK existing : existing = Children(db, "case", q)
  OBVIOUS
<1>5. PICK W : W = CaseWrites(View(p), q, Title(p))
  OBVIOUS
<1>6. \A i \in existing : /\ i \in Ids /\ db[i] # Null /\ db[i].table = "case" /\ db[i].parent = q
                          /\ db[q] # Null
  BY <1>1, <1>3, <1>4, CasesSeen DEF Children
<1>7. db[q] # Null => db[q].key = Title(p)
  BY <1>1, <1>3, CasesSeen
<1>8. /\ \A w \in W : w.op # "insert" => w.id \in existing
      /\ \A w \in W : w.op = "insert" => w.row.table = "case"
      /\ W \in SUBSET Write
  <2> DEFINE keys == CaseKeys[Title(p)]
             kept == {i \in existing : db[i].key \in KeysOf(Title(p)) /\ IsFirst(db, existing, i)}
  <2>1. /\ \A w \in W :
              \/ w.op = "delete" /\ w.row = Null /\ w.id \in existing \ kept
              \/ w.op = "update" /\ w.id \in kept /\ w.row = CaseRow(q, db[w.id].key)
              \/ /\ w.op = "insert"
                 /\ \E m \in 1..Len(keys) : w.id = given + m /\ w.row = CaseRow(q, keys[m])
        /\ W \subseteq Write
    BY <1>1, <1>3, <1>4, <1>5, CaseWritesFacts
  <2>2. \A m : CaseRow(q, keys[m]).table = "case"
    BY DEF CaseRow
  <2>3. kept \subseteq existing
    OBVIOUS
  <2> HIDE DEF kept, keys
  <2>4. QED
    BY <2>1, <2>2, <2>3
<1>9. \A w \in W : Locks(w) => Rank(w) = 2 + s.nth
  <2> SUFFICES ASSUME NEW w \in W, Locks(w) PROVE Rank(w) = 2 + s.nth
    OBVIOUS
  <2>1. w.op # "insert"
    BY <1>8 DEF Locks
  <2>2. db[w.id].table = "case" /\ db[w.id].parent = q /\ db[q].key = Title(p)
    BY <1>6, <1>7, <1>8, <2>1
  <2>3. Rank(w) = QuestionLevel(Title(p))
    BY <2>1, <2>2 DEF Rank, Level
  <2>4. QED
    BY <1>2, <2>3, TitleLevel DEF Title
<1>10. /\ Steps(p) /\ t.sent = s.sent /\ t.nth = s.nth + 1 /\ t.unsent = s.unsent \cup W
       /\ t.pc \in {"commit", "question"}
  <2>1. s.nth <= Len(Catalogue)
    BY <1>2, CatalogueFacts, SMT
  <2>2. QED
    BY <1>1, <1>3, <1>5, <1>8, <2>1, SyncStep
<1>11. db' = db /\ Ahead(p) = 2 + s.nth /\ Ahead(p)' = 2 + (s.nth + 1)
  BY <1>1, <1>10, AheadIs, NextAheadIs DEF Steps, outside
<1>12. /\ 2 + s.nth \in Nat /\ 2 + (s.nth + 1) \in Nat
       /\ 2 + s.nth <= 2 + s.nth /\ 2 + s.nth < 2 + (s.nth + 1) /\ 2 + s.nth <= 2 + (s.nth + 1)
  <2>1. s.nth \in Nat
    BY <1>2, TopIsNat, SMT
  <2> HIDE DEF s
  <2>2. QED
    BY <2>1, SMT
<1>13. QED
  BY <1>1, <1>2, <1>9, <1>10, <1>11, <1>12, OwnInOrder


\* A session that begins has locked nothing.
LEMMA BeginInOrder ==
    ASSUME IndInv, NEW CONSTANT p \in Seeders, Begin(p)
    PROVE  InOrder(p)'
<1>1. seed'[p].sent = {} /\ seed'[p].unsent = {}
  BY BeginStep DEF IndInv
<1>2. QED
  BY <1>1 DEF InOrder

-----------------------------------------------------------------------------
(* Everybody else's steps *)

LEMMA SameDbLevels ==
    ASSUME db' = db, NEW q
    PROVE  SameLevels(q)
BY DEF SameLevels, SameRow

\* A step that is not q's own leaves q's session and the levels of its writes.
LEMMA OthersLeave ==
    ASSUME IndInv, [Next]_vars, NEW q \in Seeders
    PROVE  \/ Keeps(q) /\ (Running(q) => SameLevels(q))
           \/ Begin(q) \/ SeedStep(q) \/ Fail(q)
<1>1. Base /\ TypeOK
  BY DEF IndInv, Base
<1>2. ASSUME seed' = seed PROVE Keeps(q)
  BY <1>1, <1>2, AllKeep
<1>3. CASE InsertSubmission
  <2>1. student \in [pc: {"insert"}, question: Ids]
    BY <1>1, <1>3 DEF InsertSubmission, Idle, TypeOK
  <2>2. [table |-> "submission", parent |-> student.question, key |-> Null, value |-> "pending"] \in Row
    BY <2>1, SMT DEF Row
  <2>3. QED
    BY <1>1, <1>2, <1>3, <2>2, InsertedLevels DEF InsertSubmission
<1>4. CASE CreateTest
  <2>1. [table |-> "test", parent |-> OtherAdmin, key |-> "contest", value |-> "other"] \in Row
    BY BoundsAssumption, SMT DEF Row, Contents
  <2>2. Keeps(q)
    BY <1>1, <1>4, DisturbAll DEF CreateTest
  <2>3. QED
    BY <1>1, <1>4, <2>1, <2>2, InsertedLevels DEF CreateTest
<1>5. CASE Add
  <2>1. admin \in [pc: {"add"}, row: Row]
    BY <1>1, <1>5 DEF Add, Idle, TypeOK
  <2>2. admin.row \in Row
    BY <2>1, SMT
  <2>3. Keeps(q)
    BY <1>1, <1>5, DisturbAll DEF Add
  <2>4. QED
    BY <1>1, <1>5, <2>2, <2>3, InsertedLevels DEF Add
<1>6. ASSUME NEW j \in Ids, StartJudging(j) PROVE Keeps(q) /\ (Running(q) => SameLevels(q))
  BY <1>1, <1>2, <1>6, ValuedLevels DEF StartJudging
<1>7. CASE StoreVerdict
  <2>1. worker # Idle
    BY <1>7 DEF StoreVerdict, Idle
  <2>2. PICK j \in Ids : j = worker.job
    BY <1>1, <2>1, WorkerFacts
  <2>3. db' = db \/ (db[j] # Null /\ db' = [db EXCEPT ![j].value = worker.verdict])
    BY <1>7, <2>2 DEF StoreVerdict
  <2>4. QED
    BY <1>1, <1>2, <1>7, <2>3, SameDbLevels, ValuedLevels DEF StoreVerdict
<1>8. ASSUME NEW p \in Seeders, p # q, Commit(p) PROVE Keeps(q) /\ (Running(q) => SameLevels(q))
  <2>1. /\ Running(p) /\ Commits(p) /\ Unblocked(p) /\ EndSeed(p) /\ given' = given /\ adds' = adds
    BY <1>1, <1>8, RunningSession DEF Commit, Commits, Pending, SeedPCs, counts
  <2>2. ~Doomed(p)
    BY <1>1, <1>8, <2>1, NotDoomed DEF Commit
  <2>3. Running(q) => Evolves(q)
    BY <1>1, <1>8, <2>1, <2>2, CommitEvolves
  <2>4. Keeps(q)
    BY <1>1, <1>8, <2>1, EndStep
  <2>5. QED
    BY <2>3, <2>4 DEF Evolves, RowsEvolve, Spares, SameLevels
<1>9. ASSUME NEW p \in Seeders, p # q,
             FindAdmin(p) \/ FindTest(p) \/ ListRetired(p) \/ CheckRetired(p) \/ FindQuestion(p)
               \/ SyncCases(p) \/ Flush(p)
      PROVE  Keeps(q) /\ (Running(q) => SameLevels(q))
  <2>1. \E s, c : Goto(p, s, c)
    BY <1>9 DEF FindAdmin, FindTest, ListRetired, CheckRetired, FindQuestion, SyncCases, Flush, LookUp
  <2>2. seed' = [seed EXCEPT ![p] = seed'[p]]
    BY <1>1, <2>1, GotoIsOwn
  <2>3. seed'[q] = seed[q]
    BY <1>1, <1>9, <2>2 DEF TypeOK
  <2>4. db' = db
    BY <1>9 DEF FindAdmin, FindTest, ListRetired, CheckRetired, FindQuestion, SyncCases, Flush, outside
  <2>5. QED
    BY <1>1, <2>3, <2>4, SameKeeps, SameDbLevels
<1>10. ASSUME NEW p \in Seeders, p # q, Reject(p) \/ Fail(p) PROVE Keeps(q) /\ (Running(q) => SameLevels(q))
  BY <1>1, <1>10, EndStep, SameDbLevels DEF Reject, Fail, outside
<1>11. ASSUME NEW p \in Seeders, p # q, Begin(p) PROVE Keeps(q) /\ (Running(q) => SameLevels(q))
  BY <1>1, <1>11, BeginStep, SameDbLevels
<1>12. ASSUME NEW j \in Ids, Submit(j) \/ CheckOwner(j) PROVE Keeps(q) /\ (Running(q) => SameLevels(q))
  BY <1>2, <1>12, SameDbLevels DEF Submit, CheckOwner
<1>13. CASE LoadCases \/ UNCHANGED vars
  BY <1>2, <1>13, SameDbLevels DEF LoadCases, vars
<1>14. QED
  BY <1>3, <1>4, <1>5, <1>6, <1>7, <1>8, <1>9, <1>10, <1>11, <1>12, <1>13 DEF Next, SeedStep

\* Every session keeps to the order.
LEMMA StepsKeepOrder ==
    ASSUME IndInv, LocksInOrder, [Next]_vars, NEW CONSTANT q \in Seeders, Running(q)'
    PROVE  InOrder(q)'
<1>1. IndInv' /\ Base /\ TypeOK /\ TypeOK' /\ SessionsInv'
  <2>1. IndInv'
    BY StepsKeepInvariant
  <2>2. QED
    BY <2>1 DEF IndInv, Base
<1>2. CASE ~Running(q)
  <2>1. ~Fail(q) /\ ~Keeps(q)
    BY <1>2 DEF Fail, Keeps
  <2>2. ~SeedStep(q)
    BY <1>1, <1>2, RunningSession DEF SeedStep, FindAdmin, FindTest, ListRetired, CheckRetired,
       FindQuestion, SyncCases, Flush, Commit, Reject, SeedPCs
  <2>3. Begin(q)
    BY <2>1, <2>2, OthersLeave
  <2>4. QED
    BY <2>3, BeginInOrder
<1>3. CASE Running(q)
  <2>1. InOrder(q)
    BY <1>3 DEF LocksInOrder
  <2>2. CASE Keeps(q) /\ SameLevels(q)
    BY <1>1, <1>3, <2>1, <2>2, InOrderStays
  <2>3. CASE FindAdmin(q)
    BY <1>1, <2>1, <2>3, FindAdminInOrder
  <2>4. CASE FindTest(q)
    BY <1>1, <2>1, <2>4, FindTestInOrder
  <2>5. CASE FindQuestion(q)
    BY <1>1, <2>1, <2>5, FindQuestionInOrder
  <2>6. CASE ListRetired(q)
    BY <2>1, <2>6, ListRetiredInOrder
  <2>7. CASE CheckRetired(q)
    BY <2>1, <2>7, CheckRetiredInOrder
  <2>8. CASE Flush(q)
    BY <2>1, <2>8, FlushInOrder
  <2>9. CASE SyncCases(q)
    BY <2>1, <2>9, SyncInOrder
  <2>10. CASE Commit(q) \/ Reject(q) \/ Fail(q)
    BY <1>1, <2>10, EndStep DEF Commit, Reject, Fail
  <2>11. ~Begin(q)
    BY <1>3 DEF Begin
  <2>12. QED
    BY <1>3, <2>11, <2>2, <2>3, <2>4, <2>5, <2>6, <2>7, <2>8, <2>9, <2>10, OthersLeave DEF SeedStep
<1>4. QED
  BY <1>2, <1>3

\* Whatever a seed has locked comes before whatever it has still to lock, in every
\* reachable state (seed.py:60-172: one order for every seed).
THEOREM OrderIsKept == Spec => []LocksInOrder
<1>1. Init => LocksInOrder
  BY DEF Init, LocksInOrder, Running, Idle
<1>2. IndInv /\ LocksInOrder /\ [Next]_vars => LocksInOrder'
  BY StepsKeepOrder DEF LocksInOrder
<1>3. QED
  BY <1>1, <1>2, SeedingInvariantHolds, PTL DEF Spec

\* Seeds that overlap never wait for each other in a circle, and one that has
\* failed keeps nobody waiting: of seeds that wait, one can always go on.
THEOREM NoDeadlock == Spec => []WaitingEnds
<1>1. IndInv /\ LocksInOrder => WaitingEnds
  BY NoCircle
<1>2. QED
  BY <1>1, SeedingInvariantHolds, OrderIsKept, PTL

=============================================================================
