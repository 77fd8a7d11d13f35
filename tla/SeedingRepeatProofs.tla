------------------------ MODULE SeedingRepeatProofs ------------------------
(***************************************************************************)
(* What a second seed does.  It doubles nothing, neither what it finds nor *)
(* what another seed is adding: of those that overlap in a new database    *)
(* one inserts the administrator, and the others wait for it and fail.     *)
(* And after a seed that ran alone it writes nothing: what such a seed has *)
(* come to is as the catalogue says (Solo), and stays so (AsSeeded).       *)
(***************************************************************************)
EXTENDS SeedingProofs

-----------------------------------------------------------------------------
(* The steps of a session *)

\* What a session does between its begin and its end.
OwnAction(p) ==
    \/ FindAdmin(p) \/ FindTest(p) \/ ListRetired(p) \/ CheckRetired(p)
    \/ FindQuestion(p) \/ SyncCases(p) \/ Flush(p)

\* What a look-up writes: the new row, or what changes the one it has found.
Looks(p, found, i, row, W) ==
    /\ Pending(p)' = Pending(p) \cup W
    /\ \/ found = {} /\ W = {Insert(i, row)}
       \/ /\ i \in found /\ W = Setting(i, db[i], row)
          /\ db[i] # Null /\ \A w \in Pending(p) : w.id # i

LEMMA LooksAre ==
    ASSUME Base, NEW CONSTANT p \in Seeders, Running(p), NEW found, NEW i \in Ids, NEW row, NEW next,
           \/ found = {} /\ Adds(p, row, next) /\ i = given + 1
           \/ i \in found /\ Takes(p, i, row, next),
           SameElse(p),
           i \in found => View(p)[i] # Null /\ db[i] # Null /\ \A w \in Pending(p) : w.id # i
    PROVE  \E W : Looks(p, found, i, row, W)
<1>1. seed'[p].sent = seed[p].sent
  BY DEF SameElse
<1>2. CASE found = {} /\ Adds(p, row, next) /\ i = given + 1
  <2>1. Pending(p)' = Pending(p) \cup {Insert(i, row)}
    BY <1>1, <1>2 DEF Pending, Adds
  <2>2. QED
    BY <1>2, <2>1 DEF Looks
<1>3. CASE i \in found /\ Takes(p, i, row, next)
  <2>1. View(p)[i] = db[i]
    BY <1>3, ViewRow DEF Pending
  <2>2. Pending(p)' = Pending(p) \cup Setting(i, db[i], row)
    BY <1>1, <1>3, <2>1 DEF Pending, Takes
  <2>3. QED
    BY <1>3, <2>2 DEF Looks
<1>4. QED
  BY <1>2, <1>3

LEMMA FindAdminLooks ==
    ASSUME IndInv, NEW CONSTANT p \in Seeders, FindAdmin(p)
    PROVE  /\ Steps(p) /\ SameElse(p) /\ Running(p)
           /\ seed[p].pc = "admin" /\ Pending(p) = {}
           /\ seed'[p].pc = "test" \/ (seed'[p].pc = "flush" /\ seed'[p].next = "test")
           /\ seed'[p].test = seed[p].test
           /\ \E i \in Ids : /\ \E W : Looks(p, Select(p, "user", Null, "admin"), i, AdminRow, W)
                             /\ seed'[p].admin = i
<1> DEFINE s == seed[p]
           t == seed'[p]
<1>1. Base /\ TypeOK /\ s.pc = "admin" /\ Running(p) /\ UNCHANGED outside
  BY RunningSession DEF IndInv, Base, FindAdmin, SeedPCs
<1>2. Pending(p) = {}
  BY <1>1, PendingFacts DEF SessionFits, PlaceFits, Pending
<1>3. PICK row \in Row : row = AdminRow
  BY RowsMade DEF AdminRow
<1>4. PICK found \in SUBSET Ids : found = Select(p, "user", Null, "admin")
  BY DEF Select
<1>5. LookUp(p, found, row, "admin", "test")
  BY <1>3, <1>4 DEF FindAdmin, AdminRow
<1>6. "test" \in SeedPCs /\ "admin" \in {"admin", "test", "question"}
  BY DEF SeedPCs
<1>7. PICK i \in Ids : /\ Steps(p) /\ SameElse(p)
                       /\ \/ found = {} /\ Adds(p, row, "test") /\ i = given + 1
                          \/ i \in found /\ Takes(p, i, row, "test")
                       /\ t.admin = i /\ t.test = s.test
  BY <1>1, <1>5, <1>6, LookUpStep
<1>8. i \in found => View(p)[i] # Null /\ db[i] # Null /\ \A w \in Pending(p) : w.id # i
  <2>1. View(p) = db
    BY <1>1, <1>2 DEF View, Pending
  <2>2. QED
    BY <1>2, <1>4, <2>1 DEF Select
<1>9. \E W : Looks(p, found, i, row, W)
  BY <1>1, <1>7, <1>8, LooksAre
<1>10. t.pc = "test" \/ (t.pc = "flush" /\ t.next = "test")
  BY <1>7 DEF Adds, Takes
<1>11. QED
  BY <1>1, <1>2, <1>3, <1>4, <1>7, <1>9, <1>10

LEMMA FindTestLooks ==
    ASSUME IndInv, NEW CONSTANT p \in Seeders, FindTest(p)
    PROVE  /\ Steps(p) /\ SameElse(p) /\ Running(p)
           /\ seed[p].pc = "test" /\ BeforeTest(p) /\ seed[p].admin \in Ids
           /\ seed'[p].pc = "retired" \/ (seed'[p].pc = "flush" /\ seed'[p].next = "retired")
           /\ seed'[p].admin = seed[p].admin
           /\ \E i \in Ids, row \in Row :
                 /\ row = [table |-> "test", parent |-> seed[p].admin, key |-> "contest", value |-> "catalogue"]
                 /\ \E W : Looks(p, Contests(p), i, row, W)
                 /\ seed'[p].test = i
<1> DEFINE s == seed[p]
           t == seed'[p]
<1>1. Base /\ TypeOK /\ s.pc = "test" /\ Running(p) /\ UNCHANGED outside
  BY RunningSession DEF IndInv, Base, FindTest, SeedPCs
<1>2. s.admin \in Ids /\ BeforeTest(p)
  BY <1>1, PendingFacts DEF SessionFits, PlaceFits, BeforeTest
<1>3. PICK row \in Row :
          row = [table |-> "test", parent |-> s.admin, key |-> "contest", value |-> "catalogue"]
  BY <1>2, RowsMade
<1>4. PICK found \in SUBSET Ids : found = Contests(p)
  BY DEF Contests, Select
<1>5. LookUp(p, found, row, "test", "retired")
  BY <1>3, <1>4 DEF FindTest
<1>6. "retired" \in SeedPCs /\ "test" \in {"admin", "test", "question"}
  BY DEF SeedPCs
<1>7. PICK i \in Ids : /\ Steps(p) /\ SameElse(p)
                       /\ \/ found = {} /\ Adds(p, row, "retired") /\ i = given + 1
                          \/ i \in found /\ Takes(p, i, row, "retired")
                       /\ t.test = i /\ t.admin = s.admin
  BY <1>1, <1>5, <1>6, LookUpStep
<1>8. i \in found => View(p)[i] # Null /\ db[i] # Null /\ \A w \in Pending(p) : w.id # i
  BY <1>1, <1>4, ContestFound DEF Contests, Select
<1>9. \E W : Looks(p, found, i, row, W)
  BY <1>1, <1>7, <1>8, LooksAre
<1>10. t.pc = "retired" \/ (t.pc = "flush" /\ t.next = "retired")
  BY <1>7 DEF Adds, Takes
<1>11. QED
  BY <1>1, <1>2, <1>3, <1>4, <1>7, <1>9, <1>10

LEMMA FindQuestionLooks ==
    ASSUME IndInv, NEW CONSTANT p \in Seeders, FindQuestion(p)
    PROVE  /\ Steps(p) /\ SameElse(p) /\ Running(p)
           /\ seed[p].pc = "question" /\ seed[p].test \in Ids /\ HasTest(p) /\ Title(p) \in Titles
           /\ seed'[p].pc = "cases" \/ (seed'[p].pc = "flush" /\ seed'[p].next = "cases")
           /\ seed'[p].admin = seed[p].admin /\ seed'[p].test = seed[p].test
           /\ \E i \in Ids, row \in Row :
                 /\ row = [table |-> "question", parent |-> seed[p].test, key |-> Title(p), value |-> "catalogue"]
                 /\ \E W : Looks(p, Select(p, "question", seed[p].test, Title(p)), i, row, W)
                 /\ seed'[p].question = i
<1> DEFINE s == seed[p]
           t == seed'[p]
<1>1. Base /\ TypeOK /\ s.pc = "question" /\ UNCHANGED outside
  BY DEF IndInv, Base, FindQuestion
<1>2. Running(p) /\ s.test \in Ids /\ HasTest(p) /\ Title(p) \in Titles
  BY <1>1, AtAQuestion
<1>3. PICK row \in Row :
          row = [table |-> "question", parent |-> s.test, key |-> Title(p), value |-> "catalogue"]
  BY <1>2, RowsMade
<1>4. PICK found \in SUBSET Ids : found = Select(p, "question", s.test, Title(p))
  BY DEF Select
<1>5. LookUp(p, found, row, "question", "cases")
  BY <1>3, <1>4 DEF FindQuestion
<1>6. "cases" \in SeedPCs /\ "question" \in {"admin", "test", "question"}
  BY DEF SeedPCs
<1>7. PICK i \in Ids : /\ Steps(p) /\ SameElse(p)
                       /\ \/ found = {} /\ Adds(p, row, "cases") /\ i = given + 1
                          \/ i \in found /\ Takes(p, i, row, "cases")
                       /\ t.question = i /\ t.admin = s.admin /\ t.test = s.test
  BY <1>1, <1>2, <1>5, <1>6, LookUpStep
<1>8. i \in found => View(p)[i] # Null /\ db[i] # Null /\ \A w \in Pending(p) : w.id # i
  BY <1>1, <1>4, QuestionFound DEF Select
<1>9. \E W : Looks(p, found, i, row, W)
  BY <1>1, <1>2, <1>7, <1>8, LooksAre
<1>10. t.pc = "cases" \/ (t.pc = "flush" /\ t.next = "cases")
  BY <1>7 DEF Adds, Takes
<1>11. QED
  BY <1>1, <1>2, <1>3, <1>4, <1>7, <1>9, <1>10

LEMMA OwnActionSteps ==
    ASSUME IndInv, NEW CONSTANT p \in Seeders, OwnAction(p)
    PROVE  /\ Steps(p) /\ Running(p)
           /\ seed'[p].alone = seed[p].alone /\ seed'[p].calm = seed[p].calm
<1>1. Base /\ TypeOK
  BY DEF IndInv, Base
<1>2. CASE FindAdmin(p) \/ FindTest(p) \/ FindQuestion(p)
  BY <1>2, FindAdminLooks, FindTestLooks, FindQuestionLooks DEF SameElse
<1>3. CASE SyncCases(p)
  <2>1. seed[p].pc = "cases" /\ given + Len(CaseKeys[Title(p)]) \in Ids
    BY <1>3 DEF SyncCases
  <2>2. seed[p].question \in Ids /\ CaseWrites(View(p), seed[p].question, Title(p)) \in SUBSET Write
    BY <1>1, <2>1, CasesSeen, CaseWritesFacts
  <2>3. Running(p) /\ seed[p].nth \in 1..Len(Catalogue)
    BY <1>1, <2>1, AtAQuestion
  <2>4. seed[p].nth <= Len(Catalogue)
    BY <2>3, CatalogueFacts, SMT
  <2>5. Steps(p) /\ SameRefs(p)
    BY <1>1, <1>3, <2>2, <2>4, SyncStep
  <2>6. QED
    BY <2>3, <2>5 DEF SameRefs
<1>4. CASE ListRetired(p) \/ CheckRetired(p) \/ Flush(p)
  <2>1. Running(p)
    BY <1>1, <1>4, RunningSession DEF ListRetired, CheckRetired, Flush, SeedPCs
  <2>2. Steps(p) /\ SameRefs(p)
    BY <1>1, <1>4, ListRetiredStep, CheckRetiredStep, FlushStep
  <2>3. QED
    BY <2>1, <2>2 DEF SameRefs
<1>5. QED
  BY <1>2, <1>3, <1>4 DEF OwnAction

-----------------------------------------------------------------------------
(* Twins *)

LEMMA FewerTwins ==
    ASSUME NEW old, NEW new, ~HasTwins(old),
           \A i \in Ids : new[i] # Null /\ new[i].table # "submission" =>
               old[i] # Null /\ SameRow(old[i], new[i])
    PROVE  ~HasTwins(new)
<1> SUFFICES ASSUME NEW i \in Ids, NEW j \in Ids, Twins(new, i, j) PROVE FALSE
  BY DEF HasTwins
<1>1. /\ i # j /\ new[i] # Null /\ new[j] # Null /\ new[i].table = new[j].table
      /\ new[i].table \in {"user", "test", "question", "case"} /\ new[i].key = new[j].key
      /\ new[i].parent = new[j].parent \/ new[i].table = "test"
  BY DEF Twins
<1>2. /\ old[i] # Null /\ SameRow(old[i], new[i])
      /\ old[j] # Null /\ SameRow(old[j], new[j])
  BY <1>1
<1>3. Twins(old, i, j)
  BY <1>1, <1>2 DEF Twins, SameRow
<1>4. QED
  BY <1>3 DEF HasTwins

\* What p leaves of row i.
LEMMA AfterRow ==
    ASSUME Base, NEW p \in Seeders, Running(p), NEW i \in Ids
    PROVE  /\ \A w \in Pending(p) : w.id = i => After(p)[i] = w.row
           /\ (\A w \in Pending(p) : w.id # i) => After(p)[i] = db[i]
           /\ After(p)[i] # Null => After(p)[i] \in Row
BY WrittenFacts DEF After

LEMMA NextAfterRow ==
    ASSUME SessionsInv', NEW CONSTANT p \in Seeders, Running(p)', NEW CONSTANT i \in Ids
    PROVE  /\ \A w \in Pending(p)' : w.id = i => After(p)'[i] = w.row
           /\ (\A w \in Pending(p)' : w.id # i) => After(p)'[i] = db'[i]
<1>1. \A w, x \in Pending(p)' : w.id = x.id => w = x
  BY DEF SessionsInv, SessionFits, WritesFit
<1>2. After(p)' = Written(db', Pending(p)')
  BY DEF After
<1>3. QED
  BY <1>1, <1>2, WrittenRow

\* ... and with more writes.
LEMMA AfterGrows ==
    ASSUME Base, SessionsInv', NEW CONSTANT p \in Seeders, Running(p), Running(p)', db' = db,
           NEW W, Pending(p)' = Pending(p) \cup W, NEW CONSTANT i \in Ids
    PROVE  /\ \A w \in W : w.id = i => After(p)'[i] = w.row
           /\ (\A w \in W : w.id # i) => After(p)'[i] = After(p)[i]
<1>1. \A w \in W : w.id = i => After(p)'[i] = w.row
  BY NextAfterRow
<1>2. ASSUME \A w \in W : w.id # i PROVE After(p)'[i] = After(p)[i]
  <2>1. CASE \E w \in Pending(p) : w.id = i
    <3>1. PICK w \in Pending(p) : w.id = i
      BY <2>1
    <3>2. w \in Pending(p)'
      BY <3>1
    <3>3. QED
      BY <3>1, <3>2, AfterRow, NextAfterRow
  <2>2. CASE \A w \in Pending(p) : w.id # i
    <3>1. \A w \in Pending(p)' : w.id # i
      BY <1>2, <2>2
    <3>2. QED
      BY <2>2, <3>1, AfterRow, NextAfterRow
  <2>3. QED
    BY <2>1, <2>2
<1>3. QED
  BY <1>1, <1>2

LEMMA RolesKept ==
    ASSUME NEW CONSTANT q, seed'[q].pc = seed[q].pc, seed'[q].next = seed[q].next,
           seed'[q].unsent = seed[q].unsent, seed'[q].sent = seed[q].sent
    PROVE  (Newcomer(q)' <=> Newcomer(q)) /\ (Harmless(q)' <=> Harmless(q))
BY DEF Newcomer, Harmless

\* A step of p alone: the others keep their roles.
LEMMA OwnRoles ==
    ASSUME IndInv, TwinsInv, NEW CONSTANT p \in Seeders, Running(p), Steps(p),
           Unspoiled => Fares(p)',
           Unspoiled /\ Newcomer(p) /\ ~(fresh /\ seeded) => Newcomer(p)' \/ OthersNew(p)
    PROVE  TwinsInv'
<1>1. /\ db' = db /\ adds' = adds /\ fresh' = fresh /\ seeded' = seeded /\ overlap' = overlap
      /\ \A q \in Seeders \ {p} : seed'[q] = seed[q]
  BY DEF Steps, outside, counts, history
<1>2. Base /\ TypeOK
  BY DEF IndInv, Base
<1>3. \A q \in Seeders \ {p} : Running(q)' <=> Running(q)
  BY <1>1 DEF Running
<1>4. AdminSeeded'
  BY <1>1 DEF TwinsInv, AdminSeeded, AdminExists
<1>5. OverlapSeen'
  BY <1>1, <1>3 DEF TwinsInv, OverlapSeen
<1>6. Unspoiled' <=> Unspoiled
  BY <1>1 DEF Unspoiled
<1>7. ASSUME Unspoiled, NEW CONSTANT q \in Seeders, Running(q)', q # p
      PROVE  Fares(q)'
  <2>1. Fares(q) /\ Running(q)
    BY <1>3, <1>7 DEF TwinsInv, RolesInv
  <2>2. \A r \in Seeders \ {p} : (Newcomer(r)' <=> Newcomer(r)) /\ (Harmless(r)' <=> Harmless(r))
    BY <1>1, RolesKept
  <2>3. CASE Newcomer(q) \/ (fresh /\ seeded)
    BY <1>1, <1>7, <2>1, <2>2, <2>3 DEF Fares
  <2>4. CASE First(q) /\ ~Newcomer(q) /\ ~(fresh /\ seeded)
    <3>1. Newcomer(p)
      BY <1>7, <2>4 DEF First, OthersNew
    <3>2. Newcomer(p)'
      BY <1>7, <2>1, <2>4, <3>1 DEF OthersNew
    <3>3. OthersNew(q)'
      BY <1>3, <2>2, <2>4, <3>2 DEF First, OthersNew
    <3>4. After(q)' = After(q) /\ seed'[q] = seed[q]
      BY <1>1, <1>7 DEF After, Pending
    <3>5. First(q)'
      BY <2>4, <3>3, <3>4 DEF First
    <3>6. QED
      BY <1>1, <2>4, <3>5 DEF Fares
  <2>5. QED
    BY <2>1, <2>3, <2>4 DEF Fares
<1>8. RolesInv'
  BY <1>1, <1>6, <1>7 DEF TwinsInv, RolesInv
<1>9. QED
  BY <1>4, <1>5, <1>8 DEF TwinsInv

-----------------------------------------------------------------------------
(* A seed's own steps *)

\* The first seed adds a row only if there is no such row, and takes one as it is.
LEMMA LookUpNoTwins ==
    ASSUME Base, SessionsInv', NEW CONSTANT p \in Seeders, Running(p), Running(p)', db' = db,
           ~HasTwins(After(p)), NEW row \in Row, NEW found, NEW next, NEW i \in Ids,
           \/ found = {} /\ Adds(p, row, next) /\ i = given + 1
           \/ i \in found /\ Takes(p, i, row, next),
           seed'[p].sent = seed[p].sent,
           i \in found => After(p)[i] # Null /\ SameRow(After(p)[i], row),
           found = {} => \A j \in Ids :
               After(p)[j] # Null /\ After(p)[j].table = row.table /\ After(p)[j].key = row.key =>
                   After(p)[j].parent # row.parent /\ row.table # "test"
    PROVE  ~HasTwins(After(p)')
<1>1. CASE i \in found /\ Takes(p, i, row, next)
  <2>1. PICK W : W = Setting(i, View(p)[i], row)
    OBVIOUS
  <2>2. Pending(p)' = Pending(p) \cup W
    BY <1>1, <2>1 DEF Pending, Takes
  <2>3. \A w \in W : w.id = i /\ w.row = row
    BY <2>1 DEF Setting, Update
  <2>4. ASSUME NEW CONSTANT j \in Ids, After(p)'[j] # Null
        PROVE  After(p)[j] # Null /\ SameRow(After(p)[j], After(p)'[j])
    <3>1. CASE \E w \in W : w.id = j
      BY <1>1, <2>2, <2>3, <3>1, AfterGrows
    <3>2. CASE \A w \in W : w.id # j
      BY <2>2, <2>4, <3>2, AfterGrows DEF SameRow
    <3>3. QED
      BY <3>1, <3>2
  <2>5. QED
    BY <2>4, FewerTwins
<1>2. CASE found = {} /\ Adds(p, row, next) /\ i = given + 1
  <2>1. PICK W : W = {Insert(i, row)}
    OBVIOUS
  <2>2. /\ Pending(p)' = Pending(p) \cup W
        /\ \A w \in W : w.id = i /\ w.row = row
        /\ \E w \in W : w.id = i
    BY <1>2, <2>1 DEF Pending, Adds, Insert
  <2>3. After(p)'[i] = row
    BY <2>2, AfterGrows
  <2>4. \A j \in Ids : j # i => After(p)'[j] = After(p)[j]
    BY <2>2, AfterGrows
  <2> SUFFICES ASSUME NEW a \in Ids, NEW b \in Ids, Twins(After(p)', a, b) PROVE FALSE
    BY DEF HasTwins
  <2> DEFINE r == After(p)'
  <2>5. /\ a # b /\ r[a] # Null /\ r[b] # Null /\ r[a].table = r[b].table
        /\ r[a].table \in {"user", "test", "question", "case"} /\ r[a].key = r[b].key
        /\ r[a].parent = r[b].parent \/ r[a].table = "test"
    BY DEF Twins
  <2>6. CASE a = i
    BY <1>2, <2>3, <2>4, <2>5, <2>6
  <2>7. CASE b = i
    BY <1>2, <2>3, <2>4, <2>5, <2>7
  <2>8. CASE a # i /\ b # i
    <3>1. Twins(After(p), a, b)
      BY <2>4, <2>5, <2>8 DEF Twins
    <3>2. QED
      BY <3>1 DEF HasTwins
  <2>9. QED
    BY <2>6, <2>7, <2>8
<1>3. QED
  BY <1>1, <1>2

\* A row of the database that p has not written is one of its own view.
LEMMA Unwritten ==
    ASSUME Base, NEW p \in Seeders, Running(p), NEW i \in Ids, After(p)[i] # Null,
           \A w \in Pending(p) : w.op # "delete" /\ w.id = i => FALSE
    PROVE  /\ After(p)[i] = db[i] /\ \A w \in Pending(p) : w.id # i
<1>1. ASSUME NEW w \in Pending(p), w.id = i PROVE FALSE
  <2>1. w.op = "delete"
    BY <1>1
  <2>2. w.row = Null
    BY <1>1, <2>1, PendingFacts
  <2>3. QED
    BY <1>1, <2>2, AfterRow
<1>2. QED
  BY <1>1, AfterRow

LEMMA AdminSeen ==
    ASSUME Base, NEW p \in Seeders, Running(p), seed[p].sent = {}
    PROVE  /\ View(p) = db
           /\ AdminExists <=> Select(p, "user", Null, "admin") # {}
<1>1. View(p) = db
  BY DEF View
<1>2. QED
  BY <1>1 DEF Select, AdminExists

LEMMA FindAdminRole ==
    ASSUME IndInv, IndInv', TwinsInv, NEW CONSTANT p \in Seeders, FindAdmin(p), Unspoiled
    PROVE  /\ Fares(p)'
           /\ ~(fresh /\ seeded) => Newcomer(p)' \/ OthersNew(p)
<1> DEFINE s == seed[p]
           t == seed'[p]
<1>1. Base /\ TypeOK /\ s.pc = "admin" /\ Running(p) /\ UNCHANGED outside /\ SessionsInv'
  BY RunningSession DEF IndInv, Base, FindAdmin, SeedPCs
<1>2. s.unsent = {} /\ s.sent = {} /\ Pending(p) = {}
  BY <1>1, PendingFacts DEF SessionFits, PlaceFits, Pending
<1>3. PICK row \in Row : row = AdminRow
  BY RowsMade DEF AdminRow
<1>4. PICK found \in SUBSET Ids : found = Select(p, "user", Null, "admin")
  BY DEF Select
<1>5. LookUp(p, found, row, "admin", "test")
  BY <1>3, <1>4 DEF FindAdmin, AdminRow
<1>6. "test" \in SeedPCs /\ "admin" \in {"admin", "test", "question"}
  BY DEF SeedPCs
<1>7. PICK i \in Ids : /\ Steps(p) /\ SameElse(p)
                       /\ \/ found = {} /\ Adds(p, row, "test") /\ i = given + 1
                          \/ i \in found /\ Takes(p, i, row, "test")
  BY <1>1, <1>5, <1>6, LookUpStep
<1>8. t.sent = {} /\ db' = db /\ fresh' = fresh /\ seeded' = seeded
  BY <1>1, <1>2, <1>7 DEF SameElse, outside, history
<1>9. CASE found = {} /\ Adds(p, row, "test") /\ i = given + 1
  <2>1. t.pc = "flush" /\ t.next = "test" /\ t.unsent = {Insert(i, AdminRow)}
    BY <1>2, <1>3, <1>9 DEF Adds
  <2>2. Newcomer(p)'
    BY <1>8, <2>1 DEF Newcomer
  <2>3. QED
    BY <2>2 DEF Fares
<1>10. CASE i \in found /\ Takes(p, i, row, "test")
  <2>1. AdminExists
    BY <1>1, <1>2, <1>4, <1>10, AdminSeen
  <2>2. t.pc = "test" /\ t.unsent = Setting(i, View(p)[i], row)
    BY <1>2, <1>10 DEF Takes
  <2>3. \A w \in t.unsent : w.op = "update"
    BY <2>2 DEF Setting, Update
  <2>4. CASE fresh /\ seeded
    BY <1>8, <2>2, <2>3, <2>4 DEF Fares, Harmless
  <2>5. CASE ~(fresh /\ seeded)
    <3>1. ~fresh /\ ~overlap
      BY <2>1, <2>5 DEF TwinsInv, AdminSeeded, Unspoiled
    <3>2. \A q \in Seeders \ {p} : ~Running(q)
      BY <1>1, <3>1 DEF TwinsInv, OverlapSeen
    <3>3. OthersNew(p) /\ OthersNew(p)'
      BY <1>7, <3>2 DEF OthersNew, Steps, Running
    <3>4. db[i] # Null /\ SameRow(db[i], row)
      <4>1. db[i] # Null /\ db[i].table = "user" /\ db[i].key = "admin"
        BY <1>1, <1>2, <1>4, <1>10, AdminSeen DEF Select
      <4>2. QED
        BY <1>1, <1>3, <4>1, RowFacts DEF SameRow, AdminRow
    <3>5. ~HasTwins(db)
      BY DEF TwinsInv, RolesInv
    <3>6. \A j \in Ids : After(p)[j] = db[j]
      BY <1>1, <1>2, AfterRow
    <3>7. ~HasTwins(After(p))
      BY <3>5, <3>6, FewerTwins DEF SameRow
    <3>8. Running(p)'
      BY <2>2 DEF Running
    <3>9. found # {}
      BY <1>10
    <3>10. ~HasTwins(After(p)')
      BY <1>1, <1>2, <1>7, <1>8, <3>4, <3>6, <3>7, <3>8, <3>9, LookUpNoTwins
    <3>11. First(p)'
      BY <2>3, <3>3, <3>10 DEF First
    <3>12. QED
      BY <1>8, <2>5, <3>3, <3>11 DEF Fares
  <2>6. QED
    BY <2>4, <2>5
<1>11. QED
  BY <1>7, <1>9, <1>10

\* A session that is neither a newcomer nor, once a new database is seeded,
\* harmless is the first.
LEMMA RoleIs ==
    ASSUME TwinsInv, Unspoiled, NEW p \in Seeders, Running(p), ~Newcomer(p)
    PROVE  IF fresh /\ seeded THEN Harmless(p) ELSE First(p)
BY DEF TwinsInv, RolesInv, Fares

\* The contest a harmless seed has found is the one that is complete.
LEMMA HarmlessSees ==
    ASSUME IndInv, TwinsInv, Unspoiled, seeded, NEW p \in Seeders, Running(p), Harmless(p)
    PROVE  /\ View(p) = db /\ Contests(p) # {}
           /\ seed[p].test \in Ids /\ HasTest(p) => \A title \in Titles :
                 \E q \in Children(db, "question", seed[p].test) :
                    db[q].key = title /\ HasCatalogueCases(q, title)
<1>1. View(p) = db
  BY DEF Harmless, View
<1>2. PICK t \in Ids :
          /\ db[t] # Null /\ db[t].table = "test"
          /\ \A title \in Titles : \E q \in Children(db, "question", t) :
                db[q].key = title /\ HasCatalogueCases(q, title)
  BY DEF IndInv, CatalogueComplete
<1>3. db[t].key = "contest"
  BY <1>2, RowFacts, RowTypes DEF IndInv
<1>4. t \in Contests(p)
  BY <1>1, <1>2, <1>3 DEF Contests, Select
<1>5. ASSUME seed[p].test \in Ids, HasTest(p) PROVE seed[p].test = t
  <2> DEFINE u == seed[p].test
  <2>1. db[u] # Null /\ db[u].table = "test"
    BY <1>5 DEF HasTest, RowsAt, Pending, Harmless
  <2>2. db[u].key = "contest"
    BY <1>5, <2>1, RowFacts, RowTypes DEF IndInv
  <2>3. u # t => Twins(db, u, t)
    BY <1>2, <1>3, <2>1, <2>2 DEF Twins
  <2>4. QED
    BY <1>5, <2>3 DEF TwinsInv, RolesInv, HasTwins
<1>6. QED
  BY <1>1, <1>2, <1>4, <1>5

LEMMA FindTestRole ==
    ASSUME IndInv, IndInv', TwinsInv, NEW CONSTANT p \in Seeders, FindTest(p), Unspoiled
    PROVE  Fares(p)' /\ ~Newcomer(p)
<1> DEFINE s == seed[p]
           t == seed'[p]
<1>1. Base /\ TypeOK /\ s.pc = "test" /\ Running(p) /\ UNCHANGED outside /\ SessionsInv'
  BY RunningSession DEF IndInv, Base, FindTest, SeedPCs
<1>2. s.admin \in Ids /\ BeforeTest(p) /\ ~Newcomer(p)
  BY <1>1, PendingFacts DEF SessionFits, PlaceFits, BeforeTest, Newcomer
<1>3. PICK row \in Row :
          row = [table |-> "test", parent |-> s.admin, key |-> "contest", value |-> "catalogue"]
  BY <1>2, RowsMade
<1>4. PICK found \in SUBSET Ids : found = Contests(p)
  BY DEF Contests, Select
<1>5. LookUp(p, found, row, "test", "retired")
  BY <1>3, <1>4 DEF FindTest
<1>6. "retired" \in SeedPCs /\ "test" \in {"admin", "test", "question"}
  BY DEF SeedPCs
<1>7. PICK i \in Ids : /\ Steps(p) /\ SameElse(p)
                       /\ \/ found = {} /\ Adds(p, row, "retired") /\ i = given + 1
                          \/ i \in found /\ Takes(p, i, row, "retired")
  BY <1>1, <1>5, <1>6, LookUpStep
<1>8. t.sent = s.sent /\ db' = db /\ fresh' = fresh /\ seeded' = seeded
  BY <1>1, <1>7 DEF SameElse, outside, history
<1>9. row.table = "test" /\ row.key = "contest"
  BY <1>3
<1>10. \A w \in Setting(i, View(p)[i], row) : w.op = "update"
  BY DEF Setting, Update
<1>11. CASE fresh /\ seeded
  <2>1. Harmless(p) /\ found # {}
    BY <1>1, <1>2, <1>4, <1>11, RoleIs, HarmlessSees
  <2>2. t.pc = "retired" /\ t.unsent = s.unsent \cup Setting(i, View(p)[i], row)
    BY <1>7, <2>1 DEF Takes
  <2>3. Harmless(p)'
    BY <1>8, <1>10, <2>1, <2>2 DEF Harmless
  <2>4. QED
    BY <1>2, <1>8, <1>11, <2>3 DEF Fares
<1>12. CASE ~(fresh /\ seeded)
  <2>1. First(p)
    BY <1>1, <1>2, <1>12, RoleIs
  <2>2. ~HasTwins(After(p)) /\ OthersNew(p)
    BY <2>1 DEF First
  <2>3. t.pc \in {"flush", "retired"} /\ Running(p)'
    BY <1>7 DEF Adds, Takes, Running
  <2>4. i \in found => After(p)[i] # Null /\ SameRow(After(p)[i], row)
    <3>1. i \in found => /\ db[i] # Null /\ db[i].table = "test" /\ db[i].key = "contest"
                          /\ \A w \in Pending(p) : w.id # i
      BY <1>1, <1>4, ContestFound
    <3>2. QED
      BY <1>1, <1>9, <3>1, AfterRow DEF SameRow
  <2>5. ASSUME found = {}, NEW j \in Ids, After(p)[j] # Null, After(p)[j].table = "test",
               After(p)[j].key = "contest"
        PROVE  FALSE
    <3>1. \A w \in Pending(p) : w.op # "delete" /\ w.row.table = "user"
      BY <1>1, <1>2, OnlyUsers
    <3>2. \A w \in Pending(p) : w.id # j
      BY <1>1, <2>5, <3>1, AfterRow
    <3>3. db[j] = After(p)[j]
      BY <1>1, <3>2, AfterRow
    <3>4. View(p)[j] = db[j]
      BY <1>1, <3>1, <3>2, ViewCommitted
    <3>5. j \in found
      BY <1>4, <2>5, <3>3, <3>4 DEF Contests, Select
    <3>6. QED
      BY <2>5, <3>5
  <2>6. ~HasTwins(After(p)')
    BY <1>1, <1>7, <1>8, <1>9, <2>2, <2>3, <2>4, <2>5, LookUpNoTwins
  <2>7. \A w \in t.unsent : w.op = "insert" => w.row.table # "user"
    <3>1. \A w \in t.unsent : w \in s.unsent \/ w = Insert(given + 1, row) \/ w.op = "update"
      BY <1>7, <1>10 DEF Adds, Takes
    <3>2. Insert(given + 1, row).row = row
      BY DEF Insert
    <3>3. QED
      BY <1>9, <2>1, <3>1, <3>2 DEF First
  <2>8. OthersNew(p)'
    BY <1>7, <2>2, RolesKept DEF OthersNew, Steps, Running
  <2>9. First(p)'
    BY <2>6, <2>7, <2>8 DEF First
  <2>10. QED
    BY <1>2, <1>8, <1>12, <2>9 DEF Fares
<1>13. QED
  BY <1>11, <1>12, <1>2

LEMMA FindQuestionRole ==
    ASSUME IndInv, IndInv', TwinsInv, NEW CONSTANT p \in Seeders, FindQuestion(p), Unspoiled
    PROVE  Fares(p)' /\ ~Newcomer(p)
<1> DEFINE s == seed[p]
           t == seed'[p]
<1>1. Base /\ TypeOK /\ s.pc = "question" /\ Running(p) /\ UNCHANGED outside /\ SessionsInv'
  BY RunningSession DEF IndInv, Base, FindQuestion, SeedPCs
<1>2. s.test \in Ids /\ HasTest(p) /\ Title(p) \in Titles /\ ~Newcomer(p)
  BY <1>1, AtAQuestion DEF Newcomer
<1>3. PICK row \in Row :
          row = [table |-> "question", parent |-> s.test, key |-> Title(p), value |-> "catalogue"]
  BY <1>2, RowsMade
<1>4. PICK found \in SUBSET Ids : found = Select(p, "question", seed[p].test, Title(p))
  BY DEF Select
<1>5. LookUp(p, found, row, "question", "cases")
  BY <1>3, <1>4 DEF FindQuestion
<1>6. "cases" \in SeedPCs /\ "question" \in {"admin", "test", "question"}
  BY DEF SeedPCs
<1>7. PICK i \in Ids : /\ Steps(p) /\ SameElse(p)
                       /\ \/ found = {} /\ Adds(p, row, "cases") /\ i = given + 1
                          \/ i \in found /\ Takes(p, i, row, "cases")
  BY <1>1, <1>5, <1>6, LookUpStep
<1>8. t.sent = s.sent /\ db' = db /\ fresh' = fresh /\ seeded' = seeded
  BY <1>1, <1>7 DEF SameElse, outside, history
<1>9. row.table = "question" /\ row.key = Title(p) /\ row.parent = s.test
  BY <1>3
<1>10. \A w \in Setting(i, View(p)[i], row) : w.op = "update"
  BY DEF Setting, Update
<1>11. CASE fresh /\ seeded
  <2>1. Harmless(p)
    BY <1>1, <1>2, <1>11, RoleIs
  <2>2. View(p) = db /\ \E q \in Children(db, "question", s.test) : db[q].key = Title(p)
    BY <1>1, <1>2, <1>11, <2>1, HarmlessSees
  <2>3. found # {}
    BY <1>4, <2>2 DEF Select, Children
  <2>4. t.pc = "cases" /\ t.unsent = s.unsent \cup Setting(i, View(p)[i], row)
    BY <1>7, <2>3 DEF Takes
  <2>5. Harmless(p)'
    BY <1>8, <1>10, <2>1, <2>4 DEF Harmless
  <2>6. QED
    BY <1>2, <1>8, <1>11, <2>5 DEF Fares
<1>12. CASE ~(fresh /\ seeded)
  <2>1. First(p)
    BY <1>1, <1>2, <1>12, RoleIs
  <2>2. ~HasTwins(After(p)) /\ OthersNew(p)
    BY <2>1 DEF First
  <2>3. t.pc \in {"flush", "cases"} /\ Running(p)'
    BY <1>7 DEF Adds, Takes, Running
  <2>4. i \in found => After(p)[i] # Null /\ SameRow(After(p)[i], row)
    <3>1. i \in found => /\ db[i] # Null /\ db[i].table = "question" /\ db[i].key = Title(p)
                          /\ db[i].parent = s.test /\ \A w \in Pending(p) : w.id # i
      BY <1>1, <1>4, QuestionFound
    <3>2. QED
      BY <1>1, <1>9, <3>1, AfterRow DEF SameRow
  <2>5. ASSUME found = {}, NEW j \in Ids, After(p)[j] # Null, After(p)[j].table = "question",
               After(p)[j].key = Title(p), After(p)[j].parent = s.test
        PROVE  FALSE
    <3>1. \A w \in Pending(p) : w.op # "delete" /\ w.id = j => w.row = After(p)[j]
      BY <1>1, <2>5, AfterRow
    <3>2. \A w \in Pending(p) : w.op # "delete" /\ w.id = j => FALSE
      BY <1>1, <2>5, <3>1, TitleUnwritten
    <3>3. db[j] = After(p)[j] /\ \A w \in Pending(p) : w.id # j
      BY <1>1, <2>5, <3>2, Unwritten
    <3>4. db[s.test] # Null /\ db[s.test].table = "test"
      BY <1>1, <2>5, <3>3, RowFacts DEF ParentTable
    <3>5. \A w \in Pending(p) : w.id = s.test => w.op # "delete"
      BY <1>1, <3>4, PendingFacts DEF WriteFits
    <3>6. View(p)[j] = db[j]
      BY <1>1, <2>5, <3>3, <3>5, ViewCommitted
    <3>7. j \in found
      BY <1>4, <2>5, <3>3, <3>6 DEF Select
    <3>8. QED
      BY <2>5, <3>7
  <2>6. ~HasTwins(After(p)')
    BY <1>1, <1>7, <1>8, <1>9, <2>2, <2>3, <2>4, <2>5, LookUpNoTwins
  <2>7. \A w \in t.unsent : w.op = "insert" => w.row.table # "user"
    <3>1. \A w \in t.unsent : w \in s.unsent \/ w = Insert(given + 1, row) \/ w.op = "update"
      BY <1>7, <1>10 DEF Adds, Takes
    <3>2. Insert(given + 1, row).row = row
      BY DEF Insert
    <3>3. QED
      BY <1>9, <2>1, <3>1, <3>2 DEF First
  <2>8. OthersNew(p)'
    BY <1>7, <2>2, RolesKept DEF OthersNew, Steps, Running
  <2>9. First(p)'
    BY <2>6, <2>7, <2>8 DEF First
  <2>10. QED
    BY <1>2, <1>8, <1>12, <2>9 DEF Fares
<1>13. QED
  BY <1>11, <1>12, <1>2

LEMMA ListRetiredRole ==
    ASSUME IndInv, IndInv', TwinsInv, NEW CONSTANT p \in Seeders, ListRetired(p), Unspoiled
    PROVE  Fares(p)' /\ ~Newcomer(p)
<1> DEFINE s == seed[p]
           t == seed'[p]
<1>1. Base /\ TypeOK /\ s.pc = "retired" /\ Running(p) /\ ~Newcomer(p)
  BY RunningSession DEF IndInv, Base, ListRetired, SeedPCs, Newcomer
<1>2. /\ Steps(p) /\ t.sent = s.sent /\ t.unsent = s.unsent /\ t.pc \in {"question", "check"}
  BY <1>1, ListRetiredStep
<1>3. /\ db' = db /\ fresh' = fresh /\ seeded' = seeded
      /\ \A q \in Seeders \ {p} : seed'[q] = seed[q]
  BY <1>2 DEF Steps, outside, history
<1>4. CASE fresh /\ seeded
  <2>1. Harmless(p)
    BY <1>1, <1>4, RoleIs
  <2>2. QED
    BY <1>1, <1>2, <1>3, <1>4, <2>1 DEF Fares, Harmless
<1>5. CASE ~(fresh /\ seeded)
  <2>1. First(p)
    BY <1>1, <1>5, RoleIs
  <2>2. After(p)' = After(p)
    BY <1>2, <1>3 DEF After, Pending
  <2>3. OthersNew(p)'
    BY <1>3, <2>1, RolesKept DEF First, OthersNew, Running
  <2>4. First(p)'
    BY <1>2, <2>1, <2>2, <2>3 DEF First
  <2>5. QED
    BY <1>1, <1>3, <1>5, <2>4 DEF Fares
<1>6. QED
  BY <1>1, <1>4, <1>5

LEMMA CheckRetiredRole ==
    ASSUME IndInv, IndInv', TwinsInv, NEW CONSTANT p \in Seeders, CheckRetired(p), Unspoiled
    PROVE  Fares(p)' /\ ~Newcomer(p)
<1> DEFINE s == seed[p]
           t == seed'[p]
<1>1. Base /\ TypeOK /\ s.pc = "check" /\ Running(p) /\ ~Newcomer(p) /\ SessionsInv'
  BY RunningSession DEF IndInv, Base, CheckRetired, SeedPCs, Newcomer
<1>2. /\ Steps(p) /\ t.sent = s.sent /\ t.pc \in {"check", "question"}
      /\ \E r \in s.check : t.unsent = s.unsent \cup (IF UnusedQuestion(p, r) THEN {Delete(r)} ELSE {})
  BY <1>1, CheckRetiredStep
<1>3. PICK W : W \subseteq {Delete(r) : r \in s.check} /\ t.unsent = s.unsent \cup W
  BY <1>2
<1>4. \A w \in W : w.op = "delete" /\ w.row = Null
  BY <1>3 DEF Delete
<1>5. /\ db' = db /\ fresh' = fresh /\ seeded' = seeded /\ Running(p)'
      /\ \A q \in Seeders \ {p} : seed'[q] = seed[q]
  BY <1>2 DEF Steps, outside, history, Running
<1>6. CASE fresh /\ seeded
  <2>1. Harmless(p)
    BY <1>1, <1>6, RoleIs
  <2>2. QED
    BY <1>1, <1>2, <1>3, <1>4, <1>5, <1>6, <2>1 DEF Fares, Harmless
<1>7. CASE ~(fresh /\ seeded)
  <2>1. First(p)
    BY <1>1, <1>7, RoleIs
  <2>2. Pending(p)' = Pending(p) \cup W
    BY <1>2, <1>3 DEF Pending
  <2>3. ASSUME NEW CONSTANT j \in Ids, After(p)'[j] # Null
        PROVE  After(p)[j] # Null /\ SameRow(After(p)[j], After(p)'[j])
    <3>1. \A w \in W : w.id # j
      BY <1>1, <1>4, <1>5, <2>2, <2>3, AfterGrows
    <3>2. QED
      BY <1>1, <1>5, <2>2, <2>3, <3>1, AfterGrows DEF SameRow
  <2>4. ~HasTwins(After(p)')
    BY <2>1, <2>3, FewerTwins DEF First
  <2>5. OthersNew(p)'
    BY <1>5, <2>1, RolesKept DEF First, OthersNew, Running
  <2>6. First(p)'
    BY <1>3, <1>4, <2>1, <2>4, <2>5 DEF First
  <2>7. QED
    BY <1>1, <1>5, <1>7, <2>6 DEF Fares
<1>8. QED
  BY <1>1, <1>6, <1>7

\* While no seed has committed to a new database, one that has got past its
\* administrator has that row inserted, and keeps newcomers waiting.
LEMMA FirstBlocks ==
    ASSUME IndInv, TwinsInv, fresh, ~seeded, NEW q \in Seeders, Running(q), ~Newcomer(q), First(q)
    PROVE  \E x \in seed[q].sent : x.op = "insert" /\ x.row.table = "user"
<1>1. Base /\ PlaceFits(q) /\ seed[q] \in Session
  BY PendingFacts DEF IndInv, Base, SessionFits
<1>2. seed[q].pc # "admin"
  BY <1>1 DEF Newcomer, PlaceFits
<1>3. seed[q].admin \in Ids /\ HasAdmin(q)
  BY <1>1, <1>2 DEF PlaceFits
<1>4. PICK r \in RowsAt(q, seed[q].admin) : r.table = "user" /\ r.key = "admin"
  BY <1>3 DEF HasAdmin
<1>5. ~(r = db[seed[q].admin] /\ r # Null)
  BY <1>3, <1>4 DEF TwinsInv, AdminSeeded, AdminExists
<1>6. PICK w \in Pending(q) : w.op = "insert" /\ w.row = r
  BY <1>5, InRowsAt
<1>7. w \notin seed[q].unsent
  BY <1>4, <1>6 DEF First
<1>8. QED
  BY <1>4, <1>6, <1>7 DEF Pending

LEMMA FlushRole ==
    ASSUME IndInv, IndInv', TwinsInv, NEW CONSTANT p \in Seeders, Flush(p), Unspoiled
    PROVE  /\ Fares(p)'
           /\ Newcomer(p) => OthersNew(p)
<1> DEFINE s == seed[p]
           t == seed'[p]
<1>1. Base /\ TypeOK /\ s.pc = "flush" /\ Running(p) /\ SessionsInv' /\ Unblocked(p) /\ ~Raising(p)
  BY RunningSession DEF IndInv, Base, Flush, SeedPCs
<1>2. Steps(p) /\ t.unsent = {} /\ t.sent = s.sent \cup s.unsent /\ t.pc = s.next
  BY <1>1, FlushStep
<1>3. /\ db' = db /\ fresh' = fresh /\ seeded' = seeded
      /\ \A q \in Seeders \ {p} : seed'[q] = seed[q]
  BY <1>2 DEF Steps, outside, history
<1>4. s.next \in {"test", "retired", "cases"}
  BY <1>1, PendingFacts DEF SessionFits, PlaceFits
<1>5. Pending(p)' = Pending(p) /\ After(p)' = After(p)
  BY <1>2, <1>3 DEF Pending, After
<1>6. OthersNew(p) => OthersNew(p)'
  BY <1>3, RolesKept DEF OthersNew, Running
<1>7. CASE Newcomer(p)
  <2>1. PICK i \in Ids : s.unsent = {Insert(i, AdminRow)}
    BY <1>1, <1>7 DEF Newcomer
  <2>2. PICK w \in s.unsent : w = Insert(i, AdminRow)
    BY <2>1
  <2>3. w.op = "insert" /\ w.id = i /\ w.row = AdminRow /\ AdminRow.table = "user" /\ AdminRow.key = "admin"
    BY <2>2 DEF Insert, AdminRow
  <2>4. Select(p, "user", Null, "admin") = {}
    <3>1. ~Raises(p, w)
      BY <1>1 DEF Raising
    <3>2. QED
      BY <2>3, <3>1 DEF Raises
  <2>5. ~AdminExists
    BY <1>1, <1>7, <2>4, AdminSeen DEF Newcomer
  <2>6. ~seeded
    BY <2>5 DEF TwinsInv, AdminSeeded
  <2>7. OthersNew(p)
    <3> SUFFICES ASSUME NEW q \in Seeders \ {p}, Running(q), ~Newcomer(q) PROVE FALSE
      BY DEF OthersNew
    <3>1. fresh
      BY <1>1 DEF TwinsInv, OverlapSeen, Unspoiled
    <3>2. First(q)
      BY <2>6, RoleIs
    <3>3. PICK x \in seed[q].sent : x.op = "insert" /\ x.row.table = "user"
      BY <2>6, <3>1, <3>2, FirstBlocks
    <3>4. Blocks(q, w)
      BY <2>3, <3>3 DEF Blocks
    <3>5. QED
      BY <1>1, <3>4 DEF Unblocked
  <2>8. Pending(p) = {w}
    BY <1>7, <2>1, <2>2 DEF Pending, Newcomer
  <2>9. After(p)[i] = AdminRow
    BY <1>1, <2>3, <2>8, AfterRow
  <2>10. \A j \in Ids : j # i => After(p)[j] = db[j]
    BY <1>1, <2>3, <2>8, AfterRow
  <2>11. ~HasTwins(After(p))
    <3> SUFFICES ASSUME NEW a \in Ids, NEW b \in Ids, Twins(After(p), a, b) PROVE FALSE
      BY DEF HasTwins
    <3> DEFINE r == After(p)
    <3>1. /\ a # b /\ r[a] # Null /\ r[b] # Null /\ r[a].table = r[b].table
          /\ r[a].table \in {"user", "test", "question", "case"} /\ r[a].key = r[b].key
          /\ r[a].parent = r[b].parent \/ r[a].table = "test"
      BY DEF Twins
    <3>2. CASE a = i
      BY <2>3, <2>5, <2>9, <2>10, <3>1, <3>2 DEF AdminExists
    <3>3. CASE b = i
      BY <2>3, <2>5, <2>9, <2>10, <3>1, <3>3 DEF AdminExists
    <3>4. CASE a # i /\ b # i
      <4>1. Twins(db, a, b)
        BY <2>10, <3>1, <3>4 DEF Twins
      <4>2. QED
        BY <4>1 DEF TwinsInv, RolesInv, HasTwins
    <3>5. QED
      BY <3>2, <3>3, <3>4
  <2>12. First(p)'
    BY <1>2, <1>5, <1>6, <2>7, <2>11 DEF First
  <2>13. QED
    BY <1>3, <2>6, <2>7, <2>12 DEF Fares
<1>8. CASE ~Newcomer(p)
  <2>1. First(p) /\ ~(fresh /\ seeded)
    BY <1>1, <1>8, RoleIs DEF Harmless
  <2>2. First(p)'
    BY <1>2, <1>5, <1>6, <2>1 DEF First
  <2>3. QED
    BY <1>3, <1>8, <2>1, <2>2 DEF Fares
<1>9. QED
  BY <1>7, <1>8

\* The cases a seed adds are of keys it has found no case of.
LEMMA NewCasesMissing ==
    ASSUME Base, NEW p \in Seeders, seed[p].pc = "cases",
           NEW w \in CaseWrites(View(p), seed[p].question, Title(p)), w.op = "insert",
           NEW i \in Children(db, "case", seed[p].question), db[i].key \in KeysOf(Title(p)),
           IsFirst(db, Children(db, "case", seed[p].question), i)
    PROVE  db[i].key # w.row.key
<1> DEFINE q == seed[p].question
           title == Title(p)
           keys == CaseKeys[title]
           rows == View(p)
           seen == Children(rows, "case", q)
           existing == Children(db, "case", q)
           first == {j \in seen : rows[j].key \in KeysOf(title) /\ IsFirst(rows, seen, j)}
           present == {rows[j].key : j \in first}
<1>1. seen = existing /\ \A j \in existing : rows[j] = db[j]
  BY CasesSeen
<1>2. i \in first
  BY <1>1 DEF IsFirst
<1>3. db[i].key \in present
  BY <1>1, <1>2
<1>4. w \in NewCases(q, keys, present)
  <2>1. \A j : Delete(j).op = "delete"
    BY DEF Delete
  <2>2. \A j : \A x \in Setting(j, rows[j], CaseRow(q, rows[j].key)) : x.op = "update"
    BY DEF Setting, Update
  <2> HIDE DEF first, seen, rows, keys, present
  <2>3. \/ w \in {Delete(j) : j \in seen \ first}
        \/ w \in UNION {Setting(j, rows[j], CaseRow(q, rows[j].key)) : j \in first}
        \/ w \in NewCases(q, keys, present)
    BY DEF CaseWrites, first, seen, rows, keys, present
  <2>4. QED
    BY <2>1, <2>2, <2>3
<1> HIDE DEF present
<1>5. PICK m \in {n \in 1..Len(keys) : keys[n] \notin present} : w = Insert(given + m, CaseRow(q, keys[m]))
  BY <1>4 DEF NewCases
<1>6. w.row.key = keys[m]
  BY <1>5 DEF Insert, CaseRow
<1>7. QED
  BY <1>3, <1>5, <1>6

LEMMA SyncRole ==
    ASSUME IndInv, IndInv', TwinsInv, NEW CONSTANT p \in Seeders, SyncCases(p), Unspoiled
    PROVE  Fares(p)' /\ ~Newcomer(p)
<1> DEFINE s == seed[p]
           t == seed'[p]
<1>1. /\ Base /\ TypeOK /\ s.pc = "cases" /\ given + Len(CaseKeys[Title(p)]) \in Ids /\ SessionsInv'
      /\ ~Newcomer(p)
  BY DEF IndInv, Base, SyncCases, Newcomer
<1>2. /\ Running(p) /\ s.nth \in 1..Len(Catalogue) /\ Title(p) \in Titles
      /\ s.test \in Ids /\ HasTest(p)
  BY <1>1, AtAQuestion
<1>3. PICK q \in Ids : q = s.question
  BY <1>1, CasesSeen
<1>4. PICK title \in Titles : title = Title(p)
  BY <1>2
<1> DEFINE keys == CaseKeys[title]
           existing == Children(db, "case", q)
           kept == {i \in existing : db[i].key \in KeysOf(title) /\ IsFirst(db, existing, i)}
<1>5. PICK W : W = CaseWrites(View(p), q, title)
  OBVIOUS
<1>6. /\ q \notin s.synced /\ HasQuestion(p, q, title)
      /\ \A i \in existing : i \in Ids /\ db[i] \in Row /\ db[q] # Null /\ \A w \in Pending(p) : w.id # i
  BY <1>1, <1>3, <1>4, CasesSeen
<1>7. /\ \A w \in W :
            \/ w.op = "delete" /\ w.row = Null /\ w.id \in existing \ kept
            \/ w.op = "update" /\ w.id \in kept /\ w.row = CaseRow(q, db[w.id].key)
            \/ /\ w.op = "insert"
               /\ \E m \in 1..Len(keys) : w.id = given + m /\ w.row = CaseRow(q, keys[m])
      /\ W \subseteq Write
      /\ \A i \in existing \ kept : Delete(i) \in W
  BY <1>1, <1>3, <1>4, <1>5, CaseWritesFacts
<1>8. \A w \in W : w.op = "insert" => \A i \in kept : db[i].key # w.row.key
  BY <1>1, <1>3, <1>4, <1>5, NewCasesMissing
<1>9. /\ Steps(p) /\ t.sent = s.sent /\ t.unsent = s.unsent \cup W /\ t.pc \in {"commit", "question"}
  <2>1. s.nth <= Len(Catalogue)
    BY <1>2, CatalogueFacts, SMT
  <2>2. s.question \in Ids /\ CaseWrites(View(p), s.question, Title(p)) \in SUBSET Write
    BY <1>3, <1>4, <1>5, <1>7
  <2>3. /\ Steps(p) /\ t.sent = s.sent
        /\ t.unsent = s.unsent \cup CaseWrites(View(p), s.question, Title(p))
        /\ t.pc = IF s.nth = Len(Catalogue) THEN "commit" ELSE "question"
    BY <1>1, <2>1, <2>2, SyncStep
  <2>4. QED
    BY <1>3, <1>4, <1>5, <2>3
<1>10. /\ db' = db /\ fresh' = fresh /\ seeded' = seeded /\ Running(p)'
       /\ \A u \in Seeders \ {p} : seed'[u] = seed[u]
  BY <1>9 DEF Steps, outside, history, Running
<1>11. \A i \in existing : db[i] # Null /\ db[i].table = "case" /\ db[i].parent = q
  BY DEF Children
<1>12. \A k : CaseRow(q, k).table = "case" /\ CaseRow(q, k).parent = q /\ CaseRow(q, k).key = k
  BY DEF CaseRow
<1>13. \A m \in 1..Len(keys) : keys[m] \in KeysOf(title)
  BY DEF KeysOf
<1>14. CASE fresh /\ seeded
  <2>1. Harmless(p)
    BY <1>1, <1>2, <1>14, RoleIs
  <2>2. PICK x \in Children(db, "question", s.test) : db[x].key = title /\ HasCatalogueCases(x, title)
    BY <1>2, <1>4, <1>14, <2>1, HarmlessSees
  <2>3. db[q] # Null /\ db[q].table = "question" /\ db[q].parent = s.test /\ db[q].key = title
    BY <1>6, <2>1 DEF HasQuestion, RowsAt, Pending, Harmless
  <2>4. ~HasTwins(db)
    BY DEF TwinsInv, RolesInv
  <2>5. x = q
    <3>1. x # q => Twins(db, x, q)
      BY <2>2, <2>3 DEF Twins, Children
    <3>2. QED
      BY <2>2, <2>4, <3>1 DEF HasTwins, Children
  <2>6. ASSUME NEW w \in W, w.op = "insert" PROVE FALSE
    <3>1. PICK k \in KeysOf(title) : w.row.key = k
      BY <1>7, <1>12, <1>13, <2>6
    <3>2. PICK i \in existing : db[i].key = k
      BY <2>2, <2>5, <3>1 DEF HasCatalogueCases
    <3>3. \A j \in existing : db[j].key = db[i].key => j = i
      <4>1. \A j \in existing : db[j].key = db[i].key /\ j # i => Twins(db, j, i)
        BY <1>11 DEF Twins
      <4>2. QED
        BY <1>6, <2>4, <4>1 DEF HasTwins
    <3>4. i \in kept
      <4>1. i <= i
        <5>1. i \in Nat
          BY <1>6, IdFacts
        <5>2. QED
          BY <5>1, SMT
      <4>2. IsFirst(db, existing, i)
        BY <3>3, <4>1 DEF IsFirst
      <4>3. QED
        BY <3>1, <3>2, <4>2
    <3>5. QED
      BY <1>8, <2>6, <3>1, <3>2, <3>4
  <2>7. Harmless(p)'
    BY <1>9, <2>1, <2>6 DEF Harmless
  <2>8. QED
    BY <1>1, <1>10, <1>14, <2>7 DEF Fares
<1>15. CASE ~(fresh /\ seeded)
  <2>1. First(p)
    BY <1>1, <1>2, <1>15, RoleIs
  <2>2. Pending(p)' = Pending(p) \cup W
    BY <1>9 DEF Pending
  <2> DEFINE old == After(p)
             new == After(p)'
             made == {w \in W : w.op = "insert"}
  <2>3. ASSUME NEW CONSTANT i \in Ids, \A w \in made : w.id # i, new[i] # Null
        PROVE  old[i] # Null /\ SameRow(old[i], new[i])
    <3>1. CASE \A w \in W : w.id # i
      BY <1>1, <1>2, <1>10, <2>2, <2>3, <3>1, AfterGrows DEF SameRow
    <3>2. CASE \E w \in W : w.id = i
      <4>1. PICK w \in W : w.id = i
        BY <3>2
      <4>2. new[i] = w.row
        BY <1>1, <1>2, <1>10, <2>2, <4>1, AfterGrows
      <4>3. w.op = "update" /\ i \in kept /\ w.row = CaseRow(q, db[i].key)
        BY <1>7, <2>3, <4>1, <4>2
      <4>4. old[i] = db[i]
        BY <1>1, <1>2, <1>6, <4>3, AfterRow
      <4>5. QED
        BY <1>11, <1>12, <4>2, <4>3, <4>4 DEF SameRow
    <3>3. QED
      BY <3>1, <3>2
  <2>4. ASSUME NEW w \in made
        PROVE  /\ w.id \in Ids /\ new[w.id] = w.row /\ w.row.table = "case" /\ w.row.parent = q
               /\ \E m \in 1..Len(keys) : w.id = given + m /\ w.row.key = keys[m]
    <3>1. w.id \in Ids
      BY <1>7, WriteFields
    <3>2. new[w.id] = w.row
      BY <1>1, <1>2, <1>10, <2>2, <3>1, AfterGrows
    <3>3. QED
      BY <1>7, <1>12, <3>1, <3>2
  <2>5. ASSUME NEW w \in made, NEW i \in Ids, i # w.id, new[i] # Null, new[i].table = "case",
               new[i].parent = q, new[i].key = w.row.key
        PROVE  FALSE
    <3>1. CASE \E x \in made : x.id = i
      <4>1. PICK x \in made : x.id = i
        BY <3>1
      <4>2. PICK m \in 1..Len(keys) : w.id = given + m /\ w.row.key = keys[m]
        BY <2>4
      <4>3. PICK n \in 1..Len(keys) : x.id = given + n /\ x.row.key = keys[n]
        BY <2>4
      <4>4. keys[m] = keys[n]
        BY <2>4, <2>5, <4>1, <4>2, <4>3
      <4>5. m = n
        BY <1>4, <4>4, CatalogueAssumption
      <4>6. QED
        BY <2>5, <4>1, <4>2, <4>3, <4>5
    <3>2. CASE \A x \in made : x.id # i
      <4>1. old[i] # Null /\ old[i].table = "case" /\ old[i].parent = q /\ old[i].key = w.row.key
        BY <2>3, <2>5, <3>2 DEF SameRow
      <4>2. ASSUME NEW x \in Pending(p), x.op # "delete", x.id = i PROVE FALSE
        <5>1. old[i] = x.row
          BY <1>1, <1>2, <4>2, AfterRow
        <5>2. q \in s.synced
          BY <1>1, <1>2, <4>1, <4>2, <5>1, ContentTypes
        <5>3. QED
          BY <1>6, <5>2
      <4>3. db[i] = old[i] /\ \A x \in Pending(p) : x.id # i
        BY <1>1, <1>2, <4>1, <4>2, Unwritten
      <4>4. i \in existing
        BY <4>1, <4>3 DEF Children
      <4>5. \E x \in W : x.op = "delete" /\ x.id = i
        <5>1. i \notin kept
          BY <1>8, <4>1, <4>3
        <5>2. Delete(i) \in W
          BY <1>7, <4>4, <5>1
        <5>3. QED
          BY <5>2 DEF Delete
      <4>6. new[i] = Null
        BY <1>1, <1>2, <1>7, <1>10, <2>2, <4>5, AfterGrows
      <4>7. QED
        BY <2>5, <4>6
    <3>3. QED
      BY <3>1, <3>2
  <2>6. ~HasTwins(After(p)')
    <3> SUFFICES ASSUME NEW a \in Ids, NEW b \in Ids, Twins(After(p)', a, b) PROVE FALSE
      BY DEF HasTwins
    <3>1. /\ a # b /\ new[a] # Null /\ new[b] # Null /\ new[a].table = new[b].table
          /\ new[a].table \in {"user", "test", "question", "case"} /\ new[a].key = new[b].key
          /\ new[a].parent = new[b].parent \/ new[a].table = "test"
      BY DEF Twins
    <3>2. CASE \E w \in made : w.id = a
      BY <2>4, <2>5, <3>1, <3>2
    <3>3. CASE \E w \in made : w.id = b
      BY <2>4, <2>5, <3>1, <3>3
    <3>4. CASE \A w \in made : w.id # a /\ w.id # b
      <4>1. old[a] # Null /\ SameRow(old[a], new[a]) /\ old[b] # Null /\ SameRow(old[b], new[b])
        BY <2>3, <3>1, <3>4
      <4>2. Twins(old, a, b)
        BY <3>1, <4>1 DEF Twins, SameRow
      <4>3. QED
        BY <2>1, <4>2 DEF First, HasTwins
    <3>5. QED
      BY <3>2, <3>3, <3>4
  <2>7. OthersNew(p)'
    BY <1>10, <2>1, RolesKept DEF First, OthersNew, Running
  <2>8. \A w \in t.unsent : w.op = "insert" => w.row.table # "user"
    BY <1>7, <1>9, <1>12, <2>1 DEF First
  <2>9. First(p)'
    BY <2>6, <2>7, <2>8 DEF First
  <2>10. QED
    BY <1>1, <1>10, <1>15, <2>9 DEF Fares
<1>16. QED
  BY <1>14, <1>15

-----------------------------------------------------------------------------
(* Everybody's steps *)

\* A step that leaves every session, and nothing but submissions while no
\* administrator has added anything.
LEMMA OthersRoles ==
    ASSUME IndInv, SessionsInv', TwinsInv, QuietRows, \A q \in Seeders : Keeps(q),
           fresh' = fresh, seeded' = seeded, overlap' = overlap,
           \A i \in Ids : db[i] = Null /\ db'[i] # Null =>
              db'[i].table # "user" /\ (adds' = 0 => db'[i].table = "submission")
    PROVE  TwinsInv'
<1>1. Base /\ TypeOK
  BY DEF IndInv, Base
<1>2. AdminExists' <=> AdminExists
  <2>1. ASSUME NEW i \in Ids, db[i] # Null, db[i].table = "user"
        PROVE  db'[i] = db[i]
    BY <2>1, SMT DEF QuietRows
  <2>2. ASSUME NEW i \in Ids, db'[i] # Null, db'[i].table = "user"
        PROVE  db[i] # Null /\ db'[i] = db[i]
    <3>1. db[i] # Null
      BY <2>2
    <3>2. db[i].table = "user"
      BY <2>2, <3>1 DEF QuietRows, SameRow
    <3>3. QED
      BY <2>1, <3>1, <3>2
  <2>3. QED
    BY <2>1, <2>2 DEF AdminExists
<1>3. \A q \in Seeders : Running(q)' <=> Running(q)
  BY DEF Keeps
<1>4. AdminSeeded' /\ OverlapSeen'
  BY <1>2, <1>3 DEF TwinsInv, AdminSeeded, OverlapSeen
<1>5. \A q \in Seeders : (Newcomer(q)' <=> Newcomer(q)) /\ (Harmless(q)' <=> Harmless(q))
  BY RolesKept DEF Keeps
<1>6. SUFFICES ASSUME Unspoiled'
               PROVE  ~HasTwins(db)' /\ \A p \in Seeders : Running(p)' => Fares(p)'
  BY <1>4 DEF TwinsInv, RolesInv
<1>7. Unspoiled /\ ~HasTwins(db) /\ adds' = 0 /\ \A p \in Seeders : Running(p) => Fares(p)
  BY <1>6 DEF Unspoiled, QuietRows, TwinsInv, RolesInv
<1>8. \A i \in Ids : db'[i] # Null /\ db'[i].table # "submission" =>
         db[i] # Null /\ db'[i] = db[i]
  <2> SUFFICES ASSUME NEW i \in Ids, db'[i] # Null, db'[i].table # "submission"
               PROVE  db[i] # Null /\ db'[i] = db[i]
    OBVIOUS
  <2>1. db[i] # Null
    BY <1>7
  <2>2. db[i].table # "submission"
    BY <2>1 DEF QuietRows, SameRow
  <2>3. QED
    BY <2>1, <2>2 DEF QuietRows
<1>9. ~HasTwins(db')
  BY <1>7, <1>8, FewerTwins DEF SameRow
<1>10. ASSUME NEW CONSTANT q \in Seeders, Running(q), First(q) PROVE First(q)'
  <2>1. Pending(q)' = Pending(q) /\ seed'[q].unsent = seed[q].unsent
    BY <1>10, SamePending DEF Keeps
  <2>2. ASSUME NEW CONSTANT i \in Ids, After(q)'[i] # Null, After(q)'[i].table # "submission"
        PROVE  After(q)[i] # Null /\ SameRow(After(q)[i], After(q)'[i])
    <3>1. CASE \E w \in Pending(q) : w.id = i
      BY <1>1, <1>3, <1>10, <2>1, <2>2, <3>1, AfterRow, NextAfterRow DEF SameRow
    <3>2. CASE \A w \in Pending(q) : w.id # i
      <4>1. After(q)[i] = db[i]
        BY <1>1, <1>10, <3>2, AfterRow
      <4>2. After(q)'[i] = db'[i]
        BY <1>3, <1>10, <2>1, <3>2, NextAfterRow
      <4>3. QED
        BY <1>8, <2>2, <4>1, <4>2 DEF SameRow
    <3>3. QED
      BY <3>1, <3>2
  <2>3. PICK old, new : old = After(q) /\ new = After(q)'
    OBVIOUS
  <2>4. ~HasTwins(new)
    BY <1>10, <2>2, <2>3, FewerTwins DEF First
  <2>5. ~HasTwins(After(q)')
    BY <2>3, <2>4
  <2>6. OthersNew(q)'
    BY <1>3, <1>5, <1>10 DEF First, OthersNew
  <2>7. QED
    BY <1>10, <2>1, <2>5, <2>6 DEF First
<1>11. QED
  BY <1>3, <1>5, <1>7, <1>9, <1>10 DEF Fares

LEMMA OwnTwins ==
    ASSUME IndInv, IndInv', TwinsInv, NEW CONSTANT p \in Seeders, OwnAction(p)
    PROVE  TwinsInv'
<1>1. Steps(p) /\ Running(p)
  BY OwnActionSteps
<1>2. QED
  BY <1>1, OwnRoles, FindAdminRole, FindTestRole, FindQuestionRole, ListRetiredRole,
     CheckRetiredRole, SyncRole, FlushRole DEF OwnAction

LEMMA BeginTwins ==
    ASSUME IndInv, TwinsInv, NEW CONSTANT p \in Seeders, Begin(p)
    PROVE  TwinsInv'
<1>1. /\ ~Running(p) /\ seed'[p].pc = "admin" /\ seed'[p].sent = {}
      /\ \A q \in Seeders \ {p} : Keeps(q)
      /\ db' = db /\ adds' = adds /\ fresh' = fresh /\ seeded' = seeded
  BY BeginStep DEF IndInv
<1>2. overlap' <=> overlap \/ \E q \in Seeders : Running(q)
  BY DEF Begin, IndInv, TypeOK
<1>3. \A q \in Seeders \ {p} : Running(q)' <=> Running(q)
  BY <1>1 DEF Keeps
<1>4. AdminSeeded'
  BY <1>1 DEF TwinsInv, AdminSeeded, AdminExists
<1>5. OverlapSeen'
  BY <1>2, <1>3 DEF TwinsInv, OverlapSeen
<1>6. Newcomer(p)'
  BY <1>1 DEF Newcomer
<1>7. \A q \in Seeders \ {p} : (Newcomer(q)' <=> Newcomer(q)) /\ (Harmless(q)' <=> Harmless(q))
  BY <1>1, RolesKept DEF Keeps
<1>8. Unspoiled' => Unspoiled
  BY <1>1, <1>2 DEF Unspoiled
<1>9. ASSUME NEW CONSTANT q \in Seeders \ {p}, Running(q), First(q) PROVE First(q)'
  <2>1. Pending(q)' = Pending(q) /\ seed'[q].unsent = seed[q].unsent
    BY <1>1, <1>9, SamePending DEF Keeps
  <2>2. After(q)' = After(q)
    BY <1>1, <2>1 DEF After
  <2>3. OthersNew(q)'
    BY <1>3, <1>6, <1>7, <1>9 DEF First, OthersNew
  <2>4. QED
    BY <1>9, <2>1, <2>2, <2>3 DEF First
<1>10. RolesInv'
  BY <1>1, <1>3, <1>6, <1>7, <1>8, <1>9 DEF TwinsInv, RolesInv, Fares
<1>11. QED
  BY <1>4, <1>5, <1>10 DEF TwinsInv

LEMMA EndTwins ==
    ASSUME IndInv, TwinsInv, NEW CONSTANT p \in Seeders, EndSeed(p),
           UNCHANGED <<db, adds, history>>
    PROVE  TwinsInv'
<1>1. /\ db' = db /\ adds' = adds /\ fresh' = fresh /\ seeded' = seeded /\ overlap' = overlap
      /\ ~Running(p)' /\ \A q \in Seeders \ {p} : seed'[q] = seed[q]
  BY EndStep DEF IndInv, history
<1>2. \A q \in Seeders : Running(q)' => Running(q) /\ q # p
  BY <1>1 DEF Running
<1>3. AdminSeeded' /\ OverlapSeen'
  BY <1>1, <1>2 DEF TwinsInv, AdminSeeded, AdminExists, OverlapSeen
<1>4. \A q \in Seeders \ {p} : (Newcomer(q)' <=> Newcomer(q)) /\ (Harmless(q)' <=> Harmless(q))
  BY <1>1, RolesKept
<1>5. Unspoiled' <=> Unspoiled
  BY <1>1 DEF Unspoiled
<1>6. ASSUME NEW CONSTANT q \in Seeders \ {p}, Running(q), First(q) PROVE First(q)'
  <2>1. seed'[q] = seed[q] /\ After(q)' = After(q)
    BY <1>1, <1>6 DEF After, Pending
  <2>2. OthersNew(q)'
    BY <1>2, <1>4, <1>6 DEF First, OthersNew
  <2>3. QED
    BY <1>6, <2>1, <2>2 DEF First
<1>7. RolesInv'
  BY <1>1, <1>2, <1>4, <1>5, <1>6 DEF TwinsInv, RolesInv, Fares
<1>8. QED
  BY <1>3, <1>7 DEF TwinsInv

\* The commit of a seed leaves its administrator, and what it has inserted if it
\* was the first.
LEMMA CommitTwins ==
    ASSUME IndInv, TwinsInv, NEW CONSTANT p \in Seeders, Commit(p)
    PROVE  TwinsInv'
<1>1. /\ Base /\ TypeOK /\ Running(p) /\ Commits(p) /\ seed[p].pc = "commit" /\ EndSeed(p)
      /\ adds' = adds /\ seeded' /\ fresh' = fresh /\ overlap' = overlap
  BY RunningSession DEF IndInv, Base, Commit, Commits, Pending, SeedPCs, counts
<1>2. ~Doomed(p)
  BY <1>1, NotDoomed DEF Commit
<1>3. ~Running(p)' /\ \A q \in Seeders \ {p} : seed'[q] = seed[q]
  BY <1>1, EndStep
<1>4. \A q \in Seeders : Running(q)' => Running(q) /\ q # p
  BY <1>3 DEF Running
<1>5. AdminExists'
  <2>1. seed[p].admin \in Ids /\ HasAdmin(p)
    BY <1>1, PendingFacts DEF SessionFits, PlaceFits
  <2>2. PICK r \in RowsAt(p, seed[p].admin) : r.table = "user" /\ r.key = "admin"
    BY <2>1 DEF HasAdmin
  <2>3. db'[seed[p].admin] # Null /\ SameRow(r, db'[seed[p].admin])
    BY <1>1, <2>1, <2>2, CommittedReferences
  <2>4. QED
    BY <2>1, <2>2, <2>3 DEF AdminExists, SameRow
<1>6. AdminSeeded' /\ OverlapSeen'
  BY <1>1, <1>4, <1>5 DEF TwinsInv, AdminSeeded, OverlapSeen
<1>7. SUFFICES ASSUME Unspoiled
               PROVE  ~HasTwins(db') /\ \A q \in Seeders : Running(q)' => Fares(q)'
  BY <1>1, <1>6 DEF TwinsInv, RolesInv, Unspoiled
<1>8. IF fresh /\ seeded THEN Harmless(p) ELSE First(p)
  <2>1. ~Newcomer(p)
    BY <1>1 DEF Newcomer
  <2>2. QED
    BY <1>1, <1>7, <2>1, RoleIs
<1>9. ~HasTwins(db')
  <2>1. CASE Harmless(p)
    <3>1. \A i \in Ids : db'[i] # Null => db[i] # Null /\ SameRow(db[i], db'[i])
      BY <1>1, <1>2, <2>1, CommittedNew, CommittedSame DEF Harmless, Pending
    <3>2. ~HasTwins(db)
      BY <1>7 DEF TwinsInv, RolesInv
    <3>3. QED
      BY <3>1, <3>2, FewerTwins
  <2>2. CASE First(p)
    <3>1. \A i \in Ids : db'[i] # Null => db'[i] = After(p)[i]
      BY <1>1, AppliedRow DEF Commits, After
    <3>2. PICK old, new : old = After(p) /\ new = db'
      OBVIOUS
    <3>3. ~HasTwins(new)
      BY <2>2, <3>1, <3>2, FewerTwins DEF First, SameRow
    <3>4. QED
      BY <3>2, <3>3
  <2>3. QED
    BY <1>8, <2>1, <2>2
<1>10. ASSUME NEW CONSTANT q \in Seeders, Running(q)' PROVE Fares(q)'
  <2>1. Running(q) /\ q # p /\ Fares(q)
    BY <1>4, <1>7, <1>10 DEF TwinsInv, RolesInv
  <2>2. (Newcomer(q)' <=> Newcomer(q)) /\ (Harmless(q)' <=> Harmless(q))
    BY <1>3, <2>1, RolesKept
  <2>3. CASE fresh /\ seeded
    BY <1>1, <2>1, <2>2, <2>3 DEF Fares
  <2>4. CASE ~(fresh /\ seeded)
    BY <1>8, <2>1, <2>2, <2>4 DEF First, OthersNew, Fares
  <2>5. QED
    BY <2>3, <2>4
<1>11. QED
  BY <1>9, <1>10

\* The student, the worker and the other administrator.
LEMMA SameRowsTwins ==
    ASSUME IndInv, SessionsInv', TwinsInv, db' = db, given' = given, seed' = seed,
           adds' = 0 => adds = 0, fresh' = fresh, seeded' = seeded, overlap' = overlap
    PROVE  TwinsInv'
<1>1. Base /\ TypeOK
  BY DEF IndInv, Base
<1>2. \A q \in Seeders : Keeps(q)
  BY <1>1, AllKeep
<1>3. QuietRows
  BY <1>1, <1>2, GivenFacts, KeepingOld, UnchangedIsQuiet
<1>4. QED
  BY <1>2, <1>3, OthersRoles

LEMMA InsertedTwins ==
    ASSUME IndInv, SessionsInv', TwinsInv, NEW row \in Row, InsertRow(row), row.table # "user",
           db[row.parent] # Null => db[row.parent].table = ParentTable(row.table),
           \A q \in Seeders : Keeps(q), adds' = 0 => adds = 0 /\ row.table = "submission",
           fresh' = fresh, seeded' = seeded, overlap' = overlap
    PROVE  TwinsInv'
<1>1. Base
  BY DEF IndInv, Base
<1>2. QuietRows /\ \A i \in Ids : db'[i] # db[i] => db'[i] = row
  BY <1>1, InsertRowStep
<1>3. QED
  BY <1>2, OthersRoles

LEMMA ValuedTwins ==
    ASSUME IndInv, SessionsInv', TwinsInv, NEW i \in Ids,
           NEW v \in {"pending", "running", "judged", "vacuous"},
           db[i] # Null, db[i].table = "submission", db' = [db EXCEPT ![i].value = v],
           given' = given, adds' = adds, seed' = seed,
           fresh' = fresh, seeded' = seeded, overlap' = overlap
    PROVE  TwinsInv'
<1>1. Base /\ TypeOK
  BY DEF IndInv, Base
<1>2. \A q \in Seeders : Keeps(q)
  BY <1>1, AllKeep
<1>3. QuietRows /\ \A j \in Ids : j # i => db'[j] = db[j]
  BY <1>1, <1>2, ValueStep
<1>4. QED
  BY <1>2, <1>3, OthersRoles

LEMMA OthersTwins ==
    ASSUME IndInv, IndInv', TwinsInv,
           \/ \E i \in Ids : Submit(i) \/ StartJudging(i) \/ CheckOwner(i)
           \/ InsertSubmission \/ LoadCases \/ StoreVerdict \/ CreateTest \/ Add
           \/ UNCHANGED vars
    PROVE  TwinsInv'
<1>1. Base /\ TypeOK /\ SessionsInv' /\ OthersInv
  BY DEF IndInv, Base
<1>2. adds \in Nat /\ adds + 1 # 0
  <2>1. adds \in Nat
    BY <1>1 DEF TypeOK
  <2>2. QED
    BY <2>1, SMT
<1>3. ASSUME NEW i \in Ids, Submit(i) \/ CheckOwner(i) PROVE TwinsInv'
  BY <1>1, <1>2, <1>3, SameRowsTwins DEF Submit, CheckOwner, history
<1>4. CASE LoadCases \/ UNCHANGED vars
  BY <1>1, <1>4, SameRowsTwins DEF LoadCases, vars, counts, history
<1>5. ASSUME NEW i \in Ids, StartJudging(i) PROVE TwinsInv'
  BY <1>1, <1>5, ValuedTwins DEF StartJudging, counts, history
<1>6. CASE StoreVerdict
  <2>1. worker # Idle
    BY <1>6 DEF StoreVerdict, Idle
  <2>2. PICK i \in Ids, v \in {"pending", "running", "judged", "vacuous"} :
            i = worker.job /\ v = worker.verdict
    BY <1>1, <1>6, <2>1, WorkerFacts DEF StoreVerdict
  <2>3. db[i] # Null => db[i].table = "submission"
    BY <1>1, <2>1, <2>2 DEF OthersInv, WorkerFits
  <2>4. CASE db[i] = Null
    BY <1>1, <1>6, <2>2, <2>4, SameRowsTwins DEF StoreVerdict, counts, history
  <2>5. CASE db[i] # Null
    BY <1>1, <1>6, <2>2, <2>3, <2>5, ValuedTwins DEF StoreVerdict, counts, history
  <2>6. QED
    BY <2>4, <2>5
<1>7. CASE InsertSubmission
  <2>1. student # Idle /\ student \in [pc: {"insert"}, question: Ids]
    BY <1>1, <1>7 DEF InsertSubmission, Idle, TypeOK
  <2>2. PICK row \in Row : row = [table |-> "submission", parent |-> student.question,
                                  key |-> Null, value |-> "pending"]
    <3>1. [table |-> "submission", parent |-> student.question, key |-> Null, value |-> "pending"] \in Row
      BY <2>1, SMT DEF Row
    <3>2. QED
      BY <3>1
  <2>3. db[row.parent] # Null => db[row.parent].table = ParentTable(row.table)
    BY <1>1, <2>1, <2>2 DEF OthersInv, StudentFits, ParentTable
  <2>4. \A q \in Seeders : Keeps(q)
    BY <1>1, <1>7, AllKeep DEF InsertSubmission
  <2>5. QED
    BY <1>1, <1>7, <2>2, <2>3, <2>4, InsertedTwins DEF InsertSubmission, counts, history
<1>8. CASE CreateTest
  <2>1. PICK row \in Row :
            row = [table |-> "test", parent |-> OtherAdmin, key |-> "contest", value |-> "other"]
    <3>1. [table |-> "test", parent |-> OtherAdmin, key |-> "contest", value |-> "other"] \in Row
      BY BoundsAssumption, SMT DEF Row, Contents
    <3>2. QED
      BY <3>1
  <2>2. db[row.parent].table = ParentTable(row.table)
    BY <1>1, <2>1 DEF Base, DatabaseInv, ParentTable
  <2>3. \A q \in Seeders : Keeps(q)
    BY <1>1, <1>8, DisturbAll DEF CreateTest
  <2>4. QED
    BY <1>1, <1>2, <1>8, <2>1, <2>2, <2>3, InsertedTwins DEF CreateTest
<1>9. CASE Add
  <2>1. admin # Idle /\ admin \in [pc: {"add"}, row: Row]
    BY <1>1, <1>9 DEF Add, Idle, TypeOK
  <2>2. PICK row \in Row : row = admin.row
    BY <2>1, SMT
  <2>3. /\ row.table \in {"question", "case"} /\ adds > 0
        /\ db[row.parent] # Null => db[row.parent].table = ParentTable(row.table)
    BY <1>1, <2>1, <2>2 DEF OthersInv, AdminFits
  <2>4. adds # 0
    BY <1>2, <2>3, SMT
  <2>5. \A q \in Seeders : Keeps(q)
    BY <1>1, <1>9, DisturbAll DEF Add
  <2>6. QED
    BY <1>1, <1>9, <2>2, <2>3, <2>4, <2>5, InsertedTwins DEF Add, counts
<1>10. QED
  BY <1>3, <1>4, <1>5, <1>6, <1>7, <1>8, <1>9

LEMMA StepsKeepTwins ==
    ASSUME IndInv, TwinsInv, [Next]_vars
    PROVE  TwinsInv'
<1>1. IndInv'
  BY StepsKeepInvariant
<1>2. ASSUME NEW p \in Seeders, Begin(p) PROVE TwinsInv'
  BY <1>2, BeginTwins
<1>3. ASSUME NEW p \in Seeders, Commit(p) PROVE TwinsInv'
  BY <1>3, CommitTwins
<1>4. ASSUME NEW p \in Seeders, Reject(p) \/ Fail(p) PROVE TwinsInv'
  <2>1. EndSeed(p) /\ UNCHANGED <<db, adds, history>>
    BY <1>4 DEF Reject, Fail, outside, counts
  <2>2. QED
    BY <2>1, EndTwins
<1>5. ASSUME NEW p \in Seeders, OwnAction(p)
      PROVE  TwinsInv'
  BY <1>1, <1>5, OwnTwins
<1>6. ASSUME \/ \E i \in Ids : Submit(i) \/ StartJudging(i) \/ CheckOwner(i)
             \/ InsertSubmission \/ LoadCases \/ StoreVerdict \/ CreateTest \/ Add
             \/ UNCHANGED vars
      PROVE  TwinsInv'
  BY <1>1, <1>6, OthersTwins
<1>7. QED
  BY <1>2, <1>3, <1>4, <1>5, <1>6 DEF Next, SeedStep, OwnAction

\* From a database without twins no two rows with one title come to be, however
\* often it is seeded, as long as seeds overlap at most on a new database (and
\* no administrator adds to the catalogue): there the second seed to start has
\* either seen the rows of the first, or inserts an administrator whose name is
\* taken (seed.py:60, and the UNIQUE username of schema.py).
THEOREM NothingDoubled == (\A rows \in Starts : ~HasTwins(rows)) => (Spec => []NothingIsDoubled)
<1> SUFFICES ASSUME \A rows \in Starts : ~HasTwins(rows) PROVE Spec => []NothingIsDoubled
  OBVIOUS
<1>1. Init => TwinsInv
  BY DEF Init, TwinsInv, AdminSeeded, AdminExists, OverlapSeen, RolesInv, Running, Idle
<1>2. IndInv /\ TwinsInv /\ [Next]_vars => TwinsInv'
  BY StepsKeepTwins
<1>3. TwinsInv => NothingIsDoubled
  BY DEF TwinsInv, RolesInv, Unspoiled, NothingIsDoubled
<1>4. QED
  BY <1>1, <1>2, <1>3, SeedingInvariantHolds, PTL DEF Spec

-----------------------------------------------------------------------------
(* A session that runs alone *)

\* Only an update can write what a session refers to, and leaves what it is.
LEMMA WritesReference ==
    ASSUME SessionsInv', NEW CONSTANT p \in Seeders, Running(p)', NEW CONSTANT i,
           NEW CONSTANT r, r \in RowsAt(p, i)',
           r.table \in {"user", "test"} \/ (r.table = "question" /\ r.key \in Titles),
           NEW CONSTANT w, w \in Pending(p)', w.id = i, w.op \in {"insert", "update", "delete"}
    PROVE  w.op # "delete" /\ SameRow(r, w.row)
<1>1. /\ WriteFits(p, w)'
      /\ \A x \in Pending(p)' : x.id = i => x = w
  BY DEF SessionsInv, SessionFits, WritesFit
<1>2. CASE r = db'[i] /\ r # Null
  <2>1. w.op # "insert"
    BY <1>1, <1>2 DEF WriteFits
  <2>2. w.op # "delete"
    BY <1>1, <1>2, CatalogueFacts DEF WriteFits
  <2>3. QED
    BY <1>1, <1>2, <2>1, <2>2 DEF WriteFits
<1>3. CASE \E x \in Pending(p)' : x.op = "insert" /\ x.id = i /\ x.row = r
  BY <1>1, <1>3 DEF SameRow
<1>4. QED
  BY <1>2, <1>3, InNextRowsAt

LEMMA ReferenceKept ==
    ASSUME Base, SessionsInv', NEW CONSTANT p \in Seeders, Running(p), Running(p)', db' = db,
           NEW W, Pending(p)' = Pending(p) \cup W, NEW CONSTANT i \in Ids,
           NEW r, r \in RowsAt(p, i),
           r.table \in {"user", "test"} \/ (r.table = "question" /\ r.key \in Titles),
           \A w \in W : /\ w.op \in {"insert", "update", "delete"}
                        /\ w.op # "delete" => ~SameRow(r, w.row)
    PROVE  After(p)'[i] = After(p)[i]
<1>1. PICK x : x = r
  OBVIOUS
<1>2. x \in RowsAt(p, i)'
  BY <1>1, InRowsAt, InNextRowsAt
<1>3. \A w \in W : w.id # i
  <2> SUFFICES ASSUME NEW w \in W, w.id = i PROVE FALSE
    OBVIOUS
  <2>1. w \in Pending(p)'
    OBVIOUS
  <2>2. PICK v : v = w
    OBVIOUS
  <2>3. v.op # "delete" /\ SameRow(x, v.row)
    BY <1>1, <1>2, <2>1, <2>2, WritesReference
  <2>4. QED
    BY <1>1, <2>2, <2>3
<1>4. QED
  BY <1>3, AfterGrows

LEMMA LooksRow ==
    ASSUME Base, SessionsInv', NEW CONSTANT p \in Seeders, Running(p), Running(p)', db' = db,
           NEW CONSTANT i \in Ids, NEW row, NEW found, NEW W, Looks(p, found, i, row, W)
    PROVE  /\ After(p)'[i] = row
           /\ \A w \in W : /\ w.id = i /\ w.row = row /\ w.op \in {"insert", "update"}
                           /\ w.op = "update" => db[w.id] # Null
           /\ Pending(p)' = Pending(p) \cup W
<1>1. Pending(p)' = Pending(p) \cup W
  BY DEF Looks
<1>2. CASE W = {Insert(i, row)}
  <2>1. Insert(i, row).id = i /\ Insert(i, row).row = row /\ Insert(i, row).op = "insert"
    BY DEF Insert
  <2>2. /\ \A w \in W : w.id = i /\ w.row = row
        /\ \E w \in W : w.id = i
    BY <1>2, <2>1
  <2>3. After(p)'[i] = row
    BY <1>1, <2>2, AfterGrows
  <2>4. QED
    BY <1>1, <1>2, <2>1, <2>3
<1>3. CASE W = Setting(i, db[i], row) /\ db[i] # Null /\ \A w \in Pending(p) : w.id # i
  <2>1. Update(i, row).id = i /\ Update(i, row).row = row /\ Update(i, row).op = "update"
    BY DEF Update
  <2>2. CASE row = db[i]
    <3>1. W = {}
      BY <1>3, <2>2 DEF Setting
    <3>2. After(p)'[i] = row
      BY <1>1, <1>3, <2>2, <3>1, AfterGrows, AfterRow
    <3>3. QED
      BY <1>1, <3>1, <3>2
  <2>3. CASE row # db[i]
    <3>1. W = {Update(i, row)}
      BY <1>3, <2>3 DEF Setting
    <3>2. /\ \A w \in W : w.id = i /\ w.row = row
          /\ \E w \in W : w.id = i
      BY <2>1, <3>1
    <3>3. After(p)'[i] = row
      BY <1>1, <3>2, AfterGrows
    <3>4. QED
      BY <1>1, <1>3, <2>1, <3>1, <3>3
  <2>4. QED
    BY <2>2, <2>3
<1>4. QED
  BY <1>2, <1>3 DEF Looks

\* A case that is the catalogue's, or deleted, is so after more writes.
LEMMA OtherGrows ==
    ASSUME db' = db, NEW CONSTANT p, NEW W, Pending(p)' = Pending(p) \cup W, NoOthers(p),
           NEW CONSTANT y \in Ids, db[y] # Null, db[y].table = "case", db[y].parent \in seed[p].synced
    PROVE  \/ \E w \in Pending(p)' : w.op = "delete" /\ w.id = y
           \/ /\ db[y].key \in KeysOf(db[db[y].parent].key)
              /\ y \in Good(p, db[y].parent, db[y].key)'
<1>1. ASSUME NEW CONSTANT q, NEW CONSTANT k, NEW CONSTANT z, z \in Good(p, q, k)
      PROVE  z \in Good(p, q, k)'
  BY <1>1 DEF Good
<1>2. CASE \E w \in Pending(p) : w.op = "delete" /\ w.id = y
  BY <1>2
<1>3. CASE db[y].key \in KeysOf(db[db[y].parent].key) /\ y \in Good(p, db[y].parent, db[y].key)
  <2>1. PICK q, k : q = db[y].parent /\ k = db[y].key
    OBVIOUS
  <2>2. y \in Good(p, q, k)'
    BY <1>1, <1>3, <2>1
  <2>3. QED
    BY <1>3, <2>1, <2>2 DEF Good
<1>4. QED
  BY <1>2, <1>3 DEF NoOthers

LEMMA OthersGrow ==
    ASSUME db' = db, NEW CONSTANT p, NEW W, Pending(p)' = Pending(p) \cup W,
           seed'[p].synced = seed[p].synced, NoOthers(p)
    PROVE  NoOthers(p)'
<1> SUFFICES ASSUME NEW CONSTANT y \in Ids, db[y] # Null, db[y].table = "case",
                    db[y].parent \in seed[p].synced
             PROVE  \/ \E w \in Pending(p)' : w.op = "delete" /\ w.id = y
                    \/ /\ db[y].key \in KeysOf(db[db[y].parent].key)
                       /\ y \in Good(p, db[y].parent, db[y].key)'
  BY DEF NoOthers, Good
<1>1. QED
  BY OtherGrows

LEMMA FindAdminSolo ==
    ASSUME IndInv, IndInv', NEW CONSTANT p \in Seeders, FindAdmin(p)
    PROVE  Solo(p)'
<1> DEFINE s == seed[p]
           t == seed'[p]
<1>1. Base /\ SessionsInv'
  BY DEF IndInv, Base
<1>2. /\ Steps(p) /\ SameElse(p) /\ Running(p) /\ s.pc = "admin" /\ Pending(p) = {}
      /\ t.pc = "test" \/ (t.pc = "flush" /\ t.next = "test")
  BY FindAdminLooks
<1>3. db' = db /\ Running(p)'
  BY <1>2 DEF Steps, outside, Running
<1>4. PICK i \in Ids : (\E W : Looks(p, Select(p, "user", Null, "admin"), i, AdminRow, W)) /\ t.admin = i
  BY FindAdminLooks
<1>5. PICK W : Looks(p, Select(p, "user", Null, "admin"), i, AdminRow, W)
  BY <1>4
<1>6. /\ After(p)'[i] = AdminRow /\ Pending(p)' = Pending(p) \cup W
      /\ \A w \in W : w.op = "update" => db[w.id] # Null
  BY <1>1, <1>2, <1>3, <1>5, LooksRow
<1>7. t.check = {} /\ t.synced = {}
  BY <1>1, <1>2, OnlyUsers DEF SameElse, BeforeTest
<1>8. BeforeTest(p)' /\ BeforeCheck(p)' /\ ~AtCases(p)'
  BY <1>2 DEF BeforeTest, BeforeCheck, AtCases
<1>9. \A w \in Pending(p)' : w.op = "update" => db'[w.id] # Null
  BY <1>2, <1>3, <1>6
<1>10. NoOthers(p)'
  BY <1>7 DEF NoOthers
<1>11. QED
  BY <1>4, <1>6, <1>7, <1>8, <1>9, <1>10 DEF Solo

LEMMA FindTestSolo ==
    ASSUME IndInv, IndInv', NEW CONSTANT p \in Seeders, FindTest(p), Solo(p)
    PROVE  Solo(p)'
<1> DEFINE s == seed[p]
           t == seed'[p]
<1>1. Base /\ SessionsInv'
  BY DEF IndInv, Base
<1>2. /\ Steps(p) /\ SameElse(p) /\ Running(p) /\ s.pc = "test" /\ BeforeTest(p) /\ s.admin \in Ids
      /\ t.pc = "retired" \/ (t.pc = "flush" /\ t.next = "retired")
      /\ t.admin = s.admin
  BY FindTestLooks
<1>3. db' = db /\ Running(p)'
  BY <1>2 DEF Steps, outside, Running
<1>4. PICK i \in Ids, row \in Row :
         /\ row = [table |-> "test", parent |-> s.admin, key |-> "contest", value |-> "catalogue"]
         /\ \E W : Looks(p, Contests(p), i, row, W)
         /\ t.test = i
  BY FindTestLooks
<1>5. PICK W : Looks(p, Contests(p), i, row, W)
  BY <1>4
<1>6. /\ After(p)'[i] = row /\ Pending(p)' = Pending(p) \cup W
      /\ \A w \in W : /\ w.row = row /\ w.op \in {"insert", "update"}
                      /\ w.op = "update" => db[w.id] # Null
  BY <1>1, <1>2, <1>3, <1>5, LooksRow
<1>7. t.check = {} /\ t.synced = {}
  BY <1>1, <1>2, OnlyUsers DEF SameElse
<1>8. ~BeforeTest(p)' /\ BeforeCheck(p)' /\ ~AtCases(p)'
  BY <1>2 DEF BeforeTest, BeforeCheck, AtCases
<1>9. \A w \in Pending(p)' : w.op = "update" => db'[w.id] # Null
  BY <1>3, <1>6 DEF Solo
<1>10. NoOthers(p)'
  BY <1>7 DEF NoOthers
<1>11. After(p)'[s.admin] = AdminRow
  <2>1. HasAdmin(p)
    BY <1>1, <1>2, PendingFacts DEF SessionFits, PlaceFits
  <2>2. PICK r \in RowsAt(p, s.admin) : r.table = "user"
    BY <2>1 DEF HasAdmin
  <2>3. \A w \in W : w.op \in {"insert", "update", "delete"} /\ ~SameRow(r, w.row)
    BY <1>4, <1>6, <2>2 DEF SameRow
  <2>4. PICK a \in Ids : a = s.admin
    BY <1>2
  <2>5. After(p)'[a] = After(p)[a]
    BY <1>1, <1>2, <1>3, <1>6, <2>2, <2>3, <2>4, ReferenceKept
  <2>6. QED
    BY <1>2, <2>4, <2>5 DEF Solo
<1>12. QED
  BY <1>2, <1>4, <1>6, <1>7, <1>8, <1>9, <1>10, <1>11 DEF Solo

\* What a session has come to, its writes leave.
LEMMA ComeToKept ==
    ASSUME Base, SessionsInv', NEW CONSTANT p \in Seeders, Running(p), Running(p)', db' = db,
           NEW W, Pending(p)' = Pending(p) \cup W, Solo(p),
           \A w \in W : w.op \in {"insert", "update", "delete"},
           \A w \in W : w.op # "delete" => w.row.table \in {"question", "case"}
    PROVE  /\ ~BeforeTest(p) /\ seed[p].pc # "admin" =>
                 /\ seed[p].admin \in Ids /\ After(p)'[seed[p].admin] = AdminRow
                 /\ seed[p].test \in Ids /\ After(p)'[seed[p].test].parent = seed[p].admin
                 /\ After(p)'[seed[p].test].value = "catalogue"
<1> SUFFICES ASSUME ~BeforeTest(p), seed[p].pc # "admin"
             PROVE  /\ seed[p].admin \in Ids /\ After(p)'[seed[p].admin] = AdminRow
                    /\ seed[p].test \in Ids /\ After(p)'[seed[p].test] = After(p)[seed[p].test]
  BY DEF Solo
<1>1. seed[p].admin \in Ids /\ HasAdmin(p) /\ seed[p].test \in Ids /\ HasTest(p)
  BY PendingFacts DEF SessionFits, PlaceFits
<1>2. PICK a, r : a = seed[p].admin /\ r \in RowsAt(p, a) /\ r.table = "user"
  BY <1>1 DEF HasAdmin
<1>3. PICK t, x : t = seed[p].test /\ x \in RowsAt(p, t) /\ x.table = "test"
  BY <1>1 DEF HasTest
<1>4. \A w \in W : w.op # "delete" => ~SameRow(r, w.row) /\ ~SameRow(x, w.row)
  BY <1>2, <1>3 DEF SameRow
<1>5. After(p)'[a] = After(p)[a]
  BY <1>1, <1>2, <1>4, ReferenceKept
<1>6. After(p)'[t] = After(p)[t]
  BY <1>1, <1>3, <1>4, ReferenceKept
<1>7. QED
  BY <1>1, <1>2, <1>3, <1>5, <1>6 DEF Solo

LEMMA SyncedKept ==
    ASSUME Base, SessionsInv', NEW CONSTANT p \in Seeders, Running(p), Running(p)', db' = db,
           NEW W, Pending(p)' = Pending(p) \cup W, Solo(p),
           \A w \in W : w.op \in {"insert", "update", "delete"},
           NEW CONSTANT q \in seed[p].synced,
           \A w \in W : w.op # "delete" /\ w.row.table = "question" =>
               \A t \in Titles : HasQuestion(p, q, t) => w.row.key # t
    PROVE  After(p)'[q].value = "catalogue"
<1>1. q \in Ids /\ \E t \in Titles : HasQuestion(p, q, t)
  BY SyncedIds
<1>2. PICK t \in Titles : HasQuestion(p, q, t)
  BY <1>1
<1>3. PICK r \in RowsAt(p, q) : r.table = "question" /\ r.key = t
  BY <1>2 DEF HasQuestion
<1>4. \A w \in W : w.op # "delete" => ~SameRow(r, w.row)
  BY <1>2, <1>3 DEF SameRow
<1>5. After(p)'[q] = After(p)[q]
  BY <1>1, <1>3, <1>4, ReferenceKept
<1>6. QED
  BY <1>5 DEF Solo

LEMMA FindQuestionSolo ==
    ASSUME IndInv, IndInv', NEW CONSTANT p \in Seeders, FindQuestion(p), Solo(p)
    PROVE  Solo(p)'
<1> DEFINE s == seed[p]
           t == seed'[p]
<1>1. Base /\ SessionsInv'
  BY DEF IndInv, Base
<1>2. /\ Steps(p) /\ SameElse(p) /\ Running(p) /\ s.pc = "question" /\ Title(p) \in Titles
      /\ t.pc = "cases" \/ (t.pc = "flush" /\ t.next = "cases")
      /\ t.admin = s.admin /\ t.test = s.test
  BY FindQuestionLooks
<1>3. db' = db /\ Running(p)'
  BY <1>2 DEF Steps, outside, Running
<1>4. PICK i \in Ids, row \in Row :
         /\ row = [table |-> "question", parent |-> s.test, key |-> Title(p), value |-> "catalogue"]
         /\ \E W : Looks(p, Select(p, "question", seed[p].test, Title(p)), i, row, W)
         /\ t.question = i
  BY FindQuestionLooks
<1>5. PICK W : Looks(p, Select(p, "question", seed[p].test, Title(p)), i, row, W)
  BY <1>4
<1>6. /\ After(p)'[i] = row /\ Pending(p)' = Pending(p) \cup W
      /\ \A w \in W : /\ w.row = row /\ w.op \in {"insert", "update"}
                      /\ w.op = "update" => db[w.id] # Null
  BY <1>1, <1>2, <1>3, <1>5, LooksRow
<1>7. s.check = {} /\ s.nth \in 1..Len(Catalogue) /\ t.check = s.check /\ t.synced = s.synced
  BY <1>1, <1>2, AtAQuestion DEF SameElse
<1>8. ~BeforeTest(p) /\ ~BeforeCheck(p) /\ ~BeforeTest(p)' /\ ~BeforeCheck(p)'
  BY <1>2 DEF BeforeTest, BeforeCheck
<1>9. \A w \in Pending(p)' : w.op = "update" => db'[w.id] # Null
  BY <1>3, <1>6 DEF Solo
<1>10. NoOthers(p)'
  BY <1>3, <1>6, <1>7, OthersGrow DEF Solo
<1>11. /\ After(p)'[s.admin] = AdminRow /\ After(p)'[s.test].parent = s.admin
       /\ After(p)'[s.test].value = "catalogue"
  BY <1>1, <1>2, <1>3, <1>4, <1>6, <1>8, ComeToKept
<1>12. ASSUME NEW CONSTANT q \in s.synced PROVE After(p)'[q].value = "catalogue"
  <2>1. ~HasQuestion(p, q, Title(p))
    BY <1>1, <1>2, <1>7, AnotherTitle
  <2>2. \A w \in W : w.op # "delete" /\ w.row.table = "question" =>
            \A u \in Titles : HasQuestion(p, q, u) => w.row.key # u
    BY <1>4, <1>6, <2>1
  <2>3. QED
    BY <1>1, <1>2, <1>3, <1>6, <2>2, SyncedKept
<1>13. ASSUME NEW r \in Children(db, "question", s.test), db[r].key \in Retired
       PROVE  Delete(r) \in Pending(p)' \/ r \in s.check \/ Children(db, "submission", r) # {}
  BY <1>6, <1>8, <1>13 DEF Solo
<1>14. QED
  BY <1>2, <1>3, <1>4, <1>6, <1>7, <1>8, <1>9, <1>10, <1>11, <1>12, <1>13 DEF Solo, Children

LEMMA FlushSolo ==
    ASSUME IndInv, NEW CONSTANT p \in Seeders, Flush(p), Solo(p)
    PROVE  Solo(p)'
<1> DEFINE s == seed[p]
           t == seed'[p]
<1>1. Base /\ TypeOK /\ s.pc = "flush" /\ Running(p)
  BY RunningSession DEF IndInv, Base, Flush, SeedPCs
<1>2. /\ Steps(p) /\ SameRefs(p) /\ t.synced = s.synced /\ t.check = s.check
      /\ t.unsent = {} /\ t.sent = s.sent \cup s.unsent /\ t.pc = s.next
  BY <1>1, FlushStep
<1>3. s.next \in {"test", "retired", "cases"} /\ db' = db
  BY <1>1, <1>2, PendingFacts DEF SessionFits, PlaceFits, Steps, outside
<1>4. Pending(p)' = Pending(p)
  BY <1>2 DEF Pending
<1>5. After(p)' = After(p)
  BY <1>3, <1>4 DEF After
<1>6. (BeforeTest(p)' <=> BeforeTest(p)) /\ (BeforeCheck(p)' <=> BeforeCheck(p)) /\ (AtCases(p)' <=> AtCases(p))
  BY <1>1, <1>2, <1>3 DEF BeforeTest, BeforeCheck, AtCases
<1>7. NoOthers(p)'
  <2>1. PICK W : W = {}
    OBVIOUS
  <2>2. Pending(p)' = Pending(p) \cup W
    BY <1>4, <2>1
  <2>3. QED
    BY <1>2, <1>3, <2>2, OthersGrow DEF Solo
<1>8. t.admin = s.admin /\ t.test = s.test /\ t.question = s.question
  BY <1>2 DEF SameRefs
<1>9. QED
  BY <1>1, <1>2, <1>3, <1>4, <1>5, <1>6, <1>7, <1>8 DEF Solo, Children

LEMMA ListRetiredSolo ==
    ASSUME IndInv, NEW CONSTANT p \in Seeders, ListRetired(p), Solo(p)
    PROVE  Solo(p)'
<1> DEFINE s == seed[p]
           t == seed'[p]
           found == UNION {Select(p, "question", seed[p].test, u) : u \in Retired}
<1>1. Base /\ TypeOK /\ s.pc = "retired" /\ Running(p)
  BY RunningSession DEF IndInv, Base, ListRetired, SeedPCs
<1>2. /\ Steps(p) /\ SameRefs(p) /\ t.synced = s.synced /\ t.check = found
      /\ t.unsent = s.unsent /\ t.sent = s.sent /\ t.pc \in {"question", "check"}
  BY <1>1, ListRetiredStep
<1>3. db' = db /\ Pending(p)' = Pending(p)
  BY <1>2 DEF Pending, Steps, outside
<1>4. After(p)' = After(p)
  BY <1>3 DEF After
<1>5. BeforeCheck(p) /\ ~BeforeTest(p) /\ ~BeforeTest(p)' /\ ~AtCases(p) /\ ~AtCases(p)'
  BY <1>1, <1>2 DEF BeforeTest, BeforeCheck, AtCases
<1>6. NoOthers(p)'
  <2>1. PICK W : W = {}
    OBVIOUS
  <2>2. Pending(p)' = Pending(p) \cup W
    BY <1>3, <2>1
  <2>3. QED
    BY <1>2, <1>3, <2>2, OthersGrow DEF Solo
<1>7. t.admin = s.admin /\ t.test = s.test
  BY <1>2 DEF SameRefs
<1>8. s.test \in Ids /\ \A w \in Pending(p) : w.op # "delete"
  BY <1>1, <1>5, PendingFacts DEF SessionFits, PlaceFits
<1>9. ASSUME NEW r \in found PROVE r \in Children(db, "question", s.test)
  <2>1. PICK u \in Retired : r \in Select(p, "question", s.test, u)
    OBVIOUS
  <2>2. /\ r \in Ids /\ View(p)[r] # Null /\ View(p)[r].table = "question" /\ View(p)[r].key = u
        /\ View(p)[r].parent = s.test
    BY <1>8, <2>1, IdFacts DEF Select
  <2>3. db[r] # Null /\ db[r].table = "question" /\ \A w \in Pending(p) : w.id # r
    BY <1>1, <1>5, <2>1, <2>2, RetiredRow
  <2>4. View(p)[r] = db[r]
    BY <1>1, <2>2, <2>3, ViewRow DEF Pending
  <2>5. QED
    BY <2>2, <2>3, <2>4 DEF Children
<1>10. ASSUME NEW r \in Children(db, "question", s.test), db[r].key \in Retired PROVE r \in found
  <2>1. r \in Ids /\ db[r] # Null /\ db[r].table = "question" /\ db[r].parent = s.test
    BY DEF Children
  <2>2. ASSUME NEW w \in Pending(p), w.id = r PROVE FALSE
    <3>1. /\ w.op # "delete" /\ WriteFits(p, w) /\ w.op \in {"insert", "update", "delete"}
      BY <1>1, <1>8, PendingFacts
    <3>2. w.row.table = "question" /\ w.row.key = db[r].key
      BY <2>1, <2>2, <3>1 DEF WriteFits, SameRow
    <3>3. w.row.key \in Titles
      BY <1>1, <3>1, <3>2, ContentTypes
    <3>4. QED
      BY <1>10, <3>2, <3>3, CatalogueFacts
  <2>3. View(p)[r] = db[r]
    BY <1>1, <1>8, <2>1, <2>2, ViewCommitted
  <2>4. r \in Select(p, "question", s.test, db[r].key)
    BY <2>1, <2>3 DEF Select
  <2>5. QED
    BY <1>10, <2>4
<1> HIDE DEF found
<1>11. QED
  BY <1>1, <1>2, <1>3, <1>4, <1>5, <1>6, <1>7, <1>9, <1>10 DEF Solo, Children

LEMMA CheckRetiredSolo ==
    ASSUME IndInv, IndInv', NEW CONSTANT p \in Seeders, CheckRetired(p), Solo(p)
    PROVE  Solo(p)'
<1> DEFINE s == seed[p]
           t == seed'[p]
<1>1. Base /\ TypeOK /\ s.pc = "check" /\ Running(p) /\ SessionsInv'
  BY RunningSession DEF IndInv, Base, CheckRetired, SeedPCs
<1>2. /\ Steps(p) /\ SameRefs(p) /\ t.sent = s.sent /\ t.synced = s.synced
      /\ t.pc \in {"check", "question"}
      /\ \E r \in s.check :
            /\ t.check = s.check \ {r}
            /\ t.unsent = s.unsent \cup (IF UnusedQuestion(p, r) THEN {Delete(r)} ELSE {})
  BY <1>1, CheckRetiredStep
<1>3. db' = db /\ Running(p)' /\ t.admin = s.admin /\ t.test = s.test
  BY <1>2 DEF Steps, outside, Running, SameRefs
<1>4. PICK r \in s.check :
            /\ t.check = s.check \ {r}
            /\ t.unsent = s.unsent \cup (IF UnusedQuestion(p, r) THEN {Delete(r)} ELSE {})
  BY <1>2
<1>5. PICK W : W = IF UnusedQuestion(p, r) THEN {Delete(r)} ELSE {}
  OBVIOUS
<1>6. /\ Pending(p)' = Pending(p) \cup W
      /\ \A w \in W : w.op = "delete"
  BY <1>2, <1>4, <1>5 DEF Pending, Delete
<1>7. ~BeforeTest(p) /\ ~BeforeCheck(p) /\ ~BeforeTest(p)' /\ ~BeforeCheck(p)' /\ ~AtCases(p)'
  BY <1>1, <1>2 DEF BeforeTest, BeforeCheck, AtCases
<1>8. NoOthers(p)'
  BY <1>2, <1>3, <1>6, OthersGrow DEF Solo
<1>9. \A w \in Pending(p)' : w.op = "update" => db'[w.id] # Null
  BY <1>3, <1>6 DEF Solo
<1>10. /\ After(p)'[s.admin] = AdminRow /\ After(p)'[s.test].parent = s.admin
       /\ After(p)'[s.test].value = "catalogue"
  BY <1>1, <1>3, <1>6, <1>7, ComeToKept
<1>11. ASSUME NEW CONSTANT q \in s.synced PROVE After(p)'[q].value = "catalogue"
  BY <1>1, <1>3, <1>6, SyncedKept
<1>12. ~UnusedQuestion(p, r) => Children(db, "submission", r) # {}
  <2> SUFFICES ASSUME ~UnusedQuestion(p, r) PROVE Children(db, "submission", r) # {}
    OBVIOUS
  <2>1. PICK i \in Ids : View(p)[i] # Null /\ View(p)[i].table = "submission" /\ View(p)[i].parent = r
    BY DEF UnusedQuestion, Children
  <2>2. \A w \in seed[p].sent : w.op # "delete" => w.row.table # "submission"
    BY <1>1, ContentTypes DEF Pending
  <2>3. View(p)[i] = db[i]
    BY <1>1, <2>1, <2>2, ViewRow
  <2>4. QED
    BY <2>1, <2>3 DEF Children
<1>13. ASSUME NEW x \in Children(db, "question", s.test), db[x].key \in Retired
       PROVE  Delete(x) \in Pending(p)' \/ x \in t.check \/ Children(db, "submission", x) # {}
  BY <1>4, <1>5, <1>6, <1>7, <1>12, <1>13 DEF Solo
<1>14. t.check \subseteq Children(db, "question", s.test)
  BY <1>4 DEF Solo
<1>15. QED
  BY <1>2, <1>3, <1>7, <1>8, <1>9, <1>10, <1>11, <1>13, <1>14 DEF Solo, Children

LEMMA SyncSolo ==
    ASSUME IndInv, IndInv', NEW CONSTANT p \in Seeders, SyncCases(p), Solo(p)
    PROVE  Solo(p)'
<1> DEFINE s == seed[p]
           t == seed'[p]
<1>1. /\ Base /\ TypeOK /\ s.pc = "cases" /\ given + Len(CaseKeys[Title(p)]) \in Ids /\ SessionsInv'
  BY DEF IndInv, Base, SyncCases
<1>2. /\ Running(p) /\ s.nth \in 1..Len(Catalogue) /\ Title(p) \in Titles /\ s.check = {}
  BY <1>1, AtAQuestion
<1>3. PICK q \in Ids : q = s.question
  BY <1>1, CasesSeen
<1>4. PICK title \in Titles : title = Title(p)
  BY <1>2
<1> DEFINE keys == CaseKeys[title]
           existing == Children(db, "case", q)
           kept == {i \in existing : db[i].key \in KeysOf(title) /\ IsFirst(db, existing, i)}
<1>5. PICK W : W = CaseWrites(View(p), q, title)
  OBVIOUS
<1>6. /\ q \notin s.synced /\ HasQuestion(p, q, title)
      /\ db[q] # Null => db[q].table = "question" /\ db[q].key = title
      /\ \A i \in existing : i \in Ids /\ db[i] \in Row /\ db[q] # Null /\ \A w \in Pending(p) : w.id # i
  BY <1>1, <1>3, <1>4, CasesSeen
<1>7. /\ \A w \in W :
            \/ w.op = "delete" /\ w.row = Null /\ w.id \in existing \ kept
            \/ w.op = "update" /\ w.id \in kept /\ w.row = CaseRow(q, db[w.id].key)
            \/ /\ w.op = "insert"
               /\ \E m \in 1..Len(keys) : w.id = given + m /\ w.row = CaseRow(q, keys[m])
      /\ W \subseteq Write
      /\ \A i \in existing \ kept : Delete(i) \in W
      /\ \A i \in kept : db[i] # CaseRow(q, db[i].key) => Update(i, CaseRow(q, db[i].key)) \in W
  BY <1>1, <1>3, <1>4, <1>5, CaseWritesFacts
<1>8. /\ Steps(p) /\ SameRefs(p) /\ t.sent = s.sent /\ t.unsent = s.unsent \cup W
      /\ t.pc \in {"commit", "question"} /\ t.synced = s.synced \cup {q} /\ t.check = s.check
  <2>1. s.nth <= Len(Catalogue)
    BY <1>2, CatalogueFacts, SMT
  <2>2. s.question \in Ids /\ CaseWrites(View(p), s.question, Title(p)) \in SUBSET Write
    BY <1>3, <1>4, <1>5, <1>7
  <2>3. SyncCases(p)
    OBVIOUS
  <2>4. /\ Steps(p) /\ SameRefs(p) /\ t.sent = s.sent /\ t.check = s.check
        /\ t.synced = s.synced \cup {s.question}
        /\ t.unsent = s.unsent \cup CaseWrites(View(p), s.question, Title(p))
        /\ t.pc = IF s.nth = Len(Catalogue) THEN "commit" ELSE "question"
    BY <1>1, <2>1, <2>2, <2>3, SyncStep
  <2>5. QED
    BY <1>3, <1>4, <1>5, <2>4
<1>9. db' = db /\ Running(p)' /\ t.admin = s.admin /\ t.test = s.test
  BY <1>8 DEF Steps, outside, Running, SameRefs
<1>10. /\ Pending(p)' = Pending(p) \cup W
       /\ \A w \in W : w.op \in {"insert", "update", "delete"}
       /\ \A w \in W : w.op # "delete" => w.row.table = "case" /\ w.row.value = "catalogue"
       /\ \A w \in W : w.op = "update" => db[w.id] # Null
  <2>1. \A k : CaseRow(q, k).table = "case" /\ CaseRow(q, k).value = "catalogue"
    BY DEF CaseRow
  <2>2. \A i \in kept : db[i] # Null
    BY DEF Children
  <2> HIDE DEF kept, keys, existing
  <2>3. QED
    BY <1>7, <1>8, <2>1, <2>2 DEF Pending
<1>11. ~BeforeTest(p) /\ ~BeforeCheck(p) /\ AtCases(p) /\ ~BeforeTest(p)' /\ ~BeforeCheck(p)' /\ ~AtCases(p)'
  BY <1>1, <1>8 DEF BeforeTest, BeforeCheck, AtCases
<1>12. \A w \in Pending(p)' : w.op = "update" => db'[w.id] # Null
  BY <1>9, <1>10 DEF Solo
<1>13. /\ After(p)'[s.admin] = AdminRow /\ After(p)'[s.test].parent = s.admin
       /\ After(p)'[s.test].value = "catalogue"
  BY <1>1, <1>2, <1>9, <1>10, <1>11, ComeToKept
<1>14. ASSUME NEW CONSTANT x \in s.synced PROVE After(p)'[x].value = "catalogue"
  BY <1>1, <1>2, <1>9, <1>10, SyncedKept
<1>15. After(p)'[q].value = "catalogue"
  <2>1. PICK r \in RowsAt(p, q) : r.table = "question" /\ r.key = title
    BY <1>6 DEF HasQuestion
  <2>2. \A w \in W : w.op # "delete" => ~SameRow(r, w.row)
    BY <1>10, <2>1 DEF SameRow
  <2>3. After(p)'[q] = After(p)[q]
    BY <1>1, <1>2, <1>9, <1>10, <2>1, <2>2, ReferenceKept
  <2>4. QED
    BY <1>3, <1>11, <2>3 DEF Solo
<1>16. ASSUME NEW CONSTANT y \in Ids, db[y] # Null, db[y].table = "case", db[y].parent \in t.synced
       PROVE  \/ \E w \in Pending(p)' : w.op = "delete" /\ w.id = y
              \/ /\ db[y].key \in KeysOf(db[db[y].parent].key)
                 /\ y \in Good(p, db[y].parent, db[y].key)'
  <2>1. CASE db[y].parent \in s.synced
    BY <1>9, <1>10, <1>16, <2>1, OtherGrows DEF Solo
  <2>2. CASE db[y].parent = q /\ y \notin kept
    <3>1. Delete(y) \in W
      BY <1>7, <1>16, <2>2 DEF Children
    <3>2. QED
      BY <1>10, <3>1 DEF Delete
  <2>3. CASE db[y].parent = q /\ y \in kept
    <3>1. db[y].key \in KeysOf(title) /\ db[q] # Null /\ db[y] \in Row
      BY <1>6, <2>3
    <3>2. db[y].value = "catalogue" \/ Update(y, CaseRow(q, db[y].key)) \in W
      BY <1>7, <2>3 DEF CaseRow
    <3>3. db[y].value = "catalogue" \/ \E w \in Pending(p)' : w.op = "update" /\ w.id = y
      BY <1>10, <3>2 DEF Update
    <3>4. y \in Good(p, db[y].parent, db[y].key)'
      BY <1>9, <1>16, <3>3 DEF Good
    <3>5. QED
      BY <1>6, <2>3, <3>1, <3>4
  <2>4. QED
    BY <1>8, <1>16, <2>1, <2>2, <2>3
<1>17. NoOthers(p)'
  BY <1>9, <1>16 DEF NoOthers, Good
<1>18. ASSUME NEW r \in Children(db, "question", s.test), db[r].key \in Retired
       PROVE  Delete(r) \in Pending(p)' \/ Children(db, "submission", r) # {}
  BY <1>2, <1>10, <1>11, <1>18 DEF Solo
<1> HIDE DEF kept, keys, existing
<1>19. QED
  BY <1>2, <1>8, <1>9, <1>11, <1>12, <1>13, <1>14, <1>15, <1>17, <1>18 DEF Solo, Children

-----------------------------------------------------------------------------
(* A session on a database that is as a seed left it *)

LEMMA RowIs ==
    ASSUME NEW r \in Row, NEW x \in Row, r.table = x.table, r.parent = x.parent, r.key = x.key,
           r.value = x.value
    PROVE  r = x
<1>1. /\ r = [table |-> r.table, parent |-> r.parent, key |-> r.key, value |-> r.value]
      /\ x = [table |-> x.table, parent |-> x.parent, key |-> x.key, value |-> x.value]
  BY DEF Row
<1>2. QED
  BY <1>1

LEMMA OneOfAKind ==
    ASSUME ~HasTwins(db), NEW i \in Ids, NEW j \in Ids, db[i] # Null, db[j] # Null,
           db[i].table = db[j].table, db[i].table \in {"user", "test", "question", "case"},
           db[i].key = db[j].key, db[i].parent = db[j].parent \/ db[i].table = "test"
    PROVE  i = j
BY DEF HasTwins, Twins

LEMMA QuietSees ==
    ASSUME Base, NEW p \in Seeders, Running(p), Pending(p) = {}
    PROVE  /\ View(p) = db
           /\ \A i : \A r \in RowsAt(p, i) : r = db[i] /\ db[i] # Null
BY DEF View, Pending, RowsAt

LEMMA FoundAsIs ==
    ASSUME NEW p, NEW found, NEW i, NEW row, NEW W, Looks(p, found, i, row, W),
           found # {}, i \in found => db[i] = row, Pending(p) = {}
    PROVE  Pending(p)' = {}
BY DEF Looks, Setting

\* The rows of a database that is as a seed left it.
LEMMA SeededRows ==
    ASSUME TypeOK, AsSeeded
    PROVE  \E t \in Ids :
              /\ db[t] # Null /\ db[t] \in Row /\ db[t].table = "test" /\ db[t].key = "contest"
              /\ db[t].value = "catalogue"
              /\ db[t].parent \in Ids /\ db[db[t].parent] = AdminRow /\ AdminRow # Null
              /\ \A r \in Children(db, "question", t) :
                    db[r].key \in Retired => Children(db, "submission", r) # {}
              /\ \A title \in Titles : \E q \in Children(db, "question", t) :
                    /\ q \in Ids /\ db[q] # Null /\ db[q] \in Row /\ db[q].table = "question"
                    /\ db[q].parent = t /\ db[q].key = title /\ db[q].value = "catalogue"
                    /\ \A k \in KeysOf(title) : \E i \in Children(db, "case", q) : db[i].key = k
                    /\ \A i \in Children(db, "case", q) :
                          db[i].key \in KeysOf(title) /\ db[i].value = "catalogue"
<1>1. PICK t \in Ids :
          /\ db[t] # Null /\ db[t].table = "test" /\ db[t].value = "catalogue"
          /\ db[db[t].parent] = AdminRow
          /\ \A r \in Children(db, "question", t) :
                db[r].key \in Retired => Children(db, "submission", r) # {}
          /\ \A title \in Titles : \E q \in Children(db, "question", t) :
                /\ db[q].key = title /\ db[q].value = "catalogue"
                /\ \A k \in KeysOf(title) : \E i \in Children(db, "case", q) : db[i].key = k
                /\ \A i \in Children(db, "case", q) :
                      db[i].key \in KeysOf(title) /\ db[i].value = "catalogue"
  BY DEF AsSeeded
<1>2. db[t] \in Row /\ db[t].parent \in Ids /\ db[t].key = "contest"
  BY <1>1, RowFacts, RowTypes
<1>3. AdminRow # Null
  BY RowsMade, RowTypes DEF AdminRow
<1>4. \A q \in Children(db, "question", t) :
          /\ q \in Ids /\ db[q] # Null /\ db[q] \in Row /\ db[q].table = "question" /\ db[q].parent = t
  BY RowFacts DEF Children
<1>5. ASSUME NEW title \in Titles
      PROVE  \E q \in Children(db, "question", t) :
                    /\ q \in Ids /\ db[q] # Null /\ db[q] \in Row /\ db[q].table = "question"
                    /\ db[q].parent = t /\ db[q].key = title /\ db[q].value = "catalogue"
                    /\ \A k \in KeysOf(title) : \E i \in Children(db, "case", q) : db[i].key = k
                    /\ \A i \in Children(db, "case", q) :
                          db[i].key \in KeysOf(title) /\ db[i].value = "catalogue"
  BY <1>1, <1>4
<1>6. QED
  BY <1>1, <1>2, <1>3, <1>5

LEMMA FindAdminCalm ==
    ASSUME IndInv, AsSeeded, ~HasTwins(db), NEW CONSTANT p \in Seeders, FindAdmin(p), Pending(p) = {}
    PROVE  Pending(p)' = {}
<1>1. Base /\ TypeOK /\ Running(p)
  BY FindAdminLooks DEF IndInv, Base
<1>2. PICK t \in Ids : db[t].parent \in Ids /\ db[db[t].parent] = AdminRow /\ AdminRow # Null
  BY <1>1, SeededRows
<1>3. PICK a \in Ids : a = db[t].parent /\ db[a] = AdminRow
  BY <1>2
<1>4. PICK found : found = Select(p, "user", Null, "admin")
  OBVIOUS
<1>5. PICK i \in Ids : \E W : Looks(p, found, i, AdminRow, W)
  BY <1>4, FindAdminLooks
<1>5a. PICK W : Looks(p, found, i, AdminRow, W)
  BY <1>5
<1>6. AdminRow.table = "user" /\ AdminRow.key = "admin" /\ AdminRow.parent = Null
  BY DEF AdminRow
<1>7. a \in found
  BY <1>1, <1>2, <1>3, <1>4, <1>6, QuietSees DEF Select
<1>8. i \in found => db[i] = AdminRow
  <2> SUFFICES ASSUME i \in found PROVE db[i] = AdminRow
    OBVIOUS
  <2>1. db[i] # Null /\ db[i].table = "user" /\ db[i].key = "admin"
    BY <1>1, <1>4, QuietSees DEF Select
  <2>2. db[i].parent = Null
    BY <1>1, <2>1, RowFacts
  <2>3. i = a
    BY <1>2, <1>3, <1>6, <2>1, <2>2, OneOfAKind
  <2>4. QED
    BY <1>3, <2>3
<1>9. QED
  BY <1>5a, <1>7, <1>8, FoundAsIs

\* The administrator and the contest it has found are the ones there are.
LEMMA QuietReferences ==
    ASSUME Base, ~HasTwins(db), NEW p \in Seeders, Running(p), Pending(p) = {},
           NEW t \in Ids, db[t] # Null, db[t].table = "test", db[t].parent \in Ids,
           db[db[t].parent] = AdminRow, AdminRow # Null
    PROVE  /\ seed[p].pc # "admin" => seed[p].admin = db[t].parent
           /\ ~BeforeTest(p) => seed[p].test = t
<1>1. AdminRow.table = "user" /\ AdminRow.key = "admin" /\ AdminRow.parent = Null
  BY DEF AdminRow
<1>2. ASSUME seed[p].pc # "admin" PROVE seed[p].admin = db[t].parent
  <2>1. seed[p].admin \in Ids /\ HasAdmin(p)
    BY <1>2, PendingFacts DEF SessionFits, PlaceFits
  <2>2. PICK a \in Ids : a = seed[p].admin
    BY <2>1
  <2>3. db[a] # Null /\ db[a].table = "user" /\ db[a].key = "admin"
    BY <2>1, <2>2, QuietSees DEF HasAdmin
  <2>4. db[a].parent = Null
    BY <2>2, <2>3, RowFacts DEF Base
  <2>5. QED
    BY <1>1, <2>2, <2>3, <2>4, OneOfAKind
<1>3. ASSUME ~BeforeTest(p) PROVE seed[p].test = t
  <2>1. seed[p].test \in Ids /\ HasTest(p)
    BY <1>3, PendingFacts DEF SessionFits, PlaceFits
  <2>2. PICK a \in Ids : a = seed[p].test
    BY <2>1
  <2>3. db[a] # Null /\ db[a].table = "test"
    BY <2>1, <2>2, QuietSees DEF HasTest
  <2>4. db[a].key = db[t].key
    BY <2>2, <2>3, RowFacts, RowTypes DEF Base
  <2>5. QED
    BY <2>2, <2>3, <2>4, OneOfAKind
<1>4. QED
  BY <1>2, <1>3

LEMMA FindTestCalm ==
    ASSUME IndInv, AsSeeded, ~HasTwins(db), NEW CONSTANT p \in Seeders, FindTest(p), Pending(p) = {}
    PROVE  Pending(p)' = {}
<1> DEFINE s == seed[p]
<1>1. Base /\ TypeOK /\ Running(p) /\ s.pc = "test"
  BY FindTestLooks DEF IndInv, Base
<1>2. PICK t \in Ids :
         /\ db[t] # Null /\ db[t] \in Row /\ db[t].table = "test" /\ db[t].key = "contest"
         /\ db[t].value = "catalogue"
         /\ db[t].parent \in Ids /\ db[db[t].parent] = AdminRow /\ AdminRow # Null
  BY <1>1, SeededRows
<1>3. s.admin = db[t].parent
  BY <1>1, <1>2, QuietReferences
<1>4. PICK found : found = Contests(p)
  OBVIOUS
<1>5. PICK i \in Ids, row \in Row :
         /\ row = [table |-> "test", parent |-> s.admin, key |-> "contest", value |-> "catalogue"]
         /\ \E W : Looks(p, found, i, row, W)
  BY <1>4, FindTestLooks
<1>6. PICK W : Looks(p, found, i, row, W)
  BY <1>5
<1>7. t \in found
  BY <1>1, <1>2, <1>4, QuietSees DEF Contests, Select
<1>8. i \in found => db[i] = row
  <2> SUFFICES ASSUME i \in found PROVE db[i] = row
    OBVIOUS
  <2>1. db[i] # Null /\ db[i].table = "test" /\ db[i].key = "contest"
    BY <1>1, <1>4, QuietSees DEF Contests, Select
  <2>2. i = t
    BY <1>2, <2>1, OneOfAKind
  <2>3. /\ row.table = db[t].table /\ row.parent = db[t].parent /\ row.key = db[t].key
        /\ row.value = db[t].value
    BY <1>2, <1>3, <1>5
  <2>4. QED
    BY <1>2, <2>2, <2>3, RowIs
<1>9. QED
  BY <1>6, <1>7, <1>8, FoundAsIs

LEMMA FindQuestionCalm ==
    ASSUME IndInv, AsSeeded, ~HasTwins(db), NEW CONSTANT p \in Seeders, FindQuestion(p), Pending(p) = {}
    PROVE  Pending(p)' = {}
<1> DEFINE s == seed[p]
<1>1. Base /\ TypeOK /\ Running(p) /\ s.pc = "question" /\ Title(p) \in Titles /\ ~BeforeTest(p)
  BY FindQuestionLooks DEF IndInv, Base, BeforeTest
<1>2. PICK t \in Ids :
         /\ db[t] # Null /\ db[t].table = "test"
         /\ db[t].parent \in Ids /\ db[db[t].parent] = AdminRow /\ AdminRow # Null
         /\ \A title \in Titles : \E q \in Children(db, "question", t) :
               /\ q \in Ids /\ db[q] # Null /\ db[q] \in Row /\ db[q].table = "question"
               /\ db[q].parent = t /\ db[q].key = title /\ db[q].value = "catalogue"
  BY <1>1, SeededRows
<1>3. s.test = t
  BY <1>1, <1>2, QuietReferences
<1>4. PICK found : found = Select(p, "question", s.test, Title(p))
  OBVIOUS
<1>5. PICK i \in Ids, row \in Row :
         /\ row = [table |-> "question", parent |-> s.test, key |-> Title(p), value |-> "catalogue"]
         /\ \E W : Looks(p, found, i, row, W)
  BY <1>4, FindQuestionLooks
<1>6. PICK W : Looks(p, found, i, row, W)
  BY <1>5
<1>7. PICK q \in Ids : /\ db[q] # Null /\ db[q] \in Row /\ db[q].table = "question"
                       /\ db[q].parent = t /\ db[q].key = Title(p) /\ db[q].value = "catalogue"
  BY <1>1, <1>2
<1>8. q \in found
  BY <1>1, <1>3, <1>4, <1>7, QuietSees DEF Select
<1>9. i \in found => db[i] = row
  <2> SUFFICES ASSUME i \in found PROVE db[i] = row
    OBVIOUS
  <2>1. db[i] # Null /\ db[i].table = "question" /\ db[i].key = Title(p) /\ db[i].parent = t
    BY <1>1, <1>3, <1>4, QuietSees, IdFacts DEF Select
  <2>2. i = q
    BY <1>7, <2>1, OneOfAKind
  <2>3. /\ row.table = db[q].table /\ row.parent = db[q].parent /\ row.key = db[q].key
        /\ row.value = db[q].value
    BY <1>3, <1>5, <1>7
  <2>4. QED
    BY <1>7, <2>2, <2>3, RowIs
<1>10. QED
  BY <1>6, <1>8, <1>9, FoundAsIs

LEMMA CheckRetiredCalm ==
    ASSUME IndInv, AsSeeded, ~HasTwins(db), NEW CONSTANT p \in Seeders, CheckRetired(p), Solo(p),
           Pending(p) = {}
    PROVE  Pending(p)' = {}
<1> DEFINE s == seed[p]
           u == seed'[p]
<1>1. Base /\ TypeOK /\ s.pc = "check" /\ Running(p) /\ ~BeforeTest(p)
  BY RunningSession DEF IndInv, Base, CheckRetired, SeedPCs, BeforeTest
<1>2. PICK r \in s.check :
            u.unsent = s.unsent \cup (IF UnusedQuestion(p, r) THEN {Delete(r)} ELSE {})
  BY <1>1, CheckRetiredStep
<1>3. u.sent = s.sent
  BY <1>1, CheckRetiredStep
<1>4. PICK t \in Ids :
         /\ db[t] # Null /\ db[t].table = "test"
         /\ db[t].parent \in Ids /\ db[db[t].parent] = AdminRow /\ AdminRow # Null
         /\ \A x \in Children(db, "question", t) :
               db[x].key \in Retired => Children(db, "submission", x) # {}
  BY <1>1, SeededRows
<1>5. s.test = t
  BY <1>1, <1>4, QuietReferences
<1>6. r \in Children(db, "question", t)
  BY <1>2, <1>5 DEF Solo
<1>7. db[r].key \in Retired
  BY <1>1, <1>2, <1>6, PendingFacts DEF SessionFits, PlaceFits, Children
<1>8. ~UnusedQuestion(p, r)
  BY <1>1, <1>4, <1>6, <1>7, QuietSees DEF UnusedQuestion
<1>9. QED
  BY <1>2, <1>3, <1>8 DEF Pending

\* A case is updated only if that changes it.
LEMMA UpdatesChange ==
    ASSUME Base, NEW p \in Seeders, seed[p].pc = "cases",
           NEW w \in CaseWrites(View(p), seed[p].question, Title(p)), w.op = "update"
    PROVE  db[w.id] # CaseRow(seed[p].question, db[w.id].key)
<1> DEFINE q == seed[p].question
           title == Title(p)
           rows == View(p)
           seen == Children(rows, "case", q)
           first == {j \in seen : rows[j].key \in KeysOf(title) /\ IsFirst(rows, seen, j)}
           present == {rows[j].key : j \in first}
<1>1. \A j \in seen : rows[j] = db[j]
  BY CasesSeen
<1>2. first \subseteq seen
  OBVIOUS
<1>3. \A j : Delete(j).op = "delete"
  BY DEF Delete
<1>4. \A x \in NewCases(q, CaseKeys[title], present) : x.op = "insert"
  BY DEF NewCases, Insert
<1> HIDE DEF first, seen, rows, present
<1>5. \/ w \in {Delete(j) : j \in seen \ first}
      \/ w \in UNION {Setting(j, rows[j], CaseRow(q, rows[j].key)) : j \in first}
      \/ w \in NewCases(q, CaseKeys[title], present)
  BY DEF CaseWrites, first, seen, rows, present
<1>6. PICK j \in first : w \in Setting(j, rows[j], CaseRow(q, rows[j].key))
  BY <1>3, <1>4, <1>5
<1>7. w.id = j /\ rows[j] # CaseRow(q, rows[j].key)
  BY <1>6 DEF Setting, Update
<1>8. QED
  BY <1>1, <1>2, <1>6, <1>7

LEMMA SyncCalm ==
    ASSUME IndInv, AsSeeded, ~HasTwins(db), NEW CONSTANT p \in Seeders, SyncCases(p), Pending(p) = {}
    PROVE  Pending(p)' = {}
<1> DEFINE s == seed[p]
           u == seed'[p]
<1>1. /\ Base /\ TypeOK /\ s.pc = "cases" /\ given + Len(CaseKeys[Title(p)]) \in Ids /\ ~BeforeTest(p)
  BY DEF IndInv, Base, SyncCases, BeforeTest
<1>2. /\ Running(p) /\ s.nth \in 1..Len(Catalogue) /\ Title(p) \in Titles
  BY <1>1, AtAQuestion
<1>3. PICK q \in Ids : q = s.question
  BY <1>1, CasesSeen
<1>4. PICK title \in Titles : title = Title(p)
  BY <1>2
<1> DEFINE keys == CaseKeys[title]
           existing == Children(db, "case", q)
           kept == {i \in existing : db[i].key \in KeysOf(title) /\ IsFirst(db, existing, i)}
<1>5. PICK W : W = CaseWrites(View(p), q, title)
  OBVIOUS
<1>6. HasQuestion(p, q, title) /\ \A i \in existing : i \in Ids /\ db[i] \in Row /\ db[i] # Null
  BY <1>1, <1>3, <1>4, CasesSeen, IdFacts
<1>7. /\ \A w \in W :
            \/ w.op = "delete" /\ w.row = Null /\ w.id \in existing \ kept
            \/ w.op = "update" /\ w.id \in kept /\ w.row = CaseRow(q, db[w.id].key)
            \/ /\ w.op = "insert"
               /\ \E m \in 1..Len(keys) : w.id = given + m /\ w.row = CaseRow(q, keys[m])
      /\ W \subseteq Write
  BY <1>1, <1>3, <1>4, <1>5, CaseWritesFacts
<1>8. u.sent = s.sent /\ u.unsent = s.unsent \cup W
  <2>1. s.nth <= Len(Catalogue)
    BY <1>2, CatalogueFacts, SMT
  <2>2. s.question \in Ids /\ CaseWrites(View(p), s.question, Title(p)) \in SUBSET Write
    BY <1>3, <1>4, <1>5, <1>7
  <2>3. SyncCases(p)
    OBVIOUS
  <2>4. u.sent = s.sent /\ u.unsent = s.unsent \cup CaseWrites(View(p), s.question, Title(p))
    BY <1>1, <2>1, <2>2, <2>3, SyncStep
  <2>5. QED
    BY <1>3, <1>4, <1>5, <2>4
<1>9. PICK t \in Ids :
         /\ db[t] # Null /\ db[t].table = "test"
         /\ db[t].parent \in Ids /\ db[db[t].parent] = AdminRow /\ AdminRow # Null
         /\ \A name \in Titles : \E x \in Children(db, "question", t) :
               /\ x \in Ids /\ db[x] # Null /\ db[x] \in Row /\ db[x].table = "question"
               /\ db[x].parent = t /\ db[x].key = name /\ db[x].value = "catalogue"
               /\ \A k \in KeysOf(name) : \E i \in Children(db, "case", x) : db[i].key = k
               /\ \A i \in Children(db, "case", x) :
                     db[i].key \in KeysOf(name) /\ db[i].value = "catalogue"
  BY <1>1, SeededRows
<1>10. s.test = t
  BY <1>1, <1>2, <1>9, QuietReferences
<1>11. /\ \A k \in KeysOf(title) : \E i \in existing : db[i].key = k
       /\ \A i \in existing : db[i].key \in KeysOf(title) /\ db[i].value = "catalogue"
  <2>1. PICK x \in Ids : /\ db[x] # Null /\ db[x].table = "question" /\ db[x].parent = t /\ db[x].key = title
                         /\ \A k \in KeysOf(title) : \E i \in Children(db, "case", x) : db[i].key = k
                         /\ \A i \in Children(db, "case", x) :
                               db[i].key \in KeysOf(title) /\ db[i].value = "catalogue"
    BY <1>9
  <2>2. db[q] # Null /\ db[q].table = "question" /\ db[q].parent = t /\ db[q].key = title
    BY <1>1, <1>2, <1>6, <1>10, QuietSees DEF HasQuestion
  <2>3. x = q
    BY <2>1, <2>2, OneOfAKind
  <2>4. QED
    BY <2>1, <2>3
<1>12. \A i \in existing : IsFirst(db, existing, i)
  <2> SUFFICES ASSUME NEW i \in existing, NEW j \in existing, db[j].key = db[i].key PROVE i <= j
    BY DEF IsFirst
  <2>1. /\ db[i].table = "case" /\ db[i].parent = q /\ db[j].table = "case" /\ db[j].parent = q
        /\ i \in Ids /\ j \in Ids
    BY DEF Children
  <2>2. i = j
    BY <1>6, <2>1, OneOfAKind
  <2>3. QED
    BY <2>1, <2>2, IdFacts
<1>13. existing \subseteq kept
  BY <1>11, <1>12
<1>14. ASSUME NEW w \in W PROVE FALSE
  <2>1. CASE w.op = "delete" /\ w.id \in existing \ kept
    BY <1>13, <2>1
  <2>2. CASE w.op = "update" /\ w.id \in existing
    <3>1. db[w.id] # CaseRow(q, db[w.id].key)
      BY <1>1, <1>3, <1>4, <1>5, <2>2, UpdatesChange
    <3>2. db[w.id] \in Row /\ w.id \in Ids /\ CaseRow(q, db[w.id].key) \in Row
      BY <1>6, <1>11, <2>2, RowsMade, CatalogueFacts
    <3>3. db[w.id].table = "case" /\ db[w.id].parent = q /\ db[w.id].value = "catalogue"
      BY <1>11, <2>2 DEF Children
    <3>4. /\ CaseRow(q, db[w.id].key).table = "case" /\ CaseRow(q, db[w.id].key).parent = q
          /\ CaseRow(q, db[w.id].key).value = "catalogue"
          /\ CaseRow(q, db[w.id].key).key = db[w.id].key
      BY DEF CaseRow
    <3>5. QED
      BY <3>1, <3>2, <3>3, <3>4, RowIs
  <2>3. CASE w.op = "insert" /\ \E m \in 1..Len(keys) : w.row = CaseRow(q, keys[m])
    <3>1. PICK m \in 1..Len(keys) : w.row = CaseRow(q, keys[m])
      BY <2>3
    <3>2. keys[m] \in KeysOf(title) /\ w.row.key = keys[m]
      BY <3>1 DEF KeysOf, CaseRow
    <3>3. PICK i \in existing : db[i].key = keys[m]
      BY <1>11, <3>2
    <3>4. db[i].key # w.row.key
      BY <1>1, <1>3, <1>4, <1>5, <1>12, <2>3, <3>2, <3>3, NewCasesMissing
    <3>5. QED
      BY <3>2, <3>3, <3>4
  <2> HIDE DEF keys
  <2>4. QED
    BY <1>7, <2>1, <2>2, <2>3
<1>15. QED
  BY <1>8, <1>14 DEF Pending

\* A session writes nothing to a database that is as a seed left it.
LEMMA CalmStays ==
    ASSUME IndInv, AsSeeded, ~HasTwins(db), NEW CONSTANT p \in Seeders, OwnAction(p), Solo(p),
           Pending(p) = {}
    PROVE  Pending(p)' = {}
<1>1. CASE ListRetired(p)
  <2>1. seed'[p].unsent = seed[p].unsent /\ seed'[p].sent = seed[p].sent
    BY <1>1, ListRetiredStep DEF IndInv
  <2>2. QED
    BY <2>1 DEF Pending
<1>2. CASE Flush(p)
  <2>1. seed'[p].unsent = {} /\ seed'[p].sent = seed[p].sent \cup seed[p].unsent
    BY <1>2, FlushStep DEF IndInv
  <2>2. QED
    BY <2>1 DEF Pending
<1>3. QED
  BY <1>1, <1>2, FindAdminCalm, FindTestCalm, FindQuestionCalm, CheckRetiredCalm, SyncCalm DEF OwnAction

LEMMA SoloStays ==
    ASSUME IndInv, IndInv', NEW CONSTANT p \in Seeders, OwnAction(p), Solo(p)
    PROVE  Solo(p)'
BY FindAdminSolo, FindTestSolo, ListRetiredSolo, CheckRetiredSolo, FindQuestionSolo, SyncSolo, FlushSolo
   DEF OwnAction

-----------------------------------------------------------------------------
(* The commit of a session that ran alone *)

LEMMA CommitSeeds ==
    ASSUME IndInv, NEW CONSTANT p \in Seeders, Commit(p), Solo(p)
    PROVE  AsSeeded'
<1> DEFINE s == seed[p]
<1>1. Base /\ TypeOK /\ Running(p) /\ Commits(p) /\ s.pc = "commit"
  BY RunningSession DEF IndInv, Base, Commit, Commits, Pending, SeedPCs
<1>2. ~Doomed(p)
  BY <1>1, NotDoomed DEF Commit
<1>3. PlaceFits(p) /\ s \in Session
  BY <1>1, PendingFacts DEF SessionFits
<1>4. ~BeforeTest(p) /\ ~BeforeCheck(p)
  BY <1>1 DEF BeforeTest, BeforeCheck
<1>5. /\ s.admin \in Ids /\ HasAdmin(p) /\ s.test \in Ids /\ HasTest(p) /\ s.check = {}
      /\ s.nth > Len(Catalogue) /\ s.nth \in 1..(Len(Catalogue) + 1)
  BY <1>1, <1>3, <1>4, SessionTypes DEF PlaceFits
<1>6. \A i \in Ids : db'[i] # Null => db'[i] = After(p)[i]
  BY <1>1, AppliedRow DEF Commits, After
<1>7. PICK a \in Ids, t \in Ids : a = s.admin /\ t = s.test
  BY <1>5
<1>8. db'[a] = AdminRow
  <2>1. PICK x \in RowsAt(p, a) : x.table = "user"
    BY <1>5, <1>7 DEF HasAdmin
  <2>2. db'[a] # Null
    BY <1>1, <2>1, CommittedReferences
  <2>3. QED
    BY <1>1, <1>6, <1>7, <2>2 DEF Solo
<1>9. db'[t] # Null /\ db'[t].table = "test" /\ db'[t].parent = a /\ db'[t].value = "catalogue"
  <2>1. PICK x \in RowsAt(p, t) : x.table = "test"
    BY <1>5, <1>7 DEF HasTest
  <2>2. db'[t] # Null /\ db'[t].table = "test"
    BY <1>1, <2>1, CommittedReferences DEF SameRow
  <2>3. QED
    BY <1>4, <1>6, <1>7, <2>2 DEF Solo
<1>10. ASSUME NEW r \in Children(db', "question", t), db'[r].key \in Retired
       PROVE  Children(db', "submission", r) # {}
  <2>1. r \in Ids /\ db'[r] # Null /\ db'[r].table = "question" /\ db'[r].parent = t
    BY DEF Children
  <2>2. db[r] # Null
    <3> SUFFICES ASSUME db[r] = Null PROVE FALSE
      OBVIOUS
    <3>1. PICK w \in Pending(p) : w.op = "insert" /\ db'[r] = w.row
      BY <1>1, <1>2, <2>1, CommittedNew
    <3>2. w.row.key \in Titles
      BY <1>1, <2>1, <3>1, ContentTypes
    <3>3. QED
      BY <1>10, <3>1, <3>2, CatalogueFacts
  <2>3. db[r].table = "question" /\ db[r].key \in Retired /\ db[r].parent = t
    BY <1>1, <1>10, <2>1, <2>2, CommittedSame DEF SameRow
  <2>4. \A w \in Pending(p) : w.op = "delete" => w.id # r
    BY <1>1, <2>1, CommittedRow, PendingFacts
  <2>5. Delete(r) \notin Pending(p)
    BY <2>4 DEF Delete
  <2>6. r \in Children(db, "question", s.test)
    BY <1>7, <2>1, <2>2, <2>3 DEF Children
  <2>7. Children(db, "submission", r) # {}
    BY <1>4, <1>5, <2>3, <2>5, <2>6 DEF Solo
  <2>8. PICK i \in Ids : db[i] # Null /\ db[i].table = "submission" /\ db[i].parent = r
    BY <2>7 DEF Children
  <2>9. ASSUME NEW w \in Pending(p), w.id = i PROVE FALSE
    <3>1. WriteFits(p, w) /\ w.op \in {"insert", "update", "delete"}
      BY <1>1, PendingFacts
    <3>2. w.op = "update" /\ w.row.table = "submission"
      BY <2>8, <2>9, <3>1 DEF WriteFits, SameRow
    <3>3. QED
      BY <1>1, <3>2, ContentTypes
  <2>10. ~Orphan(Written(db, Pending(p)), i)
    BY <1>1, <2>4, <2>8, OrphanFacts
  <2>11. db'[i] = db[i]
    BY <1>1, <2>9, <2>10, CommittedRow
  <2>12. QED
    BY <2>8, <2>11 DEF Children
<1>11. ASSUME NEW title \in Titles
       PROVE  \E q \in Children(db', "question", t) :
                 /\ db'[q].key = title /\ db'[q].value = "catalogue"
                 /\ \A k \in KeysOf(title) : \E i \in Children(db', "case", q) : db'[i].key = k
                 /\ \A i \in Children(db', "case", q) :
                       db'[i].key \in KeysOf(title) /\ db'[i].value = "catalogue"
  <2>1. PICK n \in 1..Len(Catalogue) : title = Catalogue[n]
    BY CatalogueFacts
  <2>2. n \in 1..(s.nth - 1)
    BY <1>5, CatalogueFacts, SMT
  <2>3. PICK q \in s.synced : HasQuestion(p, q, title)
    BY <1>3, <2>1, <2>2 DEF PlaceFits
  <2>4. q \in Ids
    BY <1>1, SyncedIds
  <2>5. PICK x \in RowsAt(p, q) : x.table = "question" /\ x.parent = t /\ x.key = title
    BY <1>7, <2>3 DEF HasQuestion
  <2>6. db'[q] # Null /\ db'[q].table = "question" /\ db'[q].parent = t /\ db'[q].key = title
    BY <1>1, <2>4, <2>5, CommittedReferences DEF SameRow
  <2>7. db'[q].value = "catalogue"
    BY <1>6, <2>4, <2>6 DEF Solo
  <2>8. ASSUME NEW k \in KeysOf(title)
        PROVE  \E i \in Children(db', "case", q) : db'[i].key = k
    BY <1>1, <1>2, <2>3, <2>8, SyncedHasCases DEF Children
  <2>9. ASSUME NEW i \in Children(db', "case", q)
        PROVE  db'[i].key \in KeysOf(title) /\ db'[i].value = "catalogue"
    <3>1. i \in Ids /\ db'[i] # Null /\ db'[i].table = "case" /\ db'[i].parent = q
      BY <2>9 DEF Children
    <3>2. ASSUME NEW w \in Pending(p), w.id = i
          PROVE  db'[i].key \in KeysOf(title) /\ db'[i].value = "catalogue"
      <4>1. db'[i] = w.row /\ w.op # "delete"
        BY <1>1, <3>1, <3>2, CommittedRow, PendingFacts
      <4>2. PICK u \in Titles : HasQuestion(p, q, u) /\ w.row.key \in KeysOf(u)
        BY <1>1, <3>1, <4>1, ContentTypes
      <4>3. u = title
        BY <1>1, <2>3, <4>2, OneTitle
      <4>4. QED
        BY <1>1, <4>1, <4>2, <4>3, ContentTypes
    <3>3. CASE \A w \in Pending(p) : w.id # i
      <4>1. db'[i] = db[i]
        BY <1>1, <3>1, <3>3, CommittedRow
      <4>2. db[i].key \in KeysOf(db[q].key) /\ i \in Good(p, q, db[i].key)
        BY <3>1, <3>3, <4>1 DEF Solo, NoOthers
      <4>3. db[i].value = "catalogue"
        BY <3>3, <4>2 DEF Good
      <4>4. db[q] # Null
        BY <1>1, <3>1, <4>1, RowFacts
      <4>5. db[q].key = title
        BY <1>1, <2>3, <4>4, SyncedIds, OneTitle
      <4>6. QED
        BY <4>1, <4>2, <4>3, <4>5
    <3>4. QED
      BY <3>2, <3>3
  <2>10. q \in Children(db', "question", t)
    BY <2>4, <2>6 DEF Children
  <2>11. QED
    BY <2>6, <2>7, <2>8, <2>9, <2>10
<1>12. PICK rows : rows = db'
  OBVIOUS
<1>13. /\ rows[t] # Null /\ rows[t].table = "test" /\ rows[t].value = "catalogue"
       /\ rows[rows[t].parent] = AdminRow
       /\ \A r \in Children(rows, "question", t) :
             rows[r].key \in Retired => Children(rows, "submission", r) # {}
       /\ \A title \in Titles : \E q \in Children(rows, "question", t) :
             /\ rows[q].key = title /\ rows[q].value = "catalogue"
             /\ \A k \in KeysOf(title) : \E i \in Children(rows, "case", q) : rows[i].key = k
             /\ \A i \in Children(rows, "case", q) :
                   rows[i].key \in KeysOf(title) /\ rows[i].value = "catalogue"
  BY <1>8, <1>9, <1>10, <1>11, <1>12
<1>14. QED
  BY <1>12, <1>13 DEF AsSeeded

-----------------------------------------------------------------------------
(* The student and the judge *)

\* Only submissions come, and only they change.
SubmissionsOnly ==
    /\ \A i \in Ids : db[i] # Null =>
          /\ db'[i] # Null /\ SameRow(db[i], db'[i])
          /\ db[i].table # "submission" => db'[i] = db[i]
    /\ \A i \in Ids : db[i] = Null /\ db'[i] # Null => db'[i].table = "submission"

LEMMA SameChildren ==
    ASSUME SubmissionsOnly, NEW table, NEW i
    PROVE  /\ table # "submission" => Children(db', table, i) = Children(db, table, i)
           /\ table # "submission" => \A x \in Children(db, table, i) : db'[x] = db[x]
           /\ Children(db, table, i) \subseteq Children(db', table, i)
<1>1. ASSUME NEW x \in Children(db, table, i)
      PROVE  x \in Children(db', table, i) /\ (table # "submission" => db'[x] = db[x])
  BY <1>1 DEF SubmissionsOnly, Children, SameRow
<1>2. ASSUME table # "submission", NEW x \in Children(db', table, i)
      PROVE  x \in Children(db, table, i)
  BY <1>2 DEF SubmissionsOnly, Children, SameRow
<1>3. QED
  BY <1>1, <1>2

LEMMA SeededStays ==
    ASSUME TypeOK, AsSeeded, SubmissionsOnly
    PROVE  AsSeeded'
<1>1. PICK t \in Ids :
         /\ db[t] # Null /\ db[t].table = "test" /\ db[t].value = "catalogue"
         /\ db[t].parent \in Ids /\ db[db[t].parent] = AdminRow /\ AdminRow # Null
         /\ \A r \in Children(db, "question", t) :
               db[r].key \in Retired => Children(db, "submission", r) # {}
         /\ \A title \in Titles : \E q \in Children(db, "question", t) :
               /\ db[q].key = title /\ db[q].value = "catalogue"
               /\ \A k \in KeysOf(title) : \E i \in Children(db, "case", q) : db[i].key = k
               /\ \A i \in Children(db, "case", q) :
                     db[i].key \in KeysOf(title) /\ db[i].value = "catalogue"
  BY SeededRows
<1>2. PICK rows : rows = db'
  OBVIOUS
<1>3. rows[t] = db[t] /\ rows[db[t].parent] = AdminRow
  <2>1. AdminRow.table = "user"
    BY DEF AdminRow
  <2>2. QED
    BY <1>1, <1>2, <2>1 DEF SubmissionsOnly
<1>4. /\ Children(rows, "question", t) = Children(db, "question", t)
      /\ \A r \in Children(db, "question", t) : rows[r] = db[r]
      /\ \A r : Children(db, "submission", r) \subseteq Children(rows, "submission", r)
      /\ \A q : Children(rows, "case", q) = Children(db, "case", q)
      /\ \A q : \A i \in Children(db, "case", q) : rows[i] = db[i]
  BY <1>2, SameChildren
<1>5. \A r \in Children(rows, "question", t) :
             rows[r].key \in Retired => Children(rows, "submission", r) # {}
  BY <1>1, <1>4
<1>6. ASSUME NEW title \in Titles
      PROVE  \E q \in Children(rows, "question", t) :
             /\ rows[q].key = title /\ rows[q].value = "catalogue"
             /\ \A k \in KeysOf(title) : \E i \in Children(rows, "case", q) : rows[i].key = k
             /\ \A i \in Children(rows, "case", q) :
                   rows[i].key \in KeysOf(title) /\ rows[i].value = "catalogue"
  BY <1>1, <1>4
<1>7. /\ rows[t] # Null /\ rows[t].table = "test" /\ rows[t].value = "catalogue"
      /\ rows[rows[t].parent] = AdminRow
  BY <1>1, <1>3
<1>8. QED
  BY <1>2, <1>5, <1>6, <1>7 DEF AsSeeded

LEMMA TwinsStay ==
    ASSUME HasTwins(db), SubmissionsOnly
    PROVE  HasTwins(db')
<1>1. PICK i \in Ids, j \in Ids : Twins(db, i, j)
  BY DEF HasTwins
<1>2. db'[i] = db[i] /\ db'[j] = db[j]
  BY <1>1 DEF Twins, SubmissionsOnly
<1>3. Twins(db', i, j)
  BY <1>1, <1>2 DEF Twins
<1>4. QED
  BY <1>3 DEF HasTwins

LEMMA SoloUndisturbed ==
    ASSUME Base, SessionsInv', SubmissionsOnly, NEW CONSTANT p \in Seeders, Running(p),
           seed'[p] = seed[p], Solo(p)
    PROVE  Solo(p)'
<1> DEFINE s == seed[p]
<1>1. Pending(p)' = Pending(p) /\ Running(p)' /\ PlaceFits(p) /\ TypeOK
  BY PendingFacts DEF Pending, Running, SessionFits, Base
<1>2. ASSUME NEW CONSTANT i \in Ids, NEW r \in RowsAt(p, i),
             r.table \in {"user", "test"} \/ (r.table = "question" /\ r.key \in Titles)
      PROVE  After(p)'[i] = After(p)[i]
  <2>1. CASE \E w \in Pending(p) : w.id = i
    BY <1>1, <2>1, AfterRow, NextAfterRow
  <2>2. CASE \A w \in Pending(p) : w.id # i
    <3>1. db[i] = r /\ r # Null
      BY <2>2, InRowsAt
    <3>2. db'[i] = db[i]
      BY <1>2, <3>1 DEF SubmissionsOnly
    <3>3. After(p)[i] = db[i]
      BY <2>2, AfterRow
    <3>4. After(p)'[i] = db'[i]
      BY <1>1, <2>2, NextAfterRow
    <3>5. QED
      BY <3>2, <3>3, <3>4
  <2>3. QED
    BY <2>1, <2>2
<1>3. \A w \in Pending(p)' : w.op = "update" => db'[w.id] # Null
  BY <1>1, PendingFacts DEF Solo, SubmissionsOnly
<1>4. s.pc # "admin" => After(p)'[s.admin] = AdminRow
  <2> SUFFICES ASSUME s.pc # "admin" PROVE After(p)'[s.admin] = AdminRow
    OBVIOUS
  <2>1. PICK i \in Ids : i = s.admin /\ \E r \in RowsAt(p, i) : r.table = "user"
    BY <1>1 DEF PlaceFits, HasAdmin
  <2>2. After(p)'[i] = After(p)[i]
    BY <1>2, <2>1
  <2>3. QED
    BY <2>1, <2>2 DEF Solo
<1>5. ~BeforeTest(p) => After(p)'[s.test].parent = s.admin /\ After(p)'[s.test].value = "catalogue"
  <2> SUFFICES ASSUME ~BeforeTest(p)
               PROVE  After(p)'[s.test].parent = s.admin /\ After(p)'[s.test].value = "catalogue"
    OBVIOUS
  <2>1. PICK i \in Ids : i = s.test /\ \E r \in RowsAt(p, i) : r.table = "test"
    BY <1>1 DEF PlaceFits, HasTest
  <2>2. After(p)'[i] = After(p)[i]
    BY <1>2, <2>1
  <2>3. QED
    BY <2>1, <2>2 DEF Solo
<1>6. AtCases(p) => After(p)'[s.question].value = "catalogue"
  <2> SUFFICES ASSUME AtCases(p) PROVE After(p)'[s.question].value = "catalogue"
    OBVIOUS
  <2>1. s.question \in Ids /\ HasQuestion(p, s.question, Title(p)) /\ Title(p) \in Titles
    <3>1. s.question \in Ids /\ HasQuestion(p, s.question, Title(p)) /\ ~(s.nth > Len(Catalogue))
      BY <1>1 DEF PlaceFits, AtCases
    <3>2. s.nth \in 1..(Len(Catalogue) + 1)
      BY PendingFacts, SessionTypes
    <3>3. s.nth \in 1..Len(Catalogue)
      BY <3>1, <3>2, CatalogueFacts, SMT
    <3>4. QED
      BY <3>1, <3>3, CatalogueFacts DEF Title
  <2>2. PICK i \in Ids : i = s.question /\ \E r \in RowsAt(p, i) : r.table = "question" /\ r.key = Title(p)
    BY <2>1 DEF HasQuestion
  <2>3. After(p)'[i] = After(p)[i]
    BY <1>2, <2>1, <2>2
  <2>4. QED
    BY <2>2, <2>3 DEF Solo
<1>7. ASSUME NEW CONSTANT q \in s.synced PROVE After(p)'[q].value = "catalogue"
  <2>1. PICK u \in Titles : q \in Ids /\ HasQuestion(p, q, u)
    BY SyncedIds
  <2>2. PICK r \in RowsAt(p, q) : r.table = "question" /\ r.key = u
    BY <2>1 DEF HasQuestion
  <2>3. After(p)'[q] = After(p)[q]
    BY <1>2, <2>1, <2>2
  <2>4. QED
    BY <2>3 DEF Solo
<1>8. /\ Children(db', "question", s.test) = Children(db, "question", s.test)
      /\ \A r \in Children(db, "question", s.test) : db'[r] = db[r]
      /\ \A r : Children(db, "submission", r) \subseteq Children(db', "submission", r)
  BY SameChildren
<1>9. ASSUME NEW y \in Ids, db'[y] # Null, db'[y].table = "case", db'[y].parent \in s.synced
      PROVE  \/ \E w \in Pending(p) : w.op = "delete" /\ w.id = y
             \/ /\ db'[y].key \in KeysOf(db'[db'[y].parent].key)
                /\ db'[y].value = "catalogue" \/ \E w \in Pending(p) : w.op = "update" /\ w.id = y
  <2>1. db[y] # Null /\ db'[y] = db[y]
    BY <1>9 DEF SubmissionsOnly, SameRow
  <2>2. PICK q \in Ids : q = db[y].parent /\ db[q] # Null /\ db[q].table = "question"
    BY <1>1, <1>9, <2>1, RowFacts DEF ParentTable
  <2>3. db'[q] = db[q]
    BY <2>2 DEF SubmissionsOnly
  <2>4. \/ \E w \in Pending(p) : w.op = "delete" /\ w.id = y
        \/ db[y].key \in KeysOf(db[q].key) /\ y \in Good(p, q, db[y].key)
    BY <1>9, <2>1, <2>2 DEF Solo, NoOthers
  <2>5. y \in Good(p, q, db[y].key) =>
            db[y].value = "catalogue" \/ \E w \in Pending(p) : w.op = "update" /\ w.id = y
    BY DEF Good
  <2>6. QED
    BY <2>1, <2>2, <2>3, <2>4, <2>5
<1>10. NoOthers(p)'
  BY <1>1, <1>9 DEF NoOthers, Good
<1>11. /\ BeforeTest(p)' <=> BeforeTest(p)
       /\ BeforeCheck(p)' <=> BeforeCheck(p)
       /\ AtCases(p)' <=> AtCases(p)
  BY DEF BeforeTest, BeforeCheck, AtCases
<1>12. ASSUME ~BeforeCheck(p), NEW r \in Children(db', "question", s.test), db'[r].key \in Retired
       PROVE  Delete(r) \in Pending(p) \/ r \in s.check \/ Children(db', "submission", r) # {}
  BY <1>8, <1>12 DEF Solo
<1>13. s.check \subseteq Children(db', "question", s.test)
  BY <1>8 DEF Solo
<1>14. QED
  BY <1>1, <1>3, <1>4, <1>5, <1>6, <1>7, <1>10, <1>11, <1>12, <1>13 DEF Solo

-----------------------------------------------------------------------------
(* Every step *)

\* While p runs, no other session has run alone.
LEMMA NotAlone ==
    ASSUME RepeatInv, NEW p \in Seeders, Running(p), NEW q \in Seeders, q # p, Running(q)
    PROVE  ~seed[q].alone /\ ~seed[q].calm
BY DEF RepeatInv, AloneFits, CalmFits

LEMMA SeededAsBefore ==
    ASSUME RepeatInv, db' = db, steady' = steady
    PROVE  steady' => AsSeeded'
<1>1. AsSeeded => AsSeeded'
  BY DEF AsSeeded, Children
<1>2. QED
  BY <1>1 DEF RepeatInv

LEMMA OwnRepeat ==
    ASSUME IndInv, IndInv', RepeatInv, NEW CONSTANT p \in Seeders, OwnAction(p)
    PROVE  RepeatInv'
<1>1. /\ Running(p) /\ db' = db /\ steady' = steady
      /\ seed'[p].alone = seed[p].alone /\ seed'[p].calm = seed[p].calm
      /\ \A q \in Seeders \ {p} : seed'[q] = seed[q]
  BY OwnActionSteps DEF Steps, outside, history
<1>2. \A q \in Seeders \ {p} : (Running(q)' <=> Running(q)) /\ (Running(q)' => ~seed'[q].alone /\ ~seed'[q].calm)
  BY <1>1, NotAlone DEF Running
<1>3. steady' => AsSeeded'
  BY <1>1, SeededAsBefore
<1>4. seed'[p].alone => AloneFits(p)'
  <2> SUFFICES ASSUME seed[p].alone PROVE AloneFits(p)'
    BY <1>1
  <2>1. Solo(p) /\ \A q \in Seeders \ {p} : ~Running(q)
    BY <1>1 DEF RepeatInv, AloneFits
  <2>2. QED
    BY <1>2, <2>1, SoloStays DEF AloneFits
<1>5. seed'[p].calm => CalmFits(p)'
  <2> SUFFICES ASSUME seed[p].calm PROVE CalmFits(p)'
    BY <1>1
  <2>1. seed[p].alone /\ steady /\ (HasTwins(db) \/ Pending(p) = {})
    BY <1>1 DEF RepeatInv, CalmFits
  <2>2. AsSeeded /\ Solo(p)
    BY <1>1, <2>1 DEF RepeatInv, AloneFits
  <2>3. HasTwins(db) \/ Pending(p)' = {}
    BY <2>1, <2>2, CalmStays
  <2>4. QED
    BY <1>1, <2>1, <2>3 DEF CalmFits
<1>6. QED
  BY <1>2, <1>3, <1>4, <1>5 DEF RepeatInv

LEMMA BeginRepeat ==
    ASSUME IndInv, RepeatInv, NEW CONSTANT p \in Seeders, Begin(p)
    PROVE  RepeatInv'
<1>1. /\ seed'[p].pc = "admin" /\ seed'[p].check = {} /\ seed'[p].synced = {}
      /\ seed'[p].unsent = {} /\ seed'[p].sent = {} /\ db' = db /\ steady' = steady
  BY BeginStep DEF IndInv
<1>2. /\ seed'[p].alone <=> \A q \in Seeders : ~Running(q)
      /\ seed'[p].calm <=> seed'[p].alone /\ steady
      /\ \A q \in Seeders \ {p} : seed'[q] = Disturbed(q)
  BY DEF Begin, IndInv, TypeOK
<1>3. ASSUME NEW CONSTANT q \in Seeders \ {p}
      PROVE  (Running(q)' <=> Running(q)) /\ (Running(q)' => ~seed'[q].alone /\ ~seed'[q].calm)
  <2>1. Keeps(q)
    BY BeginStep DEF IndInv
  <2>2. Running(q) => seed[q] \in Session
    BY RunningSession DEF IndInv
  <2>3. QED
    BY <1>2, <2>1, <2>2 DEF Keeps, Disturbed, Session
<1>4. steady' => AsSeeded'
  BY <1>1, SeededAsBefore
<1>5. Pending(p)' = {}
  BY <1>1 DEF Pending
<1>6. Solo(p)'
  <2>1. BeforeTest(p)' /\ BeforeCheck(p)' /\ ~AtCases(p)'
    BY <1>1 DEF BeforeTest, BeforeCheck, AtCases
  <2>2. NoOthers(p)'
    BY <1>1 DEF NoOthers
  <2>3. QED
    BY <1>1, <1>5, <2>1, <2>2 DEF Solo
<1>7. seed'[p].alone => AloneFits(p)'
  BY <1>2, <1>3, <1>6 DEF AloneFits
<1>8. seed'[p].calm => CalmFits(p)'
  BY <1>1, <1>2, <1>5 DEF CalmFits
<1>9. QED
  BY <1>3, <1>4, <1>7, <1>8 DEF RepeatInv

LEMMA EndRepeat ==
    ASSUME IndInv, RepeatInv, NEW CONSTANT p \in Seeders, Running(p), EndSeed(p),
           steady' => AsSeeded'
    PROVE  RepeatInv'
<1>1. ~Running(p)' /\ \A q \in Seeders \ {p} : seed'[q] = seed[q]
  BY EndStep DEF IndInv
<1>2. \A q \in Seeders : Running(q)' => ~seed'[q].alone /\ ~seed'[q].calm
  BY <1>1, NotAlone DEF Running
<1>3. QED
  BY <1>2 DEF RepeatInv

LEMMA CommitRepeat ==
    ASSUME IndInv, RepeatInv, NEW CONSTANT p \in Seeders, Commit(p)
    PROVE  RepeatInv'
<1>1. Running(p) /\ EndSeed(p) /\ steady' = seed[p].alone
  BY RunningSession DEF IndInv, Commit, SeedPCs
<1>2. seed[p].alone => AsSeeded'
  BY <1>1, CommitSeeds DEF RepeatInv, AloneFits
<1>3. QED
  BY <1>1, <1>2, EndRepeat

LEMMA UndisturbedRepeat ==
    ASSUME IndInv, SessionsInv', RepeatInv, SubmissionsOnly, seed' = seed, steady' = steady
    PROVE  RepeatInv'
<1>1. Base /\ TypeOK
  BY DEF IndInv, Base
<1>2. steady' => AsSeeded'
  BY <1>1, SeededStays DEF RepeatInv
<1>3. ASSUME NEW CONSTANT p \in Seeders, Running(p)'
      PROVE  (seed'[p].alone => AloneFits(p)') /\ (seed'[p].calm => CalmFits(p)')
  <2>1. Running(p) /\ \A q \in Seeders : Running(q)' <=> Running(q)
    BY <1>3 DEF Running
  <2>2. seed[p].alone => AloneFits(p)'
    BY <1>1, <2>1, SoloUndisturbed DEF RepeatInv, AloneFits
  <2>3. ASSUME seed[p].calm PROVE CalmFits(p)'
    <3>1. seed[p].alone /\ steady /\ (HasTwins(db) \/ Pending(p) = {})
      BY <2>1, <2>3 DEF RepeatInv, CalmFits
    <3>2. HasTwins(db') \/ Pending(p)' = {}
      BY <3>1, TwinsStay DEF Pending
    <3>3. QED
      BY <3>1, <3>2 DEF CalmFits
  <2>4. QED
    BY <2>2, <2>3
<1>4. QED
  BY <1>2, <1>3 DEF RepeatInv

LEMMA DisturbedRepeat ==
    ASSUME TypeOK, seed' = [p \in Seeders |-> Disturbed(p)], steady' = FALSE
    PROVE  RepeatInv'
<1>1. ASSUME NEW CONSTANT p \in Seeders, Running(p)' PROVE ~seed'[p].alone /\ ~seed'[p].calm
  <2>1. seed'[p] = Disturbed(p) /\ Keeps(p)
    BY DisturbAll
  <2>2. Running(p) /\ seed[p] \in Session
    BY <1>1, <2>1, RunningSession DEF Keeps
  <2>3. QED
    BY <2>1, <2>2 DEF Disturbed, Session
<1>2. QED
  BY <1>1 DEF RepeatInv

LEMMA SameRowsOnly ==
    ASSUME db' = db
    PROVE  SubmissionsOnly
BY DEF SubmissionsOnly, SameRow

LEMMA OthersRepeat ==
    ASSUME IndInv, IndInv', RepeatInv,
           \/ \E i \in Ids : Submit(i) \/ StartJudging(i) \/ CheckOwner(i)
           \/ InsertSubmission \/ LoadCases \/ StoreVerdict \/ CreateTest \/ Add
           \/ UNCHANGED vars
    PROVE  RepeatInv'
<1>1. Base /\ TypeOK /\ SessionsInv' /\ OthersInv
  BY DEF IndInv, Base
<1>2. ASSUME NEW i \in Ids, Submit(i) \/ CheckOwner(i) PROVE RepeatInv'
  <2>1. db' = db /\ seed' = seed /\ steady' = steady
    BY <1>2 DEF Submit, CheckOwner, history
  <2>2. QED
    BY <1>1, <2>1, SameRowsOnly, UndisturbedRepeat
<1>3. CASE LoadCases \/ UNCHANGED vars
  <2>1. db' = db /\ seed' = seed /\ steady' = steady
    BY <1>3 DEF LoadCases, vars, history
  <2>2. QED
    BY <1>1, <2>1, SameRowsOnly, UndisturbedRepeat
<1>4. ASSUME NEW i \in Ids, NEW v \in {"pending", "running", "judged", "vacuous"},
             db[i] # Null, db[i].table = "submission", db' = [db EXCEPT ![i].value = v],
             given' = given, adds' = adds, seed' = seed, steady' = steady
      PROVE  RepeatInv'
  <2>1. \A q \in Seeders : Keeps(q)
    BY <1>1, <1>4, AllKeep
  <2>2. db'[i] # Null /\ SameRow(db[i], db'[i]) /\ \A j \in Ids : j # i => db'[j] = db[j]
    BY <1>1, <1>4, <2>1, ValueStep
  <2>3. SubmissionsOnly
    BY <1>4, <2>2 DEF SubmissionsOnly, SameRow
  <2>4. QED
    BY <1>1, <1>4, <2>3, UndisturbedRepeat
<1>5. ASSUME NEW i \in Ids, StartJudging(i) PROVE RepeatInv'
  BY <1>4, <1>5 DEF StartJudging, counts, history
<1>6. CASE StoreVerdict
  <2>1. worker # Idle
    BY <1>6 DEF StoreVerdict, Idle
  <2>2. PICK i \in Ids, v \in {"pending", "running", "judged", "vacuous"} :
            i = worker.job /\ v = worker.verdict
    BY <1>1, <1>6, <2>1, WorkerFacts DEF StoreVerdict
  <2>3. CASE db[i] = Null
    <3>1. db' = db /\ seed' = seed /\ steady' = steady
      BY <1>6, <2>2, <2>3 DEF StoreVerdict, history
    <3>2. QED
      BY <1>1, <3>1, SameRowsOnly, UndisturbedRepeat
  <2>4. CASE db[i] # Null
    <3>1. db[i].table = "submission"
      BY <1>1, <2>1, <2>2, <2>4 DEF OthersInv, WorkerFits
    <3>2. QED
      BY <1>4, <1>6, <2>2, <2>4, <3>1 DEF StoreVerdict, counts, history
  <2>5. QED
    BY <2>3, <2>4
<1>7. CASE InsertSubmission
  <2>1. seed' = seed /\ steady' = steady /\ adds' = adds
    BY <1>7 DEF InsertSubmission, counts, history
  <2>2. student # Idle /\ student \in [pc: {"insert"}, question: Ids]
    BY <1>1, <1>7 DEF InsertSubmission, Idle, TypeOK
  <2>3. PICK row \in Row : row = [table |-> "submission", parent |-> student.question,
                                  key |-> Null, value |-> "pending"]
    <3>1. [table |-> "submission", parent |-> student.question, key |-> Null, value |-> "pending"] \in Row
      BY <2>2, SMT DEF Row
    <3>2. QED
      BY <3>1
  <2>4. db[row.parent] # Null => db[row.parent].table = ParentTable(row.table)
    BY <1>1, <2>2, <2>3 DEF OthersInv, StudentFits, ParentTable
  <2>5. \A q \in Seeders : Keeps(q)
    BY <1>1, <2>1, AllKeep
  <2>6. \A i \in Ids : db'[i] # db[i] => db'[i] = row /\ db[i] = Null
    BY <1>1, <1>7, <2>1, <2>3, <2>4, <2>5, InsertRowStep DEF InsertSubmission
  <2>7. SubmissionsOnly
    BY <2>3, <2>6 DEF SubmissionsOnly, SameRow
  <2>8. QED
    BY <1>1, <2>1, <2>7, UndisturbedRepeat
<1>8. CASE CreateTest \/ Add
  BY <1>1, <1>8, DisturbedRepeat DEF CreateTest, Add
<1>9. QED
  BY <1>2, <1>3, <1>5, <1>6, <1>7, <1>8

LEMMA StepsKeepRepeat ==
    ASSUME IndInv, RepeatInv, [Next]_vars
    PROVE  RepeatInv'
<1>1. IndInv'
  BY StepsKeepInvariant
<1>2. ASSUME NEW CONSTANT p \in Seeders, Begin(p) PROVE RepeatInv'
  BY <1>2, BeginRepeat
<1>3. ASSUME NEW CONSTANT p \in Seeders, Commit(p) PROVE RepeatInv'
  BY <1>3, CommitRepeat
<1>4. ASSUME NEW CONSTANT p \in Seeders, Reject(p) \/ Fail(p) PROVE RepeatInv'
  <2>1. EndSeed(p) /\ db' = db /\ steady' = steady
    BY <1>4 DEF Reject, Fail, outside, history
  <2>2. Running(p)
    BY <1>4, RunningSession DEF IndInv, Reject, Fail, SeedPCs
  <2>3. steady' => AsSeeded'
    BY <2>1, SeededAsBefore
  <2>4. QED
    BY <2>1, <2>2, <2>3, EndRepeat
<1>5. ASSUME NEW CONSTANT p \in Seeders, OwnAction(p) PROVE RepeatInv'
  BY <1>1, <1>5, OwnRepeat
<1>6. ASSUME \/ \E i \in Ids : Submit(i) \/ StartJudging(i) \/ CheckOwner(i)
             \/ InsertSubmission \/ LoadCases \/ StoreVerdict \/ CreateTest \/ Add
             \/ UNCHANGED vars
      PROVE  RepeatInv'
  BY <1>1, <1>6, OthersRepeat
<1>7. QED
  BY <1>2, <1>3, <1>4, <1>5, <1>6 DEF Next, SeedStep, OwnAction

\* "Seeding is idempotent" (deploy/README.md:40): after a seed that had no other
\* beside it, and while no administrator adds anything, the next one writes
\* nothing at all, whoever else was at work, unless titles are doubled.
THEOREM ReseedWritesNothing == Spec => []ReseedIsANoop
<1>1. Init => RepeatInv
  <2> SUFFICES ASSUME Init PROVE RepeatInv
    OBVIOUS
  <2>1. ~steady /\ \A p \in Seeders : ~Running(p)
    BY DEF Init, Running, Idle
  <2>2. QED
    BY <2>1 DEF RepeatInv
<1>2. IndInv /\ RepeatInv /\ [Next]_vars => RepeatInv'
  BY StepsKeepRepeat
<1>3. RepeatInv => ReseedIsANoop
  BY DEF RepeatInv, CalmFits, ReseedIsANoop, Pending
<1>4. QED
  BY <1>1, <1>2, <1>3, SeedingInvariantHolds, PTL DEF Spec

=============================================================================
