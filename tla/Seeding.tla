------------------------------ MODULE Seeding ------------------------------
(***************************************************************************)
(* seed_demo_data against everything that runs beside it: other seeds (API *)
(* processes that start with AUTO_SEED_DEMO_DATA, or python -m             *)
(* backend.seed during an update, which runs while the old API and worker  *)
(* still serve), another administrator, a student and the judge worker.    *)
(*                                                                         *)
(* One action is one await.  A seed is one transaction of a session with   *)
(* autoflush off: it SELECTs committed rows and its own flushed ones; what *)
(* it changes is kept in the session (unsent), goes to PostgreSQL with the *)
(* next flush (sent), where it locks the rows it writes, and becomes       *)
(* visible to others with the one COMMIT at the end.  The tables share one *)
(* id space here, and one contest stands for the ten of the catalogue.     *)
(***************************************************************************)
EXTENDS Naturals, Sequences, FiniteSets

CONSTANTS
    Seeders,        \* processes that run the seed
    Catalogue,      \* titles of the questions of the contest, in order
    Retired,        \* RETIRED_SEED_QUESTIONS of the contest
    CaseKeys,       \* CaseKeys[title]: (input_data, is_hidden) of its cases, in order
    OldKeys,        \* keys of cases that are no longer in the catalogue
    Starts,         \* databases a seed may find
    OtherAdmin,     \* users row of an administrator who is not the seed's
    MaxId, MaxSeeds, MaxAdds, MaxSubs, MaxFaults,   \* bounds
    Null

Ids == 1..MaxId
Titles == {Catalogue[n] : n \in 1..Len(Catalogue)}
KeysOf(title) == {CaseKeys[title][m] : m \in 1..Len(CaseKeys[title])}
Keys == OldKeys \cup UNION {KeysOf(t) : t \in Titles}

\* As CATALOG is, and validate_catalog asks: every question has cases.
ASSUME CatalogueAssumption ==
    /\ Catalogue \in Seq(Titles) /\ Catalogue # <<>>
    /\ \A m, n \in 1..Len(Catalogue) : Catalogue[m] = Catalogue[n] => m = n
    /\ Titles \cap Retired = {}
    /\ \A t \in Titles : CaseKeys[t] \in Seq(KeysOf(t)) /\ CaseKeys[t] # <<>>
    /\ \A t \in Titles : \A m, n \in 1..Len(CaseKeys[t]) :
          CaseKeys[t][m] = CaseKeys[t][n] => m = n

\* Rows: parent is the foreign key that cascades (created_by, test_id,
\* question_id), key what the seed looks a row up by, value the rest: what the
\* catalogue says or something else, and how far a submission has got.
Contents == {"catalogue", "other"}
Row ==
    [table: {"user"}, parent: {Null}, key: {"admin", "other"}, value: Contents]
      \cup [table: {"test"}, parent: Ids, key: {"contest"}, value: Contents]
      \cup [table: {"question"}, parent: Ids, key: Titles \cup Retired, value: Contents]
      \cup [table: {"case"}, parent: Ids, key: Keys, value: Contents]
      \cup [table: {"submission"}, parent: Ids, key: {Null},
            value: {"pending", "running", "judged", "vacuous"}]

ASSUME BoundsAssumption == /\ {MaxId, MaxSeeds, MaxAdds, MaxSubs, MaxFaults} \subseteq Nat
                           /\ OtherAdmin \in Ids /\ Null \notin Ids /\ Null \notin Row

\* The table a row's foreign key points into, and whether all of them do.
ParentTable(table) ==
    CASE table = "test" -> "user" [] table = "question" -> "test" [] OTHER -> "question"
Fits(rows, i) ==
    rows[i] = Null \/ rows[i].table = "user"
      \/ /\ rows[rows[i].parent] # Null
         /\ rows[rows[i].parent].table = ParentTable(rows[i].table)

\* Databases as earlier seeds and requests leave them.
ASSUME StartsAssumption == \A rows \in Starts :
    /\ rows \in [Ids -> Row \cup {Null}]
    /\ \A i \in Ids : Fits(rows, i)
    /\ rows[OtherAdmin] # Null
    /\ rows[OtherAdmin].table = "user" /\ rows[OtherAdmin].key = "other"
ASSUME CasesAssumption == \A rows \in Starts, i \in Ids : rows[i] # Null =>
    /\ rows[i].value # "vacuous"
    /\ rows[i].table = "question" =>
          \E c \in Ids : rows[c] # Null /\ rows[c].table = "case" /\ rows[c].parent = i

VARIABLES
    db,          \* committed rows, by id
    given,       \* ids up to here are given out: sequences do not roll back
    seed,        \* the session and the place of each seed
    student,     \* the submission request in progress
    admin,       \* the other administrator's request in progress
    worker,      \* the judge
    runs, adds, posts, faults,       \* seeds, additions, submissions, failures so far
    \* history, for the properties only:
    fresh,       \* the database began without the seed's administrator
    seeded,      \* a seed has committed
    steady,      \* the catalogue is as a seed left it that ran undisturbed
    overlap      \* two seeds have run at once

people == <<student, admin, worker>>
counts == <<runs, adds, posts, faults>>
history == <<fresh, seeded, steady, overlap>>
vars == <<db, given, seed, people, counts, history>>

Idle == [pc |-> "idle"]

-----------------------------------------------------------------------------
(* Writes: sets of INSERTs, UPDATEs and DELETEs *)

Insert(i, row) == [op |-> "insert", id |-> i, row |-> row]
Update(i, row) == [op |-> "update", id |-> i, row |-> row]
Delete(i)      == [op |-> "delete", id |-> i, row |-> Null]
Write == [op: {"insert", "update"}, id: Ids, row: Row] \cup [op: {"delete"}, id: Ids, row: {Null}]

Deleted(ws) == {w.id : w \in {x \in ws : x.op = "delete"}}
Orphan(rows, i) == rows[i] # Null /\ rows[i].parent \in Ids /\ rows[rows[i].parent] = Null

\* The rows after the writes, each of another row; ON DELETE CASCADE included.
Written(rows, ws) == [i \in Ids |->
    IF \E w \in ws : w.id = i THEN (CHOOSE w \in ws : w.id = i).row ELSE rows[i]]
Apply(rows, ws) == [i \in Ids |->
    IF Orphan(Written(rows, ws), i) THEN Null ELSE Written(rows, ws)[i]]

Running(p) == seed[p].pc # "idle"

\* The rows a seed's flushed DELETEs take away, and all it has locked: what it has
\* flushed an UPDATE or a DELETE of, and what a DELETE cascades to.  A DELETE of a
\* row that is gone locks nothing.
Removing(p) == {i \in Deleted(seed[p].sent) : db[i] # Null}
Locked(p) == {i \in Ids : /\ db[i] # Null
                          /\ \/ \E w \in seed[p].sent : w.op # "insert" /\ w.id = i
                             \/ db[i].parent \in Removing(p)}

\* PostgreSQL makes a write wait for an open transaction of another seed: that
\* has written the row, is deleting the parent of a new row, or has inserted
\* the username of a new user.
Blocks(p, w) ==
    IF w.op # "insert" THEN w.id \in Locked(p)
    ELSE \/ w.row.parent \in Removing(p)
         \/ /\ w.row.table = "user"
            /\ \E x \in seed[p].sent : x.op = "insert" /\ x.row.table = "user"

-----------------------------------------------------------------------------
(* The seed *)

\* What a seed's SELECTs see.
View(p) == IF seed[p].sent = {} THEN db ELSE Apply(db, seed[p].sent)
Select(p, table, parent, key) ==
    {i \in Ids : LET r == View(p)[i] IN
        r # Null /\ r.table = table /\ r.key = key /\ (parent = Null \/ r.parent = parent)}
Children(rows, table, parent) ==
    {i \in Ids : rows[i] # Null /\ rows[i].table = table /\ rows[i].parent = parent}

Goto(p, s, pc) == seed' = [seed EXCEPT ![p] = [s EXCEPT !.pc = pc]]

\* An update of a loaded row is sent only if it changes something.
Setting(i, old, new) == IF new = old THEN {} ELSE {Update(i, new)}

outside == <<db, people, counts, history>>

\* For the properties: somebody else seeds or adds to the catalogue meanwhile.
Disturbed(p) ==
    IF Running(p) THEN [seed[p] EXCEPT !.alone = FALSE, !.calm = FALSE] ELSE seed[p]

Begin(p) ==
    /\ ~Running(p) /\ runs < MaxSeeds
    /\ LET alone == \A q \in Seeders : ~Running(q) IN
       /\ seed' = [q \in Seeders |->
             IF q = p
             THEN [pc |-> "admin", next |-> "test", admin |-> Null, test |-> Null,
                   question |-> Null, nth |-> 1, check |-> {},
                   unsent |-> {}, sent |-> {}, synced |-> {}, known |-> {},
                   alone |-> alone, calm |-> alone /\ steady]
             ELSE Disturbed(q)]
       /\ overlap' = (overlap \/ ~alone)
    /\ runs' = runs + 1
    /\ UNCHANGED <<db, given, people, adds, posts, faults, fresh, seeded, steady>>

\* The row is looked up; if there is none it is added and flushed, for its id;
\* if there is, it is brought up to date.  Of several the SELECT answers any.
LookUp(p, found, row, field, next) ==
    LET s == seed[p]
        new == given + 1 IN
    \/ /\ found = {} /\ new \in Ids
       /\ Goto(p, [s EXCEPT !.unsent = @ \cup {Insert(new, row)}, ![field] = new, !.next = next],
               "flush")
       /\ given' = new
    \/ \E i \in found :
          /\ Goto(p, [s EXCEPT !.unsent = @ \cup Setting(i, View(p)[i], row), ![field] = i], next)
          /\ given' = given

\* Mutant: a new administrator is not flushed, so the contest has no created_by.
FindAdminUnflushed(p) ==
    /\ seed[p].pc = "admin"
    /\ Goto(p, seed[p], "test")
    /\ UNCHANGED <<given, outside>>

FindAdmin(p) ==
    /\ seed[p].pc = "admin"
    /\ LookUp(p, Select(p, "user", Null, "admin"),
              [table |-> "user", parent |-> Null, key |-> "admin", value |-> "catalogue"],
              "admin", "test")
    /\ UNCHANGED outside

\* Mutant: only a contest the seed's administrator owns is taken for it.
ContestsOwned(p) == Select(p, "test", seed[p].admin, "contest")

\* The contest is found by its title alone, and taken over whoever owns it.
Contests(p) == Select(p, "test", Null, "contest")

FindTest(p) ==
    /\ seed[p].pc = "test"
    /\ LookUp(p, Contests(p),
              [table |-> "test", parent |-> seed[p].admin, key |-> "contest", value |-> "catalogue"],
              "test", "retired")
    /\ UNCHANGED outside

\* The retired questions of the contest are listed ...
ListRetired(p) ==
    /\ seed[p].pc = "retired"
    /\ LET found == UNION {Select(p, "question", seed[p].test, t) : t \in Retired} IN
       Goto(p, [seed[p] EXCEPT !.check = found], IF found = {} THEN "question" ELSE "check")
    /\ UNCHANGED <<given, outside>>

\* Mutant: a retired question goes, with whatever was submitted for it.
UnusedQuestionAny(p, r) == TRUE

UnusedQuestion(p, r) == Children(View(p), "submission", r) = {}

\* ... and each without submissions is marked for deletion.  (db.delete also
\* loads its cases and submissions; the DELETE cascades to later ones as well.)
CheckRetired(p) ==
    /\ seed[p].pc = "check"
    /\ LET s == seed[p] IN \E r \in s.check :
          LET marked == IF UnusedQuestion(p, r) THEN {Delete(r)} ELSE {} IN
          Goto(p, [s EXCEPT !.check = @ \ {r}, !.unsent = @ \cup marked,
                            !.known = @ \cup Children(db, "submission", r)],
               IF s.check = {r} THEN "question" ELSE "check")
    /\ UNCHANGED <<given, outside>>

\* The title the loop over the catalogue is at.
Title(p) == Catalogue[seed[p].nth]

FindQuestion(p) ==
    /\ seed[p].pc = "question"
    /\ LookUp(p, Select(p, "question", seed[p].test, Title(p)),
              [table |-> "question", parent |-> seed[p].test, key |-> Title(p), value |-> "catalogue"],
              "question", "cases")
    /\ UNCHANGED outside

CaseRow(q, k) == [table |-> "case", parent |-> q, key |-> k, value |-> "catalogue"]

\* The catalogue's cases that are missing, with the ids set aside for all of them.
NewCases(q, keys, present) ==
    {Insert(given + m, CaseRow(q, keys[m])) : m \in {n \in 1..Len(keys) : keys[n] \notin present}}

\* The first of the rows with one key (rows are taken to be read in id order).
IsFirst(rows, existing, i) ==
    \A j \in existing : rows[j].key = rows[i].key => i <= j

\* What becomes of the cases of question q: of each catalogue key the first row
\* is kept and gets the catalogue's output, every other row goes, missing keys
\* are added.  Mutant: an existing case keeps its output.
CaseWritesKeepOutputs(rows, q, title) ==
    LET existing == Children(rows, "case", q)
        kept     == {i \in existing : rows[i].key \in KeysOf(title) /\ IsFirst(rows, existing, i)}
    IN  {Delete(i) : i \in existing \ kept}
          \cup NewCases(q, CaseKeys[title], {rows[i].key : i \in kept})

\* Mutant: all cases are replaced.
CaseWritesReplace(rows, q, title) ==
    {Delete(i) : i \in Children(rows, "case", q)} \cup NewCases(q, CaseKeys[title], {})

CaseWrites(rows, q, title) ==
    LET existing == Children(rows, "case", q)
        kept     == {i \in existing : rows[i].key \in KeysOf(title) /\ IsFirst(rows, existing, i)}
    IN  {Delete(i) : i \in existing \ kept}
          \cup (UNION {Setting(i, rows[i], CaseRow(q, rows[i].key)) : i \in kept})
          \cup NewCases(q, CaseKeys[title], {rows[i].key : i \in kept})

SyncCases(p) ==
    /\ seed[p].pc = "cases"
    /\ LET s == seed[p]
           last == given + Len(CaseKeys[Title(p)]) IN
       /\ last \in Ids
       /\ Goto(p, [s EXCEPT !.nth = @ + 1, !.synced = @ \cup {s.question},
                            !.unsent = @ \cup CaseWrites(View(p), s.question, Title(p))],
               IF s.nth = Len(Catalogue) THEN "commit" ELSE "question")
       /\ given' = last
    /\ UNCHANGED outside

\* The statements for the unsent writes need wait for nobody ...
Unblocked(p) ==
    \A q \in Seeders \ {p} : Running(q) => \A w \in seed[p].unsent : ~Blocks(q, w)

\* ... and none raises: an UPDATE of a row that is gone (StaleDataError), a new
\* row without its parent or with a username that exists (IntegrityError).
Raises(p, w) ==
    \/ w.op = "update" /\ View(p)[w.id] = Null
    \/ w.op = "insert" /\ w.row.parent \in Ids /\ View(p)[w.row.parent] = Null
    \/ w.op = "insert" /\ w.row.table = "user" /\ Select(p, "user", Null, w.row.key) # {}
Raising(p) == \E w \in seed[p].unsent : Raises(p, w)

EndSeed(p) == seed' = [seed EXCEPT ![p] = Idle]

\* Mutant: commit in place of flush.
FlushCommits(p) ==
    /\ seed[p].pc = "flush" /\ Unblocked(p) /\ ~Raising(p)
    /\ db' = Apply(db, seed[p].unsent)
    /\ Goto(p, [seed[p] EXCEPT !.unsent = {}], seed[p].next)
    /\ UNCHANGED <<given, people, counts, history>>

Flush(p) ==
    /\ seed[p].pc = "flush" /\ Unblocked(p) /\ ~Raising(p)
    /\ Goto(p, [seed[p] EXCEPT !.unsent = {}, !.sent = @ \cup seed[p].unsent], seed[p].next)
    /\ UNCHANGED <<given, outside>>

\* The one COMMIT, with the last flush.
Commit(p) ==
    /\ seed[p].pc = "commit" /\ Unblocked(p) /\ ~Raising(p)
    /\ db' = Apply(db, seed[p].unsent \cup seed[p].sent)
    /\ EndSeed(p)
    /\ seeded' = TRUE
    /\ steady' = seed[p].alone
    /\ UNCHANGED <<given, people, counts, fresh, overlap>>

\* A statement raises: the session is closed, which rolls the seed back.
Reject(p) ==
    /\ seed[p].pc \in {"flush", "commit"} /\ Unblocked(p) /\ Raising(p)
    /\ EndSeed(p)
    /\ UNCHANGED <<given, outside>>

\* Mutant: the transaction of a failed seed stays open.
FailOpen(p) ==
    /\ Running(p) /\ faults < MaxFaults
    /\ faults' = faults + 1
    /\ Goto(p, seed[p], "failed")
    /\ UNCHANGED <<db, given, people, runs, adds, posts, history>>

\* The process is killed, or the connection lost: PostgreSQL rolls back.
Fail(p) ==
    /\ Running(p) /\ faults < MaxFaults
    /\ faults' = faults + 1
    /\ EndSeed(p)
    /\ UNCHANGED <<db, given, people, runs, adds, posts, history>>

-----------------------------------------------------------------------------
(* Everybody else *)

\* A statement of a request that writes a row of its own, or row i, waits.
Waits(i, row) ==
    \E p \in Seeders : Running(p) /\ (i \in Locked(p) \/ row.parent \in Removing(p))

\* INSERT and COMMIT; without the parent the request fails.
InsertRow(row) ==
    /\ ~Waits(Null, row)
    /\ IF db[row.parent] = Null THEN UNCHANGED <<db, given>>
       ELSE /\ given + 1 \in Ids
            /\ db' = [db EXCEPT ![given + 1] = row]
            /\ given' = given + 1

\* A run is judged, and counted, by its public cases alone.  The seed treats the cases
\* of each key (input, is_hidden) by themselves, so that a run sees this module with
\* the public keys for CaseKeys; validate_catalog asks for two of them.

\* Mutant: the cases of the question are not counted.
HasCasesUnasked(q) == TRUE

HasCases(q) == Children(db, "case", q) # {}

\* create_execution: the question is found, its cases are counted ...
Submit(q) ==
    /\ student = Idle /\ posts < MaxSubs
    /\ db[q] # Null /\ db[q].table = "question" /\ HasCases(q)
    /\ student' = [pc |-> "insert", question |-> q]
    /\ posts' = posts + 1
    /\ UNCHANGED <<db, given, seed, admin, worker, runs, adds, faults, history>>

\* ... and the submission is committed.
InsertSubmission ==
    /\ student.pc = "insert"
    /\ InsertRow([table |-> "submission", parent |-> student.question,
                  key |-> Null, value |-> "pending"])
    /\ student' = Idle
    /\ UNCHANGED <<seed, admin, worker, counts, history>>

\* judge: a submission is loaded and set to RUNNING ...
StartJudging(i) ==
    /\ worker = Idle
    /\ db[i] # Null /\ db[i].table = "submission" /\ db[i].value = "pending"
    /\ ~Waits(i, db[i])
    /\ db' = [db EXCEPT ![i].value = "running"]
    /\ worker' = [pc |-> "cases", job |-> i, question |-> db[i].parent, verdict |-> Null]
    /\ UNCHANGED <<given, seed, student, admin, counts, history>>

\* ... the cases of its question are loaded; the runner accepts what it has no
\* case against ...
LoadCases ==
    /\ worker.pc = "cases"
    /\ worker' = [worker EXCEPT !.pc = "store",
          !.verdict = IF Children(db, "case", worker.question) = {} THEN "vacuous" ELSE "judged"]
    /\ UNCHANGED <<db, given, seed, student, admin, counts, history>>

\* ... and the verdict is stored, if the row is still there: else the worker
\* dies of a StaleDataError and is started again.
StoreVerdict ==
    /\ worker.pc = "store"
    /\ LET i == worker.job IN
       IF db[i] = Null THEN db' = db
       ELSE /\ ~Waits(i, db[i])
            /\ db' = [db EXCEPT ![i].value = worker.verdict]
    /\ worker' = Idle
    /\ UNCHANGED <<given, seed, student, admin, counts, history>>

\* create_test by the other administrator: titles are not unique.
CreateTest ==
    /\ admin = Idle /\ adds < MaxAdds
    /\ InsertRow([table |-> "test", parent |-> OtherAdmin, key |-> "contest", value |-> "other"])
    /\ adds' = adds + 1
    /\ steady' = FALSE
    /\ seed' = [p \in Seeders |-> Disturbed(p)]
    /\ UNCHANGED <<people, runs, posts, faults, fresh, seeded, overlap>>

\* What may be added to row i, if the contest it belongs to is one's own.
Additions(i) ==
    CASE db[i].table = "test" /\ db[i].parent = OtherAdmin ->
           [table : {"question"}, parent : {i}, key : Titles, value : {"other"}]
      [] db[i].table = "question" /\ db[db[i].parent].parent = OtherAdmin ->
           [table : {"case"}, parent : {i}, key : Keys, value : {"other"}]
      [] OTHER -> {}

\* add_question and create_test_case: the contest is loaded and its owner
\* compared ...
CheckOwner(i) ==
    /\ admin = Idle /\ adds < MaxAdds
    /\ db[i] # Null
    /\ \E row \in Additions(i) : admin' = [pc |-> "add", row |-> row]
    /\ adds' = adds + 1
    /\ UNCHANGED <<db, given, seed, student, worker, runs, posts, faults, history>>

\* ... and the row is added, whoever owns the contest by now.
Add ==
    /\ admin.pc = "add"
    /\ InsertRow(admin.row)
    /\ admin' = Idle
    /\ steady' = FALSE
    /\ seed' = [p \in Seeders |-> Disturbed(p)]
    /\ UNCHANGED <<student, worker, counts, fresh, seeded, overlap>>

-----------------------------------------------------------------------------

Init ==
    /\ db \in Starts
    /\ given \in 0..MaxId /\ (given > 0 => db[given] # Null)
    /\ \A i \in Ids : db[i] # Null => i <= given
    /\ seed = [p \in Seeders |-> Idle]
    /\ student = Idle /\ admin = Idle /\ worker = Idle
    /\ runs = 0 /\ adds = 0 /\ posts = 0 /\ faults = 0
    /\ fresh = (\A i \in Ids : db[i] # Null => db[i].key # "admin")
    /\ seeded = FALSE /\ steady = FALSE /\ overlap = FALSE

SeedStep(p) ==
    \/ FindAdmin(p) \/ FindTest(p) \/ ListRetired(p) \/ CheckRetired(p)
    \/ FindQuestion(p) \/ SyncCases(p) \/ Flush(p) \/ Commit(p) \/ Reject(p)

Next ==
    \/ \E p \in Seeders : Begin(p) \/ SeedStep(p) \/ Fail(p)
    \/ \E i \in Ids : Submit(i) \/ StartJudging(i) \/ CheckOwner(i)
    \/ InsertSubmission \/ LoadCases \/ StoreVerdict
    \/ CreateTest \/ Add

Spec == Init /\ [][Next]_vars

-----------------------------------------------------------------------------
(* Properties *)

SeedPCs == {"admin", "test", "retired", "check", "question", "cases", "flush", "commit"}
Session == [pc: SeedPCs, next: SeedPCs, admin: Ids \cup {Null}, test: Ids \cup {Null},
            question: Ids \cup {Null}, nth: 1..(Len(Catalogue) + 1), check: SUBSET Ids,
            unsent: SUBSET Write, sent: SUBSET Write,
            synced: SUBSET Ids, known: SUBSET Ids,         \* history
            alone: BOOLEAN, calm: BOOLEAN]                 \* history

\* Every row and every pending write is one the schema allows: in particular
\* each has the parent its foreign key asks for.
TypeOK ==
    /\ db \in [Ids -> Row \cup {Null}]
    /\ \A i \in Ids : Fits(db, i)
    /\ given \in 0..MaxId
    /\ seed \in [Seeders -> Session \cup {Idle}]
    /\ student \in [pc: {"insert"}, question: Ids] \cup {Idle}
    /\ admin \in [pc: {"add"}, row: Row] \cup {Idle}
    /\ worker \in [pc: {"cases"}, job: Ids, question: Ids, verdict: {Null}]
                    \cup [pc: {"store"}, job: Ids, question: Ids, verdict: {"judged", "vacuous"}]
                    \cup {Idle}
    /\ {runs, adds, posts, faults} \subseteq Nat
    /\ {fresh, seeded, steady, overlap} \subseteq BOOLEAN

\* A question holds exactly the cases of the catalogue.
HasCatalogueCases(q, title) ==
    LET cases == Children(db, "case", q) IN
    /\ \A k \in KeysOf(title) :
          \E i \in cases : db[i].key = k /\ db[i].value = "catalogue"
    /\ adds = 0 => \A i \in cases : db[i].key \in KeysOf(title) /\ db[i].value = "catalogue"

\* From the first seed that commits on there is, at every moment, a contest with
\* every question of the catalogue and the cases and outputs it lists: no later
\* or overlapping seed, no crash and no other administrator takes that away.
CatalogueComplete ==
    seeded => \E t \in Ids :
        /\ db[t] # Null /\ db[t].table = "test"
        /\ \A title \in Titles : \E q \in Children(db, "question", t) :
              db[q].key = title /\ HasCatalogueCases(q, title)

\* Nobody ever sees a question of a seed without cases, also if the seed dies
\* in the middle: they appear in one transaction.
QuestionsComeWithCases ==
    adds = 0 => \A q \in Ids :
        db[q] # Null /\ db[q].table = "question" => Children(db, "case", q) # {}

\* A verdict is never passed on no cases at all, though the question may change
\* or go between the count, the load and the verdict (main.py:346, worker.py:65).
JudgedOnCases == \A i \in Ids : db[i] # Null => db[i].value # "vacuous"

\* A student's submission vanishes only with a retired question, by the commit
\* of a seed that did not see it when it looked for submissions (seed.py:90).
SeenSubmissionsSurvive ==
    [][\A i \in Ids : db[i] # Null /\ db[i].table = "submission" /\ db'[i] = Null =>
          /\ db[db[i].parent].key \in Retired
          /\ \E p \in Seeders : /\ seed[p].pc = "commit" /\ seed'[p] = Idle
                                /\ i \notin seed[p].known]_vars

Twins(rows, i, j) ==
    /\ i # j /\ rows[i] # Null /\ rows[j] # Null
    /\ rows[i].table = rows[j].table /\ rows[i].table \in {"user", "test", "question", "case"}
    /\ rows[i].key = rows[j].key
    /\ rows[i].parent = rows[j].parent \/ rows[i].table = "test"
HasTwins(rows) == \E i, j \in Ids : Twins(rows, i, j)

\* No title and no case is doubled, though nothing in the schema forbids it,
\* unless two seeds overlapped (or an administrator doubled it).  And in a new
\* database not even then: the second seed waits for the administrator's row
\* of the first, and fails.
NothingIsDoubled == adds = 0 /\ (overlap => fresh) => ~HasTwins(db)

\* "Seeding is idempotent" (deploy/README.md:40, tests/test_auth_and_seed.py:358):
\* after a seed that ran alone, and nobody adding to the catalogue since, the
\* next one writes nothing, as long as titles are not doubled.
ReseedIsANoop ==
    \A p \in Seeders : Running(p) /\ seed[p].calm /\ ~HasTwins(db) =>
        seed[p].unsent = {} /\ seed[p].sent = {}

Waiting(p) == seed[p].pc \in {"flush", "commit"} /\ ~Unblocked(p)

CanGoOn(p) ==
    /\ seed[p].pc \in SeedPCs
    /\ seed[p].pc \in {"flush", "commit"} => Unblocked(p)

\* Row locks are not waited for in a circle, nor left behind by a seed that has
\* failed: whenever a seed waits, another one is running and can go on.
WaitingEnds ==
    \A p \in Seeders : Waiting(p) => \E q \in Seeders : Running(q) /\ CanGoOn(q)

=============================================================================
