-------------------------- MODULE SeedingInvariant --------------------------
(***************************************************************************)
(* The inductive invariant of Seeding, in layers: what a session refers to *)
(* and writes, how the sessions keep apart, what their writes leave of the *)
(* cases of a question, and what the others rely on.                       *)
(***************************************************************************)
EXTENDS Seeding

Pending(p) == seed[p].unsent \cup seed[p].sent

\* What row i is for p: committed, or inserted by p.
RowsAt(p, i) == {r \in {db[i]} : r # Null}
                  \cup {w.row : w \in {x \in Pending(p) : x.op = "insert" /\ x.id = i}}

HasAdmin(p) == \E r \in RowsAt(p, seed[p].admin) : r.table = "user" /\ r.key = "admin"
HasTest(p)  == \E r \in RowsAt(p, seed[p].test) : r.table = "test"
HasQuestion(p, q, title) == \E r \in RowsAt(p, q) :
    r.table = "question" /\ r.parent = seed[p].test /\ r.key = title

\* The id was given out and will not be that of a row to come.
Inserts(p, i) == \E w \in Pending(p) : w.op = "insert" /\ w.id = i
Old(i) == i \in 1..given /\ \A p \in Seeders : Running(p) => ~Inserts(p, i)

BeforeTest(p) == seed[p].pc \in {"admin", "test"} \/ (seed[p].pc = "flush" /\ seed[p].next = "test")
BeforeCheck(p) == BeforeTest(p) \/ seed[p].pc = "retired" \/ (seed[p].pc = "flush" /\ seed[p].next = "retired")
AtCases(p)    == seed[p].pc = "cases" \/ (seed[p].pc = "flush" /\ seed[p].next = "cases")

-----------------------------------------------------------------------------
(* Sessions *)

\* What a session has found or made by the time it is there.
PlaceFits(p) ==
    LET s == seed[p] IN
    /\ s.pc = "admin" => s.unsent = {} /\ s.sent = {}
    /\ s.pc = "flush" => s.next \in {"test", "retired", "cases"}
    /\ IF s.pc = "admin" THEN s.admin = Null ELSE s.admin \in Ids /\ HasAdmin(p)
    /\ IF BeforeTest(p) THEN s.test = Null ELSE s.test \in Ids /\ HasTest(p)
    /\ s.nth > Len(Catalogue) <=> s.pc = "commit"
    /\ s.nth > 1 => s.pc \in {"question", "cases", "flush", "commit"}
    /\ s.nth > 1 /\ s.pc = "flush" => s.next = "cases"
    /\ AtCases(p) => s.question \in Ids /\ HasQuestion(p, s.question, Title(p))
    /\ \A q \in s.synced : \E n \in 1..(s.nth - 1) : HasQuestion(p, q, Catalogue[n])
    /\ \A n \in 1..(s.nth - 1) : \E q \in s.synced : HasQuestion(p, q, Catalogue[n])
    /\ s.check # {} => s.pc = "check"
    /\ BeforeCheck(p) => s.known = {} /\ \A w \in Pending(p) : w.op # "delete"
    /\ \A r \in s.check : /\ Old(r) /\ \A w \in Pending(p) : w.id # r
                          /\ db[r] # Null => db[r].table = "question" /\ db[r].key \in Retired

\* What a session inserts or changes is its administrator, its contest, a
\* question of that, or a catalogue case of a question it has come to.
ContentFits(p, row) ==
    LET s == seed[p] IN
    /\ row.value = "catalogue"
    /\ \/ row.table = "user" /\ row.key = "admin"
       \/ row.table = "test" /\ row.parent = s.admin
       \/ row.table = "question" /\ row.parent = s.test /\ row.key \in Titles
       \/ /\ row.table = "case" /\ row.parent \in s.synced
          /\ \E title \in Titles : HasQuestion(p, row.parent, title) /\ row.key \in KeysOf(title)

PlacedAt(p, w) ==
    LET s == seed[p] IN
    CASE w.row.table = "user" -> w.id = s.admin
      [] w.row.table = "test" -> w.id = s.test
      [] w.row.table = "question" -> w.id \in s.synced \/ (AtCases(p) /\ w.id = s.question)
      [] OTHER -> TRUE

\* Only a case may have been deleted under an update.
SameRow(old, new) ==
    /\ old.table = new.table /\ old.key = new.key
    /\ old.table # "test" => old.parent = new.parent

WriteFits(p, w) ==
    LET s == seed[p]
        row == db[w.id] IN
    /\ w.id <= given
    /\ w.op = "insert" => row = Null /\ ContentFits(p, w.row) /\ PlacedAt(p, w)
    /\ w.op = "update" => /\ row # Null => SameRow(row, w.row)
                          /\ w.row.table # "case" => row # Null
                          /\ ContentFits(p, w.row) /\ PlacedAt(p, w)
    /\ w.op = "delete" /\ row # Null =>
          \/ row.table = "question" /\ row.key \in Retired
          \/ row.table = "case" /\ row.parent \in s.synced
    /\ w.op = "update" /\ w \in s.sent => row # Null

WritesFit(p) ==
    /\ \A w \in Pending(p) : WriteFits(p, w)
    /\ \A w, x \in Pending(p) : w.id = x.id => w = x

\* A submission the seed has seen is in no question it deletes or still checks.
KnownFits(p) == \A i \in seed[p].known :
    /\ Old(i)
    /\ db[i] # Null => /\ db[i].table = "submission" /\ db[i].parent \notin seed[p].check
                       /\ \A w \in Pending(p) : w.op = "delete" => w.id # db[i].parent

\* Nobody writes a row another session inserts, nor what another has locked.
Apart(p, q) ==
    /\ \A w \in Pending(p), x \in Pending(q) : w.op = "insert" => w.id # x.id
    /\ \A w \in seed[p].sent, x \in seed[q].sent : db[w.id] # Null => w.id # x.id

-----------------------------------------------------------------------------
(* Cases *)

\* The committed cases of question q with key k that hold the catalogue's
\* output, or will when p commits.
Good(p, q, k) == {y \in Ids :
    /\ db[y] # Null /\ db[y].table = "case" /\ db[y].parent = q /\ db[y].key = k
    /\ db[y].value = "catalogue" \/ \E w \in Pending(p) : w.op = "update" /\ w.id = y}

\* An update of a row that is gone: the seed cannot commit any more.
Doomed(p) == \E w \in seed[p].unsent : w.op = "update" /\ db[w.id] = Null

\* A case of the catalogue is deleted only for one that comes before it.
DeletesCovered(p) == \A w \in Pending(p) :
    w.op = "delete" /\ db[w.id] # Null /\ db[w.id].table = "case" =>
        LET q == db[w.id].parent
            k == db[w.id].key IN
        k \in KeysOf(db[q].key) => \E y \in Good(p, q, k) : y < w.id

\* A question the seed has dealt with has all its cases, or will have them.
KeysCovered(p) == \A q \in seed[p].synced, title \in Titles : HasQuestion(p, q, title) =>
    \A k \in KeysOf(title) :
        \/ Good(p, q, k) # {}
        \/ \E w \in Pending(p) : /\ w.op = "insert" /\ w.row.table = "case"
                                 /\ w.row.parent = q /\ w.row.key = k

\* ... and no others.
NoOthers(p) == \A y \in Ids :
    db[y] # Null /\ db[y].table = "case" /\ db[y].parent \in seed[p].synced =>
        \/ \E w \in Pending(p) : w.op = "delete" /\ w.id = y
        \/ /\ db[y].key \in KeysOf(db[db[y].parent].key)
           /\ y \in Good(p, db[y].parent, db[y].key)

CasesFit(p) == Doomed(p) \/ /\ DeletesCovered(p) /\ KeysCovered(p)
                            /\ adds = 0 => NoOthers(p)

SessionFits(p) == PlaceFits(p) /\ WritesFit(p) /\ KnownFits(p) /\ CasesFit(p)

SessionsInv ==
    /\ \A p \in Seeders : Running(p) => SessionFits(p)
    /\ \A p, q \in Seeders : p # q /\ Running(p) /\ Running(q) => Apart(p, q)

-----------------------------------------------------------------------------
(* The database and everybody else *)

DatabaseInv ==
    /\ \A i \in Ids : db[i] # Null => i <= given
    /\ db[OtherAdmin] # Null /\ db[OtherAdmin].table = "user" /\ db[OtherAdmin].key = "other"
    /\ \A i \in Ids : db[i] # Null /\ db[i].table = "submission" => HasCases(db[i].parent)

StudentFits == student # Idle =>
    /\ Old(student.question)
    /\ db[student.question] # Null =>
          db[student.question].table = "question" /\ HasCases(student.question)

WorkerFits == worker # Idle =>
    /\ Old(worker.job)
    /\ worker.pc = "store" /\ worker.verdict = "vacuous" => db[worker.job] = Null
    /\ db[worker.job] # Null => /\ db[worker.job].table = "submission"
                                /\ db[worker.job].parent = worker.question

AdminFits == admin # Idle =>
    /\ adds > 0
    /\ admin.row.table \in {"question", "case"} /\ admin.row.value = "other"
    /\ Old(admin.row.parent)
    /\ db[admin.row.parent] # Null =>
          db[admin.row.parent].table = ParentTable(admin.row.table)

OthersInv == StudentFits /\ WorkerFits /\ AdminFits

-----------------------------------------------------------------------------
(* Waiting *)

\* Where in the seed a row is dealt with: the administrator, the contest, the
\* retired questions, and then one question of the catalogue after the other,
\* each with its cases.
QuestionLevel(key) ==
    IF key \in Retired THEN 2 ELSE 2 + (CHOOSE n \in 1..Len(Catalogue) : Catalogue[n] = key)
Level(i) ==
    CASE db[i].table = "user" -> 0
      [] db[i].table = "test" -> 1
      [] db[i].table = "question" -> QuestionLevel(db[i].key)
      [] OTHER -> QuestionLevel(db[db[i].parent].key)

\* The writes that take locks, or wait for one.
Locks(w) == IF w.op = "insert" THEN w.row.table = "user" ELSE db[w.id] # Null
Rank(w)  == IF w.op = "insert" THEN 0 ELSE Level(w.id)

\* How far a session has come.
Ahead(p) ==
    IF seed[p].pc = "admin" THEN 0
    ELSE IF BeforeTest(p) THEN 1
    ELSE IF BeforeCheck(p) \/ seed[p].pc = "check" THEN 2
    ELSE 2 + seed[p].nth

\* Whatever a session has locked comes before all it has still to lock.
InOrder(p) ==
    LET s == seed[p] IN
    /\ \A w \in s.sent, x \in s.unsent : Locks(w) /\ Locks(x) => Rank(w) < Rank(x)
    /\ \A w \in s.sent : Locks(w) => Rank(w) < Ahead(p)
    /\ \A w \in s.unsent : Locks(w) =>
          Rank(w) < Ahead(p) \/ (Rank(w) = Ahead(p) /\ s.pc \in {"check", "cases"})

LocksInOrder == \A p \in Seeders : Running(p) => InOrder(p)

-----------------------------------------------------------------------------
(* Twins *)

AdminRow == [table |-> "user", parent |-> Null, key |-> "admin", value |-> "catalogue"]
AdminExists == \E i \in Ids : db[i] # Null /\ db[i].table = "user" /\ db[i].key = "admin"

\* The rows as p's writes make them, cascades aside.
After(p) == Written(db, Pending(p))

\* A session that has written nothing, nor will before it has inserted the
\* administrator ...
Newcomer(p) ==
    /\ seed[p].sent = {}
    /\ \/ seed[p].pc = "admin"
       \/ /\ seed[p].pc = "flush" /\ seed[p].next = "test"
          /\ \E i \in Ids : seed[p].unsent = {Insert(i, AdminRow)}

\* ... one that found all it looked for ...
Harmless(p) ==
    /\ seed[p].sent = {} /\ seed[p].pc # "flush"
    /\ \A w \in seed[p].unsent : w.op # "insert"

\* ... and one that may insert, as nobody else does.
OthersNew(p) == \A q \in Seeders \ {p} : Running(q) => Newcomer(q)
First(p) ==
    /\ ~HasTwins(After(p))
    /\ \A w \in seed[p].unsent : w.op = "insert" => w.row.table # "user"
    /\ OthersNew(p)

Fares(p) == Newcomer(p) \/ IF fresh /\ seeded THEN Harmless(p) ELSE First(p)

\* No administrator has added to the catalogue, and no two seeds have
\* overlapped but on a new database.
Unspoiled == adds = 0 /\ (overlap => fresh)

AdminSeeded == /\ fresh /\ ~seeded => ~AdminExists
               /\ seeded => AdminExists
OverlapSeen == \A p, q \in Seeders : p # q /\ Running(p) /\ Running(q) => overlap
RolesInv == Unspoiled => ~HasTwins(db) /\ \A p \in Seeders : Running(p) => Fares(p)

TwinsInv == AdminSeeded /\ OverlapSeen /\ RolesInv

-----------------------------------------------------------------------------
(* Seeding again *)

\* What a session that ran alone has come to is as the catalogue says.
Solo(p) ==
    LET s == seed[p] IN
    /\ \A w \in Pending(p) : w.op = "update" => db[w.id] # Null
    /\ s.pc # "admin" => After(p)[s.admin] = AdminRow
    /\ ~BeforeTest(p) => After(p)[s.test].parent = s.admin /\ After(p)[s.test].value = "catalogue"
    /\ s.check \subseteq Children(db, "question", s.test)
    /\ ~BeforeCheck(p) => \A r \in Children(db, "question", s.test) : db[r].key \in Retired =>
          Delete(r) \in Pending(p) \/ r \in s.check \/ Children(db, "submission", r) # {}
    /\ AtCases(p) => After(p)[s.question].value = "catalogue"
    /\ \A q \in s.synced : After(p)[q].value = "catalogue"
    /\ NoOthers(p)

\* There is nothing a seed would change.
AsSeeded == \E t \in Ids :
    /\ db[t] # Null /\ db[t].table = "test" /\ db[t].value = "catalogue"
    /\ db[db[t].parent] = AdminRow
    /\ \A r \in Children(db, "question", t) :
          db[r].key \in Retired => Children(db, "submission", r) # {}
    /\ \A title \in Titles : \E q \in Children(db, "question", t) :
          /\ db[q].key = title /\ db[q].value = "catalogue"
          /\ \A k \in KeysOf(title) : \E i \in Children(db, "case", q) : db[i].key = k
          /\ \A i \in Children(db, "case", q) :
                db[i].key \in KeysOf(title) /\ db[i].value = "catalogue"

\* The session has no other beside it; it began on such a database.
AloneFits(p) == Solo(p) /\ \A q \in Seeders \ {p} : ~Running(q)
CalmFits(p)  == seed[p].alone /\ steady /\ (HasTwins(db) \/ Pending(p) = {})

RepeatInv ==
    /\ steady => AsSeeded
    /\ \A p \in Seeders : Running(p) => /\ seed[p].alone => AloneFits(p)
                                        /\ seed[p].calm => CalmFits(p)

-----------------------------------------------------------------------------

IndInv == /\ TypeOK /\ SessionsInv /\ DatabaseInv /\ OthersInv
          /\ CatalogueComplete /\ QuestionsComeWithCases /\ JudgedOnCases

=============================================================================
