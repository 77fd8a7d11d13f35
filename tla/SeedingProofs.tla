--------------------------- MODULE SeedingProofs ---------------------------
(***************************************************************************)
(* Seeding for any number of seeds, questions and cases: the invariant of  *)
(* SeedingInvariant is inductive.  A seed's own step adds writes of rows   *)
(* it has just found, or of new ones; every other session sees at most     *)
(* that the committed rows evolve, which takes from it nothing it needs    *)
(* but makes it fail.                                                      *)
(***************************************************************************)
EXTENDS SeedingInvariant, TLAPS, SequenceTheorems, WellFoundedInduction

-----------------------------------------------------------------------------
(* Ids, rows and writes *)

Less == {ss \in Nat \X Nat : ss[1] < ss[2]}

LEMMA LessIsWellFounded == IsWellFoundedOn(Less, Nat)
BY NatLessThanWellFounded DEF Less, OpToRel

LEMMA InLess == ASSUME NEW m \in Nat, NEW n \in Nat PROVE <<m, n>> \in Less <=> m < n
BY SMT DEF Less

LEMMA LeastOf ==
    ASSUME NEW S, S \subseteq Nat, S # {}
    PROVE  \E m \in S : \A n \in S : m <= n
<1>1. PICK m \in S : \A n \in S : <<n, m>> \notin Less
  BY LessIsWellFounded, WFMin
<1>2. \A n \in S : ~(n < m)
  BY <1>1, InLess
<1>3. QED
  BY <1>2, SMT

LEMMA IdFacts ==
    /\ MaxId \in Nat /\ Ids \subseteq Nat /\ Null \notin Ids /\ Null \notin Row
    /\ \A n \in Nat : n \in Ids <=> 1 <= n /\ n <= MaxId
BY BoundsAssumption, SMT DEF Ids

LEMMA CatalogueFacts ==
    /\ Len(Catalogue) \in Nat /\ Len(Catalogue) >= 1
    /\ \A n \in 1..Len(Catalogue) : Catalogue[n] \in Titles
    /\ \A t \in Titles : \E n \in 1..Len(Catalogue) : t = Catalogue[n]
    /\ \A t \in Titles : t \notin Retired /\ KeysOf(t) \subseteq Keys /\ KeysOf(t) # {}
<1>1. Len(Catalogue) \in Nat /\ Len(Catalogue) >= 1
  BY CatalogueAssumption, SMT
<1>2. ASSUME NEW t \in Titles PROVE KeysOf(t) # {} /\ KeysOf(t) \subseteq Keys
  <2>1. CaseKeys[t] \in Seq(KeysOf(t)) /\ CaseKeys[t] # <<>>
    BY CatalogueAssumption
  <2>2. 1 \in 1..Len(CaseKeys[t])
    BY <2>1, SMT
  <2>3. QED
    BY <2>2 DEF KeysOf, Keys
<1>3. QED
  BY <1>1, <1>2, CatalogueAssumption DEF Titles

LEMMA RowTypes ==
    ASSUME NEW r \in Row
    PROVE  /\ r # Null
           /\ r.table \in {"user", "test", "question", "case", "submission"}
           /\ r.table = "user" => r.parent = Null /\ r.key \in {"admin", "other"}
           /\ r.table # "user" => r.parent \in Ids
           /\ r.table = "test" => r.key = "contest"
           /\ r.table = "question" => r.key \in Titles \cup Retired
           /\ r.table = "case" => r.key \in Keys
           /\ r.table = "submission" => r.value \in {"pending", "running", "judged", "vacuous"}
           /\ r.table # "submission" => r.value \in Contents
BY IdFacts, SMT DEF Row

LEMMA RowsMade ==
    /\ [table |-> "user", parent |-> Null, key |-> "admin", value |-> "catalogue"] \in Row
    /\ \A i \in Ids :
          [table |-> "test", parent |-> i, key |-> "contest", value |-> "catalogue"] \in Row
    /\ \A i \in Ids, t \in Titles :
          [table |-> "question", parent |-> i, key |-> t, value |-> "catalogue"] \in Row
    /\ \A i \in Ids, k \in Keys : CaseRow(i, k) \in Row
BY SMT DEF Row, Contents, CaseRow

LEMMA WriteFields ==
    ASSUME NEW w \in Write
    PROVE  /\ w.id \in Ids /\ w.op \in {"insert", "update", "delete"}
           /\ w.op = "delete" => w.row = Null
           /\ w.op # "delete" => w.row \in Row
BY SMT DEF Write

LEMMA WritesMade ==
    ASSUME NEW i \in Ids
    PROVE  /\ Delete(i) \in Write /\ Delete(i).id = i /\ Delete(i).op = "delete"
           /\ \A r \in Row : /\ Insert(i, r) \in Write /\ Update(i, r) \in Write
                             /\ Insert(i, r).id = i /\ Update(i, r).id = i
                             /\ Insert(i, r).op = "insert" /\ Update(i, r).op = "update"
                             /\ Insert(i, r).row = r /\ Update(i, r).row = r
BY SMT DEF Write, Insert, Update, Delete

\* What the writes leave of one row, if none writes it twice.
LEMMA WrittenRow ==
    ASSUME NEW rows, NEW ws, NEW i \in Ids, \A w, x \in ws : w.id = x.id => w = x
    PROVE  /\ \A w \in ws : w.id = i => Written(rows, ws)[i] = w.row
           /\ (\A w \in ws : w.id # i) => Written(rows, ws)[i] = rows[i]
<1>1. ASSUME NEW w \in ws, w.id = i PROVE Written(rows, ws)[i] = w.row
  <2> DEFINE x == CHOOSE x \in ws : x.id = i
  <2>1. x \in ws /\ x.id = i
    BY <1>1
  <2>2. x = w
    BY <1>1, <2>1
  <2>3. Written(rows, ws)[i] = x.row
    BY <1>1 DEF Written
  <2> HIDE DEF x
  <2>4. QED
    BY <2>2, <2>3
<1>2. QED
  BY <1>1 DEF Written

LEMMA AppliedRow ==
    ASSUME NEW rows, NEW ws, NEW i \in Ids
    PROVE  Apply(rows, ws)[i] = IF Orphan(Written(rows, ws), i) THEN Null ELSE Written(rows, ws)[i]
BY DEF Apply

-----------------------------------------------------------------------------
(* One step of a session *)

LEMMA RunningSession ==
    ASSUME TypeOK, NEW p \in Seeders
    PROVE  /\ Running(p) => seed[p] \in Session
           /\ seed[p].pc \in SeedPCs => Running(p)
<1>1. Idle.pc = "idle" /\ "idle" \notin SeedPCs
  BY DEF Idle, SeedPCs
<1>2. QED
  BY <1>1 DEF TypeOK, Running

LEMMA SessionTypes ==
    ASSUME NEW s \in Session
    PROVE  /\ s.pc \in SeedPCs /\ s.next \in SeedPCs /\ s.nth \in 1..(Len(Catalogue) + 1)
           /\ s.admin \in Ids \cup {Null} /\ s.test \in Ids \cup {Null}
           /\ s.question \in Ids \cup {Null} /\ s.check \subseteq Ids
           /\ s.unsent \subseteq Write /\ s.sent \subseteq Write
           /\ s.synced \subseteq Ids /\ s.known \subseteq Ids
           /\ s.alone \in BOOLEAN /\ s.calm \in BOOLEAN
BY DEF Session

\* Nothing but the session of p changes, and maybe ids are given out.
Steps(p) ==
    /\ seed'[p] \in Session
    /\ \A q \in Seeders \ {p} : seed'[q] = seed[q]
    /\ UNCHANGED outside

\* What LookUp does to the session.
Adds(p, row, next) ==
    LET s == seed[p]
        t == seed'[p]
        new == given + 1 IN
    /\ new \in Ids /\ given' = new
    /\ t.unsent = s.unsent \cup {Insert(new, row)}
    /\ t.pc = "flush" /\ t.next = next
Takes(p, i, row, next) ==
    LET s == seed[p]
        t == seed'[p] IN
    /\ given' = given
    /\ t.unsent = s.unsent \cup Setting(i, View(p)[i], row)
    /\ t.pc = next /\ t.next = s.next

SameElse(p) ==
    LET s == seed[p]
        t == seed'[p] IN
    /\ t.sent = s.sent /\ t.synced = s.synced /\ t.known = s.known /\ t.check = s.check
    /\ t.nth = s.nth /\ t.alone = s.alone /\ t.calm = s.calm

LEMMA SettingFacts ==
    ASSUME NEW i \in Ids, NEW old, NEW row \in Row
    PROVE  /\ Setting(i, old, row) \subseteq {Update(i, row)} /\ Setting(i, old, row) \subseteq Write
           /\ old # row => Setting(i, old, row) = {Update(i, row)}
BY WritesMade DEF Setting

LEMMA OneField ==
    ASSUME NEW s \in Session
    PROVE  /\ \A x \in SeedPCs : [s EXCEPT !.pc = x] \in Session
           /\ \A x \in SeedPCs : [s EXCEPT !.next = x] \in Session
           /\ \A x \in Ids : [s EXCEPT !.admin = x] \in Session
           /\ \A x \in Ids : [s EXCEPT !.test = x] \in Session
           /\ \A x \in Ids : [s EXCEPT !.question = x] \in Session
           /\ \A x \in 1..(Len(Catalogue) + 1) : [s EXCEPT !.nth = x] \in Session
           /\ \A x \in SUBSET Ids : [s EXCEPT !.check = x] \in Session
           /\ \A x \in SUBSET Write : [s EXCEPT !.unsent = x] \in Session
           /\ \A x \in SUBSET Write : [s EXCEPT !.sent = x] \in Session
           /\ \A x \in SUBSET Ids : [s EXCEPT !.synced = x] \in Session
           /\ \A x \in SUBSET Ids : [s EXCEPT !.known = x] \in Session
<1>1. \A x \in SeedPCs : [s EXCEPT !.pc = x] \in Session
  BY SMT DEF Session
<1>2. \A x \in SeedPCs : [s EXCEPT !.next = x] \in Session
  BY SMT DEF Session
<1>3. \A x \in Ids : [s EXCEPT !.admin = x] \in Session
  BY SMT DEF Session
<1>4. \A x \in Ids : [s EXCEPT !.test = x] \in Session
  BY SMT DEF Session
<1>5. \A x \in Ids : [s EXCEPT !.question = x] \in Session
  BY SMT DEF Session
<1>6. \A x \in 1..(Len(Catalogue) + 1) : [s EXCEPT !.nth = x] \in Session
  BY SMT DEF Session
<1>7. \A x \in SUBSET Ids : [s EXCEPT !.check = x] \in Session
  BY SMT DEF Session
<1>8. \A x \in SUBSET Write : [s EXCEPT !.unsent = x] \in Session
  BY SMT DEF Session
<1>9. \A x \in SUBSET Write : [s EXCEPT !.sent = x] \in Session
  BY SMT DEF Session
<1>10. \A x \in SUBSET Ids : [s EXCEPT !.synced = x] \in Session
  BY SMT DEF Session
<1>11. \A x \in SUBSET Ids : [s EXCEPT !.known = x] \in Session
  BY SMT DEF Session
<1>12. QED
  BY <1>1, <1>2, <1>3, <1>4, <1>5, <1>6, <1>7, <1>8, <1>9, <1>10, <1>11

\* One field of three may be set besides the pending writes.
Looked(t, s, x, i, c, d, field) ==
    /\ t \in Session
    /\ t.unsent = x /\ t.pc = c /\ t.next = d
    /\ t.sent = s.sent /\ t.synced = s.synced /\ t.known = s.known /\ t.check = s.check
    /\ t.nth = s.nth /\ t.alone = s.alone /\ t.calm = s.calm
    /\ t.admin = IF field = "admin" THEN i ELSE s.admin
    /\ t.test = IF field = "test" THEN i ELSE s.test
    /\ t.question = IF field = "question" THEN i ELSE s.question

SetNew(s, x, field, i, d, c) == [[s EXCEPT !.unsent = x, ![field] = i, !.next = d] EXCEPT !.pc = c]
SetOld(s, x, field, i, c) == [[s EXCEPT !.unsent = x, ![field] = i] EXCEPT !.pc = c]

LEMMA LookedUp ==
    ASSUME NEW s \in Session, NEW x \in SUBSET Write, NEW i \in Ids, NEW c \in SeedPCs, NEW d \in SeedPCs,
           NEW field \in {"admin", "test", "question"}
    PROVE  /\ Looked(SetNew(s, x, field, i, d, c), s, x, i, c, d, field)
           /\ Looked(SetOld(s, x, field, i, c), s, x, i, c, s.next, field)
<1> SUFFICES ASSUME NEW t, NEW b,
                    \/ b = d /\ t = [[s EXCEPT !.unsent = x, ![field] = i, !.next = d] EXCEPT !.pc = c]
                    \/ b = s.next /\ t = [[s EXCEPT !.unsent = x, ![field] = i] EXCEPT !.pc = c]
             PROVE  Looked(t, s, x, i, c, b, field)
  BY Zenon DEF SetNew, SetOld
<1>1. CASE b = d /\ t = [[s EXCEPT !.unsent = x, ![field] = i, !.next = d] EXCEPT !.pc = c]
  <2>1. CASE field = "admin"
    <3>1. [s EXCEPT !.unsent = x] \in Session
      BY OneField
    <3>2. [[s EXCEPT !.unsent = x] EXCEPT !.admin = i] \in Session
      BY <3>1, OneField
    <3>3. [[[s EXCEPT !.unsent = x] EXCEPT !.admin = i] EXCEPT !.next = d] \in Session
      BY <3>2, OneField
    <3>4. [[[[s EXCEPT !.unsent = x] EXCEPT !.admin = i] EXCEPT !.next = d] EXCEPT !.pc = c] \in Session
      BY <3>3, OneField
    <3>5. t = [[[[s EXCEPT !.unsent = x] EXCEPT !.admin = i] EXCEPT !.next = d] EXCEPT !.pc = c]
      BY <1>1, <2>1
    <3>6. t \in Session
      BY <3>4, <3>5
    <3>7. QED
      BY <1>1, <2>1, <3>5, <3>6, SMT DEF Session, Looked
  <2>2. CASE field = "test"
    <3>1. [s EXCEPT !.unsent = x] \in Session
      BY OneField
    <3>2. [[s EXCEPT !.unsent = x] EXCEPT !.test = i] \in Session
      BY <3>1, OneField
    <3>3. [[[s EXCEPT !.unsent = x] EXCEPT !.test = i] EXCEPT !.next = d] \in Session
      BY <3>2, OneField
    <3>4. [[[[s EXCEPT !.unsent = x] EXCEPT !.test = i] EXCEPT !.next = d] EXCEPT !.pc = c] \in Session
      BY <3>3, OneField
    <3>5. t = [[[[s EXCEPT !.unsent = x] EXCEPT !.test = i] EXCEPT !.next = d] EXCEPT !.pc = c]
      BY <1>1, <2>2
    <3>6. t \in Session
      BY <3>4, <3>5
    <3>7. QED
      BY <1>1, <2>2, <3>5, <3>6, SMT DEF Session, Looked
  <2>3. CASE field = "question"
    <3>1. [s EXCEPT !.unsent = x] \in Session
      BY OneField
    <3>2. [[s EXCEPT !.unsent = x] EXCEPT !.question = i] \in Session
      BY <3>1, OneField
    <3>3. [[[s EXCEPT !.unsent = x] EXCEPT !.question = i] EXCEPT !.next = d] \in Session
      BY <3>2, OneField
    <3>4. [[[[s EXCEPT !.unsent = x] EXCEPT !.question = i] EXCEPT !.next = d] EXCEPT !.pc = c] \in Session
      BY <3>3, OneField
    <3>5. t = [[[[s EXCEPT !.unsent = x] EXCEPT !.question = i] EXCEPT !.next = d] EXCEPT !.pc = c]
      BY <1>1, <2>3
    <3>6. t \in Session
      BY <3>4, <3>5
    <3>7. QED
      BY <1>1, <2>3, <3>5, <3>6, SMT DEF Session, Looked
  <2>4. QED
    BY <2>1, <2>2, <2>3
<1>2. CASE b = s.next /\ t = [[s EXCEPT !.unsent = x, ![field] = i] EXCEPT !.pc = c]
  <2>1. CASE field = "admin"
    <3>1. [s EXCEPT !.unsent = x] \in Session
      BY OneField
    <3>2. [[s EXCEPT !.unsent = x] EXCEPT !.admin = i] \in Session
      BY <3>1, OneField
    <3>3. [[[s EXCEPT !.unsent = x] EXCEPT !.admin = i] EXCEPT !.pc = c] \in Session
      BY <3>2, OneField
    <3>4. t = [[[s EXCEPT !.unsent = x] EXCEPT !.admin = i] EXCEPT !.pc = c]
      BY <1>2, <2>1
    <3>5. t \in Session
      BY <3>3, <3>4
    <3>6. QED
      BY <1>2, <2>1, <3>4, <3>5, SMT DEF Session, Looked
  <2>2. CASE field = "test"
    <3>1. [s EXCEPT !.unsent = x] \in Session
      BY OneField
    <3>2. [[s EXCEPT !.unsent = x] EXCEPT !.test = i] \in Session
      BY <3>1, OneField
    <3>3. [[[s EXCEPT !.unsent = x] EXCEPT !.test = i] EXCEPT !.pc = c] \in Session
      BY <3>2, OneField
    <3>4. t = [[[s EXCEPT !.unsent = x] EXCEPT !.test = i] EXCEPT !.pc = c]
      BY <1>2, <2>2
    <3>5. t \in Session
      BY <3>3, <3>4
    <3>6. QED
      BY <1>2, <2>2, <3>4, <3>5, SMT DEF Session, Looked
  <2>3. CASE field = "question"
    <3>1. [s EXCEPT !.unsent = x] \in Session
      BY OneField
    <3>2. [[s EXCEPT !.unsent = x] EXCEPT !.question = i] \in Session
      BY <3>1, OneField
    <3>3. [[[s EXCEPT !.unsent = x] EXCEPT !.question = i] EXCEPT !.pc = c] \in Session
      BY <3>2, OneField
    <3>4. t = [[[s EXCEPT !.unsent = x] EXCEPT !.question = i] EXCEPT !.pc = c]
      BY <1>2, <2>3
    <3>5. t \in Session
      BY <3>3, <3>4
    <3>6. QED
      BY <1>2, <2>3, <3>4, <3>5, SMT DEF Session, Looked
  <2>4. QED
    BY <2>1, <2>2, <2>3
<1>3. QED
  BY <1>1, <1>2

LEMMA GotoFacts ==
    ASSUME TypeOK, NEW p \in Seeders, NEW s, NEW c, Goto(p, s, c)
    PROVE  /\ seed'[p] = [s EXCEPT !.pc = c]
           /\ \A q \in Seeders \ {p} : seed'[q] = seed[q]
<1>1. seed' = [seed EXCEPT ![p] = [s EXCEPT !.pc = c]]
  BY DEF Goto
<1>2. QED
  BY <1>1 DEF TypeOK

\* LookUp adds the row or takes one that it finds.
LEMMA LookUpStep ==
    ASSUME TypeOK, NEW p \in Seeders, Running(p), UNCHANGED outside,
           NEW found \in SUBSET Ids, NEW row \in Row, NEW next \in SeedPCs,
           NEW field \in {"admin", "test", "question"},
           LookUp(p, found, row, field, next)
    PROVE  /\ Steps(p) /\ SameElse(p)
           /\ \E i \in Ids :
                 /\ \/ found = {} /\ Adds(p, row, next) /\ i = given + 1
                    \/ i \in found /\ Takes(p, i, row, next)
                 /\ seed'[p].admin = IF field = "admin" THEN i ELSE seed[p].admin
                 /\ seed'[p].test = IF field = "test" THEN i ELSE seed[p].test
                 /\ seed'[p].question = IF field = "question" THEN i ELSE seed[p].question
<1> DEFINE s == seed[p]
           new == given + 1
           x1 == s.unsent \cup {Insert(new, row)}
           x2(i) == s.unsent \cup Setting(i, View(p)[i], row)
<1>1. s \in Session /\ s.unsent \subseteq Write /\ s.next \in SeedPCs /\ "flush" \in SeedPCs
  BY RunningSession, SessionTypes DEF SeedPCs
<1>2. CASE /\ found = {} /\ new \in Ids /\ given' = new
           /\ Goto(p, [s EXCEPT !.unsent = @ \cup {Insert(new, row)}, ![field] = new, !.next = next],
                   "flush")
  <2>1. x1 \in SUBSET Write
    BY <1>1, <1>2, WritesMade
  <2>2. seed'[p] = SetNew(s, x1, field, new, next, "flush")
    BY <1>2 DEF Goto, TypeOK, SetNew
  <2>3. \A q \in Seeders \ {p} : seed'[q] = seed[q]
    BY <1>2, GotoFacts
  <2> HIDE DEF x1, new
  <2>10. new \in Ids
    BY <1>2
  <2>4. Looked(seed'[p], s, x1, new, "flush", next, field)
    BY <1>1, <2>1, <2>2, <2>10, LookedUp
  <2>8. /\ seed'[p] \in Session
        /\ seed'[p].unsent = x1 /\ seed'[p].pc = "flush" /\ seed'[p].next = next
        /\ SameElse(p)
        /\ seed'[p].admin = IF field = "admin" THEN new ELSE s.admin
        /\ seed'[p].test = IF field = "test" THEN new ELSE s.test
        /\ seed'[p].question = IF field = "question" THEN new ELSE s.question
    BY <2>4 DEF SameElse, Looked
  <2>5. Steps(p)
    BY <2>3, <2>8 DEF Steps
  <2>6. Adds(p, row, next)
    BY <1>2, <2>8 DEF Adds, x1, new
  <2>7. QED
    BY <1>2, <2>8, <2>5, <2>6 DEF new
<1>3. ASSUME NEW i \in found, given' = given,
             Goto(p, [s EXCEPT !.unsent = @ \cup Setting(i, View(p)[i], row), ![field] = i], next)
      PROVE  /\ Steps(p) /\ SameElse(p)
             /\ Takes(p, i, row, next)
             /\ seed'[p].admin = IF field = "admin" THEN i ELSE seed[p].admin
             /\ seed'[p].test = IF field = "test" THEN i ELSE seed[p].test
             /\ seed'[p].question = IF field = "question" THEN i ELSE seed[p].question
  <2>1. i \in Ids /\ x2(i) \in SUBSET Write
    BY <1>1, SettingFacts
  <2>2. seed'[p] = SetOld(s, x2(i), field, i, next)
    BY <1>3 DEF Goto, TypeOK, SetOld
  <2>3. \A q \in Seeders \ {p} : seed'[q] = seed[q]
    BY <1>3, GotoFacts
  <2> HIDE DEF x2
  <2>8. Looked(seed'[p], s, x2(i), i, next, s.next, field)
    BY <1>1, <2>1, <2>2, LookedUp
  <2>4. /\ seed'[p] \in Session
        /\ seed'[p].unsent = x2(i) /\ seed'[p].pc = next /\ seed'[p].next = s.next
        /\ SameElse(p)
        /\ seed'[p].admin = IF field = "admin" THEN i ELSE s.admin
        /\ seed'[p].test = IF field = "test" THEN i ELSE s.test
        /\ seed'[p].question = IF field = "question" THEN i ELSE s.question
    BY <2>8 DEF SameElse, Looked
  <2>5. Steps(p)
    BY <2>3, <2>4 DEF Steps
  <2>6. Takes(p, i, row, next)
    BY <1>3, <2>4 DEF Takes, x2
  <2>7. QED
    BY <2>4, <2>5, <2>6
<1>4. QED
  <2>1. CASE found = {} /\ new \in Ids /\ given' = new
    BY <1>2, <2>1 DEF LookUp
  <2>2. CASE \E i \in found : given' = given /\ Goto(p, [s EXCEPT !.unsent = @ \cup Setting(i, View(p)[i], row), ![field] = i], next)
    <3>1. PICK i \in found : given' = given /\ Goto(p, [s EXCEPT !.unsent = @ \cup Setting(i, View(p)[i], row), ![field] = i], next)
      BY <2>2
    <3>2. i \in Ids
      OBVIOUS
    <3>3. QED
      BY <1>3, <3>1, <3>2
  <2>3. QED
    BY <2>1, <2>2 DEF LookUp

\* The fields of a session that no step but the one named here sets.
SameRefs(p) ==
    LET s == seed[p]
        t == seed'[p] IN
    t.admin = s.admin /\ t.test = s.test /\ t.question = s.question /\ t.next = s.next
    /\ t.alone = s.alone /\ t.calm = s.calm

SetCheck(s, x, c) == [[s EXCEPT !.check = x] EXCEPT !.pc = c]

LEMMA ListRetiredStep ==
    ASSUME TypeOK, NEW p \in Seeders, ListRetired(p)
    PROVE  LET found == UNION {Select(p, "question", seed[p].test, t) : t \in Retired}
               s == seed[p]
               t == seed'[p] IN
           /\ Steps(p) /\ SameRefs(p) /\ given' = given
           /\ t.sent = s.sent /\ t.synced = s.synced /\ t.known = s.known /\ t.nth = s.nth
           /\ t.unsent = s.unsent /\ t.check = found
           /\ t.pc = IF found = {} THEN "question" ELSE "check"
<1> DEFINE found == UNION {Select(p, "question", seed[p].test, t) : t \in Retired}
           c == IF found = {} THEN "question" ELSE "check"
           s == seed[p]
<1>1. s.pc = "retired" /\ s \in Session /\ c \in SeedPCs
  BY RunningSession DEF ListRetired, SeedPCs
<1>2. found \in SUBSET Ids
  BY DEF Select
<1>3. seed' = [seed EXCEPT ![p] = SetCheck(s, found, c)]
  BY DEF ListRetired, Goto, SetCheck
<1>4. UNCHANGED outside /\ given' = given
  BY DEF ListRetired
<1> HIDE DEF found, c
<1>5. /\ SetCheck(s, found, c) \in Session
      /\ SetCheck(s, found, c).check = found /\ SetCheck(s, found, c).pc = c
      /\ SetCheck(s, found, c).sent = s.sent /\ SetCheck(s, found, c).synced = s.synced
      /\ SetCheck(s, found, c).known = s.known /\ SetCheck(s, found, c).nth = s.nth
      /\ SetCheck(s, found, c).unsent = s.unsent
      /\ SetCheck(s, found, c).admin = s.admin /\ SetCheck(s, found, c).test = s.test
      /\ SetCheck(s, found, c).question = s.question /\ SetCheck(s, found, c).next = s.next
      /\ SetCheck(s, found, c).alone = s.alone /\ SetCheck(s, found, c).calm = s.calm
  <2>1. [s EXCEPT !.check = found] \in Session
    BY <1>1, <1>2, OneField
  <2>2. [[s EXCEPT !.check = found] EXCEPT !.pc = c] \in Session
    BY <1>1, <2>1, OneField
  <2>3. QED
    BY <1>1, <2>2, SMT DEF SetCheck, Session
<1>6. seed'[p] = SetCheck(s, found, c) /\ \A q \in Seeders \ {p} : seed'[q] = seed[q]
  BY <1>3 DEF TypeOK
<1>7. QED
  BY <1>4, <1>5, <1>6 DEF Steps, SameRefs, found, c

SetMarks(s, x, u, k, c) == [[s EXCEPT !.check = x, !.unsent = u, !.known = k] EXCEPT !.pc = c]

LEMMA CheckRetiredStep ==
    ASSUME TypeOK, NEW p \in Seeders, CheckRetired(p)
    PROVE  LET s == seed[p]
               t == seed'[p] IN
           /\ Steps(p) /\ SameRefs(p) /\ given' = given
           /\ t.sent = s.sent /\ t.synced = s.synced /\ t.nth = s.nth
           /\ s.pc = "check" /\ t.pc \in {"check", "question"}
           /\ \E r \in s.check :
                 /\ t.check = s.check \ {r}
                 /\ t.unsent = s.unsent \cup (IF UnusedQuestion(p, r) THEN {Delete(r)} ELSE {})
                 /\ t.known = s.known \cup Children(db, "submission", r)
                 /\ s.check = {r} => t.pc = "question"
                 /\ s.check # {r} => t.pc = "check"
<1> DEFINE s == seed[p]
           marked(r) == IF UnusedQuestion(p, r) THEN {Delete(r)} ELSE {}
           x(r) == s.check \ {r}
           u(r) == s.unsent \cup marked(r)
           k(r) == s.known \cup Children(db, "submission", r)
           c(r) == IF s.check = {r} THEN "question" ELSE "check"
<1>1. s.pc = "check" /\ s \in Session
  BY RunningSession DEF CheckRetired, SeedPCs
<1>2. PICK r \in s.check : seed' = [seed EXCEPT ![p] = SetMarks(s, x(r), u(r), k(r), c(r))]
  BY DEF CheckRetired, Goto, SetMarks
<1>3. r \in Ids /\ s.check \subseteq Ids /\ s.unsent \subseteq Write /\ s.known \subseteq Ids
  BY <1>1, <1>2, SessionTypes
<1>4. /\ x(r) \in SUBSET Ids /\ u(r) \in SUBSET Write /\ k(r) \in SUBSET Ids
      /\ c(r) \in SeedPCs /\ c(r) \in {"check", "question"}
  BY <1>3, WritesMade DEF Children, SeedPCs
<1>5. UNCHANGED outside /\ given' = given
  BY DEF CheckRetired
<1>6. s.check = {r} => c(r) = "question"
  OBVIOUS
<1>7. s.check # {r} => c(r) = "check"
  OBVIOUS
<1>8. ASSUME NEW X \in SUBSET Ids, NEW U \in SUBSET Write, NEW K \in SUBSET Ids, NEW C \in SeedPCs, NEW t,
             t = SetMarks(s, X, U, K, C)
      PROVE  /\ t \in Session
             /\ t.check = X /\ t.unsent = U /\ t.known = K /\ t.pc = C
             /\ t.sent = s.sent /\ t.synced = s.synced /\ t.nth = s.nth
             /\ t.admin = s.admin /\ t.test = s.test /\ t.question = s.question /\ t.next = s.next
             /\ t.alone = s.alone /\ t.calm = s.calm
  <2>1. [s EXCEPT !.check = X] \in Session
    BY <1>1, OneField
  <2>2. [[s EXCEPT !.check = X] EXCEPT !.unsent = U] \in Session
    BY <2>1, OneField
  <2>3. [[[s EXCEPT !.check = X] EXCEPT !.unsent = U] EXCEPT !.known = K] \in Session
    BY <2>2, OneField
  <2>4. [[[[s EXCEPT !.check = X] EXCEPT !.unsent = U] EXCEPT !.known = K] EXCEPT !.pc = C] \in Session
    BY <2>3, OneField
  <2>5. t = [[[[s EXCEPT !.check = X] EXCEPT !.unsent = U] EXCEPT !.known = K] EXCEPT !.pc = C]
    BY <1>8 DEF SetMarks
  <2>6. t \in Session
    BY <2>4, <2>5
  <2>7. QED
    BY <1>1, <2>5, <2>6, SMT DEF Session
<1>9. seed'[p] = SetMarks(s, x(r), u(r), k(r), c(r)) /\ \A q \in Seeders \ {p} : seed'[q] = seed[q]
  BY <1>2 DEF TypeOK
<1> HIDE DEF x, u, k, c
<1>10. /\ seed'[p] \in Session
       /\ seed'[p].check = x(r) /\ seed'[p].unsent = u(r) /\ seed'[p].known = k(r) /\ seed'[p].pc = c(r)
       /\ seed'[p].sent = s.sent /\ seed'[p].synced = s.synced /\ seed'[p].nth = s.nth
       /\ SameRefs(p)
  BY <1>4, <1>8, <1>9 DEF SameRefs
<1>11. Steps(p)
  BY <1>5, <1>9, <1>10 DEF Steps
<1>12. /\ seed'[p].check = s.check \ {r}
       /\ seed'[p].unsent = s.unsent \cup (IF UnusedQuestion(p, r) THEN {Delete(r)} ELSE {})
       /\ seed'[p].known = s.known \cup Children(db, "submission", r)
  BY <1>10 DEF x, u, k
<1>13. QED
  BY <1>1, <1>2, <1>4, <1>5, <1>6, <1>7, <1>10, <1>11, <1>12

SetSynced(s, n, y, u, c) == [[s EXCEPT !.nth = n, !.synced = y, !.unsent = u] EXCEPT !.pc = c]

LEMMA SyncStep ==
    ASSUME TypeOK, NEW p \in Seeders, SyncCases(p), seed[p].nth <= Len(Catalogue),
           seed[p].question \in Ids, CaseWrites(View(p), seed[p].question, Title(p)) \in SUBSET Write
    PROVE  LET s == seed[p]
               t == seed'[p] IN
           /\ Steps(p) /\ SameRefs(p)
           /\ given + Len(CaseKeys[Title(p)]) \in Ids
           /\ given' = given + Len(CaseKeys[Title(p)])
           /\ t.sent = s.sent /\ t.known = s.known /\ t.check = s.check
           /\ t.nth = s.nth + 1 /\ t.synced = s.synced \cup {s.question}
           /\ t.unsent = s.unsent \cup CaseWrites(View(p), s.question, Title(p))
           /\ s.pc = "cases"
           /\ t.pc = IF s.nth = Len(Catalogue) THEN "commit" ELSE "question"
<1> DEFINE s == seed[p]
           n == s.nth + 1
           y == s.synced \cup {s.question}
           u == s.unsent \cup CaseWrites(View(p), s.question, Title(p))
           c == IF s.nth = Len(Catalogue) THEN "commit" ELSE "question"
<1>1. s.pc = "cases" /\ s \in Session
  BY RunningSession DEF SyncCases, SeedPCs
<1>2. seed' = [seed EXCEPT ![p] = SetSynced(s, n, y, u, c)]
  BY DEF SyncCases, Goto, SetSynced
<1>3. /\ given + Len(CaseKeys[Title(p)]) \in Ids /\ given' = given + Len(CaseKeys[Title(p)])
      /\ UNCHANGED outside
  BY DEF SyncCases
<1>4. s.nth \in 1..(Len(Catalogue) + 1) /\ s.synced \subseteq Ids /\ s.unsent \subseteq Write
  BY <1>1, SessionTypes
<1>5. n \in 1..(Len(Catalogue) + 1)
  BY <1>4, CatalogueFacts, SMT
<1>6. y \in SUBSET Ids /\ u \in SUBSET Write /\ c \in SeedPCs
  BY <1>4 DEF SeedPCs
<1>7. seed'[p] = SetSynced(s, n, y, u, c) /\ \A q \in Seeders \ {p} : seed'[q] = seed[q]
  BY <1>2 DEF TypeOK
<1> HIDE DEF n, y, u, c
<1>8. DEFINE t == SetSynced(s, n, y, u, c)
<1>9. /\ t \in Session
      /\ t.nth = n /\ t.synced = y /\ t.unsent = u /\ t.pc = c
      /\ t.sent = s.sent /\ t.known = s.known /\ t.check = s.check
      /\ t.admin = s.admin /\ t.test = s.test /\ t.question = s.question /\ t.next = s.next
      /\ t.alone = s.alone /\ t.calm = s.calm
  <2>1. [s EXCEPT !.nth = n] \in Session
    BY <1>1, <1>5, OneField
  <2>2. [[s EXCEPT !.nth = n] EXCEPT !.synced = y] \in Session
    BY <1>6, <2>1, OneField
  <2>3. [[[s EXCEPT !.nth = n] EXCEPT !.synced = y] EXCEPT !.unsent = u] \in Session
    BY <1>6, <2>2, OneField
  <2>4. [[[[s EXCEPT !.nth = n] EXCEPT !.synced = y] EXCEPT !.unsent = u] EXCEPT !.pc = c] \in Session
    BY <1>6, <2>3, OneField
  <2>5. t = [[[[s EXCEPT !.nth = n] EXCEPT !.synced = y] EXCEPT !.unsent = u] EXCEPT !.pc = c]
    BY DEF SetSynced
  <2>6. t \in Session
    BY <2>4, <2>5
  <2>7. QED
    BY <1>1, <2>5, <2>6, SMT DEF Session
<1> HIDE DEF t
<1>10. Steps(p) /\ SameRefs(p)
  BY <1>3, <1>7, <1>9 DEF Steps, SameRefs, t
<1>11. QED
  BY <1>1, <1>3, <1>7, <1>9, <1>10 DEF n, y, u, c, t

SetSent(s, u, x, c) == [[s EXCEPT !.unsent = u, !.sent = x] EXCEPT !.pc = c]

LEMMA FlushStep ==
    ASSUME TypeOK, NEW p \in Seeders, Flush(p)
    PROVE  LET s == seed[p]
               t == seed'[p] IN
           /\ Steps(p) /\ SameRefs(p) /\ given' = given
           /\ t.synced = s.synced /\ t.known = s.known /\ t.check = s.check /\ t.nth = s.nth
           /\ t.unsent = {} /\ t.sent = s.sent \cup s.unsent
           /\ s.pc = "flush" /\ t.pc = s.next
<1> DEFINE s == seed[p]
           x == s.sent \cup s.unsent
           none == {}
           t == SetSent(s, none, x, s.next)
<1>1. s.pc = "flush" /\ s \in Session
  BY RunningSession DEF Flush, SeedPCs
<1>2. seed' = [seed EXCEPT ![p] = t]
  BY DEF Flush, Goto, SetSent
<1>3. s.next \in SeedPCs /\ x \in SUBSET Write /\ none \in SUBSET Write
  BY <1>1, SessionTypes
<1>4. seed'[p] = t /\ (\A q \in Seeders \ {p} : seed'[q] = seed[q]) /\ given' = given /\ UNCHANGED outside
  BY <1>2 DEF TypeOK, Flush
<1> HIDE DEF x, none
<1>5. /\ t \in Session
      /\ t.unsent = none /\ t.sent = x /\ t.pc = s.next
      /\ t.synced = s.synced /\ t.known = s.known /\ t.check = s.check /\ t.nth = s.nth
      /\ t.admin = s.admin /\ t.test = s.test /\ t.question = s.question /\ t.next = s.next
      /\ t.alone = s.alone /\ t.calm = s.calm
  <2>1. [s EXCEPT !.unsent = none] \in Session
    BY <1>1, <1>3, OneField
  <2>2. [[s EXCEPT !.unsent = none] EXCEPT !.sent = x] \in Session
    BY <1>3, <2>1, OneField
  <2>3. [[[s EXCEPT !.unsent = none] EXCEPT !.sent = x] EXCEPT !.pc = s.next] \in Session
    BY <1>3, <2>2, OneField
  <2>4. t = [[[s EXCEPT !.unsent = none] EXCEPT !.sent = x] EXCEPT !.pc = s.next]
    BY DEF SetSent
  <2>5. t \in Session
    BY <2>3, <2>4
  <2>6. QED
    BY <1>1, <1>3, <2>4, <2>5, SMT DEF Session
<1> HIDE DEF t
<1>6. Steps(p) /\ SameRefs(p)
  BY <1>4, <1>5 DEF Steps, SameRefs
<1>7. QED
  BY <1>1, <1>4, <1>5, <1>6 DEF x, none

\* A session that does not step, though others may disturb it.
Keeps(q) ==
    LET s == seed[q]
        t == seed'[q] IN
    /\ Running(q)' <=> Running(q)
    /\ Running(q) => t \in Session
    /\ ~Running(q) => t = Idle
    /\ t.pc = s.pc /\ t.next = s.next /\ t.nth = s.nth /\ t.check = s.check
    /\ t.admin = s.admin /\ t.test = s.test /\ t.question = s.question
    /\ t.unsent = s.unsent /\ t.sent = s.sent /\ t.synced = s.synced /\ t.known = s.known

LEMMA SameKeeps ==
    ASSUME TypeOK, NEW q \in Seeders, seed'[q] = seed[q]
    PROVE  Keeps(q)
<1>1. Running(q) => seed[q] \in Session
  BY RunningSession
<1>2. seed[q] \in Session \cup {Idle}
  BY DEF TypeOK
<1>3. seed[q] \in Session => seed[q].pc # "idle"
  BY SessionTypes DEF SeedPCs
<1>4. QED
  BY <1>1, <1>2, <1>3 DEF Keeps, Running

LEMMA DisturbedKeeps ==
    ASSUME TypeOK, NEW q \in Seeders, seed'[q] = Disturbed(q)
    PROVE  Keeps(q)
<1>1. CASE Running(q)
  <2> DEFINE s == seed[q]
             t == [s EXCEPT !.alone = FALSE, !.calm = FALSE]
  <2>1. s \in Session
    BY <1>1, RunningSession
  <2>2. seed'[q] = t
    BY <1>1 DEF Disturbed
  <2>3. \A x \in Session, b \in BOOLEAN : [x EXCEPT !.alone = b] \in Session /\ [x EXCEPT !.calm = b] \in Session
    BY SMT DEF Session
  <2>4. [s EXCEPT !.alone = FALSE] \in Session
    BY <2>1, <2>3
  <2>5. t \in Session
    BY <2>3, <2>4
  <2>6. /\ t.pc = s.pc /\ t.next = s.next /\ t.nth = s.nth /\ t.check = s.check
        /\ t.admin = s.admin /\ t.test = s.test /\ t.question = s.question
        /\ t.unsent = s.unsent /\ t.sent = s.sent /\ t.synced = s.synced /\ t.known = s.known
    BY <2>1, SMT DEF Session
  <2> HIDE DEF t
  <2>7. QED
    BY <1>1, <2>2, <2>5, <2>6 DEF Keeps, Running
<1>2. CASE ~Running(q)
  BY <1>2, SameKeeps DEF Disturbed
<1>3. QED
  BY <1>1, <1>2

LEMMA BeginStep ==
    ASSUME TypeOK, NEW p \in Seeders, Begin(p)
    PROVE  LET t == seed'[p] IN
           /\ \A q \in Seeders \ {p} : Keeps(q)
           /\ ~Running(p) /\ t \in Session
           /\ t.pc = "admin" /\ t.next = "test" /\ t.admin = Null /\ t.test = Null
           /\ t.question = Null /\ t.nth = 1 /\ t.check = {} /\ t.unsent = {} /\ t.sent = {}
           /\ t.synced = {} /\ t.known = {}
           /\ UNCHANGED <<db, given, people, adds, posts, faults, fresh, seeded, steady>>
<1> DEFINE alone == \A q \in Seeders : ~Running(q)
           calm == alone /\ steady
           t == [pc |-> "admin", next |-> "test", admin |-> Null, test |-> Null,
                 question |-> Null, nth |-> 1, check |-> {},
                 unsent |-> {}, sent |-> {}, synced |-> {}, known |-> {},
                 alone |-> alone, calm |-> calm]
<1>1. seed' = [q \in Seeders |-> IF q = p THEN t ELSE Disturbed(q)]
  BY DEF Begin
<1>2. alone \in BOOLEAN /\ calm \in BOOLEAN
  BY DEF TypeOK
<1>3. "admin" \in SeedPCs /\ "test" \in SeedPCs /\ 1 \in 1..(Len(Catalogue) + 1)
  BY CatalogueFacts, SMT DEF SeedPCs
<1> HIDE DEF alone, calm
<1>4. t \in Session
  BY <1>2, <1>3, SMT DEF Session
<1>5. seed'[p] = t /\ \A q \in Seeders \ {p} : seed'[q] = Disturbed(q)
  BY <1>1
<1>6. \A q \in Seeders \ {p} : Keeps(q)
  BY <1>5, DisturbedKeeps
<1>7. QED
  BY <1>4, <1>5, <1>6 DEF Begin

LEMMA EndStep ==
    ASSUME TypeOK, NEW p \in Seeders, EndSeed(p)
    PROVE  /\ seed'[p] = Idle /\ ~Running(p)'
           /\ \A q \in Seeders \ {p} : seed'[q] = seed[q] /\ Keeps(q)
<1>1. seed'[p] = Idle /\ \A q \in Seeders \ {p} : seed'[q] = seed[q]
  BY DEF EndSeed, TypeOK
<1>2. QED
  BY <1>1, SameKeeps DEF Running, Idle

-----------------------------------------------------------------------------
(* Rows and sessions of a state *)

Base == TypeOK /\ SessionsInv /\ DatabaseInv

LEMMA RowFacts ==
    ASSUME TypeOK, NEW i \in Ids, db[i] # Null
    PROVE  /\ db[i] \in Row
           /\ db[i].table # "user" => /\ db[i].parent \in Ids /\ db[db[i].parent] # Null
                                      /\ db[db[i].parent] \in Row
                                      /\ db[db[i].parent].table = ParentTable(db[i].table)
           /\ db[i].table = "user" => db[i].parent = Null
           /\ db[i].table \in {"user", "test", "question", "case", "submission"}
<1>1. db[i] \in Row /\ \A j \in Ids : db[j] \in Row \cup {Null}
  BY DEF TypeOK
<1>2. Fits(db, i)
  BY DEF TypeOK
<1>3. /\ db[i].table # "user" => db[i].parent \in Ids
      /\ db[i].table = "user" => db[i].parent = Null
      /\ db[i].table \in {"user", "test", "question", "case", "submission"}
  BY <1>1, RowTypes
<1>4. QED
  BY <1>1, <1>2, <1>3 DEF Fits

LEMMA InRowsAt ==
    ASSUME NEW p, NEW i, NEW r
    PROVE  r \in RowsAt(p, i) <=>
              \/ r = db[i] /\ r # Null
              \/ \E w \in Pending(p) : w.op = "insert" /\ w.id = i /\ w.row = r
BY DEF RowsAt

LEMMA InNextRowsAt ==
    ASSUME NEW CONSTANT p, NEW CONSTANT i, NEW CONSTANT r
    PROVE  r \in RowsAt(p, i)' <=>
              \/ r = db'[i] /\ r # Null
              \/ \E w \in Pending(p)' : w.op = "insert" /\ w.id = i /\ w.row = r
BY DEF RowsAt

LEMMA PendingFacts ==
    ASSUME Base, NEW p \in Seeders, Running(p)
    PROVE  /\ seed[p] \in Session
           /\ SessionFits(p)
           /\ \A w \in Pending(p) :
                 /\ w \in Write /\ WriteFits(p, w) /\ w.id \in Ids
                 /\ w.op \in {"insert", "update", "delete"}
                 /\ w.op = "delete" => w.row = Null
                 /\ w.op # "delete" => w.row \in Row
           /\ \A w, x \in Pending(p) : w.id = x.id => w = x
           /\ seed[p].unsent \subseteq Pending(p) /\ seed[p].sent \subseteq Pending(p)
<1>1. seed[p] \in Session
  BY RunningSession DEF Base
<1>2. SessionFits(p)
  BY DEF Base, SessionsInv
<1>3. Pending(p) \subseteq Write
  BY <1>1, SessionTypes DEF Pending
<1>4. WritesFit(p)
  BY <1>2 DEF SessionFits
<1>5. QED
  BY <1>1, <1>2, <1>3, <1>4, WriteFields DEF WritesFit, Pending

\* A committed row is nobody's insert.
LEMMA CommittedIsOld ==
    ASSUME Base, NEW i \in Ids, db[i] # Null
    PROVE  Old(i)
<1>1. i \in 1..given
  <2>1. i <= given /\ given \in 0..MaxId
    BY DEF Base, DatabaseInv, TypeOK
  <2>2. QED
    BY <2>1, IdFacts, SMT DEF Ids
<1>2. ASSUME NEW p \in Seeders, Running(p), NEW w \in Pending(p), w.op = "insert", w.id = i
      PROVE  FALSE
  BY <1>2, PendingFacts DEF WriteFits
<1>3. QED
  BY <1>1, <1>2 DEF Old, Inserts

\* A session knows one row under an id.
LEMMA OneRowAt ==
    ASSUME Base, NEW p \in Seeders, Running(p), NEW i, NEW r, NEW x,
           r \in RowsAt(p, i), x \in RowsAt(p, i)
    PROVE  r = x
<1>1. \/ r = db[i] /\ r # Null
      \/ \E w \in Pending(p) : w.op = "insert" /\ w.id = i /\ w.row = r
  BY InRowsAt
<1>2. \/ x = db[i] /\ x # Null
      \/ \E w \in Pending(p) : w.op = "insert" /\ w.id = i /\ w.row = x
  BY InRowsAt
<1>3. \A w \in Pending(p) : w.op = "insert" => db[w.id] = Null
  BY PendingFacts DEF WriteFits
<1>4. \A v, w \in Pending(p) : v.id = w.id => v = w
  BY PendingFacts
<1>5. QED
  BY <1>1, <1>2, <1>3, <1>4

LEMMA OneTitle ==
    ASSUME Base, NEW p \in Seeders, Running(p), NEW q, NEW t, NEW u,
           HasQuestion(p, q, t), HasQuestion(p, q, u)
    PROVE  t = u
BY OneRowAt DEF HasQuestion

\* What an insert or an update writes.
LEMMA ContentTypes ==
    ASSUME Base, NEW p \in Seeders, Running(p), NEW w \in Pending(p), w.op # "delete"
    PROVE  /\ w.row \in Row /\ w.row.value = "catalogue" /\ ContentFits(p, w.row)
           /\ w.row.table \in {"user", "test", "question", "case"}
           /\ w.row.table = "user" => w.row.key = "admin" /\ w.row.parent = Null
           /\ w.row.table # "user" => w.row.parent \in Ids
           /\ w.row.table = "test" => w.row.parent = seed[p].admin
           /\ w.row.table = "question" => w.row.parent = seed[p].test /\ w.row.key \in Titles
           /\ w.row.table = "case" =>
                 /\ w.row.parent \in seed[p].synced
                 /\ \E t \in Titles : HasQuestion(p, w.row.parent, t) /\ w.row.key \in KeysOf(t)
<1>1. WriteFits(p, w) /\ w.row \in Row /\ w.op \in {"insert", "update"}
  BY PendingFacts
<1>2. ContentFits(p, w.row)
  BY <1>1 DEF WriteFits
<1>3. QED
  BY <1>1, <1>2, RowTypes DEF ContentFits

-----------------------------------------------------------------------------
(* What a session may rely on while the committed rows evolve *)

\* Rows that survive keep what identifies them, and the catalogue's output.
RowsEvolve ==
    /\ given <= given' /\ given' \in Nat
    /\ adds' = 0 => adds = 0
    /\ \A i \in Ids : Old(i) => Old(i)'
    /\ \A i \in Ids : Old(i) /\ db[i] = Null => db'[i] = Null
    /\ \A i \in Ids : db[i] # Null /\ db'[i] # Null =>
          /\ SameRow(db[i], db'[i])
          /\ db[i].table = "case" /\ db[i].value = "catalogue" => db'[i].value = "catalogue"

\* Only retired questions, cases and submissions ever go; a case of the
\* catalogue only if another one takes its place.
LastingRows ==
    /\ \A i \in Ids : db[i] # Null /\ db[i].table \in {"user", "test"} => db'[i] # Null
    /\ \A i \in Ids : db[i] # Null /\ db[i].table = "question" /\ db[i].key \in Titles => db'[i] # Null
    /\ \A y \in Ids :
          /\ db[y] # Null /\ db[y].table = "case" /\ db[y].value = "catalogue"
          /\ db[db[y].parent].key \in Titles /\ db[y].key \in KeysOf(db[db[y].parent].key)
          => \E z \in Ids : /\ z <= y /\ db'[z] # Null /\ db'[z].table = "case"
                            /\ db'[z].parent = db[y].parent /\ db'[z].key = db[y].key
                            /\ db'[z].value = "catalogue"
    /\ adds' = 0 => \A y \in Ids :
          db[y] = Null /\ db'[y] # Null /\ db'[y].table = "case" =>
              /\ db'[y].value = "catalogue"
              /\ db'[y].key \in KeysOf(db'[db'[y].parent].key)

\* The rows q means to write stay missing if they were; what it has locked stays.
Spares(q) ==
    /\ \A w \in Pending(q) : db[w.id] = Null => db'[w.id] = Null
    /\ \A w \in seed[q].sent : w.op = "update" /\ db[w.id] # Null => db'[w.id] # Null

Evolves(q) == RowsEvolve /\ LastingRows /\ Spares(q) /\ Keeps(q)

LEMMA SamePending ==
    ASSUME NEW q, Keeps(q)
    PROVE  Pending(q)' = Pending(q)
BY DEF Keeps, Pending

\* What a session refers to stays.
LEMMA ReferencesStay ==
    ASSUME Base, NEW q \in Seeders, Running(q), Evolves(q), NEW i \in Ids, NEW r \in RowsAt(q, i),
           r.table \in {"user", "test"} \/ (r.table = "question" /\ r.key \in Titles)
    PROVE  \E x \in RowsAt(q, i)' : SameRow(r, x) /\ (r.table = "question" => x.parent = r.parent)
<1>1. CASE r = db[i] /\ r # Null
  <2>1. db'[i] # Null
    BY <1>1 DEF Evolves, LastingRows
  <2>2. SameRow(r, db'[i])
    BY <1>1, <2>1 DEF Evolves, RowsEvolve
  <2>3. db'[i] \in RowsAt(q, i)'
    BY <2>1 DEF RowsAt
  <2>4. QED
    BY <2>2, <2>3 DEF SameRow
<1>2. ASSUME NEW w \in Pending(q), w.op = "insert", w.id = i, w.row = r
      PROVE  r \in RowsAt(q, i)'
  BY <1>2, SamePending DEF RowsAt, Evolves
<1>3. QED
  BY <1>1, <1>2, InRowsAt DEF SameRow

LEMMA QuestionStays ==
    ASSUME Base, NEW q \in Seeders, Running(q), Evolves(q), NEW i \in Ids, NEW t \in Titles,
           HasQuestion(q, i, t)
    PROVE  HasQuestion(q, i, t)'
<1>1. PICK r \in RowsAt(q, i) : r.table = "question" /\ r.parent = seed[q].test /\ r.key = t
  BY DEF HasQuestion
<1>2. PICK x \in RowsAt(q, i)' : SameRow(r, x)
  BY <1>1, ReferencesStay
<1>3. x.table = "question" /\ x.parent = seed'[q].test /\ x.key = t
  BY <1>1, <1>2 DEF SameRow, Evolves, Keeps
<1>4. QED
  BY <1>3 DEF HasQuestion

\* A session keeps to ids that are in use, and to what is at them.
LEMMA SyncedIds ==
    ASSUME Base, NEW p \in Seeders, Running(p), NEW q \in seed[p].synced
    PROVE  /\ q \in Ids
           /\ \E t \in Titles : HasQuestion(p, q, t)
           /\ db[q] # Null => /\ db[q].table = "question" /\ db[q].parent = seed[p].test
                              /\ db[q].key \in Titles /\ HasQuestion(p, q, db[q].key)
           /\ db[q] = Null => \E w \in Pending(p) : w.op = "insert" /\ w.id = q
<1>1. seed[p] \in Session /\ PlaceFits(p)
  BY PendingFacts DEF SessionFits
<1>2. q \in Ids /\ seed[p].nth \in 1..(Len(Catalogue) + 1)
  BY <1>1, SessionTypes
<1>3. PICK n \in 1..(seed[p].nth - 1) : HasQuestion(p, q, Catalogue[n])
  BY <1>1 DEF PlaceFits
<1>4. n \in 1..Len(Catalogue)
  BY <1>2, <1>3, CatalogueFacts, SMT
<1>5. Catalogue[n] \in Titles
  BY <1>4, CatalogueFacts
<1>6. PICK r \in RowsAt(p, q) : r.table = "question" /\ r.parent = seed[p].test /\ r.key = Catalogue[n]
  BY <1>3 DEF HasQuestion
<1>7. db[q] # Null => db[q] = r
  <2>1. db[q] # Null => db[q] \in RowsAt(p, q)
    BY DEF RowsAt
  <2>2. QED
    BY <1>6, <2>1, OneRowAt
<1>8. db[q] = Null => \E w \in Pending(p) : w.op = "insert" /\ w.id = q
  BY <1>6, InRowsAt
<1>9. QED
  BY <1>2, <1>3, <1>5, <1>6, <1>7, <1>8

LEMMA QuestionWas ==
    ASSUME Base, NEW q \in Seeders, Running(q), Evolves(q), NEW i \in seed[q].synced, NEW t,
           HasQuestion(q, i, t)'
    PROVE  HasQuestion(q, i, t) /\ t \in Titles
<1>1. PICK u \in Titles : HasQuestion(q, i, u)
  BY SyncedIds
<1>2. HasQuestion(q, i, u)' /\ i \in Ids
  BY <1>1, QuestionStays, SyncedIds
<1>3. PICK x \in RowsAt(q, i)' : x.table = "question" /\ x.parent = seed'[q].test /\ x.key = t
  BY DEF HasQuestion
<1>4. PICK y \in RowsAt(q, i)' : y.table = "question" /\ y.parent = seed'[q].test /\ y.key = u
  BY <1>2 DEF HasQuestion
<1>5. x = y
  <2>1. \A w \in Pending(q) : w.op = "insert" /\ w.id = i => db'[i] = Null
    BY PendingFacts DEF WriteFits, Evolves, Spares
  <2>2. \A v, w \in Pending(q) : v.id = w.id => v = w
    BY PendingFacts
  <2>3. Pending(q)' = Pending(q)
    BY SamePending DEF Evolves
  <2>4. \/ x = db'[i] /\ x # Null
        \/ \E w \in Pending(q) : w.op = "insert" /\ w.id = i /\ w.row = x
    BY <1>3, <2>3 DEF RowsAt
  <2>5. \/ y = db'[i] /\ y # Null
        \/ \E w \in Pending(q) : w.op = "insert" /\ w.id = i /\ w.row = y
    BY <1>4, <2>3 DEF RowsAt
  <2>6. QED
    BY <2>1, <2>2, <2>4, <2>5
<1>6. QED
  BY <1>1, <1>3, <1>4, <1>5

LEMMA PlaceEvolves ==
    ASSUME Base, NEW q \in Seeders, Running(q), Evolves(q)
    PROVE  PlaceFits(q)'
<1> DEFINE s == seed[q]
           t == seed'[q]
<1>1. PlaceFits(q) /\ s \in Session
  BY PendingFacts DEF SessionFits
<1>2. /\ t.pc = s.pc /\ t.next = s.next /\ t.nth = s.nth /\ t.check = s.check
      /\ t.admin = s.admin /\ t.test = s.test /\ t.question = s.question
      /\ t.unsent = s.unsent /\ t.sent = s.sent /\ t.synced = s.synced /\ t.known = s.known
  BY DEF Evolves, Keeps
<1>3. (BeforeTest(q)' <=> BeforeTest(q)) /\ (AtCases(q)' <=> AtCases(q)) /\ (BeforeCheck(q)' <=> BeforeCheck(q))
  BY <1>2 DEF BeforeTest, AtCases, BeforeCheck
<1>4. Pending(q)' = Pending(q)
  BY SamePending DEF Evolves
<1>5. s.admin \in Ids /\ HasAdmin(q) => HasAdmin(q)'
  <2>1. HAVE s.admin \in Ids /\ HasAdmin(q)
  <2>2. PICK i \in Ids : i = s.admin
    BY <2>1
  <2>3. PICK r \in RowsAt(q, i) : r.table = "user" /\ r.key = "admin"
    BY <2>1, <2>2 DEF HasAdmin
  <2>4. PICK x \in RowsAt(q, i)' : SameRow(r, x)
    BY <2>3, ReferencesStay
  <2>5. QED
    BY <1>2, <2>2, <2>3, <2>4 DEF HasAdmin, SameRow
<1>6. s.test \in Ids /\ HasTest(q) => HasTest(q)'
  <2>1. HAVE s.test \in Ids /\ HasTest(q)
  <2>2. PICK i \in Ids : i = s.test
    BY <2>1
  <2>3. PICK r \in RowsAt(q, i) : r.table = "test"
    BY <2>1, <2>2 DEF HasTest
  <2>4. PICK x \in RowsAt(q, i)' : SameRow(r, x)
    BY <2>3, ReferencesStay
  <2>5. QED
    BY <1>2, <2>2, <2>3, <2>4 DEF HasTest, SameRow
<1>7. \A i \in Ids, n \in 1..Len(Catalogue) :
         HasQuestion(q, i, Catalogue[n]) => HasQuestion(q, i, Catalogue[n])'
  BY CatalogueFacts, QuestionStays
<1>8. s.nth \in 1..(Len(Catalogue) + 1) /\ s.synced \subseteq Ids /\ s.check \subseteq Ids
  BY <1>1, SessionTypes
<1>9. \A n \in 1..(s.nth - 1) : n \in 1..Len(Catalogue)
  BY <1>8, CatalogueFacts, SMT
<1>10. AtCases(q) => s.question \in Ids /\ HasQuestion(q, s.question, Title(q))'
  <2>1. HAVE AtCases(q)
  <2>2. s.question \in Ids /\ HasQuestion(q, s.question, Title(q))
    BY <1>1, <2>1 DEF PlaceFits
  <2>3. s.nth \in 1..Len(Catalogue)
    <3>1. s.pc # "commit"
      BY <2>1 DEF AtCases
    <3>2. ~(s.nth > Len(Catalogue))
      BY <1>1, <3>1 DEF PlaceFits
    <3>3. QED
      BY <1>8, <3>2, CatalogueFacts, SMT
  <2>4. Title(q)' = Catalogue[s.nth] /\ Title(q) = Catalogue[s.nth]
    BY <1>2 DEF Title
  <2>5. PICK n \in 1..Len(Catalogue), i \in Ids : n = s.nth /\ i = s.question
    BY <2>2, <2>3
  <2>6. HasQuestion(q, i, Catalogue[n])'
    BY <1>7, <2>2, <2>4, <2>5
  <2>7. HasQuestion(q, s.question, Title(q))' <=> HasQuestion(q, i, Catalogue[n])'
    BY <1>2, <2>4, <2>5 DEF HasQuestion
  <2>8. QED
    BY <2>2, <2>6, <2>7
<1>11. \A i \in s.synced : \E n \in 1..(s.nth - 1) : HasQuestion(q, i, Catalogue[n])'
  BY <1>1, <1>7, <1>8, <1>9 DEF PlaceFits
<1>12. \A n \in 1..(s.nth - 1) : \E i \in s.synced : HasQuestion(q, i, Catalogue[n])'
  BY <1>1, <1>7, <1>8, <1>9 DEF PlaceFits
<1>13. \A r \in s.check : /\ Old(r)' /\ \A w \in Pending(q)' : w.id # r
                          /\ db'[r] # Null => db'[r].table = "question" /\ db'[r].key \in Retired
  <2>1. TAKE r \in s.check
  <2>2. /\ Old(r) /\ \A w \in Pending(q) : w.id # r
        /\ db[r] # Null => db[r].table = "question" /\ db[r].key \in Retired
    BY <1>1 DEF PlaceFits
  <2>3. r \in Ids
    BY <1>8
  <2>4. QED
    BY <1>4, <2>2, <2>3 DEF Evolves, RowsEvolve, SameRow
<1>14. QED
  BY <1>1, <1>2, <1>3, <1>4, <1>5, <1>6, <1>10, <1>11, <1>12, <1>13 DEF PlaceFits

LEMMA WritesEvolve ==
    ASSUME Base, NEW q \in Seeders, Running(q), Evolves(q)
    PROVE  WritesFit(q)'
<1> DEFINE s == seed[q]
           t == seed'[q]
<1>1. /\ t.pc = s.pc /\ t.next = s.next
      /\ t.admin = s.admin /\ t.test = s.test /\ t.question = s.question
      /\ t.sent = s.sent /\ t.synced = s.synced
  BY DEF Evolves, Keeps
<1>2. Pending(q)' = Pending(q) /\ (AtCases(q)' <=> AtCases(q))
  BY <1>1, SamePending DEF Evolves, AtCases
<1>3. ASSUME NEW w \in Pending(q)
      PROVE  WriteFits(q, w)'
  <2>1. WriteFits(q, w) /\ w.id \in Ids /\ w.op \in {"insert", "update", "delete"}
    BY PendingFacts
  <2>2. w.op # "delete" => ContentFits(q, w.row)'
    <3>1. HAVE w.op # "delete"
    <3>2. ContentFits(q, w.row)
      BY <3>1, ContentTypes
    <3>3. ASSUME w.row.table = "case", w.row.parent \in s.synced,
                 NEW u \in Titles, HasQuestion(q, w.row.parent, u)
          PROVE  HasQuestion(q, w.row.parent, u)'
      BY <3>3, SyncedIds, QuestionStays
    <3>4. QED
      BY <1>1, <3>2, <3>3 DEF ContentFits
  <2>3. w.op # "delete" /\ PlacedAt(q, w) => PlacedAt(q, w)'
    BY <1>1, <1>2 DEF PlacedAt
  <2>4. w.id <= given'
    <3>1. w.id <= given /\ given <= given' /\ given' \in Nat /\ given \in 0..MaxId
      BY <2>1 DEF WriteFits, Evolves, RowsEvolve, Base, TypeOK
    <3>2. w.id \in Nat /\ MaxId \in Nat
      BY <2>1, IdFacts
    <3>3. QED
      BY <3>1, <3>2, SMT
  <2>5. w.op = "insert" => db'[w.id] = Null
    BY <2>1 DEF WriteFits, Evolves, Spares
  <2>6. db'[w.id] # Null => db[w.id] # Null /\ SameRow(db[w.id], db'[w.id])
    BY <2>1 DEF Evolves, Spares, RowsEvolve
  <2>7. w.op = "update" /\ db'[w.id] # Null => SameRow(db'[w.id], w.row)
    BY <2>1, <2>6 DEF WriteFits, SameRow
  <2>8. w.op = "update" /\ w.row.table # "case" => db'[w.id] # Null
    <3>1. HAVE w.op = "update" /\ w.row.table # "case"
    <3>2. db[w.id] # Null /\ SameRow(db[w.id], w.row)
      BY <2>1, <3>1 DEF WriteFits
    <3>3. w.row.table \in {"user", "test"} \/ (w.row.table = "question" /\ w.row.key \in Titles)
      <4>1. w.op # "delete"
        BY <3>1
      <4>2. QED
        BY <3>1, <4>1, ContentTypes
    <3>4. QED
      BY <2>1, <3>2, <3>3 DEF Evolves, LastingRows, SameRow
  <2>9. w.op = "delete" /\ db'[w.id] # Null =>
           \/ db'[w.id].table = "question" /\ db'[w.id].key \in Retired
           \/ db'[w.id].table = "case" /\ db'[w.id].parent \in t.synced
    BY <1>1, <2>1, <2>6 DEF WriteFits, SameRow
  <2>10. w.op = "update" /\ w \in t.sent => db'[w.id] # Null
    BY <1>1, <2>1 DEF WriteFits, Evolves, Spares
  <2>11. w.op # "delete" => PlacedAt(q, w)'
    BY <2>1, <2>3 DEF WriteFits
  <2>12. QED
    BY <2>2, <2>4, <2>5, <2>7, <2>8, <2>9, <2>10, <2>11 DEF WriteFits
<1>4. \A w, x \in Pending(q) : w.id = x.id => w = x
  BY PendingFacts
<1>5. QED
  BY <1>2, <1>3, <1>4 DEF WritesFit

LEMMA KnownEvolves ==
    ASSUME Base, NEW q \in Seeders, Running(q), Evolves(q)
    PROVE  KnownFits(q)'
<1>1. seed'[q].known = seed[q].known /\ seed'[q].check = seed[q].check /\ Pending(q)' = Pending(q)
  BY SamePending DEF Evolves, Keeps
<1>2. seed[q].known \subseteq Ids /\ KnownFits(q)
  BY PendingFacts, SessionTypes DEF SessionFits
<1>3. \A i \in seed[q].known : /\ Old(i)'
                               /\ db'[i] # Null => db[i] # Null /\ SameRow(db[i], db'[i])
  BY <1>2 DEF KnownFits, Evolves, RowsEvolve
<1>4. QED
  BY <1>1, <1>2, <1>3 DEF KnownFits, SameRow

\* Good cases stay good, or an earlier one is, unless the seed must fail.
LEMMA GoodEvolves ==
    ASSUME Base, NEW q \in Seeders, Running(q), Evolves(q), ~Doomed(q)',
           NEW i \in seed[q].synced, NEW title \in Titles, HasQuestion(q, i, title),
           NEW k \in KeysOf(title), NEW y \in Good(q, i, k)
    PROVE  \E z \in Good(q, i, k)' : z <= y
<1>1. /\ y \in Ids /\ db[y] # Null /\ db[y].table = "case" /\ db[y].parent = i /\ db[y].key = k
      /\ db[y].value = "catalogue" \/ \E w \in Pending(q) : w.op = "update" /\ w.id = y
  BY DEF Good
<1>2. Pending(q)' = Pending(q) /\ seed'[q].unsent = seed[q].unsent /\ seed'[q].sent = seed[q].sent
  BY SamePending DEF Evolves, Keeps
<1>3. CASE db[y].value = "catalogue"
  <2>1. db[i] # Null
    BY <1>1, RowFacts DEF Base
  <2>2. db[i].key = title /\ db[i].key \in Titles
    BY <2>1, SyncedIds, OneTitle
  <2>3. PICK z \in Ids : /\ z <= y /\ db'[z] # Null /\ db'[z].table = "case"
                         /\ db'[z].parent = i /\ db'[z].key = k /\ db'[z].value = "catalogue"
    BY <1>1, <1>3, <2>2 DEF Evolves, LastingRows
  <2>4. z \in Good(q, i, k)'
    BY <2>3 DEF Good
  <2>5. QED
    BY <2>3, <2>4
<1>4. ASSUME NEW w \in Pending(q), w.op = "update", w.id = y
      PROVE  y \in Good(q, i, k)'
  <2>1. db'[y] # Null
    <3>1. CASE w \in seed[q].sent
      BY <1>1, <1>4, <3>1 DEF Evolves, Spares
    <3>2. CASE w \in seed[q].unsent
      BY <1>2, <1>4, <3>2 DEF Doomed
    <3>3. QED
      BY <3>1, <3>2 DEF Pending
  <2>2. SameRow(db[y], db'[y])
    BY <1>1, <2>1 DEF Evolves, RowsEvolve
  <2>3. QED
    BY <1>1, <1>2, <1>4, <2>1, <2>2 DEF Good, SameRow
<1>5. y <= y
  BY <1>1, IdFacts, SMT
<1>6. QED
  BY <1>1, <1>3, <1>4, <1>5

LEMMA DoomedEvolves ==
    ASSUME Base, NEW q \in Seeders, Running(q), Evolves(q), Doomed(q)
    PROVE  Doomed(q)'
<1>1. PICK w \in seed[q].unsent : w.op = "update" /\ db[w.id] = Null
  BY DEF Doomed
<1>2. db'[w.id] = Null /\ w \in seed'[q].unsent
  BY <1>1, PendingFacts DEF Evolves, Spares, Keeps
<1>3. QED
  BY <1>1, <1>2 DEF Doomed

LEMMA CasesEvolve ==
    ASSUME Base, NEW q \in Seeders, Running(q), Evolves(q), TypeOK'
    PROVE  CasesFit(q)'
<1> SUFFICES ASSUME ~Doomed(q)'
             PROVE  DeletesCovered(q)' /\ KeysCovered(q)' /\ (adds' = 0 => NoOthers(q)')
  BY DEF CasesFit
<1> DEFINE s == seed[q]
<1>1. Pending(q)' = Pending(q) /\ seed'[q].synced = s.synced
  BY SamePending DEF Evolves, Keeps
<1>2. DeletesCovered(q) /\ KeysCovered(q) /\ (adds = 0 => NoOthers(q))
  BY DoomedEvolves, PendingFacts DEF SessionFits, CasesFit
<1>3. \A y \in Ids : db[y] # Null /\ db'[y] # Null => SameRow(db[y], db'[y])
  BY DEF Evolves, RowsEvolve
<1>4. DeletesCovered(q)'
  <2> SUFFICES ASSUME NEW w \in Pending(q), w.op = "delete", db'[w.id] # Null, db'[w.id].table = "case",
                      NEW i, i = db'[w.id].parent, NEW k, k = db'[w.id].key, k \in KeysOf(db'[i].key)
               PROVE  \E y \in Good(q, i, k)' : y < w.id
    BY <1>1 DEF DeletesCovered
  <2>1. w.id \in Ids /\ WriteFits(q, w)
    BY PendingFacts
  <2>2. db[w.id] # Null /\ SameRow(db[w.id], db'[w.id])
    BY <1>3, <2>1 DEF Evolves, Spares
  <2>3. db[w.id].table = "case" /\ db[w.id].parent = i /\ db[w.id].key = k
    BY <2>2 DEF SameRow
  <2>4. i \in s.synced
    BY <2>1, <2>2, <2>3 DEF WriteFits
  <2>5. i \in Ids /\ db[i] # Null
    BY <2>1, <2>2, <2>3, RowFacts DEF Base
  <2>6. HasQuestion(q, i, db[i].key) /\ db[i].key \in Titles /\ db[i].table = "question"
    BY <2>4, <2>5, SyncedIds
  <2>7. db'[i] # Null /\ SameRow(db[i], db'[i])
    BY <1>3, <2>5, <2>6 DEF Evolves, LastingRows
  <2>8. k \in KeysOf(db[i].key)
    BY <2>7 DEF SameRow
  <2>9. PICK y \in Good(q, i, k) : y < w.id
    BY <1>2, <2>2, <2>3, <2>8 DEF DeletesCovered
  <2>10. PICK z \in Good(q, i, k)' : z <= y
    BY <2>4, <2>6, <2>8, GoodEvolves
  <2>11. y \in Nat /\ z \in Nat /\ w.id \in Nat
    BY <2>1, IdFacts DEF Good
  <2>12. z < w.id
    BY <2>9, <2>10, <2>11, SMT
  <2>13. QED
    BY <2>12
<1>5. KeysCovered(q)'
  <2> SUFFICES ASSUME NEW i \in s.synced, NEW title \in Titles, HasQuestion(q, i, title)',
                      NEW k \in KeysOf(title)
               PROVE  \/ Good(q, i, k)' # {}
                      \/ \E w \in Pending(q) : /\ w.op = "insert" /\ w.row.table = "case"
                                               /\ w.row.parent = i /\ w.row.key = k
    BY <1>1 DEF KeysCovered
  <2>1. HasQuestion(q, i, title)
    BY QuestionWas
  <2>2. CASE Good(q, i, k) # {}
    <3>1. PICK y \in Good(q, i, k) : TRUE
      BY <2>2
    <3>2. \E z \in Good(q, i, k)' : z <= y
      BY <2>1, GoodEvolves
    <3>3. QED
      BY <3>2
  <2>3. QED
    BY <1>2, <2>1, <2>2 DEF KeysCovered
<1>6. ASSUME adds' = 0 PROVE NoOthers(q)'
  <2> SUFFICES ASSUME NEW y \in Ids, db'[y] # Null, db'[y].table = "case", NEW i, i = db'[y].parent,
                      NEW k, k = db'[y].key, i \in s.synced, ~\E w \in Pending(q) : w.op = "delete" /\ w.id = y
               PROVE  k \in KeysOf(db'[i].key) /\ y \in Good(q, i, k)'
    BY <1>1 DEF NoOthers
  <2>1. adds = 0 /\ NoOthers(q)
    BY <1>2, <1>6 DEF Evolves, RowsEvolve
  <2>2. CASE db[y] = Null
    <3>1. /\ db'[y].value = "catalogue"
          /\ k \in KeysOf(db'[i].key)
      BY <1>6, <2>2 DEF Evolves, LastingRows
    <3>2. QED
      BY <3>1 DEF Good
  <2>3. CASE db[y] # Null
    <3>1. db[y].table = "case" /\ db[y].parent = i /\ db[y].key = k
      BY <1>3, <2>3 DEF SameRow
    <3>2. /\ db[y].key \in KeysOf(db[db[y].parent].key)
          /\ y \in Good(q, db[y].parent, db[y].key)
      BY <2>1, <2>3, <3>1 DEF NoOthers
    <3>3. db[y].parent \in Ids /\ db[db[y].parent] # Null
      BY <2>3, <3>1, RowFacts DEF Base
    <3>4. db[db[y].parent].key \in Titles /\ db[db[y].parent].table = "question"
      BY <3>1, <3>3, SyncedIds
    <3>5. db'[db[y].parent] # Null
      BY <3>3, <3>4 DEF Evolves, LastingRows
    <3>6. db'[db[y].parent].key = db[db[y].parent].key
      BY <1>3, <3>3, <3>5 DEF SameRow
    <3>7. y \in Good(q, i, k)'
      <4>1. db[y].value = "catalogue" \/ \E w \in Pending(q) : w.op = "update" /\ w.id = y
        BY <3>2 DEF Good
      <4>2. db[y].value = "catalogue" => db'[y].value = "catalogue"
        BY <2>3, <3>1 DEF Evolves, RowsEvolve
      <4>3. QED
        BY <1>1, <4>1, <4>2 DEF Good
    <3>8. QED
      BY <3>1, <3>2, <3>6, <3>7
  <2>4. QED
    BY <2>2, <2>3
<1>7. QED
  BY <1>4, <1>5, <1>6

LEMMA SessionEvolves ==
    ASSUME Base, NEW q \in Seeders, Running(q), Evolves(q), TypeOK'
    PROVE  SessionFits(q)'
BY PlaceEvolves, WritesEvolve, KnownEvolves, CasesEvolve DEF SessionFits

-----------------------------------------------------------------------------
(* The rows after a commit *)

\* A seed that does not raise updates no row that is gone.
LEMMA NotDoomed ==
    ASSUME Base, NEW p \in Seeders, Running(p), ~Raising(p)
    PROVE  ~Doomed(p)
<1> SUFFICES ASSUME NEW w \in seed[p].unsent, w.op = "update", db[w.id] = Null
             PROVE  FALSE
  BY DEF Doomed
<1>1. w \in Pending(p) /\ w.id \in Ids /\ WriteFits(p, w)
  BY PendingFacts
<1>2. w \notin seed[p].sent
  BY <1>1 DEF WriteFits
<1>3. \A x \in seed[p].sent : x.id # w.id
  BY <1>1, <1>2, PendingFacts
<1>4. View(p)[w.id] = Null
  <2>1. CASE seed[p].sent = {}
    BY <2>1 DEF View
  <2>2. CASE seed[p].sent # {}
    <3>1. \A x, y \in seed[p].sent : x.id = y.id => x = y
      BY PendingFacts
    <3>2. Written(db, seed[p].sent)[w.id] = Null
      BY <1>1, <1>3, <3>1, WrittenRow
    <3>3. Apply(db, seed[p].sent)[w.id] = Null
      BY <1>1, <3>2, AppliedRow
    <3>4. QED
      BY <2>2, <3>3 DEF View
  <2>3. QED
    BY <2>1, <2>2
<1>5. Raises(p, w)
  BY <1>4 DEF Raises
<1>6. QED
  BY <1>5 DEF Raising

LEMMA WrittenFacts ==
    ASSUME Base, NEW p \in Seeders, Running(p), NEW i \in Ids
    PROVE  LET rows == Written(db, Pending(p)) IN
           /\ \A w \in Pending(p) : w.id = i => rows[i] = w.row
           /\ (\A w \in Pending(p) : w.id # i) => rows[i] = db[i]
           /\ rows[i] # Null => rows[i] \in Row
<1>1. \A w, x \in Pending(p) : w.id = x.id => w = x
  BY PendingFacts
<1>2. /\ \A w \in Pending(p) : w.id = i => Written(db, Pending(p))[i] = w.row
      /\ (\A w \in Pending(p) : w.id # i) => Written(db, Pending(p))[i] = db[i]
  BY <1>1, WrittenRow
<1>3. db[i] # Null => db[i] \in Row
  BY RowFacts DEF Base
<1>4. \A w \in Pending(p) : w.row # Null => w.row \in Row
  BY PendingFacts
<1>5. QED
  BY <1>2, <1>3, <1>4

\* What the session refers to is still there.
LEMMA ReferencesWritten ==
    ASSUME Base, NEW p \in Seeders, Running(p), NEW i \in Ids, NEW r \in RowsAt(p, i),
           r.table \in {"user", "test"} \/ (r.table = "question" /\ r.key \in Titles)
    PROVE  Written(db, Pending(p))[i] # Null /\ SameRow(r, Written(db, Pending(p))[i])
<1>1. ASSUME NEW w \in Pending(p), w.op = "insert", w.id = i, w.row = r
      PROVE  Written(db, Pending(p))[i] = r /\ r # Null
  BY <1>1, WrittenFacts, PendingFacts, IdFacts
<1>2. CASE r = db[i] /\ r # Null
  <2>1. ASSUME NEW w \in Pending(p), w.id = i
        PROVE  Written(db, Pending(p))[i] = w.row /\ w.row # Null /\ SameRow(r, w.row)
    <3>1. WriteFits(p, w) /\ w.op \in {"insert", "update", "delete"}
      BY PendingFacts
    <3>2. w.op # "insert"
      BY <1>2, <2>1, <3>1 DEF WriteFits
    <3>3. w.op # "delete"
      <4>1. r.table = "question" => r.key \notin Retired
        BY CatalogueFacts
      <4>2. QED
        BY <1>2, <2>1, <3>1, <4>1 DEF WriteFits
    <3>4. w.op = "update" /\ SameRow(r, w.row)
      BY <1>2, <2>1, <3>1, <3>2, <3>3 DEF WriteFits
    <3>5. w.row # Null
      BY <3>4, PendingFacts, IdFacts
    <3>6. QED
      BY <2>1, <3>4, <3>5, WrittenFacts
  <2>2. QED
    BY <1>2, <2>1, WrittenFacts DEF SameRow
<1>3. QED
  BY <1>1, <1>2, InRowsAt DEF SameRow

\* Every row that is written has its parent.
LEMMA WrittenHasParent ==
    ASSUME Base, NEW p \in Seeders, Running(p), NEW w \in Pending(p), w.op # "delete",
           w.row.table # "user"
    PROVE  /\ w.row.parent \in Ids
           /\ \E r \in RowsAt(p, w.row.parent) :
                 /\ r.table = ParentTable(w.row.table)
                 /\ r.table = "question" => r.key \in Titles
<1>1. PlaceFits(p) /\ seed[p] \in Session
  BY PendingFacts DEF SessionFits
<1>2. w.row.parent \in Ids /\ w.row.table \in {"user", "test", "question", "case"}
  BY ContentTypes
<1>3. CASE w.row.table = "test"
  <2>1. w.row.parent = seed[p].admin
    BY <1>3, ContentTypes
  <2>2. seed[p].admin # Null
    BY <1>2, <2>1, IdFacts
  <2>3. HasAdmin(p)
    BY <1>1, <2>2 DEF PlaceFits
  <2>4. QED
    BY <1>2, <1>3, <2>1, <2>3 DEF HasAdmin, ParentTable
<1>4. CASE w.row.table = "question"
  <2>1. w.row.parent = seed[p].test
    BY <1>4, ContentTypes
  <2>2. seed[p].test # Null
    BY <1>2, <2>1, IdFacts
  <2>3. HasTest(p)
    BY <1>1, <2>2 DEF PlaceFits
  <2>4. QED
    BY <1>2, <1>4, <2>1, <2>3 DEF HasTest, ParentTable
<1>5. CASE w.row.table = "case"
  <2>1. PICK t \in Titles : HasQuestion(p, w.row.parent, t)
    BY <1>5, ContentTypes
  <2>2. QED
    BY <1>2, <1>5, <2>1 DEF HasQuestion, ParentTable
<1>6. QED
  BY <1>2, <1>3, <1>4, <1>5

\* A row that is not written goes only with a retired question.
LEMMA OrphanFacts ==
    ASSUME Base, NEW p \in Seeders, Running(p), NEW i \in Ids, Orphan(Written(db, Pending(p)), i)
    PROVE  /\ \A w \in Pending(p) : w.id # i
           /\ db[i] # Null /\ db[i].table \in {"case", "submission"} /\ db[i].parent \in Ids
           /\ db[db[i].parent] # Null /\ db[db[i].parent].table = "question"
           /\ db[db[i].parent].key \in Retired
           /\ \E w \in Pending(p) : w.op = "delete" /\ w.id = db[i].parent
<1> DEFINE rows == Written(db, Pending(p))
           parent == rows[i].parent
<1>1. rows[i] # Null /\ parent \in Ids /\ rows[parent] = Null
  BY DEF Orphan
<1>2. ASSUME NEW w \in Pending(p), w.id = i PROVE FALSE
  <2>1. rows[i] = w.row
    BY <1>2, WrittenFacts
  <2>2. w.op # "delete"
    BY <1>1, <2>1, PendingFacts
  <2>3. w.row.table # "user"
    BY <1>1, <2>1, <2>2, ContentTypes, IdFacts
  <2>4. PICK j \in Ids : j = w.row.parent
    BY <2>2, <2>3, WrittenHasParent
  <2>5. PICK r \in RowsAt(p, j) : /\ r.table = ParentTable(w.row.table)
                                  /\ r.table = "question" => r.key \in Titles
    BY <2>2, <2>3, <2>4, WrittenHasParent
  <2>6. r.table \in {"user", "test", "question"}
    BY <2>5 DEF ParentTable
  <2>7. rows[j] # Null
    BY <2>5, <2>6, ReferencesWritten
  <2>8. QED
    BY <1>1, <2>1, <2>4, <2>7
<1>3. rows[i] = db[i]
  BY <1>2, WrittenFacts
<1>4. db[i].table # "user"
  BY <1>1, <1>3, RowFacts, IdFacts DEF Base
<1>5. /\ db[parent] # Null /\ db[parent].table = ParentTable(db[i].table)
      /\ db[i].table \in {"test", "question", "case", "submission"}
  BY <1>1, <1>3, <1>4, RowFacts DEF Base
<1>6. PICK w \in Pending(p) : w.id = parent
  BY <1>1, <1>5, WrittenFacts
<1>7. w.op = "delete"
  <2>1. rows[parent] = w.row
    BY <1>1, <1>6, WrittenFacts
  <2>2. w.row \notin Row
    BY <1>1, <2>1, IdFacts
  <2>3. QED
    BY <2>2, PendingFacts
<1>8. db[parent].table = "question" /\ db[parent].key \in Retired
  <2>1. db[parent].table \in {"user", "test", "question"}
    BY <1>5 DEF ParentTable
  <2>2. WriteFits(p, w)
    BY PendingFacts
  <2>3. QED
    BY <1>5, <1>6, <1>7, <2>1, <2>2 DEF WriteFits
<1>9. db[i].table \in {"case", "submission"}
  BY <1>5, <1>8 DEF ParentTable
<1>10. QED
  BY <1>1, <1>2, <1>3, <1>5, <1>6, <1>7, <1>8, <1>9

Commits(p) == db' = Apply(db, Pending(p))

LEMMA CommittedRow ==
    ASSUME Base, NEW p \in Seeders, Running(p), Commits(p), NEW i \in Ids
    PROVE  /\ \A w \in Pending(p) : w.id = i => db'[i] = w.row
           /\ (\A w \in Pending(p) : w.id # i) =>
                 \/ db'[i] = db[i]
                 \/ db'[i] = Null /\ Orphan(Written(db, Pending(p)), i)
           /\ ~Orphan(Written(db, Pending(p)), i) => db'[i] = Written(db, Pending(p))[i]
           /\ db'[i] # Null => db'[i] \in Row
<1>1. db'[i] = IF Orphan(Written(db, Pending(p)), i) THEN Null ELSE Written(db, Pending(p))[i]
  BY AppliedRow DEF Commits
<1>2. QED
  BY <1>1, WrittenFacts, OrphanFacts

\* What the session refers to is there, and every row has its parent.
LEMMA CommittedReferences ==
    ASSUME Base, NEW p \in Seeders, Running(p), Commits(p), NEW i \in Ids, NEW r \in RowsAt(p, i),
           r.table \in {"user", "test"} \/ (r.table = "question" /\ r.key \in Titles)
    PROVE  db'[i] # Null /\ SameRow(r, db'[i])
<1>1. Written(db, Pending(p))[i] # Null /\ SameRow(r, Written(db, Pending(p))[i])
  BY ReferencesWritten
<1>2. ~Orphan(Written(db, Pending(p)), i)
  <2> SUFFICES ASSUME Orphan(Written(db, Pending(p)), i) PROVE FALSE
    OBVIOUS
  <2>1. Written(db, Pending(p))[i] = db[i] /\ db[i].table \in {"case", "submission"}
    BY OrphanFacts, WrittenFacts
  <2>2. QED
    BY <1>1, <2>1 DEF SameRow
<1>3. QED
  BY <1>1, <1>2, CommittedRow

LEMMA CommittedSame ==
    ASSUME Base, NEW p \in Seeders, Running(p), Commits(p), NEW i \in Ids, db[i] # Null, db'[i] # Null
    PROVE  /\ SameRow(db[i], db'[i])
           /\ db'[i] # db[i] => db'[i].value = "catalogue"
<1>1. CASE \A w \in Pending(p) : w.id # i
  BY <1>1, CommittedRow DEF SameRow
<1>2. ASSUME NEW w \in Pending(p), w.id = i
      PROVE  SameRow(db[i], db'[i]) /\ db'[i].value = "catalogue"
  <2>1. db'[i] = w.row /\ WriteFits(p, w) /\ w.op \in {"insert", "update", "delete"}
    BY <1>2, CommittedRow, PendingFacts
  <2>2. w.op # "insert"
    BY <1>2, <2>1 DEF WriteFits
  <2>3. w.op # "delete"
    BY <2>1, PendingFacts
  <2>4. QED
    BY <1>2, <2>1, <2>2, <2>3, ContentTypes DEF WriteFits
<1>3. QED
  BY <1>1, <1>2

LEMMA CommittedNew ==
    ASSUME Base, NEW p \in Seeders, Running(p), Commits(p), ~Doomed(p),
           NEW i \in Ids, db[i] = Null, db'[i] # Null
    PROVE  \E w \in Pending(p) : w.op = "insert" /\ w.id = i /\ db'[i] = w.row
<1>1. \E w \in Pending(p) : w.id = i
  BY CommittedRow
<1>2. PICK w \in Pending(p) : w.id = i /\ db'[i] = w.row
  BY <1>1, CommittedRow
<1>3. w.op # "delete"
  BY <1>2, PendingFacts
<1>4. w.op # "update"
  <2> SUFFICES ASSUME w.op = "update" PROVE FALSE
    OBVIOUS
  <2>1. w \in seed[p].unsent
    BY <1>2, PendingFacts DEF WriteFits, Pending
  <2>2. QED
    BY <1>2, <2>1 DEF Doomed
<1>5. QED
  BY <1>2, <1>3, <1>4, PendingFacts

\* A row goes only if it is deleted or its question is retired.
LEMMA CommittedGone ==
    ASSUME Base, NEW p \in Seeders, Running(p), Commits(p), NEW i \in Ids, db[i] # Null, db'[i] = Null
    PROVE  \/ \E w \in Pending(p) :
                 /\ w.op = "delete" /\ w.id = i
                 /\ \/ db[i].table = "question" /\ db[i].key \in Retired
                    \/ db[i].table = "case" /\ db[i].parent \in seed[p].synced
           \/ Orphan(Written(db, Pending(p)), i)
<1>1. CASE \A w \in Pending(p) : w.id # i
  BY <1>1, CommittedRow
<1>2. ASSUME NEW w \in Pending(p), w.id = i
      PROVE  /\ w.op = "delete"
             /\ \/ db[i].table = "question" /\ db[i].key \in Retired
                \/ db[i].table = "case" /\ db[i].parent \in seed[p].synced
  <2>1. w.row = Null /\ WriteFits(p, w)
    BY <1>2, CommittedRow, PendingFacts
  <2>2. w.op = "delete"
    BY <2>1, PendingFacts, IdFacts
  <2>3. QED
    BY <1>2, <2>1, <2>2 DEF WriteFits
<1>3. QED
  BY <1>1, <1>2

LEMMA CommittedFits ==
    ASSUME Base, NEW p \in Seeders, Running(p), Commits(p), NEW i \in Ids, db'[i] # Null
    PROVE  db'[i].table # "user" =>
              /\ db'[i].parent \in Ids /\ db'[db'[i].parent] # Null
              /\ db'[db'[i].parent].table = ParentTable(db'[i].table)
<1> SUFFICES ASSUME db'[i].table # "user"
             PROVE  /\ db'[i].parent \in Ids /\ db'[db'[i].parent] # Null
                    /\ db'[db'[i].parent].table = ParentTable(db'[i].table)
  OBVIOUS
<1>1. CASE \A w \in Pending(p) : w.id # i
  <2>1. db'[i] = db[i] /\ ~Orphan(Written(db, Pending(p)), i)
    <3>1. Orphan(Written(db, Pending(p)), i) => db'[i] = Null
      BY AppliedRow DEF Commits
    <3>2. QED
      BY <1>1, <3>1, CommittedRow
  <2>2. PICK j \in Ids : /\ j = db[i].parent /\ db[j] # Null
                         /\ db[j].table = ParentTable(db[i].table)
    BY <2>1, RowFacts DEF Base
  <2>3. Written(db, Pending(p))[i] = db[i]
    BY <1>1, WrittenFacts
  <2>4. Written(db, Pending(p))[j] # Null
    BY <2>1, <2>2, <2>3 DEF Orphan
  <2>5. db[j].table \in {"user", "test", "question"}
    BY <2>2 DEF ParentTable
  <2>6. ~Orphan(Written(db, Pending(p)), j)
    BY <2>5, OrphanFacts
  <2>7. db'[j] # Null
    BY <2>4, <2>6, CommittedRow
  <2>8. SameRow(db[j], db'[j])
    BY <2>2, <2>7, CommittedSame
  <2>9. QED
    BY <2>1, <2>2, <2>7, <2>8 DEF SameRow
<1>2. ASSUME NEW w \in Pending(p), w.id = i
      PROVE  /\ db'[i].parent \in Ids /\ db'[db'[i].parent] # Null
             /\ db'[db'[i].parent].table = ParentTable(db'[i].table)
  <2>1. db'[i] = w.row /\ w.op # "delete"
    BY <1>2, CommittedRow, PendingFacts
  <2>2. PICK j \in Ids : j = w.row.parent
    BY <2>1, WrittenHasParent
  <2>3. PICK r \in RowsAt(p, j) : /\ r.table = ParentTable(w.row.table)
                                  /\ r.table = "question" => r.key \in Titles
    BY <2>1, <2>2, WrittenHasParent
  <2>4. r.table \in {"user", "test", "question"}
    BY <2>3 DEF ParentTable
  <2>5. db'[j] # Null /\ SameRow(r, db'[j])
    BY <2>3, <2>4, CommittedReferences
  <2>6. QED
    BY <2>1, <2>2, <2>3, <2>5 DEF SameRow
<1>3. QED
  BY <1>1, <1>2

\* The first good case of a catalogue question survives, with the output.
LEMMA FirstGoodStays ==
    ASSUME Base, NEW p \in Seeders, Running(p), Commits(p), ~Doomed(p),
           NEW q \in Ids, NEW k, db[q] # Null, db[q].key \in Titles, k \in KeysOf(db[q].key),
           NEW y \in Good(p, q, k)
    PROVE  \E z \in Ids : /\ z <= y /\ db'[z] # Null /\ db'[z].table = "case"
                          /\ db'[z].parent = q /\ db'[z].key = k /\ db'[z].value = "catalogue"
<1>1. Good(p, q, k) \subseteq Nat /\ Good(p, q, k) # {}
  BY IdFacts DEF Good
<1>2. PICK z \in Good(p, q, k) : \A n \in Good(p, q, k) : z <= n
  BY <1>1, LeastOf
<1>3. /\ z \in Ids /\ db[z] # Null /\ db[z].table = "case" /\ db[z].parent = q /\ db[z].key = k
      /\ db[z].value = "catalogue" \/ \E w \in Pending(p) : w.op = "update" /\ w.id = z
  BY DEF Good
<1>4. db'[z] # Null
  <2> SUFFICES ASSUME db'[z] = Null PROVE FALSE
    OBVIOUS
  <2>1. ~Orphan(Written(db, Pending(p)), z)
    BY <1>3, OrphanFacts, CatalogueFacts
  <2>2. PICK w \in Pending(p) : w.op = "delete" /\ w.id = z
    BY <1>3, <2>1, CommittedGone
  <2>3. DeletesCovered(p)
    BY PendingFacts DEF SessionFits, CasesFit
  <2>4. PICK n \in Good(p, q, k) : n < z
    BY <1>3, <2>2, <2>3 DEF DeletesCovered
  <2>5. z <= n /\ n \in Nat /\ z \in Nat
    BY <1>1, <1>2
  <2>6. QED
    BY <2>4, <2>5, SMT
<1>5. SameRow(db[z], db'[z])
  BY <1>3, <1>4, CommittedSame
<1>6. db'[z].value = "catalogue"
  <2>1. CASE db[z].value = "catalogue"
    BY <1>3, <1>4, <2>1, CommittedSame
  <2>2. ASSUME NEW w \in Pending(p), w.op = "update", w.id = z
        PROVE  db'[z].value = "catalogue"
    BY <1>3, <2>2, CommittedRow, ContentTypes
  <2>3. QED
    BY <1>3, <2>1, <2>2
<1>7. z <= y
  BY <1>2
<1>8. QED
  BY <1>3, <1>4, <1>5, <1>6, <1>7 DEF SameRow

LEMMA OldStays ==
    ASSUME TypeOK, given <= given', given' \in Nat,
           \A p \in Seeders : Running(p)' => \A w \in Pending(p)' : w.op = "insert" =>
               w.id \notin 1..given \/ (Running(p) /\ w \in Pending(p)),
           NEW CONSTANT i, Old(i)
    PROVE  Old(i)'
<1>1. i \in 1..given /\ \A p \in Seeders : Running(p) => ~Inserts(p, i)
  BY DEF Old
<1>2. i \in 1..given'
  <2>1. given \in 0..MaxId /\ MaxId \in Nat
    BY IdFacts DEF TypeOK
  <2>2. QED
    BY <1>1, <2>1, SMT
<1>3. ASSUME NEW p \in Seeders, Running(p)', NEW w \in Pending(p)', w.op = "insert", w.id = i
      PROVE  FALSE
  BY <1>1, <1>3 DEF Inserts
<1>4. QED
  BY <1>2, <1>3 DEF Old, Inserts

LEMMA KeepingOld ==
    ASSUME TypeOK, given <= given', given' \in Nat,
           \A p \in Seeders : ~Running(p)' \/ Keeps(p)
    PROVE  \A i \in Ids : Old(i) => Old(i)'
<1>1. ASSUME NEW p \in Seeders, Running(p)', NEW w \in Pending(p)'
      PROVE  Running(p) /\ w \in Pending(p)
  BY <1>1, SamePending DEF Keeps
<1>2. \A i \in Ids : Old(i) => Old(i)'
  BY <1>1, OldStays
<1>3. QED
  BY <1>2

LEMMA CommitEvolvesRows ==
    ASSUME Base, NEW r \in Seeders, Running(r), Commits(r), ~Doomed(r), EndSeed(r),
           given' = given, adds' = adds
    PROVE  RowsEvolve /\ LastingRows
<1>1. given <= given' /\ given' \in Nat
  <2>1. given \in 0..MaxId /\ MaxId \in Nat
    BY IdFacts DEF Base, TypeOK
  <2>2. QED
    BY <2>1, SMT
<1>2. \A p \in Seeders : ~Running(p)' \/ Keeps(p)
  BY EndStep DEF Base
<1>3. \A i \in Ids : Old(i) => Old(i)'
  BY <1>1, <1>2, KeepingOld DEF Base
<1>4. \A i \in Ids : Old(i) /\ db[i] = Null => db'[i] = Null
  <2> SUFFICES ASSUME NEW i \in Ids, Old(i), db[i] = Null, db'[i] # Null PROVE FALSE
    OBVIOUS
  <2>1. \E w \in Pending(r) : w.op = "insert" /\ w.id = i
    BY CommittedNew
  <2>2. QED
    BY <2>1 DEF Old, Inserts
<1>5. \A i \in Ids : db[i] # Null /\ db'[i] # Null =>
         /\ SameRow(db[i], db'[i])
         /\ db[i].table = "case" /\ db[i].value = "catalogue" => db'[i].value = "catalogue"
  BY CommittedSame
<1>6. \A i \in Ids : db[i] # Null /\ db[i].table \in {"user", "test"} => db'[i] # Null
  BY CommittedGone, OrphanFacts
<1>7. \A i \in Ids : db[i] # Null /\ db[i].table = "question" /\ db[i].key \in Titles => db'[i] # Null
  <2>1. \A t \in Titles : t \notin Retired
    BY CatalogueFacts
  <2>2. QED
    BY <2>1, CommittedGone, OrphanFacts
<1>8. ASSUME NEW y \in Ids, db[y] # Null, db[y].table = "case", db[y].value = "catalogue",
             db[db[y].parent].key \in Titles, db[y].key \in KeysOf(db[db[y].parent].key)
      PROVE  \E z \in Ids : /\ z <= y /\ db'[z] # Null /\ db'[z].table = "case"
                            /\ db'[z].parent = db[y].parent /\ db'[z].key = db[y].key
                            /\ db'[z].value = "catalogue"
  <2>1. db[y].parent \in Ids /\ db[db[y].parent] # Null
    BY <1>8, RowFacts DEF Base
  <2>2. y \in Good(r, db[y].parent, db[y].key)
    BY <1>8 DEF Good
  <2>3. QED
    BY <1>8, <2>1, <2>2, FirstGoodStays
<1>9. ASSUME NEW y \in Ids, db[y] = Null, db'[y] # Null, db'[y].table = "case"
      PROVE  /\ db'[y].value = "catalogue"
             /\ db'[y].key \in KeysOf(db'[db'[y].parent].key)
  <2>1. PICK w \in Pending(r) : w.op = "insert" /\ w.id = y /\ db'[y] = w.row
    BY <1>9, CommittedNew
  <2>2. w.row.value = "catalogue" /\ w.row.parent \in Ids
    BY <1>9, <2>1, ContentTypes
  <2>3. PICK t \in Titles : HasQuestion(r, w.row.parent, t) /\ w.row.key \in KeysOf(t)
    BY <1>9, <2>1, ContentTypes
  <2>4. PICK x \in RowsAt(r, w.row.parent) : x.table = "question" /\ x.key = t
    BY <2>3 DEF HasQuestion
  <2>5. SameRow(x, db'[w.row.parent])
    BY <2>2, <2>4, CommittedReferences
  <2>6. QED
    BY <2>1, <2>2, <2>3, <2>4, <2>5 DEF SameRow
<1>10. RowsEvolve
  BY <1>1, <1>3, <1>4, <1>5 DEF RowsEvolve
<1>11. LastingRows
  BY <1>6, <1>7, <1>8, <1>9 DEF LastingRows
<1>12. QED
  BY <1>10, <1>11

LEMMA CommitSpares ==
    ASSUME Base, NEW r \in Seeders, Running(r), Commits(r), ~Doomed(r), Unblocked(r),
           NEW q \in Seeders, q # r, Running(q)
    PROVE  Spares(q)
<1>1. Apart(r, q)
  BY DEF Base, SessionsInv
<1>2. ASSUME NEW w \in Pending(q), db[w.id] = Null, db'[w.id] # Null
      PROVE  FALSE
  <2>1. PICK x \in Pending(r) : x.op = "insert" /\ x.id = w.id
    BY <1>2, PendingFacts, CommittedNew
  <2>2. QED
    BY <1>1, <2>1 DEF Apart
<1>3. ASSUME NEW w \in seed[q].sent, w.op = "update", db[w.id] # Null, db'[w.id] = Null
      PROVE  FALSE
  <2>1. w \in Pending(q) /\ w.id \in Ids /\ WriteFits(q, w) /\ w.op # "delete"
    BY <1>3, PendingFacts
  <2>2. SameRow(db[w.id], w.row)
    BY <1>3, <2>1 DEF WriteFits
  <2>3. ~Orphan(Written(db, Pending(r)), w.id)
    <3> SUFFICES ASSUME Orphan(Written(db, Pending(r)), w.id) PROVE FALSE
      OBVIOUS
    <3>1. /\ db[w.id].table \in {"case", "submission"} /\ db[w.id].parent \in Ids
          /\ db[db[w.id].parent] # Null /\ db[db[w.id].parent].key \in Retired
      BY <2>1, OrphanFacts
    <3>2. w.row.table = "case" /\ w.row.parent = db[w.id].parent
      BY <2>1, <2>2, <3>1, ContentTypes DEF SameRow
    <3>3. w.row.parent \in seed[q].synced
      BY <2>1, <3>2, ContentTypes
    <3>4. db[w.row.parent].key \in Titles
      BY <3>1, <3>2, <3>3, SyncedIds
    <3>5. QED
      BY <3>1, <3>2, <3>4, CatalogueFacts
  <2>4. PICK x \in Pending(r) : x.op = "delete" /\ x.id = w.id
    BY <1>3, <2>1, <2>3, CommittedGone
  <2>5. CASE x \in seed[r].sent
    BY <1>1, <1>3, <2>4, <2>5 DEF Apart
  <2>6. CASE x \in seed[r].unsent
    <3>1. w.id \in Locked(q)
      BY <1>3, <2>1 DEF Locked
    <3>2. Blocks(q, x)
      BY <2>4, <3>1 DEF Blocks
    <3>3. QED
      BY <2>6, <3>2 DEF Unblocked
  <2>7. QED
    BY <2>5, <2>6 DEF Pending
<1>4. QED
  BY <1>2, <1>3 DEF Spares

LEMMA CommitEvolves ==
    ASSUME Base, NEW r \in Seeders, Running(r), Commits(r), ~Doomed(r), Unblocked(r), EndSeed(r),
           given' = given, adds' = adds, NEW q \in Seeders, q # r, Running(q)
    PROVE  Evolves(q)
<1>1. Keeps(q)
  BY EndStep DEF Base
<1>2. QED
  BY <1>1, CommitEvolvesRows, CommitSpares DEF Evolves

CasesStay == \A q \in Ids : db[q] # Null /\ db'[q] # Null /\ HasCases(q) => HasCases(q)'

LEMMA HasCasesNext ==
    ASSUME NEW CONSTANT q, NEW CONSTANT y \in Ids, db'[y] # Null, db'[y].table = "case", db'[y].parent = q
    PROVE  HasCases(q)'
BY DEF HasCases, Children

\* A seed leaves a question that it deals with at least one case.
LEMMA SyncedHasCases ==
    ASSUME Base, NEW p \in Seeders, Running(p), Commits(p), ~Doomed(p), NEW q \in seed[p].synced,
           NEW title \in Titles, HasQuestion(p, q, title), NEW k \in KeysOf(title)
    PROVE  \E y \in Ids : /\ db'[y] # Null /\ db'[y].table = "case" /\ db'[y].parent = q
                          /\ db'[y].key = k /\ db'[y].value = "catalogue"
<1>1. KeysCovered(p)
  BY PendingFacts DEF SessionFits, CasesFit
<1>2. CASE Good(p, q, k) # {}
  <2>1. PICK y \in Good(p, q, k) : TRUE
    BY <1>2
  <2>2. q \in Ids /\ db[q] # Null
    <3>1. y \in Ids /\ db[y] # Null /\ db[y].table = "case" /\ db[y].parent = q
      BY <2>1 DEF Good
    <3>2. QED
      BY <3>1, RowFacts DEF Base
  <2>3. db[q].key = title
    BY <2>2, SyncedIds, OneTitle
  <2>4. PICK z \in Ids : /\ db'[z] # Null /\ db'[z].table = "case"
                         /\ db'[z].parent = q /\ db'[z].key = k /\ db'[z].value = "catalogue"
    BY <2>1, <2>2, <2>3, FirstGoodStays
  <2>5. QED
    BY <2>4
<1>3. ASSUME NEW w \in Pending(p), w.op = "insert", w.row.table = "case",
             w.row.parent = q, w.row.key = k
      PROVE  \E y \in Ids : /\ db'[y] # Null /\ db'[y].table = "case" /\ db'[y].parent = q
                            /\ db'[y].key = k /\ db'[y].value = "catalogue"
  <2>1. w.id \in Ids /\ db'[w.id] = w.row
    BY PendingFacts, CommittedRow
  <2>2. w.row # Null /\ w.row.value = "catalogue"
    BY <1>3, ContentTypes, IdFacts
  <2>3. QED
    BY <1>3, <2>1, <2>2
<1>4. QED
  BY <1>1, <1>2, <1>3 DEF KeysCovered

LEMMA CommitCasesStay ==
    ASSUME Base, NEW p \in Seeders, Running(p), Commits(p), ~Doomed(p)
    PROVE  CasesStay
<1> SUFFICES ASSUME NEW CONSTANT q \in Ids, db[q] # Null, db'[q] # Null, HasCases(q)
             PROVE  HasCases(q)'
  BY DEF CasesStay
<1>1. PICK c \in Ids : db[c] # Null /\ db[c].table = "case" /\ db[c].parent = q
  BY DEF HasCases, Children
<1>2. CASE q \in seed[p].synced
  <2>1. PICK title \in Titles : HasQuestion(p, q, title)
    BY <1>2, SyncedIds
  <2>2. PICK k \in KeysOf(title) : TRUE
    BY CatalogueFacts
  <2>3. PICK y \in Ids : db'[y] # Null /\ db'[y].table = "case" /\ db'[y].parent = q
    BY <1>2, <2>1, <2>2, SyncedHasCases
  <2>4. QED
    BY <2>3, HasCasesNext
<1>3. CASE q \notin seed[p].synced
  <2>1. db'[c] # Null
    <3> SUFFICES ASSUME db'[c] = Null PROVE FALSE
      OBVIOUS
    <3>1. Orphan(Written(db, Pending(p)), c)
      BY <1>1, <1>3, CommittedGone
    <3>2. PICK w \in Pending(p) : w.op = "delete" /\ w.id = q
      BY <1>1, <3>1, OrphanFacts
    <3>3. db'[q] = Null
      BY <3>2, CommittedRow, PendingFacts
    <3>4. QED
      BY <3>3
  <2>2. SameRow(db[c], db'[c])
    BY <1>1, <2>1, CommittedSame
  <2>3. QED
    BY <1>1, <2>1, <2>2, HasCasesNext DEF SameRow
<1>4. QED
  BY <1>2, <1>3

LEMMA StudentEvolves ==
    ASSUME TypeOK, StudentFits, RowsEvolve, CasesStay, student' = student
    PROVE  StudentFits'
<1> SUFFICES ASSUME student # Idle
             PROVE  /\ Old(student.question)'
                    /\ db'[student.question] # Null =>
                          db'[student.question].table = "question" /\ HasCases(student.question)'
  BY DEF StudentFits
<1>1. PICK q \in Ids : q = student.question
  BY SMT DEF TypeOK
<1>2. Old(q) /\ (db[q] # Null => db[q].table = "question" /\ HasCases(q))
  BY <1>1 DEF StudentFits
<1>3. Old(q)' /\ (db'[q] # Null => db'[q].table = "question" /\ HasCases(q)')
  BY <1>2 DEF RowsEvolve, CasesStay, SameRow
<1>4. Old(q)' => Old(student.question)'
  BY <1>1 DEF Old, Inserts
<1>5. HasCases(q)' => HasCases(student.question)'
  BY <1>1 DEF HasCases, Children
<1>6. QED
  BY <1>1, <1>3, <1>4, <1>5

LEMMA WorkerEvolves ==
    ASSUME TypeOK, WorkerFits, RowsEvolve, worker' = worker
    PROVE  WorkerFits'
<1> SUFFICES ASSUME worker # Idle
             PROVE  /\ Old(worker.job)'
                    /\ worker.pc = "store" /\ worker.verdict = "vacuous" => db'[worker.job] = Null
                    /\ db'[worker.job] # Null => /\ db'[worker.job].table = "submission"
                                                 /\ db'[worker.job].parent = worker.question
  BY DEF WorkerFits
<1>1. PICK i \in Ids : i = worker.job
  BY SMT DEF TypeOK
<1>2. /\ Old(i) /\ (worker.pc = "store" /\ worker.verdict = "vacuous" => db[i] = Null)
      /\ db[i] # Null => db[i].table = "submission" /\ db[i].parent = worker.question
  BY <1>1 DEF WorkerFits
<1>3. /\ Old(i)' /\ (worker.pc = "store" /\ worker.verdict = "vacuous" => db'[i] = Null)
      /\ db'[i] # Null => db'[i].table = "submission" /\ db'[i].parent = worker.question
  BY <1>2 DEF RowsEvolve, SameRow
<1>4. Old(i)' => Old(worker.job)'
  BY <1>1 DEF Old, Inserts
<1>5. QED
  BY <1>1, <1>3, <1>4

LEMMA AdminEvolves ==
    ASSUME TypeOK, AdminFits, RowsEvolve, admin' = admin, adds' \in Nat
    PROVE  AdminFits'
<1> SUFFICES ASSUME admin # Idle
             PROVE  /\ adds' > 0
                    /\ admin.row.table \in {"question", "case"} /\ admin.row.value = "other"
                    /\ Old(admin.row.parent)'
                    /\ db'[admin.row.parent] # Null =>
                          db'[admin.row.parent].table = ParentTable(admin.row.table)
  BY DEF AdminFits
<1>1. adds' > 0
  <2>1. adds > 0 /\ adds \in Nat /\ (adds' = 0 => adds = 0)
    BY DEF AdminFits, RowsEvolve, TypeOK
  <2>2. QED
    BY <2>1, SMT
<1>2. admin.row \in Row /\ admin.row.table \in {"question", "case"} /\ admin.row.value = "other"
  BY SMT DEF TypeOK, AdminFits
<1>3. PICK i \in Ids : i = admin.row.parent
  BY <1>2, RowTypes
<1>4. Old(i) /\ (db[i] # Null => db[i].table = ParentTable(admin.row.table))
  BY <1>3 DEF AdminFits
<1>5. Old(i)' /\ (db'[i] # Null => db'[i].table = ParentTable(admin.row.table))
  BY <1>4 DEF RowsEvolve, SameRow
<1>6. Old(i)' => Old(admin.row.parent)'
  BY <1>3 DEF Old, Inserts
<1>7. QED
  BY <1>1, <1>2, <1>3, <1>5, <1>6

LEMMA CommitTypes ==
    ASSUME Base, NEW r \in Seeders, Commit(r)
    PROVE  TypeOK'
<1>1. TypeOK /\ seed[r].pc = "commit" /\ Running(r)
  BY RunningSession DEF Base, Commit, SeedPCs
<1>2. Commits(r) /\ EndSeed(r)
  BY DEF Commits, Commit, Pending
<1>3. seed' \in [Seeders -> Session \cup {Idle}]
  BY <1>1, <1>2 DEF EndSeed, TypeOK
<1>4. db' \in [Ids -> Row \cup {Null}]
  <2>1. db' = [i \in Ids |-> db'[i]]
    BY <1>2 DEF Commits, Apply
  <2>2. \A i \in Ids : db'[i] \in Row \cup {Null}
    BY <1>1, <1>2, CommittedRow
  <2>3. QED
    BY <2>1, <2>2
<1>5. \A i \in Ids : Fits(db', i)
  BY <1>1, <1>2, CommittedFits DEF Fits
<1>6. /\ given' = given /\ student' = student /\ admin' = admin /\ worker' = worker
      /\ runs' = runs /\ adds' = adds /\ posts' = posts /\ faults' = faults
      /\ seeded' = TRUE /\ steady' = seed[r].alone /\ fresh' = fresh /\ overlap' = overlap
  BY DEF Commit, people, counts
<1>7. seed[r].alone \in BOOLEAN
  BY <1>1, RunningSession, SessionTypes
<1>8. {fresh', seeded', steady', overlap'} \subseteq BOOLEAN
  BY <1>1, <1>6, <1>7 DEF TypeOK
<1>9. QED
  BY <1>1, <1>3, <1>4, <1>5, <1>6, <1>8 DEF TypeOK

\* The catalogue is complete by the seed that commits.
LEMMA CommitCompletes ==
    ASSUME Base, NEW r \in Seeders, Running(r), seed[r].pc = "commit", Commits(r), ~Doomed(r),
           adds' = adds
    PROVE  CatalogueComplete'
<1> DEFINE s == seed[r]
<1>1. PlaceFits(r) /\ CasesFit(r) /\ s \in Session
  BY PendingFacts DEF SessionFits
<1>2. s.test \in Ids /\ HasTest(r) /\ s.nth > Len(Catalogue) /\ s.nth \in 1..(Len(Catalogue) + 1)
  BY <1>1, SessionTypes DEF PlaceFits, BeforeTest
<1>3. PICK t \in Ids : t = s.test
  BY <1>2
<1>4. db'[t] # Null /\ db'[t].table = "test"
  <2>1. PICK x \in RowsAt(r, t) : x.table = "test"
    BY <1>2, <1>3 DEF HasTest
  <2>2. QED
    BY <2>1, CommittedReferences DEF SameRow
<1>5. ASSUME NEW title \in Titles
      PROVE  \E q \in Children(db', "question", t) : db'[q].key = title /\ HasCatalogueCases(q, title)'
  <2>1. PICK n \in 1..Len(Catalogue) : title = Catalogue[n]
    BY CatalogueFacts
  <2>2. n \in 1..(s.nth - 1)
    BY <1>2, CatalogueFacts, SMT
  <2>3. PICK q \in s.synced : HasQuestion(r, q, title)
    BY <1>1, <2>1, <2>2 DEF PlaceFits
  <2>4. q \in Ids
    BY SyncedIds
  <2>5. PICK x \in RowsAt(r, q) : x.table = "question" /\ x.parent = t /\ x.key = title
    BY <1>3, <2>3 DEF HasQuestion
  <2>6. db'[q] # Null /\ db'[q].table = "question" /\ db'[q].parent = t /\ db'[q].key = title
    BY <2>4, <2>5, CommittedReferences DEF SameRow
  <2>7. ASSUME NEW k \in KeysOf(title)
        PROVE  \E i \in Children(db', "case", q) : db'[i].key = k /\ db'[i].value = "catalogue"
    BY <2>3, <2>7, SyncedHasCases DEF Children
  <2>8. ASSUME adds' = 0, NEW i \in Children(db', "case", q)
        PROVE  db'[i].key \in KeysOf(title) /\ db'[i].value = "catalogue"
    <3>1. i \in Ids /\ db'[i] # Null /\ db'[i].table = "case" /\ db'[i].parent = q
      BY <2>8 DEF Children
    <3>2. ASSUME NEW w \in Pending(r), w.id = i
          PROVE  db'[i].key \in KeysOf(title) /\ db'[i].value = "catalogue"
      <4>1. db'[i] = w.row /\ w.op # "delete"
        BY <3>1, <3>2, CommittedRow, PendingFacts
      <4>2. PICK u \in Titles : HasQuestion(r, q, u) /\ w.row.key \in KeysOf(u)
        BY <3>1, <4>1, ContentTypes
      <4>3. u = title
        BY <2>3, <4>2, OneTitle
      <4>4. QED
        BY <4>1, <4>2, <4>3, ContentTypes
    <3>3. CASE \A w \in Pending(r) : w.id # i
      <4>1. db'[i] = db[i]
        BY <3>1, <3>3, CommittedRow
      <4>2. NoOthers(r)
        BY <1>1, <2>8 DEF CasesFit
      <4>3. db[i].key \in KeysOf(db[q].key) /\ i \in Good(r, q, db[i].key)
        BY <3>1, <3>3, <4>1, <4>2 DEF NoOthers
      <4>4. db[i].value = "catalogue"
        BY <3>3, <4>3 DEF Good
      <4>5. db[q] # Null
        BY <3>1, <4>1, RowFacts DEF Base
      <4>6. db[q].key = title
        BY <2>3, <4>5, SyncedIds, OneTitle
      <4>7. QED
        BY <4>1, <4>3, <4>4, <4>6
    <3>4. QED
      BY <3>2, <3>3
  <2>9. HasCatalogueCases(q, title)'
    BY <2>7, <2>8 DEF HasCatalogueCases
  <2>10. QED
    BY <2>4, <2>6, <2>9 DEF Children
<1>6. QED
  BY <1>4, <1>5 DEF CatalogueComplete

LEMMA CommitRest ==
    ASSUME Base, QuestionsComeWithCases, JudgedOnCases, OthersInv, NEW r \in Seeders, Commit(r)
    PROVE  /\ DatabaseInv' /\ OthersInv' /\ CatalogueComplete' /\ QuestionsComeWithCases'
           /\ JudgedOnCases'
<1>1. /\ TypeOK /\ seed[r].pc = "commit" /\ Running(r)
      /\ given' = given /\ adds' = adds /\ student' = student /\ worker' = worker /\ admin' = admin
  BY RunningSession DEF Base, Commit, SeedPCs, people, counts
<1>2. Commits(r) /\ EndSeed(r) /\ ~Doomed(r)
  BY <1>1, NotDoomed DEF Commits, Commit, Pending
<1>3. RowsEvolve /\ LastingRows
  BY <1>1, <1>2, CommitEvolvesRows
<1>4. CasesStay
  BY <1>1, <1>2, CommitCasesStay
<1>5. OthersInv'
  <2>1. adds' \in Nat
    BY <1>1 DEF TypeOK
  <2>2. QED
    BY <1>1, <1>3, <1>4, <2>1, StudentEvolves, WorkerEvolves, AdminEvolves DEF OthersInv
<1>6. ASSUME NEW i \in Ids, db'[i] # Null, db[i] = Null
      PROVE  \E w \in Pending(r) : w.op = "insert" /\ w.id = i /\ db'[i] = w.row /\ w.id <= given
  <2>1. PICK w \in Pending(r) : w.op = "insert" /\ w.id = i /\ db'[i] = w.row
    BY <1>1, <1>2, <1>6, CommittedNew
  <2>2. w.id <= given
    BY <1>1, <2>1, PendingFacts DEF WriteFits
  <2>3. QED
    BY <2>1, <2>2
<1>7. ASSUME NEW i \in Ids, db'[i] # Null
      PROVE  /\ i <= given'
             /\ db'[i].value # "vacuous"
             /\ db'[i].table = "submission" => db[i] # Null
  <2>1. CASE db[i] = Null
    <3>1. PICK w \in Pending(r) : w.op = "insert" /\ w.id = i /\ db'[i] = w.row /\ w.id <= given
      BY <1>6, <1>7, <2>1
    <3>2. QED
      BY <1>1, <3>1, ContentTypes
  <2>2. CASE db[i] # Null
    <3>1. i <= given /\ db[i].value # "vacuous"
      BY <2>2 DEF Base, DatabaseInv, JudgedOnCases
    <3>2. db'[i] # db[i] => db'[i].value = "catalogue"
      BY <1>1, <1>2, <1>7, <2>2, CommittedSame
    <3>3. QED
      BY <1>1, <2>2, <3>1, <3>2
  <2>3. QED
    BY <2>1, <2>2
<1>8. DatabaseInv'
  <2>1. db[OtherAdmin] # Null /\ db[OtherAdmin].table = "user" /\ db[OtherAdmin].key = "other" /\ OtherAdmin \in Ids
    BY BoundsAssumption DEF Base, DatabaseInv
  <2>2. db'[OtherAdmin] # Null /\ db'[OtherAdmin].table = "user" /\ db'[OtherAdmin].key = "other"
    BY <1>3, <2>1 DEF LastingRows, RowsEvolve, SameRow
  <2>3. ASSUME NEW CONSTANT i \in Ids, db'[i] # Null, db'[i].table = "submission"
        PROVE  HasCases(db[i].parent)'
    <3>1. db[i] # Null
      BY <1>7, <2>3
    <3>2. db[i].table = "submission" /\ db[i].parent = db'[i].parent
      BY <1>3, <2>3, <3>1 DEF RowsEvolve, SameRow
    <3>3. PICK q \in Ids : q = db[i].parent /\ db[q] # Null
      BY <1>1, <3>1, <3>2, RowFacts
    <3>4. HasCases(q)
      BY <3>1, <3>2, <3>3 DEF Base, DatabaseInv
    <3>5. db'[q] # Null
      BY <1>1, <1>2, <2>3, <3>2, <3>3, CommittedFits
    <3>6. HasCases(q)'
      BY <1>4, <3>3, <3>4, <3>5 DEF CasesStay
    <3>7. QED
      BY <2>3, <3>2, <3>3, <3>6 DEF HasCases, Children
  <2>4. QED
    BY <1>7, <2>2, <2>3 DEF DatabaseInv
<1>9. CatalogueComplete'
  BY <1>1, <1>2, CommitCompletes
<1>10. QuestionsComeWithCases'
  <2> SUFFICES ASSUME adds' = 0, NEW CONSTANT q \in Ids, db'[q] # Null, db'[q].table = "question"
               PROVE  HasCases(q)'
    BY DEF QuestionsComeWithCases, HasCases
  <2>1. CASE db[q] # Null
    <3>1. db[q].table = "question"
      BY <1>3, <2>1 DEF RowsEvolve, SameRow
    <3>2. HasCases(q)
      BY <1>1, <2>1, <3>1 DEF QuestionsComeWithCases, HasCases
    <3>3. QED
      BY <1>4, <2>1, <3>2 DEF CasesStay
  <2>2. CASE db[q] = Null
    <3>1. PICK w \in Pending(r) : w.op = "insert" /\ w.id = q /\ db'[q] = w.row
      BY <1>6, <2>2
    <3>2. PlacedAt(r, w)
      BY <1>1, <3>1, PendingFacts DEF WriteFits
    <3>3. q \in seed[r].synced
      BY <1>1, <3>1, <3>2 DEF PlacedAt, AtCases
    <3>4. PICK title \in Titles : HasQuestion(r, q, title)
      BY <1>1, <3>3, SyncedIds
    <3>5. PICK k \in KeysOf(title) : TRUE
      BY CatalogueFacts
    <3>6. PICK y \in Ids : db'[y] # Null /\ db'[y].table = "case" /\ db'[y].parent = q
      BY <1>1, <1>2, <3>3, <3>4, <3>5, SyncedHasCases
    <3>7. QED
      BY <3>6, HasCasesNext
  <2>3. QED
    BY <2>1, <2>2
<1>11. JudgedOnCases'
  BY <1>7 DEF JudgedOnCases
<1>12. QED
  BY <1>5, <1>8, <1>9, <1>10, <1>11

LEMMA SessionsEvolve ==
    ASSUME Base, TypeOK',
           \A q \in Seeders : ~Running(q)' \/ (Running(q) /\ Evolves(q))
    PROVE  SessionsInv'
<1>1. ASSUME NEW q \in Seeders, Running(q)'
      PROVE  /\ SessionFits(q)' /\ Running(q) /\ Pending(q)' = Pending(q)
             /\ seed'[q].sent = seed[q].sent
  BY <1>1, SessionEvolves, SamePending DEF Evolves, Keeps
<1>2. ASSUME NEW p \in Seeders, NEW q \in Seeders, p # q, Running(p)', Running(q)'
      PROVE  Apart(p, q)'
  <2>1. Apart(p, q)
    BY <1>1, <1>2 DEF Base, SessionsInv
  <2>2. \A w \in seed[p].sent : db'[w.id] # Null => db[w.id] # Null
    <3>1. Spares(p)
      BY <1>1, <1>2 DEF Evolves
    <3>2. QED
      BY <3>1 DEF Spares, Pending
  <2>3. QED
    BY <1>1, <1>2, <2>1, <2>2 DEF Apart
<1>3. QED
  BY <1>1, <1>2 DEF SessionsInv

LEMMA CommitStep ==
    ASSUME IndInv, NEW r \in Seeders, Commit(r)
    PROVE  IndInv'
<1>1. Base /\ seed[r].pc = "commit" /\ Running(r) /\ given' = given /\ adds' = adds
  BY RunningSession DEF IndInv, Base, Commit, SeedPCs, people, counts
<1>2. Commits(r) /\ EndSeed(r) /\ ~Doomed(r) /\ Unblocked(r)
  BY <1>1, NotDoomed DEF Commits, Commit, Pending
<1>3. TypeOK'
  BY <1>1, CommitTypes
<1>4. ASSUME NEW q \in Seeders, Running(q)'
      PROVE  Running(q) /\ Evolves(q)
  <2>1. q # r
    BY <1>1, <1>2, <1>4, EndStep DEF Base
  <2>2. Running(q)
    BY <1>1, <1>2, <1>4, <2>1, EndStep DEF Base, Keeps
  <2>3. QED
    BY <1>1, <1>2, <2>1, <2>2, CommitEvolves
<1>5. SessionsInv'
  BY <1>1, <1>3, <1>4, SessionsEvolve
<1>6. /\ DatabaseInv' /\ OthersInv' /\ CatalogueComplete' /\ QuestionsComeWithCases'
      /\ JudgedOnCases'
  BY <1>1, CommitRest DEF IndInv
<1>7. QED
  BY <1>3, <1>5, <1>6 DEF IndInv

-----------------------------------------------------------------------------
(* Steps that commit at most a row of their own, or how far a submission is *)

QuietRows ==
    /\ given <= given' /\ given' \in Nat
    /\ \A i \in Ids : Old(i) => Old(i)'
    /\ adds' = 0 => adds = 0
    /\ \A i \in Ids : db[i] # Null => /\ db'[i] # Null /\ SameRow(db[i], db'[i])
                                      /\ db[i].table # "submission" => db'[i] = db[i]
    /\ \A i \in Ids : db[i] = Null /\ db'[i] # Null =>
          /\ ~(i <= given) /\ i <= given'
          /\ adds' = 0 => db'[i].table \notin {"question", "case"}

LEMMA QuietEvolves ==
    ASSUME Base, QuietRows
    PROVE  /\ RowsEvolve /\ LastingRows /\ CasesStay
           /\ \A q \in Seeders : Running(q) => Spares(q)
<1>1. RowsEvolve
  <2>1. ASSUME NEW i \in Ids, Old(i), db[i] = Null PROVE db'[i] = Null
    <3>1. i \in 1..given /\ given \in 0..MaxId /\ MaxId \in Nat
      BY <2>1, IdFacts DEF Old, Base, TypeOK
    <3>2. i <= given
      BY <3>1, SMT
    <3>3. QED
      BY <2>1, <3>2 DEF QuietRows
  <2>2. QED
    BY <2>1 DEF QuietRows, RowsEvolve
<1>2. LastingRows
  <2>1. ASSUME NEW y \in Ids, db[y] # Null, db[y].table = "case", db[y].value = "catalogue"
        PROVE  \E z \in Ids : /\ z <= y /\ db'[z] # Null /\ db'[z].table = "case"
                              /\ db'[z].parent = db[y].parent /\ db'[z].key = db[y].key
                              /\ db'[z].value = "catalogue"
    <3>1. db'[y] = db[y] /\ y <= y
      BY <2>1, IdFacts, SMT DEF QuietRows
    <3>2. QED
      BY <2>1, <3>1
  <2>2. QED
    BY <2>1 DEF QuietRows, LastingRows
<1>3. CasesStay
  <2> SUFFICES ASSUME NEW CONSTANT q \in Ids, HasCases(q) PROVE HasCases(q)'
    BY DEF CasesStay
  <2>1. PICK c \in Ids : db[c] # Null /\ db[c].table = "case" /\ db[c].parent = q
    BY DEF HasCases, Children
  <2>2. db'[c] = db[c]
    BY <2>1 DEF QuietRows
  <2>3. QED
    BY <2>1, <2>2, HasCasesNext
<1>4. ASSUME NEW q \in Seeders, Running(q) PROVE Spares(q)
  <2>1. ASSUME NEW w \in Pending(q), db[w.id] = Null PROVE db'[w.id] = Null
    BY <1>4, <2>1, PendingFacts DEF WriteFits, QuietRows
  <2>2. ASSUME NEW w \in seed[q].sent, db[w.id] # Null PROVE db'[w.id] # Null
    BY <1>4, <2>2, PendingFacts DEF QuietRows
  <2>3. QED
    BY <2>1, <2>2 DEF Spares
<1>5. QED
  BY <1>1, <1>2, <1>3, <1>4

LEMMA QuietCatalogue ==
    ASSUME Base, QuietRows, CatalogueComplete, seeded' = seeded
    PROVE  CatalogueComplete'
<1> SUFFICES ASSUME seeded
             PROVE  \E t \in Ids :
                       /\ db'[t] # Null /\ db'[t].table = "test"
                       /\ \A title \in Titles : \E q \in Children(db', "question", t) :
                             db'[q].key = title /\ HasCatalogueCases(q, title)'
  BY DEF CatalogueComplete
<1>1. PICK t \in Ids :
        /\ db[t] # Null /\ db[t].table = "test"
        /\ \A title \in Titles : \E q \in Children(db, "question", t) :
              db[q].key = title /\ HasCatalogueCases(q, title)
  BY DEF CatalogueComplete
<1>2. db'[t] = db[t]
  BY <1>1 DEF QuietRows
<1>3. ASSUME NEW title \in Titles
      PROVE  \E q \in Children(db', "question", t) : db'[q].key = title /\ HasCatalogueCases(q, title)'
  <2>1. PICK q \in Ids : /\ db[q] # Null /\ db[q].table = "question" /\ db[q].parent = t
                         /\ db[q].key = title /\ HasCatalogueCases(q, title)
    BY <1>1 DEF Children
  <2>2. db'[q] = db[q]
    BY <2>1 DEF QuietRows
  <2>3. ASSUME NEW k \in KeysOf(title)
        PROVE  \E i \in Children(db', "case", q) : db'[i].key = k /\ db'[i].value = "catalogue"
    <3>1. PICK i \in Ids : /\ db[i] # Null /\ db[i].table = "case" /\ db[i].parent = q
                           /\ db[i].key = k /\ db[i].value = "catalogue"
      BY <2>1 DEF HasCatalogueCases, Children
    <3>2. db'[i] = db[i]
      BY <3>1 DEF QuietRows
    <3>3. QED
      BY <3>1, <3>2 DEF Children
  <2>4. ASSUME adds' = 0, NEW i \in Children(db', "case", q)
        PROVE  db'[i].key \in KeysOf(title) /\ db'[i].value = "catalogue"
    <3>1. i \in Ids /\ db'[i] # Null /\ db'[i].table = "case" /\ db'[i].parent = q
      BY <2>4 DEF Children
    <3>2. db[i] # Null
      BY <2>4, <3>1 DEF QuietRows
    <3>3. db'[i] = db[i]
      BY <3>1, <3>2 DEF QuietRows, SameRow
    <3>4. i \in Children(db, "case", q)
      BY <3>1, <3>2, <3>3 DEF Children
    <3>5. adds = 0
      BY <2>4 DEF QuietRows
    <3>6. QED
      BY <2>1, <3>3, <3>4, <3>5 DEF HasCatalogueCases
  <2>5. HasCatalogueCases(q, title)'
    BY <2>3, <2>4 DEF HasCatalogueCases
  <2>6. QED
    BY <2>1, <2>2, <2>5 DEF Children
<1>4. QED
  BY <1>1, <1>2, <1>3

LEMMA QuietQuestions ==
    ASSUME Base, QuietRows, QuestionsComeWithCases
    PROVE  QuestionsComeWithCases'
<1> SUFFICES ASSUME adds' = 0, NEW CONSTANT q \in Ids, db'[q] # Null, db'[q].table = "question"
             PROVE  HasCases(q)'
  BY DEF QuestionsComeWithCases, HasCases
<1>1. db[q] # Null /\ adds = 0
  BY DEF QuietRows
<1>2. db[q].table = "question"
  BY <1>1 DEF QuietRows, SameRow
<1>3. HasCases(q)
  BY <1>1, <1>2 DEF QuestionsComeWithCases, HasCases
<1>4. QED
  BY <1>1, <1>3, QuietEvolves DEF CasesStay

LEMMA QuietDatabase ==
    ASSUME Base, QuietRows,
           \A i \in Ids : db[i] = Null /\ db'[i] # Null /\ db'[i].table = "submission" =>
               db'[i].parent \in Ids /\ db[db'[i].parent] # Null /\ HasCases(db'[i].parent)
    PROVE  DatabaseInv'
<1>1. ASSUME NEW i \in Ids, db'[i] # Null
      PROVE  i <= given'
  <2>1. CASE db[i] = Null
    BY <1>1, <2>1 DEF QuietRows
  <2>2. CASE db[i] # Null
    <3>1. i <= given /\ given <= given' /\ given' \in Nat /\ given \in 0..MaxId
      BY <2>2 DEF Base, DatabaseInv, QuietRows, TypeOK
    <3>2. i \in Nat /\ MaxId \in Nat
      BY IdFacts
    <3>3. QED
      BY <3>1, <3>2, SMT
  <2>3. QED
    BY <2>1, <2>2
<1>2. db'[OtherAdmin] = db[OtherAdmin] /\ db[OtherAdmin] # Null /\ db[OtherAdmin].table = "user"
      /\ db[OtherAdmin].key = "other"
  BY BoundsAssumption DEF Base, DatabaseInv, QuietRows
<1>3. ASSUME NEW CONSTANT i \in Ids, db'[i] # Null, db'[i].table = "submission"
      PROVE  HasCases(db[i].parent)'
  <2>1. PICK q \in Ids : q = db'[i].parent /\ db[q] # Null /\ HasCases(q)
    <3>1. CASE db[i] = Null
      BY <1>3, <3>1
    <3>2. CASE db[i] # Null
      <4>1. db[i].table = "submission" /\ db[i].parent = db'[i].parent
        BY <1>3, <3>2 DEF QuietRows, SameRow
      <4>2. db[i].parent \in Ids /\ db[db[i].parent] # Null
        BY <3>2, <4>1, RowFacts DEF Base
      <4>3. HasCases(db[i].parent)
        BY <3>2, <4>1 DEF Base, DatabaseInv
      <4>4. QED
        BY <4>1, <4>2, <4>3
    <3>3. QED
      BY <3>1, <3>2
  <2>2. HasCases(q)'
    BY <2>1, QuietEvolves DEF CasesStay, QuietRows
  <2>3. QED
    BY <2>1, <2>2 DEF HasCases, Children
<1>4. QED
  BY <1>1, <1>2, <1>3 DEF DatabaseInv

LEMMA UnchangedIsQuiet ==
    ASSUME TypeOK, db' = db, given <= given', given' \in Nat, adds' = 0 => adds = 0,
           \A i \in Ids : Old(i) => Old(i)'
    PROVE  QuietRows
BY DEF QuietRows, SameRow

LEMMA GivenFacts ==
    ASSUME TypeOK
    PROVE  given \in Nat /\ given <= MaxId /\ MaxId \in Nat /\ given <= given
<1>1. given \in 0..MaxId /\ MaxId \in Nat
  BY IdFacts DEF TypeOK
<1>2. QED
  BY <1>1, SMT

\* INSERT and COMMIT of one row by somebody who is no seed.
LEMMA InsertRowStep ==
    ASSUME Base, NEW row \in Row, InsertRow(row), row.table # "user",
           db[row.parent] # Null => db[row.parent].table = ParentTable(row.table),
           \A q \in Seeders : Keeps(q),
           adds' = 0 => adds = 0 /\ row.table \notin {"question", "case"}
    PROVE  /\ QuietRows
           /\ db' \in [Ids -> Row \cup {Null}] /\ (\A i \in Ids : Fits(db', i)) /\ given' \in 0..MaxId
           /\ \A i \in Ids : db'[i] # db[i] => db'[i] = row /\ db[i] = Null /\ db[row.parent] # Null
<1>1. TypeOK /\ row.parent \in Ids /\ row # Null
  BY RowTypes DEF Base
<1>2. CASE db[row.parent] = Null
  <2>1. db' = db /\ given' = given
    BY <1>2 DEF InsertRow
  <2>2. QuietRows
    BY <1>1, <2>1, GivenFacts, KeepingOld, UnchangedIsQuiet
  <2>3. QED
    BY <1>1, <2>1, <2>2 DEF TypeOK
<1>3. CASE db[row.parent] # Null
  <2> DEFINE new == given + 1
  <2>1. /\ new \in Ids /\ db' = [db EXCEPT ![new] = row] /\ given' = new
    BY <1>3 DEF InsertRow
  <2>2. given <= given' /\ given' \in Nat /\ ~(new <= given) /\ given' \in 0..MaxId /\ new <= new
    BY <1>1, <2>1, GivenFacts, IdFacts, SMT
  <2>3. db[new] = Null
    BY <2>1, <2>2 DEF Base, DatabaseInv
  <2> HIDE DEF new
  <2>4. db'[new] = row /\ \A i \in Ids : i # new => db'[i] = db[i]
    BY <1>1, <2>1 DEF TypeOK
  <2>5. \A i \in Ids : Old(i) => Old(i)'
    BY <1>1, <2>2, KeepingOld
  <2>6. QuietRows
    BY <2>1, <2>2, <2>3, <2>4, <2>5 DEF QuietRows, SameRow
  <2>7. db' \in [Ids -> Row \cup {Null}]
    BY <1>1, <2>1 DEF TypeOK
  <2>8. ASSUME NEW i \in Ids, db'[i] # Null, db'[i].table # "user"
        PROVE  db'[db'[i].parent] # Null /\ db'[db'[i].parent].table = ParentTable(db'[i].table)
    <3>1. CASE i = new
      <4>1. row.parent # new
        BY <1>3, <2>3
      <4>2. QED
        BY <1>1, <1>3, <2>4, <3>1, <4>1
    <3>2. CASE i # new
      <4>1. db'[i] = db[i] /\ db[i].parent \in Ids /\ db[db[i].parent] # Null
            /\ db[db[i].parent].table = ParentTable(db[i].table)
        BY <1>1, <2>4, <2>8, <3>2, RowFacts
      <4>2. db[i].parent # new
        BY <2>3, <4>1
      <4>3. QED
        BY <2>4, <4>1, <4>2
    <3>3. QED
      BY <3>1, <3>2
  <2>9. \A i \in Ids : Fits(db', i)
    BY <2>8 DEF Fits
  <2>10. QED
    BY <1>3, <2>2, <2>3, <2>4, <2>6, <2>7, <2>9
<1>4. QED
  BY <1>2, <1>3

\* How far a submission is.
LEMMA ValueStep ==
    ASSUME Base, NEW i \in Ids, NEW v \in {"pending", "running", "judged", "vacuous"},
           db[i] # Null, db[i].table = "submission", db' = [db EXCEPT ![i].value = v],
           given' = given, adds' = adds, \A q \in Seeders : Keeps(q)
    PROVE  /\ QuietRows
           /\ db' \in [Ids -> Row \cup {Null}] /\ (\A j \in Ids : Fits(db', j))
           /\ db'[i] # Null /\ db'[i].value = v /\ SameRow(db[i], db'[i])
           /\ \A j \in Ids : j # i => db'[j] = db[j]
<1>1. TypeOK /\ db[i] \in Row
  BY RowFacts DEF Base
<1> DEFINE new == [db[i] EXCEPT !.value = v]
<1>2. db[i] \in [table: {"submission"}, parent: Ids, key: {Null},
                 value: {"pending", "running", "judged", "vacuous"}]
  BY <1>1, SMT DEF Row
<1>3. new \in [table: {"submission"}, parent: Ids, key: {Null},
               value: {"pending", "running", "judged", "vacuous"}]
  BY <1>2, SMT
<1>4. new.value = v /\ new.parent = db[i].parent /\ new.table = db[i].table /\ new.key = db[i].key
  BY <1>2, SMT
<1>5. new \in Row
  BY <1>3 DEF Row
<1>6. db' = [db EXCEPT ![i] = new]
  OBVIOUS
<1> HIDE DEF new
<1>7. db'[i] = new /\ (\A j \in Ids : j # i => db'[j] = db[j]) /\ db' \in [Ids -> Row \cup {Null}]
  BY <1>1, <1>5, <1>6 DEF TypeOK
<1>8. new # Null /\ SameRow(db[i], new)
  BY <1>4, <1>5, IdFacts DEF SameRow
<1>9. \A j \in Ids : Old(j) => Old(j)'
  BY <1>1, GivenFacts, KeepingOld
<1>10. QuietRows
  BY <1>1, <1>7, <1>8, <1>9, GivenFacts DEF QuietRows, SameRow
<1>11. ASSUME NEW j \in Ids, db'[j] # Null, db'[j].table # "user"
       PROVE  db'[db'[j].parent] # Null /\ db'[db'[j].parent].table = ParentTable(db'[j].table)
  <2>1. db[j] # Null /\ db[j].table = db'[j].table /\ db[j].parent = db'[j].parent
    BY <1>4, <1>7, <1>8, <1>11
  <2>2. db[j].parent \in Ids /\ db[db[j].parent] # Null
        /\ db[db[j].parent].table = ParentTable(db[j].table)
    BY <1>1, <1>11, <2>1, RowFacts
  <2>3. db[j].parent # i
    BY <2>2 DEF ParentTable
  <2>4. QED
    BY <1>7, <2>1, <2>2, <2>3
<1>12. QED
  BY <1>4, <1>7, <1>8, <1>10, <1>11 DEF Fits

LEMMA QuietStep ==
    ASSUME IndInv, QuietRows, TypeOK', \A q \in Seeders : Keeps(q), seeded' = seeded,
           \A i \in Ids : db[i] = Null /\ db'[i] # Null /\ db'[i].table = "submission" =>
               db'[i].parent \in Ids /\ db[db'[i].parent] # Null /\ HasCases(db'[i].parent),
           JudgedOnCases', OthersInv'
    PROVE  IndInv'
<1>1. Base
  BY DEF IndInv, Base
<1>2. RowsEvolve /\ LastingRows /\ \A q \in Seeders : Running(q) => Spares(q)
  BY <1>1, QuietEvolves
<1>3. \A q \in Seeders : ~Running(q)' \/ (Running(q) /\ Evolves(q))
  BY <1>2 DEF Evolves, Keeps
<1>4. SessionsInv'
  BY <1>1, <1>3, SessionsEvolve
<1>5. DatabaseInv'
  BY <1>1, QuietDatabase
<1>6. CatalogueComplete' /\ QuestionsComeWithCases'
  BY <1>1, QuietCatalogue, QuietQuestions DEF IndInv
<1>7. QED
  BY <1>4, <1>5, <1>6 DEF IndInv

-----------------------------------------------------------------------------
(* The student, the judge and the other administrator *)

LEMMA AllKeep ==
    ASSUME TypeOK, seed' = seed
    PROVE  \A q \in Seeders : Keeps(q)
BY SameKeeps

LEMMA WorkerFacts ==
    ASSUME TypeOK, worker # Idle
    PROVE  /\ worker.job \in Ids /\ worker.question \in Ids /\ worker.pc \in {"cases", "store"}
           /\ worker.pc = "store" => worker.verdict \in {"judged", "vacuous"}
<1>1. CASE worker \in [pc: {"cases"}, job: Ids, question: Ids, verdict: {Null}]
  BY <1>1, SMT
<1>2. CASE worker \in [pc: {"store"}, job: Ids, question: Ids, verdict: {"judged", "vacuous"}]
  BY <1>2, SMT
<1>3. QED
  BY <1>1, <1>2 DEF TypeOK

LEMMA SubmitStep ==
    ASSUME IndInv, NEW q \in Ids, Submit(q)
    PROVE  IndInv'
<1>1. Base /\ TypeOK
  BY DEF IndInv, Base
<1>2. /\ db' = db /\ given' = given /\ seed' = seed /\ admin' = admin /\ worker' = worker
      /\ runs' = runs /\ adds' = adds /\ posts' = posts + 1 /\ faults' = faults
      /\ fresh' = fresh /\ seeded' = seeded /\ steady' = steady /\ overlap' = overlap
      /\ student' = [pc |-> "insert", question |-> q]
      /\ db[q] # Null /\ db[q].table = "question" /\ HasCases(q)
  BY DEF Submit, history
<1>3. \A p \in Seeders : Keeps(p)
  BY <1>1, <1>2, AllKeep
<1>4. QuietRows
  BY <1>1, <1>2, <1>3, GivenFacts, KeepingOld, UnchangedIsQuiet
<1>5. student' \in [pc: {"insert"}, question: Ids]
  BY <1>2, SMT
<1>6. posts' \in Nat
  <2>1. posts \in Nat
    BY <1>1 DEF TypeOK
  <2>2. QED
    BY <1>2, <2>1, SMT
<1>7. TypeOK'
  BY <1>1, <1>2, <1>5, <1>6 DEF TypeOK
<1>8. StudentFits'
  <2>1. Old(q)' /\ student'.question = q
    BY <1>1, <1>2, <1>4, CommittedIsOld DEF QuietRows
  <2>2. Old(q)' => Old(student.question)'
    BY <2>1 DEF Old, Inserts
  <2>3. HasCases(student.question)'
    BY <1>2, <2>1 DEF HasCases, Children
  <2>4. QED
    BY <1>2, <2>1, <2>2, <2>3 DEF StudentFits
<1>9. WorkerFits' /\ AdminFits'
  BY <1>1, <1>2, <1>4, QuietEvolves, WorkerEvolves, AdminEvolves DEF IndInv, OthersInv, TypeOK
<1>10. JudgedOnCases'
  BY <1>2 DEF IndInv, JudgedOnCases
<1>11. QED
  BY <1>2, <1>3, <1>4, <1>7, <1>8, <1>9, <1>10, QuietStep DEF OthersInv

LEMMA InsertSubmissionStep ==
    ASSUME IndInv, InsertSubmission
    PROVE  IndInv'
<1>1. Base /\ TypeOK /\ StudentFits /\ student.pc = "insert" /\ student # Idle
  BY DEF IndInv, Base, OthersInv, InsertSubmission, Idle
<1>2. student.question \in Ids
  BY <1>1, SMT DEF TypeOK
<1> DEFINE row == [table |-> "submission", parent |-> student.question,
                   key |-> Null, value |-> "pending"]
<1>3. /\ row \in Row /\ row.table = "submission" /\ row.parent = student.question
      /\ row.value = "pending"
  BY <1>2, SMT DEF Row
<1>4. /\ InsertRow(row) /\ student' = Idle /\ seed' = seed /\ admin' = admin /\ worker' = worker
      /\ runs' = runs /\ adds' = adds /\ posts' = posts /\ faults' = faults
      /\ fresh' = fresh /\ seeded' = seeded /\ steady' = steady /\ overlap' = overlap
  BY DEF InsertSubmission, counts, history
<1> HIDE DEF row
<1>5. \A q \in Seeders : Keeps(q)
  BY <1>1, <1>4, AllKeep
<1>6. db[row.parent] # Null => /\ db[row.parent].table = ParentTable(row.table)
                               /\ HasCases(row.parent) /\ row.parent \in Ids
  BY <1>1, <1>2, <1>3 DEF StudentFits, ParentTable
<1>7. /\ QuietRows
      /\ db' \in [Ids -> Row \cup {Null}] /\ (\A i \in Ids : Fits(db', i)) /\ given' \in 0..MaxId
      /\ \A i \in Ids : db'[i] # db[i] => db'[i] = row /\ db[i] = Null /\ db[row.parent] # Null
  BY <1>1, <1>3, <1>4, <1>5, <1>6, InsertRowStep
<1>8. TypeOK'
  BY <1>1, <1>4, <1>7 DEF TypeOK
<1>9. StudentFits'
  BY <1>4 DEF StudentFits
<1>10. WorkerFits' /\ AdminFits'
  BY <1>1, <1>4, <1>7, QuietEvolves, WorkerEvolves, AdminEvolves DEF IndInv, OthersInv, TypeOK
<1>11. JudgedOnCases'
  BY <1>3, <1>7 DEF IndInv, JudgedOnCases
<1>12. \A i \in Ids : db[i] = Null /\ db'[i] # Null /\ db'[i].table = "submission" =>
          db'[i].parent \in Ids /\ db[db'[i].parent] # Null /\ HasCases(db'[i].parent)
  BY <1>6, <1>7
<1>13. QED
  BY <1>4, <1>5, <1>7, <1>8, <1>9, <1>10, <1>11, <1>12, QuietStep DEF OthersInv

LEMMA StartJudgingStep ==
    ASSUME IndInv, NEW i \in Ids, StartJudging(i)
    PROVE  IndInv'
<1>1. Base /\ TypeOK
  BY DEF IndInv, Base
<1>2. /\ db[i] # Null /\ db[i].table = "submission"
      /\ db' = [db EXCEPT ![i].value = "running"]
      /\ worker' = [pc |-> "cases", job |-> i, question |-> db[i].parent, verdict |-> Null]
      /\ given' = given /\ seed' = seed /\ student' = student /\ admin' = admin
      /\ runs' = runs /\ adds' = adds /\ posts' = posts /\ faults' = faults
      /\ fresh' = fresh /\ seeded' = seeded /\ steady' = steady /\ overlap' = overlap
  BY DEF StartJudging, counts, history
<1>3. \A q \in Seeders : Keeps(q)
  BY <1>1, <1>2, AllKeep
<1>4. /\ QuietRows
      /\ db' \in [Ids -> Row \cup {Null}] /\ (\A j \in Ids : Fits(db', j))
      /\ db'[i] # Null /\ db'[i].value = "running" /\ SameRow(db[i], db'[i])
      /\ \A j \in Ids : j # i => db'[j] = db[j]
  BY <1>1, <1>2, <1>3, ValueStep
<1>5. db[i].parent \in Ids
  BY <1>1, <1>2, RowFacts
<1>6. worker' \in [pc: {"cases"}, job: Ids, question: Ids, verdict: {Null}]
  BY <1>2, <1>5, SMT
<1>7. TypeOK'
  BY <1>1, <1>2, <1>4, <1>6 DEF TypeOK
<1>8. WorkerFits'
  <2>1. /\ worker'.job = i /\ worker'.pc = "cases" /\ worker'.question = db[i].parent
    BY <1>2
  <2>2. Old(i)'
    BY <1>1, <1>2, <1>4, CommittedIsOld DEF QuietRows
  <2>3. Old(worker.job)'
    BY <2>1, <2>2 DEF Old, Inserts
  <2>4. QED
    BY <1>2, <1>4, <2>1, <2>3 DEF WorkerFits, SameRow
<1>9. StudentFits' /\ AdminFits'
  BY <1>1, <1>2, <1>4, QuietEvolves, StudentEvolves, AdminEvolves DEF IndInv, OthersInv, TypeOK
<1>10. JudgedOnCases'
  BY <1>4 DEF IndInv, JudgedOnCases
<1>11. \A j \in Ids : db[j] = Null => db'[j] = Null
  BY <1>2, <1>4
<1>12. QED
  BY <1>2, <1>3, <1>4, <1>7, <1>8, <1>9, <1>10, <1>11, QuietStep DEF OthersInv

LEMMA LoadCasesStep ==
    ASSUME IndInv, LoadCases
    PROVE  IndInv'
<1>1. Base /\ TypeOK /\ WorkerFits /\ worker.pc = "cases" /\ worker # Idle
  BY DEF IndInv, Base, OthersInv, LoadCases, Idle
<1> DEFINE v == IF Children(db, "case", worker.question) = {} THEN "vacuous" ELSE "judged"
<1>2. /\ db' = db /\ given' = given /\ seed' = seed /\ admin' = admin /\ student' = student
      /\ runs' = runs /\ adds' = adds /\ posts' = posts /\ faults' = faults
      /\ fresh' = fresh /\ seeded' = seeded /\ steady' = steady /\ overlap' = overlap
      /\ worker' = [worker EXCEPT !.pc = "store", !.verdict = v]
  BY DEF LoadCases, counts, history
<1>3. worker \in [pc: {"cases"}, job: Ids, question: Ids, verdict: {Null}]
  <2>1. CASE worker \in [pc: {"store"}, job: Ids, question: Ids, verdict: {"judged", "vacuous"}]
    BY <1>1, <2>1, SMT
  <2>2. QED
    BY <1>1, <2>1 DEF TypeOK
<1>4. v \in {"judged", "vacuous"}
  OBVIOUS
<1> HIDE DEF v
<1>5. /\ worker' \in [pc: {"store"}, job: Ids, question: Ids, verdict: {"judged", "vacuous"}]
      /\ worker'.pc = "store" /\ worker'.job = worker.job /\ worker'.question = worker.question
      /\ worker'.verdict = v
  <2>1. worker.job \in Ids /\ worker.question \in Ids
    BY <1>3, SMT
  <2> DEFINE x == [worker EXCEPT !.pc = "store"]
  <2>2. x = [pc |-> "store", job |-> worker.job, question |-> worker.question, verdict |-> worker.verdict]
    BY <1>3, SMT
  <2>3. worker' = [x EXCEPT !.verdict = v]
    BY <1>2
  <2> HIDE DEF x
  <2>4. worker' = [pc |-> "store", job |-> worker.job, question |-> worker.question, verdict |-> v]
    BY <2>2, <2>3, SMT
  <2>5. QED
    BY <1>4, <2>1, <2>4, SMT
<1>6. \A p \in Seeders : Keeps(p)
  BY <1>1, <1>2, AllKeep
<1>7. QuietRows
  BY <1>1, <1>2, <1>6, GivenFacts, KeepingOld, UnchangedIsQuiet
<1>8. TypeOK'
  BY <1>1, <1>2, <1>5 DEF TypeOK
<1>9. WorkerFits'
  <2>1. worker.job \in Ids /\ Old(worker.job)
    BY <1>1, WorkerFacts DEF WorkerFits
  <2>2. PICK i \in Ids : i = worker.job
    BY <2>1
  <2>3. Old(i)'
    BY <1>7, <2>1, <2>2 DEF QuietRows
  <2>4. Old(worker.job)'
    BY <1>5, <2>2, <2>3 DEF Old, Inserts
  <2>5. v = "vacuous" => db[worker.job] = Null
    <3> SUFFICES ASSUME v = "vacuous", db[worker.job] # Null PROVE FALSE
      OBVIOUS
    <3>1. Children(db, "case", worker.question) = {}
      BY DEF v
    <3>2. HasCases(worker.question)
      BY <1>1, <2>1 DEF WorkerFits, Base, DatabaseInv
    <3>3. QED
      BY <3>1, <3>2 DEF HasCases
  <2>6. QED
    BY <1>1, <1>2, <1>5, <2>4, <2>5 DEF WorkerFits
<1>10. StudentFits' /\ AdminFits'
  BY <1>1, <1>2, <1>7, QuietEvolves, StudentEvolves, AdminEvolves DEF IndInv, OthersInv, TypeOK
<1>11. JudgedOnCases'
  BY <1>2 DEF IndInv, JudgedOnCases
<1>12. QED
  BY <1>2, <1>6, <1>7, <1>8, <1>9, <1>10, <1>11, QuietStep DEF OthersInv

LEMMA StoreVerdictStep ==
    ASSUME IndInv, StoreVerdict
    PROVE  IndInv'
<1>1. Base /\ TypeOK /\ WorkerFits /\ worker.pc = "store" /\ worker # Idle
  BY DEF IndInv, Base, OthersInv, StoreVerdict, Idle
<1>2. worker.job \in Ids /\ worker.verdict \in {"judged", "vacuous"}
  BY <1>1, WorkerFacts
<1> DEFINE i == worker.job
<1>3. /\ db[i] = Null => db' = db
      /\ db[i] # Null => db' = [db EXCEPT ![i].value = worker.verdict]
      /\ worker' = Idle
      /\ given' = given /\ seed' = seed /\ student' = student /\ admin' = admin
      /\ runs' = runs /\ adds' = adds /\ posts' = posts /\ faults' = faults
      /\ fresh' = fresh /\ seeded' = seeded /\ steady' = steady /\ overlap' = overlap
  BY DEF StoreVerdict, counts, history
<1>4. \A q \in Seeders : Keeps(q)
  BY <1>1, <1>3, AllKeep
<1>5. /\ QuietRows
      /\ db' \in [Ids -> Row \cup {Null}] /\ (\A j \in Ids : Fits(db', j))
      /\ \A j \in Ids : db[j] = Null => db'[j] = Null
      /\ JudgedOnCases'
  <2>1. CASE db[i] = Null
    <3>1. QuietRows
      BY <1>1, <1>3, <1>4, <2>1, GivenFacts, KeepingOld, UnchangedIsQuiet
    <3>2. QED
      BY <1>1, <1>3, <2>1, <3>1 DEF TypeOK, IndInv, JudgedOnCases
  <2>2. CASE db[i] # Null
    <3>1. db[i].table = "submission" /\ worker.verdict # "vacuous"
      BY <1>1, <2>2 DEF WorkerFits
    <3>2. /\ QuietRows
          /\ db' \in [Ids -> Row \cup {Null}] /\ (\A j \in Ids : Fits(db', j))
          /\ db'[i] # Null /\ db'[i].value = worker.verdict /\ SameRow(db[i], db'[i])
          /\ \A j \in Ids : j # i => db'[j] = db[j]
      BY <1>1, <1>2, <1>3, <1>4, <2>2, <3>1, ValueStep
    <3>3. QED
      BY <2>2, <3>1, <3>2 DEF IndInv, JudgedOnCases
  <2>3. QED
    BY <2>1, <2>2
<1>6. TypeOK'
  BY <1>1, <1>3, <1>5 DEF TypeOK
<1>7. WorkerFits'
  BY <1>3 DEF WorkerFits
<1>8. StudentFits' /\ AdminFits'
  BY <1>1, <1>3, <1>5, QuietEvolves, StudentEvolves, AdminEvolves DEF IndInv, OthersInv, TypeOK
<1>9. QED
  BY <1>3, <1>4, <1>5, <1>6, <1>7, <1>8, QuietStep DEF OthersInv

LEMMA DisturbAll ==
    ASSUME TypeOK, seed' = [p \in Seeders |-> Disturbed(p)]
    PROVE  (\A q \in Seeders : Keeps(q)) /\ seed' \in [Seeders -> Session \cup {Idle}]
<1>1. \A q \in Seeders : seed'[q] = Disturbed(q)
  OBVIOUS
<1>2. \A q \in Seeders : Keeps(q)
  BY <1>1, DisturbedKeeps
<1>3. \A q \in Seeders : seed'[q] \in Session \cup {Idle}
  BY <1>2 DEF Keeps
<1>4. QED
  BY <1>2, <1>3

LEMMA CreateTestStep ==
    ASSUME IndInv, CreateTest
    PROVE  IndInv'
<1>1. Base /\ TypeOK
  BY DEF IndInv, Base
<1> DEFINE row == [table |-> "test", parent |-> OtherAdmin, key |-> "contest", value |-> "other"]
<1>2. /\ row \in Row /\ row.table = "test" /\ row.parent = OtherAdmin /\ row.value = "other"
  BY BoundsAssumption, SMT DEF Row, Contents
<1>3. /\ InsertRow(row) /\ seed' = [p \in Seeders |-> Disturbed(p)]
      /\ adds' = adds + 1 /\ steady' = FALSE
      /\ student' = student /\ admin' = admin /\ worker' = worker
      /\ runs' = runs /\ posts' = posts /\ faults' = faults
      /\ fresh' = fresh /\ seeded' = seeded /\ overlap' = overlap
  BY DEF CreateTest, people
<1> HIDE DEF row
<1>4. (\A q \in Seeders : Keeps(q)) /\ seed' \in [Seeders -> Session \cup {Idle}]
  BY <1>1, <1>3, DisturbAll
<1>5. adds' \in Nat /\ adds' # 0
  <2>1. adds \in Nat
    BY <1>1 DEF TypeOK
  <2>2. QED
    BY <1>3, <2>1, SMT
<1>6. db[row.parent].table = ParentTable(row.table)
  BY <1>1, <1>2 DEF Base, DatabaseInv, ParentTable
<1>7. /\ QuietRows
      /\ db' \in [Ids -> Row \cup {Null}] /\ (\A i \in Ids : Fits(db', i)) /\ given' \in 0..MaxId
      /\ \A i \in Ids : db'[i] # db[i] => db'[i] = row /\ db[i] = Null /\ db[row.parent] # Null
  BY <1>1, <1>2, <1>3, <1>4, <1>5, <1>6, InsertRowStep
<1>8. TypeOK'
  <2>1. /\ student' \in [pc: {"insert"}, question: Ids] \cup {Idle}
        /\ admin' \in [pc: {"add"}, row: Row] \cup {Idle}
        /\ worker' \in [pc: {"cases"}, job: Ids, question: Ids, verdict: {Null}]
                         \cup [pc: {"store"}, job: Ids, question: Ids, verdict: {"judged", "vacuous"}]
                         \cup {Idle}
    BY <1>1, <1>3 DEF TypeOK
  <2>2. {runs', adds', posts', faults'} \subseteq Nat /\ {fresh', seeded', steady', overlap'} \subseteq BOOLEAN
    BY <1>1, <1>3, <1>5 DEF TypeOK
  <2>3. QED
    BY <1>4, <1>7, <2>1, <2>2 DEF TypeOK
<1>9. OthersInv'
  BY <1>1, <1>3, <1>5, <1>7, QuietEvolves, StudentEvolves, WorkerEvolves, AdminEvolves DEF IndInv, OthersInv
<1>10. JudgedOnCases'
  BY <1>2, <1>7 DEF IndInv, JudgedOnCases
<1>11. \A i \in Ids : ~(db[i] = Null /\ db'[i] # Null /\ db'[i].table = "submission")
  BY <1>2, <1>7
<1>12. QED
  BY <1>3, <1>4, <1>7, <1>8, <1>9, <1>10, <1>11, QuietStep

LEMMA AdditionFacts ==
    ASSUME TypeOK, NEW i \in Ids, db[i] # Null, NEW row \in Additions(i)
    PROVE  /\ row \in Row /\ row.table \in {"question", "case"} /\ row.value = "other"
           /\ row.parent = i /\ db[i].table = ParentTable(row.table)
<1> DEFINE questions == [table : {"question"}, parent : {i}, key : Titles, value : {"other"}]
           cases == [table : {"case"}, parent : {i}, key : Keys, value : {"other"}]
<1>1. \/ db[i].table = "test" /\ row \in questions
      \/ db[i].table = "question" /\ row \in cases
  <2>1. CASE db[i].table = "test" /\ db[i].parent = OtherAdmin
    BY <2>1 DEF Additions
  <2>2. CASE db[i].table = "question" /\ db[db[i].parent].parent = OtherAdmin
    BY <2>2 DEF Additions
  <2>3. CASE /\ ~(db[i].table = "test" /\ db[i].parent = OtherAdmin)
             /\ ~(db[i].table = "question" /\ db[db[i].parent].parent = OtherAdmin)
    BY <2>3 DEF Additions
  <2>4. QED
    BY <2>1, <2>2, <2>3
<1>2. CASE db[i].table = "test" /\ row \in questions
  BY <1>2, SMT DEF Row, Contents, ParentTable
<1>3. CASE db[i].table = "question" /\ row \in cases
  BY <1>3, SMT DEF Row, Contents, ParentTable
<1>4. QED
  BY <1>1, <1>2, <1>3

LEMMA CheckOwnerStep ==
    ASSUME IndInv, NEW i \in Ids, CheckOwner(i)
    PROVE  IndInv'
<1>1. Base /\ TypeOK
  BY DEF IndInv, Base
<1>2. PICK row \in Additions(i) : admin' = [pc |-> "add", row |-> row]
  BY DEF CheckOwner
<1>3. /\ db' = db /\ given' = given /\ seed' = seed /\ student' = student /\ worker' = worker
      /\ runs' = runs /\ adds' = adds + 1 /\ posts' = posts /\ faults' = faults
      /\ fresh' = fresh /\ seeded' = seeded /\ steady' = steady /\ overlap' = overlap
      /\ db[i] # Null
  BY DEF CheckOwner, history
<1>4. /\ row \in Row /\ row.table \in {"question", "case"} /\ row.value = "other"
      /\ row.parent = i /\ db[i].table = ParentTable(row.table)
  BY <1>1, <1>3, AdditionFacts
<1>5. adds' \in Nat /\ adds' # 0 /\ adds' > 0
  <2>1. adds \in Nat
    BY <1>1 DEF TypeOK
  <2>2. QED
    BY <1>3, <2>1, SMT
<1>6. \A p \in Seeders : Keeps(p)
  BY <1>1, <1>3, AllKeep
<1>7. QuietRows
  BY <1>1, <1>3, <1>5, <1>6, GivenFacts, KeepingOld, UnchangedIsQuiet
<1>8. admin' \in [pc: {"add"}, row: Row] /\ admin'.row = row
  BY <1>2, <1>4, SMT
<1>9. TypeOK'
  BY <1>1, <1>3, <1>5, <1>8 DEF TypeOK
<1>10. AdminFits'
  <2>1. Old(i)'
    BY <1>1, <1>3, <1>7, CommittedIsOld DEF QuietRows
  <2>2. Old(admin.row.parent)'
    BY <1>4, <1>8, <2>1 DEF Old, Inserts
  <2>3. QED
    BY <1>3, <1>4, <1>5, <1>8, <2>2 DEF AdminFits
<1>11. StudentFits' /\ WorkerFits'
  BY <1>1, <1>3, <1>7, QuietEvolves, StudentEvolves, WorkerEvolves DEF IndInv, OthersInv
<1>12. JudgedOnCases'
  BY <1>3 DEF IndInv, JudgedOnCases
<1>13. QED
  BY <1>3, <1>6, <1>7, <1>9, <1>10, <1>11, <1>12, QuietStep DEF OthersInv

LEMMA AddStep ==
    ASSUME IndInv, Add
    PROVE  IndInv'
<1>1. Base /\ TypeOK /\ AdminFits /\ admin.pc = "add" /\ admin # Idle
  BY DEF IndInv, Base, OthersInv, Add, Idle
<1>2. admin.row \in Row
  BY <1>1, SMT DEF TypeOK
<1>3. PICK row \in Row : row = admin.row
  BY <1>2
<1>4. /\ row.table \in {"question", "case"} /\ row.value = "other" /\ adds > 0
      /\ db[row.parent] # Null => db[row.parent].table = ParentTable(row.table)
  BY <1>1, <1>3 DEF AdminFits
<1>5. /\ InsertRow(row) /\ seed' = [p \in Seeders |-> Disturbed(p)]
      /\ admin' = Idle /\ steady' = FALSE
      /\ student' = student /\ worker' = worker
      /\ runs' = runs /\ adds' = adds /\ posts' = posts /\ faults' = faults
      /\ fresh' = fresh /\ seeded' = seeded /\ overlap' = overlap
  BY <1>3 DEF Add, counts
<1>6. (\A q \in Seeders : Keeps(q)) /\ seed' \in [Seeders -> Session \cup {Idle}]
  BY <1>1, <1>5, DisturbAll
<1>7. adds' # 0
  <2>1. adds \in Nat
    BY <1>1 DEF TypeOK
  <2>2. QED
    BY <1>4, <1>5, <2>1, SMT
<1>8. /\ QuietRows
      /\ db' \in [Ids -> Row \cup {Null}] /\ (\A i \in Ids : Fits(db', i)) /\ given' \in 0..MaxId
      /\ \A i \in Ids : db'[i] # db[i] => db'[i] = row /\ db[i] = Null /\ db[row.parent] # Null
  BY <1>1, <1>4, <1>5, <1>6, <1>7, InsertRowStep
<1>9. TypeOK'
  BY <1>1, <1>5, <1>6, <1>8 DEF TypeOK
<1>10. AdminFits'
  BY <1>5 DEF AdminFits
<1>11. StudentFits' /\ WorkerFits'
  BY <1>1, <1>5, <1>8, QuietEvolves, StudentEvolves, WorkerEvolves DEF IndInv, OthersInv
<1>12. JudgedOnCases'
  BY <1>4, <1>8 DEF IndInv, JudgedOnCases
<1>13. \A i \in Ids : ~(db[i] = Null /\ db'[i] # Null /\ db'[i].table = "submission")
  BY <1>4, <1>8
<1>14. QED
  BY <1>5, <1>6, <1>8, <1>9, <1>10, <1>11, <1>12, <1>13, QuietStep DEF OthersInv

\* A seed that is rolled back.
LEMMA EndSeedStep ==
    ASSUME IndInv, NEW p \in Seeders, EndSeed(p), UNCHANGED <<db, given, people, adds, history>>,
           {runs', posts', faults'} \subseteq Nat
    PROVE  IndInv'
<1>1. Base /\ TypeOK
  BY DEF IndInv, Base
<1>2. /\ db' = db /\ given' = given /\ student' = student /\ admin' = admin /\ worker' = worker
      /\ adds' = adds
      /\ fresh' = fresh /\ seeded' = seeded /\ steady' = steady /\ overlap' = overlap
  BY DEF people, history
<1>3. seed'[p] = Idle /\ ~Running(p)' /\ \A q \in Seeders \ {p} : seed'[q] = seed[q] /\ Keeps(q)
  BY <1>1, EndStep
<1>4. \A i \in Ids : Old(i) => Old(i)'
  BY <1>1, <1>2, <1>3, GivenFacts, KeepingOld
<1>5. QuietRows
  BY <1>1, <1>2, <1>4, GivenFacts, UnchangedIsQuiet
<1>6. seed' \in [Seeders -> Session \cup {Idle}]
  BY <1>1 DEF EndSeed, TypeOK
<1>7. TypeOK'
  BY <1>1, <1>2, <1>6 DEF TypeOK
<1>8. SessionsInv'
  <2>1. \A q \in Seeders : ~Running(q)' \/ (Running(q) /\ Evolves(q))
    BY <1>1, <1>3, <1>5, QuietEvolves DEF Evolves, Keeps
  <2>2. QED
    BY <1>1, <1>7, <2>1, SessionsEvolve
<1>9. OthersInv'
  BY <1>1, <1>2, <1>5, QuietEvolves, StudentEvolves, WorkerEvolves, AdminEvolves DEF IndInv, OthersInv, TypeOK
<1>10. DatabaseInv' /\ CatalogueComplete' /\ QuestionsComeWithCases' /\ JudgedOnCases'
  BY <1>1, <1>2, <1>5, QuietDatabase, QuietCatalogue, QuietQuestions DEF IndInv, JudgedOnCases
<1>11. QED
  BY <1>7, <1>8, <1>9, <1>10 DEF IndInv

-----------------------------------------------------------------------------
(* A seed's own steps: writes of new rows, or of rows it has not touched yet *)

Extends(p, W) ==
    LET s == seed[p]
        t == seed'[p] IN
    /\ Running(p) /\ Steps(p) /\ seed' = [seed EXCEPT ![p] = seed'[p]]
    /\ given <= given' /\ given' \in 0..MaxId
    /\ Pending(p)' = Pending(p) \cup W /\ W \subseteq Write
    /\ \A w \in W : w.op = "insert" => w.id \notin 1..given /\ w.id <= given'
    /\ \A w \in W : w.op # "insert" => Old(w.id)
    /\ \A w \in W, x \in Pending(p) : w.id # x.id
    /\ \A w, x \in W : w.id = x.id => w = x
    /\ s.sent \subseteq t.sent
    /\ \A w \in t.sent \ s.sent : w.op = "update" => db[w.id] # Null
    /\ \A q \in Seeders : q # p /\ Running(q) => \A w \in t.sent, x \in seed[q].sent : db[w.id] # Null => w.id # x.id

\* What the session has found stays what it has found.
Refers(p) ==
    LET s == seed[p]
        t == seed'[p] IN
    /\ s.admin # Null => t.admin = s.admin
    /\ s.test # Null => t.test = s.test
    /\ s.synced \subseteq t.synced
    /\ AtCases(p) => (AtCases(p)' /\ t.question = s.question) \/ s.question \in t.synced

LEMMA ExtendsOutside ==
    ASSUME NEW p, NEW W, Extends(p, W)
    PROVE  /\ db' = db /\ student' = student /\ admin' = admin /\ worker' = worker
           /\ runs' = runs /\ adds' = adds /\ posts' = posts /\ faults' = faults
           /\ fresh' = fresh /\ seeded' = seeded /\ steady' = steady /\ overlap' = overlap
           /\ seed'[p] \in Session /\ \A q \in Seeders \ {p} : seed'[q] = seed[q]
BY DEF Extends, Steps, outside, people, counts, history

LEMMA IdsGiven ==
    ASSUME Base, NEW p \in Seeders, Running(p), NEW w \in Pending(p)
    PROVE  w.id \in 1..given
<1>1. w.id \in Ids /\ w.id <= given /\ given \in Nat /\ MaxId \in Nat
  BY PendingFacts, GivenFacts DEF WriteFits, Base
<1>2. QED
  BY <1>1, SMT DEF Ids

LEMMA ExtendsQuiet ==
    ASSUME Base, NEW p \in Seeders, NEW W, Extends(p, W)
    PROVE  QuietRows
<1>1. TypeOK /\ db' = db /\ adds' = adds
  BY ExtendsOutside DEF Base
<1>2. given <= given' /\ given' \in Nat
  <2>1. given <= given' /\ given' \in 0..MaxId /\ MaxId \in Nat
    BY IdFacts DEF Extends
  <2>2. QED
    BY <2>1, SMT
<1>3. ASSUME NEW q \in Seeders, Running(q)', NEW w \in Pending(q)', w.op = "insert"
      PROVE  w.id \notin 1..given \/ (Running(q) /\ w \in Pending(q))
  <2>1. CASE q = p
    BY <1>3, <2>1 DEF Extends
  <2>2. CASE q # p
    <3>1. seed'[q] = seed[q]
      BY <2>2, ExtendsOutside
    <3>2. QED
      BY <1>3, <3>1 DEF Pending, Running
  <2>3. QED
    BY <2>1, <2>2
<1>4. \A i \in Ids : Old(i) => Old(i)'
  BY <1>1, <1>2, <1>3, OldStays
<1>5. QED
  BY <1>1, <1>2, <1>4, UnchangedIsQuiet

\* It is enough to look at the session itself.
LEMMA OwnStep ==
    ASSUME IndInv, NEW p \in Seeders, NEW W, Extends(p, W), SessionFits(p)'
    PROVE  IndInv'
<1>1. Base /\ TypeOK /\ QuietRows
  BY ExtendsQuiet DEF IndInv, Base
<1>2. /\ db' = db /\ student' = student /\ admin' = admin /\ worker' = worker
      /\ runs' = runs /\ adds' = adds /\ posts' = posts /\ faults' = faults
      /\ fresh' = fresh /\ seeded' = seeded /\ steady' = steady /\ overlap' = overlap
      /\ seed'[p] \in Session /\ \A q \in Seeders \ {p} : seed'[q] = seed[q]
  BY ExtendsOutside
<1>3. TypeOK'
  <2>1. seed' \in [Seeders -> Session \cup {Idle}]
    <3>1. seed' = [seed EXCEPT ![p] = seed'[p]]
      BY DEF Extends
    <3>2. QED
      BY <1>1, <1>2, <3>1 DEF TypeOK
  <2>2. given' \in 0..MaxId
    BY DEF Extends
  <2>3. QED
    BY <1>1, <1>2, <2>1, <2>2 DEF TypeOK
<1>4. ASSUME NEW q \in Seeders, q # p, Running(q)'
      PROVE  Keeps(q) /\ Running(q) /\ SessionFits(q)'
  <2>1. Keeps(q) /\ Running(q)
    BY <1>1, <1>2, <1>4, SameKeeps DEF Keeps
  <2>2. Evolves(q)
    BY <1>1, <2>1, QuietEvolves DEF Evolves
  <2>3. QED
    BY <1>1, <1>3, <2>1, <2>2, SessionEvolves
<1>5. ASSUME NEW q \in Seeders, q # p, Running(q)
      PROVE  Apart(p, q)' /\ Apart(q, p)'
  <2>1. Apart(p, q) /\ Apart(q, p) /\ Running(p)
    BY <1>5 DEF IndInv, SessionsInv, Extends
  <2>2. seed'[q] = seed[q] /\ Pending(q)' = Pending(q)
    BY <1>2, <1>5 DEF Pending
  <2>3. \A w \in seed'[p].sent, x \in seed[q].sent : db[w.id] # Null => w.id # x.id
    BY <1>5 DEF Extends
  <2>4. ASSUME NEW w \in W, NEW x \in Pending(q), w.op = "insert" \/ x.op = "insert"
        PROVE  w.id # x.id
    <3>1. x.id \in 1..given /\ (x.op = "insert" => Inserts(q, x.id))
      BY <1>1, <1>5, IdsGiven DEF Inserts
    <3>2. w.op = "insert" => w.id \notin 1..given
      BY DEF Extends
    <3>3. w.op # "insert" => ~Inserts(q, w.id)
      BY <1>5 DEF Extends, Old
    <3>4. QED
      BY <2>4, <3>1, <3>2, <3>3
  <2>5. Pending(p)' = Pending(p) \cup W
    BY DEF Extends
  <2>6. QED
    BY <1>2, <2>1, <2>2, <2>3, <2>4, <2>5 DEF Apart
<1>6. ASSUME NEW q \in Seeders, NEW u \in Seeders, q # p, u # p, q # u, Running(q), Running(u)
      PROVE  Apart(q, u)'
  <2>1. Apart(q, u)
    BY <1>6 DEF IndInv, SessionsInv
  <2>2. seed'[q] = seed[q] /\ seed'[u] = seed[u]
    BY <1>2, <1>6
  <2>3. QED
    BY <1>2, <2>1, <2>2 DEF Apart, Pending
<1>7. SessionsInv'
  BY <1>4, <1>5, <1>6 DEF SessionsInv
<1>8. OthersInv'
  BY <1>1, <1>2, QuietEvolves, StudentEvolves, WorkerEvolves, AdminEvolves DEF IndInv, OthersInv, TypeOK
<1>9. DatabaseInv' /\ CatalogueComplete' /\ QuestionsComeWithCases' /\ JudgedOnCases'
  BY <1>1, <1>2, QuietDatabase, QuietCatalogue, QuietQuestions DEF IndInv, JudgedOnCases
<1>10. QED
  BY <1>3, <1>7, <1>8, <1>9 DEF IndInv

LEMMA ExtendsRows ==
    ASSUME Base, NEW p \in Seeders, NEW W, Extends(p, W), NEW CONSTANT i
    PROVE  /\ RowsAt(p, i) \subseteq RowsAt(p, i)'
           /\ i \in 1..given => RowsAt(p, i)' = RowsAt(p, i)
           /\ \A r \in RowsAt(p, i)' : r \in RowsAt(p, i) \/ \E w \in W : w.op = "insert" /\ w.id = i /\ w.row = r
<1>1. db' = db /\ Pending(p)' = Pending(p) \cup W
  BY ExtendsOutside DEF Extends
<1>2. \A w \in W : w.op = "insert" => w.id \notin 1..given
  BY DEF Extends
<1>3. ASSUME NEW r \in RowsAt(p, i)
      PROVE  r \in RowsAt(p, i)'
  BY <1>1 DEF RowsAt
<1>4. ASSUME NEW r \in RowsAt(p, i)'
      PROVE  r \in RowsAt(p, i) \/ \E w \in W : w.op = "insert" /\ w.id = i /\ w.row = r
  BY <1>1 DEF RowsAt
<1>5. i \in 1..given => RowsAt(p, i)' \subseteq RowsAt(p, i)
  BY <1>2, <1>4
<1>6. QED
  BY <1>3, <1>4, <1>5

LEMMA RowsAtTypes ==
    ASSUME Base, NEW p \in Seeders, Running(p), NEW i \in Ids, NEW r \in RowsAt(p, i)
    PROVE  r \in Row
<1>1. CASE r = db[i] /\ r # Null
  BY <1>1, RowFacts DEF Base
<1>2. ASSUME NEW w \in Pending(p), w.op = "insert", w.row = r PROVE r \in Row
  BY <1>2, PendingFacts
<1>3. QED
  BY <1>1, <1>2, InRowsAt

LEMMA ExtendsReferences ==
    ASSUME Base, NEW p \in Seeders, NEW W, Extends(p, W), Refers(p)
    PROVE  /\ seed[p].admin \in Ids /\ HasAdmin(p) => HasAdmin(p)'
           /\ seed[p].test \in Ids /\ HasTest(p) => HasTest(p)'
           /\ \A q \in Ids : \A t : HasQuestion(p, q, t) => HasQuestion(p, q, t)'
<1>1. seed[p].admin \in Ids /\ HasAdmin(p) => HasAdmin(p)'
  <2> SUFFICES ASSUME seed[p].admin \in Ids, HasAdmin(p) PROVE HasAdmin(p)'
    OBVIOUS
  <2>1. PICK i \in Ids : i = seed[p].admin
    OBVIOUS
  <2>2. seed'[p].admin = i
    BY <2>1, IdFacts DEF Refers
  <2>3. \E r \in RowsAt(p, i)' : r.table = "user" /\ r.key = "admin"
    BY <2>1, ExtendsRows DEF HasAdmin
  <2>4. QED
    BY <2>2, <2>3 DEF HasAdmin
<1>2. seed[p].test \in Ids /\ HasTest(p) => HasTest(p)'
  <2> SUFFICES ASSUME seed[p].test \in Ids, HasTest(p) PROVE HasTest(p)'
    OBVIOUS
  <2>1. PICK i \in Ids : i = seed[p].test
    OBVIOUS
  <2>2. seed'[p].test = i
    BY <2>1, IdFacts DEF Refers
  <2>3. \E r \in RowsAt(p, i)' : r.table = "test"
    BY <2>1, ExtendsRows DEF HasTest
  <2>4. QED
    BY <2>2, <2>3 DEF HasTest
<1>3. ASSUME NEW q \in Ids, NEW t, HasQuestion(p, q, t)
      PROVE  HasQuestion(p, q, t)'
  <2>1. PICK r \in RowsAt(p, q) : r.table = "question" /\ r.parent = seed[p].test /\ r.key = t
    BY <1>3 DEF HasQuestion
  <2>2. Running(p) /\ r \in Row
    BY <2>1, RowsAtTypes DEF Extends
  <2>3. seed[p].test \in Ids
    BY <2>1, <2>2, RowTypes
  <2>4. seed'[p].test = seed[p].test
    BY <2>3, IdFacts DEF Refers
  <2>5. r \in RowsAt(p, q)'
    BY <2>1, ExtendsRows
  <2>6. QED
    BY <2>1, <2>4, <2>5 DEF HasQuestion
<1>4. QED
  BY <1>1, <1>2, <1>3

LEMMA ExtendsWrite ==
    ASSUME Base, NEW p \in Seeders, NEW W, Extends(p, W), Refers(p), NEW w \in Pending(p)
    PROVE  WriteFits(p, w)'
<1> DEFINE s == seed[p]
           t == seed'[p]
<1>1. db' = db /\ Running(p)
  BY ExtendsOutside DEF Extends
<1>2. WriteFits(p, w) /\ w.id \in Ids /\ w.op \in {"insert", "update", "delete"}
  BY <1>1, PendingFacts
<1>3. w.op # "delete" => ContentFits(p, w.row)' /\ PlacedAt(p, w)'
  <2> SUFFICES ASSUME w.op # "delete" PROVE ContentFits(p, w.row)' /\ PlacedAt(p, w)'
    OBVIOUS
  <2>1. /\ w.row \in Row /\ w.row.value = "catalogue" /\ ContentFits(p, w.row)
        /\ w.row.table \in {"user", "test", "question", "case"}
        /\ w.row.table = "user" => w.row.key = "admin" /\ w.row.parent = Null
        /\ w.row.table # "user" => w.row.parent \in Ids
        /\ w.row.table = "test" => w.row.parent = s.admin
        /\ w.row.table = "question" => w.row.parent = s.test /\ w.row.key \in Titles
    BY <1>1, ContentTypes
  <2>2. w.row.table = "case" =>
           /\ w.row.parent \in s.synced
           /\ \E u \in Titles : HasQuestion(p, w.row.parent, u) /\ w.row.key \in KeysOf(u)
    BY <1>1, ContentTypes
  <2>3. w.row.table = "case" =>
           /\ w.row.parent \in t.synced
           /\ \E u \in Titles : HasQuestion(p, w.row.parent, u)' /\ w.row.key \in KeysOf(u)
    BY <2>1, <2>2, ExtendsReferences DEF Refers
  <2>4. w.row.table = "test" => w.row.parent = t.admin
    BY <2>1, IdFacts DEF Refers
  <2>5. w.row.table = "question" => w.row.parent = t.test
    BY <2>1, IdFacts DEF Refers
  <2>6. ContentFits(p, w.row)'
    BY <2>1, <2>3, <2>4, <2>5 DEF ContentFits
  <2>7. PlacedAt(p, w)
    BY <1>2 DEF WriteFits
  <2>8. w.row.table = "user" => w.id = t.admin
    BY <1>2, <2>7, IdFacts DEF PlacedAt, Refers
  <2>9. w.row.table = "test" => w.id = t.test
    BY <1>2, <2>7, IdFacts DEF PlacedAt, Refers
  <2>10. w.row.table = "question" => w.id \in t.synced \/ (AtCases(p)' /\ w.id = t.question)
    BY <1>2, <2>7 DEF PlacedAt, Refers
  <2>11. PlacedAt(p, w)'
    BY <2>8, <2>9, <2>10 DEF PlacedAt
  <2>12. QED
    BY <2>6, <2>11
<1>4. w.id <= given'
  <2>1. w.id <= given /\ given <= given' /\ given' \in 0..MaxId /\ w.id \in Nat /\ given \in Nat /\ MaxId \in Nat
    BY <1>2, IdFacts, GivenFacts DEF WriteFits, Extends, Base
  <2>2. QED
    BY <2>1, SMT
<1>5. w.op = "update" /\ w \in t.sent => db[w.id] # Null
  BY <1>2 DEF WriteFits, Extends
<1>6. w.op = "delete" /\ db[w.id] # Null =>
          \/ db[w.id].table = "question" /\ db[w.id].key \in Retired
          \/ db[w.id].table = "case" /\ db[w.id].parent \in t.synced
  BY <1>2 DEF WriteFits, Refers
<1>7. QED
  BY <1>1, <1>2, <1>3, <1>4, <1>5, <1>6 DEF WriteFits

\* With writes that fit, the session's writes fit.
LEMMA ExtendsWrites ==
    ASSUME Base, NEW p \in Seeders, NEW W, Extends(p, W), Refers(p),
           \A w \in W : WriteFits(p, w)'
    PROVE  WritesFit(p)'
<1>1. Pending(p)' = Pending(p) \cup W
  BY DEF Extends
<1>2. \A w \in Pending(p) \cup W : WriteFits(p, w)'
  BY ExtendsWrite
<1>3. \A w, x \in Pending(p) : w.id = x.id => w = x
  BY PendingFacts DEF Extends
<1>4. \A w, x \in Pending(p) \cup W : w.id = x.id => w = x
  BY <1>3 DEF Extends
<1>5. QED
  BY <1>1, <1>2, <1>4 DEF WritesFit

LEMMA ExtendsGood ==
    ASSUME NEW p, NEW W, Extends(p, W), NEW CONSTANT q, NEW CONSTANT k
    PROVE  Good(p, q, k) \subseteq Good(p, q, k)'
BY ExtendsOutside DEF Good, Extends

\* A question that the session knows keeps its title.
LEMMA ExtendsTitle ==
    ASSUME Base, NEW p \in Seeders, NEW W, Extends(p, W), NEW q \in Ids, NEW t, NEW u,
           HasQuestion(p, q, t), HasQuestion(p, q, u)'
    PROVE  t = u
<1>1. Running(p)
  BY DEF Extends
<1>2. q \in 1..given
  <2>1. CASE db[q] # Null
    BY <2>1, CommittedIsOld DEF Old
  <2>2. CASE db[q] = Null
    <3>1. PICK r \in RowsAt(p, q) : r.key = t
      BY DEF HasQuestion
    <3>2. PICK w \in Pending(p) : w.id = q
      BY <2>2, <3>1, InRowsAt
    <3>3. QED
      BY <1>1, <3>2, IdsGiven
  <2>3. QED
    BY <2>1, <2>2
<1>3. RowsAt(p, q)' = RowsAt(p, q)
  BY <1>2, ExtendsRows
<1>4. PICK r \in RowsAt(p, q) : r.key = t
  BY DEF HasQuestion
<1>5. PICK x \in RowsAt(p, q) : x.key = u
  BY <1>3 DEF HasQuestion
<1>6. QED
  BY <1>1, <1>4, <1>5, OneRowAt

\* The cases of the questions dealt with are as they were.
LEMMA ExtendsDone ==
    ASSUME Base, NEW p \in Seeders, NEW W, Extends(p, W), Refers(p), ~Doomed(p)
    PROVE  /\ \A w \in Pending(p) : w.op = "delete" /\ db[w.id] # Null /\ db[w.id].table = "case" =>
                 \A q, k : q = db[w.id].parent /\ k = db[w.id].key /\ k \in KeysOf(db[q].key) =>
                    \E y \in Good(p, q, k)' : y < w.id
           /\ \A q \in seed[p].synced, title \in Titles : HasQuestion(p, q, title)' =>
                 \A k \in KeysOf(title) :
                    \/ Good(p, q, k)' # {}
                    \/ \E w \in Pending(p)' : /\ w.op = "insert" /\ w.row.table = "case"
                                              /\ w.row.parent = q /\ w.row.key = k
           /\ adds' = 0 => \A y \in Ids :
                 db[y] # Null /\ db[y].table = "case" /\ db[y].parent \in seed[p].synced =>
                    \A q, k : q = db[y].parent /\ k = db[y].key =>
                       \/ \E w \in Pending(p)' : w.op = "delete" /\ w.id = y
                       \/ k \in KeysOf(db[q].key) /\ y \in Good(p, q, k)'
<1>1. db' = db /\ adds' = adds /\ Running(p) /\ Pending(p)' = Pending(p) \cup W
  BY ExtendsOutside DEF Extends
<1>2. DeletesCovered(p) /\ KeysCovered(p) /\ (adds = 0 => NoOthers(p))
  BY <1>1, PendingFacts DEF SessionFits, CasesFit
<1>3. ASSUME NEW w \in Pending(p), w.op = "delete", db[w.id] # Null, db[w.id].table = "case",
             NEW q, q = db[w.id].parent, NEW k, k = db[w.id].key, k \in KeysOf(db[q].key)
      PROVE  \E y \in Good(p, q, k)' : y < w.id
  <2>1. PICK y \in Good(p, q, k) : y < w.id
    BY <1>2, <1>3 DEF DeletesCovered
  <2>2. QED
    BY <2>1, ExtendsGood
<1>4. ASSUME NEW q \in seed[p].synced, NEW title \in Titles, HasQuestion(p, q, title)',
             NEW k \in KeysOf(title)
      PROVE  \/ Good(p, q, k)' # {}
             \/ \E w \in Pending(p)' : /\ w.op = "insert" /\ w.row.table = "case"
                                       /\ w.row.parent = q /\ w.row.key = k
  <2>1. PICK u \in Titles : HasQuestion(p, q, u)
    BY <1>1, SyncedIds
  <2>2. title = u
    BY <1>1, <1>4, <2>1, SyncedIds, ExtendsTitle
  <2>3. \/ Good(p, q, k) # {}
        \/ \E w \in Pending(p) : /\ w.op = "insert" /\ w.row.table = "case"
                                 /\ w.row.parent = q /\ w.row.key = k
    BY <1>2, <1>4, <2>1, <2>2 DEF KeysCovered
  <2>4. QED
    BY <1>1, <2>3, ExtendsGood
<1>5. ASSUME adds' = 0, NEW y \in Ids, db[y] # Null, db[y].table = "case",
             NEW q, q = db[y].parent, NEW k, k = db[y].key, q \in seed[p].synced
      PROVE  \/ \E w \in Pending(p)' : w.op = "delete" /\ w.id = y
             \/ k \in KeysOf(db[q].key) /\ y \in Good(p, q, k)'
  <2>1. \/ \E w \in Pending(p) : w.op = "delete" /\ w.id = y
        \/ k \in KeysOf(db[q].key) /\ y \in Good(p, q, k)
    BY <1>1, <1>2, <1>5 DEF NoOthers
  <2>2. QED
    BY <1>1, <2>1, ExtendsGood
<1>6. QED
  BY <1>3, <1>4, <1>5

LEMMA ExtendsCases ==
    ASSUME Base, NEW p \in Seeders, NEW W, Extends(p, W), Refers(p),
           seed'[p].synced = seed[p].synced, Doomed(p) => Doomed(p)',
           \A w \in W : w.op = "delete" /\ db[w.id] # Null => db[w.id].table # "case"
    PROVE  CasesFit(p)'
<1> SUFFICES ASSUME ~Doomed(p)'
             PROVE  DeletesCovered(p)' /\ KeysCovered(p)' /\ (adds' = 0 => NoOthers(p)')
  BY DEF CasesFit
<1>1. db' = db /\ Pending(p)' = Pending(p) \cup W
  BY ExtendsOutside DEF Extends
<1>2. DeletesCovered(p)'
  <2> SUFFICES ASSUME NEW w \in Pending(p) \cup W, w.op = "delete", db[w.id] # Null, db[w.id].table = "case",
                      NEW q, q = db[w.id].parent, NEW k, k = db[w.id].key, k \in KeysOf(db[q].key)
               PROVE  \E y \in Good(p, q, k)' : y < w.id
    BY <1>1 DEF DeletesCovered
  <2>1. w \in Pending(p)
    OBVIOUS
  <2>2. QED
    BY <2>1, ExtendsDone
<1>3. KeysCovered(p)'
  BY ExtendsDone DEF KeysCovered
<1>4. ASSUME adds' = 0 PROVE NoOthers(p)'
  <2> SUFFICES ASSUME NEW y \in Ids, db[y] # Null, db[y].table = "case",
                      NEW q, q = db[y].parent, NEW k, k = db[y].key, q \in seed[p].synced
               PROVE  \/ \E w \in Pending(p)' : w.op = "delete" /\ w.id = y
                      \/ k \in KeysOf(db[q].key) /\ y \in Good(p, q, k)'
    BY <1>1 DEF NoOthers
  <2>1. QED
    BY <1>4, ExtendsDone
<1>5. QED
  BY <1>2, <1>3, <1>4

LEMMA GotoIsOwn ==
    ASSUME TypeOK, NEW p \in Seeders, NEW s, NEW c, Goto(p, s, c)
    PROVE  seed' = [seed EXCEPT ![p] = seed'[p]]
<1>1. seed' = [seed EXCEPT ![p] = [s EXCEPT !.pc = c]] /\ seed \in [Seeders -> Session \cup {Idle}]
  BY DEF Goto, TypeOK
<1> DEFINE x == [s EXCEPT !.pc = c]
<1>2. seed' = [seed EXCEPT ![p] = x]
  BY <1>1
<1> HIDE DEF x
<1>3. seed'[p] = x
  BY <1>1, <1>2
<1>4. QED
  BY <1>2, <1>3

LEMMA LookUpIsOwn ==
    ASSUME TypeOK, NEW p \in Seeders, NEW found, NEW row, NEW field, NEW next,
           LookUp(p, found, row, field, next)
    PROVE  seed' = [seed EXCEPT ![p] = seed'[p]]
BY GotoIsOwn DEF LookUp

\* What a session keeps knowing when none of its writes is a DELETE.
LEMMA ExtendsKnown ==
    ASSUME Base, NEW p \in Seeders, NEW W, Extends(p, W),
           seed'[p].known = seed[p].known, seed'[p].check \subseteq seed[p].check,
           \A w \in W : w.op # "delete"
    PROVE  KnownFits(p)'
<1>1. Running(p) /\ db' = db /\ Pending(p)' = Pending(p) \cup W
  BY ExtendsOutside DEF Extends
<1>2. KnownFits(p) /\ seed[p].known \subseteq Ids
  BY <1>1, PendingFacts, SessionTypes DEF SessionFits
<1>3. \A i \in Ids : Old(i) => Old(i)'
  BY ExtendsQuiet DEF QuietRows
<1>4. QED
  BY <1>1, <1>2, <1>3 DEF KnownFits

LEMMA ExtendsSynced ==
    ASSUME Base, NEW p \in Seeders, NEW W, Extends(p, W), Refers(p),
           seed'[p].synced = seed[p].synced, seed'[p].nth = seed[p].nth
    PROVE  /\ \A q \in seed'[p].synced : \E n \in 1..(seed'[p].nth - 1) : HasQuestion(p, q, Catalogue[n])'
           /\ \A n \in 1..(seed'[p].nth - 1) : \E q \in seed'[p].synced : HasQuestion(p, q, Catalogue[n])'
<1>1. Running(p) /\ seed[p].synced \subseteq Ids
  BY PendingFacts, SessionTypes DEF Extends
<1>2. PlaceFits(p)
  BY <1>1, PendingFacts DEF SessionFits
<1>3. \A q \in Ids : \A t : HasQuestion(p, q, t) => HasQuestion(p, q, t)'
  BY ExtendsReferences
<1>4. QED
  BY <1>1, <1>2, <1>3 DEF PlaceFits

\* A row is looked up: it is added, or one that the session has not touched is
\* brought up to date.
LEMMA LookUpExtends ==
    ASSUME Base, NEW p \in Seeders, Running(p), Steps(p), SameElse(p),
           seed' = [seed EXCEPT ![p] = seed'[p]],
           NEW row \in Row, NEW next, NEW found, NEW i \in Ids,
           \/ found = {} /\ Adds(p, row, next) /\ i = given + 1
           \/ i \in found /\ Takes(p, i, row, next),
           i \in found => db[i] # Null /\ SameRow(db[i], row) /\ \A w \in Pending(p) : w.id # i
    PROVE  /\ \E W : /\ Extends(p, W) /\ W \subseteq {Insert(i, row), Update(i, row)}
                     /\ Insert(i, row) \in W => db[i] = Null
                     /\ Update(i, row) \in W => db[i] # Null
           /\ \E r \in RowsAt(p, i)' : SameRow(r, row)
           /\ Doomed(p) => Doomed(p)'
<1> DEFINE s == seed[p]
           t == seed'[p]
<1>1. /\ db' = db /\ t.sent = s.sent /\ given \in 0..MaxId /\ given \in Nat /\ MaxId \in Nat
      /\ TypeOK
  BY GivenFacts, IdFacts DEF Steps, SameElse, outside, Base
<1>2. \A q \in Seeders : q # p /\ Running(q) => \A w \in s.sent, x \in seed[q].sent : db[w.id] # Null => w.id # x.id
  BY DEF Base, SessionsInv, Apart
<1>3. Pending(p) \subseteq Write /\ (\A w \in Pending(p) : w.id \in 1..given) /\ \A w \in Pending(p) : w.id \in Ids
  BY PendingFacts, IdsGiven
<1>4. CASE found = {} /\ Adds(p, row, next) /\ i = given + 1
  <2> DEFINE w == Insert(i, row)
             W == {w}
  <2>1. given' = i /\ given <= i /\ i \in 0..MaxId /\ i \notin 1..given
    BY <1>1, <1>4, IdFacts, SMT DEF Adds
  <2>2. t.unsent = s.unsent \cup {w}
    BY <1>4 DEF Adds
  <2>3. w \in Write /\ w.id = i /\ w.op = "insert" /\ w.row = row
    BY WritesMade
  <2>4. db[i] = Null
    <3>1. db[i] # Null => i <= given
      BY DEF Base, DatabaseInv
    <3>2. QED
      BY <1>1, <1>4, <3>1, SMT
  <2> HIDE DEF w
  <2>5. Pending(p)' = Pending(p) \cup {w}
    BY <1>1, <2>2 DEF Pending
  <2>6. i <= given'
    BY <2>1, SMT
  <2>7. Extends(p, {w})
    BY <1>1, <1>2, <1>3, <2>1, <2>3, <2>5, <2>6 DEF Extends
  <2>8. row \in RowsAt(p, i)'
    BY <2>3, <2>5 DEF RowsAt
  <2>9. Update(i, row) # w
    BY <2>3, WritesMade
  <2>10. Doomed(p) => Doomed(p)'
    BY <1>1, <2>2 DEF Doomed
  <2>11. SameRow(row, row)
    BY DEF SameRow
  <2>12. QED
    BY <2>4, <2>7, <2>8, <2>9, <2>10, <2>11 DEF w
<1>5. CASE i \in found /\ Takes(p, i, row, next)
  <2> DEFINE W == Setting(i, View(p)[i], row)
             u == Update(i, row)
  <2>1. given' = given /\ t.unsent = s.unsent \cup W
    BY <1>5 DEF Takes
  <2>2. W \subseteq {u} /\ W \subseteq Write
    BY SettingFacts
  <2>3. u.id = i /\ u.op = "update" /\ u.row = row
    BY WritesMade
  <2>4. db[i] # Null /\ SameRow(db[i], row) /\ \A w \in Pending(p) : w.id # i
    BY <1>5
  <2> HIDE DEF W, u
  <2>5. Pending(p)' = Pending(p) \cup W
    BY <1>1, <2>1 DEF Pending
  <2>6. given <= given' /\ given' \in 0..MaxId /\ Old(i)
    BY <1>1, <2>1, <2>4, CommittedIsOld, SMT
  <2>7. Extends(p, W)
    BY <1>1, <1>2, <2>2, <2>3, <2>4, <2>5, <2>6 DEF Extends
  <2>8. db[i] \in RowsAt(p, i)'
    BY <1>1, <2>4 DEF RowsAt
  <2>9. Insert(i, row) # u
    BY <2>3, WritesMade
  <2>10. Doomed(p) => Doomed(p)'
    BY <1>1, <2>1 DEF Doomed
  <2>11. W \subseteq {Insert(i, row), Update(i, row)} /\ Insert(i, row) \notin W
    BY <2>2, <2>9 DEF u
  <2>12. QED
    BY <2>4, <2>7, <2>8, <2>10, <2>11
<1>6. QED
  BY <1>4, <1>5

\* The writes of a session that has looked a row up fit, if the row does.
LEMMA LookUpWrites ==
    ASSUME Base, NEW p \in Seeders, NEW W, Extends(p, W), Refers(p),
           NEW row \in Row, NEW i \in Ids, W \subseteq {Insert(i, row), Update(i, row)},
           Insert(i, row) \in W => db[i] = Null,
           Update(i, row) \in W => db[i] # Null /\ SameRow(db[i], row),
           i <= given', ContentFits(p, row)',
           PlacedAt(p, Insert(i, row))', PlacedAt(p, Update(i, row))',
           SameElse(p), Doomed(p) => Doomed(p)'
    PROVE  WritesFit(p)' /\ KnownFits(p)' /\ CasesFit(p)'
<1>1. db' = db
  BY ExtendsOutside
<1>2. /\ Insert(i, row).op = "insert" /\ Insert(i, row).id = i /\ Insert(i, row).row = row
      /\ Update(i, row).op = "update" /\ Update(i, row).id = i /\ Update(i, row).row = row
  BY WritesMade
<1>3. ASSUME NEW w \in W PROVE WriteFits(p, w)' /\ w.op # "delete"
  <2>1. CASE w = Insert(i, row)
    <3> HIDE DEF Insert
    <3>1. w.id = i /\ w.op = "insert" /\ w.row = row /\ PlacedAt(p, w)' /\ db[w.id] = Null
      BY <1>2, <1>3, <2>1
    <3>2. QED
      BY <1>1, <3>1 DEF WriteFits
  <2>2. CASE w = Update(i, row)
    <3>1. w.id = i /\ w.op = "update" /\ w.row = row /\ PlacedAt(p, w)' /\ db[w.id] # Null
          /\ SameRow(db[w.id], row)
      BY <1>2, <1>3, <2>2
    <3>2. QED
      BY <1>1, <3>1 DEF WriteFits
  <2>3. QED
    BY <1>3, <2>1, <2>2
<1>4. WritesFit(p)'
  BY <1>3, ExtendsWrites
<1>5. KnownFits(p)'
  BY <1>3, ExtendsKnown DEF SameElse
<1>6. CasesFit(p)'
  BY <1>3, ExtendsCases DEF SameElse
<1>7. QED
  BY <1>4, <1>5, <1>6

\* The id of a row that was added, or found.
LEMMA NotGivenYet ==
    ASSUME Base, NEW i \in Ids, i = given + 1
    PROVE  db[i] = Null
<1>1. db[i] # Null => i <= given
  BY DEF Base, DatabaseInv
<1>2. given \in Nat
  BY GivenFacts DEF Base
<1>3. QED
  BY <1>1, <1>2, SMT

LEMMA LookUpId ==
    ASSUME Base, NEW p, NEW row, NEW next, NEW found \in SUBSET Ids, NEW i \in Ids,
           \/ found = {} /\ Adds(p, row, next) /\ i = given + 1
           \/ i \in found /\ Takes(p, i, row, next),
           \A j \in found : db[j] # Null
    PROVE  i <= given'
<1>1. i \in Nat /\ given \in Nat
  BY IdFacts, GivenFacts DEF Base
<1>2. CASE Adds(p, row, next) /\ i = given + 1
  BY <1>1, <1>2, SMT DEF Adds
<1>3. CASE i \in found /\ Takes(p, i, row, next)
  <2>1. i <= given /\ given' = given
    BY <1>3 DEF Base, DatabaseInv, Takes
  <2>2. QED
    BY <2>1
<1>4. QED
  BY <1>2, <1>3

\* What a SELECT returns is committed and not written by the session, or what
\* the session has flushed.
LEMMA ViewRow ==
    ASSUME Base, NEW p \in Seeders, Running(p), NEW i \in Ids, View(p)[i] # Null
    PROVE  \/ View(p)[i] = db[i] /\ \A w \in seed[p].sent : w.id # i
           \/ \E w \in seed[p].sent : w.id = i /\ w.op # "delete" /\ View(p)[i] = w.row
<1>1. CASE seed[p].sent = {}
  BY <1>1 DEF View
<1>2. CASE seed[p].sent # {}
  <2> DEFINE rows == Written(db, seed[p].sent)
  <2>1. \A w, x \in seed[p].sent : w.id = x.id => w = x
    BY PendingFacts
  <2>2. /\ \A w \in seed[p].sent : w.id = i => rows[i] = w.row
        /\ (\A w \in seed[p].sent : w.id # i) => rows[i] = db[i]
    BY <2>1, WrittenRow
  <2>3. View(p)[i] = IF Orphan(rows, i) THEN Null ELSE rows[i]
    BY <1>2, AppliedRow DEF View
  <2> HIDE DEF rows
  <2>4. View(p)[i] = rows[i]
    BY <2>3
  <2>5. \A w \in seed[p].sent : w.op = "delete" => w.row = Null
    BY PendingFacts
  <2>6. QED
    BY <2>2, <2>4, <2>5
<1>3. QED
  BY <1>1, <1>2

\* A committed row that is in nobody's way is seen.
LEMMA ViewCommitted ==
    ASSUME Base, NEW p \in Seeders, Running(p), NEW i \in Ids,
           \A w \in Pending(p) : w.id # i,
           db[i] # Null /\ db[i].parent \in Ids =>
              \A w \in Pending(p) : w.id = db[i].parent => w.op # "delete"
    PROVE  View(p)[i] = db[i]
<1>1. CASE seed[p].sent = {}
  BY <1>1 DEF View
<1>2. CASE seed[p].sent # {}
  <2> DEFINE rows == Written(db, seed[p].sent)
  <2>1. (\A w, x \in seed[p].sent : w.id = x.id => w = x) /\ seed[p].sent \subseteq Pending(p)
    BY PendingFacts
  <2>2. rows[i] = db[i]
    BY <2>1, WrittenRow
  <2>3. ~Orphan(rows, i)
    <3> SUFFICES ASSUME db[i] # Null, db[i].parent \in Ids, rows[db[i].parent] = Null PROVE FALSE
      BY <2>2 DEF Orphan
    <3>1. PICK j \in Ids : j = db[i].parent
      OBVIOUS
    <3>2. db[j] # Null
      <4>1. db[i].table # "user"
        BY <3>1, RowFacts, IdFacts DEF Base
      <4>2. QED
        BY <3>1, <4>1, RowFacts DEF Base
    <3>3. /\ \A w \in seed[p].sent : w.id = j => rows[j] = w.row
          /\ (\A w \in seed[p].sent : w.id # j) => rows[j] = db[j]
      BY <2>1, WrittenRow
    <3>4. PICK w \in seed[p].sent : w.id = j /\ rows[j] = w.row
      BY <3>2, <3>3, <3>1
    <3>5. w.op # "delete" /\ w \in Pending(p)
      BY <2>1, <3>1, <3>4
    <3>6. w.row # Null
      BY <3>5, PendingFacts, IdFacts
    <3>7. QED
      BY <3>1, <3>4, <3>6
  <2>4. View(p)[i] = IF Orphan(rows, i) THEN Null ELSE rows[i]
    BY <1>2, AppliedRow DEF View
  <2> HIDE DEF rows
  <2>5. QED
    BY <2>2, <2>3, <2>4
<1>3. QED
  BY <1>1, <1>2

LEMMA FindAdminStep ==
    ASSUME IndInv, NEW p \in Seeders, FindAdmin(p)
    PROVE  IndInv'
<1> DEFINE s == seed[p]
           t == seed'[p]
           row == [table |-> "user", parent |-> Null, key |-> "admin", value |-> "catalogue"]
           found == Select(p, "user", Null, "admin")
<1>1. Base /\ TypeOK /\ s.pc = "admin" /\ Running(p) /\ UNCHANGED outside
  BY RunningSession DEF IndInv, Base, FindAdmin, SeedPCs
<1>2. /\ row \in Row /\ row.table = "user" /\ row.key = "admin" /\ row.value = "catalogue"
      /\ row.parent = Null
  BY RowsMade
<1>3. LookUp(p, found, row, "admin", "test")
  BY DEF FindAdmin
<1>4. found \in SUBSET Ids
  BY DEF Select
<1>5. /\ s \in Session /\ PlaceFits(p) /\ Pending(p) = {} /\ s.sent = {} /\ s.unsent = {}
      /\ s.test = Null /\ s.nth = 1 /\ s.synced = {} /\ s.check = {} /\ s.known = {}
      /\ s.admin = Null
  <2>1. s \in Session /\ PlaceFits(p)
    BY <1>1, PendingFacts DEF SessionFits
  <2>2. /\ s.unsent = {} /\ s.sent = {} /\ s.test = Null /\ s.admin = Null /\ ~(s.nth > 1)
        /\ s.check = {} /\ s.known = {}
    BY <1>1, <2>1 DEF PlaceFits, BeforeTest, BeforeCheck
  <2>3. s.nth \in 1..(Len(Catalogue) + 1)
    BY <2>1, SessionTypes
  <2>4. s.nth = 1 /\ 1..(s.nth - 1) = {}
    BY <2>2, <2>3, CatalogueFacts, SMT
  <2>5. s.synced = {}
    BY <2>1, <2>4 DEF PlaceFits
  <2>6. QED
    BY <2>1, <2>2, <2>4, <2>5 DEF Pending
<1>6. \A j \in found : db[j] # Null /\ SameRow(db[j], row) /\ \A w \in Pending(p) : w.id # j
  <2> SUFFICES ASSUME NEW j \in found PROVE db[j] # Null /\ SameRow(db[j], row)
    BY <1>5
  <2>1. j \in Ids /\ db[j] # Null /\ db[j].table = "user" /\ db[j].key = "admin"
    BY <1>5 DEF Select, View
  <2>2. db[j].parent = Null
    BY <1>1, <2>1, RowFacts
  <2>3. QED
    BY <1>2, <2>1, <2>2 DEF SameRow
<1>7. seed' = [seed EXCEPT ![p] = seed'[p]]
  BY <1>1, <1>3, LookUpIsOwn
<1> HIDE DEF row, found
<1>8. /\ Steps(p) /\ SameElse(p)
      /\ \E i \in Ids :
            /\ \/ found = {} /\ Adds(p, row, "test") /\ i = given + 1
               \/ i \in found /\ Takes(p, i, row, "test")
            /\ t.admin = i /\ t.test = s.test /\ t.question = s.question
  <2>1. "test" \in SeedPCs /\ "admin" \in {"admin", "test", "question"}
    BY DEF SeedPCs
  <2>2. /\ Steps(p) /\ SameElse(p)
        /\ \E i \in Ids :
              /\ \/ found = {} /\ Adds(p, row, "test") /\ i = given + 1
                 \/ i \in found /\ Takes(p, i, row, "test")
              /\ seed'[p].admin = IF "admin" = "admin" THEN i ELSE seed[p].admin
              /\ seed'[p].test = IF "admin" = "test" THEN i ELSE seed[p].test
              /\ seed'[p].question = IF "admin" = "question" THEN i ELSE seed[p].question
    BY <1>1, <1>2, <1>3, <1>4, <2>1, LookUpStep
  <2>3. QED
    BY <2>2
<1>9. PICK i \in Ids :
            /\ \/ found = {} /\ Adds(p, row, "test") /\ i = given + 1
               \/ i \in found /\ Takes(p, i, row, "test")
            /\ t.admin = i /\ t.test = s.test /\ t.question = s.question
  BY <1>8
<1>10. /\ \E W : /\ Extends(p, W) /\ W \subseteq {Insert(i, row), Update(i, row)}
                 /\ Insert(i, row) \in W => db[i] = Null
                 /\ Update(i, row) \in W => db[i] # Null
       /\ \E r \in RowsAt(p, i)' : SameRow(r, row)
       /\ Doomed(p) => Doomed(p)'
  BY <1>1, <1>2, <1>6, <1>7, <1>8, <1>9, LookUpExtends
<1>11. PICK W : /\ Extends(p, W) /\ W \subseteq {Insert(i, row), Update(i, row)}
                /\ Insert(i, row) \in W => db[i] = Null
                /\ Update(i, row) \in W => db[i] # Null
  BY <1>10
<1>12. PICK r \in RowsAt(p, i)' : SameRow(r, row)
  BY <1>10
<1>13. \/ t.pc = "flush" /\ t.next = "test"
       \/ t.pc = "test"
  BY <1>9 DEF Adds, Takes
<1>14. BeforeTest(p)' /\ BeforeCheck(p)' /\ ~AtCases(p)'
  BY <1>13 DEF BeforeTest, BeforeCheck, AtCases
<1>15. Refers(p)
  BY <1>1, <1>5, <1>8 DEF Refers, SameElse, AtCases
<1>16. /\ t.synced = {} /\ t.nth = 1 /\ t.check = {} /\ t.known = {} /\ t.test = Null
       /\ Pending(p)' = W
  BY <1>5, <1>8, <1>9, <1>11 DEF SameElse, Extends
<1>17. HasAdmin(p)'
  BY <1>2, <1>9, <1>12 DEF HasAdmin, SameRow
<1>18. \A w \in W : w.op # "delete"
  BY <1>2, <1>11, WritesMade
<1>19. PlaceFits(p)'
  <2>1. 1..(t.nth - 1) = {} /\ ~(t.nth > 1) /\ ~(t.nth > Len(Catalogue))
    BY <1>16, CatalogueFacts, SMT
  <2>2. t.admin \in Ids
    BY <1>9
  <2>3. /\ t.pc # "admin" /\ t.pc # "commit" /\ (t.pc = "flush" => t.next = "test")
    BY <1>13
  <2>4. QED
    BY <1>14, <1>16, <1>17, <1>18, <2>1, <2>2, <2>3 DEF PlaceFits
<1>20. WritesFit(p)' /\ KnownFits(p)' /\ CasesFit(p)'
  <2>1. ContentFits(p, row)'
    BY <1>2 DEF ContentFits
  <2>2. PlacedAt(p, Insert(i, row))' /\ PlacedAt(p, Update(i, row))'
    BY <1>2, <1>9, WritesMade DEF PlacedAt
  <2>3. Update(i, row) \in W => SameRow(db[i], row)
    <3>1. CASE i \in found
      BY <1>6, <3>1
    <3>2. CASE i = given + 1
      BY <1>1, <1>11, <3>2, NotGivenYet
    <3>3. QED
      BY <1>9, <3>1, <3>2
  <2>4. i <= given'
    BY <1>1, <1>4, <1>6, <1>9, LookUpId
  <2>5. QED
    BY <1>1, <1>2, <1>8, <1>10, <1>11, <1>15, <2>1, <2>2, <2>3, <2>4, LookUpWrites
<1>21. SessionFits(p)'
  BY <1>19, <1>20 DEF SessionFits
<1>22. QED
  BY <1>11, <1>21, OwnStep

\* Until it has looked for its contest a seed writes its administrator at most.
LEMMA OnlyUsers ==
    ASSUME Base, NEW p \in Seeders, Running(p), BeforeTest(p)
    PROVE  /\ seed[p].test = Null /\ seed[p].nth = 1 /\ seed[p].synced = {}
           /\ seed[p].check = {} /\ seed[p].known = {}
           /\ \A w \in Pending(p) : w.op # "delete" /\ w.row.table = "user"
<1> DEFINE s == seed[p]
<1>1. s \in Session /\ PlaceFits(p)
  BY PendingFacts DEF SessionFits
<1>2. /\ s.test = Null /\ s.known = {} /\ \A w \in Pending(p) : w.op # "delete"
  BY <1>1 DEF PlaceFits, BeforeCheck
<1>3. ~(s.nth > 1) /\ s.check = {}
  BY <1>1 DEF PlaceFits, BeforeTest
<1>4. s.nth \in 1..(Len(Catalogue) + 1)
  BY <1>1, SessionTypes
<1>5. s.nth = 1 /\ 1..(s.nth - 1) = {}
  BY <1>3, <1>4, CatalogueFacts, SMT
<1>6. s.synced = {}
  BY <1>1, <1>5 DEF PlaceFits
<1>7. ASSUME NEW w \in Pending(p) PROVE w.row.table = "user"
  <2>1. WriteFits(p, w) /\ w.op \in {"insert", "update"} /\ w.id \in Ids
    BY <1>2, PendingFacts
  <2>2. PlacedAt(p, w)
    BY <2>1 DEF WriteFits
  <2>3. w.row.table \in {"user", "test", "question", "case"}
    BY <1>2, ContentTypes
  <2>4. w.row.table # "test"
    BY <1>2, <2>1, <2>2, IdFacts DEF PlacedAt
  <2>5. w.row.table # "question"
    BY <1>2, ContentTypes, IdFacts
  <2>6. w.row.table # "case"
    BY <1>2, <1>6, ContentTypes
  <2>7. QED
    BY <2>3, <2>4, <2>5, <2>6
<1>8. QED
  BY <1>2, <1>3, <1>5, <1>6, <1>7

\* A contest it finds is a committed one, which it has not written.
LEMMA ContestFound ==
    ASSUME Base, NEW p \in Seeders, seed[p].pc = "test", NEW j \in Contests(p)
    PROVE  /\ j \in Ids /\ db[j] # Null /\ db[j].table = "test" /\ db[j].key = "contest"
           /\ \A w \in Pending(p) : w.id # j
<1>1. Running(p) /\ BeforeTest(p)
  BY RunningSession DEF Base, SeedPCs, BeforeTest
<1>2. j \in Ids /\ View(p)[j] # Null /\ View(p)[j].table = "test" /\ View(p)[j].key = "contest"
  BY DEF Contests, Select
<1>3. \A w \in seed[p].sent : w.row.table = "user"
  BY <1>1, OnlyUsers DEF Pending
<1>4. db[j] = View(p)[j]
  BY <1>1, <1>2, <1>3, ViewRow
<1>5. ASSUME NEW w \in Pending(p), w.id = j PROVE FALSE
  <2>1. WriteFits(p, w) /\ w.op \in {"insert", "update"} /\ w.row.table = "user"
    BY <1>1, OnlyUsers, PendingFacts
  <2>2. QED
    BY <1>2, <1>4, <1>5, <2>1 DEF WriteFits, SameRow
<1>6. QED
  BY <1>2, <1>4, <1>5

LEMMA FindTestStep ==
    ASSUME IndInv, NEW p \in Seeders, FindTest(p)
    PROVE  IndInv'
<1> DEFINE s == seed[p]
           t == seed'[p]
           found == Contests(p)
<1>1. Base /\ TypeOK /\ s.pc = "test" /\ Running(p) /\ UNCHANGED outside
  BY RunningSession DEF IndInv, Base, FindTest, SeedPCs
<1>2. /\ s \in Session /\ PlaceFits(p) /\ s.admin \in Ids /\ HasAdmin(p) /\ BeforeTest(p)
  BY <1>1, PendingFacts DEF SessionFits, PlaceFits, BeforeTest
<1>3. PICK row \in Row :
           row = [table |-> "test", parent |-> s.admin, key |-> "contest", value |-> "catalogue"]
  BY <1>2, RowsMade
<1>4. /\ row.table = "test" /\ row.key = "contest" /\ row.value = "catalogue"
      /\ row.parent = s.admin
  BY <1>3
<1>5. LookUp(p, found, row, "test", "retired")
  BY <1>3 DEF FindTest
<1>6. found \in SUBSET Ids
  BY DEF Contests, Select
<1>7. \A j \in found : db[j] # Null /\ SameRow(db[j], row) /\ \A w \in Pending(p) : w.id # j
  BY <1>1, <1>4, ContestFound DEF SameRow
<1>8. seed' = [seed EXCEPT ![p] = seed'[p]]
  BY <1>1, <1>5, LookUpIsOwn
<1> HIDE DEF found
<1>9. /\ Steps(p) /\ SameElse(p)
      /\ \E i \in Ids :
            /\ \/ found = {} /\ Adds(p, row, "retired") /\ i = given + 1
               \/ i \in found /\ Takes(p, i, row, "retired")
            /\ t.admin = s.admin /\ t.test = i /\ t.question = s.question
  <2>1. "retired" \in SeedPCs /\ "test" \in {"admin", "test", "question"}
    BY DEF SeedPCs
  <2>2. /\ Steps(p) /\ SameElse(p)
        /\ \E i \in Ids :
              /\ \/ found = {} /\ Adds(p, row, "retired") /\ i = given + 1
                 \/ i \in found /\ Takes(p, i, row, "retired")
              /\ seed'[p].admin = IF "test" = "admin" THEN i ELSE seed[p].admin
              /\ seed'[p].test = IF "test" = "test" THEN i ELSE seed[p].test
              /\ seed'[p].question = IF "test" = "question" THEN i ELSE seed[p].question
    BY <1>1, <1>4, <1>5, <1>6, <2>1, LookUpStep
  <2>3. QED
    BY <2>2
<1>10. PICK i \in Ids :
            /\ \/ found = {} /\ Adds(p, row, "retired") /\ i = given + 1
               \/ i \in found /\ Takes(p, i, row, "retired")
            /\ t.admin = s.admin /\ t.test = i /\ t.question = s.question
  BY <1>9
<1>11. /\ \E W : /\ Extends(p, W) /\ W \subseteq {Insert(i, row), Update(i, row)}
                 /\ Insert(i, row) \in W => db[i] = Null
                 /\ Update(i, row) \in W => db[i] # Null
       /\ \E r \in RowsAt(p, i)' : SameRow(r, row)
       /\ Doomed(p) => Doomed(p)'
  <2>1. i \in found => db[i] # Null /\ SameRow(db[i], row) /\ \A w \in Pending(p) : w.id # i
    BY <1>7
  <2>2. Base /\ Running(p) /\ Steps(p) /\ SameElse(p) /\ row \in Row
    BY <1>1, <1>9, <1>4
  <2>3. \/ found = {} /\ Adds(p, row, "retired") /\ i = given + 1
        \/ i \in found /\ Takes(p, i, row, "retired")
    BY <1>10
  <2>4. QED
    BY <1>8, <2>1, <2>2, <2>3, LookUpExtends
<1>12. PICK W : /\ Extends(p, W) /\ W \subseteq {Insert(i, row), Update(i, row)}
                /\ Insert(i, row) \in W => db[i] = Null
                /\ Update(i, row) \in W => db[i] # Null
  BY <1>11
<1>13. PICK r \in RowsAt(p, i)' : SameRow(r, row)
  BY <1>11
<1>14. \/ t.pc = "flush" /\ t.next = "retired"
       \/ t.pc = "retired"
  BY <1>10 DEF Adds, Takes
<1>15. ~BeforeTest(p)' /\ ~AtCases(p)'
  BY <1>14 DEF BeforeTest, AtCases
<1>16. Refers(p)
  BY <1>1, <1>2, <1>9, <1>10, OnlyUsers DEF Refers, SameElse, AtCases
<1>17. /\ t.synced = {} /\ t.nth = 1 /\ t.check = {} /\ t.known = {}
       /\ Pending(p)' = Pending(p) \cup W
  BY <1>1, <1>2, <1>9, <1>10, <1>12, OnlyUsers DEF SameElse, Extends
<1>18. HasTest(p)'
  BY <1>4, <1>10, <1>13 DEF HasTest, SameRow
<1>19. \A w \in Pending(p) \cup W : w.op # "delete"
  BY <1>1, <1>2, <1>4, <1>12, OnlyUsers, WritesMade
<1>20. PlaceFits(p)'
  <2>1. 1..(t.nth - 1) = {} /\ ~(t.nth > 1) /\ ~(t.nth > Len(Catalogue))
    BY <1>17, CatalogueFacts, SMT
  <2>2. t.admin \in Ids /\ t.test \in Ids /\ HasAdmin(p)'
    BY <1>1, <1>2, <1>10, <1>12, <1>16, ExtendsReferences
  <2>3. /\ t.pc # "admin" /\ t.pc # "commit" /\ (t.pc = "flush" => t.next = "retired")
    BY <1>14
  <2>4. QED
    BY <1>15, <1>17, <1>18, <1>19, <2>1, <2>2, <2>3 DEF PlaceFits
<1>21. WritesFit(p)' /\ KnownFits(p)' /\ CasesFit(p)'
  <2>1. ContentFits(p, row)'
    BY <1>4, <1>10 DEF ContentFits
  <2>2. PlacedAt(p, Insert(i, row))' /\ PlacedAt(p, Update(i, row))'
    BY <1>4, <1>10, WritesMade DEF PlacedAt
  <2>3. Update(i, row) \in W => SameRow(db[i], row)
    <3>1. CASE i \in found
      BY <1>7, <3>1
    <3>2. CASE i = given + 1
      BY <1>1, <1>12, <3>2, NotGivenYet
    <3>3. QED
      BY <1>10, <3>1, <3>2
  <2>4. i <= given'
    BY <1>1, <1>6, <1>7, <1>10, LookUpId
  <2>5. QED
    BY <1>1, <1>4, <1>9, <1>11, <1>12, <1>16, <2>1, <2>2, <2>3, <2>4, LookUpWrites
<1>22. SessionFits(p)'
  BY <1>20, <1>21 DEF SessionFits
<1>23. QED
  BY <1>12, <1>22, OwnStep

\* A question the session has dealt with has another title.
LEMMA AnotherTitle ==
    ASSUME Base, NEW p \in Seeders, Running(p), seed[p].nth \in 1..Len(Catalogue),
           NEW q \in seed[p].synced
    PROVE  ~HasQuestion(p, q, Title(p))
<1>1. PlaceFits(p)
  BY PendingFacts DEF SessionFits
<1>2. PICK n \in 1..(seed[p].nth - 1) : HasQuestion(p, q, Catalogue[n])
  BY <1>1 DEF PlaceFits
<1>3. n \in 1..Len(Catalogue) /\ n # seed[p].nth
  BY <1>2, CatalogueFacts, SMT
<1>4. Catalogue[n] # Catalogue[seed[p].nth]
  BY <1>3, CatalogueAssumption
<1>5. QED
  BY <1>2, <1>4, OneTitle DEF Title

\* The place in the catalogue while it works on a question.
LEMMA AtAQuestion ==
    ASSUME Base, NEW p \in Seeders, seed[p].pc \in {"question", "cases"}
    PROVE  /\ Running(p) /\ seed[p] \in Session /\ PlaceFits(p)
           /\ seed[p].nth \in 1..Len(Catalogue) /\ Title(p) \in Titles
           /\ seed[p].admin \in Ids /\ HasAdmin(p) /\ seed[p].test \in Ids /\ HasTest(p)
           /\ seed[p].check = {}
<1> DEFINE s == seed[p]
<1>1. Running(p)
  BY RunningSession DEF Base, SeedPCs
<1>2. s \in Session /\ PlaceFits(p)
  BY <1>1, PendingFacts DEF SessionFits
<1>3. ~(s.nth > Len(Catalogue)) /\ s.nth \in 1..(Len(Catalogue) + 1)
  BY <1>2, SessionTypes DEF PlaceFits
<1>4. s.nth \in 1..Len(Catalogue)
  BY <1>3, CatalogueFacts, SMT
<1>5. Title(p) \in Titles
  BY <1>4, CatalogueFacts DEF Title
<1>6. s.admin \in Ids /\ HasAdmin(p) /\ s.test \in Ids /\ HasTest(p) /\ s.check = {}
  BY <1>2 DEF PlaceFits, BeforeTest
<1>7. QED
  BY <1>1, <1>2, <1>4, <1>5, <1>6

\* It has not written a question of the title it is at ...
LEMMA TitleUnwritten ==
    ASSUME Base, NEW p \in Seeders, seed[p].pc = "question",
           NEW w \in Pending(p), w.op # "delete", w.row.table = "question"
    PROVE  w.row.key # Title(p)
<1> SUFFICES ASSUME w.row.key = Title(p) PROVE FALSE
  OBVIOUS
<1>1. Running(p) /\ seed[p].nth \in 1..Len(Catalogue) /\ ~AtCases(p)
  BY AtAQuestion DEF AtCases
<1>2. WriteFits(p, w) /\ w.op \in {"insert", "update"} /\ w.row.parent = seed[p].test
  BY <1>1, PendingFacts, ContentTypes
<1>3. w.id \in seed[p].synced
  BY <1>1, <1>2 DEF WriteFits, PlacedAt
<1>4. PICK r \in RowsAt(p, w.id) : SameRow(r, w.row)
  <2>1. CASE w.op = "insert"
    BY <1>2, <2>1, ContentTypes, <1>1, RowTypes DEF RowsAt, SameRow
  <2>2. CASE w.op = "update"
    BY <1>2, <2>2 DEF RowsAt, WriteFits
  <2>3. QED
    BY <1>2, <2>1, <2>2
<1>5. HasQuestion(p, w.id, Title(p))
  BY <1>2, <1>4 DEF HasQuestion, SameRow
<1>6. QED
  BY <1>1, <1>3, <1>5, AnotherTitle

\* ... and one it finds is a committed one.
LEMMA QuestionFound ==
    ASSUME Base, NEW p \in Seeders, seed[p].pc = "question",
           NEW j \in Select(p, "question", seed[p].test, Title(p))
    PROVE  /\ j \in Ids /\ db[j] # Null /\ db[j].table = "question"
           /\ db[j].key = Title(p) /\ db[j].parent = seed[p].test
           /\ \A w \in Pending(p) : w.id # j
<1> DEFINE s == seed[p]
<1>1. Running(p) /\ s.test \in Ids /\ Title(p) \in Titles
  BY AtAQuestion
<1>2. /\ j \in Ids /\ View(p)[j] # Null /\ View(p)[j].table = "question"
      /\ View(p)[j].key = Title(p) /\ View(p)[j].parent = s.test
  BY <1>1, IdFacts DEF Select
<1>3. db[j] = View(p)[j]
  BY <1>1, <1>2, TitleUnwritten, ViewRow, PendingFacts
<1>4. ASSUME NEW w \in Pending(p), w.id = j PROVE FALSE
  <2>1. WriteFits(p, w) /\ w.op \in {"insert", "update", "delete"}
    BY <1>1, PendingFacts
  <2>2. w.op # "insert"
    BY <1>2, <1>3, <1>4, <2>1 DEF WriteFits
  <2>3. w.op # "delete"
    BY <1>1, <1>2, <1>3, <1>4, <2>1, CatalogueFacts DEF WriteFits
  <2>4. w.op = "update" /\ SameRow(db[j], w.row)
    BY <1>2, <1>3, <1>4, <2>1, <2>2, <2>3 DEF WriteFits
  <2>5. QED
    BY <1>2, <1>3, <2>4, TitleUnwritten DEF SameRow
<1>5. QED
  BY <1>2, <1>3, <1>4

LEMMA FindQuestionStep ==
    ASSUME IndInv, NEW p \in Seeders, FindQuestion(p)
    PROVE  IndInv'
<1> DEFINE s == seed[p]
           t == seed'[p]
           found == Select(p, "question", seed[p].test, Title(p))
<1>1. Base /\ TypeOK /\ s.pc = "question" /\ Running(p) /\ UNCHANGED outside
  BY RunningSession DEF IndInv, Base, FindQuestion, SeedPCs
<1>2. /\ s \in Session /\ PlaceFits(p) /\ s.nth \in 1..Len(Catalogue) /\ Title(p) \in Titles
      /\ s.admin \in Ids /\ HasAdmin(p) /\ s.test \in Ids /\ HasTest(p) /\ s.check = {}
      /\ s.nth > Len(Catalogue) <=> s.pc = "commit"
  BY <1>1, AtAQuestion DEF PlaceFits
<1>3. PICK title \in Titles : title = Title(p)
  BY <1>2
<1>4. PICK row \in Row :
           row = [table |-> "question", parent |-> s.test, key |-> title, value |-> "catalogue"]
  BY <1>2, RowsMade
<1>5. /\ row.table = "question" /\ row.key = title /\ row.value = "catalogue"
      /\ row.parent = s.test
  BY <1>4
<1>6. LookUp(p, found, row, "question", "cases")
  BY <1>3, <1>4 DEF FindQuestion
<1>7. found \in SUBSET Ids
  BY DEF Select
<1>8. ~AtCases(p) /\ ~BeforeCheck(p)
  BY <1>1 DEF AtCases, BeforeCheck, BeforeTest
<1>10. \A j \in found : db[j] # Null /\ SameRow(db[j], row) /\ \A w \in Pending(p) : w.id # j
  BY <1>1, <1>3, <1>5, QuestionFound DEF SameRow
<1>11. seed' = [seed EXCEPT ![p] = seed'[p]]
  BY <1>1, <1>6, LookUpIsOwn
<1> HIDE DEF found
<1>12. /\ Steps(p) /\ SameElse(p)
       /\ \E i \in Ids :
             /\ \/ found = {} /\ Adds(p, row, "cases") /\ i = given + 1
                \/ i \in found /\ Takes(p, i, row, "cases")
             /\ t.admin = s.admin /\ t.test = s.test /\ t.question = i
  <2>1. "cases" \in SeedPCs /\ "question" \in {"admin", "test", "question"}
    BY DEF SeedPCs
  <2>2. /\ Steps(p) /\ SameElse(p)
        /\ \E i \in Ids :
              /\ \/ found = {} /\ Adds(p, row, "cases") /\ i = given + 1
                 \/ i \in found /\ Takes(p, i, row, "cases")
              /\ seed'[p].admin = IF "question" = "admin" THEN i ELSE seed[p].admin
              /\ seed'[p].test = IF "question" = "test" THEN i ELSE seed[p].test
              /\ seed'[p].question = IF "question" = "question" THEN i ELSE seed[p].question
    BY <1>1, <1>6, <1>7, <2>1, LookUpStep
  <2>3. QED
    BY <2>2
<1>13. PICK i \in Ids :
             /\ \/ found = {} /\ Adds(p, row, "cases") /\ i = given + 1
                \/ i \in found /\ Takes(p, i, row, "cases")
             /\ t.admin = s.admin /\ t.test = s.test /\ t.question = i
  BY <1>12
<1>14. /\ \E W : /\ Extends(p, W) /\ W \subseteq {Insert(i, row), Update(i, row)}
                 /\ Insert(i, row) \in W => db[i] = Null
                 /\ Update(i, row) \in W => db[i] # Null
       /\ \E r \in RowsAt(p, i)' : SameRow(r, row)
       /\ Doomed(p) => Doomed(p)'
  <2>1. i \in found => db[i] # Null /\ SameRow(db[i], row) /\ \A w \in Pending(p) : w.id # i
    BY <1>10
  <2>2. Base /\ Running(p) /\ Steps(p) /\ SameElse(p) /\ row \in Row
    BY <1>1, <1>12, <1>5
  <2>3. \/ found = {} /\ Adds(p, row, "cases") /\ i = given + 1
        \/ i \in found /\ Takes(p, i, row, "cases")
    BY <1>13
  <2>4. QED
    BY <1>11, <2>1, <2>2, <2>3, LookUpExtends
<1>15. PICK W : /\ Extends(p, W) /\ W \subseteq {Insert(i, row), Update(i, row)}
                /\ Insert(i, row) \in W => db[i] = Null
                /\ Update(i, row) \in W => db[i] # Null
  BY <1>14
<1>16. PICK r \in RowsAt(p, i)' : SameRow(r, row)
  BY <1>14
<1>17. \/ t.pc = "flush" /\ t.next = "cases"
       \/ t.pc = "cases"
  BY <1>13 DEF Adds, Takes
<1>18. ~BeforeTest(p)' /\ ~BeforeCheck(p)' /\ AtCases(p)'
  BY <1>17 DEF BeforeTest, BeforeCheck, AtCases
<1>19. Refers(p)
  BY <1>8, <1>12, <1>13 DEF Refers, SameElse
<1>20. t.synced = s.synced /\ t.nth = s.nth /\ t.check = {} /\ t.known = s.known
  BY <1>2, <1>12 DEF SameElse
<1>21. HasQuestion(p, i, title)'
  BY <1>5, <1>13, <1>16 DEF HasQuestion, SameRow
<1>22. PlaceFits(p)'
  <2>1. t.admin \in Ids /\ t.test \in Ids /\ HasAdmin(p)' /\ HasTest(p)' /\ t.question \in Ids
    BY <1>1, <1>2, <1>13, <1>15, <1>19, ExtendsReferences
  <2>2. /\ \A q \in t.synced : \E n \in 1..(t.nth - 1) : HasQuestion(p, q, Catalogue[n])'
        /\ \A n \in 1..(t.nth - 1) : \E q \in t.synced : HasQuestion(p, q, Catalogue[n])'
    BY <1>1, <1>15, <1>19, <1>20, ExtendsSynced
  <2>3. ~(t.nth > Len(Catalogue)) /\ t.pc # "commit" /\ t.pc # "admin"
        /\ t.pc \in {"cases", "flush"} /\ (t.pc = "flush" => t.next = "cases")
    BY <1>1, <1>2, <1>17, <1>20
  <2>4. HasQuestion(p, seed[p].question, Title(p))'
    <3>1. Title(p)' = title
      BY <1>3, <1>20 DEF Title
    <3>2. QED
      BY <1>13, <1>21, <3>1
  <2>5. QED
    BY <1>18, <1>20, <2>1, <2>2, <2>3, <2>4 DEF PlaceFits
<1>23. WritesFit(p)' /\ KnownFits(p)' /\ CasesFit(p)'
  <2>1. ContentFits(p, row)'
    BY <1>5, <1>13 DEF ContentFits
  <2>2. PlacedAt(p, Insert(i, row))' /\ PlacedAt(p, Update(i, row))'
    BY <1>5, <1>13, <1>18, WritesMade DEF PlacedAt
  <2>3. Update(i, row) \in W => SameRow(db[i], row)
    <3>1. CASE i \in found
      BY <1>10, <3>1
    <3>2. CASE i = given + 1
      BY <1>1, <1>15, <3>2, NotGivenYet
    <3>3. QED
      BY <1>13, <3>1, <3>2
  <2>4. i <= given'
    BY <1>1, <1>7, <1>10, <1>13, LookUpId
  <2>5. QED
    BY <1>1, <1>12, <1>14, <1>15, <1>19, <2>1, <2>2, <2>3, <2>4, LookUpWrites
<1>24. SessionFits(p)'
  BY <1>22, <1>23 DEF SessionFits
<1>25. QED
  BY <1>15, <1>24, OwnStep

\* Nothing of the committed rows a session writes is deleted before it checks.
LEMMA RetiredRow ==
    ASSUME Base, NEW p \in Seeders, Running(p), BeforeCheck(p),
           NEW r \in Ids, NEW title \in Retired, View(p)[r] # Null,
           View(p)[r].table = "question", View(p)[r].key = title
    PROVE  /\ db[r] # Null /\ db[r].table = "question" /\ db[r].key \in Retired
           /\ \A w \in Pending(p) : w.id # r
<1>1. ASSUME NEW w \in Pending(p), w.row.table = "question", w.row.key = title PROVE FALSE
  <2>1. w.op # "delete"
    BY PendingFacts DEF SessionFits, PlaceFits
  <2>2. w.row.key \in Titles
    BY <1>1, <2>1, ContentTypes
  <2>3. QED
    BY <1>1, <2>2, CatalogueFacts
<1>2. View(p)[r] = db[r]
  BY <1>1, ViewRow, PendingFacts
<1>3. ASSUME NEW w \in Pending(p), w.id = r PROVE FALSE
  <2>1. WriteFits(p, w) /\ w.op \in {"insert", "update", "delete"}
    BY PendingFacts
  <2>2. w.op # "delete"
    BY PendingFacts DEF SessionFits, PlaceFits
  <2>3. w.op # "insert"
    BY <1>2, <1>3, <2>1 DEF WriteFits
  <2>4. SameRow(db[r], w.row)
    BY <1>2, <1>3, <2>1, <2>2, <2>3 DEF WriteFits
  <2>5. QED
    BY <1>1, <1>2, <2>4 DEF SameRow
<1>4. QED
  BY <1>2, <1>3

LEMMA ListRetiredOwn ==
    ASSUME IndInv, NEW p \in Seeders, ListRetired(p)
    PROVE  IndInv'
<1> DEFINE s == seed[p]
           t == seed'[p]
           found == UNION {Select(p, "question", seed[p].test, title) : title \in Retired}
           none == {}
<1>1. Base /\ TypeOK /\ s.pc = "retired" /\ Running(p)
  BY RunningSession DEF IndInv, Base, ListRetired, SeedPCs
<1>2. /\ s \in Session /\ PlaceFits(p) /\ s.admin \in Ids /\ HasAdmin(p)
      /\ s.test \in Ids /\ HasTest(p) /\ BeforeCheck(p) /\ s.known = {} /\ s.check = {}
      /\ ~(s.nth > 1) /\ ~(s.nth > Len(Catalogue)) /\ \A w \in Pending(p) : w.op # "delete"
  <2>1. s \in Session /\ PlaceFits(p)
    BY <1>1, PendingFacts DEF SessionFits
  <2>2. BeforeCheck(p) /\ ~BeforeTest(p)
    BY <1>1 DEF BeforeCheck, BeforeTest
  <2>3. QED
    BY <1>1, <2>1, <2>2 DEF PlaceFits
<1>3. ASSUME NEW r \in found
      PROVE  /\ Old(r) /\ r \in Ids /\ db[r].table = "question" /\ db[r].key \in Retired
             /\ \A w \in Pending(p) : w.id # r
  <2>1. PICK title \in Retired : r \in Select(p, "question", seed[p].test, title)
    OBVIOUS
  <2>2. r \in Ids /\ View(p)[r] # Null /\ View(p)[r].table = "question" /\ View(p)[r].key = title
    BY <2>1 DEF Select
  <2>3. /\ db[r] # Null /\ db[r].table = "question" /\ db[r].key \in Retired
        /\ \A w \in Pending(p) : w.id # r
    BY <1>1, <1>2, <2>2, RetiredRow
  <2>4. QED
    BY <1>1, <2>2, <2>3, CommittedIsOld
<1>4. seed' = [seed EXCEPT ![p] = t]
  BY <1>1, GotoIsOwn DEF ListRetired
<1> HIDE DEF found
<1>5. /\ Steps(p) /\ SameRefs(p) /\ given' = given
      /\ t.sent = s.sent /\ t.synced = s.synced /\ t.known = s.known /\ t.nth = s.nth
      /\ t.unsent = s.unsent /\ t.check = found
      /\ t.pc = IF found = {} THEN "question" ELSE "check"
  BY <1>1, ListRetiredStep DEF found
<1> HIDE DEF none
<1>6. Extends(p, none)
  <2>1. Pending(p)' = Pending(p) \cup none
    BY <1>5 DEF Pending, none
  <2>2. \A q \in Seeders : q # p /\ Running(q) => \A w \in s.sent, x \in seed[q].sent : db[w.id] # Null => w.id # x.id
    BY <1>1 DEF Base, SessionsInv, Apart
  <2>3. given <= given' /\ given' \in 0..MaxId
    BY <1>1, <1>5, GivenFacts, SMT DEF TypeOK
  <2>4. \A w : w \notin none
    BY DEF none
  <2>5. none \subseteq Write
    BY <2>4
  <2>6. QED
    BY <1>1, <1>4, <1>5, <2>1, <2>2, <2>3, <2>4, <2>5 DEF Extends
<1>7. ~AtCases(p) /\ ~AtCases(p)' /\ ~BeforeTest(p)' /\ ~BeforeCheck(p)'
      /\ t.pc \in {"question", "check"}
  <2>1. t.pc \in {"question", "check"}
    BY <1>5
  <2>2. QED
    BY <1>1, <2>1 DEF AtCases, BeforeTest, BeforeCheck
<1>8. Refers(p)
  BY <1>5, <1>7 DEF Refers, SameRefs
<1>10. db' = db /\ Pending(p)' = Pending(p)
  BY <1>5, <1>6, ExtendsOutside DEF Pending
<1>11. \A i \in Ids : Old(i) => Old(i)'
  BY <1>1, <1>6, ExtendsQuiet DEF QuietRows
<1>12. PlaceFits(p)'
  <2>1. t.admin \in Ids /\ t.test \in Ids /\ HasAdmin(p)' /\ HasTest(p)'
    BY <1>1, <1>2, <1>5, <1>6, <1>8, ExtendsReferences DEF SameRefs
  <2>2. /\ \A q \in t.synced : \E n \in 1..(t.nth - 1) : HasQuestion(p, q, Catalogue[n])'
        /\ \A n \in 1..(t.nth - 1) : \E q \in t.synced : HasQuestion(p, q, Catalogue[n])'
    BY <1>1, <1>5, <1>6, <1>8, ExtendsSynced
  <2>3. \A r \in t.check : /\ Old(r)' /\ \A w \in Pending(p)' : w.id # r
                           /\ db'[r] # Null => db'[r].table = "question" /\ db'[r].key \in Retired
    BY <1>3, <1>5, <1>10, <1>11
  <2>4. t.check # {} => t.pc = "check"
    BY <1>5
  <2>5. t.pc # "flush" /\ t.pc # "admin" /\ t.pc # "commit"
    BY <1>7
  <2>6. ~(t.nth > 1) /\ ~(t.nth > Len(Catalogue))
    BY <1>2, <1>5
  <2>7. QED
    BY <1>7, <2>1, <2>2, <2>3, <2>4, <2>5, <2>6 DEF PlaceFits
<1>13. WritesFit(p)'
  <2>1. \A w : w \notin none
    BY DEF none
  <2>2. QED
    BY <1>1, <1>6, <1>8, <2>1, ExtendsWrites
<1>14. KnownFits(p)'
  BY <1>2, <1>5 DEF KnownFits
<1>15. CasesFit(p)'
  <2>1. \A w : w \notin none
    BY DEF none
  <2>2. Doomed(p) => Doomed(p)'
    BY <1>5, <1>10 DEF Doomed
  <2>3. QED
    BY <1>1, <1>5, <1>6, <1>8, <2>1, <2>2, ExtendsCases
<1>16. SessionFits(p)'
  BY <1>12, <1>13, <1>14, <1>15 DEF SessionFits
<1>17. QED
  BY <1>6, <1>16, OwnStep

LEMMA CheckRetiredOwn ==
    ASSUME IndInv, NEW p \in Seeders, CheckRetired(p)
    PROVE  IndInv'
<1> DEFINE s == seed[p]
           t == seed'[p]
<1>1. Base /\ TypeOK /\ s.pc = "check" /\ Running(p)
  BY RunningSession DEF IndInv, Base, CheckRetired, SeedPCs
<1>2. /\ s \in Session /\ PlaceFits(p) /\ s.admin \in Ids /\ HasAdmin(p)
      /\ s.test \in Ids /\ HasTest(p) /\ KnownFits(p)
      /\ ~(s.nth > 1) /\ ~(s.nth > Len(Catalogue)) /\ s.check \subseteq Ids /\ s.known \subseteq Ids
  <2>1. s \in Session /\ PlaceFits(p) /\ KnownFits(p)
    BY <1>1, PendingFacts DEF SessionFits
  <2>2. ~BeforeTest(p)
    BY <1>1 DEF BeforeTest
  <2>3. QED
    BY <1>1, <2>1, <2>2, SessionTypes DEF PlaceFits
<1>3. /\ Steps(p) /\ SameRefs(p) /\ given' = given
      /\ t.sent = s.sent /\ t.synced = s.synced /\ t.nth = s.nth
      /\ t.pc \in {"check", "question"}
      /\ \E r \in s.check :
            /\ t.check = s.check \ {r}
            /\ t.unsent = s.unsent \cup (IF UnusedQuestion(p, r) THEN {Delete(r)} ELSE {})
            /\ t.known = s.known \cup Children(db, "submission", r)
            /\ s.check = {r} => t.pc = "question"
            /\ s.check # {r} => t.pc = "check"
  BY <1>1, CheckRetiredStep
<1>4. PICK r \in s.check :
            /\ t.check = s.check \ {r}
            /\ t.unsent = s.unsent \cup (IF UnusedQuestion(p, r) THEN {Delete(r)} ELSE {})
            /\ t.known = s.known \cup Children(db, "submission", r)
            /\ s.check = {r} => t.pc = "question"
            /\ s.check # {r} => t.pc = "check"
  BY <1>3
<1>5. /\ r \in Ids /\ Old(r) /\ \A w \in Pending(p) : w.id # r
      /\ db[r] # Null => db[r].table = "question" /\ db[r].key \in Retired
  BY <1>2, <1>4 DEF PlaceFits
<1>6. ASSUME NEW i \in Children(db, "submission", r)
      PROVE  /\ i \in Ids /\ db[i] # Null /\ db[i].table = "submission" /\ db[i].parent = r
             /\ Old(i) /\ db[r] # Null /\ View(p)[i] = db[i]
  <2>1. i \in Ids /\ db[i] # Null /\ db[i].table = "submission" /\ db[i].parent = r
    BY DEF Children
  <2>2. Old(i) /\ db[r] # Null
    BY <1>1, <2>1, CommittedIsOld, RowFacts
  <2>3. ASSUME NEW w \in Pending(p), w.id = i PROVE FALSE
    <3>1. WriteFits(p, w) /\ w.op \in {"insert", "update", "delete"}
      BY <1>1, PendingFacts
    <3>2. w.op = "update"
      BY <2>1, <2>3, <3>1 DEF WriteFits
    <3>3. w.row.table = "submission"
      BY <2>1, <2>3, <3>1, <3>2 DEF WriteFits, SameRow
    <3>4. QED
      BY <1>1, <3>2, <3>3, ContentTypes
  <2>4. View(p)[i] = db[i]
    BY <1>1, <1>5, <2>1, <2>3, ViewCommitted
  <2>5. QED
    BY <2>1, <2>2, <2>4
<1>7. UnusedQuestion(p, r) => Children(db, "submission", r) = {}
  <2> SUFFICES ASSUME UnusedQuestion(p, r), NEW i \in Children(db, "submission", r) PROVE FALSE
    OBVIOUS
  <2>1. i \in Children(View(p), "submission", r)
    BY <1>6 DEF Children
  <2>2. QED
    BY <2>1 DEF UnusedQuestion
<1>8. PICK W : W = IF UnusedQuestion(p, r) THEN {Delete(r)} ELSE {}
  OBVIOUS
<1>9. /\ t.unsent = s.unsent \cup W /\ W \subseteq {Delete(r)} /\ W \subseteq Write
      /\ \A w \in W : w.op = "delete" /\ w.id = r
      /\ W # {} => Children(db, "submission", r) = {}
  BY <1>4, <1>5, <1>7, <1>8, WritesMade
<1>10. seed' = [seed EXCEPT ![p] = t]
  BY <1>1, GotoIsOwn DEF CheckRetired
<1>11. Extends(p, W)
  <2>1. Pending(p)' = Pending(p) \cup W
    BY <1>3, <1>9 DEF Pending
  <2>2. \A q \in Seeders : q # p /\ Running(q) => \A w \in s.sent, x \in seed[q].sent : db[w.id] # Null => w.id # x.id
    BY <1>1 DEF Base, SessionsInv, Apart
  <2>3. given <= given' /\ given' \in 0..MaxId
    BY <1>1, <1>3, GivenFacts, SMT DEF TypeOK
  <2>4. \A w, x \in W : w = x
    BY <1>9
  <2>5. QED
    BY <1>1, <1>3, <1>5, <1>9, <1>10, <2>1, <2>2, <2>3, <2>4 DEF Extends
<1>12. ~AtCases(p) /\ ~AtCases(p)' /\ ~BeforeTest(p)' /\ ~BeforeCheck(p)'
  BY <1>1, <1>3 DEF AtCases, BeforeTest, BeforeCheck
<1>13. Refers(p)
  BY <1>3, <1>12 DEF Refers, SameRefs
<1>14. db' = db /\ Pending(p)' = Pending(p) \cup W
  BY <1>11, ExtendsOutside DEF Extends
<1>15. \A i \in Ids : Old(i) => Old(i)'
  BY <1>1, <1>11, ExtendsQuiet DEF QuietRows
<1>16. PlaceFits(p)'
  <2>1. t.admin \in Ids /\ t.test \in Ids /\ HasAdmin(p)' /\ HasTest(p)'
    BY <1>1, <1>2, <1>3, <1>11, <1>13, ExtendsReferences DEF SameRefs
  <2>2. /\ \A q \in t.synced : \E n \in 1..(t.nth - 1) : HasQuestion(p, q, Catalogue[n])'
        /\ \A n \in 1..(t.nth - 1) : \E q \in t.synced : HasQuestion(p, q, Catalogue[n])'
    BY <1>1, <1>3, <1>11, <1>13, ExtendsSynced
  <2>3. ASSUME NEW x \in t.check
        PROVE  /\ Old(x)' /\ \A w \in Pending(p)' : w.id # x
               /\ db'[x] # Null => db'[x].table = "question" /\ db'[x].key \in Retired
    <3>1. x \in s.check /\ x # r /\ x \in Ids
      BY <1>2, <1>4
    <3>2. /\ Old(x) /\ \A w \in Pending(p) : w.id # x
          /\ db[x] # Null => db[x].table = "question" /\ db[x].key \in Retired
      BY <1>2, <3>1 DEF PlaceFits
    <3>3. QED
      BY <1>9, <1>14, <1>15, <3>1, <3>2
  <2>4. t.check # {} => t.pc = "check"
    BY <1>4
  <2>5. t.pc # "flush" /\ t.pc # "admin" /\ t.pc # "commit"
    BY <1>3
  <2>6. ~(t.nth > 1) /\ ~(t.nth > Len(Catalogue))
    BY <1>2, <1>3
  <2>7. QED
    BY <1>12, <2>1, <2>2, <2>3, <2>4, <2>5, <2>6 DEF PlaceFits
<1>17. WritesFit(p)'
  <2>1. ASSUME NEW w \in W PROVE WriteFits(p, w)'
    <3>1. w.op = "delete" /\ w.id = r
      BY <1>9
    <3>2. r <= given'
      BY <1>1, <1>3, <1>5, GivenFacts, SMT DEF Old, TypeOK
    <3>3. QED
      BY <1>5, <1>14, <3>1, <3>2 DEF WriteFits
  <2>2. QED
    BY <1>1, <1>11, <1>13, <2>1, ExtendsWrites
<1>18. KnownFits(p)'
  <2> SUFFICES ASSUME NEW i \in t.known
               PROVE  /\ Old(i)'
                      /\ db[i] # Null => /\ db[i].table = "submission" /\ db[i].parent \notin t.check
                                         /\ \A w \in Pending(p) \cup W : w.op = "delete" => w.id # db[i].parent
    BY <1>14 DEF KnownFits
  <2>1. CASE i \in s.known
    <3>1. /\ Old(i) /\ i \in Ids
          /\ db[i] # Null => /\ db[i].table = "submission" /\ db[i].parent \notin s.check
                             /\ \A w \in Pending(p) : w.op = "delete" => w.id # db[i].parent
      BY <1>2, <2>1 DEF KnownFits
    <3>2. QED
      BY <1>4, <1>9, <1>15, <3>1
  <2>2. CASE i \in Children(db, "submission", r)
    <3>1. /\ i \in Ids /\ db[i] # Null /\ db[i].table = "submission" /\ db[i].parent = r /\ Old(i)
      BY <1>6, <2>2
    <3>2. W = {}
      BY <1>9, <2>2
    <3>3. QED
      BY <1>4, <1>5, <1>15, <3>1, <3>2
  <2>3. QED
    BY <1>4, <2>1, <2>2
<1>19. CasesFit(p)'
  <2>1. Doomed(p) => Doomed(p)'
    BY <1>9, <1>14 DEF Doomed
  <2>2. \A w \in W : w.op = "delete" /\ db[w.id] # Null => db[w.id].table # "case"
    BY <1>5, <1>9
  <2>3. QED
    BY <1>1, <1>3, <1>11, <1>13, <2>1, <2>2, ExtendsCases
<1>20. SessionFits(p)'
  BY <1>16, <1>17, <1>18, <1>19 DEF SessionFits
<1>21. QED
  BY <1>11, <1>20, OwnStep

LEMMA FlushOwn ==
    ASSUME IndInv, NEW p \in Seeders, Flush(p)
    PROVE  IndInv'
<1> DEFINE s == seed[p]
           t == seed'[p]
           none == {}
<1>1. /\ Base /\ TypeOK /\ s.pc = "flush" /\ Running(p) /\ Unblocked(p) /\ ~Raising(p)
  BY RunningSession DEF IndInv, Base, Flush, SeedPCs
<1>2. ~Doomed(p)
  BY <1>1, NotDoomed
<1>3. /\ s \in Session /\ PlaceFits(p) /\ s.next \in {"test", "retired", "cases"}
      /\ s.admin \in Ids /\ HasAdmin(p) /\ s.check = {} /\ ~(s.nth > Len(Catalogue))
      /\ KnownFits(p) /\ (s.nth > 1 => s.next = "cases")
  <2>1. s \in Session /\ PlaceFits(p) /\ KnownFits(p)
    BY <1>1, PendingFacts DEF SessionFits
  <2>2. QED
    BY <1>1, <2>1 DEF PlaceFits
<1>4. /\ Steps(p) /\ SameRefs(p) /\ given' = given
      /\ t.synced = s.synced /\ t.known = s.known /\ t.check = s.check /\ t.nth = s.nth
      /\ t.unsent = {} /\ t.sent = s.sent \cup s.unsent
      /\ t.pc = s.next
  BY <1>1, FlushStep
<1>5. seed' = [seed EXCEPT ![p] = t]
  BY <1>1, GotoIsOwn DEF Flush
<1>6. \A w : w \notin none
  OBVIOUS
<1> HIDE DEF none
<1>7. ASSUME NEW q \in Seeders, q # p, Running(q), NEW w \in t.sent, NEW x \in seed[q].sent,
             db[w.id] # Null
      PROVE  w.id # x.id
  <2>1. Apart(p, q) /\ Apart(q, p)
    BY <1>1, <1>7 DEF Base, SessionsInv
  <2>2. x \in Pending(q) /\ x.op \in {"insert", "update", "delete"}
    BY <1>1, <1>7, PendingFacts DEF Pending
  <2>3. CASE w \in s.sent
    BY <1>7, <2>1, <2>3 DEF Apart
  <2>4. CASE w \in s.unsent
    <3>1. w \in Pending(p) /\ ~Blocks(q, w)
      BY <1>1, <1>7, <2>4 DEF Unblocked, Pending
    <3>2. CASE w.op = "insert" \/ x.op = "insert"
      BY <2>1, <2>2, <3>1, <3>2 DEF Apart
    <3>3. CASE w.op # "insert" /\ x.op # "insert"
      <4>1. w.id \in Ids
        BY <1>1, <3>1, PendingFacts
      <4>2. QED
        BY <1>7, <3>1, <3>3, <4>1 DEF Blocks, Locked
    <3>4. QED
      BY <3>2, <3>3
  <2>5. QED
    BY <1>4, <1>7, <2>3, <2>4
<1>8. Extends(p, none)
  <2>1. Pending(p)' = Pending(p) \cup none
    BY <1>4, <1>6 DEF Pending
  <2>2. \A w \in t.sent \ s.sent : w.op = "update" => db[w.id] # Null
    BY <1>2, <1>4 DEF Doomed
  <2>3. given <= given' /\ given' \in 0..MaxId
    BY <1>1, <1>4, GivenFacts, SMT DEF TypeOK
  <2>4. none \subseteq Write /\ s.sent \subseteq t.sent
    BY <1>4, <1>6
  <2>5. QED
    BY <1>1, <1>4, <1>5, <1>6, <1>7, <2>1, <2>2, <2>3, <2>4 DEF Extends
<1>9. /\ BeforeTest(p)' <=> BeforeTest(p)
      /\ BeforeCheck(p)' <=> BeforeCheck(p)
      /\ AtCases(p)' <=> AtCases(p)
  BY <1>1, <1>3, <1>4 DEF BeforeTest, BeforeCheck, AtCases
<1>10. Refers(p)
  BY <1>4, <1>9 DEF Refers, SameRefs
<1>11. db' = db /\ Pending(p)' = Pending(p)
  BY <1>6, <1>8, ExtendsOutside DEF Extends
<1>12. PlaceFits(p)'
  <2>1. t.admin \in Ids /\ HasAdmin(p)'
    BY <1>1, <1>3, <1>4, <1>8, <1>10, ExtendsReferences DEF SameRefs
  <2>2. IF BeforeTest(p)' THEN t.test = Null ELSE t.test \in Ids /\ HasTest(p)'
    <3>1. IF BeforeTest(p) THEN s.test = Null ELSE s.test \in Ids /\ HasTest(p)
      BY <1>3 DEF PlaceFits
    <3>2. QED
      BY <1>1, <1>4, <1>8, <1>9, <1>10, <3>1, ExtendsReferences DEF SameRefs
  <2>3. /\ \A q \in t.synced : \E n \in 1..(t.nth - 1) : HasQuestion(p, q, Catalogue[n])'
        /\ \A n \in 1..(t.nth - 1) : \E q \in t.synced : HasQuestion(p, q, Catalogue[n])'
    BY <1>1, <1>4, <1>8, <1>10, ExtendsSynced
  <2>4. AtCases(p)' => t.question \in Ids /\ HasQuestion(p, seed[p].question, Title(p))'
    <3> SUFFICES ASSUME AtCases(p) PROVE t.question \in Ids /\ HasQuestion(p, seed[p].question, Title(p))'
      BY <1>9
    <3>1. s.question \in Ids /\ HasQuestion(p, s.question, Title(p))
      BY <1>3 DEF PlaceFits
    <3>2. PICK q \in Ids : q = s.question
      BY <3>1
    <3>3. PICK title : title = Title(p)
      OBVIOUS
    <3>4. HasQuestion(p, q, title)'
      BY <1>1, <1>8, <1>10, <3>1, <3>2, <3>3, ExtendsReferences
    <3>5. seed'[p].question = q /\ Title(p)' = title
      BY <1>4, <3>2, <3>3 DEF SameRefs, Title
    <3>6. QED
      BY <3>4, <3>5
  <2>5. BeforeCheck(p)' => t.known = {} /\ \A w \in Pending(p)' : w.op # "delete"
    BY <1>3, <1>4, <1>9, <1>11 DEF PlaceFits
  <2>6. /\ t.pc \in {"test", "retired", "cases"} /\ t.check = {} /\ ~(t.nth > Len(Catalogue))
        /\ (t.nth > 1 => t.pc = "cases")
    BY <1>3, <1>4
  <2>7. QED
    BY <2>1, <2>2, <2>3, <2>4, <2>5, <2>6 DEF PlaceFits
<1>13. WritesFit(p)'
  BY <1>1, <1>6, <1>8, <1>10, ExtendsWrites
<1>14. KnownFits(p)'
  BY <1>1, <1>4, <1>6, <1>8, ExtendsKnown
<1>15. CasesFit(p)'
  BY <1>1, <1>2, <1>4, <1>6, <1>8, <1>10, ExtendsCases
<1>16. SessionFits(p)'
  BY <1>12, <1>13, <1>14, <1>15 DEF SessionFits
<1>17. QED
  BY <1>8, <1>16, OwnStep

LEMMA BeginOwn ==
    ASSUME IndInv, NEW p \in Seeders, Begin(p)
    PROVE  IndInv'
<1> DEFINE t == seed'[p]
<1>1. Base /\ TypeOK
  BY DEF IndInv, Base
<1>2. /\ \A q \in Seeders \ {p} : Keeps(q)
      /\ ~Running(p) /\ t \in Session
      /\ t.pc = "admin" /\ t.next = "test" /\ t.admin = Null /\ t.test = Null
      /\ t.question = Null /\ t.nth = 1 /\ t.check = {} /\ t.unsent = {} /\ t.sent = {}
      /\ t.synced = {} /\ t.known = {}
      /\ UNCHANGED <<db, given, people, adds, posts, faults, fresh, seeded, steady>>
  BY <1>1, BeginStep
<1>3. /\ db' = db /\ given' = given /\ student' = student /\ admin' = admin /\ worker' = worker
      /\ adds' = adds /\ posts' = posts /\ faults' = faults
      /\ fresh' = fresh /\ seeded' = seeded /\ steady' = steady
  BY <1>2 DEF people
<1>4. \A q \in Seeders : \A w : q = p => w \notin Pending(q)'
  BY <1>2 DEF Pending
<1>5. \A i \in Ids : Old(i) => Old(i)'
  <2>1. \A q \in Seeders : Running(q)' => \A w \in Pending(q)' : w.op = "insert" =>
            w.id \notin 1..given \/ (Running(q) /\ w \in Pending(q))
    <3> SUFFICES ASSUME NEW q \in Seeders, Running(q)', NEW w \in Pending(q)'
                 PROVE  Running(q) /\ w \in Pending(q)
      OBVIOUS
    <3>1. q # p
      BY <1>4
    <3>2. Keeps(q)
      BY <1>2, <3>1
    <3>3. QED
      BY <3>2, SamePending DEF Keeps
  <2>2. given <= given' /\ given' \in Nat
    BY <1>1, <1>3, GivenFacts
  <2>3. QED
    BY <1>1, <2>1, <2>2, OldStays
<1>6. QuietRows
  BY <1>1, <1>3, <1>5, GivenFacts, UnchangedIsQuiet
<1>7. TypeOK'
  <2>1. \A q \in Seeders : seed'[q] \in Session \cup {Idle}
    BY <1>2 DEF Keeps
  <2>2. seed' \in [Seeders -> Session \cup {Idle}]
    <3>1. DOMAIN seed' = Seeders /\ seed' = [q \in Seeders |-> seed'[q]]
      BY DEF Begin
    <3>2. QED
      BY <2>1, <3>1
  <2>3. runs' \in Nat /\ overlap' \in BOOLEAN
    BY <1>1 DEF Begin, TypeOK
  <2>4. QED
    BY <1>1, <1>3, <2>2, <2>3 DEF TypeOK
<1>8. SessionFits(p)'
  <2>1. /\ BeforeTest(p)' /\ BeforeCheck(p)' /\ ~AtCases(p)'
    BY <1>2 DEF BeforeTest, BeforeCheck, AtCases
  <2>2. 1..(t.nth - 1) = {} /\ ~(t.nth > 1) /\ ~(t.nth > Len(Catalogue))
    BY <1>2, CatalogueFacts, SMT
  <2>3. PlaceFits(p)'
    BY <1>2, <1>4, <2>1, <2>2 DEF PlaceFits
  <2>4. WritesFit(p)'
    BY <1>4 DEF WritesFit
  <2>5. KnownFits(p)'
    BY <1>2 DEF KnownFits
  <2>6. DeletesCovered(p)'
    BY <1>4 DEF DeletesCovered
  <2>7. KeysCovered(p)' /\ NoOthers(p)'
    BY <1>2 DEF KeysCovered, NoOthers
  <2>8. QED
    BY <2>3, <2>4, <2>5, <2>6, <2>7 DEF SessionFits, CasesFit
<1>9. ASSUME NEW q \in Seeders, q # p, Running(q)'
      PROVE  /\ Running(q) /\ SessionFits(q)' /\ Pending(q)' = Pending(q)
             /\ seed'[q].sent = seed[q].sent
  <2>1. Keeps(q) /\ Running(q)
    BY <1>2, <1>9 DEF Keeps
  <2>2. Evolves(q)
    BY <1>1, <1>6, <2>1, QuietEvolves DEF Evolves
  <2>3. QED
    BY <1>1, <1>7, <2>1, <2>2, SessionEvolves, SamePending DEF Keeps
<1>10. ASSUME NEW q \in Seeders, NEW u \in Seeders, q # u, Running(q)', Running(u)'
       PROVE  Apart(q, u)'
  <2>1. CASE q = p \/ u = p
    BY <1>2, <1>4, <2>1 DEF Apart
  <2>2. CASE q # p /\ u # p
    <3>1. Apart(q, u)
      BY <1>1, <1>9, <1>10, <2>2 DEF Base, SessionsInv
    <3>2. QED
      BY <1>3, <1>9, <1>10, <2>2, <3>1 DEF Apart
  <2>3. QED
    BY <2>1, <2>2
<1>11. SessionsInv'
  BY <1>8, <1>9, <1>10 DEF SessionsInv
<1>12. OthersInv'
  BY <1>1, <1>3, <1>6, QuietEvolves, StudentEvolves, WorkerEvolves, AdminEvolves DEF IndInv, OthersInv, TypeOK
<1>13. DatabaseInv' /\ CatalogueComplete' /\ QuestionsComeWithCases' /\ JudgedOnCases'
  BY <1>1, <1>3, <1>6, QuietDatabase, QuietCatalogue, QuietQuestions DEF IndInv, JudgedOnCases
<1>14. QED
  BY <1>7, <1>11, <1>12, <1>13 DEF IndInv

\* The cases of the question a session is at are as they were committed, and it
\* has written none of them.
LEMMA CasesSeen ==
    ASSUME Base, NEW p \in Seeders, seed[p].pc = "cases"
    PROVE  LET q == seed[p].question IN
           /\ q \in Ids /\ q \in 1..given /\ q \notin seed[p].synced
           /\ HasQuestion(p, q, Title(p))
           /\ db[q] # Null => db[q].table = "question" /\ db[q].key = Title(p)
           /\ Children(View(p), "case", q) = Children(db, "case", q)
           /\ \A i \in Children(db, "case", q) :
                 /\ i \in Ids /\ db[i] \in Row /\ db[q] # Null /\ View(p)[i] = db[i]
                 /\ \A w \in Pending(p) : w.id # i
<1> DEFINE q == seed[p].question
<1>1. /\ Running(p) /\ seed[p] \in Session /\ PlaceFits(p) /\ TypeOK
      /\ seed[p].nth \in 1..Len(Catalogue) /\ Title(p) \in Titles
  BY AtAQuestion DEF Base
<1>2. q \in Ids /\ HasQuestion(p, q, Title(p))
  BY <1>1 DEF PlaceFits, AtCases
<1>3. q \notin seed[p].synced
  BY <1>1, <1>2, AnotherTitle
<1>4. PICK r \in RowsAt(p, q) : r.table = "question" /\ r.parent = seed[p].test /\ r.key = Title(p)
  BY <1>2 DEF HasQuestion
<1>5. db[q] # Null => db[q] = r
  <2>1. db[q] # Null => db[q] \in RowsAt(p, q)
    BY DEF RowsAt
  <2>2. QED
    BY <1>1, <1>4, <2>1, OneRowAt
<1>6. q \in 1..given
  <2>1. CASE db[q] # Null
    BY <1>2, <2>1, CommittedIsOld DEF Old
  <2>2. CASE db[q] = Null
    <3>1. PICK w \in Pending(p) : w.id = q
      BY <1>4, <2>2, InRowsAt
    <3>2. QED
      BY <1>1, <3>1, IdsGiven
  <2>3. QED
    BY <2>1, <2>2
<1>7. ASSUME NEW w \in Pending(p), w.op # "delete", w.row.table = "case", w.row.parent = q PROVE FALSE
  BY <1>1, <1>3, <1>7, ContentTypes
<1>8. ASSUME NEW i \in Children(db, "case", q)
      PROVE  /\ i \in Ids /\ db[i] \in Row /\ db[q] # Null /\ View(p)[i] = db[i]
             /\ \A w \in Pending(p) : w.id # i
             /\ i \in Children(View(p), "case", q)
  <2>1. i \in Ids /\ db[i] # Null /\ db[i].table = "case" /\ db[i].parent = q
    BY DEF Children
  <2>2. db[i] \in Row /\ db[q] # Null
    BY <1>1, <2>1, RowFacts
  <2>3. ASSUME NEW w \in Pending(p), w.id = i PROVE FALSE
    <3>1. WriteFits(p, w) /\ w.op \in {"insert", "update", "delete"}
      BY <1>1, PendingFacts
    <3>2. w.op # "insert"
      BY <2>1, <2>3, <3>1 DEF WriteFits
    <3>3. w.op # "delete"
      BY <1>3, <2>1, <2>3, <3>1 DEF WriteFits
    <3>4. w.op = "update" /\ SameRow(db[i], w.row)
      BY <2>1, <2>3, <3>1, <3>2, <3>3 DEF WriteFits
    <3>5. QED
      BY <1>7, <2>1, <3>4 DEF SameRow
  <2>4. ASSUME NEW w \in Pending(p), w.id = q PROVE w.op # "delete"
    <3>1. WriteFits(p, w)
      BY <1>1, PendingFacts
    <3>2. db[q].table = "question" /\ db[q].key \notin Retired
      BY <1>1, <1>4, <1>5, <2>2, CatalogueFacts
    <3>3. QED
      BY <2>2, <2>4, <3>1, <3>2 DEF WriteFits
  <2>5. View(p)[i] = db[i]
    BY <1>1, <2>1, <2>3, <2>4, ViewCommitted
  <2>6. i \in Children(View(p), "case", q)
    BY <2>1, <2>5 DEF Children
  <2>7. QED
    BY <2>1, <2>2, <2>3, <2>5, <2>6
<1>9. ASSUME NEW i \in Children(View(p), "case", q)
      PROVE  i \in Children(db, "case", q)
  <2>1. i \in Ids /\ View(p)[i] # Null /\ View(p)[i].table = "case" /\ View(p)[i].parent = q
    BY DEF Children
  <2>2. View(p)[i] = db[i]
    BY <1>1, <1>7, <2>1, ViewRow, PendingFacts
  <2>3. QED
    BY <2>1, <2>2 DEF Children
<1>10. QED
  BY <1>2, <1>3, <1>4, <1>5, <1>6, <1>8, <1>9

\* What becomes of the cases of question q, which holds rows db of them.
LEMMA CaseWritesFacts ==
    ASSUME Base, NEW p \in Seeders, seed[p].pc = "cases", given + Len(CaseKeys[Title(p)]) \in Ids
    PROVE  LET q == seed[p].question
               title == Title(p)
               existing == Children(db, "case", q)
               kept == {i \in existing : db[i].key \in KeysOf(title) /\ IsFirst(db, existing, i)}
               W == CaseWrites(View(p), q, title) IN
           /\ \A w \in W :
                 \/ w.op = "delete" /\ w.row = Null /\ w.id \in existing \ kept
                 \/ w.op = "update" /\ w.id \in kept /\ w.row = CaseRow(q, db[w.id].key)
                 \/ /\ w.op = "insert"
                    /\ \E m \in 1..Len(CaseKeys[title]) :
                          w.id = given + m /\ w.row = CaseRow(q, CaseKeys[title][m])
           /\ \A w, x \in W : w.id = x.id => w = x
           /\ W \subseteq Write
           /\ \A w \in W : w.id <= given + Len(CaseKeys[title])
           /\ \A w \in W : w.op = "insert" => w.id \notin 1..given
           /\ \A i \in existing \ kept : Delete(i) \in W
           /\ \A i \in kept : db[i] # CaseRow(q, db[i].key) => Update(i, CaseRow(q, db[i].key)) \in W
           /\ \A m \in 1..Len(CaseKeys[title]) :
                 \/ \E i \in kept : db[i].key = CaseKeys[title][m]
                 \/ Insert(given + m, CaseRow(q, CaseKeys[title][m])) \in W
<1> DEFINE q == seed[p].question
           title == Title(p)
           keys == CaseKeys[title]
           rows == View(p)
           seen == Children(rows, "case", q)
           existing == Children(db, "case", q)
           first == {i \in seen : rows[i].key \in KeysOf(title) /\ IsFirst(rows, seen, i)}
           kept == {i \in existing : db[i].key \in KeysOf(title) /\ IsFirst(db, existing, i)}
           W == CaseWrites(View(p), q, title)
           present == {rows[i].key : i \in first}
           missing == {n \in 1..Len(keys) : keys[n] \notin present}
           deletes == {Delete(i) : i \in seen \ first}
           updates == UNION {Setting(i, rows[i], CaseRow(q, rows[i].key)) : i \in first}
           inserts == {Insert(given + m, CaseRow(q, keys[m])) : m \in missing}
           last == given + Len(keys)
<1>1. /\ q \in Ids /\ seen = existing
      /\ \A i \in existing : i \in Ids /\ db[i] \in Row /\ rows[i] = db[i] /\ db[i] # Null
  BY CasesSeen, IdFacts
<1>2. first = kept
  BY <1>1 DEF IsFirst
<1>3. W = deletes \cup updates \cup inserts
  BY DEF CaseWrites, NewCases
<1>4. Title(p) \in Titles /\ given \in Nat
  BY AtAQuestion, GivenFacts DEF Base
<1>5. keys \in Seq(KeysOf(title)) /\ KeysOf(title) \subseteq Keys /\ Len(keys) \in Nat
  BY <1>4, CatalogueAssumption, CatalogueFacts, SMT
<1>6. \A m \in 1..Len(keys) : keys[m] \in KeysOf(title) /\ CaseRow(q, keys[m]) \in Row
  BY <1>1, <1>5, RowsMade DEF KeysOf
<1>7. \A k \in KeysOf(title) : CaseRow(q, k) \in Row
  BY <1>1, <1>5, RowsMade
<1>8. \A m \in 1..Len(keys) : /\ given + m \in Ids /\ given + m <= last
                              /\ given + m \notin 1..given
  BY <1>4, <1>5, IdFacts, SMT
<1>9. \A i \in existing : i <= given /\ i \in 1..given
  <2>1. \A i \in existing : i <= given
    BY <1>1 DEF Base, DatabaseInv
  <2>2. ASSUME NEW i \in existing PROVE i \in 1..given
    <3>1. i <= given /\ i \in Ids
      BY <1>1, <2>1
    <3>2. 1 <= i /\ i \in Nat
      BY <3>1, IdFacts
    <3>3. QED
      BY <1>4, <3>1, <3>2, SMT
  <2>3. QED
    BY <2>1, <2>2
<1>10. \A i \in kept : i \in existing /\ db[i].key \in KeysOf(title)
  OBVIOUS
<1>11. \A i \in existing \ kept : Delete(i) \in W
  BY <1>1, <1>2, <1>3
<1>12. ASSUME NEW i \in kept, db[i] # CaseRow(q, db[i].key)
       PROVE  Update(i, CaseRow(q, db[i].key)) \in W
  <2>1. Setting(i, rows[i], CaseRow(q, rows[i].key)) = {Update(i, CaseRow(q, db[i].key))}
    BY <1>1, <1>12 DEF Setting
  <2>2. i \in first
    BY <1>2
  <2>3. QED
    BY <1>3, <2>1, <2>2
<1>13. ASSUME NEW m \in 1..Len(keys), ~ \E i \in kept : db[i].key = keys[m]
       PROVE  Insert(given + m, CaseRow(q, keys[m])) \in W
  <2>1. keys[m] \notin present
    BY <1>1, <1>2, <1>10, <1>13
  <2>2. m \in missing
    BY <2>1
  <2>3. Insert(given + m, CaseRow(q, keys[m])) \in inserts
    BY <2>2
  <2>4. QED
    BY <1>3, <2>3
<1>14. ASSUME NEW w \in W
       PROVE  /\ w \in Write
              /\ \/ w.op = "delete" /\ w.row = Null /\ w.id \in existing \ kept /\ w = Delete(w.id)
                 \/ /\ w.op = "update" /\ w.id \in kept /\ w.row = CaseRow(q, db[w.id].key)
                    /\ w = Update(w.id, CaseRow(q, db[w.id].key))
                 \/ /\ w.op = "insert"
                    /\ \E m \in 1..Len(keys) : /\ w.id = given + m /\ w.row = CaseRow(q, keys[m])
                                               /\ w = Insert(given + m, CaseRow(q, keys[m]))
  <2>1. CASE w \in deletes
    <3>1. PICK i \in existing \ kept : w = Delete(i)
      BY <1>1, <1>2, <2>1
    <3>2. i \in Ids
      BY <1>1, <3>1
    <3>3. w.op = "delete" /\ w.row = Null /\ w.id = i
      BY <3>1 DEF Delete
    <3>4. QED
      BY <3>1, <3>2, <3>3, WritesMade
  <2>2. CASE w \in updates
    <3>1. PICK i \in kept : w \in Setting(i, rows[i], CaseRow(q, rows[i].key))
      BY <1>2, <2>2
    <3>2. i \in Ids /\ rows[i] = db[i] /\ CaseRow(q, db[i].key) \in Row
      BY <1>1, <1>7, <1>10
    <3>3. w = Update(i, CaseRow(q, db[i].key))
      BY <3>1, <3>2 DEF Setting
    <3>4. QED
      BY <3>1, <3>2, <3>3, WritesMade
  <2>3. CASE w \in inserts
    <3>1. PICK m \in missing : w = Insert(given + m, CaseRow(q, keys[m]))
      BY <2>3
    <3>2. m \in 1..Len(keys)
      OBVIOUS
    <3>3. given + m \in Ids /\ CaseRow(q, keys[m]) \in Row
      BY <1>6, <1>8, <3>2
    <3>4. QED
      BY <3>1, <3>2, <3>3, WritesMade
  <2> HIDE DEF W, deletes, updates, inserts
  <2>4. w \in deletes \/ w \in updates \/ w \in inserts
    BY <1>3
  <2>5. QED
    BY <2>1, <2>2, <2>3, <2>4
<1> HIDE DEF W
<1>15. ASSUME NEW w \in W
       PROVE  w.id <= last /\ (w.op = "insert" <=> w.id \notin 1..given)
  <2>1. given <= last
    BY <1>4, <1>5, SMT
  <2>2. CASE w.op # "insert"
    <3>1. w.id \in existing
      BY <1>14, <1>10, <2>2
    <3>2. w.id <= given /\ w.id \in 1..given /\ w.id \in Nat
      BY <1>9, <3>1
    <3>3. w.id <= last
      BY <1>4, <1>5, <2>1, <3>2, SMT
    <3>4. QED
      BY <2>2, <3>2, <3>3
  <2>3. CASE w.op = "insert"
    <3>1. PICK m \in 1..Len(keys) : w.id = given + m
      BY <1>14, <2>3
    <3>2. QED
      BY <1>8, <2>3, <3>1
  <2>4. QED
    BY <2>2, <2>3
<1>16. ASSUME NEW w \in W, NEW x \in W, w.id = x.id
       PROVE  w = x
  <2>1. CASE w.op = "insert"
    <3>1. x.op = "insert"
      BY <1>15, <1>16, <2>1
    <3>2. PICK m \in 1..Len(keys) : w.id = given + m /\ w = Insert(given + m, CaseRow(q, keys[m]))
      BY <1>14, <2>1
    <3>3. PICK n \in 1..Len(keys) : x.id = given + n /\ x = Insert(given + n, CaseRow(q, keys[n]))
      BY <1>14, <3>1
    <3>4. m = n
      <4>1. m \in Nat /\ n \in Nat
        BY <1>5, SMT
      <4> DEFINE j == given + m
                 l == given + n
      <4>2. j = l
        <5> HIDE DEF j, l
        <5>1. w.id = j /\ x.id = l
          BY <3>2, <3>3 DEF j, l
        <5>2. QED
          BY <1>16, <5>1
      <4>3. given + m = given + n
        BY <4>2
      <4>4. QED
        BY <1>4, <4>1, <4>3, SMT
    <3>5. QED
      BY <3>2, <3>3, <3>4
  <2>2. CASE w.op # "insert"
    <3>1. x.op # "insert"
      BY <1>15, <1>16, <2>2
    <3>2. QED
      BY <1>14, <1>16, <2>2, <3>1
  <2>3. QED
    BY <2>1, <2>2
<1>17. QED
  BY <1>11, <1>12, <1>13, <1>14, <1>15, <1>16 DEF W

\* A seed deals with the cases of a question: the question joins the synced.
LEMMA SyncOwn ==
    ASSUME IndInv, NEW p \in Seeders, SyncCases(p)
    PROVE  IndInv'
<1> DEFINE s == seed[p]
           t == seed'[p]
<1>1. /\ Base /\ TypeOK /\ s.pc = "cases" /\ given + Len(CaseKeys[Title(p)]) \in Ids
  BY DEF IndInv, Base, SyncCases
<1>2. /\ Running(p) /\ s \in Session /\ PlaceFits(p) /\ KnownFits(p) /\ CasesFit(p)
      /\ s.nth \in 1..Len(Catalogue) /\ Title(p) \in Titles
      /\ s.admin \in Ids /\ HasAdmin(p) /\ s.test \in Ids /\ HasTest(p) /\ s.check = {}
  BY <1>1, AtAQuestion, PendingFacts DEF SessionFits
<1>3. PICK q \in Ids : q = s.question
  BY <1>1, CasesSeen
<1>4. PICK title \in Titles : title = Title(p)
  BY <1>2
<1> DEFINE keys == CaseKeys[title]
           existing == Children(db, "case", q)
           kept == {i \in existing : db[i].key \in KeysOf(title) /\ IsFirst(db, existing, i)}
           last == given + Len(keys)
<1>5. PICK W : W = CaseWrites(View(p), q, title)
  OBVIOUS
<1>6. /\ q \in 1..given /\ q \notin s.synced /\ HasQuestion(p, q, title)
      /\ db[q] # Null => db[q].table = "question" /\ db[q].key = title
      /\ \A i \in existing : i \in Ids /\ db[i] \in Row /\ db[q] # Null /\ \A w \in Pending(p) : w.id # i
  BY <1>1, <1>3, <1>4, CasesSeen
<1>7. /\ \A w \in W :
            \/ w.op = "delete" /\ w.row = Null /\ w.id \in existing \ kept
            \/ w.op = "update" /\ w.id \in kept /\ w.row = CaseRow(q, db[w.id].key)
            \/ /\ w.op = "insert"
               /\ \E m \in 1..Len(keys) : w.id = given + m /\ w.row = CaseRow(q, keys[m])
      /\ \A w, x \in W : w.id = x.id => w = x
      /\ W \subseteq Write
      /\ \A w \in W : w.id <= last
      /\ \A w \in W : w.op = "insert" => w.id \notin 1..given
      /\ \A i \in existing \ kept : Delete(i) \in W
      /\ \A i \in kept : db[i] # CaseRow(q, db[i].key) => Update(i, CaseRow(q, db[i].key)) \in W
      /\ \A m \in 1..Len(keys) :
            \/ \E i \in kept : db[i].key = keys[m]
            \/ Insert(given + m, CaseRow(q, keys[m])) \in W
  BY <1>1, <1>3, <1>4, <1>5, CaseWritesFacts
<1>8. /\ Steps(p) /\ SameRefs(p) /\ given' = last /\ last \in Ids
      /\ t.sent = s.sent /\ t.known = s.known /\ t.check = s.check
      /\ t.nth = s.nth + 1 /\ t.synced = s.synced \cup {q} /\ t.unsent = s.unsent \cup W
      /\ t.pc = IF s.nth = Len(Catalogue) THEN "commit" ELSE "question"
  <2>1. s.nth <= Len(Catalogue)
    BY <1>2, CatalogueFacts, SMT
  <2>2. s.question \in Ids /\ CaseWrites(View(p), s.question, Title(p)) \in SUBSET Write
    BY <1>3, <1>4, <1>5, <1>7
  <2>3. SyncCases(p)
    OBVIOUS
  <2>4. /\ Steps(p) /\ SameRefs(p)
        /\ given + Len(CaseKeys[Title(p)]) \in Ids
        /\ given' = given + Len(CaseKeys[Title(p)])
        /\ t.sent = s.sent /\ t.known = s.known /\ t.check = s.check
        /\ t.nth = s.nth + 1 /\ t.synced = s.synced \cup {s.question}
        /\ t.unsent = s.unsent \cup CaseWrites(View(p), s.question, Title(p))
        /\ t.pc = IF s.nth = Len(Catalogue) THEN "commit" ELSE "question"
    BY <1>1, <2>1, <2>2, <2>3, SyncStep
  <2>5. QED
    BY <1>3, <1>4, <1>5, <2>4
<1>9. seed' = [seed EXCEPT ![p] = t]
  BY <1>1, GotoIsOwn DEF SyncCases
<1>10. \A w \in W : w.op # "insert" => w.id \in existing
  BY <1>7
<1>11. given <= given' /\ given' \in 0..MaxId /\ given \in Nat
  <2>1. given \in Nat /\ last \in Nat /\ last <= MaxId
    BY <1>1, <1>8, GivenFacts, IdFacts
  <2>2. Len(keys) \in Nat
    BY <1>4, CatalogueAssumption, SMT
  <2>3. given <= last
    BY <2>1, <2>2, SMT
  <2>4. QED
    BY <1>8, <2>1, <2>3, IdFacts, SMT
<1> HIDE DEF existing, kept, keys, last
<1>12. \A i \in existing : i \in Ids /\ db[i] # Null /\ db[i].table = "case" /\ db[i].parent = q
  BY DEF existing, Children
<1>13. Extends(p, W)
  <2>1. Pending(p)' = Pending(p) \cup W
    BY <1>8 DEF Pending
  <2>2. \A u \in Seeders : u # p /\ Running(u) => \A w \in s.sent, x \in seed[u].sent : db[w.id] # Null => w.id # x.id
    BY <1>1, <1>2 DEF Base, SessionsInv, Apart
  <2>3. \A w \in W : w.op # "insert" => Old(w.id)
    BY <1>1, <1>10, <1>12, CommittedIsOld
  <2>4. \A w \in W, x \in Pending(p) : w.id # x.id
    <3>1. \A x \in Pending(p) : x.id \in 1..given
      BY <1>1, <1>2, IdsGiven
    <3>2. QED
      BY <1>6, <1>7, <1>10, <3>1
  <2>5. \A w \in W : w.id <= given'
    BY <1>7, <1>8
  <2>6. QED
    BY <1>2, <1>7, <1>8, <1>9, <1>11, <2>1, <2>2, <2>3, <2>4, <2>5 DEF Extends
<1>14. t.pc \in {"commit", "question"} /\ ~AtCases(p)' /\ ~BeforeTest(p)' /\ ~BeforeCheck(p)'
  <2>1. t.pc \in {"commit", "question"}
    BY <1>8
  <2>2. QED
    BY <2>1 DEF AtCases, BeforeTest, BeforeCheck
<1>15. Refers(p)
  BY <1>3, <1>8 DEF Refers, SameRefs
<1>16. db' = db /\ adds' = adds /\ Pending(p)' = Pending(p) \cup W
  BY <1>13, ExtendsOutside DEF Extends
<1>17. HasQuestion(p, q, title)'
  BY <1>1, <1>6, <1>13, <1>15, ExtendsReferences
<1>18. PlaceFits(p)'
  <2>1. t.admin \in Ids /\ t.test \in Ids /\ HasAdmin(p)' /\ HasTest(p)'
    BY <1>1, <1>2, <1>8, <1>13, <1>15, ExtendsReferences DEF SameRefs
  <2>2. /\ t.nth - 1 = s.nth /\ t.nth > 1 /\ s.nth \in 1..s.nth
        /\ (t.nth > Len(Catalogue) <=> s.nth = Len(Catalogue))
        /\ \A n \in 1..(s.nth - 1) : n \in 1..s.nth
        /\ \A n \in 1..s.nth : n = s.nth \/ n \in 1..(s.nth - 1)
    BY <1>2, <1>8, CatalogueFacts, SMT
  <2>3. \A u \in Ids : \A x : HasQuestion(p, u, x) => HasQuestion(p, u, x)'
    BY <1>1, <1>13, <1>15, ExtendsReferences
  <2>4. s.synced \subseteq Ids
    BY <1>2, SessionTypes
  <2>5. title = Catalogue[s.nth]
    BY <1>4 DEF Title
  <2>6. ASSUME NEW u \in t.synced
        PROVE  \E n \in 1..(t.nth - 1) : HasQuestion(p, u, Catalogue[n])'
    <3>1. CASE u = q
      <4>1. PICK n \in 1..s.nth : n = s.nth
        BY <2>2
      <4>2. HasQuestion(p, q, Catalogue[n])'
        BY <1>17, <2>5, <4>1
      <4>3. QED
        BY <2>2, <3>1, <4>2
    <3>2. CASE u \in s.synced
      <4>1. PICK n \in 1..(s.nth - 1) : HasQuestion(p, u, Catalogue[n])
        BY <1>2, <3>2 DEF PlaceFits
      <4>2. QED
        BY <2>2, <2>3, <2>4, <3>2, <4>1
    <3>3. QED
      BY <1>8, <3>1, <3>2
  <2>7. ASSUME NEW n \in 1..(t.nth - 1)
        PROVE  \E u \in t.synced : HasQuestion(p, u, Catalogue[n])'
    <3>1. CASE n = s.nth
      BY <1>8, <1>17, <2>5, <3>1
    <3>2. CASE n \in 1..(s.nth - 1)
      <4>1. PICK u \in s.synced : HasQuestion(p, u, Catalogue[n])
        BY <1>2, <3>2 DEF PlaceFits
      <4>2. QED
        BY <1>8, <2>3, <2>4, <4>1
    <3>3. QED
      BY <2>2, <3>1, <3>2
  <2>8. t.pc = "commit" <=> s.nth = Len(Catalogue)
    BY <1>8
  <2>9. t.check = {} /\ t.pc # "admin" /\ t.pc # "flush" /\ t.pc \in {"question", "cases", "flush", "commit"}
    BY <1>2, <1>8, <1>14
  <2>10. QED
    BY <1>14, <2>1, <2>2, <2>6, <2>7, <2>8, <2>9 DEF PlaceFits
<1>19. \A m \in 1..Len(keys) : keys[m] \in KeysOf(title)
  BY DEF KeysOf, keys
<1>20. \A i \in kept : i \in existing /\ db[i].key \in KeysOf(title)
  BY DEF kept
<1>21. WritesFit(p)'
  <2>1. ASSUME NEW k \in KeysOf(title) PROVE ContentFits(p, CaseRow(q, k))'
    <3>1. /\ CaseRow(q, k).table = "case" /\ CaseRow(q, k).parent = q /\ CaseRow(q, k).key = k
          /\ CaseRow(q, k).value = "catalogue"
      BY DEF CaseRow
    <3>2. q \in t.synced
      BY <1>8
    <3>3. QED
      BY <1>17, <3>1, <3>2 DEF ContentFits
  <2>2. \A k : /\ CaseRow(q, k).table = "case" /\ CaseRow(q, k).parent = q /\ CaseRow(q, k).key = k
    BY DEF CaseRow
  <2>3. ASSUME NEW w \in W PROVE WriteFits(p, w)'
    <3>1. w.id <= given'
      BY <1>7, <1>8
    <3>2. CASE w.op = "delete" /\ w.id \in existing
      <4>1. db[w.id].table = "case" /\ db[w.id].parent \in t.synced
        BY <1>8, <1>12, <3>2
      <4>2. QED
        BY <1>16, <3>1, <3>2, <4>1 DEF WriteFits
    <3>3. CASE w.op = "update" /\ w.id \in kept /\ w.row = CaseRow(q, db[w.id].key)
      <4>1. PICK k \in KeysOf(title) : k = db[w.id].key
        BY <1>20, <3>3
      <4>2. w.row = CaseRow(q, k)
        BY <3>3, <4>1
      <4>3. ContentFits(p, w.row)'
        BY <2>1, <4>2
      <4>4. PlacedAt(p, w)'
        BY <2>2, <4>2 DEF PlacedAt
      <4>5. db[w.id] # Null /\ SameRow(db[w.id], w.row)
        BY <1>12, <1>20, <2>2, <3>3, <4>1, <4>2 DEF SameRow
      <4>6. QED
        BY <1>16, <3>1, <3>3, <4>3, <4>4, <4>5 DEF WriteFits
    <3>4. ASSUME w.op = "insert", NEW m \in 1..Len(keys), w.id = given + m, w.row = CaseRow(q, keys[m])
          PROVE  WriteFits(p, w)'
      <4>1. PICK k \in KeysOf(title) : k = keys[m]
        BY <1>19
      <4>2. w.row = CaseRow(q, k)
        BY <3>4, <4>1
      <4>3. ContentFits(p, w.row)'
        BY <2>1, <4>2
      <4>4. PlacedAt(p, w)'
        BY <2>2, <4>2 DEF PlacedAt
      <4>5. db[w.id] = Null
        <5>1. w.id \in Ids /\ w.id \notin 1..given
          BY <1>7, <3>4, WriteFields
        <5>2. db[w.id] # Null => w.id <= given
          BY <1>1, <5>1 DEF Base, DatabaseInv
        <5>3. w.id \in Nat /\ 1 <= w.id
          BY <5>1, IdFacts
        <5>4. ~(w.id <= given)
          BY <1>11, <5>1, <5>3, SMT
        <5>5. QED
          BY <5>2, <5>4
      <4>6. QED
        BY <1>16, <3>1, <3>4, <4>3, <4>4, <4>5 DEF WriteFits
    <3>5. QED
      BY <1>7, <3>2, <3>3, <3>4
  <2>4. QED
    BY <1>1, <1>13, <1>15, <2>3, ExtendsWrites
<1>22. KnownFits(p)'
  <2>1. \A i \in Ids : Old(i) => Old(i)'
    BY <1>1, <1>13, ExtendsQuiet DEF QuietRows
  <2>2. s.known \subseteq Ids
    BY <1>2, SessionTypes
  <2> SUFFICES ASSUME NEW i \in s.known
               PROVE  /\ Old(i)'
                      /\ db[i] # Null => /\ db[i].table = "submission" /\ db[i].parent \notin s.check
                                         /\ \A w \in Pending(p) \cup W : w.op = "delete" => w.id # db[i].parent
    BY <1>8, <1>16 DEF KnownFits
  <2>3. /\ Old(i) /\ i \in Ids
        /\ db[i] # Null => /\ db[i].table = "submission" /\ db[i].parent \notin s.check
                           /\ \A w \in Pending(p) : w.op = "delete" => w.id # db[i].parent
    BY <1>2, <2>2 DEF KnownFits
  <2>4. ASSUME NEW w \in W, w.op = "delete", db[i] # Null PROVE w.id # db[i].parent
    <3>1. db[w.id].table = "case"
      BY <1>10, <1>12, <2>4
    <3>2. db[db[i].parent].table = "question"
      BY <1>1, <2>3, <2>4, RowFacts DEF ParentTable
    <3>3. QED
      BY <3>1, <3>2
  <2>5. QED
    BY <2>1, <2>3, <2>4
<1>23. ASSUME NEW y \in kept, NEW k, k = db[y].key
       PROVE  y \in Good(p, q, k)'
  <2>1. y \in existing /\ k \in KeysOf(title)
    BY <1>20, <1>23
  <2>2. /\ y \in Ids /\ db[y] # Null /\ db[y].table = "case" /\ db[y].parent = q
    BY <1>12, <2>1
  <2>3. db[y].value = "catalogue" \/ \E w \in Pending(p) \cup W : w.op = "update" /\ w.id = y
    <3>1. CASE db[y] = CaseRow(q, k)
      BY <3>1 DEF CaseRow
    <3>2. CASE db[y] # CaseRow(q, k)
      <4>1. Update(y, CaseRow(q, k)) \in W
        BY <1>7, <1>23, <3>2
      <4>2. Update(y, CaseRow(q, k)).op = "update" /\ Update(y, CaseRow(q, k)).id = y
        BY DEF Update
      <4>3. QED
        BY <4>1, <4>2
    <3>3. QED
      BY <3>1, <3>2
  <2>4. QED
    BY <1>16, <1>23, <2>2, <2>3 DEF Good
<1>24. \A w \in W : w.op = "delete" => w.id \in existing \ kept
  BY <1>7
<1>25. Doomed(p) => Doomed(p)'
  BY <1>8, <1>16 DEF Doomed
<1>26. ASSUME ~Doomed(p)' PROVE DeletesCovered(p)'
  <2> SUFFICES ASSUME NEW w \in Pending(p) \cup W, w.op = "delete", db[w.id] # Null, db[w.id].table = "case",
                      NEW u, u = db[w.id].parent, NEW k, k = db[w.id].key, k \in KeysOf(db[u].key)
               PROVE  \E y \in Good(p, u, k)' : y < w.id
    BY <1>16 DEF DeletesCovered
  <2>1. CASE w \in Pending(p)
    BY <1>1, <1>13, <1>15, <1>25, <1>26, <2>1, ExtendsDone
  <2>2. CASE w \in W
    <3>1. w.id \in existing /\ w.id \notin kept
      BY <1>24, <2>2
    <3>2. u = q /\ k \in KeysOf(title)
      BY <1>6, <1>12, <3>1
    <3> DEFINE same == {j \in existing : db[j].key = k}
    <3>3. existing \subseteq Nat /\ existing \subseteq Ids
      BY <1>12, IdFacts
    <3>4. ~IsFirst(db, existing, w.id)
      BY <3>1, <3>2 DEF kept
    <3>5. PICK j \in existing : db[j].key = k /\ ~(w.id <= j)
      BY <3>4 DEF IsFirst
    <3>6. PICK y \in same : \A n \in same : y <= n
      <4>1. same # {} /\ same \subseteq Nat
        BY <3>3, <3>5
      <4> HIDE DEF same
      <4>2. QED
        BY <4>1, LeastOf
    <3>7. y \in existing /\ db[y].key = k
      OBVIOUS
    <3>8. IsFirst(db, existing, y)
      BY <3>6, <3>7 DEF IsFirst
    <3>9. y \in kept
      BY <3>2, <3>7, <3>8 DEF kept
    <3>10. y < w.id
      <4>1. y <= j /\ y \in Nat /\ j \in Nat /\ w.id \in Nat
        BY <3>1, <3>3, <3>5, <3>6, <3>7
      <4>2. QED
        BY <3>5, <4>1, SMT
    <3>11. y \in Good(p, q, k)'
      BY <1>23, <3>7, <3>9
    <3>12. QED
      BY <3>2, <3>10, <3>11
  <2>3. QED
    BY <2>1, <2>2
<1>27. ASSUME ~Doomed(p)' PROVE KeysCovered(p)'
  <2> SUFFICES ASSUME NEW u \in t.synced, NEW x \in Titles, HasQuestion(p, u, x)', NEW k \in KeysOf(x)
               PROVE  \/ Good(p, u, k)' # {}
                      \/ \E w \in Pending(p)' : /\ w.op = "insert" /\ w.row.table = "case"
                                                /\ w.row.parent = u /\ w.row.key = k
    BY DEF KeysCovered
  <2>1. CASE u \in s.synced
    BY <1>1, <1>13, <1>15, <1>25, <1>27, <2>1, ExtendsDone
  <2>2. CASE u = q
    <3>1. x = title
      BY <1>1, <1>6, <1>13, <2>2, ExtendsTitle
    <3>2. PICK m \in 1..Len(keys) : k = keys[m]
      BY <3>1 DEF KeysOf, keys
    <3>3. CASE \E i \in kept : db[i].key = keys[m]
      <4>1. PICK i \in kept : db[i].key = k
        BY <3>2, <3>3
      <4>2. i \in Good(p, q, k)'
        BY <1>23, <4>1
      <4>3. QED
        BY <2>2, <4>2
    <3>4. CASE Insert(given + m, CaseRow(q, keys[m])) \in W
      <4>1. PICK w \in W : w = Insert(given + m, CaseRow(q, keys[m]))
        BY <3>4
      <4>2. w.op = "insert" /\ w.row = CaseRow(q, k)
        BY <3>2, <4>1 DEF Insert
      <4>3. w.row.table = "case" /\ w.row.parent = q /\ w.row.key = k
        BY <4>2 DEF CaseRow
      <4>4. QED
        BY <1>16, <2>2, <4>1, <4>2, <4>3
    <3>5. QED
      BY <1>7, <3>3, <3>4
  <2>3. QED
    BY <1>8, <2>1, <2>2
<1>28. ASSUME ~Doomed(p)', adds' = 0 PROVE NoOthers(p)'
  <2> SUFFICES ASSUME NEW y \in Ids, db[y] # Null, db[y].table = "case",
                      NEW u, u = db[y].parent, NEW k, k = db[y].key, u \in t.synced
               PROVE  \/ \E w \in Pending(p) \cup W : w.op = "delete" /\ w.id = y
                      \/ k \in KeysOf(db[u].key) /\ y \in Good(p, u, k)'
    BY <1>16 DEF NoOthers
  <2>1. CASE u \in s.synced
    <3>1. \/ \E w \in Pending(p)' : w.op = "delete" /\ w.id = y
          \/ k \in KeysOf(db[u].key) /\ y \in Good(p, u, k)'
      BY <1>1, <1>13, <1>15, <1>25, <1>28, <2>1, ExtendsDone
    <3>2. QED
      BY <1>16, <3>1
  <2>2. CASE u = q
    <3>1. y \in existing
      BY <2>2 DEF existing, Children
    <3>2. CASE y \in kept
      <4>1. k \in KeysOf(title) /\ db[u].key = title
        BY <1>6, <1>20, <2>2, <3>1, <3>2 DEF existing
      <4>2. y \in Good(p, q, k)'
        BY <1>23, <3>2
      <4>3. QED
        BY <2>2, <4>1, <4>2
    <3>3. CASE y \notin kept
      <4>1. Delete(y) \in W
        BY <1>7, <3>1, <3>3
      <4>2. Delete(y).op = "delete" /\ Delete(y).id = y
        BY DEF Delete
      <4>3. QED
        BY <4>1, <4>2
    <3>4. QED
      BY <3>2, <3>3
  <2>3. QED
    BY <1>8, <2>1, <2>2
<1>29. CasesFit(p)'
  BY <1>26, <1>27, <1>28 DEF CasesFit
<1>30. SessionFits(p)'
  BY <1>18, <1>21, <1>22, <1>29 DEF SessionFits
<1>31. QED
  BY <1>13, <1>30, OwnStep

-----------------------------------------------------------------------------
(* The theorems *)

LEMMA StartFits ==
    ASSUME Init
    PROVE  IndInv
<1>1. /\ db \in [Ids -> Row \cup {Null}]
      /\ \A i \in Ids : Fits(db, i)
      /\ db[OtherAdmin] # Null /\ db[OtherAdmin].table = "user" /\ db[OtherAdmin].key = "other"
      /\ \A i \in Ids : db[i] # Null =>
            /\ db[i].value # "vacuous"
            /\ db[i].table = "question" =>
                  \E c \in Ids : db[c] # Null /\ db[c].table = "case" /\ db[c].parent = i
  BY StartsAssumption, CasesAssumption DEF Init
<1>2. \A p \in Seeders : seed[p] = Idle /\ ~Running(p)
  BY DEF Init, Running, Idle
<1>3. /\ given \in 0..MaxId /\ \A i \in Ids : db[i] # Null => i <= given
      /\ seed = [p \in Seeders |-> Idle]
      /\ student = Idle /\ admin = Idle /\ worker = Idle
      /\ runs = 0 /\ adds = 0 /\ posts = 0 /\ faults = 0
      /\ fresh \in BOOLEAN /\ seeded = FALSE /\ steady = FALSE /\ overlap = FALSE
  BY DEF Init
<1>4. TypeOK
  <2>1. seed \in [Seeders -> Session \cup {Idle}]
    BY <1>3
  <2>2. {runs, adds, posts, faults} \subseteq Nat
    BY <1>3, SMT
  <2>3. fresh \in BOOLEAN /\ seeded \in BOOLEAN /\ steady \in BOOLEAN /\ overlap \in BOOLEAN
    BY <1>3, Zenon
  <2>4. {fresh, seeded, steady, overlap} \subseteq BOOLEAN
    BY <2>3, Zenon
  <2>5. QED
    BY <1>1, <1>3, <2>1, <2>2, <2>4 DEF TypeOK
<1>5. SessionsInv /\ OthersInv
  BY <1>2, <1>3 DEF SessionsInv, OthersInv, StudentFits, WorkerFits, AdminFits
<1>6. \A q \in Ids : db[q] # Null /\ db[q].table = "question" => HasCases(q)
  BY <1>1 DEF HasCases, Children
<1>7. ASSUME NEW i \in Ids, db[i] # Null, db[i].table = "submission"
      PROVE  HasCases(db[i].parent)
  <2>1. db[i].parent \in Ids /\ db[db[i].parent] # Null /\ db[db[i].parent].table = "question"
    BY <1>4, <1>7, RowFacts DEF ParentTable
  <2>2. QED
    BY <1>6, <2>1
<1>8. DatabaseInv
  BY <1>1, <1>3, <1>7 DEF DatabaseInv
<1>9. CatalogueComplete /\ QuestionsComeWithCases /\ JudgedOnCases
  BY <1>1, <1>3, <1>6 DEF CatalogueComplete, QuestionsComeWithCases, JudgedOnCases, HasCases
<1>10. QED
  BY <1>4, <1>5, <1>8, <1>9 DEF IndInv

\* A step that changes nothing.
LEMMA SameInvariant ==
    ASSUME IndInv, UNCHANGED vars
    PROVE  IndInv'
<1>1. /\ db' = db /\ given' = given /\ seed' = seed /\ student' = student /\ admin' = admin
      /\ worker' = worker /\ runs' = runs /\ adds' = adds /\ posts' = posts /\ faults' = faults
      /\ fresh' = fresh /\ seeded' = seeded /\ steady' = steady /\ overlap' = overlap
  BY DEF vars, people, counts, history
<1>2. Base /\ TypeOK
  BY DEF IndInv, Base
<1>3. \A p \in Seeders : Keeps(p)
  BY <1>1, <1>2, SameKeeps
<1>4. \A i \in Ids : Old(i) => Old(i)'
  BY <1>1, <1>2, <1>3, GivenFacts, KeepingOld
<1>5. QuietRows
  BY <1>1, <1>2, <1>4, GivenFacts, UnchangedIsQuiet
<1>6. TypeOK'
  BY <1>1, <1>2 DEF TypeOK
<1>7. SessionsInv'
  <2>1. \A q \in Seeders : ~Running(q)' \/ (Running(q) /\ Evolves(q))
    BY <1>2, <1>3, <1>5, QuietEvolves DEF Evolves, Keeps
  <2>2. QED
    BY <1>2, <1>6, <2>1, SessionsEvolve
<1>8. OthersInv'
  BY <1>1, <1>2, <1>5, QuietEvolves, StudentEvolves, WorkerEvolves, AdminEvolves DEF IndInv, OthersInv, TypeOK
<1>9. DatabaseInv' /\ CatalogueComplete' /\ QuestionsComeWithCases' /\ JudgedOnCases'
  BY <1>1, <1>2, <1>5, QuietDatabase, QuietCatalogue, QuietQuestions DEF IndInv, JudgedOnCases
<1>10. QED
  BY <1>6, <1>7, <1>8, <1>9 DEF IndInv

LEMMA StepsKeepInvariant ==
    ASSUME IndInv, [Next]_vars
    PROVE  IndInv'
<1>1. ASSUME NEW p \in Seeders, Begin(p) PROVE IndInv'
  BY <1>1, BeginOwn
<1>2. ASSUME NEW p \in Seeders, FindAdmin(p) PROVE IndInv'
  BY <1>2, FindAdminStep
<1>3. ASSUME NEW p \in Seeders, FindTest(p) PROVE IndInv'
  BY <1>3, FindTestStep
<1>4. ASSUME NEW p \in Seeders, ListRetired(p) PROVE IndInv'
  BY <1>4, ListRetiredOwn
<1>5. ASSUME NEW p \in Seeders, CheckRetired(p) PROVE IndInv'
  BY <1>5, CheckRetiredOwn
<1>6. ASSUME NEW p \in Seeders, FindQuestion(p) PROVE IndInv'
  BY <1>6, FindQuestionStep
<1>7. ASSUME NEW p \in Seeders, SyncCases(p) PROVE IndInv'
  BY <1>7, SyncOwn
<1>8. ASSUME NEW p \in Seeders, Flush(p) PROVE IndInv'
  BY <1>8, FlushOwn
<1>9. ASSUME NEW p \in Seeders, Commit(p) PROVE IndInv'
  BY <1>9, CommitStep
<1>10. {runs, adds, posts, faults} \subseteq Nat
  BY DEF IndInv, TypeOK
<1>11. ASSUME NEW p \in Seeders, Reject(p) PROVE IndInv'
  <2>1. EndSeed(p) /\ UNCHANGED <<db, given, people, adds, history>>
        /\ {runs', posts', faults'} \subseteq Nat
    BY <1>10, <1>11 DEF Reject, outside, counts
  <2>2. QED
    BY <2>1, EndSeedStep
<1>12. ASSUME NEW p \in Seeders, Fail(p) PROVE IndInv'
  <2>1. EndSeed(p) /\ UNCHANGED <<db, given, people, adds, history>>
        /\ {runs', posts', faults'} \subseteq Nat
    BY <1>10, <1>12 DEF Fail
  <2>2. QED
    BY <2>1, EndSeedStep
<1>13. ASSUME NEW i \in Ids, Submit(i) PROVE IndInv'
  BY <1>13, SubmitStep
<1>14. ASSUME NEW i \in Ids, StartJudging(i) PROVE IndInv'
  BY <1>14, StartJudgingStep
<1>15. ASSUME NEW i \in Ids, CheckOwner(i) PROVE IndInv'
  BY <1>15, CheckOwnerStep
<1>16. CASE InsertSubmission
  BY <1>16, InsertSubmissionStep
<1>17. CASE LoadCases
  BY <1>17, LoadCasesStep
<1>18. CASE StoreVerdict
  BY <1>18, StoreVerdictStep
<1>19. CASE CreateTest
  BY <1>19, CreateTestStep
<1>20. CASE Add
  BY <1>20, AddStep
<1>21. CASE UNCHANGED vars
  BY <1>21, SameInvariant
<1>22. QED
  BY <1>1, <1>2, <1>3, <1>4, <1>5, <1>6, <1>7, <1>8, <1>9, <1>11, <1>12, <1>13, <1>14, <1>15,
     <1>16, <1>17, <1>18, <1>19, <1>20, <1>21 DEF Next, SeedStep

\* In every reachable state the rows, the sessions of the seeds with what they
\* have pending, and everybody else's requests fit together (seed.py:28-172
\* against main.py and worker.py).
THEOREM SeedingInvariantHolds == Spec => []IndInv
<1>1. Init => IndInv
  BY StartFits
<1>2. IndInv /\ [Next]_vars => IndInv'
  BY StepsKeepInvariant
<1>3. QED
  BY <1>1, <1>2, PTL DEF Spec

\* The database holds only rows the schema allows, each with its parent, and a
\* seed writes only such rows, however many seeds run beside the requests.
THEOREM TypesHold == Spec => []TypeOK
<1>1. IndInv => TypeOK
  BY DEF IndInv
<1>2. QED
  BY <1>1, SeedingInvariantHolds, PTL

\* Once a seed has committed, there is at every moment a contest with every
\* question of the catalogue, each with the cases and the outputs it lists:
\* whatever later and overlapping seeds do (seed.py:110-172).
THEOREM CatalogueStaysComplete == Spec => []CatalogueComplete
<1>1. IndInv => CatalogueComplete
  BY DEF IndInv
<1>2. QED
  BY <1>1, SeedingInvariantHolds, PTL

\* Without another administrator no question is ever committed without cases.
THEOREM QuestionsHaveCases == Spec => []QuestionsComeWithCases
<1>1. IndInv => QuestionsComeWithCases
  BY DEF IndInv
<1>2. QED
  BY <1>1, SeedingInvariantHolds, PTL

\* No verdict is stored that was passed on no cases at all, though seeds replace
\* cases and delete questions between the count, the load and the verdict.
THEOREM VerdictsHaveCases == Spec => []JudgedOnCases
<1>1. IndInv => JudgedOnCases
  BY DEF IndInv
<1>2. QED
  BY <1>1, SeedingInvariantHolds, PTL

LEMMA OnlyCommitsDelete ==
    ASSUME IndInv, [Next]_vars, NEW i \in Ids, db[i] # Null, db'[i] = Null
    PROVE  \E p \in Seeders : Commit(p)
<1>1. TypeOK /\ db \in [Ids -> Row \cup {Null}] /\ db' # db
  BY DEF IndInv, TypeOK
<1>2. ASSUME NEW row \in Row, InsertRow(row) PROVE FALSE
  <2>1. db' = db \/ db' = [db EXCEPT ![given + 1] = row]
    BY <1>2 DEF InsertRow
  <2>2. QED
    BY <1>1, <2>1, IdFacts
<1>3. ASSUME NEW j \in Ids, NEW v \in {"pending", "running", "judged", "vacuous"},
             db[j].table = "submission", db[j] # Null, db' = [db EXCEPT ![j].value = v]
      PROVE  FALSE
  <2> DEFINE new == [db[j] EXCEPT !.value = v]
  <2>1. db[j] \in [table: {"submission"}, parent: Ids, key: {Null},
                   value: {"pending", "running", "judged", "vacuous"}]
    BY <1>1, <1>3, SMT DEF Row
  <2>2. new \in Row
    BY <2>1, SMT DEF Row
  <2>3. db' = [db EXCEPT ![j] = new]
    BY <1>3
  <2> HIDE DEF new
  <2>4. db'[i] = IF i = j THEN new ELSE db[i]
    BY <1>1, <2>3
  <2>5. QED
    BY <2>2, <2>4, IdFacts
<1>4. CASE InsertSubmission
  <2>1. student \in [pc: {"insert"}, question: Ids]
    BY <1>1, <1>4 DEF InsertSubmission, Idle, TypeOK
  <2>2. [table |-> "submission", parent |-> student.question, key |-> Null, value |-> "pending"] \in Row
    BY <2>1, SMT DEF Row
  <2>3. QED
    BY <1>2, <1>4, <2>2 DEF InsertSubmission
<1>5. CASE CreateTest
  <2>1. [table |-> "test", parent |-> OtherAdmin, key |-> "contest", value |-> "other"] \in Row
    BY BoundsAssumption, SMT DEF Row, Contents
  <2>2. QED
    BY <1>2, <1>5, <2>1 DEF CreateTest
<1>6. CASE Add
  <2>1. admin \in [pc: {"add"}, row: Row]
    BY <1>1, <1>6 DEF Add, Idle, TypeOK
  <2>2. admin.row \in Row
    BY <2>1, SMT
  <2>3. QED
    BY <1>2, <1>6, <2>2 DEF Add
<1>7. ASSUME NEW j \in Ids, StartJudging(j) PROVE FALSE
  BY <1>3, <1>7 DEF StartJudging
<1>8. CASE StoreVerdict
  <2>1. worker # Idle /\ worker.pc = "store" /\ WorkerFits
    BY <1>8 DEF StoreVerdict, Idle, IndInv, OthersInv
  <2>2. PICK j \in Ids : j = worker.job
    BY <1>1, <2>1, WorkerFacts
  <2>3. PICK v \in {"pending", "running", "judged", "vacuous"} : v = worker.verdict
    BY <1>1, <2>1, WorkerFacts
  <2>4. db[j] # Null /\ db' = [db EXCEPT ![j].value = v]
    BY <1>1, <1>8, <2>2, <2>3 DEF StoreVerdict
  <2>5. db[j].table = "submission"
    BY <2>1, <2>2, <2>4 DEF WorkerFits
  <2>6. QED
    BY <1>3, <2>4, <2>5
<1>9. ASSUME NEW p \in Seeders, Begin(p) \/ Fail(p) \/ (SeedStep(p) /\ ~Commit(p)) PROVE FALSE
  BY <1>1, <1>9 DEF Begin, Fail, SeedStep, FindAdmin, FindTest, ListRetired, CheckRetired, FindQuestion,
     SyncCases, Flush, Reject, outside
<1>10. ASSUME NEW j \in Ids, Submit(j) \/ CheckOwner(j) PROVE FALSE
  BY <1>1, <1>10 DEF Submit, CheckOwner
<1>11. ~LoadCases /\ ~UNCHANGED vars
  BY <1>1 DEF LoadCases, vars
<1>12. QED
  BY <1>4, <1>5, <1>6, <1>7, <1>8, <1>9, <1>10, <1>11 DEF Next

\* A submission is lost only to the commit of a seed, with a retired question,
\* and never one that was there when the seed looked for submissions.
THEOREM SeenSurvive == Spec => SeenSubmissionsSurvive
<1>1. ASSUME IndInv, [Next]_vars, NEW i \in Ids,
             db[i] # Null, db[i].table = "submission", db'[i] = Null
      PROVE  /\ db[db[i].parent].key \in Retired
             /\ \E p \in Seeders : /\ seed[p].pc = "commit" /\ seed'[p] = Idle
                                   /\ i \notin seed[p].known
  <2>1. Base /\ TypeOK
    BY <1>1 DEF IndInv, Base
  <2>2. PICK p \in Seeders : Commit(p)
    BY <1>1, OnlyCommitsDelete
  <2>3. seed[p].pc = "commit" /\ Running(p) /\ Commits(p) /\ seed'[p] = Idle
    BY <2>1, <2>2, RunningSession, EndStep DEF Commit, Commits, Pending, SeedPCs
  <2>4. Orphan(Written(db, Pending(p)), i)
    BY <1>1, <2>1, <2>3, CommittedGone
  <2>5. /\ db[db[i].parent].key \in Retired
        /\ \E w \in Pending(p) : w.op = "delete" /\ w.id = db[i].parent
    BY <2>1, <2>3, <2>4, OrphanFacts
  <2>6. KnownFits(p)
    BY <2>1, <2>3, PendingFacts DEF SessionFits
  <2>7. i \notin seed[p].known
    BY <1>1, <2>5, <2>6 DEF KnownFits
  <2>8. QED
    BY <2>3, <2>5, <2>7
<1>2. IndInv /\ [Next]_vars =>
          [\A i \in Ids : db[i] # Null /\ db[i].table = "submission" /\ db'[i] = Null =>
              /\ db[db[i].parent].key \in Retired
              /\ \E p \in Seeders : /\ seed[p].pc = "commit" /\ seed'[p] = Idle
                                    /\ i \notin seed[p].known]_vars
  BY <1>1
<1>3. QED
  BY <1>2, SeedingInvariantHolds, PTL DEF Spec, SeenSubmissionsSurvive

=============================================================================
