----------------------------- MODULE MCSeeding -----------------------------
(* Small instances of Seeding for TLC. *)
EXTENDS SeedingInvariant, TLC

Rows(table, parent, key, value) == [table |-> table, parent |-> parent, key |-> key, value |-> value]
Database(rows) == [i \in Ids |-> IF i \in DOMAIN rows THEN rows[i] ELSE Null]

\* Only another administrator has signed up.
NewDatabase == Database(<<Rows("user", Null, "other", "other")>>)

\* The catalogue has got a new contest since the last seed.
NewContest == Database(<<Rows("user", Null, "other", "other"),
                         Rows("user", Null, "admin", "catalogue")>>)

\* An older catalogue has been seeded, under either owner: one question is
\* retired, one is missing, the other has an old case and a wrong output.
OldContest(owner) ==
    Database(<<Rows("user", Null, "other", "other"),
               Rows("user", Null, "admin", "catalogue"),
               Rows("test", owner, "contest", "other"),
               Rows("question", 3, "retired", "other"),
               Rows("case", 4, "old", "other"),
               Rows("question", 3, "one", "catalogue"),
               Rows("case", 6, "old", "other"),
               Rows("case", 6, "case", "other")>>)

AllStarts == {NewDatabase, NewContest, OldContest(1), OldContest(2)}
Interchangeable == Permutations(Seeders)
CatalogueTitles == <<"one", "two">>
CatalogueKeys == "one" :> <<"case">> @@ "two" :> <<"case">>
=============================================================================
