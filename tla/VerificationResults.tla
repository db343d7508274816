--------------------------- MODULE VerificationResults ---------------------------
(***************************************************************************)
(* The results of verifying the pacts of one provider, and the table of    *)
(* the latest result for each pact and provider version.                   *)
(*                                                                         *)
(* A request is one database transaction whose statements interleave with  *)
(* those of others, as in Deployments: it sees what is committed, waits    *)
(* for rows that others have locked, and applies its writes at Commit.     *)
(* A row of verifications is identified by the request that saved it; a    *)
(* row of versions by the number of the version and its creator.           *)
(***************************************************************************)
EXTENDS FiniteSets

CONSTANTS
    Requests,
    Contents,    \* the pact versions (distinct contents) of the provider's pacts
    Between,     \* those of the consumer whose integration may be deleted
    Versions,    \* the numbers of the provider's versions
    Workloads,   \* what clients may ask of the requests: functions to jobs
    Old,         \* stands for the creator of a version that was there before
    NoRow        \* stands for "no such row"

Pairs == Contents \X Versions
Operations == {"verify", "delete_result", "delete_version", "delete_integration"}
Ids == Requests \cup {Old}

ASSUME VerificationResultsAssumption ==
    /\ Between \subseteq Contents
    /\ Old \notin Requests /\ NoRow \notin Ids /\ NoRow \notin Pairs
    /\ Contents \cap Versions = {}
    /\ Workloads \subseteq [Requests -> [op : Operations, pair : Pairs]]

VARIABLES
    contents,    \* the pact versions that exist
    version,     \* version[v]: the creator of the row of v
    result,      \* result[i]: the pair that the verification i is about
    latest,      \* latest[p]: the verification that the latest row of p names
    pc, job,     \* the requests: where each is, and what it was asked
    row,         \* row[r]: the version, or the result, that r has found
    chosen,      \* chosen[r]: the rows chosen by the DELETE in progress
    kept,        \* kept[r]: the versions found to have results
    holds,       \* holds[r]: what the open transaction of r has locked
    last,        \* history: last[p] is the result of p committed last
    overtaken    \* history: overtaken[r] are the requests done while r was open

tables == <<contents, version, result, latest, last>>
memory == <<job, row, chosen, kept>>
vars == <<tables, memory, pc, holds, overtaken>>

Outcomes == {"done", "missing", "error"}
Steps == {"pact", "version", "create", "insert", "latest", "rows", "delete", "cascade",
          "contents", "orphans", "again", "delete_again", "cascade_again", "parents",
          "remove", "commit"}
Ended(r) == pc[r] \in Outcomes
Open(r) == pc[r] \in Steps

Content(r) == job[r].pair[1]
Version(r) == job[r].pair[2]
Meets(r, p) ==
    Version(r) = Version(p) \/ "delete_integration" \in {job[r].op, job[p].op}

-----------------------------------------------------------------------------
(* What a statement of r is about.                                         *)

Key(kind, x) == <<kind, x>>
Keys(kind, X) == {Key(kind, x) : x \in X}
Wrote(r, kind, x) == Key(kind, x) \in holds[r]

VersionRow(v) == <<v, version[v]>>

\* The committed results that r has not deleted itself.
Results(r) == {i \in Requests : result[i] # NoRow /\ ~Wrote(r, "result", i)}

\* The versions that r deletes: the one it was asked to, or the orphans, which
\* are those it did not find a result of.
DoomedVersions(r) ==
    {v \in Versions :
        /\ version[v] # NoRow
        /\ \/ job[r].op = "delete_version" /\ VersionRow(v) = <<Version(r), row[r]>>
           \/ job[r].op = "delete_integration" /\ VersionRow(v) \notin kept[r]}

RemainingResults(r) == {i \in chosen[r] : i \in Requests /\ result[i] # NoRow}
RemainingVersions(r) == {v \in Versions : version[v] # NoRow /\ VersionRow(v) \in chosen[r]}
LatestRows(r) == {p \in Pairs : latest[p] \in chosen[r]}

\* What the next statement of r has to wait for.
Needs(r) ==
    CASE pc[r] = "create" -> {Key("version", Version(r)), Key("gone", Version(r))}
      [] pc[r] = "insert" -> {Key("gone", Content(r)), Key("gone", Version(r))}
      [] pc[r] = "latest" -> {Key("latest", job[r].pair)}
      [] pc[r] \in {"delete", "delete_again"} -> Keys("result", RemainingResults(r))
      [] pc[r] \in {"cascade", "cascade_again"} -> Keys("latest", LatestRows(r))
      [] pc[r] = "contents" -> Keys("refer", Between) \cup Keys("gone", Between)
      [] pc[r] = "remove" ->
            UNION {Keys(kind, RemainingVersions(r)) : kind \in {"version", "refer", "gone"}}
      [] OTHER -> {}

Waits(r) == {p \in Requests \ {r} : Needs(r) \cap holds[p] # {}}

\* r waits, directly or through others, for itself.
OnCycle(r) ==
    \A S \in SUBSET Requests :
        (\A q \in S \cup {r} : Waits(q) \subseteq S) => r \in S

At(r, step) == pc[r] = step /\ Waits(r) = {}
Go(r, step) == pc' = [pc EXCEPT ![r] = step]
Lock(r, keys) == holds' = [holds EXCEPT ![r] = @ \cup keys]

-----------------------------------------------------------------------------
Init ==
    /\ contents = Contents
    /\ version \in [Versions -> {Old, NoRow}]
    /\ result = [i \in Requests |-> NoRow]
    /\ latest = [p \in Pairs |-> NoRow]
    /\ last = [p \in Pairs |-> NoRow]
    /\ pc = [r \in Requests |-> "idle"]
    /\ job \in Workloads
    /\ row = [r \in Requests |-> NoRow]
    /\ chosen = [r \in Requests |-> {}]
    /\ kept = [r \in Requests |-> {}]
    /\ holds = [r \in Requests |-> {}]
    /\ overtaken = [r \in Requests |-> {}]

\* The transaction of r is rolled back, or ends without having changed anything.
End_KeepsLocks(r, outcome) == Go(r, outcome) /\ UNCHANGED <<tables, memory, holds>>
End(r, outcome) ==
    /\ Go(r, outcome)
    /\ holds' = [holds EXCEPT ![r] = {}]
    /\ UNCHANGED <<tables, memory>>

(* A result arrives for a pact, which must exist: 404 without it. *)

BeginVerify(r) ==
    /\ pc[r] = "idle" /\ job[r].op = "verify"
    /\ Go(r, IF Content(r) \in contents THEN "pact" ELSE "missing")
    /\ UNCHANGED <<tables, memory, holds>>

\* The number is taken and the body handled; the pact is then looked up again.
FindPact(r) ==
    /\ At(r, "pact")
    /\ IF Content(r) \in contents
       THEN Go(r, "version") /\ UNCHANGED <<tables, memory, holds>>
       ELSE End(r, "error")

FindVersion(r) ==
    /\ At(r, "version")
    /\ row' = [row EXCEPT ![r] = version[Version(r)]]
    /\ Go(r, IF version[Version(r)] = NoRow THEN "create" ELSE "insert")
    /\ UNCHANGED <<tables, job, chosen, kept, holds>>

\* An upsert: of a version that another request has created since, the row is updated.
UpsertVersion(r) ==
    /\ At(r, "create")
    /\ Lock(r, {Key("version", Version(r))})
    /\ row' = [row EXCEPT ![r] =
                  IF version[Version(r)] = NoRow THEN r ELSE version[Version(r)]]
    /\ Go(r, "insert")
    /\ UNCHANGED <<tables, job, chosen, kept>>

\* The new row refers to a pact version and a provider version, which must exist
\* and cannot be deleted by others from here on.
SaveResult(r) ==
    /\ At(r, "insert")
    /\ IF Content(r) \in contents /\ row[r] \in {r, version[Version(r)]}
       THEN /\ Lock(r, Keys("refer", {Content(r), Version(r)}) \cup {Key("result", r)})
            /\ Go(r, "latest")
            /\ UNCHANGED <<tables, memory>>
       ELSE End(r, "error")

UpdateLatest(r) ==
    /\ At(r, "latest")
    /\ Lock(r, {Key("latest", job[r].pair)})
    /\ Go(r, "commit")
    /\ UNCHANGED <<tables, memory>>

(* Deleting one result, a provider version, or an integration. *)

BeginDeleteResult(r) ==
    /\ pc[r] = "idle" /\ job[r].op = "delete_result"
    /\ \/ \E i \in Requests :
            /\ result[i] = job[r].pair
            /\ chosen' = [chosen EXCEPT ![r] = {i}]
            /\ Go(r, "delete")
       \/ /\ \A i \in Requests : result[i] # job[r].pair
          /\ Go(r, "missing")
          /\ UNCHANGED chosen
    /\ UNCHANGED <<tables, job, row, kept, holds>>

BeginDeleteVersion(r) ==
    /\ pc[r] = "idle" /\ job[r].op = "delete_version"
    /\ row' = [row EXCEPT ![r] = version[Version(r)]]
    /\ Go(r, IF version[Version(r)] = NoRow THEN "missing" ELSE "rows")
    /\ UNCHANGED <<tables, job, chosen, kept, holds>>

BeginDeleteIntegration(r) ==
    /\ pc[r] = "idle" /\ job[r].op = "delete_integration"
    /\ Go(r, "rows")
    /\ UNCHANGED <<tables, memory, holds>>

Choose(r, step, rows, next) ==
    /\ At(r, step)
    /\ chosen' = [chosen EXCEPT ![r] = rows]
    /\ Go(r, next)
    /\ UNCHANGED <<tables, job, row, kept, holds>>

ResultsOf(r, vs) == {i \in Results(r) : result[i][2] \in vs}

\* The rows that a DELETE is about are those committed when it begins.
ChooseResults(r) ==
    Choose(r, "rows",
           IF job[r].op = "delete_version" THEN ResultsOf(r, DoomedVersions(r))
           ELSE {i \in Results(r) : result[i][1] \in Between}, "delete")

DeleteChosen(r, step, next) ==
    /\ At(r, step)
    /\ Lock(r, Keys("result", RemainingResults(r)))
    /\ Go(r, next)
    /\ UNCHANGED <<tables, memory>>
DeleteResults(r) == DeleteChosen(r, "delete", "cascade")

\* The latest rows that name a deleted result go with it.
Cascade_Nothing(r, step, next) == At(r, step) /\ Go(r, next) /\ UNCHANGED <<tables, memory, holds>>
Cascade(r, step, next) ==
    /\ At(r, step)
    /\ Lock(r, Keys("latest", LatestRows(r)))
    /\ Go(r, next)
    /\ UNCHANGED <<tables, memory>>
CascadeToLatest(r) ==
    Cascade(r, "cascade", CASE job[r].op = "delete_result" -> "commit"
                            [] job[r].op = "delete_version" -> "again"
                            [] OTHER -> "contents")

\* The pact versions of the integration, to which nothing may refer any more.
DeleteContents(r) ==
    /\ At(r, "contents")
    /\ IF \E i \in Results(r) : result[i][1] \in Between THEN End(r, "error")
       ELSE /\ Lock(r, Keys("gone", Between))
            /\ Go(r, "orphans")
            /\ UNCHANGED <<tables, memory>>

\* delete_orphan_versions reads which versions have results ...
FindVersionsWithResults_Between(r) ==
    /\ At(r, "orphans")
    /\ kept' = [kept EXCEPT ![r] =
                  {VersionRow(result[i][2]) : i \in {i \in Results(r) : result[i][1] \in Between}}]
    /\ Go(r, "again")
    /\ UNCHANGED <<tables, job, row, chosen, holds>>
FindVersionsWithResults(r) ==
    /\ At(r, "orphans")
    /\ kept' = [kept EXCEPT ![r] = {VersionRow(result[i][2]) : i \in Results(r)}]
    /\ Go(r, "again")
    /\ UNCHANGED <<tables, job, row, chosen, holds>>

\* ... and deletes the others, with whatever refers to them by then.  Deleting a
\* version deletes its results once more in the same way.
ChooseResultsAgain(r) ==
    Choose(r, "again", ResultsOf(r, DoomedVersions(r)), "delete_again")
DeleteResultsAgain(r) == DeleteChosen(r, "delete_again", "cascade_again")
CascadeAgain(r) == Cascade(r, "cascade_again", "parents")

ChooseVersions(r) ==
    Choose(r, "parents", {VersionRow(v) : v \in DoomedVersions(r)}, "remove")
DeleteVersions(r) ==
    /\ At(r, "remove")
    /\ IF ResultsOf(r, RemainingVersions(r)) # {} THEN End(r, "error")
       ELSE /\ Lock(r, Keys("gone", RemainingVersions(r)))
            /\ Go(r, "commit")
            /\ UNCHANGED <<tables, memory>>

(* The end of the transaction. *)

Commit(r) ==
    LET verifies == job[r].op = "verify"
    IN /\ At(r, "commit")
       /\ contents' = {c \in contents : ~Wrote(r, "gone", c)}
       /\ version' = [v \in Versions |->
            IF Wrote(r, "gone", v) THEN NoRow
            ELSE IF Wrote(r, "version", v) THEN row[r] ELSE version[v]]
       /\ result' = [i \in Requests |->
            IF ~Wrote(r, "result", i) THEN result[i]
            ELSE IF i = r THEN job[r].pair ELSE NoRow]
       /\ latest' = [p \in Pairs |->
            IF ~Wrote(r, "latest", p) THEN latest[p] ELSE IF verifies THEN r ELSE NoRow]
       /\ last' = IF verifies THEN [last EXCEPT ![job[r].pair] = r] ELSE last
       /\ Go(r, "done")
       /\ holds' = [holds EXCEPT ![r] = {}]
       /\ overtaken' = [p \in Requests |->
            IF Open(p) /\ p # r /\ Meets(p, r) THEN overtaken[p] \cup {r} ELSE overtaken[p]]
       /\ UNCHANGED memory

\* The database fails one of the transactions that wait for each other.
DeadlockVictim(r) ==
    Waits(r) # {} /\ OnCycle(r) /\ End(r, "error") /\ UNCHANGED overtaken

Begin(r) ==
    /\ \/ BeginVerify(r) \/ BeginDeleteResult(r)
       \/ BeginDeleteVersion(r) \/ BeginDeleteIntegration(r)
    /\ UNCHANGED overtaken

Proceed(r) ==
    /\ \/ FindPact(r) \/ FindVersion(r) \/ UpsertVersion(r) \/ SaveResult(r) \/ UpdateLatest(r)
       \/ ChooseResults(r) \/ DeleteResults(r) \/ CascadeToLatest(r)
       \/ DeleteContents(r) \/ FindVersionsWithResults(r)
       \/ ChooseResultsAgain(r) \/ DeleteResultsAgain(r) \/ CascadeAgain(r)
       \/ ChooseVersions(r) \/ DeleteVersions(r)
    /\ UNCHANGED overtaken

Step(r) == Proceed(r) \/ Commit(r) \/ DeadlockVictim(r)

Next == \E r \in Requests : Begin(r) \/ Step(r)

Spec == Init /\ [][Next]_vars

\* Puma runs every request it has accepted, and the database detects deadlocks.
FairSpec == Spec /\ \A r \in Requests : WF_vars(Step(r))

-----------------------------------------------------------------------------
(* Properties.                                                             *)

\* The type invariant: rows refer to rows of the right kind, and a transaction
\* that has ended holds nothing.
TypeOK ==
    /\ contents \subseteq Contents
    /\ version \in [Versions -> Ids \cup {NoRow}]
    /\ result \in [Requests -> Pairs \cup {NoRow}]
    /\ latest \in [Pairs -> Requests \cup {NoRow}]
    /\ last \in [Pairs -> Requests \cup {NoRow}]
    /\ pc \in [Requests -> Steps \cup Outcomes \cup {"idle"}]
    /\ job \in [Requests -> [op : Operations, pair : Pairs]]
    /\ row \in [Requests -> Ids \cup {NoRow}]
    /\ \A r \in Requests : pc[r] \in Outcomes \cup {"idle"} => holds[r] = {}

\* The latest row of a pact and a provider version, from which the matrix and
\* can-i-deploy read, names a saved result of that pact and that version, both of
\* which exist: only the cascade ties the row to the result it names, and deletes
\* of results, versions and integrations overlap with the arrival of new results.
LatestNamesResult ==
    \A p \in Pairs :
        latest[p] # NoRow =>
            result[latest[p]] = p /\ p[1] \in contents /\ version[p[2]] # NoRow

\* If there is a latest row, the result it names is the one that was committed
\* last: of two results that arrive together neither hides a later one.
LatestIsLast == \A p \in Pairs : latest[p] # NoRow => latest[p] = last[p]

\* Both at once: a latest row tells the truth about its pact and its version.
LatestIsTrue == LatestNamesResult /\ LatestIsLast

\* Every request gets an answer: sooner or later none is in progress, although
\* results lock versions and then latest rows, and deletes of versions the other
\* way around.
RequestsEnd == <>[](\A r \in Requests : pc[r] = "idle" \/ Ended(r))

\* A refinement: statement by statement the requests do what ResultService does in one
\* step each.  A result that is accepted is saved with its pact and its version and is
\* the latest; a delete takes what it is about, all of it and, unless a result of
\* another integration came while it went on, nothing else, or nothing if it was
\* overtaken; and a request fails only if one that it meets was done or is open.
AnswerOf(r) == IF Open(r) THEN "open" ELSE pc[r]
Service == INSTANCE ResultService WITH
    answer <- [r \in Requests |-> AnswerOf(r)],
    versions <- {v \in Versions : version[v] # NoRow}
ImplementsService == Service!Spec

\* A pact and a provider version that have a result have a latest result.
\* Deleting the latest result takes the row with it and does not reinstate the
\* result before.
ResultsHaveLatest ==
    \A i \in Requests : result[i] # NoRow => latest[result[i]] # NoRow
=============================================================================
