------------------------------ MODULE VersionOrder ------------------------------
(***************************************************************************)
(* The order of the versions of one pacticipant, and its copies in tags.   *)
(*                                                                         *)
(* Requests create, tag and delete versions; each is one transaction, as   *)
(* in VerificationResults.  A new version gets its place in the order from *)
(* a sequence, or, when versions are ordered by their numbers, below the   *)
(* existing versions it is not after, which move up one at a time.  No two  *)
(* versions of a pacticipant may have the same place: an index of the      *)
(* table, uq_ver_ppt_ord, fails the request that would set one again.      *)
(* A row of versions is identified by its number and by its creator.       *)
(***************************************************************************)
EXTENDS Integers

CONSTANTS
    Requests,
    Versions,    \* version numbers; they compare as integers do
    Tags,        \* tag names
    Workload,    \* the requests that clients may make
    Settings,    \* the values that order_versions_by_date may have
    NoRow        \* stands for "no such row"

Taggings == Versions \X Tags
Operations == {"put", "tag", "delete"}

ASSUME VersionOrderAssumption ==
    /\ Versions \subseteq Nat /\ Settings \subseteq BOOLEAN
    /\ NoRow \notin Requests /\ NoRow \notin Nat
    /\ Workload \subseteq [op : Operations, version : Versions, tag : Tags]

VARIABLES
    version,     \* version[v]: the creator of the row of v
    order,       \* order[v]: its place
    tagOrder,    \* tagOrder[x]: the copy of it in the row of the tagging x
    byDate,      \* order_versions_by_date, read when the program starts
    sequence,    \* the last value taken from version_order_sequence
    pc, job,     \* the requests: where each is, and what it was asked
    row,         \* row[r]: the creator of the version row that r has loaded
    copy,        \* copy[r]: the order that row had
    chosen,      \* chosen[r]: the rows that a statement in progress has chosen
    seen,        \* seen[r]: the orders by which it has sorted them
    passed,      \* passed[r]: the versions that it has still to move up
    place,       \* place[r]: the place that it has found for its new version
    writes,      \* writes[r]: the orders that the open transaction of r has set
    holds,       \* holds[r]: what it has locked
    before       \* history: the requests that had ended when r began

tables == <<version, order, tagOrder>>
found == <<chosen, seen, passed, place>>
memory == <<byDate, job, row, copy, found, before>>
vars == <<tables, sequence, pc, memory, writes, holds>>

Outcomes == {"done", "missing", "error"}

Version(r) == job[r].version
Tagging(r) == <<Version(r), job[r].tag>>
VersionRow(v) == <<v, version[v]>>
Exists(v) == version[v] # NoRow

-----------------------------------------------------------------------------
(* Locks.                                                                  *)

Key(kind, x) == <<kind, x>>
Keys(kind, X) == {Key(kind, x) : x \in X}
Wrote(r, kind, x) == Key(kind, x) \in holds[r]

\* The rows a statement has chosen that are still there.
ChosenVersions(r) == {v \in Versions : Exists(v) /\ VersionRow(v) \in chosen[r]}
ChosenTaggings(r) == {x \in Taggings : tagOrder[x] # NoRow /\ x \in chosen[r]}

\* The next UPDATE of an order by r, as a version and a place: it moves up the
\* versions that it has passed, the last one first, and then places its own.
Updates(r) ==
    IF passed[r] = {} THEN {<<Version(r), place[r]>>}
    ELSE {<<v, order[v] + 1>> : v \in {w \in passed[r] : \A u \in passed[r] : seen[r][u] <= seen[r][w]}}

\* What the next statement of r has to wait for.  Locking for update also waits
\* for those who refer to the row; setting a place, for those who have set it or have
\* moved, rewritten or deleted the row that had it.
Needs(r) ==
    CASE pc[r] = "upsert" -> {Key(kind, Version(r)) : kind \in {"version", "update", "gone"}}
      [] pc[r] = "sort" -> {Key(kind, v) : kind \in {"version", "refer", "update", "gone"},
                                           v \in ChosenVersions(r)}
      [] pc[r] = "place" -> {Key(kind, u[2]) : kind \in {"place", "left"}, u \in Updates(r)}
      [] pc[r] = "tag" -> {Key("tag", Tagging(r))}
                            \cup {Key(kind, Version(r)) : kind \in {"update", "gone"}}
      [] pc[r] \in {"untag", "untag_again"} -> Keys("tag", ChosenTaggings(r))
      [] pc[r] = "remove" -> {Key(kind, v) : kind \in {"version", "refer", "update", "gone"},
                                             v \in ChosenVersions(r)}
      [] OTHER -> {}

Waits(r) == {p \in Requests \ {r} : Needs(r) \cap holds[p] # {}}
OnCycle(r) ==
    \A S \in SUBSET Requests :
        (\A q \in S \cup {r} : Waits(q) \subseteq S) => r \in S

At(r, step) == pc[r] = step /\ Waits(r) = {}
Go(r, step) == pc' = [pc EXCEPT ![r] = step]
Lock(r, keys) == holds' = [holds EXCEPT ![r] = @ \cup keys]

-----------------------------------------------------------------------------
NoOrders == [v \in Versions |-> NoRow]

Init ==
    /\ version = [v \in Versions |-> NoRow]
    /\ order = NoOrders
    /\ tagOrder = [x \in Taggings |-> NoRow]
    /\ byDate \in Settings
    /\ sequence = 0
    /\ pc = [r \in Requests |-> "idle"]
    /\ job \in [Requests -> Workload]
    /\ row = [r \in Requests |-> NoRow]
    /\ copy = [r \in Requests |-> NoRow]
    /\ chosen = [r \in Requests |-> {}]
    /\ seen = [r \in Requests |-> NoOrders]
    /\ passed = [r \in Requests |-> {}]
    /\ place = [r \in Requests |-> NoRow]
    /\ writes = [r \in Requests |-> NoOrders]
    /\ holds = [r \in Requests |-> {}]
    /\ before = [r \in Requests |-> {}]

\* The transaction of r is rolled back, or ends without having changed anything.
End_KeepsLocks(r, outcome) ==
    Go(r, outcome) /\ UNCHANGED <<tables, sequence, memory, writes, holds>>
End(r, outcome) ==
    /\ Go(r, outcome)
    /\ holds' = [holds EXCEPT ![r] = {}]
    /\ UNCHANGED <<tables, sequence, memory, writes>>

\* A PUT of a version upserts it; a PUT of a tag that is there already changes
\* nothing; a DELETE needs the version.
Begin(r) ==
    LET op == job[r].op
        step == CASE op = "put" -> "upsert"
                  [] op = "tag" /\ tagOrder[Tagging(r)] # NoRow -> "done"
                  [] op = "tag" -> "find"
                  [] op = "delete" /\ Exists(Version(r)) -> "tags"
                  [] OTHER -> "missing"
    IN /\ pc[r] = "idle"
       /\ Go(r, step)
       /\ row' = [row EXCEPT ![r] = version[Version(r)]]
       /\ before' = [before EXCEPT ![r] = {p \in Requests : pc[p] \in Outcomes}]
       /\ UNCHANGED <<tables, sequence, byDate, job, copy, found, writes, holds>>

(* Finding or creating a version. *)

FindVersion(r) ==
    /\ At(r, "find")
    /\ row' = [row EXCEPT ![r] = version[Version(r)]]
    /\ copy' = [copy EXCEPT ![r] = order[Version(r)]]
    /\ Go(r, IF Exists(Version(r)) THEN "tag" ELSE "upsert")
    /\ UNCHANGED <<tables, sequence, byDate, job, found, before, writes, holds>>

AfterVersion(r) == IF job[r].op = "tag" THEN "tag" ELSE "commit"

\* Who wants the place of v in the index waits for those who write the row of v.
LeftPlace(v) == Keys("left", {order[v]} \ {NoRow})

\* The upsert leaves the order of an existing version alone; a new one is ordered.
UpsertVersion_OrdersAgain(r) ==
    LET v == Version(r)
    IN /\ At(r, "upsert")
       /\ Lock(r, {Key("version", v)} \cup LeftPlace(v))
       /\ row' = [row EXCEPT ![r] = IF Exists(v) THEN version[v] ELSE r]
       /\ copy' = [copy EXCEPT ![r] = order[v]]
       /\ Go(r, "order")
       /\ UNCHANGED <<tables, sequence, byDate, job, found, before, writes>>
UpsertVersion(r) ==
    LET v == Version(r)
    IN /\ At(r, "upsert")
       /\ Lock(r, {Key("version", v)} \cup LeftPlace(v))
       /\ row' = [row EXCEPT ![r] = IF Exists(v) THEN version[v] ELSE r]
       /\ copy' = [copy EXCEPT ![r] = order[v]]
       /\ Go(r, IF Exists(v) THEN AfterVersion(r) ELSE "order")
       /\ UNCHANGED <<tables, sequence, byDate, job, found, before, writes>>

\* A value taken from a sequence is not given back by a rollback.
SequentialOrder(r) ==
    /\ At(r, "order") /\ byDate
    /\ sequence' = sequence + 1
    /\ place' = [place EXCEPT ![r] = sequence']
    /\ Go(r, "place")
    /\ UNCHANGED <<tables, byDate, job, row, copy, chosen, seen, passed, before, writes, holds>>

\* SELECT FOR UPDATE finds and sorts the versions committed when it begins ...
SelectForUpdate(r) ==
    /\ At(r, "order") /\ ~byDate
    /\ chosen' = [chosen EXCEPT ![r] = {VersionRow(v) : v \in {w \in Versions : Exists(w)}}]
    /\ seen' = [seen EXCEPT ![r] = order]
    /\ Go(r, "sort")
    /\ UNCHANGED <<tables, sequence, byDate, job, row, copy, passed, place, before, writes, holds>>

\* ... waits for those that others have locked, and locks what is left of them.
\* Going through these rows, the last one first, set_semantic_order passes those
\* that the new version is not after: it comes next to the first one it is after.
SemanticOrder(r) ==
    LET vs == ChosenVersions(r)
        below == {v \in vs : Version(r) > v}
        Above(v) == {w \in vs : seen[r][w] > seen[r][v]}
    IN /\ At(r, "sort")
       /\ Lock(r, Keys("update", vs))
       /\ \/ /\ below = {}
             /\ passed' = [passed EXCEPT ![r] = vs]
             /\ place' = [place EXCEPT ![r] = 0]
          \/ \E v \in below :
               /\ Above(v) \cap below = {}
               /\ passed' = [passed EXCEPT ![r] = Above(v)]
               /\ place' = [place EXCEPT ![r] = order[v] + 1]
       /\ Go(r, "place")
       /\ UNCHANGED <<tables, sequence, byDate, job, row, copy, chosen, seen, before, writes>>

\* One UPDATE of an order.  The index lets it set a place only if no other version
\* has it, the ones that the transaction has moved away aside.
Taken(r, n) == \E v \in Versions : Exists(v) /\ order[v] = n /\ writes[r][v] = NoRow
SetPlace(r, v, n) ==
    /\ writes' = [writes EXCEPT ![r][v] = n]
    /\ Lock(r, {Key("place", n)} \cup LeftPlace(v))
    /\ passed' = [passed EXCEPT ![r] = @ \ {v}]
    /\ copy' = [copy EXCEPT ![r] = IF passed[r] = {} THEN n ELSE @]
    /\ Go(r, IF passed[r] = {} THEN AfterVersion(r) ELSE "place")
    /\ UNCHANGED <<tables, sequence, byDate, job, row, chosen, seen, place, before>>
SetOrder_NoIndex(r) ==
    At(r, "place") /\ \E u \in Updates(r) : SetPlace(r, u[1], u[2])
SetOrder(r) ==
    /\ At(r, "place")
    /\ \E u \in Updates(r) :
         \/ ~Taken(r, u[2]) /\ SetPlace(r, u[1], u[2])
         \/ Taken(r, u[2]) /\ End(r, "error")

(* Tagging: the row refers to the version, and an existing row is left alone. *)

InsertTag_AnyRow(r) ==
    LET x == Tagging(r)
    IN /\ At(r, "tag")
       /\ Lock(r, IF tagOrder[x] = NoRow
                  THEN {Key("tag", x), Key("refer", Version(r))} ELSE {})
       /\ Go(r, "commit")
       /\ UNCHANGED <<tables, sequence, memory, writes>>
InsertTag(r) ==
    LET x == Tagging(r)
    IN /\ At(r, "tag")
       /\ \/ /\ tagOrder[x] # NoRow /\ row[r] = version[Version(r)]
             /\ Go(r, "commit")
             /\ UNCHANGED <<tables, sequence, memory, writes, holds>>
          \/ /\ tagOrder[x] = NoRow /\ row[r] \in {r, version[Version(r)]}
             /\ Lock(r, {Key("tag", x), Key("refer", Version(r))})
             /\ Go(r, "commit")
             /\ UNCHANGED <<tables, sequence, memory, writes>>
          \/ /\ row[r] \notin {r, version[Version(r)]}
             /\ End(r, "error")

(* Deleting a version: its tags, its tags once more, and the version. *)

\* The taggings of the row that was found; a version created again has its own.
TaggingsOf(r) ==
    {x \in Taggings : x[1] = Version(r) /\ tagOrder[x] # NoRow /\ row[r] = version[x[1]]
                        /\ ~Wrote(r, "tag", x)}
Choose(r, step, rows, next) ==
    /\ At(r, step)
    /\ chosen' = [chosen EXCEPT ![r] = rows]
    /\ Go(r, next)
    /\ UNCHANGED <<tables, sequence, byDate, job, row, copy, seen, passed, place, before, writes,
                   holds>>
DeleteChosenTags(r, step, next) ==
    /\ At(r, step)
    /\ Lock(r, Keys("tag", ChosenTaggings(r)))
    /\ Go(r, next)
    /\ UNCHANGED <<tables, sequence, memory, writes>>
DeleteTags(r) ==
    \/ Choose(r, "tags", TaggingsOf(r), "untag")
    \/ DeleteChosenTags(r, "untag", "tags_again")
DeleteTagsAgain(r) ==
    \/ Choose(r, "tags_again", TaggingsOf(r), "untag_again")
    \/ DeleteChosenTags(r, "untag_again", "version")
ChooseVersion(r) == Choose(r, "version", {<<Version(r), row[r]>>}, "remove")

\* A tag added since still refers to the version.
DeleteVersion(r) ==
    /\ At(r, "remove")
    /\ IF TaggingsOf(r) # {} THEN End(r, "error")
       ELSE /\ Lock(r, Keys("gone", ChosenVersions(r))
                        \cup UNION {LeftPlace(v) : v \in ChosenVersions(r)})
            /\ Go(r, "commit")
            /\ UNCHANGED <<tables, sequence, memory, writes>>

(* The end of the transaction. *)

Commit(r) ==
    LET new == row[r] = r
        gone == {v \in Versions : Wrote(r, "gone", v)}
    IN /\ At(r, "commit")
       /\ version' = [v \in Versions |-> IF v \in gone THEN NoRow
                                         ELSE IF new /\ v = Version(r) THEN r ELSE version[v]]
       /\ order' = [v \in Versions |-> IF v \in gone THEN NoRow
                                       ELSE IF writes[r][v] # NoRow THEN writes[r][v] ELSE order[v]]
       /\ tagOrder' = [x \in Taggings |-> IF ~Wrote(r, "tag", x) THEN tagOrder[x]
                                          ELSE IF job[r].op = "tag" THEN copy[r] ELSE NoRow]
       /\ Go(r, "done")
       /\ holds' = [holds EXCEPT ![r] = {}]
       /\ UNCHANGED <<sequence, memory, writes>>

\* The database fails one of the transactions that wait for each other.
DeadlockVictim(r) == Waits(r) # {} /\ OnCycle(r) /\ End(r, "error")

Next ==
    \E r \in Requests :
        \/ Begin(r) \/ FindVersion(r) \/ UpsertVersion(r)
        \/ SequentialOrder(r) \/ SelectForUpdate(r) \/ SemanticOrder(r) \/ SetOrder(r)
        \/ InsertTag(r)
        \/ DeleteTags(r) \/ DeleteTagsAgain(r) \/ ChooseVersion(r) \/ DeleteVersion(r)
        \/ Commit(r) \/ DeadlockVictim(r)

Spec == Init /\ [][Next]_vars

-----------------------------------------------------------------------------
(* Properties.                                                             *)

OrdersAndNone == Nat \cup {NoRow}

\* The type invariant: a version has an order if and only if it exists, and a
\* transaction that has ended holds nothing.
TypeOK ==
    /\ version \in [Versions -> Requests \cup {NoRow}]
    /\ \A v \in Versions : order[v] \in OrdersAndNone /\ (order[v] = NoRow <=> ~Exists(v))
    /\ \A x \in Taggings : tagOrder[x] \in OrdersAndNone
    /\ sequence \in Nat
    /\ \A r \in Requests : pc[r] \in Outcomes \cup {"idle"} => holds[r] = {}

\* A version that has a tag exists, and when versions are ordered by date the order
\* that the tag copied is its own: the copy is made from a version loaded earlier in
\* the request, which others may have deleted or created again since.
CopiesAgree ==
    \A x \in Taggings :
        tagOrder[x] # NoRow =>
            Exists(x[1]) /\ (byDate => tagOrder[x] = order[x[1]])

\* Ordered by date, no two versions have the same place, and a version comes after
\* all those whose requests had ended when the request that created it began: a
\* request that finds the version there already never moves it.
OrderedByCreation ==
    \A v, w \in Versions :
        (byDate /\ Exists(v) /\ Exists(w) /\ v # w) =>
            /\ order[v] # order[w]
            /\ version[w] \in before[version[v]] => order[w] < order[v]

\* Ordered by number, the places agree with the numbers as long as no version was
\* deleted while another was created.  Creations may overlap: none sees the version
\* of the other, and the index must fail the one whose place would be wrong.  What
\* is deleted meanwhile leaves a gap that hides this from the index.
Ended(r, op) == job[r].op = op /\ pc[r] = "done"
Creators == {r \in Requests : row[r] = r /\ pc[r] = "done"}
DeletedMeanwhile ==
    \E d \in Requests, r \in Creators :
        Ended(d, "delete") /\ d \notin before[r] /\ r \notin before[d]
OrderedByNumber ==
    (~byDate /\ ~DeletedMeanwhile) =>
        \A v, w \in Versions : (Exists(v) /\ Exists(w) /\ v < w) => order[v] < order[w]
=============================================================================
