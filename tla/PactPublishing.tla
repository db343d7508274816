---------------------------- MODULE PactPublishing ----------------------------
(***************************************************************************)
(* How pacts are published, merged, overwritten and deleted, for one       *)
(* consumer and one provider.                                              *)
(*                                                                         *)
(* Every request runs in one database transaction, and its SQL statements  *)
(* interleave with those of other requests.  A statement sees what other   *)
(* transactions have committed.  A row that an open transaction inserted,  *)
(* changed or deleted makes the next writer of the same key wait until     *)
(* that transaction has ended; then it finds what is there and overwrites  *)
(* it (an upsert) or leaves it (an insert that ignores duplicates).        *)
(* A publication row is identified here by the request that inserted it:   *)
(* a request inserts at most one and identities are not reused.            *)
(***************************************************************************)
EXTENDS Naturals, FiniteSets, Sequences

CONSTANTS
    Requests,       \* POST /contracts/publish, PUT, PATCH and DELETE pact
    Versions,       \* consumer versions, as a set of their orders
    Tags,           \* tags a publication may carry, one after the other
    Descriptions,   \* what tells the interactions of a pact apart
    Variants,       \* what an interaction asks for under its description
    Workload,       \* the requests that clients may make
    AllowModification, \* allow_dangerous_contract_modification
    Subscribed,     \* whether a webhook may be subscribed to the event of a request
    NoRow           \* stands for "no such row"

Contents == UNION {[D -> Variants] : D \in SUBSET Descriptions}
Row == [version : Versions, revision : Nat, content : Contents]

ASSUME PublishingAssumption ==
    /\ Versions \subseteq Nat
    /\ Workload \subseteq [op : {"publish", "merge", "put", "patch", "delete"},
                           version : Versions, tags : Seq(Tags), body : Contents]
    /\ AllowModification \in BOOLEAN /\ Subscribed \subseteq BOOLEAN
    /\ IsFiniteSet(Requests)
    /\ NoRow \notin Requests /\ NoRow \notin Contents /\ NoRow \notin Row

VARIABLES
    versions,   \* committed versions rows
    tagged,     \* committed tags rows, as <<version, tag>>
    pub,        \* pub[i]: the committed pact_publications row i, or NoRow
    latest,     \* latest[v]: the publication the latest-ids table names for v
    hooked,     \* committed triggered_webhooks, as <<publication, request that inserted them>>
    req,        \* req[r]: the request, its progress and what it has read
    holds,      \* holds[r]: what the open transaction of r has written or locked
    announced,  \* history: contents announced by a contract_content_changed event
    written,    \* history: written[v] is the content of the last committed write
    known,      \* history: known[r]: the revisions that r found, up to the newest
    raced       \* history: requests that were open when another one for their version ended

vars == <<versions, tagged, pub, latest, hooked, req, holds, announced, written, known, raced>>
history == <<announced, written, known, raced>>
tables == <<versions, tagged, pub, latest, hooked>>

Outcomes == {"done", "conflict", "missing", "error"}
Steps == {"arrived", "version", "tag", "find", "existing", "model", "insert", "latest",
          "announce", "unhook", "choose", "remove", "cascade", "commit"}
Idle == [pc |-> "idle"]

\* What a transaction can hold: a unique key, a changed or deleted row, or the
\* share lock that a row referring to publication i takes on it.
Key(kind, x) == <<kind, x>>
Rows(v) == {i \in Requests : pub[i] # NoRow /\ pub[i].version = v}
Ended(r) == req[r].pc \in Outcomes
IsOpen(r) == req[r] # Idle /\ ~Ended(r)

-----------------------------------------------------------------------------
(* Operators on contents and publications.                                 *)

\* A new interaction replaces the one with its description, or is appended.
MergePacts(original, additional) ==
    [d \in DOMAIN original \cup DOMAIN additional |->
        IF d \in DOMAIN additional THEN additional[d] ELSE original[d]]

Conflict(original, additional) ==
    \E d \in DOMAIN original \cap DOMAIN additional : original[d] # additional[d]

\* The tags the transaction of r sees on version v.
TagsSeenBy(r, v) ==
    {t \in Tags : <<v, t>> \in tagged \/ Key("tag", <<v, t>>) \in holds[r]}

\* The committed pact of the newest version before v among the versions vs.
PreviousContent(v, vs) ==
    LET before == {u \in vs : u < v /\ latest[u] # NoRow}
    IN IF before = {} THEN NoRow
       ELSE pub[latest[CHOOSE u \in before : \A w \in before : w <= u]].content

\* Content changed for one of the version's tags, or for the untagged versions.
ContentChanged_NotFirst(r, v, content) ==
    PreviousContent(v, Versions) \notin {NoRow, content}
ContentChanged(r, v, content) ==
    LET names == TagsSeenBy(r, v)
        with(t) == {u \in Versions : <<u, t>> \in tagged}
        untagged == {u \in Versions : \A t \in Tags : <<u, t>> \notin tagged}
    IN IF names = {} THEN PreviousContent(v, untagged) # content
       ELSE \E t \in names : PreviousContent(v, with(t)) # content

-----------------------------------------------------------------------------
(* Waiting.                                                                *)

\* The <<version, tag>> that a request inserts next.
Tagging(q) == <<q.version, q.tags[q.inserted + 1]>>

\* The row with this version and revision that an upsert finds.
Upserted(v, n) ==
    LET same == {i \in Rows(v) : pub[i].revision = n}
    IN IF same = {} THEN NoRow ELSE CHOOSE i \in same : TRUE

\* What a delete has chosen and nobody has deleted meanwhile; the triggered
\* webhooks that it deletes first.
Removable(r) == {i \in req[r].targets : pub[i] # NoRow}
Hooks(r) == {h \in hooked : h[1] \in Rows(req[r].version)}

\* What the next statement of r writes or refers to.
Needs(r) ==
    LET q == req[r]
        id == Upserted(q.version, q.revision)
    IN CASE q.pc = "version" ->
              IF q.version \in versions THEN {} ELSE {Key("version", q.version)}
         [] q.pc = "tag" -> {Key("tag", Tagging(q))}
         [] q.pc = "insert" ->
              {Key("revision", <<q.version, q.revision>>)}
                \cup (IF id = NoRow THEN {} ELSE {Key("delete", id)})
         [] q.pc = "latest" -> {Key("latest", q.version)}
         [] q.pc = "announce" -> {Key("delete", q.row)}
         [] q.pc = "unhook" -> {Key("unhook", h) : h \in Hooks(r)}
         [] q.pc = "remove" ->
              {Key(kind, i) : kind \in {"update", "delete", "share"}, i \in Removable(r)}
         [] q.pc = "cascade" ->
              IF latest[q.version] \in Removable(r) THEN {Key("latest", q.version)} ELSE {}
         [] OTHER -> {}

Waits(r) == {q \in Requests \ {r} : Needs(r) \cap holds[q] # {}}

\* r waits, directly or through others, for itself.
OnCycle(r) ==
    \A S \in SUBSET Requests :
        (\A q \in S \cup {r} : Waits(q) \subseteq S) => r \in S

-----------------------------------------------------------------------------
\* A version may exist before its first pact: PUT version or PUT tag created it.
Init ==
    /\ versions \in SUBSET Versions
    /\ tagged = {} /\ hooked = {} /\ announced = {} /\ raced = {}
    /\ pub = [i \in Requests |-> NoRow]
    /\ latest = [v \in Versions |-> NoRow]
    /\ written = [v \in Versions |-> NoRow]
    /\ req = [r \in Requests |-> Idle]
    /\ holds = [r \in Requests |-> {}]
    /\ known = [r \in Requests |-> {}]

\* The next step of r, and the locks it has from then on.
Go(r, pc) == req' = [req EXCEPT ![r].pc = pc]
Lock(r, keys) == holds' = [holds EXCEPT ![r] = @ \cup keys]

\* A response of 4xx commits nothing of interest and one of 500 rolls back.
Fail_KeepsLocks(r, outcome) == Go(r, outcome) /\ UNCHANGED <<holds, tables, history>>
Fail(r, outcome) ==
    /\ Go(r, outcome)
    /\ holds' = [holds EXCEPT ![r] = {}]
    /\ UNCHANGED <<tables, history>>

\* A request arrives and its transaction begins.
Begin(r) ==
    /\ req[r] = Idle
    /\ \E w \in Workload :
        req' = [req EXCEPT ![r] =
            [pc |-> IF w.op \in {"publish", "merge"} THEN "version" ELSE "arrived",
             op |-> w.op, version |-> w.version, tags |-> w.tags, body |-> w.body, inserted |-> 0,
             found |-> NoRow, existing |-> NoRow, base |-> NoRow, row |-> NoRow,
             content |-> w.body, revision |-> 1, changed |-> FALSE, targets |-> {}]]
    /\ UNCHANGED <<tables, holds, history>>

\* PUT, PATCH and DELETE look the pact up before anything else, and keep it.
Refused_PutOnly(q, id) ==
    id # NoRow /\ q.op = "put" /\ ~AllowModification /\ pub[id].content # q.body
Refused(q, id) ==
    /\ id # NoRow
    /\ \/ q.op = "patch" /\ Conflict(pub[id].content, q.body)
       \/ q.op = "put" /\ ~AllowModification /\ pub[id].content # q.body

CheckResource(r) ==
    LET q == req[r]
        id == latest[q.version]
    IN /\ q.pc = "arrived"
       /\ \/ /\ q.op = "delete" /\ id = NoRow
             /\ Fail(r, "missing")
          \/ /\ q.op = "delete" /\ id # NoRow
             /\ Go(r, "unhook")
             /\ UNCHANGED <<tables, holds, history>>
          \/ /\ q.op # "delete" /\ Refused(q, id)
             /\ Fail(r, "conflict")
          \/ /\ q.op # "delete" /\ ~Refused(q, id)
             /\ req' = [req EXCEPT ![r] = [@ EXCEPT !.pc = "version", !.found = id]]
             /\ UNCHANGED <<tables, holds, history>>

\* The version is found or upserted ...
CreateVersion(r) ==
    LET q == req[r]
    IN /\ q.pc = "version" /\ Waits(r) = {}
       /\ Lock(r, Needs(r))
       /\ Go(r, IF q.op \notin {"publish", "merge"} THEN "existing"
                ELSE IF q.tags = <<>> THEN "find" ELSE "tag")
       /\ UNCHANGED <<tables, history>>

\* ... and POST /contracts/publish then inserts its tags, each with a statement of
\* its own, in the order of the body; an insert of a tag that is there is ignored.
InsertTag(r) ==
    LET q == req[r]
    IN /\ q.pc = "tag" /\ Waits(r) = {}
       /\ Lock(r, IF Tagging(q) \in tagged THEN {} ELSE Needs(r))
       /\ req' = [req EXCEPT ![r] = [@ EXCEPT
            !.inserted = q.inserted + 1,
            !.pc = IF q.inserted + 1 = Len(q.tags) THEN "find" ELSE "tag"]]
       /\ UNCHANGED <<tables, history>>

\* POST /contracts/publish looks the pact up to decide whether to merge.
FindPact(r) ==
    /\ req[r].pc = "find"
    /\ req' = [req EXCEPT ![r] = [@ EXCEPT !.pc = "existing",
                                           !.found = latest[req[r].version]]]
    /\ UNCHANGED <<tables, holds, history>>

Merges(q) == q.op \in {"merge", "patch"} /\ q.found # NoRow

\* create_or_update_pact and merge_pact read the pact they will replace.
\* A merge whose pact has been deleted since the first look raises.
Newest(v, id) == \A i \in Rows(v) : pub[i].revision <= pub[id].revision
ReadExisting(r) ==
    LET q == req[r]
        id == latest[q.version]
    IN /\ q.pc = "existing"
       /\ \/ /\ Merges(q) /\ id = NoRow
             /\ Fail(r, "error")
          \/ /\ ~Merges(q) /\ id = NoRow
             /\ Go(r, "insert")
             /\ UNCHANGED <<tables, holds, history>>
          \/ /\ id # NoRow
             /\ req' = [req EXCEPT ![r] = [@ EXCEPT
                    !.pc = "model", !.existing = id, !.base = pub[id].content,
                    !.content = IF Merges(q) THEN MergePacts(pub[id].content, q.body)
                                             ELSE q.body]]
             /\ known' = [known EXCEPT ![r] = IF Newest(q.version, id) THEN Rows(q.version) ELSE {}]
             /\ UNCHANGED <<tables, holds, announced, written, raced>>

\* Repository#update reads the row again, by its id: the row may be gone, or
\* have been overwritten.  Only a different content becomes a new revision.
NextRevision_Same(row) == row.revision
NextRevision(row) == row.revision + 1
FindModel(r) ==
    LET q == req[r]
        row == pub[q.existing]
    IN /\ q.pc = "model"
       /\ \/ /\ row = NoRow
             /\ Fail(r, "error")
          \/ /\ row # NoRow /\ row.content = q.content
             /\ req' = [req EXCEPT ![r] = [@ EXCEPT !.pc = "announce", !.row = q.existing]]
             /\ UNCHANGED <<tables, holds, history>>
          \/ /\ row # NoRow /\ row.content # q.content
             /\ req' = [req EXCEPT ![r] = [@ EXCEPT !.pc = "insert",
                                                    !.revision = NextRevision(row)]]
             /\ UNCHANGED <<tables, holds, history>>

\* The upsert of <<version, revision>>: the row that has this key by then is
\* overwritten, whoever wrote it.
WritePublication(r) ==
    LET q == req[r]
        key == Key("revision", <<q.version, q.revision>>)
        id == Upserted(q.version, q.revision)
    IN /\ q.pc = "insert" /\ Waits(r) = {}
       /\ IF id = NoRow
          THEN /\ Lock(r, {key})
               /\ req' = [req EXCEPT ![r] = [@ EXCEPT !.pc = "latest", !.row = r]]
          ELSE /\ Lock(r, {key, Key("update", id)})
               /\ req' = [req EXCEPT ![r] = [@ EXCEPT !.pc = "latest", !.row = id]]
       /\ UNCHANGED <<tables, history>>

\* The upsert of the row that names the version's latest publication.
WriteLatest_FirstOnly(r) ==
    /\ req[r].pc = "latest" /\ Waits(r) = {}
    /\ Lock(r, IF req[r].existing = NoRow THEN Needs(r) ELSE {})
    /\ Go(r, "announce")
    /\ UNCHANGED <<tables, history>>
WriteLatest(r) ==
    /\ req[r].pc = "latest" /\ Waits(r) = {}
    /\ Lock(r, Needs(r))
    /\ Go(r, "announce")
    /\ UNCHANGED <<tables, history>>

\* The events are broadcast inside the transaction.  If a webhook is subscribed, the
\* listener inserts a triggered_webhooks row for the publication, which must exist.
Announce(r) ==
    LET q == req[r]
        announcing == req' = [req EXCEPT ![r] = [@ EXCEPT !.pc = "commit",
                        !.changed = IF q.existing = NoRow
                                    THEN ContentChanged(r, q.version, q.content)
                                    ELSE q.base # q.content]]
    IN /\ q.pc = "announce"
       /\ \E triggers \in Subscribed :
            \/ /\ ~triggers
               /\ announcing
               /\ UNCHANGED <<tables, holds, history>>
            \/ /\ triggers /\ Waits(r) = {}
               /\ q.row = r \/ pub[q.row] # NoRow
               /\ Lock(r, {Key("share", q.row)})
               /\ announcing
               /\ UNCHANGED <<tables, history>>
            \/ /\ triggers /\ Waits(r) = {}
               /\ q.row # r /\ pub[q.row] = NoRow
               /\ Fail(r, "error")

\* DELETE removes the triggered webhooks of every revision, once in the service
\* and once more in the dataset's own delete: the second one is what counts.
UnhookRevisions(r) ==
    /\ req[r].pc = "unhook" /\ Waits(r) = {}
    /\ Lock(r, Needs(r))
    /\ Go(r, "choose")
    /\ UNCHANGED <<tables, history>>

\* The DELETE statement chooses its rows ...
Choosing(r) ==
    req' = [req EXCEPT ![r] = [@ EXCEPT !.pc = "remove", !.targets = Rows(req[r].version)]]
ChooseRevisions_LatestFirst(r) ==
    /\ req[r].pc = "choose"
    /\ \A q \in Requests \ {r} : Key("latest", req[r].version) \notin holds[q]
    /\ Lock(r, {Key("latest", req[r].version)})
    /\ Choosing(r)
    /\ UNCHANGED <<tables, history>>
ChooseRevisions(r) ==
    /\ req[r].pc = "choose"
    /\ Choosing(r)
    /\ UNCHANGED <<tables, holds, history>>

\* ... waits for the transactions that changed them or refer to them, and fails
\* if a triggered webhook refers to one; rows deleted meanwhile are skipped ...
RemoveRevisions(r) ==
    LET referred == {h \in hooked : h[1] \in Removable(r) /\ Key("unhook", h) \notin holds[r]}
    IN /\ req[r].pc = "remove" /\ Waits(r) = {}
       /\ \/ /\ referred # {}
             /\ Fail(r, "error")
          \/ /\ referred = {}
             /\ Lock(r, {Key("delete", i) : i \in Removable(r)})
             /\ Go(r, "cascade")
             /\ UNCHANGED <<tables, history>>

\* ... and cascades to the latest row if that names one of the removed rows
\* once the transactions that changed it have ended.
Cascade_ByVersion(r) ==
    LET q == req[r]
    IN /\ q.pc = "cascade"
       /\ Lock(r, {Key("latest", q.version)})
       /\ Go(r, "commit")
       /\ UNCHANGED <<tables, history>>
Cascade(r) ==
    /\ req[r].pc = "cascade" /\ Waits(r) = {}
    /\ Lock(r, Needs(r))
    /\ Go(r, "commit")
    /\ UNCHANGED <<tables, history>>

\* What the ended transaction of r leaves in the tables.
Wrote(r, kind, x) == Key(kind, x) \in holds[r]
CommitTables(r) ==
    LET q == req[r]
        key == <<q.version, q.revision>>
        row == [version |-> q.version, revision |-> q.revision, content |-> q.content]
    IN /\ versions' = versions \cup {v \in Versions : Wrote(r, "version", v)}
       /\ tagged' = tagged \cup {x \in Versions \X Tags : Wrote(r, "tag", x)}
       /\ hooked' = {h \in hooked : ~Wrote(r, "unhook", h)}
                       \cup {<<i, r>> : i \in {i \in Requests : Wrote(r, "share", i)}}
       /\ pub' = [i \in Requests |->
                    IF Wrote(r, "delete", i) THEN NoRow
                    ELSE IF Wrote(r, "revision", key) /\ i = q.row THEN row ELSE pub[i]]
       /\ latest' = [v \in Versions |->
                       IF ~Wrote(r, "latest", v) THEN latest[v]
                       ELSE IF q.op = "delete" THEN NoRow ELSE q.row]

Commit(r) ==
    LET q == req[r]
    IN /\ q.pc = "commit"
       /\ CommitTables(r)
       /\ Go(r, "done")
       /\ holds' = [holds EXCEPT ![r] = {}]
       /\ announced' = announced \cup (IF q.changed THEN {q.content} ELSE {})
       /\ written' = IF Wrote(r, "revision", <<q.version, q.revision>>)
                     THEN [written EXCEPT ![q.version] = q.content] ELSE written
       /\ raced' = raced \cup {p \in Requests \ {r} : IsOpen(p) /\ req[p].version = q.version}
       /\ UNCHANGED known

\* The database fails one of the transactions that wait for each other.
DeadlockVictim(r) == Waits(r) # {} /\ OnCycle(r) /\ Fail(r, "error")

Step(r) ==
    \/ CheckResource(r) \/ CreateVersion(r) \/ InsertTag(r) \/ FindPact(r) \/ ReadExisting(r)
    \/ FindModel(r) \/ WritePublication(r)
    \/ WriteLatest(r) \/ Announce(r)
    \/ UnhookRevisions(r) \/ ChooseRevisions(r) \/ RemoveRevisions(r) \/ Cascade(r)
    \/ Commit(r) \/ DeadlockVictim(r)

Next == \E r \in Requests : Begin(r) \/ (req[r] # Idle /\ Step(r))

Spec == Init /\ [][Next]_vars

-----------------------------------------------------------------------------
(* Properties.                                                             *)

\* The type invariant: rows, requests and locks are what the tables, the
\* handlers and the database can hold.
TypeOK ==
    /\ versions \subseteq Versions
    /\ tagged \subseteq Versions \X Tags
    /\ pub \in [Requests -> [version : Versions, revision : 1 .. Cardinality(Requests),
                             content : Contents] \cup {NoRow}]
    /\ latest \in [Versions -> Requests \cup {NoRow}]
    /\ hooked \subseteq Requests \X Requests
    /\ \A r \in Requests :
         \/ req[r] = Idle
         \/ /\ req[r].pc \in Steps \cup Outcomes
            /\ req[r].content \in Contents
            /\ {req[r].found, req[r].existing, req[r].row} \subseteq Requests \cup {NoRow}
            /\ Ended(r) => holds[r] = {}
    /\ announced \subseteq Contents

\* A request that found no row, or an older one, wrote over a revision of v that was
\* committed meanwhile.
Overwritten(v) ==
    \E r \in Requests :
        /\ req[r] # Idle /\ req[r].pc = "done"
        /\ req[r].version = v /\ req[r].row \notin {NoRow, r, req[r].existing}

\* The current pact of a version is one of its publications, and a version that has
\* publications has a current pact, unless one of them was written over: the
\* latest-ids table is maintained by an upsert, a cascade and nothing else, whatever
\* publishes and deletes interleave.
EveryVersionServed ==
    \A v \in Versions :
        IF Rows(v) = {} THEN latest[v] = NoRow
        ELSE latest[v] \in Rows(v) \/ (latest[v] = NoRow /\ Overwritten(v))

\* The current pact of a version has the content of the publication that was
\* committed last for it: no acknowledged publication is hidden behind an
\* older one by a revision number that was read too early.
ServesLastWritten ==
    \A v \in Versions :
        latest[v] # NoRow => pub[latest[v]].content = written[v]

\* Whatever content a client can fetch as the current pact of a version was
\* announced by a contract_content_changed event when it, or the same content
\* before it, was committed: comparing with the previous pact of each tag never
\* leaves a provider untold of a content.
EveryContentAnnounced ==
    \A i \in Requests : pub[i] # NoRow => pub[i].content \in announced

\* A request never overwrites a revision that was there when it read the pact, if
\* what it read was the newest one: it gets a new revision, the old ones stay in the
\* history.  (What is latest may be older: the last writer may have the lower number.)
CommittedRevisionsAreKept ==
    [][\A i, r \in Requests :
         (Commit(r) /\ i \in known[r] /\ pub[i] # NoRow /\ pub'[i] # NoRow)
            => pub'[i] = pub[i]]_vars

\* The only requests that ever wait for each other in a circle are POSTs that have
\* inserted one tag of a version and wait for another: the other statements of the
\* handlers take their locks in an order that closes no circle, and no request that
\* carries fewer than two tags is failed by the database for a deadlock.
OnlyTagsDeadlock ==
    \A r \in Requests : OnCycle(r) =>
        /\ req[r].pc = "tag"
        /\ \E t \in Tags : Key("tag", <<req[r].version, t>>) \in holds[r]

\* What the requests promise as a whole: what was asked, how it was answered, and the
\* contents that are current and announced then are all that clients see of them.
AskOf(r) ==
    IF req[r] = Idle THEN NoRow
    ELSE [op |-> req[r].op, version |-> req[r].version, tags |-> req[r].tags,
          body |-> req[r].body]
AnswerOf(r) ==
    IF req[r] = Idle THEN "none" ELSE IF Ended(r) THEN req[r].pc ELSE "open"
Current(v) == IF latest[v] = NoRow THEN NoRow ELSE pub[latest[v]].content

Service == INSTANCE PactService WITH
    Asks <- Workload,
    Merge <- MergePacts, Conflict <- Conflict, None <- NoRow,
    asked <- [r \in Requests |-> AskOf(r)],
    answer <- [r \in Requests |-> AnswerOf(r)],
    current <- [v \in Versions |-> Current(v)]

\* A request that no other one for its version overtook acts in one step, with the
\* documented answer and content; an overtaken one makes nothing current but its own
\* content, by itself or merged into an announced one.  Only overtaken ones fail, and
\* POSTs with several tags that meet others with one of those.
ImplementsService == Service!Spec

\* What the description of onConflict says of merge: the interactions are merged
\* into any pre-existing pact, so that tests split over several nodes can each
\* publish their part.  With nothing but merges, each part is in the pact.
MergedInteractionsAreKept ==
    \A r \in Requests : (Ended(r) /\ req[r].pc = "done") =>
        \A d \in DOMAIN req[r].body :
            d \in DOMAIN pub[latest[req[r].version]].content
=============================================================================
