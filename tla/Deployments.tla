------------------------------ MODULE Deployments ------------------------------
(***************************************************************************)
(* Which versions of one pacticipant are deployed to one environment,      *)
(* target by target, and which are released there.                         *)
(*                                                                         *)
(* A request is one database transaction whose statements interleave with  *)
(* those of other requests, as in PactPublishing.  A statement that must   *)
(* change, insert or refer to what an open transaction has locked waits    *)
(* for it; requests that wait for each other are a deadlock, which the     *)
(* database ends by failing one of them.                                   *)
(* A row of deployed_versions, and a row of currently_deployed_version_ids,*)
(* is identified by the request that inserted it.                          *)
(***************************************************************************)
EXTENDS Naturals, FiniteSets

CONSTANTS
    Requests,
    Versions,    \* the pacticipant's versions
    Targets,     \* instances of the application, "no target" among them
    Env,         \* the environment
    Workload,    \* the requests that clients may make
    NoRow        \* stands for "no such row"

Parents == Versions \cup {Env}
Operations == {"deploy", "tag", "undeploy", "release", "unsupport", "delete"}

ASSUME DeploymentsAssumption ==
    /\ Env \notin Versions /\ NoRow \notin Requests /\ NoRow \notin Versions \X Targets
    /\ Workload \subseteq [op : Operations, version : Parents, target : Targets]
    /\ \A w \in Workload : w.version = Env => w.op = "delete"

VARIABLES
    present,     \* the versions and the environment that exist
    deployed,    \* deployed[i]: <<version, target>> of the deployed_versions row i
    undeployed,  \* the rows that have undeployed_at
    current,     \* current[t]: the deployed version the currently-deployed row names
    currentRow,  \* currentRow[t]: the identity of that row
    released,    \* released[v]: the released_versions row of v
    req,         \* req[r]: the request, its progress and what it has read
    holds,       \* holds[r]: what the open transaction of r has locked
    last         \* history: last[t] is the last committed deployment to t

tables == <<present, deployed, undeployed, current, currentRow, released, last>>
vars == <<tables, req, holds>>

Outcomes == {"done", "missing", "error"}
Steps == {"find", "previous", "insert", "current", "read", "clear", "record",
          "ignore", "support", "end", "rows", "releases", "parent", "cascade", "commit",
          "mark", "delete_rows", "delete_releases"}
Idle == [pc |-> "idle"]
Ended(r) == req[r].pc \in Outcomes

-----------------------------------------------------------------------------
(* The rows that the statements are about, as committed.                   *)

\* record_previous_version_undeployed: whatever the target has not undeployed.
Previous_AnyTarget(q) == {i \in Requests : deployed[i] # NoRow /\ i \notin undeployed}
Previous(q) ==
    {i \in Requests : deployed[i] # NoRow /\ deployed[i][2] = q.target /\ i \notin undeployed}

\* The rows that the deletion of a version, or of the environment, takes along.
Covers(p, v) == p \in {Env, v}
DeployedRows(p) == {i \in Requests : deployed[i] # NoRow /\ Covers(p, deployed[i][1])}
ReleasedRows(p) == {v \in Versions : released[v] # NoRow /\ Covers(p, v)}
CurrentRows(p) == {t \in Targets : current[t] \in DeployedRows(p)}

\* find_currently_deployed_version_for_version_and_environment_and_target
AlreadyDeployed(q) ==
    current[q.target] # NoRow /\ deployed[current[q.target]][1] = q.version

-----------------------------------------------------------------------------
(* Locks.                                                                  *)

Key(kind, x) == <<kind, x>>
Keys(kind, X) == {Key(kind, x) : x \in X}

\* The rows a statement chose when it began that are still there to be changed.
Remaining(q) ==
    CASE q.pc = "mark" -> {i \in q.chosen : deployed[i] # NoRow /\ i \notin undeployed}
      [] q.pc = "delete_rows" -> {i \in q.chosen : deployed[i] # NoRow}
      [] q.pc = "delete_releases" -> {v \in q.chosen : released[v] # NoRow}

\* What the next statement of r has to wait for.
Needs(r) ==
    LET q == req[r]
    IN CASE q.pc \in {"mark", "delete_rows"} -> Keys("row", Remaining(q))
         [] q.pc \in {"insert", "ignore"} ->
              Keys("gone", {Env, q.version})
                \cup (IF q.pc = "ignore" THEN {Key("release", q.version)} ELSE {})
         [] q.pc = "current" -> {Key("current", q.target)}
         [] q.pc = "clear" /\ currentRow[q.target] = q.seen -> {Key("current", q.target)}
         [] q.pc = "record" /\ q.row \notin undeployed -> {Key("row", q.row)}
         [] q.pc = "support" /\ released[q.version] = "ended" -> {Key("support", q.version)}
         [] q.pc = "end" /\ released[q.version] = "supported" -> {Key("support", q.version)}
         [] q.pc = "delete_releases" ->
              Keys("support", Remaining(q)) \cup Keys("release", Remaining(q))
         [] q.pc = "parent" -> {Key("gone", q.version), Key("refer", q.version)}
         [] q.pc = "cascade" -> Keys("current", CurrentRows(q.version))
         [] OTHER -> {}

Waits(r) == {p \in Requests \ {r} : Needs(r) \cap holds[p] # {}}

\* r waits, directly or through others, for itself.
OnCycle(r) ==
    \A S \in SUBSET Requests :
        (\A q \in S \cup {r} : Waits(q) \subseteq S) => r \in S

At(r, pc) == req[r].pc = pc /\ Waits(r) = {}
Lock(r, keys) == holds' = [holds EXCEPT ![r] = @ \cup keys]
Go(r, pc) == req' = [req EXCEPT ![r].pc = pc]
Choose(r, rows, pc) ==
    /\ req' = [req EXCEPT ![r] = [@ EXCEPT !.pc = pc, !.chosen = rows]]
    /\ UNCHANGED <<tables, holds>>

-----------------------------------------------------------------------------
Init ==
    /\ present = Parents
    /\ undeployed = {}
    /\ deployed = [i \in Requests |-> NoRow]
    /\ current = [t \in Targets |-> NoRow]
    /\ currentRow = [t \in Targets |-> NoRow]
    /\ released = [v \in Versions |-> NoRow]
    /\ req = [r \in Requests |-> Idle]
    /\ holds = [r \in Requests |-> {}]
    /\ last = [t \in Targets |-> NoRow]

\* The transaction of r is rolled back, or ends without having changed anything.
End_KeepsLocks(r, outcome) == Go(r, outcome) /\ UNCHANGED <<holds, tables>>
End(r, outcome) ==
    /\ Go(r, outcome)
    /\ holds' = [holds EXCEPT ![r] = {}]
    /\ UNCHANGED tables

FirstStep(op) ==
    CASE op \in {"deploy", "tag"} -> "find"
      [] op = "undeploy" -> "read"
      [] op = "release" -> "ignore"
      [] op = "unsupport" -> "end"
      [] op = "delete" -> "rows"

\* A request arrives and looks its resource up: 404 without it.  A PUT of a tag
\* that has no environment of its name deploys nothing.
Begin(r) ==
    /\ req[r] = Idle
    /\ \E w \in Workload, i \in Requests :
        LET exists ==
              CASE w.op \in {"deploy", "tag", "release"} -> {Env, w.version} \subseteq present
                [] w.op = "undeploy" -> deployed[i] = <<w.version, w.target>>
                [] w.op = "unsupport" -> released[w.version] # NoRow
                [] w.op = "delete" -> w.version \in present
        IN /\ w.op = "undeploy" \/ i = r
           /\ req' = [req EXCEPT ![r] =
                [pc |-> IF exists THEN FirstStep(w.op)
                        ELSE IF w.op = "tag" THEN "done" ELSE "missing",
                 op |-> w.op, version |-> w.version, target |-> w.target,
                 row |-> i, seen |-> NoRow, chosen |-> {}]]
    /\ UNCHANGED <<tables, holds>>

(* Recording a deployment. *)

FindCurrent(r) ==
    /\ At(r, "find")
    /\ IF AlreadyDeployed(req[r]) THEN End(r, "done")
       ELSE Go(r, "previous") /\ UNCHANGED <<tables, holds>>

\* The UPDATE sees the rows committed when it begins, waits for those that others
\* are changing, and skips the ones it no longer matches.
ChoosePrevious(r) == At(r, "previous") /\ Choose(r, Previous(req[r]), "mark")

RecordPreviousUndeployed(r) ==
    /\ At(r, "mark")
    /\ Lock(r, Keys("row", Remaining(req[r])))
    /\ Go(r, "insert")
    /\ UNCHANGED tables

\* The new row refers to its version and its environment, which must exist and
\* cannot be deleted by others from here on.
CreateDeployedVersion(r) ==
    LET parents == {Env, req[r].version}
    IN /\ At(r, "insert")
       /\ IF parents \subseteq present
          THEN Lock(r, Keys("refer", parents)) /\ Go(r, "current") /\ UNCHANGED tables
          ELSE End(r, "error")

\* after_create: the upsert of the target's currently-deployed row.
UpsertCurrent_InsertOnly(r) ==
    /\ At(r, "current")
    /\ Lock(r, IF current[req[r].target] = NoRow THEN {Key("current", req[r].target)} ELSE {})
    /\ Go(r, "commit")
    /\ UNCHANGED tables
UpsertCurrent(r) ==
    /\ At(r, "current")
    /\ Lock(r, {Key("current", req[r].target)})
    /\ Go(r, "commit")
    /\ UNCHANGED tables

(* Recording an undeployment. *)

\* The currently-deployed row is found by what it names ...
ReadCurrentRow(r) ==
    LET t == req[r].target
        found == current[t] = req[r].row
    IN /\ At(r, "read")
       /\ req' = [req EXCEPT ![r] = [@ EXCEPT
              !.pc = IF found THEN "clear" ELSE "record",
              !.seen = IF found THEN currentRow[t] ELSE NoRow]]
       /\ UNCHANGED <<tables, holds>>

\* ... and deleted by its own id: what it names may have changed meanwhile.  If
\* the row has gone meanwhile the delete raises.
DeleteCurrentRow_Skipped(r) ==
    /\ At(r, "clear")
    /\ Go(r, "record")
    /\ UNCHANGED <<tables, holds>>
DeleteCurrentRow(r) ==
    LET t == req[r].target
    IN /\ At(r, "clear")
       /\ IF currentRow[t] = req[r].seen
          THEN Lock(r, {Key("current", t)}) /\ Go(r, "record") /\ UNCHANGED tables
          ELSE End(r, "error")

RecordUndeployed(r) ==
    LET i == req[r].row
    IN /\ At(r, "record")
       /\ IF deployed[i] = NoRow THEN End(r, "error")
          ELSE /\ Lock(r, IF i \in undeployed THEN {} ELSE {Key("row", i)})
               /\ Go(r, "commit")
               /\ UNCHANGED tables

(* Releases. *)

InsertIgnoreReleased(r) ==
    LET parents == {Env, req[r].version}
    IN /\ At(r, "ignore")
       /\ \/ /\ released[req[r].version] # NoRow
             /\ Go(r, "support")
             /\ UNCHANGED <<tables, holds>>
          \/ /\ released[req[r].version] = NoRow /\ parents \subseteq present
             /\ Lock(r, Keys("refer", parents) \cup {Key("release", req[r].version)})
             /\ Go(r, "commit")
             /\ UNCHANGED tables
          \/ /\ released[req[r].version] = NoRow /\ ~(parents \subseteq present)
             /\ End(r, "error")

\* One statement sets or clears support_ended_at, if that changes it; the row is
\* then refreshed, which raises if it has been deleted.
ChangeSupport(r, pc, from) ==
    /\ At(r, pc)
    /\ IF released[req[r].version] = NoRow THEN End(r, "error")
       ELSE /\ Lock(r, IF released[req[r].version] = from
                       THEN {Key("support", req[r].version)} ELSE {})
            /\ Go(r, "commit")
            /\ UNCHANGED tables
SetSupported(r) == ChangeSupport(r, "support", "ended")
RecordSupportEnded(r) == ChangeSupport(r, "end", "supported")

(* Deleting an environment, or a version with its deployments and releases. *)

ChooseDeployed(r) == At(r, "rows") /\ Choose(r, DeployedRows(req[r].version), "delete_rows")
DeleteDeployed(r) ==
    /\ At(r, "delete_rows")
    /\ Lock(r, Keys("row", Remaining(req[r])))
    /\ Go(r, "releases")
    /\ UNCHANGED tables

ChooseReleased(r) ==
    At(r, "releases") /\ Choose(r, ReleasedRows(req[r].version), "delete_releases")
DeleteReleased(r) ==
    LET vs == Remaining(req[r])
    IN /\ At(r, "delete_releases")
       /\ Lock(r, Keys("release", vs) \cup Keys("support", vs))
       /\ Go(r, "parent")
       /\ UNCHANGED tables

\* A row added since the deletes above still refers to the parent.
StillReferred(r) ==
    LET p == req[r].version
    IN \/ \E i \in DeployedRows(p) : Key("row", i) \notin holds[r]
       \/ \E v \in ReleasedRows(p) : Key("release", v) \notin holds[r]
DeleteParent(r) ==
    /\ At(r, "parent")
    /\ IF StillReferred(r) THEN End(r, "error")
       ELSE Lock(r, {Key("gone", req[r].version)}) /\ Go(r, "cascade") /\ UNCHANGED tables

CascadeToCurrent_Nothing(r) ==
    At(r, "cascade") /\ Go(r, "commit") /\ UNCHANGED <<tables, holds>>
CascadeToCurrent(r) ==
    /\ At(r, "cascade")
    /\ Lock(r, Keys("current", CurrentRows(req[r].version)))
    /\ Go(r, "commit")
    /\ UNCHANGED tables

(* The end of the transaction. *)

Wrote(r, kind, x) == Key(kind, x) \in holds[r]
Commit(r) ==
    LET q == req[r]
        deploys == q.op \in {"deploy", "tag"}
        deletes == q.op = "delete"
    IN /\ At(r, "commit")
       /\ present' = {p \in present : ~Wrote(r, "gone", p)}
       /\ deployed' = [i \in Requests |->
            IF deletes /\ Wrote(r, "row", i) THEN NoRow
            ELSE IF deploys /\ i = r THEN <<q.version, q.target>> ELSE deployed[i]]
       /\ undeployed' =
            IF deletes THEN {i \in undeployed : ~Wrote(r, "row", i)}
            ELSE undeployed \cup {i \in Requests : Wrote(r, "row", i)}
       /\ current' = [t \in Targets |->
            IF ~Wrote(r, "current", t) THEN current[t] ELSE IF deploys THEN r ELSE NoRow]
       /\ currentRow' = [t \in Targets |->
            IF ~Wrote(r, "current", t) \/ (deploys /\ currentRow[t] # NoRow)
            THEN currentRow[t] ELSE IF deploys THEN r ELSE NoRow]
       /\ released' = [v \in Versions |->
            IF q.op = "release" /\ (Wrote(r, "release", v) \/ Wrote(r, "support", v))
            THEN "supported"
            ELSE IF deletes /\ Wrote(r, "release", v) THEN NoRow
            ELSE IF Wrote(r, "support", v) THEN "ended" ELSE released[v]]
       /\ last' = IF deploys THEN [last EXCEPT ![q.target] = r] ELSE last
       /\ Go(r, "done")
       /\ holds' = [holds EXCEPT ![r] = {}]

\* The database fails one of the transactions that wait for each other.
DeadlockVictim(r) == Waits(r) # {} /\ OnCycle(r) /\ End(r, "error")

Step(r) ==
    \/ FindCurrent(r) \/ ChoosePrevious(r) \/ RecordPreviousUndeployed(r)
    \/ CreateDeployedVersion(r) \/ UpsertCurrent(r)
    \/ ReadCurrentRow(r) \/ DeleteCurrentRow(r) \/ RecordUndeployed(r)
    \/ InsertIgnoreReleased(r) \/ SetSupported(r) \/ RecordSupportEnded(r)
    \/ ChooseDeployed(r) \/ DeleteDeployed(r) \/ ChooseReleased(r) \/ DeleteReleased(r)
    \/ DeleteParent(r) \/ CascadeToCurrent(r)
    \/ Commit(r)
    \/ DeadlockVictim(r)

Next == \E r \in Requests : Begin(r) \/ (req[r] # Idle /\ Step(r))

Spec == Init /\ [][Next]_vars

\* Puma runs every request it has accepted, and the database detects deadlocks.
FairSpec == Spec /\ \A r \in Requests : WF_vars(req[r] # Idle /\ Step(r))

-----------------------------------------------------------------------------
(* Properties.                                                             *)

\* The type invariant: rows refer to rows of the right kind, and a transaction
\* that has ended holds nothing.
TypeOK ==
    /\ present \subseteq Parents
    /\ deployed \in [Requests -> (Versions \X Targets) \cup {NoRow}]
    /\ undeployed \subseteq Requests
    /\ {current, currentRow, last} \subseteq [Targets -> Requests \cup {NoRow}]
    /\ released \in [Versions -> {NoRow, "supported", "ended"}]
    /\ \A r \in Requests :
         \/ req[r] = Idle /\ holds[r] = {}
         \/ /\ req[r].pc \in Steps \cup Outcomes
            /\ Ended(r) => holds[r] = {}

\* What an environment shows as currently deployed to a target is a recorded
\* deployment of an existing version to that target which nobody has undeployed:
\* the currently-deployed row and undeployed_at are changed by different
\* statements, and nothing but the cascade ties the row to what it names.
CurrentIsDeployed ==
    \A t \in Targets :
        current[t] # NoRow =>
            /\ deployed[current[t]] # NoRow
            /\ deployed[current[t]][2] = t
            /\ {Env, deployed[current[t]][1]} \subseteq present
            /\ current[t] \notin undeployed

\* If a target has a currently deployed version, it is the one whose deployment
\* was committed last: a deployment that was decided on an older state never
\* leaves the version it replaces in place.
CurrentIsLast ==
    \A t \in Targets : current[t] # NoRow => current[t] = last[t]

\* A deployment is marked undeployed only by a request for that row or by a
\* deployment to its own target: other targets of the pacticipant keep theirs.
UndeployedByItsTarget ==
    [][\A i \in undeployed' \ undeployed : \E r \in Requests :
          /\ req[r].pc = "commit" /\ req'[r].pc = "done"
          /\ \/ req[r].op = "undeploy" /\ req[r].row = i
             \/ req[r].op \in {"deploy", "tag"} /\ req[r].target = deployed[i][2]]_vars

\* Every request gets an answer, although deploying locks the deployments and
\* then the currently-deployed row and undeploying the other way around.
RequestsEnd == \A r \in Requests : (req[r] # Idle) ~> Ended(r)

\* The last deployment recorded for a target is currently deployed until it is
\* undeployed or deleted.  Deleting the currently-deployed row by its id
\* undeploys what another request has deployed in the meantime.
DeployedStaysCurrent ==
    \A t \in Targets :
        (last[t] # NoRow /\ deployed[last[t]] # NoRow /\ last[t] \notin undeployed)
            => current[t] = last[t]
=============================================================================
