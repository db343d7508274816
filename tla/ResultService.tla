----------------------------- MODULE ResultService -----------------------------
(***************************************************************************)
(* What the requests about verification results promise, as if each acted  *)
(* in one step: a result that was accepted is saved with the pact and the  *)
(* provider version it is about and is the latest, and a delete takes what *)
(* it is about and nothing else.  A request that another one overtook      *)
(* between its arrival and its answer may fail, or find nothing left to    *)
(* delete; and the delete of an integration may then keep a version, or    *)
(* take a result of another integration that has come meanwhile.           *)
(***************************************************************************)
CONSTANTS
    Requests,   \* identities of requests and of the results that they save
    Contents,   \* pact versions
    Between,    \* those of the integration that may be deleted
    Versions,   \* numbers of provider versions
    Workloads,  \* what clients may ask of the requests
    NoRow       \* no result

VARIABLES
    job,        \* job[r]: what r is asked for
    answer,     \* answer[r]: "idle", "open" or how it has ended
    contents,   \* the pact versions that exist
    versions,   \* the provider versions that exist
    result,     \* result[i]: the pair that the result i is about, or NoRow
    latest,     \* latest[p]: the latest result of p, or NoRow
    overtaken   \* overtaken[r]: the requests that were done while r was open

store == <<contents, versions, result, latest>>
svars == <<store, job, answer, overtaken>>

Init ==
    /\ job \in Workloads
    /\ answer = [r \in Requests |-> "idle"]
    /\ contents = Contents /\ versions \in SUBSET Versions
    /\ result = [i \in Requests |-> NoRow]
    /\ latest = [p \in Contents \X Versions |-> NoRow]
    /\ overtaken = [r \in Requests |-> {}]

\* Requests meet if they are about the same version; a delete of the integration
\* is about all versions.
Meets(r, p) ==
    \/ job[r].pair[2] = job[p].pair[2]
    \/ "delete_integration" \in {job[r].op, job[p].op}
Open == {r \in Requests : answer[r] = "open"}

Saved == {i \in Requests : result[i] # NoRow}
About(v) == {i \in Saved : result[i][2] = v}
Foreign == {i \in Saved : result[i][1] \notin Between}

\* There is nothing to verify or to delete.
Missing(r) ==
    LET pair == job[r].pair
    IN \/ job[r].op = "verify" /\ pair[1] \notin contents
       \/ job[r].op = "delete_result" /\ \A i \in Requests : result[i] # pair
       \/ job[r].op = "delete_version" /\ pair[2] \notin versions

Ask(r) ==
    /\ answer[r] = "idle" /\ ~Missing(r)
    /\ answer' = [answer EXCEPT ![r] = "open"]
    /\ UNCHANGED <<store, job, overtaken>>

Refuse(r) ==
    /\ answer[r] = "idle" /\ Missing(r)
    /\ answer' = [answer EXCEPT ![r] = "missing"]
    /\ UNCHANGED <<store, job, overtaken>>

\* Only a request that another one has overtaken, or is in the way of, fails.
Err(r) ==
    /\ answer[r] = "open"
    /\ overtaken[r] # {} \/ \E p \in Open \ {r} : Meets(r, p)
    /\ answer' = [answer EXCEPT ![r] = "error"]
    /\ UNCHANGED <<store, job, overtaken>>

Done(r) ==
    /\ answer[r] = "open"
    /\ answer' = [answer EXCEPT ![r] = "done"]
    /\ overtaken' = [p \in Requests |->
         IF p \in Open \ {r} /\ Meets(p, r) THEN overtaken[p] \cup {r} ELSE overtaken[p]]
    /\ UNCHANGED job

Record(r) ==
    LET pair == job[r].pair
    IN /\ Done(r) /\ job[r].op = "verify"
       /\ pair[1] \in contents
       /\ versions' = versions \cup {pair[2]}
       /\ result' = [result EXCEPT ![r] = pair]
       /\ latest' = [latest EXCEPT ![pair] = r]
       /\ UNCHANGED contents

\* The results R go, and the latest rows that name them; the result before is
\* not the latest again.
Remove(R) ==
    /\ result' = [i \in Requests |-> IF i \in R THEN NoRow ELSE result[i]]
    /\ latest' = [p \in Contents \X Versions |->
                    IF latest[p] \in R THEN NoRow ELSE latest[p]]

DeleteResult(r) ==
    /\ Done(r) /\ job[r].op = "delete_result"
    /\ \/ \E i \in Requests : result[i] = job[r].pair /\ Remove({i})
       \/ overtaken[r] # {} /\ Remove({})
    /\ UNCHANGED <<contents, versions>>

DeleteVersion(r) ==
    LET v == job[r].pair[2]
    IN /\ Done(r) /\ job[r].op = "delete_version"
       /\ \/ v \in versions /\ versions' = versions \ {v} /\ Remove(About(v))
          \/ overtaken[r] # {} /\ Remove({}) /\ UNCHANGED versions
       /\ UNCHANGED contents

\* The versions that have no result of another integration go with it.  A foreign
\* result that was there when r arrived keeps its version.
Orphans == {v \in versions : About(v) \cap Foreign = {}}
DeleteIntegration(r) ==
    /\ Done(r) /\ job[r].op = "delete_integration"
    /\ contents' = contents \ Between
    /\ \E V \in SUBSET versions :
         /\ overtaken[r] = {} => V = Orphans
         /\ \A v \in V : About(v) \cap Foreign \subseteq overtaken[r]
         /\ versions' = versions \ V
         /\ Remove((Saved \ Foreign) \cup UNION {About(v) : v \in V})

Next ==
    \E r \in Requests :
        \/ Ask(r) \/ Refuse(r) \/ Err(r)
        \/ Record(r) \/ DeleteResult(r) \/ DeleteVersion(r) \/ DeleteIntegration(r)

Spec == Init /\ [][Next]_svars
=============================================================================
