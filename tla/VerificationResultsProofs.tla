------------------------ MODULE VerificationResultsProofs ------------------------
(***************************************************************************)
(* Proofs about VerificationResults, for every set of requests, pact       *)
(* versions and provider versions, and all that clients may ask for.       *)
(***************************************************************************)
EXTENDS VerificationResults, TLAPS

-----------------------------------------------------------------------------
(* The inductive invariant *)

Things == Requests \cup Pairs \cup Contents \cup Versions
Kinds == {"version", "refer", "result", "latest", "gone"}
VersionRows == Versions \X (Ids \cup {NoRow})

\* What the type invariant leaves out.
MemoryOK ==
    /\ chosen \in [Requests -> SUBSET (Requests \cup VersionRows)]
    /\ holds \in [Requests -> SUBSET (Kinds \X Things)]

Verifies(r) == job[r].op = "verify"
VerifySteps == {"pact", "version", "create", "insert", "latest", "commit"}
Resting == Outcomes \cup {"idle"}

\* A request that publishes a result locks its own rows only, and the version it has
\* found was created by a request that has ended.  Once it has saved the result, the
\* pact version is there, and the provider version is or will be.
VerifyKeys(r) ==
    {Key("version", Version(r)), Key("refer", Content(r)), Key("refer", Version(r)),
     Key("result", r), Key("latest", job[r].pair)}
Saved(r) ==
    /\ {Key("refer", Content(r)), Key("refer", Version(r)), Key("result", r)} \subseteq holds[r]
    /\ Content(r) \in contents /\ row[r] # NoRow
    /\ version[Version(r)] # NoRow \/ Key("version", Version(r)) \in holds[r]
VerifyOK(r) ==
    /\ pc[r] \in VerifySteps \cup Resting
    /\ holds[r] \subseteq VerifyKeys(r)
    /\ row[r] \in Requests \ {r} => pc[row[r]] = "done"
    /\ pc[r] = "insert" =>
         row[r] # NoRow /\ (row[r] = r => Key("version", Version(r)) \in holds[r])
    /\ pc[r] \in {"latest", "commit"} => Saved(r)
    /\ pc[r] = "commit" => Key("latest", job[r].pair) \in holds[r]

\* A request that deletes has chosen results that were committed.  The latest rows of
\* those it deletes are its own, once it has cascaded; no result that it does not
\* delete refers to what it is about to remove.
Deleting == {"delete", "cascade", "delete_again", "cascade_again"}
Cascading == {"cascade", "cascade_again"}
DeleteOK(r) ==
    /\ pc[r] \in (Steps \ VerifySteps) \cup {"commit"} \cup Resting
    /\ \A k \in holds[r] : k[1] \in {"result", "latest", "gone"}
    /\ \A i \in Requests : Key("result", i) \in holds[r] => pc[i] = "done"
    /\ pc[r] \in Deleting => \A i \in chosen[r] \cap Requests : pc[i] = "done"
    /\ \A p \in Pairs :
         (latest[p] # NoRow /\ Key("result", latest[p]) \in holds[r]) =>
            \/ Key("latest", p) \in holds[r]
            \/ pc[r] \in Cascading /\ latest[p] \in chosen[r]
    /\ \A x \in Contents \cup Versions :
         Key("gone", x) \in holds[r] =>
            \A i \in Results(r) : result[i][1] # x /\ result[i][2] # x

RequestOK(r) == IF Verifies(r) THEN VerifyOK(r) ELSE DeleteOK(r)

\* Nobody removes what another one's new result refers to.
Exclusive ==
    \A r, q \in Requests, x \in Contents \cup Versions :
        Key("refer", x) \in holds[r] => Key("gone", x) \notin holds[q]

\* The results and the versions that are there were saved by requests that have ended.
ResultsAreDone == \A i \in Requests : result[i] # NoRow => pc[i] = "done"
CreatorsAreDone == \A v \in Versions : version[v] \in Requests => pc[version[v]] = "done"

IInv ==
    /\ TypeOK /\ MemoryOK
    /\ \A r \in Requests : RequestOK(r)
    /\ Exclusive /\ ResultsAreDone /\ CreatorsAreDone
    /\ LatestNamesResult /\ LatestIsLast

LEMMA IInvInit == Init => IInv
  <1> SUFFICES ASSUME Init PROVE IInv
    OBVIOUS
  <1>1. TypeOK
    BY VerificationResultsAssumption DEF Init, TypeOK, Ids
  <1>2. MemoryOK
    BY DEF Init, MemoryOK
  <1>3. ASSUME NEW r \in Requests PROVE RequestOK(r)
    BY VerificationResultsAssumption
    DEF Init, Ids, RequestOK, VerifyOK, DeleteOK, Deleting, Resting
  <1>4. Exclusive /\ ResultsAreDone /\ CreatorsAreDone /\ LatestNamesResult /\ LatestIsLast
    BY VerificationResultsAssumption
    DEF Init, Exclusive, ResultsAreDone, CreatorsAreDone, LatestNamesResult, LatestIsLast, Ids
  <1> QED BY <1>1, <1>2, <1>3, <1>4 DEF IInv

-----------------------------------------------------------------------------
(* Statements: the tables are as they were *)

\* A step of r to a place other than the end that it commits to; what the others know
\* stays true.
Statement(r) ==
    /\ UNCHANGED <<tables, job>>
    /\ pc[r] # "done"
    /\ \E step \in Steps \cup {"missing", "error"} : Go(r, step)
    /\ \A q \in Requests \ {r} :
         row'[q] = row[q] /\ chosen'[q] = chosen[q] /\ holds'[q] = holds[q]

LEMMA StatementKeepsIInv ==
  ASSUME IInv, NEW r \in Requests, Statement(r), TypeOK', MemoryOK', RequestOK(r)', Exclusive'
  PROVE  IInv'
  <1>1. /\ UNCHANGED <<contents, version, result, latest, last, job>>
        /\ \A q \in Requests \ {r} :
             /\ pc'[q] = pc[q] /\ row'[q] = row[q]
             /\ chosen'[q] = chosen[q] /\ holds'[q] = holds[q]
        /\ \A q \in Requests : pc[q] = "done" => pc'[q] = "done"
    BY DEF IInv, TypeOK, Statement, Go, tables
  <1>2. ASSUME NEW q \in Requests \ {r} PROVE RequestOK(q)'
    <2>1. CASE Verifies(q)
      <3>1. VerifyOK(q)'
        BY <1>1, <2>1 DEF IInv, RequestOK, VerifyOK, VerifyKeys, Saved, Content, Version
      <3> QED BY <1>1, <2>1, <3>1 DEF RequestOK, Verifies
    <2>2. CASE ~Verifies(q)
      <3>1. Results(q)' = Results(q)
        BY <1>1 DEF Results, Wrote
      <3>2. DeleteOK(q)
        BY <2>2 DEF IInv, RequestOK
      <3>3. DeleteOK(q)'
        BY <1>1, <3>1, <3>2 DEF DeleteOK
      <3> QED BY <1>1, <2>2, <3>3 DEF RequestOK, Verifies
    <2> QED BY <2>1, <2>2
  <1>3. ResultsAreDone' /\ CreatorsAreDone' /\ LatestNamesResult' /\ LatestIsLast'
    BY <1>1 DEF IInv, ResultsAreDone, CreatorsAreDone, LatestNamesResult, LatestIsLast
  <1> QED BY <1>2, <1>3 DEF IInv

\* Giving up keeps everything that is known.
LEMMA EndKeepsIInv ==
  ASSUME IInv, NEW r \in Requests, pc[r] # "done", NEW outcome \in {"missing", "error"},
         End(r, outcome)
  PROVE  IInv'
  <1>1. /\ pc' = [pc EXCEPT ![r] = outcome] /\ holds' = [holds EXCEPT ![r] = {}]
        /\ UNCHANGED <<tables, memory>>
    BY DEF End, Go
  <1>2. Statement(r)
    BY <1>1 DEF Statement, Go, IInv, MemoryOK, memory
  <1>3. TypeOK' /\ MemoryOK'
    BY <1>1 DEF IInv, TypeOK, MemoryOK, tables, memory, Outcomes
  <1>4. pc'[r] = outcome /\ holds'[r] = {}
    BY <1>1 DEF IInv, TypeOK, MemoryOK
  <1>5. RequestOK(r)'
    <2>1. UNCHANGED <<job, row>> /\ \A q \in Requests : pc[q] = "done" => pc'[q] = "done"
      BY <1>1 DEF IInv, TypeOK, memory
    <2>2. CASE Verifies(r)
      BY <1>4, <2>1, <2>2
      DEF IInv, RequestOK, Verifies, VerifyOK, Resting, Outcomes
    <2>3. CASE ~Verifies(r)
      BY <1>4, <2>1, <2>3 DEF RequestOK, Verifies, DeleteOK, Resting, Outcomes, Deleting
    <2> QED BY <2>2, <2>3
  <1>6. Exclusive'
    BY <1>1, <1>4 DEF IInv, MemoryOK, Exclusive
  <1> QED BY <1>2, <1>3, <1>5, <1>6, StatementKeepsIInv

-----------------------------------------------------------------------------
(* What every action of a request uses *)

\* The job of a request is a pair of a pact version and a provider version.
LEMMA JobFacts ==
  ASSUME IInv, NEW r \in Requests
  PROVE  /\ job[r].op \in Operations /\ job[r].pair \in Pairs
         /\ Content(r) \in Contents /\ Version(r) \in Versions
         /\ job[r].pair = <<Content(r), Version(r)>>
  <1>1. job[r].op \in Operations /\ job[r].pair \in Contents \X Versions
    BY DEF IInv, TypeOK, Pairs
  <1> QED BY <1>1 DEF Content, Version, Pairs

\* Locking adds keys to those of r.
LEMMA LockFacts ==
  ASSUME IInv, NEW r \in Requests, NEW K \in SUBSET (Kinds \X Things), Lock(r, K)
  PROVE  /\ holds' \in [Requests -> SUBSET (Kinds \X Things)]
         /\ holds'[r] = holds[r] \cup K
         /\ \A q \in Requests \ {r} : holds'[q] = holds[q]
  BY DEF IInv, MemoryOK, Lock

\* Going on sets the place of r.
LEMMA GoFacts ==
  ASSUME IInv, NEW r \in Requests, NEW step \in Steps \cup Outcomes, Go(r, step)
  PROVE  /\ pc' \in [Requests -> Steps \cup Outcomes \cup {"idle"}]
         /\ pc'[r] = step
         /\ \A q \in Requests \ {r} : pc'[q] = pc[q]
  BY DEF IInv, TypeOK, Go

\* A step of r that goes on keeps the invariant if it keeps what is known of r.
LEMMA StepKeepsIInv ==
  ASSUME IInv, NEW r \in Requests, NEW step \in Steps, Go(r, step), pc[r] # "done",
         UNCHANGED <<tables, job>>,
         row' \in [Requests -> Ids \cup {NoRow}],
         chosen' \in [Requests -> SUBSET (Requests \cup VersionRows)],
         holds' \in [Requests -> SUBSET (Kinds \X Things)],
         \A q \in Requests \ {r} :
            row'[q] = row[q] /\ chosen'[q] = chosen[q] /\ holds'[q] = holds[q],
         RequestOK(r)', Exclusive'
  PROVE  IInv'
  <1>1. /\ pc' \in [Requests -> Steps \cup Outcomes \cup {"idle"}]
        /\ pc'[r] = step
        /\ \A q \in Requests \ {r} : pc'[q] = pc[q]
    BY GoFacts
  <1>2. step \notin Outcomes \cup {"idle"}
    BY DEF Steps, Outcomes
  <1>3. TypeOK'
    BY <1>1, <1>2 DEF IInv, TypeOK, tables
  <1>4. MemoryOK'
    BY DEF MemoryOK
  <1>5. Statement(r)
    BY DEF Statement
  <1> QED BY <1>3, <1>4, <1>5, StatementKeepsIInv

\* Nobody's references are removed if nobody locks the one while another has the other.
LEMMA LockKeepsExclusive ==
  ASSUME IInv, NEW r \in Requests, NEW K \in SUBSET (Kinds \X Things), Lock(r, K),
         \A x \in Contents \cup Versions, q \in Requests :
            /\ Key("refer", x) \in K => Key("gone", x) \notin holds[q] \cup K
            /\ Key("gone", x) \in K => Key("refer", x) \notin holds[q] \cup K
  PROVE  Exclusive'
  BY LockFacts DEF IInv, Exclusive

\* A statement that has nothing to wait for finds what it needs free.
LEMMA FreeFacts ==
  ASSUME NEW r \in Requests, Waits(r) = {}, NEW k \in Needs(r), NEW q \in Requests \ {r}
  PROVE  k \notin holds[q]
  BY DEF Waits

-----------------------------------------------------------------------------
(* Publishing a result *)

\* A request that has not begun holds nothing.
LEMMA BeginVerifyKeepsIInv ==
  ASSUME IInv, NEW r \in Requests, BeginVerify(r)
  PROVE  IInv'
  <1>1. CASE Content(r) \in contents
    <2>1. Go(r, "pact") /\ UNCHANGED <<tables, memory, holds>> /\ Verifies(r) /\ pc[r] = "idle"
      BY <1>1 DEF BeginVerify, Verifies
    <2>2. /\ pc'[r] = "pact" /\ "pact" \in Steps
          /\ \A q \in Requests : pc[q] = "done" => pc'[q] = "done"
      BY <2>1, GoFacts DEF Steps
    <2>3. VerifyOK(r)'
      BY <2>1, <2>2
      DEF IInv, RequestOK, VerifyOK, VerifyKeys, VerifySteps, memory, Content, Version
    <2>4. RequestOK(r)' /\ Exclusive'
      BY <2>1, <2>3 DEF IInv, RequestOK, Verifies, Exclusive, memory
    <2> QED BY <2>1, <2>2, <2>4, StepKeepsIInv DEF IInv, TypeOK, MemoryOK, memory
  <1>2. CASE Content(r) \notin contents
    <2>1. /\ Go(r, "missing") /\ UNCHANGED <<tables, memory, holds>> /\ pc[r] = "idle"
          /\ holds[r] = {}
      BY <1>2 DEF BeginVerify, IInv, TypeOK
    <2>2. holds = [holds EXCEPT ![r] = {}]
      BY <2>1 DEF IInv, MemoryOK
    <2>3. End(r, "missing")
      BY <2>1, <2>2 DEF End
    <2> QED BY <2>1, <2>3, EndKeepsIInv
  <1> QED BY <1>1, <1>2

LEMMA FindPactKeepsIInv ==
  ASSUME IInv, NEW r \in Requests, FindPact(r)
  PROVE  IInv'
  <1>1. pc[r] = "pact"
    BY DEF FindPact, At
  <1>2. Verifies(r) /\ VerifyOK(r)
    BY <1>1 DEF IInv, RequestOK, DeleteOK, VerifySteps, Resting, Outcomes
  <1>3. CASE Content(r) \in contents
    <2>1. Go(r, "version") /\ UNCHANGED <<tables, memory, holds>>
      BY <1>3 DEF FindPact
    <2>2. /\ pc'[r] = "version" /\ "version" \in Steps
          /\ \A q \in Requests : pc[q] = "done" => pc'[q] = "done"
      BY <1>1, <2>1, GoFacts DEF Steps
    <2>3. VerifyOK(r)'
      BY <1>2, <2>1, <2>2 DEF VerifyOK, VerifyKeys, VerifySteps, memory, Content, Version
    <2>4. RequestOK(r)' /\ Exclusive'
      BY <1>2, <2>1, <2>3 DEF IInv, RequestOK, Verifies, Exclusive, memory
    <2> QED BY <1>1, <2>1, <2>2, <2>4, StepKeepsIInv DEF IInv, TypeOK, MemoryOK, memory
  <1>4. CASE Content(r) \notin contents
    BY <1>1, <1>4, EndKeepsIInv DEF FindPact
  <1> QED BY <1>3, <1>4

LEMMA FindVersionKeepsIInv ==
  ASSUME IInv, NEW r \in Requests, FindVersion(r)
  PROVE  IInv'
  <1>1. /\ pc[r] = "version"
        /\ row' = [row EXCEPT ![r] = version[Version(r)]]
        /\ UNCHANGED <<tables, job, chosen, kept, holds>>
    BY DEF FindVersion, At
  <1>2. Verifies(r) /\ VerifyOK(r)
    BY <1>1 DEF IInv, RequestOK, DeleteOK, VerifySteps, Resting, Outcomes
  <1>3. version[Version(r)] \in Ids \cup {NoRow}
    BY JobFacts DEF IInv, TypeOK
  <1>4. PICK step \in {"create", "insert"} :
          Go(r, step) /\ (step = "insert" => version[Version(r)] # NoRow)
    BY DEF FindVersion
  <1>5. pc'[r] = step /\ step \in Steps
    BY <1>4, GoFacts DEF Steps
  <1>6. /\ row' \in [Requests -> Ids \cup {NoRow}] /\ row'[r] = version[Version(r)]
        /\ \A q \in Requests \ {r} : row'[q] = row[q]
    BY <1>1, <1>3 DEF IInv, TypeOK
  <1>7. VerifyOK(r)'
    <2>1. version[Version(r)] # r /\ \A q \in Requests : pc[q] = "done" => pc'[q] = "done"
      BY <1>1, <1>4, GoFacts, JobFacts DEF IInv, CreatorsAreDone, Steps
    <2>2. row'[r] \in Requests \ {r} => pc'[row'[r]] = "done"
      BY <1>6, <2>1, JobFacts DEF IInv, CreatorsAreDone
    <2> QED
      BY <1>1, <1>2, <1>4, <1>5, <1>6, <2>1, <2>2
      DEF VerifyOK, VerifyKeys, VerifySteps, Content, Version
  <1>8. RequestOK(r)' /\ Exclusive'
    BY <1>1, <1>2, <1>7 DEF IInv, RequestOK, Verifies, Exclusive
  <1> QED BY <1>1, <1>4, <1>5, <1>6, <1>8, StepKeepsIInv DEF IInv, MemoryOK

LEMMA UpsertVersionKeepsIInv ==
  ASSUME IInv, NEW r \in Requests, UpsertVersion(r)
  PROVE  IInv'
  <1> DEFINE K == {Key("version", Version(r))}
             new == IF version[Version(r)] = NoRow THEN r ELSE version[Version(r)]
  <1>1. /\ pc[r] = "create" /\ Lock(r, K) /\ Go(r, "insert")
        /\ row' = [row EXCEPT ![r] = new]
        /\ UNCHANGED <<tables, job, chosen, kept>>
    BY DEF UpsertVersion, At
  <1>2. Verifies(r) /\ VerifyOK(r)
    BY <1>1 DEF IInv, RequestOK, DeleteOK, VerifySteps, Resting, Outcomes
  <1>3. /\ new \in Ids /\ new # NoRow
        /\ new \in Requests \ {r} => pc[new] = "done"
    BY JobFacts, VerificationResultsAssumption DEF IInv, TypeOK, CreatorsAreDone, Ids
  <1>4. K \in SUBSET (Kinds \X Things)
    BY JobFacts DEF Kinds, Things, Key
  <1>5. /\ pc'[r] = "insert" /\ "insert" \in Steps
        /\ \A q \in Requests : pc[q] = "done" => pc'[q] = "done"
    BY <1>1, GoFacts DEF Steps
  <1>6. /\ row' \in [Requests -> Ids \cup {NoRow}] /\ row'[r] = new
        /\ \A q \in Requests \ {r} : row'[q] = row[q]
    <2> HIDE DEF new
    <2> QED BY <1>1, <1>3 DEF IInv, TypeOK
  <1>7. /\ holds' \in [Requests -> SUBSET (Kinds \X Things)]
        /\ holds'[r] = holds[r] \cup K
        /\ \A q \in Requests \ {r} : holds'[q] = holds[q]
    BY <1>1, <1>4, LockFacts
  <1>8. VerifyOK(r)'
    <2> HIDE DEF new
    <2>1. VerifyKeys(r)' = VerifyKeys(r) /\ Key("version", Version(r))' \in holds'[r]
      BY <1>1, <1>7 DEF VerifyKeys, Version, Content
    <2>2. holds'[r] \subseteq VerifyKeys(r)'
      BY <1>2, <1>7, <2>1 DEF VerifyOK, VerifyKeys
    <2> QED
      BY <1>3, <1>5, <1>6, <2>1, <2>2 DEF VerifyOK, VerifySteps
  <1>9. Exclusive'
    BY <1>1, <1>4, LockKeepsExclusive DEF Key
  <1>10. RequestOK(r)'
    BY <1>1, <1>2, <1>8 DEF RequestOK, Verifies
  <1> QED BY <1>1, <1>5, <1>6, <1>7, <1>9, <1>10, StepKeepsIInv DEF IInv, MemoryOK

LEMMA SaveResultKeepsIInv ==
  ASSUME IInv, NEW r \in Requests, SaveResult(r)
  PROVE  IInv'
  <1> DEFINE K == Keys("refer", {Content(r), Version(r)}) \cup {Key("result", r)}
  <1>1. pc[r] = "insert" /\ Waits(r) = {}
    BY DEF SaveResult, At
  <1>2. Verifies(r) /\ VerifyOK(r)
    BY <1>1 DEF IInv, RequestOK, DeleteOK, VerifySteps, Resting, Outcomes
  <1>3. CASE Content(r) \in contents /\ row[r] \in {r, version[Version(r)]}
    <2>1. Lock(r, K) /\ Go(r, "latest") /\ UNCHANGED <<tables, memory>>
      BY <1>3 DEF SaveResult
    <2>2. K \in SUBSET (Kinds \X Things)
      BY JobFacts DEF Kinds, Things, Key, Keys
    <2>3. /\ pc'[r] = "latest" /\ "latest" \in Steps
          /\ \A q \in Requests : pc[q] = "done" => pc'[q] = "done"
      BY <2>1, <1>1, GoFacts DEF Steps
    <2>4. /\ holds' \in [Requests -> SUBSET (Kinds \X Things)]
          /\ holds'[r] = holds[r] \cup K
          /\ \A q \in Requests \ {r} : holds'[q] = holds[q]
      BY <2>1, <2>2, LockFacts
    <2>5. K = {Key("refer", Content(r)), Key("refer", Version(r)), Key("result", r)}
      BY DEF Keys
    <2>6. VerifyOK(r)'
      <3>1. /\ VerifyKeys(r)' = VerifyKeys(r)
            /\ Content(r)' = Content(r) /\ Version(r)' = Version(r)
        BY <2>1 DEF VerifyKeys, Version, Content, memory
      <3>2. holds'[r] \subseteq VerifyKeys(r)'
        BY <1>2, <2>4, <2>5, <3>1 DEF VerifyOK, VerifyKeys
      <3>3. Saved(r)'
        BY <1>1, <1>2, <1>3, <2>1, <2>4, <2>5, <3>1 DEF Saved, VerifyOK, tables, memory
      <3> QED BY <1>2, <2>1, <2>3, <3>2, <3>3 DEF VerifyOK, VerifySteps, memory
    <2>7. Exclusive'
      <3>1. Needs(r) = {Key("gone", Content(r)), Key("gone", Version(r))}
        BY <1>1, Zenon DEF Needs
      <3>2. ASSUME NEW x \in Contents \cup Versions, NEW q \in Requests,
                   Key("refer", x) \in K
            PROVE  Key("gone", x) \notin holds[q] \cup K
        <4>1. x \in {Content(r), Version(r)}
          BY <2>5, <3>2 DEF Key
        <4>2. Key("gone", x) \notin K
          BY <2>5 DEF Key
        <4>3. Key("gone", x) \notin holds[r]
          BY <1>2 DEF VerifyOK, VerifyKeys, Key
        <4> QED BY <1>1, <3>1, <4>1, <4>2, <4>3, FreeFacts
      <3>3. \A x \in Contents \cup Versions : Key("gone", x) \notin K
        BY <2>5 DEF Key
      <3> HIDE DEF K
      <3> QED BY <2>1, <2>2, <3>2, <3>3, LockKeepsExclusive
    <2>8. RequestOK(r)'
      BY <1>2, <2>1, <2>6 DEF RequestOK, Verifies, memory
    <2> QED
      BY <1>1, <2>1, <2>3, <2>4, <2>7, <2>8, StepKeepsIInv DEF IInv, TypeOK, MemoryOK, memory
  <1>4. CASE ~(Content(r) \in contents /\ row[r] \in {r, version[Version(r)]})
    BY <1>1, <1>4, EndKeepsIInv DEF SaveResult
  <1> QED BY <1>3, <1>4

LEMMA UpdateLatestKeepsIInv ==
  ASSUME IInv, NEW r \in Requests, UpdateLatest(r)
  PROVE  IInv'
  <1> DEFINE K == {Key("latest", job[r].pair)}
  <1>1. pc[r] = "latest" /\ Lock(r, K) /\ Go(r, "commit") /\ UNCHANGED <<tables, memory>>
    BY DEF UpdateLatest, At
  <1>2. Verifies(r) /\ VerifyOK(r)
    BY <1>1 DEF IInv, RequestOK, DeleteOK, VerifySteps, Resting, Outcomes
  <1>3. K \in SUBSET (Kinds \X Things)
    BY JobFacts DEF Kinds, Things, Key
  <1>4. /\ pc'[r] = "commit" /\ "commit" \in Steps
        /\ \A q \in Requests : pc[q] = "done" => pc'[q] = "done"
    BY <1>1, GoFacts DEF Steps
  <1>5. /\ holds' \in [Requests -> SUBSET (Kinds \X Things)]
        /\ holds'[r] = holds[r] \cup K
        /\ \A q \in Requests \ {r} : holds'[q] = holds[q]
    BY <1>1, <1>3, LockFacts
  <1>6. VerifyOK(r)'
    <2>1. /\ VerifyKeys(r)' = VerifyKeys(r)
          /\ Content(r)' = Content(r) /\ Version(r)' = Version(r)
      BY <1>1 DEF VerifyKeys, Version, Content, memory
    <2>2. holds'[r] \subseteq VerifyKeys(r)'
      BY <1>2, <1>5, <2>1 DEF VerifyOK, VerifyKeys
    <2>3. Saved(r)'
      BY <1>1, <1>2, <1>5, <2>1 DEF Saved, VerifyOK, tables, memory
    <2> QED BY <1>1, <1>2, <1>4, <1>5, <2>2, <2>3 DEF VerifyOK, VerifySteps, memory
  <1>7. Exclusive'
    BY <1>1, <1>3, LockKeepsExclusive DEF Key
  <1>8. RequestOK(r)'
    BY <1>1, <1>2, <1>6 DEF RequestOK, Verifies, memory
  <1> QED
    BY <1>1, <1>4, <1>5, <1>7, <1>8, StepKeepsIInv DEF IInv, TypeOK, MemoryOK, memory

-----------------------------------------------------------------------------
(* Deleting *)

DeleteSteps == Steps \ (VerifySteps \ {"commit"})

LEMMA DeleteStepsFacts ==
  DeleteSteps = {"rows", "delete", "cascade", "contents", "orphans", "again", "delete_again",
                 "cascade_again", "parents", "remove", "commit"}
  BY DEF DeleteSteps, Steps, VerifySteps

\* A request at a step of a delete is one that deletes.
LEMMA Deletes ==
  ASSUME IInv, NEW r \in Requests, pc[r] \in DeleteSteps \ {"commit"}
  PROVE  ~Verifies(r) /\ DeleteOK(r)
  BY DeleteStepsFacts DEF IInv, RequestOK, VerifyOK, VerifySteps, Resting, Outcomes

\* Going on without locking anything, from a place at which the cascade is not due to one
\* at which nothing is chosen.
LEMMA DeleteGoesOn ==
  ASSUME IInv, NEW r \in Requests, ~Verifies(r), pc[r] \notin Cascading \cup {"done"},
         NEW step \in DeleteSteps, Go(r, step), UNCHANGED <<tables, job, holds>>,
         row' \in [Requests -> Ids \cup {NoRow}],
         chosen' \in [Requests -> SUBSET (Requests \cup VersionRows)],
         \A q \in Requests \ {r} : row'[q] = row[q] /\ chosen'[q] = chosen[q],
         step \in Deleting => \A i \in chosen'[r] \cap Requests : pc[i] = "done"
  PROVE  IInv'
  <1>1. /\ pc'[r] = step /\ step \in Steps
        /\ \A q \in Requests : pc[q] = "done" => pc'[q] = "done"
    BY GoFacts DEF DeleteSteps
  <1>2. DeleteOK(r)
    BY DEF IInv, RequestOK
  <1>3. Results(r)' = Results(r)
    BY DEF Results, Wrote, tables
  <1>4. DeleteOK(r)'
    <2>1. pc'[r] \in (Steps \ VerifySteps) \cup {"commit"} \cup Resting
      BY <1>1 DEF DeleteSteps
    <2>2. /\ \A k \in holds'[r] : k[1] \in {"result", "latest", "gone"}
          /\ \A i \in Requests : Key("result", i) \in holds'[r] => pc'[i] = "done"
      BY <1>1, <1>2 DEF DeleteOK
    <2>3. pc'[r] \in Deleting => \A i \in chosen'[r] \cap Requests : pc'[i] = "done"
      BY <1>1
    <2>4. \A p \in Pairs :
            (latest'[p] # NoRow /\ Key("result", latest'[p]) \in holds'[r]) =>
               Key("latest", p) \in holds'[r]
      BY <1>2 DEF DeleteOK, tables
    <2>5. \A x \in Contents \cup Versions :
            Key("gone", x) \in holds'[r] =>
               \A i \in Results(r)' : result'[i][1] # x /\ result'[i][2] # x
      BY <1>2, <1>3 DEF DeleteOK, tables
    <2> QED BY <2>1, <2>2, <2>3, <2>4, <2>5 DEF DeleteOK, Key
  <1>5. RequestOK(r)' /\ Exclusive'
    BY <1>4 DEF IInv, RequestOK, Verifies, Exclusive
  <1> QED BY <1>1, <1>5, StepKeepsIInv DEF IInv, MemoryOK

\* The choices that the DELETEs of results make.
LEMMA ResultsAreResults ==
  ASSUME IInv, NEW r \in Requests
  PROVE  Results(r) \subseteq Requests /\ \A i \in Results(r) : pc[i] = "done"
  BY DEF IInv, ResultsAreDone, Results

LEMMA ChooseKeepsIInv ==
  ASSUME IInv, NEW r \in Requests, NEW rows \in SUBSET (Requests \cup VersionRows),
         NEW step \in DeleteSteps \ {"commit"}, NEW next \in DeleteSteps,
         step \notin Cascading,
         next \in Deleting => \A i \in rows \cap Requests : pc[i] = "done",
         Choose(r, step, rows, next)
  PROVE  IInv'
  <1>1. /\ pc[r] = step /\ Go(r, next) /\ chosen' = [chosen EXCEPT ![r] = rows]
        /\ UNCHANGED <<tables, job, row, kept, holds>>
    BY DEF Choose, At
  <1>2. ~Verifies(r) /\ pc[r] # "done"
    BY <1>1, Deletes, DeleteStepsFacts
  <1>3. /\ chosen' \in [Requests -> SUBSET (Requests \cup VersionRows)]
        /\ chosen'[r] = rows /\ \A q \in Requests \ {r} : chosen'[q] = chosen[q]
    BY <1>1 DEF IInv, MemoryOK
  <1> QED BY <1>1, <1>2, <1>3, DeleteGoesOn DEF IInv, TypeOK

LEMMA ChooseResultsKeepsIInv ==
  ASSUME IInv, NEW r \in Requests, ChooseResults(r)
  PROVE  IInv'
  <1> DEFINE rows == IF job[r].op = "delete_version" THEN ResultsOf(r, DoomedVersions(r))
                     ELSE {i \in Results(r) : result[i][1] \in Between}
  <1>1. rows \subseteq Results(r)
    BY DEF ResultsOf
  <1>2. rows \in SUBSET (Requests \cup VersionRows) /\ \A i \in rows \cap Requests : pc[i] = "done"
    BY <1>1, ResultsAreResults
  <1>3. Choose(r, "rows", rows, "delete")
    BY DEF ChooseResults
  <1> HIDE DEF rows
  <1> QED BY <1>2, <1>3, ChooseKeepsIInv, DeleteStepsFacts DEF Cascading

LEMMA ChooseResultsAgainKeepsIInv ==
  ASSUME IInv, NEW r \in Requests, ChooseResultsAgain(r)
  PROVE  IInv'
  <1> DEFINE rows == ResultsOf(r, DoomedVersions(r))
  <1>1. rows \subseteq Results(r)
    BY DEF ResultsOf
  <1>2. rows \in SUBSET (Requests \cup VersionRows) /\ \A i \in rows \cap Requests : pc[i] = "done"
    BY <1>1, ResultsAreResults
  <1>3. Choose(r, "again", rows, "delete_again")
    BY DEF ChooseResultsAgain
  <1> HIDE DEF rows
  <1> QED BY <1>2, <1>3, ChooseKeepsIInv, DeleteStepsFacts DEF Cascading

LEMMA ChooseVersionsKeepsIInv ==
  ASSUME IInv, NEW r \in Requests, ChooseVersions(r)
  PROVE  IInv'
  <1> DEFINE rows == {VersionRow(v) : v \in DoomedVersions(r)}
  <1>1. rows \in SUBSET (Requests \cup VersionRows)
    <2>1. ASSUME NEW v \in DoomedVersions(r)
          PROVE  v \in Versions /\ version[v] \in Ids \cup {NoRow}
      BY DEF DoomedVersions, IInv, TypeOK
    <2> QED BY <2>1 DEF VersionRow, VersionRows
  <1>2. Choose(r, "parents", rows, "remove")
    BY DEF ChooseVersions
  <1> HIDE DEF rows
  <1> QED BY <1>1, <1>2, ChooseKeepsIInv, DeleteStepsFacts DEF Cascading, Deleting

LEMMA FindVersionsWithResultsKeepsIInv ==
  ASSUME IInv, NEW r \in Requests, FindVersionsWithResults(r)
  PROVE  IInv'
  <1>1. /\ pc[r] = "orphans" /\ Go(r, "again")
        /\ UNCHANGED <<tables, job, row, chosen, holds>>
    BY DEF FindVersionsWithResults, At
  <1>2. ~Verifies(r)
    BY <1>1, Deletes, DeleteStepsFacts
  <1> QED
    BY <1>1, <1>2, DeleteGoesOn, DeleteStepsFacts DEF IInv, TypeOK, MemoryOK, Cascading, Deleting

\* A request that has not begun ends without having done anything.
LEMMA NotBegunEnds ==
  ASSUME IInv, NEW r \in Requests, pc[r] = "idle", Go(r, "missing"),
         UNCHANGED <<tables, memory, holds>>
  PROVE  IInv'
  <1>1. holds[r] = {}
    BY DEF IInv, TypeOK
  <1>2. holds = [holds EXCEPT ![r] = {}]
    BY <1>1 DEF IInv, MemoryOK
  <1>3. End(r, "missing")
    BY <1>2 DEF End
  <1> QED BY <1>3, EndKeepsIInv

LEMMA BeginDeleteResultKeepsIInv ==
  ASSUME IInv, NEW r \in Requests, BeginDeleteResult(r)
  PROVE  IInv'
  <1>1. pc[r] = "idle" /\ ~Verifies(r) /\ UNCHANGED <<tables, job, row, kept, holds>>
    BY DEF BeginDeleteResult, Verifies
  <1>2. ASSUME NEW i \in Requests, result[i] = job[r].pair,
               chosen' = [chosen EXCEPT ![r] = {i}], Go(r, "delete")
        PROVE  IInv'
    <2>1. pc[i] = "done"
      BY <1>2, JobFacts, VerificationResultsAssumption DEF IInv, ResultsAreDone
    <2>2. /\ chosen' \in [Requests -> SUBSET (Requests \cup VersionRows)]
          /\ chosen'[r] = {i} /\ \A q \in Requests \ {r} : chosen'[q] = chosen[q]
      BY <1>2 DEF IInv, MemoryOK
    <2> QED
      BY <1>1, <1>2, <2>1, <2>2, DeleteGoesOn, DeleteStepsFacts DEF IInv, TypeOK, Cascading
  <1>3. CASE Go(r, "missing") /\ UNCHANGED chosen
    BY <1>1, <1>3, NotBegunEnds DEF memory
  <1> QED BY <1>2, <1>3 DEF BeginDeleteResult

LEMMA BeginDeleteVersionKeepsIInv ==
  ASSUME IInv, NEW r \in Requests, BeginDeleteVersion(r)
  PROVE  IInv'
  <1>1. /\ pc[r] = "idle" /\ ~Verifies(r) /\ UNCHANGED <<tables, job, chosen, kept, holds>>
        /\ row' = [row EXCEPT ![r] = version[Version(r)]]
    BY DEF BeginDeleteVersion, Verifies
  <1>2. version[Version(r)] \in Ids \cup {NoRow}
    BY JobFacts DEF IInv, TypeOK
  <1>3. /\ row' \in [Requests -> Ids \cup {NoRow}]
        /\ \A q \in Requests \ {r} : row'[q] = row[q]
        /\ row'[r] = version[Version(r)]
    BY <1>1, <1>2 DEF IInv, TypeOK
  <1>4. CASE Go(r, "rows")
    BY <1>1, <1>3, <1>4, DeleteGoesOn, DeleteStepsFacts DEF IInv, MemoryOK, Cascading, Deleting
  <1>5. CASE Go(r, "missing") /\ version[Version(r)] = NoRow
    <2>1. /\ pc' = [pc EXCEPT ![r] = "missing"] /\ holds[r] = {}
          /\ DeleteOK(r)
      BY <1>1, <1>5 DEF Go, IInv, TypeOK, RequestOK
    <2>2. Statement(r) /\ TypeOK' /\ MemoryOK'
      BY <1>1, <1>3, <1>5, <2>1 DEF Statement, IInv, TypeOK, MemoryOK, tables, Outcomes
    <2>3. pc'[r] = "missing" /\ holds'[r] = {}
      BY <1>1, <2>1 DEF IInv, TypeOK
    <2>4. RequestOK(r)' /\ Exclusive'
      BY <1>1, <2>3 DEF IInv, RequestOK, Verifies, DeleteOK, Resting, Outcomes, Deleting, Exclusive
    <2> QED BY <2>2, <2>4, StatementKeepsIInv
  <1> QED BY <1>4, <1>5 DEF BeginDeleteVersion

LEMMA BeginDeleteIntegrationKeepsIInv ==
  ASSUME IInv, NEW r \in Requests, BeginDeleteIntegration(r)
  PROVE  IInv'
  <1>1. /\ pc[r] = "idle" /\ ~Verifies(r) /\ Go(r, "rows")
        /\ UNCHANGED <<tables, memory, holds>>
    BY DEF BeginDeleteIntegration, Verifies
  <1> QED
    BY <1>1, DeleteGoesOn, DeleteStepsFacts
    DEF IInv, TypeOK, MemoryOK, memory, Cascading, Deleting

\* Locking rows: results that were committed, the latest rows of all that are deleted, and
\* what no remaining result refers to.
LEMMA DeleteLocks ==
  ASSUME IInv, NEW r \in Requests, pc[r] \in DeleteSteps \ {"commit"},
         NEW next \in DeleteSteps, Go(r, next), UNCHANGED <<tables, memory>>,
         NEW K \in SUBSET (Kinds \X Things), Lock(r, K),
         \A k \in K : k[1] \in {"result", "latest", "gone"},
         \A i \in Requests : Key("result", i) \in K => pc[i] = "done",
         next \in Deleting => pc[r] \in Deleting,
         \A p \in Pairs :
            (latest[p] # NoRow /\ Key("result", latest[p]) \in holds[r] \cup K) =>
               \/ Key("latest", p) \in holds[r] \cup K
               \/ next \in Cascading /\ latest[p] \in chosen[r],
         \A x \in Contents \cup Versions :
            Key("gone", x) \in K =>
               /\ \A i \in Results(r) : result[i][1] # x /\ result[i][2] # x
               /\ \A q \in Requests : Key("refer", x) \notin holds[q]
  PROVE  IInv'
  <1>1. /\ pc'[r] = next /\ next \in Steps /\ pc[r] # "done"
        /\ \A q \in Requests : pc[q] = "done" => pc'[q] = "done"
    BY GoFacts, DeleteStepsFacts DEF DeleteSteps
  <1>2. ~Verifies(r) /\ DeleteOK(r)
    BY Deletes
  <1>3. /\ holds' \in [Requests -> SUBSET (Kinds \X Things)]
        /\ holds'[r] = holds[r] \cup K
        /\ \A q \in Requests \ {r} : holds'[q] = holds[q]
    BY LockFacts
  <1>4. Results(r)' \subseteq Results(r)
    BY <1>3 DEF Results, Wrote, tables
  <1>5. DeleteOK(r)'
    <2>1. pc'[r] \in (Steps \ VerifySteps) \cup {"commit"} \cup Resting
      BY <1>1 DEF DeleteSteps
    <2>2. /\ \A k \in holds'[r] : k[1] \in {"result", "latest", "gone"}
          /\ \A i \in Requests : Key("result", i) \in holds'[r] => pc'[i] = "done"
      BY <1>1, <1>2, <1>3 DEF DeleteOK
    <2>3. pc'[r] \in Deleting => \A i \in chosen'[r] \cap Requests : pc'[i] = "done"
      BY <1>1, <1>2 DEF DeleteOK, memory
    <2>4. \A p \in Pairs :
            (latest'[p] # NoRow /\ Key("result", latest'[p]) \in holds'[r]) =>
               \/ Key("latest", p) \in holds'[r]
               \/ pc'[r] \in Cascading /\ latest'[p] \in chosen'[r]
      BY <1>1, <1>3 DEF tables, memory
    <2>5. \A x \in Contents \cup Versions :
            Key("gone", x) \in holds'[r] =>
               \A i \in Results(r)' : result'[i][1] # x /\ result'[i][2] # x
      BY <1>2, <1>3, <1>4 DEF DeleteOK, tables
    <2> QED BY <2>1, <2>2, <2>3, <2>4, <2>5 DEF DeleteOK, Key
  <1>6. Exclusive'
    <2>1. \A x \in Contents \cup Versions : Key("refer", x) \notin K
      BY DEF Key
    <2> QED BY <2>1, LockKeepsExclusive
  <1>7. RequestOK(r)'
    BY <1>2, <1>5 DEF RequestOK, Verifies, memory
  <1> QED
    BY <1>1, <1>3, <1>6, <1>7, StepKeepsIInv DEF IInv, TypeOK, MemoryOK, memory

LEMMA DeleteChosenKeepsIInv ==
  ASSUME IInv, NEW r \in Requests,
         NEW step \in {"delete", "delete_again"}, NEW next \in Cascading,
         DeleteChosen(r, step, next)
  PROVE  IInv'
  <1> DEFINE K == Keys("result", RemainingResults(r))
  <1>1. /\ pc[r] = step /\ Lock(r, K) /\ Go(r, next) /\ UNCHANGED <<tables, memory>>
    BY DEF DeleteChosen, At
  <1>2. /\ step \in DeleteSteps \ {"commit"} /\ step \in Deleting /\ step \notin Cascading
        /\ next \in DeleteSteps
    BY DeleteStepsFacts DEF Deleting, Cascading
  <1>3. ~Verifies(r) /\ DeleteOK(r)
    BY <1>1, <1>2, Deletes
  <1>4. \A i : Key("result", i) \in K <=> i \in RemainingResults(r)
    BY DEF Keys, Key
  <1>5. RemainingResults(r) \subseteq chosen[r] \cap Requests
    BY DEF RemainingResults
  <1>6. K \in SUBSET (Kinds \X Things) /\ \A k \in K : k[1] = "result"
    BY <1>5 DEF Keys, Key, Kinds, Things
  <1>7. \A i \in Requests : Key("result", i) \in K => pc[i] = "done"
    BY <1>1, <1>2, <1>3, <1>4, <1>5 DEF DeleteOK
  <1>8. ASSUME NEW p \in Pairs, latest[p] # NoRow, Key("result", latest[p]) \in holds[r] \cup K
        PROVE  \/ Key("latest", p) \in holds[r]
               \/ next \in Cascading /\ latest[p] \in chosen[r]
    <2> HIDE DEF K
    <2>1. CASE Key("result", latest[p]) \in holds[r]
      <3>1. Key("latest", p) \in holds[r] \/ pc[r] \in Cascading
        BY <1>3, <1>8, <2>1 DEF DeleteOK
      <3> QED BY <1>1, <1>2, <3>1
    <2>2. CASE Key("result", latest[p]) \in K
      BY <1>4, <1>5, <2>2
    <2> QED BY <1>8, <2>1, <2>2
  <1>9. \A x \in Contents \cup Versions : Key("gone", x) \notin K
    BY <1>6 DEF Key
  <1> HIDE DEF K
  <1> QED BY <1>1, <1>2, <1>6, <1>7, <1>8, <1>9, DeleteLocks

LEMMA CascadeKeepsIInv ==
  ASSUME IInv, NEW r \in Requests,
         NEW step \in Cascading, NEW next \in DeleteSteps \ Deleting,
         Cascade(r, step, next)
  PROVE  IInv'
  <1> DEFINE K == Keys("latest", LatestRows(r))
  <1>1. /\ pc[r] = step /\ Lock(r, K) /\ Go(r, next) /\ UNCHANGED <<tables, memory>>
    BY DEF Cascade, At
  <1>2. step \in DeleteSteps \ {"commit"}
    BY DeleteStepsFacts DEF Cascading
  <1>3. DeleteOK(r)
    BY <1>1, <1>2, Deletes
  <1>4. \A p : Key("latest", p) \in K <=> p \in LatestRows(r)
    BY DEF Keys, Key
  <1>5. K \in SUBSET (Kinds \X Things) /\ \A k \in K : k[1] = "latest"
    BY DEF LatestRows, Keys, Key, Kinds, Things
  <1>6. ASSUME NEW p \in Pairs, latest[p] # NoRow, Key("result", latest[p]) \in holds[r] \cup K
        PROVE  Key("latest", p) \in holds[r] \cup K
    <2>1. Key("result", latest[p]) \notin K
      BY <1>5 DEF Key
    <2>2. Key("latest", p) \in holds[r] \/ latest[p] \in chosen[r]
      BY <1>3, <1>6, <2>1 DEF DeleteOK
    <2> QED BY <1>4, <2>2 DEF LatestRows
  <1>7. \A x \in Contents \cup Versions : Key("gone", x) \notin K
    BY <1>5 DEF Key
  <1>8. \A i \in Requests : Key("result", i) \notin K
    BY <1>5 DEF Key
  <1> HIDE DEF K
  <1> QED BY <1>1, <1>2, <1>5, <1>6, <1>7, <1>8, DeleteLocks

LEMMA CascadeToLatestKeepsIInv ==
  ASSUME IInv, NEW r \in Requests, CascadeToLatest(r)
  PROVE  IInv'
  <1> DEFINE next == CASE job[r].op = "delete_result" -> "commit"
                       [] job[r].op = "delete_version" -> "again"
                       [] OTHER -> "contents"
  <1>1. next \in DeleteSteps \ Deleting
    BY DeleteStepsFacts DEF Deleting
  <1>2. Cascade(r, "cascade", next)
    BY DEF CascadeToLatest
  <1> HIDE DEF next
  <1> QED BY <1>1, <1>2, CascadeKeepsIInv DEF Cascading

\* A result that is there is about a pact version and a provider version.
LEMMA ResultFacts ==
  ASSUME IInv, NEW r \in Requests, NEW i \in Results(r)
  PROVE  result[i][1] \in Contents /\ result[i][2] \in Versions
  BY DEF IInv, TypeOK, Results, Pairs

LEMMA DeleteContentsKeepsIInv ==
  ASSUME IInv, NEW r \in Requests, DeleteContents(r)
  PROVE  IInv'
  <1> DEFINE K == Keys("gone", Between)
  <1>1. pc[r] = "contents" /\ Waits(r) = {}
    BY DEF DeleteContents, At
  <1>2. pc[r] \in DeleteSteps \ {"commit"} /\ pc[r] \notin Cascading \cup {"done"}
    BY <1>1, DeleteStepsFacts DEF Cascading
  <1>3. DeleteOK(r)
    BY <1>2, Deletes
  <1>4. CASE \E i \in Results(r) : result[i][1] \in Between
    BY <1>2, <1>4, EndKeepsIInv DEF DeleteContents
  <1>5. CASE ~\E i \in Results(r) : result[i][1] \in Between
    <2>1. Lock(r, K) /\ Go(r, "orphans") /\ UNCHANGED <<tables, memory>>
      BY <1>5 DEF DeleteContents
    <2>2. /\ "orphans" \in DeleteSteps \ Deleting
      BY DeleteStepsFacts DEF Deleting
    <2>3. \A x : Key("gone", x) \in K <=> x \in Between
      BY DEF Keys, Key
    <2>4. K \in SUBSET (Kinds \X Things) /\ \A k \in K : k[1] = "gone"
      BY VerificationResultsAssumption DEF Keys, Key, Kinds, Things
    <2>5. \A i \in Things : Key("result", i) \notin K
      BY <2>4 DEF Key
    <2>6. \A p \in Pairs :
            (latest[p] # NoRow /\ Key("result", latest[p]) \in holds[r] \cup K) =>
               Key("latest", p) \in holds[r]
      BY <1>2, <1>3, <2>5 DEF DeleteOK, IInv, TypeOK, Things
    <2>7. ASSUME NEW x \in Contents \cup Versions, Key("gone", x) \in K
          PROVE  /\ \A i \in Results(r) : result[i][1] # x /\ result[i][2] # x
                 /\ \A q \in Requests : Key("refer", x) \notin holds[q]
      <3>1. x \in Between /\ x \notin Versions
        BY <2>3, <2>7, VerificationResultsAssumption
      <3>2. Needs(r) = Keys("refer", Between) \cup Keys("gone", Between)
        BY <1>1, Zenon DEF Needs
      <3>3. Key("refer", x) \in Needs(r)
        BY <3>1, <3>2 DEF Keys
      <3>4. Key("refer", x) \notin holds[r]
        BY <1>3 DEF DeleteOK, Key
      <3> QED BY <1>1, <1>5, <3>1, <3>3, <3>4, FreeFacts, ResultFacts
    <2> HIDE DEF K
    <2> QED BY <1>2, <2>1, <2>2, <2>4, <2>5, <2>6, <2>7, DeleteLocks DEF Things
  <1> QED BY <1>4, <1>5

LEMMA DeleteVersionsKeepsIInv ==
  ASSUME IInv, NEW r \in Requests, DeleteVersions(r)
  PROVE  IInv'
  <1> DEFINE Gone == RemainingVersions(r)
             K == Keys("gone", Gone)
  <1>1. pc[r] = "remove" /\ Waits(r) = {}
    BY DEF DeleteVersions, At
  <1>2. pc[r] \in DeleteSteps \ {"commit"} /\ pc[r] \notin Cascading \cup {"done"}
    BY <1>1, DeleteStepsFacts DEF Cascading
  <1>3. DeleteOK(r)
    BY <1>2, Deletes
  <1>4. CASE ResultsOf(r, RemainingVersions(r)) # {}
    BY <1>2, <1>4, EndKeepsIInv DEF DeleteVersions
  <1>5. CASE ResultsOf(r, RemainingVersions(r)) = {}
    <2>1. Lock(r, K) /\ Go(r, "commit") /\ UNCHANGED <<tables, memory>>
      BY <1>5 DEF DeleteVersions
    <2>2. /\ "commit" \in DeleteSteps \ Deleting
      BY DeleteStepsFacts DEF Deleting
    <2>3. \A x : Key("gone", x) \in K <=> x \in Gone
      BY DEF Keys, Key
    <2>4. Gone \subseteq Versions
      BY DEF RemainingVersions
    <2>5. K \in SUBSET (Kinds \X Things) /\ \A k \in K : k[1] = "gone"
      BY <2>4 DEF Keys, Key, Kinds, Things
    <2>6. \A i \in Things : Key("result", i) \notin K
      BY <2>5 DEF Key
    <2>7. \A p \in Pairs :
            (latest[p] # NoRow /\ Key("result", latest[p]) \in holds[r] \cup K) =>
               Key("latest", p) \in holds[r]
      BY <1>2, <1>3, <2>6 DEF DeleteOK, IInv, TypeOK, Things
    <2>8. ASSUME NEW x \in Contents \cup Versions, Key("gone", x) \in K
          PROVE  /\ \A i \in Results(r) : result[i][1] # x /\ result[i][2] # x
                 /\ \A q \in Requests : Key("refer", x) \notin holds[q]
      <3>1. x \in Gone /\ x \notin Contents
        BY <2>3, <2>4, <2>8, VerificationResultsAssumption
      <3>2. Needs(r) = UNION {Keys(kind, RemainingVersions(r)) :
                                kind \in {"version", "refer", "gone"}}
        BY <1>1, Zenon DEF Needs
      <3>3. Key("refer", x) \in Needs(r)
        BY <3>1, <3>2 DEF Keys
      <3>4. Key("refer", x) \notin holds[r]
        BY <1>3 DEF DeleteOK, Key
      <3>5. \A i \in Results(r) : result[i][2] # x
        BY <1>5, <3>1 DEF ResultsOf
      <3> QED BY <1>1, <3>1, <3>3, <3>4, <3>5, FreeFacts, ResultFacts
    <2> HIDE DEF K
    <2> QED BY <1>2, <2>1, <2>2, <2>5, <2>6, <2>7, <2>8, DeleteLocks DEF Things
  <1> QED BY <1>4, <1>5

-----------------------------------------------------------------------------
(* The end of the transaction *)

\* What a commit of r does, the tables apart.
CommitEnds(r) ==
    /\ UNCHANGED <<job, row, chosen, kept>>
    /\ pc' \in [Requests -> Steps \cup Outcomes \cup {"idle"}]
    /\ holds' \in [Requests -> SUBSET (Kinds \X Things)]
    /\ pc'[r] = "done" /\ holds'[r] = {}
    /\ \A q \in Requests \ {r} : pc'[q] = pc[q] /\ holds'[q] = holds[q]
    /\ \A q \in Requests : pc[q] = "done" => pc'[q] = "done"

LEMMA CommitFacts ==
  ASSUME IInv, NEW r \in Requests, Commit(r)
  PROVE  /\ pc[r] = "commit" /\ CommitEnds(r)
         /\ contents' = {c \in contents : ~Wrote(r, "gone", c)}
         /\ version' = [v \in Versions |->
              IF Wrote(r, "gone", v) THEN NoRow
              ELSE IF Wrote(r, "version", v) THEN row[r] ELSE version[v]]
         /\ result' = [i \in Requests |->
              IF ~Wrote(r, "result", i) THEN result[i]
              ELSE IF i = r THEN job[r].pair ELSE NoRow]
         /\ latest' = [p \in Pairs |->
              IF ~Wrote(r, "latest", p) THEN latest[p] ELSE IF Verifies(r) THEN r ELSE NoRow]
         /\ last' = IF Verifies(r) THEN [last EXCEPT ![job[r].pair] = r] ELSE last
  <1>1. /\ pc[r] = "commit" /\ Go(r, "done") /\ UNCHANGED memory
        /\ holds' = [holds EXCEPT ![r] = {}]
    BY DEF Commit, At
  <1>2. CommitEnds(r)
    BY <1>1 DEF CommitEnds, Go, IInv, TypeOK, MemoryOK, memory, Outcomes
  <1> QED BY <1>1, <1>2 DEF Commit, Verifies

\* Locks that are released exclude nothing, and a request that is done knows nothing.
LEMMA CommitKeepsExclusive ==
  ASSUME IInv, NEW r \in Requests, CommitEnds(r)
  PROVE  Exclusive'
  BY DEF IInv, Exclusive, CommitEnds

LEMMA CommitKeepsTypes ==
  ASSUME IInv, NEW r \in Requests, Commit(r)
  PROVE  TypeOK' /\ MemoryOK'
  <1>1. job[r].pair \in Pairs /\ row[r] \in Ids \cup {NoRow}
    BY JobFacts DEF IInv, TypeOK
  <1>2. contents' \subseteq Contents /\ version' \in [Versions -> Ids \cup {NoRow}]
    <2>1. /\ contents' = {c \in contents : ~Wrote(r, "gone", c)}
          /\ version' = [v \in Versions |->
               IF Wrote(r, "gone", v) THEN NoRow
               ELSE IF Wrote(r, "version", v) THEN row[r] ELSE version[v]]
      BY CommitFacts
    <2>2. contents \subseteq Contents /\ version \in [Versions -> Ids \cup {NoRow}]
      BY DEF IInv, TypeOK
    <2> QED BY <1>1, <2>1, <2>2
  <1>3. result' \in [Requests -> Pairs \cup {NoRow}]
    <2>1. result' = [i \in Requests |->
               IF ~Wrote(r, "result", i) THEN result[i]
               ELSE IF i = r THEN job[r].pair ELSE NoRow]
      BY CommitFacts
    <2>2. result \in [Requests -> Pairs \cup {NoRow}]
      BY DEF IInv, TypeOK
    <2> QED BY <1>1, <2>1, <2>2
  <1>4. latest' \in [Pairs -> Requests \cup {NoRow}] /\ last' \in [Pairs -> Requests \cup {NoRow}]
    <2>1. /\ latest' = [p \in Pairs |->
               IF ~Wrote(r, "latest", p) THEN latest[p] ELSE IF Verifies(r) THEN r ELSE NoRow]
          /\ last' = IF Verifies(r) THEN [last EXCEPT ![job[r].pair] = r] ELSE last
      BY CommitFacts
    <2>2. latest \in [Pairs -> Requests \cup {NoRow}] /\ last \in [Pairs -> Requests \cup {NoRow}]
      BY DEF IInv, TypeOK
    <2> QED BY <1>1, <2>1, <2>2
  <1>5. TypeOK'
    BY <1>2, <1>3, <1>4, CommitFacts DEF IInv, TypeOK, CommitEnds
  <1>6. MemoryOK'
    BY CommitFacts DEF IInv, MemoryOK, CommitEnds
  <1> QED BY <1>5, <1>6

\* A result is committed: the latest row of its pair names it, and it is there with the
\* pact version and the provider version.
LEMMA ResultCommits ==
  ASSUME IInv, NEW r \in Requests, Commit(r), Verifies(r),
         NEW p0, NEW c0, NEW v0, p0 = job[r].pair, c0 = Content(r), v0 = Version(r)
  PROVE  /\ pc[r] = "commit" /\ CommitEnds(r)
         /\ p0 \in Pairs /\ p0 = <<c0, v0>> /\ c0 \in Contents /\ v0 \in Versions
         /\ VerifyOK(r) /\ Saved(r) /\ Key("latest", p0) \in holds[r]
         /\ contents' = contents
         /\ version' = [v \in Versions |->
               IF Key("version", v) \in holds[r] THEN row[r] ELSE version[v]]
         /\ \A v \in Versions : Key("version", v) \in holds[r] => v = v0
         /\ result'[r] = p0 /\ \A i \in Requests \ {r} : result'[i] = result[i]
         /\ latest'[p0] = r /\ \A p \in Pairs \ {p0} : latest'[p] = latest[p]
         /\ last'[p0] = r /\ \A p \in Pairs \ {p0} : last'[p] = last[p]
         /\ \A v \in Versions : version[v] # NoRow => version'[v] # NoRow
         /\ version'[v0] # NoRow
         /\ result[r] = NoRow /\ \A p \in Pairs : latest[p] # r
  <1>1. /\ pc[r] = "commit" /\ CommitEnds(r)
        /\ p0 \in Pairs /\ p0 = <<c0, v0>> /\ c0 \in Contents /\ v0 \in Versions
    BY CommitFacts, JobFacts
  <1>2. VerifyOK(r) /\ Saved(r) /\ Key("latest", p0) \in holds[r]
    BY <1>1 DEF IInv, RequestOK, VerifyOK
  <1>3. /\ \A x : ~Wrote(r, "gone", x)
        /\ \A i \in Requests : Wrote(r, "result", i) <=> i = r
        /\ \A p \in Pairs : Wrote(r, "latest", p) <=> p = p0
        /\ \A v \in Versions : Wrote(r, "version", v) => v = v0
    BY <1>2 DEF VerifyOK, VerifyKeys, Saved, Wrote, Key
  <1>4. /\ contents' = contents
        /\ version' = [v \in Versions |-> IF Wrote(r, "version", v) THEN row[r] ELSE version[v]]
    <2>1. contents' = {c \in contents : ~Wrote(r, "gone", c)}
      BY CommitFacts
    <2>2. version' = [v \in Versions |->
            IF Wrote(r, "gone", v) THEN NoRow
            ELSE IF Wrote(r, "version", v) THEN row[r] ELSE version[v]]
      BY CommitFacts
    <2> QED BY <1>3, <2>1, <2>2
  <1>5. /\ result'[r] = p0 /\ \A i \in Requests \ {r} : result'[i] = result[i]
        /\ latest'[p0] = r /\ \A p \in Pairs \ {p0} : latest'[p] = latest[p]
        /\ last'[p0] = r /\ \A p \in Pairs \ {p0} : last'[p] = last[p]
    <2>1. /\ result' = [i \in Requests |->
               IF ~Wrote(r, "result", i) THEN result[i]
               ELSE IF i = r THEN p0 ELSE NoRow]
          /\ latest' = [p \in Pairs |-> IF ~Wrote(r, "latest", p) THEN latest[p] ELSE r]
          /\ last' = [last EXCEPT ![p0] = r]
      BY CommitFacts
    <2>2. result'[r] = p0 /\ \A i \in Requests \ {r} : result'[i] = result[i]
      BY <1>3, <2>1
    <2>3. latest'[p0] = r /\ \A p \in Pairs \ {p0} : latest'[p] = latest[p]
      BY <1>1, <1>3, <2>1
    <2>4. last'[p0] = r /\ \A p \in Pairs \ {p0} : last'[p] = last[p]
      BY <1>1, <2>1 DEF IInv, TypeOK
    <2> QED BY <2>2, <2>3, <2>4
  <1>6. /\ \A v \in Versions : version[v] # NoRow => version'[v] # NoRow
        /\ version'[v0] # NoRow
    BY <1>1, <1>2, <1>4 DEF Saved, Wrote
  <1>7. result[r] = NoRow /\ \A p \in Pairs : latest[p] # r
    BY <1>1, VerificationResultsAssumption DEF IInv, ResultsAreDone, LatestNamesResult, Ids
  <1> QED BY <1>1, <1>2, <1>3, <1>4, <1>5, <1>6, <1>7 DEF Wrote

LEMMA CommitOfResult ==
  ASSUME IInv, NEW r \in Requests, Commit(r), Verifies(r)
  PROVE  IInv'
  <1> PICK p0, c0, v0 : p0 = job[r].pair /\ c0 = Content(r) /\ v0 = Version(r)
    OBVIOUS
  <1>1. /\ pc[r] = "commit" /\ CommitEnds(r)
        /\ p0 \in Pairs /\ p0 = <<c0, v0>> /\ c0 \in Contents /\ v0 \in Versions
    BY ResultCommits
  <1>2. VerifyOK(r) /\ Saved(r) /\ Key("latest", p0) \in holds[r]
    BY ResultCommits
  <1>4. /\ contents' = contents
        /\ version' = [v \in Versions |-> IF Wrote(r, "version", v) THEN row[r] ELSE version[v]]
    BY ResultCommits DEF Wrote
  <1>5. /\ result'[r] = p0 /\ \A i \in Requests \ {r} : result'[i] = result[i]
        /\ latest'[p0] = r /\ \A p \in Pairs \ {p0} : latest'[p] = latest[p]
        /\ last'[p0] = r /\ \A p \in Pairs \ {p0} : last'[p] = last[p]
    BY ResultCommits
  <1>6. /\ \A v \in Versions : version[v] # NoRow => version'[v] # NoRow
        /\ version'[v0] # NoRow
    BY ResultCommits
  <1>7. result[r] = NoRow /\ \A p \in Pairs : latest[p] # r
    BY ResultCommits
  <1>8. LatestNamesResult'
    <2>1. p0[1] \in contents' /\ p0[2] = v0
      BY <1>1, <1>2, <1>4 DEF Saved
    <2>2. result'[latest'[p0]] = p0 /\ version'[p0[2]] # NoRow
      BY <1>5, <1>6, <2>1
    <2>3. ASSUME NEW p \in Pairs \ {p0}, latest'[p] # NoRow
          PROVE  result'[latest'[p]] = p /\ p[1] \in contents' /\ version'[p[2]] # NoRow
      <3>1. latest'[p] = latest[p] /\ latest[p] \in Requests \ {r}
        BY <1>5, <1>7, <2>3 DEF IInv, TypeOK
      <3>2. result[latest[p]] = p /\ p[1] \in contents /\ version[p[2]] # NoRow
        BY <2>3, <3>1 DEF IInv, LatestNamesResult
      <3> QED BY <1>4, <1>5, <1>6, <3>1, <3>2 DEF Pairs
    <2> QED BY <2>1, <2>2, <2>3 DEF LatestNamesResult
  <1>9. LatestIsLast'
    BY <1>1, <1>5 DEF IInv, LatestIsLast
  <1>10. ResultsAreDone' /\ CreatorsAreDone'
    <2>1. ResultsAreDone'
      BY <1>1, <1>5 DEF IInv, ResultsAreDone, CommitEnds
    <2>2. row[r] \in Requests => pc'[row[r]] = "done"
      BY <1>1, <1>2 DEF VerifyOK, CommitEnds
    <2>3. CreatorsAreDone'
      BY <1>1, <1>4, <2>2 DEF IInv, CreatorsAreDone, CommitEnds
    <2> QED BY <2>1, <2>3
  <1>11. RequestOK(r)'
    BY <1>1, <1>2
    DEF CommitEnds, RequestOK, Verifies, VerifyOK, Resting, Outcomes
  <1>12. ASSUME NEW q \in Requests \ {r} PROVE RequestOK(q)'
    <2>1. CASE Verifies(q)
      <3>1. VerifyOK(q)
        BY <2>1 DEF IInv, RequestOK
      <3>2. VerifyKeys(q)' = VerifyKeys(q) /\ Content(q)' = Content(q) /\ Version(q)' = Version(q)
        BY <1>1 DEF VerifyKeys, Content, Version, CommitEnds
      <3>3. Saved(q) => Saved(q)'
        BY <1>1, <1>4, <1>6, <3>2, JobFacts DEF Saved, CommitEnds
      <3>4. VerifyOK(q)'
        BY <1>1, <3>1, <3>2, <3>3 DEF VerifyOK, CommitEnds
      <3> QED BY <1>1, <2>1, <3>4 DEF RequestOK, Verifies, CommitEnds
    <2>2. CASE ~Verifies(q)
      <3>1. DeleteOK(q)
        BY <2>2 DEF IInv, RequestOK
      <3>2. Key("result", r) \notin holds[q]
        BY <1>1, <3>1 DEF DeleteOK
      <3>3. ASSUME NEW x \in Contents \cup Versions, Key("gone", x) \in holds[q],
                   NEW i \in Results(q)'
            PROVE  result'[i][1] # x /\ result'[i][2] # x
        <4>1. CASE i = r
          BY <1>1, <1>2, <1>5, <3>3, <4>1 DEF IInv, Exclusive, Saved
        <4>2. CASE i # r
          BY <1>1, <1>5, <3>1, <3>3, <4>2 DEF DeleteOK, Results, Wrote, CommitEnds
        <4> QED BY <4>1, <4>2
      <3>4. ASSUME NEW p \in Pairs, latest'[p] # NoRow, Key("result", latest'[p]) \in holds[q]
            PROVE  \/ Key("latest", p) \in holds[q]
                   \/ pc[q] \in Cascading /\ latest'[p] \in chosen[q]
        BY <1>5, <3>1, <3>2, <3>4 DEF DeleteOK
      <3>5. DeleteOK(q)'
        BY <1>1, <3>1, <3>3, <3>4 DEF DeleteOK, CommitEnds
      <3> QED BY <1>1, <2>2, <3>5 DEF RequestOK, Verifies, CommitEnds
    <2> QED BY <2>1, <2>2
  <1> QED
    BY <1>1, <1>8, <1>9, <1>10, <1>11, <1>12, CommitKeepsTypes, CommitKeepsExclusive DEF IInv

\* A delete is committed: the latest rows of the results that are gone are gone with them,
\* and so is nothing that a remaining result refers to.
LEMMA DeleteCommits ==
  ASSUME IInv, NEW r \in Requests, Commit(r), ~Verifies(r)
  PROVE  /\ pc[r] = "commit" /\ CommitEnds(r) /\ DeleteOK(r) /\ ~Wrote(r, "result", r)
         /\ contents' = {c \in contents : ~Wrote(r, "gone", c)}
         /\ version' = [v \in Versions |-> IF Wrote(r, "gone", v) THEN NoRow ELSE version[v]]
         /\ result' = [i \in Requests |-> IF Wrote(r, "result", i) THEN NoRow ELSE result[i]]
         /\ latest' = [p \in Pairs |-> IF Wrote(r, "latest", p) THEN NoRow ELSE latest[p]]
         /\ last' = last
  <1>1. pc[r] = "commit" /\ CommitEnds(r) /\ DeleteOK(r)
    BY CommitFacts DEF IInv, RequestOK
  <1>2. /\ \A x : ~Wrote(r, "version", x)
        /\ ~Wrote(r, "result", r)
    BY <1>1 DEF DeleteOK, Wrote, Key
  <1>3. /\ contents' = {c \in contents : ~Wrote(r, "gone", c)}
        /\ version' = [v \in Versions |-> IF Wrote(r, "gone", v) THEN NoRow ELSE version[v]]
        /\ result' = [i \in Requests |-> IF Wrote(r, "result", i) THEN NoRow ELSE result[i]]
        /\ latest' = [p \in Pairs |-> IF Wrote(r, "latest", p) THEN NoRow ELSE latest[p]]
        /\ last' = last
    BY <1>2, CommitFacts
  <1> QED BY <1>1, <1>2, <1>3

LEMMA CommitOfDelete ==
  ASSUME IInv, NEW r \in Requests, Commit(r), ~Verifies(r)
  PROVE  IInv'
  <1>1. pc[r] = "commit" /\ CommitEnds(r) /\ DeleteOK(r)
    BY DeleteCommits
  <1>3. /\ contents' = {c \in contents : ~Wrote(r, "gone", c)}
        /\ version' = [v \in Versions |-> IF Wrote(r, "gone", v) THEN NoRow ELSE version[v]]
        /\ result' = [i \in Requests |-> IF Wrote(r, "result", i) THEN NoRow ELSE result[i]]
        /\ latest' = [p \in Pairs |-> IF Wrote(r, "latest", p) THEN NoRow ELSE latest[p]]
        /\ last' = last
    BY DeleteCommits
  <1>4. ASSUME NEW p \in Pairs, latest'[p] # NoRow
        PROVE  /\ latest'[p] = latest[p] /\ latest[p] \in Requests
               /\ ~Wrote(r, "result", latest[p])
    BY <1>1, <1>3, <1>4 DEF DeleteOK, Wrote, Cascading, IInv, TypeOK
  <1>5. LatestNamesResult'
    <2>1. ASSUME NEW p \in Pairs, latest'[p] # NoRow
          PROVE  result'[latest'[p]] = p /\ p[1] \in contents' /\ version'[p[2]] # NoRow
      <3> DEFINE i == latest[p]
      <3>1. /\ latest'[p] = i /\ i \in Requests /\ i # NoRow /\ ~Wrote(r, "result", i)
        BY <1>4, <2>1
      <3>2. result[i] = p /\ p[1] \in contents /\ version[p[2]] # NoRow
        BY <3>1 DEF IInv, LatestNamesResult
      <3>3. i \in Results(r)
        BY <3>1, <3>2, VerificationResultsAssumption DEF Results
      <3>4. p[1] \in Contents /\ p[2] \in Versions
        BY DEF Pairs
      <3>5. ~Wrote(r, "gone", p[1]) /\ ~Wrote(r, "gone", p[2])
        BY <1>1, <3>2, <3>3, <3>4 DEF DeleteOK, Wrote
      <3> QED BY <1>3, <3>1, <3>2, <3>4, <3>5
    <2> QED BY <2>1 DEF LatestNamesResult
  <1>6. LatestIsLast'
    BY <1>3, <1>4 DEF IInv, LatestIsLast
  <1>7. ResultsAreDone' /\ CreatorsAreDone'
    BY <1>1, <1>3, VerificationResultsAssumption
    DEF IInv, ResultsAreDone, CreatorsAreDone, CommitEnds, Ids
  <1>8. RequestOK(r)'
    BY <1>1 DEF CommitEnds, RequestOK, Verifies, DeleteOK, Resting, Outcomes, Deleting
  <1>9. ASSUME NEW q \in Requests \ {r} PROVE RequestOK(q)'
    <2>1. CASE Verifies(q)
      <3>1. VerifyOK(q)
        BY <2>1 DEF IInv, RequestOK
      <3>2. VerifyKeys(q)' = VerifyKeys(q) /\ Content(q)' = Content(q) /\ Version(q)' = Version(q)
        BY <1>1 DEF VerifyKeys, Content, Version, CommitEnds
      <3>3. Saved(q) => ~Wrote(r, "gone", Content(q)) /\ ~Wrote(r, "gone", Version(q))
        BY JobFacts DEF IInv, Exclusive, Saved, Wrote
      <3>4. Saved(q) => Saved(q)'
        BY <1>1, <1>3, <3>2, <3>3, JobFacts DEF Saved, CommitEnds
      <3>5. VerifyOK(q)'
        BY <1>1, <3>1, <3>2, <3>4 DEF VerifyOK, CommitEnds
      <3> QED BY <1>1, <2>1, <3>5 DEF RequestOK, Verifies, CommitEnds
    <2>2. CASE ~Verifies(q)
      <3>1. DeleteOK(q)
        BY <2>2 DEF IInv, RequestOK
      <3>2. /\ Results(q)' \subseteq Results(q)
            /\ \A i \in Results(q)' : result'[i] = result[i]
        BY <1>1, <1>3 DEF Results, Wrote, CommitEnds
      <3>3. DeleteOK(q)'
        BY <1>1, <1>4, <3>1, <3>2 DEF DeleteOK, CommitEnds
      <3> QED BY <1>1, <2>2, <3>3 DEF RequestOK, Verifies, CommitEnds
    <2> QED BY <2>1, <2>2
  <1> QED
    BY <1>1, <1>5, <1>6, <1>7, <1>8, <1>9, CommitKeepsTypes, CommitKeepsExclusive DEF IInv

-----------------------------------------------------------------------------
(* The theorems *)

LEMMA IInvNext == IInv /\ [Next]_vars => IInv'
  <1> SUFFICES ASSUME IInv, [Next]_vars PROVE IInv'
    OBVIOUS
  <1>1. CASE UNCHANGED vars
    <2>1. /\ UNCHANGED <<contents, version, result, latest, last, job, row, chosen, kept>>
          /\ UNCHANGED <<pc, holds>>
      BY <1>1 DEF vars, tables, memory
    <2>2. TypeOK' /\ MemoryOK' /\ Exclusive' /\ ResultsAreDone' /\ CreatorsAreDone'
      BY <2>1 DEF IInv, TypeOK, MemoryOK, Exclusive, ResultsAreDone, CreatorsAreDone
    <2>3. LatestNamesResult' /\ LatestIsLast'
      BY <2>1 DEF IInv, LatestNamesResult, LatestIsLast
    <2>4. ASSUME NEW r \in Requests PROVE RequestOK(r)'
      BY <2>1
      DEF IInv, RequestOK, Verifies, VerifyOK, VerifyKeys, Saved, Content, Version,
          DeleteOK, Results, Wrote
    <2> QED BY <2>2, <2>3, <2>4 DEF IInv
  <1>2. ASSUME NEW r \in Requests, Begin(r) PROVE IInv'
    BY <1>2, BeginVerifyKeepsIInv, BeginDeleteResultKeepsIInv, BeginDeleteVersionKeepsIInv,
       BeginDeleteIntegrationKeepsIInv DEF Begin
  <1>3. ASSUME NEW r \in Requests, Step(r) PROVE IInv'
    <2>1. CASE FindPact(r)
      BY <2>1, FindPactKeepsIInv
    <2>2. CASE FindVersion(r)
      BY <2>2, FindVersionKeepsIInv
    <2>3. CASE UpsertVersion(r)
      BY <2>3, UpsertVersionKeepsIInv
    <2>4. CASE SaveResult(r)
      BY <2>4, SaveResultKeepsIInv
    <2>5. CASE UpdateLatest(r)
      BY <2>5, UpdateLatestKeepsIInv
    <2>6. CASE ChooseResults(r)
      BY <2>6, ChooseResultsKeepsIInv
    <2>7. CASE DeleteResults(r)
      BY <2>7, DeleteChosenKeepsIInv DEF DeleteResults, Cascading
    <2>8. CASE CascadeToLatest(r)
      BY <2>8, CascadeToLatestKeepsIInv
    <2>9. CASE DeleteContents(r)
      BY <2>9, DeleteContentsKeepsIInv
    <2>10. CASE FindVersionsWithResults(r)
      BY <2>10, FindVersionsWithResultsKeepsIInv
    <2>11. CASE ChooseResultsAgain(r)
      BY <2>11, ChooseResultsAgainKeepsIInv
    <2>12. CASE DeleteResultsAgain(r)
      BY <2>12, DeleteChosenKeepsIInv DEF DeleteResultsAgain, Cascading
    <2>13. CASE CascadeAgain(r)
      BY <2>13, CascadeKeepsIInv, DeleteStepsFacts DEF CascadeAgain, Cascading, Deleting
    <2>14. CASE ChooseVersions(r)
      BY <2>14, ChooseVersionsKeepsIInv
    <2>15. CASE DeleteVersions(r)
      BY <2>15, DeleteVersionsKeepsIInv
    <2>16. CASE Commit(r)
      BY <2>16, CommitOfResult, CommitOfDelete
    <2>17. CASE DeadlockVictim(r)
      <3>1. pc[r] # "done"
        BY <2>17, Zenon DEF DeadlockVictim, Waits, Needs
      <3> QED BY <2>17, <3>1, EndKeepsIInv DEF DeadlockVictim
    <2> QED
      BY <1>3, <2>1, <2>2, <2>3, <2>4, <2>5, <2>6, <2>7, <2>8, <2>9, <2>10, <2>11, <2>12,
         <2>13, <2>14, <2>15, <2>16, <2>17 DEF Step, Proceed
  <1> QED BY <1>1, <1>2, <1>3 DEF Next

LEMMA IInvHolds == Spec => []IInv
  <1> QED BY IInvInit, IInvNext, PTL DEF Spec

\* Rows refer to rows of the right kind, and a transaction that has ended, committed or
\* rolled back, holds nothing.
THEOREM TypeCorrect == Spec => []TypeOK
  <1>1. IInv => TypeOK
    BY DEF IInv
  <1> QED BY <1>1, IInvHolds, PTL

\* However results arrive while results, versions and integrations are deleted, a latest
\* row names a result of its pact and its version, and both are there; and of however many
\* results that arrive together, it names the one that was committed last.
THEOREM LatestIsAlwaysTrue == Spec => []LatestIsTrue
  <1>1. IInv => LatestIsTrue
    BY DEF IInv, LatestIsTrue
  <1> QED BY <1>1, IInvHolds, PTL

-----------------------------------------------------------------------------
(* VerificationResults implements ResultService *)

\* All locks but references exclude each other, and a version is not deleted while
\* another request creates it.
Sole ==
    \A r, q \in Requests :
        r # q =>
          /\ \A k \in holds[r] : k \in holds[q] => k[1] = "refer"
          /\ \A v \in Versions : Key("version", v) \in holds[r] => Key("gone", v) \notin holds[q]

\* A result that is there has its pact version and its provider version.
Parents ==
    \A i \in Requests :
        result[i] # NoRow => result[i][1] \in contents /\ version[result[i][2]] # NoRow

Is(r, op) == job[r].op = op
Orphaned(r, v) == VersionRow(v) \notin kept[r]
Sorted == {"again", "delete_again", "cascade_again", "parents", "remove", "commit"}
SecondRound == Sorted \ {"again"}

\* The results that r may take with it: the one that it is about, those of its version,
\* those of the integration and, at last, those of the versions it found to be orphans.
Meant(r, i) ==
    \/ Is(r, "delete_result") /\ result[i] = job[r].pair
    \/ /\ Is(r, "delete_version")
       /\ result[i][2] = Version(r) /\ version[Version(r)] = row[r]
    \/ /\ Is(r, "delete_integration")
       /\ result[i][1] \in Between \/ (pc[r] \in SecondRound /\ Orphaned(r, result[i][2]))

Drops(r, i) == Key("result", i) \in holds[r]

\* What a delete holds: results that are meant, with the latest rows that name them, and,
\* when it commits, the versions of those that it takes with their version.
Held(r) ==
    /\ \A i \in Requests : Drops(r, i) => result[i] # NoRow /\ Meant(r, i)
    /\ \A p \in Pairs : Key("latest", p) \in holds[r] => latest[p] # NoRow /\ Drops(r, latest[p])
    /\ \A c \in Contents :
         Key("gone", c) \in holds[r] => c \in Between /\ Is(r, "delete_integration")
    /\ \A v \in Versions :
         Key("gone", v) \in holds[r] =>
            /\ pc[r] = "commit" /\ version[v] # NoRow /\ ~Is(r, "delete_result")
            /\ Is(r, "delete_version") => v = Version(r)
            /\ Is(r, "delete_integration") => Orphaned(r, v)

\* What a delete has chosen: results that are meant, which it holds when it cascades; then
\* the versions to go with those of them that go with their version.
Entails(r, i) == Is(r, "delete_version") \/ result[i][1] \notin Between
Chosen(r) ==
    /\ pc[r] \in Deleting =>
         chosen[r] \subseteq Requests /\ \A i \in chosen[r] : result[i] # NoRow => Meant(r, i)
    /\ pc[r] \in Cascading => \A i \in chosen[r] : result[i] # NoRow => Drops(r, i)
    /\ pc[r] = "remove" =>
         \A x \in chosen[r] :
            /\ Is(r, "delete_version") => x = <<Version(r), row[r]>>
            /\ Is(r, "delete_integration") => x \notin kept[r]
    /\ ~Is(r, "delete_result") =>
         \A i \in Requests :
            Drops(r, i) /\ Entails(r, i) =>
               /\ pc[r] = "remove" => VersionRow(result[i][2]) \in chosen[r]
               /\ pc[r] = "commit" => Key("gone", result[i][2]) \in holds[r]

\* The delete of the integration removes its pact versions, and a result of another one
\* that was there when it began keeps its version.
Integration(r) ==
    Is(r, "delete_integration") =>
      /\ pc[r] \in {"orphans"} \cup Sorted =>
           \A c \in Between : Key("gone", c) \in holds[r]
      /\ pc[r] \in Sorted =>
           \A i \in Requests :
              result[i] # NoRow /\ result[i][1] \notin Between /\ i \notin overtaken[r] =>
                 ~Orphaned(r, result[i][2])

\* A request that nothing has overtaken finds what it has found before: the pact and the
\* version of a result that has come; the result, or all results, that it deletes; and a
\* version has been kept by the delete of the integration if and only if another
\* integration has a result for it.
SeesPact(r) ==
    /\ Content(r) \in contents
    /\ pc[r] = "insert" => row[r] \in {r, version[Version(r)]}
SeesResult(r) ==
    /\ pc[r] = "delete" => \E i \in chosen[r] : result[i] = job[r].pair
    /\ pc[r] \in {"cascade", "commit"} => \E i \in Requests : Drops(r, i)
SeesVersion(r) ==
    /\ version[Version(r)] = row[r] /\ row[r] # NoRow
    /\ pc[r] \notin {"rows", "commit"} =>
         \A i \in Results(r) :
            result[i][2] = Version(r) => pc[r] \in Deleting /\ i \in chosen[r]
    /\ pc[r] = "remove" => VersionRow(Version(r)) \in chosen[r]
    /\ pc[r] = "commit" => Key("gone", Version(r)) \in holds[r]
ForeignResult(v) ==
    \E i \in Requests : result[i] # NoRow /\ result[i][1] \notin Between /\ result[i][2] = v
SeesIntegration(r) ==
    /\ pc[r] \in {"delete", "cascade", "contents"} =>
         \A i \in Results(r) : result[i][1] \in Between => pc[r] = "delete" /\ i \in chosen[r]
    /\ pc[r] \in Sorted =>
         \A v \in Versions : version[v] # NoRow =>
            /\ ~Orphaned(r, v) => ForeignResult(v)
            /\ Orphaned(r, v) /\ pc[r] = "remove" => VersionRow(v) \in chosen[r]
            /\ Orphaned(r, v) /\ pc[r] = "commit" => Key("gone", v) \in holds[r]
Undisturbed(r) ==
    /\ Is(r, "verify") => SeesPact(r)
    /\ Is(r, "delete_result") => SeesResult(r)
    /\ Is(r, "delete_version") => SeesVersion(r)
    /\ Is(r, "delete_integration") => SeesIntegration(r)

\* A version that r creates is not there before, or is the one that r has found.
Creates(r) ==
    Key("version", Version(r)) \in holds[r] =>
       /\ pc[r] \in {"insert", "latest", "commit"}
       /\ \/ version[Version(r)] = NoRow /\ row[r] = r
          \/ version[Version(r)] = row[r]

\* The statements of each kind of delete.
OnItsWay(r) ==
    /\ Is(r, "delete_result") => pc[r] \in {"delete", "cascade", "commit"}
    /\ Is(r, "delete_version") => pc[r] \notin {"contents", "orphans"}

Serves(r) ==
    /\ IF Verifies(r) THEN Creates(r) ELSE OnItsWay(r) /\ Held(r) /\ Chosen(r) /\ Integration(r)
    /\ overtaken[r] = {} => Undisturbed(r)

SInv ==
    /\ IInv /\ Sole /\ Parents
    /\ overtaken \in [Requests -> SUBSET Requests]
    /\ kept \in [Requests -> SUBSET VersionRows]
    /\ \A r \in Requests : pc[r] = "idle" => overtaken[r] = {}
    /\ \A r \in Requests : Open(r) => Serves(r)

LEMMA SInvInit == Init => SInv
  <1> SUFFICES ASSUME Init PROVE SInv
    OBVIOUS
  <1>1. IInv
    BY IInvInit
  <1>2. Sole /\ Parents
    BY DEF Init, Sole, Parents
  <1>3. overtaken \in [Requests -> SUBSET Requests] /\ kept \in [Requests -> SUBSET VersionRows]
    BY DEF Init
  <1>4. \A r \in Requests : overtaken[r] = {} /\ ~Open(r)
    BY DEF Init, Open, Steps
  <1> QED BY <1>1, <1>2, <1>3, <1>4 DEF SInv

\* A step of r that shows nothing to the others.
Silent(r) ==
    /\ UNCHANGED <<contents, version, result, latest, job, overtaken>>
    /\ \A q \in Requests \ {r} :
         /\ pc'[q] = pc[q] /\ row'[q] = row[q] /\ chosen'[q] = chosen[q]
         /\ kept'[q] = kept[q] /\ holds'[q] = holds[q]

\* What the others know stays true.
LEMMA SilenceKeepsOthers ==
  ASSUME NEW r \in Requests, Silent(r), NEW q \in Requests \ {r}, Open(q)', Open(q) => Serves(q)
  PROVE  Serves(q)'
  <1>1. /\ UNCHANGED <<contents, version, result, latest, job, overtaken>>
        /\ pc'[q] = pc[q] /\ row'[q] = row[q] /\ chosen'[q] = chosen[q]
        /\ kept'[q] = kept[q] /\ holds'[q] = holds[q]
    BY DEF Silent
  <1>2. Open(q) /\ Serves(q)
    BY <1>1 DEF Open
  <1>3. /\ \A op : Is(q, op)' <=> Is(q, op)
        /\ \A v : VersionRow(v)' = VersionRow(v) /\ (Orphaned(q, v)' <=> Orphaned(q, v))
        /\ \A i : Drops(q, i)' <=> Drops(q, i)
        /\ Version(q)' = Version(q) /\ Content(q)' = Content(q)
        /\ Verifies(q)' <=> Verifies(q)
    BY <1>1 DEF Is, VersionRow, Orphaned, Drops, Version, Content, Verifies
  <1>4. Results(q)' = Results(q)
    BY <1>1 DEF Results, Wrote
  <1>5. \A i : (Meant(q, i)' <=> Meant(q, i)) /\ (Entails(q, i)' <=> Entails(q, i))
    BY <1>1, <1>3 DEF Meant, Entails
  <1>6. CASE Verifies(q)
    BY <1>1, <1>2, <1>3, <1>4, <1>6 DEF Serves, Creates, Undisturbed, SeesPact, Is, Verifies
  <1>7. CASE ~Verifies(q)
    <2>1. OnItsWay(q)'
      BY <1>1, <1>2, <1>3, <1>7 DEF Serves, OnItsWay
    <2>2. Held(q)'
      BY <1>1, <1>2, <1>3, <1>5, <1>7 DEF Serves, Held
    <2>3. Chosen(q)'
      BY <1>1, <1>2, <1>3, <1>5, <1>7 DEF Serves, Chosen
    <2>4. Integration(q)'
      BY <1>1, <1>2, <1>3, <1>7 DEF Serves, Integration
    <2>5. overtaken[q] = {} => Undisturbed(q)'
      <3>1. SUFFICES ASSUME overtaken[q] = {} PROVE Undisturbed(q)'
        OBVIOUS
      <3>2. Undisturbed(q)
        BY <1>2, <3>1 DEF Serves
      <3>3. (SeesResult(q)' <=> SeesResult(q)) /\ (SeesPact(q)' <=> SeesPact(q))
        BY <1>1, <1>3 DEF SeesResult, SeesPact
      <3>4. SeesVersion(q)' <=> SeesVersion(q)
        BY <1>1, <1>3, <1>4 DEF SeesVersion
      <3>5. SeesIntegration(q)' <=> SeesIntegration(q)
        BY <1>1, <1>3, <1>4 DEF SeesIntegration, ForeignResult
      <3> QED BY <1>3, <3>2, <3>3, <3>4, <3>5 DEF Undisturbed
    <2> QED BY <1>1, <1>3, <1>7, <2>1, <2>2, <2>3, <2>4, <2>5 DEF Serves
  <1> QED BY <1>6, <1>7

LEMMA SilenceKeepsSInv ==
  ASSUME SInv, NEW r \in Requests, Silent(r), IInv', Sole',
         kept' \in [Requests -> SUBSET VersionRows],
         pc'[r] # "idle", Open(r)' => Serves(r)'
  PROVE  SInv'
  <1>1. UNCHANGED <<contents, version, result, latest, job, overtaken>>
    BY DEF Silent
  <1>2. Parents'
    BY <1>1 DEF SInv, Parents
  <1>3. \A q \in Requests : pc'[q] = "idle" => overtaken'[q] = {}
    BY <1>1 DEF SInv, Silent
  <1>4. ASSUME NEW q \in Requests, Open(q)' PROVE Serves(q)'
    BY <1>4, SilenceKeepsOthers DEF SInv
  <1> QED BY <1>1, <1>2, <1>3, <1>4 DEF SInv

\* Locking keeps the locks exclusive if nobody else holds what is needed.
LEMMA LockKeepsSole ==
  ASSUME SInv, NEW r \in Requests, NEW K \in SUBSET (Kinds \X Things), Lock(r, K),
         \A q \in Requests \ {r} :
            /\ \A k \in K : k \in holds[q] => k[1] = "refer"
            /\ \A v \in Versions :
                 /\ Key("version", v) \in K => Key("gone", v) \notin holds[q]
                 /\ Key("gone", v) \in K => Key("version", v) \notin holds[q]
  PROVE  Sole'
  <1>1. IInv /\ Sole
    BY DEF SInv
  <1>2. holds'[r] = holds[r] \cup K /\ \A q \in Requests \ {r} : holds'[q] = holds[q]
    BY <1>1, LockFacts
  <1> QED BY <1>1, <1>2 DEF Sole

LEMMA SameLocksKeepSole ==
  ASSUME SInv, NEW r \in Requests, holds' = holds \/ holds' = [holds EXCEPT ![r] = {}]
  PROVE  Sole'
  BY DEF SInv, IInv, MemoryOK, Sole

\* An open request, and what is known of it.
LEMMA OpenFacts ==
  ASSUME SInv, NEW r \in Requests, pc[r] \in Steps
  PROVE  /\ IInv /\ Serves(r) /\ RequestOK(r) /\ Open(r)
         /\ Verifies(r) => VerifyOK(r) /\ Creates(r)
         /\ ~Verifies(r) => DeleteOK(r) /\ OnItsWay(r) /\ Held(r) /\ Chosen(r) /\ Integration(r)
         /\ overtaken[r] = {} => Undisturbed(r)
  BY DEF SInv, Open, Serves, IInv, RequestOK

LEMMA KindFacts ==
  ASSUME SInv, NEW r \in Requests
  PROVE  /\ Verifies(r) <=> Is(r, "verify")
         /\ \/ Is(r, "verify") \/ Is(r, "delete_result") \/ Is(r, "delete_version")
            \/ Is(r, "delete_integration")
  <1>1. job[r].op \in Operations
    BY JobFacts DEF SInv
  <1> QED BY <1>1 DEF Verifies, Is, Operations

-----------------------------------------------------------------------------
(* Statements show nothing, and keep what the request knows *)

\* A statement of r that goes on, or gives up.
LEMMA GoesOnSilently ==
  ASSUME SInv, NEW r \in Requests, NEW step \in Steps \cup Outcomes, Go(r, step),
         UNCHANGED <<tables, job, overtaken>>,
         \A q \in Requests \ {r} :
            /\ row'[q] = row[q] /\ chosen'[q] = chosen[q]
            /\ kept'[q] = kept[q] /\ holds'[q] = holds[q]
  PROVE  /\ Silent(r) /\ pc'[r] = step /\ pc'[r] # "idle"
         /\ Open(r)' <=> step \in Steps
  <1>1. IInv
    BY DEF SInv
  <1>2. pc'[r] = step /\ \A q \in Requests \ {r} : pc'[q] = pc[q]
    BY <1>1, GoFacts
  <1> QED BY <1>2 DEF Silent, tables, Open, Steps, Outcomes

LEMMA GivingUpServes ==
  ASSUME SInv, NEW r \in Requests, NEW outcome \in {"missing", "error"}, End(r, outcome),
         UNCHANGED overtaken, IInv'
  PROVE  SInv'
  <1>1. /\ Go(r, outcome) /\ holds' = [holds EXCEPT ![r] = {}]
        /\ UNCHANGED <<tables, job, row, chosen, kept>>
    BY DEF End, memory
  <1>2. \A q \in Requests \ {r} : holds'[q] = holds[q]
    BY <1>1 DEF SInv, IInv, MemoryOK
  <1>3. outcome \in Outcomes /\ outcome \notin Steps
    BY DEF Outcomes, Steps
  <1>4. Silent(r) /\ pc'[r] # "idle" /\ ~Open(r)'
    BY <1>1, <1>2, <1>3, GoesOnSilently
  <1>5. Sole'
    BY <1>1, SameLocksKeepSole
  <1> QED BY <1>1, <1>4, <1>5, SilenceKeepsSInv DEF SInv

LEMMA VerifyingServes ==
  ASSUME SInv, NEW r \in Requests, Verifies(r), UNCHANGED <<job, overtaken>>,
         Creates(r)', overtaken[r] = {} => SeesPact(r)'
  PROVE  Serves(r)'
  <1>1. Is(r, "verify")' /\ Verifies(r)'
    BY KindFacts DEF Is, Verifies
  <1>2. ~Is(r, "delete_result")' /\ ~Is(r, "delete_version")' /\ ~Is(r, "delete_integration")'
    BY <1>1 DEF Is
  <1> QED BY <1>1, <1>2 DEF Serves, Undisturbed

LEMMA BeginVerifyServes ==
  ASSUME SInv, NEW r \in Requests, BeginVerify(r), UNCHANGED overtaken, IInv'
  PROVE  SInv'
  <1>1. /\ pc[r] = "idle" /\ Verifies(r) /\ UNCHANGED <<tables, job, row, chosen, kept, holds>>
        /\ holds[r] = {}
    BY DEF BeginVerify, Verifies, memory, SInv, IInv, TypeOK
  <1>2. Sole'
    BY <1>1, SameLocksKeepSole
  <1>3. CASE Content(r) \in contents /\ Go(r, "pact")
    <2>1. Silent(r) /\ pc'[r] = "pact" /\ pc'[r] # "idle"
      BY <1>1, <1>3, GoesOnSilently DEF Steps
    <2>2. Creates(r)' /\ SeesPact(r)'
      BY <1>1, <1>3, <2>1 DEF Creates, SeesPact, Content, tables
    <2>3. Serves(r)'
      BY <1>1, <2>2, VerifyingServes
    <2> QED BY <1>1, <1>2, <2>1, <2>3, SilenceKeepsSInv DEF SInv
  <1>4. CASE Go(r, "missing")
    <2>1. Silent(r) /\ pc'[r] # "idle" /\ ~Open(r)'
      BY <1>1, <1>4, GoesOnSilently DEF Steps, Outcomes
    <2> QED BY <1>1, <1>2, <2>1, SilenceKeepsSInv DEF SInv
  <1> QED BY <1>3, <1>4 DEF BeginVerify

\* The version that r creates, and what it sees of the pact, at its statements.
LEMMA VerifyFacts ==
  ASSUME SInv, NEW r \in Requests, pc[r] \in VerifySteps \ {"commit"}
  PROVE  /\ Verifies(r) /\ VerifyOK(r) /\ Creates(r)
         /\ overtaken[r] = {} => SeesPact(r)
  <1>1. pc[r] \in Steps /\ IInv
    BY DEF VerifySteps, Steps, SInv
  <1>2. Verifies(r)
    BY <1>1 DEF IInv, RequestOK, DeleteOK, VerifySteps, Resting, Outcomes
  <1> QED BY <1>1, <1>2, OpenFacts, KindFacts DEF Undisturbed

LEMMA FindPactServes ==
  ASSUME SInv, NEW r \in Requests, FindPact(r), UNCHANGED overtaken, IInv'
  PROVE  SInv'
  <1>1. pc[r] = "pact" /\ Verifies(r) /\ Creates(r) /\ (overtaken[r] = {} => SeesPact(r))
    BY VerifyFacts DEF FindPact, At, VerifySteps
  <1>2. CASE Content(r) \in contents
    <2>1. Go(r, "version") /\ UNCHANGED <<tables, job, row, chosen, kept, holds>>
      BY <1>2 DEF FindPact, memory
    <2>2. Silent(r) /\ pc'[r] = "version" /\ pc'[r] # "idle"
      BY <2>1, GoesOnSilently DEF Steps
    <2>3. Creates(r)' /\ SeesPact(r)'
      BY <1>1, <1>2, <2>1, <2>2 DEF Creates, SeesPact, Content, Version, tables
    <2> QED
      BY <1>1, <2>1, <2>2, <2>3, VerifyingServes, SameLocksKeepSole, SilenceKeepsSInv DEF SInv
  <1>3. CASE Content(r) \notin contents
    BY <1>3, GivingUpServes DEF FindPact
  <1> QED BY <1>2, <1>3

LEMMA FindVersionServes ==
  ASSUME SInv, NEW r \in Requests, FindVersion(r), UNCHANGED overtaken, IInv'
  PROVE  SInv'
  <1>1. pc[r] = "version" /\ Verifies(r) /\ Creates(r) /\ (overtaken[r] = {} => SeesPact(r))
    BY VerifyFacts DEF FindVersion, At, VerifySteps
  <1>2. /\ row' = [row EXCEPT ![r] = version[Version(r)]]
        /\ UNCHANGED <<tables, job, chosen, kept, holds>>
    BY DEF FindVersion
  <1>3. PICK step \in {"create", "insert"} : Go(r, step)
    BY DEF FindVersion
  <1>4. row'[r] = version[Version(r)] /\ \A q \in Requests \ {r} : row'[q] = row[q]
    BY <1>2 DEF SInv, IInv, TypeOK
  <1>5. Silent(r) /\ pc'[r] = step /\ pc'[r] # "idle"
    BY <1>2, <1>3, <1>4, GoesOnSilently DEF Steps
  <1>6. Creates(r)'
    BY <1>1, <1>2, <1>5 DEF Creates, Version
  <1>7. overtaken[r] = {} => SeesPact(r)'
    BY <1>1, <1>2, <1>4 DEF SeesPact, Content, Version, tables
  <1> QED
    BY <1>1, <1>2, <1>5, <1>6, <1>7, VerifyingServes, SameLocksKeepSole, SilenceKeepsSInv DEF SInv

LEMMA UpsertVersionServes ==
  ASSUME SInv, NEW r \in Requests, UpsertVersion(r), UNCHANGED overtaken, IInv'
  PROVE  SInv'
  <1>1. /\ pc[r] = "create" /\ Waits(r) = {}
        /\ Verifies(r) /\ Creates(r) /\ (overtaken[r] = {} => SeesPact(r))
    BY VerifyFacts DEF UpsertVersion, At, VerifySteps
  <1> PICK K, new :
        /\ K = {Key("version", Version(r))}
        /\ new = IF version[Version(r)] = NoRow THEN r ELSE version[Version(r)]
    OBVIOUS
  <1>2. /\ Lock(r, K) /\ Go(r, "insert") /\ row' = [row EXCEPT ![r] = new]
        /\ UNCHANGED <<tables, job, chosen, kept>>
    BY DEF UpsertVersion
  <1>3. row'[r] = new /\ \A q \in Requests \ {r} : row'[q] = row[q]
    BY <1>2 DEF SInv, IInv, TypeOK
  <1>4. K \in SUBSET (Kinds \X Things) /\ Version(r) \in Versions
    BY JobFacts DEF Kinds, Things, Key, SInv
  <1>5. /\ holds'[r] = holds[r] \cup K /\ \A q \in Requests \ {r} : holds'[q] = holds[q]
    BY <1>2, <1>4, LockFacts DEF SInv
  <1>6. Silent(r) /\ pc'[r] = "insert" /\ pc'[r] # "idle"
    BY <1>2, <1>3, <1>5, GoesOnSilently DEF Steps
  <1>7. Sole'
    <2>1. Needs(r) = {Key("version", Version(r)), Key("gone", Version(r))}
      BY <1>1, Zenon DEF Needs
    <2>2. \A q \in Requests \ {r} :
            Key("version", Version(r)) \notin holds[q] /\ Key("gone", Version(r)) \notin holds[q]
      BY <1>1, <2>1, FreeFacts
    <2>3. \A v : Key("gone", v) \notin K /\ (Key("version", v) \in K => v = Version(r))
      BY DEF Key
    <2> QED BY <1>2, <1>4, <2>2, <2>3, LockKeepsSole
  <1>8. Creates(r)'
    BY <1>2, <1>3, <1>6 DEF Creates, Version, tables
  <1>9. overtaken[r] = {} => SeesPact(r)'
    BY <1>1, <1>2, <1>3 DEF SeesPact, Content, Version, tables
  <1> QED
    BY <1>1, <1>2, <1>6, <1>7, <1>8, <1>9, VerifyingServes, SilenceKeepsSInv DEF SInv

LEMMA SaveResultServes ==
  ASSUME SInv, NEW r \in Requests, SaveResult(r), UNCHANGED overtaken, IInv'
  PROVE  SInv'
  <1>1. /\ pc[r] = "insert" /\ Waits(r) = {}
        /\ Verifies(r) /\ Creates(r) /\ (overtaken[r] = {} => SeesPact(r))
    BY VerifyFacts DEF SaveResult, At, VerifySteps
  <1>2. CASE Content(r) \in contents /\ row[r] \in {r, version[Version(r)]}
    <2> PICK K :
          K = {Key("refer", Content(r)), Key("refer", Version(r)), Key("result", r)}
      OBVIOUS
    <2>1. Lock(r, K) /\ Go(r, "latest") /\ UNCHANGED <<tables, job, row, chosen, kept>>
      BY <1>2 DEF SaveResult, memory, Keys
    <2>2. K \in SUBSET (Kinds \X Things)
      BY JobFacts DEF Kinds, Things, Key, SInv
    <2>3. holds'[r] = holds[r] \cup K /\ \A q \in Requests \ {r} : holds'[q] = holds[q]
      BY <2>1, <2>2, LockFacts DEF SInv
    <2>4. Silent(r) /\ pc'[r] = "latest" /\ pc'[r] # "idle"
      BY <2>1, <2>3, GoesOnSilently DEF Steps
    <2>5. Sole'
      <3>1. \A q \in Requests \ {r} : Key("result", r) \notin holds[q]
        <4>1. ASSUME NEW q \in Requests \ {r} PROVE Key("result", r) \notin holds[q]
          <5>1. CASE Verifies(q)
            BY <4>1, <5>1 DEF SInv, IInv, RequestOK, VerifyOK, VerifyKeys, Key
          <5>2. CASE ~Verifies(q)
            BY <1>1, <4>1, <5>2 DEF SInv, IInv, RequestOK, DeleteOK
          <5> QED BY <5>1, <5>2
        <4> QED BY <4>1
      <3>2. \A k \in K : k[1] = "refer" \/ k = Key("result", r)
        BY DEF Key
      <3>3. \A v : Key("gone", v) \notin K /\ Key("version", v) \notin K
        BY DEF Key
      <3> QED BY <2>1, <2>2, <3>1, <3>2, <3>3, LockKeepsSole
    <2>6. Creates(r)'
      BY <1>1, <2>1, <2>3, <2>4 DEF Creates, Version, tables, Key
    <2>7. overtaken[r] = {} => SeesPact(r)'
      BY <1>1, <2>1, <2>4 DEF SeesPact, Content, tables
    <2> QED
      BY <1>1, <2>1, <2>4, <2>5, <2>6, <2>7, VerifyingServes, SilenceKeepsSInv DEF SInv
  <1>3. CASE ~(Content(r) \in contents /\ row[r] \in {r, version[Version(r)]})
    BY <1>3, GivingUpServes DEF SaveResult
  <1> QED BY <1>2, <1>3

LEMMA UpdateLatestServes ==
  ASSUME SInv, NEW r \in Requests, UpdateLatest(r), UNCHANGED overtaken, IInv'
  PROVE  SInv'
  <1>1. /\ pc[r] = "latest" /\ Waits(r) = {}
        /\ Verifies(r) /\ Creates(r) /\ (overtaken[r] = {} => SeesPact(r))
    BY VerifyFacts DEF UpdateLatest, At, VerifySteps
  <1> PICK K : K = {Key("latest", job[r].pair)}
    OBVIOUS
  <1>2. Lock(r, K) /\ Go(r, "commit") /\ UNCHANGED <<tables, job, row, chosen, kept>>
    BY DEF UpdateLatest, memory
  <1>3. K \in SUBSET (Kinds \X Things)
    BY JobFacts DEF Kinds, Things, Key, SInv
  <1>4. holds'[r] = holds[r] \cup K /\ \A q \in Requests \ {r} : holds'[q] = holds[q]
    BY <1>2, <1>3, LockFacts DEF SInv
  <1>5. Silent(r) /\ pc'[r] = "commit" /\ pc'[r] # "idle"
    BY <1>2, <1>4, GoesOnSilently DEF Steps
  <1>6. Sole'
    <2>1. Needs(r) = {Key("latest", job[r].pair)}
      BY <1>1, Zenon DEF Needs
    <2>2. \A q \in Requests \ {r} : Key("latest", job[r].pair) \notin holds[q]
      BY <1>1, <2>1, FreeFacts
    <2>3. \A v : Key("gone", v) \notin K /\ Key("version", v) \notin K
      BY DEF Key
    <2> QED BY <1>2, <1>3, <2>2, <2>3, LockKeepsSole
  <1>7. Creates(r)'
    BY <1>1, <1>2, <1>4, <1>5 DEF Creates, Version, tables, Key
  <1>8. overtaken[r] = {} => SeesPact(r)'
    BY <1>1, <1>2, <1>5 DEF SeesPact, Content, tables
  <1> QED
    BY <1>1, <1>2, <1>5, <1>6, <1>7, <1>8, VerifyingServes, SilenceKeepsSInv DEF SInv

LEMMA DeletingServes ==
  ASSUME SInv, NEW r \in Requests, ~Verifies(r), UNCHANGED <<job, overtaken>>,
         OnItsWay(r)', Held(r)', Chosen(r)', Integration(r)',
         overtaken[r] = {} =>
            /\ Is(r, "delete_result") => SeesResult(r)'
            /\ Is(r, "delete_version") => SeesVersion(r)'
            /\ Is(r, "delete_integration") => SeesIntegration(r)'
  PROVE  Serves(r)'
  <1>1. ~Verifies(r)' /\ ~Is(r, "verify")' /\ \A op : Is(r, op)' <=> Is(r, op)
    BY KindFacts DEF Is, Verifies
  <1> QED BY <1>1 DEF Serves, Undisturbed

\* What is known of a delete at its statements.
LEMMA DeleteFacts ==
  ASSUME SInv, NEW r \in Requests, pc[r] \in DeleteSteps \ {"commit"}
  PROVE  /\ ~Verifies(r) /\ ~Is(r, "verify") /\ DeleteOK(r)
         /\ OnItsWay(r) /\ Held(r) /\ Chosen(r) /\ Integration(r)
         /\ overtaken[r] = {} =>
               /\ Is(r, "delete_result") => SeesResult(r)
               /\ Is(r, "delete_version") => SeesVersion(r)
               /\ Is(r, "delete_integration") => SeesIntegration(r)
         /\ \A x \in Versions : Key("gone", x) \notin holds[r]
  <1>1. pc[r] \in Steps /\ pc[r] # "commit" /\ IInv
    BY DEF DeleteSteps, SInv
  <1>2. ~Verifies(r)
    BY <1>1, Deletes
  <1>3. /\ ~Is(r, "verify") /\ DeleteOK(r)
        /\ OnItsWay(r) /\ Held(r) /\ Chosen(r) /\ Integration(r)
        /\ overtaken[r] = {} => Undisturbed(r)
    BY <1>1, <1>2, OpenFacts, KindFacts
  <1> QED BY <1>1, <1>2, <1>3 DEF Undisturbed, Held

\* What was meant still is.
LEMMA MeantGoesOn ==
  ASSUME NEW r \in Requests, UNCHANGED <<version, result, job, row>>,
         pc[r] \in SecondRound => pc'[r] \in SecondRound /\ kept'[r] = kept[r],
         NEW i, Meant(r, i)
  PROVE  Meant(r, i)'
  BY DEF Meant, Is, Version, Orphaned, VersionRow

\* What a delete holds after a statement that has locked K.
LEMMA HeldGoesOn ==
  ASSUME SInv, NEW r \in Requests, pc[r] \in DeleteSteps \ {"commit"},
         UNCHANGED <<tables, job, row>>,
         pc[r] \in SecondRound => pc'[r] \in SecondRound /\ kept'[r] = kept[r],
         NEW K, holds'[r] = holds[r] \cup K,
         \A i \in Requests :
            Key("result", i) \in K => i \in RemainingResults(r) /\ pc[r] \in Deleting,
         \A p \in Pairs : Key("latest", p) \in K => p \in LatestRows(r) /\ pc[r] \in Cascading,
         \A c \in Contents :
            Key("gone", c) \in K => c \in Between /\ Is(r, "delete_integration"),
         \A v \in Versions :
            Key("gone", v) \in K =>
               /\ pc'[r] = "commit" /\ version[v] # NoRow /\ ~Is(r, "delete_result")
               /\ Is(r, "delete_version") => v = Version(r)
               /\ Is(r, "delete_integration") => Orphaned(r, v)'
  PROVE  Held(r)'
  <1>1. Held(r) /\ Chosen(r) /\ \A x \in Versions : Key("gone", x) \notin holds[r]
    BY DeleteFacts
  <1>2. UNCHANGED <<contents, version, result, latest>> /\ Version(r)' = Version(r)
        /\ \A op : Is(r, op)' <=> Is(r, op)
    BY DEF tables, Version, Is
  <1>3. ASSUME NEW i \in Requests, Drops(r, i)' PROVE result'[i] # NoRow /\ Meant(r, i)'
    <2>1. CASE Key("result", i) \in holds[r]
      BY <1>1, <1>2, <2>1, MeantGoesOn DEF Held, Drops
    <2>2. CASE Key("result", i) \in K
      <3>1. i \in chosen[r] /\ result[i] # NoRow /\ pc[r] \in Deleting
        BY <2>2 DEF RemainingResults
      <3> QED BY <1>1, <1>2, <3>1, MeantGoesOn DEF Chosen
    <2> QED BY <1>3, <2>1, <2>2 DEF Drops
  <1>4. ASSUME NEW p \in Pairs, Key("latest", p) \in holds'[r]
        PROVE  latest'[p] # NoRow /\ Key("result", latest'[p]) \in holds'[r]
    <2>1. CASE Key("latest", p) \in holds[r]
      BY <1>1, <1>2, <2>1 DEF Held, Drops
    <2>2. CASE Key("latest", p) \in K
      <3>1. latest[p] \in chosen[r] /\ pc[r] \in Cascading /\ pc[r] \in Deleting
        BY <2>2 DEF LatestRows, Cascading, Deleting
      <3>2. latest[p] \in Requests /\ latest[p] # NoRow
        BY <1>1, <3>1, VerificationResultsAssumption DEF Chosen, Ids
      <3>3. result[latest[p]] = p
        BY <3>2 DEF SInv, IInv, LatestNamesResult
      <3>4. Drops(r, latest[p])
        BY <1>1, <3>1, <3>3, VerificationResultsAssumption DEF Chosen
      <3> QED BY <1>2, <3>2, <3>4 DEF Drops
    <2> QED BY <1>4, <2>1, <2>2
  <1>5. \A c \in Contents :
           Key("gone", c) \in holds'[r] => c \in Between /\ Is(r, "delete_integration")'
    BY <1>1, <1>2 DEF Held
  <1>6. \A v \in Versions : Key("gone", v) \in holds'[r] =>
            /\ pc'[r] = "commit" /\ version'[v] # NoRow /\ ~Is(r, "delete_result")'
            /\ Is(r, "delete_version")' => v = Version(r)'
            /\ Is(r, "delete_integration")' => Orphaned(r, v)'
    BY <1>1, <1>2
  <1> QED BY <1>3, <1>4, <1>5, <1>6 DEF Held, Drops

-----------------------------------------------------------------------------
(* A delete begins *)

LEMMA FirstStatementHolds ==
  ASSUME SInv, NEW r \in Requests, pc[r] = "idle", UNCHANGED holds, pc'[r] \in {"delete", "rows"}
  PROVE  /\ holds[r] = {} /\ Held(r)' /\ Integration(r)' /\ Sole'
         /\ \A i : ~Drops(r, i)'
  <1>1. holds[r] = {} /\ holds'[r] = {}
    BY DEF SInv, IInv, TypeOK
  <1>2. Integration(r)'
    BY DEF Integration, Sorted
  <1> QED BY <1>1, <1>2, SameLocksKeepSole DEF Held, Drops

LEMMA BeginDeleteResultServes ==
  ASSUME SInv, NEW r \in Requests, BeginDeleteResult(r), UNCHANGED overtaken, IInv'
  PROVE  SInv'
  <1>1. /\ pc[r] = "idle" /\ Is(r, "delete_result") /\ UNCHANGED <<tables, job, row, kept, holds>>
        /\ ~Is(r, "delete_version") /\ ~Is(r, "delete_integration") /\ ~Verifies(r)
    BY DEF BeginDeleteResult, Is, Verifies
  <1>2. ASSUME NEW i \in Requests, result[i] = job[r].pair,
               chosen' = [chosen EXCEPT ![r] = {i}], Go(r, "delete")
        PROVE  SInv'
    <2>1. chosen'[r] = {i} /\ \A q \in Requests \ {r} : chosen'[q] = chosen[q]
      BY <1>2 DEF SInv, IInv, MemoryOK
    <2>2. Silent(r) /\ pc'[r] = "delete" /\ pc'[r] # "idle"
      BY <1>1, <1>2, <2>1, GoesOnSilently DEF Steps
    <2>3. Held(r)' /\ Integration(r)' /\ Sole' /\ \A j : ~Drops(r, j)'
      BY <1>1, <2>2, FirstStatementHolds
    <2>4. OnItsWay(r)'
      BY <1>1, <2>2 DEF OnItsWay, Is
    <2>5. Chosen(r)'
      <3>1. Meant(r, i)'
        BY <1>1, <1>2 DEF Meant, Is, tables
      <3> QED BY <2>1, <2>2, <2>3, <3>1 DEF Chosen, Cascading
    <2>6. SeesResult(r)'
      BY <1>1, <1>2, <2>1, <2>2 DEF SeesResult, tables
    <2>7. Serves(r)'
      BY <1>1, <2>3, <2>4, <2>5, <2>6, DeletingServes
    <2> QED BY <1>1, <2>2, <2>3, <2>7, SilenceKeepsSInv DEF SInv
  <1>3. CASE Go(r, "missing") /\ UNCHANGED chosen
    <2>1. Silent(r) /\ pc'[r] # "idle" /\ ~Open(r)'
      BY <1>1, <1>3, GoesOnSilently DEF Steps, Outcomes
    <2> QED BY <1>1, <2>1, SameLocksKeepSole, SilenceKeepsSInv DEF SInv
  <1> QED BY <1>2, <1>3 DEF BeginDeleteResult

LEMMA BeginDeleteVersionServes ==
  ASSUME SInv, NEW r \in Requests, BeginDeleteVersion(r), UNCHANGED overtaken, IInv'
  PROVE  SInv'
  <1>1. /\ pc[r] = "idle" /\ Is(r, "delete_version")
        /\ UNCHANGED <<tables, job, chosen, kept, holds>>
        /\ row' = [row EXCEPT ![r] = version[Version(r)]]
        /\ ~Is(r, "delete_result") /\ ~Is(r, "delete_integration") /\ ~Verifies(r)
    BY DEF BeginDeleteVersion, Is, Verifies
  <1>2. row'[r] = version[Version(r)] /\ \A q \in Requests \ {r} : row'[q] = row[q]
    BY <1>1 DEF SInv, IInv, TypeOK
  <1>3. CASE version[Version(r)] # NoRow /\ Go(r, "rows")
    <2>1. Silent(r) /\ pc'[r] = "rows" /\ pc'[r] # "idle"
      BY <1>1, <1>2, <1>3, GoesOnSilently DEF Steps
    <2>2. Held(r)' /\ Integration(r)' /\ Sole' /\ \A j : ~Drops(r, j)'
      BY <1>1, <2>1, FirstStatementHolds
    <2>3. OnItsWay(r)'
      BY <1>1, <2>1 DEF OnItsWay, Is
    <2>4. Chosen(r)'
      BY <2>1, <2>2 DEF Chosen, Cascading, Deleting
    <2>5. SeesVersion(r)'
      BY <1>1, <1>2, <1>3, <2>1 DEF SeesVersion, tables, Version
    <2>6. Serves(r)'
      BY <1>1, <2>2, <2>3, <2>4, <2>5, DeletingServes
    <2> QED BY <1>1, <2>1, <2>2, <2>6, SilenceKeepsSInv DEF SInv
  <1>4. CASE Go(r, "missing")
    <2>1. Silent(r) /\ pc'[r] # "idle" /\ ~Open(r)'
      BY <1>1, <1>2, <1>4, GoesOnSilently DEF Steps, Outcomes
    <2> QED BY <1>1, <2>1, SameLocksKeepSole, SilenceKeepsSInv DEF SInv
  <1> QED BY <1>3, <1>4 DEF BeginDeleteVersion

LEMMA BeginDeleteIntegrationServes ==
  ASSUME SInv, NEW r \in Requests, BeginDeleteIntegration(r), UNCHANGED overtaken, IInv'
  PROVE  SInv'
  <1>1. /\ pc[r] = "idle" /\ Is(r, "delete_integration") /\ Go(r, "rows")
        /\ UNCHANGED <<tables, job, row, chosen, kept, holds>>
        /\ ~Is(r, "delete_result") /\ ~Is(r, "delete_version") /\ ~Verifies(r)
    BY DEF BeginDeleteIntegration, Is, Verifies, memory
  <1>2. Silent(r) /\ pc'[r] = "rows" /\ pc'[r] # "idle"
    BY <1>1, GoesOnSilently DEF Steps
  <1>3. Held(r)' /\ Integration(r)' /\ Sole' /\ \A j : ~Drops(r, j)'
    BY <1>1, <1>2, FirstStatementHolds
  <1>4. OnItsWay(r)'
    BY <1>1, <1>2 DEF OnItsWay, Is
  <1>5. Chosen(r)'
    BY <1>2, <1>3 DEF Chosen, Cascading, Deleting
  <1>6. SeesIntegration(r)'
    BY <1>2 DEF SeesIntegration, Sorted
  <1>7. Serves(r)'
    BY <1>1, <1>3, <1>4, <1>5, <1>6, DeletingServes
  <1> QED BY <1>1, <1>2, <1>3, <1>7, SilenceKeepsSInv DEF SInv

-----------------------------------------------------------------------------
(* A delete chooses its rows *)

LEMMA SameView ==
  ASSUME NEW r \in Requests, UNCHANGED <<contents, version, result, latest, job>>
  PROVE  /\ Version(r)' = Version(r) /\ \A op : Is(r, op)' <=> Is(r, op)
         /\ \A v : VersionRow(v)' = VersionRow(v)
         /\ \A v : ForeignResult(v)' <=> ForeignResult(v)
         /\ \A i : Entails(r, i)' <=> Entails(r, i)
         /\ kept'[r] = kept[r] => \A v : Orphaned(r, v)' <=> Orphaned(r, v)
         /\ holds'[r] = holds[r] =>
              Results(r)' = Results(r) /\ \A i : Drops(r, i)' <=> Drops(r, i)
         /\ holds[r] \subseteq holds'[r] => Results(r)' \subseteq Results(r)
  BY DEF Version, Is, VersionRow, ForeignResult, Entails, Orphaned, Results, Drops, Wrote

LEMMA HeldStays ==
  ASSUME SInv, NEW r \in Requests, pc[r] \in DeleteSteps \ {"commit"},
         UNCHANGED <<tables, job, row, holds>>,
         pc[r] \in SecondRound => pc'[r] \in SecondRound /\ kept'[r] = kept[r]
  PROVE  Held(r)'
  <1> PICK K : K = {}
    OBVIOUS
  <1>1. holds'[r] = holds[r] \cup K
    OBVIOUS
  <1>2. \A x : x \notin K
    OBVIOUS
  <1> HIDE DEF Held
  <1> QED BY <1>1, <1>2, HeldGoesOn

LEMMA ChoosingHolds ==
  ASSUME SInv, NEW r \in Requests, NEW step \in DeleteSteps \ {"commit"}, NEW next \in DeleteSteps,
         NEW rows, Choose(r, step, rows, next), UNCHANGED overtaken,
         step \in SecondRound => next \in SecondRound
  PROVE  /\ pc[r] = step /\ pc'[r] = next /\ pc'[r] # "idle" /\ chosen'[r] = rows
         /\ UNCHANGED <<contents, version, result, latest, job, row, kept, holds>>
         /\ Silent(r) /\ Sole' /\ Held(r)'
  <1>1. /\ pc[r] = step /\ Go(r, next) /\ chosen' = [chosen EXCEPT ![r] = rows]
        /\ UNCHANGED <<tables, job, row, kept, holds>>
    BY DEF Choose, At
  <1>2. chosen'[r] = rows /\ \A q \in Requests \ {r} : chosen'[q] = chosen[q]
    BY <1>1 DEF SInv, IInv, MemoryOK
  <1>3. next \in Steps
    BY DEF DeleteSteps
  <1>4. Silent(r) /\ pc'[r] = next /\ pc'[r] # "idle"
    BY <1>1, <1>2, <1>3, GoesOnSilently
  <1>5. Sole'
    BY <1>1, SameLocksKeepSole
  <1>6. Held(r)'
    BY <1>1, <1>4, HeldStays
  <1> QED BY <1>1, <1>2, <1>4, <1>5, <1>6 DEF tables

\* The versions that are doomed are the one that it is about, or orphans.
LEMMA DoomedFacts ==
  ASSUME SInv, NEW r \in Requests, NEW v \in Versions
  PROVE  /\ Is(r, "delete_version") =>
              (v \in DoomedVersions(r) <=>
                 version[v] # NoRow /\ v = Version(r) /\ version[Version(r)] = row[r])
         /\ Is(r, "delete_integration") =>
              (v \in DoomedVersions(r) <=> version[v] # NoRow /\ Orphaned(r, v))
  BY DEF DoomedVersions, VersionRow, Orphaned, Is

LEMMA ChooseResultsServes ==
  ASSUME SInv, NEW r \in Requests, ChooseResults(r), UNCHANGED overtaken, IInv'
  PROVE  SInv'
  <1> PICK rows : rows = IF Is(r, "delete_version") THEN ResultsOf(r, DoomedVersions(r))
                         ELSE {i \in Results(r) : result[i][1] \in Between}
    OBVIOUS
  <1>1. Choose(r, "rows", rows, "delete")
    BY DEF ChooseResults, Is
  <1>2. /\ pc[r] = "rows" /\ pc'[r] = "delete" /\ pc'[r] # "idle" /\ chosen'[r] = rows
        /\ UNCHANGED <<contents, version, result, latest, job, row, kept, holds>>
        /\ Silent(r) /\ Sole' /\ Held(r)'
    BY <1>1, ChoosingHolds, DeleteStepsFacts DEF SecondRound, Sorted
  <1>3. /\ ~Verifies(r) /\ ~Is(r, "verify") /\ ~Is(r, "delete_result")
        /\ overtaken[r] = {} =>
              /\ Is(r, "delete_version") => SeesVersion(r)
              /\ Is(r, "delete_integration") => SeesIntegration(r)
    BY <1>2, DeleteFacts, DeleteStepsFacts DEF OnItsWay
  <1>4. /\ Version(r)' = Version(r) /\ Results(r)' = Results(r)
        /\ \A op : Is(r, op)' <=> Is(r, op)
    BY <1>2, SameView
  <1>5. Version(r) \in Versions /\ \A i \in Results(r) : result[i][2] \in Versions
    BY JobFacts, ResultFacts DEF SInv
  <1>6. OnItsWay(r)'
    BY <1>2, <1>3, <1>4 DEF OnItsWay
  <1>7. Chosen(r)'
    <2>1. rows \subseteq Requests
      BY DEF ResultsOf, Results
    <2>2. ASSUME NEW i \in rows PROVE Meant(r, i)
      <3>1. CASE Is(r, "delete_version")
        BY <1>5, <2>2, <3>1, DoomedFacts DEF ResultsOf, Meant
      <3>2. CASE ~Is(r, "delete_version")
        BY <1>3, <2>2, <3>2, KindFacts DEF Meant
      <3> QED BY <3>1, <3>2
    <2>3. \A i \in rows : Meant(r, i)'
      BY <1>2, <2>2, MeantGoesOn DEF SecondRound, Sorted
    <2> QED BY <1>2, <2>1, <2>3 DEF Chosen, Cascading
  <1>8. Integration(r)'
    BY <1>2 DEF Integration, Sorted
  <1>9. overtaken[r] = {} /\ Is(r, "delete_version") => SeesVersion(r)'
    BY <1>2, <1>3, <1>4, <1>5, DoomedFacts DEF SeesVersion, ResultsOf, Deleting
  <1>10. Is(r, "delete_integration") => SeesIntegration(r)'
    <2>1. Is(r, "delete_integration") => ~Is(r, "delete_version")
      BY DEF Is
    <2> QED BY <1>2, <1>4, <2>1 DEF SeesIntegration, Sorted
  <1>11. Serves(r)'
    BY <1>2, <1>3, <1>6, <1>7, <1>8, <1>9, <1>10, DeletingServes
  <1> QED BY <1>2, <1>11, SilenceKeepsSInv DEF SInv

LEMMA ChooseResultsAgainServes ==
  ASSUME SInv, NEW r \in Requests, ChooseResultsAgain(r), UNCHANGED overtaken, IInv'
  PROVE  SInv'
  <1> PICK rows : rows = ResultsOf(r, DoomedVersions(r))
    OBVIOUS
  <1>1. Choose(r, "again", rows, "delete_again")
    BY DEF ChooseResultsAgain
  <1>2. /\ pc[r] = "again" /\ pc'[r] = "delete_again" /\ pc'[r] # "idle" /\ chosen'[r] = rows
        /\ UNCHANGED <<contents, version, result, latest, job, row, kept, holds>>
        /\ Silent(r) /\ Sole' /\ Held(r)'
    BY <1>1, ChoosingHolds, DeleteStepsFacts DEF SecondRound, Sorted
  <1>3. /\ ~Verifies(r) /\ ~Is(r, "verify") /\ ~Is(r, "delete_result") /\ Integration(r)
        /\ overtaken[r] = {} =>
              /\ Is(r, "delete_version") => SeesVersion(r)
              /\ Is(r, "delete_integration") => SeesIntegration(r)
    BY <1>2, DeleteFacts, DeleteStepsFacts DEF OnItsWay
  <1>4. /\ Version(r)' = Version(r) /\ Results(r)' = Results(r)
        /\ \A op : Is(r, op)' <=> Is(r, op)
        /\ \A v : (Orphaned(r, v)' <=> Orphaned(r, v)) /\ (ForeignResult(v)' <=> ForeignResult(v))
    BY <1>2, SameView
  <1>5. Version(r) \in Versions /\ \A i \in Results(r) : result[i][2] \in Versions
    BY JobFacts, ResultFacts DEF SInv
  <1>6. OnItsWay(r)'
    BY <1>2, <1>3, <1>4 DEF OnItsWay
  <1>7. Chosen(r)'
    <2>1. rows \subseteq Requests
      BY DEF ResultsOf, Results
    <2>2. ASSUME NEW i \in rows PROVE Meant(r, i)'
      <3>1. i \in Results(r) /\ result[i][2] \in DoomedVersions(r) /\ result[i][2] \in Versions
        BY <1>5, <2>2 DEF ResultsOf
      <3>2. CASE Is(r, "delete_version")
        BY <1>2, <1>4, <3>1, <3>2, DoomedFacts DEF Meant
      <3>3. CASE Is(r, "delete_integration")
        <4>1. Orphaned(r, result[i][2])
          BY <3>1, <3>3, DoomedFacts
        <4>2. <<result'[i][2], version'[result'[i][2]]>> \notin kept'[r]
          BY <1>2, <4>1 DEF Orphaned, VersionRow
        <4>3. Is(r, "delete_integration")' /\ pc'[r] \in SecondRound
          BY <1>2, <1>4, <3>3 DEF SecondRound, Sorted
        <4> QED BY <4>2, <4>3 DEF Meant, Orphaned, VersionRow
      <3> QED BY <1>3, <3>2, <3>3, KindFacts
    <2> QED BY <1>2, <2>1, <2>2 DEF Chosen, Cascading
  <1>8. Integration(r)'
    BY <1>2, <1>3, <1>4 DEF Integration, Sorted, Silent, Orphaned, VersionRow
  <1>9. overtaken[r] = {} /\ Is(r, "delete_version") => SeesVersion(r)'
    BY <1>2, <1>3, <1>4 DEF SeesVersion, Deleting
  <1>10. overtaken[r] = {} /\ Is(r, "delete_integration") => SeesIntegration(r)'
    BY <1>2, <1>3, <1>4 DEF SeesIntegration, Sorted
  <1>11. Serves(r)'
    BY <1>2, <1>3, <1>6, <1>7, <1>8, <1>9, <1>10, DeletingServes
  <1> QED BY <1>2, <1>11, SilenceKeepsSInv DEF SInv

LEMMA ChooseVersionsServes ==
  ASSUME SInv, NEW r \in Requests, ChooseVersions(r), UNCHANGED overtaken, IInv'
  PROVE  SInv'
  <1> PICK rows : rows = {VersionRow(v) : v \in DoomedVersions(r)}
    OBVIOUS
  <1>1. Choose(r, "parents", rows, "remove")
    BY DEF ChooseVersions
  <1>2. /\ pc[r] = "parents" /\ pc'[r] = "remove" /\ pc'[r] # "idle" /\ chosen'[r] = rows
        /\ UNCHANGED <<contents, version, result, latest, job, row, kept, holds>>
        /\ Silent(r) /\ Sole' /\ Held(r)'
    BY <1>1, ChoosingHolds, DeleteStepsFacts DEF SecondRound, Sorted
  <1>3. /\ ~Verifies(r) /\ ~Is(r, "verify") /\ ~Is(r, "delete_result")
        /\ Integration(r) /\ Held(r)
        /\ overtaken[r] = {} =>
              /\ Is(r, "delete_version") => SeesVersion(r)
              /\ Is(r, "delete_integration") => SeesIntegration(r)
    BY <1>2, DeleteFacts, DeleteStepsFacts DEF OnItsWay
  <1>4. /\ Version(r)' = Version(r) /\ Results(r)' = Results(r)
        /\ \A op : Is(r, op)' <=> Is(r, op)
        /\ \A v : (Orphaned(r, v)' <=> Orphaned(r, v)) /\ (ForeignResult(v)' <=> ForeignResult(v))
        /\ \A v : VersionRow(v)' = VersionRow(v)
        /\ \A i : (Drops(r, i)' <=> Drops(r, i)) /\ (Entails(r, i)' <=> Entails(r, i))
    BY <1>2, SameView
  <1>5. Version(r) \in Versions /\ \A i \in Requests : result[i] # NoRow => result[i][2] \in Versions
    BY JobFacts DEF SInv, IInv, TypeOK, Pairs
  <1>6. OnItsWay(r)'
    BY <1>2, <1>3, <1>4 DEF OnItsWay
  <1>7. \A v \in Versions : v \in DoomedVersions(r) => VersionRow(v) \in rows
    OBVIOUS
  <1>8. Chosen(r)'
    <2>1. ASSUME NEW x \in rows
          PROVE  /\ Is(r, "delete_version") => x = <<Version(r), row[r]>>
                 /\ Is(r, "delete_integration") => x \notin kept[r]
      <3>1. PICK v \in Versions : v \in DoomedVersions(r) /\ x = VersionRow(v)
        BY <2>1 DEF DoomedVersions
      <3> QED BY <3>1, DoomedFacts DEF VersionRow, Orphaned
    <2>2. ASSUME NEW i \in Requests, Drops(r, i), Entails(r, i)
          PROVE  VersionRow(result[i][2]) \in rows
      <3>1. result[i] # NoRow /\ Meant(r, i) /\ result[i][2] \in Versions
        BY <1>3, <1>5, <2>2 DEF Held
      <3>2. version[result[i][2]] # NoRow
        BY <3>1 DEF SInv, Parents
      <3>3. result[i][2] \in DoomedVersions(r)
        <4>1. CASE Is(r, "delete_version")
          BY <3>1, <3>2, <4>1, DoomedFacts DEF Meant, Is
        <4>2. CASE Is(r, "delete_integration")
          <5>1. Orphaned(r, result[i][2])
            BY <2>2, <3>1, <4>2 DEF Meant, Entails, Is
          <5> QED BY <3>1, <3>2, <4>2, <5>1, DoomedFacts
        <4> QED BY <1>3, <4>1, <4>2, KindFacts
      <3> QED BY <1>7, <3>1, <3>3
    <2> QED BY <1>2, <1>4, <2>1, <2>2 DEF Chosen, Cascading, Deleting
  <1>9. Integration(r)'
    BY <1>2, <1>3, <1>4 DEF Integration, Sorted, Silent, Orphaned, VersionRow
  <1>10. overtaken[r] = {} /\ Is(r, "delete_version") => SeesVersion(r)'
    <2>1. SUFFICES ASSUME overtaken[r] = {}, Is(r, "delete_version") PROVE SeesVersion(r)'
      OBVIOUS
    <2>2. SeesVersion(r)
      BY <1>3, <2>1
    <2>3. VersionRow(Version(r)) \in rows
      BY <1>5, <1>7, <2>1, <2>2, DoomedFacts DEF SeesVersion
    <2> QED BY <1>2, <1>4, <2>2, <2>3 DEF SeesVersion, Deleting
  <1>11. overtaken[r] = {} /\ Is(r, "delete_integration") => SeesIntegration(r)'
    <2>1. SUFFICES ASSUME overtaken[r] = {}, Is(r, "delete_integration") PROVE SeesIntegration(r)'
      OBVIOUS
    <2>2. SeesIntegration(r)
      BY <1>3, <2>1
    <2>3. \A v \in Versions : version[v] # NoRow /\ Orphaned(r, v) => VersionRow(v) \in rows
      BY <1>7, <2>1, DoomedFacts
    <2> QED BY <1>2, <1>4, <2>2, <2>3 DEF SeesIntegration, Sorted
  <1>12. Serves(r)'
    BY <1>2, <1>3, <1>6, <1>8, <1>9, <1>10, <1>11, DeletingServes
  <1> QED BY <1>2, <1>12, SilenceKeepsSInv DEF SInv

LEMMA FindVersionsWithResultsServes ==
  ASSUME SInv, NEW r \in Requests, FindVersionsWithResults(r), UNCHANGED overtaken, IInv'
  PROVE  SInv'
  <1> PICK found : found = {VersionRow(result[i][2]) : i \in Results(r)}
    OBVIOUS
  <1>1. /\ pc[r] = "orphans" /\ kept' = [kept EXCEPT ![r] = found] /\ Go(r, "again")
        /\ UNCHANGED <<tables, job, row, chosen, holds>>
    BY DEF FindVersionsWithResults, At
  <1>2. \A i \in Results(r) : i \in Requests /\ result[i] # NoRow /\ ~Drops(r, i)
                                /\ result[i][1] \in Contents /\ result[i][2] \in Versions
    BY ResultFacts DEF Results, Drops, Wrote, SInv
  <1>3. found \subseteq VersionRows
    <2>1. \A v \in Versions : version[v] \in Ids \cup {NoRow}
      BY DEF SInv, IInv, TypeOK
    <2> QED BY <1>2, <2>1 DEF VersionRow, VersionRows
  <1>4. /\ kept' \in [Requests -> SUBSET VersionRows] /\ kept'[r] = found
        /\ \A q \in Requests \ {r} : kept'[q] = kept[q]
    BY <1>1, <1>3 DEF SInv
  <1>5. Silent(r) /\ pc'[r] = "again" /\ pc'[r] # "idle"
    BY <1>1, <1>4, GoesOnSilently DEF Steps
  <1>6. /\ ~Verifies(r) /\ ~Is(r, "verify") /\ ~Is(r, "delete_result") /\ ~Is(r, "delete_version")
        /\ Integration(r) /\ Held(r) /\ DeleteOK(r)
    BY <1>1, DeleteFacts, DeleteStepsFacts DEF OnItsWay
  <1>7. Is(r, "delete_integration")
    BY <1>6, KindFacts
  <1>8. /\ Results(r)' = Results(r) /\ \A op : Is(r, op)' <=> Is(r, op)
        /\ \A v : (ForeignResult(v)' <=> ForeignResult(v)) /\ VersionRow(v)' = VersionRow(v)
    BY <1>1, SameView DEF tables
  <1>9. Held(r)'
    <2>1. pc[r] \in DeleteSteps \ {"commit"} /\ pc[r] \notin SecondRound
      BY <1>1, DeleteStepsFacts DEF SecondRound, Sorted
    <2> QED BY <1>1, <2>1, HeldStays
  <1>10. OnItsWay(r)' /\ Chosen(r)'
    BY <1>5, <1>6, <1>8 DEF OnItsWay, Chosen, Deleting, Cascading
  <1>11. \A i \in Results(r) : result[i][1] \notin Between
    BY <1>1, <1>2, <1>6, <1>7, VerificationResultsAssumption DEF Integration, DeleteOK
  <1>12. Integration(r)'
    <2>1. ASSUME NEW i \in Requests, result[i] # NoRow, result[i][1] \notin Between
          PROVE  VersionRow(result[i][2]) \in found
      <3>1. ~Drops(r, i)
        BY <1>1, <1>6, <1>7, <2>1 DEF Held, Meant, SecondRound, Sorted, Is
      <3> QED BY <2>1, <3>1 DEF Results, Drops, Wrote
    <2>2. \A c \in Between : Key("gone", c) \in holds'[r]
      BY <1>1, <1>6, <1>7 DEF Integration
    <2> QED BY <1>1, <1>4, <1>5, <1>8, <2>1, <2>2 DEF Integration, Orphaned, VersionRow, tables
  <1>13. SeesIntegration(r)'
    <2>1. ASSUME NEW v \in Versions, VersionRow(v) \in found PROVE ForeignResult(v)
      <3>1. PICK i \in Results(r) : VersionRow(v) = VersionRow(result[i][2])
        BY <2>1
      <3>2. v = result[i][2]
        BY <3>1 DEF VersionRow
      <3> QED BY <1>2, <1>11, <3>2 DEF ForeignResult
    <2> QED BY <1>4, <1>5, <1>8, <2>1 DEF SeesIntegration, Orphaned
  <1>14. Serves(r)'
    BY <1>1, <1>6, <1>9, <1>10, <1>12, <1>13, DeletingServes
  <1> QED BY <1>1, <1>4, <1>5, <1>14, SameLocksKeepSole, SilenceKeepsSInv

-----------------------------------------------------------------------------
(* A delete locks its rows *)

LEMMA LockingShows ==
  ASSUME SInv, NEW r \in Requests, NEW next \in Steps, Go(r, next),
         UNCHANGED <<tables, memory, overtaken>>,
         NEW K \in SUBSET (Kinds \X Things), Lock(r, K)
  PROVE  /\ pc'[r] = next /\ pc'[r] # "idle" /\ Silent(r) /\ holds'[r] = holds[r] \cup K
         /\ UNCHANGED <<contents, version, result, latest, job, row, chosen, kept>>
         /\ Version(r)' = Version(r) /\ Results(r)' \subseteq Results(r)
         /\ \A op : Is(r, op)' <=> Is(r, op)
         /\ \A v : (Orphaned(r, v)' <=> Orphaned(r, v)) /\ (ForeignResult(v)' <=> ForeignResult(v))
         /\ \A v : VersionRow(v)' = VersionRow(v)
         /\ \A i : Entails(r, i)' <=> Entails(r, i)
         /\ \A i : Drops(r, i)' <=> Drops(r, i) \/ Key("result", i) \in K
         /\ \A i : i \in Results(r)' => ~Drops(r, i)'
  <1>1. UNCHANGED <<contents, version, result, latest, job, row, chosen, kept>>
    BY DEF tables, memory
  <1>2. holds'[r] = holds[r] \cup K /\ \A q \in Requests \ {r} : holds'[q] = holds[q]
    BY LockFacts DEF SInv
  <1>3. Silent(r) /\ pc'[r] = next /\ pc'[r] # "idle"
    BY <1>1, <1>2, GoesOnSilently
  <1>4. \A i : (Drops(r, i)' <=> Drops(r, i) \/ Key("result", i) \in K)
                 /\ (i \in Results(r)' => ~Drops(r, i)')
    BY <1>2 DEF Drops, Results, Wrote
  <1> QED BY <1>1, <1>2, <1>3, <1>4, SameView

\* The keys that a statement locks are those that it has waited for.
LEMMA LockingKeepsSole ==
  ASSUME SInv, NEW r \in Requests, Waits(r) = {},
         NEW K \in SUBSET (Kinds \X Things), Lock(r, K), K \subseteq Needs(r),
         \A v \in Versions :
            /\ Key("version", v) \notin K
            /\ Key("gone", v) \in K => Key("version", v) \in Needs(r)
  PROVE  Sole'
  <1>1. \A k \in Needs(r), q \in Requests \ {r} : k \notin holds[q]
    BY FreeFacts
  <1> QED BY <1>1, LockKeepsSole

LEMMA DeleteChosenServes ==
  ASSUME SInv, NEW r \in Requests, UNCHANGED overtaken, IInv', NEW step, NEW next,
         \/ step = "delete" /\ next = "cascade"
         \/ step = "delete_again" /\ next = "cascade_again",
         DeleteChosen(r, step, next)
  PROVE  SInv'
  <1> PICK K : K = Keys("result", RemainingResults(r))
    OBVIOUS
  <1>1. /\ pc[r] = step /\ Waits(r) = {} /\ Lock(r, K) /\ Go(r, next) /\ UNCHANGED <<tables, memory>>
    BY DEF DeleteChosen, At
  <1>2. /\ pc[r] \in DeleteSteps \ {"commit"} /\ next \in Steps /\ pc[r] \in Deleting
        /\ pc[r] \notin Cascading /\ next \in Cascading /\ next \in Deleting
        /\ step \in SecondRound => next \in SecondRound
        /\ step \in Sorted <=> next \in Sorted
    BY <1>1, DeleteStepsFacts DEF Steps, Deleting, Cascading, SecondRound, Sorted
  <1>3. \A i : Key("result", i) \in K <=> i \in RemainingResults(r)
    BY DEF Keys, Key
  <1>4. K \in SUBSET (Kinds \X Things) /\ \A k \in K : k[1] = "result"
    BY DEF RemainingResults, Keys, Key, Kinds, Things
  <1>5. \A x : Key("gone", x) \notin K /\ Key("version", x) \notin K /\ Key("latest", x) \notin K
    BY <1>4 DEF Key
  <1>6. /\ pc'[r] = next /\ pc'[r] # "idle" /\ Silent(r) /\ holds'[r] = holds[r] \cup K
        /\ UNCHANGED <<contents, version, result, latest, job, row, chosen, kept>>
        /\ Version(r)' = Version(r) /\ Results(r)' \subseteq Results(r)
        /\ \A op : Is(r, op)' <=> Is(r, op)
        /\ \A v : (Orphaned(r, v)' <=> Orphaned(r, v)) /\ (ForeignResult(v)' <=> ForeignResult(v))
        /\ \A i : Drops(r, i)' <=> Drops(r, i) \/ Key("result", i) \in K
        /\ \A i : i \in Results(r)' => ~Drops(r, i)'
    BY <1>1, <1>2, <1>4, LockingShows
  <1>7. Sole'
    <2>1. Needs(r) = K
      BY <1>1, Zenon DEF Needs
    <2> QED BY <1>1, <1>4, <1>5, <2>1, LockingKeepsSole
  <1>8. /\ ~Verifies(r) /\ OnItsWay(r) /\ Held(r) /\ Chosen(r) /\ Integration(r)
        /\ overtaken[r] = {} =>
              /\ Is(r, "delete_result") => SeesResult(r)
              /\ Is(r, "delete_version") => SeesVersion(r)
              /\ Is(r, "delete_integration") => SeesIntegration(r)
    BY <1>2, DeleteFacts
  <1>9. Held(r)'
    BY <1>1, <1>2, <1>3, <1>5, <1>6, HeldGoesOn DEF tables
  <1>10. OnItsWay(r)'
    BY <1>1, <1>6, <1>8 DEF OnItsWay
  <1>11. chosen[r] \subseteq Requests /\ \A i \in chosen[r] : result[i] # NoRow => Drops(r, i)'
    BY <1>2, <1>3, <1>6, <1>8 DEF Chosen, RemainingResults
  <1>12. Chosen(r)'
    <2>1. \A i \in chosen[r] : result[i] # NoRow => Meant(r, i)'
      BY <1>1, <1>2, <1>6, <1>8, MeantGoesOn DEF Chosen
    <2> QED BY <1>6, <1>11, <2>1 DEF Chosen
  <1>13. Integration(r)'
    BY <1>1, <1>2, <1>6, <1>8 DEF Integration, Orphaned, VersionRow
  <1>14. overtaken[r] = {} /\ Is(r, "delete_result") => SeesResult(r)'
    <2>1. SUFFICES ASSUME overtaken[r] = {}, Is(r, "delete_result") PROVE SeesResult(r)'
      OBVIOUS
    <2>2. pc[r] = "delete"
      BY <1>1, <1>8, <2>1 DEF OnItsWay
    <2>3. PICK i \in chosen[r] : result[i] = job[r].pair
      BY <1>8, <2>1, <2>2 DEF SeesResult
    <2>4. result[i] # NoRow
      BY <2>3, JobFacts, VerificationResultsAssumption DEF SInv
    <2> QED BY <1>1, <1>6, <1>11, <2>2, <2>4 DEF SeesResult
  <1>15. overtaken[r] = {} /\ Is(r, "delete_version") => SeesVersion(r)'
    BY <1>1, <1>2, <1>6, <1>8 DEF SeesVersion
  <1>16. overtaken[r] = {} /\ Is(r, "delete_integration") => SeesIntegration(r)'
    <2>1. SUFFICES ASSUME overtaken[r] = {}, Is(r, "delete_integration") PROVE SeesIntegration(r)'
      OBVIOUS
    <2>2. ASSUME step = "delete" PROVE \A i \in Results(r)' : result[i][1] \notin Between
      <3>1. SUFFICES ASSUME NEW i \in Results(r)', result[i][1] \in Between PROVE FALSE
        OBVIOUS
      <3>2. i \in Requests /\ result[i] # NoRow /\ ~Drops(r, i)' /\ holds[r] \subseteq holds'[r]
        BY <1>6, <3>1 DEF Results, Wrote, Drops
      <3>3. i \in Results(r)
        BY <3>2 DEF Results, Wrote, Drops
      <3>4. i \in chosen[r]
        BY <1>1, <1>8, <2>1, <2>2, <3>1, <3>3 DEF SeesIntegration
      <3> QED BY <1>11, <3>2, <3>4
    <2>3. CASE step = "delete"
      BY <1>1, <1>6, <2>2, <2>3 DEF SeesIntegration, Sorted
    <2>4. CASE step = "delete_again"
      <3>1. \A v \in Versions : version[v] # NoRow /\ ~Orphaned(r, v) => ForeignResult(v)
        BY <1>1, <1>8, <2>1, <2>4 DEF SeesIntegration, Sorted
      <3>2. \A v \in Versions : Orphaned(r, v)' <=> Orphaned(r, v)
        BY <1>6 DEF Orphaned, VersionRow
      <3>3. \A v \in Versions : ForeignResult(v)' <=> ForeignResult(v)
        BY <1>6 DEF ForeignResult
      <3> QED BY <1>1, <1>6, <2>4, <3>1, <3>2, <3>3 DEF SeesIntegration
    <2> QED BY <1>1, <2>3, <2>4
  <1>17. Serves(r)'
    BY <1>6, <1>8, <1>9, <1>10, <1>12, <1>13, <1>14, <1>15, <1>16, DeletingServes
  <1> QED BY <1>6, <1>7, <1>17, SilenceKeepsSInv DEF SInv

LEMMA CascadeServes ==
  ASSUME SInv, NEW r \in Requests, UNCHANGED overtaken, IInv', NEW step, NEW next,
         \/ step = "cascade_again" /\ next = "parents"
         \/ step = "cascade" /\ Is(r, "delete_result") /\ next = "commit"
         \/ step = "cascade" /\ Is(r, "delete_version") /\ next = "again"
         \/ step = "cascade" /\ Is(r, "delete_integration") /\ next = "contents",
         Cascade(r, step, next)
  PROVE  SInv'
  <1> PICK K : K = Keys("latest", LatestRows(r))
    OBVIOUS
  <1>1. /\ pc[r] = step /\ Waits(r) = {} /\ Lock(r, K) /\ Go(r, next) /\ UNCHANGED <<tables, memory>>
    BY DEF Cascade, At
  <1>2. /\ pc[r] \in DeleteSteps \ {"commit"} /\ next \in Steps /\ pc[r] \in Deleting
        /\ pc[r] \in Cascading /\ next \notin Cascading /\ next \notin Deleting
        /\ step \in SecondRound => next \in SecondRound
    BY <1>1, DeleteStepsFacts DEF Steps, Deleting, Cascading, SecondRound, Sorted
  <1>3. \A p : Key("latest", p) \in K <=> p \in LatestRows(r)
    BY DEF Keys, Key
  <1>4. K \in SUBSET (Kinds \X Things) /\ \A k \in K : k[1] = "latest"
    BY DEF LatestRows, Keys, Key, Kinds, Things
  <1>5. \A x : Key("gone", x) \notin K /\ Key("version", x) \notin K /\ Key("result", x) \notin K
    BY <1>4 DEF Key
  <1>6. /\ pc'[r] = next /\ pc'[r] # "idle" /\ Silent(r) /\ holds'[r] = holds[r] \cup K
        /\ UNCHANGED <<contents, version, result, latest, job, row, chosen, kept>>
        /\ Version(r)' = Version(r) /\ Results(r)' \subseteq Results(r)
        /\ \A op : Is(r, op)' <=> Is(r, op)
        /\ \A v : (Orphaned(r, v)' <=> Orphaned(r, v)) /\ (ForeignResult(v)' <=> ForeignResult(v))
        /\ \A i : Drops(r, i)' <=> Drops(r, i)
        /\ \A i : i \in Results(r)' => ~Drops(r, i)
    BY <1>1, <1>2, <1>4, <1>5, LockingShows
  <1>7. Sole'
    <2>1. Needs(r) = K
      BY <1>1, Zenon DEF Needs
    <2> QED BY <1>1, <1>4, <1>5, <2>1, LockingKeepsSole
  <1>8. /\ ~Verifies(r) /\ OnItsWay(r) /\ Held(r) /\ Chosen(r) /\ Integration(r)
        /\ overtaken[r] = {} =>
              /\ Is(r, "delete_result") => SeesResult(r)
              /\ Is(r, "delete_version") => SeesVersion(r)
              /\ Is(r, "delete_integration") => SeesIntegration(r)
    BY <1>2, DeleteFacts
  <1>9. Held(r)'
    BY <1>1, <1>2, <1>3, <1>5, <1>6, HeldGoesOn DEF tables
  <1>10. OnItsWay(r)'
    BY <1>1, <1>6, <1>8 DEF OnItsWay, Is
  <1>11. Chosen(r)'
    BY <1>2, <1>6 DEF Chosen
  <1>12. Integration(r)'
    BY <1>1, <1>6, <1>8 DEF Integration, Orphaned, VersionRow, Sorted, Is
  <1>13. overtaken[r] = {} /\ Is(r, "delete_result") => SeesResult(r)'
    BY <1>1, <1>6, <1>8 DEF SeesResult, OnItsWay
  <1>14. overtaken[r] = {} /\ Is(r, "delete_version") => SeesVersion(r)'
    <2>1. SUFFICES ASSUME overtaken[r] = {}, Is(r, "delete_version") PROVE SeesVersion(r)'
      OBVIOUS
    <2>2. SeesVersion(r) /\ pc[r] \notin {"rows", "commit", "remove"} /\ next \notin {"remove", "commit"}
      BY <1>1, <1>8, <2>1 DEF Is
    <2>3. \A i \in Results(r)' : result'[i][2] # Version(r)'
      <3>1. \A i \in Results(r) : result[i][2] = Version(r) => i \in chosen[r]
        BY <2>2 DEF SeesVersion
      <3>2. \A i \in Results(r) : result[i] # NoRow
        BY DEF Results
      <3>3. \A i \in chosen[r] : result[i] # NoRow => Drops(r, i)
        BY <1>2, <1>8 DEF Chosen
      <3> QED BY <1>6, <3>1, <3>2, <3>3
    <2> QED BY <1>6, <2>2, <2>3 DEF SeesVersion
  <1>15. overtaken[r] = {} /\ Is(r, "delete_integration") => SeesIntegration(r)'
    <2>1. SUFFICES ASSUME overtaken[r] = {}, Is(r, "delete_integration") PROVE SeesIntegration(r)'
      OBVIOUS
    <2>2. SeesIntegration(r) /\ next \notin {"remove", "commit"}
      BY <1>1, <1>8, <2>1 DEF Is
    <2> QED BY <1>1, <1>6, <2>1, <2>2 DEF SeesIntegration, Sorted, Is
  <1>16. Serves(r)'
    BY <1>6, <1>8, <1>9, <1>10, <1>11, <1>12, <1>13, <1>14, <1>15, DeletingServes
  <1> QED BY <1>6, <1>7, <1>16, SilenceKeepsSInv DEF SInv

LEMMA CascadeToLatestServes ==
  ASSUME SInv, NEW r \in Requests, CascadeToLatest(r), UNCHANGED overtaken, IInv'
  PROVE  SInv'
  <1>1. pc[r] = "cascade" /\ ~Verifies(r) /\ ~Is(r, "verify")
    BY DeleteFacts, DeleteStepsFacts DEF CascadeToLatest, Cascade, At
  <1>2. CASE Is(r, "delete_result")
    BY <1>2, CascadeServes DEF CascadeToLatest, Is
  <1>3. CASE Is(r, "delete_version")
    BY <1>3, CascadeServes DEF CascadeToLatest, Is
  <1>4. CASE Is(r, "delete_integration")
    BY <1>4, CascadeServes DEF CascadeToLatest, Is
  <1> QED BY <1>1, <1>2, <1>3, <1>4, KindFacts

LEMMA DeleteContentsServes ==
  ASSUME SInv, NEW r \in Requests, DeleteContents(r), UNCHANGED overtaken, IInv'
  PROVE  SInv'
  <1> PICK K : K = Keys("gone", Between)
    OBVIOUS
  <1>1. pc[r] = "contents" /\ Waits(r) = {}
    BY DEF DeleteContents, At
  <1>2. /\ pc[r] \in DeleteSteps \ {"commit"} /\ "orphans" \in Steps
        /\ pc[r] \notin SecondRound /\ pc[r] \notin Deleting /\ "orphans" \notin Sorted
    BY <1>1, DeleteStepsFacts DEF Steps, Deleting, SecondRound, Sorted
  <1>3. CASE \E i \in Results(r) : result[i][1] \in Between
    BY <1>3, GivingUpServes DEF DeleteContents
  <1>4. CASE ~\E i \in Results(r) : result[i][1] \in Between
    <2>1. Lock(r, K) /\ Go(r, "orphans") /\ UNCHANGED <<tables, memory>>
      BY <1>4 DEF DeleteContents
    <2>2. \A x : Key("gone", x) \in K <=> x \in Between
      BY DEF Keys, Key
    <2>3. K \in SUBSET (Kinds \X Things) /\ \A k \in K : k[1] = "gone"
      BY VerificationResultsAssumption DEF Keys, Key, Kinds, Things
    <2>4. \A x : Key("result", x) \notin K /\ Key("version", x) \notin K /\ Key("latest", x) \notin K
      BY <2>3 DEF Key
    <2>5. \A v \in Versions : Key("gone", v) \notin K
      BY <2>2, VerificationResultsAssumption
    <2>6. /\ pc'[r] = "orphans" /\ pc'[r] # "idle" /\ Silent(r) /\ holds'[r] = holds[r] \cup K
          /\ UNCHANGED <<contents, version, result, latest, job, row, chosen, kept>>
          /\ \A op : Is(r, op)' <=> Is(r, op)
      BY <1>2, <2>1, <2>3, LockingShows
    <2>7. Sole'
      <3>1. Needs(r) = Keys("refer", Between) \cup K
        BY <1>1, Zenon DEF Needs
      <3> QED BY <1>1, <2>1, <2>3, <2>4, <2>5, <3>1, LockingKeepsSole
    <2>8. /\ ~Verifies(r) /\ Is(r, "delete_integration")
          /\ ~Is(r, "delete_version") /\ ~Is(r, "delete_result")
      BY <1>1, <1>2, DeleteFacts, KindFacts DEF OnItsWay, Is
    <2>9. Held(r)'
      BY <1>2, <2>1, <2>2, <2>4, <2>5, <2>6, <2>8, HeldGoesOn DEF tables
    <2>10. OnItsWay(r)' /\ Chosen(r)' /\ Integration(r)' /\ SeesIntegration(r)'
      BY <1>2, <2>2, <2>6, <2>8
      DEF OnItsWay, Chosen, Integration, SeesIntegration, Deleting, Cascading, Sorted
    <2>11. Serves(r)'
      BY <2>6, <2>8, <2>9, <2>10, DeletingServes
    <2> QED BY <2>6, <2>7, <2>11, SilenceKeepsSInv DEF SInv
  <1> QED BY <1>3, <1>4

LEMMA DeleteVersionsServes ==
  ASSUME SInv, NEW r \in Requests, DeleteVersions(r), UNCHANGED overtaken, IInv'
  PROVE  SInv'
  <1> PICK K : K = Keys("gone", RemainingVersions(r))
    OBVIOUS
  <1>1. pc[r] = "remove" /\ Waits(r) = {}
    BY DEF DeleteVersions, At
  <1>2. /\ pc[r] \in DeleteSteps \ {"commit"} /\ "commit" \in Steps
        /\ "commit" \in SecondRound /\ pc[r] \notin Deleting /\ pc[r] \in Sorted
    BY <1>1, DeleteStepsFacts DEF Steps, Deleting, SecondRound, Sorted
  <1>3. CASE ResultsOf(r, RemainingVersions(r)) # {}
    BY <1>3, GivingUpServes DEF DeleteVersions
  <1>4. CASE ResultsOf(r, RemainingVersions(r)) = {}
    <2>1. Lock(r, K) /\ Go(r, "commit") /\ UNCHANGED <<tables, memory>>
      BY <1>4 DEF DeleteVersions
    <2>2. /\ \A x : Key("gone", x) \in K <=> x \in RemainingVersions(r)
          /\ RemainingVersions(r) \subseteq Versions
      BY DEF Keys, Key, RemainingVersions
    <2>3. K \in SUBSET (Kinds \X Things) /\ \A k \in K : k[1] = "gone"
      BY <2>2 DEF Keys, Key, Kinds, Things
    <2>4. \A x : Key("result", x) \notin K /\ Key("version", x) \notin K /\ Key("latest", x) \notin K
      BY <2>3 DEF Key
    <2>5. \A c \in Contents : Key("gone", c) \notin K
      BY <2>2, VerificationResultsAssumption
    <2>6. /\ pc'[r] = "commit" /\ pc'[r] # "idle" /\ Silent(r) /\ holds'[r] = holds[r] \cup K
          /\ UNCHANGED <<contents, version, result, latest, job, row, chosen, kept>>
          /\ Version(r)' = Version(r)
          /\ \A op : Is(r, op)' <=> Is(r, op)
          /\ \A v : (Orphaned(r, v)' <=> Orphaned(r, v)) /\ (ForeignResult(v)' <=> ForeignResult(v))
          /\ \A v : VersionRow(v)' = VersionRow(v)
          /\ \A i : (Drops(r, i)' <=> Drops(r, i)) /\ (Entails(r, i)' <=> Entails(r, i))
      BY <1>2, <2>1, <2>3, <2>4, LockingShows
    <2>7. Sole'
      <3>1. Needs(r) = UNION {Keys(kind, RemainingVersions(r)) : kind \in {"version", "refer", "gone"}}
        BY <1>1, Zenon DEF Needs
      <3>2. \A v \in RemainingVersions(r) : Key("version", v) \in Needs(r)
        BY <3>1 DEF Keys
      <3>3. K \subseteq Needs(r)
        BY <3>1
      <3> QED BY <1>1, <2>1, <2>2, <2>3, <2>4, <3>2, <3>3, LockingKeepsSole
    <2>8. /\ ~Verifies(r) /\ ~Is(r, "delete_result") /\ OnItsWay(r)
          /\ Held(r) /\ Chosen(r) /\ Integration(r)
          /\ overtaken[r] = {} =>
                /\ Is(r, "delete_version") => SeesVersion(r)
                /\ Is(r, "delete_integration") => SeesIntegration(r)
      BY <1>1, <1>2, DeleteFacts DEF OnItsWay
    <2>9. \A v \in RemainingVersions(r) :
            /\ version[v] # NoRow /\ VersionRow(v) \in chosen[r]
            /\ Is(r, "delete_version") => v = Version(r)
            /\ Is(r, "delete_integration") => Orphaned(r, v)
      BY <1>1, <2>8 DEF RemainingVersions, Chosen, VersionRow, Orphaned
    <2>10. Held(r)'
      BY <1>2, <2>1, <2>2, <2>4, <2>5, <2>6, <2>8, <2>9, HeldGoesOn DEF tables
    <2>11. OnItsWay(r)'
      BY <2>6, <2>8 DEF OnItsWay
    <2>12. \A v \in Versions :
             version[v] # NoRow /\ VersionRow(v) \in chosen[r] => Key("gone", v) \in holds'[r]
      BY <2>2, <2>6 DEF RemainingVersions
    <2>13. Chosen(r)'
      <3>1. ASSUME NEW i \in Requests, Drops(r, i), Entails(r, i)
            PROVE  Key("gone", result[i][2]) \in holds'[r]
        <4>1. result[i] # NoRow /\ VersionRow(result[i][2]) \in chosen[r]
          BY <1>1, <2>8, <3>1 DEF Held, Chosen
        <4>2. result[i][2] \in Versions /\ version[result[i][2]] # NoRow
          BY <4>1 DEF SInv, Parents, IInv, TypeOK, Pairs
        <4> QED BY <2>12, <4>1, <4>2
      <3> QED BY <2>6, <3>1 DEF Chosen, Deleting, Cascading
    <2>14. Integration(r)'
      BY <1>2, <2>6, <2>8 DEF Integration, Sorted, Orphaned, VersionRow
    <2>15. overtaken[r] = {} /\ Is(r, "delete_version") => SeesVersion(r)'
      <3>1. SUFFICES ASSUME overtaken[r] = {}, Is(r, "delete_version") PROVE SeesVersion(r)'
        OBVIOUS
      <3>2. SeesVersion(r) /\ Version(r) \in Versions
        BY <2>8, <3>1, JobFacts DEF SInv
      <3>3. Key("gone", Version(r)) \in holds'[r]
        BY <1>1, <2>12, <3>2 DEF SeesVersion
      <3> QED BY <2>6, <3>2, <3>3 DEF SeesVersion
    <2>16. overtaken[r] = {} /\ Is(r, "delete_integration") => SeesIntegration(r)'
      <3>1. SUFFICES ASSUME overtaken[r] = {}, Is(r, "delete_integration") PROVE SeesIntegration(r)'
        OBVIOUS
      <3>2. SeesIntegration(r)
        BY <2>8, <3>1
      <3> QED BY <1>1, <1>2, <2>6, <2>12, <3>2 DEF SeesIntegration
    <2>17. Serves(r)'
      BY <2>6, <2>8, <2>10, <2>11, <2>13, <2>14, <2>15, <2>16, DeletingServes
    <2> QED BY <2>6, <2>7, <2>17, SilenceKeepsSInv DEF SInv
  <1> QED BY <1>3, <1>4

(* A commit, as the others see it. *)

\* Rows that stay are as they were, with their version; only the result of r comes; and
\* what another request has locked stays.
Leaves(r) ==
    /\ \A i \in Requests :
         result[i] # NoRow /\ result'[i] # NoRow =>
            result'[i] = result[i] /\ version'[result[i][2]] = version[result[i][2]]
    /\ \A i \in Requests :
         result[i] = NoRow /\ result'[i] # NoRow =>
            i = r /\ Is(r, "verify") /\ result'[i] = job[r].pair
    /\ \A q \in Requests \ {r} :
         /\ \A i \in Requests : Drops(q, i) => result'[i] = result[i]
         /\ \A p \in Pairs : Key("latest", p) \in holds[q] => latest'[p] = latest[p]
         /\ \A v \in Versions :
              Key("gone", v) \in holds[q] \/ Key("version", v) \in holds[q] =>
                 version'[v] = version[v]

LEMMA ResultLeaves ==
  ASSUME SInv, NEW r \in Requests, Commit(r), Verifies(r)
  PROVE  Leaves(r) /\ Parents'
  <1> PICK p0, c0, v0 : p0 = job[r].pair /\ c0 = Content(r) /\ v0 = Version(r)
    OBVIOUS
  <1>1. IInv /\ Sole /\ Parents /\ pc[r] = "commit" /\ CommitEnds(r)
    BY ResultCommits DEF SInv
  <1>2. /\ p0 \in Pairs /\ p0 = <<c0, v0>> /\ c0 \in contents /\ v0 \in Versions
        /\ Key("latest", p0) \in holds[r] /\ Key("result", r) \in holds[r]
        /\ contents' = contents
        /\ version' = [v \in Versions |->
              IF Key("version", v) \in holds[r] THEN row[r] ELSE version[v]]
        /\ \A v \in Versions : Key("version", v) \in holds[r] => v = v0
        /\ result'[r] = p0 /\ \A i \in Requests \ {r} : result'[i] = result[i]
        /\ latest'[p0] = r /\ \A p \in Pairs \ {p0} : latest'[p] = latest[p]
        /\ \A v \in Versions : version[v] # NoRow => version'[v] # NoRow
        /\ version'[v0] # NoRow /\ result[r] = NoRow
    BY <1>1, ResultCommits DEF Saved
  <1>3. Creates(r) /\ Is(r, "verify")
    BY <1>1, OpenFacts DEF Steps, Verifies, Is
  <1>4. ASSUME NEW i \in Requests, result[i] # NoRow
        PROVE  /\ result'[i] = result[i] /\ result[i][2] \in Versions
               /\ result[i][1] \in contents /\ version[result[i][2]] # NoRow
    BY <1>1, <1>2, <1>4 DEF Parents, IInv, TypeOK, Pairs
  <1>5. \A v \in Versions : version[v] # NoRow => version'[v] = version[v]
    BY <1>2, <1>3 DEF Creates
  <1>6. \A i \in Requests :
          result[i] # NoRow /\ result'[i] # NoRow =>
             result'[i] = result[i] /\ version'[result[i][2]] = version[result[i][2]]
    BY <1>4, <1>5
  <1>7. \A i \in Requests :
          result[i] = NoRow /\ result'[i] # NoRow =>
             i = r /\ Is(r, "verify") /\ result'[i] = job[r].pair
    BY <1>2, <1>3
  <1>8. ASSUME NEW q \in Requests \ {r}
        PROVE  /\ \A i \in Requests : Drops(q, i) => result'[i] = result[i]
               /\ \A p \in Pairs : Key("latest", p) \in holds[q] => latest'[p] = latest[p]
               /\ \A v \in Versions :
                    Key("gone", v) \in holds[q] \/ Key("version", v) \in holds[q] =>
                       version'[v] = version[v]
    <2>1. /\ \A k \in holds[q] : k \in holds[r] => k[1] = "refer"
          /\ \A v \in Versions : Key("version", v) \in holds[r] => Key("gone", v) \notin holds[q]
      BY <1>1 DEF Sole
    <2>2. /\ \A x : Key("result", x)[1] # "refer" /\ Key("latest", x)[1] # "refer"
          /\ \A x : Key("version", x)[1] # "refer"
      BY DEF Key
    <2>3. \A i \in Requests : Drops(q, i) => result'[i] = result[i]
      BY <1>2, <2>1, <2>2 DEF Drops
    <2>4. \A p \in Pairs : Key("latest", p) \in holds[q] => latest'[p] = latest[p]
      BY <1>2, <2>1, <2>2
    <2>5. \A v \in Versions :
            Key("gone", v) \in holds[q] \/ Key("version", v) \in holds[q] =>
               version'[v] = version[v]
      BY <1>2, <2>1, <2>2
    <2> QED BY <2>3, <2>4, <2>5
  <1>9. Parents'
    <2>1. p0[1] \in contents' /\ version'[p0[2]] # NoRow
      BY <1>2
    <2>2. ASSUME NEW i \in Requests, result'[i] # NoRow
          PROVE  result'[i][1] \in contents' /\ version'[result'[i][2]] # NoRow
      <3>1. CASE i = r
        BY <1>2, <2>1, <3>1
      <3>2. CASE i # r
        BY <1>2, <1>4, <2>2, <3>2
      <3> QED BY <3>1, <3>2
    <2> QED BY <2>2 DEF Parents
  <1> QED BY <1>6, <1>7, <1>8, <1>9 DEF Leaves

LEMMA DeleteLeaves ==
  ASSUME SInv, NEW r \in Requests, Commit(r), ~Verifies(r)
  PROVE  Leaves(r) /\ Parents'
  <1>1. IInv /\ Sole /\ Parents /\ pc[r] = "commit" /\ CommitEnds(r) /\ DeleteOK(r)
    BY DeleteCommits DEF SInv
  <1>2. /\ contents' = {c \in contents : ~Wrote(r, "gone", c)}
        /\ \A v \in Versions :
             version'[v] = IF Wrote(r, "gone", v) THEN NoRow ELSE version[v]
        /\ \A i \in Requests :
             result'[i] = IF Wrote(r, "result", i) THEN NoRow ELSE result[i]
        /\ \A p \in Pairs : latest'[p] = IF Wrote(r, "latest", p) THEN NoRow ELSE latest[p]
    BY <1>1, DeleteCommits
  <1>3. ASSUME NEW i \in Requests, result'[i] # NoRow
        PROVE  /\ result'[i] = result[i] /\ result[i] # NoRow /\ result[i] \in Pairs
               /\ ~Wrote(r, "gone", result[i][1]) /\ ~Wrote(r, "gone", result[i][2])
    <2>1. result'[i] = result[i] /\ result[i] # NoRow /\ ~Wrote(r, "result", i)
      BY <1>2, <1>3
    <2>2. result[i] \in Pairs /\ i \in Results(r)
      BY <1>1, <2>1 DEF IInv, TypeOK, Results
    <2>3. result[i][1] \in Contents /\ result[i][2] \in Versions
      BY <2>2 DEF Pairs
    <2> QED BY <1>1, <2>1, <2>2, <2>3 DEF DeleteOK, Wrote
  <1>4. \A i \in Requests :
          result[i] # NoRow /\ result'[i] # NoRow =>
             result'[i] = result[i] /\ version'[result[i][2]] = version[result[i][2]]
    BY <1>2, <1>3 DEF Pairs
  <1>5. ASSUME NEW q \in Requests \ {r}
        PROVE  /\ \A i \in Requests : Drops(q, i) => result'[i] = result[i]
               /\ \A p \in Pairs : Key("latest", p) \in holds[q] => latest'[p] = latest[p]
               /\ \A v \in Versions :
                    Key("gone", v) \in holds[q] \/ Key("version", v) \in holds[q] =>
                       version'[v] = version[v]
    <2>1. /\ \A k \in holds[q] : k \in holds[r] => k[1] = "refer"
          /\ \A v \in Versions : Key("version", v) \in holds[q] => Key("gone", v) \notin holds[r]
      BY <1>1 DEF Sole
    <2>2. /\ \A x : Key("result", x)[1] # "refer" /\ Key("latest", x)[1] # "refer"
          /\ \A x : Key("gone", x)[1] # "refer"
      BY DEF Key
    <2>3. \A i \in Requests : Drops(q, i) => result'[i] = result[i]
      BY <1>2, <2>1, <2>2 DEF Drops, Wrote
    <2>4. \A p \in Pairs : Key("latest", p) \in holds[q] => latest'[p] = latest[p]
      BY <1>2, <2>1, <2>2 DEF Wrote
    <2>5. \A v \in Versions :
            Key("gone", v) \in holds[q] \/ Key("version", v) \in holds[q] =>
               version'[v] = version[v]
      BY <1>2, <2>1, <2>2 DEF Wrote
    <2> QED BY <2>3, <2>4, <2>5
  <1>6. Parents'
    <2>1. ASSUME NEW i \in Requests, result'[i] # NoRow
          PROVE  result'[i][1] \in contents' /\ version'[result'[i][2]] # NoRow
      <3>1. result[i][1] \in contents /\ version[result[i][2]] # NoRow
        BY <1>1, <1>3, <2>1 DEF Parents
      <3> QED BY <1>2, <1>3, <2>1, <3>1 DEF Pairs
    <2> QED BY <2>1 DEF Parents
  <1> QED BY <1>3, <1>4, <1>5, <1>6 DEF Leaves

\* Of a request that r does not meet, neither the pact nor the version nor any result of
\* that version changes.
LEMMA PassesBy ==
  ASSUME SInv, NEW r \in Requests, Commit(r), Leaves(r), NEW q \in Requests, ~Meets(q, r)
  PROVE  /\ contents' = contents /\ version'[Version(q)] = version[Version(q)]
         /\ ~Is(q, "delete_integration") /\ ~Is(r, "delete_integration")
         /\ \A i \in Requests :
              /\ result[i] # NoRow /\ result[i][2] = Version(q) => result'[i] = result[i]
              /\ result'[i] # NoRow /\ result'[i][2] = Version(q) => result'[i] = result[i]
  <1>1. /\ Version(q) # Version(r) /\ Version(q) \in Versions
        /\ ~Is(q, "delete_integration") /\ ~Is(r, "delete_integration")
    BY JobFacts DEF Meets, Is, SInv
  <1>2. IInv /\ pc[r] = "commit"
    BY CommitFacts DEF SInv
  <1>3. \A i \in Requests :
          result'[i] # NoRow /\ result'[i][2] = Version(q) => result'[i] = result[i]
    BY <1>1 DEF Leaves, Version
  <1>4. CASE Verifies(r)
    <2>1. PICK p0, c0, v0 : p0 = job[r].pair /\ c0 = Content(r) /\ v0 = Version(r)
      OBVIOUS
    <2>2. /\ contents' = contents
          /\ version' = [v \in Versions |->
                IF Key("version", v) \in holds[r] THEN row[r] ELSE version[v]]
          /\ \A v \in Versions : Key("version", v) \in holds[r] => v = v0
          /\ result[r] = NoRow /\ \A i \in Requests \ {r} : result'[i] = result[i]
      BY <1>2, <1>4, <2>1, ResultCommits
    <2>3. version'[Version(q)] = version[Version(q)]
      BY <1>1, <2>1, <2>2
    <2>4. \A i \in Requests : result[i] # NoRow => result'[i] = result[i]
      BY <2>2
    <2> QED BY <1>1, <1>3, <2>2, <2>3, <2>4
  <1>5. CASE ~Verifies(r)
    <2>1. /\ contents' = {c \in contents : ~Wrote(r, "gone", c)}
          /\ \A v \in Versions :
               version'[v] = IF Wrote(r, "gone", v) THEN NoRow ELSE version[v]
          /\ \A i \in Requests :
               result'[i] = IF Wrote(r, "result", i) THEN NoRow ELSE result[i]
      BY <1>2, <1>5, DeleteCommits
    <2>2. Held(r) /\ (Is(r, "delete_result") \/ Is(r, "delete_version"))
      BY <1>1, <1>2, <1>5, OpenFacts, KindFacts DEF Steps
    <2>3. \A c \in contents : ~Wrote(r, "gone", c)
      BY <1>1, <1>2, <2>2 DEF Held, Wrote, IInv, TypeOK
    <2>4. ~Wrote(r, "gone", Version(q))
      BY <1>1, <2>2 DEF Held, Wrote, Is
    <2>5. \A i \in Requests : Drops(r, i) => result[i][2] = Version(r)
      BY <1>1, <2>2 DEF Held, Meant, Version
    <2>6. contents' = contents
      BY <2>1, <2>3
    <2> QED BY <1>1, <1>3, <2>1, <2>4, <2>5, <2>6 DEF Drops, Wrote
  <1> QED BY <1>4, <1>5

\* What the commit of r does to the memory of the others: those that meet it know it.
LEMMA CommitOvertakes ==
  ASSUME SInv, NEW r \in Requests, Commit(r), NEW q \in Requests \ {r}
  PROVE  /\ pc[r] = "commit" /\ CommitEnds(r) /\ ~Open(r)'
         /\ overtaken' \in [Requests -> SUBSET Requests] /\ overtaken[q] \subseteq overtaken'[q]
         /\ Open(q) /\ Meets(q, r) => r \in overtaken'[q]
         /\ ~(Open(q) /\ Meets(q, r)) => overtaken'[q] = overtaken[q]
         /\ overtaken'[r] = overtaken[r]
  <1>1. pc[r] = "commit" /\ CommitEnds(r)
    BY CommitFacts DEF SInv
  <1>2. overtaken' = [p \in Requests |->
            IF Open(p) /\ p # r /\ Meets(p, r) THEN overtaken[p] \cup {r} ELSE overtaken[p]]
    BY Zenon DEF Commit
  <1>3. ~Open(r)'
    BY <1>1 DEF Open, CommitEnds, Steps
  <1> QED BY <1>1, <1>2, <1>3 DEF SInv

LEMMA OthersView ==
  ASSUME NEW r \in Requests, CommitEnds(r), NEW q \in Requests \ {r}
  PROVE  /\ pc'[q] = pc[q] /\ holds'[q] = holds[q] /\ row'[q] = row[q]
         /\ chosen'[q] = chosen[q] /\ kept'[q] = kept[q] /\ job'[q] = job[q]
         /\ Version(q)' = Version(q) /\ Content(q)' = Content(q) /\ Verifies(q)' = Verifies(q)
         /\ \A op : Is(q, op)' <=> Is(q, op)
         /\ \A i : Drops(q, i)' <=> Drops(q, i)
  BY DEF CommitEnds, Version, Content, Verifies, Is, Drops

LEMMA OthersHold ==
  ASSUME SInv, NEW r \in Requests, Commit(r), Leaves(r), NEW q \in Requests \ {r}, Open(q),
         ~Verifies(q)
  PROVE  OnItsWay(q)' /\ Held(q)' /\ Chosen(q)' /\ Integration(q)'
  <1>1. IInv /\ DeleteOK(q) /\ OnItsWay(q) /\ Held(q) /\ Chosen(q) /\ Integration(q)
    BY OpenFacts DEF Open
  <1>2. /\ pc[r] = "commit" /\ CommitEnds(r) /\ overtaken[q] \subseteq overtaken'[q]
        /\ Meets(q, r) => r \in overtaken'[q]
    BY CommitOvertakes
  <1>3. /\ pc'[q] = pc[q] /\ holds'[q] = holds[q] /\ row'[q] = row[q]
        /\ chosen'[q] = chosen[q] /\ kept'[q] = kept[q] /\ job'[q] = job[q]
        /\ Version(q)' = Version(q)
        /\ \A op : Is(q, op)' <=> Is(q, op)
        /\ \A i : Drops(q, i)' <=> Drops(q, i)
    BY <1>2, OthersView
  <1>4. OnItsWay(q)'
    BY <1>1, <1>3 DEF OnItsWay
  <1>5. ASSUME NEW i \in Requests, result[i] # NoRow, result'[i] # NoRow
        PROVE  /\ result'[i] = result[i]
               /\ VersionRow(result[i][2])' = VersionRow(result[i][2])
               /\ Orphaned(q, result[i][2])' <=> Orphaned(q, result[i][2])
               /\ Meant(q, i) => Meant(q, i)'
    <2>1. result'[i] = result[i] /\ version'[result[i][2]] = version[result[i][2]]
      BY <1>5 DEF Leaves
    <2>2. /\ VersionRow(result[i][2])' = VersionRow(result[i][2])
          /\ Orphaned(q, result[i][2])' <=> Orphaned(q, result[i][2])
      BY <1>3, <2>1 DEF VersionRow, Orphaned
    <2>3. Meant(q, i) => Meant(q, i)'
      BY <1>3, <2>1, <2>2 DEF Meant
    <2> QED BY <2>1, <2>2, <2>3
  <1>6. ASSUME NEW i \in Requests, Drops(q, i)
        PROVE  result[i] # NoRow /\ result'[i] = result[i] /\ Meant(q, i)
    BY <1>1, <1>6 DEF Leaves, Held
  <1>7. Held(q)'
    <2>1. \A i \in Requests : Drops(q, i)' => result'[i] # NoRow /\ Meant(q, i)'
      BY <1>3, <1>5, <1>6
    <2>2. \A p \in Pairs :
            Key("latest", p) \in holds'[q] => latest'[p] # NoRow /\ Drops(q, latest[p])
      BY <1>1, <1>3 DEF Held, Leaves
    <2>3. \A p \in Pairs : Key("latest", p) \in holds'[q] => latest'[p] = latest[p]
      BY <1>3 DEF Leaves
    <2>4. \A v \in Versions :
            Key("gone", v) \in holds[q] =>
              version'[v] = version[v] /\ (Orphaned(q, v)' <=> Orphaned(q, v))
      BY <1>3 DEF Leaves, Orphaned, VersionRow
    <2>5. /\ \A c \in Contents :
               Key("gone", c) \in holds'[q] => c \in Between /\ Is(q, "delete_integration")'
          /\ \A v \in Versions :
               Key("gone", v) \in holds'[q] =>
                  /\ pc'[q] = "commit" /\ version'[v] # NoRow /\ ~Is(q, "delete_result")'
                  /\ Is(q, "delete_version")' => v = Version(q)'
                  /\ Is(q, "delete_integration")' => Orphaned(q, v)'
      BY <1>1, <1>3, <2>4 DEF Held
    <2>6. \A p \in Pairs : Key("latest", p) \in holds'[q] => Key("result", latest'[p]) \in holds'[q]
      BY <1>3, <2>2, <2>3 DEF Drops
    <2> QED BY <2>1, <2>2, <2>5, <2>6 DEF Held, Drops
  <1>8. Chosen(q)'
    <2>1. ASSUME pc[q] \in Deleting, NEW i \in chosen[q], result'[i] # NoRow
          PROVE  i \in Requests /\ result[i] # NoRow /\ Meant(q, i)'
                 /\ (pc[q] \in Cascading => Drops(q, i))
      <3>1. i \in Requests /\ pc[i] = "done"
        BY <1>1, <2>1 DEF Chosen, DeleteOK
      <3>2. i # r
        BY <1>2, <3>1
      <3>3. result[i] # NoRow
        BY <2>1, <3>1, <3>2 DEF Leaves
      <3> QED BY <1>1, <1>5, <2>1, <3>1, <3>3 DEF Chosen
    <2>2. pc[q] \in Cascading => pc[q] \in Deleting
      BY DEF Cascading, Deleting
    <2>3. pc'[q] \in Deleting =>
            chosen'[q] \subseteq Requests
            /\ \A i \in chosen'[q] : result'[i] # NoRow => Meant(q, i)'
      BY <1>1, <1>3, <2>1 DEF Chosen
    <2>4. pc'[q] \in Cascading => \A i \in chosen'[q] : result'[i] # NoRow => Drops(q, i)'
      BY <1>3, <2>1, <2>2
    <2>5. pc'[q] = "remove" =>
            \A x \in chosen'[q] :
               /\ Is(q, "delete_version")' => x = <<Version(q)', row'[q]>>
               /\ Is(q, "delete_integration")' => x \notin kept'[q]
      BY <1>1, <1>3 DEF Chosen
    <2>6. ASSUME ~Is(q, "delete_result"), NEW i \in Requests, Drops(q, i), Entails(q, i)'
          PROVE  /\ pc[q] = "remove" => VersionRow(result[i][2])' \in chosen[q]
                 /\ pc[q] = "commit" => Key("gone", result'[i][2]) \in holds[q]
      <3>1. result[i] # NoRow /\ result'[i] = result[i]
        BY <1>6, <2>6
      <3>2. Entails(q, i)
        BY <1>3, <2>6, <3>1 DEF Entails
      <3> QED BY <1>1, <1>5, <2>6, <3>1, <3>2 DEF Chosen
    <2>7. \A i \in Requests : Drops(q, i)' => VersionRow(result[i][2])' = <<result'[i][2], version'[result'[i][2]]>>
      BY <1>3, <1>6 DEF VersionRow
    <2>8. ~Is(q, "delete_result")' =>
            \A i \in Requests :
               Drops(q, i)' /\ Entails(q, i)' =>
                  /\ pc'[q] = "remove" => <<result'[i][2], version'[result'[i][2]]>> \in chosen'[q]
                  /\ pc'[q] = "commit" => Key("gone", result'[i][2]) \in holds'[q]
      BY <1>3, <2>6, <2>7
    <2> QED BY <2>3, <2>4, <2>5, <2>8 DEF Chosen, VersionRow
  <1>9. Integration(q)'
    <2>1. SUFFICES ASSUME Is(q, "delete_integration") PROVE Integration(q)'
      BY <1>3 DEF Integration
    <2>2. r \in overtaken'[q]
      BY <1>2, <2>1 DEF Meets, Is
    <2>3. ASSUME pc[q] \in Sorted, NEW i \in Requests, result'[i] # NoRow,
                 result'[i][1] \notin Between, i \notin overtaken'[q]
          PROVE  <<result'[i][2], version'[result'[i][2]]>> \in kept'[q]
      <3>1. result[i] # NoRow
        BY <2>2, <2>3 DEF Leaves
      <3>2. result'[i] = result[i] /\ (Orphaned(q, result[i][2])' <=> Orphaned(q, result[i][2]))
        BY <1>5, <2>3, <3>1
      <3>3. ~Orphaned(q, result[i][2])
        BY <1>1, <1>2, <2>1, <2>3, <3>1, <3>2 DEF Integration
      <3> QED BY <3>2, <3>3 DEF Orphaned, VersionRow
    <2>4. pc'[q] \in {"orphans"} \cup Sorted => \A c \in Between : Key("gone", c) \in holds'[q]
      BY <1>1, <1>3, <2>1 DEF Integration
    <2> QED BY <1>3, <2>3, <2>4 DEF Integration, Orphaned, VersionRow
  <1> QED BY <1>4, <1>7, <1>8, <1>9

\* What a request that is not overtaken has found is still there.
LEMMA OthersSee ==
  ASSUME SInv, NEW r \in Requests, Commit(r), Leaves(r), NEW q \in Requests \ {r}, Open(q),
         overtaken'[q] = {}
  PROVE  Undisturbed(q)'
  <1>1. /\ pc[r] = "commit" /\ CommitEnds(r) /\ overtaken[q] = {} /\ ~Meets(q, r)
    BY CommitOvertakes
  <1>2. /\ pc'[q] = pc[q] /\ holds'[q] = holds[q] /\ row'[q] = row[q]
        /\ chosen'[q] = chosen[q] /\ kept'[q] = kept[q] /\ job'[q] = job[q]
        /\ Version(q)' = Version(q) /\ Content(q)' = Content(q)
        /\ \A op : Is(q, op)' <=> Is(q, op)
        /\ \A i : Drops(q, i)' <=> Drops(q, i)
    BY <1>1, OthersView
  <1>3. /\ contents' = contents /\ version'[Version(q)] = version[Version(q)]
        /\ ~Is(q, "delete_integration")
        /\ \A i \in Requests :
              /\ result[i] # NoRow /\ result[i][2] = Version(q) => result'[i] = result[i]
              /\ result'[i] # NoRow /\ result'[i][2] = Version(q) => result'[i] = result[i]
    BY <1>1, PassesBy
  <1>4. Undisturbed(q)
    BY <1>1, OpenFacts DEF Open
  <1>5. Is(q, "verify") => SeesPact(q)'
    BY <1>2, <1>3, <1>4 DEF Undisturbed, SeesPact
  <1>6. Is(q, "delete_result") => SeesResult(q)'
    <2>1. SUFFICES ASSUME Is(q, "delete_result") PROVE SeesResult(q)'
      OBVIOUS
    <2>2. SeesResult(q) /\ Chosen(q) /\ ~Verifies(q)
      BY <1>4, <2>1, OpenFacts, KindFacts DEF Undisturbed, Open, Verifies, Is
    <2>3. pc[q] = "delete" => \E i \in chosen[q] : result'[i] = job[q].pair
      <3>1. SUFFICES ASSUME pc[q] = "delete" PROVE \E i \in chosen[q] : result'[i] = job[q].pair
        OBVIOUS
      <3>2. PICK i \in chosen[q] : result[i] = job[q].pair
        BY <2>2, <3>1 DEF SeesResult
      <3>3. i \in Requests /\ result[i] # NoRow /\ result[i][2] = Version(q)
        BY <2>2, <3>1, <3>2, JobFacts, VerificationResultsAssumption
        DEF Chosen, Deleting, Version, SInv
      <3> QED BY <1>3, <3>2, <3>3
    <2> QED BY <1>2, <2>2, <2>3 DEF SeesResult
  <1>7. Is(q, "delete_version") => SeesVersion(q)'
    <2>1. SUFFICES ASSUME Is(q, "delete_version") PROVE SeesVersion(q)'
      OBVIOUS
    <2>2. SeesVersion(q)
      BY <1>4, <2>1 DEF Undisturbed
    <2>3. \A i \in Results(q)' :
            result'[i][2] = Version(q) => i \in Results(q) /\ result[i][2] = Version(q)
      BY <1>2, <1>3 DEF Results, Wrote
    <2>4. VersionRow(Version(q))' = VersionRow(Version(q))
      BY <1>2, <1>3 DEF VersionRow
    <2> QED BY <1>2, <1>3, <2>2, <2>3, <2>4 DEF SeesVersion
  <1>8. ~Is(q, "delete_integration")'
    BY <1>2, <1>3
  <1> QED BY <1>2, <1>5, <1>6, <1>7, <1>8 DEF Undisturbed

LEMMA OthersServe ==
  ASSUME SInv, NEW r \in Requests, Commit(r), Leaves(r), NEW q \in Requests \ {r}, Open(q)
  PROVE  Serves(q)'
  <1>1. CommitEnds(r)
    BY CommitOvertakes
  <1>2. /\ pc'[q] = pc[q] /\ holds'[q] = holds[q] /\ row'[q] = row[q]
        /\ Version(q)' = Version(q) /\ Verifies(q)' = Verifies(q)
    BY <1>1, OthersView
  <1>3. Verifies(q) => Creates(q)'
    <2>1. SUFFICES ASSUME Verifies(q) PROVE Creates(q)'
      OBVIOUS
    <2>2. Creates(q) /\ Version(q) \in Versions
      BY <2>1, OpenFacts, JobFacts DEF Open, SInv
    <2>3. Key("version", Version(q)) \in holds[q] => version'[Version(q)] = version[Version(q)]
      BY <2>2 DEF Leaves
    <2> QED BY <1>2, <2>2, <2>3 DEF Creates
  <1>4. ~Verifies(q) => OnItsWay(q)' /\ Held(q)' /\ Chosen(q)' /\ Integration(q)'
    BY OthersHold
  <1>5. overtaken'[q] = {} => Undisturbed(q)'
    BY OthersSee
  <1> QED BY <1>2, <1>3, <1>4, <1>5 DEF Serves

LEMMA CommitServes ==
  ASSUME SInv, NEW r \in Requests, Commit(r), IInv'
  PROVE  SInv'
  <1>1. IInv /\ pc[r] = "commit" /\ CommitEnds(r)
    BY CommitFacts DEF SInv
  <1>2. Leaves(r) /\ Parents'
    BY ResultLeaves, DeleteLeaves
  <1>3. Sole'
    BY <1>1 DEF SInv, Sole, CommitEnds
  <1>4. /\ overtaken' = [p \in Requests |->
            IF Open(p) /\ p # r /\ Meets(p, r) THEN overtaken[p] \cup {r} ELSE overtaken[p]]
    BY Zenon DEF Commit
  <1>5. overtaken' \in [Requests -> SUBSET Requests]
    BY <1>4 DEF SInv
  <1>6. kept' \in [Requests -> SUBSET VersionRows]
    BY <1>1 DEF CommitEnds, SInv
  <1>7. ASSUME NEW q \in Requests, pc'[q] = "idle" PROVE overtaken'[q] = {}
    <2>1. pc[q] = "idle" /\ q # r
      BY <1>1, <1>7 DEF CommitEnds
    <2>2. ~Open(q) /\ overtaken[q] = {}
      BY <2>1 DEF Open, Steps, SInv
    <2> QED BY <1>4, <2>1, <2>2
  <1>8. ASSUME NEW q \in Requests, Open(q)' PROVE Serves(q)'
    <2>1. q # r /\ Open(q)
      BY <1>1, <1>8 DEF CommitEnds, Open, Steps
    <2> QED BY <1>2, <2>1, OthersServe
  <1> QED BY <1>2, <1>3, <1>5, <1>6, <1>7, <1>8 DEF SInv

LEMMA SInvNext == SInv /\ [Next]_vars => SInv'
  <1> SUFFICES ASSUME SInv, [Next]_vars PROVE SInv'
    OBVIOUS
  <1>0. IInv'
    BY IInvNext DEF SInv
  <1>1. CASE UNCHANGED vars
    <2>1. /\ UNCHANGED <<contents, version, result, latest, last, job, row, chosen, kept>>
          /\ UNCHANGED <<pc, holds, overtaken>>
      BY <1>1 DEF vars, tables, memory
    <2>2. Sole' /\ Parents'
      BY <2>1 DEF SInv, Sole, Parents
    <2>3. ASSUME NEW r \in Requests, Open(r)' PROVE Serves(r)'
      <3>1. Open(r) /\ Serves(r)
        BY <2>1, <2>3 DEF Open, SInv
      <3>3. /\ Verifies(r)' = Verifies(r) /\ Version(r)' = Version(r) /\ Results(r)' = Results(r)
            /\ Content(r)' = Content(r)
            /\ \A op : Is(r, op)' <=> Is(r, op)
            /\ \A v : VersionRow(v)' = VersionRow(v) /\ (Orphaned(r, v)' <=> Orphaned(r, v))
            /\ \A v : ForeignResult(v)' <=> ForeignResult(v)
            /\ \A i : (Drops(r, i)' <=> Drops(r, i)) /\ (Entails(r, i)' <=> Entails(r, i))
        BY <2>1 DEF Verifies, Version, Results, Wrote, Content, Is, VersionRow, Orphaned,
                    ForeignResult, Drops, Entails
      <3>4. \A i : Meant(r, i)' <=> Meant(r, i)
        BY <2>1, <3>3 DEF Meant
      <3>5. Creates(r)' <=> Creates(r)
        BY <2>1, <3>3 DEF Creates
      <3>6. OnItsWay(r)' <=> OnItsWay(r)
        BY <2>1, <3>3 DEF OnItsWay
      <3>7. Held(r)' <=> Held(r)
        BY <2>1, <3>3, <3>4 DEF Held
      <3>8. Chosen(r)' <=> Chosen(r)
        BY <2>1, <3>3, <3>4 DEF Chosen
      <3>9. Integration(r)' <=> Integration(r)
        BY <2>1, <3>3 DEF Integration
      <3>10. Undisturbed(r)' <=> Undisturbed(r)
        BY <2>1, <3>3 DEF Undisturbed, SeesPact, SeesResult, SeesVersion, SeesIntegration
      <3> QED BY <2>1, <3>1, <3>3, <3>5, <3>6, <3>7, <3>8, <3>9, <3>10 DEF Serves
    <2> QED BY <1>0, <2>1, <2>2, <2>3 DEF SInv
  <1>2. ASSUME NEW r \in Requests, Begin(r) PROVE SInv'
    BY <1>0, <1>2, BeginVerifyServes, BeginDeleteResultServes, BeginDeleteVersionServes,
       BeginDeleteIntegrationServes DEF Begin
  <1>3. ASSUME NEW r \in Requests, Proceed(r) PROVE SInv'
    <2>0. UNCHANGED overtaken
      BY <1>3 DEF Proceed
    <2>1. CASE FindPact(r)
      BY <1>0, <2>0, <2>1, FindPactServes
    <2>2. CASE FindVersion(r)
      BY <1>0, <2>0, <2>2, FindVersionServes
    <2>3. CASE UpsertVersion(r)
      BY <1>0, <2>0, <2>3, UpsertVersionServes
    <2>4. CASE SaveResult(r)
      BY <1>0, <2>0, <2>4, SaveResultServes
    <2>5. CASE UpdateLatest(r)
      BY <1>0, <2>0, <2>5, UpdateLatestServes
    <2>6. CASE ChooseResults(r)
      BY <1>0, <2>0, <2>6, ChooseResultsServes
    <2>7. CASE DeleteResults(r)
      BY <1>0, <2>0, <2>7, DeleteChosenServes DEF DeleteResults
    <2>8. CASE CascadeToLatest(r)
      BY <1>0, <2>0, <2>8, CascadeToLatestServes
    <2>9. CASE DeleteContents(r)
      BY <1>0, <2>0, <2>9, DeleteContentsServes
    <2>10. CASE FindVersionsWithResults(r)
      BY <1>0, <2>0, <2>10, FindVersionsWithResultsServes
    <2>11. CASE ChooseResultsAgain(r)
      BY <1>0, <2>0, <2>11, ChooseResultsAgainServes
    <2>12. CASE DeleteResultsAgain(r)
      BY <1>0, <2>0, <2>12, DeleteChosenServes DEF DeleteResultsAgain
    <2>13. CASE CascadeAgain(r)
      BY <1>0, <2>0, <2>13, CascadeServes DEF CascadeAgain
    <2>14. CASE ChooseVersions(r)
      BY <1>0, <2>0, <2>14, ChooseVersionsServes
    <2>15. CASE DeleteVersions(r)
      BY <1>0, <2>0, <2>15, DeleteVersionsServes
    <2> QED
      BY <1>3, <2>1, <2>2, <2>3, <2>4, <2>5, <2>6, <2>7, <2>8, <2>9, <2>10, <2>11, <2>12,
         <2>13, <2>14, <2>15 DEF Proceed
  <1>4. ASSUME NEW r \in Requests, Commit(r) PROVE SInv'
    BY <1>0, <1>4, CommitServes
  <1>5. ASSUME NEW r \in Requests, DeadlockVictim(r) PROVE SInv'
    BY <1>0, <1>5, GivingUpServes DEF DeadlockVictim
  <1> QED BY <1>1, <1>2, <1>3, <1>4, <1>5 DEF Next, Step

LEMMA SInvHolds == Spec => []SInv
  <1> QED BY SInvInit, SInvNext, PTL DEF Spec

(* Each request acts in one step of the service. *)

\* A delete of one result never holds another.
Single ==
    \A r \in Requests :
        Open(r) /\ Is(r, "delete_result") =>
          \E i \in Requests : chosen[r] = {i} /\ \A j \in Requests : Drops(r, j) => j = i

LEMMA SingleInit == Init => Single
  BY DEF Init, Single, Open, Steps

LEMMA SingleNext == SInv /\ Single /\ [Next]_vars => Single'
  <1> SUFFICES ASSUME SInv, Single, [Next]_vars PROVE Single'
    OBVIOUS
  <1>1. CASE UNCHANGED vars
    BY <1>1 DEF vars, memory, Single, Open, Is, Drops
  <1>2. ASSUME NEW r \in Requests, job' = job, pc'[r] \in Outcomes \/ ~Is(r, "delete_result"),
               \A q \in Requests \ {r} :
                  pc'[q] = pc[q] /\ chosen'[q] = chosen[q] /\ holds'[q] = holds[q]
        PROVE  Single'
    <2>1. \A q \in Requests : Open(q)' /\ Is(q, "delete_result")' => q # r
      BY <1>2 DEF Open, Is, Steps, Outcomes
    <2> QED BY <1>2, <2>1 DEF Single, Open, Is, Drops
  <1>3. ASSUME NEW r \in Requests, UNCHANGED <<job, chosen>>, NEW step \in {"delete", "cascade"},
               pc[r] = step, NEW next, Go(r, next), NEW K, Lock(r, K),
               \A j \in Requests : Key("result", j) \in K => j \in chosen[r]
        PROVE  Single'
    <2>1. /\ holds'[r] = holds[r] \cup K
          /\ \A q \in Requests \ {r} : pc'[q] = pc[q] /\ holds'[q] = holds[q]
      BY <1>3 DEF Go, Lock, SInv, IInv, TypeOK, MemoryOK
    <2>2. ASSUME Is(r, "delete_result")
          PROVE  \E i \in Requests : chosen[r] = {i} /\ \A j \in Requests : Drops(r, j)' => j = i
      <3>1. PICK i \in Requests : chosen[r] = {i} /\ \A j \in Requests : Drops(r, j) => j = i
        BY <1>3, <2>2 DEF Single, Open, Steps
      <3> QED BY <1>3, <2>1, <3>1 DEF Drops
    <2> QED BY <1>3, <2>1, <2>2 DEF Single, Open, Is, Drops
  <1>4. SInv'
    BY SInvNext
  <1>5. ASSUME NEW r \in Requests, Begin(r) PROVE Single'
    <2>1. CASE BeginVerify(r) \/ BeginDeleteVersion(r) \/ BeginDeleteIntegration(r)
      <3>1. job' = job /\ chosen' = chosen /\ holds' = holds /\ ~Is(r, "delete_result")
        BY <2>1 DEF BeginVerify, BeginDeleteVersion, BeginDeleteIntegration, tables, memory, Is
      <3>2. \A q \in Requests \ {r} : pc'[q] = pc[q]
        BY <2>1 DEF BeginVerify, BeginDeleteVersion, BeginDeleteIntegration, Go, SInv, IInv, TypeOK
      <3> QED BY <1>2, <3>1, <3>2
    <2>2. CASE BeginDeleteResult(r)
      <3>1. pc[r] = "idle" /\ job' = job /\ holds' = holds /\ holds[r] = {}
        BY <2>2 DEF BeginDeleteResult, SInv, IInv, TypeOK
      <3>2. CASE \E i \in Requests : chosen' = [chosen EXCEPT ![r] = {i}] /\ Go(r, "delete")
        BY <3>1, <3>2 DEF Single, Open, Is, Drops, Go, SInv, IInv, TypeOK, MemoryOK
      <3>3. CASE chosen' = chosen /\ Go(r, "missing")
        BY <1>2, <3>1, <3>3 DEF Go, SInv, IInv, TypeOK, Outcomes
      <3> QED BY <2>2, <3>2, <3>3 DEF BeginDeleteResult
    <2> QED BY <1>5, <2>1, <2>2 DEF Begin
  <1>6. ASSUME NEW r \in Requests, NEW outcome \in Outcomes, Go(r, outcome),
               UNCHANGED memory, holds' = [holds EXCEPT ![r] = {}]
        PROVE  Single'
    <2>1. /\ job' = job /\ chosen' = chosen /\ pc'[r] \in Outcomes
          /\ \A q \in Requests \ {r} : pc'[q] = pc[q] /\ holds'[q] = holds[q]
      BY <1>6 DEF Go, memory, SInv, IInv, TypeOK, MemoryOK
    <2> QED BY <1>2, <2>1
  <1>7. ASSUME NEW r \in Requests, Commit(r) \/ DeadlockVictim(r) PROVE Single'
    BY <1>6, <1>7 DEF Commit, DeadlockVictim, End, Outcomes
  <1>8. ASSUME NEW r \in Requests, Proceed(r), pc[r] \notin {"delete", "cascade"} PROVE Single'
    <2>1. pc[r] \in Steps \ {"commit"}
      BY <1>8
      DEF Proceed, FindPact, FindVersion, UpsertVersion, SaveResult, UpdateLatest, ChooseResults,
          DeleteResults, CascadeToLatest, DeleteContents, FindVersionsWithResults,
          ChooseResultsAgain, DeleteResultsAgain, CascadeAgain, ChooseVersions, DeleteVersions,
          Choose, DeleteChosen, Cascade, At, Steps
    <2>2. ~Is(r, "delete_result")
      BY <1>8, <2>1, OpenFacts, KindFacts DEF OnItsWay, Verifies, Is
    <2>3. /\ job' = job
          /\ \A q \in Requests \ {r} :
                pc'[q] = pc[q] /\ chosen'[q] = chosen[q] /\ holds'[q] = holds[q]
      BY <1>8
      DEF Proceed, FindPact, FindVersion, UpsertVersion, SaveResult, UpdateLatest, ChooseResults,
          DeleteResults, CascadeToLatest, DeleteContents, FindVersionsWithResults,
          ChooseResultsAgain, DeleteResultsAgain, CascadeAgain, ChooseVersions, DeleteVersions,
          Choose, DeleteChosen, Cascade, End, Go, Lock, memory, SInv, IInv, TypeOK, MemoryOK
    <2> QED BY <1>2, <2>2, <2>3
  <1>9. ASSUME NEW r \in Requests, Proceed(r), pc[r] \in {"delete", "cascade"} PROVE Single'
    <2>1. DeleteResults(r) \/ CascadeToLatest(r)
      BY <1>9
      DEF Proceed, FindPact, FindVersion, UpsertVersion, SaveResult, UpdateLatest, ChooseResults,
          DeleteContents, FindVersionsWithResults,
          ChooseResultsAgain, DeleteResultsAgain, CascadeAgain, ChooseVersions, DeleteVersions,
          Choose, DeleteChosen, Cascade, At
    <2>2. CASE DeleteResults(r)
      <3>1. /\ Go(r, "cascade") /\ Lock(r, Keys("result", RemainingResults(r)))
            /\ UNCHANGED <<job, chosen>>
        BY <2>2 DEF DeleteResults, DeleteChosen, memory
      <3>2. \A j : Key("result", j) \in Keys("result", RemainingResults(r)) => j \in chosen[r]
        BY DEF Keys, Key, RemainingResults
      <3> QED BY <1>3, <1>9, <3>1, <3>2
    <2>3. CASE CascadeToLatest(r)
      <3>1. PICK next : Cascade(r, "cascade", next)
        BY <2>3, Zenon DEF CascadeToLatest
      <3>2. Go(r, next) /\ Lock(r, Keys("latest", LatestRows(r))) /\ UNCHANGED <<job, chosen>>
        BY <3>1 DEF Cascade, memory
      <3>3. \A j : Key("result", j) \notin Keys("latest", LatestRows(r))
        BY DEF Keys, Key
      <3> QED BY <1>3, <1>9, <3>2, <3>3
    <2> QED BY <2>1, <2>2, <2>3
  <1> QED BY <1>1, <1>5, <1>7, <1>8, <1>9 DEF Next, Step

\* The answers, as the service has them, before and after a step of r.
LEMMA AnswerFacts ==
  ASSUME SInv, NEW r \in Requests, NEW step \in Steps \cup Outcomes, Go(r, step),
         NEW outcome, step \in Steps => outcome = "open", step \in Outcomes => outcome = step
  PROVE  [q \in Requests |-> AnswerOf(q)]' =
            [[q \in Requests |-> AnswerOf(q)] EXCEPT ![r] = outcome]
  <1>1. pc'[r] = step /\ \A q \in Requests \ {r} : pc'[q] = pc[q]
    BY DEF Go, SInv, IInv, TypeOK
  <1>2. AnswerOf(r)' = outcome
    <2>1. step \in Steps <=> step \notin Outcomes
      BY DEF Steps, Outcomes
    <2> QED BY <1>1, <2>1 DEF AnswerOf, Open
  <1>3. \A q \in Requests \ {r} : AnswerOf(q)' = AnswerOf(q)
    BY <1>1 DEF AnswerOf, Open
  <1> QED BY <1>2, <1>3

\* A statement that does not end the request changes nothing that the service shows.
LEMMA GoingOnIsSilent ==
  ASSUME SInv, NEW r \in Requests, Open(r), NEW step \in Steps, Go(r, step),
         UNCHANGED <<tables, job, overtaken>>
  PROVE  UNCHANGED Service!svars
  <1>1. [q \in Requests |-> AnswerOf(q)]' =
            [[q \in Requests |-> AnswerOf(q)] EXCEPT ![r] = "open"]
    <2>1. step \notin Outcomes
      BY DEF Steps, Outcomes
    <2> QED BY <2>1, AnswerFacts
  <1>2. AnswerOf(r) = "open"
    BY DEF AnswerOf
  <1>3. UNCHANGED [q \in Requests |-> AnswerOf(q)]
    BY <1>1, <1>2
  <1>4. UNCHANGED {v \in Versions : version[v] # NoRow}
    BY DEF tables
  <1> QED BY <1>3, <1>4 DEF Service!svars, Service!store, tables

LEMMA MeetsFacts ==
  ASSUME NEW r \in Requests, NEW p \in Requests
  PROVE  Service!Meets(r, p) <=> Meets(r, p)
  BY DEF Service!Meets, Meets, Version

\* A request fails only if it was overtaken or another one that it meets is open.
LEMMA Failing ==
  ASSUME SInv, NEW r \in Requests, Open(r), Go(r, "error"), UNCHANGED <<tables, job, overtaken>>,
         overtaken[r] # {} \/ \E p \in Requests \ {r} : Open(p) /\ Meets(r, p)
  PROVE  Service!Err(r)
  <1>1. [q \in Requests |-> AnswerOf(q)]' =
            [[q \in Requests |-> AnswerOf(q)] EXCEPT ![r] = "error"]
    BY AnswerFacts DEF Outcomes, Steps
  <1>2. [q \in Requests |-> AnswerOf(q)][r] = "open"
    BY DEF AnswerOf
  <1>3. overtaken[r] # {} \/ \E p \in Service!Open \ {r} : Service!Meets(r, p)
    BY MeetsFacts DEF Service!Open, AnswerOf
  <1>4. UNCHANGED {v \in Versions : version[v] # NoRow}
    BY DEF tables
  <1> QED BY <1>1, <1>2, <1>3, <1>4 DEF Service!Err, Service!store, tables

\* A request that begins is asked, or there is nothing for it.
LEMMA Beginning ==
  ASSUME SInv, NEW r \in Requests, Begin(r)
  PROVE  Service!Ask(r) \/ Service!Refuse(r)
  <1>1. /\ pc[r] = "idle" /\ UNCHANGED <<tables, job, overtaken>>
    BY DEF Begin, BeginVerify, BeginDeleteResult, BeginDeleteVersion, BeginDeleteIntegration,
           memory
  <1>2. [q \in Requests |-> AnswerOf(q)][r] = "idle"
    BY <1>1 DEF AnswerOf, Open, Steps
  <1>3. UNCHANGED {v \in Versions : version[v] # NoRow}
    BY <1>1 DEF tables
  <1>4. \/ \E step \in Steps : Go(r, step) /\ ~Service!Missing(r)
        \/ Go(r, "missing") /\ Service!Missing(r)
    <2>1. CASE BeginVerify(r)
      BY <2>1 DEF BeginVerify, Service!Missing, Content, Steps
    <2>2. CASE BeginDeleteResult(r)
      BY <2>2 DEF BeginDeleteResult, Service!Missing, Steps
    <2>3. CASE BeginDeleteVersion(r)
      <3>1. Version(r) \in Versions
        BY JobFacts DEF SInv
      <3>2. version[Version(r)] = NoRow <=> job[r].pair[2] \notin {v \in Versions : version[v] # NoRow}
        BY <3>1 DEF Version
      <3> QED BY <2>3, <3>2 DEF BeginDeleteVersion, Service!Missing, Steps
    <2>4. CASE BeginDeleteIntegration(r)
      BY <2>4 DEF BeginDeleteIntegration, Service!Missing, Steps
    <2> QED BY <2>1, <2>2, <2>3, <2>4 DEF Begin
  <1>5. CASE \E step \in Steps : Go(r, step) /\ ~Service!Missing(r)
    <2>1. PICK step \in Steps : Go(r, step)
      BY <1>5
    <2>2. [q \in Requests |-> AnswerOf(q)]' =
            [[q \in Requests |-> AnswerOf(q)] EXCEPT ![r] = "open"]
      <3>1. step \notin Outcomes
        BY DEF Steps, Outcomes
      <3> QED BY <2>1, <3>1, AnswerFacts
    <2> QED BY <1>1, <1>2, <1>3, <1>5, <2>2 DEF Service!Ask, Service!store, tables
  <1>6. CASE Go(r, "missing") /\ Service!Missing(r)
    <2>1. [q \in Requests |-> AnswerOf(q)]' =
            [[q \in Requests |-> AnswerOf(q)] EXCEPT ![r] = "missing"]
      BY <1>6, AnswerFacts DEF Outcomes, Steps
    <2> QED BY <1>1, <1>2, <1>3, <1>6, <2>1 DEF Service!Refuse, Service!store, tables
  <1> QED BY <1>4, <1>5, <1>6

\* What a request has locked is about its own version, unless it deletes an integration.
LEMMA LocksTell ==
  ASSUME SInv, NEW p \in Requests, Open(p), ~Is(p, "delete_integration")
  PROVE  /\ \A v \in Versions, kind \in {"version", "refer", "gone"} :
              Key(kind, v) \in holds[p] => v = Version(p)
         /\ \A c \in Contents : Key("gone", c) \notin holds[p]
         /\ \A i \in Requests :
              Key("result", i) \in holds[p] /\ result[i] # NoRow => result[i][2] = Version(p)
         /\ \A x \in Pairs : Key("latest", x) \in holds[p] => x[2] = Version(p)
  <1>1. IInv /\ pc[p] \in Steps
    BY DEF SInv, Open
  <1>2. /\ Content(p) \in Contents /\ Version(p) \in Versions
        /\ job[p].pair = <<Content(p), Version(p)>>
    BY <1>1, JobFacts
  <1>3. CASE Verifies(p)
    <2>1. holds[p] \subseteq VerifyKeys(p)
      BY <1>1, <1>3, OpenFacts DEF VerifyOK
    <2>2. result[p] = NoRow
      BY <1>1 DEF IInv, ResultsAreDone, Steps
    <2>3. \A v \in Versions, kind \in {"version", "refer", "gone"} :
              Key(kind, v) \in holds[p] => v = Version(p)
      BY <1>2, <2>1, VerificationResultsAssumption DEF VerifyKeys, Key
    <2>4. \A c \in Contents : Key("gone", c) \notin holds[p]
      BY <2>1 DEF VerifyKeys, Key
    <2>5. \A i \in Requests : Key("result", i) \in holds[p] => i = p
      BY <2>1 DEF VerifyKeys, Key
    <2>6. \A x \in Pairs : Key("latest", x) \in holds[p] => x[2] = Version(p)
      BY <1>2, <2>1 DEF VerifyKeys, Key
    <2> QED BY <2>2, <2>3, <2>4, <2>5, <2>6
  <1>4. CASE ~Verifies(p)
    <2>1. Held(p) /\ DeleteOK(p)
      BY <1>1, <1>4, OpenFacts
    <2>2. Is(p, "delete_result") \/ Is(p, "delete_version")
      BY <1>4, KindFacts
    <2>3. \A i \in Requests :
             Key("result", i) \in holds[p] => result[i] # NoRow /\ result[i][2] = Version(p)
      BY <2>1, <2>2 DEF Held, Drops, Meant, Version, Is
    <2>4. \A v \in Versions, kind \in {"version", "refer", "gone"} :
              Key(kind, v) \in holds[p] => v = Version(p)
      <3>1. \A x : Key("version", x) \notin holds[p] /\ Key("refer", x) \notin holds[p]
        BY <2>1 DEF DeleteOK, Key
      <3>2. \A v \in Versions : Key("gone", v) \in holds[p] => v = Version(p)
        BY <2>1, <2>2 DEF Held
      <3> QED BY <3>1, <3>2
    <2>5. \A c \in Contents : Key("gone", c) \notin holds[p]
      BY <2>1 DEF Held
    <2>6. \A x \in Pairs : Key("latest", x) \in holds[p] => x[2] = Version(p)
      <3>1. SUFFICES ASSUME NEW x \in Pairs, Key("latest", x) \in holds[p] PROVE x[2] = Version(p)
        OBVIOUS
      <3>2. latest[x] # NoRow /\ Drops(p, latest[x]) /\ latest[x] \in Requests
        BY <1>1, <2>1, <3>1 DEF Held, IInv, TypeOK
      <3>3. result[latest[x]] = x
        BY <1>1, <3>2 DEF IInv, LatestNamesResult
      <3> QED BY <2>3, <3>2, <3>3 DEF Drops
    <2> QED BY <2>3, <2>4, <2>5, <2>6
  <1> QED BY <1>3, <1>4

\* So is what it waits for.
LEMMA NeedsTell ==
  ASSUME SInv, NEW r \in Requests, Open(r), ~Is(r, "delete_integration"), NEW k \in Needs(r)
  PROVE  \/ \E kind \in {"version", "refer", "gone"} : k = Key(kind, Version(r))
         \/ \E c \in Contents : k = Key("gone", c)
         \/ \E i \in Requests :
              k = Key("result", i) /\ result[i] # NoRow /\ result[i][2] = Version(r)
         \/ \E x \in Pairs : k = Key("latest", x) /\ x[2] = Version(r)
  <1>1. IInv /\ pc[r] \in Steps
    BY DEF SInv, Open
  <1>2. /\ Content(r) \in Contents /\ Version(r) \in Versions /\ job[r].pair \in Pairs
        /\ job[r].pair = <<Content(r), Version(r)>>
    BY <1>1, JobFacts
  <1>3. CASE pc[r] = "create"
    <2>1. Needs(r) = {Key("version", Version(r)), Key("gone", Version(r))}
      BY <1>3, Zenon DEF Needs
    <2> QED BY <2>1
  <1>4. CASE pc[r] = "insert"
    <2>1. Needs(r) = {Key("gone", Content(r)), Key("gone", Version(r))}
      BY <1>4, Zenon DEF Needs
    <2> QED BY <1>2, <2>1
  <1>5. CASE pc[r] = "latest"
    <2>1. Needs(r) = {Key("latest", job[r].pair)}
      BY <1>5, Zenon DEF Needs
    <2> QED BY <1>2, <2>1
  <1>6. ASSUME pc[r] \in Deleting
        PROVE  \A i \in chosen[r] :
                 i \in Requests /\ (result[i] # NoRow => result[i][2] = Version(r))
    <2>1. Chosen(r) /\ ~Verifies(r)
      BY <1>1, <1>6, OpenFacts, DeleteFacts DEF Deleting, DeleteSteps, Steps, VerifySteps
    <2>2. Is(r, "delete_result") \/ Is(r, "delete_version")
      BY <2>1, KindFacts
    <2> QED BY <1>6, <2>1, <2>2 DEF Chosen, Meant, Version, Is
  <1>7. CASE pc[r] \in {"delete", "delete_again"}
    <2>1. Needs(r) = Keys("result", RemainingResults(r))
      BY <1>7, Zenon DEF Needs
    <2>2. PICK i \in RemainingResults(r) : k = Key("result", i)
      BY <2>1 DEF Keys
    <2> QED BY <1>6, <1>7, <2>2 DEF RemainingResults, Deleting
  <1>8. CASE pc[r] \in {"cascade", "cascade_again"}
    <2>1. Needs(r) = Keys("latest", LatestRows(r))
      BY <1>8, Zenon DEF Needs
    <2>2. PICK x \in Pairs : k = Key("latest", x) /\ latest[x] \in chosen[r]
      BY <2>1 DEF Keys, LatestRows
    <2>3. latest[x] \in Requests /\ (result[latest[x]] # NoRow => result[latest[x]][2] = Version(r))
      BY <1>6, <1>8, <2>2 DEF Deleting
    <2>4. result[latest[x]] = x /\ x # NoRow
      BY <1>1, <2>3, VerificationResultsAssumption DEF IInv, LatestNamesResult, Ids
    <2> QED BY <2>2, <2>3, <2>4
  <1>9. CASE pc[r] = "remove"
    <2>1. Needs(r) = UNION {Keys(kind, RemainingVersions(r)) : kind \in {"version", "refer", "gone"}}
      BY <1>9, Zenon DEF Needs
    <2>2. PICK kind \in {"version", "refer", "gone"}, v \in RemainingVersions(r) : k = Key(kind, v)
      BY <2>1 DEF Keys
    <2>3. Chosen(r) /\ OnItsWay(r) /\ ~Verifies(r)
      BY <1>9, DeleteFacts, DeleteStepsFacts
    <2>4. Is(r, "delete_version")
      BY <1>9, <2>3, KindFacts DEF OnItsWay
    <2>5. v = Version(r)
      BY <1>9, <2>2, <2>3, <2>4 DEF Chosen, RemainingVersions, VersionRow
    <2> QED BY <2>2, <2>5
  <1>10. CASE pc[r] = "contents"
    <2>1. OnItsWay(r) /\ ~Verifies(r)
      BY <1>10, DeleteFacts, DeleteStepsFacts
    <2> QED BY <1>10, <2>1, KindFacts DEF OnItsWay
  <1>11. ASSUME pc[r] \notin {"create", "insert", "latest", "delete", "delete_again", "cascade",
                              "cascade_again", "contents", "remove"}
         PROVE  FALSE
    <2>1. Needs(r) = {}
      BY <1>11 DEF Needs
    <2> QED BY <2>1
  <1> QED BY <1>3, <1>4, <1>5, <1>7, <1>8, <1>9, <1>10, <1>11

\* Requests that wait for each other meet.
LEMMA VictimsMeet ==
  ASSUME SInv, NEW r \in Requests, Waits(r) # {}
  PROVE  Open(r) /\ \E p \in Requests \ {r} : Open(p) /\ Meets(r, p)
  <1>1. PICK p \in Requests \ {r}, k \in Needs(r) : k \in holds[p]
    BY DEF Waits
  <1>2. Open(r)
    <2>1. pc[r] \in Steps
      BY <1>1, Zenon DEF Needs, Steps
    <2> QED BY <2>1 DEF Open
  <1>3. Open(p)
    BY <1>1 DEF SInv, IInv, TypeOK, Open
  <1>4. ASSUME ~Meets(r, p) PROVE FALSE
    <2>1. /\ ~Is(r, "delete_integration") /\ ~Is(p, "delete_integration")
          /\ Version(r) # Version(p) /\ Version(r) \in Versions
      BY <1>4, JobFacts DEF Meets, Is, SInv
    <2>2. CASE \E kind \in {"version", "refer", "gone"} : k = Key(kind, Version(r))
      BY <1>1, <1>3, <2>1, <2>2, LocksTell
    <2>3. CASE \E c \in Contents : k = Key("gone", c)
      BY <1>1, <1>3, <2>1, <2>3, LocksTell
    <2>4. CASE \E i \in Requests :
                  k = Key("result", i) /\ result[i] # NoRow /\ result[i][2] = Version(r)
      BY <1>1, <1>3, <2>1, <2>4, LocksTell
    <2>5. CASE \E x \in Pairs : k = Key("latest", x) /\ x[2] = Version(r)
      BY <1>1, <1>3, <2>1, <2>5, LocksTell
    <2> QED BY <1>1, <1>2, <2>1, <2>2, <2>3, <2>4, <2>5, NeedsTell
  <1> QED BY <1>2, <1>3, <1>4

\* Every statement shows nothing, or fails for a reason.
LEMMA FindPactFails ==
  ASSUME SInv, NEW r \in Requests, FindPact(r), Content(r) \notin contents
  PROVE  overtaken[r] # {}
  <1>1. pc[r] = "pact"
    BY DEF FindPact, At
  <1> QED BY <1>1, VerifyFacts DEF VerifySteps, SeesPact

LEMMA SaveResultFails ==
  ASSUME SInv, NEW r \in Requests, SaveResult(r),
         ~(Content(r) \in contents /\ row[r] \in {r, version[Version(r)]})
  PROVE  overtaken[r] # {}
  <1>1. pc[r] = "insert"
    BY DEF SaveResult, At
  <1> QED BY <1>1, VerifyFacts DEF VerifySteps, SeesPact

LEMMA DeleteContentsFails ==
  ASSUME SInv, NEW r \in Requests, DeleteContents(r),
         \E i \in Results(r) : result[i][1] \in Between
  PROVE  overtaken[r] # {}
  <1>1. pc[r] = "contents"
    BY DEF DeleteContents, At
  <1>2. /\ ~Verifies(r) /\ OnItsWay(r)
        /\ overtaken[r] = {} => (Is(r, "delete_integration") => SeesIntegration(r))
    BY <1>1, DeleteFacts, DeleteStepsFacts
  <1>3. Is(r, "delete_integration")
    BY <1>1, <1>2, KindFacts DEF OnItsWay
  <1> QED BY <1>1, <1>2, <1>3 DEF SeesIntegration

LEMMA DeleteVersionsFails ==
  ASSUME SInv, NEW r \in Requests, DeleteVersions(r), ResultsOf(r, RemainingVersions(r)) # {}
  PROVE  overtaken[r] # {}
  <1>1. pc[r] = "remove"
    BY DEF DeleteVersions, At
  <1>2. /\ ~Verifies(r) /\ OnItsWay(r) /\ Chosen(r) /\ Integration(r) /\ DeleteOK(r)
        /\ overtaken[r] = {} => (Is(r, "delete_version") => SeesVersion(r))
    BY <1>1, DeleteFacts, DeleteStepsFacts
  <1>3. PICK i \in Results(r) : result[i][2] \in RemainingVersions(r)
    BY DEF ResultsOf
  <1>4. VersionRow(result[i][2]) \in chosen[r] /\ i \in Requests /\ result[i] # NoRow
    BY <1>3 DEF RemainingVersions, Results
  <1>5. CASE Is(r, "delete_version")
    <2>1. result[i][2] = Version(r)
      BY <1>1, <1>2, <1>4, <1>5 DEF Chosen, VersionRow
    <2> QED BY <1>1, <1>2, <1>3, <1>5, <2>1 DEF SeesVersion, Deleting
  <1>6. CASE Is(r, "delete_integration")
    <2>1. Orphaned(r, result[i][2])
      BY <1>1, <1>2, <1>4, <1>6 DEF Chosen, Orphaned
    <2>2. result[i][1] \notin Between
      <3>1. \A c \in Between : Key("gone", c) \in holds[r] /\ c \in Contents
        BY <1>1, <1>2, <1>6, VerificationResultsAssumption DEF Integration, Sorted
      <3> QED BY <1>2, <1>3, <3>1 DEF DeleteOK
    <2> QED BY <1>1, <1>2, <1>4, <1>6, <2>1, <2>2 DEF Integration, Sorted
  <1> QED BY <1>1, <1>2, <1>5, <1>6, KindFacts DEF OnItsWay

\* A statement fails only for one of these four reasons.
LEMMA Statements ==
  ASSUME SInv, NEW r \in Requests, Proceed(r)
  PROVE  /\ Open(r) /\ UNCHANGED <<tables, job, overtaken>>
         /\ \/ \E step \in Steps : Go(r, step)
            \/ Go(r, "error") /\ overtaken[r] # {}
  <1>1. UNCHANGED overtaken
    BY DEF Proceed
  <1>2. CASE FindPact(r)
    BY <1>1, <1>2, FindPactFails DEF FindPact, At, Open, Steps, End, memory
  <1>3. CASE FindVersion(r)
    BY <1>1, <1>3 DEF FindVersion, At, Open, Steps
  <1>4. CASE UpsertVersion(r)
    BY <1>1, <1>4 DEF UpsertVersion, At, Open, Steps
  <1>5. CASE SaveResult(r)
    BY <1>1, <1>5, SaveResultFails DEF SaveResult, At, Open, Steps, End, memory
  <1>6. CASE UpdateLatest(r)
    BY <1>1, <1>6 DEF UpdateLatest, At, Open, Steps, memory
  <1>7. CASE ChooseResults(r) \/ ChooseResultsAgain(r) \/ ChooseVersions(r)
    BY <1>1, <1>7 DEF ChooseResults, ChooseResultsAgain, ChooseVersions, Choose, At, Open, Steps
  <1>8. CASE DeleteResults(r) \/ DeleteResultsAgain(r)
    BY <1>1, <1>8 DEF DeleteResults, DeleteResultsAgain, DeleteChosen, At, Open, Steps, memory
  <1>9. CASE CascadeToLatest(r)
    <2>1. \E next \in {"commit", "again", "contents"} : Cascade(r, "cascade", next)
      BY <1>9, Zenon DEF CascadeToLatest
    <2> QED BY <1>1, <2>1 DEF Cascade, At, Open, Steps, memory
  <1>10. CASE CascadeAgain(r)
    BY <1>1, <1>10 DEF CascadeAgain, Cascade, At, Open, Steps, memory
  <1>11. CASE DeleteContents(r)
    BY <1>1, <1>11, DeleteContentsFails DEF DeleteContents, At, Open, Steps, End, memory
  <1>12. CASE FindVersionsWithResults(r)
    BY <1>1, <1>12 DEF FindVersionsWithResults, At, Open, Steps
  <1>13. CASE DeleteVersions(r)
    BY <1>1, <1>13, DeleteVersionsFails DEF DeleteVersions, At, Open, Steps, End, memory
  <1> QED
    BY <1>2, <1>3, <1>4, <1>5, <1>6, <1>7, <1>8, <1>9, <1>10, <1>11, <1>12, <1>13 DEF Proceed

\* The commit of r is the answer that it gives.
LEMMA CommitAnswers ==
  ASSUME SInv, NEW r \in Requests, Commit(r)
  PROVE  Service!Done(r)
  <1>1. pc[r] = "commit" /\ CommitEnds(r) /\ Go(r, "done")
    BY CommitFacts DEF SInv, Commit
  <1>2. [q \in Requests |-> AnswerOf(q)]' =
            [[q \in Requests |-> AnswerOf(q)] EXCEPT ![r] = "done"]
    BY <1>1, AnswerFacts DEF Outcomes, Steps
  <1>3. \A p \in Requests : [q \in Requests |-> AnswerOf(q)][p] = "open" <=> Open(p)
    <2>1. \A p \in Requests : AnswerOf(p) = "open" <=> Open(p)
      BY DEF AnswerOf, SInv, IInv, TypeOK, Open, Outcomes
    <2> QED BY <2>1
  <1>4. Open(r)
    BY <1>1 DEF Open, Steps
  <1>5. overtaken' = [p \in Requests |->
            IF Open(p) /\ p # r /\ Meets(p, r) THEN overtaken[p] \cup {r} ELSE overtaken[p]]
    BY Zenon DEF Commit
  <1>6. \A p \in Requests :
          p \in Service!Open \ {r} /\ Service!Meets(p, r) <=> Open(p) /\ p # r /\ Meets(p, r)
    BY <1>3, MeetsFacts DEF Service!Open
  <1>7. overtaken' = [p \in Requests |->
            IF p \in Service!Open \ {r} /\ Service!Meets(p, r)
            THEN overtaken[p] \cup {r} ELSE overtaken[p]]
    BY <1>5, <1>6
  <1> QED BY <1>1, <1>2, <1>3, <1>4, <1>7 DEF Service!Done, CommitEnds

LEMMA CommitRecords ==
  ASSUME SInv, NEW r \in Requests, Commit(r), Verifies(r)
  PROVE  Service!Record(r)
  <1> PICK p0, c0, v0 : p0 = job[r].pair /\ c0 = Content(r) /\ v0 = Version(r)
    OBVIOUS
  <1>1. IInv /\ pc[r] = "commit" /\ CommitEnds(r)
    BY ResultCommits DEF SInv
  <1>2. /\ p0 \in Pairs /\ p0 = <<c0, v0>> /\ c0 \in contents /\ v0 \in Versions
        /\ contents' = contents
        /\ version' = [v \in Versions |->
              IF Key("version", v) \in holds[r] THEN row[r] ELSE version[v]]
        /\ \A v \in Versions : Key("version", v) \in holds[r] => v = v0
        /\ result'[r] = p0 /\ \A i \in Requests \ {r} : result'[i] = result[i]
        /\ latest'[p0] = r /\ \A p \in Pairs \ {p0} : latest'[p] = latest[p]
        /\ version'[v0] # NoRow
    BY <1>1, ResultCommits DEF Saved
  <1>3. {v \in Versions : version'[v] # NoRow} = {v \in Versions : version[v] # NoRow} \cup {p0[2]}
    BY <1>2
  <1>4. TypeOK /\ TypeOK'
    BY <1>1, CommitKeepsTypes DEF IInv
  <1>5. result' = [result EXCEPT ![r] = p0]
    BY <1>2, <1>4 DEF TypeOK
  <1>6. latest' = [latest EXCEPT ![p0] = r]
    BY <1>2, <1>4 DEF TypeOK
  <1>7. Service!Done(r)
    BY CommitAnswers
  <1> QED BY <1>2, <1>3, <1>5, <1>6, <1>7 DEF Service!Record, Verifies

\* A delete removes the results that it holds, with the latest rows that name them.
Dropped(r) == {i \in Requests : Drops(r, i)}
LEMMA CommitRemoves ==
  ASSUME SInv, NEW r \in Requests, Commit(r), ~Verifies(r)
  PROVE  /\ Service!Remove(Dropped(r)) /\ Service!Done(r)
         /\ pc[r] = "commit" /\ DeleteOK(r) /\ Held(r) /\ Chosen(r) /\ Integration(r)
         /\ overtaken[r] = {} => Undisturbed(r)
         /\ contents' = {c \in contents : Key("gone", c) \notin holds[r]}
         /\ {v \in Versions : version'[v] # NoRow} =
               {v \in Versions : version[v] # NoRow /\ Key("gone", v) \notin holds[r]}
         /\ \A i \in Requests : Drops(r, i) => result[i] # NoRow /\ result[i] \in Pairs
         /\ \A x \in Contents \cup Versions :
              Key("gone", x) \in holds[r] =>
                \A i \in Requests :
                   result[i] # NoRow /\ (result[i][1] = x \/ result[i][2] = x) => Drops(r, i)
  <1>1. IInv /\ pc[r] = "commit" /\ CommitEnds(r) /\ DeleteOK(r)
    BY DeleteCommits DEF SInv
  <1>2. /\ contents' = {c \in contents : ~Wrote(r, "gone", c)}
        /\ version' = [v \in Versions |-> IF Wrote(r, "gone", v) THEN NoRow ELSE version[v]]
        /\ result' = [i \in Requests |-> IF Wrote(r, "result", i) THEN NoRow ELSE result[i]]
        /\ latest' = [p \in Pairs |-> IF Wrote(r, "latest", p) THEN NoRow ELSE latest[p]]
    BY <1>1, DeleteCommits
  <1>3. Held(r) /\ Chosen(r) /\ Integration(r) /\ (overtaken[r] = {} => Undisturbed(r))
    BY <1>1, OpenFacts DEF Steps
  <1>4. result' = [i \in Requests |-> IF i \in Dropped(r) THEN NoRow ELSE result[i]]
    BY <1>2 DEF Dropped, Drops, Wrote
  <1>5. \A p \in Pairs : Wrote(r, "latest", p) <=> latest[p] \in Dropped(r)
    <2>1. ASSUME NEW p \in Pairs, Wrote(r, "latest", p) PROVE latest[p] \in Dropped(r)
      <3>1. latest[p] # NoRow /\ Drops(r, latest[p])
        BY <1>3, <2>1 DEF Held, Wrote
      <3> QED BY <1>1, <3>1 DEF Dropped, IInv, TypeOK
    <2>2. ASSUME NEW p \in Pairs, latest[p] \in Dropped(r) PROVE Wrote(r, "latest", p)
      <3>1. latest[p] # NoRow /\ Key("result", latest[p]) \in holds[r]
        BY <2>2, VerificationResultsAssumption DEF Dropped, Drops, Ids
      <3> QED BY <1>1, <3>1 DEF DeleteOK, Cascading, Wrote
    <2> QED BY <2>1, <2>2
  <1>6. latest' = [p \in Contents \X Versions |->
                     IF latest[p] \in Dropped(r) THEN NoRow ELSE latest[p]]
    BY <1>2, <1>5 DEF Pairs
  <1>7. Service!Remove(Dropped(r)) /\ Service!Done(r)
    BY <1>4, <1>6, CommitAnswers DEF Service!Remove
  <1>8. /\ contents' = {c \in contents : Key("gone", c) \notin holds[r]}
        /\ {v \in Versions : version'[v] # NoRow} =
               {v \in Versions : version[v] # NoRow /\ Key("gone", v) \notin holds[r]}
    BY <1>2 DEF Wrote
  <1>9. \A i \in Requests : Drops(r, i) => result[i] # NoRow /\ result[i] \in Pairs
    BY <1>1, <1>3 DEF Held, IInv, TypeOK
  <1>10. \A x \in Contents \cup Versions :
           Key("gone", x) \in holds[r] =>
             \A i \in Requests :
                result[i] # NoRow /\ (result[i][1] = x \/ result[i][2] = x) => Drops(r, i)
    BY <1>1 DEF DeleteOK, Results, Wrote, Drops
  <1> QED BY <1>1, <1>3, <1>7, <1>8, <1>9, <1>10

LEMMA CommitDeletesResult ==
  ASSUME SInv, Single, NEW r \in Requests, Commit(r), Is(r, "delete_result")
  PROVE  Service!DeleteResult(r)
  <1>1. ~Verifies(r)
    BY DEF Is, Verifies
  <1>2. /\ Service!Remove(Dropped(r)) /\ Service!Done(r)
        /\ pc[r] = "commit" /\ Held(r) /\ (overtaken[r] = {} => Undisturbed(r))
        /\ contents' = {c \in contents : Key("gone", c) \notin holds[r]}
        /\ {v \in Versions : version'[v] # NoRow} =
               {v \in Versions : version[v] # NoRow /\ Key("gone", v) \notin holds[r]}
    BY <1>1, CommitRemoves
  <1>3. \A v \in Versions : Key("gone", v) \notin holds[r]
    BY <1>2 DEF Held
  <1>4. \A c \in contents : Key("gone", c) \notin holds[r]
    BY <1>2 DEF Held, Is, SInv, IInv, TypeOK
  <1>5. contents' = contents
    BY <1>2, <1>4
  <1>6. {v \in Versions : version'[v] # NoRow} = {v \in Versions : version[v] # NoRow}
    BY <1>2, <1>3
  <1>7. CASE Dropped(r) = {}
    <2>1. overtaken[r] # {}
      BY <1>2, <1>7 DEF Undisturbed, SeesResult, Dropped
    <2>2. Service!Remove({})
      BY <1>2, <1>7
    <2> QED BY <1>2, <1>5, <1>6, <2>1, <2>2 DEF Service!DeleteResult, Is
  <1>8. CASE Dropped(r) # {}
    <2>1. PICK i \in Requests : \A j \in Requests : Drops(r, j) => j = i
      BY <1>2 DEF Single, Open, Steps
    <2>2. Dropped(r) = {i} /\ Drops(r, i)
      BY <1>8, <2>1 DEF Dropped
    <2>3. result[i] = job[r].pair
      BY <1>2, <2>2 DEF Held, Meant, Is
    <2>4. Service!Remove({i})
      BY <1>2, <2>2
    <2> QED BY <1>2, <1>5, <1>6, <2>3, <2>4 DEF Service!DeleteResult, Is
  <1> QED BY <1>7, <1>8

LEMMA CommitDeletesVersion ==
  ASSUME SInv, NEW r \in Requests, Commit(r), Is(r, "delete_version")
  PROVE  Service!DeleteVersion(r)
  <1> PICK v0, there : v0 = Version(r) /\ there = {v \in Versions : version[v] # NoRow}
    OBVIOUS
  <1>1. ~Verifies(r) /\ v0 \in Versions /\ v0 = job[r].pair[2]
    BY JobFacts DEF Is, Verifies, SInv, Version
  <1>2. /\ Service!Remove(Dropped(r)) /\ Service!Done(r)
        /\ pc[r] = "commit" /\ Held(r) /\ Chosen(r) /\ (overtaken[r] = {} => Undisturbed(r))
        /\ contents' = {c \in contents : Key("gone", c) \notin holds[r]}
        /\ {v \in Versions : version'[v] # NoRow} =
               {v \in Versions : version[v] # NoRow /\ Key("gone", v) \notin holds[r]}
        /\ \A x \in Contents \cup Versions :
              Key("gone", x) \in holds[r] =>
                \A i \in Requests :
                   result[i] # NoRow /\ (result[i][1] = x \/ result[i][2] = x) => Drops(r, i)
    BY <1>1, CommitRemoves
  <1>3. \A v \in Versions : Key("gone", v) \in holds[r] => v = v0 /\ version[v0] # NoRow
    BY <1>2 DEF Held
  <1>4. \A c \in contents : Key("gone", c) \notin holds[r]
    BY <1>2 DEF Held, Is, SInv, IInv, TypeOK
  <1>5. contents' = contents
    BY <1>2, <1>4
  <1>6. CASE Key("gone", v0) \in holds[r]
    <2>1. v0 \in there /\ {v \in Versions : version'[v] # NoRow} = there \ {v0}
      BY <1>1, <1>2, <1>3, <1>6
    <2>2. \A i \in Requests : Drops(r, i) <=> result[i] # NoRow /\ result[i][2] = v0
      BY <1>1, <1>2, <1>6 DEF Held, Meant, Is
    <2>3. Dropped(r) = Service!About(v0)
      BY <2>2 DEF Dropped, Service!About, Service!Saved
    <2>4. Service!Remove(Service!About(v0))
      BY <1>2, <2>3
    <2> QED BY <1>1, <1>2, <1>5, <2>1, <2>4 DEF Service!DeleteVersion, Is
  <1>7. CASE Key("gone", v0) \notin holds[r]
    <2>1. \A i \in Requests : ~Drops(r, i)
      BY <1>2, <1>7 DEF Held, Chosen, Meant, Entails, Is
    <2>2. Service!Remove({})
      <3>1. Dropped(r) = {}
        BY <2>1 DEF Dropped
      <3> QED BY <1>2, <3>1
    <2>3. overtaken[r] # {}
      BY <1>2, <1>7 DEF Undisturbed, SeesVersion
    <2>4. {v \in Versions : version'[v] # NoRow} = there
      BY <1>2, <1>3, <1>7
    <2> QED BY <1>2, <1>5, <2>2, <2>3, <2>4 DEF Service!DeleteVersion, Is
  <1> QED BY <1>6, <1>7

LEMMA CommitDeletesIntegration ==
  ASSUME SInv, NEW r \in Requests, Commit(r), Is(r, "delete_integration")
  PROVE  Service!DeleteIntegration(r)
  <1> PICK there, V : /\ there = {v \in Versions : version[v] # NoRow}
                      /\ V = {v \in Versions : Key("gone", v) \in holds[r]}
    OBVIOUS
  <1>1. ~Verifies(r)
    BY DEF Is, Verifies
  <1>2. /\ Service!Remove(Dropped(r)) /\ Service!Done(r)
        /\ pc[r] = "commit" /\ Held(r) /\ Chosen(r) /\ Integration(r)
        /\ overtaken[r] = {} => Undisturbed(r)
        /\ contents' = {c \in contents : Key("gone", c) \notin holds[r]}
        /\ {v \in Versions : version'[v] # NoRow} =
               {v \in Versions : version[v] # NoRow /\ Key("gone", v) \notin holds[r]}
        /\ \A i \in Requests : Drops(r, i) => result[i] # NoRow /\ result[i] \in Pairs
        /\ \A x \in Contents \cup Versions :
              Key("gone", x) \in holds[r] =>
                \A i \in Requests :
                   result[i] # NoRow /\ (result[i][1] = x \/ result[i][2] = x) => Drops(r, i)
    BY <1>1, CommitRemoves
  <1>3. \A c \in Contents : Key("gone", c) \in holds[r] <=> c \in Between
    BY <1>2, VerificationResultsAssumption DEF Held, Integration, Sorted
  <1>4. contents' = contents \ Between
    BY <1>2, <1>3 DEF SInv, IInv, TypeOK
  <1>5. V \subseteq there /\ {v \in Versions : version'[v] # NoRow} = there \ V
    BY <1>2 DEF Held
  <1>6. \A v \in V : Orphaned(r, v)
    BY <1>2 DEF Held
  <1>7. ASSUME NEW i \in Requests, result[i] # NoRow, result[i][1] \notin Between, result[i][2] \in V
        PROVE  i \in overtaken[r]
    BY <1>2, <1>6, <1>7 DEF Integration, Sorted
  <1>8. \A v \in V : Service!About(v) \cap Service!Foreign \subseteq overtaken[r]
    BY <1>7 DEF Service!About, Service!Foreign, Service!Saved
  <1>9. overtaken[r] = {} => V = Service!Orphans
    <2>1. SUFFICES ASSUME overtaken[r] = {} PROVE V = Service!Orphans
      OBVIOUS
    <2>2. SeesIntegration(r)
      BY <1>2, <2>1 DEF Undisturbed
    <2>3. \A v \in there : Key("gone", v) \notin holds[r] => ForeignResult(v)
      BY <1>2, <2>2 DEF SeesIntegration, Sorted
    <2>4. \A v \in there : ForeignResult(v) <=> Service!About(v) \cap Service!Foreign # {}
      BY DEF ForeignResult, Service!About, Service!Foreign, Service!Saved
    <2>5. \A v \in V : Service!About(v) \cap Service!Foreign = {}
      BY <1>8, <2>1
    <2>6. Service!Orphans = {v \in there : Service!About(v) \cap Service!Foreign = {}}
      BY DEF Service!Orphans
    <2> QED BY <1>5, <2>3, <2>4, <2>5, <2>6
  <1>10. Dropped(r) = (Service!Saved \ Service!Foreign) \cup UNION {Service!About(v) : v \in V}
    <2>1. \A i \in Requests :
            Drops(r, i) <=> result[i] # NoRow /\ (result[i][1] \in Between \/ result[i][2] \in V)
      <3>1. ASSUME NEW i \in Requests, Drops(r, i), result[i][1] \notin Between
            PROVE  result[i] # NoRow /\ result[i][2] \in V
        <4>1. Key("gone", result[i][2]) \in holds[r]
          BY <1>2, <3>1 DEF Chosen, Entails, Is
        <4> QED BY <1>2, <3>1, <4>1 DEF Pairs
      <3>2. ASSUME NEW i \in Requests, result[i] # NoRow,
                   result[i][1] \in Between \/ result[i][2] \in V
            PROVE  Drops(r, i)
        BY <1>2, <1>3, <3>2, VerificationResultsAssumption
      <3> QED BY <1>2, <3>1, <3>2
    <2>2. \A i : i \in UNION {Service!About(v) : v \in V} <=>
                   i \in Service!Saved /\ result[i][2] \in V
      BY DEF Service!About
    <2>3. \A i : i \in Service!Saved <=> i \in Requests /\ result[i] # NoRow
      BY DEF Service!Saved
    <2>4. \A i : i \in Service!Foreign <=> i \in Service!Saved /\ result[i][1] \notin Between
      BY DEF Service!Foreign
    <2>5. \A i : i \in Dropped(r) <=> i \in Requests /\ Drops(r, i)
      BY DEF Dropped
    <2> QED BY <2>1, <2>2, <2>3, <2>4, <2>5
  <1>11. Service!Remove((Service!Saved \ Service!Foreign) \cup UNION {Service!About(v) : v \in V})
    BY <1>2, <1>10
  <1>12. V \in SUBSET there
    BY <1>5
  <1> QED BY <1>2, <1>4, <1>5, <1>8, <1>9, <1>11, <1>12 DEF Service!DeleteIntegration, Is

LEMMA ServiceInit == Init => Service!Init
  <1> SUFFICES ASSUME Init PROVE Service!Init
    OBVIOUS
  <1>1. [q \in Requests |-> AnswerOf(q)] = [r \in Requests |-> "idle"]
    BY DEF Init, AnswerOf, Open, Steps
  <1> QED BY <1>1 DEF Init, Service!Init, Pairs

LEMMA ServiceNext == SInv /\ Single /\ [Next]_vars => [Service!Next]_(Service!svars)
  <1> SUFFICES ASSUME SInv, Single, [Next]_vars PROVE [Service!Next]_(Service!svars)
    OBVIOUS
  <1>1. ASSUME NEW r \in Requests, Begin(r) PROVE Service!Next
    BY <1>1, Beginning DEF Service!Next
  <1>2. ASSUME NEW r \in Requests, Proceed(r) PROVE Service!Next \/ UNCHANGED Service!svars
    <2>1. CASE \E step \in Steps : Go(r, step)
      BY <1>2, <2>1, Statements, GoingOnIsSilent
    <2>2. CASE Go(r, "error") /\ overtaken[r] # {}
      BY <1>2, <2>2, Statements, Failing DEF Service!Next
    <2> QED BY <1>2, <2>1, <2>2, Statements
  <1>3. ASSUME NEW r \in Requests, Commit(r) PROVE Service!Next
    <2>1. CASE Verifies(r)
      BY <1>3, <2>1, CommitRecords DEF Service!Next
    <2>2. CASE Is(r, "delete_result")
      BY <1>3, <2>2, CommitDeletesResult DEF Service!Next
    <2>3. CASE Is(r, "delete_version")
      BY <1>3, <2>3, CommitDeletesVersion DEF Service!Next
    <2>4. CASE Is(r, "delete_integration")
      BY <1>3, <2>4, CommitDeletesIntegration DEF Service!Next
    <2> QED BY <2>1, <2>2, <2>3, <2>4, KindFacts
  <1>4. ASSUME NEW r \in Requests, DeadlockVictim(r) PROVE Service!Next
    <2>1. Go(r, "error") /\ UNCHANGED <<tables, job, overtaken>> /\ Waits(r) # {}
      BY <1>4 DEF DeadlockVictim, End, memory
    <2> QED BY <2>1, VictimsMeet, Failing DEF Service!Next
  <1>5. CASE UNCHANGED vars
    BY <1>5 DEF vars, tables, memory, Service!svars, Service!store, AnswerOf, Open
  <1> QED BY <1>1, <1>2, <1>3, <1>4, <1>5 DEF Next, Step

\* However the statements of many requests interleave, and whichever of them the database
\* fails, VerificationResults implements ResultService: a result that is accepted is saved
\* with its pact and its version and is the latest; the delete of a result, of a version or
\* of an integration removes what it is about, all of it, with the latest rows, and a
\* result of another integration only if it came while the delete went on; and a request
\* fails or finds nothing only if one that it meets was done, or is open, meanwhile.
THEOREM ResultsServe == Spec => ImplementsService
  <1>1. Spec => [](SInv /\ Single)
    BY SInvInit, SInvNext, SingleInit, SingleNext, PTL DEF Spec
  <1>2. Spec => Service!Spec
    BY <1>1, ServiceInit, ServiceNext, PTL DEF Spec, Service!Spec
  <1> QED BY <1>2 DEF ImplementsService
=============================================================================
