--------------------------- MODULE DeploymentsProofs ---------------------------
(***************************************************************************)
(* Proofs about Deployments, for every set of requests, versions and       *)
(* targets, and all that clients may ask for.                              *)
(***************************************************************************)
EXTENDS Deployments, TLAPS

-----------------------------------------------------------------------------
(* The inductive invariant *)

Things == Requests \cup Targets \cup Parents
Kinds == {"row", "refer", "gone", "current", "release", "support"}

\* A request that has begun.
ActiveReq ==
    [pc : Steps \cup Outcomes, op : Operations, version : Parents, target : Targets,
     row : Requests, seen : Requests \cup {NoRow}, chosen : SUBSET (Requests \cup Versions)]

\* What the type invariant leaves out.
MemoryOK ==
    /\ req \in [Requests -> {Idle} \cup ActiveReq]
    /\ holds \in [Requests -> SUBSET (Kinds \X Things)]

Deploys(r) == req[r].op \in {"deploy", "tag"}
Kind(r, kinds) == \A k \in holds[r] : k[1] \in kinds

\* Which rows a request has chosen, or has locked, for an UPDATE or a DELETE.
ToTarget(i, t) == deployed[i] # NoRow => deployed[i][2] = t
OfParent(i, p) == deployed[i] # NoRow => Covers(p, deployed[i][1])

\* A deployment changes rows of its own target; what its new row refers to exists.
DeploySteps == {"find", "previous", "mark", "insert", "current", "commit"}
DeployOK(r) ==
    /\ req[r].pc \in DeploySteps \cup Outcomes
    /\ req[r].version \in Versions
    /\ Kind(r, {"row", "refer", "current"})
    /\ req[r].pc = "mark" => \A i \in req[r].chosen : ToTarget(i, req[r].target)
    /\ \A i \in Requests :
         Key("row", i) \in holds[r] => deployed[i] # NoRow /\ ToTarget(i, req[r].target)
    /\ \A t \in Targets : Key("current", t) \in holds[r] => t = req[r].target
    /\ req[r].pc \in {"current", "commit"} =>
         /\ {Key("refer", Env), Key("refer", req[r].version)} \subseteq holds[r]
         /\ {Env, req[r].version} \subseteq present
    /\ req[r].pc = "commit" => Key("current", req[r].target) \in holds[r]

\* An undeployment is about a committed row, which its target shows no longer, or not
\* for long, once the currently-deployed row has been dealt with.
UndeploySteps == {"read", "clear", "record", "commit"}
UndeployOK(r) ==
    /\ req[r].pc \in UndeploySteps \cup Outcomes
    /\ Kind(r, {"row", "current"})
    /\ \A i \in Requests : Key("row", i) \in holds[r] => i = req[r].row
    /\ req[r].pc \in UndeploySteps =>
         req[req[r].row].pc = "done" /\ ToTarget(req[r].row, req[r].target)
    /\ req[r].pc \in {"record", "commit"} =>
         \/ current[req[r].target] # req[r].row
         \/ Key("current", req[r].target) \in holds[r]

\* Releases have no part in what is deployed.
ReleaseSteps == {"ignore", "support", "end", "commit"}
ReleaseOK(r) ==
    /\ req[r].pc \in ReleaseSteps \cup Outcomes
    /\ Kind(r, {"refer", "release", "support"})

\* A deletion has locked all rows of its version, or of the environment, when it
\* removes it, and then the currently-deployed rows that name them.
DeleteSteps == {"rows", "delete_rows", "releases", "delete_releases", "parent", "cascade",
                "commit"}
DeleteOK(r) ==
    /\ req[r].pc \in DeleteSteps \cup Outcomes
    /\ Kind(r, {"row", "gone", "current", "release", "support"})
    /\ req[r].pc = "delete_rows" =>
         \A i \in req[r].chosen : OfParent(i, req[r].version)
    /\ \A i \in Requests : Key("row", i) \in holds[r] => OfParent(i, req[r].version)
    /\ \A x \in Parents : Key("gone", x) \in holds[r] => x = req[r].version
    /\ req[r].pc \in {"cascade", "commit"} =>
         /\ Key("gone", req[r].version) \in holds[r]
         /\ \A i \in DeployedRows(req[r].version) : Key("row", i) \in holds[r]
    /\ req[r].pc = "commit" =>
         \A t \in CurrentRows(req[r].version) : Key("current", t) \in holds[r]

\* The rows that a request has chosen or locked are those of requests that have ended.
RowsOK(r) ==
    /\ \A i \in Requests : Key("row", i) \in holds[r] => req[i].pc = "done"
    /\ req[r].pc \in {"mark", "delete_rows"} =>
         req[r].chosen \subseteq Requests /\ \A i \in req[r].chosen : req[i].pc = "done"

RequestOK(r) ==
    req[r] # Idle =>
        /\ RowsOK(r)
        /\ Deploys(r) => DeployOK(r)
        /\ req[r].op = "undeploy" => UndeployOK(r)
        /\ req[r].op \in {"release", "unsupport"} => ReleaseOK(r)
        /\ req[r].op = "delete" => DeleteOK(r)

\* Nobody removes what another one's new row refers to, and no two change one row.
Exclusive ==
    \A r, q \in Requests :
        /\ \A x \in Parents : Key("refer", x) \in holds[r] => Key("gone", x) \notin holds[q]
        /\ \A i \in Requests :
             Key("row", i) \in holds[r] /\ Key("row", i) \in holds[q] => r = q

RowsAreDone ==
    \A i \in Requests : deployed[i] # NoRow \/ i \in undeployed => req[i].pc = "done"

IInv ==
    /\ TypeOK /\ MemoryOK
    /\ \A r \in Requests : RequestOK(r)
    /\ Exclusive /\ RowsAreDone
    /\ CurrentIsDeployed /\ CurrentIsLast

LEMMA IInvInit == Init => IInv
  <1> SUFFICES ASSUME Init PROVE IInv
    OBVIOUS
  <1>1. TypeOK
    BY DEF Init, TypeOK
  <1>2. MemoryOK
    BY DEF Init, MemoryOK
  <1>3. ASSUME NEW r \in Requests PROVE RequestOK(r)
    BY DEF Init, RequestOK
  <1>4. Exclusive /\ RowsAreDone /\ CurrentIsDeployed /\ CurrentIsLast
    BY DEF Init, Exclusive, RowsAreDone, CurrentIsDeployed, CurrentIsLast
  <1> QED BY <1>1, <1>2, <1>3, <1>4 DEF IInv

-----------------------------------------------------------------------------
(* Statements: the tables are as they were *)

\* A step of r that leaves the tables and the others alone.
Statement(r) ==
    /\ UNCHANGED tables
    /\ req[r].pc # "done"
    /\ req' \in [Requests -> {Idle} \cup ActiveReq] /\ req'[r] \in ActiveReq
    /\ holds' \in [Requests -> SUBSET (Kinds \X Things)]
    /\ req'[r].pc \in Outcomes => holds'[r] = {}
    /\ \A q \in Requests \ {r} : req'[q] = req[q] /\ holds'[q] = holds[q]

LEMMA IdleFacts == Idle.pc = "idle" /\ Idle \notin ActiveReq
  BY DEF Idle, ActiveReq, Steps, Outcomes

LEMMA TablesKept ==
  ASSUME UNCHANGED tables
  PROVE  UNCHANGED <<present, deployed, undeployed, current, currentRow, released, last>>
  BY DEF tables

LEMMA StatementKeepsIInv ==
  ASSUME IInv, NEW r \in Requests, Statement(r), RequestOK(r)', Exclusive'
  PROVE  IInv'
  <1>1. /\ UNCHANGED <<present, deployed, undeployed, current, currentRow, released, last>>
        /\ \A q \in Requests \ {r} : req'[q] = req[q] /\ holds'[q] = holds[q]
        /\ \A q \in Requests : req[q].pc = "done" => req'[q].pc = "done"
    BY TablesKept DEF Statement
  <1>2. TypeOK' /\ MemoryOK'
    <2>1. MemoryOK'
      BY DEF Statement, MemoryOK
    <2>2. ASSUME NEW q \in Requests
          PROVE  (\/ req[q] = Idle /\ holds[q] = {}
                  \/ req[q].pc \in Steps \cup Outcomes /\ (Ended(q) => holds[q] = {}))'
      <3>1. CASE q = r
        BY <3>1 DEF Statement, Ended, ActiveReq
      <3>2. CASE q # r
        BY <1>1, <3>2 DEF IInv, TypeOK, Ended
      <3> QED BY <3>1, <3>2
    <2> QED BY <1>1, <2>1, <2>2 DEF IInv, TypeOK
  <1>3. ASSUME NEW q \in Requests \ {r} PROVE RequestOK(q)'
    <2>1. CASE req[q] = Idle
      BY <1>1, <2>1 DEF RequestOK, Idle
    <2>2. CASE req[q] # Idle
      <3>1. RequestOK(q) /\ req[q].row \in Requests
        BY <2>2 DEF IInv, MemoryOK, ActiveReq
      <3>2. RowsOK(q)'
        BY <1>1, <2>2, <3>1 DEF RequestOK, RowsOK
      <3>3. Deploys(q)' => DeployOK(q)'
        <4>1. Deploys(q)' <=> Deploys(q)
          BY <1>1 DEF Deploys
        <4>2. Deploys(q) => DeployOK(q)
          BY <2>2, <3>1 DEF RequestOK
        <4>3. DeployOK(q) => DeployOK(q)'
          BY <1>1 DEF DeployOK, Kind, ToTarget
        <4> QED BY <4>1, <4>2, <4>3
      <3>4. req'[q].op = "undeploy" => UndeployOK(q)'
        BY <1>1, <2>2, <3>1 DEF RequestOK, UndeployOK, Kind, ToTarget
      <3>5. req'[q].op \in {"release", "unsupport"} => ReleaseOK(q)'
        BY <1>1, <2>2, <3>1 DEF RequestOK, ReleaseOK, Kind
      <3>6. req'[q].op = "delete" => DeleteOK(q)'
        BY <1>1, <2>2, <3>1
        DEF RequestOK, DeleteOK, Kind, OfParent, DeployedRows, CurrentRows
      <3> QED BY <3>2, <3>3, <3>4, <3>5, <3>6 DEF RequestOK
    <2> QED BY <2>1, <2>2
  <1>4. RowsAreDone' /\ CurrentIsDeployed' /\ CurrentIsLast'
    BY <1>1 DEF IInv, RowsAreDone, CurrentIsDeployed, CurrentIsLast
  <1> QED BY <1>2, <1>3, <1>4 DEF IInv

\* Going on changes the place of r, and what it has read or chosen, but not what it was
\* asked for.
Goes(r, step, rows) ==
    /\ req' \in [Requests -> {Idle} \cup ActiveReq]
    /\ req'[r] \in ActiveReq /\ req'[r] # Idle
    /\ req'[r].pc = step /\ req'[r].op = req[r].op
    /\ req'[r].version = req[r].version /\ req'[r].target = req[r].target
    /\ req'[r].row = req[r].row /\ req'[r].chosen = rows
    /\ \A q \in Requests \ {r} : req'[q] = req[q]

LEMMA ActiveFacts ==
  ASSUME IInv, NEW r \in Requests, req[r] # Idle
  PROVE  /\ req \in [Requests -> {Idle} \cup ActiveReq] /\ req[r] \in ActiveReq
         /\ req[r].op \in Operations /\ req[r].version \in Parents /\ req[r].target \in Targets
         /\ req[r].row \in Requests /\ req[r].chosen \subseteq Requests \cup Versions
  BY DEF IInv, MemoryOK, ActiveReq

LEMMA GoFacts ==
  ASSUME IInv, NEW r \in Requests, req[r] # Idle,
         NEW step \in Steps \cup Outcomes, Go(r, step)
  PROVE  Goes(r, step, req[r].chosen)
  <1>1. req[r] \in ActiveReq /\ req \in [Requests -> {Idle} \cup ActiveReq]
    BY ActiveFacts
  <1>2. req' = [req EXCEPT ![r] = [@ EXCEPT !.pc = step]]
    BY DEF Go
  <1>3. req'[r] = [req[r] EXCEPT !.pc = step] /\ \A q \in Requests \ {r} : req'[q] = req[q]
    BY <1>1, <1>2
  <1>4. [req[r] EXCEPT !.pc = step] \in ActiveReq
    BY <1>1 DEF ActiveReq
  <1>5. req' \in [Requests -> {Idle} \cup ActiveReq]
    BY <1>1, <1>2, <1>4
  <1> QED BY <1>1, <1>3, <1>4, <1>5, IdleFacts DEF ActiveReq, Goes

LEMMA ChooseFacts ==
  ASSUME IInv, NEW r \in Requests, req[r] # Idle, NEW step \in Steps,
         NEW rows \in SUBSET (Requests \cup Versions), Choose(r, rows, step)
  PROVE  Goes(r, step, rows) /\ UNCHANGED <<tables, holds>>
  <1>1. req[r] \in ActiveReq /\ req \in [Requests -> {Idle} \cup ActiveReq]
    BY ActiveFacts
  <1>2. /\ req' = [req EXCEPT ![r] = [@ EXCEPT !.pc = step, !.chosen = rows]]
        /\ UNCHANGED <<tables, holds>>
    BY DEF Choose
  <1>3. /\ req'[r] = [req[r] EXCEPT !.pc = step, !.chosen = rows]
        /\ \A q \in Requests \ {r} : req'[q] = req[q]
    BY <1>1, <1>2
  <1>4. [req[r] EXCEPT !.pc = step, !.chosen = rows] \in ActiveReq
    BY <1>1 DEF ActiveReq
  <1>5. req' \in [Requests -> {Idle} \cup ActiveReq]
    BY <1>1, <1>2, <1>4
  <1>6. /\ req'[r].pc = step /\ req'[r].op = req[r].op
        /\ req'[r].version = req[r].version /\ req'[r].target = req[r].target
        /\ req'[r].row = req[r].row /\ req'[r].chosen = rows
    BY <1>1, <1>3 DEF ActiveReq
  <1>7. req'[r] \in ActiveReq /\ req'[r] # Idle
    BY <1>3, <1>4, IdleFacts
  <1> QED BY <1>2, <1>3, <1>5, <1>6, <1>7 DEF Goes

LEMMA LockFacts ==
  ASSUME IInv, NEW r \in Requests, NEW K \in SUBSET (Kinds \X Things), Lock(r, K)
  PROVE  /\ holds' \in [Requests -> SUBSET (Kinds \X Things)]
         /\ holds'[r] = holds[r] \cup K
         /\ \A q \in Requests \ {r} : holds'[q] = holds[q]
  BY DEF IInv, MemoryOK, Lock

LEMMA NoLock ==
  ASSUME IInv, NEW r \in Requests, UNCHANGED holds
  PROVE  Lock(r, {})
  BY DEF IInv, MemoryOK, Lock

LEMMA EndKeepsIInv ==
  ASSUME IInv, NEW r \in Requests, req[r] # Idle, req[r].pc # "done",
         NEW outcome \in Outcomes, End(r, outcome)
  PROVE  IInv'
  <1>1. Go(r, outcome) /\ UNCHANGED tables /\ holds' = [holds EXCEPT ![r] = {}]
    BY DEF End
  <1>2. /\ holds' \in [Requests -> SUBSET (Kinds \X Things)]
        /\ holds'[r] = {} /\ \A q \in Requests \ {r} : holds'[q] = holds[q]
    BY <1>1 DEF IInv, MemoryOK
  <1>3. Statement(r)
    BY <1>1, <1>2, GoFacts DEF Statement, Goes
  <1>4. Exclusive'
    BY <1>2 DEF IInv, Exclusive
  <1>5. RequestOK(r)'
    <2>1. req'[r].pc = outcome /\ req'[r].op = req[r].op /\ req'[r].version = req[r].version
      BY <1>1, GoFacts DEF Goes
    <2>2. Deploys(r) => req[r].version \in Versions
      BY DEF IInv, RequestOK, DeployOK
    <2>3. RowsOK(r)'
      BY <1>2, <2>1 DEF RowsOK, Outcomes
    <2>4. Deploys(r)' => DeployOK(r)'
      BY <1>2, <2>1, <2>2 DEF Deploys, DeployOK, Kind, Outcomes
    <2>5. UndeployOK(r)' /\ ReleaseOK(r)' /\ DeleteOK(r)'
      BY <1>2, <2>1 DEF UndeployOK, ReleaseOK, DeleteOK, Kind, Outcomes, UndeploySteps
    <2> QED BY <2>3, <2>4, <2>5 DEF RequestOK
  <1> QED BY <1>3, <1>4, <1>5, StatementKeepsIInv

\* What a step of r that goes on has to keep.
LEMMA StepKeepsIInv ==
  ASSUME IInv, NEW r \in Requests, req[r].pc # "done",
         NEW step \in Steps, NEW rows, Goes(r, step, rows), UNCHANGED tables,
         NEW K \in SUBSET (Kinds \X Things), Lock(r, K),
         \A x \in Parents, q \in Requests :
            /\ Key("refer", x) \in K => Key("gone", x) \notin holds[q] \cup K
            /\ Key("gone", x) \in K => Key("refer", x) \notin holds[q] \cup K,
         \A i \in Requests, q \in Requests \ {r} :
            Key("row", i) \in K => Key("row", i) \notin holds[q],
         RequestOK(r)'
  PROVE  IInv'
  <1>1. Statement(r)
    BY LockFacts DEF Statement, Goes, Steps, Outcomes
  <1>2. Exclusive'
    BY LockFacts DEF IInv, Exclusive
  <1> QED BY <1>1, <1>2, StatementKeepsIInv

\* A statement that has nothing to wait for finds what it needs free.
LEMMA FreeFacts ==
  ASSUME NEW r \in Requests, Waits(r) = {}, NEW k \in Needs(r), NEW q \in Requests \ {r}
  PROVE  k \notin holds[q]
  BY DEF Waits

-----------------------------------------------------------------------------
(* Recording a deployment *)

\* A request is at a step of a deployment only if it is one.
LEMMA IsDeployment ==
  ASSUME IInv, NEW r \in Requests, req[r].pc \in DeploySteps \ {"commit"}
  PROVE  req[r] # Idle /\ Deploys(r) /\ DeployOK(r)
  <1>1. req[r] # Idle
    BY IdleFacts DEF DeploySteps
  <1>2. RequestOK(r) /\ req[r].op \in Operations
    BY <1>1, ActiveFacts DEF IInv
  <1> QED
    BY <1>1, <1>2
    DEF Operations, RequestOK, Deploys, UndeployOK, ReleaseOK, DeleteOK, DeploySteps,
        UndeploySteps, ReleaseSteps, DeleteSteps, Outcomes

LEMMA DeployGoesOn ==
  ASSUME IInv, NEW r \in Requests, req[r].pc \in DeploySteps \ {"commit"},
         NEW step \in DeploySteps, NEW rows, Goes(r, step, rows), UNCHANGED tables,
         NEW K \in SUBSET (Kinds \X Things), Lock(r, K),
         \A k \in K : k[1] \in {"row", "refer", "current"},
         \A i \in Requests : Key("row", i) \in K =>
            /\ deployed[i] # NoRow /\ ToTarget(i, req[r].target) /\ req[i].pc = "done"
            /\ \A q \in Requests \ {r} : Key("row", i) \notin holds[q],
         \A x \in Parents, q \in Requests \ {r} :
            Key("refer", x) \in K => Key("gone", x) \notin holds[q],
         \A t \in Targets : Key("current", t) \in K => t = req[r].target,
         step = "mark" =>
            /\ rows \subseteq Requests
            /\ \A i \in rows : ToTarget(i, req[r].target) /\ req[i].pc = "done",
         step \in {"current", "commit"} =>
            /\ {Key("refer", Env), Key("refer", req[r].version)} \subseteq holds[r] \cup K
            /\ {Env, req[r].version} \subseteq present,
         step = "commit" => Key("current", req[r].target) \in holds[r] \cup K
  PROVE  IInv'
  <1>1. req[r] # Idle /\ Deploys(r) /\ DeployOK(r) /\ RowsOK(r)
    BY IsDeployment DEF IInv, RequestOK
  <1>2. /\ holds'[r] = holds[r] \cup K
        /\ UNCHANGED <<present, deployed>>
        /\ req[r].pc # "done" /\ step \in Steps
        /\ \A i \in Requests : req[i].pc = "done" => req'[i].pc = "done"
    BY <1>1, LockFacts, TablesKept DEF DeploySteps, Goes, Steps
  <1>3. DeployOK(r)'
    <2>1. /\ req'[r].pc = step /\ req'[r].version = req[r].version
          /\ req'[r].target = req[r].target /\ req'[r].chosen = rows
      BY DEF Goes
    <2>2. req'[r].pc \in DeploySteps \cup Outcomes /\ req'[r].version \in Versions
      BY <1>1, <2>1 DEF DeployOK
    <2>3. Kind(r, {"row", "refer", "current"})'
      BY <1>1, <1>2 DEF DeployOK, Kind
    <2>4. /\ \A i \in Requests :
               Key("row", i) \in holds'[r] =>
                  deployed'[i] # NoRow /\ (deployed'[i] # NoRow => deployed'[i][2] = req'[r].target)
          /\ \A t \in Targets : Key("current", t) \in holds'[r] => t = req'[r].target
      BY <1>1, <1>2, <2>1 DEF DeployOK, ToTarget
    <2>5. step = "mark" =>
             \A i \in rows : deployed'[i] # NoRow => deployed'[i][2] = req'[r].target
      BY <1>2, <2>1 DEF ToTarget
    <2> QED BY <1>2, <2>1, <2>2, <2>3, <2>4, <2>5 DEF DeployOK, ToTarget, Key
  <1>4. RowsOK(r)'
    BY <1>1, <1>2 DEF RowsOK, Goes, DeploySteps
  <1>5. RequestOK(r)'
    BY <1>1, <1>3, <1>4 DEF Deploys, Goes, RequestOK
  <1>6. \A x \in Parents, q \in Requests :
            /\ Key("refer", x) \in K => Key("gone", x) \notin holds[q] \cup K
            /\ Key("gone", x) \in K => Key("refer", x) \notin holds[q] \cup K
    <2>1. \A x : Key("gone", x) \notin K /\ Key("gone", x) \notin holds[r]
      BY <1>1 DEF DeployOK, Kind, Key
    <2> QED BY <2>1
  <1> QED BY <1>2, <1>5, <1>6, StepKeepsIInv

LEMMA FindCurrentKeepsIInv ==
  ASSUME IInv, NEW r \in Requests, FindCurrent(r)
  PROVE  IInv'
  <1>1. req[r].pc = "find"
    BY DEF FindCurrent, At
  <1>2. req[r] # Idle /\ req[r].pc \in DeploySteps \ {"commit"}
    BY <1>1, IdleFacts DEF DeploySteps
  <1>3. CASE AlreadyDeployed(req[r])
    BY <1>1, <1>2, <1>3, EndKeepsIInv DEF FindCurrent, Outcomes
  <1>4. CASE ~AlreadyDeployed(req[r])
    <2>1. Go(r, "previous") /\ UNCHANGED <<tables, holds>>
      BY <1>4 DEF FindCurrent
    <2>2. Goes(r, "previous", req[r].chosen) /\ Lock(r, {})
      BY <1>2, <2>1, GoFacts, NoLock DEF Steps
    <2> QED BY <1>2, <2>1, <2>2, DeployGoesOn DEF DeploySteps
  <1> QED BY <1>3, <1>4

LEMMA ChoosePreviousKeepsIInv ==
  ASSUME IInv, NEW r \in Requests, ChoosePrevious(r)
  PROVE  IInv'
  <1> DEFINE rows == Previous(req[r])
  <1>1. req[r].pc = "previous" /\ Choose(r, rows, "mark")
    BY DEF ChoosePrevious, At
  <1>2. req[r] # Idle /\ req[r].pc \in DeploySteps \ {"commit"}
    BY <1>1, IdleFacts DEF DeploySteps
  <1>3. /\ rows \in SUBSET (Requests \cup Versions)
        /\ rows \subseteq Requests
        /\ \A i \in rows : ToTarget(i, req[r].target) /\ req[i].pc = "done"
    BY DEF Previous, ToTarget, IInv, RowsAreDone
  <1> HIDE DEF rows
  <1>4. Goes(r, "mark", rows) /\ UNCHANGED <<tables, holds>>
    BY <1>1, <1>2, <1>3, ChooseFacts DEF Steps
  <1>5. Lock(r, {})
    BY <1>4, NoLock
  <1> QED BY <1>2, <1>3, <1>4, <1>5, DeployGoesOn DEF DeploySteps

\* What a statement locks are the rows of its choice that are still to be changed, and
\* that no other one has locked.
LEMMA MarkFacts ==
  ASSUME IInv, NEW r \in Requests, req[r].pc = "mark"
  PROVE  /\ Remaining(req[r]) = {i \in req[r].chosen : deployed[i] # NoRow /\ i \notin undeployed}
         /\ Needs(r) = Keys("row", Remaining(req[r]))
  <1>1. Remaining(req[r]) = {i \in req[r].chosen : deployed[i] # NoRow /\ i \notin undeployed}
    BY Zenon DEF Remaining
  <1>2. Needs(r) = Keys("row", Remaining(req[r]))
    BY Zenon DEF Needs
  <1> QED BY <1>1, <1>2

LEMMA RecordPreviousUndeployedKeepsIInv ==
  ASSUME IInv, NEW r \in Requests, RecordPreviousUndeployed(r)
  PROVE  IInv'
  <1> DEFINE rows == Remaining(req[r])
             K == Keys("row", rows)
  <1>1. /\ req[r].pc = "mark" /\ Waits(r) = {}
        /\ Lock(r, K) /\ Go(r, "insert") /\ UNCHANGED tables
    BY DEF RecordPreviousUndeployed, At
  <1>2. req[r] # Idle /\ req[r].pc \in DeploySteps \ {"commit"}
    BY <1>1, IdleFacts DEF DeploySteps
  <1>3. DeployOK(r) /\ RowsOK(r)
    BY <1>2, IsDeployment DEF IInv, RequestOK
  <1>4. rows \subseteq req[r].chosen /\ Needs(r) = K /\ \A i \in rows : deployed[i] # NoRow
    BY <1>1, MarkFacts
  <1>5. rows \subseteq Requests /\ req[r].chosen \subseteq Requests
    BY <1>1, <1>3, <1>4 DEF RowsOK
  <1>6. \A i \in rows :
          deployed[i] # NoRow /\ ToTarget(i, req[r].target) /\ req[i].pc = "done"
    BY <1>1, <1>3, <1>4 DEF DeployOK, RowsOK
  <1>7. Goes(r, "insert", req[r].chosen)
    BY <1>1, <1>2, GoFacts DEF Steps
  <1> HIDE DEF rows
  <1>8. /\ K \in SUBSET (Kinds \X Things) /\ \A k \in K : k[1] = "row"
        /\ \A i : Key("row", i) \in K <=> i \in rows
    BY <1>5 DEF Keys, Key, Kinds, Things
  <1>9. \A i, q \in Requests : Key("row", i) \in K /\ q # r => Key("row", i) \notin holds[q]
    BY <1>1, <1>4, FreeFacts
  <1>10. \A x : Key("refer", x) \notin K /\ Key("current", x) \notin K
    BY <1>8 DEF Key
  <1> HIDE DEF K
  <1> QED BY <1>1, <1>2, <1>6, <1>7, <1>8, <1>9, <1>10, DeployGoesOn DEF DeploySteps

LEMMA CreateDeployedVersionKeepsIInv ==
  ASSUME IInv, NEW r \in Requests, CreateDeployedVersion(r)
  PROVE  IInv'
  <1> DEFINE parents == {Env, req[r].version}
             K == Keys("refer", parents)
  <1>1. req[r].pc = "insert" /\ Waits(r) = {}
    BY DEF CreateDeployedVersion, At
  <1>2. req[r] # Idle /\ req[r].pc \in DeploySteps \ {"commit"}
    BY <1>1, IdleFacts DEF DeploySteps
  <1>3. CASE parents \subseteq present
    <2>1. Lock(r, K) /\ Go(r, "current") /\ UNCHANGED tables
      BY <1>3 DEF CreateDeployedVersion
    <2>2. Goes(r, "current", req[r].chosen)
      BY <1>2, <2>1, GoFacts DEF Steps
    <2>3. Env \in Parents /\ req[r].version \in Parents
      BY <1>2, ActiveFacts DEF Parents
    <2>4. K = {Key("refer", Env), Key("refer", req[r].version)}
      BY DEF Keys
    <2>5. K \in SUBSET (Kinds \X Things) /\ \A k \in K : k[1] = "refer"
      <3>1. \A x \in Parents : Key("refer", x) \in Kinds \X Things /\ Key("refer", x)[1] = "refer"
        BY DEF Key, Kinds, Things
      <3> QED BY <2>3, <2>4, <3>1
    <2>6. \A x : Key("refer", x) \in K => x \in parents
      BY <2>4 DEF Key
    <2>7. \A x \in parents : Key("gone", x) \in Needs(r)
      <3>1. Needs(r) = Keys("gone", {Env, req[r].version})
                         \cup (IF req[r].pc = "ignore" THEN {Key("release", req[r].version)} ELSE {})
        BY <1>1, Zenon DEF Needs
      <3> QED BY <3>1 DEF Keys
    <2>8. \A x \in Parents, q \in Requests \ {r} :
            Key("refer", x) \in K => Key("gone", x) \notin holds[q]
      BY <1>1, <2>6, <2>7, FreeFacts
    <2>9. \A x : Key("row", x) \notin K /\ Key("current", x) \notin K
      BY <2>5 DEF Key
    <2>10. K \subseteq holds[r] \cup K /\ {Env, req[r].version} \subseteq present
      BY <1>3
    <2> HIDE DEF K, parents
    <2> QED BY <1>2, <2>1, <2>2, <2>4, <2>5, <2>8, <2>9, <2>10, DeployGoesOn DEF DeploySteps
  <1>4. CASE ~(parents \subseteq present)
    BY <1>1, <1>2, <1>4, EndKeepsIInv DEF CreateDeployedVersion, Outcomes
  <1> QED BY <1>3, <1>4

LEMMA UpsertCurrentKeepsIInv ==
  ASSUME IInv, NEW r \in Requests, UpsertCurrent(r)
  PROVE  IInv'
  <1> DEFINE K == {Key("current", req[r].target)}
  <1>1. req[r].pc = "current" /\ Lock(r, K) /\ Go(r, "commit") /\ UNCHANGED tables
    BY DEF UpsertCurrent, At
  <1>2. req[r] # Idle /\ req[r].pc \in DeploySteps \ {"commit"}
    BY <1>1, IdleFacts DEF DeploySteps
  <1>3. DeployOK(r)
    BY <1>2, IsDeployment
  <1>4. Goes(r, "commit", req[r].chosen)
    BY <1>1, <1>2, GoFacts DEF Steps
  <1>5. K \in SUBSET (Kinds \X Things) /\ \A k \in K : k[1] = "current"
    BY <1>2, ActiveFacts DEF Key, Kinds, Things
  <1>6. \A x : /\ Key("row", x) \notin K /\ Key("refer", x) \notin K
               /\ Key("current", x) \in K => x = req[r].target
    BY DEF Key
  <1>7. /\ {Key("refer", Env), Key("refer", req[r].version)} \subseteq holds[r] \cup K
        /\ {Env, req[r].version} \subseteq present
        /\ Key("current", req[r].target) \in holds[r] \cup K
    BY <1>1, <1>3 DEF DeployOK
  <1> HIDE DEF K
  <1> QED BY <1>1, <1>2, <1>4, <1>5, <1>6, <1>7, DeployGoesOn DEF DeploySteps

-----------------------------------------------------------------------------
(* Recording an undeployment *)

LEMMA IsUndeployment ==
  ASSUME IInv, NEW r \in Requests, req[r].pc \in UndeploySteps \ {"commit"}
  PROVE  req[r] # Idle /\ req[r].op = "undeploy" /\ UndeployOK(r)
  <1>1. req[r] # Idle
    BY IdleFacts DEF UndeploySteps
  <1>2. RequestOK(r) /\ req[r].op \in Operations
    BY <1>1, ActiveFacts DEF IInv
  <1> QED
    BY <1>1, <1>2
    DEF Operations, RequestOK, Deploys, DeployOK, ReleaseOK, DeleteOK, DeploySteps,
        UndeploySteps, ReleaseSteps, DeleteSteps, Outcomes

LEMMA UndeployGoesOn ==
  ASSUME IInv, NEW r \in Requests, req[r].pc \in UndeploySteps \ {"commit"},
         NEW step \in UndeploySteps, Goes(r, step, req[r].chosen), UNCHANGED tables,
         NEW K \in SUBSET (Kinds \X Things), Lock(r, K),
         \A k \in K : k[1] \in {"row", "current"},
         \A i \in Requests : Key("row", i) \in K =>
            i = req[r].row /\ \A q \in Requests \ {r} : Key("row", i) \notin holds[q],
         step \in {"record", "commit"} =>
            \/ current[req[r].target] # req[r].row
            \/ Key("current", req[r].target) \in holds[r] \cup K
  PROVE  IInv'
  <1>1. req[r] # Idle /\ req[r].op = "undeploy" /\ UndeployOK(r) /\ RowsOK(r)
    BY IsUndeployment DEF IInv, RequestOK
  <1>2. /\ holds'[r] = holds[r] \cup K
        /\ UNCHANGED <<deployed, current>>
        /\ req[r].pc # "done" /\ step \in Steps
        /\ \A i \in Requests : req[i].pc = "done" => req'[i].pc = "done"
    BY <1>1, LockFacts, TablesKept DEF UndeploySteps, Goes, Steps
  <1>3. /\ req'[r].pc = step /\ req'[r].op = "undeploy"
        /\ req'[r].target = req[r].target /\ req'[r].row = req[r].row
    BY <1>1 DEF Goes
  <1>4. req[r].row \in Requests /\ req[req[r].row].pc = "done"
    BY <1>1, ActiveFacts DEF UndeployOK
  <1>5. UndeployOK(r)'
    <2>1. Kind(r, {"row", "current"})'
      BY <1>1, <1>2 DEF UndeployOK, Kind
    <2>2. \A i \in Requests : Key("row", i) \in holds'[r] => i = req[r].row
      BY <1>1, <1>2 DEF UndeployOK
    <2>3. /\ req'[req[r].row].pc = "done"
          /\ deployed'[req[r].row] # NoRow => deployed'[req[r].row][2] = req[r].target
      BY <1>1, <1>2, <1>4 DEF UndeployOK, ToTarget
    <2> QED BY <1>2, <1>3, <2>1, <2>2, <2>3 DEF UndeployOK, ToTarget, Key
  <1>6. RowsOK(r)'
    BY <1>1, <1>2, <1>3, <1>4 DEF RowsOK, UndeploySteps, Key
  <1>7. RequestOK(r)'
    BY <1>3, <1>5, <1>6 DEF RequestOK, Deploys
  <1>8. \A x : Key("refer", x) \notin K /\ Key("gone", x) \notin K
    BY DEF Key
  <1> QED BY <1>2, <1>7, <1>8, StepKeepsIInv

LEMMA ReadCurrentRowKeepsIInv ==
  ASSUME IInv, NEW r \in Requests, ReadCurrentRow(r)
  PROVE  IInv'
  <1>1. req[r].pc = "read"
    BY DEF ReadCurrentRow, At
  <1>2. req[r] # Idle /\ req[r].pc \in UndeploySteps \ {"commit"}
    BY <1>1, IdleFacts DEF UndeploySteps
  <1>3. PICK step \in {"clear", "record"}, seen \in Requests \cup {NoRow} :
          /\ req' = [req EXCEPT ![r] = [@ EXCEPT !.pc = step, !.seen = seen]]
          /\ step = "record" => current[req[r].target] # req[r].row
    <2>1. currentRow[req[r].target] \in Requests \cup {NoRow}
      BY <1>2, ActiveFacts DEF IInv, TypeOK
    <2> QED BY <2>1 DEF ReadCurrentRow
  <1>4. req[r] \in ActiveReq /\ req \in [Requests -> {Idle} \cup ActiveReq]
    BY <1>2, ActiveFacts
  <1>5. /\ req'[r] = [req[r] EXCEPT !.pc = step, !.seen = seen]
        /\ \A q \in Requests \ {r} : req'[q] = req[q]
    BY <1>3, <1>4
  <1>6. [req[r] EXCEPT !.pc = step, !.seen = seen] \in ActiveReq
    BY <1>3, <1>4 DEF ActiveReq, Steps
  <1>7. req' \in [Requests -> {Idle} \cup ActiveReq]
    BY <1>3, <1>4, <1>6
  <1>8. /\ req'[r].pc = step /\ req'[r].op = req[r].op
        /\ req'[r].version = req[r].version /\ req'[r].target = req[r].target
        /\ req'[r].row = req[r].row /\ req'[r].chosen = req[r].chosen
    BY <1>4, <1>5 DEF ActiveReq
  <1>9. Goes(r, step, req[r].chosen)
    BY <1>5, <1>6, <1>7, <1>8, IdleFacts DEF Goes
  <1>10. UNCHANGED <<tables, holds>> /\ Lock(r, {})
    BY NoLock DEF ReadCurrentRow
  <1> QED BY <1>2, <1>3, <1>9, <1>10, UndeployGoesOn DEF UndeploySteps

LEMMA DeleteCurrentRowKeepsIInv ==
  ASSUME IInv, NEW r \in Requests, DeleteCurrentRow(r)
  PROVE  IInv'
  <1> DEFINE K == {Key("current", req[r].target)}
  <1>1. req[r].pc = "clear"
    BY DEF DeleteCurrentRow, At
  <1>2. req[r] # Idle /\ req[r].pc \in UndeploySteps \ {"commit"}
    BY <1>1, IdleFacts DEF UndeploySteps
  <1>3. CASE currentRow[req[r].target] = req[r].seen
    <2>1. Lock(r, K) /\ Go(r, "record") /\ UNCHANGED tables
      BY <1>3 DEF DeleteCurrentRow
    <2>2. Goes(r, "record", req[r].chosen)
      BY <1>2, <2>1, GoFacts DEF Steps
    <2>3. K \in SUBSET (Kinds \X Things) /\ \A k \in K : k[1] = "current"
      BY <1>2, ActiveFacts DEF Key, Kinds, Things
    <2>4. \A x : Key("row", x) \notin K
      BY DEF Key
    <2>5. Key("current", req[r].target) \in holds[r] \cup K
      OBVIOUS
    <2> HIDE DEF K
    <2> QED BY <1>2, <2>1, <2>2, <2>3, <2>4, <2>5, UndeployGoesOn DEF UndeploySteps
  <1>4. CASE currentRow[req[r].target] # req[r].seen
    BY <1>1, <1>2, <1>4, EndKeepsIInv DEF DeleteCurrentRow, Outcomes
  <1> QED BY <1>3, <1>4

LEMMA RecordUndeployedKeepsIInv ==
  ASSUME IInv, NEW r \in Requests, RecordUndeployed(r)
  PROVE  IInv'
  <1> DEFINE i == req[r].row
             K == IF i \in undeployed THEN {} ELSE {Key("row", i)}
  <1>1. req[r].pc = "record" /\ Waits(r) = {}
    BY DEF RecordUndeployed, At
  <1>2. req[r] # Idle /\ req[r].pc \in UndeploySteps \ {"commit"}
    BY <1>1, IdleFacts DEF UndeploySteps
  <1>3. CASE deployed[i] = NoRow
    BY <1>1, <1>2, <1>3, EndKeepsIInv DEF RecordUndeployed, Outcomes
  <1>4. CASE deployed[i] # NoRow
    <2>1. Lock(r, K) /\ Go(r, "commit") /\ UNCHANGED tables
      BY <1>4 DEF RecordUndeployed
    <2>2. Goes(r, "commit", req[r].chosen)
      BY <1>2, <2>1, GoFacts DEF Steps
    <2>3. K \in SUBSET (Kinds \X Things) /\ \A k \in K : k[1] = "row"
      BY <1>2, ActiveFacts DEF Key, Kinds, Things
    <2>4. \A j : Key("row", j) \in K => j = i /\ i \notin undeployed
      BY DEF Key
    <2>5. i \notin undeployed => Key("row", i) \in Needs(r)
      BY <1>1, Zenon DEF Needs
    <2>6. i \notin undeployed => \A q \in Requests \ {r} : Key("row", i) \notin holds[q]
      BY <1>1, <2>5, FreeFacts
    <2>7. \/ current[req[r].target] # req[r].row
          \/ Key("current", req[r].target) \in holds[r]
      BY <1>1, <1>2, IsUndeployment DEF UndeployOK
    <2> HIDE DEF K
    <2> QED BY <1>2, <2>1, <2>2, <2>3, <2>4, <2>6, <2>7, UndeployGoesOn DEF UndeploySteps
  <1> QED BY <1>3, <1>4

-----------------------------------------------------------------------------
(* Releases *)

LEMMA IsRelease ==
  ASSUME IInv, NEW r \in Requests, req[r].pc \in ReleaseSteps \ {"commit"}
  PROVE  req[r] # Idle /\ req[r].op \in {"release", "unsupport"} /\ ReleaseOK(r)
  <1>1. req[r] # Idle
    BY IdleFacts DEF ReleaseSteps
  <1>2. RequestOK(r) /\ req[r].op \in Operations
    BY <1>1, ActiveFacts DEF IInv
  <1> QED
    BY <1>1, <1>2
    DEF Operations, RequestOK, Deploys, DeployOK, UndeployOK, DeleteOK, DeploySteps,
        UndeploySteps, ReleaseSteps, DeleteSteps, Outcomes

LEMMA ReleaseGoesOn ==
  ASSUME IInv, NEW r \in Requests, req[r].pc \in ReleaseSteps \ {"commit"},
         NEW step \in ReleaseSteps, Go(r, step), UNCHANGED tables,
         NEW K \in SUBSET (Kinds \X Things), Lock(r, K),
         \A k \in K : k[1] \in {"refer", "release", "support"},
         \A x \in Parents, q \in Requests \ {r} :
            Key("refer", x) \in K => Key("gone", x) \notin holds[q]
  PROVE  IInv'
  <1>1. /\ req[r] # Idle /\ req[r].op \in {"release", "unsupport"}
        /\ ReleaseOK(r) /\ RowsOK(r)
    BY IsRelease DEF IInv, RequestOK
  <1>2. step \in Steps /\ req[r].pc # "done" /\ step \notin {"mark", "delete_rows"}
    BY DEF ReleaseSteps, Steps
  <1>3. Goes(r, step, req[r].chosen) /\ holds'[r] = holds[r] \cup K
    BY <1>1, <1>2, GoFacts, LockFacts
  <1>4. req'[r].pc = step /\ req'[r].op = req[r].op
    BY <1>3 DEF Goes
  <1>5. \A x : /\ Key("row", x) \notin holds[r] \cup K
               /\ Key("gone", x) \notin holds[r] \cup K
    BY <1>1 DEF ReleaseOK, Kind, Key
  <1>6. ReleaseOK(r)'
    BY <1>1, <1>3, <1>4 DEF ReleaseOK, Kind
  <1>7. RowsOK(r)'
    BY <1>2, <1>3, <1>4, <1>5 DEF RowsOK, Key
  <1>8. RequestOK(r)'
    BY <1>1, <1>4, <1>6, <1>7 DEF RequestOK, Deploys
  <1> QED BY <1>2, <1>3, <1>5, <1>8, StepKeepsIInv

LEMMA InsertIgnoreReleasedKeepsIInv ==
  ASSUME IInv, NEW r \in Requests, InsertIgnoreReleased(r)
  PROVE  IInv'
  <1> DEFINE parents == {Env, req[r].version}
             K == Keys("refer", parents) \cup {Key("release", req[r].version)}
  <1>1. req[r].pc = "ignore" /\ Waits(r) = {}
    BY DEF InsertIgnoreReleased, At
  <1>2. req[r] # Idle /\ req[r].pc \in ReleaseSteps \ {"commit"}
    BY <1>1, IdleFacts DEF ReleaseSteps
  <1>3. CASE Go(r, "support") /\ UNCHANGED <<tables, holds>>
    <2>1. Lock(r, {})
      BY <1>3, NoLock
    <2> QED BY <1>2, <1>3, <2>1, ReleaseGoesOn DEF ReleaseSteps
  <1>4. CASE Lock(r, K) /\ Go(r, "commit") /\ UNCHANGED tables
    <2>1. Env \in Parents /\ req[r].version \in Parents
      BY <1>2, ActiveFacts DEF Parents
    <2>2. K = {Key("refer", Env), Key("refer", req[r].version), Key("release", req[r].version)}
      BY DEF Keys
    <2>3. K \in SUBSET (Kinds \X Things) /\ \A k \in K : k[1] \in {"refer", "release"}
      <3>1. \A x \in Parents, kind \in {"refer", "release"} :
              Key(kind, x) \in Kinds \X Things /\ Key(kind, x)[1] = kind
        BY DEF Key, Kinds, Things
      <3> QED BY <2>1, <2>2, <3>1
    <2>4. \A x : Key("refer", x) \in K => x \in parents
      BY <2>2 DEF Key
    <2>5. \A x \in parents : Key("gone", x) \in Needs(r)
      <3>1. Needs(r) = Keys("gone", {Env, req[r].version})
                         \cup (IF req[r].pc = "ignore" THEN {Key("release", req[r].version)} ELSE {})
        BY <1>1, Zenon DEF Needs
      <3> QED BY <3>1 DEF Keys
    <2>6. \A x \in Parents, q \in Requests \ {r} :
            Key("refer", x) \in K => Key("gone", x) \notin holds[q]
      BY <1>1, <2>4, <2>5, FreeFacts
    <2> HIDE DEF K, parents
    <2> QED BY <1>2, <1>4, <2>3, <2>6, ReleaseGoesOn DEF ReleaseSteps
  <1>5. CASE End(r, "error")
    BY <1>1, <1>2, <1>5, EndKeepsIInv DEF Outcomes
  <1> QED BY <1>3, <1>4, <1>5 DEF InsertIgnoreReleased

LEMMA ChangeSupportKeepsIInv ==
  ASSUME IInv, NEW r \in Requests,
         NEW pc \in {"support", "end"}, NEW from \in {"ended", "supported"},
         ChangeSupport(r, pc, from)
  PROVE  IInv'
  <1> DEFINE K == IF released[req[r].version] = from THEN {Key("support", req[r].version)} ELSE {}
  <1>1. req[r].pc = pc
    BY DEF ChangeSupport, At
  <1>2. req[r] # Idle /\ req[r].pc \in ReleaseSteps \ {"commit"}
    BY <1>1, IdleFacts DEF ReleaseSteps
  <1>3. CASE Lock(r, K) /\ Go(r, "commit") /\ UNCHANGED tables
    <2>1. K \in SUBSET (Kinds \X Things) /\ \A k \in K : k[1] = "support"
      BY <1>2, ActiveFacts DEF Key, Kinds, Things
    <2>2. \A x : Key("refer", x) \notin K
      BY <2>1 DEF Key
    <2> HIDE DEF K
    <2> QED BY <1>2, <1>3, <2>1, <2>2, ReleaseGoesOn DEF ReleaseSteps
  <1>4. CASE End(r, "error")
    BY <1>1, <1>2, <1>4, EndKeepsIInv DEF Outcomes
  <1> QED BY <1>3, <1>4 DEF ChangeSupport

-----------------------------------------------------------------------------
(* Deleting *)

LEMMA IsDeletion ==
  ASSUME IInv, NEW r \in Requests, req[r].pc \in DeleteSteps \ {"commit"}
  PROVE  req[r] # Idle /\ req[r].op = "delete" /\ DeleteOK(r)
  <1>1. req[r] # Idle
    BY IdleFacts DEF DeleteSteps
  <1>2. RequestOK(r) /\ req[r].op \in Operations
    BY <1>1, ActiveFacts DEF IInv
  <1> QED
    BY <1>1, <1>2
    DEF Operations, RequestOK, Deploys, DeployOK, UndeployOK, ReleaseOK, DeploySteps,
        UndeploySteps, ReleaseSteps, DeleteSteps, Outcomes

LEMMA DeleteGoesOn ==
  ASSUME IInv, NEW r \in Requests, req[r].pc \in DeleteSteps \ {"commit"},
         NEW step \in DeleteSteps, NEW rows, Goes(r, step, rows), UNCHANGED tables,
         NEW K \in SUBSET (Kinds \X Things), Lock(r, K),
         \A k \in K : k[1] \in {"row", "gone", "current", "release", "support"},
         \A i \in Requests : Key("row", i) \in K =>
            /\ OfParent(i, req[r].version) /\ req[i].pc = "done"
            /\ \A q \in Requests \ {r} : Key("row", i) \notin holds[q],
         \A x \in Parents : Key("gone", x) \in K =>
            x = req[r].version /\ \A q \in Requests \ {r} : Key("refer", x) \notin holds[q],
         step = "delete_rows" =>
            /\ rows \subseteq Requests
            /\ \A i \in rows : OfParent(i, req[r].version) /\ req[i].pc = "done",
         step \in {"cascade", "commit"} =>
            /\ Key("gone", req[r].version) \in holds[r] \cup K
            /\ \A i \in DeployedRows(req[r].version) : Key("row", i) \in holds[r] \cup K,
         step = "commit" =>
            \A t \in CurrentRows(req[r].version) : Key("current", t) \in holds[r] \cup K
  PROVE  IInv'
  <1>1. req[r] # Idle /\ req[r].op = "delete" /\ DeleteOK(r) /\ RowsOK(r)
    BY IsDeletion DEF IInv, RequestOK
  <1>2. /\ holds'[r] = holds[r] \cup K
        /\ UNCHANGED <<deployed, current>>
        /\ req[r].pc # "done" /\ step \in Steps /\ step # "mark"
        /\ \A i \in Requests : req[i].pc = "done" => req'[i].pc = "done"
    BY <1>1, LockFacts, TablesKept DEF DeleteSteps, Goes, Steps
  <1>3. /\ req'[r].pc = step /\ req'[r].op = "delete"
        /\ req'[r].version = req[r].version /\ req'[r].chosen = rows
    BY <1>1 DEF Goes
  <1>4. DeleteOK(r)'
    <2>1. Kind(r, {"row", "gone", "current", "release", "support"})'
      BY <1>1, <1>2 DEF DeleteOK, Kind
    <2>2. /\ \A i \in Requests : Key("row", i) \in holds'[r] =>
               (deployed'[i] # NoRow => Covers(req'[r].version, deployed'[i][1]))
          /\ \A x \in Parents : Key("gone", x) \in holds'[r] => x = req'[r].version
      BY <1>1, <1>2, <1>3 DEF DeleteOK, OfParent
    <2>3. step = "delete_rows" =>
             \A i \in rows : deployed'[i] # NoRow => Covers(req'[r].version, deployed'[i][1])
      BY <1>2, <1>3 DEF OfParent
    <2>4. /\ DeployedRows(req[r].version)' = DeployedRows(req[r].version)
          /\ CurrentRows(req[r].version)' = CurrentRows(req[r].version)
      BY <1>2, <1>3 DEF DeployedRows, CurrentRows
    <2> QED BY <1>2, <1>3, <2>1, <2>2, <2>3, <2>4 DEF DeleteOK, OfParent, Key
  <1>5. RowsOK(r)'
    BY <1>1, <1>2, <1>3 DEF RowsOK, Key
  <1>6. RequestOK(r)'
    BY <1>3, <1>4, <1>5 DEF RequestOK, Deploys
  <1>7. \A x : Key("refer", x) \notin holds[r] \cup K
    BY <1>1 DEF DeleteOK, Kind, Key
  <1> QED BY <1>2, <1>6, <1>7, StepKeepsIInv

LEMMA ChooseDeployedKeepsIInv ==
  ASSUME IInv, NEW r \in Requests, ChooseDeployed(r)
  PROVE  IInv'
  <1> DEFINE rows == DeployedRows(req[r].version)
  <1>1. req[r].pc = "rows" /\ Choose(r, rows, "delete_rows")
    BY DEF ChooseDeployed, At
  <1>2. req[r] # Idle /\ req[r].pc \in DeleteSteps \ {"commit"}
    BY <1>1, IdleFacts DEF DeleteSteps
  <1>3. /\ rows \subseteq Requests
        /\ \A i \in rows : OfParent(i, req[r].version) /\ req[i].pc = "done"
    BY DEF DeployedRows, OfParent, IInv, RowsAreDone
  <1> HIDE DEF rows
  <1>4. Goes(r, "delete_rows", rows) /\ UNCHANGED <<tables, holds>> /\ Lock(r, {})
    BY <1>1, <1>2, <1>3, ChooseFacts, NoLock DEF Steps
  <1> QED BY <1>2, <1>3, <1>4, DeleteGoesOn DEF DeleteSteps

LEMMA ChooseReleasedKeepsIInv ==
  ASSUME IInv, NEW r \in Requests, ChooseReleased(r)
  PROVE  IInv'
  <1> DEFINE rows == ReleasedRows(req[r].version)
  <1>1. req[r].pc = "releases" /\ Choose(r, rows, "delete_releases")
    BY DEF ChooseReleased, At
  <1>2. req[r] # Idle /\ req[r].pc \in DeleteSteps \ {"commit"}
    BY <1>1, IdleFacts DEF DeleteSteps
  <1>3. rows \subseteq Versions
    BY DEF ReleasedRows
  <1> HIDE DEF rows
  <1>4. Goes(r, "delete_releases", rows) /\ UNCHANGED <<tables, holds>> /\ Lock(r, {})
    BY <1>1, <1>2, <1>3, ChooseFacts, NoLock DEF Steps
  <1> QED BY <1>2, <1>4, DeleteGoesOn DEF DeleteSteps

LEMMA DeleteDeployedKeepsIInv ==
  ASSUME IInv, NEW r \in Requests, DeleteDeployed(r)
  PROVE  IInv'
  <1> DEFINE rows == Remaining(req[r])
             K == Keys("row", rows)
  <1>1. /\ req[r].pc = "delete_rows" /\ Waits(r) = {}
        /\ Lock(r, K) /\ Go(r, "releases") /\ UNCHANGED tables
    BY DEF DeleteDeployed, At
  <1>2. req[r] # Idle /\ req[r].pc \in DeleteSteps \ {"commit"}
    BY <1>1, IdleFacts DEF DeleteSteps
  <1>3. DeleteOK(r) /\ RowsOK(r)
    BY <1>2, IsDeletion DEF IInv, RequestOK
  <1>4. rows \subseteq req[r].chosen /\ Needs(r) = K
    <2>1. rows = {i \in req[r].chosen : deployed[i] # NoRow}
      BY <1>1, Zenon DEF Remaining
    <2>2. Needs(r) = K
      BY <1>1, Zenon DEF Needs
    <2> QED BY <2>1, <2>2
  <1>5. rows \subseteq Requests
    BY <1>1, <1>3, <1>4 DEF RowsOK
  <1>6. \A i \in rows : OfParent(i, req[r].version) /\ req[i].pc = "done"
    BY <1>1, <1>3, <1>4 DEF DeleteOK, RowsOK
  <1>7. Goes(r, "releases", req[r].chosen)
    BY <1>1, <1>2, GoFacts DEF Steps
  <1> HIDE DEF rows
  <1>8. /\ K \in SUBSET (Kinds \X Things) /\ \A k \in K : k[1] = "row"
        /\ \A i : Key("row", i) \in K <=> i \in rows
    BY <1>5 DEF Keys, Key, Kinds, Things
  <1>9. \A i, q \in Requests : Key("row", i) \in K /\ q # r => Key("row", i) \notin holds[q]
    BY <1>1, <1>4, FreeFacts
  <1>10. \A x : Key("gone", x) \notin K
    BY <1>8 DEF Key
  <1> HIDE DEF K
  <1> QED BY <1>1, <1>2, <1>6, <1>7, <1>8, <1>9, <1>10, DeleteGoesOn DEF DeleteSteps

LEMMA DeleteReleasedKeepsIInv ==
  ASSUME IInv, NEW r \in Requests, DeleteReleased(r)
  PROVE  IInv'
  <1> DEFINE vs == Remaining(req[r])
             K == Keys("release", vs) \cup Keys("support", vs)
  <1>1. /\ req[r].pc = "delete_releases"
        /\ Lock(r, K) /\ Go(r, "parent") /\ UNCHANGED tables
    BY DEF DeleteReleased, At
  <1>2. req[r] # Idle /\ req[r].pc \in DeleteSteps \ {"commit"}
    BY <1>1, IdleFacts DEF DeleteSteps
  <1>3. vs = {v \in req[r].chosen : released[v] # NoRow}
    BY <1>1, Zenon DEF Remaining
  <1>4. vs \subseteq Requests \cup Versions
    BY <1>2, <1>3, ActiveFacts
  <1>5. Goes(r, "parent", req[r].chosen)
    BY <1>1, <1>2, GoFacts DEF Steps
  <1> HIDE DEF vs
  <1>6. K \in SUBSET (Kinds \X Things) /\ \A k \in K : k[1] \in {"release", "support"}
    BY <1>4 DEF Keys, Key, Kinds, Things, Parents
  <1>7. \A x : Key("gone", x) \notin K /\ Key("row", x) \notin K
    BY <1>6 DEF Key
  <1> HIDE DEF K
  <1> QED BY <1>1, <1>2, <1>5, <1>6, <1>7, DeleteGoesOn DEF DeleteSteps

LEMMA DeleteParentKeepsIInv ==
  ASSUME IInv, NEW r \in Requests, DeleteParent(r)
  PROVE  IInv'
  <1> DEFINE p == req[r].version
             K == {Key("gone", p)}
  <1>1. req[r].pc = "parent" /\ Waits(r) = {}
    BY DEF DeleteParent, At
  <1>2. req[r] # Idle /\ req[r].pc \in DeleteSteps \ {"commit"}
    BY <1>1, IdleFacts DEF DeleteSteps
  <1>3. CASE StillReferred(r)
    BY <1>1, <1>2, <1>3, EndKeepsIInv DEF DeleteParent, Outcomes
  <1>4. CASE ~StillReferred(r)
    <2>1. Lock(r, K) /\ Go(r, "cascade") /\ UNCHANGED tables
      BY <1>4 DEF DeleteParent
    <2>2. Goes(r, "cascade", req[r].chosen)
      BY <1>2, <2>1, GoFacts DEF Steps
    <2>3. K \in SUBSET (Kinds \X Things) /\ \A k \in K : k[1] = "gone"
      BY <1>2, ActiveFacts DEF Key, Kinds, Things
    <2>4. \A x : Key("gone", x) \in K => x = p
      BY DEF Key
    <2>5. Key("refer", p) \in Needs(r)
      <3>1. Needs(r) = {Key("gone", p), Key("refer", p)}
        BY <1>1, Zenon DEF Needs
      <3> QED BY <3>1
    <2>6. \A q \in Requests \ {r} : Key("refer", p) \notin holds[q]
      BY <1>1, <2>5, FreeFacts
    <2>7. \A x : Key("row", x) \notin K
      BY <2>3 DEF Key
    <2>8. /\ Key("gone", req[r].version) \in holds[r] \cup K
          /\ \A i \in DeployedRows(req[r].version) : Key("row", i) \in holds[r] \cup K
      BY <1>4 DEF StillReferred
    <2> HIDE DEF K
    <2> QED
      BY <1>2, <2>1, <2>2, <2>3, <2>4, <2>6, <2>7, <2>8, DeleteGoesOn DEF DeleteSteps
  <1> QED BY <1>3, <1>4

LEMMA CascadeToCurrentKeepsIInv ==
  ASSUME IInv, NEW r \in Requests, CascadeToCurrent(r)
  PROVE  IInv'
  <1> DEFINE ts == CurrentRows(req[r].version)
             K == Keys("current", ts)
  <1>1. /\ req[r].pc = "cascade" /\ Lock(r, K) /\ Go(r, "commit") /\ UNCHANGED tables
    BY DEF CascadeToCurrent, At
  <1>2. req[r] # Idle /\ req[r].pc \in DeleteSteps \ {"commit"}
    BY <1>1, IdleFacts DEF DeleteSteps
  <1>3. DeleteOK(r)
    BY <1>2, IsDeletion
  <1>4. Goes(r, "commit", req[r].chosen)
    BY <1>1, <1>2, GoFacts DEF Steps
  <1>5. ts \subseteq Targets
    BY DEF CurrentRows
  <1>6. /\ Key("gone", req[r].version) \in holds[r] \cup K
        /\ \A i \in DeployedRows(req[r].version) : Key("row", i) \in holds[r] \cup K
    BY <1>1, <1>3 DEF DeleteOK
  <1>7. \A t \in CurrentRows(req[r].version) : Key("current", t) \in holds[r] \cup K
    BY DEF Keys
  <1> HIDE DEF ts
  <1>8. K \in SUBSET (Kinds \X Things) /\ \A k \in K : k[1] = "current"
    BY <1>5 DEF Keys, Key, Kinds, Things
  <1>9. \A x : Key("gone", x) \notin K /\ Key("row", x) \notin K
    BY <1>8 DEF Key
  <1> HIDE DEF K
  <1> QED BY <1>1, <1>2, <1>4, <1>6, <1>7, <1>8, <1>9, DeleteGoesOn DEF DeleteSteps

-----------------------------------------------------------------------------
(* The arrival of a request *)

\* Whether what the request w is about is there; i is the row that is to be undeployed.
Exists(w, i) ==
    CASE w.op \in {"deploy", "tag", "release"} -> {Env, w.version} \subseteq present
      [] w.op = "undeploy" -> deployed[i] = <<w.version, w.target>>
      [] w.op = "unsupport" -> released[w.version] # NoRow
      [] w.op = "delete" -> w.version \in present

LEMMA BeginKeepsIInv ==
  ASSUME IInv, NEW r \in Requests, Begin(r)
  PROVE  IInv'
  <1>1. req[r] = Idle /\ UNCHANGED <<tables, holds>> /\ holds[r] = {}
    BY IdleFacts DEF Begin, IInv, TypeOK, Ended, Steps, Outcomes
  <1>2. PICK w \in Workload, i \in Requests :
          req' = [req EXCEPT ![r] =
             [pc |-> IF Exists(w, i) THEN FirstStep(w.op)
                     ELSE IF w.op = "tag" THEN "done" ELSE "missing",
              op |-> w.op, version |-> w.version, target |-> w.target,
              row |-> i, seen |-> NoRow, chosen |-> {}]]
    BY Zenon DEF Begin, Exists
  <1>3. w.op \in Operations /\ w.version \in Parents /\ w.target \in Targets
    BY DeploymentsAssumption
  <1> DEFINE step == IF Exists(w, i) THEN FirstStep(w.op) ELSE IF w.op = "tag" THEN "done" ELSE "missing"
             new == [pc |-> step, op |-> w.op, version |-> w.version, target |-> w.target,
                     row |-> i, seen |-> NoRow, chosen |-> {}]
  <1>4. FirstStep(w.op) =
          IF w.op \in {"deploy", "tag"} THEN "find" ELSE IF w.op = "undeploy" THEN "read"
          ELSE IF w.op = "release" THEN "ignore" ELSE IF w.op = "unsupport" THEN "end" ELSE "rows"
    <2>1. w.op \in {"deploy", "tag"} => FirstStep(w.op) = "find"
      BY Zenon DEF FirstStep
    <2>2. w.op = "undeploy" => FirstStep(w.op) = "read"
      BY Zenon DEF FirstStep
    <2>3. w.op = "release" => FirstStep(w.op) = "ignore"
      BY Zenon DEF FirstStep
    <2>4. w.op = "unsupport" => FirstStep(w.op) = "end"
      BY Zenon DEF FirstStep
    <2>5. w.op = "delete" => FirstStep(w.op) = "rows"
      BY Zenon DEF FirstStep
    <2> QED BY <1>3, <2>1, <2>2, <2>3, <2>4, <2>5 DEF Operations
  <1>5. /\ step \in Steps \cup Outcomes
        /\ \/ step \in {"done", "missing"}
           \/ Exists(w, i) /\ step = FirstStep(w.op)
        /\ step \notin {"mark", "delete_rows", "commit"}
    BY <1>4 DEF Steps, Outcomes
  <1>6. req' = [req EXCEPT ![r] = new]
    BY <1>2
  <1> HIDE DEF step
  <1>7. new \in ActiveReq
    BY <1>3, <1>5 DEF ActiveReq
  <1>8. /\ req' \in [Requests -> {Idle} \cup ActiveReq] /\ req'[r] = new
        /\ \A q \in Requests \ {r} : req'[q] = req[q]
    BY <1>6, <1>7 DEF IInv, MemoryOK
  <1>9. Statement(r)
    BY <1>1, <1>7, <1>8, IdleFacts DEF Statement, IInv, MemoryOK
  <1>10. Exclusive'
    BY <1>1 DEF IInv, Exclusive
  <1>11. RequestOK(r)'
    <2>1. /\ req'[r].pc = step /\ req'[r].op = w.op /\ req'[r].version = w.version
          /\ req'[r].target = w.target /\ req'[r].row = i /\ holds'[r] = {}
      BY <1>1, <1>8
    <2>2. RowsOK(r)'
      BY <1>5, <2>1 DEF RowsOK
    <2>3. w.op \in {"deploy", "tag"} => DeployOK(r)'
      <3>1. w.op \in {"deploy", "tag"} => w.version \in Versions /\ step \in {"find", "done", "missing"}
        BY <1>3, <1>4, <1>5, DeploymentsAssumption DEF Parents
      <3> QED BY <2>1, <3>1 DEF DeployOK, Kind, DeploySteps, Outcomes
    <2>4. w.op = "undeploy" => UndeployOK(r)'
      <3> SUFFICES ASSUME w.op = "undeploy" PROVE UndeployOK(r)'
        OBVIOUS
      <3>1. CASE step \in {"done", "missing"}
        BY <2>1, <3>1 DEF UndeployOK, Kind, UndeploySteps, Outcomes
      <3>2. CASE Exists(w, i) /\ step = "read"
        <4>1. deployed[i] = <<w.version, w.target>> /\ deployed[i] # NoRow
          <5>1. deployed[i] = <<w.version, w.target>>
            BY <3>2, Zenon DEF Exists
          <5>2. deployed[i] \in Versions \X Targets
            BY <1>3, <5>1, DeploymentsAssumption DEF Parents
          <5> QED BY <5>1, <5>2, DeploymentsAssumption
        <4>2. req[i].pc = "done" /\ i # r
          BY <1>1, <4>1, IdleFacts DEF IInv, RowsAreDone
        <4>3. req'[i].pc = "done" /\ ToTarget(i, w.target)'
          BY <1>1, <1>8, <4>1, <4>2 DEF ToTarget, tables
        <4> QED BY <2>1, <3>2, <4>3 DEF UndeployOK, Kind, ToTarget, UndeploySteps
      <3> QED BY <1>4, <1>5, <3>1, <3>2
    <2>5. w.op \in {"release", "unsupport"} => ReleaseOK(r)'
      BY <1>4, <1>5, <2>1 DEF ReleaseOK, Kind, ReleaseSteps, Outcomes
    <2>6. w.op = "delete" => DeleteOK(r)'
      BY <1>4, <1>5, <2>1 DEF DeleteOK, Kind, DeleteSteps, Outcomes
    <2> QED BY <2>1, <2>2, <2>3, <2>4, <2>5, <2>6 DEF RequestOK, Deploys
  <1> QED BY <1>9, <1>10, <1>11, StatementKeepsIInv

-----------------------------------------------------------------------------
(* The end of the transaction *)

\* What a commit of r does, the tables apart.
CommitEnds(r) ==
    /\ req[r].pc = "commit" /\ req[r] # Idle
    /\ Goes(r, "done", req[r].chosen)
    /\ holds' \in [Requests -> SUBSET (Kinds \X Things)]
    /\ holds'[r] = {} /\ \A q \in Requests \ {r} : holds'[q] = holds[q]

LEMMA CommitFacts ==
  ASSUME IInv, NEW r \in Requests, Commit(r)
  PROVE  /\ CommitEnds(r)
         /\ present' = {p \in present : ~Wrote(r, "gone", p)}
         /\ deployed' = [i \in Requests |->
              IF req[r].op = "delete" /\ Wrote(r, "row", i) THEN NoRow
              ELSE IF Deploys(r) /\ i = r THEN <<req[r].version, req[r].target>>
              ELSE deployed[i]]
         /\ undeployed' =
              IF req[r].op = "delete" THEN {i \in undeployed : ~Wrote(r, "row", i)}
              ELSE undeployed \cup {i \in Requests : Wrote(r, "row", i)}
         /\ current' = [t \in Targets |->
              IF ~Wrote(r, "current", t) THEN current[t] ELSE IF Deploys(r) THEN r ELSE NoRow]
         /\ last' = IF Deploys(r) THEN [last EXCEPT ![req[r].target] = r] ELSE last
  <1>1. req[r].pc = "commit" /\ Go(r, "done") /\ holds' = [holds EXCEPT ![r] = {}]
    BY DEF Commit, At
  <1>2. req[r] # Idle
    BY <1>1, IdleFacts
  <1>3. Goes(r, "done", req[r].chosen)
    BY <1>1, <1>2, GoFacts DEF Outcomes
  <1>4. CommitEnds(r)
    BY <1>1, <1>2, <1>3 DEF CommitEnds, IInv, MemoryOK
  <1> QED BY <1>4 DEF Commit, Deploys

\* What a commit of r does to the tables, as far as other requests are concerned: it
\* takes rows that it has locked, and a new row refers to what it has locked.
Changes(r) ==
    /\ \A x \in present : x \in present' \/ Key("gone", x) \in holds[r]
    /\ \A i \in Requests \ {r} :
         \/ deployed'[i] = deployed[i]
         \/ deployed'[i] = NoRow /\ Key("row", i) \in holds[r]
    /\ \/ deployed'[r] = deployed[r]
       \/ {Key("refer", Env), Key("refer", deployed'[r][1])} \subseteq holds[r]
    /\ \A t \in Targets : current'[t] \in {current[t], NoRow, r}

\* Another deployment finds its rows and what it refers to as they were.
LEMMA DeploymentGoesOn ==
  ASSUME IInv, NEW r \in Requests, CommitEnds(r), Changes(r),
         NEW q \in Requests \ {r}, req[q] # Idle, DeployOK(q), RowsOK(q)
  PROVE  DeployOK(q)'
  <1>1. req'[q] = req[q] /\ holds'[q] = holds[q] /\ req[r].pc = "commit"
    BY DEF CommitEnds, Goes
  <1>2. \A i \in Requests : req[i].pc = "done" => i # r
    BY <1>1
  <1>3. \A i \in Requests : Key("row", i) \in holds[q] => deployed'[i] = deployed[i]
    BY <1>2 DEF Changes, RowsOK, IInv, Exclusive
  <1>4. req[q].pc = "mark" =>
          \A i \in req[q].chosen : deployed'[i] # NoRow => deployed'[i][2] = req[q].target
    BY <1>2 DEF Changes, RowsOK, DeployOK, ToTarget
  <1>5. req[q].pc \in {"current", "commit"} => {Env, req[q].version} \subseteq present'
    BY DEF Changes, DeployOK, IInv, Exclusive, TypeOK
  <1> QED BY <1>1, <1>3, <1>4, <1>5 DEF DeployOK, ToTarget, Kind

\* The row that another request is undeploying is not shown by its target again.
LEMMA UndeploymentGoesOn ==
  ASSUME IInv, NEW r \in Requests, CommitEnds(r), Changes(r),
         NEW q \in Requests \ {r}, req[q] # Idle, UndeployOK(q)
  PROVE  UndeployOK(q)'
  <1>1. req'[q] = req[q] /\ holds'[q] = holds[q] /\ req[r].pc = "commit" /\ req'[r].pc = "done"
    BY DEF CommitEnds, Goes
  <1>2. req[q].row \in Requests /\ req[q].target \in Targets
    BY ActiveFacts
  <1>3. CASE req[q].pc \in Outcomes
    BY <1>1, <1>3 DEF UndeployOK, Kind, Outcomes, UndeploySteps
  <1>4. CASE req[q].pc \in UndeploySteps
    <2>1. req[q].row # r /\ req[req[q].row].pc = "done"
      BY <1>1, <1>4 DEF UndeployOK
    <2>2. req'[req[q].row].pc = "done"
      BY <1>2, <2>1 DEF CommitEnds, Goes
    <2>3. deployed'[req[q].row] # NoRow => deployed'[req[q].row][2] = req[q].target
      BY <1>2, <1>4, <2>1 DEF Changes, UndeployOK, ToTarget
    <2>4. current'[req[q].target] = req[q].row => current[req[q].target] = req[q].row
      BY <1>2, <2>1, DeploymentsAssumption DEF Changes
    <2> QED BY <1>1, <1>4, <2>2, <2>3, <2>4 DEF UndeployOK, ToTarget, Kind
  <1> QED BY <1>3, <1>4 DEF UndeployOK

\* No row is added to those of the parent that another request is about to remove.
LEMMA DeletionGoesOn ==
  ASSUME IInv, NEW r \in Requests, CommitEnds(r), Changes(r),
         NEW q \in Requests \ {r}, req[q] # Idle, DeleteOK(q), RowsOK(q)
  PROVE  DeleteOK(q)'
  <1> DEFINE p == req[q].version
  <1>1. req'[q] = req[q] /\ holds'[q] = holds[q] /\ req[r].pc = "commit"
    BY DEF CommitEnds, Goes
  <1>2. /\ \A i \in Requests : req[i].pc = "done" => i # r
        /\ deployed[r] = NoRow /\ p \in Parents
    BY <1>1, ActiveFacts DEF IInv, RowsAreDone
  <1>3. \A i \in Requests :
          Key("row", i) \in holds[q] => (deployed'[i] # NoRow => Covers(p, deployed'[i][1]))
    BY <1>2 DEF Changes, RowsOK, DeleteOK, OfParent
  <1>4. req[q].pc = "delete_rows" =>
          \A i \in req[q].chosen : deployed'[i] # NoRow => Covers(p, deployed'[i][1])
    BY <1>2 DEF Changes, RowsOK, DeleteOK, OfParent
  <1>5. Key("gone", p) \in holds[q] => r \notin DeployedRows(p)'
    BY <1>1, <1>2 DEF Changes, DeployedRows, Covers, IInv, Exclusive
  <1>6. DeployedRows(p)' \subseteq DeployedRows(p) \cup {r}
    BY <1>1 DEF Changes, DeployedRows
  <1>7. Key("gone", p) \in holds[q] => DeployedRows(p)' \subseteq DeployedRows(p)
    BY <1>5, <1>6
  <1>8. Key("gone", p) \in holds[q] => CurrentRows(p)' \subseteq CurrentRows(p)
    BY <1>1, <1>5, <1>7, DeploymentsAssumption DEF Changes, CurrentRows, DeployedRows
  <1> QED BY <1>1, <1>3, <1>4, <1>7, <1>8 DEF DeleteOK, OfParent, Kind

\* The tables of a commit have rows of the right kind.
LEMMA CommitKeepsTables ==
  ASSUME IInv, NEW r \in Requests, Commit(r)
  PROVE  /\ present' \subseteq Parents
         /\ deployed' \in [Requests -> (Versions \X Targets) \cup {NoRow}]
         /\ undeployed' \subseteq Requests
         /\ {current', currentRow', last'} \subseteq [Targets -> Requests \cup {NoRow}]
         /\ released' \in [Versions -> {NoRow, "supported", "ended"}]
  <1>1. req[r] # Idle /\ req[r].target \in Targets /\ (Deploys(r) => req[r].version \in Versions)
    BY CommitFacts, ActiveFacts DEF CommitEnds, IInv, RequestOK, DeployOK
  <1>2. present' \subseteq Parents /\ undeployed' \subseteq Requests
    BY CommitFacts DEF IInv, TypeOK
  <1>3. deployed' \in [Requests -> (Versions \X Targets) \cup {NoRow}]
    <2>1. deployed \in [Requests -> (Versions \X Targets) \cup {NoRow}]
      BY DEF IInv, TypeOK
    <2>2. deployed' = [i \in Requests |->
            IF req[r].op = "delete" /\ Wrote(r, "row", i) THEN NoRow
            ELSE IF Deploys(r) /\ i = r THEN <<req[r].version, req[r].target>>
            ELSE deployed[i]]
      BY CommitFacts
    <2> QED BY <1>1, <2>1, <2>2
  <1>4. current' \in [Targets -> Requests \cup {NoRow}]
    BY CommitFacts DEF IInv, TypeOK
  <1>5. currentRow' \in [Targets -> Requests \cup {NoRow}]
    BY DEF Commit, IInv, TypeOK
  <1>6. last' \in [Targets -> Requests \cup {NoRow}]
    BY <1>1, CommitFacts DEF IInv, TypeOK
  <1>7. released' \in [Versions -> {NoRow, "supported", "ended"}]
    BY DEF Commit, IInv, TypeOK
  <1> QED BY <1>2, <1>3, <1>4, <1>5, <1>6, <1>7

\* What a commit has to show beyond that.
LEMMA CommitKeepsIInv ==
  ASSUME IInv, NEW r \in Requests, Commit(r), Changes(r),
         \A i \in Requests \ {r} : i \in undeployed' => i \in undeployed \/ Key("row", i) \in holds[r],
         CurrentIsDeployed', CurrentIsLast'
  PROVE  IInv'
  <1>1. /\ CommitEnds(r) /\ RequestOK(r)
        /\ \A q \in Requests : req[q].pc = "done" => req'[q].pc = "done"
    BY CommitFacts DEF CommitEnds, Goes, IInv
  <1>2. MemoryOK'
    BY <1>1 DEF CommitEnds, Goes, MemoryOK
  <1>3. TypeOK'
    <2>1. ASSUME NEW q \in Requests
          PROVE  (\/ req[q] = Idle /\ holds[q] = {}
                  \/ req[q].pc \in Steps \cup Outcomes /\ (Ended(q) => holds[q] = {}))'
      <3>1. CASE q = r
        BY <1>1, <3>1 DEF CommitEnds, Goes, Outcomes
      <3>2. CASE q # r
        <4>1. req'[q] = req[q] /\ holds'[q] = holds[q]
          BY <1>1, <3>2 DEF CommitEnds, Goes
        <4> QED BY <4>1 DEF IInv, TypeOK, Ended
      <3> QED BY <3>1, <3>2
    <2> QED BY <2>1, CommitKeepsTables DEF TypeOK
  <1>4. Exclusive'
    BY <1>1 DEF CommitEnds, IInv, Exclusive
  <1>5. RowsAreDone'
    <2>1. req'[r].pc = "done"
      BY <1>1 DEF CommitEnds, Goes
    <2>2. \A i \in Requests : Key("row", i) \in holds[r] => req[i].pc = "done"
      BY <1>1 DEF CommitEnds, RequestOK, RowsOK
    <2> QED BY <1>1, <2>1, <2>2 DEF Changes, IInv, RowsAreDone
  <1>6. RequestOK(r)'
    <2>1. req'[r].pc = "done" /\ req'[r].op = req[r].op /\ req'[r].version = req[r].version
          /\ holds'[r] = {}
      BY <1>1 DEF CommitEnds, Goes
    <2>2. Deploys(r) => req[r].version \in Versions
      BY <1>1 DEF CommitEnds, RequestOK, DeployOK
    <2>3. RowsOK(r)'
      BY <2>1 DEF RowsOK
    <2>4. Deploys(r)' => DeployOK(r)'
      BY <2>1, <2>2 DEF Deploys, DeployOK, Kind, Outcomes
    <2>5. UndeployOK(r)' /\ ReleaseOK(r)' /\ DeleteOK(r)'
      BY <2>1 DEF UndeployOK, ReleaseOK, DeleteOK, Kind, Outcomes, UndeploySteps
    <2> QED BY <2>3, <2>4, <2>5 DEF RequestOK
  <1>7. ASSUME NEW q \in Requests \ {r} PROVE RequestOK(q)'
    <2>1. req'[q] = req[q] /\ holds'[q] = holds[q]
      BY <1>1 DEF CommitEnds, Goes
    <2>2. CASE req[q] = Idle
      BY <2>1, <2>2 DEF RequestOK, Idle
    <2>3. CASE req[q] # Idle
      <3>1. RequestOK(q)
        BY DEF IInv
      <3>2. RowsOK(q) /\ RowsOK(q)'
        BY <1>1, <2>1, <2>3, <3>1 DEF RequestOK, RowsOK
      <3>3. Deploys(q) => DeployOK(q)'
        BY <1>1, <2>3, <3>1, <3>2, DeploymentGoesOn DEF RequestOK
      <3>4. req[q].op = "undeploy" => UndeployOK(q)'
        BY <1>1, <2>3, <3>1, UndeploymentGoesOn DEF RequestOK
      <3>5. req[q].op \in {"release", "unsupport"} => ReleaseOK(q)'
        BY <2>1, <2>3, <3>1 DEF RequestOK, ReleaseOK, Kind
      <3>6. req[q].op = "delete" => DeleteOK(q)'
        BY <1>1, <2>3, <3>1, <3>2, DeletionGoesOn DEF RequestOK
      <3>7. Deploys(q)' <=> Deploys(q)
        BY <2>1 DEF Deploys
      <3> QED BY <2>1, <3>2, <3>3, <3>4, <3>5, <3>6, <3>7 DEF RequestOK
    <2> QED BY <2>2, <2>3
  <1> QED BY <1>2, <1>3, <1>4, <1>5, <1>6, <1>7 DEF IInv

\* A deployment: its target shows it, and what it has marked was shown there.
LEMMA CommitOfDeployment ==
  ASSUME IInv, NEW r \in Requests, Commit(r), Deploys(r)
  PROVE  IInv'
  <1> DEFINE v0 == req[r].version
             t0 == req[r].target
  <1>1. /\ CommitEnds(r) /\ DeployOK(r) /\ RowsOK(r) /\ req[r].pc = "commit"
        /\ req[r].op # "delete" /\ t0 \in Targets
    BY CommitFacts, ActiveFacts DEF CommitEnds, IInv, RequestOK, Deploys
  <1>2. /\ v0 \in Versions /\ {Env, v0} \subseteq present
        /\ {Key("refer", Env), Key("refer", v0), Key("current", t0)} \subseteq holds[r]
    BY <1>1 DEF DeployOK
  <1>3. /\ \A x : ~Wrote(r, "gone", x)
        /\ \A t \in Targets : Wrote(r, "current", t) <=> t = t0
    BY <1>1, <1>2 DEF DeployOK, Kind, Wrote, Key
  <1>4. present' = present
    <2>1. present' = {p \in present : ~Wrote(r, "gone", p)}
      BY CommitFacts
    <2> QED BY <1>3, <2>1
  <1>5. deployed'[r] = <<v0, t0>> /\ \A i \in Requests \ {r} : deployed'[i] = deployed[i]
    BY <1>1, CommitFacts
  <1>6. undeployed' = undeployed \cup {i \in Requests : Wrote(r, "row", i)}
    BY <1>1, CommitFacts
  <1>7. current'[t0] = r /\ \A t \in Targets \ {t0} : current'[t] = current[t]
    BY <1>1, <1>3, CommitFacts
  <1>8. last'[t0] = r /\ \A t \in Targets \ {t0} : last'[t] = last[t]
    BY <1>1, CommitFacts DEF IInv, TypeOK
  <1>9. Changes(r)
    BY <1>1, <1>2, <1>4, <1>5, <1>7 DEF Changes
  <1>10. CurrentIsDeployed'
    <2>1. r \notin undeployed'
      BY <1>1, <1>6 DEF IInv, RowsAreDone, RowsOK, Wrote
    <2>2. deployed'[r] # NoRow /\ deployed'[r][1] = v0 /\ deployed'[r][2] = t0
      BY <1>1, <1>2, <1>5, DeploymentsAssumption
    <2>3. ASSUME NEW t \in Targets \ {t0}, current'[t] # NoRow
          PROVE  /\ deployed'[current'[t]] # NoRow /\ deployed'[current'[t]][2] = t
                 /\ {Env, deployed'[current'[t]][1]} \subseteq present'
                 /\ current'[t] \notin undeployed'
      <3> DEFINE i == current[t]
      <3>1. current'[t] = i /\ i # NoRow /\ i \in Requests
        BY <1>7, <2>3 DEF IInv, TypeOK
      <3>2. /\ deployed[i] # NoRow /\ deployed[i][2] = t
            /\ {Env, deployed[i][1]} \subseteq present /\ i \notin undeployed
        BY <3>1 DEF IInv, CurrentIsDeployed
      <3>3. i # r
        BY <1>1, <3>2 DEF IInv, RowsAreDone
      <3>4. ~Wrote(r, "row", i)
        BY <1>1, <3>1, <3>2 DEF DeployOK, ToTarget, Wrote
      <3> QED BY <1>4, <1>5, <1>6, <3>1, <3>2, <3>3, <3>4
    <2> QED BY <1>2, <1>4, <1>7, <2>1, <2>2, <2>3 DEF CurrentIsDeployed
  <1>11. CurrentIsLast'
    BY <1>7, <1>8 DEF IInv, CurrentIsLast
  <1> QED BY <1>6, <1>9, <1>10, <1>11, CommitKeepsIInv DEF Wrote

\* An undeployment: the row that it marks is shown no longer.
LEMMA CommitOfUndeployment ==
  ASSUME IInv, NEW r \in Requests, Commit(r), req[r].op = "undeploy"
  PROVE  IInv'
  <1> DEFINE t0 == req[r].target
  <1>1. /\ CommitEnds(r) /\ UndeployOK(r) /\ req[r].pc = "commit" /\ ~Deploys(r)
        /\ t0 \in Targets /\ req[r].row \in Requests
    BY CommitFacts, ActiveFacts DEF CommitEnds, IInv, RequestOK, Deploys
  <1>2. /\ \A x : ~Wrote(r, "gone", x)
        /\ \A i \in Requests : Wrote(r, "row", i) => i = req[r].row
    BY <1>1 DEF UndeployOK, Kind, Wrote, Key
  <1>3. present' = present
    <2>1. present' = {p \in present : ~Wrote(r, "gone", p)}
      BY CommitFacts
    <2> QED BY <1>2, <2>1
  <1>4. \A i \in Requests : deployed'[i] = deployed[i]
    BY <1>1, CommitFacts
  <1>5. undeployed' = undeployed \cup {i \in Requests : Wrote(r, "row", i)}
    BY CommitFacts
  <1>6. /\ \A t \in Targets : current'[t] = IF Wrote(r, "current", t) THEN NoRow ELSE current[t]
        /\ last' = last
    BY <1>1, CommitFacts
  <1>7. Changes(r)
    BY <1>3, <1>4, <1>6 DEF Changes
  <1>8. CurrentIsDeployed'
    <2>1. ASSUME NEW t \in Targets, current'[t] # NoRow
          PROVE  /\ deployed'[current'[t]] # NoRow /\ deployed'[current'[t]][2] = t
                 /\ {Env, deployed'[current'[t]][1]} \subseteq present'
                 /\ current'[t] \notin undeployed'
      <3> DEFINE i == current[t]
      <3>1. current'[t] = i /\ i # NoRow /\ i \in Requests /\ ~Wrote(r, "current", t)
        BY <1>6, <2>1 DEF IInv, TypeOK
      <3>2. /\ deployed[i] # NoRow /\ deployed[i][2] = t
            /\ {Env, deployed[i][1]} \subseteq present /\ i \notin undeployed
        BY <3>1 DEF IInv, CurrentIsDeployed
      <3>3. i # req[r].row
        <4>1. i = req[r].row => t = t0
          BY <1>1, <3>2 DEF UndeployOK, UndeploySteps, ToTarget
        <4> QED BY <1>1, <3>1, <4>1 DEF UndeployOK, Wrote
      <3> QED BY <1>2, <1>3, <1>4, <1>5, <3>1, <3>2, <3>3
    <2> QED BY <2>1 DEF CurrentIsDeployed
  <1>9. CurrentIsLast'
    BY <1>6 DEF IInv, CurrentIsLast
  <1> QED BY <1>5, <1>7, <1>8, <1>9, CommitKeepsIInv DEF Wrote

LEMMA CommitOfRelease ==
  ASSUME IInv, NEW r \in Requests, Commit(r), req[r].op \in {"release", "unsupport"}
  PROVE  IInv'
  <1>1. CommitEnds(r) /\ ReleaseOK(r) /\ ~Deploys(r)
    BY CommitFacts DEF CommitEnds, IInv, RequestOK, Deploys
  <1>2. \A x : ~Wrote(r, "gone", x) /\ ~Wrote(r, "row", x) /\ ~Wrote(r, "current", x)
    BY <1>1 DEF ReleaseOK, Kind, Wrote, Key
  <1>3. present' = present /\ undeployed' = undeployed
    <2>1. /\ present' = {p \in present : ~Wrote(r, "gone", p)}
          /\ undeployed' = undeployed \cup {i \in Requests : Wrote(r, "row", i)}
      BY CommitFacts
    <2> QED BY <1>2, <2>1
  <1>4. /\ \A i \in Requests : deployed'[i] = deployed[i]
        /\ \A t \in Targets : current'[t] = current[t]
        /\ last' = last
    BY <1>1, <1>2, CommitFacts
  <1>5. Changes(r)
    BY <1>3, <1>4 DEF Changes
  <1>6. CurrentIsDeployed' /\ CurrentIsLast'
    BY <1>3, <1>4 DEF IInv, TypeOK, CurrentIsDeployed, CurrentIsLast
  <1> QED BY <1>3, <1>5, <1>6, CommitKeepsIInv

\* A deletion: no target shows one of the rows that go.
LEMMA CommitOfDeletion ==
  ASSUME IInv, NEW r \in Requests, Commit(r), req[r].op = "delete"
  PROVE  IInv'
  <1> DEFINE p0 == req[r].version
  <1>1. CommitEnds(r) /\ DeleteOK(r) /\ req[r].pc = "commit" /\ ~Deploys(r)
    BY CommitFacts DEF CommitEnds, IInv, RequestOK, Deploys
  <1>2. present' = {p \in present : ~Wrote(r, "gone", p)}
    BY CommitFacts
  <1>3. \A i \in Requests : deployed'[i] = IF Wrote(r, "row", i) THEN NoRow ELSE deployed[i]
    BY <1>1, CommitFacts
  <1>4. undeployed' \subseteq undeployed
    BY CommitFacts
  <1>5. /\ \A t \in Targets : current'[t] = IF Wrote(r, "current", t) THEN NoRow ELSE current[t]
        /\ last' = last
    BY <1>1, CommitFacts
  <1>6. ~Wrote(r, "row", r)
    BY <1>1 DEF CommitEnds, IInv, RequestOK, RowsOK, Wrote
  <1>7. Changes(r)
    BY <1>2, <1>3, <1>5, <1>6 DEF Changes, Wrote
  <1>8. CurrentIsDeployed'
    <2>1. ASSUME NEW t \in Targets, current'[t] # NoRow
          PROVE  /\ deployed'[current'[t]] # NoRow /\ deployed'[current'[t]][2] = t
                 /\ {Env, deployed'[current'[t]][1]} \subseteq present'
                 /\ current'[t] \notin undeployed'
      <3> DEFINE i == current[t]
      <3>1. current'[t] = i /\ i # NoRow /\ i \in Requests /\ ~Wrote(r, "current", t)
        BY <1>5, <2>1 DEF IInv, TypeOK
      <3>2. /\ deployed[i] # NoRow /\ deployed[i][2] = t
            /\ {Env, deployed[i][1]} \subseteq present /\ i \notin undeployed
        BY <3>1 DEF IInv, CurrentIsDeployed
      <3>3. i \notin DeployedRows(p0)
        BY <1>1, <3>1 DEF DeleteOK, CurrentRows, Wrote
      <3>4. ~Covers(p0, deployed[i][1])
        BY <3>1, <3>2, <3>3 DEF DeployedRows
      <3>5. ~Wrote(r, "row", i)
        BY <1>1, <3>1, <3>2, <3>4 DEF DeleteOK, OfParent, Wrote
      <3>6. {Env, deployed[i][1]} \subseteq present'
        <4>1. p0 \notin {Env, deployed[i][1]}
          BY <3>4 DEF Covers
        <4>2. \A x \in Parents : Wrote(r, "gone", x) => x = p0
          BY <1>1 DEF DeleteOK, Wrote
        <4> QED BY <1>2, <3>2, <4>1, <4>2 DEF IInv, TypeOK
      <3> QED BY <1>3, <1>4, <3>1, <3>2, <3>5, <3>6
    <2> QED BY <2>1 DEF CurrentIsDeployed
  <1>9. CurrentIsLast'
    BY <1>5 DEF IInv, CurrentIsLast
  <1> QED BY <1>4, <1>7, <1>8, <1>9, CommitKeepsIInv

LEMMA CommitKeeps ==
  ASSUME IInv, NEW r \in Requests, Commit(r)
  PROVE  IInv'
  <1>1. req[r].op \in Operations
    BY CommitFacts, ActiveFacts DEF CommitEnds
  <1> QED
    BY <1>1, CommitOfDeployment, CommitOfUndeployment, CommitOfRelease, CommitOfDeletion
    DEF Operations, Deploys

-----------------------------------------------------------------------------
(* The theorems *)

LEMMA StepsKeepIInv ==
  ASSUME IInv, NEW r \in Requests, req[r] # Idle, Step(r)
  PROVE  IInv'
  <1>1. CASE FindCurrent(r) \/ ChoosePrevious(r) \/ RecordPreviousUndeployed(r)
    BY <1>1, FindCurrentKeepsIInv, ChoosePreviousKeepsIInv, RecordPreviousUndeployedKeepsIInv
  <1>2. CASE CreateDeployedVersion(r) \/ UpsertCurrent(r)
    BY <1>2, CreateDeployedVersionKeepsIInv, UpsertCurrentKeepsIInv
  <1>3. CASE ReadCurrentRow(r) \/ DeleteCurrentRow(r) \/ RecordUndeployed(r)
    BY <1>3, ReadCurrentRowKeepsIInv, DeleteCurrentRowKeepsIInv, RecordUndeployedKeepsIInv
  <1>4. CASE InsertIgnoreReleased(r)
    BY <1>4, InsertIgnoreReleasedKeepsIInv
  <1>5. CASE SetSupported(r)
    BY <1>5, ChangeSupportKeepsIInv DEF SetSupported
  <1>6. CASE RecordSupportEnded(r)
    BY <1>6, ChangeSupportKeepsIInv DEF RecordSupportEnded
  <1>7. CASE ChooseDeployed(r) \/ DeleteDeployed(r) \/ ChooseReleased(r) \/ DeleteReleased(r)
    BY <1>7, ChooseDeployedKeepsIInv, DeleteDeployedKeepsIInv, ChooseReleasedKeepsIInv,
       DeleteReleasedKeepsIInv
  <1>8. CASE DeleteParent(r) \/ CascadeToCurrent(r)
    BY <1>8, DeleteParentKeepsIInv, CascadeToCurrentKeepsIInv
  <1>9. CASE Commit(r)
    BY <1>9, CommitKeeps
  <1>10. CASE DeadlockVictim(r)
    <2>1. req[r].pc # "done"
      BY <1>10, Zenon DEF DeadlockVictim, Waits, Needs
    <2> QED BY <1>10, <2>1, EndKeepsIInv DEF DeadlockVictim, Outcomes
  <1> QED BY <1>1, <1>2, <1>3, <1>4, <1>5, <1>6, <1>7, <1>8, <1>9, <1>10 DEF Step

LEMMA IInvNext == IInv /\ [Next]_vars => IInv'
  <1> SUFFICES ASSUME IInv, [Next]_vars PROVE IInv'
    OBVIOUS
  <1>1. CASE UNCHANGED vars
    <2>1. /\ UNCHANGED <<present, deployed, undeployed, current, currentRow, released, last>>
          /\ UNCHANGED <<req, holds>>
      BY <1>1 DEF vars, tables
    <2>2. TypeOK' /\ MemoryOK' /\ Exclusive' /\ RowsAreDone'
      BY <2>1 DEF IInv, TypeOK, Ended, MemoryOK, Exclusive, RowsAreDone
    <2>3. CurrentIsDeployed' /\ CurrentIsLast'
      BY <2>1 DEF IInv, CurrentIsDeployed, CurrentIsLast
    <2>4. ASSUME NEW r \in Requests PROVE RequestOK(r)'
      BY <2>1
      DEF IInv, RequestOK, RowsOK, Deploys, DeployOK, UndeployOK, ReleaseOK, DeleteOK, Kind,
          ToTarget, OfParent, DeployedRows, CurrentRows
    <2> QED BY <2>2, <2>3, <2>4 DEF IInv
  <1>2. ASSUME NEW r \in Requests, Begin(r) \/ (req[r] # Idle /\ Step(r)) PROVE IInv'
    BY <1>2, BeginKeepsIInv, StepsKeepIInv
  <1> QED BY <1>1, <1>2 DEF Next

LEMMA IInvHolds == Spec => []IInv
  <1> QED BY IInvInit, IInvNext, PTL DEF Spec

\* Rows refer to rows of the right kind, and a transaction that has ended, committed or
\* rolled back, holds nothing.
THEOREM TypeCorrect == Spec => []TypeOK
  <1>1. IInv => TypeOK
    BY DEF IInv
  <1> QED BY <1>1, IInvHolds, PTL

\* However deployments, undeployments and deletions overlap, what is shown as currently
\* deployed to a target is deployed to it, exists, and has not been undeployed.
THEOREM CurrentIsReallyDeployed == Spec => []CurrentIsDeployed
  <1>1. IInv => CurrentIsDeployed
    BY DEF IInv
  <1> QED BY <1>1, IInvHolds, PTL

\* Of however many deployments to a target that overlap, the one committed last is shown.
THEOREM CurrentIsTheLast == Spec => []CurrentIsLast
  <1>1. IInv => CurrentIsLast
    BY DEF IInv
  <1> QED BY <1>1, IInvHolds, PTL

\* A deployment is marked undeployed at the commit of a request about it.
UndeployedNow ==
    \A i \in undeployed' \ undeployed : \E r \in Requests :
        /\ req[r].pc = "commit" /\ req'[r].pc = "done"
        /\ \/ req[r].op = "undeploy" /\ req[r].row = i
           \/ req[r].op \in {"deploy", "tag"} /\ req[r].target = deployed[i][2]

LEMMA OnlyCommitUndeploys ==
  ASSUME NEW r \in Requests, Begin(r) \/ Step(r), ~Commit(r)
  PROVE  undeployed' = undeployed
  <1>1. CASE Begin(r)
    BY <1>1 DEF Begin, tables
  <1>2. CASE Step(r)
    BY <1>2
    DEF Step, FindCurrent, ChoosePrevious, RecordPreviousUndeployed, CreateDeployedVersion,
        UpsertCurrent, ReadCurrentRow, DeleteCurrentRow, RecordUndeployed,
        InsertIgnoreReleased, SetSupported, RecordSupportEnded, ChangeSupport,
        ChooseDeployed, DeleteDeployed, ChooseReleased, DeleteReleased, DeleteParent,
        CascadeToCurrent, DeadlockVictim, Choose, End, tables
  <1> QED BY <1>1, <1>2

LEMMA CommitUndeploys ==
  ASSUME IInv, NEW r \in Requests, Commit(r)
  PROVE  UndeployedNow
  <1> SUFFICES ASSUME NEW i \in undeployed' \ undeployed
               PROVE  /\ req[r].pc = "commit" /\ req'[r].pc = "done"
                      /\ \/ req[r].op = "undeploy" /\ req[r].row = i
                         \/ /\ req[r].op \in {"deploy", "tag"}
                            /\ req[r].target = deployed[i][2]
    BY DEF UndeployedNow
  <1>1. /\ CommitEnds(r) /\ RequestOK(r) /\ req[r] # Idle /\ req[r].op \in Operations
        /\ req[r].pc = "commit" /\ req'[r].pc = "done"
    BY CommitFacts, ActiveFacts DEF CommitEnds, Goes, IInv
  <1>2. req[r].op # "delete" /\ i \in Requests /\ Key("row", i) \in holds[r]
    BY CommitFacts DEF Wrote
  <1>3. CASE Deploys(r)
    BY <1>1, <1>2, <1>3 DEF RequestOK, DeployOK, ToTarget, Deploys
  <1>4. CASE req[r].op = "undeploy"
    BY <1>1, <1>2, <1>4 DEF RequestOK, UndeployOK
  <1>5. CASE req[r].op \in {"release", "unsupport"}
    BY <1>1, <1>2, <1>5 DEF RequestOK, ReleaseOK, Kind, Key
  <1> QED BY <1>1, <1>2, <1>3, <1>4, <1>5 DEF Operations, Deploys

\* A target's deployment is marked undeployed by a request for it, or by a deployment to
\* the same target, whatever else goes on.
THEOREM UndeployedOnlyByItsTarget == Spec => UndeployedByItsTarget
  <1>1. IInv /\ [Next]_vars => [UndeployedNow]_vars
    <2> SUFFICES ASSUME IInv, NEW r \in Requests, Begin(r) \/ (req[r] # Idle /\ Step(r))
                 PROVE  UndeployedNow
      BY DEF Next
    <2>1. CASE Commit(r)
      BY <2>1, CommitUndeploys
    <2>2. CASE ~Commit(r)
      <3>1. undeployed' = undeployed
        BY <2>2, OnlyCommitUndeploys
      <3> QED BY <3>1 DEF UndeployedNow
    <2> QED BY <2>1, <2>2
  <1>2. Spec => [][UndeployedNow]_vars
    BY <1>1, IInvHolds, PTL DEF Spec
  <1> QED BY <1>2 DEF UndeployedByItsTarget, UndeployedNow
================================================================================
