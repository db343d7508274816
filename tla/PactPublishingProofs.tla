-------------------------- MODULE PactPublishingProofs --------------------------
(***************************************************************************)
(* Proofs about PactPublishing, for every set of requests, versions, tags  *)
(* and contents, and all that clients may ask for.                         *)
(***************************************************************************)
EXTENDS PactPublishing, NaturalsInduction, WellFoundedInduction, FiniteSetTheorems, TLAPS

-----------------------------------------------------------------------------
(* The inductive invariant *)

Ids == Requests \cup {NoRow}
Publication == [version : Versions, revision : Nat \ {0}, content : Contents]

\* A request that has begun.
ActiveReq ==
    [pc : Steps \cup Outcomes, op : {"publish", "merge", "put", "patch", "delete"},
     version : Versions, tags : Seq(Tags), inserted : Nat, body : Contents, found : Ids, existing : Ids,
     base : Contents \cup {NoRow}, row : Ids, content : Contents, revision : Nat \ {0},
     changed : BOOLEAN, targets : SUBSET Requests]

Done(i) == req[i].pc = "done"
Kind(r, kinds) == \A k \in holds[r] : k[1] \in kinds

\* The type invariant, and what it leaves out.
MemoryOK ==
    /\ versions \subseteq Versions /\ tagged \subseteq Versions \X Tags
    /\ hooked \subseteq Requests \X Requests
    /\ pub \in [Requests -> Publication \cup {NoRow}]
    /\ latest \in [Versions -> Ids]
    /\ req \in [Requests -> {Idle} \cup ActiveReq]
    /\ known \in [Requests -> SUBSET Requests]
    /\ DOMAIN holds = Requests /\ DOMAIN written = Versions
    /\ \A r \in Requests :
         /\ req[r].pc \in Outcomes => holds[r] = {}
         /\ req[r] = Idle => holds[r] = {} /\ known[r] = {}
    /\ announced \subseteq Contents

\* A revision number is not larger than the number of requests that have inserted rows
\* with at most that number.
Inserted(n) == {j \in Requests : Done(j) /\ req[j].row = j /\ req[j].revision <= n}
Enough(n) == n <= Cardinality(Inserted(n))

\* Committed rows were inserted by requests that have ended.
RowsOK ==
    \A i \in Requests :
        pub[i] # NoRow => Done(i) /\ Enough(pub[i].revision)

\* The rows a request remembers are not those of open transactions.
FoundOK(r) ==
    /\ \A i \in known[r] \cup req[r].targets : Done(i)
    /\ req[r].existing # NoRow => Done(req[r].existing)

\* A request that writes has the row that its upsert finds, or inserts one.
Revision(r) == Key("revision", <<req[r].version, req[r].revision>>)
Latest(r) == Key("latest", req[r].version)
RowOK(r) ==
    \/ req[r].row = r
    \/ /\ req[r].row \in Requests /\ Key("update", req[r].row) \in holds[r]
       /\ pub[req[r].row] # NoRow
       /\ pub[req[r].row].version = req[r].version
       /\ pub[req[r].row].revision = req[r].revision

\* Its revision number is larger than those of the rows it has found.
RevisionOK(r) ==
    /\ Enough(req[r].revision - 1)
    /\ LET id == req[r].existing
       IN id # NoRow /\ pub[id] # NoRow => pub[id].revision < req[r].revision
    /\ \A i \in known[r] : pub[i] # NoRow => pub[i].revision < req[r].revision

ReadSteps == {"arrived", "version", "tag", "find", "existing", "model", "insert"}
WriteSteps == ReadSteps \cup {"latest", "announce", "commit"}
WriteOK(r) ==
    /\ req[r].pc \in WriteSteps
    /\ Kind(r, {"version", "tag", "revision", "update", "share", "latest"})
    /\ \A v \in Versions : Key("latest", v) \in holds[r] => v = req[r].version
    /\ req[r].pc \in ReadSteps => Kind(r, {"version", "tag"})
    /\ req[r].pc = "latest" => Revision(r) \in holds[r]
    /\ req[r].pc \in {"announce", "commit"} => (Revision(r) \in holds[r] <=> Latest(r) \in holds[r])
    /\ req[r].pc \in {"arrived", "version", "tag", "find", "existing"} =>
         req[r].existing = NoRow /\ req[r].revision = 1
    /\ req[r].existing = NoRow => known[r] = {}
    /\ req[r].existing # NoRow => req[r].base \in announced
    /\ req[r].pc = "model" =>
         /\ req[r].existing # NoRow
         /\ LET id == req[r].existing
            IN pub[id] # NoRow =>
                 \A i \in known[r] : pub[i] # NoRow => pub[i].revision <= pub[id].revision
    /\ req[r].pc = "insert" \/ Revision(r) \in holds[r] => RevisionOK(r)
    /\ Revision(r) \in holds[r] => RowOK(r)
    /\ req[r].pc = "commit" => req[r].changed \/ req[r].content \in announced

\* A request that deletes has all rows there were, unless others have been written since,
\* and then the latest row names one of those.
RemoveSteps == {"arrived", "unhook", "choose", "remove", "cascade", "commit"}
DeleteOK(r) ==
    LET v == req[r].version
        targets == req[r].targets
    IN /\ req[r].pc \in RemoveSteps
       /\ Kind(r, {"unhook", "delete", "latest"})
       /\ \A u \in Versions : Key("latest", u) \in holds[r] => u = v
       /\ req[r].pc \notin {"cascade", "commit"} => Kind(r, {"unhook"})
       /\ req[r].pc = "cascade" => Kind(r, {"unhook", "delete"})
       /\ \A i \in targets : pub[i] # NoRow => pub[i].version = v
       /\ \A i \in Requests : Key("delete", i) \in holds[r] => i \in Removable(r)
       /\ req[r].pc \in {"cascade", "commit"} =>
            \A i \in Removable(r) : Key("delete", i) \in holds[r]
       /\ req[r].pc = "commit" => (Latest(r) \in holds[r] <=> latest[v] \in Removable(r))
       /\ req[r].pc \in {"remove", "cascade", "commit"} =>
            (latest[v] \in targets => Overwritten(v) \/ Rows(v) \subseteq targets)

RequestOK(r) ==
    req[r] # Idle /\ req[r].pc \notin Outcomes =>
        /\ FoundOK(r)
        /\ req[r].op # "delete" => WriteOK(r)
        /\ req[r].op = "delete" => DeleteOK(r)

\* No two write the latest row of one version; who deletes a row has it for itself.
Exclusive ==
    \A r, q \in Requests :
        r # q =>
            /\ \A v \in Versions :
                 Key("latest", v) \in holds[r] => Key("latest", v) \notin holds[q]
            /\ \A i \in Requests :
                 Key("delete", i) \in holds[r] =>
                    Key("delete", i) \notin holds[q] /\ Key("update", i) \notin holds[q]

IInv ==
    /\ MemoryOK /\ RowsOK
    /\ \A r \in Requests : RequestOK(r)
    /\ Exclusive
    /\ EveryVersionServed /\ ServesLastWritten /\ EveryContentAnnounced

LEMMA IdleFacts == Idle.pc = "idle" /\ Idle \notin ActiveReq
  BY DEF Idle, ActiveReq, Steps, Outcomes

LEMMA IInvInit == Init => IInv
  <1> SUFFICES ASSUME Init PROVE IInv
    OBVIOUS
  <1>1. MemoryOK
    BY DEF Init, MemoryOK, Ids
  <1>2. ASSUME NEW r \in Requests PROVE RequestOK(r)
    BY DEF Init, RequestOK
  <1>3. RowsOK /\ Exclusive /\ EveryVersionServed /\ ServesLastWritten /\ EveryContentAnnounced
    BY DEF Init, RowsOK, Exclusive, EveryVersionServed, ServesLastWritten,
           EveryContentAnnounced, Rows
  <1> QED BY <1>1, <1>2, <1>3 DEF IInv

LEMMA ActiveFacts ==
  ASSUME IInv, NEW r \in Requests, req[r] # Idle
  PROVE  /\ req \in [Requests -> {Idle} \cup ActiveReq] /\ req[r] \in ActiveReq
         /\ req[r].op \in {"publish", "merge", "put", "patch", "delete"}
         /\ req[r].version \in Versions /\ req[r].tags \in Seq(Tags) /\ req[r].inserted \in Nat
         /\ req[r].body \in Contents /\ req[r].content \in Contents
         /\ req[r].found \in Ids /\ req[r].existing \in Ids /\ req[r].row \in Ids
         /\ req[r].revision \in Nat \ {0} /\ req[r].targets \subseteq Requests
  BY DEF IInv, MemoryOK, ActiveReq

\* Operators of Versions, of rows and of requests, as far as they are known.
LEMMA TableFacts ==
  ASSUME IInv
  PROVE  /\ pub \in [Requests -> Publication \cup {NoRow}]
         /\ latest \in [Versions -> Ids] /\ known \in [Requests -> SUBSET Requests]
         /\ DOMAIN holds = Requests /\ DOMAIN written = Versions
         /\ announced \subseteq Contents
  BY DEF IInv, MemoryOK

LEMMA RowFacts ==
  ASSUME IInv, NEW i \in Requests, pub[i] # NoRow
  PROVE  /\ pub[i] \in Publication /\ pub[i].version \in Versions
         /\ pub[i].revision \in Nat \ {0} /\ pub[i].content \in Contents
         /\ pub[i].content \in announced /\ Done(i) /\ Enough(pub[i].revision)
  BY DEF IInv, MemoryOK, Publication, RowsOK, EveryContentAnnounced

-----------------------------------------------------------------------------
(* What statements wait for *)

LEMMA NeedFacts ==
  ASSUME NEW r \in Requests
  PROVE  LET q == req[r]
             id == Upserted(q.version, q.revision)
             named == latest[q.version] \in Removable(r)
         IN /\ q.pc = "version" =>
                 Needs(r) = IF q.version \in versions THEN {} ELSE {Key("version", q.version)}
            /\ q.pc = "tag" => Needs(r) = {Key("tag", Tagging(q))}
            /\ q.pc = "insert" =>
                 Needs(r) = {Revision(r)} \cup (IF id = NoRow THEN {} ELSE {Key("delete", id)})
            /\ q.pc = "latest" => Needs(r) = {Latest(r)}
            /\ q.pc = "announce" => Needs(r) = {Key("delete", q.row)}
            /\ q.pc = "unhook" => Needs(r) = {Key("unhook", h) : h \in Hooks(r)}
            /\ q.pc = "remove" =>
                 Needs(r) = {Key(kind, i) : kind \in {"update", "delete", "share"},
                                            i \in Removable(r)}
            /\ q.pc = "cascade" => Needs(r) = IF named THEN {Latest(r)} ELSE {}
            /\ q.pc \notin {"version", "tag", "insert", "latest", "announce", "unhook",
                             "remove", "cascade"} => Needs(r) = {}
  <1>1. req[r].pc = "version" =>
          Needs(r) = IF req[r].version \in versions THEN {} ELSE {Key("version", req[r].version)}
    BY DEF Needs
  <1>2. req[r].pc = "tag" => Needs(r) = {Key("tag", Tagging(req[r]))}
    BY DEF Needs
  <1>3. req[r].pc = "insert" =>
          Needs(r) = {Revision(r)} \cup (IF Upserted(req[r].version, req[r].revision) = NoRow
            THEN {} ELSE {Key("delete", Upserted(req[r].version, req[r].revision))})
    BY DEF Needs, Revision
  <1>4. req[r].pc = "latest" => Needs(r) = {Latest(r)}
    BY DEF Needs, Latest
  <1>5. req[r].pc = "announce" => Needs(r) = {Key("delete", req[r].row)}
    BY DEF Needs
  <1>6. req[r].pc = "unhook" => Needs(r) = {Key("unhook", h) : h \in Hooks(r)}
    BY DEF Needs
  <1>7. req[r].pc = "remove" =>
          Needs(r) = {Key(kind, i) : kind \in {"update", "delete", "share"}, i \in Removable(r)}
    BY DEF Needs
  <1>8. req[r].pc = "cascade" =>
          Needs(r) = IF latest[req[r].version] \in Removable(r) THEN {Latest(r)} ELSE {}
    BY DEF Needs, Latest
  <1>9. req[r].pc \notin {"version", "tag", "insert", "latest", "announce", "unhook",
                          "remove", "cascade"} => Needs(r) = {}
    BY DEF Needs
  <1> QED BY <1>1, <1>2, <1>3, <1>4, <1>5, <1>6, <1>7, <1>8, <1>9

\* No other request holds k.
Free(r, k) == \A q \in Requests \ {r} : k \notin holds[q]

LEMMA NeedsAreFree ==
  ASSUME NEW r \in Requests, Waits(r) = {}, NEW k \in Needs(r)
  PROVE  Free(r, k)
  BY DEF Waits, Free

\* Only open requests wait.
LEMMA WaitersAreOpen ==
  ASSUME NEW r \in Requests, Waits(r) # {}
  PROVE  req[r].pc \in Steps \ {"arrived", "commit"} /\ req[r].pc \notin Outcomes
  <1>1. Needs(r) # {}
    BY DEF Waits
  <1> QED BY <1>1, NeedFacts DEF Steps, Outcomes

-----------------------------------------------------------------------------
(* Statements: the tables are as they were *)

\* A step of r that leaves the tables and the others alone.
Statement(r) ==
    /\ UNCHANGED <<versions, tagged, pub, latest, hooked, announced, written>>
    /\ req[r].pc \notin Outcomes
    /\ req' \in [Requests -> {Idle} \cup ActiveReq] /\ req'[r] \in ActiveReq
    /\ req'[r].pc # "done" /\ (req'[r].pc \in Outcomes => holds'[r] = {})
    /\ DOMAIN holds' = Requests /\ known' \in [Requests -> SUBSET Requests]
    /\ \A q \in Requests \ {r} : req'[q] = req[q] /\ holds'[q] = holds[q] /\ known'[q] = known[q]

\* The same requests have ended.
SameDone ==
    /\ \A i \in Requests : Done(i)' <=> Done(i)
    /\ \A v \in Versions : Overwritten(v)' <=> Overwritten(v)
    /\ \A n : Enough(n)' <=> Enough(n)

LEMMA StatementKeepsDone ==
  ASSUME NEW r \in Requests, Statement(r)
  PROVE  SameDone
  <1>1. \A i \in Requests : Done(i)' <=> Done(i)
    BY DEF Statement, Done, Outcomes
  <1>2. \A i \in Requests : Done(i) => req'[i] = req[i]
    BY DEF Statement, Done, Outcomes
  <1>3. ASSUME NEW v \in Versions PROVE Overwritten(v)' <=> Overwritten(v)
    BY <1>1, <1>2 DEF Overwritten, Done
  <1>4. ASSUME NEW n PROVE Enough(n)' <=> Enough(n)
    <2>1. Inserted(n)' = Inserted(n)
      BY <1>1, <1>2 DEF Inserted
    <2> QED BY <2>1 DEF Enough
  <1> QED BY <1>1, <1>3, <1>4 DEF SameDone

LEMMA StatementKeepsOthers ==
  ASSUME IInv, NEW r \in Requests, Statement(r), NEW q \in Requests \ {r}
  PROVE  RequestOK(q)'
  <1>1. /\ UNCHANGED <<pub, latest, announced>>
        /\ req'[q] = req[q] /\ holds'[q] = holds[q] /\ known'[q] = known[q]
    BY DEF Statement
  <1>2. SameDone
    BY StatementKeepsDone
  <1> SUFFICES ASSUME req[q] # Idle, req[q].pc \notin Outcomes
               PROVE  RequestOK(q)'
    BY <1>1 DEF RequestOK
  <1>3. RequestOK(q)
    BY DEF IInv
  <1>4. FoundOK(q)'
    <2>1. FoundOK(q) /\ known[q] \subseteq Requests /\ req[q].targets \subseteq Requests
          /\ req[q].existing \in Ids
      BY <1>3, ActiveFacts, TableFacts DEF RequestOK
    <2> QED BY <1>1, <1>2, <2>1 DEF FoundOK, SameDone, Ids
  <1>5. ASSUME req[q].op # "delete" PROVE WriteOK(q)'
    <2>1. WriteOK(q)
      BY <1>3, <1>5 DEF RequestOK
    <2>2. Revision(q)' = Revision(q) /\ Latest(q)' = Latest(q)
      BY <1>1 DEF Revision, Latest
    <2>3. RowOK(q) => RowOK(q)'
      BY <1>1 DEF RowOK
    <2>4. RevisionOK(q) => RevisionOK(q)'
      BY <1>1, <1>2 DEF RevisionOK, SameDone
    <2> QED BY <1>1, <2>1, <2>2, <2>3, <2>4 DEF WriteOK, Kind
  <1>6. ASSUME req[q].op = "delete" PROVE DeleteOK(q)'
    <2>1. DeleteOK(q) /\ req[q].version \in Versions
      BY <1>3, <1>6, ActiveFacts DEF RequestOK
    <2>2. Removable(q)' = Removable(q) /\ Latest(q)' = Latest(q)
      BY <1>1 DEF Removable, Latest
    <2>3. /\ Rows(req[q].version)' = Rows(req[q].version)
          /\ Overwritten(req[q].version)' <=> Overwritten(req[q].version)
      BY <1>1, <1>2, <2>1 DEF Rows, SameDone
    <2> QED BY <1>1, <2>1, <2>2, <2>3 DEF DeleteOK, Kind
  <1> QED BY <1>1, <1>4, <1>5, <1>6 DEF RequestOK

LEMMA StatementKeepsIInv ==
  ASSUME IInv, NEW r \in Requests, Statement(r), RequestOK(r)', Exclusive'
  PROVE  IInv'
  <1>1. UNCHANGED <<versions, tagged, pub, latest, hooked, announced, written>>
    BY DEF Statement
  <1>2. SameDone
    BY StatementKeepsDone
  <1>3. MemoryOK'
    <2>1. ASSUME NEW q \in Requests
          PROVE  /\ req'[q].pc \in Outcomes => holds'[q] = {}
                 /\ req'[q] = Idle => holds'[q] = {} /\ known'[q] = {}
      BY IdleFacts DEF Statement, IInv, MemoryOK
    <2> QED BY <1>1, <2>1 DEF Statement, IInv, MemoryOK
  <1>4. RowsOK'
    BY <1>1, <1>2 DEF IInv, RowsOK, SameDone
  <1>5. EveryVersionServed'
    <2>1. ASSUME NEW v \in Versions PROVE Rows(v)' = Rows(v)
      BY <1>1 DEF Rows
    <2> QED BY <1>1, <1>2, <2>1 DEF IInv, EveryVersionServed, SameDone
  <1>6. ServesLastWritten' /\ EveryContentAnnounced'
    BY <1>1 DEF IInv, ServesLastWritten, EveryContentAnnounced
  <1>7. \A q \in Requests : RequestOK(q)'
    BY StatementKeepsOthers
  <1> QED BY <1>3, <1>4, <1>5, <1>6, <1>7 DEF IInv

-----------------------------------------------------------------------------
(* What a step of r may have changed *)

\* r is at the given step now.
Goes(r, step) ==
    /\ req' \in [Requests -> {Idle} \cup ActiveReq]
    /\ req'[r] \in ActiveReq /\ req'[r] # Idle
    /\ req'[r].pc = step
    /\ req'[r].op = req[r].op /\ req'[r].version = req[r].version
    /\ \A q \in Requests \ {r} : req'[q] = req[q]

\* Nothing that it remembers has changed, but where it is.
SameMemory(r) ==
    /\ req'[r].body = req[r].body /\ req'[r].found = req[r].found
    /\ req'[r].existing = req[r].existing /\ req'[r].base = req[r].base
    /\ req'[r].row = req[r].row /\ req'[r].content = req[r].content
    /\ req'[r].revision = req[r].revision /\ req'[r].changed = req[r].changed
    /\ req'[r].targets = req[r].targets

LEMMA ReplaceFacts ==
  ASSUME IInv, NEW r \in Requests, NEW new \in ActiveReq, req' = [req EXCEPT ![r] = new]
  PROVE  /\ req' \in [Requests -> {Idle} \cup ActiveReq]
         /\ req'[r] = new /\ req'[r] # Idle
         /\ \A q \in Requests \ {r} : req'[q] = req[q]
  BY IdleFacts DEF IInv, MemoryOK

LEMMA GoFacts ==
  ASSUME IInv, NEW r \in Requests, req[r] # Idle, NEW step \in Steps \cup Outcomes, Go(r, step)
  PROVE  Goes(r, step) /\ SameMemory(r)
  <1> DEFINE new == [req[r] EXCEPT !.pc = step]
  <1>1. req[r] \in ActiveReq
    BY ActiveFacts
  <1>2. new \in ActiveReq
    BY <1>1 DEF ActiveReq
  <1>3. req' = [req EXCEPT ![r] = new]
    BY DEF Go
  <1>4. /\ new.pc = step /\ new.op = req[r].op /\ new.version = req[r].version
        /\ new.body = req[r].body /\ new.found = req[r].found
        /\ new.existing = req[r].existing /\ new.base = req[r].base
        /\ new.row = req[r].row /\ new.content = req[r].content
        /\ new.revision = req[r].revision /\ new.changed = req[r].changed
        /\ new.targets = req[r].targets
    BY <1>1 DEF ActiveReq
  <1> HIDE DEF new
  <1> QED BY <1>2, <1>3, <1>4, ReplaceFacts DEF Goes, SameMemory

\* r has the given locks in addition now.
Locks(r, K) ==
    /\ DOMAIN holds' = Requests /\ holds'[r] = holds[r] \cup K
    /\ \A q \in Requests \ {r} : holds'[q] = holds[q]

LEMMA LockFacts ==
  ASSUME IInv, NEW r \in Requests, NEW K, Lock(r, K)
  PROVE  Locks(r, K)
  BY TableFacts DEF Lock, Locks

LEMMA NoLock ==
  ASSUME IInv, NEW r \in Requests, UNCHANGED holds
  PROVE  Locks(r, {})
  BY TableFacts DEF Locks

\* A step that leaves the tables alone and goes on.
LEMMA StepKeepsIInv ==
  ASSUME IInv, NEW r \in Requests, req[r].pc \notin Outcomes,
         NEW step \in Steps, Goes(r, step), UNCHANGED <<tables, announced, written>>,
         known' \in [Requests -> SUBSET Requests],
         \A q \in Requests \ {r} : known'[q] = known[q],
         NEW K, Locks(r, K),
         \A q \in Requests \ {r} :
            /\ \A v \in Versions : Key("latest", v) \in K => Key("latest", v) \notin holds[q]
            /\ \A i \in Requests :
                 /\ Key("delete", i) \in K =>
                      Key("delete", i) \notin holds[q] /\ Key("update", i) \notin holds[q]
                 /\ Key("update", i) \in K => Key("delete", i) \notin holds[q],
         RequestOK(r)'
  PROVE  IInv'
  <1>1. Statement(r)
    BY DEF Locks, Statement, Goes, Steps, Outcomes, tables
  <1>2. Exclusive'
    BY DEF Locks, IInv, Exclusive
  <1> QED BY <1>1, <1>2, StatementKeepsIInv

\* It may lock what no other one waits for.
LEMMA OrdinaryStep ==
  ASSUME IInv, NEW r \in Requests, req[r].pc \notin Outcomes,
         NEW step \in Steps, Goes(r, step), UNCHANGED <<tables, history>>,
         NEW K, \A k \in K : k[1] \notin {"latest", "delete", "update"}, Locks(r, K),
         RequestOK(r)'
  PROVE  IInv'
  <1>1. /\ \A v \in Versions : Key("latest", v) \notin K
        /\ \A i \in Requests : Key("delete", i) \notin K /\ Key("update", i) \notin K
    BY DEF Key
  <1>2. UNCHANGED <<tables, announced, written, known>>
    BY DEF history
  <1>3. known' \in [Requests -> SUBSET Requests] /\ \A q \in Requests : known'[q] = known[q]
    BY <1>2, TableFacts
  <1> QED BY <1>1, <1>2, <1>3, StepKeepsIInv

LEMMA FailKeepsIInv ==
  ASSUME IInv, NEW r \in Requests, req[r] # Idle, req[r].pc \notin Outcomes,
         NEW outcome \in Outcomes \ {"done"}, Fail(r, outcome)
  PROVE  IInv'
  <1>1. Go(r, outcome) /\ UNCHANGED <<tables, history>> /\ holds' = [holds EXCEPT ![r] = {}]
    BY DEF Fail
  <1>2. Goes(r, outcome)
    BY <1>1, GoFacts
  <1>3. DOMAIN holds' = Requests /\ holds'[r] = {}
        /\ \A q \in Requests \ {r} : holds'[q] = holds[q]
    BY <1>1, TableFacts
  <1>4. Statement(r)
    BY <1>1, <1>2, <1>3, TableFacts DEF Statement, Goes, tables, history
  <1>5. Exclusive'
    BY <1>3 DEF IInv, Exclusive
  <1>6. RequestOK(r)'
    BY <1>2 DEF Goes, RequestOK
  <1> QED BY <1>4, <1>5, <1>6, StatementKeepsIInv

\* The steps tell what a request is.
LEMMA IsWriter ==
  ASSUME IInv, NEW r \in Requests, req[r] # Idle,
         req[r].pc \in WriteSteps \ {"arrived", "commit"}
  PROVE  /\ req[r].op # "delete" /\ req[r].pc \notin Outcomes
         /\ FoundOK(r) /\ WriteOK(r)
  <1>1. RequestOK(r) /\ req[r].pc \notin Outcomes
    BY DEF IInv, WriteSteps, ReadSteps, Outcomes
  <1> QED BY <1>1 DEF RequestOK, DeleteOK, WriteSteps, ReadSteps, RemoveSteps

LEMMA IsDeletion ==
  ASSUME IInv, NEW r \in Requests, req[r] # Idle,
         req[r].pc \in RemoveSteps \ {"arrived", "commit"}
  PROVE  /\ req[r].op = "delete" /\ req[r].pc \notin Outcomes
         /\ FoundOK(r) /\ DeleteOK(r)
  <1>1. RequestOK(r) /\ req[r].pc \notin Outcomes
    BY DEF IInv, RemoveSteps, Outcomes
  <1> QED BY <1>1 DEF RequestOK, WriteOK, WriteSteps, ReadSteps, RemoveSteps

-----------------------------------------------------------------------------
(* Beginning, and finding what there is *)

LEMMA BeginKeepsIInv ==
  ASSUME IInv, NEW r \in Requests, Begin(r)
  PROVE  IInv'
  <1>1. req[r] = Idle /\ UNCHANGED <<tables, holds, history>>
    BY DEF Begin
  <1>2. PICK w \in Workload :
        req' = [req EXCEPT ![r] =
            [pc |-> IF w.op \in {"publish", "merge"} THEN "version" ELSE "arrived",
             op |-> w.op, version |-> w.version, tags |-> w.tags, body |-> w.body, inserted |-> 0,
             found |-> NoRow, existing |-> NoRow, base |-> NoRow, row |-> NoRow,
             content |-> w.body, revision |-> 1, changed |-> FALSE, targets |-> {}]]
    BY DEF Begin
  <1> DEFINE new ==
            [pc |-> IF w.op \in {"publish", "merge"} THEN "version" ELSE "arrived",
             op |-> w.op, version |-> w.version, tags |-> w.tags, body |-> w.body, inserted |-> 0,
             found |-> NoRow, existing |-> NoRow, base |-> NoRow, row |-> NoRow,
             content |-> w.body, revision |-> 1, changed |-> FALSE, targets |-> {}]
  <1>3. new \in ActiveReq
    BY PublishingAssumption DEF ActiveReq, Ids, Steps
  <1>4. /\ new.pc \in {"version", "arrived"} /\ (new.op = "delete" => new.pc = "arrived")
        /\ new.existing = NoRow /\ new.targets = {} /\ new.revision = 1
    OBVIOUS
  <1>5. req' = [req EXCEPT ![r] = new]
    BY <1>2
  <1> HIDE DEF new
  <1>6. /\ req' \in [Requests -> {Idle} \cup ActiveReq] /\ req'[r] = new /\ req'[r] # Idle
        /\ \A q \in Requests \ {r} : req'[q] = req[q]
    BY <1>3, <1>5, ReplaceFacts
  <1>7. holds' = holds /\ holds[r] = {} /\ known' = known /\ known[r] = {}
    BY <1>1 DEF IInv, MemoryOK, history
  <1>8. Statement(r)
    BY <1>1, <1>3, <1>4, <1>6, <1>7, IdleFacts, TableFacts
    DEF Statement, tables, history, Outcomes
  <1>9. RequestOK(r)'
    <2>1. FoundOK(r)'
      BY <1>4, <1>6, <1>7 DEF FoundOK
    <2>2. WriteOK(r)'
      BY <1>4, <1>6, <1>7 DEF WriteOK, WriteSteps, ReadSteps, Kind
    <2>3. new.op = "delete" => DeleteOK(r)'
      BY <1>4, <1>6, <1>7 DEF DeleteOK, RemoveSteps, Kind
    <2> QED BY <1>6, <2>1, <2>2, <2>3 DEF RequestOK
  <1>10. Exclusive'
    BY <1>7 DEF IInv, Exclusive
  <1> QED BY <1>8, <1>9, <1>10, StatementKeepsIInv

\* While it only reads, a request that writes has to remember little.
LEMMA ReadStep ==
  ASSUME IInv, NEW r \in Requests, req[r] # Idle, req[r].pc \notin Outcomes,
         req[r].op # "delete", FoundOK(r), WriteOK(r),
         NEW step \in {"version", "tag", "find", "existing"},
         req[r].pc \in {"arrived", "version", "tag", "find"},
         Goes(r, step), req'[r].existing = req[r].existing, req'[r].targets = req[r].targets,
         req'[r].revision = req[r].revision,
         UNCHANGED <<tables, history>>,
         NEW K, \A k \in K : k[1] \in {"version", "tag"}, Locks(r, K)
  PROVE  IInv'
  <1>1. /\ req'[r].pc = step /\ req'[r].op # "delete"
        /\ holds'[r] = holds[r] \cup K /\ known' = known
    BY DEF Goes, Locks, history
  <1>2. FoundOK(r)'
    <2>1. \A i \in Requests : Done(i) => Done(i)'
      BY DEF Goes, Done, Outcomes
    <2>2. known[r] \subseteq Requests /\ req[r].targets \subseteq Requests
          /\ req[r].existing = NoRow
      BY TableFacts, ActiveFacts DEF WriteOK
    <2> QED BY <1>1, <2>1, <2>2 DEF FoundOK
  <1>3. WriteOK(r)'
    <2>1. req[r].existing = NoRow /\ req[r].revision = 1 /\ known[r] = {} /\ Kind(r, {"version", "tag"})
      BY DEF WriteOK, ReadSteps
    <2>2. Kind(r, {"version", "tag"})'
      BY <1>1, <2>1 DEF Kind
    <2>3. Revision(r)' \notin holds'[r] /\ \A v \in Versions : Key("latest", v) \notin holds'[r]
      BY <2>2 DEF Kind, Revision, Key
    <2> QED BY <1>1, <2>1, <2>2, <2>3 DEF WriteOK, WriteSteps, ReadSteps, Kind
  <1>4. RequestOK(r)'
    BY <1>1, <1>2, <1>3 DEF RequestOK
  <1>5. \A k \in K : k[1] \notin {"latest", "delete", "update"}
    OBVIOUS
  <1>6. step \in Steps
    BY DEF Steps
  <1> QED BY <1>4, <1>5, <1>6, OrdinaryStep

LEMMA CheckResourceKeepsIInv ==
  ASSUME IInv, NEW r \in Requests, req[r] # Idle, CheckResource(r)
  PROVE  IInv'
  <1>1. req[r].pc = "arrived" /\ req[r].pc \notin Outcomes /\ RequestOK(r)
    BY DEF CheckResource, Outcomes, IInv
  <1>2. CASE Fail(r, "missing") \/ Fail(r, "conflict")
    BY <1>1, <1>2, FailKeepsIInv DEF Outcomes
  <1>3. CASE req[r].op = "delete" /\ Go(r, "unhook") /\ UNCHANGED <<tables, holds, history>>
    <2>1. Goes(r, "unhook") /\ SameMemory(r)
      BY <1>3, GoFacts DEF Steps
    <2>2. FoundOK(r) /\ DeleteOK(r)
      BY <1>1, <1>3 DEF RequestOK
    <2>3. \A i \in Requests : Done(i) => Done(i)'
      BY <1>1, <2>1 DEF Goes, Done
    <2>4. holds'[r] = holds[r] /\ known' = known /\ pub' = pub
      BY <1>3 DEF history, tables
    <2>5. FoundOK(r)'
      <3>1. known[r] \subseteq Requests /\ req[r].targets \subseteq Requests
            /\ req[r].existing \in Ids
        BY TableFacts, ActiveFacts
      <3> QED BY <2>1, <2>2, <2>3, <2>4, <3>1 DEF FoundOK, SameMemory, Ids
    <2>6. DeleteOK(r)'
      BY <1>1, <2>1, <2>2, <2>4 DEF DeleteOK, Goes, SameMemory, RemoveSteps, Kind, Removable, Latest
    <2>7. RequestOK(r)'
      BY <1>3, <2>1, <2>5, <2>6 DEF RequestOK, Goes
    <2>8. Locks(r, {})
      BY <1>3, NoLock
    <2>9. "unhook" \in Steps
      BY DEF Steps
    <2> QED BY <1>1, <1>3, <2>1, <2>7, <2>8, <2>9, OrdinaryStep
  <1>4. CASE /\ req[r].op # "delete"
             /\ req' = [req EXCEPT ![r] = [@ EXCEPT !.pc = "version",
                                                    !.found = latest[req[r].version]]]
             /\ UNCHANGED <<tables, holds, history>>
    <2> DEFINE new == [req[r] EXCEPT !.pc = "version", !.found = latest[req[r].version]]
    <2>1. req[r] \in ActiveReq /\ latest[req[r].version] \in Ids
      BY ActiveFacts, TableFacts
    <2>2. new \in ActiveReq
      BY <2>1 DEF ActiveReq, Steps
    <2>3. /\ new.pc = "version" /\ new.op = req[r].op /\ new.version = req[r].version
          /\ new.existing = req[r].existing /\ new.targets = req[r].targets
          /\ new.revision = req[r].revision
      BY <2>1 DEF ActiveReq
    <2>4. req' = [req EXCEPT ![r] = new]
      BY <1>4
    <2> HIDE DEF new
    <2>5. Goes(r, "version") /\ req'[r].existing = req[r].existing
          /\ req'[r].targets = req[r].targets /\ req'[r].revision = req[r].revision
      BY <2>2, <2>3, <2>4, ReplaceFacts DEF Goes
    <2>6. FoundOK(r) /\ WriteOK(r)
      BY <1>1, <1>4 DEF RequestOK
    <2>7. Locks(r, {})
      BY <1>4, NoLock
    <2> QED BY <1>1, <1>4, <2>5, <2>6, <2>7, ReadStep
  <1> QED BY <1>2, <1>3, <1>4 DEF CheckResource

LEMMA CreateVersionKeepsIInv ==
  ASSUME IInv, NEW r \in Requests, req[r] # Idle, CreateVersion(r)
  PROVE  IInv'
  <1> DEFINE step == IF req[r].op \notin {"publish", "merge"} THEN "existing"
                     ELSE IF req[r].tags = <<>> THEN "find" ELSE "tag"
  <1>1. req[r].pc = "version" /\ Lock(r, Needs(r)) /\ Go(r, step) /\ UNCHANGED <<tables, history>>
    BY DEF CreateVersion
  <1>2. \A k \in Needs(r) : k[1] \in {"version", "tag"}
    BY <1>1, NeedFacts DEF Key
  <1>3. step \in {"version", "tag", "find", "existing"} /\ step \in Steps
    BY DEF Steps
  <1> HIDE DEF step
  <1>4. Locks(r, Needs(r)) /\ Goes(r, step) /\ SameMemory(r)
    BY <1>1, <1>3, LockFacts, GoFacts
  <1>5. req[r].pc \notin Outcomes /\ req[r].op # "delete" /\ FoundOK(r) /\ WriteOK(r)
    BY <1>1, IsWriter DEF WriteSteps, ReadSteps
  <1> QED BY <1>1, <1>2, <1>3, <1>4, <1>5, ReadStep DEF SameMemory

\* What the insert of a tag does.
LEMMA InsertTagFacts ==
  ASSUME IInv, NEW r \in Requests, req[r] # Idle, InsertTag(r)
  PROVE  \E step \in {"tag", "find"}, K \in {{}, Needs(r)} :
            /\ req[r].pc = "tag" /\ Waits(r) = {} /\ UNCHANGED <<tables, history>>
            /\ Goes(r, step) /\ SameMemory(r) /\ Locks(r, K)
            /\ \A k \in K : k = Key("tag", Tagging(req[r]))
            /\ req'[r].tags = req[r].tags /\ req'[r].inserted = req[r].inserted + 1
            /\ step = "tag" <=> req[r].inserted + 1 # Len(req[r].tags)
  <1>1. PICK step \in {"tag", "find"} :
          /\ req' = [req EXCEPT ![r] = [req[r] EXCEPT
                       !.inserted = req[r].inserted + 1, !.pc = step]]
          /\ step = "tag" <=> req[r].inserted + 1 # Len(req[r].tags)
    <2>1. req[r] \in ActiveReq /\ req \in [Requests -> {Idle} \cup ActiveReq]
      BY ActiveFacts
    <2> DEFINE goal == IF req[r].inserted + 1 = Len(req[r].tags) THEN "find" ELSE "tag"
    <2>2. req' = [req EXCEPT ![r] = [req[r] EXCEPT !.inserted = req[r].inserted + 1, !.pc = goal]]
      BY <2>1 DEF InsertTag, ActiveReq
    <2>3. goal \in {"tag", "find"} /\ (goal = "tag" <=> req[r].inserted + 1 # Len(req[r].tags))
      OBVIOUS
    <2> HIDE DEF goal
    <2> QED BY <2>2, <2>3
  <1>2. PICK K \in {{}, Needs(r)} : Lock(r, K)
    BY DEF InsertTag
  <1> DEFINE new == [req[r] EXCEPT !.inserted = req[r].inserted + 1, !.pc = step]
  <1>3. req[r] \in ActiveReq
    BY ActiveFacts
  <1>4. new \in ActiveReq
    <2>1. req[r].inserted + 1 \in Nat /\ step \in Steps
      BY <1>3, ActiveFacts DEF Steps
    <2> QED BY <1>3, <2>1 DEF ActiveReq
  <1>5. /\ new.pc = step /\ new.op = req[r].op /\ new.version = req[r].version
        /\ new.body = req[r].body /\ new.found = req[r].found
        /\ new.existing = req[r].existing /\ new.base = req[r].base
        /\ new.row = req[r].row /\ new.content = req[r].content
        /\ new.revision = req[r].revision /\ new.changed = req[r].changed
        /\ new.targets = req[r].targets /\ new.tags = req[r].tags
        /\ new.inserted = req[r].inserted + 1
    BY <1>3 DEF ActiveReq
  <1>6. req' = [req EXCEPT ![r] = new]
    BY <1>1
  <1> HIDE DEF new
  <1>7. Goes(r, step) /\ SameMemory(r)
        /\ req'[r].tags = req[r].tags /\ req'[r].inserted = req[r].inserted + 1
    BY <1>4, <1>5, <1>6, ReplaceFacts DEF Goes, SameMemory
  <1>8. req[r].pc = "tag" /\ Waits(r) = {} /\ UNCHANGED <<tables, history>>
    BY DEF InsertTag
  <1>9. \A k \in K : k = Key("tag", Tagging(req[r]))
    BY <1>2, <1>8, NeedFacts
  <1>10. Locks(r, K)
    BY <1>2, LockFacts
  <1> QED BY <1>1, <1>2, <1>7, <1>8, <1>9, <1>10

LEMMA InsertTagKeepsIInv ==
  ASSUME IInv, NEW r \in Requests, req[r] # Idle, InsertTag(r)
  PROVE  IInv'
  <1>1. PICK step \in {"tag", "find"}, K \in {{}, Needs(r)} :
            /\ req[r].pc = "tag" /\ UNCHANGED <<tables, history>>
            /\ Goes(r, step) /\ SameMemory(r) /\ Locks(r, K)
            /\ \A k \in K : k = Key("tag", Tagging(req[r]))
    BY InsertTagFacts
  <1>2. \A k \in K : k[1] \in {"version", "tag"}
    BY <1>1 DEF Key
  <1>3. req[r].pc \notin Outcomes /\ req[r].op # "delete" /\ FoundOK(r) /\ WriteOK(r)
    BY <1>1, IsWriter DEF WriteSteps, ReadSteps
  <1> QED BY <1>1, <1>2, <1>3, ReadStep DEF SameMemory

LEMMA FindPactKeepsIInv ==
  ASSUME IInv, NEW r \in Requests, req[r] # Idle, FindPact(r)
  PROVE  IInv'
  <1> DEFINE new == [req[r] EXCEPT !.pc = "existing", !.found = latest[req[r].version]]
  <1>1. req[r].pc = "find" /\ req' = [req EXCEPT ![r] = new]
        /\ UNCHANGED <<tables, holds, history>>
    BY DEF FindPact
  <1>2. req[r] \in ActiveReq /\ latest[req[r].version] \in Ids
    BY ActiveFacts, TableFacts
  <1>3. new \in ActiveReq
    BY <1>2 DEF ActiveReq, Steps
  <1>4. /\ new.pc = "existing" /\ new.op = req[r].op /\ new.version = req[r].version
        /\ new.existing = req[r].existing /\ new.targets = req[r].targets
        /\ new.revision = req[r].revision
    BY <1>2 DEF ActiveReq
  <1> HIDE DEF new
  <1>5. Goes(r, "existing") /\ req'[r].existing = req[r].existing
        /\ req'[r].targets = req[r].targets /\ req'[r].revision = req[r].revision
    BY <1>1, <1>3, <1>4, ReplaceFacts DEF Goes
  <1>6. req[r].pc \notin Outcomes /\ req[r].op # "delete" /\ FoundOK(r) /\ WriteOK(r)
    BY <1>1, IsWriter DEF WriteSteps, ReadSteps
  <1>7. Locks(r, {})
    BY <1>1, NoLock
  <1> QED BY <1>1, <1>5, <1>6, <1>7, ReadStep

-----------------------------------------------------------------------------
(* Reading what is to be replaced *)

LEMMA MergedIsContent ==
  ASSUME NEW a \in Contents, NEW b \in Contents
  PROVE  MergePacts(a, b) \in Contents
  <1>1. PICK A \in SUBSET Descriptions : a \in [A -> Variants]
    BY DEF Contents
  <1>2. PICK B \in SUBSET Descriptions : b \in [B -> Variants]
    BY DEF Contents
  <1>3. MergePacts(a, b) \in [A \cup B -> Variants]
    BY <1>1, <1>2 DEF MergePacts
  <1> QED BY <1>3 DEF Contents

LEMMA LatestIsCommitted ==
  ASSUME IInv, NEW v \in Versions, latest[v] # NoRow
  PROVE  latest[v] \in Requests /\ pub[latest[v]] # NoRow /\ pub[latest[v]].version = v
  BY DEF IInv, EveryVersionServed, Rows

LEMMA InsertedIsFinite ==
  ASSUME NEW n
  PROVE  IsFiniteSet(Inserted(n)) /\ Cardinality(Inserted(n)) \in Nat
  <1>1. Inserted(n) \in SUBSET Requests
    BY DEF Inserted
  <1>2. IsFiniteSet(Inserted(n))
    BY <1>1, PublishingAssumption, FS_Subset
  <1> QED BY <1>2, FS_CardinalityType

\* A request that still only reads, and goes on with the given memory.
LEMMA ReadsOn ==
  ASSUME IInv, NEW r \in Requests, req[r] # Idle, req[r].pc \in {"existing", "model"},
         NEW step \in {"model", "insert", "announce"}, Goes(r, step),
         req'[r].targets = req[r].targets,
         UNCHANGED <<tables, announced, written, holds>>,
         known' \in [Requests -> SUBSET Requests],
         \A q \in Requests \ {r} : known'[q] = known[q],
         \A i \in known'[r] : Done(i),
         req'[r].existing \in Ids, req'[r].existing # NoRow => Done(req'[r].existing),
         req'[r].existing = NoRow => known'[r] = {},
         req'[r].existing # NoRow => req'[r].base \in announced,
         step = "model" =>
            /\ req'[r].existing # NoRow
            /\ pub[req'[r].existing] # NoRow =>
                 \A i \in known'[r] :
                    pub[i] # NoRow => pub[i].revision <= pub[req'[r].existing].revision,
         step = "insert" => RevisionOK(r)'
  PROVE  IInv'
  <1>1. req[r].pc \notin Outcomes /\ req[r].op # "delete" /\ FoundOK(r) /\ WriteOK(r)
    BY IsWriter DEF WriteSteps, ReadSteps
  <1>2. req'[r].pc = step /\ req'[r].op # "delete" /\ holds'[r] = holds[r] /\ pub' = pub
        /\ announced' = announced
    BY <1>1 DEF Goes, tables
  <1>3. FoundOK(r)'
    <2>1. \A i \in Requests : Done(i) => Done(i)'
      BY DEF Goes, Done
    <2>2. known'[r] \subseteq Requests /\ req[r].targets \subseteq Requests
      BY ActiveFacts
    <2> QED BY <1>1, <2>1, <2>2 DEF FoundOK, Ids
  <1>4. WriteOK(r)'
    <2>1. Kind(r, {"version", "tag"})
      BY <1>1 DEF WriteOK, ReadSteps
    <2>2. /\ Revision(r)' \notin holds'[r] /\ Latest(r)' \notin holds'[r]
          /\ \A v \in Versions : Key("latest", v) \notin holds'[r]
      BY <1>2, <2>1 DEF Kind, Revision, Latest, Key
    <2>3. Kind(r, {"version", "tag"})'
      BY <1>2, <2>1 DEF Kind
    <2> QED BY <1>2, <2>2, <2>3 DEF WriteOK, WriteSteps, ReadSteps, Kind
  <1>5. RequestOK(r)'
    BY <1>2, <1>3, <1>4 DEF RequestOK
  <1>6. Locks(r, {}) /\ step \in Steps
    BY NoLock DEF Steps
  <1> QED BY <1>1, <1>5, <1>6, StepKeepsIInv

LEMMA ReadExistingKeepsIInv ==
  ASSUME IInv, NEW r \in Requests, req[r] # Idle, ReadExisting(r)
  PROVE  IInv'
  <1> DEFINE v == req[r].version
             id == latest[v]
  <1>1. /\ req[r].pc = "existing" /\ req[r].pc \notin Outcomes
        /\ req[r].op # "delete" /\ FoundOK(r) /\ WriteOK(r)
    BY IsWriter DEF ReadExisting, WriteSteps, ReadSteps
  <1>2. req[r] \in ActiveReq /\ v \in Versions /\ id \in Ids /\ known[r] \subseteq Requests
        /\ req[r].existing = NoRow /\ req[r].revision = 1 /\ known[r] = {}
    BY <1>1, ActiveFacts, TableFacts DEF WriteOK
  <1>3. CASE Fail(r, "error")
    BY <1>1, <1>3, FailKeepsIInv DEF Outcomes
  <1>4. CASE Go(r, "insert") /\ UNCHANGED <<tables, holds, history>>
    <2>1. Goes(r, "insert") /\ SameMemory(r)
      BY <1>4, GoFacts DEF Steps
    <2>2. UNCHANGED <<tables, announced, written, known>>
      BY <1>4 DEF history
    <2>3. RevisionOK(r)'
      <3>1. /\ req'[r].existing = NoRow /\ req'[r].revision = 1 /\ known'[r] = {}
        BY <1>2, <2>1, <2>2 DEF SameMemory
      <3>2. Enough(0)'
        <4>1. Inserted(0)' \in SUBSET Requests
          BY DEF Inserted
        <4>2. IsFiniteSet(Inserted(0)')
          BY <4>1, PublishingAssumption, FS_Subset
        <4>3. Cardinality(Inserted(0)') \in Nat
          BY <4>2, FS_CardinalityType
        <4> QED BY <4>3 DEF Enough
      <3>3. req'[r].revision - 1 = 0
        BY <3>1
      <3> QED BY <3>1, <3>2, <3>3 DEF RevisionOK
    <2> QED BY <1>1, <1>2, <1>4, <2>1, <2>2, <2>3, ReadsOn, TableFacts DEF SameMemory, Ids
  <1>5. CASE /\ id # NoRow
             /\ req' = [req EXCEPT ![r] = [@ EXCEPT
                    !.pc = "model", !.existing = id, !.base = pub[id].content,
                    !.content = IF Merges(req[r]) THEN MergePacts(pub[id].content, req[r].body)
                                                  ELSE req[r].body]]
             /\ known' = [known EXCEPT ![r] = IF Newest(v, id) THEN Rows(v) ELSE {}]
             /\ UNCHANGED <<tables, holds, announced, written>>
    <2> DEFINE content == IF Merges(req[r]) THEN MergePacts(pub[id].content, req[r].body)
                                            ELSE req[r].body
               new == [req[r] EXCEPT !.pc = "model", !.existing = id, !.base = pub[id].content,
                                     !.content = content]
    <2>1. /\ id \in Requests /\ pub[id] # NoRow /\ pub[id].content \in Contents
          /\ pub[id].content \in announced /\ Done(id)
      BY <1>2, <1>5, LatestIsCommitted, RowFacts
    <2>2. content \in Contents
      BY <2>1, MergedIsContent, ActiveFacts
    <2>3. req' = [req EXCEPT ![r] = new]
      BY <1>5
    <2> HIDE DEF content
    <2>4. new \in ActiveReq
      BY <1>2, <2>1, <2>2 DEF ActiveReq, Steps, Ids
    <2>5. /\ new.pc = "model" /\ new.op = req[r].op /\ new.version = req[r].version
          /\ new.existing = id /\ new.base = pub[id].content /\ new.targets = req[r].targets
      BY <1>2 DEF ActiveReq
    <2> HIDE DEF new, id, v
    <2>6. /\ Goes(r, "model") /\ req'[r].existing = id /\ req'[r].base = pub[id].content
          /\ req'[r].targets = req[r].targets
      BY <2>3, <2>4, <2>5, ReplaceFacts DEF Goes, v
    <2>7. /\ known' \in [Requests -> SUBSET Requests]
          /\ known'[r] = (IF Newest(v, id) THEN Rows(v) ELSE {})
          /\ \A q \in Requests \ {r} : known'[q] = known[q]
      <3>1. Rows(v) \subseteq Requests
        BY DEF Rows
      <3> QED BY <1>5, <3>1, TableFacts
    <2>8. \A i \in known'[r] : Done(i) /\ pub[i].revision <= pub[id].revision
      BY <2>7, RowFacts DEF Rows, Newest
    <2> QED BY <1>1, <1>2, <1>5, <2>1, <2>6, <2>7, <2>8, ReadsOn
  <1> QED BY <1>3, <1>4, <1>5 DEF ReadExisting

LEMMA FindModelKeepsIInv ==
  ASSUME IInv, NEW r \in Requests, req[r] # Idle, FindModel(r)
  PROVE  IInv'
  <1> DEFINE id == req[r].existing
  <1>1. /\ req[r].pc = "model" /\ req[r].pc \notin Outcomes
        /\ req[r].op # "delete" /\ FoundOK(r) /\ WriteOK(r)
    BY IsWriter DEF FindModel, WriteSteps, ReadSteps
  <1>2. /\ req[r] \in ActiveReq /\ known[r] \subseteq Requests
        /\ id \in Requests /\ Done(id) /\ req[r].base \in announced
        /\ \A i \in known[r] : Done(i)
        /\ pub[id] # NoRow =>
             \A i \in known[r] : pub[i] # NoRow => pub[i].revision <= pub[id].revision
    BY <1>1, ActiveFacts, TableFacts DEF WriteOK, FoundOK, Ids
  <1>3. CASE Fail(r, "error")
    BY <1>1, <1>3, FailKeepsIInv DEF Outcomes
  <1>4. CASE /\ req' = [req EXCEPT ![r] = [@ EXCEPT !.pc = "announce", !.row = req[r].existing]]
             /\ UNCHANGED <<tables, holds, history>>
    <2> DEFINE new == [req[r] EXCEPT !.pc = "announce", !.row = req[r].existing]
    <2>1. new \in ActiveReq
      BY <1>2 DEF ActiveReq, Steps, Ids
    <2>2. /\ new.pc = "announce" /\ new.op = req[r].op /\ new.version = req[r].version
          /\ new.existing = req[r].existing /\ new.base = req[r].base
          /\ new.targets = req[r].targets
      BY <1>2 DEF ActiveReq
    <2>3. req' = [req EXCEPT ![r] = new]
      BY <1>4
    <2> HIDE DEF new
    <2>4. /\ Goes(r, "announce") /\ req'[r].existing = req[r].existing
          /\ req'[r].base = req[r].base /\ req'[r].targets = req[r].targets
      BY <2>1, <2>2, <2>3, ReplaceFacts DEF Goes
    <2>5. UNCHANGED <<tables, announced, written, holds>> /\ known' = known
      BY <1>4 DEF history
    <2>6. /\ known' \in [Requests -> SUBSET Requests]
          /\ \A q \in Requests \ {r} : known'[q] = known[q]
          /\ \A i \in known'[r] : Done(i)
      BY <1>2, <2>5, TableFacts
    <2>7. req'[r].existing \in Ids /\ req'[r].existing # NoRow
      BY <1>2, <2>4, PublishingAssumption DEF Ids
    <2> QED BY <1>1, <1>2, <2>4, <2>5, <2>6, <2>7, ReadsOn
  <1>5. CASE /\ pub[id] # NoRow
             /\ req' = [req EXCEPT ![r] = [@ EXCEPT !.pc = "insert",
                                                    !.revision = NextRevision(pub[id])]]
             /\ UNCHANGED <<tables, holds, history>>
    <2>1. PICK n \in Nat : n = pub[id].revision /\ Enough(n)
      BY <1>2, <1>5, RowFacts
    <2> DEFINE new == [req[r] EXCEPT !.pc = "insert", !.revision = n + 1]
    <2>2. new \in ActiveReq
      <3>1. n + 1 \in Nat \ {0}
        OBVIOUS
      <3> QED BY <1>2, <3>1 DEF ActiveReq, Steps
    <2>3. /\ new.pc = "insert" /\ new.op = req[r].op /\ new.version = req[r].version
          /\ new.existing = req[r].existing /\ new.base = req[r].base
          /\ new.targets = req[r].targets /\ new.revision = n + 1
      BY <1>2 DEF ActiveReq
    <2>4. req' = [req EXCEPT ![r] = new]
      BY <1>5, <2>1 DEF NextRevision
    <2> HIDE DEF new
    <2>5. /\ Goes(r, "insert") /\ req'[r].existing = req[r].existing
          /\ req'[r].base = req[r].base /\ req'[r].targets = req[r].targets
          /\ req'[r].revision = n + 1 /\ req'[r] = new
      BY <2>2, <2>3, <2>4, ReplaceFacts DEF Goes
    <2>6. UNCHANGED <<tables, announced, written, known>> /\ pub' = pub /\ holds' = holds
      BY <1>5 DEF history, tables
    <2>7. RevisionOK(r)'
      <3>1. Enough(n)'
        <4>1. Inserted(n)' = Inserted(n)
          BY <1>1, <2>5 DEF Inserted, Done, Goes
        <4> QED BY <2>1, <4>1 DEF Enough
      <3>2. req'[r].revision - 1 = n
        BY <2>1, <2>5
      <3>3. \A i \in known[r] : pub[i] # NoRow => pub[i].revision < n + 1
        <4>1. ASSUME NEW i \in known[r], pub[i] # NoRow PROVE pub[i].revision < n + 1
          <5>1. pub[i].revision <= n /\ pub[i].revision \in Nat
            BY <1>2, <1>5, <2>1, <4>1, RowFacts
          <5> QED BY <2>1, <5>1
        <4> QED BY <4>1
      <3>4. pub[id].revision < n + 1
        BY <2>1
      <3> QED BY <2>5, <2>6, <3>1, <3>2, <3>3, <3>4 DEF RevisionOK
    <2>8. /\ known' \in [Requests -> SUBSET Requests]
          /\ \A q \in Requests \ {r} : known'[q] = known[q]
          /\ \A i \in known'[r] : Done(i)
      BY <1>2, <2>6, TableFacts
    <2>9. req'[r].existing \in Ids /\ req'[r].existing # NoRow
      BY <1>2, <2>5, PublishingAssumption DEF Ids
    <2> QED BY <1>1, <1>2, <2>5, <2>6, <2>7, <2>8, <2>9, ReadsOn
  <1> QED BY <1>3, <1>4, <1>5 DEF FindModel

-----------------------------------------------------------------------------
(* Writing a publication and announcing it *)

\* A set of natural numbers that has a bound and is not empty has a greatest element.
LEMMA GreatestExists ==
  ASSUME NEW T \in SUBSET Nat, T # {}, NEW n \in Nat, \A y \in T : y < n
  PROVE  \E x \in T : \A y \in T : y <= x
  <1> DEFINE D == {n - y : y \in T}
  <1>1. D \subseteq Nat /\ D # {}
    <2>1. ASSUME NEW y \in T PROVE n - y \in Nat
      BY y \in Nat, y < n
    <2> QED BY <2>1
  <1>2. PICK d \in D : \A e \in D : <<e, d>> \notin OpToRel(<, Nat)
    <2> HIDE DEF D
    <2> QED BY <1>1, NatLessThanWellFounded, WFMin
  <1>3. PICK x \in T : d = n - x
    BY <1>2
  <1>4. ASSUME NEW y \in T PROVE y <= x
    <2>1. n - y \in D /\ n - y \in Nat /\ d \in Nat
      BY <1>1
    <2>2. ~(n - y < d)
      BY <1>2, <2>1 DEF OpToRel
    <2> QED BY <1>3, <2>2
  <1> QED BY <1>4

LEMMA PreviousIsAnnounced ==
  ASSUME IInv, NEW v \in Versions, NEW vs \in SUBSET Versions
  PROVE  PreviousContent(v, vs) = NoRow \/ PreviousContent(v, vs) \in announced
  <1> DEFINE before == {u \in vs : u < v /\ latest[u] # NoRow}
             last == CHOOSE u \in before : \A w \in before : w <= u
  <1>1. CASE before = {}
    BY <1>1 DEF PreviousContent
  <1>2. CASE before # {}
    <2>1. before \in SUBSET Nat /\ v \in Nat /\ \A u \in before : u < v
      BY PublishingAssumption
    <2>2. \E u \in before : \A w \in before : w <= u
      <3> HIDE DEF before
      <3> QED BY <1>2, <2>1, GreatestExists
    <2>3. last \in before
      BY <2>2
    <2>4. last \in Versions /\ latest[last] # NoRow
      BY <2>3
    <2>5. PreviousContent(v, vs) = pub[latest[last]].content
      BY <1>2 DEF PreviousContent
    <2> HIDE DEF last
    <2>6. latest[last] \in Requests /\ pub[latest[last]] # NoRow
      BY <2>4, LatestIsCommitted
    <2> QED BY <2>5, <2>6, RowFacts
  <1> QED BY <1>1, <1>2

\* What is not said to have changed was announced before.
LEMMA UnchangedIsAnnounced ==
  ASSUME IInv, NEW r \in Requests, NEW v \in Versions, NEW content \in Contents,
         ~ContentChanged(r, v, content)
  PROVE  content \in announced
  <1> DEFINE names == TagsSeenBy(r, v)
             with(t) == {u \in Versions : <<u, t>> \in tagged}
             untagged == {u \in Versions : \A t \in Tags : <<u, t>> \notin tagged}
  <1>1. \E vs \in SUBSET Versions : PreviousContent(v, vs) = content
    <2>1. CASE names = {}
      <3>1. PreviousContent(v, untagged) = content
        BY <2>1 DEF ContentChanged
      <3> QED BY <3>1
    <2>2. CASE names # {}
      <3>1. PICK t \in names : TRUE
        BY <2>2
      <3>2. PreviousContent(v, with(t)) = content
        BY <2>2, <3>1 DEF ContentChanged
      <3> QED BY <3>2
    <2> QED BY <2>1, <2>2
  <1> QED BY <1>1, PreviousIsAnnounced, PublishingAssumption

\* A request that has written its row goes on.
LEMMA WritesOn ==
  ASSUME IInv, NEW r \in Requests, req[r] # Idle, req[r].pc \notin Outcomes,
         req[r].op # "delete", FoundOK(r),
         NEW step \in {"latest", "announce", "commit"}, Goes(r, step),
         req'[r].existing = req[r].existing, req'[r].targets = req[r].targets,
         UNCHANGED <<tables, history>>,
         NEW K, Locks(r, K),
         \A q \in Requests \ {r} :
            /\ \A v \in Versions : Key("latest", v) \in K => Key("latest", v) \notin holds[q]
            /\ \A i \in Requests :
                 /\ Key("delete", i) \notin K
                 /\ Key("update", i) \in K => Key("delete", i) \notin holds[q],
         WriteOK(r)'
  PROVE  IInv'
  <1>1. FoundOK(r)'
    <2>1. \A i \in Requests : Done(i) => Done(i)'
      BY DEF Goes, Done, Outcomes
    <2>2. known[r] \subseteq Requests /\ req[r].targets \subseteq Requests
          /\ req[r].existing \in Ids /\ known' = known
      BY TableFacts, ActiveFacts DEF history
    <2> QED BY <2>1, <2>2 DEF FoundOK, Ids
  <1>2. RequestOK(r)'
    BY <1>1 DEF RequestOK, Goes
  <1>3. /\ UNCHANGED <<tables, announced, written>> /\ known' \in [Requests -> SUBSET Requests]
        /\ \A q \in Requests \ {r} : known'[q] = known[q] /\ step \in Steps
    BY TableFacts DEF history, Steps
  <1>4. step \in Steps
    BY DEF Steps
  <1> QED BY <1>2, <1>3, <1>4, StepKeepsIInv

\* What is known of the revision and of the row of r stays so.
LEMMA RevisionStays ==
  ASSUME IInv, NEW r \in Requests, req[r] # Idle, req[r].pc \notin Outcomes,
         UNCHANGED <<tables, history>>, NEW step \in {"latest", "announce", "commit"},
         Goes(r, step), req'[r].existing = req[r].existing, req'[r].revision = req[r].revision,
         RevisionOK(r)
  PROVE  RevisionOK(r)'
  <1>1. pub' = pub /\ known' = known
    BY DEF tables, history
  <1>2. \A n : Inserted(n)' = Inserted(n)
    BY DEF Inserted, Done, Goes, Outcomes
  <1>3. \A n : Enough(n)' <=> Enough(n)
    BY <1>2 DEF Enough
  <1> QED BY <1>1, <1>3 DEF RevisionOK

LEMMA WritePublicationKeepsIInv ==
  ASSUME IInv, NEW r \in Requests, req[r] # Idle, WritePublication(r)
  PROVE  IInv'
  <1> DEFINE key == Key("revision", <<req[r].version, req[r].revision>>)
             id == Upserted(req[r].version, req[r].revision)
  <1>1. /\ req[r].pc = "insert" /\ req[r].pc \notin Outcomes
        /\ req[r].op # "delete" /\ FoundOK(r) /\ WriteOK(r)
        /\ UNCHANGED <<tables, history>>
    BY IsWriter DEF WritePublication, WriteSteps, ReadSteps
  <1>2. PICK row \in Requests, K \in {{key}} \cup {{key, Key("update", i)} : i \in Requests} :
           /\ Lock(r, K) /\ req' = [req EXCEPT ![r] = [@ EXCEPT !.pc = "latest", !.row = row]]
           /\ \/ row = r /\ K = {key}
              \/ /\ K = {key, Key("update", row)} /\ Free(r, Key("delete", row))
                 /\ pub[row] # NoRow /\ pub[row].version = req[r].version
                 /\ pub[row].revision = req[r].revision
    <2>1. CASE id = NoRow
      BY <2>1 DEF WritePublication
    <2>2. CASE id # NoRow
      <3>4. Key("delete", id) \in Needs(r) /\ Waits(r) = {}
        BY <1>1, <2>2, NeedFacts DEF WritePublication
      <3>3. Free(r, Key("delete", id))
        BY <3>4, NeedsAreFree
      <3> DEFINE same == {i \in Rows(req[r].version) : pub[i].revision = req[r].revision}
      <3>1. id \in same
        BY <2>2 DEF Upserted
      <3>2. /\ id \in Requests /\ pub[id] # NoRow /\ pub[id].version = req[r].version
            /\ pub[id].revision = req[r].revision
        BY <3>1 DEF Rows
      <3> HIDE DEF same
      <3> QED BY <2>2, <3>2, <3>3 DEF WritePublication
    <2> QED BY <2>1, <2>2
  <1> DEFINE new == [req[r] EXCEPT !.pc = "latest", !.row = row]
  <1>3. req[r] \in ActiveReq
    BY ActiveFacts
  <1>4. new \in ActiveReq
    BY <1>3 DEF ActiveReq, Steps, Ids
  <1>5. /\ new.pc = "latest" /\ new.op = req[r].op /\ new.version = req[r].version
        /\ new.existing = req[r].existing /\ new.base = req[r].base
        /\ new.targets = req[r].targets /\ new.revision = req[r].revision /\ new.row = row
    BY <1>3 DEF ActiveReq
  <1>6. req' = [req EXCEPT ![r] = new]
    BY <1>2
  <1> HIDE DEF new, id
  <1>7. /\ Goes(r, "latest") /\ req'[r].existing = req[r].existing /\ req'[r].base = req[r].base
        /\ req'[r].targets = req[r].targets /\ req'[r].revision = req[r].revision
        /\ req'[r].row = row /\ req'[r].version = req[r].version
    BY <1>4, <1>5, <1>6, ReplaceFacts DEF Goes
  <1>8. Locks(r, K)
    BY <1>2, LockFacts
  <1>9. /\ Revision(r)' = key /\ key \in K /\ \A k \in K : k[1] \in {"revision", "update"}
        /\ \A k \in holds[r] : k[1] \in {"version", "tag"}
        /\ holds'[r] = holds[r] \cup K
    BY <1>1, <1>2, <1>7, <1>8 DEF Revision, Key, WriteOK, ReadSteps, Kind, Locks
  <1>10. WriteOK(r)'
    <2>1. RevisionOK(r)'
      BY <1>1, <1>7, RevisionStays DEF WriteOK
    <2>2. RowOK(r)'
      <3>1. pub' = pub
        BY <1>1 DEF tables
      <3> QED BY <1>2, <1>7, <1>9, <3>1 DEF RowOK
    <2>3. \A v \in Versions : Key("latest", v) \notin holds'[r]
      BY <1>9 DEF Key
    <2>4. /\ announced' = announced /\ known' = known
          /\ req[r].existing = NoRow => known[r] = {}
          /\ req[r].existing # NoRow => req[r].base \in announced
      BY <1>1 DEF history, WriteOK
    <2>5. Kind(r, {"version", "tag", "revision", "update", "share", "latest"})'
      BY <1>9 DEF Kind
    <2>6. req'[r].pc = "latest"
      BY <1>7 DEF Goes
    <2> QED BY <1>7, <1>9, <2>1, <2>2, <2>3, <2>4, <2>5, <2>6 DEF WriteOK, WriteSteps, ReadSteps
  <1>11. ASSUME NEW q \in Requests \ {r}
         PROVE  /\ \A v \in Versions : Key("latest", v) \notin K
                /\ \A i \in Requests :
                     /\ Key("delete", i) \notin K
                     /\ Key("update", i) \in K => Key("delete", i) \notin holds[q]
    BY <1>2 DEF Key, Free
  <1> QED BY <1>1, <1>7, <1>8, <1>10, <1>11, WritesOn

LEMMA WriteLatestKeepsIInv ==
  ASSUME IInv, NEW r \in Requests, req[r] # Idle, WriteLatest(r)
  PROVE  IInv'
  <1>1. /\ req[r].pc = "latest" /\ req[r].pc \notin Outcomes
        /\ req[r].op # "delete" /\ FoundOK(r) /\ WriteOK(r)
        /\ UNCHANGED <<tables, history>> /\ Waits(r) = {} /\ Lock(r, Needs(r)) /\ Go(r, "announce")
    BY IsWriter DEF WriteLatest, WriteSteps
  <1>6. Free(r, Latest(r)) /\ Lock(r, {Latest(r)})
    BY <1>1, NeedFacts, NeedsAreFree
  <1>2. Goes(r, "announce") /\ SameMemory(r) /\ Locks(r, {Latest(r)})
    BY <1>1, <1>6, GoFacts, LockFacts DEF Steps
  <1>3. /\ Revision(r)' = Revision(r) /\ Latest(r)' = Latest(r)
        /\ holds'[r] = holds[r] \cup {Latest(r)}
    BY <1>2 DEF Revision, Latest, Goes, SameMemory, Locks
  <1>4. WriteOK(r)'
    <2>1. RevisionOK(r)'
      BY <1>1, <1>2, RevisionStays DEF WriteOK, SameMemory
    <2>2. RowOK(r)'
      <3>1. pub' = pub /\ RowOK(r)
        BY <1>1 DEF tables, WriteOK
      <3> QED BY <1>2, <1>3, <3>1 DEF RowOK, SameMemory, Goes
    <2>3. \A v \in Versions : Key("latest", v) \in holds'[r] => v = req[r].version
      BY <1>1, <1>3 DEF WriteOK, Latest, Key
    <2>4. /\ announced' = announced /\ known' = known
      BY <1>1 DEF history
    <2>5. Kind(r, {"version", "tag", "revision", "update", "share", "latest"})'
      BY <1>1, <1>3 DEF Kind, WriteOK, Latest, Key
    <2>6. req'[r].pc = "announce" /\ req'[r].version = req[r].version
      BY <1>2 DEF Goes
    <2> QED BY <1>1, <1>2, <1>3, <2>1, <2>2, <2>3, <2>4, <2>5, <2>6
            DEF WriteOK, WriteSteps, ReadSteps, SameMemory
  <1>5. ASSUME NEW q \in Requests \ {r}
        PROVE  /\ \A v \in Versions :
                    Key("latest", v) \in {Latest(r)} => Key("latest", v) \notin holds[q]
               /\ \A i \in Requests :
                    /\ Key("delete", i) \notin {Latest(r)}
                    /\ Key("update", i) \notin {Latest(r)}
    BY <1>6 DEF Key, Free, Latest
  <1> QED BY <1>1, <1>2, <1>4, <1>5, WritesOn DEF SameMemory

LEMMA AnnounceKeepsIInv ==
  ASSUME IInv, NEW r \in Requests, req[r] # Idle, Announce(r)
  PROVE  IInv'
  <1> DEFINE changed == IF req[r].existing = NoRow
                        THEN ContentChanged(r, req[r].version, req[r].content)
                        ELSE req[r].base # req[r].content
             new == [req[r] EXCEPT !.pc = "commit", !.changed = changed]
  <1>1. /\ req[r].pc = "announce" /\ req[r].pc \notin Outcomes
        /\ req[r].op # "delete" /\ FoundOK(r) /\ WriteOK(r)
    BY IsWriter DEF Announce, WriteSteps
  <1>2. CASE Fail(r, "error")
    BY <1>1, <1>2, FailKeepsIInv DEF Outcomes
  <1>3. ASSUME req' = [req EXCEPT ![r] = new], UNCHANGED <<tables, history>>,
               NEW K, K \in {{}, {Key("share", req[r].row)}}, Locks(r, K)
        PROVE  IInv'
    <2>1. req[r] \in ActiveReq /\ req[r].version \in Versions /\ req[r].content \in Contents
      BY ActiveFacts
    <2>2. changed \in BOOLEAN
      BY DEF ContentChanged
    <2>3. changed \/ req[r].content \in announced
      <3>1. CASE req[r].existing = NoRow
        BY <2>1, <3>1, UnchangedIsAnnounced
      <3>2. CASE req[r].existing # NoRow
        BY <1>1, <3>2 DEF WriteOK
      <3> QED BY <3>1, <3>2
    <2> HIDE DEF changed
    <2>4. new \in ActiveReq
      BY <2>1, <2>2 DEF ActiveReq, Steps
    <2>5. /\ new.pc = "commit" /\ new.op = req[r].op /\ new.version = req[r].version
          /\ new.existing = req[r].existing /\ new.base = req[r].base
          /\ new.targets = req[r].targets /\ new.revision = req[r].revision
          /\ new.row = req[r].row /\ new.content = req[r].content
      BY <2>1 DEF ActiveReq
    <2>6. new.changed = changed
      BY <2>1 DEF ActiveReq
    <2> HIDE DEF new
    <2>7. Goes(r, "commit") /\ req'[r] = new
      BY <1>3, <2>4, <2>5, ReplaceFacts DEF Goes
    <2>8. /\ Revision(r)' = Revision(r) /\ Latest(r)' = Latest(r) /\ holds'[r] = holds[r] \cup K
      BY <1>3, <2>5, <2>7 DEF Revision, Latest, Locks
    <2>9. \A k \in K : k[1] = "share"
      BY <1>3 DEF Key
    <2>10. /\ Revision(r) \in holds'[r] <=> Revision(r) \in holds[r]
           /\ \A v \in Versions : Key("latest", v) \in holds'[r] <=> Key("latest", v) \in holds[r]
           /\ Latest(r) \in holds'[r] <=> Latest(r) \in holds[r]
      BY <2>8, <2>9 DEF Revision, Latest, Key
    <2>11. WriteOK(r)'
      <3>1. RevisionOK(r) => RevisionOK(r)'
        BY <1>1, <1>3, <2>5, <2>7, RevisionStays
      <3>2. RowOK(r) => RowOK(r)'
        <4>1. pub' = pub
          BY <1>3 DEF tables
        <4> QED BY <2>5, <2>7, <2>8, <4>1 DEF RowOK
      <3>3. announced' = announced /\ known' = known
        BY <1>3 DEF history
      <3>4. Kind(r, {"version", "tag", "revision", "update", "share", "latest"})'
        BY <1>1, <2>8, <2>9 DEF Kind, WriteOK
      <3>5. req'[r].changed \/ req'[r].content \in announced
        BY <2>3, <2>5, <2>6, <2>7
      <3> QED BY <1>1, <2>5, <2>7, <2>8, <2>10, <3>1, <3>2, <3>3, <3>4, <3>5
              DEF WriteOK, WriteSteps, ReadSteps
    <2>12. ASSUME NEW q \in Requests \ {r}
           PROVE  /\ \A v \in Versions : Key("latest", v) \notin K
                  /\ \A i \in Requests : Key("delete", i) \notin K /\ Key("update", i) \notin K
      BY <2>9 DEF Key
    <2> QED BY <1>1, <1>3, <2>5, <2>7, <2>11, <2>12, WritesOn
  <1>4. CASE UNCHANGED <<tables, holds, history>> /\ req' = [req EXCEPT ![r] = new]
    BY <1>3, <1>4, NoLock
  <1>5. CASE /\ Lock(r, {Key("share", req[r].row)}) /\ req' = [req EXCEPT ![r] = new]
             /\ UNCHANGED <<tables, history>>
    BY <1>3, <1>5, LockFacts
  <1> QED BY <1>2, <1>4, <1>5 DEF Announce

-----------------------------------------------------------------------------
(* Deleting all revisions *)

LEMMA DeletesOn ==
  ASSUME IInv, NEW r \in Requests, req[r] # Idle, req[r].pc \notin Outcomes,
         req[r].op = "delete", FoundOK(r),
         NEW step \in {"choose", "remove", "cascade", "commit"}, Goes(r, step),
         req'[r].existing = req[r].existing, \A i \in req'[r].targets : Done(i),
         UNCHANGED <<tables, history>>,
         NEW K, Locks(r, K),
         \A q \in Requests \ {r} :
            /\ \A v \in Versions : Key("latest", v) \in K => Key("latest", v) \notin holds[q]
            /\ \A i \in Requests :
                 /\ Key("delete", i) \in K =>
                      Key("delete", i) \notin holds[q] /\ Key("update", i) \notin holds[q]
                 /\ Key("update", i) \notin K,
         DeleteOK(r)'
  PROVE  IInv'
  <1>1. FoundOK(r)'
    <2>1. \A i \in Requests : Done(i) => Done(i)'
      BY DEF Goes, Done, Outcomes
    <2>2. /\ known[r] \subseteq Requests /\ req'[r].targets \subseteq Requests
          /\ req[r].existing \in Ids /\ known' = known
      BY TableFacts, ActiveFacts DEF history, Goes, ActiveReq
    <2> QED BY <2>1, <2>2 DEF FoundOK, Ids
  <1>2. RequestOK(r)'
    BY <1>1 DEF RequestOK, Goes
  <1>3. /\ UNCHANGED <<tables, announced, written>> /\ known' \in [Requests -> SUBSET Requests]
        /\ \A q \in Requests \ {r} : known'[q] = known[q]
    BY TableFacts DEF history
  <1>4. step \in Steps
    BY DEF Steps
  <1> QED BY <1>2, <1>3, <1>4, StepKeepsIInv

LEMMA UnhookRevisionsKeepsIInv ==
  ASSUME IInv, NEW r \in Requests, req[r] # Idle, UnhookRevisions(r)
  PROVE  IInv'
  <1> DEFINE K == Needs(r)
  <1>1. /\ req[r].pc = "unhook" /\ req[r].pc \notin Outcomes
        /\ req[r].op = "delete" /\ FoundOK(r) /\ DeleteOK(r)
        /\ UNCHANGED <<tables, history>> /\ Lock(r, K) /\ Go(r, "choose")
    BY IsDeletion DEF UnhookRevisions, RemoveSteps
  <1>2. \A k \in K : k[1] = "unhook"
    BY <1>1, NeedFacts DEF Key
  <1> HIDE DEF K
  <1>3. Goes(r, "choose") /\ SameMemory(r) /\ Locks(r, K)
    BY <1>1, GoFacts, LockFacts DEF Steps
  <1>4. DeleteOK(r)'
    <2>1. \A k \in holds'[r] : k[1] = "unhook"
      BY <1>1, <1>2, <1>3 DEF DeleteOK, Kind, Locks
    <2>2. /\ \A v \in Versions : Key("latest", v) \notin holds'[r]
          /\ \A i \in Requests : Key("delete", i) \notin holds'[r]
      BY <2>1 DEF Key
    <2>3. pub' = pub
      BY <1>1 DEF tables
    <2>4. /\ req'[r].pc = "choose" /\ req'[r].version = req[r].version
          /\ req'[r].targets = req[r].targets
      BY <1>3 DEF Goes, SameMemory
    <2> QED BY <1>1, <2>1, <2>2, <2>3, <2>4 DEF DeleteOK, RemoveSteps, Kind
  <1>5. ASSUME NEW q \in Requests \ {r}
        PROVE  /\ \A v \in Versions : Key("latest", v) \notin K
               /\ \A i \in Requests : Key("delete", i) \notin K /\ Key("update", i) \notin K
    BY <1>2 DEF Key
  <1>6. \A i \in req'[r].targets : Done(i)
    BY <1>1, <1>3 DEF FoundOK, SameMemory
  <1> QED BY <1>1, <1>3, <1>4, <1>5, <1>6, DeletesOn DEF SameMemory

LEMMA ChooseRevisionsKeepsIInv ==
  ASSUME IInv, NEW r \in Requests, req[r] # Idle, ChooseRevisions(r)
  PROVE  IInv'
  <1> DEFINE new == [req[r] EXCEPT !.pc = "remove", !.targets = Rows(req[r].version)]
  <1>1. /\ req[r].pc = "choose" /\ req[r].pc \notin Outcomes
        /\ req[r].op = "delete" /\ FoundOK(r) /\ DeleteOK(r)
        /\ UNCHANGED <<tables, history, holds>> /\ req' = [req EXCEPT ![r] = new]
    BY IsDeletion DEF ChooseRevisions, Choosing, RemoveSteps
  <1>2. req[r] \in ActiveReq /\ Rows(req[r].version) \in SUBSET Requests
    BY ActiveFacts DEF Rows
  <1>3. new \in ActiveReq
    BY <1>2 DEF ActiveReq, Steps
  <1>4. /\ new.pc = "remove" /\ new.op = req[r].op /\ new.version = req[r].version
        /\ new.existing = req[r].existing /\ new.targets = Rows(req[r].version)
    BY <1>2 DEF ActiveReq
  <1> HIDE DEF new
  <1>5. /\ Goes(r, "remove") /\ req'[r].existing = req[r].existing
        /\ req'[r].version = req[r].version /\ req'[r].targets = Rows(req[r].version)
    BY <1>1, <1>3, <1>4, ReplaceFacts DEF Goes
  <1>6. Locks(r, {})
    BY <1>1, NoLock
  <1>7. DeleteOK(r)'
    <2>1. \A k \in holds'[r] : k[1] = "unhook"
      BY <1>1 DEF DeleteOK, Kind
    <2>2. /\ \A v \in Versions : Key("latest", v) \notin holds'[r]
          /\ \A i \in Requests : Key("delete", i) \notin holds'[r]
      BY <2>1 DEF Key
    <2>3. pub' = pub
      BY <1>1 DEF tables
    <2>4. Rows(req[r].version)' = Rows(req[r].version)
      BY <2>3, <1>5 DEF Rows
    <2>5. \A i \in Rows(req[r].version) : pub[i] # NoRow => pub[i].version = req[r].version
      BY DEF Rows
    <2>6. req'[r].pc = "remove"
      BY <1>5 DEF Goes
    <2> QED BY <1>5, <2>1, <2>2, <2>3, <2>4, <2>5, <2>6 DEF DeleteOK, RemoveSteps, Kind
  <1>8. \A i \in req'[r].targets : Done(i)
    BY <1>5, RowFacts DEF Rows
  <1> QED BY <1>1, <1>5, <1>6, <1>7, <1>8, DeletesOn

LEMMA RemoveRevisionsKeepsIInv ==
  ASSUME IInv, NEW r \in Requests, req[r] # Idle, RemoveRevisions(r)
  PROVE  IInv'
  <1> DEFINE K == {Key("delete", i) : i \in Removable(r)}
  <1>1. /\ req[r].pc = "remove" /\ req[r].pc \notin Outcomes
        /\ req[r].op = "delete" /\ FoundOK(r) /\ DeleteOK(r)
    BY IsDeletion DEF RemoveRevisions, RemoveSteps
  <1>2. CASE Fail(r, "error")
    BY <1>1, <1>2, FailKeepsIInv DEF Outcomes
  <1>3. CASE Lock(r, K) /\ Go(r, "cascade") /\ UNCHANGED <<tables, history>>
    <2>1. Goes(r, "cascade") /\ SameMemory(r) /\ Locks(r, K)
      BY <1>3, GoFacts, LockFacts DEF Steps
    <2>2. \A k \in K : k[1] = "delete" /\ k[2] \in Removable(r)
      BY DEF Key
    <2>3. \A i \in Removable(r) : Key("delete", i) \in K
      OBVIOUS
    <2>4. \A i \in Removable(r), kind \in {"update", "delete"} : Free(r, Key(kind, i))
      <3>1. \A k \in Needs(r) : Free(r, k)
        BY NeedsAreFree DEF RemoveRevisions
      <3>2. \A i \in Removable(r), kind \in {"update", "delete"} : Key(kind, i) \in Needs(r)
        BY <1>1, NeedFacts
      <3> QED BY <3>1, <3>2
    <2> HIDE DEF K
    <2>5. /\ req'[r].pc = "cascade" /\ req'[r].version = req[r].version
          /\ req'[r].targets = req[r].targets /\ pub' = pub /\ latest' = latest
          /\ holds'[r] = holds[r] \cup K
      BY <1>3, <2>1 DEF Goes, SameMemory, tables, Locks
    <2>6. DeleteOK(r)'
      <3>1. \A k \in holds[r] : k[1] = "unhook"
        BY <1>1 DEF DeleteOK, Kind
      <3>2. \A v \in Versions : Key("latest", v) \notin holds'[r]
        BY <2>2, <2>5, <3>1 DEF Key
      <3>3. Removable(r)' = Removable(r)
        BY <2>5 DEF Removable
      <3>4. \A i \in Requests : Key("delete", i) \in holds'[r] => i \in Removable(r)
        BY <2>2, <2>5, <3>1 DEF Key
      <3>5. \A i \in Removable(r) : Key("delete", i) \in holds'[r]
        BY <2>3, <2>5
      <3>6. /\ Rows(req[r].version)' = Rows(req[r].version)
            /\ Overwritten(req[r].version)' <=> Overwritten(req[r].version)
        <4>1. Overwritten(req[r].version)' <=> Overwritten(req[r].version)
          BY <1>1, <2>1, <2>5 DEF Overwritten, Goes, Outcomes
        <4> QED BY <2>5, <4>1 DEF Rows
      <3>7. Kind(r, {"unhook", "delete"})'
        BY <2>2, <2>5, <3>1 DEF Kind
      <3> QED BY <1>1, <2>5, <3>2, <3>3, <3>4, <3>5, <3>6, <3>7 DEF DeleteOK, RemoveSteps, Kind
    <2>7. ASSUME NEW q \in Requests \ {r}
          PROVE  /\ \A v \in Versions : Key("latest", v) \notin K
                 /\ \A i \in Requests :
                      /\ Key("delete", i) \in K =>
                           Key("delete", i) \notin holds[q] /\ Key("update", i) \notin holds[q]
                      /\ Key("update", i) \notin K
      BY <2>2, <2>4 DEF Key, Free
    <2>8. \A i \in req'[r].targets : Done(i)
      BY <1>1, <2>5 DEF FoundOK
    <2> QED BY <1>1, <1>3, <2>1, <2>6, <2>7, <2>8, DeletesOn DEF SameMemory
  <1> QED BY <1>2, <1>3 DEF RemoveRevisions

LEMMA CascadeKeepsIInv ==
  ASSUME IInv, NEW r \in Requests, req[r] # Idle, Cascade(r)
  PROVE  IInv'
  <1> DEFINE v == req[r].version
             named == latest[v] \in Removable(r)
             K == IF named THEN {Key("latest", v)} ELSE {}
  <1>1. /\ req[r].pc = "cascade" /\ req[r].pc \notin Outcomes
        /\ req[r].op = "delete" /\ FoundOK(r) /\ DeleteOK(r)
        /\ UNCHANGED <<tables, history>> /\ Go(r, "commit")
    BY IsDeletion DEF Cascade, RemoveSteps
  <1>2. Locks(r, K) /\ (named => Free(r, Key("latest", v)))
    <2>1. Waits(r) = {} /\ Lock(r, Needs(r))
      BY DEF Cascade
    <2>2. Needs(r) = K
      BY <1>1, NeedFacts DEF Latest
    <2>3. named => Key("latest", v) \in Needs(r)
      BY <2>2
    <2> HIDE DEF K, named
    <2> QED BY <2>1, <2>2, <2>3, NeedsAreFree, LockFacts
  <1>3. Goes(r, "commit") /\ SameMemory(r)
    BY <1>1, GoFacts DEF Steps
  <1>4. /\ req'[r].pc = "commit" /\ req'[r].version = v
        /\ req'[r].targets = req[r].targets /\ pub' = pub /\ latest' = latest
        /\ holds'[r] = holds[r] \cup K
    BY <1>1, <1>2, <1>3 DEF Goes, SameMemory, tables, Locks
  <1>5. DeleteOK(r)'
    <2>1. \A k \in holds[r] : k[1] \in {"unhook", "delete"}
      BY <1>1 DEF DeleteOK, Kind
    <2>2. \A k \in K : k = Key("latest", v)
      OBVIOUS
    <2>3. \A u \in Versions : Key("latest", u) \in holds'[r] => u = v
      BY <1>4, <2>1, <2>2 DEF Key
    <2>4. Removable(r)' = Removable(r) /\ Latest(r)' = Key("latest", v)
      BY <1>4 DEF Removable, Latest
    <2>5. \A i \in Requests : Key("delete", i) \in holds'[r] <=> Key("delete", i) \in holds[r]
      BY <1>4, <2>2 DEF Key
    <2>6. Key("latest", v) \in holds'[r] <=> named
      BY <1>4, <2>1 DEF Key
    <2>7. Rows(v)' = Rows(v) /\ (Overwritten(v)' <=> Overwritten(v))
      <3>1. Overwritten(v)' <=> Overwritten(v)
        BY <1>1, <1>3, <1>4 DEF Overwritten, Goes, Outcomes
      <3> QED BY <1>4, <3>1 DEF Rows
    <2>8. Kind(r, {"unhook", "delete", "latest"})'
      BY <1>4, <2>1, <2>2 DEF Kind, Key
    <2>9. \A i \in Removable(r) : i \in Requests
      BY ActiveFacts DEF Removable
    <2> QED BY <1>1, <1>4, <2>3, <2>4, <2>5, <2>6, <2>7, <2>8, <2>9 DEF DeleteOK, RemoveSteps
  <1>6. ASSUME NEW q \in Requests \ {r}
        PROVE  /\ \A u \in Versions : Key("latest", u) \in K => Key("latest", u) \notin holds[q]
               /\ \A i \in Requests : Key("delete", i) \notin K /\ Key("update", i) \notin K
    BY <1>2 DEF Key, Free
  <1>7. \A i \in req'[r].targets : Done(i)
    BY <1>1, <1>4 DEF FoundOK
  <1> QED BY <1>1, <1>2, <1>3, <1>5, <1>6, <1>7, DeletesOn DEF SameMemory

-----------------------------------------------------------------------------
(* Commits *)

\* The transaction of r ends.
CommitEnds(r) ==
    /\ Goes(r, "done") /\ SameMemory(r)
    /\ DOMAIN holds' = Requests /\ holds'[r] = {}
    /\ \A q \in Requests \ {r} : holds'[q] = holds[q]
    /\ known' = known /\ announced \subseteq announced'

\* It has found its content there and written nothing ...
Unpublished(r) ==
    /\ req[r].op # "delete" /\ Revision(r) \notin holds[r]
    /\ UNCHANGED <<pub, latest, written>>

\* ... or a publication, which is the latest one from now on ...
Publishes(r) ==
    LET q == req[r]
        row == [version |-> q.version, revision |-> q.revision, content |-> q.content]
    IN /\ q.op # "delete" /\ RowOK(r) /\ RevisionOK(r)
       /\ {Revision(r), Latest(r)} \subseteq holds[r]
       /\ q.content \in announced'
       /\ pub' = [pub EXCEPT ![q.row] = row]
       /\ latest' = [latest EXCEPT ![q.version] = q.row]
       /\ written' = [written EXCEPT ![q.version] = q.content]

\* ... or has deleted the rows that were left of those it had found.
Deletes(r) ==
    /\ req[r].op = "delete" /\ DeleteOK(r)
    /\ pub' = [i \in Requests |-> IF i \in Removable(r) THEN NoRow ELSE pub[i]]
    /\ latest' = [latest EXCEPT ![req[r].version] = IF @ \in Removable(r) THEN NoRow ELSE @]
    /\ written' = written

LEMMA CommitFacts ==
  ASSUME IInv, NEW r \in Requests, Commit(r)
  PROVE  /\ req[r] # Idle /\ req[r].pc = "commit" /\ FoundOK(r) /\ CommitEnds(r)
         /\ Unpublished(r) \/ Publishes(r) \/ Deletes(r)
         /\ versions' \subseteq Versions /\ tagged' \subseteq Versions \X Tags
         /\ hooked' \subseteq Requests \X Requests /\ announced' \subseteq Contents
  <1> DEFINE q == req[r]
             key == <<q.version, q.revision>>
             row == [version |-> q.version, revision |-> q.revision, content |-> q.content]
  <1>1. req[r] # Idle /\ req[r].pc = "commit"
    BY IdleFacts DEF Commit
  <1>2. RequestOK(r) /\ q.content \in Contents /\ q.version \in Versions /\ q.row \in Ids
    BY <1>1, ActiveFacts DEF IInv
  <1>3. FoundOK(r) /\ (q.op # "delete" => WriteOK(r)) /\ (q.op = "delete" => DeleteOK(r))
    BY <1>1, <1>2 DEF RequestOK, Outcomes
  <1>4. Goes(r, "done") /\ SameMemory(r)
    BY <1>1, GoFacts DEF Commit, Outcomes
  <1>5. CommitEnds(r)
    BY <1>4, TableFacts DEF Commit, CommitEnds
  <1>6. announced' \subseteq Contents /\ (q.changed => q.content \in announced')
    BY <1>2, TableFacts DEF Commit
  <1>7. /\ pub' = [i \in Requests |->
                     IF Wrote(r, "delete", i) THEN NoRow
                     ELSE IF Wrote(r, "revision", key) /\ i = q.row THEN row ELSE pub[i]]
        /\ latest' = [v \in Versions |->
                        IF ~Wrote(r, "latest", v) THEN latest[v]
                        ELSE IF q.op = "delete" THEN NoRow ELSE q.row]
        /\ written' = IF Wrote(r, "revision", key)
                      THEN [written EXCEPT ![q.version] = q.content] ELSE written
    BY DEF Commit, CommitTables
  <1>8. Wrote(r, "revision", key) <=> Revision(r) \in holds[r]
    BY DEF Wrote, Revision
  <1> DEFINE new(v) == IF ~Wrote(r, "latest", v) THEN latest[v]
                       ELSE IF q.op = "delete" THEN NoRow ELSE q.row
  <1>a. /\ latest' = [v \in Versions |-> latest'[v]] /\ latest = [v \in Versions |-> latest[v]]
        /\ \A v \in Versions : latest'[v] = new(v)
    <2>1. latest' = [v \in Versions |-> new(v)]
      BY <1>7
    <2> HIDE DEF new
    <2>2. latest = [v \in Versions |-> latest[v]]
      BY TableFacts
    <2> QED BY <2>1, <2>2
  <1>9. ASSUME q.op # "delete" PROVE Unpublished(r) \/ Publishes(r)
    <2>1. \A i \in Requests : ~Wrote(r, "delete", i)
      BY <1>3, <1>9 DEF WriteOK, Kind, Wrote, Key
    <2>2. /\ Revision(r) \in holds[r] <=> Wrote(r, "latest", q.version)
          /\ \A v \in Versions : Wrote(r, "latest", v) => v = q.version
      BY <1>1, <1>3, <1>9 DEF WriteOK, Wrote, Latest
    <2>3. CASE Revision(r) \notin holds[r]
      <3>1. pub' = pub
        BY <1>7, <1>8, <2>1, <2>3, TableFacts
      <3>2. latest' = latest
        <4>1. \A v \in Versions : latest'[v] = latest[v]
          BY <1>a, <2>2, <2>3
        <4> QED BY <1>a, <4>1
      <3>3. written' = written
        BY <1>7, <1>8, <2>3
      <3> QED BY <1>9, <2>3, <3>1, <3>2, <3>3 DEF Unpublished
    <2>4. CASE Revision(r) \in holds[r]
      <3>1. pub' = [pub EXCEPT ![q.row] = row]
        BY <1>7, <1>8, <2>1, <2>4, TableFacts
      <3>2. latest' = [latest EXCEPT ![q.version] = q.row]
        <4>1. \A v \in Versions : latest'[v] = IF v = q.version THEN q.row ELSE latest[v]
          BY <1>a, <1>9, <2>2, <2>4
        <4>2. latest' = [v \in Versions |-> IF v = q.version THEN q.row ELSE latest[v]]
          BY <1>a, <4>1
        <4> QED BY <1>a, <4>2
      <3>3. written' = [written EXCEPT ![q.version] = q.content]
        BY <1>7, <1>8, <2>4
      <3>4. RowOK(r) /\ RevisionOK(r) /\ Latest(r) \in holds[r]
        BY <1>1, <1>3, <1>9, <2>4 DEF WriteOK
      <3>5. q.content \in announced'
        BY <1>1, <1>3, <1>5, <1>6, <1>9 DEF WriteOK, CommitEnds
      <3> QED BY <1>9, <2>4, <3>1, <3>2, <3>3, <3>4, <3>5 DEF Publishes
    <2> QED BY <2>3, <2>4
  <1>10. ASSUME q.op = "delete" PROVE Deletes(r)
    <2>1. Revision(r) \notin holds[r]
      BY <1>3, <1>10 DEF DeleteOK, Kind, Revision, Key
    <2>2. \A i \in Requests : Wrote(r, "delete", i) <=> i \in Removable(r)
      BY <1>1, <1>3, <1>10, ActiveFacts DEF DeleteOK, Wrote, Removable
    <2>3. /\ Wrote(r, "latest", q.version) <=> latest[q.version] \in Removable(r)
          /\ \A v \in Versions : Wrote(r, "latest", v) => v = q.version
      BY <1>1, <1>3, <1>10 DEF DeleteOK, Wrote, Latest
    <2>4. pub' = [i \in Requests |-> IF i \in Removable(r) THEN NoRow ELSE pub[i]]
      BY <1>7, <1>8, <2>1, <2>2
    <2>5. latest' = [latest EXCEPT ![q.version] = IF @ \in Removable(r) THEN NoRow ELSE @]
      <3> DEFINE left == IF latest[q.version] \in Removable(r) THEN NoRow ELSE latest[q.version]
      <3>1. \A v \in Versions : latest'[v] = IF v = q.version THEN left ELSE latest[v]
        BY <1>a, <1>10, <2>3
      <3>2. latest' = [v \in Versions |-> IF v = q.version THEN left ELSE latest[v]]
        BY <1>a, <3>1
      <3>3. latest' = [latest EXCEPT ![q.version] = left]
        BY <1>a, <3>2
      <3> QED BY <3>3
    <2>6. written' = written
      BY <1>7, <1>8, <2>1
    <2> QED BY <1>3, <1>10, <2>4, <2>5, <2>6 DEF Deletes
  <1>11. /\ versions' \subseteq Versions /\ tagged' \subseteq Versions \X Tags
         /\ hooked' \subseteq Requests \X Requests
    BY DEF Commit, CommitTables, IInv, MemoryOK
  <1> HIDE DEF q, row
  <1> QED BY <1>1, <1>3, <1>5, <1>6, <1>9, <1>10, <1>11

\* One more request has ended.
LEMMA MoreDone ==
  ASSUME IInv, NEW r \in Requests, req[r].pc = "commit", CommitEnds(r)
  PROVE  /\ ~Done(r) /\ \A i \in Requests : Done(i)' <=> (Done(i) \/ i = r)
         /\ \A v \in Versions : Overwritten(v) => Overwritten(v)'
         /\ \A n \in Nat : Enough(n) => Enough(n)'
  <1>1. ~Done(r) /\ \A i \in Requests : Done(i)' <=> (Done(i) \/ i = r)
    BY DEF CommitEnds, Goes, Done
  <1>2. \A i \in Requests : Done(i) => req'[i] = req[i]
    BY <1>1 DEF CommitEnds, Goes
  <1>3. ASSUME NEW v \in Versions, Overwritten(v) PROVE Overwritten(v)'
    BY <1>2, <1>3 DEF Overwritten, Done
  <1>4. ASSUME NEW n \in Nat, Enough(n) PROVE Enough(n)'
    <2>1. Inserted(n) \in SUBSET (Inserted(n)')
      BY <1>1, <1>2 DEF Inserted
    <2>2. Inserted(n)' \in SUBSET Requests
      BY DEF Inserted
    <2>3. IsFiniteSet(Inserted(n)')
      BY <2>2, PublishingAssumption, FS_Subset
    <2>4. Cardinality(Inserted(n)) <= Cardinality(Inserted(n)')
      BY <2>1, <2>3, FS_Subset
    <2>5. Cardinality(Inserted(n)) \in Nat /\ Cardinality(Inserted(n)') \in Nat
      BY <2>3, InsertedIsFinite, FS_CardinalityType
    <2> QED BY <1>4, <2>4, <2>5 DEF Enough
  <1> QED BY <1>1, <1>3, <1>4

\* What the other requests need to know of a commit of r.
Commits(r) ==
    /\ \A i \in Requests :
         Done(i) /\ pub'[i] # NoRow =>
            /\ pub[i] # NoRow
            /\ pub'[i].version = pub[i].version /\ pub'[i].revision = pub[i].revision
    /\ \A i \in Requests, q \in Requests \ {r} :
         pub[i] # NoRow /\ (Key("update", i) \in holds[q] \/ Key("delete", i) \in holds[q])
            => pub'[i] # NoRow
    /\ \A v \in Versions :
         /\ latest'[v] = latest[v] \/ Key("latest", v) \in holds[r]
         /\ \/ latest'[v] \in {latest[v], NoRow, r}
            \/ Key("update", latest'[v]) \in holds[r] /\ Overwritten(v)'
         /\ Rows(v)' \subseteq Rows(v) \/ latest'[v] = r

LEMMA OthersGoOn ==
  ASSUME IInv, NEW r \in Requests, req[r].pc = "commit", CommitEnds(r), Commits(r),
         NEW q \in Requests \ {r}
  PROVE  RequestOK(q)'
  <1>1. /\ req'[q] = req[q] /\ holds'[q] = holds[q] /\ known' = known
        /\ announced \subseteq announced'
    BY DEF CommitEnds, Goes
  <1>2. /\ ~Done(r) /\ \A i \in Requests : Done(i) => Done(i)'
        /\ \A v \in Versions : Overwritten(v) => Overwritten(v)'
        /\ \A n \in Nat : Enough(n) => Enough(n)'
    BY MoreDone
  <1> SUFFICES ASSUME req[q] # Idle, req[q].pc \notin Outcomes
               PROVE  RequestOK(q)'
    BY <1>1 DEF RequestOK
  <1>3. RequestOK(q)
    BY DEF IInv
  <1>4. /\ FoundOK(q) /\ known[q] \subseteq Requests /\ req[q].targets \subseteq Requests
        /\ req[q].existing \in Ids /\ req[q].version \in Versions
        /\ req[q].revision \in Nat \ {0}
    BY <1>3, ActiveFacts, TableFacts DEF RequestOK
  <1>5. FoundOK(q)'
    BY <1>1, <1>2, <1>4 DEF FoundOK, Ids
  <1>6. \A i \in Requests :
          Done(i) /\ pub'[i] # NoRow =>
             /\ pub[i] # NoRow
             /\ pub'[i].version = pub[i].version /\ pub'[i].revision = pub[i].revision
    BY DEF Commits
  <1>7. ASSUME req[q].op # "delete" PROVE WriteOK(q)'
    <2>1. WriteOK(q)
      BY <1>3, <1>7 DEF RequestOK
    <2>2. Revision(q)' = Revision(q) /\ Latest(q)' = Latest(q)
      BY <1>1 DEF Revision, Latest
    <2>3. RowOK(q) => RowOK(q)'
      <3>1. CASE req[q].row = q
        BY <1>1, <3>1 DEF RowOK
      <3>2. ASSUME RowOK(q), req[q].row # q PROVE RowOK(q)'
        <4>1. /\ req[q].row \in Requests /\ Key("update", req[q].row) \in holds[q]
              /\ pub[req[q].row] # NoRow
          BY <3>2 DEF RowOK
        <4>2. pub'[req[q].row] # NoRow /\ Done(req[q].row)
          BY <4>1, RowFacts DEF Commits
        <4> QED BY <1>1, <1>6, <3>2, <4>1, <4>2 DEF RowOK
      <3> QED BY <3>1, <3>2
    <2>4. RevisionOK(q) => RevisionOK(q)'
      <3>1. req[q].revision - 1 \in Nat
        BY <1>4
      <3> QED BY <1>1, <1>2, <1>4, <1>6, <3>1 DEF RevisionOK, FoundOK, Ids
    <2>5. req[q].pc = "model" =>
            LET id == req[q].existing
            IN pub'[id] # NoRow =>
                 \A i \in known[q] : pub'[i] # NoRow => pub'[i].revision <= pub'[id].revision
      BY <1>4, <1>6, <2>1 DEF WriteOK, FoundOK, Ids
    <2> QED BY <1>1, <2>1, <2>2, <2>3, <2>4, <2>5 DEF WriteOK, Kind
  <1>8. ASSUME req[q].op = "delete" PROVE DeleteOK(q)'
    <2> PICK v \in Versions, targets \in SUBSET Requests :
                v = req[q].version /\ targets = req[q].targets
      BY <1>4
    <2>1. DeleteOK(q)
      BY <1>3, <1>8 DEF RequestOK
    <2>2. Latest(q)' = Latest(q) /\ Latest(q) = Key("latest", v)
      BY <1>1 DEF Latest
    <2>3. \A i \in targets : Done(i)
      BY <1>4 DEF FoundOK
    <2>4. \A i \in targets : pub'[i] # NoRow => pub[i] # NoRow /\ pub'[i].version = v
      BY <1>4, <1>6, <2>1, <2>3 DEF DeleteOK
    <2>5. Removable(q)' \subseteq Removable(q)
      BY <1>1, <2>4 DEF Removable
    <2>6. \A i \in Requests : Key("delete", i) \in holds[q] => i \in Removable(q)'
      BY <1>1, <2>1 DEF DeleteOK, Removable, Commits
    <2>7. req[q].pc = "commit" => (Latest(q) \in holds[q] <=> latest'[v] \in Removable(q)')
      <3>1. CASE req[q].pc = "commit" /\ Latest(q) \in holds[q]
        <4>1. Key("latest", v) \notin holds[r] /\ latest[v] \in Removable(q)
          BY <1>4, <2>1, <2>2, <3>1 DEF IInv, Exclusive, DeleteOK
        <4>2. latest'[v] = latest[v]
          BY <1>4, <4>1 DEF Commits
        <4>3. latest[v] \in Requests /\ Key("delete", latest[v]) \in holds[q]
          BY <1>4, <2>1, <3>1, <4>1 DEF DeleteOK, Removable
        <4> QED BY <2>6, <3>1, <4>2, <4>3
      <3>2. CASE req[q].pc = "commit" /\ Latest(q) \notin holds[q]
        <4>1. latest[v] \notin Removable(q) /\ NoRow \notin targets /\ r \notin targets
          BY <1>2, <1>4, <2>1, <2>3, <3>2, PublishingAssumption DEF DeleteOK
        <4>2. ASSUME latest'[v] \in Removable(q)' PROVE FALSE
          <5>1. latest'[v] \in Removable(q) /\ latest'[v] \in targets
            BY <2>5, <4>2 DEF Removable
          <5>2. Key("update", latest'[v]) \in holds[r]
            BY <1>4, <4>1, <5>1 DEF Commits
          <5>3. latest'[v] \in Requests /\ Key("delete", latest'[v]) \in holds[q]
            BY <1>4, <2>1, <3>2, <5>1 DEF DeleteOK
          <5> QED BY <5>2, <5>3 DEF IInv, Exclusive
        <4> QED BY <3>2, <4>2
      <3> QED BY <3>1, <3>2
    <2>8. req[q].pc \in {"remove", "cascade", "commit"} =>
            (latest'[v] \in targets => Overwritten(v)' \/ Rows(v)' \subseteq targets)
      <3> SUFFICES ASSUME req[q].pc \in {"remove", "cascade", "commit"}, latest'[v] \in targets
                   PROVE  Overwritten(v)' \/ Rows(v)' \subseteq targets
        OBVIOUS
      <3>1. latest'[v] # NoRow /\ latest'[v] # r
        BY <1>2, <1>4, <2>3, PublishingAssumption
      <3>2. CASE latest'[v] = latest[v]
        <4>1. Overwritten(v) \/ Rows(v) \subseteq targets
          BY <2>1, <3>2 DEF DeleteOK
        <4>2. Rows(v)' \subseteq Rows(v)
          BY <1>4, <3>1 DEF Commits
        <4> QED BY <1>2, <1>4, <4>1, <4>2
      <3>3. CASE latest'[v] # latest[v]
        BY <1>4, <3>1, <3>3 DEF Commits
      <3> QED BY <3>2, <3>3
    <2>9. req[q].pc \in {"cascade", "commit"} =>
            \A i \in Removable(q)' : Key("delete", i) \in holds[q]
      BY <2>1, <2>5 DEF DeleteOK
    <2>10. req'[q].version = v /\ req'[q].targets = targets /\ req'[q].pc = req[q].pc
      BY <1>1
    <2> QED BY <1>1, <2>1, <2>2, <2>4, <2>6, <2>7, <2>8, <2>9, <2>10 DEF DeleteOK, Kind
  <1> QED BY <1>1, <1>5, <1>7, <1>8 DEF RequestOK

-----------------------------------------------------------------------------
(* A commit keeps the invariant *)

\* The publication row has the key id and is the latest one of v from now on: r has
\* inserted it, or has written over one that it had not read.
NewRow(r, v, id, row) ==
    /\ v = req[r].version /\ id = req[r].row
    /\ row.version = v /\ row.revision = req[r].revision /\ row.content \in announced'
    /\ row # NoRow /\ Key("latest", v) \in holds[r]
    /\ pub' \in [Requests -> Publication \cup {NoRow}]
    /\ latest' \in [Versions -> Ids] /\ DOMAIN written' = Versions
    /\ \A i \in Requests : pub'[i] = IF i = id THEN row ELSE pub[i]
    /\ \A u \in Versions : latest'[u] = IF u = v THEN id ELSE latest[u]
    /\ \A u \in Versions : written'[u] = IF u = v THEN row.content ELSE written[u]
    /\ Enough(row.revision)'
    /\ \/ id = r /\ pub[id] = NoRow
       \/ /\ id # r /\ pub[id] # NoRow /\ Done(id)
          /\ pub[id].version = v /\ pub[id].revision = row.revision
          /\ Key("update", id) \in holds[r] /\ Overwritten(v)'

LEMMA EnoughForOneMore ==
  ASSUME IInv, NEW r \in Requests, req[r].pc = "commit", CommitEnds(r),
         req[r].row = r, req'[r].row = r, req'[r].revision = req[r].revision,
         NEW n \in Nat \ {0}, n = req[r].revision, Enough(n - 1)
  PROVE  Enough(n)'
  <1>1. ~Done(r) /\ \A i \in Requests : Done(i)' <=> (Done(i) \/ i = r)
    BY MoreDone
  <1>2. \A i \in Requests : Done(i) => req'[i] = req[i]
    BY <1>1 DEF CommitEnds, Goes
  <1>3. \A i \in Requests : Done(i) => req[i].revision \in Nat
    BY ActiveFacts, IdleFacts DEF Done
  <1> DEFINE before == Inserted(n - 1)
             after == Inserted(n)'
  <1>4. r \notin before /\ before \in SUBSET Requests /\ after \in SUBSET Requests
    BY <1>1 DEF Inserted
  <1>5. before \cup {r} \in SUBSET after
    BY <1>1, <1>2, <1>3 DEF Inserted
  <1>6. IsFiniteSet(before) /\ IsFiniteSet(after)
    BY <1>4, PublishingAssumption, FS_Subset
  <1> HIDE DEF before, after
  <1>7. IsFiniteSet(before \cup {r}) /\ Cardinality(before \cup {r}) = Cardinality(before) + 1
    BY <1>4, <1>6, FS_AddElement
  <1>8. Cardinality(before \cup {r}) <= Cardinality(after)
    BY <1>5, <1>6, FS_Subset
  <1>9. Cardinality(before) \in Nat /\ Cardinality(after) \in Nat
    BY <1>6, FS_CardinalityType
  <1>10. n - 1 <= Cardinality(before)
    BY DEF Enough, before
  <1>11. n <= Cardinality(after)
    BY <1>7, <1>8, <1>9, <1>10
  <1> QED BY <1>11 DEF Enough, after

LEMMA PublishFacts ==
  ASSUME IInv, NEW r \in Requests, req[r] # Idle, req[r].pc = "commit", CommitEnds(r),
         Publishes(r)
  PROVE  \E v \in Versions, id \in Requests, row \in Publication : NewRow(r, v, id, row)
  <1> DEFINE new == [version |-> req[r].version, revision |-> req[r].revision,
                     content |-> req[r].content]
  <1>1. /\ req[r].version \in Versions /\ req[r].revision \in Nat \ {0}
        /\ req[r].content \in Contents /\ req[r].existing \in Ids
    BY ActiveFacts
  <1>2. RowOK(r) /\ RevisionOK(r) /\ Revision(r) \in holds[r] /\ Latest(r) \in holds[r]
    BY DEF Publishes
  <1>3. new \in Publication /\ new # NoRow
    BY <1>1, PublishingAssumption DEF Publication, Row
  <1>4. /\ pub' = [pub EXCEPT ![req[r].row] = new]
        /\ latest' = [latest EXCEPT ![req[r].version] = req[r].row]
        /\ written' = [written EXCEPT ![req[r].version] = req[r].content]
        /\ req[r].content \in announced'
    BY DEF Publishes
  <1>5. /\ new.version = req[r].version /\ new.revision = req[r].revision
        /\ new.content = req[r].content
    OBVIOUS
  <1> HIDE DEF new
  <1>6. PICK v \in Versions, id \in Requests, row \in Publication :
           v = req[r].version /\ id = req[r].row /\ row = new
    BY <1>1, <1>2, <1>3 DEF RowOK
  <1>7. /\ pub' \in [Requests -> Publication \cup {NoRow}]
        /\ latest' \in [Versions -> Ids] /\ DOMAIN written' = Versions
        /\ \A i \in Requests : pub'[i] = IF i = id THEN row ELSE pub[i]
        /\ \A u \in Versions : latest'[u] = IF u = v THEN id ELSE latest[u]
        /\ \A u \in Versions : written'[u] = IF u = v THEN row.content ELSE written[u]
    BY <1>4, <1>5, <1>6, TableFacts DEF Ids
  <1>8. req'[r] # Idle /\ req'[r].pc = "done" /\ req'[r].version = v /\ req'[r].row = id
        /\ req'[r].existing = req[r].existing /\ req'[r].revision = req[r].revision
    BY <1>6 DEF CommitEnds, Goes, SameMemory
  <1>9. Key("latest", v) \in holds[r]
    BY <1>2, <1>6 DEF Latest
  <1>10. CASE id = r
    <2>1. pub[r] = NoRow
      BY RowFacts, MoreDone
    <2>2. Enough(req[r].revision - 1)
      BY <1>2 DEF RevisionOK
    <2>3. Enough(row.revision)'
      BY <1>1, <1>5, <1>6, <1>8, <1>10, <2>2, EnoughForOneMore
    <2> QED BY <1>3, <1>4, <1>5, <1>6, <1>7, <1>9, <1>10, <2>1, <2>3 DEF NewRow
  <1>11. CASE id # r
    <2>1. /\ Key("update", id) \in holds[r] /\ pub[id] # NoRow
          /\ pub[id].version = v /\ pub[id].revision = row.revision
      BY <1>2, <1>5, <1>6, <1>11 DEF RowOK
    <2>2. Done(id) /\ row.revision \in Nat /\ Enough(row.revision)
      BY <2>1, RowFacts
    <2>3. Enough(row.revision)'
      BY <2>2, MoreDone
    <2>4. req[r].existing # id
      BY <1>1, <1>2, <1>5, <1>6, <2>1, PublishingAssumption DEF RevisionOK
    <2>5. Overwritten(v)'
      BY <1>6, <1>8, <1>11, <2>4, PublishingAssumption DEF Overwritten
    <2> QED BY <1>3, <1>4, <1>5, <1>6, <1>7, <1>9, <1>11, <2>1, <2>2, <2>3, <2>5 DEF NewRow
  <1> QED BY <1>10, <1>11

LEMMA PublishCommits ==
  ASSUME IInv, NEW r \in Requests, req[r].pc = "commit", CommitEnds(r),
         NEW v \in Versions, NEW id \in Requests, NEW row \in Publication,
         NewRow(r, v, id, row)
  PROVE  Commits(r)
  <1>1. ~Done(r)
    BY MoreDone
  <1>2. /\ \A i \in Requests : pub'[i] = IF i = id THEN row ELSE pub[i]
        /\ \A u \in Versions : latest'[u] = IF u = v THEN id ELSE latest[u]
        /\ row # NoRow /\ row.version = v /\ Key("latest", v) \in holds[r]
    BY DEF NewRow
  <1>3. \/ id = r /\ pub[id] = NoRow
        \/ /\ id # r /\ pub[id] # NoRow
           /\ pub[id].version = v /\ pub[id].revision = row.revision
           /\ Key("update", id) \in holds[r] /\ Overwritten(v)'
    BY DEF NewRow
  <1>4. \A i \in Requests :
          Done(i) /\ pub'[i] # NoRow =>
             /\ pub[i] # NoRow
             /\ pub'[i].version = pub[i].version /\ pub'[i].revision = pub[i].revision
    BY <1>1, <1>2, <1>3
  <1>5. \A i \in Requests : pub[i] # NoRow => pub'[i] # NoRow
    BY <1>2
  <1>6. ASSUME NEW u \in Versions
        PROVE  /\ latest'[u] = latest[u] \/ Key("latest", u) \in holds[r]
               /\ \/ latest'[u] \in {latest[u], NoRow, r}
                  \/ Key("update", latest'[u]) \in holds[r] /\ Overwritten(u)'
               /\ Rows(u)' \subseteq Rows(u) \/ latest'[u] = r
    <2>1. latest'[u] = latest[u] \/ Key("latest", u) \in holds[r]
      BY <1>2
    <2>2. \/ latest'[u] \in {latest[u], NoRow, r}
          \/ Key("update", latest'[u]) \in holds[r] /\ Overwritten(u)'
      <3>1. CASE u = v
        BY <1>2, <1>3, <3>1
      <3>2. CASE u # v
        BY <1>2, <3>2
      <3> QED BY <3>1, <3>2
    <2>3. Rows(u)' \subseteq Rows(u) \/ latest'[u] = r
      BY <1>2, <1>3 DEF Rows
    <2> QED BY <2>1, <2>2, <2>3
  <1> QED BY <1>4, <1>5, <1>6 DEF Commits

\* The tables are right after a publication.
LEMMA PublishKeepsTables ==
  ASSUME IInv, NEW r \in Requests, req[r].pc = "commit", CommitEnds(r),
         NEW v \in Versions, NEW id \in Requests, NEW row \in Publication,
         NewRow(r, v, id, row)
  PROVE  /\ RowsOK' /\ EveryVersionServed' /\ ServesLastWritten' /\ EveryContentAnnounced'
         /\ pub' \in [Requests -> Publication \cup {NoRow}]
         /\ latest' \in [Versions -> Ids] /\ DOMAIN written' = Versions
  <1>1. /\ \A i \in Requests : pub'[i] = IF i = id THEN row ELSE pub[i]
        /\ \A u \in Versions : latest'[u] = IF u = v THEN id ELSE latest[u]
        /\ \A u \in Versions : written'[u] = IF u = v THEN row.content ELSE written[u]
        /\ row # NoRow /\ row.version = v /\ row.content \in announced' /\ Enough(row.revision)'
        /\ announced \subseteq announced'
    BY DEF NewRow, CommitEnds
  <1>2. \/ id = r /\ pub[id] = NoRow
        \/ id # r /\ pub[id] # NoRow /\ Done(id) /\ pub[id].version = v
    BY DEF NewRow
  <1>3. /\ \A i \in Requests : Done(i)' <=> (Done(i) \/ i = r)
        /\ \A u \in Versions : Overwritten(u) => Overwritten(u)'
        /\ \A n \in Nat : Enough(n) => Enough(n)'
    BY MoreDone
  <1>4. RowsOK'
    <2> SUFFICES ASSUME NEW i \in Requests, pub'[i] # NoRow
                 PROVE  Done(i)' /\ Enough(pub[i].revision)'
      BY DEF RowsOK
    <2>1. CASE i = id
      BY <1>1, <1>2, <1>3, <2>1
    <2>2. CASE i # id
      <3>1. pub'[i] = pub[i] /\ pub[i] # NoRow
        BY <1>1, <2>2
      <3>2. Done(i) /\ Enough(pub[i].revision) /\ pub[i].revision \in Nat
        BY <3>1, RowFacts
      <3>3. Enough(pub[i].revision)'
        BY <1>3, <3>1, <3>2
      <3> QED BY <1>3, <3>2, <3>3
    <2> QED BY <2>1, <2>2
  <1>5. EveryVersionServed'
    <2> SUFFICES ASSUME NEW u \in Versions
                 PROVE  IF Rows(u)' = {} THEN latest'[u] = NoRow
                        ELSE latest'[u] \in Rows(u)'
                             \/ (latest'[u] = NoRow /\ Overwritten(u)')
      BY DEF EveryVersionServed
    <2>1. CASE u = v
      BY <1>1, <2>1 DEF Rows
    <2>2. CASE u # v
      <3>1. Rows(u)' = Rows(u)
        BY <1>1, <1>2, <2>2 DEF Rows
      <3>2. latest'[u] = latest[u]
        BY <1>1, <2>2
      <3> QED BY <1>3, <3>1, <3>2 DEF IInv, EveryVersionServed
    <2> QED BY <2>1, <2>2
  <1>6. ServesLastWritten'
    <2> SUFFICES ASSUME NEW u \in Versions, latest'[u] # NoRow
                 PROVE  pub'[latest'[u]].content = written'[u]
      BY DEF ServesLastWritten
    <2>1. CASE u = v
      BY <1>1, <2>1
    <2>2. CASE u # v
      <3>1. latest'[u] = latest[u] /\ written'[u] = written[u]
        BY <1>1, <2>2
      <3>2. latest[u] \in Rows(u)
        BY <2>2, <3>1 DEF IInv, EveryVersionServed
      <3>3. latest[u] \in Requests /\ latest[u] # id
        BY <1>2, <2>2, <3>2 DEF Rows
      <3>4. pub'[latest[u]] = pub[latest[u]]
        BY <1>1, <3>3
      <3> QED BY <2>2, <3>1, <3>4 DEF IInv, ServesLastWritten
    <2> QED BY <2>1, <2>2
  <1>7. EveryContentAnnounced'
    BY <1>1 DEF IInv, EveryContentAnnounced
  <1> QED BY <1>4, <1>5, <1>6, <1>7 DEF NewRow

\* What is left after r has deleted the rows of v.
RowsGone(r, v) ==
    /\ v = req[r].version /\ Removable(r) \subseteq Rows(v)
    /\ pub' \in [Requests -> Publication \cup {NoRow}]
    /\ latest' \in [Versions -> Ids] /\ written' = written
    /\ \A i \in Requests :
         /\ pub'[i] = IF i \in Removable(r) THEN NoRow ELSE pub[i]
         /\ i \in Removable(r) => Key("delete", i) \in holds[r]
    /\ \A u \in Versions :
         latest'[u] = IF u = v /\ latest[v] \in Removable(r) THEN NoRow ELSE latest[u]
    /\ latest[v] \in Removable(r) =>
         Key("latest", v) \in holds[r] /\ (Overwritten(v) \/ Rows(v) \subseteq Removable(r))

LEMMA DeleteFacts ==
  ASSUME IInv, NEW r \in Requests, req[r] # Idle, req[r].pc = "commit", Deletes(r)
  PROVE  \E v \in Versions : RowsGone(r, v)
  <1>1. DeleteOK(r) /\ req[r].op = "delete"
    BY DEF Deletes
  <1>2. PICK v \in Versions, gone \in SUBSET Requests :
           v = req[r].version /\ gone = Removable(r)
    BY ActiveFacts DEF Removable
  <1>3. /\ pub' = [i \in Requests |-> IF i \in gone THEN NoRow ELSE pub[i]]
        /\ latest' = [latest EXCEPT ![v] = IF latest[v] \in gone THEN NoRow ELSE latest[v]]
        /\ written' = written
    BY <1>2 DEF Deletes
  <1>4. gone \subseteq Rows(v)
    BY <1>1, <1>2 DEF DeleteOK, Removable, Rows
  <1>5. /\ pub' \in [Requests -> Publication \cup {NoRow}] /\ latest' \in [Versions -> Ids]
        /\ \A i \in Requests : pub'[i] = IF i \in gone THEN NoRow ELSE pub[i]
        /\ \A u \in Versions :
             latest'[u] = IF u = v /\ latest[v] \in gone THEN NoRow ELSE latest[u]
    BY <1>2, <1>3, TableFacts DEF Ids
  <1>6. \A i \in gone : Key("delete", i) \in holds[r]
    BY <1>1, <1>2 DEF DeleteOK
  <1>7. ASSUME latest[v] \in gone
        PROVE  Key("latest", v) \in holds[r] /\ (Overwritten(v) \/ Rows(v) \subseteq gone)
    <2>1. Key("latest", v) \in holds[r]
      BY <1>1, <1>2, <1>7 DEF DeleteOK, Latest
    <2>2. Overwritten(v) \/ Rows(v) \subseteq req[r].targets
      BY <1>1, <1>2, <1>7 DEF DeleteOK, Removable
    <2> QED BY <1>2, <2>1, <2>2 DEF Removable, Rows
  <1> QED BY <1>2, <1>3, <1>4, <1>5, <1>6, <1>7 DEF RowsGone

LEMMA DeleteCommits ==
  ASSUME IInv, NEW r \in Requests, NEW v \in Versions, RowsGone(r, v)
  PROVE  Commits(r)
  <1>1. /\ \A i \in Requests : pub'[i] = IF i \in Removable(r) THEN NoRow ELSE pub[i]
        /\ \A i \in Requests : i \in Removable(r) => Key("delete", i) \in holds[r]
        /\ \A u \in Versions :
             latest'[u] = IF u = v /\ latest[v] \in Removable(r) THEN NoRow ELSE latest[u]
        /\ latest[v] \in Removable(r) => Key("latest", v) \in holds[r]
    BY DEF RowsGone
  <1>2. ASSUME NEW i \in Requests, NEW q \in Requests \ {r}, pub[i] # NoRow,
               Key("update", i) \in holds[q] \/ Key("delete", i) \in holds[q]
        PROVE  pub'[i] # NoRow
    BY <1>1, <1>2 DEF IInv, Exclusive
  <1>3. \A u \in Versions : Rows(u)' \subseteq Rows(u)
    BY <1>1 DEF Rows
  <1>4. \A u \in Versions :
          /\ latest'[u] = latest[u] \/ Key("latest", u) \in holds[r]
          /\ latest'[u] \in {latest[u], NoRow, r}
    BY <1>1
  <1>5. \A i \in Requests :
          pub'[i] # NoRow =>
             /\ pub[i] # NoRow
             /\ pub'[i].version = pub[i].version /\ pub'[i].revision = pub[i].revision
    BY <1>1
  <1> QED BY <1>2, <1>3, <1>4, <1>5 DEF Commits

\* The tables are right after a deletion.
LEMMA DeleteKeepsTables ==
  ASSUME IInv, NEW r \in Requests, req[r].pc = "commit", CommitEnds(r),
         NEW v \in Versions, RowsGone(r, v)
  PROVE  /\ RowsOK' /\ EveryVersionServed' /\ ServesLastWritten' /\ EveryContentAnnounced'
         /\ pub' \in [Requests -> Publication \cup {NoRow}]
         /\ latest' \in [Versions -> Ids] /\ DOMAIN written' = Versions
  <1>1. /\ \A i \in Requests : pub'[i] = IF i \in Removable(r) THEN NoRow ELSE pub[i]
        /\ \A u \in Versions :
             latest'[u] = IF u = v /\ latest[v] \in Removable(r) THEN NoRow ELSE latest[u]
        /\ written' = written /\ Removable(r) \subseteq Rows(v)
        /\ latest[v] \in Removable(r) => Overwritten(v) \/ Rows(v) \subseteq Removable(r)
        /\ announced \subseteq announced'
    BY DEF RowsGone, CommitEnds
  <1>2. /\ \A i \in Requests : Done(i) => Done(i)'
        /\ \A u \in Versions : Overwritten(u) => Overwritten(u)'
        /\ \A n \in Nat : Enough(n) => Enough(n)'
    BY MoreDone
  <1>3. \A u \in Versions : Rows(u)' = Rows(u) \ Removable(r)
    BY <1>1 DEF Rows
  <1>4. \A u \in Versions : u # v => Rows(u)' = Rows(u)
    BY <1>1, <1>3 DEF Rows
  <1>5. RowsOK'
    <2> SUFFICES ASSUME NEW i \in Requests, pub'[i] # NoRow
                 PROVE  Done(i)' /\ Enough(pub[i].revision)'
      BY DEF RowsOK
    <2>1. pub'[i] = pub[i] /\ pub[i] # NoRow
      BY <1>1
    <2>2. Done(i) /\ Enough(pub[i].revision) /\ pub[i].revision \in Nat
      BY <2>1, RowFacts
    <2>3. Enough(pub[i].revision)'
      BY <1>2, <2>1, <2>2
    <2> QED BY <1>2, <2>2, <2>3
  <1>6. EveryVersionServed'
    <2> SUFFICES ASSUME NEW u \in Versions
                 PROVE  IF Rows(u)' = {} THEN latest'[u] = NoRow
                        ELSE latest'[u] \in Rows(u)'
                             \/ (latest'[u] = NoRow /\ Overwritten(u)')
      BY DEF EveryVersionServed
    <2>1. IF Rows(u) = {} THEN latest[u] = NoRow
          ELSE latest[u] \in Rows(u) \/ (latest[u] = NoRow /\ Overwritten(u))
      BY DEF IInv, EveryVersionServed
    <2>2. CASE u = v /\ latest[v] \in Removable(r)
      BY <1>1, <1>2, <1>3, <2>2
    <2>3. CASE ~(u = v /\ latest[v] \in Removable(r))
      <3>1. latest'[u] = latest[u]
        BY <1>1, <2>3
      <3>2. latest[u] \in Rows(u) => latest[u] \in Rows(u)'
        BY <1>3, <1>4, <2>3
      <3> QED BY <1>2, <1>3, <2>1, <3>1, <3>2
    <2> QED BY <2>2, <2>3
  <1>7. ServesLastWritten'
    <2> SUFFICES ASSUME NEW u \in Versions, latest'[u] # NoRow
                 PROVE  pub'[latest'[u]].content = written'[u]
      BY DEF ServesLastWritten
    <2>1. latest'[u] = latest[u] /\ ~(u = v /\ latest[v] \in Removable(r))
      BY <1>1
    <2>2. latest[u] \in Rows(u) /\ latest[u] \in Requests
      BY <2>1 DEF IInv, EveryVersionServed, Rows
    <2>3. latest[u] \notin Removable(r)
      BY <1>1, <2>1, <2>2 DEF Rows
    <2>4. pub'[latest[u]] = pub[latest[u]]
      BY <1>1, <2>2, <2>3
    <2> QED BY <1>1, <2>1, <2>4 DEF IInv, ServesLastWritten
  <1>8. EveryContentAnnounced'
    BY <1>1 DEF IInv, EveryContentAnnounced
  <1> QED BY <1>5, <1>6, <1>7, <1>8, TableFacts DEF RowsGone

LEMMA CommitKeepsIInv ==
  ASSUME IInv, NEW r \in Requests, Commit(r)
  PROVE  IInv'
  <1>1. /\ req[r] # Idle /\ req[r].pc = "commit" /\ FoundOK(r) /\ CommitEnds(r)
        /\ Unpublished(r) \/ Publishes(r) \/ Deletes(r)
        /\ versions' \subseteq Versions /\ tagged' \subseteq Versions \X Tags
        /\ hooked' \subseteq Requests \X Requests /\ announced' \subseteq Contents
    BY CommitFacts
  <1> DEFINE tablesOK ==
               /\ RowsOK' /\ EveryVersionServed' /\ ServesLastWritten' /\ EveryContentAnnounced'
               /\ pub' \in [Requests -> Publication \cup {NoRow}]
               /\ latest' \in [Versions -> Ids] /\ DOMAIN written' = Versions
  <1>2. Commits(r) /\ tablesOK
    <2>1. CASE Unpublished(r)
      <3>1. pub' = pub /\ latest' = latest /\ written' = written /\ announced \subseteq announced'
        BY <1>1, <2>1 DEF Unpublished, CommitEnds
      <3>2. /\ \A i \in Requests : Done(i) => Done(i)'
            /\ \A u \in Versions : Overwritten(u) => Overwritten(u)'
            /\ \A n \in Nat : Enough(n) => Enough(n)'
        BY <1>1, MoreDone
      <3>3. \A u \in Versions : Rows(u)' = Rows(u)
        BY <3>1 DEF Rows
      <3>4. Commits(r)
        BY <3>1, <3>3 DEF Commits
      <3>5. RowsOK'
        <4> SUFFICES ASSUME NEW i \in Requests, pub[i] # NoRow
                     PROVE  Done(i)' /\ Enough(pub[i].revision)'
          BY <3>1 DEF RowsOK
        <4>1. Done(i) /\ Enough(pub[i].revision) /\ pub[i].revision \in Nat
          BY RowFacts
        <4> QED BY <3>1, <3>2, <4>1
      <3>6. EveryVersionServed'
        BY <3>1, <3>2, <3>3 DEF IInv, EveryVersionServed
      <3>7. ServesLastWritten' /\ EveryContentAnnounced'
        BY <3>1 DEF IInv, ServesLastWritten, EveryContentAnnounced
      <3> QED BY <3>1, <3>4, <3>5, <3>6, <3>7, TableFacts
    <2>2. CASE Publishes(r)
      BY <1>1, <2>2, PublishFacts, PublishCommits, PublishKeepsTables
    <2>3. CASE Deletes(r)
      BY <1>1, <2>3, DeleteFacts, DeleteCommits, DeleteKeepsTables
    <2> QED BY <1>1, <2>1, <2>2, <2>3
  <1>3. MemoryOK'
    <2>1. ASSUME NEW q \in Requests
          PROVE  /\ req'[q].pc \in Outcomes => holds'[q] = {}
                 /\ req'[q] = Idle => holds'[q] = {} /\ known'[q] = {}
      BY <1>1, IdleFacts DEF CommitEnds, Goes, IInv, MemoryOK
    <2> QED BY <1>1, <1>2, <2>1 DEF CommitEnds, Goes, IInv, MemoryOK
  <1>4. ASSUME NEW q \in Requests PROVE RequestOK(q)'
    <2>1. CASE q = r
      BY <1>1, <2>1 DEF CommitEnds, Goes, RequestOK, Outcomes
    <2>2. CASE q # r
      BY <1>1, <1>2, <2>2, OthersGoOn
    <2> QED BY <2>1, <2>2
  <1>5. Exclusive'
    BY <1>1 DEF CommitEnds, IInv, Exclusive
  <1> QED BY <1>2, <1>3, <1>4, <1>5 DEF IInv

-----------------------------------------------------------------------------
(* Theorems *)

LEMMA IInvNext == IInv /\ [Next]_vars => IInv'
  <1>1. ASSUME IInv, NEW r \in Requests, Begin(r) PROVE IInv'
    BY <1>1, BeginKeepsIInv
  <1>4. ASSUME IInv, NEW r \in Requests, req[r] # Idle, DeadlockVictim(r) PROVE IInv'
    <2>1. "error" \in Outcomes \ {"done"}
      BY DEF Outcomes
    <2> QED BY <1>4, <2>1, WaitersAreOpen, FailKeepsIInv DEF DeadlockVictim
  <1>2. ASSUME IInv, NEW r \in Requests, req[r] # Idle, Step(r) PROVE IInv'
    BY <1>2, <1>4, CheckResourceKeepsIInv, CreateVersionKeepsIInv, InsertTagKeepsIInv, FindPactKeepsIInv,
       ReadExistingKeepsIInv, FindModelKeepsIInv, WritePublicationKeepsIInv,
       WriteLatestKeepsIInv, AnnounceKeepsIInv, UnhookRevisionsKeepsIInv,
       ChooseRevisionsKeepsIInv, RemoveRevisionsKeepsIInv, CascadeKeepsIInv, CommitKeepsIInv
    DEF Step
  <1>3. ASSUME IInv, UNCHANGED vars PROVE IInv'
    <2>1. /\ UNCHANGED <<versions, tagged, pub, latest, hooked, req, holds>>
          /\ UNCHANGED <<announced, written, known>>
      BY <1>3 DEF vars
    <2>2. MemoryOK'
      BY <1>3, <2>1 DEF IInv, MemoryOK
    <2>3. RowsOK' /\ EveryVersionServed'
      BY <1>3, <2>1
      DEF IInv, RowsOK, Done, Enough, Inserted, EveryVersionServed, Rows, Overwritten
    <2>4. Exclusive' /\ ServesLastWritten' /\ EveryContentAnnounced'
      BY <1>3, <2>1 DEF IInv, Exclusive, ServesLastWritten, EveryContentAnnounced
    <2>5. ASSUME NEW r \in Requests PROVE RequestOK(r)'
      <3>1. RequestOK(r)
        BY <1>3 DEF IInv
      <3>2. FoundOK(r)' <=> FoundOK(r)
        BY <2>1 DEF FoundOK, Done
      <3>3. WriteOK(r)' <=> WriteOK(r)
        BY <2>1 DEF WriteOK, Kind, Revision, Latest, RowOK, RevisionOK, Enough, Inserted, Done
      <3>4. DeleteOK(r)' <=> DeleteOK(r)
        BY <2>1 DEF DeleteOK, Kind, Latest, Removable, Rows, Overwritten
      <3> QED BY <2>1, <3>1, <3>2, <3>3, <3>4 DEF RequestOK
    <2> QED BY <2>2, <2>3, <2>4, <2>5 DEF IInv
  <1> QED BY <1>1, <1>2, <1>3 DEF Next

LEMMA IInvHolds == Spec => []IInv
  BY IInvInit, IInvNext, PTL DEF Spec

\* No revision number is larger than the number of requests.
LEMMA RevisionsAreBounded ==
  ASSUME IInv, NEW i \in Requests, pub[i] # NoRow
  PROVE  pub[i].revision \in 1 .. Cardinality(Requests)
  <1> DEFINE n == pub[i].revision
  <1>1. n \in Nat \ {0} /\ n <= Cardinality(Inserted(n))
    BY RowFacts DEF Enough
  <1>2. Inserted(n) \in SUBSET Requests
    BY DEF Inserted
  <1>3. Cardinality(Inserted(n)) <= Cardinality(Requests)
    BY <1>2, PublishingAssumption, FS_Subset
  <1>4. Cardinality(Inserted(n)) \in Nat /\ Cardinality(Requests) \in Nat
    BY <1>2, PublishingAssumption, FS_Subset, FS_CardinalityType
  <1> HIDE DEF n
  <1>5. n \in 1 .. Cardinality(Requests)
    BY <1>1, <1>3, <1>4
  <1> QED BY <1>5 DEF n

LEMMA MemoryIsTyped == IInv => TypeOK
  <1> SUFFICES ASSUME IInv PROVE TypeOK
    OBVIOUS
  <1>1. pub \in [Requests -> [version : Versions, revision : 1 .. Cardinality(Requests),
                              content : Contents] \cup {NoRow}]
    BY TableFacts, RevisionsAreBounded DEF Publication
  <1>2. ASSUME NEW r \in Requests, req[r] # Idle
        PROVE  /\ req[r].pc \in Steps \cup Outcomes
               /\ req[r].content \in Contents
               /\ {req[r].found, req[r].existing, req[r].row} \subseteq Requests \cup {NoRow}
               /\ Ended(r) => holds[r] = {}
    BY <1>2, ActiveFacts DEF ActiveReq, Ids, Ended, IInv, MemoryOK
  <1> QED BY <1>1, <1>2 DEF TypeOK, IInv, MemoryOK, Ids

\* The tables, the requests and the locks are always what they can be, and a revision
\* number never exceeds the number of requests.
THEOREM TypeCorrect == Spec => []TypeOK
  BY IInvHolds, MemoryIsTyped, PTL

\* Whatever requests publish, merge, overwrite and delete, a version with publications has
\* one of them as its current pact, unless one of them was written over.
THEOREM VersionsAreServed == Spec => []EveryVersionServed
  <1>1. IInv => EveryVersionServed
    BY DEF IInv
  <1> QED BY <1>1, IInvHolds, PTL

\* The current pact of a version is the publication that was committed last.
THEOREM LastWrittenIsServed == Spec => []ServesLastWritten
  <1>1. IInv => ServesLastWritten
    BY DEF IInv
  <1> QED BY <1>1, IInvHolds, PTL

\* Each content in the tables was announced by an event.
THEOREM ContentsAreAnnounced == Spec => []EveryContentAnnounced
  <1>1. IInv => EveryContentAnnounced
    BY DEF IInv
  <1> QED BY <1>1, IInvHolds, PTL

\* A commit leaves the revisions that the request found when it read the newest one.
KnownRevisionsStay ==
    \A i, r \in Requests :
        (Commit(r) /\ i \in known[r] /\ pub[i] # NoRow /\ pub'[i] # NoRow)
            => pub'[i] = pub[i]

LEMMA CommitsKeepKnown == IInv => KnownRevisionsStay
  <1> SUFFICES ASSUME IInv, NEW i \in Requests, NEW r \in Requests, Commit(r),
                      i \in known[r], pub[i] # NoRow, pub'[i] # NoRow
               PROVE  pub'[i] = pub[i]
    BY DEF KnownRevisionsStay
  <1>1. /\ req[r] # Idle /\ req[r].pc = "commit" /\ CommitEnds(r)
        /\ Unpublished(r) \/ Publishes(r) \/ Deletes(r)
    BY CommitFacts
  <1>2. CASE Unpublished(r)
    BY <1>2 DEF Unpublished
  <1>3. CASE Publishes(r)
    <2>1. PICK v \in Versions, id \in Requests, row \in Publication : NewRow(r, v, id, row)
      BY <1>1, <1>3, PublishFacts
    <2>2. pub[i].revision < row.revision
      BY <1>3, <2>1 DEF Publishes, RevisionOK, NewRow
    <2>3. pub[i].revision \in Nat /\ row.revision \in Nat
      BY RowFacts DEF Publication
    <2>4. i # id
      BY <2>1, <2>2, <2>3 DEF NewRow
    <2> QED BY <2>1, <2>4 DEF NewRow
  <1>4. CASE Deletes(r)
    BY <1>4 DEF Deletes
  <1> QED BY <1>1, <1>2, <1>3, <1>4

\* A request never overwrites a revision that was there when it read the newest one.
THEOREM RevisionsAreKept == Spec => CommittedRevisionsAreKept
  <1>1. IInv => [KnownRevisionsStay]_vars
    BY CommitsKeepKnown
  <1>2. Spec => [][KnownRevisionsStay]_vars
    BY <1>1, IInvHolds, PTL DEF Spec
  <1> QED BY <1>2 DEF CommittedRevisionsAreKept, KnownRevisionsStay

-----------------------------------------------------------------------------
(* Only tags close a circle of waits *)

\* Nothing is held before a request writes, nor the latest row before its turn, and
\* one that has written no publication holds no more than its version.
HoldsOK(r) ==
    /\ req[r].pc \in {"idle", "arrived", "version", "unhook"} => holds[r] = {}
    /\ req[r].pc = "latest" => Latest(r) \notin holds[r]
    /\ req[r].pc = "announce" /\ Revision(r) \notin holds[r] => Kind(r, {"version", "tag"})
WInv == IInv /\ \A r \in Requests : HoldsOK(r)

\* Nobody waits for one of a higher rank, and only those that insert tags for one
\* of the same.
Rank(r) ==
    CASE req[r].pc \in {"version", "unhook"} -> 5
      [] req[r].pc = "tag" -> 4
      [] req[r].pc \in {"insert", "remove"} -> 3
      [] req[r].pc = "announce" /\ Revision(r) \notin holds[r] -> 2
      [] req[r].pc \in {"latest", "cascade"} -> 1
      [] OTHER -> 0

LEMMA HoldersAreActive ==
  ASSUME WInv, NEW q \in Requests, holds[q] # {}
  PROVE  /\ req[q] # Idle /\ req[q].pc \notin Outcomes
         /\ req[q].pc \in Steps \ {"arrived", "version", "unhook"}
         /\ RequestOK(q) /\ HoldsOK(q)
  <1>1. req[q] # Idle /\ req[q].pc \notin Outcomes /\ RequestOK(q) /\ HoldsOK(q)
    BY DEF WInv, IInv, MemoryOK
  <1>2. req[q].pc \in Steps
    BY <1>1, ActiveFacts DEF WInv, ActiveReq
  <1> QED BY <1>1, <1>2 DEF HoldsOK

\* What is held for a publication is held until the latest row is written.
LEMMA WritersAreLate ==
  ASSUME WInv, NEW q \in Requests, NEW k \in holds[q], k[1] \in {"revision", "update", "share"}
  PROVE  \/ req[q].pc \in {"latest", "commit"}
         \/ req[q].pc = "announce" /\ Revision(q) \in holds[q]
  <1>1. /\ req[q] # Idle /\ req[q].pc \notin Outcomes
        /\ req[q].pc \in Steps \ {"arrived", "version", "unhook"}
        /\ RequestOK(q) /\ HoldsOK(q)
    BY HoldersAreActive
  <1>2. req[q].op # "delete" /\ WriteOK(q)
    BY <1>1 DEF RequestOK, DeleteOK, Kind
  <1> QED BY <1>1, <1>2 DEF WriteOK, WriteSteps, ReadSteps, Kind, HoldsOK

\* Deleted rows are held until the cascade.
LEMMA RemoversAreLate ==
  ASSUME WInv, NEW q \in Requests, NEW k \in holds[q], k[1] = "delete"
  PROVE  req[q].op = "delete" /\ DeleteOK(q) /\ req[q].pc \in {"cascade", "commit"}
  <1>1. /\ req[q] # Idle /\ req[q].pc \notin Outcomes /\ RequestOK(q)
    BY HoldersAreActive
  <1>2. req[q].op = "delete" /\ DeleteOK(q)
    BY <1>1 DEF RequestOK, WriteOK, Kind
  <1> QED BY <1>2 DEF DeleteOK, Kind

\* Who holds a latest row waits for nothing any more.
LEMMA LatestIsLast ==
  ASSUME WInv, NEW q \in Requests, NEW v \in Versions, Key("latest", v) \in holds[q]
  PROVE  \/ req[q].pc = "commit"
         \/ req[q].pc = "announce" /\ Revision(q) \in holds[q]
  <1>1. /\ req[q] # Idle /\ req[q].pc \notin Outcomes
        /\ req[q].pc \in Steps \ {"arrived", "version", "unhook"}
        /\ RequestOK(q) /\ HoldsOK(q)
    BY HoldersAreActive
  <1>2. Key("latest", v)[1] = "latest"
    BY DEF Key
  <1>3. ASSUME req[q].op # "delete"
        PROVE  \/ req[q].pc = "commit"
               \/ req[q].pc = "announce" /\ Revision(q) \in holds[q]
    <2>1. WriteOK(q) /\ v = req[q].version
      BY <1>1, <1>3 DEF RequestOK, WriteOK
    <2> QED BY <1>1, <1>2, <2>1 DEF WriteOK, WriteSteps, ReadSteps, Kind, HoldsOK, Latest
  <1>4. ASSUME req[q].op = "delete" PROVE req[q].pc = "commit"
    BY <1>1, <1>2, <1>4 DEF RequestOK, DeleteOK, RemoveSteps, Kind
  <1> QED BY <1>3, <1>4

\* Nobody removes the row that a request has written.
LEMMA WrittenRowStays ==
  ASSUME WInv, NEW r \in Requests, req[r].pc = "announce", Revision(r) \in holds[r],
         NEW q \in Requests \ {r}
  PROVE  Key("delete", req[r].row) \notin holds[q]
  <1> SUFFICES ASSUME Key("delete", req[r].row) \in holds[q] PROVE FALSE
    OBVIOUS
  <1>1. /\ req[r] # Idle /\ req[r].pc \notin Outcomes /\ RequestOK(r)
    BY HoldersAreActive
  <1>2. RowOK(r)
    BY <1>1 DEF RequestOK, WriteOK, DeleteOK, RemoveSteps
  <1>3. req[r].row = r
    BY <1>2 DEF RowOK, WInv, IInv, Exclusive
  <1>4. Key("delete", r)[1] = "delete"
    BY DEF Key
  <1>5. DeleteOK(q)
    BY <1>3, <1>4, RemoversAreLate
  <1>6. pub[r] # NoRow
    BY <1>3, <1>5 DEF DeleteOK, Removable
  <1> QED BY <1>1, <1>6 DEF WInv, IInv, RowsOK, Done, Outcomes

LEMMA RankFacts ==
  ASSUME NEW r \in Requests
  PROVE  /\ Rank(r) \in 0 .. 5
         /\ req[r].pc \in {"version", "unhook"} => Rank(r) = 5
         /\ req[r].pc = "tag" => Rank(r) = 4
         /\ req[r].pc \in {"insert", "remove"} => Rank(r) = 3
         /\ req[r].pc = "announce" /\ Revision(r) \notin holds[r] => Rank(r) = 2
         /\ req[r].pc = "announce" /\ Revision(r) \in holds[r] => Rank(r) = 0
         /\ req[r].pc \in {"latest", "cascade"} => Rank(r) = 1
         /\ req[r].pc = "commit" => Rank(r) = 0
         /\ req[r].pc \notin {"version", "unhook"} => Rank(r) <= 4
  BY DEF Rank

LEMMA WaitsGoDown ==
  ASSUME WInv, NEW r \in Requests, NEW q \in Waits(r)
  PROVE  Rank(q) <= Rank(r) /\ (req[r].pc # "tag" => Rank(q) < Rank(r))
  <1>1. PICK k \in Needs(r) : k \in holds[q] /\ q \in Requests \ {r}
    BY DEF Waits
  <1>2. /\ req[q].pc \notin {"version", "unhook"} /\ Rank(q) \in 0 .. 4
    BY <1>1, HoldersAreActive, RankFacts
  <1>3. CASE req[r].pc \in {"version", "unhook"}
    BY <1>2, <1>3, RankFacts
  <1>4. CASE req[r].pc \in {"insert", "remove"}
    <2>1. k[1] \in {"revision", "update", "share", "delete"}
      <3>1. CASE req[r].pc = "insert"
        BY <1>1, <3>1, NeedFacts DEF Key, Revision
      <3>2. CASE req[r].pc = "remove"
        BY <1>1, <3>2, NeedFacts DEF Key
      <3> QED BY <1>4, <3>1, <3>2
    <2>2. Rank(q) <= 1
      BY <1>1, <2>1, WritersAreLate, RemoversAreLate, RankFacts
    <2> QED BY <1>2, <1>4, <2>2, RankFacts
  <1>5. CASE req[r].pc = "announce"
    <2>1. k = Key("delete", req[r].row) /\ k[1] = "delete"
      BY <1>1, <1>5, NeedFacts DEF Key
    <2>2. Revision(r) \notin holds[r]
      BY <1>1, <1>5, <2>1, WrittenRowStays
    <2>3. Rank(q) <= 1
      BY <1>1, <2>1, RemoversAreLate, RankFacts
    <2> QED BY <1>2, <1>5, <2>2, <2>3, RankFacts
  <1>6. CASE req[r].pc \in {"latest", "cascade"}
    <2>1. k = Key("latest", req[r].version)
      BY <1>1, <1>6, NeedFacts DEF Latest
    <2>2. req[r].version \in Versions
      BY <1>6, IdleFacts, ActiveFacts DEF WInv
    <2>3. Rank(q) = 0
      BY <1>1, <2>1, <2>2, LatestIsLast, RankFacts
    <2> QED BY <1>6, <2>3, RankFacts
  <1>7. CASE req[r].pc = "tag"
    BY <1>2, <1>7, RankFacts
  <1> QED BY <1>1, <1>3, <1>4, <1>5, <1>6, <1>7, NeedFacts

\* Who is on a circle of waits inserts tags: from anywhere else they lead down.
LEMMA CirclesAreOfTags ==
  ASSUME WInv, NEW r \in Requests, OnCycle(r)
  PROVE  req[r].pc = "tag"
  <1> SUFFICES ASSUME req[r].pc # "tag" PROVE FALSE
    OBVIOUS
  <1> DEFINE S == {q \in Requests : Rank(q) < Rank(r)}
  <1>1. Waits(r) \subseteq S
    BY WaitsGoDown DEF Waits
  <1>2. ASSUME NEW q \in S PROVE Waits(q) \subseteq S
    <2>1. ASSUME NEW p \in Waits(q) PROVE p \in S
      <3>1. p \in Requests /\ Rank(p) <= Rank(q)
        BY <2>1, WaitsGoDown DEF Waits
      <3>2. Rank(p) \in 0 .. 5 /\ Rank(q) \in 0 .. 5 /\ Rank(r) \in 0 .. 5
        BY <3>1, RankFacts
      <3> QED BY <3>1, <3>2
    <2> QED BY <2>1
  <1>3. r \notin S
    BY RankFacts
  <1> HIDE DEF S
  <1>4. S \in SUBSET Requests
    BY DEF S
  <1> QED BY <1>1, <1>2, <1>3, <1>4 DEF OnCycle

\* A step of r leaves the others as they are.
Alone(r) == \A q \in Requests \ {r} : req'[q] = req[q] /\ holds'[q] = holds[q]

LEMMA AloneKeeps ==
  ASSUME NEW r \in Requests, \A q \in Requests : HoldsOK(q), Alone(r), HoldsOK(r)'
  PROVE  \A q \in Requests : HoldsOK(q)'
  <1>1. ASSUME NEW q \in Requests \ {r} PROVE HoldsOK(q)'
    <2>1. HoldsOK(q) /\ req'[q] = req[q] /\ holds'[q] = holds[q]
      BY DEF Alone
    <2> QED BY <2>1 DEF HoldsOK, Kind, Latest, Revision
  <1> QED BY <1>1

\* Most steps lead to where nothing is asked of the locks.
Elsewhere == (Steps \cup Outcomes) \ {"arrived", "version", "unhook", "latest", "announce"}
LEMMA GoesElsewhere ==
  ASSUME NEW r \in Requests, req'[r].pc \in Elsewhere
  PROVE  HoldsOK(r)'
  BY DEF HoldsOK, Elsewhere, Steps, Outcomes

LEMMA FailsElsewhere ==
  ASSUME IInv, NEW r \in Requests, req[r] # Idle, NEW outcome \in Outcomes, Fail(r, outcome)
  PROVE  Alone(r) /\ HoldsOK(r)'
  <1>1. Goes(r, outcome)
    BY GoFacts DEF Fail
  <1>2. Alone(r)
    BY <1>1, TableFacts DEF Fail, Alone, Goes
  <1>3. req'[r].pc \in Elsewhere
    BY <1>1 DEF Goes, Elsewhere, Outcomes
  <1> QED BY <1>2, <1>3, GoesElsewhere

LEMMA LocksElsewhere ==
  ASSUME IInv, NEW r \in Requests, req[r] # Idle, NEW step \in Elsewhere, Go(r, step),
         UNCHANGED holds \/ \E K : Lock(r, K) \/ holds' = [holds EXCEPT ![r] = {}]
  PROVE  Alone(r) /\ HoldsOK(r)'
  <1>1. Goes(r, step)
    BY GoFacts DEF Elsewhere
  <1>2. Alone(r)
    BY <1>1, TableFacts DEF Lock, Alone, Goes
  <1> QED BY <1>1, <1>2, GoesElsewhere DEF Goes

LEMMA BeginHolds ==
  ASSUME WInv, NEW r \in Requests, Begin(r)
  PROVE  Alone(r) /\ HoldsOK(r)'
  <1>1. /\ req[r] = Idle /\ UNCHANGED holds /\ holds[r] = {}
        /\ req \in [Requests -> {Idle} \cup ActiveReq]
    BY DEF Begin, WInv, IInv, MemoryOK
  <1>2. PICK new : /\ req' = [req EXCEPT ![r] = new]
                   /\ new.pc \in {"version", "arrived"}
    <2>1. ASSUME NEW w \in Workload,
             req' = [req EXCEPT ![r] =
            [pc |-> IF w.op \in {"publish", "merge"} THEN "version" ELSE "arrived",
             op |-> w.op, version |-> w.version, tags |-> w.tags, body |-> w.body, inserted |-> 0,
             found |-> NoRow, existing |-> NoRow, base |-> NoRow, row |-> NoRow,
             content |-> w.body, revision |-> 1, changed |-> FALSE, targets |-> {}]]
          PROVE \E new : req' = [req EXCEPT ![r] = new] /\ new.pc \in {"version", "arrived"}
      <3> DEFINE new == [pc |-> IF w.op \in {"publish", "merge"} THEN "version" ELSE "arrived",
             op |-> w.op, version |-> w.version, tags |-> w.tags, body |-> w.body, inserted |-> 0,
             found |-> NoRow, existing |-> NoRow, base |-> NoRow, row |-> NoRow,
             content |-> w.body, revision |-> 1, changed |-> FALSE, targets |-> {}]
      <3>1. new.pc \in {"version", "arrived"}
        OBVIOUS
      <3>2. req' = [req EXCEPT ![r] = new]
        BY <2>1
      <3> HIDE DEF new
      <3> QED BY <3>1, <3>2
    <2> QED BY <2>1 DEF Begin
  <1>3. req'[r] = new /\ \A q \in Requests \ {r} : req'[q] = req[q]
    BY <1>1, <1>2
  <1>4. Alone(r)
    BY <1>1, <1>3 DEF Alone
  <1>5. req'[r].pc \in {"version", "arrived"} /\ holds'[r] = {}
    BY <1>1, <1>2, <1>3
  <1> QED BY <1>4, <1>5 DEF HoldsOK

LEMMA CheckResourceHolds ==
  ASSUME WInv, NEW r \in Requests, req[r] # Idle, CheckResource(r)
  PROVE  Alone(r) /\ HoldsOK(r)'
  <1>1. /\ IInv /\ req[r].pc = "arrived" /\ holds[r] = {} /\ req[r] \in ActiveReq
        /\ req \in [Requests -> {Idle} \cup ActiveReq]
    BY ActiveFacts DEF WInv, HoldsOK, CheckResource
  <1>2. CASE \E outcome \in Outcomes : Fail(r, outcome)
    BY <1>1, <1>2, FailsElsewhere
  <1>3. CASE /\ UNCHANGED holds
             /\ req'[r].pc \in {"unhook", "version"} /\ \A q \in Requests \ {r} : req'[q] = req[q]
    <2>1. Alone(r)
      BY <1>3 DEF Alone
    <2> QED BY <1>1, <1>3, <2>1 DEF HoldsOK
  <1>4. ASSUME Go(r, "unhook")
        PROVE  req'[r].pc = "unhook" /\ \A q \in Requests \ {r} : req'[q] = req[q]
    BY <1>1, <1>4, GoFacts DEF Goes, Steps
  <1>5. ASSUME NEW id, req' = [req EXCEPT ![r] = [@ EXCEPT !.pc = "version", !.found = id]]
        PROVE  req'[r].pc = "version" /\ \A q \in Requests \ {r} : req'[q] = req[q]
    BY <1>1, <1>5 DEF ActiveReq
  <1> QED BY <1>2, <1>3, <1>4, <1>5 DEF CheckResource, Outcomes

LEMMA CreateVersionHolds ==
  ASSUME WInv, NEW r \in Requests, req[r] # Idle, CreateVersion(r)
  PROVE  Alone(r) /\ HoldsOK(r)'
  <1>1. /\ \E K : Lock(r, K)
        /\ \E step \in {"tag", "find", "existing"} : Go(r, step)
    BY DEF CreateVersion
  <1> QED BY <1>1, LocksElsewhere DEF WInv, Elsewhere, Steps

LEMMA InsertTagHolds ==
  ASSUME WInv, NEW r \in Requests, req[r] # Idle, InsertTag(r)
  PROVE  Alone(r) /\ HoldsOK(r)'
  <1>1. PICK step \in {"tag", "find"}, K \in {{}, Needs(r)} : Goes(r, step) /\ Locks(r, K)
    BY InsertTagFacts DEF WInv
  <1>2. Alone(r)
    BY <1>1 DEF Alone, Goes, Locks
  <1> QED BY <1>1, <1>2, GoesElsewhere DEF Goes, Elsewhere, Steps

LEMMA VictimHolds ==
  ASSUME WInv, NEW r \in Requests, req[r] # Idle, DeadlockVictim(r)
  PROVE  Alone(r) /\ HoldsOK(r)'
  BY FailsElsewhere DEF DeadlockVictim, WInv, Outcomes

LEMMA FindPactHolds ==
  ASSUME WInv, NEW r \in Requests, req[r] # Idle, FindPact(r)
  PROVE  Alone(r) /\ HoldsOK(r)'
  <1>1. req[r] \in ActiveReq /\ req \in [Requests -> {Idle} \cup ActiveReq]
    BY ActiveFacts DEF WInv
  <1>2. req'[r].pc = "existing" /\ \A q \in Requests \ {r} : req'[q] = req[q]
    BY <1>1 DEF FindPact, ActiveReq
  <1>3. Alone(r)
    BY <1>2 DEF FindPact, Alone
  <1> QED BY <1>2, <1>3, GoesElsewhere DEF Elsewhere, Steps

LEMMA ReadExistingHolds ==
  ASSUME WInv, NEW r \in Requests, req[r] # Idle, ReadExisting(r)
  PROVE  Alone(r) /\ HoldsOK(r)'
  <1>1. IInv /\ req[r] \in ActiveReq /\ req \in [Requests -> {Idle} \cup ActiveReq]
    BY ActiveFacts DEF WInv
  <1>2. CASE Fail(r, "error")
    BY <1>1, <1>2, FailsElsewhere DEF Outcomes
  <1>3. CASE Go(r, "insert") /\ UNCHANGED holds
    BY <1>1, <1>3, LocksElsewhere DEF Elsewhere, Steps
  <1>4. CASE /\ UNCHANGED holds /\ req'[r].pc = "model"
             /\ \A q \in Requests \ {r} : req'[q] = req[q]
    BY <1>4, GoesElsewhere DEF Elsewhere, Steps, Alone
  <1>5. ASSUME NEW id, NEW base, NEW content,
               req' = [req EXCEPT ![r] = [@ EXCEPT !.pc = "model", !.existing = id,
                                                   !.base = base, !.content = content]]
        PROVE  req'[r].pc = "model" /\ \A q \in Requests \ {r} : req'[q] = req[q]
    BY <1>1, <1>5 DEF ActiveReq
  <1> DEFINE id == latest[req[r].version]
  <1>6. CASE Merges(req[r]) /\ id = NoRow
    <2>1. Fail(r, "error")
      BY <1>6 DEF ReadExisting
    <2> QED BY <1>2, <2>1
  <1>7. CASE ~Merges(req[r]) /\ id = NoRow
    <2>1. Go(r, "insert") /\ UNCHANGED holds
      BY <1>7 DEF ReadExisting
    <2> QED BY <1>3, <2>1
  <1>8. CASE id # NoRow
    <2> DEFINE content == IF Merges(req[r]) THEN MergePacts(pub[id].content, req[r].body)
                                            ELSE req[r].body
    <2>1. /\ UNCHANGED holds
          /\ req' = [req EXCEPT ![r] = [@ EXCEPT !.pc = "model", !.existing = id,
                                                 !.base = pub[id].content, !.content = content]]
      BY <1>8 DEF ReadExisting
    <2>2. req'[r].pc = "model" /\ \A q \in Requests \ {r} : req'[q] = req[q]
      BY <1>5, <2>1
    <2> QED BY <1>4, <2>1, <2>2
  <1> QED BY <1>6, <1>7, <1>8

\* A request that writes nothing more still holds its version and tags only.
LEMMA FindModelHolds ==
  ASSUME WInv, NEW r \in Requests, req[r] # Idle, FindModel(r)
  PROVE  Alone(r) /\ HoldsOK(r)'
  <1>1. /\ IInv /\ req[r] \in ActiveReq /\ req \in [Requests -> {Idle} \cup ActiveReq]
        /\ req[r].pc = "model"
    BY ActiveFacts DEF WInv, FindModel
  <1>2. Kind(r, {"version", "tag"})
    BY <1>1, IsWriter DEF WriteOK, WriteSteps, ReadSteps
  <1>3. CASE Fail(r, "error")
    BY <1>1, <1>3, FailsElsewhere DEF Outcomes
  <1>4. CASE /\ UNCHANGED holds /\ req'[r].pc \in {"announce", "insert"}
             /\ \A q \in Requests \ {r} : req'[q] = req[q]
    <2>1. Alone(r)
      BY <1>4 DEF Alone
    <2> QED BY <1>2, <1>4, <2>1 DEF HoldsOK, Kind
  <1>5. ASSUME NEW row, req' = [req EXCEPT ![r] = [@ EXCEPT !.pc = "announce", !.row = row]]
        PROVE  req'[r].pc = "announce" /\ \A q \in Requests \ {r} : req'[q] = req[q]
    BY <1>1, <1>5 DEF ActiveReq
  <1>6. ASSUME NEW n, req' = [req EXCEPT ![r] = [@ EXCEPT !.pc = "insert", !.revision = n]]
        PROVE  req'[r].pc = "insert" /\ \A q \in Requests \ {r} : req'[q] = req[q]
    BY <1>1, <1>6 DEF ActiveReq
  <1> QED BY <1>3, <1>4, <1>5, <1>6 DEF FindModel

\* The latest row is not among what is locked for a publication.
LEMMA WritePublicationHolds ==
  ASSUME WInv, NEW r \in Requests, req[r] # Idle, WritePublication(r)
  PROVE  Alone(r) /\ HoldsOK(r)'
  <1>1. /\ IInv /\ req[r] \in ActiveReq /\ req \in [Requests -> {Idle} \cup ActiveReq]
        /\ req[r].pc = "insert"
    BY ActiveFacts DEF WInv, WritePublication
  <1>2. Kind(r, {"version", "tag"})
    BY <1>1, IsWriter DEF WriteOK, WriteSteps, ReadSteps
  <1>3. PICK K : Lock(r, K) /\ \A k \in K : k[1] \in {"revision", "update"}
    BY DEF WritePublication, Key
  <1>4. Locks(r, K)
    BY <1>1, <1>3, LockFacts
  <1>5. ASSUME NEW row, req' = [req EXCEPT ![r] = [@ EXCEPT !.pc = "latest", !.row = row]]
        PROVE  req'[r].pc = "latest" /\ \A q \in Requests \ {r} : req'[q] = req[q]
    BY <1>1, <1>5 DEF ActiveReq
  <1>6. req'[r].pc = "latest" /\ \A q \in Requests \ {r} : req'[q] = req[q]
    BY <1>5 DEF WritePublication
  <1>7. \A k \in holds'[r] : k[1] \in {"version", "tag", "revision", "update"}
    BY <1>2, <1>3, <1>4 DEF Locks, Kind
  <1>8. Latest(r)' \notin holds'[r]
    BY <1>7 DEF Latest, Key
  <1>9. Alone(r)
    BY <1>4, <1>6 DEF Alone, Locks
  <1> QED BY <1>6, <1>8, <1>9 DEF HoldsOK

LEMMA WriteLatestHolds ==
  ASSUME WInv, NEW r \in Requests, req[r] # Idle, WriteLatest(r)
  PROVE  Alone(r) /\ HoldsOK(r)'
  <1>1. IInv /\ req[r].pc = "latest" /\ Go(r, "announce") /\ Lock(r, {Latest(r)})
    BY NeedFacts DEF WInv, WriteLatest
  <1>2. Goes(r, "announce") /\ SameMemory(r) /\ Locks(r, {Latest(r)})
    BY <1>1, GoFacts, LockFacts DEF Steps
  <1>3. Revision(r) \in holds[r]
    BY <1>1, IsWriter DEF WriteOK, WriteSteps
  <1>4. Revision(r)' \in holds'[r]
    BY <1>2, <1>3 DEF Revision, Goes, SameMemory, Locks
  <1>5. Alone(r)
    BY <1>2 DEF Alone, Goes, Locks
  <1> QED BY <1>2, <1>4, <1>5 DEF HoldsOK, Goes

LEMMA AnnounceHolds ==
  ASSUME WInv, NEW r \in Requests, req[r] # Idle, Announce(r)
  PROVE  Alone(r) /\ HoldsOK(r)'
  <1>1. IInv /\ req[r] \in ActiveReq /\ req \in [Requests -> {Idle} \cup ActiveReq]
    BY ActiveFacts DEF WInv
  <1>2. CASE Fail(r, "error")
    BY <1>1, <1>2, FailsElsewhere DEF Outcomes
  <1>3. ASSUME NEW c, req' = [req EXCEPT ![r] = [@ EXCEPT !.pc = "commit", !.changed = c]]
        PROVE  req'[r].pc = "commit" /\ \A q \in Requests \ {r} : req'[q] = req[q]
    BY <1>1, <1>3 DEF ActiveReq
  <1>4. CASE /\ UNCHANGED holds \/ \E K : Lock(r, K)
             /\ req'[r].pc = "commit" /\ \A q \in Requests \ {r} : req'[q] = req[q]
    <2>1. \A q \in Requests \ {r} : holds'[q] = holds[q]
      BY <1>1, <1>4, TableFacts DEF Lock
    <2>2. Alone(r)
      BY <1>4, <2>1 DEF Alone
    <2> QED BY <1>4, <2>2, GoesElsewhere DEF Elsewhere, Steps
  <1> QED BY <1>2, <1>3, <1>4 DEF Announce

LEMMA DeletionHolds ==
  ASSUME WInv, NEW r \in Requests, req[r] # Idle,
         \/ UnhookRevisions(r) \/ ChooseRevisions(r) \/ RemoveRevisions(r)
         \/ Cascade(r) \/ Commit(r)
  PROVE  Alone(r) /\ HoldsOK(r)'
  <1>1. IInv /\ req[r] \in ActiveReq /\ req \in [Requests -> {Idle} \cup ActiveReq]
    BY ActiveFacts DEF WInv
  <1>2. CASE UnhookRevisions(r)
    BY <1>1, <1>2, LocksElsewhere DEF UnhookRevisions, Elsewhere, Steps
  <1>3. CASE ChooseRevisions(r)
    <2>1. req' = [req EXCEPT ![r] = [@ EXCEPT !.pc = "remove", !.targets = Rows(req[r].version)]]
          /\ UNCHANGED holds
      BY <1>3 DEF ChooseRevisions, Choosing
    <2>2. req'[r].pc = "remove" /\ \A q \in Requests \ {r} : req'[q] = req[q]
      BY <1>1, <2>1 DEF ActiveReq
    <2> QED BY <2>1, <2>2, GoesElsewhere DEF Elsewhere, Steps, Alone
  <1>4. CASE RemoveRevisions(r)
    <2>1. \/ Fail(r, "error")
          \/ (\E K : Lock(r, K)) /\ Go(r, "cascade")
      BY <1>4 DEF RemoveRevisions
    <2> QED BY <1>1, <2>1, LocksElsewhere, FailsElsewhere DEF Elsewhere, Steps, Outcomes
  <1>5. CASE Cascade(r)
    BY <1>1, <1>5, LocksElsewhere DEF Cascade, Elsewhere, Steps
  <1>6. CASE Commit(r)
    BY <1>1, <1>6, LocksElsewhere DEF Commit, Elsewhere, Outcomes
  <1> QED BY <1>2, <1>3, <1>4, <1>5, <1>6

LEMMA WInvHolds == Spec => []WInv
  <1>1. Init => WInv
    <2> SUFFICES ASSUME Init PROVE WInv
      OBVIOUS
    <2>1. \A r \in Requests : HoldsOK(r)
      BY IdleFacts DEF Init, HoldsOK
    <2> QED BY <2>1, IInvInit DEF WInv
  <1>2. WInv /\ [Next]_vars => WInv'
    <2> SUFFICES ASSUME WInv, [Next]_vars PROVE WInv'
      OBVIOUS
    <2>1. IInv'
      BY IInvNext DEF WInv
    <2>2. ASSUME NEW r \in Requests, Alone(r) /\ HoldsOK(r)'
          PROVE  \A q \in Requests : HoldsOK(q)'
      BY <2>2, AloneKeeps DEF WInv
    <2>3. CASE \E r \in Requests : Begin(r)
      BY <2>1, <2>2, <2>3, BeginHolds DEF WInv
    <2>4. CASE \E r \in Requests : req[r] # Idle /\ Step(r)
      <3>1. PICK r \in Requests : req[r] # Idle /\ Step(r)
        BY <2>4
      <3>2. Alone(r) /\ HoldsOK(r)'
        BY <3>1, CheckResourceHolds, CreateVersionHolds, InsertTagHolds, VictimHolds,
           FindPactHolds, ReadExistingHolds,
           FindModelHolds, WritePublicationHolds, WriteLatestHolds, AnnounceHolds, DeletionHolds
        DEF Step
      <3> QED BY <2>1, <2>2, <3>2 DEF WInv
    <2>5. CASE UNCHANGED vars
      <3>1. req' = req /\ holds' = holds
        BY <2>5 DEF vars
      <3>2. \A q \in Requests : HoldsOK(q)'
        BY <3>1 DEF WInv, HoldsOK, Kind, Latest, Revision
      <3> QED BY <2>1, <3>2 DEF WInv
    <2> QED BY <2>3, <2>4, <2>5 DEF Next
  <1> QED BY <1>1, <1>2, IInvHolds, PTL DEF Spec

\* A request holds the keys of tags that it has inserted, and has more to insert while
\* it is about it.
TagsOK(r) ==
    /\ req[r].pc \in {"arrived", "version"} => req[r].inserted = 0
    /\ req[r].pc = "tag" => req[r].inserted < Len(req[r].tags)
    /\ \A k \in holds[r] : k[1] = "tag" =>
         \E i \in 1 .. Len(req[r].tags) :
            i <= req[r].inserted /\ k = Key("tag", <<req[r].version, req[r].tags[i]>>)
\* No two hold the key of the same tag.
TagsApart ==
    \A r, q \in Requests : r # q => \A k \in holds[r] \cap holds[q] : k[1] # "tag"
TInv == TagsApart /\ \A r \in Requests : TagsOK(r)

\* What all steps but the insert of a tag do about tags.
SameTags(r) ==
    /\ req'[r].tags = req[r].tags /\ req'[r].version = req[r].version
    /\ req'[r].inserted = req[r].inserted
    /\ req'[r].pc \notin {"arrived", "version", "tag"}
         \/ (req'[r].pc = "version" /\ req[r].pc = "arrived")
         \/ (req'[r].pc = "tag" /\ req[r].pc = "version" /\ req[r].tags # <<>>)
    /\ \A k \in holds'[r] : k[1] = "tag" => k \in holds[r]

LEMMA SameTagsKeep ==
  ASSUME IInv, TInv, NEW r \in Requests, req[r] # Idle, Alone(r), SameTags(r)
  PROVE  TInv'
  <1>1. TagsApart'
    <2> SUFFICES ASSUME NEW p \in Requests, NEW q \in Requests, p # q,
                        NEW k \in holds'[p] \cap holds'[q], k[1] = "tag"
                 PROVE  FALSE
      BY DEF TagsApart
    <2>1. k \in holds[p] /\ k \in holds[q]
      BY DEF Alone, SameTags
    <2> QED BY <2>1 DEF TInv, TagsApart
  <1>2. ASSUME NEW q \in Requests \ {r} PROVE TagsOK(q)'
    <2>1. TagsOK(q) /\ req'[q] = req[q] /\ holds'[q] = holds[q]
      BY DEF TInv, Alone
    <2> QED BY <2>1 DEF TagsOK
  <1>3. TagsOK(r)'
    <2>1. TagsOK(r) /\ req[r].tags \in Seq(Tags)
      BY ActiveFacts DEF TInv
    <2>2. req[r].tags # <<>> => 0 < Len(req[r].tags)
      BY <2>1
    <2>3. req'[r].pc \in {"arrived", "version"} => req'[r].inserted = 0
      BY <2>1 DEF TagsOK, SameTags
    <2>4. req'[r].pc = "tag" => req'[r].inserted < Len(req'[r].tags)
      BY <2>1, <2>2 DEF TagsOK, SameTags
    <2>5. ASSUME NEW k \in holds'[r], k[1] = "tag"
          PROVE  \E i \in 1 .. Len(req'[r].tags) :
                    i <= req'[r].inserted /\ k = Key("tag", <<req'[r].version, req'[r].tags[i]>>)
      <3>1. k \in holds[r]
        BY <2>5 DEF SameTags
      <3>2. PICK i \in 1 .. Len(req[r].tags) :
               i <= req[r].inserted /\ k = Key("tag", <<req[r].version, req[r].tags[i]>>)
        BY <2>1, <2>5, <3>1 DEF TagsOK
      <3> QED BY <3>2 DEF SameTags
    <2> QED BY <2>3, <2>4, <2>5 DEF TagsOK, Key
  <1> QED BY <1>1, <1>2, <1>3 DEF TInv

LEMMA SameRequestTags ==
  ASSUME IInv, NEW r \in Requests, req[r] # Idle,
         NEW new, req' = [req EXCEPT ![r] = new],
         new.tags = req[r].tags, new.version = req[r].version, new.inserted = req[r].inserted,
         \/ new.pc \notin {"arrived", "version", "tag"}
         \/ new.pc = "version" /\ req[r].pc = "arrived"
         \/ new.pc = "tag" /\ req[r].pc = "version" /\ req[r].tags # <<>>,
         \A k \in holds'[r] : k[1] = "tag" => k \in holds[r]
  PROVE  SameTags(r)
  <1>1. req'[r] = new
    BY TableFacts DEF IInv, MemoryOK
  <1> QED BY <1>1 DEF SameTags

LEMMA GoSameTags ==
  ASSUME IInv, NEW r \in Requests, req[r] # Idle, NEW step, Go(r, step),
         \/ step \notin {"arrived", "version", "tag"}
         \/ step = "tag" /\ req[r].pc = "version" /\ req[r].tags # <<>>,
         \A k \in holds'[r] : k[1] = "tag" => k \in holds[r]
  PROVE  SameTags(r)
  <1> DEFINE new == [req[r] EXCEPT !.pc = step]
  <1>1. req[r] \in ActiveReq
    BY ActiveFacts
  <1>2. new.pc = step /\ new.tags = req[r].tags /\ new.version = req[r].version
        /\ new.inserted = req[r].inserted
    BY <1>1 DEF ActiveReq
  <1>3. req' = [req EXCEPT ![r] = new]
    BY DEF Go
  <1> HIDE DEF new
  <1> QED BY <1>2, <1>3, SameRequestTags

LEMMA FailSameTags ==
  ASSUME IInv, NEW r \in Requests, req[r] # Idle, NEW outcome \in Outcomes, Fail(r, outcome)
  PROVE  SameTags(r)
  <1>1. holds'[r] = {}
    BY TableFacts DEF Fail
  <1> QED BY <1>1, GoSameTags DEF Fail, Outcomes

\* Locks of other kinds.
LEMMA OtherLocks ==
  ASSUME IInv, NEW r \in Requests, NEW K, Lock(r, K), \A k \in K : k[1] # "tag"
  PROVE  \A k \in holds'[r] : k[1] = "tag" => k \in holds[r]
  <1>1. holds'[r] = holds[r] \cup K
    BY LockFacts DEF Locks
  <1> QED BY <1>1

LEMMA NeedsNoTag ==
  ASSUME NEW r \in Requests, req[r].pc # "tag", NEW k \in Needs(r)
  PROVE  k[1] # "tag"
  <1>1. CASE req[r].pc = "version"
    BY <1>1, NeedFacts DEF Key
  <1>2. CASE req[r].pc = "insert"
    BY <1>2, NeedFacts DEF Key, Revision
  <1>3. CASE req[r].pc \in {"latest", "cascade"}
    BY <1>3, NeedFacts DEF Key, Latest
  <1>4. CASE req[r].pc = "announce"
    BY <1>4, NeedFacts DEF Key
  <1>5. CASE req[r].pc = "unhook"
    BY <1>5, NeedFacts DEF Key
  <1>6. CASE req[r].pc = "remove"
    BY <1>6, NeedFacts DEF Key
  <1> QED BY <1>1, <1>2, <1>3, <1>4, <1>5, <1>6, NeedFacts

LEMMA OtherStepsKeepTags ==
  ASSUME IInv, NEW r \in Requests, req[r] # Idle, Step(r), ~InsertTag(r)
  PROVE  SameTags(r)
  <1>1. req[r] \in ActiveReq
    BY ActiveFacts
  <1>2. ASSUME UNCHANGED holds PROVE \A k \in holds'[r] : k[1] = "tag" => k \in holds[r]
    BY <1>2
  <1>3. ASSUME Lock(r, Needs(r)), req[r].pc # "tag"
        PROVE  \A k \in holds'[r] : k[1] = "tag" => k \in holds[r]
    BY <1>3, NeedsNoTag, OtherLocks
  <1>4. CASE CheckResource(r)
    <2>1. ASSUME NEW outcome \in Outcomes, Fail(r, outcome) PROVE SameTags(r)
      BY <2>1, FailSameTags
    <2>2. ASSUME Go(r, "unhook"), UNCHANGED holds PROVE SameTags(r)
      BY <1>2, <2>2, GoSameTags
    <2>3. ASSUME NEW id, UNCHANGED holds, req[r].pc = "arrived",
                 req' = [req EXCEPT ![r] = [@ EXCEPT !.pc = "version", !.found = id]]
          PROVE  SameTags(r)
      <3> DEFINE new == [req[r] EXCEPT !.pc = "version", !.found = id]
      <3>1. new.pc = "version" /\ new.tags = req[r].tags /\ new.version = req[r].version
            /\ new.inserted = req[r].inserted /\ req' = [req EXCEPT ![r] = new]
        BY <1>1, <2>3 DEF ActiveReq
      <3> HIDE DEF new
      <3> QED BY <1>2, <2>3, <3>1, SameRequestTags
    <2> QED BY <1>4, <2>1, <2>2, <2>3 DEF CheckResource, Outcomes
  <1>5. CASE CreateVersion(r)
    <2> DEFINE step == IF req[r].op \notin {"publish", "merge"} THEN "existing"
                       ELSE IF req[r].tags = <<>> THEN "find" ELSE "tag"
    <2>1. req[r].pc = "version" /\ Lock(r, Needs(r)) /\ Go(r, step)
      BY <1>5 DEF CreateVersion
    <2>2. step \notin {"arrived", "version", "tag"} \/ (step = "tag" /\ req[r].tags # <<>>)
      OBVIOUS
    <2> HIDE DEF step
    <2> QED BY <1>3, <2>1, <2>2, GoSameTags
  <1>6. CASE FindPact(r)
    <2> DEFINE new == [req[r] EXCEPT !.pc = "existing", !.found = latest[req[r].version]]
    <2>1. new.pc = "existing" /\ new.tags = req[r].tags /\ new.version = req[r].version
          /\ new.inserted = req[r].inserted
      BY <1>1 DEF ActiveReq
    <2>2. req' = [req EXCEPT ![r] = new] /\ UNCHANGED holds
      BY <1>6 DEF FindPact
    <2> HIDE DEF new
    <2> QED BY <1>2, <2>1, <2>2, SameRequestTags
  <1>7. CASE ReadExisting(r)
    <2>1. ASSUME Fail(r, "error") PROVE SameTags(r)
      BY <2>1, FailSameTags DEF Outcomes
    <2>2. ASSUME Go(r, "insert"), UNCHANGED holds PROVE SameTags(r)
      BY <1>2, <2>2, GoSameTags
    <2>3. ASSUME NEW id, NEW base, NEW content, UNCHANGED holds,
                 req' = [req EXCEPT ![r] = [@ EXCEPT !.pc = "model", !.existing = id,
                                                     !.base = base, !.content = content]]
          PROVE  SameTags(r)
      <3> DEFINE new == [req[r] EXCEPT !.pc = "model", !.existing = id,
                                       !.base = base, !.content = content]
      <3>1. new.pc = "model" /\ new.tags = req[r].tags /\ new.version = req[r].version
            /\ new.inserted = req[r].inserted /\ req' = [req EXCEPT ![r] = new]
        BY <1>1, <2>3 DEF ActiveReq
      <3> HIDE DEF new
      <3> QED BY <1>2, <2>3, <3>1, SameRequestTags
    <2> DEFINE id == latest[req[r].version]
               content == IF Merges(req[r]) THEN MergePacts(pub[id].content, req[r].body)
                                            ELSE req[r].body
    <2>4. CASE id # NoRow
      <3>1. /\ UNCHANGED holds
            /\ req' = [req EXCEPT ![r] = [@ EXCEPT !.pc = "model", !.existing = id,
                                             !.base = pub[id].content, !.content = content]]
        BY <1>7, <2>4 DEF ReadExisting
      <3> QED BY <2>3, <3>1
    <2>5. CASE id = NoRow
      <3>1. Fail(r, "error") \/ (Go(r, "insert") /\ UNCHANGED holds)
        BY <1>7, <2>5 DEF ReadExisting
      <3> QED BY <2>1, <2>2, <3>1
    <2> QED BY <2>4, <2>5
  <1>8. CASE FindModel(r)
    <2>1. ASSUME Fail(r, "error") PROVE SameTags(r)
      BY <2>1, FailSameTags DEF Outcomes
    <2>2. ASSUME NEW row, UNCHANGED holds,
                 \/ req' = [req EXCEPT ![r] = [@ EXCEPT !.pc = "announce", !.row = row]]
                 \/ req' = [req EXCEPT ![r] = [@ EXCEPT !.pc = "insert", !.revision = row]]
          PROVE  SameTags(r)
      <3> DEFINE a == [req[r] EXCEPT !.pc = "announce", !.row = row]
                 b == [req[r] EXCEPT !.pc = "insert", !.revision = row]
      <3>1. a.pc = "announce" /\ a.tags = req[r].tags /\ a.version = req[r].version
            /\ a.inserted = req[r].inserted
        BY <1>1 DEF ActiveReq
      <3>2. b.pc = "insert" /\ b.tags = req[r].tags /\ b.version = req[r].version
            /\ b.inserted = req[r].inserted
        BY <1>1 DEF ActiveReq
      <3>3. req' = [req EXCEPT ![r] = a] \/ req' = [req EXCEPT ![r] = b]
        BY <2>2
      <3> HIDE DEF a, b
      <3> QED BY <1>2, <2>2, <3>1, <3>2, <3>3, SameRequestTags
    <2> QED BY <1>8, <2>1, <2>2 DEF FindModel
  <1>9. CASE WritePublication(r)
    <2>1. PICK K : Lock(r, K) /\ \A k \in K : k[1] \in {"revision", "update"}
      BY <1>9 DEF WritePublication, Key
    <2>2. \A k \in holds'[r] : k[1] = "tag" => k \in holds[r]
      BY <2>1, OtherLocks
    <2>3. ASSUME NEW row, req' = [req EXCEPT ![r] = [@ EXCEPT !.pc = "latest", !.row = row]]
          PROVE  SameTags(r)
      <3> DEFINE new == [req[r] EXCEPT !.pc = "latest", !.row = row]
      <3>1. new.pc = "latest" /\ new.tags = req[r].tags /\ new.version = req[r].version
            /\ new.inserted = req[r].inserted /\ req' = [req EXCEPT ![r] = new]
        BY <1>1, <2>3 DEF ActiveReq
      <3> HIDE DEF new
      <3> QED BY <2>2, <3>1, SameRequestTags
    <2> QED BY <1>9, <2>3 DEF WritePublication
  <1>10. CASE WriteLatest(r)
    BY <1>3, <1>10, GoSameTags DEF WriteLatest
  <1>11. CASE Announce(r)
    <2>1. ASSUME Fail(r, "error") PROVE SameTags(r)
      BY <2>1, FailSameTags DEF Outcomes
    <2>2. ASSUME Lock(r, {Key("share", req[r].row)})
          PROVE  \A k \in holds'[r] : k[1] = "tag" => k \in holds[r]
      <3>1. \A k \in {Key("share", req[r].row)} : k[1] # "tag"
        BY DEF Key
      <3> QED BY <2>2, <3>1, OtherLocks
    <2>3. ASSUME NEW c, req' = [req EXCEPT ![r] = [@ EXCEPT !.pc = "commit", !.changed = c]],
                 UNCHANGED holds \/ Lock(r, {Key("share", req[r].row)})
          PROVE  SameTags(r)
      <3> DEFINE new == [req[r] EXCEPT !.pc = "commit", !.changed = c]
      <3>1. new.pc = "commit" /\ new.tags = req[r].tags /\ new.version = req[r].version
            /\ new.inserted = req[r].inserted /\ req' = [req EXCEPT ![r] = new]
        BY <1>1, <2>3 DEF ActiveReq
      <3> HIDE DEF new
      <3> QED BY <1>2, <2>2, <2>3, <3>1, SameRequestTags
    <2> QED BY <1>11, <2>1, <2>3 DEF Announce
  <1>12. CASE UnhookRevisions(r)
    BY <1>3, <1>12, GoSameTags DEF UnhookRevisions
  <1>13. CASE ChooseRevisions(r)
    <2> DEFINE new == [req[r] EXCEPT !.pc = "remove", !.targets = Rows(req[r].version)]
    <2>1. new.pc = "remove" /\ new.tags = req[r].tags /\ new.version = req[r].version
          /\ new.inserted = req[r].inserted
      BY <1>1 DEF ActiveReq
    <2>2. req' = [req EXCEPT ![r] = new] /\ UNCHANGED holds
      BY <1>13 DEF ChooseRevisions, Choosing
    <2> HIDE DEF new
    <2> QED BY <1>2, <2>1, <2>2, SameRequestTags
  <1>14. CASE RemoveRevisions(r)
    <2>1. ASSUME Fail(r, "error") PROVE SameTags(r)
      BY <2>1, FailSameTags DEF Outcomes
    <2>2. ASSUME Lock(r, {Key("delete", i) : i \in Removable(r)}), Go(r, "cascade")
          PROVE  SameTags(r)
      <3>1. \A k \in {Key("delete", i) : i \in Removable(r)} : k[1] # "tag"
        BY DEF Key
      <3>2. \A k \in holds'[r] : k[1] = "tag" => k \in holds[r]
        BY <2>2, <3>1, OtherLocks
      <3> QED BY <2>2, <3>2, GoSameTags
    <2> QED BY <1>14, <2>1, <2>2 DEF RemoveRevisions
  <1>15. CASE Cascade(r)
    BY <1>3, <1>15, GoSameTags DEF Cascade
  <1>16. CASE Commit(r)
    <2>1. holds'[r] = {}
      BY <1>16, TableFacts DEF Commit
    <2> QED BY <1>16, <2>1, GoSameTags DEF Commit
  <1>17. CASE DeadlockVictim(r)
    BY <1>17, FailSameTags DEF DeadlockVictim, Outcomes
  <1> QED BY <1>4, <1>5, <1>6, <1>7, <1>8, <1>9, <1>10, <1>11, <1>12, <1>13, <1>14, <1>15,
             <1>16, <1>17 DEF Step

LEMMA BeginKeepsTags ==
  ASSUME IInv, TInv, NEW r \in Requests, Begin(r)
  PROVE  TInv'
  <1>1. req[r] = Idle /\ UNCHANGED holds /\ holds[r] = {}
        /\ req \in [Requests -> {Idle} \cup ActiveReq]
    BY DEF Begin, IInv, MemoryOK
  <1>2. PICK new : /\ req' = [req EXCEPT ![r] = new]
                   /\ new.pc \in {"version", "arrived"} /\ new.inserted = 0
    <2>1. ASSUME NEW w \in Workload,
             req' = [req EXCEPT ![r] =
            [pc |-> IF w.op \in {"publish", "merge"} THEN "version" ELSE "arrived",
             op |-> w.op, version |-> w.version, tags |-> w.tags, body |-> w.body, inserted |-> 0,
             found |-> NoRow, existing |-> NoRow, base |-> NoRow, row |-> NoRow,
             content |-> w.body, revision |-> 1, changed |-> FALSE, targets |-> {}]]
          PROVE \E new : /\ req' = [req EXCEPT ![r] = new]
                         /\ new.pc \in {"version", "arrived"} /\ new.inserted = 0
      <3> DEFINE new == [pc |-> IF w.op \in {"publish", "merge"} THEN "version" ELSE "arrived",
             op |-> w.op, version |-> w.version, tags |-> w.tags, body |-> w.body, inserted |-> 0,
             found |-> NoRow, existing |-> NoRow, base |-> NoRow, row |-> NoRow,
             content |-> w.body, revision |-> 1, changed |-> FALSE, targets |-> {}]
      <3>1. new.pc \in {"version", "arrived"} /\ new.inserted = 0
        OBVIOUS
      <3>2. req' = [req EXCEPT ![r] = new]
        BY <2>1
      <3> HIDE DEF new
      <3> QED BY <3>1, <3>2
    <2> QED BY <2>1 DEF Begin
  <1>3. req'[r] = new /\ \A q \in Requests \ {r} : req'[q] = req[q]
    BY <1>1, <1>2
  <1>4. TagsApart'
    BY <1>1 DEF TInv, TagsApart
  <1>5. ASSUME NEW q \in Requests \ {r} PROVE TagsOK(q)'
    <2>1. TagsOK(q) /\ req'[q] = req[q] /\ holds'[q] = holds[q]
      BY <1>1, <1>3 DEF TInv
    <2> QED BY <2>1 DEF TagsOK
  <1>6. TagsOK(r)'
    <2>1. req'[r].pc \in {"version", "arrived"} /\ req'[r].inserted = 0 /\ holds'[r] = {}
      BY <1>1, <1>2, <1>3
    <2> QED BY <2>1 DEF TagsOK
  <1> QED BY <1>4, <1>5, <1>6 DEF TInv

LEMMA InsertTagKeepsTags ==
  ASSUME IInv, TInv, NEW r \in Requests, req[r] # Idle, InsertTag(r)
  PROVE  TInv'
  <1>1. PICK step \in {"tag", "find"}, K \in {{}, Needs(r)} :
            /\ req[r].pc = "tag" /\ Waits(r) = {}
            /\ Goes(r, step) /\ Locks(r, K)
            /\ \A k \in K : k = Key("tag", Tagging(req[r]))
            /\ req'[r].tags = req[r].tags /\ req'[r].inserted = req[r].inserted + 1
            /\ step = "tag" <=> req[r].inserted + 1 # Len(req[r].tags)
    BY InsertTagFacts
  <1>2. /\ req[r].tags \in Seq(Tags) /\ req[r].inserted \in Nat
        /\ Len(req[r].tags) \in Nat /\ TagsOK(r)
    BY ActiveFacts DEF TInv
  <1>3. /\ holds'[r] = holds[r] \cup K /\ req'[r].version = req[r].version
        /\ \A q \in Requests \ {r} : req'[q] = req[q] /\ holds'[q] = holds[q]
    BY <1>1 DEF Locks, Goes
  <1>4. \A k \in K : \A q \in Requests \ {r} : k \notin holds[q]
    BY <1>1, NeedsAreFree DEF Free
  <1>5. TagsApart'
    <2> SUFFICES ASSUME NEW p \in Requests, NEW q \in Requests, p # q,
                        NEW k \in holds'[p] \cap holds'[q], k[1] = "tag"
                 PROVE  FALSE
      BY DEF TagsApart
    <2>1. CASE p = r
      BY <1>3, <1>4, <2>1 DEF TInv, TagsApart
    <2>2. CASE q = r
      BY <1>3, <1>4, <2>2 DEF TInv, TagsApart
    <2>3. CASE p # r /\ q # r
      BY <1>3, <2>3 DEF TInv, TagsApart
    <2> QED BY <2>1, <2>2, <2>3
  <1>6. ASSUME NEW q \in Requests \ {r} PROVE TagsOK(q)'
    <2>1. TagsOK(q) /\ req'[q] = req[q] /\ holds'[q] = holds[q]
      BY <1>3 DEF TInv
    <2> QED BY <2>1 DEF TagsOK
  <1>7. TagsOK(r)'
    <2>1. req[r].inserted < Len(req[r].tags)
      BY <1>1, <1>2 DEF TagsOK
    <2>2. req'[r].pc = step
      BY <1>1 DEF Goes
    <2>3. req'[r].pc = "tag" => req'[r].inserted < Len(req'[r].tags)
      BY <1>1, <1>2, <2>1, <2>2
    <2>4. ASSUME NEW k \in holds'[r], k[1] = "tag"
          PROVE  \E i \in 1 .. Len(req'[r].tags) :
                    i <= req'[r].inserted /\ k = Key("tag", <<req'[r].version, req'[r].tags[i]>>)
      <3>1. CASE k \in holds[r]
        <4>1. PICK i \in 1 .. Len(req[r].tags) :
               i <= req[r].inserted /\ k = Key("tag", <<req[r].version, req[r].tags[i]>>)
          BY <1>2, <2>4, <3>1 DEF TagsOK
        <4>2. i <= req[r].inserted + 1
          BY <1>2, <4>1
        <4> QED BY <1>1, <1>3, <4>1, <4>2
      <3>2. CASE k \in K
        <4>1. k = Key("tag", <<req[r].version, req[r].tags[req[r].inserted + 1]>>)
          BY <1>1, <3>2 DEF Tagging
        <4>2. req[r].inserted + 1 \in 1 .. Len(req[r].tags)
          BY <1>2, <2>1
        <4>3. PICK i \in 1 .. Len(req[r].tags) : i = req[r].inserted + 1
          BY <4>2
        <4>4. i <= req'[r].inserted /\ i \in 1 .. Len(req'[r].tags)
          BY <1>1, <1>2, <4>3
        <4>5. k = Key("tag", <<req'[r].version, req'[r].tags[i]>>)
          BY <1>1, <1>3, <4>1, <4>3
        <4> QED BY <4>4, <4>5
      <3> QED BY <1>3, <2>4, <3>1, <3>2
    <2> QED BY <2>2, <2>3, <2>4 DEF TagsOK
  <1> QED BY <1>5, <1>6, <1>7 DEF TInv

\* All that is known of what requests hold.
CInv == WInv /\ TInv

LEMMA CInvHolds == Spec => []CInv
  <1>1. Init => TInv
    <2> SUFFICES ASSUME Init PROVE TInv
      OBVIOUS
    <2>1. \A r \in Requests : holds[r] = {} /\ req[r].pc = "idle"
      BY IdleFacts DEF Init
    <2> QED BY <2>1 DEF TInv, TagsOK, TagsApart
  <1>2. WInv /\ TInv /\ [Next]_vars => TInv'
    <2> SUFFICES ASSUME WInv, TInv, [Next]_vars PROVE TInv'
      OBVIOUS
    <2>1. CASE \E r \in Requests : Begin(r)
      BY <2>1, BeginKeepsTags DEF WInv
    <2>2. CASE \E r \in Requests : req[r] # Idle /\ Step(r)
      <3>1. PICK r \in Requests : req[r] # Idle /\ Step(r)
        BY <2>2
      <3>2. CASE InsertTag(r)
        BY <3>1, <3>2, InsertTagKeepsTags DEF WInv
      <3>3. CASE ~InsertTag(r)
        <4>1. Alone(r)
          BY <3>1, CheckResourceHolds, CreateVersionHolds, InsertTagHolds, VictimHolds,
             FindPactHolds, ReadExistingHolds, FindModelHolds, WritePublicationHolds,
             WriteLatestHolds, AnnounceHolds, DeletionHolds
          DEF Step
        <4> QED BY <3>1, <3>3, <4>1, OtherStepsKeepTags, SameTagsKeep DEF WInv
      <3> QED BY <3>2, <3>3
    <2>3. CASE UNCHANGED vars
      BY <2>3 DEF vars, TInv, TagsOK, TagsApart
    <2> QED BY <2>1, <2>2, <2>3 DEF Next
  <1> QED BY <1>1, <1>2, WInvHolds, PTL DEF Spec, CInv

\* From a request on a circle it goes on to exactly one other, which has the tag that
\* the first one needs.
LEMMA NextOnCircle ==
  ASSUME CInv, NEW r \in Requests, OnCycle(r)
  PROVE  \E q \in Requests \ {r} :
            /\ Waits(r) = {q} /\ OnCycle(q)
            /\ Key("tag", Tagging(req[r])) \in holds[q]
  <1>1. req[r].pc = "tag"
    BY CirclesAreOfTags DEF CInv
  <1>2. Needs(r) = {Key("tag", Tagging(req[r]))}
    BY <1>1, NeedFacts
  <1>3. Waits(r) # {}
    <2> SUFFICES ASSUME Waits(r) = {} PROVE FALSE
      OBVIOUS
    <2>1. \A q \in {} \cup {r} : Waits(q) \subseteq {}
      OBVIOUS
    <2> QED BY <2>1 DEF OnCycle
  <1>4. PICK q \in Requests \ {r} : q \in Waits(r)
    BY <1>3 DEF Waits
  <1>5. Key("tag", Tagging(req[r])) \in holds[q]
    BY <1>2, <1>4 DEF Waits
  <1>6. Waits(r) = {q}
    <2>1. ASSUME NEW p \in Waits(r), p # q PROVE FALSE
      <3>1. p \in Requests /\ Key("tag", Tagging(req[r])) \in holds[p]
        BY <1>2, <2>1 DEF Waits
      <3>2. Key("tag", Tagging(req[r]))[1] = "tag"
        BY DEF Key
      <3> QED BY <1>4, <1>5, <2>1, <3>1, <3>2 DEF CInv, TInv, TagsApart
    <2> QED BY <1>4, <2>1
  <1>7. OnCycle(q)
    <2> SUFFICES ASSUME NEW S \in SUBSET Requests,
                        \A p \in S \cup {q} : Waits(p) \subseteq S
                 PROVE  q \in S
      BY DEF OnCycle
    <2>1. S \cup {q} \in SUBSET Requests
      BY <1>4
    <2>2. \A p \in (S \cup {q}) \cup {r} : Waits(p) \subseteq S \cup {q}
      BY <1>6
    <2>3. r \in S \cup {q}
      BY <2>1, <2>2 DEF OnCycle
    <2> QED BY <1>4, <1>6, <2>3
  <1> QED BY <1>4, <1>5, <1>6, <1>7

\* Another one on a circle waits for it.
LEMMA WaitedFor ==
  ASSUME CInv, NEW r \in Requests, OnCycle(r)
  PROVE  \E p \in Requests \ {r} : OnCycle(p) /\ Waits(p) = {r}
  <1> SUFFICES ASSUME \A p \in Requests \ {r} : OnCycle(p) => Waits(p) # {r} PROVE FALSE
    OBVIOUS
  <1> DEFINE S == {p \in Requests \ {r} : OnCycle(p)}
  <1>1. ASSUME NEW p \in S \cup {r} PROVE Waits(p) \subseteq S
    <2>1. p \in Requests /\ OnCycle(p)
      BY <1>1
    <2>2. PICK q \in Requests \ {p} : Waits(p) = {q} /\ OnCycle(q)
      BY <2>1, NextOnCircle
    <2>3. q # r
      BY <1>1, <2>1, <2>2
    <2> QED BY <2>2, <2>3
  <1>2. S \in SUBSET Requests /\ r \notin S
    OBVIOUS
  <1> HIDE DEF S
  <1> QED BY <1>1, <1>2 DEF OnCycle

\* What a request on a circle holds and needs are different tags of its body.
LEMMA CircleFacts ==
  ASSUME CInv, NEW r \in Requests, OnCycle(r)
  PROVE  /\ req[r].pc = "tag" /\ req[r] # Idle /\ req[r].tags \in Seq(Tags)
         /\ \E i, j \in 1 .. Len(req[r].tags) :
              /\ req[r].tags[i] # req[r].tags[j]
              /\ Tagging(req[r]) = <<req[r].version, req[r].tags[j]>>
              /\ Key("tag", <<req[r].version, req[r].tags[i]>>) \in holds[r]
  <1>1. req[r].pc = "tag" /\ req[r] # Idle
    BY CirclesAreOfTags, IdleFacts DEF CInv
  <1>2. req[r].tags \in Seq(Tags) /\ req[r].inserted \in Nat /\ Len(req[r].tags) \in Nat /\ TagsOK(r)
    BY <1>1, ActiveFacts DEF CInv, WInv, TInv
  <1>3. PICK p \in Requests \ {r} : OnCycle(p) /\ Waits(p) = {r}
    BY WaitedFor
  <1>4. Key("tag", Tagging(req[p])) \in holds[r]
    BY <1>3, NextOnCircle
  <1>5. PICK i \in 1 .. Len(req[r].tags) :
           Key("tag", Tagging(req[p])) = Key("tag", <<req[r].version, req[r].tags[i]>>)
    BY <1>2, <1>4 DEF TagsOK, Key
  <1>6. PICK q \in Requests \ {r} : Key("tag", Tagging(req[r])) \in holds[q]
    BY NextOnCircle
  <1>7. PICK j \in 1 .. Len(req[r].tags) : j = req[r].inserted + 1
    BY <1>1, <1>2 DEF TagsOK
  <1>8. Tagging(req[r]) = <<req[r].version, req[r].tags[j]>>
    BY <1>7 DEF Tagging
  <1>9. req[r].tags[i] # req[r].tags[j]
    <2> SUFFICES ASSUME req[r].tags[i] = req[r].tags[j] PROVE FALSE
      OBVIOUS
    <2>1. Key("tag", Tagging(req[r])) \in holds[r]
      BY <1>4, <1>5, <1>8
    <2>2. Key("tag", Tagging(req[r]))[1] = "tag"
      BY DEF Key
    <2> QED BY <1>6, <2>1, <2>2 DEF CInv, TInv, TagsApart
  <1> QED BY <1>1, <1>2, <1>4, <1>5, <1>8, <1>9

\* However many requests there are, only POSTs that insert tags ever wait for each other
\* in a circle, each with another tag of its version inserted already.
THEOREM OnlyTagsCloseACircle == Spec => []OnlyTagsDeadlock
  <1>1. CInv => OnlyTagsDeadlock
    <2> SUFFICES ASSUME CInv, NEW r \in Requests, OnCycle(r)
                 PROVE  /\ req[r].pc = "tag"
                        /\ \E t \in Tags : Key("tag", <<req[r].version, t>>) \in holds[r]
      BY DEF OnlyTagsDeadlock
    <2>1. PICK i \in 1 .. Len(req[r].tags) :
             Key("tag", <<req[r].version, req[r].tags[i]>>) \in holds[r]
      BY CircleFacts
    <2>2. req[r].tags[i] \in Tags
      BY CircleFacts
    <2> QED BY <2>1, <2>2, CircleFacts
  <1> QED BY <1>1, CInvHolds, PTL

\* Those that r waits for, directly or through others.
Reach(r) ==
    {p \in Requests :
        \A S \in SUBSET Requests : (\A q \in S \cup {r} : Waits(q) \subseteq S) => p \in S}

LEMMA ReachFacts ==
  ASSUME NEW r \in Requests
  PROVE  /\ Reach(r) \subseteq Requests /\ Waits(r) \subseteq Reach(r)
         /\ \A q \in Reach(r) : Reach(q) \subseteq Reach(r)
         /\ r \in Reach(r) => OnCycle(r)
  <1>1. Reach(r) \subseteq Requests /\ (r \in Reach(r) => OnCycle(r))
    BY DEF Reach, OnCycle
  <1>2. Waits(r) \subseteq Reach(r)
    BY DEF Reach, Waits
  <1>3. ASSUME NEW q \in Reach(r), NEW p \in Reach(q) PROVE p \in Reach(r)
    <2> SUFFICES ASSUME NEW S \in SUBSET Requests, \A x \in S \cup {r} : Waits(x) \subseteq S
                 PROVE  p \in S
      BY <1>3 DEF Reach
    <2>1. q \in S
      BY <1>3 DEF Reach
    <2>2. \A x \in S \cup {q} : Waits(x) \subseteq S
      BY <2>1
    <2> QED BY <1>3, <2>2 DEF Reach
  <1> QED BY <1>1, <1>2, <1>3

\* As long as a request has not ended, there is one that has not ended and whose next
\* statement finds every lock that it needs free, or that the database fails for a deadlock.
SomeoneGoesOn ==
    (\E r \in Requests : req[r] # Idle /\ ~Ended(r))
        => \E r \in Requests : req[r] # Idle /\ ~Ended(r) /\ (Waits(r) = {} \/ OnCycle(r))
THEOREM ARequestAlwaysGoesOn == Spec => []SomeoneGoesOn
  <1>1. WInv => SomeoneGoesOn
    <2> SUFFICES ASSUME WInv, \E r \in Requests : req[r] # Idle /\ ~Ended(r)
                 PROVE  \E r \in Requests : req[r] # Idle /\ ~Ended(r)
                                              /\ (Waits(r) = {} \/ OnCycle(r))
      BY DEF SomeoneGoesOn
    <2> DEFINE O == {r \in Requests : req[r] # Idle /\ ~Ended(r)}
               Sizes == {Cardinality(Reach(r)) : r \in O}
    <2>1. IsFiniteSet(Requests)
      BY PublishingAssumption
    <2>2. \A r \in Requests : IsFiniteSet(Reach(r)) /\ Cardinality(Reach(r)) \in Nat
      BY <2>1, ReachFacts, FS_Subset, FS_CardinalityType
    <2>3. Sizes # {} /\ Sizes \subseteq Nat
      BY <2>2
    <2> HIDE DEF Sizes
    <2>8. PICK n \in Sizes : \A m \in Sizes : <<m, n>> \notin OpToRel(<, Nat)
      BY <2>3, NatLessThanWellFounded, WFMin
    <2>4. \A m \in Sizes : ~(m < n)
      BY <2>3, <2>8 DEF OpToRel
    <2>5. PICK r \in O : Cardinality(Reach(r)) = n
      BY <2>8 DEF Sizes
    <2>6. CASE Waits(r) = {}
      BY <2>6
    <2>7. CASE Waits(r) # {}
      <3>1. PICK q \in Requests : q \in Waits(r)
        BY <2>7 DEF Waits
      <3>2. q \in O /\ q \in Reach(r)
        BY <3>1, HoldersAreActive, ReachFacts DEF Waits, Ended
      <3>3. Reach(q) \subseteq Reach(r)
        BY <3>2, ReachFacts
      <3>4. Cardinality(Reach(q)) \in Sizes
        BY <3>2 DEF Sizes
      <3> HIDE DEF O
      <3>5. Cardinality(Reach(q)) <= Cardinality(Reach(r))
        BY <2>2, <2>5, <3>3, FS_Subset DEF O
      <3>6. Reach(q) = Reach(r)
        <4>1. ~(Cardinality(Reach(q)) < Cardinality(Reach(r)))
          BY <2>4, <2>5, <3>4
        <4>2. Cardinality(Reach(q)) = Cardinality(Reach(r))
          BY <2>2, <2>5, <3>1, <3>5, <4>1 DEF O
        <4> QED BY <2>2, <2>5, <3>3, <4>2, FS_Subset DEF O
      <3>7. OnCycle(q)
        BY <3>1, <3>2, <3>6, ReachFacts
      <3> QED BY <3>2, <3>7 DEF O
    <2> QED BY <2>6, <2>7
  <1> QED BY <1>1, WInvHolds, PTL

-----------------------------------------------------------------------------
(* The requests act as promised *)

\* What an open request q keeps, with the locks K, however late it is: its content is
\* its own, the rows that it has found are those of its version, and it refers to none
\* but the row that it writes.
Revised(q) == Key("revision", <<q.version, q.revision>>)
IsMerge(q) == q.op \in {"merge", "patch"}
OwnContent(q) ==
    \/ q.content = q.body
    \/ IsMerge(q) /\ \E x \in announced : q.content = MergePacts(x, q.body)
Carries(q, K) ==
    /\ OwnContent(q)
    /\ q.pc \in {"arrived", "version", "tag", "find", "existing"} => q.content = q.body
    /\ q.existing # NoRow /\ pub[q.existing] # NoRow =>
         pub[q.existing].version = q.version
    /\ \A k \in K : k[1] = "share" => k = Key("share", q.row)
    /\ IF q.op = "delete" THEN ~q.changed
       ELSE q.pc \in {"announce", "commit"} /\ Revised(q) \notin K => q.row = q.existing

\* What it has read is still so, as long as no other request for its version is done.
Checked(q) == q.op \in {"put", "patch"} /\ q.pc # "arrived"
Read(q) == q.pc \in {"model", "insert", "latest", "announce", "commit"}
WriterSees(q, K) ==
    /\ Checked(q) => ~Refused(q, latest[q.version])
    /\ Checked(q) \/ q.pc = "existing" \/ Read(q) => q.found = latest[q.version]
    /\ Read(q) =>
         /\ q.existing = latest[q.version]
         /\ q.content = IF IsMerge(q) /\ latest[q.version] # NoRow
                        THEN MergePacts(Current(q.version), q.body) ELSE q.body
    /\ q.pc \in {"announce", "commit"} /\ Revised(q) \notin K =>
         latest[q.version] # NoRow /\ Current(q.version) = q.content
RemoverSees(q, K) ==
    /\ q.pc # "arrived" => latest[q.version] # NoRow
    /\ q.pc \in {"remove", "cascade", "commit"} => q.targets = Rows(q.version)
    /\ q.pc \in {"choose", "remove"} =>
         \A h \in hooked : h[1] \in Rows(q.version) => Key("unhook", h) \in K
Undisturbed(q, K) ==
    IF q.op = "delete" THEN RemoverSees(q, K) ELSE WriterSees(q, K)

SInv ==
    /\ IInv
    /\ \A r \in Requests : IsOpen(r) =>
         /\ Carries(req[r], holds[r])
         /\ r \notin raced => Undisturbed(req[r], holds[r])

LEMMA ServedRow ==
  ASSUME IInv, NEW v \in Versions, latest[v] # NoRow
  PROVE  /\ latest[v] \in Requests /\ latest[v] \in Rows(v) /\ pub[latest[v]] # NoRow
         /\ pub[latest[v]].version = v /\ pub[latest[v]].content \in announced
         /\ Current(v) = pub[latest[v]].content /\ Current(v) # NoRow
  <1>1. latest[v] \in Rows(v)
    BY DEF IInv, EveryVersionServed
  <1>2. latest[v] \in Requests /\ pub[latest[v]] # NoRow /\ pub[latest[v]].version = v
    BY <1>1 DEF Rows
  <1>3. pub[latest[v]].content \in announced /\ pub[latest[v]].content \in Contents
    BY <1>2, RowFacts
  <1> QED BY <1>1, <1>2, <1>3, PublishingAssumption DEF Current

\* An open request and what it keeps.
LEMMA OpenFacts ==
  ASSUME SInv, NEW r \in Requests, IsOpen(r)
  PROVE  /\ IInv /\ req[r] # Idle /\ req[r].pc \notin Outcomes
         /\ req[r] \in ActiveReq /\ req[r].version \in Versions
         /\ Carries(req[r], holds[r])
         /\ r \notin raced => Undisturbed(req[r], holds[r])
  BY ActiveFacts DEF SInv, IsOpen, Ended

\* A step of r takes it further and keeps what it knows ...
Proceeds(r) ==
    /\ UNCHANGED <<tables, announced, raced>> /\ Alone(r)
    /\ req'[r] # Idle /\ req'[r].pc \in Steps
    /\ req'[r].op = req[r].op /\ req'[r].version = req[r].version /\ req'[r].body = req[r].body
    /\ Carries(req'[r], holds'[r])
    /\ r \notin raced => Undisturbed(req'[r], holds'[r])

\* ... or answers it with a reason.
Declines(r) ==
    \/ req[r].op # "delete" /\ Refused(req[r], latest[req[r].version]) /\ Fail(r, "conflict")
    \/ req[r].op = "delete" /\ latest[req[r].version] = NoRow /\ Fail(r, "missing")
    \/ r \in raced /\ Fail(r, "error")
    \/ OnCycle(r) /\ Fail(r, "error")

LEMMA Onward ==
  ASSUME IInv, NEW r \in Requests, NEW new, req' = [req EXCEPT ![r] = new],
         new.pc \in Steps, new.op = req[r].op, new.version = req[r].version,
         new.body = req[r].body,
         NEW K, Locks(r, K), UNCHANGED <<tables, announced, raced>>,
         Carries(new, holds[r] \cup K), r \notin raced => Undisturbed(new, holds[r] \cup K)
  PROVE  Proceeds(r)
  <1>1. req'[r] = new /\ \A q \in Requests \ {r} : req'[q] = req[q]
    BY DEF IInv, MemoryOK
  <1>2. holds'[r] = holds[r] \cup K /\ \A q \in Requests \ {r} : holds'[q] = holds[q]
    BY DEF Locks
  <1>3. new # Idle
    BY IdleFacts DEF Steps
  <1> QED BY <1>1, <1>2, <1>3 DEF Proceeds, Alone

\* The same for a step that changes nothing but where r is.
LEMMA GoesOnward ==
  ASSUME IInv, NEW r \in Requests, req[r] # Idle, NEW step \in Steps, Go(r, step),
         NEW K, Locks(r, K), UNCHANGED <<tables, announced, raced>>,
         \A new :
            /\ new.pc = step /\ new.op = req[r].op /\ new.version = req[r].version
            /\ new.body = req[r].body /\ new.found = req[r].found
            /\ new.existing = req[r].existing /\ new.row = req[r].row
            /\ new.content = req[r].content /\ new.revision = req[r].revision
            /\ new.changed = req[r].changed /\ new.targets = req[r].targets
            => /\ Carries(new, holds[r] \cup K)
               /\ r \notin raced => Undisturbed(new, holds[r] \cup K)
  PROVE  Proceeds(r)
  <1> DEFINE new == [req[r] EXCEPT !.pc = step]
  <1>1. req[r] \in ActiveReq
    BY ActiveFacts
  <1>2. /\ new.pc = step /\ new.op = req[r].op /\ new.version = req[r].version
        /\ new.body = req[r].body /\ new.found = req[r].found
        /\ new.existing = req[r].existing /\ new.row = req[r].row
        /\ new.content = req[r].content /\ new.revision = req[r].revision
        /\ new.changed = req[r].changed /\ new.targets = req[r].targets
    BY <1>1 DEF ActiveReq
  <1>3. req' = [req EXCEPT ![r] = new]
    BY DEF Go
  <1> HIDE DEF new
  <1>4. /\ Carries(new, holds[r] \cup K)
        /\ r \notin raced => Undisturbed(new, holds[r] \cup K)
    BY <1>2
  <1> QED BY <1>2, <1>3, <1>4, Onward

LEMMA CheckResourceServes ==
  ASSUME SInv, NEW r \in Requests, IsOpen(r), CheckResource(r)
  PROVE  Proceeds(r) \/ Declines(r)
  <1> DEFINE q == req[r]
             id == latest[q.version]
  <1>1. /\ IInv /\ q # Idle /\ q \in ActiveReq /\ q.version \in Versions
        /\ Carries(q, holds[r])
    BY OpenFacts
  <1>2. q.pc = "arrived"
    BY DEF CheckResource
  <1>3. CASE q.op = "delete" /\ id = NoRow
    BY <1>3 DEF CheckResource, Declines
  <1>4. CASE q.op = "delete" /\ id # NoRow
    <2>1. Go(r, "unhook") /\ UNCHANGED <<tables, holds, history>>
      BY <1>4 DEF CheckResource
    <2>2. UNCHANGED <<tables, announced, raced>> /\ Locks(r, {})
      BY <1>1, <2>1, NoLock DEF history
    <2>3. ASSUME NEW new, new.pc = "unhook", new.op = q.op, new.version = q.version,
                 new.body = q.body, new.existing = q.existing, new.row = q.row,
                 new.content = q.content, new.changed = q.changed
          PROVE  Carries(new, holds[r] \cup {}) /\ Undisturbed(new, holds[r] \cup {})
      <3>1. Carries(new, holds[r] \cup {})
        BY <1>1, <2>3 DEF Carries, OwnContent, IsMerge
      <3>2. Undisturbed(new, holds[r] \cup {})
        BY <1>4, <2>3 DEF Undisturbed, RemoverSees
      <3> QED BY <3>1, <3>2
    <2> HIDE DEF q
    <2>4. Proceeds(r)
      BY <1>1, <2>1, <2>2, <2>3, GoesOnward DEF q, Steps
    <2> QED BY <2>4
  <1>5. CASE q.op # "delete" /\ Refused(q, id)
    BY <1>5 DEF CheckResource, Declines
  <1>6. CASE q.op # "delete" /\ ~Refused(q, id)
    <2> DEFINE new == [q EXCEPT !.pc = "version", !.found = id]
    <2>1. req' = [req EXCEPT ![r] = new] /\ UNCHANGED <<tables, holds, history>>
      BY <1>6 DEF CheckResource
    <2>2. UNCHANGED <<tables, announced, raced>> /\ Locks(r, {})
      BY <1>1, <2>1, NoLock DEF history
    <2>3. /\ new.pc = "version" /\ new.op = q.op /\ new.version = q.version
          /\ new.body = q.body /\ new.found = id /\ new.existing = q.existing
          /\ new.row = q.row /\ new.content = q.content /\ new.changed = q.changed
      BY <1>1 DEF ActiveReq
    <2> HIDE DEF new
    <2>4. Carries(new, holds[r] \cup {})
      BY <1>1, <1>2, <2>3 DEF Carries, OwnContent, IsMerge
    <2>5. Undisturbed(new, holds[r] \cup {})
      BY <1>6, <2>3 DEF Undisturbed, WriterSees, Read, Refused
    <2>6. Proceeds(r)
      BY <1>1, <2>1, <2>2, <2>3, <2>4, <2>5, Onward DEF Steps
    <2> QED BY <2>6
  <1> QED BY <1>3, <1>4, <1>5, <1>6

LEMMA CreateVersionServes ==
  ASSUME SInv, NEW r \in Requests, IsOpen(r), CreateVersion(r)
  PROVE  Proceeds(r)
  <1> DEFINE q == req[r]
             step == IF q.op \notin {"publish", "merge"} THEN "existing"
                     ELSE IF q.tags = <<>> THEN "find" ELSE "tag"
  <1>1. /\ IInv /\ q # Idle /\ q \in ActiveReq /\ Carries(q, holds[r])
        /\ r \notin raced => Undisturbed(q, holds[r])
    BY OpenFacts
  <1>2. /\ q.pc = "version" /\ q.op \in {"publish", "merge", "put", "patch"}
        /\ q.op # "delete"
    BY <1>1, IsWriter DEF CreateVersion, WriteSteps, ReadSteps, ActiveReq
  <1>3. Go(r, step) /\ Lock(r, Needs(r)) /\ UNCHANGED <<tables, history>>
    BY DEF CreateVersion
  <1>4. PICK K : K = Needs(r)
    OBVIOUS
  <1>5. \A k \in K : k[1] # "share"
    BY <1>2, <1>4, NeedFacts DEF Key
  <1>6. /\ step \in {"tag", "find", "existing"} /\ step \in Steps
        /\ step = "existing" <=> q.op \notin {"publish", "merge"}
    BY DEF Steps
  <1> HIDE DEF step
  <1>7. UNCHANGED <<tables, announced, raced>> /\ Locks(r, K)
    BY <1>1, <1>3, <1>4, LockFacts DEF history
  <1>8. ASSUME NEW new, new.pc = step, new.op = q.op, new.version = q.version,
               new.body = q.body, new.found = q.found, new.existing = q.existing,
               new.row = q.row, new.content = q.content, new.changed = q.changed
        PROVE  /\ Carries(new, holds[r] \cup K)
               /\ r \notin raced => Undisturbed(new, holds[r] \cup K)
    <2>1. Carries(new, holds[r] \cup K)
      BY <1>1, <1>2, <1>5, <1>6, <1>8 DEF Carries, OwnContent, IsMerge
    <2>2. ASSUME r \notin raced PROVE Undisturbed(new, holds[r] \cup K)
      BY <1>1, <1>2, <1>6, <1>8, <2>2 DEF Undisturbed, WriterSees, Checked, Read, Refused
    <2> QED BY <2>1, <2>2
  <1> HIDE DEF q
  <1> QED BY <1>1, <1>3, <1>6, <1>7, <1>8, GoesOnward DEF q

LEMMA InsertTagServes ==
  ASSUME SInv, NEW r \in Requests, IsOpen(r), InsertTag(r)
  PROVE  Proceeds(r)
  <1> DEFINE q == req[r]
  <1>1. /\ IInv /\ q # Idle /\ q \in ActiveReq /\ Carries(q, holds[r])
        /\ r \notin raced => Undisturbed(q, holds[r])
    BY OpenFacts
  <1>2. PICK step \in {"tag", "find"}, K \in {{}, Needs(r)} :
            /\ req[r].pc = "tag" /\ Waits(r) = {} /\ UNCHANGED <<tables, history>>
            /\ Goes(r, step) /\ SameMemory(r) /\ Locks(r, K)
            /\ \A k \in K : k = Key("tag", Tagging(req[r]))
    BY <1>1, InsertTagFacts
  <1>3. q.op # "delete"
    BY <1>1, <1>2, IsWriter DEF WriteSteps, ReadSteps
  <1>4. \A k \in K : k[1] # "share"
    BY <1>2 DEF Key
  <1>5. PICK new : new = req'[r]
    OBVIOUS
  <1>6. /\ new # Idle /\ new.pc = step /\ new.op = q.op /\ new.version = q.version
        /\ new.body = q.body /\ new.found = q.found /\ new.existing = q.existing
        /\ new.row = q.row /\ new.content = q.content /\ new.changed = q.changed
    BY <1>2, <1>5 DEF Goes, SameMemory
  <1>7. Carries(new, holds[r] \cup K)
    BY <1>1, <1>2, <1>3, <1>4, <1>6 DEF Carries, OwnContent, IsMerge
  <1>8. ASSUME r \notin raced PROVE Undisturbed(new, holds[r] \cup K)
    BY <1>1, <1>2, <1>3, <1>6, <1>8 DEF Undisturbed, WriterSees, Checked, Read, Refused
  <1>9. holds'[r] = holds[r] \cup K /\ Alone(r) /\ UNCHANGED <<tables, announced, raced>>
    BY <1>2 DEF Locks, Goes, Alone, history
  <1> QED BY <1>2, <1>5, <1>6, <1>7, <1>8, <1>9 DEF Proceeds, Steps

LEMMA FindPactServes ==
  ASSUME SInv, NEW r \in Requests, IsOpen(r), FindPact(r)
  PROVE  Proceeds(r)
  <1> DEFINE q == req[r]
             new == [q EXCEPT !.pc = "existing", !.found = latest[q.version]]
  <1>1. /\ IInv /\ q # Idle /\ q \in ActiveReq /\ Carries(q, holds[r])
        /\ r \notin raced => Undisturbed(q, holds[r])
    BY OpenFacts
  <1>2. q.pc = "find" /\ q.op # "delete"
    BY <1>1, IsWriter DEF FindPact, WriteSteps, ReadSteps
  <1>3. req' = [req EXCEPT ![r] = new] /\ UNCHANGED <<tables, holds, history>>
    BY DEF FindPact
  <1>4. UNCHANGED <<tables, announced, raced>> /\ Locks(r, {})
    BY <1>1, <1>3, NoLock DEF history
  <1>5. /\ new.pc = "existing" /\ new.op = q.op /\ new.version = q.version
        /\ new.body = q.body /\ new.found = latest[q.version] /\ new.existing = q.existing
        /\ new.row = q.row /\ new.content = q.content /\ new.changed = q.changed
    BY <1>1 DEF ActiveReq
  <1> HIDE DEF new
  <1>6. Carries(new, holds[r] \cup {})
    BY <1>1, <1>2, <1>5 DEF Carries, OwnContent, IsMerge
  <1>7. ASSUME r \notin raced PROVE Undisturbed(new, holds[r] \cup {})
    BY <1>1, <1>2, <1>5, <1>7 DEF Undisturbed, WriterSees, Checked, Read, Refused
  <1> QED BY <1>1, <1>3, <1>4, <1>5, <1>6, <1>7, Onward DEF Steps

LEMMA ReadExistingServes ==
  ASSUME SInv, NEW r \in Requests, IsOpen(r), ReadExisting(r)
  PROVE  Proceeds(r) \/ Declines(r)
  <1> DEFINE q == req[r]
             id == latest[q.version]
  <1>1. /\ IInv /\ q # Idle /\ q \in ActiveReq /\ q.version \in Versions
        /\ Carries(q, holds[r])
        /\ r \notin raced => Undisturbed(q, holds[r])
    BY OpenFacts
  <1>2. q.pc = "existing" /\ q.op # "delete" /\ WriteOK(r)
    BY <1>1, IsWriter DEF ReadExisting, WriteSteps, ReadSteps
  <1>3. q.existing = NoRow /\ q.content = q.body
    BY <1>1, <1>2 DEF WriteOK, Carries
  <1>4. r \notin raced => q.found = id /\ (Merges(q) <=> IsMerge(q) /\ id # NoRow)
    BY <1>1, <1>2 DEF Undisturbed, WriterSees, Merges, IsMerge
  <1>5. CASE Merges(q) /\ id = NoRow
    BY <1>4, <1>5 DEF ReadExisting, Declines
  <1>6. CASE ~Merges(q) /\ id = NoRow
    <2>1. Go(r, "insert") /\ UNCHANGED <<tables, holds, history>>
      BY <1>6 DEF ReadExisting
    <2>2. UNCHANGED <<tables, announced, raced>> /\ Locks(r, {})
      BY <1>1, <2>1, NoLock DEF history
    <2>3. ASSUME NEW new, new.pc = "insert", new.op = q.op, new.version = q.version,
                 new.body = q.body, new.found = q.found, new.existing = q.existing,
                 new.row = q.row, new.content = q.content, new.changed = q.changed
          PROVE  /\ Carries(new, holds[r] \cup {})
                 /\ r \notin raced => Undisturbed(new, holds[r] \cup {})
      <3>1. Carries(new, holds[r] \cup {})
        BY <1>1, <1>2, <2>3 DEF Carries, OwnContent, IsMerge
      <3>2. ASSUME r \notin raced PROVE Undisturbed(new, holds[r] \cup {})
        BY <1>1, <1>2, <1>3, <1>4, <1>6, <2>3, <3>2
        DEF Undisturbed, WriterSees, Checked, Read, Refused, IsMerge
      <3> QED BY <3>1, <3>2
    <2> HIDE DEF q
    <2>4. Proceeds(r)
      BY <1>1, <2>1, <2>2, <2>3, GoesOnward DEF q, Steps
    <2> QED BY <2>4
  <1>7. CASE id # NoRow
    <2> DEFINE content == IF Merges(q) THEN MergePacts(pub[id].content, q.body) ELSE q.body
               new == [q EXCEPT !.pc = "model", !.existing = id, !.base = pub[id].content,
                                !.content = content]
    <2>1. /\ req' = [req EXCEPT ![r] = new]
          /\ UNCHANGED <<tables, holds, announced, written, raced>>
      BY <1>7 DEF ReadExisting
    <2>2. UNCHANGED <<tables, announced, raced>> /\ Locks(r, {})
      BY <1>1, <2>1, NoLock
    <2>3. /\ new.pc = "model" /\ new.op = q.op /\ new.version = q.version
          /\ new.body = q.body /\ new.found = q.found /\ new.existing = id
          /\ new.row = q.row /\ new.content = content /\ new.changed = q.changed
      BY <1>1 DEF ActiveReq
    <2>4. /\ pub[id] # NoRow /\ pub[id].version = q.version
          /\ pub[id].content \in announced /\ Current(q.version) = pub[id].content
      BY <1>1, <1>7, ServedRow
    <2> HIDE DEF new
    <2>5. Carries(new, holds[r] \cup {})
      <3>1. OwnContent(new)
        BY <2>3, <2>4 DEF OwnContent, IsMerge, Merges
      <3> HIDE DEF content
      <3> QED BY <1>1, <1>2, <2>3, <2>4, <3>1 DEF Carries
    <2>6. ASSUME r \notin raced PROVE Undisturbed(new, holds[r] \cup {})
      <3>1. content = IF IsMerge(q) /\ id # NoRow
                      THEN MergePacts(Current(q.version), q.body) ELSE q.body
        BY <1>4, <2>4, <2>6
      <3> HIDE DEF content
      <3> QED BY <1>1, <1>2, <1>4, <2>3, <2>6, <3>1
          DEF Undisturbed, WriterSees, Checked, Read, Refused, IsMerge
    <2>7. Proceeds(r)
      BY <1>1, <2>1, <2>2, <2>3, <2>5, <2>6, Onward DEF Steps
    <2> QED BY <2>7
  <1> QED BY <1>5, <1>6, <1>7

LEMMA FindModelServes ==
  ASSUME SInv, NEW r \in Requests, IsOpen(r), FindModel(r)
  PROVE  Proceeds(r) \/ Declines(r)
  <1> DEFINE q == req[r]
             row == pub[q.existing]
  <1>1. /\ IInv /\ q # Idle /\ q \in ActiveReq /\ q.version \in Versions
        /\ Carries(q, holds[r])
        /\ r \notin raced => Undisturbed(q, holds[r])
    BY OpenFacts
  <1>2. q.pc = "model" /\ q.op # "delete" /\ WriteOK(r) /\ q.existing # NoRow
    BY <1>1, IsWriter DEF FindModel, WriteSteps, ReadSteps, WriteOK
  <1>3. r \notin raced =>
          /\ q.existing = latest[q.version] /\ row # NoRow
          /\ Current(q.version) = row.content
    BY <1>1, <1>2, ServedRow DEF Undisturbed, WriterSees, Read
  <1>4. \A x : Key("revision", x) \notin holds[r]
    BY <1>2 DEF WriteOK, Kind, ReadSteps, Key
  <1>5. CASE row = NoRow
    BY <1>3, <1>5 DEF FindModel, Declines
  <1>6. CASE row # NoRow /\ row.content = q.content
    <2> DEFINE new == [q EXCEPT !.pc = "announce", !.row = q.existing]
    <2>1. req' = [req EXCEPT ![r] = new] /\ UNCHANGED <<tables, holds, history>>
      BY <1>6 DEF FindModel
    <2>2. UNCHANGED <<tables, announced, raced>> /\ Locks(r, {})
      BY <1>1, <2>1, NoLock DEF history
    <2>3. /\ new.pc = "announce" /\ new.op = q.op /\ new.version = q.version
          /\ new.body = q.body /\ new.found = q.found /\ new.existing = q.existing
          /\ new.row = q.existing /\ new.content = q.content /\ new.changed = q.changed
      BY <1>1 DEF ActiveReq
    <2>4. \A k \in holds[r] : k[1] # "share"
      BY <1>2 DEF WriteOK, Kind, ReadSteps
    <2> HIDE DEF new
    <2>5. Carries(new, holds[r] \cup {})
      BY <1>1, <1>2, <2>3, <2>4 DEF Carries, OwnContent, IsMerge
    <2>6. ASSUME r \notin raced PROVE Undisturbed(new, holds[r] \cup {})
      BY <1>1, <1>2, <1>3, <1>6, <2>3, <2>6
      DEF Undisturbed, WriterSees, Checked, Read, Refused, IsMerge
    <2>7. Proceeds(r)
      BY <1>1, <2>1, <2>2, <2>3, <2>5, <2>6, Onward DEF Steps
    <2> QED BY <2>7
  <1>7. CASE row # NoRow /\ row.content # q.content
    <2> DEFINE new == [q EXCEPT !.pc = "insert", !.revision = NextRevision(row)]
    <2>1. req' = [req EXCEPT ![r] = new] /\ UNCHANGED <<tables, holds, history>>
      BY <1>7 DEF FindModel
    <2>2. UNCHANGED <<tables, announced, raced>> /\ Locks(r, {})
      BY <1>1, <2>1, NoLock DEF history
    <2>3. /\ new.pc = "insert" /\ new.op = q.op /\ new.version = q.version
          /\ new.body = q.body /\ new.found = q.found /\ new.existing = q.existing
          /\ new.row = q.row /\ new.content = q.content /\ new.changed = q.changed
      BY <1>1 DEF ActiveReq
    <2> HIDE DEF new
    <2>5. Carries(new, holds[r] \cup {})
      BY <1>1, <1>2, <2>3 DEF Carries, OwnContent, IsMerge
    <2>6. ASSUME r \notin raced PROVE Undisturbed(new, holds[r] \cup {})
      BY <1>1, <1>2, <1>3, <2>3, <2>6
      DEF Undisturbed, WriterSees, Checked, Read, Refused, IsMerge
    <2>7. Proceeds(r)
      BY <1>1, <2>1, <2>2, <2>3, <2>5, <2>6, Onward DEF Steps
    <2> QED BY <2>7
  <1> QED BY <1>5, <1>6, <1>7

LEMMA WritePublicationServes ==
  ASSUME SInv, NEW r \in Requests, IsOpen(r), WritePublication(r)
  PROVE  Proceeds(r)
  <1> DEFINE q == req[r]
             key == Key("revision", <<q.version, q.revision>>)
             id == Upserted(q.version, q.revision)
  <1>1. /\ IInv /\ q # Idle /\ q \in ActiveReq /\ Carries(q, holds[r])
        /\ r \notin raced => Undisturbed(q, holds[r])
    BY OpenFacts
  <1>2. q.pc = "insert" /\ q.op # "delete" /\ WriteOK(r)
    BY <1>1, IsWriter DEF WritePublication, WriteSteps, ReadSteps
  <1>3. \A k \in holds[r] : k[1] # "share"
    BY <1>2 DEF WriteOK, Kind, ReadSteps
  <1>4. ASSUME NEW K, Lock(r, K), \A k \in K : k[1] # "share",
               NEW new, req' = [req EXCEPT ![r] = new],
               new.pc = "latest", new.op = q.op, new.version = q.version,
               new.body = q.body, new.found = q.found, new.existing = q.existing,
               new.content = q.content, new.changed = q.changed
        PROVE  Proceeds(r)
    <2>1. UNCHANGED <<tables, announced, raced>> /\ Locks(r, K)
      BY <1>1, <1>4, LockFacts DEF WritePublication, history
    <2>2. Carries(new, holds[r] \cup K)
      BY <1>1, <1>2, <1>3, <1>4 DEF Carries, OwnContent, IsMerge
    <2>3. ASSUME r \notin raced PROVE Undisturbed(new, holds[r] \cup K)
      BY <1>1, <1>2, <1>4, <2>3
      DEF Undisturbed, WriterSees, Checked, Read, Refused, IsMerge
    <2> QED BY <1>1, <1>4, <2>1, <2>2, <2>3, Onward DEF Steps
  <1>5. key[1] # "share" /\ Key("update", id)[1] # "share"
    BY DEF Key
  <1>6. CASE id = NoRow
    <2> DEFINE K == {key}
               new == [q EXCEPT !.pc = "latest", !.row = r]
    <2>1. Lock(r, K) /\ req' = [req EXCEPT ![r] = new]
      BY <1>6 DEF WritePublication
    <2>2. /\ new.pc = "latest" /\ new.op = q.op /\ new.version = q.version
          /\ new.body = q.body /\ new.found = q.found /\ new.existing = q.existing
          /\ new.content = q.content /\ new.changed = q.changed
      BY <1>1 DEF ActiveReq
    <2>3. \A k \in K : k[1] # "share"
      BY <1>5
    <2> HIDE DEF K, new
    <2> QED BY <1>4, <2>1, <2>2, <2>3
  <1>7. CASE id # NoRow
    <2> DEFINE K == {key, Key("update", id)}
               new == [q EXCEPT !.pc = "latest", !.row = id]
    <2>1. Lock(r, K) /\ req' = [req EXCEPT ![r] = new]
      BY <1>7 DEF WritePublication
    <2>2. /\ new.pc = "latest" /\ new.op = q.op /\ new.version = q.version
          /\ new.body = q.body /\ new.found = q.found /\ new.existing = q.existing
          /\ new.content = q.content /\ new.changed = q.changed
      BY <1>1 DEF ActiveReq
    <2>3. \A k \in K : k[1] # "share"
      BY <1>5
    <2> HIDE DEF K, new
    <2> QED BY <1>4, <2>1, <2>2, <2>3
  <1> QED BY <1>6, <1>7

LEMMA WriteLatestServes ==
  ASSUME SInv, NEW r \in Requests, IsOpen(r), WriteLatest(r)
  PROVE  Proceeds(r)
  <1> DEFINE q == req[r]
             K == {Key("latest", q.version)}
  <1>1. /\ IInv /\ q # Idle /\ q \in ActiveReq /\ Carries(q, holds[r])
        /\ r \notin raced => Undisturbed(q, holds[r])
    BY OpenFacts
  <1>2. q.pc = "latest" /\ q.op # "delete" /\ WriteOK(r)
    BY <1>1, IsWriter DEF WriteLatest, WriteSteps, ReadSteps
  <1>3. Go(r, "announce") /\ Lock(r, K) /\ UNCHANGED <<tables, history>>
    BY <1>2, NeedFacts DEF WriteLatest, Latest
  <1>4. Revised(q) \in holds[r] /\ \A k \in K : k[1] # "share"
    BY <1>2 DEF WriteOK, Revision, Revised, Key
  <1> HIDE DEF K
  <1>5. UNCHANGED <<tables, announced, raced>> /\ Locks(r, K)
    BY <1>1, <1>3, LockFacts DEF history
  <1>6. ASSUME NEW new, new.pc = "announce", new.op = q.op, new.version = q.version,
               new.body = q.body, new.found = q.found, new.existing = q.existing,
               new.row = q.row, new.content = q.content, new.changed = q.changed,
               new.revision = q.revision
        PROVE  /\ Carries(new, holds[r] \cup K)
               /\ r \notin raced => Undisturbed(new, holds[r] \cup K)
    <2>1. Revised(new) \in holds[r] \cup K
      BY <1>4, <1>6 DEF Revised
    <2>2. Carries(new, holds[r] \cup K)
      BY <1>1, <1>2, <1>4, <1>6, <2>1 DEF Carries, OwnContent, IsMerge
    <2>3. ASSUME r \notin raced PROVE Undisturbed(new, holds[r] \cup K)
      BY <1>1, <1>2, <1>6, <2>1, <2>3
      DEF Undisturbed, WriterSees, Checked, Read, Refused, IsMerge
    <2> QED BY <2>2, <2>3
  <1> HIDE DEF q
  <1> QED BY <1>1, <1>3, <1>5, <1>6, GoesOnward DEF q, Steps

LEMMA AnnounceServes ==
  ASSUME SInv, NEW r \in Requests, IsOpen(r), Announce(r)
  PROVE  Proceeds(r) \/ Declines(r)
  <1> DEFINE q == req[r]
  <1>1. /\ IInv /\ q # Idle /\ q \in ActiveReq /\ q.version \in Versions
        /\ Carries(q, holds[r])
        /\ r \notin raced => Undisturbed(q, holds[r])
    BY OpenFacts
  <1>2. q.pc = "announce" /\ q.op # "delete" /\ WriteOK(r)
    BY <1>1, IsWriter DEF Announce, WriteSteps, ReadSteps
  <1>3. ASSUME q.row # r, pub[q.row] = NoRow PROVE r \in raced
    <2> SUFFICES ASSUME r \notin raced PROVE FALSE
      OBVIOUS
    <2>1. Revised(q) \notin holds[r]
      BY <1>2, <1>3 DEF WriteOK, RowOK, Revision, Revised
    <2>2. q.row = latest[q.version] /\ latest[q.version] # NoRow
      BY <1>1, <1>2, <2>1 DEF Carries, Undisturbed, WriterSees, Read
    <2> QED BY <1>1, <1>3, <2>2, ServedRow
  <1>4. PICK changed :
          \/ /\ req' = [req EXCEPT ![r] = [@ EXCEPT !.pc = "commit", !.changed = changed]]
             /\ \E K \in {{}, {Key("share", q.row)}} : Locks(r, K)
             /\ UNCHANGED <<tables, history>>
          \/ q.row # r /\ pub[q.row] = NoRow /\ Fail(r, "error")
    BY <1>1, LockFacts, NoLock DEF Announce
  <1>5. CASE q.row # r /\ pub[q.row] = NoRow /\ Fail(r, "error")
    BY <1>3, <1>5 DEF Declines
  <1>6. CASE /\ req' = [req EXCEPT ![r] = [@ EXCEPT !.pc = "commit", !.changed = changed]]
             /\ \E K \in {{}, {Key("share", q.row)}} : Locks(r, K)
             /\ UNCHANGED <<tables, history>>
    <2> DEFINE new == [q EXCEPT !.pc = "commit", !.changed = changed]
    <2>1. req' = [req EXCEPT ![r] = new] /\ UNCHANGED <<tables, announced, raced>>
      BY <1>6 DEF history
    <2>2. PICK K \in {{}, {Key("share", q.row)}} : Locks(r, K)
      BY <1>6
    <2>3. /\ new.pc = "commit" /\ new.op = q.op /\ new.version = q.version
          /\ new.body = q.body /\ new.found = q.found /\ new.existing = q.existing
          /\ new.row = q.row /\ new.content = q.content /\ new.revision = q.revision
      BY <1>1 DEF ActiveReq
    <2> HIDE DEF new
    <2>4. Revised(new) \in holds[r] \cup K <=> Revised(q) \in holds[r]
      BY <2>2, <2>3 DEF Revised, Key
    <2>5. \A k \in K : k = Key("share", q.row)
      BY <2>2
    <2>6. Carries(new, holds[r] \cup K)
      BY <1>1, <1>2, <2>3, <2>4, <2>5 DEF Carries, OwnContent, IsMerge
    <2>7. ASSUME r \notin raced PROVE Undisturbed(new, holds[r] \cup K)
      BY <1>1, <1>2, <2>3, <2>4, <2>7
      DEF Undisturbed, WriterSees, Checked, Read, Refused, IsMerge
    <2>8. Proceeds(r)
      BY <1>1, <2>1, <2>2, <2>3, <2>6, <2>7, Onward DEF Steps
    <2> QED BY <2>8
  <1> QED BY <1>4, <1>5, <1>6

LEMMA UnhookRevisionsServes ==
  ASSUME SInv, NEW r \in Requests, IsOpen(r), UnhookRevisions(r)
  PROVE  Proceeds(r)
  <1> DEFINE q == req[r]
             K == {Key("unhook", h) : h \in Hooks(r)}
  <1>1. /\ IInv /\ q # Idle /\ q \in ActiveReq /\ Carries(q, holds[r])
        /\ r \notin raced => Undisturbed(q, holds[r])
    BY OpenFacts
  <1>2. q.pc = "unhook" /\ q.op = "delete"
    BY <1>1, IsDeletion DEF UnhookRevisions, RemoveSteps
  <1>3. Go(r, "choose") /\ Lock(r, K) /\ UNCHANGED <<tables, history>>
    BY <1>2, NeedFacts DEF UnhookRevisions
  <1>4. /\ \A k \in K : k[1] # "share"
        /\ \A h \in hooked : h[1] \in Rows(q.version) => Key("unhook", h) \in K
    BY DEF Key, Hooks
  <1> HIDE DEF K
  <1>5. UNCHANGED <<tables, announced, raced>> /\ Locks(r, K)
    BY <1>1, <1>3, LockFacts DEF history
  <1>6. ASSUME NEW new, new.pc = "choose", new.op = q.op, new.version = q.version,
               new.body = q.body, new.existing = q.existing, new.row = q.row,
               new.content = q.content, new.changed = q.changed
        PROVE  /\ Carries(new, holds[r] \cup K)
               /\ r \notin raced => Undisturbed(new, holds[r] \cup K)
    <2>1. Carries(new, holds[r] \cup K)
      BY <1>1, <1>2, <1>4, <1>6 DEF Carries, OwnContent, IsMerge
    <2>2. ASSUME r \notin raced PROVE Undisturbed(new, holds[r] \cup K)
      BY <1>1, <1>2, <1>4, <1>6, <2>2 DEF Undisturbed, RemoverSees
    <2> QED BY <2>1, <2>2
  <1> HIDE DEF q
  <1> QED BY <1>1, <1>3, <1>5, <1>6, GoesOnward DEF q, Steps

LEMMA ChooseRevisionsServes ==
  ASSUME SInv, NEW r \in Requests, IsOpen(r), ChooseRevisions(r)
  PROVE  Proceeds(r)
  <1> DEFINE q == req[r]
             new == [q EXCEPT !.pc = "remove", !.targets = Rows(q.version)]
  <1>1. /\ IInv /\ q # Idle /\ q \in ActiveReq /\ Carries(q, holds[r])
        /\ r \notin raced => Undisturbed(q, holds[r])
    BY OpenFacts
  <1>2. q.pc = "choose" /\ q.op = "delete"
    BY <1>1, IsDeletion DEF ChooseRevisions, RemoveSteps
  <1>3. req' = [req EXCEPT ![r] = new] /\ UNCHANGED <<tables, holds, history>>
    BY DEF ChooseRevisions, Choosing
  <1>4. UNCHANGED <<tables, announced, raced>> /\ Locks(r, {})
    BY <1>1, <1>3, NoLock DEF history
  <1>5. /\ new.pc = "remove" /\ new.op = q.op /\ new.version = q.version
        /\ new.body = q.body /\ new.existing = q.existing /\ new.row = q.row
        /\ new.content = q.content /\ new.changed = q.changed
        /\ new.targets = Rows(q.version)
    BY <1>1 DEF ActiveReq
  <1> HIDE DEF new
  <1>6. Carries(new, holds[r] \cup {})
    BY <1>1, <1>2, <1>5 DEF Carries, OwnContent, IsMerge
  <1>7. ASSUME r \notin raced PROVE Undisturbed(new, holds[r] \cup {})
    BY <1>1, <1>2, <1>5, <1>7 DEF Undisturbed, RemoverSees
  <1> QED BY <1>1, <1>3, <1>4, <1>5, <1>6, <1>7, Onward DEF Steps

LEMMA RemoveRevisionsServes ==
  ASSUME SInv, NEW r \in Requests, IsOpen(r), RemoveRevisions(r)
  PROVE  Proceeds(r) \/ Declines(r)
  <1> DEFINE q == req[r]
             referred == {h \in hooked : h[1] \in Removable(r) /\ Key("unhook", h) \notin holds[r]}
             K == {Key("delete", i) : i \in Removable(r)}
  <1>1. /\ IInv /\ q # Idle /\ q \in ActiveReq /\ Carries(q, holds[r])
        /\ r \notin raced => Undisturbed(q, holds[r])
    BY OpenFacts
  <1>2. q.pc = "remove" /\ q.op = "delete"
    BY <1>1, IsDeletion DEF RemoveRevisions, RemoveSteps
  <1>3. r \notin raced => referred = {}
    BY <1>1, <1>2 DEF Undisturbed, RemoverSees, Removable
  <1>4. CASE referred # {}
    BY <1>3, <1>4 DEF RemoveRevisions, Declines
  <1>5. CASE referred = {}
    <2>1. Go(r, "cascade") /\ Lock(r, K) /\ UNCHANGED <<tables, history>>
      BY <1>5 DEF RemoveRevisions
    <2>2. \A k \in K : k[1] # "share"
      <3>1. \A i : Key("delete", i)[1] = "delete"
        BY DEF Key
      <3> QED BY <3>1
    <2> HIDE DEF K
    <2>3. UNCHANGED <<tables, announced, raced>> /\ Locks(r, K)
      BY <1>1, <2>1, LockFacts DEF history
    <2>4. ASSUME NEW new, new.pc = "cascade", new.op = q.op, new.version = q.version,
                 new.body = q.body, new.existing = q.existing, new.row = q.row,
                 new.content = q.content, new.changed = q.changed, new.targets = q.targets
          PROVE  /\ Carries(new, holds[r] \cup K)
                 /\ r \notin raced => Undisturbed(new, holds[r] \cup K)
      <3>1. Carries(new, holds[r] \cup K)
        BY <1>1, <1>2, <2>2, <2>4 DEF Carries, OwnContent, IsMerge
      <3>2. ASSUME r \notin raced PROVE Undisturbed(new, holds[r] \cup K)
        BY <1>1, <1>2, <2>4, <3>2 DEF Undisturbed, RemoverSees
      <3> QED BY <3>1, <3>2
    <2> HIDE DEF q
    <2>5. Proceeds(r)
      BY <1>1, <2>1, <2>3, <2>4, GoesOnward DEF q, Steps
    <2> QED BY <2>5
  <1> QED BY <1>4, <1>5

LEMMA CascadeServes ==
  ASSUME SInv, NEW r \in Requests, IsOpen(r), Cascade(r)
  PROVE  Proceeds(r)
  <1> DEFINE q == req[r]
  <1>1. /\ IInv /\ q # Idle /\ q \in ActiveReq /\ Carries(q, holds[r])
        /\ r \notin raced => Undisturbed(q, holds[r])
    BY OpenFacts
  <1>2. q.pc = "cascade" /\ q.op = "delete"
    BY <1>1, IsDeletion DEF Cascade, RemoveSteps
  <1>3. PICK K \in {{}, {Key("latest", q.version)}} : Locks(r, K)
    <2>1. Lock(r, Needs(r)) /\ Needs(r) \in {{}, {Key("latest", q.version)}}
      BY <1>2, NeedFacts DEF Cascade, Latest
    <2> QED BY <1>1, <2>1, LockFacts
  <1>4. Go(r, "commit") /\ UNCHANGED <<tables, announced, raced>>
    BY DEF Cascade, history
  <1>5. \A k \in K : k[1] = "latest"
    BY <1>3 DEF Key
  <1>6. ASSUME NEW new, new.pc = "commit", new.op = q.op, new.version = q.version,
               new.body = q.body, new.existing = q.existing, new.row = q.row,
               new.content = q.content, new.changed = q.changed, new.targets = q.targets
        PROVE  /\ Carries(new, holds[r] \cup K)
               /\ r \notin raced => Undisturbed(new, holds[r] \cup K)
    <2>1. Carries(new, holds[r] \cup K)
      BY <1>1, <1>2, <1>5, <1>6 DEF Carries, OwnContent, IsMerge
    <2>2. ASSUME r \notin raced PROVE Undisturbed(new, holds[r] \cup K)
      BY <1>1, <1>2, <1>6, <2>2 DEF Undisturbed, RemoverSees
    <2> QED BY <2>1, <2>2
  <1> HIDE DEF q
  <1> QED BY <1>1, <1>3, <1>4, <1>6, GoesOnward DEF q, Steps

\* Every statement but the last one is nothing to those who look at the answers, or a
\* reason for one.
LEMMA StatementServes ==
  ASSUME SInv, NEW r \in Requests, IsOpen(r), Step(r), ~Commit(r)
  PROVE  Proceeds(r) \/ Declines(r)
  <1>1. DeadlockVictim(r) => Declines(r)
    BY DEF DeadlockVictim, Declines
  <1> QED
  BY <1>1, CheckResourceServes, CreateVersionServes, InsertTagServes, FindPactServes, ReadExistingServes,
     FindModelServes, WritePublicationServes, WriteLatestServes, AnnounceServes,
     UnhookRevisionsServes, ChooseRevisionsServes, RemoveRevisionsServes, CascadeServes
  DEF Step

-----------------------------------------------------------------------------
(* The last statement *)

LEMMA CommitsAreSafe ==
  ASSUME IInv, NEW r \in Requests, Commit(r)
  PROVE  Commits(r)
  <1>1. /\ req[r] # Idle /\ req[r].pc = "commit" /\ CommitEnds(r)
        /\ Unpublished(r) \/ Publishes(r) \/ Deletes(r)
    BY CommitFacts
  <1>2. CASE Unpublished(r)
    <2>1. pub' = pub /\ latest' = latest
      BY <1>2 DEF Unpublished
    <2>2. \A v \in Versions : Rows(v)' = Rows(v)
      BY <2>1 DEF Rows
    <2> QED BY <2>1, <2>2 DEF Commits
  <1>3. CASE Publishes(r)
    BY <1>1, <1>3, PublishFacts, PublishCommits
  <1>4. CASE Deletes(r)
    BY <1>1, <1>4, DeleteFacts, DeleteCommits
  <1> QED BY <1>1, <1>2, <1>3, <1>4

\* A commit is nothing to the versions that it is not about.
LEMMA OtherVersionsStay ==
  ASSUME SInv, NEW r \in Requests, IsOpen(r), Commit(r),
         NEW v \in Versions, v # req[r].version
  PROVE  /\ latest'[v] = latest[v] /\ Rows(v)' = Rows(v)
         /\ \A i \in Rows(v) : pub'[i] = pub[i]
         /\ \A h \in hooked' : h[1] \in Rows(v) => h \in hooked
  <1> DEFINE q == req[r]
  <1>1. /\ IInv /\ q # Idle /\ q.version \in Versions /\ Carries(q, holds[r])
        /\ q.existing \in Ids /\ q.row \in Ids
    BY OpenFacts, ActiveFacts
  <1>2. /\ q.pc = "commit" /\ CommitEnds(r)
        /\ Unpublished(r) \/ Publishes(r) \/ Deletes(r)
    BY <1>1, CommitFacts
  <1>3. \A h \in hooked' : h \in hooked \/ (Key("share", h[1]) \in holds[r] /\ h[1] \in Requests)
    BY DEF Commit, CommitTables, Wrote
  <1>4. \A i \in Requests : Key("share", i) \in holds[r] => i = q.row /\ q.op # "delete"
    <2>1. \A i : Key("share", i)[1] = "share" /\ Key("share", i)[2] = i
      BY DEF Key
    <2>2. ASSUME NEW i \in Requests, Key("share", i) \in holds[r] PROVE q.op # "delete"
      <3>1. RequestOK(r) /\ q.pc \notin Outcomes
        BY <1>1, <1>2 DEF IInv, Outcomes
      <3> QED BY <1>1, <2>1, <2>2, <3>1 DEF RequestOK, DeleteOK, Kind
    <2>3. \A k \in holds[r] : k[1] = "share" => k = Key("share", q.row)
      BY <1>1 DEF Carries
    <2> QED BY <2>1, <2>2, <2>3
  <1>5. CASE Unpublished(r)
    <2>1. pub' = pub /\ latest' = latest /\ q.op # "delete" /\ Revised(q) \notin holds[r]
      BY <1>5 DEF Unpublished, Revision, Revised
    <2>2. Rows(v)' = Rows(v)
      BY <2>1 DEF Rows
    <2>3. q.row \notin Rows(v)
      BY <1>1, <1>2, <2>1, PublishingAssumption DEF Carries, Rows
    <2> QED BY <1>3, <1>4, <2>1, <2>2, <2>3
  <1>6. CASE Publishes(r)
    <2>1. PICK u \in Versions, id \in Requests, row \in Publication : NewRow(r, u, id, row)
      BY <1>1, <1>2, <1>6, PublishFacts
    <2>2. /\ u = q.version /\ id = q.row /\ row.version = u /\ row # NoRow
          /\ \A i \in Requests : pub'[i] = IF i = id THEN row ELSE pub[i]
          /\ latest'[v] = latest[v]
          /\ pub[id] = NoRow \/ pub[id].version = u
      BY <2>1 DEF NewRow
    <2>3. id \notin Rows(v)
      BY <2>2 DEF Rows
    <2>4. Rows(v)' = Rows(v)
      BY <2>2 DEF Rows
    <2>5. \A i \in Rows(v) : pub'[i] = pub[i]
      BY <2>2, <2>3 DEF Rows
    <2> QED BY <1>3, <1>4, <2>2, <2>3, <2>4, <2>5
  <1>7. CASE Deletes(r)
    <2>1. PICK u \in Versions : RowsGone(r, u)
      BY <1>1, <1>2, <1>7, DeleteFacts
    <2>2. /\ u = q.version /\ Removable(r) \subseteq Rows(u)
          /\ \A i \in Requests : pub'[i] = IF i \in Removable(r) THEN NoRow ELSE pub[i]
          /\ latest'[v] = latest[v]
      BY <2>1 DEF RowsGone
    <2>3. Removable(r) \cap Rows(v) = {}
      BY <2>2 DEF Rows
    <2>4. Rows(v)' = Rows(v)
      BY <2>2, <2>3 DEF Rows
    <2>5. \A i \in Rows(v) : pub'[i] = pub[i]
      BY <2>2, <2>3 DEF Rows
    <2>6. q.op = "delete"
      BY <1>7 DEF Deletes
    <2> QED BY <1>3, <1>4, <2>2, <2>4, <2>5, <2>6
  <1> QED BY <1>2, <1>5, <1>6, <1>7

LEMMA CommitIsAlone ==
  ASSUME SInv, NEW r \in Requests, IsOpen(r), Commit(r)
  PROVE  /\ Alone(r) /\ req'[r] # Idle /\ req'[r].pc = "done"
         /\ req'[r].op = req[r].op /\ req'[r].version = req[r].version
         /\ req'[r].body = req[r].body
         /\ announced \subseteq announced'
         /\ raced' = raced \cup {p \in Requests \ {r} : IsOpen(p) /\ req[p].version = req[r].version}
  <1>1. /\ CommitEnds(r)
        /\ raced' = raced \cup {p \in Requests \ {r} : IsOpen(p) /\ req[p].version = req[r].version}
    BY OpenFacts, CommitFacts DEF Commit
  <1> QED BY <1>1 DEF CommitEnds, Goes, SameMemory, Alone

LEMMA CommitKeepsOthers ==
  ASSUME SInv, NEW r \in Requests, IsOpen(r), Commit(r), NEW p \in Requests \ {r}, IsOpen(p)
  PROVE  /\ Carries(req[p], holds[p])'
         /\ p \notin raced' => Undisturbed(req[p], holds[p])'
  <1> DEFINE q == req[p]
  <1>0. PICK v \in Versions : v = req[p].version
    BY OpenFacts
  <1>1. /\ IInv /\ q # Idle /\ q.pc \notin Outcomes
        /\ Carries(q, holds[p])
        /\ p \notin raced => Undisturbed(q, holds[p])
        /\ q.existing \in Ids
    BY OpenFacts, ActiveFacts
  <1>2. /\ req'[p] = req[p] /\ holds'[p] = holds[p] /\ announced \subseteq announced'
        /\ raced' = raced \cup {x \in Requests \ {r} : IsOpen(x) /\ req[x].version = req[r].version}
    BY CommitIsAlone DEF Alone
  <1>3. Carries(q, holds[p])'
    <2>1. ASSUME q.existing # NoRow, pub'[q.existing] # NoRow
          PROVE  pub[q.existing] # NoRow /\ pub'[q.existing].version = pub[q.existing].version
      <3>1. Done(q.existing) /\ q.existing \in Requests
        BY <1>1, <2>1 DEF IInv, RequestOK, FoundOK, Ids
      <3>2. Commits(r)
        BY <1>1, CommitsAreSafe
      <3> QED BY <2>1, <3>1, <3>2 DEF Commits
    <2>2. OwnContent(q)'
      BY <1>1, <1>2 DEF Carries, OwnContent, IsMerge
    <2> QED BY <1>1, <1>2, <2>1, <2>2 DEF Carries, Revised
  <1>4. ASSUME p \notin raced' PROVE Undisturbed(q, holds[p])'
    <2>1. p \notin raced /\ v # req[r].version
      BY <1>0, <1>2, <1>4
    <2>2. /\ latest'[v] = latest[v] /\ Rows(v)' = Rows(v)
          /\ \A i \in Rows(v) : pub'[i] = pub[i]
          /\ \A h \in hooked' : h[1] \in Rows(v) => h \in hooked
      BY <2>1, OtherVersionsStay
    <2>3. latest[v] # NoRow => latest[v] \in Rows(v)
      BY <1>1, ServedRow
    <2>4. Current(v)' = Current(v)
      BY <2>2, <2>3 DEF Current
    <2>5. latest[v] # NoRow => pub'[latest[v]] = pub[latest[v]]
      BY <2>2, <2>3
    <2>6. CASE q.op = "delete"
      <3>1. RemoverSees(q, holds[p])
        BY <1>1, <2>1, <2>6 DEF Undisturbed
      <3>2. RemoverSees(q, holds[p])'
        BY <1>0, <1>2, <2>2, <3>1 DEF RemoverSees
      <3> QED BY <1>2, <2>6, <3>2 DEF Undisturbed
    <2>7. CASE q.op # "delete"
      <3>1. WriterSees(q, holds[p])
        BY <1>1, <2>1, <2>7 DEF Undisturbed
      <3>2. Refused(q, latest[v])' <=> Refused(q, latest[v])
        BY <1>2, <2>2, <2>5 DEF Refused
      <3>3. WriterSees(q, holds[p])'
        BY <1>0, <1>2, <2>2, <2>4, <3>1, <3>2 DEF WriterSees, Checked, Read, IsMerge, Revised
      <3> QED BY <1>2, <2>7, <3>3 DEF Undisturbed
    <2> QED BY <2>6, <2>7
  <1> QED BY <1>3, <1>4

-----------------------------------------------------------------------------
(* The invariant holds *)

LEMMA BeginFacts ==
  ASSUME SInv, NEW r \in Requests, Begin(r)
  PROVE  \E w \in Workload :
           /\ req[r] = Idle /\ UNCHANGED <<tables, announced, raced>> /\ Alone(r)
           /\ req'[r] # Idle /\ req'[r].pc \in Steps
           /\ req'[r].op = w.op /\ req'[r].version = w.version /\ req'[r].body = w.body
           /\ req'[r].tags = w.tags
           /\ Carries(req'[r], holds'[r]) /\ Undisturbed(req'[r], holds'[r])
  <1>1. req[r] = Idle /\ UNCHANGED <<tables, holds, history>> /\ IInv
    BY DEF Begin, SInv
  <1>2. PICK w \in Workload :
        req' = [req EXCEPT ![r] =
            [pc |-> IF w.op \in {"publish", "merge"} THEN "version" ELSE "arrived",
             op |-> w.op, version |-> w.version, tags |-> w.tags, body |-> w.body, inserted |-> 0,
             found |-> NoRow, existing |-> NoRow, base |-> NoRow, row |-> NoRow,
             content |-> w.body, revision |-> 1, changed |-> FALSE, targets |-> {}]]
    BY DEF Begin
  <1> DEFINE new ==
            [pc |-> IF w.op \in {"publish", "merge"} THEN "version" ELSE "arrived",
             op |-> w.op, version |-> w.version, tags |-> w.tags, body |-> w.body, inserted |-> 0,
             found |-> NoRow, existing |-> NoRow, base |-> NoRow, row |-> NoRow,
             content |-> w.body, revision |-> 1, changed |-> FALSE, targets |-> {}]
  <1>3. /\ new.pc \in {"version", "arrived"}
        /\ new.pc = "version" <=> w.op \in {"publish", "merge"}
        /\ new.op = w.op /\ new.version = w.version /\ new.body = w.body /\ new.tags = w.tags
        /\ new.content = new.body /\ new.existing = NoRow /\ new.changed = FALSE
    OBVIOUS
  <1> HIDE DEF new
  <1>4. req'[r] = new /\ \A q \in Requests \ {r} : req'[q] = req[q]
    BY <1>1, <1>2 DEF IInv, MemoryOK, new
  <1>5. holds'[r] = {}
    BY <1>1 DEF IInv, MemoryOK
  <1>6. Carries(new, {})
    BY <1>3 DEF Carries, OwnContent
  <1>7. Undisturbed(new, {})
    BY <1>3 DEF Undisturbed, RemoverSees, WriterSees, Checked, Read
  <1>8. new # Idle /\ new.pc \in Steps
    BY <1>3, IdleFacts DEF Steps
  <1> QED BY <1>1, <1>3, <1>4, <1>5, <1>6, <1>7, <1>8 DEF Alone, history

LEMMA SameTables ==
  ASSUME UNCHANGED <<tables, announced, raced>>, NEW q, NEW K
  PROVE  /\ Carries(q, K)' <=> Carries(q, K)
         /\ Undisturbed(q, K)' <=> Undisturbed(q, K)
  <1>1. UNCHANGED <<pub, latest, hooked, announced, raced>>
    BY DEF tables
  <1>2. Carries(q, K)' <=> Carries(q, K)
    BY <1>1 DEF Carries, OwnContent, IsMerge, Revised
  <1>3. Rows(q.version)' = Rows(q.version) /\ Current(q.version)' = Current(q.version)
    BY <1>1 DEF Rows, Current
  <1>4. RemoverSees(q, K)' <=> RemoverSees(q, K)
    BY <1>1, <1>3 DEF RemoverSees
  <1>5. Refused(q, latest[q.version])' <=> Refused(q, latest[q.version])
    BY <1>1 DEF Refused
  <1>6. WriterSees(q, K)' <=> WriterSees(q, K)
    BY <1>1, <1>3, <1>5 DEF WriterSees, Checked, Read, IsMerge, Revised
  <1> QED BY <1>2, <1>4, <1>6 DEF Undisturbed

\* What is to be known of each request.
Sound(r) ==
    IsOpen(r) =>
        /\ Carries(req[r], holds[r])
        /\ r \notin raced => Undisturbed(req[r], holds[r])

LEMMA SoundStays ==
  ASSUME UNCHANGED <<tables, announced, raced>>, NEW p \in Requests,
         IsOpen(p)' => Carries(req'[p], holds'[p])
                       /\ (p \notin raced => Undisturbed(req'[p], holds'[p]))
  PROVE  Sound(p)'
  <1>1. PICK q : q = req'[p]
    OBVIOUS
  <1>2. PICK K : K = holds'[p]
    OBVIOUS
  <1>3. /\ Carries(q, K)' <=> Carries(q, K)
        /\ Undisturbed(q, K)' <=> Undisturbed(q, K)
    BY SameTables
  <1>4. Carries(req[p], holds[p])' <=> Carries(q, K)'
    BY <1>1, <1>2 DEF Carries, OwnContent, IsMerge, Revised
  <1>5. Undisturbed(req[p], holds[p])' <=> Undisturbed(q, K)'
    BY <1>1, <1>2
    DEF Undisturbed, RemoverSees, WriterSees, Checked, Read, IsMerge, Revised, Refused,
        Rows, Current
  <1> QED BY <1>1, <1>2, <1>3, <1>4, <1>5 DEF Sound

LEMMA StepsAreOpen ==
  ASSUME NEW r \in Requests, req[r] # Idle, Step(r)
  PROVE  IsOpen(r)
  <1>1. DeadlockVictim(r) => IsOpen(r)
    BY WaitersAreOpen DEF DeadlockVictim, IsOpen, Ended
  <1> QED
    BY <1>1 DEF Step, IsOpen, Ended, Outcomes, CheckResource, CreateVersion, InsertTag, FindPact,
         ReadExisting, FindModel, WritePublication, WriteLatest, Announce, UnhookRevisions,
         ChooseRevisions, RemoveRevisions, Cascade, Commit

\* No step of a request changes what tags it asks for.
LEMMA TagsStay ==
  ASSUME IInv, NEW r \in Requests, req[r] # Idle, Step(r)
  PROVE  req'[r].tags = req[r].tags
  BY InsertTagFacts, OtherStepsKeepTags DEF SameTags

LEMMA SInvNext == SInv /\ [Next]_vars => SInv'
  <1> SUFFICES ASSUME SInv, [Next]_vars PROVE \A p \in Requests : Sound(p)'
    BY IInvNext DEF SInv, Sound
  <1>0. \A p \in Requests : Sound(p)
    BY DEF SInv, Sound
  <1>1. ASSUME NEW r \in Requests, Begin(r) PROVE \A p \in Requests : Sound(p)'
    <2>1. /\ UNCHANGED <<tables, announced, raced>> /\ Alone(r)
          /\ Carries(req'[r], holds'[r]) /\ Undisturbed(req'[r], holds'[r])
      BY <1>1, BeginFacts
    <2>2. ASSUME NEW p \in Requests \ {r}
          PROVE  IsOpen(p)' => Carries(req'[p], holds'[p])
                       /\ (p \notin raced => Undisturbed(req'[p], holds'[p]))
      BY <1>0, <2>1 DEF Alone, Sound, IsOpen, Ended
    <2> QED BY <2>1, <2>2, SoundStays
  <1>2. ASSUME NEW r \in Requests, IsOpen(r), Proceeds(r) PROVE \A p \in Requests : Sound(p)'
    <2>1. /\ UNCHANGED <<tables, announced, raced>> /\ Alone(r)
          /\ Carries(req'[r], holds'[r])
          /\ r \notin raced => Undisturbed(req'[r], holds'[r])
      BY <1>2 DEF Proceeds
    <2>2. ASSUME NEW p \in Requests \ {r}
          PROVE  IsOpen(p)' => Carries(req'[p], holds'[p])
                       /\ (p \notin raced => Undisturbed(req'[p], holds'[p]))
      BY <1>0, <2>1 DEF Alone, Sound, IsOpen, Ended
    <2> QED BY <2>1, <2>2, SoundStays
  <1>3. ASSUME NEW r \in Requests, IsOpen(r), Declines(r) PROVE \A p \in Requests : Sound(p)'
    <2>1. PICK outcome \in Outcomes : Fail(r, outcome)
      BY <1>3 DEF Declines, Outcomes
    <2>2. IInv /\ req[r] # Idle
      BY <1>3, OpenFacts
    <2>3. /\ UNCHANGED <<tables, announced, raced>> /\ Alone(r) /\ Goes(r, outcome)
      BY <2>1, <2>2, FailsElsewhere, GoFacts DEF Fail, history
    <2>4. ASSUME NEW p \in Requests
          PROVE  IsOpen(p)' => Carries(req'[p], holds'[p])
                       /\ (p \notin raced => Undisturbed(req'[p], holds'[p]))
      BY <1>0, <2>3 DEF Alone, Sound, IsOpen, Ended, Goes
    <2> QED BY <2>3, <2>4, SoundStays
  <1>4. ASSUME NEW r \in Requests, IsOpen(r), Commit(r) PROVE \A p \in Requests : Sound(p)'
    <2>1. ASSUME NEW p \in Requests \ {r} PROVE Sound(p)'
      <3>1. IsOpen(p)' <=> IsOpen(p)
        BY <1>4, CommitIsAlone DEF Alone, IsOpen, Ended
      <3> QED BY <1>4, <3>1, CommitKeepsOthers DEF Sound
    <2>2. Sound(r)'
      BY <1>4, CommitIsAlone DEF Sound, IsOpen, Ended, Outcomes
    <2> QED BY <2>1, <2>2
  <1>5. CASE UNCHANGED vars
    <2>1. UNCHANGED <<tables, announced, raced>> /\ req' = req /\ holds' = holds
      BY <1>5 DEF vars, tables
    <2>2. ASSUME NEW p \in Requests
          PROVE  IsOpen(p)' => Carries(req'[p], holds'[p])
                       /\ (p \notin raced => Undisturbed(req'[p], holds'[p]))
      BY <1>0, <2>1 DEF Sound, IsOpen, Ended
    <2> QED BY <2>1, <2>2, SoundStays
  <1> QED BY <1>1, <1>2, <1>3, <1>4, <1>5, StepsAreOpen, StatementServes DEF Next

LEMMA SInvHolds == Spec => []SInv
  <1>1. Init => SInv
    BY IInvInit DEF Init, SInv, IsOpen
  <1> QED BY <1>1, SInvNext, PTL DEF Spec

-----------------------------------------------------------------------------
(* Every step is one of the service, or nothing to it *)

LEMMA OthersLookTheSame ==
  ASSUME NEW r \in Requests, Alone(r), NEW p \in Requests \ {r}
  PROVE  AskOf(p)' = AskOf(p) /\ AnswerOf(p)' = AnswerOf(p)
  BY DEF Alone, AskOf, AnswerOf, Ended

LEMMA OpenLooks ==
  ASSUME NEW p \in Requests
  PROVE  /\ AnswerOf(p) = "open" <=> IsOpen(p)
         /\ IsOpen(p) =>
              /\ AskOf(p).op = req[p].op /\ AskOf(p).version = req[p].version
              /\ AskOf(p).tags = req[p].tags /\ AskOf(p).body = req[p].body
  <1>1. AnswerOf(p) = "open" <=> IsOpen(p)
    BY DEF AnswerOf, IsOpen, Ended, Outcomes
  <1>2. IsOpen(p) => AskOf(p) = [op |-> req[p].op, version |-> req[p].version,
                                 tags |-> req[p].tags, body |-> req[p].body]
    BY DEF AskOf, IsOpen
  <1> QED BY <1>1, <1>2

\* The pact of v is all that is current for it.
LEMMA CurrentLooks ==
  ASSUME IInv, NEW v \in Versions
  PROVE  /\ Current(v) = NoRow <=> latest[v] = NoRow
         /\ latest[v] # NoRow => Current(v) = pub[latest[v]].content
  BY ServedRow DEF Current

LEMMA Answers ==
  ASSUME NEW r \in Requests, IsOpen(r), Alone(r), NEW outcome \in Outcomes,
         req'[r] # Idle, req'[r].pc = outcome, req'[r].op = req[r].op,
         req'[r].version = req[r].version, req'[r].body = req[r].body,
         req'[r].tags = req[r].tags,
         raced' = raced \cup (IF outcome = "done"
                              THEN {p \in Requests \ {r} :
                                      IsOpen(p) /\ req[p].version = req[r].version}
                              ELSE {})
  PROVE  Service!Answer(r, outcome)
  <1>1. AnswerOf(r) = "open" /\ AnswerOf(r)' = outcome /\ AskOf(r)' = AskOf(r)
    BY OpenLooks DEF AskOf, AnswerOf, IsOpen, Ended
  <1>2. \A p \in Requests \ {r} : AskOf(p)' = AskOf(p) /\ AnswerOf(p)' = AnswerOf(p)
    BY OthersLookTheSame
  <1>3. [p \in Requests |-> AskOf(p)]' = [p \in Requests |-> AskOf(p)]
    BY <1>1, <1>2
  <1>4. [p \in Requests |-> AnswerOf(p)]'
          = [[p \in Requests |-> AnswerOf(p)] EXCEPT ![r] = outcome]
    <2>1. \A p \in Requests : AnswerOf(p)' = IF p = r THEN outcome ELSE AnswerOf(p)
      BY <1>1, <1>2
    <2> QED BY <2>1
  <1>5. Service!Overtaken(r) =
          {p \in Requests \ {r} : IsOpen(p) /\ req[p].version = req[r].version}
    <2>1. \A p \in Requests : AnswerOf(p) = "open" <=> IsOpen(p)
      BY OpenLooks
    <2>2. \A p \in Requests : IsOpen(p) => AskOf(p).version = req[p].version
      BY OpenLooks
    <2> QED BY <2>1, <2>2 DEF Service!Overtaken
  <1> QED BY <1>1, <1>3, <1>4, <1>5 DEF Service!Answer

LEMMA SameCurrent ==
  ASSUME UNCHANGED tables
  PROVE  [v \in Versions |-> Current(v)]' = [v \in Versions |-> Current(v)]
  BY DEF Current, tables

LEMMA BeginAsks ==
  ASSUME SInv, NEW r \in Requests, Begin(r)
  PROVE  Service!Ask(r)
  <1>1. PICK w \in Workload :
           /\ req[r] = Idle /\ UNCHANGED <<tables, announced, raced>> /\ Alone(r)
           /\ req'[r] # Idle /\ req'[r].pc \in Steps
           /\ req'[r].op = w.op /\ req'[r].version = w.version /\ req'[r].body = w.body
           /\ req'[r].tags = w.tags
    BY BeginFacts
  <1> DEFINE ask == [op |-> w.op, version |-> w.version, tags |-> w.tags, body |-> w.body]
  <1>2. AnswerOf(r) = "none" /\ AnswerOf(r)' = "open" /\ AskOf(r)' = ask
    BY <1>1 DEF AnswerOf, AskOf, Ended, Steps, Outcomes
  <1>3. \A p \in Requests \ {r} : AskOf(p)' = AskOf(p) /\ AnswerOf(p)' = AnswerOf(p)
    BY <1>1, OthersLookTheSame
  <1>4. ask \in Workload
    BY PublishingAssumption
  <1> HIDE DEF ask
  <1>5. [p \in Requests |-> AskOf(p)]' = [[p \in Requests |-> AskOf(p)] EXCEPT ![r] = ask]
    <2>1. \A p \in Requests : AskOf(p)' = IF p = r THEN ask ELSE AskOf(p)
      BY <1>2, <1>3
    <2> QED BY <2>1
  <1>6. [p \in Requests |-> AnswerOf(p)]'
          = [[p \in Requests |-> AnswerOf(p)] EXCEPT ![r] = "open"]
    <2>1. \A p \in Requests : AnswerOf(p)' = IF p = r THEN "open" ELSE AnswerOf(p)
      BY <1>2, <1>3
    <2> QED BY <2>1
  <1>7. [v \in Versions |-> Current(v)]' = [v \in Versions |-> Current(v)]
    BY <1>1, SameCurrent
  <1> QED BY <1>1, <1>2, <1>4, <1>5, <1>6, <1>7 DEF Service!Ask

LEMMA ProceedingIsSilent ==
  ASSUME SInv, NEW r \in Requests, IsOpen(r), Proceeds(r), req'[r].tags = req[r].tags
  PROVE  UNCHANGED Service!svars
  <1>1. AnswerOf(r)' = AnswerOf(r) /\ AskOf(r)' = AskOf(r)
    BY DEF Proceeds, AnswerOf, AskOf, IsOpen, Ended, Steps, Outcomes
  <1>2. \A p \in Requests : AskOf(p)' = AskOf(p) /\ AnswerOf(p)' = AnswerOf(p)
    BY <1>1, OthersLookTheSame DEF Proceeds
  <1>3. [v \in Versions |-> Current(v)]' = [v \in Versions |-> Current(v)]
    BY SameCurrent DEF Proceeds
  <1>4. /\ [p \in Requests |-> AskOf(p)]' = [p \in Requests |-> AskOf(p)]
        /\ [p \in Requests |-> AnswerOf(p)]' = [p \in Requests |-> AnswerOf(p)]
    BY <1>2
  <1> QED BY <1>3, <1>4 DEF Proceeds, Service!svars

\* One that is on a circle meets another one with several tags, one of them its own.
LEMMA CirclesEntangle ==
  ASSUME CInv, NEW r \in Requests, OnCycle(r)
  PROVE  Service!Entangled(r)
  <1>1. /\ IsOpen(r)
        /\ \E i, j \in 1 .. Len(req[r].tags) :
              /\ req[r].tags[i] # req[r].tags[j]
              /\ Tagging(req[r]) = <<req[r].version, req[r].tags[j]>>
        /\ req[r].tags \in Seq(Tags)
    BY CircleFacts DEF IsOpen, Ended, Outcomes
  <1>2. PICK i, j \in 1 .. Len(req[r].tags) :
              /\ req[r].tags[i] # req[r].tags[j]
              /\ Tagging(req[r]) = <<req[r].version, req[r].tags[j]>>
    BY <1>1
  <1>3. PICK q \in Requests \ {r} : OnCycle(q) /\ Key("tag", Tagging(req[r])) \in holds[q]
    BY NextOnCircle
  <1>4. /\ IsOpen(q) /\ req[q].tags \in Seq(Tags)
        /\ \E m, n \in 1 .. Len(req[q].tags) : req[q].tags[m] # req[q].tags[n]
    BY <1>3, CircleFacts DEF IsOpen, Ended, Outcomes
  <1>5. PICK n \in 1 .. Len(req[q].tags) :
          Key("tag", Tagging(req[r])) = Key("tag", <<req[q].version, req[q].tags[n]>>)
    <2>1. TagsOK(q)
      BY DEF CInv, TInv
    <2>2. Key("tag", Tagging(req[r]))[1] = "tag"
      BY DEF Key
    <2> QED BY <1>3, <2>1, <2>2 DEF TagsOK
  <1>6. req[q].version = req[r].version /\ req[q].tags[n] = req[r].tags[j]
    BY <1>2, <1>5 DEF Key
  <1>7. /\ AskOf(r).tags = req[r].tags /\ AskOf(r).version = req[r].version
        /\ AskOf(q).tags = req[q].tags /\ AskOf(q).version = req[q].version
        /\ AnswerOf(q) = "open"
    BY <1>1, <1>4, OpenLooks
  <1>8. q \in Service!Overtaken(r)
    BY <1>3, <1>6, <1>7 DEF Service!Overtaken
  <1>9. Service!Several(req[r].tags) /\ Service!Several(req[q].tags)
    BY <1>1, <1>4 DEF Service!Several
  <1>10. Service!Common(req[q].tags, req[r].tags)
    BY <1>1, <1>4, <1>6 DEF Service!Common
  <1> QED BY <1>7, <1>8, <1>9, <1>10 DEF Service!Entangled

LEMMA DecliningRefuses ==
  ASSUME SInv, CInv, NEW r \in Requests, IsOpen(r), Declines(r)
  PROVE  Service!Refuse(r)
  <1>1. IInv /\ req[r] # Idle /\ req[r].version \in Versions
    BY OpenFacts
  <1>2. ASSUME NEW outcome \in Outcomes \ {"done"}, Fail(r, outcome)
        PROVE  /\ Service!Answer(r, outcome) /\ announced' = announced
               /\ [v \in Versions |-> Current(v)]' = [v \in Versions |-> Current(v)]
    <2>1. /\ Goes(r, outcome) /\ SameMemory(r) /\ Alone(r)
          /\ UNCHANGED <<tables, announced, raced>>
      BY <1>1, <1>2, GoFacts, FailsElsewhere DEF Fail, history
    <2>2. req'[r].tags = req[r].tags
      BY <1>1, <1>2, FailSameTags DEF SameTags
    <2>3. Service!Answer(r, outcome)
      BY <2>1, <2>2, Answers DEF Goes, SameMemory
    <2> QED BY <2>1, <2>3, SameCurrent
  <1>3. /\ AskOf(r).op = req[r].op /\ AskOf(r).version = req[r].version
        /\ AskOf(r).body = req[r].body
    BY OpenLooks
  <1>4. PICK v \in Versions : v = req[r].version
    BY <1>1
  <1>5. /\ Current(v) = NoRow <=> latest[v] = NoRow
        /\ latest[v] # NoRow => Current(v) = pub[latest[v]].content
    BY <1>1, CurrentLooks
  <1>6. CASE req[r].op # "delete" /\ Refused(req[r], latest[req[r].version])
             /\ Fail(r, "conflict")
    <2>1. Service!Refusable(AskOf(r))
      BY <1>3, <1>4, <1>5, <1>6 DEF Service!Refusable, Refused
    <2> QED BY <1>2, <1>6, <2>1 DEF Service!Refuse, Outcomes
  <1>7. CASE req[r].op = "delete" /\ latest[req[r].version] = NoRow /\ Fail(r, "missing")
    BY <1>2, <1>3, <1>4, <1>5, <1>7 DEF Service!Refuse, Outcomes
  <1>8. CASE r \in raced /\ Fail(r, "error")
    BY <1>2, <1>8 DEF Service!Refuse, Outcomes
  <1>9. CASE OnCycle(r) /\ Fail(r, "error")
    BY <1>2, <1>9, CirclesEntangle DEF Service!Refuse, Outcomes
  <1> QED BY <1>6, <1>7, <1>8, <1>9 DEF Declines

LEMMA CommitAnswers ==
  ASSUME SInv, NEW r \in Requests, IsOpen(r), Commit(r)
  PROVE  Service!Answer(r, "done")
  <1>1. /\ Alone(r) /\ req'[r] # Idle /\ req'[r].pc = "done"
        /\ req'[r].op = req[r].op /\ req'[r].version = req[r].version
        /\ req'[r].body = req[r].body
        /\ raced' = raced \cup {p \in Requests \ {r} : IsOpen(p) /\ req[p].version = req[r].version}
    BY CommitIsAlone
  <1>2. req'[r].tags = req[r].tags
    BY OpenFacts, TagsStay DEF Step
  <1> QED BY <1>1, <1>2, Answers DEF Outcomes

\* A commit makes the content of the request current, or comes too late.
LEMMA WritingShows ==
  ASSUME SInv, NEW r \in Requests, IsOpen(r), Commit(r), req[r].op # "delete",
         NEW v \in Versions, v = req[r].version
  PROVE  /\ \/ [u \in Versions |-> Current(u)]'
                  = [[u \in Versions |-> Current(u)] EXCEPT ![v] = req[r].content]
            \/ r \in raced /\ UNCHANGED [u \in Versions |-> Current(u)]
         /\ announced' = announced \cup {req[r].content}
  <1> DEFINE q == req[r]
             c == req[r].content
  <1>1. /\ IInv /\ q # Idle /\ q.pc \notin Outcomes
        /\ Carries(q, holds[r])
        /\ r \notin raced => Undisturbed(q, holds[r])
        /\ c \in Contents /\ c # NoRow
    BY OpenFacts, ActiveFacts, PublishingAssumption
  <1>2. /\ q.pc = "commit" /\ CommitEnds(r)
        /\ Unpublished(r) \/ Publishes(r)
    BY <1>1, CommitFacts DEF Deletes
  <1>3. announced' = announced \cup {c}
    <2>1. q.changed \/ c \in announced
      BY <1>1, <1>2 DEF IInv, RequestOK, WriteOK
    <2>2. announced' = announced \cup (IF q.changed THEN {c} ELSE {})
      BY DEF Commit
    <2> QED BY <2>1, <2>2
  <1>4. ASSUME NEW u \in Versions, u # v PROVE Current(u)' = Current(u)
    <2>1. /\ latest'[u] = latest[u] /\ \A i \in Rows(u) : pub'[i] = pub[i]
      BY <1>4, OtherVersionsStay
    <2>2. latest[u] # NoRow => latest[u] \in Rows(u)
      BY <1>1, ServedRow
    <2> QED BY <2>1, <2>2 DEF Current
  <1>5. CASE Unpublished(r)
    <2>1. pub' = pub /\ latest' = latest /\ Revised(q) \notin holds[r]
      BY <1>5 DEF Unpublished, Revision, Revised
    <2>2. [u \in Versions |-> Current(u)]' = [u \in Versions |-> Current(u)]
      BY <2>1 DEF Current
    <2>3. ASSUME r \notin raced
          PROVE  [u \in Versions |-> Current(u)]'
                   = [[u \in Versions |-> Current(u)] EXCEPT ![v] = c]
      <3>1. Current(v) = c
        BY <1>1, <1>2, <2>1, <2>3 DEF Undisturbed, WriterSees
      <3> QED BY <2>2, <3>1
    <2> QED BY <1>3, <2>2, <2>3
  <1>6. CASE Publishes(r)
    <2>1. PICK u \in Versions, id \in Requests, row \in Publication : NewRow(r, u, id, row)
      BY <1>1, <1>2, <1>6, PublishFacts
    <2>2. latest'[v] = id /\ pub'[id] = row
      BY <2>1 DEF NewRow
    <2>3. pub'[id].content = c
      BY <1>6, <2>1, TableFacts, <1>1 DEF Publishes, NewRow
    <2>4. Current(v)' = c
      BY <2>2, <2>3, PublishingAssumption DEF Current
    <2>5. \A u1 \in Versions : Current(u1)' = IF u1 = v THEN c ELSE Current(u1)
      BY <1>4, <2>4
    <2>6. [u1 \in Versions |-> Current(u1)]'
            = [[u1 \in Versions |-> Current(u1)] EXCEPT ![v] = c]
      BY <2>5
    <2> QED BY <1>3, <2>6
  <1> QED BY <1>2, <1>5, <1>6

LEMMA CommitWrites ==
  ASSUME SInv, NEW r \in Requests, IsOpen(r), Commit(r), req[r].op # "delete"
  PROVE  Service!Write(r)
  <1>1. /\ IInv /\ req[r] # Idle /\ Carries(req[r], holds[r])
        /\ r \notin raced => Undisturbed(req[r], holds[r])
        /\ req[r].pc = "commit"
    BY OpenFacts DEF Commit
  <1>2. PICK v \in Versions, c \in Contents : v = req[r].version /\ c = req[r].content
    BY <1>1, ActiveFacts
  <1>3. PICK q : q = AskOf(r)
    OBVIOUS
  <1>4. /\ q.op = req[r].op /\ q.version = v /\ q.body = req[r].body
        /\ [p \in Requests |-> AskOf(p)][r] = q
    BY <1>2, <1>3, OpenLooks
  <1>5. /\ \/ [u \in Versions |-> Current(u)]'
                = [[u \in Versions |-> Current(u)] EXCEPT ![v] = c]
           \/ r \in raced /\ UNCHANGED [u \in Versions |-> Current(u)]
        /\ announced' = announced \cup {c}
    BY <1>2, WritingShows
  <1>6. c \in Service!Own(q)
    BY <1>1, <1>2, <1>4 DEF Carries, OwnContent, IsMerge, Service!Own, Service!Merging
  <1>7. /\ Current(v) = NoRow <=> latest[v] = NoRow
        /\ latest[v] # NoRow => Current(v) = pub[latest[v]].content
    BY <1>1, CurrentLooks
  <1>8. ASSUME r \notin raced PROVE c = Service!Result(q) /\ ~Service!Refusable(q)
    <2>1. WriterSees(req[r], holds[r])
      BY <1>1, <1>8 DEF Undisturbed
    <2>2. c = Service!Result(q)
      BY <1>1, <1>2, <1>4, <1>7, <2>1
      DEF WriterSees, Read, IsMerge, Service!Result, Service!Merging
    <2>3. ~Service!Refusable(q)
      BY <1>1, <1>2, <1>4, <1>7, <2>1
      DEF WriterSees, Checked, Refused, Service!Refusable
    <2> QED BY <2>2, <2>3
  <1>9. Service!Answer(r, "done")
    BY CommitAnswers
  <1> QED BY <1>4, <1>5, <1>6, <1>8, <1>9 DEF Service!Write

LEMMA CommitDeletes ==
  ASSUME SInv, NEW r \in Requests, IsOpen(r), Commit(r), req[r].op = "delete"
  PROVE  Service!Delete(r)
  <1>1. /\ IInv /\ req[r] # Idle /\ Carries(req[r], holds[r])
        /\ r \notin raced => Undisturbed(req[r], holds[r])
        /\ req[r].pc = "commit" /\ Deletes(r)
    BY OpenFacts, CommitFacts DEF Commit, Unpublished, Publishes
  <1>2. PICK v \in Versions : RowsGone(r, v)
    BY <1>1, DeleteFacts
  <1>3. /\ v = req[r].version
        /\ \A i \in Requests : pub'[i] = IF i \in Removable(r) THEN NoRow ELSE pub[i]
        /\ latest'[v] = IF latest[v] \in Removable(r) THEN NoRow ELSE latest[v]
    BY <1>2 DEF RowsGone
  <1>4. announced' = announced
    BY <1>1 DEF Carries, Commit
  <1>5. AskOf(r).op = "delete" /\ AskOf(r).version = v
    BY <1>3, OpenLooks
  <1>6. /\ Current(v) = NoRow <=> latest[v] = NoRow
        /\ latest[v] # NoRow => latest[v] \in Rows(v) /\ latest[v] \in Requests
    BY <1>1, CurrentLooks, ServedRow
  <1>7. ASSUME NEW u \in Versions, u # v PROVE Current(u)' = Current(u)
    <2>1. /\ latest'[u] = latest[u] /\ \A i \in Rows(u) : pub'[i] = pub[i]
      BY <1>3, <1>7, OtherVersionsStay
    <2>2. latest[u] # NoRow => latest[u] \in Rows(u)
      BY <1>1, ServedRow
    <2> QED BY <2>1, <2>2 DEF Current
  <1>8. r \notin raced => latest[v] # NoRow /\ latest[v] \in Removable(r)
    BY <1>1, <1>3, <1>6 DEF Undisturbed, RemoverSees, Removable, Rows
  <1>9. Service!Answer(r, "done")
    BY CommitAnswers
  <1>10. CASE latest'[v] = NoRow
    <2>1. \A u \in Versions : Current(u)' = IF u = v THEN NoRow ELSE Current(u)
      BY <1>7, <1>10 DEF Current
    <2>2. [u \in Versions |-> Current(u)]'
            = [[u \in Versions |-> Current(u)] EXCEPT ![v] = NoRow]
      BY <2>1
    <2> QED BY <1>4, <1>5, <1>6, <1>8, <1>9, <2>2 DEF Service!Delete
  <1>11. CASE latest'[v] # NoRow
    <2>1. latest'[v] = latest[v] /\ latest[v] \notin Removable(r) /\ r \in raced
      BY <1>3, <1>8, <1>11
    <2>2. Current(v)' = Current(v)
      BY <1>3, <1>6, <1>11, <2>1 DEF Current
    <2>3. [u \in Versions |-> Current(u)]' = [u \in Versions |-> Current(u)]
      BY <1>7, <2>2
    <2> QED BY <1>4, <1>5, <1>9, <2>1, <2>3 DEF Service!Delete
  <1> QED BY <1>10, <1>11

LEMMA ServiceInit == Init => Service!Init
  <1> SUFFICES ASSUME Init PROVE Service!Init
    OBVIOUS
  <1>1. \A r \in Requests : AskOf(r) = NoRow /\ AnswerOf(r) = "none"
    BY DEF Init, AskOf, AnswerOf
  <1>2. \A v \in Versions : Current(v) = NoRow
    BY DEF Init, Current
  <1>3. announced = {} /\ raced = {}
    BY DEF Init
  <1> QED BY <1>1, <1>2, <1>3 DEF Service!Init

LEMMA ServiceNext == SInv /\ CInv /\ [Next]_vars => [Service!Next]_(Service!svars)
  <1> SUFFICES ASSUME SInv, CInv, [Next]_vars PROVE [Service!Next]_(Service!svars)
    OBVIOUS
  <1>1. CASE \E r \in Requests : Begin(r)
    BY <1>1, BeginAsks DEF Service!Next
  <1>2. CASE \E r \in Requests : req[r] # Idle /\ Step(r)
    <2>1. PICK r \in Requests : req[r] # Idle /\ Step(r)
      BY <1>2
    <2>2. IsOpen(r)
      BY <2>1, StepsAreOpen
    <2>3. CASE Commit(r)
      BY <2>2, <2>3, CommitWrites, CommitDeletes DEF Service!Next
    <2>4. CASE ~Commit(r)
      <3>1. Proceeds(r) \/ Declines(r)
        BY <2>1, <2>2, <2>4, StatementServes
      <3>2. req'[r].tags = req[r].tags
        BY <2>1, TagsStay DEF SInv
      <3> QED BY <2>2, <3>1, <3>2, ProceedingIsSilent, DecliningRefuses DEF Service!Next
    <2> QED BY <2>3, <2>4
  <1>3. CASE UNCHANGED vars
    <2>1. UNCHANGED <<req, pub, latest, announced, raced>>
      BY <1>3 DEF vars
    <2>2. UNCHANGED Service!svars
      BY <2>1 DEF Service!svars, AskOf, AnswerOf, Ended, Current
    <2> QED BY <2>2
  <1> QED BY <1>1, <1>2, <1>3 DEF Next

\* Statement by statement, the requests implement the service in which each acts in one
\* step: one that none overtook answers and changes what is current as documented, one
\* that was overtaken makes nothing but its own content current, and no other fails but
\* POSTs with several tags that meet each other.
THEOREM RequestsServe == Spec => ImplementsService
  <1>1. Spec => Service!Spec
    BY ServiceInit, ServiceNext, SInvHolds, CInvHolds, PTL DEF Spec, Service!Spec
  <1> QED BY <1>1 DEF ImplementsService
=============================================================================
