----------------------------- MODULE VersionOrderProofs -----------------------------
(***************************************************************************)
(* Proofs about VersionOrder, for every set of requests, version numbers   *)
(* and tags, both ways to order, and all that clients may ask for.         *)
(***************************************************************************)
EXTENDS VersionOrder, WellFoundedInduction, TLAPS

-----------------------------------------------------------------------------
(* The inductive invariant *)

WriteSteps == {"find", "upsert", "order", "sort", "place", "tag", "commit"}
DeleteSteps == {"tags", "untag", "tags_again", "untag_again", "version", "remove", "commit"}
Resting == Outcomes \cup {"idle"}
Ids == Requests \cup {NoRow}
Done(r) == pc[r] = "done"

MemoryOK ==
    /\ version \in [Versions -> Ids] /\ order \in [Versions -> OrdersAndNone]
    /\ tagOrder \in [Taggings -> OrdersAndNone]
    /\ byDate \in BOOLEAN /\ sequence \in Nat
    /\ pc \in [Requests -> WriteSteps \cup DeleteSteps \cup Resting]
    /\ job \in [Requests -> Workload]
    /\ row \in [Requests -> Ids] /\ copy \in [Requests -> OrdersAndNone]
    /\ writes \in [Requests -> [Versions -> OrdersAndNone]]
    /\ place \in [Requests -> OrdersAndNone] /\ passed \in [Requests -> SUBSET Versions]
    /\ DOMAIN chosen = Requests /\ DOMAIN seen = Requests
    /\ DOMAIN before = Requests /\ DOMAIN holds = Requests
    /\ \A r \in Requests : pc[r] \in Resting => holds[r] = {}

\* The row that r has loaded is its own or was created by a request that has ended.
RowOK(r) == row[r] \in Requests \ {r} => Done(row[r])

\* Who creates a version has it for itself.
Creating(r) ==
    /\ pc[r] \in {"order", "sort", "place", "tag", "commit"}
    /\ Key("version", Version(r)) \in holds[r] /\ ~Exists(Version(r))
    /\ pc[r] \in {"tag", "commit"} => copy[r] = writes[r][Version(r)] /\ copy[r] # NoRow
                                      /\ copy[r] = place[r]

\* The row that r tags is the one it creates, or it is there and stays, and r knows its order.
Tagged(r) ==
    \/ row[r] = r
    \/ /\ Exists(Version(r)) /\ Key("refer", Version(r)) \in holds[r]
       /\ byDate => copy[r] = order[Version(r)]

WriteOK(r) ==
    /\ pc[r] \in WriteSteps \cup Resting
    /\ \A k \in holds[r] : k[1] \in {"version", "refer", "update", "tag", "place", "left"}
    /\ pc[r] \in {"idle", "find", "upsert"} => row[r] # r
    /\ pc[r] \in {"order", "sort", "place"} => row[r] = r
    /\ pc[r] \in {"idle", "find", "upsert", "order", "sort"} => place[r] = NoRow /\ passed[r] = {}
    /\ pc[r] = "place" =>
         /\ place[r] # NoRow /\ writes[r][Version(r)] = NoRow
         /\ \A w \in passed[r] : ~byDate /\ Exists(w) /\ Key("update", w) \in holds[r]
    /\ pc[r] = "sort" => ~byDate
    /\ pc[r] \in {"find", "tag"} => job[r].op = "tag"
    /\ row[r] = r /\ pc[r] \notin Resting => Creating(r)
    /\ writes[r] # NoOrders =>
         row[r] = r /\ pc[r] \in {"place", "tag", "commit"} \cup Outcomes
    /\ pc[r] \notin Resting =>
         \A w \in Versions \ {Version(r)} :
            writes[r][w] # NoRow => ~byDate /\ Exists(w) /\ Key("update", w) \in holds[r]
    /\ pc[r] = "tag" =>
         /\ row[r] # NoRow
         /\ byDate /\ row[r] = version[Version(r)] => copy[r] = order[Version(r)]
    /\ \A x \in Taggings : Key("tag", x) \in holds[r] =>
         x = Tagging(r) /\ job[r].op = "tag" /\ pc[r] = "commit" /\ Tagged(r)

\* Who deletes a version deletes all tags that refer to it.
DeleteOK(r) ==
    /\ pc[r] \in DeleteSteps \cup Resting
    /\ \A k \in holds[r] : k[1] \in {"tag", "gone", "left"}
    /\ row[r] # r /\ writes[r] = NoOrders
    /\ pc[r] = "remove" => chosen[r] = {<<Version(r), row[r]>>}
    /\ \A v \in Versions : Key("gone", v) \in holds[r] =>
         /\ Exists(v)
         /\ \A x \in Taggings : x[1] = v /\ tagOrder[x] # NoRow => Key("tag", x) \in holds[r]

RequestOK(r) ==
    /\ RowOK(r)
    /\ job[r].op # "delete" => WriteOK(r)
    /\ job[r].op = "delete" => DeleteOK(r)

\* Nobody creates, tags or moves a version that another one creates or deletes.
Exclusive ==
    \A r, q \in Requests, v \in Versions :
        r # q =>
            /\ Key("version", v) \in holds[r] =>
                 Key("version", v) \notin holds[q] /\ Key("gone", v) \notin holds[q]
            /\ Key("gone", v) \in holds[r] =>
                 /\ Key("gone", v) \notin holds[q] /\ Key("refer", v) \notin holds[q]
                 /\ Key("update", v) \notin holds[q]

\* A version was created by a request that has ended, at the place it was given.
VersionsOK ==
    \A v \in Versions :
        /\ order[v] = NoRow <=> ~Exists(v)
        /\ Exists(v) =>
             /\ Done(version[v]) /\ row[version[v]] = version[v] /\ Version(version[v]) = v
             /\ byDate => order[v] = place[version[v]]

\* Places are taken from the sequence, one after another.
Placed(r) == row[r] = r /\ place[r] # NoRow
SequenceOK ==
    byDate =>
        \A r \in Requests : Placed(r) =>
            /\ place[r] <= sequence
            /\ \A q \in Requests \ {r} : Placed(q) =>
                 place[q] # place[r] /\ (q \in before[r] => place[q] < place[r])
BeforeEnded == \A r \in Requests, q \in Requests : q \in before[r] => pc[q] \in Outcomes

IInv ==
    /\ MemoryOK
    /\ \A r \in Requests : RequestOK(r)
    /\ Exclusive /\ VersionsOK /\ CopiesAgree /\ SequenceOK /\ BeforeEnded

LEMMA NoRowIsNoOrder == NoRow \notin Requests /\ NoRow \notin Nat /\ NoRow \in OrdersAndNone
  BY VersionOrderAssumption DEF OrdersAndNone

LEMMA JobFacts ==
  ASSUME MemoryOK, NEW r \in Requests
  PROVE  /\ job[r].op \in Operations /\ Version(r) \in Versions /\ Version(r) \in Nat
         /\ Tagging(r) \in Taggings /\ Tagging(r)[1] = Version(r)
  <1>1. job[r] \in [op : Operations, version : Versions, tag : Tags]
    BY VersionOrderAssumption DEF MemoryOK
  <1> QED BY <1>1, VersionOrderAssumption DEF Version, Tagging, Taggings

LEMMA IInvInit == Init => IInv
  <1> SUFFICES ASSUME Init PROVE IInv
    OBVIOUS
  <1>1. MemoryOK
    BY VersionOrderAssumption, NoRowIsNoOrder
    DEF Init, MemoryOK, Ids, NoOrders, Resting
  <1>2. ASSUME NEW r \in Requests PROVE RequestOK(r)
    <2>1. /\ pc[r] = "idle" /\ row[r] = NoRow /\ writes[r] = NoOrders /\ holds[r] = {}
          /\ place[r] = NoRow /\ passed[r] = {} /\ NoRow # r
      BY NoRowIsNoOrder DEF Init
    <2> QED BY <2>1, NoRowIsNoOrder DEF RequestOK, RowOK, WriteOK, DeleteOK, Resting
  <1>3. Exclusive /\ VersionsOK /\ CopiesAgree /\ SequenceOK /\ BeforeEnded
    BY NoRowIsNoOrder
    DEF Init, Exclusive, VersionsOK, Exists, NoOrders, CopiesAgree, SequenceOK, Placed, BeforeEnded
  <1> QED BY <1>1, <1>2, <1>3 DEF IInv

-----------------------------------------------------------------------------
(* Statements: the tables are as they were *)

\* A statement of r: it changes what r remembers and has locked.
Statement(r) ==
    /\ UNCHANGED <<tables, job, byDate>> /\ pc[r] \notin Outcomes
    /\ \E step \in WriteSteps \cup DeleteSteps \cup Outcomes : Go(r, step)
    /\ row' \in [Requests -> Ids] /\ copy' \in [Requests -> OrdersAndNone]
    /\ writes' \in [Requests -> [Versions -> OrdersAndNone]] /\ sequence' \in Nat
    /\ place' \in [Requests -> OrdersAndNone] /\ passed' \in [Requests -> SUBSET Versions]
    /\ DOMAIN chosen' = Requests /\ DOMAIN seen' = Requests
    /\ DOMAIN before' = Requests /\ DOMAIN holds' = Requests
    /\ pc'[r] \in Outcomes => holds'[r] = {}
    /\ \A q \in Requests \ {r} :
         /\ row'[q] = row[q] /\ copy'[q] = copy[q] /\ writes'[q] = writes[q]
         /\ chosen'[q] = chosen[q] /\ before'[q] = before[q] /\ holds'[q] = holds[q]
         /\ seen'[q] = seen[q] /\ place'[q] = place[q] /\ passed'[q] = passed[q]

LEMMA GoFacts ==
  ASSUME IInv, NEW r \in Requests, NEW step, Go(r, step)
  PROVE  /\ pc'[r] = step /\ \A q \in Requests \ {r} : pc'[q] = pc[q]
         /\ step \in WriteSteps \cup DeleteSteps \cup Outcomes =>
              pc' \in [Requests -> WriteSteps \cup DeleteSteps \cup Resting]
  BY DEF IInv, MemoryOK, Go, Resting

LEMMA StatementFacts ==
  ASSUME IInv, NEW r \in Requests, Statement(r)
  PROVE  /\ UNCHANGED <<version, order, tagOrder, job, byDate>>
         /\ pc' \in [Requests -> WriteSteps \cup DeleteSteps \cup Resting]
         /\ pc'[r] \notin {"idle"} /\ \A q \in Requests \ {r} : pc'[q] = pc[q]
         /\ \A q \in Requests : Done(q) => q # r /\ Done(q)'
         /\ \A q \in Requests : pc[q] \in Outcomes => pc'[q] \in Outcomes
  <1>1. PICK step \in WriteSteps \cup DeleteSteps \cup Outcomes : Go(r, step)
    BY DEF Statement
  <1>2. /\ pc'[r] = step /\ \A q \in Requests \ {r} : pc'[q] = pc[q]
        /\ pc' \in [Requests -> WriteSteps \cup DeleteSteps \cup Resting]
    BY <1>1, GoFacts
  <1>3. step # "idle"
    BY DEF WriteSteps, DeleteSteps, Outcomes
  <1> QED BY <1>2, <1>3 DEF Statement, tables, Done, Outcomes

LEMMA StatementKeepsMemory ==
  ASSUME IInv, NEW r \in Requests, Statement(r)
  PROVE  MemoryOK'
  <1>1. ASSUME NEW q \in Requests, pc'[q] \in Resting PROVE holds'[q] = {}
    BY <1>1, StatementFacts DEF Statement, IInv, MemoryOK, Resting
  <1> QED BY <1>1, StatementFacts DEF Statement, IInv, MemoryOK

LEMMA StatementKeepsOthers ==
  ASSUME IInv, NEW r \in Requests, Statement(r), NEW q \in Requests \ {r}
  PROVE  RequestOK(q)'
  <1>1. /\ UNCHANGED <<version, order, tagOrder, job, byDate>> /\ pc'[q] = pc[q]
        /\ row'[q] = row[q] /\ copy'[q] = copy[q] /\ writes'[q] = writes[q]
        /\ chosen'[q] = chosen[q] /\ before'[q] = before[q] /\ holds'[q] = holds[q]
        /\ place'[q] = place[q] /\ passed'[q] = passed[q]
    BY StatementFacts DEF Statement
  <1>2. RequestOK(q)
    BY DEF IInv
  <1>3. RowOK(q)'
    BY <1>1, <1>2, StatementFacts DEF RequestOK, RowOK
  <1>4. Version(q)' = Version(q) /\ Tagging(q)' = Tagging(q) /\ \A v : Exists(v)' <=> Exists(v)
    BY <1>1 DEF Version, Tagging, Exists
  <1>5. ASSUME WriteOK(q) PROVE WriteOK(q)'
    <2>1. (Creating(q)' <=> Creating(q)) /\ (Tagged(q)' <=> Tagged(q))
      BY <1>1, <1>4 DEF Creating, Tagged
    <2> QED BY <1>1, <1>4, <1>5, <2>1 DEF WriteOK
  <1>6. ASSUME DeleteOK(q) PROVE DeleteOK(q)'
    BY <1>1, <1>4, <1>6 DEF DeleteOK
  <1> QED BY <1>1, <1>2, <1>3, <1>5, <1>6 DEF RequestOK

LEMMA StatementKeepsIInv ==
  ASSUME IInv, NEW r \in Requests, Statement(r),
         RequestOK(r)', Exclusive', SequenceOK', BeforeEnded'
  PROVE  IInv'
  <1>1. MemoryOK' /\ \A q \in Requests : RequestOK(q)'
    BY StatementKeepsMemory, StatementKeepsOthers
  <1>2. UNCHANGED <<version, order, tagOrder, job, byDate>>
    BY StatementFacts
  <1>3. VersionsOK'
    <2> SUFFICES ASSUME NEW v \in Versions
                 PROVE  /\ order[v] = NoRow <=> ~Exists(v)
                        /\ Exists(v) =>
                             /\ Done(version[v])' /\ row'[version[v]] = version[v]
                             /\ Version(version[v]) = v
                             /\ byDate => order[v] = place'[version[v]]
      BY <1>2 DEF VersionsOK, Exists, Version
    <2>1. /\ order[v] = NoRow <=> ~Exists(v)
          /\ Exists(v) =>
               /\ Done(version[v]) /\ row[version[v]] = version[v] /\ Version(version[v]) = v
               /\ byDate => order[v] = place[version[v]]
      BY DEF IInv, VersionsOK
    <2>2. Exists(v) => version[v] \in Requests
      BY DEF IInv, MemoryOK, Exists, Ids
    <2>3. Exists(v) => version[v] # r /\ Done(version[v])'
      BY <2>1, <2>2, StatementFacts
    <2> QED BY <2>1, <2>2, <2>3 DEF Statement
  <1>4. CopiesAgree'
    BY <1>2 DEF IInv, CopiesAgree, Exists
  <1> QED BY <1>1, <1>3, <1>4 DEF IInv

-----------------------------------------------------------------------------
(* What a statement of r may change *)

LEMMA LockFacts ==
  ASSUME IInv, NEW r \in Requests, NEW K, Lock(r, K)
  PROVE  /\ DOMAIN holds' = Requests /\ holds'[r] = holds[r] \cup K
         /\ \A q \in Requests \ {r} : holds'[q] = holds[q]
  BY DEF IInv, MemoryOK, Lock

\* A statement that has nothing to wait for finds what it needs free.
LEMMA FreeFacts ==
  ASSUME NEW r \in Requests, Waits(r) = {}, NEW k \in Needs(r), NEW q \in Requests \ {r}
  PROVE  k \notin holds[q]
  BY DEF Waits

\* r keeps what it remembers, but for what it has chosen and seen.
SameMemory(r) ==
    /\ UNCHANGED <<tables, sequence, byDate, job, row, copy, passed, place, writes, before>>
    /\ pc[r] \notin Outcomes
    /\ DOMAIN chosen' = Requests /\ DOMAIN seen' = Requests /\ DOMAIN holds' = Requests
    /\ \A q \in Requests \ {r} :
         chosen'[q] = chosen[q] /\ seen'[q] = seen[q] /\ holds'[q] = holds[q]

LEMMA SameMemoryIsStatement ==
  ASSUME IInv, NEW r \in Requests, SameMemory(r),
         NEW step \in WriteSteps \cup DeleteSteps \cup Outcomes, Go(r, step),
         step \in Outcomes => holds'[r] = {}
  PROVE  Statement(r)
  <1>1. pc'[r] = step
    BY GoFacts
  <1> QED BY <1>1 DEF IInv, MemoryOK, SameMemory, Statement

\* What r locks in addition keeps the others out of what they must not touch.
LEMMA LockKeepsExclusive ==
  ASSUME IInv, NEW r \in Requests, NEW K, Lock(r, K),
         \A q \in Requests \ {r}, v \in Versions :
            /\ Key("version", v) \in K =>
                 Key("version", v) \notin holds[q] /\ Key("gone", v) \notin holds[q]
            /\ Key("refer", v) \in K \/ Key("update", v) \in K => Key("gone", v) \notin holds[q]
            /\ Key("gone", v) \in K =>
                 /\ Key("gone", v) \notin holds[q] /\ Key("refer", v) \notin holds[q]
                 /\ Key("update", v) \notin holds[q] /\ Key("version", v) \notin holds[q]
  PROVE  Exclusive'
  <1> SUFFICES ASSUME NEW p \in Requests, NEW q \in Requests, NEW v \in Versions, p # q
               PROVE  /\ Key("version", v) \in holds'[p] =>
                           /\ Key("version", v) \notin holds'[q]
                           /\ Key("gone", v) \notin holds'[q]
                      /\ Key("gone", v) \in holds'[p] =>
                           /\ Key("gone", v) \notin holds'[q]
                           /\ Key("refer", v) \notin holds'[q]
                           /\ Key("update", v) \notin holds'[q]
    BY DEF Exclusive, Key
  <1>1. /\ holds'[r] = holds[r] \cup K
        /\ \A s \in Requests \ {r} : holds'[s] = holds[s]
    BY LockFacts
  <1>2. \A s, t \in Requests :
          s # t =>
            /\ Key("version", v) \in holds[s] =>
                 Key("version", v) \notin holds[t] /\ Key("gone", v) \notin holds[t]
            /\ Key("gone", v) \in holds[s] =>
                 /\ Key("gone", v) \notin holds[t] /\ Key("refer", v) \notin holds[t]
                 /\ Key("update", v) \notin holds[t]
    BY DEF IInv, Exclusive
  <1>3. CASE p = r
    BY <1>1, <1>2, <1>3
  <1>4. CASE q = r
    BY <1>1, <1>2, <1>4
  <1>5. CASE p # r /\ q # r
    BY <1>1, <1>2, <1>5
  <1> QED BY <1>3, <1>4, <1>5

LEMMA SameLocksKeepExclusive ==
  ASSUME IInv, UNCHANGED holds
  PROVE  Exclusive'
  BY DEF IInv, Exclusive, Key

\* Places do not change, but for r, which loses its place or keeps it.
LEMMA PlacesStay ==
  ASSUME IInv, NEW r \in Requests, Statement(r), sequence' = sequence,
         \/ ~Placed(r)'
         \/ row'[r] = row[r] /\ place'[r] = place[r] /\ before'[r] = before[r]
         \/ ~byDate
  PROVE  SequenceOK'
  <1>1. byDate' = byDate /\ sequence' = sequence
        /\ \A q \in Requests \ {r} :
             row'[q] = row[q] /\ place'[q] = place[q] /\ before'[q] = before[q]
    BY DEF Statement
  <1> SUFFICES ASSUME byDate, NEW p \in Requests, Placed(p)'
               PROVE  /\ place'[p] <= sequence
                      /\ \A q \in Requests \ {p} : Placed(q)' =>
                           place'[q] # place'[p] /\ (q \in before'[p] => place'[q] < place'[p])
    BY <1>1 DEF SequenceOK
  <1>2. \A q \in Requests : Placed(q)' =>
          /\ Placed(q) /\ row'[q] = row[q] /\ place'[q] = place[q] /\ before'[q] = before[q]
    BY <1>1 DEF Placed
  <1> QED BY <1>2 DEF IInv, SequenceOK

\* Those that had ended when another one began stay ended.
LEMMA EndedStayEnded ==
  ASSUME IInv, NEW r \in Requests, Statement(r),
         \/ before'[r] = before[r]
         \/ before'[r] = {p \in Requests : pc[p] \in Outcomes}
  PROVE  BeforeEnded'
  BY StatementFacts DEF Statement, IInv, BeforeEnded

\* A statement that leaves everything but pc, locks and chosen rows alone.
LEMMA OrdinaryStep ==
  ASSUME IInv, NEW r \in Requests, SameMemory(r),
         NEW step \in WriteSteps \cup DeleteSteps \cup Outcomes, Go(r, step),
         step \in Outcomes => holds'[r] = {}, RequestOK(r)', Exclusive'
  PROVE  IInv'
  <1>1. Statement(r)
    BY SameMemoryIsStatement
  <1>2. SequenceOK' /\ BeforeEnded'
    BY <1>1, PlacesStay, EndedStayEnded DEF SameMemory
  <1> QED BY <1>1, <1>2, StatementKeepsIInv

\* Which kind of request is at a step.
LEMMA IsWriter ==
  ASSUME IInv, NEW r \in Requests, pc[r] \in WriteSteps \ {"commit"}
  PROVE  job[r].op # "delete" /\ WriteOK(r) /\ RowOK(r) /\ pc[r] \notin Resting
  BY DEF IInv, RequestOK, DeleteOK, WriteSteps, DeleteSteps, Resting, Outcomes

LEMMA IsDeletion ==
  ASSUME IInv, NEW r \in Requests, pc[r] \in DeleteSteps \ {"commit"}
  PROVE  job[r].op = "delete" /\ DeleteOK(r) /\ RowOK(r) /\ pc[r] \notin Resting
  BY DEF IInv, RequestOK, WriteOK, WriteSteps, DeleteSteps, Resting, Outcomes

\* Giving up keeps everything that is known.
LEMMA EndKeepsIInv ==
  ASSUME IInv, NEW r \in Requests, pc[r] \notin Resting,
         NEW outcome \in {"missing", "error"}, End(r, outcome)
  PROVE  IInv'
  <1>1. /\ Go(r, outcome) /\ holds' = [holds EXCEPT ![r] = {}]
        /\ UNCHANGED <<tables, sequence, memory, writes>>
    BY DEF End
  <1>2. /\ DOMAIN holds' = Requests /\ holds'[r] = {}
        /\ \A q \in Requests \ {r} : holds'[q] = holds[q]
    BY <1>1 DEF IInv, MemoryOK
  <1>3. SameMemory(r)
    BY <1>1, <1>2 DEF SameMemory, memory, found, IInv, MemoryOK, Resting
  <1>4. outcome \in Outcomes /\ pc'[r] = outcome /\ outcome # "done"
    BY <1>1, GoFacts DEF Outcomes
  <1>5. /\ UNCHANGED <<row, writes, job, place, passed>>
        /\ RequestOK(r) /\ \A q \in Requests : Done(q) => Done(q)'
    BY <1>1, <1>3, <1>4, GoFacts DEF memory, IInv, SameMemory, Done, Outcomes
  <1>6. RequestOK(r)'
    <2>1. RowOK(r)'
      BY <1>5 DEF RequestOK, RowOK
    <2>2. ASSUME WriteOK(r) PROVE WriteOK(r)'
      BY <1>2, <1>4, <1>5, <2>2 DEF WriteOK, Resting, Outcomes, Version
    <2>3. ASSUME DeleteOK(r) PROVE DeleteOK(r)'
      BY <1>2, <1>4, <1>5, <2>3 DEF DeleteOK, Resting, Outcomes
    <2> QED BY <1>5, <2>1, <2>2, <2>3 DEF RequestOK
  <1>7. Exclusive'
    BY <1>2 DEF IInv, Exclusive, Key
  <1> QED BY <1>1, <1>2, <1>3, <1>4, <1>6, <1>7, OrdinaryStep

-----------------------------------------------------------------------------
(* Finding or creating a version, and giving it a place *)

\* The creator of a version that is there has ended, and is no request in progress.
LEMMA CreatorFacts ==
  ASSUME IInv, NEW r \in Requests, ~Done(r), NEW v \in Versions
  PROVE  /\ version[v] \in Ids /\ order[v] \in OrdersAndNone
         /\ version[v] # r /\ (version[v] \in Requests => Done(version[v]))
         /\ order[v] = NoRow <=> ~Exists(v)
  <1>1. version[v] \in Ids /\ order[v] \in OrdersAndNone
    BY DEF IInv, MemoryOK
  <1>2. version[v] \in Requests => Exists(v)
    BY NoRowIsNoOrder DEF Exists
  <1> QED BY <1>1, <1>2 DEF IInv, VersionsOK

LEMMA BeginKeepsIInv ==
  ASSUME IInv, NEW r \in Requests, Begin(r)
  PROVE  IInv'
  <1> DEFINE step == CASE job[r].op = "put" -> "upsert"
                       [] job[r].op = "tag" /\ tagOrder[Tagging(r)] # NoRow -> "done"
                       [] job[r].op = "tag" -> "find"
                       [] job[r].op = "delete" /\ Exists(Version(r)) -> "tags"
                       [] OTHER -> "missing"
             new == version[Version(r)]
             ended == {p \in Requests : pc[p] \in Outcomes}
  <1>1. /\ pc[r] = "idle" /\ Go(r, step)
        /\ row' = [row EXCEPT ![r] = new] /\ before' = [before EXCEPT ![r] = ended]
        /\ UNCHANGED <<tables, sequence, byDate, job, copy, chosen, seen, passed, place, writes, holds>>
    BY DEF Begin, found
  <1>2. /\ job[r].op # "delete" => step \in {"upsert", "done", "find", "missing"}
        /\ job[r].op = "delete" => step \in {"tags", "missing"}
        /\ step = "find" => job[r].op = "tag"
    BY Zenon
  <1>3. Version(r) \in Versions /\ ~Done(r) /\ pc[r] \notin Outcomes /\ holds[r] = {}
    BY <1>1, JobFacts DEF IInv, MemoryOK, Done, Outcomes, Resting
  <1>4. new \in Ids /\ new # r /\ (new \in Requests => Done(new))
    BY <1>3, CreatorFacts
  <1> HIDE DEF step, new, ended
  <1>5. /\ row' \in [Requests -> Ids] /\ row'[r] = new /\ before'[r] = ended
        /\ DOMAIN before' = Requests
        /\ \A q \in Requests \ {r} : row'[q] = row[q] /\ before'[q] = before[q]
    BY <1>1, <1>4 DEF IInv, MemoryOK
  <1>6. step \in WriteSteps \cup DeleteSteps \cup Outcomes
    BY <1>2 DEF WriteSteps, DeleteSteps, Outcomes
  <1>7. Statement(r)
    BY <1>1, <1>3, <1>5, <1>6 DEF Statement, IInv, MemoryOK
  <1>8. SequenceOK'
    BY <1>1, <1>4, <1>5, <1>7, PlacesStay DEF Placed
  <1>9. BeforeEnded'
    BY <1>5, <1>7, EndedStayEnded DEF ended
  <1>10. pc'[r] = step /\ \A q \in Requests : Done(q) => Done(q)'
    BY <1>1, <1>7, GoFacts, StatementFacts
  <1>11. RequestOK(r)'
    <2>1. RowOK(r)'
      BY <1>4, <1>5, <1>10 DEF RowOK
    <2>2. writes'[r] = NoOrders /\ holds'[r] = {} /\ UNCHANGED <<job, place, passed>>
      <3>1. ASSUME job[r].op # "delete" PROVE writes[r] = NoOrders
        BY <1>1, <3>1 DEF IInv, RequestOK, WriteOK, Outcomes
      <3>2. ASSUME job[r].op = "delete" PROVE writes[r] = NoOrders
        BY <3>2 DEF IInv, RequestOK, DeleteOK
      <3> QED BY <1>1, <1>3, <3>1, <3>2
    <2>3. job[r].op # "delete" => WriteOK(r)'
      <3>1. job[r].op # "delete" => place[r] = NoRow /\ passed[r] = {}
        BY <1>1 DEF IInv, RequestOK, WriteOK
      <3> QED BY <1>2, <1>4, <1>5, <1>10, <2>2, <3>1
          DEF WriteOK, WriteSteps, Resting, Outcomes, NoOrders
    <2>4. job[r].op = "delete" => DeleteOK(r)'
      BY <1>2, <1>4, <1>5, <1>10, <2>2 DEF DeleteOK, DeleteSteps, Resting, Outcomes
    <2> QED BY <2>1, <2>2, <2>3, <2>4 DEF RequestOK
  <1>12. Exclusive'
    BY <1>1, SameLocksKeepExclusive
  <1> QED BY <1>7, <1>8, <1>9, <1>11, <1>12, StatementKeepsIInv

LEMMA FindVersionKeepsIInv ==
  ASSUME IInv, NEW r \in Requests, FindVersion(r)
  PROVE  IInv'
  <1> DEFINE step == IF Exists(Version(r)) THEN "tag" ELSE "upsert"
             new == version[Version(r)]
             old == order[Version(r)]
  <1>1. /\ pc[r] = "find" /\ Go(r, step)
        /\ row' = [row EXCEPT ![r] = new] /\ copy' = [copy EXCEPT ![r] = old]
        /\ UNCHANGED <<tables, sequence, byDate, job, chosen, seen, passed, place, before, writes, holds>>
    BY DEF FindVersion, At, found
  <1>2. job[r].op # "delete" /\ WriteOK(r) /\ pc[r] \notin Resting
    BY <1>1, IsWriter DEF WriteSteps
  <1>3. Version(r) \in Versions /\ ~Done(r) /\ pc[r] \notin Outcomes
    BY <1>1, <1>2, JobFacts DEF IInv, Done, Outcomes, Resting
  <1>4. /\ new \in Ids /\ new # r /\ (new \in Requests => Done(new))
        /\ old \in OrdersAndNone /\ (step = "tag" => new # NoRow)
    BY <1>3, CreatorFacts DEF Exists
  <1>5. /\ row' \in [Requests -> Ids] /\ row'[r] = new
        /\ copy' \in [Requests -> OrdersAndNone] /\ copy'[r] = old
        /\ \A q \in Requests \ {r} : row'[q] = row[q] /\ copy'[q] = copy[q]
    BY <1>1, <1>4 DEF IInv, MemoryOK
  <1>6. step \in {"tag", "upsert"} /\ step \in WriteSteps
    BY DEF WriteSteps
  <1>7. Statement(r)
    <2>1. pc'[r] = step /\ step \notin Outcomes
      BY <1>1, <1>6, GoFacts DEF Outcomes
    <2> HIDE DEF step
    <2> QED BY <1>1, <1>3, <1>5, <1>6, <2>1 DEF Statement, IInv, MemoryOK
  <1>8. SequenceOK' /\ BeforeEnded'
    BY <1>1, <1>4, <1>5, <1>7, PlacesStay, EndedStayEnded DEF Placed
  <1>9. pc'[r] = step /\ \A q \in Requests : Done(q) => Done(q)'
    BY <1>1, <1>7, GoFacts, StatementFacts
  <1>10. RequestOK(r)'
    <2>1. RowOK(r)'
      BY <1>4, <1>5, <1>9 DEF RowOK
    <2>2. UNCHANGED <<version, order, tagOrder, byDate, job, writes, holds, place, passed>>
      BY <1>1 DEF tables
    <2>3. writes[r] = NoOrders /\ \A x \in Taggings : Key("tag", x) \notin holds[r]
      BY <1>1, <1>2 DEF WriteOK, Outcomes
    <2>4. Version(r)' = Version(r)
      BY <2>2 DEF Version
    <2> HIDE DEF step
    <2>5. WriteOK(r)'
      BY <1>1, <1>2, <1>4, <1>5, <1>6, <1>9, <2>2, <2>3, <2>4
      DEF WriteOK, WriteSteps, Resting, Outcomes, NoOrders
    <2> QED BY <1>2, <2>1, <2>2, <2>5 DEF RequestOK
  <1>11. Exclusive'
    BY <1>1, SameLocksKeepExclusive
  <1> QED BY <1>7, <1>8, <1>10, <1>11, StatementKeepsIInv

LEMMA UpsertVersionKeepsIInv ==
  ASSUME IInv, NEW r \in Requests, UpsertVersion(r)
  PROVE  IInv'
  <1> DEFINE there == Exists(Version(r))
             step == IF there THEN AfterVersion(r) ELSE "order"
             new == IF there THEN version[Version(r)] ELSE r
             old == order[Version(r)]
             K == {Key("version", Version(r))} \cup LeftPlace(Version(r))
  <1>1. /\ pc[r] = "upsert" /\ Waits(r) = {} /\ Lock(r, K) /\ Go(r, step)
        /\ row' = [row EXCEPT ![r] = new] /\ copy' = [copy EXCEPT ![r] = old]
        /\ UNCHANGED <<tables, sequence, byDate, job, chosen, seen, passed, place, before, writes>>
    BY DEF UpsertVersion, At, found
  <1>2. job[r].op # "delete" /\ WriteOK(r) /\ pc[r] \notin Resting
    BY <1>1, IsWriter DEF WriteSteps
  <1>3. Version(r) \in Versions /\ ~Done(r) /\ pc[r] \notin Outcomes
    BY <1>1, <1>2, JobFacts DEF IInv, Done, Outcomes, Resting
  <1>4. /\ new \in Ids /\ new # NoRow /\ (new \in Requests \ {r} => Done(new))
        /\ old \in OrdersAndNone /\ (new = r <=> ~there) /\ (~there <=> old = NoRow)
        /\ there => new = version[Version(r)]
    BY <1>3, CreatorFacts, NoRowIsNoOrder DEF Exists, Ids
  <1>5. /\ row' \in [Requests -> Ids] /\ row'[r] = new
        /\ copy' \in [Requests -> OrdersAndNone] /\ copy'[r] = old
        /\ \A q \in Requests \ {r} : row'[q] = row[q] /\ copy'[q] = copy[q]
    BY <1>1, <1>4 DEF IInv, MemoryOK
  <1>6. step \in {"tag", "commit", "order"} /\ step \in WriteSteps /\ (step = "order" <=> ~there)
    BY DEF WriteSteps, AfterVersion
  <1>13. step = "tag" => job[r].op = "tag"
    BY DEF AfterVersion
  <1>7. /\ DOMAIN holds' = Requests /\ holds'[r] = holds[r] \cup K
        /\ \A q \in Requests \ {r} : holds'[q] = holds[q]
    BY <1>1, LockFacts
  <1>8. Statement(r)
    <2>1. pc'[r] = step /\ step \notin Outcomes
      BY <1>1, <1>6, GoFacts DEF Outcomes
    <2> HIDE DEF step
    <2> QED BY <1>1, <1>3, <1>5, <1>6, <1>7, <2>1 DEF Statement, IInv, MemoryOK
  <1>14. place[r] = NoRow /\ passed[r] = {}
    BY <1>1, <1>2 DEF WriteOK
  <1>9. SequenceOK' /\ BeforeEnded'
    BY <1>1, <1>4, <1>5, <1>8, <1>14, PlacesStay, EndedStayEnded DEF Placed
  <1>10. pc'[r] = step /\ \A q \in Requests : Done(q) => Done(q)'
    BY <1>1, <1>8, GoFacts, StatementFacts
  <1>11. RequestOK(r)'
    <2>1. RowOK(r)'
      BY <1>4, <1>5, <1>10 DEF RowOK
    <2>2. UNCHANGED <<version, order, tagOrder, byDate, job, writes, place, passed>>
      BY <1>1 DEF tables
    <2>3. /\ writes[r] = NoOrders
          /\ \A x \in Taggings : Key("tag", x) \notin holds[r] /\ Key("tag", x) \notin K
          /\ \A k \in K : k[1] \in {"version", "left"}
      BY <1>1, <1>2 DEF WriteOK, Outcomes, Key, Keys, LeftPlace
    <2>4. Version(r)' = Version(r) /\ (Exists(Version(r))' <=> Exists(Version(r)))
      BY <2>2 DEF Version, Exists
    <2>5. Key("version", Version(r)) \in holds'[r]
      BY <1>7
    <2>6. Creating(r)' \/ row'[r] # r
      <3>1. CASE there
        BY <1>4, <1>5, <3>1
      <3>2. CASE ~there
        <4>1. pc'[r] = "order"
          BY <1>10, <3>2
        <4> QED BY <2>4, <2>5, <3>2, <4>1 DEF Creating
      <3> QED BY <3>1, <3>2
    <2> HIDE DEF step, K, new
    <2>7. WriteOK(r)'
      BY <1>2, <1>4, <1>5, <1>6, <1>7, <1>10, <1>13, <1>14, <2>2, <2>3, <2>4, <2>6
      DEF WriteOK, WriteSteps, Resting, Outcomes, NoOrders
    <2> QED BY <1>2, <2>1, <2>2, <2>7 DEF RequestOK
  <1>12. Exclusive'
    <2>1. {Key(kind, Version(r)) : kind \in {"version", "update", "gone"}} = Needs(r)
      BY <1>1 DEF Needs
    <2>2. \A q \in Requests \ {r} :
            Key("version", Version(r)) \notin holds[q] /\ Key("gone", Version(r)) \notin holds[q]
      BY <1>1, <2>1, FreeFacts
    <2>3. \A v \in Versions :
            /\ Key("version", v) \in K => v = Version(r)
            /\ Key("refer", v) \notin K /\ Key("update", v) \notin K /\ Key("gone", v) \notin K
      BY DEF Key, Keys, LeftPlace
    <2> HIDE DEF K
    <2> QED BY <1>1, <2>2, <2>3, LockKeepsExclusive
  <1> QED BY <1>8, <1>9, <1>11, <1>12, StatementKeepsIInv

\* A step at which r finds its place, moves another version or gets its place.
LEMMA PlacingKeepsRequest ==
  ASSUME IInv, NEW r \in Requests, pc[r] \in {"order", "sort", "place"}, Statement(r),
         row'[r] = row[r], place'[r] # NoRow,
         \/ /\ pc'[r] = "place" /\ writes'[r][Version(r)] = NoRow
            /\ \A w \in passed'[r] : ~byDate /\ Exists(w) /\ Key("update", w) \in holds'[r]
         \/ /\ pc'[r] = AfterVersion(r)
            /\ copy'[r] = writes'[r][Version(r)] /\ copy'[r] = place'[r],
         holds[r] \subseteq holds'[r],
         \A k \in holds'[r] \ holds[r] : k[1] \in {"update", "place", "left"},
         \A w \in Versions \ {Version(r)} :
            writes'[r][w] # NoRow => ~byDate /\ Exists(w) /\ Key("update", w) \in holds'[r]
  PROVE  RequestOK(r)'
  <1>1. /\ job[r].op # "delete" /\ WriteOK(r) /\ RowOK(r) /\ pc[r] \notin Resting
        /\ row[r] = r /\ Creating(r)
    <2>1. job[r].op # "delete" /\ WriteOK(r) /\ RowOK(r) /\ pc[r] \notin Resting
      BY IsWriter DEF WriteSteps
    <2> QED BY <2>1 DEF WriteOK
  <1>2. /\ UNCHANGED <<version, order, tagOrder, byDate, job>>
        /\ \A q \in Requests : Done(q) => Done(q)'
    BY StatementFacts
  <1>3. Version(r)' = Version(r) /\ \A v : Exists(v)' <=> Exists(v)
    BY <1>2 DEF Version, Exists
  <1>4. pc'[r] \in {"place", "tag", "commit"} /\ (pc'[r] = "tag" => job[r].op = "tag")
    BY DEF AfterVersion
  <1>5. RowOK(r)'
    BY <1>1, <1>2 DEF RowOK
  <1>6. Creating(r)'
    BY <1>1, <1>3, <1>4 DEF Creating
  <1>7. \A x \in Taggings : Key("tag", x) \notin holds'[r]
    <2>1. \A x \in Taggings : Key("tag", x) \notin holds[r]
      BY <1>1 DEF WriteOK
    <2>2. \A x \in Taggings : Key("tag", x)[1] = "tag"
      BY DEF Key
    <2> QED BY <2>1, <2>2
  <1>8. version[Version(r)] # r
    BY <1>1, JobFacts, NoRowIsNoOrder DEF Creating, Exists, IInv
  <1>9. /\ pc'[r] \in WriteSteps /\ pc'[r] \notin Resting
        /\ pc'[r] \notin {"idle", "find", "upsert", "order", "sort"}
    BY <1>4 DEF WriteSteps, Resting, Outcomes
  <1>10. \A k \in holds'[r] : k[1] \in {"version", "refer", "update", "tag", "place", "left"}
    BY <1>1 DEF WriteOK
  <1>11. \A w \in Versions \ {Version(r)} :
           writes'[r][w] # NoRow => ~byDate /\ Exists(w)' /\ Key("update", w) \in holds'[r]
    BY <1>3
  <1>12. pc'[r] = "place" =>
           /\ writes'[r][Version(r)] = NoRow
           /\ \A w \in passed'[r] : ~byDate /\ Exists(w)' /\ Key("update", w) \in holds'[r]
    BY <1>3 DEF AfterVersion
  <1>13. WriteOK(r)'
    BY <1>1, <1>2, <1>3, <1>4, <1>6, <1>7, <1>8, <1>9, <1>10, <1>11, <1>12, NoRowIsNoOrder
    DEF WriteOK
  <1> QED BY <1>1, <1>2, <1>5, <1>13 DEF RequestOK

LEMMA SequentialOrderKeepsIInv ==
  ASSUME IInv, NEW r \in Requests, SequentialOrder(r)
  PROVE  IInv'
  <1>1. /\ pc[r] = "order" /\ byDate /\ sequence' = sequence + 1 /\ Go(r, "place")
        /\ place' = [place EXCEPT ![r] = sequence + 1]
        /\ UNCHANGED <<tables, byDate, job, row, copy, chosen, seen, passed, before, writes, holds>>
    BY DEF SequentialOrder, At
  <1>2. job[r].op # "delete" /\ WriteOK(r) /\ pc[r] \notin Resting
    BY <1>1, IsWriter DEF WriteSteps
  <1>3. Version(r) \in Versions /\ sequence \in Nat /\ pc[r] \notin Outcomes
    BY <1>2, JobFacts DEF IInv, MemoryOK, Resting
  <1>4. sequence + 1 \in Nat /\ sequence + 1 # NoRow /\ sequence + 1 \in OrdersAndNone
    BY <1>3, NoRowIsNoOrder DEF OrdersAndNone
  <1>5. /\ place' \in [Requests -> OrdersAndNone] /\ place'[r] = sequence + 1
        /\ \A q \in Requests \ {r} : place'[q] = place[q]
    BY <1>1, <1>4 DEF IInv, MemoryOK
  <1>7. pc'[r] = "place" /\ "place" \in WriteSteps /\ pc'[r] \notin Outcomes
    BY <1>1, GoFacts DEF WriteSteps, Outcomes
  <1>8. Statement(r)
    BY <1>1, <1>3, <1>4, <1>5, <1>7 DEF Statement, IInv, MemoryOK
  <1>9. RequestOK(r)'
    <2>1. writes[r] = NoOrders /\ passed[r] = {}
      BY <1>1, <1>2 DEF WriteOK, Outcomes
    <2>2. /\ writes'[r][Version(r)] = NoRow /\ passed'[r] = {}
          /\ \A w \in Versions \ {Version(r)} : writes'[r][w] = NoRow
      BY <1>1, <1>3, <2>1 DEF NoOrders
    <2> QED BY <1>1, <1>4, <1>5, <1>7, <1>8, <2>2, PlacingKeepsRequest
  <1>10. SequenceOK'
    <2>1. place[r] = NoRow /\ row[r] = r
      BY <1>1, <1>2 DEF WriteOK
    <2>2. \A q \in Requests \ {r} : Placed(q)' => Placed(q) /\ place[q] <= sequence
      BY <1>1, <1>5 DEF Placed, IInv, SequenceOK
    <2>3. \A q \in Requests : r \notin before[q]
      BY <1>3 DEF IInv, BeforeEnded
    <2>4. \A q \in Requests \ {r} : Placed(q)' => place[q] \in Nat
      BY <2>2 DEF Placed, IInv, MemoryOK, OrdersAndNone
    <2> SUFFICES ASSUME NEW p \in Requests, Placed(p)'
                 PROVE  /\ place'[p] <= sequence + 1
                        /\ \A q \in Requests \ {p} : Placed(q)' =>
                             place'[q] # place'[p] /\ (q \in before[p] => place'[q] < place'[p])
      BY <1>1 DEF SequenceOK
    <2>5. CASE p = r
      BY <1>3, <1>5, <2>2, <2>4, <2>5
    <2>6. CASE p # r
      <3>1. place'[p] <= sequence + 1 /\ place'[p] # sequence + 1
        BY <1>3, <1>5, <2>2, <2>4, <2>6
      <3>2. ASSUME NEW q \in Requests \ {p}, Placed(q)'
            PROVE  place'[q] # place'[p] /\ (q \in before[p] => place'[q] < place'[p])
        <4>1. CASE q = r
          BY <1>5, <2>3, <3>1, <4>1
        <4>2. CASE q # r
          BY <1>1, <1>5, <2>2, <2>6, <3>2, <4>2 DEF IInv, SequenceOK
        <4> QED BY <4>1, <4>2
      <3> QED BY <3>1, <3>2
    <2> QED BY <2>5, <2>6
  <1>11. BeforeEnded' /\ Exclusive'
    BY <1>1, <1>8, EndedStayEnded, SameLocksKeepExclusive
  <1> QED BY <1>8, <1>9, <1>10, <1>11, StatementKeepsIInv

LEMMA SelectForUpdateKeepsIInv ==
  ASSUME IInv, NEW r \in Requests, SelectForUpdate(r)
  PROVE  IInv'
  <1>1. /\ pc[r] = "order" /\ Go(r, "sort") /\ DOMAIN chosen' = Requests /\ DOMAIN seen' = Requests
        /\ \A q \in Requests \ {r} : chosen'[q] = chosen[q] /\ seen'[q] = seen[q]
        /\ ~byDate
        /\ UNCHANGED <<tables, sequence, byDate, job, row, copy, passed, place, before, writes, holds>>
    BY DEF SelectForUpdate, At, IInv, MemoryOK
  <1>2. job[r].op # "delete" /\ WriteOK(r) /\ RowOK(r) /\ pc[r] \notin Resting
    BY <1>1, IsWriter DEF WriteSteps
  <1>3. SameMemory(r) /\ "sort" \in WriteSteps /\ "sort" \notin Outcomes
    BY <1>1, <1>2 DEF SameMemory, WriteSteps, Resting, IInv, MemoryOK, Outcomes
  <1>4. pc'[r] = "sort" /\ \A q \in Requests : Done(q) => Done(q)'
    BY <1>1, GoFacts DEF Done
  <1>5. RequestOK(r)'
    <2>1. RowOK(r)'
      BY <1>1, <1>2, <1>4 DEF RowOK
    <2>2. UNCHANGED <<version, order, tagOrder>>
      BY <1>1 DEF tables
    <2>3. Version(r)' = Version(r) /\ Tagging(r)' = Tagging(r) /\ \A v : Exists(v)' <=> Exists(v)
      BY <1>1, <2>2 DEF Version, Tagging, Exists
    <2>4. Creating(r)
      BY <1>1, <1>2 DEF WriteOK
    <2>5. Creating(r)'
      BY <1>1, <1>4, <2>3, <2>4 DEF Creating
    <2>6. writes[r] = NoOrders /\ \A x \in Taggings : Key("tag", x) \notin holds[r]
      BY <1>1, <1>2 DEF WriteOK, Outcomes
    <2>7. WriteOK(r)'
      BY <1>1, <1>2, <1>4, <2>2, <2>3, <2>5, <2>6
      DEF WriteOK, WriteSteps, Resting, Outcomes, NoOrders
    <2> QED BY <1>1, <1>2, <2>1, <2>7 DEF RequestOK
  <1>6. Exclusive'
    BY <1>1, SameLocksKeepExclusive
  <1> QED BY <1>1, <1>3, <1>5, <1>6, OrdinaryStep

LEMMA SemanticOrderKeepsIInv ==
  ASSUME IInv, NEW r \in Requests, SemanticOrder(r)
  PROVE  IInv'
  <1>1. PICK vs : vs = ChosenVersions(r)
    OBVIOUS
  <1> DEFINE K == Keys("update", vs)
  <1>2. /\ pc[r] = "sort" /\ Waits(r) = {} /\ Lock(r, K) /\ Go(r, "place")
        /\ UNCHANGED <<tables, sequence, byDate, job, row, copy, chosen, seen, before, writes>>
    BY <1>1 DEF SemanticOrder, At
  <1>3. \A v \in vs : v \in Versions /\ Exists(v) /\ order[v] \in Nat
    <2>1. \A v \in vs : v \in Versions /\ Exists(v)
      BY <1>1 DEF ChosenVersions
    <2> QED BY <2>1 DEF IInv, MemoryOK, VersionsOK, OrdersAndNone
  <1>4. PICK up \in SUBSET vs, n \in Nat :
          passed' = [passed EXCEPT ![r] = up] /\ place' = [place EXCEPT ![r] = n]
    BY <1>1, <1>3 DEF SemanticOrder
  <1>5. job[r].op # "delete" /\ WriteOK(r) /\ pc[r] \notin Resting
    BY <1>2, IsWriter DEF WriteSteps
  <1>6. Version(r) \in Versions /\ pc[r] \notin Outcomes /\ ~byDate
    BY <1>2, <1>5, JobFacts DEF IInv, MemoryOK, Resting, WriteOK
  <1>7. \A kind \in {"version", "refer", "update", "gone"}, v \in vs : Key(kind, v) \in Needs(r)
    BY <1>1, <1>2 DEF Needs
  <1>8. /\ place' \in [Requests -> OrdersAndNone] /\ place'[r] = n /\ n # NoRow
        /\ passed' \in [Requests -> SUBSET Versions] /\ passed'[r] = up
        /\ \A q \in Requests \ {r} : place'[q] = place[q] /\ passed'[q] = passed[q]
    <2>1. n \in OrdersAndNone /\ n # NoRow /\ up \in SUBSET Versions
      BY <1>3, NoRowIsNoOrder DEF OrdersAndNone
    <2> QED BY <1>4, <2>1 DEF IInv, MemoryOK
  <1>9. /\ DOMAIN holds' = Requests /\ holds'[r] = holds[r] \cup K
        /\ \A q \in Requests \ {r} : holds'[q] = holds[q]
    BY <1>2, LockFacts
  <1>10. pc'[r] = "place" /\ "place" \in WriteSteps /\ pc'[r] \notin Outcomes
    BY <1>2, GoFacts DEF WriteSteps, Outcomes
  <1>11. Statement(r)
    BY <1>2, <1>6, <1>8, <1>9, <1>10 DEF Statement, IInv, MemoryOK
  <1>12. /\ \A k \in K : k[1] = "update"
         /\ \A v \in vs : Key("update", v) \in K
         /\ \A v \in Versions :
              /\ Key("update", v) \in K => v \in vs
              /\ Key("version", v) \notin K /\ Key("refer", v) \notin K /\ Key("gone", v) \notin K
    BY DEF Keys, Key
  <1> HIDE DEF K
  <1>13. RequestOK(r)'
    <2>1. writes'[r] = NoOrders /\ row'[r] = row[r]
      BY <1>2, <1>5 DEF WriteOK, Outcomes
    <2>2. /\ writes'[r][Version(r)] = NoRow
          /\ \A w \in Versions \ {Version(r)} : writes'[r][w] = NoRow
      BY <1>6, <2>1 DEF NoOrders
    <2>3. \A w \in passed'[r] : ~byDate /\ Exists(w) /\ Key("update", w) \in holds'[r]
      BY <1>3, <1>6, <1>8, <1>9, <1>12
    <2>4. holds[r] \subseteq holds'[r]
          /\ \A k \in holds'[r] \ holds[r] : k[1] \in {"update", "place", "left"}
      BY <1>9, <1>12
    <2> QED BY <1>2, <1>8, <1>10, <1>11, <2>1, <2>2, <2>3, <2>4, PlacingKeepsRequest
  <1>14. Exclusive'
    <2>1. \A q \in Requests \ {r}, v \in vs : Key("gone", v) \notin holds[q]
      BY <1>2, <1>7, FreeFacts
    <2> QED BY <1>2, <1>12, <2>1, LockKeepsExclusive
  <1>15. SequenceOK' /\ BeforeEnded'
    BY <1>2, <1>6, <1>11, PlacesStay, EndedStayEnded
  <1> QED BY <1>11, <1>13, <1>14, <1>15, StatementKeepsIInv

\* What r sets next: the place of a version it has passed, or its own.
LEMMA UpdatesFacts ==
  ASSUME IInv, NEW r \in Requests, pc[r] = "place", NEW u \in Updates(r)
  PROVE  /\ u[1] \in Versions /\ u[2] \in Nat
         /\ \/ passed[r] = {} /\ u[1] = Version(r) /\ u[2] = place[r]
            \/ /\ u[1] \in passed[r] /\ u[2] = order[u[1]] + 1 /\ order[u[1]] \in Nat
               /\ u[1] # Version(r)
  <1>1. /\ WriteOK(r) /\ Creating(r) /\ Version(r) \in Versions
    BY IsWriter, JobFacts DEF WriteSteps, WriteOK, IInv
  <1>2. CASE passed[r] = {}
    <2>1. u = <<Version(r), place[r]>>
      BY <1>2 DEF Updates
    <2>2. place[r] \in OrdersAndNone /\ place[r] # NoRow
      BY <1>1 DEF IInv, MemoryOK, WriteOK
    <2> QED BY <1>1, <1>2, <2>1, <2>2 DEF OrdersAndNone
  <1>3. CASE passed[r] # {}
    <2>1. PICK v \in passed[r] : u = <<v, order[v] + 1>>
      BY <1>3 DEF Updates
    <2>2. v \in Versions /\ Exists(v)
      BY <1>1 DEF IInv, MemoryOK, WriteOK
    <2>3. order[v] \in Nat /\ v # Version(r)
      BY <1>1, <2>2 DEF IInv, MemoryOK, VersionsOK, OrdersAndNone, Creating
    <2> QED BY <2>1, <2>2, <2>3
  <1> QED BY <1>2, <1>3

LEMMA SetPlaceKeepsIInv ==
  ASSUME IInv, NEW r \in Requests, At(r, "place"), NEW u \in Updates(r), SetPlace(r, u[1], u[2])
  PROVE  IInv'
  <1>1. PICK v, n : v = u[1] /\ n = u[2]
    OBVIOUS
  <1> DEFINE last == passed[r] = {}
             step == IF last THEN AfterVersion(r) ELSE "place"
             K == {Key("place", n)} \cup LeftPlace(v)
  <1>2. /\ pc[r] = "place" /\ Lock(r, K) /\ Go(r, step)
        /\ writes' = [writes EXCEPT ![r][v] = n]
        /\ passed' = [passed EXCEPT ![r] = @ \ {v}]
        /\ copy' = [copy EXCEPT ![r] = IF last THEN n ELSE @]
        /\ UNCHANGED <<tables, sequence, byDate, job, row, chosen, seen, place, before>>
    BY <1>1 DEF At, SetPlace
  <1>3. job[r].op # "delete" /\ WriteOK(r) /\ pc[r] \notin Resting /\ row[r] = r
    BY <1>2, IsWriter DEF WriteSteps, WriteOK
  <1>4. Version(r) \in Versions /\ pc[r] \notin Outcomes
    BY <1>3, JobFacts DEF IInv, MemoryOK, Resting
  <1>5. /\ v \in Versions /\ n \in Nat /\ n \in OrdersAndNone
        /\ \/ last /\ v = Version(r) /\ n = place[r]
           \/ v \in passed[r] /\ v # Version(r)
    BY <1>1, <1>2, UpdatesFacts DEF OrdersAndNone
  <1>6. /\ writes' \in [Requests -> [Versions -> OrdersAndNone]]
        /\ \A w \in Versions : writes'[r][w] = IF w = v THEN n ELSE writes[r][w]
        /\ copy' \in [Requests -> OrdersAndNone] /\ (last => copy'[r] = n)
        /\ passed' \in [Requests -> SUBSET Versions] /\ passed'[r] = passed[r] \ {v}
        /\ \A q \in Requests \ {r} :
             writes'[q] = writes[q] /\ copy'[q] = copy[q] /\ passed'[q] = passed[q]
    <2>1. writes' = [writes EXCEPT ![r] = [writes[r] EXCEPT ![v] = n]]
      BY <1>2
    <2>2. /\ [writes[r] EXCEPT ![v] = n] \in [Versions -> OrdersAndNone]
          /\ \A w \in Versions : [writes[r] EXCEPT ![v] = n][w] = IF w = v THEN n ELSE writes[r][w]
      BY <1>5 DEF IInv, MemoryOK
    <2>3. /\ writes' \in [Requests -> [Versions -> OrdersAndNone]]
          /\ \A w \in Versions : writes'[r][w] = IF w = v THEN n ELSE writes[r][w]
          /\ \A q \in Requests \ {r} : writes'[q] = writes[q]
      BY <2>1, <2>2 DEF IInv, MemoryOK
    <2>4. /\ copy' \in [Requests -> OrdersAndNone] /\ (last => copy'[r] = n)
          /\ \A q \in Requests \ {r} : copy'[q] = copy[q]
      BY <1>2, <1>5 DEF IInv, MemoryOK
    <2>5. /\ passed' \in [Requests -> SUBSET Versions] /\ passed'[r] = passed[r] \ {v}
          /\ \A q \in Requests \ {r} : passed'[q] = passed[q]
      BY <1>2 DEF IInv, MemoryOK
    <2> QED BY <2>3, <2>4, <2>5
  <1>7. /\ DOMAIN holds' = Requests /\ holds'[r] = holds[r] \cup K
        /\ \A q \in Requests \ {r} : holds'[q] = holds[q]
    BY <1>2, LockFacts
  <1>8. step \in {"place", "tag", "commit"} /\ (last => step = AfterVersion(r))
        /\ (~last => step = "place")
    BY DEF AfterVersion
  <1>9. pc'[r] = step /\ step \in WriteSteps /\ pc'[r] \notin Outcomes
    BY <1>2, <1>8, GoFacts DEF WriteSteps, Outcomes
  <1> HIDE DEF step
  <1>10. \A k \in K : k[1] \in {"place", "left"}
    BY DEF Key, Keys, LeftPlace
  <1> HIDE DEF K
  <1>11. Statement(r)
    BY <1>2, <1>4, <1>6, <1>7, <1>9 DEF Statement, IInv, MemoryOK
  <1>12. RequestOK(r)'
    <2>1. /\ \A w \in passed[r] : ~byDate /\ Exists(w) /\ Key("update", w) \in holds[r]
          /\ \A w \in Versions \ {Version(r)} :
               writes[r][w] # NoRow => ~byDate /\ Exists(w) /\ Key("update", w) \in holds[r]
          /\ place[r] # NoRow /\ writes[r][Version(r)] = NoRow
      BY <1>2, <1>3 DEF WriteOK
    <2>2. \A w \in Versions \ {Version(r)} :
            writes'[r][w] # NoRow => ~byDate /\ Exists(w) /\ Key("update", w) \in holds'[r]
      BY <1>5, <1>6, <1>7, <2>1
    <2>3. \/ /\ pc'[r] = "place" /\ writes'[r][Version(r)] = NoRow
             /\ \A w \in passed'[r] : ~byDate /\ Exists(w) /\ Key("update", w) \in holds'[r]
          \/ /\ pc'[r] = AfterVersion(r)
             /\ copy'[r] = writes'[r][Version(r)] /\ copy'[r] = place'[r]
      <3>1. CASE last
        BY <1>2, <1>4, <1>5, <1>6, <1>8, <1>9, <3>1
      <3>2. CASE ~last
        BY <1>4, <1>5, <1>6, <1>7, <1>8, <1>9, <2>1, <3>2
      <3> QED BY <3>1, <3>2
    <2> QED BY <1>2, <1>7, <1>10, <1>11, <2>1, <2>2, <2>3, PlacingKeepsRequest
  <1>13. Exclusive'
    <2>1. \A w \in Versions : /\ Key("version", w) \notin K /\ Key("refer", w) \notin K
                              /\ Key("update", w) \notin K /\ Key("gone", w) \notin K
      BY <1>10 DEF Key
    <2> QED BY <1>2, <2>1, LockKeepsExclusive
  <1>14. SequenceOK' /\ BeforeEnded'
    BY <1>2, <1>11, PlacesStay, EndedStayEnded
  <1> QED BY <1>11, <1>12, <1>13, <1>14, StatementKeepsIInv

LEMMA SetOrderKeepsIInv ==
  ASSUME IInv, NEW r \in Requests, SetOrder(r)
  PROVE  IInv'
  <1>1. CASE End(r, "error")
    <2>1. pc[r] \notin Resting
      BY DEF SetOrder, At, Resting, Outcomes
    <2> QED BY <1>1, <2>1, EndKeepsIInv
  <1>2. CASE \E u \in Updates(r) : SetPlace(r, u[1], u[2])
    BY <1>2, SetPlaceKeepsIInv DEF SetOrder
  <1> QED BY <1>1, <1>2 DEF SetOrder

-----------------------------------------------------------------------------
(* Tagging *)

LEMMA InsertTagKeepsIInv ==
  ASSUME IInv, NEW r \in Requests, InsertTag(r)
  PROVE  IInv'
  <1> DEFINE x == Tagging(r)
             K == {Key("tag", x), Key("refer", Version(r))}
  <1>1. pc[r] = "tag" /\ Waits(r) = {}
    BY DEF InsertTag, At
  <1>2. job[r].op = "tag" /\ WriteOK(r) /\ RowOK(r) /\ pc[r] \notin Resting
    BY <1>1, IsWriter DEF WriteSteps, WriteOK
  <1>3. /\ Version(r) \in Versions /\ ~Done(r) /\ pc[r] \notin Outcomes
        /\ Tagging(r) \in Taggings /\ Tagging(r)[1] = Version(r)
    BY <1>1, <1>2, JobFacts DEF IInv, Done, Outcomes, Resting
  <1>4. /\ row[r] # NoRow /\ row[r] \in Ids
        /\ byDate /\ row[r] = version[Version(r)] => copy[r] = order[Version(r)]
        /\ row[r] = r => Creating(r)
        /\ \A y \in Taggings : Key("tag", y) \notin holds[r]
    BY <1>1, <1>2 DEF WriteOK, IInv, MemoryOK
  <1>5. "commit" \in WriteSteps /\ "commit" \notin Outcomes /\ "commit" \notin Resting
    BY DEF WriteSteps, Outcomes, Resting
  <1>6. ASSUME Go(r, "commit"), UNCHANGED <<tables, sequence, memory, writes>>,
               DOMAIN holds' = Requests, holds[r] \subseteq holds'[r],
               \A q \in Requests \ {r} : holds'[q] = holds[q],
               \A k \in holds'[r] \ holds[r] : k[1] \in {"refer", "tag"},
               \A y \in Taggings : Key("tag", y) \in holds'[r] => y = x /\ Tagged(r)',
               Exclusive'
        PROVE  IInv'
    <2>1. /\ UNCHANGED <<version, order, tagOrder, sequence, byDate, job, row, copy, chosen, seen,
                         passed, place, before, writes>>
          /\ tables' = tables
      BY <1>6 DEF tables, memory, found
    <2>2. SameMemory(r)
      BY <1>3, <1>6, <2>1 DEF SameMemory, IInv, MemoryOK
    <2>3. pc'[r] = "commit" /\ \A q \in Requests : Done(q) => Done(q)'
      BY <1>3, <1>6, GoFacts DEF Done
    <2>4. RowOK(r)'
      BY <1>2, <2>1, <2>3 DEF RowOK
    <2>5. Version(r)' = Version(r) /\ Tagging(r)' = Tagging(r) /\ \A v : Exists(v)' <=> Exists(v)
      BY <2>1 DEF Version, Tagging, Exists
    <2>6. row[r] = r => Creating(r)'
      BY <1>1, <1>4, <1>6, <2>1, <2>3, <2>5 DEF Creating
    <2>7. WriteOK(r)'
      <3>1. \A k \in holds'[r] : k[1] \in {"version", "refer", "update", "tag", "place", "left"}
        BY <1>2, <1>6 DEF WriteOK
      <3>2. \A w \in Versions \ {Version(r)} :
              writes[r][w] # NoRow => ~byDate /\ Exists(w) /\ Key("update", w) \in holds'[r]
        BY <1>2, <1>6 DEF WriteOK
      <3>3. writes[r] # NoOrders => row[r] = r
        BY <1>2 DEF WriteOK
      <3>4. NoOrders' = NoOrders
        BY DEF NoOrders
      <3> QED BY <1>2, <1>5, <1>6, <2>1, <2>3, <2>5, <2>6, <3>1, <3>2, <3>3, <3>4 DEF WriteOK
    <2>8. RequestOK(r)'
      BY <1>2, <2>1, <2>4, <2>7 DEF RequestOK
    <2> QED BY <1>5, <1>6, <2>2, <2>8, OrdinaryStep
  <1>7. CASE tagOrder[x] # NoRow /\ row[r] = version[Version(r)] /\ Go(r, "commit")
             /\ UNCHANGED <<tables, sequence, memory, writes, holds>>
    BY <1>4, <1>6, <1>7, SameLocksKeepExclusive DEF IInv, MemoryOK
  <1>8. CASE row[r] \in {r, version[Version(r)]} /\ Lock(r, K) /\ Go(r, "commit")
             /\ UNCHANGED <<tables, sequence, memory, writes>>
    <2>1. /\ DOMAIN holds' = Requests /\ holds'[r] = holds[r] \cup K
          /\ \A q \in Requests \ {r} : holds'[q] = holds[q]
      BY <1>8, LockFacts
    <2>2. /\ \A k \in K : k[1] \in {"refer", "tag"}
          /\ \A y \in Taggings : Key("tag", y) \in K => y = x
          /\ Key("refer", Version(r)) \in K
          /\ \A v \in Versions :
               /\ Key("refer", v) \in K => v = Version(r)
               /\ Key("version", v) \notin K /\ Key("update", v) \notin K /\ Key("gone", v) \notin K
      BY DEF Key
    <2>3. Tagged(r)'
      <3>1. UNCHANGED <<version, order, job, byDate, row, copy>>
        BY <1>8 DEF tables, memory
      <3> HIDE DEF K
      <3> QED BY <1>4, <1>8, <2>1, <2>2, <3>1 DEF Tagged, Exists, Version
    <2>4. Exclusive'
      <3>1. Key("gone", Version(r)) \in Needs(r)
        BY <1>1 DEF Needs
      <3>2. \A q \in Requests \ {r} : Key("gone", Version(r)) \notin holds[q]
        BY <1>1, <3>1, FreeFacts
      <3> HIDE DEF K
      <3> QED BY <1>8, <2>2, <3>2, LockKeepsExclusive
    <2> HIDE DEF K, x
    <2> QED BY <1>4, <1>6, <1>8, <2>1, <2>2, <2>3, <2>4
  <1>9. CASE End(r, "error")
    BY <1>2, <1>9, EndKeepsIInv
  <1> QED BY <1>7, <1>8, <1>9 DEF InsertTag

-----------------------------------------------------------------------------
(* Deleting *)

LEMMA ChooseKeepsIInv ==
  ASSUME IInv, NEW r \in Requests,
         NEW step \in {"tags", "tags_again", "version"}, NEW rows,
         NEW next \in DeleteSteps \ {"commit"}, Choose(r, step, rows, next),
         next = "remove" => rows = {<<Version(r), row[r]>>}
  PROVE  IInv'
  <1>1. /\ pc[r] = step /\ Go(r, next) /\ DOMAIN chosen' = Requests /\ chosen'[r] = rows
        /\ \A q \in Requests \ {r} : chosen'[q] = chosen[q]
        /\ UNCHANGED <<tables, sequence, byDate, job, row, copy, seen, passed, place, before,
                       writes, holds>>
    BY DEF Choose, At, IInv, MemoryOK
  <1>2. job[r].op = "delete" /\ DeleteOK(r) /\ RowOK(r) /\ pc[r] \notin Resting
    BY <1>1, IsDeletion DEF DeleteSteps
  <1>3. SameMemory(r)
    BY <1>1, <1>2 DEF SameMemory, Resting, IInv, MemoryOK
  <1>4. next \in DeleteSteps /\ next \notin Outcomes
    BY DEF DeleteSteps, Outcomes
  <1>5. pc'[r] = next /\ \A q \in Requests : Done(q) => Done(q)'
    BY <1>1, <1>2, GoFacts DEF Done, Resting, Outcomes
  <1>6. RequestOK(r)'
    <2>1. UNCHANGED <<version, order, tagOrder>> /\ NoOrders' = NoOrders
      BY <1>1 DEF tables, NoOrders
    <2>2. RowOK(r)'
      BY <1>1, <1>2, <1>5 DEF RowOK
    <2>3. Version(r)' = Version(r) /\ \A v : Exists(v)' <=> Exists(v)
      BY <1>1, <2>1 DEF Version, Exists
    <2>4. DeleteOK(r)'
      BY <1>1, <1>2, <1>4, <1>5, <2>1, <2>3 DEF DeleteOK
    <2> QED BY <1>1, <1>2, <2>2, <2>4 DEF RequestOK
  <1>7. Exclusive'
    BY <1>1, SameLocksKeepExclusive
  <1> QED BY <1>1, <1>3, <1>4, <1>6, <1>7, OrdinaryStep

\* A deletion locks what it is about to delete: tags, or a version whose tags it deletes.
LEMMA DeletionLocksKeepIInv ==
  ASSUME IInv, NEW r \in Requests, pc[r] \in DeleteSteps \ {"commit"},
         NEW K, Lock(r, K), NEW next \in DeleteSteps \ {"remove"}, Go(r, next),
         UNCHANGED <<tables, sequence, memory, writes>>,
         \A k \in K : k[1] \in {"tag", "gone", "left"},
         \A v \in Versions : Key("gone", v) \in K =>
            /\ Exists(v)
            /\ \A x \in Taggings : x[1] = v /\ tagOrder[x] # NoRow => Key("tag", x) \in holds[r]
            /\ \A q \in Requests \ {r} :
                 /\ Key("gone", v) \notin holds[q] /\ Key("refer", v) \notin holds[q]
                 /\ Key("update", v) \notin holds[q] /\ Key("version", v) \notin holds[q]
  PROVE  IInv'
  <1>1. job[r].op = "delete" /\ DeleteOK(r) /\ RowOK(r) /\ pc[r] \notin Resting
    BY IsDeletion
  <1>2. /\ DOMAIN holds' = Requests /\ holds'[r] = holds[r] \cup K
        /\ \A q \in Requests \ {r} : holds'[q] = holds[q]
    BY LockFacts
  <1>3. /\ UNCHANGED <<version, order, tagOrder, sequence, byDate, job, row, copy, chosen, seen,
                       passed, place, before, writes>>
        /\ tables' = tables /\ NoOrders' = NoOrders
    BY DEF tables, memory, found, NoOrders
  <1>4. SameMemory(r)
    BY <1>1, <1>2, <1>3 DEF SameMemory, Resting, IInv, MemoryOK
  <1>5. next \in DeleteSteps /\ next \notin Outcomes
    BY DEF DeleteSteps, Outcomes
  <1>6. pc'[r] = next /\ \A q \in Requests : Done(q) => Done(q)'
    BY <1>1, GoFacts DEF Done, Resting, Outcomes
  <1>7. RequestOK(r)'
    <2>1. RowOK(r)'
      BY <1>1, <1>3, <1>6 DEF RowOK
    <2>2. Version(r)' = Version(r) /\ \A v : Exists(v)' <=> Exists(v)
      BY <1>3 DEF Version, Exists
    <2>3. \A k \in holds'[r] : k[1] \in {"tag", "gone", "left"}
      BY <1>1, <1>2 DEF DeleteOK
    <2>4. ASSUME NEW v \in Versions, Key("gone", v) \in holds'[r]
          PROVE  /\ Exists(v)
                 /\ \A x \in Taggings :
                      x[1] = v /\ tagOrder[x] # NoRow => Key("tag", x) \in holds'[r]
      BY <1>1, <1>2, <2>4 DEF DeleteOK
    <2>5. DeleteOK(r)'
      BY <1>1, <1>3, <1>5, <1>6, <2>2, <2>3, <2>4 DEF DeleteOK
    <2> QED BY <1>1, <1>3, <2>1, <2>5 DEF RequestOK
  <1>8. Exclusive'
    <2>1. \A v \in Versions : Key("version", v) \notin K /\ Key("refer", v) \notin K /\ Key("update", v) \notin K
      BY DEF Key
    <2> QED BY <2>1, LockKeepsExclusive
  <1> QED BY <1>4, <1>5, <1>7, <1>8, OrdinaryStep

LEMMA DeleteTagsKeepsIInv ==
  ASSUME IInv, NEW r \in Requests, DeleteTags(r) \/ DeleteTagsAgain(r) \/ ChooseVersion(r)
  PROVE  IInv'
  <1>1. CASE \/ Choose(r, "tags", TaggingsOf(r), "untag")
             \/ Choose(r, "tags_again", TaggingsOf(r), "untag_again")
             \/ Choose(r, "version", {<<Version(r), row[r]>>}, "remove")
    BY <1>1, ChooseKeepsIInv DEF DeleteSteps
  <1>2. ASSUME NEW step \in {"untag", "untag_again"}, NEW next \in {"tags_again", "version"},
               DeleteChosenTags(r, step, next)
        PROVE  IInv'
    <2> DEFINE K == Keys("tag", ChosenTaggings(r))
    <2>1. /\ \A k \in K : k[1] \in {"tag", "gone", "left"}
          /\ \A v \in Versions : Key("gone", v) \notin K
      BY DEF Keys, Key
    <2>2. /\ pc[r] \in DeleteSteps \ {"commit"} /\ next \in DeleteSteps \ {"remove"}
          /\ Lock(r, K) /\ Go(r, next) /\ UNCHANGED <<tables, sequence, memory, writes>>
      BY <1>2 DEF DeleteChosenTags, At, DeleteSteps
    <2> HIDE DEF K
    <2> QED BY <2>1, <2>2, DeletionLocksKeepIInv
  <1> QED BY <1>1, <1>2 DEF DeleteTags, DeleteTagsAgain, ChooseVersion

LEMMA DeleteVersionKeepsIInv ==
  ASSUME IInv, NEW r \in Requests, DeleteVersion(r)
  PROVE  IInv'
  <1>1. pc[r] = "remove" /\ Waits(r) = {}
    BY DEF DeleteVersion, At
  <1>2. DeleteOK(r) /\ pc[r] \notin Resting /\ Version(r) \in Versions
    BY <1>1, IsDeletion, JobFacts DEF DeleteSteps, IInv
  <1>3. CASE End(r, "error")
    BY <1>2, <1>3, EndKeepsIInv
  <1>4. CASE /\ TaggingsOf(r) = {}
             /\ Lock(r, Keys("gone", ChosenVersions(r))
                          \cup UNION {LeftPlace(v) : v \in ChosenVersions(r)})
             /\ Go(r, "commit") /\ UNCHANGED <<tables, sequence, memory, writes>>
    <2>1. PICK vs : vs = ChosenVersions(r)
      OBVIOUS
    <2>2. \A v \in vs : v \in Versions /\ Exists(v) /\ v = Version(r) /\ row[r] = version[v]
      BY <1>1, <1>2, <2>1 DEF ChosenVersions, VersionRow, DeleteOK
    <2>3. \A kind \in {"version", "refer", "update", "gone"}, v \in vs : Key(kind, v) \in Needs(r)
      BY <1>1, <2>1 DEF Needs
    <2>4. \A v \in vs, q \in Requests \ {r} :
            /\ Key("gone", v) \notin holds[q] /\ Key("refer", v) \notin holds[q]
            /\ Key("update", v) \notin holds[q] /\ Key("version", v) \notin holds[q]
      BY <1>1, <2>3, FreeFacts
    <2>5. \A v \in vs, x \in Taggings :
            x[1] = v /\ tagOrder[x] # NoRow => Key("tag", x) \in holds[r]
      BY <1>4, <2>2 DEF TaggingsOf, Wrote
    <2> DEFINE K == Keys("gone", vs) \cup UNION {LeftPlace(v) : v \in vs}
    <2>6. /\ \A k \in K : k[1] \in {"tag", "gone", "left"}
          /\ \A v \in Versions : Key("gone", v) \in K => v \in vs
      BY DEF Keys, Key, LeftPlace
    <2>7. Lock(r, K) /\ pc[r] \in DeleteSteps \ {"commit"} /\ "commit" \in DeleteSteps \ {"remove"}
      BY <1>1, <1>4, <2>1 DEF DeleteSteps
    <2> HIDE DEF K
    <2>8. \A v \in Versions : Key("gone", v) \in K =>
            /\ Exists(v)
            /\ \A x \in Taggings : x[1] = v /\ tagOrder[x] # NoRow => Key("tag", x) \in holds[r]
            /\ \A q \in Requests \ {r} :
                 /\ Key("gone", v) \notin holds[q] /\ Key("refer", v) \notin holds[q]
                 /\ Key("update", v) \notin holds[q] /\ Key("version", v) \notin holds[q]
      BY <2>2, <2>4, <2>5, <2>6
    <2> QED BY <1>4, <2>6, <2>7, <2>8, DeletionLocksKeepIInv
  <1> QED BY <1>3, <1>4 DEF DeleteVersion

-----------------------------------------------------------------------------
(* The end of a transaction *)

\* What the commit of r does to the row of v: it deletes, creates, moves it or leaves it.
Deleted(r, v) == job[r].op = "delete" /\ Key("gone", v) \in holds[r]
                 /\ Exists(v) /\ version'[v] = NoRow /\ order'[v] = NoRow
Created(r, v) ==
    /\ row[r] = r /\ v = Version(r) /\ Key("version", v) \in holds[r] /\ ~Exists(v)
    /\ version'[v] = r /\ order'[v] = copy[r] /\ copy[r] # NoRow /\ copy[r] = place[r]
Moved(r, v) == ~byDate /\ Exists(v) /\ version'[v] = version[v] /\ order'[v] # NoRow
Kept(v) == version'[v] = version[v] /\ order'[v] = order[v]

\* And to the row of the tagging x.
TagDeleted(r, x) == tagOrder'[x] = NoRow
TagCreated(r, x) ==
    /\ job[r].op = "tag" /\ x = Tagging(r) /\ x[1] = Version(r) /\ Tagged(r) /\ (row[r] = r => Creating(r))
    /\ tagOrder'[x] = copy[r]
TagKept(r, x) == tagOrder'[x] = tagOrder[x] /\ Key("tag", x) \notin holds[r]

LEMMA CommitFacts ==
  ASSUME IInv, NEW r \in Requests, Commit(r)
  PROVE  /\ pc[r] = "commit" /\ Go(r, "done") /\ pc'[r] = "done" /\ ~Done(r)
         /\ \A q \in Requests \ {r} : pc'[q] = pc[q] /\ holds'[q] = holds[q]
         /\ DOMAIN holds' = Requests /\ holds'[r] = {}
         /\ UNCHANGED <<sequence, byDate, job, row, copy, chosen, seen, passed, place, before, writes>>
         /\ \A q \in Requests : Done(q) => q # r /\ Done(q)'
         /\ \A q \in Requests : pc[q] \in Outcomes => pc'[q] \in Outcomes
  <1>1. /\ pc[r] = "commit" /\ Go(r, "done") /\ holds' = [holds EXCEPT ![r] = {}]
        /\ UNCHANGED <<sequence, memory, writes>>
    BY DEF Commit, At
  <1>2. pc'[r] = "done" /\ \A q \in Requests \ {r} : pc'[q] = pc[q]
    BY <1>1, GoFacts
  <1> QED BY <1>1, <1>2 DEF memory, found, IInv, MemoryOK, Done, Outcomes

LEMMA CommittedVersion ==
  ASSUME IInv, NEW r \in Requests, Commit(r), NEW v \in Versions
  PROVE  /\ Deleted(r, v) \/ Created(r, v) \/ Moved(r, v) \/ Kept(v)
         /\ row[r] = r /\ v = Version(r) => Created(r, v)
         /\ version'[v] # NoRow => Key("gone", v) \notin holds[r]
         /\ version'[v] \in Ids /\ order'[v] \in OrdersAndNone
  <1>1. /\ version'[v] = IF Key("gone", v) \in holds[r] THEN NoRow
                         ELSE IF row[r] = r /\ v = Version(r) THEN r ELSE version[v]
        /\ order'[v] = IF Key("gone", v) \in holds[r] THEN NoRow
                       ELSE IF writes[r][v] # NoRow THEN writes[r][v] ELSE order[v]
    BY DEF Commit, Wrote
  <1>2. /\ version[v] \in Ids /\ order[v] \in OrdersAndNone /\ writes[r][v] \in OrdersAndNone
        /\ pc[r] = "commit" /\ pc[r] \notin Resting /\ RequestOK(r) /\ NoRow \in OrdersAndNone
    BY CommitFacts, NoRowIsNoOrder DEF IInv, MemoryOK, Resting, Outcomes
  <1>3. /\ version'[v] # NoRow => Key("gone", v) \notin holds[r]
        /\ version'[v] \in Ids /\ order'[v] \in OrdersAndNone
    BY <1>1, <1>2 DEF Ids
  <1>4. CASE job[r].op = "delete"
    <2>1. /\ row[r] # r /\ writes[r][v] = NoRow
          /\ Key("gone", v) \in holds[r] => Exists(v)
      BY <1>2, <1>4 DEF RequestOK, DeleteOK, NoOrders
    <2> QED BY <1>1, <1>3, <1>4, <2>1 DEF Deleted, Kept
  <1>5. CASE job[r].op # "delete"
    <2>1. WriteOK(r)
      BY <1>2, <1>5 DEF RequestOK
    <2>2. Key("gone", v) \notin holds[r]
      <3>1. Key("gone", v)[1] = "gone"
        BY DEF Key
      <3> QED BY <2>1, <3>1 DEF WriteOK
    <2>3. CASE row[r] # r
      <3>1. writes[r][v] = NoRow
        BY <2>1, <2>3 DEF WriteOK, NoOrders
      <3> QED BY <1>1, <1>3, <2>2, <2>3, <3>1 DEF Kept
    <2>4. CASE row[r] = r /\ v = Version(r)
      <3>1. /\ Key("version", v) \in holds[r] /\ ~Exists(v)
            /\ copy[r] = writes[r][v] /\ copy[r] # NoRow /\ copy[r] = place[r]
        BY <1>2, <2>1, <2>4 DEF WriteOK, Creating
      <3> QED BY <1>1, <1>3, <2>2, <2>4, <3>1 DEF Created
    <2>5. CASE row[r] = r /\ v # Version(r)
      <3>1. version'[v] = version[v]
        BY <1>1, <2>2, <2>5
      <3>2. writes[r][v] # NoRow => ~byDate /\ Exists(v)
        BY <1>2, <2>1, <2>5 DEF WriteOK
      <3>3. CASE writes[r][v] # NoRow
        <4>1. Moved(r, v)
          BY <1>1, <2>2, <3>1, <3>2, <3>3 DEF Moved
        <4> QED BY <1>3, <2>5, <4>1
      <3>4. CASE writes[r][v] = NoRow
        <4>1. Kept(v)
          BY <1>1, <2>2, <3>1, <3>4 DEF Kept
        <4> QED BY <1>3, <2>5, <4>1
      <3> QED BY <3>3, <3>4
    <2> QED BY <2>3, <2>4, <2>5
  <1> QED BY <1>4, <1>5

LEMMA CommittedTagging ==
  ASSUME IInv, NEW r \in Requests, Commit(r), NEW x \in Taggings
  PROVE  /\ TagDeleted(r, x) \/ TagCreated(r, x) \/ TagKept(r, x)
         /\ tagOrder'[x] \in OrdersAndNone
  <1>1. tagOrder'[x] = IF Key("tag", x) \notin holds[r] THEN tagOrder[x]
                       ELSE IF job[r].op = "tag" THEN copy[r] ELSE NoRow
    BY DEF Commit, Wrote
  <1>2. /\ tagOrder[x] \in OrdersAndNone /\ copy[r] \in OrdersAndNone
        /\ pc[r] \notin Resting /\ RequestOK(r) /\ NoRow \in OrdersAndNone
    BY CommitFacts, NoRowIsNoOrder DEF IInv, MemoryOK, Resting, Outcomes
  <1>3. ASSUME Key("tag", x) \in holds[r], job[r].op = "tag"
        PROVE  TagCreated(r, x)
    <2>1. WriteOK(r)
      BY <1>2, <1>3 DEF RequestOK
    <2>2. x = Tagging(r) /\ Tagged(r) /\ (row[r] = r => Creating(r))
      BY <1>2, <1>3, <2>1 DEF WriteOK
    <2> QED BY <1>1, <1>3, <2>2, JobFacts DEF TagCreated, IInv
  <1> QED BY <1>1, <1>2, <1>3 DEF TagDeleted, TagKept

\* A version that another request creates, moves, tags or deletes stays as it is for it.
LEMMA CommitLeavesOthers ==
  ASSUME IInv, NEW r \in Requests, Commit(r), NEW q \in Requests \ {r}, NEW v \in Versions
  PROVE  /\ Key("version", v) \in holds[q] /\ ~Exists(v) => version'[v] = NoRow
         /\ (\/ Key("refer", v) \in holds[q] \/ Key("update", v) \in holds[q]
             \/ Key("gone", v) \in holds[q]) /\ Exists(v) =>
               version'[v] = version[v] /\ (byDate => order'[v] = order[v])
  <1>1. Deleted(r, v) \/ Created(r, v) \/ Moved(r, v) \/ Kept(v)
    BY CommittedVersion
  <1>2. /\ Key("version", v) \in holds[q] => Key("version", v) \notin holds[r]
        /\ (\/ Key("refer", v) \in holds[q] \/ Key("update", v) \in holds[q]
            \/ Key("gone", v) \in holds[q]) => Key("gone", v) \notin holds[r]
    BY DEF IInv, Exclusive
  <1> QED BY <1>1, <1>2 DEF Deleted, Created, Moved, Kept, Exists

LEMMA CommitKeepsOthers ==
  ASSUME IInv, NEW r \in Requests, Commit(r), NEW q \in Requests \ {r}
  PROVE  RequestOK(q)'
  <1>1. /\ UNCHANGED <<byDate, job>> /\ pc'[q] = pc[q] /\ holds'[q] = holds[q]
        /\ row'[q] = row[q] /\ copy'[q] = copy[q] /\ writes'[q] = writes[q]
        /\ chosen'[q] = chosen[q] /\ place'[q] = place[q] /\ passed'[q] = passed[q]
        /\ NoOrders' = NoOrders
    BY CommitFacts DEF NoOrders
  <1>2. RequestOK(q) /\ Version(q) \in Versions /\ row[q] \in Ids
    BY JobFacts DEF IInv, MemoryOK
  <1>3. RowOK(q)'
    BY <1>1, <1>2, CommitFacts DEF RequestOK, RowOK
  <1>4. Version(q)' = Version(q) /\ Tagging(q)' = Tagging(q)
    BY <1>1 DEF Version, Tagging
  <1>5. ASSUME WriteOK(q) PROVE WriteOK(q)'
    <2>1. Creating(q) => Creating(q)'
      BY <1>1, <1>2, <1>4, CommitLeavesOthers DEF Creating, Exists
    <2>2. Tagged(q) => Tagged(q)'
      BY <1>1, <1>2, <1>4, CommitLeavesOthers DEF Tagged, Exists
    <2>3. ASSUME NEW w \in Versions, Key("update", w) \in holds[q], Exists(w)
          PROVE  Exists(w)'
      BY <2>3, CommitLeavesOthers DEF Exists
    <2>4. ASSUME pc[q] = "tag", byDate, row[q] = version'[Version(q)]
          PROVE  copy[q] = order'[Version(q)]
      <3>1. row[q] # NoRow /\ (row[q] = version[Version(q)] => copy[q] = order[Version(q)])
        BY <1>5, <2>4 DEF WriteOK
      <3>2. row[q] # r
        BY <1>2, CommitFacts DEF RequestOK, RowOK
      <3>3. \/ Deleted(r, Version(q)) \/ Created(r, Version(q))
            \/ Moved(r, Version(q)) \/ Kept(Version(q))
        BY <1>2, CommittedVersion
      <3> QED BY <2>4, <3>1, <3>2, <3>3 DEF Deleted, Created, Moved, Kept
    <2>5. ASSUME pc[q] = "place", NEW w \in passed[q]
          PROVE  ~byDate /\ Exists(w)' /\ Key("update", w) \in holds[q]
      <3>1. w \in Versions /\ ~byDate /\ Exists(w) /\ Key("update", w) \in holds[q]
        BY <1>5, <2>5 DEF WriteOK, IInv, MemoryOK
      <3> QED BY <2>3, <3>1
    <2> QED BY <1>1, <1>4, <1>5, <2>1, <2>2, <2>3, <2>4, <2>5 DEF WriteOK
  <1>6. ASSUME DeleteOK(q) PROVE DeleteOK(q)'
    <2>1. ASSUME NEW v \in Versions, Key("gone", v) \in holds[q]
          PROVE  /\ Exists(v)'
                 /\ \A x \in Taggings : x[1] = v /\ tagOrder'[x] # NoRow => Key("tag", x) \in holds[q]
      <3>1. /\ Exists(v)
            /\ \A x \in Taggings : x[1] = v /\ tagOrder[x] # NoRow => Key("tag", x) \in holds[q]
        BY <1>6, <2>1 DEF DeleteOK
      <3>2. Key("refer", v) \notin holds[r]
        BY <2>1 DEF IInv, Exclusive
      <3>3. ASSUME NEW x \in Taggings, x[1] = v PROVE ~TagCreated(r, x)
        BY <3>1, <3>2, <3>3 DEF TagCreated, Tagged, Creating
      <3>4. Exists(v)'
        BY <2>1, <3>1, CommitLeavesOthers DEF Exists
      <3> QED BY <3>1, <3>3, <3>4, CommittedTagging DEF TagDeleted, TagKept
    <2> QED BY <1>1, <1>4, <1>6, <2>1 DEF DeleteOK
  <1> QED BY <1>1, <1>2, <1>3, <1>5, <1>6 DEF RequestOK

LEMMA CommitKeepsIInv ==
  ASSUME IInv, NEW r \in Requests, Commit(r)
  PROVE  IInv'
  <1>1. MemoryOK'
    <2>1. /\ DOMAIN version' = Versions /\ DOMAIN order' = Versions /\ DOMAIN tagOrder' = Taggings
          /\ version' = [v \in Versions |-> version'[v]]
          /\ order' = [v \in Versions |-> order'[v]]
          /\ tagOrder' = [x \in Taggings |-> tagOrder'[x]]
      BY DEF Commit
    <2>2. /\ \A v \in Versions : version'[v] \in Ids /\ order'[v] \in OrdersAndNone
          /\ \A x \in Taggings : tagOrder'[x] \in OrdersAndNone
      BY CommittedVersion, CommittedTagging
    <2>3. /\ version' \in [Versions -> Ids] /\ order' \in [Versions -> OrdersAndNone]
          /\ tagOrder' \in [Taggings -> OrdersAndNone]
      BY <2>1, <2>2
    <2>4. pc' \in [Requests -> WriteSteps \cup DeleteSteps \cup Resting]
      BY CommitFacts, GoFacts DEF Outcomes
    <2>5. \A q \in Requests : pc'[q] \in Resting => holds'[q] = {}
      BY CommitFacts DEF IInv, MemoryOK
    <2> QED BY <2>3, <2>4, <2>5, CommitFacts DEF IInv, MemoryOK
  <1>2. RequestOK(r)'
    <2>1. /\ pc'[r] = "done" /\ holds'[r] = {}
          /\ UNCHANGED <<byDate, job, row, copy, chosen, passed, place, writes>>
          /\ pc[r] = "commit" /\ \A q \in Requests : Done(q) => Done(q)'
          /\ NoOrders' = NoOrders /\ RequestOK(r)
      BY CommitFacts DEF NoOrders, IInv
    <2>2. RowOK(r)'
      BY <2>1 DEF RequestOK, RowOK
    <2>3. ASSUME WriteOK(r) PROVE WriteOK(r)'
      BY <2>1, <2>3 DEF WriteOK, Resting, Outcomes
    <2>4. ASSUME DeleteOK(r) PROVE DeleteOK(r)'
      BY <2>1, <2>4 DEF DeleteOK, Resting, Outcomes
    <2> QED BY <2>1, <2>2, <2>3, <2>4 DEF RequestOK
  <1>3. Exclusive'
    BY CommitFacts DEF IInv, Exclusive, Key
  <1>4. VersionsOK'
    <2> SUFFICES ASSUME NEW v \in Versions
                 PROVE  /\ order'[v] = NoRow <=> version'[v] = NoRow
                        /\ version'[v] # NoRow =>
                             /\ pc'[version'[v]] = "done" /\ row[version'[v]] = version'[v]
                             /\ job[version'[v]].version = v
                             /\ byDate => order'[v] = place[version'[v]]
      BY CommitFacts DEF VersionsOK, Exists, Version, Done
    <2>1. /\ order[v] = NoRow <=> version[v] = NoRow
          /\ version[v] # NoRow =>
               /\ Done(version[v]) /\ row[version[v]] = version[v]
               /\ job[version[v]].version = v /\ (byDate => order[v] = place[version[v]])
      BY DEF IInv, VersionsOK, Exists, Version
    <2>2. version[v] # NoRow => pc'[version[v]] = "done"
      BY <2>1, CommitFacts DEF IInv, MemoryOK, Ids, Done
    <2>3. pc'[r] = "done" /\ r # NoRow
      BY CommitFacts, NoRowIsNoOrder
    <2>4. Deleted(r, v) \/ Created(r, v) \/ Moved(r, v) \/ Kept(v)
      BY CommittedVersion
    <2> QED BY <2>1, <2>2, <2>3, <2>4 DEF Deleted, Created, Moved, Kept, Exists, Version
  <1>5. CopiesAgree'
    <2> SUFFICES ASSUME NEW x \in Taggings, tagOrder'[x] # NoRow
                 PROVE  version'[x[1]] # NoRow /\ (byDate => tagOrder'[x] = order'[x[1]])
      BY CommitFacts DEF CopiesAgree, Exists
    <2>1. x[1] \in Versions
      BY DEF Taggings
    <2>2. Deleted(r, x[1]) \/ Created(r, x[1]) \/ Moved(r, x[1]) \/ Kept(x[1])
      BY <2>1, CommittedVersion
    <2>3. CASE TagKept(r, x)
      <3>1. tagOrder[x] # NoRow /\ Exists(x[1]) /\ (byDate => tagOrder[x] = order[x[1]])
        BY <2>3 DEF TagKept, IInv, CopiesAgree
      <3>2. ~Deleted(r, x[1])
        <4>1. SUFFICES ASSUME Key("gone", x[1]) \in holds[r] PROVE FALSE
          BY DEF Deleted
        <4>2. Key("gone", x[1])[1] = "gone"
          BY DEF Key
        <4>3. ~WriteOK(r)
          BY <4>1, <4>2 DEF WriteOK
        <4>4. DeleteOK(r)
          BY <4>3 DEF IInv, RequestOK
        <4> QED BY <2>1, <2>3, <3>1, <4>1, <4>4 DEF DeleteOK, TagKept
      <3> QED BY <2>2, <2>3, <3>1, <3>2 DEF TagKept, Created, Moved, Kept, Exists
    <2>4. CASE TagCreated(r, x)
      <3>1. CASE row[r] = r
        <4>1. Created(r, x[1])
          BY <2>1, <2>4, <3>1, CommittedVersion DEF TagCreated
        <4> QED BY <2>4, <4>1, NoRowIsNoOrder DEF Created, TagCreated
      <3>2. CASE row[r] # r
        <4>1. /\ Exists(x[1]) /\ Key("refer", x[1]) \in holds[r]
              /\ byDate => copy[r] = order[x[1]]
          BY <2>4, <3>2 DEF TagCreated, Tagged
        <4>2. ~Deleted(r, x[1])
          BY <2>4 DEF TagCreated, Deleted
        <4> QED BY <2>2, <2>4, <3>2, <4>1, <4>2 DEF TagCreated, Created, Moved, Kept, Exists
      <3> QED BY <3>1, <3>2
    <2> QED BY <2>3, <2>4, CommittedTagging DEF TagDeleted
  <1>6. SequenceOK' /\ BeforeEnded'
    <2>1. UNCHANGED <<sequence, byDate, row, copy, place, before>>
          /\ \A q \in Requests : pc[q] \in Outcomes => pc'[q] \in Outcomes
      BY CommitFacts
    <2>2. \A q : Placed(q)' <=> Placed(q)
      BY <2>1 DEF Placed
    <2> QED BY <2>1, <2>2 DEF IInv, SequenceOK, BeforeEnded
  <1> QED BY <1>1, <1>2, <1>3, <1>4, <1>5, <1>6, CommitKeepsOthers DEF IInv

-----------------------------------------------------------------------------
(* Every step *)

LEMMA IInvNext == IInv /\ [Next]_vars => IInv'
  <1> SUFFICES ASSUME IInv, [Next]_vars PROVE IInv'
    OBVIOUS
  <1>1. ASSUME NEW r \in Requests, DeadlockVictim(r) PROVE IInv'
    <2>1. Needs(r) # {} /\ End(r, "error")
      BY <1>1 DEF DeadlockVictim, Waits
    <2>2. pc[r] \notin Resting
      <3>1. pc[r] \in Resting => Needs(r) = {}
        BY DEF Needs, Resting, Outcomes
      <3> QED BY <2>1, <3>1
    <2> QED BY <2>1, <2>2, EndKeepsIInv
  <1>2. CASE UNCHANGED vars
    <2>1. UNCHANGED <<version, order, tagOrder, byDate, sequence, pc, job, row, copy, chosen, seen,
                      passed, place, writes, holds, before>>
      BY <1>2 DEF vars, tables, memory, found
    <2>2. ASSUME NEW r \in Requests PROVE RequestOK(r)'
      <3>1. RequestOK(r) /\ NoOrders' = NoOrders
        BY DEF IInv, NoOrders
      <3>2. Version(r)' = Version(r) /\ Tagging(r)' = Tagging(r) /\ \A v : Exists(v)' <=> Exists(v)
        BY <2>1 DEF Version, Tagging, Exists
      <3>3. (Creating(r)' <=> Creating(r)) /\ (Tagged(r)' <=> Tagged(r))
        BY <2>1, <3>2 DEF Creating, Tagged
      <3>4. RowOK(r)' /\ (WriteOK(r) => WriteOK(r)')
        BY <2>1, <3>1, <3>2, <3>3 DEF RequestOK, RowOK, Done, WriteOK
      <3>5. DeleteOK(r) => DeleteOK(r)'
        BY <2>1, <3>1, <3>2 DEF DeleteOK
      <3> QED BY <2>1, <3>1, <3>4, <3>5 DEF RequestOK
    <2>3. MemoryOK' /\ Exclusive' /\ VersionsOK'
      BY <2>1 DEF IInv, MemoryOK, Exclusive, VersionsOK, Exists, Done, Version, Key
    <2>4. CopiesAgree' /\ SequenceOK' /\ BeforeEnded'
      BY <2>1 DEF IInv, CopiesAgree, Exists, SequenceOK, Placed, BeforeEnded
    <2> QED BY <2>2, <2>3, <2>4 DEF IInv
  <1>3. CASE Next
    BY <1>1, <1>3, BeginKeepsIInv, FindVersionKeepsIInv, UpsertVersionKeepsIInv,
       SequentialOrderKeepsIInv, SelectForUpdateKeepsIInv, SemanticOrderKeepsIInv,
       SetOrderKeepsIInv, InsertTagKeepsIInv, DeleteTagsKeepsIInv, DeleteVersionKeepsIInv, CommitKeepsIInv DEF Next
  <1> QED BY <1>2, <1>3

LEMMA IInvHolds == Spec => []IInv
  BY IInvInit, IInvNext, PTL DEF Spec


-----------------------------------------------------------------------------
(* The order by number *)

\* A request that finds, moves or has moved the places around its new version.
Placing(r) == row[r] = r /\ pc[r] \in {"place", "tag", "commit"}
Sorting(r) == row[r] = r /\ pc[r] \in {"sort", "place", "tag", "commit"}

\* Each place that r has set is reserved for it; only what it has moved had it.
Reserved(r) ==
    \A v \in Versions : writes[r][v] # NoRow =>
        /\ Key("place", writes[r][v]) \in holds[r]
        /\ \A w \in Versions : Exists(w) /\ order[w] = writes[r][v] => writes[r][w] # NoRow

\* r has locked the rows it has chosen, and moves no others.
Locked(r) ==
    /\ \A v \in ChosenVersions(r) : Key("update", v) \in holds[r]
    /\ \A w \in Versions : writes[r][w] # NoRow => w \in ChosenVersions(r) \cup {Version(r)}
    /\ passed[r] \subseteq ChosenVersions(r)
    /\ pc[r] # "place" => passed[r] = {}

\* No version has been deleted since r began.
Quiet(r) == ~DeletedMeanwhile /\ \A d \in Requests : Ended(d, "delete") => d \in before[r]

\* What r has not seen stands next to something or comes first.
Compact(r) ==
    \A h \in Versions : Exists(h) /\ h \notin ChosenVersions(r) =>
        \/ order[h] = 0
        \/ \E w \in Versions : Exists(w) /\ order[h] = order[w] + 1

SeenSorted(r) == \A v, w \in ChosenVersions(r) : v < w => seen[r][v] < seen[r][w]

\* r moves what comes after its version, by one place.
Divided(r) ==
    \A v \in ChosenVersions(r) :
        /\ v > Version(r) <=> v \in passed[r] \/ writes[r][v] # NoRow
        /\ writes[r][v] # NoRow => writes[r][v] = order[v] + 1

\* Its place is the first, or next to the last version before its own.
NextTo(r, a) ==
    /\ a < Version(r) /\ place[r] = order[a] + 1
    /\ \A v \in ChosenVersions(r) : v < Version(r) => v <= a
WellPlaced(r) ==
    \/ place[r] = 0 /\ \A v \in ChosenVersions(r) : v > Version(r)
    \/ \E a \in ChosenVersions(r) : NextTo(r, a)

SortingOK(r) ==
    /\ \A v \in Versions, p \in Requests : <<v, p>> \in chosen[r] => Done(p)
    /\ pc[r] # "sort" => Reserved(r) /\ Locked(r)
    /\ Quiet(r) =>
         /\ Compact(r)
         /\ pc[r] = "sort" => SeenSorted(r)
         /\ pc[r] # "sort" => Divided(r) /\ WellPlaced(r)

\* No two requests move to the same place, or move the same version.
OneEach ==
    \A r, q \in Requests : \A k \in holds[r] :
        r # q /\ k[1] \in {"place", "update"} => k \notin holds[q]

NumbersOK ==
    ~byDate =>
        /\ OneEach
        /\ \A r \in Requests : Sorting(r) => SortingOK(r)
        /\ OrderedByNumber

\* What holds of a request that has begun to place its new version.
LEMMA SortingFacts ==
  ASSUME IInv, NEW r \in Requests, Sorting(r)
  PROVE  /\ WriteOK(r) /\ Creating(r) /\ pc[r] \notin Resting /\ ~Done(r)
         /\ Version(r) \in Versions /\ Version(r) \in Nat /\ ~Exists(Version(r))
         /\ \A v \in ChosenVersions(r) :
              /\ v \in Versions /\ v \in Nat /\ v # Version(r)
              /\ Exists(v) /\ order[v] \in Nat /\ VersionRow(v) \in chosen[r]
  <1>1. pc[r] \in WriteSteps \cup DeleteSteps /\ pc[r] \notin Resting /\ ~Done(r) /\ row[r] = r
    BY DEF Sorting, WriteSteps, Resting, Outcomes, Done
  <1>2. job[r].op # "delete"
    BY <1>1 DEF IInv, RequestOK, DeleteOK
  <1>3. WriteOK(r) /\ Creating(r) /\ Version(r) \in Versions /\ Version(r) \in Nat
    BY <1>1, <1>2, JobFacts DEF IInv, RequestOK, WriteOK
  <1>4. ASSUME NEW v \in ChosenVersions(r)
        PROVE  /\ v \in Versions /\ v \in Nat /\ Exists(v) /\ VersionRow(v) \in chosen[r]
               /\ order[v] \in Nat
    BY VersionOrderAssumption DEF ChosenVersions, IInv, VersionsOK, MemoryOK, OrdersAndNone
  <1> QED BY <1>1, <1>3, <1>4 DEF Creating

LEMMA ExistingFacts ==
  ASSUME IInv, NEW v \in Versions, Exists(v)
  PROVE  v \in Nat /\ order[v] \in Nat
  BY VersionOrderAssumption DEF IInv, VersionsOK, MemoryOK, OrdersAndNone

\* A step of r that changes no table: it ends no deletion and no creation.
Calm(r) ==
    /\ UNCHANGED <<version, order, byDate, job>> /\ pc[r] \notin Outcomes
    /\ pc'[r] = "done" => job[r].op # "delete" /\ row'[r] # r
    /\ \A q \in Requests \ {r} :
         /\ pc'[q] = pc[q] /\ row'[q] = row[q] /\ writes'[q] = writes[q] /\ chosen'[q] = chosen[q]
         /\ seen'[q] = seen[q] /\ passed'[q] = passed[q] /\ place'[q] = place[q]
         /\ before'[q] = before[q] /\ holds'[q] = holds[q]

LEMMA CalmFacts ==
  ASSUME IInv, NEW r \in Requests, Calm(r)
  PROVE  /\ DeletedMeanwhile' <=> DeletedMeanwhile
         /\ \A q \in Requests : q # r \/ before'[r] = before[r] => (Quiet(q)' <=> Quiet(q))
         /\ \A q \in Requests : Done(q) => Done(q)'
         /\ \A q \in Requests : Version(q)' = Version(q)
         /\ \A q \in Requests \ {r} : ChosenVersions(q)' = ChosenVersions(q)
         /\ OrderedByNumber' <=> OrderedByNumber
  <1>1. \A d \in Requests : Ended(d, "delete")' <=> Ended(d, "delete")
    BY DEF Calm, Ended, Outcomes
  <1>2. \A q \in Requests : q \in Creators' <=> q \in Creators
    BY DEF Calm, Creators, Outcomes
  <1>3. \A q \in Requests : pc[q] \in Outcomes => before'[q] = before[q]
    BY DEF Calm
  <1>4. \A q \in Requests : Ended(q, "delete") \/ q \in Creators => before'[q] = before[q]
    BY <1>3 DEF Ended, Creators, Outcomes
  <1>5. Creators \subseteq Requests /\ Creators' = Creators
    <2>1. Creators \subseteq Requests /\ Creators' \subseteq Requests
      BY DEF Creators
    <2> QED BY <1>2, <2>1
  <1>6. DeletedMeanwhile' <=> DeletedMeanwhile
    BY <1>1, <1>4, <1>5 DEF DeletedMeanwhile
  <1>7. ASSUME NEW q \in Requests, q # r \/ before'[r] = before[r] PROVE Quiet(q)' <=> Quiet(q)
    <2>1. before'[q] = before[q]
      BY <1>7 DEF Calm
    <2> QED BY <1>1, <1>6, <2>1 DEF Quiet
  <1>8. \A q \in Requests : (Done(q) => Done(q)') /\ Version(q)' = Version(q)
    BY DEF Calm, Done, Version, Outcomes
  <1>9. \A v : (Exists(v)' <=> Exists(v)) /\ VersionRow(v)' = VersionRow(v)
    BY DEF Calm, Exists, VersionRow
  <1>10. \A q \in Requests \ {r} : ChosenVersions(q)' = ChosenVersions(q)
    BY <1>9 DEF Calm, ChosenVersions
  <1>11. OrderedByNumber' <=> OrderedByNumber
    <2>1. byDate' = byDate /\ order' = order
      BY DEF Calm
    <2> QED BY <1>6, <1>9, <2>1 DEF OrderedByNumber
  <1> QED BY <1>6, <1>7, <1>8, <1>10, <1>11

\* What two states need to have in common for SortingOK to be the same in both.
LEMMA SortingStays ==
  ASSUME NEW q \in Requests, SortingOK(q),
         UNCHANGED <<version, order, byDate, job>>,
         \A p \in Requests : Done(p) => Done(p)',
         Quiet(q)' => Quiet(q),
         pc'[q] = pc[q] \/ (pc[q] = "tag" /\ pc'[q] = "commit"),
         writes'[q] = writes[q], chosen'[q] = chosen[q], seen'[q] = seen[q],
         passed'[q] = passed[q], place'[q] = place[q], holds[q] \subseteq holds'[q]
  PROVE  SortingOK(q)'
  <1>1. \A v : (Exists(v)' <=> Exists(v)) /\ VersionRow(v)' = VersionRow(v)
    BY DEF Exists, VersionRow
  <1>2. ChosenVersions(q)' = ChosenVersions(q) /\ Version(q)' = Version(q)
    BY <1>1 DEF ChosenVersions, Version
  <1>3. Compact(q) => Compact(q)'
    BY <1>1, <1>2 DEF Compact
  <1>4. SeenSorted(q) => SeenSorted(q)'
    BY <1>2 DEF SeenSorted
  <1>5. Divided(q) => Divided(q)'
    BY <1>2 DEF Divided
  <1>6. WellPlaced(q) => WellPlaced(q)'
    BY <1>2 DEF WellPlaced, NextTo
  <1>7. Reserved(q) => Reserved(q)'
    BY <1>1 DEF Reserved
  <1>8. Locked(q) => Locked(q)'
    BY <1>2 DEF Locked
  <1> QED BY <1>3, <1>4, <1>5, <1>6, <1>7, <1>8 DEF SortingOK

LEMMA CalmKeepsNumbers ==
  ASSUME IInv, NumbersOK, NEW r \in Requests, Calm(r),
         ~byDate => \A k \in holds'[r] : k[1] \in {"place", "update"} =>
            k \in holds[r] \/ \A q \in Requests \ {r} : k \notin holds[q],
         ~byDate /\ Sorting(r)' => SortingOK(r)'
  PROVE  NumbersOK'
  <1> SUFFICES ASSUME ~byDate
               PROVE  /\ OneEach'
                      /\ \A q \in Requests : Sorting(q)' => SortingOK(q)'
                      /\ OrderedByNumber'
    BY DEF NumbersOK, Calm
  <1>1. OneEach'
    <2>1. \A p, q \in Requests : \A k \in holds[p] :
            p # q /\ k[1] \in {"place", "update"} => k \notin holds[q]
      BY DEF NumbersOK, OneEach
    <2> SUFFICES ASSUME NEW p \in Requests, NEW q \in Requests, NEW k \in holds'[p],
                        p # q, k[1] \in {"place", "update"}
                 PROVE  k \notin holds'[q]
      BY DEF OneEach
    <2>2. CASE p = r
      BY <2>1, <2>2 DEF Calm
    <2>3. CASE q = r
      BY <2>1, <2>3 DEF Calm
    <2>4. CASE p # r /\ q # r
      BY <2>1, <2>4 DEF Calm
    <2> QED BY <2>2, <2>3, <2>4
  <1>2. ASSUME NEW q \in Requests \ {r}, Sorting(q)' PROVE SortingOK(q)'
    <2>1. SortingOK(q)
      BY <1>2 DEF NumbersOK, Sorting, Calm
    <2>2. Quiet(q)' => Quiet(q)
      BY CalmFacts
    <2> QED BY <2>1, <2>2, CalmFacts, SortingStays DEF Calm
  <1>3. OrderedByNumber'
    BY CalmFacts DEF NumbersOK
  <1> QED BY <1>1, <1>2, <1>3

\* A step of a request that is not placing a version then.
LEMMA UnsortedKeepsNumbers ==
  ASSUME IInv, NumbersOK, NEW r \in Requests, Calm(r), ~Sorting(r)',
         \A k \in holds'[r] : k \in holds[r] \/ k[1] \notin {"place", "update"}
  PROVE  NumbersOK'
  BY CalmKeepsNumbers

LEMMA EndKeepsNumbers ==
  ASSUME IInv, NumbersOK, NEW r \in Requests, pc[r] \notin Outcomes,
         NEW outcome \in {"missing", "error"}, End(r, outcome)
  PROVE  NumbersOK'
  <1>1. /\ Go(r, outcome) /\ UNCHANGED <<version, order, memory, writes>>
        /\ holds'[r] = {} /\ \A q \in Requests \ {r} : holds'[q] = holds[q]
    BY DEF End, tables, IInv, MemoryOK
  <1>2. pc'[r] \in {"missing", "error"} /\ \A q \in Requests \ {r} : pc'[q] = pc[q]
    BY <1>1, GoFacts
  <1>3. Calm(r)
    BY <1>1, <1>2 DEF Calm, memory, found
  <1>4. ~Sorting(r)'
    BY <1>2 DEF Sorting
  <1> QED BY <1>1, <1>3, <1>4, UnsortedKeepsNumbers

LEMMA BeginKeepsNumbers ==
  ASSUME IInv, NumbersOK, NEW r \in Requests, Begin(r)
  PROVE  NumbersOK'
  <1>1. /\ pc[r] = "idle" /\ UNCHANGED <<version, order, byDate, job, found, writes, holds>>
        /\ row' = [row EXCEPT ![r] = version[Version(r)]]
        /\ \A q \in Requests \ {r} : before'[q] = before[q]
    BY DEF Begin, tables, IInv, MemoryOK
  <1>2. PICK step \in {"upsert", "done", "find", "tags", "missing"} :
          Go(r, step) /\ (step = "done" => job[r].op = "tag")
    BY Zenon DEF Begin
  <1>3. pc'[r] = step /\ \A q \in Requests \ {r} : pc'[q] = pc[q]
    BY <1>2, GoFacts
  <1>4. row'[r] # r /\ \A q \in Requests \ {r} : row'[q] = row[q]
    <2>1. ~Done(r) /\ Version(r) \in Versions
      BY <1>1, JobFacts DEF Done, IInv
    <2> QED BY <1>1, <2>1, CreatorFacts DEF IInv, MemoryOK
  <1>5. Calm(r)
    BY <1>1, <1>2, <1>3, <1>4 DEF Calm, found, Outcomes
  <1>6. ~Sorting(r)'
    BY <1>4 DEF Sorting
  <1> QED BY <1>1, <1>5, <1>6, UnsortedKeepsNumbers

LEMMA FindVersionKeepsNumbers ==
  ASSUME IInv, NumbersOK, NEW r \in Requests, FindVersion(r)
  PROVE  NumbersOK'
  <1>1. /\ pc[r] = "find" /\ UNCHANGED <<version, order, byDate, job, found, before, writes, holds>>
        /\ row' = [row EXCEPT ![r] = version[Version(r)]]
        /\ Go(r, IF Exists(Version(r)) THEN "tag" ELSE "upsert")
    BY DEF FindVersion, At, tables
  <1>2. pc'[r] \in {"tag", "upsert"} /\ \A q \in Requests \ {r} : pc'[q] = pc[q]
    BY <1>1, GoFacts
  <1>3. row'[r] # r /\ \A q \in Requests \ {r} : row'[q] = row[q]
    <2>1. ~Done(r) /\ Version(r) \in Versions
      BY <1>1, JobFacts DEF Done, IInv
    <2> QED BY <1>1, <2>1, CreatorFacts DEF IInv, MemoryOK
  <1>4. Calm(r)
    BY <1>1, <1>2, <1>3 DEF Calm, found, Outcomes
  <1>5. ~Sorting(r)'
    BY <1>3 DEF Sorting
  <1> QED BY <1>1, <1>4, <1>5, UnsortedKeepsNumbers

LEMMA UpsertVersionKeepsNumbers ==
  ASSUME IInv, NumbersOK, NEW r \in Requests, UpsertVersion(r)
  PROVE  NumbersOK'
  <1> DEFINE v == Version(r)
             K == {Key("version", v)} \cup LeftPlace(v)
             step == IF Exists(v) THEN AfterVersion(r) ELSE "order"
  <1>1. /\ pc[r] = "upsert" /\ UNCHANGED <<version, order, byDate, job, found, before, writes>>
        /\ row' = [row EXCEPT ![r] = IF Exists(v) THEN version[v] ELSE r]
        /\ Go(r, step) /\ Lock(r, K)
    BY DEF UpsertVersion, At, tables
  <1>2. \A k \in K : k[1] \notin {"place", "update"}
    BY DEF Key, Keys, LeftPlace
  <1>3. step \in {"tag", "commit", "order"} /\ (~Exists(v) => step = "order")
    BY DEF AfterVersion
  <1>4. version[v] # r
    <2>1. ~Done(r) /\ v \in Versions
      BY <1>1, JobFacts DEF Done, IInv
    <2> QED BY <2>1, CreatorFacts
  <1> HIDE DEF K, step
  <1>5. pc'[r] = step /\ \A q \in Requests \ {r} : pc'[q] = pc[q]
    BY <1>1, GoFacts
  <1>6. /\ row'[r] = IF Exists(v) THEN version[v] ELSE r
        /\ \A q \in Requests \ {r} : row'[q] = row[q]
        /\ holds'[r] = holds[r] \cup K /\ \A q \in Requests \ {r} : holds'[q] = holds[q]
    BY <1>1, LockFacts DEF IInv, MemoryOK
  <1>7. Calm(r)
    BY <1>1, <1>3, <1>5, <1>6 DEF Calm, found, Outcomes
  <1>8. ~Sorting(r)'
    BY <1>3, <1>4, <1>5, <1>6 DEF Sorting
  <1> QED BY <1>2, <1>6, <1>7, <1>8, UnsortedKeepsNumbers

\* The steps of a deletion: it chooses rows and locks them.
LEMMA DeletionKeepsNumbers ==
  ASSUME IInv, NumbersOK, NEW r \in Requests, pc[r] \in DeleteSteps \ {"commit"},
         NEW step \in DeleteSteps, Go(r, step),
         UNCHANGED <<tables, byDate, job, row, seen, passed, place, before, writes>>,
         \A q \in Requests \ {r} : chosen'[q] = chosen[q] /\ holds'[q] = holds[q],
         \A k \in holds'[r] : k \in holds[r] \/ k[1] \in {"tag", "gone", "left"}
  PROVE  NumbersOK'
  <1>1. job[r].op = "delete" /\ row[r] # r
    BY IsDeletion DEF DeleteOK
  <1>2. pc'[r] = step /\ \A q \in Requests \ {r} : pc'[q] = pc[q]
    BY GoFacts
  <1>3. Calm(r)
    BY <1>1, <1>2 DEF Calm, tables, DeleteSteps, Outcomes
  <1>4. ~Sorting(r)'
    BY <1>1 DEF Sorting
  <1> QED BY <1>3, <1>4, UnsortedKeepsNumbers

LEMMA ChooseKeepsNumbers ==
  ASSUME IInv, NumbersOK, NEW r \in Requests,
         NEW step \in DeleteSteps \ {"commit"}, NEW rows, NEW next \in DeleteSteps,
         Choose(r, step, rows, next)
  PROVE  NumbersOK'
  <1>1. /\ pc[r] = step /\ Go(r, next) /\ \A q \in Requests \ {r} : chosen'[q] = chosen[q]
        /\ UNCHANGED <<tables, byDate, job, row, seen, passed, place, before, writes, holds>>
    BY DEF Choose, At, IInv, MemoryOK
  <1> QED BY <1>1, DeletionKeepsNumbers

LEMMA DeleteTagsKeepsNumbers ==
  ASSUME IInv, NumbersOK, NEW r \in Requests, DeleteTags(r) \/ DeleteTagsAgain(r)
  PROVE  NumbersOK'
  <1>1. {"tags", "untag", "tags_again", "untag_again", "version"} \subseteq DeleteSteps \ {"commit"}
    BY DEF DeleteSteps
  <1>2. ASSUME NEW step \in DeleteSteps \ {"commit"}, NEW next \in DeleteSteps,
               DeleteChosenTags(r, step, next)
        PROVE  NumbersOK'
    <2> DEFINE K == Keys("tag", ChosenTaggings(r))
    <2>1. pc[r] = step /\ Go(r, next) /\ Lock(r, K) /\ UNCHANGED <<tables, memory, writes>>
      BY <1>2 DEF DeleteChosenTags, At
    <2>2. holds'[r] = holds[r] \cup K /\ \A q \in Requests \ {r} : holds'[q] = holds[q]
      BY <2>1, LockFacts
    <2>3. \A k \in K : k[1] = "tag"
      BY DEF Keys, Key
    <2> HIDE DEF K
    <2> QED BY <2>1, <2>2, <2>3, DeletionKeepsNumbers DEF memory, found
  <1> QED BY <1>1, <1>2, ChooseKeepsNumbers DEF DeleteTags, DeleteTagsAgain

LEMMA DeleteVersionKeepsNumbers ==
  ASSUME IInv, NumbersOK, NEW r \in Requests, DeleteVersion(r)
  PROVE  NumbersOK'
  <1> DEFINE K == Keys("gone", ChosenVersions(r)) \cup UNION {LeftPlace(v) : v \in ChosenVersions(r)}
  <1>1. pc[r] = "remove"
    BY DEF DeleteVersion, At
  <1>2. CASE End(r, "error")
    BY <1>1, <1>2, EndKeepsNumbers DEF Outcomes
  <1>3. CASE Lock(r, K) /\ Go(r, "commit") /\ UNCHANGED <<tables, sequence, memory, writes>>
    <2>1. \A k \in K : k[1] \in {"gone", "left"}
      BY DEF Keys, Key, LeftPlace
    <2> HIDE DEF K
    <2>2. holds'[r] = holds[r] \cup K /\ \A q \in Requests \ {r} : holds'[q] = holds[q]
      BY <1>3, LockFacts
    <2>3. "remove" \in DeleteSteps \ {"commit"} /\ "commit" \in DeleteSteps
      BY DEF DeleteSteps
    <2> QED BY <1>1, <1>3, <2>1, <2>2, <2>3, DeletionKeepsNumbers DEF memory, found
  <1> QED BY <1>2, <1>3 DEF DeleteVersion

LEMMA InsertTagKeepsNumbers ==
  ASSUME IInv, NumbersOK, NEW r \in Requests, InsertTag(r)
  PROVE  NumbersOK'
  <1> DEFINE K == {Key("tag", Tagging(r)), Key("refer", Version(r))}
  <1>1. pc[r] = "tag"
    BY DEF InsertTag, At
  <1>2. CASE End(r, "error")
    BY <1>1, <1>2, EndKeepsNumbers DEF Outcomes
  <1>3. CASE /\ Go(r, "commit") /\ UNCHANGED <<tables, sequence, memory, writes>>
             /\ holds' = holds \/ Lock(r, K)
    <2>1. \A k \in K : k[1] \notin {"place", "update"}
      BY DEF Key
    <2> HIDE DEF K
    <2>2. /\ holds[r] \subseteq holds'[r] /\ holds'[r] \subseteq holds[r] \cup K
          /\ \A q \in Requests \ {r} : holds'[q] = holds[q]
      BY <1>3, LockFacts
    <2>3. pc'[r] = "commit" /\ \A q \in Requests \ {r} : pc'[q] = pc[q]
      BY <1>3, GoFacts
    <2>4. Calm(r)
      BY <1>1, <1>3, <2>2, <2>3 DEF Calm, tables, memory, found, Outcomes
    <2>5. ASSUME ~byDate, Sorting(r)' PROVE SortingOK(r)'
      <3>1. SortingOK(r)
        BY <1>1, <1>3, <2>5 DEF NumbersOK, Sorting, memory
      <3> QED BY <1>1, <1>3, <2>2, <2>3, <2>4, <3>1, CalmFacts, SortingStays
          DEF tables, memory, found
    <2> QED BY <2>1, <2>2, <2>4, <2>5, CalmKeepsNumbers
  <1> QED BY <1>2, <1>3 DEF InsertTag

\* Who chooses all versions has seen their order, and nothing is hidden from it yet.
LEMMA SelectForUpdateKeepsNumbers ==
  ASSUME IInv, NumbersOK, NEW r \in Requests, SelectForUpdate(r)
  PROVE  NumbersOK'
  <1>1. /\ pc[r] = "order" /\ Go(r, "sort") /\ ~byDate
        /\ chosen'[r] = {VersionRow(v) : v \in {w \in Versions : Exists(w)}} /\ seen'[r] = order
        /\ \A q \in Requests \ {r} : chosen'[q] = chosen[q] /\ seen'[q] = seen[q]
        /\ UNCHANGED <<version, order, byDate, job, row, passed, place, before, writes, holds>>
    BY DEF SelectForUpdate, At, tables, IInv, MemoryOK
  <1>2. pc'[r] = "sort" /\ \A q \in Requests \ {r} : pc'[q] = pc[q]
    BY <1>1, GoFacts
  <1>3. Calm(r)
    BY <1>1, <1>2 DEF Calm, Outcomes
  <1>4. \A v : (Exists(v)' <=> Exists(v)) /\ VersionRow(v)' = VersionRow(v)
    BY <1>1 DEF Exists, VersionRow
  <1>5. \A v \in Versions : v \in ChosenVersions(r)' <=> Exists(v)
    BY <1>1, <1>4 DEF ChosenVersions
  <1>6. ChosenVersions(r)' \subseteq Versions
    BY DEF ChosenVersions
  <1>7. SortingOK(r)'
    <2>1. ASSUME NEW v \in Versions, NEW p \in Requests, <<v, p>> \in chosen'[r] PROVE Done(p)'
      <3>1. Exists(v) /\ p = version[v]
        BY <1>1, <2>1 DEF VersionRow
      <3>2. Done(p)
        BY <3>1 DEF IInv, VersionsOK
      <3> QED BY <1>3, <3>2, CalmFacts
    <2>2. Compact(r)'
      BY <1>4, <1>5 DEF Compact
    <2>3. ASSUME Quiet(r)' PROVE SeenSorted(r)'
      <3>1. ~DeletedMeanwhile
        BY <1>3, <2>3, CalmFacts DEF Quiet
      <3>2. \A v, w \in Versions : (Exists(v) /\ Exists(w) /\ v < w) => order[v] < order[w]
        BY <1>1, <3>1 DEF NumbersOK, OrderedByNumber
      <3> QED BY <1>1, <1>5, <1>6, <3>2 DEF SeenSorted
    <2> QED BY <1>2, <2>1, <2>2, <2>3 DEF SortingOK
  <1> QED BY <1>1, <1>3, <1>7, CalmKeepsNumbers

\* What it passes, going down from the last row that it has seen, comes after its version.
LEMMA SemanticOrderKeepsNumbers ==
  ASSUME IInv, NumbersOK, NEW r \in Requests, SemanticOrder(r)
  PROVE  NumbersOK'
  <1>1. PICK vs : vs = ChosenVersions(r)
    OBVIOUS
  <1>2. PICK below : below = {v \in vs : Version(r) > v}
    OBVIOUS
  <1> DEFINE K == Keys("update", vs)
             Above(v) == {w \in vs : seen[r][w] > seen[r][v]}
  <1>3. /\ pc[r] = "sort" /\ Waits(r) = {} /\ Lock(r, K) /\ Go(r, "place")
        /\ UNCHANGED <<version, order, sequence, byDate, job, row, copy, chosen, seen, before, writes>>
    BY <1>1 DEF SemanticOrder, At, tables
  <1>4. /\ \/ below = {} /\ passed'[r] = vs /\ place'[r] = 0
           \/ \E v \in below : Above(v) \cap below = {} /\ passed'[r] = Above(v)
                                 /\ place'[r] = order[v] + 1
        /\ \A q \in Requests \ {r} : passed'[q] = passed[q] /\ place'[q] = place[q]
    BY <1>1, <1>2 DEF SemanticOrder, IInv, MemoryOK
  <1>5. pc'[r] = "place" /\ \A q \in Requests \ {r} : pc'[q] = pc[q]
    BY <1>3, GoFacts
  <1>6. holds'[r] = holds[r] \cup K /\ \A q \in Requests \ {r} : holds'[q] = holds[q]
    BY <1>3, LockFacts
  <1>7. /\ \A v \in vs : Key("update", v) \in K
        /\ \A k \in K : k[1] = "update" /\ \E v \in vs : k = Key("update", v)
    BY DEF Key, Keys
  <1>8. \A v \in vs : Key("update", v) \in Needs(r)
    BY <1>1, <1>3 DEF Needs
  <1> HIDE DEF K
  <1>9. Calm(r)
    BY <1>3, <1>4, <1>5, <1>6 DEF Calm, Outcomes
  <1>10. row[r] = r /\ Sorting(r) /\ SortingOK(r) /\ ~byDate /\ writes[r] = NoOrders
    <2>1. WriteOK(r)
      BY <1>3, IsWriter DEF WriteSteps
    <2>2. row[r] = r /\ ~byDate
      BY <1>3, <2>1 DEF WriteOK
    <2>3. writes[r] = NoOrders
      BY <1>3, <2>1 DEF WriteOK, Outcomes
    <2> QED BY <1>3, <2>2, <2>3 DEF NumbersOK, Sorting
  <1>11. /\ Version(r) \in Nat /\ Version(r)' = Version(r) /\ ChosenVersions(r)' = vs
         /\ \A v \in vs : v \in Nat /\ v \in Versions /\ v # Version(r) /\ order[v] \in Nat
         /\ \A v \in Versions : writes'[r][v] = NoRow
         /\ \A v : Exists(v)' <=> Exists(v)
    <2>1. \A v \in Versions : writes'[r][v] = NoRow
      BY <1>3, <1>10 DEF NoOrders
    <2>2. Version(r)' = Version(r) /\ ChosenVersions(r)' = vs /\ \A v : Exists(v)' <=> Exists(v)
      BY <1>1, <1>3 DEF Version, ChosenVersions, Exists, VersionRow
    <2> QED BY <1>1, <1>10, <2>1, <2>2, SortingFacts
  <1>12. SortingOK(r)'
    <2>1. \A v \in Versions, p \in Requests : <<v, p>> \in chosen'[r] => Done(p)'
      BY <1>3, <1>9, <1>10, CalmFacts DEF SortingOK
    <2>2. passed'[r] \subseteq vs
      BY <1>4
    <2>3. Reserved(r)'
      BY <1>11 DEF Reserved
    <2>4. Locked(r)'
      BY <1>5, <1>6, <1>7, <1>11, <2>2 DEF Locked
    <2>5. ASSUME Quiet(r)' PROVE Compact(r)' /\ Divided(r)' /\ WellPlaced(r)'
      <3>1. Compact(r) /\ SeenSorted(r)
        BY <1>3, <1>9, <1>10, <2>5, CalmFacts DEF SortingOK
      <3>2. Compact(r)'
        BY <1>1, <1>3, <1>11, <3>1 DEF Compact
      <3>3. CASE below = {} /\ passed'[r] = vs /\ place'[r] = 0
        <4>1. \A v \in vs : v > Version(r)
          BY <1>2, <1>11, <3>3
        <4> QED BY <1>11, <3>2, <3>3, <4>1 DEF Divided, WellPlaced
      <3>4. CASE \E a \in below : /\ Above(a) \cap below = {} /\ passed'[r] = Above(a)
                                  /\ place'[r] = order[a] + 1
        <4>1. PICK a \in below : /\ Above(a) \cap below = {} /\ passed'[r] = Above(a)
                                 /\ place'[r] = order[a] + 1
          BY <3>4
        <4>2. a \in vs /\ a < Version(r) /\ a \in Nat
          BY <1>2, <1>11
        <4>3. \A v \in vs : v > a => v \in Above(a)
          BY <1>1, <3>1, <4>2 DEF SeenSorted
        <4>4. ASSUME NEW v \in vs PROVE v < Version(r) => v <= a
          <5>1. v < Version(r) => v \notin Above(a)
            BY <1>2, <4>1
          <5> QED BY <1>11, <4>2, <4>3, <5>1
        <4>5. ASSUME NEW v \in vs PROVE v > Version(r) <=> v \in passed'[r]
          <5>1. v > Version(r) => v > a
            BY <1>11, <4>2
          <5>2. v < Version(r) => v \notin Above(a)
            BY <1>2, <4>1
          <5> QED BY <1>11, <4>1, <4>3, <5>1, <5>2
        <4>6. Divided(r)'
          BY <1>11, <4>5 DEF Divided
        <4>7. WellPlaced(r)'
          BY <1>3, <1>11, <4>1, <4>2, <4>4 DEF WellPlaced, NextTo
        <4> QED BY <3>2, <4>6, <4>7
      <3> QED BY <1>4, <3>3, <3>4
    <2> QED BY <1>5, <2>1, <2>3, <2>4, <2>5 DEF SortingOK
  <1>13. \A k \in K : \A q \in Requests \ {r} : k \notin holds[q]
    BY <1>3, <1>7, <1>8, FreeFacts
  <1> QED BY <1>6, <1>9, <1>12, <1>13, CalmKeepsNumbers

\* A place that nobody else has or wants.
LEMMA SetPlaceKeepsNumbers ==
  ASSUME IInv, NumbersOK, NEW r \in Requests, At(r, "place"), NEW u \in Updates(r),
         ~Taken(r, u[2]), SetPlace(r, u[1], u[2])
  PROVE  NumbersOK'
  <1>1. PICK v, n : v = u[1] /\ n = u[2]
    OBVIOUS
  <1> DEFINE last == passed[r] = {}
             step == IF last THEN AfterVersion(r) ELSE "place"
             K == {Key("place", n)} \cup LeftPlace(v)
  <1>2. /\ pc[r] = "place" /\ Waits(r) = {} /\ Lock(r, K) /\ Go(r, step)
        /\ writes' = [writes EXCEPT ![r] = [@ EXCEPT ![v] = n]]
        /\ passed' = [passed EXCEPT ![r] = @ \ {v}]
        /\ UNCHANGED <<version, order, byDate, job, row, chosen, seen, place, before>>
    BY <1>1 DEF At, SetPlace, tables
  <1>3. /\ v \in Versions /\ n \in Nat /\ n # NoRow
        /\ \/ last /\ v = Version(r) /\ n = place[r]
           \/ v \in passed[r] /\ v # Version(r) /\ n = order[v] + 1 /\ ~last
    BY <1>1, <1>2, UpdatesFacts, NoRowIsNoOrder
  <1>4. /\ \A w \in Versions : writes'[r][w] = IF w = v THEN n ELSE writes[r][w]
        /\ passed'[r] = passed[r] \ {v}
        /\ \A q \in Requests \ {r} : writes'[q] = writes[q] /\ passed'[q] = passed[q]
    BY <1>2, <1>3 DEF IInv, MemoryOK
  <1>5. holds'[r] = holds[r] \cup K /\ \A q \in Requests \ {r} : holds'[q] = holds[q]
    BY <1>2, LockFacts
  <1>6. step \in {"place", "tag", "commit"} /\ (step # "place" => last)
    BY DEF AfterVersion
  <1> HIDE DEF step
  <1>7. pc'[r] = step /\ \A q \in Requests \ {r} : pc'[q] = pc[q]
    BY <1>2, GoFacts
  <1>8. /\ Key("place", n) \in K /\ Key("place", n) \in Needs(r)
        /\ \A k \in K : k[1] \in {"place", "update"} => k = Key("place", n)
    <2>1. Key("place", n) \in Needs(r)
      BY <1>1, <1>2 DEF Needs
    <2> QED BY <2>1 DEF Key, Keys, LeftPlace
  <1> HIDE DEF K
  <1>9. Calm(r)
    BY <1>2, <1>4, <1>5, <1>6, <1>7 DEF Calm, Outcomes
  <1>10. \A k \in K : k[1] \in {"place", "update"} => \A q \in Requests \ {r} : k \notin holds[q]
    BY <1>2, <1>8, FreeFacts
  <1>11. ASSUME ~byDate PROVE SortingOK(r)'
    <2>1. row[r] = r /\ Sorting(r) /\ SortingOK(r)
      <3>1. row[r] = r
        BY <1>2, IsWriter DEF WriteSteps, WriteOK
      <3> QED BY <1>2, <1>11, <3>1 DEF Sorting, NumbersOK
    <2>2. /\ Version(r) \in Nat /\ Version(r)' = Version(r) /\ ChosenVersions(r)' = ChosenVersions(r)
          /\ \A w \in ChosenVersions(r) : w \in Nat /\ w \in Versions /\ w # Version(r)
          /\ \A w : Exists(w)' <=> Exists(w)
      <3>1. Version(r)' = Version(r) /\ ChosenVersions(r)' = ChosenVersions(r)
            /\ \A w : Exists(w)' <=> Exists(w)
        BY <1>2 DEF Version, ChosenVersions, Exists, VersionRow
      <3> QED BY <2>1, <3>1, SortingFacts
    <2>3. Reserved(r) /\ Locked(r)
      BY <1>2, <2>1 DEF SortingOK
    <2>4. \A w \in Versions : Exists(w) /\ order[w] = n => writes[r][w] # NoRow
      BY <1>1 DEF Taken
    <2>5. Reserved(r)'
      <3> SUFFICES ASSUME NEW w \in Versions, writes'[r][w] # NoRow
                   PROVE  /\ Key("place", writes'[r][w]) \in holds'[r]
                          /\ \A x \in Versions : Exists(x) /\ order[x] = writes'[r][w] =>
                               writes'[r][x] # NoRow
        BY <1>2, <2>2 DEF Reserved
      <3>1. \A x \in Versions : writes[r][x] # NoRow => writes'[r][x] # NoRow
        BY <1>3, <1>4
      <3>2. CASE w = v
        BY <1>3, <1>4, <1>5, <1>8, <2>4, <3>1, <3>2
      <3>3. CASE w # v
        BY <1>4, <1>5, <2>3, <3>1, <3>3 DEF Reserved
      <3> QED BY <3>2, <3>3
    <2>6. v \in ChosenVersions(r) \cup {Version(r)}
      BY <1>3, <2>3 DEF Locked
    <2>7. Locked(r)'
      BY <1>3, <1>4, <1>5, <1>6, <1>7, <2>2, <2>3, <2>6 DEF Locked
    <2>8. ASSUME Quiet(r)' PROVE Compact(r)' /\ Divided(r)' /\ WellPlaced(r)'
      <3>1. Compact(r) /\ Divided(r) /\ WellPlaced(r)
        BY <1>2, <1>9, <2>1, <2>8, CalmFacts DEF SortingOK
      <3>2. Compact(r)'
        BY <1>2, <2>2, <3>1 DEF Compact
      <3>3. WellPlaced(r)'
        BY <1>2, <2>2, <3>1 DEF WellPlaced, NextTo
      <3>4. ASSUME NEW w \in ChosenVersions(r)
            PROVE  /\ w > Version(r) <=> w \in passed'[r] \/ writes'[r][w] # NoRow
                   /\ writes'[r][w] # NoRow => writes'[r][w] = order[w] + 1
        <4>1. /\ w > Version(r) <=> w \in passed[r] \/ writes[r][w] # NoRow
              /\ writes[r][w] # NoRow => writes[r][w] = order[w] + 1
          BY <3>1 DEF Divided
        <4>2. CASE w = v
          BY <1>3, <1>4, <2>2, <4>1, <4>2
        <4>3. CASE w # v
          BY <1>4, <2>2, <4>1, <4>3
        <4> QED BY <4>2, <4>3
      <3>5. Divided(r)'
        BY <1>2, <2>2, <3>4 DEF Divided
      <3> QED BY <3>2, <3>3, <3>5
    <2>9. \A w \in Versions, p \in Requests : <<w, p>> \in chosen'[r] => Done(p)'
      BY <1>2, <1>9, <2>1, CalmFacts DEF SortingOK
    <2> QED BY <1>6, <1>7, <2>5, <2>7, <2>8, <2>9 DEF SortingOK
  <1> QED BY <1>5, <1>9, <1>10, <1>11, CalmKeepsNumbers

LEMMA SetOrderKeepsNumbers ==
  ASSUME IInv, NumbersOK, NEW r \in Requests, SetOrder(r)
  PROVE  NumbersOK'
  <1>1. At(r, "place") /\ pc[r] \notin Outcomes
    BY DEF SetOrder, At, Outcomes
  <1>2. PICK u \in Updates(r) : \/ ~Taken(r, u[2]) /\ SetPlace(r, u[1], u[2])
                                \/ End(r, "error")
    BY DEF SetOrder
  <1> QED BY <1>1, <1>2, SetPlaceKeepsNumbers, EndKeepsNumbers

LEMMA SequentialOrderKeepsNumbers ==
  ASSUME NEW r \in Requests, SequentialOrder(r)
  PROVE  NumbersOK'
  BY DEF SequentialOrder, NumbersOK

-----------------------------------------------------------------------------
(* The order by number: a creation is committed *)

\* Who commits has locked the place that it gives its version.
LEMMA CommittedPlace ==
  ASSUME IInv, NumbersOK, ~byDate, NEW q \in Requests, Commit(q), row[q] = q
  PROVE  /\ Sorting(q) /\ SortingOK(q) /\ Reserved(q) /\ Locked(q) /\ passed[q] = {}
         /\ writes[q][Version(q)] = place[q] /\ place[q] # NoRow
         /\ \A w \in Versions : Exists(w) /\ order[w] = place[q] => w \in ChosenVersions(q)
         /\ \A v \in ChosenVersions(q), w \in Versions :
              writes[q][v] # NoRow /\ Exists(w) /\ order[w] = writes[q][v] =>
                w \in ChosenVersions(q)
  <1>1. Sorting(q) /\ SortingOK(q) /\ pc[q] = "commit"
    BY CommitFacts DEF Sorting, NumbersOK
  <1>2. Reserved(q) /\ Locked(q) /\ passed[q] = {}
    BY <1>1 DEF SortingOK, Locked
  <1>3. writes[q][Version(q)] = place[q] /\ place[q] # NoRow
    BY <1>1, SortingFacts DEF Creating
  <1>4. /\ Version(q) \in Versions /\ ~Exists(Version(q))
        /\ \A v \in ChosenVersions(q) : v \in Versions
    BY <1>1, SortingFacts
  <1>5. \A w \in Versions : Exists(w) /\ writes[q][w] # NoRow => w \in ChosenVersions(q)
    BY <1>2, <1>4 DEF Locked
  <1> QED BY <1>1, <1>2, <1>3, <1>4, <1>5 DEF Reserved

\* A version hidden from a creation stands below the version next to which it places
\* its own.  Else the lowest one above would stand where the creation puts something.
LEMMA HiddenAreBelow ==
  ASSUME IInv, NumbersOK, ~byDate, NEW q \in Requests, Commit(q), row[q] = q, Quiet(q),
         NEW x \in Versions, Exists(x), x \notin ChosenVersions(q)
  PROVE  \E a \in ChosenVersions(q) : NextTo(q, a) /\ order[x] < order[a]
  <1>1. /\ Sorting(q) /\ SortingOK(q) /\ passed[q] = {}
        /\ \A w \in Versions : Exists(w) /\ order[w] = place[q] => w \in ChosenVersions(q)
        /\ \A v \in ChosenVersions(q), w \in Versions :
              writes[q][v] # NoRow /\ Exists(w) /\ order[w] = writes[q][v] =>
                w \in ChosenVersions(q)
    BY CommittedPlace
  <1>2. Compact(q) /\ Divided(q) /\ WellPlaced(q)
    BY <1>1, CommitFacts DEF SortingOK
  <1>3. /\ Version(q) \in Nat /\ ~Exists(Version(q))
        /\ \A v \in ChosenVersions(q) :
             v \in Versions /\ v \in Nat /\ v # Version(q) /\ Exists(v) /\ order[v] \in Nat
    BY <1>1, SortingFacts
  <1>4. \A v, w \in Versions : (Exists(v) /\ Exists(w) /\ v < w) => order[v] < order[w]
    BY DEF Quiet, NumbersOK, OrderedByNumber
  <1>5. ASSUME NEW v \in ChosenVersions(q), NEW w \in Versions, v > Version(q), Exists(w),
               order[w] = order[v] + 1
        PROVE  w \in ChosenVersions(q)
    BY <1>1, <1>2, <1>5 DEF Divided
  <1>6. ASSUME NEW B \in SUBSET {h \in Versions : Exists(h) /\ h \notin ChosenVersions(q)}, B # {}
        PROVE  \E h \in B : \A g \in B : order[h] <= order[g]
    <2>1. \A h \in B : order[h] \in Nat
      BY ExistingFacts
    <2>2. {order[h] : h \in B} \subseteq Nat /\ {order[h] : h \in B} # {}
      BY <1>6, <2>1
    <2>3. PICK m \in {order[h] : h \in B} : \A y \in {order[h] : h \in B} : <<y, m>> \notin OpToRel(<, Nat)
      BY <2>2, NatLessThanWellFounded, WFMin
    <2>4. PICK h \in B : m = order[h]
      BY <2>3
    <2>5. \A g \in B : ~(order[g] < order[h])
      BY <2>1, <2>3, <2>4 DEF OpToRel
    <2> QED BY <2>1, <2>5
  <1>7. CASE place[q] = 0 /\ \A v \in ChosenVersions(q) : v > Version(q)
    <2> DEFINE B == {h \in Versions : Exists(h) /\ h \notin ChosenVersions(q)}
    <2>1. PICK h \in B : \A g \in B : order[h] <= order[g]
      <3>1. x \in B
        OBVIOUS
      <3> HIDE DEF B
      <3> QED BY <1>6, <3>1 DEF B
    <2>2. order[h] # 0
      BY <1>1, <1>7
    <2>3. PICK w \in Versions : Exists(w) /\ order[h] = order[w] + 1
      BY <1>2, <2>2 DEF Compact
    <2>4. w \in ChosenVersions(q)
      BY <2>1, <2>3, ExistingFacts
    <2> QED BY <1>5, <1>7, <2>3, <2>4
  <1>8. ASSUME NEW a \in ChosenVersions(q), NextTo(q, a)
        PROVE  order[x] < order[a]
    <2> SUFFICES ASSUME ~(order[x] < order[a]) PROVE FALSE
      OBVIOUS
    <2> DEFINE B == {h \in Versions : /\ Exists(h) /\ h \notin ChosenVersions(q)
                                      /\ ~(order[h] < order[a])}
    <2>1. PICK h \in B : \A g \in B : order[h] <= order[g]
      <3>1. x \in B /\ B \in SUBSET {h \in Versions : Exists(h) /\ h \notin ChosenVersions(q)}
        OBVIOUS
      <3> HIDE DEF B
      <3> QED BY <1>6, <3>1
    <2>2. /\ a \in Versions /\ a \in Nat /\ Exists(a) /\ order[a] \in Nat /\ a < Version(q)
          /\ place[q] = order[a] + 1
      BY <1>3, <1>8 DEF NextTo
    <2>3. h \in Nat /\ order[h] \in Nat /\ h # a
      BY <2>1, ExistingFacts
    <2>4. order[h] > order[a] /\ h > a
      BY <1>4, <2>1, <2>2, <2>3
    <2>5. PICK w \in Versions : Exists(w) /\ order[h] = order[w] + 1
      BY <1>2, <2>2, <2>3, <2>4 DEF Compact
    <2>6. w \in Nat /\ order[w] \in Nat /\ order[w] >= order[a]
      BY <2>2, <2>4, <2>5, ExistingFacts
    <2>7. order[w] # order[a]
      BY <1>1, <2>2, <2>5
    <2>8. w \in ChosenVersions(q)
      BY <2>1, <2>2, <2>3, <2>5, <2>6
    <2>9. w > a
      BY <1>4, <2>2, <2>5, <2>6, <2>7
    <2>10. w > Version(q)
      BY <1>3, <1>8, <2>2, <2>6, <2>8, <2>9 DEF NextTo
    <2> QED BY <1>5, <2>5, <2>8, <2>10
  <1> QED BY <1>2, <1>7, <1>8 DEF WellPlaced

\* The tables after the creation: where the versions stand that were there.
LEMMA CommittedOrders ==
  ASSUME IInv, NumbersOK, ~byDate, NEW q \in Requests, Commit(q), row[q] = q
  PROVE  /\ \A v \in Versions \ {Version(q)} :
              /\ version'[v] = version[v]
              /\ v \notin ChosenVersions(q) => order'[v] = order[v]
              /\ order'[v] = IF writes[q][v] # NoRow THEN writes[q][v] ELSE order[v]
         /\ version'[Version(q)] = q /\ order'[Version(q)] = place[q]
  <1>1. /\ Sorting(q) /\ Locked(q) /\ writes[q][Version(q)] = place[q] /\ place[q] # NoRow
    BY CommittedPlace
  <1>2. /\ Version(q) \in Versions /\ WriteOK(q) /\ Version(q)' = Version(q)
    BY <1>1, SortingFacts, CommitFacts DEF Version
  <1>3. \A v \in Versions : Key("gone", v) \notin holds[q]
    <2>1. \A v : Key("gone", v)[1] = "gone"
      BY DEF Key
    <2> QED BY <1>2, <2>1 DEF WriteOK
  <1>4. \A v \in Versions :
          /\ version'[v] = IF v = Version(q) THEN q ELSE version[v]
          /\ order'[v] = IF writes[q][v] # NoRow THEN writes[q][v] ELSE order[v]
    BY <1>3 DEF Commit, Wrote
  <1>5. \A v \in Versions : writes[q][v] # NoRow => v \in ChosenVersions(q) \cup {Version(q)}
    BY <1>1 DEF Locked
  <1> QED BY <1>1, <1>2, <1>4, <1>5

\* Without deletions, where the versions stand that were there: those that come after
\* the new one move up by one, and all that was hidden stands below it.
LEMMA MovedByOne ==
  ASSUME IInv, NumbersOK, ~byDate, NEW q \in Requests, Commit(q), row[q] = q, Quiet(q),
         NEW v \in Versions, Exists(v)
  PROVE  /\ v \in Nat /\ order[v] \in Nat /\ v # Version(q) /\ Version(q) \in Nat
         /\ v > Version(q) => v \in ChosenVersions(q)
         /\ order'[v] = IF v > Version(q) THEN order[v] + 1 ELSE order[v]
  <1>1. /\ Sorting(q) /\ SortingOK(q) /\ passed[q] = {} /\ pc[q] = "commit"
    BY CommittedPlace, CommitFacts
  <1>2. Divided(q)
    BY <1>1 DEF SortingOK
  <1>3. /\ Version(q) \in Nat /\ v # Version(q) /\ v \in Nat /\ order[v] \in Nat
        /\ order[v] + 1 # NoRow
    BY <1>1, SortingFacts, ExistingFacts, NoRowIsNoOrder
  <1>4. CASE v \in ChosenVersions(q)
    BY <1>1, <1>2, <1>3, <1>4, CommittedOrders DEF Divided
  <1>5. CASE v \notin ChosenVersions(q)
    <2>1. PICK a \in ChosenVersions(q) : NextTo(q, a) /\ order[v] < order[a]
      BY <1>5, HiddenAreBelow
    <2>2. a \in Versions /\ Exists(a) /\ a \in Nat /\ order[a] \in Nat /\ a < Version(q)
      BY <1>1, <2>1, SortingFacts DEF NextTo
    <2>3. \A u, w \in Versions : (Exists(u) /\ Exists(w) /\ u < w) => order[u] < order[w]
      BY DEF Quiet, NumbersOK, OrderedByNumber
    <2>4. ~(v > Version(q))
      <3> SUFFICES ASSUME v > Version(q) PROVE FALSE
        OBVIOUS
      <3>1. a < v
        BY <1>3, <2>2
      <3> QED BY <1>3, <2>1, <2>2, <2>3, <3>1
    <2> QED BY <1>3, <1>5, <2>4, CommittedOrders
  <1> QED BY <1>4, <1>5

\* The new version stands between those before it and those after it.
LEMMA NewPlace ==
  ASSUME IInv, NumbersOK, ~byDate, NEW q \in Requests, Commit(q), row[q] = q, Quiet(q),
         NEW v \in Versions, Exists(v)
  PROVE  /\ place[q] \in Nat
         /\ v < Version(q) => order[v] < place[q]
         /\ v > Version(q) => order[v] >= place[q]
  <1>1. WellPlaced(q) /\ Sorting(q)
    BY CommittedPlace, CommitFacts DEF SortingOK
  <1>2. \A u, w \in Versions : (Exists(u) /\ Exists(w) /\ u < w) => order[u] < order[w]
    BY DEF Quiet, NumbersOK, OrderedByNumber
  <1>3. v \in Nat /\ order[v] \in Nat /\ v # Version(q) /\ Version(q) \in Nat
    BY MovedByOne
  <1>4. CASE place[q] = 0 /\ \A w \in ChosenVersions(q) : w > Version(q)
    <2>1. ~(v < Version(q))
      <3>1. v \notin ChosenVersions(q) => \E a \in ChosenVersions(q) : a < Version(q)
        BY HiddenAreBelow DEF NextTo
      <3>2. \A a \in ChosenVersions(q) : a \in Nat
        BY <1>1, SortingFacts
      <3> QED BY <1>3, <1>4, <3>1, <3>2
    <2> QED BY <1>3, <1>4, <2>1
  <1>5. ASSUME NEW a \in ChosenVersions(q), NextTo(q, a)
        PROVE  /\ place[q] \in Nat
               /\ v < Version(q) => order[v] < place[q]
               /\ v > Version(q) => order[v] >= place[q]
    <2>1. /\ a \in Versions /\ Exists(a) /\ a \in Nat /\ order[a] \in Nat /\ a < Version(q)
          /\ place[q] = order[a] + 1
      BY <1>1, <1>5, SortingFacts DEF NextTo
    <2>2. ASSUME v < Version(q) PROVE order[v] <= order[a]
      <3>1. CASE v \in ChosenVersions(q)
        <4>1. v <= a
          BY <1>5, <2>2, <3>1 DEF NextTo
        <4> QED BY <1>2, <1>3, <2>1, <4>1
      <3>2. CASE v \notin ChosenVersions(q)
        <4>1. PICK b \in ChosenVersions(q) : NextTo(q, b) /\ order[v] < order[b]
          BY <3>2, HiddenAreBelow
        <4>2. b \in Nat /\ b \in Versions /\ Exists(b) /\ order[b] \in Nat /\ b < Version(q)
          BY <1>1, <4>1, SortingFacts DEF NextTo
        <4>3. b <= a
          BY <1>5, <4>2 DEF NextTo
        <4>4. order[b] <= order[a]
          BY <1>2, <2>1, <4>2, <4>3
        <4> QED BY <1>3, <2>1, <4>1, <4>2, <4>4
      <3> QED BY <3>1, <3>2
    <2>3. v > Version(q) => order[a] < order[v]
      <3>1. v > Version(q) => a < v
        BY <1>3, <2>1
      <3> QED BY <1>2, <2>1, <3>1
    <2> QED BY <1>3, <2>1, <2>2, <2>3
  <1> QED BY <1>1, <1>4, <1>5 DEF WellPlaced

LEMMA CommitKeepsOrder ==
  ASSUME IInv, NumbersOK, ~byDate, NEW q \in Requests, Commit(q), row[q] = q, Quiet(q),
         NEW v \in Versions, NEW w \in Versions, Exists(v)', Exists(w)', v < w
  PROVE  order'[v] < order'[w]
  <1>1. \A u \in Versions \ {Version(q)} : Exists(u)' => Exists(u)
    BY CommittedOrders DEF Exists
  <1>2. order'[Version(q)] = place[q] /\ Version(q) \in Versions /\ Version(q) \in Nat
    BY CommittedOrders, CommittedPlace, SortingFacts
  <1>3. CASE v = Version(q)
    <2>1. Exists(w) /\ w > Version(q)
      BY <1>1, <1>2, <1>3
    <2> QED BY <1>2, <1>3, <2>1, MovedByOne, NewPlace
  <1>4. CASE w = Version(q)
    <2>1. Exists(v) /\ v < Version(q)
      BY <1>1, <1>2, <1>4
    <2>2. order'[v] = order[v]
      BY <2>1, MovedByOne
    <2> QED BY <1>2, <1>4, <2>1, <2>2, NewPlace
  <1>5. CASE v # Version(q) /\ w # Version(q)
    <2>1. Exists(v) /\ Exists(w)
      BY <1>1, <1>5
    <2>2. order[v] < order[w]
      BY <2>1 DEF Quiet, NumbersOK, OrderedByNumber
    <2>3. /\ v \in Nat /\ w \in Nat /\ order[v] \in Nat /\ order[w] \in Nat
          /\ order'[v] = IF v > Version(q) THEN order[v] + 1 ELSE order[v]
          /\ order'[w] = IF w > Version(q) THEN order[w] + 1 ELSE order[w]
      BY <2>1, MovedByOne
    <2>4. v > Version(q) => w > Version(q)
      BY <1>2, <2>3
    <2> QED BY <2>2, <2>3, <2>4
  <1> QED BY <1>3, <1>4, <1>5

\* What is hidden from another creation stands next to something after this one, too.
LEMMA CommitKeepsCompact ==
  ASSUME IInv, NumbersOK, ~byDate, NEW q \in Requests, Commit(q), row[q] = q, Quiet(q),
         NEW r \in Requests \ {q}, Compact(r)
  PROVE  Compact(r)'
  <1> SUFFICES ASSUME NEW h \in Versions, Exists(h)', h \notin ChosenVersions(r)'
               PROVE  \/ order'[h] = 0
                      \/ \E w \in Versions : Exists(w)' /\ order'[h] = order'[w] + 1
    BY DEF Compact
  <1>1. WellPlaced(q) /\ Sorting(q)
    BY CommittedPlace, CommitFacts DEF SortingOK
  <1>5. PICK n \in Versions : n = Version(q) /\ order'[n] = place[q] /\ Exists(n)'
    <2>1. version'[Version(q)] = q /\ order'[Version(q)] = place[q] /\ Version(q) \in Versions
      BY <1>1, CommittedOrders, SortingFacts
    <2> QED BY <2>1, NoRowIsNoOrder DEF Exists
  <1>2. \A v \in Versions : Exists(v) => v # Version(q) /\ Exists(v)'
    BY MovedByOne, CommittedOrders DEF Exists
  <1>3. CASE h = Version(q)
    <2>1. CASE place[q] = 0
      BY <1>3, <1>5, <2>1
    <2>2. ASSUME NEW a \in ChosenVersions(q), NextTo(q, a)
          PROVE  \E w \in Versions : Exists(w)' /\ order'[h] = order'[w] + 1
      <3>1. a \in Versions /\ Exists(a) /\ a < Version(q) /\ place[q] = order[a] + 1
        BY <1>1, <2>2, SortingFacts DEF NextTo
      <3>2. order'[a] = order[a]
        BY <3>1, MovedByOne
      <3> QED BY <1>2, <1>3, <1>5, <3>1, <3>2
    <2> QED BY <1>1, <2>1, <2>2 DEF WellPlaced
  <1>4. CASE h # Version(q)
    <2>1. Exists(h) /\ version'[h] = version[h] /\ chosen' = chosen
      BY <1>4, CommittedOrders, CommitFacts DEF Exists
    <2>2. h \notin ChosenVersions(r)
      BY <2>1 DEF ChosenVersions, VersionRow, Exists
    <2>3. /\ h \in Nat /\ order[h] \in Nat /\ Version(q) \in Nat /\ place[q] \in Nat
          /\ order'[h] = IF h > Version(q) THEN order[h] + 1 ELSE order[h]
          /\ h < Version(q) => order[h] < place[q]
          /\ h > Version(q) => order[h] >= place[q]
      BY <2>1, MovedByOne, NewPlace
    <2>4. CASE order[h] = 0
      <3>1. CASE h > Version(q)
        <4>1. order'[h] = 1 /\ place[q] = 0
          BY <2>3, <2>4, <3>1
        <4>2. order'[h] = order'[n] + 1
          BY <1>5, <4>1
        <4> QED BY <1>5, <4>2
      <3>2. CASE ~(h > Version(q))
        BY <2>3, <2>4, <3>2
      <3> QED BY <3>1, <3>2
    <2>5. ASSUME NEW w \in Versions, Exists(w), order[h] = order[w] + 1
          PROVE  \E u \in Versions : Exists(u)' /\ order'[h] = order'[u] + 1
      <3>1. /\ w \in Nat /\ order[w] \in Nat /\ w # Version(q)
            /\ order'[w] = IF w > Version(q) THEN order[w] + 1 ELSE order[w]
            /\ w < Version(q) => order[w] < place[q]
            /\ w > Version(q) => order[w] >= place[q]
        BY <2>5, MovedByOne, NewPlace
      <3>2. w < h
        <4>1. \A u, x \in Versions : (Exists(u) /\ Exists(x) /\ u < x) => order[u] < order[x]
          BY DEF Quiet, NumbersOK, OrderedByNumber
        <4> QED BY <2>1, <2>3, <2>5, <3>1, <4>1
      <3>3. CASE h < Version(q)
        <4>1. order'[h] = order'[w] + 1
          BY <2>3, <2>5, <3>1, <3>2, <3>3
        <4> QED BY <1>2, <2>5, <4>1
      <3>4. CASE h > Version(q) /\ w > Version(q)
        <4>1. order'[h] = order'[w] + 1
          BY <2>3, <2>5, <3>1, <3>4
        <4> QED BY <1>2, <2>5, <4>1
      <3>5. CASE h > Version(q) /\ w < Version(q)
        <4>1. order'[h] = place[q] + 1
          BY <2>3, <2>5, <3>1, <3>5
        <4>2. order'[h] = order'[n] + 1
          BY <1>5, <4>1
        <4> QED BY <1>5, <4>2
      <3> QED BY <1>4, <2>3, <3>1, <3>3, <3>4, <3>5
    <2> QED BY <2>1, <2>2, <2>4, <2>5 DEF Compact
  <1> QED BY <1>3, <1>4

\* A row after the commit: as it was, or where q has put it.
LEMMA CommittedRow ==
  ASSUME IInv, NEW q \in Requests, Commit(q), NEW w \in Versions, Exists(w)'
  PROVE  \/ Exists(w) /\ version'[w] = version[w] /\ order'[w] = order[w]
         \/ /\ row[q] = q /\ writes[q][w] # NoRow /\ order'[w] = writes[q][w]
            /\ w # Version(q) => version'[w] = version[w] /\ Key("update", w) \in holds[q]
            /\ w = Version(q) => version'[w] = q
  <1>1. /\ version'[w] = IF Key("gone", w) \in holds[q] THEN NoRow
                         ELSE IF row[q] = q /\ w = Version(q) THEN q ELSE version[w]
        /\ order'[w] = IF Key("gone", w) \in holds[q] THEN NoRow
                       ELSE IF writes[q][w] # NoRow THEN writes[q][w] ELSE order[w]
    BY DEF Commit, Wrote
  <1>2. /\ Key("gone", w) \notin holds[q] /\ pc[q] = "commit" /\ pc[q] \notin Resting /\ RequestOK(q)
    BY <1>1, CommitFacts DEF Exists, Resting, Outcomes, IInv
  <1>3. CASE job[q].op = "delete"
    <2>1. row[q] # q /\ writes[q][w] = NoRow
      BY <1>2, <1>3 DEF RequestOK, DeleteOK, NoOrders
    <2> QED BY <1>1, <1>2, <2>1 DEF Exists
  <1>4. CASE job[q].op # "delete"
    <2>1. WriteOK(q)
      BY <1>2, <1>4 DEF RequestOK
    <2>2. CASE writes[q][w] = NoRow
      <3>1. ~(row[q] = q /\ w = Version(q))
        BY <1>2, <2>1, <2>2 DEF WriteOK, Creating
      <3> QED BY <1>1, <1>2, <2>2, <3>1 DEF Exists
    <2>3. CASE writes[q][w] # NoRow
      <3>1. row[q] = q /\ (w # Version(q) => Key("update", w) \in holds[q])
        BY <1>2, <2>1, <2>3 DEF WriteOK, NoOrders
      <3> QED BY <1>1, <1>2, <2>3, <3>1
    <2> QED BY <2>2, <2>3
  <1> QED BY <1>3, <1>4

LEMMA CommittedAlone ==
  ASSUME IInv, NEW q \in Requests, Commit(q), row[q] # q, job[q].op # "delete", NEW v \in Versions
  PROVE  version'[v] = version[v] /\ order'[v] = order[v]
  <1>1. WriteOK(q)
    BY DEF IInv, RequestOK
  <1>2. writes[q][v] = NoRow /\ Key("gone", v) \notin holds[q]
    <2>1. Key("gone", v)[1] = "gone"
      BY DEF Key
    <2> QED BY <1>1, <2>1 DEF WriteOK, NoOrders
  <1> QED BY <1>2 DEF Commit, Wrote

\* Another creation at the commit of q: the rows it has chosen, and what it has locked of them.
LEMMA CommitKeepsChosen ==
  ASSUME IInv, NumbersOK, ~byDate, NEW q \in Requests, Commit(q),
         NEW r \in Requests \ {q}, Sorting(r)
  PROVE  /\ ChosenVersions(r)' \subseteq ChosenVersions(r)
         /\ pc[r] # "sort" =>
              /\ ChosenVersions(r)' = ChosenVersions(r)
              /\ \A v \in ChosenVersions(r) : order'[v] = order[v]
  <1>1. SortingOK(r) /\ chosen' = chosen /\ ~Done(q)
    BY CommitFacts DEF NumbersOK
  <1>2. ASSUME NEW v \in ChosenVersions(r)' PROVE v \in ChosenVersions(r)
    <2>1. v \in Versions /\ Exists(v)' /\ <<v, version'[v]>> \in chosen[r]
      BY <1>1 DEF ChosenVersions, VersionRow
    <2>2. version'[v] # q
      BY <1>1, <2>1 DEF SortingOK
    <2>3. version'[v] = version[v]
      BY <2>1, <2>2, CommittedRow
    <2> QED BY <2>1, <2>3 DEF ChosenVersions, VersionRow, Exists
  <1>3. ASSUME pc[r] # "sort", NEW v \in ChosenVersions(r)
        PROVE  v \in ChosenVersions(r)' /\ order'[v] = order[v]
    <2>1. /\ v \in Versions /\ Exists(v) /\ VersionRow(v) \in chosen[r]
          /\ Key("update", v) \in holds[r]
      BY <1>1, <1>3, SortingFacts DEF SortingOK, Locked
    <2>2. version'[v] = version[v]
      BY <2>1, CommitLeavesOthers
    <2>3. Exists(v)' /\ v \in ChosenVersions(r)'
      BY <1>1, <2>1, <2>2 DEF Exists, ChosenVersions, VersionRow
    <2>4. Key("update", v) \notin holds[q]
      <3>1. Key("update", v)[1] = "update"
        BY DEF Key
      <3> QED BY <2>1, <3>1 DEF NumbersOK, OneEach
    <2>5. order'[v] = order[v]
      <3>1. v = Version(q) => version'[v] # q
        <4>1. version[v] # q
          BY <1>1, <2>1, CreatorFacts
        <4> QED BY <2>2, <4>1
      <3> QED BY <2>1, <2>3, <2>4, <3>1, CommittedRow
    <2> QED BY <2>3, <2>5
  <1> QED BY <1>2, <1>3

LEMMA CommitKeepsReserved ==
  ASSUME IInv, NumbersOK, ~byDate, NEW q \in Requests, Commit(q),
         NEW r \in Requests \ {q}, Reserved(r)
  PROVE  Reserved(r)'
  <1>1. writes' = writes /\ holds'[r] = holds[r]
    BY CommitFacts
  <1> SUFFICES ASSUME NEW v \in Versions, writes[r][v] # NoRow,
                      NEW w \in Versions, Exists(w)', order'[w] = writes[r][v]
               PROVE  writes[r][w] # NoRow
    BY <1>1 DEF Reserved
  <1>2. CASE Exists(w) /\ order'[w] = order[w]
    BY <1>2 DEF Reserved
  <1>3. CASE row[q] = q /\ writes[q][w] # NoRow /\ order'[w] = writes[q][w]
    <2>1. Key("place", order'[w]) \in holds[q]
      BY <1>3, CommittedPlace DEF Reserved
    <2>2. Key("place", order'[w]) \in holds[r]
      BY DEF Reserved
    <2>3. Key("place", order'[w])[1] = "place"
      BY DEF Key
    <2> QED BY <2>1, <2>2, <2>3 DEF NumbersOK, OneEach
  <1> QED BY <1>2, <1>3, CommittedRow

\* A commit ends a deletion, or a creation, or it leaves the versions alone.
LEMMA CommitAndQuiet ==
  ASSUME IInv, NEW q \in Requests, Commit(q)
  PROVE  /\ DeletedMeanwhile => DeletedMeanwhile'
         /\ \A r \in Requests : Quiet(r)' => Quiet(r)
         /\ job[q].op = "delete" => \A r \in Requests \ {q} : pc[r] \notin Resting => ~Quiet(r)'
         /\ row[q] = q /\ ~DeletedMeanwhile' => Quiet(q)
  <1>1. /\ before' = before /\ job' = job /\ row' = row /\ pc'[q] = "done" /\ ~Done(q)
        /\ pc[q] \notin Outcomes
        /\ \A p \in Requests \ {q} : pc'[p] = pc[p]
    BY CommitFacts DEF Outcomes
  <1>2. \A d \in Requests : Ended(d, "delete") => Ended(d, "delete")'
    BY <1>1 DEF Ended
  <1>3. \A p \in Creators : p \in Creators'
    BY <1>1 DEF Creators
  <1>4. DeletedMeanwhile => DeletedMeanwhile'
    BY <1>1, <1>2, <1>3 DEF DeletedMeanwhile, Creators
  <1>5. \A r \in Requests : Quiet(r)' => Quiet(r)
    BY <1>1, <1>2, <1>4 DEF Quiet
  <1>6. ASSUME job[q].op = "delete", NEW r \in Requests \ {q}, Quiet(r)' PROVE FALSE
    <2>1. Ended(q, "delete")'
      BY <1>1, <1>6 DEF Ended
    <2>2. q \in before[r]
      BY <1>1, <1>6, <2>1 DEF Quiet
    <2> QED BY <1>1, <2>2 DEF IInv, BeforeEnded
  <1>7. ASSUME row[q] = q, ~DeletedMeanwhile' PROVE Quiet(q)
    <2>1. q \in Creators'
      BY <1>1, <1>7 DEF Creators
    <2>2. ASSUME NEW d \in Requests, Ended(d, "delete") PROVE d \in before[q]
      <3>1. d \in before[q] \/ q \in before[d]
        BY <1>1, <1>2, <1>7, <2>1, <2>2 DEF DeletedMeanwhile
      <3>2. q \notin before[d]
        BY <1>1 DEF IInv, BeforeEnded
      <3> QED BY <3>1, <3>2
    <2> QED BY <1>4, <1>7, <2>2 DEF Quiet
  <1> QED BY <1>4, <1>5, <1>6, <1>7

LEMMA CommitKeepsSorting ==
  ASSUME IInv, NumbersOK, ~byDate, NEW q \in Requests, Commit(q),
         NEW r \in Requests \ {q}, Sorting(r)
  PROVE  SortingOK(r)'
  <1>1. /\ UNCHANGED <<job, chosen, seen, passed, place, writes>>
        /\ pc'[r] = pc[r] /\ holds'[r] = holds[r] /\ \A p \in Requests : Done(p) => Done(p)'
        /\ SortingOK(r) /\ pc[r] \notin Resting /\ Version(r)' = Version(r)
    BY CommitFacts, SortingFacts DEF NumbersOK, Version
  <1>2. \A v \in Versions, p \in Requests : <<v, p>> \in chosen'[r] => Done(p)'
    BY <1>1 DEF SortingOK
  <1>3. pc[r] # "sort" => Reserved(r)' /\ Locked(r)'
    <2>1. Locked(r) /\ pc[r] # "sort" => Locked(r)'
      BY <1>1, CommitKeepsChosen DEF Locked
    <2> QED BY <1>1, <2>1, CommitKeepsReserved DEF SortingOK
  <1>4. ASSUME Quiet(r)'
        PROVE  /\ Compact(r)'
               /\ pc[r] = "sort" => SeenSorted(r)'
               /\ pc[r] # "sort" => Divided(r)' /\ WellPlaced(r)'
    <2>1. Quiet(r) /\ job[q].op # "delete"
      BY <1>1, <1>4, CommitAndQuiet
    <2>2. Compact(r)'
      <3>1. CASE row[q] = q
        <4>1. Quiet(q) /\ Compact(r)
          BY <1>1, <1>4, <2>1, <3>1, CommitAndQuiet DEF SortingOK, Quiet
        <4> QED BY <3>1, <4>1, CommitKeepsCompact
      <3>2. CASE row[q] # q
        <4>1. \A v \in Versions : version'[v] = version[v] /\ order'[v] = order[v]
          BY <2>1, <3>2, CommittedAlone
        <4>2. \A v \in Versions : /\ Exists(v)' <=> Exists(v)
                                  /\ v \in ChosenVersions(r)' <=> v \in ChosenVersions(r)
          BY <1>1, <4>1 DEF Exists, ChosenVersions, VersionRow
        <4> QED BY <1>1, <2>1, <4>1, <4>2 DEF SortingOK, Compact
      <3> QED BY <3>1, <3>2
    <2>3. pc[r] = "sort" => SeenSorted(r)'
      BY <1>1, <2>1, CommitKeepsChosen DEF SortingOK, SeenSorted
    <2>4. ASSUME pc[r] # "sort" PROVE Divided(r)' /\ WellPlaced(r)'
      <3>1. /\ Divided(r) /\ WellPlaced(r) /\ ChosenVersions(r)' = ChosenVersions(r)
            /\ \A v \in ChosenVersions(r) : order'[v] = order[v]
        BY <1>1, <2>1, <2>4, CommitKeepsChosen DEF SortingOK
      <3>2. \A a \in ChosenVersions(r) : NextTo(r, a) => NextTo(r, a)'
        BY <1>1, <3>1 DEF NextTo
      <3> QED BY <1>1, <3>1, <3>2 DEF Divided, WellPlaced
    <2> QED BY <2>2, <2>3, <2>4
  <1> QED BY <1>1, <1>2, <1>3, <1>4 DEF SortingOK

LEMMA CommitKeepsNumbers ==
  ASSUME IInv, NumbersOK, NEW q \in Requests, Commit(q)
  PROVE  NumbersOK'
  <1>1. /\ byDate' = byDate /\ row' = row /\ pc'[q] = "done" /\ holds'[q] = {}
        /\ \A r \in Requests \ {q} : pc'[r] = pc[r] /\ holds'[r] = holds[r]
    BY CommitFacts
  <1> SUFFICES ASSUME ~byDate
               PROVE  /\ OneEach' /\ OrderedByNumber'
                      /\ \A r \in Requests : Sorting(r)' => SortingOK(r)'
    BY <1>1 DEF NumbersOK
  <1>2. OneEach'
    BY <1>1 DEF NumbersOK, OneEach
  <1>3. ASSUME NEW r \in Requests, Sorting(r)' PROVE SortingOK(r)'
    <2>1. r # q /\ Sorting(r)
      BY <1>1, <1>3 DEF Sorting
    <2> QED BY <2>1, CommitKeepsSorting
  <1>4. OrderedByNumber'
    <2> SUFFICES ASSUME ~DeletedMeanwhile', NEW v \in Versions, NEW w \in Versions,
                        Exists(v)', Exists(w)', v < w
                 PROVE  order'[v] < order'[w]
      BY DEF OrderedByNumber
    <2>1. CASE row[q] = q
      BY <2>1, CommitAndQuiet, CommitKeepsOrder
    <2>2. CASE row[q] # q
      <3>1. /\ Exists(v) /\ order'[v] = order[v]
            /\ Exists(w) /\ order'[w] = order[w]
        BY <2>2, CommittedRow
      <3>2. ~DeletedMeanwhile
        BY CommitAndQuiet
      <3> QED BY <3>1, <3>2 DEF NumbersOK, OrderedByNumber
    <2> QED BY <2>1, <2>2
  <1> QED BY <1>2, <1>3, <1>4

LEMMA NumbersInit == Init => NumbersOK
  <1> SUFFICES ASSUME Init PROVE NumbersOK
    OBVIOUS
  <1>1. /\ \A r \in Requests : holds[r] = {} /\ pc[r] = "idle"
        /\ \A v \in Versions : ~Exists(v)
    BY DEF Init, Exists
  <1> QED BY <1>1 DEF NumbersOK, OneEach, Sorting, OrderedByNumber

LEMMA NumbersNext == IInv /\ NumbersOK /\ [Next]_vars => NumbersOK'
  <1> SUFFICES ASSUME IInv, NumbersOK, [Next]_vars PROVE NumbersOK'
    OBVIOUS
  <1>1. CASE UNCHANGED vars
    <2>1. /\ UNCHANGED <<version, order, byDate, job, pc, row, writes, chosen, seen>>
          /\ UNCHANGED <<passed, place, before, holds>>
      BY <1>1 DEF vars, tables, memory, found
    <2>2. DeletedMeanwhile' <=> DeletedMeanwhile
      BY <2>1 DEF DeletedMeanwhile, Ended, Creators
    <2>3. OrderedByNumber' <=> OrderedByNumber
      BY <2>1, <2>2 DEF OrderedByNumber, Exists
    <2>4. \A q \in Requests : (Quiet(q)' => Quiet(q)) /\ (Done(q) => Done(q)')
      BY <2>1, <2>2 DEF Quiet, Done, Ended
    <2>5. ASSUME NEW q \in Requests, SortingOK(q) PROVE SortingOK(q)'
      BY <2>1, <2>4, <2>5, SortingStays
    <2> QED BY <2>1, <2>3, <2>5 DEF NumbersOK, OneEach, Sorting
  <1>2. ASSUME NEW r \in Requests, DeadlockVictim(r) PROVE NumbersOK'
    <2>1. pc[r] \notin Outcomes
      <3>1. pc[r] \in Outcomes => Needs(r) = {}
        BY DEF Needs, Outcomes
      <3> QED BY <1>2, <3>1 DEF DeadlockVictim, Waits
    <2> QED BY <1>2, <2>1, EndKeepsNumbers DEF DeadlockVictim
  <1>3. ASSUME NEW r \in Requests, ChooseVersion(r) PROVE NumbersOK'
    <2>1. "version" \in DeleteSteps \ {"commit"} /\ "remove" \in DeleteSteps
      BY DEF DeleteSteps
    <2> QED BY <1>3, <2>1, ChooseKeepsNumbers DEF ChooseVersion
  <1>4. CASE Next
    BY <1>2, <1>3, <1>4, BeginKeepsNumbers, FindVersionKeepsNumbers, UpsertVersionKeepsNumbers,
       SequentialOrderKeepsNumbers, SelectForUpdateKeepsNumbers, SemanticOrderKeepsNumbers,
       SetOrderKeepsNumbers, InsertTagKeepsNumbers, DeleteTagsKeepsNumbers,
       DeleteVersionKeepsNumbers, CommitKeepsNumbers DEF Next
  <1> QED BY <1>1, <1>4

-----------------------------------------------------------------------------
(* The theorems *)

\* A version has an order if and only if it exists, and a request that has ended holds nothing.
THEOREM TypeCorrect == Spec => []TypeOK
  <1>1. IInv => TypeOK
    <2> SUFFICES ASSUME IInv PROVE TypeOK
      OBVIOUS
    <2>1. /\ version \in [Versions -> Requests \cup {NoRow}] /\ sequence \in Nat
          /\ \A r \in Requests : pc[r] \in Outcomes \cup {"idle"} => holds[r] = {}
      BY DEF IInv, MemoryOK, Ids, Resting
    <2>2. /\ \A v \in Versions : order[v] \in OrdersAndNone /\ (order[v] = NoRow <=> ~Exists(v))
          /\ \A x \in Taggings : tagOrder[x] \in OrdersAndNone
      BY DEF IInv, MemoryOK, VersionsOK
    <2> QED BY <2>1, <2>2 DEF TypeOK
  <1> QED BY <1>1, IInvHolds, PTL

\* A tag belongs to a version that exists, and its copy of the order is that of its
\* version when versions are ordered by date: the version that the tagging request
\* loaded stays in place, because the tag refers to it, until the tag is committed.
THEOREM CopiesAlwaysAgree == Spec => []CopiesAgree
  <1>1. IInv => CopiesAgree
    BY DEF IInv
  <1> QED BY <1>1, IInvHolds, PTL

\* Ordered by date, no two versions share a place, and a version comes after all those
\* whose creation had ended when its own began: places are taken from the sequence by
\* the one request that inserts the row, and nothing moves a row afterwards.
THEOREM OrderIsOfCreation == Spec => []OrderedByCreation
  <1>1. IInv => OrderedByCreation
    <2> SUFFICES ASSUME IInv, NEW v \in Versions, NEW w \in Versions,
                        byDate, Exists(v), Exists(w), v # w
                 PROVE  /\ order[v] # order[w]
                        /\ version[w] \in before[version[v]] => order[w] < order[v]
      BY DEF OrderedByCreation
    <2>1. /\ version[v] \in Requests /\ version[w] \in Requests
          /\ order[v] # NoRow /\ order[w] # NoRow
          /\ row[version[v]] = version[v] /\ Version(version[v]) = v
          /\ row[version[w]] = version[w] /\ Version(version[w]) = w
          /\ order[v] = place[version[v]] /\ order[w] = place[version[w]]
      BY DEF IInv, MemoryOK, VersionsOK, Exists, Ids
    <2>2. version[w] # version[v] /\ Placed(version[v]) /\ Placed(version[w])
      BY <2>1 DEF Placed
    <2> QED BY <2>1, <2>2 DEF IInv, SequenceOK
  <1> QED BY <1>1, IInvHolds, PTL

\* Ordered by number, the places agree with the numbers as long as no version is deleted
\* while another one is created, however the creations overlap: what stands above the
\* row next to which a creation places its own was there when it chose the rows, or else
\* stands where the creation sets a place, which the index does not let it do.
THEOREM OrderIsOfNumbers == Spec => []OrderedByNumber
  <1>1. byDate \in BOOLEAN /\ NumbersOK => OrderedByNumber
    BY DEF NumbersOK, OrderedByNumber
  <1>2. IInv => byDate \in BOOLEAN
    BY DEF IInv, MemoryOK
  <1> QED BY <1>1, <1>2, IInvInit, IInvNext, NumbersInit, NumbersNext, PTL DEF Spec
=============================================================================
