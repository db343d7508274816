----------------------- MODULE PactsForVerificationProofs -----------------------
(***************************************************************************)
(* Proofs about PactsForVerification, for every set of contents, consumer  *)
(* versions, builds, tags and branches, however long the changes last and  *)
(* a commit takes, and whatever clients say of when they verified a pact.  *)
(***************************************************************************)
EXTENDS PactsForVerification, WellFoundedInduction, TLAPS

-----------------------------------------------------------------------------
(* The inductive invariant *)

\* What consumers have published, with stamps that are no later than now.
ConsumersOK ==
    /\ now \in 1 .. MaxTime
    /\ content \in [Versions -> Contents \cup {NoContent}]
    /\ publishedAt \in [Versions -> 0 .. now]
    /\ labelled \subseteq Published \X Labels
    /\ \A v \in Versions : publishedAt[v] = 0 <=> v \notin Published

\* What builds have published, and that a build is as old as the oldest of it.
BuildsOK ==
    /\ createdAt \in [Builds -> 0 .. now]
    /\ tagAt \in [Builds \X Names -> 0 .. now]
    /\ branch \in [Builds -> Names \cup {NoName}]
    /\ results \subseteq [content : Contents, build : Builds, outcome : Outcomes,
                          at : 1 .. now, executed : Times]

CreationOK ==
    /\ \A x \in Builds \X Names :
         tagAt[x] # 0 => createdAt[x[1]] # 0 /\ createdAt[x[1]] <= tagAt[x]
    /\ \A b \in Builds : branch[b] # NoName => createdAt[b] # 0
    /\ \A r \in results : createdAt[r.build] # 0 /\ createdAt[r.build] <= r.at

\* The list under way.
ListOK ==
    /\ selected \subseteq Contents /\ todo \subseteq selected /\ pending \subseteq selected
    /\ pc = "idle" => pending = {}
    /\ pc \in {"pending_first", "pending_other"} => current \in selected

\* What was there when it was asked for is still there.
HistoryOK ==
    /\ asked.results \subseteq results /\ asked.labelled \subseteq labelled
    /\ asked.builds \subseteq Builds

IInv == ConsumersOK /\ BuildsOK /\ CreationOK /\ ListOK /\ HistoryOK

LEMMA IInvIsTyped == IInv => TypeOK
  <1> SUFFICES ASSUME IInv PROVE TypeOK
    OBVIOUS
  <1>1. \A v \in Versions : publishedAt[v] \in 0 .. now /\ (publishedAt[v] = 0 <=> v \notin Published)
    BY DEF IInv, ConsumersOK
  <1>2. \A x \in Builds \X Names : tagAt[x] # 0 => tagAt[x] \in createdAt[x[1]] .. now
    BY DEF IInv, ConsumersOK, BuildsOK, CreationOK
  <1>3. \A b \in Builds : branch[b] # NoName => createdAt[b] \in 1 .. now
    BY DEF IInv, ConsumersOK, BuildsOK, CreationOK
  <1>4. ASSUME NEW r \in results
        PROVE  createdAt[r.build] # 0 /\ r.at \in createdAt[r.build] .. now
    <2>1. r.at \in 1 .. now /\ r.build \in Builds /\ now \in Nat
      BY <1>4 DEF IInv, ConsumersOK, BuildsOK
    <2>2. createdAt[r.build] # 0 /\ createdAt[r.build] <= r.at /\ createdAt[r.build] \in 0 .. now
      BY <1>4, <2>1 DEF IInv, BuildsOK, CreationOK
    <2> QED BY <2>1, <2>2
  <1> QED BY <1>1, <1>2, <1>3, <1>4 DEF IInv, TypeOK, ConsumersOK, ListOK, HistoryOK

LEMMA IInvInit == Init => IInv
  <1> SUFFICES ASSUME Init PROVE IInv
    OBVIOUS
  <1>1. PICK c \in Contents, b \in Builds, l \in Labels :
            /\ content = [v \in Versions |-> IF v = 1 THEN c ELSE NoContent]
            /\ labelled = {<<1, l>>}
            /\ createdAt = [d \in Builds |-> IF d = b THEN 1 ELSE 0]
            /\ tagAt = [x \in Builds \X Names |-> IF x = <<b, l[2]>> THEN 1 ELSE 0]
            /\ \/ results = {}
               \/ \E outcome \in Outcomes : results = {Result(c, b, outcome, 1, 1)}
    BY DEF Init
  <1>2. l[2] \in Names /\ NoContent \notin Contents /\ now = 1 /\ 1 \in 1 .. MaxTime /\ 1 \in Versions
    BY PactsForVerificationAssumption DEF Init
  <1>3. ConsumersOK
    BY <1>1, <1>2 DEF Init, ConsumersOK, Published
  <1>4. \A r \in results :
          /\ r \in [content : Contents, build : Builds, outcome : Outcomes,
                    at : 1 .. now, executed : Times]
          /\ r.build = b /\ r.at = 1
    <2>1. ASSUME NEW outcome \in Outcomes, NEW r, r = Result(c, b, outcome, 1, 1)
          PROVE  /\ r \in [content : Contents, build : Builds, outcome : Outcomes,
                           at : 1 .. now, executed : Times]
                 /\ r.build = b /\ r.at = 1
      BY <1>2, <2>1 DEF Result, Times
    <2> QED BY <1>1, <2>1
  <1>5. BuildsOK
    BY <1>1, <1>2, <1>4 DEF Init, BuildsOK
  <1>6. CreationOK
    BY <1>1, <1>2, <1>4 DEF Init, CreationOK
  <1>7. ListOK /\ HistoryOK
    BY DEF Init, ListOK, HistoryOK
  <1> QED BY <1>3, <1>5, <1>6, <1>7 DEF IInv

-----------------------------------------------------------------------------
(* Steps *)

LEMMA ChangeIsLater ==
  ASSUME IInv, Change
  PROVE  /\ now \in 1 .. MaxTime /\ now' \in 1 .. MaxTime /\ now' = now + 1 /\ now < now'
         /\ MaxTime \in Nat
         /\ 0 .. now \subseteq 0 .. now' /\ 1 .. now \subseteq 1 .. now'
         /\ ListOK'
         /\ \A t \in 1 .. now' : Stamps(t) \subseteq t .. now'
  <1>1. now \in 1 .. MaxTime /\ MaxTime \in Nat
    BY PactsForVerificationAssumption DEF IInv, ConsumersOK
  <1>2. ListOK'
    BY DEF IInv, ListOK, Change, list
  <1>3. \A t \in 1 .. now' : Stamps(t) \subseteq t .. now'
    BY DEF Stamps
  <1> QED BY <1>1, <1>2, <1>3 DEF Change

\* Time passes, and what has been published stays so.
LEMMA ConsumersLater ==
  ASSUME ConsumersOK, UNCHANGED consumers, now' \in 1 .. MaxTime, now <= now'
  PROVE  ConsumersOK'
  <1>1. 0 .. now \subseteq 0 .. now'
    BY PactsForVerificationAssumption DEF ConsumersOK
  <1> QED BY <1>1 DEF ConsumersOK, consumers, Published

LEMMA ResultsLater ==
  ASSUME now \in Nat, BuildsOK, now' \in Nat, now <= now'
  PROVE  results \subseteq [content : Contents, build : Builds, outcome : Outcomes,
                            at : 1 .. now', executed : Times]
  <1>1. 1 .. now \subseteq 1 .. now'
    OBVIOUS
  <1> QED BY <1>1 DEF BuildsOK

LEMMA BuildsLater ==
  ASSUME now \in Nat, BuildsOK, CreationOK, UNCHANGED providers, now' \in Nat, now <= now'
  PROVE  BuildsOK' /\ CreationOK'
  <1>1. 0 .. now \subseteq 0 .. now'
    OBVIOUS
  <1>2. BuildsOK'
    BY <1>1, ResultsLater DEF BuildsOK, providers
  <1>3. CreationOK'
    BY DEF CreationOK, providers
  <1> QED BY <1>2, <1>3

LEMMA HistoryLater ==
  ASSUME HistoryOK, UNCHANGED asked, results \subseteq results', labelled \subseteq labelled'
  PROVE  HistoryOK'
  BY DEF HistoryOK

LEMMA PublishPactKeepsIInv ==
  ASSUME IInv, NEW v \in Versions, NEW c \in Contents, NEW l \in Labels, PublishPact(v, c, l)
  PROVE  IInv'
  <1>1. Change /\ UNCHANGED <<providers, asked>>
    BY DEF PublishPact, Change, list
  <1>2. /\ now \in Nat /\ now' \in Nat /\ now' \in 1 .. MaxTime /\ now < now'
        /\ 0 .. now \subseteq 0 .. now' /\ ListOK'
    BY <1>1, ChangeIsLater
  <1>3. c # NoContent
    BY PactsForVerificationAssumption
  <1>4. PICK at \in 1 .. now' : publishedAt' = [publishedAt EXCEPT ![v] = at]
    <2>1. 1 \in 1 .. now'
      BY <1>2
    <2>2. Stamps(1) \subseteq 1 .. now'
      BY <1>1, <2>1, ChangeIsLater
    <2> QED BY <2>2 DEF PublishPact
  <1>5. /\ content' = [content EXCEPT ![v] = c] /\ labelled' = labelled \cup {<<v, l>>}
        /\ content \in [Versions -> Contents \cup {NoContent}]
        /\ publishedAt \in [Versions -> 0 .. now]
    BY DEF PublishPact, IInv, ConsumersOK
  <1>6. /\ content' \in [Versions -> Contents \cup {NoContent}]
        /\ publishedAt' \in [Versions -> 0 .. now']
        /\ Published' = Published \cup {v}
    BY <1>2, <1>3, <1>4, <1>5 DEF Published
  <1>7. labelled' \subseteq Published' \X Labels
    BY <1>5, <1>6 DEF IInv, ConsumersOK
  <1>8. \A w \in Versions : publishedAt'[w] = 0 <=> w \notin Published'
    BY <1>2, <1>4, <1>5, <1>6 DEF IInv, ConsumersOK
  <1>9. BuildsOK' /\ CreationOK'
    BY <1>1, <1>2, BuildsLater DEF IInv
  <1>10. HistoryOK'
    BY <1>1, <1>5, HistoryLater DEF IInv, providers
  <1> QED BY <1>2, <1>6, <1>7, <1>8, <1>9, <1>10 DEF IInv, ConsumersOK

LEMMA TagConsumerVersionKeepsIInv ==
  ASSUME IInv, NEW v \in Versions, NEW n \in Names, TagConsumerVersion(v, n)
  PROVE  IInv'
  <1>1. Change /\ UNCHANGED <<providers, asked, content, publishedAt>>
    BY DEF TagConsumerVersion, Change, list
  <1>2. /\ now \in Nat /\ now' \in Nat /\ now' \in 1 .. MaxTime /\ now < now'
        /\ 0 .. now \subseteq 0 .. now' /\ ListOK'
    BY <1>1, ChangeIsLater
  <1>3. PICK l \in Labels : labelled' = labelled \cup {<<v, l>>} /\ v \in Published
    BY DEF TagConsumerVersion
  <1>4. Published' = Published
    BY <1>1 DEF Published
  <1>5. ConsumersOK'
    BY <1>1, <1>2, <1>3, <1>4 DEF IInv, ConsumersOK
  <1>6. BuildsOK' /\ CreationOK'
    BY <1>1, <1>2, BuildsLater DEF IInv
  <1>7. HistoryOK'
    BY <1>1, <1>3, HistoryLater DEF IInv, providers
  <1> QED BY <1>2, <1>5, <1>6, <1>7 DEF IInv

\* A build that is new gets a stamp; an older one keeps its own.
LEMMA CreatedOnce ==
  ASSUME IInv, Change, NEW b \in Builds, Created(b)
  PROVE  /\ createdAt' \in [Builds -> 0 .. now']
         /\ createdAt'[b] \in 1 .. now'
         /\ \A d \in Builds : createdAt[d] # 0 => createdAt'[d] = createdAt[d]
  <1>1. /\ now \in Nat /\ now' \in Nat /\ 1 \in 1 .. now' /\ 0 .. now \subseteq 0 .. now'
        /\ Stamps(1) \subseteq 1 .. now'
    BY ChangeIsLater
  <1>2. createdAt \in [Builds -> 0 .. now]
    BY DEF IInv, BuildsOK
  <1>3. PICK at \in Stamps(1) : createdAt' = [createdAt EXCEPT ![b] = IF @ = 0 THEN at ELSE @]
    BY DEF Created
  <1> QED BY <1>1, <1>2, <1>3

LEMMA TagBuildKeepsIInv ==
  ASSUME IInv, NEW b \in Builds, NEW n \in Names, TagBuild(b, n)
  PROVE  IInv'
  <1>1. Change /\ Created(b) /\ UNCHANGED <<consumers, branch, results, asked>>
    BY DEF TagBuild, Change, list
  <1>2. /\ now \in Nat /\ now' \in Nat /\ now' \in 1 .. MaxTime /\ now < now'
        /\ 0 .. now \subseteq 0 .. now' /\ ListOK'
    BY <1>1, ChangeIsLater
  <1>3. ConsumersOK' /\ HistoryOK'
    BY <1>1, <1>2, ConsumersLater, HistoryLater DEF IInv, consumers
  <1>4. PICK at \in createdAt'[b] .. now' : tagAt' = [tagAt EXCEPT ![<<b, n>>] = at]
    <2>1. Stamps(createdAt'[b]) \subseteq createdAt'[b] .. now'
      BY <1>1, CreatedOnce, ChangeIsLater
    <2> QED BY <2>1 DEF TagBuild
  <1>5. /\ tagAt \in [Builds \X Names -> 0 .. now] /\ tagAt[<<b, n>>] = 0
        /\ at \in 1 .. now' /\ createdAt'[b] # 0 /\ createdAt'[b] <= at
    BY <1>1, <1>2, <1>4, CreatedOnce DEF TagBuild, IInv, BuildsOK
  <1>6. BuildsOK'
    <2>1. createdAt' \in [Builds -> 0 .. now'] /\ tagAt' \in [Builds \X Names -> 0 .. now']
      BY <1>1, <1>2, <1>4, <1>5, CreatedOnce
    <2> QED BY <1>1, <1>2, <2>1, ResultsLater DEF IInv, BuildsOK
  <1>7. \A x \in Builds \X Names :
          tagAt'[x] # 0 => createdAt'[x[1]] # 0 /\ createdAt'[x[1]] <= tagAt'[x]
    BY <1>1, <1>4, <1>5, CreatedOnce DEF IInv, CreationOK, BuildsOK
  <1>8. /\ \A d \in Builds : branch'[d] # NoName => createdAt'[d] # 0
        /\ \A r \in results' : createdAt'[r.build] # 0 /\ createdAt'[r.build] <= r.at
    BY <1>1, CreatedOnce DEF IInv, CreationOK, BuildsOK
  <1> QED BY <1>2, <1>3, <1>6, <1>7, <1>8 DEF IInv, CreationOK

LEMMA SetBranchKeepsIInv ==
  ASSUME IInv, NEW b \in Builds, NEW n \in Names, SetBranch(b, n)
  PROVE  IInv'
  <1>1. Change /\ Created(b) /\ UNCHANGED <<consumers, tagAt, results, asked>>
    BY DEF SetBranch, Change, list
  <1>2. /\ now \in Nat /\ now' \in Nat /\ now' \in 1 .. MaxTime /\ now < now'
        /\ 0 .. now \subseteq 0 .. now' /\ ListOK'
    BY <1>1, ChangeIsLater
  <1>3. ConsumersOK' /\ HistoryOK'
    BY <1>1, <1>2, ConsumersLater, HistoryLater DEF IInv, consumers
  <1>4. /\ branch \in [Builds -> Names \cup {NoName}] /\ branch' = [branch EXCEPT ![b] = n]
        /\ tagAt \in [Builds \X Names -> 0 .. now]
    BY DEF SetBranch, IInv, BuildsOK
  <1>5. BuildsOK'
    BY <1>1, <1>2, <1>4, CreatedOnce, ResultsLater DEF IInv, BuildsOK
  <1>6. /\ \A x \in Builds \X Names :
             tagAt'[x] # 0 => createdAt'[x[1]] # 0 /\ createdAt'[x[1]] <= tagAt'[x]
        /\ \A r \in results' : createdAt'[r.build] # 0 /\ createdAt'[r.build] <= r.at
    BY <1>1, CreatedOnce DEF IInv, CreationOK, BuildsOK
  <1>7. \A d \in Builds : branch'[d] # NoName => createdAt'[d] # 0
    BY <1>1, <1>4, CreatedOnce DEF IInv, CreationOK
  <1> QED BY <1>2, <1>3, <1>5, <1>6, <1>7 DEF IInv, CreationOK

\* The row of a result.
LEMMA NewResult ==
  ASSUME IInv, NEW c \in Contents, NEW b \in Builds, NEW outcome \in Outcomes,
         PublishResult(c, b, outcome)
  PROVE  \E r \in [content : Contents, build : Builds, outcome : Outcomes,
                   at : 1 .. now', executed : Times] :
            /\ results' = results \cup {r}
            /\ r.build = b /\ createdAt'[b] # 0 /\ createdAt'[b] <= r.at
  <1>1. Change /\ Created(b)
    BY DEF PublishResult
  <1>2. createdAt'[b] \in 1 .. now' /\ now' \in 1 .. MaxTime /\ MaxTime \in Nat
    BY <1>1, CreatedOnce, ChangeIsLater
  <1>3. PICK at \in Stamps(createdAt'[b]) : \E executed \in ClientDates \cup {at} :
           results' = results \cup {Result(c, b, outcome, at, executed)}
    BY DEF PublishResult
  <1>4. PICK executed \in ClientDates \cup {at} :
           results' = results \cup {Result(c, b, outcome, at, executed)}
    BY <1>3
  <1>5. at \in createdAt'[b] .. now'
    BY <1>1, <1>2, ChangeIsLater
  <1>6. at \in 1 .. now' /\ executed \in Times /\ createdAt'[b] <= at /\ createdAt'[b] # 0
    BY <1>2, <1>4, <1>5, PactsForVerificationAssumption DEF Times
  <1>7. PICK r : r = Result(c, b, outcome, at, executed)
    OBVIOUS
  <1>8. /\ r \in [content : Contents, build : Builds, outcome : Outcomes,
                  at : 1 .. now', executed : Times]
        /\ r.build = b /\ r.at = at
    BY <1>6, <1>7 DEF Result
  <1> QED BY <1>4, <1>6, <1>7, <1>8

LEMMA PublishResultKeepsIInv ==
  ASSUME IInv, NEW c \in Contents, NEW b \in Builds, NEW outcome \in Outcomes,
         PublishResult(c, b, outcome)
  PROVE  IInv'
  <1>1. Change /\ Created(b) /\ UNCHANGED <<consumers, tagAt, branch, asked>>
    BY DEF PublishResult, Change, list
  <1>2. /\ now \in Nat /\ now' \in Nat /\ now' \in 1 .. MaxTime /\ now < now'
        /\ 0 .. now \subseteq 0 .. now' /\ ListOK'
    BY <1>1, ChangeIsLater
  <1>3. PICK r \in [content : Contents, build : Builds, outcome : Outcomes,
                    at : 1 .. now', executed : Times] :
            /\ results' = results \cup {r}
            /\ r.build = b /\ createdAt'[b] # 0 /\ createdAt'[b] <= r.at
    BY NewResult
  <1>4. ConsumersOK' /\ HistoryOK'
    BY <1>1, <1>2, <1>3, ConsumersLater, HistoryLater DEF IInv, consumers
  <1>5. BuildsOK'
    <2>1. results' \subseteq [content : Contents, build : Builds, outcome : Outcomes,
                              at : 1 .. now', executed : Times]
      BY <1>2, <1>3, ResultsLater DEF IInv
    <2> QED BY <1>1, <1>2, <2>1, CreatedOnce DEF IInv, BuildsOK
  <1>6. /\ \A x \in Builds \X Names :
             tagAt'[x] # 0 => createdAt'[x[1]] # 0 /\ createdAt'[x[1]] <= tagAt'[x]
        /\ \A d \in Builds : branch'[d] # NoName => createdAt'[d] # 0
        /\ \A q \in results : createdAt'[q.build] # 0 /\ createdAt'[q.build] <= q.at
    BY <1>1, CreatedOnce DEF IInv, CreationOK, BuildsOK
  <1> QED BY <1>2, <1>3, <1>4, <1>5, <1>6 DEF IInv, CreationOK

\* A query changes nothing but the list.
LEMMA QueryKeepsIInv ==
  ASSUME IInv, UNCHANGED <<now, consumers, providers>>, ListOK', HistoryOK'
  PROVE  IInv'
  <1>1. now \in Nat /\ now' \in Nat /\ now' \in 1 .. MaxTime /\ now <= now'
    BY PactsForVerificationAssumption DEF IInv, ConsumersOK
  <1>2. ConsumersOK' /\ BuildsOK' /\ CreationOK'
    BY <1>1, ConsumersLater, BuildsLater DEF IInv
  <1> QED BY <1>2 DEF IInv

LEMMA IInvNext == IInv /\ [Next]_vars => IInv'
  <1> SUFFICES ASSUME IInv, [Next]_vars PROVE IInv'
    OBVIOUS
  <1>1. ASSUME NEW v \in Versions, NEW c \in Contents, NEW l \in Labels, PublishPact(v, c, l)
        PROVE  IInv'
    BY <1>1, PublishPactKeepsIInv
  <1>2. ASSUME NEW v \in Versions, NEW n \in Names, TagConsumerVersion(v, n) PROVE IInv'
    BY <1>2, TagConsumerVersionKeepsIInv
  <1>3. ASSUME NEW b \in Builds, NEW n \in Names, TagBuild(b, n) \/ SetBranch(b, n) PROVE IInv'
    BY <1>3, TagBuildKeepsIInv, SetBranchKeepsIInv
  <1>4. ASSUME NEW c \in Contents, NEW b \in Builds, NEW outcome \in Outcomes,
               PublishResult(c, b, outcome)
        PROVE  IInv'
    BY <1>4, PublishResultKeepsIInv
  <1>5. CASE FindSelected
    <2>1. {content[v] : v \in Latest(<<"tag", question.selector>>, Published)} \subseteq Contents
      BY DEF IInv, ConsumersOK, Latest, Published
    <2>2. ListOK'
      BY <1>5, <2>1 DEF FindSelected, Go, IInv, ListOK
    <2>3. HistoryOK'
      BY <1>5 DEF FindSelected, Go, HistoryOK, Marked, consumers, providers
    <2> QED BY <1>5, <2>2, <2>3, QueryKeepsIInv DEF FindSelected, Go
  <1>6. ASSUME UNCHANGED <<now, consumers, providers, asked>>, ListOK' PROVE IInv'
    BY <1>6, QueryKeepsIInv, HistoryLater DEF IInv, consumers, providers
  <1>7. ASSUME NEW c \in Contents, CheckAny(c) \/ CheckOwnTag(c) PROVE IInv'
    <2>1. ListOK'
      BY <1>7 DEF CheckAny, CheckOwnTag, Go, IInv, ListOK
    <2> QED BY <1>6, <1>7, <2>1 DEF CheckAny, CheckOwnTag, Go
  <1>8. CASE FindFirstTag \/ CheckOtherTags
    <2>1. ListOK'
      BY <1>8 DEF FindFirstTag, CheckOtherTags, Go, IInv, ListOK
    <2> QED BY <1>6, <1>8, <2>1 DEF FindFirstTag, CheckOtherTags, Go
  <1>9. CASE FindFirstUse \/ FindPotential \/ SubtractSpecified \/ SubtractOwn
    <2>1. ListOK'
      BY <1>9 DEF FindFirstUse, FindPotential, SubtractSpecified, SubtractOwn, Subtract, Go,
                  IInv, ListOK
    <2> QED BY <1>6, <1>9, <2>1
            DEF FindFirstUse, FindPotential, SubtractSpecified, SubtractOwn, Subtract, Go
  <1>10. CASE SubtractOther
    <2>1. ListOK'
      BY <1>10 DEF SubtractOther, Go, IInv, ListOK
    <2> QED BY <1>6, <1>10, <2>1 DEF SubtractOther, Go
  <1>11. CASE UNCHANGED vars
    <2>1. ListOK'
      BY <1>11 DEF vars, list, IInv, ListOK
    <2> QED BY <1>6, <1>11, <2>1 DEF vars, list
  <1> QED BY <1>1, <1>2, <1>3, <1>4, <1>5, <1>7, <1>8, <1>9, <1>10, <1>11 DEF Next

-----------------------------------------------------------------------------
(* What the changes leave as it is *)

\* Rows are only added.
Grown ==
    /\ \A v \in Published : content'[v] = content[v] /\ publishedAt'[v] = publishedAt[v]
    /\ labelled \subseteq labelled' /\ results \subseteq results'
    /\ \A x \in Builds \X Names : tagAt[x] # 0 => tagAt'[x] = tagAt[x]
    /\ \A b \in Builds : /\ branch[b] # NoName => branch'[b] = branch[b]
                         /\ createdAt[b] # 0 => createdAt'[b] = createdAt[b]

LEMMA NextGrows == IInv /\ [Next]_vars => Grown
  <1> SUFFICES ASSUME IInv, [Next]_vars PROVE Grown
    OBVIOUS
  <1>1. /\ content \in [Versions -> Contents \cup {NoContent}]
        /\ publishedAt \in [Versions -> 0 .. now]
        /\ tagAt \in [Builds \X Names -> 0 .. now]
        /\ branch \in [Builds -> Names \cup {NoName}]
    BY DEF IInv, ConsumersOK, BuildsOK
  <1>2. ASSUME NEW v \in Versions, NEW c \in Contents, NEW l \in Labels, PublishPact(v, c, l)
        PROVE  Grown
    <2>1. /\ UNCHANGED providers /\ v \notin Published /\ content' = [content EXCEPT ![v] = c]
          /\ labelled \subseteq labelled'
      BY <1>2 DEF PublishPact
    <2>2. \E at : publishedAt' = [publishedAt EXCEPT ![v] = at]
      BY <1>2 DEF PublishPact
    <2>3. \A w \in Published : content'[w] = content[w] /\ publishedAt'[w] = publishedAt[w]
      BY <1>1, <2>1, <2>2 DEF Published
    <2> QED BY <2>1, <2>3 DEF Grown, providers
  <1>3. ASSUME NEW v \in Versions, NEW n \in Names, TagConsumerVersion(v, n) PROVE Grown
    BY <1>3 DEF TagConsumerVersion, Grown, providers
  <1>4. ASSUME NEW b \in Builds, NEW n \in Names, TagBuild(b, n) PROVE Grown
    <2>1. /\ UNCHANGED <<consumers, branch, results>> /\ tagAt[<<b, n>>] = 0
          /\ \E at : tagAt' = [tagAt EXCEPT ![<<b, n>>] = at]
      BY <1>4 DEF TagBuild
    <2>2. \A d \in Builds : createdAt[d] # 0 => createdAt'[d] = createdAt[d]
      BY <1>4, CreatedOnce DEF TagBuild
    <2> QED BY <1>1, <2>1, <2>2 DEF Grown, consumers
  <1>5. ASSUME NEW b \in Builds, NEW n \in Names, SetBranch(b, n) PROVE Grown
    <2>1. /\ UNCHANGED <<consumers, tagAt, results>> /\ branch[b] = NoName
          /\ branch' = [branch EXCEPT ![b] = n]
      BY <1>5 DEF SetBranch
    <2>2. \A d \in Builds : createdAt[d] # 0 => createdAt'[d] = createdAt[d]
      BY <1>5, CreatedOnce DEF SetBranch
    <2> QED BY <1>1, <2>1, <2>2 DEF Grown, consumers
  <1>6. ASSUME NEW c \in Contents, NEW b \in Builds, NEW outcome \in Outcomes,
               PublishResult(c, b, outcome)
        PROVE  Grown
    <2>1. UNCHANGED <<consumers, tagAt, branch>> /\ results \subseteq results'
      BY <1>6, NewResult DEF PublishResult
    <2>2. \A d \in Builds : createdAt[d] # 0 => createdAt'[d] = createdAt[d]
      BY <1>6, CreatedOnce DEF PublishResult
    <2> QED BY <2>1, <2>2 DEF Grown, consumers
  <1>7. CASE UNCHANGED <<consumers, providers>>
    BY <1>7 DEF Grown, consumers, providers
  <1>8. CASE \/ FindSelected \/ FindFirstTag \/ CheckOtherTags \/ FindFirstUse \/ FindPotential
             \/ SubtractSpecified \/ SubtractOwn \/ SubtractOther
             \/ \E c \in Contents : CheckAny(c) \/ CheckOwnTag(c)
    BY <1>7, <1>8 DEF FindSelected, FindFirstTag, CheckOtherTags, FindFirstUse, FindPotential,
       SubtractSpecified, SubtractOwn, SubtractOther, Subtract, CheckAny, CheckOwnTag, Go
  <1>9. CASE UNCHANGED vars
    BY <1>7, <1>9 DEF vars
  <1> QED BY <1>2, <1>3, <1>4, <1>5, <1>6, <1>8, <1>9 DEF Next

\* The builds with a tag, or on a branch, only get more.
LEMMA MarkedGrows ==
  ASSUME IInv, Grown, NEW kind, NEW name \in Names
  PROVE  /\ Marked(kind, name) \subseteq Marked(kind, name)'
         /\ MarkedOtherwise(kind, name) \subseteq MarkedOtherwise(kind, name)'
  <1>1. ASSUME NEW n \in Names
        PROVE  /\ {b \in Builds : tagAt[<<b, n>>] # 0} \subseteq {b \in Builds : tagAt'[<<b, n>>] # 0}
               /\ {b \in Builds : branch[b] = n} \subseteq {b \in Builds : branch'[b] = n}
    <2>1. n # NoName
      BY PactsForVerificationAssumption
    <2> QED BY <2>1 DEF Grown
  <1>2. \A n \in Names : Marked(kind, n) \subseteq Marked(kind, n)'
    BY <1>1 DEF Marked
  <1> QED BY <1>2 DEF MarkedOtherwise

\* A set of natural numbers that is not empty has a least element.
LEMMA MinIsLeast ==
  ASSUME NEW T, T \subseteq Nat, T # {}
  PROVE  Min(T) \in T /\ \A y \in T : Min(T) <= y
  <1>1. PICK x \in T : \A y \in T : <<y, x>> \notin OpToRel(<, Nat)
    BY NatLessThanWellFounded, WFMin
  <1>2. \A y \in T : ~(y < x)
    BY <1>1 DEF OpToRel
  <1>3. \E z \in T : \A y \in T : z <= y
    BY <1>2
  <1> QED BY <1>3 DEF Min

\* The stamps that say when a tag or branch was used.
UseTimes(kind, n) ==
    {IF kind = "tag" THEN tagAt[<<b, n>>] ELSE createdAt[b] : b \in Marked(kind, n)} \cup {Never}

LEMMA FirstUseIsLeast ==
  ASSUME IInv, NEW kind, NEW n \in Names
  PROVE  /\ UseTimes(kind, n) \subseteq Nat /\ FirstUse(kind, n) \in UseTimes(kind, n)
         /\ FirstUse(kind, n) \in Nat
         /\ \A t \in UseTimes(kind, n) : FirstUse(kind, n) <= t
  <1>1. Never \in Nat
    BY PactsForVerificationAssumption DEF Never
  <1>2. \A b \in Builds : tagAt[<<b, n>>] \in Nat /\ createdAt[b] \in Nat
    <2>1. /\ now \in Nat /\ tagAt \in [Builds \X Names -> 0 .. now]
          /\ createdAt \in [Builds -> 0 .. now]
      BY DEF IInv, ConsumersOK, BuildsOK
    <2> QED BY <2>1
  <1>3. UseTimes(kind, n) \subseteq Nat /\ UseTimes(kind, n) # {}
    BY <1>1, <1>2 DEF UseTimes, Marked
  <1>4. FirstUse(kind, n) = Min(UseTimes(kind, n))
    BY DEF FirstUse, UseTimes
  <1> QED BY <1>3, <1>4, MinIsLeast

\* A tag or a branch was first used when it was, or earlier, as soon as that is known.
LEMMA FirstUseMovesBack ==
  ASSUME IInv, IInv', Grown, NEW kind, NEW n \in Names
  PROVE  /\ FirstUse(kind, n) \in Nat /\ FirstUse(kind, n)' \in Nat
         /\ FirstUse(kind, n)' \in UseTimes(kind, n)'
         /\ FirstUse(kind, n)' <= FirstUse(kind, n)
  <1>1. /\ UseTimes(kind, n)' \subseteq Nat /\ FirstUse(kind, n)' \in UseTimes(kind, n)'
        /\ FirstUse(kind, n)' \in Nat
        /\ \A t \in UseTimes(kind, n)' : FirstUse(kind, n)' <= t
    <2>1. Never \in Nat
      BY PactsForVerificationAssumption DEF Never
    <2>2. \A b \in Builds : tagAt'[<<b, n>>] \in Nat /\ createdAt'[b] \in Nat
      <3>1. /\ now' \in Nat /\ tagAt' \in [Builds \X Names -> 0 .. now']
            /\ createdAt' \in [Builds -> 0 .. now']
        BY DEF IInv, ConsumersOK, BuildsOK
      <3> QED BY <3>1
    <2>3. UseTimes(kind, n)' \subseteq Nat /\ UseTimes(kind, n)' # {}
      BY <2>1, <2>2 DEF UseTimes, Marked
    <2>4. FirstUse(kind, n)' = Min(UseTimes(kind, n)')
      BY DEF FirstUse, UseTimes
    <2> QED BY <2>3, <2>4, MinIsLeast
  <1>2. UseTimes(kind, n) \subseteq UseTimes(kind, n)'
    <2>1. Marked(kind, n) \subseteq Marked(kind, n)'
      BY MarkedGrows
    <2>2. ASSUME NEW b \in Marked(kind, n)
          PROVE  IF kind = "tag" THEN tagAt'[<<b, n>>] = tagAt[<<b, n>>]
                 ELSE createdAt'[b] = createdAt[b]
      <3>1. b \in Builds /\ n # NoName
        BY PactsForVerificationAssumption DEF Marked
      <3> QED BY <3>1 DEF Marked, Grown, IInv, CreationOK
    <2> QED BY <2>1, <2>2 DEF UseTimes
  <1> QED BY <1>1, <1>2, FirstUseIsLeast

-----------------------------------------------------------------------------
(* A pact that is not pending *)

\* It stays so as long as the first use of the tag does not move back.
LEMMA NotPendingStays ==
  ASSUME IInv, Grown, NEW c, NEW n \in Names, ~Pending(c, n),
         FirstUse("tag", n)' = FirstUse("tag", n)
  PROVE  ~Pending(c, n)'
  <1>1. /\ Marked("tag", n) \subseteq Marked("tag", n)'
        /\ MarkedOtherwise("tag", n) \subseteq MarkedOtherwise("tag", n)'
        /\ results \subseteq results'
    BY MarkedGrows DEF Grown
  <1>2. CASE Verified(c, Marked("tag", n), Passed, results)
    BY <1>1, <1>2 DEF Verified, Pending
  <1>3. CASE Verified(c, MarkedOtherwise("tag", n), Passed, CreatedBefore(FirstUse("tag", n)))
    <2>1. CreatedBefore(FirstUse("tag", n)) \subseteq CreatedBefore(FirstUse("tag", n))'
      BY <1>1 DEF CreatedBefore
    <2> QED BY <1>1, <1>3, <2>1 DEF Verified, Pending
  <1> QED BY <1>2, <1>3 DEF Pending

\* It becomes pending through a build whose tag is stamped no later than a result that
\* was there.
LEMMA PendingByAnEarlierTag ==
  ASSUME IInv, IInv', Grown, NEW c, NEW n \in Names, ~Pending(c, n), Pending(c, n)'
  PROVE  \E b \in Builds, r \in results :
            r.content = c /\ tagAt[<<b, n>>] = 0 /\ tagAt'[<<b, n>>] \in 1 .. r.at
  <1>1. /\ Marked("tag", n) \subseteq Marked("tag", n)'
        /\ MarkedOtherwise("tag", n) \subseteq MarkedOtherwise("tag", n)'
        /\ results \subseteq results'
    BY MarkedGrows DEF Grown
  <1>2. /\ FirstUse("tag", n) \in Nat /\ FirstUse("tag", n)' \in Nat
        /\ FirstUse("tag", n)' \in UseTimes("tag", n)'
    BY FirstUseMovesBack
  <1>3. ~Verified(c, Marked("tag", n), Passed, results)
    BY <1>1 DEF Verified, Pending
  <1>4. PICK r \in results : /\ r.content = c /\ r.build \in MarkedOtherwise("tag", n)
                             /\ r.outcome \in Passed /\ r.at < FirstUse("tag", n)
    BY <1>3 DEF Pending, Verified, CreatedBefore
  <1>5. r.at \in Nat /\ r.at <= now /\ now \in Nat /\ now' \in Nat /\ r.at < Never
    BY PactsForVerificationAssumption DEF IInv, ConsumersOK, BuildsOK, Never
  <1>6. ~(r.at < FirstUse("tag", n)')
    <2>1. SUFFICES ASSUME r.at < FirstUse("tag", n)' PROVE FALSE
      OBVIOUS
    <2>2. r \in CreatedBefore(FirstUse("tag", n))'
      BY <1>1, <2>1 DEF CreatedBefore
    <2> QED BY <1>1, <1>4, <2>2 DEF Pending, Verified
  <1>7. FirstUse("tag", n)' # Never /\ FirstUse("tag", n)' <= r.at
    BY <1>2, <1>5, <1>6, PactsForVerificationAssumption DEF Never
  <1>8. PICK b \in Builds : tagAt'[<<b, n>>] # 0 /\ tagAt'[<<b, n>>] = FirstUse("tag", n)'
    BY <1>2, <1>7 DEF UseTimes, Marked
  <1>9. tagAt[<<b, n>>] = 0
    <2>1. SUFFICES ASSUME tagAt[<<b, n>>] # 0 PROVE FALSE
      OBVIOUS
    <2>2. tagAt[<<b, n>>] \in UseTimes("tag", n) /\ tagAt'[<<b, n>>] = tagAt[<<b, n>>]
      BY <2>1 DEF UseTimes, Marked, Grown
    <2>3. FirstUse("tag", n) <= tagAt[<<b, n>>]
      BY <2>2, FirstUseIsLeast
    <2> QED BY <1>2, <1>4, <1>5, <1>7, <1>8, <2>2, <2>3
  <1>10. tagAt'[<<b, n>>] \in 1 .. r.at
    BY <1>2, <1>5, <1>7, <1>8
  <1> QED BY <1>4, <1>9, <1>10

-----------------------------------------------------------------------------
(* What is known while the list is made *)

\* The steps that come before any work in progress is looked for.
Early == {"idle", "pending", "pending_first", "pending_other"}

\* What was there when the list was asked for, and how far it has got: first the pacts of
\* the selector, then the heads of the build's own kind, then those of the other.
AskedOK ==
    /\ question \in Questions /\ scope \in Kinds
    /\ asked.builds \subseteq Marked(question.by, question.name)
    /\ asked.first \in Nat /\ FirstUse(question.by, question.name) <= asked.first
    /\ pc \in Early => scope = question.by /\ wip = {}
    /\ pc \in {"wip", "answered"} => scope # question.by
    /\ pc \notin Early => todo = {}
    /\ pc = "idle" => selected = {}
    /\ pc \in {"pending_first", "pending_other"} => question.by = "tag"

\* What may be told of a content that is not pending, and of one that is.
MayBreak(c) == ~Pending(c, question.name) \/ FirstUse("tag", question.name) # asked.first
UnverifiedThen(c) == ~Verified(c, asked.builds, Passed, asked.results)

\* What is done with the contents that are checked.
CheckedOK ==
    /\ \A c \in pending : UnverifiedThen(c)
    /\ \A c \in selected \ (todo \cup pending) :
         \/ pc \in {"pending_first", "pending_other"} /\ c = current
         \/ MayBreak(c)

\* What is known of the one that is being checked.
CurrentOK ==
    /\ pc \in {"pending_first", "pending_other"} =>
         IF own THEN Verified(current, Marked("tag", question.name), Passed, results)
         ELSE UnverifiedThen(current)
    /\ pc = "pending_other" =>
         first \in Nat /\ FirstUse("tag", question.name) <= first /\ first <= asked.first

\* A content that is checked is remembered as verified, or was not when asked for.
PendingOK == question.by = "tag" => CheckedOK /\ CurrentOK

\* A potential pact that is a head throughout is subtracted if there is a reason.
UnverifiedWhenAsked(v) == ~Verified(content[v], asked.builds, {"passed"}, asked.results)
WipOK ==
    /\ pc \in {"wip_own", "wip_other"} =>
         \A v \in potential : StillHead(scope, v) => content[v] \notin selected
    /\ pc = "wip_other" =>
         \A v \in potential : StillHead(scope, v) => UnverifiedWhenAsked(v)
    /\ \A x \in wip : StillHead(x[1], x[2]) =>
         content[x[2]] \notin selected /\ UnverifiedWhenAsked(x[2])

\* A reason not to list a version, and the kinds of heads that have been dealt with.
Accounted(v) ==
    \/ content[v] \in selected
    \/ Verified(content[v], Marked(question.by, question.name), {"passed"}, results)
    \/ Verified(content[v], MarkedOtherwise(question.by, question.name), {"passed"},
                ExecutedBefore(asked.first))
Finished(kind) == pc = "answered" \/ (scope # kind /\ kind = question.by)

\* And only then.
HeadsOK ==
    /\ pc \in {"wip_potential", "wip_specified", "wip_own", "wip_other"} =>
         first \in Nat /\ first <= asked.first
    /\ pc \in {"wip_specified", "wip_own", "wip_other"} =>
         \A v \in Versions : StillHead(scope, v) => v \in potential \/ Accounted(v)
    /\ \A kind \in Kinds : Finished(kind) =>
         \A v \in Versions : StillHead(kind, v) => <<kind, v>> \in wip \/ Accounted(v)

LInv == AskedOK /\ PendingOK /\ WipOK /\ HeadsOK

-----------------------------------------------------------------------------
(* What is known stays so *)

\* A step after the list was asked for.
Meanwhile == Grown /\ UNCHANGED <<asked, question>>

\* A version that is still a head was one before.
LEMMA StillHeadBefore ==
  ASSUME IInv, Meanwhile, NEW kind, NEW v, StillHead(kind, v)'
  PROVE  StillHead(kind, v) /\ v \in Published /\ content'[v] = content[v]
  <1>1. PICK l \in Labels :
           /\ l[1] = kind /\ <<v, l>> \in asked.labelled
           /\ v \in Latest(l, {w \in Published : publishedAt[w] > question.since})'
    BY DEF StillHead, Meanwhile
  <1>2. /\ publishedAt'[v] > question.since
        /\ \A w \in Published' : publishedAt'[w] > question.since /\ <<w, l>> \in labelled' => w <= v
    BY <1>1 DEF Latest, Meanwhile
  <1>3. v \in Published /\ <<v, l>> \in labelled
    BY <1>1 DEF IInv, HistoryOK, ConsumersOK
  <1>4. \A w \in Published : /\ content'[w] = content[w] /\ publishedAt'[w] = publishedAt[w]
                             /\ w \in Published'
    BY DEF Meanwhile, Grown, Published
  <1>5. labelled \subseteq labelled'
    BY DEF Meanwhile, Grown
  <1>6. v \in Latest(l, {w \in Published : publishedAt[w] > question.since})
    BY <1>1, <1>2, <1>3, <1>4, <1>5 DEF Latest
  <1> QED BY <1>1, <1>3, <1>4, <1>6 DEF StillHead

LEMMA QuestionIsNamed ==
  ASSUME AskedOK
  PROVE  question.name \in Names /\ question.by \in Kinds
  BY PactsForVerificationAssumption DEF AskedOK

\* What the queries take for the first use is no later than what it was when the list was
\* asked for.
LEMMA FirstUseStaysEarly ==
  ASSUME IInv, IInv', AskedOK, Meanwhile
  PROVE  /\ FirstUse(question.by, question.name)' <= FirstUse(question.by, question.name)
         /\ FirstUse(question.by, question.name)' \in Nat
         /\ FirstUse(question.by, question.name) \in Nat
         /\ FirstUse(question.by, question.name)' <= asked'.first
         /\ asked.builds \subseteq Marked(question.by, question.name)'
  <1>1. PICK kind \in Kinds, n \in Names : kind = question.by /\ n = question.name
    BY QuestionIsNamed
  <1>2. kind = question'.by /\ n = question'.name /\ asked' = asked
    BY <1>1 DEF Meanwhile
  <1>3. /\ FirstUse(kind, n) \in Nat /\ FirstUse(kind, n)' \in Nat
        /\ FirstUse(kind, n)' <= FirstUse(kind, n)
    BY FirstUseMovesBack DEF Meanwhile
  <1>4. FirstUse(question.by, question.name)' = FirstUse(kind, n)'
    BY <1>2 DEF FirstUse, Marked
  <1>5. FirstUse(kind, n) <= asked.first /\ asked.first \in Nat /\ asked.builds \subseteq Marked(kind, n)
    BY <1>1 DEF AskedOK
  <1>6. Marked(kind, n) \subseteq Marked(kind, n)'
    BY MarkedGrows DEF Meanwhile
  <1>7. Marked(question.by, question.name)' = Marked(kind, n)'
    BY <1>2 DEF Marked
  <1> QED BY <1>1, <1>2, <1>3, <1>4, <1>5, <1>6, <1>7

\* So a content that may break the build may always do so.
LEMMA MayBreakStays ==
  ASSUME IInv, IInv', AskedOK, Meanwhile, question.by = "tag", NEW c, MayBreak(c)
  PROVE  MayBreak(c)'
  <1>1. PICK n \in Names : n = question.name /\ n = question'.name
    BY QuestionIsNamed DEF Meanwhile
  <1>2. asked' = asked /\ asked.first \in Nat /\ FirstUse("tag", n) <= asked.first
    BY <1>1 DEF Meanwhile, AskedOK
  <1>3. /\ FirstUse("tag", n) \in Nat /\ FirstUse("tag", n)' \in Nat
        /\ FirstUse("tag", n)' <= FirstUse("tag", n)
    BY FirstUseMovesBack DEF Meanwhile
  <1>4. FirstUse("tag", question.name)' = FirstUse("tag", n)'
    BY <1>1 DEF FirstUse, Marked
  <1>5. CASE FirstUse("tag", n)' = FirstUse("tag", n) /\ FirstUse("tag", n) = asked.first
    <2>1. ~Pending(c, n)'
      BY <1>1, <1>5, NotPendingStays DEF MayBreak, Meanwhile
    <2>2. ~Pending(c, question.name)'
      BY <1>1, <2>1 DEF Pending, Verified, Marked, MarkedOtherwise, FirstUse, CreatedBefore
    <2> QED BY <2>2 DEF MayBreak
  <1>6. CASE FirstUse("tag", n)' # asked.first
    BY <1>2, <1>4, <1>6 DEF MayBreak
  <1> QED BY <1>2, <1>3, <1>5, <1>6

\* A reason not to list a version remains one.
LEMMA AccountedStays ==
  ASSUME IInv, AskedOK, Meanwhile, UNCHANGED selected, NEW v \in Published, Accounted(v)
  PROVE  Accounted(v)'
  <1>1. /\ content'[v] = content[v] /\ results \subseteq results'
        /\ ExecutedBefore(asked.first) \subseteq ExecutedBefore(asked.first)'
        /\ question' = question
    BY DEF Meanwhile, Grown, ExecutedBefore
  <1>2. PICK kind \in Kinds, n \in Names : kind = question.by /\ n = question.name
    BY QuestionIsNamed
  <1>3. /\ Marked(kind, n) \subseteq Marked(kind, n)'
        /\ MarkedOtherwise(kind, n) \subseteq MarkedOtherwise(kind, n)'
    BY MarkedGrows DEF Meanwhile
  <1>4. /\ Marked(question.by, question.name)' = Marked(kind, n)'
        /\ MarkedOtherwise(question.by, question.name)' = MarkedOtherwise(kind, n)'
    BY <1>1, <1>2 DEF Marked, MarkedOtherwise
  <1> QED BY <1>1, <1>2, <1>3, <1>4 DEF Accounted, Verified

LEMMA StillHeadIsHead ==
  ASSUME NEW kind, NEW v, StillHead(kind, v)
  PROVE  v \in Heads(kind, question.since)
  <1>1. PICK l \in Labels :
           /\ l[1] = kind
           /\ v \in Latest(l, {w \in Published : publishedAt[w] > question.since})
    BY DEF StillHead
  <1> QED BY <1>1 DEF Heads

LEMMA HeadOfScopeBefore ==
  ASSUME IInv, AskedOK, Meanwhile, UNCHANGED scope, NEW v, StillHead(scope, v)'
  PROVE  /\ StillHead(scope, v) /\ v \in Heads(scope, question.since)
         /\ v \in Published /\ content'[v] = content[v]
  <1>1. PICK kind \in Kinds : kind = scope /\ kind = scope'
    BY DEF AskedOK
  <1>2. StillHead(kind, v)'
    BY <1>1 DEF StillHead
  <1>3. StillHead(kind, v) /\ v \in Published /\ content'[v] = content[v]
    BY <1>2, StillHeadBefore
  <1> QED BY <1>1, <1>3, StillHeadIsHead

\* Before any work in progress is looked for there is none.
LEMMA EarlyIsOK ==
  ASSUME AskedOK, pc \in Early
  PROVE  WipOK /\ HeadsOK
  <1>1. /\ pc \notin {"wip_own", "wip_other", "wip_potential", "wip_specified", "answered"}
        /\ wip = {} /\ scope = question.by
    BY DEF AskedOK, Early
  <1>2. \A kind : ~Finished(kind)
    BY <1>1 DEF Finished
  <1> QED BY <1>1, <1>2 DEF WipOK, HeadsOK

LEMMA LInvInit == Init => LInv
  <1> SUFFICES ASSUME Init PROVE LInv
    OBVIOUS
  <1>1. AskedOK
    <2>1. /\ question \in Questions /\ scope = question.by
          /\ asked = [results |-> {}, builds |-> {}, first |-> Never, labelled |-> {}]
          /\ pc = "idle" /\ wip = {} /\ selected = {}
      BY DEF Init
    <2>2. PICK kind \in Kinds, n \in Names : kind = question.by /\ n = question.name
      BY <2>1, PactsForVerificationAssumption
    <2>3. FirstUse(kind, n) <= Never /\ Never \in Nat
      <3>1. Never \in UseTimes(kind, n)
        BY DEF UseTimes
      <3> QED BY <3>1, IInvInit, FirstUseIsLeast, PactsForVerificationAssumption DEF Never
    <2> QED BY <2>1, <2>2, <2>3 DEF AskedOK, Early
  <1>2. PendingOK
    BY DEF Init, PendingOK, CheckedOK, CurrentOK
  <1>3. WipOK /\ HeadsOK
    BY <1>1, EarlyIsOK DEF Init, Early
  <1> QED BY <1>1, <1>2, <1>3 DEF LInv

LEMMA AskedStays ==
  ASSUME IInv, IInv', AskedOK, Meanwhile, UNCHANGED <<pc, scope, wip, todo, selected>>
  PROVE  AskedOK'
  BY FirstUseStaysEarly DEF AskedOK, Meanwhile

LEMMA CurrentStays ==
  ASSUME IInv, IInv', AskedOK, Meanwhile, question.by = "tag", CurrentOK,
         UNCHANGED <<pc, current, own, first>>
  PROVE  CurrentOK'
  <1>1. question' = question /\ asked' = asked /\ results \subseteq results'
    BY DEF Meanwhile, Grown
  <1>2. PICK n \in Names : n = question.name /\ n = question'.name
    BY <1>1, QuestionIsNamed
  <1>3. Marked("tag", n) \subseteq Marked("tag", n)'
    BY MarkedGrows DEF Meanwhile
  <1>4. Marked("tag", question.name)' = Marked("tag", n)'
    BY <1>2 DEF Marked
  <1>5. ASSUME pc \in {"pending_first", "pending_other"}, own
        PROVE  Verified(current, Marked("tag", question.name), Passed, results)'
    BY <1>1, <1>2, <1>3, <1>4, <1>5 DEF CurrentOK, Verified
  <1>6. ASSUME pc \in {"pending_first", "pending_other"}, ~own
        PROVE  UnverifiedThen(current)'
    BY <1>1, <1>6 DEF CurrentOK, UnverifiedThen, Verified
  <1>7. ASSUME pc = "pending_other"
        PROVE  first \in Nat /\ FirstUse("tag", question.name)' <= first /\ first <= asked.first
    <2>1. first \in Nat /\ FirstUse("tag", question.name) <= first /\ first <= asked.first
      BY <1>7 DEF CurrentOK
    <2>2. /\ FirstUse("tag", n)' <= FirstUse("tag", n)
          /\ FirstUse("tag", n)' \in Nat /\ FirstUse("tag", n) \in Nat
      BY FirstUseMovesBack DEF Meanwhile
    <2>3. FirstUse("tag", question.name)' = FirstUse("tag", n)'
      BY <1>2 DEF FirstUse, Marked
    <2> QED BY <1>2, <2>1, <2>2, <2>3
  <1> QED BY <1>1, <1>5, <1>6, <1>7 DEF CurrentOK

LEMMA UnverifiedThenStays ==
  ASSUME Meanwhile, NEW c, UnverifiedThen(c)
  PROVE  UnverifiedThen(c)'
  BY DEF Meanwhile, UnverifiedThen, Verified

LEMMA UnverifiedWhenAskedStays ==
  ASSUME Meanwhile, NEW v, content'[v] = content[v], UnverifiedWhenAsked(v)
  PROVE  UnverifiedWhenAsked(v)'
  BY DEF Meanwhile, UnverifiedWhenAsked, Verified

LEMMA CheckedStays ==
  ASSUME IInv, IInv', AskedOK, Meanwhile, question.by = "tag", CheckedOK,
         UNCHANGED <<selected, todo, pending>>,
         \/ UNCHANGED <<pc, current>>
         \/ pc \notin {"pending_first", "pending_other"}
  PROVE  CheckedOK'
  <1>1. ASSUME NEW c \in pending PROVE UnverifiedThen(c)'
    BY <1>1, UnverifiedThenStays DEF CheckedOK
  <1>2. ASSUME NEW c \in selected \ (todo \cup pending), MayBreak(c) PROVE MayBreak(c)'
    BY <1>2, MayBreakStays
  <1> QED BY <1>1, <1>2 DEF CheckedOK

LEMMA PendingStays ==
  ASSUME IInv, IInv', AskedOK, Meanwhile, PendingOK, UNCHANGED <<selected, todo, pending>>,
         \/ UNCHANGED <<pc, current, own, first>>
         \/ {pc, pc'} \cap {"pending_first", "pending_other"} = {}
  PROVE  PendingOK'
  <1> SUFFICES ASSUME question'.by = "tag" PROVE CheckedOK' /\ CurrentOK'
    BY DEF PendingOK
  <1>1. question.by = "tag" /\ CheckedOK /\ CurrentOK
    BY DEF PendingOK, Meanwhile
  <1>2. CheckedOK'
    BY <1>1, CheckedStays
  <1>3. CASE UNCHANGED <<pc, current, own, first>>
    BY <1>1, <1>2, <1>3, CurrentStays
  <1>4. CASE {pc, pc'} \cap {"pending_first", "pending_other"} = {}
    <2>1. pc' \notin {"pending_first", "pending_other"}
      BY <1>4
    <2> QED BY <1>2, <2>1 DEF CurrentOK
  <1> QED BY <1>3, <1>4

\* What has been listed as work in progress.
LEMMA WipStays ==
  ASSUME IInv, AskedOK, Meanwhile, WipOK, UNCHANGED selected,
         NEW x \in wip, StillHead(x[1], x[2])'
  PROVE  content'[x[2]] \notin selected' /\ UnverifiedWhenAsked(x[2])'
  <1>1. StillHead(x[1], x[2]) /\ content'[x[2]] = content[x[2]]
    BY StillHeadBefore
  <1> QED BY <1>1, UnverifiedWhenAskedStays DEF WipOK

\* And those that were dealt with.
LEMMA FinishedStays ==
  ASSUME IInv, AskedOK, Meanwhile, HeadsOK, UNCHANGED selected, wip \subseteq wip',
         NEW kind \in Kinds, Finished(kind), NEW v \in Versions, StillHead(kind, v)'
  PROVE  <<kind, v>> \in wip' \/ Accounted(v)'
  <1>1. StillHead(kind, v) /\ v \in Published
    BY StillHeadBefore
  <1>2. <<kind, v>> \in wip \/ Accounted(v)
    BY <1>1 DEF HeadsOK
  <1> QED BY <1>1, <1>2, AccountedStays

LEMMA ChangeKeepsLInv ==
  ASSUME IInv, IInv', Grown, LInv, UNCHANGED <<pc, list>>
  PROVE  LInv'
  <1>1. Meanwhile /\ AskedOK /\ PendingOK /\ WipOK /\ HeadsOK
    BY DEF Meanwhile, list, LInv
  <1>2. UNCHANGED <<pc, selected, todo, current, own, pending, scope, first, potential, wip>>
    BY DEF list
  <1>3. AskedOK' /\ PendingOK'
    BY <1>1, <1>2, AskedStays, PendingStays
  <1>4. WipOK'
    <2>1. ASSUME NEW v \in potential, StillHead(scope, v)'
          PROVE  /\ pc \in {"wip_own", "wip_other"} => content'[v] \notin selected'
                 /\ pc = "wip_other" => UnverifiedWhenAsked(v)'
      <3>1. StillHead(scope, v) /\ content'[v] = content[v]
        BY <1>1, <1>2, <2>1, HeadOfScopeBefore
      <3> QED BY <1>1, <1>2, <3>1, UnverifiedWhenAskedStays DEF WipOK
    <2>2. \A x \in wip : StillHead(x[1], x[2])' =>
              content'[x[2]] \notin selected' /\ UnverifiedWhenAsked(x[2])'
      BY <1>1, <1>2, WipStays
    <2> QED BY <1>2, <2>1, <2>2 DEF WipOK
  <1>5. HeadsOK'
    <2>1. asked' = asked
      BY <1>1 DEF Meanwhile
    <2>2. ASSUME pc \in {"wip_specified", "wip_own", "wip_other"},
                 NEW v \in Versions, StillHead(scope, v)'
          PROVE  v \in potential \/ Accounted(v)'
      <3>1. StillHead(scope, v) /\ v \in Published
        BY <1>1, <1>2, <2>2, HeadOfScopeBefore
      <3>2. v \in potential \/ Accounted(v)
        BY <1>1, <2>2, <3>1 DEF HeadsOK
      <3> QED BY <1>1, <1>2, <3>1, <3>2, AccountedStays
    <2>3. ASSUME NEW kind \in Kinds, Finished(kind)', NEW v \in Versions, StillHead(kind, v)'
          PROVE  <<kind, v>> \in wip' \/ Accounted(v)'
      <3>1. Finished(kind)
        BY <1>1, <1>2, <2>3 DEF Finished, Meanwhile
      <3> QED BY <1>1, <1>2, <2>3, <3>1, FinishedStays
    <2>4. pc' \in {"wip_potential", "wip_specified", "wip_own", "wip_other"} =>
              first' \in Nat /\ first' <= asked'.first
      BY <1>1, <1>2, <2>1 DEF HeadsOK
    <2>5. pc' \in {"wip_specified", "wip_own", "wip_other"} =>
              \A v \in Versions : StillHead(scope, v)' => v \in potential' \/ Accounted(v)'
      BY <1>2, <2>2
    <2> QED BY <2>3, <2>4, <2>5 DEF HeadsOK
  <1> QED BY <1>3, <1>4, <1>5 DEF LInv

-----------------------------------------------------------------------------
(* The queries keep the invariant *)

\* A query changes no table.
LEMMA QueryIsMeanwhile ==
  ASSUME UNCHANGED <<consumers, providers, question, asked>>
  PROVE  Meanwhile
  BY DEF Meanwhile, Grown, consumers, providers

\* The steps before the work in progress is looked for.
LEMMA EarlyKeepsLInv ==
  ASSUME LInv, UNCHANGED <<providers, question, scope, wip, selected, asked>>, pc \in Early, pc' \in Early \ {"idle"},
         pc' \in {"pending_first", "pending_other"} => question.by = "tag",
         PendingOK'
  PROVE  LInv'
  <1>1. AskedOK'
    BY DEF LInv, AskedOK, Early, FirstUse, Marked, providers
  <1>2. WipOK' /\ HeadsOK'
    <2>1. /\ pc' \notin {"wip_own", "wip_other", "wip_potential", "wip_specified", "answered"}
          /\ wip' = {} /\ scope' = question'.by
      BY <1>1 DEF AskedOK, Early
    <2>2. \A kind : ~Finished(kind)'
      BY <2>1 DEF Finished
    <2> QED BY <2>1, <2>2 DEF WipOK, HeadsOK
  <1> QED BY <1>1, <1>2 DEF LInv

LEMMA FindSelectedKeepsLInv ==
  ASSUME IInv, LInv, FindSelected
  PROVE  LInv'
  <1>1. /\ UNCHANGED <<consumers, providers, question, scope, wip, pending>>
        /\ pc = "idle" /\ pc' = "pending" /\ todo' = selected'
        /\ asked'.builds = Marked(question.by, question.name)
        /\ asked'.first = FirstUse(question.by, question.name)
    BY DEF FindSelected, Go
  <1>2. pending' = {}
    BY <1>1 DEF IInv, ListOK
  <1>3. PendingOK'
    BY <1>1, <1>2 DEF PendingOK, CheckedOK, CurrentOK
  <1>4. AskedOK'
    <2>1. PICK kind \in Kinds, n \in Names : kind = question.by /\ n = question.name
      BY QuestionIsNamed DEF LInv
    <2>2. FirstUse(kind, n) \in Nat
      BY FirstUseIsLeast
    <2>3. /\ Marked(question.by, question.name)' = Marked(kind, n)
          /\ FirstUse(question.by, question.name)' = FirstUse(kind, n)
      BY <1>1, <2>1 DEF FirstUse, Marked, providers
    <2> QED BY <1>1, <2>1, <2>2, <2>3 DEF LInv, AskedOK, Early
  <1>5. WipOK' /\ HeadsOK'
    <2>1. wip' = {} /\ scope' = question'.by
      BY <1>1, <1>4 DEF AskedOK, Early
    <2>2. \A kind : ~Finished(kind)'
      BY <1>1, <2>1 DEF Finished
    <2> QED BY <1>1, <2>1, <2>2 DEF WipOK, HeadsOK
  <1> QED BY <1>3, <1>4, <1>5 DEF LInv

LEMMA CheckAnyKeepsLInv ==
  ASSUME IInv, LInv, NEW c \in Contents, CheckAny(c)
  PROVE  LInv'
  <1>1. /\ UNCHANGED <<now, consumers, providers, question, asked, scope, wip, selected>>
        /\ pc = "pending" /\ pc' = "pending" /\ question.by = "branch"
    BY DEF CheckAny, Go
  <1>2. PendingOK'
    BY <1>1 DEF PendingOK
  <1> QED BY <1>1, <1>2, EarlyKeepsLInv DEF Early, providers

\* What had been verified by the tag then has been verified by it now.
LEMMA NotByTagThen ==
  ASSUME IInv, AskedOK, question.by = "tag", NEW c,
         ~Verified(c, Marked("tag", question.name), Passed, results)
  PROVE  UnverifiedThen(c)
  BY DEF UnverifiedThen, Verified, AskedOK, IInv, HistoryOK

LEMMA CheckOwnTagKeepsLInv ==
  ASSUME IInv, IInv', LInv, NEW c \in Contents, CheckOwnTag(c)
  PROVE  LInv'
  <1>1. /\ UNCHANGED <<now, consumers, providers, question, asked, scope, wip, selected, pending>>
        /\ pc = "pending" /\ pc' = "pending_first" /\ question.by = "tag"
        /\ todo' = todo \ {c} /\ current' = c
        /\ own' = Verified(c, Marked("tag", question.name), Passed, results)
    BY DEF CheckOwnTag, Go
  <1>2. Meanwhile /\ AskedOK /\ CheckedOK
    BY <1>1, QueryIsMeanwhile DEF LInv, PendingOK
  <1>3. CheckedOK'
    <2>1. ASSUME NEW d \in pending PROVE UnverifiedThen(d)'
      BY <1>2, <2>1, UnverifiedThenStays DEF CheckedOK
    <2>2. ASSUME NEW d \in selected \ (todo \cup pending) PROVE MayBreak(d)'
      BY <1>1, <1>2, <2>2, MayBreakStays DEF CheckedOK, IInv, ListOK
    <2> QED BY <1>1, <2>1, <2>2 DEF CheckedOK
  <1>4. CurrentOK'
    <2>1. ASSUME own' PROVE Verified(current, Marked("tag", question.name), Passed, results)'
      BY <1>1, <2>1 DEF Verified, Marked, providers
    <2>2. ASSUME ~own' PROVE UnverifiedThen(current)'
      <3>1. UnverifiedThen(c)
        BY <1>1, <1>2, <2>2, NotByTagThen
      <3> QED BY <1>1, <3>1 DEF UnverifiedThen, Verified, providers
    <2> QED BY <1>1, <2>1, <2>2 DEF CurrentOK
  <1>5. PendingOK'
    BY <1>3, <1>4 DEF PendingOK
  <1> QED BY <1>1, <1>5, EarlyKeepsLInv DEF Early, providers

LEMMA FindFirstTagKeepsLInv ==
  ASSUME IInv, IInv', LInv, FindFirstTag
  PROVE  LInv'
  <1>1. /\ UNCHANGED <<now, consumers, providers, question, asked, scope, wip, selected, pending,
                       todo, current, own>>
        /\ pc = "pending_first" /\ pc' = "pending_other"
        /\ first' = FirstUse("tag", question.name)
    BY DEF FindFirstTag, Go
  <1>2. question.by = "tag" /\ Meanwhile /\ AskedOK
    BY <1>1, QueryIsMeanwhile DEF LInv, AskedOK
  <1>3. CheckedOK /\ CurrentOK
    BY <1>2 DEF LInv, PendingOK
  <1>4. CheckedOK'
    <2>1. ASSUME NEW d \in pending PROVE UnverifiedThen(d)'
      BY <1>2, <1>3, <2>1, UnverifiedThenStays DEF CheckedOK
    <2>2. ASSUME NEW d \in selected \ (todo \cup pending), d # current PROVE MayBreak(d)'
      BY <1>1, <1>2, <1>3, <2>2, MayBreakStays DEF CheckedOK, IInv, ListOK
    <2> QED BY <1>1, <2>1, <2>2 DEF CheckedOK
  <1>5. CurrentOK'
    <2>1. /\ first' \in Nat /\ FirstUse("tag", question.name)' <= first'
          /\ first' <= asked'.first
      <3>1. first' = FirstUse("tag", question.name)'
        BY <1>1 DEF FirstUse, Marked, providers
      <3>2. first' \in Nat
        BY <1>1, <1>2, QuestionIsNamed, FirstUseIsLeast
      <3> QED BY <1>1, <1>2, <3>1, <3>2 DEF AskedOK
    <2>2. IF own THEN Verified(current, Marked("tag", question.name), Passed, results)
          ELSE UnverifiedThen(current)
      BY <1>1, <1>3 DEF CurrentOK
    <2>3. IF own' THEN Verified(current, Marked("tag", question.name), Passed, results)'
          ELSE UnverifiedThen(current)'
      BY <1>1, <2>2 DEF Verified, UnverifiedThen, Marked, providers
    <2> QED BY <1>1, <2>1, <2>3 DEF CurrentOK
  <1>6. PendingOK'
    BY <1>4, <1>5 DEF PendingOK
  <1> QED BY <1>1, <1>2, <1>6, EarlyKeepsLInv DEF Early, providers

LEMMA CheckOtherTagsKeepsLInv ==
  ASSUME IInv, IInv', LInv, CheckOtherTags
  PROVE  LInv'
  <1> DEFINE other == Verified(current, MarkedOtherwise("tag", question.name), Passed,
                              CreatedBefore(first))
  <1>1. /\ UNCHANGED <<now, consumers, providers, question, asked, scope, wip, selected, todo>>
        /\ pc = "pending_other" /\ pc' = "pending"
        /\ pending' = IF own \/ other THEN pending ELSE pending \cup {current}
    BY DEF CheckOtherTags, Go
  <1>2. question.by = "tag" /\ Meanwhile /\ AskedOK
    BY <1>1, QueryIsMeanwhile DEF LInv, AskedOK
  <1>3. CheckedOK /\ CurrentOK
    BY <1>2 DEF LInv, PendingOK
  <1>4. ASSUME NEW d \in pending' PROVE UnverifiedThen(d)'
    <2>1. UnverifiedThen(d)
      BY <1>1, <1>3, <1>4 DEF CheckedOK, CurrentOK
    <2> QED BY <1>2, <2>1, UnverifiedThenStays
  <1>5. ASSUME own \/ other PROVE MayBreak(current)
    <2>1. CASE own
      BY <1>1, <1>3, <2>1 DEF CurrentOK, MayBreak, Pending
    <2>2. CASE other /\ FirstUse("tag", question.name) = asked.first
      <3>1. first = FirstUse("tag", question.name)
        BY <1>1, <1>2, <1>3, <2>2 DEF CurrentOK, AskedOK
      <3> QED BY <2>2, <3>1 DEF MayBreak, Pending
    <2>3. CASE FirstUse("tag", question.name) # asked.first
      BY <2>3 DEF MayBreak
    <2> QED BY <1>5, <2>1, <2>2, <2>3
  <1>6. ASSUME NEW d \in selected \ (todo \cup pending') PROVE MayBreak(d)'
    <2>1. d \in selected \ (todo \cup pending) /\ d \in Contents
      BY <1>1, <1>6 DEF IInv, ListOK
    <2>2. CASE d = current
      <3>1. own \/ other
        BY <1>1, <1>6, <2>1, <2>2
      <3>2. MayBreak(d)
        BY <1>5, <2>2, <3>1
      <3> QED BY <1>2, <2>1, <3>2, MayBreakStays
    <2>3. CASE d # current
      BY <1>2, <1>3, <2>1, <2>3, MayBreakStays DEF CheckedOK
    <2> QED BY <2>2, <2>3
  <1>7. CheckedOK' /\ CurrentOK'
    BY <1>1, <1>4, <1>6 DEF CheckedOK, CurrentOK
  <1>8. PendingOK'
    BY <1>7 DEF PendingOK
  <1> QED BY <1>1, <1>8, EarlyKeepsLInv DEF Early, providers

\* The steps of the work in progress: what the pending ones have found stays known, and so
\* does what has been listed.
LEMMA WipStepKeeps ==
  ASSUME IInv, IInv', LInv,
         UNCHANGED <<now, consumers, providers, question, asked, selected, todo, current, own,
                     pending>>,
         pc \notin {"pending_first", "pending_other"}, pc' \notin {"pending_first", "pending_other"}
  PROVE  /\ Meanwhile /\ AskedOK /\ WipOK /\ HeadsOK /\ PendingOK'
         /\ \A x \in wip : StillHead(x[1], x[2])' =>
              content'[x[2]] \notin selected' /\ UnverifiedWhenAsked(x[2])'
  <1>1. Meanwhile /\ AskedOK /\ PendingOK /\ WipOK /\ HeadsOK
    BY QueryIsMeanwhile DEF LInv
  <1>2. {pc, pc'} \cap {"pending_first", "pending_other"} = {}
    OBVIOUS
  <1>3. PendingOK'
    BY <1>1, <1>2, PendingStays
  <1> QED BY <1>1, <1>3, WipStays

LEMMA FindFirstUseKeepsLInv ==
  ASSUME IInv, IInv', LInv, FindFirstUse
  PROVE  LInv'
  <1>1. /\ UNCHANGED <<now, consumers, providers, question, asked, selected, todo, current, own,
                       pending, scope, potential, wip>>
        /\ pc = "wip" \/ (pc = "pending" /\ todo = {})
        /\ pc' = "wip_potential" /\ first' = FirstUse(question.by, question.name)
    BY DEF FindFirstUse, Go
  <1>2. /\ Meanwhile /\ AskedOK /\ WipOK /\ HeadsOK /\ PendingOK'
        /\ \A x \in wip : StillHead(x[1], x[2])' =>
              content'[x[2]] \notin selected' /\ UnverifiedWhenAsked(x[2])'
    BY <1>1, WipStepKeeps
  <1>3. AskedOK'
    BY <1>1, <1>2 DEF AskedOK, Early, FirstUse, Marked, providers
  <1>4. WipOK'
    BY <1>1, <1>2 DEF WipOK
  <1>5. HeadsOK'
    <2>1. first' \in Nat /\ first' <= asked'.first
      BY <1>1, <1>2, QuestionIsNamed, FirstUseIsLeast DEF AskedOK
    <2>2. ASSUME NEW kind \in Kinds, Finished(kind)', NEW v \in Versions, StillHead(kind, v)'
          PROVE  <<kind, v>> \in wip' \/ Accounted(v)'
      <3>1. Finished(kind)
        BY <1>1, <2>2 DEF Finished
      <3> QED BY <1>1, <1>2, <2>2, <3>1, FinishedStays
    <2> QED BY <1>1, <2>1, <2>2 DEF HeadsOK
  <1> QED BY <1>2, <1>3, <1>4, <1>5 DEF LInv

\* The steps that look for heads and subtract some: the heads that are not potential work in
\* progress after such a step were not before it, or there is a reason not to list them.
LEMMA PotentialKeepsLInv ==
  ASSUME IInv, IInv', LInv,
         UNCHANGED <<now, consumers, providers, question, asked, selected, todo, current, own,
                     pending, scope, first, wip>>,
         pc \in {"wip_potential", "wip_specified", "wip_own"},
         pc' \in {"wip_specified", "wip_own", "wip_other"},
         \A v \in Published \cap Heads(scope, question.since) :
            StillHead(scope, v) => v \in potential' \/ Accounted(v),
         \A v \in potential' : v \in Published /\ StillHead(scope, v) =>
            /\ pc' \in {"wip_own", "wip_other"} => content[v] \notin selected
            /\ pc' = "wip_other" => UnverifiedWhenAsked(v)
  PROVE  LInv'
  <1>1. pc \notin Early /\ pc' \notin Early /\ pc \notin {"pending_first", "pending_other"}
        /\ pc' \notin {"pending_first", "pending_other"}
        /\ pc' \notin {"wip", "answered"} /\ pc # "answered"
    BY DEF Early
  <1>2. /\ Meanwhile /\ AskedOK /\ WipOK /\ HeadsOK /\ PendingOK'
        /\ \A x \in wip : StillHead(x[1], x[2])' =>
              content'[x[2]] \notin selected' /\ UnverifiedWhenAsked(x[2])'
    BY <1>1, WipStepKeeps
  <1>3. AskedOK'
    BY <1>1, <1>2 DEF AskedOK, Early, FirstUse, Marked, providers
  <1>4. WipOK'
    <2>1. ASSUME NEW v \in potential', StillHead(scope, v)'
          PROVE  /\ pc' \in {"wip_own", "wip_other"} => content'[v] \notin selected'
                 /\ pc' = "wip_other" => UnverifiedWhenAsked(v)'
      <3>1. StillHead(scope, v) /\ v \in Published /\ content'[v] = content[v]
        BY <1>2, <2>1, HeadOfScopeBefore
      <3> QED BY <1>2, <3>1, UnverifiedWhenAskedStays
    <2> QED BY <1>2, <2>1 DEF WipOK
  <1>5. HeadsOK'
    <2>1. first' \in Nat /\ first' <= asked'.first
      BY <1>2 DEF HeadsOK
    <2>2. ASSUME NEW v \in Versions, StillHead(scope, v)' PROVE v \in potential' \/ Accounted(v)'
      <3>1. StillHead(scope, v) /\ v \in Published \cap Heads(scope, question.since)
        BY <1>2, <2>2, HeadOfScopeBefore
      <3>2. v \in potential' \/ Accounted(v)
        BY <3>1
      <3> QED BY <1>2, <3>1, <3>2, AccountedStays
    <2>3. ASSUME NEW kind \in Kinds, Finished(kind)', NEW v \in Versions, StillHead(kind, v)'
          PROVE  <<kind, v>> \in wip' \/ Accounted(v)'
      <3>1. Finished(kind)
        BY <1>1, <2>3 DEF Finished
      <3> QED BY <1>2, <2>3, <3>1, FinishedStays
    <2> QED BY <2>1, <2>2, <2>3 DEF HeadsOK
  <1> QED BY <1>2, <1>3, <1>4, <1>5 DEF LInv

LEMMA FindPotentialKeepsLInv ==
  ASSUME IInv, IInv', LInv, FindPotential
  PROVE  LInv'
  <1>1. /\ UNCHANGED <<now, consumers, providers, question, asked, selected, todo, current, own,
                       pending, scope, first, wip>>
        /\ pc = "wip_potential" /\ pc' = "wip_specified"
        /\ potential' = Heads(scope, question.since)
    BY DEF FindPotential, Go
  <1> QED BY <1>1, PotentialKeepsLInv

LEMMA SubtractSpecifiedKeepsLInv ==
  ASSUME IInv, IInv', LInv, SubtractSpecified
  PROVE  LInv'
  <1>1. /\ UNCHANGED <<now, consumers, providers, question, asked, selected, todo, current, own,
                       pending, scope, first, wip>>
        /\ pc = "wip_specified" /\ pc' = "wip_own"
        /\ potential' = potential \ ({v \in Published : content[v] \in selected}
                                       \cap Heads(scope, question.since))
    BY DEF SubtractSpecified, Subtract, Go
  <1>2. ASSUME NEW v \in Published \cap Heads(scope, question.since), StillHead(scope, v)
        PROVE  v \in potential' \/ Accounted(v)
    <2>1. v \in potential \/ Accounted(v)
      BY <1>1, <1>2 DEF LInv, HeadsOK, Published
    <2> QED BY <1>1, <2>1 DEF Accounted
  <1>3. ASSUME NEW v \in potential', v \in Published, StillHead(scope, v)
        PROVE  content[v] \notin selected
    <2>1. v \in Heads(scope, question.since)
      BY <1>3, StillHeadIsHead
    <2> QED BY <1>1, <1>3, <2>1
  <1> QED BY <1>1, <1>2, <1>3, PotentialKeepsLInv

LEMMA SubtractOwnKeepsLInv ==
  ASSUME IInv, IInv', LInv, SubtractOwn
  PROVE  LInv'
  <1>1. /\ UNCHANGED <<now, consumers, providers, question, asked, selected, todo, current, own,
                       pending, scope, first, wip>>
        /\ pc = "wip_own" /\ pc' = "wip_other"
        /\ potential' = potential \ (VerifiedOwn \cap Heads(scope, question.since))
    BY DEF SubtractOwn, Subtract, Go
  <1>2. ASSUME NEW v \in Published \cap Heads(scope, question.since), StillHead(scope, v)
        PROVE  v \in potential' \/ Accounted(v)
    <2>1. v \in potential \/ Accounted(v)
      BY <1>1, <1>2 DEF LInv, HeadsOK, Published
    <2> QED BY <1>1, <2>1 DEF Accounted, VerifiedOwn
  <1>3. ASSUME NEW v \in potential', v \in Published, StillHead(scope, v)
        PROVE  content[v] \notin selected /\ UnverifiedWhenAsked(v)
    <2>1. v \in Heads(scope, question.since) /\ v \in potential
      BY <1>1, <1>3, StillHeadIsHead
    <2>2. content[v] \notin selected
      BY <1>1, <1>3, <2>1 DEF LInv, WipOK
    <2>3. ~Verified(content[v], Marked(question.by, question.name), {"passed"}, results)
      BY <1>1, <1>3, <2>1 DEF VerifiedOwn
    <2>4. asked.builds \subseteq Marked(question.by, question.name)
          /\ asked.results \subseteq results
      BY DEF LInv, AskedOK, IInv, HistoryOK
    <2> QED BY <2>2, <2>3, <2>4 DEF UnverifiedWhenAsked, Verified
  <1> QED BY <1>1, <1>2, <1>3, PotentialKeepsLInv

LEMMA SubtractOtherKeepsLInv ==
  ASSUME IInv, IInv', LInv, SubtractOther
  PROVE  LInv'
  <1> DEFINE left == potential \ (VerifiedOther \cap Heads(scope, question.since))
  <1>1. /\ UNCHANGED <<now, consumers, providers, question, asked, selected, todo, current, own,
                       pending>>
        /\ pc = "wip_other" /\ wip' = wip \cup {<<scope, v>> : v \in left}
        /\ IF scope = question.by THEN scope' = (CHOOSE k \in Kinds : k # scope) /\ pc' = "wip"
           ELSE scope' = scope /\ pc' = "answered"
    BY DEF SubtractOther, Go
  <1>2. /\ Meanwhile /\ AskedOK /\ WipOK /\ HeadsOK /\ PendingOK'
        /\ \A x \in wip : StillHead(x[1], x[2])' =>
              content'[x[2]] \notin selected' /\ UnverifiedWhenAsked(x[2])'
    BY <1>1, WipStepKeeps
  <1>3. PICK kind \in Kinds : kind = scope
    BY <1>2 DEF AskedOK
  <1>4. scope' \in Kinds /\ scope' # question.by /\ question.by \in Kinds
    <2>1. \E k \in Kinds : k # scope
      BY DEF Kinds
    <2>2. (CHOOSE k \in Kinds : k # scope) \in Kinds /\ (CHOOSE k \in Kinds : k # scope) # scope
      BY <2>1
    <2>3. question.by \in Kinds
      BY <1>2, PactsForVerificationAssumption DEF AskedOK
    <2> QED BY <1>1, <1>3, <2>2, <2>3
  <1>5. AskedOK'
    BY <1>1, <1>2, <1>4 DEF AskedOK, Early, FirstUse, Marked, providers
  <1>6. ASSUME NEW v, StillHead(kind, v)'
        PROVE  /\ StillHead(scope, v) /\ v \in Heads(scope, question.since)
               /\ v \in Published /\ content'[v] = content[v]
    BY <1>2, <1>3, <1>6, StillHeadBefore, StillHeadIsHead
  <1>7. WipOK'
    <2>1. ASSUME NEW x \in wip', StillHead(x[1], x[2])'
          PROVE  content'[x[2]] \notin selected' /\ UnverifiedWhenAsked(x[2])'
      <3>1. CASE x \in wip
        BY <1>2, <2>1, <3>1
      <3>2. CASE x \notin wip
        <4>1. PICK v \in potential : x = <<kind, v>> /\ x[1] = kind /\ x[2] = v
          BY <1>1, <1>3, <3>2
        <4>2. StillHead(kind, v)'
          BY <2>1, <4>1
        <4>3. StillHead(scope, v) /\ content'[v] = content[v]
          BY <1>6, <4>2
        <4>4. content[v] \notin selected /\ UnverifiedWhenAsked(v)
          BY <1>1, <1>2, <4>3 DEF WipOK
        <4>5. UnverifiedWhenAsked(v)'
          BY <1>2, <4>3, <4>4, UnverifiedWhenAskedStays
        <4> QED BY <1>1, <4>1, <4>3, <4>4, <4>5
      <3> QED BY <3>1, <3>2
    <2> QED BY <1>1, <2>1 DEF WipOK
  <1>8. ASSUME NEW v \in Versions, StillHead(kind, v)' PROVE <<kind, v>> \in wip' \/ Accounted(v)'
    <2>1. StillHead(scope, v) /\ v \in Heads(scope, question.since) /\ v \in Published
      BY <1>6, <1>8
    <2>2. v \in potential \/ Accounted(v)
      BY <1>1, <1>2, <2>1 DEF HeadsOK
    <2>3. CASE Accounted(v)
      BY <1>1, <1>2, <2>1, <2>3, AccountedStays
    <2>4. CASE v \in left
      BY <1>1, <1>3, <2>4
    <2>5. CASE v \in potential /\ v \notin left
      <3>1. Verified(content[v], MarkedOtherwise(question.by, question.name), {"passed"},
                     ExecutedBefore(first))
        BY <2>5 DEF VerifiedOther
      <3>2. first \in Nat /\ first <= asked.first
        BY <1>1, <1>2 DEF HeadsOK
      <3>3. asked.first \in Nat /\ \A r \in results : r.executed \in Nat
        BY <1>2 DEF AskedOK, IInv, BuildsOK, Times
      <3>4. ExecutedBefore(first) \subseteq ExecutedBefore(asked.first)
        BY <3>2, <3>3 DEF ExecutedBefore
      <3>5. Accounted(v)
        BY <3>1, <3>4 DEF Accounted, Verified
      <3> QED BY <1>1, <1>2, <2>1, <3>5, AccountedStays
    <2> HIDE DEF left
    <2> QED BY <2>2, <2>3, <2>4, <2>5
  <1>9. HeadsOK'
    <2>1. ASSUME NEW k \in Kinds, Finished(k)', NEW v \in Versions, StillHead(k, v)'
          PROVE  <<k, v>> \in wip' \/ Accounted(v)'
      <3>1. CASE k = kind
        BY <1>8, <2>1, <3>1
      <3>2. CASE k # kind
        <4>1. Finished(k)
          <5>1. CASE scope = question.by
            BY <1>1, <1>3, <2>1, <3>2, <5>1 DEF Finished
          <5>2. CASE scope # question.by
            BY <1>3, <1>4, <3>2, <5>2 DEF Finished, Kinds
          <5> QED BY <5>1, <5>2
        <4>2. wip \subseteq wip'
          BY <1>1
        <4> QED BY <1>1, <1>2, <2>1, <4>1, <4>2, FinishedStays
      <3> QED BY <3>1, <3>2
    <2> QED BY <1>1, <2>1 DEF HeadsOK
  <1> QED BY <1>2, <1>5, <1>7, <1>9 DEF LInv

LEMMA LInvNext == IInv /\ IInv' /\ LInv /\ [Next]_vars => LInv'
  <1> SUFFICES ASSUME IInv, IInv', LInv, [Next]_vars PROVE LInv'
    OBVIOUS
  <1>1. Grown
    BY NextGrows
  <1>2. ASSUME NEW v \in Versions, NEW c \in Contents, NEW l \in Labels, PublishPact(v, c, l)
        PROVE  LInv'
    BY <1>1, <1>2, ChangeKeepsLInv DEF PublishPact, Change
  <1>3. ASSUME NEW v \in Versions, NEW n \in Names, TagConsumerVersion(v, n) PROVE LInv'
    BY <1>1, <1>3, ChangeKeepsLInv DEF TagConsumerVersion, Change
  <1>4. ASSUME NEW b \in Builds, NEW n \in Names, TagBuild(b, n) \/ SetBranch(b, n) PROVE LInv'
    BY <1>1, <1>4, ChangeKeepsLInv DEF TagBuild, SetBranch, Change
  <1>5. ASSUME NEW c \in Contents, NEW b \in Builds, NEW outcome \in Outcomes,
               PublishResult(c, b, outcome)
        PROVE  LInv'
    BY <1>1, <1>5, ChangeKeepsLInv DEF PublishResult, Change
  <1>6. CASE FindSelected
    BY <1>6, FindSelectedKeepsLInv
  <1>7. ASSUME NEW c \in Contents, CheckAny(c) \/ CheckOwnTag(c) PROVE LInv'
    BY <1>7, CheckAnyKeepsLInv, CheckOwnTagKeepsLInv
  <1>8. CASE FindFirstTag \/ CheckOtherTags
    BY <1>8, FindFirstTagKeepsLInv, CheckOtherTagsKeepsLInv
  <1>9. CASE FindFirstUse \/ FindPotential
    BY <1>9, FindFirstUseKeepsLInv, FindPotentialKeepsLInv
  <1>10. CASE SubtractSpecified \/ SubtractOwn \/ SubtractOther
    BY <1>10, SubtractSpecifiedKeepsLInv, SubtractOwnKeepsLInv, SubtractOtherKeepsLInv
  <1>11. CASE UNCHANGED vars
    BY <1>1, <1>11, ChangeKeepsLInv DEF vars
  <1> QED BY <1>2, <1>3, <1>4, <1>5, <1>6, <1>7, <1>8, <1>9, <1>10, <1>11 DEF Next

\* What the invariant says of a list that is answered.
LEMMA LInvAnswers == LInv => PendingIsTruthful /\ NoHeadIsOverlooked /\ WipIsUnverified
  <1> SUFFICES ASSUME LInv, pc = "answered"
               PROVE  PendingIsTruthful /\ NoHeadIsOverlooked /\ WipIsUnverified
    BY DEF PendingIsTruthful, NoHeadIsOverlooked, WipIsUnverified
  <1>1. todo = {}
    BY DEF LInv, AskedOK, Early
  <1>2. PendingIsTruthful
    BY <1>1 DEF LInv, PendingOK, CheckedOK, UnverifiedThen, MayBreak, PendingIsTruthful
  <1>3. WipIsUnverified
    BY DEF LInv, WipOK, UnverifiedWhenAsked, WipIsUnverified
  <1>4. NoHeadIsOverlooked
    <2> SUFFICES ASSUME NEW kind \in Kinds, NEW v \in Published, StillHead(kind, v)
                 PROVE  content[v] \in Listed \/ Accounted(v)
      BY DEF NoHeadIsOverlooked, Accounted, Listed
    <2>1. <<kind, v>> \in wip \/ Accounted(v)
      BY DEF LInv, HeadsOK, Finished, Published
    <2>2. ASSUME <<kind, v>> \in wip PROVE content[v] \in Listed
      <3>1. \E x \in wip : x[2] = v
        BY <2>2
      <3> QED BY <3>1 DEF Listed
    <2> QED BY <2>1, <2>2
  <1> QED BY <1>2, <1>3, <1>4

-----------------------------------------------------------------------------
(* The theorems *)

\* No stamp is of a time that has not come, and a build is as old as the oldest of its
\* tags and results, whatever is published and asked.
THEOREM TypeCorrect == Spec => []TypeOK
  <1> QED BY IInvInit, IInvNext, IInvIsTyped, PTL DEF Spec

\* A pact that is not pending for a tag becomes pending for it only through a build that gets
\* the tag with a stamp no later than that of a result for the pact which was there before.
THEOREM OnlyEarlierTagsMakePending == Spec => StaysNonPending
  <1> DEFINE Stays == \A c \in Contents, n \in Names :
                         ~Pending(c, n) /\ Pending(c, n)' =>
                            \E b \in Builds, r \in results :
                               r.content = c /\ tagAt[<<b, n>>] = 0 /\ tagAt'[<<b, n>>] \in 1 .. r.at
  <1>1. IInv /\ IInv' /\ [Next]_vars => [Stays]_vars
    BY NextGrows, PendingByAnEarlierTag
  <1>2. Spec => [][Stays]_vars
    <2> HIDE DEF Stays
    <2> QED BY <1>1, IInvInit, IInvNext, PTL DEF Spec
  <1> QED BY <1>2 DEF StaysNonPending

\* A build is told that a pact is not pending, so that a failure breaks it, only if it is not
\* or the first use of its tag has moved since, and that it is pending only if it had not been
\* verified when the list was asked for, whatever is tagged and published between the queries.
THEOREM PendingIsAlwaysTruthful == Spec => []PendingIsTruthful
  <1> QED BY IInvInit, IInvNext, LInvInit, LInvNext, LInvAnswers, PTL DEF Spec

\* A head that the list leaves out has been verified by the tag or branch in question, or by
\* others that said they did so before that was first used.
THEOREM NoHeadIsEverOverlooked == Spec => []NoHeadIsOverlooked
  <1> QED BY IInvInit, IInvNext, LInvInit, LInvNext, LInvAnswers, PTL DEF Spec

\* What is given as work in progress, and is still a head, was neither selected nor verified.
THEOREM WipIsAlwaysUnverified == Spec => []WipIsUnverified
  <1> QED BY IInvInit, IInvNext, LInvInit, LInvNext, LInvAnswers, PTL DEF Spec
=============================================================================
