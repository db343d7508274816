------------------------------ MODULE MatrixProofs ------------------------------
(***************************************************************************)
(* Proofs about Matrix, for every set of versions and contents and however *)
(* often the database changes while a question is answered.                *)
(***************************************************************************)
EXTENDS Matrix, FiniteSetTheorems, TLAPS

-----------------------------------------------------------------------------
(* The inductive invariant *)

\* What the history remembers, compared with the database as it is now.
Remembered ==
    /\ seen.stillPacts \subseteq pacts /\ pacts \subseteq seen.pacts
    /\ seen.stillInEnvironment \subseteq inEnvironment
    /\ inEnvironment \subseteq seen.inEnvironment
    /\ Results("passed") \subseteq seen.passed
    /\ Results("failed") \subseteq seen.failed

\* The version asked about is selected if it was found, no other of its pacticipant
\* is, and those of others have been in the environment.
SelectedAreAsked ==
    /\ found => asked \in selected
    /\ \A v \in selected : v = asked \/ (v[1] # Name /\ v \in seen.inEnvironment)
    /\ pc = "inferred" => todo \subseteq Inferred

\* The providers of the pacts that have lasted have been found ...
ProvidersFound ==
    (found /\ pc \in {"consumers", "required", "inferred"}) =>
        \A x \in seen.stillPacts : x[1] = asked => <<Name, x[2][2]>> \in integrations

\* ... and their consumers, or the loop has yet to come to them ...
ConsumersFound ==
    pc \in {"required", "inferred"} =>
        \A x \in seen.stillPacts :
            x[2][2] = Name =>
                \/ <<x[2][1], Name>> \in integrations
                \/ pc = "required" /\ x[2][1] \in todo

\* ... and the versions that have stayed in the environment are selected.
VersionsSelected ==
    pc = "inferred" =>
        \A v \in seen.stillInEnvironment : v[1] \in Inferred \ todo => v \in selected

AnsweredLast == answer # "none" => pc = "answered"

Answers == YesCoversProviders /\ YesCoversConsumers /\ NoHasAReason

IInv ==
    /\ TypeOK /\ Remembered /\ SelectedAreAsked
    /\ ProvidersFound /\ ConsumersFound /\ VersionsSelected
    /\ AnsweredLast /\ Answers

LEMMA IInvInit == Init => IInv
  <1> SUFFICES ASSUME Init PROVE IInv
    OBVIOUS
  <1> USE DEF Init
  <1>1. TypeOK
    BY MatrixAssumption DEF TypeOK, Publishable
  <1>2. Remembered
    BY DEF Remembered, Observed
  <1>3. SelectedAreAsked /\ ProvidersFound /\ ConsumersFound /\ VersionsSelected
    BY DEF SelectedAreAsked, ProvidersFound, ConsumersFound, VersionsSelected
  <1>4. AnsweredLast /\ Answers
    BY DEF AnsweredLast, Answers, YesCoversProviders, YesCoversConsumers, NoHasAReason
  <1> QED BY <1>1, <1>2, <1>3, <1>4 DEF IInv

-----------------------------------------------------------------------------
(* Changes between the queries *)

\* Observe keeps what it remembers true.
LEMMA ObserveRemembers == Remembered /\ Observe => Remembered'
  BY DEF Remembered, Observe

\* A change made while the question is answered disturbs no part of the answer.
LEMMA ChangeKeepsIInv ==
  ASSUME IInv, Change, TypeOK'
  PROVE  IInv'
  <1>1. Remembered'
    BY ObserveRemembers DEF IInv, Change
  <1>2. /\ pc' = pc /\ asked' = asked /\ ignored' = ignored /\ found' = found
        /\ integrations' = integrations /\ todo' = todo /\ selected' = selected
        /\ answer' = answer /\ answer = "none"
    BY DEF IInv, AnsweredLast, Change, question, query
  <1>3. /\ seen'.stillPacts \subseteq seen.stillPacts
        /\ seen'.stillInEnvironment \subseteq seen.stillInEnvironment
        /\ seen.inEnvironment \subseteq seen'.inEnvironment
    BY DEF Change, Observe
  <1>4. Name' = Name /\ Inferred' = Inferred
    BY <1>2 DEF Name, Inferred
  <1>5. SelectedAreAsked'
    BY <1>2, <1>3, <1>4 DEF IInv, SelectedAreAsked
  <1>6. ProvidersFound' /\ ConsumersFound' /\ VersionsSelected'
    BY <1>2, <1>3, <1>4 DEF IInv, ProvidersFound, ConsumersFound, VersionsSelected
  <1>7. AnsweredLast' /\ Answers'
    BY <1>2 DEF AnsweredLast, Answers, YesCoversProviders, YesCoversConsumers, NoHasAReason
  <1> QED BY <1>1, <1>5, <1>6, <1>7 DEF IInv

LEMMA PublishKeepsIInv ==
  ASSUME IInv, NEW v \in Versions, NEW c \in Contents, Publish(v, c)
  PROVE  IInv'
  <1>1. pacts' \subseteq Publishable /\ OnePactEach(pacts')
    BY DEF IInv, TypeOK, Publish, OnePactEach, Publishable
  <1>2. TypeOK'
    BY <1>1 DEF IInv, TypeOK, Publish, Change, question, query
  <1> QED BY <1>2, ChangeKeepsIInv DEF Publish

LEMMA PublishResultKeepsIInv ==
  ASSUME IInv, NEW c \in Contents, NEW v \in Versions,
         NEW outcome \in {"passed", "failed"}, PublishResult(c, v, outcome)
  PROVE  IInv'
  <1>1. latest' \in [Verifiable -> Outcomes]
    BY DEF IInv, TypeOK, PublishResult, Outcomes
  <1>2. TypeOK'
    BY <1>1 DEF IInv, TypeOK, PublishResult, Change, question, query
  <1> QED BY <1>2, ChangeKeepsIInv DEF PublishResult

LEMMA DeployKeepsIInv ==
  ASSUME IInv, NEW v \in Versions, Deploy(v) \/ Leave(v)
  PROVE  IInv'
  <1>1. inEnvironment' \subseteq versions' /\ Change
    BY DEF IInv, TypeOK, Deploy, Leave
  <1>2. UNCHANGED <<versions, pacts, latest>>
    BY DEF Deploy, Leave
  <1>3. TypeOK'
    BY <1>1, <1>2 DEF IInv, TypeOK, Change, question, query
  <1> QED BY <1>1, <1>3, ChangeKeepsIInv

-----------------------------------------------------------------------------
(* The queries that gather *)

\* A query changes neither the database nor what is remembered of it.
LEMMA QueryRemembers ==
  ASSUME IInv, NEW step, Go(step)
  PROVE  Remembered' /\ UNCHANGED <<database, question, seen>>
  BY DEF IInv, Remembered, Results, Go, database

\* As long as there is no answer there is nothing to say about it.
LEMMA NoAnswerYet ==
  ASSUME IInv, pc # "answered", answer' = answer
  PROVE  AnsweredLast' /\ Answers'
  BY DEF IInv, AnsweredLast, Answers, YesCoversProviders, YesCoversConsumers, NoHasAReason

LEMMA FindVersionKeepsIInv == ASSUME IInv, FindVersion PROVE IInv'
  <1>1. /\ pc = "specified" /\ pc' = "providers" /\ found' = (asked \in versions)
        /\ selected' = IF asked \in versions THEN {asked} ELSE {}
        /\ UNCHANGED <<integrations, required, todo, answer>>
        /\ Go("providers")
    BY DEF FindVersion, At, Go
  <1>2. Remembered' /\ UNCHANGED <<database, question, seen>>
    BY <1>1, QueryRemembers
  <1>3. TypeOK'
    BY <1>1, <1>2 DEF IInv, TypeOK, database, question
  <1>4. SelectedAreAsked'
    BY <1>1, <1>2 DEF SelectedAreAsked, question, Name
  <1>5. ProvidersFound' /\ ConsumersFound' /\ VersionsSelected'
    BY <1>1 DEF ProvidersFound, ConsumersFound, VersionsSelected
  <1> QED BY <1>1, <1>2, <1>3, <1>4, <1>5, NoAnswerYet DEF IInv

LEMMA FindProvidersKeepsIInv == ASSUME IInv, FindProviders PROVE IInv'
  <1> DEFINE pairs == {<<Name, x[2][2]>> : x \in {y \in pacts : y[1] \in Specified}}
  <1>1. /\ pc = "providers" /\ pc' = "consumers" /\ integrations' = pairs /\ required' = pairs
        /\ UNCHANGED <<found, todo, selected, answer>>
        /\ Go("consumers")
    BY DEF FindProviders, At, Go
  <1>2. Remembered' /\ UNCHANGED <<database, question, seen>>
    BY <1>1, QueryRemembers
  <1>3. pairs \subseteq Pacticipants \X Pacticipants
    BY MatrixAssumption DEF IInv, TypeOK, Publishable, Name
  <1>4. TypeOK'
    BY <1>1, <1>2, <1>3 DEF IInv, TypeOK, database, question
  <1>5. SelectedAreAsked'
    BY <1>1, <1>2 DEF IInv, SelectedAreAsked, question, Name
  <1>6. ProvidersFound'
    BY <1>1, <1>2 DEF IInv, Remembered, ProvidersFound, Specified, question, Name
  <1>7. ConsumersFound' /\ VersionsSelected'
    BY <1>1 DEF ConsumersFound, VersionsSelected
  <1> QED BY <1>1, <1>2, <1>4, <1>5, <1>6, <1>7, NoAnswerYet DEF IInv

LEMMA FindConsumersKeepsIInv == ASSUME IInv, FindConsumers PROVE IInv'
  <1>1. /\ pc = "consumers" /\ pc' = "required"
        /\ todo' = {x[2][1] : x \in {y \in pacts : y[2][2] = Name}}
        /\ UNCHANGED <<found, integrations, required, selected, answer>>
        /\ Go("required")
    BY DEF FindConsumers, At, Go
  <1>2. Remembered' /\ UNCHANGED <<database, question, seen>>
    BY <1>1, QueryRemembers
  <1>3. todo' \subseteq Pacticipants
    BY <1>1, MatrixAssumption DEF IInv, TypeOK, Publishable
  <1>4. TypeOK'
    BY <1>1, <1>2, <1>3 DEF IInv, TypeOK, database, question
  <1>5. SelectedAreAsked'
    BY <1>1, <1>2 DEF IInv, SelectedAreAsked, question, Name
  <1>6. ProvidersFound'
    BY <1>1, <1>2 DEF IInv, ProvidersFound, question, Name
  <1>7. ConsumersFound'
    BY <1>1, <1>2 DEF IInv, Remembered, ConsumersFound, question, Name
  <1>8. VersionsSelected'
    BY <1>1 DEF VersionsSelected
  <1> QED BY <1>1, <1>2, <1>4, <1>5, <1>6, <1>7, <1>8, NoAnswerYet DEF IInv

LEMMA CheckConsumerKeepsIInv ==
  ASSUME IInv, NEW c \in Pacticipants, CheckConsumer(c)
  PROVE  IInv'
  <1>1. /\ pc = "required" /\ pc' = "required" /\ todo' = todo \ {c}
        /\ integrations' = integrations \cup {<<c, Name>>}
        /\ required' \in {required, required \cup {<<c, Name>>}}
        /\ UNCHANGED <<found, selected, answer>>
        /\ Go("required")
    BY DEF CheckConsumer, Go
  <1>2. Remembered' /\ UNCHANGED <<database, question, seen>>
    BY <1>1, QueryRemembers
  <1>3. Name \in Pacticipants
    BY MatrixAssumption DEF IInv, TypeOK, Name
  <1>4. TypeOK'
    BY <1>1, <1>2, <1>3 DEF IInv, TypeOK, database, question
  <1>5. SelectedAreAsked'
    BY <1>1, <1>2 DEF IInv, SelectedAreAsked, question, Name
  <1>6. ProvidersFound'
    BY <1>1, <1>2 DEF IInv, ProvidersFound, question, Name
  <1>7. ConsumersFound'
    BY <1>1, <1>2 DEF IInv, ConsumersFound, question, Name
  <1>8. VersionsSelected'
    BY <1>1 DEF VersionsSelected
  <1> QED BY <1>1, <1>2, <1>4, <1>5, <1>6, <1>7, <1>8, NoAnswerYet DEF IInv

LEMMA InferSelectorsKeepsIInv == ASSUME IInv, InferSelectors PROVE IInv'
  <1>1. /\ pc = "required" /\ todo = {} /\ pc' = "inferred" /\ todo' = Inferred
        /\ UNCHANGED <<found, integrations, required, selected, answer>>
        /\ Go("inferred")
    BY DEF InferSelectors, At, Go
  <1>2. Remembered' /\ UNCHANGED <<database, question, seen>>
    BY <1>1, QueryRemembers
  <1>3. Inferred' = Inferred /\ Name' = Name
    BY <1>1, <1>2 DEF Inferred, Name, question
  <1>4. Inferred \subseteq Pacticipants
    BY DEF IInv, TypeOK, Inferred
  <1>5. TypeOK'
    BY <1>1, <1>2, <1>4 DEF IInv, TypeOK, database, question
  <1>6. SelectedAreAsked'
    BY <1>1, <1>2, <1>3 DEF IInv, SelectedAreAsked, question
  <1>7. ProvidersFound' /\ ConsumersFound'
    BY <1>1, <1>2, <1>3 DEF IInv, ProvidersFound, ConsumersFound, question
  <1>8. VersionsSelected'
    BY <1>1, <1>3 DEF VersionsSelected
  <1> QED BY <1>1, <1>2, <1>5, <1>6, <1>7, <1>8, NoAnswerYet DEF IInv

LEMMA ResolveSelectorKeepsIInv ==
  ASSUME IInv, NEW p \in Pacticipants, ResolveSelector(p)
  PROVE  IInv'
  <1>1. /\ pc = "inferred" /\ p \in todo /\ pc' = "inferred" /\ todo' = todo \ {p}
        /\ selected' = selected \cup VersionsFor(p)
        /\ UNCHANGED <<found, integrations, required, answer>>
        /\ Go("inferred")
    BY DEF ResolveSelector, Go
  <1>2. Remembered' /\ UNCHANGED <<database, question, seen>>
    BY <1>1, QueryRemembers
  <1>3. Inferred' = Inferred /\ Name' = Name
    BY <1>1, <1>2 DEF Inferred, Name, question
  <1>4. p # Name
    BY <1>1 DEF IInv, SelectedAreAsked, Inferred
  <1>5. TypeOK'
    BY <1>1, <1>2 DEF IInv, TypeOK, VersionsFor, database, question
  <1>6. SelectedAreAsked'
    BY <1>1, <1>2, <1>3, <1>4 DEF IInv, Remembered, SelectedAreAsked, VersionsFor, question
  <1>7. ProvidersFound' /\ ConsumersFound'
    BY <1>1, <1>2, <1>3 DEF IInv, ProvidersFound, ConsumersFound, question
  <1>8. VersionsSelected'
    BY <1>1, <1>2, <1>3 DEF IInv, Remembered, VersionsSelected, VersionsFor
  <1> QED BY <1>1, <1>2, <1>5, <1>6, <1>7, <1>8, NoAnswerYet DEF IInv

-----------------------------------------------------------------------------
(* The answer *)

\* A finite set of versions, not empty, has one whose order is the largest.
LEMMA LatestVersion ==
  ASSUME NEW vs, IsFiniteSet(vs), vs # {}, \A v \in vs : v[2] \in Nat
  PROVE  \E v \in vs : \A w \in vs : w[2] <= v[2]
  <1> DEFINE Above(v) == {w \in vs : w[2] > v[2]}
             Aboves == {Above(v) : v \in vs}
  <1>1. Aboves \subseteq FiniteSubsetsOf(vs) /\ Aboves # {}
    <2>1. \A v \in vs : Above(v) \in SUBSET vs
      OBVIOUS
    <2>2. \A v \in vs : IsFiniteSet(Above(v))
      BY <2>1, FS_Subset
    <2> QED BY <2>1, <2>2 DEF FiniteSubsetsOf
  <1>2. PICK X \in Aboves : \A Y \in Aboves : <<Y, X>> \notin StrictSubsetOrdering(vs)
    BY <1>1, FS_StrictSubsetOrderingWellFounded, WFMin
  <1>3. PICK v \in vs : X = Above(v)
    BY <1>2
  <1>4. SUFFICES ASSUME NEW w \in vs, w[2] > v[2] PROVE FALSE
    OBVIOUS
  <1>5. Above(w) \subseteq X /\ w \in X \ Above(w)
    BY <1>3, <1>4
  <1>6. <<Above(w), X>> \in StrictSubsetOrdering(vs)
    BY <1>3, <1>5 DEF StrictSubsetOrdering
  <1> QED BY <1>2, <1>4, <1>6

\* The versions that have verified a pact; it has a row with each of them, or one
\* that says that it is not verified.
Joined(x, vs) == {v \in vs : <<x[2], v>> \in Verifiable /\ latest[<<x[2], v>>] # "none"}

LEMMA LeftJoinRows ==
  ASSUME NEW x, NEW vs
  PROVE  LeftJoin(x, vs) =
            {<<x[1], x[2], v>> : v \in IF Joined(x, vs) = {} THEN {NoVersion} ELSE Joined(x, vs)}
  BY Zenon DEF LeftJoin, Joined

\* The rows of a pact between the version asked about and a selected one: either it
\* is not verified, or the latest version that has verified it is considered.
LEMMA PactHasRow ==
  ASSUME IInv, pc = "inferred", NEW x \in pacts, x[1] \in selected,
         x[2][2] \in Inferred \cup {Name}, Name \in {x[2][1], x[2][2]}, Inferred # {}
  PROVE  \/ <<x[1], x[2], NoVersion>> \in LatestBy(Rows)
         \/ \E v \in Joined(x, selected) : <<x[1], x[2], v>> \in LatestBy(Rows)
  <1>1. CASE Joined(x, selected) = {}
    <2>1. <<x[1], x[2], NoVersion>> \in Rows
      <3>1. <<x[1], x[2], NoVersion>> \in LeftJoin(x, selected)
        BY <1>1, LeftJoinRows
      <3> QED BY <3>1 DEF Rows
    <2> QED BY <2>1 DEF LatestBy
  <1>2. CASE Joined(x, selected) # {}
    <2>1. Joined(x, selected) \subseteq Versions
      BY DEF IInv, TypeOK, Joined
    <2>2. PICK v \in Joined(x, selected) : \A w \in Joined(x, selected) : w[2] <= v[2]
      BY <1>2, <2>1, FS_Subset, LatestVersion, MatrixAssumption
    <2>3. <<x[1], x[2], v>> \in Rows
      <3>1. <<x[1], x[2], v>> \in LeftJoin(x, selected)
        BY <1>2, <2>2, LeftJoinRows
      <3>2. v # NoVersion
        BY <2>1, <2>2, MatrixAssumption
      <3> QED BY <3>1, <3>2 DEF Rows
    <2>4. ASSUME NEW other \in Rows, other[1] = x[1], other[2][2] = x[2][2]
          PROVE  other[3] \in Joined(x, selected)
      <3>1. PICK y \in pacts : other \in LeftJoin(y, selected)
        BY <2>4 DEF Rows
      <3>2. other[1] = y[1] /\ other[2] = y[2]
        BY <3>1, LeftJoinRows
      <3>3. y = x
        BY <2>4, <3>2 DEF IInv, TypeOK, OnePactEach
      <3> QED BY <1>2, <3>1, <3>3, LeftJoinRows
    <2>5. <<x[1], x[2], v>> \in LatestBy(Rows)
      BY <2>2, <2>3, <2>4 DEF LatestBy
    <2> QED BY <2>2, <2>5
  <1> QED BY <1>1, <1>2

\* A yes: the version was found, and no considered row is without a success.
LEMMA YesMeans ==
  ASSUME NEW rows, Deployable(rows) = "yes"
  PROVE  /\ found \/ Name \in ignored
         /\ \A row \in rows : {row[2][1], row[2][2]} \cap ignored = {} =>
                row[3] # NoVersion /\ Success(row)
  BY DEF Deployable

\* So every pact that the question is about has a success of a selected version.
LEMMA YesMeansSuccess ==
  ASSUME IInv, pc = "inferred", Deployable(LatestBy(Rows)) = "yes",
         NEW x \in pacts, x[1] \in selected, x[2][2] \in Inferred \cup {Name},
         Name \in {x[2][1], x[2][2]}, Inferred # {}, Considered(x)
  PROVE  \E v \in Joined(x, selected) : <<x[2], v>> \in Results("passed")
  <1>1. \A row \in LatestBy(Rows) : {row[2][1], row[2][2]} \cap ignored = {} =>
            row[3] # NoVersion /\ Success(row)
    BY YesMeans
  <1>2. <<x[1], x[2], NoVersion>> \notin LatestBy(Rows)
    BY <1>1 DEF Considered
  <1>3. PICK v \in Joined(x, selected) : <<x[1], x[2], v>> \in LatestBy(Rows)
    BY <1>2, PactHasRow
  <1>4. Success(<<x[1], x[2], v>>)
    BY <1>1, <1>3 DEF Considered
  <1> QED BY <1>3, <1>4 DEF Success, Joined, Results

LEMMA YesProviders ==
  ASSUME IInv, pc = "inferred", todo = {}, Deployable(LatestBy(Rows)) = "yes",
         NEW x \in seen.stillPacts, x[1] = asked, Considered(x)
  PROVE  \E v \in seen.inEnvironment : <<x[2], v>> \in seen.passed
  <1>1. x \in pacts /\ x \in Publishable
    BY DEF IInv, Remembered, TypeOK
  <1>2. x[1][1] = x[2][1] /\ x[2][1] = Name /\ x[2][1] # x[2][2]
    BY <1>1, MatrixAssumption DEF Publishable, Name
  <1>3. found
    BY <1>2, YesMeans DEF Considered
  <1>4. <<Name, x[2][2]>> \in integrations
    BY <1>3 DEF IInv, ProvidersFound
  <1>5. x[2][2] \in Inferred
    BY <1>2, <1>4 DEF Inferred
  <1>6. asked \in selected
    BY <1>3 DEF IInv, SelectedAreAsked
  <1>7. PICK v \in Joined(x, selected) : <<x[2], v>> \in Results("passed")
    BY <1>1, <1>2, <1>5, <1>6, YesMeansSuccess
  <1>8. v \in selected /\ v[1] = x[2][2]
    BY <1>7 DEF Joined, Verifiable
  <1>9. v \in seen.inEnvironment
    BY <1>2, <1>8 DEF IInv, SelectedAreAsked, Name
  <1> QED BY <1>7, <1>9 DEF IInv, Remembered

LEMMA YesConsumers ==
  ASSUME IInv, pc = "inferred", todo = {}, Deployable(LatestBy(Rows)) = "yes",
         NEW x \in seen.stillPacts, x[1] \in seen.stillInEnvironment, x[2][2] = Name,
         Considered(x)
  PROVE  <<x[2], asked>> \in seen.passed
  <1>1. x \in pacts /\ x \in Publishable
    BY DEF IInv, Remembered, TypeOK
  <1>2. x[1][1] = x[2][1] /\ x[2][1] # Name
    BY <1>1, MatrixAssumption DEF Publishable
  <1>3. <<x[2][1], Name>> \in integrations
    BY DEF IInv, ConsumersFound
  <1>4. x[2][1] \in Inferred
    BY <1>2, <1>3 DEF Inferred
  <1>5. x[1] \in selected
    BY <1>2, <1>4 DEF IInv, VersionsSelected
  <1>6. PICK v \in Joined(x, selected) : <<x[2], v>> \in Results("passed")
    BY <1>1, <1>4, <1>5, YesMeansSuccess
  <1>7. v \in selected /\ v[1] = Name
    BY <1>6 DEF Joined, Verifiable
  <1>8. v = asked
    BY <1>7 DEF IInv, SelectedAreAsked
  <1> QED BY <1>6, <1>8 DEF IInv, Remembered

\* A no: the version was not found, or a considered row has a result that is none.
LEMMA NoReason ==
  ASSUME IInv, Deployable(LatestBy(Rows)) = "no", found
  PROVE  \E x \in seen.pacts, v \in Versions :
            <<x[2], v>> \in seen.failed /\ asked \in {x[1], v}
  <1>1. PICK row \in Rows : row[3] # NoVersion /\ ~Success(row)
    BY DEF Deployable, LatestBy
  <1>2. PICK x \in pacts, vs \in {Versions, selected} :
            /\ row \in LeftJoin(x, vs)
            /\ \/ row[1] \in Specified \/ row[3] \in Specified
               \/ vs = selected /\ row[1] \in selected /\ Name \in {row[2][1], row[2][2]}
    BY <1>1 DEF Rows
  <1>3. /\ row[1] = x[1] /\ row[2] = x[2] /\ row[3] \in vs
        /\ <<x[2], row[3]>> \in Verifiable /\ latest[<<x[2], row[3]>>] # "none"
    <2>1. /\ row[1] = x[1] /\ row[2] = x[2]
          /\ row[3] \in IF Joined(x, vs) = {} THEN {NoVersion} ELSE Joined(x, vs)
      BY <1>2, LeftJoinRows
    <2>2. row[3] \in Joined(x, vs)
      BY <1>1, <2>1
    <2> QED BY <2>1, <2>2 DEF Joined
  <1>4. <<x[2], row[3]>> \in Results("failed")
    BY <1>1, <1>3 DEF IInv, TypeOK, Outcomes, Results, Success
  <1>5. row[3] \in Versions /\ row[3][1] = x[2][2] /\ x[1][1] = x[2][1]
    BY <1>3 DEF IInv, TypeOK, Verifiable, Publishable
  <1>6. asked \in {x[1], row[3]}
    BY <1>2, <1>3, <1>5 DEF IInv, SelectedAreAsked, Specified, Name
  <1> QED BY <1>4, <1>5, <1>6 DEF IInv, Remembered

LEMMA QueryMatrixKeepsIInv == ASSUME IInv, QueryMatrix PROVE IInv'
  <1>1. /\ pc = "inferred" /\ todo = {} /\ pc' = "answered"
        /\ answer' = Deployable(LatestBy(Rows))
        /\ UNCHANGED <<found, integrations, required, todo, selected>>
        /\ Go("answered")
    BY DEF QueryMatrix, At, Go
  <1>2. Remembered' /\ UNCHANGED <<database, question, seen>>
    BY <1>1, QueryRemembers
  <1>3. answer' \in {"yes", "no", "unknown"}
    BY <1>1 DEF Deployable
  <1>4. TypeOK'
    BY <1>1, <1>2, <1>3 DEF IInv, TypeOK, database, question
  <1>5. SelectedAreAsked' /\ ProvidersFound' /\ ConsumersFound' /\ VersionsSelected'
    BY <1>1, <1>2 DEF IInv, SelectedAreAsked, ProvidersFound, ConsumersFound,
                      VersionsSelected, question, Name
  <1>6. YesCoversProviders'
    BY <1>1, <1>2, YesProviders DEF YesCoversProviders, Considered, question
  <1>7. YesCoversConsumers'
    BY <1>1, <1>2, YesConsumers DEF YesCoversConsumers, Considered, question, Name
  <1>8. NoHasAReason'
    BY <1>1, <1>2, NoReason DEF NoHasAReason, question
  <1> QED BY <1>1, <1>2, <1>4, <1>5, <1>6, <1>7, <1>8 DEF IInv, AnsweredLast, Answers

-----------------------------------------------------------------------------
(* The theorems *)

LEMMA StutterKeepsIInv == IInv /\ UNCHANGED vars => IInv'
  <1> SUFFICES ASSUME IInv, UNCHANGED vars PROVE IInv'
    OBVIOUS
  <1> USE DEF IInv, vars, database, question, query
  <1>1. TypeOK' /\ Remembered'
    BY DEF TypeOK, Remembered, Results
  <1>2. SelectedAreAsked' /\ ProvidersFound' /\ ConsumersFound' /\ VersionsSelected'
    BY DEF SelectedAreAsked, ProvidersFound, ConsumersFound, VersionsSelected, Name, Inferred
  <1>3. AnsweredLast'
    BY DEF AnsweredLast
  <1>4. YesCoversProviders' /\ YesCoversConsumers' /\ NoHasAReason'
    BY DEF Answers, YesCoversProviders, YesCoversConsumers, NoHasAReason, Considered, Name
  <1> QED BY <1>1, <1>2, <1>3, <1>4 DEF Answers

LEMMA IInvNext == IInv /\ [Next]_vars => IInv'
  <1> SUFFICES ASSUME IInv, [Next]_vars PROVE IInv'
    OBVIOUS
  <1>1. ASSUME NEW v \in Versions, NEW c \in Contents, Publish(v, c) PROVE IInv'
    BY <1>1, PublishKeepsIInv
  <1>2. ASSUME NEW c \in Contents, NEW v \in Versions, NEW outcome \in {"passed", "failed"},
               PublishResult(c, v, outcome)
        PROVE  IInv'
    BY <1>2, PublishResultKeepsIInv
  <1>3. ASSUME NEW v \in Versions, Deploy(v) \/ Leave(v) PROVE IInv'
    BY <1>3, DeployKeepsIInv
  <1>4. CASE FindVersion \/ FindProviders \/ FindConsumers \/ InferSelectors
    BY <1>4, FindVersionKeepsIInv, FindProvidersKeepsIInv, FindConsumersKeepsIInv,
       InferSelectorsKeepsIInv
  <1>5. ASSUME NEW p \in Pacticipants, CheckConsumer(p) \/ ResolveSelector(p) PROVE IInv'
    BY <1>5, CheckConsumerKeepsIInv, ResolveSelectorKeepsIInv
  <1>6. CASE QueryMatrix
    BY <1>6, QueryMatrixKeepsIInv
  <1>7. CASE UNCHANGED vars
    BY <1>7, StutterKeepsIInv
  <1> QED BY <1>1, <1>2, <1>3, <1>4, <1>5, <1>6, <1>7 DEF Next

\* The state of can-i-deploy is well typed, a version has one pact with a provider
\* and what is in the environment exists, whatever else happens meanwhile.
THEOREM TypeCorrect == Spec => []TypeOK
  <1>1. IInv => TypeOK
    BY DEF IInv
  <1> QED BY IInvInit, IInvNext, <1>1, PTL DEF Spec

\* A yes of can-i-deploy has a successful result, of a version that has been in the
\* environment, for every pact that the version has had throughout.
THEOREM YesIsForProviders == Spec => []YesCoversProviders
  <1>1. IInv => YesCoversProviders
    BY DEF IInv, Answers
  <1> QED BY IInvInit, IInvNext, <1>1, PTL DEF Spec

\* A yes of can-i-deploy has a successful result of the version for every pact of
\* every consumer version that has been in the environment throughout.
THEOREM YesIsForConsumers == Spec => []YesCoversConsumers
  <1>1. IInv => YesCoversConsumers
    BY DEF IInv, Answers
  <1> QED BY IInvInit, IInvNext, <1>1, PTL DEF Spec

\* A no of can-i-deploy comes from a version that is not there, or from a failure.
THEOREM NoIsForAReason == Spec => []NoHasAReason
  <1>1. IInv => NoHasAReason
    BY DEF IInv, Answers
  <1> QED BY IInvInit, IInvNext, <1>1, PTL DEF Spec
=============================================================================
