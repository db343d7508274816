--------------------------------- MODULE Matrix ---------------------------------
(***************************************************************************)
(* can-i-deploy: may a version of a pacticipant go to an environment?      *)
(*                                                                         *)
(* The answer is put together from several queries, and a GET runs in no   *)
(* transaction: what others publish, verify and deploy between two of the  *)
(* queries is seen by the later one only.  A version is a pair of its      *)
(* pacticipant and its order; a content belongs to a consumer and a        *)
(* provider.                                                               *)
(***************************************************************************)
EXTENDS Integers, FiniteSets

CONSTANTS
    Pacticipants,
    Versions,      \* versions: <<pacticipant, order>>
    Contents,      \* pact versions: <<consumer, provider, which>>
    Established,   \* the versions that exist from the start, perhaps deployed
    Questions,     \* the versions that can-i-deploy may be asked about
    Ignores,       \* the sets of pacticipants that it may be asked to ignore
    MaxChanges,    \* how many changes are made while a question is answered
    NoVersion      \* stands for "not verified"

\* The consumer versions and contents that may be published, and the contents
\* and provider versions that results may be about.
Publishable == {x \in Versions \X Contents : x[1][1] = x[2][1]}
Verifiable == {x \in Contents \X Versions : x[1][2] = x[2][1]}

ASSUME MatrixAssumption ==
    /\ Versions \subseteq Pacticipants \X Nat /\ IsFiniteSet(Versions)
    /\ \A c \in Contents : c[1] \in Pacticipants /\ c[2] \in Pacticipants /\ c[1] # c[2]
    /\ Established \subseteq Versions /\ Questions \subseteq Versions
    /\ Ignores \subseteq SUBSET Pacticipants
    /\ MaxChanges \in Nat
    /\ NoVersion \notin Versions

VARIABLES
    versions,      \* the versions that exist
    pacts,         \* the current pacts: <<consumer version, content>>
    latest,        \* latest[<<content, provider version>>]: the latest result
    inEnvironment, \* the versions deployed to, or supported in, the environment
    changes,       \* how often these have changed since the question was asked
    asked, ignored,\* the question
    pc,
    found,         \* whether the version asked about exists
    integrations,  \* the integrations found: <<consumer, provider>>
    required,      \* those a row is required for
    todo,          \* the pacticipants that the loop has not come to
    selected,      \* the versions of the resolved selectors
    answer,
    seen           \* history: what has held at some time, or always, since then

database == <<versions, pacts, latest, inEnvironment>>
question == <<asked, ignored>>
query == <<found, integrations, required, todo, selected, answer>>
vars == <<database, changes, question, pc, query, seen>>

Outcomes == {"none", "passed", "failed"}

-----------------------------------------------------------------------------
(* What the rest of the broker does meanwhile.                             *)

Results(outcome) == {x \in Verifiable : latest[x] = outcome}

\* What has held at some time since the question was asked, and what always has.
Observed ==
    [pacts |-> pacts, inEnvironment |-> inEnvironment, stillPacts |-> pacts,
     stillInEnvironment |-> inEnvironment, passed |-> Results("passed"),
     failed |-> Results("failed")]
Observe ==
    seen' = [pacts |-> seen.pacts \cup pacts',
             inEnvironment |-> seen.inEnvironment \cup inEnvironment',
             stillPacts |-> seen.stillPacts \cap pacts',
             stillInEnvironment |-> seen.stillInEnvironment \cap inEnvironment',
             passed |-> seen.passed \cup Results("passed")',
             failed |-> seen.failed \cup Results("failed")']

\* A database that requests may have left behind.
OnePactEach(ps) ==
    \A x, y \in ps : (x[1] = y[1] /\ x[2][2] = y[2][2]) => x = y
Init ==
    /\ versions \in {Established \cup others : others \in SUBSET (Versions \ Established)}
    /\ pacts \in SUBSET {x \in Publishable : x[1] \in versions}
    /\ OnePactEach(pacts)
    /\ latest \in [Verifiable -> Outcomes]
    /\ \A x \in Verifiable :
         latest[x] # "none" => x[2] \in versions /\ \E v \in Versions : <<v, x[1]>> \in pacts
    /\ inEnvironment \in SUBSET Established
    /\ changes = 0
    /\ asked \in Questions /\ ignored \in Ignores
    /\ pc = "specified"
    /\ found = FALSE /\ integrations = {} /\ required = {} /\ todo = {} /\ selected = {}
    /\ answer = "none"
    /\ seen = Observed

Change ==
    /\ pc # "answered" /\ changes < MaxChanges
    /\ changes' = changes + 1
    /\ Observe
    /\ UNCHANGED <<question, pc, query>>

\* A pact is published for a version; it replaces the one the version had.
Publish(v, c) ==
    /\ <<v, c>> \in Publishable
    /\ pacts' = {x \in pacts : x[1] # v \/ x[2][2] # c[2]} \cup {<<v, c>>}
    /\ versions' = versions \cup {v}
    /\ UNCHANGED <<latest, inEnvironment>>
    /\ Change

\* A result arrives for a content that has been published.
PublishResult(c, v, outcome) ==
    /\ <<c, v>> \in Verifiable
    /\ \E x \in pacts : x[2] = c
    /\ latest' = [latest EXCEPT ![<<c, v>>] = outcome]
    /\ versions' = versions \cup {v}
    /\ UNCHANGED <<pacts, inEnvironment>>
    /\ Change

\* A deployment replaces the version at its target, if there is one.
Deploy_Unknown(v) ==
    /\ inEnvironment' = inEnvironment \cup {v}
    /\ UNCHANGED <<versions, pacts, latest>>
    /\ Change
Deploy(v) ==
    /\ v \in versions
    /\ \E others \in SUBSET {w \in inEnvironment : w[1] = v[1]} :
         /\ Cardinality(others) <= 1
         /\ inEnvironment' = (inEnvironment \ others) \cup {v}
    /\ UNCHANGED <<versions, pacts, latest>>
    /\ Change

\* A version is undeployed, or no longer supported.
Leave(v) ==
    /\ v \in inEnvironment
    /\ inEnvironment' = inEnvironment \ {v}
    /\ UNCHANGED <<versions, pacts, latest>>
    /\ Change

-----------------------------------------------------------------------------
(* The queries of Repository#find, in order.                               *)

At(step) == pc = step /\ todo = {}
Go(step) == pc' = step /\ UNCHANGED <<database, changes, question, seen>>

Name == asked[1]
Specified == IF found THEN {asked} ELSE {}

FindVersion ==
    /\ At("specified")
    /\ found' = (asked \in versions)
    /\ selected' = IF asked \in versions THEN {asked} ELSE {}
    /\ Go("providers")
    /\ UNCHANGED <<integrations, required, todo, answer>>

\* The providers of the version: each is required.
FindProviders ==
    LET pairs == {<<Name, x[2][2]>> : x \in {y \in pacts : y[1] \in Specified}}
    IN /\ At("providers")
       /\ integrations' = pairs
       /\ required' = pairs
       /\ Go("consumers")
       /\ UNCHANGED <<found, todo, selected, answer>>

\* The consumers of the pacticipant, whatever their versions ...
FindConsumers ==
    /\ At("consumers")
    /\ todo' = {x[2][1] : x \in {y \in pacts : y[2][2] = Name}}
    /\ Go("required")
    /\ UNCHANGED <<found, integrations, required, selected, answer>>

\* ... each required if any of its versions is in the environment.
CheckConsumer(c) ==
    /\ pc = "required" /\ c \in todo
    /\ todo' = todo \ {c}
    /\ integrations' = integrations \cup {<<c, Name>>}
    /\ required' = IF \E v \in inEnvironment : v[1] = c THEN required \cup {<<c, Name>>}
                   ELSE required
    /\ Go("required")
    /\ UNCHANGED <<found, selected, answer>>

\* The other pacticipants of the integrations get a selector for each of their
\* versions in the environment, or one for no version at all.
Inferred == (UNION {{x[1], x[2]} : x \in integrations}) \ {Name}

InferSelectors ==
    /\ At("required")
    /\ todo' = Inferred
    /\ Go("inferred")
    /\ UNCHANGED <<found, integrations, required, selected, answer>>

VersionsFor_Latest(p) ==
    {v \in inEnvironment : v[1] = p /\ \A w \in inEnvironment : w[1] = p => w[2] <= v[2]}
VersionsFor(p) == {v \in inEnvironment : v[1] = p}
ResolveSelector(p) ==
    /\ pc = "inferred" /\ p \in todo
    /\ todo' = todo \ {p}
    /\ selected' = selected \cup VersionsFor(p)
    /\ Go("inferred")
    /\ UNCHANGED <<found, integrations, required, answer>>

(* The rows: <<consumer version, content, provider version>>.              *)

\* The verifications are filtered first, so that a pact verified by other
\* versions only has a row that says it is not verified.
LeftJoin_Unfiltered(x, vs) ==
    LET all == {v \in Versions : <<x[2], v>> \in Verifiable /\ latest[<<x[2], v>>] # "none"}
    IN {<<x[1], x[2], v>> : v \in IF all = {} THEN {NoVersion} ELSE all}
LeftJoin(x, vs) ==
    LET joined == {v \in vs : <<x[2], v>> \in Verifiable /\ latest[<<x[2], v>>] # "none"}
    IN {<<x[1], x[2], v>> : v \in IF joined = {} THEN {NoVersion} ELSE joined}

Rows ==
    IF Inferred = {}
    THEN {row \in UNION {LeftJoin(x, Versions) : x \in pacts} :
            row[1] \in Specified \/ row[3] \in Specified}
    ELSE {row \in UNION {LeftJoin(x, selected) : x \in pacts} :
            /\ row[1] \in selected
            /\ Name \in {row[2][1], row[2][2]}
            /\ row[3] = NoVersion => row[2][2] \in Inferred \cup {Name}}

\* Of the rows of a consumer version and a provider, the one of its latest version.
LatestBy(rows) ==
    {row \in rows : \A other \in rows :
        (other[1] = row[1] /\ other[2][2] = row[2][2] /\ row[3] # NoVersion)
            => other[3][2] <= row[3][2]}

Success(row) == latest[<<row[2], row[3]>>] = "passed"

Deployable_NilIsFalse(rows) ==
    LET considered == {row \in rows : {row[2][1], row[2][2]} \cap ignored = {}}
    IN IF \A row \in considered : row[3] # NoVersion /\ Success(row) THEN "yes" ELSE "no"
Deployable(rows) ==
    LET considered == {row \in rows : {row[2][1], row[2][2]} \cap ignored = {}}
        without == {x \in required : \A row \in rows : <<row[2][1], row[2][2]>> # x}
    IN IF ~found /\ Name \notin ignored THEN "no"
       ELSE IF (\E row \in considered : row[3] = NoVersion) \/ without # {} THEN "unknown"
       ELSE IF \A row \in considered : Success(row) THEN "yes" ELSE "no"

QueryMatrix ==
    /\ At("inferred")
    /\ answer' = Deployable(LatestBy(Rows))
    /\ Go("answered")
    /\ UNCHANGED <<found, integrations, required, todo, selected>>

Next ==
    \/ \E v \in Versions, c \in Contents : Publish(v, c)
    \/ \E c \in Contents, v \in Versions, outcome \in {"passed", "failed"} :
         PublishResult(c, v, outcome)
    \/ \E v \in Versions : Deploy(v) \/ Leave(v)
    \/ FindVersion \/ FindProviders \/ FindConsumers \/ InferSelectors
    \/ \E p \in Pacticipants : CheckConsumer(p) \/ ResolveSelector(p)
    \/ QueryMatrix

Spec == Init /\ [][Next]_vars

-----------------------------------------------------------------------------
(* Properties.                                                             *)

\* The type invariant.  A version has at most one pact with a provider, and what
\* is in the environment exists.
TypeOK ==
    /\ versions \subseteq Versions /\ inEnvironment \subseteq versions
    /\ pacts \subseteq Publishable /\ OnePactEach(pacts)
    /\ latest \in [Verifiable -> Outcomes]
    /\ asked \in Questions /\ ignored \in Ignores
    /\ required \subseteq integrations /\ integrations \subseteq Pacticipants \X Pacticipants
    /\ todo \subseteq Pacticipants /\ selected \subseteq Versions
    /\ answer \in {"none", "yes", "no", "unknown"}

Considered(x) == {x[2][1], x[2][2]} \cap ignored = {}

\* Yes means that every pact the version has had since the question was asked was
\* verified, successfully, by a version of its provider that was in the environment:
\* results of versions that have never been there do not count, and neither does a
\* missing result, whatever others publish, verify and deploy between the queries.
YesCoversProviders ==
    answer = "yes" =>
        \A x \in seen.stillPacts : (x[1] = asked /\ Considered(x)) =>
            \E v \in seen.inEnvironment : <<x[2], v>> \in seen.passed

\* Yes means that the version has verified, successfully, the pact of every consumer
\* version that has been in the environment since the question was asked, not only
\* of the latest one.
YesCoversConsumers ==
    answer = "yes" =>
        \A x \in seen.stillPacts :
            (x[1] \in seen.stillInEnvironment /\ x[2][2] = Name /\ Considered(x)) =>
                <<x[2], asked>> \in seen.passed

\* No, rather than unknown, means that the version did not exist, or that a pact of
\* the version, or one that it has verified, has failed.
NoHasAReason ==
    answer = "no" =>
        \/ ~found
        \/ \E x \in seen.pacts, v \in Versions :
             /\ <<x[2], v>> \in seen.failed
             /\ asked \in {x[1], v}
=============================================================================
