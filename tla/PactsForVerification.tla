--------------------------- MODULE PactsForVerification ---------------------------
(***************************************************************************)
(* The pacts that a build of a provider is given to verify: those that its *)
(* selector chooses, each pending or not, and the work in progress.        *)
(*                                                                         *)
(* The list comes from many queries in no transaction, while consumers     *)
(* publish and other builds tag themselves and publish results.  Rows are  *)
(* only added.  A row gets its created_at before its transaction commits,  *)
(* so that one which appears may be stamped earlier than others that have  *)
(* been seen already; times are from 1 on, and the time of a row that does *)
(* not exist is 0.  There is one consumer, and a build asks with one       *)
(* selector and for one tag or branch of its own.                          *)
(***************************************************************************)
EXTENDS Integers, FiniteSetsExt

CONSTANTS
    Names,        \* of tags and branches
    Contents,
    Labels,       \* the tags and branches of consumer versions: <<kind, name>>
    Versions,     \* the consumer's versions, in their order: numbers
    Builds,       \* the provider's versions
    Questions,    \* what a build may ask for
    MaxTime,      \* the last time at which something changes
    Delay,        \* the longest time from a stamp to its commit
    ClientDates,  \* what clients may say of when they verified a pact
    NoContent, NoName

Kinds == {"tag", "branch"}
Outcomes == {"passed", "passed_wip", "failed"}
Times == 0 .. MaxTime
Never == MaxTime + 1

ASSUME PactsForVerificationAssumption ==
    /\ 1 \in Versions /\ Versions \subseteq Nat /\ MaxTime \in Nat \ {0}
    /\ Delay \in Nat /\ ClientDates \subseteq Times
    /\ Labels \subseteq Kinds \X Names
    /\ NoContent \notin Contents /\ NoName \notin Names
    /\ \A q \in Questions :
         /\ q.by \in Kinds /\ q.name \in Names   \* the tag or the branch of the build
         /\ q.selector \in Names      \* the latest for this tag of the consumer
         /\ q.since \in Times                    \* include_wip_pacts_since

VARIABLES
    now,
    content, publishedAt, \* the publication of each consumer version
    labelled,     \* which of them has which tag or branch: <<v, l>>
    createdAt,    \* the stamp of each build, as a version
    tagAt,        \* tagAt[<<b, n>>]: that of the tag n of b
    branch,       \* of each build
    results,      \* verifications
    pc, question,
    asked,        \* history: what was there when the list was asked for
    selected, todo, current, own, pending,
    scope, first, potential, wip

consumers == <<content, publishedAt, labelled>>
providers == <<createdAt, tagAt, branch, results>>
list == <<question, asked, selected, todo, current, own, pending, scope, first, potential, wip>>
vars == <<now, consumers, providers, pc, list>>

-----------------------------------------------------------------------------
\* When a result was executed is for the client to say.
Result(c, b, outcome, at, executed) ==
    [content |-> c, build |-> b, outcome |-> outcome, at |-> at, executed |-> executed]

\* The first version of the consumer is there, and a build of the provider with a tag
\* that may have verified it.
Init ==
    /\ now = 1
    /\ \E c \in Contents, b \in Builds, l \in Labels :
         /\ content = [v \in Versions |-> IF v = 1 THEN c ELSE NoContent]
         /\ labelled = {<<1, l>>}
         /\ createdAt = [d \in Builds |-> IF d = b THEN 1 ELSE 0]
         /\ tagAt = [x \in Builds \X Names |-> IF x = <<b, l[2]>> THEN 1 ELSE 0]
         /\ \/ results = {}
            \/ \E outcome \in Outcomes : results = {Result(c, b, outcome, 1, 1)}
    /\ publishedAt = [v \in Versions |-> IF v = 1 THEN 1 ELSE 0]
    /\ branch = [b \in Builds |-> NoName]
    /\ pc = "idle" /\ question \in Questions
    /\ asked = [results |-> {}, builds |-> {}, first |-> Never, labelled |-> {}]
    /\ selected = {} /\ todo = {} /\ current = NoContent /\ own = FALSE /\ pending = {}
    /\ scope = question.by /\ first = Never /\ potential = {} /\ wip = {}

(* What others add meanwhile. *)

Published == {v \in Versions : content[v] # NoContent}

Change ==
    /\ pc # "answered" /\ now < MaxTime
    /\ now' = now + 1
    /\ UNCHANGED <<pc, list>>

\* What is committed now, by a request that has found or made its version by time t, has
\* been stamped since then.
Stamps(t) == {s \in t .. now' : now' - s <= Delay}

\* The next version of the consumer is published, with a tag or a branch.
PublishPact(v, c, l) ==
    /\ Change
    /\ v \notin Published /\ \A w \in Versions : w < v => w \in Published
    /\ content' = [content EXCEPT ![v] = c]
    /\ \E at \in Stamps(1) : publishedAt' = [publishedAt EXCEPT ![v] = at]
    /\ labelled' = labelled \cup {<<v, l>>}
    /\ UNCHANGED providers

TagConsumerVersion(v, n) ==
    /\ Change
    /\ v \in Published /\ <<"tag", n>> \in Labels /\ <<v, <<"tag", n>>>> \notin labelled
    /\ labelled' = labelled \cup {<<v, <<"tag", n>>>>}
    /\ UNCHANGED <<content, publishedAt, providers>>

\* A request about a build creates it if it is new.
Created_Again(b) == \E at \in Stamps(1) : createdAt' = [createdAt EXCEPT ![b] = at]
Created(b) ==
    \E at \in Stamps(1) : createdAt' = [createdAt EXCEPT ![b] = IF @ = 0 THEN at ELSE @]

TagBuild(b, n) ==
    /\ Change
    /\ tagAt[<<b, n>>] = 0
    /\ Created(b)
    /\ \E at \in Stamps(createdAt'[b]) : tagAt' = [tagAt EXCEPT ![<<b, n>>] = at]
    /\ UNCHANGED <<consumers, branch, results>>

SetBranch(b, n) ==
    /\ Change
    /\ branch[b] = NoName
    /\ branch' = [branch EXCEPT ![b] = n]
    /\ Created(b)
    /\ UNCHANGED <<consumers, tagAt, results>>

\* A result, with the wip flag that its build was given with the pact.
PublishResult(c, b, outcome) ==
    /\ Change
    /\ \E v \in Published : content[v] = c
    /\ Created(b)
    /\ \E at \in Stamps(createdAt'[b]) : \E executed \in ClientDates \cup {at} :
         results' = results \cup {Result(c, b, outcome, at, executed)}
    /\ UNCHANGED <<consumers, tagAt, branch>>

-----------------------------------------------------------------------------
(* The queries. *)

\* The latest of the versions that have a label.
Latest(l, versions) ==
    {v \in versions :
        /\ l \in Labels /\ <<v, l>> \in labelled
        /\ \A w \in versions : <<w, l>> \in labelled => w <= v}

\* The head versions: latest_by_consumer_tag, latest_by_consumer_branch.
Heads(kind, since) ==
    UNION {Latest(l, {v \in Published : publishedAt[v] > since}) : l \in {m \in Labels : m[1] = kind}}

\* The builds with a tag, or on a branch, and when it was first used.  For a branch
\* that is when the first of its builds was created, whatever it was created for.
Marked(kind, n) ==
    IF kind = "tag" THEN {b \in Builds : tagAt[<<b, n>>] # 0} ELSE {b \in Builds : branch[b] = n}
MarkedOtherwise(kind, n) == UNION {Marked(kind, m) : m \in Names \ {n}}
FirstUse_Created(kind, n) == Min({createdAt[b] : b \in Marked(kind, n)} \cup {Never})
FirstUse(kind, n) ==
    Min({IF kind = "tag" THEN tagAt[<<b, n>>] ELSE createdAt[b] : b \in Marked(kind, n)} \cup {Never})

Passed == {"passed", "passed_wip"}
Verified(c, builds, outcomes, rows) ==
    \E r \in rows : r.content = c /\ r.build \in builds /\ r.outcome \in outcomes
\* No result is as late as Never, the first use of what has not been used.
CreatedBefore(time) == {r \in results : r.at < time}
ExecutedBefore(time) == {r \in results : r.executed < time}

Go(step) == pc' = step /\ UNCHANGED <<now, consumers, providers, question>>

FindSelected ==
    LET found == {content[v] : v \in Latest(<<"tag", question.selector>>, Published)}
    IN /\ pc = "idle"
       /\ asked' = [results |-> results, builds |-> Marked(question.by, question.name),
                    first |-> FirstUse(question.by, question.name), labelled |-> labelled]
       /\ selected' = found /\ todo' = found
       /\ Go("pending")
       /\ UNCHANGED <<current, own, pending, scope, first, potential, wip>>

(* Is a selected pact pending?  Without tags, if no build has verified it. *)

CheckAny(c) ==
    /\ pc = "pending" /\ c \in todo /\ question.by = "branch"
    /\ todo' = todo \ {c}
    /\ pending' = IF Verified(c, Builds, Passed, results) THEN pending ELSE pending \cup {c}
    /\ Go("pending")
    /\ UNCHANGED <<asked, selected, current, own, scope, first, potential, wip>>

CheckOwnTag(c) ==
    /\ pc = "pending" /\ c \in todo /\ question.by = "tag"
    /\ todo' = todo \ {c} /\ current' = c
    /\ own' = Verified(c, Marked("tag", question.name), Passed, results)
    /\ Go("pending_first")
    /\ UNCHANGED <<asked, selected, pending, scope, first, potential, wip>>

FindFirstTag ==
    /\ pc = "pending_first"
    /\ first' = FirstUse("tag", question.name)
    /\ Go("pending_other")
    /\ UNCHANGED <<asked, selected, todo, current, own, pending, scope, potential, wip>>

CheckOtherTags_Alone ==
    LET other == Verified(current, MarkedOtherwise("tag", question.name), Passed,
                          CreatedBefore(first))
    IN /\ pc = "pending_other"
       /\ pending' = IF other THEN pending ELSE pending \cup {current}
       /\ current' = NoContent /\ own' = FALSE /\ first' = Never
       /\ Go("pending")
       /\ UNCHANGED <<asked, selected, todo, scope, potential, wip>>
CheckOtherTags ==
    LET other == Verified(current, MarkedOtherwise("tag", question.name), Passed,
                          CreatedBefore(first))
    IN /\ pc = "pending_other"
       /\ pending' = IF own \/ other THEN pending ELSE pending \cup {current}
       /\ current' = NoContent /\ own' = FALSE /\ first' = Never
       /\ Go("pending")
       /\ UNCHANGED <<asked, selected, todo, scope, potential, wip>>

(* The work in progress: the heads by tag and those by branch, without those    *)
(* that were selected or successfully verified otherwise than as work in progress. *)
(* Each query for what to remove looks for the heads again.                     *)

FindFirstUse ==
    /\ pc = "wip" \/ (pc = "pending" /\ todo = {})
    /\ first' = FirstUse(question.by, question.name)
    /\ Go("wip_potential")
    /\ UNCHANGED <<asked, selected, todo, current, own, pending, scope, potential, wip>>

FindPotential ==
    /\ pc = "wip_potential"
    /\ potential' = Heads(scope, question.since)
    /\ Go("wip_specified")
    /\ UNCHANGED <<asked, selected, todo, current, own, pending, scope, first, wip>>

Subtract(step, versions, next) ==
    /\ pc = step
    /\ potential' = potential \ (versions \cap Heads(scope, question.since))
    /\ Go(next)
    /\ UNCHANGED <<asked, selected, todo, current, own, pending, scope, first, wip>>

SubtractSpecified ==
    Subtract("wip_specified", {v \in Published : content[v] \in selected}, "wip_own")

VerifiedOwn_AnyResult ==
    {v \in Published : Verified(content[v], Marked(question.by, question.name), Passed, results)}
VerifiedOwn_Before ==
    {v \in Published :
        Verified(content[v], Marked(question.by, question.name), {"passed"}, ExecutedBefore(first))}
VerifiedOwn ==
    {v \in Published : Verified(content[v], Marked(question.by, question.name), {"passed"}, results)}
SubtractOwn == Subtract("wip_own", VerifiedOwn, "wip_other")

VerifiedOther ==
    {v \in Published :
        Verified(content[v], MarkedOtherwise(question.by, question.name), {"passed"},
                 ExecutedBefore(first))}
\* After the heads of one kind come those of the other.
SubtractOther ==
    LET left == potential \ (VerifiedOther \cap Heads(scope, question.since))
    IN /\ pc = "wip_other"
       /\ wip' = wip \cup {<<scope, v>> : v \in left}
       /\ potential' = {} /\ first' = Never
       /\ IF scope = question.by
          THEN scope' = (CHOOSE k \in Kinds : k # scope) /\ Go("wip")
          ELSE scope' = scope /\ Go("answered")
       /\ UNCHANGED <<asked, selected, todo, current, own, pending>>

Next ==
    \/ \E v \in Versions, c \in Contents, l \in Labels : PublishPact(v, c, l)
    \/ \E v \in Versions, n \in Names : TagConsumerVersion(v, n)
    \/ \E b \in Builds, n \in Names : TagBuild(b, n) \/ SetBranch(b, n)
    \/ \E c \in Contents, b \in Builds, outcome \in Outcomes : PublishResult(c, b, outcome)
    \/ FindSelected
    \/ \E c \in Contents : CheckAny(c) \/ CheckOwnTag(c)
    \/ FindFirstTag \/ CheckOtherTags
    \/ FindFirstUse \/ FindPotential
    \/ SubtractSpecified \/ SubtractOwn \/ SubtractOther

Spec == Init /\ [][Next]_vars

-----------------------------------------------------------------------------
(* Properties. *)

\* The type invariant.  No stamp is of a time that has not come yet, and a build is as old
\* as its oldest tag or result.
TypeOK ==
    /\ content \in [Versions -> Contents \cup {NoContent}]
    /\ \A v \in Versions : publishedAt[v] \in 0 .. now /\ (publishedAt[v] = 0 <=> v \notin Published)
    /\ labelled \subseteq Published \X Labels
    /\ \A x \in Builds \X Names : tagAt[x] # 0 => tagAt[x] \in createdAt[x[1]] .. now
    /\ \A b \in Builds : branch[b] # NoName => createdAt[b] \in 1 .. now
    /\ \A r \in results : createdAt[r.build] # 0 /\ r.at \in createdAt[r.build] .. now
    /\ asked.results \subseteq results /\ asked.builds \subseteq Builds
    /\ asked.labelled \subseteq labelled
    /\ pending \subseteq selected /\ selected \subseteq Contents

\* What a build with the tag n is told of a content when nothing changes meanwhile.
Pending(c, n) ==
    /\ ~Verified(c, Marked("tag", n), Passed, results)
    /\ ~Verified(c, MarkedOtherwise("tag", n), Passed, CreatedBefore(FirstUse("tag", n)))

\* "If a verification ... fails in the future, it will fail the build": a content that is
\* not pending for a tag becomes pending again only through a build that gets the tag with
\* a stamp no later than that of a result for it which was there before.
StaysNonPending ==
    [][\A c \in Contents, n \in Names :
          ~Pending(c, n) /\ Pending(c, n)' =>
             \E b \in Builds, r \in results :
                r.content = c /\ tagAt[<<b, n>>] = 0 /\ tagAt'[<<b, n>>] \in 1 .. r.at]_vars

\* A build is told of a pact that it is not pending, so that a failure breaks it, only
\* if it is not, or if the first use of the tag has been moved since the list was asked
\* for; and that it is pending only if no build that had the tag then had verified it.
PendingIsTruthful ==
    (pc = "answered" /\ question.by = "tag") =>
        \A c \in selected :
            IF c \in pending
            THEN ~Verified(c, asked.builds, Passed, asked.results)
            ELSE ~Pending(c, question.name) \/ FirstUse("tag", question.name) # asked.first

\* No head is overlooked: one that is in the list neither as selected nor as work in
\* progress has been verified, not just as work in progress, by a build with the tag or
\* branch in question, or by others that said they did so before that was first used, as
\* far as it had been when the list was asked for; whatever has happened to the other
\* heads and results while the list was made.
Listed == selected \cup {content[x[2]] : x \in wip}
StillHead(kind, v) ==
    \E l \in Labels :
        /\ l[1] = kind /\ <<v, l>> \in asked.labelled
        /\ v \in Latest(l, {w \in Published : publishedAt[w] > question.since})
NoHeadIsOverlooked ==
    pc = "answered" =>
        \A kind \in Kinds, v \in Published :
            StillHead(kind, v) =>
               \/ content[v] \in Listed
               \/ Verified(content[v], Marked(question.by, question.name), {"passed"}, results)
               \/ Verified(content[v], MarkedOtherwise(question.by, question.name), {"passed"},
                           ExecutedBefore(asked.first))

\* What is given as work in progress was no selected pact and had not been verified
\* otherwise by the tag or branch when the list was asked for, unless it has ceased to
\* be a head since.
WipIsUnverified ==
    pc = "answered" =>
        \A x \in wip :
            StillHead(x[1], x[2]) =>
                /\ content[x[2]] \notin selected
                /\ ~Verified(content[x[2]], asked.builds, {"passed"}, asked.results)
=============================================================================
