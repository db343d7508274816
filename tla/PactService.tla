------------------------------ MODULE PactService ------------------------------
(***************************************************************************)
(* What the requests about pacts promise, as if each acted in one step: a  *)
(* version has at most one current content, a request is answered once,    *)
(* and a request that no other one about the same version got ahead of     *)
(* does what is documented.  One that was overtaken between its arrival    *)
(* and its answer (raced) promises less: it may fail, miss what the other  *)
(* one wrote, or come too late to be served, but what it makes current is  *)
(* still its own content, by itself or merged into a content of before.    *)
(* Nor is one safe from the others that carries several tags, in an order  *)
(* that may be the opposite of theirs.                                     *)
(***************************************************************************)
EXTENDS Sequences

CONSTANTS
    Requests,           \* identities of requests
    Versions,           \* consumer versions
    Asks,               \* what clients may ask for: op, version, tags and body
    AllowModification,  \* whether PUT may change the content of a version
    Merge(_, _),        \* the second content merged into the first
    Conflict(_, _),     \* two contents that do not merge
    None                \* no content

VARIABLES
    asked,      \* asked[r]: what r asks for, or None
    answer,     \* answer[r]: "none", "open" or how it has ended
    current,    \* current[v]: the content of the current pact of v, or None
    announced,  \* contents that providers were told of
    raced       \* requests overtaken by another one about the same version

svars == <<asked, answer, current, announced, raced>>

Init ==
    /\ asked = [r \in Requests |-> None]
    /\ answer = [r \in Requests |-> "none"]
    /\ current = [v \in Versions |-> None]
    /\ announced = {} /\ raced = {}

Ask(r) ==
    /\ answer[r] = "none"
    /\ \E w \in Asks : asked' = [asked EXCEPT ![r] = w]
    /\ answer' = [answer EXCEPT ![r] = "open"]
    /\ UNCHANGED <<current, announced, raced>>

\* The requests about the version of r that are open when r ends.
Overtaken(r) ==
    {q \in Requests \ {r} : answer[q] = "open" /\ asked[q].version = asked[r].version}

Answer(r, outcome) ==
    /\ answer[r] = "open"
    /\ answer' = [answer EXCEPT ![r] = outcome]
    /\ raced' = raced \cup (IF outcome = "done" THEN Overtaken(r) ELSE {})
    /\ UNCHANGED asked

Merging(q) == q.op \in {"merge", "patch"}

\* PATCH does not merge what conflicts, PUT does not modify where that is not allowed.
Refusable(q) ==
    /\ current[q.version] # None
    /\ \/ q.op = "patch" /\ Conflict(current[q.version], q.body)
       \/ q.op = "put" /\ ~AllowModification /\ current[q.version] # q.body

Result(q) ==
    IF Merging(q) /\ current[q.version] # None
    THEN Merge(current[q.version], q.body) ELSE q.body

\* What a request can make current, however late it is.
Own(q) == {q.body} \cup {Merge(x, q.body) : x \in {x \in announced : Merging(q)}}

\* Those that carry several tags and meet at least one another with one of these
\* may each have inserted what the other inserts next.
Several(tags) == \E i, j \in DOMAIN tags : tags[i] # tags[j]
Common(s, t) == \E i \in DOMAIN s, j \in DOMAIN t : s[i] = t[j]
Entangled(r) ==
    /\ Several(asked[r].tags)
    /\ \E q \in Overtaken(r) :
          Several(asked[q].tags) /\ Common(asked[q].tags, asked[r].tags)

Refuse(r) ==
    /\ \/ Answer(r, "conflict") /\ Refusable(asked[r])
       \/ Answer(r, "missing") /\ asked[r].op = "delete" /\ current[asked[r].version] = None
       \/ Answer(r, "error") /\ (r \in raced \/ Entangled(r))
    /\ UNCHANGED <<current, announced>>

\* The content is current from now on; one that came too late is answered alike.
Write(r) ==
    LET q == asked[r]
    IN /\ Answer(r, "done") /\ q.op # "delete"
       /\ \E content \in Own(q) :
            /\ announced' = announced \cup {content}
            /\ \/ /\ r \in raced \/ (content = Result(q) /\ ~Refusable(q))
                  /\ current' = [current EXCEPT ![q.version] = content]
               \/ r \in raced /\ UNCHANGED current

Delete(r) ==
    LET v == asked[r].version
    IN /\ Answer(r, "done") /\ asked[r].op = "delete"
       /\ \/ /\ r \in raced \/ current[v] # None
             /\ current' = [current EXCEPT ![v] = None]
          \/ r \in raced /\ UNCHANGED current
       /\ UNCHANGED announced

Next == \E r \in Requests : Ask(r) \/ Refuse(r) \/ Write(r) \/ Delete(r)

Spec == Init /\ [][Next]_svars
=============================================================================
