---------------------------- MODULE MCWebhookJobs ----------------------------
(* Instances of WebhookJobs for TLC. *)
EXTENDS WebhookJobs, TLC

CONSTANTS r1, r2, h1, h2, n1, n2, w1, w2, w3

\* Everything in one process.
OneNode == [x \in Requests \cup Workers |-> n1]

\* The first process has two workers, the second one; each serves a request.
TwoNodes == [x \in Requests \cup Workers |-> IF x \in {w3, r2} THEN n2 ELSE n1]

\* The two workers of the first process are interchangeable.
WorkerSymmetry == Permutations({w1, w2})
=============================================================================
