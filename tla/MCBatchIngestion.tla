-------------------------- MODULE MCBatchIngestion --------------------------
(***************************************************************************)
(* Small instances of BatchIngestion.                                      *)
(***************************************************************************)
EXTENDS BatchIngestion, TLC

CONSTANTS l1, l2, l3

Valid(id) == [eventId |-> id, kind |-> "valid"]
Invalid(id) == [eventId |-> id, kind |-> "invalid"]
NoObject(id) == [eventId |-> id, kind |-> "noObject"]

\* Two loads of one file at the same time, in batches of two: a batch with the
\* highest share of failures that passes, and an eventId that is repeated.
SharedFile == <<Valid(1), Invalid(2), Valid(1)>>
SameFile == [l \in Loaders |-> Chunks(SharedFile, 2)]

SameLoaders == Permutations(Loaders)

\* The real threshold, and every way to be rejected: one failure in ten events
\* is accepted and one in nine is not; eleven events are too many here; an event
\* that is no object ends the handler half way.  The files overlap.
BadFiles ==
  [l \in Loaders |->
     CASE l = l1 -> Chunks([i \in 1..19 |-> IF i \in {2, 12} THEN Invalid(i) ELSE Valid(i)], 10)
       [] l = l2 -> <<[i \in 1..10 |-> IF i = 2 THEN NoObject(i) ELSE Valid(i)]>>
       [] l = l3 -> <<[i \in 1..11 |-> Valid(i)]>>]

Shops == [l \in Loaders |-> "shops"]
\* A seed loader among them, whose report is not what is asked about then.
BothTools == [l \in Loaders |-> IF l = l2 THEN "seed_events" ELSE "shops"]

=============================================================================
