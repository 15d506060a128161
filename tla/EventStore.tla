----------------------------- MODULE EventStore -----------------------------
(***************************************************************************)
(* What event ingestion promises its callers, without SDK retries, HTTP,   *)
(* transactions or graph nodes: an event is persisted at most once per     *)
(* eventId, a call that is told "accepted" (201) has its own event         *)
(* persisted, and a call that is told "duplicate" (409) asked to store an  *)
(* eventId that is persisted.  A call may fail and its event be persisted  *)
(* all the same: the answer was lost, not the event.                       *)
(***************************************************************************)

CONSTANTS Calls,      \* the emit() calls the producers make
          IdOf        \* the eventId each call sends

VARIABLES stored,     \* the calls whose event is persisted
          outcome     \* what each call has been told: pending, accepted, duplicate, failed

storeVars == <<stored, outcome>>

IsPersisted(id) == \E d \in stored : IdOf[d] = id

StoreInit ==
  /\ stored = {}
  /\ outcome = [c \in Calls |-> "pending"]

Persist(c) ==
  /\ ~IsPersisted(IdOf[c])
  /\ stored' = stored \union {c}
  /\ UNCHANGED outcome

Tell(c, answer) ==
  /\ outcome[c] = "pending"
  /\ outcome' = [outcome EXCEPT ![c] = answer]
  /\ UNCHANGED stored

Accept(c) == c \in stored /\ Tell(c, "accepted")

ReportDuplicate(c) == IsPersisted(IdOf[c]) /\ Tell(c, "duplicate")

Fail(c) == Tell(c, "failed")

StoreNext ==
  \E c \in Calls : Persist(c) \/ Accept(c) \/ ReportDuplicate(c) \/ Fail(c)

StoreSpec == StoreInit /\ [][StoreNext]_storeVars

=============================================================================
