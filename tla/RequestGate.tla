----------------------------- MODULE RequestGate -----------------------------
(***************************************************************************)
(* What a request meets before its handler: RateLimitMiddleware, which     *)
(* counts requests per tenant, bucket and one-minute window in the memory  *)
(* of the process, and TenantValidationMiddleware, which compares the      *)
(* X-Tenant-Id header with the tenants the body declares.                  *)
(*                                                                         *)
(* The limiter reads the body before it looks at the clock and does the    *)
(* rest without an await, so counting is one step; requests arrive, are    *)
(* counted and are validated in any order.                                 *)
(***************************************************************************)
EXTENDS Integers, Sequences, FiniteSets

CONSTANTS Requests,       \* the requests that may arrive
          PathOf,         \* the path of each
          HeaderOf,       \* its X-Tenant-Id header, or NoHeader
          TenantsOf,      \* the tenantIds its body declares, one per event
          TenantIds,      \* the strings used as tenantId, "" included
          NoHeader,       \* there is no X-Tenant-Id header
          Undeclared,     \* an event without a tenantId
          NoString,       \* a tenantId that is no string
          EventsLimit,    \* events_rate_limit_per_minute, 1000 by default
          IntentLimit,    \* intent_rate_limit_per_minute, 100 by default
          MaxWindow,      \* bound on the clock, in minutes
          MaxSetBacks,    \* bound on the times the clock is set back
          MaxRestarts     \* bound on restarts of the process

Paths == {"/v1/events", "/v1/events/batch", "/v1/resolve-intent", "other"}

\* A body that is missing, malformed or no object declares no tenant.
ASSUME GateAssumption ==
  /\ EventsLimit \in Nat
  /\ IntentLimit \in Nat
  /\ MaxWindow \in Nat
  /\ MaxSetBacks \in Nat
  /\ MaxRestarts \in Nat
  /\ {NoHeader, Undeclared, NoString} \intersect TenantIds = {}
  /\ PathOf \in [Requests -> Paths]
  /\ HeaderOf \in [Requests -> TenantIds \union {NoHeader}]
  /\ TenantsOf \in [Requests -> Seq(TenantIds \union {Undeclared, NoString})]
  /\ \A r \in Requests : PathOf[r] # "/v1/events/batch" => Len(TenantsOf[r]) <= 1

Buckets == {"events", "intent"}

Windows == 0..MaxWindow

Keys == TenantIds \X Buckets \X Windows

Stages == {"unsent", "limited", "counted", "uncounted", "mismatch", "handled", "gone"}

VARIABLES window,     \* int(time.time() // 60)
          counts,     \* RateLimitMiddleware._counts
          stage,      \* how far each request has come
          countedIn,  \* history: the window in which each was counted
          setBacks,   \* the times the clock was set back
          restarts    \* restarts of the process

clockVars == <<window, setBacks>>
vars == <<window, counts, stage, countedIn, setBacks, restarts>>

NoWindow == -1

TypeOK ==
  /\ window \in Windows
  /\ DOMAIN counts \subseteq Keys
  /\ \A key \in DOMAIN counts : counts[key] \in Nat \ {0}
  /\ stage \in [Requests -> Stages]
  /\ countedIn \in [Requests -> Windows \union {NoWindow}]
  /\ setBacks \in 0..MaxSetBacks
  /\ restarts \in 0..MaxRestarts

Init ==
  /\ window = 0
  /\ counts = <<>>
  /\ stage = [r \in Requests |-> "unsent"]
  /\ countedIn = [r \in Requests |-> NoWindow]
  /\ setBacks = 0
  /\ restarts = 0

-----------------------------------------------------------------------------
(***************************************************************************)
(* RateLimitMiddleware.                                                    *)
(***************************************************************************)

Limited(r) == PathOf[r] # "other"

BucketOf(r) == IF PathOf[r] = "/v1/resolve-intent" THEN "intent" ELSE "events"

LimitOf(bucket) == IF bucket = "intent" THEN IntentLimit ELSE EventsLimit

\* _extract_tenant_id: the header if it is there and not empty, else what the
\* body, or the first event of a batch, declares.
ChargedTo(r) ==
  IF HeaderOf[r] \notin {NoHeader, ""} THEN HeaderOf[r]
  ELSE IF TenantsOf[r] = <<>> THEN Undeclared ELSE Head(TenantsOf[r])

IsCounted(r) == Limited(r) /\ ChargedTo(r) \in TenantIds

KeyOf(r) == <<ChargedTo(r), BucketOf(r), window>>

\* Bug: nothing is pruned.
BugPruned == counts

\* Bug: everything is pruned.
BugPrunesAll == <<>>

\* _prune
Pruned == [key \in {k \in DOMAIN counts : k[3] = window} |-> counts[key]]

\* Bug: one counter for all tenants.
BugIncremented(key) ==
  LET old == {k \in DOMAIN Pruned : k[2] = key[2]}
      before == IF old = {} THEN 0 ELSE CHOOSE n \in {Pruned[k] : k \in old} :
                                          \A k \in old : Pruned[k] <= n
  IN [k \in DOMAIN Pruned \union {key} |-> IF k = key THEN before + 1 ELSE Pruned[k]]

Incremented(key) ==
  [k \in DOMAIN Pruned \union {key} |->
     (IF k \in DOMAIN Pruned THEN Pruned[k] ELSE 0) + (IF k = key THEN 1 ELSE 0)]

\* Bug: one request more than the limit passes.
BugExceeds(n, bucket) == n > LimitOf(bucket) + 1

Exceeds(n, bucket) == n > LimitOf(bucket)

\* dispatch, of a request that is counted and of one that is not.
Count(r) ==
  /\ stage[r] = "unsent"
  /\ IsCounted(r)
  /\ counts' = Incremented(KeyOf(r))
  /\ stage' = [stage EXCEPT ![r] =
                 IF Exceeds(counts'[KeyOf(r)], BucketOf(r)) THEN "limited" ELSE "counted"]
  /\ countedIn' = [countedIn EXCEPT ![r] = window]
  /\ UNCHANGED <<clockVars, restarts>>

PassUncounted(r) ==
  /\ stage[r] = "unsent"
  /\ ~IsCounted(r)
  /\ stage' = [stage EXCEPT ![r] = "uncounted"]
  /\ UNCHANGED <<clockVars, counts, countedIn, restarts>>

-----------------------------------------------------------------------------
(***************************************************************************)
(* TenantValidationMiddleware.                                             *)
(***************************************************************************)

\* Bug: of a batch, only the first event is looked at.
BugDeclared(r) == IF TenantsOf[r] = <<>> THEN {} ELSE {Head(TenantsOf[r])} \ {Undeclared}

\* _extract_tenant_ids: an empty tenantId counts only in a batch.
Declared(r) ==
  {TenantsOf[r][i] : i \in DOMAIN TenantsOf[r]} \
    (IF PathOf[r] = "/v1/events/batch" THEN {Undeclared} ELSE {Undeclared, ""})

Mismatch(r) ==
  /\ HeaderOf[r] # NoHeader
  /\ PathOf[r] # "other"
  /\ \E t \in Declared(r) : t # HeaderOf[r]

Validate(r) ==
  /\ stage[r] \in {"counted", "uncounted"}
  /\ stage' = [stage EXCEPT ![r] = IF Mismatch(r) THEN "mismatch" ELSE "handled"]
  /\ UNCHANGED <<clockVars, counts, countedIn, restarts>>

-----------------------------------------------------------------------------
(***************************************************************************)
(* The clock and the process.                                              *)
(***************************************************************************)

Tick ==
  /\ window < MaxWindow
  /\ window' = window + 1
  /\ UNCHANGED <<counts, stage, countedIn, setBacks, restarts>>

\* time.time() is no monotonic clock.
SetBack ==
  /\ setBacks < MaxSetBacks
  /\ window > 0
  /\ window' = window - 1
  /\ setBacks' = setBacks + 1
  /\ UNCHANGED <<counts, stage, countedIn, restarts>>

\* The counts are gone and requests under way fail.  What the old process did
\* is forgotten here too: the history is that of the present process.
Restart ==
  /\ restarts < MaxRestarts
  /\ counts' = <<>>
  /\ stage' = [r \in Requests |-> IF stage[r] = "unsent" THEN "unsent" ELSE "gone"]
  /\ countedIn' = [r \in Requests |-> NoWindow]
  /\ restarts' = restarts + 1
  /\ UNCHANGED clockVars

-----------------------------------------------------------------------------

\* No more requests are sent.
Quiescent ==
  /\ \A r \in Requests : stage[r] \notin {"unsent", "counted", "uncounted"}
  /\ UNCHANGED vars

Next ==
  \/ \E r \in Requests : Count(r) \/ PassUncounted(r) \/ Validate(r)
  \/ Tick
  \/ SetBack
  \/ Restart
  \/ Quiescent

Spec == Init /\ [][Next]_vars

-----------------------------------------------------------------------------
(***************************************************************************)
(* Properties.                                                             *)
(***************************************************************************)

\* The requests this process counted in a tenant's bucket in a window.
CountedFor(t, b, w) ==
  {r \in Requests : ChargedTo(r) = t /\ BucketOf(r) = b /\ countedIn[r] = w}

\* Whatever the order of requests and window changes, no tenant gets more than
\* its limit of requests past the limiter in one window (dispatch), as long as
\* the clock is not set back: that forgets what was counted.
WithinLimit ==
  setBacks = 0 =>
    \A t \in TenantIds : \A b \in Buckets : \A w \in Windows :
      Cardinality({r \in CountedFor(t, b, w) : stage[r] # "limited"}) <= LimitOf(b)

\* A 429 is deserved: the tenant itself, and not the others, sent more than its
\* limit in that bucket and that window, whatever the clock does.
LimitedOnlyOverLimit ==
  \A r \in Requests : stage[r] = "limited" =>
    Cardinality(CountedFor(ChargedTo(r), BucketOf(r), countedIn[r])) > LimitOf(BucketOf(r))

\* The memory of the limiter does not grow with time: one window is kept, so
\* there are at most two counters for each tenant (_prune).
OneWindowKept == \A j, k \in DOMAIN counts : j[3] = k[3]

\* What the limiter remembers of a window is what it counted in it; it is never
\* more, and less only when the clock was set back (_counts against its history).
CountsAreExact ==
  \A key \in DOMAIN counts :
    LET n == Cardinality(CountedFor(key[1], key[2], key[3])) IN
    counts[key] <= n /\ (setBacks = 0 => counts[key] = n)

\* A request that reaches a handler of a tenant's data with the header declares
\* no other tenant anywhere in its body (TenantValidationMiddleware,
\* docs/ENGINEERING_STANDARDS.md:118).
HeaderMatchesBody ==
  \A r \in Requests :
    stage[r] = "handled" /\ HeaderOf[r] # NoHeader /\ PathOf[r] # "other" =>
      \A i \in DOMAIN TenantsOf[r] :
        TenantsOf[r][i] \in TenantIds \ {""} => TenantsOf[r][i] = HeaderOf[r]

=============================================================================
