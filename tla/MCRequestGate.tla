---------------------------- MODULE MCRequestGate ----------------------------
(***************************************************************************)
(* Small instances of RequestGate: a request is a name with its path, its  *)
(* header and the tenants of its body.                                     *)
(***************************************************************************)
EXTENDS RequestGate, TLC

CONSTANTS none, missing, number

MCTenantIds == {"a", "b", ""}

Events == "/v1/events"
BatchPath == "/v1/events/batch"
Intent == "/v1/resolve-intent"

Shapes ==
  <<<<Events, "a", <<"a">>>>,                   \* an SDK
    <<Events, none, <<"a">>>>,                  \* the same without the header
    <<BatchPath, "a", <<"a", missing, "a">>>>,  \* a loader
    <<BatchPath, "b", <<"b", "a">>>>,           \* another tenant's event inside
    <<Intent, "a", <<"a">>>>,
    <<BatchPath, "", <<number, "b">>>>,         \* charged to nobody
    <<"other", "b", <<>>>>>>

AllRequests == 1..7

MCPathOf == [r \in Requests |-> Shapes[r][1]]
MCHeaderOf == [r \in Requests |-> Shapes[r][2]]
MCTenantsOf == [r \in Requests |-> Shapes[r][3]]

=============================================================================
