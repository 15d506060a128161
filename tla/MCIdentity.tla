----------------------------- MODULE MCIdentity -----------------------------
(***************************************************************************)
(* Small instances of Identity.  A user is <<application, nativeUserId>>.  *)
(***************************************************************************)
EXTENDS Identity

\* _normalize_email
MCNormal ==
  [id \in {"p@x", "P@x", "p@X", "P@X"} |-> "p@x"]

MCNativeOf == [u \in Users |-> u[2]]

\* One person known to three applications by email, and the employee of a
\* fourth whose number is spelled like that email.
ThreeAndOne == {<<"jira", "p@x">>, <<"sap", "P@x">>, <<"erp", "p@x">>, <<"hr", "p@X">>}

\* One person in four applications, spelled differently in each.
FourApps == {<<"jira", "p@x">>, <<"sap", "P@x">>, <<"erp", "p@X">>, <<"crm", "P@X">>}

MCTypeOf == [u \in Users |-> IF u[1] = "hr" THEN "employee_id" ELSE "email"]

\* One event of each user, and in larger instances a second of the first
\* application's.
OneEach == {<<u, 1>> : u \in Users}
OneMore == OneEach \union {<<u, 2>> : u \in {v \in Users : v[1] = "jira"}}
MCActorOf == [e \in Events |-> e[1]]
NothingDeclared == [e \in Events |-> NoId]

ASSUME Hypotheses == NoneDeclared /\ PersonsDiffer

=============================================================================
