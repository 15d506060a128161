-------------------------- MODULE MCProfileScheduler --------------------------
(***************************************************************************)
(* Small instances of ProfileScheduler.  A node is                         *)
(* <<application, nativeUserId>>.                                          *)
(***************************************************************************)
EXTENDS ProfileScheduler

CONSTANTS r1, r2

\* User 1 in one application and user 2 in two.
MCNodes == {<<"jira", 1>>, <<"jira", 2>>, <<"sap", 2>>}
MCIdOf == [n \in Nodes |-> n[2]]

\* Two events are enough for a profile; user 1 may have fewer.
MCEvents == {<<<<"jira", 1>>, 1>>, <<<<"jira", 2>>, 1>>, <<<<"jira", 2>>, 2>>, <<<<"sap", 2>>, 1>>}
MCActorOf == [e \in Events |-> e[1]]

=============================================================================
