----------------------------- MODULE MCDetection -----------------------------
(***************************************************************************)
(* An instance of Detection: two objects in two applications, used for     *)
(* half a year.  Two events have one time, one comes from a system that    *)
(* gives a number where the others give a string.                          *)
(***************************************************************************)
EXTENDS Detection

Event(id, app, object, time, metadata) ==
  [id |-> id, app |-> app, action |-> "approve", object |-> object,
   time |-> time, metadata |-> metadata]

At(day, hour) == day * Day + hour * 60

MCEvents ==
  {Event(1, "sap", "po", At(0, 9), [level |-> <<"string", "1">>]),
   Event(2, "sap", "po", At(12, 10), [level |-> <<"string", "2">>]),
   Event(3, "erp", "invoice", At(12, 10), [level |-> <<"number", "1">>]),
   Event(4, "erp", "invoice", At(20, 9), [level |-> <<"array", "[1]">>]),
   Event(5, "sap", "po", At(181, 10), [level |-> <<"number", "2">>])}

\* Two weeks after an event or less, and half a year after the first or more.
MCMoments == <<At(12, 12), At(21, 0), At(28, 0), At(181, 12), At(193, 0)>>

=============================================================================
