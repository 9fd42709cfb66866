---------------------------- MODULE MCFlowStream ----------------------------
(* One or two engine tasks, two flows, messages of a single flow. *)
EXTENDS FlowStream, TLC

CONSTANTS t1

FirstSeqs == 0..1
Changes == 1..MaxClock
==============================================================================
