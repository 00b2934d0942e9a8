---- MODULE MCFlowSessions ----
(* One context, up to three calls on it: an issue that gets stuck, its     *)
(* recovery, a submission and its repetition, with two intents of which    *)
(* one has a start that passes while the session lives.                    *)
EXTENDS FlowSessions
CONSTANTS c1, soon, later

Starts == [i \in Intents |-> IF i = soon THEN 1 ELSE MaxTime + 1]
====
