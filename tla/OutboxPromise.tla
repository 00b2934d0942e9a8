---------------------------- MODULE OutboxPromise ----------------------------
(***************************************************************************)
(* What the durable outbox promises to the writer of an event: once        *)
(* accepted, an event is open until it is settled, it is settled once and  *)
(* for all, and it is settled as done only after its external effect       *)
(* happened at least once.  The effect may happen more often than that.    *)
(***************************************************************************)
EXTENDS Naturals

CONSTANT Keys

VARIABLES
  status,    \* of each dedup key
  effects    \* how often the external effect of each key has happened

vars == <<status, effects>>

Init ==
  /\ status = [k \in Keys |-> "absent"]
  /\ effects = [k \in Keys |-> 0]

Settle(k, from, to) ==
  /\ status[k] = from
  /\ status' = [status EXCEPT ![k] = to]
  /\ UNCHANGED effects

Accept(k) == Settle(k, "absent", "open")
Finish(k) == effects[k] > 0 /\ Settle(k, "open", "completed")

\* A call of a worker may give up several events at once.
GiveUp ==
  \E S \in SUBSET {k \in Keys : status[k] = "open"} :
    /\ status' = [k \in Keys |-> IF k \in S THEN "dead" ELSE status[k]]
    /\ UNCHANGED effects

Perform(k) ==
  /\ status[k] # "absent"
  /\ effects' = [effects EXCEPT ![k] = @ + 1]
  /\ UNCHANGED status

Next == GiveUp \/ \E k \in Keys : Accept(k) \/ Finish(k) \/ Perform(k)

Spec == Init /\ [][Next]_vars
=============================================================================
