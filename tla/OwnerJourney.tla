---------------------------- MODULE OwnerJourney ----------------------------
(***************************************************************************)
(* An owner's change of a mode installation, end to end: the portal        *)
(* (ModeOwnerPortal.tsx), its HTTP client (modeOwnerClient.ts), the owner  *)
(* server (mode-owner-http.ts), the installation repository                *)
(* (mode-installation-repository.ts) and the functions of migration 0029.  *)
(*                                                                         *)
(* A change is an operation with a key of its own.  Its request passes the *)
(* server, the repository's call and the database's transaction, each with *)
(* a deadline of its own, and each of them may be cut off from the next.   *)
(* The four mutations differ in what they compare: an "install" compares   *)
(* only the published version, the others a revision.  One flow; portals   *)
(* are tabs signed in as their own actors.  Bounds: MaxOperations,         *)
(* MaxSignIns.                                                             *)
(***************************************************************************)
EXTENDS Naturals

CONSTANTS Portals, ActorOf, None, MaxOperations, MaxSignIns

ASSUME JourneyAssumption ==
    MaxOperations \in Nat /\ MaxSignIns \in Nat /\ None \notin Portals

Operations == 1..MaxOperations
Kinds == {"install", "change"}

VARIABLES portal,     \* the refs and the state of one ModeOwnerPortal
          told,       \* what its owner has been told of an operation
          operation,  \* what was asked
          server,     \* the owner server's request
          repository, \* the repository's call
          database,   \* the transaction and its row in owner_operations
          revision    \* of the installation

journey == <<portal, told, operation, server, repository, database, revision>>

SignedOut == [signedIn |-> FALSE, busy |-> "no", pending |-> 0,
              recorded |-> FALSE, unresolved |-> FALSE, unavailable |-> FALSE, seen |-> 0,
              signIns |-> 0]
SignedIn(r, k) == [SignedOut EXCEPT !.signedIn = TRUE, !.seen = r, !.signIns = k]

Busy      == {"no", "sending", "checking", "refreshing", "abandoning"}
Tellings  == {"nothing", "unknown", "failed", "recorded", "discarded"}
Servers   == {"none", "sent", "dispatched", "answered"}
Answers   == {"none", "not_dispatched", "uncertain", "committed", "failed", "conflict"}
Calls     == {"none", "working", "committing", "settled"}
Backends  == {"none", "ran", "sent", "committed", "gone"}

(* The shapes of the portal's refs and of the three layers under it.       *)
JourneyTypeOK ==
    /\ portal \in [Portals -> [signedIn : BOOLEAN, busy : Busy, pending : {0} \union Operations,
                               recorded : BOOLEAN, unresolved : BOOLEAN,
                               unavailable : BOOLEAN, seen : 0..MaxOperations,
                               signIns : 0..MaxSignIns]]
    /\ told \in [Operations -> Tellings]
    /\ operation \in [Operations -> [by : Portals \union {None}, kind : Kinds \union {None},
                                     expected : 0..MaxOperations]]
    /\ server \in [Operations -> [state : Servers, answer : Answers]]
    /\ repository \in [Operations -> Calls]
    /\ database \in [Operations -> Backends]
    /\ revision \in 0..MaxOperations

JourneyInit ==
    /\ portal = [p \in Portals |-> SignedOut]
    /\ told = [n \in Operations |-> "nothing"]
    /\ operation = [n \in Operations |-> [by |-> None, kind |-> None, expected |-> 0]]
    /\ server = [n \in Operations |-> [state |-> "none", answer |-> "none"]]
    /\ repository = [n \in Operations |-> "none"]
    /\ database = [n \in Operations |-> "none"]
    /\ revision = 0

---------------------------------------------------------------------------
(* The portal.                                                             *)

Locked(p) == portal[p].pending # 0 \/ portal[p].unresolved \/ portal[p].unavailable

Awaits(p, n) == portal[p].signedIn /\ portal[p].busy = "sending" /\ portal[p].pending = n

(* An operation that is dropped from tracking by an explicit confirmation. *)
Dropped(p) ==
    [n \in Operations |->
        IF operation[n].by = p /\ told[n] \in {"nothing", "unknown"} THEN "discarded" ELSE told[n]]

Login(p) ==
    /\ ~portal[p].signedIn /\ portal[p].signIns < MaxSignIns
    /\ portal' = [portal EXCEPT ![p] = SignedIn(revision, portal[p].signIns + 1)]
    /\ UNCHANGED <<told, operation, server, repository, database, revision>>

(* Signing out asks for confirmation when a change is tracked, and aborts  *)
(* the client's requests: late answers meet another generation.            *)
Logout(p) ==
    /\ portal[p].signedIn
    /\ portal' = [portal EXCEPT ![p] = [SignedOut EXCEPT !.signIns = portal[p].signIns]]
    /\ told' = Dropped(p)
    /\ server' = [n \in Operations |->
                     IF Awaits(p, n) THEN [server[n] EXCEPT !.answer = "none"] ELSE server[n]]
    /\ UNCHANGED <<operation, repository, database, revision>>

(* mutate: one change at a time, with the settings last seen.              *)
Mutate(p, n, kind) ==
    /\ portal[p].signedIn /\ portal[p].busy = "no" /\ ~Locked(p)
    /\ server[n].state = "none" /\ \A m \in 1..(n - 1) : server[m].state # "none"
    /\ portal' = [portal EXCEPT ![p].busy = "sending", ![p].pending = n,
                                ![p].recorded = FALSE]
    /\ operation' = [operation EXCEPT ![n] = [by |-> p, kind |-> kind, expected |-> portal[p].seen]]
    /\ server' = [server EXCEPT ![n].state = "sent"]
    /\ UNCHANGED <<told, repository, database, revision>>

Settle(p, how) == [portal EXCEPT ![p].pending = 0, ![p].busy = how]

(* The answer of the server reaches the portal.                            *)
Answer(p, n) ==
    /\ Awaits(p, n) /\ server[n].state = "answered"
    /\ server' = [server EXCEPT ![n].answer = "none"]
    /\ CASE server[n].answer \in {"not_dispatched", "failed"} ->
              /\ portal' = Settle(p, "no")
              /\ told' = [told EXCEPT ![n] = "failed"]
         [] server[n].answer = "conflict" ->
              /\ portal' = [Settle(p, "refreshing") EXCEPT ![p].unavailable = TRUE]
              /\ told' = [told EXCEPT ![n] = "failed"]
         [] server[n].answer = "committed" ->
              /\ portal' = [portal EXCEPT ![p].busy = "refreshing", ![p].recorded = TRUE]
              /\ told' = [told EXCEPT ![n] = "recorded"]
         [] OTHER ->
              /\ portal' = [portal EXCEPT ![p].busy = "no"]
              /\ told' = [told EXCEPT ![n] = "unknown"]
    /\ UNCHANGED <<operation, repository, database, revision>>

(* As if only an answer ended the wait.                                    *)
Mutant_WaitsForAnswer(p, n) ==
    /\ Awaits(p, n) /\ server[n].state = "answered"
    /\ server' = [server EXCEPT ![n].answer = "none"]
    /\ portal' = [portal EXCEPT ![p].busy = "no"]
    /\ told' = [told EXCEPT ![n] = "unknown"]
    /\ UNCHANGED <<operation, repository, database, revision>>

(* The client gives up - its deadline, a broken or malformed answer - and  *)
(* tells the portal that the delivery is uncertain.                        *)
DeliveryUncertain(p, n) ==
    /\ Awaits(p, n)
    /\ server' = [server EXCEPT ![n].answer = "none"]
    /\ portal' = [portal EXCEPT ![p].busy = "no"]
    /\ told' = [told EXCEPT ![n] = "unknown"]
    /\ UNCHANGED <<operation, repository, database, revision>>

(* check: ask for the receipt of the pending operation.  A receipt that    *)
(* was recorded already is only followed by another refresh.               *)
Check(p) ==
    /\ portal[p].signedIn /\ portal[p].busy = "no" /\ portal[p].pending # 0
    /\ portal' = [portal EXCEPT ![p].busy =
                      IF portal[p].recorded THEN "refreshing" ELSE "checking"]
    /\ UNCHANGED <<told, operation, server, repository, database, revision>>

(* No receipt, or no answer, does not mean that the change failed.         *)
Checked(p) ==
    /\ portal[p].busy = "checking"
    /\ LET n == portal[p].pending
       IN  \/ /\ n # 0 /\ database[n] = "committed"
              /\ portal' = [portal EXCEPT ![p].busy = "refreshing", ![p].recorded = TRUE]
              /\ told' = [told EXCEPT ![n] = "recorded"]
           \/ /\ portal' = [portal EXCEPT ![p].busy = "no"]
              /\ UNCHANGED told
    /\ UNCHANGED <<operation, server, repository, database, revision>>

(* refreshCurrent: read again, and stop tracking what was recorded.        *)
Refreshed(p) ==
    /\ portal[p].busy = "refreshing"
    /\ \/ portal' = [portal EXCEPT ![p].busy = "no", ![p].seen = revision, ![p].unavailable = FALSE,
                        ![p].pending = IF portal[p].recorded THEN 0 ELSE @,
                        ![p].recorded = FALSE]
       \/ portal' = [portal EXCEPT ![p].busy = "no"]
    /\ UNCHANGED <<told, operation, server, repository, database, revision>>

(* "Refresh current settings", which only a running check or abandon       *)
(* disables.                                                               *)
RefreshNow(p) ==
    /\ portal[p].signedIn /\ portal[p].busy \in {"no", "sending", "refreshing"}
    /\ portal' = [portal EXCEPT ![p].seen = revision, ![p].unavailable = FALSE]
    /\ UNCHANGED <<told, operation, server, repository, database, revision>>

(* abandon: only after the settings were read again and the owner agreed.  *)
Abandon(p) ==
    /\ portal[p].signedIn /\ portal[p].busy = "no"
    /\ portal[p].pending # 0 \/ portal[p].unresolved
    /\ portal' = [portal EXCEPT ![p].busy = "abandoning"]
    /\ UNCHANGED <<told, operation, server, repository, database, revision>>

Abandoned(p) ==
    /\ portal[p].busy = "abandoning"
    /\ \/ portal' = [portal EXCEPT ![p].busy = "no"] /\ UNCHANGED told
       \/ /\ portal' = [portal EXCEPT ![p].seen = revision, ![p].unavailable = FALSE, ![p].busy = "no"]
          /\ UNCHANGED told
       \/ /\ portal' = [portal EXCEPT ![p] = SignedIn(revision, portal[p].signIns)]
          /\ told' = Dropped(p)
    /\ UNCHANGED <<operation, server, repository, database, revision>>

(* As if the change were forgotten with its tracking.                      *)
Mutant_Forgets(p) ==
    /\ portal[p].pending # 0 /\ portal[p].busy # "sending"
    /\ portal' = [portal EXCEPT ![p].pending = 0, ![p].recorded = FALSE]
    /\ UNCHANGED <<told, operation, server, repository, database, revision>>

(* Local tracking expires after half an hour: the change stays unresolved  *)
(* and the portal stays locked.  No request lasts that long.               *)
TrackingExpires(p) ==
    /\ portal[p].pending # 0 /\ portal[p].busy # "sending"
    /\ portal' = [portal EXCEPT ![p].pending = 0, ![p].recorded = FALSE, ![p].unresolved = TRUE]
    /\ UNCHANGED <<told, operation, server, repository, database, revision>>

---------------------------------------------------------------------------
(* The owner server.                                                       *)

(* An answer that nobody waits for any more is lost.                       *)
Respond(n, answer) ==
    server' = [server EXCEPT ![n] = [state |-> "answered",
                  answer |-> IF Awaits(operation[n].by, n) THEN answer ELSE "none"]]

(* Anything wrong before the dispatch: authentication, limits, a deadline. *)
Reject(n) ==
    /\ server[n].state = "sent"
    /\ Respond(n, "not_dispatched")
    /\ UNCHANGED <<portal, told, operation, repository, database, revision>>

(* One mutation of an actor on a flow is in the repository at a time.      *)
InRepository(n) == repository[n] \in {"working", "committing"}
Dispatch(n) ==
    /\ server[n].state = "sent"
    /\ \A m \in Operations : InRepository(m) => ActorOf[operation[m].by] # ActorOf[operation[n].by]
    /\ server' = [server EXCEPT ![n].state = "dispatched"]
    /\ repository' = [repository EXCEPT ![n] = "working"]
    /\ UNCHANGED <<portal, told, operation, database, revision>>

(* After the dispatch a deadline, a closed connection or the end of        *)
(* admission aborts the repository's call and answers "uncertain".         *)
StopRequest(n) ==
    /\ server[n].state = "dispatched"
    /\ Respond(n, "uncertain")
    /\ repository' = [repository EXCEPT ![n] = "settled"]
    /\ UNCHANGED <<portal, told, operation, database, revision>>

---------------------------------------------------------------------------
(* The repository and the database.                                        *)

(* As if the functions read the row without locking it.                    *)
Mutant_Unlocked(n) == TRUE

(* mode_begin takes the flow's row for update: one owner transaction of    *)
(* the flow at a time, until it ends.                                      *)
FlowIsFree(n) == \A m \in Operations \ {n} : database[m] \notin {"ran", "sent"}
Matches(n) == operation[n].kind = "install" \/ operation[n].expected = revision

Run(n) ==
    /\ repository[n] = "working" /\ database[n] = "none" /\ FlowIsFree(n)
    /\ IF Matches(n)
       THEN database' = [database EXCEPT ![n] = "ran"] /\ UNCHANGED <<server, repository>>
       ELSE /\ Respond(n, "conflict")
            /\ repository' = [repository EXCEPT ![n] = "settled"]
            /\ UNCHANGED database
    /\ UNCHANGED <<portal, told, operation, revision>>

SendCommit(n) ==
    /\ repository[n] = "working" /\ database[n] = "ran"
    /\ repository' = [repository EXCEPT ![n] = "committing"]
    /\ database' = [database EXCEPT ![n] = "sent"]
    /\ UNCHANGED <<portal, told, operation, server, revision>>

(* As if a call that stops had always failed.                              *)
Mutant_StopIsFailure(n) ==
    /\ InRepository(n)
    /\ Respond(n, "failed")
    /\ repository' = [repository EXCEPT ![n] = "settled"]
    /\ UNCHANGED <<portal, told, operation, database, revision>>

(* The repository's own failures: no commit was submitted, or its outcome  *)
(* is not known.                                                           *)
StopCall(n) ==
    /\ InRepository(n)
    /\ Respond(n, IF repository[n] = "committing" THEN "uncertain" ELSE "failed")
    /\ repository' = [repository EXCEPT ![n] = "settled"]
    /\ UNCHANGED <<portal, told, operation, database, revision>>

Acknowledge(n) ==
    /\ repository[n] = "committing" /\ database[n] \in {"committed", "gone"}
    /\ \/ database[n] = "committed" /\ Respond(n, "committed")
       \/ Respond(n, "uncertain")
    /\ repository' = [repository EXCEPT ![n] = "settled"]
    /\ UNCHANGED <<portal, told, operation, database, revision>>

Commit(n) ==
    /\ database[n] = "sent"
    /\ database' = [database EXCEPT ![n] = "committed"]
    /\ revision' = IF operation[n].kind = "install" THEN revision ELSE revision + 1
    /\ UNCHANGED <<portal, told, operation, server, repository>>

RollBack(n) ==
    /\ database[n] \in {"ran", "sent"}
    /\ database' = [database EXCEPT ![n] = "gone"]
    /\ UNCHANGED <<portal, told, operation, server, repository, revision>>

---------------------------------------------------------------------------
JourneyNext ==
    \/ \E p \in Portals :
         \/ Login(p) \/ Logout(p) \/ Check(p) \/ Checked(p) \/ Refreshed(p) \/ RefreshNow(p)
         \/ Abandon(p) \/ Abandoned(p) \/ TrackingExpires(p)
         \/ \E n \in Operations : Answer(p, n) \/ DeliveryUncertain(p, n)
         \/ \E n \in Operations, kind \in Kinds : Mutate(p, n, kind)
    \/ \E n \in Operations :
         \/ Reject(n) \/ Dispatch(n) \/ StopRequest(n)
         \/ Run(n) \/ SendCommit(n) \/ StopCall(n) \/ Acknowledge(n) \/ Commit(n) \/ RollBack(n)

(* Every wait of the portal ends by a deadline of the client.              *)
JourneyFairness ==
    /\ \A p \in Portals : WF_journey(Checked(p)) /\ WF_journey(Refreshed(p)) /\ WF_journey(Abandoned(p))
    /\ \A p \in Portals, n \in Operations : WF_journey(DeliveryUncertain(p, n))

JourneySpec == JourneyInit /\ [][JourneyNext]_journey /\ JourneyFairness

---------------------------------------------------------------------------
(* A change the portal reports as not made is never made, not even by a    *)
(* transaction that outlives its request; one it reports as recorded is.   *)
ToldIsTrue ==
    \A n \in Operations :
        /\ told[n] = "failed" => database[n] \notin {"sent", "committed"}
        /\ told[n] = "recorded" => database[n] = "committed"

(* A portal starts no change while an earlier one of its own may still     *)
(* happen, unless the owner explicitly gave up tracking it.                *)
OneChangeAtATime ==
    \A m, n \in Operations :
        m < n /\ operation[n].by # None /\ operation[m].by = operation[n].by =>
            told[m] \in {"failed", "recorded", "discarded"}

(* No change is lost: each one that compares a revision was made to the    *)
(* settings its owner had seen.                                            *)
NoLostUpdate ==
    \A m, n \in Operations :
        m # n /\ database[m] = "committed" /\ database[n] = "committed"
        /\ operation[m].kind = "change" /\ operation[n].kind = "change" =>
            operation[m].expected # operation[n].expected

(* The portal always comes back to its owner: no wait is for ever.         *)
PortalAnswers ==
    \A p \in Portals : portal[p].busy # "no" ~> portal[p].busy = "no"
=============================================================================
