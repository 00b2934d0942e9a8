---------------------------- MODULE FlowSessions ----------------------------
(***************************************************************************)
(* Mode flow sessions: the API's session repository                        *)
(* (apps/api/src/mode-session-repository.ts), the transactions it runs     *)
(* (migration 0030) and the owner who changes the installation meanwhile.  *)
(*                                                                         *)
(* A context is the opaque handle of one issued session: the process keeps *)
(* its secret and what it knows of the row.  A call is one issue, recovery *)
(* or submission; its backend is the database's side of its transaction,   *)
(* which goes on after the call has been answered by a timer.  One context *)
(* has one token, so the session row is named by the context.              *)
(*                                                                         *)
(* Time is in ticks: Life is the 15 minutes of a context and of a row,     *)
(* Patience the ten seconds of a call.  The wall clock runs Skew ahead of  *)
(* the database's.  Bounds: MaxCalls, MaxTime, MaxRevision.                *)
(***************************************************************************)
EXTENDS Naturals

CONSTANTS Contexts, Intents, StartOf, None, MaxCalls, MaxTime, MaxRevision,
          Life, Patience, Skew

ASSUME SessionsAssumption ==
    /\ {MaxCalls, MaxTime, MaxRevision, Life, Patience, Skew} \subseteq Nat
    /\ StartOf \in [Intents -> Nat]
    /\ 0 < Patience /\ Patience <= Life

VARIABLES now,           \* the database's clock
          installation,  \* the row the owner changes
          session,       \* mode_flow_sessions, by the token of a context
          request,       \* mode_flow_requests, by session
          entry,         \* the process's map of contexts
          call,          \* the repository's calls
          backend,       \* the transactions of the calls
          shut           \* closed, or the clock is broken

sessions == <<now, installation, session, request, entry, call, backend, shut>>

Calls == 1..MaxCalls
Revisions == 0..MaxRevision
Expectation == [target : Revisions, policy : Revisions]
SessionRow == [target : Revisions, policy : Revisions, until : 0..(MaxTime + Life)]
RequestRow == [ref : Calls, intent : Intents]

Unused    == [state |-> "unused", started |-> 0, asked |-> None, busy |-> 0,
              receipt |-> None, reference |-> 0, pending |-> None]
Forgotten == [Unused EXCEPT !.state = "forgotten"]
NoCall    == [method |-> None, context |-> None, asked |-> None, phase |-> "none",
              started |-> 0, outcome |-> None]
NoBackend == [state |-> "none", result |-> None]

EntryStates == {"unused", "issuing", "uncertain", "withheld", "recovering", "accepted", "forgotten"}
Phases      == {"none", "acquiring", "acquired", "transaction", "committing", "settled"}
Outcomes    == {"session", "receipt", "withheld", "unknown", "failed"}
Backends    == {"none", "open", "ran", "refused", "sent", "committed", "rolledback", "gone"}

ASSUME NoneIsNothing ==
    None \notin Expectation \union SessionRow \union RequestRow \union Intents \union Outcomes

(* The shapes of the rows and of what the process remembers.               *)
SessionTypeOK ==
    /\ now \in 0..MaxTime
    /\ installation \in [target : Revisions, policy : Revisions, enabled : BOOLEAN]
    /\ session \in [Contexts -> SessionRow \union {None}]
    /\ request \in [Contexts -> RequestRow \union {None}]
    /\ entry \in [Contexts -> [state : EntryStates, started : 0..MaxTime,
                               asked : Expectation \union {None}, busy : {0} \union Calls,
                               receipt : SessionRow \union {None},
                               reference : {0} \union Calls, pending : Intents \union {None}]]
    /\ call \in [Calls -> [method : {"issue", "submit", None}, context : Contexts \union {None},
                           asked : Expectation \union Intents \union {None},
                           phase : Phases, started : 0..MaxTime, outcome : Outcomes \union {None}]]
    /\ backend \in [Calls -> [state : Backends,
                              result : SessionRow \union RequestRow \union {None}]]
    /\ shut \in BOOLEAN

SessionInit ==
    /\ now = 0 /\ shut = FALSE
    /\ installation = [target |-> 0, policy |-> 0, enabled |-> TRUE]
    /\ session = [e \in Contexts |-> None]
    /\ request = [e \in Contexts |-> None]
    /\ entry = [e \in Contexts |-> Unused]
    /\ call = [n \in Calls |-> NoCall]
    /\ backend = [n \in Calls |-> NoBackend]

---------------------------------------------------------------------------
(* The process's clock checks.                                             *)

Live(e)       == entry[e].state \notin {"unused", "forgotten"}
Aged(e)       == now >= entry[e].started + Life
Lapsed(row)   == now + Skew >= row.until
Expired(e)    == Aged(e) \/ (entry[e].receipt # None /\ Lapsed(entry[e].receipt))
Running(n)    == call[n].phase \notin {"none", "settled"}
Owns(n)       == Running(n) /\ entry[call[n].context].busy = n
Overdue(n)    == now >= call[n].started + Patience

(* Reasons to stop a call whatever it is doing; a guard runs this after    *)
(* every await.                                                            *)
Stopped(n) == Overdue(n) \/ ~Owns(n) \/ Expired(call[n].context)
Guard(n)   == Running(n) /\ ~Stopped(n)

---------------------------------------------------------------------------
(* finish: what the answer of a call leaves of its context.                *)

(* A context outlives the call unless it, or the session the call brings,  *)
(* has run out.                                                            *)
Retained(n) ==
    LET e == call[n].context
        candidate == IF call[n].method = "submit" THEN entry[e].receipt
                     ELSE IF call[n].phase = "committing" THEN backend[n].result ELSE None
    IN  ~Aged(e) /\ (candidate # None => ~Lapsed(candidate))

Terminal == {"EXPIRED", "CLOSED", "CLOCK_UNAVAILABLE"}

AfterIssue(n, outcome, why) ==
    LET e == call[n].context
        known == IF backend[n].state = "committed" /\ outcome \in {"session", "withheld"}
                 THEN [entry[e] EXCEPT !.receipt = backend[n].result] ELSE entry[e]
        keeps == outcome \in {"unknown", "withheld"} /\ Retained(n) /\ why \notin Terminal
    IN  IF outcome = "session" THEN [known EXCEPT !.state = "accepted", !.busy = 0]
        ELSE IF keeps
        THEN [known EXCEPT !.state = IF outcome = "unknown" THEN "uncertain" ELSE "withheld",
                           !.busy = 0]
        ELSE Forgotten

AfterSubmit(n, outcome, why) ==
    LET e == call[n].context
        free == [entry[e] EXCEPT !.busy = 0]
    IN  IF ~Retained(n) \/ why \in Terminal THEN Forgotten
        ELSE CASE outcome = "unknown" -> [free EXCEPT !.pending = call[n].asked]
               [] outcome \in {"receipt", "withheld"} ->
                      [free EXCEPT !.pending = None, !.reference = backend[n].result.ref]
               [] OTHER -> free

Answered(n, outcome) == [call[n] EXCEPT !.phase = "settled", !.outcome = outcome, !.started = 0]

Finish(n, outcome, why) ==
    /\ call' = [call EXCEPT ![n] = Answered(n, outcome)]
    /\ entry' = IF ~Owns(n) THEN entry
                ELSE [entry EXCEPT ![call[n].context] =
                          IF call[n].method = "issue" THEN AfterIssue(n, outcome, why)
                          ELSE AfterSubmit(n, outcome, why)]

(* As if a commit without an answer had failed.                            *)
Mutant_CutIsFailure(n) == "failed"

(* What a call that is cut short may still claim.                          *)
Cut(n) == IF call[n].phase = "committing" THEN "unknown" ELSE "failed"

(* As if a commit once sent were waited for.                               *)
Mutant_WaitsForCommit(n, why) == call[n].phase # "committing"

(* The timer of the call, the caller's abort, the death of the connection  *)
(* and an expiry that a guard sees.                                        *)
MayStop(n, why) ==
    CASE why = "DEADLINE"          -> Overdue(n)
      [] why = "EXPIRED"           -> ~Owns(n) \/ Expired(call[n].context)
      [] why = "CONNECTION_FAILED" -> call[n].phase # "acquiring"
      [] OTHER                     -> TRUE

Stop(n, why) ==
    /\ Running(n) /\ MayStop(n, why)
    /\ Finish(n, Cut(n), why)
    /\ UNCHANGED <<now, installation, session, request, backend, shut>>

(* The timer of a context stops the call that uses it and forgets it.      *)
ExpireContext(e) ==
    /\ Live(e) /\ Aged(e)
    /\ entry' = [entry EXCEPT ![e] = Forgotten]
    /\ call' = [n \in Calls |->
                   IF Owns(n) /\ call[n].context = e THEN Answered(n, Cut(n)) ELSE call[n]]
    /\ UNCHANGED <<now, installation, session, request, backend, shut>>

(* entryFor: a call that finds its context run out forgets it, even under  *)
(* a call that still uses it.                                              *)
UseExpired(e) ==
    /\ ~shut /\ Live(e) /\ Expired(e)
    /\ entry' = [entry EXCEPT ![e] = Forgotten]
    /\ UNCHANGED <<now, installation, session, request, call, backend, shut>>

(* close and breakClock: every call is stopped, every secret is dropped.   *)
ShutDown ==
    /\ ~shut /\ shut' = TRUE
    /\ entry' = [e \in Contexts |-> IF Live(e) THEN Forgotten ELSE entry[e]]
    /\ call' = [n \in Calls |-> IF Running(n) THEN Answered(n, Cut(n)) ELSE call[n]]
    /\ UNCHANGED <<now, installation, session, request, backend>>

---------------------------------------------------------------------------
(* Calls.  The next call takes the next number; the bound on time leaves   *)
(* every context room to run out.                                          *)

Start(n, e, method, asked) ==
    /\ ~shut /\ now + Life <= MaxTime
    /\ call[n].phase = "none" /\ \A m \in 1..(n - 1) : call[m].phase # "none"
    /\ call' = [call EXCEPT ![n] = [method |-> method, context |-> e, asked |-> asked,
                                   phase |-> "acquiring", started |-> now, outcome |-> None]]
    /\ UNCHANGED <<now, installation, session, request, backend, shut>>

(* issue: the caller expects revisions it read at some earlier time.       *)
Issue(n, e) ==
    /\ entry[e].state = "unused"
    /\ \E t \in 0..installation.target, p \in 0..installation.policy :
          LET asked == [target |-> t, policy |-> p]
          IN  /\ Start(n, e, "issue", asked)
              /\ entry' = [entry EXCEPT ![e] = [Unused EXCEPT !.state = "issuing", !.started = now,
                                                !.asked = asked, !.busy = n]]

Usable(e) == Live(e) /\ ~Expired(e) /\ entry[e].busy = 0

RecoverIssue(n, e) ==
    /\ Usable(e) /\ entry[e].state \in {"uncertain", "withheld"}
    /\ Start(n, e, "issue", entry[e].asked)
    /\ entry' = [entry EXCEPT ![e].state = "recovering", ![e].busy = n]

(* A submission whose outcome is unknown may only be repeated as it was.   *)
Submit(n, e, i) ==
    /\ Usable(e) /\ entry[e].state = "accepted"
    /\ entry[e].pending \in {None, i}
    /\ Start(n, e, "submit", i)
    /\ entry' = [entry EXCEPT ![e].busy = n]

(* The connection arrives, or does not.                                    *)
Connect(n) ==
    /\ Guard(n) /\ call[n].phase = "acquiring"
    /\ call' = [call EXCEPT ![n].phase = "acquired"]
    /\ UNCHANGED <<now, installation, session, request, entry, backend, shut>>

NotConnected(n) ==
    /\ Guard(n) /\ call[n].phase = "acquiring"
    /\ Finish(n, "failed", "CONNECTION_FAILED")
    /\ UNCHANGED <<now, installation, session, request, backend, shut>>

(* BEGIN, the settings and the function call, each after a guard.          *)
Begin(n) ==
    /\ Guard(n) /\ call[n].phase = "acquired"
    /\ call' = [call EXCEPT ![n].phase = "transaction"]
    /\ backend' = [backend EXCEPT ![n].state = "open"]
    /\ UNCHANGED <<now, installation, session, request, entry, shut>>

(* An answer that contradicts what an earlier commit told the process, or  *)
(* a session already run out, is not committed.                            *)
Contradicts(n) ==
    LET e == call[n].context
        data == backend[n].result
    IN  IF call[n].method = "issue" THEN entry[e].receipt \notin {None, data}
        ELSE entry[e].reference \notin {0, data.ref}

SendCommit(n) ==
    /\ call' = [call EXCEPT ![n].phase = "committing"]
    /\ backend' = [backend EXCEPT ![n].state = "sent"]
    /\ UNCHANGED entry

Receive(n) ==
    /\ Guard(n) /\ call[n].phase = "transaction" /\ backend[n].state \in {"ran", "refused"}
    /\ \/ backend[n].state = "refused" /\ Finish(n, "failed", "SQL") /\ UNCHANGED backend
       \/ /\ backend[n].state = "ran" /\ Contradicts(n)
          /\ Finish(n, "failed", "INTERNAL_ERROR") /\ UNCHANGED backend
       \/ /\ backend[n].state = "ran" /\ ~Contradicts(n)
          /\ IF call[n].method = "issue" /\ Lapsed(backend[n].result)
             THEN Finish(n, "failed", "EXPIRED") /\ UNCHANGED backend
             ELSE SendCommit(n)
    /\ UNCHANGED <<now, installation, session, request, shut>>

(* The answer to COMMIT counts only for the call that still owns the       *)
(* context.  A commit acknowledged too late is withheld.                   *)
Acknowledge(n) ==
    /\ Owns(n) /\ call[n].phase = "committing"
    /\ CASE backend[n].state = "committed" ->
              IF Guard(n) /\ Retained(n)
              THEN Finish(n, IF call[n].method = "issue" THEN "session" ELSE "receipt", "none")
              ELSE Finish(n, "withheld", IF Overdue(n) THEN "DEADLINE" ELSE "EXPIRED")
         [] backend[n].state = "rolledback" -> Finish(n, "failed", "INTERNAL_ERROR")
         [] backend[n].state = "gone"       -> Finish(n, "unknown", "COMMIT_UNCERTAIN")
         [] OTHER                           -> FALSE
    /\ UNCHANGED <<now, installation, session, request, backend, shut>>

---------------------------------------------------------------------------
(* The database.  A transaction that ran holds its rows - the installation *)
(* for share, the session for update - until it ends.                      *)

Holding(n) == backend[n].state \in {"ran", "sent"}
MayLock(n) == \A m \in Calls : Holding(m) => call[m].context # call[n].context

Permitted(row) == installation.enabled /\ row.policy = installation.policy

(* mode_issue_flow_session: the row of this token, or a new one.           *)
IssueResult(n) ==
    LET asked == call[n].asked
        row == session[call[n].context]
    IN  IF row = None
        THEN IF Permitted(asked) /\ asked.target = installation.target
             THEN [target |-> asked.target, policy |-> asked.policy, until |-> now + Life]
             ELSE None
        ELSE IF Permitted(asked) /\ Permitted(row) /\ asked.target = row.target /\ now < row.until
             THEN row ELSE None

(* mode_submit_flow_request: the accepted request again, or a new booking. *)
SubmitResult(n) ==
    LET row == session[call[n].context]
        accepted == request[call[n].context]
    IN  IF row = None \/ ~Permitted(row) \/ now >= row.until THEN None
        ELSE IF accepted # None
        THEN IF accepted.intent = call[n].asked THEN accepted ELSE None
        ELSE IF now < StartOf[call[n].asked] THEN [ref |-> n, intent |-> call[n].asked] ELSE None

Run(n) ==
    /\ backend[n].state = "open" /\ MayLock(n)
    /\ LET result == IF call[n].method = "issue" THEN IssueResult(n) ELSE SubmitResult(n)
       IN  backend' = [backend EXCEPT ![n] =
               [state |-> IF result = None THEN "refused" ELSE "ran", result |-> result]]
    /\ UNCHANGED <<now, installation, session, request, entry, call, shut>>

Commit(n) ==
    /\ backend[n].state = "sent"
    /\ backend' = [backend EXCEPT ![n].state = "committed"]
    /\ LET e == call[n].context
       IN  IF call[n].method = "issue"
           THEN /\ session' = [session EXCEPT ![e] = backend[n].result]
                /\ UNCHANGED request
           ELSE /\ request' = [request EXCEPT ![e] = backend[n].result]
                /\ UNCHANGED session
    /\ UNCHANGED <<now, installation, entry, call, shut>>

(* A lock, statement or idle timeout, a deadlock, a lost connection: the   *)
(* transaction ends without effect.                                        *)
Ends(n) ==
    /\ \/ backend[n].state = "open" /\ backend' = [backend EXCEPT ![n].state = "refused"]
       \/ backend[n].state \in {"open", "ran", "sent"}
          /\ backend' = [backend EXCEPT ![n].state = "gone"]
       \/ backend[n].state = "sent" /\ backend' = [backend EXCEPT ![n].state = "rolledback"]
    /\ UNCHANGED <<now, installation, session, request, entry, call, shut>>

(* As if the transactions only read the row.                               *)
Mutant_NotShared == TRUE

(* The owner's changes wait for the transactions that share the row.       *)
Unshared == \A n \in Calls : ~Holding(n)

Retarget ==
    /\ Unshared /\ installation.target < MaxRevision
    /\ installation' = [installation EXCEPT !.target = @ + 1]
    /\ UNCHANGED <<now, session, request, entry, call, backend, shut>>

ChangePolicy ==
    /\ Unshared /\ installation.policy < MaxRevision
    /\ \E enabled \in BOOLEAN :
          installation' = [installation EXCEPT !.policy = @ + 1, !.enabled = enabled]
    /\ UNCHANGED <<now, session, request, entry, call, backend, shut>>

Tick ==
    /\ now < MaxTime
    /\ now' = now + 1
    /\ UNCHANGED <<installation, session, request, entry, call, backend, shut>>

---------------------------------------------------------------------------
SessionNext ==
    \/ \E n \in Calls :
         \/ \E e \in Contexts : Issue(n, e) \/ RecoverIssue(n, e)
         \/ \E e \in Contexts, i \in Intents : Submit(n, e, i)
         \/ Connect(n) \/ NotConnected(n) \/ Begin(n) \/ Receive(n) \/ Acknowledge(n)
         \/ \E why \in {"DEADLINE", "EXPIRED", "ABORTED", "CONNECTION_FAILED"} : Stop(n, why)
         \/ Run(n) \/ Commit(n) \/ Ends(n)
    \/ \E e \in Contexts : ExpireContext(e) \/ UseExpired(e)
    \/ ShutDown \/ Retarget \/ ChangePolicy \/ Tick

(* Timers fire, and the server's own timeouts end what it was left with.   *)
SessionFairness ==
    /\ WF_sessions(Tick)
    /\ \A n \in Calls : WF_sessions(Stop(n, "DEADLINE")) /\ WF_sessions(Ends(n))
    /\ \A e \in Contexts : WF_sessions(ExpireContext(e))

SessionSpec == SessionInit /\ [][SessionNext]_sessions /\ SessionFairness

---------------------------------------------------------------------------
(* What a caller is told of its transaction is so.  A call answered        *)
(* "failed" never commits afterwards, though its backend may still run;    *)
(* one answered as committed has committed, and a delivered receipt is the *)
(* receipt of the very request the caller asked for.                       *)
ClaimsAreTrue ==
    \A n \in Calls :
        LET o == call[n].outcome
            e == call[n].context
        IN  /\ o = "failed" => backend[n].state \notin {"sent", "committed"}
            /\ o \in {"session", "receipt", "withheld"} => backend[n].state = "committed"
            /\ o = "session" => session[e].target = call[n].asked.target
            /\ o = "receipt" => request[e].intent = call[n].asked

(* The process remembers of a session only what has been committed: a      *)
(* context that may submit has its row, a known receipt is the row and a   *)
(* known reference is the accepted request's.                              *)
MemoryIsTrue ==
    \A e \in Contexts :
        /\ entry[e].state = "accepted" => entry[e].receipt # None
        /\ entry[e].receipt # None => session[e] = entry[e].receipt
        /\ entry[e].reference # 0 => request[e] # None /\ request[e].ref = entry[e].reference

(* What is told to callers, and kept in memory, is what the database has.  *)
AnswersAreTrue == ClaimsAreTrue /\ MemoryIsTrue

(* A session is stored only for the target and policy then in force, a     *)
(* request only under a policy that has not changed since the session: an  *)
(* owner who revokes a policy is never overtaken by a transaction that had *)
(* already looked.                                                         *)
PolicyHolds ==
    [][\A e \in Contexts :
         /\ session'[e] # session[e] =>
                Permitted(session'[e]) /\ session'[e].target = installation.target
         /\ request'[e] # request[e] => session[e] # None /\ Permitted(session[e])]_sessions

(* Every call is answered, every transaction ends and every secret is      *)
(* forgotten, whatever the network and the database do.                    *)
NothingLingers ==
    /\ \A n \in Calls : Running(n) ~> (~Running(n) /\ backend[n].state \notin {"open", "ran", "sent"})
    /\ \A e \in Contexts : Live(e) ~> ~Live(e)
=============================================================================
