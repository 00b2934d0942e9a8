---------------------------- MODULE OwnerAdmission ----------------------------
(***************************************************************************)
(* Admission to the owner's HTTP boundary (apps/api mode-owner-http.ts):   *)
(* how a request passes the rate windows, its authentication, its body and *)
(* the limits on calls at once, and what it gives back when it is answered *)
(* by its repository, its deadline, a closing service or nobody.  Between  *)
(* two awaits a handler runs alone.  Time is in ticks of the 15 seconds a  *)
(* request may take; the clock is monotonic, as performance.now is.        *)
(***************************************************************************)
EXTENDS Integers, FiniteSets

CONSTANTS
  HttpRequests,    \* numbered as they arrive
  OwnerAsks,            \* what may be asked: [kind, scope, flow]; the scope of a
                   \* profile is its own
  Addresses,
  ActiveLimit, ScopeLimit,
  RateLimit,       \* requests per window: global, address, read, mutation
  MaxWindows,      \* windows kept at once
  WindowLength,
  LastTick         \* bound: of the clock

ASSUME AdmissionAssumption ==
  /\ HttpRequests \subseteq Nat
  /\ ActiveLimit \in Nat \ {0} /\ ScopeLimit \in Nat \ {0} /\ WindowLength \in Nat \ {0}

VARIABLES
  tick,
  admitting,
  http,            \* each request's handler
  activeStates,    \* the set active
  scopeActive,     \* calls at once of each scope
  mutationActive,  \* the scope and flow of each change under way
  rates            \* the windows of the four maps, of count 0 when there is none

admission == <<tick, admitting, http, activeStates, scopeActive, mutationActive, rates>>

Scopes == {a.scope : a \in OwnerAsks}
RateKeys == {<<"global">>} \cup ({"address"} \X Addresses) \cup ({"read", "mutation"} \X Scopes)
NoAsk == [kind |-> "none", scope |-> "none", flow |-> "none"]
NoWindow == [start |-> 0, count |-> 0]

AdmissionInit ==
  /\ tick = 0 /\ admitting = TRUE
  /\ http = [r \in HttpRequests |-> [at |-> "none", ask |-> NoAsk, requestAt |-> 0,
                                     scopeCounted |-> FALSE, dispatchStarted |-> FALSE,
                                     told |-> "nothing"]]
  /\ activeStates = {} /\ mutationActive = {}
  /\ scopeActive = [s \in Scopes |-> 0]
  /\ rates = [k \in RateKeys |-> NoWindow]

-----------------------------------------------------------------------------
\* rate: old windows of every map go, then the key's own is opened or counted up.
Pruned(windows) ==
  [k \in RateKeys |-> IF tick - windows[k].start >= WindowLength THEN NoWindow ELSE windows[k]]
Passes(windows, key) ==
  IF windows[key].count = 0
  THEN Cardinality({k \in RateKeys : windows[k].count > 0}) < MaxWindows
  ELSE windows[key].count < RateLimit[key[1]]
CountedUp(windows, key) ==
  [windows EXCEPT ![key] = IF @.count = 0 THEN [start |-> tick, count |-> 1]
                           ELSE [@ EXCEPT !.count = @ + 1]]

ChangeOf(r) == <<http[r].ask.scope, http[r].ask.flow>>

\* release: what a handler holds, once, and not while its repository runs.
Mutant_ReleaseAnyway(r) == TRUE
MayRelease(r) == http[r].at # "calling"
Releases(r) ==
  /\ activeStates' = activeStates \ {r}
  /\ IF http[r].scopeCounted
     THEN /\ scopeActive' = [scopeActive EXCEPT ![http[r].ask.scope] = @ - 1]
          /\ mutationActive' = IF http[r].ask.kind = "mutation"
                                 THEN mutationActive \ {ChangeOf(r)} ELSE mutationActive
     ELSE UNCHANGED <<scopeActive, mutationActive>>

\* A handler that answers and returns.
Ends(r, told) ==
  /\ http' = [http EXCEPT ![r].at = "done", ![r].told = IF @ = "nothing" THEN told ELSE @]
  /\ Releases(r)

-----------------------------------------------------------------------------
\* The handler starts: two windows, then the limit on handlers, and a head that
\* is well formed.  It goes on to await the owner's authentication.
Arrive(r, ask, address) ==
  LET old    == Pruned(rates)
      global == CountedUp(old, <<"global">>)
      both   == CountedUp(global, <<"address", address>>)
      Refuse == http' = [http EXCEPT ![r].at = "done", ![r].told = "refused"]
                  /\ UNCHANGED activeStates
  IN /\ http[r].at = "none" /\ \A q \in HttpRequests : q < r => http[q].at # "none"
     /\ \/ ~Passes(old, <<"global">>) /\ rates' = old /\ Refuse
        \/ /\ Passes(old, <<"global">>) /\ ~Passes(global, <<"address", address>>)
           /\ rates' = global /\ Refuse
        \/ /\ Passes(old, <<"global">>) /\ Passes(global, <<"address", address>>)
           /\ rates' = both
           /\ \/ Refuse
              \/ /\ admitting /\ Cardinality(activeStates) < ActiveLimit
                 /\ activeStates' = activeStates \cup {r}
                 /\ http' = [http EXCEPT ![r].at = "auth", ![r].ask = ask,
                                         ![r].requestAt = tick]
     /\ UNCHANGED <<tick, admitting, scopeActive, mutationActive>>

\* A profile has no body to await.
Authenticated(r) ==
  /\ http[r].at = "auth"
  /\ http' = [http EXCEPT ![r].at = "body"]
  /\ UNCHANGED <<tick, admitting, activeStates, scopeActive, mutationActive, rates>>

\* Nobody is signed in, or it took over a second; the body is late, too long or
\* not what the route takes.
Unfit(r) ==
  /\ http[r].at \in {"auth", "body"}
  /\ Ends(r, "refused")
  /\ UNCHANGED <<tick, admitting, rates>>

\* The body is there: the scope's window, its calls at once, and for a change
\* that no other of the flow is under way, and then the deadline.  A profile is
\* answered at once.
EnterScope(r) ==
  LET ask  == http[r].ask
      key  == <<IF ask.kind = "mutation" THEN "mutation" ELSE "read", ask.scope>>
      old  == Pruned(rates)
      room == /\ scopeActive[ask.scope] < ScopeLimit
              /\ ask.kind = "mutation" => ChangeOf(r) \notin mutationActive
  IN /\ http[r].at = "body"
     /\ rates' = IF Passes(old, key) THEN CountedUp(old, key) ELSE old
     /\ IF ~Passes(old, key) \/ ~room THEN Ends(r, "refused")
        ELSE IF ask.kind = "profile" THEN Ends(r, "result")
        ELSE IF tick > http[r].requestAt THEN Ends(r, "refused")
        ELSE /\ http' = [http EXCEPT ![r].at = "calling", ![r].scopeCounted = TRUE,
                                     ![r].dispatchStarted = TRUE]
             /\ scopeActive' = [scopeActive EXCEPT ![ask.scope] = @ + 1]
             /\ mutationActive' = IF ask.kind = "mutation"
                                    THEN mutationActive \cup {ChangeOf(r)} ELSE mutationActive
             /\ UNCHANGED activeStates
     /\ UNCHANGED <<tick, admitting>>

\* The repository comes back, in time or not: its outcome is passed on if it is
\* valid and the request has not been answered, and all is given back.
RepositoryReturns(r) ==
  /\ http[r].at = "calling"
  /\ \E told \in IF tick > http[r].requestAt THEN {"uncertain"} ELSE {"result", "uncertain"} :
       Ends(r, told)
  /\ UNCHANGED <<tick, admitting, rates>>

-----------------------------------------------------------------------------
\* stop: refused if the repository was not called, else uncertain.
StoppedHandler(r) ==
  LET told == IF http[r].dispatchStarted THEN "uncertain" ELSE "refused"
  IN [http[r] EXCEPT !.at = IF MayRelease(r) THEN "done" ELSE @,
                     !.told = IF @ = "nothing" THEN told ELSE @]
TimesOut(r) ==
  /\ r \in activeStates /\ tick > http[r].requestAt
  /\ http' = [http EXCEPT ![r] = StoppedHandler(r)]
  /\ IF MayRelease(r) THEN Releases(r)
     ELSE UNCHANGED <<activeStates, scopeActive, mutationActive>>
  /\ UNCHANGED <<tick, admitting, rates>>

\* The connection closes before the answer is out: nobody is told.
ClientLeaves(r) ==
  /\ http[r].at \in {"auth", "body", "calling"}
  /\ http' = [http EXCEPT ![r] = [StoppedHandler(r) EXCEPT
                                    !.told = IF http[r].told = "nothing" THEN "nobody" ELSE @]]
  /\ IF MayRelease(r) THEN Releases(r)
     ELSE UNCHANGED <<activeStates, scopeActive, mutationActive>>
  /\ UNCHANGED <<tick, admitting, rates>>

\* stopAdmission stops all of active.  Only handlers in their repository have
\* been counted in a scope, and they keep what they hold.
StopAdmission ==
  /\ admitting /\ admitting' = FALSE
  /\ http' = [r \in HttpRequests |-> IF r \in activeStates THEN StoppedHandler(r) ELSE http[r]]
  /\ activeStates' = {r \in activeStates : ~MayRelease(r)}
  /\ UNCHANGED <<tick, scopeActive, mutationActive, rates>>

TickPasses ==
  /\ tick < LastTick /\ tick' = tick + 1
  /\ UNCHANGED <<admitting, http, activeStates, scopeActive, mutationActive, rates>>

AdmissionNext ==
  \/ TickPasses \/ StopAdmission
  \/ \E r \in HttpRequests :
       \/ \E ask \in OwnerAsks, a \in Addresses : Arrive(r, ask, a)
       \/ Authenticated(r) \/ Unfit(r) \/ EnterScope(r) \/ RepositoryReturns(r)
       \/ TimesOut(r) \/ ClientLeaves(r)

AdmissionSpec == AdmissionInit /\ [][AdmissionNext]_admission
-----------------------------------------------------------------------------
Calling == {r \in HttpRequests : http[r].at = "calling"}

\* However requests are answered by deadlines and closes while their repository
\* goes on: two changes of one owner's flow are never in the repository at once,
\* nor more calls than the limits allow; what is counted is exactly what runs, so
\* that nothing is locked out for ever; and a request that is told it was not
\* dispatched was not.
AdmissionIsExact ==
  /\ \A r, s \in Calling :
       r # s /\ http[r].ask.kind = "mutation" /\ http[s].ask.kind = "mutation"
         => ChangeOf(r) # ChangeOf(s)
  /\ activeStates = {r \in HttpRequests : http[r].at \in {"auth", "body", "calling"}}
  /\ \A s \in Scopes : /\ scopeActive[s] = Cardinality({r \in Calling : http[r].ask.scope = s})
                       /\ scopeActive[s] <= ScopeLimit
  /\ mutationActive = {ChangeOf(r) : r \in {r \in Calling : http[r].ask.kind = "mutation"}}
  /\ \A r \in HttpRequests : http[r].told = "refused" => ~http[r].dispatchStarted

\* No arrival, deadline, close or answer of a repository makes admission inexact.
AdmissionStaysExact == [][AdmissionIsExact']_admission

\* Once admission has stopped, no request enters the repository, admitted or not.
NothingEntersStopped ==
  [][~admitting => \A r \in HttpRequests : http'[r].at = "calling" => r \in Calling]_admission
=============================================================================
