--------------------------- MODULE Operations_proofs ---------------------------
(***************************************************************************)
(* Proofs about the components of MCOperations, for every value of their   *)
(* constants: the admission and the shutdown of the owner's service, the   *)
(* allocation of planning groups and the locks behind it, the reader of    *)
(* free resources against their writer, and the portal's desk.             *)
(***************************************************************************)
EXTENDS MCOperations, Summation, SequenceTheorems

---------------------------------------------------------------------------
(* OwnerAdmission.                                                         *)

HandlerShape == [at : {"none", "auth", "body", "calling", "done"}, ask : OwnerAsks \cup {NoAsk},
                 requestAt : Nat, scopeCounted : BOOLEAN, dispatchStarted : BOOLEAN,
                 told : {"nothing", "refused", "result", "uncertain", "nobody"}]
Entering == {"auth", "body"}

\* How far a handler is tells what it was asked, what is counted of it and
\* whether its repository was called.
HandlerHolds(r) ==
  /\ http[r].at \in Entering \cup {"calling"} => http[r].ask \in OwnerAsks
  /\ http[r].at \in Entering \cup {"none"} =>
       ~http[r].scopeCounted /\ ~http[r].dispatchStarted /\ http[r].told = "nothing"
  /\ http[r].at = "calling" => http[r].scopeCounted /\ http[r].dispatchStarted
  /\ http[r].told = "refused" => ~http[r].dispatchStarted

AdmissionTypeOK ==
  /\ tick \in Nat /\ admitting \in BOOLEAN
  /\ http \in [HttpRequests -> HandlerShape]
  /\ activeStates \subseteq HttpRequests
  /\ scopeActive \in [Scopes -> Nat]

\* What is counted of the calls, in parts.
CallsOf(s) == {r \in Calling : http[r].ask.scope = s}
Changes == {r \in Calling : http[r].ask.kind = "mutation"}
Apart == \A r, s \in Calling :
           r # s /\ http[r].ask.kind = "mutation" /\ http[s].ask.kind = "mutation"
             => ChangeOf(r) # ChangeOf(s)
CountedIn(s) == scopeActive[s] = Cardinality(CallsOf(s)) /\ scopeActive[s] <= ScopeLimit
CallsCounted == Apart /\ (\A s \in Scopes : CountedIn(s)) /\ mutationActive = {ChangeOf(r) : r \in Changes}
ActiveAre == activeStates = {r \in HttpRequests : http[r].at \in {"auth", "body", "calling"}}

AdmissionInv ==
  /\ AdmissionTypeOK
  /\ IsFiniteSet(activeStates) /\ ActiveAre
  /\ \A r \in HttpRequests : HandlerHolds(r)
  /\ CallsCounted
  /\ ~admitting => \A r \in HttpRequests : http[r].at \notin Entering

\* The calls under way are finitely many.
LEMMA CallingFinite ==
  ASSUME IsFiniteSet(activeStates), ActiveAre
  PROVE  IsFiniteSet(Calling) /\ \A s : IsFiniteSet(CallsOf(s))
<1>1. Calling \subseteq activeStates
  BY DEF Calling, ActiveAre
<1>2. \A s : CallsOf(s) \subseteq Calling
  BY DEF CallsOf
<1> QED
  BY <1>1, <1>2, FS_Subset

\* The calls, and what they were asked, stay: so do the counts.
LEMMA CallsStay ==
  ASSUME CallsCounted, Calling' = Calling, \A r \in Calling : http'[r].ask = http[r].ask,
         UNCHANGED <<scopeActive, mutationActive>>
  PROVE  CallsCounted'
<1>1. Apart'
  BY DEF CallsCounted, Apart, ChangeOf
<1>2. \A s \in Scopes : CountedIn(s)'
  <2>1. \A s : CallsOf(s)' = CallsOf(s)
    BY DEF CallsOf
  <2> QED
    BY <2>1 DEF CallsCounted, CountedIn
<1>3. mutationActive' = {ChangeOf(r) : r \in Changes}'
  <2>1. Changes' = Changes
    BY DEF Changes
  <2>2. \A r \in Changes : ChangeOf(r)' = ChangeOf(r)
    BY DEF Changes, ChangeOf
  <2> QED
    BY <2>1, <2>2 DEF CallsCounted
<1> QED
  BY <1>1, <1>2, <1>3 DEF CallsCounted

\* A call enters its repository: it is counted, and is no change of a flow that
\* another changes.
LEMMA CallEnters ==
  ASSUME CallsCounted, AdmissionTypeOK, AdmissionAssumption,
         IsFiniteSet(Calling), NEW r \in HttpRequests, r \notin Calling,
         Calling' = Calling \cup {r}, \A q \in Calling \cup {r} : http'[q].ask = http[q].ask,
         http[r].ask.scope \in Scopes, scopeActive[http[r].ask.scope] < ScopeLimit,
         http[r].ask.kind = "mutation" => ChangeOf(r) \notin mutationActive,
         scopeActive' = [scopeActive EXCEPT ![http[r].ask.scope] = @ + 1],
         mutationActive' = IF http[r].ask.kind = "mutation"
                             THEN mutationActive \cup {ChangeOf(r)} ELSE mutationActive
  PROVE  CallsCounted'
<1> DEFINE own == http[r].ask.scope
<1>0. \A q \in Calling \cup {r} : ChangeOf(q)' = ChangeOf(q)
  BY DEF ChangeOf
<1>1. Apart'
  <2>1. \A q \in Calling : http[q].ask.kind = "mutation" => ChangeOf(q) \in mutationActive
    BY DEF CallsCounted, Changes
  <2> QED
    BY <1>0, <2>1 DEF CallsCounted, Apart
<1>2. ASSUME NEW s \in Scopes PROVE CountedIn(s)'
  <2>1. CallsOf(s)' = IF s = own THEN CallsOf(s) \cup {r} ELSE CallsOf(s)
    BY DEF CallsOf
  <2>2. r \notin CallsOf(s) /\ IsFiniteSet(CallsOf(s))
    <3>1. CallsOf(s) \subseteq Calling
      BY DEF CallsOf
    <3> QED
      BY <3>1, FS_Subset
  <2>3. Cardinality(CallsOf(s) \cup {r}) = Cardinality(CallsOf(s)) + 1
    BY <2>2, FS_AddElement
  <2>4. scopeActive'[s] = IF s = own THEN scopeActive[s] + 1 ELSE scopeActive[s]
    BY DEF AdmissionTypeOK
  <2>5. CountedIn(s) /\ scopeActive[s] \in Nat /\ ScopeLimit \in Nat
    BY DEF CallsCounted, AdmissionTypeOK, AdmissionAssumption
  <2>6. CASE s = own
    <3>1. scopeActive'[s] = Cardinality(CallsOf(s)')
      BY <2>1, <2>3, <2>4, <2>5, <2>6 DEF CountedIn
    <3>2. scopeActive'[s] <= ScopeLimit
      BY <2>4, <2>5, <2>6
    <3> QED
      BY <3>1, <3>2 DEF CountedIn
  <2>7. CASE s # own
    BY <2>1, <2>4, <2>5, <2>7 DEF CountedIn
  <2> QED
    BY <2>6, <2>7
<1>3. mutationActive' = {ChangeOf(q) : q \in Changes}'
  <2>1. Changes' = IF http[r].ask.kind = "mutation" THEN Changes \cup {r} ELSE Changes
    BY DEF Changes
  <2>2. \A q \in Changes : ChangeOf(q)' = ChangeOf(q)
    BY <1>0 DEF Changes
  <2>3. mutationActive = {ChangeOf(q) : q \in Changes}
    BY DEF CallsCounted
  <2> QED
    BY <1>0, <2>1, <2>2, <2>3
<1> QED
  BY <1>1, <1>2, <1>3 DEF CallsCounted

\* A call leaves its repository: it counts no more, and its flow may be changed.
LEMMA CallLeaves ==
  ASSUME CallsCounted, AdmissionTypeOK, AdmissionAssumption,
         IsFiniteSet(Calling), NEW r \in Calling, http[r].ask.scope \in Scopes,
         Calling' = Calling \ {r}, \A q \in Calling \ {r} : http'[q].ask = http[q].ask,
         scopeActive' = [scopeActive EXCEPT ![http[r].ask.scope] = @ - 1],
         mutationActive' = IF http[r].ask.kind = "mutation"
                             THEN mutationActive \ {ChangeOf(r)} ELSE mutationActive
  PROVE  CallsCounted' /\ scopeActive' \in [Scopes -> Nat]
<1> DEFINE own == http[r].ask.scope
<1>0. \A q \in Calling \ {r} : ChangeOf(q)' = ChangeOf(q)
  BY DEF ChangeOf
<1>1. Apart'
  BY <1>0 DEF CallsCounted, Apart
<1>2. ASSUME NEW s \in Scopes PROVE CountedIn(s)' /\ scopeActive'[s] \in Nat
  <2>1. CallsOf(s)' = IF s = own THEN CallsOf(s) \ {r} ELSE CallsOf(s)
    BY DEF CallsOf
  <2>2. IsFiniteSet(CallsOf(s))
    <3>1. CallsOf(s) \subseteq Calling
      BY DEF CallsOf
    <3> QED
      BY <3>1, FS_Subset
  <2>3. s = own => r \in CallsOf(s)
    BY DEF CallsOf
  <2>4. scopeActive'[s] = IF s = own THEN scopeActive[s] - 1 ELSE scopeActive[s]
    BY DEF AdmissionTypeOK
  <2>5. CountedIn(s) /\ scopeActive[s] \in Nat /\ ScopeLimit \in Nat
    BY DEF CallsCounted, AdmissionTypeOK, AdmissionAssumption
  <2>6. CASE s = own
    <3>1. /\ Cardinality(CallsOf(s) \ {r}) = Cardinality(CallsOf(s)) - 1
          /\ IsFiniteSet(CallsOf(s) \ {r})
      BY <2>2, <2>3, <2>6, FS_RemoveElement
    <3>2. Cardinality(CallsOf(s) \ {r}) \in Nat
      BY <3>1, FS_CardinalityType
    <3> QED
      BY <2>1, <2>4, <2>5, <2>6, <3>1, <3>2 DEF CountedIn
  <2>7. CASE s # own
    BY <2>1, <2>4, <2>5, <2>7 DEF CountedIn
  <2> QED
    BY <2>6, <2>7
<1>3. mutationActive' = {ChangeOf(q) : q \in Changes}'
  <2>1. Changes' = Changes \ {r} /\ Changes \subseteq Calling
    BY DEF Changes
  <2>2. mutationActive = {ChangeOf(q) : q \in Changes}
    BY DEF CallsCounted
  <2>3. http[r].ask.kind = "mutation" =>
          /\ r \in Changes
          /\ \A q \in Changes : q # r => ChangeOf(q) # ChangeOf(r)
    BY DEF CallsCounted, Apart, Changes
  <2>4. http[r].ask.kind # "mutation" => r \notin Changes
    BY DEF Changes
  <2>5. {ChangeOf(q) : q \in Changes}' = {ChangeOf(q) : q \in Changes \ {r}}
    BY <1>0, <2>1
  <2> QED
    BY <2>2, <2>3, <2>4, <2>5
<1>4. scopeActive' \in [Scopes -> Nat]
  BY <1>2 DEF AdmissionTypeOK
<1> QED
  BY <1>1, <1>2, <1>3, <1>4 DEF CallsCounted

\* A handler's record, for the counting: the handler is in its repository or not.
LEMMA ScopeOfCall ==
  ASSUME \A q \in HttpRequests : HandlerHolds(q), NEW r \in HttpRequests,
         http[r].at \in Entering \cup {"calling"}
  PROVE  http[r].ask \in OwnerAsks /\ http[r].ask.scope \in Scopes
BY DEF HandlerHolds, Scopes

\* A handler that goes on, still active or still not, in its repository or not.
LEMMA HandlerMoves ==
  ASSUME AdmissionInv, NEW r \in HttpRequests, NEW h \in HandlerShape,
         http' = [http EXCEPT ![r] = h], HandlerHolds(r)',
         h.at = "calling" <=> http[r].at = "calling",
         h.at = "calling" => h.ask = http[r].ask,
         h.at \in Entering <=> http[r].at \in Entering,
         UNCHANGED <<tick, admitting, activeStates, scopeActive, mutationActive>>
  PROVE  AdmissionInv'
<1>0. http \in [HttpRequests -> HandlerShape]
  BY DEF AdmissionInv, AdmissionTypeOK
<1>1. http'[r] = h /\ \A q \in HttpRequests \ {r} : http'[q] = http[q]
  BY <1>0
<1>2. AdmissionTypeOK'
  BY <1>0 DEF AdmissionInv, AdmissionTypeOK
<1>3. Calling' = Calling /\ \A q \in Calling : http'[q].ask = http[q].ask
  BY <1>1 DEF Calling
<1>4. CallsCounted'
  BY <1>3, CallsStay DEF AdmissionInv
<1>5. ActiveAre'
  BY <1>1 DEF AdmissionInv, ActiveAre, Entering
<1>6. \A q \in HttpRequests : HandlerHolds(q)'
  BY <1>1 DEF AdmissionInv, HandlerHolds
<1>7. (~admitting => \A q \in HttpRequests : http[q].at \notin Entering)'
  BY <1>1 DEF AdmissionInv
<1> QED
  BY <1>2, <1>4, <1>5, <1>6, <1>7 DEF AdmissionInv

\* A handler that is done gives back what it held, and only that.
LEMMA HandlerDone ==
  ASSUME AdmissionInv, AdmissionAssumption, NEW r \in HttpRequests, NEW h \in HandlerShape,
         http[r].at \in Entering \cup {"calling"},
         http' = [http EXCEPT ![r] = h], h.at = "done",
         h.told = "refused" => ~h.dispatchStarted, Releases(r),
         UNCHANGED <<tick, admitting>>
  PROVE  AdmissionInv'
<1>0. http \in [HttpRequests -> HandlerShape] /\ HandlerHolds(r) /\ ActiveAre
  BY DEF AdmissionInv, AdmissionTypeOK
<1>1. http'[r] = h /\ \A q \in HttpRequests \ {r} : http'[q] = http[q]
  BY <1>0
<1>2. activeStates' = activeStates \ {r} /\ IsFiniteSet(activeStates')
  BY FS_RemoveElement DEF Releases, AdmissionInv
<1>3. ActiveAre'
  BY <1>0, <1>1, <1>2 DEF ActiveAre
<1>4. CallsCounted' /\ scopeActive' \in [Scopes -> Nat]
  <2>1. CASE http[r].at = "calling"
    <3>1. http[r].ask.scope \in Scopes /\ http[r].scopeCounted
      BY <2>1, ScopeOfCall, <1>0 DEF HandlerHolds, AdmissionInv
    <3>2. r \in Calling /\ Calling' = Calling \ {r}
      BY <1>1, <2>1 DEF Calling
    <3>3. IsFiniteSet(Calling) /\ CallsCounted /\ AdmissionTypeOK
      BY CallingFinite DEF AdmissionInv
    <3>4. /\ scopeActive' = [scopeActive EXCEPT ![http[r].ask.scope] = @ - 1]
          /\ mutationActive' = IF http[r].ask.kind = "mutation"
                                 THEN mutationActive \ {ChangeOf(r)} ELSE mutationActive
      BY <3>1 DEF Releases
    <3>5. \A q \in Calling' : http'[q].ask = http[q].ask
      BY <1>1, <3>2 DEF Calling
    <3> QED
      BY <3>1, <3>2, <3>3, <3>4, <3>5, CallLeaves
  <2>2. CASE http[r].at # "calling"
    <3>1. ~http[r].scopeCounted
      BY <1>0, <2>2 DEF HandlerHolds
    <3>2. Calling' = Calling /\ \A q \in Calling : http'[q].ask = http[q].ask
      BY <1>1, <2>2 DEF Calling
    <3> QED
      BY <3>1, <3>2, CallsStay DEF AdmissionInv, AdmissionTypeOK, Releases
  <2> QED
    BY <2>1, <2>2
<1>5. AdmissionTypeOK'
  BY <1>0, <1>2, <1>4 DEF AdmissionInv, AdmissionTypeOK
<1>6. \A q \in HttpRequests : HandlerHolds(q)'
  BY <1>1 DEF AdmissionInv, HandlerHolds, Entering
<1>7. (~admitting => \A q \in HttpRequests : http[q].at \notin Entering)'
  BY <1>1 DEF AdmissionInv, Entering
<1> QED
  BY <1>2, <1>3, <1>4, <1>5, <1>6, <1>7 DEF AdmissionInv

\* What Ends and the stop of a handler make of it.
LEMMA EndsIsDone ==
  ASSUME AdmissionInv, NEW r \in HttpRequests, NEW told \in {"refused", "result", "uncertain"},
         http[r].at \in Entering \cup {"calling"}, told = "refused" => http[r].at \in Entering,
         Ends(r, told)
  PROVE  \E h \in HandlerShape : /\ http' = [http EXCEPT ![r] = h] /\ h.at = "done"
                                 /\ h.told = "refused" => ~h.dispatchStarted
<1> DEFINE h == [http[r] EXCEPT !.at = "done", !.told = IF @ = "nothing" THEN told ELSE @]
<1>0. http[r] \in HandlerShape /\ HandlerHolds(r)
  BY DEF AdmissionInv, AdmissionTypeOK
<1>1. h \in HandlerShape /\ h.at = "done" /\ h.dispatchStarted = http[r].dispatchStarted
      /\ h.told = IF http[r].told = "nothing" THEN told ELSE http[r].told
  BY <1>0 DEF HandlerShape
<1>2. http' = [http EXCEPT ![r] = h]
  BY DEF Ends, AdmissionInv, AdmissionTypeOK
<1>3. h.told = "refused" => ~h.dispatchStarted
  BY <1>0, <1>1 DEF HandlerHolds
<1> QED
  BY <1>1, <1>2, <1>3

\* A stopped handler that is calling goes on; any other is done.
LEMMA StoppedShape ==
  ASSUME AdmissionInv, NEW r \in HttpRequests
  PROVE  LET h == StoppedHandler(r)
         IN  /\ h \in HandlerShape /\ h.ask = http[r].ask
             /\ h.at = (IF http[r].at = "calling" THEN "calling" ELSE "done")
             /\ h.dispatchStarted = http[r].dispatchStarted
             /\ h.scopeCounted = http[r].scopeCounted
             /\ h.told = "refused" => ~h.dispatchStarted
<1>0. http[r] \in HandlerShape /\ HandlerHolds(r)
  BY DEF AdmissionInv, AdmissionTypeOK
<1>1. CASE http[r].dispatchStarted
  BY <1>0, <1>1 DEF StoppedHandler, HandlerShape, MayRelease, HandlerHolds
<1>2. CASE ~http[r].dispatchStarted
  BY <1>0, <1>2 DEF StoppedHandler, HandlerShape, MayRelease
<1> QED
  BY <1>1, <1>2

---------------------------------------------------------------------------
(* OwnerAdmission: its steps.                                              *)

\* No request is there at the start.
LEMMA AdmissionStarts == AdmissionInit => AdmissionInv
<1> SUFFICES ASSUME AdmissionInit PROVE AdmissionInv
  OBVIOUS
<1>1. \A r \in HttpRequests : /\ http[r].at = "none" /\ ~http[r].scopeCounted
                              /\ ~http[r].dispatchStarted /\ http[r].told = "nothing"
  BY DEF AdmissionInit
<1>2. Calling = {} /\ \A s : CallsOf(s) = {}
  BY <1>1 DEF Calling, CallsOf
<1>3. AdmissionTypeOK
  BY DEF AdmissionInit, AdmissionTypeOK, HandlerShape
<1>4. CallsCounted
  <2>1. \A s \in Scopes : CountedIn(s)
    BY <1>2, FS_EmptySet, AdmissionAssumption DEF AdmissionAssumption, CountedIn, AdmissionInit
  <2>2. mutationActive = {ChangeOf(r) : r \in Changes}
    BY <1>2 DEF Changes, AdmissionInit
  <2> QED
    BY <1>2, <2>1, <2>2 DEF CallsCounted, Apart
<1>5. IsFiniteSet(activeStates) /\ ActiveAre
  BY <1>1, FS_EmptySet DEF ActiveAre, AdmissionInit
<1>6. \A r \in HttpRequests : HandlerHolds(r)
  BY <1>1 DEF HandlerHolds, Entering
<1>7. admitting
  BY DEF AdmissionInit
<1> QED
  BY <1>3, <1>4, <1>5, <1>6, <1>7 DEF AdmissionInv

\* A request enters once, by the places left, or is turned away.
LEMMA ArriveKeeps ==
  ASSUME AdmissionInv, NEW r \in HttpRequests, NEW ask \in OwnerAsks, NEW a \in Addresses,
         Arrive(r, ask, a)
  PROVE  AdmissionInv'
<1>0. /\ http[r].at = "none" /\ http[r] \in HandlerShape /\ HandlerHolds(r)
      /\ http \in [HttpRequests -> HandlerShape] /\ tick \in Nat
      /\ UNCHANGED <<tick, admitting, scopeActive, mutationActive>>
  BY DEF AdmissionInv, AdmissionTypeOK, Arrive
<1>1. \/ /\ http' = [http EXCEPT ![r].at = "done", ![r].told = "refused"]
         /\ UNCHANGED activeStates
      \/ /\ admitting /\ activeStates' = activeStates \cup {r}
         /\ http' = [http EXCEPT ![r].at = "auth", ![r].ask = ask, ![r].requestAt = tick]
  BY DEF Arrive
<1>2. CASE /\ http' = [http EXCEPT ![r].at = "done", ![r].told = "refused"]
           /\ UNCHANGED activeStates
  <2> DEFINE h == [http[r] EXCEPT !.at = "done", !.told = "refused"]
  <2>1. /\ h \in HandlerShape /\ h.at = "done" /\ http' = [http EXCEPT ![r] = h]
        /\ h.dispatchStarted = http[r].dispatchStarted
    BY <1>0, <1>2 DEF HandlerShape
  <2>2. HandlerHolds(r)'
    BY <1>0, <2>1 DEF HandlerHolds, Entering
  <2> QED
    BY <1>0, <1>2, <2>1, <2>2, HandlerMoves DEF Entering
<1>3. CASE /\ admitting /\ activeStates' = activeStates \cup {r}
           /\ http' = [http EXCEPT ![r].at = "auth", ![r].ask = ask, ![r].requestAt = tick]
  <2> DEFINE h == [http[r] EXCEPT !.at = "auth", !.ask = ask, !.requestAt = tick]
  <2>1. /\ h \in HandlerShape /\ h.at = "auth" /\ h.ask = ask /\ http' = [http EXCEPT ![r] = h]
        /\ h.dispatchStarted = http[r].dispatchStarted /\ h.scopeCounted = http[r].scopeCounted
        /\ h.told = http[r].told
    BY <1>0, <1>3 DEF HandlerShape
  <2>2. http'[r] = h /\ \A q \in HttpRequests \ {r} : http'[q] = http[q]
    BY <1>0, <2>1
  <2>3. IsFiniteSet(activeStates') /\ ActiveAre'
    <3>1. IsFiniteSet(activeStates') /\ activeStates' = activeStates \cup {r} /\ ActiveAre
      BY <1>3, FS_AddElement DEF AdmissionInv
    <3> QED
      BY <2>1, <2>2, <3>1 DEF ActiveAre
  <2>4. \A q \in HttpRequests : HandlerHolds(q)'
    BY <1>0, <2>1, <2>2 DEF AdmissionInv, HandlerHolds, Entering
  <2>5. CallsCounted'
    <3>1. Calling' = Calling /\ \A q \in Calling : http'[q].ask = http[q].ask
      BY <1>0, <2>1, <2>2 DEF Calling
    <3> QED
      BY <1>0, <3>1, CallsStay DEF AdmissionInv
  <2>6. AdmissionTypeOK'
    BY <1>0, <1>3, <2>1 DEF AdmissionInv, AdmissionTypeOK
  <2> QED
    BY <1>0, <1>3, <2>3, <2>4, <2>5, <2>6 DEF AdmissionInv
<1> QED
  BY <1>1, <1>2, <1>3

\* A request that authenticated asks for its scope next.
LEMMA AuthenticatedKeeps ==
  ASSUME AdmissionInv, NEW r \in HttpRequests, Authenticated(r)
  PROVE  AdmissionInv'
<1> DEFINE h == [http[r] EXCEPT !.at = "body"]
<1>0. http[r] \in HandlerShape /\ HandlerHolds(r) /\ http \in [HttpRequests -> HandlerShape]
  BY DEF AdmissionInv, AdmissionTypeOK
<1>1. /\ h \in HandlerShape /\ h.at = "body" /\ h.ask = http[r].ask
      /\ http' = [http EXCEPT ![r] = h]
      /\ h.dispatchStarted = http[r].dispatchStarted /\ h.scopeCounted = http[r].scopeCounted
      /\ h.told = http[r].told
  BY <1>0 DEF Authenticated, HandlerShape
<1>2. HandlerHolds(r)'
  BY <1>0, <1>1 DEF HandlerHolds, Entering, Authenticated
<1> QED
  BY <1>1, <1>2, HandlerMoves DEF Authenticated, Entering

\* A request found unfit gives its place back.
LEMMA UnfitKeeps ==
  ASSUME AdmissionInv, AdmissionAssumption, NEW r \in HttpRequests, Unfit(r)
  PROVE  AdmissionInv'
<1>1. http[r].at \in Entering /\ Ends(r, "refused")
  BY DEF Unfit, Entering
<1>2. PICK h \in HandlerShape : /\ http' = [http EXCEPT ![r] = h] /\ h.at = "done"
                                /\ h.told = "refused" => ~h.dispatchStarted
  BY <1>1, EndsIsDone
<1> QED
  BY <1>1, <1>2, HandlerDone DEF Unfit, Ends

\* A call that returns gives back its scope and its mutation.
LEMMA RepositoryReturnsKeeps ==
  ASSUME AdmissionInv, AdmissionAssumption, NEW r \in HttpRequests, RepositoryReturns(r)
  PROVE  AdmissionInv'
<1>1. PICK told \in {"result", "uncertain"} : http[r].at = "calling" /\ Ends(r, told)
  BY DEF RepositoryReturns
<1>2. PICK h \in HandlerShape : /\ http' = [http EXCEPT ![r] = h] /\ h.at = "done"
                                /\ h.told = "refused" => ~h.dispatchStarted
  BY <1>1, EndsIsDone
<1> QED
  BY <1>1, <1>2, HandlerDone DEF RepositoryReturns, Ends

\* A request enters its scope by the places left in it.
LEMMA EnterScopeKeeps ==
  ASSUME AdmissionInv, AdmissionAssumption, NEW r \in HttpRequests, EnterScope(r)
  PROVE  AdmissionInv'
<1>0. /\ http[r].at = "body" /\ http[r] \in HandlerShape /\ HandlerHolds(r)
      /\ http \in [HttpRequests -> HandlerShape] /\ ActiveAre /\ AdmissionTypeOK
      /\ UNCHANGED <<tick, admitting>>
  BY DEF AdmissionInv, AdmissionTypeOK, EnterScope
<1>1. \/ \E told \in {"refused", "result"} : Ends(r, told)
      \/ /\ scopeActive[http[r].ask.scope] < ScopeLimit
         /\ http[r].ask.kind = "mutation" => ChangeOf(r) \notin mutationActive
         /\ http' = [http EXCEPT ![r].at = "calling", ![r].scopeCounted = TRUE,
                                 ![r].dispatchStarted = TRUE]
         /\ scopeActive' = [scopeActive EXCEPT ![http[r].ask.scope] = @ + 1]
         /\ mutationActive' = IF http[r].ask.kind = "mutation"
                                THEN mutationActive \cup {ChangeOf(r)} ELSE mutationActive
         /\ UNCHANGED activeStates
  BY DEF EnterScope
<1>2. CASE \E told \in {"refused", "result"} : Ends(r, told)
  <2>1. PICK told \in {"refused", "result"} : Ends(r, told)
    BY <1>2
  <2>2. PICK h \in HandlerShape : /\ http' = [http EXCEPT ![r] = h] /\ h.at = "done"
                                  /\ h.told = "refused" => ~h.dispatchStarted
    BY <1>0, <2>1, EndsIsDone DEF Entering
  <2> QED
    BY <1>0, <2>1, <2>2, HandlerDone DEF Ends, Entering
<1>3. CASE /\ scopeActive[http[r].ask.scope] < ScopeLimit
           /\ http[r].ask.kind = "mutation" => ChangeOf(r) \notin mutationActive
           /\ http' = [http EXCEPT ![r].at = "calling", ![r].scopeCounted = TRUE,
                                   ![r].dispatchStarted = TRUE]
           /\ scopeActive' = [scopeActive EXCEPT ![http[r].ask.scope] = @ + 1]
           /\ mutationActive' = IF http[r].ask.kind = "mutation"
                                  THEN mutationActive \cup {ChangeOf(r)} ELSE mutationActive
           /\ UNCHANGED activeStates
  <2> DEFINE h == [http[r] EXCEPT !.at = "calling", !.scopeCounted = TRUE,
                                  !.dispatchStarted = TRUE]
  <2>1. /\ h \in HandlerShape /\ h.at = "calling" /\ h.ask = http[r].ask
        /\ http' = [http EXCEPT ![r] = h]
        /\ h.dispatchStarted = TRUE /\ h.scopeCounted = TRUE /\ h.told = http[r].told
    BY <1>0, <1>3 DEF HandlerShape
  <2>2. http'[r] = h /\ \A q \in HttpRequests \ {r} : http'[q] = http[q]
    BY <1>0, <2>1
  <2>3. http[r].ask \in OwnerAsks /\ http[r].ask.scope \in Scopes
    BY <1>0, ScopeOfCall DEF AdmissionInv, Entering
  <2>4. r \notin Calling /\ Calling' = Calling \cup {r}
        /\ \A q \in Calling \cup {r} : http'[q].ask = http[q].ask
    BY <1>0, <2>1, <2>2 DEF Calling
  <2>5. CallsCounted'
    <3>1. IsFiniteSet(Calling) /\ CallsCounted
      BY CallingFinite DEF AdmissionInv
    <3> QED
      BY <1>0, <1>3, <2>3, <2>4, <3>1, CallEnters
  <2>6. AdmissionTypeOK'
    <3>1. scopeActive' \in [Scopes -> Nat]
      BY <1>0, <1>3, <2>3 DEF AdmissionTypeOK
    <3> QED
      BY <1>0, <1>3, <2>1, <3>1 DEF AdmissionTypeOK
  <2>7. ActiveAre' /\ IsFiniteSet(activeStates')
    BY <1>0, <1>3, <2>1, <2>2 DEF ActiveAre, AdmissionInv
  <2>8. HandlerHolds(r)'
    BY <1>0, <2>1, <2>2, <2>3 DEF HandlerHolds, Entering, AdmissionInv
  <2>9. \A q \in HttpRequests : HandlerHolds(q)'
    BY <2>2, <2>8 DEF HandlerHolds, AdmissionInv
  <2>10. (~admitting => \A q \in HttpRequests : http[q].at \notin Entering)'
    BY <1>0, <2>1, <2>2 DEF AdmissionInv, Entering
  <2> QED
    BY <2>5, <2>6, <2>7, <2>9, <2>10 DEF AdmissionInv
<1> QED
  BY <1>1, <1>2, <1>3

\* A handler that is stopped: it is done, unless its repository still runs.
LEMMA StopsOne ==
  ASSUME AdmissionInv, AdmissionAssumption, NEW r \in HttpRequests,
         http[r].at \in Entering \cup {"calling"},
         NEW h \in HandlerShape, h.ask = http[r].ask,
         h.at = (IF http[r].at = "calling" THEN "calling" ELSE "done"),
         h.dispatchStarted = http[r].dispatchStarted, h.scopeCounted = http[r].scopeCounted,
         h.told = "refused" => ~h.dispatchStarted,
         http' = [http EXCEPT ![r] = h], UNCHANGED <<tick, admitting>>,
         IF MayRelease(r) THEN Releases(r)
         ELSE UNCHANGED <<activeStates, scopeActive, mutationActive>>
  PROVE  AdmissionInv'
<1>0. http \in [HttpRequests -> HandlerShape] /\ HandlerHolds(r)
  BY DEF AdmissionInv, AdmissionTypeOK
<1>1. CASE http[r].at = "calling"
  <2>1. HandlerHolds(r)'
    BY <1>0, <1>1 DEF HandlerHolds, Entering
  <2> QED
    BY <1>1, <2>1, HandlerMoves DEF MayRelease, Entering
<1>2. CASE http[r].at # "calling"
  BY <1>2, HandlerDone DEF MayRelease
<1> QED
  BY <1>1, <1>2

\* A request past its deadline is told so, and its call still counts.
LEMMA TimesOutKeeps ==
  ASSUME AdmissionInv, AdmissionAssumption, NEW r \in HttpRequests, TimesOut(r)
  PROVE  AdmissionInv'
<1>1. http[r].at \in Entering \cup {"calling"}
  BY DEF TimesOut, AdmissionInv, ActiveAre, Entering
<1> QED
  BY <1>1, StoppedShape, StopsOne DEF TimesOut

\* So it does for one whose client left.
LEMMA ClientLeavesKeeps ==
  ASSUME AdmissionInv, AdmissionAssumption, NEW r \in HttpRequests, ClientLeaves(r)
  PROVE  AdmissionInv'
<1> DEFINE g == StoppedHandler(r)
           h == [g EXCEPT !.told = IF http[r].told = "nothing" THEN "nobody" ELSE @]
<1>0. /\ g \in HandlerShape /\ g.ask = http[r].ask
      /\ g.at = (IF http[r].at = "calling" THEN "calling" ELSE "done")
      /\ g.dispatchStarted = http[r].dispatchStarted /\ g.scopeCounted = http[r].scopeCounted
      /\ g.told = "refused" => ~g.dispatchStarted
  BY StoppedShape
<1>1. http' = [http EXCEPT ![r] = h]
  BY DEF ClientLeaves
<1>2. http[r].at \in Entering \cup {"calling"}
  BY DEF ClientLeaves, Entering
<1> HIDE DEF g
<1>3. /\ h \in HandlerShape /\ h.ask = g.ask /\ h.at = g.at
      /\ h.dispatchStarted = g.dispatchStarted /\ h.scopeCounted = g.scopeCounted
      /\ h.told = "refused" => g.told = "refused"
  BY <1>0 DEF HandlerShape
<1> HIDE DEF h
<1>4. /\ UNCHANGED <<tick, admitting>>
      /\ IF MayRelease(r) THEN Releases(r)
         ELSE UNCHANGED <<activeStates, scopeActive, mutationActive>>
  BY DEF ClientLeaves
<1>5. /\ h \in HandlerShape /\ h.ask = http[r].ask
      /\ h.at = (IF http[r].at = "calling" THEN "calling" ELSE "done")
      /\ h.dispatchStarted = http[r].dispatchStarted /\ h.scopeCounted = http[r].scopeCounted
      /\ h.told = "refused" => ~h.dispatchStarted
  BY <1>0, <1>3
<1> QED
  BY <1>1, <1>2, <1>4, <1>5, StopsOne

\* Stopping ends each request, and leaves what the calls hold.
LEMMA StopAdmissionKeeps ==
  ASSUME AdmissionInv, StopAdmission
  PROVE  AdmissionInv'
<1>0. /\ http \in [HttpRequests -> HandlerShape] /\ ActiveAre /\ AdmissionTypeOK
      /\ UNCHANGED <<tick, scopeActive, mutationActive>> /\ admitting' = FALSE
  BY DEF AdmissionInv, AdmissionTypeOK, StopAdmission
<1>1. \A q \in HttpRequests :
        http'[q] = IF q \in activeStates THEN StoppedHandler(q) ELSE http[q]
  BY DEF StopAdmission
<1>2. ASSUME NEW q \in HttpRequests
      PROVE  /\ http'[q] \in HandlerShape /\ http'[q].ask = http[q].ask
             /\ http'[q].at \notin Entering
             /\ http'[q].at = "calling" <=> http[q].at = "calling"
             /\ HandlerHolds(q)'
  <2>0. http[q] \in HandlerShape /\ HandlerHolds(q)
    BY <1>0 DEF AdmissionInv
  <2>1. CASE q \in activeStates
    <3>1. http'[q] = StoppedHandler(q)
      BY <1>1, <2>1
    <3>2. /\ http'[q] \in HandlerShape /\ http'[q].ask = http[q].ask
          /\ http'[q].at = (IF http[q].at = "calling" THEN "calling" ELSE "done")
          /\ http'[q].dispatchStarted = http[q].dispatchStarted
          /\ http'[q].scopeCounted = http[q].scopeCounted
          /\ http'[q].told = "refused" => ~http'[q].dispatchStarted
      BY <3>1, StoppedShape
    <3>3. HandlerHolds(q)'
      BY <2>0, <3>2 DEF HandlerHolds, Entering
    <3> QED
      BY <3>2, <3>3 DEF Entering
  <2>2. CASE q \notin activeStates
    <3>1. http'[q] = http[q] /\ http[q].at \notin Entering \cup {"calling"}
      BY <1>0, <1>1, <2>2 DEF ActiveAre, Entering
    <3> QED
      BY <2>0, <3>1 DEF HandlerHolds, Entering
  <2> QED
    BY <2>1, <2>2
<1>3. Calling' = Calling /\ \A q \in Calling : http'[q].ask = http[q].ask
  BY <1>2 DEF Calling
<1>4. CallsCounted'
  BY <1>0, <1>3, CallsStay DEF AdmissionInv
<1>5. activeStates' = Calling /\ IsFiniteSet(activeStates')
  <2>1. activeStates' = Calling
    BY <1>0 DEF StopAdmission, MayRelease, ActiveAre, Calling
  <2> QED
    BY <2>1, CallingFinite DEF AdmissionInv
<1>6. ActiveAre'
  BY <1>2, <1>5 DEF ActiveAre, Calling, Entering
<1>7. AdmissionTypeOK'
  <2>1. http' \in [HttpRequests -> HandlerShape]
    BY <1>2 DEF StopAdmission
  <2> QED
    BY <1>0, <1>5, <2>1 DEF AdmissionTypeOK, Calling
<1> QED
  BY <1>2, <1>4, <1>5, <1>6, <1>7 DEF AdmissionInv

\* Time alone frees nothing.
LEMMA AdmissionIdles ==
  ASSUME AdmissionInv, UNCHANGED <<admitting, http, activeStates, scopeActive, mutationActive>>,
         tick' \in Nat
  PROVE  AdmissionInv'
<1>1. CallsCounted'
  BY CallsStay DEF AdmissionInv, Calling
<1> QED
  BY <1>1 DEF AdmissionInv, AdmissionTypeOK, ActiveAre, HandlerHolds

\* Every step of admission keeps the invariant.
LEMMA AdmissionKeeps == AdmissionInv /\ [AdmissionNext]_admission => AdmissionInv'
<1>1. ASSUME AdmissionInv, TickPasses \/ UNCHANGED admission PROVE AdmissionInv'
  BY <1>1, AdmissionIdles DEF TickPasses, admission, AdmissionInv, AdmissionTypeOK
<1> QED
  BY <1>1, ArriveKeeps, AuthenticatedKeeps, UnfitKeeps, EnterScopeKeeps,
     RepositoryReturnsKeeps, TimesOutKeeps, ClientLeavesKeeps, StopAdmissionKeeps,
     AdmissionAssumption
  DEF AdmissionNext

\* The invariant, of any behaviour of the admission.
LEMMA AdmissionInductive == AdmissionInit /\ [][AdmissionNext]_admission => []AdmissionInv
BY AdmissionStarts, AdmissionKeeps, PTL

\* What is counted is exactly what is calling.
LEMMA ExactFollows == AdmissionInv => AdmissionIsExact
BY DEF AdmissionInv, AdmissionIsExact, CallsCounted, Apart, CountedIn, CallsOf, Changes,
       ActiveAre, HandlerHolds

\* However its requests are answered while their repository goes on, the
\* owner's boundary counts exactly what runs, keeps two changes of a flow apart
\* and within its limits, and tells nobody "refused" whose call was made
\* (mode-owner-http.ts: release, stop and enterScope).
THEOREM AdmissionExact ==
  AdmissionInit /\ [][AdmissionNext]_admission => []AdmissionIsExact /\ AdmissionStaysExact
<1>1. AdmissionInv' => AdmissionIsExact'
  BY ExactFollows, PTL
<1>2. AdmissionInv /\ [AdmissionNext]_admission => [AdmissionIsExact']_admission
  BY <1>1, AdmissionKeeps
<1> QED
  BY <1>2, ExactFollows, AdmissionInductive, PTL DEF AdmissionStaysExact

\* Once admission has stopped, no request enters the repository, whether it had
\* been admitted before or not (stopAdmission over the handlers of active).
THEOREM NothingEnters ==
  AdmissionInit /\ [][AdmissionNext]_admission => NothingEntersStopped
<1>1. ASSUME AdmissionInv, [AdmissionNext]_admission, ~admitting, NEW r \in HttpRequests,
             http'[r].at = "calling"
      PROVE  r \in Calling
  <2>0. http \in [HttpRequests -> HandlerShape] /\ http[r].at \notin Entering /\ ActiveAre
    BY <1>1 DEF AdmissionInv, AdmissionTypeOK
  <2> SUFFICES ASSUME http[r].at # "calling" PROVE FALSE
    BY DEF Calling
  <2>1. PICK q \in HttpRequests :
          \/ \E ask \in OwnerAsks, a \in Addresses : Arrive(q, ask, a)
          \/ Authenticated(q) \/ Unfit(q) \/ EnterScope(q) \/ RepositoryReturns(q)
          \/ TimesOut(q) \/ ClientLeaves(q)
    BY <1>1 DEF AdmissionNext, TickPasses, StopAdmission, admission
  <2>2. CASE q # r
    <3>1. http'[r] = http[r]
      BY <2>0, <2>1, <2>2 DEF Arrive, Authenticated, Unfit, Ends, EnterScope,
                              RepositoryReturns, TimesOut, ClientLeaves
    <3> QED
      BY <1>1, <3>1
  <2>3. CASE \E ask \in OwnerAsks, a \in Addresses : Arrive(r, ask, a)
    <3>1. \/ http' = [http EXCEPT ![r].at = "done", ![r].told = "refused"]
          \/ \E ask \in OwnerAsks :
               http' = [http EXCEPT ![r].at = "auth", ![r].ask = ask, ![r].requestAt = tick]
      BY <2>3 DEF Arrive
    <3>2. http[r] \in HandlerShape
      BY <2>0
    <3>3. http'[r].at \in {"done", "auth"}
      <4>1. CASE http' = [http EXCEPT ![r].at = "done", ![r].told = "refused"]
        BY <2>0, <3>2, <4>1 DEF HandlerShape
      <4>2. ASSUME NEW ask \in OwnerAsks,
                   http' = [http EXCEPT ![r].at = "auth", ![r].ask = ask, ![r].requestAt = tick]
            PROVE  http'[r].at = "auth"
        BY <2>0, <3>2, <4>2 DEF HandlerShape
      <4> QED
        BY <3>1, <4>1, <4>2
    <3> QED
      BY <1>1, <3>3
  <2>4. CASE ClientLeaves(r)
    BY <2>0, <2>4 DEF ClientLeaves, Entering
  <2>5. CASE TimesOut(r)
    BY <2>0, <2>5 DEF TimesOut, ActiveAre, Entering
  <2> QED
    BY <2>0, <2>1, <2>2, <2>3, <2>4, <2>5
    DEF Authenticated, Unfit, EnterScope, RepositoryReturns, Entering
<1>2. AdmissionInv /\ [AdmissionNext]_admission
        => [~admitting => \A r \in HttpRequests : http'[r].at = "calling" => r \in Calling]_admission
  BY <1>1
<1> QED
  BY <1>2, AdmissionInductive, PTL DEF NothingEntersStopped

---------------------------------------------------------------------------
(* ServiceLifecycle.                                                       *)

RequestShape == [at : Underway \cup {"none", "refused", "withheld", "answered", "cut"},
                 on : {"none", "owner", "draft", "api"}]

ServiceTypeOK ==
  /\ host \in {"local", "hosted"}
  /\ stage \in {"composing", "starting", "up", "closing", "closed"}
  /\ pools \in [AllPools -> {"none", "open", "ending", "ended"}]
  /\ request \in [OwnerRequests -> RequestShape]
  /\ endings \subseteq {"owner", "draft", "api", "composition"}

\* Nobody is connected.
NoneConnected == \A r \in OwnerRequests : request[r].at \notin Underway

\* Where the service is tells who may be connected and which pools are whole.
ConnectionsHold ==
  /\ listening \subseteq Listeners /\ endings \subseteq Listeners \cup {"composition"}
  /\ \A r \in OwnerRequests : request[r].at \in Underway => request[r].on \in Listeners
  /\ stage \notin {"starting", "up"} => listening = {}
  /\ stage \in {"composing", "closed"} => NoneConnected
  /\ stage = "closing" => \A l \in Listeners \ endings : On(l) = {}
PoolsHold ==
  /\ stage = "composing" => pools["drafts"] = "none"
  /\ stage \in {"starting", "up"} => pools["drafts"] = "open"
  /\ stage \in {"starting", "up"} /\ host = "local" => \A p \in AllPools : pools[p] = "open"
  /\ Closing /\ host = "local" => \A p \in AllPools : pools[p] # "open"
  /\ stage = "closing" /\ host = "hosted" /\ "api" \in endings => pools["drafts"] = "open"

ServiceInv == ServiceTypeOK /\ ConnectionsHold /\ PoolsHold

\* Nothing is connected and no pool made at the start.
LEMMA ServiceStarts == ServiceInit => ServiceInv
BY DEF ServiceInit, ServiceInv, ServiceTypeOK, ConnectionsHold, PoolsHold, NoneConnected,
       RequestShape, AllPools, Underway, Closing, Listeners

\* A pool that is told to end.
LEMMA EndingHolds ==
  ASSUME ServiceTypeOK
  PROVE  /\ Ending \in [AllPools -> {"none", "open", "ending", "ended"}]
         /\ \A p \in AllPools : Ending[p] # "open"
         /\ \A p \in AllPools : pools[p] # "open" => Ending[p] = pools[p]
BY DEF ServiceTypeOK, Ending

\* The pools are made before anything listens.
LEMMA MakePoolsKeeps ==
  ASSUME ServiceInv, MakePools PROVE ServiceInv'
<1>1. PICK p \in AllPools :
        /\ pools[p] = "none"
        /\ IF host = "hosted" THEN p = "drafts"
           ELSE \E i \in 1..3 : LocalPools[i] = p /\ \A j \in 1..(i - 1) : pools[LocalPools[j]] = "open"
        /\ pools' = [pools EXCEPT ![p] = "open"]
        /\ stage' = IF p = "drafts" THEN "starting" ELSE "composing"
  BY DEF MakePools
<1>2. p = "drafts" /\ host = "local" => pools["installations"] = "open" /\ pools["sessions"] = "open"
  BY <1>1 DEF LocalPools
<1>3. ServiceTypeOK'
  BY <1>1 DEF ServiceInv, ServiceTypeOK, MakePools
<1>4. NoneConnected /\ listening = {} /\ UNCHANGED <<host, listening, request, endings>>
  BY DEF MakePools, ServiceInv, ConnectionsHold
<1>5. ConnectionsHold'
  BY <1>1, <1>4 DEF ServiceInv, ConnectionsHold, NoneConnected, Listeners
<1>6. PoolsHold'
  BY <1>1, <1>2, <1>4 DEF ServiceInv, ServiceTypeOK, PoolsHold, MakePools, AllPools, Closing
<1> QED
  BY <1>3, <1>5, <1>6 DEF ServiceInv

\* A composition that fails ends the pools it made.
LEMMA CompositionFailsKeeps ==
  ASSUME ServiceInv, CompositionFails PROVE ServiceInv'
<1>1. NoneConnected /\ listening = {} /\ UNCHANGED <<host, listening, request, endings>>
      /\ stage' = "closed" /\ pools' = Ending
  BY DEF CompositionFails, ServiceInv, ConnectionsHold
<1>2. ServiceTypeOK'
  BY <1>1, EndingHolds DEF ServiceInv, ServiceTypeOK
<1>3. ConnectionsHold'
  BY <1>1 DEF ServiceInv, ConnectionsHold, NoneConnected, Listeners
<1>4. PoolsHold'
  BY <1>1, EndingHolds DEF ServiceInv, PoolsHold, Closing
<1> QED
  BY <1>2, <1>3, <1>4 DEF ServiceInv

\* A listener comes up over pools that are whole.
LEMMA ListenKeeps ==
  ASSUME ServiceInv, NEW l, Listen(l) PROVE ServiceInv'
BY DEF Listen, ServiceInv, ServiceTypeOK, ConnectionsHold, PoolsHold, NoneConnected, Listeners,
       Closing

\* Closing takes the listeners down, and a local host tells its pools.
LEMMA CloseKeeps ==
  ASSUME ServiceInv, Close PROVE ServiceInv'
<1>0. /\ stage \in {"starting", "up"} /\ stage' = "closing" /\ listening' = {} /\ host' = host
      /\ request \in [OwnerRequests -> RequestShape]
  BY DEF Close, ServiceInv, ServiceTypeOK
<1>1. CASE host = "local"
  <2>1. /\ pools' = Ending /\ endings' = {"owner", "draft", "composition"}
        /\ request' = [r \in OwnerRequests |-> IF r \in On("owner")
                         THEN [request[r] EXCEPT !.at = "withheld"] ELSE request[r]]
    BY <1>1 DEF Close, Listeners
  <2>2. ASSUME NEW r \in OwnerRequests
        PROVE  /\ request'[r] \in RequestShape /\ request'[r].on = request[r].on
               /\ request'[r].at \in Underway => request[r].at \in Underway
    BY <1>0, <2>1 DEF RequestShape, Underway
  <2>3. ServiceTypeOK'
    BY <1>0, <2>1, <2>2, EndingHolds DEF ServiceInv, ServiceTypeOK
  <2>4. ConnectionsHold'
    BY <1>0, <1>1, <2>1, <2>2 DEF ServiceInv, ConnectionsHold, Listeners
  <2>5. PoolsHold'
    BY <1>0, <1>1, <2>1, EndingHolds DEF ServiceInv, PoolsHold
  <2> QED
    BY <2>3, <2>4, <2>5 DEF ServiceInv
<1>2. CASE host = "hosted"
  BY <1>0, <1>2 DEF Close, ServiceInv, ServiceTypeOK, ConnectionsHold, PoolsHold, Listeners, Closing
<1> QED
  BY <1>1, <1>2 DEF ServiceInv, ServiceTypeOK

\* A request moves on: it was connected, and is so only where it was.
LEMMA RequestMoves ==
  ASSUME ServiceInv, NEW r \in OwnerRequests, NEW at, request[r].at \in Underway,
         at \in Underway \cup {"refused", "answered"}, Moves(r, at),
         UNCHANGED <<host, stage, pools, listening, endings>>
  PROVE  ServiceInv'
<1>0. request \in [OwnerRequests -> RequestShape]
  BY DEF ServiceInv, ServiceTypeOK
<1>1. /\ request'[r].at = at /\ request'[r].on = request[r].on
      /\ \A q \in OwnerRequests \ {r} : request'[q] = request[q]
  BY <1>0 DEF Moves, RequestShape
<1>2. ServiceTypeOK'
  BY <1>0 DEF Moves, RequestShape, ServiceInv, ServiceTypeOK
<1>3. ConnectionsHold'
  <2>1. \A l : On(l)' \subseteq On(l)
    BY <1>1 DEF On
  <2> QED
    BY <1>1, <2>1 DEF ServiceInv, ConnectionsHold, NoneConnected, Listeners
<1> QED
  BY <1>2, <1>3 DEF ServiceInv, PoolsHold, Closing

\* A request connects to a listener that is up.
LEMMA ConnectKeeps ==
  ASSUME ServiceInv, NEW r \in OwnerRequests, NEW l \in {"owner", "draft", "api"}, Connect(r, l)
  PROVE  ServiceInv'
<1>0. request \in [OwnerRequests -> RequestShape]
  BY DEF ServiceInv, ServiceTypeOK
<1>1. stage \in {"starting", "up"} /\ l \in Listeners
  BY DEF ServiceInv, ConnectionsHold, Connect
<1>2. ServiceTypeOK'
  BY <1>0 DEF Connect, RequestShape, Underway, ServiceInv, ServiceTypeOK
<1>3. ConnectionsHold'
  BY <1>0, <1>1 DEF Connect, ServiceInv, ConnectionsHold, Listeners
<1> QED
  BY <1>2, <1>3 DEF ServiceInv, PoolsHold, Closing, Connect

\* A request is admitted, calls and is answered while its pool is whole.
LEMMA RequestsKeep ==
  ASSUME ServiceInv, NEW r \in OwnerRequests, Admit(r) \/ CallRepository(r) \/ Answer(r)
  PROVE  ServiceInv'
BY RequestMoves DEF Admit, CallRepository, Answer, Underway

\* A pool that was told to end ends when no call is on it.
LEMMA PoolEndsKeeps ==
  ASSUME ServiceInv, NEW p \in AllPools, PoolEnds(p)
  PROVE  ServiceInv'
<1>1. ServiceTypeOK'
  BY DEF PoolEnds, ServiceInv, ServiceTypeOK
<1>2. ConnectionsHold'
  BY DEF PoolEnds, ServiceInv, ConnectionsHold, Listeners, On, NoneConnected
<1>3. PoolsHold'
  BY DEF PoolEnds, ServiceInv, ServiceTypeOK, PoolsHold, Closing
<1> QED
  BY <1>1, <1>2, <1>3 DEF ServiceInv

\* A server ends when its requests are through.
LEMMA ServerEndsKeeps ==
  ASSUME ServiceInv, NEW l \in {"owner", "draft", "api"}, ServerEnds(l)
  PROVE  ServiceInv'
<1>1. ServiceTypeOK'
  BY EndingHolds DEF ServerEnds, ServiceInv, ServiceTypeOK
<1>2. ConnectionsHold'
  BY DEF ServerEnds, ServiceInv, ConnectionsHold, Listeners, On, NoneConnected
<1>3. PoolsHold'
  <2>1. CASE host = "local"
    BY <2>1, EndingHolds DEF ServerEnds, ServiceInv, ServiceTypeOK, PoolsHold, Closing
  <2>2. CASE host = "hosted"
    <3>1. l = "api"
      BY <2>2 DEF Listeners, ServerEnds, ServiceInv, ConnectionsHold
    <3> QED
      BY <2>2, <3>1, EndingHolds DEF ServerEnds, ServiceInv, ServiceTypeOK, PoolsHold, Closing
  <2> QED
    BY <2>1, <2>2 DEF ServiceInv, ServiceTypeOK
<1> QED
  BY <1>1, <1>2, <1>3 DEF ServiceInv

\* The composition has ended when its pools have.
LEMMA CompositionEndsKeeps ==
  ASSUME ServiceInv, CompositionEnds
  PROVE  ServiceInv'
BY DEF CompositionEnds, ServiceInv, ServiceTypeOK, ConnectionsHold, PoolsHold, NoneConnected,
       Listeners, On, Closing

\* The close is over when all has ended, or at its deadline.
LEMMA FinishCloseKeeps ==
  ASSUME ServiceInv, FinishClose
  PROVE  ServiceInv'
<1>0. /\ request \in [OwnerRequests -> RequestShape] /\ stage' = "closed"
      /\ UNCHANGED <<host, pools, listening>> /\ endings' = {}
  BY DEF ServiceInv, ServiceTypeOK, FinishClose
<1>1. ASSUME NEW r \in OwnerRequests
      PROVE  request'[r] \in RequestShape /\ request'[r].at \notin Underway
  BY <1>0 DEF FinishClose, RequestShape, Underway
<1>2. ServiceTypeOK'
  BY <1>0, <1>1 DEF FinishClose, ServiceInv, ServiceTypeOK
<1>3. ConnectionsHold'
  BY <1>0, <1>1 DEF FinishClose, ServiceInv, ConnectionsHold, NoneConnected
<1>4. PoolsHold'
  BY <1>0 DEF FinishClose, ServiceInv, PoolsHold, Closing
<1> QED
  BY <1>2, <1>3, <1>4 DEF ServiceInv

\* Every step of the lifecycle keeps the invariant.
LEMMA ServiceKeeps == ServiceInv /\ [ServiceNext]_service => ServiceInv'
<1>1. ServiceInv /\ UNCHANGED service => ServiceInv'
  BY DEF service, ServiceInv, ServiceTypeOK, ConnectionsHold, PoolsHold, NoneConnected,
         Listeners, On, Closing
<1> QED
  BY <1>1, MakePoolsKeeps, CompositionFailsKeeps, ListenKeeps, CloseKeeps, ConnectKeeps,
     RequestsKeep, PoolEndsKeeps, ServerEndsKeeps, CompositionEndsKeeps, FinishCloseKeeps
  DEF ServiceNext, AllEnded, Deadline

\* The invariant, of any behaviour of the lifecycle.
LEMMA ServiceInductive == ServiceInit /\ [][ServiceNext]_service => []ServiceInv
BY ServiceStarts, ServiceKeeps, PTL

\* No step begins a call on a pool that is not open.
LEMMA CallsOpenPools ==
  ASSUME ServiceInv, [ServiceNext]_service, NEW r \in OwnerRequests,
         request'[r].at = "calling", request[r].at = "admitted"
  PROVE  pools[PoolOf(request[r].on)] = "open"
<1>0. /\ request \in [OwnerRequests -> RequestShape] /\ request[r] \in RequestShape
      /\ host \in {"local", "hosted"} /\ request[r].at \in Underway
      /\ request[r].on \in Listeners
      /\ stage \in {"starting", "up", "closing"}
  BY DEF ServiceInv, ServiceTypeOK, ConnectionsHold, NoneConnected, Underway
<1>1. CallRepository(r)
  <2>1. request' # request
    BY <1>0
  <2>2. CASE \E q \in OwnerRequests : \E l \in {"owner", "draft", "api"} : Connect(q, l)
    BY <1>0, <2>2 DEF Connect
  <2>3. CASE \E q \in OwnerRequests : Admit(q) \/ CallRepository(q) \/ Answer(q)
    BY <1>0, <2>3 DEF Admit, CallRepository, Answer, Moves
  <2>4. CASE Close \/ FinishClose
    BY <1>0, <2>4 DEF Close, FinishClose, RequestShape
  <2> QED
    BY <2>1, <2>2, <2>3, <2>4
    DEF ServiceNext, service, MakePools, CompositionFails, CompositionEnds, AllEnded, Deadline,
        Listen, ServerEnds, PoolEnds
<1>2. host = "hosted" \/ ~Closing
  BY <1>0, <1>1 DEF CallRepository, Moves, CompositionOpen
<1>3. CASE host = "hosted"
  <2>1. request[r].on = "api"
    BY <1>0, <1>3 DEF Listeners
  <2>2. r \in On("api") /\ "api" \in Listeners
    BY <1>0, <1>3, <2>1 DEF On, Listeners
  <2>3. stage = "closing" => "api" \in endings
    BY <2>2 DEF ServiceInv, ConnectionsHold
  <2> QED
    BY <1>0, <1>3, <2>1, <2>3 DEF ServiceInv, PoolsHold, PoolOf
<1>4. CASE host = "local" /\ ~Closing
  BY <1>0, <1>4 DEF ServiceInv, PoolsHold, PoolOf, Closing, AllPools
<1> QED
  BY <1>0, <1>2, <1>3, <1>4

\* Nobody is cut off when all has ended.
LEMMA OnlyLateAreCut ==
  ASSUME ServiceInv, [ServiceNext]_service, NEW r \in OwnerRequests,
         request'[r].at = "cut", request[r].at # "cut"
  PROVE  ~Stopped
<1>0. /\ request \in [OwnerRequests -> RequestShape] /\ request[r] \in RequestShape
  BY DEF ServiceInv, ServiceTypeOK
<1>1. FinishClose
  <2>1. request' # request
    OBVIOUS
  <2>2. ~\E q \in OwnerRequests : \E l \in {"owner", "draft", "api"} : Connect(q, l)
    BY <1>0 DEF Connect
  <2>3. ~\E q \in OwnerRequests : Admit(q) \/ CallRepository(q) \/ Answer(q)
    BY <1>0 DEF Admit, CallRepository, Answer, Moves, RequestShape
  <2>4. ~Close
    BY <1>0 DEF Close, RequestShape
  <2> QED
    BY <2>1, <2>2, <2>3, <2>4
    DEF ServiceNext, service, MakePools, CompositionFails, CompositionEnds, AllEnded, Deadline,
        Listen, ServerEnds, PoolEnds
<1>2. request[r].at \in Underway /\ stage = "closing"
  BY <1>1 DEF FinishClose
<1>3. request[r].on \in Listeners /\ r \in On(request[r].on)
  BY <1>2 DEF ServiceInv, ConnectionsHold, On
<1>4. request[r].on \in endings
  BY <1>2, <1>3 DEF ServiceInv, ConnectionsHold
<1> QED
  BY <1>4 DEF Stopped

\* The hosted service's pool ends under no connection.
LEMMA DrainsFirst ==
  ASSUME ServiceInv, [ServiceNext]_service, host = "hosted", pools'["drafts"] = "ended"
  PROVE  On("api") = {}
<1>0. pools \in [AllPools -> {"none", "open", "ending", "ended"}] /\ "drafts" \in AllPools
  BY DEF ServiceInv, ServiceTypeOK, AllPools
<1>1. pools["drafts"] \in {"ending", "ended"}
  <2>1. CASE \E p \in AllPools : PoolEnds(p)
    BY <1>0, <2>1 DEF PoolEnds
  <2>2. CASE MakePools
    BY <1>0, <2>2 DEF MakePools
  <2>3. CASE pools' \in {pools, Ending}
    BY <1>0, <2>3 DEF Ending
  <2> QED
    BY <2>1, <2>2, <2>3
    DEF ServiceNext, service, CompositionFails, CompositionEnds, AllEnded, Deadline, FinishClose,
        Listen, ServerEnds, Close, Connect, Admit, CallRepository, Answer
<1>2. CASE stage = "closing"
  BY <1>1, <1>2 DEF ServiceInv, ConnectionsHold, PoolsHold, Listeners
<1>3. CASE stage = "closed"
  BY <1>3 DEF ServiceInv, ConnectionsHold, NoneConnected, On
<1> QED
  BY <1>1, <1>2, <1>3 DEF ServiceInv, ServiceTypeOK, PoolsHold

\* Closing either host is clean, for a request admitted before the close too:
\* no call begins on a pool that was told to end, the hosted service drains its
\* connections before it ends their pool, only the deadline cuts one off, and
\* nothing is left listening or connected (close of mode-owner-local and of
\* main.ts).
THEOREM ClosesCleanly == ServiceInit /\ [][ServiceNext]_service => CloseIsClean
<1>1. ServiceInv' =>
        (stage' = "closed" =>
           /\ listening' = {}
           /\ \A r \in OwnerRequests : request'[r].at \notin Underway
           /\ host' = "local" => \A p \in AllPools : pools'[p] # "open")
  BY DEF ServiceInv, ConnectionsHold, PoolsHold, NoneConnected, Closing
<1>2. [ServiceNext]_service => host' = host
  BY DEF ServiceNext, service, MakePools, CompositionFails, CompositionEnds, AllEnded, Deadline,
         FinishClose, Listen, ServerEnds, PoolEnds, Close, Connect, Admit, CallRepository, Answer
<1>3. ServiceInv /\ [ServiceNext]_service
        => [/\ \A r \in OwnerRequests :
                 /\ request'[r].at = "calling" /\ request[r].at = "admitted"
                      => pools[PoolOf(request[r].on)] = "open"
                 /\ request'[r].at = "cut" /\ request[r].at # "cut" => ~Stopped
            /\ host = "hosted" /\ pools'["drafts"] = "ended" => On("api") = {}
            /\ stage' = "closed" =>
                 /\ listening' = {}
                 /\ \A r \in OwnerRequests : request'[r].at \notin Underway
                 /\ host = "local" => \A p \in AllPools : pools'[p] # "open"]_service
  BY <1>1, <1>2, ServiceKeeps, CallsOpenPools, OnlyLateAreCut, DrainsFirst
<1> QED
  BY <1>3, ServiceInductive, PTL DEF CloseIsClean

---------------------------------------------------------------------------
\* All of the owner's service, in the composition the run checks: a close is
\* clean, admission stays exact, and nothing enters what has stopped.
THEOREM ServiceHolds == Spec => OwnerServiceHolds
<1>1. Init => AdmissionInit /\ ServiceInit
  BY DEF Init
<1>2. [Next]_vars => [AdmissionNext]_admission /\ [ServiceNext]_service
  BY DEF Next, vars
<1> QED
  BY <1>1, <1>2, AdmissionExact, NothingEnters, ClosesCleanly, PTL DEF Spec, OwnerServiceHolds

---------------------------------------------------------------------------
(* PlanningAllocation.                                                     *)

GroupShape == [crew : Crews \cup {"none"}, expires : Int,
               status : {"none", "held", "expired", "released"}, by : SUBSET Calls]
ClientShape == [phase : {"idle", "acquiring", "in_transaction", "committing", "settled"},
                kind : {"none", "failed", "unknown_commit", "receipt", "withheld"},
                usable : BOOLEAN, entry : Int, lagAtEntry : Int, expires : Int, toldAt : Int]
ServerShape == [at : {"none", "open", "wrote", "refused", "committed", "rolled_back"},
                ask : Asks \cup {NoBackend.ask}, new : GroupShape]

PlanningTypeOK ==
  /\ clock \in Int /\ lag \in Int
  /\ group \in [Bookings -> Seq(GroupShape)]
  /\ call \in [Calls -> ClientShape]
  /\ backend \in [Calls -> ServerShape]

\* How far a client is tells how far its server's side can be.
SidesAgree(c) ==
  /\ call[c].phase # "idle" => backend[c].ask \in Asks
  /\ call[c].phase \in {"idle", "acquiring"} => backend[c].at = "none"
  /\ call[c].phase = "in_transaction" => backend[c].at \in {"open", "wrote", "refused"}
  /\ call[c].phase = "committing" => backend[c].at \in {"wrote", "committed", "rolled_back"}
  /\ call[c].phase # "settled" => call[c].kind = "none" /\ ~call[c].usable
  /\ call[c].kind = "failed" => backend[c].at # "committed"
  /\ call[c].kind \in {"receipt", "withheld"} => backend[c].at = "committed"
  /\ call[c].usable /\ call[c].lagAtEntry = 0 => call[c].toldAt < call[c].expires

\* What was committed is the generation that was asked for.
IsStored(c) ==
  LET a == backend[c].ask
  IN backend[c].at = "committed" =>
       Len(group[a.booking]) >= a.target /\ group[a.booking][a.target].crew = a.crew

\* What is written and not yet committed is what is stored already, or the next
\* generation, whose workers no other booking holds: its lock keeps it so.
IsWritten(c) ==
  LET a == backend[c].ask
      new == backend[c].new
  IN backend[c].at = "wrote" =>
       \/ a.target = Len(group[a.booking]) /\ group[a.booking][a.target].crew = a.crew
       \/ /\ a.target = Len(group[a.booking]) + 1
          /\ new.crew = a.crew /\ new.by = {c}
          /\ \A d \in Bookings \ {a.booking} :
               \A g \in Held(d) : Workers(new.crew) \cap Workers(g.crew) = {}

OneWriter == \A c, d \in Writing : c = d
\* A stored group is its caller's whose transaction committed.
ByCommitted(b) ==
  \A i \in DOMAIN group[b] : \A c \in group[b][i].by : backend[c].at = "committed"

PlanningInv ==
  /\ PlanningTypeOK /\ OneWriter /\ NoWorkerTwice
  /\ \A c \in Calls : SidesAgree(c) /\ IsStored(c) /\ IsWritten(c)
  /\ \A b \in Bookings : ByCommitted(b)

\* Nothing is allocated at the start.
LEMMA PlanningStarts == PlanningInit => PlanningInv
<1> SUFFICES ASSUME PlanningInit PROVE PlanningInv
  OBVIOUS
<1>1. NoGroup \in GroupShape /\ Idle \in ClientShape
  BY DEF NoGroup, GroupShape, Idle, ClientShape
<1>2. NoBackend \in ServerShape
  BY <1>1 DEF NoBackend, ServerShape
<1>3. PlanningTypeOK
  BY <1>1, <1>2 DEF PlanningInit, PlanningTypeOK
<1>4. \A c \in Calls : /\ call[c].phase = "idle" /\ call[c].kind = "none" /\ ~call[c].usable
                       /\ backend[c].at = "none"
  BY DEF PlanningInit, Idle, NoBackend
<1>5. \A b \in Bookings : group[b] = <<>> /\ Held(b) = {}
  BY DEF PlanningInit, Held, Range
<1>6. OneWriter /\ NoWorkerTwice
  BY <1>4, <1>5 DEF OneWriter, Writing, NoWorkerTwice
<1>7. \A c \in Calls : SidesAgree(c) /\ IsStored(c) /\ IsWritten(c)
  BY <1>4 DEF SidesAgree, IsStored, IsWritten
<1>8. \A b \in Bookings : ByCommitted(b)
  BY <1>5 DEF ByCommitted
<1> QED
  BY <1>3, <1>6, <1>7, <1>8 DEF PlanningInv

\* While the groups stay, time only lets them lapse.
LEMMA HeldShrinks ==
  ASSUME PlanningTypeOK, UNCHANGED group, clock' \in Int, clock' >= clock
  PROVE  \A b \in Bookings : Held(b)' \subseteq Held(b)
<1> SUFFICES ASSUME NEW b \in Bookings, NEW g \in Held(b)' PROVE g \in Held(b)
  OBVIOUS
<1>1. PICK i \in DOMAIN group[b] : g = group[b][i]
  BY DEF Held, Range
<1>2. g \in GroupShape
  BY <1>1 DEF PlanningTypeOK
<1>3. g.expires \in Int
  BY <1>2 DEF GroupShape
<1> QED
  BY <1>3 DEF Held, PlanningTypeOK

\* Steps that store nothing: the client's and the server's side of one call move.
LEMMA SidesMove ==
  ASSUME PlanningInv, UNCHANGED group, clock' \in Int, clock' >= clock, lag' \in Int,
         call' \in [Calls -> ClientShape], backend' \in [Calls -> ServerShape],
         \A c \in Calls : /\ SidesAgree(c)'
                          /\ backend'[c].at = "committed" <=> backend[c].at = "committed"
                          /\ backend'[c].at = "committed" => backend'[c].ask = backend[c].ask
                          /\ backend'[c].at = "wrote" =>
                               IsWritten(c)' \/ backend'[c] = backend[c],
         OneWriter'
  PROVE  PlanningInv'
<1>1. PlanningTypeOK'
  BY DEF PlanningInv, PlanningTypeOK
<1>2. \A b \in Bookings : Held(b)' \subseteq Held(b)
  BY HeldShrinks DEF PlanningInv
<1>3. NoWorkerTwice'
  BY <1>2 DEF PlanningInv, NoWorkerTwice
<1>4. ASSUME NEW c \in Calls PROVE IsStored(c)' /\ IsWritten(c)'
  <2>1. IsStored(c)'
    BY DEF PlanningInv, IsStored
  <2>2. ASSUME backend'[c] = backend[c] PROVE IsWritten(c)'
    <3>1. IsWritten(c) /\ group' = group
      BY DEF PlanningInv
    <3> QED
      BY <1>2, <2>2, <3>1 DEF IsWritten
  <2>3. ASSUME backend'[c].at # "wrote" PROVE IsWritten(c)'
    BY <2>3 DEF IsWritten
  <2> QED
    BY <2>1, <2>2, <2>3
<1>5. ASSUME NEW b \in Bookings PROVE ByCommitted(b)'
  <2>1. ASSUME NEW i \in DOMAIN group[b] PROVE group[b][i].by \subseteq Calls
    <3>1. group[b] \in Seq(GroupShape)
      BY DEF PlanningInv, PlanningTypeOK
    <3>2. group[b][i] \in GroupShape
      BY <3>1
    <3> QED
      BY <3>2 DEF GroupShape
  <2> QED
    BY <2>1 DEF PlanningInv, ByCommitted
<1> QED
  BY <1>1, <1>3, <1>4, <1>5 DEF PlanningInv

\* One call's sides move, and nothing is stored.
LEMMA SideStep ==
  ASSUME PlanningInv, NEW c \in Calls, NEW k \in ClientShape, NEW s \in ServerShape,
         call' = [call EXCEPT ![c] = k], backend' = [backend EXCEPT ![c] = s],
         UNCHANGED <<clock, lag, group>>, SidesAgree(c)',
         s.at = "committed" <=> backend[c].at = "committed",
         s.at = "committed" => s.ask = backend[c].ask,
         s.at = "wrote" => IsWritten(c)' \/ s = backend[c],
         s.at \in {"wrote", "refused"} => c \in Writing \/ Writing = {}
  PROVE  PlanningInv'
<1>0. call \in [Calls -> ClientShape] /\ backend \in [Calls -> ServerShape]
      /\ clock \in Int /\ lag \in Int
  BY DEF PlanningInv, PlanningTypeOK
<1>1. /\ call'[c] = k /\ backend'[c] = s
      /\ \A d \in Calls \ {c} : call'[d] = call[d] /\ backend'[d] = backend[d]
      /\ call' \in [Calls -> ClientShape] /\ backend' \in [Calls -> ServerShape]
  BY <1>0
<1>2. \A d \in Calls : SidesAgree(d)'
  BY <1>1 DEF PlanningInv, SidesAgree
<1>3. OneWriter'
  <2>1. Writing' \subseteq Writing \cup {c} /\ (c \in Writing' => c \in Writing \/ Writing = {})
    BY <1>1 DEF Writing
  <2> QED
    BY <2>1 DEF PlanningInv, OneWriter
<1> QED
  BY <1>0, <1>1, <1>2, <1>3, SidesMove

\* A call begins with its ask.
LEMMA AllocateKeeps ==
  ASSUME PlanningInv, NEW c \in Calls, NEW a \in Asks, Allocate(c, a) PROVE PlanningInv'
<1> DEFINE k == [call[c] EXCEPT !.phase = "acquiring", !.entry = clock, !.lagAtEntry = lag]
           s == [backend[c] EXCEPT !.ask = a]
<1>0. /\ call \in [Calls -> ClientShape] /\ backend \in [Calls -> ServerShape]
      /\ call[c] \in ClientShape /\ backend[c] \in ServerShape
      /\ clock \in Int /\ lag \in Int /\ SidesAgree(c) /\ call[c].phase = "idle"
  BY DEF PlanningInv, PlanningTypeOK, Allocate
<1>1. /\ k \in ClientShape /\ k.phase = "acquiring" /\ k.kind = call[c].kind
      /\ k.usable = call[c].usable
  BY <1>0 DEF ClientShape
<1>2. s \in ServerShape /\ s.at = backend[c].at /\ s.ask = a
  BY <1>0 DEF ServerShape
<1>3. call' = [call EXCEPT ![c] = k] /\ backend' = [backend EXCEPT ![c] = s]
  BY <1>0 DEF Allocate
<1> HIDE DEF k, s
<1>4. backend[c].at = "none"
  BY <1>0 DEF SidesAgree
<1>5. SidesAgree(c)'
  BY <1>0, <1>1, <1>2, <1>3, <1>4 DEF SidesAgree
<1> QED
  BY <1>1, <1>2, <1>3, <1>4, <1>5, SideStep DEF Allocate

\* A client that settles on its own.
LEMMA FinishKeepsPlan ==
  ASSUME PlanningInv, NEW c \in Calls,
         NEW kind \in {"failed", "unknown_commit", "withheld"}, Finish(c, kind),
         call[c].phase # "idle",
         kind = "failed" => backend[c].at # "committed",
         kind = "withheld" => backend[c].at = "committed"
  PROVE  PlanningInv'
<1>0. /\ call \in [Calls -> ClientShape] /\ backend \in [Calls -> ServerShape]
      /\ backend[c] \in ServerShape /\ SidesAgree(c)
  BY DEF PlanningInv, PlanningTypeOK
<1>1. /\ Settled(kind) \in ClientShape /\ Settled(kind).phase = "settled"
      /\ Settled(kind).kind = kind /\ ~Settled(kind).usable
  <2>1. Idle \in ClientShape /\ ~Idle.usable
    BY DEF Idle, ClientShape
  <2> QED
    BY <2>1 DEF Settled, ClientShape
<1>2. call' = [call EXCEPT ![c] = Settled(kind)] /\ UNCHANGED <<clock, lag, group, backend>>
  BY DEF Finish
<1>3. backend' = [backend EXCEPT ![c] = backend[c]]
  BY <1>0, <1>2
<1>4. SidesAgree(c)'
  BY <1>0, <1>1, <1>2 DEF SidesAgree
<1> QED
  BY <1>0, <1>1, <1>2, <1>3, <1>4, SideStep DEF Writing

\* A call that stops settles with what it knows.
LEMMA StopCallKeeps ==
  ASSUME PlanningInv, NEW c \in Calls, StopCall(c) PROVE PlanningInv'
<1>1. SidesAgree(c) /\ call[c] \in ClientShape
  BY DEF PlanningInv, PlanningTypeOK
<1>2. call[c].phase # "committing" => backend[c].at # "committed"
  BY <1>1 DEF SidesAgree, StopCall, Unsettled, ClientShape
<1> QED
  BY <1>1, <1>2, FinishKeepsPlan DEF StopCall, StopKind, Unsettled

\* A call takes one of the pool's connections.
LEMMA AcquireKeeps ==
  ASSUME PlanningInv, NEW c \in Calls, Acquire(c) PROVE PlanningInv'
<1> DEFINE k == [call[c] EXCEPT !.phase = "in_transaction"]
           s == [backend[c] EXCEPT !.at = "open"]
<1>0. /\ call \in [Calls -> ClientShape] /\ backend \in [Calls -> ServerShape]
      /\ call[c] \in ClientShape /\ backend[c] \in ServerShape
      /\ SidesAgree(c) /\ call[c].phase = "acquiring"
  BY DEF PlanningInv, PlanningTypeOK, Acquire
<1>1. /\ k \in ClientShape /\ k.phase = "in_transaction" /\ k.kind = call[c].kind
      /\ k.usable = call[c].usable
  BY <1>0 DEF ClientShape
<1>2. s \in ServerShape /\ s.at = "open" /\ s.ask = backend[c].ask
  BY <1>0 DEF ServerShape
<1>3. call' = [call EXCEPT ![c] = k] /\ backend' = [backend EXCEPT ![c] = s]
  BY <1>0 DEF Acquire
<1> HIDE DEF k, s
<1>4. backend[c].at = "none"
  BY <1>0 DEF SidesAgree
<1>5. SidesAgree(c)'
  BY <1>0, <1>1, <1>2, <1>3 DEF SidesAgree
<1> QED
  BY <1>1, <1>2, <1>3, <1>4, <1>5, SideStep DEF Acquire

\* A call whose statement wrote sends its commit; a refused one fails.
LEMMA AnsweredKeeps ==
  ASSUME PlanningInv, NEW c \in Calls, Answered(c) PROVE PlanningInv'
<1>0. /\ call \in [Calls -> ClientShape] /\ backend \in [Calls -> ServerShape]
      /\ call[c] \in ClientShape /\ backend[c] \in ServerShape
      /\ SidesAgree(c) /\ call[c].phase = "in_transaction"
  BY DEF PlanningInv, PlanningTypeOK, Answered
<1>1. CASE backend[c].at = "refused" /\ Finish(c, "failed")
  BY <1>0, <1>1, FinishKeepsPlan
<1>2. CASE /\ backend[c].at = "wrote"
           /\ call' = [call EXCEPT ![c].phase = "committing",
                                   ![c].expires = backend[c].new.expires]
           /\ UNCHANGED <<clock, lag, group, backend>>
  <2> DEFINE k == [call[c] EXCEPT !.phase = "committing", !.expires = backend[c].new.expires]
  <2>1. backend[c].new.expires \in Int
    BY <1>0 DEF ServerShape, GroupShape
  <2>2. /\ k \in ClientShape /\ k.phase = "committing" /\ k.kind = call[c].kind
        /\ k.usable = call[c].usable
    BY <1>0, <2>1 DEF ClientShape
  <2>3. call' = [call EXCEPT ![c] = k] /\ backend' = [backend EXCEPT ![c] = backend[c]]
    BY <1>0, <1>2
  <2> HIDE DEF k
  <2>4. SidesAgree(c)'
    BY <1>0, <1>2, <2>2, <2>3 DEF SidesAgree
  <2> QED
    BY <1>0, <1>2, <2>2, <2>3, <2>4, SideStep DEF Writing
<1> QED
  BY <1>1, <1>2 DEF Answered

\* A transaction rolled back has written nothing.
LEMMA ServerRollsBackKeeps ==
  ASSUME PlanningInv, NEW c \in Calls, ServerRollsBack(c) PROVE PlanningInv'
<1> DEFINE s == [backend[c] EXCEPT !.at = "rolled_back", !.new = NoGroup]
<1>0. /\ call \in [Calls -> ClientShape] /\ backend \in [Calls -> ServerShape]
      /\ call[c] \in ClientShape /\ backend[c] \in ServerShape /\ SidesAgree(c)
      /\ call[c].phase \in {"settled", "committing"}
      /\ backend[c].at \in {"open", "wrote", "refused"}
  BY DEF PlanningInv, PlanningTypeOK, ServerRollsBack
<1>1. NoGroup \in GroupShape
  BY DEF NoGroup, GroupShape
<1>2. s \in ServerShape /\ s.at = "rolled_back" /\ s.ask = backend[c].ask
  BY <1>0, <1>1 DEF ServerShape
<1>3. call' = [call EXCEPT ![c] = call[c]] /\ backend' = [backend EXCEPT ![c] = s] /\ call' = call
  BY <1>0 DEF ServerRollsBack
<1> HIDE DEF s
<1>4. SidesAgree(c)'
  BY <1>0, <1>2, <1>3 DEF SidesAgree
<1> QED
  BY <1>0, <1>2, <1>3, <1>4, SideStep DEF ServerRollsBack

\* What a client has when its receipt was told.
Receipted(k, told, zero, yes) ==
  [k EXCEPT !.phase = "settled", !.kind = "receipt", !.toldAt = told, !.entry = zero, !.usable = yes]

\* A client that was given a receipt is settled.
LEMMA ReceiptShape ==
  ASSUME NEW k \in ClientShape, NEW told \in Int, NEW zero \in Int, NEW yes \in BOOLEAN
  PROVE  /\ Receipted(k, told, zero, yes) \in ClientShape
         /\ Receipted(k, told, zero, yes).phase = "settled"
         /\ Receipted(k, told, zero, yes).kind = "receipt"
         /\ Receipted(k, told, zero, yes).toldAt = told
         /\ (Receipted(k, told, zero, yes).usable <=> yes)
         /\ Receipted(k, told, zero, yes).expires = k.expires
         /\ Receipted(k, told, zero, yes).lagAtEntry = k.lagAtEntry
<1> DEFINE h == Receipted(k, told, zero, yes)
<1>1. h \in ClientShape
  BY DEF ClientShape, Receipted
<1>2. h.phase = "settled" /\ h.kind = "receipt"
  BY DEF ClientShape, Receipted
<1>3. h.toldAt = told
  BY DEF ClientShape, Receipted
<1>4. h.usable <=> yes
  BY DEF ClientShape, Receipted
<1>5. h.expires = k.expires /\ h.lagAtEntry = k.lagAtEntry
  BY DEF ClientShape, Receipted
<1> QED
  BY <1>1, <1>2, <1>3, <1>4, <1>5, Zenon

\* A commit's answer tells what was committed.
LEMMA CommitAnsweredKeeps ==
  ASSUME PlanningInv, NEW c \in Calls, CommitAnswered(c) PROVE PlanningInv'
<1>0. /\ call \in [Calls -> ClientShape] /\ backend \in [Calls -> ServerShape]
      /\ call[c] \in ClientShape /\ backend[c] \in ServerShape /\ SidesAgree(c)
      /\ call[c].phase = "committing" /\ clock \in Int /\ lag \in Int
  BY DEF PlanningInv, PlanningTypeOK, CommitAnswered
<1>1. CASE \E kind \in {"failed", "withheld"} :
             /\ Finish(c, kind)
             /\ kind = "failed" => backend[c].at = "rolled_back"
             /\ kind = "withheld" => backend[c].at = "committed"
  BY <1>0, <1>1, FinishKeepsPlan
<1> DEFINE may == backend[c].new.status = "held" /\ Comparison(c) < call[c].expires
           k == Receipted(call[c], clock, 0, may)
<1>2. CASE /\ backend[c].at = "committed" /\ call' = [call EXCEPT ![c] = k]
           /\ UNCHANGED <<clock, lag, group, backend>>
  <2>1. /\ k \in ClientShape /\ k.phase = "settled" /\ k.kind = "receipt" /\ k.toldAt = clock
        /\ k.usable <=> may
        /\ k.expires = call[c].expires /\ k.lagAtEntry = call[c].lagAtEntry
    <3>1. call[c] \in ClientShape /\ clock \in Int /\ 0 \in Int /\ may \in BOOLEAN
      BY <1>0
    <3> HIDE DEF may
    <3> QED
      BY <3>1, ReceiptShape
  <2>2. /\ call[c].entry \in Int /\ call[c].lagAtEntry \in Int /\ call[c].expires \in Int
    BY <1>0 DEF ClientShape
  <2>3. call[c].lagAtEntry = 0 => Comparison(c) >= clock
    BY <1>0, <2>2 DEF Comparison, Elapsed, Wall
  <2>4. Comparison(c) \in Int
    BY <1>0, <2>2 DEF Comparison, Elapsed, Wall
  <2>5. k.usable /\ k.lagAtEntry = 0 => k.toldAt < k.expires
    BY <1>0, <2>1, <2>2, <2>3, <2>4
  <2>6. call'[c] = k /\ backend' = [backend EXCEPT ![c] = backend[c]]
    BY <1>0, <1>2
  <2> HIDE DEF k
  <2>7. SidesAgree(c)'
    BY <1>0, <1>2, <2>1, <2>5, <2>6 DEF SidesAgree
  <2> QED
    BY <1>0, <1>2, <2>1, <2>6, <2>7, SideStep DEF Writing
<1> QED
  BY <1>0, <1>1, <1>2 DEF CommitAnswered, Receipted

\* The current generation is the last one stored.
LEMMA CurrentIsLast ==
  ASSUME PlanningTypeOK, NEW b \in Bookings
  PROVE  /\ group[b] \in Seq(GroupShape) /\ Current(b) \in GroupShape
         /\ group[b] # <<>> => /\ Len(group[b]) \in Nat /\ Len(group[b]) > 0
                               /\ Current(b) = group[b][Len(group[b])]
<1>1. group[b] \in Seq(GroupShape)
  BY DEF PlanningTypeOK
<1>2. NoGroup \in GroupShape
  BY DEF NoGroup, GroupShape
<1>3. ASSUME group[b] # <<>>
      PROVE  /\ Len(group[b]) \in Nat /\ Len(group[b]) > 0
             /\ Current(b) = group[b][Len(group[b])]
  BY <1>1, <1>3 DEF Current, Last
<1>4. group[b] # <<>> => group[b][Len(group[b])] \in GroupShape
  BY <1>1, <1>3
<1>5. Current(b) \in GroupShape
  BY <1>2, <1>3, <1>4 DEF Current
<1> QED
  BY <1>1, <1>3, <1>5

\* What is allocated is the next generation, of workers nobody holds.
LEMMA RunAllocateKeeps ==
  ASSUME PlanningInv, NEW c \in Calls, RunAllocate(c) PROVE PlanningInv'
<1> DEFINE a == backend[c].ask
           fresh == [crew |-> a.crew, expires |-> clock + GroupTTL, status |-> "held", by |-> {c}]
           at == IF Retry(a) \/ Renewal(a) THEN "wrote" ELSE "refused"
           new == IF Retry(a) THEN Current(a.booking) ELSE IF Renewal(a) THEN fresh ELSE NoGroup
           s == [backend[c] EXCEPT !.at = at, !.new = new]
<1>0. /\ call \in [Calls -> ClientShape] /\ backend \in [Calls -> ServerShape]
      /\ call[c] \in ClientShape /\ backend[c] \in ServerShape /\ SidesAgree(c)
      /\ backend[c].at = "open" /\ Writing = {} /\ clock \in Int /\ PlanningTypeOK
  BY DEF PlanningInv, PlanningTypeOK, RunAllocate, Unlocked
<1>1. a \in Asks
  BY <1>0 DEF SidesAgree
<1>2. /\ a.booking \in Bookings /\ a.crew \in Crews /\ a.target \in Nat /\ a.target > 0
  BY <1>1, PlanningAssumption DEF Asks
<1>3. fresh \in GroupShape /\ NoGroup \in GroupShape /\ Current(a.booking) \in GroupShape
  <2>1. clock + GroupTTL \in Int
    BY <1>0, PlanningAssumption
  <2>2. fresh \in GroupShape
    BY <1>2, <2>1 DEF GroupShape
  <2> QED
    BY <1>0, <1>2, <2>2, CurrentIsLast DEF NoGroup, GroupShape
<1>4. new \in GroupShape /\ at \in {"wrote", "refused"}
  BY <1>3
<1>5. s \in ServerShape /\ s.at = at /\ s.ask = a /\ s.new = new
  <2> HIDE DEF at, new
  <2> QED
    BY <1>0, <1>4 DEF ServerShape
<1>6. /\ call' = call /\ call' = [call EXCEPT ![c] = call[c]]
      /\ backend' = [backend EXCEPT ![c] = s] /\ UNCHANGED <<clock, lag, group>>
  BY <1>0 DEF RunAllocate
<1>7. backend'[c] = s
  BY <1>0, <1>6
<1>8. SidesAgree(c)'
  <2> HIDE DEF s, at
  <2> QED
    BY <1>0, <1>4, <1>5, <1>6, <1>7 DEF SidesAgree
<1>9. s.at = "wrote" => IsWritten(c)'
  <2>1. CASE Retry(a)
    <3>1. a.target = Len(group[a.booking]) /\ Current(a.booking).crew = a.crew
      BY <2>1 DEF Retry
    <3>2. group[a.booking] # <<>>
      BY <1>2, <3>1
    <3>3. group[a.booking][a.target].crew = a.crew
      BY <1>0, <1>2, <3>1, <3>2, CurrentIsLast
    <3> QED
      BY <1>5, <1>6, <1>7, <3>1, <3>3 DEF IsWritten
  <2>2. CASE ~Retry(a) /\ Renewal(a)
    <3>1. /\ a.target = Len(group[a.booking]) + 1
          /\ Workers(a.crew) \cap TakenBut(a.booking) = {}
      BY <2>2 DEF Renewal
    <3>2. new.crew = a.crew /\ new.by = {c}
      BY <2>2
    <3>3. ASSUME NEW d \in Bookings \ {a.booking}, NEW g \in Held(d)'
          PROVE  Workers(new.crew) \cap Workers(g.crew) = {}
      <4>1. g \in Held(d)
        BY <1>6, <3>3 DEF Held
      <4>2. Workers(g.crew) \subseteq TakenBut(a.booking)
        BY <4>1 DEF TakenBut
      <4> QED
        BY <3>1, <3>2, <4>2
    <3> HIDE DEF new
    <3> QED
      BY <1>5, <1>6, <1>7, <3>1, <3>2, <3>3 DEF IsWritten
  <2> QED
    BY <1>5, <2>1, <2>2
<1> HIDE DEF s, at
<1> QED
  BY <1>0, <1>4, <1>5, <1>6, <1>8, <1>9, SideStep

\* What was stored stays: a commit adds a generation, and its lock made sure that
\* nobody else is about to.
LEMMA ServerCommitsKeeps ==
  ASSUME PlanningInv, NEW c \in Calls, ServerCommits(c) PROVE PlanningInv'
<1> DEFINE a == backend[c].ask
           new == backend[c].new
           s == [backend[c] EXCEPT !.at = "committed"]
<1>0. /\ call \in [Calls -> ClientShape] /\ backend \in [Calls -> ServerShape]
      /\ call[c] \in ClientShape /\ backend[c] \in ServerShape /\ PlanningTypeOK
      /\ SidesAgree(c) /\ IsWritten(c) /\ backend[c].at = "wrote" /\ CommitSent(c)
      /\ call' = call /\ clock' = clock /\ lag' = lag
  BY DEF PlanningInv, PlanningTypeOK, ServerCommits
<1>1. s \in ServerShape /\ s.at = "committed" /\ s.ask = a /\ s.new = new
  BY <1>0 DEF ServerShape
<1>2. /\ backend' = [backend EXCEPT ![c] = s] /\ backend'[c] = s
      /\ \A d \in Calls \ {c} : backend'[d] = backend[d]
  BY <1>0 DEF ServerCommits
<1> HIDE DEF s
<1>3. /\ a \in Asks /\ a.booking \in Bookings /\ a.target \in Nat /\ a.target > 0
      /\ new \in GroupShape
  <2>1. a \in Asks
    BY <1>0 DEF SidesAgree, CommitSent
  <2> QED
    BY <1>0, <2>1, PlanningAssumption DEF Asks, ServerShape
<1>4. \A d \in Calls : SidesAgree(d)'
  <2>1. SidesAgree(c)'
    BY <1>0, <1>1, <1>2 DEF SidesAgree, CommitSent
  <2>2. \A d \in Calls \ {c} : SidesAgree(d)'
    BY <1>0, <1>2 DEF PlanningInv, SidesAgree
  <2> QED
    BY <2>1, <2>2
<1>5. \A d \in Calls : backend'[d].at # "wrote"
  <2>1. ASSUME NEW d \in Calls \ {c} PROVE backend[d].at # "wrote"
    BY <1>0 DEF PlanningInv, OneWriter, Writing
  <2> QED
    BY <1>1, <1>2, <2>1
<1>6. OneWriter'
  <2>1. Writing' \subseteq Writing
    BY <1>1, <1>2 DEF Writing
  <2> QED
    BY <2>1 DEF PlanningInv, OneWriter
\* The booking's generations, and what is new of them.
<1>7. /\ group' \in [Bookings -> Seq(GroupShape)]
      /\ \A b \in Bookings :
           /\ Len(group'[b]) >= Len(group[b])
           /\ \A i \in 1 .. Len(group[b]) : group'[b][i] = group[b][i]
           /\ \A i \in 1 .. Len(group'[b]) :
                \/ i <= Len(group[b])
                \/ b = a.booking /\ i = a.target /\ group'[b][i] = new /\ a.target = Len(group[b]) + 1
      /\ Len(group'[a.booking]) >= a.target
  <2>0. \A b \in Bookings : group[b] \in Seq(GroupShape) /\ Len(group[b]) \in Nat
    BY <1>0 DEF PlanningTypeOK
  <2>1. CASE a.target > Len(group[a.booking])
    <3>1. a.target = Len(group[a.booking]) + 1
      BY <1>0, <1>3, <2>0, <2>1 DEF IsWritten
    <3>2. group' = [group EXCEPT ![a.booking] = Append(@, new)]
      BY <2>1 DEF ServerCommits
    <3>3. /\ group'[a.booking] = Append(group[a.booking], new)
          /\ \A b \in Bookings \ {a.booking} : group'[b] = group[b]
      BY <1>0, <1>3, <3>2 DEF PlanningTypeOK
    <3>4. /\ Append(group[a.booking], new) \in Seq(GroupShape)
          /\ Len(group'[a.booking]) = Len(group[a.booking]) + 1
          /\ \A i \in 1 .. Len(group[a.booking]) : group'[a.booking][i] = group[a.booking][i]
          /\ group'[a.booking][Len(group[a.booking]) + 1] = new
      BY <1>3, <2>0, <3>3
    <3>5. group' \in [Bookings -> Seq(GroupShape)]
      BY <1>0, <3>2, <3>4 DEF PlanningTypeOK
    <3>6. ASSUME NEW b \in Bookings
          PROVE  /\ Len(group'[b]) >= Len(group[b])
                 /\ \A i \in 1 .. Len(group[b]) : group'[b][i] = group[b][i]
                 /\ \A i \in 1 .. Len(group'[b]) :
                      \/ i <= Len(group[b])
                      \/ /\ b = a.booking /\ i = a.target /\ group'[b][i] = new
                         /\ a.target = Len(group[b]) + 1
      <4>1. CASE b = a.booking
        BY <1>3, <2>0, <3>1, <3>4, <4>1
      <4>2. CASE b # a.booking
        BY <2>0, <3>3, <4>2
      <4> QED
        BY <4>1, <4>2
    <3>7. Len(group'[a.booking]) >= a.target
      BY <1>3, <2>0, <3>1, <3>4
    <3> QED
      BY <3>5, <3>6, <3>7
  <2>2. CASE ~(a.target > Len(group[a.booking]))
    <3>1. group' = group
      BY <2>2 DEF ServerCommits
    <3> QED
      BY <1>0, <1>3, <2>0, <2>2, <3>1 DEF PlanningTypeOK
  <2> QED
    BY <2>1, <2>2
<1>8. PlanningTypeOK'
  <2>1. backend' \in [Calls -> ServerShape]
    BY <1>0, <1>1, <1>2
  <2> QED
    BY <1>0, <1>7, <2>1 DEF PlanningTypeOK

<1>9. \A d \in Calls : IsStored(d)'
  <2>0. \A b \in Bookings : Len(group[b]) \in Nat /\ Len(group'[b]) \in Nat
    <3>1. \A b \in Bookings : group[b] \in Seq(GroupShape) /\ group'[b] \in Seq(GroupShape)
      BY <1>0, <1>7 DEF PlanningTypeOK
    <3> QED
      BY <3>1
  <2>1. IsStored(c)'
    <3>1. a.target <= Len(group[a.booking]) => group[a.booking][a.target].crew = a.crew
      BY <1>0, <1>3, <2>0 DEF IsWritten
    <3>2. a.target = Len(group[a.booking]) + 1 => new.crew = a.crew
      BY <1>0, <1>3, <2>0 DEF IsWritten
    <3>3. a.target \in 1 .. Len(group'[a.booking])
      BY <1>3, <1>7, <2>0
    <3>4. a.target \in 1 .. Len(group[a.booking]) => group'[a.booking][a.target].crew = a.crew
      BY <1>3, <1>7, <2>0, <3>1
    <3>5. ~(a.target <= Len(group[a.booking])) => group'[a.booking][a.target].crew = a.crew
      BY <1>3, <1>7, <2>0, <3>2, <3>3
    <3>6. group'[a.booking][a.target].crew = a.crew
      BY <1>3, <2>0, <3>4, <3>5
    <3> QED
      BY <1>1, <1>2, <1>7, <3>6 DEF IsStored
  <2>2. ASSUME NEW d \in Calls \ {c}, backend[d].at = "committed"
        PROVE  IsStored(d)'
    <3>1. backend[d].ask \in Asks
      BY <2>2 DEF PlanningInv, SidesAgree
    <3>2. /\ backend[d].ask.booking \in Bookings /\ backend[d].ask.target \in Nat
          /\ backend[d].ask.target > 0
      BY <3>1, PlanningAssumption DEF Asks
    <3>3. /\ Len(group[backend[d].ask.booking]) >= backend[d].ask.target
          /\ group[backend[d].ask.booking][backend[d].ask.target].crew = backend[d].ask.crew
      BY <2>2 DEF PlanningInv, IsStored
    <3>4. backend[d].ask.target \in 1 .. Len(group[backend[d].ask.booking])
      BY <2>0, <3>2, <3>3
    <3>5. /\ Len(group'[backend[d].ask.booking]) >= backend[d].ask.target
          /\ group'[backend[d].ask.booking][backend[d].ask.target].crew = backend[d].ask.crew
      BY <1>7, <2>0, <3>2, <3>3, <3>4
    <3> QED
      BY <1>2, <3>5 DEF IsStored
  <2>3. ASSUME NEW d \in Calls \ {c}, backend[d].at # "committed"
        PROVE  IsStored(d)'
    BY <1>2, <2>3 DEF IsStored
  <2> QED
    BY <2>1, <2>2, <2>3
<1>10. \A b \in Bookings : ByCommitted(b)'
  <2> SUFFICES ASSUME NEW b \in Bookings, NEW i \in DOMAIN group'[b], NEW d \in group'[b][i].by
               PROVE  backend'[d].at = "committed"
    BY DEF ByCommitted
  <2>0. /\ group[b] \in Seq(GroupShape) /\ group'[b] \in Seq(GroupShape)
        /\ Len(group[b]) \in Nat /\ i \in 1 .. Len(group'[b])
    BY <1>0, <1>7 DEF PlanningTypeOK
  <2>1. CASE i <= Len(group[b])
    <3>1. i \in 1 .. Len(group[b]) /\ group'[b][i] = group[b][i] /\ group[b][i] \in GroupShape
      BY <1>7, <2>0, <2>1
    <3>2. d \in Calls /\ backend[d].at = "committed"
      BY <2>0, <3>1 DEF PlanningInv, ByCommitted, GroupShape
    <3> QED
      BY <1>1, <1>2, <3>2
  <2>2. CASE ~(i <= Len(group[b]))
    <3>1. group'[b][i] = new /\ b = a.booking /\ a.target = Len(group[b]) + 1
      BY <1>7, <2>0, <2>2
    <3>2. new.by = {c}
      BY <1>0, <1>3, <2>0, <3>1 DEF IsWritten
    <3> QED
      BY <1>1, <1>2, <3>1, <3>2
  <2> QED
    BY <2>1, <2>2
<1>11. \A b \in Bookings : \A g \in Held(b)' :
         g \in Held(b) \/ (b = a.booking /\ g = new /\ a.target = Len(group[b]) + 1)
  <2> SUFFICES ASSUME NEW b \in Bookings, NEW g \in Held(b)'
               PROVE  g \in Held(b) \/ (b = a.booking /\ g = new /\ a.target = Len(group[b]) + 1)
    OBVIOUS
  <2>0. /\ group[b] \in Seq(GroupShape) /\ group'[b] \in Seq(GroupShape)
        /\ Len(group[b]) \in Nat
    BY <1>0, <1>7 DEF PlanningTypeOK
  <2>1. /\ g.status = "held" /\ g.expires > clock
        /\ \E i \in DOMAIN group'[b] : g = group'[b][i]
    BY <1>0 DEF Held, Range
  <2>2. PICK i \in 1 .. Len(group'[b]) : g = group'[b][i]
    BY <2>0, <2>1
  <2>3. CASE i <= Len(group[b])
    <3>1. i \in DOMAIN group[b] /\ g = group[b][i]
      BY <1>7, <2>0, <2>2, <2>3
    <3> QED
      BY <2>1, <3>1 DEF Held, Range
  <2>4. CASE ~(i <= Len(group[b]))
    BY <1>7, <2>2, <2>4
  <2> QED
    BY <2>3, <2>4
<1>12. NoWorkerTwice'
  <2> SUFFICES ASSUME NEW b \in Bookings, NEW d \in Bookings, b # d,
                      NEW g \in Held(b)', NEW h \in Held(d)'
               PROVE  Workers(g.crew) \cap Workers(h.crew) = {}
    BY DEF NoWorkerTwice
  <2>0. Len(group[a.booking]) \in Nat
    <3>1. group[a.booking] \in Seq(GroupShape)
      BY <1>0, <1>3 DEF PlanningTypeOK
    <3> QED
      BY <3>1
  <2>1. ASSUME a.target = Len(group[a.booking]) + 1, NEW e \in Bookings \ {a.booking},
               NEW f \in Held(e)
        PROVE  Workers(new.crew) \cap Workers(f.crew) = {}
    BY <1>0, <2>0, <2>1 DEF IsWritten
  <2>2. CASE g \in Held(b) /\ h \in Held(d)
    BY <2>2 DEF PlanningInv, NoWorkerTwice
  <2>3. CASE g \in Held(b) /\ h \notin Held(d)
    BY <1>11, <2>1, <2>3
  <2>4. CASE g \notin Held(b)
    BY <1>11, <2>1, <2>4
  <2> QED
    BY <2>2, <2>3, <2>4
<1>13. \A d \in Calls : IsWritten(d)'
  BY <1>5 DEF IsWritten
<1> QED
  BY <1>4, <1>6, <1>8, <1>9, <1>10, <1>12, <1>13 DEF PlanningInv

\* A release ends what is held, and no transaction is between its look and its commit.
LEMMA ReleaseGroupKeeps ==
  ASSUME PlanningInv, NEW b \in Bookings, ReleaseGroup(b) PROVE PlanningInv'
<1> DEFINE n == Len(group[b])
           st == IF clock >= Current(b).expires THEN "expired" ELSE "released"
           h == [group[b][n] EXCEPT !.status = st]
<1>0. /\ PlanningTypeOK /\ Writing = {} /\ group[b] # <<>>
      /\ UNCHANGED <<clock, lag, call, backend>>
  BY DEF PlanningInv, ReleaseGroup, Unlocked
<1>1. /\ group[b] \in Seq(GroupShape) /\ n \in Nat /\ n > 0 /\ n \in 1 .. n
      /\ group[b][n] \in GroupShape
  <2>1. group[b] \in Seq(GroupShape) /\ n \in Nat /\ n > 0
    BY <1>0, CurrentIsLast
  <2> QED
    BY <2>1
<1>2. st \in {"expired", "released"}
  OBVIOUS
<1>3. h \in GroupShape /\ h.crew = group[b][n].crew /\ h.by = group[b][n].by /\ h.status # "held"
  <2> HIDE DEF st
  <2> QED
    BY <1>1, <1>2 DEF GroupShape
<1>4. /\ group'[b] = [group[b] EXCEPT ![n] = h]
      /\ \A d \in Bookings \ {b} : group'[d] = group[d]
      /\ group' = [group EXCEPT ![b] = [group[b] EXCEPT ![n] = h]]
  BY <1>0 DEF ReleaseGroup, PlanningTypeOK
<1> HIDE DEF h, st
<1>5. /\ group'[b] \in Seq(GroupShape) /\ Len(group'[b]) = n
      /\ \A i \in 1 .. n : group'[b][i] = IF i = n THEN h ELSE group[b][i]
  BY <1>1, <1>3, <1>4
<1>6. PlanningTypeOK'
  BY <1>0, <1>4, <1>5 DEF PlanningTypeOK
<1>7. \A c \in Calls : backend'[c].at # "wrote" /\ SidesAgree(c)' /\ IsWritten(c)'
  <2>1. \A c \in Calls : backend[c].at # "wrote" /\ SidesAgree(c)
    BY <1>0 DEF PlanningInv, Writing
  <2> QED
    BY <1>0, <2>1 DEF SidesAgree, IsWritten
<1>8. OneWriter'
  BY <1>0 DEF OneWriter, Writing
<1>9. ASSUME NEW c \in Calls PROVE IsStored(c)'
  <2> DEFINE a == backend[c].ask
  <2> SUFFICES ASSUME backend[c].at = "committed"
               PROVE  Len(group'[a.booking]) >= a.target /\ group'[a.booking][a.target].crew = a.crew
    BY <1>0 DEF IsStored
  <2>1. Len(group[a.booking]) >= a.target /\ group[a.booking][a.target].crew = a.crew
    BY DEF PlanningInv, IsStored
  <2>2. a.booking \in Bookings /\ a.target \in Nat /\ a.target > 0
    <3>1. a \in Asks
      BY DEF PlanningInv, SidesAgree
    <3> QED
      BY <3>1, PlanningAssumption DEF Asks
  <2>3. CASE a.booking = b
    <3>1. a.target \in 1 .. n
      BY <1>1, <2>1, <2>2, <2>3
    <3> QED
      BY <1>3, <1>5, <2>1, <2>3, <3>1
  <2>4. CASE a.booking # b
    BY <1>4, <2>1, <2>2, <2>4
  <2> QED
    BY <2>3, <2>4
<1>10. ASSUME NEW d \in Bookings PROVE ByCommitted(d)'
  <2>1. CASE d # b
    BY <1>0, <1>4, <2>1 DEF PlanningInv, ByCommitted
  <2>2. CASE d = b
    <3> SUFFICES ASSUME NEW i \in DOMAIN group'[b], NEW c \in group'[b][i].by
                 PROVE  backend'[c].at = "committed"
      BY <2>2 DEF ByCommitted
    <3>1. i \in 1 .. n /\ i \in DOMAIN group[b]
      BY <1>1, <1>5
    <3>2. group'[b][i].by = group[b][i].by
      BY <1>3, <1>5, <3>1
    <3> QED
      BY <1>0, <3>1, <3>2 DEF PlanningInv, ByCommitted
  <2> QED
    BY <2>1, <2>2
<1>11. ASSUME NEW d \in Bookings PROVE Held(d)' \subseteq Held(d)
  <2>1. CASE d # b
    BY <1>0, <1>4, <2>1 DEF Held
  <2>2. CASE d = b
    <3> SUFFICES ASSUME NEW g \in Held(b)' PROVE g \in Held(b)
      BY <2>2
    <3>1. g.status = "held" /\ g.expires > clock /\ \E i \in DOMAIN group'[b] : g = group'[b][i]
      BY <1>0 DEF Held, Range
    <3>2. PICK i \in 1 .. n : g = group'[b][i]
      BY <1>5, <3>1
    <3>3. i \in DOMAIN group[b] /\ g = group[b][i]
      BY <1>1, <1>3, <1>5, <3>1, <3>2
    <3> QED
      BY <3>1, <3>3 DEF Held, Range
  <2> QED
    BY <2>1, <2>2
<1>12. NoWorkerTwice'
  BY <1>11 DEF PlanningInv, NoWorkerTwice
<1> QED
  BY <1>6, <1>7, <1>8, <1>9, <1>10, <1>12 DEF PlanningInv

\* Time that passes, or a clock set back, leaves what calls were told.
LEMMA PlanningIdles ==
  ASSUME PlanningInv, Tick \/ SetBack \/ UNCHANGED planning PROVE PlanningInv'
<1>1. /\ UNCHANGED <<group, call, backend>> /\ clock' \in Int /\ clock' >= clock /\ lag' \in Int
      /\ call \in [Calls -> ClientShape] /\ backend \in [Calls -> ServerShape]
  BY DEF PlanningInv, PlanningTypeOK, Tick, SetBack, planning
<1>2. \A c \in Calls : SidesAgree(c)'
  BY <1>1 DEF PlanningInv, SidesAgree
<1>3. OneWriter'
  BY <1>1 DEF PlanningInv, OneWriter, Writing
<1> QED
  BY <1>1, <1>2, <1>3, SidesMove

\* Every step of planning keeps the invariant.
LEMMA PlanningKeeps == PlanningInv /\ [PlanningNext]_planning => PlanningInv'
<1> SUFFICES ASSUME PlanningInv, [PlanningNext]_planning PROVE PlanningInv'
  OBVIOUS
<1> QED
  BY AllocateKeeps, StopCallKeeps, AcquireKeeps, RunAllocateKeeps, AnsweredKeeps,
     ServerCommitsKeeps, ServerRollsBackKeeps, CommitAnsweredKeeps, ReleaseGroupKeeps,
     PlanningIdles
  DEF PlanningNext

\* What calls were told, and who holds a worker.
LEMMA ToldFollows == PlanningInv => AllocationHolds
<1> SUFFICES ASSUME PlanningInv PROVE AllocationHolds
  OBVIOUS
<1>1. ASSUME NEW c \in Calls, call[c].kind = "failed", NEW b \in Bookings, NEW g \in Range(group[b])
      PROVE  c \notin g.by
  <2>1. backend[c].at # "committed"
    BY <1>1 DEF PlanningInv, SidesAgree
  <2>2. PICK i \in DOMAIN group[b] : g = group[b][i]
    BY DEF Range
  <2> QED
    BY <2>1, <2>2 DEF PlanningInv, ByCommitted
<1>2. ASSUME NEW c \in Calls, call[c].kind \in {"receipt", "withheld"}
      PROVE  LET a == backend[c].ask
             IN  Len(group[a.booking]) >= a.target /\ group[a.booking][a.target].crew = a.crew
  BY <1>2 DEF PlanningInv, SidesAgree, IsStored
<1>3. ASSUME NEW c \in Calls
      PROVE  call[c].usable /\ call[c].lagAtEntry = 0 => call[c].toldAt < call[c].expires
  BY DEF PlanningInv, SidesAgree
<1> QED
  BY <1>1, <1>2, <1>3 DEF AllocationHolds, AllocationToldTrue, PlanningInv

\* What a caller of the allocator is told holds from then on, and no worker is held
\* for two bookings at once, for any number of calls, bookings and crews: however
\* the answers of the server and the ends of its clients follow one another.
THEOREM AllocationsHold == PlanningInit /\ [][PlanningNext]_planning => []AllocationHolds
<1>1. PlanningInit /\ [][PlanningNext]_planning => []PlanningInv
  BY PlanningStarts, PlanningKeeps, PTL
<1> QED
  BY <1>1, ToldFollows, PTL

---------------------------------------------------------------------------
(* GroupLocks.                                                             *)

TxShape == [kind : {"none"} \cup RowKinds \cup TableKinds,
            booking : LockedBookings \cup {NoTransaction.booking}, got : Nat]
Clash(want, have) == want[1] = have[1] /\ {want[2], have[2]} \in Excluding

LockTypeOK ==
  /\ tx \in [Transactions -> TxShape]
  /\ \A t \in Transactions : 1 .. tx[t].got \subseteq DOMAIN LockProgram(t)
\* No two transactions have locks that exclude each other.
NoClash ==
  \A s, t \in Transactions : s # t =>
    \A i \in 1 .. tx[s].got, j \in 1 .. tx[t].got : ~Clash(LockProgram(s)[i], LockProgram(t)[j])
LockInv == LockTypeOK /\ NoClash

\* Two sequences after each other, as one.
LEMMA Concatenated ==
  ASSUME NEW T, NEW s \in Seq(T), NEW t \in Seq(T), NEW u \in Seq(T), Len(u) = Len(s) + Len(t),
         \A i \in 1 .. Len(s) : u[i] = s[i], \A i \in 1 .. Len(t) : u[Len(s) + i] = t[i]
  PROVE  s \o t = u
<1>1. /\ s \o t \in Seq(T) /\ Len(s \o t) = Len(s) + Len(t)
      /\ \A i \in 1 .. Len(s) + Len(t) : (s \o t)[i] = IF i <= Len(s) THEN s[i] ELSE t[i - Len(s)]
  BY ConcatProperties
<1>2. ASSUME NEW i \in 1 .. Len(u) PROVE (s \o t)[i] = u[i]
  <2>1. CASE i <= Len(s)
    BY <1>1, <2>1
  <2>2. CASE ~(i <= Len(s))
    <3>1. i - Len(s) \in 1 .. Len(t) /\ Len(s) + (i - Len(s)) = i
      BY <2>2
    <3>2. u[i] = t[i - Len(s)]
      BY <3>1
    <3> QED
      BY <1>1, <2>2, <3>2
  <2> QED
    BY <2>1, <2>2
<1> QED
  BY <1>1, <1>2, SeqEqual

\* Two locks before three.
LEMMA TwoAndThree ==
  ASSUME NEW p, NEW q, NEW x, NEW y, NEW z
  PROVE  <<p, q>> \o <<x, y, z>> = <<p, q, x, y, z>>
<1> DEFINE T == {p, q, x, y, z}
           s == <<p, q>>
           t == <<x, y, z>>
           u == <<p, q, x, y, z>>
<1>1. s \in Seq(T) /\ t \in Seq(T) /\ u \in Seq(T)
  OBVIOUS
<1>2. /\ Len(u) = Len(s) + Len(t)
      /\ \A i \in 1 .. Len(s) : u[i] = s[i]
      /\ \A i \in 1 .. Len(t) : u[Len(s) + i] = t[i]
  OBVIOUS
<1> HIDE DEF T, s, t, u
<1>3. s \o t = u
  BY <1>1, <1>2, Concatenated
<1> QED
  BY <1>3 DEF s, t, u

\* Two before one.
LEMMA TwoAndOne ==
  ASSUME NEW p, NEW q, NEW x
  PROVE  <<p, q>> \o <<x>> = <<p, q, x>>
<1> DEFINE T == {p, q, x}
           s == <<p, q>>
           t == <<x>>
           u == <<p, q, x>>
<1>1. s \in Seq(T) /\ t \in Seq(T) /\ u \in Seq(T)
  OBVIOUS
<1>2. /\ Len(u) = Len(s) + Len(t)
      /\ \A i \in 1 .. Len(s) : u[i] = s[i]
      /\ \A i \in 1 .. Len(t) : u[Len(s) + i] = t[i]
  OBVIOUS
<1> HIDE DEF T, s, t, u
<1>3. s \o t = u
  BY <1>1, <1>2, Concatenated
<1> QED
  BY <1>3 DEF s, t, u

\* One before two.
LEMMA OneAndTwo ==
  ASSUME NEW x, NEW p, NEW q
  PROVE  <<x>> \o <<p, q>> = <<x, p, q>>
<1> DEFINE T == {x, p, q}
           s == <<x>>
           t == <<p, q>>
           u == <<x, p, q>>
<1>1. s \in Seq(T) /\ t \in Seq(T) /\ u \in Seq(T)
  OBVIOUS
<1>2. /\ Len(u) = Len(s) + Len(t)
      /\ \A i \in 1 .. Len(s) : u[i] = s[i]
      /\ \A i \in 1 .. Len(t) : u[Len(s) + i] = t[i]
  OBVIOUS
<1> HIDE DEF T, s, t, u
<1>3. s \o t = u
  BY <1>1, <1>2, Concatenated
<1> QED
  BY <1>3 DEF s, t, u

\* Two before two.
LEMMA TwoAndTwo ==
  ASSUME NEW x, NEW y, NEW p, NEW q
  PROVE  <<x, y>> \o <<p, q>> = <<x, y, p, q>>
<1> DEFINE T == {x, y, p, q}
           s == <<x, y>>
           t == <<p, q>>
           u == <<x, y, p, q>>
<1>1. s \in Seq(T) /\ t \in Seq(T) /\ u \in Seq(T)
  OBVIOUS
<1>2. /\ Len(u) = Len(s) + Len(t)
      /\ \A i \in 1 .. Len(s) : u[i] = s[i]
      /\ \A i \in 1 .. Len(t) : u[Len(s) + i] = t[i]
  OBVIOUS
<1> HIDE DEF T, s, t, u
<1>3. s \o t = u
  BY <1>1, <1>2, Concatenated
<1> QED
  BY <1>3 DEF s, t, u

\* Three before one.
LEMMA ThreeAndOne ==
  ASSUME NEW x, NEW y, NEW z, NEW p
  PROVE  <<x, y, z>> \o <<p>> = <<x, y, z, p>>
<1> DEFINE T == {x, y, z, p}
           s == <<x, y, z>>
           t == <<p>>
           u == <<x, y, z, p>>
<1>1. s \in Seq(T) /\ t \in Seq(T) /\ u \in Seq(T)
  OBVIOUS
<1>2. /\ Len(u) = Len(s) + Len(t)
      /\ \A i \in 1 .. Len(s) : u[i] = s[i]
      /\ \A i \in 1 .. Len(t) : u[Len(s) + i] = t[i]
  OBVIOUS
<1> HIDE DEF T, s, t, u
<1>3. s \o t = u
  BY <1>1, <1>2, Concatenated
<1> QED
  BY <1>3 DEF s, t, u

\* The programs, written out.
LEMMA Programs ==
  ASSUME NEW b
  PROVE  /\ ReleaseLocks(b) =
              <<Table("policies", "share"), Table("heads", "share_row_exclusive"),
                Table("holds", "row_exclusive"), BookingRow(b, "for_share"), ServiceCapacity>>
         /\ ReserveLocks(b) =
              <<Table("policies", "share"), Table("heads", "share"), BookingRow(b, "for_share"),
                ServiceCapacity, Table("holds", "row_exclusive")>>
         /\ HoldLocks = <<Table("policies", "share"), Table("heads", "share"),
                          Table("holds", "row_exclusive")>>
         /\ PaymentLocks = <<Table("policies", "share"), Table("heads", "share")>>
         /\ CreateLocks = <<Table("bookings", "row_exclusive"), Table("policies", "share"),
                            Table("heads", "share")>>
         /\ LinkLocks(b) = <<Table("bookings", "row_exclusive"), Table("policies", "share"),
                             Table("heads", "share"), BookingRow(b, "update")>>
         /\ MoveLocks(b) = <<Table("bookings", "row_exclusive"), BookingRow(b, "update"),
                             Table("policies", "share"), Table("heads", "share")>>
<1> DEFINE p == Table("policies", "share")
           hs == Table("heads", "share_row_exclusive")
           h == Table("heads", "share")
           hr == Table("holds", "row_exclusive")
           br == Table("bookings", "row_exclusive")
           rs == BookingRow(b, "for_share")
           ru == BookingRow(b, "update")
           sc == ServiceCapacity
<1>1. GroupPrefix(TRUE) = <<p, hs>> /\ GroupPrefix(FALSE) = <<p, h>>
  BY DEF GroupPrefix
<1> HIDE DEF p, hs, h
<1>2. /\ ReleaseLocks(b) = <<p, hs>> \o <<hr, rs, sc>>
      /\ ReserveLocks(b) = <<p, h>> \o <<rs, sc, hr>>
      /\ HoldLocks = <<p, h>> \o <<hr>>
      /\ PaymentLocks = <<p, h>>
      /\ CreateLocks = <<br>> \o <<p, h>>
      /\ LinkLocks(b) = (<<br>> \o <<p, h>>) \o <<ru>>
      /\ MoveLocks(b) = <<br, ru>> \o <<p, h>>
  BY <1>1 DEF ReleaseLocks, ReserveLocks, HoldLocks, PaymentLocks, CreateLocks, LinkLocks, MoveLocks
<1> HIDE DEF hr, br, rs, ru, sc
<1>3. /\ <<p, hs>> \o <<hr, rs, sc>> = <<p, hs, hr, rs, sc>>
      /\ <<p, h>> \o <<rs, sc, hr>> = <<p, h, rs, sc, hr>>
  BY TwoAndThree
<1>4. <<p, h>> \o <<hr>> = <<p, h, hr>>
  BY TwoAndOne
<1>5. <<br>> \o <<p, h>> = <<br, p, h>>
  BY OneAndTwo
<1>6. <<br, ru>> \o <<p, h>> = <<br, ru, p, h>>
  BY TwoAndTwo
<1>7. <<br, p, h>> \o <<ru>> = <<br, p, h, ru>>
  BY ThreeAndOne
<1>8. /\ ReleaseLocks(b) = <<p, hs, hr, rs, sc>>
      /\ ReserveLocks(b) = <<p, h, rs, sc, hr>>
      /\ HoldLocks = <<p, h, hr>>
      /\ PaymentLocks = <<p, h>>
      /\ CreateLocks = <<br, p, h>>
      /\ LinkLocks(b) = <<br, p, h, ru>>
      /\ MoveLocks(b) = <<br, ru, p, h>>
  BY <1>2, <1>3, <1>4, <1>5, <1>6, <1>7, Zenon
<1> QED
  BY <1>8, Zenon DEF p, h, hs, hr, br, rs, ru, sc

\* Which transactions take a lock on an object, when in their program, and how.
Place(lock) == lock[1][1]
Mode(lock) == lock[2]
Named(lock, b) == lock[1] = IF Place(lock) = "row" THEN <<"row", b>> ELSE <<Place(lock)>>
TakenAs(kind, i, lock) ==
  \/ /\ Place(lock) = "policies"
     /\ \/ kind = "policy" /\ i = 1 /\ Mode(lock) = "share_row_exclusive"
        \/ /\ Mode(lock) = "share"
           /\ \/ kind \in {"allocate", "release", "reserve", "hold", "payment"} /\ i = 1
              \/ kind \in {"create", "link"} /\ i = 2
              \/ kind = "move" /\ i = 3
  \/ /\ Place(lock) = "bookings"
     /\ \/ kind \in {"allocate", "policy"} /\ i = 2 /\ Mode(lock) = "share"
        \/ kind \in {"create", "link", "move"} /\ i = 1 /\ Mode(lock) = "row_exclusive"
  \/ /\ Place(lock) = "heads"
     /\ \/ kind = "allocate" /\ i = 3 /\ Mode(lock) = "share_row_exclusive"
        \/ kind = "release" /\ i = 2 /\ Mode(lock) = "share_row_exclusive"
        \/ /\ Mode(lock) = "share"
           /\ \/ kind \in {"reserve", "hold", "payment"} /\ i = 2
              \/ kind \in {"create", "link"} /\ i = 3
              \/ kind = "move" /\ i = 4
  \/ /\ Place(lock) = "holds"
     /\ \/ kind = "policy" /\ i = 3 /\ Mode(lock) = "share"
        \/ /\ Mode(lock) = "row_exclusive"
           /\ \/ kind = "allocate" /\ i = 4
              \/ kind \in {"release", "hold"} /\ i = 3
              \/ kind = "reserve" /\ i = 5
  \/ /\ Place(lock) = "row"
     /\ \/ /\ Mode(lock) = "for_share"
           /\ \/ kind = "allocate" /\ i = 5
              \/ kind = "release" /\ i = 4
              \/ kind = "reserve" /\ i = 3
        \/ /\ Mode(lock) = "update"
           /\ \/ kind = "link" /\ i = 4
              \/ kind = "move" /\ i = 2
  \/ /\ Place(lock) = "service" /\ Mode(lock) = "advisory"
     /\ \/ kind = "allocate" /\ i = 6
        \/ kind = "release" /\ i = 5
        \/ kind = "reserve" /\ i = 4

\* Each lock a program takes has its mode, its place and its booking.
LEMMA LocksTaken ==
  ASSUME NEW kind \in {"none"} \cup RowKinds \cup TableKinds, NEW b,
         NEW i \in DOMAIN Locks(kind, b)
  PROVE  TakenAs(kind, i, Locks(kind, b)[i]) /\ Named(Locks(kind, b)[i], b)
<1>1. CASE kind = "none"
  <2>1. Locks(kind, b) = <<>>
    BY <1>1, Zenon DEF Locks
  <2>2. DOMAIN <<>> = {}
    OBVIOUS
  <2> QED
    BY <2>1, <2>2
<1>2. CASE kind = "allocate"
  <2> DEFINE q == <<Table("policies", "share"), Table("bookings", "share"),
                  Table("heads", "share_row_exclusive"), Table("holds", "row_exclusive"),
                  BookingRow(b, "for_share"), ServiceCapacity>>
  <2>1. Locks(kind, b) = AllocateLocks(b)
    BY <1>2, Zenon DEF Locks
  <2>2. Locks(kind, b) = q
    BY <2>1, Zenon DEF AllocateLocks
  <2>3. /\ DOMAIN q = 1 .. 6
        /\ Named(q[1], b) /\ Place(q[1]) = "policies" /\ Mode(q[1]) = "share"
        /\ Named(q[2], b) /\ Place(q[2]) = "bookings" /\ Mode(q[2]) = "share"
        /\ Named(q[3], b) /\ Place(q[3]) = "heads" /\ Mode(q[3]) = "share_row_exclusive"
        /\ Named(q[4], b) /\ Place(q[4]) = "holds" /\ Mode(q[4]) = "row_exclusive"
        /\ Named(q[5], b) /\ Place(q[5]) = "row" /\ Mode(q[5]) = "for_share"
        /\ Named(q[6], b) /\ Place(q[6]) = "service" /\ Mode(q[6]) = "advisory"
    BY DEF Named, Place, Mode, Table, BookingRow, ServiceCapacity
  <2> HIDE DEF q
  <2>4. i \in 1 .. 6 /\ Locks(kind, b)[i] = q[i]
    BY <2>2, <2>3, Zenon
  <2>5. i \in {1, 2, 3, 4, 5, 6}
    BY <2>4
  <2>6. TakenAs(kind, i, q[i]) /\ Named(q[i], b)
    BY <1>2, <2>3, <2>5 DEF TakenAs
  <2> QED
    BY <2>4, <2>6, Zenon
<1>3. CASE kind = "release"
  <2> DEFINE q == <<Table("policies", "share"), Table("heads", "share_row_exclusive"),
                  Table("holds", "row_exclusive"), BookingRow(b, "for_share"),
                  ServiceCapacity>>
  <2>1. Locks(kind, b) = ReleaseLocks(b)
    BY <1>3, Zenon DEF Locks
  <2>2. Locks(kind, b) = q
    BY <2>1, Programs
  <2>3. /\ DOMAIN q = 1 .. 5
        /\ Named(q[1], b) /\ Place(q[1]) = "policies" /\ Mode(q[1]) = "share"
        /\ Named(q[2], b) /\ Place(q[2]) = "heads" /\ Mode(q[2]) = "share_row_exclusive"
        /\ Named(q[3], b) /\ Place(q[3]) = "holds" /\ Mode(q[3]) = "row_exclusive"
        /\ Named(q[4], b) /\ Place(q[4]) = "row" /\ Mode(q[4]) = "for_share"
        /\ Named(q[5], b) /\ Place(q[5]) = "service" /\ Mode(q[5]) = "advisory"
    BY DEF Named, Place, Mode, Table, BookingRow, ServiceCapacity
  <2> HIDE DEF q
  <2>4. i \in 1 .. 5 /\ Locks(kind, b)[i] = q[i]
    BY <2>2, <2>3, Zenon
  <2>5. i \in {1, 2, 3, 4, 5}
    BY <2>4
  <2>6. TakenAs(kind, i, q[i]) /\ Named(q[i], b)
    BY <1>3, <2>3, <2>5 DEF TakenAs
  <2> QED
    BY <2>4, <2>6, Zenon
<1>4. CASE kind = "policy"
  <2> DEFINE q == <<Table("policies", "share_row_exclusive"), Table("bookings", "share"),
                  Table("holds", "share")>>
  <2>1. Locks(kind, b) = PolicyLocks
    BY <1>4, Zenon DEF Locks
  <2>2. Locks(kind, b) = q
    BY <2>1, Zenon DEF PolicyLocks
  <2>3. /\ DOMAIN q = 1 .. 3
        /\ Named(q[1], b) /\ Place(q[1]) = "policies" /\ Mode(q[1]) = "share_row_exclusive"
        /\ Named(q[2], b) /\ Place(q[2]) = "bookings" /\ Mode(q[2]) = "share"
        /\ Named(q[3], b) /\ Place(q[3]) = "holds" /\ Mode(q[3]) = "share"
    BY DEF Named, Place, Mode, Table, BookingRow, ServiceCapacity
  <2> HIDE DEF q
  <2>4. i \in 1 .. 3 /\ Locks(kind, b)[i] = q[i]
    BY <2>2, <2>3, Zenon
  <2>5. i \in {1, 2, 3}
    BY <2>4
  <2>6. TakenAs(kind, i, q[i]) /\ Named(q[i], b)
    BY <1>4, <2>3, <2>5 DEF TakenAs
  <2> QED
    BY <2>4, <2>6, Zenon
<1>5. CASE kind = "reserve"
  <2> DEFINE q == <<Table("policies", "share"), Table("heads", "share"),
                  BookingRow(b, "for_share"), ServiceCapacity,
                  Table("holds", "row_exclusive")>>
  <2>1. Locks(kind, b) = ReserveLocks(b)
    BY <1>5, Zenon DEF Locks
  <2>2. Locks(kind, b) = q
    BY <2>1, Programs
  <2>3. /\ DOMAIN q = 1 .. 5
        /\ Named(q[1], b) /\ Place(q[1]) = "policies" /\ Mode(q[1]) = "share"
        /\ Named(q[2], b) /\ Place(q[2]) = "heads" /\ Mode(q[2]) = "share"
        /\ Named(q[3], b) /\ Place(q[3]) = "row" /\ Mode(q[3]) = "for_share"
        /\ Named(q[4], b) /\ Place(q[4]) = "service" /\ Mode(q[4]) = "advisory"
        /\ Named(q[5], b) /\ Place(q[5]) = "holds" /\ Mode(q[5]) = "row_exclusive"
    BY DEF Named, Place, Mode, Table, BookingRow, ServiceCapacity
  <2> HIDE DEF q
  <2>4. i \in 1 .. 5 /\ Locks(kind, b)[i] = q[i]
    BY <2>2, <2>3, Zenon
  <2>5. i \in {1, 2, 3, 4, 5}
    BY <2>4
  <2>6. TakenAs(kind, i, q[i]) /\ Named(q[i], b)
    BY <1>5, <2>3, <2>5 DEF TakenAs
  <2> QED
    BY <2>4, <2>6, Zenon
<1>6. CASE kind = "hold"
  <2> DEFINE q == <<Table("policies", "share"), Table("heads", "share"),
                  Table("holds", "row_exclusive")>>
  <2>1. Locks(kind, b) = HoldLocks
    BY <1>6, Zenon DEF Locks
  <2>2. Locks(kind, b) = q
    BY <2>1, Programs
  <2>3. /\ DOMAIN q = 1 .. 3
        /\ Named(q[1], b) /\ Place(q[1]) = "policies" /\ Mode(q[1]) = "share"
        /\ Named(q[2], b) /\ Place(q[2]) = "heads" /\ Mode(q[2]) = "share"
        /\ Named(q[3], b) /\ Place(q[3]) = "holds" /\ Mode(q[3]) = "row_exclusive"
    BY DEF Named, Place, Mode, Table, BookingRow, ServiceCapacity
  <2> HIDE DEF q
  <2>4. i \in 1 .. 3 /\ Locks(kind, b)[i] = q[i]
    BY <2>2, <2>3, Zenon
  <2>5. i \in {1, 2, 3}
    BY <2>4
  <2>6. TakenAs(kind, i, q[i]) /\ Named(q[i], b)
    BY <1>6, <2>3, <2>5 DEF TakenAs
  <2> QED
    BY <2>4, <2>6, Zenon
<1>7. CASE kind = "payment"
  <2> DEFINE q == <<Table("policies", "share"), Table("heads", "share")>>
  <2>1. Locks(kind, b) = PaymentLocks
    BY <1>7, Zenon DEF Locks
  <2>2. Locks(kind, b) = q
    BY <2>1, Programs
  <2>3. /\ DOMAIN q = 1 .. 2
        /\ Named(q[1], b) /\ Place(q[1]) = "policies" /\ Mode(q[1]) = "share"
        /\ Named(q[2], b) /\ Place(q[2]) = "heads" /\ Mode(q[2]) = "share"
    BY DEF Named, Place, Mode, Table, BookingRow, ServiceCapacity
  <2> HIDE DEF q
  <2>4. i \in 1 .. 2 /\ Locks(kind, b)[i] = q[i]
    BY <2>2, <2>3, Zenon
  <2>5. i \in {1, 2}
    BY <2>4
  <2>6. TakenAs(kind, i, q[i]) /\ Named(q[i], b)
    BY <1>7, <2>3, <2>5 DEF TakenAs
  <2> QED
    BY <2>4, <2>6, Zenon
<1>8. CASE kind = "create"
  <2> DEFINE q == <<Table("bookings", "row_exclusive"), Table("policies", "share"),
                  Table("heads", "share")>>
  <2>1. Locks(kind, b) = CreateLocks
    BY <1>8, Zenon DEF Locks
  <2>2. Locks(kind, b) = q
    BY <2>1, Programs
  <2>3. /\ DOMAIN q = 1 .. 3
        /\ Named(q[1], b) /\ Place(q[1]) = "bookings" /\ Mode(q[1]) = "row_exclusive"
        /\ Named(q[2], b) /\ Place(q[2]) = "policies" /\ Mode(q[2]) = "share"
        /\ Named(q[3], b) /\ Place(q[3]) = "heads" /\ Mode(q[3]) = "share"
    BY DEF Named, Place, Mode, Table, BookingRow, ServiceCapacity
  <2> HIDE DEF q
  <2>4. i \in 1 .. 3 /\ Locks(kind, b)[i] = q[i]
    BY <2>2, <2>3, Zenon
  <2>5. i \in {1, 2, 3}
    BY <2>4
  <2>6. TakenAs(kind, i, q[i]) /\ Named(q[i], b)
    BY <1>8, <2>3, <2>5 DEF TakenAs
  <2> QED
    BY <2>4, <2>6, Zenon
<1>9. CASE kind = "link"
  <2> DEFINE q == <<Table("bookings", "row_exclusive"), Table("policies", "share"),
                  Table("heads", "share"), BookingRow(b, "update")>>
  <2>1. Locks(kind, b) = LinkLocks(b)
    BY <1>9, Zenon DEF Locks
  <2>2. Locks(kind, b) = q
    BY <2>1, Programs
  <2>3. /\ DOMAIN q = 1 .. 4
        /\ Named(q[1], b) /\ Place(q[1]) = "bookings" /\ Mode(q[1]) = "row_exclusive"
        /\ Named(q[2], b) /\ Place(q[2]) = "policies" /\ Mode(q[2]) = "share"
        /\ Named(q[3], b) /\ Place(q[3]) = "heads" /\ Mode(q[3]) = "share"
        /\ Named(q[4], b) /\ Place(q[4]) = "row" /\ Mode(q[4]) = "update"
    BY DEF Named, Place, Mode, Table, BookingRow, ServiceCapacity
  <2> HIDE DEF q
  <2>4. i \in 1 .. 4 /\ Locks(kind, b)[i] = q[i]
    BY <2>2, <2>3, Zenon
  <2>5. i \in {1, 2, 3, 4}
    BY <2>4
  <2>6. TakenAs(kind, i, q[i]) /\ Named(q[i], b)
    BY <1>9, <2>3, <2>5 DEF TakenAs
  <2> QED
    BY <2>4, <2>6, Zenon
<1>10. CASE kind = "move"
  <2> DEFINE q == <<Table("bookings", "row_exclusive"), BookingRow(b, "update"),
                  Table("policies", "share"), Table("heads", "share")>>
  <2>1. Locks(kind, b) = MoveLocks(b)
    BY <1>10, Zenon DEF Locks
  <2>2. Locks(kind, b) = q
    BY <2>1, Programs
  <2>3. /\ DOMAIN q = 1 .. 4
        /\ Named(q[1], b) /\ Place(q[1]) = "bookings" /\ Mode(q[1]) = "row_exclusive"
        /\ Named(q[2], b) /\ Place(q[2]) = "row" /\ Mode(q[2]) = "update"
        /\ Named(q[3], b) /\ Place(q[3]) = "policies" /\ Mode(q[3]) = "share"
        /\ Named(q[4], b) /\ Place(q[4]) = "heads" /\ Mode(q[4]) = "share"
    BY DEF Named, Place, Mode, Table, BookingRow, ServiceCapacity
  <2> HIDE DEF q
  <2>4. i \in 1 .. 4 /\ Locks(kind, b)[i] = q[i]
    BY <2>2, <2>3, Zenon
  <2>5. i \in {1, 2, 3, 4}
    BY <2>4
  <2>6. TakenAs(kind, i, q[i]) /\ Named(q[i], b)
    BY <1>10, <2>3, <2>5 DEF TakenAs
  <2> QED
    BY <2>4, <2>6, Zenon
<1> QED
  BY <1>1, <1>2, <1>3, <1>4, <1>5, <1>6, <1>7, <1>8, <1>9, <1>10 DEF RowKinds, TableKinds

\* The pairs of table locks that exclude each other.
LEMMA Excluded ==
  ASSUME NEW x, NEW y, {x, y} \in Excluding
  PROVE  \/ x = "share" /\ y \in {"row_exclusive", "share_row_exclusive"}
         \/ x \in {"row_exclusive", "share_row_exclusive"} /\ y = "share"
         \/ x = "share_row_exclusive" /\ y \in {"share_row_exclusive", "row_exclusive"}
         \/ x = "row_exclusive" /\ y = "share_row_exclusive"
         \/ x = "for_share" /\ y = "update"
         \/ x = "update" /\ y \in {"update", "for_share"}
         \/ x = "advisory" /\ y = "advisory"
<1>1. ASSUME NEW u, NEW v, {x, y} = {u, v} PROVE (x = u /\ y = v) \/ (x = v /\ y = u)
  BY <1>1
<1>2. ASSUME NEW u, {x, y} = {u} PROVE x = u /\ y = u
  BY <1>2
<1>3. \/ {x, y} = {"share", "row_exclusive"} \/ {x, y} = {"share", "share_row_exclusive"}
      \/ {x, y} = {"share_row_exclusive"} \/ {x, y} = {"row_exclusive", "share_row_exclusive"}
      \/ {x, y} = {"for_share", "update"} \/ {x, y} = {"update"} \/ {x, y} = {"advisory"}
  BY DEF Excluding
<1>4. /\ {x, y} = {"share", "row_exclusive"} =>
           (x = "share" /\ y = "row_exclusive") \/ (x = "row_exclusive" /\ y = "share")
      /\ {x, y} = {"share", "share_row_exclusive"} =>
           (x = "share" /\ y = "share_row_exclusive") \/ (x = "share_row_exclusive" /\ y = "share")
      /\ {x, y} = {"row_exclusive", "share_row_exclusive"} =>
           \/ x = "row_exclusive" /\ y = "share_row_exclusive"
           \/ x = "share_row_exclusive" /\ y = "row_exclusive"
      /\ {x, y} = {"for_share", "update"} =>
           (x = "for_share" /\ y = "update") \/ (x = "update" /\ y = "for_share")
  BY <1>1
<1>5. /\ {x, y} = {"share_row_exclusive"} => x = "share_row_exclusive" /\ y = "share_row_exclusive"
      /\ {x, y} = {"update"} => x = "update" /\ y = "update"
      /\ {x, y} = {"advisory"} => x = "advisory" /\ y = "advisory"
  BY <1>2
<1> QED
  BY <1>3, <1>4, <1>5

\* No lock is held at the start.
LEMMA LockStarts == LockInit => LockInv
<1> SUFFICES ASSUME LockInit PROVE LockInv
  OBVIOUS
<1>1. \A t \in Transactions : tx[t] = NoTransaction /\ tx[t].got = 0
  BY DEF LockInit, NoTransaction
<1>2. NoTransaction \in TxShape
  BY DEF NoTransaction, TxShape
<1>3. LockTypeOK
  BY <1>1, <1>2 DEF LockInit, LockTypeOK
<1> QED
  BY <1>1, <1>3 DEF LockInv, NoClash

\* A transaction that begins or ends has no locks.
LEMMA EmptyTxKeeps ==
  ASSUME LockInv, NEW t \in Transactions, NEW x \in TxShape, x.got = 0,
         tx' = [tx EXCEPT ![t] = x]
  PROVE  LockInv'
<1>0. tx \in [Transactions -> TxShape]
  BY DEF LockInv, LockTypeOK
<1>1. tx'[t] = x /\ \A s \in Transactions \ {t} : tx'[s] = tx[s]
  BY <1>0
<1>2. \A s \in Transactions \ {t} : LockProgram(s)' = LockProgram(s)
  BY <1>1 DEF LockProgram
<1>3. LockTypeOK'
  <2>1. \A s \in Transactions : 1 .. tx'[s].got \subseteq DOMAIN LockProgram(s)'
    BY <1>1, <1>2 DEF LockInv, LockTypeOK
  <2> QED
    BY <1>0, <2>1 DEF LockTypeOK
<1>4. NoClash'
  <2> SUFFICES ASSUME NEW s \in Transactions, NEW u \in Transactions, s # u,
                      NEW i \in 1 .. tx'[s].got, NEW j \in 1 .. tx'[u].got
               PROVE  ~Clash(LockProgram(s)'[i], LockProgram(u)'[j])
    BY DEF NoClash
  <2>1. s # t /\ u # t
    BY <1>1
  <2>2. i \in 1 .. tx[s].got /\ j \in 1 .. tx[u].got
    BY <1>1, <2>1
  <2>3. ~Clash(LockProgram(s)[i], LockProgram(u)[j])
    BY <2>2 DEF LockInv, NoClash
  <2> QED
    BY <1>2, <2>1, <2>3
<1> QED
  BY <1>3, <1>4 DEF LockInv

\* Exclusion is symmetric.
LEMMA ClashBothWays == ASSUME NEW x, NEW y, Clash(x, y) PROVE Clash(y, x)
<1>1. {x[2], y[2]} = {y[2], x[2]}
  OBVIOUS
<1> QED
  BY <1>1 DEF Clash

\* What a transaction takes, it does not wait for.
LEMMA TakeLockKeeps ==
  ASSUME LockInv, NEW t \in Transactions, TakeLock(t) PROVE LockInv'
<1> DEFINE n == tx[t].got + 1
           x == [tx[t] EXCEPT !.got = n]
<1>0. tx \in [Transactions -> TxShape] /\ tx[t] \in TxShape /\ tx[t].got \in Nat
  BY DEF LockInv, LockTypeOK, TxShape
<1>1. x \in TxShape /\ x.got = n /\ x.kind = tx[t].kind /\ x.booking = tx[t].booking
  BY <1>0 DEF TxShape
<1>2. tx' = [tx EXCEPT ![t] = x]
  BY <1>0 DEF TakeLock
<1> HIDE DEF x
<1>3. tx'[t] = x /\ \A s \in Transactions \ {t} : tx'[s] = tx[s]
  BY <1>0, <1>2
<1>4. \A s \in Transactions : LockProgram(s)' = LockProgram(s)
  BY <1>1, <1>3 DEF LockProgram
<1>5. n \in DOMAIN LockProgram(t) /\ LockProgram(t)[n] \in LockWanted(t)
  BY DEF TakeLock, LockWanted
<1>6. LockTypeOK'
  <2>1. \A s \in Transactions \ {t} : 1 .. tx'[s].got \subseteq DOMAIN LockProgram(s)'
    BY <1>3, <1>4 DEF LockInv, LockTypeOK
  <2>2. 1 .. tx'[t].got \subseteq DOMAIN LockProgram(t)'
    <3>1. 1 .. n = (1 .. tx[t].got) \cup {n}
      BY <1>0
    <3> QED
      BY <1>1, <1>3, <1>4, <1>5, <3>1 DEF LockInv, LockTypeOK
  <2>3. tx' \in [Transactions -> TxShape]
    BY <1>0, <1>1, <1>2
  <2> QED
    BY <2>1, <2>2, <2>3 DEF LockTypeOK
<1>7. ASSUME NEW s \in Transactions \ {t}, NEW j \in 1 .. tx[s].got
      PROVE  ~Clash(LockProgram(t)[n], LockProgram(s)[j])
  <2>1. LockProgram(s)[j] \in LocksOf(s)
    BY DEF LocksOf
  <2> QED
    BY <1>5, <1>7, <2>1 DEF TakeLock, WaitsForLock, WaitsFor, Clash
<1>8. NoClash'
  <2> SUFFICES ASSUME NEW s \in Transactions, NEW u \in Transactions, s # u,
                      NEW i \in 1 .. tx'[s].got, NEW j \in 1 .. tx'[u].got
               PROVE  ~Clash(LockProgram(s)[i], LockProgram(u)[j])
    BY <1>4 DEF NoClash
  <2>1. CASE i \in 1 .. tx[s].got /\ j \in 1 .. tx[u].got
    BY <2>1 DEF LockInv, NoClash
  <2>2. CASE i \notin 1 .. tx[s].got
    <3>1. s = t /\ i = n
      BY <1>0, <1>1, <1>3, <2>2
    <3>2. u \in Transactions \ {t} /\ j \in 1 .. tx[u].got
      BY <1>3, <3>1
    <3> QED
      BY <1>7, <3>1, <3>2
  <2>3. CASE j \notin 1 .. tx[u].got
    <3>1. u = t /\ j = n
      BY <1>0, <1>1, <1>3, <2>3
    <3>2. s \in Transactions \ {t} /\ i \in 1 .. tx[s].got
      BY <1>3, <3>1
    <3> QED
      BY <1>7, <3>1, <3>2, ClashBothWays
  <2> QED
    BY <2>1, <2>2, <2>3
<1> QED
  BY <1>6, <1>8 DEF LockInv

\* A lock is only granted past the locks it would clash with.
LEMMA LockKeeps == LockInv /\ [LockNext]_locking => LockInv'
<1> SUFFICES ASSUME LockInv, [LockNext]_locking PROVE LockInv'
  OBVIOUS
<1>1. ASSUME NEW t \in Transactions, NEW kind \in RowKinds \cup TableKinds,
             NEW b \in LockedBookings \cup {NoTransaction.booking}, BeginTx(t, kind, b)
      PROVE  LockInv'
  <2> DEFINE x == [kind |-> kind, booking |-> b, got |-> 0]
  <2>1. x \in TxShape /\ x.got = 0
    BY DEF TxShape
  <2> QED
    BY <1>1, <2>1, EmptyTxKeeps DEF BeginTx
<1>2. ASSUME NEW t \in Transactions, EndTx(t) PROVE LockInv'
  <2>1. NoTransaction \in TxShape /\ NoTransaction.got = 0
    BY DEF NoTransaction, TxShape
  <2> QED
    BY <1>2, <2>1, EmptyTxKeeps DEF EndTx
<1>3. CASE UNCHANGED locking
  <2>1. tx' = tx
    BY <1>3 DEF locking
  <2> QED
    BY <2>1 DEF LockInv, LockTypeOK, NoClash, LockProgram
<1> QED
  BY <1>1, <1>2, <1>3, TakeLockKeeps DEF LockNext

\* Who waits for whom: what the one wants, and what the other has of it.
Want(s) == LockProgram(s)[tx[s].got + 1]
WantsNext(s) == tx[s].got \in Nat /\ TakenAs(tx[s].kind, tx[s].got + 1, Want(s))
Meets(s, t, j) ==
  LET have == LockProgram(t)[j]
  IN /\ j \in Nat /\ j <= tx[t].got
     /\ TakenAs(tx[t].kind, j, have)
     /\ Place(have) = Place(Want(s))
     /\ Place(have) = "row" => tx[s].booking = tx[t].booking
     /\ {Mode(Want(s)), Mode(have)} \in Excluding

\* The locks of a transaction are those of its kind, for its booking.
LEMMA TakenOf ==
  ASSUME LockInv, NEW t \in Transactions, NEW i \in DOMAIN LockProgram(t)
  PROVE  /\ TakenAs(tx[t].kind, i, LockProgram(t)[i])
         /\ Named(LockProgram(t)[i], tx[t].booking)
<1>1. tx[t].kind \in {"none"} \cup RowKinds \cup TableKinds
  BY DEF LockInv, LockTypeOK, TxShape
<1> QED
  BY <1>1, LocksTaken DEF LockProgram

\* Who waits wants the next of its locks, against one that is held.
LEMMA Waiting ==
  ASSUME LockInv, NEW s \in Transactions, NEW t \in Transactions, WaitsFor(s, t)
  PROVE  s # t /\ WantsNext(s) /\ \E j \in 1 .. tx[t].got : Meets(s, t, j)
<1>0. tx[s].got \in Nat /\ tx[t].got \in Nat
  BY DEF LockInv, LockTypeOK, TxShape
<1>1. PICK want \in LockWanted(s), have \in LocksOf(t) :
        want[1] = have[1] /\ {want[2], have[2]} \in Excluding
  BY DEF WaitsFor
<1>2. want = Want(s) /\ tx[s].got + 1 \in DOMAIN LockProgram(s)
  BY DEF LockWanted, Want
<1>3. PICK j \in 1 .. tx[t].got : have = LockProgram(t)[j]
  BY DEF LocksOf
<1>4. j \in DOMAIN LockProgram(t)
  BY DEF LockInv, LockTypeOK
<1>5. /\ TakenAs(tx[s].kind, tx[s].got + 1, want) /\ Named(want, tx[s].booking)
  BY <1>2, TakenOf DEF Want
<1>6. /\ TakenAs(tx[t].kind, j, have) /\ Named(have, tx[t].booking)
  BY <1>3, <1>4, TakenOf
<1>7. Place(want) = Place(have)
  BY <1>1 DEF Place
<1>8. Place(have) = "row" => tx[s].booking = tx[t].booking
  <2>1. SUFFICES ASSUME Place(have) = "row" PROVE tx[s].booking = tx[t].booking
    OBVIOUS
  <2>2. <<"row", tx[s].booking>> = <<"row", tx[t].booking>>
    BY <1>1, <1>5, <1>6, <1>7, <2>1 DEF Named
  <2> QED
    BY <2>2
<1>9. j \in Nat /\ j <= tx[t].got
  BY <1>0
<1> QED
  BY <1>0, <1>1, <1>2, <1>3, <1>5, <1>6, <1>7, <1>8, <1>9 DEF WaitsFor, WantsNext, Meets, Mode

\* What two transactions cannot both have: the policies, saved and read, and the
\* bookings, written and fenced off.
LEMMA PolicyAlone ==
  ASSUME LockInv, NEW s \in Transactions, NEW t \in Transactions,
         tx[s].kind = "policy", tx[s].got > 0,
         tx[t].kind \in {"allocate", "release", "reserve", "hold", "payment"}, tx[t].got > 0
  PROVE  FALSE
<1>0. tx[s].got \in Nat /\ tx[t].got \in Nat
  BY DEF LockInv, LockTypeOK, TxShape
<1>1. 1 \in 1 .. tx[s].got /\ 1 \in 1 .. tx[t].got
  BY <1>0
<1>2. 1 \in DOMAIN LockProgram(s) /\ 1 \in DOMAIN LockProgram(t)
  BY <1>1 DEF LockInv, LockTypeOK
<1> DEFINE x == LockProgram(s)[1]
           y == LockProgram(t)[1]
<1>3. /\ TakenAs(tx[s].kind, 1, x) /\ Named(x, tx[s].booking)
      /\ TakenAs(tx[t].kind, 1, y) /\ Named(y, tx[t].booking)
  BY <1>2, TakenOf
<1> HIDE DEF x, y
<1>4. /\ Place(x) = "policies" /\ Mode(x) = "share_row_exclusive"
      /\ Place(y) = "policies" /\ Mode(y) = "share"
  BY <1>3 DEF TakenAs
<1>5. x[1] = y[1]
  BY <1>3, <1>4 DEF Named
<1>6. {x[2], y[2]} = {"share", "share_row_exclusive"}
  BY <1>4 DEF Mode
<1>7. Clash(x, y)
  BY <1>5, <1>6 DEF Clash, Excluding
<1> QED
  BY <1>1, <1>7 DEF LockInv, NoClash, x, y

\* A move cannot be under way beside an allocation past its fence.
LEMMA FenceAlone ==
  ASSUME LockInv, NEW s \in Transactions, NEW t \in Transactions,
         tx[s].kind = "allocate", tx[s].got > 1, tx[t].kind = "move", tx[t].got > 0
  PROVE  FALSE
<1>0. tx[s].got \in Nat /\ tx[t].got \in Nat
  BY DEF LockInv, LockTypeOK, TxShape
<1>1. 2 \in 1 .. tx[s].got /\ 1 \in 1 .. tx[t].got
  BY <1>0
<1>2. 2 \in DOMAIN LockProgram(s) /\ 1 \in DOMAIN LockProgram(t)
  BY <1>1 DEF LockInv, LockTypeOK
<1> DEFINE x == LockProgram(s)[2]
           y == LockProgram(t)[1]
<1>3. /\ TakenAs(tx[s].kind, 2, x) /\ Named(x, tx[s].booking)
      /\ TakenAs(tx[t].kind, 1, y) /\ Named(y, tx[t].booking)
  BY <1>2, TakenOf
<1> HIDE DEF x, y
<1>4. /\ Place(x) = "bookings" /\ Mode(x) = "share"
      /\ Place(y) = "bookings" /\ Mode(y) = "row_exclusive"
  BY <1>3 DEF TakenAs
<1>5. x[1] = y[1]
  BY <1>3, <1>4 DEF Named
<1>6. {x[2], y[2]} = {"share", "row_exclusive"}
  BY <1>4 DEF Mode
<1>7. Clash(x, y)
  BY <1>5, <1>6 DEF Clash, Excluding
<1> QED
  BY <1>1, <1>7 DEF LockInv, NoClash, x, y

\* The circle is followed backwards from where nothing more is taken: nobody of it
\* waits for a lock whose holders all go on, so each of its members waits for the
\* policies or the bookings, and there only a writer and a policy can meet.
LEMMA OnlyInvertedStuck == LockInv => OnlyInvertedWritersDeadlock
<1> SUFFICES ASSUME LockInv, NEW S \in SUBSET Transactions, Stuck(S),
                    \A s, t \in S :
                      /\ ~(tx[s].kind \in {"create", "link", "move"} /\ tx[t].kind = "policy")
                      /\ ~(/\ tx[s].kind = "move" /\ tx[t].kind = "release"
                           /\ tx[s].booking = tx[t].booking)
             PROVE  FALSE
  BY DEF OnlyInvertedWritersDeadlock
<1>0. \A s \in S : /\ s \in Transactions /\ WantsNext(s)
                   /\ \E t \in S : t # s /\ \E j \in 1 .. tx[t].got : Meets(s, t, j)
  BY Waiting DEF Stuck
<1>1. ASSUME NEW s \in S PROVE Place(Want(s)) # "holds"
  <2>0. PICK t \in S : t # s /\ \E j \in 1 .. tx[t].got : Meets(s, t, j)
    BY <1>0
  <2>1. PICK j \in 1 .. tx[t].got : Meets(s, t, j)
    BY <2>0
  <2>2. WantsNext(s) /\ WantsNext(t)
    BY <1>0
  <2> SUFFICES ASSUME Place(Want(s)) = "holds" PROVE FALSE
    OBVIOUS
  <2> DEFINE m == Mode(Want(s))
             h == Mode(LockProgram(t)[j])
  <2>3. {m, h} \in Excluding
    BY <2>1 DEF Meets
  <2>4. /\ \/ tx[s].kind = "policy" /\ tx[s].got = 2 /\ m = "share"
           \/ /\ tx[s].kind \in {"allocate", "release", "reserve", "hold"} /\ tx[s].got > 0
              /\ m = "row_exclusive"
        /\ \/ tx[t].kind = "policy" /\ tx[t].got > 0 /\ h = "share"
           \/ /\ tx[t].kind \in {"allocate", "release", "reserve", "hold"} /\ tx[t].got > 0
              /\ h = "row_exclusive"
    BY <2>1, <2>2 DEF Meets, WantsNext, TakenAs
  <2> HIDE DEF m, h
  <2>5. ~(m = "share" /\ h = "share") /\ ~(m = "row_exclusive" /\ h = "row_exclusive")
    BY <2>3, Excluded
  <2> QED
    BY <1>0, <2>4, <2>5, PolicyAlone
<1>2. ASSUME NEW s \in S PROVE Place(Want(s)) # "service"
  <2>0. PICK t \in S : t # s /\ \E j \in 1 .. tx[t].got : Meets(s, t, j)
    BY <1>0
  <2>1. PICK j \in 1 .. tx[t].got : Meets(s, t, j)
    BY <2>0
  <2>2. WantsNext(t) /\ Place(Want(t)) # "holds"
    BY <1>0, <1>1
  <2> QED
    BY <2>1, <2>2 DEF Meets, WantsNext, TakenAs
\* An update that has its row.
<1>3. ASSUME NEW s \in S, tx[s].kind = "move", tx[s].got > 1 PROVE FALSE
  <2>0. PICK t \in S : t # s /\ \E j \in 1 .. tx[t].got : Meets(s, t, j)
    BY <1>0
  <2>1. PICK j \in 1 .. tx[t].got : Meets(s, t, j)
    BY <2>0
  <2>2. WantsNext(s) /\ WantsNext(t)
    BY <1>0
  <2> DEFINE m == Mode(Want(s))
             h == Mode(LockProgram(t)[j])
  <2>3. {m, h} \in Excluding
    BY <2>1 DEF Meets
  <2>4. m = "share" /\ Place(Want(s)) \in {"policies", "heads"}
    BY <1>3, <2>2 DEF WantsNext, TakenAs
  <2>5. h \in {"row_exclusive", "share_row_exclusive"}
    <3> HIDE DEF m, h
    <3> QED
      BY <2>3, <2>4, Excluded
  <2>6. CASE Place(Want(s)) = "policies"
    <3>1. tx[t].kind = "policy"
      BY <2>1, <2>5, <2>6 DEF Meets, TakenAs
    <3> QED
      BY <1>3, <3>1
  <2>7. CASE Place(Want(s)) = "heads"
    <3>1. \/ tx[t].kind = "allocate" /\ tx[t].got > 1
          \/ tx[t].kind = "release" /\ tx[t].got > 1
      BY <2>1, <2>2, <2>5, <2>7 DEF Meets, WantsNext, TakenAs
    <3>2. tx[t].kind = "release" /\ tx[t].got > 1
      <4>1. tx[s].got > 0 /\ s \in Transactions /\ t \in Transactions
        BY <1>0, <1>3, <2>2 DEF WantsNext
      <4> QED
        BY <1>3, <3>1, <4>1, FenceAlone
    <3>3. WantsNext(t) /\ Place(Want(t)) # "holds" /\ Place(Want(t)) # "service"
      BY <1>0, <1>1, <1>2
    <3>4. Place(Want(t)) = "row" /\ Mode(Want(t)) = "for_share"
      BY <3>2, <3>3 DEF WantsNext, TakenAs
    <3>5. PICK u \in S : \E k \in 1 .. tx[u].got : Meets(t, u, k)
      BY <1>0
    <3>50. PICK k \in 1 .. tx[u].got : Meets(t, u, k)
      BY <3>5
    <3> DEFINE g == Mode(LockProgram(u)[k])
    <3>6. {Mode(Want(t)), g} \in Excluding
      BY <3>50 DEF Meets
    <3>7. g = "update"
      <4> HIDE DEF g
      <4> QED
        BY <3>4, <3>6, Excluded
    <3>8. \/ tx[u].kind = "move" /\ tx[t].booking = tx[u].booking
          \/ tx[u].kind = "link" /\ tx[u].got >= 4
      BY <3>4, <3>50, <3>7 DEF Meets, TakenAs
    <3>9. ~(tx[u].kind = "link" /\ tx[u].got >= 4)
      <4>1. WantsNext(u)
        BY <1>0
      <4> QED
        BY <4>1 DEF WantsNext, TakenAs
    <3> QED
      BY <3>2, <3>8, <3>9
  <2> QED
    BY <2>4, <2>6, <2>7
<1>4. ASSUME NEW s \in S PROVE Place(Want(s)) # "row"
  <2>0. PICK t \in S : t # s /\ \E j \in 1 .. tx[t].got : Meets(s, t, j)
    BY <1>0
  <2>1. PICK j \in 1 .. tx[t].got : Meets(s, t, j)
    BY <2>0
  <2>2. WantsNext(t) /\ Place(Want(t)) # "holds" /\ Place(Want(t)) # "service"
    BY <1>0, <1>1, <1>2
  <2>3. ~(tx[t].kind = "move" /\ tx[t].got > 1)
    BY <1>3
  <2> QED
    BY <2>1, <2>2, <2>3 DEF Meets, WantsNext, TakenAs
<1>5. ASSUME NEW s \in S PROVE Place(Want(s)) # "heads"
  <2>0. PICK t \in S : t # s /\ \E j \in 1 .. tx[t].got : Meets(s, t, j)
    BY <1>0
  <2>1. PICK j \in 1 .. tx[t].got : Meets(s, t, j)
    BY <2>0
  <2>2. /\ WantsNext(t) /\ Place(Want(t)) # "holds" /\ Place(Want(t)) # "service"
        /\ Place(Want(t)) # "row"
    BY <1>0, <1>1, <1>2, <1>4
  <2> QED
    BY <2>1, <2>2 DEF Meets, WantsNext, TakenAs
<1>6. ASSUME NEW s \in S, tx[s].kind \in {"create", "link", "move"}, tx[s].got > 0 PROVE FALSE
  <2>0. PICK t \in S : t # s /\ \E j \in 1 .. tx[t].got : Meets(s, t, j)
    BY <1>0
  <2>1. PICK j \in 1 .. tx[t].got : Meets(s, t, j)
    BY <2>0
  <2>2. WantsNext(s) /\ Place(Want(s)) # "row" /\ Place(Want(s)) # "heads"
    BY <1>0, <1>4, <1>5
  <2> DEFINE m == Mode(Want(s))
             h == Mode(LockProgram(t)[j])
  <2>3. {m, h} \in Excluding
    BY <2>1 DEF Meets
  <2>4. m = "share" /\ Place(Want(s)) = "policies"
    BY <1>6, <2>2 DEF WantsNext, TakenAs
  <2>5. h \in {"row_exclusive", "share_row_exclusive"}
    <3> HIDE DEF m, h
    <3> QED
      BY <2>3, <2>4, Excluded
  <2>6. tx[t].kind = "policy"
    BY <2>1, <2>4, <2>5 DEF Meets, TakenAs
  <2> QED
    BY <1>6, <2>6
<1>7. ASSUME NEW s \in S PROVE Place(Want(s)) # "bookings"
  <2>0. PICK t \in S : t # s /\ \E j \in 1 .. tx[t].got : Meets(s, t, j)
    BY <1>0
  <2>1. PICK j \in 1 .. tx[t].got : Meets(s, t, j)
    BY <2>0
  <2>2. /\ WantsNext(t) /\ Place(Want(t)) # "holds" /\ Place(Want(t)) # "service"
        /\ Place(Want(t)) # "row" /\ Place(Want(t)) # "heads"
    BY <1>0, <1>1, <1>2, <1>4, <1>5
  <2>3. ~(tx[t].kind \in {"create", "link", "move"} /\ tx[t].got > 0)
    BY <1>6
  <2> QED
    BY <2>1, <2>2, <2>3 DEF Meets, WantsNext, TakenAs
<1>8. ASSUME NEW s \in S PROVE Place(Want(s)) # "policies"
  <2>0. PICK t \in S : t # s /\ \E j \in 1 .. tx[t].got : Meets(s, t, j)
    BY <1>0
  <2>1. PICK j \in 1 .. tx[t].got : Meets(s, t, j)
    BY <2>0
  <2>2. /\ WantsNext(t) /\ Place(Want(t)) # "holds" /\ Place(Want(t)) # "service"
        /\ Place(Want(t)) # "row" /\ Place(Want(t)) # "heads" /\ Place(Want(t)) # "bookings"
    BY <1>0, <1>1, <1>2, <1>4, <1>5, <1>7
  <2> QED
    BY <2>1, <2>2 DEF Meets, WantsNext, TakenAs
<1>9. PICK s \in S : TRUE
  BY DEF Stuck
<1> QED
  BY <1>0, <1>1, <1>2, <1>4, <1>5, <1>7, <1>8, <1>9 DEF WantsNext, TakenAs

\* Transactions that touch a booking, its holds or its payments wait in a circle only
\* where a writer of bookings meets the save of a policy, or an update of a booking
\* the release of its group, for any number of transactions and bookings.
THEOREM OnlyInversionsDeadlock == LockSpec => []OnlyInvertedWritersDeadlock
<1>1. LockSpec => []LockInv
  BY LockStarts, LockKeeps, PTL DEF LockSpec
<1> QED
  BY <1>1, OnlyInvertedStuck, PTL

---------------------------------------------------------------------------
(* What a run of MCOperations checks of them.                              *)

\* Planning groups: allocations are reported as they are and take no worker twice,
\* and only the inversion that the migration names can deadlock.
THEOREM PlanningIsHeld == Spec => []PlanningHolds
<1>1. Init => PlanningInit /\ LockInit
  BY DEF Init
<1>2. [Next]_vars => [PlanningNext]_planning /\ [LockNext]_locking
  BY DEF Next, vars
<1>3. AllocationHolds /\ OnlyInvertedWritersDeadlock => PlanningHolds
  BY DEF PlanningHolds
<1> QED
  BY <1>1, <1>2, <1>3, AllocationsHold, OnlyInversionsDeadlock, PTL DEF Spec, LockSpec

---------------------------------------------------------------------------
(* ResourceReading.                                                        *)

\* Every row holds one unit.
RowsOfOne == IsFiniteSet(rows) /\ \A r \in rows : "quantity" \in DOMAIN r /\ r.quantity = 1

\* What such rows add up to is how many there are.
LEMMA QuantitiesTotal ==
  ASSUME NEW S, IsFiniteSet(S), \A r \in S : r.quantity = 1
  PROVE  SumOf(S) = Cardinality(S)
<1> DEFINE f == [r \in S |-> 1]
           B(it) == [s \in SUBSET S |->
                       IF s = {} THEN 0 ELSE Chosen(s).quantity + it[s \ {Chosen(s)}]]
           g == CHOOSE it : it = B(it)
<1>1. SumOf(S) = g[S]
  BY DEF SumOf, MapThenSumSet, MapThenFoldSet, Chosen
<1>2. \A s \in SUBSET S : s # {} => Chosen(s) \in S
  BY DEF Chosen
<1>3. \A r \in S : f[r] = 1 /\ f[r] = r.quantity
  OBVIOUS
<1> HIDE DEF f
<1>4. \A r \in S : f[r] \in Int
  BY <1>3
<1>5. PICK h \in [SUBSET S -> Int] : Sums(f, S, h)
  BY <1>4, SumsExist
<1>6. h = B(h)
  BY <1>2, <1>3, <1>5 DEF Sums
<1>7. g = B(g)
  BY <1>6
<1> HIDE DEF g
<1>8. Sums(f, S, g)
  BY <1>2, <1>3, <1>7 DEF Sums
<1>9. g[S] = Total(f, S)
  BY <1>4, <1>8, SumIsTotal
<1>10. QED
  BY <1>1, <1>3, <1>9, TotalOnes

\* A sum over numbers.
LEMMA SumOfSet ==
  ASSUME NEW S, IsFiniteSet(S), S \subseteq Int
  PROVE  SumSet(S) = Total([x \in S |-> x], S)
<1> DEFINE f == [x \in S |-> x]
           B(it) == [s \in SUBSET S |->
                       IF s = {} THEN 0 ELSE Chosen(s) + it[s \ {Chosen(s)}]]
           g == CHOOSE it : it = B(it)
<1>1. SumSet(S) = g[S]
  BY DEF SumSet, FoldSet, MapThenFoldSet, Chosen
<1>2. \A s \in SUBSET S : s # {} => Chosen(s) \in S
  BY DEF Chosen
<1>3. \A x \in S : f[x] \in Int /\ f[x] = x
  OBVIOUS
<1> HIDE DEF f
<1>4. PICK h \in [SUBSET S -> Int] : Sums(f, S, h)
  BY <1>3, SumsExist
<1>5. h = B(h)
  BY <1>2, <1>3, <1>4 DEF Sums
<1>6. g = B(g)
  BY <1>5
<1> HIDE DEF g
<1>7. Sums(f, S, g)
  BY <1>2, <1>3, <1>6 DEF Sums
<1>8. g[S] = Total(f, S)
  BY <1>3, <1>7, SumIsTotal
<1>9. QED
  BY <1>1, <1>8 DEF f

\* A sum over one number.
LEMMA SumOfOne ==
  ASSUME NEW x \in Int
  PROVE  SumSet({x}) = x
<1> DEFINE f == [y \in {x} |-> y]
<1>1. IsFiniteSet({x}) /\ IsFiniteSet({})
  BY FS_Singleton, FS_EmptySet
<1>2. SumSet({x}) = Total(f, {x})
  BY <1>1, SumOfSet
<1>3. Total(f, {} \cup {x}) = f[x] + Total(f, {})
  <2>1. \A y \in {} \cup {x} : f[y] \in Int
    OBVIOUS
  <2> HIDE DEF f
  <2>2. QED
    BY <1>1, <2>1, TotalAdd
<1>4. Total(f, {}) = 0
  BY TotalEmpty
<1>5. {} \cup {x} = {x} /\ f[x] = x
  OBVIOUS
<1>6. QED
  BY <1>2, <1>3, <1>4, <1>5

\* A sum over nothing.
LEMMA SumOfNone == SumSet({}) = 0
<1>1. SumSet({}) = Total([y \in {} |-> y], {})
  BY FS_EmptySet, SumOfSet
<1>2. QED
  BY <1>1, TotalEmpty

\* The reader and the writer count the same rows.
LEMMA CountsAlike ==
  ASSUME RowsOfOne, NEW u \in Units, NEW w \in Windows
  PROVE  LET taken == Cardinality({r \in rows : r.unit = u.id /\ ReservationConsumes(r, w)})
         IN SumOf(Counted(u, w)) = taken /\ taken \in Nat
<1> DEFINE C == {r \in rows : r.unit = u.id /\ ReservationConsumes(r, w)}
<1>1. Counted(u, w) = C
  BY DEF Counted, InForce, ReservationConsumes
<1>2. IsFiniteSet(C) /\ \A r \in C : r.quantity = 1
  BY FS_Subset DEF RowsOfOne
<1> HIDE DEF C
<1>3. SumOf(C) = Cardinality(C) /\ Cardinality(C) \in Nat
  BY <1>2, QuantitiesTotal, FS_CardinalityType
<1>4. QED
  BY <1>1, <1>3 DEF C

\* What can be reserved is what would be granted.
LEMMA ReservesAsGrants ==
  ASSUME RowsOfOne, NEW u \in Units, NEW w \in Windows
  PROVE  /\ ResourceAvailability(u, w) \in Nat
         /\ ResourceAvailability(u, w) <= EffectiveCapacity(u)
         /\ EffectiveCapacity(u) \in Nat
         /\ \A q \in Nat \ {0} : (ResourceAvailability(u, w) >= q) = Grants(u, w, q)
<1> DEFINE taken == Cardinality({r \in rows : r.unit = u.id /\ ReservationConsumes(r, w)})
<1>1. SumOf(Counted(u, w)) = taken /\ taken \in Nat
  BY CountsAlike
<1>2. u.capacity \in Nat \ {0} /\ EffectiveCapacity(u) = u.capacity
  BY ReadingAssumption DEF EffectiveCapacity
<1>3. ResourceAvailability(u, w) =
        IF u \in idle \/ u.capacity - taken < 0 THEN 0 ELSE u.capacity - taken
  BY <1>2 DEF ResourceAvailability
<1> HIDE DEF taken
<1>4. ASSUME NEW q \in Nat \ {0}
      PROVE  (ResourceAvailability(u, w) >= q) = Grants(u, w, q)
  <2>1. Grants(u, w, q) = (u \notin idle /\ taken + q <= u.capacity)
    BY <1>1 DEF Grants
  <2>2. CASE u \in idle
    BY <1>3, <2>1, <2>2
  <2>3. CASE u \notin idle
    BY <1>1, <1>2, <1>3, <2>1, <2>3
  <2>4. QED
    BY <2>2, <2>3
<1>5. ResourceAvailability(u, w) \in Nat /\ ResourceAvailability(u, w) <= u.capacity
  BY <1>1, <1>2, <1>3
<1>6. QED
  BY <1>2, <1>4, <1>5

\* Where every row holds one unit the reader and the writer agree.
LEMMA ReaderFollows ==
  ASSUME RowsOfOne
  PROVE  ReaderAgrees
<1> SUFFICES ASSUME NEW w \in Windows
             PROVE  /\ \A u \in Units : \A q \in 1..u.capacity : CanReserve(u, w, q) = Grants(u, w, q)
                    /\ LET shown == ResourceStatusForSlot(w) IN
                       /\ shown.satisfiable =
                            \A i \in DOMAIN Needs : \E u \in Units :
                              u.id = Needs[i].unit /\ Grants(u, w, Needs[i].quantity)
                       /\ shown.remaining <= shown.capacity
                       /\ shown.satisfiable => shown.remaining >= Needs[1].quantity
  BY DEF ReaderAgrees
<1>1. ASSUME NEW u \in Units, NEW q \in 1..u.capacity
      PROVE  CanReserve(u, w, q) = Grants(u, w, q)
  <2>1. q \in Nat \ {0}
    BY ReadingAssumption
  <2>2. (ResourceAvailability(u, w) >= q) = Grants(u, w, q)
    BY <2>1, ReservesAsGrants
  <2>3. q >= 1
    BY <2>1
  <2>4. QED
    BY <2>2, <2>3 DEF CanReserve
<1> DEFINE primary == {u \in Units : u.id = Needs[1].unit}
           left == SumSet({ResourceAvailability(u, w) : u \in primary})
           room == SumSet({EffectiveCapacity(u) : u \in primary})
<1>2. ASSUME NEW i \in DOMAIN Needs
      PROVE  Satisfied(Needs[i], w) <=>
               \E u \in Units : u.id = Needs[i].unit /\ Grants(u, w, Needs[i].quantity)
  <2>1. Needs[i].quantity \in Nat \ {0}
    BY ReadingAssumption
  <2>2. \A u \in Units : (ResourceAvailability(u, w) >= Needs[i].quantity) = Grants(u, w, Needs[i].quantity)
    BY <2>1, ReservesAsGrants
  <2>3. QED
    BY <2>2 DEF Satisfied
<1>3. (Shortfalls(w) = {}) <=> \A i \in DOMAIN Needs : Satisfied(Needs[i], w)
  BY DEF Shortfalls
<1>4. LET shown == ResourceStatusForSlot(w)
      IN shown.satisfiable = (Shortfalls(w) = {}) /\ shown.remaining = left /\ shown.capacity = room
  BY DEF ResourceStatusForSlot
<1>5. left <= room /\ (Shortfalls(w) = {} => left >= Needs[1].quantity)
  <2>1. CASE primary = {}
    <3>1. {ResourceAvailability(u, w) : u \in primary} = {} /\ {EffectiveCapacity(u) : u \in primary} = {}
      BY <2>1
    <3>2. left = 0 /\ room = 0
      BY <3>1, SumOfNone
    <3>3. ~ Satisfied(Needs[1], w)
      BY <2>1 DEF Satisfied
    <3>4. Shortfalls(w) # {}
      BY <1>3, <3>3, ReadingAssumption
    <3> HIDE DEF left, room
    <3>5. QED
      BY <3>2, <3>4
  <2>2. CASE primary # {}
    <3>1. PICK v \in Units : v.id = Needs[1].unit /\ primary = {v}
      BY <2>2, ReadingAssumption
    <3>2. {ResourceAvailability(u, w) : u \in primary} = {ResourceAvailability(v, w)}
          /\ {EffectiveCapacity(u) : u \in primary} = {EffectiveCapacity(v)}
      BY <3>1
    <3> DEFINE a == ResourceAvailability(v, w)
               c == EffectiveCapacity(v)
    <3>3. a \in Nat /\ c \in Nat /\ a <= c
      BY ReservesAsGrants
    <3>4. Shortfalls(w) = {} => a >= Needs[1].quantity
      <4>1. Shortfalls(w) = {} => Satisfied(Needs[1], w)
        BY <1>3, ReadingAssumption
      <4>2. Satisfied(Needs[1], w) => a >= Needs[1].quantity
        BY <3>1 DEF Satisfied
      <4>3. QED
        BY <4>1, <4>2
    <3> HIDE DEF a, c
    <3>5. SumSet({a}) = a /\ SumSet({c}) = c
      BY <3>3, SumOfOne
    <3>6. left = a /\ room = c
      BY <3>2, <3>5 DEF a, c
    <3> HIDE DEF left, room
    <3>7. QED
      BY <3>3, <3>4, <3>6
  <2>3. QED
    BY <2>1, <2>2
<1> HIDE DEF left, room
<1>6. (Shortfalls(w) = {}) =
        (\A i \in DOMAIN Needs : \E u \in Units : u.id = Needs[i].unit /\ Grants(u, w, Needs[i].quantity))
  BY <1>2, <1>3
<1>7. QED
  BY <1>1, <1>4, <1>5, <1>6

\* Every operation of the writer leaves rows of one unit.
LEMMA ReadingKeeps ==
  ASSUME RowQuantities = {1}, RowsOfOne, [ReadingNext]_resourcing
  PROVE  RowsOfOne'
<1>1. ASSUME NEW h \in Holders, NEW u \in Units, NEW w \in Windows, NEW q \in RowQuantities,
             Reserve(h, u, w, q)
      PROVE  RowsOfOne'
  <2>1. /\ rows' = rows \cup {NewRow(h, u, w, q)}
        /\ "quantity" \in DOMAIN NewRow(h, u, w, q) /\ NewRow(h, u, w, q).quantity = 1
    BY <1>1 DEF Reserve, NewRow
  <2>2. IsFiniteSet(rows \cup {NewRow(h, u, w, q)})
    BY FS_AddElement DEF RowsOfOne
  <2>3. QED
    BY <2>1, <2>2 DEF RowsOfOne
<1>2. ASSUME NEW h \in Holders, NEW status \in {"consumed", "released", "expired"}, End(h, status)
      PROVE  RowsOfOne'
  <2> DEFINE Ended(r) == IF r.holder = h /\ r.status = "held"
                         THEN [r EXCEPT !.status = status, !.expires = 0] ELSE r
             e == [r \in rows |-> Ended(r)]
  <2>1. rows' = {Ended(r) : r \in rows}
    BY <1>2 DEF End
  <2>2. IsFiniteSet({e[r] : r \in rows})
    <3> HIDE DEF e
    <3>1. QED
      BY FiniteImage DEF RowsOfOne
  <2>3. {e[r] : r \in rows} = {Ended(r) : r \in rows}
    OBVIOUS
  <2>4. \A r \in rows : "quantity" \in DOMAIN Ended(r) /\ Ended(r).quantity = 1
    BY DEF RowsOfOne
  <2>5. QED
    BY <2>1, <2>2, <2>3, <2>4 DEF RowsOfOne
<1>3. ASSUME (\E u \in Units : SwitchOff(u)) \/ Pass \/ UNCHANGED resourcing
      PROVE  RowsOfOne'
  BY <1>3 DEF SwitchOff, Pass, resourcing, RowsOfOne
<1>4. QED
  BY <1>1, <1>2, <1>3 DEF ReadingNext

\* As long as a reservation holds one unit, what the reader shows of a slot is what
\* the writer would grant there, for any units, windows, requirements and rows.
THEOREM ReaderAgreesWithWriter ==
  ASSUME RowQuantities = {1}
  PROVE  ReadingInit /\ [][ReadingNext]_resourcing => []ReaderAgrees
<1>1. ReadingInit => RowsOfOne
  BY FS_EmptySet DEF ReadingInit, RowsOfOne
<1>2. RowsOfOne /\ [ReadingNext]_resourcing => RowsOfOne'
  BY ReadingKeeps
<1>3. RowsOfOne => ReaderAgrees
  BY ReaderFollows
<1>4. QED
  BY <1>1, <1>2, <1>3, PTL

\* The composed specification keeps it too.
THEOREM ReaderIsTheWriter ==
  ASSUME RowQuantities = {1}
  PROVE  Spec => []ReaderIsWriter
<1>1. Init => ReadingInit
  BY DEF Init
<1>2. [Next]_vars => [ReadingNext]_resourcing
  BY DEF Next, vars
<1>3. ReaderAgrees => ReaderIsWriter
  BY DEF ReaderIsWriter
<1>4. ReadingInit /\ [][ReadingNext]_resourcing => []ReaderAgrees
  BY ReaderAgreesWithWriter
<1>5. QED
  BY <1>1, <1>2, <1>3, <1>4, PTL DEF Spec

---------------------------------------------------------------------------
(* PortalDesk.                                                             *)

BookingStates == DOMAIN BookingTransitions
EventRows == [tenant : {Us}, name : BookingStates \cup {"settings_updated"},
            about : {b.id : b \in DeskBookings} \cup {"tenant"}]

\* What holds between the desk's steps: every part has its type, nobody else's
\* service was switched off, and the trail is whole.
DeskInv ==
  /\ states \in [DeskBookings -> BookingStates]
  /\ past \in [DeskBookings -> Seq([from : BookingStates, to : BookingStates])]
  /\ log \in Seq(EventRows)
  /\ DeskServices \ active \subseteq Scoped(DeskServices)
  /\ TrailRebuildsDesk

\* Counting events.
LEMMA ToldFacts ==
  ASSUME NEW E, NEW s \in Seq(E), NEW id
  PROVE  /\ \A i \in 0..Len(s) : Told(s, i, id) \in Nat /\ Told(s, i, id) <= Told(s, Len(s), id)
         /\ \A i \in DOMAIN s : s[i].about = id => Told(s, i, id) >= 1
<1> DEFINE T(i) == {j \in 1..i : s[j].about = id}
<1>1. Len(s) \in Nat /\ DOMAIN s = 1..Len(s)
  OBVIOUS
<1>2. \A i \in 0..Len(s) : IsFiniteSet(T(i)) /\ T(i) \subseteq T(Len(s))
  <2>1. ASSUME NEW i \in 0..Len(s) PROVE IsFiniteSet(1..i)
    BY FS_Interval
  <2>2. \A i \in 0..Len(s) : T(i) \subseteq 1..i /\ T(i) \subseteq T(Len(s))
    BY <1>1
  <2>3. QED
    BY <2>1, <2>2, FS_Subset
<1>3. \A i \in DOMAIN s : s[i].about = id => T(i) # {}
  BY <1>1
<1>4. \A i \in 0..Len(s) : Told(s, i, id) = Cardinality(T(i))
  BY DEF Told
<1> HIDE DEF T
<1>5. ASSUME NEW i \in 0..Len(s)
      PROVE  /\ Cardinality(T(i)) \in Nat /\ Cardinality(T(i)) <= Cardinality(T(Len(s)))
             /\ T(i) # {} => Cardinality(T(i)) >= 1
  <2>1. IsFiniteSet(T(i)) /\ IsFiniteSet(T(Len(s))) /\ T(i) \subseteq T(Len(s))
    BY <1>1, <1>2
  <2>2. Cardinality(T(i)) \in Nat /\ Cardinality(T(i)) <= Cardinality(T(Len(s)))
    BY <2>1, FS_CardinalityType, FS_Subset
  <2>3. T(i) # {} => Cardinality(T(i)) # 0
    BY <2>1, FS_EmptySet
  <2>4. QED
    BY <2>2, <2>3
<1>6. QED
  BY <1>1, <1>3, <1>4, <1>5

\* Counting events after one more.
LEMMA ToldAppend ==
  ASSUME NEW E, NEW s \in Seq(E), NEW e \in E, NEW id
  PROVE  LET t == Append(s, e)
         IN /\ \A i \in 0..Len(s) : Told(t, i, id) = Told(s, i, id)
            /\ Told(t, Len(t), id) = Told(s, Len(s), id) + (IF e.about = id THEN 1 ELSE 0)
<1> DEFINE t == Append(s, e)
           n == Len(s)
           T(i) == {j \in 1..i : s[j].about = id}
           U(i) == {j \in 1..i : t[j].about = id}
<1>1. n \in Nat /\ Len(t) = n + 1 /\ t[n + 1] = e /\ \A j \in 1..n : t[j] = s[j]
  OBVIOUS
<1> HIDE DEF t
<1>2. \A i \in 0..n : U(i) = T(i)
  BY <1>1
<1>3. U(n + 1) = IF e.about = id THEN T(n) \cup {n + 1} ELSE T(n)
  BY <1>1
<1>4. IsFiniteSet(T(n)) /\ n + 1 \notin T(n)
  <2>1. IsFiniteSet(1..n) /\ T(n) \subseteq 1..n
    BY <1>1, FS_Interval
  <2>2. n + 1 \notin 1..n
    BY <1>1
  <2>3. QED
    BY <2>1, <2>2, FS_Subset
<1>5. /\ \A i \in 0..n : Told(t, i, id) = Cardinality(U(i)) /\ Told(s, i, id) = Cardinality(T(i))
      /\ Told(t, n + 1, id) = Cardinality(U(n + 1)) /\ Told(s, n, id) = Cardinality(T(n))
  BY DEF Told
<1> HIDE DEF T, U, n
<1>6. \A i \in 0..n : Told(t, i, id) = Told(s, i, id)
  BY <1>2, <1>5
<1>7. Told(t, n + 1, id) = Told(s, n, id) + (IF e.about = id THEN 1 ELSE 0)
  <2>1. Cardinality(T(n)) \in Nat
    BY <1>4, FS_CardinalityType
  <2>2. CASE e.about = id
    <3>1. Cardinality(T(n) \cup {n + 1}) = Cardinality(T(n)) + 1
      BY <1>4, FS_AddElement
    <3>2. QED
      BY <1>3, <1>5, <2>2, <3>1
  <2>3. CASE e.about # id
    BY <1>3, <1>5, <2>1, <2>3
  <2>4. QED
    BY <2>2, <2>3
<1>8. QED
  BY <1>1, <1>6, <1>7 DEF t, n

\* The store starts with an empty trail.
LEMMA DeskStarts == PortalInit => DeskInv
<1> SUFFICES ASSUME PortalInit PROVE DeskInv
  OBVIOUS
<1>1. states \in [DeskBookings -> BookingStates] /\ past \in [DeskBookings -> Seq([from : BookingStates, to : BookingStates])]
  BY DeskAssumption DEF PortalInit, BookingStates
<1>2. log \in Seq(EventRows) /\ DeskServices \ active \subseteq Scoped(DeskServices)
  BY DEF PortalInit
<1>3. ASSUME NEW b \in DeskBookings PROVE Told(log, Len(log), b.id) = 0
  <2>1. {j \in 1..Len(log) : log[j].about = b.id} = {}
    BY DEF PortalInit
  <2>2. QED
    BY <2>1, FS_EmptySet DEF Told
<1>4. TrailRebuildsDesk
  BY <1>3 DEF TrailRebuildsDesk, PortalInit
<1>5. QED
  BY <1>1, <1>2, <1>4 DEF DeskInv

\* One event more about something else changes no booking's trail.
LEMMA DeskEdits ==
  ASSUME DeskInv, UpdateTenantSettings
  PROVE  DeskInv'
<1> DEFINE e == Event("settings_updated", "tenant")
<1>1. log' = Append(log, e) /\ UNCHANGED <<states, past, active>>
  BY DEF UpdateTenantSettings
<1>2. e \in EventRows /\ e.about = "tenant"
  BY DEF Event, EventRows
<1>3. log \in Seq(EventRows)
  BY DEF DeskInv
<1> HIDE DEF e
<1>4. log' \in Seq(EventRows) /\ Len(log') = Len(log) + 1 /\ DOMAIN log' = 1..(Len(log) + 1)
      /\ DOMAIN log = 1..Len(log) /\ Len(log) \in Nat
      /\ log'[Len(log) + 1] = e /\ \A i \in DOMAIN log : log'[i] = log[i]
  BY <1>1, <1>2, <1>3
<1>5. ASSUME NEW b \in DeskBookings
      PROVE  LET h == past'[b]
             IN /\ \A i \in DOMAIN h :
                     /\ h[i].from = IF i = 1 THEN b.seed ELSE h[i - 1].to
                     /\ h[i].to \in BookingTransitions[h[i].from]
                /\ Told(log', Len(log'), b.id) = Len(h)
                /\ \A i \in DOMAIN log' :
                     log'[i].about = b.id => log'[i] = Event(h[Told(log', i, b.id)].to, b.id)
                /\ states'[b] = IF h = <<>> THEN b.seed ELSE Last(h).to
                /\ b.tenant # Us => h = <<>>
  <2>1. e.about # b.id
    BY <1>2, DeskAssumption
  <2>2. /\ \A i \in 0..Len(log) : Told(log', i, b.id) = Told(log, i, b.id)
        /\ Told(log', Len(log'), b.id) = Told(log, Len(log), b.id) + 0
    BY <1>1, <1>2, <1>3, <2>1, ToldAppend
  <2>3. Told(log, Len(log), b.id) \in Nat
    BY <1>3, <1>4, ToldFacts
  <2>4. Told(log', Len(log'), b.id) = Len(past'[b])
    BY <1>1, <2>2, <2>3 DEF DeskInv, TrailRebuildsDesk
  <2>5. ASSUME NEW i \in DOMAIN log', log'[i].about = b.id
        PROVE  log'[i] = Event(past'[b][Told(log', i, b.id)].to, b.id)
    <3>1. i # Len(log) + 1
      BY <1>4, <2>1, <2>5
    <3>2. i \in DOMAIN log /\ i \in 0..Len(log) /\ log'[i] = log[i]
      BY <1>4, <3>1
    <3>3. QED
      BY <1>1, <2>2, <2>5, <3>2 DEF DeskInv, TrailRebuildsDesk
  <2>6. QED
    BY <1>1, <2>4, <2>5 DEF DeskInv, TrailRebuildsDesk
<1>6. TrailRebuildsDesk'
  BY <1>5 DEF TrailRebuildsDesk
<1>7. QED
  BY <1>1, <1>4, <1>6 DEF DeskInv

\* A button of the drawer adds to the booking's history and to the log alike.
LEMMA DeskMarks ==
  ASSUME DeskInv, NEW to \in {"completed", "cancelled"}, Mark(to)
  PROVE  DeskInv'
<1>1. PICK m \in DeskBookings :
        m.tenant = Us /\ to \in LegalNextStates(states[m]) /\ TransitionBooking(m, to)
  BY DEF Mark, GetBooking, Scoped
<1> DEFINE e == Event(to, m.id)
           c == [from |-> states[m], to |-> to]
<1>2. past' = [past EXCEPT ![m] = Append(@, c)] /\ states' = [states EXCEPT ![m] = to]
      /\ log' = Append(log, e) /\ UNCHANGED active
  BY <1>1 DEF TransitionBooking, Mark
<1>3. e \in EventRows /\ e.about = m.id /\ e = Event(to, m.id)
  BY DEF Event, EventRows, BookingStates, BookingTransitions
<1>4. c \in [from : BookingStates, to : BookingStates] /\ to \in BookingTransitions[c.from] /\ c.from = states[m] /\ c.to = to
  BY <1>1 DEF DeskInv, LegalNextStates, BookingStates, BookingTransitions
<1>5. log \in Seq(EventRows) /\ past \in [DeskBookings -> Seq([from : BookingStates, to : BookingStates])]
      /\ states \in [DeskBookings -> BookingStates]
  BY DEF DeskInv
<1> HIDE DEF e, c
<1>6. log' \in Seq(EventRows) /\ Len(log') = Len(log) + 1 /\ DOMAIN log' = 1..(Len(log) + 1)
      /\ DOMAIN log = 1..Len(log) /\ Len(log) \in Nat
      /\ log'[Len(log) + 1] = e /\ \A i \in DOMAIN log : log'[i] = log[i]
  BY <1>2, <1>3, <1>5
<1>7. past' \in [DeskBookings -> Seq([from : BookingStates, to : BookingStates])] /\ states' \in [DeskBookings -> BookingStates]
  <2>1. Append(past[m], c) \in Seq([from : BookingStates, to : BookingStates]) /\ to \in BookingStates
    BY <1>4, <1>5 DEF BookingStates, BookingTransitions
  <2>2. QED
    BY <1>2, <1>5, <2>1
<1>8. ASSUME NEW b \in DeskBookings
      PROVE  LET h == past'[b]
             IN /\ \A i \in DOMAIN h :
                     /\ h[i].from = IF i = 1 THEN b.seed ELSE h[i - 1].to
                     /\ h[i].to \in BookingTransitions[h[i].from]
                /\ Told(log', Len(log'), b.id) = Len(h)
                /\ \A i \in DOMAIN log' :
                     log'[i].about = b.id => log'[i] = Event(h[Told(log', i, b.id)].to, b.id)
                /\ states'[b] = IF h = <<>> THEN b.seed ELSE Last(h).to
                /\ b.tenant # Us => h = <<>>
  <2> DEFINE old == past[b]
             n == Len(old)
  <2>1. /\ \A i \in DOMAIN old :
             /\ old[i].from = IF i = 1 THEN b.seed ELSE old[i - 1].to
             /\ old[i].to \in BookingTransitions[old[i].from]
        /\ Told(log, Len(log), b.id) = n
        /\ \A i \in DOMAIN log :
             log[i].about = b.id => log[i] = Event(old[Told(log, i, b.id)].to, b.id)
        /\ states[b] = IF old = <<>> THEN b.seed ELSE Last(old).to
        /\ b.tenant # Us => old = <<>>
    BY DEF DeskInv, TrailRebuildsDesk
  <2>2. /\ \A i \in 0..Len(log) : Told(log', i, b.id) = Told(log, i, b.id)
        /\ Told(log', Len(log'), b.id) = Told(log, Len(log), b.id) + (IF e.about = b.id THEN 1 ELSE 0)
    BY <1>2, <1>3, <1>5, ToldAppend
  <2>3. /\ \A i \in 0..Len(log) : Told(log, i, b.id) \in Nat /\ Told(log, i, b.id) <= n
        /\ \A i \in DOMAIN log : log[i].about = b.id => Told(log, i, b.id) >= 1
    BY <1>5, <2>1, ToldFacts
  <2>4. old \in Seq([from : BookingStates, to : BookingStates]) /\ n \in Nat /\ DOMAIN old = 1..n
    <3>1. old \in Seq([from : BookingStates, to : BookingStates])
      BY <1>5
    <3> HIDE DEF old
    <3>2. QED
      BY <3>1
  <2>5. ASSUME NEW i \in DOMAIN log, log[i].about = b.id
        PROVE  LET k == Told(log, i, b.id) IN k \in 1..n /\ Told(log', i, b.id) = k
    BY <1>6, <2>2, <2>3, <2>4, <2>5
  <2>6. CASE b # m
    <3>1. past'[b] = old /\ states'[b] = states[b] /\ e.about # b.id
      BY <1>2, <1>3, <1>5, <2>6, DeskAssumption
    <3>2. Told(log', Len(log'), b.id) = n
      BY <2>1, <2>2, <2>4, <3>1
    <3>3. ASSUME NEW i \in DOMAIN log', log'[i].about = b.id
          PROVE  log'[i] = Event(old[Told(log', i, b.id)].to, b.id)
      <4>1. i \in DOMAIN log /\ log'[i] = log[i]
        BY <1>6, <3>1, <3>3
      <4>2. QED
        BY <2>1, <2>5, <3>3, <4>1
    <3> HIDE DEF old, n
    <3>4. QED
      BY <2>1, <3>1, <3>2, <3>3 DEF n
  <2>7. CASE b = m
    <3> DEFINE h == Append(old, c)
    <3>1. past'[b] = h /\ states'[b] = to /\ e.about = b.id /\ b.tenant = Us
      BY <1>1, <1>2, <1>3, <1>5, <2>7
    <3>2. Len(h) = n + 1 /\ DOMAIN h = 1..(n + 1) /\ h[n + 1] = c /\ (\A i \in 1..n : h[i] = old[i])
          /\ h # <<>> /\ h \in Seq([from : BookingStates, to : BookingStates])
      BY <1>4, <2>4
    <3>3. c.from = IF n = 0 THEN b.seed ELSE old[n].to
      <4>1. n = 0 <=> old = <<>>
        BY <2>4
      <4>2. QED
        BY <1>4, <2>1, <2>7, <4>1 DEF Last
    <3>4. Told(log', Len(log'), b.id) = n + 1
      BY <2>1, <2>2, <3>1
    <3>5. Last(h).to = to
      BY <1>4, <3>2 DEF Last
    <3> HIDE DEF h, n, old
    <3>6. ASSUME NEW i \in DOMAIN h
          PROVE  /\ h[i].from = IF i = 1 THEN b.seed ELSE h[i - 1].to
                 /\ h[i].to \in BookingTransitions[h[i].from]
      <4>1. CASE i = n + 1
        <5>1. n # 0 => h[n] = old[n] /\ i - 1 = n
          BY <2>4, <3>2, <4>1
        <5>2. h[i] = c
          BY <3>2, <4>1
        <5>3. i = 1 <=> n = 0
          BY <2>4, <4>1
        <5>4. QED
          BY <1>4, <3>3, <5>1, <5>2, <5>3
      <4>2. CASE i # n + 1
        <5>1. i \in 1..n /\ h[i] = old[i] /\ (i # 1 => i - 1 \in 1..n /\ h[i - 1] = old[i - 1])
          BY <2>4, <3>2, <4>2
        <5>2. QED
          BY <2>1, <2>4, <5>1
      <4>3. QED
        BY <4>1, <4>2
    <3>7. ASSUME NEW i \in DOMAIN log', log'[i].about = b.id
          PROVE  log'[i] = Event(h[Told(log', i, b.id)].to, b.id)
      <4>1. CASE i = Len(log) + 1
        <5>1. Told(log', i, b.id) = n + 1 /\ log'[i] = e
          BY <1>6, <3>4, <4>1
        <5>2. QED
          BY <1>3, <1>4, <2>7, <3>2, <5>1
      <4>2. CASE i # Len(log) + 1
        <5>1. i \in DOMAIN log /\ log'[i] = log[i]
          BY <1>6, <4>2
        <5>2. Told(log', i, b.id) = Told(log, i, b.id) /\ Told(log, i, b.id) \in 1..n
          BY <2>5, <3>7, <5>1
        <5>3. h[Told(log', i, b.id)] = old[Told(log, i, b.id)]
          BY <3>2, <5>2
        <5>4. QED
          BY <2>1, <3>7, <5>1, <5>3
      <4>3. QED
        BY <4>1, <4>2
    <3>8. QED
      BY <3>1, <3>2, <3>4, <3>5, <3>6, <3>7
  <2>8. QED
    BY <2>6, <2>7
<1>9. TrailRebuildsDesk'
  BY <1>8 DEF TrailRebuildsDesk
<1>10. QED
  BY <1>2, <1>6, <1>7, <1>9 DEF DeskInv

\* Every step of the owner keeps it.
LEMMA DeskKeeps == DeskInv /\ [PortalNext]_porting => DeskInv'
<1> SUFFICES ASSUME DeskInv, [PortalNext]_porting PROVE DeskInv'
  OBVIOUS
<1>1. ASSUME UNCHANGED <<states, past, log, active>> PROVE DeskInv'
  <2>1. TrailRebuildsDesk'
    BY <1>1 DEF DeskInv, TrailRebuildsDesk
  <2>2. QED
    BY <1>1, <2>1 DEF DeskInv
<1>2. ASSUME NEW s \in DeskServices, NEW on \in BOOLEAN, SetServiceActive(s, on) PROVE DeskInv'
  <2>1. UNCHANGED <<states, past, log>>
    BY <1>2 DEF SetServiceActive
  <2>2. TrailRebuildsDesk'
    BY <2>1 DEF DeskInv, TrailRebuildsDesk
  <2>3. DeskServices \ active' \subseteq Scoped(DeskServices)
    BY <1>2 DEF SetServiceActive, Scoped, DeskInv
  <2>4. QED
    BY <2>1, <2>2, <2>3 DEF DeskInv
<1>3. ASSUME NEW to \in {"completed", "cancelled"}, Mark(to) PROVE DeskInv'
  BY <1>3, DeskMarks
<1>4. ASSUME UpdateTenantSettings PROVE DeskInv'
  BY <1>4, DeskEdits
<1>5. ASSUME NEW name, Visit(name) PROVE DeskInv'
  BY <1>1, <1>5 DEF Visit
<1>6. ASSUME NEW tab, ShowTab(tab) PROVE DeskInv'
  BY <1>1, <1>6 DEF ShowTab
<1>7. ASSUME NEW words, Search(words) PROVE DeskInv'
  BY <1>1, <1>7 DEF Search
<1>8. ASSUME NEW b, OpenBooking(b) PROVE DeskInv'
  BY <1>1, <1>8 DEF OpenBooking
<1>9. ASSUME NEW c, OpenCustomer(c) PROVE DeskInv'
  BY <1>1, <1>9 DEF OpenCustomer
<1>10. ASSUME CloseDrawer \/ UNCHANGED porting PROVE DeskInv'
  BY <1>1, <1>10 DEF CloseDrawer, porting
<1>11. QED
  BY <1>2, <1>3, <1>4, <1>5, <1>6, <1>7, <1>8, <1>9, <1>10 DEF PortalNext

Amounts == [b \in DeskBookings |-> b.total]

\* What some bookings are worth is their total.
LEMMA WorthIsTotal ==
  ASSUME NEW S \in SUBSET DeskBookings
  PROVE  Worth(S) = Total(Amounts, S)
<1> DEFINE B(it) == [s \in SUBSET S |->
                       IF s = {} THEN 0 ELSE Chosen(s).total + it[s \ {Chosen(s)}]]
           g == CHOOSE it : it = B(it)
<1>1. Worth(S) = g[S]
  BY DEF Worth, FoldSet, MapThenFoldSet, Chosen
<1>2. \A s \in SUBSET S : s # {} => Chosen(s) \in S
  BY DEF Chosen
<1>3. IsFiniteSet(S) /\ \A b \in S : Amounts[b] \in Int /\ Amounts[b] = b.total
  BY FS_Subset, DeskAssumption DEF Amounts
<1>4. PICK h \in [SUBSET S -> Int] : Sums(Amounts, S, h)
  BY <1>3, SumsExist
<1>5. h = B(h)
  BY <1>2, <1>3, <1>4 DEF Sums
<1>6. g = B(g)
  BY <1>5
<1> HIDE DEF g
<1>7. Sums(Amounts, S, g)
  BY <1>2, <1>3, <1>6 DEF Sums
<1>8. QED
  BY <1>1, <1>3, <1>7, SumIsTotal

\* What the customers are worth, added up.
LEMMA LifetimesTotal ==
  ASSUME \A c \in DeskCustomers : LifetimeValue(c) \in Int
  PROVE  FoldSet(LAMBDA c, sum : LifetimeValue(c) + sum, 0, DeskCustomers)
           = Total([c \in DeskCustomers |-> LifetimeValue(c)], DeskCustomers)
<1> DEFINE S == DeskCustomers
           f == [c \in S |-> LifetimeValue(c)]
           B(it) == [s \in SUBSET S |->
                       IF s = {} THEN 0 ELSE LifetimeValue(Chosen(s)) + it[s \ {Chosen(s)}]]
           g == CHOOSE it : it = B(it)
<1>1. FoldSet(LAMBDA c, sum : LifetimeValue(c) + sum, 0, DeskCustomers) = g[S]
  BY DEF FoldSet, MapThenFoldSet, Chosen
<1>2. \A s \in SUBSET S : s # {} => Chosen(s) \in S
  BY DEF Chosen
<1>3. IsFiniteSet(S) /\ \A c \in S : f[c] \in Int /\ f[c] = LifetimeValue(c)
  BY DeskAssumption
<1> HIDE DEF f
<1>4. PICK h \in [SUBSET S -> Int] : Sums(f, S, h)
  BY <1>3, SumsExist
<1>5. h = B(h)
  BY <1>2, <1>3, <1>4 DEF Sums
<1>6. g = B(g)
  BY <1>5
<1> HIDE DEF g
<1>7. Sums(f, S, g)
  BY <1>2, <1>3, <1>6 DEF Sums
<1>8. g[S] = Total(f, S)
  BY <1>3, <1>7, SumIsTotal
<1>9. QED
  BY <1>1, <1>8 DEF f

\* Every booking that earns is some one customer's.
LEMMA CustomersEarn ==
  FoldSet(LAMBDA c, sum : LifetimeValue(c) + sum, 0, DeskCustomers) = Worth(Earned)
<1> DEFINE p == [c \in DeskCustomers |->
                   {b \in ListCustomerBookings(c) : states[b] \in {"confirmed", "completed"}}]
           v == [c \in DeskCustomers |-> LifetimeValue(c)]
<1>1. Earned \subseteq DeskBookings /\ IsFiniteSet(Earned) /\ IsFiniteSet(DeskCustomers)
  BY DeskAssumption, FS_Subset DEF Earned, Scoped
<1>2. \A b \in Earned : Amounts[b] \in Int
  BY <1>1, DeskAssumption DEF Amounts
<1>3. \A c \in DeskCustomers : p[c] \subseteq Earned
  BY DEF ListCustomerBookings, Earned, Scoped
<1>4. \A c, d \in DeskCustomers : c # d => p[c] \cap p[d] = {}
  BY DeskAssumption DEF ListCustomerBookings
<1>5. UNION {p[c] : c \in DeskCustomers} = Earned
  <2>1. ASSUME NEW b \in Earned PROVE \E c \in DeskCustomers : b \in p[c]
    <3>1. b \in DeskBookings /\ b.tenant = Us /\ states[b] \in {"confirmed", "completed"}
      BY DEF Earned, Scoped
    <3>2. PICK c \in DeskCustomers : c.tenant = Us /\ c.email = b.email
      BY <3>1, DeskAssumption
    <3>3. QED
      BY <3>1, <3>2 DEF ListCustomerBookings, Scoped
  <2> HIDE DEF p
  <2>2. QED
    BY <1>3, <2>1
<1>6. \A c \in DeskCustomers : v[c] = Total(Amounts, p[c])
  <2>1. ASSUME NEW c \in DeskCustomers PROVE LifetimeValue(c) = Total(Amounts, p[c])
    <3>1. p[c] \in SUBSET DeskBookings
      BY <1>1, <1>3
    <3>2. LifetimeValue(c) = Worth(p[c])
      BY DEF LifetimeValue
    <3> HIDE DEF p
    <3>3. QED
      BY <3>1, <3>2, WorthIsTotal
  <2>2. QED
    BY <2>1
<1>7. \A c \in DeskCustomers : LifetimeValue(c) \in Int
  <2>1. ASSUME NEW c \in DeskCustomers PROVE v[c] \in Int
    <3>1. IsFiniteSet(p[c]) /\ \A b \in p[c] : Amounts[b] \in Int
      BY <1>1, <1>2, <1>3, FS_Subset
    <3> HIDE DEF p, v
    <3>2. QED
      BY <1>6, <3>1, TotalInt
  <2>2. QED
    BY <2>1
<1> HIDE DEF p, v
<1>8. Total(v, DeskCustomers) = Total(Amounts, Earned)
  <2>1. Total(v, DeskCustomers) = Total(Amounts, UNION {p[c] : c \in DeskCustomers})
    BY <1>1, <1>2, <1>3, <1>4, <1>6, TotalParts
  <2>2. QED
    BY <1>5, <2>1
<1>9. QED
  BY <1>1, <1>7, <1>8, LifetimesTotal, WorthIsTotal DEF v

\* The pages add up whatever state each booking is in.
LEMMA PagesFollow == DeskInv => PagesAddUp
<1> SUFFICES ASSUME DeskInv PROVE PagesAddUp
  OBVIOUS
<1> DEFINE week == {b \in Scoped(DeskBookings) : states[b] = "confirmed" /\ b.day \in 0..6}
           Count(s) == {b \in Scoped(DeskBookings) : states[b] = s}
<1>1. \A S \in SUBSET DeskBookings : IsFiniteSet(S) /\ Cardinality(S) \in Nat
  BY DeskAssumption, FS_Subset, FS_CardinalityType
<1>2. WeekRevenue <= Worth(Earned)
  <2>1. week \subseteq Earned /\ Earned \subseteq DeskBookings
    BY DEF Earned, Scoped
  <2>2. WeekRevenue = Worth(week)
    BY DEF WeekRevenue
  <2>3. \A b \in Earned : Amounts[b] \in Nat
    BY <2>1, DeskAssumption DEF Amounts
  <2> HIDE DEF week
  <2>4. Total(Amounts, week) <= Total(Amounts, Earned)
    BY <1>1, <2>1, <2>3, TotalPart
  <2>5. Worth(week) = Total(Amounts, week) /\ Worth(Earned) = Total(Amounts, Earned)
    BY <2>1, WorthIsTotal
  <2>6. QED
    BY <2>2, <2>4, <2>5
<1>3. UpcomingRows <= StateCount("confirmed") + StateCount("pending_payment")
  <2> DEFINE a == Count("confirmed")
             p == Count("pending_payment")
  <2>1. Awaited \subseteq a \cup p /\ a \subseteq DeskBookings /\ p \subseteq DeskBookings
        /\ Awaited \subseteq DeskBookings /\ a \cap p = {}
    BY DEF Awaited, Scoped
  <2>2. StateCount("confirmed") = Cardinality(a) /\ StateCount("pending_payment") = Cardinality(p)
    BY DEF StateCount
  <2> HIDE DEF a, p
  <2>3. Cardinality(a \cup p) = Cardinality(a) + Cardinality(p) - Cardinality(a \cap p)
    BY <1>1, <2>1, FS_Union
  <2>4. Cardinality(a \cap p) = 0
    BY <2>1, FS_EmptySet
  <2>5. Cardinality(Awaited) <= Cardinality(a \cup p)
    <3>1. a \cup p \in SUBSET DeskBookings
      BY <2>1
    <3>2. QED
      BY <1>1, <2>1, <3>1, FS_Subset
  <2>6. Cardinality(a) \in Nat /\ Cardinality(p) \in Nat /\ Cardinality(Awaited) \in Nat
        /\ Cardinality(a \cup p) \in Nat
    BY <1>1, <2>1
  <2>7. UpcomingRows <= Cardinality(Awaited)
    BY <2>6, DeskAssumption DEF UpcomingRows
  <2>8. UpcomingRows \in Nat
    BY <2>6, DeskAssumption DEF UpcomingRows
  <2>9. QED
    BY <2>2, <2>3, <2>4, <2>5, <2>6, <2>7, <2>8
<1>4. QED
  BY <1>2, <1>3, CustomersEarn DEF PagesAddUp, DeskInv

\* The log tells every booking's history, and the pages add up to the same money,
\* for any number of tenants, customers and bookings.
THEOREM DeskHolds == PortalSpec => []DeskAgrees
<1>1. DeskInv => DeskAgrees
  BY PagesFollow DEF DeskAgrees, DeskInv
<1>2. QED
  BY <1>1, DeskStarts, DeskKeeps, PTL DEF PortalSpec
=============================================================================
