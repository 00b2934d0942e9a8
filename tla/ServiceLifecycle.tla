--------------------------- MODULE ServiceLifecycle ---------------------------
(***************************************************************************)
(* Start and shutdown of the API's two hosts: the local owner harness      *)
(* (mode-owner-local over mode-owner-composition: three pools, two         *)
(* listeners, one bounded close) and the hostable service of main.ts (one  *)
(* pool, one listener, SIGTERM).  OwnerRequests are served meanwhile, each in   *)
(* steps between which the service may start to close.                     *)
(***************************************************************************)
EXTENDS Integers, Sequences, FiniteSets

CONSTANT OwnerRequests

VARIABLES host,            \* which of the two this process is
          stage,           \* composing, starting, up, closing, closed
          pools,           \* made, ended: how far each pool is
          listening,       \* the listeners that accept
          request,         \* per request, where it is and on which listener
          endings          \* what close still waits for
service == <<host, stage, pools, listening, request, endings>>

LocalPools == <<"installations", "sessions", "drafts">>
PoolOf(l) == IF l = "owner" THEN "installations" ELSE "drafts"
Listeners == IF host = "local" THEN {"owner", "draft"} ELSE {"api"}
AllPools == {"installations", "sessions", "drafts"}
Underway == {"connected", "admitted", "calling"}
On(l) == {r \in OwnerRequests : request[r].on = l /\ request[r].at \in Underway}
Closing == stage \in {"closing", "closed"}

ServiceInit ==
  /\ host \in {"local", "hosted"}
  /\ stage = "composing"
  /\ pools = [p \in AllPools |-> "none"]
  /\ listening = {} /\ endings = {}
  /\ request = [r \in OwnerRequests |-> [at |-> "none", on |-> "none"]]

Ending == [p \in AllPools |-> IF pools[p] = "open" THEN "ending" ELSE pools[p]]

\* __createModeOwnerCompositionForTests makes its pools in order, main only one;
\* a factory that throws has the pools made before it ended.
MakePools ==
  /\ stage = "composing"
  /\ \E p \in AllPools :
       /\ pools[p] = "none"
       /\ IF host = "hosted" THEN p = "drafts"
          ELSE \E i \in 1..3 : LocalPools[i] = p /\ \A j \in 1..(i - 1) : pools[LocalPools[j]] = "open"
       /\ pools' = [pools EXCEPT ![p] = "open"]
       /\ stage' = IF p = "drafts" THEN "starting" ELSE "composing"
  /\ UNCHANGED <<host, listening, request, endings>>
CompositionFails ==
  /\ stage = "composing" /\ stage' = "closed"
  /\ pools' = Ending
  /\ UNCHANGED <<host, listening, request, endings>>

\* listen: the owner's first, then the drafts'.
Listen(l) ==
  /\ stage = "starting" /\ l \in Listeners \ listening
  /\ l = "draft" => "owner" \in listening
  /\ listening' = listening \cup {l}
  /\ stage' = IF listening' = Listeners THEN "up" ELSE "starting"
  /\ UNCHANGED <<host, pools, request, endings>>

\* close: a listen that failed, a listener's error, the caller, or a signal.  The
\* local host stops the owner's requests, turns new ones away and ends its pools
\* at once; the hosted one waits for its connections first.
Close ==
  /\ stage \in {"starting", "up"} /\ stage' = "closing"
  /\ listening' = {}
  /\ IF host = "local"
     THEN /\ pools' = Ending /\ endings' = Listeners \cup {"composition"}
          /\ request' = [r \in OwnerRequests |-> IF r \in On("owner")
                           THEN [request[r] EXCEPT !.at = "withheld"] ELSE request[r]]
     ELSE endings' = Listeners /\ UNCHANGED <<pools, request>>
  /\ UNCHANGED host

Moves(r, at) == request' = [request EXCEPT ![r].at = at]
Connect(r, l) ==
  /\ request[r].at = "none" /\ l \in listening
  /\ request' = [request EXCEPT ![r] = [at |-> "connected", on |-> l]]
  /\ UNCHANGED <<host, stage, pools, listening, endings>>
\* authenticateOwner answers nobody once the composition is closed.
Admit(r) ==
  /\ request[r].at = "connected"
  /\ Moves(r, IF host = "local" /\ Closing THEN "refused" ELSE "admitted")
  /\ UNCHANGED <<host, stage, pools, listening, endings>>
\* The body is read, then the repository called: closed is looked at again.
CompositionOpen == host = "hosted" \/ ~Closing
CallRepository(r) ==
  /\ request[r].at = "admitted"
  /\ Moves(r, IF CompositionOpen THEN "calling" ELSE "refused")
  /\ UNCHANGED <<host, stage, pools, listening, endings>>
Answer(r) ==
  /\ request[r].at = "calling" /\ Moves(r, "answered")
  /\ UNCHANGED <<host, stage, pools, listening, endings>>

\* pool.end waits for the calls that hold a connection.
PoolEnds(p) ==
  /\ pools[p] = "ending"
  /\ ~\E r \in OwnerRequests : request[r].at = "calling" /\ PoolOf(request[r].on) = p
  /\ pools' = [pools EXCEPT ![p] = "ended"]
  /\ UNCHANGED <<host, stage, listening, request, endings>>
\* server.close calls back when its last connection is gone.
ServerEnds(l) ==
  /\ l \in endings /\ stage = "closing" /\ On(l) = {}
  /\ endings' = endings \ {l}
  /\ pools' = IF host = "hosted" THEN Ending ELSE pools
  /\ UNCHANGED <<host, stage, listening, request>>
CompositionEnds ==
  /\ "composition" \in endings /\ stage = "closing"
  /\ \A p \in AllPools : pools[p] \in {"none", "ended"}
  /\ endings' = endings \ {"composition"}
  /\ UNCHANGED <<host, stage, pools, listening, request>>

\* finish, or process.exit: when all has ended, or after 10 seconds with what is
\* left cut off.
Stopped == endings = {} /\ (host = "hosted" => pools["drafts"] = "ended")
FinishClose ==
  /\ stage = "closing" /\ stage' = "closed"
  /\ request' = [r \in OwnerRequests |-> IF request[r].at \in Underway
                   THEN [request[r] EXCEPT !.at = "cut"] ELSE request[r]]
  /\ endings' = {}
  /\ UNCHANGED <<host, pools, listening>>
AllEnded == Stopped /\ FinishClose
Deadline == ~Stopped /\ FinishClose

ServiceNext ==
  \/ MakePools \/ CompositionFails \/ Close \/ CompositionEnds \/ AllEnded \/ Deadline
  \/ \E l \in {"owner", "draft", "api"} : Listen(l) \/ ServerEnds(l)
  \/ \E p \in AllPools : PoolEnds(p)
  \/ \E r \in OwnerRequests :
       \/ \E l \in {"owner", "draft", "api"} : Connect(r, l)
       \/ Admit(r) \/ CallRepository(r) \/ Answer(r)

ServiceSpec == ServiceInit /\ [][ServiceNext]_service
-----------------------------------------------------------------------------
\* Closing is clean: no step begins a call on a pool that is ending, also not for
\* a request admitted before the close; a draining hosted service never ends the
\* pool under a request; a request is cut off only by the deadline; and once close
\* has resolved nothing listens, no connection is left, and every pool that was
\* made was told to end (the hosted process may exit before its pool).
CloseIsClean ==
  [][/\ \A r \in OwnerRequests :
          /\ request'[r].at = "calling" /\ request[r].at = "admitted" => pools[PoolOf(request[r].on)] = "open"
          /\ request'[r].at = "cut" /\ request[r].at # "cut" => ~Stopped
     /\ host = "hosted" /\ pools'["drafts"] = "ended" => On("api") = {}
     /\ stage' = "closed" =>
          /\ listening' = {}
          /\ \A r \in OwnerRequests : request'[r].at \notin Underway
          /\ host = "local" => \A p \in AllPools : pools'[p] # "open"]_service
=============================================================================
