---------------------------- MODULE Integrations ----------------------------
(***************************************************************************)
(* Connecting a tenant to an external calendar (packages/integrations):    *)
(* the signed one-time state of an OAuth flow (oauth.ts), the connection   *)
(* row and its moves (connection.ts) and the vault of tokens.  A callback  *)
(* may come late, twice, with another flow's state or for another tenant.  *)
(* The signature is taken to be unforgeable: a token that verifies is one  *)
(* beginOAuth made.                                                        *)
(***************************************************************************)
EXTENDS Integers, FiniteSets

CONSTANTS
  Tenants,
  Nonces,      \* a state token is known by its nonce
  Ttl,         \* DEFAULT_TTL_SECONDS, in clock units
  MaxTime      \* bound on the clock

ASSUME OAuthAssumption == Ttl \in Nat /\ MaxTime \in Nat

VARIABLES
  time,
  begun,       \* the payload of each state token handed out
  consumed,    \* the NonceStore
  flow,        \* OAuthConnectionState of each tenant's flow
  accepted,    \* the callbacks verified, for the properties only
  link,        \* the connection row of each tenant
  vault        \* the tenants the TokenVault holds tokens for

linking == <<time, begun, consumed, flow, accepted, link, vault>>

\* OAUTH_TRANSITIONS and STATUS_TRANSITIONS
OAuthMoves ==
  [not_connected     |-> {"authorizing"},
   authorizing       |-> {"callback_received", "error", "not_connected"},
   callback_received |-> {"connected", "error"},
   connected         |-> {"revoked", "error", "authorizing"},
   error             |-> {"authorizing", "not_connected"},
   revoked           |-> {"authorizing", "not_connected"}]
StatusMoves ==
  [not_connected |-> {"connected", "error"},
   connected     |-> {"revoked", "error", "not_connected"},
   error         |-> {"connected", "not_connected", "revoked"},
   revoked       |-> {"connected", "not_connected"}]
CanTransitionOAuth(from, to) == to \in OAuthMoves[from]
CanTransitionStatus(from, to) == from = to \/ to \in StatusMoves[from]

NoToken == [tid |-> "none"]
\* The state token's payload; decodeAndVerifyState accepts one that was signed.
StatePayload(t) == [tid |-> t, exp |-> time + Ttl]
Verifies(n) == begun[n] # NoToken
Verdicts == {"state_mismatch", "expired", "tenant_mismatch", "replayed", "ok"}

LinkInit ==
  /\ time = 0
  /\ begun = [n \in Nonces |-> NoToken]
  /\ consumed = {}
  /\ flow = [t \in Tenants |-> "not_connected"]
  /\ accepted = {}
  /\ link = [t \in Tenants |-> "not_connected"]
  /\ vault = {}

\* beginOAuth answers "authorizing"; the caller keeps that state where the
\* table of moves allows it.
BeginOAuth(t, n) ==
  /\ ~Verifies(n)
  /\ CanTransitionOAuth(flow[t], "authorizing")
  /\ begun' = [begun EXCEPT ![n] = StatePayload(t)]
  /\ flow' = [flow EXCEPT ![t] = "authorizing"]
  /\ UNCHANGED <<time, consumed, accepted, link, vault>>

\* As if a token lived through the instant it expires at.
Mutant_LivesToItsEnd(n, r, t) ==
  IF r # n THEN "state_mismatch"
  ELSE IF time > begun[n].exp THEN "expired"
  ELSE IF begun[n].tid # t THEN "tenant_mismatch"
  ELSE IF n \in consumed THEN "replayed"
  ELSE "ok"

\* The checks of verifyCallback, in their order: n is the persisted token, r
\* the one that came back, t the tenant of the callback's context.
Verdict(n, r, t) ==
  IF r # n THEN "state_mismatch"
  ELSE IF time >= begun[n].exp THEN "expired"
  ELSE IF begun[n].tid # t THEN "tenant_mismatch"
  ELSE IF n \in consumed THEN "replayed"
  ELSE "ok"

\* Only the last check consumes the nonce.
Consume(n) == consumed' = consumed \cup {n}
VerifyCallback(n, r, t) ==
  /\ Verifies(n)
  /\ Verdict(n, r, t) = "ok"
  /\ Consume(n)
  /\ accepted' = accepted \cup {[nonce |-> n, for |-> t, at |-> time,
                                 again |-> n \in {a.nonce : a \in accepted}]}
  /\ flow' = [flow EXCEPT ![t] =
       IF CanTransitionOAuth(@, "callback_received") THEN "callback_received" ELSE @]
  /\ UNCHANGED <<time, begun, link, vault>>

\* The code is exchanged for tokens: they are kept and the row is connected.
SaveTokens(t) == vault' = vault \cup {t}
DeleteTokens(t) == vault' = vault \ {t}

ConnectConnection(t) ==
  /\ flow[t] = "callback_received"
  /\ SaveTokens(t)
  /\ link' = [link EXCEPT ![t] = "connected"]
  /\ flow' = [flow EXCEPT ![t] = "connected"]
  /\ UNCHANGED <<time, begun, consumed, accepted>>

\* The owner disconnects; the tokens leave the vault.
DisconnectConnection(t) ==
  /\ link[t] = "connected"
  /\ DeleteTokens(t)
  /\ link' = [link EXCEPT ![t] = "not_connected"]
  /\ UNCHANGED <<time, begun, consumed, flow, accepted>>

\* The provider or the owner revokes access, whatever the row says.
RevokeConnection(t) ==
  /\ link' = [link EXCEPT ![t] = "revoked"]
  /\ flow' = [flow EXCEPT ![t] =
       IF CanTransitionOAuth(@, "revoked") THEN "revoked" ELSE @]
  /\ UNCHANGED <<time, begun, consumed, accepted, vault>>

\* The exchange, a synchronisation or a delivery failed.
MarkConnectionError(t) ==
  /\ link' = [link EXCEPT ![t] = "error"]
  /\ flow' = [flow EXCEPT ![t] = IF CanTransitionOAuth(@, "error") THEN "error" ELSE @]
  /\ UNCHANGED <<time, begun, consumed, accepted, vault>>

TimePasses ==
  /\ time < MaxTime
  /\ time' = time + 1
  /\ UNCHANGED <<begun, consumed, flow, accepted, link, vault>>

LinkNext ==
  \/ \E t \in Tenants, n \in Nonces : BeginOAuth(t, n)
  \/ \E n, r \in Nonces, t \in Tenants : VerifyCallback(n, r, t)
  \/ \E t \in Tenants :
       \/ ConnectConnection(t) \/ DisconnectConnection(t)
       \/ RevokeConnection(t) \/ MarkConnectionError(t)
  \/ TimePasses

LinkSpec == LinkInit /\ [][LinkNext]_linking

-----------------------------------------------------------------------------
LinkTypeOK ==
  /\ time \in 0 .. MaxTime
  /\ begun \in [Nonces -> {NoToken} \cup [tid : Tenants, exp : Nat]]
  /\ consumed \subseteq Nonces
  /\ flow \in [Tenants -> DOMAIN OAuthMoves]
  /\ link \in [Tenants -> DOMAIN StatusMoves]
  /\ vault \subseteq Tenants

\* A callback is accepted once, for the tenant that began the flow, before its
\* token expires; and a callback that is refused, for whatever reason, leaves
\* the nonce for the genuine one that may still come.
CallbackOnce ==
  /\ consumed = {a.nonce : a \in accepted}
  /\ \A a \in accepted : /\ begun[a.nonce].tid = a.for
                         /\ a.at < begun[a.nonce].exp
                         /\ ~a.again
  /\ \A a, b \in accepted : a.nonce = b.nonce => a = b
=============================================================================
