--------------------------- MODULE DesktopSession ---------------------------
(***************************************************************************)
(* One desktop sign-in, from its authorization code to the end of its      *)
(* session: packages/desktop-auth on PostgreSQL and Redis, with the routes *)
(* desktop/auth/exchange, refresh, logout and heartbeat of the API.        *)
(*                                                                         *)
(* A refresh checks the session, the device proof, the nonce and the       *)
(* device one after the other, and rotates the credentials in one          *)
(* conditional UPDATE at the end.  A refresh token is named by the         *)
(* rotation_version it belongs to.  A signed request may be delivered any  *)
(* number of times.  Credentials that expire, an inactive client and a     *)
(* lapsed entitlement refuse a request as the device does; a refused       *)
(* request changes nothing more.                                           *)
(***************************************************************************)
EXTENDS Naturals

CONSTANTS
  Requests,    \* requests that may be in progress at once
  Proofs,      \* device proofs, each with its own nonce
  Tolerance,   \* deviceProofToleranceSeconds
  NonceTtl,    \* NONCE_TTL_SECONDS
  MaxDelay,    \* longest time from checking a proof to reserving its nonce
  OldCopies,   \* whether a client may present a token it has replaced
  MayLose,     \* whether a request may die, or its answer be lost
  MaxTime, MaxVersion,   \* bounds on the clock and on rotations
  None

ASSUME SessionAssumption ==
  /\ Tolerance \in Nat /\ NonceTtl \in Nat /\ MaxDelay \in Nat
  /\ NonceTtl > 2 * Tolerance + MaxDelay
  /\ OldCopies \in BOOLEAN /\ MayLose \in BOOLEAN
  /\ MaxTime \in Nat /\ MaxVersion \in Nat
  /\ None \notin Proofs

VARIABLES
  now,
  consumed,   \* desktop_auth_codes.consumedAt is set
  created,    \* sessions created from the code
  version,    \* desktop_sessions.rotation_version, and its refresh token
  revoked,    \* desktop_sessions.revokedAt is set
  device,     \* devices.status
  proof,      \* what each proof signs, once it is in sent
  sent,
  reserved,   \* when the nonce of each proof may be used again
  accepted,   \* how often each proof has been accepted
  held,       \* the newest refresh token the client has received
  reused,     \* a rotation has found its token replaced
  died,       \* a request died between that and revoking the session
  op          \* what each request is doing

sessionVars == <<version, revoked>>
codeVars == <<consumed, created>>
clientVars == <<proof, sent, held>>
nonceVars == <<reserved, accepted>>
reuseVars == <<reused, died>>
vars == <<now, consumed, created, version, revoked, device, proof, sent, reserved,
          accepted, held, reused, died, op>>

Idle == [kind |-> "idle", proof |-> None, since |-> 0]

Init ==
  /\ now = 0
  /\ consumed = FALSE /\ created = 0
  /\ version = 0 /\ revoked = FALSE
  /\ device = "active"
  /\ proof = [n \in Proofs |-> [at |-> 0, token |-> 0, use |-> "refresh"]]
  /\ sent = {}
  /\ reserved = [n \in Proofs |-> 0]
  /\ accepted = [n \in Proofs |-> 0]
  /\ held = 0
  /\ reused = FALSE /\ died = FALSE
  /\ op = [p \in Requests |-> Idle]

Goes(p, k) == op' = [op EXCEPT ![p].kind = k]
Returns(p) == op' = [op EXCEPT ![p] = Idle]

-----------------------------------------------------------------------------
(* exchangeAuthCode: validateAuthCodeRecord, then, with everything else in   *)
(* the same transaction, markAuthCodeConsumed.                               *)
ExchangeRead(p) ==
  /\ op[p] = Idle
  /\ ~consumed
  /\ Goes(p, "exchange")
  /\ UNCHANGED <<now, codeVars, sessionVars, device, clientVars, nonceVars, reuseVars>>

NotConsumed == ~consumed

ExchangeCommit(p) ==
  /\ op[p].kind = "exchange"
  /\ IF NotConsumed /\ device # "blocked"
     THEN consumed' = TRUE /\ created' = created + 1
     ELSE UNCHANGED codeVars
  /\ Returns(p)
  /\ UNCHANGED <<now, sessionVars, device, clientVars, nonceVars, reuseVars>>

-----------------------------------------------------------------------------
(* The client signs a request, with a clock of its own.                      *)
Sign(n, t, use) ==
  /\ created > 0 /\ n \notin sent
  /\ sent' = sent \cup {n}
  /\ \E v \in IF OldCopies THEN 0 .. held ELSE {held} :
       proof' = [proof EXCEPT ![n] = [at |-> t, token |-> v, use |-> use]]
  /\ UNCHANGED <<now, codeVars, sessionVars, device, held, nonceVars, reuseVars, op>>

(* assertDeviceProofTimestamp                                                *)
InWindow(n) == proof[n].at <= now + Tolerance /\ now <= proof[n].at + Tolerance

(* A refresh finds the session by its public id, a heartbeat by its access   *)
(* token, which a rotation replaces.                                         *)
FindsSession(n) == proof[n].use = "heartbeat" => proof[n].token = version

(* refreshDesktopSession and heartbeatDesktopSession up to the proof         *)
CheckProof(p, n) ==
  /\ op[p] = Idle
  /\ n \in sent /\ FindsSession(n) /\ ~revoked /\ InWindow(n)
  /\ op' = [op EXCEPT ![p] = [kind |-> "proved", proof |-> n, since |-> now]]
  /\ UNCHANGED <<now, codeVars, sessionVars, device, clientVars, nonceVars, reuseVars>>

EntryLivesOneWindow == now + Tolerance   \* faulty
EntryLives == now + NonceTtl

(* assertFreshNonce: SET NX EX                                               *)
ReserveNonce(p) ==
  LET n == op[p].proof
  IN /\ op[p].kind = "proved"
     /\ IF reserved[n] <= now
        THEN /\ reserved' = [reserved EXCEPT ![n] = EntryLives]
             /\ accepted' = [accepted EXCEPT ![n] = @ + 1]
             /\ IF proof[n].use = "refresh" THEN Goes(p, "fresh") ELSE Returns(p)
        ELSE Returns(p) /\ UNCHANGED nonceVars
     /\ UNCHANGED <<now, codeVars, sessionVars, device, clientVars, reuseVars>>

(* assertDeviceReady                                                         *)
CheckDevice(p) ==
  /\ op[p].kind = "fresh"
  /\ IF device = "active" THEN Goes(p, "ready") ELSE Returns(p)
  /\ UNCHANGED <<now, codeVars, sessionVars, device, clientVars, nonceVars, reuseVars>>

TokenOf(p) == proof[op[p].proof].token

MatchesIfRevoked(p) == TokenOf(p) = version   \* faulty
Matches(p) == TokenOf(p) = version /\ ~revoked

(* rotateSessionCredentials: the UPDATE, and when it finds no row a SELECT   *)
(* of its own.                                                               *)
Rotate(p) ==
  /\ op[p].kind = "ready"
  /\ IF Matches(p)
     THEN version < MaxVersion /\ version' = version + 1 /\ Goes(p, "rotated")
     ELSE UNCHANGED version /\ Goes(p, "missed")
  /\ UNCHANGED <<now, codeVars, revoked, device, clientVars, nonceVars, reuseVars>>

OlderByTwo(p) == ~revoked /\ version > TokenOf(p) + 1   \* faulty
WasReplaced(p) == ~revoked /\ TokenOf(p) # version

LookAgain(p) ==
  /\ op[p].kind = "missed"
  /\ IF WasReplaced(p) THEN Goes(p, "reused") ELSE Returns(p)
  /\ reused' = (reused \/ TokenOf(p) # version)
  /\ UNCHANGED <<now, codeVars, sessionVars, device, clientVars, nonceVars, died>>

(* handleRefreshReuse                                                        *)
RevokeReused(p) ==
  /\ op[p].kind = "reused"
  /\ revoked' = TRUE
  /\ Returns(p)
  /\ UNCHANGED <<now, codeVars, version, device, clientVars, nonceVars, reuseVars>>

(* The route renews the lease after the rotation, and answers with both.     *)
AnswerRefresh(p) ==
  /\ op[p].kind = "rotated"
  /\ held' = IF TokenOf(p) >= held THEN TokenOf(p) + 1 ELSE held
  /\ Returns(p)
  /\ UNCHANGED <<now, codeVars, sessionVars, device, proof, sent, nonceVars, reuseVars>>

(* refreshByDevice throws: the device has no seat, or access has lapsed.     *)
LeaseRefused(p) ==
  /\ op[p].kind = "rotated"
  /\ Returns(p)
  /\ UNCHANGED <<now, codeVars, sessionVars, device, clientVars, nonceVars, reuseVars>>

(* logoutDesktopSession, and revokeSessionsForDevice from removeDevice       *)
Revoke ==
  /\ created > 0 /\ ~revoked
  /\ revoked' = TRUE
  /\ UNCHANGED <<now, codeVars, version, device, clientVars, nonceVars, reuseVars, op>>

(* Licensing: deactivation, reactivation and blocking (see Seats)            *)
DeviceBecomes(s) ==
  /\ device # s
  /\ device' = s
  /\ UNCHANGED <<now, codeVars, sessionVars, clientVars, nonceVars, reuseVars, op>>

Lose(p) ==
  /\ MayLose
  /\ op[p] # Idle
  /\ died' = (died \/ op[p].kind \in {"missed", "reused"})
  /\ Returns(p)
  /\ UNCHANGED <<now, codeVars, sessionVars, device, clientVars, nonceVars, reused>>

Tick ==
  /\ now < MaxTime
  /\ \A p \in Requests : op[p].kind = "proved" => now < op[p].since + MaxDelay
  /\ now' = now + 1
  /\ UNCHANGED <<codeVars, sessionVars, device, clientVars, nonceVars, reuseVars, op>>

Next ==
  \/ \E p \in Requests :
       \/ ExchangeRead(p) \/ ExchangeCommit(p)
       \/ \E n \in Proofs : CheckProof(p, n)
       \/ ReserveNonce(p) \/ CheckDevice(p)
       \/ Rotate(p) \/ LookAgain(p) \/ RevokeReused(p)
       \/ AnswerRefresh(p) \/ LeaseRefused(p) \/ Lose(p)
  \/ \E n \in Proofs, t \in 0 .. MaxTime, use \in {"refresh", "heartbeat"} : Sign(n, t, use)
  \/ Revoke
  \/ \E s \in {"active", "deactivated", "blocked"} : DeviceBecomes(s)
  \/ Tick

Spec == Init /\ [][Next]_vars

-----------------------------------------------------------------------------
Kinds == {"idle", "exchange", "proved", "fresh", "ready", "rotated", "missed", "reused"}

(* Every variable has its type, and a refresh in progress has its proof.     *)
SessionTypeOK ==
  /\ now \in 0 .. MaxTime
  /\ consumed \in BOOLEAN /\ created \in Nat
  /\ version \in 0 .. MaxVersion /\ revoked \in BOOLEAN
  /\ device \in {"active", "deactivated", "blocked"}
  /\ proof \in [Proofs -> [at : 0 .. MaxTime, token : 0 .. MaxVersion,
                           use : {"refresh", "heartbeat"}]]
  /\ sent \subseteq Proofs
  /\ reserved \in [Proofs -> Nat]
  /\ accepted \in [Proofs -> Nat]
  /\ held \in 0 .. MaxVersion
  /\ reused \in BOOLEAN /\ died \in BOOLEAN
  /\ op \in [Requests -> [kind : Kinds, proof : Proofs \cup {None}, since : 0 .. MaxTime]]
  /\ \A p \in Requests : op[p].kind \notin {"idle", "exchange"} => op[p].proof \in Proofs

(* However many exchanges of one code overlap, one session comes of it.      *)
CodeUsedOnce == created = IF consumed THEN 1 ELSE 0

(* A signed request is accepted once, although its timestamp stays valid for *)
(* twice the tolerance and its nonce is forgotten after NonceTtl.            *)
ProofAcceptedOnce == \A n \in Proofs : accepted[n] <= 1

(* What is meant to be used once is: the code, and each signed request.      *)
UsedOnce == CodeUsedOnce /\ ProofAcceptedOnce

Settled == \A p \in Requests : op[p].kind \notin {"missed", "reused"}

(* A replaced refresh token that reaches the rotation costs the session,     *)
(* unless the request died on the way.                                       *)
ReuseRevokes == reused /\ ~died /\ Settled => revoked

(* Once revoked, by logout, removal or reuse, a session stays revoked and    *)
(* its credentials stay as they are, even for a refresh already under way.   *)
RevokedIsFinal == [][revoked => revoked' /\ version' = version]_vars
=============================================================================
