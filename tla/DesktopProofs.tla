---------------------------- MODULE DesktopProofs ----------------------------
(***************************************************************************)
(* What desktop applications are trusted with.                             *)
(*                                                                         *)
(* DesktopSession: one session per code, one use of a signed request, no   *)
(* life after revocation, and revocation after reuse, for any number of    *)
(* requests and signed proofs, and any tolerance, nonce lifetime and delay *)
(* that the assumption relates.                                            *)
(*                                                                         *)
(* DesktopUpdates, which shares no state with it: where updates lead to,   *)
(* and how long tickets give access, for any catalogue, applications and   *)
(* lifetimes that its assumption relates.                                  *)
(***************************************************************************)
EXTENDS DesktopSession, DesktopUpdates, TLAPS

-----------------------------------------------------------------------------
(* Types.                                                                    *)

LEMMA SessionTypeInit == Init => SessionTypeOK
<1> SUFFICES ASSUME Init PROVE SessionTypeOK
  OBVIOUS
<1>1. Idle \in [kind : Kinds, proof : Proofs \cup {None}, since : 0 .. MaxTime]
  BY SessionAssumption DEF Idle, Kinds
<1>2. op = [p \in Requests |-> Idle] /\ Idle.kind = "idle"
  BY DEF Init, Idle
<1>3. consumed \in BOOLEAN /\ revoked \in BOOLEAN /\ reused \in BOOLEAN /\ died \in BOOLEAN
  BY DEF Init
<1>4. now \in 0 .. MaxTime /\ created \in Nat /\ version \in 0 .. MaxVersion
        /\ held \in 0 .. MaxVersion
  BY SessionAssumption DEF Init
<1>5. proof \in [Proofs -> [at : 0 .. MaxTime, token : 0 .. MaxVersion,
        use : {"refresh", "heartbeat"}]]
  BY SessionAssumption DEF Init
<1> QED
  BY <1>1, <1>2, <1>3, <1>4, <1>5 DEF Init, SessionTypeOK

LEMMA GoesTypes ==
  ASSUME SessionTypeOK, NEW p \in Requests, NEW k \in Kinds, Goes(p, k),
         op[p].proof \in Proofs \/ k = "exchange"
  PROVE  /\ op' \in [Requests -> [kind : Kinds, proof : Proofs \cup {None}, since : 0 .. MaxTime]]
         /\ \A q \in Requests : op'[q].kind \notin {"idle", "exchange"} => op'[q].proof \in Proofs
BY DEF Goes, SessionTypeOK

LEMMA ReturnsTypes ==
  ASSUME SessionTypeOK, NEW p \in Requests, Returns(p)
  PROVE  /\ op' \in [Requests -> [kind : Kinds, proof : Proofs \cup {None}, since : 0 .. MaxTime]]
         /\ \A q \in Requests : op'[q].kind \notin {"idle", "exchange"} => op'[q].proof \in Proofs
<1>1. Idle \in [kind : Kinds, proof : Proofs \cup {None}, since : 0 .. MaxTime]
  BY SessionAssumption DEF Idle, Kinds
<1>2. Idle.kind = "idle"
  BY DEF Idle
<1> QED
  BY <1>1, <1>2 DEF Returns, SessionTypeOK

(* A request works on a proof that was sent, and its rotation is in the      *)
(* session's row before it answers.                                          *)
InProgress ==
  \A p \in Requests :
    /\ op[p].kind \notin {"idle", "exchange"} => op[p].proof \in sent
    /\ op[p].kind = "rotated" => TokenOf(p) < version

LEMMA SessionTypeStep == SessionTypeOK /\ InProgress /\ [Next]_vars => SessionTypeOK'
<1> SUFFICES ASSUME SessionTypeOK, InProgress, [Next]_vars PROVE SessionTypeOK'
  OBVIOUS
<1> USE DEF codeVars, sessionVars, clientVars, nonceVars, reuseVars
<1>1. CASE UNCHANGED vars
  BY <1>1 DEF vars, SessionTypeOK
<1>2. ASSUME NEW p \in Requests, ExchangeRead(p) PROVE SessionTypeOK'
  <2>1. Goes(p, "exchange") /\ "exchange" \in Kinds
    BY <1>2 DEF ExchangeRead, Kinds
  <2> QED
    BY <1>2, <2>1, GoesTypes DEF ExchangeRead, SessionTypeOK
<1>3. ASSUME NEW p \in Requests, ExchangeCommit(p) PROVE SessionTypeOK'
  <2>1. created' \in Nat
    BY <1>3 DEF ExchangeCommit, SessionTypeOK
  <2>2. consumed' \in BOOLEAN
    BY <1>3 DEF ExchangeCommit, SessionTypeOK
  <2> QED
    BY <1>3, <2>1, <2>2, ReturnsTypes DEF ExchangeCommit, SessionTypeOK
<1>4. ASSUME NEW n \in Proofs, NEW t \in 0 .. MaxTime, NEW use \in {"refresh", "heartbeat"},
             Sign(n, t, use)
      PROVE  SessionTypeOK'
  <2>1. PICK v \in 0 .. MaxVersion :
          proof' = [proof EXCEPT ![n] = [at |-> t, token |-> v, use |-> use]]
    <3>1. 0 .. held \subseteq 0 .. MaxVersion /\ held \in 0 .. MaxVersion
      BY SessionAssumption DEF SessionTypeOK
    <3> QED
      BY <1>4, <3>1 DEF Sign
  <2> QED
    BY <1>4, <2>1 DEF Sign, SessionTypeOK
<1>5. ASSUME NEW p \in Requests, NEW n \in Proofs, CheckProof(p, n) PROVE SessionTypeOK'
  <2>1. [kind |-> "proved", proof |-> n, since |-> now]
          \in [kind : Kinds, proof : Proofs \cup {None}, since : 0 .. MaxTime]
    BY DEF SessionTypeOK, Kinds
  <2> QED
    BY <1>5, <2>1 DEF CheckProof, SessionTypeOK
<1>6. ASSUME NEW p \in Requests, ReserveNonce(p) PROVE SessionTypeOK'
  <2>1. op[p].proof \in Proofs
    BY <1>6 DEF ReserveNonce, SessionTypeOK
  <2>2. reserved' \in [Proofs -> Nat] /\ accepted' \in [Proofs -> Nat]
    <3>1. now + NonceTtl \in Nat /\ accepted[op[p].proof] + 1 \in Nat
      BY <2>1, SessionAssumption DEF SessionTypeOK
    <3> QED
      BY <1>6, <2>1, <3>1 DEF ReserveNonce, EntryLives, SessionTypeOK
  <2>3. Goes(p, "fresh") \/ Returns(p)
    BY <1>6 DEF ReserveNonce
  <2>4. "fresh" \in Kinds
    BY DEF Kinds
  <2> QED
    BY <1>6, <2>1, <2>2, <2>3, <2>4, GoesTypes, ReturnsTypes DEF ReserveNonce, SessionTypeOK
<1>7. ASSUME NEW p \in Requests,
             CheckDevice(p) \/ Rotate(p) \/ LookAgain(p) \/ RevokeReused(p) \/ AnswerRefresh(p)
               \/ LeaseRefused(p) \/ Lose(p)
      PROVE  SessionTypeOK'
  <2>1. Returns(p) \/ (op[p].proof \in Proofs /\ \E k \in Kinds : Goes(p, k))
    BY <1>7
    DEF CheckDevice, Rotate, LookAgain, RevokeReused, AnswerRefresh, LeaseRefused, Lose,
        SessionTypeOK, Kinds
  <2>2. /\ op' \in [Requests -> [kind : Kinds, proof : Proofs \cup {None}, since : 0 .. MaxTime]]
        /\ \A q \in Requests : op'[q].kind \notin {"idle", "exchange"} => op'[q].proof \in Proofs
    BY <2>1, GoesTypes, ReturnsTypes
  <2>3. version' \in 0 .. MaxVersion
    <3>1. CASE Rotate(p)
      <4>1. version' = version \/ (version < MaxVersion /\ version' = version + 1)
        BY <3>1 DEF Rotate
      <4> QED
        BY <4>1, SessionAssumption DEF SessionTypeOK
    <3> QED
      BY <1>7, <3>1
      DEF CheckDevice, LookAgain, RevokeReused, AnswerRefresh, LeaseRefused, Lose, SessionTypeOK
  <2>4. held' \in 0 .. MaxVersion
    <3>1. CASE AnswerRefresh(p)
      <4>1. op[p].kind = "rotated" /\ op[p].proof \in Proofs
        BY <3>1 DEF AnswerRefresh, SessionTypeOK
      <4>2. TokenOf(p) \in Nat /\ TokenOf(p) < version /\ version \in 0 .. MaxVersion
        BY <4>1 DEF InProgress, TokenOf, SessionTypeOK
      <4>3. held' = held \/ held' = TokenOf(p) + 1
        BY <3>1 DEF AnswerRefresh
      <4> QED
        BY <4>2, <4>3, SessionAssumption DEF SessionTypeOK
    <3> QED
      BY <1>7, <3>1
      DEF CheckDevice, Rotate, LookAgain, RevokeReused, LeaseRefused, Lose, SessionTypeOK
  <2>5. revoked' \in BOOLEAN /\ reused' \in BOOLEAN /\ died' \in BOOLEAN
    BY <1>7
    DEF CheckDevice, Rotate, LookAgain, RevokeReused, AnswerRefresh, LeaseRefused, Lose,
      SessionTypeOK
  <2>6. UNCHANGED <<now, codeVars, device, proof, sent, nonceVars>>
    BY <1>7 DEF CheckDevice, Rotate, LookAgain, RevokeReused, AnswerRefresh, LeaseRefused, Lose
  <2> QED
    BY <2>2, <2>3, <2>4, <2>5, <2>6 DEF SessionTypeOK
<1>8. CASE Revoke \/ \E s \in {"active", "deactivated", "blocked"} : DeviceBecomes(s)
  BY <1>8 DEF Revoke, DeviceBecomes, SessionTypeOK
<1>9. CASE Tick
  <2>1. now' \in 0 .. MaxTime
    BY <1>9, SessionAssumption DEF Tick, SessionTypeOK
  <2> QED
    BY <1>9, <2>1 DEF Tick, SessionTypeOK
<1> QED
  BY <1>1, <1>2, <1>3, <1>4, <1>5, <1>6, <1>7, <1>8, <1>9 DEF Next

LEMMA InProgressStep == SessionTypeOK /\ InProgress /\ [Next]_vars => InProgress'
<1> SUFFICES ASSUME SessionTypeOK, InProgress, [Next]_vars PROVE InProgress'
  OBVIOUS
<1> USE DEF codeVars, sessionVars, clientVars, nonceVars, reuseVars
<1>1. Idle.kind = "idle"
  BY DEF Idle
<1>2. ASSUME UNCHANGED <<op, version, proof, sent>> PROVE InProgress'
  BY <1>2 DEF InProgress, TokenOf
<1>3. ASSUME NEW p \in Requests, Returns(p), UNCHANGED <<version, proof, sent>> PROVE InProgress'
  BY <1>1, <1>3 DEF Returns, InProgress, TokenOf, SessionTypeOK
<1>4. ASSUME NEW p \in Requests, NEW k \in Kinds, Goes(p, k), UNCHANGED <<proof, sent>>,
             op[p].proof \in sent \/ k = "exchange", version' \in Nat, version <= version',
             k = "rotated" => TokenOf(p) < version'
      PROVE  InProgress'
  <2>1. \A q \in Requests : /\ op'[q].proof = op[q].proof
                            /\ op'[q].kind = IF q = p THEN k ELSE op[q].kind
    BY <1>4 DEF Goes, SessionTypeOK
  <2>2. \A q \in Requests : op'[q].kind \notin {"idle", "exchange"} => op'[q].proof \in sent'
    BY <1>4, <2>1 DEF InProgress
  <2>3. ASSUME NEW q \in Requests, op'[q].kind = "rotated" PROVE TokenOf(q)' < version'
    <3>1. TokenOf(q)' = TokenOf(q)
      BY <1>4, <2>1 DEF TokenOf
    <3>2. CASE q = p
      BY <1>4, <2>1, <2>3, <3>1, <3>2
    <3>3. CASE q # p
      <4>1. op[q].kind = "rotated" /\ op[q].proof \in Proofs
        BY <2>1, <2>3, <3>3 DEF SessionTypeOK
      <4>2. TokenOf(q) < version /\ TokenOf(q) \in Nat /\ version \in Nat
        BY <4>1 DEF InProgress, TokenOf, SessionTypeOK
      <4> QED
        BY <1>4, <3>1, <4>2
    <3> QED
      BY <3>2, <3>3
  <2> QED
    BY <2>2, <2>3 DEF InProgress
<1>5. version \in Nat
  BY DEF SessionTypeOK
<1>6. CASE UNCHANGED vars \/ Revoke \/ Tick \/ \E s \in {"active", "deactivated", "blocked"} :
             DeviceBecomes(s)
  BY <1>2, <1>6 DEF vars, Revoke, Tick, DeviceBecomes
<1>7. ASSUME NEW p \in Requests, ExchangeRead(p) PROVE InProgress'
  BY <1>4, <1>5, <1>7 DEF ExchangeRead, Kinds
<1>8. ASSUME NEW p \in Requests,
             ExchangeCommit(p) \/ RevokeReused(p) \/ AnswerRefresh(p) \/ LeaseRefused(p) \/ Lose(p)
      PROVE  InProgress'
  BY <1>3, <1>8 DEF ExchangeCommit, RevokeReused, AnswerRefresh, LeaseRefused, Lose
<1>9. ASSUME NEW n \in Proofs, NEW t \in 0 .. MaxTime, NEW use \in {"refresh", "heartbeat"},
             Sign(n, t, use)
      PROVE  InProgress'
  <2>1. sent' = sent \cup {n} /\ n \notin sent /\ UNCHANGED <<op, version>>
        /\ \A m \in Proofs \ {n} : proof'[m] = proof[m]
    BY <1>9 DEF Sign, SessionTypeOK
  <2>2. \A q \in Requests : op[q].kind \notin {"idle", "exchange"} =>
          op[q].proof \in Proofs \ {n} /\ op[q].proof \in sent
    BY <2>1 DEF InProgress, SessionTypeOK
  <2> QED
    BY <2>1, <2>2 DEF InProgress, TokenOf
<1>10. ASSUME NEW p \in Requests, NEW n \in Proofs, CheckProof(p, n) PROVE InProgress'
  <2>1. /\ op'[p].kind = "proved" /\ op'[p].proof = n /\ n \in sent
        /\ \A q \in Requests \ {p} : op'[q] = op[q]
        /\ UNCHANGED <<version, proof, sent>>
    BY <1>10 DEF CheckProof, SessionTypeOK
  <2> QED
    BY <2>1 DEF InProgress, TokenOf
<1>11. ASSUME NEW p \in Requests,
              ReserveNonce(p) \/ CheckDevice(p) \/ LookAgain(p)
       PROVE  InProgress'
  <2>1. op[p].proof \in sent /\ UNCHANGED <<version, proof, sent>>
    BY <1>11 DEF ReserveNonce, CheckDevice, LookAgain, InProgress
  <2>2. Returns(p) \/ \E k \in {"fresh", "ready", "reused"} : Goes(p, k)
    BY <1>11 DEF ReserveNonce, CheckDevice, LookAgain
  <2> QED
    BY <1>3, <1>4, <1>5, <2>1, <2>2 DEF Kinds
<1>12. ASSUME NEW p \in Requests, Rotate(p) PROVE InProgress'
  <2>1. op[p].proof \in sent /\ op[p].proof \in Proofs /\ UNCHANGED <<proof, sent>>
    BY <1>12 DEF Rotate, InProgress, SessionTypeOK
  <2>2. CASE Matches(p)
    <3>1. version' = version + 1 /\ Goes(p, "rotated") /\ TokenOf(p) = version
      BY <1>12, <2>2 DEF Rotate, Matches
    <3> QED
      BY <1>4, <1>5, <2>1, <3>1 DEF Kinds
  <2>3. CASE ~Matches(p)
    BY <1>4, <1>5, <1>12, <2>1, <2>3 DEF Rotate, Kinds
  <2> QED
    BY <2>2, <2>3
<1> QED
  BY <1>6, <1>7, <1>8, <1>9, <1>10, <1>11, <1>12 DEF Next

LEMMA InProgressInit == Init => InProgress
<1> SUFFICES ASSUME Init PROVE InProgress
  OBVIOUS
<1>1. \A p \in Requests : op[p].kind = "idle"
  BY DEF Init, Idle
<1> QED
  BY <1>1 DEF InProgress

(* Every variable of the sign-in keeps its type.                             *)
THEOREM SessionTypeCorrect == Spec => []SessionTypeOK
BY SessionTypeInit, SessionTypeStep, InProgressInit, InProgressStep, PTL DEF Spec

LEMMA ProgressHolds == Spec => [](SessionTypeOK /\ InProgress)
BY SessionTypeInit, SessionTypeStep, InProgressInit, InProgressStep, PTL DEF Spec

-----------------------------------------------------------------------------
(* The code.                                                                 *)

LEMMA CodeStep == SessionTypeOK /\ CodeUsedOnce /\ [Next]_vars => CodeUsedOnce'
<1> SUFFICES ASSUME SessionTypeOK, CodeUsedOnce, [Next]_vars PROVE CodeUsedOnce'
  OBVIOUS
<1> USE DEF codeVars
<1>1. CASE UNCHANGED codeVars
  BY <1>1 DEF CodeUsedOnce
<1>2. ASSUME NEW p \in Requests, ExchangeCommit(p) PROVE CodeUsedOnce'
  BY <1>2 DEF ExchangeCommit, NotConsumed, CodeUsedOnce
<1>3. CASE UNCHANGED vars
  BY <1>1, <1>3 DEF vars
<1>4. ASSUME NEW p \in Requests,
             \/ ExchangeRead(p) \/ ReserveNonce(p) \/ CheckDevice(p) \/ Rotate(p)
             \/ LookAgain(p) \/ RevokeReused(p) \/ AnswerRefresh(p) \/ LeaseRefused(p)
             \/ Lose(p) \/ \E n \in Proofs : CheckProof(p, n)
      PROVE  UNCHANGED codeVars
  BY <1>4
  DEF ExchangeRead, CheckProof, ReserveNonce, CheckDevice, Rotate, LookAgain, RevokeReused,
      AnswerRefresh, LeaseRefused, Lose
<1> QED
  BY <1>1, <1>2, <1>3, <1>4 DEF Next, Sign, Revoke, DeviceBecomes, Tick

(* exchangeAuthCode validates the code before the transaction that consumes  *)
(* it: one session comes of it, however many exchanges overlap.              *)
THEOREM CodeMakesOneSession == Spec => []CodeUsedOnce
<1>1. Init => CodeUsedOnce
  BY DEF Init, CodeUsedOnce
<1> QED
  BY <1>1, SessionTypeCorrect, CodeStep, PTL DEF Spec

(* A refresh or a reuse that was under way when the session was revoked      *)
(* neither rotates its credentials nor brings it back.                       *)
THEOREM RevocationIsFinal == Spec => RevokedIsFinal
<1>1. [Next]_vars => (revoked => revoked' /\ version' = version)
  <2> SUFFICES ASSUME [Next]_vars, revoked PROVE revoked' /\ version' = version
    OBVIOUS
  <2> USE DEF sessionVars
  <2>1. CASE UNCHANGED sessionVars
    BY <2>1
  <2>2. ASSUME NEW p \in Requests,
               \/ ExchangeRead(p) \/ ExchangeCommit(p) \/ ReserveNonce(p) \/ CheckDevice(p)
               \/ LookAgain(p) \/ AnswerRefresh(p) \/ LeaseRefused(p) \/ Lose(p)
               \/ \E n \in Proofs : CheckProof(p, n)
        PROVE  UNCHANGED sessionVars
    BY <2>2
    DEF ExchangeRead, ExchangeCommit, CheckProof, ReserveNonce, CheckDevice, LookAgain,
        AnswerRefresh, LeaseRefused, Lose
  <2>3. ASSUME NEW p \in Requests, Rotate(p) \/ RevokeReused(p)
        PROVE  revoked' /\ version' = version
    BY <2>3 DEF Rotate, Matches, RevokeReused
  <2> QED
    BY <2>1, <2>2, <2>3 DEF Next, vars, Sign, Revoke, DeviceBecomes, Tick
<1> QED
  BY <1>1, PTL DEF Spec, RevokedIsFinal

-----------------------------------------------------------------------------
(* The nonce.                                                                *)

(* A proof that was checked was in its window then, and its nonce is being   *)
(* reserved soon after; once it is reserved, the entry outlives the window   *)
(* by as much as a check may take to get there.                              *)
CheckedInTime ==
  \A p \in Requests : op[p].kind = "proved" =>
    /\ now <= op[p].since + MaxDelay
    /\ op[p].since <= now
    /\ op[p].since <= proof[op[p].proof].at + Tolerance
    /\ proof[op[p].proof].at <= op[p].since + Tolerance

EntryOutlivesWindow ==
  \A n \in Proofs :
    accepted[n] # 0 => /\ accepted[n] = 1 /\ n \in sent
                      /\ reserved[n] > proof[n].at + Tolerance + MaxDelay

NonceInv == CheckedInTime /\ EntryOutlivesWindow

LEMMA NonceStep == SessionTypeOK /\ InProgress /\ NonceInv /\ [Next]_vars => NonceInv'
<1> SUFFICES ASSUME SessionTypeOK, InProgress, NonceInv, [Next]_vars PROVE NonceInv'
  OBVIOUS
<1> USE DEF codeVars, sessionVars, clientVars, nonceVars, reuseVars
<1>1. Idle.kind = "idle"
  BY DEF Idle
<1>2. ASSUME UNCHANGED <<now, proof, sent, reserved, accepted>>,
             \A q \in Requests : op'[q].kind = "proved" => op'[q] = op[q]
      PROVE  NonceInv'
  BY <1>2 DEF NonceInv, CheckedInTime, EntryOutlivesWindow
<1>3. ASSUME NEW p \in Requests, Returns(p) \/ \E k \in Kinds \ {"proved"} : Goes(p, k)
      PROVE  \A q \in Requests : op'[q].kind = "proved" => op'[q] = op[q]
  BY <1>1, <1>3 DEF Returns, Goes, SessionTypeOK
<1>4. CASE UNCHANGED vars \/ Revoke \/ \E s \in {"active", "deactivated", "blocked"} :
             DeviceBecomes(s)
  BY <1>2, <1>4 DEF vars, Revoke, DeviceBecomes
<1>5. ASSUME NEW p \in Requests,
             \/ ExchangeRead(p) \/ ExchangeCommit(p) \/ CheckDevice(p) \/ Rotate(p) \/ LookAgain(p)
             \/ RevokeReused(p) \/ AnswerRefresh(p) \/ LeaseRefused(p) \/ Lose(p)
      PROVE  NonceInv'
  <2>1. Returns(p) \/ \E k \in Kinds \ {"proved"} : Goes(p, k)
    BY <1>5
    DEF ExchangeRead, ExchangeCommit, CheckDevice, Rotate, LookAgain, RevokeReused,
        AnswerRefresh, LeaseRefused, Lose, Kinds
  <2>2. UNCHANGED <<now, proof, sent, reserved, accepted>>
    BY <1>5
    DEF ExchangeRead, ExchangeCommit, CheckDevice, Rotate, LookAgain, RevokeReused,
        AnswerRefresh, LeaseRefused, Lose
  <2> QED
    BY <1>2, <1>3, <2>1, <2>2
<1>6. ASSUME NEW n \in Proofs, NEW t \in 0 .. MaxTime, NEW use \in {"refresh", "heartbeat"},
             Sign(n, t, use)
      PROVE  NonceInv'
  <2>1. /\ sent' = sent \cup {n} /\ n \notin sent /\ UNCHANGED <<op, now, reserved, accepted>>
        /\ \A m \in Proofs \ {n} : proof'[m] = proof[m]
    BY <1>6 DEF Sign, SessionTypeOK
  <2>2. \A q \in Requests : op[q].kind = "proved" => op[q].proof \in Proofs \ {n}
    BY <2>1 DEF InProgress, SessionTypeOK
  <2>3. CheckedInTime'
    BY <2>1, <2>2 DEF NonceInv, CheckedInTime
  <2>4. EntryOutlivesWindow'
    BY <2>1 DEF NonceInv, EntryOutlivesWindow
  <2> QED
    BY <2>3, <2>4 DEF NonceInv
<1>7. ASSUME NEW p \in Requests, NEW n \in Proofs, CheckProof(p, n) PROVE NonceInv'
  <2>1. /\ op'[p].proof = n /\ op'[p].since = now
        /\ \A q \in Requests \ {p} : op'[q] = op[q]
        /\ UNCHANGED <<now, proof, sent, reserved, accepted>>
        /\ proof[n].at <= now + Tolerance /\ now <= proof[n].at + Tolerance
    BY <1>7 DEF CheckProof, InWindow, SessionTypeOK
  <2>2. now <= now + MaxDelay /\ now <= now
    BY SessionAssumption DEF SessionTypeOK
  <2>3. CheckedInTime'
    BY <2>1, <2>2 DEF NonceInv, CheckedInTime
  <2> QED
    BY <2>1, <2>3 DEF NonceInv, EntryOutlivesWindow
<1>8. ASSUME NEW p \in Requests, ReserveNonce(p) PROVE NonceInv'
  <2> DEFINE n == op[p].proof
  <2>1. op[p].kind = "proved" /\ n \in Proofs /\ n \in sent
    BY <1>8 DEF ReserveNonce, InProgress, SessionTypeOK
  <2>2. Returns(p) \/ \E k \in Kinds \ {"proved"} : Goes(p, k)
    BY <1>8 DEF ReserveNonce, Kinds
  <2>3. CASE reserved[n] > now
    BY <1>2, <1>3, <1>8, <2>2, <2>3 DEF ReserveNonce, SessionTypeOK
  <2>4. CASE reserved[n] <= now
    <3>1. /\ reserved' = [reserved EXCEPT ![n] = now + NonceTtl]
          /\ accepted' = [accepted EXCEPT ![n] = @ + 1]
          /\ UNCHANGED <<now, proof, sent>>
      BY <1>8, <2>4 DEF ReserveNonce, EntryLives
    <3>2. now <= op[p].since + MaxDelay /\ op[p].since <= now
          /\ op[p].since <= proof[n].at + Tolerance /\ proof[n].at <= op[p].since + Tolerance
      BY <2>1 DEF NonceInv, CheckedInTime
    <3>3. now \in Nat /\ op[p].since \in Nat /\ proof[n].at \in Nat /\ reserved[n] \in Nat
          /\ accepted[n] \in Nat
      BY <2>1 DEF SessionTypeOK
    <3> HIDE DEF n
    <3>4. accepted[n] = 0
      <4>1. SUFFICES ASSUME accepted[n] # 0 PROVE FALSE
        OBVIOUS
      <4>2. reserved[n] > proof[n].at + Tolerance + MaxDelay
        BY <2>1, <4>1 DEF NonceInv, EntryOutlivesWindow
      <4> QED
        BY <2>4, <3>2, <3>3, <4>2, SessionAssumption
    <3>5. now + NonceTtl > proof[n].at + Tolerance + MaxDelay
      BY <3>2, <3>3, SessionAssumption
    <3>6. /\ accepted'[n] = 1 /\ reserved'[n] = now + NonceTtl
          /\ \A m \in Proofs \ {n} : accepted'[m] = accepted[m] /\ reserved'[m] = reserved[m]
      BY <2>1, <3>1, <3>4 DEF SessionTypeOK
    <3>7. EntryOutlivesWindow'
      BY <2>1, <3>1, <3>5, <3>6 DEF NonceInv, EntryOutlivesWindow
    <3>8. \A q \in Requests : op'[q].kind = "proved" => op'[q] = op[q]
      BY <1>3, <2>2
    <3>9. CheckedInTime'
      BY <3>1, <3>8 DEF NonceInv, CheckedInTime
    <3> QED
      BY <3>7, <3>9 DEF NonceInv
  <2>5. reserved[n] \in Nat /\ now \in Nat
    BY <2>1 DEF SessionTypeOK
  <2> QED
    BY <2>3, <2>4, <2>5
<1>9. CASE Tick
  <2>1. /\ UNCHANGED <<op, proof, sent, reserved, accepted>>
        /\ now' = now + 1
        /\ \A q \in Requests : op[q].kind = "proved" => now < op[q].since + MaxDelay
    BY <1>9 DEF Tick
  <2>2. now \in Nat /\ \A q \in Requests : op[q].since \in Nat
    BY DEF SessionTypeOK
  <2>3. CheckedInTime'
    BY <2>1, <2>2, SessionAssumption DEF NonceInv, CheckedInTime
  <2> QED
    BY <2>1, <2>3 DEF NonceInv, EntryOutlivesWindow
<1> QED
  BY <1>4, <1>5, <1>6, <1>7, <1>8, <1>9 DEF Next

(* assertDeviceProof, assertFreshNonce and the nonce store: a signed request *)
(* is accepted once, however often it is delivered and however its clock     *)
(* differs, because a nonce's entry outlives the window of its timestamp.    *)
THEOREM ProofsAreAcceptedOnce == Spec => []ProofAcceptedOnce
<1>1. Init => NonceInv
  BY DEF Init, Idle, NonceInv, CheckedInTime, EntryOutlivesWindow
<1>2. SessionTypeOK /\ NonceInv => ProofAcceptedOnce
  BY DEF SessionTypeOK, NonceInv, EntryOutlivesWindow, ProofAcceptedOnce
<1> QED
  BY <1>1, <1>2, ProgressHolds, NonceStep, PTL DEF Spec

-----------------------------------------------------------------------------
(* Reuse.                                                                    *)

ReuseIsHandled ==
  reused /\ ~died => revoked \/ \E p \in Requests : op[p].kind = "reused"

LEMMA ReuseStep == SessionTypeOK /\ ReuseIsHandled /\ [Next]_vars => ReuseIsHandled'
<1> SUFFICES ASSUME SessionTypeOK, ReuseIsHandled, [Next]_vars PROVE ReuseIsHandled'
  OBVIOUS
<1> USE DEF codeVars, sessionVars, clientVars, nonceVars, reuseVars
<1>1. ASSUME UNCHANGED reuseVars, revoked => revoked',
             \A q \in Requests : op[q].kind = "reused" => op'[q].kind = "reused" \/ revoked'
      PROVE  ReuseIsHandled'
  BY <1>1 DEF ReuseIsHandled
<1>2. CASE UNCHANGED vars \/ Revoke \/ Tick \/ \E s \in {"active", "deactivated", "blocked"} :
             DeviceBecomes(s)
  BY <1>1, <1>2 DEF vars, Revoke, Tick, DeviceBecomes
<1>3. ASSUME NEW n \in Proofs, NEW t \in 0 .. MaxTime, NEW use \in {"refresh", "heartbeat"},
             Sign(n, t, use)
      PROVE  ReuseIsHandled'
  BY <1>1, <1>3 DEF Sign
<1>4. ASSUME NEW p \in Requests,
             \/ ExchangeRead(p) \/ ExchangeCommit(p) \/ ReserveNonce(p) \/ CheckDevice(p)
                  \/ Rotate(p)
             \/ RevokeReused(p) \/ AnswerRefresh(p) \/ LeaseRefused(p)
             \/ \E n \in Proofs : CheckProof(p, n)
      PROVE  ReuseIsHandled'
  <2>1. UNCHANGED reuseVars /\ (revoked => revoked')
    BY <1>4
    DEF ExchangeRead, ExchangeCommit, CheckProof, ReserveNonce, CheckDevice, Rotate, RevokeReused,
        AnswerRefresh, LeaseRefused
  <2>2. \A q \in Requests \ {p} : op'[q] = op[q]
    BY <1>4
    DEF ExchangeRead, ExchangeCommit, CheckProof, ReserveNonce, CheckDevice, Rotate, RevokeReused,
        AnswerRefresh, LeaseRefused, Goes, Returns, SessionTypeOK
  <2>3. op[p].kind = "reused" => revoked'
    BY <1>4
    DEF ExchangeRead, ExchangeCommit, CheckProof, ReserveNonce, CheckDevice, Rotate, RevokeReused,
        AnswerRefresh, LeaseRefused, Idle
  <2> QED
    BY <1>1, <2>1, <2>2, <2>3
<1>5. ASSUME NEW p \in Requests, LookAgain(p) PROVE ReuseIsHandled'
  <2>1. op[p].kind = "missed" /\ UNCHANGED <<revoked, died>>
        /\ \A q \in Requests \ {p} : op'[q] = op[q]
    BY <1>5 DEF LookAgain, Goes, Returns, SessionTypeOK
  <2>2. CASE WasReplaced(p)
    <3>1. op'[p].kind = "reused"
      BY <1>5, <2>2 DEF LookAgain, Goes, SessionTypeOK
    <3> QED
      BY <3>1 DEF ReuseIsHandled
  <2>3. CASE ~WasReplaced(p) /\ ~revoked
    <3>1. reused' = reused
      BY <1>5, <2>3 DEF LookAgain, WasReplaced, SessionTypeOK
    <3> QED
      BY <2>1, <3>1 DEF ReuseIsHandled
  <2> QED
    BY <2>1, <2>2, <2>3 DEF ReuseIsHandled
<1>6. ASSUME NEW p \in Requests, Lose(p) PROVE ReuseIsHandled'
  <2>1. \A q \in Requests \ {p} : op'[q] = op[q]
    BY <1>6 DEF Lose, Returns, SessionTypeOK
  <2>2. revoked' = revoked /\ reused' = reused
    BY <1>6 DEF Lose
  <2>3. (died \/ op[p].kind = "reused") => died'
    BY <1>6 DEF Lose
  <2> QED
    BY <2>1, <2>2, <2>3 DEF ReuseIsHandled
<1> QED
  BY <1>2, <1>3, <1>4, <1>5, <1>6 DEF Next

(* rotateSessionCredentials and handleRefreshReuse: a refresh that finds its *)
(* token replaced leaves the session revoked, unless the request died.       *)
THEOREM ReuseCostsTheSession == Spec => []ReuseRevokes
<1>1. Init => ReuseIsHandled
  BY DEF Init, ReuseIsHandled
<1>2. ReuseIsHandled => ReuseRevokes
  BY DEF ReuseIsHandled, ReuseRevokes, Settled
<1> QED
  BY <1>1, <1>2, SessionTypeCorrect, ReuseStep, PTL DEF Spec

(* However requests overlap and are replayed, a code and each signed request *)
(* of exchangeAuthCode and refreshDesktopSession are used once.              *)
THEOREM UsedOnceHolds == Spec => []UsedOnce
BY CodeMakesOneSession, ProofsAreAcceptedOnce, PTL DEF UsedOnce

-----------------------------------------------------------------------------
(* Updates.                                                                  *)

(* The types of the variables, and an entitlement that ended did so before   *)
(* now.                                                                      *)
Stages == {"idle", "offer", "feed", "package", "address", "file"}

UpdatesTypes ==
  /\ published \subseteq Catalogue
  /\ installed \in [Clients -> Nat]
  /\ flow \in [Clients -> [pc : Stages, release : SUBSET Catalogue, expires : Nat]]
  /\ entitled \in [Clients -> BOOLEAN]
  /\ lapsed \in [Clients -> 0..MaxClock]
  /\ clock \in 0..MaxClock
  /\ \A c \in Clients : lapsed[c] <= clock

(* An update is newer than what is installed, so that installing never leads *)
(* back.                                                                     *)
UnderWay(c) ==
  /\ flow[c].pc \in {"idle", "feed"} => flow[c].release = {}
  /\ \A r \in flow[c].release :
       r \in published /\ ForTarget(r, Target[c]) /\ IsNewer(r, installed[c])

(* The last time the application was entitled, and how long after it each    *)
(* ticket or address may be used.                                            *)
Since(c) == IF entitled[c] THEN clock ELSE lapsed[c]

TicketsEnd(c) ==
  /\ flow[c].pc = "feed" => flow[c].expires <= Since(c) + FeedTTL
  /\ flow[c].pc = "package" => flow[c].expires <= Since(c) + FeedTTL + ArtifactTTL
  /\ flow[c].pc = "address" => flow[c].expires <= Since(c) + FeedTTL + ArtifactTTL + LeastTTL

(* The inductive invariant of DesktopUpdates.  What a ticket still allows    *)
(* depends on the tickets before it, so each bound adds to the one before.   *)
UpdatesInv ==
  /\ UpdatesTypes
  /\ \A c \in Clients : Shipped[c] <= installed[c] /\ UnderWay(c) /\ TicketsEnd(c)

-----------------------------------------------------------------------------
(* At first nothing is under way.                                            *)
LEMMA UpdatesInitHolds ==
  ASSUME UpdatesInit
  PROVE  UpdatesInv
<1>1. UpdatesTypes
  BY UpdatesAssumption DEF UpdatesInit, Update, NoUpdate, UpdatesTypes, Stages
<1>2. ASSUME NEW c \in Clients PROVE Shipped[c] <= installed[c] /\ UnderWay(c) /\ TicketsEnd(c)
  BY <1>2, UpdatesAssumption DEF UpdatesInit, Update, NoUpdate, UnderWay, TicketsEnd
<1> QED
  BY <1>1, <1>2 DEF UpdatesInv

(* One application gets on with its update, and nothing else changes.        *)
LEMMA FlowStep ==
  ASSUME UpdatesInv, NEW c \in Clients, NEW f, UpdateGoes(c, f),
         f \in [pc : Stages, release : SUBSET published, expires : Nat],
         f.pc \in {"idle", "feed"} => f.release = {},
         \A r \in f.release : ForTarget(r, Target[c]) /\ IsNewer(r, installed[c]),
         f.pc = "feed" => f.expires <= Since(c) + FeedTTL,
         f.pc = "package" => f.expires <= Since(c) + FeedTTL + ArtifactTTL,
         f.pc = "address" => f.expires <= Since(c) + FeedTTL + ArtifactTTL + LeastTTL
  PROVE  UpdatesInv'
<1>1. flow' = [flow EXCEPT ![c] = f] /\ UNCHANGED <<published, installed, entitled, lapsed, clock>>
  BY DEF UpdateGoes
<1>2. UpdatesTypes'
  BY <1>1 DEF UpdatesInv, UpdatesTypes
<1>3. ASSUME NEW d \in Clients
      PROVE  (Shipped[d] <= installed[d] /\ UnderWay(d) /\ TicketsEnd(d))'
  <2>1. CASE d = c
    BY <1>1, <2>1 DEF UpdatesInv, UpdatesTypes, UnderWay, TicketsEnd, Since, IsNewer
  <2>2. CASE d # c
    <3>1. flow'[d] = flow[d]
      BY <1>1, <2>2 DEF UpdatesInv, UpdatesTypes
    <3> QED
      BY <1>1, <3>1 DEF UpdatesInv, UnderWay, TicketsEnd, Since, IsNewer
  <2> QED
    BY <2>1, <2>2
<1> QED
  BY <1>2, <1>3 DEF UpdatesInv

(* The update API: an address lives no longer than a chain of feed tickets.  *)
LEMMA ByApiStep ==
  ASSUME UpdatesInv, NEW c \in Clients, ByApi(c)
  PROVE  UpdatesInv'
<1> USE DEF UpdatesInv, UpdatesTypes
<1>0. NoUpdate \in [pc : Stages, release : SUBSET published, expires : Nat] /\ clock \in Nat
  BY DEF Update, NoUpdate, Stages
<1>1. CASE CheckLatest(c)
  <2>1. PICK r \in Latest(Compatible(c, installed[c])) :
          UpdateGoes(c, Update("offer", {r}, 0))
    BY <1>1 DEF CheckLatest
  <2>2. r \in published /\ ForTarget(r, Target[c]) /\ IsNewer(r, installed[c])
    BY <2>1 DEF Latest, Compatible
  <2> QED
    BY <1>0, <2>1, <2>2, FlowStep DEF Update, Stages
<1>2. CASE AuthorizeDownload(c)
  <2>1. clock + DownloadTTL \in Nat /\ Since(c) = clock
    BY <1>0, <1>2, UpdatesAssumption DEF AuthorizeDownload, Since
  <2>2. clock + DownloadTTL <= Since(c) + FeedTTL + ArtifactTTL + LeastTTL
    BY <1>0, <2>1, UpdatesAssumption
  <2> QED
    BY <1>2, <2>1, <2>2, FlowStep DEF Update, AuthorizeDownload, UnderWay, Stages
<1>3. CASE Download(c)
  BY <1>3, FlowStep DEF Update, Download, UnderWay, Stages
<1>4. CASE Install(c)
  <2>1. PICK r \in flow[c].release : installed' = [installed EXCEPT ![c] = r.version]
    BY <1>4 DEF Install
  <2>2. r.version \in Nat /\ r.version > installed[c]
    BY <2>1, UpdatesAssumption DEF UnderWay, IsNewer
  <2>3. UpdatesTypes'
    BY <1>0, <1>4, <2>1, <2>2 DEF Install
  <2>4. ASSUME NEW d \in Clients
        PROVE  (Shipped[d] <= installed[d] /\ UnderWay(d) /\ TicketsEnd(d))'
    <3>1. CASE d = c
      <4>1. flow'[c] = NoUpdate /\ installed'[c] = r.version
        BY <1>4, <2>1 DEF Install
      <4>2. Shipped[c] <= r.version
        BY <2>2, UpdatesAssumption
      <4> QED
        BY <3>1, <4>1, <4>2 DEF Update, NoUpdate, UnderWay, TicketsEnd
    <3>2. CASE d # c
      <4>1. flow'[d] = flow[d] /\ installed'[d] = installed[d]
              /\ UNCHANGED <<published, entitled, lapsed, clock>>
        BY <1>4, <2>1, <3>2 DEF Install
      <4> QED
        BY <4>1 DEF UnderWay, TicketsEnd, Since, IsNewer
    <3> QED
      BY <3>1, <3>2
  <2> QED
    BY <2>3, <2>4
<1> QED
  BY <1>1, <1>2, <1>3, <1>4 DEF ByApi

(* The Squirrel feed: each ticket extends the time of the one before.        *)
LEMMA ByFeedStep ==
  ASSUME UpdatesInv, NEW c \in Clients, ByFeed(c)
  PROVE  UpdatesInv'
<1> USE DEF UpdatesInv, UpdatesTypes
<1>0. /\ NoUpdate \in [pc : Stages, release : SUBSET published, expires : Nat]
      /\ clock \in Nat /\ lapsed[c] \in Nat /\ Since(c) \in Nat
      /\ FeedTTL \in Nat /\ ArtifactTTL \in Nat /\ LeastTTL \in Nat
  BY UpdatesAssumption DEF Update, NoUpdate, Stages, Since
<1>1. CASE FeedTicket(c)
  <2>1. Since(c) = clock /\ clock + FeedTTL \in Nat
    BY <1>0, <1>1 DEF FeedTicket, Since
  <2> QED
    BY <1>0, <1>1, <2>1, FlowStep DEF Update, FeedTicket, NoUpdate, Stages
<1>2. CASE ReadFeed(c)
  <2>1. CASE UpdateGoes(c, NoUpdate)
    BY <1>0, <2>1, FlowStep DEF Update, NoUpdate
  <2>2. CASE \E r \in Latest(FeedReleases(c)) :
               /\ IsNewer(r, installed[c])
               /\ UpdateGoes(c, Update("package", {r}, clock + ArtifactTTL))
    <3>1. PICK r \in Latest(FeedReleases(c)) :
            /\ IsNewer(r, installed[c])
            /\ UpdateGoes(c, Update("package", {r}, clock + ArtifactTTL))
      BY <2>2
    <3>2. r \in published /\ ForTarget(r, Target[c])
      BY <3>1 DEF Latest, FeedReleases
    <3>3. flow[c].expires \in Nat /\ clock < flow[c].expires
            /\ flow[c].expires <= Since(c) + FeedTTL
      BY <1>2 DEF ReadFeed, Valid, TicketsEnd
    <3>4. clock + ArtifactTTL \in Nat /\ clock + ArtifactTTL <= Since(c) + FeedTTL + ArtifactTTL
      BY <1>0, <3>3
    <3> QED
      BY <3>1, <3>2, <3>4, FlowStep DEF Update, Stages
  <2> QED
    BY <1>2, <2>1, <2>2 DEF ReadFeed
<1>3. CASE FetchPackage(c)
  <2> DEFINE left == flow[c].expires - clock
             until == clock + IF left < LeastTTL THEN LeastTTL ELSE left
  <2>1. flow[c].expires \in Nat /\ clock < flow[c].expires
        /\ flow[c].expires <= Since(c) + FeedTTL + ArtifactTTL
    BY <1>3 DEF FetchPackage, Valid, TicketsEnd
  <2>2. until \in Nat /\ until <= Since(c) + FeedTTL + ArtifactTTL + LeastTTL
    BY <1>0, <2>1
  <2>3. UpdateGoes(c, Update("address", flow[c].release, until))
    BY <1>3 DEF FetchPackage
  <2> HIDE DEF until
  <2> QED
    BY <2>2, <2>3, FlowStep DEF Update, UnderWay, Stages
<1> QED
  BY <1>1, <1>2, <1>3 DEF ByFeed

(* The invariant is inductive.                                               *)
LEMMA UpdatesStepHolds ==
  ASSUME UpdatesInv, [UpdatesNext]_updateVars
  PROVE  UpdatesInv'
<1>1. ASSUME NEW r \in Catalogue, Publish(r) PROVE UpdatesInv'
  BY <1>1 DEF Publish, UpdatesInv, UpdatesTypes, UnderWay, TicketsEnd, Since, IsNewer
<1>2. ASSUME NEW c \in Clients, ByApi(c) PROVE UpdatesInv'
  BY <1>2, ByApiStep
<1>3. ASSUME NEW c \in Clients, ByFeed(c) PROVE UpdatesInv'
  BY <1>3, ByFeedStep
<1>4. ASSUME NEW c \in Clients, GiveUp(c) PROVE UpdatesInv'
  BY <1>4, FlowStep DEF Update, GiveUp, NoUpdate, Stages
<1>5. ASSUME NEW c \in Clients, Lapse(c) PROVE UpdatesInv'
  BY <1>5 DEF Lapse, UpdatesInv, UpdatesTypes, UnderWay, TicketsEnd, Since, IsNewer
<1>6. ASSUME NEW c \in Clients, Renew(c) PROVE UpdatesInv'
  <2>1. UpdatesTypes'
    BY <1>6 DEF Renew, UpdatesInv, UpdatesTypes
  <2>2. ASSUME NEW d \in Clients
        PROVE  (Shipped[d] <= installed[d] /\ UnderWay(d) /\ TicketsEnd(d))'
    <3>1. Since(d) <= Since(d)' /\ Since(d) \in Nat /\ Since(d)' \in Nat
      BY <1>6 DEF Renew, Since, UpdatesInv, UpdatesTypes
    <3>2. flow[d].expires \in Nat /\ FeedTTL \in Nat /\ ArtifactTTL \in Nat /\ LeastTTL \in Nat
      BY UpdatesAssumption DEF UpdatesInv, UpdatesTypes
    <3>3. TicketsEnd(d)'
      BY <1>6, <3>1, <3>2 DEF Renew, UpdatesInv, TicketsEnd
    <3> QED
      BY <1>6, <3>3 DEF Renew, UpdatesInv, UnderWay, IsNewer
  <2> QED
    BY <2>1, <2>2 DEF UpdatesInv
<1>7. ASSUME ClockTicks PROVE UpdatesInv'
  <2>1. UpdatesTypes'
    BY <1>7, UpdatesAssumption DEF ClockTicks, UpdatesInv, UpdatesTypes
  <2>2. ASSUME NEW d \in Clients
        PROVE  (Shipped[d] <= installed[d] /\ UnderWay(d) /\ TicketsEnd(d))'
    <3>1. Since(d) <= Since(d)' /\ Since(d) \in Nat /\ Since(d)' \in Nat
      BY <1>7 DEF ClockTicks, Since, UpdatesInv, UpdatesTypes
    <3>2. flow[d].expires \in Nat /\ FeedTTL \in Nat /\ ArtifactTTL \in Nat /\ LeastTTL \in Nat
      BY UpdatesAssumption DEF UpdatesInv, UpdatesTypes
    <3>3. TicketsEnd(d)'
      BY <1>7, <3>1, <3>2 DEF ClockTicks, UpdatesInv, TicketsEnd
    <3> QED
      BY <1>7, <3>3 DEF ClockTicks, UpdatesInv, UnderWay, IsNewer
  <2> QED
    BY <2>1, <2>2 DEF UpdatesInv
<1>8. CASE UNCHANGED updateVars
  BY <1>8 DEF updateVars, UpdatesInv, UpdatesTypes, UnderWay, TicketsEnd, Since, IsNewer
<1> QED
  BY <1>1, <1>2, <1>3, <1>4, <1>5, <1>6, <1>7, <1>8 DEF UpdatesNext

(* The strengthened invariant of the updates holds.                          *)
THEOREM UpdatesInvariance == UpdatesSpec => []UpdatesInv
<1>1. UpdatesInit => UpdatesInv
  BY UpdatesInitHolds
<1>2. UpdatesInv /\ [UpdatesNext]_updateVars => UpdatesInv'
  BY UpdatesStepHolds
<1> QED
  BY <1>1, <1>2, PTL DEF UpdatesSpec

(* What is offered is what the floor allows, so that nothing that is reached *)
(* is newer than what is installed when nothing is offered any more.         *)
THEOREM NobodyIsLeftBehind == UpdatesSpec => []NobodyIsStranded
<1>1. UpdatesInv => NobodyIsStranded
  <2> SUFFICES ASSUME UpdatesInv, NEW c \in Clients, Compatible(c, installed[c]) = {},
                      NEW v \in Reachable(c)
               PROVE  v <= installed[c]
    BY DEF NobodyIsStranded
  <2> DEFINE mine == {r \in published : ForTarget(r, Target[c])}
             versions == {r.version : r \in mine}
             Closed(S) == \A u \in S, r \in mine : u < r.version /\ u >= r.floor => r.version \in S
             upTo == {u \in versions \cup {Shipped[c]} : u <= installed[c]}
  <2>1. /\ installed[c] \in Nat /\ Shipped[c] \in Nat /\ Shipped[c] <= installed[c]
        /\ \A r \in mine : r.version \in Nat /\ r.floor \in Nat
    BY UpdatesAssumption DEF UpdatesInv, UpdatesTypes
  <2>2. Shipped[c] \in upTo
    BY <2>1
  <2>3. ASSUME NEW u \in upTo, NEW r \in mine, u < r.version, u >= r.floor
        PROVE  r.version \in upTo
    <3>1. r \notin Compatible(c, installed[c])
      OBVIOUS
    <3>2. installed[c] >= r.floor
      BY <2>1, <2>3
    <3>3. ~(r.version > installed[c])
      BY <3>1, <3>2 DEF Compatible, IsNewer, MeetsMinimum
    <3>4. r.version \in versions
      OBVIOUS
    <3> QED
      BY <2>1, <3>3, <3>4
  <2>4. Closed(upTo)
    BY <2>3
  <2>5. upTo \in SUBSET (versions \cup {Shipped[c]})
    OBVIOUS
  <2>6. v \in upTo
    BY <2>2, <2>4, <2>5 DEF Reachable
  <2> QED
    BY <2>6
<1> QED
  BY <1>1, UpdatesInvariance, PTL

(* After the end of the entitlement, what is still served is what the        *)
(* tickets that were given out before allow, one after the other.            *)
THEOREM AccessIsTimed == UpdatesSpec => AccessEndsInTime
<1> DEFINE A == \A c \in Clients : flow[c].pc = "address" /\ flow'[c].pc = "file" =>
                  entitled[c] \/ clock < lapsed[c] + FeedTTL + ArtifactTTL + LeastTTL
<1>1. ASSUME UpdatesInv, [UpdatesNext]_updateVars PROVE [A]_updateVars
  <2> SUFFICES ASSUME NEW c \in Clients, flow[c].pc = "address", flow'[c].pc = "file", ~entitled[c]
               PROVE  clock < lapsed[c] + FeedTTL + ArtifactTTL + LeastTTL
    OBVIOUS
  <2>1. Valid(c)
    <3>1. flow'[c] # flow[c]
      OBVIOUS
    <3>2. ASSUME NEW d \in Clients, NEW f, UpdateGoes(d, f) PROVE d = c /\ f = flow'[c]
      BY <3>1, <3>2 DEF UpdateGoes, UpdatesInv, UpdatesTypes
    <3> QED
      <4>1. PICK d \in Clients : ByApi(d) \/ ByFeed(d) \/ GiveUp(d)
        BY <1>1, <3>1 DEF UpdatesNext, updateVars, Publish, Lapse, Renew, ClockTicks
      <4>2. ASSUME NEW k, NEW S, NEW until, UpdateGoes(d, Update(k, S, until)),
                     k # "file" PROVE FALSE
        BY <3>2, <4>2 DEF Update
      <4>3. ~UpdateGoes(d, NoUpdate)
        BY <4>2 DEF NoUpdate
      <4>4. CASE Install(d)
        BY <4>4, <3>1 DEF Install, NoUpdate, Update, UpdatesInv, UpdatesTypes
      <4>5. CASE Download(d)
        BY <3>2, <4>5 DEF Download
      <4> QED
        BY <4>1, <4>2, <4>3, <4>4, <4>5 DEF ByApi, ByFeed, CheckLatest, AuthorizeDownload,
             FeedTicket, ReadFeed, FetchPackage, GiveUp
  <2> QED
    BY <1>1, <2>1, UpdatesAssumption DEF Valid, UpdatesInv, UpdatesTypes, TicketsEnd, Since
<1>2. UpdatesInv /\ [UpdatesNext]_updateVars => [A]_updateVars
  BY <1>1
<1> QED
  BY <1>2, UpdatesInvariance, PTL DEF UpdatesSpec, AccessEndsInTime
=============================================================================
