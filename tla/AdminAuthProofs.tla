-------------------------- MODULE AdminAuthProofs --------------------------
(***************************************************************************)
(* Proofs about AdminAuth, for any number of requests, clients, passwords, *)
(* secrets, codes and backups, and for any bounds.                         *)
(***************************************************************************)
EXTENDS AdminAuth, TLAPS

-----------------------------------------------------------------------------
(* The inductive invariant                                                 *)

\* A request whose session is still live was let through without restriction, and
\* no credential has changed since: every change ends every session, and the
\* number of a session is never given out again.
AdmittedIsCurrent ==
    \A r \in Requests :
        /\ req[r].pc \in {"allowed", "admitted", "decoded", "proved", "hashed"}
        /\ req[r].op \notin {"login", "password"}
        /\ Valid(req[r].tok)
        => ~settings.must

HashIsCurrent ==
    \A r \in Requests : req[r].pc = "hashed" /\ Valid(req[r].tok) => req[r].hash = settings.pass

IInv == TypeOK /\ SessionsAreEarned /\ PendingIsCurrent /\ AdmittedIsCurrent /\ HashIsCurrent

\* The type of a request under way.
ReqType(i) ==
    [pc : {"idle", "valid", "allowed", "admitted", "decoded", "proved", "hashed", "confirmed"},
     op : Ops, tok : 0..i, gen : Nat, proof : Proofs, hash : Passwords]

\* An idle request, and the credentials a handler reads, are well typed.
LEMMA Typed ==
    ASSUME TypeOK
    PROVE  /\ Idle \in ReqType(issued) /\ Credentials \in Proofs
           /\ Factor(settings) \in Secrets \cup {NoSecret}
           /\ \A c \in TotpCodes : c.secret \in Secrets /\ c.counter \in Counters
<1> USE AuthAssumption DEF TypeOK
<1>1. Credentials \in Proofs /\ NoProof \in Proofs
  BY DEF Credentials, NoProof, Proofs, Settings
<1>2. Idle \in ReqType(issued)
  BY <1>1 DEF Idle, ReqType, Ops
<1> QED BY <1>1, <1>2 DEF Factor, Settings, TotpCodes

\* The program starts within the invariant.
LEMMA InvInit == Init => IInv
<1> SUFFICES ASSUME Init PROVE IInv
  OBVIOUS
<1> USE AuthAssumption DEF Init, None
<1>1. NoProof \in Proofs
  BY DEF NoProof, Proofs
<1>2. Idle \in ReqType(0)
  BY <1>1 DEF Idle, ReqType, Ops
<1>3. TypeOK
  <2>1. generation \in 0..MaxGeneration /\ issued \in 0..MaxTokens /\ now \in 2..MaxTime
    OBVIOUS
  <2>2. DOMAIN tokens = {} /\ DOMAIN challenges = {} /\ DOMAIN setups = {}
    OBVIOUS
  <2>3. last \in Counters /\ counter \in Counters /\ saved \in Counters
    BY DEF Counters
  <2>4. settings \in Settings
    OBVIOUS
  <2> QED BY <1>2, <2>1, <2>2, <2>3, <2>4 DEF TypeOK, ReqType
<1>4. SessionsAreEarned /\ PendingIsCurrent
  BY DEF SessionsAreEarned, PendingIsCurrent
<1>5. AdmittedIsCurrent /\ HashIsCurrent
  BY DEF AdmittedIsCurrent, HashIsCurrent, Idle
<1> QED BY <1>3, <1>4, <1>5 DEF IInv

\* Steps of a request up to its confirmation change nothing but the request.
LEMMA RequestInv ==
    ASSUME IInv, NEW r \in Requests, LoginProof(r) \/ AdmissionStep(r)
    PROVE  IInv'
<1> USE DEF IInv
<1>1. \E q \in ReqType(issued) :
           /\ req' = [req EXCEPT ![r] = q] /\ UNCHANGED <<settings, session, replay, now, left>>
           /\ q.pc \in {"allowed", "admitted", "decoded", "proved", "hashed"}
                /\ q.op \notin {"login", "password"} /\ Valid(q.tok) => ~settings.must
           /\ q.pc = "hashed" /\ Valid(q.tok) => q.hash = settings.pass
  <2> USE Typed, AuthAssumption DEF ReqType, TypeOK
  <2>1. CASE LoginProof(r)
    <3> DEFINE q == [Idle EXCEPT !.pc = "proved", !.proof = Credentials]
    <3>1. q \in ReqType(issued) /\ q.pc = "proved" /\ q.op = "login"
      BY DEF Idle
    <3> QED BY <2>1, <3>1 DEF LoginProof
  <2>2. CASE \E t \in 1..issued, op \in Ops \ {"login"} : Authenticate(r, t, op)
    <3>1. PICK t \in 1..issued, op \in Ops \ {"login"} : Authenticate(r, t, op)
      BY <2>2
    <3> DEFINE q == [Idle EXCEPT !.pc = "valid", !.op = op, !.tok = t]
    <3>2. q \in ReqType(issued) /\ q.pc = "valid"
      <4>1. t \in 0..issued /\ op \in Ops
        OBVIOUS
      <4> QED BY <4>1 DEF Idle
    <3>3. req' = [req EXCEPT ![r] = q] /\ UNCHANGED <<settings, session, replay, now, left>>
      BY <3>1 DEF Authenticate
    <3>4. /\ q.pc \notin {"allowed", "admitted", "decoded", "proved", "hashed"}
          /\ q.pc # "hashed"
      BY <3>2
    <3> HIDE DEF q
    <3> USE <3>2
    <3> WITNESS q \in ReqType(issued)
    <3> QED BY <3>3, <3>4, Zenon
  <2>9. CASE Allow(r)
    <3> DEFINE q == [req[r] EXCEPT !.pc = "allowed"]
    <3>1. q \in ReqType(issued) /\ q.pc = "allowed" /\ q.op = req[r].op
      OBVIOUS
    <3>2. req' = [req EXCEPT ![r] = q]
      BY <2>9 DEF Allow
    <3> QED BY <2>9, <3>1, <3>2 DEF Allow
  <2>3. CASE Admit(r)
    <3> DEFINE q == [req[r] EXCEPT !.pc = "admitted", !.gen = generation]
    <3>1. q \in ReqType(issued) /\ q.pc = "admitted" /\ q.op = req[r].op /\ q.tok = req[r].tok
      <4>1. generation \in Nat
        OBVIOUS
      <4>2. req[r] \in ReqType(issued)
        OBVIOUS
      <4> HIDE DEF TypeOK
      <4> QED BY <4>1, <4>2
    <3>2. req' = [req EXCEPT ![r] = q]
      BY <2>3 DEF Admit
    <3> QED BY <2>3, <3>1, <3>2 DEF Admit, At, AdmittedIsCurrent
  <2>4. CASE Decode(r)
    <3> DEFINE q == [req[r] EXCEPT !.pc = "decoded"]
    <3>1. q \in ReqType(issued) /\ q.pc = "decoded" /\ q.op = req[r].op /\ q.tok = req[r].tok
      OBVIOUS
    <3>2. req' = [req EXCEPT ![r] = q]
      BY <2>4 DEF Decode
    <3> QED BY <2>4, <3>1, <3>2 DEF Decode, At, AdmittedIsCurrent
  <2>5. CASE TakeProof(r)
    <3> DEFINE q == [req[r] EXCEPT !.pc = "proved", !.proof = Credentials]
    <3>1. q \in ReqType(issued) /\ q.pc = "proved" /\ q.op = req[r].op /\ q.tok = req[r].tok
      OBVIOUS
    <3>2. req' = [req EXCEPT ![r] = q]
      BY <2>5 DEF TakeProof
    <3> QED BY <2>5, <3>1, <3>2 DEF TakeProof, At, AdmittedIsCurrent
  <2>6. CASE ReadHash(r)
    <3> DEFINE q == [req[r] EXCEPT !.pc = "hashed", !.hash = settings.pass]
    <3>1. /\ q \in ReqType(issued) /\ q.pc = "hashed" /\ q.op = req[r].op /\ q.tok = req[r].tok
          /\ q.hash = settings.pass
      BY DEF Settings
    <3>2. req' = [req EXCEPT ![r] = q]
      BY <2>6 DEF ReadHash
    <3> QED BY <2>6, <3>1, <3>2 DEF ReadHash, At, AdmittedIsCurrent
  <2>7. CASE Install(r)
    <3> DEFINE q == [req[r] EXCEPT !.pc = "confirmed"]
    <3>1. q \in ReqType(issued) /\ q.pc = "confirmed"
      OBVIOUS
    <3>2. req' = [req EXCEPT ![r] = q]
      BY <2>7 DEF Install
    <3> QED BY <2>7, <3>1, <3>2 DEF Install
  <2>8. CASE Refused(r)
    <3>1. Idle.pc = "idle"
      BY DEF Idle
    <3> QED BY <2>8, <3>1 DEF Refused, Done
  <2> QED BY <2>1, <2>2, <2>9, <2>3, <2>4, <2>5, <2>6, <2>7, <2>8 DEF AdmissionStep
<1> USE <1>1 DEF session, replay
<1>2. TypeOK'
  BY DEF TypeOK, ReqType
<1>3. SessionsAreEarned' /\ PendingIsCurrent'
  BY DEF SessionsAreEarned, PendingIsCurrent
<1>4. AdmittedIsCurrent' /\ HashIsCurrent'
  BY DEF AdmittedIsCurrent, HashIsCurrent, Valid, TypeOK
<1> QED BY <1>2, <1>3, <1>4

\* What the replay protection and the bounds keep their types.
ReplayType ==
    /\ last \in Counters /\ hasLast \in BOOLEAN /\ counter \in Counters /\ saved \in Counters
    /\ used \in [Codes -> Nat] /\ left \in [Bounded -> Nat]

LEMMA TakeTotpType ==
    ASSUME TypeOK, NEW code \in TotpCodes, TakeTotp(code)
    PROVE  ReplayType'
<1>1. code \in Codes /\ code.counter \in Counters
  BY Typed DEF Codes
<1>2. saved' \in Counters /\ left' \in [Bounded -> Nat]
  BY <1>1 DEF TakeTotp, Flushed, Spend, TypeOK, Bounded
<1> QED BY <1>1, <1>2 DEF TakeTotp, Accepted, TypeOK, ReplayType

LEMMA ConfirmWithType ==
    ASSUME TypeOK, NEW code \in Codes, ConfirmWith(code)
    PROVE  ReplayType'
<1>1. CASE code \in TotpCodes
  BY <1>1, TakeTotpType DEF ConfirmWith
<1>2. CASE code \notin TotpCodes
  BY <1>2 DEF ConfirmWith, replay, TypeOK, ReplayType
<1> QED BY <1>1, <1>2

LEMMA ResetType ==
    ASSUME TypeOK, NEW lag \in SUBSET Counters, ResetTOTPCounter(lag)
    PROVE  ReplayType'
<1>1. 0 \in Counters
  BY AuthAssumption DEF Counters
<1>2. saved' \in Counters /\ left' \in [Bounded -> Nat]
  BY <1>1 DEF ResetTOTPCounter, Spend, TypeOK, Bounded
<1> QED BY <1>1, <1>2 DEF ResetTOTPCounter, TypeOK, ReplayType

\* A login that has shown password and factor earns its session, one that has
\* shown only the password a challenge.
LEMMA LoginInv ==
    ASSUME IInv, NEW r \in Requests, NEW c \in Slots, NEW ip \in IPs, LoginFinish(r, c, ip)
    PROVE  IInv'
<1> USE Typed, AuthAssumption DEF IInv, LoginFinish, replay
<1>1. /\ req[r].proof.pass = settings.pass /\ req[r].proof.totp = settings.totp
      /\ settings.pass \in Passwords /\ generation \in Nat
  BY DEF Credentials, TypeOK, Settings
<1>2. CASE req[r].proof.totp
  <2>1. /\ challenges' = With(challenges, c, [ip |-> ip, gen |-> generation,
                                               pass |-> settings.pass, attempts |-> 0])
        /\ UNCHANGED <<generation, tokens, issued, setups>>
    BY <1>1, <1>2 DEF Granted, IssueChallenge
  <2>2. TypeOK'
    BY <1>1, <2>1 DEF TypeOK, ReqType, With, Done
  <2>3. SessionsAreEarned' /\ PendingIsCurrent'
    BY <1>1, <1>2, <2>1 DEF SessionsAreEarned, PendingIsCurrent, With
  <2>4. AdmittedIsCurrent' /\ HashIsCurrent'
    BY <2>1 DEF AdmittedIsCurrent, HashIsCurrent, Valid, Done, Idle, TypeOK
  <2> QED BY <2>2, <2>3, <2>4
<1>3. CASE ~req[r].proof.totp
  <2>1. /\ issued' = issued + 1 /\ issued < MaxTokens
        /\ tokens' = With(tokens, issued + 1, [pass |-> settings.pass, secret |-> NoSecret])
        /\ UNCHANGED <<generation, challenges, setups>>
    BY <1>1, <1>3 DEF Granted, Issue
  <2>2. TypeOK'
    <3>1. req' \in [Requests -> ReqType(issued')]
      BY <2>1 DEF TypeOK, ReqType, Done
    <3>2. /\ DOMAIN tokens' \subseteq 1..issued' /\ issued' \in 0..MaxTokens
          /\ \A t \in DOMAIN tokens' : tokens'[t] \in Grants
      BY <1>1, <2>1 DEF TypeOK, With, Grants
    <3>3. \A s \in DOMAIN setups : setups[s] \in [tok : 1..issued', pass : Passwords]
      BY <2>1 DEF TypeOK
    <3> QED BY <2>1, <3>1, <3>2, <3>3 DEF TypeOK, ReqType
  <2>3. SessionsAreEarned' /\ PendingIsCurrent'
    BY <1>1, <1>3, <2>1 DEF SessionsAreEarned, PendingIsCurrent, With, Factor
  <2>4. AdmittedIsCurrent' /\ HashIsCurrent'
    <3>1. \A q \in Requests : req[q].tok \in 0..issued
      BY DEF TypeOK
    <3> QED BY <2>1, <3>1 DEF AdmittedIsCurrent, HashIsCurrent, Valid, With, Done, Idle, TypeOK
  <2> QED BY <2>2, <2>3, <2>4
<1> QED BY <1>2, <1>3

\* A step that ends in a session for a usable challenge.
LEMMA FactorInv ==
    ASSUME IInv, NEW c \in DOMAIN challenges, FactorStep(c)
    PROVE  IInv'
<1> USE Typed, AuthAssumption DEF IInv
<1>1. CASE ChallengeDropped(c)
  <2> USE <1>1 DEF ChallengeDropped, replay
  <2>1. TypeOK'
    BY DEF TypeOK, ReqType, Without
  <2>2. SessionsAreEarned' /\ PendingIsCurrent'
    BY DEF SessionsAreEarned, PendingIsCurrent, Without
  <2>3. AdmittedIsCurrent' /\ HashIsCurrent'
    BY DEF AdmittedIsCurrent, HashIsCurrent, Valid
  <2> QED BY <2>1, <2>2, <2>3
<1>2. CASE \E ip \in IPs : TOTPLoginFails(c, ip)
  <2> USE <1>2 DEF TOTPLoginFails, Usable, replay
  <2>1. TypeOK'
    BY DEF TypeOK, ReqType
  <2>2. SessionsAreEarned' /\ PendingIsCurrent'
    BY DEF SessionsAreEarned, PendingIsCurrent, TypeOK
  <2>3. AdmittedIsCurrent' /\ HashIsCurrent'
    BY DEF AdmittedIsCurrent, HashIsCurrent, Valid
  <2> QED BY <2>1, <2>2, <2>3
<1>3. ASSUME settings.totp, settings' \in Settings, ReplayType',
             settings'.pass = settings.pass, settings'.must = settings.must,
             settings'.totp = settings.totp, settings'.secret = settings.secret,
             challenges' = Without(challenges, {c}),
             Issue([pass |-> challenges[c].pass, secret |-> settings.secret]),
             UNCHANGED <<generation, setups, now, req>>
      PROVE  IInv'
  <2> USE <1>3
  <2>1. challenges[c].pass = settings.pass /\ settings.pass \in Passwords
        /\ settings.secret \in Secrets \cup {NoSecret}
    BY DEF PendingIsCurrent, TypeOK, Settings
  <2>2. /\ issued' = issued + 1 /\ issued < MaxTokens
        /\ tokens' = With(tokens, issued + 1, [pass |-> settings.pass, secret |-> settings.secret])
    BY <2>1 DEF Issue
  <2>3. TypeOK'
    <3>1. req' \in [Requests -> ReqType(issued')]
      BY <2>2 DEF TypeOK, ReqType
    <3>2. /\ DOMAIN tokens' \subseteq 1..issued' /\ issued' \in 0..MaxTokens
          /\ \A t \in DOMAIN tokens' : tokens'[t] \in Grants
      BY <2>1, <2>2 DEF TypeOK, With, Grants
    <3>3. \A s \in DOMAIN setups : setups[s] \in [tok : 1..issued', pass : Passwords]
      BY <2>2 DEF TypeOK
    <3>4. /\ DOMAIN challenges' \subseteq Slots
          /\ \A d \in DOMAIN challenges' :
               challenges'[d] \in [ip : IPs, gen : Nat, pass : Passwords, attempts : 0..MaxAttempts]
      BY DEF TypeOK, Without
    <3> QED BY <3>1, <3>2, <3>3, <3>4 DEF TypeOK, ReqType, ReplayType
  <2>4. SessionsAreEarned' /\ PendingIsCurrent'
    BY <2>1, <2>2 DEF SessionsAreEarned, PendingIsCurrent, With, Without, Factor
  <2>5. AdmittedIsCurrent' /\ HashIsCurrent'
    <3>1. \A q \in Requests : req[q].tok \in 0..issued
      BY DEF TypeOK
    <3> QED BY <2>2, <3>1 DEF AdmittedIsCurrent, HashIsCurrent, Valid, With, TypeOK
  <2> QED BY <2>3, <2>4, <2>5
<1>4. CASE \E ip \in IPs, code \in TotpCodes : TOTPLogin(c, ip, code)
  <2>1. PICK ip \in IPs, code \in TotpCodes : TOTPLogin(c, ip, code)
    BY <1>4
  <2>2. settings.totp /\ code.secret = settings.secret /\ ReplayType'
    BY <2>1, TakeTotpType DEF TOTPLogin, TotpValid
  <2>3. settings' \in Settings
    BY <2>1 DEF TOTPLogin, TypeOK
  <2> QED BY <1>3, <2>1, <2>2, <2>3 DEF TOTPLogin
<1>5. CASE \E ip \in IPs, code \in Recovery : RecoveryLogin(c, ip, code)
  <2>1. PICK ip \in IPs, code \in Recovery : RecoveryLogin(c, ip, code)
    BY <1>5
  <2>2. ReplayType'
    BY <2>1 DEF RecoveryLogin, Accepted, TypeOK, ReplayType, Codes
  <2>3. /\ settings' \in Settings /\ settings'.pass = settings.pass
        /\ settings'.must = settings.must /\ settings'.totp = settings.totp
        /\ settings'.secret = settings.secret
    BY <2>1 DEF RecoveryLogin, TypeOK, Settings
  <2> QED BY <1>3, <2>1, <2>2, <2>3 DEF RecoveryLogin
<1> QED BY <1>1, <1>2, <1>4, <1>5 DEF FactorStep

\* A change of the credentials that ends every session and drops everything
\* pending keeps the invariant, whatever the new settings are.
LEMMA ChangeInv ==
    ASSUME IInv, NEW r \in Requests, settings' \in Settings, RevokeSessions, Done(r),
           ReplayType', now' = now
    PROVE  IInv'
<1> USE Typed, AuthAssumption DEF IInv, RevokeSessions, None
<1>1. /\ DOMAIN tokens' = {} /\ DOMAIN challenges' = {} /\ DOMAIN setups' = {}
      /\ issued' = issued /\ generation' \in 0..MaxGeneration
  BY DEF TypeOK
<1>2. req' \in [Requests -> ReqType(issued)]
  BY DEF Done, TypeOK, ReqType
<1>3. TypeOK'
  BY <1>1, <1>2 DEF TypeOK, ReqType, ReplayType
<1>4. SessionsAreEarned' /\ PendingIsCurrent'
  BY <1>1 DEF SessionsAreEarned, PendingIsCurrent
<1>5. AdmittedIsCurrent' /\ HashIsCurrent'
  BY <1>1 DEF AdmittedIsCurrent, HashIsCurrent, Valid
<1> QED BY <1>3, <1>4, <1>5

\* The requests that change credentials, or prepare to.
LEMMA CredentialInv ==
    ASSUME IInv, NEW r \in Requests, CredentialStep(r)
    PROVE  IInv'
<1> USE Typed, AuthAssumption DEF IInv
<1>1. CASE \E new \in Passwords : ChangePassword(r, new)
  <2>1. PICK new \in Passwords : ChangePassword(r, new)
    BY <1>1
  <2>2. settings' \in Settings
    BY <2>1 DEF ChangePassword, TypeOK, Settings
  <2>3. ReplayType'
    BY <2>1 DEF ChangePassword, replay, TypeOK, ReplayType
  <2> QED BY <2>1, <2>2, <2>3, ChangeInv DEF ChangePassword
<1>2. CASE \E s \in Secrets : TOTPSetup(r, s)
  <2>1. PICK s \in Secrets : TOTPSetup(r, s)
    BY <1>2
  <2>2. /\ req[r].proof.pass = settings.pass /\ settings.pass \in Passwords
        /\ ~settings.totp /\ req[r].tok \in 1..issued
        /\ setups' = With(setups, s, [tok |-> req[r].tok, pass |-> settings.pass])
        /\ UNCHANGED <<settings, generation, tokens, issued, challenges, replay, now, left>>
        /\ Done(r)
    BY <2>1 DEF TOTPSetup, LockRequestCredentials, Credentials, Valid, TypeOK, Settings
  <2>3. TypeOK'
    BY <2>2 DEF TypeOK, ReqType, With, Done, replay
  <2>4. SessionsAreEarned' /\ PendingIsCurrent'
    BY <2>2 DEF SessionsAreEarned, PendingIsCurrent, With
  <2>5. AdmittedIsCurrent' /\ HashIsCurrent'
    BY <2>2 DEF AdmittedIsCurrent, HashIsCurrent, Valid, Done, Idle, TypeOK
  <2> QED BY <2>3, <2>4, <2>5
<1>3. CASE \E s \in Secrets, k \in Recovery : TOTPEnable(r, s, {k})
  <2>1. PICK s \in Secrets, k \in Recovery : TOTPEnable(r, s, {k})
    BY <1>3
  <2>2. settings' \in Settings
    BY <2>1 DEF TOTPEnable, TypeOK, Settings
  <2>3. ReplayType'
    BY <2>1, ResetType DEF TOTPEnable, TypeOK
  <2> QED BY <2>1, <2>2, <2>3, ChangeInv DEF TOTPEnable
<1>4. CASE \E code \in Codes : TOTPDisable(r, code)
  <2>1. PICK code \in Codes : TOTPDisable(r, code)
    BY <1>4
  <2>2. settings' \in Settings
    BY <2>1 DEF TOTPDisable, TypeOK, Settings
  <2>3. {saved} \cup {c.counter : c \in {code} \cap TotpCodes} \in SUBSET Counters
    BY DEF TypeOK
  <2>4. ReplayType'
    BY <2>1, <2>3, ResetType DEF TOTPDisable
  <2> QED BY <2>1, <2>2, <2>4, ChangeInv DEF TOTPDisable
<1>5. CASE \E code \in Codes, k \in Recovery : TOTPRegenerate(r, code, {k})
  <2>1. PICK code \in Codes, k \in Recovery : TOTPRegenerate(r, code, {k})
    BY <1>5
  <2>2. settings' \in Settings
    BY <2>1 DEF TOTPRegenerate, TypeOK, Settings
  <2>3. ReplayType'
    BY <2>1, ConfirmWithType DEF TOTPRegenerate
  <2> QED BY <2>1, <2>2, <2>3, ChangeInv DEF TOTPRegenerate
<1>6. CASE \E code \in Codes : TOTPManagementFails(r, code)
  <2>1. PICK code \in Codes : TOTPManagementFails(r, code)
    BY <1>6
  <2>2. ReplayType' /\ Done(r) /\ UNCHANGED <<settings, session, now>>
    BY <2>1, ConfirmWithType DEF TOTPManagementFails
  <2>3. TypeOK'
    BY <2>2 DEF TypeOK, ReplayType, ReqType, Done, session
  <2>4. SessionsAreEarned' /\ PendingIsCurrent'
    BY <2>2 DEF SessionsAreEarned, PendingIsCurrent, session
  <2>5. AdmittedIsCurrent' /\ HashIsCurrent'
    BY <2>2 DEF AdmittedIsCurrent, HashIsCurrent, Valid, Done, Idle, TypeOK, session
  <2> QED BY <2>3, <2>4, <2>5
<1>7. CASE \E b \in Backups, n \in {0} \cup Past : BackupImport(r, b, n)
  <2>1. PICK b \in Backups, n \in {0} \cup Past : BackupImport(r, b, n)
    BY <1>7
  <2>2. n \in Counters
    BY DEF Past, Counters, TypeOK
  <2>3. counter' \in Counters
    BY <2>1, <2>2 DEF BackupImport, TypeOK
  <2>4. saved' \in Counters /\ left' \in [Bounded -> Nat]
    BY <2>1, <2>3 DEF BackupImport, Flushed, Spend, TypeOK, Bounded
  <2>5. ReplayType'
    BY <2>1, <2>3, <2>4 DEF BackupImport, TypeOK, ReplayType
  <2> QED BY <2>1, <2>5, ChangeInv DEF BackupImport
<1> QED BY <1>1, <1>2, <1>3, <1>4, <1>5, <1>6, <1>7 DEF CredentialStep

\* What ends by itself, the clock, the retry of a failed write, and a restart.
LEMMA RestInv ==
    ASSUME IInv,
           \/ \E s \in DOMAIN setups : SetupGone(s)
           \/ \E t \in DOMAIN tokens : TokenGone(t)
           \/ Tick \/ SavedLater \/ Restart
    PROVE  IInv'
<1> USE Typed, AuthAssumption DEF IInv
<1>1. CASE \E s \in DOMAIN setups : SetupGone(s)
  <2> USE <1>1 DEF SetupGone, Without, replay
  <2>1. TypeOK'
    BY DEF TypeOK
  <2>2. SessionsAreEarned' /\ PendingIsCurrent' /\ AdmittedIsCurrent' /\ HashIsCurrent'
    BY DEF SessionsAreEarned, PendingIsCurrent, AdmittedIsCurrent, HashIsCurrent, Valid
  <2> QED BY <2>1, <2>2
<1>2. CASE \E t \in DOMAIN tokens : TokenGone(t)
  <2> USE <1>2 DEF TokenGone, Without, replay
  <2>1. TypeOK'
    BY DEF TypeOK
  <2>2. SessionsAreEarned' /\ PendingIsCurrent' /\ AdmittedIsCurrent' /\ HashIsCurrent'
    BY DEF SessionsAreEarned, PendingIsCurrent, AdmittedIsCurrent, HashIsCurrent, Valid
  <2> QED BY <2>1, <2>2
<1>3. CASE Tick \/ SavedLater
  <2> USE <1>3 DEF Tick, SavedLater, session, replay
  <2>1. TypeOK'
    BY DEF TypeOK
  <2>2. SessionsAreEarned' /\ PendingIsCurrent' /\ AdmittedIsCurrent' /\ HashIsCurrent'
    BY DEF SessionsAreEarned, PendingIsCurrent, AdmittedIsCurrent, HashIsCurrent, Valid
  <2> QED BY <2>1, <2>2
<1>4. CASE Restart
  <2> USE <1>4 DEF Restart, None
  <2>1. /\ DOMAIN tokens' = {} /\ DOMAIN challenges' = {} /\ DOMAIN setups' = {}
        /\ left' \in [Bounded -> Nat]
    BY DEF Spend, Bounded, TypeOK
  <2>2. req' \in [Requests -> ReqType(issued)]
    OBVIOUS
  <2>3. TypeOK'
    BY <2>1, <2>2 DEF TypeOK, ReqType
  <2>4. SessionsAreEarned' /\ PendingIsCurrent' /\ AdmittedIsCurrent' /\ HashIsCurrent'
    BY <2>1 DEF SessionsAreEarned, PendingIsCurrent, AdmittedIsCurrent, HashIsCurrent, Valid
  <2> QED BY <2>3, <2>4
<1> QED BY <1>1, <1>2, <1>3, <1>4

\* Every step preserves the invariant.
LEMMA InvStep == IInv /\ [Next]_vars => IInv'
<1> SUFFICES ASSUME IInv, [Next]_vars PROVE IInv'
  OBVIOUS
<1>1. CASE \E r \in Requests : LoginStep(r)
  BY <1>1, RequestInv, LoginInv DEF LoginStep
<1>2. CASE \E r \in Requests : AdmissionStep(r)
  BY <1>2, RequestInv
<1>3. CASE \E r \in Requests : CredentialStep(r)
  BY <1>3, CredentialInv
<1>4. CASE \E c \in DOMAIN challenges : FactorStep(c)
  BY <1>4, FactorInv
<1>5. CASE UNCHANGED vars
  BY <1>5 DEF vars, session, replay, IInv, TypeOK, SessionsAreEarned, PendingIsCurrent,
              AdmittedIsCurrent, HashIsCurrent, Valid
<1> QED BY <1>1, <1>2, <1>3, <1>4, <1>5, RestInv DEF Next

LEMMA Invariant == Spec => []IInv
BY InvInit, InvStep, PTL DEF Spec

-----------------------------------------------------------------------------
(* Sessions and changes                                                    *)

\* The state of the authentication keeps its type.
THEOREM TypeCorrect == Spec => []TypeOK
<1>1. IInv => TypeOK
  BY DEF IInv
<1> QED BY <1>1, Invariant, PTL

\* No session survives the credentials it was earned with.
THEOREM EverySessionIsEarned == Spec => []SessionsAreEarned
<1>1. IInv => SessionsAreEarned
  BY DEF IInv
<1> QED BY <1>1, Invariant, PTL

\* Nor does a login challenge or a setup task.
THEOREM EverythingPendingIsCurrent == Spec => []PendingIsCurrent
<1>1. IInv => PendingIsCurrent
  BY DEF IInv
<1> QED BY <1>1, Invariant, PTL

\* A confirmation is given only by Install, which looks at the session again.
THEOREM ConfirmationsAreCurrent == Spec => ConfirmedIsCurrent
<1>1. ASSUME IInv, Next
      PROVE  \A r \in Requests : req'[r].pc = "confirmed" /\ req[r].pc # "confirmed" =>
                req[r].hash = settings.pass /\ Valid(req[r].tok) /\ ~settings.must
  <2> SUFFICES ASSUME NEW r \in Requests, req'[r].pc = "confirmed", req[r].pc # "confirmed"
               PROVE  req[r].hash = settings.pass /\ Valid(req[r].tok) /\ ~settings.must
    OBVIOUS
  <2>1. Idle.pc = "idle"
    BY DEF Idle
  <2> USE <1>1, <2>1 DEF IInv, TypeOK
  <2>2. ASSUME NEW q \in Requests, LoginStep(q)
        PROVE  FALSE
    <3>1. CASE LoginProof(q)
      BY <3>1 DEF LoginProof
    <3>2. CASE \E c \in Slots, ip \in IPs : LoginFinish(q, c, ip)
      BY <3>2 DEF LoginFinish, Done
    <3> QED BY <2>2, <3>1, <3>2 DEF LoginStep
  <2>3. ASSUME NEW q \in Requests, AdmissionStep(q), ~Install(q)
        PROVE  FALSE
    <3>1. CASE \E t \in 1..issued, op \in Ops \ {"login"} : Authenticate(q, t, op)
      BY <3>1 DEF Authenticate
    <3>2. CASE Allow(q) \/ Admit(q)
      BY <3>2 DEF Allow, Admit
    <3>3. CASE Decode(q)
      BY <3>3 DEF Decode
    <3>4. CASE TakeProof(q)
      BY <3>4 DEF TakeProof
    <3>5. CASE ReadHash(q)
      BY <3>5 DEF ReadHash
    <3>6. CASE Refused(q)
      BY <3>6 DEF Refused, Done
    <3> QED BY <2>3, <3>1, <3>2, <3>3, <3>4, <3>5, <3>6 DEF AdmissionStep
  <2>4. ASSUME NEW q \in Requests, CredentialStep(q)
        PROVE  FALSE
    BY <2>4 DEF CredentialStep, ChangePassword, TOTPSetup, TOTPEnable, TOTPDisable,
                TOTPRegenerate, TOTPManagementFails, BackupImport, Done
  <2>5. ASSUME NEW c \in DOMAIN challenges, FactorStep(c)
        PROVE  FALSE
    BY <2>5 DEF FactorStep, ChallengeDropped, TOTPLoginFails, TOTPLogin, RecoveryLogin
  <2>6. ASSUME \/ \E s \in DOMAIN setups : SetupGone(s)
               \/ \E t \in DOMAIN tokens : TokenGone(t)
               \/ Tick \/ SavedLater \/ Restart
        PROVE  FALSE
    BY <2>6 DEF SetupGone, TokenGone, Tick, SavedLater, Restart
  <2>7. PICK q \in Requests : Install(q)
    BY <2>2, <2>3, <2>4, <2>5, <2>6 DEF Next
  <2>8. q = r
    BY <2>7 DEF Install
  <2> QED BY <2>7, <2>8 DEF Install, At, CurrentSession, AdmittedIsCurrent, HashIsCurrent
<1>2. IInv /\ [Next]_vars =>
        [\A r \in Requests : req'[r].pc = "confirmed" /\ req[r].pc # "confirmed" =>
            req[r].hash = settings.pass /\ Valid(req[r].tok) /\ ~settings.must]_vars
  BY <1>1
<1> QED BY <1>2, Invariant, PTL DEF Spec, ConfirmedIsCurrent

\* Who changes the settings.
LEMMA SettingsChange ==
    ASSUME IInv, Next, settings' # settings
    PROVE  \/ \E r \in Requests, new \in Passwords : ChangePassword(r, new)
           \/ \E r \in Requests, s \in Secrets, k \in Recovery : TOTPEnable(r, s, {k})
           \/ \E r \in Requests, code \in Codes : TOTPDisable(r, code)
           \/ \E r \in Requests, code \in Codes, k \in Recovery : TOTPRegenerate(r, code, {k})
           \/ \E r \in Requests, b \in Backups, n \in {0} \cup Past : BackupImport(r, b, n)
           \/ \E c \in DOMAIN challenges, ip \in IPs, code \in Recovery : RecoveryLogin(c, ip, code)
<1>1. ASSUME NEW r \in Requests, LoginStep(r) \/ AdmissionStep(r)
      PROVE  FALSE
  BY <1>1 DEF LoginStep, LoginProof, LoginFinish, AdmissionStep, Authenticate, Allow, Admit, Decode,
              TakeProof, ReadHash, Install, Refused
<1>3. ASSUME NEW r \in Requests, NEW code \in Codes, TOTPManagementFails(r, code)
      PROVE  FALSE
  BY <1>3 DEF TOTPManagementFails
<1>4. ASSUME NEW r \in Requests, NEW s \in Secrets, TOTPSetup(r, s)
      PROVE  FALSE
  BY <1>4 DEF TOTPSetup
<1>5. ASSUME NEW c \in DOMAIN challenges, FactorStep(c)
      PROVE  \E ip \in IPs, code \in Recovery : RecoveryLogin(c, ip, code)
  BY <1>5 DEF FactorStep, ChallengeDropped, TOTPLoginFails, TOTPLogin
<1>6. ASSUME \/ \E s \in DOMAIN setups : SetupGone(s)
             \/ \E t \in DOMAIN tokens : TokenGone(t)
             \/ Tick \/ SavedLater \/ Restart
      PROVE  FALSE
  BY <1>6 DEF SetupGone, TokenGone, Tick, SavedLater, Restart
<1> QED BY <1>1, <1>3, <1>4, <1>5, <1>6 DEF Next, CredentialStep

\* Of two racing changes only the first finds its proof still true.
THEOREM EveryChangeIsVerified == Spec => ChangesAreVerified
<1> DEFINE Verified ==
      <<settings.pass, settings.totp, settings.secret>>
            # <<settings'.pass, settings'.totp, settings'.secret>> =>
          \/ \E r \in Requests : Confirmed(r)
          \/ \E s \in DOMAIN setups : /\ settings'.secret = s /\ Valid(setups[s].tok)
                                      /\ setups[s].pass = settings.pass
<1>1. ASSUME IInv, Next PROVE Verified
  <2> SUFFICES ASSUME <<settings.pass, settings.totp, settings.secret>>
                        # <<settings'.pass, settings'.totp, settings'.secret>>
               PROVE  \/ \E r \in Requests : Confirmed(r)
                      \/ \E s \in DOMAIN setups : /\ settings'.secret = s /\ Valid(setups[s].tok)
                                                  /\ setups[s].pass = settings.pass
    OBVIOUS
  <2> USE <1>1 DEF IInv, TypeOK
  <2>1. Idle.pc = "idle" /\ settings' # settings
    BY DEF Idle
  <2>2. ASSUME NEW r \in Requests, LockRequestCredentials(r), Done(r), req[r].pc \in {"proved", "hashed"}
        PROVE  Confirmed(r)
    BY <2>1, <2>2 DEF LockRequestCredentials, Credentials, Done, Confirmed
  <2>3. ASSUME NEW r \in Requests, NEW new \in Passwords, ChangePassword(r, new)
        PROVE  Confirmed(r)
    BY <2>2, <2>3 DEF ChangePassword, At
  <2>4. ASSUME NEW r \in Requests, NEW s \in Secrets, NEW k \in Recovery, TOTPEnable(r, s, {k})
        PROVE  /\ s \in DOMAIN setups /\ settings'.secret = s /\ Valid(setups[s].tok)
               /\ setups[s].pass = settings.pass
    BY <2>4 DEF TOTPEnable, LookupSetup, PendingIsCurrent, Settings
  <2>5. ASSUME NEW r \in Requests, NEW code \in Codes, TOTPDisable(r, code)
        PROVE  Confirmed(r)
    BY <2>2, <2>5 DEF TOTPDisable, Confirming, At
  <2>6. ASSUME NEW r \in Requests, NEW code \in Codes, NEW k \in Recovery, TOTPRegenerate(r, code, {k})
        PROVE  Confirmed(r)
    BY <2>2, <2>6 DEF TOTPRegenerate, Confirming, At
  <2>7. ASSUME NEW r \in Requests, NEW b \in Backups, NEW n, BackupImport(r, b, n)
        PROVE  Confirmed(r)
    BY <2>2, <2>7 DEF BackupImport, At
  <2>8. ASSUME NEW c \in DOMAIN challenges, NEW ip \in IPs, NEW code \in Recovery, RecoveryLogin(c, ip, code)
        PROVE  FALSE
    BY <2>8 DEF RecoveryLogin, Settings
  <2> QED BY <2>1, <2>3, <2>4, <2>5, <2>6, <2>7, <2>8, SettingsChange
<1>2. IInv /\ [Next]_vars => [Verified]_vars
  BY <1>1
<1> QED BY <1>2, Invariant, PTL DEF Spec, ChangesAreVerified

\* A session under the initial password reaches nothing but its change.
THEOREM InitialPasswordRestricts == Spec => RestrictedUntilChanged
<1> DEFINE Restricted ==
      settings.must /\ settings' # settings =>
          \/ settings' = [settings EXCEPT !.pass = settings'.pass, !.must = FALSE]
          \/ \E code \in settings.codes : settings' = [settings EXCEPT !.codes = @ \ {code}]
<1>1. ASSUME IInv, Next PROVE Restricted
  <2> SUFFICES ASSUME settings.must, settings' # settings
               PROVE  \/ settings' = [settings EXCEPT !.pass = settings'.pass, !.must = FALSE]
                      \/ \E code \in settings.codes : settings' = [settings EXCEPT !.codes = @ \ {code}]
    OBVIOUS
  <2> USE <1>1 DEF IInv, AdmittedIsCurrent, At, LockRequestCredentials
  <2>1. ASSUME NEW r \in Requests, NEW new \in Passwords, ChangePassword(r, new)
        PROVE  settings' = [settings EXCEPT !.pass = settings'.pass, !.must = FALSE]
    BY <2>1 DEF ChangePassword, TypeOK, Settings
  <2>2. ASSUME NEW r \in Requests, NEW s \in Secrets, NEW k \in Recovery, TOTPEnable(r, s, {k})
        PROVE  FALSE
    BY <2>2 DEF TOTPEnable, LookupSetup
  <2>3. ASSUME NEW r \in Requests, NEW code \in Codes, TOTPDisable(r, code)
        PROVE  FALSE
    BY <2>3 DEF TOTPDisable, Confirming
  <2>4. ASSUME NEW r \in Requests, NEW code \in Codes, NEW k \in Recovery, TOTPRegenerate(r, code, {k})
        PROVE  FALSE
    BY <2>4 DEF TOTPRegenerate, Confirming
  <2>5. ASSUME NEW r \in Requests, NEW b \in Backups, NEW n, BackupImport(r, b, n)
        PROVE  FALSE
    BY <2>5 DEF BackupImport
  <2>6. ASSUME NEW c \in DOMAIN challenges, NEW ip \in IPs, NEW code \in Recovery, RecoveryLogin(c, ip, code)
        PROVE  \E k \in settings.codes : settings' = [settings EXCEPT !.codes = @ \ {k}]
    BY <2>6 DEF RecoveryLogin
  <2> QED BY <2>1, <2>2, <2>3, <2>4, <2>5, <2>6, SettingsChange
<1>2. IInv /\ [Next]_vars => [Restricted]_vars
  BY <1>1
<1> QED BY <1>2, Invariant, PTL DEF Spec, RestrictedUntilChanged

-----------------------------------------------------------------------------
(* Codes                                                                   *)

\* With no failing write: the counters in memory, in the state store and in
\* state.json agree or are long past, every accepted TOTP code is at most the last, and no
\* recovery code still on the list was accepted.
CountersAgree ==
    /\ left["flush"] = 0 /\ saved = counter
    /\ hasLast => last = counter /\ counter > 0
    /\ counter < now - 1 \/ (hasLast /\ \E c \in TotpCodes : used[c] > 0)

AcceptedAreSpent ==
    /\ \A c \in TotpCodes : used[c] \in {0, 1} /\ (used[c] > 0 => hasLast /\ c.counter <= last)
    /\ \A k \in Recovery : used[k] \in {0, 1} /\ (k \in settings.codes => used[k] = 0)

SingleUse == CountersAgree /\ AcceptedAreSpent

\* A TOTP code in its window was never accepted, and becomes the last.
LEMMA TakeTotpSpends ==
    ASSUME TypeOK, SingleUse, NEW code \in TotpCodes, TotpValid(code), TakeTotp(code)
    PROVE  /\ CountersAgree'
           /\ \A c \in TotpCodes : used'[c] \in {0, 1} /\ (used'[c] > 0 => hasLast' /\ c.counter <= last')
           /\ \A k \in Recovery : used'[k] = used[k]
<1> USE AuthAssumption DEF TypeOK, SingleUse, CountersAgree, AcceptedAreSpent, Counters
<1>1. code.counter \in Int /\ code.counter > 0 /\ code \in Codes /\ used[code] = 0
  BY Typed DEF TotpValid, Codes
<1>2. left' = left /\ saved' = code.counter
  BY DEF TakeTotp, Flushed, Spend
<1>3. used' = [used EXCEPT ![code] = 1]
  BY <1>1 DEF TakeTotp, Accepted
<1>4. CountersAgree'
  BY <1>1, <1>2, <1>3 DEF TakeTotp, Codes
<1>5. ASSUME NEW c \in TotpCodes
      PROVE  used'[c] \in {0, 1} /\ (used'[c] > 0 => hasLast' /\ c.counter <= last')
  BY <1>1, <1>3, Typed DEF TakeTotp, Codes, TotpValid
<1>6. \A k \in Recovery : used'[k] = used[k]
  BY <1>1, <1>3 DEF Codes
<1> QED BY <1>4, <1>5, <1>6

\* When two-factor is switched on or off, nothing was accepted yet.
LEMMA ResetForgets ==
    ASSUME TypeOK, SingleUse, NEW lag, ResetTOTPCounter(lag), now' = now
    PROVE  SingleUse'
<1> USE DEF SingleUse, CountersAgree, AcceptedAreSpent, ResetTOTPCounter
<1>1. left' = left /\ saved' = 0 /\ counter' = 0 /\ ~hasLast'
  BY DEF Spend
<1>2. \A c \in Codes : used'[c] = 0
  OBVIOUS
<1>3. 0 < now' - 1
  BY AuthAssumption DEF TypeOK
<1> QED BY <1>1, <1>2, <1>3 DEF Codes

\* A management request spends a TOTP code, and no recovery code.
LEMMA ConfirmSpends ==
    ASSUME TypeOK, SingleUse, NEW r \in Requests, NEW op, NEW code \in Codes,
           Confirming(r, op, code), ConfirmWith(code), now' = now
    PROVE  /\ CountersAgree'
           /\ \A c \in TotpCodes : used'[c] \in {0, 1} /\ (used'[c] > 0 => hasLast' /\ c.counter <= last')
           /\ \A k \in Recovery : used'[k] = used[k]
<1>1. CASE code \in TotpCodes
  <2>1. TotpValid(code)
    BY <1>1, AuthAssumption DEF Confirming, FactorValid, TypeOK, Settings
  <2> QED BY <1>1, <2>1, TakeTotpSpends DEF ConfirmWith
<1>2. CASE code \notin TotpCodes
  BY <1>2 DEF ConfirmWith, replay, SingleUse, CountersAgree, AcceptedAreSpent
<1> QED BY <1>1, <1>2

\* Steps that leave the codes and the replay protection alone.
LEMMA NothingSpent ==
    ASSUME TypeOK, SingleUse, settings' = settings, UNCHANGED replay, left'["flush"] = 0,
           now' \in {now, now + 1}
    PROVE  SingleUse'
BY DEF TypeOK, Counters, SingleUse, CountersAgree, AcceptedAreSpent, replay

\* Every step keeps what is said about the codes.
LEMMA SingleUseStep == TypeOK /\ SingleUse /\ [Next]_vars => SingleUse'
<1> SUFFICES ASSUME TypeOK, SingleUse, [Next]_vars PROVE SingleUse'
  OBVIOUS
<1> USE AuthAssumption
<1>1. left["flush"] = 0 /\ (UNCHANGED left => left'["flush"] = 0)
  BY DEF SingleUse, CountersAgree
<1>2. ASSUME NEW r \in Requests, LoginStep(r) \/ AdmissionStep(r) PROVE SingleUse'
  <2>1. settings' = settings /\ now' = now /\ UNCHANGED <<replay, left>>
    BY <1>2 DEF LoginStep, LoginProof, LoginFinish, AdmissionStep, Authenticate, Allow, Admit, Decode,
                TakeProof, ReadHash, Install, Refused
  <2> QED BY <1>1, <2>1, NothingSpent
<1>3. ASSUME NEW c \in DOMAIN challenges, FactorStep(c) PROVE SingleUse'
  <2>1. CASE ChallengeDropped(c) \/ \E ip \in IPs : TOTPLoginFails(c, ip)
    BY <1>1, <2>1, NothingSpent DEF ChallengeDropped, TOTPLoginFails
  <2>2. ASSUME NEW ip \in IPs, NEW code \in TotpCodes, TOTPLogin(c, ip, code) PROVE SingleUse'
    BY <2>2, TakeTotpSpends DEF TOTPLogin, SingleUse, AcceptedAreSpent
  <2>3. ASSUME NEW ip \in IPs, NEW code \in Recovery, RecoveryLogin(c, ip, code) PROVE SingleUse'
    <3>1. code \in Codes /\ used[code] = 0
      BY <2>3 DEF RecoveryLogin, Codes, SingleUse, AcceptedAreSpent
    <3>2. used' = [used EXCEPT ![code] = used[code] + 1]
      BY <2>3 DEF RecoveryLogin, Accepted
    <3>3. code \in Codes /\ used[code] = 0 /\ used' = [used EXCEPT ![code] = 1]
      BY <3>1, <3>2
    <3>4. \A k \in Recovery : k \in settings'.codes => k \in settings.codes /\ k # code
      BY <2>3 DEF RecoveryLogin, TypeOK, Settings
    <3>5. \A k \in Codes : used'[k] = IF k = code THEN 1 ELSE used[k]
      BY <3>3 DEF TypeOK
    <3>6. CountersAgree'
      BY <2>3, <3>5 DEF RecoveryLogin, SingleUse, CountersAgree, Codes
    <3>7. AcceptedAreSpent'
      BY <2>3, <3>4, <3>5 DEF RecoveryLogin, SingleUse, AcceptedAreSpent, Codes
    <3> QED BY <3>6, <3>7 DEF SingleUse
  <2> QED BY <1>3, <2>1, <2>2, <2>3 DEF FactorStep
<1>4. ASSUME NEW r \in Requests, CredentialStep(r) PROVE SingleUse'
  <2>1. ASSUME NEW new \in Passwords, ChangePassword(r, new) PROVE SingleUse'
    BY <2>1 DEF ChangePassword, replay, SingleUse, CountersAgree, AcceptedAreSpent, TypeOK, Settings
  <2>2. ASSUME NEW s \in Secrets, TOTPSetup(r, s) PROVE SingleUse'
    BY <1>1, <2>2, NothingSpent DEF TOTPSetup
  <2>3. ASSUME NEW s \in Secrets, NEW k \in Recovery, TOTPEnable(r, s, {k}) PROVE SingleUse'
    BY <2>3, ResetForgets DEF TOTPEnable
  <2>4. ASSUME NEW code \in Codes, TOTPDisable(r, code) PROVE SingleUse'
    BY <2>4, ResetForgets DEF TOTPDisable
  <2>5. ASSUME NEW code \in Codes, TOTPManagementFails(r, code) PROVE SingleUse'
    BY <2>5, ConfirmSpends DEF TOTPManagementFails, SingleUse, AcceptedAreSpent
  <2>6. ASSUME NEW code \in Codes, NEW k \in Recovery, TOTPRegenerate(r, code, {k}) PROVE SingleUse'
    <3>1. settings'.codes = {k} /\ used[k] = 0
      BY <2>6 DEF TOTPRegenerate, TypeOK, Settings
    <3>2. /\ CountersAgree'
          /\ \A c \in TotpCodes : used'[c] \in {0, 1} /\ (used'[c] > 0 => hasLast' /\ c.counter <= last')
          /\ \A j \in Recovery : used'[j] = used[j]
      BY <2>6, ConfirmSpends DEF TOTPRegenerate
    <3>3. AcceptedAreSpent'
      BY <3>1, <3>2 DEF SingleUse, AcceptedAreSpent
    <3> QED BY <3>2, <3>3 DEF SingleUse
  <2>7. ASSUME NEW b \in Backups, NEW n \in {0} \cup Past, BackupImport(r, b, n) PROVE SingleUse'
    <3>1. /\ \A c \in TotpCodes : used'[c] = used[c]
          /\ \A k \in Recovery : used'[k] = IF k \in b.codes THEN 0 ELSE used[k]
      BY <2>7 DEF BackupImport, Codes, Settings
    <3>2. saved' = counter' /\ left'["flush"] = 0
      BY <1>1, <2>7 DEF BackupImport, Flushed, Spend, SingleUse, CountersAgree
    <3>3. counter' = counter \/ (counter = 0 /\ counter' = n)
      BY <2>7 DEF BackupImport
    <3>4. /\ hasLast => counter' = counter
          /\ counter' = counter \/ counter' < now - 1
      BY <3>3 DEF SingleUse, CountersAgree, Past, TypeOK
    <3>5. CountersAgree'
      BY <2>7, <3>1, <3>2, <3>4 DEF BackupImport, SingleUse, CountersAgree
    <3>6. AcceptedAreSpent'
      BY <2>7, <3>1 DEF BackupImport, SingleUse, AcceptedAreSpent
    <3> QED BY <3>5, <3>6 DEF SingleUse
  <2> QED BY <1>4, <2>1, <2>2, <2>3, <2>4, <2>5, <2>6, <2>7 DEF CredentialStep
<1>5. CASE \/ \E s \in DOMAIN setups : SetupGone(s)
           \/ \E t \in DOMAIN tokens : TokenGone(t)
           \/ Tick
  BY <1>1, <1>5, NothingSpent DEF SetupGone, TokenGone, Tick
<1>6. CASE SavedLater
  BY <1>6 DEF SavedLater, SingleUse, CountersAgree
<1>7. CASE Restart
  <2>1. left'["flush"] = 0
    BY <1>1, <1>7 DEF Restart, Spend, TypeOK, Bounded
  <2> QED BY <1>7, <2>1 DEF Restart, SingleUse, CountersAgree, AcceptedAreSpent, TypeOK, Counters
<1>8. CASE UNCHANGED vars
  BY <1>1, <1>8, NothingSpent DEF vars
<1> QED BY <1>2, <1>3, <1>4, <1>5, <1>6, <1>7, <1>8 DEF Next

LEMMA SingleUseHolds == ASSUME Budget["flush"] = 0 PROVE Spec => []SingleUse
<1>1. Init => SingleUse
  BY AuthAssumption DEF Init, SingleUse, CountersAgree, AcceptedAreSpent, Codes
<1> QED BY <1>1, SingleUseStep, TypeCorrect, PTL DEF Spec

\* As long as every write of state.json succeeds no code is accepted twice,
\* across any number of restarts. With a failing write one can be: see the
\* replay run.
THEOREM NoCodeTwice == ASSUME Budget["flush"] = 0 PROVE Spec => []CodesAreSingleUse
<1>1. TypeOK /\ SingleUse => CodesAreSingleUse
  BY DEF SingleUse, AcceptedAreSpent, CodesAreSingleUse, Codes
<1> QED BY <1>1, SingleUseHolds, TypeCorrect, PTL

\* As long as every write succeeds, a counter of an older secret never keeps
\* the first code of a new one out.
THEOREM FirstCodeIsAccepted == ASSUME Budget["flush"] = 0 PROVE Spec => []FirstCodeWorks
<1>1. TypeOK /\ SingleUse => FirstCodeWorks
  BY DEF SingleUse, CountersAgree, FirstCodeWorks, Codes, TypeOK
<1> QED BY <1>1, SingleUseHolds, TypeCorrect, PTL

=============================================================================
