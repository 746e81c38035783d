----------------------------- MODULE AdminAuth -----------------------------
(***************************************************************************)
(* Authentication of the management API (src/internal/api, src/internal/   *)
(* auth): logins with a password and, when two-factor is on, a TOTP or     *)
(* recovery code; sessions; and the operations that change credentials.    *)
(*                                                                         *)
(* bcrypt runs outside twoFactorMu, so a handler takes a proof (the        *)
(* credentials it will check against), releases the lock, verifies, and    *)
(* must find the proof unchanged when it locks again.  A step is one       *)
(* critical section of twoFactorMu or one read outside it.  A bcrypt hash  *)
(* is the password it belongs to.  Rate limits, bad input and wrong        *)
(* passwords end a request without a change: Refused.                      *)
(***************************************************************************)
EXTENDS Integers, FiniteSets

CONSTANTS
    Requests,    \* handler goroutines
    IPs,         \* direct addresses of clients
    Passwords, Secrets, NoSecret,
    Recovery,    \* recovery codes
    Backups,     \* settings a backup may bring in
    Starts,      \* settings the program may start with
    Initial,     \* the initial password
    Slots,       \* room for login challenges
    MaxAttempts, \* codes tried per login challenge
    MaxTime, MaxTokens, MaxGeneration,  \* bounds
    Budget       \* how often a write of state.json fails, and the program restarts

Ops == {"login", "password", "setup", "enable", "disable", "regenerate", "import", "install"}
Bounded == {"flush", "restart"}

Counters == 0..(MaxTime + 1)
TotpCodes == [secret : Secrets, counter : Counters]
Codes == TotpCodes \cup Recovery
Settings == [pass : Passwords, must : BOOLEAN, totp : BOOLEAN,
             secret : Secrets \cup {NoSecret}, codes : SUBSET Recovery]
Grants == [pass : Passwords, secret : Secrets \cup {NoSecret}]

ASSUME AuthAssumption ==
    /\ NoSecret \notin Secrets /\ Recovery \cap TotpCodes = {}
    /\ Initial \in Passwords /\ Starts \subseteq Settings /\ Backups \subseteq Settings
    /\ MaxTime \in Nat \ {0, 1} /\ MaxTokens \in Nat /\ MaxAttempts \in Nat /\ MaxGeneration \in Nat
    /\ Budget \in [Bounded -> Nat]

VARIABLES
    settings,        \* cfg.Settings, in memory and in config.json alike
    generation,      \* authGeneration
    tokens, issued,  \* live session -> what was verified for it; number of sessions issued
    challenges,      \* login challenge -> client, generation, verified password, attempts
    setups,          \* secret of a setup task -> its session and the password it was begun with
    last, hasLast,   \* lastTOTPCounter, hasLastTOTPCounter
    counter, saved,  \* TOTPLastCounter in the state store, and in state.json
    now,             \* the current 30-second period
    req,             \* the requests under way
    used,            \* history: how often each code was accepted, see Renewed
    left             \* what is left of Budget

session == <<generation, tokens, issued, challenges, setups>>
replay  == <<last, hasLast, counter, saved, used>>
vars    == <<settings, session, replay, now, req, left>>

-----------------------------------------------------------------------------

Spend(what) == left[what] > 0 /\ left' = [left EXCEPT ![what] = @ - 1]

\* credentialsLocked: what a handler verifies against.
Credentials == [gen |-> generation, pass |-> settings.pass,
                totp |-> settings.totp, secret |-> settings.secret]

Factor(s) == IF s.totp THEN s.secret ELSE NoSecret
NoProof == [gen |-> 0, pass |-> Initial, totp |-> FALSE, secret |-> NoSecret]
Idle == [pc |-> "idle", op |-> "login", tok |-> 0, gen |-> 0, proof |-> NoProof,
         hash |-> Initial]

None == [x \in {} |-> 0]
Without(f, K) == [x \in DOMAIN f \ K |-> f[x]]
With(f, x, v) == [y \in DOMAIN f \cup {x} |-> IF y = x THEN v ELSE f[y]]

Init ==
    /\ settings \in Starts
    /\ generation = 0 /\ tokens = None /\ issued = 0
    /\ challenges = None /\ setups = None
    /\ last = 0 /\ hasLast = FALSE /\ counter = 0 /\ saved = 0
    /\ now = 2
    /\ req = [r \in Requests |-> Idle]
    /\ used = [c \in Codes |-> 0]
    /\ left = Budget

Done(r) == req' = [req EXCEPT ![r] = Idle]
At(r, pc) == req[r].pc = pc

\* The session is live and the request's own.
Valid(t) == t \in DOMAIN tokens

\* CurrentSession: nothing was revoked since the request was admitted.
CurrentSession(r) == req[r].gen = generation /\ Valid(req[r].tok)

\* Bug variant: the session is not looked at again.
LockRequestCredentials_noSession(r) == req[r].proof = Credentials

LockRequestCredentials(r) == req[r].proof = Credentials /\ Valid(req[r].tok)

\* Bug variant: login challenges survive a change of the credentials.
RevokeSessions_keepsChallenges ==
    /\ generation < MaxGeneration /\ generation' = generation + 1
    /\ tokens' = None /\ setups' = None
    /\ UNCHANGED <<challenges, issued>>

RevokeSessions ==
    /\ generation < MaxGeneration /\ generation' = generation + 1
    /\ tokens' = None /\ challenges' = None /\ setups' = None
    /\ UNCHANGED issued

Issue(grant) ==
    /\ issued < MaxTokens
    /\ issued' = issued + 1
    /\ tokens' = With(tokens, issued', grant)

-----------------------------------------------------------------------------
(* verifyFactorLocked                                                      *)

TotpValid(code) ==
    /\ settings.totp /\ code.secret = settings.secret
    /\ code.counter \in (now - 1)..(now + 1)
    /\ hasLast => code.counter > last

FactorValid(code) ==
    \/ code \in TotpCodes /\ TotpValid(code)
    \/ settings.totp /\ code \in settings.codes

\* A code counts once more as accepted.
Accepted(code) == used' = [used EXCEPT ![code] = @ + 1]

\* The counter is written through to state.json; an error is only logged.
Flushed(n) == (saved' = n /\ UNCHANGED left) \/ (saved' = saved /\ Spend("flush"))

TakeTotp(code) ==
    /\ last' = code.counter /\ hasLast' = TRUE
    /\ counter' = code.counter /\ Flushed(code.counter)
    /\ Accepted(code)

\* A management request confirms with a code; only a TOTP code leaves a trace.
ConfirmWith(code) ==
    IF code \in TotpCodes THEN TakeTotp(code) ELSE UNCHANGED <<replay, left>>

\* Bug variant: the counter of the old secret stays in the state store.
ResetTOTPCounter_inMemory(lag) ==
    /\ last' = last /\ hasLast' = FALSE /\ used' = [c \in Codes |-> 0]
    /\ UNCHANGED <<counter, saved, left>>

\* hasLastTOTPCounter = false and resetTOTPCounter; from here on the codes
\* accepted so far no longer count as used. If the write fails, state.json holds
\* one of the values in lag.
ResetTOTPCounter(lag) ==
    /\ last' = last /\ hasLast' = FALSE /\ used' = [c \in Codes |-> 0]
    /\ counter' = 0
    /\ (saved' = 0 /\ UNCHANGED left) \/ (saved' \in lag /\ Spend("flush"))

-----------------------------------------------------------------------------
(* Logging in                                                              *)

LoginProof(r) ==
    /\ At(r, "idle")
    /\ req' = [req EXCEPT ![r] = [Idle EXCEPT !.pc = "proved", !.proof = Credentials]]
    /\ UNCHANGED <<settings, session, replay, now, left>>

\* issueLoginChallengeLocked: when there is no room an arbitrary one makes way.
IssueChallenge(c, ip, pass) ==
    /\ c \notin DOMAIN challenges \/ DOMAIN challenges = Slots
    /\ challenges' = With(challenges, c, [ip |-> ip, gen |-> generation, pass |-> pass,
                                          attempts |-> 0])

\* The password was right for the proof that was taken before bcrypt.
Granted(proof, c, ip) ==
    IF proof.totp
    THEN IssueChallenge(c, ip, proof.pass) /\ UNCHANGED <<generation, tokens, issued, setups>>
    ELSE /\ Issue([pass |-> proof.pass, secret |-> NoSecret])
         /\ UNCHANGED <<generation, challenges, setups>>

\* Bug variant: the proof is not compared after bcrypt.
LoginFinish_noProof(r, c, ip) ==
    /\ At(r, "proved") /\ req[r].op = "login"
    /\ Granted(req[r].proof, c, ip)
    /\ Done(r)
    /\ UNCHANGED <<settings, replay, now, left>>

LoginFinish(r, c, ip) ==
    /\ At(r, "proved") /\ req[r].op = "login"
    /\ req[r].proof = Credentials
    /\ Granted(req[r].proof, c, ip)
    /\ Done(r)
    /\ UNCHANGED <<settings, replay, now, left>>

\* handleTOTPLogin drops a challenge that is stale or used up. It is also
\* dropped when its five minutes are over and a login clears the table.
ChallengeDropped(c) ==
    /\ challenges' = Without(challenges, {c})
    /\ UNCHANGED <<settings, generation, tokens, issued, setups, replay, now, req, left>>

\* Bug variant: the attempts are counted but not limited.
Usable_unlimited(c, ip) == challenges[c].gen = generation /\ challenges[c].ip = ip

Usable(c, ip) ==
    /\ challenges[c].gen = generation
    /\ challenges[c].attempts < MaxAttempts
    /\ challenges[c].ip = ip

\* A wrong code, or a recovery code whose removal cannot be saved.
TOTPLoginFails(c, ip) ==
    /\ Usable(c, ip)
    /\ challenges' = [challenges EXCEPT ![c].attempts = @ + 1]
    /\ UNCHANGED <<settings, generation, tokens, issued, setups, replay, now, req, left>>

TOTPLogin(c, ip, code) ==
    /\ Usable(c, ip) /\ TotpValid(code)
    /\ TakeTotp(code)
    /\ challenges' = Without(challenges, {c})
    /\ Issue([pass |-> challenges[c].pass, secret |-> code.secret])
    /\ UNCHANGED <<settings, generation, setups, now, req>>

\* Bug variant: the recovery code is compared but not consumed.
RecoveryLogin_keepsCode(c, ip, code) ==
    /\ Usable(c, ip) /\ settings.totp /\ code \in settings.codes
    /\ Accepted(code)
    /\ challenges' = Without(challenges, {c})
    /\ Issue([pass |-> challenges[c].pass, secret |-> settings.secret])
    /\ UNCHANGED <<settings, generation, setups, last, hasLast, counter, saved, now, req, left>>

\* A recovery code is removed from the saved configuration before it counts.
RecoveryLogin(c, ip, code) ==
    /\ Usable(c, ip) /\ settings.totp /\ code \in settings.codes
    /\ settings' = [settings EXCEPT !.codes = @ \ {code}]
    /\ Accepted(code)
    /\ challenges' = Without(challenges, {c})
    /\ Issue([pass |-> challenges[c].pass, secret |-> settings.secret])
    /\ UNCHANGED <<generation, setups, last, hasLast, counter, saved, now, req, left>>

-----------------------------------------------------------------------------
(* Requests of a logged-in client                                          *)

\* requireAuth: the cookie is checked first ...
Authenticate(r, t, op) ==
    /\ At(r, "idle") /\ Valid(t)
    /\ req' = [req EXCEPT ![r] = [Idle EXCEPT !.pc = "valid", !.op = op, !.tok = t]]
    /\ UNCHANGED <<settings, session, replay, now, left>>

\* ... then the first-login restriction ...
Allow(r) ==
    /\ At(r, "valid")
    /\ settings.must => req[r].op = "password"
    /\ req' = [req EXCEPT ![r].pc = "allowed"]
    /\ UNCHANGED <<settings, session, replay, now, left>>

\* ... and admitSession takes the generation, which may be another by now.
Admit(r) ==
    /\ At(r, "allowed")
    /\ req' = [req EXCEPT ![r].pc = "admitted", ![r].gen = generation]
    /\ UNCHANGED <<settings, session, replay, now, left>>

\* DecodeBody: the body may have taken long.
Decode(r) ==
    /\ At(r, "admitted") /\ CurrentSession(r)
    /\ req' = [req EXCEPT ![r].pc = "decoded"]
    /\ UNCHANGED <<settings, session, replay, now, left>>

TakeProof(r) ==
    /\ At(r, "decoded") /\ req[r].op \in {"password", "setup", "disable", "regenerate", "import"}
    /\ req' = [req EXCEPT ![r].pc = "proved", ![r].proof = Credentials]
    /\ UNCHANGED <<settings, session, replay, now, left>>

\* An import reads the hash again after its proof; the handlers of the other
\* modules (installing an update or a runtime, clearing logs) read only that.
ReadHash(r) ==
    /\ \/ At(r, "proved") /\ req[r].op = "import"
       \/ At(r, "decoded") /\ req[r].op = "install"
    /\ req' = [req EXCEPT ![r].pc = "hashed", ![r].hash = settings.pass]
    /\ UNCHANGED <<settings, session, replay, now, left>>

\* Bug variant: the session is not looked at again after bcrypt.
Install_noRecheck(r) ==
    /\ At(r, "hashed") /\ req[r].op = "install"
    /\ req' = [req EXCEPT ![r].pc = "confirmed"]
    /\ UNCHANGED <<settings, session, replay, now, left>>

\* The password was right for the hash read: the request goes on to act.
Install(r) ==
    /\ At(r, "hashed") /\ req[r].op = "install"
    /\ CurrentSession(r)
    /\ req' = [req EXCEPT ![r].pc = "confirmed"]
    /\ UNCHANGED <<settings, session, replay, now, left>>

ChangePassword(r, new) ==
    /\ At(r, "proved") /\ req[r].op = "password" /\ LockRequestCredentials(r)
    /\ settings' = [settings EXCEPT !.pass = new, !.must = FALSE]
    /\ RevokeSessions
    /\ Done(r)
    /\ UNCHANGED <<replay, now, left>>

TOTPSetup(r, s) ==
    /\ At(r, "proved") /\ req[r].op = "setup" /\ ~settings.totp /\ LockRequestCredentials(r)
    /\ s \notin DOMAIN setups
    /\ setups' = With(setups, s, [tok |-> req[r].tok, pass |-> req[r].proof.pass])
    /\ Done(r)
    /\ UNCHANGED <<settings, generation, tokens, issued, challenges, replay, now, left>>

\* Cancelled by its owner, expired, pushed out by younger ones, or looked up
\* with a cookie it is not bound to.
SetupGone(s) ==
    /\ setups' = Without(setups, {s})
    /\ UNCHANGED <<settings, generation, tokens, issued, challenges, replay, now, req, left>>

LookupSetup(r, s) == Valid(req[r].tok) /\ s \in DOMAIN setups /\ setups[s].tok = req[r].tok

\* The code was right for the new secret. It is not remembered as used.
TOTPEnable(r, s, codes) ==
    /\ At(r, "decoded") /\ req[r].op = "enable" /\ LookupSetup(r, s)
    /\ ~settings.totp
    /\ settings' = [settings EXCEPT !.totp = TRUE, !.secret = s, !.codes = codes]
    /\ ResetTOTPCounter({saved})
    /\ RevokeSessions
    /\ Done(r)
    /\ UNCHANGED now

Confirming(r, op, code) ==
    At(r, "proved") /\ req[r].op = op /\ LockRequestCredentials(r) /\ FactorValid(code)

\* The code is remembered and then forgotten with all the others.
TOTPDisable(r, code) ==
    /\ Confirming(r, "disable", code)
    /\ settings' = [settings EXCEPT !.totp = FALSE, !.secret = NoSecret, !.codes = {}]
    /\ ResetTOTPCounter({saved} \cup {c.counter : c \in {code} \cap TotpCodes})
    /\ RevokeSessions
    /\ Done(r)
    /\ UNCHANGED now

\* The new recovery codes are random, none was ever used.
TOTPRegenerate(r, code, codes) ==
    /\ Confirming(r, "regenerate", code) /\ \A k \in codes : used[k] = 0
    /\ settings' = [settings EXCEPT !.codes = codes]
    /\ ConfirmWith(code)
    /\ RevokeSessions
    /\ Done(r)
    /\ UNCHANGED now

\* The new settings cannot be saved: the code is spent all the same.
TOTPManagementFails(r, code) ==
    /\ Confirming(r, req[r].op, code) /\ req[r].op \in {"disable", "regenerate"}
    /\ ConfirmWith(code)
    /\ Done(r)
    /\ UNCHANGED <<settings, session, now>>

\* The periods whose codes are accepted no more.
Past == 1..(now - 2)

\* The backup's recovery codes count as unused. A backup of an old version may
\* carry a counter n, of a period long past, which the state store takes (seed)
\* where it has none; n = 0 stands for any other backup.
BackupImport(r, b, n) ==
    /\ At(r, "hashed") /\ req[r].op = "import" /\ LockRequestCredentials(r)
    /\ settings' = b
    /\ used' = [c \in Codes |-> IF c \in b.codes THEN 0 ELSE used[c]]
    /\ RevokeSessions
    /\ counter' = IF counter = 0 THEN n ELSE counter
    /\ IF n = 0 THEN UNCHANGED <<saved, left>> ELSE Flushed(counter')
    /\ Done(r)
    /\ UNCHANGED <<last, hasLast, now>>

\* Refused for a reason the other guards do not give: rate limit, malformed
\* body, wrong password, no verification slot, failing save; or it is done.
Refused(r) ==
    /\ ~At(r, "idle")
    /\ Done(r)
    /\ UNCHANGED <<settings, session, replay, now, left>>

-----------------------------------------------------------------------------
(* Sessions end, time passes, the program restarts                         *)

\* Logged out, expired, or pushed out by the 257th.
TokenGone(t) ==
    /\ tokens' = Without(tokens, {t})
    /\ UNCHANGED <<settings, generation, issued, challenges, setups, replay, now, req, left>>

Tick ==
    /\ now < MaxTime /\ now' = now + 1
    /\ UNCHANGED <<settings, session, replay, req, left>>

\* The state store retries a write that failed.
SavedLater ==
    /\ saved # counter /\ saved' = counter
    /\ UNCHANGED <<settings, session, last, hasLast, counter, used, now, req, left>>

\* Bug variant: the counter is not taken from the state store.
Restart_forgetsCounter ==
    /\ Spend("restart")
    /\ generation' = 0 /\ tokens' = None /\ challenges' = None /\ setups' = None
    /\ counter' = saved /\ last' = 0 /\ hasLast' = FALSE
    /\ req' = [r \in Requests |-> Idle]
    /\ UNCHANGED <<settings, issued, saved, used, now>>

\* NewServer on what was saved.
Restart ==
    /\ Spend("restart")
    /\ generation' = 0 /\ tokens' = None /\ challenges' = None /\ setups' = None
    /\ counter' = saved /\ last' = saved /\ hasLast' = (saved > 0)
    /\ req' = [r \in Requests |-> Idle]
    /\ UNCHANGED <<settings, issued, saved, used, now>>

-----------------------------------------------------------------------------

LoginStep(r) ==
    \/ LoginProof(r)
    \/ \E c \in Slots, ip \in IPs : LoginFinish(r, c, ip)

FactorStep(c) ==
    \/ ChallengeDropped(c)
    \/ \E ip \in IPs : \/ TOTPLoginFails(c, ip)
                       \/ \E code \in TotpCodes : TOTPLogin(c, ip, code)
                       \/ \E code \in Recovery : RecoveryLogin(c, ip, code)

AdmissionStep(r) ==
    \/ \E t \in 1..issued, op \in Ops \ {"login"} : Authenticate(r, t, op)
    \/ Allow(r) \/ Admit(r) \/ Decode(r) \/ TakeProof(r) \/ ReadHash(r) \/ Install(r) \/ Refused(r)

CredentialStep(r) ==
    \/ \E new \in Passwords : ChangePassword(r, new)
    \/ \E s \in Secrets : TOTPSetup(r, s)
    \/ \E s \in Secrets, k \in Recovery : TOTPEnable(r, s, {k})
    \/ \E code \in Codes : TOTPDisable(r, code) \/ TOTPManagementFails(r, code)
    \/ \E code \in Codes, k \in Recovery : TOTPRegenerate(r, code, {k})
    \/ \E b \in Backups, n \in {0} \cup Past : BackupImport(r, b, n)

Next ==
    \/ \E r \in Requests : LoginStep(r) \/ AdmissionStep(r) \/ CredentialStep(r)
    \/ \E c \in DOMAIN challenges : FactorStep(c)
    \/ \E s \in DOMAIN setups : SetupGone(s)
    \/ \E t \in DOMAIN tokens : TokenGone(t)
    \/ Tick \/ SavedLater \/ Restart

Spec == Init /\ [][Next]_vars

-----------------------------------------------------------------------------
(* Properties                                                              *)

Proofs == [gen : Nat, pass : Passwords, totp : BOOLEAN, secret : Secrets \cup {NoSecret}]

TypeOK ==
    /\ settings \in Settings /\ generation \in 0..MaxGeneration /\ issued \in 0..MaxTokens
    /\ DOMAIN tokens \subseteq 1..issued /\ \A t \in DOMAIN tokens : tokens[t] \in Grants
    /\ DOMAIN challenges \subseteq Slots
    /\ \A c \in DOMAIN challenges :
         challenges[c] \in [ip : IPs, gen : Nat, pass : Passwords, attempts : 0..MaxAttempts]
    /\ DOMAIN setups \subseteq Secrets
    /\ \A s \in DOMAIN setups : setups[s] \in [tok : 1..issued, pass : Passwords]
    /\ last \in Counters /\ hasLast \in BOOLEAN /\ counter \in Counters /\ saved \in Counters
    /\ now \in 2..MaxTime
    /\ req \in [Requests ->
         [pc : {"idle", "valid", "allowed", "admitted", "decoded", "proved", "hashed", "confirmed"},
          op : Ops, tok : 0..issued, gen : Nat, proof : Proofs, hash : Passwords]]
    /\ used \in [Codes -> Nat] /\ left \in [Bounded -> Nat]

\* Every live session was earned with the credentials now in force: a password
\* check against the current password and, when two-factor is on, a code of the
\* current secret; however long bcrypt took and whatever changed meanwhile.
SessionsAreEarned ==
    \A t \in DOMAIN tokens : tokens[t] = [pass |-> settings.pass, secret |-> Factor(settings)]

\* Nothing half-done outlives a change of the credentials: login challenges and
\* setup tasks belong to the current password, and no setup task is open once
\* two-factor is on.
PendingIsCurrent ==
    /\ \A c \in DOMAIN challenges :
         /\ challenges[c].gen = generation /\ challenges[c].pass = settings.pass
         /\ settings.totp
    /\ \A s \in DOMAIN setups : setups[s].pass = settings.pass /\ ~settings.totp

\* No code is accepted twice, whatever requests, imports and restarts come in
\* between: neither a TOTP code, since two-factor was last switched on or off,
\* nor a recovery code, unless a backup brings it back.
CodesAreSingleUse == \A c \in Codes : used[c] <= 1

\* The comment on resetTOTPCounter (totp.go:165-166): while no code was accepted
\* since two-factor was last switched on or off, no counter, in memory or in
\* state.json, keeps out a code of now, not even after a restart, as long as
\* every write has succeeded.
FirstCodeWorks ==
    (\A c \in TotpCodes : used[c] = 0) /\ left["flush"] = Budget["flush"] =>
        (hasLast => last < now - 1) /\ saved < now - 1

\* A password confirmation that other modules act on was made against the
\* password in force, by a session still live, with no restriction on it.
ConfirmedIsCurrent ==
    [][\A r \in Requests : req'[r].pc = "confirmed" /\ req[r].pc # "confirmed" =>
          req[r].hash = settings.pass /\ Valid(req[r].tok) /\ ~settings.must]_vars

\* Every change of the credentials was made by a live session that has shown
\* the very password it replaces: of two changes that race, the second is
\* refused.
Confirmed(r) ==
    /\ req[r].pc \in {"proved", "hashed"} /\ req'[r].pc = "idle"
    /\ req[r].proof.pass = settings.pass /\ Valid(req[r].tok)

ChangesAreVerified ==
    [][<<settings.pass, settings.totp, settings.secret>>
            # <<settings'.pass, settings'.totp, settings'.secret>> =>
          \/ \E r \in Requests : Confirmed(r)
          \/ \E s \in DOMAIN setups : /\ settings'.secret = s /\ Valid(setups[s].tok)
                                      /\ setups[s].pass = settings.pass]_vars

\* While the initial password is in force it can only be changed: no session
\* reaches any other setting, also when a backup has brought the restriction
\* back while requests were under way. Recovery codes are used up by logins.
RestrictedUntilChanged ==
    [][settings.must /\ settings' # settings =>
          \/ settings' = [settings EXCEPT !.pass = settings'.pass, !.must = FALSE]
          \/ \E code \in settings.codes : settings' = [settings EXCEPT !.codes = @ \ {code}]]_vars

=============================================================================
