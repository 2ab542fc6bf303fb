---------------------------- MODULE DeviceTrust ----------------------------
(***************************************************************************)
(* Device sessions of one account: enrollment, rotating refresh tokens,    *)
(* device trust and the recovery root, as the session coordinator keeps    *)
(* them, and the desktop's side of a refresh.  Every route here runs under *)
(* blockConcurrencyWhile and is one step; what interleaves is the protocol: *)
(* codes and challenges are issued in one call and used in a later one, and *)
(* requests and answers of a refresh are lost, delayed and repeated.       *)
(*                                                                         *)
(* Tokens are known by their credential generation.  A recovery root is an *)
(* envelope's recoveryId and verifier key; its ciphertext, which is sealed *)
(* anew under the same root when keys rotate, is left out.  The server     *)
(* stores the root a client sends: which ones clients send is Offered.     *)
(* Ephemeral enrollments, which are never trusted, are left out; so is the *)
(* deletion of the account, which is in AccountDeletion.                   *)
(***************************************************************************)
EXTENDS Integers, FiniteSets

CONSTANTS
    Device,         \* device enrollments, each made at most once
    Refreshing,     \* the devices that rotate their tokens
    NoDevice,
    Root,           \* recovery roots that clients generate
    NoRoot,         \* recovery is not configured
    Hosted,         \* sign-in through WorkOS only
    DeviceLimit,    \* hosted device limit
    MaxCodes,       \* MAX_ACTIVE_CODES_PER_ACCOUNT
    MaxChallenges,  \* bound on challenges that wait for their proof
    MaxRevision,    \* bound on account_security.revision
    MaxGeneration   \* bound on credential_generation

ASSUME TrustAssumption ==
    /\ IsFiniteSet(Device) /\ Refreshing \subseteq Device
    /\ NoDevice \notin Device /\ NoRoot \notin Root
    /\ Hosted \in BOOLEAN
    /\ {DeviceLimit, MaxCodes, MaxChallenges, MaxRevision, MaxGeneration} \subseteq Nat \ {0}

VARIABLES
    sessions,    \* device_sessions: enrollment and trust
    creds,       \* device_sessions: refresh credentials
    security,    \* the row of account_security
    codes,       \* enrollment_codes not yet used
    challenges,  \* security_challenges not yet used
    clients,     \* the session files of the devices
    used,        \* history: roots the account has had
    burned       \* history: roots that a revoked trusted device may know

history == <<used, burned>>
serverVars == <<sessions, creds, security, codes, challenges, history>>
vars == <<serverVars, clients>>

---------------------------------------------------------------------------

Revision == 0 .. MaxRevision
Token == 0 .. MaxGeneration        \* 0: no token
Policy == {"require-approval", "auto-trust-authenticated"}
Action == {"configure", "recover", "setPolicy", "updateRecovery"}

\* "gone": the row was deleted.  at orders rows by created_at; tgen 0 is NULL.
\* trust_source, which no condition reads, is left out.
Session == [state : {"none", "live", "revoked", "gone"}, trusted : BOOLEAN,
            tgen : Revision, at : 0 .. Cardinality(Device)]
NoSession == [state |-> "none", trusted |-> FALSE, tgen |-> 0, at |-> 0]

\* current and previous refresh token; grace: within prev_refresh_grace_until.
Credential == [current : Token, prev : Token, grace : BOOLEAN]
NoCredential == [current |-> 0, prev |-> 0, grace |-> FALSE]

Security == [exists : BOOLEAN, policy : Policy, revision : Revision, generation : Revision,
             recovery : Revision, root : Root \cup {NoRoot}, invalid : BOOLEAN,
             bootstrap : Device \cup {NoDevice}]
NoSecurity == [exists |-> FALSE, policy |-> "require-approval", revision |-> 1,
               generation |-> 1, recovery |-> 0, root |-> NoRoot, invalid |-> FALSE,
               bootstrap |-> NoDevice]

\* A code is known by the device that issued it for pairing; NoDevice: by the
\* admin, or not for pairing.
Code == Device \cup {NoDevice}

\* root is expected_public_key.
Challenge == [device : Device, action : Action, revision : Revision, recovery : Revision,
              root : Root]

\* refresh-reuse-detected and invalid-proof
Reuse == -1
Invalid == -2

\* stored is the last token the session file held; out: there is no session file.
Client == [stored : Token, out : BOOLEAN]
NoClient == [stored |-> 0, out |-> TRUE]
SignedIn == [stored |-> 1, out |-> FALSE]

Rows == {d \in Device : sessions[d].state \in {"live", "revoked"}}
LiveDevices == {d \in Device : sessions[d].state = "live"}
Trusted(d) == sessions[d].state = "live" /\ sessions[d].trusted
Enrolled == {d \in Device : sessions[d].state # "none"}

\* A deployment upgraded to device trust may have pending sessions and no
\* security row yet.
Init ==
    \E legacy \in {{}} \cup {{d} : d \in Device \ Refreshing} :
        /\ sessions = [d \in Device |->
               IF d \in legacy THEN [NoSession EXCEPT !.state = "live", !.at = 1] ELSE NoSession]
        /\ creds = [d \in Device |->
               IF d \in legacy THEN [NoCredential EXCEPT !.current = 1] ELSE NoCredential]
        /\ clients = [d \in Device |->
               IF d \in legacy THEN SignedIn ELSE NoClient]
        /\ security = NoSecurity
        /\ codes = {} /\ challenges = {} /\ used = {} /\ burned = {}

---------------------------------------------------------------------------
(* Enrollment.                                                             *)

DefaultPolicy == IF Hosted THEN "auto-trust-authenticated" ELSE "require-approval"

\* ensureAccountSecurity: the row is made once; the oldest enrollment, live or
\* not, becomes the bootstrap enrollment.
Ensured(policy) ==
    LET row == IF security.exists THEN security
               ELSE [NoSecurity EXCEPT !.exists = TRUE, !.policy = policy]
        oldest == CHOOSE d \in Rows : \A e \in Rows : sessions[d].at <= sessions[e].at
    IN IF row.bootstrap = NoDevice /\ Rows # {}
       THEN [row EXCEPT !.bootstrap = oldest] ELSE row

\* handleIssueCode
IssueCode(c) ==
    /\ ~Hosted
    /\ c # NoDevice => sessions[c].state = "live"
    /\ Cardinality(codes) < MaxCodes
    /\ codes' = codes \cup {c}
    /\ UNCHANGED <<sessions, creds, security, challenges, history, clients>>

\* Mutant: a pairing code carries the trust its issuer had.
PairsIssued(c) == c # NoDevice

\* A pairing code makes trusted only while its issuer is.
Pairs(c) == c # NoDevice /\ Trusted(c)

\* Whether an enrollment, by sign-in or by a code that pairs, is trusted at once.
InitialTrust(signIn, paired, row) ==
    \/ Rows = {} /\ row.bootstrap = NoDevice
    \/ signIn /\ row.policy = "auto-trust-authenticated"
    \/ paired

DeviceLimitHolds == Hosted => Cardinality(LiveDevices) < DeviceLimit

\* handleEnroll and issueTokens
Enrolls(d, signIn, paired) ==
    LET row == Ensured(IF signIn THEN DefaultPolicy ELSE "require-approval")
        trusted == InitialTrust(signIn, paired, row)
    IN /\ sessions[d].state = "none"
       /\ DeviceLimitHolds
       /\ security' = row
       /\ sessions' = [sessions EXCEPT ![d] =
              [state |-> "live", trusted |-> trusted,
               tgen |-> IF trusted THEN row.generation ELSE 0,
               at |-> Cardinality(Enrolled) + 1]]
       /\ creds' = [creds EXCEPT ![d] = [NoCredential EXCEPT !.current = 1]]
       /\ clients' = [clients EXCEPT ![d] = SignedIn]
       /\ UNCHANGED <<challenges, history>>

SignIn(d) == Enrolls(d, TRUE, FALSE) /\ UNCHANGED codes
EnrollWithCode(d, c) == c \in codes /\ codes' = codes \ {c} /\ Enrolls(d, FALSE, Pairs(c))

\* The epoch of the account cannot be read: the new row is removed again and the
\* security row stays.
Fails(policy) ==
    /\ DeviceLimitHolds
    /\ security' = Ensured(policy)
    /\ UNCHANGED <<sessions, creds, challenges, history, clients>>

SignInFails == Fails(DefaultPolicy) /\ UNCHANGED codes

\* The code is spent.
EnrollFails(c) == c \in codes /\ codes' = codes \ {c} /\ Fails("require-approval")

---------------------------------------------------------------------------
(* Revocation and the recovery root.                                       *)

\* invalidateRecoveryOnTrustedRevoke
RevokedSecurity(d) ==
    IF Trusted(d) /\ security.root # NoRoot /\ ~security.invalid
    THEN [security EXCEPT !.revision = @ + 1, !.generation = @ + 1, !.recovery = @ + 1,
                          !.invalid = TRUE]
    ELSE security

\* The row of a session that ends, for whatever reason.
Ended(s) == [s EXCEPT !.state = "revoked", !.trusted = FALSE]

EndSession(d) ==
    /\ RevokedSecurity(d).revision <= MaxRevision
    /\ security' = RevokedSecurity(d)
    /\ burned' = IF Trusted(d) /\ security.root # NoRoot THEN burned \cup {security.root} ELSE burned
    /\ UNCHANGED used
    /\ sessions' = [sessions EXCEPT ![d] = Ended(@)]

\* handleRevoke, device.revoke and the website's revoke
Revoke(d) ==
    /\ sessions[d].state = "live"
    /\ EndSession(d)
    /\ UNCHANGED <<creds, codes, challenges, clients>>

---------------------------------------------------------------------------
(* Security operations of live devices.                                    *)

\* security.get: creates the row, or its bootstrap enrollment
SecurityGet(d) ==
    /\ sessions[d].state = "live"
    /\ security' = Ensured("require-approval")
    /\ UNCHANGED <<sessions, creds, codes, challenges, history, clients>>

\* canMaintainInvalidatedRecovery: devices trusted since the root was
\* invalidated never held it.
CanMaintain(d) == Trusted(d) /\ (security.invalid => sessions[d].tgen < security.generation)

\* handleSecurityChallenge
SecurityChallenge(d, action) ==
    /\ sessions[d].state = "live"
    /\ security.root # NoRoot
    /\ IF action = "recover" THEN ~security.invalid ELSE CanMaintain(d)
    /\ Cardinality(challenges) < MaxChallenges
    /\ challenges' = challenges \cup
           {[device |-> d, action |-> action, revision |-> security.revision,
             recovery |-> security.recovery, root |-> security.root]}
    /\ UNCHANGED <<sessions, creds, security, codes, history, clients>>

\* consumeSecurityProof: the challenge is of this state of the account.
Consume(ch) ==
    /\ ch \in challenges
    /\ sessions[ch.device].state = "live"
    /\ ch.revision = security.revision
    /\ ch.recovery = security.recovery
    /\ challenges' = challenges \ {ch}

\* The roots a client sends: createRecoverySetup makes one of a random secret and
\* id, refreshDeviceRecovery keeps the one that is current.  That no client sends
\* an older one is assumed: the server would store it.
Offered(root) == root = security.root \/ root \notin used

\* Mutant: a burned root may be kept.
ReplacesBurnedAny(root) == TRUE

\* fresh-recovery-root-required
ReplacesBurned(root) == security.invalid => root # security.root

\* The first handleSecurityConfigure, by the bootstrap enrollment; a legacy
\* session becomes trusted with it.
ConfigureFirst(d, policy, root) ==
    LET row == Ensured("require-approval")
    IN /\ sessions[d].state = "live"
       /\ Offered(root)
       /\ row.root = NoRoot
       /\ row.bootstrap = d
       /\ row.revision < MaxRevision
       /\ security' = [row EXCEPT !.policy = policy, !.revision = @ + 1, !.recovery = @ + 1,
                                  !.root = root]
       /\ used' = used \cup {root}
       /\ sessions' = IF sessions[d].trusted THEN sessions
                      ELSE [sessions EXCEPT ![d].trusted = TRUE, ![d].tgen = row.generation]
       /\ UNCHANGED <<creds, codes, challenges, burned, clients>>

\* handleSecurityConfigure of a configured root.  The proof covers the body, so
\* the root was chosen when the challenge was issued; choosing it here is the same,
\* as the challenge serves only for the revisions of then.
Configure(ch, policy, root) ==
    /\ ch.action = "configure"
    /\ ~security.invalid
    /\ Consume(ch)
    /\ Offered(root)
    /\ security.revision < MaxRevision
    /\ security' = [security EXCEPT !.policy = policy, !.revision = @ + 1, !.recovery = @ + 1,
                                    !.root = root]
    /\ used' = used \cup {root}
    /\ UNCHANGED <<sessions, creds, codes, burned, clients>>

\* handleSecurityUpdateRecovery, which seals the account's keys again under the
\* present root or replaces it, an invalidated one always
UpdateRecovery(ch, root) ==
    /\ ch.action = "updateRecovery"
    /\ CanMaintain(ch.device)
    /\ ReplacesBurned(root)
    /\ Consume(ch)
    /\ Offered(root)
    /\ security.revision < MaxRevision
    /\ security' = [security EXCEPT !.revision = @ + 1, !.recovery = @ + 1, !.root = root,
                                    !.invalid = FALSE]
    /\ used' = used \cup {root}
    /\ UNCHANGED <<sessions, creds, codes, burned, clients>>

\* handleSecuritySetPolicy
SetPolicy(ch, policy) ==
    /\ ch.action = "setPolicy"
    /\ Trusted(ch.device)
    /\ Consume(ch)
    /\ security.revision < MaxRevision
    /\ security' = [security EXCEPT !.policy = policy, !.revision = @ + 1]
    /\ UNCHANGED <<sessions, creds, codes, history, clients>>

\* handleSecurityRecover; a device that is trusted keeps its generation
Recover(ch) ==
    /\ ch.action = "recover"
    /\ security.root # NoRoot /\ ~security.invalid
    /\ Consume(ch)
    /\ IF sessions[ch.device].trusted THEN UNCHANGED sessions
       ELSE sessions' = [sessions EXCEPT ![ch.device].trusted = TRUE,
                                         ![ch.device].tgen = security.generation]
    /\ UNCHANGED <<creds, security, codes, history, clients>>

\* handleSecurityApprove
Approve(d, target) ==
    /\ Trusted(d)
    /\ sessions[target].state = "live" /\ ~sessions[target].trusted
    /\ security' = Ensured("require-approval")
    /\ sessions' = [sessions EXCEPT ![target].trusted = TRUE, ![target].tgen = security'.generation]
    /\ UNCHANGED <<creds, codes, challenges, history, clients>>

---------------------------------------------------------------------------
(* Rotating refresh.                                                       *)

\* Mutant: the superseded token rotates again instead of being answered.
AnswerEither(d, token) ==
    IF sessions[d].state # "live" THEN Invalid ELSE
    CASE token = creds[d].current \/ (token = creds[d].prev /\ creds[d].grace) -> creds[d].current + 1
      [] token = creds[d].prev /\ ~creds[d].grace -> Reuse
      [] OTHER -> Invalid

\* What handleRefresh answers to a token.  Within its grace period the previous
\* token gets the stored answer again.
Answer(d, token) ==
    IF sessions[d].state # "live" THEN Invalid ELSE
    CASE token = creds[d].prev /\ creds[d].grace -> creds[d].current
      [] token = creds[d].current -> creds[d].current + 1
      [] token = creds[d].prev /\ ~creds[d].grace -> Reuse
      [] OTHER -> Invalid

\* handleRefresh: the token rotates, is found reused, or nothing changes.
Refresh(d, token) ==
    \/ /\ Answer(d, token) = creds[d].current + 1
       /\ creds[d].current < MaxGeneration
       /\ creds' = [creds EXCEPT ![d] =
              [current |-> @.current + 1, prev |-> @.current, grace |-> TRUE]]
       /\ UNCHANGED <<sessions, security, codes, challenges, history>>
    \/ /\ Answer(d, token) = Reuse
       /\ EndSession(d)
       /\ UNCHANGED <<creds, codes, challenges>>
    \/ /\ Answer(d, token) \in {creds[d].current, Invalid}
       /\ UNCHANGED serverVars

\* doRefresh, when the server answers in time: a rotated token is stored, reuse
\* wipes the session file, any other refusal leaves it.
RefreshServe(d) ==
    LET answer == Answer(d, clients[d].stored)
    IN /\ d \in Refreshing /\ ~clients[d].out
       /\ Refresh(d, clients[d].stored)
       /\ clients' = [clients EXCEPT ![d] =
              CASE answer = Reuse -> [@ EXCEPT !.out = TRUE]
                [] answer = Invalid -> @
                [] OTHER -> [@ EXCEPT !.stored = answer]]

\* A request is served and its answer never stored: it is lost, the desktop
\* stopped or signed out meanwhile, or had given up on it long ago.  Every token
\* up to the stored one was sent, any number of times.
LateServe(d, token) ==
    /\ d \in Refreshing
    /\ Refresh(d, token)
    /\ UNCHANGED clients

\* signOutLocal
SignOut(d) ==
    /\ d \in Refreshing /\ ~clients[d].out
    /\ clients' = [clients EXCEPT ![d].out = TRUE]
    /\ UNCHANGED serverVars

---------------------------------------------------------------------------
(* Time and the sweep.                                                     *)

GraceEnds(d) ==
    /\ creds[d].grace
    /\ creds' = [creds EXCEPT ![d].grace = FALSE]
    /\ UNCHANGED <<sessions, security, codes, challenges, history, clients>>

\* SECURITY_CHALLENGE_TTL_MS and CODE_TTL_MS
ChallengeExpires(ch) ==
    /\ ch \in challenges
    /\ challenges' = challenges \ {ch}
    /\ UNCHANGED <<sessions, creds, security, codes, history, clients>>

CodeExpires(c) ==
    /\ c \in codes
    /\ codes' = codes \ {c}
    /\ UNCHANGED <<sessions, creds, security, challenges, history, clients>>

\* runSweep: ended grace periods are cleared, revoked rows of some age deleted.
Sweep ==
    /\ \E old \in SUBSET {d \in Device : sessions[d].state = "revoked"} :
           /\ sessions' = [d \in Device |->
                  IF d \in old THEN [NoSession EXCEPT !.state = "gone"] ELSE sessions[d]]
           /\ creds' = [d \in Device |->
                  IF d \in old THEN NoCredential
                  ELSE IF creds[d].grace THEN creds[d] ELSE [creds[d] EXCEPT !.prev = 0]]
    /\ UNCHANGED <<security, codes, challenges, history, clients>>

---------------------------------------------------------------------------

EnrollNext ==
    \/ \E c \in Code : IssueCode(c)
    \/ \E d \in Device : SignIn(d) \/ \E c \in codes : EnrollWithCode(d, c)
    \/ \E c \in codes : EnrollFails(c) \/ CodeExpires(c)
    \/ SignInFails

SecurityNext ==
    \/ \E d \in Device : Revoke(d) \/ SecurityGet(d)
    \/ \E d \in Device, policy \in Policy, root \in Root : ConfigureFirst(d, policy, root)
    \/ \E d \in Device, action \in Action : SecurityChallenge(d, action)
    \/ \E d, target \in Device : Approve(d, target)
    \/ \E ch \in challenges :
          \/ Recover(ch) \/ ChallengeExpires(ch)
          \/ \E root \in Root : UpdateRecovery(ch, root)
          \/ \E policy \in Policy : SetPolicy(ch, policy)
          \/ \E policy \in Policy, root \in Root : Configure(ch, policy, root)

RefreshNext ==
    \/ \E d \in Device :
          \/ RefreshServe(d) \/ SignOut(d) \/ GraceEnds(d)
          \/ \E token \in 1 .. clients[d].stored : LateServe(d, token)
    \/ Sweep

Next == EnrollNext \/ SecurityNext \/ RefreshNext

Spec == Init /\ [][Next]_vars

---------------------------------------------------------------------------

\* Every variable has its type, and the columns that are kept in step are: only
\* a live session is trusted, with a generation the account has had.
TrustTypeOK ==
    /\ sessions \in [Device -> Session]
    /\ \A d \in Device : sessions[d].trusted =>
           /\ sessions[d].state = "live"
           /\ sessions[d].tgen \in 0 .. security.generation
    /\ creds \in [Device -> Credential]
    /\ security \in Security
    /\ codes \subseteq Code
    /\ challenges \subseteq Challenge
    /\ clients \in [Device -> Client]
    /\ used \subseteq Root /\ burned \subseteq Root

\* Lost-response recovery of handleRefresh: until the grace period of the last
\* rotation ends, the token a device has stored is one the server accepts,
\* however many answers were lost, delayed or overtaken by a retry.
StoredTokenAccepted ==
    \A d \in Device :
        /\ sessions[d].state = "live"
        /\ ~clients[d].out
        /\ creds[d].current = 1 \/ creds[d].grace
        => clients[d].stored \in {creds[d].current, creds[d].prev}

\* "The old verifier must stop authorizing future unlocks": no device becomes
\* trusted with a recovery root that a trusted device had when it was revoked,
\* by whichever route it was revoked and whenever the challenge was issued.
BurnedRootNeverUnlocks ==
    [][\A ch \in challenges \ challenges' :
          /\ ch.action = "recover"
          /\ ~sessions[ch.device].trusted /\ sessions'[ch.device].trusted
          => ch.root \notin burned]_vars

\* Trust is handed on only by devices that are trusted at that moment: without
\* one, a new device needs the recovery root, an authenticated sign-in under
\* the policy that allows it, or to be the first enrollment of the account.
TrustIsHandedOn ==
    [][\A d \in Device :
          ~sessions[d].trusted /\ sessions'[d].trusted =>
              \/ \E e \in Device \ {d} : Trusted(e)
              \/ \E ch \in challenges \ challenges' : ch.device = d /\ ch.action = "recover"
              \/ codes' = codes /\ security'.policy = "auto-trust-authenticated"
              \/ \A e \in Device \ {d} : sessions[e].state \in {"none", "gone"}
              \/ security'.bootstrap = d]_vars
=============================================================================
