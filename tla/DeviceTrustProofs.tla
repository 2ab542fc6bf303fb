------------------------- MODULE DeviceTrustProofs -------------------------
(***************************************************************************)
(* Proofs about DeviceTrust, for any number of devices, codes, challenges, *)
(* revisions and credential generations.                                   *)
(***************************************************************************)
EXTENDS DeviceTrust, FiniteSetTheorems, NaturalsInduction, WellFoundedInduction, TLAPS

\* The counters of account_security, and that only a root there is gets invalid.
SecurityInv ==
    /\ ~security.exists => security = NoSecurity
    /\ challenges # {} => security.exists
    /\ security.generation <= security.revision
    /\ security.recovery < security.revision
    /\ security.invalid => security.root # NoRoot

\* A refresh token rotates only when the device holds the current one, so the
\* device is at most one rotation behind.
RefreshOK(session, cred, client) ==
    /\ ~client.out => client.stored # 0
    /\ session.state = "live" =>
          /\ cred.current \in 1 .. MaxGeneration
          /\ cred.prev \in {0, cred.current - 1}
          /\ cred.grace => cred.prev = cred.current - 1
          /\ client.stored \in {cred.current, cred.current - 1} \ {0}

RefreshInv == \A d \in Device : RefreshOK(sessions[d], creds[d], clients[d])

\* A challenge of the present recovery revision is about the present root.  Roots
\* that are burned were the account's; the present one is burned only while it is
\* invalid, as handleSecurityUpdateRecovery makes a root valid again only by
\* replacing it.
RootInv ==
    /\ \A ch \in challenges :
          /\ ch.recovery <= security.recovery
          /\ ch.recovery = security.recovery => ch.root = security.root
    /\ burned \subseteq used
    /\ security.root \in used \cup {NoRoot}
    /\ security.root \in burned => security.invalid

Inv == TrustTypeOK /\ SecurityInv /\ RefreshInv /\ RootInv

---------------------------------------------------------------------------

\* What the assumptions say of each constant.
LEMMA Bounds ==
    /\ DeviceLimit \in Nat /\ MaxCodes \in Nat /\ MaxChallenges \in Nat
    /\ MaxRevision \in Nat /\ MaxRevision >= 1
    /\ MaxGeneration \in Nat /\ MaxGeneration >= 1
    /\ NoDevice \notin Device /\ Cardinality(Device) \in Nat
<1>1. \A x \in {DeviceLimit, MaxCodes, MaxChallenges, MaxRevision, MaxGeneration} :
          x \in Nat /\ x # 0
  BY TrustAssumption
<1>2. Cardinality(Device) \in Nat
  BY TrustAssumption, FS_CardinalityType
<1> QED
  BY <1>1, <1>2, TrustAssumption

\* created_at has a least value among the enrollments there are.
LEMMA LeastAt ==
    ASSUME NEW T \in SUBSET Nat, T # {}
    PROVE  \E x \in T : \A y \in T : x <= y
<1> DEFINE R == OpToRel(<, Nat)
<1>1. \E x \in T : \A y \in T : ~(<<y, x>> \in R)
  <2>1. IsWellFoundedOn(R, Nat)
    BY NatLessThanWellFounded
  <2> HIDE DEF R
  <2> QED
    BY <2>1, WFMin
<1>2. \A x, y \in Nat : y < x => <<y, x>> \in R
  BY DEF OpToRel
<1> HIDE DEF R
<1>3. PICK x \in T : \A y \in T : ~(<<y, x>> \in R)
  BY <1>1
<1>4. \A y \in T : ~(y < x) /\ x \in Nat /\ y \in Nat
  BY <1>2, <1>3
<1> QED
  BY <1>4

\* What ensureAccountSecurity leaves alone, and that the bootstrap enrollment it
\* picks is one of the account's.
LEMMA EnsuredRow ==
    ASSUME TrustTypeOK, SecurityInv, NEW policy \in Policy
    PROVE  /\ Ensured(policy) \in Security
           /\ Ensured(policy).exists
           /\ Ensured(policy).revision = security.revision
           /\ Ensured(policy).generation = security.generation
           /\ Ensured(policy).recovery = security.recovery
           /\ Ensured(policy).root = security.root
           /\ Ensured(policy).invalid = security.invalid
<1> DEFINE row == IF security.exists THEN security
                  ELSE [NoSecurity EXCEPT !.exists = TRUE, !.policy = policy]
           Oldest(d) == \A e \in Rows : sessions[d].at <= sessions[e].at
           oldest == CHOOSE d \in Rows : Oldest(d)
<1>1. /\ row \in Security /\ row.exists
      /\ row.revision = security.revision /\ row.generation = security.generation
      /\ row.recovery = security.recovery /\ row.root = security.root
      /\ row.invalid = security.invalid
  BY TrustAssumption DEF TrustTypeOK, SecurityInv, Security, NoSecurity, Revision
<1>2. ASSUME Rows # {} PROVE oldest \in Device
  <2> DEFINE T == {sessions[d].at : d \in Rows}
  <2>1. T \in SUBSET Nat /\ T # {}
    <3>1. \A d \in Device : sessions[d].at \in 0 .. Cardinality(Device)
      BY DEF TrustTypeOK, Session
    <3>2. \A d \in Device : sessions[d].at \in Nat
      BY <3>1, Bounds
    <3> QED
      BY <1>2, <3>2 DEF Rows
  <2>2. PICK x \in T : \A y \in T : x <= y
    <3> HIDE DEF T
    <3> QED
      BY <2>1, LeastAt
  <2>3. \E d \in Rows : Oldest(d)
    BY <2>2
  <2>4. oldest \in Rows
    <3> HIDE DEF Oldest
    <3> QED
      BY <2>3
  <2> QED
    BY <2>4 DEF Rows
<1>3. Ensured(policy) = IF row.bootstrap = NoDevice /\ Rows # {}
                        THEN [row EXCEPT !.bootstrap = oldest] ELSE row
  BY DEF Ensured
<1> HIDE DEF row, oldest
<1> QED
  BY <1>1, <1>2, <1>3 DEF Security

\* invalidateRecoveryOnTrustedRevoke moves the counters on by one, or nothing.
LEMMA RevokedRow ==
    ASSUME TrustTypeOK, SecurityInv, NEW d \in Device, RevokedSecurity(d).revision <= MaxRevision
    PROVE  /\ RevokedSecurity(d) \in Security
           /\ ~RevokedSecurity(d).exists => RevokedSecurity(d) = NoSecurity
           /\ security.exists => RevokedSecurity(d).exists
           /\ RevokedSecurity(d).root = security.root
           /\ IF Trusted(d) /\ security.root # NoRoot /\ ~security.invalid
              THEN /\ RevokedSecurity(d).revision = security.revision + 1
                   /\ RevokedSecurity(d).generation = security.generation + 1
                   /\ RevokedSecurity(d).recovery = security.recovery + 1
                   /\ RevokedSecurity(d).invalid
              ELSE RevokedSecurity(d) = security
<1>1. /\ security \in Security
      /\ security.generation <= security.revision
      /\ security.recovery < security.revision
      /\ ~security.exists => security = NoSecurity
  BY DEF TrustTypeOK, SecurityInv
<1>2. CASE Trusted(d) /\ security.root # NoRoot /\ ~security.invalid
  <2> DEFINE row == [security EXCEPT !.revision = @ + 1, !.generation = @ + 1,
                                     !.recovery = @ + 1, !.invalid = TRUE]
  <2>1. RevokedSecurity(d) = row
    BY <1>2 DEF RevokedSecurity
  <2>2. /\ row.revision = security.revision + 1 /\ row.generation = security.generation + 1
        /\ row.recovery = security.recovery + 1 /\ row.invalid = TRUE
        /\ (row.exists <=> security.exists) /\ row.root = security.root
    BY <1>1 DEF Security
  <2>3. /\ security.revision + 1 \in Revision /\ security.generation + 1 \in Revision
        /\ security.recovery + 1 \in Revision
    BY <1>1, <2>1, <2>2, Bounds DEF Security, Revision
  <2>4. row \in Security
    BY <1>1, <2>3 DEF Security
  <2>5. security.exists
    BY <1>1, <1>2 DEF NoSecurity
  <2> HIDE DEF row
  <2> QED
    BY <1>2, <2>1, <2>2, <2>4, <2>5
<1>3. CASE ~(Trusted(d) /\ security.root # NoRoot /\ ~security.invalid)
  BY <1>1, <1>3 DEF RevokedSecurity
<1> QED
  BY <1>2, <1>3

\* There are never more enrollments than devices.
LEMMA NextAt ==
    ASSUME NEW d \in Device, sessions[d].state = "none"
    PROVE  Cardinality(Enrolled) + 1 \in 0 .. Cardinality(Device)
<1>1. Enrolled \subseteq Device /\ d \notin Enrolled /\ IsFiniteSet(Device)
  BY TrustAssumption DEF Enrolled
<1>2. IsFiniteSet(Enrolled) /\ Enrolled \cup {d} \subseteq Device
  BY <1>1, FS_Subset
<1>3. Cardinality(Enrolled \cup {d}) = Cardinality(Enrolled) + 1
  BY <1>1, <1>2, FS_AddElement
<1>4. Cardinality(Enrolled \cup {d}) <= Cardinality(Device)
  BY <1>1, <1>2, FS_Subset
<1> QED
  BY <1>1, <1>2, <1>3, <1>4, FS_CardinalityType

\* The policies the code falls back to are policies.
LEMMA PolicyType == DefaultPolicy \in Policy /\ "require-approval" \in Policy
  BY DEF DefaultPolicy, Policy

\* A recovery root set by configure, or by updateRecovery.
Rooted(row, policy, root) ==
    [row EXCEPT !.policy = policy, !.revision = @ + 1, !.recovery = @ + 1, !.root = root]
RootedValid(row, root) ==
    [row EXCEPT !.revision = @ + 1, !.recovery = @ + 1, !.root = root, !.invalid = FALSE]

\* Either is a security row again, and no revision or generation goes back.
LEMMA NewRow ==
    ASSUME NEW row \in Security, row.exists, row.revision < MaxRevision,
           row.recovery < row.revision, NEW policy \in Policy, NEW root \in Root, NEW new,
           new = Rooted(row, policy, root) \/ new = RootedValid(row, root)
    PROVE  /\ new \in Security /\ new.exists
           /\ new.revision = row.revision + 1 /\ new.generation = row.generation
           /\ new.recovery = row.recovery + 1 /\ new.root = root
           /\ new.invalid => row.invalid
<1>1. row.revision + 1 \in Revision /\ row.recovery + 1 \in Revision
  BY Bounds DEF Security, Revision
<1> QED
  BY <1>1 DEF Security, Rooted, RootedValid

\* What the maintenance of the recovery root does to account_security: the root
\* stays, or one that a client may send and the server accepts is set.
Resets(root) ==
    /\ security'.recovery = security.recovery + 1 /\ security'.root = root
    /\ Offered(root) /\ ReplacesBurned(root)
    /\ used' = used \cup {root}
Keeps ==
    /\ security'.recovery = security.recovery /\ security'.root = security.root
    /\ security'.invalid <=> security.invalid
    /\ used' = used
MaintainsRow ==
    /\ security' \in Security /\ security'.exists
    /\ security'.revision = security.revision + 1
    /\ security'.generation = security.generation
    /\ security'.invalid => security.invalid
    /\ Keeps \/ \E root \in Root : Resets(root)
    /\ challenges' \subseteq challenges /\ burned' = burned

\* handleSecurityConfigure, handleSecurityUpdateRecovery and
\* handleSecuritySetPolicy maintain the row like this.
LEMMA Maintains ==
    ASSUME TrustTypeOK, SecurityInv, NEW policy \in Policy
    PROVE  /\ \A d \in Device, root \in Root : ConfigureFirst(d, policy, root) => MaintainsRow
           /\ \A ch \in challenges, root \in Root :
                 UpdateRecovery(ch, root) \/ Configure(ch, policy, root) => MaintainsRow
           /\ \A ch \in challenges : SetPolicy(ch, policy) => MaintainsRow
<1>1. ASSUME NEW d \in Device, NEW root \in Root, ConfigureFirst(d, policy, root)
      PROVE  MaintainsRow
  <2> DEFINE row == Ensured("require-approval")
  <2>1. /\ row \in Security /\ row.exists
        /\ row.revision = security.revision /\ row.generation = security.generation
        /\ row.recovery = security.recovery /\ row.root = security.root
        /\ row.invalid <=> security.invalid
    BY EnsuredRow, PolicyType
  <2>2. /\ row.root = NoRoot /\ row.revision < MaxRevision /\ Offered(root)
        /\ challenges' = challenges /\ burned' = burned /\ used' = used \cup {root}
    BY <1>1 DEF ConfigureFirst
  <2>3. security' = Rooted(row, policy, root)
    BY <1>1 DEF ConfigureFirst, Rooted
  <2>4. row.recovery < row.revision
    BY <2>1 DEF SecurityInv
  <2> HIDE DEF row
  <2>5. ReplacesBurned(root)
    BY <2>1, <2>2, TrustAssumption DEF ReplacesBurned
  <2>6. /\ security' \in Security /\ security'.exists
        /\ security'.revision = row.revision + 1 /\ security'.generation = row.generation
        /\ security'.invalid => row.invalid
        /\ security'.recovery = row.recovery + 1 /\ security'.root = root
    BY <2>1, <2>2, <2>3, <2>4, NewRow
  <2> QED
    BY <2>1, <2>2, <2>5, <2>6 DEF MaintainsRow, Resets
<1>2. /\ security \in Security /\ security.recovery < security.revision
      /\ challenges # {} => security.exists
  BY Bounds DEF TrustTypeOK, SecurityInv, Security, Revision
<1>3. ASSUME NEW ch \in challenges, NEW root \in Root,
             UpdateRecovery(ch, root) \/ Configure(ch, policy, root)
      PROVE  MaintainsRow
  <2>1. /\ security.revision < MaxRevision /\ challenges' \subseteq challenges
        /\ burned' = burned /\ used' = used \cup {root}
        /\ Offered(root) /\ ReplacesBurned(root)
    BY <1>3 DEF UpdateRecovery, Configure, Consume, ReplacesBurned
  <2>2. security' = RootedValid(security, root) \/ security' = Rooted(security, policy, root)
    BY <1>3 DEF UpdateRecovery, Configure, Rooted, RootedValid
  <2>3. /\ security' \in Security /\ security'.exists
        /\ security'.revision = security.revision + 1
        /\ security'.generation = security.generation
        /\ security'.invalid => security.invalid
        /\ security'.recovery = security.recovery + 1 /\ security'.root = root
    BY <1>2, <2>1, <2>2, NewRow
  <2> QED
    BY <2>1, <2>3 DEF MaintainsRow, Resets
<1>4. ASSUME NEW ch \in challenges, SetPolicy(ch, policy) PROVE MaintainsRow
  <2>1. /\ security.revision < MaxRevision /\ challenges' \subseteq challenges
        /\ burned' = burned /\ used' = used
        /\ security' = [security EXCEPT !.policy = policy, !.revision = @ + 1]
    BY <1>4 DEF SetPolicy, Consume, history
  <2>2. security.exists /\ security.revision + 1 \in Revision
    BY <1>2, <1>4, <2>1, Bounds DEF Security, Revision
  <2>3. security' \in Security /\ security'.exists
    BY <1>2, <2>1, <2>2 DEF Security
  <2> QED
    BY <1>2, <2>1, <2>3 DEF MaintainsRow, Keeps, Security
<1> QED
  BY <1>1, <1>3, <1>4

\* The counters stay in order, and what is invalid is still a root.
LEMMA MaintainsCounters ==
    ASSUME Inv, MaintainsRow
    PROVE  SecurityInv'
<1> USE DEF Inv, TrustTypeOK, SecurityInv, MaintainsRow, Security, Revision
<1>1. ASSUME NEW root \in Root, Resets(root) PROVE SecurityInv'
  BY <1>1, TrustAssumption, Bounds DEF Resets
<1>2. CASE Keeps
  BY <1>2, Bounds DEF Keeps
<1> QED
  BY <1>1, <1>2

\* A root set by the maintenance is not one that was burned before: a burned root
\* that is still the present one is invalid and has to be replaced, and no client
\* sends an older one.
LEMMA SetIsNotBurned ==
    ASSUME Inv, MaintainsRow
    PROVE  RootInv'
<1> USE DEF Inv, TrustTypeOK, SecurityInv, RootInv, MaintainsRow, Security, Challenge, Revision
<1>1. ASSUME NEW root \in Root, Resets(root) PROVE RootInv'
  <2>1. root \notin burned
    BY <1>1 DEF Resets, Offered, ReplacesBurned
  <2> QED
    BY <1>1, <2>1, Bounds DEF Resets
<1>2. CASE Keeps
  BY <1>2, Bounds DEF Keeps
<1> QED
  BY <1>1, <1>2

SessionsOK ==
    /\ sessions \in [Device -> Session]
    /\ \A d \in Device : sessions[d].trusted =>
           /\ sessions[d].state = "live"
           /\ sessions[d].tgen \in 0 .. security.generation

\* No step but an enrollment makes a session live.
NoneRevived ==
    \A d \in Device : sessions'[d].state = "live" => sessions[d].state = "live"

CredsOK == creds \in [Device -> Credential] /\ clients \in [Device -> Client]

\* An update of one session that keeps trust to live sessions.
LEMMA OneSession ==
    ASSUME SessionsOK, security \in Security, security' \in Security,
           security.generation <= security'.generation,
           NEW d \in Device, NEW s \in Session, sessions' = [sessions EXCEPT ![d] = s],
           s.trusted => s.state = "live" /\ s.tgen <= security'.generation
    PROVE  SessionsOK'
<1>1. sessions' \in [Device -> Session]
  BY DEF SessionsOK
<1>2. ASSUME NEW e \in Device, sessions'[e].trusted
      PROVE  sessions'[e].state = "live" /\ sessions'[e].tgen \in 0 .. security'.generation
  <2>1. CASE e = d
    BY <1>1, <1>2, <2>1, Bounds DEF SessionsOK, Session, Security, Revision
  <2>2. CASE e # d
    BY <1>1, <1>2, <2>2, Bounds DEF SessionsOK, Session, Security, Revision
  <2> QED
    BY <2>1, <2>2
<1> QED
  BY <1>1, <1>2 DEF SessionsOK

\* An enrollment's row.
LEMMA EnrolledSession ==
    ASSUME Inv, NEW d \in Device, NEW signIn \in BOOLEAN, NEW paired \in BOOLEAN,
           Enrolls(d, signIn, paired)
    PROVE  SessionsOK'
<1> DEFINE row == Ensured(IF signIn THEN DefaultPolicy ELSE "require-approval")
           trusted == InitialTrust(signIn, paired, row)
           s == [state |-> "live", trusted |-> trusted,
                 tgen |-> IF trusted THEN row.generation ELSE 0,
                 at |-> Cardinality(Enrolled) + 1]
<1>1. /\ row \in Security /\ row.generation = security.generation
  BY EnsuredRow, PolicyType DEF Inv
<1>2. trusted \in BOOLEAN
  BY DEF InitialTrust
<1>3. /\ sessions' = [sessions EXCEPT ![d] = s] /\ security' = row
      /\ sessions[d].state = "none"
  BY DEF Enrolls
<1>4. Cardinality(Enrolled) + 1 \in 0 .. Cardinality(Device)
  BY <1>3, NextAt
<1> HIDE DEF row, trusted
<1>5. /\ s \in Session /\ s.state = "live"
      /\ s.tgen <= row.generation
  BY <1>1, <1>2, <1>4, Bounds DEF Session, Security, Revision
<1>6. SessionsOK /\ security \in Security /\ security.generation <= row.generation
  BY <1>1, Bounds DEF Inv, TrustTypeOK, SessionsOK, Security, Revision
<1> HIDE DEF s
<1> QED
  BY <1>1, <1>3, <1>5, <1>6, OneSession

\* A device that becomes trusted: by its first configure, a recovery or an approval.
TrustedAt(d, generation) == [sessions EXCEPT ![d].trusted = TRUE, ![d].tgen = generation]

\* Trusting one live session at the current generation keeps all sessions well formed.
LEMMA TrustedSession ==
    ASSUME Inv, NEW d \in Device, sessions[d].state = "live",
           security' \in Security, security.generation <= security'.generation,
           sessions' = TrustedAt(d, security'.generation)
    PROVE  SessionsOK' /\ NoneRevived
<1> DEFINE s == [sessions[d] EXCEPT !.trusted = TRUE, !.tgen = security'.generation]
<1>1. SessionsOK /\ security \in Security
  BY DEF Inv, TrustTypeOK, SessionsOK
<1>2. sessions' = [sessions EXCEPT ![d] = s]
  BY <1>1 DEF SessionsOK, Session, TrustedAt
<1>3. s \in Session /\ s.state = "live" /\ s.tgen = security'.generation
  BY <1>1 DEF SessionsOK, Session, Security
<1>4. s.tgen <= security'.generation
  BY <1>3, Bounds DEF Security, Revision
<1> HIDE DEF s
<1>5. NoneRevived
  BY <1>1, <1>2, <1>3 DEF NoneRevived, SessionsOK
<1> QED
  BY <1>1, <1>2, <1>3, <1>4, <1>5, OneSession

\* A session that ends, and what invalidateRecoveryOnTrustedRevoke does with it.
LEMMA EndedSession ==
    ASSUME Inv, NEW d \in Device, EndSession(d)
    PROVE  SessionsOK' /\ NoneRevived
<1>1. SessionsOK /\ security \in Security
  BY DEF Inv, TrustTypeOK, SessionsOK
<1>2. security' \in Security /\ security.generation <= security'.generation
  BY <1>1, RevokedRow, Bounds DEF Inv, EndSession, Security, Revision
<1>3. sessions' = [sessions EXCEPT ![d] = Ended(sessions[d])]
  BY DEF EndSession
<1>4. Ended(sessions[d]) \in Session /\ ~Ended(sessions[d]).trusted
  BY <1>1 DEF SessionsOK, Session, Ended
<1>5. NoneRevived
  BY <1>1, <1>3 DEF NoneRevived, SessionsOK, Session, Ended
<1> QED
  BY <1>1, <1>2, <1>3, <1>4, <1>5, OneSession

\* handleRefresh rotates the current token of a live session, and answers the
\* previous one with the token it was rotated to.
LEMMA Answers ==
    ASSUME Inv, NEW d \in Device, NEW token \in 1 .. clients[d].stored
    PROVE  /\ Answer(d, token) = creds[d].current + 1 =>
                 sessions[d].state = "live" /\ token = creds[d].current
           /\ Answer(d, token) \notin {Reuse, Invalid} => sessions[d].state = "live"
           /\ Answer(d, token) \in {creds[d].current + 1, Reuse, creds[d].current, Invalid}
<1>1. creds[d] \in Credential /\ clients[d] \in Client
  BY DEF Inv, TrustTypeOK
<1>2. token \in 1 .. MaxGeneration /\ creds[d].current \in 0 .. MaxGeneration
  BY <1>1, Bounds DEF Credential, Client, Token
<1>3. CASE sessions[d].state # "live"
  BY <1>2, <1>3, Bounds DEF Answer, Reuse, Invalid
<1>4. CASE sessions[d].state = "live"
  <2>1. creds[d].prev \in {0, creds[d].current - 1}
    BY <1>4 DEF Inv, RefreshInv, RefreshOK
  <2> QED
    BY <1>2, <1>4, <2>1, Bounds DEF Answer, Reuse, Invalid
<1> QED
  BY <1>3, <1>4

\* A step that leaves tokens alone, and one that moves those of one device.
LEMMA SameRefresh ==
    ASSUME Inv, NoneRevived, creds' = creds, clients' = clients
    PROVE  CredsOK' /\ RefreshInv'
  BY DEF Inv, TrustTypeOK, RefreshInv, RefreshOK, NoneRevived, CredsOK

\* One device's new tokens keep all of them in order if they are in order themselves.
LEMMA OneRefresh ==
    ASSUME Inv, NEW d \in Device, NEW c \in Credential, NEW k \in Client,
           creds' = [creds EXCEPT ![d] = c], clients' = [clients EXCEPT ![d] = k],
           \A e \in Device \ {d} : sessions'[e].state = "live" => sessions[e].state = "live",
           RefreshOK(sessions'[d], c, k)
    PROVE  CredsOK' /\ RefreshInv'
<1>1. CredsOK'
  BY DEF Inv, TrustTypeOK, CredsOK
<1>2. ASSUME NEW e \in Device PROVE RefreshOK(sessions'[e], creds'[e], clients'[e])
  <2>1. CASE e = d
    BY <2>1 DEF Inv, TrustTypeOK
  <2>2. CASE e # d
    BY <2>2 DEF Inv, TrustTypeOK, RefreshInv, RefreshOK
  <2> QED
    BY <2>1, <2>2
<1> QED
  BY <1>1, <1>2 DEF RefreshInv

\* An enrollment stores the first token on both sides.
LEMMA EnrolledTokens ==
    ASSUME Inv, NEW d \in Device, NEW signIn, NEW paired, Enrolls(d, signIn, paired)
    PROVE  CredsOK' /\ RefreshInv'
<1> DEFINE c == [NoCredential EXCEPT !.current = 1]
<1>1. creds' = [creds EXCEPT ![d] = c] /\ clients' = [clients EXCEPT ![d] = SignedIn]
  BY DEF Enrolls
<1>2. c \in Credential /\ c.current = 1 /\ c.prev = 0 /\ c.grace = FALSE
  <2>1. 0 \in Token /\ 1 \in Token
    BY Bounds DEF Token
  <2>2. /\ NoCredential \in Credential /\ NoCredential.prev = 0 /\ NoCredential.grace = FALSE
    BY <2>1 DEF NoCredential, Credential
  <2> QED
    BY <2>1, <2>2 DEF Credential
<1>5. SignedIn \in Client
  BY Bounds DEF SignedIn, Client, Token
<1>3. ASSUME NEW e \in Device \ {d}, sessions'[e].state = "live"
      PROVE  sessions[e].state = "live"
  BY <1>3 DEF Inv, TrustTypeOK, Enrolls
<1>4. RefreshOK(sessions'[d], c, SignedIn)
  BY <1>2, Bounds DEF RefreshOK, SignedIn
<1> HIDE DEF c
<1> QED
  BY <1>1, <1>2, <1>3, <1>4, <1>5, OneRefresh

\* handleRefresh on the server, when the device stores the answer and when it
\* does not.
LEMMA RotatedTokens ==
    ASSUME Inv, NEW d \in Device, NEW token \in 1 .. clients[d].stored, Refresh(d, token),
           NEW k \in Client, clients' = [clients EXCEPT ![d] = k], ~k.out => k.stored # 0,
           \/ k.stored = clients[d].stored
           \/ /\ token = clients[d].stored
              /\ Answer(d, token) \notin {Reuse, Invalid} => k.stored = Answer(d, token)
              /\ Answer(d, token) \in {Reuse, Invalid} => k.stored = clients[d].stored
    PROVE  CredsOK' /\ RefreshInv'
<1>1. /\ creds[d] \in Credential /\ clients[d] \in Client
      /\ RefreshOK(sessions[d], creds[d], clients[d])
      /\ creds \in [Device -> Credential]
  BY DEF Inv, TrustTypeOK, RefreshInv
<1>2. /\ creds[d].current \in 0 .. MaxGeneration /\ clients[d].stored \in 0 .. MaxGeneration
      /\ creds[d].prev \in 0 .. MaxGeneration /\ creds[d].grace \in BOOLEAN
      /\ token \in 1 .. MaxGeneration
  BY <1>1, Bounds DEF Credential, Client, Token
<1>3. CASE /\ Answer(d, token) = creds[d].current + 1
           /\ creds[d].current < MaxGeneration
           /\ creds' = [creds EXCEPT ![d] =
                  [current |-> @.current + 1, prev |-> @.current, grace |-> TRUE]]
           /\ UNCHANGED sessions
  <2> DEFINE c == [current |-> creds[d].current + 1, prev |-> creds[d].current, grace |-> TRUE]
  <2>1. creds' = [creds EXCEPT ![d] = c] /\ c \in Credential
    BY <1>2, <1>3, Bounds DEF Credential, Token
  <2>2. /\ sessions[d].state = "live" /\ token = creds[d].current
        /\ clients[d].stored = creds[d].current
    BY <1>1, <1>2, <1>3, Answers, Bounds DEF RefreshOK
  <2>3. k.stored \in {creds[d].current, creds[d].current + 1}
    BY <1>2, <1>3, <2>2, Bounds DEF Reuse, Invalid
  <2>4. RefreshOK(sessions'[d], c, k)
    BY <1>2, <1>3, <2>2, <2>3, Bounds DEF RefreshOK
  <2> HIDE DEF c
  <2> QED
    BY <1>3, <2>1, <2>4, OneRefresh
<1>4. CASE Answer(d, token) = Reuse /\ EndSession(d) /\ UNCHANGED creds
  <2>1. NoneRevived
    BY <1>4, EndedSession
  <2>2. sessions'[d].state # "live"
    BY <1>4 DEF EndSession, Ended, Inv, TrustTypeOK, Session
  <2>3. creds' = [creds EXCEPT ![d] = creds[d]]
    BY <1>1, <1>4
  <2> QED
    BY <1>1, <2>1, <2>2, <2>3, OneRefresh DEF NoneRevived, RefreshOK
<1>5. CASE Answer(d, token) \in {creds[d].current, Invalid} /\ UNCHANGED <<creds, sessions>>
  <2>1. creds' = [creds EXCEPT ![d] = creds[d]]
    BY <1>1, <1>5
  <2>2. RefreshOK(sessions'[d], creds[d], k)
    BY <1>1, <1>2, <1>5, Answers, Bounds DEF RefreshOK, Reuse, Invalid
  <2> QED
    BY <1>1, <1>5, <2>1, <2>2, OneRefresh
<1> QED
  BY <1>3, <1>4, <1>5 DEF Refresh, serverVars, history

\* The row of a session that runSweep deletes.
LEMMA GoneSession ==
    /\ [NoSession EXCEPT !.state = "gone"] \in Session
    /\ [NoSession EXCEPT !.state = "gone"].state = "gone"
    /\ [NoSession EXCEPT !.state = "gone"].trusted = FALSE
<1>1. NoSession \in Session
  <2>1. 0 \in Revision /\ 0 \in 0 .. Cardinality(Device)
    BY Bounds DEF Revision
  <2> QED
    BY <2>1 DEF NoSession, Session
<1>2. NoSession.trusted = FALSE
  BY DEF NoSession
<1> QED
  BY <1>1, <1>2 DEF Session


\* The row of account_security keeps its type.
LEMMA SecurityTypeStep == Inv /\ [Next]_vars => security' \in Security
<1> SUFFICES ASSUME Inv, [Next]_vars PROVE security' \in Security
  OBVIOUS
<1> USE Bounds DEF Inv, TrustTypeOK, SecurityInv, serverVars, history, Security, Revision
<1>1. ASSUME NEW c \in Code, IssueCode(c) PROVE security' \in Security
  BY <1>1 DEF IssueCode
<1>2. ASSUME NEW d \in Device, SignIn(d) PROVE security' \in Security
  BY <1>2, EnsuredRow, PolicyType DEF SignIn, Enrolls
<1>3. ASSUME NEW d \in Device, NEW c \in codes, EnrollWithCode(d, c)
      PROVE security' \in Security
  BY <1>3, EnsuredRow, PolicyType DEF EnrollWithCode, Enrolls
<1>4. ASSUME NEW c \in codes, EnrollFails(c) PROVE security' \in Security
  BY <1>4, EnsuredRow, PolicyType DEF EnrollFails, Fails
<1>5. ASSUME NEW c \in codes, CodeExpires(c) PROVE security' \in Security
  BY <1>5 DEF CodeExpires
<1>6. ASSUME NEW d \in Device, Revoke(d) PROVE security' \in Security
  BY <1>6, RevokedRow DEF Revoke, EndSession
<1>7. ASSUME NEW d \in Device, SecurityGet(d) PROVE security' \in Security
  BY <1>7, EnsuredRow, PolicyType DEF SecurityGet
<1>8. ASSUME NEW d \in Device, NEW policy \in Policy, NEW root \in Root,
             ConfigureFirst(d, policy, root)
      PROVE  security' \in Security
  BY <1>8, Maintains DEF MaintainsRow
<1>9. ASSUME NEW d \in Device, NEW action \in Action, SecurityChallenge(d, action)
      PROVE security' \in Security
  BY <1>9 DEF SecurityChallenge, NoSecurity
<1>10. ASSUME NEW d \in Device, NEW target \in Device, Approve(d, target)
       PROVE security' \in Security
  BY <1>10, EnsuredRow, PolicyType DEF Approve, Trusted
<1>11. ASSUME NEW ch \in challenges, Recover(ch) PROVE security' \in Security
  BY <1>11 DEF Recover, Consume
<1>12. ASSUME NEW ch \in challenges, NEW root \in Root, UpdateRecovery(ch, root)
       PROVE  security' \in Security
  BY <1>12, Maintains DEF MaintainsRow
<1>13. ASSUME NEW ch \in challenges, ChallengeExpires(ch) PROVE security' \in Security
  BY <1>13 DEF ChallengeExpires
<1>14. ASSUME NEW ch \in challenges, NEW policy \in Policy, NEW root \in Root,
              Configure(ch, policy, root)
       PROVE  security' \in Security
  BY <1>14, Maintains DEF MaintainsRow
<1>15. ASSUME NEW ch \in challenges, NEW policy \in Policy, SetPolicy(ch, policy)
       PROVE security' \in Security
  BY <1>15, Maintains DEF MaintainsRow
<1>16. ASSUME NEW d \in Device, RefreshServe(d) PROVE security' \in Security
  BY <1>16, RevokedRow DEF RefreshServe, Refresh, EndSession
<1>17. ASSUME NEW d \in Device, SignOut(d) PROVE security' \in Security
  BY <1>17 DEF SignOut
<1>18. ASSUME NEW d \in Device, GraceEnds(d) PROVE security' \in Security
  BY <1>18 DEF GraceEnds
<1>19. ASSUME NEW d \in Device, NEW token \in 1 .. clients[d].stored, LateServe(d, token)
       PROVE security' \in Security
  BY <1>19, RevokedRow DEF LateServe, Refresh, EndSession
<1>20. CASE Sweep
  BY <1>20 DEF Sweep
<1>21. CASE UNCHANGED vars
  BY <1>21 DEF vars, serverVars, history
<1>22. CASE SignInFails
  BY <1>22, EnsuredRow, PolicyType DEF SignInFails, Fails
<1> QED
  BY <1>1, <1>2, <1>3, <1>4, <1>5, <1>6, <1>7, <1>8, <1>9, <1>10, <1>11, <1>12, <1>13,
     <1>14, <1>15, <1>16, <1>17, <1>18, <1>19, <1>20, <1>21, <1>22
     DEF Next, EnrollNext, SecurityNext, RefreshNext

\* The counters of account_security move together.
LEMMA SecurityStep == Inv /\ [Next]_vars => SecurityInv'
<1> SUFFICES ASSUME Inv, [Next]_vars PROVE SecurityInv'
  OBVIOUS
<1> USE Bounds DEF Inv, TrustTypeOK, SecurityInv, serverVars, history, Security, Revision
<1>1. ASSUME NEW c \in Code, IssueCode(c) PROVE SecurityInv'
  BY <1>1 DEF IssueCode
<1>2. ASSUME NEW d \in Device, SignIn(d) PROVE SecurityInv'
  BY <1>2, EnsuredRow, PolicyType DEF SignIn, Enrolls
<1>3. ASSUME NEW d \in Device, NEW c \in codes, EnrollWithCode(d, c) PROVE SecurityInv'
  BY <1>3, EnsuredRow, PolicyType DEF EnrollWithCode, Enrolls
<1>4. ASSUME NEW c \in codes, EnrollFails(c) PROVE SecurityInv'
  BY <1>4, EnsuredRow, PolicyType DEF EnrollFails, Fails
<1>5. ASSUME NEW c \in codes, CodeExpires(c) PROVE SecurityInv'
  BY <1>5 DEF CodeExpires
<1>6. ASSUME NEW d \in Device, Revoke(d) PROVE SecurityInv'
  BY <1>6, RevokedRow DEF Revoke, EndSession
<1>7. ASSUME NEW d \in Device, SecurityGet(d) PROVE SecurityInv'
  BY <1>7, EnsuredRow, PolicyType DEF SecurityGet
<1>8. ASSUME NEW d \in Device, NEW policy \in Policy, NEW root \in Root,
             ConfigureFirst(d, policy, root)
      PROVE  SecurityInv'
  BY <1>8, Maintains, MaintainsCounters
<1>9. ASSUME NEW d \in Device, NEW action \in Action, SecurityChallenge(d, action)
      PROVE SecurityInv'
  BY <1>9 DEF SecurityChallenge, NoSecurity
<1>10. ASSUME NEW d \in Device, NEW target \in Device, Approve(d, target) PROVE SecurityInv'
  BY <1>10, EnsuredRow, PolicyType DEF Approve, Trusted
<1>11. ASSUME NEW ch \in challenges, Recover(ch) PROVE SecurityInv'
  BY <1>11 DEF Recover, Consume
<1>12. ASSUME NEW ch \in challenges, NEW root \in Root, UpdateRecovery(ch, root)
       PROVE  SecurityInv'
  BY <1>12, Maintains, MaintainsCounters
<1>13. ASSUME NEW ch \in challenges, ChallengeExpires(ch) PROVE SecurityInv'
  BY <1>13 DEF ChallengeExpires
<1>14. ASSUME NEW ch \in challenges, NEW policy \in Policy, NEW root \in Root,
              Configure(ch, policy, root)
       PROVE  SecurityInv'
  BY <1>14, Maintains, MaintainsCounters
<1>15. ASSUME NEW ch \in challenges, NEW policy \in Policy, SetPolicy(ch, policy)
       PROVE SecurityInv'
  BY <1>15, Maintains, MaintainsCounters
<1>16. ASSUME NEW d \in Device, RefreshServe(d) PROVE SecurityInv'
  BY <1>16, RevokedRow DEF RefreshServe, Refresh, EndSession
<1>17. ASSUME NEW d \in Device, SignOut(d) PROVE SecurityInv'
  BY <1>17 DEF SignOut
<1>18. ASSUME NEW d \in Device, GraceEnds(d) PROVE SecurityInv'
  BY <1>18 DEF GraceEnds
<1>19. ASSUME NEW d \in Device, NEW token \in 1 .. clients[d].stored, LateServe(d, token)
       PROVE SecurityInv'
  BY <1>19, RevokedRow DEF LateServe, Refresh, EndSession
<1>20. CASE Sweep
  BY <1>20 DEF Sweep
<1>21. CASE UNCHANGED vars
  BY <1>21 DEF vars, serverVars, history
<1>22. CASE SignInFails
  BY <1>22, EnsuredRow, PolicyType DEF SignInFails, Fails
<1> QED
  BY <1>1, <1>2, <1>3, <1>4, <1>5, <1>6, <1>7, <1>8, <1>9, <1>10, <1>11, <1>12, <1>13,
     <1>14, <1>15, <1>16, <1>17, <1>18, <1>19, <1>20, <1>21, <1>22
     DEF Next, EnrollNext, SecurityNext, RefreshNext

\* Codes, challenges and the roots there were.
SetsType ==
    /\ codes \subseteq Code /\ challenges \subseteq Challenge
    /\ used \subseteq Root /\ burned \subseteq Root

\* Every step keeps their types.
LEMMA SetsTypeStep == Inv /\ [Next]_vars => SetsType'
<1> SUFFICES ASSUME Inv, [Next]_vars PROVE SetsType'
  OBVIOUS
<1> USE Bounds DEF SetsType, Inv, TrustTypeOK, serverVars, history, Challenge, Security
<1>1. ASSUME NEW c \in Code, IssueCode(c) PROVE SetsType'
  BY <1>1 DEF IssueCode
<1>2. ASSUME NEW d \in Device, SignIn(d) PROVE SetsType'
  BY <1>2 DEF SignIn, Enrolls
<1>3. ASSUME NEW d \in Device, NEW c \in codes, EnrollWithCode(d, c) PROVE SetsType'
  BY <1>3 DEF EnrollWithCode, Enrolls
<1>4. ASSUME NEW c \in codes, EnrollFails(c) PROVE SetsType'
  BY <1>4 DEF EnrollFails, Fails
<1>5. ASSUME NEW c \in codes, CodeExpires(c) PROVE SetsType'
  BY <1>5 DEF CodeExpires
<1>6. ASSUME NEW d \in Device, Revoke(d) PROVE SetsType'
  BY <1>6 DEF Revoke, EndSession
<1>7. ASSUME NEW d \in Device, SecurityGet(d) PROVE SetsType'
  BY <1>7 DEF SecurityGet
<1>8. ASSUME NEW d \in Device, NEW policy \in Policy, NEW root \in Root,
             ConfigureFirst(d, policy, root)
      PROVE  SetsType'
  BY <1>8 DEF ConfigureFirst, Consume
<1>9. ASSUME NEW d \in Device, NEW action \in Action, SecurityChallenge(d, action)
      PROVE SetsType'
  BY <1>9 DEF SecurityChallenge, NoSecurity
<1>10. ASSUME NEW d \in Device, NEW target \in Device, Approve(d, target) PROVE SetsType'
  BY <1>10 DEF Approve, Trusted
<1>11. ASSUME NEW ch \in challenges, Recover(ch) PROVE SetsType'
  BY <1>11 DEF Recover, Consume
<1>12. ASSUME NEW ch \in challenges, NEW root \in Root, UpdateRecovery(ch, root)
       PROVE  SetsType'
  BY <1>12 DEF UpdateRecovery, Consume
<1>13. ASSUME NEW ch \in challenges, ChallengeExpires(ch) PROVE SetsType'
  BY <1>13 DEF ChallengeExpires
<1>14. ASSUME NEW ch \in challenges, NEW policy \in Policy, NEW root \in Root,
              Configure(ch, policy, root)
       PROVE  SetsType'
  BY <1>14 DEF Configure, Consume
<1>15. ASSUME NEW ch \in challenges, NEW policy \in Policy, SetPolicy(ch, policy)
       PROVE SetsType'
  BY <1>15 DEF SetPolicy, Consume
<1>16. ASSUME NEW d \in Device, RefreshServe(d) PROVE SetsType'
  BY <1>16 DEF RefreshServe, Refresh, EndSession
<1>17. ASSUME NEW d \in Device, SignOut(d) PROVE SetsType'
  BY <1>17 DEF SignOut
<1>18. ASSUME NEW d \in Device, GraceEnds(d) PROVE SetsType'
  BY <1>18 DEF GraceEnds
<1>19. ASSUME NEW d \in Device, NEW token \in 1 .. clients[d].stored, LateServe(d, token)
       PROVE SetsType'
  BY <1>19 DEF LateServe, Refresh, EndSession
<1>20. CASE Sweep
  BY <1>20 DEF Sweep
<1>21. CASE UNCHANGED vars
  BY <1>21 DEF vars, serverVars, history
<1>22. CASE SignInFails
  BY <1>22 DEF SignInFails, Fails
<1> QED
  BY <1>1, <1>2, <1>3, <1>4, <1>5, <1>6, <1>7, <1>8, <1>9, <1>10, <1>11, <1>12, <1>13,
     <1>14, <1>15, <1>16, <1>17, <1>18, <1>19, <1>20, <1>21, <1>22
     DEF Next, EnrollNext, SecurityNext, RefreshNext

\* A root that a revoked device knew is invalid until it is replaced.
LEMMA RootStep == Inv /\ [Next]_vars => RootInv'
<1> SUFFICES ASSUME Inv, [Next]_vars PROVE RootInv'
  OBVIOUS
<1> USE Bounds DEF Inv, TrustTypeOK, SecurityInv, RootInv, serverVars, history, Security,
        Challenge, Revision
<1>1. ASSUME NEW c \in Code, IssueCode(c) PROVE RootInv'
  BY <1>1 DEF IssueCode
<1>2. ASSUME NEW d \in Device, SignIn(d) PROVE RootInv'
  BY <1>2, EnsuredRow, PolicyType DEF SignIn, Enrolls
<1>3. ASSUME NEW d \in Device, NEW c \in codes, EnrollWithCode(d, c) PROVE RootInv'
  BY <1>3, EnsuredRow, PolicyType DEF EnrollWithCode, Enrolls
<1>4. ASSUME NEW c \in codes, EnrollFails(c) PROVE RootInv'
  BY <1>4, EnsuredRow, PolicyType DEF EnrollFails, Fails
<1>5. ASSUME NEW c \in codes, CodeExpires(c) PROVE RootInv'
  BY <1>5 DEF CodeExpires
<1>6. ASSUME NEW d \in Device, Revoke(d) PROVE RootInv'
  BY <1>6, RevokedRow DEF Revoke, EndSession
<1>7. ASSUME NEW d \in Device, SecurityGet(d) PROVE RootInv'
  BY <1>7, EnsuredRow, PolicyType DEF SecurityGet
<1>8. ASSUME NEW d \in Device, NEW policy \in Policy, NEW root \in Root,
             ConfigureFirst(d, policy, root)
      PROVE  RootInv'
  BY <1>8, Maintains, SetIsNotBurned
<1>9. ASSUME NEW d \in Device, NEW action \in Action, SecurityChallenge(d, action)
      PROVE RootInv'
  BY <1>9 DEF SecurityChallenge, NoSecurity
<1>10. ASSUME NEW d \in Device, NEW target \in Device, Approve(d, target) PROVE RootInv'
  BY <1>10, EnsuredRow, PolicyType DEF Approve, Trusted
<1>11. ASSUME NEW ch \in challenges, Recover(ch) PROVE RootInv'
  BY <1>11 DEF Recover, Consume
<1>12. ASSUME NEW ch \in challenges, NEW root \in Root, UpdateRecovery(ch, root)
       PROVE  RootInv'
  BY <1>12, Maintains, SetIsNotBurned
<1>13. ASSUME NEW ch \in challenges, ChallengeExpires(ch) PROVE RootInv'
  BY <1>13 DEF ChallengeExpires
<1>14. ASSUME NEW ch \in challenges, NEW policy \in Policy, NEW root \in Root,
              Configure(ch, policy, root)
       PROVE  RootInv'
  BY <1>14, Maintains, SetIsNotBurned
<1>15. ASSUME NEW ch \in challenges, NEW policy \in Policy, SetPolicy(ch, policy) PROVE RootInv'
  BY <1>15, Maintains, SetIsNotBurned
<1>16. ASSUME NEW d \in Device, RefreshServe(d) PROVE RootInv'
  BY <1>16, RevokedRow DEF RefreshServe, Refresh, EndSession
<1>17. ASSUME NEW d \in Device, SignOut(d) PROVE RootInv'
  BY <1>17 DEF SignOut
<1>18. ASSUME NEW d \in Device, GraceEnds(d) PROVE RootInv'
  BY <1>18 DEF GraceEnds
<1>19. ASSUME NEW d \in Device, NEW token \in 1 .. clients[d].stored, LateServe(d, token)
       PROVE RootInv'
  BY <1>19, RevokedRow DEF LateServe, Refresh, EndSession
<1>20. CASE Sweep
  BY <1>20 DEF Sweep
<1>21. CASE UNCHANGED vars
  BY <1>21 DEF vars, serverVars, history
<1>22. CASE SignInFails
  BY <1>22, EnsuredRow, PolicyType DEF SignInFails, Fails
<1> QED
  BY <1>1, <1>2, <1>3, <1>4, <1>5, <1>6, <1>7, <1>8, <1>9, <1>10, <1>11, <1>12, <1>13,
     <1>14, <1>15, <1>16, <1>17, <1>18, <1>19, <1>20, <1>21, <1>22
     DEF Next, EnrollNext, SecurityNext, RefreshNext

\* Sessions keep their type; trust is of a generation the account has had.
LEMMA SessionsStep == Inv /\ [Next]_vars => SessionsOK'
<1> SUFFICES ASSUME Inv, [Next]_vars PROVE SessionsOK'
  OBVIOUS
<1> USE DEF Inv, TrustTypeOK, SessionsOK, serverVars, history
<1>1. ASSUME NEW c \in Code, IssueCode(c) PROVE SessionsOK'
  BY <1>1 DEF IssueCode
<1>2. ASSUME NEW d \in Device, SignIn(d) PROVE SessionsOK'
  BY <1>2, EnrolledSession DEF SignIn
<1>3. ASSUME NEW d \in Device, NEW c \in codes, EnrollWithCode(d, c) PROVE SessionsOK'
  <2>1. Pairs(c) \in BOOLEAN
    BY DEF Pairs, Trusted
  <2> QED
    BY <1>3, <2>1, EnrolledSession DEF EnrollWithCode
<1>4. ASSUME NEW c \in codes, EnrollFails(c) PROVE SessionsOK'
  BY <1>4, EnsuredRow, PolicyType DEF EnrollFails, Fails
<1>5. ASSUME NEW c \in codes, CodeExpires(c) PROVE SessionsOK'
  BY <1>5 DEF CodeExpires
<1>6. ASSUME NEW d \in Device, Revoke(d) PROVE SessionsOK'
  BY <1>6, EndedSession DEF Revoke
<1>7. ASSUME NEW d \in Device, SecurityGet(d) PROVE SessionsOK'
  BY <1>7, EnsuredRow, PolicyType DEF SecurityGet
<1>8. ASSUME NEW d \in Device, NEW policy \in Policy, NEW root \in Root,
             ConfigureFirst(d, policy, root)
      PROVE  SessionsOK'
  <2>1. /\ security' \in Security /\ security'.generation = security.generation
        /\ security.generation \in Nat
    BY <1>8, Maintains, Bounds DEF MaintainsRow, Inv, TrustTypeOK, Security, Revision
  <2>2. Ensured("require-approval").generation = security.generation
    BY EnsuredRow, PolicyType DEF Inv
  <2>3. CASE sessions' = sessions
    BY <2>1, <2>3 DEF Inv, TrustTypeOK, SessionsOK
  <2>5. security.generation <= security'.generation
    BY <2>1
  <2>6. sessions[d].state = "live"
    BY <1>8 DEF ConfigureFirst
  <2>4. CASE sessions' = TrustedAt(d, security'.generation)
    BY <1>8, <2>1, <2>4, <2>5, <2>6, TrustedSession
  <2> QED
    BY <1>8, <2>1, <2>2, <2>3, <2>4 DEF ConfigureFirst, TrustedAt
<1>9. ASSUME NEW d \in Device, NEW action \in Action, SecurityChallenge(d, action)
      PROVE SessionsOK'
  BY <1>9 DEF SecurityChallenge
<1>10. ASSUME NEW d \in Device, NEW target \in Device, Approve(d, target) PROVE SessionsOK'
  <2>1. /\ security' \in Security /\ security'.generation = security.generation
        /\ security.generation \in Nat
    BY <1>10, EnsuredRow, PolicyType, Bounds DEF Approve, Inv, TrustTypeOK, Security, Revision
  <2>2. security.generation <= security'.generation
    BY <2>1
  <2>3. /\ sessions[target].state = "live"
        /\ sessions' = TrustedAt(target, security'.generation)
    BY <1>10 DEF Approve, TrustedAt
  <2> QED
    BY <2>1, <2>2, <2>3, TrustedSession
<1>11. ASSUME NEW ch \in challenges, Recover(ch) PROVE SessionsOK'
  <2>1. /\ security' \in Security /\ security' = security
        /\ security.generation \in Nat /\ ch.device \in Device
    BY <1>11, Bounds DEF Recover, Inv, TrustTypeOK, Security, Revision, Challenge
  <2>2. CASE sessions' = sessions
    BY <2>1, <2>2 DEF Inv, TrustTypeOK, SessionsOK
  <2>3. CASE sessions' = TrustedAt(ch.device, security'.generation)
    BY <1>11, <2>1, <2>3, TrustedSession DEF Recover, Consume
  <2> QED
    BY <1>11, <2>1, <2>2, <2>3 DEF Recover, TrustedAt
<1>12. ASSUME NEW ch \in challenges, NEW root \in Root, UpdateRecovery(ch, root)
       PROVE  SessionsOK'
  BY <1>12 DEF UpdateRecovery
<1>13. ASSUME NEW ch \in challenges, ChallengeExpires(ch) PROVE SessionsOK'
  BY <1>13 DEF ChallengeExpires
<1>14. ASSUME NEW ch \in challenges, NEW policy \in Policy, NEW root \in Root,
              Configure(ch, policy, root)
       PROVE  SessionsOK'
  BY <1>14 DEF Configure
<1>15. ASSUME NEW ch \in challenges, NEW policy \in Policy, SetPolicy(ch, policy)
       PROVE SessionsOK'
  BY <1>15 DEF SetPolicy
<1>16. ASSUME NEW d \in Device, RefreshServe(d) PROVE SessionsOK'
  <2>1. EndSession(d) \/ UNCHANGED <<sessions, security>>
    BY <1>16 DEF RefreshServe, Refresh, serverVars, history
  <2> QED
    BY <2>1, EndedSession DEF Inv, TrustTypeOK, SessionsOK
<1>17. ASSUME NEW d \in Device, SignOut(d) PROVE SessionsOK'
  BY <1>17 DEF SignOut
<1>18. ASSUME NEW d \in Device, GraceEnds(d) PROVE SessionsOK'
  BY <1>18 DEF GraceEnds
<1>19. ASSUME NEW d \in Device, NEW token \in 1 .. clients[d].stored, LateServe(d, token)
       PROVE SessionsOK'
  <2>1. EndSession(d) \/ UNCHANGED <<sessions, security>>
    BY <1>19 DEF LateServe, Refresh, serverVars, history
  <2> QED
    BY <2>1, EndedSession DEF Inv, TrustTypeOK, SessionsOK
<1>20. CASE Sweep
  <2>1. PICK old \in SUBSET {d \in Device : sessions[d].state = "revoked"} :
            sessions' = [d \in Device |->
                IF d \in old THEN [NoSession EXCEPT !.state = "gone"] ELSE sessions[d]]
    BY <1>20 DEF Sweep
  <2>4. security' = security
    BY <1>20 DEF Sweep
  <2>5. sessions' \in [Device -> Session]
    BY <2>1, GoneSession DEF Inv, TrustTypeOK
  <2>6. ASSUME NEW d \in Device, sessions'[d].trusted
        PROVE  sessions'[d] = sessions[d]
    BY <2>1, <2>6, GoneSession
  <2> QED
    BY <2>4, <2>5, <2>6 DEF Inv, TrustTypeOK, SessionsOK
<1>21. CASE UNCHANGED vars
  BY <1>21 DEF vars, serverVars, history
<1>22. CASE SignInFails
  BY <1>22, EnsuredRow, PolicyType DEF SignInFails, Fails
<1> QED
  BY <1>1, <1>2, <1>3, <1>4, <1>5, <1>6, <1>7, <1>8, <1>9, <1>10, <1>11, <1>12, <1>13,
     <1>14, <1>15, <1>16, <1>17, <1>18, <1>19, <1>20, <1>21, <1>22
     DEF Next, EnrollNext, SecurityNext, RefreshNext

\* A token rotates only for the device that holds the current one.
LEMMA RefreshStep == Inv /\ [Next]_vars => CredsOK' /\ RefreshInv'
<1> SUFFICES ASSUME Inv, [Next]_vars PROVE CredsOK' /\ RefreshInv'
  OBVIOUS
<1> USE DEF serverVars, history, Inv, TrustTypeOK, CredsOK, RefreshInv
<1>1. ASSUME NEW c \in Code, IssueCode(c) PROVE CredsOK' /\ RefreshInv'
  BY <1>1 DEF IssueCode
<1>2. ASSUME NEW d \in Device, SignIn(d) PROVE CredsOK' /\ RefreshInv'
  BY <1>2, EnrolledTokens DEF SignIn
<1>3. ASSUME NEW d \in Device, NEW c \in codes, EnrollWithCode(d, c)
      PROVE CredsOK' /\ RefreshInv'
  BY <1>3, EnrolledTokens DEF EnrollWithCode
<1>4. ASSUME NEW c \in codes, EnrollFails(c) PROVE CredsOK' /\ RefreshInv'
  BY <1>4 DEF EnrollFails, Fails
<1>5. ASSUME NEW c \in codes, CodeExpires(c) PROVE CredsOK' /\ RefreshInv'
  BY <1>5 DEF CodeExpires
<1>6. ASSUME NEW d \in Device, Revoke(d) PROVE CredsOK' /\ RefreshInv'
  BY <1>6, EndedSession, SameRefresh DEF Revoke
<1>7. ASSUME NEW d \in Device, SecurityGet(d) PROVE CredsOK' /\ RefreshInv'
  BY <1>7 DEF SecurityGet
<1>8. ASSUME NEW d \in Device, NEW policy \in Policy, NEW root \in Root,
             ConfigureFirst(d, policy, root)
      PROVE  CredsOK' /\ RefreshInv'
  <2>1. NoneRevived
    BY <1>8 DEF ConfigureFirst, NoneRevived, Inv, TrustTypeOK, Session
  <2> QED
    BY <1>8, <2>1, SameRefresh DEF ConfigureFirst
<1>9. ASSUME NEW d \in Device, NEW action \in Action, SecurityChallenge(d, action)
      PROVE CredsOK' /\ RefreshInv'
  BY <1>9 DEF SecurityChallenge
<1>10. ASSUME NEW d \in Device, NEW target \in Device, Approve(d, target)
       PROVE CredsOK' /\ RefreshInv'
  <2>1. NoneRevived
    BY <1>10 DEF Approve, NoneRevived, Inv, TrustTypeOK, Session
  <2> QED
    BY <1>10, <2>1, SameRefresh DEF Approve
<1>11. ASSUME NEW ch \in challenges, Recover(ch) PROVE CredsOK' /\ RefreshInv'
  <2>1. NoneRevived
    BY <1>11 DEF Recover, NoneRevived, Inv, TrustTypeOK, Session
  <2> QED
    BY <1>11, <2>1, SameRefresh DEF Recover
<1>12. ASSUME NEW ch \in challenges, NEW root \in Root, UpdateRecovery(ch, root)
       PROVE  CredsOK' /\ RefreshInv'
  BY <1>12 DEF UpdateRecovery
<1>13. ASSUME NEW ch \in challenges, ChallengeExpires(ch) PROVE CredsOK' /\ RefreshInv'
  BY <1>13 DEF ChallengeExpires
<1>14. ASSUME NEW ch \in challenges, NEW policy \in Policy, NEW root \in Root,
              Configure(ch, policy, root)
       PROVE  CredsOK' /\ RefreshInv'
  BY <1>14 DEF Configure
<1>15. ASSUME NEW ch \in challenges, NEW policy \in Policy, SetPolicy(ch, policy)
       PROVE CredsOK' /\ RefreshInv'
  BY <1>15 DEF SetPolicy
<1>16. ASSUME NEW d \in Device, RefreshServe(d) PROVE CredsOK' /\ RefreshInv'
  <2> DEFINE answer == Answer(d, clients[d].stored)
             k == CASE answer = Reuse -> [clients[d] EXCEPT !.out = TRUE]
                    [] answer = Invalid -> clients[d]
                    [] OTHER -> [clients[d] EXCEPT !.stored = answer]
  <2>1. /\ clients' = [clients EXCEPT ![d] = k] /\ Refresh(d, clients[d].stored)
    BY <1>16 DEF RefreshServe
  <2>2. /\ clients[d] \in Client /\ creds[d] \in Credential
        /\ clients[d].stored \in 0 .. MaxGeneration /\ creds[d].current \in 0 .. MaxGeneration
    BY Bounds DEF Inv, TrustTypeOK, Client, Credential, Token
  <2>3. clients[d].stored \in 1 .. clients[d].stored
    BY <1>16, <2>2, Bounds DEF RefreshServe, Inv, RefreshInv, RefreshOK
  <2>4. answer \in {creds[d].current + 1, Reuse, creds[d].current, Invalid}
    BY <2>3, Answers
  <2>5. answer = creds[d].current + 1 => creds[d].current < MaxGeneration
    BY <2>1, <2>2, Bounds DEF Refresh, Reuse, Invalid
  <2>6. Reuse # Invalid
    BY DEF Reuse, Invalid
  <2> HIDE DEF answer
  <2>7. CASE answer = Reuse
    <3>1. k = [clients[d] EXCEPT !.out = TRUE]
      BY <2>6, <2>7
    <3>2. k \in Client /\ k.stored = clients[d].stored /\ k.out
      BY <2>2, <3>1 DEF Client
    <3> HIDE DEF k
    <3> QED
      BY <2>1, <2>3, <3>2, RotatedTokens
  <2>8. CASE answer = Invalid
    <3>1. k = clients[d] /\ clients[d].stored # 0
      BY <2>2, <2>3, <2>6, <2>8
    <3> HIDE DEF k
    <3> QED
      BY <2>1, <2>2, <2>3, <3>1, RotatedTokens
  <2>9. CASE answer \notin {Reuse, Invalid}
    <3>1. k = [clients[d] EXCEPT !.stored = answer]
      BY <2>9
    <3>2. answer \in Token /\ answer # 0
      <4>1. sessions[d].state = "live"
        BY <2>3, <2>9, Answers DEF answer
      <4>2. creds[d].current # 0
        BY <4>1 DEF Inv, RefreshInv, RefreshOK
      <4> QED
        BY <2>2, <2>4, <2>5, <2>9, <4>2, Bounds DEF Token
    <3>3. k \in Client /\ k.stored = answer
      BY <2>2, <3>1, <3>2 DEF Client
    <3> HIDE DEF k
    <3> QED
      BY <2>1, <2>3, <2>9, <3>2, <3>3, RotatedTokens DEF answer
  <2> QED
    BY <2>7, <2>8, <2>9
<1>17. ASSUME NEW d \in Device, SignOut(d) PROVE CredsOK' /\ RefreshInv'
  <2> DEFINE k == [clients[d] EXCEPT !.out = TRUE]
  <2>1. /\ clients' = [clients EXCEPT ![d] = k] /\ k \in Client
        /\ k.stored = clients[d].stored /\ k.out /\ creds' = [creds EXCEPT ![d] = creds[d]]
        /\ creds[d] \in Credential
    BY <1>17 DEF SignOut, Inv, TrustTypeOK, Client, serverVars, history
  <2>2. RefreshOK(sessions'[d], creds[d], k)
    BY <1>17, <2>1 DEF SignOut, Inv, RefreshInv, RefreshOK, serverVars, history
  <2> HIDE DEF k
  <2> QED
    BY <1>17, <2>1, <2>2, OneRefresh DEF SignOut, serverVars, history
<1>18. ASSUME NEW d \in Device, GraceEnds(d) PROVE CredsOK' /\ RefreshInv'
  <2> DEFINE c == [creds[d] EXCEPT !.grace = FALSE]
  <2>1. /\ creds' = [creds EXCEPT ![d] = c] /\ c \in Credential
        /\ c.current = creds[d].current /\ c.prev = creds[d].prev /\ ~c.grace
        /\ clients[d] \in Client /\ clients' = [clients EXCEPT ![d] = clients[d]]
    BY <1>18 DEF GraceEnds, Inv, TrustTypeOK, Credential
  <2>2. RefreshOK(sessions'[d], c, clients[d])
    BY <1>18, <2>1 DEF GraceEnds, Inv, RefreshInv, RefreshOK
  <2> HIDE DEF c
  <2> QED
    BY <1>18, <2>1, <2>2, OneRefresh DEF GraceEnds
<1>19. ASSUME NEW d \in Device, NEW token \in 1 .. clients[d].stored, LateServe(d, token)
       PROVE CredsOK' /\ RefreshInv'
  <2>1. /\ clients \in [Device -> Client] /\ clients[d] \in Client
        /\ clients' = [clients EXCEPT ![d] = clients[d]] /\ Refresh(d, token)
    BY <1>19 DEF LateServe, Inv, TrustTypeOK
  <2>2. ~clients[d].out => clients[d].stored # 0
    BY DEF Inv, RefreshInv, RefreshOK
  <2> QED
    BY <2>1, <2>2, RotatedTokens
<1>20. CASE Sweep
  <2>1. PICK old \in SUBSET {d \in Device : sessions[d].state = "revoked"} :
            /\ sessions' = [d \in Device |->
                   IF d \in old THEN [NoSession EXCEPT !.state = "gone"] ELSE sessions[d]]
            /\ creds' = [d \in Device |->
                   IF d \in old THEN NoCredential
                   ELSE IF creds[d].grace THEN creds[d] ELSE [creds[d] EXCEPT !.prev = 0]]
    BY <1>20 DEF Sweep
  <2>2. NoCredential \in Credential
    BY Bounds DEF NoCredential, Credential, Token
  <2>3. \A d \in Device : [creds[d] EXCEPT !.prev = 0] \in Credential
    BY Bounds DEF Inv, TrustTypeOK, Credential, Token
  <2>4. creds' \in [Device -> Credential] /\ clients' = clients
    BY <1>20, <2>1, <2>2, <2>3 DEF Inv, TrustTypeOK, Sweep
  <2>5. ASSUME NEW d \in Device PROVE RefreshOK(sessions'[d], creds'[d], clients[d])
    <3>1. CASE d \in old
      BY <2>1, <3>1, GoneSession DEF RefreshOK
    <3>2. CASE d \notin old /\ creds[d].grace
      BY <2>1, <3>2 DEF Inv, RefreshInv
    <3>3. CASE d \notin old /\ ~creds[d].grace
      BY <2>1, <3>3 DEF Inv, TrustTypeOK, Credential, RefreshInv, RefreshOK
    <3> QED
      BY <3>1, <3>2, <3>3
  <2> QED
    BY <2>4, <2>5 DEF Inv, TrustTypeOK, CredsOK, RefreshInv
<1>21. CASE UNCHANGED vars
  BY <1>21 DEF vars, serverVars, history
<1>22. CASE SignInFails
  BY <1>22 DEF SignInFails, Fails
<1> QED
  BY <1>1, <1>2, <1>3, <1>4, <1>5, <1>6, <1>7, <1>8, <1>9, <1>10, <1>11, <1>12, <1>13,
     <1>14, <1>15, <1>16, <1>17, <1>18, <1>19, <1>20, <1>21, <1>22
     DEF Next, EnrollNext, SecurityNext, RefreshNext

\* A new deployment, with or without a session from before device trust.
LEMMA InitInv == Init => Inv
<1> SUFFICES ASSUME Init PROVE Inv
  OBVIOUS
<1>1. PICK legacy \in {{}} \cup {{d} : d \in Device \ Refreshing} :
        /\ sessions = [d \in Device |->
               IF d \in legacy THEN [NoSession EXCEPT !.state = "live", !.at = 1] ELSE NoSession]
        /\ creds = [d \in Device |->
               IF d \in legacy THEN [NoCredential EXCEPT !.current = 1] ELSE NoCredential]
        /\ clients = [d \in Device |-> IF d \in legacy THEN SignedIn ELSE NoClient]
        /\ security = NoSecurity /\ codes = {} /\ challenges = {}
        /\ used = {} /\ burned = {}
  BY DEF Init
<1>2. /\ 0 \in Revision /\ 1 \in Revision /\ 0 \in Token /\ 1 \in Token
      /\ 0 \in 0 .. Cardinality(Device)
  BY Bounds DEF Revision, Token
<1>3. NoSecurity \in Security /\ NoSecurity.generation = 1
  BY <1>2, TrustAssumption DEF NoSecurity, Security, Policy
<1>4. SecurityInv /\ RootInv
  BY <1>1, <1>2 DEF SecurityInv, RootInv, NoSecurity
<1>5. /\ NoSession \in Session /\ NoSession.trusted = FALSE /\ NoSession.state = "none"
      /\ NoCredential \in Credential
      /\ NoClient \in Client /\ NoClient.out /\ SignedIn \in Client
  BY <1>2 DEF NoSession, Session, NoCredential, Credential, NoClient, SignedIn, Client
<1>6. ASSUME NEW d \in Device
      PROVE  /\ sessions[d] \in Session /\ ~sessions[d].trusted
             /\ creds[d] \in Credential /\ clients[d] \in Client
             /\ RefreshOK(sessions[d], creds[d], clients[d])
  <2>1. CASE d \in legacy
    <3>1. 1 \in 0 .. Cardinality(Device)
      <4>1. Cardinality(Device) # 0
        BY TrustAssumption, FS_EmptySet
      <4> QED
        BY <4>1, Bounds
    <3>2. /\ sessions[d] = [NoSession EXCEPT !.state = "live", !.at = 1]
          /\ creds[d] = [NoCredential EXCEPT !.current = 1] /\ clients[d] = SignedIn
      BY <1>1, <2>1
    <3>3. sessions[d] \in Session /\ ~sessions[d].trusted
      BY <1>5, <3>1, <3>2 DEF Session
    <3>4. creds[d] \in Credential /\ creds[d].current = 1
      BY <1>2, <1>5, <3>2 DEF Credential
    <3>5. creds[d].prev = 0 /\ creds[d].grace = FALSE
      BY <3>2 DEF NoCredential
    <3>6. clients[d].stored = 1 /\ clients[d].out = FALSE
      BY <3>2 DEF SignedIn
    <3> QED
      BY <1>5, <3>2, <3>3, <3>4, <3>5, <3>6, Bounds DEF RefreshOK
  <2>2. CASE d \notin legacy
    BY <1>1, <1>5, <2>2 DEF RefreshOK
  <2> QED
    BY <2>1, <2>2
<1>7. TrustTypeOK
  BY <1>1, <1>3, <1>6 DEF TrustTypeOK
<1> QED
  BY <1>4, <1>6, <1>7 DEF Inv, RefreshInv

\* Every step preserves the whole invariant.
LEMMA NextInv == Inv /\ [Next]_vars => Inv'
  BY SecurityTypeStep, SetsTypeStep, SessionsStep, RefreshStep, SecurityStep, RootStep
     DEF SetsType, Inv, TrustTypeOK, SessionsOK, CredsOK

---------------------------------------------------------------------------
(* The theorems                                                            *)

\* The sessions, tokens, challenges and roots of an account keep the invariant
\* whatever the order of enrollments, revocations, recoveries and refreshes.
THEOREM TrustInvariant == Spec => []Inv
  BY InitInv, NextInv, PTL DEF Spec

\* Only live sessions are trusted, with a generation the account has had, and
\* every row keeps its type.
THEOREM TrustTypes == Spec => []TrustTypeOK
<1>1. Inv => TrustTypeOK
  BY DEF Inv
<1> QED
  BY <1>1, TrustInvariant, PTL

\* Lost-response recovery of handleRefresh: however many answers were lost or
\* overtaken, the token a device has stored is accepted until the grace period
\* of the last rotation ends.
THEOREM LostAnswersAreRecovered == Spec => []StoredTokenAccepted
<1>1. Inv => StoredTokenAccepted
  <2> SUFFICES ASSUME Inv, NEW d \in Device, sessions[d].state = "live",
                      creds[d].current = 1 \/ creds[d].grace
               PROVE  clients[d].stored \in {creds[d].current, creds[d].prev}
    BY DEF StoredTokenAccepted
  <2>1. RefreshOK(sessions[d], creds[d], clients[d]) /\ creds[d].current \in Nat
    BY Bounds DEF Inv, TrustTypeOK, RefreshInv, Credential, Token
  <2> QED
    BY <2>1 DEF RefreshOK
<1> QED
  BY <1>1, TrustInvariant, PTL

\* The steps by which a device becomes trusted.
LEMMA TrustGrows ==
    ASSUME Inv, [Next]_vars, NEW d \in Device, ~sessions[d].trusted, sessions'[d].trusted
    PROVE  \/ SignIn(d)
           \/ \E c \in codes : EnrollWithCode(d, c)
           \/ \E policy \in Policy, root \in Root : ConfigureFirst(d, policy, root)
           \/ \E ch \in challenges : ch.device = d /\ Recover(ch)
           \/ \E e \in Device : Approve(e, d)
<1>1. sessions \in [Device -> Session] /\ sessions' # sessions
  BY DEF Inv, TrustTypeOK
<1>2. ASSUME NEW e \in Device, SignIn(e) \/ \E c \in codes : EnrollWithCode(e, c) PROVE e = d
  BY <1>1, <1>2 DEF SignIn, EnrollWithCode, Enrolls
<1>3. ASSUME NEW e \in Device, NEW policy \in Policy, NEW root \in Root,
             ConfigureFirst(e, policy, root)
      PROVE  e = d
  BY <1>1, <1>3 DEF ConfigureFirst
<1>4. ASSUME NEW ch \in challenges, Recover(ch) PROVE ch.device = d
  BY <1>1, <1>4 DEF Recover, Inv, TrustTypeOK, Challenge
<1>5. ASSUME NEW e \in Device, NEW target \in Device, Approve(e, target) PROVE target = d
  BY <1>1, <1>5 DEF Approve
<1>6. ASSUME NEW e \in Device PROVE ~EndSession(e)
  <2> SUFFICES ASSUME EndSession(e) PROVE FALSE
    OBVIOUS
  <2>1. sessions' = [sessions EXCEPT ![e] = Ended(@)] /\ ~Ended(sessions[e]).trusted
    BY <1>1 DEF EndSession, Ended, Session
  <2> QED
    BY <1>1, <2>1
<1>7. ~Sweep
  <2> SUFFICES ASSUME Sweep PROVE FALSE
    OBVIOUS
  <2>1. PICK old : sessions' = [e \in Device |->
                       IF e \in old THEN [NoSession EXCEPT !.state = "gone"] ELSE sessions[e]]
    BY DEF Sweep
  <2> QED
    BY <2>1, GoneSession
<1>8. \A e \in Device : \A token : Refresh(e, token) => EndSession(e) \/ sessions' = sessions
  BY DEF Refresh, serverVars, history
<1>9. \A e \in Device : ~Revoke(e) /\ ~SecurityGet(e) /\ ~RefreshServe(e) /\ ~SignOut(e)
                        /\ ~GraceEnds(e) /\ \A token : ~LateServe(e, token)
  BY <1>1, <1>6, <1>8 DEF Revoke, SecurityGet, RefreshServe, SignOut, GraceEnds, LateServe,
     serverVars, history
<1>10. ~RefreshNext
  BY <1>7, <1>9 DEF RefreshNext
<1>11. /\ \A c : ~IssueCode(c) /\ ~EnrollFails(c) /\ ~CodeExpires(c)
       /\ \A e, action : ~SecurityChallenge(e, action)
       /\ \A ch : ~ChallengeExpires(ch) /\ \A root : ~UpdateRecovery(ch, root)
       /\ \A ch, policy : ~SetPolicy(ch, policy) /\ \A root : ~Configure(ch, policy, root)
       /\ ~SignInFails
  BY <1>1 DEF IssueCode, EnrollFails, SignInFails, Fails, CodeExpires, SecurityChallenge,
     UpdateRecovery, ChallengeExpires, Configure, SetPolicy
<1>12. EnrollNext \/ SecurityNext
  BY <1>1, <1>10 DEF Next, vars, serverVars, history
<1>13. CASE EnrollNext
  BY <1>2, <1>11, <1>13 DEF EnrollNext
<1>14. CASE SecurityNext
  BY <1>3, <1>4, <1>5, <1>9, <1>11, <1>14 DEF SecurityNext
<1> QED
  BY <1>12, <1>13, <1>14

\* "The old verifier must stop authorizing future unlocks": handleSecurityRecover
\* accepts no challenge of a root that a trusted device had when it was revoked,
\* by whichever route it was revoked and whenever the challenge was issued.
THEOREM OldVerifierStops == Spec => BurnedRootNeverUnlocks
<1> DEFINE Unlocks(ch) == /\ ch.action = "recover"
                          /\ ~sessions[ch.device].trusted /\ sessions'[ch.device].trusted
<1>1. ASSUME Inv, [Next]_vars, NEW ch \in challenges \ challenges', Unlocks(ch)
      PROVE  ch.root \notin burned
  <2>1. ch.device \in Device
    BY <1>1 DEF Inv, TrustTypeOK, Challenge
  <2>2. PICK other \in challenges : other.device = ch.device /\ Recover(other)
    <3>1. challenges' # challenges
      OBVIOUS
    <3>2. \A d : ~SignIn(d) /\ (\A c : ~EnrollWithCode(d, c)) /\ (\A e : ~Approve(e, d))
                 /\ \A policy, root : ~ConfigureFirst(d, policy, root)
      BY <3>1 DEF SignIn, EnrollWithCode, Enrolls, ConfigureFirst, Approve
    <3> QED
      BY <1>1, <2>1, <3>2, TrustGrows
  <2>3. ch = other
    BY <1>1, <2>2 DEF Recover, Consume
  <2>4. ch.recovery = security.recovery /\ ~security.invalid
    BY <2>2, <2>3 DEF Recover, Consume
  <2> QED
    BY <1>1, <2>4 DEF Inv, RootInv
<1>2. Inv /\ [Next]_vars => [\A ch \in challenges \ challenges' :
                                /\ ch.action = "recover"
                                /\ ~sessions[ch.device].trusted /\ sessions'[ch.device].trusted
                                => ch.root \notin burned]_vars
  BY <1>1
<1> QED
  BY <1>2, TrustInvariant, PTL DEF Spec, BurnedRootNeverUnlocks

\* A device becomes trusted only through a device that is trusted at that moment,
\* the recovery root, an authenticated sign-in under the policy that allows it,
\* or as the first or the bootstrap enrollment: handleEnroll re-reads the trust of
\* the device that issued the pairing code.
THEOREM NobodyTrustsThemselves == Spec => TrustIsHandedOn
<1> DEFINE Handed(d) ==
              \/ \E e \in Device \ {d} : Trusted(e)
              \/ \E ch \in challenges \ challenges' : ch.device = d /\ ch.action = "recover"
              \/ codes' = codes /\ security'.policy = "auto-trust-authenticated"
              \/ \A e \in Device \ {d} : sessions[e].state \in {"none", "gone"}
              \/ security'.bootstrap = d
<1>1. ASSUME Inv, [Next]_vars, NEW d \in Device, ~sessions[d].trusted, sessions'[d].trusted
      PROVE  Handed(d)
  <2>1. sessions \in [Device -> Session]
    BY <1>1 DEF Inv, TrustTypeOK
  <2>2. ASSUME NEW signIn \in BOOLEAN, NEW paired \in BOOLEAN, Enrolls(d, signIn, paired),
               ~paired, Rows # {} \/ security'.bootstrap # NoDevice
        PROVE  signIn /\ security'.policy = "auto-trust-authenticated"
    BY <1>1, <2>1, <2>2 DEF Enrolls, InitialTrust
  <2>3. \A e \in Device : Rows = {} => sessions[e].state \in {"none", "gone"}
    BY <2>1 DEF Rows, Session
  <2>4. CASE SignIn(d)
    BY <2>2, <2>3, <2>4 DEF SignIn
  <2>5. ASSUME NEW c \in codes, EnrollWithCode(d, c) PROVE Handed(d)
    <3>1. Pairs(c) \in BOOLEAN /\ c \in Code /\ sessions[d].state = "none"
      BY <1>1, <2>5 DEF Pairs, Trusted, EnrollWithCode, Enrolls, Inv, TrustTypeOK
    <3>2. CASE Pairs(c)
      <4>1. Trusted(c) /\ c \in Device /\ c # d
        BY <3>1, <3>2 DEF Pairs, Trusted, Code
      <4> QED
        BY <4>1
    <3>3. CASE ~Pairs(c)
      BY <2>2, <2>3, <2>5, <3>1, <3>3 DEF EnrollWithCode
    <3> QED
      BY <3>2, <3>3
  <2>6. ASSUME NEW policy \in Policy, NEW root \in Root, ConfigureFirst(d, policy, root)
        PROVE  Handed(d)
    <3>1. Ensured("require-approval") \in Security /\ Ensured("require-approval").bootstrap = d
      BY <1>1, <2>6, EnsuredRow, PolicyType DEF ConfigureFirst, Inv
    <3>2. security'.bootstrap = d
      BY <2>6, <3>1 DEF ConfigureFirst, Security
    <3> QED
      BY <3>2
  <2>7. ASSUME NEW ch \in challenges, ch.device = d, Recover(ch) PROVE Handed(d)
    BY <2>7 DEF Recover, Consume
  <2>8. ASSUME NEW e \in Device, Approve(e, d) PROVE Handed(d)
    BY <2>8 DEF Approve, Trusted
  <2> QED
    BY <1>1, <2>4, <2>5, <2>6, <2>7, <2>8, TrustGrows
<1>2. Inv /\ [Next]_vars =>
        [\A d \in Device :
          ~sessions[d].trusted /\ sessions'[d].trusted =>
              \/ \E e \in Device \ {d} : Trusted(e)
              \/ \E ch \in challenges \ challenges' : ch.device = d /\ ch.action = "recover"
              \/ codes' = codes /\ security'.policy = "auto-trust-authenticated"
              \/ \A e \in Device \ {d} : sessions[e].state \in {"none", "gone"}
              \/ security'.bootstrap = d]_vars
  BY <1>1
<1> QED
  BY <1>2, TrustInvariant, PTL DEF Spec, TrustIsHandedOn

=============================================================================
