-------------------------- MODULE CredentialsProofs --------------------------
(***************************************************************************)
(* One worker per tenant, kubeconfigs signed by what they trust, control   *)
(* planes that only their own kubeconfigs open, and files that fit each    *)
(* other, for any number of tenants, workers, restarts and failures.       *)
(***************************************************************************)
EXTENDS Credentials, FiniteSetTheorems, SequenceTheorems, TLAPS

-----------------------------------------------------------------------------
(* The work queue *)

Distinct(q) == \A i, j \in DOMAIN q : i # j => q[i] # q[j]

\* What the queue and the set of dirty keys are beside the keys in processing.
Consistent(q, d, p) ==
    /\ q \in Seq(Names) /\ d \subseteq Names
    /\ QueueOf(q) \subseteq d
    /\ Distinct(q)
    /\ QueueOf(q) \cap p = {}

Alone == \A v, w \in Workers : v # w /\ Busy(v) /\ Busy(w) => Name(v) # Name(w)

\* What may stand in the place of a CA, and keys that can sign.
Certificates ==
    [kind : {"cert"}, cn : {"ca", "kube-apiserver"}, key : Nat, by : Nat,
     names : {{}} \cup {ServerNames(n) : n \in Names}, usage : {"ca", "server"}]
SigningKeys == [kind : {"key"}, key : Nat, form : {"PKCS1", "EC"}]

\* What a worker holds: its tenant, its step, and a decoded CA or none.
Tasks == [busy : {TRUE}, name : Names, step : 1..Len(Steps),
          ca : {Missing} \cup Certificates, key : {Missing} \cup SigningKeys]

WorkOK ==
    /\ work \in [Workers -> {Idle} \cup Tasks]
    /\ \A w \in Workers : Busy(w) /\ work[w].ca # Missing => work[w].key # Missing

QueueInv ==
    /\ WorkOK
    /\ delayed \subseteq Names
    /\ manager = 0 => \A w \in Workers : ~Busy(w)
    /\ Consistent(queue, dirty, Processing)
    /\ Alone

-----------------------------------------------------------------------------
(* The secrets and the kubeconfigs *)

SecretOK(data) ==
    data = Missing \/
    /\ data = [f \in Files |-> data[f]]
    /\ data["ca.crt"] \in {Missing, Garbage} \cup Certificates
    /\ data["ca.key"] \in {Missing, Garbage} \cup SigningKeys
    /\ data["apiserver.crt"] \in Certificates /\ data["apiserver.key"] \in SigningKeys

ConfOK(n, conf) ==
    conf = Missing \/
    /\ conf.server = Endpoint(n)
    /\ SignedBy(conf.cert, conf.ca, "client")

StoreOK ==
    /\ server = [n \in Names |-> server[n]]
    /\ \A n \in Names : SecretOK(server[n])
    /\ confs = [n \in Names |-> [f \in ConfFiles |-> confs[n][f]]]
    /\ \A n \in Names, f \in ConfFiles : ConfOK(n, confs[n][f])
    /\ deployed \in [Names -> SUBSET Deployments]
    /\ provisioned \subseteq Names

CountersOK == etcd \in 0..MaxRotations /\ manager \in 0..etcd /\ minted \in Nat

HasSecret(n)     == server[n] # Missing
HasKubeConfig(n) == confs[n]["controller-manager.conf"] # Missing

\* Who is past a step has what the step makes.
PastSteps ==
    \A w \in Workers : Busy(w) =>
        /\ work[w].step > 1 => HasSecret(Name(w))
        /\ work[w].step > 3 => HasKubeConfig(Name(w))

Mounted ==
    \A n \in Names :
        /\ deployed[n] # {} => HasSecret(n)
        /\ "kube-controller-manager" \in deployed[n] => HasKubeConfig(n)

CredentialsInv == CountersOK /\ QueueInv /\ StoreOK /\ PastSteps /\ Mounted

-----------------------------------------------------------------------------
(* Whose CA it is *)

\* The tenant's CA key was made before the keys that are still to come, and no
\* other tenant has it.
OwnCA ==
    \A n \in Names : server[n] # Missing =>
        /\ \E k \in Nat, v \in Nat : k + 6 <= minted /\ server[n] = ServerCert(n, k, v)
        /\ \A m \in Names : m # n /\ server[m] # Missing
              => server[m]["ca.crt"].key # server[n]["ca.crt"].key

\* What a worker holds as CA, and what a kubeconfig contains and is signed by, is
\* the CA in the tenant's secret.
HeldFromSecret ==
    \A w \in Workers : Busy(w) /\ work[w].ca # Missing =>
        /\ server[Name(w)] # Missing
        /\ work[w].ca = server[Name(w)]["ca.crt"]
        /\ work[w].key = server[Name(w)]["ca.key"]

Opens(conf, data) ==
    /\ conf.ca = data["ca.crt"]
    /\ conf.cert.by = data["ca.crt"].key
    /\ conf.cert.key = conf.key.key

ConfsFromSecret ==
    \A n \in Names, f \in ConfFiles :
        confs[n][f] # Missing => server[n] # Missing /\ Opens(confs[n][f], server[n])

\* Nobody edits the secrets.
Unedited == Edited = {}

OwnershipInv == CredentialsInv /\ OwnCA /\ HeldFromSecret /\ ConfsFromSecret

-----------------------------------------------------------------------------
(* Lemmas on the queue *)

\* A key that was not there goes to the end.
LEMMA Appended ==
    ASSUME NEW q, NEW d, NEW p, NEW n \in Names,
           Consistent(q, d, p), n \notin QueueOf(q), n \notin p
    PROVE  Consistent(Append(q, n), d \cup {n}, p)
<1> DEFINE r == Append(q, n)
<1>1. q \in Seq(Names) /\ d \subseteq Names /\ QueueOf(q) \subseteq d /\ Distinct(q)
      /\ QueueOf(q) \cap p = {}
  BY DEF Consistent
<1>2. /\ Len(q) \in Nat /\ DOMAIN q = 1..Len(q)
      /\ r \in Seq(Names) /\ Len(r) = Len(q) + 1 /\ DOMAIN r = 1..(Len(q) + 1)
      /\ \A i \in 1..Len(q) : r[i] = q[i]
      /\ r[Len(q) + 1] = n
  BY <1>1, AppendProperties, LenProperties
<1> HIDE DEF r
<1>3. \A i \in DOMAIN r : r[i] = n \/ (i \in DOMAIN q /\ r[i] = q[i])
  BY <1>2
<1>4. QueueOf(r) \subseteq QueueOf(q) \cup {n}
  BY <1>3 DEF QueueOf
<1>5. Distinct(r)
  <2> SUFFICES ASSUME NEW i \in DOMAIN r, NEW j \in DOMAIN r, i # j
               PROVE  r[i] # r[j]
    BY DEF Distinct
  <2>1. CASE i \in DOMAIN q /\ j \in DOMAIN q
    BY <2>1, <1>1, <1>2 DEF Distinct
  <2>2. CASE i \notin DOMAIN q /\ j \in DOMAIN q
    BY <2>2, <1>2 DEF QueueOf
  <2>3. CASE i \in DOMAIN q /\ j \notin DOMAIN q
    BY <2>3, <1>2 DEF QueueOf
  <2> QED
    BY <2>1, <2>2, <2>3, <1>2
<1>6. Consistent(r, d \cup {n}, p)
  BY <1>1, <1>2, <1>4, <1>5 DEF Consistent
<1> QED
  BY <1>6 DEF r

\* The first key leaves the queue and the dirty keys, and is processed.
LEMMA Taken ==
    ASSUME NEW q, NEW d, NEW p, Consistent(q, d, p), q # <<>>
    PROVE  /\ Head(q) \in Names \ p
           /\ Consistent(Tail(q), d \ {Head(q)}, p \cup {Head(q)})
<1> DEFINE r == Tail(q)
           n == Head(q)
<1>1. q \in Seq(Names) /\ d \subseteq Names /\ QueueOf(q) \subseteq d /\ Distinct(q)
      /\ QueueOf(q) \cap p = {}
  BY DEF Consistent
<1>2. /\ Len(q) \in Nat \ {0} /\ DOMAIN q = 1..Len(q)
      /\ n \in Names /\ r \in Seq(Names) /\ Len(r) = Len(q) - 1
      /\ \A i \in 1..Len(r) : r[i] = q[i + 1]
  BY <1>1, HeadTailProperties, LenProperties, EmptySeq
<1>3. DOMAIN r = 1..Len(r)
  BY <1>2, LenProperties
<1>4. n = q[1]
  BY <1>1
<1> HIDE DEF r, n
<1>5. n \in QueueOf(q)
  BY <1>2, <1>4 DEF QueueOf
<1>6. \A i \in DOMAIN r : i + 1 \in DOMAIN q /\ i + 1 # 1 /\ r[i] = q[i + 1]
  BY <1>2, <1>3
<1>7. \A i \in DOMAIN r : r[i] \in QueueOf(q) /\ r[i] # n
  <2> TAKE i \in DOMAIN r
  <2>1. 1 \in DOMAIN q
    BY <1>2
  <2> QED
    BY <2>1, <1>1, <1>4, <1>6 DEF QueueOf, Distinct
<1>8. \A x \in QueueOf(r) : x \in QueueOf(q) /\ x # n
  BY <1>7 DEF QueueOf
<1>9. Distinct(r)
  BY <1>1, <1>3, <1>6, <1>2 DEF Distinct
<1>10. Consistent(r, d \ {n}, p \cup {n})
  BY <1>1, <1>2, <1>8, <1>9 DEF Consistent
<1> QED
  BY <1>1, <1>2, <1>5, <1>10 DEF r, n

\* A list of all tenants without gaps has each of them once.
LEMMA Listed ==
    ASSUME NEW s \in [1..Cardinality(Names) -> Names], QueueOf(s) = Names
    PROVE  Consistent(s, Names, {})
<1> DEFINE N == Cardinality(Names)
<1>1. N \in Nat
  BY CredentialsAssumption, FS_CardinalityType
<1>2. IsFiniteSet(1..N) /\ Cardinality(1..N) = N
  BY <1>1, FS_Interval
<1>3. s \in Surjection(1..N, Names)
  BY DEF Surjection, QueueOf
<1>4. s \in Injection(1..N, Names)
  BY <1>2, <1>3, CredentialsAssumption, FS_SurjSameCardinalityImpliesInj
<1>5. Distinct(s)
  BY <1>4 DEF Injection, IsInjective, Distinct
<1>6. s \in Seq(Names)
  BY <1>1, SeqDef
<1> QED
  BY <1>5, <1>6 DEF Consistent

-----------------------------------------------------------------------------
(* Lemmas on the workers *)

LEMMA StepsAre ==
    /\ Len(Steps) = 5
    /\ Steps[1] = "server-cert" /\ Steps[2] = "admin.conf"
    /\ Steps[3] = "controller-manager.conf" /\ Steps[4] = "kube-apiserver"
    /\ Steps[5] = "kube-controller-manager"
BY DEF Steps

\* A busy worker has a task, and the others' tasks are for other tenants.
LEMMA TaskOf ==
    ASSUME WorkOK, NEW w \in Workers, Busy(w)
    PROVE  /\ work[w] \in Tasks
           /\ Name(w) \in Names
           /\ work[w].step \in 1..5
           /\ Name(w) \in Processing
<1>1. work[w] \in {Idle} \cup Tasks /\ work[w] # Idle
  BY DEF WorkOK, Busy, Idle
<1>2. work[w] \in Tasks
  BY <1>1
<1>3. work[w].name \in Names /\ work[w].step \in 1..5
  BY <1>2, StepsAre DEF Tasks
<1> QED
  BY <1>2, <1>3 DEF Name, Processing

\* A worker goes on with the same tenant.
LEMMA GoesOn ==
    ASSUME QueueInv, NEW w \in Workers, Busy(w), NEW t \in Tasks,
           t.name = Name(w), t.ca # Missing => t.key # Missing,
           work' = [work EXCEPT ![w] = t], UNCHANGED <<manager, queue, dirty, delayed>>
    PROVE  QueueInv'
<1>1. WorkOK /\ work[w] \in Tasks
  BY TaskOf DEF QueueInv
<1>2. WorkOK'
  BY <1>1 DEF WorkOK, Busy
<1>3. \A v \in Workers : Busy(v)' = Busy(v) /\ (Busy(v) => Name(v)' = Name(v))
  BY <1>1 DEF WorkOK, Tasks, Busy, Name
<1>4. Processing' = Processing
  BY <1>3 DEF Processing
<1>5. Alone'
  BY <1>3 DEF QueueInv, Alone
<1> QED
  BY <1>2, <1>3, <1>4, <1>5 DEF QueueInv

\* A worker without a task.
LEMMA Stops ==
    ASSUME QueueInv, NEW w \in Workers, Busy(w), NEW failed \in BOOLEAN, Done(w, failed),
           UNCHANGED manager
    PROVE  QueueInv'
<1> DEFINE n == Name(w)
<1>1. WorkOK /\ n \in Names /\ n \in Processing /\ Alone
      /\ Consistent(queue, dirty, Processing)
  BY TaskOf DEF QueueInv
<1>2. \A v \in Workers : IF v = w THEN ~Busy(v)' ELSE work'[v] = work[v]
  BY <1>1 DEF Done, WorkOK, Busy, Idle
<1>3. WorkOK'
  BY <1>1 DEF Done, WorkOK, Busy, Idle
<1>4. Processing' = Processing \ {n}
  BY <1>1, <1>2 DEF Processing, Busy, Name, Alone
<1>5. Alone'
  BY <1>1, <1>2 DEF Alone, Busy, Name
<1>6. Consistent(queue, dirty, Processing')
  BY <1>1, <1>4 DEF Consistent
<1>7. Consistent(queue', dirty', Processing')
  <2>1. CASE n \in dirty
    <3>1. n \notin QueueOf(queue) /\ n \notin Processing'
      BY <1>1, <1>4 DEF Consistent
    <3>2. Consistent(Append(queue, n), dirty \cup {n}, Processing')
      BY <1>1, <1>6, <3>1, Appended
    <3>3. dirty \cup {n} = dirty
      BY <2>1
    <3> QED
      BY <2>1, <3>2, <3>3 DEF Done
  <2>2. CASE n \notin dirty
    BY <2>2, <1>6 DEF Done
  <2> QED
    BY <2>1, <2>2
<1>8. (delayed \subseteq Names)'
  BY <1>1 DEF QueueInv, Done
<1>9. manager = 0 => \A v \in Workers : ~Busy(v)'
  BY <1>2 DEF QueueInv, Busy
<1>10. Consistent(queue, dirty, Processing)'
  BY <1>7 DEF Consistent, QueueOf, Distinct
<1> QED
  BY <1>3, <1>5, <1>8, <1>9, <1>10 DEF QueueInv

\* The pass is over, after its last step or with an answer that is lost.
Ends(w) == /\ \E failed \in BOOLEAN : Done(w, failed)
           /\ provisioned' \in {provisioned, provisioned \cup {Name(w)}}

LEMMA AdvanceCases == \A w : Advance(w) => NextStep(w) \/ Ends(w)
BY DEF Advance, Ends

\* After a step that succeeded.
LEMMA Advances ==
    ASSUME QueueInv, NEW w \in Workers, Busy(w), Advance(w), UNCHANGED manager,
           provisioned \subseteq Names
    PROVE  QueueInv' /\ provisioned' \subseteq Names
<1>1. WorkOK /\ work[w] \in Tasks /\ Name(w) \in Names
  BY TaskOf DEF QueueInv
<1>2. CASE NextStep(w)
  <2> DEFINE t == [work[w] EXCEPT !.step = work[w].step + 1, !.ca = Missing, !.key = Missing]
  <2>0. work[w].step \in 1..Len(Steps)
    BY <1>1 DEF Tasks
  <2>s. work[w].step + 1 \in 1..Len(Steps)
    BY <2>0, <1>2, StepsAre DEF NextStep
  <2>1. t \in Tasks /\ t.name = Name(w) /\ t.ca = Missing
    BY <1>1, <2>s DEF Tasks, Name
  <2>2. work' = [work EXCEPT ![w] = t] /\ UNCHANGED <<provisioned, queue, dirty, delayed>>
    BY <1>2 DEF NextStep
  <2> HIDE DEF t
  <2>3. QueueInv'
    BY <2>1, <2>2, GoesOn
  <2> QED
    BY <2>2, <2>3
<1>3. CASE Ends(w)
  BY <1>1, <1>3, Stops DEF Ends
<1> QED
  BY <1>2, <1>3, AdvanceCases

-----------------------------------------------------------------------------
(* Lemmas on secrets and kubeconfigs *)

LEMMA GeneratedFacts ==
    ASSUME NEW n, NEW k \in Nat
    PROVE  LET g == Generated(n, k)
           IN  /\ g = [f \in GeneratedFiles |-> g[f]]
               /\ g["ca.crt"] = NewCA(k + 1)
               /\ g["ca.key"] = PrivateKey(k + 1, "PKCS1")
               /\ g["apiserver.crt"] = NewCert(PrivateKey(k + 1, "PKCS1"), k + 2,
                     "kube-apiserver", ServerNames(n), "server")
               /\ g["apiserver.key"] = PrivateKey(k + 2, "PKCS1")
               /\ g["apiserver-kubelet-client.crt"] = NewCert(PrivateKey(k + 1, "PKCS1"), k + 3,
                     "kube-apiserver-kubelet-client", {}, "client")
               /\ g["apiserver-kubelet-client.key"] = PrivateKey(k + 3, "PKCS1")
               /\ g["front-proxy-ca.crt"] = NewCA(k + 4)
               /\ g["front-proxy-ca.key"] = PrivateKey(k + 4, "PKCS1")
               /\ g["front-proxy-client.crt"] = NewCert(PrivateKey(k + 4, "PKCS1"), k + 5,
                     "front-proxy-client", {}, "client")
               /\ g["front-proxy-client.key"] = PrivateKey(k + 5, "PKCS1")
               /\ g["sa.pub"] = PublicKey(k + 6)
               /\ g["sa.key"] = PrivateKey(k + 6, "PKCS1")
BY DEF Generated, GeneratedFiles

LEMMA ServerCertFacts ==
    ASSUME NEW n, NEW k \in Nat, NEW v
    PROVE  /\ ServerCert(n, k, v) = [f \in Files |-> ServerCert(n, k, v)[f]]
           /\ \A f \in GeneratedFiles : ServerCert(n, k, v)[f] = Generated(n, k)[f]
           /\ \A f \in EtcdFiles \ GeneratedFiles : ServerCert(n, k, v)[f] = Etcd(f, v)
BY DEF ServerCert, Files

LEMMA NewSecretOK ==
    ASSUME NEW n \in Names, NEW k \in Nat, NEW v
    PROVE  SecretOK(ServerCert(n, k, v))
<1> DEFINE data == ServerCert(n, k, v)
<1>1. {"ca.crt", "ca.key", "apiserver.crt", "apiserver.key"} \subseteq GeneratedFiles
  BY DEF GeneratedFiles
<1>2. /\ data["ca.crt"] = NewCA(k + 1) /\ data["ca.key"] = PrivateKey(k + 1, "PKCS1")
      /\ data["apiserver.crt"] = NewCert(PrivateKey(k + 1, "PKCS1"), k + 2, "kube-apiserver",
                                         ServerNames(n), "server")
      /\ data["apiserver.key"] = PrivateKey(k + 2, "PKCS1")
  BY <1>1, ServerCertFacts, GeneratedFacts
<1>3. /\ data["ca.crt"] \in Certificates /\ data["ca.key"] \in SigningKeys
      /\ data["apiserver.crt"] \in Certificates /\ data["apiserver.key"] \in SigningKeys
  BY <1>2 DEF NewCA, NewCert, PrivateKey, Certificates, SigningKeys
<1>4. data = [f \in Files |-> data[f]]
  BY ServerCertFacts
<1> HIDE DEF data
<1>5. SecretOK(data)
  BY <1>3, <1>4 DEF SecretOK
<1> QED
  BY <1>5 DEF data

\* What can be decoded from a secret is a certificate and a key.
LEMMA Decoded ==
    ASSUME NEW data, SecretOK(data), data # Missing,
           DecodesCert(data["ca.crt"]), DecodesKey(data["ca.key"])
    PROVE  data["ca.crt"] \in Certificates /\ data["ca.key"] \in SigningKeys
BY DEF SecretOK, DecodesCert, DecodesKey, Missing, Garbage

\* A kubeconfig signed with the key of the certificate that it contains.
LEMMA NewConfOK ==
    ASSUME NEW n, NEW ca \in Certificates, NEW key \in SigningKeys, Signs(ca, key), NEW k, NEW cn
    PROVE  LET conf == NewWithSecret(n, ca, key, k, cn)
           IN  /\ ConfOK(n, conf)
               /\ conf # Missing
               /\ conf.ca = ca /\ conf.cert.by = key.key
               /\ conf.cert.key = k /\ conf.key.key = k
<1> DEFINE conf == NewWithSecret(n, ca, key, k, cn)
<1>1. /\ conf.server = Endpoint(n) /\ conf.ca = ca
      /\ conf.cert = NewCert(key, k, cn, {}, "client") /\ conf.key = PrivateKey(k, "PKCS1")
  BY DEF NewWithSecret
<1>2. conf # Missing
  BY DEF NewWithSecret, Missing
<1>3. /\ conf.cert.kind = "cert" /\ conf.cert.by = key.key /\ conf.cert.key = k
      /\ conf.cert.usage = "client" /\ conf.key.key = k
  BY <1>1 DEF NewCert, PrivateKey
<1>4. ca.kind = "cert" /\ ca.key = key.key
  BY DEF Certificates, Signs
<1> HIDE DEF conf
<1>5. ConfOK(n, conf)
  BY <1>1, <1>3, <1>4 DEF ConfOK, SignedBy, DecodesCert
<1>6. ConfOK(n, conf) /\ conf # Missing /\ conf.ca = ca /\ conf.cert.by = key.key
      /\ conf.cert.key = k /\ conf.key.key = k
  BY <1>1, <1>2, <1>3, <1>5
<1> QED
  BY <1>6 DEF conf

LEMMA StoreKept ==
    ASSUME StoreOK, UNCHANGED <<server, confs, deployed>>, provisioned' \subseteq Names
    PROVE  StoreOK'
BY DEF StoreOK, SecretOK, ConfOK, SignedBy, DecodesCert

\* Secrets and kubeconfigs stay.
Grows == \A n \in Names : (HasSecret(n) => HasSecret(n)') /\ (HasKubeConfig(n) => HasKubeConfig(n)')

\* Workers stop, go on, or begin.
LEMMA PastKept ==
    ASSUME QueueInv, PastSteps, Grows,
           \A v \in Workers : Busy(v)' =>
              \/ work'[v].step = 1
              \/ Busy(v) /\ Name(v)' = Name(v) /\ work'[v].step = work[v].step
    PROVE  PastSteps'
<1> SUFFICES ASSUME NEW v \in Workers, Busy(v)'
             PROVE  /\ work'[v].step > 1 => HasSecret(Name(v))'
                    /\ work'[v].step > 3 => HasKubeConfig(Name(v))'
  BY DEF PastSteps
<1>1. CASE work'[v].step = 1
  BY <1>1
<1>2. CASE Busy(v) /\ Name(v)' = Name(v) /\ work'[v].step = work[v].step
  <2>1. Name(v) \in Names
    BY <1>2, TaskOf DEF QueueInv
  <2>2. work[v].step > 1 => HasSecret(Name(v))
    BY <1>2 DEF PastSteps
  <2>3. work[v].step > 3 => HasKubeConfig(Name(v))
    BY <1>2 DEF PastSteps
  <2>4. HasSecret(Name(v)) => HasSecret(Name(v))'
    BY <1>2, <2>1 DEF Grows, HasSecret
  <2>5. HasKubeConfig(Name(v)) => HasKubeConfig(Name(v))'
    BY <1>2, <2>1 DEF Grows, HasKubeConfig
  <2> QED
    BY <1>2, <2>2, <2>3, <2>4, <2>5
<1> QED
  BY <1>1, <1>2

LEMMA Standing == UNCHANGED <<server, confs>> => Grows
BY DEF Grows, HasSecret, HasKubeConfig

LEMMA DoneKeepsPast ==
    ASSUME QueueInv, PastSteps, Grows, NEW w \in Workers, Busy(w), NEW failed \in BOOLEAN,
           Done(w, failed)
    PROVE  PastSteps'
<1>1. \A v \in Workers : Busy(v)' => Busy(v) /\ work'[v] = work[v]
  BY DEF QueueInv, Done, WorkOK, Busy, Idle
<1> QED
  BY <1>1, PastKept DEF Name

\* A worker leaves a step whose result is there.
LEMMA PastAdvance ==
    ASSUME QueueInv, PastSteps, Grows, NEW w \in Workers, Busy(w), Advance(w),
           work[w].step = 1 => server'[Name(w)] # Missing,
           work[w].step = 3 => confs'[Name(w)]["controller-manager.conf"] # Missing
    PROVE  PastSteps'
<1> DEFINE n == Name(w)
<1>1. WorkOK /\ n \in Names /\ work[w].step \in 1..5
  BY TaskOf DEF QueueInv
<1>2. CASE NextStep(w)
  <2> DEFINE t == [work[w] EXCEPT !.step = work[w].step + 1, !.ca = Missing, !.key = Missing]
  <2>a. work' = [work EXCEPT ![w] = t]
    BY <1>2 DEF NextStep
  <2>b. t.name = n /\ t.step = work[w].step + 1
    BY <1>1, TaskOf DEF Tasks, Name
  <2> HIDE DEF t
  <2>c. work'[w] = t /\ \A v \in Workers : v # w => work'[v] = work[v]
    BY <1>1, <2>a DEF WorkOK
  <2>1. /\ Name(w)' = n /\ work'[w].step = work[w].step + 1
        /\ \A v \in Workers : v # w => work'[v] = work[v]
    BY <2>b, <2>c DEF Name
  <2>2. work[w].step > 1 => server[n] # Missing
    BY DEF PastSteps, HasSecret
  <2>3. work[w].step > 3 => confs[n]["controller-manager.conf"] # Missing
    BY DEF PastSteps, HasKubeConfig
  <2>4. server'[n] # Missing
    BY <1>1, <2>2 DEF Grows, HasSecret
  <2>5. work'[w].step > 3 => confs'[n]["controller-manager.conf"] # Missing
    BY <1>1, <2>1, <2>3 DEF Grows, HasKubeConfig
  <2>6. ASSUME NEW v \in Workers, Busy(v)', v # w
        PROVE  /\ work'[v].step > 1 => HasSecret(Name(v))'
               /\ work'[v].step > 3 => HasKubeConfig(Name(v))'
    <3>1. Busy(v) /\ work'[v] = work[v] /\ Name(v)' = Name(v)
      BY <2>1, <2>6 DEF Busy, Name
    <3>2. Name(v) \in Names
      BY <1>1, <3>1, TaskOf
    <3>3. work[v].step > 1 => server[Name(v)] # Missing
      BY <3>1 DEF PastSteps, HasSecret
    <3>4. work[v].step > 3 => confs[Name(v)]["controller-manager.conf"] # Missing
      BY <3>1 DEF PastSteps, HasKubeConfig
    <3> QED
      BY <3>1, <3>2, <3>3, <3>4 DEF Grows, HasSecret, HasKubeConfig
  <2>7. HasSecret(Name(w))' /\ (work'[w].step > 3 => HasKubeConfig(Name(w))')
    BY <2>1, <2>4, <2>5 DEF HasSecret, HasKubeConfig
  <2> QED
    BY <2>6, <2>7 DEF PastSteps
<1>3. CASE Ends(w)
  BY <1>3, DoneKeepsPast DEF Ends
<1> QED
  BY <1>2, <1>3, AdvanceCases

LEMMA MountedKept ==
    ASSUME Mounted, Grows, UNCHANGED deployed
    PROVE  Mounted'
BY DEF Mounted, Grows

-----------------------------------------------------------------------------
(* The invariant of every specification of the module *)

LEMMA CredentialsInvInit == Init => CredentialsInv
<1> SUFFICES ASSUME Init
             PROVE  CredentialsInv
  OBVIOUS
<1>1. CountersOK
  BY CredentialsAssumption DEF Init, CountersOK
<1>2. WorkOK /\ \A w \in Workers : ~Busy(w)
  BY DEF Init, WorkOK, Busy, Idle
<1>3. Processing = {} /\ Alone
  BY <1>2 DEF Processing, Alone
<1>4. queue \in Seq(Names) /\ QueueOf(queue) = {} /\ Distinct(queue)
  BY EmptySeq DEF Init, QueueOf, Distinct
<1>5. QueueInv
  BY <1>2, <1>3, <1>4 DEF QueueInv, Consistent, Init
<1>6. StoreOK
  BY DEF Init, StoreOK, SecretOK, ConfOK
<1>7. PastSteps /\ Mounted
  BY <1>2 DEF Init, PastSteps, Mounted
<1> QED
  BY <1>1, <1>5, <1>6, <1>7 DEF CredentialsInv

LEMMA FailsKeeps ==
    ASSUME CredentialsInv, NEW w \in Workers, Busy(w), Fails(w), UNCHANGED <<etcd, manager, minted>>
    PROVE  CredentialsInv'
<1>1. Done(w, TRUE) /\ UNCHANGED <<server, confs, deployed, provisioned>>
  BY DEF Fails, cluster
<1>2. QueueInv'
  BY <1>1, Stops DEF CredentialsInv
<1>3. StoreOK'
  BY <1>1, StoreKept DEF CredentialsInv, StoreOK
<1>4. PastSteps' /\ Mounted'
  BY <1>1, DoneKeepsPast, MountedKept, Standing DEF CredentialsInv
<1> QED
  BY <1>2, <1>3, <1>4 DEF CredentialsInv, CountersOK

LEMMA TakeKeeps ==
    ASSUME CredentialsInv, NEW w \in Workers, Take(w)
    PROVE  CredentialsInv'
<1> DEFINE n == Head(queue)
           t == [busy |-> TRUE, name |-> n, step |-> 1, ca |-> Missing, key |-> Missing]
<1>1. /\ queue # <<>> /\ ~Busy(w) /\ manager > 0 /\ work' = [work EXCEPT ![w] = t]
      /\ queue' = Tail(queue) /\ dirty' = dirty \ {n}
      /\ UNCHANGED <<etcd, manager, minted, server, confs, deployed, provisioned, delayed>>
  BY DEF Take, cluster
<1>2. WorkOK /\ Alone /\ Consistent(queue, dirty, Processing)
  BY DEF CredentialsInv, QueueInv
<1>3. n \in Names \ Processing /\ Consistent(queue', dirty', Processing \cup {n})
  BY <1>1, <1>2, Taken
<1>4. t \in Tasks /\ t.busy /\ t.name = n /\ t.step = 1 /\ t.ca = Missing
  BY <1>3, StepsAre DEF Tasks
<1> HIDE DEF t, n
<1>5. WorkOK'
  BY <1>1, <1>2, <1>4 DEF WorkOK, Busy
<1>6. \A v \in Workers : IF v = w THEN work'[v] = t ELSE work'[v] = work[v]
  BY <1>1, <1>2 DEF WorkOK
<1>7. Processing' = Processing \cup {n}
  BY <1>1, <1>4, <1>6 DEF Processing, Busy, Name
<1>8. Alone'
  BY <1>2, <1>3, <1>4, <1>6 DEF Alone, Busy, Name, Processing
<1>9. Consistent(queue, dirty, Processing)'
  BY <1>3, <1>7 DEF Consistent, QueueOf, Distinct
<1>10. manager' # 0
  BY <1>1 DEF CredentialsInv, CountersOK
<1>11. QueueInv'
  BY <1>1, <1>5, <1>8, <1>9, <1>10 DEF CredentialsInv, QueueInv
<1>12. StoreOK'
  BY <1>1, StoreKept DEF CredentialsInv, StoreOK
<1>13. \A v \in Workers : Busy(v)' =>
         \/ work'[v].step = 1
         \/ Busy(v) /\ Name(v)' = Name(v) /\ work'[v].step = work[v].step
  BY <1>4, <1>6 DEF Busy, Name
<1>14. PastSteps' /\ Mounted'
  BY <1>1, <1>13, PastKept, MountedKept, Standing DEF CredentialsInv
<1> QED
  BY <1>1, <1>11, <1>12, <1>14 DEF CredentialsInv, CountersOK

LEMMA SkipKeeps ==
    ASSUME CredentialsInv, NEW w \in Workers, Skip(w)
    PROVE  CredentialsInv'
<1>1. Busy(w) /\ UNCHANGED <<etcd, manager, minted, server, confs, deployed>>
      /\ \/ Done(w, FALSE) /\ UNCHANGED provisioned
         \/ /\ Advance(w)
            /\ \/ At(w) = "server-cert" /\ server[Name(w)] # Missing
               \/ At(w) \in ConfFiles /\ confs[Name(w)][At(w)] # Missing
               \/ At(w) \in deployed[Name(w)]
  BY DEF Skip
<1>2. Grows /\ Name(w) \in Names /\ provisioned \subseteq Names
  BY <1>1, Standing, TaskOf DEF CredentialsInv, QueueInv, StoreOK
<1>3. QueueInv' /\ provisioned' \subseteq Names /\ PastSteps'
  <2>1. CASE Done(w, FALSE) /\ UNCHANGED provisioned
    BY <1>1, <1>2, <2>1, Stops, DoneKeepsPast DEF CredentialsInv
  <2>2. CASE ~(Done(w, FALSE) /\ UNCHANGED provisioned)
    <3>1. At(w) \in deployed[Name(w)] => At(w) \in Deployments
      BY <1>2 DEF CredentialsInv, StoreOK
    <3>2. work[w].step = 1 => server'[Name(w)] # Missing
      BY <1>1, <2>2, <3>1, StepsAre DEF At, ConfFiles, Deployments
    <3>3. work[w].step = 3 => confs'[Name(w)]["controller-manager.conf"] # Missing
      BY <1>1, <2>2, <3>1, StepsAre DEF At, ConfFiles, Deployments
    <3> QED
      BY <1>1, <1>2, <2>2, <3>2, <3>3, Advances, PastAdvance DEF CredentialsInv
  <2> QED
    BY <2>1, <2>2
<1>4. StoreOK' /\ Mounted'
  BY <1>1, <1>2, <1>3, StoreKept, MountedKept DEF CredentialsInv
<1> QED
  BY <1>1, <1>3, <1>4 DEF CredentialsInv, CountersOK

LEMMA ReconcileSecretKeeps ==
    ASSUME CredentialsInv, NEW w \in Workers, ReconcileSecret(w)
    PROVE  CredentialsInv'
<1> DEFINE data == ServerCert(Name(w), minted, manager)
<1>1. /\ Busy(w) /\ Advance(w) /\ server' = [server EXCEPT ![Name(w)] = data]
      /\ minted' = minted + 6 /\ UNCHANGED <<etcd, manager, confs, deployed>>
  BY DEF ReconcileSecret
<1>2. Name(w) \in Names
  BY <1>1, TaskOf DEF CredentialsInv, QueueInv
<1>3. QueueInv' /\ provisioned' \subseteq Names
  BY <1>1, Advances DEF CredentialsInv, StoreOK
<1>4. SecretOK(data)
  BY <1>2, NewSecretOK DEF CredentialsInv, CountersOK
<1> HIDE DEF data
<1>5. /\ server' = [n \in Names |-> server'[n]]
      /\ \A n \in Names : server'[n] = data \/ server'[n] = server[n]
  BY <1>1, <1>2 DEF CredentialsInv, StoreOK
<1>6. \A n \in Names : SecretOK(server'[n])
  BY <1>4, <1>5 DEF CredentialsInv, StoreOK
<1>7. StoreOK'
  <2>1. \A n \in Names : SecretOK(server[n])'
    BY <1>6 DEF SecretOK
  <2>2. \A n \in Names, f \in ConfFiles : ConfOK(n, confs[n][f])'
    BY <1>1 DEF CredentialsInv, StoreOK, ConfOK, SignedBy, DecodesCert
  <2> QED
    BY <1>1, <1>3, <1>5, <2>1, <2>2 DEF CredentialsInv, StoreOK
<1>8. data # Missing
  BY DEF data, ServerCert, Files, GeneratedFiles, Missing
<1>9. Grows /\ server'[Name(w)] = data
  BY <1>1, <1>2, <1>5, <1>8 DEF CredentialsInv, StoreOK, Grows, HasSecret, HasKubeConfig
<1>10. At(w) = "server-cert"
  BY DEF ReconcileSecret
<1>11. work[w].step = 1
  BY <1>1, <1>10, StepsAre, TaskOf DEF At, CredentialsInv, QueueInv
<1>12. PastSteps' /\ Mounted'
  BY <1>1, <1>8, <1>9, <1>11, PastAdvance, MountedKept DEF CredentialsInv
<1> QED
  BY <1>1, <1>3, <1>7, <1>12 DEF CredentialsInv, CountersOK

LEMMA ParseCASecretKeeps ==
    ASSUME CredentialsInv, NEW w \in Workers, ParseCASecret(w)
    PROVE  CredentialsInv'
<1> DEFINE data == server[Name(w)]
<1>1. /\ Busy(w) /\ At(w) \in ConfFiles /\ work[w].ca = Missing
      /\ UNCHANGED <<etcd, manager, minted>>
      /\ \/ Fails(w)
         \/ /\ DecodesCert(data["ca.crt"]) /\ DecodesKey(data["ca.key"])
            /\ work' = [work EXCEPT ![w].ca = data["ca.crt"], ![w].key = data["ca.key"]]
            /\ UNCHANGED <<server, confs, deployed, provisioned, queue, dirty, delayed>>
  BY DEF ParseCASecret, cluster
<1>2. CASE Fails(w)
  BY <1>1, <1>2, FailsKeeps
<1>3. CASE ~Fails(w)
  <2>1. work[w] \in Tasks /\ Name(w) \in Names
    BY <1>1, TaskOf DEF CredentialsInv, QueueInv
  <2>2. data # Missing
    <3>1. work[w].step > 1
      BY <1>1, <2>1, StepsAre, TaskOf DEF At, ConfFiles, CredentialsInv, QueueInv
    <3> QED
      BY <1>1, <3>1 DEF CredentialsInv, PastSteps, HasSecret
  <2>3. data["ca.crt"] \in Certificates /\ data["ca.key"] \in SigningKeys
    <3>1. SecretOK(data)
      BY <2>1 DEF CredentialsInv, StoreOK
    <3>2. DecodesCert(data["ca.crt"]) /\ DecodesKey(data["ca.key"])
      BY <1>1, <1>3
    <3> QED
      BY <2>2, <3>1, <3>2, Decoded
  <2> DEFINE t == [work[w] EXCEPT !.ca = data["ca.crt"], !.key = data["ca.key"]]
  <2>4. t \in Tasks /\ t.name = Name(w) /\ t.step = work[w].step /\ t.key = data["ca.key"]
    BY <2>1, <2>3 DEF Tasks, Name
  <2>5. t.key # Missing
    BY <2>3, <2>4 DEF SigningKeys, Missing
  <2>6. work' = [work EXCEPT ![w] = t]
    BY <1>1, <1>3
  <2> HIDE DEF t
  <2>7. QueueInv'
    BY <1>1, <1>3, <2>4, <2>5, <2>6, GoesOn DEF CredentialsInv
  <2>8. StoreOK'
    BY <1>1, <1>3, StoreKept DEF CredentialsInv, StoreOK
  <2>9. \A v \in Workers : Busy(v)' => Busy(v) /\ Name(v)' = Name(v) /\ work'[v].step = work[v].step
    BY <1>1, <2>4, <2>6 DEF CredentialsInv, QueueInv, WorkOK, Busy, Name
  <2>10. PastSteps' /\ Mounted'
    BY <1>1, <1>3, <2>9, PastKept, MountedKept, Standing DEF CredentialsInv
  <2> QED
    BY <1>1, <1>3, <2>7, <2>8, <2>10 DEF CredentialsInv, CountersOK
<1> QED
  BY <1>2, <1>3

LEMMA ReconcileKubeConfigKeeps ==
    ASSUME CredentialsInv, NEW w \in Workers, ReconcileKubeConfig(w)
    PROVE  CredentialsInv'
<1> DEFINE n == Name(w)
           f == At(w)
           conf == NewWithSecret(n, work[w].ca, work[w].key, minted + 1, UserOf(f))
<1>1. /\ Busy(w) /\ f \in ConfFiles /\ work[w].ca # Missing /\ UNCHANGED <<etcd, manager>>
      /\ \/ Fails(w) /\ UNCHANGED minted
         \/ /\ Signs(work[w].ca, work[w].key)
            /\ confs' = [confs EXCEPT ![n][f] = conf]
            /\ minted' = minted + 1
            /\ Advance(w)
            /\ UNCHANGED <<server, deployed>>
  BY DEF ReconcileKubeConfig
<1>2. CASE Fails(w) /\ UNCHANGED minted
  BY <1>1, <1>2, FailsKeeps
<1>3. CASE ~(Fails(w) /\ UNCHANGED minted)
  <2>1. work[w] \in Tasks /\ n \in Names /\ work[w].step \in 1..5 /\ work[w].key # Missing
    BY <1>1, TaskOf DEF CredentialsInv, QueueInv, WorkOK
  <2>2. work[w].ca \in Certificates /\ work[w].key \in SigningKeys
    BY <1>1, <2>1 DEF Tasks
  <2>3. ConfOK(n, conf) /\ conf # Missing
    BY <1>1, <1>3, <2>2, NewConfOK
  <2> HIDE DEF conf
  <2>4. provisioned \subseteq Names /\ QueueInv /\ StoreOK
    BY DEF CredentialsInv, StoreOK
  <2>5. QueueInv' /\ provisioned' \subseteq Names
    BY <1>1, <1>3, <2>4, Advances
  <2>6. /\ confs' = [m \in Names |-> [g \in ConfFiles |-> confs'[m][g]]]
        /\ confs'[n][f] = conf
        /\ \A m \in Names, g \in ConfFiles :
              confs'[m][g] = confs[m][g] \/ (m = n /\ g = f /\ confs'[m][g] = conf)
    <3>1. confs = [m \in Names |-> [g \in ConfFiles |-> confs[m][g]]]
      BY <2>4 DEF StoreOK
    <3>2. confs' = [confs EXCEPT ![n][f] = conf] /\ n \in Names /\ f \in ConfFiles
      BY <1>1, <1>3, <2>1
    <3> HIDE DEF n, f
    <3>3. confs' = [confs EXCEPT ![n] = [confs[n] EXCEPT ![f] = conf]]
      BY <3>2
    <3>4. confs' = [m \in Names |-> IF m = n THEN [confs[n] EXCEPT ![f] = conf] ELSE confs[m]]
      BY <3>1, <3>2, <3>3
    <3>5. /\ confs'[n] = [g \in ConfFiles |-> IF g = f THEN conf ELSE confs[n][g]]
          /\ \A m \in Names : m # n => confs'[m] = [g \in ConfFiles |-> confs[m][g]]
      BY <3>1, <3>2, <3>4
    <3> QED
      BY <3>2, <3>4, <3>5
  <2>7. \A m \in Names, g \in ConfFiles : ConfOK(m, confs'[m][g])
    BY <2>3, <2>4, <2>6 DEF StoreOK
  <2>8. StoreOK'
    BY <1>1, <1>3, <2>4, <2>5, <2>6, <2>7 DEF StoreOK, SecretOK, ConfOK, SignedBy, DecodesCert
  <2>9. Grows
    BY <1>1, <1>3, <2>3, <2>6 DEF Grows, HasSecret, HasKubeConfig, ConfFiles
  <2>10. work[w].step > 1 /\ (work[w].step = 3 => f = "controller-manager.conf")
    BY <1>1, <2>1, StepsAre DEF At, ConfFiles
  <2>11. PastSteps' /\ Mounted'
    BY <1>1, <1>3, <2>3, <2>6, <2>9, <2>10, PastAdvance, MountedKept DEF CredentialsInv
  <2> QED
    BY <1>1, <1>3, <2>5, <2>8, <2>11 DEF CredentialsInv, CountersOK
<1> QED
  BY <1>2, <1>3

LEMMA DeployKeeps ==
    ASSUME CredentialsInv, NEW w \in Workers, Deploy(w)
    PROVE  CredentialsInv'
<1> DEFINE n == Name(w)
<1>1. /\ Busy(w) /\ At(w) \in Deployments \ deployed[n] /\ Advance(w)
      /\ deployed' = [deployed EXCEPT ![n] = deployed[n] \cup {At(w)}]
      /\ UNCHANGED <<etcd, manager, minted, server, confs>>
  BY DEF Deploy
<1>2. n \in Names /\ work[w].step \in 1..5 /\ provisioned \subseteq Names /\ Grows
  BY <1>1, TaskOf, Standing DEF CredentialsInv, QueueInv, StoreOK
<1>3. QueueInv' /\ provisioned' \subseteq Names
  BY <1>1, <1>2, Advances DEF CredentialsInv
<1>4. work[w].step > 3 /\ HasSecret(n) /\ (At(w) = "kube-controller-manager" => HasKubeConfig(n))
  <2>1. work[w].step > 3
    BY <1>1, <1>2, StepsAre DEF At, Deployments
  <2>2. work[w].step > 1
    BY <1>2, <2>1
  <2>3. HasSecret(n) /\ HasKubeConfig(n)
    BY <1>1, <2>1, <2>2 DEF CredentialsInv, PastSteps
  <2> QED
    BY <2>1, <2>3
<1>5. PastSteps'
  BY <1>1, <1>2, <1>4, PastAdvance DEF CredentialsInv
<1>6. /\ deployed' \in [Names -> SUBSET Deployments]
      /\ \A m \in Names : deployed'[m] = deployed[m] \/ (m = n /\ deployed'[m] = deployed[m] \cup {At(w)})
  BY <1>1, <1>2 DEF CredentialsInv, StoreOK
<1>7. StoreOK'
  BY <1>1, <1>3, <1>6 DEF CredentialsInv, StoreOK, SecretOK, ConfOK, SignedBy, DecodesCert
<1>8. Mounted'
  BY <1>1, <1>4, <1>6 DEF CredentialsInv, Mounted, HasSecret, HasKubeConfig
<1> QED
  BY <1>1, <1>3, <1>5, <1>7, <1>8 DEF CredentialsInv, CountersOK

\* What the manager does as a process, and what others do to the etcd secret,
\* leaves the stored objects alone.
LEMMA SameStore ==
    ASSUME CredentialsInv, UNCHANGED cluster, CountersOK', QueueInv',
           \A v \in Workers : Busy(v)' => Busy(v) /\ work'[v] = work[v]
    PROVE  CredentialsInv'
<1>1. UNCHANGED <<server, confs, deployed, provisioned>>
  BY DEF cluster
<1>2. StoreOK'
  BY <1>1, StoreKept DEF CredentialsInv, StoreOK
<1>3. PastSteps' /\ Mounted'
  BY <1>1, PastKept, MountedKept, Standing DEF CredentialsInv, Name
<1> QED
  BY <1>2, <1>3 DEF CredentialsInv

LEMMA StartManagerKeeps == ASSUME CredentialsInv, StartManager PROVE CredentialsInv'
<1>1. PICK s \in [1..Cardinality(Names) -> Names] : QueueOf(s) = Names /\ queue' = s
  BY DEF StartManager
<1>2. /\ manager = 0 /\ etcd > 0 /\ manager' = etcd /\ dirty' = Names
      /\ UNCHANGED <<etcd, minted, cluster, delayed, work>>
  BY DEF StartManager
<1>3. (\A w \in Workers : ~Busy(w)) /\ Processing = {}
  BY <1>2 DEF CredentialsInv, QueueInv, Processing
<1>4. Processing' = {} /\ WorkOK' /\ Alone'
  BY <1>2, <1>3 DEF Processing, Busy, CredentialsInv, QueueInv, WorkOK, Alone
<1>5. Consistent(queue', dirty', Processing')
  BY <1>1, <1>2, <1>4, Listed
<1>6. Consistent(queue, dirty, Processing)'
  BY <1>5 DEF Consistent, QueueOf, Distinct
<1>7. CountersOK' /\ manager' # 0
  BY <1>2 DEF CredentialsInv, CountersOK
<1>8. QueueInv'
  BY <1>2, <1>4, <1>6, <1>7 DEF CredentialsInv, QueueInv
<1> QED
  BY <1>2, <1>7, <1>8, SameStore DEF Busy

LEMMA StopManagerKeeps == ASSUME CredentialsInv, StopManager PROVE CredentialsInv'
<1>1. /\ manager' = 0 /\ queue' = <<>> /\ dirty' = {} /\ delayed' = {}
      /\ work' = [w \in Workers |-> Idle] /\ UNCHANGED <<etcd, minted, cluster>>
  BY DEF StopManager
<1>2. WorkOK' /\ \A w \in Workers : ~Busy(w)'
  BY <1>1 DEF WorkOK, Busy, Idle
<1>3. Processing' = {} /\ Alone'
  BY <1>2 DEF Processing, Alone
<1>4. queue' \in Seq(Names) /\ QueueOf(queue') = {} /\ Distinct(queue')
  BY <1>1, EmptySeq DEF QueueOf, Distinct
<1>5. Consistent(queue, dirty, Processing)'
  BY <1>1, <1>3, <1>4 DEF Consistent, QueueOf, Distinct
<1>6. QueueInv'
  BY <1>1, <1>2, <1>3, <1>5 DEF QueueInv
<1>7. CountersOK'
  BY <1>1 DEF CredentialsInv, CountersOK
<1> QED
  BY <1>1, <1>2, <1>6, <1>7, SameStore

LEMMA RotateEtcdKeeps == ASSUME CredentialsInv, RotateEtcd PROVE CredentialsInv'
<1>1. /\ etcd < MaxRotations /\ etcd' = etcd + 1
      /\ UNCHANGED <<manager, minted, cluster, queue, dirty, delayed, work>>
  BY DEF RotateEtcd
<1>2. CountersOK'
  BY <1>1, CredentialsAssumption DEF CredentialsInv, CountersOK
<1>3. QueueInv'
  BY <1>1 DEF CredentialsInv, QueueInv, WorkOK, Busy, Name, Alone, Processing, Consistent,
              QueueOf, Distinct
<1> QED
  BY <1>1, <1>2, <1>3, SameStore DEF Busy

\* A key that nobody has noted yet is queued, or waits for its worker.
LEMMA AddKeeps ==
    ASSUME CredentialsInv, NEW n \in Names, Add(n), delayed' \subseteq Names,
           UNCHANGED <<etcd, manager, minted, cluster, work>>
    PROVE  CredentialsInv'
<1>1. Consistent(queue, dirty, Processing) /\ n \notin dirty
  BY DEF CredentialsInv, QueueInv, Add
<1>2. n \notin QueueOf(queue)
  BY <1>1 DEF Consistent
<1>3. Consistent(queue', dirty', Processing)
  <2>1. CASE n \in Processing
    BY <1>1, <2>1 DEF Add, Consistent
  <2>2. CASE n \notin Processing
    BY <1>1, <1>2, <2>2, Appended DEF Add
  <2> QED
    BY <2>1, <2>2
<1>4. WorkOK' /\ Alone' /\ Processing' = Processing
  BY DEF CredentialsInv, QueueInv, WorkOK, Alone, Processing, Busy, Name
<1>5. Consistent(queue, dirty, Processing)'
  BY <1>3, <1>4 DEF Consistent, QueueOf, Distinct
<1>6. QueueInv'
  BY <1>4, <1>5 DEF CredentialsInv, QueueInv, Busy
<1> QED
  BY <1>6, SameStore DEF CredentialsInv, CountersOK, Busy

LEMMA EventKeeps ==
    ASSUME CredentialsInv, NEW n \in Names, Event(n) \/ BackOffEnds(n)
    PROVE  CredentialsInv'
<1>1. CASE Event(n)
  BY <1>1, AddKeeps DEF Event, CredentialsInv, QueueInv
<1>2. CASE BackOffEnds(n)
  <2>1. UNCHANGED <<etcd, manager, minted, cluster, work>> /\ delayed' \subseteq Names
    BY <1>2 DEF BackOffEnds, CredentialsInv, QueueInv
  <2>2. CASE n \in dirty
    <3>1. UNCHANGED <<queue, dirty>>
      BY <1>2, <2>2 DEF BackOffEnds
    <3>2. QueueInv'
      BY <2>1, <3>1 DEF CredentialsInv, QueueInv, WorkOK, Busy, Name, Alone, Processing,
                        Consistent, QueueOf, Distinct
    <3> QED
      BY <2>1, <3>2, SameStore DEF CredentialsInv, CountersOK, Busy
  <2>3. CASE n \notin dirty
    BY <1>2, <2>1, <2>3, AddKeeps DEF BackOffEnds
  <2> QED
    BY <2>2, <2>3
<1> QED
  BY <1>1, <1>2

LEMMA EditCAKeeps ==
    ASSUME CredentialsInv, NEW n \in Names, EditCA(n)
    PROVE  CredentialsInv'
<1>1. /\ server[n] # Missing /\ minted' = minted + 1
      /\ UNCHANGED <<etcd, manager, confs, deployed, provisioned, queue, dirty, delayed, work>>
  BY DEF EditCA
<1>2. PICK crt \in {server[n]["ca.crt"], server[n]["apiserver.crt"],
                    NewCA(minted + 1), Garbage, Missing},
           key \in {server[n]["ca.key"], server[n]["apiserver.key"],
                    PrivateKey(minted + 1, "EC"), Garbage, Missing} :
              server' = [server EXCEPT ![n]["ca.crt"] = crt, ![n]["ca.key"] = key]
  BY DEF EditCA
<1>3. minted + 1 \in Nat
  BY DEF CredentialsInv, CountersOK
<1>4. NewCA(minted + 1) \in Certificates /\ PrivateKey(minted + 1, "EC") \in SigningKeys
  BY <1>3 DEF NewCA, PrivateKey, Certificates, SigningKeys
<1>5. /\ server = [m \in Names |-> server[m]]
      /\ server[n] = [f \in Files |-> server[n][f]]
      /\ server[n]["ca.crt"] \in {Missing, Garbage} \cup Certificates
      /\ server[n]["ca.key"] \in {Missing, Garbage} \cup SigningKeys
      /\ server[n]["apiserver.crt"] \in Certificates
      /\ server[n]["apiserver.key"] \in SigningKeys
  BY <1>1 DEF CredentialsInv, StoreOK, SecretOK
<1>6. /\ crt \in {Missing, Garbage} \cup Certificates
      /\ key \in {Missing, Garbage} \cup SigningKeys
  BY <1>2, <1>4, <1>5
<1> DEFINE data == [f \in Files |-> IF f = "ca.crt" THEN crt
                                    ELSE IF f = "ca.key" THEN key ELSE server[n][f]]
<1>7. server' = [server EXCEPT ![n] = data]
  BY <1>2, <1>5
<1>8. SecretOK(data) /\ data # Missing
  BY <1>5, <1>6 DEF SecretOK, Files, GeneratedFiles, Missing
<1> HIDE DEF data
<1>9. /\ server' = [m \in Names |-> server'[m]]
      /\ \A m \in Names : server'[m] = IF m = n THEN data ELSE server[m]
  BY <1>5, <1>7
<1>10. \A m \in Names : SecretOK(server'[m])
  BY <1>8, <1>9 DEF CredentialsInv, StoreOK
<1>11. StoreOK'
  BY <1>1, <1>9, <1>10 DEF CredentialsInv, StoreOK, SecretOK, ConfOK, SignedBy, DecodesCert
<1>12. Grows
  BY <1>1, <1>8, <1>9 DEF Grows, HasSecret, HasKubeConfig
<1>13. PastSteps' /\ Mounted'
  BY <1>1, <1>12, PastKept, MountedKept DEF CredentialsInv, Busy, Name
<1>14. QueueInv'
  BY <1>1 DEF CredentialsInv, QueueInv, WorkOK, Busy, Name, Alone, Processing, Consistent,
              QueueOf, Distinct
<1> QED
  BY <1>1, <1>3, <1>11, <1>13, <1>14 DEF CredentialsInv, CountersOK

LEMMA CredentialsInvStep == CredentialsInv /\ [Next]_vars => CredentialsInv'
<1> SUFFICES ASSUME CredentialsInv, [Next]_vars
             PROVE  CredentialsInv'
  OBVIOUS
<1>1. ASSUME NEW w \in Workers, Take(w) \/ Work(w)
      PROVE  CredentialsInv'
  <2>1. CASE RequestFails(w)
    BY <2>1, FailsKeeps DEF RequestFails
  <2> QED
    BY <1>1, <2>1, TakeKeeps, SkipKeeps, ReconcileSecretKeeps, ParseCASecretKeeps,
       ReconcileKubeConfigKeeps, DeployKeeps DEF Work
<1>2. CASE UNCHANGED vars
  <2>1. UNCHANGED <<etcd, manager, minted, cluster, queue, dirty, delayed, work>>
    BY <1>2 DEF vars
  <2>2. CountersOK' /\ QueueInv'
    BY <2>1 DEF CredentialsInv, CountersOK, QueueInv, WorkOK, Busy, Name, Alone, Processing,
                Consistent, QueueOf, Distinct
  <2> QED
    BY <2>1, <2>2, SameStore DEF Busy
<1>3. ASSUME NEW n \in Names, BackOffEnds(n) \/ Event(n)
      PROVE  CredentialsInv'
  BY <1>3, EventKeeps
<1>4. ASSUME NEW n \in Edited, EditCA(n)
      PROVE  CredentialsInv'
  BY <1>4, EditCAKeeps, CredentialsAssumption
<1> QED
  BY <1>1, <1>2, <1>3, <1>4, StartManagerKeeps, StopManagerKeeps, RotateEtcdKeeps DEF Next

LEMMA CredentialsInvHolds == Spec => []CredentialsInv
BY CredentialsInvInit, CredentialsInvStep, PTL DEF Spec

\* Type correctness, whoever edits the CAs of whichever tenants.
THEOREM CredentialsTypeCorrect == Spec => []TypeOK
<1>1. CredentialsInv => TypeOK
  <2> SUFFICES ASSUME CredentialsInv
               PROVE  TypeOK
    OBVIOUS
  <2>1. \A n \in Names : /\ server[n] = Missing \/ DOMAIN server[n] = Files
                         /\ \A f \in ConfFiles :
                               confs[n][f] = Missing \/ confs[n][f].server = Endpoint(n)
                         /\ deployed[n] \subseteq Deployments
    BY DEF CredentialsInv, StoreOK, SecretOK, ConfOK
  <2>2. \A w \in Workers : Busy(w) => Name(w) \in Names /\ work[w].step \in 1..Len(Steps)
    BY TaskOf, StepsAre DEF CredentialsInv, QueueInv
  <2> QED
    BY <2>1, <2>2 DEF CredentialsInv, CountersOK, StoreOK, QueueInv, Consistent, TypeOK
<1> QED
  BY <1>1, CredentialsInvHolds, PTL

\* No two workers are at one tenant, for any number of workers, events, back-offs
\* and restarts: the work queue of the manager (client-go's, as SetupWithManager
\* configures it) keeps the keys in processing out of the queue.
THEOREM OneWorkerPerTenantHolds == Spec => []OneWorkerPerTenant
<1>1. CredentialsInv => OneWorkerPerTenant
  BY DEF CredentialsInv, QueueInv, Consistent, Distinct, Alone, OneWorkerPerTenant
<1> QED
  BY <1>1, CredentialsInvHolds, PTL

\* Every kubeconfig that the controller writes is signed with the key of the
\* certificate that it contains, whatever pair the administrators put into the
\* secrets meanwhile.
THEOREM AlwaysSignedByWhatItTrusts == Spec => []SignedByWhatItTrusts
<1>1. CredentialsInv => SignedByWhatItTrusts
  BY DEF CredentialsInv, StoreOK, ConfOK, SignedByWhatItTrusts
<1> QED
  BY <1>1, CredentialsInvHolds, PTL

-----------------------------------------------------------------------------
(* Whose CA it is, when nobody edits the secrets *)

LEMMA CAOf ==
    ASSUME NEW n, NEW k \in Nat, NEW v
    PROVE  /\ ServerCert(n, k, v)["ca.crt"].key = k + 1
           /\ ServerCert(n, k, v) # Missing
<1>1. "ca.crt" \in GeneratedFiles
  BY DEF GeneratedFiles
<1>2. ServerCert(n, k, v)["ca.crt"] = Generated(n, k)["ca.crt"]
  BY <1>1, ServerCertFacts
<1>3. Generated(n, k)["ca.crt"] = NewCA(k + 1)
  BY GeneratedFacts
<1>4. ServerCert(n, k, v) # Missing
  BY DEF ServerCert, Files, GeneratedFiles, Missing
<1> QED
  BY <1>2, <1>3, <1>4 DEF NewCA

\* A secret that is there stays as it is.
Steady == \A n \in Names : server[n] # Missing => server'[n] = server[n]

LEMMA OwnKept ==
    ASSUME OwnCA, UNCHANGED server, minted \in Nat, minted' \in Nat, minted <= minted'
    PROVE  OwnCA'
<1> SUFFICES ASSUME NEW n \in Names, server'[n] # Missing
             PROVE  /\ \E k \in Nat, v \in Nat : k + 6 <= minted' /\ server'[n] = ServerCert(n, k, v)
                    /\ \A m \in Names : m # n /\ server'[m] # Missing
                          => server'[m]["ca.crt"].key # server'[n]["ca.crt"].key
  BY DEF OwnCA
<1>1. PICK k \in Nat, v \in Nat : k + 6 <= minted /\ server[n] = ServerCert(n, k, v)
  BY DEF OwnCA
<1>2. k + 6 <= minted'
  BY <1>1
<1>3. \E i \in Nat, j \in Nat : i + 6 <= minted' /\ server'[n] = ServerCert(n, i, j)
  BY <1>1, <1>2
<1>4. \A m \in Names : m # n /\ server'[m] # Missing
         => server'[m]["ca.crt"].key # server'[n]["ca.crt"].key
  BY DEF OwnCA
<1> QED
  BY <1>3, <1>4

\* Workers stop, begin, or go on with what they hold.
LEMMA HeldKept ==
    ASSUME HeldFromSecret, WorkOK, Steady,
           \A v \in Workers : Busy(v)' =>
              work'[v].ca = Missing \/ (Busy(v) /\ work'[v] = work[v])
    PROVE  HeldFromSecret'
<1> SUFFICES ASSUME NEW v \in Workers, Busy(v)', work'[v].ca # Missing
             PROVE  /\ server'[Name(v)'] # Missing
                    /\ work'[v].ca = server'[Name(v)']["ca.crt"]
                    /\ work'[v].key = server'[Name(v)']["ca.key"]
  BY DEF HeldFromSecret
<1>1. Busy(v) /\ work'[v] = work[v] /\ Name(v)' = Name(v) /\ Name(v) \in Names
  BY TaskOf DEF Name
<1> QED
  BY <1>1 DEF HeldFromSecret, Steady

LEMMA ConfsKept ==
    ASSUME ConfsFromSecret, Steady, UNCHANGED confs
    PROVE  ConfsFromSecret'
BY DEF ConfsFromSecret, Steady, Opens

LEMMA DoneHolds ==
    ASSUME WorkOK, NEW w \in Workers, NEW failed \in BOOLEAN, Done(w, failed)
    PROVE  \A v \in Workers : Busy(v)' => Busy(v) /\ work'[v] = work[v]
BY DEF Done, WorkOK, Busy, Idle

LEMMA AdvanceHolds ==
    ASSUME WorkOK, NEW w \in Workers, Busy(w), Advance(w)
    PROVE  \A v \in Workers : Busy(v)' =>
              work'[v].ca = Missing \/ (Busy(v) /\ work'[v] = work[v])
<1>1. CASE NextStep(w)
  <2> DEFINE t == [work[w] EXCEPT !.step = work[w].step + 1, !.ca = Missing, !.key = Missing]
  <2>1. work' = [work EXCEPT ![w] = t]
    BY <1>1 DEF NextStep
  <2>2. t.ca = Missing
    BY TaskOf DEF Tasks
  <2> HIDE DEF t
  <2> QED
    BY <2>1, <2>2 DEF WorkOK, Busy
<1>2. CASE Ends(w)
  BY <1>2, DoneHolds DEF Ends
<1> QED
  BY <1>1, <1>2, AdvanceCases

LEMMA OwnershipInvInit == Init => OwnershipInv
<1> SUFFICES ASSUME Init
             PROVE  OwnershipInv
  OBVIOUS
<1>1. OwnCA /\ HeldFromSecret /\ ConfsFromSecret
  BY DEF Init, OwnCA, HeldFromSecret, ConfsFromSecret, Busy, Idle
<1> QED
  BY <1>1, CredentialsInvInit DEF OwnershipInv

\* Steps that make no secret and no kubeconfig.
LEMMA NothingMade ==
    ASSUME OwnershipInv, CredentialsInv', UNCHANGED <<server, confs, minted>>,
           \A v \in Workers : Busy(v)' =>
              work'[v].ca = Missing \/ (Busy(v) /\ work'[v] = work[v])
    PROVE  OwnershipInv'
<1>1. Steady /\ minted \in Nat /\ minted' \in Nat /\ minted <= minted' /\ WorkOK
  BY DEF Steady, OwnershipInv, CredentialsInv, CountersOK, QueueInv
<1> QED
  BY <1>1, OwnKept, HeldKept, ConfsKept DEF OwnershipInv

LEMMA SecretMade ==
    ASSUME OwnershipInv, CredentialsInv', NEW w \in Workers, ReconcileSecret(w)
    PROVE  OwnershipInv'
<1> DEFINE n == Name(w)
           data == ServerCert(n, minted, manager)
<1>1. /\ Busy(w) /\ Advance(w) /\ server[n] = Missing
      /\ server' = [server EXCEPT ![n] = data]
      /\ minted' = minted + 6 /\ UNCHANGED confs
  BY DEF ReconcileSecret
<1>2. n \in Names /\ WorkOK /\ minted \in Nat /\ manager \in Nat
  BY <1>1, TaskOf, CredentialsAssumption DEF OwnershipInv, CredentialsInv, QueueInv, CountersOK
<1>3. data["ca.crt"].key = minted + 1 /\ data # Missing
  BY <1>2, CAOf
<1>4. \A m \in Names : server'[m] = IF m = n THEN data ELSE server[m]
  BY <1>1, <1>2 DEF OwnershipInv, CredentialsInv, StoreOK
<1>5. \A m \in Names : server[m] # Missing => server[m]["ca.crt"].key \in Nat
                                             /\ server[m]["ca.crt"].key <= minted
  <2> SUFFICES ASSUME NEW m \in Names, server[m] # Missing
               PROVE  server[m]["ca.crt"].key \in Nat /\ server[m]["ca.crt"].key <= minted
    OBVIOUS
  <2>1. PICK k \in Nat, v \in Nat : k + 6 <= minted /\ server[m] = ServerCert(m, k, v)
    BY DEF OwnershipInv, OwnCA
  <2>2. server[m]["ca.crt"].key = k + 1
    BY <2>1, CAOf
  <2> QED
    BY <1>2, <2>1, <2>2
<1>6. Steady
  BY <1>1, <1>4 DEF Steady
<1>7. OwnCA'
  <2> SUFFICES ASSUME NEW m \in Names, server'[m] # Missing
               PROVE  /\ \E k \in Nat, v \in Nat : k + 6 <= minted' /\ server'[m] = ServerCert(m, k, v)
                      /\ \A l \in Names : l # m /\ server'[l] # Missing
                            => server'[l]["ca.crt"].key # server'[m]["ca.crt"].key
    BY DEF OwnCA
  <2>1. \E k \in Nat, v \in Nat : k + 6 <= minted' /\ server'[m] = ServerCert(m, k, v)
    <3>1. CASE m = n
      BY <1>1, <1>2, <1>4, <3>1
    <3>2. CASE m # n
      <4>1. PICK k \in Nat, v \in Nat : k + 6 <= minted /\ server[m] = ServerCert(m, k, v)
        BY <1>4, <3>2 DEF OwnershipInv, OwnCA
      <4>2. k + 6 <= minted'
        BY <1>1, <1>2, <4>1
      <4> QED
        BY <1>4, <3>2, <4>1, <4>2
    <3> QED
      BY <3>1, <3>2
  <2> HIDE DEF data
  <2>2. ASSUME NEW l \in Names, l # m, server'[l] # Missing
        PROVE  server'[l]["ca.crt"].key # server'[m]["ca.crt"].key
    <3>1. CASE m = n
      BY <1>2, <1>3, <1>4, <1>5, <2>2, <3>1
    <3>2. CASE l = n
      BY <1>2, <1>3, <1>4, <1>5, <2>2, <3>2
    <3>3. CASE m # n /\ l # n
      BY <1>4, <2>2, <3>3 DEF OwnershipInv, OwnCA
    <3> QED
      BY <3>1, <3>2, <3>3
  <2> QED
    BY <2>1, <2>2
<1>8. HeldFromSecret' /\ ConfsFromSecret'
  BY <1>1, <1>2, <1>6, AdvanceHolds, HeldKept, ConfsKept DEF OwnershipInv
<1> QED
  BY <1>7, <1>8 DEF OwnershipInv

LEMMA CATaken ==
    ASSUME OwnershipInv, CredentialsInv', NEW w \in Workers, ParseCASecret(w)
    PROVE  OwnershipInv'
<1> DEFINE n == Name(w)
           data == server[n]
<1>1. /\ Busy(w) /\ At(w) \in ConfFiles /\ UNCHANGED minted
      /\ \/ Fails(w)
         \/ /\ work' = [work EXCEPT ![w].ca = data["ca.crt"], ![w].key = data["ca.key"]]
            /\ UNCHANGED <<server, confs>>
  BY DEF ParseCASecret, cluster
<1>2. WorkOK /\ work[w] \in Tasks /\ n \in Names /\ work[w].step \in 1..5
  BY <1>1, TaskOf DEF OwnershipInv, CredentialsInv, QueueInv
<1>3. CASE Fails(w)
  BY <1>1, <1>2, <1>3, DoneHolds, NothingMade DEF Fails, cluster
<1>4. CASE ~Fails(w)
  <2> DEFINE t == [work[w] EXCEPT !.ca = data["ca.crt"], !.key = data["ca.key"]]
  <2>1. t.name = n /\ t.ca = data["ca.crt"] /\ t.key = data["ca.key"]
    BY <1>2 DEF Tasks, Name
  <2>2. work' = [work EXCEPT ![w] = t]
    BY <1>1, <1>4
  <2> HIDE DEF t
  <2>3. work'[w] = t /\ \A v \in Workers : v # w => work'[v] = work[v]
    BY <1>2, <2>2 DEF WorkOK
  <2>4. work[w].step > 1
    BY <1>1, <1>2, StepsAre DEF At, ConfFiles
  <2>5. server[n] # Missing
    BY <1>1, <2>4 DEF OwnershipInv, CredentialsInv, PastSteps, HasSecret
  <2>6. HeldFromSecret'
    <3> SUFFICES ASSUME NEW v \in Workers, Busy(v)', work'[v].ca # Missing
                 PROVE  /\ server[Name(v)'] # Missing
                        /\ work'[v].ca = server[Name(v)']["ca.crt"]
                        /\ work'[v].key = server[Name(v)']["ca.key"]
      BY <1>1, <1>4 DEF HeldFromSecret
    <3>1. CASE v = w
      BY <2>1, <2>3, <2>5, <3>1 DEF Name
    <3>2. CASE v # w
      BY <2>3, <3>2 DEF OwnershipInv, HeldFromSecret, Busy, Name
    <3> QED
      BY <3>1, <3>2
  <2>7. OwnCA' /\ ConfsFromSecret'
    BY <1>1, <1>4, OwnKept, ConfsKept DEF OwnershipInv, CredentialsInv, CountersOK, Steady
  <2> QED
    BY <2>6, <2>7 DEF OwnershipInv
<1> QED
  BY <1>3, <1>4

LEMMA ConfMade ==
    ASSUME OwnershipInv, CredentialsInv', NEW w \in Workers, ReconcileKubeConfig(w)
    PROVE  OwnershipInv'
<1> DEFINE n == Name(w)
           f == At(w)
           conf == NewWithSecret(n, work[w].ca, work[w].key, minted + 1, UserOf(f))
<1>1. /\ Busy(w) /\ f \in ConfFiles /\ work[w].ca # Missing
      /\ \/ Fails(w) /\ UNCHANGED minted
         \/ /\ Signs(work[w].ca, work[w].key)
            /\ confs' = [confs EXCEPT ![n][f] = conf]
            /\ minted' = minted + 1
            /\ Advance(w)
            /\ UNCHANGED server
  BY DEF ReconcileKubeConfig
<1>2. WorkOK /\ work[w] \in Tasks /\ n \in Names /\ work[w].key # Missing
  BY <1>1, TaskOf DEF OwnershipInv, CredentialsInv, QueueInv, WorkOK
<1>3. CASE Fails(w) /\ UNCHANGED minted
  BY <1>1, <1>2, <1>3, DoneHolds, NothingMade DEF Fails, cluster
<1>4. CASE ~(Fails(w) /\ UNCHANGED minted)
  <2>1. work[w].ca \in Certificates /\ work[w].key \in SigningKeys
    BY <1>1, <1>2 DEF Tasks
  <2>2. /\ server[n] # Missing /\ work[w].ca = server[n]["ca.crt"]
    BY <1>1 DEF OwnershipInv, HeldFromSecret
  <2>3. conf # Missing /\ Opens(conf, server[n])
    BY <1>1, <1>4, <2>1, <2>2, NewConfOK DEF Opens, Signs
  <2> HIDE DEF conf
  <2>4. \A m \in Names, g \in ConfFiles :
           confs'[m][g] = confs[m][g] \/ (m = n /\ confs'[m][g] = conf)
    <3>1. confs = [m \in Names |-> [g \in ConfFiles |-> confs[m][g]]]
      BY DEF OwnershipInv, CredentialsInv, StoreOK
    <3>2. confs' = [confs EXCEPT ![n] = [confs[n] EXCEPT ![f] = conf]]
      BY <1>1, <1>4
    <3> HIDE DEF n, f
    <3>3. \A m \in Names : confs'[m] = IF m = n THEN [confs[n] EXCEPT ![f] = conf] ELSE confs[m]
      BY <3>1, <3>2
    <3>4. confs[n] = [g \in ConfFiles |-> confs[n][g]]
      BY <1>2, <3>1
    <3> QED
      BY <1>1, <3>3, <3>4
  <2>5. ConfsFromSecret'
    BY <1>1, <1>4, <2>2, <2>3, <2>4 DEF OwnershipInv, ConfsFromSecret, Opens
  <2>6. Steady
    BY <1>1, <1>4 DEF Steady
  <2>7. OwnCA' /\ HeldFromSecret'
    BY <1>1, <1>2, <1>4, <2>6, OwnKept, HeldKept, AdvanceHolds
       DEF OwnershipInv, CredentialsInv, CountersOK
  <2> QED
    BY <2>5, <2>7 DEF OwnershipInv
<1> QED
  BY <1>3, <1>4

LEMMA OwnershipInvStep == Unedited /\ OwnershipInv /\ [Next]_vars => OwnershipInv'
<1> SUFFICES ASSUME Unedited, OwnershipInv, [Next]_vars
             PROVE  OwnershipInv'
  OBVIOUS
<1>1. CredentialsInv'
  BY CredentialsInvStep DEF OwnershipInv
<1>2. WorkOK
  BY DEF OwnershipInv, CredentialsInv, QueueInv
<1>3. ASSUME NEW w \in Workers, Take(w) \/ Work(w)
      PROVE  OwnershipInv'
  <2>1. CASE Take(w)
    <3> DEFINE t == [busy |-> TRUE, name |-> Head(queue), step |-> 1,
                     ca |-> Missing, key |-> Missing]
    <3>1. work' = [work EXCEPT ![w] = t] /\ UNCHANGED <<server, confs, minted>>
      BY <2>1 DEF Take, cluster
    <3>2. t.ca = Missing
      OBVIOUS
    <3> HIDE DEF t
    <3>3. \A v \in Workers : Busy(v)' => work'[v].ca = Missing \/ (Busy(v) /\ work'[v] = work[v])
      BY <1>2, <3>1, <3>2 DEF WorkOK, Busy
    <3> QED
      BY <1>1, <3>1, <3>3, NothingMade
  <2>2. CASE Skip(w)
    <3>1. Busy(w) /\ UNCHANGED <<server, confs, minted>> /\ (Advance(w) \/ Done(w, FALSE))
      BY <2>2 DEF Skip
    <3> QED
      BY <1>1, <1>2, <3>1, NothingMade, AdvanceHolds, DoneHolds
  <2>3. CASE Deploy(w)
    BY <1>1, <1>2, <2>3, NothingMade, AdvanceHolds DEF Deploy
  <2>4. CASE RequestFails(w)
    BY <1>1, <1>2, <2>4, NothingMade, DoneHolds DEF RequestFails, Fails, cluster
  <2> QED
    BY <1>1, <1>3, <2>1, <2>2, <2>3, <2>4, SecretMade, CATaken, ConfMade DEF Work
<1>4. CASE StartManager \/ RotateEtcd \/ UNCHANGED vars
  BY <1>1, <1>4, NothingMade DEF StartManager, RotateEtcd, vars, cluster, Busy
<1>5. CASE StopManager
  <2>1. \A v \in Workers : ~Busy(v)'
    BY <1>5 DEF StopManager, Busy, Idle
  <2> QED
    BY <1>1, <1>5, <2>1, NothingMade DEF StopManager, cluster
<1>6. ASSUME NEW n \in Names, BackOffEnds(n) \/ Event(n)
      PROVE  OwnershipInv'
  BY <1>1, <1>6, NothingMade DEF BackOffEnds, Event, cluster, Busy
<1> QED
  BY <1>3, <1>4, <1>5, <1>6 DEF Next, Unedited

LEMMA OwnershipInvHolds == Unedited /\ Spec => []OwnershipInv
<1>1. Init => OwnershipInv
  BY OwnershipInvInit
<1>2. SUFFICES ASSUME Unedited
               PROVE  Spec => []OwnershipInv
  OBVIOUS
<1>3. OwnershipInv /\ [Next]_vars => OwnershipInv'
  BY <1>2, OwnershipInvStep
<1> QED
  BY <1>1, <1>3, PTL DEF Spec

\* The kubeconfigs of a tenant open its own control plane and no other one, for any
\* number of tenants and workers, failures in whichever request, and restarts, as
\* long as nobody edits server-cert: a kubeconfig from before an edit does not fit.
THEOREM OwnControlPlaneAlways == Unedited /\ Spec => []OwnControlPlaneOnly
<1>1. ASSUME OwnershipInv, NEW m \in Names, NEW n \in Names, NEW f \in ConfFiles,
             confs[m][f] # Missing, server[n] # Missing
      PROVE  IF m = n
             THEN Handshake(confs[m][f], server[n])
             ELSE /\ ~Verifies(confs[m][f].cert, server[n]["ca.crt"], "client")
                  /\ ~Verifies(server[n]["apiserver.crt"], confs[m][f].ca, "server")
  <2> DEFINE conf == confs[m][f]
             data == server[n]
  <2>1. PICK k \in Nat, v \in Nat : k + 6 <= minted /\ data = ServerCert(n, k, v)
    BY <1>1 DEF OwnershipInv, OwnCA
  <2>2. "ca.crt" \in GeneratedFiles /\ "apiserver.crt" \in GeneratedFiles
    BY DEF GeneratedFiles
  <2>3. data["ca.crt"] = Generated(n, k)["ca.crt"]
        /\ data["apiserver.crt"] = Generated(n, k)["apiserver.crt"]
    BY <2>1, <2>2, ServerCertFacts
  <2>4. /\ data["ca.crt"] = NewCA(k + 1)
        /\ data["apiserver.crt"] = NewCert(PrivateKey(k + 1, "PKCS1"), k + 2,
                                           "kube-apiserver", ServerNames(n), "server")
    BY <2>3, GeneratedFacts
  <2>5. /\ conf.server = Endpoint(m) /\ SignedBy(conf.cert, conf.ca, "client")
        /\ server[m] # Missing /\ Opens(conf, server[m])
    BY <1>1 DEF OwnershipInv, CredentialsInv, StoreOK, ConfOK, ConfsFromSecret
  <2> HIDE DEF conf, data
  <2>6. data["ca.crt"].kind = "cert" /\ data["ca.crt"].usage = "ca" /\ data["ca.crt"].key = k + 1
    BY <2>4 DEF NewCA
  <2>7. /\ data["apiserver.crt"].kind = "cert" /\ data["apiserver.crt"].by = k + 1
        /\ data["apiserver.crt"].usage = "server" /\ data["apiserver.crt"].names = ServerNames(n)
    BY <2>4 DEF NewCert, PrivateKey
  <2>8. CASE m = n
    <3>1. Opens(conf, data) /\ conf.server \in ServerNames(n)
      BY <2>5, <2>8 DEF data, Endpoint, ServerNames
    <3>2. Handshake(conf, data)
      BY <2>5, <2>6, <2>7, <3>1 DEF Handshake, Opens, Verifies, SignedBy, DecodesCert
    <3> QED
      BY <2>8, <3>2 DEF conf, data
  <2>9. CASE m # n
    <3>1. server[m]["ca.crt"].key # data["ca.crt"].key
      BY <1>1, <2>5, <2>9 DEF data, OwnershipInv, OwnCA
    <3>2. conf.cert.by # data["ca.crt"].key /\ data["apiserver.crt"].by # conf.ca.key
      BY <2>5, <2>6, <2>7, <3>1 DEF Opens
    <3>3. ~Verifies(conf.cert, data["ca.crt"], "client")
          /\ ~Verifies(data["apiserver.crt"], conf.ca, "server")
      BY <3>2 DEF Verifies, SignedBy
    <3> QED
      BY <2>9, <3>3 DEF conf, data
  <2> QED
    BY <2>8, <2>9
<1>2. OwnershipInv => OwnControlPlaneOnly
  BY <1>1 DEF OwnControlPlaneOnly
<1> QED
  BY <1>2, OwnershipInvHolds, PTL

\* The secret that --etcd-secret names has the files that the deployments mount.
EtcdSecretComplete ==
    {"etcd-ca.crt", "apiserver-etcd-client.crt", "apiserver-etcd-client.key"} \subseteq EtcdFiles

\* What PodsCanStart asks of server-cert.
Fits(data, d) ==
    /\ \A f \in Arguments[d] : data[f] # Missing
    /\ \A p \in Pairs : /\ data[p[1]].kind \in {"cert", "pub"}
                      /\ DecodesKey(data[p[2]])
                      /\ data[p[1]].key = data[p[2]].key
    /\ Verifies(data["apiserver-kubelet-client.crt"], data["ca.crt"], "client")
    /\ Verifies(data["front-proxy-client.crt"], data["front-proxy-ca.crt"], "client")

\* Every file of a secret that the controller made is there and fits the others.
LEMMA SecretFits ==
    ASSUME EtcdSecretComplete, NEW n, NEW k \in Nat, NEW v, NEW d \in Deployments,
           NEW data, data = ServerCert(n, k, v)
    PROVE  Fits(data, d)
<1> DEFINE g == Generated(n, k)
<1>1. /\ \A f \in GeneratedFiles : data[f] = g[f]
      /\ \A f \in EtcdFiles \ GeneratedFiles : data[f] = Etcd(f, v)
  BY ServerCertFacts
<1>2. /\ g["ca.crt"] = NewCA(k + 1)
      /\ g["ca.key"] = PrivateKey(k + 1, "PKCS1")
      /\ g["apiserver.crt"] = NewCert(PrivateKey(k + 1, "PKCS1"), k + 2,
            "kube-apiserver", ServerNames(n), "server")
      /\ g["apiserver.key"] = PrivateKey(k + 2, "PKCS1")
      /\ g["apiserver-kubelet-client.crt"] = NewCert(PrivateKey(k + 1, "PKCS1"), k + 3,
            "kube-apiserver-kubelet-client", {}, "client")
      /\ g["apiserver-kubelet-client.key"] = PrivateKey(k + 3, "PKCS1")
      /\ g["front-proxy-ca.crt"] = NewCA(k + 4)
      /\ g["front-proxy-ca.key"] = PrivateKey(k + 4, "PKCS1")
      /\ g["front-proxy-client.crt"] = NewCert(PrivateKey(k + 4, "PKCS1"), k + 5,
            "front-proxy-client", {}, "client")
      /\ g["front-proxy-client.key"] = PrivateKey(k + 5, "PKCS1")
      /\ g["sa.pub"] = PublicKey(k + 6)
      /\ g["sa.key"] = PrivateKey(k + 6, "PKCS1")
  BY GeneratedFacts
<1> HIDE DEF g
<1>3. \A f \in GeneratedFiles : g[f] # Missing
  <2>1. \A f \in GeneratedFiles : g[f].kind \in {"cert", "key", "pub"}
    BY <1>2 DEF GeneratedFiles, NewCA, NewCert, PrivateKey, PublicKey
  <2> QED
    BY <2>1 DEF Missing
<1>4. \A f \in EtcdFiles \ GeneratedFiles : data[f] # Missing
  <2> TAKE f \in EtcdFiles \ GeneratedFiles
  <2>1. data[f] = [kind |-> "etcd", key |-> f, version |-> v]
    BY <1>1 DEF Etcd
  <2>2. data[f].kind = "etcd"
    BY <2>1
  <2> QED
    BY <2>2 DEF Missing
<1>5. \A f \in Arguments[d] : data[f] # Missing
  <2>1. Arguments[d] \subseteq GeneratedFiles \cup (EtcdFiles \ GeneratedFiles)
    BY DEF Arguments, GeneratedFiles, EtcdSecretComplete
  <2> QED
    BY <1>1, <1>3, <1>4, <2>1
<1>6. \A p \in Pairs : /\ data[p[1]].kind \in {"cert", "pub"}
                     /\ DecodesKey(data[p[2]])
                     /\ data[p[1]].key = data[p[2]].key
  <2>1. \A p \in Pairs : /\ p[1] \in GeneratedFiles /\ p[2] \in GeneratedFiles
                       /\ g[p[1]].kind \in {"cert", "pub"}
                       /\ DecodesKey(g[p[2]])
                       /\ g[p[1]].key = g[p[2]].key
    BY <1>2 DEF Pairs, GeneratedFiles, NewCA, NewCert, PrivateKey, PublicKey, DecodesKey
  <2> QED
    BY <1>1, <2>1
<1>7. /\ Verifies(g["apiserver-kubelet-client.crt"], g["ca.crt"], "client")
      /\ Verifies(g["front-proxy-client.crt"], g["front-proxy-ca.crt"], "client")
  BY <1>2 DEF NewCA, NewCert, PrivateKey, Verifies, SignedBy, DecodesCert
<1>8. /\ Verifies(data["apiserver-kubelet-client.crt"], data["ca.crt"], "client")
      /\ Verifies(data["front-proxy-client.crt"], data["front-proxy-ca.crt"], "client")
  BY <1>1, <1>7 DEF GeneratedFiles
<1> QED
  BY <1>5, <1>6, <1>8 DEF Fits

\* A deployment finds every file that its arguments name, with keys that fit their
\* certificates, if the secret that --etcd-secret names has the three
\* files of etcd and nobody edits server-cert.
THEOREM PodsCanAlwaysStart == Unedited /\ EtcdSecretComplete /\ Spec => []PodsCanStart
<1> SUFFICES ASSUME EtcdSecretComplete
             PROVE  Unedited /\ Spec => []PodsCanStart
  OBVIOUS
<1>1. OwnershipInv => PodsCanStart
  <2> SUFFICES ASSUME OwnershipInv, NEW n \in Names, NEW d \in deployed[n]
               PROVE  /\ Fits(server[n], d)
                      /\ d = "kube-controller-manager"
                            => confs[n]["controller-manager.conf"] # Missing
    BY DEF PodsCanStart, Fits
  <2>1. d \in Deployments /\ server[n] # Missing
        /\ (d = "kube-controller-manager" => confs[n]["controller-manager.conf"] # Missing)
    BY DEF OwnershipInv, CredentialsInv, StoreOK, Mounted, HasSecret, HasKubeConfig
  <2>2. PICK k \in Nat, v \in Nat : server[n] = ServerCert(n, k, v)
    BY <2>1 DEF OwnershipInv, OwnCA
  <2> QED
    BY <2>1, <2>2, SecretFits
<1> QED
  BY <1>1, OwnershipInvHolds, PTL
===============================================================================
