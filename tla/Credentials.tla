----------------------------- MODULE Credentials -----------------------------
(***************************************************************************)
(* The keys and certificates of several tenants (pkg/secret,               *)
(* pkg/kubeconfig and the provisioning phases of the controller), made by  *)
(* several workers of one manager from a work queue, with the etcd         *)
(* certificates that the manager read when it started (cmd/manager/app).   *)
(*                                                                         *)
(* A certificate is the name and the key that it certifies and the key     *)
(* that signed it.  A tenant's name is the sequence of its parts between   *)
(* hyphens, so that the namespace of "a" is the name of "tenant-a".        *)
(***************************************************************************)
EXTENDS Integers, Sequences, FiniteSets

CONSTANTS
    Names,         \* the tenants
    Workers,       \* bound: ConcurrencyTenantSync
    EtcdFiles,     \* the keys of the secret that --etcd-secret names
    MaxRotations,  \* bound: versions of that secret
    MaxRestarts,   \* bound: restarts of the manager
    MaxFaults,     \* bound: requests that fail
    Edited,        \* tenants whose CA administrators edit
    MaxEdits       \* bound: how many times

ASSUME CredentialsAssumption ==
    /\ Names # {} /\ IsFiniteSet(Names) /\ Workers # {} /\ Edited \subseteq Names
    /\ MaxRotations \in Nat \ {0} /\ MaxRestarts \in Nat
    /\ MaxFaults \in Nat /\ MaxEdits \in Nat

VARIABLES
    etcd,        \* the version of the etcd secret
    manager,     \* the version that the manager holds in memory; 0: not running
    minted,      \* RSA keys generated so far
    server,      \* tenant -> data of the secret server-cert
    confs,       \* tenant and file -> kubeconfig
    deployed,    \* tenant -> deployments
    provisioned, \* tenants whose condition Provisioned is True
    queue, dirty, delayed,  \* the work queue, and keys that back off
    work,        \* worker -> what it holds
    spent        \* how often each bounded event has happened

cluster == <<server, confs, deployed, provisioned>>
vars == <<etcd, manager, minted, cluster, queue, dirty, delayed, work, spent>>

-----------------------------------------------------------------------------
(* Names *)

ClusterNamespaceInHost(name) == <<"tenant">> \o name

\* The host "kube-apiserver.<ns>.svc", which the cluster's DNS resolves to the
\* service kube-apiserver in the namespace <ns>.
Host(ns) == [service |-> "kube-apiserver", namespace |-> ns]

Endpoint(name) == Host(name)

ServerNames(name) == {Host(name), [service |-> "localhost", namespace |-> <<>>]}

-----------------------------------------------------------------------------
(* pkg/secret *)

Missing == [kind |-> "missing"]
Garbage == [kind |-> "garbage"]

\* NewCA overwrites the common name that its caller may have configured.
NewCA(k) == [kind |-> "cert", cn |-> "ca", key |-> k, by |-> k, names |-> {}, usage |-> "ca"]

\* Signed with the private key at hand, whatever certificate goes with it.
NewCert(signer, k, cn, names, usage) ==
    [kind |-> "cert", cn |-> cn, key |-> k, by |-> signer.key, names |-> names, usage |-> usage]

\* PKCS1 as the controller writes it; PKCS8 and EC are read as well.
PrivateKey(k, form) == [kind |-> "key", key |-> k, form |-> form]
PublicKey(k) == [kind |-> "pub", key |-> k]

DecodesCert(m) == m.kind = "cert"
DecodesKey(m)  == m.kind = "key" /\ m.form \in {"PKCS1", "PKCS8", "EC"}

\* Mutant of Signs: the key is not compared with the certificate.
SignsUnchecked(ca, key) == TRUE

\* x509.CreateCertificate refuses a key that is not the certificate's.
Signs(ca, key) == ca.key = key.key

Etcd(f, version) == [kind |-> "etcd", key |-> f, version |-> version]

GeneratedFiles == {"ca.crt", "ca.key", "apiserver.crt", "apiserver.key",
    "apiserver-kubelet-client.crt", "apiserver-kubelet-client.key",
    "front-proxy-ca.crt", "front-proxy-ca.key", "front-proxy-client.crt",
    "front-proxy-client.key", "sa.pub", "sa.key"}

\* Six keys, numbered from k+1 on.
Generated(name, k) ==
    LET ca    == NewCA(k + 1)
        front == NewCA(k + 4)
        pem(j) == PrivateKey(k + j, "PKCS1")
    IN  [f \in GeneratedFiles |->
           CASE f = "ca.crt" -> ca
             [] f = "ca.key" -> pem(1)
             [] f = "apiserver.crt" ->
                  NewCert(pem(1), k + 2, "kube-apiserver", ServerNames(name), "server")
             [] f = "apiserver.key" -> pem(2)
             [] f = "apiserver-kubelet-client.crt" ->
                  NewCert(pem(1), k + 3, "kube-apiserver-kubelet-client", {}, "client")
             [] f = "apiserver-kubelet-client.key" -> pem(3)
             [] f = "front-proxy-ca.crt" -> front
             [] f = "front-proxy-ca.key" -> pem(4)
             [] f = "front-proxy-client.crt" ->
                  NewCert(pem(4), k + 5, "front-proxy-client", {}, "client")
             [] f = "front-proxy-client.key" -> pem(5)
             [] f = "sa.pub" -> PublicKey(k + 6)
             [] f = "sa.key" -> pem(6)]

Files == GeneratedFiles \cup EtcdFiles \cup
         {"etcd-ca.crt", "apiserver-etcd-client.crt", "apiserver-etcd-client.key"}

\* Mutant of ServerCert: the etcd secret is copied last.
ServerCertUnderEtcd(name, k, version) ==
    [f \in Files |-> IF f \in EtcdFiles THEN Etcd(f, version)
                     ELSE IF f \in GeneratedFiles THEN Generated(name, k)[f]
                     ELSE Missing]

\* The etcd secret is copied first, then the generated files are put over it.
ServerCert(name, k, version) ==
    [f \in Files |-> IF f \in GeneratedFiles THEN Generated(name, k)[f]
                     ELSE IF f \in EtcdFiles THEN Etcd(f, version)
                     ELSE Missing]

-----------------------------------------------------------------------------
(* pkg/kubeconfig *)

\* A CA to trust, and a certificate that the given key signs for its user.
NewWithSecret(name, ca, signer, k, cn) ==
    [server |-> Endpoint(name), ca |-> ca, cert |-> NewCert(signer, k, cn, {}, "client"),
     key |-> PrivateKey(k, "PKCS1")]

UserOf(f) == IF f = "admin.conf" THEN "kubernetes-admin" ELSE "system:kube-controller-manager"

-----------------------------------------------------------------------------
(* The work queue and the workers *)

Steps == <<"server-cert", "admin.conf", "controller-manager.conf",
           "kube-apiserver", "kube-controller-manager">>
ConfFiles   == {"admin.conf", "controller-manager.conf"}
Deployments == {"kube-apiserver", "kube-controller-manager"}

Idle == [busy |-> FALSE]
At(w) == Steps[work[w].step]
Name(w) == work[w].name
Busy(w) == work[w].busy
Processing == {Name(w) : w \in {v \in Workers : Busy(v)}}

QueueOf(s) == {s[i] : i \in DOMAIN s}

Init ==
    /\ etcd \in {0, 1} /\ manager = 0 /\ minted = 0
    /\ server = [n \in Names |-> Missing]
    /\ confs = [n \in Names |-> [f \in ConfFiles |-> Missing]]
    /\ deployed = [n \in Names |-> {}] /\ provisioned = {}
    /\ queue = <<>> /\ dirty = {} /\ delayed = {}
    /\ work = [w \in Workers |-> Idle]
    /\ spent = [restarts |-> 0, faults |-> 0, edits |-> 0]

\* Mutant of Add: a queued key is not noted as dirty.
AddUnnoted(n) ==
    /\ n \notin dirty
    /\ UNCHANGED dirty
    /\ queue' = IF n \in Processing THEN queue ELSE Append(queue, n)

\* An event of a tenant, or the end of its back-off.
Add(n) ==
    /\ n \notin dirty
    /\ dirty' = dirty \cup {n}
    /\ queue' = IF n \in Processing THEN queue ELSE Append(queue, n)

\* Mutant of Take: a key that is being processed is handed out again.
TakeAny(w) ==
    /\ manager > 0
    /\ ~Busy(w)
    /\ queue # <<>> \/ dirty # {}
    /\ \E n \in QueueOf(queue) \cup dirty :
          /\ work' = [work EXCEPT ![w] = [busy |-> TRUE, name |-> n, step |-> 1,
                                          ca |-> Missing, key |-> Missing]]
          /\ queue' = SelectSeq(queue, LAMBDA m : m # n)
          /\ dirty' = dirty \ {n}
    /\ UNCHANGED <<etcd, manager, minted, cluster, delayed, spent>>

Take(w) ==
    /\ manager > 0
    /\ ~Busy(w)
    /\ queue # <<>>
    /\ work' = [work EXCEPT ![w] = [busy |-> TRUE, name |-> Head(queue), step |-> 1,
                                    ca |-> Missing, key |-> Missing]]
    /\ queue' = Tail(queue)
    /\ dirty' = dirty \ {Head(queue)}
    /\ UNCHANGED <<etcd, manager, minted, cluster, delayed, spent>>

\* The worker is done with its key, which goes back into the queue if it was
\* added meanwhile, and after a back-off if the pass failed.
Done(w, failed) ==
    /\ work' = [work EXCEPT ![w] = Idle]
    /\ queue' = IF Name(w) \in dirty THEN Append(queue, Name(w)) ELSE queue
    /\ delayed' = IF failed THEN delayed \cup {Name(w)} ELSE delayed
    /\ UNCHANGED dirty

\* Mutant of Fails: a failed pass is not repeated.
FailsForGood(w) ==
    /\ Done(w, FALSE)
    /\ UNCHANGED cluster

Fails(w) ==
    /\ Done(w, TRUE)
    /\ UNCHANGED cluster

Fault ==
    /\ spent.faults < MaxFaults
    /\ spent' = [spent EXCEPT !.faults = @ + 1]

NextStep(w) ==
    /\ work[w].step < Len(Steps)
    /\ work' = [work EXCEPT ![w].step = @ + 1, ![w].ca = Missing, ![w].key = Missing]
    /\ UNCHANGED <<provisioned, queue, dirty, delayed>>

\* On to the next step; after the last one the status is written.  If the answer
\* to what the step has asked for is lost, the pass fails.
Advance(w) ==
    \/ NextStep(w) /\ UNCHANGED spent
    \/ /\ work[w].step = Len(Steps)
       /\ provisioned' = provisioned \cup {Name(w)}
       /\ \/ Done(w, FALSE) /\ UNCHANGED spent
          \/ Done(w, TRUE) /\ Fault
    \/ /\ UNCHANGED provisioned
       /\ Done(w, TRUE) /\ Fault

\* The object is there, or Provisioned is True already.
Skip(w) ==
    /\ Busy(w)
    /\ \/ /\ Name(w) \in provisioned
          /\ Done(w, FALSE)
          /\ UNCHANGED <<provisioned, spent>>
       \/ /\ Name(w) \notin provisioned
          /\ \/ At(w) = "server-cert" /\ server[Name(w)] # Missing
             \/ At(w) \in ConfFiles /\ confs[Name(w)][At(w)] # Missing
             \/ At(w) \in deployed[Name(w)]
          /\ Advance(w)
    /\ UNCHANGED <<etcd, manager, minted, server, confs, deployed>>

ReconcileSecret(w) ==
    /\ Busy(w) /\ Name(w) \notin provisioned
    /\ At(w) = "server-cert" /\ server[Name(w)] = Missing
    /\ server' = [server EXCEPT ![Name(w)] = ServerCert(Name(w), minted, manager)]
    /\ minted' = minted + 6
    /\ Advance(w)
    /\ UNCHANGED <<etcd, manager, confs, deployed>>

\* Mutant of ParseCASecret: the last secret that any worker has read is used.
ParseCASecretOfAny(w) ==
    /\ Busy(w) /\ At(w) \in ConfFiles
    /\ confs[Name(w)][At(w)] = Missing /\ work[w].ca = Missing
    /\ \E n \in Names : /\ server[n] # Missing
                        /\ work' = [work EXCEPT ![w].ca = server[n]["ca.crt"],
                                                ![w].key = server[n]["ca.key"]]
    /\ UNCHANGED <<etcd, manager, minted, cluster, queue, dirty, delayed, spent>>

ParseCASecret(w) ==
    /\ Busy(w) /\ At(w) \in ConfFiles
    /\ confs[Name(w)][At(w)] = Missing /\ work[w].ca = Missing
    /\ LET data == server[Name(w)]
       IN  IF DecodesCert(data["ca.crt"]) /\ DecodesKey(data["ca.key"])
           THEN /\ work' = [work EXCEPT ![w].ca = data["ca.crt"], ![w].key = data["ca.key"]]
                /\ UNCHANGED <<cluster, queue, dirty, delayed>>
           ELSE Fails(w)
    /\ UNCHANGED <<etcd, manager, minted, spent>>

ReconcileKubeConfig(w) ==
    /\ Busy(w) /\ At(w) \in ConfFiles /\ work[w].ca # Missing
    /\ IF Signs(work[w].ca, work[w].key)
       THEN /\ confs' = [confs EXCEPT ![Name(w)][At(w)] =
                            NewWithSecret(Name(w), work[w].ca, work[w].key, minted + 1, UserOf(At(w)))]
            /\ minted' = minted + 1
            /\ Advance(w)
            /\ UNCHANGED <<server, deployed>>
       ELSE Fails(w) /\ UNCHANGED <<minted, spent>>
    /\ UNCHANGED <<etcd, manager>>

Deploy(w) ==
    /\ Busy(w) /\ Name(w) \notin provisioned
    /\ At(w) \in Deployments \ deployed[Name(w)]
    /\ deployed' = [deployed EXCEPT ![Name(w)] = @ \cup {At(w)}]
    /\ Advance(w)
    /\ UNCHANGED <<etcd, manager, minted, server, confs>>

\* A request that is not served.
RequestFails(w) ==
    /\ Busy(w)
    /\ Fault
    /\ Name(w) \notin provisioned
    /\ Fails(w)
    /\ UNCHANGED <<etcd, manager, minted>>

Work(w) ==
    \/ Skip(w) \/ ReconcileSecret(w) \/ ParseCASecret(w) \/ ReconcileKubeConfig(w)
    \/ Deploy(w) \/ RequestFails(w)

-----------------------------------------------------------------------------
(* The manager, the host cluster and its administrators *)

\* Without the etcd secret the process exits, and is started again.  Every
\* tenant is listed.
StartManager ==
    /\ manager = 0
    /\ etcd > 0
    /\ manager' = etcd
    /\ \E s \in [1..Cardinality(Names) -> Names] :
          /\ QueueOf(s) = Names
          /\ queue' = s
    /\ dirty' = Names
    /\ UNCHANGED <<etcd, minted, cluster, delayed, work, spent>>

StopManager ==
    /\ manager > 0
    /\ spent.restarts < MaxRestarts
    /\ spent' = [spent EXCEPT !.restarts = @ + 1]
    /\ manager' = 0
    /\ queue' = <<>> /\ dirty' = {} /\ delayed' = {}
    /\ work' = [w \in Workers |-> Idle]
    /\ UNCHANGED <<etcd, minted, cluster>>

\* The secret is created or its certificates are rotated.
RotateEtcd ==
    /\ etcd < MaxRotations
    /\ etcd' = etcd + 1
    /\ UNCHANGED <<manager, minted, cluster, queue, dirty, delayed, work, spent>>

BackOffEnds(n) ==
    /\ n \in delayed
    /\ delayed' = delayed \ {n}
    /\ IF n \in dirty THEN UNCHANGED <<queue, dirty>> ELSE Add(n)
    /\ UNCHANGED <<etcd, manager, minted, cluster, work, spent>>

\* A watch event while a worker is at the tenant.
Event(n) ==
    /\ manager > 0
    /\ n \in Processing
    /\ Add(n)
    /\ UNCHANGED <<etcd, manager, minted, cluster, delayed, work, spent>>

\* An administrator puts another certificate, another key or something else
\* into a tenant's secret, perhaps a pair that is no authority's.
EditCA(n) ==
    /\ server[n] # Missing
    /\ spent.edits < MaxEdits
    /\ spent' = [spent EXCEPT !.edits = @ + 1]
    /\ \E crt \in {server[n]["ca.crt"], server[n]["apiserver.crt"],
                   NewCA(minted + 1), Garbage, Missing},
          key \in {server[n]["ca.key"], server[n]["apiserver.key"],
                   PrivateKey(minted + 1, "EC"), Garbage, Missing} :
          server' = [server EXCEPT ![n]["ca.crt"] = crt, ![n]["ca.key"] = key]
    /\ minted' = minted + 1
    /\ UNCHANGED <<etcd, manager, confs, deployed, provisioned, queue, dirty, delayed, work>>

Next ==
    \/ \E w \in Workers : Take(w) \/ Work(w)
    \/ StartManager \/ StopManager \/ RotateEtcd
    \/ \E n \in Names : BackOffEnds(n) \/ Event(n)
    \/ \E n \in Edited : EditCA(n)

Spec == Init /\ [][Next]_vars

Fairness ==
    /\ WF_vars(StartManager)
    /\ \A w \in Workers : WF_vars(Take(w)) /\ WF_vars(Work(w))
    /\ \A n \in Names : WF_vars(BackOffEnds(n))

\* Moreover somebody creates the etcd secret.
FairSpec == Spec /\ Fairness /\ WF_vars(etcd = 0 /\ RotateEtcd)
-----------------------------------------------------------------------------
(* Properties *)

TypeOK ==
    /\ etcd \in 0..MaxRotations /\ manager \in 0..etcd
    /\ minted \in Nat
    /\ \A n \in Names : /\ server[n] = Missing \/ DOMAIN server[n] = Files
                        /\ \A f \in ConfFiles :
                              confs[n][f] = Missing \/ confs[n][f].server = Endpoint(n)
                        /\ deployed[n] \subseteq Deployments
    /\ provisioned \subseteq Names /\ delayed \subseteq Names
    /\ QueueOf(queue) \subseteq dirty /\ dirty \subseteq Names
    /\ \A w \in Workers : Busy(w) => Name(w) \in Names /\ work[w].step \in 1..Len(Steps)

\* The work queue's promise to Reconcile, which creates without asking who else
\* does: no two workers are at one tenant, and every key is queued once, through
\* events that come while it is being processed, back-offs and restarts.
OneWorkerPerTenant ==
    /\ \A v, w \in Workers : v # w /\ Busy(v) /\ Busy(w) => Name(v) # Name(w)
    /\ \A i, j \in DOMAIN queue : i # j => queue[i] # queue[j]
    /\ QueueOf(queue) \cap Processing = {}

SignedBy(cert, ca, usage) ==
    DecodesCert(cert) /\ DecodesCert(ca) /\ cert.by = ca.key /\ cert.usage = usage

\* A verifier asks moreover that the signer is an authority.
Verifies(cert, ca, usage) == SignedBy(cert, ca, usage) /\ ca.usage = "ca"

\* The files in the arguments of the two deployments, and which certificate has
\* to match which key.
Arguments ==
    [d \in Deployments |->
        IF d = "kube-apiserver"
        THEN {"ca.crt", "etcd-ca.crt", "apiserver-etcd-client.crt",
              "apiserver-etcd-client.key", "apiserver-kubelet-client.crt",
              "apiserver-kubelet-client.key", "front-proxy-client.crt",
              "front-proxy-client.key", "front-proxy-ca.crt", "sa.pub", "sa.key",
              "apiserver.crt", "apiserver.key"}
        ELSE {"ca.crt", "ca.key", "front-proxy-ca.crt", "sa.key"}]

Pairs == {<<"apiserver.crt", "apiserver.key">>, <<"ca.crt", "ca.key">>, <<"sa.pub", "sa.key">>,
          <<"apiserver-kubelet-client.crt", "apiserver-kubelet-client.key">>,
          <<"front-proxy-client.crt", "front-proxy-client.key">>}

\* Every deployment finds, in the secrets that it mounts, each file that its
\* arguments name, keys that fit their certificates, and client certificates that
\* their own authorities accept: whichever pass made the secret, and whatever the
\* etcd secret held besides.
PodsCanStart ==
    \A n \in Names : \A d \in deployed[n] :
        LET data == server[n]
        IN  /\ \A f \in Arguments[d] : data[f] # Missing
            /\ \A p \in Pairs : /\ data[p[1]].kind \in {"cert", "pub"}
                              /\ DecodesKey(data[p[2]])
                              /\ data[p[1]].key = data[p[2]].key
            /\ Verifies(data["apiserver-kubelet-client.crt"], data["ca.crt"], "client")
            /\ Verifies(data["front-proxy-client.crt"], data["front-proxy-ca.crt"], "client")
            /\ d = "kube-controller-manager" => confs[n]["controller-manager.conf"] # Missing

\* Client and server accept each other's certificates.
Handshake(conf, data) ==
    /\ Verifies(conf.cert, data["ca.crt"], "client")
    /\ Verifies(data["apiserver.crt"], conf.ca, "server")
    /\ conf.server \in data["apiserver.crt"].names
    /\ conf.cert.key = conf.key.key

\* As far as certificates go, the kubeconfigs of a tenant open its own control
\* plane and no other tenant's: with several workers on several tenants, passes
\* that are cut off between the secret and a kubeconfig, and restarts.
OwnControlPlaneOnly ==
    \A m, n \in Names : \A f \in ConfFiles :
        confs[m][f] # Missing /\ server[n] # Missing =>
            IF m = n
            THEN Handshake(confs[m][f], server[n])
            ELSE /\ ~Verifies(confs[m][f].cert, server[n]["ca.crt"], "client")
                 /\ ~Verifies(server[n]["apiserver.crt"], confs[m][f].ca, "server")

\* Whatever an administrator puts in the place of a tenant's CA, and whenever,
\* each kubeconfig contains the certificate whose key has signed it: parts that do
\* not fit, or cannot be decoded, end the pass.  Nobody asks whether the
\* certificate is an authority's, so a verifier may still refuse the kubeconfig.
SignedByWhatItTrusts ==
    \A n \in Names, f \in ConfFiles :
        confs[n][f] # Missing => SignedBy(confs[n][f].cert, confs[n][f].ca, "client")

\* A tenant whose CA nobody edits is provisioned in the end and stays so, even if
\* the passes of another one fail for ever, there is a single worker and its
\* passes are interrupted.
OthersProvisioned == \A n \in Names \ Edited : <>[](n \in provisioned)
===============================================================================
