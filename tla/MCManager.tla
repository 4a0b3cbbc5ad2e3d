------------------------------ MODULE MCManager ------------------------------
(***************************************************************************)
(* Command lines for model checking.                                       *)
(***************************************************************************)
EXTENDS Manager

Options(lease, renew, retry, elect, secret) ==
    [LeaseDuration |-> lease, RenewDeadline |-> renew, RetryPeriod |-> retry,
     LeaderElect |-> elect, EtcdServers |-> "https://etcd:2379", EtcdSecret |-> secret]

\* 15, 10 and 3 seconds leave a gap of 2 seconds.  Here a late answer takes 1.
Defaults == Options(6, 3, 1, TRUE, <<"kube-system", "etcd-cert">>)

\* Accepted, but with no gap, as 15, 13 and 3 seconds would be: a leader can find
\* another name on the lease before its round is over.
Close == Options(4, 3, 2, TRUE, <<"kube-system", "etcd-cert">>)

\* Durations in the wrong order or proportion, not positive ones, an unknown or
\* ill-formed secret, a name in the default namespace, no election, no servers.
MCOptionSets ==
    {Defaults, Close,
     Options(3, 3, 1, TRUE, <<"kube-system", "etcd-cert">>),
     Options(4, 3, 3, TRUE, <<"kube-system", "etcd-cert">>),
     Options(4, 0, 1, TRUE, <<"kube-system", "etcd-cert">>),
     Options(4, 3, 1, FALSE, <<"etcd">>),
     Options(4, 3, 1, FALSE, <<"", "etcd">>),
     Options(4, 3, 1, TRUE, <<"etcd-cert">>),
     Options(4, 3, 1, TRUE, <<"kube-system", "etcd", "cert">>),
     Options(4, 3, 1, TRUE, <<>>),
     Options(4, 3, 1, FALSE, <<"kube-system", "etcd-cert">>),
     [Defaults EXCEPT !.EtcdServers = ""]}

MCSecrets == {<<"kube-system", "etcd-cert">>, <<"default", "etcd">>}
===============================================================================
