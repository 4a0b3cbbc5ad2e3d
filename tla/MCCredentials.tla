---------------------------- MODULE MCCredentials ----------------------------
(***************************************************************************)
(* Two tenants for model checking, and what the documents say and the code *)
(* does not do.                                                            *)
(***************************************************************************)
EXTENDS Credentials

\* "a" and "tenant-a".
MCNames == {<<"a">>, <<"tenant", "a">>}

\* Nobody, or the administrators of "a".
MCNobody == {}
MCEdited == {<<"a">>}

\* The secret may hold a file that the controller generates as well.
MCEtcdFiles == {"apiserver.crt", "etcd-ca.crt", "apiserver-etcd-client.crt",
                "apiserver-etcd-client.key"}

\* "Deploy a test container, enter it and verify by kubectl commands", with the
\* secret kubeconfig-admin mounted: the server in a tenant's kubeconfig is the
\* service that the controller creates for that tenant.
EndpointLeadsHome ==
    \A n \in Names : confs[n]["admin.conf"] # Missing
        => confs[n]["admin.conf"].server.namespace = ClusterNamespaceInHost(n)
===============================================================================
