------------------------------- MODULE MCNode -------------------------------
(* Node with the parent's four proxies: a host with a prefix, one without a *)
(* proxy of its own, and the local one.                                     *)
EXTENDS Node

Bucket == <<"bucket", "s3", "region", "amazonaws", "com">>
Sts == <<"sts", "region", "amazonaws", "com">>
Imds == <<"127", "0", "0", "1">>

MCHosts == {Bucket, Sts, Imds}
MCNames ==
  [h \in MCHosts |-> CASE h = Imds -> "imds" [] h = Bucket -> "s3" [] OTHER -> Head(h)]
MCHostsOf ==
  [main |-> {Imds}, rotation |-> {Imds, Sts}, refresh |-> {Bucket}]

MCImdsPort == 12
MCPortLimit == 16
MCProxies ==
  [p \in 9 .. 12 |->
     CASE p = 9 -> "kms" [] p = 10 -> "secretsmanager" [] p = 11 -> "s3"
       [] p = 12 -> "imds"]

MCParentCid == 3
Right ==
  [strings |-> TRUE, vsock_proxy_cid |-> 3, vsock_proxy_port |-> 8,
   rotation |-> 1, refresh |-> 1]

\* The right one, a base port that is one too high (S3 calls arrive at the
\* proxy of IMDS), and an interval that is refused.
MCConfigs ==
  {Right,
   [Right EXCEPT !.vsock_proxy_port = 9],
   [Right EXCEPT !.refresh = 0]}

=============================================================================
