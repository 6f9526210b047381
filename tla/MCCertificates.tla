-------------------------- MODULE MCCertificates --------------------------
(* A small instance of Certificates: one certificate of certbot, one that is   *)
(* uploaded and one still to be made, a proxy host and a stream.               *)
EXTENDS Certificates

MCModelOf == [h \in Hosts |-> IF h = "proxy" THEN "proxy_host" ELSE "stream"]

Scene(kinds, certs, made, proxyUses, streamUses, n, m) ==
    [kinds |-> kinds, certs |-> certs, hosts |-> <<"proxy", "stream">>, made |-> made,
     uses |-> [h \in Hosts |-> IF h = "proxy" THEN proxyUses ELSE streamUses], faults |-> n, ranges |-> m]

MCScenes ==
    {Scene(<<"renew", "upload">>, <<1, 2>>, {1, 2}, 1, 2, 1, 1),
     Scene(<<"delete", "attach">>, <<1, 1>>, {1}, NoCert, NoCert, 1, 0),
     Scene(<<"delete", "attach">>, <<1, NoCert>>, {1}, NoCert, 1, 1, 0),
     Scene(<<"hostnew", "renew">>, <<3, 1>>, {1}, NoCert, 1, 1, 0),
     Scene(<<"create", "delete">>, <<3, 3>>, {}, NoCert, NoCert, 1, 0),
     Scene(<<"create", "attach">>, <<3, 3>>, {}, NoCert, NoCert, 1, 0),
     Scene(<<"hostnew", "delete">>, <<3, 3>>, {}, NoCert, NoCert, 0, 0),
     Scene(<<"create", "create">>, <<2, 3>>, {1}, 1, NoCert, 1, 0),
     Scene(<<"delete", "upload">>, <<2, 2>>, {2}, NoCert, NoCert, 0, 0)}
=============================================================================
