--------------------------- MODULE MCRequestFlow ---------------------------
(* RequestFlow over two hosts.  OriginUrls has a downgrade to plain http and *)
(* a change of host and port one redirect away from each other; PathUrls     *)
(* has a change of path within an origin.                                    *)
EXTENDS RequestFlow

CONSTANTS A, B

BothHosts  == {A, B}
Root       == {"/"}
RootAndSub == {"/", "/sub"}
Url(scheme, host, port, path) ==
  [scheme |-> scheme, host |-> host, port |-> port, path |-> path]
OriginUrls == {Url("https", A, 443, "/"), Url("http", A, 443, "/"),
               Url("https", B, 8443, "/")}
PathUrls   == {Url("https", A, 443, "/"), Url("https", A, 443, "/sub")}
(* one status of each class the code tells apart *)
StatusClasses == {200, 302, 303, 307}
=============================================================================
