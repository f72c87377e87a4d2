--------------------------- MODULE MCProxyRequest ---------------------------
(***************************************************************************)
(* Two client connections, two backends and a host without a route.        *)
(***************************************************************************)
EXTENDS ProxyRequest

MCRoute == [h \in {"app", "api", "typo"} |->
               CASE h = "app" -> 3000 [] h = "api" -> 4000 [] OTHER -> 0]
=============================================================================
