---------------------------- MODULE MCTcpSession ----------------------------
(* Values for the constants of TcpSession. *)
EXTENDS TcpSession, TLC

CONSTANTS direct, proxied

MCUpstreams == {direct, proxied}
MCCountMax == (direct :> 0) @@ (proxied :> 1)
MCLife == (direct :> 1) @@ (proxied :> 1)
MCProxied == (direct :> FALSE) @@ (proxied :> TRUE)
MCTls == (direct :> FALSE) @@ (proxied :> TRUE)
=============================================================================
