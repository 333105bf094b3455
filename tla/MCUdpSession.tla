---------------------------- MODULE MCUdpSession ----------------------------
(* Values for the constants of UdpSession. *)
EXTENDS UdpSession, TLC

CONSTANTS direct, proxied

MCUpstreams == {direct, proxied}
MCCountMax == (direct :> 2) @@ (proxied :> 2)
MCLife == (direct :> 1) @@ (proxied :> 0)
MCProxied == (direct :> FALSE) @@ (proxied :> TRUE)

\* a proxied session that can outlive its life
LifeBoth == (direct :> 1) @@ (proxied :> 1)
=============================================================================
