---------------------------- MODULE MCProxyRelay ----------------------------
(* Constants for model checking ProxyRelay.                                  *)
EXTENDS ProxyRelay

CONSTANTS http, socks5
=============================================================================
