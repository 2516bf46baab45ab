-------------------------- MODULE MCConnectionPool --------------------------
(* Four threads compete for two connections: two can wait while two free   *)
(* slots are announced by two separate notifications.                      *)
EXTENDS ConnectionPool
=============================================================================
