------------------------------ MODULE MC_Login ------------------------------
(***************************************************************************)
(* Two login invocations and two publishes over two registries and two    *)
(* tokens: enough for two logins to the same or to different registries,  *)
(* a relogin with a new token, and a publish before, between or after.    *)
(***************************************************************************)
EXTENDS Login

MCLogins     == {"l1", "l2"}
MCPublishes  == {"p1", "p2"}
MCRegistries == {"r1", "r2"}
MCTokens     == {"t1", "t2"}

=============================================================================
