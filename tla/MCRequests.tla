----------------------------- MODULE MCRequests -----------------------------
(***************************************************************************)
(* Requests for TLC: the names of the views, the requests and the cookie.  *)
(***************************************************************************)
EXTENDS Requests

CONSTANTS v1, v2, r1, r2, c1

=============================================================================
