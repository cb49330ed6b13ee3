------------------------------- MODULE MCSignIn -------------------------------
(* SignIn on one wallet and four requests.                                 *)
EXTENDS SignIn
=============================================================================
