--------------------------- MODULE MCAuthSessions ---------------------------
(* Instances of AuthSessions for TLC.                                      *)
EXTENDS AuthSessions, TLC

\* Connections are interchangeable, and so are the avatars.
Symmetry == Permutations(Conn) \cup Permutations(Avatar)
=============================================================================
