-------------------------- MODULE AvatarOwnership --------------------------
(***************************************************************************)
(* What the auth server's session handling promises: an avatar is played   *)
(* by at most one session, a session plays at most one avatar, and whoever *)
(* takes an avatar ends the session that played it.  Connections, tokens,  *)
(* time-outs and tasks are how AuthSessions implements this.               *)
(***************************************************************************)
CONSTANTS Session, KI, None

VARIABLES
    owner,   \* the session that plays an avatar
    life     \* whether a session is yet to come, in use or over

ownershipVars == <<owner, life>>

Init ==
    /\ owner = [k \in KI |-> None]
    /\ life = [s \in Session |-> "fresh"]

Owns(s, k) == owner[k] = s

Open(s) ==
    /\ life[s] = "fresh"
    /\ life' = [life EXCEPT ![s] = "live"]
    /\ UNCHANGED owner

\* The previous owner, if there is one, does not survive it.
Take(s, k) ==
    /\ life[s] = "live"
    /\ \A j \in KI : ~Owns(s, j)
    /\ owner' = [owner EXCEPT ![k] = s]
    /\ life' = [t \in Session |-> IF Owns(t, k) THEN "dead" ELSE life[t]]

Release(s) ==
    \E k \in KI :
        /\ Owns(s, k)
        /\ owner' = [owner EXCEPT ![k] = None]
        /\ UNCHANGED life

\* For ever, and with everything it owns.
Close(s) ==
    /\ life[s] # "dead"
    /\ life' = [life EXCEPT ![s] = "dead"]
    /\ owner' = [k \in KI |-> IF Owns(s, k) THEN None ELSE owner[k]]

Next ==
    \E s \in Session :
        \/ Open(s)
        \/ \E k \in KI : Take(s, k)
        \/ Release(s)
        \/ Close(s)

Spec == Init /\ [][Next]_ownershipVars
=============================================================================
