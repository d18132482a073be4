-------------------------- MODULE SessionLifecycle --------------------------
(***************************************************************************)
(* What the session service promises: a session is issued with a refresh   *)
(* token, the token is exchanged for a fresh one while the session is live, *)
(* and a session that has ended - revoked or expired - stays ended, keeps  *)
(* its last token and is forgotten some day.  Nothing here knows of        *)
(* transactions, tabs or lost answers.                                     *)
(***************************************************************************)
EXTENDS Naturals, Sequences

CONSTANT Tokens   \* the refresh tokens that can be drawn

VARIABLES
    life,     \* the state of each session, in the order they were issued
    token     \* the refresh token each session answers to

Fresh(k) == \A i \in DOMAIN token : token[i] # k

Init == life = <<>> /\ token = <<>>

Issue == \E k \in Tokens :
    /\ Fresh(k)
    /\ life' = Append(life, "live")
    /\ token' = Append(token, k)

Exchange(i) == \E k \in Tokens :
    /\ life[i] = "live"
    /\ Fresh(k)
    /\ token' = [token EXCEPT ![i] = k]
    /\ UNCHANGED life

\* Several sessions may expire, or be forgotten, at once.
Move(S, from, to) ==
    /\ \A i \in S : life[i] = from
    /\ life' = [i \in DOMAIN life |-> IF i \in S THEN to ELSE life[i]]

End(S) == Move(S, "live", "ended") /\ UNCHANGED token

Forget(S) ==
    /\ Move(S, "ended", "gone")
    /\ token' = [i \in DOMAIN token |-> IF i \in S THEN 0 ELSE token[i]]

Next ==
    \/ Issue
    \/ \E i \in DOMAIN life : Exchange(i)
    \/ \E S \in SUBSET DOMAIN life : End(S) \/ Forget(S)

Spec == Init /\ [][Next]_<<life, token>>
=============================================================================
