------------------------------- MODULE Sessions -------------------------------
(***************************************************************************)
(* What the backend promises about sign-in sessions, without requests,     *)
(* tables or locks (docs/refresh-token-rotation.md): a challenge starts at *)
(* most one session; a session is a chain of refresh tokens of which only  *)
(* the newest can be exchanged, once, for the next; a session that ended   *)
(* never issues another token, and it ends only after a token was spent.   *)
(***************************************************************************)
CONSTANTS
    Sessions,   \* names of sessions
    Tokens,     \* names of refresh tokens
    Challenges  \* challenges a session may be started with

VARIABLES
    session,    \* per session: status, the tokens that can be exchanged
                \* (live) and those that have been (spent)
    redeemed    \* challenges that have started a session

vars == <<session, redeemed>>

NoSession == [status |-> "none", live |-> {}, spent |-> {}]

Init ==
    /\ session = [s \in Sessions |-> NoSession]
    /\ redeemed = {}

Unissued(t) == \A s \in Sessions : t \notin session[s].live \union session[s].spent

Begin(s, c) ==
    /\ session[s] = NoSession
    /\ c \notin redeemed
    /\ session' = [session EXCEPT ![s].status = "open"]
    /\ redeemed' = redeemed \union {c}

FirstToken(s, t) ==
    /\ session[s] = [NoSession EXCEPT !.status = "open"]
    /\ Unissued(t)
    /\ session' = [session EXCEPT ![s].live = {t}]
    /\ UNCHANGED redeemed

Exchange(s, t, u) ==
    /\ session[s].status = "open"
    /\ session[s].live = {t}
    /\ Unissued(u)
    /\ session' = [session EXCEPT ![s] =
                     [status |-> "open", live |-> {u}, spent |-> @.spent \union {t}]]
    /\ UNCHANGED redeemed

End(s) ==
    /\ session[s].status = "open"
    /\ session[s].spent # {}
    /\ session' = [session EXCEPT ![s].status = "ended"]
    /\ UNCHANGED redeemed

Next ==
    \E s \in Sessions :
        \/ \E c \in Challenges : Begin(s, c)
        \/ \E t \in Tokens : FirstToken(s, t) \/ \E u \in Tokens : Exchange(s, t, u)
        \/ End(s)

Spec == Init /\ [][Next]_vars
=============================================================================
