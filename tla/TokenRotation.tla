----------------------------- MODULE TokenRotation -----------------------------
(***************************************************************************)
(* The tables of refresh tokens and their families, and the rotation of a  *)
(* token (auth.service.ts, refreshTokens): one database transaction that   *)
(* locks the token's row, then its family's, then decides.  Requests run   *)
(* concurrently on any number of instances; any of them may fail at any    *)
(* point, and its answer may be lost on the way to the client.             *)
(*                                                                         *)
(* A request issues at most one token, begins at most one family and       *)
(* creates at most one account: each is named by the request that made it. *)
(* Nothing depends on how long a token lives, so that it may expire at any *)
(* moment.  JWT signatures and hashes are those of issued tokens.          *)
(***************************************************************************)
EXTENDS Naturals

CONSTANTS
    Wallets, NoWallet,
    MaxRequests         \* bound: requests

ASSUME RotationAssumptions == NoWallet \notin Wallets /\ MaxRequests \in Nat

Requests == 1..MaxRequests      \* in the order in which they are made
NoOne == 0
Named == Requests \union {NoOne}

VARIABLES
    token,      \* rows: family, whether used, whether past expiry
    family,     \* rows: whose, and whether revoked
    request,    \* per request: how far it is and what it knows
    held,       \* tokens that have reached their client
    shown       \* how many requests have presented a token (history)

rotationVars == <<token, family, request, held, shown>>

TokenRow == [family : Named, used : BOOLEAN, expired : BOOLEAN]
FamilyRow == [user : Named, revoked : BOOLEAN]
Steps ==
    {"idle", "done", "answering",
     "asked", "token_locked", "rotating", "revoking",
     "discarding", "matched", "consumed", "unknown", "resolved",
     "link_known", "link_new", "linked", "begun"}
RequestRow ==
    [step : Steps, token : Named, seenUsed : BOOLEAN,
     wallet : Wallets \union {NoWallet}, nonce : Nat, user : Named]

NoToken == [family |-> NoOne, used |-> FALSE, expired |-> FALSE]
NoFamily == [user |-> NoOne, revoked |-> FALSE]
NoRequest ==
    [step |-> "idle", token |-> NoOne, seenUsed |-> FALSE,
     wallet |-> NoWallet, nonce |-> 0, user |-> NoOne]

RotationInit ==
    /\ token = [t \in Requests |-> NoToken]
    /\ family = [f \in Requests |-> NoFamily]
    /\ request = [r \in Requests |-> NoRequest]
    /\ held = {}
    /\ shown = [t \in Requests |-> 0]

-----------------------------------------------------------------------------
At(r, step) == request[r].step = step
Go(r, step) == request' = [request EXCEPT ![r].step = step]
CanStart(r) == At(r, "idle") /\ \A q \in 1..(r - 1) : ~At(q, "idle")

Issued(t) == token[t].family # NoOne
Begun(f) == family[f].user # NoOne
Presented(r) == request[r].token
FamilyOf(r) == token[Presented(r)].family

(* Locks are held until the transaction ends, by commit or rollback.       *)
(* Mutant: the token's row is read without a lock.                         *)
NotLocked(t) == FALSE
TokenLocked(t) ==
    \E r \in Requests :
        Presented(r) = t /\ request[r].step \in {"token_locked", "rotating", "revoking"}
(* Mutant: the first statement locks the family for sharing, and to write  *)
(* the transaction must have it alone.                                     *)
FamilyLockedEarly(r, f) ==
    request[r].step \in {"token_locked", "rotating", "revoking"} /\ FamilyOf(r) = f
FamilyLockedBy(r, f) ==
    request[r].step \in {"rotating", "revoking"} /\ FamilyOf(r) = f
FamilyLocked(r) ==
    \E q \in Requests \ {r} : FamilyLockedBy(q, FamilyOf(r))

(* A client presents a token it holds, possibly while another request with *)
(* it is under way, possibly again because no answer came.                 *)
Refresh(r, t) ==
    /\ CanStart(r)
    /\ t \in held /\ ~token[t].expired
    /\ request' = [request EXCEPT ![r] = [NoRequest EXCEPT !.step = "asked", !.token = t]]
    /\ shown' = [shown EXCEPT ![t] = @ + 1]
    /\ UNCHANGED <<token, family, held>>

LockToken(r) ==
    /\ At(r, "asked")
    /\ ~TokenLocked(Presented(r))
    /\ request' = [request EXCEPT ![r].step = "token_locked",
                                  ![r].seenUsed = token[Presented(r)].used]
    /\ UNCHANGED <<token, family, held, shown>>

(* The family's row is locked and read, and the request decided.           *)
Refused(r) == family[FamilyOf(r)].revoked \/ token[Presented(r)].expired
(* Mutant: any used token of the family counts.                            *)
ReusedInFamily(r) ==
    \E t \in Requests : token[t].family = FamilyOf(r) /\ token[t].used
Reused(r) == request[r].seenUsed
Decide(r) ==
    /\ At(r, "token_locked")
    /\ ~FamilyLocked(r)
    /\ Go(r, IF Refused(r) THEN "done" ELSE IF Reused(r) THEN "revoking" ELSE "rotating")
    /\ UNCHANGED <<token, family, held, shown>>

NewToken(f) == [family |-> f, used |-> FALSE, expired |-> FALSE]
Rotated(r) ==
    [token EXCEPT ![Presented(r)].used = TRUE, ![r] = NewToken(FamilyOf(r))]

CommitRotation(r) ==
    /\ At(r, "rotating")
    /\ token' = Rotated(r)
    /\ Go(r, "answering")
    /\ UNCHANGED <<family, held, shown>>

CommitRevocation(r) ==
    /\ At(r, "revoking")
    /\ family' = [family EXCEPT ![FamilyOf(r)].revoked = TRUE]
    /\ Go(r, "done")
    /\ UNCHANGED <<token, held, shown>>

Answer(r) ==
    /\ At(r, "answering")
    /\ held' = held \union {r}
    /\ Go(r, "done")
    /\ UNCHANGED <<token, family, shown>>

-----------------------------------------------------------------------------
(* The database, the instance or the connection fails: a transaction is    *)
(* rolled back, and an answer on its way is lost.                          *)
Fail(r) ==
    /\ request[r].step \notin {"idle", "done"}
    /\ Go(r, "done")
    /\ UNCHANGED <<token, family, held, shown>>

Expire(t) ==
    /\ Issued(t) /\ ~token[t].expired
    /\ token' = [token EXCEPT ![t].expired = TRUE]
    /\ UNCHANGED <<family, request, held, shown>>

RotationStep(r) ==
    LockToken(r) \/ Decide(r) \/ CommitRotation(r) \/ CommitRevocation(r) \/ Answer(r)
=============================================================================
