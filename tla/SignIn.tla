-------------------------------- MODULE SignIn --------------------------------
(***************************************************************************)
(* Signing in with a wallet (auth.service.ts) and keeping the session.  A  *)
(* challenge is one record per wallet in Redis (wallet-nonce.store.ts);    *)
(* verifying it finds the record, consumes it, finds or creates the        *)
(* account, links the wallet to it and begins a family of refresh tokens,  *)
(* which TokenRotation rotates.  Every await is a step.                    *)
(*                                                                         *)
(* Signatures are valid and accounts have no second factor.                *)
(***************************************************************************)
EXTENDS TokenRotation

CONSTANT MaxNonces  \* bound: challenges issued

ASSUME SignInAssumptions == MaxNonces \in Nat

Nonces == 1..MaxNonces

VARIABLES
    challenge,  \* per wallet the record in Redis, of nonce 0 when there is none
    nonces,     \* challenges issued so far
    account,    \* users: the address each has
    linked      \* user_wallets: <<user, wallet>>

vars == <<rotationVars, challenge, nonces, account, linked>>

Record == [nonce : Nat, expired : BOOLEAN]
NoRecord == [nonce |-> 0, expired |-> FALSE]

Init ==
    /\ RotationInit
    /\ challenge = [w \in Wallets |-> NoRecord]
    /\ nonces = 0
    /\ account = [u \in Requests |-> NoWallet]
    /\ linked = {}

TypeOK ==
    /\ token \in [Requests -> TokenRow]
    /\ family \in [Requests -> FamilyRow]
    /\ request \in [Requests -> RequestRow]
    /\ held \in SUBSET Requests
    /\ shown \in [Requests -> Nat]
    /\ challenge \in [Wallets -> Record]
    /\ nonces \in Nat
    /\ account \in [Requests -> Wallets \union {NoWallet}]
    /\ linked \in SUBSET (Requests \X Wallets)

-----------------------------------------------------------------------------
HasChallenge(w) == challenge[w].nonce # 0

(* A new challenge takes the place of the wallet's previous one.           *)
GenerateChallenge(w) ==
    /\ nonces < MaxNonces
    /\ nonces' = nonces + 1
    /\ challenge' = [challenge EXCEPT ![w] = [nonce |-> nonces + 1, expired |-> FALSE]]
    /\ UNCHANGED <<rotationVars, account, linked>>

ChallengeExpires(w) ==
    /\ HasChallenge(w) /\ ~challenge[w].expired
    /\ challenge' = [challenge EXCEPT ![w].expired = TRUE]
    /\ UNCHANGED <<rotationVars, nonces, account, linked>>

(* The record outlives the challenge by the grace period.                  *)
ChallengeEvicted(w) ==
    /\ challenge[w].expired
    /\ challenge' = [challenge EXCEPT ![w] = NoRecord]
    /\ UNCHANGED <<rotationVars, nonces, account, linked>>

(* A verification finds the record: of its own nonce, or expired.          *)
FindChallenge(r, w) ==
    /\ CanStart(r)
    /\ HasChallenge(w)
    /\ request' = [request EXCEPT ![r] =
                     [NoRequest EXCEPT !.step = IF challenge[w].expired THEN "discarding"
                                                ELSE "matched",
                                       !.wallet = w, !.nonce = challenge[w].nonce]]
    /\ UNCHANGED <<token, family, held, shown, challenge, nonces, account, linked>>

(* The record is deleted by its wallet, a fresh challenge included.        *)
Discard(r) ==
    /\ At(r, "discarding")
    /\ challenge' = [challenge EXCEPT ![request[r].wallet] = NoRecord]
    /\ Go(r, "done")
    /\ UNCHANGED <<token, family, held, shown, nonces, account, linked>>

(* The script compares and deletes in one step.                            *)
Consumable(r) == challenge[request[r].wallet].nonce = request[r].nonce
Consume(r) ==
    /\ At(r, "matched")
    /\ IF Consumable(r)
       THEN /\ challenge' = [challenge EXCEPT ![request[r].wallet] = NoRecord]
            /\ Go(r, "consumed")
       ELSE UNCHANGED challenge /\ Go(r, "done")
    /\ UNCHANGED <<token, family, held, shown, nonces, account, linked>>

-----------------------------------------------------------------------------
(* The account of the wallet, if it has one ...                            *)
FindAccount(r) ==
    /\ At(r, "consumed")
    /\ \/ \E u \in Requests :
            /\ account[u] = request[r].wallet
            /\ request' = [request EXCEPT ![r].step = "resolved", ![r].user = u]
       \/ /\ \A u \in Requests : account[u] # request[r].wallet
          /\ Go(r, "unknown")
    /\ UNCHANGED <<token, family, held, shown, challenge, nonces, account, linked>>

(* ... else a new one, unless one has appeared since: addresses are unique *)
(* and the insert fails.                                                   *)
(* Mutant: no such constraint.                                             *)
AddressNotUnique(r) == TRUE
AddressFree(r) == \A u \in Requests : account[u] # request[r].wallet
CreateAccount(r) ==
    /\ At(r, "unknown")
    /\ IF AddressFree(r)
       THEN /\ account' = [account EXCEPT ![r] = request[r].wallet]
            /\ request' = [request EXCEPT ![r].step = "resolved", ![r].user = r]
       ELSE UNCHANGED account /\ Go(r, "done")
    /\ UNCHANGED <<token, family, held, shown, challenge, nonces, linked>>

(* Mutant: the columns swapped.                                            *)
LinkSwapped(r) == <<request[r].wallet, request[r].user>>
Link(r) == <<request[r].user, request[r].wallet>>

FindLink(r) ==
    /\ At(r, "resolved")
    /\ Go(r, IF Link(r) \in linked THEN "link_known" ELSE "link_new")
    /\ UNCHANGED <<token, family, held, shown, challenge, nonces, account, linked>>

(* The link is inserted, unless it has appeared since, and made primary.   *)
SaveLink(r) ==
    /\ request[r].step \in {"link_known", "link_new"}
    /\ IF At(r, "link_new") /\ Link(r) \in linked
       THEN UNCHANGED linked /\ Go(r, "done")
       ELSE linked' = linked \union {Link(r)} /\ Go(r, "linked")
    /\ UNCHANGED <<token, family, held, shown, challenge, nonces, account>>

CreateFamily(r) ==
    /\ At(r, "linked")
    /\ family' = [family EXCEPT ![r].user = request[r].user]
    /\ Go(r, "begun")
    /\ UNCHANGED <<token, held, shown, challenge, nonces, account, linked>>

IssueFirstToken(r) ==
    /\ At(r, "begun")
    /\ token' = [token EXCEPT ![r] = NewToken(r)]
    /\ Go(r, "answering")
    /\ UNCHANGED <<family, held, shown, challenge, nonces, account, linked>>

-----------------------------------------------------------------------------
VerifyStep(r) ==
    \/ Discard(r) \/ Consume(r) \/ FindAccount(r) \/ CreateAccount(r)
    \/ FindLink(r) \/ SaveLink(r) \/ CreateFamily(r) \/ IssueFirstToken(r)

Step(r) ==
    VerifyStep(r) \/ (RotationStep(r) /\ UNCHANGED <<challenge, nonces, account, linked>>)

Ask(r) ==
    \/ \E w \in Wallets : FindChallenge(r, w)
    \/ \E t \in Requests : Refresh(r, t) /\ UNCHANGED <<challenge, nonces, account, linked>>

Environment ==
    \/ \E w \in Wallets :
         GenerateChallenge(w) \/ ChallengeExpires(w) \/ ChallengeEvicted(w)
    \/ \E r \in Requests :
         (Fail(r) \/ Expire(r)) /\ UNCHANGED <<challenge, nonces, account, linked>>

Next == Environment \/ \E r \in Requests : Ask(r) \/ Step(r)

Spec == Init /\ [][Next]_vars

(* While any request can carry out its next statement, one of them does.   *)
FairSpec == Spec /\ WF_vars(\E r \in Requests : Step(r))

-----------------------------------------------------------------------------
(* The sessions of the abstract specification, read off the tables: a      *)
(* session is a family, and the challenge that started it the one its      *)
(* request consumed.                                                       *)
SessionOf(f) ==
    [status |-> IF ~Begun(f) THEN "none" ELSE IF family[f].revoked THEN "ended" ELSE "open",
     live |-> {t \in Requests : token[t].family = f /\ ~token[t].used},
     spent |-> {t \in Requests : token[t].family = f /\ token[t].used}]

Promise ==
    INSTANCE Sessions WITH
        Sessions <- Requests, Tokens <- Requests, Challenges <- Nonces,
        session <- [f \in Requests |-> SessionOf(f)],
        redeemed <- {request[f].nonce : f \in {g \in Requests : Begun(g)}}

(* Concurrent refreshes and verifications, failures and retries included,  *)
(* tables keep what is promised of sessions: one chain of tokens each, and *)
(* one session for a challenge (refreshTokens, verifyWalletChallenge).     *)
SessionsKept == Promise!Spec

(* A family is revoked only when one of its tokens was spent and presented *)
(* again: no failure alone, and no client that presents each token once,   *)
(* ends a session (refreshTokens).                                         *)
EndedByReuse ==
    \A f \in Requests : family[f].revoked =>
        \E t \in Requests : token[t].family = f /\ token[t].used /\ shown[t] >= 2

(* However sign-ins overlap, all sessions a wallet begins belong to one    *)
(* account (resolveUserByWallet).                                          *)
OneAccountPerWallet ==
    \A f, g \in Requests :
        Begun(f) /\ Begun(g) /\ request[f].wallet = request[g].wallet
            => family[f].user = family[g].user

(* Every request comes to an end: row locks are taken in one order, so     *)
(* that no two transactions wait for each other (refreshTokens).           *)
RequestsEnd ==
    \A r \in Requests : ~At(r, "idle") ~> At(r, "done")
=============================================================================
