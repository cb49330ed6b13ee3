----------------------------- MODULE SignIn_proofs -----------------------------
(***************************************************************************)
(* Theorems about SignIn for any set of wallets and any number of requests *)
(* and challenges: the tables keep what Sessions promises.  The promise is *)
(* not inductive: that a session has one live token rests on what the      *)
(* transactions under way have read and locked, and that a challenge       *)
(* starts one session on who has consumed it.                              *)
(***************************************************************************)
EXTENDS SignIn, TLAPS

Writing == {"rotating", "revoking"}
InTransaction == {"token_locked"} \union Writing
Refreshing == {"asked"} \union InTransaction
Resolved == {"resolved", "link_known", "link_new", "linked", "begun"}
Consumed == {"consumed", "unknown"} \union Resolved
Verifying == {"discarding", "matched"} \union Consumed
Over == {"answering", "done"}

StepOf(r) == request[r].step
UserOf(f) == family[f].user

(* A request that has not come to it has made no account, family or token. *)
NamesFresh ==
    \A r \in Requests :
        /\ StepOf(r) = "idle" => request[r].token = NoOne
        /\ Issued(r) => StepOf(r) \in Over
        /\ Begun(r) => StepOf(r) \in {"begun"} \union Over
        /\ account[r] # NoWallet => StepOf(r) \in Resolved \union Over

(* Tokens belong to families that exist, and only these are revoked.       *)
RowsSound ==
    /\ \A t \in Requests : Issued(t) => Begun(token[t].family)
    /\ \A f \in Requests : family[f].revoked => Begun(f)
    /\ \A f \in Requests :
         StepOf(f) = "begun" =>
            Begun(f) /\ ~family[f].revoked /\ \A t \in Requests : token[t].family # f

OneLive ==
    \A t, u \in Requests :
        Issued(t) /\ token[t].family = token[u].family /\ ~token[t].used /\ ~token[u].used
            => t = u

(* What a transaction has read still holds, thanks to its locks.           *)
ReadsHold ==
    \A r \in Requests :
        /\ StepOf(r) \in Refreshing => Presented(r) \in Requests /\ Issued(Presented(r))
        /\ StepOf(r) \in InTransaction => request[r].seenUsed = token[Presented(r)].used
        /\ StepOf(r) \in Writing =>
             /\ ~family[FamilyOf(r)].revoked
             /\ request[r].seenUsed = (StepOf(r) = "revoking")

Exclusive ==
    \A r, q \in Requests :
        r # q =>
            /\ StepOf(r) \in InTransaction /\ StepOf(q) \in InTransaction
                 => Presented(r) # Presented(q)
            /\ StepOf(r) \in Writing /\ StepOf(q) \in Writing => FamilyOf(r) # FamilyOf(q)

(* A token was shown by every request that presents it, and spent by one   *)
(* whose transaction is over.                                              *)
ShownEnough ==
    \A r, q \in Requests :
        Presented(r) \in Requests =>
            /\ shown[Presented(r)] >= 1
            /\ r # q /\ Presented(r) = Presented(q) => shown[Presented(r)] >= 2
SpentByRequest ==
    \A t \in Requests :
        token[t].used =>
            Issued(t) /\ \E r \in Requests : Presented(r) = t /\ StepOf(r) \in Over

(* A nonce is in Redis, or redeemed by one request, never both.            *)
Redeeming(r) == StepOf(r) \in Consumed \/ Begun(r)
NoncesOnce ==
    /\ nonces <= MaxNonces
    /\ \A w \in Wallets :
        /\ challenge[w].nonce <= nonces
        /\ \A v \in Wallets :
             HasChallenge(w) /\ challenge[w].nonce = challenge[v].nonce => v = w
    /\ \A r \in Requests :
        /\ request[r].nonce <= nonces
        /\ StepOf(r) = "matched" => request[r].nonce # 0
        /\ Redeeming(r) =>
            /\ request[r].nonce # 0
            /\ \A w \in Wallets : challenge[w].nonce # request[r].nonce
            /\ \A q \in Requests :
                 Redeeming(q) /\ request[q].nonce = request[r].nonce => q = r

AccountsSound ==
    /\ \A u, v \in Requests : account[u] = account[v] /\ account[u] # NoWallet => u = v
    /\ \A r \in Requests :
        /\ StepOf(r) \in Verifying => request[r].wallet \in Wallets
        /\ StepOf(r) \in Resolved =>
             request[r].user \in Requests /\ account[request[r].user] = request[r].wallet
        /\ Begun(r) =>
             /\ request[r].wallet \in Wallets
             /\ account[UserOf(r)] = request[r].wallet

IndInv ==
    /\ TypeOK /\ NamesFresh /\ RowsSound /\ OneLive /\ ReadsHold /\ Exclusive
    /\ ShownEnough /\ SpentByRequest /\ EndedByReuse /\ NoncesOnce /\ AccountsSound

-----------------------------------------------------------------------------
Changed(r) ==
    /\ request' \in [Requests -> RequestRow]
    /\ \A q \in Requests : q # r => request'[q] = request[q]

(* A request moves on and nothing else of it changes. *)
Moved(r, s) ==
    /\ Changed(r)
    /\ StepOf(r)' = s
    /\ Presented(r)' = Presented(r)
    /\ request'[r].seenUsed = request[r].seenUsed
    /\ request'[r].wallet = request[r].wallet
    /\ request'[r].nonce = request[r].nonce
    /\ request'[r].user = request[r].user

LEMMA GoMoves ==
    ASSUME TypeOK, NEW r \in Requests, NEW s \in Steps, Go(r, s)
    PROVE  Moved(r, s)
<1>1. request \in [Requests -> RequestRow]
  BY DEF TypeOK
<1>2. request'[r] = [request[r] EXCEPT !.step = s]
  BY <1>1 DEF Go
<1>3. request' \in [Requests -> RequestRow]
  BY <1>1 DEF Go, RequestRow
<1>4. \A q \in Requests : q # r => request'[q] = request[q]
  BY <1>1 DEF Go
<1> QED
  BY <1>1, <1>2, <1>3, <1>4 DEF Moved, Changed, StepOf, Presented, RequestRow

LEMMA RequestBecomes ==
    ASSUME TypeOK, NEW r \in Requests, NEW q \in RequestRow,
           request' = [request EXCEPT ![r] = q]
    PROVE  Changed(r) /\ request'[r] = q
  BY DEF TypeOK, Changed

LEMMA LockTokenMoves ==
    ASSUME TypeOK, NEW r \in Requests, Presented(r) \in Requests, LockToken(r)
    PROVE  /\ Changed(r) /\ StepOf(r)' = "token_locked" /\ Presented(r)' = Presented(r)
           /\ request'[r].seenUsed = token[Presented(r)].used
           /\ request'[r].wallet = request[r].wallet /\ request'[r].nonce = request[r].nonce
           /\ request'[r].user = request[r].user
<1>1. PICK row \in RequestRow, used \in BOOLEAN :
        row = request[r] /\ used = token[Presented(r)].used
  BY DEF TypeOK, TokenRow
<1>2. PICK q : q = [row EXCEPT !.step = "token_locked", !.seenUsed = used]
  OBVIOUS
<1>3. /\ q \in RequestRow /\ q.step = "token_locked" /\ q.seenUsed = used
      /\ q.token = row.token /\ q.wallet = row.wallet /\ q.nonce = row.nonce
      /\ q.user = row.user
  BY <1>2 DEF RequestRow, Steps
<1>4. request' = [request EXCEPT ![r] = q]
  BY <1>1, <1>2 DEF LockToken
<1> QED
  BY <1>1, <1>3, <1>4, RequestBecomes DEF StepOf, Presented

LEMMA ResolvedMoves ==
    ASSUME TypeOK, NEW r \in Requests, NEW u \in Requests,
           request' = [request EXCEPT ![r].step = "resolved", ![r].user = u]
    PROVE  /\ Changed(r) /\ StepOf(r)' = "resolved" /\ Presented(r)' = Presented(r)
           /\ request'[r].nonce = request[r].nonce /\ request'[r].wallet = request[r].wallet
           /\ request'[r].user = u
<1>1. PICK row \in RequestRow : row = request[r]
  BY DEF TypeOK
<1>2. PICK q : q = [row EXCEPT !.step = "resolved", !.user = u]
  OBVIOUS
<1>3. /\ q \in RequestRow /\ q.step = "resolved" /\ q.user = u
      /\ q.token = row.token /\ q.wallet = row.wallet /\ q.nonce = row.nonce
  BY <1>2 DEF RequestRow, Steps, Named
<1>4. request' = [request EXCEPT ![r] = q]
  BY <1>1, <1>2
<1> QED
  BY <1>1, <1>3, <1>4, RequestBecomes DEF StepOf, Presented

(* A step of a request outside its transaction leaves the tables' part.    *)
LEMMA TablesAlone ==
    ASSUME IndInv, NEW r \in Requests, Changed(r), UNCHANGED <<token, family, shown>>,
           Presented(r)' = Presented(r), StepOf(r)' \notin Refreshing \union {"begun"},
           StepOf(r) \in Over => StepOf(r)' \in Over
    PROVE  RowsSound' /\ OneLive' /\ ReadsHold' /\ Exclusive' /\ ShownEnough'
           /\ SpentByRequest' /\ EndedByReuse'
<1> USE DEF IndInv
<1>1. RowsSound' /\ OneLive'
  BY DEF RowsSound, OneLive, Issued, Begun, Changed, StepOf
<1>2. ReadsHold' /\ Exclusive'
  BY DEF ReadsHold, Exclusive, Issued, Presented, FamilyOf, Changed, StepOf, Refreshing,
     InTransaction, Writing
<1>3. ShownEnough'
  BY DEF ShownEnough, Presented, Changed
<1>4. SpentByRequest'
  BY DEF SpentByRequest, Presented, Issued, Changed, StepOf
<1>5. EndedByReuse'
  BY DEF EndedByReuse
<1> QED
  BY <1>1, <1>2, <1>3, <1>4, <1>5

LEMMA NoncesAlone ==
    ASSUME IndInv, NEW r \in Requests, Changed(r), UNCHANGED <<challenge, nonces>>,
           request'[r].nonce = request[r].nonce, StepOf(r)' # "matched",
           Redeeming(r)' => Redeeming(r),
           \A q \in Requests : q # r => UserOf(q)' = UserOf(q)
    PROVE  NoncesOnce'
<1>1. \A q \in Requests : Redeeming(q)' => Redeeming(q)
  BY DEF Redeeming, Changed, StepOf, Begun, UserOf
<1>2. \A q \in Requests : request'[q].nonce = request[q].nonce
  BY DEF Changed
<1> QED
  BY <1>1, <1>2 DEF IndInv, NoncesOnce, Changed, StepOf, HasChallenge

LEMMA AccountsAlone ==
    ASSUME IndInv, NEW r \in Requests, Changed(r), UNCHANGED account,
           \A q \in Requests : UserOf(q)' = UserOf(q),
           request'[r].wallet = request[r].wallet, request'[r].user = request[r].user,
           StepOf(r)' \in Verifying => StepOf(r) \in Verifying,
           StepOf(r)' \in Resolved => StepOf(r) \in Resolved
    PROVE  AccountsSound'
  BY DEF IndInv, AccountsSound, Changed, StepOf, UserOf, Begun

(* A request that takes another step on its way breaks no name. *)
LEMMA NamesAlone ==
    ASSUME IndInv, NEW r \in Requests, Changed(r), UNCHANGED <<token, family, account>>,
           StepOf(r)' # "idle",
           Issued(r) => StepOf(r)' \in Over,
           Begun(r) => StepOf(r)' \in {"begun"} \union Over,
           account[r] # NoWallet => StepOf(r)' \in Resolved \union Over
    PROVE  NamesFresh'
  BY DEF IndInv, NamesFresh, Changed, StepOf, Issued, Begun

-----------------------------------------------------------------------------
LEMMA CommitRotationKeeps ==
    ASSUME IndInv, NEW r \in Requests, CommitRotation(r),
           UNCHANGED <<challenge, nonces, account, linked>>
    PROVE  IndInv'
<1> USE DEF IndInv
<1>1. Moved(r, "answering") /\ StepOf(r) = "rotating" /\ UNCHANGED <<family, held, shown>>
  BY GoMoves DEF CommitRotation, Steps, At, StepOf
<1>2. PICK t \in Requests : t = Presented(r) /\ Issued(t) /\ ~token[t].used
  BY <1>1 DEF ReadsHold, Refreshing, InTransaction, Writing
<1>3. PICK f \in Requests : f = token[t].family /\ Begun(f) /\ ~family[f].revoked
  BY <1>1, <1>2 DEF ReadsHold, Refreshing, InTransaction, Writing, Issued, TypeOK,
     TokenRow, RowsSound, Named, FamilyOf
<1>4. ~Issued(r) /\ r # t
  BY <1>1, <1>2 DEF NamesFresh, Over
<1>5. /\ token' \in [Requests -> TokenRow]
      /\ token'[t].used /\ token'[t].family = f
      /\ token'[r].family = f /\ ~token'[r].used
      /\ \A u \in Requests \ {t, r} : token'[u] = token[u]
  BY <1>2, <1>3, <1>4 DEF CommitRotation, Rotated, NewToken, TokenRow, TypeOK, Named, FamilyOf
<1>6. TypeOK'
  BY <1>1, <1>5 DEF TypeOK, Moved, Changed
<1>7. NamesFresh'
  BY <1>1, <1>2, <1>5 DEF NamesFresh, Moved, Changed, StepOf, Issued, Begun, Over, Resolved
<1>8. RowsSound'
  BY <1>1, <1>2, <1>3, <1>5 DEF RowsSound, Moved, Changed, StepOf, Issued, Begun
<1>9. OneLive'
  BY <1>2, <1>3, <1>4, <1>5 DEF OneLive, Issued, TypeOK, TokenRow, Named, NoOne
<1>10. ReadsHold'
  BY <1>1, <1>2, <1>3, <1>4, <1>5 DEF ReadsHold, Exclusive, Moved, Changed, StepOf, Issued, Presented,
     FamilyOf, Refreshing, InTransaction, Writing
<1>11. Exclusive'
  BY <1>1, <1>2, <1>3, <1>4, <1>5 DEF ReadsHold, Exclusive, Moved, Changed, StepOf, Issued, Presented,
     FamilyOf, Refreshing, InTransaction, Writing
<1>12. ShownEnough'
  BY <1>1 DEF ShownEnough, Moved, Changed, Presented
<1>13. SpentByRequest'
  BY <1>1, <1>2, <1>3, <1>4, <1>5 DEF SpentByRequest, Moved, Changed, Presented, StepOf, Issued, Over, NoOne
<1>14. EndedByReuse'
  BY <1>1, <1>2, <1>3, <1>4, <1>5 DEF EndedByReuse, Issued, NoOne, Requests
<1>15. NoncesOnce'
  BY <1>1 DEF NoncesOnce, Moved, Changed, StepOf, Redeeming, Consumed, Resolved, Begun, HasChallenge
<1>16. AccountsSound'
  BY <1>1 DEF AccountsSound, Moved, Changed, StepOf, Verifying, Consumed, Resolved, Begun, UserOf
<1> QED
  BY <1>6, <1>7, <1>8, <1>9, <1>10, <1>11, <1>12, <1>13, <1>14, <1>15, <1>16

LEMMA LockTokenKeeps ==
    ASSUME IndInv, NEW r \in Requests, LockToken(r),
           UNCHANGED <<challenge, nonces, account, linked>>
    PROVE  IndInv'
<1> USE DEF IndInv
<1>1. /\ StepOf(r) = "asked" /\ ~TokenLocked(Presented(r))
      /\ UNCHANGED <<token, family, held, shown>>
  BY DEF LockToken, At, StepOf
<1>2. PICK t \in Requests : t = Presented(r) /\ Issued(t)
  BY <1>1 DEF ReadsHold, Refreshing
<1>3. /\ Changed(r) /\ StepOf(r)' = "token_locked" /\ Presented(r)' = t
      /\ request'[r].seenUsed = token[t].used
      /\ request'[r].wallet = request[r].wallet /\ request'[r].nonce = request[r].nonce
      /\ request'[r].user = request[r].user
  BY <1>2, LockTokenMoves
<1>4. TypeOK'
  BY <1>1, <1>3 DEF TypeOK, Changed
<1>5. NamesFresh'
  BY <1>1, <1>3, NamesAlone DEF NamesFresh, Over, Resolved
<1>6. RowsSound' /\ OneLive'
  BY <1>1, <1>3 DEF RowsSound, OneLive, Issued, Begun, Changed, StepOf
<1>7. ReadsHold'
  BY <1>1, <1>2, <1>3 DEF ReadsHold, Issued, Presented, FamilyOf, Changed, StepOf,
     Refreshing, InTransaction, Writing
<1>8. Exclusive'
  BY <1>1, <1>2, <1>3 DEF Exclusive, TokenLocked, Presented, FamilyOf, Changed, StepOf,
     InTransaction, Writing
<1>9. ShownEnough' /\ SpentByRequest' /\ EndedByReuse'
  BY <1>1, <1>2, <1>3 DEF ShownEnough, SpentByRequest, EndedByReuse, Presented, Issued,
     Changed, StepOf, Over
<1>10. NoncesOnce'
  BY <1>1, <1>3, NoncesAlone DEF Redeeming, Consumed, Resolved, Begun, UserOf
<1>11. AccountsSound'
  BY <1>1, <1>3, AccountsAlone DEF Verifying, Consumed, Resolved, UserOf
<1> QED
  BY <1>4, <1>5, <1>6, <1>7, <1>8, <1>9, <1>10, <1>11

LEMMA DecideKeeps ==
    ASSUME IndInv, NEW r \in Requests, Decide(r),
           UNCHANGED <<challenge, nonces, account, linked>>
    PROVE  IndInv'
<1> USE DEF IndInv
<1>1. /\ StepOf(r) = "token_locked" /\ ~FamilyLocked(r)
      /\ UNCHANGED <<token, family, held, shown>>
  BY DEF Decide, At, StepOf
<1>2. PICK s \in {"done", "revoking", "rotating"} :
        /\ Go(r, s)
        /\ s # "done" => ~Refused(r) /\ request[r].seenUsed = (s = "revoking")
  BY DEF Decide, Reused, TypeOK, RequestRow
<1>3. Moved(r, s)
  BY <1>2, GoMoves DEF Steps
<1>4. TypeOK' /\ NamesFresh'
  BY <1>1, <1>3, NamesAlone DEF TypeOK, NamesFresh, Over, Resolved, Moved, Changed
<1>5. RowsSound' /\ OneLive'
  BY <1>1, <1>3 DEF RowsSound, OneLive, Issued, Begun, Moved, Changed, StepOf
<1>6. ReadsHold'
  BY <1>1, <1>2, <1>3 DEF ReadsHold, Refused, Issued, Presented, FamilyOf, Moved, Changed,
     StepOf, Refreshing, InTransaction, Writing
<1>7. Exclusive'
  BY <1>1, <1>2, <1>3 DEF Exclusive, FamilyLocked, FamilyLockedBy, Presented, FamilyOf,
     Moved, Changed, StepOf, InTransaction, Writing
<1>8. ShownEnough' /\ SpentByRequest' /\ EndedByReuse'
  BY <1>1, <1>3 DEF ShownEnough, SpentByRequest, EndedByReuse, Presented, Issued,
     Moved, Changed, StepOf, Over
<1>9. NoncesOnce'
  BY <1>1, <1>3, NoncesAlone DEF Redeeming, Consumed, Resolved, Begun, UserOf, Moved
<1>10. AccountsSound'
  BY <1>1, <1>3, AccountsAlone DEF Verifying, Consumed, Resolved, UserOf, Moved
<1> QED
  BY <1>4, <1>5, <1>6, <1>7, <1>8, <1>9, <1>10

LEMMA CommitRevocationKeeps ==
    ASSUME IndInv, NEW r \in Requests, CommitRevocation(r),
           UNCHANGED <<challenge, nonces, account, linked>>
    PROVE  IndInv'
<1> USE DEF IndInv
<1>1. StepOf(r) = "revoking" /\ Moved(r, "done") /\ UNCHANGED <<token, held, shown>>
  BY GoMoves DEF CommitRevocation, Steps, At, StepOf
<1>2. PICK t \in Requests : t = Presented(r) /\ Issued(t) /\ token[t].used
  BY <1>1 DEF ReadsHold, Refreshing, InTransaction, Writing
<1>3. PICK f \in Requests : f = token[t].family /\ f = FamilyOf(r) /\ Begun(f)
  BY <1>2 DEF Issued, TypeOK, TokenRow, RowsSound, Named, FamilyOf
<1>4. /\ family' \in [Requests -> FamilyRow] /\ family'[f].revoked
      /\ \A g \in Requests : UserOf(g)' = UserOf(g)
      /\ \A g \in Requests : g # f => family'[g] = family[g]
  BY <1>1, <1>3 DEF CommitRevocation, FamilyRow, TypeOK, UserOf
<1>5. \A g \in Requests : Begun(g)' <=> Begun(g)
  BY <1>4 DEF Begun, UserOf
<1>6. TypeOK' /\ NamesFresh'
  BY <1>1, <1>4, <1>5 DEF TypeOK, NamesFresh, Over, Resolved, Moved, Changed, Issued, StepOf
<1>7. RowsSound' /\ OneLive'
  <2>1. \A u \in Requests : Issued(u)' => Begun(token[u].family)'
    <3>1. \A u \in Requests : Issued(u) => token[u].family \in Requests
      BY DEF Issued, TypeOK, TokenRow, Named
    <3> QED
      BY <1>1, <1>4, <3>1 DEF RowsSound, Issued, Begun, UserOf
  <2>2. \A g \in Requests : StepOf(g)' = "begun" => g # f /\ StepOf(g) = "begun"
    BY <1>1, <1>2, <1>3 DEF Moved, Changed, StepOf, RowsSound
  <2> QED
    BY <1>1, <1>3, <1>4, <1>5, <2>1, <2>2 DEF RowsSound, OneLive, Issued
<1>8. ReadsHold'
  BY <1>1, <1>2, <1>3, <1>4 DEF ReadsHold, Exclusive, Issued, Presented, FamilyOf, Moved,
     Changed, StepOf, Refreshing, InTransaction, Writing, TypeOK, TokenRow, Named, NoOne
<1>9. Exclusive'
  BY <1>1 DEF Exclusive, Presented, FamilyOf, Moved, Changed, StepOf, InTransaction, Writing
<1>10. ShownEnough' /\ SpentByRequest'
  BY <1>1 DEF ShownEnough, SpentByRequest, Presented, Issued, Moved, Changed, StepOf, Over
<1>11. EndedByReuse'
  <2>1. PICK q \in Requests : Presented(q) = t /\ StepOf(q) \in Over
    BY <1>2 DEF SpentByRequest
  <2>2. shown[t] >= 2
    BY <1>1, <1>2, <2>1 DEF ShownEnough, Over
  <2> QED
    BY <1>1, <1>2, <1>3, <1>4, <2>2 DEF EndedByReuse
<1>12. NoncesOnce'
  BY <1>1, <1>4, <1>5, NoncesAlone DEF Redeeming, Consumed, Resolved, Moved
<1>13. AccountsSound'
  BY <1>1, <1>4, AccountsAlone DEF Verifying, Consumed, Resolved, Moved
<1> QED
  BY <1>6, <1>7, <1>8, <1>9, <1>10, <1>11, <1>12, <1>13

(* An answer arrives, a request fails, a lookup finds something: only how  *)
(* far a request is changes, outside the transaction's part.               *)
LEMMA StepAloneKeeps ==
    ASSUME IndInv, NEW r \in Requests, NEW s \in Steps, Moved(r, s),
           UNCHANGED <<token, family, shown, challenge, nonces, account>>,
           held' \in SUBSET Requests, linked' \in SUBSET (Requests \X Wallets),
           \/ s = "done"
           \/ StepOf(r) \in Resolved \ {"begun"} /\ s \in Resolved \ {"begun"}
           \/ StepOf(r) = "consumed" /\ s = "unknown"
    PROVE  IndInv'
<1> USE DEF IndInv
<1>1. Changed(r) /\ StepOf(r)' = s /\ s \notin Refreshing \union {"begun", "idle", "matched"}
  BY DEF Moved, Resolved, Refreshing, InTransaction, Writing
<1>2. TypeOK'
  BY <1>1 DEF TypeOK, Changed
<1>3. NamesFresh'
  BY <1>1, NamesAlone DEF NamesFresh, Resolved, Over
<1>4. StepOf(r) \in Over => s \in Over
  BY DEF Over, Resolved
<1>5. RowsSound' /\ OneLive' /\ ReadsHold' /\ Exclusive' /\ ShownEnough'
      /\ SpentByRequest' /\ EndedByReuse'
  BY <1>1, <1>4, TablesAlone DEF Moved
<1>6. NoncesOnce'
  BY <1>1, NoncesAlone DEF Redeeming, Consumed, Resolved, Begun, UserOf, Moved
<1>7. AccountsSound'
  BY <1>1, AccountsAlone DEF Verifying, Consumed, Resolved, UserOf, Moved
<1> QED
  BY <1>2, <1>3, <1>5, <1>6, <1>7

LEMMA RequestEndsKeeps ==
    ASSUME IndInv, NEW r \in Requests, Answer(r) \/ Fail(r),
           UNCHANGED <<challenge, nonces, account, linked>>
    PROVE  IndInv'
<1>1. Go(r, "done") /\ UNCHANGED <<token, family, shown>> /\ held' \in SUBSET Requests
  BY DEF Answer, Fail, IndInv, TypeOK
<1>2. Moved(r, "done")
  BY <1>1, GoMoves DEF IndInv, Steps
<1> QED
  BY <1>1, <1>2, StepAloneKeeps DEF IndInv, TypeOK, Steps

LEMMA LinkStepsKeep ==
    ASSUME IndInv, NEW r \in Requests, FindLink(r) \/ SaveLink(r)
    PROVE  IndInv'
<1>1. PICK s \in Steps :
        /\ Go(r, s) /\ s \in {"link_known", "link_new", "linked", "done"}
        /\ StepOf(r) \in Resolved \ {"begun"}
        /\ UNCHANGED <<token, family, held, shown, challenge, nonces, account>>
        /\ linked' = linked \/ linked' = linked \union {Link(r)}
  BY DEF FindLink, SaveLink, At, StepOf, Resolved, Steps
<1>2. Link(r) \in Requests \X Wallets
  BY <1>1 DEF IndInv, AccountsSound, Link, Verifying, Consumed, Resolved
<1>3. Moved(r, s)
  BY <1>1, GoMoves DEF IndInv
<1> QED
  BY <1>1, <1>2, <1>3, StepAloneKeeps DEF IndInv, TypeOK, Resolved

(* The request's user is known, the wallet's one, found or just created.   *)
LEMMA ResolvedKeeps ==
    ASSUME IndInv, NEW r \in Requests, NEW u \in Requests,
           StepOf(r) \in {"consumed", "unknown"},
           request' = [request EXCEPT ![r].step = "resolved", ![r].user = u],
           UNCHANGED <<token, family, held, shown, challenge, nonces, linked>>,
           \/ UNCHANGED account /\ account[u] = request[r].wallet
           \/ /\ u = r /\ AddressFree(r)
              /\ account' = [account EXCEPT ![r] = request[r].wallet]
    PROVE  IndInv'
<1> USE DEF IndInv
<1>1. /\ Changed(r) /\ StepOf(r)' = "resolved" /\ Presented(r)' = Presented(r)
      /\ request'[r].nonce = request[r].nonce /\ request'[r].wallet = request[r].wallet
      /\ request'[r].user = u
  BY ResolvedMoves
<1>2. ~Issued(r) /\ ~Begun(r) /\ account[r] = NoWallet /\ request[r].wallet \in Wallets
  BY DEF NamesFresh, Over, Resolved, AccountsSound, Verifying, Consumed
<1>3. TypeOK'
  BY <1>1, <1>2 DEF TypeOK, Changed
<1>4. NamesFresh'
  BY <1>1, <1>2 DEF NamesFresh, Changed, StepOf, Issued, Begun, Over, Resolved, TypeOK
<1>5. RowsSound' /\ OneLive' /\ ReadsHold' /\ Exclusive' /\ ShownEnough'
      /\ SpentByRequest' /\ EndedByReuse'
  BY <1>1, TablesAlone DEF Over, Refreshing, InTransaction, Writing
<1>6. NoncesOnce'
  BY <1>1, NoncesAlone DEF Redeeming, Consumed, Resolved, UserOf
<1>7. /\ account'[u] = request[r].wallet
      /\ \A v \in Requests : account[v] # NoWallet => account'[v] = account[v]
      /\ \A v \in Requests : account'[v] # NoWallet /\ v # u => account'[v] = account[v]
      /\ \A v \in Requests : account[v] = request[r].wallet => v = u
  BY <1>2, RotationAssumptions DEF AddressFree, TypeOK, AccountsSound
<1>8. AccountsSound'
  <2>1. \A v, w \in Requests : account'[v] = account'[w] /\ account'[v] # NoWallet => v = w
    BY <1>7 DEF AccountsSound
  <2>2. \A f \in Requests : Begun(f) => UserOf(f) \in Requests
    BY DEF Begun, UserOf, TypeOK, FamilyRow, Named
  <2>3. ASSUME NEW f \in Requests
        PROVE  /\ StepOf(f)' \in Verifying => request'[f].wallet \in Wallets
               /\ StepOf(f)' \in Resolved =>
                    /\ request'[f].user \in Requests
                    /\ account'[request'[f].user] = request'[f].wallet
    BY <1>1, <1>2, <1>7, RotationAssumptions DEF AccountsSound, Changed, StepOf, Verifying, Consumed
  <2>4. ASSUME NEW f \in Requests, Begun(f)
        PROVE  request'[f].wallet \in Wallets /\ account'[UserOf(f)] = request'[f].wallet
    BY <1>2, <1>1, <1>7, <2>2, <2>4, RotationAssumptions DEF AccountsSound, Changed
  <2> QED
    BY <2>1, <2>3, <2>4 DEF AccountsSound, Begun, UserOf
<1> QED
  BY <1>3, <1>4, <1>5, <1>6, <1>8

LEMMA FindAccountKeeps ==
    ASSUME IndInv, NEW r \in Requests, FindAccount(r)
    PROVE  IndInv'
<1> USE DEF IndInv
<1>1. /\ StepOf(r) = "consumed"
      /\ UNCHANGED <<token, family, held, shown, challenge, nonces, account, linked>>
  BY DEF FindAccount, At, StepOf
<1>2. CASE Go(r, "unknown")
  BY <1>1, <1>2, GoMoves, StepAloneKeeps DEF TypeOK, Steps
<1>3. ASSUME NEW u \in Requests, account[u] = request[r].wallet,
             request' = [request EXCEPT ![r].step = "resolved", ![r].user = u]
      PROVE  IndInv'
  BY <1>1, <1>3, ResolvedKeeps
<1> QED
  BY <1>2, <1>3 DEF FindAccount

LEMMA CreateAccountKeeps ==
    ASSUME IndInv, NEW r \in Requests, CreateAccount(r)
    PROVE  IndInv'
<1>1. /\ StepOf(r) = "unknown"
      /\ UNCHANGED <<token, family, held, shown, challenge, nonces, linked>>
  BY DEF CreateAccount, At, StepOf
<1>2. CASE UNCHANGED account /\ Go(r, "done")
  BY <1>1, <1>2, GoMoves, StepAloneKeeps DEF IndInv, TypeOK, Steps
<1>3. CASE /\ AddressFree(r)
           /\ account' = [account EXCEPT ![r] = request[r].wallet]
           /\ request' = [request EXCEPT ![r].step = "resolved", ![r].user = r]
  BY <1>1, <1>3, ResolvedKeeps
<1> QED
  BY <1>2, <1>3 DEF CreateAccount

LEMMA CreateFamilyKeeps ==
    ASSUME IndInv, NEW r \in Requests, CreateFamily(r)
    PROVE  IndInv'
<1> USE DEF IndInv
<1>1. /\ StepOf(r) = "linked" /\ Moved(r, "begun")
      /\ UNCHANGED <<token, held, shown, challenge, nonces, account, linked>>
  BY GoMoves DEF CreateFamily, Steps, At, StepOf
<1>2. /\ ~Begun(r) /\ ~Issued(r)
      /\ request[r].user \in Requests /\ account[request[r].user] = request[r].wallet
      /\ request[r].wallet \in Wallets
  BY <1>1 DEF NamesFresh, AccountsSound, Over, Verifying, Consumed, Resolved
<1>3. /\ family' \in [Requests -> FamilyRow]
      /\ UserOf(r)' = request[r].user /\ Begun(r)' /\ ~family'[r].revoked
      /\ \A f \in Requests : f # r => family'[f] = family[f]
  BY <1>1, <1>2 DEF CreateFamily, FamilyRow, TypeOK, UserOf, Begun, RowsSound, Named, NoOne, Requests
<1>4. \A t \in Requests : token[t].family # r
  <2> SUFFICES ASSUME NEW t \in Requests, token[t].family = r PROVE FALSE
    OBVIOUS
  <2>1. Issued(t)
    BY DEF Issued, NoOne, Requests
  <2> QED
    BY <1>2, <2>1 DEF RowsSound
<1>5. TypeOK' /\ NamesFresh'
  BY <1>1, <1>2, <1>3 DEF TypeOK, NamesFresh, Moved, Changed, StepOf, Issued, Begun, Over, Resolved
<1>6. \A t \in Requests : Issued(t) => token[t].family \in Requests \ {r}
  BY <1>4 DEF Issued, TypeOK, TokenRow, Named
<1>7. RowsSound' /\ OneLive'
  BY <1>1, <1>3, <1>4, <1>6 DEF RowsSound, OneLive, Issued, Begun, Moved, Changed, StepOf
<1>8. \A q \in Requests : StepOf(q) \in Writing => FamilyOf(q) \in Requests \ {r}
  BY <1>6 DEF ReadsHold, Refreshing, InTransaction, FamilyOf
<1>9. ReadsHold' /\ Exclusive'
  BY <1>1, <1>3, <1>8 DEF ReadsHold, Exclusive, Issued, Presented, FamilyOf, Moved, Changed,
     StepOf, Refreshing, InTransaction, Writing
<1>10. ShownEnough' /\ SpentByRequest'
  BY <1>1 DEF ShownEnough, SpentByRequest, Presented, Issued, Moved, Changed, StepOf, Over
<1>11. EndedByReuse'
  BY <1>1, <1>3 DEF EndedByReuse
<1>12. NoncesOnce'
  BY <1>1, <1>3, NoncesAlone DEF Redeeming, Consumed, Resolved, UserOf, Moved
<1>13. AccountsSound'
  BY <1>1, <1>2, <1>3 DEF AccountsSound, Moved, Changed, StepOf, Verifying, Consumed, Resolved,
     Begun, UserOf
<1> QED
  BY <1>5, <1>7, <1>9, <1>10, <1>11, <1>12, <1>13

LEMMA IssueFirstTokenKeeps ==
    ASSUME IndInv, NEW r \in Requests, IssueFirstToken(r)
    PROVE  IndInv'
<1> USE DEF IndInv
<1>1. /\ StepOf(r) = "begun" /\ Moved(r, "answering")
      /\ UNCHANGED <<family, held, shown, challenge, nonces, account, linked>>
  BY GoMoves DEF IssueFirstToken, Steps, At, StepOf
<1>2. /\ Begun(r) /\ ~Issued(r) /\ ~family[r].revoked
      /\ \A t \in Requests : token[t].family # r
  BY <1>1 DEF RowsSound, NamesFresh, Over
<1>3. /\ token' \in [Requests -> TokenRow]
      /\ token'[r].family = r /\ ~token'[r].used
      /\ \A u \in Requests : u # r => token'[u] = token[u]
  BY DEF IssueFirstToken, NewToken, TokenRow, TypeOK, Named
<1>4. TypeOK' /\ NamesFresh'
  BY <1>1, <1>3 DEF TypeOK, NamesFresh, Moved, Changed, StepOf, Issued, Begun, Over, Resolved
<1>5. RowsSound'
  BY <1>1, <1>2, <1>3 DEF RowsSound, Issued, Begun, Moved, Changed, StepOf
<1>6. OneLive'
  BY <1>2, <1>3 DEF OneLive, Issued
<1>7. \A q \in Requests : StepOf(q) \in Refreshing => Presented(q) # r
  BY <1>2 DEF ReadsHold
<1>8. ReadsHold'
  BY <1>1, <1>3, <1>7 DEF ReadsHold, Issued, Presented, FamilyOf, Moved,
     Changed, StepOf, Refreshing, InTransaction, Writing
<1>9. Exclusive'
  BY <1>1, <1>3, <1>7 DEF ReadsHold, Exclusive, Presented, FamilyOf, Moved,
     Changed, StepOf, Refreshing, InTransaction, Writing
<1>10. ShownEnough' /\ SpentByRequest'
  BY <1>1, <1>3 DEF ShownEnough, SpentByRequest, Presented, Issued, Moved, Changed, StepOf, Over
<1>11. EndedByReuse'
  BY <1>1, <1>2, <1>3 DEF EndedByReuse, Issued, NoOne, Requests
<1>12. NoncesOnce'
  BY <1>1, <1>2, NoncesAlone DEF Redeeming, UserOf, Moved
<1>13. AccountsSound'
  BY <1>1, AccountsAlone DEF Verifying, Consumed, Resolved, UserOf, Moved
<1> QED
  BY <1>4, <1>5, <1>8, <1>10, <1>11, <1>12, <1>13, <1>6, <1>9

-----------------------------------------------------------------------------
(* A request comes to a name nobody has used.                              *)
LEMMA Started ==
    ASSUME IndInv, NEW r \in Requests, At(r, "idle"),
           NEW q \in RequestRow, request' = [request EXCEPT ![r] = q],
           UNCHANGED <<token, family, challenge, nonces, account, linked>>,
           held' \in SUBSET Requests, shown' \in [Requests -> Nat],
           q.step \in {"asked", "matched", "discarding"}
    PROVE  /\ Changed(r) /\ request'[r] = q
           /\ ~Issued(r) /\ ~Begun(r) /\ account[r] = NoWallet /\ Presented(r) = NoOne
           /\ TypeOK' /\ NamesFresh'
<1> USE DEF IndInv
<1>1. Changed(r) /\ request'[r] = q
  BY RequestBecomes
<1>2. ~Issued(r) /\ ~Begun(r) /\ account[r] = NoWallet /\ Presented(r) = NoOne
  BY DEF NamesFresh, At, StepOf, Over, Resolved, Presented
<1>3. TypeOK'
  BY <1>1 DEF TypeOK, Changed
<1>4. NamesFresh'
  BY <1>1, <1>2 DEF NamesFresh, Changed, StepOf, Issued, Begun
<1> QED
  BY <1>1, <1>2, <1>3, <1>4

LEMMA RefreshKeeps ==
    ASSUME IndInv, NEW r \in Requests, NEW t \in Requests, Refresh(r, t),
           \A u \in held : Issued(u),
           UNCHANGED <<challenge, nonces, account, linked>>
    PROVE  IndInv'
<1> USE DEF IndInv
<1>1. PICK q : q = [NoRequest EXCEPT !.step = "asked", !.token = t]
  OBVIOUS
<1>2. /\ q \in RequestRow /\ q.step = "asked" /\ q.token = t /\ q.nonce = 0
      /\ request' = [request EXCEPT ![r] = q]
  BY <1>1 DEF NoRequest, RequestRow, Steps, Named, Refresh
<1>3. /\ At(r, "idle") /\ Issued(t) /\ UNCHANGED <<token, family, held>>
      /\ shown' \in [Requests -> Nat] /\ shown'[t] = shown[t] + 1
      /\ \A u \in Requests : u # t => shown'[u] = shown[u]
  BY DEF Refresh, CanStart, TypeOK
<1>4. /\ Changed(r) /\ request'[r] = q
      /\ ~Issued(r) /\ ~Begun(r) /\ account[r] = NoWallet /\ Presented(r) = NoOne
      /\ TypeOK' /\ NamesFresh'
  BY <1>2, <1>3, Started DEF TypeOK
<1>5. RowsSound' /\ OneLive'
  BY <1>2, <1>3, <1>4 DEF RowsSound, OneLive, Issued, Begun, Changed, StepOf
<1>6. ReadsHold' /\ Exclusive'
  BY <1>2, <1>3, <1>4 DEF ReadsHold, Exclusive, Issued, Presented, FamilyOf, Changed, StepOf,
     Refreshing, InTransaction, Writing
<1>7. ShownEnough'
  BY <1>2, <1>3, <1>4 DEF ShownEnough, Presented, Changed, TypeOK
<1>8. SpentByRequest'
  BY <1>3, <1>4 DEF SpentByRequest, Presented, Issued, Changed, StepOf, NoOne, Requests
<1>9. EndedByReuse'
  BY <1>3 DEF EndedByReuse, TypeOK
<1>10. NoncesOnce'
  BY <1>2, <1>3, <1>4 DEF NoncesOnce, Changed, StepOf, Redeeming, Consumed, Resolved, Begun,
     HasChallenge, TypeOK
<1>11. AccountsSound'
  BY <1>2, <1>3, <1>4 DEF AccountsSound, Changed, StepOf, Verifying, Consumed, Resolved, Begun,
     UserOf
<1> QED
  BY <1>4, <1>5, <1>6, <1>7, <1>8, <1>9, <1>10, <1>11

LEMMA FindChallengeKeeps ==
    ASSUME IndInv, NEW r \in Requests, NEW w \in Wallets, FindChallenge(r, w)
    PROVE  IndInv'
<1> USE DEF IndInv
<1>1. PICK n \in Nat, s \in {"matched", "discarding"} :
        /\ n = challenge[w].nonce /\ n # 0
        /\ request' = [request EXCEPT ![r] =
                         [NoRequest EXCEPT !.step = s, !.wallet = w, !.nonce = n]]
  BY DEF FindChallenge, HasChallenge, TypeOK, Record
<1>2. PICK q : q = [NoRequest EXCEPT !.step = s, !.wallet = w, !.nonce = n]
  OBVIOUS
<1>3. /\ q \in RequestRow /\ q.step = s /\ q.token = NoOne /\ q.nonce = n /\ q.wallet = w
      /\ request' = [request EXCEPT ![r] = q]
  BY <1>1, <1>2 DEF NoRequest, RequestRow, Steps, Named
<1>4. At(r, "idle") /\ UNCHANGED <<token, family, held, shown, challenge, nonces, account, linked>>
  BY DEF FindChallenge, CanStart
<1>5. /\ Changed(r) /\ request'[r] = q
      /\ ~Issued(r) /\ ~Begun(r) /\ account[r] = NoWallet /\ Presented(r) = NoOne
      /\ TypeOK' /\ NamesFresh'
  BY <1>3, <1>4, Started DEF TypeOK
<1>6. RowsSound' /\ OneLive' /\ ReadsHold' /\ Exclusive' /\ ShownEnough'
      /\ SpentByRequest' /\ EndedByReuse'
  BY <1>3, <1>4, <1>5, TablesAlone DEF At, StepOf, Presented, Over, Refreshing, InTransaction,
     Writing
<1>7. NoncesOnce'
  BY <1>1, <1>3, <1>4, <1>5 DEF NoncesOnce, Changed, StepOf, Redeeming, Consumed, Resolved,
     Begun, HasChallenge
<1>8. AccountsSound'
  BY <1>3, <1>4, <1>5 DEF AccountsSound, Changed, StepOf, Verifying, Consumed, Resolved, Begun,
     UserOf
<1> QED
  BY <1>5, <1>6, <1>7, <1>8

-----------------------------------------------------------------------------
(* A record leaves Redis, and no request begins to redeem it.              *)
LEMMA RecordGone ==
    ASSUME IndInv, NEW w \in Wallets,
           challenge' = [challenge EXCEPT ![w] = NoRecord], UNCHANGED nonces,
           \A q \in Requests :
             /\ request'[q].nonce = request[q].nonce
             /\ StepOf(q)' = "matched" => StepOf(q) = "matched"
             /\ Redeeming(q)' => Redeeming(q)
    PROVE  challenge' \in [Wallets -> Record] /\ NoncesOnce'
<1> USE DEF IndInv
<1>1. /\ challenge' \in [Wallets -> Record] /\ challenge'[w].nonce = 0
      /\ \A v \in Wallets : v # w => challenge'[v] = challenge[v]
  BY DEF TypeOK, Record, NoRecord
<1>2. NoncesOnce'
  BY <1>1 DEF NoncesOnce, HasChallenge, TypeOK, StepOf
<1> QED
  BY <1>1, <1>2

LEMMA DiscardKeeps ==
    ASSUME IndInv, NEW r \in Requests, Discard(r)
    PROVE  IndInv'
<1> USE DEF IndInv
<1>1. /\ StepOf(r) = "discarding" /\ Moved(r, "done")
      /\ UNCHANGED <<token, family, held, shown, nonces, account, linked>>
  BY GoMoves DEF Discard, Steps, At, StepOf
<1>2. PICK w \in Wallets : w = request[r].wallet
  BY <1>1 DEF AccountsSound, Verifying
<1>3. Changed(r) /\ StepOf(r)' = "done"
  BY <1>1 DEF Moved
<1>4. challenge' \in [Wallets -> Record] /\ NoncesOnce'
  BY <1>1, <1>2, <1>3, RecordGone DEF Discard, Moved, Changed, StepOf, Redeeming, Begun, Consumed,
     Resolved
<1>5. TypeOK' /\ NamesFresh'
  BY <1>1, <1>3, <1>4, NamesAlone DEF TypeOK, Changed, NamesFresh, Over, Resolved
<1>6. RowsSound' /\ OneLive' /\ ReadsHold' /\ Exclusive' /\ ShownEnough'
      /\ SpentByRequest' /\ EndedByReuse'
  BY <1>1, <1>3, TablesAlone DEF Moved, Refreshing, InTransaction, Writing, Over
<1>7. AccountsSound'
  BY <1>1, <1>3, AccountsAlone DEF Moved, Verifying, Consumed, Resolved, UserOf
<1> QED
  BY <1>4, <1>5, <1>6, <1>7

LEMMA ConsumeKeeps ==
    ASSUME IndInv, NEW r \in Requests, Consume(r)
    PROVE  IndInv'
<1> USE DEF IndInv
<1>1. /\ StepOf(r) = "matched"
      /\ UNCHANGED <<token, family, held, shown, nonces, account, linked>>
  BY DEF Consume, At, StepOf
<1>2. CASE UNCHANGED challenge /\ Go(r, "done")
  BY <1>1, <1>2, GoMoves, StepAloneKeeps DEF TypeOK, Steps
<1>3. CASE /\ Consumable(r) /\ Go(r, "consumed")
           /\ challenge' = [challenge EXCEPT ![request[r].wallet] = NoRecord]
  <2>1. PICK w \in Wallets : w = request[r].wallet
    BY <1>1 DEF AccountsSound, Verifying
  <2>2. Moved(r, "consumed")
    BY <1>3, GoMoves DEF Steps
  <2>3. Changed(r) /\ StepOf(r)' = "consumed"
    BY <2>2 DEF Moved
  <2>4. /\ challenge' \in [Wallets -> Record] /\ challenge'[w].nonce = 0
        /\ \A v \in Wallets : v # w => challenge'[v] = challenge[v]
        /\ challenge[w].nonce = request[r].nonce /\ request[r].nonce # 0
    BY <1>1, <1>3, <2>1 DEF TypeOK, Record, NoRecord, Consumable, NoncesOnce
  <2>5. \A q \in Requests : q # r => (Redeeming(q)' <=> Redeeming(q))
    BY <1>1, <2>3 DEF Redeeming, Changed, StepOf, Begun
  <2>6. NoncesOnce'
    <3>1. \A q \in Requests : request'[q].nonce = request[q].nonce
      BY <2>2 DEF Moved, Changed
    <3>2. \A q \in Requests : Redeeming(q) => request[q].nonce # request[r].nonce
      BY <2>4 DEF NoncesOnce
    <3>3. \A v \in Wallets :
            /\ challenge'[v].nonce <= nonces
            /\ \A u \in Wallets :
                 HasChallenge(u)' /\ challenge'[u].nonce = challenge'[v].nonce => v = u
      BY <2>4 DEF NoncesOnce, HasChallenge, TypeOK
    <3>4. \A v \in Wallets : challenge'[v].nonce # request[r].nonce
      BY <2>4 DEF NoncesOnce, HasChallenge
    <3>5. ASSUME NEW q \in Requests, Redeeming(q)'
          PROVE  /\ request[q].nonce # 0
                 /\ \A v \in Wallets : challenge'[v].nonce # request[q].nonce
                 /\ \A p \in Requests :
                      Redeeming(p)' /\ request[p].nonce = request[q].nonce => p = q
      BY <2>4, <2>5, <3>2, <3>4, <3>5 DEF NoncesOnce
    <3>6. \A q \in Requests : StepOf(q)' = "matched" => StepOf(q) = "matched"
      BY <2>3 DEF Changed, StepOf
    <3> QED
      BY <1>1, <3>1, <3>3, <3>5, <3>6 DEF NoncesOnce
  <2>7. TypeOK' /\ NamesFresh'
    BY <1>1, <2>3, <2>4, NamesAlone DEF TypeOK, Changed, NamesFresh, Over, Resolved
  <2>8. RowsSound' /\ OneLive' /\ ReadsHold' /\ Exclusive' /\ ShownEnough'
        /\ SpentByRequest' /\ EndedByReuse'
    BY <1>1, <2>2, <2>3, TablesAlone DEF Moved, Refreshing, InTransaction, Writing, Over
  <2>9. AccountsSound'
    BY <1>1, <2>2, <2>3, AccountsAlone DEF Moved, Verifying, Consumed, Resolved, UserOf
  <2> QED
    BY <2>6, <2>7, <2>8, <2>9
<1> QED
  BY <1>2, <1>3 DEF Consume

LEMMA ChallengesKeep ==
    ASSUME IndInv, NEW w \in Wallets,
           GenerateChallenge(w) \/ ChallengeExpires(w) \/ ChallengeEvicted(w)
    PROVE  IndInv'
<1> USE DEF IndInv
<1>1. UNCHANGED <<token, family, request, held, shown, account, linked>>
  BY DEF GenerateChallenge, ChallengeExpires, ChallengeEvicted, rotationVars
<1>2. /\ challenge' \in [Wallets -> Record] /\ nonces' \in Nat /\ NoncesOnce'
  <2>1. CASE GenerateChallenge(w)
    <3>1. /\ challenge' \in [Wallets -> Record] /\ challenge'[w].nonce = nonces + 1
          /\ nonces' = nonces + 1 /\ nonces < MaxNonces
          /\ \A v \in Wallets : v # w => challenge'[v] = challenge[v]
      BY <2>1 DEF GenerateChallenge, TypeOK, Record
    <3>2. \A r \in Requests : request[r].nonce \in Nat
      BY DEF TypeOK, RequestRow
    <3>3. \A v \in Wallets : challenge[v].nonce \in Nat
      BY DEF TypeOK, Record
    <3> QED
      BY <1>1, <3>1, <3>2, <3>3, SignInAssumptions DEF NoncesOnce, HasChallenge, Redeeming,
         StepOf, Begun, TypeOK
  <2>2. CASE ChallengeExpires(w)
    <3>1. /\ challenge' \in [Wallets -> Record] /\ UNCHANGED nonces
          /\ \A v \in Wallets : challenge'[v].nonce = challenge[v].nonce
      BY <2>2 DEF ChallengeExpires, TypeOK, Record
    <3> QED
      BY <1>1, <3>1 DEF NoncesOnce, HasChallenge, Redeeming, StepOf, Begun, TypeOK
  <2>3. CASE ChallengeEvicted(w)
    BY <1>1, <2>3, RecordGone DEF ChallengeEvicted, Redeeming, StepOf, Begun, TypeOK
  <2> QED
    BY <2>1, <2>2, <2>3
<1>3. TypeOK'
  BY <1>1, <1>2 DEF TypeOK
<1>4. /\ NamesFresh' /\ RowsSound' /\ OneLive' /\ ReadsHold' /\ Exclusive' /\ ShownEnough'
      /\ SpentByRequest' /\ EndedByReuse' /\ AccountsSound'
  BY <1>1 DEF NamesFresh, RowsSound, OneLive, ReadsHold, Exclusive, ShownEnough,
     SpentByRequest, EndedByReuse, AccountsSound, Issued, Begun, StepOf, Presented, FamilyOf, UserOf
<1> QED
  BY <1>2, <1>3, <1>4

LEMMA ExpireKeeps ==
    ASSUME IndInv, NEW t \in Requests, Expire(t),
           UNCHANGED <<challenge, nonces, account, linked>>
    PROVE  IndInv'
<1> USE DEF IndInv
<1>1. UNCHANGED <<family, request, held, shown, challenge, nonces, account, linked>>
  BY DEF Expire
<1>2. /\ token' \in [Requests -> TokenRow]
      /\ \A u \in Requests : token'[u].family = token[u].family /\ token'[u].used = token[u].used
  BY DEF Expire, TypeOK, TokenRow
<1>3. TypeOK' /\ NamesFresh'
  BY <1>1, <1>2 DEF TypeOK, NamesFresh, Issued, Begun, StepOf
<1>4. RowsSound' /\ OneLive'
  BY <1>1, <1>2 DEF RowsSound, OneLive, Issued, Begun, StepOf
<1>5. ReadsHold' /\ Exclusive'
  BY <1>1, <1>2 DEF ReadsHold, Exclusive, Issued, StepOf, Presented, FamilyOf, Refreshing,
     InTransaction
<1>6. ShownEnough' /\ SpentByRequest' /\ EndedByReuse'
  BY <1>1, <1>2 DEF ShownEnough, SpentByRequest, EndedByReuse, Presented, Issued, StepOf
<1>7. NoncesOnce' /\ AccountsSound'
  BY <1>1 DEF NoncesOnce, AccountsSound, HasChallenge, Redeeming, Begun, StepOf, UserOf
<1> QED
  BY <1>3, <1>4, <1>5, <1>6, <1>7

-----------------------------------------------------------------------------
(* Clients hold tokens that were issued, so that they present no other.    *)
HeldIssued ==
    /\ \A t \in held : Issued(t)
    /\ \A r \in Requests : StepOf(r) = "answering" => Issued(r)

LEMMA HeldStays ==
    ASSUME IndInv, HeldIssued, NEW r \in Requests, Changed(r),
           \A t \in Requests : Issued(t) => Issued(t)',
           StepOf(r)' = "answering" => Issued(r)',
           \/ UNCHANGED held
           \/ held' = held \union {r} /\ StepOf(r) = "answering"
    PROVE  HeldIssued'
<1>1. held \subseteq Requests
  BY DEF IndInv, TypeOK
<1> QED
  BY <1>1 DEF HeldIssued, Changed, StepOf

LEMMA StepKeepsHeld ==
    ASSUME IndInv, HeldIssued, NEW r \in Requests, Step(r)
    PROVE  HeldIssued'
<1> USE DEF IndInv
<1>1. CASE Answer(r)
  <2>1. Moved(r, "done") /\ UNCHANGED token /\ held' = held \union {r} /\ StepOf(r) = "answering"
    BY <1>1, GoMoves DEF Answer, Steps, At, StepOf
  <2> QED
    BY <2>1, HeldStays DEF Moved, Issued
<1>2. CASE CommitRotation(r)
  <2>1. /\ StepOf(r) = "rotating" /\ Moved(r, "answering") /\ token' = Rotated(r) /\ UNCHANGED held
    BY <1>2, GoMoves DEF CommitRotation, Steps, At, StepOf
  <2>2. Presented(r) \in Requests /\ Issued(Presented(r)) /\ ~Issued(r)
    BY <2>1 DEF ReadsHold, Refreshing, InTransaction, Writing, NamesFresh, Over
  <2>3. /\ token'[r].family = FamilyOf(r)
        /\ \A u \in Requests : u # r => token'[u].family = token[u].family
    BY <2>1, <2>2 DEF Rotated, NewToken, TypeOK, TokenRow
  <2>4. Issued(r)' /\ \A u \in Requests : Issued(u) => Issued(u)'
    BY <2>2, <2>3 DEF Issued, FamilyOf
  <2> QED
    BY <2>1, <2>4, HeldStays DEF Moved
<1>3. CASE IssueFirstToken(r)
  <2>1. Moved(r, "answering") /\ UNCHANGED held
    BY <1>3, GoMoves DEF IssueFirstToken, Steps
  <2>2. /\ token'[r].family = r
        /\ \A u \in Requests : u # r => token'[u] = token[u]
    BY <1>3 DEF IssueFirstToken, NewToken, TypeOK
  <2>3. Issued(r)' /\ \A u \in Requests : Issued(u) => Issued(u)'
    BY <2>2 DEF Issued, NoOne, Requests
  <2> QED
    BY <2>1, <2>3, HeldStays DEF Moved
<1>4. ASSUME UNCHANGED <<token, held>>, NEW s \in Steps \ {"answering"}, Go(r, s)
      PROVE  HeldIssued'
  BY <1>4, GoMoves, HeldStays DEF Moved, Issued
<1>5. CASE LockToken(r)
  <2>1. UNCHANGED <<token, held>> /\ Changed(r) /\ StepOf(r)' = "token_locked"
    BY <1>5, LockTokenMoves DEF LockToken, ReadsHold, Refreshing, At, StepOf
  <2> QED
    BY <2>1, HeldStays DEF Issued
<1>6. CASE FindAccount(r) \/ CreateAccount(r)
  <2>1. UNCHANGED <<token, held>>
    BY <1>6 DEF FindAccount, CreateAccount
  <2>2. ASSUME NEW u \in Requests,
               request' = [request EXCEPT ![r].step = "resolved", ![r].user = u]
        PROVE  HeldIssued'
    <3>1. Changed(r) /\ StepOf(r)' = "resolved"
      BY <2>2, ResolvedMoves
    <3> QED
      BY <2>1, <3>1, HeldStays DEF Issued
  <2> QED
    BY <1>4, <1>6, <2>1, <2>2 DEF FindAccount, CreateAccount, Steps
<1>7. CASE Decide(r) \/ CommitRevocation(r)
  BY <1>4, <1>7 DEF Decide, CommitRevocation, Steps
<1>8. CASE Discard(r) \/ Consume(r) \/ FindLink(r) \/ SaveLink(r) \/ CreateFamily(r)
  BY <1>4, <1>8 DEF Discard, Consume, FindLink, SaveLink, CreateFamily, Steps
<1> QED
  BY <1>1, <1>2, <1>3, <1>5, <1>6, <1>7, <1>8 DEF Step, VerifyStep, RotationStep

-----------------------------------------------------------------------------
Inv == IndInv /\ HeldIssued

LEMMA InitInvariant ==
    ASSUME Init
    PROVE  Inv
<1> USE DEF Init, RotationInit
<1>1. /\ \A r \in Requests : request[r] = NoRequest
      /\ \A t \in Requests : token[t] = NoToken /\ family[t] = NoFamily
      /\ \A u \in Requests : account[u] = NoWallet
      /\ \A w \in Wallets : challenge[w] = NoRecord
  OBVIOUS
<1>2. /\ NoRequest \in RequestRow /\ NoToken \in TokenRow /\ NoFamily \in FamilyRow
      /\ NoRecord \in Record
  BY DEF NoRequest, RequestRow, Steps, Named, NoToken, TokenRow, NoFamily, FamilyRow,
     NoRecord, Record
<1>3. TypeOK
  BY <1>2 DEF TypeOK
<1>4. NamesFresh /\ RowsSound /\ OneLive
  BY <1>1 DEF NamesFresh, RowsSound, OneLive, NoRequest, NoToken, NoFamily, StepOf, Issued, Begun,
     NoOne
<1>5. ReadsHold /\ Exclusive /\ SpentByRequest /\ EndedByReuse
  BY <1>1 DEF ReadsHold, Exclusive, SpentByRequest, EndedByReuse, NoRequest, NoToken, NoFamily,
     StepOf, Refreshing, InTransaction, Writing
<1>6. ShownEnough
  BY <1>1 DEF ShownEnough, NoRequest, Presented, NoOne, Requests
<1>7. NoncesOnce
  BY <1>1, SignInAssumptions DEF NoncesOnce, NoRequest, NoRecord, NoFamily, HasChallenge, Redeeming,
     Consumed, Resolved, StepOf, Begun
<1>8. AccountsSound
  BY <1>1 DEF AccountsSound, NoRequest, NoFamily, StepOf, Verifying, Consumed, Resolved, Begun
<1>9. HeldIssued
  BY <1>1 DEF HeldIssued, NoRequest, StepOf
<1> QED
  BY <1>3, <1>4, <1>5, <1>6, <1>7, <1>8, <1>9 DEF Inv, IndInv

LEMMA StepInvariant ==
    ASSUME Inv, [Next]_vars
    PROVE  Inv'
<1> USE DEF Inv
<1>1. ASSUME NEW r \in Requests, Step(r)
      PROVE  Inv'
  <2>1. IndInv'
    BY <1>1, LockTokenKeeps, DecideKeeps, CommitRotationKeeps, CommitRevocationKeeps,
       RequestEndsKeeps, DiscardKeeps, ConsumeKeeps, FindAccountKeeps, CreateAccountKeeps,
       LinkStepsKeep, CreateFamilyKeeps, IssueFirstTokenKeeps
       DEF Step, VerifyStep, RotationStep
  <2> QED
    BY <1>1, <2>1, StepKeepsHeld
<1>2. ASSUME NEW r \in Requests, NEW w \in Wallets, FindChallenge(r, w)
      PROVE  Inv'
  <2>1. IndInv'
    BY <1>2, FindChallengeKeeps
  <2>2. request' \in [Requests -> RequestRow] /\ UNCHANGED <<token, held>>
    BY <1>2, <2>1 DEF FindChallenge, IndInv, TypeOK
  <2>3. PICK q : q.step # "answering" /\ request' = [request EXCEPT ![r] = q]
    <3>1. PICK s \in {"matched", "discarding"} :
            request' = [request EXCEPT ![r] =
                          [NoRequest EXCEPT !.step = s, !.wallet = w,
                                            !.nonce = challenge[w].nonce]]
      BY <1>2 DEF FindChallenge
    <3> QED
      BY <3>1 DEF NoRequest
  <2>4. Changed(r) /\ StepOf(r)' # "answering"
    BY <2>2, <2>3 DEF Changed, StepOf, IndInv, TypeOK
  <2> QED
    BY <2>1, <2>2, <2>4, HeldStays DEF Issued
<1>3. ASSUME NEW r \in Requests, NEW t \in Requests, Refresh(r, t),
             UNCHANGED <<challenge, nonces, account, linked>>
      PROVE  Inv'
  <2>1. IndInv'
    BY <1>3, RefreshKeeps DEF HeldIssued
  <2>2. request' \in [Requests -> RequestRow] /\ UNCHANGED <<token, held>>
    BY <1>3, <2>1 DEF Refresh, IndInv, TypeOK
  <2>3. PICK q : q.step # "answering" /\ request' = [request EXCEPT ![r] = q]
    BY <1>3 DEF Refresh, NoRequest
  <2>4. Changed(r) /\ StepOf(r)' # "answering"
    BY <2>2, <2>3 DEF Changed, StepOf, IndInv, TypeOK
  <2> QED
    BY <2>1, <2>2, <2>4, HeldStays DEF Issued
<1>4. ASSUME NEW w \in Wallets,
             GenerateChallenge(w) \/ ChallengeExpires(w) \/ ChallengeEvicted(w)
      PROVE  Inv'
  <2>1. UNCHANGED <<token, request, held>>
    BY <1>4 DEF GenerateChallenge, ChallengeExpires, ChallengeEvicted, rotationVars
  <2> QED
    BY <1>4, <2>1, ChallengesKeep DEF HeldIssued, Issued, StepOf
<1>5. ASSUME NEW r \in Requests, Fail(r), UNCHANGED <<challenge, nonces, account, linked>>
      PROVE  Inv'
  <2>1. Moved(r, "done") /\ UNCHANGED <<token, held>>
    BY <1>5, GoMoves DEF Fail, IndInv, Steps
  <2> QED
    BY <1>5, <2>1, RequestEndsKeeps, HeldStays DEF Moved, Issued
<1>6. ASSUME NEW t \in Requests, Expire(t), UNCHANGED <<challenge, nonces, account, linked>>
      PROVE  Inv'
  <2>1. /\ UNCHANGED <<request, held>>
        /\ \A u \in Requests : token'[u].family = token[u].family
    BY <1>6 DEF Expire, IndInv, TypeOK, TokenRow
  <2>2. held \subseteq Requests
    BY DEF IndInv, TypeOK
  <2> QED
    BY <1>6, <2>1, <2>2, ExpireKeeps DEF HeldIssued, Issued, StepOf
<1>7. CASE UNCHANGED vars
  BY <1>7 DEF vars, rotationVars, IndInv, TypeOK, NamesFresh, RowsSound, OneLive, ReadsHold,
     Exclusive, ShownEnough, SpentByRequest, EndedByReuse, NoncesOnce, AccountsSound, HeldIssued,
     StepOf, UserOf, Issued, Begun, Presented, FamilyOf, HasChallenge, Redeeming
<1> QED
  BY <1>1, <1>2, <1>3, <1>4, <1>5, <1>6, <1>7 DEF Next, Environment, Ask

LEMMA Invariant == Spec => []Inv
<1>1. Init => Inv
  BY InitInvariant
<1>2. Inv /\ [Next]_vars => Inv'
  BY StepInvariant
<1> QED
  BY <1>1, <1>2, PTL DEF Spec

(* Every variable keeps to its type, so that no row names a request, a     *)
(* family or a wallet that does not exist.                                 *)
THEOREM SignInTypes == Spec => []TypeOK
<1>1. Inv => TypeOK
  BY DEF Inv, IndInv
<1> QED
  BY <1>1, Invariant, PTL

(* A family is revoked only after one of its tokens was spent and shown    *)
(* again.                                                                  *)
THEOREM FamiliesEndByReuse == Spec => []EndedByReuse
<1>1. Inv => EndedByReuse
  BY DEF Inv, IndInv
<1> QED
  BY <1>1, Invariant, PTL

(* All sessions of a wallet belong to one account.                         *)
THEOREM WalletsKeepTheirAccount == Spec => []OneAccountPerWallet
<1>1. Inv => OneAccountPerWallet
  <2> SUFFICES ASSUME Inv, NEW f \in Requests, NEW g \in Requests, Begun(f), Begun(g),
                      request[f].wallet = request[g].wallet
               PROVE  UserOf(f) = UserOf(g)
    BY DEF OneAccountPerWallet, UserOf
  <2>1. UserOf(f) \in Requests /\ UserOf(g) \in Requests
    BY DEF Inv, IndInv, TypeOK, FamilyRow, Named, Begun, UserOf
  <2> QED
    BY <2>1, RotationAssumptions DEF Inv, IndInv, AccountsSound
<1> QED
  BY <1>1, Invariant, PTL

-----------------------------------------------------------------------------
(* The refinement: the sessions that the tables hold, and what each kind   *)
(* of step does to them.                                                   *)
Mapped == [f \in Requests |-> SessionOf(f)]
Redeemed == {request[f].nonce : f \in {g \in Requests : Begun(g)}}
Status(f) ==
    IF ~Begun(f) THEN "none" ELSE IF family[f].revoked THEN "ended" ELSE "open"
Live(f) == {t \in Requests : token[t].family = f /\ ~token[t].used}
Spent(f) == {t \in Requests : token[t].family = f /\ token[t].used}

LEMMA MappedSession ==
    ASSUME NEW f \in Requests
    PROVE  Mapped[f] = [status |-> Status(f), live |-> Live(f), spent |-> Spent(f)]
  BY DEF Mapped, SessionOf, Status, Live, Spent

(* The sessions after a step that changes session f to `after'.            *)
LEMMA OneSessionChanges ==
    ASSUME NEW f \in Requests, NEW after, SessionOf(f)' = after,
           \A g \in Requests : g # f => SessionOf(g)' = SessionOf(g)
    PROVE  Mapped' = [Mapped EXCEPT ![f] = after]
  BY DEF Mapped

LEMMA SessionUntouched ==
    ASSUME NEW g \in Requests, Live(g)' = Live(g), Spent(g)' = Spent(g), Status(g)' = Status(g)
    PROVE  SessionOf(g)' = SessionOf(g)
  BY DEF SessionOf, Live, Spent, Status

LEMMA RedeemedAlone ==
    ASSUME \A f \in Requests : Begun(f)' <=> Begun(f),
           \A f \in Requests : Begun(f) => request'[f].nonce = request[f].nonce
    PROVE  Redeemed' = Redeemed
  BY DEF Redeemed

(* A token without a row is in no session.                                 *)
LEMMA NeverSeen ==
    ASSUME NEW t \in Requests, \A g \in Requests : token[t].family # g
    PROVE  Promise!Unissued(t)
<1>1. ASSUME NEW g \in Requests
      PROVE  t \notin Mapped[g].live \union Mapped[g].spent
  <2>1. t \notin Live(g) \union Spent(g)
    BY DEF Live, Spent
  <2>2. Mapped[g] = [status |-> Status(g), live |-> Live(g), spent |-> Spent(g)]
    BY MappedSession
  <2> QED
    BY <2>1, <2>2
<1> QED
  BY <1>1, Zenon DEF Promise!Unissued, Mapped

(* A step that the mapping does not read leaves the sessions.              *)
LEMMA MappingAlone ==
    ASSUME UNCHANGED family,
           \A t \in Requests :
             token'[t].family = token[t].family /\ token'[t].used = token[t].used,
           \A f \in Requests : Begun(f) => request'[f].nonce = request[f].nonce
    PROVE  Mapped' = Mapped /\ Redeemed' = Redeemed
<1>1. ASSUME NEW f \in Requests
      PROVE  SessionOf(f)' = SessionOf(f)
  <2>1. Live(f)' = Live(f) /\ Spent(f)' = Spent(f)
    BY DEF Live, Spent
  <2>2. Status(f)' = Status(f)
    BY DEF Status, Begun
  <2> QED
    BY <2>1, <2>2, SessionUntouched
<1>2. Mapped' = Mapped
  BY <1>1 DEF Mapped
<1>3. Redeemed' = Redeemed
  BY RedeemedAlone DEF Begun
<1> QED
  BY <1>2, <1>3

LEMMA CreateFamilyBegins ==
    ASSUME Inv, Inv', NEW r \in Requests, CreateFamily(r)
    PROVE  \E c \in Nonces : Promise!Begin(r, c)
<1> USE DEF Inv, IndInv
<1>1. /\ StepOf(r) = "linked" /\ Moved(r, "begun") /\ UNCHANGED token
      /\ family' = [family EXCEPT ![r].user = request[r].user]
  BY GoMoves DEF CreateFamily, Steps, At, StepOf
<1>2. PICK c \in Nonces : c = request[r].nonce
  <2>1. request[r].nonce \in Nat /\ nonces \in Nat /\ MaxNonces \in Nat
    BY SignInAssumptions DEF TypeOK, RequestRow
  <2>2. request[r].nonce # 0 /\ request[r].nonce <= nonces /\ nonces <= MaxNonces
    BY <1>1 DEF NoncesOnce, Redeeming, Consumed, Resolved
  <2> QED
    BY <2>1, <2>2 DEF Nonces
<1>3. ~Begun(r) /\ Begun(r)' /\ ~family[r].revoked /\ ~family'[r].revoked
  BY <1>1 DEF NamesFresh, RowsSound, Over, TypeOK, FamilyRow, StepOf, Moved
<1>4. \A g \in Requests : g # r => family'[g] = family[g]
  BY <1>1 DEF TypeOK
<1>5. \A t \in Requests : token[t].family # r
  BY <1>1, <1>3 DEF RowsSound, Issued, NoOne, Requests
<1>6. c \notin Redeemed /\ Redeemed' = Redeemed \union {c}
  <2>1. \A q \in Requests : Begun(q) => request[q].nonce # c
    BY <1>1, <1>2, <1>3 DEF NoncesOnce, Redeeming, Consumed, Resolved
  <2>2. \A q \in Requests : Begun(q)' <=> Begun(q) \/ q = r
    BY <1>3, <1>4 DEF Begun
  <2>3. \A q \in Requests : request'[q].nonce = request[q].nonce
    BY <1>1 DEF Moved, Changed
  <2> QED
    BY <1>2, <2>1, <2>2, <2>3 DEF Redeemed
<1>7. /\ Live(r) = {} /\ Spent(r) = {} /\ Status(r) = "none"
      /\ Live(r)' = {} /\ Spent(r)' = {} /\ Status(r)' = "open"
  BY <1>1, <1>3, <1>5 DEF Live, Spent, Status
<1>8. Mapped[r] = [status |-> "none", live |-> {}, spent |-> {}]
  BY <1>7, MappedSession
<1>9. Mapped' = [Mapped EXCEPT ![r].status = "open"]
  <2>1. SessionOf(r)' = [status |-> "open", live |-> {}, spent |-> {}]
    BY <1>7 DEF SessionOf, Live, Spent, Status
  <2>2. ASSUME NEW g \in Requests, g # r
        PROVE  SessionOf(g)' = SessionOf(g)
    BY <1>1, <1>4, <2>2, SessionUntouched DEF Live, Spent, Status, Begun
  <2>3. [Mapped[r] EXCEPT !.status = "open"] = [status |-> "open", live |-> {}, spent |-> {}]
    BY <1>8
  <2>4. Mapped' = [Mapped EXCEPT ![r] = [Mapped[r] EXCEPT !.status = "open"]]
    BY <2>1, <2>2, <2>3, OneSessionChanges
  <2> QED
    BY <2>4
<1> QED
  BY <1>2, <1>6, <1>8, <1>9 DEF Promise!Begin, Promise!NoSession, Mapped, Redeemed

LEMMA FirstTokenIssued ==
    ASSUME Inv, NEW r \in Requests, IssueFirstToken(r)
    PROVE  Promise!FirstToken(r, r)
<1> USE DEF Inv, IndInv
<1>1. /\ StepOf(r) = "begun" /\ Moved(r, "answering") /\ UNCHANGED family
      /\ token' = [token EXCEPT ![r] = NewToken(r)]
  BY GoMoves DEF IssueFirstToken, Steps, At, StepOf
<1>2. /\ Begun(r) /\ ~family[r].revoked /\ ~Issued(r)
      /\ \A t \in Requests : token[t].family # r
  BY <1>1 DEF RowsSound, NamesFresh, Over
<1>3. /\ token'[r].family = r /\ ~token'[r].used
      /\ \A t \in Requests : t # r => token'[t] = token[t]
  BY <1>1 DEF NewToken, TypeOK
<1>4. Live(r) = {} /\ Spent(r) = {} /\ Live(r)' = {r} /\ Spent(r)' = {}
  BY <1>2, <1>3 DEF Live, Spent
<1>5. Status(r) = "open" /\ Status(r)' = "open"
  BY <1>1, <1>2 DEF Status, Begun
<1>6. Mapped[r] = [status |-> "open", live |-> {}, spent |-> {}]
  BY <1>4, <1>5, MappedSession
<1>7. Promise!Unissued(r)
  BY <1>2, NeverSeen DEF Issued, NoOne, Requests
<1>8. Mapped' = [Mapped EXCEPT ![r].live = {r}]
  <2>1. SessionOf(r)' = [status |-> "open", live |-> {r}, spent |-> {}]
    BY <1>4, <1>5 DEF SessionOf, Live, Spent, Status
  <2>2. ASSUME NEW g \in Requests, g # r
        PROVE  SessionOf(g)' = SessionOf(g)
    <3>1. Live(g)' = Live(g) /\ Spent(g)' = Spent(g)
      BY <1>2, <1>3, <2>2 DEF Live, Spent, Issued, NoOne, Requests
    <3>2. Status(g)' = Status(g)
      BY <1>1 DEF Status, Begun
    <3> QED
      BY <3>1, <3>2, SessionUntouched
  <2>3. [Mapped[r] EXCEPT !.live = {r}] = [status |-> "open", live |-> {r}, spent |-> {}]
    BY <1>6
  <2>4. Mapped' = [Mapped EXCEPT ![r] = [Mapped[r] EXCEPT !.live = {r}]]
    BY <2>1, <2>2, <2>3, OneSessionChanges
  <2> QED
    BY <2>4
<1>9. Redeemed' = Redeemed
  BY <1>1, RedeemedAlone DEF Begun, Moved, Changed
<1>10. Mapped[r] = [Promise!NoSession EXCEPT !.status = "open"]
  BY <1>6 DEF Promise!NoSession
<1> QED
  BY <1>7, <1>8, <1>9, <1>10, Zenon DEF Promise!FirstToken, Mapped, Redeemed

LEMMA RotationExchanges ==
    ASSUME Inv, NEW r \in Requests, CommitRotation(r)
    PROVE  \E f, t \in Requests : Promise!Exchange(f, t, r)
<1> USE DEF Inv, IndInv
<1>1. StepOf(r) = "rotating" /\ Moved(r, "answering") /\ UNCHANGED family
  BY GoMoves DEF CommitRotation, Steps, At, StepOf
<1>2. PICK t \in Requests : t = Presented(r) /\ Issued(t) /\ ~token[t].used
  BY <1>1 DEF ReadsHold, Refreshing, InTransaction, Writing
<1>3. PICK f \in Requests : f = token[t].family /\ Begun(f) /\ ~family[f].revoked
  BY <1>1, <1>2 DEF ReadsHold, Refreshing, InTransaction, Writing, Issued, TypeOK,
     TokenRow, RowsSound, Named, FamilyOf
<1>4. ~Issued(r) /\ r # t
  BY <1>1, <1>2 DEF NamesFresh, Over
<1>5. /\ token'[t].used /\ token'[t].family = f
      /\ token'[r].family = f /\ ~token'[r].used
      /\ \A u \in Requests \ {t, r} : token'[u] = token[u]
  BY <1>2, <1>3, <1>4 DEF CommitRotation, Rotated, NewToken, TokenRow, TypeOK, Named, FamilyOf
<1>6. \A g \in Requests : token[r].family # g
  BY <1>4 DEF Issued, NoOne, Requests
<1>7. Live(f) = {t} /\ Live(f)' = {r} /\ Spent(f)' = Spent(f) \union {t}
  <2>1. \A u \in Live(f) : u = t
    BY <1>2, <1>3 DEF Live, OneLive
  <2>2. Live(f) = {t}
    BY <1>2, <1>3, <2>1 DEF Live
  <2>3. \A u \in Live(f)' : u = r
    BY <1>5, <2>1 DEF Live
  <2>4. Live(f)' = {r}
    BY <1>5, <2>3 DEF Live
  <2>5. Spent(f)' = Spent(f) \union {t}
    BY <1>2, <1>3, <1>5, <1>6 DEF Spent
  <2> QED
    BY <2>2, <2>4, <2>5
<1>8. Status(f) = "open" /\ Status(f)' = "open"
  BY <1>1, <1>3 DEF Status, Begun
<1>9. Mapped[f] = [status |-> "open", live |-> {t}, spent |-> Spent(f)]
  BY <1>7, <1>8, MappedSession
<1>10. Promise!Unissued(r)
  BY <1>6, NeverSeen
<1>11. Mapped' = [Mapped EXCEPT ![f] =
                    [status |-> "open", live |-> {r}, spent |-> Spent(f) \union {t}]]
  <2>1. SessionOf(f)' = [status |-> "open", live |-> {r}, spent |-> Spent(f) \union {t}]
    BY <1>7, <1>8 DEF SessionOf, Live, Spent, Status
  <2>2. ASSUME NEW g \in Requests, g # f
        PROVE  SessionOf(g)' = SessionOf(g)
    <3>1. Live(g)' = Live(g) /\ Spent(g)' = Spent(g)
      BY <1>3, <1>5, <1>6, <2>2 DEF Live, Spent
    <3>2. Status(g)' = Status(g)
      BY <1>1 DEF Status, Begun
    <3> QED
      BY <3>1, <3>2, SessionUntouched
  <2> QED
    BY <2>1, <2>2, OneSessionChanges
<1>12. Redeemed' = Redeemed
  BY <1>1, RedeemedAlone DEF Begun, Moved, Changed
<1>13. Mapped[f].status = "open" /\ Mapped[f].live = {t} /\ Mapped[f].spent = Spent(f)
  BY <1>9
<1>14. Promise!Exchange(f, t, r)
  BY <1>10, <1>11, <1>12, <1>13, Zenon DEF Promise!Exchange, Mapped, Redeemed
<1> QED
  BY <1>14

LEMMA RevocationEnds ==
    ASSUME Inv, NEW r \in Requests, CommitRevocation(r)
    PROVE  \E f \in Requests : Promise!End(f)
<1> USE DEF Inv, IndInv
<1>1. StepOf(r) = "revoking" /\ Moved(r, "done") /\ UNCHANGED token
  BY GoMoves DEF CommitRevocation, Steps, At, StepOf
<1>2. PICK t \in Requests : t = Presented(r) /\ Issued(t) /\ token[t].used
  BY <1>1 DEF ReadsHold, Refreshing, InTransaction, Writing
<1>3. PICK f \in Requests :
        f = token[t].family /\ f = FamilyOf(r) /\ Begun(f) /\ ~family[f].revoked
  BY <1>1, <1>2 DEF ReadsHold, Refreshing, InTransaction, Writing, Issued, TypeOK, TokenRow,
     RowsSound, Named, FamilyOf
<1>4. /\ family'[f].revoked
      /\ \A g \in Requests : UserOf(g)' = UserOf(g)
      /\ \A g \in Requests : g # f => family'[g] = family[g]
  BY <1>3 DEF CommitRevocation, FamilyRow, TypeOK, UserOf
<1>5. /\ Status(f) = "open" /\ Status(f)' = "ended"
      /\ \A g \in Requests : Begun(g)' <=> Begun(g)
  BY <1>3, <1>4 DEF Status, Begun, UserOf
<1>6. \A g \in Requests : Live(g)' = Live(g) /\ Spent(g)' = Spent(g)
  BY <1>1 DEF Live, Spent
<1>7. t \in Spent(f)
  BY <1>2, <1>3 DEF Spent
<1>8. Mapped[f] = [status |-> "open", live |-> Live(f), spent |-> Spent(f)]
  BY <1>5, MappedSession
<1>9. Mapped' = [Mapped EXCEPT ![f].status = "ended"]
  <2>1. SessionOf(f)' = [status |-> "ended", live |-> Live(f), spent |-> Spent(f)]
    BY <1>5, <1>6 DEF SessionOf, Live, Spent, Status
  <2>2. ASSUME NEW g \in Requests, g # f
        PROVE  SessionOf(g)' = SessionOf(g)
    BY <1>4, <1>6, <2>2, SessionUntouched DEF Status, Begun
  <2>3. [Mapped[f] EXCEPT !.status = "ended"]
          = [status |-> "ended", live |-> Live(f), spent |-> Spent(f)]
    BY <1>8
  <2>4. Mapped' = [Mapped EXCEPT ![f] = [Mapped[f] EXCEPT !.status = "ended"]]
    BY <2>1, <2>2, <2>3, OneSessionChanges
  <2> QED
    BY <2>4
<1>10. Redeemed' = Redeemed
  BY <1>1, <1>5, RedeemedAlone DEF Moved, Changed
<1>11. Mapped[f].status = "open" /\ Mapped[f].spent # {}
  BY <1>7, <1>8
<1>12. Promise!End(f)
  BY <1>9, <1>10, <1>11, Zenon DEF Promise!End, Mapped, Redeemed
<1> QED
  BY <1>12

LEMMA OtherStepsStutter ==
    ASSUME Inv, Inv', NEW r \in Requests, Step(r),
           ~CreateFamily(r), ~IssueFirstToken(r), ~CommitRotation(r), ~CommitRevocation(r)
    PROVE  Mapped' = Mapped /\ Redeemed' = Redeemed
<1>1. UNCHANGED <<token, family>>
  BY DEF Step, VerifyStep, RotationStep, LockToken, Decide, Answer, Discard, Consume, FindAccount,
     CreateAccount, FindLink, SaveLink
<1>2. ASSUME NEW s \in Steps, Go(r, s)
      PROVE  \A f \in Requests : request'[f].nonce = request[f].nonce
  BY <1>2, GoMoves DEF Moved, Changed, Inv, IndInv
<1>3. ASSUME NEW u \in Requests,
             request' = [request EXCEPT ![r].step = "resolved", ![r].user = u]
      PROVE  \A f \in Requests : request'[f].nonce = request[f].nonce
  BY <1>3, ResolvedMoves DEF Changed, Inv, IndInv
<1>4. ASSUME LockToken(r)
      PROVE  \A f \in Requests : request'[f].nonce = request[f].nonce
  <2>1. Presented(r) \in Requests
    BY <1>4 DEF Inv, IndInv, ReadsHold, Refreshing, LockToken, At, StepOf
  <2> QED
    BY <1>4, <2>1, LockTokenMoves DEF Changed, Inv, IndInv
<1>5. \A f \in Requests : request'[f].nonce = request[f].nonce
  BY <1>2, <1>3, <1>4 DEF Step, VerifyStep, RotationStep, Decide, Answer, Discard, Consume,
     FindAccount, CreateAccount, FindLink, SaveLink, Steps
<1> QED
  BY <1>1, <1>5, MappingAlone

LEMMA AskingStutters ==
    ASSUME Inv, NEW r \in Requests, Ask(r)
    PROVE  Mapped' = Mapped /\ Redeemed' = Redeemed
<1>1. UNCHANGED <<token, family>> /\ StepOf(r) = "idle"
  BY DEF Ask, FindChallenge, Refresh, CanStart, At, StepOf
<1>2. \A f \in Requests : f # r => request'[f] = request[f]
  BY DEF Ask, FindChallenge, Refresh, Inv, IndInv, TypeOK
<1>3. ~Begun(r)
  BY <1>1 DEF Inv, IndInv, NamesFresh, Over
<1> QED
  BY <1>1, <1>2, <1>3, MappingAlone

LEMMA EnvironmentStutters ==
    ASSUME Inv, Environment
    PROVE  Mapped' = Mapped /\ Redeemed' = Redeemed
<1>1. ASSUME NEW r \in Requests, Fail(r)
      PROVE  Mapped' = Mapped /\ Redeemed' = Redeemed
  <2>1. UNCHANGED <<token, family>> /\ Moved(r, "done")
    BY <1>1, GoMoves DEF Fail, Steps, Inv, IndInv
  <2> QED
    BY <2>1, MappingAlone DEF Moved, Changed
<1>2. ASSUME NEW t \in Requests, Expire(t)
      PROVE  Mapped' = Mapped /\ Redeemed' = Redeemed
  <2>1. /\ UNCHANGED <<family, request>>
        /\ \A u \in Requests : token'[u].family = token[u].family /\ token'[u].used = token[u].used
    BY <1>2 DEF Expire, Inv, IndInv, TypeOK, TokenRow
  <2> QED
    BY <2>1, MappingAlone
<1>3. ASSUME UNCHANGED rotationVars
      PROVE  Mapped' = Mapped /\ Redeemed' = Redeemed
  BY <1>3, MappingAlone DEF rotationVars
<1> QED
  BY <1>1, <1>2, <1>3 DEF Environment, GenerateChallenge, ChallengeExpires, ChallengeEvicted

(* The tables keep what Sessions promises: every step of SignIn begins a   *)
(* session with an unused challenge, issues its first token, exchanges its *)
(* live token for the next, ends it after reuse, or leaves all sessions.   *)
THEOREM SessionsAreKept == Spec => SessionsKept
<1>1. Init => Promise!Init
  <2> SUFFICES ASSUME Init PROVE Promise!Init
    OBVIOUS
  <2>1. \A r \in Requests : token[r].family = NoOne /\ ~Begun(r)
    BY DEF Init, RotationInit, NoToken, NoFamily, Begun
  <2>2. ASSUME NEW f \in Requests
        PROVE  SessionOf(f) = [status |-> "none", live |-> {}, spent |-> {}]
    <3>1. Live(f) = {} /\ Spent(f) = {} /\ Status(f) = "none"
      BY <2>1 DEF Live, Spent, Status, NoOne, Requests
    <3> QED
      BY <3>1, Zenon DEF SessionOf, Live, Spent, Status
  <2> QED
    BY <2>1, <2>2 DEF Promise!Init, Promise!NoSession
<1>2. Inv /\ Inv' /\ [Next]_vars => [Promise!Next]_(Promise!vars)
  <2> SUFFICES ASSUME Inv, Inv', [Next]_vars
               PROVE  Promise!Next \/ UNCHANGED Promise!vars
    OBVIOUS
  <2>1. ASSUME Mapped' = Mapped, Redeemed' = Redeemed
        PROVE  UNCHANGED Promise!vars
    BY <2>1 DEF Promise!vars, Mapped, Redeemed
  <2>2. ASSUME NEW r \in Requests, Step(r)
        PROVE  Promise!Next \/ UNCHANGED Promise!vars
    <3>1. CASE CreateFamily(r)
      BY <3>1, CreateFamilyBegins DEF Promise!Next
    <3>2. CASE IssueFirstToken(r)
      BY <3>2, FirstTokenIssued DEF Promise!Next
    <3>3. CASE CommitRotation(r)
      BY <3>3, RotationExchanges DEF Promise!Next
    <3>4. CASE CommitRevocation(r)
      BY <3>4, RevocationEnds DEF Promise!Next
    <3> QED
      BY <2>1, <2>2, <3>1, <3>2, <3>3, <3>4, OtherStepsStutter
  <2>3. ASSUME NEW r \in Requests, Ask(r)
        PROVE  UNCHANGED Promise!vars
    BY <2>1, <2>3, AskingStutters
  <2>4. CASE Environment
    BY <2>1, <2>4, EnvironmentStutters
  <2>5. CASE UNCHANGED vars
    BY <2>1, <2>5, MappingAlone DEF vars, rotationVars
  <2> QED
    BY <2>2, <2>3, <2>4, <2>5 DEF Next
<1> QED
  BY <1>1, <1>2, Invariant, PTL DEF Spec, SessionsKept, Promise!Spec
=============================================================================
