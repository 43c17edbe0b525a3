------------------------- MODULE PasswordResetProofs -------------------------
(***************************************************************************)
(* Proofs about PasswordReset, for every number of users, codes and        *)
(* requests.  The safety properties follow from one inductive invariant.   *)
(***************************************************************************)
EXTENDS PasswordReset, TLAPS

\* A lock is held between a request's UPDATE and its end, on the account it read.
LocksLive ==
  \A u \in Users : lock[u] # None =>
    pc[lock[u]] = "delete" /\ user[lock[u]] = u /\ u \in account

\* A row holds a code that was drawn for its user.
RowsIssued == \A u \in Users : row[u] # None => issued[row[u]] = u

\* A request in its transaction works for the user its code was drawn for.
RequestsOwned ==
  \A q \in Requests : pc[q] \in Waiting =>
    key[q] \in Keys /\ user[q] \in Users /\ issued[key[q]] = user[q]

Inv ==
  /\ TypeOK /\ LocksLive /\ RowsIssued /\ RequestsOwned
  /\ \A k \in used : issued[k] # None
  /\ UsedCodeIsGone

\* The invariant holds at first.
LEMMA InitInv == Init => Inv
BY ResetAssumption DEF Init, Inv, TypeOK, LocksLive, RowsIssued, RequestsOwned, UsedCodeIsGone,
   Waiting, Final

\* A fresh code replaces the row of its user, and is not used.
LEMMA SendEmailInv == ASSUME Inv, NEW u \in Users, NEW k \in Keys, SendEmail(u, k) PROVE Inv'
<1>. USE DEF tables, requestVars, history
<1>1. TypeOK'
  BY DEF SendEmail, Upserted, Inv, TypeOK
<1>2. LocksLive'
  BY DEF SendEmail, Inv, LocksLive
<1>3. RowsIssued'
  BY ResetAssumption DEF SendEmail, Upserted, Inv, RowsIssued, TypeOK
<1>4. RequestsOwned'
  BY ResetAssumption DEF SendEmail, Inv, RequestsOwned, TypeOK
<1>5. \A j \in used' : issued'[j] # None
  BY ResetAssumption DEF SendEmail, Inv, TypeOK
<1>6. UsedCodeIsGone'
  BY DEF SendEmail, Upserted, Inv, UsedCodeIsGone, TypeOK
<1>. QED BY <1>1, <1>2, <1>3, <1>4, <1>5, <1>6 DEF Inv

\* Expiry changes no row.
LEMMA ExpireInv == ASSUME Inv, NEW k \in Keys, Expire(k) PROVE Inv'
BY DEF Expire, Inv, TypeOK, LocksLive, RowsIssued, RequestsOwned, UsedCodeIsGone, tables,
       requestVars, history

\* A deleted account was not locked.
LEMMA DeleteAccountInv == ASSUME Inv, NEW u \in Users, DeleteAccount(u) PROVE Inv'
<1>. USE DEF tables, requestVars, history
<1>1. TypeOK'
  BY DEF DeleteAccount, Inv, TypeOK
<1>2. LocksLive'
  BY DEF DeleteAccount, Inv, LocksLive
<1>3. RowsIssued' /\ UsedCodeIsGone'
  <2>1. \A v \in Users : row'[v] = row[v] \/ row'[v] = None
    BY DEF DeleteAccount, Inv, TypeOK
  <2>2. None \notin used
    BY ResetAssumption DEF Inv, TypeOK
  <2>. QED BY <2>1, <2>2 DEF DeleteAccount, Inv, RowsIssued, UsedCodeIsGone
<1>4. RequestsOwned'
  BY DEF DeleteAccount, Inv, RequestsOwned
<1>. QED BY <1>1, <1>2, <1>3, <1>4 DEF DeleteAccount, Inv

\* A request reads the user its code was drawn for.
LEMMA SelectInv == ASSUME Inv, NEW q \in Requests, NEW k \in Keys, Select(q, k) PROVE Inv'
<1>. USE DEF tables, requestVars, history
<1>1. TypeOK'
  BY DEF Select, Inv, TypeOK, Waiting, Final
<1>2. LocksLive'
  BY DEF Select, Inv, LocksLive, TypeOK
<1>3. RowsIssued' /\ UsedCodeIsGone'
  BY DEF Select, Inv, RowsIssued, UsedCodeIsGone
<1>4. RequestsOwned'
  <2>1. \A p \in Requests \ {q} : pc'[p] = pc[p] /\ key'[p] = key[p] /\ user'[p] = user[p]
    BY DEF Select, Inv, TypeOK
  <2>2. pc'[q] \in Waiting => key'[q] = k /\ user'[q] \in Users /\ row[user'[q]] = k
    BY DEF Select, Valid, Inv, TypeOK, Waiting
  <2>3. issued' = issued
    BY DEF Select
  <2>4. pc'[q] \in Waiting => issued[key'[q]] = user'[q]
    BY <2>2, ResetAssumption DEF Inv, RowsIssued
  <2>. QED BY <2>1, <2>2, <2>3, <2>4 DEF Inv, RequestsOwned
<1>. QED BY <1>1, <1>2, <1>3, <1>4 DEF Select, Inv

\* A lock is taken only on a free account that the request read.
LEMMA UpdateInv == ASSUME Inv, NEW q \in Requests, Update(q) PROVE Inv'
<1>. USE DEF tables, requestVars, history
<1>1. pc[q] = "hash" /\ pc' = [pc EXCEPT ![q] = "delete"] /\ user[q] \in Users
  BY DEF Update, Inv, RequestsOwned, Waiting
<1>2. TypeOK'
  BY <1>1 DEF Update, Inv, TypeOK, Waiting, Final
<1>3. LocksLive'
  <2>1. \A u \in Users : lock[u] # None => pc'[lock[u]] = "delete" /\ user[lock[u]] = u /\ u \in account
    BY <1>1 DEF Inv, LocksLive, TypeOK
  <2>2. CASE user[q] \in account
    BY <1>1, <2>1, <2>2 DEF Update, LocksLive, Inv, TypeOK
  <2>3. CASE user[q] \notin account
    BY <2>1, <2>3 DEF Update, LocksLive
  <2>. QED BY <2>2, <2>3
<1>4. RowsIssued' /\ UsedCodeIsGone'
  BY DEF Update, Inv, RowsIssued, UsedCodeIsGone
<1>5. RequestsOwned'
  BY <1>1 DEF Update, Inv, RequestsOwned, TypeOK, Waiting
<1>. QED BY <1>2, <1>3, <1>4, <1>5 DEF Update, Inv

\* A transaction that ends frees its own locks and no others.
LEMMA UnlockedLive ==
  ASSUME Inv, NEW q \in Requests, NEW s \in Final, pc' = [pc EXCEPT ![q] = s],
         lock' = Unlocked(q), UNCHANGED <<user, account>>
  PROVE  LocksLive' /\ lock' \in [Users -> Requests \cup {None}]
<1>1. \A u \in Users : lock'[u] = IF lock[u] = q THEN None ELSE lock[u]
  BY DEF Unlocked, Held
<1>2. \A u \in Users : lock'[u] # None => lock'[u] = lock[u] /\ lock[u] # q
  BY <1>1
<1>3. LocksLive'
  BY <1>2 DEF LocksLive, Inv, TypeOK
<1>4. lock' \in [Users -> Requests \cup {None}]
  BY DEF Unlocked, Inv, TypeOK
<1>. QED BY <1>3, <1>4

\* A rollback frees its locks and no others.
LEMMA FailInv == ASSUME Inv, NEW q \in Requests, Fail(q) PROVE Inv'
<1>. USE DEF tables, requestVars, history
<1>1. LocksLive' /\ lock' \in [Users -> Requests \cup {None}]
  BY UnlockedLive DEF Fail, Final
<1>2. TypeOK'
  BY <1>1, ResetAssumption DEF Fail, Inv, TypeOK, Final
<1>3. RowsIssued' /\ UsedCodeIsGone'
  BY DEF Fail, Inv, RowsIssued, UsedCodeIsGone
<1>4. RequestsOwned'
  BY DEF Fail, Inv, RequestsOwned, TypeOK, Waiting
<1>. QED BY <1>1, <1>2, <1>3, <1>4 DEF Fail, Inv

\* A commit frees its locks and removes the rows of the code it has used.
LEMMA CommitInv == ASSUME Inv, NEW q \in Requests, Commit(q) PROVE Inv'
<1>. USE DEF tables, requestVars, history
<1>1. LocksLive' /\ lock' \in [Users -> Requests \cup {None}]
  BY UnlockedLive DEF Commit, Final
<1>2. key[q] \in Keys /\ issued[key[q]] \in Users
  BY DEF Commit, Inv, RequestsOwned, Waiting
<1>3. \A u \in Users : row'[u] = IF row[u] = key[q] THEN None ELSE row[u]
  BY DEF Commit, RowsOfKey
<1>4. used' \subseteq used \cup {key[q]}
  BY DEF Commit
<1>5. TypeOK'
  <2>1. row' \in [Users -> Keys \cup {None}] /\ password' \in [Users -> Requests \cup {None}]
    BY DEF Commit, Inv, TypeOK
  <2>2. used' \subseteq Keys /\ twice' \subseteq used'
    BY <1>2 DEF Commit, Inv, TypeOK
  <2>3. pc' \in [Requests -> {"idle"} \cup Waiting \cup Final]
    BY DEF Commit, Inv, TypeOK, Final
  <2>. QED BY <1>1, <2>1, <2>2, <2>3 DEF Commit, Inv, TypeOK
<1>6. RowsIssued'
  BY <1>3 DEF Commit, Inv, RowsIssued
<1>7. RequestsOwned'
  BY DEF Commit, Inv, RequestsOwned, TypeOK, Waiting
<1>8. \A k \in used' : issued'[k] # None
  BY <1>2, <1>4, ResetAssumption DEF Commit, Inv
<1>9. UsedCodeIsGone'
  <2>1. None \notin used'
    BY <1>5, ResetAssumption DEF TypeOK
  <2>. QED BY <1>3, <1>4, <2>1 DEF Inv, UsedCodeIsGone
<1>. QED BY <1>1, <1>5, <1>6, <1>7, <1>8, <1>9 DEF Inv

\* Every step keeps the invariant.
LEMMA StepInv == ASSUME Inv, [Next]_vars PROVE Inv'
<1>1. CASE UNCHANGED vars
  BY <1>1 DEF vars, tables, requestVars, history, Inv, TypeOK, LocksLive, RowsIssued,
              RequestsOwned, UsedCodeIsGone
<1>. QED BY <1>1, SendEmailInv, ExpireInv, DeleteAccountInv, SelectInv, UpdateInv, FailInv, CommitInv
         DEF Next

\* The invariant always holds.
LEMMA Invariance == Spec => []Inv
BY InitInv, StepInv, PTL DEF Spec

\* Every reachable state is well typed.
THEOREM TypeCorrect == Spec => []TypeOK
<1>1. Inv => TypeOK
  BY DEF Inv
<1>. QED BY <1>1, Invariance, PTL

\* A code that has changed a password is gone for good, for any number of
\* concurrent requests (resetPassword).
THEOREM UsedCodesGone == Spec => []UsedCodeIsGone
<1>1. Inv => UsedCodeIsGone
  BY DEF Inv
<1>. QED BY <1>1, Invariance, PTL

OwnCodeStep ==
  \A u \in Users : password'[u] # password[u] =>
    /\ u \in account
    /\ \E q \in Requests : /\ pc[q] = "delete" /\ password'[u] = q
                           /\ issued[key[q]] = u

\* A step changes a password only by a code drawn for its owner.
LEMMA OwnCodeStepHolds == ASSUME Inv, [Next]_vars PROVE OwnCodeStep
<1>1. ASSUME NEW q \in Requests, Commit(q), NEW u \in Users, password'[u] # password[u]
      PROVE  u \in account /\ pc[q] = "delete" /\ password'[u] = q /\ issued[key[q]] = u
  <2>1. lock[u] = q /\ password'[u] = q
    BY <1>1 DEF Commit, Changed, Held
  <2>2. lock[u] # None
    BY <2>1, ResetAssumption
  <2>3. user[q] = u /\ u \in account /\ pc[q] = "delete"
    BY <2>1, <2>2 DEF Inv, LocksLive
  <2>4. issued[key[q]] = user[q]
    BY <2>3 DEF Inv, RequestsOwned, Waiting
  <2>. QED BY <2>1, <2>3, <2>4
<1>2. CASE UNCHANGED password
  BY <1>2 DEF OwnCodeStep
<1>3. (\E q \in Requests : Commit(q)) \/ UNCHANGED password
  BY DEF Next, SendEmail, Expire, DeleteAccount, Select, Update, Fail, vars, tables
<1>. QED BY <1>1, <1>2, <1>3 DEF OwnCodeStep

\* A password changes only by a code drawn for its owner (resetPassword).
THEOREM PasswordsChangedByOwnCode == Spec => ChangedByOwnCode
<1>1. Inv /\ [Next]_vars => [OwnCodeStep]_vars
  BY OwnCodeStepHolds
<1>. QED BY <1>1, Invariance, PTL DEF Spec, ChangedByOwnCode, OwnCodeStep

SurvivalStep ==
  \A u \in Users : row[u] # None /\ row'[u] # row[u] =>
    \/ row'[u] # None
    \/ u \notin account'
    \/ \E q \in Requests : pc'[q] # pc[q] /\ key[q] = row[u]

\* A step removes a row by its own code, by a newer one, or with the account.
LEMMA SurvivalStepHolds == ASSUME Inv, [Next]_vars PROVE SurvivalStep
<1>1. ASSUME NEW v \in Users, NEW k \in Keys, SendEmail(v, k) PROVE SurvivalStep
  BY <1>1, ResetAssumption DEF SendEmail, Upserted, SurvivalStep, Inv, TypeOK
<1>2. ASSUME NEW v \in Users, DeleteAccount(v) PROVE SurvivalStep
  BY <1>2 DEF DeleteAccount, SurvivalStep, Inv, TypeOK
<1>3. ASSUME NEW q \in Requests, Commit(q) PROVE SurvivalStep
  <2>1. pc'[q] # pc[q]
    BY <1>3 DEF Commit, Inv, TypeOK
  <2>. QED BY <1>3, <2>1 DEF Commit, RowsOfKey, SurvivalStep
<1>4. ASSUME UNCHANGED row PROVE SurvivalStep
  BY <1>4 DEF SurvivalStep
<1>. QED BY <1>1, <1>2, <1>3, <1>4 DEF Next, Expire, Select, Update, Fail, vars, tables

\* Using an older code leaves a newer one in place (deleteKeyQuery).
THEOREM NewerCodesSurvive == Spec => NewerCodeSurvives
<1>1. Inv /\ [Next]_vars => [SurvivalStep]_vars
  BY SurvivalStepHolds
<1>. QED BY <1>1, Invariance, PTL DEF Spec, NewerCodeSurvives, SurvivalStep
=============================================================================
