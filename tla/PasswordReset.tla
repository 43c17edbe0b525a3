---------------------------- MODULE PasswordReset ----------------------------
(***************************************************************************)
(* Reset codes under concurrent requests (flow/api/auth/reset.go).         *)
(*                                                                         *)
(* A ResetPassword request is a READ COMMITTED transaction of three        *)
(* statements: it reads the row of its code, hashes the new password,      *)
(* updates secret.user_email, which locks the user's row until the end of  *)
(* the transaction, and deletes the row of its code.  Other requests and   *)
(* SendEmail run between the statements.  Statements that decide nothing   *)
(* else, the DELETE and the COMMIT, are one step.                          *)
(*                                                                         *)
(* random.String draws codes out of 62^6; that two of them never coincide  *)
(* is assumed.                                                             *)
(***************************************************************************)
EXTENDS Naturals

CONSTANTS
  Users,
  Keys,      \* codes; as many as there are, SendEmail can be called
  Requests,  \* calls of ResetPassword
  None,      \* no row, no code, no user
  MaxFaults  \* bound on failing statements and dropped connections

ASSUME ResetAssumption ==
  /\ None \notin Users /\ None \notin Keys /\ None \notin Requests
  /\ MaxFaults \in Nat

VARIABLES
  account,   \* users who have a row in secret.user_email
  row,       \* queue.password_reset: the code of each user, or None
  expired,   \* codes whose expiry has passed
  issued,    \* the user each code was drawn for, or None
  password,  \* the request that set each user's password, or None
  pc, key, user,  \* per request: next statement, its code, the user it read
  lock,      \* the request that holds each user's row of secret.user_email
  used,      \* codes that have changed a password
  twice,     \* codes that have changed a password more than once
  faults

tables == <<account, row, expired, issued, password>>
requestVars == <<pc, key, user, lock>>
history == <<used, twice>>
vars == <<tables, requestVars, history, faults>>

Waiting == {"hash", "delete"}
Final == {"changed", "refused", "failed"}

Init ==
  /\ account = Users
  /\ row = [u \in Users |-> None] /\ expired = {} /\ issued = [k \in Keys |-> None]
  /\ password = [u \in Users |-> None]
  /\ pc = [q \in Requests |-> "idle"] /\ key = [q \in Requests |-> None]
  /\ user = [q \in Requests |-> None] /\ lock = [u \in Users |-> None]
  /\ used = {} /\ twice = {} /\ faults = 0

-----------------------------------------------------------------------------

\* The upsert gives a user one row; an older code is overwritten.
Upserted(u, k) == [row EXCEPT ![u] = k]

SendEmail(u, k) ==
  /\ u \in account
  /\ issued[k] = None
  /\ row' = Upserted(u, k)
  /\ issued' = [issued EXCEPT ![k] = u]
  /\ UNCHANGED <<account, expired, password, requestVars, history, faults>>

\* An hour after it was written a code expires.
Expire(k) ==
  /\ issued[k] # None
  /\ expired' = expired \cup {k}
  /\ UNCHANGED <<account, row, issued, password, requestVars, history, faults>>

\* DeleteAccount waits for the lock on a row it cascades to.
DeleteAccount(u) ==
  /\ u \in account /\ lock[u] = None
  /\ account' = account \ {u}
  /\ row' = [row EXCEPT ![u] = None]
  /\ UNCHANGED <<expired, issued, password, requestVars, history, faults>>

\* What VerifyKey and resetPassword ask of a code.
Valid(u, k) == row[u] = k /\ k \notin expired

\* selectExpiryQuery, for a code that somebody was once sent.
Select(q, k) ==
  /\ pc[q] = "idle" /\ issued[k] # None
  /\ key' = [key EXCEPT ![q] = k]
  /\ \/ \E u \in Users : /\ Valid(u, k)
                         /\ user' = [user EXCEPT ![q] = u]
                         /\ pc' = [pc EXCEPT ![q] = "hash"]
     \/ /\ \A u \in Users : ~Valid(u, k)
        /\ pc' = [pc EXCEPT ![q] = "refused"] /\ UNCHANGED user
  /\ UNCHANGED <<tables, lock, history, faults>>

\* updateUserPasswordQuery, after the hash: takes the lock if the row is there.
Update(q) ==
  /\ pc[q] = "hash" /\ pc' = [pc EXCEPT ![q] = "delete"]
  /\ IF user[q] \in account
     THEN lock[user[q]] = None /\ lock' = [lock EXCEPT ![user[q]] = q]
     ELSE UNCHANGED lock
  /\ UNCHANGED <<tables, key, user, history, faults>>

Held(q) == {u \in Users : lock[u] = q}

\* Faulty variant: no Rollback is deferred.
LockKept(q) == lock

\* The end of a transaction, either way, frees its locks.
Unlocked(q) == [u \in Users |-> IF u \in Held(q) THEN None ELSE lock[u]]

\* Faulty variant: the user's row goes, whatever code it holds.
RowOfUser(q) == {user[q]}

\* Faulty variant: deleteKeyQuery is missing.
NoRows(q) == {}

\* deleteKeyQuery: the rows of the code.
RowsOfKey(q) == {u \in Users : row[u] = key[q]}

\* Faulty variant: the UPDATE has lost its WHERE clause.
Everybody(q) == account

\* The rows the UPDATE has changed.
Changed(q) == Held(q)

\* deleteKeyQuery and the commit.
Commit(q) ==
  /\ pc[q] = "delete" /\ pc' = [pc EXCEPT ![q] = "changed"]
  /\ password' = [u \in Users |-> IF u \in Changed(q) THEN q ELSE password[u]]
  /\ row' = [u \in Users |-> IF u \in RowsOfKey(q) THEN None ELSE row[u]]
  /\ lock' = Unlocked(q)
  /\ used' = IF Changed(q) = {} THEN used ELSE used \cup {key[q]}
  /\ twice' = IF Changed(q) = {} THEN twice ELSE twice \cup ({key[q]} \cap used)
  /\ UNCHANGED <<account, expired, issued, key, user, faults>>

\* A statement fails, the client goes away (the transaction has the context of
\* the request), or the service restarts: the transaction is rolled back.
Fail(q) ==
  /\ pc[q] \in Waiting
  /\ faults < MaxFaults /\ faults' = faults + 1
  /\ pc' = [pc EXCEPT ![q] = "failed"]
  /\ lock' = Unlocked(q)
  /\ UNCHANGED <<tables, key, user, history>>

Next ==
  \/ \E u \in Users : DeleteAccount(u) \/ \E k \in Keys : SendEmail(u, k)
  \/ \E k \in Keys : Expire(k) \/ \E q \in Requests : Select(q, k)
  \/ \E q \in Requests : Update(q) \/ Commit(q) \/ Fail(q)

Spec == Init /\ [][Next]_vars

\* The database serves the waiters of a lock in turn.
Fairness == \A q \in Requests : SF_vars(Update(q)) /\ WF_vars(Commit(q))
FairSpec == Spec /\ Fairness

-----------------------------------------------------------------------------
(* Properties.                                                             *)

\* Rows, codes, requests and locks have the values their declarations allow.
TypeOK ==
  /\ account \subseteq Users
  /\ row \in [Users -> Keys \cup {None}] /\ expired \subseteq Keys
  /\ issued \in [Keys -> Users \cup {None}]
  /\ password \in [Users -> Requests \cup {None}]
  /\ pc \in [Requests -> {"idle"} \cup Waiting \cup Final]
  /\ key \in [Requests -> Keys \cup {None}] /\ user \in [Requests -> Users \cup {None}]
  /\ lock \in [Users -> Requests \cup {None}]
  /\ used \subseteq Keys /\ twice \subseteq used
  /\ faults \in 0..MaxFaults

\* A code that has changed a password is in no row any more, however requests,
\* new codes and rollbacks interleave: nobody can begin to use it again.
UsedCodeIsGone == \A u \in Users : row[u] \notin used

\* A password changes only for a code that was drawn for its owner, and while
\* the owner has an account.
ChangedByOwnCode ==
  [][\A u \in Users : password'[u] # password[u] =>
       /\ u \in account
       /\ \E q \in Requests : /\ pc[q] = "delete" /\ password'[u] = q
                              /\ issued[key[q]] = u]_vars

\* Using an older code leaves the one that was sent since in place: only its
\* own use, a newer code or the end of the account removes a row.
NewerCodeSurvives ==
  [][\A u \in Users : row[u] # None /\ row'[u] # row[u] =>
       \/ row'[u] # None
       \/ u \notin account'
       \/ \E q \in Requests : pc'[q] # pc[q] /\ key[q] = row[u]]_vars

\* A request that got as far as the hash is answered, though another may hold
\* the row it has to update.
RequestsAnswered == \A q \in Requests : (pc[q] = "hash") ~> (pc[q] \in Final)

\* template.go:35 calls it "Your one-time reset code": no code changes a password
\* twice.  It is not so: two requests may pass Select before either deletes the row.
OneTimeCode == twice = {}
=============================================================================
