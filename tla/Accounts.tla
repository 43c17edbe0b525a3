------------------------------ MODULE Accounts ------------------------------
(***************************************************************************)
(* Signing in (flow/api/auth): email.go, facebook.go, google.go, delete.go *)
(* over the tables "user" and secret.user_email, user_fb, user_google.     *)
(*                                                                         *)
(* A request is a READ COMMITTED transaction: it looks its identity up     *)
(* and, when it finds nothing, inserts a user and then a credential, whose *)
(* unique index makes it wait for another uncommitted one.  Writes become  *)
(* visible when the transaction commits.                                   *)
(***************************************************************************)
EXTENDS Naturals, FiniteSets

CONSTANTS
  Identities,  \* records [provider, name]
  Profiles,    \* what a provider, or the register form, says: [email, picture]
  Requests,
  None,        \* NULL
  MaxFaults    \* bound on failures that roll a request back

Providers == {"email", "facebook", "google"}
\* "rejected" is an address the CHECK email_format refuses.
Emails == {"good", "rejected", None}
Pictures == {"one", "other", None}
Ids == 1..Cardinality(Requests)   \* the sequence of "user".id: one value per request at most

ASSUME AccountsAssumption ==
  /\ \A i \in Identities : i.provider \in Providers
  /\ Profiles \subseteq [email: Emails, picture: Pictures]
  /\ IsFiniteSet(Requests)
  /\ None \notin Identities /\ None \notin Ids
  /\ MaxFaults \in Nat

VARIABLES
  user,     \* the rows of "user": [id, email, picture]
  cred,     \* the rows of the three credential tables: [identity, id]
  next,     \* the sequence of "user".id
  pc,       \* per request: the step it is at
  request,  \* per request: its identity, profile, and whether the identity had an account
  own,      \* per request: the user it inserted, or whose row it found
  seen,     \* per request: the row it found
  owner,    \* the identity each id was created for
  faults

vars == <<user, cred, next, pc, request, own, seen, owner, faults>>

NoRequest == [identity |-> None, profile |-> None, known |-> FALSE]

Init ==
  /\ user = {} /\ cred = {} /\ next = 1
  /\ pc = [q \in Requests |-> "idle"] /\ request = [q \in Requests |-> NoRequest]
  /\ own = [q \in Requests |-> None] /\ seen = [q \in Requests |-> None] /\ owner = [n \in Ids |-> None]
  /\ faults = 0

-----------------------------------------------------------------------------

\* Faulty variant: credentials of all providers are compared by name alone.
FoundByName(i) == {u \in user : \E c \in cred : c.identity.name = i.name /\ c.id = u.id}

\* The rows that the SELECT on an identity joins.
Found(i) == {u \in user : \E c \in cred : c.identity = i /\ c.id = u.id}

\* Faulty variant: loginFacebook scans the email into a string.
ReadableWithEmail(i, u) == u.email # None

\* Scan fails on a NULL picture_url in loginGoogle, which reads it into a
\* string; the other logins read into pointers or not at all.
Readable(i, u) == i.provider = "google" => u.picture # None

Arrive(q, i, p) ==
  /\ pc[q] = "idle"
  /\ request' = [request EXCEPT ![q] = [identity |-> i, profile |-> p, known |-> Found(i) # {}]]
  /\ UNCHANGED <<user, cred, next, owner, faults>>

\* loginFacebook, loginGoogle: any error of the SELECT counts as "no such user".
\* The URL of a Facebook picture is made from the id, so it is never missing.
SignIn(q, i, p) ==
  /\ i.provider # "email" /\ (i.provider = "facebook" => p.picture # None)
  /\ Arrive(q, i, p)
  /\ \/ \E u \in Found(i) : /\ Readable(i, u)
                            /\ pc' = [pc EXCEPT ![q] = "update"]
                            /\ own' = [own EXCEPT ![q] = u.id] /\ seen' = [seen EXCEPT ![q] = u]
     \/ /\ \A u \in Found(i) : ~Readable(i, u)
        /\ pc' = [pc EXCEPT ![q] = "insert"] /\ UNCHANGED <<own, seen>>

\* loginEmail: no row and a wrong password are told apart only in the answer.
LoginEmail(q, i, p) ==
  /\ i.provider = "email"
  /\ Arrive(q, i, p)
  /\ \/ \E u \in Found(i) : /\ pc' \in {[pc EXCEPT ![q] = s] : s \in {"ok", "wrong_password"}}
                            /\ own' = [own EXCEPT ![q] = u.id]
     \/ Found(i) = {} /\ pc' = [pc EXCEPT ![q] = "refused"] /\ UNCHANGED own
  /\ UNCHANGED seen

\* RegisterEmail does not look anything up.
RegisterEmail(q, i, p) ==
  /\ i.provider = "email" /\ p.email # None /\ p.picture = None
  /\ pc[q] = "idle" /\ pc' = [pc EXCEPT ![q] = "insert"]
  /\ request' = [request EXCEPT ![q] = [identity |-> i, profile |-> p, known |-> FALSE]]
  /\ UNCHANGED <<user, cred, next, own, seen, owner, faults>>

\* The CHECKs on "user".email.  Google's address is read into a string: a
\* missing one becomes the empty string, which is no address.
EmailRefused(i, p) == p.email = "rejected" \/ (p.email = None /\ i.provider = "google")

\* InsertUser.  The sequence advances even if the transaction is rolled back.
InsertUser(q) ==
  /\ pc[q] = "insert"
  /\ next' = next + 1
  /\ own' = [own EXCEPT ![q] = next]
  /\ pc' = [pc EXCEPT ![q] = IF EmailRefused(request[q].identity, request[q].profile)
                              THEN "refused" ELSE "credential"]
  /\ UNCHANGED <<user, cred, request, seen, owner, faults>>

\* Faulty variant: the unique constraint covers only what is committed.
NobodyWaits(q) == FALSE

\* Another transaction has inserted the same credential and not yet ended.
MustWait(q) ==
  \E o \in Requests \ {q} : pc[o] = "commit" /\ request[o].identity = request[q].identity

\* The INSERT into the table of the provider, with its unique constraint.
InsertCredential(q) ==
  /\ pc[q] = "credential" /\ ~MustWait(q)
  /\ pc' = [pc EXCEPT ![q] = IF \E c \in cred : c.identity = request[q].identity
                              THEN "refused" ELSE "commit"]
  /\ UNCHANGED <<user, cred, next, request, own, seen, owner, faults>>

\* The commit of a registration.
CommitNew(q) ==
  /\ pc[q] = "commit" /\ pc' = [pc EXCEPT ![q] = "ok"]
  /\ user' = user \cup {[id |-> own[q], email |-> request[q].profile.email,
                         picture |-> request[q].profile.picture]}
  /\ cred' = cred \cup {[identity |-> request[q].identity, id |-> own[q]]}
  /\ owner' = [owner EXCEPT ![own[q]] = request[q].identity]
  /\ UNCHANGED <<next, request, own, seen, faults>>

\* What a login makes of the row u of a returning user.  What is missing or
\* different is judged by the row that was read.
Refreshed(q, u) ==
  LET p == request[q].profile IN
  IF request[q].identity.provider = "facebook"
  THEN [u EXCEPT !.email = IF seen[q].email = None THEN p.email ELSE @,
                 !.picture = IF seen[q].picture = None THEN p.picture ELSE @]
  ELSE [u EXCEPT !.picture = IF p.picture \notin {None, seen[q].picture} THEN p.picture ELSE @]

\* The UPDATEs of a returning user and the commit.  An address the CHECK
\* refuses aborts the transaction: the error is overwritten by the next call
\* and comes back from the commit.
CommitKnown(q) ==
  /\ pc[q] = "update"
  /\ LET rows == {u \in user : u.id = own[q]}
         new == {Refreshed(q, u) : u \in rows} IN
       IF \E u \in new : u.email = "rejected"
       THEN pc' = [pc EXCEPT ![q] = "refused"] /\ UNCHANGED user
       ELSE pc' = [pc EXCEPT ![q] = "ok"] /\ user' = (user \ rows) \cup new
  /\ UNCHANGED <<cred, next, request, own, seen, owner, faults>>

\* ON DELETE CASCADE from "user".
CredentialsWithout(n) == {c \in cred : c.id # n}

DeleteAccount(n) ==
  /\ \E u \in user : u.id = n
  /\ user' = {u \in user : u.id # n}
  /\ cred' = CredentialsWithout(n)
  /\ UNCHANGED <<next, pc, request, own, seen, owner, faults>>

\* A user edits their own row through Hasura, which passes the CHECKs or fails.
EditProfile(n, e, pic) ==
  /\ \E u \in user : u.id = n
  /\ e # "rejected"
  /\ user' = {IF u.id = n THEN [u EXCEPT !.email = e, !.picture = pic] ELSE u : u \in user}
  /\ UNCHANGED <<cred, next, pc, request, own, seen, owner, faults>>

\* A statement fails or the client goes away: everything is rolled back.
Fail(q) ==
  /\ pc[q] \in {"update", "insert", "credential", "commit"}
  /\ faults < MaxFaults /\ faults' = faults + 1
  /\ pc' = [pc EXCEPT ![q] = "failed"]
  /\ UNCHANGED <<user, cred, next, request, own, seen, owner>>

Next ==
  \/ \E q \in Requests :
       \/ \E i \in Identities, p \in Profiles : SignIn(q, i, p) \/ LoginEmail(q, i, p) \/ RegisterEmail(q, i, p)
       \/ InsertUser(q) \/ InsertCredential(q) \/ CommitNew(q) \/ CommitKnown(q) \/ Fail(q)
  \/ \E n \in Ids : DeleteAccount(n) \/ \E e \in Emails, pic \in Pictures : EditProfile(n, e, pic)

Spec == Init /\ [][Next]_vars

-----------------------------------------------------------------------------
(* Properties.                                                             *)

\* The tables hold rows of their columns' types, and requests are in a known step.
TypeOK ==
  /\ user \subseteq [id: Ids, email: Emails, picture: Pictures]
  /\ cred \subseteq [identity: Identities, id: Ids]
  /\ next \in 1..(Cardinality(Requests) + 1)
  /\ pc \in [Requests -> {"idle", "update", "insert", "credential", "commit",
                          "ok", "wrong_password", "refused", "failed"}]
  /\ \A q \in Requests : own[q] \in Ids \cup {None}
  /\ \A q \in Requests : pc[q] = "update" => seen[q] \in [id: Ids, email: Emails, picture: Pictures]
  /\ \A n \in Ids : owner[n] \in Identities \cup {None}
  /\ faults \in 0..MaxFaults

\* Users and credentials stay in step: every user has exactly one credential
\* and every credential one user, so that no account is unreachable and no
\* identity has two accounts, however first logins race, fail and are undone.
UsersAndCredentialsMatch ==
  /\ {u.id : u \in user} = {c.id : c \in cred}
  /\ \A c, d \in cred : c.identity = d.identity \/ c.id = d.id => c = d
  /\ \A u, v \in user : u.id = v.id => u = v

\* A request as its user sees it.
Stage(q) ==
  CASE pc[q] = "idle" -> "idle"
    [] pc[q] \in {"update", "insert", "credential", "commit"} -> "open"
    [] pc[q] = "ok" -> "in"
    [] OTHER -> "away"
Into(q) == IF pc[q] \in {"update", "ok"} THEN own[q] ELSE None
Who(q) == [identity |-> request[q].identity, profile |-> request[q].profile]
Entries == {[identity |-> owner[u.id], row |-> u] : u \in user}
Given == {n \in Ids : owner[n] # None}

D == INSTANCE Directory WITH
       accounts <- Entries, given <- Given, stage <- [q \in Requests |-> Stage(q)],
       who <- [q \in Requests |-> Who(q)], into <- [q \in Requests |-> Into(q)]

(* Refinement: however requests race, are rolled back, and meet deletions  *)
(* and edits between their statements, one that is let in is in the        *)
(* account its own identity has, or created in one step where there was    *)
(* none, and no id is ever given to two accounts.                          *)
ImplementsDirectory == D!DSpec

\* The API's README lists "openID" among its authentication features: who has
\* an account with Facebook when the login arrives is let in, though parts of
\* the profile were missing before or are now.  An address the schema refuses
\* still locks the user out, and Google's login, which reads the picture into
\* a string, every user who has none.
ReturningFacebookUserGetsIn ==
  \A q \in Requests :
    /\ request[q].known /\ request[q].identity.provider = "facebook"
    /\ request[q].profile.email # "rejected"
    => pc[q] # "refused"
=============================================================================
