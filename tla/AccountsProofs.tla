---------------------------- MODULE AccountsProofs ----------------------------
(***************************************************************************)
(* Proofs about Accounts, for every number of requests, identities and     *)
(* profiles.  Ids are drawn from a sequence, so the account a request is   *)
(* about to commit is nobody's yet; the unique index keeps the identities  *)
(* that are about to be committed apart.                                   *)
(***************************************************************************)
EXTENDS Accounts, FiniteSetTheorems, TLAPS

Steps == {"idle", "update", "insert", "credential", "commit", "ok", "wrong_password", "refused", "failed"}
UserRow == [id: Ids, email: Emails, picture: Pictures]
Credential == [identity: Identities, id: Ids]

InFlight(q) == pc[q] \in {"credential", "commit"}
Holds(q) == InFlight(q) \/ pc[q] \in {"update", "ok", "wrong_password"}

\* The requests that may have drawn an id.
Past == {q \in Requests : pc[q] \notin {"idle", "insert"}}

Typed ==
  /\ user \subseteq UserRow /\ cred \subseteq Credential
  /\ pc \in [Requests -> Steps] /\ own \in [Requests -> Ids \cup {None}]
  /\ request \in [Requests -> [identity: Identities \cup {None}, profile: Profiles \cup {None}, known: BOOLEAN]]
  /\ seen \in [Requests -> UserRow \cup {None}] /\ owner \in [Ids -> Identities \cup {None}]
  /\ faults \in 0..MaxFaults
  /\ \A q \in Requests :
       /\ pc[q] # "idle" => request[q].identity \in Identities /\ request[q].profile \in Profiles
       /\ pc[q] = "update" => seen[q] \in UserRow
       /\ Holds(q) => own[q] \in Ids

\* The sequence advances once for each request at most.
Counted == next \in Nat \ {0} /\ next <= Cardinality(Past) + 1

\* The ids in use are below the sequence's next value.
Drawn ==
  /\ \A u \in user : u.id < next
  /\ \A q \in Requests : Holds(q) => own[q] < next

\* The id a request is about to use is nobody else's.
Fresh ==
  \A q \in Requests : InFlight(q) =>
    /\ \A c \in cred : c.id # own[q]
    /\ \A o \in Requests \ {q} : Holds(o) => own[o] # own[q]

\* What the unique index guarantees before a commit.
Indexed ==
  \A q \in Requests : pc[q] = "commit" =>
    /\ \A c \in cred : c.identity # request[q].identity
    /\ \A o \in Requests \ {q} : pc[o] = "commit" => request[o].identity # request[q].identity

Owned ==
  /\ \A c \in cred : owner[c.id] = c.identity
  /\ \A q \in Requests : pc[q] \in {"update", "ok"} => owner[own[q]] = request[q].identity

\* Addresses in the table pass the CHECK, and Facebook users are found.
Accepted ==
  /\ \A u \in user : u.email # "rejected"
  /\ \A q \in Requests : InFlight(q) => request[q].profile.email # "rejected"
  /\ \A q \in Requests :
       request[q].known /\ request[q].identity.provider = "facebook" =>
         pc[q] \notin {"insert", "credential", "commit"}
  /\ ReturningFacebookUserGetsIn

Inv ==
  /\ Typed /\ Counted /\ Drawn /\ UsersAndCredentialsMatch
  /\ Fresh /\ Indexed /\ Owned /\ Accepted

-----------------------------------------------------------------------------
(* The sequence.                                                           *)

LEMMA RequestsCounted == Cardinality(Requests) \in Nat
BY AccountsAssumption, FS_CardinalityType

\* As long as the sequence stands still, requests can only have drawn before.
LEMMA CountedKept == ASSUME Typed, Counted, next' = next, Past \subseteq Past', Past' \subseteq Requests PROVE Counted'
<1>1. IsFiniteSet(Past') /\ Past \in SUBSET (Past')
  BY AccountsAssumption, FS_Subset
<1>2. Cardinality(Past') \in Nat /\ Cardinality(Past) \in Nat /\ Cardinality(Past) <= Cardinality(Past')
  BY <1>1, FS_Subset, FS_CardinalityType
<1>. QED BY <1>2 DEF Counted

\* The id that is drawn is one of the sequence's.
LEMMA DrawnIsId ==
  ASSUME Typed, Counted, NEW q \in Requests, pc[q] = "insert"
  PROVE  next \in Ids /\ Past \cup {q} \subseteq Requests /\ next + 1 <= Cardinality(Past \cup {q}) + 1
<1>1. q \notin Past /\ Past \cup {q} \in SUBSET Requests
  BY DEF Past
<1>2. IsFiniteSet(Past) /\ Past \in SUBSET Requests
  BY <1>1, AccountsAssumption, FS_Subset DEF Past
<1>3. Cardinality(Past \cup {q}) = Cardinality(Past) + 1 /\ Cardinality(Past) \in Nat
  BY <1>1, <1>2, FS_AddElement, FS_CardinalityType
<1>4. Cardinality(Past \cup {q}) <= Cardinality(Requests)
  BY <1>1, AccountsAssumption, FS_Subset
<1>. QED BY <1>1, <1>3, <1>4, RequestsCounted DEF Counted, Ids

\* The initial state.
LEMMA InitInv == Init => Inv
<1>. SUFFICES ASSUME Init PROVE Inv
  OBVIOUS
<1>1. Typed
  BY AccountsAssumption DEF Init, Typed, Steps, NoRequest, Holds, InFlight
<1>2. Counted
  <2>1. Past = {}
    BY DEF Init, Past
  <2>. QED BY <2>1, FS_EmptySet DEF Init, Counted
<1>3. Drawn /\ Fresh /\ Indexed /\ Owned /\ UsersAndCredentialsMatch
  BY DEF Init, Drawn, Fresh, Indexed, Owned, UsersAndCredentialsMatch, Holds, InFlight
<1>4. Accepted
  BY DEF Init, Accepted, ReturningFacebookUserGetsIn, NoRequest, InFlight
<1>. QED BY <1>1, <1>2, <1>3, <1>4 DEF Inv

-----------------------------------------------------------------------------
(* Requests.                                                               *)

\* A login finds an account of its identity, or goes on to insert one.
LEMMA SignInInv ==
  ASSUME Inv, NEW q \in Requests, NEW i \in Identities, NEW p \in Profiles, SignIn(q, i, p)
  PROVE  Inv'
<1>1. /\ pc[q] = "idle" /\ i.provider # "email"
      /\ request' = [request EXCEPT ![q] = [identity |-> i, profile |-> p, known |-> Found(i) # {}]]
      /\ UNCHANGED <<user, cred, next, owner, faults>>
  BY DEF SignIn, Arrive
<1>2. CASE \E u \in Found(i) : /\ Readable(i, u) /\ pc' = [pc EXCEPT ![q] = "update"]
                               /\ own' = [own EXCEPT ![q] = u.id] /\ seen' = [seen EXCEPT ![q] = u]
  <2>1. PICK u \in Found(i) : pc' = [pc EXCEPT ![q] = "update"]
                              /\ own' = [own EXCEPT ![q] = u.id] /\ seen' = [seen EXCEPT ![q] = u]
    BY <1>2
  <2>2. PICK c \in cred : c.identity = i /\ c.id = u.id
    BY DEF Found
  <2>3. u \in user /\ u \in UserRow /\ u.id \in Ids /\ owner[u.id] = i
    BY <2>2 DEF Found, Inv, Typed, UserRow, Owned
  <2>4. Typed'
    BY <1>1, <2>1, <2>3 DEF Inv, Typed, Steps, Holds, InFlight
  <2>5. Counted'
    <3>1. Past \subseteq Past' /\ Past' \subseteq Requests
      BY <2>1 DEF Past, Inv, Typed
    <3>. QED BY <3>1, <1>1, CountedKept DEF Inv
  <2>6. Drawn'
    BY <1>1, <2>1, <2>3 DEF Inv, Typed, Drawn, Holds, InFlight
  <2>7. Fresh'
    BY <1>1, <2>1, <2>2, <2>3 DEF Inv, Typed, Fresh, Holds, InFlight
  <2>8. UsersAndCredentialsMatch' /\ Indexed'
    BY <1>1, <2>1 DEF Inv, Typed, Indexed, UsersAndCredentialsMatch
  <2>9. Owned'
    BY <1>1, <2>1, <2>3 DEF Inv, Typed, Owned
  <2>10. Accepted'
    BY <1>1, <2>1 DEF Inv, Typed, Accepted, ReturningFacebookUserGetsIn, InFlight
  <2>. QED BY <2>4, <2>5, <2>6, <2>7, <2>8, <2>9, <2>10 DEF Inv
<1>3. CASE /\ \A u \in Found(i) : ~Readable(i, u)
           /\ pc' = [pc EXCEPT ![q] = "insert"] /\ UNCHANGED <<own, seen>>
  <2>1. i.provider = "facebook" => Found(i) = {}
    BY <1>3 DEF Readable
  <2>2. Typed'
    BY <1>1, <1>3 DEF Inv, Typed, Steps, Holds, InFlight
  <2>3. Counted'
    <3>1. Past \subseteq Past' /\ Past' \subseteq Requests
      BY <1>1, <1>3 DEF Past, Inv, Typed
    <3>. QED BY <3>1, <1>1, CountedKept DEF Inv
  <2>4. Drawn' /\ Fresh'
    BY <1>1, <1>3 DEF Inv, Typed, Drawn, Fresh, Holds, InFlight
  <2>5. UsersAndCredentialsMatch' /\ Indexed' /\ Owned'
    BY <1>1, <1>3 DEF Inv, Typed, Indexed, UsersAndCredentialsMatch, Owned
  <2>6. Accepted'
    BY <1>1, <1>3, <2>1 DEF Inv, Typed, Accepted, ReturningFacebookUserGetsIn, InFlight
  <2>. QED BY <2>2, <2>3, <2>4, <2>5, <2>6 DEF Inv
<1>. QED BY <1>2, <1>3 DEF SignIn

\* A login by address finds an account of its identity or refuses.
LEMMA LoginEmailInv ==
  ASSUME Inv, NEW q \in Requests, NEW i \in Identities, NEW p \in Profiles, LoginEmail(q, i, p)
  PROVE  Inv'
<1>1. /\ pc[q] = "idle" /\ i.provider = "email"
      /\ request' = [request EXCEPT ![q] = [identity |-> i, profile |-> p, known |-> Found(i) # {}]]
      /\ UNCHANGED <<user, cred, next, owner, faults, seen>>
  BY DEF LoginEmail, Arrive
<1>2. CASE \E u \in Found(i) : /\ pc' \in {[pc EXCEPT ![q] = s] : s \in {"ok", "wrong_password"}}
                               /\ own' = [own EXCEPT ![q] = u.id]
  <2>1. PICK u \in Found(i), s \in {"ok", "wrong_password"} :
          pc' = [pc EXCEPT ![q] = s] /\ own' = [own EXCEPT ![q] = u.id]
    BY <1>2
  <2>2. PICK c \in cred : c.identity = i /\ c.id = u.id
    BY DEF Found
  <2>3. u \in user /\ u \in UserRow /\ u.id \in Ids /\ owner[u.id] = i
    BY <2>2 DEF Found, Inv, Typed, UserRow, Owned
  <2>4. Typed'
    BY <1>1, <2>1, <2>3 DEF Inv, Typed, Steps, Holds, InFlight
  <2>5. Counted'
    <3>1. Past \subseteq Past' /\ Past' \subseteq Requests
      BY <2>1 DEF Past, Inv, Typed
    <3>. QED BY <3>1, <1>1, CountedKept DEF Inv
  <2>6. Drawn'
    BY <1>1, <2>1, <2>3 DEF Inv, Typed, Drawn, Holds, InFlight
  <2>7. Fresh'
    BY <1>1, <2>1, <2>2, <2>3 DEF Inv, Typed, Fresh, Holds, InFlight
  <2>8. UsersAndCredentialsMatch' /\ Indexed'
    BY <1>1, <2>1 DEF Inv, Typed, Indexed, UsersAndCredentialsMatch
  <2>9. Owned'
    BY <1>1, <2>1, <2>3 DEF Inv, Typed, Owned
  <2>10. Accepted'
    BY <1>1, <2>1 DEF Inv, Typed, Accepted, ReturningFacebookUserGetsIn, InFlight
  <2>. QED BY <2>4, <2>5, <2>6, <2>7, <2>8, <2>9, <2>10 DEF Inv
<1>3. CASE Found(i) = {} /\ pc' = [pc EXCEPT ![q] = "refused"] /\ UNCHANGED own
  <2>1. Typed'
    BY <1>1, <1>3 DEF Inv, Typed, Steps, Holds, InFlight
  <2>2. Counted'
    <3>1. Past \subseteq Past' /\ Past' \subseteq Requests
      BY <1>1, <1>3 DEF Past, Inv, Typed
    <3>. QED BY <3>1, <1>1, CountedKept DEF Inv
  <2>3. Drawn' /\ Fresh'
    BY <1>1, <1>3 DEF Inv, Typed, Drawn, Fresh, Holds, InFlight
  <2>4. UsersAndCredentialsMatch' /\ Indexed' /\ Owned'
    BY <1>1, <1>3 DEF Inv, Typed, Indexed, UsersAndCredentialsMatch, Owned
  <2>5. Accepted'
    BY <1>1, <1>3 DEF Inv, Typed, Accepted, ReturningFacebookUserGetsIn, InFlight
  <2>. QED BY <2>1, <2>2, <2>3, <2>4, <2>5 DEF Inv
<1>. QED BY <1>2, <1>3 DEF LoginEmail

\* A registration arrives.
LEMMA RegisterEmailInv ==
  ASSUME Inv, NEW q \in Requests, NEW i \in Identities, NEW p \in Profiles, RegisterEmail(q, i, p)
  PROVE  Inv'
<1>1. /\ pc[q] = "idle" /\ i.provider = "email" /\ pc' = [pc EXCEPT ![q] = "insert"]
      /\ request' = [request EXCEPT ![q] = [identity |-> i, profile |-> p, known |-> FALSE]]
      /\ UNCHANGED <<user, cred, next, own, seen, owner, faults>>
  BY DEF RegisterEmail
<1>2. Typed'
  BY <1>1 DEF Inv, Typed, Steps, Holds, InFlight
<1>3. Counted'
  <2>1. Past \subseteq Past' /\ Past' \subseteq Requests
    BY <1>1 DEF Past, Inv, Typed
  <2>. QED BY <2>1, <1>1, CountedKept DEF Inv
<1>4. Drawn' /\ Fresh'
  BY <1>1 DEF Inv, Typed, Drawn, Fresh, Holds, InFlight
<1>5. UsersAndCredentialsMatch' /\ Indexed' /\ Owned'
  BY <1>1 DEF Inv, Typed, Indexed, UsersAndCredentialsMatch, Owned
<1>6. Accepted'
  BY <1>1 DEF Inv, Typed, Accepted, ReturningFacebookUserGetsIn, InFlight
<1>. QED BY <1>2, <1>3, <1>4, <1>5, <1>6 DEF Inv

\* The id of a new user was nobody's.
LEMMA InsertUserInv == ASSUME Inv, NEW q \in Requests, InsertUser(q) PROVE Inv'
<1>1. PICK s \in {"refused", "credential"} :
        /\ pc[q] = "insert" /\ pc' = [pc EXCEPT ![q] = s]
        /\ s = "refused" <=> EmailRefused(request[q].identity, request[q].profile)
        /\ next' = next + 1 /\ own' = [own EXCEPT ![q] = next]
        /\ UNCHANGED <<user, cred, request, seen, owner, faults>>
  BY DEF InsertUser
<1>2. next \in Ids /\ next \in Nat /\ next + 1 <= Cardinality(Past \cup {q}) + 1
  BY <1>1, DrawnIsId DEF Inv, Counted
<1>3. Typed'
  BY <1>1, <1>2 DEF Inv, Typed, Steps, Holds, InFlight
<1>4. Counted'
  <2>1. Past' = Past \cup {q}
    BY <1>1 DEF Past, Inv, Typed
  <2>. QED BY <2>1, <1>1, <1>2 DEF Counted
<1>5. \A n \in Ids : n < next => n < next' /\ n # next
  BY <1>1, <1>2 DEF Ids
<1>6. Drawn'
  <2>1. \A u \in user : u.id \in Ids
    BY DEF Inv, Typed, UserRow
  <2>2. own'[q] = next /\ next < next'
    BY <1>1, <1>2 DEF Inv, Typed
  <2>3. \A o \in Requests \ {q} : own'[o] = own[o] /\ (Holds(o)' <=> Holds(o))
    BY <1>1 DEF Inv, Typed, Holds, InFlight
  <2>. QED BY <1>1, <1>5, <2>1, <2>2, <2>3 DEF Inv, Typed, Drawn
<1>7. Fresh'
  <2>1. \A c \in cred : c.id # next
    <3>1. \A c \in cred : \E u \in user : u.id = c.id
      BY DEF Inv, UsersAndCredentialsMatch
    <3>2. \A u \in user : u.id # next
      BY <1>5 DEF Inv, Drawn, Typed, UserRow
    <3>. QED BY <3>1, <3>2
  <2>2. \A o \in Requests \ {q} : Holds(o) => own[o] # next
    BY <1>5 DEF Inv, Drawn, Typed
  <2>3. own'[q] = next /\ \A o \in Requests \ {q} :
          own'[o] = own[o] /\ (Holds(o)' <=> Holds(o)) /\ (InFlight(o)' <=> InFlight(o))
    BY <1>1 DEF Inv, Typed, Holds, InFlight
  <2>. QED BY <1>1, <2>1, <2>2, <2>3 DEF Inv, Fresh, Holds
<1>8. UsersAndCredentialsMatch' /\ Indexed' /\ Owned'
  BY <1>1 DEF Inv, Typed, Indexed, UsersAndCredentialsMatch, Owned
<1>9. Accepted'
  BY <1>1 DEF Inv, Typed, Accepted, ReturningFacebookUserGetsIn, InFlight, EmailRefused
<1>. QED BY <1>3, <1>4, <1>6, <1>7, <1>8, <1>9 DEF Inv

\* The unique index lets one request of an identity through.
LEMMA InsertCredentialInv == ASSUME Inv, NEW q \in Requests, InsertCredential(q) PROVE Inv'
<1>1. PICK s \in {"refused", "commit"} :
        /\ pc[q] = "credential" /\ pc' = [pc EXCEPT ![q] = s]
        /\ s = "refused" <=> \E c \in cred : c.identity = request[q].identity
        /\ UNCHANGED <<user, cred, next, request, own, seen, owner, faults>>
  BY DEF InsertCredential
<1>2. Typed'
  BY <1>1 DEF Inv, Typed, Steps, Holds, InFlight
<1>3. Counted'
  <2>1. Past \subseteq Past' /\ Past' \subseteq Requests
    BY <1>1 DEF Past, Inv, Typed
  <2>. QED BY <2>1, <1>1, CountedKept DEF Inv
<1>4. Drawn' /\ Fresh'
  BY <1>1 DEF Inv, Typed, Drawn, Fresh, Holds, InFlight
<1>5. Indexed'
  BY <1>1 DEF InsertCredential, MustWait, Inv, Typed, Indexed
<1>6. UsersAndCredentialsMatch' /\ Owned'
  BY <1>1 DEF Inv, Typed, UsersAndCredentialsMatch, Owned
<1>7. Accepted'
  BY <1>1 DEF Inv, Typed, Accepted, ReturningFacebookUserGetsIn, InFlight
<1>. QED BY <1>2, <1>3, <1>4, <1>5, <1>6, <1>7 DEF Inv

-----------------------------------------------------------------------------
(* Changes of the tables.                                                  *)

\* A new account's id and identity are in no row yet.
LEMMA CommitNewInv == ASSUME Inv, NEW q \in Requests, CommitNew(q) PROVE Inv'
<1>. DEFINE i == request[q].identity
            p == request[q].profile
            n == own[q]
            row == [id |-> n, email |-> p.email, picture |-> p.picture]
<1>1. /\ pc[q] = "commit" /\ pc' = [pc EXCEPT ![q] = "ok"]
      /\ user' = user \cup {row} /\ cred' = cred \cup {[identity |-> i, id |-> n]}
      /\ owner' = [owner EXCEPT ![n] = i]
      /\ UNCHANGED <<next, request, own, seen, faults>>
  BY DEF CommitNew
<1>2. i \in Identities /\ p \in Profiles /\ n \in Ids /\ n < next
  BY <1>1 DEF Inv, Typed, Drawn, Holds, InFlight
<1>3. p.email \in Emails \ {"rejected"} /\ p.picture \in Pictures
  BY <1>1, <1>2, AccountsAssumption DEF Inv, Accepted, InFlight
<1>4. /\ \A c \in cred : c.id # n /\ c.identity # i
      /\ \A o \in Requests \ {q} : Holds(o) => own[o] # n
      /\ \A o \in Requests \ {q} : pc[o] = "commit" => request[o].identity # i
  BY <1>1 DEF Inv, Fresh, Indexed, InFlight
<1>5. \A u \in user : u.id # n
  <2>1. \A u \in user : \E c \in cred : c.id = u.id
    BY DEF Inv, UsersAndCredentialsMatch
  <2>. QED BY <2>1, <1>4
<1>6. row \in UserRow /\ [identity |-> i, id |-> n] \in Credential
  BY <1>2, <1>3 DEF UserRow, Credential
<1>. HIDE DEF i, p
<1>7. Typed'
  BY <1>1, <1>2, <1>6 DEF Inv, Typed, Steps, Holds, InFlight
<1>8. Counted'
  <2>1. Past \subseteq Past' /\ Past' \subseteq Requests
    BY <1>1 DEF Past, Inv, Typed
  <2>. QED BY <2>1, <1>1, CountedKept DEF Inv
<1>9. Drawn'
  BY <1>1, <1>2 DEF Inv, Typed, Drawn, Holds, InFlight
<1>10. UsersAndCredentialsMatch'
  <2>1. {u.id : u \in user'} = {c.id : c \in cred'}
    <3>1. {u.id : u \in user'} = {u.id : u \in user} \cup {n}
      BY <1>1, row.id = n
    <3>2. {c.id : c \in cred'} = {c.id : c \in cred} \cup {n}
      BY <1>1, [identity |-> i, id |-> n].id = n
    <3>. QED BY <3>1, <3>2 DEF Inv, UsersAndCredentialsMatch
  <2>2. \A c, d \in cred' : c.identity = d.identity \/ c.id = d.id => c = d
    BY <1>1, <1>4 DEF Inv, UsersAndCredentialsMatch
  <2>3. \A u, v \in user' : u.id = v.id => u = v
    BY <1>1, <1>5 DEF Inv, UsersAndCredentialsMatch
  <2>. QED BY <2>1, <2>2, <2>3 DEF UsersAndCredentialsMatch
<1>11. \A o \in Requests \ {q} : pc'[o] = pc[o] /\ (Holds(o)' <=> Holds(o)) /\ (InFlight(o)' <=> InFlight(o))
  BY <1>1 DEF Inv, Typed, Holds, InFlight
<1>12. pc'[q] = "ok" /\ ~InFlight(q)'
  BY <1>1 DEF Inv, Typed, InFlight
<1>13. Fresh'
  <2>1. \A o \in Requests \ {q} : InFlight(o) => own[o] # n
    BY <1>4 DEF Holds
  <2>2. \A o \in Requests \ {q} : InFlight(o) => own[q] # own[o]
    BY <2>1
  <2>. QED BY <1>1, <1>11, <1>12, <2>1, <2>2 DEF Inv, Fresh
<1>14. Indexed'
  BY <1>1, <1>4, <1>11, <1>12 DEF Inv, Indexed
<1>15. Owned'
  <2>1. \A c \in cred : c.id \in Ids /\ c.id # n
    BY <1>4 DEF Inv, Typed, Credential
  <2>2. \A o \in Requests \ {q} : pc[o] \in {"update", "ok"} => own[o] \in Ids /\ own[o] # n
    BY <1>4 DEF Inv, Typed, Holds
  <2>3. owner'[n] = i /\ \A m \in Ids \ {n} : owner'[m] = owner[m]
    BY <1>1, <1>2 DEF Inv, Typed
  <2>4. \A c \in cred' : owner'[c.id] = c.identity
    BY <1>1, <2>1, <2>3 DEF Inv, Owned
  <2>5. owner'[own'[q]] = request'[q].identity
    BY <1>1, <2>3 DEF i
  <2>. QED BY <1>1, <1>11, <2>2, <2>3, <2>4, <2>5 DEF Inv, Owned
<1>16. Accepted'
  BY <1>1, <1>3, <1>11, <1>12 DEF Inv, Accepted, ReturningFacebookUserGetsIn
<1>. QED BY <1>7, <1>8, <1>9, <1>10, <1>13, <1>14, <1>15, <1>16 DEF Inv

\* What depends on the ids and addresses of users and on credentials outlives
\* every change of the rows that keeps those.
LEMMA RowsChanged ==
  ASSUME Inv, UNCHANGED <<cred, next, pc, request, own, seen, owner, faults>>,
         user' \subseteq UserRow, {u.id : u \in user'} = {u.id : u \in user},
         \A u, v \in user' : u.id = v.id => u = v, \A u \in user' : u.email # "rejected"
  PROVE  Inv'
<1>1. Typed'
  BY DEF Inv, Typed, Holds, InFlight
<1>2. Counted'
  BY DEF Inv, Counted, Past
<1>3. Drawn'
  <2>1. \A u \in user' : \E v \in user : v.id = u.id
    OBVIOUS
  <2>. QED BY <2>1 DEF Inv, Drawn, Holds, InFlight
<1>4. Fresh' /\ Indexed' /\ Owned'
  BY DEF Inv, Fresh, Indexed, Owned, Holds, InFlight
<1>5. UsersAndCredentialsMatch'
  BY DEF Inv, UsersAndCredentialsMatch
<1>6. Accepted'
  BY DEF Inv, Accepted, ReturningFacebookUserGetsIn, InFlight
<1>. QED BY <1>1, <1>2, <1>3, <1>4, <1>5, <1>6 DEF Inv

\* A returning user's row changes in place, and not to a refused address.
LEMMA CommitKnownInv == ASSUME Inv, NEW q \in Requests, CommitKnown(q) PROVE Inv'
<1>. DEFINE rows == {u \in user : u.id = own[q]}
            new == {Refreshed(q, u) : u \in rows}
<1>1. PICK s \in {"refused", "ok"} :
        /\ pc[q] = "update" /\ pc' = [pc EXCEPT ![q] = s]
        /\ s = "refused" => UNCHANGED user /\ \E u \in new : u.email = "rejected"
        /\ s = "ok" => user' = (user \ rows) \cup new /\ \A u \in new : u.email # "rejected"
        /\ UNCHANGED <<cred, next, request, own, seen, owner, faults>>
  BY DEF CommitKnown
<1>2. own[q] \in Ids /\ seen[q] \in UserRow /\ request[q].profile \in Profiles
  BY <1>1 DEF Inv, Typed, Holds
<1>3. \A u \in rows : Refreshed(q, u) \in UserRow /\ Refreshed(q, u).id = u.id
  <2>1. request[q].profile.email \in Emails /\ request[q].profile.picture \in Pictures
    BY <1>2, AccountsAssumption
  <2>2. \A u \in rows : u \in UserRow
    BY DEF Inv, Typed
  <2>. QED BY <2>1, <2>2 DEF Refreshed, UserRow
<1>4. /\ user' \subseteq UserRow /\ {u.id : u \in user'} = {u.id : u \in user}
      /\ \A u, v \in user' : u.id = v.id => u = v
      /\ \A u \in user' : u.email # "rejected"
  <2>1. CASE s = "refused"
    BY <1>1, <2>1 DEF Inv, Typed, UsersAndCredentialsMatch, Accepted
  <2>2. CASE s = "ok"
    <3>1. user' = (user \ rows) \cup new /\ \A u \in new : u.email # "rejected"
      BY <1>1, <2>2
    <3>2. user' \subseteq UserRow /\ \A u \in user' : u.email # "rejected"
      BY <1>3, <3>1 DEF Inv, Typed, Accepted
    <3>3. \A u \in new : u.id = own[q] /\ rows # {}
      BY <1>3
    <3>4. rows # {} => \E u \in new : u.id = own[q]
      BY <1>3
    <3>5. {u.id : u \in user'} = {u.id : u \in user}
      <4>1. \A u \in user' : \E v \in user : v.id = u.id
        BY <3>1, <3>3
      <4>2. \A v \in user : \E u \in user' : v.id = u.id
        BY <3>1, <3>4
      <4>. QED BY <4>1, <4>2
    <3>6. \A u, v \in new : u = v
      BY DEF Inv, UsersAndCredentialsMatch
    <3>7. \A u, v \in user' : u.id = v.id => u = v
      BY <3>1, <3>3, <3>6 DEF Inv, UsersAndCredentialsMatch
    <3>. QED BY <3>2, <3>5, <3>7
  <2>. QED BY <2>1, <2>2
<1>5. Typed'
  BY <1>1, <1>4 DEF Inv, Typed, Steps, Holds, InFlight
<1>6. Counted'
  <2>1. Past \subseteq Past' /\ Past' \subseteq Requests
    BY <1>1 DEF Past, Inv, Typed
  <2>. QED BY <2>1, <1>1, CountedKept DEF Inv
<1>7. \A o \in Requests : (Holds(o)' => Holds(o)) /\ (InFlight(o)' <=> InFlight(o))
  BY <1>1 DEF Inv, Typed, Holds, InFlight
<1>8. Drawn'
  <2>1. \A u \in user' : \E v \in user : v.id = u.id
    BY <1>4
  <2>. QED BY <1>1, <1>7, <2>1 DEF Inv, Drawn
<1>9. Fresh' /\ Indexed' /\ Owned'
  BY <1>1, <1>7 DEF Inv, Typed, Fresh, Indexed, Owned
<1>10. UsersAndCredentialsMatch'
  BY <1>1, <1>4 DEF Inv, UsersAndCredentialsMatch
<1>11. Accepted'
  <2>1. ~(s = "refused" /\ request[q].identity.provider = "facebook" /\ request[q].profile.email # "rejected")
    <3>1. \A u \in rows : u.email # "rejected"
      BY DEF Inv, Accepted
    <3>2. request[q].identity.provider = "facebook" /\ request[q].profile.email # "rejected" =>
            \A u \in new : u.email # "rejected"
      <4>1. \A u \in rows : u \in UserRow
        BY DEF Inv, Typed
      <4>. QED BY <3>1, <4>1 DEF Refreshed, UserRow
    <3>. QED BY <1>1, <3>2
  <2>. QED BY <1>1, <1>4, <2>1 DEF Inv, Typed, Accepted, ReturningFacebookUserGetsIn, InFlight
<1>. QED BY <1>5, <1>6, <1>8, <1>9, <1>10, <1>11 DEF Inv

\* An account goes with its credential.
LEMMA DeleteAccountInv == ASSUME Inv, NEW n \in Ids, DeleteAccount(n) PROVE Inv'
<1>1. /\ user' = {u \in user : u.id # n} /\ cred' = {c \in cred : c.id # n}
      /\ UNCHANGED <<next, pc, request, own, seen, owner, faults>>
  BY DEF DeleteAccount, CredentialsWithout
<1>2. Typed' /\ Drawn'
  BY <1>1 DEF Inv, Typed, Drawn, Holds, InFlight
<1>3. Counted'
  BY <1>1 DEF Inv, Counted, Past
<1>4. Fresh' /\ Indexed' /\ Owned'
  BY <1>1 DEF Inv, Fresh, Indexed, Owned, Holds, InFlight
<1>5. UsersAndCredentialsMatch'
  <2>1. {u.id : u \in user} = {c.id : c \in cred}
    BY DEF Inv, UsersAndCredentialsMatch
  <2>2. \A u \in user' : \E c \in cred' : c.id = u.id
    BY <1>1, <2>1
  <2>3. \A c \in cred' : \E u \in user' : u.id = c.id
    BY <1>1, <2>1
  <2>4. {u.id : u \in user'} = {c.id : c \in cred'}
    BY <2>2, <2>3
  <2>5. user' \subseteq user /\ cred' \subseteq cred
    BY <1>1
  <2>. QED BY <2>4, <2>5 DEF Inv, UsersAndCredentialsMatch
<1>6. Accepted'
  BY <1>1 DEF Inv, Accepted, ReturningFacebookUserGetsIn, InFlight
<1>. QED BY <1>2, <1>3, <1>4, <1>5, <1>6 DEF Inv

\* An edit keeps the ids.
LEMMA EditProfileInv ==
  ASSUME Inv, NEW n \in Ids, NEW e \in Emails, NEW pic \in Pictures, EditProfile(n, e, pic)
  PROVE  Inv'
<1>. DEFINE edited(u) == IF u.id = n THEN [u EXCEPT !.email = e, !.picture = pic] ELSE u
<1>1. user' = {edited(u) : u \in user} /\ e # "rejected"
      /\ UNCHANGED <<cred, next, pc, request, own, seen, owner, faults>>
  BY DEF EditProfile
<1>2. \A u \in user : edited(u) \in UserRow /\ edited(u).id = u.id /\ edited(u).email # "rejected"
  BY <1>1 DEF Inv, Typed, UserRow, Accepted
<1>3. user' \subseteq UserRow /\ {u.id : u \in user'} = {u.id : u \in user} /\ \A u \in user' : u.email # "rejected"
  <2>. HIDE DEF edited
  <2>1. \A u \in user' : \E v \in user : v.id = u.id
    BY <1>1, <1>2
  <2>2. \A v \in user : \E u \in user' : u.id = v.id
    BY <1>1, <1>2
  <2>3. {u.id : u \in user'} = {u.id : u \in user}
    BY <2>1, <2>2
  <2>. QED BY <1>1, <1>2, <2>3
<1>4. \A u, v \in user' : u.id = v.id => u = v
  <2>. HIDE DEF edited
  <2>. SUFFICES ASSUME NEW u \in user', NEW v \in user', u.id = v.id PROVE u = v
    OBVIOUS
  <2>1. PICK a \in user, b \in user : u = edited(a) /\ v = edited(b)
    BY <1>1
  <2>2. a.id = b.id
    BY <1>2, <2>1
  <2>. QED BY <2>1, <2>2 DEF Inv, UsersAndCredentialsMatch
<1>. QED BY <1>1, <1>3, <1>4, RowsChanged

\* A failed request wrote nothing.
LEMMA FailInv == ASSUME Inv, NEW q \in Requests, Fail(q) PROVE Inv'
<1>1. /\ pc[q] \in {"update", "insert", "credential", "commit"} /\ pc' = [pc EXCEPT ![q] = "failed"]
      /\ faults < MaxFaults /\ faults' = faults + 1
      /\ UNCHANGED <<user, cred, next, request, own, seen, owner>>
  BY DEF Fail
<1>2. Typed'
  BY <1>1, AccountsAssumption DEF Inv, Typed, Steps, Holds, InFlight
<1>3. Counted'
  <2>1. Past \subseteq Past' /\ Past' \subseteq Requests
    BY <1>1 DEF Past, Inv, Typed
  <2>. QED BY <2>1, <1>1, CountedKept DEF Inv
<1>4. Drawn' /\ Fresh' /\ Indexed'
  BY <1>1 DEF Inv, Typed, Drawn, Fresh, Indexed, Holds, InFlight
<1>5. Owned' /\ UsersAndCredentialsMatch'
  BY <1>1 DEF Inv, Typed, Owned, UsersAndCredentialsMatch
<1>6. Accepted'
  BY <1>1 DEF Inv, Typed, Accepted, ReturningFacebookUserGetsIn, InFlight
<1>. QED BY <1>2, <1>3, <1>4, <1>5, <1>6 DEF Inv

-----------------------------------------------------------------------------
\* Every step keeps the invariant.
LEMMA NextInv == Inv /\ [Next]_vars => Inv'
<1>. SUFFICES ASSUME Inv, [Next]_vars PROVE Inv'
  OBVIOUS
<1>1. CASE UNCHANGED vars
  <2>1. Past' = Past
    BY <1>1 DEF vars, Past
  <2>. QED BY <1>1, <2>1 DEF vars, Inv, Typed, Counted, Drawn, UsersAndCredentialsMatch, Fresh, Indexed,
               Owned, Accepted, ReturningFacebookUserGetsIn, Holds, InFlight
<1>2. CASE Next
  BY <1>2, SignInInv, LoginEmailInv, RegisterEmailInv, InsertUserInv, InsertCredentialInv, CommitNewInv,
     CommitKnownInv, DeleteAccountInv, EditProfileInv, FailInv DEF Next
<1>. QED BY <1>1, <1>2

LEMMA Safe == Spec => []Inv
BY InitInv, NextInv, PTL DEF Spec

\* The tables and requests keep their types; the sequence is never exhausted
\* (InsertUser in common.go).
THEOREM TypeCorrect == Spec => []TypeOK
<1>1. Inv => TypeOK
  <2>. SUFFICES ASSUME Inv PROVE TypeOK
    OBVIOUS
  <2>1. next \in 1..(Cardinality(Requests) + 1)
    <3>1. Past \in SUBSET Requests
      BY DEF Past
    <3>2. Cardinality(Past) \in Nat /\ Cardinality(Past) <= Cardinality(Requests)
      BY <3>1, AccountsAssumption, FS_Subset, FS_CardinalityType
    <3>. QED BY <3>2, RequestsCounted DEF Inv, Counted
  <2>. QED BY <2>1 DEF Inv, Typed, TypeOK, UserRow, Credential, Steps
<1>. QED BY <1>1, Safe, PTL

\* Every user has one credential and every credential one user, however many
\* first logins of one identity race (facebook.go, google.go, email.go).
THEOREM OneCredentialEach == Spec => []UsersAndCredentialsMatch
<1>1. Inv => UsersAndCredentialsMatch
  BY DEF Inv
<1>. QED BY <1>1, Safe, PTL

\* A request that is let in gets the account its own identity created.
OwnAccount ==
  \A q \in Requests : pc[q] = "ok" => owner[own[q]] = request[q].identity

\* Nobody is let into an account that another identity created.
THEOREM OnlyOwnAccount == Spec => []OwnAccount
<1>1. Inv => OwnAccount
  BY DEF Inv, Owned, OwnAccount
<1>. QED BY <1>1, Safe, PTL

\* A returning Facebook user gets in, whatever is missing of the profile
\* (loginFacebook).
THEOREM FacebookUsersReturn == Spec => []ReturningFacebookUserGetsIn
<1>1. Inv => ReturningFacebookUserGetsIn
  BY DEF Inv, Accepted
<1>. QED BY <1>1, Safe, PTL
-----------------------------------------------------------------------------
(* Refinement: signing in implements Directory.                            *)

\* No id is given twice: the sequence is past those given, and a request that
\* has drawn one has not given it.
Ungiven ==
  /\ \A n \in Ids : owner[n] # None => n < next
  /\ \A q \in Requests : InFlight(q) => owner[own[q]] = None

LEMMA InitUngiven == Init => Ungiven
BY DEF Init, Ungiven, InFlight

LEMMA StepUngiven == Inv /\ Ungiven /\ [Next]_vars => Ungiven'
<1>. SUFFICES ASSUME Inv, Ungiven, [Next]_vars PROVE Ungiven'
  OBVIOUS
<1>1. next \in Nat /\ Ids \subseteq Nat
  BY DEF Inv, Counted, Ids
<1>2. ASSUME UNCHANGED <<next, owner>>, \A q \in Requests : InFlight(q)' => InFlight(q) /\ own'[q] = own[q]
      PROVE  Ungiven'
  BY <1>2 DEF Ungiven
<1>3. ASSUME NEW q \in Requests, NEW i \in Identities, NEW p \in Profiles,
             SignIn(q, i, p) \/ LoginEmail(q, i, p) \/ RegisterEmail(q, i, p)
      PROVE  Ungiven'
  BY <1>2, <1>3 DEF SignIn, LoginEmail, RegisterEmail, Arrive, Inv, Typed, InFlight
<1>4. ASSUME NEW q \in Requests, InsertUser(q) PROVE Ungiven'
  <2>1. next' = next + 1 /\ owner' = owner /\ own' = [own EXCEPT ![q] = next]
    BY <1>4 DEF InsertUser
  <2>2. \A o \in Requests \ {q} : InFlight(o)' => InFlight(o) /\ own'[o] = own[o]
    BY <1>4 DEF InsertUser, Inv, Typed, InFlight
  <2>3. next \in Ids
    BY <1>4, DrawnIsId DEF InsertUser, Inv
  <2>4. owner[next] = None /\ own'[q] = next
    BY <1>1, <2>1, <2>3 DEF Ungiven, Inv, Typed
  <2>. QED BY <1>1, <2>1, <2>2, <2>4 DEF Ungiven
<1>5. ASSUME NEW q \in Requests, InsertCredential(q) \/ CommitKnown(q) \/ Fail(q) PROVE Ungiven'
  BY <1>2, <1>5 DEF InsertCredential, CommitKnown, Fail, Inv, Typed, InFlight
<1>6. ASSUME NEW q \in Requests, CommitNew(q) PROVE Ungiven'
  <2>1. /\ pc[q] = "commit" /\ pc' = [pc EXCEPT ![q] = "ok"]
        /\ owner' = [owner EXCEPT ![own[q]] = request[q].identity] /\ UNCHANGED <<next, own>>
    BY <1>6 DEF CommitNew
  <2>2. own[q] \in Ids /\ own[q] < next
    BY <2>1 DEF Inv, Typed, Drawn, Holds, InFlight
  <2>3. \A o \in Requests : InFlight(o)' => InFlight(o) /\ o # q
    BY <2>1 DEF Inv, Typed, InFlight
  <2>4. \A o \in Requests : InFlight(o)' => own[o] \in Ids /\ own[o] # own[q]
    BY <2>1, <2>3 DEF Inv, Typed, Fresh, Holds, InFlight
  <2>. QED BY <2>1, <2>2, <2>3, <2>4 DEF Ungiven, Inv, Typed
<1>7. ASSUME NEW n \in Ids, DeleteAccount(n) \/ \E e \in Emails, pic \in Pictures : EditProfile(n, e, pic)
      PROVE  Ungiven'
  BY <1>2, <1>7 DEF DeleteAccount, EditProfile, InFlight
<1>8. CASE UNCHANGED vars
  BY <1>2, <1>8 DEF vars, InFlight
<1>. QED BY <1>3, <1>4, <1>5, <1>6, <1>7, <1>8 DEF Next

\* The directory has an account of i exactly where the SELECT finds a row.
LEMMA EntriesOfFound ==
  ASSUME Inv, NEW i \in Identities
  PROVE  /\ \A u \in Found(i) : [identity |-> i, row |-> u] \in D!Of(i)
         /\ \A a \in D!Of(i) : a.row \in Found(i)
<1>1. \A u \in Found(i) : u \in user /\ owner[u.id] = i
  BY DEF Found, Inv, Owned
<1>2. ASSUME NEW a \in D!Of(i) PROVE a.row \in Found(i)
  <2>1. PICK u \in user : a = [identity |-> owner[u.id], row |-> u]
    BY DEF D!Of, Entries
  <2>2. owner[u.id] = i /\ a.row = u
    BY <2>1 DEF D!Of
  <2>3. PICK c \in cred : c.id = u.id
    BY DEF Inv, UsersAndCredentialsMatch
  <2>4. c.identity = i
    BY <2>2, <2>3 DEF Inv, Owned
  <2>. QED BY <2>2, <2>3, <2>4 DEF Found
<1>. QED BY <1>1, <1>2 DEF D!Of, Entries

\* What a step of q alone does to how requests are seen.
LEMMA SeenOfOne ==
  ASSUME Inv, NEW q \in Requests, NEW s \in Steps, pc' = [pc EXCEPT ![q] = s],
         \A o \in Requests \ {q} : own'[o] = own[o],
         NEW seenAs, NEW n, Stage(q)' = seenAs, Into(q)' = n
  PROVE  D!Move(q, seenAs, n)
<1>1. \A o \in Requests \ {q} : pc'[o] = pc[o] /\ Stage(o)' = Stage(o) /\ Into(o)' = Into(o)
  BY DEF Inv, Typed, Stage, Into
<1>. QED BY <1>1 DEF D!Move

\* What changing rows in place does to the directory.
LEMMA EntriesChanged ==
  ASSUME Inv, owner' = owner, NEW n, NEW e \in Emails, NEW pic \in Pictures,
         user' = {IF u.id = n THEN [u EXCEPT !.email = e, !.picture = pic] ELSE u : u \in user}
  PROVE  Entries' = D!Changed(n, e, pic)
<1>. DEFINE edited(u) == IF u.id = n THEN [u EXCEPT !.email = e, !.picture = pic] ELSE u
            row(u) == IF u.id = n THEN [id |-> n, email |-> e, picture |-> pic] ELSE u
            entry(u) == [identity |-> owner[u.id], row |-> u]
            change(a) == [identity |-> a.identity,
                          row |-> IF a.row.id = n THEN [id |-> n, email |-> e, picture |-> pic] ELSE a.row]
<1>1. \A u \in user : u \in UserRow
  BY DEF Inv, Typed
<1>2. ASSUME NEW u \in user PROVE edited(u) = row(u) /\ row(u).id = u.id
  <2>1. u \in UserRow /\ edited(u) \in UserRow /\ row(u) \in UserRow
    BY <1>1 DEF UserRow
  <2>2. /\ edited(u).id = row(u).id /\ row(u).id = u.id
        /\ edited(u).email = row(u).email /\ edited(u).picture = row(u).picture
    BY <2>1 DEF UserRow
  <2>. HIDE DEF edited, row
  <2>3. edited(u) = [id |-> edited(u).id, email |-> edited(u).email, picture |-> edited(u).picture]
    BY <2>1 DEF UserRow
  <2>4. row(u) = [id |-> row(u).id, email |-> row(u).email, picture |-> row(u).picture]
    BY <2>1 DEF UserRow
  <2>. QED BY <2>2, <2>3, <2>4
<1>3. ASSUME NEW u \in user PROVE change(entry(u)) = entry(edited(u))
  <2>1. change(entry(u)) = [identity |-> owner[u.id], row |-> row(u)]
    OBVIOUS
  <2>. HIDE DEF row, edited, change
  <2>. QED BY <1>2, <2>1
<1>4. Entries' = {entry(v) : v \in user'}
  BY DEF Entries
<1>5. D!Changed(n, e, pic) = {change(a) : a \in Entries}
  BY DEF D!Changed
<1>6. Entries = {entry(u) : u \in user}
  BY DEF Entries
<1>7. user' = {edited(u) : u \in user}
  OBVIOUS
<1>. HIDE DEF edited, entry, change, row
<1>8. \A x : x \in Entries' <=> \E u \in user : x = entry(edited(u))
  BY <1>4, <1>7
<1>9. \A x : x \in D!Changed(n, e, pic) <=> \E u \in user : x = change(entry(u))
  BY <1>5, <1>6
<1>. QED BY <1>3, <1>8, <1>9

\* A request that arrives is shown the account of its identity.
LEMMA ArrivalRefines ==
  ASSUME Inv, NEW q \in Requests, NEW i \in Identities, NEW p \in Profiles,
         SignIn(q, i, p) \/ LoginEmail(q, i, p) \/ RegisterEmail(q, i, p)
  PROVE  D!Arrive(q, i, p)
<1>1. /\ pc[q] = "idle" /\ UNCHANGED <<user, owner>>
      /\ \E k \in BOOLEAN : request' = [request EXCEPT ![q] = [identity |-> i, profile |-> p, known |-> k]]
  BY DEF SignIn, LoginEmail, RegisterEmail, Arrive
<1>2. Stage(q) = "idle" /\ Entries' = Entries /\ Given' = Given
  BY <1>1 DEF Stage, Entries, Given
<1>3. [o \in Requests |-> Who(o)]' = [[o \in Requests |-> Who(o)] EXCEPT ![q] = [identity |-> i, profile |-> p]]
  <2>1. PICK k \in BOOLEAN : request' = [request EXCEPT ![q] = [identity |-> i, profile |-> p, known |-> k]]
    BY <1>1
  <2>2. request'[q] = [identity |-> i, profile |-> p, known |-> k] /\ \A o \in Requests \ {q} : request'[o] = request[o]
    BY <2>1 DEF Inv, Typed
  <2>3. Who(q)' = [identity |-> i, profile |-> p] /\ \A o \in Requests \ {q} : Who(o)' = Who(o)
    BY <2>2 DEF Who
  <2>. QED BY <2>3
<1>4. ASSUME NEW u \in Found(i), own' = [own EXCEPT ![q] = u.id], NEW s \in {"update", "ok"},
             pc' = [pc EXCEPT ![q] = s]
      PROVE  /\ [identity |-> i, row |-> u] \in D!Of(i)
             /\ D!Move(q, IF s = "ok" THEN "in" ELSE "open", u.id)
  <2>1. Stage(q)' = (IF s = "ok" THEN "in" ELSE "open") /\ Into(q)' = u.id
    BY <1>4 DEF Stage, Into, Inv, Typed
  <2>2. s \in Steps /\ \A o \in Requests \ {q} : own'[o] = own[o]
    BY <1>4 DEF Steps, Inv, Typed
  <2>3. D!Move(q, IF s = "ok" THEN "in" ELSE "open", u.id)
    BY <1>4, <2>1, <2>2, SeenOfOne
  <2>. QED BY <2>3, EntriesOfFound
<1>5. ASSUME NEW s \in {"insert", "refused", "wrong_password"}, pc' = [pc EXCEPT ![q] = s],
             \A o \in Requests \ {q} : own'[o] = own[o]
      PROVE  D!Move(q, IF s = "insert" THEN "open" ELSE "away", None)
  <2>1. Stage(q)' = (IF s = "insert" THEN "open" ELSE "away") /\ Into(q)' = None
    BY <1>5 DEF Stage, Into, Inv, Typed
  <2>. QED BY <1>5, <2>1, SeenOfOne DEF Steps
<1>6. \/ \E a \in D!Of(i) : D!Move(q, "open", a.row.id) \/ (i.provider = "email" /\ D!Move(q, "in", a.row.id))
      \/ (i.provider = "facebook" => D!Of(i) = {}) /\ D!Move(q, "open", None)
      \/ i.provider = "email" /\ D!Move(q, "away", None)
  <2>1. CASE SignIn(q, i, p)
    <3>1. CASE \E u \in Found(i) : own' = [own EXCEPT ![q] = u.id] /\ pc' = [pc EXCEPT ![q] = "update"]
      <4>1. PICK u \in Found(i) : own' = [own EXCEPT ![q] = u.id] /\ pc' = [pc EXCEPT ![q] = "update"]
        BY <3>1
      <4>2. [identity |-> i, row |-> u] \in D!Of(i) /\ D!Move(q, "open", u.id)
        BY <1>4, <4>1
      <4>. QED BY <4>2
    <3>2. CASE (\A u \in Found(i) : ~Readable(i, u)) /\ pc' = [pc EXCEPT ![q] = "insert"] /\ own' = own
      <4>1. D!Move(q, "open", None)
        BY <1>5, <3>2
      <4>2. i.provider = "facebook" => D!Of(i) = {}
        BY <3>2, EntriesOfFound DEF Readable
      <4>. QED BY <4>1, <4>2
    <3>. QED BY <2>1, <3>1, <3>2 DEF SignIn
  <2>2. CASE LoginEmail(q, i, p)
    <3>1. i.provider = "email"
      BY <2>2 DEF LoginEmail
    <3>2. CASE \E u \in Found(i) : pc' = [pc EXCEPT ![q] = "ok"] /\ own' = [own EXCEPT ![q] = u.id]
      <4>1. PICK u \in Found(i) : own' = [own EXCEPT ![q] = u.id] /\ pc' = [pc EXCEPT ![q] = "ok"]
        BY <3>2
      <4>2. [identity |-> i, row |-> u] \in D!Of(i) /\ D!Move(q, "in", u.id)
        BY <1>4, <4>1
      <4>. QED BY <3>1, <4>2
    <3>3. CASE \E u \in Found(i) : pc' = [pc EXCEPT ![q] = "wrong_password"] /\ own' = [own EXCEPT ![q] = u.id]
      <4>1. \A o \in Requests \ {q} : own'[o] = own[o]
        BY <3>3 DEF Inv, Typed
      <4>2. D!Move(q, "away", None)
        BY <1>5, <3>3, <4>1
      <4>. QED BY <3>1, <4>2
    <3>4. CASE pc' = [pc EXCEPT ![q] = "refused"] /\ own' = own
      <4>1. D!Move(q, "away", None)
        BY <1>5, <3>4
      <4>. QED BY <3>1, <4>1
    <3>. QED BY <2>2, <3>2, <3>3, <3>4 DEF LoginEmail
  <2>3. CASE RegisterEmail(q, i, p)
    <3>1. i.provider = "email" /\ pc' = [pc EXCEPT ![q] = "insert"] /\ own' = own
      BY <2>3 DEF RegisterEmail
    <3>2. D!Move(q, "open", None)
      BY <1>5, <3>1
    <3>. QED BY <3>1, <3>2
  <2>. QED BY <2>1, <2>2, <2>3
<1>. QED BY <1>2, <1>3, <1>6 DEF D!Arrive

\* The commit of a registration is where the account appears.
LEMMA CreationRefines ==
  ASSUME Inv, Ungiven, NEW q \in Requests, CommitNew(q)
  PROVE  own[q] \in Ids /\ D!Create(q, own[q])
<1>. DEFINE i == request[q].identity
            p == request[q].profile
            n == own[q]
            u == [id |-> n, email |-> p.email, picture |-> p.picture]
<1>1. /\ pc[q] = "commit" /\ pc' = [pc EXCEPT ![q] = "ok"] /\ user' = user \cup {u}
      /\ owner' = [owner EXCEPT ![n] = i] /\ UNCHANGED <<request, own>>
  BY DEF CommitNew
<1>2. n \in Ids /\ i \in Identities /\ i # None /\ n # None /\ owner[n] = None /\ p.email # "rejected"
  BY <1>1, AccountsAssumption DEF Inv, Typed, Ungiven, Accepted, Holds, InFlight
<1>3. Stage(q) = "open" /\ Into(q) = None /\ Who(q) = [identity |-> i, profile |-> p] /\ D!Move(q, "in", n)
  <2>1. Stage(q)' = "in" /\ Into(q)' = n
    BY <1>1 DEF Stage, Into, Inv, Typed
  <2>2. D!Move(q, "in", n)
    BY <1>1, <2>1, SeenOfOne DEF Steps
  <2>. QED BY <1>1, <2>2 DEF Stage, Into, Who
<1>4. D!Of(i) = {}
  <2>1. Found(i) = {}
    BY <1>1 DEF Found, Inv, Indexed
  <2>. QED BY <1>2, <2>1, EntriesOfFound
<1>5. n \notin Given /\ Given' = Given \cup {n}
  BY <1>1, <1>2 DEF Given, Inv, Typed
<1>6. Entries' = Entries \cup {[identity |-> i, row |-> u]}
  <2>1. \A v \in user : v.id # n /\ v.id \in Ids
    <3>1. \A v \in user : \E c \in cred : c.id = v.id
      BY DEF Inv, UsersAndCredentialsMatch
    <3>2. \A v \in user : v.id # n
      BY <1>1, <3>1 DEF Inv, Fresh, InFlight
    <3>. QED BY <3>2 DEF Inv, Typed, UserRow
  <2>2. \A v \in user : owner'[v.id] = owner[v.id]
    BY <1>1, <2>1 DEF Inv, Typed
  <2>3. u.id = n /\ owner'[u.id] = i
    BY <1>1, <1>2 DEF Inv, Typed
  <2>. HIDE DEF u, i, n
  <2>. QED BY <1>1, <2>2, <2>3 DEF Entries
<1>7. [o \in Requests |-> Who(o)]' = [o \in Requests |-> Who(o)]
  BY <1>1 DEF Who
<1>. QED BY <1>2, <1>3, <1>4, <1>5, <1>6, <1>7 DEF D!Create

\* A returning user's account is the one it was shown, or is gone.
LEMMA ReturnRefines ==
  ASSUME Inv, NEW q \in Requests, CommitKnown(q)
  PROVE  D!Return(q) \/ D!TurnAway(q)
<1>. DEFINE i == request[q].identity
            p == request[q].profile
            rows == {u \in user : u.id = own[q]}
            new == {Refreshed(q, u) : u \in rows}
<1>1. /\ pc[q] = "update" /\ UNCHANGED <<request, own, owner>>
      /\ \/ pc' = [pc EXCEPT ![q] = "refused"] /\ user' = user
         \/ /\ pc' = [pc EXCEPT ![q] = "ok"] /\ user' = (user \ rows) \cup new
            /\ \A u \in new : u.email # "rejected"
  BY DEF CommitKnown
<1>2. own[q] \in Ids /\ own[q] # None /\ i \in Identities /\ p \in Profiles /\ owner[own[q]] = i
      /\ seen[q] \in UserRow
  BY <1>1, AccountsAssumption DEF Inv, Typed, Owned, Holds
<1>3. Stage(q) = "open" /\ Into(q) = own[q] /\ Who(q) = [identity |-> i, profile |-> p]
  BY <1>1 DEF Stage, Into, Who
<1>4. Given' = Given /\ [o \in Requests |-> Who(o)]' = [o \in Requests |-> Who(o)]
  BY <1>1 DEF Given, Who
<1>5. CASE pc' = [pc EXCEPT ![q] = "refused"] /\ user' = user
  <2>1. Stage(q)' = "away" /\ Into(q)' = None /\ Entries' = Entries
    BY <1>1, <1>5 DEF Stage, Into, Entries, Inv, Typed
  <2>2. D!Move(q, "away", None)
    BY <1>1, <1>5, <2>1, SeenOfOne DEF Steps
  <2>. QED BY <1>3, <1>4, <2>1, <2>2 DEF D!TurnAway
<1>6. CASE /\ pc' = [pc EXCEPT ![q] = "ok"] /\ user' = (user \ rows) \cup new
           /\ \A u \in new : u.email # "rejected"
  <2>1. D!Move(q, "in", own[q])
    <3>1. Stage(q)' = "in" /\ Into(q)' = own[q]
      BY <1>1, <1>6 DEF Stage, Into, Inv, Typed
    <3>. QED BY <1>1, <1>6, <3>1, SeenOfOne DEF Steps
  <2>2. CASE rows = {}
    <3>1. Entries' = Entries
      BY <1>1, <1>6, <2>2 DEF Entries
    <3>2. \A a \in Entries : a.row.id # own[q]
      BY <2>2 DEF Entries
    <3>. QED BY <1>2, <1>3, <1>4, <2>1, <3>1, <3>2 DEF D!Return
  <2>3. ASSUME NEW u \in rows PROVE D!Return(q)
    <3>1. u \in user /\ u.id = own[q] /\ u \in UserRow /\ \A v \in user : v.id = own[q] => v = u
      BY DEF Inv, Typed, UsersAndCredentialsMatch
    <3>2. p.email \in Emails /\ p.picture \in Pictures
      BY <1>2, AccountsAssumption
    <3>3. PICK e \in Emails, pic \in Pictures :
            /\ Refreshed(q, u) = [u EXCEPT !.email = e, !.picture = pic]
            /\ e = u.email \/ (i.provider = "facebook" /\ e = p.email)
            /\ pic \in {u.picture, p.picture}
      <4>1. CASE i.provider = "facebook"
        <5>. DEFINE e == IF seen[q].email = None THEN p.email ELSE u.email
                    pic == IF seen[q].picture = None THEN p.picture ELSE u.picture
        <5>1. Refreshed(q, u) = [u EXCEPT !.email = e, !.picture = pic]
          BY <4>1, <3>1 DEF Refreshed, UserRow
        <5>2. e \in Emails /\ pic \in Pictures
          BY <3>1, <3>2 DEF UserRow
        <5>. QED BY <4>1, <5>1, <5>2
      <4>2. CASE i.provider # "facebook"
        <5>. DEFINE pic == IF p.picture \notin {None, seen[q].picture} THEN p.picture ELSE u.picture
        <5>1. Refreshed(q, u) = [u EXCEPT !.email = u.email, !.picture = pic]
          BY <4>2, <3>1 DEF Refreshed, UserRow
        <5>2. u.email \in Emails /\ pic \in Pictures
          BY <3>1, <3>2 DEF UserRow
        <5>. QED BY <5>1, <5>2
      <4>. QED BY <4>1, <4>2
    <3>4. Refreshed(q, u) \in new /\ e # "rejected"
      BY <1>6, <3>1, <3>3 DEF UserRow
    <3>5. user' = {IF v.id = own[q] THEN [v EXCEPT !.email = e, !.picture = pic] ELSE v : v \in user}
      <4>1. rows = {u}
        BY <3>1
      <4>2. new = {[u EXCEPT !.email = e, !.picture = pic]}
        BY <3>3, <4>1
      <4>3. user' = (user \ {u}) \cup {[u EXCEPT !.email = e, !.picture = pic]}
        BY <1>6, <4>1, <4>2
      <4>. QED BY <3>1, <4>3
    <3>6. Entries' = D!Changed(own[q], e, pic)
      BY <1>1, <3>5, EntriesChanged
    <3>7. [identity |-> i, row |-> u] \in D!Of(i)
      BY <1>2, <3>1 DEF D!Of, Entries
    <3>. QED BY <1>2, <1>3, <1>4, <2>1, <3>1, <3>3, <3>4, <3>6, <3>7 DEF D!Return
  <2>. QED BY <2>2, <2>3
<1>. QED BY <1>1, <1>5, <1>6

\* Every step is one of Directory or changes nothing it sees.
LEMMA DirectoryStep == Inv /\ Ungiven /\ [Next]_vars => [D!DNext]_(D!dvars)
<1>. SUFFICES ASSUME Inv, Ungiven, [Next]_vars PROVE D!DNext \/ UNCHANGED D!dvars
  OBVIOUS
<1>1. ASSUME NEW q \in Requests, NEW i \in Identities, NEW p \in Profiles,
             SignIn(q, i, p) \/ LoginEmail(q, i, p) \/ RegisterEmail(q, i, p)
      PROVE  D!DNext
  BY <1>1, ArrivalRefines DEF D!DNext
<1>2. ASSUME UNCHANGED <<user, owner, request>>,
             \A q \in Requests : Stage(q)' = Stage(q) /\ Into(q)' = Into(q)
      PROVE  UNCHANGED D!dvars
  BY <1>2 DEF D!dvars, Entries, Given, Who
<1>3. ASSUME NEW q \in Requests, UNCHANGED <<user, owner, request>>, own' = own,
             Stage(q) = "open", NEW s \in {"refused", "failed"}, pc' = [pc EXCEPT ![q] = s]
      PROVE  D!DNext
  <2>1. Stage(q)' = "away" /\ Into(q)' = None
    BY <1>3 DEF Stage, Into, Inv, Typed
  <2>2. D!Move(q, "away", None)
    BY <1>3, <2>1, SeenOfOne DEF Steps
  <2>3. Entries' = Entries /\ Given' = Given /\ [o \in Requests |-> Who(o)]' = [o \in Requests |-> Who(o)]
    BY <1>3 DEF Entries, Given, Who
  <2>4. D!TurnAway(q)
    BY <1>3, <2>1, <2>2, <2>3 DEF D!TurnAway
  <2>. QED BY <2>4 DEF D!DNext
<1>4. ASSUME NEW q \in Requests, InsertUser(q) PROVE D!DNext \/ UNCHANGED D!dvars
  <2>1. /\ pc[q] = "insert" /\ own' = [own EXCEPT ![q] = next] /\ UNCHANGED <<user, owner, request>>
        /\ pc' = [pc EXCEPT ![q] = "refused"] \/ pc' = [pc EXCEPT ![q] = "credential"]
    BY <1>4 DEF InsertUser
  <2>2. CASE pc' = [pc EXCEPT ![q] = "refused"]
    <3>1. \A o \in Requests \ {q} : own'[o] = own[o]
      BY <2>1 DEF Inv, Typed
    <3>2. Stage(q) = "open" /\ Stage(q)' = "away" /\ Into(q)' = None
      BY <2>1, <2>2 DEF Stage, Into, Inv, Typed
    <3>3. D!Move(q, "away", None)
      BY <2>2, <3>1, <3>2, SeenOfOne DEF Steps
    <3>4. Entries' = Entries /\ Given' = Given /\ [o \in Requests |-> Who(o)]' = [o \in Requests |-> Who(o)]
      BY <2>1 DEF Entries, Given, Who
    <3>5. D!TurnAway(q)
      BY <3>2, <3>3, <3>4 DEF D!TurnAway
    <3>. QED BY <3>5 DEF D!DNext
  <2>3. CASE pc' = [pc EXCEPT ![q] = "credential"]
    <3>1. \A o \in Requests : Stage(o)' = Stage(o) /\ Into(o)' = Into(o)
      BY <2>1, <2>3 DEF Stage, Into, Inv, Typed
    <3>. QED BY <1>2, <2>1, <3>1
  <2>. QED BY <2>1, <2>2, <2>3
<1>5. ASSUME NEW q \in Requests, InsertCredential(q) PROVE D!DNext \/ UNCHANGED D!dvars
  <2>1. /\ pc[q] = "credential" /\ own' = own /\ UNCHANGED <<user, owner, request>>
        /\ pc' = [pc EXCEPT ![q] = "refused"] \/ pc' = [pc EXCEPT ![q] = "commit"]
    BY <1>5 DEF InsertCredential
  <2>2. Stage(q) = "open"
    BY <2>1 DEF Stage
  <2>3. CASE pc' = [pc EXCEPT ![q] = "commit"]
    <3>1. \A o \in Requests : Stage(o)' = Stage(o) /\ Into(o)' = Into(o)
      BY <2>1, <2>3 DEF Stage, Into, Inv, Typed
    <3>. QED BY <1>2, <2>1, <3>1
  <2>. QED BY <1>3, <2>1, <2>2, <2>3
<1>6. ASSUME NEW q \in Requests, CommitNew(q) PROVE D!DNext
  BY <1>6, CreationRefines DEF D!DNext
<1>7. ASSUME NEW q \in Requests, CommitKnown(q) PROVE D!DNext
  BY <1>7, ReturnRefines DEF D!DNext
<1>8. ASSUME NEW q \in Requests, Fail(q) PROVE D!DNext
  <2>1. Stage(q) = "open"
    BY <1>8 DEF Fail, Stage
  <2>. QED BY <1>3, <1>8, <2>1 DEF Fail
<1>9. ASSUME NEW n \in Ids, DeleteAccount(n) PROVE D!DNext
  <2>1. user' = {u \in user : u.id # n} /\ UNCHANGED <<owner, pc, request, own>>
    BY <1>9 DEF DeleteAccount
  <2>2. Entries' = {a \in Entries : a.row.id # n}
    BY <2>1 DEF Entries
  <2>3. D!Delete(n)
    BY <2>1, <2>2 DEF D!Delete, Given, Stage, Into, Who
  <2>. QED BY <2>3 DEF D!DNext
<1>10. ASSUME NEW n \in Ids, NEW e \in Emails, NEW pic \in Pictures, EditProfile(n, e, pic) PROVE D!DNext
  <2>1. /\ e # "rejected" /\ UNCHANGED <<owner, pc, request, own>>
        /\ user' = {IF u.id = n THEN [u EXCEPT !.email = e, !.picture = pic] ELSE u : u \in user}
    BY <1>10 DEF EditProfile
  <2>2. Entries' = D!Changed(n, e, pic)
    BY <2>1, EntriesChanged
  <2>3. D!Edit(n, e, pic)
    BY <2>1, <2>2 DEF D!Edit, Given, Stage, Into, Who
  <2>. QED BY <2>3 DEF D!DNext
<1>11. CASE UNCHANGED vars
  BY <1>11, <1>2 DEF vars, Stage, Into
<1>. QED BY <1>1, <1>4, <1>5, <1>6, <1>7, <1>8, <1>9, <1>10, <1>11 DEF Next

\* Signing in, as the tables and transactions do it, behaves as Directory says
\* (loginFacebook, loginGoogle, loginEmail, registerEmail, DeleteAccount).
THEOREM SignInsAreOneStep == Spec => ImplementsDirectory
<1>1. Init => D!DInit
  BY DEF Init, NoRequest, D!DInit, Entries, Given, Stage, Into, Who
<1>2. Spec => []Ungiven
  BY InitUngiven, StepUngiven, Safe, PTL DEF Spec
<1>. QED BY <1>1, <1>2, DirectoryStep, Safe, PTL DEF Spec, ImplementsDirectory, D!DSpec
=============================================================================
