----------------------------- MODULE Directory -----------------------------
(***************************************************************************)
(* What signing in promises, without tables and transactions: a directory  *)
(* with one account for each identity, under an id that is given once.  A  *)
(* request comes, is shown the account of its identity if there is one,    *)
(* and in one step ends in that account, or in a new one, or is turned     *)
(* away.  An account may be deleted while a request is shown it.           *)
(***************************************************************************)
CONSTANTS
  Identities,  \* records [provider, name]
  Profiles,    \* what a provider or a form says: [email, picture]
  Requests,
  Ids, Emails, Pictures,
  None         \* NULL

VARIABLES
  accounts,  \* [identity, row], where row is [id, email, picture]
  given,     \* ids there have been accounts under
  stage,     \* per request: "idle", "open", "in" or "away"
  who,       \* per request: its identity and profile
  into       \* per request: the account it is shown or let into

dvars == <<accounts, given, stage, who, into>>

DInit ==
  /\ accounts = {} /\ given = {}
  /\ stage = [q \in Requests |-> "idle"]
  /\ who = [q \in Requests |-> [identity |-> None, profile |-> None]]
  /\ into = [q \in Requests |-> None]

Of(i) == {a \in accounts : a.identity = i}

Move(q, s, n) == stage' = [stage EXCEPT ![q] = s] /\ into' = [into EXCEPT ![q] = n]

\* A Facebook login is always shown the account that is there.
Arrive(q, i, p) ==
  /\ stage[q] = "idle"
  /\ who' = [who EXCEPT ![q] = [identity |-> i, profile |-> p]]
  /\ \/ \E a \in Of(i) : Move(q, "open", a.row.id) \/ (i.provider = "email" /\ Move(q, "in", a.row.id))
     \/ (i.provider = "facebook" => Of(i) = {}) /\ Move(q, "open", None)
     \/ i.provider = "email" /\ Move(q, "away", None)
  /\ UNCHANGED <<accounts, given>>

\* The accounts, with another address and picture under the id n.
Changed(n, e, pic) ==
  {[identity |-> a.identity,
    row |-> IF a.row.id = n THEN [id |-> n, email |-> e, picture |-> pic] ELSE a.row] : a \in accounts}

\* Only what the provider says goes into the account, and Google has no say in
\* the address.
Return(q) ==
  /\ stage[q] = "open" /\ into[q] # None /\ Move(q, "in", into[q])
  /\ \/ \E a \in Of(who[q].identity), e \in Emails, pic \in Pictures :
          /\ a.row.id = into[q] /\ e # "rejected"
          /\ e = a.row.email \/ (who[q].identity.provider = "facebook" /\ e = who[q].profile.email)
          /\ pic \in {a.row.picture, who[q].profile.picture}
          /\ accounts' = Changed(into[q], e, pic)
     \/ (\A a \in accounts : a.row.id # into[q]) /\ UNCHANGED accounts
  /\ UNCHANGED <<given, who>>

\* The identity has no account, and the id never had one.
Create(q, n) ==
  /\ stage[q] = "open" /\ into[q] = None /\ Move(q, "in", n)
  /\ Of(who[q].identity) = {} /\ who[q].profile.email # "rejected"
  /\ n \notin given /\ given' = given \cup {n}
  /\ accounts' = accounts \cup
       {[identity |-> who[q].identity,
         row |-> [id |-> n, email |-> who[q].profile.email, picture |-> who[q].profile.picture]]}
  /\ UNCHANGED who

TurnAway(q) ==
  /\ stage[q] = "open" /\ Move(q, "away", None)
  /\ UNCHANGED <<accounts, given, who>>

Delete(n) == accounts' = {a \in accounts : a.row.id # n} /\ UNCHANGED <<given, stage, who, into>>

Edit(n, e, pic) ==
  /\ e # "rejected" /\ accounts' = Changed(n, e, pic)
  /\ UNCHANGED <<given, stage, who, into>>

DNext ==
  \/ \E q \in Requests :
       \/ \E i \in Identities, p \in Profiles : Arrive(q, i, p)
       \/ Return(q) \/ (\E n \in Ids : Create(q, n)) \/ TurnAway(q)
  \/ \E n \in Ids : Delete(n) \/ \E e \in Emails, pic \in Pictures : Edit(n, e, pic)

DSpec == DInit /\ [][DNext]_dvars
=============================================================================
