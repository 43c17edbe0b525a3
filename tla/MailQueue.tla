------------------------------ MODULE MailQueue ------------------------------
(***************************************************************************)
(* What the email service promises about the queue tables, without         *)
(* Postgres.  Writers put items into the queue and withdraw them, whether  *)
(* they are still queued or retired.  The service takes a batch of queued  *)
(* items, tells them one by one, settles queued items, and retires what it *)
(* has settled between two batches.  It settles only an item that was told *)
(* or is covered by one that was, or that is alike a retired one at that   *)
(* moment.  It may skip items of the batch and drop what it has settled,   *)
(* all of it when it stops, and an item may be withdrawn or replaced while *)
(* it is in a batch, but not while it is settled.                          *)
(***************************************************************************)
CONSTANTS
  Items,       \* everything that can be queued
  Covers(_,_)  \* Covers(j, i): telling j is as good as telling i

VARIABLES
  queued,   \* items waiting
  retired,  \* items done with and still on record
  batch,    \* items taken and not yet told
  settled,  \* queued items that the next retirement takes
  told,     \* items told so far
  alike     \* pairs of items of which only one needs to be told

mvars == <<queued, retired, batch, settled, told, alike>>

MInit ==
  /\ queued = {} /\ retired = {} /\ batch = {}
  /\ settled = {} /\ told = {} /\ alike = {}

\* Writers change the queue as they like, and what is alike, but they neither
\* retire an item nor withdraw a settled one.
Write ==
  /\ queued' \subseteq Items
  /\ settled \subseteq queued'
  /\ retired' \subseteq retired
  /\ UNCHANGED <<batch, settled, told>>

Take ==
  /\ batch' \subseteq queued
  /\ UNCHANGED <<queued, retired, settled, told, alike>>

Tell(i) ==
  /\ batch' = batch \ {i}
  /\ told' = told \cup {i}
  /\ UNCHANGED <<queued, retired, settled, alike>>

\* The queued items that may leave: told, or alike one that has left.
Due ==
  {i \in queued : \/ \E j \in told : Covers(j, i)
                  \/ \E j \in retired : <<i, j>> \in alike}

Settle ==
  /\ settled \subseteq settled'
  /\ settled' \subseteq settled \cup Due
  /\ UNCHANGED <<queued, retired, batch, told, alike>>

Skip ==
  /\ batch' \subseteq batch
  /\ settled' \in {settled, {}}
  /\ UNCHANGED <<queued, retired, told, alike>>

\* Between batches the settled items leave the queue, all of them.
Retire ==
  /\ batch = {}
  /\ queued' = queued \ settled
  /\ retired' = retired \cup settled
  /\ settled' = {}
  /\ UNCHANGED <<batch, told, alike>>

MNext == Write \/ Take \/ (\E i \in batch : Tell(i)) \/ Settle \/ Skip \/ Retire

MSpec == MInit /\ [][MNext]_mvars
=============================================================================
