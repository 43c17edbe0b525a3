----------------------------- MODULE MCAccounts -----------------------------
(* Identities and profiles for TLC. *)
EXTENDS Accounts, TLC

Id(p, n) == [provider |-> p, name |-> n]
P(e, pic) == [email |-> e, picture |-> pic]

\* The same name with every provider.
OneName == {Id("email", "ann"), Id("facebook", "ann"), Id("google", "ann")}

\* With and without an address, with one the schema refuses, and the register
\* form, which has no picture.
Mixed == {P("good", "one"), P(None, "one"), P("rejected", "one"), P("good", None)}

RequestSymmetry == Permutations(Requests)
=============================================================================
