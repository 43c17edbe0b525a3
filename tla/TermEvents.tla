------------------------------ MODULE TermEvents ------------------------------
(***************************************************************************)
(* How the importer makes terms of the university's important dates        *)
(* (flow/importer/uw/parts/term): the details of the events "Classes       *)
(* begin" and "Classes end", matched by their terms, go into table term.   *)
(***************************************************************************)
EXTENDS Naturals, Sequences, FiniteSets, Places

CONSTANTS
  Term,         \* ids of terms
  Day,          \* dates
  Unreadable    \* a term's name or a date that does not parse

ASSUME EventAssumption == Unreadable \notin Term \cup Day

Detail == [event: {"begin", "end", "other"}, term: Term \cup {Unreadable}, date: Day \cup {Unreadable}]

Begins(details) == {i \in 1..Len(details) : details[i].event = "begin"}
Ends(details) == {i \in 1..Len(details) : details[i].event = "end"}

\* termEndDate: a later end of a term replaces an earlier one.
EndOf(details, t) ==
  LET ends == {i \in Ends(details) : details[i].term = t} IN
  IF ends = {} THEN {} ELSE {details[LastPlace(ends)].date}

\* Faulty variant: a term without an end is left with the day it starts.
ConvertLenient(details) ==
  [ok |-> TRUE, terms |-> [i \in Begins(details) |->
     LET end == EndOf(details, details[i].term) IN
     [id |-> details[i].term, start |-> details[i].date,
      end |-> IF end = {} THEN details[i].date ELSE CHOOSE e \in end : TRUE]]]
\* convertAll: a term for each place where classes begin.
ConvertAll(details) ==
  IF \/ \E i \in Begins(details) \cup Ends(details) : details[i].term = Unreadable
     \/ \E i \in Begins(details) :
          LET end == EndOf(details, details[i].term) IN end = {} \/ Unreadable \in {details[i].date} \cup end
  THEN [ok |-> FALSE]
  ELSE [ok |-> TRUE, terms |-> [i \in Begins(details) |->
          [id |-> details[i].term, start |-> details[i].date,
           end |-> CHOOSE e \in EndOf(details, details[i].term) : TRUE]]]

\* insertAll: the rows of table term, by id, as the transaction may leave them.
\* Two new terms of one id violate the key; of two for a term that is there, the
\* UPDATE takes either.  An import that fails leaves the table alone.
Imported(table, details) ==
  LET got == ConvertAll(details)
      rows(t) == {i \in Begins(details) : got.terms[i].id = t}
      dates(t) == {[start |-> got.terms[i].start, end |-> got.terms[i].end] : i \in rows(t)} IN
  IF ~got.ok THEN {table}
  ELSE IF \E t \in Term \ DOMAIN table : Cardinality(rows(t)) > 1 THEN {table}
  ELSE LET ids == DOMAIN table \cup {t \in Term : rows(t) # {}} IN
       {new \in [ids -> [start: Day, end: Day]] :
          \A t \in ids : IF rows(t) = {} THEN new[t] = table[t] ELSE new[t] \in dates(t)}

-----------------------------------------------------------------------------
\* The details that name a term again or without its other half, or cannot be read.
Flawless(details) ==
  \A i \in 1..Len(details) :
    details[i].event # "other" =>
      /\ Unreadable \notin {details[i].term, details[i].date}
      /\ Cardinality({j \in 1..Len(details) : details[j].event = details[i].event /\ details[j].term = details[i].term}) = 1
      /\ details[i].event = "begin" => \E j \in 1..Len(details) :
           details[j].event = "end" /\ details[j].term = details[i].term

(* An import takes all terms or none.  It takes those of a list in which   *)
(* every start is readable and has its end, whatever the order and however *)
(* many ends come without a start; each row then has a start and an end    *)
(* that were announced for its own term.  No term is ever lost.            *)
TermsOfTheirEvents(table, details) ==
  \A new \in Imported(table, details) :
    /\ DOMAIN table \subseteq DOMAIN new
    /\ new # table =>
         \A i \in 1..Len(details) : details[i].event = "begin" => details[i].term \in DOMAIN new
    /\ Flawless(details) => \A i, j \in 1..Len(details) :
         details[i].event = "begin" /\ details[j].event = "end" /\ details[i].term = details[j].term =>
           details[i].term \in DOMAIN new /\ new[details[i].term] = [start |-> details[i].date, end |-> details[j].date]
    /\ \A t \in DOMAIN new :
         \/ t \in DOMAIN table /\ new[t] = table[t]
         \/ \E i, j \in 1..Len(details) :
              /\ details[i] = [event |-> "begin", term |-> t, date |-> new[t].start]
              /\ details[j] = [event |-> "end", term |-> t, date |-> new[t].end]
=============================================================================
