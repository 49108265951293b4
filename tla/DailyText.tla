------------------------------ MODULE DailyText ------------------------------
(***************************************************************************)
(* What the daily summary is made of, as operators: the subjects of the    *)
(* home, the events that mention them, and the subject sections that are   *)
(* published for whatever the language model answers.                      *)
(*                                                                         *)
(* The subjects of a home are the names of its enabled members and pets,   *)
(* which KnownSubjects lists; nothing keeps two of them from having one    *)
(* name.  The evidence of a day is the sequence of names its events        *)
(* mention (one entry for each recognised entity of an event); names that  *)
(* belong to nobody may be among them.  A section is a name and its        *)
(* activity; wording is left out.                                          *)
(*                                                                         *)
(* The code's loops and sorts are given by what they return, a part of a   *)
(* sequence in an order: that an element comes before another can be       *)
(* reasoned about without an induction over a fold.                        *)
(***************************************************************************)
EXTENDS Integers, Sequences, FiniteSets, SequencesExt

Section(name, activity) == [name |-> name, activity |-> activity]
Names(sections) == {sections[i].name : i \in DOMAIN sections}

\* The members of a finite set in a strict total order, a set of pairs.
Ranked(S, order) ==
  [k \in 1..Cardinality(S) |->
     CHOOSE i \in S : Cardinality({j \in S : <<j, i>> \in order}) = k - 1]

\* The elements of s at the positions S, in an order of the positions.
Arranged(s, S, order) ==
  [k \in 1..Cardinality(S) |-> s[Ranked(S, order)[k]]]

\* [x for x in s if ...]
Kept(s, S) == Arranged(s, S, {p \in S \X S : p[1] < p[2]})

Firsts(s) == {i \in DOMAIN s : \A j \in DOMAIN s : j < i => s[j] # s[i]}

\* list.sort(key=activity, reverse=True), which is stable.
ActivityOrder(sections) ==
  {p \in (DOMAIN sections) \X (DOMAIN sections) :
     \/ sections[p[1]].activity > sections[p[2]].activity
     \/ sections[p[1]].activity = sections[p[2]].activity /\ p[1] < p[2]}

ByActivity(sections) ==
  Arranged(sections, DOMAIN sections, ActivityOrder(sections))

-----------------------------------------------------------------------------
(* The evidence *)

Blank == ""

\* list_entities without the disabled ones, of one kind; a blank name is
\* dropped by build_known_subjects.
Listed(entities, kind) ==
  {i \in DOMAIN entities : /\ entities[i].enabled
                           /\ entities[i].kind = kind
                           /\ entities[i].name # Blank}

\* build_known_subjects on build_home_context: the members, then the pets.
KnownSubjects(entities) ==
  LET listed == Kept(entities, Listed(entities, "member"))
                  \o Kept(entities, Listed(entities, "pet"))
  IN  [i \in DOMAIN listed |-> listed[i].name]

Mentions(events, name) == Cardinality({i \in DOMAIN events : events[i] = name})

\* build_subject_event_mapping: a section for each known name that occurs,
\* in the order of its first mention, and then by activity.
ObservedSections(home, events) ==
  LET known == Kept(events, {i \in Firsts(events) : events[i] \in ToSet(home)})
  IN  ByActivity([i \in DOMAIN known |->
                    Section(known[i], Mentions(events, known[i]))])

MissingSubjects(home, events) ==
  LET observed == Names(ObservedSections(home, events))
  IN  Kept(home, {i \in DOMAIN home : home[i] \notin observed})

-----------------------------------------------------------------------------
(* One call for each subject *)

\* Seeded fault: the subjects without an event are not appended.
SerialSectionsObserved(home, events) == ObservedSections(home, events)

\* The compressed sections of the subjects with events, then one without
\* activity for each subject that is missing.
SerialSections(home, events) ==
  LET missing == MissingSubjects(home, events)
  IN  ByActivity(ObservedSections(home, events)
                   \o [i \in DOMAIN missing |-> Section(missing[i], 0)])

-----------------------------------------------------------------------------
(* One call for all *)

\* complete_subject_sections: what the model wrote about, its activity taken
\* from the evidence, then a stub for each known name it left out.
CompleteSections(answer, home, events) ==
  LET left == Kept(home, {i \in Firsts(home) : home[i] \notin ToSet(answer)})
      named == answer \o left
  IN  ByActivity([i \in DOMAIN named |->
                    Section(named[i],
                            IF named[i] \in ToSet(home)
                              THEN Mentions(events, named[i]) ELSE 0)])

=============================================================================
