----------------------------- MODULE TableCell -----------------------------
(***************************************************************************)
(* What the table cache promises (tableCache.ts), without bytes: one cell  *)
(* that keeps the tables of one call under the call's key.  A call is      *)
(* answered from the cell only under its own key; while the cell is being  *)
(* written, or was left half written, nothing is known of the answer.      *)
(***************************************************************************)
CONSTANTS
  Callers,       \* those who call makeCachedParser, one call of each at a time
  Subjects,      \* what tables are built from: a grammar, options and an engine
  KeyOf(_),      \* what the cell is compared by, apart from the stamps
  Stamps,        \* what is known of the sources
  Built(_)       \* the tables of a subject

VARIABLES
  cell,      \* [is |-> "none"], "damaged", or "kept" with key, stamps and tables
  asked,     \* of a caller: [is |-> "nothing"], or "call" with subject and stamps
  answer     \* of a caller: [is |-> "nothing"], "garbage", or "tables"

cellVars == <<cell, asked, answer>>

Nothing == [is |-> "nothing"]
NoCell == [is |-> "none"]
Damaged == [is |-> "damaged"]
Garbage == [is |-> "garbage"]
Call(g, s) == [is |-> "call", subject |-> g, stamps |-> s]
Given(t) == [is |-> "tables", tables |-> t]
Kept(c) == [is |-> "kept", key |-> KeyOf(c.subject), stamps |-> c.stamps, tables |-> Built(c.subject)]

CellInit ==
  /\ cell = NoCell
  /\ asked = [p \in Callers |-> Nothing]
  /\ answer = [p \in Callers |-> Nothing]

Ask(p) ==
  /\ asked[p] = Nothing
  /\ \E g \in Subjects, s \in Stamps : asked' = [asked EXCEPT ![p] = Call(g, s)]
  /\ UNCHANGED <<cell, answer>>

Waiting(p) == asked[p] # Nothing /\ answer[p] = Nothing

Hit(p) ==
  /\ Waiting(p)
  /\ cell.is = "kept"
  /\ cell.key = KeyOf(asked[p].subject) /\ cell.stamps = asked[p].stamps
  /\ answer' = [answer EXCEPT ![p] = Given(cell.tables)]
  /\ UNCHANGED <<cell, asked>>

HitOfDamaged(p) ==
  /\ Waiting(p)
  /\ cell = Damaged
  /\ answer' = [answer EXCEPT ![p] = Garbage]
  /\ UNCHANGED <<cell, asked>>

Build(p) ==
  /\ Waiting(p)
  /\ answer' = [answer EXCEPT ![p] = Given(Built(asked[p].subject))]
  /\ UNCHANGED <<cell, asked>>

(* The cell is being written, or was written by someone else.               *)
Damage ==
  /\ cell' = Damaged
  /\ UNCHANGED <<asked, answer>>

Save(p) ==
  /\ asked[p] # Nothing
  /\ answer[p] = Given(Built(asked[p].subject))
  /\ cell' = Kept(asked[p])
  /\ UNCHANGED <<asked, answer>>

Return(p) ==
  /\ asked[p] # Nothing
  /\ asked' = [asked EXCEPT ![p] = Nothing]
  /\ answer' = [answer EXCEPT ![p] = Nothing]
  /\ UNCHANGED cell

CellNext == \/ Damage
            \/ \E p \in Callers : \/ Ask(p) \/ Hit(p) \/ HitOfDamaged(p) \/ Build(p)
                                  \/ Save(p) \/ Return(p)
CellSpec == CellInit /\ [][CellNext]_cellVars

(* Where a key says which tables are meant, every answer that is not        *)
(* garbage is that of the call's own grammar, options and engine.           *)
KeysTell == \A g, h \in Subjects : KeyOf(g) = KeyOf(h) => Built(g) = Built(h)
AnswersOwnTables ==
  KeysTell => \A p \in Callers :
    answer[p].is = "tables" => answer[p] = Given(Built(asked[p].subject))
=============================================================================
