-------------------------- MODULE ExactlyOnceView --------------------------
(***************************************************************************)
(* What a windowed query promises to the readers of its table: every row   *)
(* is the exact count of its group over a set of records that only grows,  *)
(* and a record enters that set in the same step as it enters its rows.    *)
(* Selective queries publish a choice of the rows only.                    *)
(***************************************************************************)
EXTENDS FiniteSets

CONSTANTS Views,     \* the queries
          Selective  \* those that publish only some of their rows

VARIABLES records,   \* records[q][i]: the rows that record i counts in
          counted,   \* counted[q]: the records taken into account
          rows       \* rows[q]: the table

vars == <<records, counted, rows>>

Tally(q, S, k) == Cardinality({i \in S : k \in records[q][i]})

Init ==
  /\ counted = [q \in Views |-> {}]
  /\ rows = [q \in Views |-> <<>>]

\* The records new are taken into account and the rows of K are published.
Publish(q, new, K) ==
  /\ q \notin Selective => UNION {records[q][i] : i \in new} \subseteq K
  /\ counted' = [counted EXCEPT ![q] = @ \union new]
  /\ rows' = [rows EXCEPT ![q] =
       [k \in DOMAIN @ \union K |->
          IF k \in K THEN Tally(q, counted[q] \union new, k) ELSE @[k]]]

\* new and K are what the step adds and changes.
Step ==
  /\ UNCHANGED records
  /\ \E q \in Views :
       LET new == counted'[q] \ counted[q]
           changed == {k \in DOMAIN rows'[q] :
                         k \in DOMAIN rows[q] => rows'[q][k] # rows[q][k]}
       IN Publish(q, new, changed)

Spec == Init /\ [][Step]_vars
=============================================================================
