------------------------------ MODULE Timeline ------------------------------
(***************************************************************************)
(* What undo and redo promise the user, without stacks: a document has a   *)
(* history of states and a position in it.  Undo and redo only move the    *)
(* position.  A command that starts a new undo step forgets everything     *)
(* after the position; a command that does not start one rewrites the      *)
(* state at the position and nothing else.                                 *)
(***************************************************************************)
EXTENDS Integers, Sequences

CONSTANTS
  State,   \* every state a document can be in
  Limit    \* the most states a history remembers, 2 or more

VARIABLES
  history, \* the states, oldest first
  pos      \* the index of the present state

vars == <<history, pos>>

TypeOK ==
  /\ history \in Seq(State)
  /\ Len(history) \in 1 .. Limit
  /\ pos \in 1 .. Len(history)

Init == history \in [{1} -> State] /\ pos = 1

(* The oldest states fall off when a full history grows. *)
Dropped == IF pos < Limit THEN 0 ELSE pos + 1 - Limit

Branch ==
  /\ pos' = pos + 1 - Dropped
  /\ history' \in Seq(State)
  /\ Len(history') = pos'
  /\ \A i \in 1 .. pos - Dropped : history'[i] = history[i + Dropped]

Amend ==
  /\ pos' = pos
  /\ history' \in Seq(State)
  /\ Len(history') = Len(history)
  /\ \A i \in 1 .. Len(history) : i # pos => history'[i] = history[i]

Back    == pos > 1 /\ pos' = pos - 1 /\ history' = history

Forward == pos < Len(history) /\ pos' = pos + 1 /\ history' = history

Restart == history' \in [{1} -> State] /\ pos' = 1

Next == Branch \/ Amend \/ Back \/ Forward \/ Restart

Spec == Init /\ [][Next]_vars
=============================================================================
