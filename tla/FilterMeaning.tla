---------------------------- MODULE FilterMeaning ----------------------------
(***************************************************************************)
(* What a filter means: an AND of operands, of which OR joins those on its *)
(* two sides, NOT negates the next one and parentheses make one of several *)
(* (test/filter.cpp).  A filter that is being typed means what it would if *)
(* its open parentheses were closed.  A meaning is the set of the rows of  *)
(* Universe that match.                                                    *)
(***************************************************************************)
EXTENDS Naturals, Sequences

CONSTANT Universe

VARIABLES
  levels, \* one for each open parenthesis, and the whole first
  negate, \* NOT was typed
  join    \* OR was typed

meaning == <<levels, negate, join>>

\* operands: the rows that match all of the operands before the last one, last:
\* those that match the last one; not and or: what came before the parenthesis.
Level(not, or) == [operands |-> Universe, last |-> Universe, not |-> not,
                   or |-> or, empty |-> TRUE]

MeaningInit ==
  /\ levels = <<Level(FALSE, FALSE)>>
  /\ negate = FALSE
  /\ join = FALSE

Negated(not, rows) == IF not THEN Universe \ rows ELSE rows

WithOperand(level, or, rows) ==
  [level EXCEPT !.operands = IF or THEN @ ELSE @ \cap level.last,
                !.last = IF or THEN @ \cup rows ELSE rows,
                !.empty = FALSE]

LevelRows(level) == Negated(level.not, level.operands \cap level.last)

\* The rows that match with the levels from the n-th on closed.
Meaning ==
  LET Of[n \in 1..Len(levels)] ==
        IF n = Len(levels) THEN LevelRows(levels[n])
        ELSE LevelRows(WithOperand(levels[n], levels[n + 1].or, Of[n + 1]))
  IN Of[1]

Top == levels[Len(levels)]

AddOperand(rows) ==
  /\ levels' = [levels EXCEPT ![Len(levels)] = WithOperand(@, join, Negated(negate, rows))]
  /\ negate' = FALSE
  /\ join' = FALSE

AddNot ==
  /\ negate' = ~negate
  /\ UNCHANGED <<levels, join>>

AddOr ==
  /\ join' = ~Top.empty
  /\ UNCHANGED <<levels, negate>>

OpenLevel ==
  /\ levels' = Append(levels, Level(negate, join))
  /\ negate' = FALSE
  /\ join' = FALSE

CloseLevel ==
  /\ levels' = IF Len(levels) = 1 THEN levels
               ELSE LET n == Len(levels) - 1
                    IN SubSeq([levels EXCEPT ![n] = WithOperand(@, Top.or, LevelRows(Top))], 1, n)
  /\ UNCHANGED <<negate, join>>
=============================================================================
