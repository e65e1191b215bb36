----------------------------- MODULE GasBudget -----------------------------
(***************************************************************************)
(* What calls promise about gas, whatever the frames do with it: a message *)
(* comes with a budget, a frame may spend it or hand a part of what is     *)
(* left to a message of its own, and gets back at most what it handed out. *)
(* No gas comes from nowhere.                                              *)
(***************************************************************************)
EXTENDS Integers, Sequences

VARIABLES
    budgets,    \* for every frame, the gas that it holds itself
    returned    \* the gas left when the outermost message is done, or -1

vars == <<budgets, returned>>

Init == budgets = << >> /\ returned = -1

depth == Len(budgets)
Below == SubSeq(budgets, 1, depth - 1)

Start ==
    /\ depth = 0 /\ returned = -1
    /\ \/ budgets' \in Seq(Nat) /\ Len(budgets') = 1 /\ UNCHANGED returned
       \/ returned' \in Nat /\ UNCHANGED budgets

Spend ==
    /\ depth > 0
    /\ \E left \in 0..budgets[depth] : budgets' = Append(Below, left)
    /\ UNCHANGED returned

Open ==
    /\ depth > 0
    /\ \E kept, given \in 0..budgets[depth] :
          /\ kept + given <= budgets[depth]
          /\ budgets' = Below \o <<kept, given>>
    /\ UNCHANGED returned

Close ==
    /\ depth > 1
    /\ \E left \in 0..budgets[depth] :
          budgets' = [Below EXCEPT ![depth - 1] = @ + left]
    /\ UNCHANGED returned

Finish ==
    /\ depth = 1
    /\ returned' \in 0..budgets[1]
    /\ budgets' = << >>

Next == Start \/ Spend \/ Open \/ Close \/ Finish

Spec == Init /\ [][Next]_vars

=============================================================================
