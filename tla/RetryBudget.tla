---------------------------- MODULE RetryBudget ----------------------------
(***************************************************************************)
(* What PIN protection promises to the owner of the keys, with every       *)
(* attempt a single atomic step: as long as any private key is stored, the *)
(* number of attempts spent never goes down, every wrong guess spends one, *)
(* and no guess is judged once the budget is spent.  An attempt may also be *)
(* lost without a guess (power cut, failed refund).  Only the erasure of   *)
(* every key makes the budget meaningless.                                 *)
(***************************************************************************)
EXTENDS Integers

CONSTANTS Roles, Budget

VARIABLES
    keyed,      \* some private key is stored
    spent,      \* attempts charged to each PIN
    guesses     \* wrong PINs that were compared while the keys were stored

vars == <<keyed, spent, guesses>>

Init ==
    /\ keyed = FALSE
    /\ spent = [r \in Roles |-> 0]
    /\ guesses = [r \in Roles |-> 0]

WrongGuess(r) ==
    /\ keyed
    /\ spent[r] < Budget
    /\ spent' = [spent EXCEPT ![r] = @ + 1]
    /\ guesses' = [guesses EXCEPT ![r] = @ + 1]
    /\ UNCHANGED keyed

Burn(r) ==
    /\ keyed
    /\ spent' = [spent EXCEPT ![r] = @ + 1]
    /\ UNCHANGED <<keyed, guesses>>

Install ==
    /\ ~keyed
    /\ keyed' = TRUE
    /\ UNCHANGED <<spent, guesses>>

Erase ==
    /\ keyed
    /\ keyed' = FALSE
    /\ spent' \in [Roles -> Nat]
    /\ guesses' = [r \in Roles |-> 0]

Unkeyed ==
    /\ ~keyed
    /\ spent' \in [Roles -> Nat]
    /\ UNCHANGED <<keyed, guesses>>

Next ==
    \/ \E r \in Roles : WrongGuess(r) \/ Burn(r)
    \/ Install
    \/ Erase
    \/ Unkeyed

Spec == Init /\ [][Next]_vars

=============================================================================
