---------------------------- MODULE OneTimeCode ----------------------------
(***************************************************************************)
(* What a verification code promises, without Redis, clocks, mail or       *)
(* users: it may be tried a limited number of times, is right at most      *)
(* once, and is worth nothing afterwards.                                  *)
(***************************************************************************)
EXTENDS Naturals

CONSTANTS Id, MaxAttempts

VARIABLES issued, spent,
          chances      \* how often each code may still be tried

Init == issued = {} /\ spent = {} /\ chances = [c \in Id |-> 0]

Issue(c) == /\ c \notin issued
            /\ issued' = issued \cup {c}
            /\ chances' = [chances EXCEPT ![c] = MaxAttempts]
            /\ UNCHANGED spent

Miss(c) == /\ chances[c] > 0
           /\ chances' = [chances EXCEPT ![c] = @ - 1]
           /\ UNCHANGED <<issued, spent>>

Spend(c) == /\ chances[c] > 0
            /\ spent' = spent \cup {c}
            /\ chances' = [chances EXCEPT ![c] = 0]
            /\ UNCHANGED issued

\* Codes lapse or are withdrawn at any time, several at once.
Withdraw(S) == /\ chances' = [c \in Id |-> IF c \in S THEN 0 ELSE chances[c]]
               /\ UNCHANGED <<issued, spent>>

Next == \/ \E c \in Id : Issue(c) \/ Miss(c) \/ Spend(c)
        \/ \E S \in SUBSET Id : Withdraw(S)

Spec == Init /\ [][Next]_<<issued, spent, chances>>
=============================================================================
