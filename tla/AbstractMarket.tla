--------------------------- MODULE AbstractMarket ---------------------------
(***************************************************************************)
(* What the market contract promises, whatever its pricing function: a     *)
(* purse from which every token can be redeemed, whichever outcome wins.   *)
(*                                                                         *)
(* Trades may be priced in any way that leaves the purse large enough for  *)
(* either outcome. Once settled, holders of the winning outcome are paid   *)
(* at least Payout / Whole of a unit per token, and never more than a      *)
(* unit. The market maker takes the rest out once.                         *)
(***************************************************************************)
EXTENDS Integers

CONSTANTS
    Accounts,
    Outcomes,
    Payout, Whole,          \* what a winning token is worth: Payout / Whole
    Undecided               \* the winner before the market is settled

VARIABLES
    phase,                  \* "closed", "trading", "settled" or "swept"
    position,               \* the tokens of each account and outcome
    outstanding,            \* the tokens of each outcome that are not redeemed
    purse,
    winner

avars == <<phase, position, outstanding, purse, winner>>

Init ==
    /\ phase = "closed"
    /\ position = [a \in Accounts |-> [o \in Outcomes |-> 0]]
    /\ outstanding = [o \in Outcomes |-> 0]
    /\ purse = 0
    /\ winner = Undecided

Covered == \A o \in Outcomes : outstanding[o] <= purse

Open ==
    /\ phase = "closed"
    /\ phase' = "trading"
    /\ purse' >= 0
    /\ UNCHANGED <<position, outstanding, winner>>

\* A purchase or a sale: one position and the outstanding tokens of its
\* outcome change by the same number.
Trade(a, o) ==
    /\ phase = "trading"
    /\ position'[a][o] >= 0
    /\ position' = [position EXCEPT ![a][o] = position'[a][o]]
    /\ outstanding' = [outstanding EXCEPT ![o] = @ + position'[a][o] - position[a][o]]
    /\ Covered'
    /\ UNCHANGED <<phase, winner>>

Settle ==
    /\ phase = "trading"
    /\ phase' = "settled"
    /\ winner' \in Outcomes
    /\ UNCHANGED <<position, outstanding, purse>>

Redeem(a) ==
    /\ phase \in {"settled", "swept"}
    /\ position[a][winner] > 0
    /\ position' = [position EXCEPT ![a][winner] = 0]
    /\ outstanding' = [outstanding EXCEPT ![winner] = @ - position[a][winner]]
    /\ Whole * (purse - purse') >= Payout * position[a][winner]
    /\ purse - purse' <= position[a][winner]
    /\ purse' >= 0
    /\ UNCHANGED <<phase, winner>>

\* The market maker leaves what the tokens still outstanding are worth, to
\* within one unit.
Sweep ==
    /\ phase = "settled"
    /\ phase' = "swept"
    /\ purse' < purse
    /\ Whole * (purse' + 1) > Payout * outstanding[winner]
    /\ UNCHANGED <<position, outstanding, winner>>

Next ==
    \/ Open \/ Settle \/ Sweep
    \/ \E a \in Accounts : Redeem(a) \/ \E o \in Outcomes : Trade(a, o)

Spec == Init /\ [][Next]_avars
=============================================================================
