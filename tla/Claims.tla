------------------------------- MODULE Claims ----------------------------------
(***************************************************************************)
(* What settlement promises to the holders of shares: all shares are        *)
(* redeemed together, once, for one winner.  Nothing is said of how the     *)
(* winner is found, nor of statuses, disputes or transactions.              *)
(***************************************************************************)
EXTENDS Integers

CONSTANTS Holders, Outcomes,
          Shares                \* Shares[h][o], the shares when trading ends

VARIABLES holdings,             \* the shares not redeemed yet
          payout                \* what each holder has received

Worthless == [h \in Holders |-> [o \in Outcomes |-> 0]]

Init == /\ holdings = Shares
        /\ payout = [h \in Holders |-> 0]

Redeem(winner) == /\ holdings = Shares
                  /\ holdings' = Worthless
                  /\ payout' = [h \in Holders |-> payout[h] + holdings[h][winner]]

Next == \E winner \in Outcomes : Redeem(winner)

Spec == Init /\ [][Next]_<<holdings, payout>>
=============================================================================
