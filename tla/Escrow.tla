------------------------------- MODULE Escrow -------------------------------
(***************************************************************************)
(* What custody promises to whoever hands over an item: it comes back to   *)
(* them and to nobody else.  An item is in a wallet, in escrow for the     *)
(* wallet that lodged it, or stranded for ever because it was moved into   *)
(* the escrow's account without being lodged.                              *)
(***************************************************************************)
EXTENDS Naturals

CONSTANTS Item, Holder, Nobody   \* Nobody holds an item that is not there yet

VARIABLE place

Wallets == [where : {"wallet"}, of : Holder]

Unopened == [where |-> "wallet", of |-> Nobody]

Stranded == [where |-> "stranded", of |-> Nobody]

EscrowInit == place = [i \in Item |-> Unopened]

Open(i, a) ==
    /\ place[i] = Unopened
    /\ place' = [place EXCEPT ![i] = [where |-> "wallet", of |-> a]]

Give(i, b) ==
    /\ place[i] \in Wallets
    /\ place' = [place EXCEPT ![i] = [where |-> "wallet", of |-> b]]

Lodge(i) ==
    /\ place[i] \in Wallets
    /\ place' = [place EXCEPT ![i] = [where |-> "escrow", of |-> place[i].of]]

Return(i) ==
    /\ place[i].where = "escrow"
    /\ place' = [place EXCEPT ![i] = [where |-> "wallet", of |-> place[i].of]]

Strand(i) ==
    /\ place[i] \in Wallets
    /\ place' = [place EXCEPT ![i] = Stranded]

EscrowNext ==
    \E i \in Item :
        \/ Lodge(i) \/ Return(i) \/ Strand(i)
        \/ \E a \in Holder : Open(i, a) \/ Give(i, a)

EscrowSpec == EscrowInit /\ [][EscrowNext]_place
=============================================================================
