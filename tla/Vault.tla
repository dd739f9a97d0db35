-------------------------------- MODULE Vault --------------------------------
(***************************************************************************)
(* What escrow promises, whatever the workflow around it: money is locked  *)
(* for an item, goes back to the payer, or is paid out.  An item is paid   *)
(* out once, with all that it holds, and is closed from then on.  Every    *)
(* payer has one pot for all items; no item takes from the pot what        *)
(* another one holds.                                                      *)
(***************************************************************************)
EXTENDS Naturals

CONSTANTS
    Items,
    Payers,
    PayerOf,    \* who pays for an item
    Parts,      \* the amounts that may be locked at once
    Sum(_, _)   \* Sum(f, S) adds up f[i] over the i in S

VARIABLES
    held,       \* what an item holds
    put,        \* what was locked for it, in all
    back,       \* what of that went back
    out,        \* what was paid out
    pot         \* what a payer has locked

vars == <<held, put, back, out, pot>>

Init ==
    /\ held = [i \in Items |-> 0]
    /\ put = [i \in Items |-> 0]
    /\ back = [i \in Items |-> 0]
    /\ out = [i \in Items |-> 0]
    /\ pot = [p \in Payers |-> 0]

Open(i) == out[i] = 0

Lock(i, n) ==
    /\ Open(i)
    /\ held' = [held EXCEPT ![i] = @ + n]
    /\ put' = [put EXCEPT ![i] = @ + n]
    /\ pot' = [pot EXCEPT ![PayerOf[i]] = @ + n]
    /\ UNCHANGED <<back, out>>

\* Several items of one payer at once.
GiveBack(p, S) ==
    /\ \A i \in S : Open(i)
    /\ held' = [i \in Items |-> IF i \in S THEN 0 ELSE held[i]]
    /\ back' = [i \in Items |-> IF i \in S THEN back[i] + held[i] ELSE back[i]]
    /\ pot' = [pot EXCEPT ![p] = @ - Sum(held, S)]
    /\ UNCHANGED <<put, out>>

Pay(i) ==
    /\ Open(i)
    /\ held[i] > 0
    /\ held' = [held EXCEPT ![i] = 0]
    /\ out' = [out EXCEPT ![i] = held[i]]
    /\ pot' = [pot EXCEPT ![PayerOf[i]] = @ - held[i]]
    /\ UNCHANGED <<put, back>>

ItemsOf(p) == {i \in Items : PayerOf[i] = p}

Next ==
    \/ \E i \in Items : Pay(i) \/ \E n \in Parts : Lock(i, n)
    \/ \E p \in Payers : \E S \in SUBSET ItemsOf(p) : GiveBack(p, S)

Spec == Init /\ [][Next]_vars
=============================================================================
