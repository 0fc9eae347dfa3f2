---------------------------- MODULE SettlementBook ----------------------------
(***************************************************************************)
(* What the payment rail promises of money, without requests, collections, *)
(* journals or flushes: a book of the payments received, each under a      *)
(* provider transaction that belongs to one intent, of the intents whose   *)
(* settlement has become due, and of the intents released to their payee.  *)
(* The book only grows; an intent is released only when it is due and a    *)
(* payment of it is in the book.                                           *)
(***************************************************************************)
CONSTANTS Txns, Intents

VARIABLES received,  \* <<transaction, intent>>: payments in the book
          due,       \* intents whose milestone has been attested
          released   \* intents released to the payee
book == <<received, due, released>>

Init == received = {} /\ due = {} /\ released = {}

OneIntentPerTxn(payments) ==
    \A p, q \in payments : p[1] = q[1] => p = q

\* Payments and releases are entered, several at a time perhaps.
Enter(payments, releases) ==
    /\ received' = received \cup payments
    /\ OneIntentPerTxn(received')
    /\ released' = released \cup releases
    /\ \A n \in releases : n \in due /\ \E t \in Txns : <<t, n>> \in received'
    /\ UNCHANGED due

BecomeDue(ns) ==
    /\ due' = due \cup ns
    /\ UNCHANGED <<received, released>>

Next ==
    \/ \E payments \in SUBSET (Txns \X Intents), releases \in SUBSET Intents :
          Enter(payments, releases)
    \/ \E ns \in SUBSET Intents : BecomeDue(ns)

Spec == Init /\ [][Next]_book
===============================================================================
