------------------------------ MODULE MCPayments ------------------------------
(***************************************************************************)
(* Small instances of Payments.  A case of one worker has a medical fee    *)
(* and a visa fee, held until one milestone; the case of another worker a  *)
(* ticket, which no milestone settles, and a form that costs nothing.      *)
(* Requests are few: the interesting cases are two in each other's way.    *)
(***************************************************************************)
EXTENDS Payments, TLC

CONSTANTS r1, r2, n1, n2, t1, t2, ka, kb, medical, visa, ticket, form,
          m1, worker, other, case1, case2, clinic, agency

CostItem(payee, amount) ==
    [case |-> case1, payee |-> payee, amount |-> amount,
     milestone |-> m1, lawful |-> "yes", payer |-> "applicant"]

\* One case and one or two fees of it.
OneOwner  == case1 :> worker
OnePayee  == [i \in Items |-> CostItem(clinic, 1)]
TwoPayees == [i \in Items |-> CostItem(IF i = medical THEN clinic ELSE agency, 1)]

\* Two cases, four fees, all paid to the clinic.
TwoOwners == case1 :> worker @@ case2 :> other
FourFees ==
    medical :> CostItem(clinic, 1)
 @@ visa    :> CostItem(clinic, 2)
 @@ ticket  :> [CostItem(clinic, 1) EXCEPT !.case = case2, !.milestone = None]
 @@ form    :> [CostItem(clinic, 0) EXCEPT !.case = case2]

\* Confirmations with any amount; failures and refunds with the medical fee's.
AllWebhooks == {w \in Webhook : w.amount = 1 \/ w.event = "payment.confirmed"}
\* The first transaction confirms; the second confirms too, or fails.
TwoWebhookKinds ==
    {w \in Webhook : \/ w.event = "payment.confirmed"
                     \/ w.event = "payment.failed" /\ w.txn = t2}
Confirmations == {w \in Webhook : w.event = "payment.confirmed"}

Symmetry == Permutations({r1, r2}) \cup Permutations({n1, n2})
       \cup Permutations({t1, t2}) \cup Permutations({ka, kb})
===============================================================================
