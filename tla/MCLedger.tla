------------------------------- MODULE MCLedger -------------------------------
(***************************************************************************)
(* A small instance of Ledger: four account codes in two currencies, two   *)
(* codes that callers open with different attributes (one of them already  *)
(* closed), and line lists of one to four lines that are balanced in one   *)
(* or two currencies, unbalanced, too short, not positive, balanced only   *)
(* across currencies, or on an account that is not open.                   *)
(***************************************************************************)
EXTENDS Ledger

MCCandidates ==
    { [code |-> "control", type |-> "asset",     currency |-> "BDT", closed |-> FALSE],
      [code |-> "bank",    type |-> "asset",     currency |-> "EUR", closed |-> FALSE],
      [code |-> "payable", type |-> "liability", currency |-> "BDT", closed |-> FALSE],
      [code |-> "payable", type |-> "liability", currency |-> "BDT", closed |-> TRUE],
      [code |-> "income",  type |-> "income",    currency |-> "EUR", closed |-> FALSE],
      [code |-> "income",  type |-> "income",    currency |-> "BDT", closed |-> FALSE] }

Dr(code, amount, c) ==
    [account |-> code, direction |-> "debit", amount |-> amount, currency |-> c]
Cr(code, amount, c) ==
    [account |-> code, direction |-> "credit", amount |-> amount, currency |-> c]

MCLineLists ==
    { <<Dr("control", 2, "BDT"), Cr("payable", 2, "BDT")>>,
      <<Dr("payable", 1, "BDT"), Cr("control", 1, "BDT")>>,
      <<Dr("control", 2, "BDT"), Cr("payable", 1, "BDT")>>,
      <<Dr("control", 1, "BDT"), Cr("income", 1, "EUR")>>,
      <<Dr("control", 0, "BDT"), Cr("payable", 0, "BDT")>>,
      <<Dr("control", 3, "BDT"), Cr("payable", 1, "BDT"), Cr("income", 2, "BDT")>>,
      <<Dr("control", 1, "BDT"), Cr("payable", 1, "BDT"),
        Dr("bank", 2, "EUR"), Cr("income", 2, "EUR")>>,
      <<Dr("control", -1, "BDT")>> }
===============================================================================
