------------------------------ MODULE JournalOps ------------------------------
(***************************************************************************)
(* The double-entry journal of packages/ledger as pure operators: what an  *)
(* entry must satisfy before it is appended (assertBalanced and the account *)
(* checks of Ledger.post), what a posting does to the journal, and the two *)
(* readings of it (balanceOf, trialBalance).  The operators take the       *)
(* accounts and the entries as arguments, so that the Ledger class on its  *)
(* own (module Ledger) and the payment service that owns one (module       *)
(* Payments) use the same definitions.                                     *)
(*                                                                         *)
(* An account is [code, type, currency, closed]; a line is [account,       *)
(* direction, amount, currency]; an entry is [key, reverses, lines], `key` *)
(* being its idempotency key.  Entry and line ids, references, memos and   *)
(* timestamps decide nothing here and are left out.                        *)
(***************************************************************************)
EXTENDS Integers, Sequences

Directions == {"debit", "credit"}
AccountTypes == {"asset", "liability", "equity", "income", "expense"}

IsDebitNormal(type) == type \in {"asset", "expense"}

\* The sum of a sequence of integers (Money.add over a list).
Total(s) ==
    LET sum[n \in 0..Len(s)] == IF n = 0 THEN 0 ELSE sum[n - 1] + s[n]
    IN  sum[Len(s)]

\* What the lines debit (credit) in currency c.
InCurrency(lines, c, d) ==
    Total([n \in 1..Len(lines) |->
              IF lines[n].currency = c /\ lines[n].direction = d
              THEN lines[n].amount ELSE 0])

CurrenciesOf(lines) == {lines[n].currency : n \in DOMAIN lines}

\* Mutants of IsBalanced: zero amounts let through; debits and credits compared
\* over all currencies at once.
IsBalancedWithZeroes(lines) ==
    /\ Len(lines) >= 2
    /\ \A c \in CurrenciesOf(lines) :
          InCurrency(lines, c, "debit") = InCurrency(lines, c, "credit")
IsBalancedAcrossCurrencies(lines) ==
    /\ Len(lines) >= 2
    /\ \A n \in DOMAIN lines : lines[n].amount > 0
    /\ Total([n \in 1..Len(lines) |->
           IF lines[n].direction = "debit" THEN lines[n].amount ELSE -lines[n].amount]) = 0

\* assertBalanced: at least two lines, every amount positive, and per currency
\* as much debited as credited.
IsBalanced(lines) ==
    /\ Len(lines) >= 2
    /\ \A n \in DOMAIN lines : lines[n].amount > 0
    /\ \A c \in CurrenciesOf(lines) :
          InCurrency(lines, c, "debit") = InCurrency(lines, c, "credit")

Codes(accounts) == {a.code : a \in accounts}

\* Mutant of Open: the last caller's attributes win.
OpenOverwriting(accounts, account) ==
    {a \in accounts : a.code # account.code} \cup {account}

\* openAccount is idempotent on the code: the account that is there stays.
Open(accounts, account) ==
    IF account.code \in Codes(accounts) THEN accounts ELSE accounts \cup {account}

\* Mutant of Postable: the currency of the account is not looked at.
PostableInAnyCurrency(accounts, line) ==
    \E a \in accounts : a.code = line.account /\ ~a.closed

\* A line may be posted to an account that exists, is kept in the line's
\* currency and has not been closed.
Postable(accounts, line) ==
    \E a \in accounts : /\ a.code = line.account
                        /\ a.currency = line.currency
                        /\ ~a.closed

HasKey(entries, key) == \E n \in DOMAIN entries : entries[n].key = key

CanPost(accounts, lines) ==
    /\ IsBalanced(lines)
    /\ \A n \in DOMAIN lines : Postable(accounts, lines[n])

\* Mutant of Post: the replay branch is missing.
PostWithoutReplay(accounts, entries, entry) ==
    IF CanPost(accounts, entry.lines) THEN Append(entries, entry) ELSE entries

\* Ledger.post returns the entry that carries the key, when there is one.
\* Otherwise it appends the entry, or throws and leaves the journal as it is.
Post(accounts, entries, entry) ==
    IF HasKey(entries, entry.key) \/ ~CanPost(accounts, entry.lines)
    THEN entries
    ELSE Append(entries, entry)

\* Mutant of Swapped: the lines are copied as they are.
SwappedNot(lines) == lines
\* The lines of a reversing entry: every direction swapped.
Swapped(lines) ==
    [n \in DOMAIN lines |->
        [lines[n] EXCEPT !.direction = IF @ = "debit" THEN "credit" ELSE "debit"]]

\* What the lines debit (credit) the account `code`.
OnAccount(lines, code, d) ==
    Total([n \in 1..Len(lines) |->
              IF lines[n].account = code /\ lines[n].direction = d
              THEN lines[n].amount ELSE 0])

\* What the account `code` was debited (credited) over all entries.
Turnover(entries, code, d) ==
    Total([n \in 1..Len(entries) |-> OnAccount(entries[n].lines, code, d)])

\* balanceOf: signed by the account's normal side.
BalanceOf(accounts, entries, code) ==
    LET account == CHOOSE a \in accounts : a.code = code
        net == Turnover(entries, code, "debit") - Turnover(entries, code, "credit")
    IN  IF IsDebitNormal(account.type) THEN net ELSE -net

\* trialBalance: every debit minus every credit of a currency.
TrialBalance(entries, c) ==
    LET Side(d) == Total([n \in 1..Len(entries) |-> InCurrency(entries[n].lines, c, d)])
    IN  Side("debit") - Side("credit")
===============================================================================
