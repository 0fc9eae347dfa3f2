-------------------------------- MODULE Ledger --------------------------------
(***************************************************************************)
(* The Ledger class of packages/ledger/src/journal.ts on its own, driven   *)
(* by every caller the class admits: accounts are opened in any order and  *)
(* with any attributes, entries are posted with arbitrary lines (balanced  *)
(* or not, in one currency or several, to accounts that exist or not) and  *)
(* under keys that may have been used before, and any entry may be         *)
(* reversed, a reversing entry included.                                   *)
(***************************************************************************)
EXTENDS JournalOps, FiniteSetsExt

CONSTANTS AccountCodes,
          Currencies,
          Keys,        \* idempotency keys
          Candidates,  \* the accounts a caller may try to open
          LineLists,   \* the line lists a caller may try to post
          NotReversal, \* the value of `reverses` in an ordinary entry
          MaxEntries   \* bound: nothing is posted to a journal this long

Account == [code : AccountCodes, type : AccountTypes,
            currency : Currencies, closed : BOOLEAN]
Line    == [account : AccountCodes, direction : Directions,
            amount : Int, currency : Currencies]
Entry   == [key : Keys, reverses : Keys \cup {NotReversal},
            lines : Seq({l \in Line : l.amount > 0})]

ASSUME LedgerAssumption ==
    /\ Candidates \subseteq Account
    /\ \A lines \in LineLists : lines \in Seq(Line)
    /\ NotReversal \notin Keys
    /\ MaxEntries \in Nat

VARIABLES accounts,  \* Ledger.accounts: the account records that were opened
          entries    \* Ledger.entries (byIdempotencyKey is an index of it)
vars == <<accounts, entries>>

Init ==
    /\ accounts = {}
    /\ entries = <<>>

OpenAccount(a) ==
    /\ accounts' = Open(accounts, a)
    /\ UNCHANGED entries

PostEntry(key, lines) ==
    /\ Len(entries) < MaxEntries
    /\ entries' = Post(accounts, entries,
                       [key |-> key, reverses |-> NotReversal, lines |-> lines])
    /\ UNCHANGED accounts

\* Mutant of Reverse: the original entry is edited.
ReverseInPlace(n, key) ==
    /\ entries' = [entries EXCEPT ![n].lines = Swapped(@)]
    /\ UNCHANGED accounts

\* reverse() looks the original up by its entry id; the model names an entry by
\* its idempotency key, which is as unique (KeysUnique).
Reverse(n, key) ==
    /\ Len(entries) < MaxEntries
    /\ entries' = Post(accounts, entries,
                       [key |-> key, reverses |-> entries[n].key,
                        lines |-> Swapped(entries[n].lines)])
    /\ UNCHANGED accounts

Next ==
    \/ \E a \in Candidates : OpenAccount(a)
    \/ \E key \in Keys, lines \in LineLists : PostEntry(key, lines)
    \/ \E n \in DOMAIN entries, key \in Keys : Reverse(n, key)

Spec == Init /\ [][Next]_vars

-------------------------------------------------------------------------------
\* Type invariant: accounts are among the candidates, one per code, and entries
\* have the shape post() builds.
TypeOK ==
    /\ accounts \subseteq Candidates
    /\ \A a, b \in accounts : a.code = b.code => a = b
    /\ entries \in Seq(Entry)

\* An idempotency key names one entry: whatever is replayed, reversed or
\* re-reversed, no key is posted twice (journal.ts post(), the replay branch).
KeysUnique ==
    \A m, n \in DOMAIN entries : entries[m].key = entries[n].key => m = n

\* Every line that was ever posted is positive and sits on an account that is
\* kept in the line's currency, and every entry balances: what post() checks at
\* the moment of posting is true of the whole journal at every later moment, so
\* re-posting the journal (hydrateLedger) onto the same accounts cannot fail.
Replayable ==
    \A n \in DOMAIN entries : CanPost(accounts, entries[n].lines)

\* trialBalance() is zero in every currency ("Must always be zero").
TrialBalanceZero ==
    \A c \in Currencies : TrialBalance(entries, c) = 0

\* The accounting equation, through balanceOf: per currency, what debit-normal
\* accounts hold equals what credit-normal accounts hold.  A line kept on an
\* account of another currency, or counted on the wrong side, breaks it even
\* when the trial balance is zero.
AccountingEquation ==
    \A c \in Currencies :
        LET Holding(debitNormal) ==
                MapThenSumSet(
                    LAMBDA a : BalanceOf(accounts, entries, a.code),
                    {a \in accounts : /\ a.currency = c
                                      /\ IsDebitNormal(a.type) = debitNormal})
        IN  Holding(TRUE) = Holding(FALSE)

\* A reversing entry undoes its original on every account: the two together
\* debit and credit each account by the same amount.
ReversalUndoes ==
    \A m, n \in DOMAIN entries :
        entries[n].reverses = entries[m].key =>
            \A code \in AccountCodes :
                LET pair == <<entries[m], entries[n]>>
                IN  Turnover(pair, code, "debit") = Turnover(pair, code, "credit")

\* Entries are never edited, removed or reordered, and an account keeps its
\* attributes once it is open: corrections only append.
AppendOnly ==
    [][ /\ accounts \subseteq accounts'
        /\ Len(entries) <= Len(entries')
        /\ \A n \in DOMAIN entries : entries'[n] = entries[n] ]_vars
===============================================================================
