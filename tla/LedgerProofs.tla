----------------------------- MODULE LedgerProofs -----------------------------
(***************************************************************************)
(* Proofs about Ledger for all account codes, currencies, keys, candidate  *)
(* accounts, line lists and bounds.                                        *)
(***************************************************************************)
EXTENDS Ledger, JournalProofs

\* An entry as PostEntry and Reverse build them, before post() has checked it.
Draft == [key : Keys, reverses : Keys \cup {NotReversal}, lines : Seq(Line)]

\* A line that was posted stays postable: what one account set accepts, a larger
\* one accepts too.
LEMMA CanPostMonotone ==
    ASSUME NEW A, NEW B, A \subseteq B, NEW lines, CanPost(A, lines)
    PROVE  CanPost(B, lines)
  BY DEF CanPost, Postable

\* Opening an account adds it or changes nothing.
LEMMA OpenGrows ==
    ASSUME NEW A, NEW a
    PROVE  A \subseteq Open(A, a) /\ Open(A, a) \subseteq A \cup {a}
  BY DEF Open

\* Post keeps the journal or appends the entry; it appends only an entry that
\* can be posted and whose key is new.
LEMMA PostCases ==
    ASSUME NEW A, NEW E, NEW e
    PROVE  \/ Post(A, E, e) = E
           \/ Post(A, E, e) = Append(E, e) /\ CanPost(A, e.lines) /\ ~HasKey(E, e.key)
  BY DEF Post

\* A sequence over a set is a sequence over a larger one.
LEMMA SeqMonotone ==
    ASSUME NEW T, NEW S, S \subseteq T, NEW s \in Seq(S)
    PROVE  s \in Seq(T)
<1>1. \A n \in 1..Len(s) : s[n] \in T
  OBVIOUS
<1>2. s \in [1..Len(s) -> T] /\ Len(s) \in Nat
  BY <1>1
<1> QED
  BY <1>2

\* The lines of a well-typed list, one by one.
LEMMA LineAt ==
    ASSUME NEW lines \in Seq(Line)
    PROVE  /\ Len(lines) \in Nat /\ DOMAIN lines = 1..Len(lines)
           /\ \A n \in 1..Len(lines) : /\ lines[n] \in Line
                                       /\ lines[n].amount \in Int
                                       /\ lines[n].direction \in {"debit", "credit"}
<1>1. \A n \in 1..Len(lines) : lines[n] \in Line
  OBVIOUS
<1> QED
  BY <1>1 DEF Line, Directions

\* A draft that can be posted has the type of a journal entry.
LEMMA PostableDraft ==
    ASSUME NEW A, NEW e \in Draft, CanPost(A, e.lines)
    PROVE  e \in Entry
<1>1. \A n \in DOMAIN e.lines : e.lines[n] \in {l \in Line : l.amount > 0}
  BY DEF CanPost, IsBalanced, Draft
<1>2. e.lines \in Seq({l \in Line : l.amount > 0})
  BY <1>1 DEF Draft
<1> QED
  BY <1>2 DEF Draft, Entry

\* Swapping the directions of well-typed lines gives well-typed lines.
LEMMA SwappedType ==
    ASSUME NEW lines \in Seq(Line)
    PROVE  Swapped(lines) \in Seq(Line)
<1>1. \A l \in Line : \A d \in Directions : [l EXCEPT !.direction = d] \in Line
  BY DEF Line
<1>2. \A n \in 1..Len(lines) : lines[n] \in Line
  OBVIOUS
<1>3. \A n \in 1..Len(lines) : Swapped(lines)[n] \in Line
  <2> SUFFICES ASSUME NEW n \in 1..Len(lines) PROVE Swapped(lines)[n] \in Line
    OBVIOUS
  <2>1. PICK d \in Directions : Swapped(lines)[n] = [lines[n] EXCEPT !.direction = d]
    BY DEF Swapped, Directions
  <2> QED
    BY <1>1, <1>2, <2>1
<1>4. Swapped(lines) \in [1..Len(lines) -> Line]
  <2>1. Swapped(lines) = [n \in 1..Len(lines) |-> Swapped(lines)[n]]
    BY DEF Swapped
  <2> QED
    BY <1>3, <2>1
<1>5. \A m \in Nat : \A f \in [1..m -> Line] : f \in Seq(Line)
  OBVIOUS
<1> QED
  BY <1>4, <1>5

\* Every step opens an account or posts a draft.
LEMMA NextCases ==
    ASSUME TypeOK, [Next]_vars
    PROVE  \/ UNCHANGED vars
           \/ \E a \in Candidates : accounts' = Open(accounts, a) /\ entries' = entries
           \/ \E e \in Draft : entries' = Post(accounts, entries, e) /\ accounts' = accounts
<1>1. CASE \E a \in Candidates : OpenAccount(a)
  BY <1>1 DEF OpenAccount
<1>2. CASE \E key \in Keys, lines \in LineLists : PostEntry(key, lines)
  <2>1. PICK key \in Keys, lines \in LineLists : PostEntry(key, lines)
    BY <1>2
  <2>2. [key |-> key, reverses |-> NotReversal, lines |-> lines] \in Draft
    BY LedgerAssumption DEF Draft
  <2> QED
    BY <2>1, <2>2 DEF PostEntry
<1>3. CASE \E n \in DOMAIN entries, key \in Keys : Reverse(n, key)
  <2>1. PICK n \in DOMAIN entries, key \in Keys : Reverse(n, key)
    BY <1>3
  <2>2. entries[n].key \in Keys /\ entries[n].lines \in Seq(Line)
    <3>1. entries[n] \in Entry
      BY DEF TypeOK
    <3> QED
      BY <3>1, SeqMonotone DEF Entry
  <2>3. [key |-> key, reverses |-> entries[n].key,
         lines |-> Swapped(entries[n].lines)] \in Draft
    BY <2>2, SwappedType DEF Draft
  <2> QED
    BY <2>1, <2>3 DEF Reverse
<1> QED
  BY <1>1, <1>2, <1>3 DEF Next

-------------------------------------------------------------------------------
\* The journal keeps its shape: accounts among the candidates, one of a code, and
\* entries of positive lines, whatever is opened, posted or reversed.
THEOREM TypeCorrect == Spec => []TypeOK
<1>1. Init => TypeOK
  BY DEF Init, TypeOK
<1>2. TypeOK /\ [Next]_vars => TypeOK'
  <2> SUFFICES ASSUME TypeOK, [Next]_vars PROVE TypeOK'
    OBVIOUS
  <2>1. CASE UNCHANGED vars
    BY <2>1 DEF TypeOK, vars
  <2>2. ASSUME NEW a \in Candidates, accounts' = Open(accounts, a), entries' = entries
        PROVE  TypeOK'
    <3>1. accounts' \subseteq Candidates
      BY <2>2, OpenGrows DEF TypeOK
    <3>2. ASSUME NEW b \in accounts', NEW c \in accounts', b.code = c.code
          PROVE  b = c
      BY <2>2, <3>2 DEF TypeOK, Open, Codes
    <3> QED
      BY <2>2, <3>1, <3>2 DEF TypeOK
  <2>3. ASSUME NEW e \in Draft, entries' = Post(accounts, entries, e), accounts' = accounts
        PROVE  TypeOK'
    <3>1. \/ entries' = entries
          \/ entries' = Append(entries, e) /\ e \in Entry
      BY <2>3, PostCases, PostableDraft
    <3> QED
      BY <2>3, <3>1 DEF TypeOK
  <2> QED
    BY <2>1, <2>2, <2>3, NextCases
<1> QED
  BY <1>1, <1>2, PTL DEF Spec

\* No idempotency key is ever posted twice (Ledger.post, the replay branch).
THEOREM NoDoublePosting == Spec => []KeysUnique
<1>1. Init => KeysUnique
  BY DEF Init, KeysUnique
<1>2. TypeOK /\ KeysUnique /\ [Next]_vars => KeysUnique'
  <2> SUFFICES ASSUME TypeOK, KeysUnique, [Next]_vars PROVE KeysUnique'
    OBVIOUS
  <2>1. CASE entries' = entries
    BY <2>1 DEF KeysUnique
  <2>2. ASSUME NEW e \in Draft, entries' = Append(entries, e), ~HasKey(entries, e.key)
        PROVE  KeysUnique'
    <3>1. entries \in Seq(Entry)
      BY DEF TypeOK
    <3>2. /\ DOMAIN entries' = DOMAIN entries \cup {Len(entries) + 1}
          /\ entries'[Len(entries) + 1] = e
          /\ \A n \in DOMAIN entries : entries'[n] = entries[n]
      BY <2>2, <3>1
    <3> QED
      BY <2>2, <3>2 DEF KeysUnique, HasKey
  <2> QED
    BY <2>1, <2>2, NextCases, PostCases DEF vars
<1> QED
  BY <1>1, <1>2, TypeCorrect, PTL DEF Spec

\* What post() checked when an entry was appended holds of the whole journal
\* for ever, so that hydration can post it again.
THEOREM AlwaysReplayable == Spec => []Replayable
<1>1. Init => Replayable
  BY DEF Init, Replayable
<1>2. TypeOK /\ Replayable /\ [Next]_vars => Replayable'
  <2> SUFFICES ASSUME TypeOK, Replayable, [Next]_vars PROVE Replayable'
    OBVIOUS
  <2>1. CASE UNCHANGED vars
    BY <2>1 DEF Replayable, vars
  <2>2. ASSUME NEW a \in Candidates, accounts' = Open(accounts, a), entries' = entries
        PROVE  Replayable'
    BY <2>2, OpenGrows, CanPostMonotone DEF Replayable
  <2>3. ASSUME NEW e \in Draft, accounts' = accounts,
               entries' = Append(entries, e), CanPost(accounts, e.lines)
        PROVE  Replayable'
    <3>1. entries \in Seq(Entry)
      BY DEF TypeOK
    <3>2. \A n \in DOMAIN entries' : (n \in DOMAIN entries /\ entries'[n] = entries[n])
                                     \/ entries'[n] = e
      BY <2>3, <3>1
    <3> QED
      BY <2>3, <3>2 DEF Replayable
  <2>4. CASE accounts' = accounts /\ entries' = entries
    BY <2>4 DEF Replayable
  <2> QED
    BY <2>1, <2>2, <2>3, <2>4, NextCases, PostCases
<1> QED
  BY <1>1, <1>2, TypeCorrect, PTL DEF Spec

\* Entries are never edited, removed or reordered and accounts keep their
\* attributes: a step of the ledger only appends.
THEOREM OnlyAppends == Spec => AppendOnly
<1> DEFINE Grows == /\ accounts \subseteq accounts'
                    /\ Len(entries) <= Len(entries')
                    /\ \A n \in DOMAIN entries : entries'[n] = entries[n]
<1>1. TypeOK /\ [Next]_vars => [Grows]_vars
  <2> SUFFICES ASSUME TypeOK, [Next]_vars PROVE Grows \/ UNCHANGED vars
    OBVIOUS
  <2>1. entries \in Seq(Entry) /\ Len(entries) \in Nat
    BY DEF TypeOK
  <2>2. ASSUME NEW a \in Candidates, accounts' = Open(accounts, a), entries' = entries
        PROVE  Grows
    BY <2>1, <2>2, OpenGrows
  <2>3. ASSUME NEW e \in Draft, accounts' = accounts,
               entries' = entries \/ entries' = Append(entries, e)
        PROVE  Grows
    BY <2>1, <2>3
  <2> QED
    BY <2>2, <2>3, NextCases, PostCases
<1> QED
  BY <1>1, TypeCorrect, PTL DEF Spec, AppendOnly

\* The trial balance is zero in every currency ("Must always be zero"): every
\* entry is balanced, so the debits and the credits are summed from equal terms.
THEOREM TrialBalanceIsZero == Spec => []TrialBalanceZero
<1>1. TypeOK /\ Replayable => TrialBalanceZero
  <2> SUFFICES ASSUME TypeOK, Replayable, NEW c \in Currencies
               PROVE  TrialBalance(entries, c) = 0
    BY DEF TrialBalanceZero
  <2> DEFINE Side(d) == [n \in 1..Len(entries) |-> InCurrency(entries[n].lines, c, d)]
  <2>1. ASSUME NEW n \in 1..Len(entries)
        PROVE  /\ InCurrency(entries[n].lines, c, "debit") = InCurrency(entries[n].lines, c, "credit")
               /\ InCurrency(entries[n].lines, c, "debit") \in Int
    <3>1. entries[n] \in Entry /\ n \in DOMAIN entries
      BY DEF TypeOK
    <3>2. entries[n].lines \in Seq(Line)
      BY <3>1, SeqMonotone DEF Entry
    <3>3. /\ Len(entries[n].lines) \in Nat
          /\ DOMAIN entries[n].lines = 1..Len(entries[n].lines)
          /\ \A k \in 1..Len(entries[n].lines) : entries[n].lines[k].amount \in Int
      BY <3>2, LineAt
    <3>4. IsBalanced(entries[n].lines)
      BY <3>1 DEF Replayable, CanPost
    <3> QED
      BY <3>3, <3>4, BalancedEverywhere, InCurrencyInt
  <2>2. Side("debit") = Side("credit")
    BY <2>1
  <2>3. Len(entries) \in Nat
    BY DEF TypeOK
  <2>4. Side("debit") \in Seq(Int)
    BY <2>1, <2>3
  <2>5. Total(Side("debit")) \in Int
    BY <2>4, TotalAppend
  <2> HIDE DEF Side
  <2>6. TrialBalance(entries, c) = Total(Side("debit")) - Total(Side("credit"))
    BY DEF TrialBalance, Side
  <2> QED
    BY <2>2, <2>5, <2>6
<1> QED
  BY <1>1, TypeCorrect, AlwaysReplayable, PTL

-------------------------------------------------------------------------------
\* Reversals: an entry reverses one that is in the journal, line by line.
Mirrored ==
    \A n \in DOMAIN entries :
        entries[n].reverses # NotReversal =>
            \E m \in DOMAIN entries : /\ entries[m].key = entries[n].reverses
                                      /\ entries[n].lines = Swapped(entries[m].lines)

\* On an account, the swapped lines debit what the lines credit, and conversely.
LEMMA SwappedTurnover ==
    ASSUME NEW lines \in Seq(Line), NEW code
    PROVE  /\ OnAccount(Swapped(lines), code, "debit") = OnAccount(lines, code, "credit")
           /\ OnAccount(Swapped(lines), code, "credit") = OnAccount(lines, code, "debit")
<1> DEFINE sw == Swapped(lines)
           Counted(s, d) == [n \in 1..Len(lines) |->
                                IF s[n].account = code /\ s[n].direction = d
                                THEN s[n].amount ELSE 0]
<1>1. DOMAIN sw = 1..Len(lines) /\ Len(sw) = Len(lines) /\ Len(lines) \in Nat
  BY SwappedType DEF Swapped
<1>2. ASSUME NEW n \in 1..Len(lines)
      PROVE  /\ sw[n].account = lines[n].account /\ sw[n].amount = lines[n].amount
             /\ sw[n].direction = "debit" <=> lines[n].direction = "credit"
             /\ sw[n].direction = "credit" <=> lines[n].direction = "debit"
  <2>1. lines[n] \in Line /\ lines[n].direction \in {"debit", "credit"}
    BY LineAt
  <2>2. sw[n] = [lines[n] EXCEPT !.direction =
                    IF lines[n].direction = "debit" THEN "credit" ELSE "debit"]
    BY <1>1 DEF Swapped
  <2> HIDE DEF sw
  <2> QED
    BY <2>1, <2>2 DEF Line
<1> HIDE DEF sw
<1>3. /\ Counted(sw, "debit") = Counted(lines, "credit")
      /\ Counted(sw, "credit") = Counted(lines, "debit")
  BY <1>2
<1> QED
  BY <1>1, <1>3 DEF OnAccount, sw

\* What the lines put on an account is a number.
LEMMA OnAccountInt ==
    ASSUME NEW lines \in Seq(Line), NEW code, NEW d
    PROVE  OnAccount(lines, code, d) \in Int
<1> DEFINE s == [n \in 1..Len(lines) |->
                    IF lines[n].account = code /\ lines[n].direction = d
                    THEN lines[n].amount ELSE 0]
<1>1. \A n \in 1..Len(lines) : lines[n].amount \in Int
  BY LineAt
<1>2. s \in Seq(Int)
  BY <1>1
<1> QED
  BY <1>2, TotalAppend DEF OnAccount

\* The reversing entry always mirrors the one original its key names.
LEMMA MirroredInvariant == Spec => []Mirrored
<1>1. Init => Mirrored
  BY DEF Init, Mirrored
<1>2. TypeOK /\ Mirrored /\ [Next]_vars => Mirrored'
  <2> SUFFICES ASSUME TypeOK, Mirrored, [Next]_vars PROVE Mirrored'
    OBVIOUS
  <2>1. CASE entries' = entries
    BY <2>1 DEF Mirrored
  <2>2. ASSUME NEW e, entries' = Append(entries, e),
               e.reverses # NotReversal =>
                  \E m \in DOMAIN entries : /\ entries[m].key = e.reverses
                                            /\ e.lines = Swapped(entries[m].lines)
        PROVE  Mirrored'
    <3>1. entries \in Seq(Entry)
      BY DEF TypeOK
    <3>2. /\ DOMAIN entries' = DOMAIN entries \cup {Len(entries) + 1}
          /\ entries'[Len(entries) + 1] = e
          /\ \A n \in DOMAIN entries : entries'[n] = entries[n]
      BY <2>2, <3>1
    <3> QED
      BY <2>2, <3>2 DEF Mirrored
  <2>3. CASE \E a \in Candidates : OpenAccount(a)
    BY <2>1, <2>3 DEF OpenAccount
  <2>4. CASE \E key \in Keys, lines \in LineLists : PostEntry(key, lines)
    <3>1. PICK key \in Keys, lines \in LineLists : PostEntry(key, lines)
      BY <2>4
    <3> DEFINE e == [key |-> key, reverses |-> NotReversal, lines |-> lines]
    <3>2. e.reverses = NotReversal
      OBVIOUS
    <3>3. entries' = Post(accounts, entries, e)
      BY <3>1 DEF PostEntry
    <3> HIDE DEF e
    <3> QED
      BY <2>1, <2>2, <3>2, <3>3, PostCases
  <2>5. CASE \E n \in DOMAIN entries, key \in Keys : Reverse(n, key)
    <3>1. PICK n \in DOMAIN entries, key \in Keys : Reverse(n, key)
      BY <2>5
    <3> DEFINE e == [key |-> key, reverses |-> entries[n].key,
                     lines |-> Swapped(entries[n].lines)]
    <3>2. e.reverses = entries[n].key /\ e.lines = Swapped(entries[n].lines)
      OBVIOUS
    <3>3. entries' = Post(accounts, entries, e)
      BY <3>1 DEF Reverse
    <3> HIDE DEF e
    <3> QED
      BY <2>1, <2>2, <3>2, <3>3, PostCases
  <2>6. CASE UNCHANGED vars
    BY <2>1, <2>6 DEF vars
  <2> QED
    BY <2>3, <2>4, <2>5, <2>6 DEF Next
<1> QED
  BY <1>1, <1>2, TypeCorrect, PTL DEF Spec

\* A reversing entry and its original together debit and credit every account
\* by the same amount.
THEOREM ReversalIsExact == Spec => []ReversalUndoes
<1>1. TypeOK /\ KeysUnique /\ Mirrored => ReversalUndoes
  <2> SUFFICES ASSUME TypeOK, KeysUnique, Mirrored,
                      NEW m \in DOMAIN entries, NEW n \in DOMAIN entries,
                      entries[n].reverses = entries[m].key, NEW code \in AccountCodes
               PROVE  Turnover(<<entries[m], entries[n]>>, code, "debit")
                    = Turnover(<<entries[m], entries[n]>>, code, "credit")
    BY DEF ReversalUndoes
  <2>1. entries[m] \in Entry /\ entries[n] \in Entry
    BY DEF TypeOK
  <2>2. /\ entries[m].lines \in Seq(Line)
        /\ entries[n].lines \in Seq(Line)
        /\ entries[n].reverses # NotReversal
    BY <2>1, SeqMonotone, LedgerAssumption DEF Entry
  <2>3. entries[n].lines = Swapped(entries[m].lines)
    BY <2>2 DEF Mirrored, KeysUnique
  <2> DEFINE On(x, d) == OnAccount(x.lines, code, d)
  <2>4. ASSUME NEW d
        PROVE  Turnover(<<entries[m], entries[n]>>, code, d) = On(entries[m], d) + On(entries[n], d)
    <3> DEFINE pair == <<entries[m], entries[n]>>
    <3>1. [x \in 1..Len(pair) |-> OnAccount(pair[x].lines, code, d)]
          = <<On(entries[m], d), On(entries[n], d)>>
      OBVIOUS
    <3>2. On(entries[m], d) \in Int /\ On(entries[n], d) \in Int
      BY <2>2, OnAccountInt
    <3> HIDE DEF On
    <3>3. Total(<<On(entries[m], d), On(entries[n], d)>>) = On(entries[m], d) + On(entries[n], d)
      BY <3>2, TotalPair
    <3> QED
      BY <3>1, <3>3 DEF Turnover
  <2>5. /\ On(entries[n], "debit") = On(entries[m], "credit")
        /\ On(entries[n], "credit") = On(entries[m], "debit")
    BY <2>2, <2>3, SwappedTurnover
  <2>6. On(entries[m], "debit") \in Int /\ On(entries[m], "credit") \in Int
    BY <2>2, OnAccountInt
  <2> HIDE DEF On
  <2> QED
    BY <2>4, <2>5, <2>6
<1> QED
  BY <1>1, TypeCorrect, NoDoublePosting, MirroredInvariant, PTL

-------------------------------------------------------------------------------
(* The accounting equation. *)

\* What lines put on the accounts of a set, and what a journal turns over on them.
OnAccounts(lines, W, d) == SumOver([a \in W |-> OnAccount(lines, a.code, d)], W)
TurnedOver(log, W, d)   == SumOver([a \in W |-> Turnover(log, a.code, d)], W)

\* What each entry debits (or credits) in a currency.
CountedIn(log, c, d) == [n \in 1..Len(log) |-> InCurrency(log[n].lines, c, d)]

\* No two accounts of a set have the same code.
OnePerCode(W) == \A a, b \in W : a.code = b.code => a = b

\* There are finitely many accounts, one per code.
AccountsInv == IsFiniteSet(accounts) /\ OnePerCode(accounts)

\* What one further line counts in a currency.
LEMMA InCurrencyAppend ==
    ASSUME NEW lines \in Seq(Line), NEW l \in Line, NEW c, NEW d
    PROVE  /\ InCurrency(lines, c, d) \in Int
           /\ InCurrency(Append(lines, l), c, d) =
                InCurrency(lines, c, d)
                + (IF l.currency = c /\ l.direction = d THEN l.amount ELSE 0)
<1> DEFINE Put(x) == IF x.currency = c /\ x.direction = d THEN x.amount ELSE 0
           s == [n \in 1..Len(lines) |-> Put(lines[n])]
<1>1. (\A n \in 1..Len(lines) : lines[n].amount \in Int) /\ l.amount \in Int
  BY LineAt DEF Line
<1>2. s \in Seq(Int) /\ Put(l) \in Int
  BY <1>1
<1>3. [n \in 1..Len(Append(lines, l)) |-> Put(Append(lines, l)[n])] = Append(s, Put(l))
  OBVIOUS
<1>4. Total(s) \in Int /\ Total(Append(s, Put(l))) = Total(s) + Put(l)
  <2> HIDE DEF s, Put
  <2> QED
    BY <1>2, TotalAppend
<1> QED
  BY <1>3, <1>4 DEF InCurrency

\* A further line counts on a set of accounts with distinct codes when it is on one of
\* them, and once.
LEMMA OnAccountsAppend ==
    ASSUME NEW W, IsFiniteSet(W), OnePerCode(W),
           NEW lines \in Seq(Line), NEW l \in Line, NEW d
    PROVE  /\ OnAccounts(lines, W, d) \in Int
           /\ OnAccounts(Append(lines, l), W, d) =
                OnAccounts(lines, W, d)
                + (IF (\E a \in W : a.code = l.account) /\ l.direction = d THEN l.amount ELSE 0)
<1> DEFINE put  == IF l.direction = d THEN l.amount ELSE 0
           e == [a \in W |-> OnAccount(lines, a.code, d)]
           f == [a \in W |-> IF l.account = a.code THEN put ELSE 0]
           g == [a \in W |-> OnAccount(Append(lines, l), a.code, d)]
<1>1. put \in Int /\ l.amount \in Int /\ \A n \in 1..Len(lines) : lines[n].amount \in Int
  <2>1. l.amount \in Int
    BY DEF Line
  <2> QED
    BY <2>1, LineAt
<1>2. ASSUME NEW a \in W
      PROVE  e[a] \in Int /\ f[a] \in Int /\ g[a] = e[a] + f[a]
  <2>1. /\ OnAccount(lines, a.code, d) \in Int
        /\ OnAccount(Append(lines, l), a.code, d) =
             OnAccount(lines, a.code, d)
             + (IF l.account = a.code /\ l.direction = d THEN l.amount ELSE 0)
    BY <1>1, OnAccountAppend
  <2> QED
    BY <1>1, <2>1
<1>3. SumOver(g, W) = SumOver(e, W) + SumOver(f, W) /\ SumOver(e, W) \in Int
  <2> HIDE DEF e, f, g
  <2> QED
    BY <1>2, SumAdds, SumIsInt
<1>4. SumOver(f, W) = IF \E a \in W : a.code = l.account THEN put ELSE 0
  <2>1. CASE \E a \in W : a.code = l.account
    <3>1. PICK y \in W : y.code = l.account
      BY <2>1
    <3>2. \A a \in W : f[a] = IF a = y THEN put ELSE 0
      BY <3>1 DEF OnePerCode
    <3> HIDE DEF f, put
    <3> QED
      BY <1>1, <2>1, <3>1, <3>2, SumSingle
  <2>2. CASE ~ \E a \in W : a.code = l.account
    <3>1. \A a \in W : f[a] = 0
      BY <2>2
    <3> HIDE DEF f, put
    <3> QED
      BY <2>2, <3>1, SumZero
  <2> QED
    BY <2>1, <2>2
<1> QED
  BY <1>1, <1>3, <1>4 DEF OnAccounts

\* Of the lines, those in currency c are the ones on an account of U or V.
KeptIn(U, V, c, lines) ==
    \A n \in 1..Len(lines) :
        lines[n].currency = c <=> \E a \in U \cup V : a.code = lines[n].account

\* What lines debit (or credit) in a currency is what they debit on the accounts that are
\* kept in it, on whichever side these are.
LEMMA LinesOnAccounts ==
    ASSUME NEW U, NEW V, IsFiniteSet(U), IsFiniteSet(V), U \cap V = {}, OnePerCode(U \cup V),
           NEW c, NEW d, NEW lines \in Seq(Line), KeptIn(U, V, c, lines)
    PROVE  /\ OnAccounts(lines, U, d) \in Int /\ OnAccounts(lines, V, d) \in Int
           /\ OnAccounts(lines, U, d) + OnAccounts(lines, V, d) = InCurrency(lines, c, d)
<1> DEFINE T == {s \in Seq(Line) :
                    /\ OnAccounts(s, U, d) \in Int /\ OnAccounts(s, V, d) \in Int
                    /\ OnAccounts(s, U, d) + OnAccounts(s, V, d) = InCurrency(s, c, d)}
<1>1. OnePerCode(U) /\ OnePerCode(V)
  BY DEF OnePerCode
<1>2. << >> \in T
  <2>1. InCurrency(<< >>, c, d) = 0 /\ \A code : OnAccount(<< >>, code, d) = 0
    BY TotalEmpty DEF InCurrency, OnAccount
  <2>2. \A W : IsFiniteSet(W) => OnAccounts(<< >>, W, d) = 0
    <3> SUFFICES ASSUME NEW W, IsFiniteSet(W) PROVE OnAccounts(<< >>, W, d) = 0
      OBVIOUS
    <3> DEFINE f == [a \in W |-> OnAccount(<< >>, a.code, d)]
    <3>1. \A a \in W : f[a] = 0
      BY <2>1
    <3>2. SumOver(f, W) = 0
      <4> HIDE DEF f
      <4> QED
        BY <3>1, SumZero
    <3> QED
      BY <3>2 DEF OnAccounts
  <2> QED
    BY <2>1, <2>2
<1>3. ASSUME NEW k \in 0..(Len(lines) - 1), SubSeq(lines, 1, k) \in T
      PROVE  Append(SubSeq(lines, 1, k), lines[k + 1]) \in T
  <2>1. PICK s \in T : s = SubSeq(lines, 1, k)
    BY <1>3
  <2>2. PICK l \in Line : l = lines[k + 1] /\ k + 1 \in 1..Len(lines)
    OBVIOUS
  <2>3. /\ s \in Seq(Line) /\ OnAccounts(s, U, d) \in Int /\ OnAccounts(s, V, d) \in Int
        /\ OnAccounts(s, U, d) + OnAccounts(s, V, d) = InCurrency(s, c, d)
    BY <2>1
  <2>4. l.currency = c <=> \E a \in U \cup V : a.code = l.account
    BY <2>2 DEF KeptIn
  <2>5. ~((\E a \in U : a.code = l.account) /\ (\E a \in V : a.code = l.account))
    BY DEF OnePerCode
  <2>6. OnAccounts(Append(s, l), U, d) =
          OnAccounts(s, U, d)
          + (IF (\E a \in U : a.code = l.account) /\ l.direction = d THEN l.amount ELSE 0)
    BY <1>1, <2>3, OnAccountsAppend
  <2>7. OnAccounts(Append(s, l), V, d) =
          OnAccounts(s, V, d)
          + (IF (\E a \in V : a.code = l.account) /\ l.direction = d THEN l.amount ELSE 0)
    BY <1>1, <2>3, OnAccountsAppend
  <2>8. /\ InCurrency(s, c, d) \in Int
        /\ InCurrency(Append(s, l), c, d) =
             InCurrency(s, c, d) + (IF l.currency = c /\ l.direction = d THEN l.amount ELSE 0)
    BY <2>3, InCurrencyAppend
  <2>9. Append(s, l) \in Seq(Line) /\ l.amount \in Int
    BY <2>3 DEF Line
  <2>10. CASE l.currency = c
    BY <2>3, <2>4, <2>5, <2>6, <2>7, <2>8, <2>9, <2>10, <2>1, <2>2
  <2>11. CASE l.currency # c
    BY <2>3, <2>4, <2>6, <2>7, <2>8, <2>9, <2>11, <2>1, <2>2
  <2> QED
    BY <2>10, <2>11
<1>4. lines \in T
  <2> HIDE DEF T
  <2> QED
    BY <1>2, <1>3, Beginnings
<1> QED
  BY <1>4

\* The lines of each draft of a journal are a well-typed list.
LEMMA DraftLines ==
    ASSUME NEW s \in Seq(Draft), NEW n \in 1..Len(s)
    PROVE  s[n].lines \in Seq(Line)
<1>1. s[n] \in Draft
  OBVIOUS
<1> QED
  BY <1>1 DEF Draft

\* What a journal debits (or credits) in a currency is what it debits on the accounts that
\* are kept in it.
LEMMA JournalOnAccounts ==
    ASSUME NEW U, NEW V, IsFiniteSet(U), IsFiniteSet(V), U \cap V = {}, OnePerCode(U \cup V),
           NEW c, NEW d, NEW log \in Seq(Draft),
           \A n \in 1..Len(log) : KeptIn(U, V, c, log[n].lines)
    PROVE  /\ TurnedOver(log, U, d) \in Int /\ TurnedOver(log, V, d) \in Int
           /\ TurnedOver(log, U, d) + TurnedOver(log, V, d) =
                Total(CountedIn(log, c, d))
<1> DEFINE Counted(s) == [n \in 1..Len(s) |-> InCurrency(s[n].lines, c, d)]
           T == {s \in Seq(Draft) :
                    /\ TurnedOver(s, U, d) \in Int /\ TurnedOver(s, V, d) \in Int
                    /\ TurnedOver(s, U, d) + TurnedOver(s, V, d) = Total(Counted(s))}
<1>1. << >> \in T
  <2>1. Total(Counted(<< >>)) = 0 /\ \A code : Turnover(<< >>, code, d) = 0
    BY TotalEmpty DEF Turnover
  <2>2. \A W : IsFiniteSet(W) => TurnedOver(<< >>, W, d) = 0
    <3> SUFFICES ASSUME NEW W, IsFiniteSet(W) PROVE TurnedOver(<< >>, W, d) = 0
      OBVIOUS
    <3> DEFINE f == [a \in W |-> Turnover(<< >>, a.code, d)]
    <3>1. \A a \in W : f[a] = 0
      BY <2>1
    <3>2. SumOver(f, W) = 0
      <4> HIDE DEF f
      <4> QED
        BY <3>1, SumZero
    <3> QED
      BY <3>2 DEF TurnedOver
  <2> QED
    BY <2>1, <2>2
<1>2. ASSUME NEW s \in Seq(Draft), NEW e \in Draft, NEW W, IsFiniteSet(W)
      PROVE  TurnedOver(Append(s, e), W, d) = TurnedOver(s, W, d) + OnAccounts(e.lines, W, d)
  <2> DEFINE f == [a \in W |-> Turnover(s, a.code, d)]
             g == [a \in W |-> OnAccount(e.lines, a.code, d)]
             h == [a \in W |-> Turnover(Append(s, e), a.code, d)]
  <2>1. /\ e.lines \in Seq(Line)
        /\ \A n \in 1..Len(s) : s[n].lines \in Seq(Line)
    BY DraftLines DEF Draft
  <2>2. \A code : /\ OnAccount(e.lines, code, d) \in Int
                  /\ \A n \in 1..Len(s) : OnAccount(s[n].lines, code, d) \in Int
    BY <2>1, OnAccountInt
  <2>3. ASSUME NEW a \in W
        PROVE  f[a] \in Int /\ g[a] \in Int /\ h[a] = f[a] + g[a]
    <3>1. /\ Turnover(s, a.code, d) \in Int
          /\ Turnover(Append(s, e), a.code, d) =
               Turnover(s, a.code, d) + OnAccount(e.lines, a.code, d)
      BY <2>2, TurnoverAppend
    <3> QED
      BY <2>2, <3>1
  <2>4. SumOver(h, W) = SumOver(f, W) + SumOver(g, W)
    <3> HIDE DEF f, g, h
    <3> QED
      BY <1>2, <2>3, SumAdds
  <2> QED
    BY <2>4 DEF TurnedOver, OnAccounts
<1>3. ASSUME NEW k \in 0..(Len(log) - 1), SubSeq(log, 1, k) \in T
      PROVE  Append(SubSeq(log, 1, k), log[k + 1]) \in T
  <2>1. PICK s \in T : s = SubSeq(log, 1, k)
    BY <1>3
  <2>2. PICK e \in Draft : e = log[k + 1] /\ k + 1 \in 1..Len(log)
    OBVIOUS
  <2>3. /\ s \in Seq(Draft) /\ TurnedOver(s, U, d) \in Int /\ TurnedOver(s, V, d) \in Int
        /\ TurnedOver(s, U, d) + TurnedOver(s, V, d) = Total(Counted(s))
    BY <2>1
  <2>4. e.lines \in Seq(Line) /\ KeptIn(U, V, c, e.lines)
    BY <2>2 DEF Draft
  <2>5. /\ OnAccounts(e.lines, U, d) \in Int /\ OnAccounts(e.lines, V, d) \in Int
        /\ OnAccounts(e.lines, U, d) + OnAccounts(e.lines, V, d) = InCurrency(e.lines, c, d)
    BY <2>4, LinesOnAccounts
  <2>6. /\ TurnedOver(Append(s, e), U, d) = TurnedOver(s, U, d) + OnAccounts(e.lines, U, d)
        /\ TurnedOver(Append(s, e), V, d) = TurnedOver(s, V, d) + OnAccounts(e.lines, V, d)
    BY <1>2, <2>3
  <2>7. Total(Counted(s)) \in Int
        /\ Total(Counted(Append(s, e))) = Total(Counted(s)) + InCurrency(e.lines, c, d)
    <3> DEFINE In(x) == InCurrency(x.lines, c, d)
    <3>1. Counted(Append(s, e)) = Append(Counted(s), In(e))
      <4>1. [n \in 1..Len(Append(s, e)) |-> In(Append(s, e)[n])]
            = Append([n \in 1..Len(s) |-> In(s[n])], In(e))
        <5> HIDE DEF In, T
        <5> QED
          BY <2>3
      <4> QED
        BY <4>1
    <3>2. \A n \in 1..Len(s) : InCurrency(s[n].lines, c, d) \in Int
      <4> SUFFICES ASSUME NEW n \in 1..Len(s) PROVE InCurrency(s[n].lines, c, d) \in Int
        OBVIOUS
      <4>1. s[n].lines \in Seq(Line)
        BY <2>3, DraftLines
      <4> QED
        BY <4>1, LineAt, InCurrencyInt
    <3>3. Counted(s) \in Seq(Int) /\ In(e) \in Int
      BY <2>3, <2>5, <3>2
    <3>4. Total(Counted(s)) \in Int /\ Total(Append(Counted(s), In(e))) = Total(Counted(s)) + In(e)
      <4> HIDE DEF Counted, In
      <4> QED
        BY <3>3, TotalAppend
    <3> QED
      BY <3>1, <3>4
  <2>8. Append(s, e) \in Seq(Draft)
    BY <2>3
  <2> HIDE DEF Counted
  <2>9. Append(s, e) \in T
    BY <2>3, <2>5, <2>6, <2>7, <2>8
  <2> QED
    BY <2>1, <2>2, <2>9
<1>4. log \in T
  <2> HIDE DEF T
  <2> QED
    BY <1>1, <1>3, Beginnings
<1> QED
  BY <1>4 DEF CountedIn

\* Accounts are opened one at a time and never twice under one code.
LEMMA OneAccountPerCode == Spec => []AccountsInv
<1>1. Init => AccountsInv
  BY FS_EmptySet DEF Init, AccountsInv, OnePerCode
<1>2. TypeOK /\ AccountsInv /\ [Next]_vars => AccountsInv'
  <2> SUFFICES ASSUME TypeOK, AccountsInv, [Next]_vars PROVE AccountsInv'
    OBVIOUS
  <2>1. CASE accounts' = accounts
    BY <2>1 DEF AccountsInv
  <2>2. ASSUME NEW a \in Candidates, accounts' = Open(accounts, a)
        PROVE  AccountsInv'
    <3>1. CASE a.code \in Codes(accounts)
      BY <2>1, <2>2, <3>1 DEF Open
    <3>2. CASE a.code \notin Codes(accounts)
      <4>1. accounts' = accounts \cup {a}
        BY <2>2, <3>2 DEF Open
      <4>2. IsFiniteSet(accounts')
        BY <4>1, FS_AddElement DEF AccountsInv
      <4>3. OnePerCode(accounts')
        BY <3>2, <4>1 DEF AccountsInv, OnePerCode, Codes
      <4> QED
        BY <4>2, <4>3 DEF AccountsInv, OnePerCode
    <3> QED
      BY <3>1, <3>2
  <2> QED
    BY <2>1, <2>2, NextCases DEF vars
<1> QED
  BY <1>1, <1>2, TypeCorrect, PTL DEF Spec

\* The accounting equation (balanceOf): per currency, what debit-normal accounts hold is
\* what credit-normal accounts hold, since every line counts on one account, which is kept
\* in the line's currency, and the trial balance is zero.
THEOREM EquationHolds == Spec => []AccountingEquation
<1>1. TypeOK /\ Replayable /\ TrialBalanceZero /\ AccountsInv => AccountingEquation
  <2> SUFFICES ASSUME TypeOK, Replayable, TrialBalanceZero, AccountsInv, NEW c \in Currencies
               PROVE  LET Holding(debitNormal) ==
                              MapThenSumSet(
                                  LAMBDA a : BalanceOf(accounts, entries, a.code),
                                  {a \in accounts : /\ a.currency = c
                                                    /\ IsDebitNormal(a.type) = debitNormal})
                      IN  Holding(TRUE) = Holding(FALSE)
    BY DEF AccountingEquation
  <2> DEFINE Kept(b) == {a \in accounts : a.currency = c /\ IsDebitNormal(a.type) = b}
             U == Kept(TRUE)
             V == Kept(FALSE)
             Side(d) == CountedIn(entries, c, d)
             f == [a \in accounts |-> BalanceOf(accounts, entries, a.code)]
  <2>1. /\ U \subseteq accounts /\ V \subseteq accounts /\ U \cap V = {}
        /\ \A a \in U : IsDebitNormal(a.type)
        /\ \A a \in V : ~IsDebitNormal(a.type)
        /\ U \cup V = {a \in accounts : a.currency = c}
    BY DEF IsDebitNormal
  <2>2. IsFiniteSet(U) /\ IsFiniteSet(V) /\ OnePerCode(U \cup V)
    <3> HIDE DEF U, V
    <3> QED
      BY <2>1, FS_Subset DEF AccountsInv, OnePerCode
  <2>3. entries \in Seq(Draft) /\ \A n \in 1..Len(entries) : KeptIn(U, V, c, entries[n].lines)
    <3>1. \A e \in Entry : e \in Draft
      BY SeqMonotone DEF Entry, Draft
    <3>2. entries \in Seq(Draft)
      BY <3>1, SeqMonotone DEF TypeOK
    <3>3. ASSUME NEW n \in 1..Len(entries)
          PROVE  KeptIn(U, V, c, entries[n].lines)
      <4>1. entries[n].lines \in Seq(Line) /\ n \in DOMAIN entries
        BY <3>2, <3>3, DraftLines
      <4>2. \A k \in 1..Len(entries[n].lines) : Postable(accounts, entries[n].lines[k])
        BY <3>2, <3>3, <4>1 DEF Replayable, CanPost
      <4> HIDE DEF U, V
      <4> QED
        BY <2>1, <4>2 DEF KeptIn, Postable, AccountsInv, OnePerCode
    <3> QED
      BY <3>2, <3>3
  <2>4. ASSUME NEW d
        PROVE  /\ TurnedOver(entries, U, d) \in Int /\ TurnedOver(entries, V, d) \in Int
               /\ TurnedOver(entries, U, d) + TurnedOver(entries, V, d) = Total(Side(d))
    <3> HIDE DEF U, V
    <3>1. U \cap V = {}
      BY <2>1
    <3>2. \A n \in 1..Len(entries) : KeptIn(U, V, c, entries[n].lines)
      BY <2>3
    <3> QED
      BY <2>2, <2>3, <3>1, <3>2, JournalOnAccounts
  <2>5. Total(Side("debit")) - Total(Side("credit")) = 0
    <3> HIDE DEF U, V
    <3> QED
      BY DEF TrialBalanceZero, TrialBalance, CountedIn
  <2>6. \A code, d : Turnover(entries, code, d) \in Int
    <3> SUFFICES ASSUME NEW code, NEW d PROVE Turnover(entries, code, d) \in Int
      OBVIOUS
    <3>1. \A n \in 1..Len(entries) : OnAccount(entries[n].lines, code, d) \in Int
      <4> SUFFICES ASSUME NEW n \in 1..Len(entries)
                   PROVE  OnAccount(entries[n].lines, code, d) \in Int
        OBVIOUS
      <4>1. entries[n].lines \in Seq(Line)
        BY <2>3, DraftLines
      <4> QED
        BY <4>1, OnAccountInt
    <3> QED
      BY <2>3, <3>1, TurnoverInt
  <2>7. ASSUME NEW a \in accounts
        PROVE  f[a] = IF IsDebitNormal(a.type)
                      THEN Turnover(entries, a.code, "debit") - Turnover(entries, a.code, "credit")
                      ELSE Turnover(entries, a.code, "credit") - Turnover(entries, a.code, "debit")
    <3>1. (CHOOSE b \in accounts : b.code = a.code) = a
      BY DEF AccountsInv, OnePerCode
    <3>2. /\ Turnover(entries, a.code, "debit") \in Int
          /\ Turnover(entries, a.code, "credit") \in Int
      BY <2>6
    <3>3. BalanceOf(accounts, entries, a.code) =
             IF IsDebitNormal(a.type)
             THEN Turnover(entries, a.code, "debit") - Turnover(entries, a.code, "credit")
             ELSE -(Turnover(entries, a.code, "debit") - Turnover(entries, a.code, "credit"))
      BY <3>1 DEF BalanceOf
    <3> QED
      BY <3>2, <3>3
  <2> DEFINE On(W, d) == [a \in W |-> Turnover(entries, a.code, d)]
  <2>8. SumOver(On(U, "debit"), U) = SumOver(f, U) + SumOver(On(U, "credit"), U)
        /\ SumOver(f, U) \in Int
    <3>1. ASSUME NEW a \in U
          PROVE  /\ f[a] \in Int /\ On(U, "credit")[a] \in Int
                 /\ On(U, "debit")[a] = f[a] + On(U, "credit")[a]
      BY <2>1, <2>6, <2>7
    <3> HIDE DEF f, On, U
    <3> QED
      BY <2>2, <3>1, SumAdds, SumIsInt
  <2>9. SumOver(On(V, "credit"), V) = SumOver(f, V) + SumOver(On(V, "debit"), V)
        /\ SumOver(f, V) \in Int
    <3>1. ASSUME NEW a \in V
          PROVE  /\ f[a] \in Int /\ On(V, "debit")[a] \in Int
                 /\ On(V, "credit")[a] = f[a] + On(V, "debit")[a]
      BY <2>1, <2>6, <2>7
    <3> HIDE DEF f, On, V
    <3> QED
      BY <2>2, <3>1, SumAdds, SumIsInt
  <2>10. SumOver(f, U) = SumOver(f, V)
    <3>1. \A W, d : TurnedOver(entries, W, d) = SumOver(On(W, d), W)
      BY DEF TurnedOver
    <3> HIDE DEF f, On, U, V, Side
    <3>2. /\ TurnedOver(entries, U, "debit") = SumOver(f, U) + TurnedOver(entries, U, "credit")
          /\ TurnedOver(entries, V, "credit") = SumOver(f, V) + TurnedOver(entries, V, "debit")
      BY <2>8, <2>9, <3>1
    <3>3. /\ TurnedOver(entries, U, "debit") \in Int /\ TurnedOver(entries, V, "debit") \in Int
          /\ TurnedOver(entries, U, "credit") \in Int /\ TurnedOver(entries, V, "credit") \in Int
          /\ TurnedOver(entries, U, "debit") + TurnedOver(entries, V, "debit") = Total(Side("debit"))
          /\ TurnedOver(entries, U, "credit") + TurnedOver(entries, V, "credit") = Total(Side("credit"))
      BY <2>4
    <3>4. TurnedOver(entries, U, "debit") + TurnedOver(entries, V, "debit")
          = TurnedOver(entries, U, "credit") + TurnedOver(entries, V, "credit")
      <4>1. Total(Side("debit")) \in Int /\ Total(Side("credit")) \in Int
        BY <3>3
      <4>2. \A s, t \in Int : s - t = 0 => s = t
        OBVIOUS
      <4>3. Total(Side("debit")) = Total(Side("credit"))
        BY <2>5, <4>1, <4>2
      <4> QED
        BY <3>3, <4>3
    <3>5. SumOver(f, U) \in Int /\ SumOver(f, V) \in Int
      BY <2>8, <2>9
    <3>6. \A a, b, x, y, m, n \in Int :
             a = m + x /\ y = n + b /\ a + b = x + y => m = n
      OBVIOUS
    <3> QED
      BY <3>2, <3>3, <3>4, <3>5, <3>6
  <2> DEFINE Def(S, g) == [s \in SUBSET S |->
                             IF s = {} THEN 0
                             ELSE BalanceOf(accounts, entries, (CHOOSE x \in s : TRUE).code)
                                  + g[s \ {CHOOSE x \in s : TRUE}]]
             it(S) == CHOOSE g : g = Def(S, g)
  <2>11. ASSUME NEW S \in {U, V}
         PROVE  it(S)[S] = SumOver(f, S)
    <3>1. S \subseteq accounts /\ IsFiniteSet(S) /\ \A x \in S : f[x] \in Int
      <4>1. \A x \in accounts : f[x] \in Int
        BY <2>6, <2>7
      <4> HIDE DEF f, U, V
      <4> QED
        BY <2>1, <2>2, <4>1
    <3> HIDE DEF U, V
    <3>2. \A g : Summing(f, S, g) = Def(S, g)
      <4>1. \A s \in SUBSET S : s # {} => (CHOOSE x \in s : TRUE) \in accounts
        BY <3>1
      <4> QED
        BY <4>1 DEF Summing, Chosen
    <3>3. PICK h : h = Summing(f, S, h)
      <4>1. \E h \in [SUBSET S -> Int] : h = Summing(f, S, h)
        <5> HIDE DEF f, Def
        <5> QED
          BY <3>1, SumsExist
      <4> QED
        BY <4>1
    <3>4. it(S) = Def(S, it(S))
      <4>1. Summing(f, S, h) = Def(S, h)
        <5> HIDE DEF f, Def
        <5> QED
          BY <3>2
      <4> HIDE DEF f, Def
      <4> QED
        BY <3>3, <4>1
    <3>5. it(S) = Summing(f, S, it(S))
      <4>1. Summing(f, S, it(S)) = Def(S, it(S))
        <5> HIDE DEF f, Def, it
        <5> QED
          BY <3>2
      <4> HIDE DEF f, Def, it
      <4> QED
        BY <3>4, <4>1
    <3> HIDE DEF it, f
    <3> QED
      BY <3>1, <3>5, SumIs
  <2>12. it(U)[U] = it(V)[V]
    <3> HIDE DEF it, f, U, V
    <3> QED
      BY <2>10, <2>11
  <2> QED
    BY <2>12 DEF MapThenSumSet, MapThenFoldSet
<1> QED
  BY <1>1, TypeCorrect, AlwaysReplayable, TrialBalanceIsZero, OneAccountPerCode, PTL
===============================================================================
