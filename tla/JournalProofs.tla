----------------------------- MODULE JournalProofs -----------------------------
(***************************************************************************)
(* Facts about the operators of JournalOps for every sequence of numbers,  *)
(* lines and entries, and about sums over finite sets.  The sums are       *)
(* defined by recursion; induction is over a set of naturals               *)
(* (NatSetInduction), from the well-foundedness of `<` on Nat.             *)
(***************************************************************************)
EXTENDS JournalOps, FiniteSetTheorems, TLAPS

\* A set that holds 0 and, with each natural, its successor, holds them all.
LEMMA NatSetInduction ==
    ASSUME NEW T, 0 \in T, \A n \in Nat : n \in T => n + 1 \in T
    PROVE  Nat \subseteq T
<1> SUFFICES ASSUME Nat \ T # {} PROVE FALSE
  OBVIOUS
<1>1. PICK x \in Nat \ T : \A y \in Nat \ T : ~ (<<y, x>> \in OpToRel(<, Nat))
  <2>1. Nat \ T \subseteq Nat
    OBVIOUS
  <2> QED
    BY <2>1, NatLessThanWellFounded, WFMin
<1>2. x # 0 /\ x - 1 \in Nat /\ x - 1 \notin T
  OBVIOUS
<1>3. <<x - 1, x>> \in OpToRel(<, Nat)
  <2>1. x - 1 \in Nat /\ x \in Nat /\ x - 1 < x
    BY <1>2
  <2> QED
    BY <2>1, Zenon DEF OpToRel
<1> QED
  BY <1>1, <1>2, <1>3

\* Total satisfies the equations it is defined by: 0 for no numbers, and each
\* further number added to the sum of those before it.
LEMMA TotalRecursion ==
    ASSUME NEW s \in Seq(Int)
    PROVE  \E sum \in [0..Len(s) -> Int] :
             /\ sum[0] = 0
             /\ \A n \in 1..Len(s) : sum[n] = sum[n - 1] + s[n]
             /\ Total(s) = sum[Len(s)]
<1> DEFINE Def(g) == [n \in 0..Len(s) |-> IF n = 0 THEN 0 ELSE g[n - 1] + s[n]]
           it == CHOOSE g : g = Def(g)
           Partial(g, m) == /\ g \in [0..m -> Int]
                            /\ g[0] = 0
                            /\ \A n \in 1..m : g[n] = g[n - 1] + s[n]
           T == {m \in Nat : m <= Len(s) => \E g : Partial(g, m)}
<1>1. Len(s) \in Nat /\ \A n \in 1..Len(s) : s[n] \in Int
  OBVIOUS
<1>2. 0 \in T
  <2>1. Partial([n \in 0..0 |-> 0], 0)
    OBVIOUS
  <2> QED
    BY <2>1
<1>3. \A m \in Nat : m \in T => m + 1 \in T
  <2> SUFFICES ASSUME NEW m \in Nat, m \in T, m + 1 <= Len(s)
               PROVE  \E g : Partial(g, m + 1)
    <3> HIDE DEF Partial
    <3> QED
      OBVIOUS
  <2>1. PICK g : Partial(g, m)
    <3>1. m <= Len(s)
      BY <1>1
    <3> HIDE DEF Partial
    <3> QED
      BY <3>1
  <2> DEFINE h == [n \in 0..(m + 1) |-> IF n = m + 1 THEN g[m] + s[m + 1] ELSE g[n]]
  <2>2. Partial(h, m + 1)
    BY <1>1, <2>1
  <2> QED
    BY <2>2
<1>4. PICK h : Partial(h, Len(s))
  <2>1. Len(s) \in T
    <3> HIDE DEF T
    <3> QED
      BY <1>1, <1>2, <1>3, NatSetInduction
  <2> QED
    BY <1>1, <2>1
<1>5. h = Def(h)
  BY <1>1, <1>4
<1>6. it = Def(it)
  <2> HIDE DEF Def
  <2> QED
    BY <1>5
<1>7. Total(s) = it[Len(s)]
  BY DEF Total
<1> HIDE DEF it
<1>8. it[0] = 0 /\ \A n \in 1..Len(s) : it[n] = it[n - 1] + s[n]
  BY <1>1, <1>6
<1> DEFINE U == {m \in Nat : m <= Len(s) => it[m] = h[m]}
<1>9. 0 \in U
  BY <1>4, <1>8
<1>10. \A m \in Nat : m \in U => m + 1 \in U
  BY <1>1, <1>4, <1>8
<1>11. \A m \in 0..Len(s) : it[m] = h[m]
  <2>1. Nat \subseteq U
    <3> HIDE DEF U
    <3> QED
      BY <1>9, <1>10, NatSetInduction
  <2> QED
    BY <1>1, <2>1
<1> QED
  BY <1>1, <1>4, <1>7, <1>11

\* Nothing sums to zero, and a number appended is added to the sum.
LEMMA TotalEmpty == Total(<< >>) = 0
<1>1. << >> \in Seq(Int) /\ Len(<< >>) = 0
  OBVIOUS
<1> QED
  BY <1>1, TotalRecursion

\* The total of a sequence grows by what is appended.
LEMMA TotalAppend ==
    ASSUME NEW s \in Seq(Int), NEW x \in Int
    PROVE  Total(s) \in Int /\ Total(Append(s, x)) = Total(s) + x
<1> DEFINE t == Append(s, x)
<1>1. /\ t \in Seq(Int) /\ Len(t) = Len(s) + 1 /\ Len(s) \in Nat
      /\ t[Len(t)] = x /\ \A n \in 1..Len(s) : t[n] = s[n]
  OBVIOUS
<1>2. PICK f \in [0..Len(s) -> Int] :
             /\ f[0] = 0
             /\ \A n \in 1..Len(s) : f[n] = f[n - 1] + s[n]
             /\ Total(s) = f[Len(s)]
  BY TotalRecursion
<1> HIDE DEF t
<1>3. PICK g \in [0..Len(t) -> Int] :
             /\ g[0] = 0
             /\ \A n \in 1..Len(t) : g[n] = g[n - 1] + t[n]
             /\ Total(t) = g[Len(t)]
  BY <1>1, TotalRecursion
<1> DEFINE U == {m \in Nat : m <= Len(s) => f[m] = g[m]}
<1>4. 0 \in U
  BY <1>2, <1>3
<1>5. \A m \in Nat : m \in U => m + 1 \in U
  BY <1>1, <1>2, <1>3
<1>6. f[Len(s)] = g[Len(s)]
  <2>1. Nat \subseteq U
    <3> HIDE DEF U
    <3> QED
      BY <1>4, <1>5, NatSetInduction
  <2> QED
    BY <1>1, <2>1
<1> QED
  BY <1>1, <1>2, <1>3, <1>6 DEF t

\* The sum of a pair.
LEMMA TotalPair ==
    ASSUME NEW x \in Int, NEW y \in Int
    PROVE  Total(<<x, y>>) = x + y
<1>1. <<x, y>> = Append(Append(<< >>, x), y)
  OBVIOUS
<1>2. << >> \in Seq(Int) /\ Append(<< >>, x) \in Seq(Int)
  OBVIOUS
<1>3. Total(Append(<< >>, x)) = Total(<< >>) + x
  BY <1>2, TotalAppend
<1> QED
  <2>1. Total(Append(Append(<< >>, x), y)) = Total(Append(<< >>, x)) + y
    BY <1>2, TotalAppend
  <2>2. Total(Append(<< >>, x)) = x
    BY <1>3, TotalEmpty
  <2> QED
    BY <1>1, <2>1, <2>2

\* The sum of the lines in a currency is a number.
LEMMA InCurrencyInt ==
    ASSUME NEW lines, Len(lines) \in Nat, \A n \in 1..Len(lines) : lines[n].amount \in Int,
           NEW c, NEW d
    PROVE  InCurrency(lines, c, d) \in Int
<1> DEFINE s == [n \in 1..Len(lines) |->
                    IF lines[n].currency = c /\ lines[n].direction = d
                    THEN lines[n].amount ELSE 0]
<1>1. s \in Seq(Int)
  OBVIOUS
<1>2. InCurrency(lines, c, d) = Total(s)
  BY DEF InCurrency
<1> QED
  BY <1>1, <1>2, TotalAppend

\* A balanced list of lines debits and credits the same in every currency, those
\* that none of its lines is in included.
LEMMA BalancedEverywhere ==
    ASSUME NEW lines, DOMAIN lines = 1..Len(lines), IsBalanced(lines), NEW c
    PROVE  InCurrency(lines, c, "debit") = InCurrency(lines, c, "credit")
<1>1. CASE c \in CurrenciesOf(lines)
  BY <1>1 DEF IsBalanced
<1>2. CASE c \notin CurrenciesOf(lines)
  <2>1. \A n \in 1..Len(lines) : lines[n].currency # c
    BY <1>2 DEF CurrenciesOf
  <2> DEFINE Counted(d) == [n \in 1..Len(lines) |->
                              IF lines[n].currency = c /\ lines[n].direction = d
                              THEN lines[n].amount ELSE 0]
  <2>2. Counted("debit") = Counted("credit")
    BY <2>1
  <2> QED
    BY <2>2 DEF InCurrency
<1> QED
  BY <1>1, <1>2

-------------------------------------------------------------------------------
(* Sums over finite sets. *)

\* The member with which a fold over s starts.
Chosen(s) == CHOOSE x \in s : TRUE

\* Partial sums: g gives the sum of f over each subset of S, as MapThenSumSet recurs.
Summing(f, S, g) == [s \in SUBSET S |-> IF s = {} THEN 0 ELSE f[Chosen(s)] + g[s \ {Chosen(s)}]]

\* A set that holds the empty set and, with each subset of S less one member, the
\* subset, holds all subsets.
LEMMA SubsetInduction ==
    ASSUME NEW S, IsFiniteSet(S), NEW T, {} \in T,
           \A s \in SUBSET S : s # {} /\ s \ {Chosen(s)} \in T => s \in T
    PROVE  SUBSET S \subseteq T
<1> DEFINE U == {k \in Nat : \A s \in SUBSET S : Cardinality(s) = k => s \in T}
<1>1. \A s \in SUBSET S : IsFiniteSet(s) /\ Cardinality(s) \in Nat
  BY FS_Subset, FS_CardinalityType
<1>2. 0 \in U
  BY <1>1, FS_EmptySet
<1>3. ASSUME NEW k \in Nat, k \in U
      PROVE  k + 1 \in U
  <2> SUFFICES ASSUME NEW s \in SUBSET S, Cardinality(s) = k + 1 PROVE s \in T
    OBVIOUS
  <2>1. s # {}
    BY <1>1, FS_EmptySet
  <2>2. Chosen(s) \in s
    BY <2>1 DEF Chosen
  <2>3. Cardinality(s \ {Chosen(s)}) = k
    BY <1>1, <2>2, FS_RemoveElement
  <2>4. s \ {Chosen(s)} \in T
    BY <1>3, <2>3
  <2> QED
    BY <2>1, <2>4
<1>4. Nat \subseteq U
  <2> HIDE DEF U
  <2> QED
    BY <1>2, <1>3, NatSetInduction
<1> QED
  BY <1>1, <1>4

\* The partial sums are unique.
LEMMA SumsAgree ==
    ASSUME NEW S, IsFiniteSet(S), NEW f, NEW g, NEW h,
           g = Summing(f, S, g), h = Summing(f, S, h)
    PROVE  g[S] = h[S]
<1> DEFINE T == {s \in SUBSET S : g[s] = h[s]}
<1>1. {} \in T
  BY DEF Summing
<1>2. ASSUME NEW s \in SUBSET S, s # {}, s \ {Chosen(s)} \in T
      PROVE  s \in T
  BY <1>2 DEF Summing
<1>3. SUBSET S \subseteq T
  <2> HIDE DEF T
  <2> QED
    BY <1>1, <1>2, SubsetInduction
<1> QED
  BY <1>3

\* There are partial sums, and they are numbers.
LEMMA SumsExist ==
    ASSUME NEW S, IsFiniteSet(S), NEW f, \A x \in S : f[x] \in Int
    PROVE  \E g \in [SUBSET S -> Int] : g = Summing(f, S, g)
<1> DEFINE Small(k) == {s \in SUBSET S : Cardinality(s) <= k}
           Partial(g, k) ==
               /\ g \in [Small(k) -> Int]
               /\ \A s \in Small(k) :
                      g[s] = IF s = {} THEN 0 ELSE f[Chosen(s)] + g[s \ {Chosen(s)}]
           T == {k \in Nat : \E g : Partial(g, k)}
<1>1. \A s \in SUBSET S : IsFiniteSet(s) /\ Cardinality(s) \in Nat
  BY FS_Subset, FS_CardinalityType
<1>2. Cardinality({}) = 0 /\ \A s \in SUBSET S : Cardinality(s) = 0 <=> s = {}
  BY <1>1, FS_EmptySet
<1>3. \A s \in SUBSET S : s # {} =>
          /\ Chosen(s) \in s /\ s \ {Chosen(s)} \in SUBSET S
          /\ Cardinality(s \ {Chosen(s)}) = Cardinality(s) - 1
  <2> SUFFICES ASSUME NEW s \in SUBSET S, s # {}
               PROVE  Chosen(s) \in s /\ Cardinality(s \ {Chosen(s)}) = Cardinality(s) - 1
    OBVIOUS
  <2>1. Chosen(s) \in s
    BY DEF Chosen
  <2> QED
    BY <1>1, <2>1, FS_RemoveElement
<1>4. 0 \in T
  <2>1. Small(0) = {{}}
    BY <1>1, <1>2
  <2>2. Partial([s \in Small(0) |-> 0], 0)
    BY <2>1
  <2> QED
    BY <2>2
<1>5. ASSUME NEW k \in Nat, k \in T
      PROVE  k + 1 \in T
  <2>1. PICK g : Partial(g, k)
    BY <1>5
  <2> DEFINE h == [s \in Small(k + 1) |-> IF Cardinality(s) <= k THEN g[s]
                                          ELSE f[Chosen(s)] + g[s \ {Chosen(s)}]]
  <2>2. \A s \in Small(k + 1) : s # {} => s \ {Chosen(s)} \in Small(k) /\ f[Chosen(s)] \in Int
    BY <1>1, <1>3
  <2>3. \A s \in Small(k) : s \in Small(k + 1) /\ h[s] = g[s]
    BY <1>1
  <2>4. \A s \in Small(k + 1) : s \notin Small(k) =>
            s # {} /\ h[s] = f[Chosen(s)] + g[s \ {Chosen(s)}]
    BY <1>1, <1>2
  <2>5. \A s \in Small(k) : g[s] \in Int
    BY <2>1
  <2> HIDE DEF Small
  <2>6. h \in [Small(k + 1) -> Int]
    <3>1. \A s \in Small(k + 1) : h[s] \in Int
      <4> HIDE DEF h
      <4> SUFFICES ASSUME NEW s \in Small(k + 1) PROVE h[s] \in Int
        OBVIOUS
      <4>1. CASE s \in Small(k)
        BY <2>3, <2>5, <4>1
      <4>2. CASE s \notin Small(k)
        <5>1. g[s \ {Chosen(s)}] \in Int /\ f[Chosen(s)] \in Int
          BY <2>2, <2>4, <2>5, <4>2
        <5> QED
          BY <2>4, <4>2, <5>1
      <4> QED
        BY <4>1, <4>2
    <3> QED
      BY <3>1
  <2>7. \A s \in Small(k + 1) :
            h[s] = IF s = {} THEN 0 ELSE f[Chosen(s)] + h[s \ {Chosen(s)}]
    <3> HIDE DEF h
    <3> QED
      BY <2>1, <2>2, <2>3, <2>4
  <2>8. Partial(h, k + 1)
    BY <2>6, <2>7
  <2> QED
    <3> HIDE DEF Partial
    <3> QED
      BY <2>8
<1>6. PICK g : Partial(g, Cardinality(S))
  <2>1. Cardinality(S) \in T
    <3> HIDE DEF T
    <3> QED
      BY <1>1, <1>4, <1>5, NatSetInduction
  <2> QED
    BY <2>1
<1>7. Small(Cardinality(S)) = SUBSET S
  BY <1>1, FS_Subset
<1> QED
  <2> HIDE DEF Small
  <2> QED
    BY <1>6, <1>7 DEF Summing

\* The sum of f over a finite set.
SumOver(f, S) == (CHOOSE g : g = Summing(f, S, g))[S]

\* Any partial sums lead to it.
LEMMA SumIs ==
    ASSUME NEW S, IsFiniteSet(S), NEW f, NEW g, g = Summing(f, S, g)
    PROVE  SumOver(f, S) = g[S]
<1> DEFINE it == CHOOSE h : h = Summing(f, S, h)
<1>1. it = Summing(f, S, it)
  OBVIOUS
<1> HIDE DEF it
<1>2. it[S] = g[S]
  BY <1>1, SumsAgree
<1> QED
  BY <1>2 DEF it, SumOver

\* A sum of numbers is a number.
LEMMA SumIsInt ==
    ASSUME NEW S, IsFiniteSet(S), NEW f, \A x \in S : f[x] \in Int
    PROVE  SumOver(f, S) \in Int
<1>1. PICK g \in [SUBSET S -> Int] : g = Summing(f, S, g)
  BY SumsExist
<1>2. SumOver(f, S) = g[S]
  BY <1>1, SumIs
<1> QED
  BY <1>2

\* Where only y counts, the sum is what it counts.
LEMMA SumSingle ==
    ASSUME NEW S, IsFiniteSet(S), NEW y, NEW d \in Int, NEW f,
           \A x \in S : f[x] = IF x = y THEN d ELSE 0
    PROVE  SumOver(f, S) = IF y \in S THEN d ELSE 0
<1> DEFINE g == [s \in SUBSET S |-> IF y \in s THEN d ELSE 0]
<1>1. \A s \in SUBSET S : s # {} => Chosen(s) \in s
  BY DEF Chosen
<1>2. g = Summing(f, S, g)
  BY <1>1 DEF Summing
<1>3. SumOver(f, S) = g[S]
  <2> HIDE DEF g
  <2> QED
    BY <1>2, SumIs
<1> QED
  BY <1>3

\* Where nothing counts, the sum is nothing.
LEMMA SumZero ==
    ASSUME NEW S, IsFiniteSet(S), NEW f, \A x \in S : f[x] = 0
    PROVE  SumOver(f, S) = 0
<1> DEFINE g == [s \in SUBSET S |-> 0]
<1>1. \A s \in SUBSET S : s # {} => Chosen(s) \in s
  BY DEF Chosen
<1>2. g = Summing(f, S, g)
  BY <1>1 DEF Summing
<1>3. SumOver(f, S) = g[S]
  <2> HIDE DEF g
  <2> QED
    BY <1>2, SumIs
<1> QED
  BY <1>3

\* Sums add up.
LEMMA SumAdds ==
    ASSUME NEW S, IsFiniteSet(S), NEW e, NEW f, NEW g,
           \A x \in S : e[x] \in Int /\ f[x] \in Int /\ g[x] = e[x] + f[x]
    PROVE  SumOver(g, S) = SumOver(e, S) + SumOver(f, S)
<1>1. PICK E \in [SUBSET S -> Int] : E = Summing(e, S, E)
  BY SumsExist
<1>2. PICK F \in [SUBSET S -> Int] : F = Summing(f, S, F)
  BY SumsExist
<1> DEFINE G == [s \in SUBSET S |-> E[s] + F[s]]
<1>3. \A s \in SUBSET S : s # {} => Chosen(s) \in s /\ s \ {Chosen(s)} \in SUBSET S
  BY DEF Chosen
<1>4. \A s \in SUBSET S : E[s] = IF s = {} THEN 0 ELSE e[Chosen(s)] + E[s \ {Chosen(s)}]
  BY <1>1 DEF Summing
<1>5. \A s \in SUBSET S : F[s] = IF s = {} THEN 0 ELSE f[Chosen(s)] + F[s \ {Chosen(s)}]
  BY <1>2 DEF Summing
<1>6. G = Summing(g, S, G)
  <2>1. \A s \in SUBSET S : G[s] = IF s = {} THEN 0 ELSE g[Chosen(s)] + G[s \ {Chosen(s)}]
    <3>1. \A s \in SUBSET S : G[s] = E[s] + F[s]
      OBVIOUS
    <3> HIDE DEF G
    <3>2. G[{}] = 0
      <4>1. {} \in SUBSET S
        OBVIOUS
      <4>2. E[{}] = 0 /\ F[{}] = 0
        BY <1>4, <1>5, <4>1
      <4> QED
        BY <3>1, <4>1, <4>2
    <3>3. ASSUME NEW s \in SUBSET S, s # {}
          PROVE  G[s] = g[Chosen(s)] + G[s \ {Chosen(s)}]
      <4>1. /\ E[s] = e[Chosen(s)] + E[s \ {Chosen(s)}] /\ F[s] = f[Chosen(s)] + F[s \ {Chosen(s)}]
            /\ Chosen(s) \in S /\ E[s \ {Chosen(s)}] \in Int /\ F[s \ {Chosen(s)}] \in Int
        BY <1>3, <1>4, <1>5, <3>3
      <4> QED
        BY <1>3, <3>1, <3>3, <4>1
    <3> QED
      BY <3>2, <3>3
  <2> QED
    BY <2>1 DEF Summing
<1>7. SumOver(g, S) = G[S]
  <2> HIDE DEF G
  <2> QED
    BY <1>6, SumIs
<1> QED
  BY <1>1, <1>2, <1>7, SumIs

-------------------------------------------------------------------------------
(* Journals entry by entry. *)

\* What holds of the empty sequence and, of each beginning of a sequence, also of the
\* next longer one, holds of the sequence.
LEMMA Beginnings ==
    ASSUME NEW S, NEW s \in Seq(S), NEW T, << >> \in T,
           \A k \in 0..(Len(s) - 1) :
               SubSeq(s, 1, k) \in T => Append(SubSeq(s, 1, k), s[k + 1]) \in T
    PROVE  s \in T
<1> DEFINE U == {k \in Nat : k <= Len(s) => SubSeq(s, 1, k) \in T}
<1>1. Len(s) \in Nat /\ SubSeq(s, 1, 0) = << >> /\ SubSeq(s, 1, Len(s)) = s
  OBVIOUS
<1>2. 0 \in U
  BY <1>1
<1>3. ASSUME NEW k \in Nat, k \in U
      PROVE  k + 1 \in U
  <2> SUFFICES ASSUME k + 1 <= Len(s) PROVE SubSeq(s, 1, k + 1) \in T
    OBVIOUS
  <2>1. SubSeq(s, 1, k + 1) = Append(SubSeq(s, 1, k), s[k + 1])
    BY <1>1
  <2>2. k \in 0..(Len(s) - 1) /\ SubSeq(s, 1, k) \in T
    BY <1>1, <1>3
  <2> QED
    BY <2>1, <2>2
<1>4. Len(s) \in U
  <2> HIDE DEF U
  <2> QED
    BY <1>1, <1>2, <1>3, NatSetInduction
<1>5. SubSeq(s, 1, Len(s)) \in T
  BY <1>1, <1>4
<1> QED
  BY <1>1, <1>5

\* What one further line puts on an account.
LEMMA OnAccountAppend ==
    ASSUME NEW S, NEW lines \in Seq(S), \A n \in 1..Len(lines) : lines[n].amount \in Int,
           NEW line, line.amount \in Int, NEW code, NEW d
    PROVE  /\ OnAccount(lines, code, d) \in Int
           /\ OnAccount(Append(lines, line), code, d) =
                OnAccount(lines, code, d)
                + (IF line.account = code /\ line.direction = d THEN line.amount ELSE 0)
<1> DEFINE Put(l) == IF l.account = code /\ l.direction = d THEN l.amount ELSE 0
           s == [n \in 1..Len(lines) |-> Put(lines[n])]
<1>1. s \in Seq(Int) /\ Put(line) \in Int
  OBVIOUS
<1>2. [n \in 1..Len(Append(lines, line)) |-> Put(Append(lines, line)[n])] = Append(s, Put(line))
  OBVIOUS
<1>3. Total(s) \in Int /\ Total(Append(s, Put(line))) = Total(s) + Put(line)
  <2> HIDE DEF s, Put
  <2> QED
    BY <1>1, TotalAppend
<1> QED
  BY <1>2, <1>3 DEF OnAccount

\* What a journal turns over is a number.
LEMMA TurnoverInt ==
    ASSUME NEW S, NEW log \in Seq(S), NEW code, NEW d,
           \A n \in 1..Len(log) : OnAccount(log[n].lines, code, d) \in Int
    PROVE  Turnover(log, code, d) \in Int
<1> DEFINE s == [n \in 1..Len(log) |-> OnAccount(log[n].lines, code, d)]
<1>1. s \in Seq(Int)
  OBVIOUS
<1>2. Total(s) \in Int
  <2> HIDE DEF s
  <2> QED
    BY <1>1, TotalAppend
<1> QED
  BY <1>2 DEF Turnover

\* What one further entry turns over.
LEMMA TurnoverAppend ==
    ASSUME NEW S, NEW log \in Seq(S), NEW e, NEW code, NEW d,
           \A n \in 1..Len(log) : OnAccount(log[n].lines, code, d) \in Int,
           OnAccount(e.lines, code, d) \in Int
    PROVE  /\ Turnover(log, code, d) \in Int
           /\ Turnover(Append(log, e), code, d) = Turnover(log, code, d) + OnAccount(e.lines, code, d)
<1> DEFINE On(x) == OnAccount(x.lines, code, d)
           s == [n \in 1..Len(log) |-> On(log[n])]
<1>1. [n \in 1..Len(Append(log, e)) |-> On(Append(log, e)[n])] = Append(s, On(e))
  <2> HIDE DEF On
  <2> QED
    OBVIOUS
<1>2. s \in Seq(Int) /\ On(e) \in Int
  OBVIOUS
<1>3. Total(s) \in Int /\ Total(Append(s, On(e))) = Total(s) + On(e)
  <2> HIDE DEF s, On
  <2> QED
    BY <1>2, TotalAppend
<1> QED
  BY <1>1, <1>3 DEF Turnover

\* What two lines put on an account.
LEMMA OnAccountPair ==
    ASSUME NEW x, NEW y, x.amount \in Int, y.amount \in Int, NEW code, NEW d
    PROVE  OnAccount(<<x, y>>, code, d) =
             (IF x.account = code /\ x.direction = d THEN x.amount ELSE 0)
             + (IF y.account = code /\ y.direction = d THEN y.amount ELSE 0)
<1> DEFINE Put(l) == IF l.account = code /\ l.direction = d THEN l.amount ELSE 0
<1>1. [n \in 1..Len(<<x, y>>) |-> Put(<<x, y>>[n])] = <<Put(x), Put(y)>>
  <2> HIDE DEF Put
  <2> QED
    OBVIOUS
<1>2. Put(x) \in Int /\ Put(y) \in Int
  OBVIOUS
<1>3. Total(<<Put(x), Put(y)>>) = Put(x) + Put(y)
  <2> HIDE DEF Put
  <2> QED
    BY <1>2, TotalPair
<1> QED
  BY <1>1, <1>3 DEF OnAccount
===============================================================================
