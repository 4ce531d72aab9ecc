---------------------------- MODULE StockAndBooksProofs -------------------------
(***************************************************************************)
(* The two components whose properties add things up: the stock and the    *)
(* timeline of Parts, for any catalogue, lists and number of requests, and *)
(* the reports of Reports, for any number of customers, invoices and       *)
(* payments, any rate and any length of a day and a month.  The sums of    *)
(* both are defined by recursion; what the library's induction theorems    *)
(* cannot say of them is proved by induction over a set of numbers         *)
(* (NatInduct) or of sets (FiniteInduct).                                  *)
(***************************************************************************)
EXTENDS Parts, Reports, FiniteSetTheorems, WellFoundedInduction, TLAPS

\* Induction over the naturals, for a set of them.
LEMMA NatInduct ==
  ASSUME NEW T, 0 \in T, \A n \in Nat : n \in T => n + 1 \in T
  PROVE  Nat \subseteq T
<1> DEFINE R == {ss \in Nat \X Nat : ss[1] < ss[2]}
<1>1. IsWellFoundedOn(R, Nat)
  BY NatLessThanWellFounded DEF OpToRel
<1>2. \A x, y \in Nat : <<y, x>> \in R <=> y < x
  OBVIOUS
<1> HIDE DEF R
<1> SUFFICES ASSUME Nat \ T # {} PROVE FALSE
  OBVIOUS
<1>3. \E x \in Nat \ T : \A y \in Nat \ T : ~(<<y, x>> \in R)
  BY <1>1, WFMin
<1>4. PICK x \in Nat \ T : \A y \in Nat \ T : ~(y < x)
  BY <1>2, <1>3
<1>5. x - 1 \in Nat /\ x - 1 < x
  BY <1>4
<1> QED
  BY <1>4, <1>5

--------------------------------------------------------------------------------
(* Parts                                                                     *)


\* What the timeline will say when the line at hand is on it.
Through(r, i, n) == IF copy[r][i] = Untracked THEN 0 ELSE QuantityIn(body[r], i)[n]

\* A request is even with the stock but between a decrement and its line.
AccountOf(r) == \A i \in Items :
  /\ pc[r] \in {"idle", "lookup"} => used[r][i] = 0
  /\ pc[r] \in {"take", "done", "refused"} => used[r][i] = Through(r, i, line[r])
  /\ pc[r] = "emit" => used[r][i] = Through(r, i, line[r] + 1)
  /\ pc[r] = "dead" => Through(r, i, line[r]) <= used[r][i]

Accounted == \A r \in Requests : AccountOf(r)

IInv == TypeOK /\ StockExact

\* There is a running sum of any list of numbers.
LEMMA RunningSum ==
  ASSUME NEW N \in Nat, NEW q \in [1 .. N -> Nat]
  PROVE  \E g \in [0 .. N -> Nat] : g[0] = 0 /\ \A n \in 0 .. N - 1 : g[n + 1] = g[n] + q[n + 1]
<1> DEFINE Upto(m, g) == /\ g \in [0 .. m -> Nat] /\ g[0] = 0
                         /\ \A n \in 0 .. m - 1 : g[n + 1] = g[n] + q[n + 1]
           T == {m \in Nat : m <= N => \E g : Upto(m, g)}
<1>1. 0 \in T
  <2> DEFINE g == [n \in 0 .. 0 |-> 0]
  <2>1. g \in [0 .. 0 -> Nat] /\ 0 \in 0 .. 0
    OBVIOUS
  <2>2. \A n \in 0 .. 0 - 1 : FALSE
    OBVIOUS
  <2>3. g[0] = 0
    BY <2>1
  <2> HIDE DEF g
  <2>4. Upto(0, g)
    BY <2>1, <2>2, <2>3
  <2> QED
    BY <2>4
<1>2. ASSUME NEW m \in Nat, m \in T PROVE m + 1 \in T
  <2>0. m + 1 \in Nat /\ (m + 1 <= N => m <= N)
    OBVIOUS
  <2> SUFFICES ASSUME m + 1 <= N PROVE \E g : Upto(m + 1, g)
    BY <2>0, Zenon
  <2>1. PICK g : Upto(m, g)
    BY <1>2, <2>0
  <2>2. g[m] \in Nat /\ q[m + 1] \in Nat
    BY <2>1
  <2> DEFINE h == [n \in 0 .. m + 1 |-> IF n = m + 1 THEN g[m] + q[m + 1] ELSE g[n]]
  <2>3. h \in [0 .. m + 1 -> Nat]
    BY <2>1, <2>2
  <2>4. ASSUME NEW n \in 0 .. m PROVE h[n + 1] = h[n] + q[n + 1]
    <3>1. CASE n = m
      BY <3>1
    <3>2. CASE n # m
      BY <2>1, <3>2
    <3> QED
      BY <3>1, <3>2
  <2>5. h[0] = 0 /\ (m + 1) - 1 = m
    BY <2>1
  <2> QED
    BY <2>3, <2>4, <2>5
<1>3. Nat \subseteq T
  <2> HIDE DEF T
  <2> QED
    BY <1>1, <1>2, NatInduct
<1>4. \E g : Upto(N, g)
  <2>1. N \in T /\ N <= N
    <3> HIDE DEF T
    <3> QED
      BY <1>3
  <2>2. N \in T => (N <= N => \E g : Upto(N, g))
    BY Zenon
  <2> QED
    BY <2>1, <2>2
<1> QED
  BY <1>4

\* What QuantityIn computes.
LEMMA QuantityAddsUp ==
  ASSUME NEW list \in Seq(PartLine), NEW i \in Items
  PROVE  /\ QuantityIn(list, i) \in [0 .. Len(list) -> Nat]
         /\ QuantityIn(list, i)[0] = 0
         /\ \A n \in 0 .. Len(list) - 1 : QuantityIn(list, i)[n + 1]
              = QuantityIn(list, i)[n] + (IF list[n + 1].item = i THEN list[n + 1].qty ELSE 0)
<1> DEFINE N == Len(list)
           of(n) == IF list[n].item = i THEN list[n].qty ELSE 0
           q == [n \in 1 .. N |-> of(n)]
           IsSum(s) == s = [n \in 0 .. N |-> IF n = 0 THEN 0 ELSE s[n - 1] + of(n)]
           sum == QuantityIn(list, i)
<1>1. N \in Nat /\ \A n \in 1 .. N : of(n) \in Nat
  <2>1. \A n \in 1 .. N : list[n] \in PartLine
    OBVIOUS
  <2> QED
    BY <2>1 DEF PartLine
<1>2. sum = CHOOSE s : IsSum(s)
  BY DEF QuantityIn
<1> HIDE DEF of, N, sum
<1>3. PICK g \in [0 .. N -> Nat] : g[0] = 0 /\ \A n \in 0 .. N - 1 : g[n + 1] = g[n] + q[n + 1]
  <2>1. q \in [1 .. N -> Nat]
    BY <1>1
  <2> HIDE DEF q
  <2> QED
    BY <1>1, <2>1, RunningSum
<1>4. IsSum(g)
  <2>1. g = [n \in 0 .. N |-> g[n]]
    BY <1>3
  <2>2. ASSUME NEW n \in 0 .. N PROVE g[n] = IF n = 0 THEN 0 ELSE g[n - 1] + of(n)
    <3>1. CASE n = 0
      BY <1>3, <3>1
    <3>2. CASE n # 0
      <4>1. n - 1 \in 0 .. N - 1 /\ (n - 1) + 1 = n /\ q[n] = of(n)
        BY <1>1, <3>2
      <4> QED
        BY <1>3, <3>2, <4>1
    <3> QED
      BY <3>1, <3>2
  <2> QED
    BY <2>1, <2>2
<1> HIDE DEF IsSum
<1>5. IsSum(sum)
  BY <1>4, <1>2
<1>6. /\ DOMAIN sum = 0 .. N /\ sum = [n \in 0 .. N |-> sum[n]]
      /\ \A n \in 0 .. N : sum[n] = IF n = 0 THEN 0 ELSE sum[n - 1] + of(n)
  <2> DEFINE fn(s) == [n \in 0 .. N |-> IF n = 0 THEN 0 ELSE s[n - 1] + of(n)]
  <2>1. sum = fn(sum)
    BY <1>5 DEF IsSum
  <2>2. DOMAIN fn(sum) = 0 .. N /\ \A n \in 0 .. N : fn(sum)[n] = IF n = 0 THEN 0 ELSE sum[n - 1] + of(n)
    OBVIOUS
  <2> HIDE DEF fn
  <2>3. DOMAIN sum = 0 .. N /\ \A n \in 0 .. N : sum[n] = IF n = 0 THEN 0 ELSE sum[n - 1] + of(n)
    BY <2>1, <2>2
  <2>4. sum = [n \in 0 .. N |-> sum[n]]
    BY <2>1, <2>3 DEF fn
  <2> QED
    BY <2>3, <2>4
<1>7. sum[0] = 0 /\ \A n \in 0 .. N - 1 : sum[n + 1] = sum[n] + of(n + 1)
  <2>1. ASSUME NEW n \in 0 .. N - 1 PROVE sum[n + 1] = sum[n] + of(n + 1)
    <3>1. n + 1 \in 0 .. N /\ n + 1 # 0 /\ (n + 1) - 1 = n
      BY <1>1
    <3> QED
      BY <1>6, <3>1
  <2> QED
    BY <1>1, <1>6, <2>1
<1> DEFINE T == {m \in Nat : m <= N => sum[m] \in Nat}
<1>8. 0 \in T /\ \A m \in Nat : m \in T => m + 1 \in T
  <2>1. ASSUME NEW m \in Nat, m \in T, m + 1 <= N PROVE sum[m + 1] \in Nat
    <3>1. sum[m] \in Nat /\ m + 1 \in 1 .. N /\ m \in 0 .. N - 1
      BY <1>1, <2>1
    <3> QED
      BY <1>1, <1>7, <3>1
  <2> QED
    BY <1>7, <2>1
<1>9. \A m \in 0 .. N : sum[m] \in Nat
  <2>1. Nat \subseteq T
    <3> HIDE DEF T
    <3> QED
      BY <1>8, NatInduct
  <2> QED
    BY <2>1, <1>1
<1>10. sum \in [0 .. N -> Nat]
  BY <1>6, <1>9
<1> QED
  BY <1>7, <1>10 DEF sum, of, N
--------------------------------------------------------------------------------

\* The catalogue starts with the stocks it was given.
LEMMA PartsInit == Init => IInv
<1> SUFFICES ASSUME Init PROVE IInv
  OBVIOUS
<1>1. stock \in [Items -> Stock]
  BY LevelsAssumption DEF Init, Stock
<1>2. TypeOK
  BY <1>1 DEF Init, TypeOK
<1>3. StockExact
  <2>1. \A i \in Items : level[i] = stock[i] /\ taken[i] = 0 /\ stock[i] \in Stock
    BY <1>1 DEF Init
  <2> QED
    BY <2>1, LevelsAssumption DEF StockExact, FloorAtZero, Stock
<1> QED
  BY <1>2, <1>3 DEF IInv

\* The line at hand names an item and a quantity.
LEMMA CurrentType ==
  ASSUME TypeOK, NEW r \in Requests, pc[r] \in {"take", "emit"}
  PROVE  Current(r).item \in Items /\ Current(r).qty \in Nat \ {0}
<1>1. /\ body[r] \in Seq(PartLine) /\ line[r] \in Nat /\ line[r] < Len(body[r])
      /\ \A k \in 1 .. Len(body[r]) : body[r][k].item \in Items
  BY DEF TypeOK
<1>2. line[r] + 1 \in 1 .. Len(body[r])
  BY <1>1
<1>3. body[r][line[r] + 1] \in PartLine
  BY <1>1, <1>2
<1> QED
  BY <1>1, <1>2, <1>3 DEF Current, PartLine

\* Taking once more from a floored stock is taking all at once.
LEMMA FloorsCompose ==
  ASSUME NEW l \in Nat, NEW t \in Nat, NEW q \in Nat
  PROVE  FloorAtZero(FloorAtZero(l - t) - q) = FloorAtZero(l - (t + q))
BY DEF FloorAtZero

\* The decrement.
LEMMA TakeStep ==
  ASSUME IInv, NEW r \in Requests, Take(r)
  PROVE  IInv'
<1> DEFINE i == Current(r).item
           q == Current(r).qty
<1>1. i \in Items /\ q \in Nat \ {0}
  BY CurrentType DEF Take, IInv
<1>2. /\ UNCHANGED <<delivered, job, body, copy, line, level>>
      /\ pc[r] = "take"
      /\ pc' = [pc EXCEPT ![r] = "emit"]
  BY DEF Take, Goto
<1>3. \/ UNCHANGED <<stock, taken, used>>
      \/ /\ stock' = [stock EXCEPT ![i] = Less(stock[i], q)]
         /\ taken' = [taken EXCEPT ![i] = taken[i] + q]
         /\ used'  = [used EXCEPT ![r][i] = used[r][i] + q]
  BY DEF Take
<1> HIDE DEF i, q
<1>4. stock[i] \in Stock /\ taken[i] \in Nat /\ level[i] \in Stock
  BY <1>1 DEF IInv, TypeOK
<1>5. stock[i] = IF level[i] # Untracked THEN FloorAtZero(level[i] - taken[i])
                 ELSE IF taken[i] = 0 THEN Untracked ELSE 0
  BY <1>1 DEF IInv, StockExact
<1>6. /\ Less(stock[i], q) \in Nat
      /\ Less(stock[i], q) = IF level[i] # Untracked
                               THEN FloorAtZero(level[i] - (taken[i] + q)) ELSE 0
  <2>1. CASE level[i] # Untracked
    <3>1. level[i] \in Nat
      BY <1>4, <2>1 DEF Stock
    <3>2. stock[i] \in Nat
      BY <1>4, <1>5, <2>1, <3>1 DEF FloorAtZero
    <3> QED
      BY <1>1, <1>4, <1>5, <2>1, <3>1, <3>2, FloorsCompose, LevelsAssumption
         DEF Less, FloorAtZero
  <2>2. CASE level[i] = Untracked
    BY <1>1, <1>4, <1>5, <2>2, LevelsAssumption DEF Less, FloorAtZero
  <2> QED
    BY <2>1, <2>2
<1>7. TypeOK'
  <2>1. /\ stock' \in [Items -> Stock] /\ taken' \in [Items -> Nat]
        /\ used' \in [Requests -> [Items -> Nat]]
    <3>1. /\ stock \in [Items -> Stock] /\ taken \in [Items -> Nat]
          /\ used \in [Requests -> [Items -> Nat]] /\ Nat \subseteq Stock
      BY DEF IInv, TypeOK, Stock
    <3>2. CASE UNCHANGED <<stock, taken, used>>
      BY <3>1, <3>2
    <3>3. CASE /\ stock' = [stock EXCEPT ![i] = Less(stock[i], q)]
               /\ taken' = [taken EXCEPT ![i] = taken[i] + q]
               /\ used'  = [used EXCEPT ![r][i] = used[r][i] + q]
      <4>1. Less(stock[i], q) \in Stock /\ taken[i] + q \in Nat /\ used[r][i] + q \in Nat
        BY <1>1, <1>6, <3>1
      <4> QED
        BY <3>1, <3>3, <4>1
    <3> QED
      BY <1>3, <3>2, <3>3
  <2>2. pc' \in [Requests -> {"idle", "lookup", "take", "emit", "done", "refused", "dead"}]
    BY <1>2 DEF IInv, TypeOK
  <2>3. \A p \in Requests : /\ pc'[p] \in {"take", "emit"} => pc[p] \in {"take", "emit"}
                            /\ pc'[p] \in {"idle", "lookup"} => pc'[p] = pc[p]
    BY <1>2 DEF IInv, TypeOK
  <2> QED
    BY <1>2, <2>1, <2>2, <2>3 DEF IInv, TypeOK
<1>8. StockExact'
  <2>1. CASE UNCHANGED <<stock, taken, used>>
    BY <1>2, <2>1 DEF IInv, StockExact
  <2>2. CASE /\ stock' = [stock EXCEPT ![i] = Less(stock[i], q)]
             /\ taken' = [taken EXCEPT ![i] = taken[i] + q]
    <3>1. /\ stock'[i] = Less(stock[i], q) /\ taken'[i] = taken[i] + q
          /\ taken'[i] # 0 /\ level' = level
          /\ \A k \in Items \ {i} : stock'[k] = stock[k] /\ taken'[k] = taken[k]
      BY <1>1, <1>2, <1>4, <2>2 DEF IInv, TypeOK
    <3> QED
      BY <1>1, <1>6, <3>1 DEF IInv, StockExact
  <2> QED
    BY <1>3, <2>1, <2>2
<1> QED
  BY <1>7, <1>8 DEF IInv

\* Every step keeps the invariant.
LEMMA PartsStep == IInv /\ [Next]_vars => IInv'
<1> SUFFICES ASSUME IInv, [Next]_vars PROVE IInv'
  OBVIOUS
<1> USE DEF IInv
<1>1. ASSUME NEW r \in Requests, Start(r) \/ Refuse(r) PROVE IInv'
  <2>1. PICK b \in Bodies, to \in {"lookup", "refused"} :
          /\ pc[r] = "idle"
          /\ body' = [body EXCEPT ![r] = b]
          /\ pc'   = [pc EXCEPT ![r] = to]
          /\ UNCHANGED <<stock, delivered, job, copy, line, level, taken, used>>
    BY <1>1 DEF Start, Refuse, Goto
  <2>2. b \in Seq(PartLine) /\ Len(b) > 0
    BY BodiesAssumption
  <2>3. TypeOK'
    BY <2>1, <2>2 DEF TypeOK
  <2> QED
    BY <2>1, <2>3 DEF StockExact
<1>2. ASSUME NEW r \in Requests, Lookup(r) \/ ItemMissing(r) PROVE IInv'
  <2>1. UNCHANGED <<stock, delivered, job, body, line, level, taken, used>>
    BY <1>2 DEF Lookup, ItemMissing
  <2>2. TypeOK'
    <3>1. CASE Lookup(r)
      BY <2>1, <3>1 DEF Lookup, InCatalogue, Goto, TypeOK
    <3>2. CASE ItemMissing(r)
      BY <2>1, <3>2 DEF ItemMissing, Goto, TypeOK
    <3> QED
      BY <1>2, <3>1, <3>2
  <2> QED
    BY <2>1, <2>2 DEF StockExact
<1>3. ASSUME NEW r \in Requests, Take(r) PROVE IInv'
  BY <1>3, TakeStep
<1>4. ASSUME NEW r \in Requests, Emit(r) \/ Crash(r) PROVE IInv'
  <2>1. UNCHANGED <<stock, delivered, job, body, copy, level, taken, used>>
    BY <1>4 DEF Emit, Crash
  <2>2. TypeOK'
    <3>1. CASE Emit(r)
      BY <2>1, <3>1 DEF Emit, Goto, TypeOK
    <3>2. CASE Crash(r)
      BY <2>1, <3>2 DEF Crash, Goto, TypeOK
    <3> QED
      BY <1>4, <3>1, <3>2
  <2> QED
    BY <2>1, <2>2 DEF StockExact
<1>5. ASSUME NEW i \in Items, SetStock(i) PROVE IInv'
  <2>1. PICK s \in Levels :
          /\ stock' = [stock EXCEPT ![i] = s]
          /\ level' = [level EXCEPT ![i] = s]
          /\ taken' = [taken EXCEPT ![i] = 0]
          /\ UNCHANGED <<delivered, job, body, copy, pc, line, used>>
    BY <1>5 DEF SetStock
  <2>2. s \in Stock
    BY LevelsAssumption
  <2>3. TypeOK'
    BY <2>1, <2>2 DEF TypeOK
  <2>4. \A k \in Items : IF k = i THEN stock'[k] = s /\ level'[k] = s /\ taken'[k] = 0
                         ELSE stock'[k] = stock[k] /\ level'[k] = level[k] /\ taken'[k] = taken[k]
    BY <2>1 DEF TypeOK
  <2>5. s # Untracked => FloorAtZero(s - 0) = s
    BY <2>2 DEF Stock, FloorAtZero
  <2> QED
    BY <2>3, <2>4, <2>5 DEF StockExact
<1>6. ASSUME NEW j \in Jobs, Deliver(j) PROVE IInv'
  BY <1>6 DEF Deliver, TypeOK, StockExact
<1>7. CASE UNCHANGED vars
  BY <1>7 DEF vars, TypeOK, StockExact
<1> QED
  BY <1>1, <1>2, <1>3, <1>4, <1>5, <1>6, <1>7 DEF Next, AddParts

(* addParts: concurrent adds lose no update of a stock, for any lists, any   *)
(* overlap, handlers that die and stocks that are set meanwhile.             *)
THEOREM NoLostDecrement == Spec => []StockExact
<1>1. IInv => StockExact
  BY DEF IInv
<1> QED
  BY <1>1, PartsInit, PartsStep, PTL DEF Spec

(* Stocks keep their types, and a handler at a line has a line of items of   *)
(* the catalogue to work on.                                                 *)
THEOREM TypeCorrect == Spec => []TypeOK
<1>1. IInv => TypeOK
  BY DEF IInv
<1> QED
  BY <1>1, PartsInit, PartsStep, PTL DEF Spec

--------------------------------------------------------------------------------
\* The timeline grows by the quantity of the line, for its item.
LEMMA ThroughGrows ==
  ASSUME TypeOK, NEW r \in Requests, pc[r] \in {"take", "emit"}, NEW i \in Items
  PROVE  /\ Through(r, i, line[r]) \in Nat /\ Through(r, i, line[r] + 1) \in Nat
         /\ Through(r, i, line[r] + 1) = Through(r, i, line[r])
              + (IF i = Current(r).item /\ copy[r][i] # Untracked THEN Current(r).qty ELSE 0)
<1>1. /\ body[r] \in Seq(PartLine) /\ line[r] \in 0 .. Len(body[r]) - 1
      /\ line[r] + 1 \in 0 .. Len(body[r]) /\ line[r] \in 0 .. Len(body[r])
  BY DEF TypeOK
<1> DEFINE sum == QuantityIn(body[r], i)
<1>2. /\ sum \in [0 .. Len(body[r]) -> Nat]
      /\ sum[line[r] + 1] = sum[line[r]]
           + (IF body[r][line[r] + 1].item = i THEN body[r][line[r] + 1].qty ELSE 0)
  BY <1>1, QuantityAddsUp
<1> HIDE DEF sum
<1>3. sum[line[r]] \in Nat /\ sum[line[r] + 1] \in Nat
  BY <1>1, <1>2
<1>4. CASE copy[r][i] = Untracked
  BY <1>4 DEF Through
<1>5. CASE copy[r][i] # Untracked
  <2>1. /\ Through(r, i, line[r]) = sum[line[r]]
        /\ Through(r, i, line[r] + 1) = sum[line[r] + 1]
    BY <1>5 DEF Through, sum
  <2> QED
    BY <1>2, <1>3, <1>5, <2>1 DEF Current
<1> QED
  BY <1>4, <1>5

\* Before the first line the timeline says nothing.
LEMMA NothingThrough ==
  ASSUME NEW r \in Requests, NEW i \in Items, body[r] \in Seq(PartLine)
  PROVE  Through(r, i, 0) = 0
BY QuantityAddsUp DEF Through

LEMMA AccountFrame ==
  ASSUME NEW r \in Requests, AccountOf(r), pc'[r] = pc[r], copy'[r] = copy[r],
         body'[r] = body[r], line'[r] = line[r], used'[r] = used[r]
  PROVE  AccountOf(r)'
BY DEF AccountOf, Through

LEMMA TakeAccounts ==
  ASSUME TypeOK, NEW r \in Requests, AccountOf(r), Take(r)
  PROVE  AccountOf(r)'
<1> DEFINE i == Current(r).item
           q == Current(r).qty
<1>1. i \in Items /\ q \in Nat \ {0} /\ pc[r] = "take"
  BY CurrentType DEF Take
<1>2. UNCHANGED <<body, copy, line>> /\ pc'[r] = "emit"
  BY DEF Take, Goto, TypeOK
<1>3. \A k \in Items : used'[r][k] = used[r][k] + (IF k = i /\ copy[r][k] # Untracked THEN q ELSE 0)
  <2>1. used \in [Requests -> [Items -> Nat]]
    BY DEF TypeOK
  <2>2. CASE copy[r][i] = Untracked
    <3>1. used' = used
      BY <2>2 DEF Take
    <3>2. \A k \in Items : used[r][k] \in Nat
      BY <2>1
    <3> HIDE DEF i, q
    <3> QED
      BY <2>2, <3>1, <3>2
  <2>3. CASE copy[r][i] # Untracked
    <3>1. used' = [used EXCEPT ![r][i] = used[r][i] + q]
      BY <2>3 DEF Take
    <3> HIDE DEF i, q
    <3> QED
      BY <1>1, <2>1, <2>3, <3>1
  <2> QED
    BY <2>2, <2>3
<1>4. \A k \in Items : used[r][k] = Through(r, k, line[r])
  BY <1>1 DEF AccountOf
<1>5. \A k \in Items : used'[r][k] = Through(r, k, line[r] + 1)
  <2>1. ASSUME NEW k \in Items PROVE used'[r][k] = Through(r, k, line[r] + 1)
    <3>1. Through(r, k, line[r] + 1) = Through(r, k, line[r])
            + (IF k = i /\ copy[r][k] # Untracked THEN q ELSE 0)
      BY <1>1, ThroughGrows
    <3> HIDE DEF i, q
    <3> QED
      BY <1>3, <1>4, <3>1
  <2> QED
    BY <2>1
<1> HIDE DEF i, q
<1>6. \A k \in Items : Through(r, k, line[r] + 1)' = Through(r, k, line[r] + 1)
  BY <1>2 DEF Through
<1> QED
  BY <1>2, <1>5, <1>6 DEF AccountOf

LEMMA AccountStep == TypeOK /\ Accounted /\ [Next]_vars => Accounted'
<1> SUFFICES ASSUME TypeOK, Accounted, [Next]_vars, NEW r \in Requests PROVE AccountOf(r)'
  BY DEF Accounted
<1>0. AccountOf(r) /\ body[r] \in Seq(PartLine)
  BY DEF Accounted, TypeOK
<1>1. ASSUME NEW s \in Requests, AddParts(s) \/ Crash(s), s # r PROVE AccountOf(r)'
  <2>1. /\ pc'[r] = pc[r] /\ copy'[r] = copy[r] /\ body'[r] = body[r] /\ line'[r] = line[r]
        /\ used'[r] = used[r]
    BY <1>1 DEF AddParts, Start, Refuse, Lookup, ItemMissing, Take, Emit, Crash, Goto, TypeOK
  <2> QED
    BY <1>0, <2>1, AccountFrame
<1>2. CASE Start(r) \/ Refuse(r) \/ Lookup(r) \/ ItemMissing(r)
  <2>1. body'[r] \in Seq(PartLine)
    <3>1. CASE Start(r) \/ Refuse(r)
      <4>1. PICK b \in Bodies : body' = [body EXCEPT ![r] = b]
        BY <3>1 DEF Start, Refuse
      <4> QED
        BY <4>1, BodiesAssumption DEF TypeOK
    <3>2. CASE Lookup(r) \/ ItemMissing(r)
      BY <1>0, <3>2 DEF Lookup, ItemMissing
    <3> QED
      BY <1>2, <3>1, <3>2
  <2>2. /\ pc[r] \in {"idle", "lookup"} /\ pc'[r] \in {"lookup", "take", "refused"}
        /\ line'[r] = 0 /\ used'[r] = used[r]
    BY <1>2 DEF Start, Refuse, Lookup, ItemMissing, Goto, TypeOK
  <2>3. \A i \in Items : Through(r, i, line[r])' = 0
    BY <2>1, <2>2, QuantityAddsUp DEF Through
  <2>4. \A i \in Items : used'[r][i] = 0
    BY <1>0, <2>2 DEF AccountOf
  <2> QED
    BY <2>2, <2>3, <2>4 DEF AccountOf
<1>3. CASE Take(r)
  BY <1>0, <1>3, TakeAccounts
<1>4. CASE Emit(r)
  <2>1. /\ pc[r] = "emit" /\ pc'[r] \in {"take", "done"} /\ line'[r] = line[r] + 1
        /\ UNCHANGED <<body, copy, used>>
    BY <1>4 DEF Emit, Goto, TypeOK
  <2>2. \A i \in Items : Through(r, i, line[r])' = Through(r, i, line[r] + 1)
    BY <2>1 DEF Through
  <2> QED
    BY <1>0, <2>1, <2>2 DEF AccountOf
<1>5. CASE Crash(r)
  <2>1. /\ pc[r] \in {"lookup", "take", "emit"} /\ pc'[r] = "dead"
        /\ UNCHANGED <<body, copy, line, used>>
    BY <1>5 DEF Crash, Goto, TypeOK
  <2>2. \A i \in Items : Through(r, i, line[r]) <= used[r][i]
    <3>1. CASE pc[r] = "lookup"
      <4>1. line[r] = 0
        BY <3>1 DEF TypeOK
      <4> QED
        BY <1>0, <3>1, <4>1, NothingThrough DEF AccountOf
    <3>2. CASE pc[r] \in {"take", "emit"}
      <4>1. Current(r).qty \in Nat
        BY <3>2, CurrentType
      <4> QED
        BY <1>0, <3>2, <4>1, ThroughGrows DEF AccountOf
    <3> QED
      BY <2>1, <3>1, <3>2
  <2>3. \A i \in Items : Through(r, i, line[r])' = Through(r, i, line[r]) /\ used'[r][i] = used[r][i]
    BY <2>1 DEF Through
  <2> QED
    BY <2>1, <2>2, <2>3 DEF AccountOf
<1>6. CASE UNCHANGED <<body, copy, pc, line, used>>
  BY <1>0, <1>6, AccountFrame
<1>7. ASSUME NEW s \in Requests, AddParts(s) \/ Crash(s) PROVE AccountOf(r)'
  BY <1>1, <1>2, <1>3, <1>4, <1>5, <1>7 DEF AddParts
<1> QED
  BY <1>6, <1>7 DEF Next, SetStock, Deliver, vars

(* addParts: the timeline of a job never shows a part that was not taken     *)
(* from the stock, and shows all of them when its request ran to the end.    *)
THEOREM TimelineIsCovered == Spec => []TimelineMatchesStock
<1>1. Init => Accounted
  <2> SUFFICES ASSUME Init, NEW r \in Requests, NEW i \in Items
               PROVE  pc[r] = "idle" /\ used[r][i] = 0
    BY DEF Accounted, AccountOf
  <2> QED
    BY DEF Init
<1>2. TypeOK /\ Accounted => TimelineMatchesStock
  <2> SUFFICES ASSUME TypeOK, Accounted, NEW r \in Requests, NEW i \in Items
               PROVE  /\ Recorded(r, i) <= used[r][i]
                      /\ pc[r] \in {"idle", "lookup", "done", "refused"} => Recorded(r, i) = used[r][i]
    BY DEF TimelineMatchesStock
  <2>1. Recorded(r, i) = Through(r, i, line[r])
    BY DEF Recorded, Through
  <2>2. used[r][i] \in Nat /\ AccountOf(r) /\ body[r] \in Seq(PartLine)
    BY DEF TypeOK, Accounted
  <2>3. CASE pc[r] \in {"idle", "lookup"}
    <3>1. line[r] = 0
      BY <2>3 DEF TypeOK
    <3> QED
      BY <2>1, <2>2, <2>3, <3>1, NothingThrough DEF AccountOf
  <2>4. CASE pc[r] \in {"take", "done", "refused"}
    BY <2>1, <2>2, <2>4 DEF AccountOf
  <2>5. CASE pc[r] = "emit"
    <3>1. Current(r).qty \in Nat
      BY <2>5, CurrentType
    <3>2. Through(r, i, line[r]) <= Through(r, i, line[r] + 1)
      BY <2>5, <3>1, ThroughGrows
    <3> QED
      BY <2>1, <2>2, <2>5, <3>2 DEF AccountOf
  <2>6. CASE pc[r] = "dead"
    BY <2>1, <2>2, <2>6 DEF AccountOf
  <2> QED
    BY <2>3, <2>4, <2>5, <2>6 DEF TypeOK
<1> QED
  BY <1>1, <1>2, TypeCorrect, AccountStep, PTL DEF Spec

--------------------------------------------------------------------------------
(* Finite sets, and sums over them.                                          *)

\* A finite set less one of its elements.
LEMMA LessOne ==
  ASSUME NEW S, IsFiniteSet(S), NEW n \in Nat, Cardinality(S) = n + 1, NEW x \in S
  PROVE  IsFiniteSet(S \ {x}) /\ Cardinality(S \ {x}) = n /\ S = (S \ {x}) \cup {x}
<1>1. IsFiniteSet(S \ {x}) /\ Cardinality(S \ {x}) = Cardinality(S) - 1
  BY FS_RemoveElement
<1> QED
  BY <1>1

\* Induction over the subsets of a finite set, for a set of them.
LEMMA FiniteInduct ==
  ASSUME NEW U, IsFiniteSet(U), NEW F, {} \in F,
         \A S \in SUBSET U : \A x \in U \ S : S \in F => S \cup {x} \in F
  PROVE  U \in F
<1> DEFINE T == {n \in Nat : \A S \in SUBSET U : Cardinality(S) = n => S \in F}
<1>0. \A S \in SUBSET U : IsFiniteSet(S)
  BY FS_Subset
<1>1. 0 \in T
  BY <1>0, FS_EmptySet
<1>2. ASSUME NEW n \in Nat, n \in T PROVE n + 1 \in T
  <2> SUFFICES ASSUME NEW S \in SUBSET U, Cardinality(S) = n + 1 PROVE S \in F
    OBVIOUS
  <2>1. S # {}
    BY FS_EmptySet
  <2>2. PICK x : x \in S
    BY <2>1
  <2>3. Cardinality(S \ {x}) = n /\ S = (S \ {x}) \cup {x}
    BY <1>0, <2>2, LessOne
  <2>4. S \ {x} \in F
    BY <1>2, <2>3
  <2> QED
    BY <2>2, <2>3, <2>4
<1>3. Nat \subseteq T
  <2> HIDE DEF T
  <2> QED
    BY <1>1, <1>2, NatInduct
<1>4. Cardinality(U) \in Nat
  BY FS_CardinalityType
<1> QED
  BY <1>3, <1>4

Sigma(f, S) == SumFunctionOnSet(f, S)

Pick(s) == CHOOSE x \in s : TRUE
Body(f, g, s) == IF s = {} THEN 0 ELSE f[Pick(s)] + g[s \ {Pick(s)}]
IsIter(g, f, U) == g = [s \in SUBSET U |-> Body(f, g, s)]

LEMMA PickIn == ASSUME NEW s, s # {} PROVE Pick(s) \in s
BY DEF Pick

LEMMA SigmaUnfold ==
  ASSUME NEW f, NEW U
  PROVE  Sigma(f, U) = (CHOOSE g : IsIter(g, f, U))[U]
BY DEF Sigma, SumFunctionOnSet, FoldFunctionOnSet, MapThenFoldSet, IsIter, Body, Pick

LEMMA IterValue ==
  ASSUME NEW f, NEW g, NEW U, IsIter(g, f, U)
  PROVE  DOMAIN g = SUBSET U /\ \A s \in SUBSET U : g[s] = Body(f, g, s)
<1> DEFINE h == [s \in SUBSET U |-> Body(f, g, s)]
<1>1. g = h
  BY DEF IsIter
<1>2. DOMAIN h = SUBSET U /\ \A s \in SUBSET U : h[s] = Body(f, g, s)
  OBVIOUS
<1> HIDE DEF h
<1> QED
  BY <1>1, <1>2

LEMMA IterExists ==
  ASSUME NEW f, NEW U, IsFiniteSet(U)
  PROVE  \E g : IsIter(g, f, U)
<1> DEFINE Good(n, g) == g = [s \in SUBSET U |-> g[s]] /\ \A s \in SUBSET U : Cardinality(s) <= n => g[s] = Body(f, g, s)
           T == {n \in Nat : \E g : Good(n, g)}
<1>0. \A s \in SUBSET U : IsFiniteSet(s) /\ Cardinality(s) \in Nat /\ Cardinality(s) <= Cardinality(U)
  BY FS_Subset, FS_CardinalityType
<1>1. 0 \in T
  <2> DEFINE g == [s \in SUBSET U |-> 0]
  <2>1. \A s \in SUBSET U : Cardinality(s) <= 0 => s = {}
    BY <1>0, FS_EmptySet
  <2>2. g = [s \in SUBSET U |-> g[s]] /\ \A s \in SUBSET U : g[s] = 0
    OBVIOUS
  <2> HIDE DEF g
  <2>3. Good(0, g)
    BY <2>1, <2>2 DEF Body
  <2> QED
    BY <2>3
<1>2. ASSUME NEW n \in Nat, n \in T PROVE n + 1 \in T
  <2>1. PICK g : Good(n, g)
    BY <1>2
  <2> DEFINE h == [s \in SUBSET U |-> IF Cardinality(s) <= n THEN g[s] ELSE Body(f, g, s)]
  <2>2. /\ h = [s \in SUBSET U |-> h[s]]
        /\ \A s \in SUBSET U : h[s] = IF Cardinality(s) <= n THEN g[s] ELSE Body(f, g, s)
    OBVIOUS
  <2> HIDE DEF h
  <2>3. ASSUME NEW s \in SUBSET U, Cardinality(s) <= n + 1 PROVE h[s] = Body(f, h, s)
    <3>1. h[s] = Body(f, g, s)
      BY <2>1, <2>2
    <3>2. CASE s = {}
      BY <3>1, <3>2 DEF Body
    <3>3. CASE s # {}
      <4>1. Pick(s) \in s
        BY <3>3, PickIn
      <4>2. Cardinality(s \ {Pick(s)}) = Cardinality(s) - 1 /\ Cardinality(s) \in Nat
        BY <1>0, <4>1, FS_RemoveElement
      <4>3. Cardinality(s \ {Pick(s)}) <= n /\ s \ {Pick(s)} \in SUBSET U
        BY <2>3, <4>2
      <4>4. h[s \ {Pick(s)}] = g[s \ {Pick(s)}]
        BY <2>2, <4>3
      <4> QED
        BY <3>1, <3>3, <4>4 DEF Body
    <3> QED
      BY <3>2, <3>3
  <2>4. Good(n + 1, h)
    BY <2>2, <2>3
  <2>5. \E k : Good(n + 1, k)
    BY <2>4, Zenon
  <2> HIDE DEF Good
  <2> QED
    BY <2>5
<1>3. Nat \subseteq T
  <2> HIDE DEF T
  <2> QED
    BY <1>1, <1>2, NatInduct
<1>4. Cardinality(U) \in T
  <2> HIDE DEF T
  <2> QED
    BY <1>3, FS_CardinalityType
<1>5. PICK g : Good(Cardinality(U), g)
  BY <1>4, Zenon
<1>6. \A s \in SUBSET U : g[s] = Body(f, g, s)
  BY <1>0, <1>5
<1>7. IsIter(g, f, U)
  BY <1>5, <1>6 DEF IsIter
<1> QED
  BY <1>7

LEMMA SigmaIter ==
  ASSUME NEW f, NEW U, IsFiniteSet(U)
  PROVE  \E g : IsIter(g, f, U) /\ Sigma(f, U) = g[U]
<1> DEFINE g == CHOOSE h : IsIter(h, f, U)
<1>1. IsIter(g, f, U)
  BY IterExists
<1> QED
  BY <1>1, SigmaUnfold

\* Two of them agree where both are defined.
LEMMA IterUnique ==
  ASSUME NEW f, NEW g, NEW h, NEW U, NEW V, IsIter(g, f, U), IsIter(h, f, V),
         NEW W, W \subseteq U, W \subseteq V, IsFiniteSet(W)
  PROVE  g[W] = h[W]
<1> DEFINE T == {n \in Nat : \A s \in SUBSET W : Cardinality(s) = n => g[s] = h[s]}
<1>0. \A s \in SUBSET W : /\ IsFiniteSet(s) /\ Cardinality(s) \in Nat
                          /\ g[s] = Body(f, g, s) /\ h[s] = Body(f, h, s)
  BY FS_Subset, FS_CardinalityType, IterValue
<1>1. 0 \in T
  BY <1>0, FS_EmptySet DEF Body
<1>2. ASSUME NEW n \in Nat, n \in T PROVE n + 1 \in T
  <2> SUFFICES ASSUME NEW s \in SUBSET W, Cardinality(s) = n + 1 PROVE g[s] = h[s]
    OBVIOUS
  <2>1. s # {}
    BY FS_EmptySet
  <2>2. Pick(s) \in s
    BY <2>1, PickIn
  <2>3. Cardinality(s \ {Pick(s)}) = n
    BY <1>0, <2>2, LessOne
  <2>4. g[s \ {Pick(s)}] = h[s \ {Pick(s)}]
    BY <1>2, <2>3
  <2> QED
    BY <1>0, <2>1, <2>4 DEF Body
<1>3. Nat \subseteq T
  <2> HIDE DEF T
  <2> QED
    BY <1>1, <1>2, NatInduct
<1> QED
  BY <1>0, <1>3

\* An element may be added in any order.
LEMMA IterAdd ==
  ASSUME NEW f, NEW g, NEW U, IsIter(g, f, U), IsFiniteSet(U), \A x \in U : f[x] \in Int
  PROVE  \A s \in SUBSET U : g[s] \in Int /\ \A x \in s : g[s] = g[s \ {x}] + f[x]
<1> DEFINE Adds(s) == g[s] \in Int /\ \A x \in s : g[s] = g[s \ {x}] + f[x]
           T == {n \in Nat : \A s \in SUBSET U : Cardinality(s) <= n => Adds(s)}
<1>0. \A s \in SUBSET U : IsFiniteSet(s) /\ Cardinality(s) \in Nat /\ g[s] = Body(f, g, s)
  BY FS_Subset, FS_CardinalityType, IterValue
<1>1. 0 \in T
  <2> SUFFICES ASSUME NEW s \in SUBSET U, Cardinality(s) <= 0 PROVE Adds(s)
    BY Zenon
  <2>1. s = {}
    BY <1>0, FS_EmptySet
  <2>2. g[s] = 0 /\ \A x \in s : FALSE
    BY <1>0, <2>1 DEF Body
  <2> QED
    BY <2>2
<1>2. ASSUME NEW n \in Nat, n \in T PROVE n + 1 \in T
  <2>0. ASSUME NEW s \in SUBSET U, Cardinality(s) <= n + 1 PROVE Adds(s)
    <3>1. CASE Cardinality(s) <= n
      <4> HIDE DEF Adds
      <4> QED
        BY <1>2, <3>1
    <3>2. CASE s = {}
      <4>1. g[s] = 0 /\ \A x \in s : FALSE
        BY <1>0, <3>2 DEF Body
      <4> QED
        BY <4>1
    <3>3. CASE s # {}
      <4> DEFINE c == Pick(s)
      <4>1. c \in s /\ g[s] = f[c] + g[s \ {c}]
        BY <1>0, <3>3, PickIn DEF Body
      <4>2. \A t \in SUBSET s : t # s => Cardinality(t) <= n /\ t \in SUBSET U
        <5> SUFFICES ASSUME NEW t \in SUBSET s, t # s PROVE Cardinality(t) <= n
          OBVIOUS
        <5>1. PICK x : x \in s /\ x \notin t
          OBVIOUS
        <5>2. IsFiniteSet(s \ {x}) /\ Cardinality(s \ {x}) = Cardinality(s) - 1
          BY <1>0, <5>1, FS_RemoveElement
        <5>3. t \subseteq s \ {x}
          BY <5>1
        <5>4. Cardinality(t) <= Cardinality(s \ {x})
          BY <5>2, <5>3, FS_Subset
        <5> QED
          BY <1>0, <2>0, <5>2, <5>4
      <4>3. \A t \in SUBSET s : t # s => Adds(t)
        <5> HIDE DEF Adds
        <5> QED
          BY <1>2, <4>2
      <4>4. f[c] \in Int
        BY <4>1
      <4> HIDE DEF c
      <4>5. g[s \ {c}] \in Int
        BY <4>1, <4>3
      <4>6. g[s] \in Int
        BY <4>1, <4>4, <4>5
      <4>7. ASSUME NEW x \in s PROVE g[s] = g[s \ {x}] + f[x]
        <5>1. CASE x = c
          BY <4>1, <4>4, <4>5, <5>1
        <5>2. CASE x # c
          <6>1. /\ x \in s \ {c} /\ c \in s \ {x} /\ (s \ {c}) \ {x} = (s \ {x}) \ {c}
                /\ s \ {c} # s /\ s \ {x} # s /\ (s \ {x}) \ {c} # s
            BY <4>1, <5>2
          <6>2. /\ g[s \ {c}] = g[(s \ {x}) \ {c}] + f[x]
                /\ g[s \ {x}] = g[(s \ {x}) \ {c}] + f[c]
                /\ g[(s \ {x}) \ {c}] \in Int
            BY <4>3, <6>1
          <6>3. f[x] \in Int
            OBVIOUS
          <6> QED
            BY <4>1, <4>4, <6>2, <6>3
        <5> QED
          BY <5>1, <5>2
      <4> QED
        BY <4>6, <4>7
    <3> QED
      BY <3>2, <3>3
  <2> HIDE DEF Adds
  <2> QED
    BY <2>0
<1>3. Nat \subseteq T
  <2> HIDE DEF T
  <2> QED
    BY <1>1, <1>2, NatInduct
<1>4. \A s \in SUBSET U : Adds(s)
  <2> HIDE DEF Adds
  <2>1. \A s \in SUBSET U : Cardinality(s) \in T /\ Cardinality(s) <= Cardinality(s)
    <3> HIDE DEF T
    <3> QED
      BY <1>0, <1>3
  <2> QED
    BY <2>1
<1> QED
  BY <1>4

--------------------------------------------------------------------------------
(* Sums over finite sets.                                                    *)

LEMMA SigmaEmpty == ASSUME NEW f PROVE Sigma(f, {}) = 0
<1>1. PICK g : IsIter(g, f, {}) /\ Sigma(f, {}) = g[{}]
  BY FS_EmptySet, SigmaIter
<1> QED
  BY <1>1, IterValue DEF Body

LEMMA SigmaAdd ==
  ASSUME NEW f, NEW S, IsFiniteSet(S), NEW x, x \notin S, \A y \in S \cup {x} : f[y] \in Int
  PROVE  /\ Sigma(f, S) \in Int
         /\ Sigma(f, S \cup {x}) = Sigma(f, S) + f[x]
<1> DEFINE U == S \cup {x}
<1>1. IsFiniteSet(U)
  BY FS_AddElement
<1>2. PICK g : IsIter(g, f, U) /\ Sigma(f, U) = g[U]
  BY <1>1, SigmaIter
<1>3. PICK h : IsIter(h, f, S) /\ Sigma(f, S) = h[S]
  BY SigmaIter
<1>4. g[S] = h[S]
  BY <1>2, <1>3, IterUnique
<1>5. g[S] \in Int /\ g[U] = g[U \ {x}] + f[x]
  BY <1>1, <1>2, IterAdd
<1>6. U \ {x} = S
  OBVIOUS
<1> QED
  BY <1>2, <1>3, <1>4, <1>5, <1>6

\* A sum of integers is one, of naturals a natural.
LEMMA SigmaType ==
  ASSUME NEW f, NEW S, IsFiniteSet(S), \A x \in S : f[x] \in Int
  PROVE  /\ Sigma(f, S) \in Int
         /\ (\A x \in S : f[x] >= 0) => Sigma(f, S) >= 0
<1> DEFINE F == {V \in SUBSET S : Sigma(f, V) \in Int /\ ((\A x \in V : f[x] >= 0) => Sigma(f, V) >= 0)}
<1>1. {} \in F
  BY SigmaEmpty
<1>2. ASSUME NEW V \in SUBSET S, NEW x \in S \ V, V \in F PROVE V \cup {x} \in F
  <2>1. IsFiniteSet(V) /\ Sigma(f, V \cup {x}) = Sigma(f, V) + f[x]
    BY <1>2, FS_Subset, SigmaAdd
  <2> QED
    BY <1>2, <2>1
<1>3. S \in F
  <2> HIDE DEF F
  <2> QED
    BY <1>1, <1>2, FiniteInduct
<1> QED
  BY <1>3

\* Sums are monotonic, and depend on nothing but the summands.
LEMMA SigmaLeq ==
  ASSUME NEW f, NEW g, NEW S, IsFiniteSet(S), \A x \in S : f[x] \in Int /\ g[x] \in Int /\ f[x] <= g[x]
  PROVE  Sigma(f, S) <= Sigma(g, S)
<1> DEFINE F == {V \in SUBSET S : Sigma(f, V) \in Int /\ Sigma(g, V) \in Int /\ Sigma(f, V) <= Sigma(g, V)}
<1>1. {} \in F
  BY SigmaEmpty
<1>2. ASSUME NEW V \in SUBSET S, NEW x \in S \ V, V \in F PROVE V \cup {x} \in F
  <2>1. /\ IsFiniteSet(V) /\ Sigma(f, V \cup {x}) = Sigma(f, V) + f[x]
        /\ Sigma(g, V \cup {x}) = Sigma(g, V) + g[x]
    BY <1>2, FS_Subset, SigmaAdd
  <2> QED
    BY <1>2, <2>1
<1>3. S \in F
  <2> HIDE DEF F
  <2> QED
    BY <1>1, <1>2, FiniteInduct
<1> QED
  BY <1>3

LEMMA SigmaSame ==
  ASSUME NEW f, NEW g, NEW S, IsFiniteSet(S), \A x \in S : f[x] \in Int /\ f[x] = g[x]
  PROVE  Sigma(f, S) = Sigma(g, S)
<1>1. Sigma(f, S) \in Int /\ Sigma(g, S) \in Int
  BY SigmaType
<1>2. Sigma(f, S) <= Sigma(g, S) /\ Sigma(g, S) <= Sigma(f, S)
  BY SigmaLeq
<1> QED
  BY <1>1, <1>2

\* Sums are linear.
LEMMA SigmaLinear ==
  ASSUME NEW f, NEW g, NEW h, NEW k \in Int, NEW S, IsFiniteSet(S),
         \A x \in S : f[x] \in Int /\ g[x] \in Int /\ h[x] = f[x] + k * g[x]
  PROVE  Sigma(h, S) = Sigma(f, S) + k * Sigma(g, S)
<1> DEFINE F == {V \in SUBSET S : /\ Sigma(f, V) \in Int /\ Sigma(g, V) \in Int
                                /\ Sigma(h, V) = Sigma(f, V) + k * Sigma(g, V)}
<1>1. {} \in F
  BY SigmaEmpty
<1>2. ASSUME NEW V \in SUBSET S, NEW x \in S \ V, V \in F PROVE V \cup {x} \in F
  <2>1. IsFiniteSet(V) /\ \A y \in S : h[y] \in Int
    BY FS_Subset
  <2>2. /\ Sigma(f, V \cup {x}) = Sigma(f, V) + f[x]
        /\ Sigma(g, V \cup {x}) = Sigma(g, V) + g[x]
        /\ Sigma(h, V \cup {x}) = Sigma(h, V) + h[x]
    BY <1>2, <2>1, SigmaAdd
  <2>3. k * (Sigma(g, V) + g[x]) = k * Sigma(g, V) + k * g[x]
    BY <1>2
  <2> QED
    BY <1>2, <2>2, <2>3
<1>3. S \in F
  <2> HIDE DEF F
  <2> QED
    BY <1>1, <1>2, FiniteInduct
<1> QED
  BY <1>3

\* Sums over disjoint sets add up.
LEMMA SigmaUnion ==
  ASSUME NEW f, NEW R, NEW S, IsFiniteSet(R), IsFiniteSet(S), R \cap S = {},
         \A x \in R \cup S : f[x] \in Int
  PROVE  Sigma(f, R \cup S) = Sigma(f, R) + Sigma(f, S)
<1> DEFINE F == {V \in SUBSET S : Sigma(f, V) \in Int /\ Sigma(f, R \cup V) = Sigma(f, R) + Sigma(f, V)}
<1>1. {} \in F
  BY SigmaEmpty, SigmaType
<1>2. ASSUME NEW V \in SUBSET S, NEW x \in S \ V, V \in F PROVE V \cup {x} \in F
  <2>1. IsFiniteSet(V) /\ IsFiniteSet(R \cup V) /\ x \notin R \cup V
    BY FS_Subset, FS_Union
  <2>2. /\ Sigma(f, V \cup {x}) = Sigma(f, V) + f[x]
        /\ Sigma(f, (R \cup V) \cup {x}) = Sigma(f, R \cup V) + f[x]
    BY <2>1, SigmaAdd
  <2>3. Sigma(f, R) \in Int
    BY SigmaType
  <2>4. R \cup (V \cup {x}) = (R \cup V) \cup {x} /\ f[x] \in Int
    OBVIOUS
  <2> HIDE DEF F
  <2>5. /\ Sigma(f, V) \in Int
        /\ Sigma(f, R \cup V) = Sigma(f, R) + Sigma(f, V)
    BY <1>2 DEF F
  <2>6. /\ Sigma(f, V \cup {x}) \in Int
        /\ Sigma(f, R \cup (V \cup {x})) = Sigma(f, R) + Sigma(f, V \cup {x})
    BY <2>2, <2>3, <2>4, <2>5
  <2> QED
    BY <2>6 DEF F
<1>3. S \in F
  <2> HIDE DEF F
  <2> QED
    BY <1>1, <1>2, FiniteInduct
<1> QED
  BY <1>3

UnionOf(part, S)     == UNION {part[i] : i \in S}
PartSums(f, part, S) == [i \in S |-> Sigma(f, part[i])]
Apart(f, part, S) ==
  /\ \A i \in S : IsFiniteSet(part[i]) /\ \A x \in part[i] : f[x] \in Int
  /\ \A i, j \in S : i # j => part[i] \cap part[j] = {}

ImageOf(m, S)  == {m[x] : x \in S}
Along(f, m, S) == [x \in S |-> f[m[x]]]
OneToOne(f, m, S) ==
  /\ \A x \in S : f[m[x]] \in Int
  /\ \A x, y \in S : m[x] = m[y] => x = y

\* A sum over parts that do not overlap is the sum of their sums.
LEMMA SigmaUnions ==
  ASSUME NEW f, NEW part, NEW S, IsFiniteSet(S), Apart(f, part, S)
  PROVE  /\ IsFiniteSet(UnionOf(part, S))
         /\ Sigma(f, UnionOf(part, S)) = Sigma(PartSums(f, part, S), S)
<1>1. /\ \A i \in S : IsFiniteSet(part[i]) /\ \A x \in part[i] : f[x] \in Int
      /\ \A i, j \in S : i # j => part[i] \cap part[j] = {}
  BY DEF Apart
<1> DEFINE s == [i \in S |-> Sigma(f, part[i])]
<1>2. \A i \in S : s[i] = Sigma(f, part[i]) /\ s[i] \in Int
  BY <1>1, SigmaType
<1> HIDE DEF s
<1> DEFINE F == {V \in SUBSET S : /\ IsFiniteSet(UNION {part[i] : i \in V})
                                /\ Sigma(f, UNION {part[i] : i \in V}) = Sigma(s, V)}
<1>3. {} \in F
  <2>1. UNION {part[i] : i \in {}} = {}
    OBVIOUS
  <2> QED
    BY <2>1, SigmaEmpty, FS_EmptySet
<1>4. ASSUME NEW V \in SUBSET S, NEW x \in S \ V, V \in F PROVE V \cup {x} \in F
  <2> DEFINE all == UNION {part[i] : i \in V}
  <2>1. UNION {part[i] : i \in V \cup {x}} = all \cup part[x]
    OBVIOUS
  <2>2. all \cap part[x] = {} /\ \A y \in all \cup part[x] : f[y] \in Int
    BY <1>1
  <2>3. IsFiniteSet(all) /\ Sigma(f, all) = Sigma(s, V) /\ IsFiniteSet(V)
    BY <1>4, FS_Subset
  <2> HIDE DEF all
  <2>4. IsFiniteSet(all \cup part[x]) /\ Sigma(f, all \cup part[x]) = Sigma(f, all) + Sigma(f, part[x])
    BY <1>1, <2>2, <2>3, FS_Union, SigmaUnion
  <2>5. Sigma(s, V \cup {x}) = Sigma(s, V) + s[x]
    BY <1>2, <2>3, SigmaAdd
  <2>6. IsFiniteSet(UNION {part[i] : i \in V \cup {x}}) /\ Sigma(f, UNION {part[i] : i \in V \cup {x}}) = Sigma(s, V \cup {x})
    BY <1>2, <2>1, <2>3, <2>4, <2>5
  <2> QED
    BY <2>6
<1>5. S \in F
  <2> HIDE DEF F
  <2> QED
    BY <1>3, <1>4, FiniteInduct
<1> QED
  BY <1>5 DEF s, PartSums, UnionOf

\* A sum over the images of a one-to-one function.
LEMMA SigmaImage ==
  ASSUME NEW f, NEW m, NEW S, IsFiniteSet(S), OneToOne(f, m, S)
  PROVE  IsFiniteSet(ImageOf(m, S)) /\ Sigma(f, ImageOf(m, S)) = Sigma(Along(f, m, S), S)
<1>1. /\ \A x \in S : f[m[x]] \in Int
      /\ \A x, y \in S : m[x] = m[y] => x = y
  BY DEF OneToOne
<1> DEFINE s == [x \in S |-> f[m[x]]]
<1>2. \A x \in S : s[x] = f[m[x]] /\ s[x] \in Int
  BY <1>1
<1> HIDE DEF s
<1> DEFINE F == {V \in SUBSET S : /\ IsFiniteSet({m[y] : y \in V})
                                /\ Sigma(f, {m[y] : y \in V}) = Sigma(s, V)}
<1>3. {} \in F
  <2>1. {m[y] : y \in {}} = {}
    OBVIOUS
  <2> QED
    BY <2>1, SigmaEmpty, FS_EmptySet
<1>4. ASSUME NEW V \in SUBSET S, NEW x \in S \ V, V \in F PROVE V \cup {x} \in F
  <2> DEFINE all == {m[y] : y \in V}
  <2>1. {m[y] : y \in V \cup {x}} = all \cup {m[x]}
    OBVIOUS
  <2>2. m[x] \notin all /\ \A y \in all \cup {m[x]} : f[y] \in Int
    BY <1>1
  <2>3. IsFiniteSet(all) /\ Sigma(f, all) = Sigma(s, V) /\ IsFiniteSet(V)
    BY <1>4, FS_Subset
  <2> HIDE DEF all
  <2> DEFINE y == m[x]
  <2> HIDE DEF y
  <2>4. IsFiniteSet(all \cup {y}) /\ Sigma(f, all \cup {y}) = Sigma(f, all) + f[y]
    <3>1. y \notin all /\ \A z \in all \cup {y} : f[z] \in Int
      BY <2>2 DEF y
    <3>2. IsFiniteSet(all \cup {y})
      BY <2>3, FS_AddElement
    <3> QED
      BY <2>3, <3>1, <3>2, SigmaAdd
  <2>5. Sigma(s, V \cup {x}) = Sigma(s, V) + s[x]
    BY <1>2, <2>3, SigmaAdd
  <2>6. IsFiniteSet({m[z] : z \in V \cup {x}}) /\ Sigma(f, {m[z] : z \in V \cup {x}}) = Sigma(s, V \cup {x})
    BY <1>2, <2>1, <2>3, <2>4, <2>5 DEF y
  <2> QED
    BY <2>6
<1>5. S \in F
  <2> HIDE DEF F
  <2> QED
    BY <1>3, <1>4, FiniteInduct
<1> QED
  BY <1>5 DEF s, Along, ImageOf

\* Counting is adding ones.
LEMMA SigmaOne ==
  ASSUME NEW f, NEW S, IsFiniteSet(S), \A x \in S : f[x] = 1
  PROVE  Sigma(f, S) = Cardinality(S)
<1> DEFINE F == {V \in SUBSET S : Sigma(f, V) = Cardinality(V)}
<1>1. {} \in F
  BY SigmaEmpty, FS_EmptySet
<1>2. ASSUME NEW V \in SUBSET S, NEW x \in S \ V, V \in F PROVE V \cup {x} \in F
  <2>1. IsFiniteSet(V) /\ Cardinality(V) \in Nat
    BY FS_Subset, FS_CardinalityType
  <2>2. Sigma(f, V \cup {x}) = Sigma(f, V) + f[x] /\ Cardinality(V \cup {x}) = Cardinality(V) + 1
    BY <2>1, SigmaAdd, FS_AddElement
  <2> QED
    BY <1>2, <2>2
<1>3. S \in F
  <2> HIDE DEF F
  <2> QED
    BY <1>1, <1>2, FiniteInduct
<1> QED
  BY <1>3

--------------------------------------------------------------------------------
(* Division by the length of a period.                                       *)

LEMMA MulMono == ASSUME NEW a \in Nat, NEW b \in Nat, NEW n \in Nat, a <= b PROVE a * n <= b * n
<1>1. PICK k \in Nat : b = a + k
  <2>1. b - a \in Nat /\ b = a + (b - a)
   OBVIOUS
  <2> QED BY <2>1
<1>2. b * n = a * n + k * n /\ a * n \in Nat /\ k * n \in Nat
  BY <1>1
<1> QED BY <1>2

LEMMA DivLaws ==
  ASSUME NEW x \in Nat, NEW n \in Nat \ {0}
  PROVE  /\ x \div n \in Nat /\ (x \div n) * n <= x /\ x < (x \div n + 1) * n
OBVIOUS

LEMMA DivUnique ==
  ASSUME NEW x \in Nat, NEW n \in Nat \ {0}, NEW d \in Nat, d * n <= x, x < (d + 1) * n
  PROVE  x \div n = d
<1> DEFINE e == x \div n
<1>1. e \in Nat /\ e * n <= x /\ x < (e + 1) * n
  BY DivLaws
<1> HIDE DEF e
<1>2. e < d => FALSE
  <2> SUFFICES ASSUME e < d PROVE FALSE
    OBVIOUS
  <2>1. (e + 1) * n <= d * n
    BY <1>1, MulMono
  <2>2. (e + 1) * n \in Nat /\ d * n \in Nat
    BY <1>1
  <2> QED BY <1>1, <2>1, <2>2
<1>3. d < e => FALSE
  <2> SUFFICES ASSUME d < e PROVE FALSE
    OBVIOUS
  <2>1. (d + 1) * n <= e * n
    BY <1>1, MulMono
  <2>2. (d + 1) * n \in Nat /\ e * n \in Nat
    BY <1>1
  <2> QED BY <1>1, <2>1, <2>2
<1> QED BY <1>1, <1>2, <1>3 DEF e

LEMMA DivMono ==
  ASSUME NEW x \in Nat, NEW y \in Nat, x <= y, NEW n \in Nat \ {0}
  PROVE  x \div n <= y \div n
<1> DEFINE d == x \div n
           e == y \div n
<1>1. d \in Nat /\ d * n <= x /\ e \in Nat /\ y < (e + 1) * n
  BY DivLaws
<1> HIDE DEF d, e
<1> SUFFICES ASSUME e < d PROVE FALSE
  BY <1>1 DEF d, e
<1>2. (e + 1) * n <= d * n /\ (e + 1) * n \in Nat /\ d * n \in Nat
  BY <1>1, MulMono
<1> QED
  BY <1>1, <1>2

--------------------------------------------------------------------------------
(* Reports                                                                   *)

AmountOf  == [p \in Payment |-> p.amount]
TotalOf   == [i \in Invoice |-> Total(i)]
PaidOf(P) == [i \in Invoice |-> Sum(Of(i, P))]
BalanceOf(P) == [i \in Invoice |-> Balance(i, P)]

\* What the tables of invoices and payments are like.
Tables(I, P) ==
  /\ I \subseteq Invoice /\ IsFiniteSet(I)
  /\ P \subseteq Payment /\ IsFiniteSet(P)
  /\ \A i, j \in I : i.id = j.id => i = j
  /\ \A p, q \in P : p.id = q.id => p = q
  /\ \A p \in P : \E i \in I : i.id = p.of
  /\ \A p \in P, i \in I : i.id = p.of => i.at <= p.at

LEMMA TotalType ==
  ASSUME NEW i \in Invoice
  PROVE  /\ Total(i) \in Nat /\ Gst(i.sum, Rate) \in Nat /\ i.sum \in Nat
         /\ Total(i) = i.sum + 100 * Gst(i.sum, Rate)
<1>1. i.sum \in Nat /\ Rate \in Nat
  BY BookAssumption DEF Invoice
<1> DEFINE x == i.sum * Rate
<1>2. x \in Nat
  BY <1>1
<1> HIDE DEF x
<1>3. (x + 5000) \div 10000 \in Nat
  BY <1>2
<1>4. Gst(i.sum, Rate) \in Nat
  BY <1>3 DEF Gst, x
<1> QED
  BY <1>1, <1>4 DEF Total, TotalPaise

LEMMA AmountType == ASSUME NEW p \in Payment PROVE AmountOf[p] = p.amount /\ p.amount \in Nat \ {0}
BY BookAssumption DEF AmountOf, Payment

LEMMA SumIs ==
  ASSUME NEW P, P \subseteq Payment, IsFiniteSet(P)
  PROVE  Sum(P) = Sigma(AmountOf, P)
<1> DEFINE f == [p \in P |-> p.amount]
<1>1. Sum(P) = Sigma(f, P)
  BY DEF Sum, SumFunction, Sigma
<1>2. \A p \in P : f[p] \in Int /\ f[p] = AmountOf[p]
  BY AmountType
<1> HIDE DEF f
<1> QED
  BY <1>1, <1>2, SigmaSame

\* What was paid adds up, and is never negative.
LEMMA SumLaws ==
  ASSUME NEW P, P \subseteq Payment, IsFiniteSet(P)
  PROVE  /\ Sum(P) \in Nat
         /\ \A Q \in SUBSET P : /\ IsFiniteSet(Q) /\ Sum(Q) \in Nat /\ Sum(Q) <= Sum(P)
                                /\ Sum(P) = Sum(Q) + Sum(P \ Q)
<1>1. \A Q \in SUBSET P : IsFiniteSet(Q) /\ Sum(Q) = Sigma(AmountOf, Q) /\ Sum(Q) \in Nat
  <2> SUFFICES ASSUME NEW Q \in SUBSET P
               PROVE  IsFiniteSet(Q) /\ Sum(Q) = Sigma(AmountOf, Q) /\ Sum(Q) \in Nat
    OBVIOUS
  <2>1. IsFiniteSet(Q)
    BY FS_Subset
  <2>2. Sum(Q) = Sigma(AmountOf, Q)
    BY <2>1, SumIs
  <2>3. \A p \in Q : AmountOf[p] \in Int /\ AmountOf[p] >= 0
    BY AmountType
  <2>4. Sigma(AmountOf, Q) \in Int /\ Sigma(AmountOf, Q) >= 0
    BY <2>1, <2>3, SigmaType
  <2> QED
    BY <2>1, <2>2, <2>4
<1>2. ASSUME NEW Q \in SUBSET P PROVE Sum(P) = Sum(Q) + Sum(P \ Q)
  <2>1. Q \cup (P \ Q) = P /\ Q \cap (P \ Q) = {} /\ \A p \in Q \cup (P \ Q) : AmountOf[p] \in Int
    BY AmountType
  <2>2. Sigma(AmountOf, Q \cup (P \ Q)) = Sigma(AmountOf, Q) + Sigma(AmountOf, P \ Q)
    BY <1>1, <2>1, SigmaUnion
  <2> QED
    BY <1>1, <2>1, <2>2
<1> QED
  BY <1>1, <1>2

\* A balance, and when it is owed.
LEMMA BalanceLaws ==
  ASSUME NEW P, P \subseteq Payment, IsFiniteSet(P), NEW i \in Invoice
  PROVE  /\ Sum(Of(i, P)) \in Nat /\ Balance(i, P) \in Int
         /\ Balance(i, P) = Total(i) - Sum(Of(i, P))
         /\ PaidOf(P)[i] = Sum(Of(i, P)) /\ TotalOf[i] = Total(i) /\ Total(i) \in Nat
         /\ BalanceOf(P)[i] = Balance(i, P)
         /\ IF Settles(Sum(Of(i, P)), i.sum, Rate) THEN Balance(i, P) <= 0 ELSE Balance(i, P) >= 0
<1>1. Of(i, P) \in SUBSET P
  BY DEF Of
<1>2. Sum(Of(i, P)) \in Nat
  BY <1>1, SumLaws
<1>3. Total(i) \in Nat /\ Total(i) = TotalPaise(i.sum, Rate)
  BY TotalType DEF Total
<1>4. Balance(i, P) = Total(i) - Sum(Of(i, P))
  BY DEF Balance
<1>5. CASE Settles(Sum(Of(i, P)), i.sum, Rate)
  <2>1. Sum(Of(i, P)) >= TotalPaise(i.sum, Rate)
    BY <1>2, <1>3, <1>5 DEF Settles
  <2>2. Balance(i, P) <= 0
    BY <2>1, <1>2, <1>3, <1>4
  <2> QED
    BY <1>2, <1>3, <1>4, <1>5, <2>2 DEF PaidOf, TotalOf, BalanceOf
<1>6. CASE ~Settles(Sum(Of(i, P)), i.sum, Rate)
  <2>1. Sum(Of(i, P)) <= TotalPaise(i.sum, Rate)
    BY <1>2, <1>3, <1>6 DEF Settles
  <2>2. Balance(i, P) >= 0
    BY <2>1, <1>2, <1>3, <1>4
  <2> QED
    BY <1>2, <1>3, <1>4, <1>6, <2>2 DEF PaidOf, TotalOf, BalanceOf
<1> QED
  BY <1>5, <1>6

\* The sums over invoices that the reports make.
LEMMA InvoiceSums ==
  ASSUME NEW I, I \subseteq Invoice, IsFiniteSet(I), NEW P, P \subseteq Payment, IsFiniteSet(P)
  PROVE  /\ Bill(I) = Sigma(TotalOf, I) /\ Bill(I) \in Nat
         /\ Sigma(BalanceOf(P), I) \in Int /\ Sigma(PaidOf(P), I) \in Nat
         /\ Sigma(TotalOf, I) = Sigma(BalanceOf(P), I) + Sigma(PaidOf(P), I)
         /\ Owed(I, P) \in SUBSET I /\ IsFiniteSet(Owed(I, P)) /\ IsFiniteSet(I \ Owed(I, P))
         /\ Outstanding(I, P) = Sigma(BalanceOf(P), Owed(I, P)) /\ Outstanding(I, P) \in Nat
         /\ Overpaid(I, P) = -Sigma(BalanceOf(P), I \ Owed(I, P)) /\ Overpaid(I, P) \in Nat
         /\ Sigma(BalanceOf(P), I) = Outstanding(I, P) - Overpaid(I, P)
<1> DEFINE T == TotalOf
           B == BalanceOf(P)
           R == PaidOf(P)
           A == Owed(I, P)
           N == I \ Owed(I, P)
<1>1. /\ A \in SUBSET I /\ IsFiniteSet(A) /\ IsFiniteSet(N) /\ A \cup N = I /\ A \cap N = {}
      /\ N \subseteq I
  <2>1. A \in SUBSET I /\ N \in SUBSET I
    BY DEF Owed
  <2> QED
    BY <2>1, FS_Subset
<1>2. \A i \in I : /\ T[i] = Total(i) /\ T[i] \in Nat /\ R[i] \in Nat /\ B[i] \in Int
                   /\ B[i] = Balance(i, P) /\ T[i] = B[i] + 1 * R[i]
  <2> SUFFICES ASSUME NEW i \in I
               PROVE  /\ T[i] = Total(i) /\ T[i] \in Nat /\ R[i] \in Nat /\ B[i] \in Int
                      /\ B[i] = Balance(i, P) /\ T[i] = B[i] + 1 * R[i]
    OBVIOUS
  <2>1. i \in Invoice
    OBVIOUS
  <2> QED
    BY <2>1, BalanceLaws
<1>3. (\A i \in A : B[i] >= 0) /\ (\A i \in N : B[i] <= 0)
  <2>1. \A i \in A : i \in Invoice /\ ~Settles(Sum(Of(i, P)), i.sum, Rate)
    BY DEF Owed
  <2>2. \A i \in N : i \in Invoice /\ Settles(Sum(Of(i, P)), i.sum, Rate)
    BY DEF Owed
  <2> QED
    BY <2>1, <2>2, BalanceLaws
<1> HIDE DEF T, B, R, A, N
<1>4. Sigma(T, I) \in Nat /\ Sigma(R, I) \in Nat /\ Sigma(B, I) \in Int
  BY <1>2, SigmaType
<1>5. Sigma(T, I) = Sigma(B, I) + 1 * Sigma(R, I)
  BY <1>2, SigmaLinear
<1>6. Bill(I) = Sigma(T, I)
  <2> DEFINE f == [i \in I |-> Total(i)]
  <2>1. Bill(I) = Sigma(f, I)
    BY DEF Bill, SumFunction, Sigma
  <2>2. \A i \in I : f[i] \in Int /\ f[i] = T[i]
    BY <1>2
  <2> HIDE DEF f
  <2> QED
    BY <2>1, <2>2, SigmaSame
<1>7. Outstanding(I, P) = Sigma(B, A) /\ Sigma(B, A) \in Nat
  <2> DEFINE f == [i \in A |-> Balance(i, P)]
  <2>1. Outstanding(I, P) = Sigma(f, A)
    BY DEF Outstanding, SumFunction, Sigma, A
  <2>2. \A i \in A : f[i] \in Int /\ f[i] = B[i]
    BY <1>1, <1>2
  <2>3. \A i \in A : B[i] \in Int
    BY <1>1, <1>2
  <2> HIDE DEF f
  <2>4. Sigma(B, A) \in Int /\ Sigma(B, A) >= 0
    BY <1>1, <1>3, <2>3, SigmaType
  <2> QED
    BY <1>1, <2>1, <2>2, <2>4, SigmaSame
<1>8. Overpaid(I, P) = -Sigma(B, N) /\ -Sigma(B, N) \in Nat
  <2> DEFINE f == [i \in N |-> -Balance(i, P)]
             z == [i \in N |-> 0]
  <2>1. Overpaid(I, P) = Sigma(f, N)
    BY DEF Overpaid, SumFunction, Sigma, N
  <2>2. \A i \in N : f[i] \in Int /\ f[i] >= 0 /\ z[i] = 0 /\ B[i] \in Int /\ z[i] \in Int /\ z[i] = f[i] + 1 * B[i]
    BY <1>1, <1>2, <1>3
  <2> HIDE DEF f, z
  <2>3. Sigma(f, N) \in Int /\ Sigma(f, N) >= 0 /\ Sigma(B, N) \in Int
    BY <1>1, <2>2, SigmaType
  <2>4. Sigma(z, N) = Sigma(f, N) + 1 * Sigma(B, N)
    BY <1>1, <2>2, SigmaLinear
  <2>5. Sigma(z, N) = 0
    <3>1. \A i \in N : z[i] = z[i] + (-1) * z[i]
      BY <2>2
    <3>2. Sigma(z, N) = Sigma(z, N) + (-1) * Sigma(z, N)
      BY <1>1, <2>2, <3>1, SigmaLinear
    <3>3. Sigma(z, N) \in Int
      BY <1>1, <2>2, SigmaType
    <3> QED
      BY <3>2, <3>3
  <2> QED
    BY <2>1, <2>3, <2>4, <2>5
<1>9. Sigma(B, I) = Sigma(B, A) + Sigma(B, N)
  <2>1. \A i \in A \cup N : B[i] \in Int
    BY <1>1, <1>2
  <2>2. Sigma(B, A \cup N) = Sigma(B, A) + Sigma(B, N)
    BY <1>1, <2>1, SigmaUnion
  <2> QED
    BY <1>1, <2>2
<1>10. Sigma(B, N) \in Int
  BY <1>1, <1>2, SigmaType
<1> QED
  BY <1>1, <1>4, <1>5, <1>6, <1>7, <1>8, <1>9, <1>10 DEF T, B, R, A, N

\* Every payment is of one invoice.
LEMMA PaymentsOfInvoices ==
  ASSUME NEW I, NEW P, Tables(I, P)
  PROVE  Sigma(PaidOf(P), I) = Sum(P)
<1> DEFINE part == [i \in I |-> Of(i, P)]
<1>1. \A i \in I : /\ part[i] = Of(i, P) /\ part[i] \in SUBSET P
                   /\ IsFiniteSet(part[i]) /\ part[i] \subseteq Payment
  <2>1. \A i \in I : part[i] = Of(i, P) /\ part[i] \in SUBSET P
    BY DEF Of
  <2> QED
    BY <2>1, FS_Subset DEF Tables
<1>2. UNION {part[i] : i \in I} = P
  BY DEF Tables, Of
<1>3. \A i, j \in I : i # j => part[i] \cap part[j] = {}
  BY DEF Tables, Of
<1>4. Apart(AmountOf, part, I)
  BY <1>1, <1>3, AmountType DEF Apart
<1>5. UnionOf(part, I) = P
  BY <1>2 DEF UnionOf
<1>6. PartSums(AmountOf, part, I) = [i \in I |-> Sum(Of(i, P))]
  <2>1. \A i \in I : Sigma(AmountOf, part[i]) = Sum(Of(i, P))
    BY <1>1, SumIs
  <2> HIDE DEF part
  <2> QED
    BY <2>1 DEF PartSums
<1> HIDE DEF part
<1> DEFINE s == [i \in I |-> Sum(Of(i, P))]
<1>7. \A i \in I : s[i] \in Int /\ s[i] = PaidOf(P)[i]
  <2>1. \A i \in I : PaidOf(P)[i] = Sum(Of(i, P)) /\ Sum(Of(i, P)) \in Int
    BY BalanceLaws DEF Tables
  <2> QED
    BY <2>1
<1> HIDE DEF s
<1>8. IsFiniteSet(I) /\ IsFiniteSet(P) /\ P \subseteq Payment
  BY DEF Tables
<1>9. Sigma(AmountOf, P) = Sigma(s, I)
  BY <1>4, <1>5, <1>6, <1>8, SigmaUnions DEF s
<1> QED
  BY <1>7, <1>8, <1>9, SumIs, SigmaSame

\* What was billed is outstanding or paid.
LEMMA BilledIsCovered ==
  ASSUME NEW I, NEW P, Tables(I, P)
  PROVE  /\ Bill(I) \in Nat /\ Outstanding(I, P) \in Nat /\ Sum(P) \in Nat
         /\ Bill(I) <= Outstanding(I, P) + Sum(P)
<1>1. I \subseteq Invoice /\ IsFiniteSet(I) /\ P \subseteq Payment /\ IsFiniteSet(P)
  BY DEF Tables
<1>2. /\ Bill(I) \in Nat /\ Outstanding(I, P) \in Nat /\ Overpaid(I, P) \in Nat
      /\ Bill(I) = Outstanding(I, P) - Overpaid(I, P) + Sigma(PaidOf(P), I)
  BY <1>1, InvoiceSums
<1>3. Sum(P) \in Nat
  BY <1>1, SumLaws
<1> QED
  BY <1>2, <1>3, PaymentsOfInvoices

--------------------------------------------------------------------------------
Reading ==
  /\ step = 2 => billed <= outstanding + Sum(payments)
  /\ SummaryNeverShort

BooksIInv ==
  /\ BooksTypeOK /\ Tables(invoices, payments)
  /\ \A i \in invoices : i.at <= now
  /\ Reading

OtherDays(P) == {p \in P : p.at \notin DayOf(asked)}

\* A payment that is stored adds to what was paid, on its day and at all.
LEMMA PaymentAdds ==
  ASSUME NEW P, P \subseteq Payment, IsFiniteSet(P), NEW p \in Payment
  PROVE  /\ IsFiniteSet(P \cup {p})
         /\ Sum(P) \in Nat /\ Sum(P \cup {p}) \in Nat /\ Sum(P) <= Sum(P \cup {p})
         /\ Sum(OtherDays(P)) \in Nat /\ Sum(OtherDays(P \cup {p})) \in Nat
         /\ Sum(OtherDays(P)) <= Sum(OtherDays(P \cup {p}))
<1>1. IsFiniteSet(P \cup {p}) /\ P \cup {p} \subseteq Payment
  BY FS_AddElement
<1>2. /\ P \in SUBSET (P \cup {p}) /\ OtherDays(P) \in SUBSET P
      /\ OtherDays(P \cup {p}) \in SUBSET (P \cup {p})
      /\ OtherDays(P) \in SUBSET OtherDays(P \cup {p})
  BY DEF OtherDays
<1>3. OtherDays(P \cup {p}) \subseteq Payment /\ IsFiniteSet(OtherDays(P \cup {p}))
  BY <1>1, <1>2, FS_Subset
<1>4. Sum(P) \in Nat /\ Sum(P \cup {p}) \in Nat /\ Sum(P) <= Sum(P \cup {p})
  BY <1>1, <1>2, SumLaws
<1>5. Sum(OtherDays(P)) \in Nat /\ Sum(OtherDays(P)) <= Sum(OtherDays(P \cup {p}))
      /\ Sum(OtherDays(P \cup {p})) \in Nat
  BY <1>2, <1>3, SumLaws
<1> QED
  BY <1>1, <1>4, <1>5

LEMMA ReadingUnfolded ==
  Reading <=> /\ step = 2 => billed <= outstanding + Sum(payments)
              /\ step = 3 => billed <= outstanding + collectedToday + Sum(OtherDays(payments))
BY DEF Reading, SummaryNeverShort, OtherDays

LEMMA BooksStart == BooksInit => BooksIInv
<1> SUFFICES ASSUME BooksInit PROVE BooksIInv
  OBVIOUS
<1>1. BooksTypeOK
  BY BookAssumption DEF BooksInit, BooksTypeOK
<1>2. Tables(invoices, payments) /\ \A i \in invoices : i.at <= now
  BY FS_EmptySet DEF BooksInit, Tables
<1>3. Reading
  BY ReadingUnfolded DEF BooksInit
<1> QED
  BY <1>1, <1>2, <1>3 DEF BooksIInv

LEMMA IssueKeeps ==
  ASSUME BooksIInv, NEW n \in Invoices, NEW c \in Customers, NEW s \in Sums, Issue(n, c, s)
  PROVE  BooksIInv'
<1> DEFINE new == [id |-> n, customer |-> c, sum |-> s, at |-> now]
<1>1. new \in Invoice /\ new.id = n /\ new.at = now
  BY DEF BooksIInv, BooksTypeOK, Invoice
<1>2. invoices' = invoices \cup {new} /\ (\A i \in invoices : i.id # n)
  BY DEF Issue
<1> HIDE DEF new
<1>3. UNCHANGED <<now, payments, step, asked, outstanding, collectedToday, billed>>
  BY DEF Issue, summary
<1>4. BooksTypeOK'
  BY <1>1, <1>2, <1>3 DEF BooksIInv, BooksTypeOK
<1>5. IsFiniteSet(invoices')
  BY <1>2, FS_AddElement DEF BooksIInv, Tables
<1>6. Tables(invoices', payments')
  <2>1. Tables(invoices, payments)
    BY DEF BooksIInv
  <2>2. \A p \in payments, i \in invoices' : i.id = p.of => i \in invoices
    BY <1>1, <1>2, <2>1 DEF Tables
  <2>3. \A i, j \in invoices' : i.id = j.id => i = j
    BY <1>1, <1>2, <2>1 DEF Tables
  <2> QED
    BY <1>1, <1>2, <1>3, <1>5, <2>1, <2>2, <2>3 DEF Tables
<1>7. \A i \in invoices' : i.at <= now'
  <2>1. now \in Int
    BY DEF BooksIInv, BooksTypeOK
  <2> QED
    BY <1>1, <1>2, <1>3, <2>1 DEF BooksIInv
<1>8. Reading'
  BY <1>3 DEF BooksIInv, Reading, SummaryNeverShort, DayOf
<1> QED
  BY <1>4, <1>6, <1>7, <1>8 DEF BooksIInv

LEMMA EditKeeps ==
  ASSUME BooksIInv, NEW i \in invoices, NEW s \in Sums, EditLines(i, s)
  PROVE  BooksIInv'
<1> DEFINE new == [i EXCEPT !.sum = s]
<1>0. Tables(invoices, payments) /\ i \in Invoice
  BY DEF BooksIInv, Tables
<1>1. new \in Invoice /\ new.id = i.id /\ new.at = i.at
  BY <1>0 DEF Invoice
<1>2. invoices' = (invoices \ {i}) \cup {new}
  BY DEF EditLines
<1> HIDE DEF new
<1>3. UNCHANGED <<now, payments, step, asked, outstanding, collectedToday, billed>>
  BY DEF EditLines, summary
<1>4. BooksTypeOK'
  BY <1>1, <1>2, <1>3 DEF BooksIInv, BooksTypeOK
<1>5. IsFiniteSet(invoices')
  <2>1. IsFiniteSet(invoices \ {i})
    BY <1>0, FS_Subset DEF Tables
  <2> QED
    BY <1>2, <2>1, FS_AddElement
<1>6. Tables(invoices', payments')
  <2>1. \A j \in invoices' : \E k \in invoices : k.id = j.id /\ k.at = j.at /\ (j = k \/ (j = new /\ k = i))
    BY <1>1, <1>2
  <2>2. \A k \in invoices : \E j \in invoices' : j.id = k.id
    BY <1>1, <1>2
  <2>3. \A j, k \in invoices' : j.id = k.id => j = k
    BY <1>0, <1>1, <1>2 DEF Tables
  <2>4. \A p \in payments : \E j \in invoices' : j.id = p.of
    BY <1>0, <2>2 DEF Tables
  <2>5. \A p \in payments, j \in invoices' : j.id = p.of => j.at <= p.at
    BY <1>0, <2>1 DEF Tables
  <2>6. invoices' \subseteq Invoice
    BY <1>0, <1>1, <1>2 DEF Tables
  <2> QED
    BY <1>0, <1>3, <1>5, <2>3, <2>4, <2>5, <2>6 DEF Tables
<1>7. \A j \in invoices' : j.at <= now'
  BY <1>1, <1>2, <1>3 DEF BooksIInv
<1>8. Reading'
  BY <1>3 DEF BooksIInv, Reading, SummaryNeverShort, DayOf
<1> QED
  BY <1>4, <1>6, <1>7, <1>8 DEF BooksIInv

LEMMA PayKeeps ==
  ASSUME BooksIInv, NEW n \in Payments, NEW i \in invoices, NEW a \in Amounts, NEW m \in Offered,
         Pay(n, i, a, m)
  PROVE  BooksIInv'
<1> DEFINE new == [id |-> n, of |-> i.id, amount |-> a, method |-> apiToPaymentMethod[m], at |-> now]
<1>1. Tables(invoices, payments) /\ i \in Invoice /\ now \in 0 .. LastTick
  BY DEF BooksIInv, Tables, BooksTypeOK
<1>2. new \in Payment /\ new.id = n /\ new.at = now /\ new.of = i.id
  <2>1. apiToPaymentMethod[m] \in Methods
    BY BookAssumption DEF apiToPaymentMethod, Methods
  <2>2. i.id \in Invoices
    BY <1>1 DEF Invoice
  <2> QED
    BY <1>1, <2>1, <2>2 DEF Payment
<1>3. payments' = payments \cup {new} /\ \A p \in payments : p.id # n
  BY DEF Pay
<1> HIDE DEF new
<1>4. UNCHANGED <<now, invoices, step, asked, outstanding, collectedToday, billed>>
  BY DEF Pay, summary
<1>5. BooksTypeOK'
  BY <1>2, <1>3, <1>4 DEF BooksIInv, BooksTypeOK
<1>6. Tables(invoices', payments')
  <2>1. IsFiniteSet(payments')
    BY <1>1, <1>3, FS_AddElement DEF Tables
  <2>2. \A p, q \in payments' : p.id = q.id => p = q
    BY <1>1, <1>2, <1>3 DEF Tables
  <2>3. \A p \in payments' : \E j \in invoices : j.id = p.of
    BY <1>1, <1>2, <1>3 DEF Tables
  <2>4. \A j \in invoices : j.at <= now
    BY DEF BooksIInv
  <2>5. \A p \in payments', j \in invoices : j.id = p.of => j.at <= p.at
    BY <1>1, <1>2, <1>3, <2>4 DEF Tables
  <2>6. payments' \subseteq Payment
    BY <1>1, <1>2, <1>3 DEF Tables
  <2> QED
    BY <1>1, <1>4, <2>1, <2>2, <2>3, <2>5, <2>6 DEF Tables
<1>7. \A j \in invoices' : j.at <= now'
  BY <1>4 DEF BooksIInv
<1>8. Reading'
  <2>1. /\ Sum(payments) \in Nat /\ Sum(payments') \in Nat /\ Sum(payments) <= Sum(payments')
        /\ Sum(OtherDays(payments)) \in Nat /\ Sum(OtherDays(payments')) \in Nat
        /\ Sum(OtherDays(payments)) <= Sum(OtherDays(payments'))
    BY <1>1, <1>2, <1>3, PaymentAdds DEF Tables
  <2>2. outstanding \in Nat /\ collectedToday \in Nat /\ billed \in Nat
    BY DEF BooksIInv, BooksTypeOK
  <2>3. OtherDays(payments)' = OtherDays(payments')
    BY <1>4 DEF OtherDays, DayOf
  <2>4. /\ step = 2 => billed <= outstanding + Sum(payments)
        /\ step = 3 => billed <= outstanding + collectedToday + Sum(OtherDays(payments))
    BY ReadingUnfolded DEF BooksIInv
  <2>5. /\ step = 2 => billed <= outstanding + Sum(payments')
        /\ step = 3 => billed <= outstanding + collectedToday + Sum(OtherDays(payments'))
    BY <2>1, <2>2, <2>4
  <2>6. /\ step' = 2 => billed' <= outstanding' + Sum(payments')
        /\ step' = 3 => billed' <= outstanding' + collectedToday' + Sum(OtherDays(payments)')
    BY <1>4, <2>3, <2>5
  <2>7. Sum(payments)' = Sum(payments') /\ Sum(OtherDays(payments))' = Sum(OtherDays(payments)')
    BY DEF Sum
  <2> QED
    BY <2>6, <2>7 DEF Reading, SummaryNeverShort, OtherDays
<1> QED
  BY <1>5, <1>6, <1>7, <1>8 DEF BooksIInv

LEMMA ReadInvoicesKeeps == BooksIInv /\ ReadInvoices => BooksIInv'
<1> SUFFICES ASSUME BooksIInv, ReadInvoices PROVE BooksIInv'
  OBVIOUS
<1>0. Tables(invoices, payments)
  BY DEF BooksIInv
<1>1. step = 1 /\ step' = 2
  BY DEF ReadInvoices, Order
<1>2. /\ outstanding' = Outstanding(invoices, payments) /\ billed' = Bill(invoices)
      /\ UNCHANGED <<now, invoices, payments, asked, collectedToday>>
  BY DEF ReadInvoices
<1>3. /\ billed' \in Nat /\ outstanding' \in Nat
      /\ billed' <= outstanding' + Sum(payments)
  BY <1>0, <1>2, BilledIsCovered
<1>4. BooksTypeOK'
  BY <1>1, <1>2, <1>3 DEF BooksIInv, BooksTypeOK
<1>5. Sum(payments)' = Sum(payments)
  BY <1>2 DEF Sum
<1>6. Reading'
  BY <1>1, <1>3, <1>5 DEF Reading, SummaryNeverShort
<1> QED
  BY <1>0, <1>2, <1>4, <1>6 DEF BooksIInv

LEMMA ReadPaymentsKeeps == BooksIInv /\ ReadPayments => BooksIInv'
<1> SUFFICES ASSUME BooksIInv, ReadPayments PROVE BooksIInv'
  OBVIOUS
<1>0. Tables(invoices, payments)
  BY DEF BooksIInv
<1>1. step = 2 /\ step' = 3
  BY DEF ReadPayments, Order
<1>2. /\ collectedToday' = Sum(DayBook(asked, payments))
      /\ UNCHANGED <<now, invoices, payments, asked, outstanding, billed>>
  BY DEF ReadPayments
<1>3. /\ Sum(DayBook(asked, payments)) \in Nat
      /\ Sum(payments) = Sum(DayBook(asked, payments)) + Sum(OtherDays(payments))
      /\ Sum(OtherDays(payments)) \in Nat
  <2>1. DayBook(asked, payments) \in SUBSET payments /\ OtherDays(payments) \in SUBSET payments
    BY DEF DayBook, OtherDays
  <2>2. payments \ DayBook(asked, payments) = OtherDays(payments)
    BY DEF DayBook, OtherDays
  <2>3. payments \subseteq Payment /\ IsFiniteSet(payments)
    BY <1>0 DEF Tables
  <2> DEFINE Q == DayBook(asked, payments)
  <2> HIDE DEF Q
  <2>4. Q \in SUBSET payments /\ payments \ Q = OtherDays(payments)
    BY <2>1, <2>2 DEF Q
  <2>5. Sum(Q) \in Nat /\ Sum(payments) = Sum(Q) + Sum(payments \ Q) /\ Sum(OtherDays(payments)) \in Nat
    BY <2>1, <2>3, <2>4, SumLaws
  <2> QED
    BY <2>4, <2>5 DEF Q
<1>4. BooksTypeOK'
  BY <1>1, <1>2, <1>3 DEF BooksIInv, BooksTypeOK
<1>5. Sum(OtherDays(payments))' = Sum(OtherDays(payments))
  BY <1>2 DEF Sum, OtherDays, DayOf
<1>6. billed' <= outstanding' + collectedToday' + Sum(OtherDays(payments))
  <2>1. billed <= outstanding + Sum(payments) /\ outstanding \in Nat /\ billed \in Nat
    BY <1>1 DEF BooksIInv, BooksTypeOK, Reading
  <2> QED
    BY <1>2, <1>3, <2>1
<1>7. Reading'
  BY <1>1, <1>5, <1>6 DEF Reading, SummaryNeverShort, OtherDays
<1> QED
  BY <1>0, <1>2, <1>4, <1>7 DEF BooksIInv

LEMMA BooksStep == BooksIInv /\ [BooksNext]_bookVars => BooksIInv'
<1> SUFFICES ASSUME BooksIInv, [BooksNext]_bookVars PROVE BooksIInv'
  OBVIOUS
<1>1. CASE Tick
  <2>1. /\ now \in 0 .. LastTick /\ now' = now + 1 /\ now' \in 0 .. LastTick
        /\ UNCHANGED <<invoices, payments, step, asked, outstanding, collectedToday, billed>>
    BY <1>1, BookAssumption DEF Tick, summary, BooksIInv, BooksTypeOK
  <2>2. \A i \in invoices : i.at \in Nat
    BY DEF BooksIInv, Tables, Invoice
  <2>3. \A i \in invoices' : i.at <= now'
    BY <2>1, <2>2 DEF BooksIInv
  <2> QED
    BY <2>1, <2>3 DEF BooksIInv, BooksTypeOK, Reading, SummaryNeverShort, DayOf
<1>2. CASE Ask
  BY <1>2 DEF Ask, BooksIInv, BooksTypeOK, Reading, SummaryNeverShort
<1>3. CASE Answer
  BY <1>3, BookAssumption DEF Answer, BooksIInv, BooksTypeOK, Reading, SummaryNeverShort
<1>4. CASE UNCHANGED bookVars
  BY <1>4 DEF bookVars, summary, BooksIInv, BooksTypeOK, Reading, SummaryNeverShort, DayOf
<1> QED
  BY <1>1, <1>2, <1>3, <1>4, IssueKeeps, EditKeeps, PayKeeps, ReadInvoicesKeeps, ReadPaymentsKeeps
     DEF BooksNext

THEOREM BooksInvariant == BooksSpec => []BooksIInv
BY BooksStart, BooksStep, PTL DEF BooksSpec

THEOREM BooksTypeCorrect == BooksSpec => []BooksTypeOK
<1>1. BooksIInv => BooksTypeOK
  BY DEF BooksIInv
<1> QED
  BY <1>1, BooksInvariant, PTL

(***************************************************************************)
(* summary: whatever is issued, edited or paid between its two reads, its  *)
(* answer and the payments of other days cover what was billed.            *)
(***************************************************************************)
THEOREM NeverShort == BooksSpec => []SummaryNeverShort
<1>1. BooksIInv => SummaryNeverShort
  BY DEF BooksIInv, Reading
<1> QED
  BY <1>1, BooksInvariant, PTL

Row == [inv : Nat \ {0}, pay : Nat, at : Nat, debit : Nat, credit : Nat]
NetOf == [r \in Row |-> r.debit - r.credit]

Mine(c, I)    == {i \in I : i.customer = c}
BillRow(i)    == LedgerRow(i.id, 0, Midnight(i.at), Total(i), 0)
PayRow(i, p)  == LedgerRow(i.id, p.id, p.at, 0, p.amount)
RowsFor(i, Q) == {BillRow(i)} \cup {PayRow(i, p) : p \in Q}

LEMMA MidnightBefore == ASSUME NEW t \in Nat PROVE Midnight(t) \in Nat /\ Midnight(t) <= t
<1>1. t \div DayTicks \in Nat /\ (t \div DayTicks) * DayTicks <= t
  BY BookAssumption, DivLaws
<1>2. (t \div DayTicks) * DayTicks \in Nat
  BY <1>1, BookAssumption
<1> QED
  BY <1>1, <1>2 DEF Midnight

LEMMA RowTypes ==
  ASSUME NEW i \in Invoice
  PROVE  /\ BillRow(i) \in Row /\ NetOf[BillRow(i)] = Total(i)
         /\ BillRow(i).inv = i.id /\ BillRow(i).pay = 0 /\ BillRow(i).at <= i.at
         /\ \A p \in Payment : /\ PayRow(i, p) \in Row /\ NetOf[PayRow(i, p)] = -p.amount
                               /\ PayRow(i, p).inv = i.id /\ PayRow(i, p).pay = p.id /\ p.id > 0
                               /\ PayRow(i, p).at = p.at
<1>1. i.id \in Nat \ {0} /\ i.at \in Nat
  <2>1. i.id \in Invoices /\ i.at \in 0 .. LastTick
    BY DEF Invoice
  <2>2. (\A n \in Invoices : n \in Nat /\ n # 0) /\ LastTick \in Nat
    BY BookAssumption
  <2> QED
    BY <2>1, <2>2
<1>2. Total(i) \in Nat
  BY TotalType
<1>3. Midnight(i.at) \in Nat /\ Midnight(i.at) <= i.at
  BY <1>1, MidnightBefore
<1>4. BillRow(i) \in Row /\ NetOf[BillRow(i)] = Total(i)
      /\ BillRow(i).inv = i.id /\ BillRow(i).pay = 0 /\ BillRow(i).at <= i.at
  BY <1>2, <1>1, <1>3 DEF BillRow, LedgerRow, Row, NetOf
<1>5. ASSUME NEW p \in Payment
      PROVE  /\ PayRow(i, p) \in Row /\ NetOf[PayRow(i, p)] = -p.amount
             /\ PayRow(i, p).inv = i.id /\ PayRow(i, p).pay = p.id /\ p.id > 0
             /\ PayRow(i, p).at = p.at
  <2>1. p.id \in Nat \ {0} /\ p.at \in Nat
    <3>1. p.id \in Payments /\ p.at \in 0 .. LastTick
      BY DEF Payment
    <3>2. (\A n \in Payments : n \in Nat /\ n # 0) /\ LastTick \in Nat
      BY BookAssumption
    <3> QED
      BY <3>1, <3>2
  <2>2. p.amount \in Nat
    BY AmountType
  <2> QED
    BY <1>1, <2>1, <2>2 DEF PayRow, LedgerRow, Row, NetOf
<1> QED
  BY <1>4, <1>5

\* A bill and some of its payments in a ledger: the total less what was paid.
LEMMA NetOfRows ==
  ASSUME NEW i \in Invoice, NEW Q, Q \subseteq Payment, IsFiniteSet(Q),
         \A p, q \in Q : p.id = q.id => p = q
  PROVE  /\ IsFiniteSet(RowsFor(i, Q)) /\ RowsFor(i, Q) \subseteq Row
         /\ Sigma(NetOf, RowsFor(i, Q)) = Total(i) - Sum(Q)
<1>1. PICK m : m = [p \in Q |-> PayRow(i, p)]
  OBVIOUS
<1> DEFINE paid == {m[p] : p \in Q}
           bill == BillRow(i)
<1>2. \A p \in Q : m[p] = PayRow(i, p)
  BY <1>1
<1>3. RowsFor(i, Q) = paid \cup {bill}
  BY <1>2 DEF RowsFor
<1>4. \A p \in Q : /\ m[p] \in Row /\ NetOf[m[p]] = -p.amount /\ m[p].pay = p.id /\ p.id > 0
                   /\ NetOf[m[p]] \in Int /\ p.amount \in Int /\ AmountOf[p] = p.amount
  BY <1>2, RowTypes, AmountType
<1>5. \A p, q \in Q : m[p] = m[q] => p = q
  BY <1>4
<1> DEFINE f == Along(NetOf, m, Q)
           z == [p \in Q |-> 0]
<1>6. \A p \in Q : /\ f[p] = NetOf[m[p]] /\ f[p] = -AmountOf[p] /\ f[p] \in Int /\ AmountOf[p] \in Int
                   /\ z[p] \in Int /\ f[p] = z[p] + (-1) * AmountOf[p] /\ z[p] = z[p] + (-1) * z[p]
  BY <1>4 DEF Along
<1>7. IsFiniteSet(paid) /\ Sigma(NetOf, paid) = Sigma(f, Q)
  <2>1. OneToOne(NetOf, m, Q)
    BY <1>4, <1>5 DEF OneToOne
  <2>2. paid = ImageOf(m, Q)
    BY DEF ImageOf
  <2> HIDE DEF paid, f
  <2> QED
    BY <2>1, <2>2, SigmaImage DEF f
<1> HIDE DEF f, z
<1>8. Sigma(f, Q) = Sigma(z, Q) + (-1) * Sigma(AmountOf, Q) /\ Sigma(z, Q) = Sigma(z, Q) + (-1) * Sigma(z, Q)
  BY <1>6, SigmaLinear
<1>9. Sigma(z, Q) \in Int /\ Sigma(AmountOf, Q) \in Int
  BY <1>6, SigmaType
<1>10. Sigma(NetOf, paid) = -Sum(Q)
  BY <1>7, <1>8, <1>9, SumIs
<1>11. /\ bill \in Row /\ NetOf[bill] = Total(i) /\ bill.pay = 0 /\ Total(i) \in Int
  BY RowTypes, TotalType
<1>12. bill \notin paid /\ \A y \in paid \cup {bill} : y \in Row /\ NetOf[y] \in Int
  BY <1>4, <1>11
<1> HIDE DEF paid, bill
<1>13. Sigma(NetOf, paid \cup {bill}) = Sigma(NetOf, paid) + NetOf[bill] /\ Sigma(NetOf, paid) \in Int
  BY <1>7, <1>12, SigmaAdd
<1>14. IsFiniteSet(paid \cup {bill})
  BY <1>7, FS_AddElement
<1>15. Sum(Q) \in Nat
  BY SumLaws
<1> QED
  BY <1>3, <1>10, <1>11, <1>12, <1>13, <1>14, <1>15

NetsIn(c, I, P, U) == [i \in Mine(c, I) |-> Sigma(NetOf, U \cap RowsFor(i, Of(i, P)))]

\* A part of a ledger is its parts of the invoices' rows, and its net their sum.
LEMMA LedgerSplits ==
  ASSUME NEW I, NEW P, Tables(I, P), NEW c, NEW U, U \subseteq Rows(c, I, P)
  PROVE  /\ Mine(c, I) \subseteq I /\ IsFiniteSet(Mine(c, I))
         /\ Rows(c, I, P) = UNION {RowsFor(i, Of(i, P)) : i \in Mine(c, I)}
         /\ U \subseteq Row /\ IsFiniteSet(U)
         /\ Sigma(NetOf, U) = Sigma(NetsIn(c, I, P, U), Mine(c, I))
<1> DEFINE M == Mine(c, I)
           part == [i \in M |-> U \cap RowsFor(i, Of(i, P))]
<1>1. M \in SUBSET I /\ IsFiniteSet(M) /\ M \subseteq Invoice
  BY FS_Subset DEF Mine, Tables
<1>2. Rows(c, I, P) = UNION {RowsFor(i, Of(i, P)) : i \in M}
  BY DEF Rows, RowsFor, BillRow, PayRow, Mine
<1>3. \A i \in M : /\ IsFiniteSet(RowsFor(i, Of(i, P))) /\ RowsFor(i, Of(i, P)) \subseteq Row
                   /\ \A r \in RowsFor(i, Of(i, P)) : r.inv = i.id
  <2> SUFFICES ASSUME NEW i \in M
               PROVE  /\ IsFiniteSet(RowsFor(i, Of(i, P))) /\ RowsFor(i, Of(i, P)) \subseteq Row
                      /\ \A r \in RowsFor(i, Of(i, P)) : r.inv = i.id
    OBVIOUS
  <2>1. i \in Invoice
    BY <1>1
  <2>2. Of(i, P) \in SUBSET P /\ P \subseteq Payment /\ IsFiniteSet(P)
    BY DEF Of, Tables
  <2>3. IsFiniteSet(Of(i, P)) /\ Of(i, P) \subseteq Payment
    BY <2>2, FS_Subset
  <2>4. \A p, q \in Of(i, P) : p.id = q.id => p = q
    BY <2>2 DEF Tables
  <2>5. \A r \in RowsFor(i, Of(i, P)) : r.inv = i.id
    BY <2>1, <2>3, RowTypes DEF RowsFor
  <2> QED
    BY <2>1, <2>3, <2>4, <2>5, NetOfRows
<1>4. \A i \in M : /\ part[i] = U \cap RowsFor(i, Of(i, P))
  OBVIOUS
<1>5. \A i \in M : /\ IsFiniteSet(part[i]) /\ part[i] \subseteq Row
                   /\ \A r \in part[i] : r.inv = i.id /\ NetOf[r] \in Int
  <2> SUFFICES ASSUME NEW i \in M
               PROVE  /\ IsFiniteSet(part[i]) /\ part[i] \subseteq Row
                      /\ \A r \in part[i] : r.inv = i.id /\ NetOf[r] \in Int
    OBVIOUS
  <2>1. part[i] \in SUBSET RowsFor(i, Of(i, P))
    BY <1>4
  <2>2. IsFiniteSet(part[i]) /\ part[i] \subseteq Row
    BY <1>3, <2>1, FS_Subset
  <2>3. \A r \in part[i] : NetOf[r] \in Int
    BY <2>2 DEF NetOf, Row
  <2> QED
    BY <1>3, <2>1, <2>2, <2>3
<1>6. \A i, j \in M : i # j => part[i] \cap part[j] = {}
  <2>1. \A i, j \in M : i.id = j.id => i = j
    BY <1>1 DEF Tables
  <2> HIDE DEF M, part
  <2> QED
    BY <1>5, <2>1
<1>7. UNION {part[i] : i \in M} = U
  <2> HIDE DEF M
  <2> QED
    BY <1>2, <1>4
<1>8. Apart(NetOf, part, M) /\ UnionOf(part, M) = U
  <2> HIDE DEF M, part
  <2> QED
    BY <1>5, <1>6, <1>7 DEF Apart, UnionOf
<1>9. U \subseteq Row
  <2> HIDE DEF M, part
  <2> QED
    BY <1>5, <1>7
<1>10. PartSums(NetOf, part, M) = NetsIn(c, I, P, U)
  BY DEF PartSums, NetsIn
<1>11. IsFiniteSet(U) /\ Sigma(NetOf, U) = Sigma(NetsIn(c, I, P, U), M)
  <2> HIDE DEF M, part
  <2> QED
    BY <1>1, <1>8, <1>10, SigmaUnions
<1> QED
  BY <1>1, <1>2, <1>9, <1>11

\* What is open on the invoices of a customer.
LEMMA MineIs ==
  ASSUME NEW I, NEW P, Tables(I, P), NEW c
  PROVE  /\ Mine(c, I) \in SUBSET I /\ IsFiniteSet(Mine(c, I))
         /\ \A i \in Mine(c, I) : i \in Invoice /\ BalanceOf(P)[i] = Balance(i, P) /\ BalanceOf(P)[i] \in Int
<1>1. I \subseteq Invoice /\ IsFiniteSet(I) /\ P \subseteq Payment /\ IsFiniteSet(P)
  BY DEF Tables
<1>2. Mine(c, I) \in SUBSET I
  BY DEF Mine
<1>3. \A i \in I : i \in Invoice /\ BalanceOf(P)[i] = Balance(i, P) /\ BalanceOf(P)[i] \in Int
  BY <1>1, BalanceLaws
<1> QED
  BY <1>1, <1>2, <1>3, FS_Subset

\* The rows up to one have a bill before its payments.
LEMMA BillsFirst ==
  ASSUME NEW I, NEW P, Tables(I, P), NEW c, NEW row \in Row, NEW i \in Mine(c, I)
  PROVE  LET U == UpTo(row, Rows(c, I, P))
         IN  \/ U \cap RowsFor(i, Of(i, P)) = {}
             \/ \E Q \in SUBSET Of(i, P) : U \cap RowsFor(i, Of(i, P)) = RowsFor(i, Q)
<1> DEFINE all == Rows(c, I, P)
           U == UpTo(row, all)
<1>0. i \in I /\ i \in Invoice /\ P \subseteq Payment
  BY DEF Tables, Mine
<1>1. RowsFor(i, Of(i, P)) \subseteq all
  <2>1. all = UNION {RowsFor(j, Of(j, P)) : j \in Mine(c, I)}
    BY LedgerSplits
  <2> HIDE DEF all
  <2> QED
    BY <2>1
<1>2. CASE BillRow(i) \in U
  <2> DEFINE Q == {p \in Of(i, P) : PayRow(i, p) \in U}
  <2> HIDE DEF U
  <2>1. U \cap RowsFor(i, Of(i, P)) = RowsFor(i, Q)
    BY <1>2 DEF RowsFor
  <2> QED
    BY <2>1 DEF U
<1>3. CASE BillRow(i) \notin U
  <2>1. BillRow(i) \in all
    BY <1>1 DEF RowsFor
  <2>2. ASSUME NEW p \in Of(i, P), PayRow(i, p) \in U PROVE FALSE
    <3>1. p \in Payment /\ i.at <= p.at /\ i.id \in Nat /\ p.at \in Nat /\ i.at \in Nat
      <4>1. p \in P /\ p.of = i.id
        BY DEF Of
      <4>2. i.at <= p.at /\ p \in Payment
        BY <1>0, <4>1 DEF Tables
      <4>3. p.at \in 0 .. LastTick /\ i.at \in 0 .. LastTick /\ i.id \in Invoices
        BY <1>0, <4>2 DEF Payment, Invoice
      <4>4. LastTick \in Nat /\ \A n \in Invoices : n \in Nat
        BY BookAssumption
      <4> QED
        BY <4>2, <4>3, <4>4
    <3> DEFINE b == BillRow(i)
               q == PayRow(i, p)
    <3>2. /\ b \in Row /\ b.inv = i.id /\ b.pay = 0 /\ b.at <= i.at
          /\ q \in Row /\ q.inv = i.id /\ q.pay = p.id /\ p.id > 0 /\ q.at = p.at
      BY <1>0, <3>1, RowTypes
    <3>3. b \notin U /\ q \in U /\ b \in all
      BY <1>3, <2>1, <2>2
    <3> HIDE DEF b, q, all
    <3>4. \/ q.at < row.at
          \/ q.at = row.at /\ (q.inv < row.inv \/ (q.inv = row.inv /\ q.pay <= row.pay))
      BY <3>3 DEF UpTo
    <3>5. /\ ~(b.at < row.at)
          /\ ~(b.at = row.at /\ (b.inv < row.inv \/ (b.inv = row.inv /\ b.pay <= row.pay)))
      BY <3>3 DEF UpTo
    <3>6. b.at \in Nat /\ q.pay \in Nat /\ row.at \in Nat /\ row.inv \in Nat /\ row.pay \in Nat
      BY <3>2 DEF Row
    <3> QED
      BY <3>1, <3>2, <3>4, <3>5, <3>6
  <2>3. U \cap RowsFor(i, Of(i, P)) = {}
    <3> HIDE DEF U
    <3> QED
      BY <1>3, <2>2 DEF RowsFor
  <2> QED
    BY <2>3
<1> QED
  BY <1>2, <1>3

\* What a running balance is.
LEMMA RunningIs ==
  ASSUME NEW I, NEW P, Tables(I, P), NEW c, NEW row
  PROVE  LET U == UpTo(row, Rows(c, I, P))
         IN  /\ U \subseteq Rows(c, I, P)
             /\ Running(row, Rows(c, I, P)) = Sigma(NetsIn(c, I, P, U), Mine(c, I))
<1> DEFINE all == Rows(c, I, P)
           U == UpTo(row, all)
           f == [r \in U |-> r.debit - r.credit]
<1>1. U \subseteq all
  BY DEF UpTo
<1>2. /\ U \subseteq Row /\ IsFiniteSet(U)
      /\ Sigma(NetOf, U) = Sigma(NetsIn(c, I, P, U), Mine(c, I))
  <2> HIDE DEF U
  <2> QED
    BY <1>1, LedgerSplits
<1>3. Running(row, all) = Sigma(f, U)
  BY DEF Running, SumFunction, Sigma
<1>4. \A r \in U : f[r] = NetOf[r] /\ f[r] \in Int
  <2>1. \A r \in U : r.debit \in Nat /\ r.credit \in Nat /\ f[r] = r.debit - r.credit
    BY <1>2 DEF Row
  <2> QED
    BY <1>2, <2>1 DEF NetOf
<1> HIDE DEF f, U, all
<1>5. Sigma(f, U) = Sigma(NetOf, U)
  BY <1>2, <1>4, SigmaSame
<1> QED
  BY <1>1, <1>2, <1>3, <1>5 DEF U, all

\* The rows of an invoice and some of its payments.
LEMMA NetOfSome ==
  ASSUME NEW I, NEW P, Tables(I, P), NEW i \in I, NEW Q, Q \subseteq Of(i, P)
  PROVE  /\ Sigma(NetOf, RowsFor(i, Q)) \in Int
         /\ Sigma(NetOf, RowsFor(i, Q)) >= Balance(i, P)
<1>0. i \in Invoice /\ P \subseteq Payment /\ IsFiniteSet(P)
  BY DEF Tables
<1>1. Of(i, P) \in SUBSET P /\ Of(i, P) \subseteq Payment /\ IsFiniteSet(Of(i, P))
  <2>1. Of(i, P) \in SUBSET P
    BY DEF Of
  <2> QED
    BY <1>0, <2>1, FS_Subset
<1>2. Q \subseteq Payment /\ Sum(Q) \in Nat /\ Sum(Q) <= Sum(Of(i, P)) /\ Sum(Of(i, P)) \in Nat /\ IsFiniteSet(Q)
  BY <1>1, SumLaws
<1>3. \A p, q \in Q : p.id = q.id => p = q
  BY <1>1 DEF Tables
<1>4. Sigma(NetOf, RowsFor(i, Q)) = Total(i) - Sum(Q)
  BY <1>0, <1>2, <1>3, NetOfRows
<1>5. Balance(i, P) = Total(i) - Sum(Of(i, P)) /\ Total(i) \in Nat
  BY <1>0, BalanceLaws
<1> QED
  BY <1>2, <1>4, <1>5

\* No running balance falls below what was overpaid.
LEMMA NeverBelow ==
  ASSUME NEW I, NEW P, Tables(I, P), NEW c, NEW row \in Row
  PROVE  Running(row, Rows(c, I, P)) >= -Overpaid(Mine(c, I), P)
<1> DEFINE U == UpTo(row, Rows(c, I, P))
           M == Mine(c, I)
           N == NetsIn(c, I, P, U)
           A == Owed(M, P)
           B == BalanceOf(P)
           floor == [i \in M |-> IF i \in A THEN 0 ELSE B[i]]
<1>0. I \subseteq Invoice /\ P \subseteq Payment /\ IsFiniteSet(P)
  BY DEF Tables
<1>1. Running(row, Rows(c, I, P)) = Sigma(N, M)
  BY RunningIs
<1>2. /\ M \in SUBSET I /\ IsFiniteSet(M)
      /\ \A i \in M : B[i] = Balance(i, P) /\ B[i] \in Int
  BY MineIs
<1>3. /\ A \in SUBSET M /\ IsFiniteSet(A) /\ IsFiniteSet(M \ A)
      /\ Overpaid(M, P) = -Sigma(B, M \ A)
  <2>1. M \subseteq Invoice
    BY <1>0, <1>2
  <2> HIDE DEF M
  <2> QED
    BY <1>0, <1>2, <2>1, InvoiceSums
<1>4. /\ \A i \in A : B[i] >= 0
      /\ \A i \in M \ A : B[i] <= 0
  <2>1. \A i \in A : i \in Invoice /\ ~Settles(Sum(Of(i, P)), i.sum, Rate)
    BY <1>0, <1>2 DEF Owed
  <2>2. \A i \in M \ A : i \in Invoice /\ Settles(Sum(Of(i, P)), i.sum, Rate)
    BY <1>0, <1>2 DEF Owed
  <2> HIDE DEF A, M
  <2> QED
    BY <1>0, <2>1, <2>2, BalanceLaws
<1>5. \A i \in M : /\ floor[i] = (IF i \in A THEN 0 ELSE B[i])
                   /\ N[i] = Sigma(NetOf, U \cap RowsFor(i, Of(i, P)))
  BY DEF NetsIn
<1>6. \A i \in M : \/ U \cap RowsFor(i, Of(i, P)) = {}
                   \/ \E Q \in SUBSET Of(i, P) : U \cap RowsFor(i, Of(i, P)) = RowsFor(i, Q)
  BY BillsFirst
<1> HIDE DEF U, M, N, A, floor
<1>7. \A i \in M : N[i] \in Int /\ floor[i] \in Int /\ floor[i] <= N[i]
  <2> SUFFICES ASSUME NEW i \in M PROVE N[i] \in Int /\ floor[i] \in Int /\ floor[i] <= N[i]
    OBVIOUS
  <2>1. CASE U \cap RowsFor(i, Of(i, P)) = {}
    <3>1. N[i] = 0
      BY <1>5, <2>1, SigmaEmpty
    <3>2. CASE i \in A
      <4>1. floor[i] = 0
        BY <1>5, <3>2
      <4> QED
        BY <3>1, <4>1
    <3>3. CASE i \notin A
      <4>1. floor[i] = B[i] /\ B[i] \in Int /\ B[i] <= 0
        BY <1>2, <1>4, <1>5, <3>3
      <4> QED
        BY <3>1, <4>1
    <3> QED
      BY <3>2, <3>3
  <2>2. ASSUME NEW Q \in SUBSET Of(i, P), U \cap RowsFor(i, Of(i, P)) = RowsFor(i, Q)
        PROVE  N[i] \in Int /\ N[i] >= B[i]
    <3>1. N[i] = Sigma(NetOf, RowsFor(i, Q))
      BY <1>5, <2>2
    <3> QED
      BY <1>2, <3>1, NetOfSome
  <2> QED
    BY <1>2, <1>4, <1>5, <1>6, <2>1, <2>2
<1>8. Sigma(floor, M) <= Sigma(N, M) /\ Sigma(floor, M) \in Int /\ Sigma(N, M) \in Int
  <2>1. Sigma(floor, M) <= Sigma(N, M)
    BY <1>2, <1>7, SigmaLeq
  <2> QED
    BY <1>2, <1>7, <2>1, SigmaType
<1>9. Sigma(floor, M) = Sigma(floor, A) + Sigma(floor, M \ A)
  <2>1. A \cup (M \ A) = M /\ A \cap (M \ A) = {} /\ \A i \in A \cup (M \ A) : floor[i] \in Int
    BY <1>3, <1>7
  <2>2. Sigma(floor, A \cup (M \ A)) = Sigma(floor, A) + Sigma(floor, M \ A)
    BY <1>3, <2>1, SigmaUnion
  <2> QED
    BY <2>1, <2>2
<1>10. Sigma(floor, M \ A) = Sigma(B, M \ A)
  <2>1. \A i \in M \ A : floor[i] \in Int /\ floor[i] = B[i]
    BY <1>5, <1>7
  <2> QED
    BY <1>3, <2>1, SigmaSame
<1>11. Sigma(floor, A) \in Int /\ Sigma(floor, A) >= 0
  <2>1. \A i \in A : floor[i] = 0
    BY <1>3, <1>5
  <2>2. \A i \in A : floor[i] \in Int /\ floor[i] >= 0
    BY <2>1
  <2> QED
    BY <1>3, <2>2, SigmaType
<1>12. Sigma(B, M \ A) \in Int
  <2>1. \A i \in M \ A : B[i] \in Int
    BY <1>2
  <2> QED
    BY <1>3, <2>1, SigmaType
<1>13. Sigma(N, M) >= Sigma(B, M \ A)
  BY <1>8, <1>9, <1>10, <1>11, <1>12
<1> QED
  BY <1>1, <1>3, <1>12, <1>13 DEF M

(***************************************************************************)
(* ledger: a bill comes before its payments.                               *)
(***************************************************************************)
THEOREM BillsComeFirst == BooksSpec => []DebitsFirst
<1>1. BooksIInv => DebitsFirst
  <2> SUFFICES ASSUME BooksIInv, NEW c \in Customers, NEW row \in Rows(c, invoices, payments)
               PROVE  Running(row, Rows(c, invoices, payments))
                        >= -Overpaid({i \in invoices : i.customer = c}, payments)
    BY DEF DebitsFirst
  <2>1. Tables(invoices, payments)
    BY DEF BooksIInv
  <2>2. row \in Row
    BY <2>1, LedgerSplits
  <2>3. Mine(c, invoices) = {i \in invoices : i.customer = c}
    BY DEF Mine
  <2> QED
    BY <2>1, <2>2, <2>3, NeverBelow
<1> QED
  BY <1>1, BooksInvariant, PTL

Due(month, I) == {i \in I : i.at \div MonthTicks = month}
BillsDue(I)   == [n \in 0 .. LastTick \div MonthTicks |-> Due(n, I)]

\* Payments that are in one part each add up by parts.
LEMMA PartsAddUp ==
  ASSUME NEW P, P \subseteq Payment, IsFiniteSet(P), NEW K, IsFiniteSet(K), NEW part,
         UnionOf(part, K) = P, \A k, l \in K : k # l => part[k] \cap part[l] = {},
         NEW s, s = [k \in K |-> Sum(part[k])]
  PROVE  SumFunction(s) = Sum(P)
<1>1. \A k \in K : part[k] \in SUBSET P
  BY DEF UnionOf
<1>2. \A k \in K : IsFiniteSet(part[k]) /\ Sum(part[k]) = Sigma(AmountOf, part[k])
  BY <1>1, SumIs, FS_Subset
<1>3. Apart(AmountOf, part, K)
  <2>1. \A k \in K : IsFiniteSet(part[k]) /\ \A p \in part[k] : AmountOf[p] \in Int
    BY <1>1, <1>2, AmountType
  <2> QED
    BY <2>1 DEF Apart
<1>4. PartSums(AmountOf, part, K) = s
  BY <1>2 DEF PartSums
<1>5. SumFunction(s) = Sigma(s, K)
  BY DEF SumFunction, Sigma
<1> QED
  BY <1>3, <1>4, <1>5, SumIs, SigmaUnions

\* The period a tick is in, and that it is one of those of the model's time.
LEMMA PeriodOf ==
  ASSUME NEW ticks \in Nat \ {0}, NEW t \in 0 .. LastTick
  PROVE  t \div ticks \in 0 .. LastTick \div ticks
<1>1. t \in Nat /\ LastTick \in Nat /\ t <= LastTick
  BY BookAssumption
<1>2. t \div ticks \in Nat /\ LastTick \div ticks \in Nat /\ t \div ticks <= LastTick \div ticks
  BY <1>1, DivLaws, DivMono
<1> QED
  BY <1>2

LEMMA PeriodsFinite ==
  ASSUME NEW ticks \in Nat \ {0}
  PROVE  IsFiniteSet(0 .. LastTick \div ticks)
<1>1. LastTick \div ticks \in Nat
  BY BookAssumption, DivLaws
<1> QED
  BY <1>1, FS_Interval

LEMMA TicksOfDay ==
  ASSUME NEW t \in Nat, NEW n \in Nat
  PROVE  t \in DayOf(n * DayTicks) <=> t \div DayTicks = n
<1> DEFINE D == DayTicks
<1>1. D \in Nat \ {0}
  BY BookAssumption
<1> HIDE DEF D
<1>2. n * D \in Nat /\ (n + 1) * D = n * D + D /\ n * D <= n * D /\ n * D < (n + 1) * D
  BY <1>1
<1>3. (n * D) \div D = n
  BY <1>1, <1>2, DivUnique
<1>4. DayOf(n * D) = n * D .. (n + 1) * D - 1
  BY <1>3 DEF DayOf, D
<1>5. t \in DayOf(n * D) <=> n * D <= t /\ t < (n + 1) * D
  BY <1>1, <1>2, <1>4
<1>6. t \div D = n => n * D <= t /\ t < (n + 1) * D
  BY <1>1, DivLaws
<1>7. n * D <= t /\ t < (n + 1) * D => t \div D = n
  BY <1>1, DivUnique
<1> QED
  BY <1>5, <1>6, <1>7 DEF D

\* The day books hold every payment once.
LEMMA DaysAddUp ==
  ASSUME NEW P, P \subseteq Payment, IsFiniteSet(P)
  PROVE  SumFunction([n \in 0 .. LastTick \div DayTicks |-> Sum(DayBook(n * DayTicks, P))]) = Sum(P)
<1> DEFINE K == 0 .. LastTick \div DayTicks
           book(n) == DayBook(n * DayTicks, P)
           part == [n \in K |-> book(n)]
           s == [n \in K |-> Sum(book(n))]
<1>1. DayTicks \in Nat \ {0}
  BY BookAssumption
<1>2. IsFiniteSet(K) /\ \A n \in K : n \in Nat
  <2>1. IsFiniteSet(K)
    BY <1>1, PeriodsFinite
  <2>2. LastTick \div DayTicks \in Nat
    BY <1>1, BookAssumption, DivLaws
  <2> QED
    BY <2>1, <2>2
<1>3. \A p \in P : p.at \in 0 .. LastTick /\ p.at \in Nat
  <2>1. \A p \in P : p.at \in 0 .. LastTick
    BY DEF Payment
  <2>2. LastTick \in Nat
    BY BookAssumption
  <2> QED
    BY <2>1, <2>2
<1>4. \A n \in K : book(n) = {p \in P : p.at \div DayTicks = n}
  <2> SUFFICES ASSUME NEW n \in K PROVE book(n) = {p \in P : p.at \div DayTicks = n}
    OBVIOUS
  <2>1. n \in Nat
    BY <1>2
  <2>2. \A p \in P : p.at \in DayOf(n * DayTicks) <=> p.at \div DayTicks = n
    BY <1>3, <2>1, TicksOfDay
  <2> QED
    BY <2>2 DEF DayBook
<1>5. \A n \in K : part[n] = book(n) /\ s[n] = Sum(part[n])
  OBVIOUS
<1>6. \A p \in P : p.at \div DayTicks \in K
  BY <1>1, <1>3, PeriodOf
<1> HIDE DEF K, book, part
<1>7. UnionOf(part, K) = P
  BY <1>4, <1>5, <1>6 DEF UnionOf
<1>8. \A k, l \in K : k # l => part[k] \cap part[l] = {}
  BY <1>4, <1>5
<1>9. s = [k \in K |-> Sum(part[k])]
  BY <1>5
<1> HIDE DEF s
<1>10. SumFunction(s) = Sum(P)
  BY <1>2, <1>7, <1>8, <1>9, PartsAddUp
<1> QED
  BY <1>10 DEF s, K, book

\* So do a day's books of the methods.
LEMMA MethodsAddUp ==
  ASSUME NEW P, P \subseteq Payment, IsFiniteSet(P)
  PROVE  SumFunction([m \in Methods |-> Sum(By(m, P))]) = Sum(P)
<1> DEFINE part == [m \in Methods |-> By(m, P)]
           s == [m \in Methods |-> Sum(By(m, P))]
<1>1. IsFiniteSet(Methods)
  <2>1. IsFiniteSet({"CASH"}) /\ IsFiniteSet({"UPI"}) /\ IsFiniteSet({"CARD"})
    BY FS_Singleton
  <2>2. IsFiniteSet({"CASH"} \cup {"UPI"})
    BY <2>1, FS_Union
  <2>3. IsFiniteSet(({"CASH"} \cup {"UPI"}) \cup {"CARD"})
    BY <2>1, <2>2, FS_Union
  <2>4. Methods = ({"CASH"} \cup {"UPI"}) \cup {"CARD"}
    BY DEF Methods
  <2> QED
    BY <2>3, <2>4
<1>2. \A m \in Methods : part[m] = By(m, P) /\ s[m] = Sum(part[m])
  OBVIOUS
<1>3. \A p \in P : p.method \in Methods
  BY DEF Payment
<1> HIDE DEF part
<1>4. \A m \in Methods : part[m] = {p \in P : p.method = m}
  BY <1>2 DEF By
<1>5. UnionOf(part, Methods) = P
  <2>1. \A p \in P : p \in part[p.method]
    BY <1>3, <1>4
  <2>2. \A m \in Methods : part[m] \subseteq P
    BY <1>4
  <2> QED
    BY <1>3, <2>1, <2>2 DEF UnionOf
<1>6. \A k, l \in Methods : k # l => part[k] \cap part[l] = {}
  BY <1>4
<1>7. s = [k \in Methods |-> Sum(part[k])]
  BY <1>2
<1> HIDE DEF s
<1>8. SumFunction(s) = Sum(P)
  BY <1>1, <1>5, <1>6, <1>7, PartsAddUp
<1> QED
  BY <1>8 DEF s

\* A return taxes its invoices with what they charge, halves and all.
LEMMA ReturnIs ==
  ASSUME NEW I, I \subseteq Invoice, IsFiniteSet(I), NEW n
  PROVE  LET r == GstReport(n, I)
         IN  /\ r.count = Cardinality(Due(n, I))
             /\ r.taxable + 100 * (r.cgst + r.sgst) = Sigma(TotalOf, Due(n, I))
<1> DEFINE r == GstReport(n, I)
           D == Due(n, I)
           f == [i \in D |-> i.sum]
           g == [i \in D |-> Gst(i.sum, Rate)]
           gst == Sigma(g, D)
<1>1. D \in SUBSET I /\ IsFiniteSet(D) /\ D \subseteq Invoice
  <2>1. D \in SUBSET I
    BY DEF Due
  <2> QED
    BY <2>1, FS_Subset
<1>2. /\ r.count = Cardinality(D) /\ r.taxable = Sigma(f, D)
      /\ r.cgst = (gst + 1) \div 2 /\ r.sgst = gst - (gst + 1) \div 2
  BY DEF GstReport, Due, SumFunction, Sigma
<1>3. \A i \in D : /\ f[i] \in Int /\ g[i] \in Int /\ TotalOf[i] \in Int
                   /\ TotalOf[i] = f[i] + 100 * g[i]
  <2> SUFFICES ASSUME NEW i \in D
               PROVE  /\ f[i] \in Int /\ g[i] \in Int /\ TotalOf[i] \in Int
                      /\ TotalOf[i] = f[i] + 100 * g[i]
    OBVIOUS
  <2>1. i \in Invoice /\ f[i] = i.sum /\ g[i] = Gst(i.sum, Rate)
    BY <1>1
  <2>2. /\ Total(i) \in Nat /\ Gst(i.sum, Rate) \in Nat /\ i.sum \in Nat
        /\ Total(i) = i.sum + 100 * Gst(i.sum, Rate)
    BY <2>1, TotalType
  <2>3. TotalOf[i] = Total(i)
    BY <2>1 DEF TotalOf
  <2> HIDE DEF f, g, D
  <2> QED
    BY <2>1, <2>2, <2>3
<1> HIDE DEF f, g, D, r
<1>4. Sigma(TotalOf, D) = Sigma(f, D) + 100 * Sigma(g, D)
  BY <1>1, <1>3, SigmaLinear
<1>5. Sigma(f, D) \in Int /\ Sigma(g, D) \in Int
  BY <1>1, <1>3, SigmaType
<1>6. (gst + 1) \div 2 \in Int
  BY <1>5
<1>7. r.cgst + r.sgst = gst
  BY <1>2, <1>5, <1>6
<1> QED
  BY <1>2, <1>4, <1>7 DEF r, D

\* The returns hold every invoice once.
LEMMA MonthsAddUp ==
  ASSUME NEW I, I \subseteq Invoice, IsFiniteSet(I), NEW s, NEW f,
         \A i \in I : f[i] \in Int,
         s = [n \in 0 .. LastTick \div MonthTicks |-> Sigma(f, Due(n, I))]
  PROVE  SumFunction(s) = Sigma(f, I)
<1> DEFINE K == 0 .. LastTick \div MonthTicks
           part == [n \in K |-> Due(n, I)]
<1>1. MonthTicks \in Nat \ {0} /\ IsFiniteSet(K)
  BY BookAssumption, PeriodsFinite
<1>2. \A i \in I : i.at \div MonthTicks \in K
  <2>1. \A i \in I : i.at \in 0 .. LastTick
    BY DEF Invoice
  <2> QED
    BY <1>1, <2>1, PeriodOf
<1>3. \A n \in K : part[n] = {i \in I : i.at \div MonthTicks = n} /\ s[n] = Sigma(f, part[n])
  BY DEF Due
<1>4. SumFunction(s) = Sigma(s, K)
  BY DEF SumFunction, Sigma
<1>5. s = [n \in K |-> s[n]]
  OBVIOUS
<1> HIDE DEF K, part
<1>6. UnionOf(part, K) = I
  <2>1. \A i \in I : i \in part[i.at \div MonthTicks]
    BY <1>2, <1>3
  <2>2. \A n \in K : part[n] \subseteq I
    BY <1>3
  <2> QED
    BY <1>2, <2>1, <2>2 DEF UnionOf
<1>7. Apart(f, part, K)
  <2>1. \A k, l \in K : k # l => part[k] \cap part[l] = {}
    BY <1>3
  <2>2. \A k \in K : part[k] \in SUBSET I
    BY <1>3
  <2>3. \A k \in K : IsFiniteSet(part[k]) /\ \A x \in part[k] : f[x] \in Int
    BY <2>2, FS_Subset
  <2> QED
    BY <2>1, <2>3 DEF Apart
<1>8. PartSums(f, part, K) = s
  BY <1>3, <1>5 DEF PartSums
<1> QED
  BY <1>1, <1>4, <1>6, <1>7, <1>8, SigmaUnions

(***************************************************************************)
(* collections and gst: nothing is left out of a period or in two.         *)
(***************************************************************************)
THEOREM PeriodsHoldAll == BooksSpec => []PeriodsComplete
<1>1. BooksIInv => PeriodsComplete
  <2> SUFFICES ASSUME BooksIInv PROVE PeriodsComplete
    OBVIOUS
  <2> DEFINE I == invoices
             P == payments
             days == 0 .. LastTick \div DayTicks
             months == 0 .. LastTick \div MonthTicks
             report == [n \in months |-> GstReport(n, I)]
             billedIn(r) == r.taxable + 100 * (r.cgst + r.sgst)
             counts == [n \in months |-> report[n].count]
             bills  == [n \in months |-> billedIn(report[n])]
             one    == [i \in I |-> 1]
  <2>1. I \subseteq Invoice /\ IsFiniteSet(I) /\ P \subseteq Payment /\ IsFiniteSet(P)
    BY DEF BooksIInv, Tables
  <2>2. SumFunction([n \in days |-> Sum(DayBook(n * DayTicks, P))]) = Sum(P)
    BY <2>1, DaysAddUp
  <2>3. ASSUME NEW n \in days
        PROVE  SumFunction([m \in Methods |-> Sum(By(m, DayBook(n * DayTicks, P)))])
                 = Sum(DayBook(n * DayTicks, P))
    <3> DEFINE Q == DayBook(n * DayTicks, P)
    <3>1. Q \in SUBSET P
      BY DEF DayBook
    <3> HIDE DEF Q
    <3>2. Q \subseteq Payment /\ IsFiniteSet(Q)
      BY <2>1, <3>1, FS_Subset
    <3>3. SumFunction([m \in Methods |-> Sum(By(m, Q))]) = Sum(Q)
      BY <3>2, MethodsAddUp
    <3> QED
      BY <3>3 DEF Q
  <2>4. \A n \in months : /\ counts[n] = Cardinality(Due(n, I))
                           /\ bills[n] = Sigma(TotalOf, Due(n, I))
    BY <2>1, ReturnIs
  <2>5. SumFunction(counts) = Cardinality(I)
    <3>1. \A i \in I : one[i] = 1
      OBVIOUS
    <3>2. counts = [n \in months |-> counts[n]]
      OBVIOUS
    <3>3. \A n \in months : Due(n, I) \in SUBSET I
      BY DEF Due
    <3> HIDE DEF one, counts, bills, months, I
    <3>4. \A n \in months : Sigma(one, Due(n, I)) = Cardinality(Due(n, I))
      <4> SUFFICES ASSUME NEW n \in months PROVE Sigma(one, Due(n, I)) = Cardinality(Due(n, I))
        OBVIOUS
      <4> DEFINE D == Due(n, I)
      <4>1. D \in SUBSET I
        BY <3>3
      <4> HIDE DEF D
      <4>2. IsFiniteSet(D) /\ \A i \in D : one[i] = 1
        BY <2>1, <3>1, <4>1, FS_Subset
      <4>3. Sigma(one, D) = Cardinality(D)
        BY <4>2, SigmaOne
      <4> QED
        BY <4>3 DEF D
    <3>5. counts = [n \in months |-> Sigma(one, Due(n, I))]
      BY <2>4, <3>2, <3>4
    <3>6. SumFunction(counts) = Sigma(one, I)
      BY <2>1, <3>1, <3>5, MonthsAddUp DEF months
    <3> QED
      BY <2>1, <3>1, <3>6, SigmaOne
  <2>6. SumFunction(bills) = Bill(I)
    <3>1. bills = [n \in months |-> bills[n]]
      OBVIOUS
    <3> HIDE DEF counts, bills, months, I
    <3>2. bills = [n \in months |-> Sigma(TotalOf, Due(n, I))]
      BY <2>4, <3>1
    <3>3. \A i \in I : TotalOf[i] \in Int
      BY <2>1, TotalType DEF TotalOf
    <3>4. SumFunction(bills) = Sigma(TotalOf, I)
      BY <2>1, <3>2, <3>3, MonthsAddUp DEF months
    <3> QED
      BY <2>1, <3>4, InvoiceSums
  <2> QED
    BY <2>2, <2>3, <2>5, <2>6 DEF PeriodsComplete
<1> QED
  BY <1>1, BooksInvariant, PTL
================================================================================
