------------------------- MODULE StatisticheProofs -------------------------
(***************************************************************************)
(* The statistics add up, for any number of processes, services, visits    *)
(* and midnights: whoever finds the lock free finds the office's counters  *)
(* equal to the sums of the services', no service is lost between the      *)
(* operator that counts the request and the user that counts the success,  *)
(* and the killing of the children, wherever they are, leaves at most one  *)
(* counter off by one.  First what a sum is, then what the updates touch,  *)
(* then the steps, one invariant after the other.                          *)
(***************************************************************************)
EXTENDS Statistiche, DataLemmas
-----------------------------------------------------------------------------
(* Sums.                                                                    *)

Pick(s) == CHOOSE x \in s : TRUE

\* The function behind SumFunctionOnSet.
Folded(fun, S, iter) ==
    iter = [s \in SUBSET S |-> IF s = {} THEN 0 ELSE fun[Pick(s)] + iter[s \ {Pick(s)}]]

LEMMA SumIsFolded ==
    ASSUME NEW fun, NEW S
    PROVE  SumFunctionOnSet(fun, S) = (CHOOSE iter : Folded(fun, S, iter))[S]
BY DEF SumFunctionOnSet, FoldFunctionOnSet, MapThenFoldSet, Folded, Pick

\* The fold is there (see FoldExists).
LEMMA SumExists ==
    ASSUME NEW S, IsFiniteSet(S), NEW fun \in [S -> Int]
    PROVE  \E iter : Folded(fun, S, iter)
<1> DEFINE pick == [s \in SUBSET S |-> Pick(s)]
           step == [s \in SUBSET S |-> [v \in Int |-> fun[Pick(s)] + v]]
<1>1. ASSUME NEW s \in (SUBSET S) \ {{}}
      PROVE  /\ pick[s] = Pick(s) /\ Pick(s) \in s /\ fun[Pick(s)] \in Int
             /\ \A v \in Int : step[s][v] = fun[Pick(s)] + v
  <2>0. \E x \in s : TRUE
    OBVIOUS
  <2>1. Pick(s) \in s
    BY <2>0, Zenon DEF Pick
  <2>2. fun[Pick(s)] \in Int
    BY <2>1
  <2> QED
    BY <2>1, <2>2
<1>2. ASSUME NEW s \in (SUBSET S) \ {{}}
      PROVE  pick[s] \in s /\ \A v \in Int : step[s][v] \in Int
  <2> HIDE DEF pick, step
  <2> QED
    BY <1>1
<1> HIDE DEF pick, step
<1>3. PICK iter \in [SUBSET S -> Int] : FoldsTo(iter, S, 0, pick, step)
  <2>1. \A s \in (SUBSET S) \ {{}} : pick[s] \in s /\ \A v \in Int : step[s][v] \in Int
    BY <1>2
  <2>2. 0 \in Int
    OBVIOUS
  <2> QED
    BY <2>1, <2>2, FoldExists
<1>4. ASSUME NEW s \in (SUBSET S) \ {{}} PROVE iter[s] = fun[Pick(s)] + iter[s \ {Pick(s)}]
  BY <1>1, <1>3 DEF FoldsTo
<1>5. iter[{}] = 0
  BY <1>3 DEF FoldsTo
<1>6. \A s \in SUBSET S : iter[s] = IF s = {} THEN 0 ELSE fun[Pick(s)] + iter[s \ {Pick(s)}]
  BY <1>4, <1>5
<1> QED
  BY <1>6 DEF Folded

\* What a sum is computed from: nothing, or one element and the sum of the others.
Adds(fun, S, iter) ==
    /\ SumFunctionOnSet(fun, S) = iter[S]
    /\ iter[{}] = 0
    /\ \A s \in SUBSET S : s # {} =>
          /\ Pick(s) \in s
          /\ iter[s] = fun[Pick(s)] + iter[s \ {Pick(s)}]

LEMMA SumByParts ==
    ASSUME NEW S, IsFiniteSet(S), NEW fun \in [S -> Int]
    PROVE  \E iter : Adds(fun, S, iter)
<1>1. PICK iter : iter = (CHOOSE f : Folded(fun, S, f))
  OBVIOUS
<1>2. Folded(fun, S, iter)
  BY <1>1, SumExists
<1>3. SumFunctionOnSet(fun, S) = iter[S]
  BY <1>1, SumIsFolded
<1>4. iter[{}] = 0
  BY <1>2 DEF Folded
<1>5. ASSUME NEW s \in SUBSET S, s # {}
      PROVE  Pick(s) \in s /\ iter[s] = fun[Pick(s)] + iter[s \ {Pick(s)}]
  BY <1>2, <1>5 DEF Folded, Pick
<1> QED
  BY <1>3, <1>4, <1>5 DEF Adds

\* A sum of integers is one.
LEMMA SumType ==
    ASSUME NEW S, IsFiniteSet(S), NEW fun \in [S -> Int]
    PROVE  SumFunctionOnSet(fun, S) \in Int
<1>1. PICK f : Adds(fun, S, f)
  BY SumByParts
<1> DEFINE Bad == {s \in SUBSET S : f[s] \notin Int}
<1>2. Bad = {}
  <2> SUFFICES ASSUME Bad # {} PROVE FALSE
    OBVIOUS
  <2>1. PICK s \in Bad : \A t \in SUBSET s : t # s => t \notin Bad
    <3>1. Bad \subseteq SUBSET S
      OBVIOUS
    <3> HIDE DEF Bad
    <3> QED
      BY <3>1, LeastSubset
  <2>2. s # {}
    <3>1. {} \notin Bad
      BY <1>1 DEF Adds
    <3> HIDE DEF Bad
    <3> QED
      BY <3>1
  <2>3. Pick(s) \in s /\ f[s] = fun[Pick(s)] + f[s \ {Pick(s)}]
    BY <1>1, <2>2 DEF Adds
  <2>4. f[s \ {Pick(s)}] \in Int
    BY <2>1, <2>3
  <2> QED
    BY <2>3, <2>4
<1> QED
  BY <1>1, <1>2 DEF Adds

\* A sum changes by what one of its terms changes.
LEMMA SumChanges ==
    ASSUME NEW S, IsFiniteSet(S), NEW fun \in [S -> Int], NEW gun \in [S -> Int],
           NEW x \in S, \A y \in S : y # x => gun[y] = fun[y]
    PROVE  SumFunctionOnSet(gun, S) = SumFunctionOnSet(fun, S) + gun[x] - fun[x]
<1>1. PICK f : Adds(fun, S, f)
  BY SumByParts
<1>2. PICK g : Adds(gun, S, g)
  BY SumByParts
<1> DEFINE d == gun[x] - fun[x]
           Good(s) == /\ f[s] \in Int
                      /\ g[s] = f[s] + (IF x \in s THEN d ELSE 0)
           Bad == {s \in SUBSET S : ~Good(s)}
<1>3. Bad = {}
  <2> SUFFICES ASSUME Bad # {} PROVE FALSE
    OBVIOUS
  <2>1. PICK s \in Bad : \A t \in SUBSET s : t # s => t \notin Bad
    <3>1. Bad \subseteq SUBSET S
      OBVIOUS
    <3> HIDE DEF Bad
    <3> QED
      BY <3>1, LeastSubset
  <2>2. s \in SUBSET S /\ ~Good(s)
    OBVIOUS
  <2>3. s # {}
    <3>1. Good({})
      BY <1>1, <1>2 DEF Adds
    <3> HIDE DEF Good
    <3> QED
      BY <3>1, <2>2
  <2>4. /\ Pick(s) \in s
        /\ f[s] = fun[Pick(s)] + f[s \ {Pick(s)}]
        /\ g[s] = gun[Pick(s)] + g[s \ {Pick(s)}]
    BY <1>1, <1>2, <2>2, <2>3 DEF Adds
  <2>5. Good(s \ {Pick(s)})
    <3> HIDE DEF Good
    <3>1. s \ {Pick(s)} \notin Bad
      <4> HIDE DEF Bad
      <4> QED
        BY <2>1, <2>4
    <3> QED
      BY <3>1, <2>2
  <2>6. CASE Pick(s) = x
    BY <2>2, <2>4, <2>5, <2>6
  <2>7. CASE Pick(s) # x
    BY <2>2, <2>4, <2>5, <2>7
  <2> QED
    BY <2>6, <2>7
<1>4. Good(S)
  BY <1>3
<1> QED
  BY <1>1, <1>2, <1>4 DEF Adds

\* Nothing comes of nothing.
LEMMA SumOfZeros ==
    ASSUME NEW S, IsFiniteSet(S), NEW fun \in [S -> Int], \A x \in S : fun[x] = 0
    PROVE  SumFunctionOnSet(fun, S) = 0
<1>1. PICK f : Adds(fun, S, f)
  BY SumByParts
<1> DEFINE Bad == {s \in SUBSET S : f[s] # 0}
<1>2. Bad = {}
  <2> SUFFICES ASSUME Bad # {} PROVE FALSE
    OBVIOUS
  <2>1. PICK s \in Bad : \A t \in SUBSET s : t # s => t \notin Bad
    <3>1. Bad \subseteq SUBSET S
      OBVIOUS
    <3> HIDE DEF Bad
    <3> QED
      BY <3>1, LeastSubset
  <2>2. s # {}
    <3>1. {} \notin Bad
      BY <1>1 DEF Adds
    <3> HIDE DEF Bad
    <3> QED
      BY <3>1
  <2>3. Pick(s) \in s /\ f[s] = fun[Pick(s)] + f[s \ {Pick(s)}]
    BY <1>1, <2>2 DEF Adds
  <2>4. f[s \ {Pick(s)}] = 0
    BY <2>1, <2>3
  <2> QED
    BY <2>3, <2>4
<1> QED
  BY <1>1, <1>2 DEF Adds
-----------------------------------------------------------------------------
(* The invariant.                                                           *)

\* The cells still to be incremented.
Left(r) == {r[k] : k \in 1 .. Len(r)}

UserUpdates == {UpdateSuccess(s) : s \in Services} \cup {UpdateFails(s) : s \in Services}
               \cup {UpdateLate(s) : s \in Services}
OperatorUpdates == {UpdateRequests(s) : s \in Services} \cup {UpdatePause, UpdateActive}

\* r is what is left of w.
Suff(r, w) ==
    /\ Len(r) <= Len(w)
    /\ \A k \in 1 .. Len(r) : r[k] = w[k + Len(w) - Len(r)]

\* The update p may be in the middle of, and those it may have before it.
FirstUpdates(p) == IF p \in Users THEN UserUpdates
                   ELSE IF cust[p] # 0 THEN {UpdateRequests(service[p])} ELSE {UpdatePause, UpdateActive}
LaterUpdates(p) == IF p \in Users THEN {UpdateFails(s) : s \in Services} \cup {UpdateLate(s) : s \in Services}
                   ELSE IF cust[p] # 0 THEN {} ELSE {UpdateActive}

\* An update is whole until its process has the lock, and only the first one is begun.
PendingOk(p) ==
    Busy(p) =>
        /\ \E w \in FirstUpdates(p) : /\ Suff(Head(pending[p]), w)
                                      /\ lock # p => Head(pending[p]) = w
        /\ \A k \in 2 .. Len(pending[p]) : pending[p][k] \in LaterUpdates(p)
PendingInv == \A p \in Processes : PendingOk(p)

\* Who holds the lock uses it, if it lives; a user that counts is at home again, and a
\* user is served by one operator.
PlaceInv ==
    /\ lock \in alive => Busy(lock)
    /\ \A u \in Users : Busy(u) => stage[u] = "home"
    /\ \A o \in Operators : cust[o] # 0 => stage[cust[o]] = "taken"
    /\ \A o, p \in Operators : cust[o] # 0 /\ cust[o] = cust[p] => o = p
    /\ \A p \in Processes \ alive : ~Busy(p)
    /\ dirPc = "running" => alive = Processes
    /\ dirPc = "done" => alive = {} /\ report = book

\* While the holder of the lock lives, a counter of the office is off the sum of the
\* services' by what the holder has still to do: whether the day was cleared before the
\* update began does not matter, nor in which order it goes.  When the holder is dead
\* nobody repairs what it left, one counter off by one, and nobody makes it worse.
Owed == IF lock = 0 THEN {} ELSE Left(Head(pending[lock]))
Todo(cells) == IF cells \cap Owed = {} THEN 0 ELSE 1
GlobalCell(x) == {<<x[1], Global, x[2]>>}
ServiceCells(x) == {<<x[1], s, x[2]>> : s \in Services}
BalanceInv ==
    /\ lock = 0 \/ lock \in alive => \A x \in Balanced :
          Gap(book, x) = Todo(ServiceCells(x)) - Todo(GlobalCell(x))
    /\ lock # 0 /\ lock \notin alive => \E x \in Balanced :
          /\ Gap(book, x) \in -1 .. 1
          /\ \A y \in Balanced \ {x} : Gap(book, y) = 0

\* A user whose request is in the book and whose success is not: in an operator's
\* hands, with the answer, or about to be counted.  c is a service or the office.
RequestCell(c) == <<"simulation", c, "requests">>
ServedCell(c) == <<"simulation", c, "served">>
InHands(u, c) ==
    \E o \in Operators \cap alive :
       /\ cust[o] = u
       /\ c = Global \/ service[o] = c
       /\ Busy(o) => RequestCell(c) \notin Left(Head(pending[o]))
HasAnswer(u, c) == stage[u] = "answered" /\ (c = Global \/ service[u] = c)
IsCounting(u, c) == Busy(u) /\ ServedCell(c) \in Left(Head(pending[u]))
Owes(u, c) == InHands(u, c) \/ HasAnswer(u, c) \/ IsCounting(u, c)
Owing(c) == {u \in Users : Owes(u, c)}

\* The killing takes users and operators out of the count, never out of the book.
Excess(c) == book[RequestCell(c)] - book[ServedCell(c)]
CountOk(c) ==
    /\ Cardinality(Owing(c)) <= Excess(c)
    /\ dirPc = "running" => Excess(c) = Cardinality(Owing(c))
Entries == Services \cup {Global}
CountInv == \A c \in Entries : CountOk(c)
-----------------------------------------------------------------------------
(* The updates: every cell once, one service each, the office's cell next to *)
(* the service's.                                                            *)
Updates == UserUpdates \cup OperatorUpdates

LEMMA ServiceFacts ==
    /\ Services \subseteq Nat /\ Global \in Nat /\ Global \notin Services
    /\ IsFiniteSet(Services) /\ IsFiniteSet(Users) /\ IsFiniteSet(Operators)
    /\ 0 \notin Processes
    /\ Operators \cap Users = {}
    /\ 0 \in Services
<1>1. NumServices \in Nat \ {0}
  BY BookAssumption
<1>2. IsFiniteSet(Services)
  BY <1>1, FS_Interval DEF Services
<1> QED
  BY <1>1, <1>2, BookAssumption DEF Services, Global, Processes

LEMMA UpdateTypes ==
    \A s \in Services :
        /\ UpdateRequests(s) \in Seq(Cells) /\ UpdateSuccess(s) \in Seq(Cells)
        /\ UpdateFails(s) \in Seq(Cells) /\ UpdateLate(s) \in Seq(Cells)
        /\ UpdatePause \in Seq(Cells) /\ UpdateActive \in Seq(Cells)
<1> SUFFICES ASSUME NEW s \in Services
             PROVE  /\ UpdateRequests(s) \in Seq(Cells) /\ UpdateSuccess(s) \in Seq(Cells)
                    /\ UpdateFails(s) \in Seq(Cells) /\ UpdateLate(s) \in Seq(Cells)
                    /\ UpdatePause \in Seq(Cells) /\ UpdateActive \in Seq(Cells)
  OBVIOUS
<1>1. \A scope \in Scopes, t \in {s, Global}, c \in Counters : <<scope, t, c>> \in Cells
  BY DEF Cells
<1>2. /\ "simulation" \in Scopes /\ "today" \in Scopes
      /\ "requests" \in Counters /\ "served" \in Counters /\ "failed" \in Counters
      /\ "late" \in Counters /\ "pauses" \in Counters /\ "active" \in Counters
  BY DEF Scopes, Counters
<1> QED
  BY <1>1, <1>2 DEF UpdateRequests, UpdateSuccess, UpdateFails, UpdateLate, UpdatePause, UpdateActive

\* w names no cell twice and no counter of two services.
Orderly(w) ==
    /\ \A j, k \in 1 .. Len(w) : w[j] = w[k] => j = k
    /\ \A j, k \in 1 .. Len(w) :
          w[j][2] \in Services /\ w[k][2] \in Services => w[j][2] = w[k][2]

LEMMA UpdatesOrderly == \A w \in Updates : Orderly(w)
<1> USE ServiceFacts
<1>1. \A s \in Services : Orderly(UpdateRequests(s))
  BY DEF UpdateRequests, Orderly
<1>2. \A s \in Services : Orderly(UpdateSuccess(s))
  BY DEF UpdateSuccess, Orderly
<1>3. \A s \in Services : Orderly(UpdateFails(s))
  BY DEF UpdateFails, Orderly
<1>4. \A s \in Services : Orderly(UpdateLate(s))
  BY DEF UpdateLate, Orderly
<1>5. Orderly(UpdatePause) /\ Orderly(UpdateActive)
  BY DEF UpdatePause, UpdateActive, Orderly
<1> QED
  BY <1>1, <1>2, <1>3, <1>4, <1>5 DEF Updates, UserUpdates, OperatorUpdates

\* What is left of w when n of its cells are incremented, and whether the office's
\* counter and the services' are equally far.
Rest(w, n) == {w[k] : k \in n + 1 .. Len(w)}
Agree(x, cells) == GlobalCell(x) \cap cells = {} <=> ServiceCells(x) \cap cells = {}

LEMMA AgreeCells ==
    ASSUME NEW x \in Balanced, NEW cells, NEW s \in Services,
           \A c \in cells : /\ c = <<c[1], c[2], c[3]>>
                            /\ c[2] = s \/ c[2] = Global \/ <<c[1], c[3]>> \notin Balanced
    PROVE  Agree(x, cells) <=> (<<x[1], Global, x[2]>> \in cells <=> <<x[1], s, x[2]>> \in cells)
<1>1. x = <<x[1], x[2]>>
  BY DEF Balanced, Scopes
<1>2. ASSUME NEW t \in Services, <<x[1], t, x[2]>> \in cells PROVE t = s
  BY <1>1, <1>2, ServiceFacts
<1> QED
  BY <1>2 DEF Agree, GlobalCell, ServiceCells

\* n cells of w are incremented: at most one counter is ahead.
Steady(w, n) == \E x \in Balanced : \A y \in Balanced \ {x} : Agree(y, Rest(w, n))

LEMMA BalancedPairs ==
    Balanced = {<<"simulation", "requests">>, <<"simulation", "served">>, <<"simulation", "failed">>,
                <<"today", "requests">>, <<"today", "served">>, <<"today", "failed">>,
                <<"simulation", "late">>}
BY DEF Balanced, Scopes

\* Most updates: two counters, each with its two cells next to one another.
LEMMA TwoCounters ==
    ASSUME NEW s \in Services, NEW x \in Balanced, NEW y \in Balanced, x # y,
           NEW w, Len(w) = 4,
           {w[1], w[2]} = {<<x[1], Global, x[2]>>, <<x[1], s, x[2]>>},
           {w[3], w[4]} = {<<y[1], Global, y[2]>>, <<y[1], s, y[2]>>}
    PROVE  /\ \A z \in Balanced : Agree(z, Rest(w, 0))
           /\ \A n \in 0 .. Len(w) : Steady(w, n)
<1>1. /\ Rest(w, 4) = {}
      /\ Rest(w, 3) = {w[4]}
      /\ Rest(w, 2) = {w[3], w[4]}
      /\ Rest(w, 1) = {w[2], w[3], w[4]}
      /\ Rest(w, 0) = {w[1], w[2], w[3], w[4]}
  BY DEF Rest
<1>2. \A n \in 0 .. 4 : n \in {0, 1, 2, 3, 4}
  OBVIOUS
<1>3. \A z \in Balanced : z = <<z[1], z[2]>>
  BY BalancedPairs
<1>4. \A z \in Balanced, n \in 0 .. 4 :
          Agree(z, Rest(w, n))
            <=> (<<z[1], Global, z[2]>> \in Rest(w, n) <=> <<z[1], s, z[2]>> \in Rest(w, n))
  <2> SUFFICES ASSUME NEW z \in Balanced, NEW n \in 0 .. 4
               PROVE  Agree(z, Rest(w, n)) <=>
                        (<<z[1], Global, z[2]>> \in Rest(w, n) <=> <<z[1], s, z[2]>> \in Rest(w, n))
    OBVIOUS
  <2>1. \A c \in {w[1], w[2], w[3], w[4]} : c = <<c[1], c[2], c[3]>> /\ c[2] \in {s, Global}
    <3>1. \A c \in {w[1], w[2]} : c = <<c[1], c[2], c[3]>> /\ c[2] \in {s, Global}
      OBVIOUS
    <3>2. \A c \in {w[3], w[4]} : c = <<c[1], c[2], c[3]>> /\ c[2] \in {s, Global}
      OBVIOUS
    <3> QED
      BY <3>1, <3>2
  <2>2. Rest(w, n) \subseteq {w[1], w[2], w[3], w[4]}
    BY <1>1, <1>2
  <2> QED
    BY <2>1, <2>2, AgreeCells
<1>5. ASSUME NEW z \in Balanced, NEW t \in {s, Global}
      PROVE  /\ <<z[1], t, z[2]>> \in {w[1], w[2]} <=> z = x
             /\ <<z[1], t, z[2]>> \in {w[3], w[4]} <=> z = y
  <2>1. <<z[1], t, z[2]>> \in {<<x[1], Global, x[2]>>, <<x[1], s, x[2]>>} <=> z = x
    BY <1>3
  <2>2. <<z[1], t, z[2]>> \in {<<y[1], Global, y[2]>>, <<y[1], s, y[2]>>} <=> z = y
    BY <1>3
  <2> QED
    BY <2>1, <2>2
<1>6. ASSUME NEW z \in Balanced
      PROVE  /\ Agree(z, Rest(w, 0)) /\ Agree(z, Rest(w, 2)) /\ Agree(z, Rest(w, 4))
             /\ z # x => Agree(z, Rest(w, 1))
             /\ z # y => Agree(z, Rest(w, 3))
  <2> DEFINE g == <<z[1], Global, z[2]>>
             f == <<z[1], s, z[2]>>
  <2>1. /\ g \in {w[1], w[2]} <=> z = x
        /\ f \in {w[1], w[2]} <=> z = x
        /\ g \in {w[3], w[4]} <=> z = y
        /\ f \in {w[3], w[4]} <=> z = y
    BY <1>5
  <2>2. \A n \in 0 .. 4 : Agree(z, Rest(w, n)) <=> (g \in Rest(w, n) <=> f \in Rest(w, n))
    BY <1>4
  <2> HIDE DEF g, f
  <2>3. Agree(z, Rest(w, 0)) /\ Agree(z, Rest(w, 2)) /\ Agree(z, Rest(w, 4))
    BY <1>1, <2>1, <2>2
  <2>4. z # x => Agree(z, Rest(w, 1))
    BY <1>1, <2>1, <2>2
  <2>5. z # y => Agree(z, Rest(w, 3))
    BY <1>1, <2>1, <2>2
  <2> QED
    BY <2>3, <2>4, <2>5
<1>8. \A n \in 0 .. 4 : Steady(w, n)
  BY <1>2, <1>6 DEF Steady
<1> QED
  BY <1>6, <1>8

LEMMA LateEven ==
    ASSUME NEW s \in Services
    PROVE  LET w == UpdateLate(s)
           IN  /\ \A x \in Balanced : Agree(x, Rest(w, 0))
               /\ \A n \in 0 .. Len(w) : Steady(w, n)
<1> DEFINE w == UpdateLate(s)
<1>1. Len(w) = 3
  BY DEF UpdateLate
<1>2. /\ Rest(w, 3) = {}
      /\ Rest(w, 2) = {<<"simulation", s, "late">>}
      /\ Rest(w, 1) = {<<"simulation", Global, "late">>, <<"simulation", s, "late">>}
      /\ Rest(w, 0) = {<<"today", Global, "late">>, <<"simulation", Global, "late">>,
                      <<"simulation", s, "late">>}
  BY <1>1 DEF Rest, UpdateLate
<1> HIDE DEF w
<1>3. \A x \in Balanced, n \in 0 .. 3 :
          Agree(x, Rest(w, n))
            <=> (<<x[1], Global, x[2]>> \in Rest(w, n) <=> <<x[1], s, x[2]>> \in Rest(w, n))
  <2> SUFFICES ASSUME NEW x \in Balanced, NEW n \in 0 .. 3
               PROVE  Agree(x, Rest(w, n)) <=>
                        (<<x[1], Global, x[2]>> \in Rest(w, n) <=> <<x[1], s, x[2]>> \in Rest(w, n))
    OBVIOUS
  <2>1. \A c \in Rest(w, n) : /\ c = <<c[1], c[2], c[3]>>
                              /\ c[2] = s \/ c[2] = Global \/ <<c[1], c[3]>> \notin Balanced
    <3>1. n \in {0, 1, 2, 3}
      OBVIOUS
    <3> QED
      BY <1>2, <3>1
  <2> QED
    BY <2>1, AgreeCells
<1>4. \A x \in Balanced : Agree(x, Rest(w, 0)) /\ Agree(x, Rest(w, 1)) /\ Agree(x, Rest(w, 3))
  BY <1>2, <1>3, BalancedPairs, ServiceFacts
<1>5. \A x \in Balanced : x # <<"simulation", "late">> => Agree(x, Rest(w, 2))
  BY <1>2, <1>3, BalancedPairs, ServiceFacts
<1>6. <<"simulation", "late">> \in Balanced
  BY BalancedPairs
<1>7. \A n \in 0 .. 3 : Steady(w, n)
  <2>1. \A n \in 0 .. 3 : n \in {0, 1, 2, 3}
    OBVIOUS
  <2> QED
    BY <2>1, <1>4, <1>5, <1>6 DEF Steady
<1> QED
  BY <1>1, <1>4, <1>7 DEF w

\* Pauses and active operators are counted for the office only.
LEMMA UncountedEven ==
    ASSUME NEW w \in {UpdatePause, UpdateActive}
    PROVE  /\ \A x \in Balanced : Agree(x, Rest(w, 0))
           /\ \A n \in 0 .. Len(w) : Steady(w, n)
<1>1. \A k \in 1 .. Len(w) : /\ w[k] = <<w[k][1], w[k][2], w[k][3]>>
                             /\ w[k][3] \in {"pauses", "active"}
  BY DEF UpdatePause, UpdateActive
<1>2. \A n \in 0 .. Len(w), x \in Balanced : Agree(x, Rest(w, n))
  BY <1>1, BalancedPairs DEF Agree, Rest, GlobalCell, ServiceCells
<1>3. Len(w) = 2
  BY DEF UpdatePause, UpdateActive
<1>4. Balanced # {}
  BY BalancedPairs
<1> QED
  BY <1>2, <1>3, <1>4 DEF Steady

LEMMA UpdatesEven ==
    ASSUME NEW w \in Updates
    PROVE  /\ \A x \in Balanced : Agree(x, Rest(w, 0))
           /\ \A n \in 0 .. Len(w) : Steady(w, n)
<1>1. ASSUME NEW s \in Services, w \in {UpdateRequests(s), UpdateSuccess(s), UpdateFails(s)}
      PROVE  /\ \A x \in Balanced : Agree(x, Rest(w, 0))
             /\ \A n \in 0 .. Len(w) : Steady(w, n)
  <2>1. PICK c \in {"requests", "served", "failed"} :
            /\ Len(w) = 4
            /\ {w[1], w[2]} = {<<"simulation", Global, c>>, <<"simulation", s, c>>}
            /\ {w[3], w[4]} = {<<"today", Global, c>>, <<"today", s, c>>}
    <3>1. CASE w = UpdateRequests(s)
      BY <3>1 DEF UpdateRequests
    <3>2. CASE w = UpdateSuccess(s)
      BY <3>2 DEF UpdateSuccess
    <3>3. CASE w = UpdateFails(s)
      BY <3>3 DEF UpdateFails
    <3> QED
      BY <1>1, <3>1, <3>2, <3>3
  <2>2. /\ <<"simulation", c>> \in Balanced /\ <<"today", c>> \in Balanced
        /\ <<"simulation", c>> # <<"today", c>>
    BY BalancedPairs
  <2> DEFINE x == <<"simulation", c>>
             y == <<"today", c>>
  <2>3. x \in Balanced /\ y \in Balanced /\ x # y
    BY <2>2
  <2>4. {w[1], w[2]} = {<<x[1], Global, x[2]>>, <<x[1], s, x[2]>>}
    BY <2>1
  <2>5. {w[3], w[4]} = {<<y[1], Global, y[2]>>, <<y[1], s, y[2]>>}
    BY <2>1
  <2> HIDE DEF x, y
  <2> QED
    BY <2>1, <2>3, <2>4, <2>5, TwoCounters
<1> QED
  BY <1>1, LateEven, UncountedEven DEF Updates, UserUpdates, OperatorUpdates
-----------------------------------------------------------------------------
(* What is still to do of an update, and the gap between the office's counter *)
(* and the services'.                                                         *)
LEMMA UpdateIsSeq == Updates \subseteq Seq(Cells)
BY UpdateTypes, ServiceFacts DEF Updates, UserUpdates, OperatorUpdates

LEMMA SuffFacts ==
    ASSUME NEW w \in Updates, NEW r \in Seq(Cells), Suff(r, w)
    PROVE  /\ Len(w) - Len(r) \in 0 .. Len(w)
           /\ Left(r) = Rest(w, Len(w) - Len(r))
           /\ Left(r) \subseteq Left(w)
<1>1. w \in Seq(Cells)
  BY UpdateIsSeq
<1>2. Len(r) \in Nat /\ Len(w) \in Nat /\ Len(r) <= Len(w)
  BY <1>1 DEF Suff
<1> DEFINE d == Len(w) - Len(r)
<1>3. d \in 0 .. Len(w)
  BY <1>2
<1>4. ASSUME NEW k \in 1 .. Len(r) PROVE k + d \in d + 1 .. Len(w) /\ r[k] = w[k + d]
  BY <1>2 DEF Suff
<1>5. ASSUME NEW k \in d + 1 .. Len(w) PROVE k - d \in 1 .. Len(r) /\ w[k] = r[k - d]
  <2>1. k - d \in 1 .. Len(r)
    BY <1>2
  <2>2. (k - d) + d = k
    BY <1>2
  <2> QED
    BY <2>1, <2>2, <1>4
<1>6. Left(r) = Rest(w, d)
  <2> HIDE DEF d
  <2>1. Left(r) \subseteq Rest(w, d)
    BY <1>4 DEF Left, Rest
  <2>2. Rest(w, d) \subseteq Left(r)
    BY <1>5 DEF Left, Rest
  <2> QED
    BY <2>1, <2>2
<1>7. Rest(w, d) \subseteq Left(w)
  BY <1>2, <1>3 DEF Left, Rest
<1> QED
  BY <1>3, <1>6, <1>7

LEMMA SuffTail ==
    ASSUME NEW w \in Updates, NEW r \in Seq(Cells), Suff(r, w), r # << >>
    PROVE  /\ Head(r) \in Left(r) /\ Head(r) \in Cells
           /\ Tail(r) \in Seq(Cells) /\ Suff(Tail(r), w)
           /\ Left(Tail(r)) = Left(r) \ {Head(r)}
<1>1. w \in Seq(Cells)
  BY UpdateIsSeq
<1>2. /\ Len(r) \in Nat \ {0} /\ Len(w) \in Nat /\ Len(r) <= Len(w)
      /\ Tail(r) \in Seq(Cells) /\ Len(Tail(r)) = Len(r) - 1
      /\ Head(r) = r[1]
      /\ \A k \in 1 .. Len(r) - 1 : Tail(r)[k] = r[k + 1]
  BY <1>1 DEF Suff
<1>3. \A j, k \in 1 .. Len(r) : r[j] = r[k] => j = k
  <2>1. \A j, k \in 1 .. Len(w) : w[j] = w[k] => j = k
    BY UpdatesOrderly DEF Orderly
  <2> SUFFICES ASSUME NEW j \in 1 .. Len(r), NEW k \in 1 .. Len(r), r[j] = r[k] PROVE j = k
    OBVIOUS
  <2>2. /\ j + Len(w) - Len(r) \in 1 .. Len(w) /\ k + Len(w) - Len(r) \in 1 .. Len(w)
        /\ w[j + Len(w) - Len(r)] = w[k + Len(w) - Len(r)]
    BY <1>2 DEF Suff
  <2>3. j + Len(w) - Len(r) = k + Len(w) - Len(r)
    BY <2>1, <2>2
  <2> QED
    BY <2>3, <1>2
<1>4. Head(r) \in Left(r) /\ Head(r) \in Cells
  BY <1>2 DEF Left
<1>5. Suff(Tail(r), w)
  <2> SUFFICES ASSUME NEW k \in 1 .. Len(Tail(r))
               PROVE  Tail(r)[k] = w[k + Len(w) - Len(Tail(r))]
    BY <1>2 DEF Suff
  <2>1. k + 1 \in 1 .. Len(r) /\ Tail(r)[k] = r[k + 1]
    BY <1>2
  <2>2. r[k + 1] = w[(k + 1) + Len(w) - Len(r)]
    BY <2>1 DEF Suff
  <2>3. (k + 1) + Len(w) - Len(r) = k + Len(w) - Len(Tail(r))
    BY <1>2
  <2> QED
    BY <2>1, <2>2, <2>3
<1>6. Left(Tail(r)) \subseteq Left(r) \ {Head(r)}
  <2> SUFFICES ASSUME NEW k \in 1 .. Len(Tail(r))
               PROVE  Tail(r)[k] \in Left(r) /\ Tail(r)[k] # r[1]
    BY <1>2 DEF Left
  <2>1. k + 1 \in 1 .. Len(r) /\ k + 1 # 1 /\ Tail(r)[k] = r[k + 1] /\ 1 \in 1 .. Len(r)
    BY <1>2
  <2> QED
    BY <2>1, <1>3 DEF Left
<1>7. Left(r) \ {Head(r)} \subseteq Left(Tail(r))
  <2> SUFFICES ASSUME NEW k \in 1 .. Len(r), r[k] # r[1]
               PROVE  r[k] \in Left(Tail(r))
    BY <1>2 DEF Left
  <2>1. k - 1 \in 1 .. Len(Tail(r)) /\ (k - 1) + 1 = k
    BY <1>2
  <2>2. Tail(r)[k - 1] = r[k]
    BY <2>1, <1>2
  <2> QED
    BY <2>1, <2>2 DEF Left
<1> QED
  BY <1>2, <1>4, <1>5, <1>6, <1>7

\* The cells of an update that are counters of services are of one service.
LEMMA OneService ==
    ASSUME NEW w \in Updates, NEW c \in Left(w), NEW d \in Left(w),
           c[2] \in Services, d[2] \in Services
    PROVE  c[2] = d[2]
BY UpdatesOrderly DEF Orderly, Left

LEMMA GapType ==
    ASSUME NEW b \in [Cells -> Nat], NEW x \in Balanced
    PROVE  /\ <<x[1], Global, x[2]>> \in Cells
           /\ \A s \in Services : <<x[1], s, x[2]>> \in Cells
           /\ [s \in Services |-> b[<<x[1], s, x[2]>>]] \in [Services -> Int]
           /\ ServiceSum(b, x[1], x[2]) = SumFunctionOnSet([s \in Services |-> b[<<x[1], s, x[2]>>]], Services)
           /\ ServiceSum(b, x[1], x[2]) \in Int
           /\ Gap(b, x) \in Int
<1>1. x[1] \in Scopes /\ x[2] \in Counters
  BY BalancedPairs DEF Scopes, Counters
<1>2. \A s \in Services \cup {Global} : <<x[1], s, x[2]>> \in Cells
  BY <1>1 DEF Cells
<1> DEFINE f == [s \in Services |-> b[<<x[1], s, x[2]>>]]
<1>3. f \in [Services -> Int]
  BY <1>2
<1>4. ServiceSum(b, x[1], x[2]) = SumFunctionOnSet(f, Services)
  BY DEF ServiceSum, SumFunction
<1>5. SumFunctionOnSet(f, Services) \in Int
  BY <1>3, ServiceFacts, SumType
<1> QED
  BY <1>2, <1>3, <1>4, <1>5 DEF Gap

LEMMA GapIncrement ==
    ASSUME NEW b \in [Cells -> Nat], NEW h \in Cells, NEW x \in Balanced
    PROVE  Gap([b EXCEPT ![h] = @ + 1], x)
             = Gap(b, x) + (IF h \in GlobalCell(x) THEN 1 ELSE 0)
                         - (IF h \in ServiceCells(x) THEN 1 ELSE 0)
<1> DEFINE b2 == [b EXCEPT ![h] = @ + 1]
           f == [s \in Services |-> b[<<x[1], s, x[2]>>]]
           g == [s \in Services |-> b2[<<x[1], s, x[2]>>]]
<1>1. b2 \in [Cells -> Nat] /\ \A c \in Cells : b2[c] = IF c = h THEN b[c] + 1 ELSE b[c]
  OBVIOUS
<1> HIDE DEF b2
<1>2. /\ <<x[1], Global, x[2]>> \in Cells
      /\ \A s \in Services : <<x[1], s, x[2]>> \in Cells
      /\ f \in [Services -> Int] /\ ServiceSum(b, x[1], x[2]) = SumFunctionOnSet(f, Services)
      /\ SumFunctionOnSet(f, Services) \in Int
  BY GapType
<1>3. g \in [Services -> Int] /\ ServiceSum(b2, x[1], x[2]) = SumFunctionOnSet(g, Services)
  BY <1>1, GapType
<1>4. \A s \in Services : f[s] = b[<<x[1], s, x[2]>>] /\ g[s] = b2[<<x[1], s, x[2]>>]
  OBVIOUS
<1> HIDE DEF f, g
<1>5. b2[<<x[1], Global, x[2]>>] = b[<<x[1], Global, x[2]>>] + (IF h \in GlobalCell(x) THEN 1 ELSE 0)
  BY <1>1, <1>2 DEF GlobalCell
<1>6. SumFunctionOnSet(g, Services)
        = SumFunctionOnSet(f, Services) + (IF h \in ServiceCells(x) THEN 1 ELSE 0)
  <2>1. CASE h \in ServiceCells(x)
    <3>1. PICK s \in Services : h = <<x[1], s, x[2]>>
      BY <2>1 DEF ServiceCells
    <3>2. g[s] = f[s] + 1 /\ \A t \in Services : t # s => g[t] = f[t]
      BY <3>1, <1>1, <1>2, <1>4
    <3>3. SumFunctionOnSet(g, Services) = SumFunctionOnSet(f, Services) + g[s] - f[s]
      <4>1. /\ IsFiniteSet(Services) /\ f \in [Services -> Int] /\ g \in [Services -> Int]
            /\ \A t \in Services : t # s => g[t] = f[t]
        BY <3>2, <1>2, <1>3, ServiceFacts
      <4> QED
        BY <4>1, SumChanges
    <3> QED
      BY <2>1, <3>2, <3>3, <1>2, <1>3
  <2>2. CASE h \notin ServiceCells(x)
    <3>1. \A t \in Services : g[t] = f[t]
      BY <2>2, <1>1, <1>2, <1>4 DEF ServiceCells
    <3>2. g = f
      BY <3>1, <1>2, <1>3
    <3> QED
      BY <2>2, <3>2, <1>2
  <2> QED
    BY <2>1, <2>2
<1>7. b[<<x[1], Global, x[2]>>] \in Int /\ h \in Cells
  BY <1>2
<1>8. Gap(b2, x) = Gap(b, x) + (IF h \in GlobalCell(x) THEN 1 ELSE 0)
                             - (IF h \in ServiceCells(x) THEN 1 ELSE 0)
  BY <1>2, <1>3, <1>5, <1>6, <1>7 DEF Gap
<1> QED
  BY <1>8 DEF b2

LEMMA GapCleared ==
    ASSUME NEW b \in [Cells -> Nat], NEW x \in Balanced
    PROVE  Gap([c \in Cells |-> IF c[1] = "today" THEN 0 ELSE b[c]], x)
             = IF x[1] = "today" THEN 0 ELSE Gap(b, x)
<1> DEFINE b2 == [c \in Cells |-> IF c[1] = "today" THEN 0 ELSE b[c]]
           f == [s \in Services |-> b[<<x[1], s, x[2]>>]]
           g == [s \in Services |-> b2[<<x[1], s, x[2]>>]]
<1>1. b2 \in [Cells -> Nat] /\ \A c \in Cells : b2[c] = IF c[1] = "today" THEN 0 ELSE b[c]
  OBVIOUS
<1> HIDE DEF b2
<1>2. /\ <<x[1], Global, x[2]>> \in Cells
      /\ \A s \in Services : <<x[1], s, x[2]>> \in Cells
      /\ f \in [Services -> Int] /\ ServiceSum(b, x[1], x[2]) = SumFunctionOnSet(f, Services)
  BY GapType
<1>3. g \in [Services -> Int] /\ ServiceSum(b2, x[1], x[2]) = SumFunctionOnSet(g, Services)
  BY <1>1, GapType
<1>4. \A s \in Services : f[s] = b[<<x[1], s, x[2]>>] /\ g[s] = b2[<<x[1], s, x[2]>>]
  OBVIOUS
<1> HIDE DEF f, g
<1>5. CASE x[1] = "today"
  <2>1. \A s \in Services : g[s] = 0
    BY <1>5, <1>1, <1>2, <1>4
  <2>2. SumFunctionOnSet(g, Services) = 0
    BY <2>1, <1>3, SumOfZeros, ServiceFacts
  <2>3. b2[<<x[1], Global, x[2]>>] = 0
    BY <1>5, <1>1, <1>2
  <2>4. Gap(b2, x) = 0
    BY <2>2, <2>3, <1>3 DEF Gap
  <2> QED
    BY <2>4, <1>5 DEF b2
<1>6. CASE x[1] # "today"
  <2>1. \A s \in Services : g[s] = f[s]
    BY <1>6, <1>1, <1>2, <1>4
  <2>2. g = f
    BY <2>1, <1>2, <1>3
  <2>3. b2[<<x[1], Global, x[2]>>] = b[<<x[1], Global, x[2]>>]
    BY <1>6, <1>1, <1>2
  <2>4. Gap(b2, x) = Gap(b, x)
    BY <2>2, <2>3, <1>2, <1>3 DEF Gap
  <2> QED
    BY <2>4, <1>6 DEF b2
<1> QED
  BY <1>5, <1>6
-----------------------------------------------------------------------------
(* Types.                                                                    *)
BookTypes ==
    /\ book \in [Cells -> Nat] /\ report \in [Cells -> Nat]
    /\ lock \in Processes \cup {0}
    /\ pending \in [Processes -> Seq(Seq(Cells))]
    /\ service \in [Processes -> Services]
    /\ cust \in [Operators -> Users \cup {0}]
    /\ stage \in [Users -> {"home", "waiting", "taken", "answered"}]
    /\ alive \subseteq Processes /\ dirPc \in {"running", "killing", "done", "unwritten"}

LEMMA MakesFacts ==
    ASSUME BookTypes, NEW p \in Processes, NEW ups \in Seq(Seq(Cells)), Makes(p, ups)
    PROVE  /\ pending' \in [Processes -> Seq(Seq(Cells))]
           /\ pending'[p] = ups
           /\ \A q \in Processes : q # p => pending'[q] = pending[q]
BY DEF BookTypes, Makes

\* What is under way and what remains, after an increment and after an unlock.
LEMMA BusyFacts ==
    ASSUME BookTypes, NEW p \in Processes, Busy(p)
    PROVE  /\ Len(pending[p]) \in Nat \ {0}
           /\ Head(pending[p]) = pending[p][1]
           /\ Head(pending[p]) \in Seq(Cells)
           /\ \A k \in 1 .. Len(pending[p]) : pending[p][k] \in Seq(Cells)
           /\ Tail(pending[p]) \in Seq(Seq(Cells))
           /\ Len(Tail(pending[p])) = Len(pending[p]) - 1
           /\ \A k \in 1 .. Len(pending[p]) - 1 : Tail(pending[p])[k] = pending[p][k + 1]
<1>1. pending[p] \in Seq(Seq(Cells)) /\ pending[p] # << >>
  BY DEF BookTypes, Busy
<1> QED
  BY <1>1

LEMMA IncrementFacts ==
    ASSUME BookTypes, NEW p \in Processes, Increment(p)
    PROVE  /\ Head(pending[p]) \in Seq(Cells) /\ Head(pending[p]) # << >>
           /\ Head(Head(pending[p])) \in Cells
           /\ pending' \in [Processes -> Seq(Seq(Cells))]
           /\ \A q \in Processes : q # p => pending'[q] = pending[q]
           /\ Len(pending'[p]) = Len(pending[p]) /\ pending'[p] # << >>
           /\ Head(pending'[p]) = Tail(Head(pending[p]))
           /\ \A k \in 2 .. Len(pending[p]) : pending'[p][k] = pending[p][k]
           /\ book' \in [Cells -> Nat]
           /\ book' = [book EXCEPT ![Head(Head(pending[p]))] = @ + 1]
<1>1. Busy(p) /\ Head(pending[p]) # << >>
  BY DEF Increment
<1>2. /\ Len(pending[p]) \in Nat \ {0}
      /\ Head(pending[p]) = pending[p][1]
      /\ Head(pending[p]) \in Seq(Cells)
  BY <1>1, BusyFacts
<1>3. Head(Head(pending[p])) \in Cells /\ Tail(Head(pending[p])) \in Seq(Cells)
  BY <1>1, <1>2
<1> DEFINE now == [pending[p] EXCEPT ![1] = Tail(pending[p][1])]
<1>4. pending' = [pending EXCEPT ![p] = now]
  BY DEF Increment
<1>5. /\ now \in Seq(Seq(Cells)) /\ Len(now) = Len(pending[p]) /\ now # << >>
      /\ now[1] = Tail(Head(pending[p]))
      /\ \A k \in 2 .. Len(pending[p]) : now[k] = pending[p][k]
  <2>1. pending[p] \in Seq(Seq(Cells))
    BY DEF BookTypes
  <2> QED
    BY <2>1, <1>2, <1>3
<1> HIDE DEF now
<1>6. pending' \in [Processes -> Seq(Seq(Cells))] /\ pending'[p] = now
  BY <1>4, <1>5 DEF BookTypes
<1>7. \A q \in Processes : q # p => pending'[q] = pending[q]
  BY <1>4, <1>5 DEF BookTypes
<1>8. book' = [book EXCEPT ![Head(Head(pending[p]))] = @ + 1]
  BY DEF Increment
<1>9. book' \in [Cells -> Nat]
  <2>1. book \in [Cells -> Nat]
    BY DEF BookTypes
  <2>2. \A n \in Nat : n + 1 \in Nat
    OBVIOUS
  <2> QED
    BY <1>3, <1>8, <2>1, <2>2
<1>10. Head(now) = now[1]
  BY <1>5
<1> QED
  BY <1>1, <1>2, <1>3, <1>5, <1>6, <1>7, <1>8, <1>9, <1>10

LEMMA UnlockFacts ==
    ASSUME BookTypes, NEW p \in Processes, Unlock(p)
    PROVE  /\ Head(pending[p]) = << >>
           /\ pending' \in [Processes -> Seq(Seq(Cells))]
           /\ \A q \in Processes : q # p => pending'[q] = pending[q]
           /\ Len(pending'[p]) = Len(pending[p]) - 1
           /\ \A k \in 1 .. Len(pending[p]) - 1 : pending'[p][k] = pending[p][k + 1]
<1>1. Busy(p)
  BY DEF Unlock
<1>2. pending' = [pending EXCEPT ![p] = Tail(pending[p])]
  BY DEF Unlock
<1>3. /\ Tail(pending[p]) \in Seq(Seq(Cells)) /\ Len(Tail(pending[p])) = Len(pending[p]) - 1
      /\ \A k \in 1 .. Len(pending[p]) - 1 : Tail(pending[p])[k] = pending[p][k + 1]
  BY <1>1, BusyFacts
<1>4. pending' \in [Processes -> Seq(Seq(Cells))] /\ pending'[p] = Tail(pending[p])
  BY <1>2, <1>3 DEF BookTypes
<1> QED
  BY <1>2, <1>3, <1>4 DEF BookTypes, Unlock

\* What the processes set out to count.
LEMMA MadeTypes ==
    ASSUME NEW s \in Services, NEW t \in Services
    PROVE  /\ <<UpdateRequests(s)>> \in Seq(Seq(Cells))
           /\ <<UpdatePause, UpdateActive>> \in Seq(Seq(Cells))
           /\ <<UpdateActive>> \in Seq(Seq(Cells))
           /\ <<UpdateFails(s)>> \in Seq(Seq(Cells))
           /\ <<UpdateLate(s), UpdateFails(s)>> \in Seq(Seq(Cells))
           /\ <<UpdateSuccess(s)>> \in Seq(Seq(Cells))
           /\ <<UpdateSuccess(s), UpdateLate(t)>> \in Seq(Seq(Cells))
           /\ << >> \in Seq(Seq(Cells))
BY UpdateTypes

LEMMA TypesInit == Init => BookTypes
BY ServiceFacts, MadeTypes DEF Init, BookTypes, Processes

LEMMA TypesStep == BookTypes /\ [Next]_vars => BookTypes'
<1> SUFFICES ASSUME BookTypes, [Next]_vars PROVE BookTypes'
  OBVIOUS
<1>1. ASSUME NEW p \in Processes, Lock(p) PROVE BookTypes'
  BY <1>1 DEF Lock, BookTypes, workers, director
<1>2. ASSUME NEW p \in Processes, Increment(p) PROVE BookTypes'
  BY <1>2, IncrementFacts DEF Increment, BookTypes, workers, director
<1>3. ASSUME NEW p \in Processes, Unlock(p) PROVE BookTypes'
  BY <1>3, UnlockFacts DEF Unlock, BookTypes, workers, director
<1>4. ASSUME NEW o \in Operators, OpTake(o) PROVE BookTypes'
  <2>1. pending' \in [Processes -> Seq(Seq(Cells))]
    BY <1>4, MakesFacts, MadeTypes DEF OpTake, Processes, BookTypes
  <2> QED
    BY <1>4, <2>1 DEF OpTake, BookTypes, director
<1>5. ASSUME NEW o \in Operators, OpAnswer(o) PROVE BookTypes'
  <2>1. pending' \in [Processes -> Seq(Seq(Cells))]
    BY <1>5, MakesFacts, MadeTypes, ServiceFacts DEF OpAnswer, Processes, BookTypes
  <2>2. cust[o] \in Users /\ cust[o] \in Processes /\ o \in Processes
    BY <1>5 DEF OpAnswer, BookTypes, Processes
  <2> QED
    BY <1>5, <2>1, <2>2 DEF OpAnswer, BookTypes, director
<1>6. ASSUME NEW o \in Operators, OpShiftOver(o) PROVE BookTypes'
  <2>1. pending' \in [Processes -> Seq(Seq(Cells))]
    BY <1>6, MakesFacts, MadeTypes, ServiceFacts DEF OpShiftOver, Processes, BookTypes
  <2> QED
    BY <1>6, <2>1 DEF OpShiftOver, BookTypes, director
<1>7. ASSUME NEW u \in Users, UtPresent(u) PROVE BookTypes'
  BY <1>7 DEF UtPresent, Arrives, BookTypes, director
<1>8. ASSUME NEW u \in Users, UtUnserved(u) PROVE BookTypes'
  <2>1. pending' \in [Processes -> Seq(Seq(Cells))]
    BY <1>8, MakesFacts, MadeTypes, ServiceFacts DEF UtUnserved, Processes, BookTypes
  <2> QED
    BY <1>8, <2>1 DEF UtUnserved, BookTypes, director
<1>9. ASSUME NEW u \in Users, UtDone(u) PROVE BookTypes'
  <2>1. u \in Processes
    BY DEF Processes
  <2>2. pending' \in [Processes -> Seq(Seq(Cells))]
    BY <1>9, <2>1, MakesFacts, MadeTypes, ServiceFacts DEF UtDone, BookTypes
  <2> QED
    BY <1>9, <2>1, <2>2, ServiceFacts DEF UtDone, BookTypes, director
<1>10. ASSUME DirNewDay PROVE BookTypes'
  BY <1>10 DEF DirNewDay, Midnight, BookTypes, workers
<1>11. ASSUME DirKill PROVE BookTypes'
  <2>1. PICK p \in alive : alive' = alive \ {p} /\ Makes(p, << >>)
    BY <1>11 DEF DirKill
  <2>2. pending' \in [Processes -> Seq(Seq(Cells))]
    BY <2>1, MakesFacts, MadeTypes, ServiceFacts DEF BookTypes
  <2> QED
    BY <1>11, <2>1, <2>2 DEF DirKill, BookTypes, workers
<1>12. ASSUME DirReport PROVE BookTypes'
  BY <1>12 DEF DirReport, BookTypes, workers
<1>13. CASE UNCHANGED vars
  BY <1>13 DEF vars, BookTypes, workers, director
<1> QED
  BY <1>1, <1>2, <1>3, <1>4, <1>5, <1>6, <1>7, <1>8, <1>9, <1>10, <1>11, <1>12, <1>13
     DEF Next, ProcessStep, DirStep
-----------------------------------------------------------------------------
(* What a process is in the middle of.                                       *)
WorkInv == PendingInv /\ PlaceInv

LEMMA FirstFacts ==
    ASSUME BookTypes, NEW p \in Processes
    PROVE  FirstUpdates(p) \subseteq Updates /\ LaterUpdates(p) \subseteq FirstUpdates(p)
<1>1. CASE p \in Users
  BY <1>1 DEF FirstUpdates, LaterUpdates, Updates, UserUpdates
<1>2. CASE p \in Operators
  BY <1>2, ServiceFacts DEF FirstUpdates, LaterUpdates, Updates, OperatorUpdates, BookTypes
<1> QED
  BY <1>1, <1>2 DEF Processes

LEMMA SuffSelf == \A w : Suff(w, w)
BY DEF Suff

\* p is left as it was, unless it has just lost the lock.
PendingKept(p) ==
    /\ pending'[p] = pending[p]
    /\ lock = p => lock' = p
    /\ p \in Operators => cust'[p] = cust[p] /\ service'[p] = service[p]

LEMMA PendingFrame ==
    ASSUME NEW p \in Processes, PendingOk(p), PendingKept(p)
    PROVE  PendingOk(p)'
<1>1. FirstUpdates(p)' = FirstUpdates(p) /\ LaterUpdates(p)' = LaterUpdates(p)
  BY DEF FirstUpdates, LaterUpdates, PendingKept, Processes
<1>2. Busy(p)' <=> Busy(p)
  BY DEF Busy, PendingKept
<1> QED
  BY <1>1, <1>2 DEF PendingOk, PendingKept

\* p has just set out to make some updates.
LEMMA PendingMade ==
    ASSUME NEW p \in Processes, pending'[p] # << >>,
           pending'[p][1] \in FirstUpdates(p)',
           \A k \in 2 .. Len(pending'[p]) : pending'[p][k] \in LaterUpdates(p)',
           pending'[p] \in Seq(Seq(Cells))
    PROVE  PendingOk(p)'
<1>1. Head(pending'[p]) = pending'[p][1]
  OBVIOUS
<1> QED
  BY <1>1, SuffSelf DEF PendingOk

LEMMA PendingInit == Init => PendingInv
BY DEF Init, PendingInv, PendingOk, Busy, Processes

LEMMA PendingStep == BookTypes /\ WorkInv /\ [Next]_vars => PendingInv'
<1> SUFFICES ASSUME BookTypes, WorkInv, [Next]_vars, NEW q \in Processes PROVE PendingOk(q)'
  BY DEF PendingInv
<1> USE ServiceFacts
<1>0. PendingOk(q) /\ (lock \in alive => Busy(lock))
  BY DEF WorkInv, PendingInv, PlaceInv
<1>1. ASSUME NEW p \in Processes, Lock(p) PROVE PendingOk(q)'
  BY <1>1, <1>0, PendingFrame DEF Lock, PendingKept, workers
<1>2. ASSUME NEW p \in Processes, Increment(p) PROVE PendingOk(q)'
  <2>1. CASE q # p
    <3>1. PendingKept(q)
      BY <1>2, <2>1, IncrementFacts DEF Increment, PendingKept, workers
    <3> QED
      BY <3>1, <1>0, PendingFrame
  <2>2. CASE q = p
    <3>1. /\ Head(pending[p]) \in Seq(Cells) /\ Head(pending[p]) # << >>
          /\ Len(pending'[p]) = Len(pending[p]) /\ pending'[p] # << >>
          /\ Head(pending'[p]) = Tail(Head(pending[p]))
          /\ \A k \in 2 .. Len(pending[p]) : pending'[p][k] = pending[p][k]
      BY <1>2, IncrementFacts
    <3>2. Busy(p) /\ lock' = p
      BY <1>2 DEF Increment
    <3>3. PICK w \in FirstUpdates(p) : Suff(Head(pending[p]), w)
      BY <1>0, <2>2, <3>2 DEF PendingOk
    <3>4. Suff(Head(pending'[p]), w)
      BY <3>1, <3>3, FirstFacts, SuffTail
    <3>5. FirstUpdates(p)' = FirstUpdates(p) /\ LaterUpdates(p)' = LaterUpdates(p)
      BY <1>2 DEF FirstUpdates, LaterUpdates, Increment, workers
    <3>6. \A k \in 2 .. Len(pending'[p]) : pending'[p][k] \in LaterUpdates(p)'
      BY <1>0, <2>2, <3>1, <3>2, <3>5 DEF PendingOk
    <3> QED
      BY <2>2, <3>2, <3>4, <3>5, <3>6 DEF PendingOk
  <2> QED
    BY <2>1, <2>2
<1>3. ASSUME NEW p \in Processes, Unlock(p) PROVE PendingOk(q)'
  <2>1. CASE q # p
    <3>1. PendingKept(q)
      BY <1>3, <2>1, UnlockFacts DEF Unlock, PendingKept, workers
    <3> QED
      BY <3>1, <1>0, PendingFrame
  <2>2. CASE q = p /\ pending'[p] # << >>
    <3>1. /\ pending' \in [Processes -> Seq(Seq(Cells))]
          /\ Len(pending'[p]) = Len(pending[p]) - 1
          /\ \A k \in 1 .. Len(pending[p]) - 1 : pending'[p][k] = pending[p][k + 1]
      BY <1>3, UnlockFacts
    <3>2. /\ Len(pending[p]) \in Nat
          /\ \A k \in 2 .. Len(pending[p]) : pending[p][k] \in LaterUpdates(p)
      BY <1>0, <1>3, <2>2, BusyFacts DEF Unlock, PendingOk
    <3>3. FirstUpdates(p)' = FirstUpdates(p) /\ LaterUpdates(p)' = LaterUpdates(p)
      BY <1>3 DEF FirstUpdates, LaterUpdates, Unlock, workers
    <3>4. \A k \in 1 .. Len(pending'[p]) : pending'[p][k] \in LaterUpdates(p)'
      <4> SUFFICES ASSUME NEW k \in 1 .. Len(pending'[p]) PROVE pending'[p][k] \in LaterUpdates(p)'
        OBVIOUS
      <4>1. k + 1 \in 2 .. Len(pending[p]) /\ pending'[p][k] = pending[p][k + 1]
        BY <3>1, <3>2
      <4> QED
        BY <4>1, <3>2, <3>3
    <3>5. Len(pending'[p]) \in Nat \ {0}
      <4>1. pending'[p] \in Seq(Seq(Cells)) /\ pending'[p] # << >>
        BY <3>1, <2>2
      <4> QED
        BY <4>1
    <3>6. pending'[p][1] \in FirstUpdates(p)'
      BY <3>3, <3>4, <3>5, FirstFacts
    <3>7. \A k \in 2 .. Len(pending'[p]) : pending'[p][k] \in LaterUpdates(p)'
      BY <3>4, <3>5
    <3> QED
      BY <2>2, <3>1, <3>6, <3>7, PendingMade
  <2>3. CASE q = p /\ pending'[p] = << >>
    BY <2>3 DEF PendingOk, Busy
  <2> QED
    BY <2>1, <2>2, <2>3
<1>4. ASSUME NEW o \in Operators, OpTake(o) PROVE PendingOk(q)'
  <2>1. o \in Processes /\ service[o] \in Services /\ o \notin Users
    BY DEF BookTypes, Processes
  <2>2. /\ pending' \in [Processes -> Seq(Seq(Cells))]
        /\ pending'[o] = <<UpdateRequests(service[o])>>
        /\ \A p \in Processes : p # o => pending'[p] = pending[p]
    BY <1>4, <2>1, MakesFacts, MadeTypes DEF OpTake
  <2>3. cust'[o] # 0 /\ \A p \in Operators : p # o => cust'[p] = cust[p]
    BY <1>4 DEF OpTake, BookTypes, Processes
  <2>4. CASE q # o
    <3>1. PendingKept(q)
      BY <1>4, <2>2, <2>3, <2>4 DEF OpTake, PendingKept
    <3> QED
      BY <3>1, <1>0, PendingFrame
  <2>5. CASE q = o
    <3>1. FirstUpdates(o)' = {UpdateRequests(service[o])}
      BY <1>4, <2>1, <2>3 DEF FirstUpdates, OpTake
    <3>2. /\ pending'[o] # << >> /\ Len(pending'[o]) = 1
          /\ pending'[o][1] = UpdateRequests(service[o])
      BY <2>2
    <3>3. /\ pending'[o][1] \in FirstUpdates(o)'
          /\ \A k \in 2 .. Len(pending'[o]) : pending'[o][k] \in LaterUpdates(o)'
          /\ pending'[o] \in Seq(Seq(Cells))
      <4>1. pending'[o] \in Seq(Seq(Cells))
        BY <2>1, <2>2
      <4>2. \A k \in 2 .. Len(pending'[o]) : FALSE
        BY <3>2
      <4> QED
        BY <3>1, <3>2, <4>1, <4>2
    <3> QED
      BY <2>5, <3>2, <3>3, PendingMade
  <2> QED
    BY <2>4, <2>5
<1>5. ASSUME NEW o \in Operators, NEW ups \in {<<UpdatePause, UpdateActive>>, <<UpdateActive>>},
             Makes(o, ups), cust'[o] = 0
      PROVE  PendingOk(o)'
  <2>1. o \in Processes /\ o \notin Users
    BY DEF Processes
  <2>2. pending' \in [Processes -> Seq(Seq(Cells))] /\ pending'[o] = ups
    BY <1>5, <2>1, MakesFacts, MadeTypes
  <2>3. FirstUpdates(o)' = {UpdatePause, UpdateActive} /\ LaterUpdates(o)' = {UpdateActive}
    BY <1>5, <2>1 DEF FirstUpdates, LaterUpdates
  <2>4. /\ pending'[o] # << >> /\ Len(pending'[o]) \in {1, 2}
        /\ pending'[o][1] \in {UpdatePause, UpdateActive}
        /\ Len(pending'[o]) = 2 => pending'[o][2] = UpdateActive
    <3>1. CASE ups = <<UpdatePause, UpdateActive>>
      BY <2>2, <3>1
    <3>2. CASE ups = <<UpdateActive>>
      BY <2>2, <3>2
    <3> QED
      BY <1>5, <3>1, <3>2
  <2>5. \A k \in 2 .. Len(pending'[o]) : pending'[o][k] \in LaterUpdates(o)'
    BY <2>3, <2>4
  <2> QED
    BY <2>1, <2>2, <2>3, <2>4, <2>5, PendingMade
<1>6. ASSUME NEW o \in Operators, OpAnswer(o) PROVE PendingOk(q)'
  <2>1. o \in Processes /\ o \notin Users /\ cust[o] \in Users /\ ~Busy(o)
    BY <1>6 DEF BookTypes, Processes, OpAnswer, Idle
  <2>2. /\ cust'[o] = 0
        /\ \A p \in Operators : /\ p # o => cust'[p] = cust[p]
                                /\ service'[p] = service[p]
    BY <1>6, <2>1 DEF OpAnswer, BookTypes
  <2>3. CASE UNCHANGED pending
    <3>1. CASE q = o
      BY <2>1, <2>3, <3>1 DEF PendingOk, Busy
    <3>2. CASE q # o
      <4>1. PendingKept(q)
        BY <1>6, <2>2, <2>3, <3>2 DEF OpAnswer, PendingKept
      <4> QED
        BY <4>1, <1>0, PendingFrame
    <3> QED
      BY <3>1, <3>2
  <2>4. CASE Makes(o, <<UpdatePause, UpdateActive>>)
    <3>1. CASE q = o
      BY <1>5, <2>2, <2>4, <3>1
    <3>2. CASE q # o
      <4>1. pending'[q] = pending[q]
        BY <2>1, <2>4, <3>2, MakesFacts, MadeTypes
      <4>2. PendingKept(q)
        BY <1>6, <2>2, <4>1, <3>2 DEF OpAnswer, PendingKept
      <4> QED
        BY <4>2, <1>0, PendingFrame
    <3> QED
      BY <3>1, <3>2
  <2> QED
    BY <1>6, <2>3, <2>4 DEF OpAnswer
<1>7. ASSUME NEW o \in Operators, OpShiftOver(o) PROVE PendingOk(q)'
  <2>1. o \in Processes /\ Makes(o, <<UpdateActive>>) /\ cust'[o] = 0
    BY <1>7 DEF Processes, OpShiftOver
  <2>2. CASE q = o
    BY <1>5, <2>1, <2>2
  <2>3. CASE q # o
    <3>1. pending'[q] = pending[q]
      BY <2>1, <2>3, MakesFacts, MadeTypes
    <3>2. PendingKept(q)
      BY <1>7, <3>1 DEF OpShiftOver, PendingKept
    <3> QED
      BY <3>2, <1>0, PendingFrame
  <2> QED
    BY <2>2, <2>3
<1>8. ASSUME NEW u \in Users, NEW s \in Services, NEW t \in Services,
             NEW ups \in {<<UpdateFails(s)>>, <<UpdateLate(s), UpdateFails(s)>>,
                          <<UpdateSuccess(s)>>, <<UpdateSuccess(s), UpdateLate(t)>>},
             Makes(u, ups), UNCHANGED <<lock, cust>>,
             \A o \in Operators : service'[o] = service[o]
      PROVE  PendingOk(q)'
  <2>1. u \in Processes /\ u \notin Operators
    BY DEF Processes
  <2>2. /\ pending' \in [Processes -> Seq(Seq(Cells))] /\ pending'[u] = ups
        /\ \A p \in Processes : p # u => pending'[p] = pending[p]
    BY <1>8, <2>1, MakesFacts, MadeTypes
  <2>3. CASE q # u
    BY <1>8, <1>0, <2>2, <2>3, PendingFrame DEF PendingKept
  <2>4. CASE q = u
    <3>1. FirstUpdates(u)' = UserUpdates /\ UpdateFails(s) \in LaterUpdates(u)' /\ UpdateLate(t) \in LaterUpdates(u)'
      BY DEF FirstUpdates, LaterUpdates
    <3>2. /\ pending'[u] # << >> /\ Len(pending'[u]) \in {1, 2}
          /\ pending'[u][1] \in {UpdateFails(s), UpdateLate(s), UpdateSuccess(s)}
          /\ Len(pending'[u]) = 2 => pending'[u][2] \in {UpdateFails(s), UpdateLate(t)}
      BY <2>2
    <3>3. pending'[u][1] \in FirstUpdates(u)'
      BY <3>1, <3>2 DEF UserUpdates
    <3>4. \A k \in 2 .. Len(pending'[u]) : pending'[u][k] \in LaterUpdates(u)'
      BY <3>1, <3>2
    <3> QED
      BY <2>1, <2>2, <2>4, <3>2, <3>3, <3>4, PendingMade
  <2> QED
    BY <2>3, <2>4
<1>9. ASSUME NEW u \in Users, UtPresent(u) PROVE PendingOk(q)'
  BY <1>9, <1>0, PendingFrame DEF UtPresent, PendingKept
<1>10. ASSUME NEW u \in Users, UtUnserved(u) PROVE PendingOk(q)'
  BY <1>10, <1>8 DEF UtUnserved
<1>11. ASSUME NEW u \in Users, UtDone(u) PROVE PendingOk(q)'
  <2>1. service[u] \in Services /\ u \in Processes
    BY DEF BookTypes, Processes
  <2>2. UNCHANGED <<lock, cust>> /\ \A o \in Operators : service'[o] = service[o]
    BY <1>11, <2>1 DEF UtDone, BookTypes, Processes
  <2>3. \/ Makes(u, <<UpdateSuccess(service[u])>>)
        \/ \E t \in Services : Makes(u, <<UpdateSuccess(service[u]), UpdateLate(t)>>)
    BY <1>11 DEF UtDone
  <2> QED
    BY <1>8, <2>1, <2>2, <2>3
<1>12. ASSUME DirNewDay \/ DirReport PROVE PendingOk(q)'
  BY <1>12, <1>0, PendingFrame DEF DirNewDay, Midnight, DirReport, PendingKept, workers
<1>13. ASSUME DirKill PROVE PendingOk(q)'
  <2>1. PICK p \in alive : Makes(p, << >>)
    BY <1>13 DEF DirKill
  <2>2. pending'[p] = << >> /\ \A r \in Processes : r # p => pending'[r] = pending[r]
    BY <2>1, MakesFacts, MadeTypes DEF BookTypes
  <2>3. CASE q = p
    BY <2>2, <2>3 DEF PendingOk, Busy
  <2>4. CASE q # p
    BY <1>13, <1>0, <2>2, <2>4, PendingFrame DEF DirKill, PendingKept, workers
  <2> QED
    BY <2>3, <2>4
<1>14. CASE UNCHANGED vars
  BY <1>14, <1>0, PendingFrame DEF vars, PendingKept, workers
<1> QED
  BY <1>1, <1>2, <1>3, <1>4, <1>6, <1>7, <1>9, <1>10, <1>11, <1>12, <1>13, <1>14
     DEF Next, ProcessStep, DirStep
-----------------------------------------------------------------------------
(* Where everybody is.                                                       *)
LEMMA PlaceInit == Init => PlaceInv
BY ServiceFacts DEF Init, PlaceInv, Busy, Processes

\* A step in which the lock stays and only p, idle, may become busy.
LEMMA PlaceQuiet ==
    ASSUME BookTypes, PlaceInv, NEW p \in Processes, Idle(p),
           UNCHANGED <<book, lock, director>>,
           \A q \in Processes : q # p => pending'[q] = pending[q],
           p \in Users /\ pending'[p] # pending[p] => stage'[p] = "home",
           \A u \in Users : stage[u] = "home" /\ u # p => stage'[u] = "home",
           p \in Users /\ stage[p] = "home" /\ stage'[p] # "home" => pending'[p] = pending[p],
           \A o \in Operators : cust'[o] # 0 => stage'[cust'[o]] = "taken",
           \A o, r \in Operators : cust'[o] # 0 /\ cust'[o] = cust'[r] => o = r
    PROVE  PlaceInv'
<1> USE ServiceFacts
<1>1. p \in alive /\ alive' = alive /\ lock' = lock /\ dirPc' = dirPc
  BY DEF Idle, director
<1>2. (lock \in alive => Busy(lock))'
  <2>1. lock \in alive => lock \in Processes /\ lock # p
    BY DEF PlaceInv, BookTypes, Idle
  <2> QED
    BY <1>1, <2>1 DEF PlaceInv, Busy
<1>3. (\A u \in Users : Busy(u) => stage[u] = "home")'
  BY <1>1 DEF PlaceInv, Busy, Processes, Idle
<1>4. (\A q \in Processes \ alive : ~Busy(q))'
  BY <1>1 DEF PlaceInv, Busy
<1> QED
  BY <1>1, <1>2, <1>3, <1>4 DEF PlaceInv, director

LEMMA PlaceStep == BookTypes /\ WorkInv /\ [Next]_vars => PlaceInv'
<1> SUFFICES ASSUME BookTypes, PlaceInv, [Next]_vars PROVE PlaceInv'
  BY DEF WorkInv
<1> USE ServiceFacts
<1>1. ASSUME NEW p \in Processes, Lock(p) PROVE PlaceInv'
  BY <1>1 DEF Lock, PlaceInv, Busy, workers, director
<1>2. ASSUME NEW p \in Processes, Increment(p) PROVE PlaceInv'
  <2>1. \A q \in Processes : (pending'[q] = << >>) <=> (pending[q] = << >>)
    BY <1>2, IncrementFacts DEF Increment, Busy
  <2>2. lock' = lock /\ p \in alive /\ UNCHANGED <<workers, director>>
    BY <1>2 DEF Increment
  <2>3. dirPc # "done"
    BY <2>2 DEF PlaceInv
  <2>4. lock \in alive => lock \in Processes
    BY DEF BookTypes
  <2> QED
    BY <2>1, <2>2, <2>3, <2>4 DEF PlaceInv, Busy, Processes, workers, director
<1>3. ASSUME NEW p \in Processes, Unlock(p) PROVE PlaceInv'
  <2>1. \A q \in Processes : q # p => pending'[q] = pending[q]
    BY <1>3, UnlockFacts
  <2>2. lock' = 0 /\ p \in alive /\ Busy(p) /\ UNCHANGED <<book, workers, director>>
    BY <1>3 DEF Unlock
  <2>3. 0 \notin alive
    BY DEF BookTypes
  <2> QED
    BY <2>1, <2>2, <2>3 DEF PlaceInv, Busy, Processes, workers, director
<1>4. ASSUME NEW o \in Operators, OpTake(o) PROVE PlaceInv'
  <2>1. o \in Processes /\ service[o] \in Services /\ o \notin Users /\ Idle(o)
    BY <1>4 DEF BookTypes, Processes, OpTake
  <2>2. \A q \in Processes : q # o => pending'[q] = pending[q]
    BY <1>4, <2>1, MakesFacts, MadeTypes DEF OpTake
  <2>3. PICK u \in Users : /\ stage[u] = "waiting"
                           /\ cust' = [cust EXCEPT ![o] = u]
                           /\ stage' = [stage EXCEPT ![u] = "taken"]
    BY <1>4 DEF OpTake
  <2>4. /\ cust'[o] = u /\ \A r \in Operators : r # o => cust'[r] = cust[r]
        /\ stage'[u] = "taken" /\ \A v \in Users : v # u => stage'[v] = stage[v]
    BY <2>3 DEF BookTypes
  <2>5. \A r \in Operators : cust[r] # 0 => cust[r] \in Users /\ cust[r] # u
    BY <2>3 DEF PlaceInv, BookTypes
  <2>6. \A r \in Operators : cust'[r] # 0 => stage'[cust'[r]] = "taken"
    BY <2>4, <2>5 DEF PlaceInv
  <2>7. \A p, r \in Operators : cust'[p] # 0 /\ cust'[p] = cust'[r] => p = r
    BY <2>4, <2>5 DEF PlaceInv
  <2>8. \A v \in Users : stage[v] = "home" => stage'[v] = "home"
    BY <2>3, <2>4
  <2>9. UNCHANGED <<book, lock, director>>
    BY <1>4 DEF OpTake
  <2> QED
    BY <2>1, <2>2, <2>6, <2>7, <2>8, <2>9, PlaceQuiet
<1>5. ASSUME NEW o \in Operators, OpAnswer(o) PROVE PlaceInv'
  <2>1. o \in Processes /\ o \notin Users /\ Idle(o) /\ cust[o] \in Users
    BY <1>5 DEF BookTypes, Processes, OpAnswer
  <2>2. \A q \in Processes : q # o => pending'[q] = pending[q]
    BY <1>5, <2>1, MakesFacts, MadeTypes DEF OpAnswer
  <2>3. /\ cust'[o] = 0 /\ \A r \in Operators : r # o => cust'[r] = cust[r]
        /\ \A v \in Users : v # cust[o] => stage'[v] = stage[v]
    BY <1>5, <2>1 DEF OpAnswer, BookTypes
  <2>4. cust[o] # 0 /\ stage[cust[o]] = "taken"
    BY <1>5 DEF PlaceInv, OpAnswer
  <2>5. ASSUME NEW r \in Operators, cust'[r] # 0 PROVE stage'[cust'[r]] = "taken"
    <3>1. r # o /\ cust'[r] = cust[r] /\ cust[r] \in Users
      BY <2>3, <2>5 DEF BookTypes
    <3>2. cust[r] # cust[o] /\ stage[cust[r]] = "taken"
      BY <2>4, <2>5, <3>1 DEF PlaceInv
    <3> QED
      BY <2>3, <3>1, <3>2
  <2>6. \A p, r \in Operators : cust'[p] # 0 /\ cust'[p] = cust'[r] => p = r
    BY <2>3 DEF PlaceInv
  <2>7. \A v \in Users : stage[v] = "home" => stage'[v] = "home"
    BY <2>3, <2>4
  <2>8. UNCHANGED <<book, lock, director>>
    BY <1>5 DEF OpAnswer
  <2> QED
    BY <2>1, <2>2, <2>5, <2>6, <2>7, <2>8, PlaceQuiet
<1>6. ASSUME NEW o \in Operators, OpShiftOver(o) PROVE PlaceInv'
  <2>1. o \in Processes /\ o \notin Users /\ Idle(o)
    BY <1>6 DEF Processes, OpShiftOver
  <2>2. \A q \in Processes : q # o => pending'[q] = pending[q]
    BY <1>6, <2>1, MakesFacts, MadeTypes DEF OpShiftOver
  <2>3. UNCHANGED <<book, lock, director, cust, stage>>
    BY <1>6 DEF OpShiftOver
  <2>4. /\ \A r \in Operators : cust'[r] # 0 => stage'[cust'[r]] = "taken"
        /\ \A p, r \in Operators : cust'[p] # 0 /\ cust'[p] = cust'[r] => p = r
    BY <2>3 DEF PlaceInv
  <2> QED
    BY <2>1, <2>2, <2>3, <2>4, PlaceQuiet
<1>7. ASSUME NEW u \in Users, Idle(u), UNCHANGED <<book, lock, director, cust>>,
             \A q \in Processes : q # u => pending'[q] = pending[q],
             stage[u] # "taken", \A v \in Users : v # u => stage'[v] = stage[v],
             pending'[u] # pending[u] => stage'[u] = "home"
      PROVE  PlaceInv'
  <2>1. u \in Processes
    BY DEF Processes
  <2>2. \A r \in Operators : cust[r] # 0 => cust[r] \in Users /\ cust[r] # u
    BY <1>7 DEF PlaceInv, BookTypes
  <2>3. /\ \A r \in Operators : cust'[r] # 0 => stage'[cust'[r]] = "taken"
        /\ \A p, r \in Operators : cust'[p] # 0 /\ cust'[p] = cust'[r] => p = r
    BY <1>7, <2>2 DEF PlaceInv
  <2>4. \A v \in Users : stage[v] = "home" /\ v # u => stage'[v] = "home"
    BY <1>7
  <2> QED
    BY <1>7, <2>1, <2>3, <2>4, PlaceQuiet
<1>8. ASSUME NEW u \in Users, UtPresent(u) PROVE PlaceInv'
  <2>1. /\ Idle(u) /\ UNCHANGED <<book, lock, director, cust, pending>> /\ stage[u] = "home"
        /\ \A v \in Users : v # u => stage'[v] = stage[v]
    BY <1>8 DEF UtPresent, Arrives, BookTypes
  <2> QED
    BY <2>1, <1>7
<1>9. ASSUME NEW u \in Users, UtUnserved(u) PROVE PlaceInv'
  <2>1. Idle(u) /\ UNCHANGED <<book, lock, director, cust, stage>> /\ stage[u] = "home"
    BY <1>9 DEF UtUnserved, Arrives
  <2>2. \A q \in Processes : q # u => pending'[q] = pending[q]
    BY <1>9, MakesFacts, MadeTypes DEF UtUnserved, Processes
  <2> QED
    BY <2>1, <2>2, <1>7
<1>10. ASSUME NEW u \in Users, UtDone(u) PROVE PlaceInv'
  <2>1. /\ Idle(u) /\ UNCHANGED <<book, lock, director, cust>> /\ stage[u] = "answered"
        /\ stage'[u] = "home" /\ \A v \in Users : v # u => stage'[v] = stage[v]
    BY <1>10 DEF UtDone, BookTypes
  <2>2. u \in Processes /\ service[u] \in Services
    BY DEF Processes, BookTypes
  <2>3. \A q \in Processes : q # u => pending'[q] = pending[q]
    BY <1>10, <2>2, MakesFacts, MadeTypes DEF UtDone
  <2> QED
    BY <2>1, <2>3, <1>7
<1>11. ASSUME DirNewDay PROVE PlaceInv'
  <2>1. dirPc = "running" /\ dirPc' = dirPc /\ UNCHANGED <<lock, pending, workers, alive>>
    BY <1>11 DEF DirNewDay, Midnight
  <2> QED
    BY <2>1 DEF PlaceInv, Busy, workers
<1>12. ASSUME DirKill PROVE PlaceInv'
  <2>1. PICK p \in alive : alive' = alive \ {p} /\ Makes(p, << >>)
    BY <1>12 DEF DirKill
  <2>2. /\ p \in Processes /\ pending'[p] = << >>
        /\ \A r \in Processes : r # p => pending'[r] = pending[r]
    BY <2>1, MakesFacts, MadeTypes DEF BookTypes
  <2>3. dirPc' = "killing" /\ UNCHANGED <<book, lock, workers>>
    BY <1>12 DEF DirKill
  <2>4. (lock \in alive => Busy(lock))'
    BY <2>1, <2>2, <2>3 DEF PlaceInv, Busy, BookTypes
  <2>5. (\A q \in Processes \ alive : ~Busy(q))'
    BY <2>1, <2>2 DEF PlaceInv, Busy
  <2>6. (\A u \in Users : Busy(u) => stage[u] = "home")'
    BY <2>2, <2>3 DEF PlaceInv, Busy, Processes, workers
  <2> QED
    BY <2>3, <2>4, <2>5, <2>6 DEF PlaceInv, workers
<1>13. ASSUME DirReport PROVE PlaceInv'
  BY <1>13 DEF DirReport, PlaceInv, Busy, workers
<1>14. CASE UNCHANGED vars
  BY <1>14 DEF vars, PlaceInv, Busy, workers, director
<1> QED
  BY <1>1, <1>2, <1>3, <1>4, <1>5, <1>6, <1>8, <1>9, <1>10, <1>11, <1>12, <1>13, <1>14
     DEF Next, ProcessStep, DirStep
-----------------------------------------------------------------------------
(* The sums.                                                                 *)
LEMMA BalanceInit == Init => BalanceInv
<1> SUFFICES ASSUME Init PROVE BalanceInv
  OBVIOUS
<1>1. book \in [Cells -> Nat] /\ \A c \in Cells : book[c] = 0
  BY DEF Init
<1>2. lock = 0
  BY DEF Init
<1>3. ASSUME NEW x \in Balanced PROVE Gap(book, x) = 0
  <2> DEFINE f == [s \in Services |-> book[<<x[1], s, x[2]>>]]
  <2>1. /\ <<x[1], Global, x[2]>> \in Cells
        /\ \A s \in Services : <<x[1], s, x[2]>> \in Cells
        /\ f \in [Services -> Int] /\ ServiceSum(book, x[1], x[2]) = SumFunctionOnSet(f, Services)
    BY <1>1, GapType
  <2>2. \A s \in Services : f[s] = 0
    BY <1>1, <2>1
  <2> HIDE DEF f
  <2>3. SumFunctionOnSet(f, Services) = 0
    BY <2>1, <2>2, SumOfZeros, ServiceFacts
  <2> QED
    BY <1>1, <2>1, <2>3 DEF Gap
<1> QED
  BY <1>2, <1>3 DEF BalanceInv, Owed, Todo

\* What the holder of the lock has still to do.
LEMMA OwedFacts ==
    ASSUME BookTypes, WorkInv, lock \in alive
    PROVE  /\ lock \in Processes /\ lock # 0 /\ Busy(lock)
           /\ Head(pending[lock]) \in Seq(Cells)
           /\ Owed = Left(Head(pending[lock]))
           /\ \E w \in Updates : Suff(Head(pending[lock]), w)
<1>1. lock \in Processes /\ lock # 0 /\ Busy(lock)
  BY ServiceFacts DEF BookTypes, WorkInv, PlaceInv
<1>2. PICK w \in FirstUpdates(lock) : Suff(Head(pending[lock]), w)
  BY <1>1 DEF WorkInv, PendingInv, PendingOk
<1> QED
  BY <1>1, <1>2, FirstFacts, BusyFacts DEF Owed

LEMMA TodoFacts ==
    \A x \in Balanced : Todo(GlobalCell(x)) \in {0, 1} /\ Todo(ServiceCells(x)) \in {0, 1}
BY DEF Todo

LEMMA TodoAgree ==
    ASSUME NEW x \in Balanced, Agree(x, Owed)
    PROVE  Todo(GlobalCell(x)) = Todo(ServiceCells(x))
BY DEF Todo, Agree

\* One cell less to do.
LEMMA TodoLess ==
    ASSUME NEW x \in Balanced, NEW w \in Updates, Owed \subseteq Left(w), NEW h \in Owed, h \in Cells,
           Owed' = Owed \ {h}
    PROVE  /\ Todo(GlobalCell(x))' = Todo(GlobalCell(x)) - (IF h \in GlobalCell(x) THEN 1 ELSE 0)
           /\ Todo(ServiceCells(x))' = Todo(ServiceCells(x)) - (IF h \in ServiceCells(x) THEN 1 ELSE 0)
<1>1. ASSUME NEW c \in Owed, c \in ServiceCells(x), h \in ServiceCells(x) PROVE c = h
  <2>1. PICK s \in Services, t \in Services : c = <<x[1], s, x[2]>> /\ h = <<x[1], t, x[2]>>
    BY <1>1 DEF ServiceCells
  <2>2. s = t
    BY <2>1, OneService
  <2> QED
    BY <2>1, <2>2
<1>2. Todo(ServiceCells(x))' = Todo(ServiceCells(x)) - (IF h \in ServiceCells(x) THEN 1 ELSE 0)
  BY <1>1 DEF Todo
<1>3. Todo(GlobalCell(x))' = Todo(GlobalCell(x)) - (IF h \in GlobalCell(x) THEN 1 ELSE 0)
  BY DEF Todo, GlobalCell
<1> QED
  BY <1>2, <1>3

\* Nobody touches the book or the lock.
LEMMA BalanceQuiet ==
    ASSUME BookTypes, WorkInv, BalanceInv, UNCHANGED <<book, lock>>,
           alive' \subseteq alive,
           lock \in alive => lock \in alive' /\ Head(pending'[lock]) = Head(pending[lock])
    PROVE  BalanceInv'
<1> USE ServiceFacts
<1>0. \A x \in Balanced : Gap(book, x)' = Gap(book, x)
  BY DEF Gap, ServiceSum
<1>1. CASE lock \in alive
  <2>1. Owed' = Owed
    BY <1>1 DEF Owed
  <2>2. \A x \in Balanced : /\ Todo(ServiceCells(x))' = Todo(ServiceCells(x))
                            /\ Todo(GlobalCell(x))' = Todo(GlobalCell(x))
    BY <2>1 DEF Todo
  <2>3. lock' = 0 \/ lock' \in alive'
    BY <1>1
  <2> QED
    BY <1>0, <1>1, <2>2, <2>3 DEF BalanceInv
<1>2. CASE lock = 0
  <2>1. Owed' = Owed
    BY <1>2 DEF Owed
  <2>2. \A x \in Balanced : /\ Todo(ServiceCells(x))' = Todo(ServiceCells(x))
                            /\ Todo(GlobalCell(x))' = Todo(GlobalCell(x))
    BY <2>1 DEF Todo
  <2>3. lock' = 0 \/ lock' \in alive'
    BY <1>2
  <2> QED
    BY <1>0, <1>2, <2>2, <2>3 DEF BalanceInv
<1>3. CASE lock # 0 /\ lock \notin alive
  BY <1>0, <1>3 DEF BalanceInv
<1> QED
  BY <1>1, <1>2, <1>3

\* A process that acts while it is idle does not hold the lock.
LEMMA BalanceIdle ==
    ASSUME BookTypes, WorkInv, BalanceInv, UNCHANGED <<book, lock, alive>>,
           NEW p \in Processes, Idle(p),
           \A q \in Processes : q # p => pending'[q] = pending[q]
    PROVE  BalanceInv'
<1>1. lock \in alive => lock \in Processes /\ lock # p
  BY DEF BookTypes, WorkInv, PlaceInv, Idle
<1> QED
  BY <1>1, BalanceQuiet

LEMMA BalanceLock ==
    ASSUME BookTypes, WorkInv, BalanceInv, NEW p \in Processes, Lock(p)
    PROVE  BalanceInv'
<1> USE ServiceFacts
<1>1. /\ p \in alive /\ Busy(p) /\ lock = 0 /\ lock' = p
      /\ UNCHANGED <<book, pending, alive>>
  BY DEF Lock, director
<1>2. PICK w \in FirstUpdates(p) : Head(pending[p]) = w
  BY <1>1 DEF WorkInv, PendingInv, PendingOk
<1>3. w \in Updates /\ w \in Seq(Cells)
  BY <1>2, FirstFacts, UpdateIsSeq
<1>4. Owed' = Rest(w, 0)
  <2>1. Owed' = Left(w)
    BY <1>1, <1>2 DEF Owed
  <2>2. Suff(w, w) /\ Len(w) - Len(w) = 0
    BY <1>3, SuffSelf
  <2> QED
    BY <1>3, <2>1, <2>2, SuffFacts
<1>5. ASSUME NEW x \in Balanced PROVE Gap(book, x)' = (Todo(ServiceCells(x)) - Todo(GlobalCell(x)))'
  <2>1. Gap(book, x) = 0
    BY <1>1 DEF BalanceInv, Owed, Todo
  <2>2. Gap(book, x)' = 0
    BY <1>1, <2>1 DEF Gap, ServiceSum
  <2>3. Agree(x, Rest(w, 0))
    BY <1>3, UpdatesEven
  <2>4. Todo(GlobalCell(x))' = Todo(ServiceCells(x))'
    BY <1>4, <2>3 DEF Todo, Agree
  <2>5. Todo(ServiceCells(x))' \in {0, 1}
    BY DEF Todo
  <2> QED
    BY <2>2, <2>4, <2>5
<1> QED
  BY <1>1, <1>5 DEF BalanceInv

LEMMA BalanceIncrement ==
    ASSUME BookTypes, WorkInv, BalanceInv, NEW p \in Processes, Increment(p)
    PROVE  BalanceInv'
<1> USE ServiceFacts
<1>1. p \in alive /\ lock = p /\ lock' = lock /\ alive' = alive
  BY DEF Increment, director
<1>2. PICK r : r = Head(pending[p])
  OBVIOUS
<1>3. /\ r \in Seq(Cells) /\ r # << >> /\ Head(pending'[p]) = Tail(r)
      /\ book' = [book EXCEPT ![Head(r)] = @ + 1]
  BY <1>2, IncrementFacts
<1>4. PICK w \in Updates : Suff(r, w)
  BY <1>1, <1>2, OwedFacts
<1>5. PICK h : h = Head(r)
  OBVIOUS
<1>6. /\ h \in Left(r) /\ h \in Cells /\ Left(Tail(r)) = Left(r) \ {h}
      /\ Left(r) \subseteq Left(w)
  BY <1>3, <1>4, <1>5, SuffTail, SuffFacts
<1>7. Owed = Left(r) /\ Owed' = Left(r) \ {h}
  BY <1>1, <1>2, <1>3, <1>6 DEF Owed
<1>8. ASSUME NEW x \in Balanced PROVE Gap(book, x)' = (Todo(ServiceCells(x)) - Todo(GlobalCell(x)))'
  <2>1. Gap(book, x) = Todo(ServiceCells(x)) - Todo(GlobalCell(x))
    BY <1>1 DEF BalanceInv
  <2>2. Gap(book', x) = Gap(book, x) + (IF h \in GlobalCell(x) THEN 1 ELSE 0)
                                     - (IF h \in ServiceCells(x) THEN 1 ELSE 0)
    <3>1. book' = [book EXCEPT ![h] = @ + 1] /\ book \in [Cells -> Nat]
      BY <1>3, <1>5 DEF BookTypes
    <3> QED
      BY <3>1, <1>6, GapIncrement
  <2>3. /\ Todo(GlobalCell(x))' = Todo(GlobalCell(x)) - (IF h \in GlobalCell(x) THEN 1 ELSE 0)
        /\ Todo(ServiceCells(x))' = Todo(ServiceCells(x)) - (IF h \in ServiceCells(x) THEN 1 ELSE 0)
    BY <1>6, <1>7, TodoLess
  <2>4. Todo(GlobalCell(x)) \in {0, 1} /\ Todo(ServiceCells(x)) \in {0, 1}
    BY TodoFacts
  <2>5. Gap(book, x)' = Gap(book', x)
    BY DEF Gap, ServiceSum
  <2> QED
    BY <2>1, <2>2, <2>3, <2>4, <2>5
<1> QED
  BY <1>1, <1>8 DEF BalanceInv

LEMMA BalanceUnlock ==
    ASSUME BookTypes, WorkInv, BalanceInv, NEW p \in Processes, Unlock(p)
    PROVE  BalanceInv'
<1>1. /\ p \in alive /\ lock = p /\ lock' = 0 /\ UNCHANGED <<book, alive>>
      /\ Head(pending[p]) = << >>
  BY DEF Unlock, director
<1>2. Owed = {} /\ Owed' = {}
  BY <1>1 DEF Owed, Left
<1>3. \A x \in Balanced : Gap(book, x) = 0
  BY <1>1, <1>2 DEF BalanceInv, Todo
<1> QED
  BY <1>1, <1>2, <1>3 DEF BalanceInv, Gap, ServiceSum, Todo

LEMMA BalanceMidnight ==
    ASSUME BookTypes, BalanceInv, DirNewDay
    PROVE  BalanceInv'
<1>1. lock = 0 /\ lock' = 0 /\ book' = [c \in Cells |-> IF c[1] = "today" THEN 0 ELSE book[c]]
  BY DEF DirNewDay, Midnight
<1>2. Owed = {} /\ Owed' = {}
  BY <1>1 DEF Owed
<1>3. ASSUME NEW x \in Balanced PROVE Gap(book, x)' = 0
  <2>1. Gap(book, x) = 0
    BY <1>1, <1>2 DEF BalanceInv, Todo
  <2>2. Gap(book', x) = IF x[1] = "today" THEN 0 ELSE Gap(book, x)
    BY <1>1, GapCleared DEF BookTypes
  <2>3. Gap(book, x)' = Gap(book', x)
    BY DEF Gap, ServiceSum
  <2> QED
    BY <2>1, <2>2, <2>3
<1> QED
  BY <1>1, <1>2, <1>3 DEF BalanceInv, Todo

\* A child that dies with the lock leaves one counter ahead at most.
LEMMA BalanceKill ==
    ASSUME BookTypes, WorkInv, BalanceInv, DirKill
    PROVE  BalanceInv'
<1> USE ServiceFacts
<1>1. PICK p \in alive : alive' = alive \ {p} /\ Makes(p, << >>)
  BY DEF DirKill
<1>2. p \in Processes /\ \A r \in Processes : r # p => pending'[r] = pending[r]
  BY <1>1, MakesFacts, MadeTypes DEF BookTypes
<1>3. UNCHANGED <<book, lock>>
  BY DEF DirKill
<1>4. CASE p # lock
  <2>1. lock \in alive => lock \in alive' /\ Head(pending'[lock]) = Head(pending[lock])
    BY <1>1, <1>2, <1>4 DEF BookTypes
  <2> QED
    BY <1>1, <1>3, <2>1, BalanceQuiet
<1>5. CASE p = lock
  <2>1. lock \in alive /\ lock # 0 /\ lock' = lock /\ lock \notin alive'
    BY <1>1, <1>2, <1>3, <1>5
  <2>2. PICK w \in Updates : Suff(Head(pending[lock]), w)
    BY <2>1, OwedFacts
  <2>3. PICK n \in 0 .. Len(w) : Owed = Rest(w, n)
    BY <2>1, <2>2, OwedFacts, SuffFacts
  <2>4. PICK x \in Balanced : \A y \in Balanced \ {x} : Agree(y, Owed)
    BY <2>3, UpdatesEven DEF Steady
  <2>5. \A y \in Balanced : Gap(book, y) = Todo(ServiceCells(y)) - Todo(GlobalCell(y))
    BY <2>1 DEF BalanceInv
  <2>6. \A y \in Balanced \ {x} : Gap(book, y) = 0
    BY <2>4, <2>5, TodoAgree, TodoFacts
  <2>7. Gap(book, x) \in -1 .. 1
    BY <2>5, TodoFacts
  <2>8. \A y \in Balanced : Gap(book, y)' = Gap(book, y)
    BY <1>3 DEF Gap, ServiceSum
  <2> QED
    BY <2>1, <2>6, <2>7, <2>8 DEF BalanceInv
<1> QED
  BY <1>4, <1>5

LEMMA BalanceStep == BookTypes /\ WorkInv /\ BalanceInv /\ [Next]_vars => BalanceInv'
<1> SUFFICES ASSUME BookTypes, WorkInv, BalanceInv, [Next]_vars PROVE BalanceInv'
  OBVIOUS
<1> USE ServiceFacts
<1>1. ASSUME NEW o \in Operators, OpTake(o) \/ OpAnswer(o) \/ OpShiftOver(o) PROVE BalanceInv'
  <2>1. o \in Processes /\ service[o] \in Services /\ Idle(o) /\ UNCHANGED <<book, lock, alive>>
    BY <1>1 DEF BookTypes, Processes, OpTake, OpAnswer, OpShiftOver, director
  <2>2. \A q \in Processes : q # o => pending'[q] = pending[q]
    BY <1>1, <2>1, MakesFacts, MadeTypes DEF OpTake, OpAnswer, OpShiftOver
  <2> QED
    BY <2>1, <2>2, BalanceIdle
<1>2. ASSUME NEW u \in Users, UtPresent(u) \/ UtUnserved(u) \/ UtDone(u) PROVE BalanceInv'
  <2>1. u \in Processes /\ service[u] \in Services /\ Idle(u) /\ UNCHANGED <<book, lock, alive>>
    BY <1>2 DEF BookTypes, Processes, UtPresent, UtUnserved, UtDone, Arrives, director
  <2>2. \A q \in Processes : q # u => pending'[q] = pending[q]
    BY <1>2, <2>1, MakesFacts, MadeTypes DEF UtPresent, UtUnserved, UtDone
  <2> QED
    BY <2>1, <2>2, BalanceIdle
<1>3. ASSUME DirReport PROVE BalanceInv'
  BY <1>3, BalanceQuiet DEF DirReport
<1>4. CASE UNCHANGED vars
  BY <1>4, BalanceQuiet DEF vars, director
<1> QED
  BY <1>1, <1>2, <1>3, <1>4, BalanceLock, BalanceIncrement, BalanceUnlock, BalanceMidnight, BalanceKill
     DEF Next, ProcessStep, DirStep
-----------------------------------------------------------------------------
(* Requests and successes.                                                   *)

LEMMA CountCells ==
    ASSUME NEW c \in Entries
    PROVE  RequestCell(c) \in Cells /\ ServedCell(c) \in Cells
BY DEF Entries, RequestCell, ServedCell, Cells, Scopes, Counters

LEMMA OwingFinite ==
    ASSUME NEW c
    PROVE  IsFiniteSet(Owing(c)) /\ Cardinality(Owing(c)) \in Nat
<1>1. IsFiniteSet(Owing(c))
  BY ServiceFacts, FS_Subset DEF Owing
<1> QED
  BY <1>1, FS_CardinalityType

\* Which cells the updates have, as far as the count is concerned.
LEMMA UpdateCells ==
    ASSUME NEW c \in Entries, NEW s \in Services
    PROVE  /\ RequestCell(c) \in Left(UpdateRequests(s)) <=> c = Global \/ c = s
           /\ ServedCell(c) \in Left(UpdateSuccess(s)) <=> c = Global \/ c = s
           /\ \A h \in Left(UpdateRequests(s)) : h[3] = "requests"
           /\ \A h \in Left(UpdateSuccess(s)) : h[3] = "served"
           /\ \A h \in Left(UpdateFails(s)) \cup Left(UpdateLate(s)) : h[3] \in {"failed", "late"}
           /\ \A h \in Left(UpdatePause) \cup Left(UpdateActive) : h[3] \in {"pauses", "active"}
<1>1. /\ Left(UpdateRequests(s)) = {<<"simulation", s, "requests">>, <<"simulation", Global, "requests">>,
                                    <<"today", s, "requests">>, <<"today", Global, "requests">>}
  <2>1. Len(UpdateRequests(s)) = 4
    BY DEF UpdateRequests
  <2> QED
    BY <2>1 DEF Left, UpdateRequests
<1>2. Left(UpdateSuccess(s)) = {<<"simulation", Global, "served">>, <<"simulation", s, "served">>,
                                <<"today", Global, "served">>, <<"today", s, "served">>}
  <2>1. Len(UpdateSuccess(s)) = 4
    BY DEF UpdateSuccess
  <2> QED
    BY <2>1 DEF Left, UpdateSuccess
<1>3. \A h \in Left(UpdateFails(s)) \cup Left(UpdateLate(s)) : h[3] \in {"failed", "late"}
  BY DEF Left, UpdateFails, UpdateLate
<1>4. \A h \in Left(UpdatePause) \cup Left(UpdateActive) : h[3] \in {"pauses", "active"}
  BY DEF Left, UpdatePause, UpdateActive
<1> QED
  BY <1>1, <1>2, <1>3, <1>4, ServiceFacts DEF Entries, RequestCell, ServedCell

\* Who is busy at home owes nothing but what it is counting.
LEMMA WhoOwes ==
    ASSUME BookTypes, WorkInv, NEW u \in Users, NEW c \in Entries
    PROVE  /\ InHands(u, c) => stage[u] = "taken"
           /\ HasAnswer(u, c) => stage[u] = "answered"
           /\ IsCounting(u, c) => stage[u] = "home"
<1> USE ServiceFacts
<1>1. u # 0
  BY DEF Processes
<1> QED
  BY <1>1 DEF InHands, HasAnswer, IsCounting, WorkInv, PlaceInv

\* Nothing that concerns u changes.
OwesKept(u) ==
    /\ stage'[u] = stage[u] /\ service'[u] = service[u] /\ pending'[u] = pending[u]
    /\ \A o \in Operators : cust[o] = u \/ cust'[o] = u =>
          /\ o \in alive' <=> o \in alive
          /\ cust'[o] = cust[o] /\ service'[o] = service[o] /\ pending'[o] = pending[o]

LEMMA OwesFrame ==
    ASSUME NEW u \in Users, NEW c \in Entries, OwesKept(u)
    PROVE  Owes(u, c)' <=> Owes(u, c)
<1>1. InHands(u, c)' <=> InHands(u, c)
  BY DEF OwesKept, InHands, Busy
<1>2. HasAnswer(u, c)' <=> HasAnswer(u, c)
  BY DEF OwesKept, HasAnswer
<1>3. IsCounting(u, c)' <=> IsCounting(u, c)
  BY DEF OwesKept, IsCounting, Busy
<1> QED
  BY <1>1, <1>2, <1>3 DEF Owes

LEMMA CountInit == Init => CountInv
<1> SUFFICES ASSUME Init, NEW c \in Entries PROVE CountOk(c)
  BY DEF CountInv, Entries
<1>1. Owing(c) = {}
  BY ServiceFacts DEF Init, Owing, Owes, InHands, HasAnswer, IsCounting, Busy, Processes
<1>2. Excess(c) = 0
  BY CountCells DEF Init, Excess
<1> QED
  BY <1>1, <1>2, FS_EmptySet DEF CountOk

\* A step that changes neither the book, as far as c is concerned, nor who owes.
LEMMA CountSame ==
    ASSUME NEW c \in Entries, CountOk(c), Excess(c)' = Excess(c), dirPc' = "running" => dirPc = "running",
           \A u \in Users : Owes(u, c)' <=> Owes(u, c)
    PROVE  CountOk(c)'
<1>1. Owing(c)' = Owing(c)
  BY DEF Owing
<1> QED
  BY <1>1 DEF CountOk

LEMMA CountTake ==
    ASSUME BookTypes, WorkInv, NEW c \in Entries, CountOk(c), NEW o \in Operators, OpTake(o)
    PROVE  CountOk(c)'
<1> USE ServiceFacts
<1>1. o \in Processes /\ service[o] \in Services /\ o \notin Users /\ Idle(o) /\ cust[o] = 0
  BY DEF BookTypes, Processes, OpTake
<1>2. /\ \A q \in Processes : q # o => pending'[q] = pending[q]
      /\ pending'[o] = <<UpdateRequests(service[o])>>
  BY <1>1, MakesFacts, MadeTypes DEF OpTake
<1>3. PICK u \in Users : /\ stage[u] = "waiting"
                         /\ cust' = [cust EXCEPT ![o] = u]
                         /\ stage' = [stage EXCEPT ![u] = "taken"]
  BY DEF OpTake
<1>4. /\ cust'[o] = u /\ \A r \in Operators : r # o => cust'[r] = cust[r]
      /\ stage'[u] = "taken" /\ \A v \in Users : v # u => stage'[v] = stage[v]
      /\ UNCHANGED <<book, service, alive, dirPc>>
  BY <1>3 DEF BookTypes, OpTake, director
<1>5. ASSUME NEW v \in Users, v # u PROVE Owes(v, c)' <=> Owes(v, c)
  <2>1. v \in Processes /\ v # o /\ v # 0 /\ \A r \in Operators : r \in Processes
    BY <1>1 DEF Processes
  <2>2. OwesKept(v)
    BY <1>1, <1>2, <1>4, <1>5, <2>1 DEF OwesKept
  <2> QED
    BY <2>2, OwesFrame
<1>6. ~Owes(u, c)
  BY <1>3, WhoOwes DEF Owes
<1>7. ~Owes(u, c)'
  <2>1. ~InHands(u, c)'
    <3> SUFFICES ASSUME NEW r \in Operators, cust'[r] = u, c = Global \/ service'[r] = c
                 PROVE  Busy(r)' /\ RequestCell(c) \in Left(Head(pending'[r]))
      BY DEF InHands
    <3>1. u # 0
      BY DEF Processes
    <3>2. r = o
      BY <1>3, <1>4, <3>1 DEF WorkInv, PlaceInv
    <3>3. Head(pending'[o]) = UpdateRequests(service[o]) /\ pending'[o] # << >>
      BY <1>2
    <3>4. c = Global \/ c = service[o]
      BY <1>4, <3>2
    <3> QED
      BY <1>1, <3>2, <3>3, <3>4, UpdateCells DEF Busy
  <2>2. ~HasAnswer(u, c)'
    BY <1>4 DEF HasAnswer
  <2>3. ~IsCounting(u, c)'
    <3>1. pending'[u] = pending[u] /\ ~Busy(u)
      BY <1>1, <1>2, <1>3 DEF WorkInv, PlaceInv, Processes
    <3> QED
      BY <3>1 DEF IsCounting, Busy
  <2> QED
    BY <2>1, <2>2, <2>3 DEF Owes
<1> QED
  BY <1>4, <1>5, <1>6, <1>7, CountSame DEF Excess

LEMMA CountAnswer ==
    ASSUME BookTypes, WorkInv, NEW c \in Entries, CountOk(c), NEW o \in Operators, OpAnswer(o)
    PROVE  CountOk(c)'
<1> USE ServiceFacts
<1>1. PICK u \in Users : u = cust[o]
  BY DEF BookTypes, OpAnswer
<1>2. o \in Processes /\ u \in Processes /\ service[o] \in Services /\ o # u /\ u # 0 /\ Idle(o)
  BY DEF BookTypes, Processes, OpAnswer
<1>3. \A q \in Processes : q # o => pending'[q] = pending[q]
  BY <1>2, MakesFacts, MadeTypes DEF OpAnswer
<1>4. /\ cust'[o] = 0 /\ \A r \in Operators : r # o => cust'[r] = cust[r]
      /\ stage'[u] = "answered" /\ \A v \in Users : v # u => stage'[v] = stage[v]
      /\ service'[u] = service[o] /\ \A q \in Processes : q # u => service'[q] = service[q]
      /\ UNCHANGED <<book, alive, dirPc>>
  BY <1>1, <1>2 DEF BookTypes, OpAnswer, director
<1>5. \A r \in Operators : cust[r] = u => r = o
  BY <1>1, <1>2 DEF WorkInv, PlaceInv
<1>6. stage[u] = "taken" /\ ~Busy(u) /\ o \in alive /\ ~Busy(o)
  BY <1>1, <1>2 DEF WorkInv, PlaceInv, Idle
<1>7. ASSUME NEW v \in Users, v # u PROVE Owes(v, c)' <=> Owes(v, c)
  <2>1. v \in Processes /\ v # o /\ v # 0 /\ \A r \in Operators : r \in Processes /\ r # u
    BY DEF Processes
  <2>2. OwesKept(v)
    BY <1>1, <1>3, <1>4, <1>7, <2>1 DEF OwesKept
  <2> QED
    BY <2>2, OwesFrame
<1>8. Owes(u, c) <=> c = Global \/ service[o] = c
  <2>1. InHands(u, c) <=> c = Global \/ service[o] = c
    BY <1>1, <1>5, <1>6 DEF InHands
  <2> QED
    BY <2>1, <1>6, WhoOwes DEF Owes
<1>9. Owes(u, c)' <=> c = Global \/ service[o] = c
  <2>1. ~InHands(u, c)'
    BY <1>2, <1>4, <1>5 DEF InHands
  <2>2. HasAnswer(u, c)' <=> c = Global \/ service[o] = c
    BY <1>4 DEF HasAnswer
  <2>3. ~IsCounting(u, c)'
    BY <1>2, <1>3, <1>6 DEF IsCounting, Busy
  <2> QED
    BY <2>1, <2>2, <2>3 DEF Owes
<1> QED
  BY <1>4, <1>7, <1>8, <1>9, CountSame DEF Excess

LEMMA CountShiftOver ==
    ASSUME BookTypes, WorkInv, NEW c \in Entries, CountOk(c), NEW o \in Operators, OpShiftOver(o)
    PROVE  CountOk(c)'
<1> USE ServiceFacts
<1>1. /\ o \in Processes /\ o \notin Users /\ cust[o] = 0
      /\ UNCHANGED <<book, service, cust, stage, alive, dirPc>>
  BY DEF Processes, OpShiftOver, director
<1>2. \A q \in Processes : q # o => pending'[q] = pending[q]
  BY <1>1, MakesFacts, MadeTypes DEF OpShiftOver
<1>3. ASSUME NEW v \in Users PROVE Owes(v, c)' <=> Owes(v, c)
  <2>1. v \in Processes /\ v # o /\ v # 0 /\ \A r \in Operators : r \in Processes
    BY <1>1 DEF Processes
  <2>2. OwesKept(v)
    BY <1>1, <1>2, <2>1 DEF OwesKept
  <2> QED
    BY <2>2, OwesFrame
<1> QED
  BY <1>1, <1>3, CountSame DEF Excess

\* A user's own step: nobody else is concerned.
LEMMA CountUser ==
    ASSUME BookTypes, WorkInv, NEW c \in Entries, CountOk(c), NEW u \in Users,
           UNCHANGED <<book, cust, alive, dirPc>>,
           \A v \in Users : v # u => stage'[v] = stage[v],
           \A q \in Processes : q # u => pending'[q] = pending[q] /\ service'[q] = service[q],
           Owes(u, c)' <=> Owes(u, c)
    PROVE  CountOk(c)'
<1> USE ServiceFacts
<1>1. ASSUME NEW v \in Users, v # u PROVE Owes(v, c)' <=> Owes(v, c)
  <2>1. v \in Processes /\ \A r \in Operators : r \in Processes /\ r # u
    BY DEF Processes
  <2>2. OwesKept(v)
    BY <1>1, <2>1 DEF OwesKept
  <2> QED
    BY <2>2, OwesFrame
<1> QED
  BY <1>1, CountSame DEF Excess

LEMMA CountPresent ==
    ASSUME BookTypes, WorkInv, NEW c \in Entries, CountOk(c), NEW u \in Users, UtPresent(u)
    PROVE  CountOk(c)'
<1> USE ServiceFacts
<1>1. /\ ~Busy(u) /\ stage[u] = "home" /\ stage'[u] = "waiting"
      /\ \A v \in Users : v # u => stage'[v] = stage[v]
      /\ UNCHANGED <<book, pending, service, cust, alive, dirPc>>
  BY DEF UtPresent, Arrives, Idle, BookTypes, director
<1>2. ~Owes(u, c)
  BY <1>1, WhoOwes DEF Owes, IsCounting
<1>3. ~Owes(u, c)'
  <2>1. ~InHands(u, c)'
    BY <1>1, <1>2 DEF Owes, InHands, Busy
  <2> QED
    BY <1>1, <2>1 DEF Owes, HasAnswer, IsCounting, Busy
<1> QED
  BY <1>1, <1>2, <1>3, CountUser

LEMMA MadeHead ==
    ASSUME BookTypes, NEW p \in Processes, NEW w \in Seq(Cells), NEW v \in Seq(Cells),
           Makes(p, <<w>>) \/ Makes(p, <<w, v>>)
    PROVE  /\ \A q \in Processes : q # p => pending'[q] = pending[q]
           /\ pending'[p] # << >> /\ Head(pending'[p]) = w
<1>1. <<w>> \in Seq(Seq(Cells)) /\ <<w, v>> \in Seq(Seq(Cells))
  OBVIOUS
<1>2. /\ \A q \in Processes : q # p => pending'[q] = pending[q]
      /\ pending'[p] = <<w>> \/ pending'[p] = <<w, v>>
  BY <1>1, MakesFacts
<1>3. <<w>> # << >> /\ Head(<<w>>) = w /\ <<w, v>> # << >> /\ Head(<<w, v>>) = w
  OBVIOUS
<1>4. CASE pending'[p] = <<w>>
  BY <1>2, <1>3, <1>4
<1>5. CASE pending'[p] = <<w, v>>
  BY <1>2, <1>3, <1>5
<1> QED
  BY <1>2, <1>4, <1>5

LEMMA CountUnserved ==
    ASSUME BookTypes, WorkInv, NEW c \in Entries, CountOk(c), NEW u \in Users, UtUnserved(u)
    PROVE  CountOk(c)'
<1> USE ServiceFacts
<1>1. PICK s \in Services : \/ Makes(u, <<UpdateFails(s)>>)
                            \/ Makes(u, <<UpdateLate(s), UpdateFails(s)>>)
  BY DEF UtUnserved
<1>2. /\ u \in Processes /\ u \notin Operators /\ ~Busy(u) /\ stage[u] = "home"
      /\ UNCHANGED <<book, service, cust, stage, alive, dirPc>>
  BY DEF UtUnserved, Arrives, Idle, Processes, director
<1>3. /\ \A q \in Processes : q # u => pending'[q] = pending[q]
      /\ Head(pending'[u]) \in {UpdateFails(s), UpdateLate(s)}
  BY <1>1, <1>2, MadeHead, UpdateTypes
<1>4. ~Owes(u, c)
  BY <1>2, WhoOwes DEF Owes, IsCounting
<1>5. ~Owes(u, c)'
  <2>1. ~IsCounting(u, c)'
    BY <1>3, UpdateCells DEF IsCounting, ServedCell
  <2>2. ~HasAnswer(u, c)'
    BY <1>2 DEF HasAnswer
  <2>3. ~InHands(u, c)'
    <3>1. \A o \in Operators : pending'[o] = pending[o]
      BY <1>2, <1>3 DEF Processes
    <3> QED
      BY <1>2, <1>4, <3>1 DEF Owes, InHands, Busy
  <2> QED
    BY <2>1, <2>2, <2>3 DEF Owes
<1> QED
  BY <1>2, <1>3, <1>4, <1>5, CountUser

LEMMA CountDone ==
    ASSUME BookTypes, WorkInv, NEW c \in Entries, CountOk(c), NEW u \in Users, UtDone(u)
    PROVE  CountOk(c)'
<1> USE ServiceFacts
<1>1. PICK s \in Services : s = service[u]
  BY DEF BookTypes, Processes
<1>2. /\ u \in Processes /\ u \notin Operators /\ stage[u] = "answered" /\ stage'[u] = "home"
      /\ \A v \in Users : v # u => stage'[v] = stage[v]
      /\ \A q \in Processes : q # u => service'[q] = service[q]
      /\ UNCHANGED <<book, cust, alive, dirPc>>
  BY DEF UtDone, Processes, BookTypes, director
<1>3. /\ \A q \in Processes : q # u => pending'[q] = pending[q]
      /\ Head(pending'[u]) = UpdateSuccess(s) /\ pending'[u] # << >>
  BY <1>1, <1>2, MadeHead, UpdateTypes DEF UtDone
<1>4. Owes(u, c) <=> c = Global \/ c = s
  BY <1>1, <1>2, WhoOwes DEF Owes, HasAnswer
<1>5. Owes(u, c)' <=> c = Global \/ c = s
  <2>1. IsCounting(u, c)' <=> c = Global \/ c = s
    BY <1>3, UpdateCells DEF IsCounting, Busy
  <2>2. ~HasAnswer(u, c)'
    BY <1>2 DEF HasAnswer
  <2>3. ~InHands(u, c)'
    <3>1. ~InHands(u, c)
      BY <1>2, WhoOwes
    <3>2. \A o \in Operators : pending'[o] = pending[o] /\ service'[o] = service[o]
      BY <1>2, <1>3 DEF Processes
    <3> QED
      BY <1>2, <3>1, <3>2 DEF InHands, Busy
  <2> QED
    BY <2>1, <2>2, <2>3 DEF Owes
<1> QED
  BY <1>2, <1>3, <1>4, <1>5, CountUser

LEMMA ExcessStep ==
    ASSUME BookTypes, NEW c \in Entries, NEW h \in Cells, book' = [book EXCEPT ![h] = @ + 1]
    PROVE  /\ Excess(c) \in Int
           /\ Excess(c)' = IF h = RequestCell(c) THEN Excess(c) + 1
                           ELSE IF h = ServedCell(c) THEN Excess(c) - 1 ELSE Excess(c)
<1>1. RequestCell(c) # ServedCell(c)
  BY DEF RequestCell, ServedCell
<1>2. /\ book[RequestCell(c)] \in Int /\ book[ServedCell(c)] \in Int
      /\ book'[RequestCell(c)] = IF h = RequestCell(c) THEN book[RequestCell(c)] + 1 ELSE book[RequestCell(c)]
      /\ book'[ServedCell(c)] = IF h = ServedCell(c) THEN book[ServedCell(c)] + 1 ELSE book[ServedCell(c)]
  BY CountCells DEF BookTypes
<1>3. Excess(c) = book[RequestCell(c)] - book[ServedCell(c)]
      /\ Excess(c)' = book'[RequestCell(c)] - book'[ServedCell(c)]
  BY DEF Excess
<1> QED
  BY <1>1, <1>2, <1>3

\* One increment: it concerns the user an operator serves, or the user that counts.
LEMMA CountIncrement ==
    ASSUME BookTypes, WorkInv, NEW c \in Entries, CountOk(c), NEW p \in Processes, Increment(p)
    PROVE  CountOk(c)'
<1> USE ServiceFacts
<1>1. /\ p \in alive /\ lock = p /\ Busy(p) /\ Busy(p)'
      /\ UNCHANGED <<service, cust, stage, alive, dirPc>>
  BY IncrementFacts DEF Increment, workers, director, Busy
<1>2. PICK r : r = Head(pending[p])
  OBVIOUS
<1>3. /\ r \in Seq(Cells) /\ r # << >> /\ Head(pending'[p]) = Tail(r)
      /\ book' = [book EXCEPT ![Head(r)] = @ + 1]
      /\ \A q \in Processes : q # p => pending'[q] = pending[q]
  BY <1>2, IncrementFacts
<1>4. PICK w \in FirstUpdates(p) : Suff(r, w)
  BY <1>1, <1>2 DEF WorkInv, PendingInv, PendingOk
<1>5. PICK h : h = Head(r)
  OBVIOUS
<1>6. /\ w \in Updates /\ h \in Left(r) /\ h \in Cells /\ Left(Tail(r)) = Left(r) \ {h}
      /\ Left(r) \subseteq Left(w)
  BY <1>3, <1>4, <1>5, SuffTail, SuffFacts, FirstFacts
<1>7. /\ Excess(c) \in Int
      /\ Excess(c)' = IF h = RequestCell(c) THEN Excess(c) + 1
                      ELSE IF h = ServedCell(c) THEN Excess(c) - 1 ELSE Excess(c)
  BY <1>3, <1>5, <1>6, ExcessStep
<1>8. Busy(p)' /\ Left(Head(pending[p])) = Left(r) /\ Left(Head(pending'[p])) = Left(r) \ {h}
  BY <1>1, <1>2, <1>3, <1>6
<1>9. ASSUME NEW v \in Users, v # p, p \in Operators => cust[p] # v
      PROVE  Owes(v, c)' <=> Owes(v, c)
  <2>1. v \in Processes /\ \A o \in Operators : o \in Processes
    BY DEF Processes
  <2>2. OwesKept(v)
    BY <1>1, <1>3, <1>9, <2>1 DEF OwesKept
  <2> QED
    BY <2>2, OwesFrame
<1>10. CASE p \in Operators /\ cust[p] = 0
  <2>1. \A v \in Users : v # p /\ cust[p] # v
    BY <1>10 DEF Processes
  <2>2. h[3] \in {"pauses", "active"}
    BY <1>4, <1>6, <1>10, UpdateCells DEF FirstUpdates
  <2>3. h # RequestCell(c) /\ h # ServedCell(c)
    BY <2>2 DEF RequestCell, ServedCell
  <2> QED
    BY <1>1, <1>7, <1>9, <2>1, <2>3, CountSame
<1>11. CASE p \in Operators /\ cust[p] # 0
  <2>1. PICK u \in Users : u = cust[p]
    BY <1>11 DEF BookTypes
  <2>2. /\ p # u /\ u \in Processes /\ u # 0 /\ service[p] \in Services
        /\ \A o \in Operators : cust[o] = u => o = p
        /\ stage[u] = "taken"
    BY <1>11, <2>1 DEF Processes, BookTypes, WorkInv, PlaceInv
  <2>3. w = UpdateRequests(service[p])
    BY <1>4, <1>11 DEF FirstUpdates
  <2>4. h[3] = "requests" /\ (h = RequestCell(c) => c = Global \/ c = service[p])
    <3>1. PICK s \in Services : s = service[p]
      BY <2>2
    <3>2. h \in Left(UpdateRequests(s))
      BY <1>6, <2>3, <3>1
    <3>3. h[3] = "requests" /\ (h = RequestCell(c) => c = Global \/ c = s)
      BY <3>2, UpdateCells
    <3> QED
      BY <3>1, <3>3
  <2>5. h # ServedCell(c)
    BY <2>4 DEF ServedCell
  <2>6. Owes(u, c) <=> (c = Global \/ service[p] = c) /\ RequestCell(c) \notin Left(r)
    <3>1. InHands(u, c) <=> (c = Global \/ service[p] = c) /\ RequestCell(c) \notin Left(r)
      BY <1>1, <1>2, <1>11, <2>1, <2>2 DEF InHands
    <3> QED
      BY <2>2, <3>1, WhoOwes DEF Owes
  <2>7. Owes(u, c)' <=> (c = Global \/ service[p] = c) /\ RequestCell(c) \notin Left(r) \ {h}
    <3>1. InHands(u, c)' <=> (c = Global \/ service[p] = c) /\ RequestCell(c) \notin Left(r) \ {h}
      BY <1>1, <1>8, <1>11, <2>1, <2>2 DEF InHands
    <3>2. ~HasAnswer(u, c)'
      BY <1>1, <2>2 DEF HasAnswer
    <3>3. ~IsCounting(u, c)'
      <4>1. ~IsCounting(u, c) /\ pending'[u] = pending[u]
        BY <1>3, <2>2, WhoOwes
      <4> QED
        BY <4>1 DEF IsCounting, Busy
    <3> QED
      BY <3>1, <3>2, <3>3 DEF Owes
  <2>8. CASE h # RequestCell(c)
    <3>1. Owes(u, c)' <=> Owes(u, c)
      BY <2>6, <2>7, <2>8
    <3>2. \A v \in Users : v # u => v # p /\ cust[p] # v
      BY <1>11, <2>1
    <3> QED
      BY <1>1, <1>7, <1>9, <2>5, <2>8, <3>1, <3>2, CountSame
  <2>9. CASE h = RequestCell(c)
    <3>1. ~Owes(u, c) /\ Owes(u, c)'
      BY <1>6, <2>4, <2>6, <2>7, <2>9
    <3>2. \A v \in Users : v # u => v # p /\ cust[p] # v
      BY <1>11, <2>1
    <3>3. Owing(c)' = Owing(c) \cup {u} /\ u \notin Owing(c)
      BY <1>9, <3>1, <3>2 DEF Owing
    <3>4. Cardinality(Owing(c)') = Cardinality(Owing(c)) + 1
      BY <3>3, OwingFinite, FS_AddElement
    <3>5. Cardinality(Owing(c)) \in Nat
      BY OwingFinite
    <3> QED
      BY <1>1, <1>7, <2>9, <3>4, <3>5 DEF CountOk
  <2> QED
    BY <2>8, <2>9
<1>12. CASE p \in Users
  <2>1. p \notin Operators /\ stage[p] = "home"
    BY <1>1, <1>12 DEF WorkInv, PlaceInv
  <2>2. h[3] \in {"served", "failed", "late"}
    BY <1>4, <1>6, <1>12, UpdateCells DEF FirstUpdates, UserUpdates
  <2>3. h # RequestCell(c)
    BY <2>2 DEF RequestCell
  <2>4. Owes(p, c) <=> ServedCell(c) \in Left(r)
    <3>1. IsCounting(p, c) <=> ServedCell(c) \in Left(r)
      BY <1>1, <1>2 DEF IsCounting
    <3> QED
      BY <1>12, <2>1, <3>1, WhoOwes DEF Owes
  <2>5. Owes(p, c)' <=> ServedCell(c) \in Left(r) \ {h}
    <3>1. IsCounting(p, c)' <=> ServedCell(c) \in Left(r) \ {h}
      BY <1>8 DEF IsCounting
    <3>2. ~HasAnswer(p, c)'
      BY <1>1, <2>1 DEF HasAnswer
    <3>3. ~InHands(p, c)'
      <4>1. ~InHands(p, c)
        BY <1>12, <2>1, WhoOwes
      <4>2. \A o \in Operators : pending'[o] = pending[o]
        BY <1>3, <2>1 DEF Processes
      <4> QED
        BY <1>1, <4>1, <4>2 DEF InHands, Busy
    <3> QED
      BY <3>1, <3>2, <3>3 DEF Owes
  <2>6. CASE h # ServedCell(c)
    <3>1. Owes(p, c)' <=> Owes(p, c)
      BY <2>4, <2>5, <2>6
    <3> QED
      BY <1>1, <1>7, <1>9, <1>12, <2>1, <2>3, <2>6, <3>1, CountSame
  <2>7. CASE h = ServedCell(c)
    <3>1. Owes(p, c) /\ ~Owes(p, c)'
      BY <1>6, <2>4, <2>5, <2>7
    <3>2. Owing(c)' = Owing(c) \ {p} /\ p \in Owing(c)
      BY <1>9, <1>12, <2>1, <3>1 DEF Owing
    <3>3. Cardinality(Owing(c)') = Cardinality(Owing(c)) - 1
      BY <3>2, OwingFinite, FS_RemoveElement
    <3>4. Cardinality(Owing(c)) \in Nat
      BY OwingFinite
    <3> QED
      BY <1>1, <1>7, <2>3, <2>7, <3>3, <3>4 DEF CountOk
  <2> QED
    BY <2>6, <2>7
<1> QED
  BY <1>10, <1>11, <1>12 DEF Processes

\* An update is done: what it counted has been counted, and what is next is none of
\* a request or a success.
LEMMA CountUnlock ==
    ASSUME BookTypes, WorkInv, NEW c \in Entries, CountOk(c), NEW p \in Processes, Unlock(p)
    PROVE  CountOk(c)'
<1> USE ServiceFacts
<1>1. /\ Busy(p) /\ Head(pending[p]) = << >>
      /\ UNCHANGED <<book, service, cust, stage, alive, dirPc>>
  BY DEF Unlock, workers, director
<1>2. /\ \A q \in Processes : q # p => pending'[q] = pending[q]
      /\ pending'[p] \in Seq(Seq(Cells))
      /\ Len(pending'[p]) = Len(pending[p]) - 1
      /\ \A k \in 1 .. Len(pending[p]) - 1 : pending'[p][k] = pending[p][k + 1]
  BY UnlockFacts
<1>3. /\ Len(pending[p]) \in Nat \ {0}
      /\ \A k \in 2 .. Len(pending[p]) : pending[p][k] \in LaterUpdates(p)
  BY <1>1, BusyFacts DEF WorkInv, PendingInv, PendingOk
<1>4. Busy(p)' => Head(pending'[p]) \in LaterUpdates(p)
  <2> SUFFICES ASSUME pending'[p] # << >> PROVE Head(pending'[p]) \in LaterUpdates(p)
    BY DEF Busy
  <2>1. Head(pending'[p]) = pending'[p][1] /\ Len(pending'[p]) \in Nat \ {0}
    BY <1>2
  <2>2. 2 \in 2 .. Len(pending[p]) /\ 1 \in 1 .. Len(pending[p]) - 1
    BY <1>2, <1>3, <2>1
  <2>3. pending'[p][1] = pending[p][2]
    BY <1>2, <2>2
  <2> QED
    BY <1>3, <2>1, <2>2, <2>3
<1>5. Left(Head(pending[p])) = {}
  BY <1>1 DEF Left
<1>6. ASSUME NEW v \in Users PROVE Owes(v, c)' <=> Owes(v, c)
  <2>1. v \in Processes /\ v # 0
    BY DEF Processes
  <2>2. InHands(v, c)' <=> InHands(v, c)
    <3> SUFFICES ASSUME NEW o \in Operators, cust[o] = v
                 PROVE  (Busy(o) => RequestCell(c) \notin Left(Head(pending[o])))'
                          <=> (Busy(o) => RequestCell(c) \notin Left(Head(pending[o])))
      BY <1>1 DEF InHands
    <3>1. CASE o # p
      BY <1>2, <3>1 DEF Busy, Processes
    <3>2. CASE o = p
      <4>1. LaterUpdates(p) = {}
        BY <2>1, <3>2 DEF LaterUpdates
      <4> QED
        BY <1>4, <1>5, <3>2, <4>1
    <3> QED
      BY <3>1, <3>2
  <2>3. HasAnswer(v, c)' <=> HasAnswer(v, c)
    BY <1>1 DEF HasAnswer
  <2>4. IsCounting(v, c)' <=> IsCounting(v, c)
    <3>1. CASE v # p
      BY <1>2, <2>1, <3>1 DEF IsCounting, Busy
    <3>2. CASE v = p
      <4>1. ~IsCounting(v, c)
        BY <1>5, <3>2 DEF IsCounting
      <4>2. ~IsCounting(v, c)'
        <5>1. Busy(p)' => \E s \in Services : Head(pending'[p]) \in {UpdateFails(s), UpdateLate(s)}
          BY <1>4, <3>2 DEF LaterUpdates
        <5> QED
          BY <3>2, <5>1, UpdateCells DEF IsCounting, ServedCell
      <4> QED
        BY <4>1, <4>2
    <3> QED
      BY <3>1, <3>2
  <2> QED
    BY <2>2, <2>3, <2>4 DEF Owes
<1> QED
  BY <1>1, <1>6, CountSame DEF Excess

\* A death makes nobody owe.
LEMMA CountKill ==
    ASSUME BookTypes, WorkInv, NEW c \in Entries, CountOk(c), DirKill
    PROVE  CountOk(c)'
<1>1. PICK p \in alive : alive' = alive \ {p} /\ Makes(p, << >>)
  BY DEF DirKill
<1>2. /\ p \in Processes /\ pending'[p] = << >>
      /\ \A r \in Processes : r # p => pending'[r] = pending[r]
  BY <1>1, MakesFacts, MadeTypes, ServiceFacts DEF BookTypes
<1>3. UNCHANGED <<book, service, cust, stage>> /\ dirPc' = "killing"
  BY DEF DirKill, workers
<1>4. \A o \in Operators \cap alive' : o # p /\ o \in alive /\ pending'[o] = pending[o]
  BY <1>1, <1>2 DEF Processes
<1>5. ASSUME NEW v \in Users, Owes(v, c)' PROVE Owes(v, c)
  <2>1. InHands(v, c)' => InHands(v, c)
    BY <1>3, <1>4 DEF InHands, Busy
  <2>2. HasAnswer(v, c)' => HasAnswer(v, c)
    BY <1>3 DEF HasAnswer
  <2>3. IsCounting(v, c)' => IsCounting(v, c)
    BY <1>2 DEF IsCounting, Busy, Processes
  <2> QED
    BY <1>5, <2>1, <2>2, <2>3 DEF Owes
<1>6. Owing(c)' \subseteq Owing(c)
  BY <1>5 DEF Owing
<1>7. Cardinality(Owing(c)') <= Cardinality(Owing(c)) /\ Cardinality(Owing(c)') \in Nat
  BY <1>6, OwingFinite, FS_Subset, FS_CardinalityType
<1>8. Cardinality(Owing(c)) \in Nat
  BY OwingFinite
<1>9. Excess(c)' = Excess(c) /\ Excess(c) \in Int
  BY <1>3, CountCells DEF Excess, BookTypes
<1> QED
  BY <1>3, <1>7, <1>8, <1>9 DEF CountOk

LEMMA CountStep == BookTypes /\ WorkInv /\ CountInv /\ [Next]_vars => CountInv'
<1> SUFFICES ASSUME BookTypes, WorkInv, CountInv, [Next]_vars, NEW c \in Entries PROVE CountOk(c)'
  BY DEF CountInv, Entries
<1>1. CountOk(c)
  BY DEF CountInv, Entries
<1>2. ASSUME Excess(c)' = Excess(c), dirPc' = "running" => dirPc = "running",
             UNCHANGED <<pending, service, cust, stage, alive>>
      PROVE  CountOk(c)'
  <2>1. \A v \in Users : Owes(v, c)' <=> Owes(v, c)
    BY <1>2, OwesFrame DEF OwesKept
  <2> QED
    BY <1>1, <1>2, <2>1, CountSame
<1>3. ASSUME NEW p \in Processes, Lock(p) PROVE CountOk(c)'
  BY <1>2, <1>3 DEF Lock, workers, director, Excess
<1>4. CASE DirNewDay
  <2>1. book' = [d \in Cells |-> IF d[1] = "today" THEN 0 ELSE book[d]]
    BY <1>4 DEF DirNewDay, Midnight
  <2>2. book'[RequestCell(c)] = book[RequestCell(c)] /\ book'[ServedCell(c)] = book[ServedCell(c)]
    <3>1. RequestCell(c)[1] # "today" /\ ServedCell(c)[1] # "today"
      BY DEF RequestCell, ServedCell
    <3> QED
      BY <2>1, <3>1, CountCells
  <2> QED
    BY <1>2, <1>4, <2>2 DEF DirNewDay, Midnight, workers, Excess
<1>5. CASE DirReport
  BY <1>2, <1>5 DEF DirReport, workers, Excess
<1>6. CASE UNCHANGED vars
  BY <1>2, <1>6 DEF vars, workers, director, Excess
<1> QED
  BY <1>1, <1>3, <1>4, <1>5, <1>6, CountIncrement, CountUnlock, CountTake, CountAnswer, CountShiftOver,
     CountPresent, CountUnserved, CountDone, CountKill
     DEF Next, ProcessStep, DirStep
-----------------------------------------------------------------------------
(* The theorems.                                                             *)
Inv == BookTypes /\ WorkInv /\ BalanceInv /\ CountInv

LEMMA InvCorrect == Spec => []Inv
<1>1. Init => Inv
  BY TypesInit, PendingInit, PlaceInit, BalanceInit, CountInit DEF Inv, WorkInv
<1>2. Inv /\ [Next]_vars => Inv'
  BY TypesStep, PendingStep, PlaceStep, BalanceStep, CountStep DEF Inv, WorkInv
<1> QED
  BY <1>1, <1>2, PTL DEF Spec

LEMMA ImbalanceBound ==
    ASSUME NEW b \in [Cells -> Nat]
    PROVE  /\ (\A x \in Balanced : Gap(b, x) = 0) => Imbalance(b) = 0
           /\ \A x \in Balanced :
                 Gap(b, x) \in -1 .. 1 /\ (\A y \in Balanced \ {x} : Gap(b, y) = 0) => Imbalance(b) <= 1
<1> DEFINE Size(x) == IF Gap(b, x) < 0 THEN -Gap(b, x) ELSE Gap(b, x)
           f == [x \in Balanced |-> Size(x)]
           g == [x \in Balanced |-> 0]
<1>1. f \in [Balanced -> Int] /\ g \in [Balanced -> Int]
  <2>1. \A x \in Balanced : Gap(b, x) \in Int
    BY GapType
  <2> QED
    BY <2>1
<1>2. Imbalance(b) = SumFunctionOnSet(f, Balanced)
  BY DEF Imbalance, SumFunction
<1>3. IsFiniteSet(Balanced)
  <2>1. IsFiniteSet({"simulation", "today"})
    <3>1. {"simulation", "today"} = {"simulation"} \cup {"today"}
      OBVIOUS
    <3>2. IsFiniteSet({"simulation"} \cup {"today"})
      BY FS_Singleton, FS_AddElement
    <3> QED
      BY <3>1, <3>2
  <2>2. IsFiniteSet({"requests", "served", "failed"})
    <3>1. IsFiniteSet({"requests"} \cup {"served"})
      BY FS_Singleton, FS_AddElement
    <3>2. IsFiniteSet(({"requests"} \cup {"served"}) \cup {"failed"})
      BY <3>1, FS_AddElement
    <3>3. {"requests", "served", "failed"} = ({"requests"} \cup {"served"}) \cup {"failed"}
      OBVIOUS
    <3> QED
      BY <3>2, <3>3
  <2>3. IsFiniteSet({"simulation", "today"} \X {"requests", "served", "failed"})
    BY <2>1, <2>2, FS_Product
  <2> QED
    BY <2>3, FS_AddElement DEF Balanced, Scopes
<1>4. \A x \in Balanced : f[x] = Size(x) /\ g[x] = 0
  OBVIOUS
<1>5. SumFunctionOnSet(g, Balanced) = 0
  BY <1>1, <1>3, <1>4, SumOfZeros
<1> HIDE DEF f, g
<1>6. (\A x \in Balanced : Gap(b, x) = 0) => Imbalance(b) = 0
  <2> SUFFICES ASSUME \A x \in Balanced : Gap(b, x) = 0 PROVE Imbalance(b) = 0
    OBVIOUS
  <2>1. \A x \in Balanced : f[x] = 0
    BY <1>4
  <2> QED
    BY <1>1, <1>2, <1>3, <2>1, SumOfZeros
<1>7. ASSUME NEW x \in Balanced, Gap(b, x) \in -1 .. 1, \A y \in Balanced \ {x} : Gap(b, y) = 0
      PROVE  Imbalance(b) <= 1
  <2>1. \A y \in Balanced : y # x => f[y] = g[y]
    BY <1>4, <1>7
  <2>2. SumFunctionOnSet(f, Balanced) = SumFunctionOnSet(g, Balanced) + f[x] - g[x]
    BY <1>1, <1>3, <2>1, SumChanges
  <2>3. f[x] \in {0, 1} /\ g[x] = 0
    BY <1>4, <1>7
  <2> QED
    BY <1>2, <1>5, <2>2, <2>3
<1> QED
  BY <1>6, <1>7

\* The books keep to their values, and an update to the cells there are
\* (poste.h:20-53, operatore.c:53-60, utente.c:133-189).
THEOREM TypesCorrect == Spec => []TypeOK
<1>1. BookTypes => TypeOK
  <2> SUFFICES ASSUME BookTypes, NEW p \in Processes, NEW k \in 1 .. Len(pending[p])
               PROVE  pending[p][k] \in Seq(Cells)
    BY DEF BookTypes, TypeOK
  <2>1. pending[p] \in Seq(Seq(Cells))
    BY DEF BookTypes
  <2> QED
    BY <2>1
<1> QED
  BY <1>1, InvCorrect, PTL DEF Inv

\* Whoever finds the lock free finds the office's counters to be the sums of the
\* services', for any number of processes, services and midnights
\* (operatore.c:53-60, utente.c:133-157, 172-189, direttore.c:159-162).
THEOREM BooksBalanceCorrect == Spec => []BooksBalance
<1>1. BookTypes /\ BalanceInv => BooksBalance
  <2> SUFFICES ASSUME BookTypes, BalanceInv, lock = 0 PROVE Imbalance(book) = 0
    BY DEF BooksBalance
  <2>1. \A x \in Balanced : Gap(book, x) = 0
    BY DEF BalanceInv, Owed, Todo
  <2> QED
    BY <2>1, ImbalanceBound DEF BookTypes
<1> QED
  BY <1>1, InvCorrect, PTL DEF Inv

\* While the director lives its days the requests counted and not yet among the
\* served ones are exactly those under way, service by service, although operator
\* and user count them in critical sections of their own (operatore.c:293, 306,
\* utente.c:243-246, 287-295).
THEOREM RequestsAccountedCorrect == Spec => []RequestsAccounted
<1>1. Inv => RequestsAccounted
  <2> SUFFICES ASSUME Inv, lock = 0, dirPc = "running", NEW s \in Services
               PROVE  Excess(s) = Underway(s)
    BY DEF RequestsAccounted, Excess, RequestCell, ServedCell
  <2> USE ServiceFacts
  <2>1. Excess(s) = Cardinality(Owing(s)) /\ s # Global /\ s \in Entries
    BY DEF Inv, CountInv, CountOk, Entries
  <2>2. alive = Processes
    BY DEF Inv, WorkInv, PlaceInv
  <2>3. ASSUME NEW p \in Processes, Busy(p) PROVE Head(pending[p]) \in FirstUpdates(p)
    <3>1. lock # p
      OBVIOUS
    <3> QED
      BY <2>3, <3>1 DEF Inv, WorkInv, PendingInv, PendingOk
  <2> DEFINE A == {o \in Operators : cust[o] # 0 /\ service[o] = s /\ ~Busy(o)}
             T == {u \in Users : InHands(u, s)}
             B == {u \in Users : \/ stage[u] = "answered" /\ service[u] = s
                                 \/ Busy(u) /\ Head(pending[u]) = UpdateSuccess(s)}
             f == [o \in A |-> cust[o]]
  <2>4. \A u \in Users : IsCounting(u, s) <=> Busy(u) /\ Head(pending[u]) = UpdateSuccess(s)
    <3> SUFFICES ASSUME NEW u \in Users, Busy(u)
                 PROVE  ServedCell(s) \in Left(Head(pending[u])) <=> Head(pending[u]) = UpdateSuccess(s)
      BY DEF IsCounting
    <3>1. Head(pending[u]) \in UserUpdates
      BY <2>3 DEF FirstUpdates, Processes
    <3>2. ASSUME NEW t \in Services, Head(pending[u]) \in {UpdateFails(t), UpdateLate(t)}
          PROVE  ServedCell(s) \notin Left(Head(pending[u]))
      BY <2>1, <3>2, UpdateCells DEF ServedCell
    <3>3. ASSUME NEW t \in Services, Head(pending[u]) = UpdateSuccess(t)
          PROVE  ServedCell(s) \in Left(Head(pending[u])) <=> s = t
      BY <2>1, <3>3, UpdateCells
    <3> QED
      BY <3>1, <3>2, <3>3 DEF UserUpdates
  <2>5. Owing(s) = T \cup B
    BY <2>1, <2>4 DEF Owing, Owes, HasAnswer
  <2>6. T \cap B = {}
    <3> SUFFICES ASSUME NEW u \in Users, InHands(u, s), u \in B PROVE FALSE
      OBVIOUS
    <3>1. stage[u] = "taken"
      BY <2>1, WhoOwes DEF Inv
    <3>2. ~Busy(u)
      BY <3>1 DEF Inv, WorkInv, PlaceInv
    <3> QED
      BY <3>1, <3>2
  <2>7. f \in Bijection(A, T)
    <3>1. ASSUME NEW o \in A PROVE f[o] \in T
      <4>1. cust[o] \in Users /\ o \in alive
        BY <2>2 DEF Inv, BookTypes, Processes
      <4> QED
        BY <4>1 DEF InHands
    <3>2. \A o, p \in A : f[o] = f[p] => o = p
      BY DEF Inv, WorkInv, PlaceInv
    <3>3. ASSUME NEW u \in T PROVE \E o \in A : f[o] = u
      <4>1. PICK o \in Operators : /\ cust[o] = u
                                   /\ s = Global \/ service[o] = s
                                   /\ Busy(o) => RequestCell(s) \notin Left(Head(pending[o]))
        BY DEF InHands
      <4>2. cust[o] # 0 /\ service[o] = s /\ o \in Processes /\ o \notin Users
        BY <2>1, <4>1 DEF Processes
      <4>3. ~Busy(o)
        <5> SUFFICES ASSUME Busy(o) PROVE FALSE
          OBVIOUS
        <5>1. Head(pending[o]) = UpdateRequests(s)
          BY <2>3, <4>2 DEF FirstUpdates
        <5> QED
          BY <2>1, <4>1, <5>1, UpdateCells
      <4> QED
        BY <4>1, <4>2, <4>3
    <3> QED
      BY <3>1, <3>2, <3>3 DEF Bijection, Injection, Surjection, IsInjective
  <2>8. IsFiniteSet(A) /\ IsFiniteSet(T) /\ IsFiniteSet(B)
    BY FS_Subset
  <2>9. Cardinality(T) = Cardinality(A)
    BY <2>7, <2>8, FS_Bijection DEF ExistsBijection
  <2>10. Cardinality(T \cup B) = Cardinality(T) + Cardinality(B)
    <3>1. Cardinality(T \cup B) = Cardinality(T) + Cardinality(B) - Cardinality(T \cap B)
      BY <2>8, FS_Union
    <3>2. /\ Cardinality(T \cap B) = 0 /\ Cardinality(T) \in Nat /\ Cardinality(B) \in Nat
      BY <2>6, <2>8, FS_EmptySet, FS_CardinalityType
    <3> QED
      BY <3>1, <3>2
  <2>11. Underway(s) = Cardinality(A) + Cardinality(B)
    BY DEF Underway
  <2> QED
    BY <2>1, <2>5, <2>9, <2>10, <2>11
<1> QED
  BY <1>1, InvCorrect, PTL

\* However and in whatever order the children were killed, in the report at most one
\* of the office's counters is off the sum of the services', by one, and nowhere are
\* there more services than requests (direttore.c:429-438).
THEOREM ReportCorrect == Spec => []ReportOffByOne
<1>1. Inv => ReportOffByOne
  <2> SUFFICES ASSUME Inv, dirPc = "done"
               PROVE  /\ Imbalance(report) <= 1
                      /\ \A s \in Entries : report[ServedCell(s)] <= report[RequestCell(s)]
    BY DEF ReportOffByOne, Entries, RequestCell, ServedCell
  <2>1. report = book /\ alive = {} /\ book \in [Cells -> Nat]
    BY DEF Inv, WorkInv, PlaceInv, BookTypes
  <2>2. Imbalance(book) <= 1
    <3>1. CASE lock = 0
      <4>1. \A x \in Balanced : Gap(book, x) = 0
        BY <3>1 DEF Inv, BalanceInv, Owed, Todo
      <4> QED
        BY <2>1, <4>1, ImbalanceBound
    <3>2. CASE lock # 0
      <4>1. \E x \in Balanced : /\ Gap(book, x) \in -1 .. 1
                                /\ \A y \in Balanced \ {x} : Gap(book, y) = 0
        BY <2>1, <3>2 DEF Inv, BalanceInv
      <4> QED
        BY <2>1, <4>1, ImbalanceBound
    <3> QED
      BY <3>1, <3>2
  <2>3. ASSUME NEW s \in Entries PROVE book[ServedCell(s)] <= book[RequestCell(s)]
    <3>1. Cardinality(Owing(s)) <= book[RequestCell(s)] - book[ServedCell(s)]
      BY DEF Inv, CountInv, CountOk, Excess, Entries
    <3>2. /\ Cardinality(Owing(s)) \in Nat
          /\ book[RequestCell(s)] \in Nat /\ book[ServedCell(s)] \in Nat
      BY <2>1, CountCells, OwingFinite
    <3> QED
      BY <3>1, <3>2
  <2> QED
    BY <2>1, <2>2, <2>3
<1> QED
  BY <1>1, InvCorrect, PTL
=============================================================================
