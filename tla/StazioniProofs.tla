--------------------------- MODULE StazioniProofs ----------------------------
(***************************************************************************)
(* The table of counters, for any number of counters, operators and users. *)
(* A critical section decides what it will write before it writes the      *)
(* first field; the table it leaves is the one its decision gives, and     *)
(* nobody else writes meanwhile.  So a locked search sees the table as the *)
(* last decision left it, until it decides itself.                         *)
(***************************************************************************)
EXTENDS Stazioni, TLAPS

OpLabels == {"out", "seek", "wait", "status", "service", "found", "duty"}
UtLabels == {"idle", "look", "listed", "attempt", "seated"}
Holders == Processes \cup {Director}

Values(field) == IF field = "operator_process" THEN Operators \cup {0}
                 ELSE IF field = "service_id" THEN Services ELSE {"FREE", "OCCUPIED"}
AnyWrite == [seat : Seats, field : Fields,
             value : Operators \cup {0} \cup Services \cup {"FREE", "OCCUPIED"}]

Types ==
    /\ seats \in [Seats -> Seat]
    /\ lock \in Holders \cup {0}
    /\ pc \in [Processes -> Labels]
    /\ \A o \in Operators : pc[o] \in OpLabels
    /\ \A u \in Users : pc[u] \in UtLabels
    /\ at \in [Processes -> 0 .. NumSeats]
    /\ opService \in [Operators -> Services] /\ utService \in [Users -> Services]
    /\ valid_seats \in [Users -> SUBSET Seats]
    /\ place \in [Processes -> Seats \cup {NoSeat}]
    /\ suited \in [Operators -> BOOLEAN]

\* What is to be written makes sense, and no field is to be written twice.
Proper(ws) ==
    /\ ws \in Seq(AnyWrite)
    /\ \A n \in 1 .. Len(ws) : ws[n].value \in Values(ws[n].field)
    /\ \A m, n \in 1 .. Len(ws) :
          ws[m].seat = ws[n].seat /\ ws[m].field = ws[n].field => m = n

WriteInv ==
    /\ DOMAIN writes = Holders
    /\ \A p \in Holders :
          /\ Proper(writes[p])
          /\ writes[p] # << >> => lock = p /\ ~Searching(p)

\* A counter is free by the time its service is written.
Status(ws, m, i) == ws[m].seat = i /\ ws[m].field = "operator_status"
FreedFirst(t, ws) ==
    \A n \in 1 .. Len(ws) : ws[n].field = "service_id" =>
       \/ \E m \in 1 .. (n - 1) : Status(ws, m, ws[n].seat) /\ ws[m].value = "FREE"
       \/ /\ t[ws[n].seat].operator_status = "FREE"
          /\ \A m \in 1 .. Len(ws) : ~Status(ws, m, ws[n].seat)

ServiceInv == \A p \in Holders : FreedFirst(seats, writes[p])

\* How far the searches are and what they have found.
ProcInv(p) ==
    /\ Searching(p) => lock = p
    /\ ~Searching(p) /\ pc[p] \notin {"status", "service", "found"} => at[p] = 0
    /\ place[p] \in Seats <=> pc[p] \in {"duty", "seated"}
OpInv(o) ==
    /\ pc[o] = "seek" => \A i \in Seats : i < at[o] => ~Suits(o, i)
    /\ pc[o] \in {"status", "service", "found"} => at[o] \in Seats
    /\ pc[o] = "service" /\ seats[at[o]].service_id = opService[o] => suited[o]
UtInv(u) ==
    /\ pc[u] = "look" => valid_seats[u] = {i \in Seats : i < at[u] /\ Valid(u, i)}
    /\ pc[u] = "attempt" =>
          \A i \in valid_seats[u] : i < at[u] => seats[i].user_status # "FREE"
    /\ pc[u] \in {"idle", "seated"} => valid_seats[u] = {}

SearchInv == /\ \A p \in Processes : ProcInv(p)
             /\ \A o \in Operators : OpInv(o)
             /\ \A u \in Users : UtInv(u)

Inv == Types /\ WriteInv /\ ServiceInv /\ SearchInv
-----------------------------------------------------------------------------
LEMMA Bounds == /\ NumSeats \in Nat /\ NumSeats >= 1 /\ NumServices \in Nat /\ NumServices >= 1
                /\ 0 \in Seats /\ 0 \in Services /\ NoSeat \notin Seats
                /\ \A n \in 0 .. NumSeats : n \in Seats <=> n < NumSeats
                /\ Seats \subseteq Nat /\ Wanted \subseteq Services
BY StationsAssumption DEF Seats, Services, NoSeat

LEMMA Kinds == /\ Operators \cap Users = {} /\ Director \notin Processes
               /\ 0 \notin Holders /\ Operators \subseteq Processes /\ Users \subseteq Processes
               /\ Processes \subseteq Holders /\ Director \in Holders
BY StationsAssumption DEF Processes, Holders

LEMMA FieldsOf ==
    ASSUME NEW r \in Seat, NEW f \in Fields, NEW v \in Values(f)
    PROVE  /\ [r EXCEPT ![f] = v] \in Seat
           /\ \A g \in Fields : [r EXCEPT ![f] = v][g] = IF g = f THEN v ELSE r[g]
BY DEF Seat, Fields, Values

LEMMA SameSeat ==
    ASSUME NEW r \in Seat, NEW q \in Seat, \A f \in Fields : r[f] = q[f] PROVE r = q
BY DEF Seat, Fields

\* One assignment.
LEMMA WrittenFact ==
    ASSUME NEW t \in [Seats -> Seat], NEW w \in AnyWrite, w.value \in Values(w.field)
    PROVE  /\ Written(t, w) \in [Seats -> Seat]
           /\ \A i \in Seats, f \in Fields :
                 Written(t, w)[i][f] = IF i = w.seat /\ f = w.field THEN w.value ELSE t[i][f]
<1>1. w.seat \in Seats /\ w.field \in Fields
  BY DEF AnyWrite
<1>2. /\ [t[w.seat] EXCEPT ![w.field] = w.value] \in Seat
      /\ \A g \in Fields :
            [t[w.seat] EXCEPT ![w.field] = w.value][g]
               = IF g = w.field THEN w.value ELSE t[w.seat][g]
  BY <1>1, FieldsOf
<1>3. Written(t, w) = [t EXCEPT ![w.seat] = [t[w.seat] EXCEPT ![w.field] = w.value]]
  BY DEF Written
<1> HIDE DEF Written
<1> QED
  BY <1>1, <1>2, <1>3

LEMMA OneWrite ==
    ASSUME NEW i \in Seats, NEW f \in Fields, NEW v \in Values(f)
    PROVE  /\ Proper(<< Write(i, f, v) >>)
           /\ f # "service_id" => FreedFirst(seats, << Write(i, f, v) >>)
<1>1. Write(i, f, v) \in AnyWrite
  BY DEF Write, AnyWrite, Values
<1> QED
  BY <1>1 DEF Write, Proper, FreedFirst

LEMMA TwoWrites ==
    ASSUME NEW i \in Seats, NEW f \in Fields, NEW v \in Values(f),
           NEW g \in Fields, NEW w \in Values(g), f # g
    PROVE  /\ Proper(<< Write(i, f, v), Write(i, g, w) >>)
           /\ "service_id" \notin {f, g} => FreedFirst(seats, << Write(i, f, v), Write(i, g, w) >>)
<1>1. Write(i, f, v) \in AnyWrite /\ Write(i, g, w) \in AnyWrite
  BY DEF Write, AnyWrite, Values
<1> QED
  BY <1>1 DEF Write, Proper, FreedFirst

LEMMA NoWrite == Proper(<< >>) /\ FreedFirst(seats, << >>)
BY DEF Proper, FreedFirst

\* What remains to be written when the first write is made.
LEMMA TailFact ==
    ASSUME NEW ws \in Seq(AnyWrite), ws # << >>
    PROVE  /\ Tail(ws) \in Seq(AnyWrite) /\ Len(ws) \in Nat /\ Len(ws) >= 1
           /\ Len(Tail(ws)) = Len(ws) - 1 /\ Head(ws) = ws[1]
           /\ \A n \in 1 .. Len(Tail(ws)) : Tail(ws)[n] = ws[n + 1]
OBVIOUS

LEMMA ProperTail ==
    ASSUME NEW ws, Proper(ws), ws # << >> PROVE Proper(Tail(ws))
BY TailFact DEF Proper

\* Midnight: four writes a counter, the status before the service.
LEMMA ResetFact ==
    ASSUME NEW f \in [Seats -> Services], NEW ws, ws = ResetAll(f)
    PROVE  /\ Proper(ws) /\ FreedFirst(seats, ws)
           /\ \A i \in Seats :
                 /\ \E n \in 1 .. Len(ws) : ws[n] = Write(i, "operator_process", 0)
                 /\ \E n \in 1 .. Len(ws) : ws[n] = Write(i, "operator_status", "FREE")
                 /\ \E n \in 1 .. Len(ws) : ws[n] = Write(i, "user_status", "FREE")
                 /\ \E n \in 1 .. Len(ws) : ws[n] = Write(i, "service_id", f[i])
<1> DEFINE D(n) == (n - 1) \div 4
           R(n) == (n - 1) % 4
<1>1. ASSUME NEW n \in 1 .. 4 * NumSeats
      PROVE  /\ D(n) \in Seats /\ R(n) \in {0, 1, 2, 3} /\ n = 4 * D(n) + R(n) + 1
             /\ f[D(n)] \in Services
  BY Bounds DEF Seats
<1>2. ASSUME NEW i \in Seats, NEW r \in {0, 1, 2, 3}
      PROVE  4 * i + r + 1 \in 1 .. 4 * NumSeats /\ D(4 * i + r + 1) = i /\ R(4 * i + r + 1) = r
  BY Bounds DEF Seats
<1>3. ws = [n \in 1 .. 4 * NumSeats |-> ResetWrites(D(n), f[D(n)])[1 + R(n)]]
  BY DEF ResetAll
<1> HIDE DEF D, R
<1>4. ASSUME NEW n \in 1 .. 4 * NumSeats
      PROVE  ws[n] = IF R(n) = 0 THEN Write(D(n), "operator_process", 0)
                     ELSE IF R(n) = 1 THEN Write(D(n), "operator_status", "FREE")
                     ELSE IF R(n) = 2 THEN Write(D(n), "user_status", "FREE")
                     ELSE Write(D(n), "service_id", f[D(n)])
  BY <1>1, <1>3 DEF ResetWrites
<1>5. ASSUME NEW n \in 1 .. 4 * NumSeats
      PROVE  ws[n] \in AnyWrite /\ ws[n].value \in Values(ws[n].field) /\ ws[n].seat = D(n)
  <2>1. \A i \in Seats, g \in Fields : \A v \in Values(g) :
           LET w == Write(i, g, v)
           IN  w \in AnyWrite /\ w.value = v /\ w.field = g /\ w.seat = i
    BY DEF Write, AnyWrite, Values
  <2>2. /\ 0 \in Values("operator_process") /\ "FREE" \in Values("operator_status")
        /\ "FREE" \in Values("user_status") /\ f[D(n)] \in Values("service_id")
    BY <1>1 DEF Values
  <2>3. {"operator_process", "operator_status", "user_status", "service_id"} \subseteq Fields
    BY DEF Fields
  <2> HIDE DEF Write, Values, Fields
  <2> QED
    BY <1>1, <1>4, <2>1, <2>2, <2>3
<1>6. ws \in Seq(AnyWrite) /\ Len(ws) = 4 * NumSeats
  <2>1. 4 * NumSeats \in Nat
    BY Bounds
  <2> QED
    BY <2>1, <1>3, <1>5
<1>7. ASSUME NEW m \in 1 .. Len(ws), NEW n \in 1 .. Len(ws),
             ws[m].seat = ws[n].seat, ws[m].field = ws[n].field
      PROVE  m = n
  <2>1. D(m) = D(n)
    BY <1>5, <1>6, <1>7
  <2>2. R(m) = R(n)
    BY <1>1, <1>4, <1>6, <1>7 DEF Write
  <2> QED
    BY <2>1, <2>2, <1>1, <1>6
<1>8. FreedFirst(seats, ws)
  <2> SUFFICES ASSUME NEW n \in 1 .. Len(ws), ws[n].field = "service_id"
               PROVE  \E m \in 1 .. (n - 1) : Status(ws, m, ws[n].seat) /\ ws[m].value = "FREE"
    BY DEF FreedFirst
  <2> DEFINE m == 4 * D(n) + 1 + 1
  <2>1. R(n) = 3 /\ n = 4 * D(n) + 3 + 1 /\ D(n) \in Seats
    BY <1>1, <1>4, <1>6 DEF Write
  <2>2. m \in 1 .. 4 * NumSeats /\ D(m) = D(n) /\ R(m) = 1
    BY <2>1, <1>2
  <2>3. m \in 1 .. (n - 1)
    BY <2>1, Bounds
  <2>4. ws[m] = Write(D(n), "operator_status", "FREE") /\ ws[n].seat = D(n)
    BY <2>2, <1>4, <1>5, <1>6
  <2> HIDE DEF m
  <2> QED
    BY <2>3, <2>4 DEF Status, Write
<1>9. ASSUME NEW i \in Seats
      PROVE  /\ \E n \in 1 .. Len(ws) : ws[n] = Write(i, "operator_process", 0)
             /\ \E n \in 1 .. Len(ws) : ws[n] = Write(i, "operator_status", "FREE")
             /\ \E n \in 1 .. Len(ws) : ws[n] = Write(i, "user_status", "FREE")
             /\ \E n \in 1 .. Len(ws) : ws[n] = Write(i, "service_id", f[i])
  <2>1. \A r \in {0, 1, 2, 3} : \E n \in 1 .. Len(ws) : D(n) = i /\ R(n) = r
    BY <1>2, <1>6
  <2> QED
    BY <2>1, <1>4, <1>6
<1> QED
  BY <1>5, <1>6, <1>7, <1>8, <1>9 DEF Proper
-----------------------------------------------------------------------------
LEMMA InvInit == Init => Inv
<1> SUFFICES ASSUME Init PROVE Inv
  OBVIOUS
<1> USE DEF Init
<1>1. Types
  <2>1. seats \in [Seats -> Seat]
    BY Bounds DEF Seat
  <2>2. pc \in [Processes -> Labels] /\ at \in [Processes -> 0 .. NumSeats]
    BY Bounds DEF Labels
  <2>3. /\ \A o \in Operators : pc[o] \in OpLabels
        /\ \A u \in Users : pc[u] \in UtLabels
    BY Kinds DEF OpLabels, UtLabels
  <2>4. opService \in [Operators -> Services] /\ utService \in [Users -> Services]
    BY Bounds
  <2> QED
    BY <2>1, <2>2, <2>3, <2>4 DEF Types
<1>2. WriteInv /\ ServiceInv
  BY NoWrite DEF WriteInv, ServiceInv, Holders
<1>3. SearchInv
  <2>1. ASSUME NEW p \in Processes PROVE ProcInv(p)
    BY Bounds DEF ProcInv, Searching
  <2>2. ASSUME NEW o \in Operators PROVE OpInv(o)
    BY Kinds DEF OpInv
  <2>3. ASSUME NEW u \in Users PROVE UtInv(u)
    BY Kinds DEF UtInv
  <2> QED
    BY <2>1, <2>2, <2>3 DEF SearchInv
<1> QED
  BY <1>1, <1>2, <1>3 DEF Inv
-----------------------------------------------------------------------------
\* What p has decided to write is all there is to be written.
LEMMA Decided ==
    ASSUME Types, WriteInv, ServiceInv, NEW p \in Holders, lock \in {0, p}, writes[p] = << >>,
           NEW ws, Proper(ws), FreedFirst(seats, ws),
           lock' = p, writes' = [writes EXCEPT ![p] = ws], UNCHANGED seats,
           ~Searching(p)'
    PROVE  WriteInv' /\ ServiceInv'
<1>1. \A q \in Holders : writes'[q] = IF q = p THEN ws ELSE writes[q]
  BY DEF WriteInv
<1>2. \A q \in Holders \ {p} : writes[q] = << >>
  BY Kinds DEF WriteInv
<1>3. WriteInv'
  BY <1>1, <1>2, NoWrite DEF WriteInv
<1> QED
  BY <1>1, <1>2, <1>3, NoWrite DEF ServiceInv

\* A step of p after which nothing remains to be written.
LEMMA Idle ==
    ASSUME Types, WriteInv, ServiceInv, NEW p \in Holders, lock \in {0, p}, writes[p] = << >>,
           UNCHANGED <<seats, writes>>
    PROVE  WriteInv' /\ ServiceInv'
<1>1. \A q \in Holders : writes[q] = << >>
  BY Kinds DEF WriteInv
<1>2. WriteInv'
  BY <1>1 DEF WriteInv
<1> QED
  BY <1>1, <1>2, NoWrite DEF ServiceInv

\* A step of p without the lock.
LEMMA Aside ==
    ASSUME Types, WriteInv, ServiceInv, NEW p \in Processes, lock # p,
           UNCHANGED <<seats, lock, writes>>, \A q \in Processes \ {p} : pc'[q] = pc[q]
    PROVE  WriteInv' /\ ServiceInv'
<1>1. writes[p] = << >>
  BY Kinds DEF WriteInv
<1>2. ASSUME NEW q \in Holders, writes'[q] # << >> PROVE lock' = q /\ ~Searching(q)'
  <2>1. q # p /\ lock = q /\ ~Searching(q)
    BY <1>1, <1>2 DEF WriteInv
  <2> QED
    BY <2>1, Kinds DEF Searching, Holders
<1>3. WriteInv'
  BY <1>2 DEF WriteInv
<1> QED
  BY <1>3 DEF ServiceInv

\* What the others know stays true through a step of p that writes nothing.
LEMMA Others ==
    ASSUME Inv, Watch, NEW p \in Processes, lock' = lock \/ lock = 0,
           UNCHANGED <<seats, opService>>,
           \A q \in Processes \ {p} : pc'[q] = pc[q] /\ at'[q] = at[q] /\ place'[q] = place[q],
           \A u \in Users \ {p} : utService'[u] = utService[u] /\ valid_seats'[u] = valid_seats[u]
    PROVE  /\ \A q \in Processes \ {p} : ProcInv(q)'
           /\ \A o \in Operators \ {p} : OpInv(o)'
           /\ \A u \in Users \ {p} : UtInv(u)'
<1> USE DEF Inv, SearchInv
<1>1. ASSUME NEW q \in Processes \ {p} PROVE ProcInv(q)'
  <2>1. ProcInv(q)
    OBVIOUS
  <2> QED
    BY <2>1, Kinds DEF ProcInv, Searching
<1>2. ASSUME NEW o \in Operators \ {p} PROVE OpInv(o)'
  <2>1. OpInv(o) /\ o \in Processes
    BY Kinds
  <2>2. pc'[o] = "service" /\ suited[o] => suited'[o]
    BY DEF Watch
  <2> QED
    BY <2>1, <2>2 DEF OpInv, Suits
<1>3. ASSUME NEW u \in Users \ {p} PROVE UtInv(u)'
  <2>1. UtInv(u) /\ u \in Processes
    BY Kinds
  <2> QED
    BY <2>1 DEF UtInv, Valid
<1> QED
  BY <1>1, <1>2, <1>3
-----------------------------------------------------------------------------
\* A write is made.  Nobody searches under the lock meanwhile; an operator that tests
\* the counter without it either saw the service already or finds the counter free.
LEMMA MakeStep == ASSUME Inv, Watch, NEW p \in Holders, MakeWrite(p) PROVE Inv'
<1> DEFINE ws == writes[p]
           w == writes[p][1]
<1> USE DEF Inv
<1>0. /\ lock = p /\ ws # << >> /\ Proper(ws) /\ FreedFirst(seats, ws)
      /\ UNCHANGED <<lock, pc, at, opService, utService, valid_seats, place>>
  BY DEF MakeWrite, WriteInv, ServiceInv, locals
<1>1. /\ ws \in Seq(AnyWrite) /\ Len(ws) \in Nat /\ Len(ws) >= 1
      /\ Tail(ws) \in Seq(AnyWrite) /\ Len(Tail(ws)) = Len(ws) - 1 /\ Head(ws) = w
      /\ \A n \in 1 .. Len(Tail(ws)) : Tail(ws)[n] = ws[n + 1]
  BY <1>0, TailFact DEF Proper
<1>2. /\ w \in AnyWrite /\ w.value \in Values(w.field) /\ w.seat \in Seats /\ w.field \in Fields
  <2>1. w \in AnyWrite
    BY <1>1
  <2>2. w.value \in Values(w.field)
    BY <1>0, <1>1 DEF Proper
  <2> QED
    BY <2>1, <2>2 DEF AnyWrite
<1>3. seats' = Written(seats, w) /\ writes' = [writes EXCEPT ![p] = Tail(ws)]
  BY <1>0, <1>1 DEF MakeWrite, Decides
<1>4. /\ seats' \in [Seats -> Seat]
      /\ \A i \in Seats, f \in Fields :
            seats'[i][f] = IF i = w.seat /\ f = w.field THEN w.value ELSE seats[i][f]
  BY <1>2, <1>3, WrittenFact DEF Types
<1>5. \A q \in Processes : ~Searching(q)
  <2>1. ~Searching(p)
    BY <1>0 DEF WriteInv
  <2> QED
    BY <2>1, <1>0 DEF SearchInv, ProcInv
<1> HIDE DEF ws, w
<1>6. Types'
  <2>1. suited' \in [Operators -> BOOLEAN]
    BY DEF Watch
  <2> QED
    BY <2>1, <1>0, <1>4 DEF Types
<1>7. \A q \in Holders : writes'[q] = IF q = p THEN Tail(ws) ELSE << >>
  BY <1>0, <1>3, Kinds DEF WriteInv
<1>8. WriteInv'
  <2>1. Proper(Tail(ws))
    BY <1>0, ProperTail
  <2>2. ~Searching(p)'
    BY <1>0, <1>5, Kinds DEF Searching, Holders
  <2> QED
    BY <2>1, <2>2, <1>0, <1>3, <1>7, NoWrite DEF WriteInv
<1>9. ServiceInv'
  <2>1. FreedFirst(seats', Tail(ws))
    <3> SUFFICES ASSUME NEW n \in 1 .. Len(Tail(ws)), ws[n + 1].field = "service_id"
                 PROVE  LET i == ws[n + 1].seat
                        IN  \/ \E m \in 1 .. (n - 1) :
                                  Status(Tail(ws), m, i) /\ Tail(ws)[m].value = "FREE"
                            \/ /\ seats'[i].operator_status = "FREE"
                               /\ \A m \in 1 .. Len(Tail(ws)) : ~Status(Tail(ws), m, i)
      BY <1>1 DEF FreedFirst
    <3> DEFINE i == ws[n + 1].seat
    <3>1. n + 1 \in 1 .. Len(ws) /\ i \in Seats
      <4>1. n + 1 \in 1 .. Len(ws) /\ ws[n + 1] \in AnyWrite
        BY <1>1
      <4> QED
        BY <4>1 DEF AnyWrite
    <3>2. CASE \E m \in 2 .. n : Status(ws, m, i) /\ ws[m].value = "FREE"
      <4>1. PICK m \in 2 .. n : Status(ws, m, i) /\ ws[m].value = "FREE"
        BY <3>2
      <4>2. m - 1 \in 1 .. (n - 1) /\ m - 1 \in 1 .. Len(Tail(ws)) /\ Tail(ws)[m - 1] = ws[m]
        BY <4>1, <1>1
      <4> QED
        BY <4>1, <4>2 DEF Status
    <3>3. CASE Status(ws, 1, i) /\ ws[1].value = "FREE"
      <4>1. seats'[i].operator_status = "FREE"
        BY <3>3, <3>1, <1>4 DEF Status, w, ws, Fields
      <4>2. \A m \in 2 .. Len(ws) : ~Status(ws, m, i)
        BY <3>3, <1>0, <1>1 DEF Status, Proper
      <4>3. \A m \in 1 .. Len(Tail(ws)) : ~Status(Tail(ws), m, i)
        BY <4>2, <1>1 DEF Status
      <4> QED
        BY <4>1, <4>3
    <3>4. CASE /\ seats[i].operator_status = "FREE"
               /\ \A m \in 1 .. Len(ws) : ~Status(ws, m, i)
      <4>1. seats'[i].operator_status = "FREE"
        BY <3>4, <3>1, <1>1, <1>4 DEF Status, w, Fields
      <4>2. \A m \in 1 .. Len(Tail(ws)) : ~Status(Tail(ws), m, i)
        BY <3>4, <1>1 DEF Status
      <4> QED
        BY <4>1, <4>2
    <3>5. \/ \E m \in 1 .. n : Status(ws, m, i) /\ ws[m].value = "FREE"
          \/ /\ seats[i].operator_status = "FREE"
             /\ \A m \in 1 .. Len(ws) : ~Status(ws, m, i)
      BY <3>1, <1>0, <1>1 DEF FreedFirst
    <3>6. \A m \in 1 .. n : m = 1 \/ m \in 2 .. n
      BY <1>1
    <3> QED
      BY <3>2, <3>3, <3>4, <3>5, <3>6
  <2>2. FreedFirst(seats', << >>)
    BY DEF FreedFirst
  <2> QED
    BY <2>1, <2>2, <1>7 DEF ServiceInv
<1>10. SearchInv'
  <2>1. ASSUME NEW q \in Processes PROVE ProcInv(q)'
    BY <1>0, <1>5 DEF SearchInv, ProcInv, Searching
  <2>2. ASSUME NEW o \in Operators PROVE OpInv(o)'
    <3>1. OpInv(o) /\ pc'[o] = pc[o] /\ at'[o] = at[o] /\ pc[o] # "seek"
      BY <1>0, <1>5, Kinds DEF SearchInv, Searching
    <3>2. ASSUME pc[o] = "service", seats'[at[o]].service_id = opService[o]
          PROVE  suited'[o]
      <4>1. at[o] \in Seats
        BY <3>1, <3>2 DEF OpInv
      <4>2. CASE seats[at[o]].service_id = opService[o]
        BY <4>2, <3>1, <3>2 DEF OpInv, Watch
      <4>3. CASE seats[at[o]].service_id # opService[o]
        <5>1. w.seat = at[o] /\ w.field = "service_id"
          BY <4>1, <4>3, <3>2, <1>4 DEF Fields
        <5>2. seats[at[o]].operator_status = "FREE"
          BY <5>1, <1>0, <1>1 DEF FreedFirst, w
        <5>3. seats'[at[o]].operator_status = "FREE"
          BY <5>1, <5>2, <4>1, <1>4 DEF Fields
        <5> QED
          BY <5>3, <3>1, <3>2, <1>0 DEF Watch, Suits
      <4> QED
        BY <4>2, <4>3
    <3> QED
      BY <3>1, <3>2, <1>0 DEF OpInv
  <2>3. ASSUME NEW u \in Users PROVE UtInv(u)'
    BY <1>0, <1>5, Kinds DEF SearchInv, UtInv, Searching
  <2> QED
    BY <2>1, <2>2, <2>3 DEF SearchInv
<1> QED
  BY <1>6, <1>8, <1>9, <1>10

LEMMA UnlockStep == ASSUME Inv, Watch, NEW p \in Holders, Unlock(p) PROVE Inv'
<1> USE DEF Inv
<1>0. /\ lock = p /\ writes[p] = << >> /\ ~Searching(p) /\ lock' = 0
      /\ UNCHANGED <<seats, writes, pc, at, opService, utService, valid_seats, place>>
  BY DEF Unlock, locals
<1>1. \A q \in Processes : ~Searching(q)
  BY <1>0 DEF SearchInv, ProcInv
<1>2. Types'
  BY <1>0 DEF Types, Watch
<1>3. WriteInv' /\ ServiceInv'
  BY <1>0, Idle
<1>4. SearchInv'
  <2>1. ASSUME NEW q \in Processes PROVE ProcInv(q)'
    BY <1>0, <1>1 DEF SearchInv, ProcInv, Searching
  <2>2. ASSUME NEW o \in Operators PROVE OpInv(o)'
    BY <1>0, <1>1, Kinds DEF SearchInv, OpInv, Searching, Watch
  <2>3. ASSUME NEW u \in Users PROVE UtInv(u)'
    BY <1>0, <1>1, Kinds DEF SearchInv, UtInv, Searching
  <2> QED
    BY <2>1, <2>2, <2>3 DEF SearchInv
<1> QED
  BY <1>2, <1>3, <1>4

\* Midnight.
LEMMA DirStep == ASSUME Inv, Watch, DirNewDay PROVE Inv'
<1> USE DEF Inv
<1>0. /\ lock = 0 /\ lock' = Director
      /\ UNCHANGED <<seats, pc, at, opService, utService, valid_seats, place>>
  BY DEF DirNewDay, Lock, locals
<1>1. PICK f \in [Seats -> Services] : writes' = [writes EXCEPT ![Director] = ResetAll(f)]
  BY DEF DirNewDay, Decides
<1>2. \A q \in Processes : ~Searching(q)
  BY <1>0, Kinds DEF SearchInv, ProcInv
<1>3. Types'
  BY <1>0, Kinds DEF Types, Watch
<1>4. WriteInv' /\ ServiceInv'
  <2> DEFINE ws == ResetAll(f)
  <2>1. Proper(ws) /\ FreedFirst(seats, ws)
    BY ResetFact
  <2>2. writes[Director] = << >> /\ ~Searching(Director)'
    BY <1>0, Kinds DEF WriteInv, Searching
  <2> HIDE DEF ws
  <2>3. writes' = [writes EXCEPT ![Director] = ws]
    BY <1>1 DEF ws
  <2> QED
    BY <2>1, <2>2, <2>3, <1>0, Decided, Kinds
<1>5. SearchInv'
  <2>1. ASSUME NEW q \in Processes PROVE ProcInv(q)'
    BY <1>0, <1>2 DEF SearchInv, ProcInv, Searching
  <2>2. ASSUME NEW o \in Operators PROVE OpInv(o)'
    BY <1>0, <1>2, Kinds DEF SearchInv, OpInv, Searching, Watch
  <2>3. ASSUME NEW u \in Users PROVE UtInv(u)'
    BY <1>0, <1>2, Kinds DEF SearchInv, UtInv, Searching
  <2> QED
    BY <2>1, <2>2, <2>3 DEF SearchInv
<1> QED
  BY <1>3, <1>4, <1>5
-----------------------------------------------------------------------------
\* A step of p is judged by what becomes of p.
LEMMA ProcessStep ==
    ASSUME Inv, Watch, NEW p \in Processes, lock' = lock \/ lock = 0,
           UNCHANGED <<seats, opService>>,
           \A q \in Processes \ {p} : pc'[q] = pc[q] /\ at'[q] = at[q] /\ place'[q] = place[q],
           \A u \in Users \ {p} : utService'[u] = utService[u] /\ valid_seats'[u] = valid_seats[u],
           Types', WriteInv', ServiceInv', ProcInv(p)',
           p \in Operators => OpInv(p)', p \in Users => UtInv(p)'
    PROVE  Inv'
<1>1. /\ \A q \in Processes \ {p} : ProcInv(q)'
      /\ \A o \in Operators \ {p} : OpInv(o)'
      /\ \A u \in Users \ {p} : UtInv(u)'
  BY Others
<1> QED
  BY <1>1 DEF Inv, SearchInv

LEMMA OpStep == ASSUME Inv, Watch, NEW o \in Operators, OpNext(o) PROVE Inv'
<1> USE DEF Inv
<1>0. /\ o \in Processes /\ o \in Holders /\ o \notin Users /\ o # 0 /\ o # Director
      /\ ProcInv(o) /\ OpInv(o) /\ pc[o] \in OpLabels /\ at[o] \in 0 .. NumSeats
      /\ UNCHANGED <<seats, opService, utService, valid_seats>>
  BY Kinds DEF SearchInv, Types, OpNext, OpSeek, OpTest, OpWaits, OpReadStatus, OpReadService,
     OpTake, OpLeave
<1>1. CASE OpSeek(o)
  <2>1. /\ pc[o] = "out" /\ lock = 0 /\ lock' = o /\ pc' = [pc EXCEPT ![o] = "seek"]
        /\ UNCHANGED <<writes, at, place>>
    BY <1>1 DEF OpSeek, At, Lock, Goto
  <2>2. Types'
    BY <1>0, <2>1 DEF Types, Watch, OpLabels, Labels
  <2>3. writes[o] = << >>
    BY <1>0, <2>1 DEF WriteInv
  <2>4. WriteInv' /\ ServiceInv'
    BY <1>0, <2>1, <2>3, Idle
  <2>5. ProcInv(o)' /\ OpInv(o)'
    BY <1>0, <2>1, Bounds DEF ProcInv, OpInv, Searching, Types
  <2> QED
    BY <1>0, <2>1, <2>2, <2>4, <2>5, ProcessStep DEF Types
<1>2. CASE OpTest(o) /\ at[o] \in Seats /\ Suits(o, at[o]) /\ pc'[o] = "duty"
  <2>1. /\ pc[o] = "seek" /\ lock = o /\ lock' = lock /\ pc' = [pc EXCEPT ![o] = "duty"]
        /\ place' = [place EXCEPT ![o] = at[o]] /\ at' = [at EXCEPT ![o] = 0]
        /\ writes' = [writes EXCEPT ![o] = TakeWrites(o, at[o])]
    BY <1>0, <1>2 DEF OpTest, Inside, Decides, Goto, SearchOver, Types
  <2>2. Types'
    BY <1>0, <1>2, <2>1, Bounds DEF Types, Watch, OpLabels, Labels
  <2>3. writes[o] = << >> /\ ~Searching(o)'
    BY <1>0, <2>1 DEF WriteInv, Searching, Types
  <2>4. Proper(TakeWrites(o, at[o])) /\ FreedFirst(seats, TakeWrites(o, at[o]))
    BY <1>2, TwoWrites DEF TakeWrites, Values, Fields
  <2>5. WriteInv' /\ ServiceInv'
    <3> HIDE DEF TakeWrites
    <3> QED
      BY <1>0, <2>1, <2>3, <2>4, Decided
  <2>6. ProcInv(o)' /\ OpInv(o)'
    BY <1>0, <1>2, <2>1, Bounds DEF ProcInv, OpInv, Searching, Types
  <2> QED
    BY <1>0, <2>1, <2>2, <2>5, <2>6, ProcessStep DEF Types
<1>3. CASE OpTest(o) /\ at[o] \in Seats /\ ~Suits(o, at[o])
  <2>1. /\ pc[o] = "seek" /\ lock = o /\ lock' = lock /\ at' = [at EXCEPT ![o] = @ + 1]
        /\ UNCHANGED <<writes, pc, place>>
    BY <1>0, <1>3 DEF OpTest, Inside
  <2>2. Types'
    BY <1>0, <1>3, <2>1, Bounds DEF Types, Watch
  <2>3. writes[o] = << >>
    BY <1>0, <2>1 DEF WriteInv, Searching
  <2>4. WriteInv' /\ ServiceInv'
    BY <1>0, <2>1, <2>3, Idle
  <2>5. ProcInv(o)' /\ OpInv(o)'
    <3>1. at'[o] = at[o] + 1 /\ at[o] \in Nat
      BY <1>0, <2>1 DEF Types
    <3>2. \A i \in Seats : i < at'[o] => i < at[o] \/ i = at[o]
      BY <3>1, Bounds
    <3> QED
      BY <1>0, <1>3, <2>1, <3>1, <3>2 DEF ProcInv, OpInv, Searching, Suits
  <2> QED
    BY <1>0, <2>1, <2>2, <2>4, <2>5, ProcessStep DEF Types
<1>4. CASE OpTest(o) /\ at[o] \notin Seats
  <2>1. /\ pc[o] = "seek" /\ lock = o /\ lock' = lock /\ at' = [at EXCEPT ![o] = 0]
        /\ pc' = [pc EXCEPT ![o] = "wait"] /\ UNCHANGED <<writes, place>>
    BY <1>0, <1>4 DEF OpTest, Inside, SearchOver, Goto
  <2>2. Types'
    BY <1>0, <1>4, <2>1, Bounds DEF Types, Watch, OpLabels, Labels
  <2>3. writes[o] = << >>
    BY <1>0, <2>1 DEF WriteInv, Searching
  <2>4. WriteInv' /\ ServiceInv'
    BY <1>0, <2>1, <2>3, Idle
  <2>5. ProcInv(o)' /\ OpInv(o)'
    BY <1>0, <2>1, Bounds DEF ProcInv, OpInv, Searching, Types
  <2> QED
    BY <1>0, <2>1, <2>2, <2>4, <2>5, ProcessStep DEF Types
<1>5. CASE OpWaits(o) \/ OpReadStatus(o) \/ OpReadService(o)
  <2>1. /\ lock # o /\ lock' = lock /\ UNCHANGED <<writes, place>>
        /\ pc[o] \in {"wait", "status", "service"}
        /\ \E l \in {"status", "service", "found", "wait", "out"} : pc' = [pc EXCEPT ![o] = l]
        /\ \/ at' = at
           \/ at' = [at EXCEPT ![o] = @ + 1] /\ at[o] + 1 \in Seats
           \/ at' = [at EXCEPT ![o] = 0]
        /\ \A q \in Processes \ {o} : pc'[q] = pc[q] /\ at'[q] = at[q]
    <3>1. /\ lock # o /\ lock' = lock /\ UNCHANGED <<writes, place>>
          /\ pc[o] \in {"wait", "status", "service"}
      BY <1>5 DEF OpWaits, OpReadStatus, OpReadService, At
    <3>2. \/ pc' = [pc EXCEPT ![o] = "status"] \/ pc' = [pc EXCEPT ![o] = "service"]
          \/ pc' = [pc EXCEPT ![o] = "found"] \/ pc' = [pc EXCEPT ![o] = "wait"]
          \/ pc' = [pc EXCEPT ![o] = "out"]
      BY <1>5 DEF OpWaits, OpReadStatus, OpReadService, OpNextSeat, Goto
    <3>3. \/ at' = at
          \/ at' = [at EXCEPT ![o] = @ + 1] /\ at[o] + 1 \in Seats
          \/ at' = [at EXCEPT ![o] = 0]
      <4>1. OpWaits(o) => at' = at
        BY DEF OpWaits
      <4>2. OpReadStatus(o) \/ OpReadService(o) => at' = at \/ OpNextSeat(o)
        BY DEF OpReadStatus, OpReadService
      <4>3. OpNextSeat(o) => \/ at' = [at EXCEPT ![o] = @ + 1] /\ at[o] + 1 \in Seats
                            \/ at' = [at EXCEPT ![o] = 0]
        BY DEF OpNextSeat, SearchOver
      <4> QED
        BY <1>5, <4>1, <4>2, <4>3
    <3>4. \A q \in Processes \ {o} : pc'[q] = pc[q] /\ at'[q] = at[q]
      BY <3>2, <3>3 DEF Types
    <3> QED
      BY <3>1, <3>2, <3>3, <3>4
  <2>2. Types'
    <3>1. at' \in [Processes -> 0 .. NumSeats]
      <4>1. at[o] + 1 \in Seats => at[o] + 1 \in 0 .. NumSeats
        BY Bounds DEF Seats
      <4>2. 0 \in 0 .. NumSeats
        BY Bounds
      <4> QED
        BY <2>1, <4>1, <4>2 DEF Types
    <3>2. /\ pc' \in [Processes -> Labels]
          /\ \A q \in Operators : pc'[q] \in OpLabels
          /\ \A q \in Users : pc'[q] \in UtLabels
      BY <1>0, <2>1, Kinds DEF Types, OpLabels, Labels
    <3> QED
      BY <1>0, <2>1, <3>1, <3>2 DEF Types, Watch
  <2>4. WriteInv' /\ ServiceInv'
    BY <1>0, <2>1, Aside
  <2>5. ProcInv(o)'
    <3>1. pc'[o] \in {"status", "service", "found"} \/ at'[o] = 0
      BY <1>0, <1>5, <2>1, Bounds DEF OpWaits, OpReadStatus, OpReadService, OpNextSeat, At, Goto,
         SearchOver, Types, ProcInv, Searching
    <3> QED
      BY <1>0, <2>1, <3>1, Bounds DEF ProcInv, Searching, Types
  <2>6. OpInv(o)'
    <3>1. CASE OpWaits(o)
      BY <1>0, <3>1, Bounds DEF OpWaits, At, Goto, OpInv, ProcInv, Searching, Types
    <3>2. CASE OpReadStatus(o)
      <4>1. pc[o] = "status" /\ at[o] \in Seats
        BY <1>0, <3>2 DEF OpReadStatus, At, OpInv
      <4>2. CASE /\ seats[at[o]].operator_status = "FREE" /\ pc' = [pc EXCEPT ![o] = "service"]
                 /\ at' = at
        BY <1>0, <4>1, <4>2 DEF OpInv, Watch, Suits, Types
      <4>3. CASE OpNextSeat(o)
        BY <1>0, <4>1, <4>3 DEF OpNextSeat, OpInv, Goto, SearchOver, Types
      <4> QED
        BY <3>2, <4>2, <4>3 DEF OpReadStatus, Goto
    <3>3. CASE OpReadService(o)
      <4>1. pc[o] = "service" /\ at[o] \in Seats
        BY <1>0, <3>3 DEF OpReadService, At, OpInv
      <4>2. CASE pc' = [pc EXCEPT ![o] = "found"] /\ at' = at
        BY <1>0, <4>1, <4>2 DEF OpInv, Types
      <4>3. CASE OpNextSeat(o)
        BY <1>0, <4>1, <4>3 DEF OpNextSeat, OpInv, Goto, SearchOver, Types
      <4> QED
        BY <3>3, <4>2, <4>3 DEF OpReadService, Goto
    <3> QED
      BY <1>5, <3>1, <3>2, <3>3
  <2> QED
    BY <1>0, <2>1, <2>2, <2>4, <2>5, <2>6, ProcessStep
<1>6. CASE OpTake(o)
  <2>1. /\ pc[o] = "found" /\ lock = 0 /\ lock' = o /\ pc' = [pc EXCEPT ![o] = "duty"]
        /\ place' = [place EXCEPT ![o] = at[o]] /\ at' = [at EXCEPT ![o] = 0]
        /\ writes' = [writes EXCEPT ![o] = TakeWrites(o, at[o])]
    BY <1>6 DEF OpTake, At, Lock, Decides, Goto, SearchOver
  <2>2. at[o] \in Seats
    BY <1>0, <2>1 DEF OpInv
  <2>3. Types'
    BY <1>0, <2>1, <2>2, Bounds DEF Types, Watch, OpLabels, Labels
  <2>4. writes[o] = << >> /\ ~Searching(o)'
    BY <1>0, <2>1 DEF WriteInv, Searching, Types
  <2>5. Proper(TakeWrites(o, at[o])) /\ FreedFirst(seats, TakeWrites(o, at[o]))
    BY <2>2, TwoWrites DEF TakeWrites, Values, Fields
  <2>6. WriteInv' /\ ServiceInv'
    <3> HIDE DEF TakeWrites
    <3> QED
      BY <1>0, <2>1, <2>4, <2>5, Decided
  <2>7. ProcInv(o)' /\ OpInv(o)'
    BY <1>0, <2>1, <2>2, Bounds DEF ProcInv, OpInv, Searching, Types
  <2> QED
    BY <1>0, <2>1, <2>3, <2>6, <2>7, ProcessStep DEF Types
<1>7. CASE OpLeave(o)
  <2>1. /\ pc[o] = "duty" /\ lock = 0 /\ lock' = o /\ pc' = [pc EXCEPT ![o] = "out"]
        /\ place' = [place EXCEPT ![o] = NoSeat] /\ at' = at
        /\ writes' = [writes EXCEPT ![o] = LeaveWrites(place[o])]
    BY <1>7 DEF OpLeave, At, Lock, Decides, Goto
  <2>2. place[o] \in Seats
    BY <1>0, <2>1 DEF ProcInv
  <2>3. Types'
    BY <1>0, <2>1, <2>2, Bounds DEF Types, Watch, OpLabels, Labels
  <2>4. writes[o] = << >> /\ ~Searching(o)'
    BY <1>0, <2>1 DEF WriteInv, Searching, Types
  <2>5. Proper(LeaveWrites(place[o])) /\ FreedFirst(seats, LeaveWrites(place[o]))
    BY <2>2, TwoWrites DEF LeaveWrites, Values, Fields
  <2>6. WriteInv' /\ ServiceInv'
    <3> HIDE DEF LeaveWrites
    <3> QED
      BY <1>0, <2>1, <2>4, <2>5, Decided
  <2>7. ProcInv(o)' /\ OpInv(o)'
    BY <1>0, <2>1, <2>2, Bounds DEF ProcInv, OpInv, Searching, Types
  <2> QED
    BY <1>0, <2>1, <2>3, <2>6, <2>7, ProcessStep DEF Types
<1>8. OpTest(o) => \/ at[o] \in Seats /\ Suits(o, at[o]) /\ pc'[o] = "duty"
                   \/ at[o] \in Seats /\ ~Suits(o, at[o])
                   \/ at[o] \notin Seats
  BY <1>0 DEF OpTest, Goto, Types
<1> QED
  BY <1>1, <1>2, <1>3, <1>4, <1>5, <1>6, <1>7, <1>8 DEF OpNext

LEMMA UtStep == ASSUME Inv, Watch, NEW u \in Users, UtNext(u) PROVE Inv'
<1> USE DEF Inv
<1>0. /\ u \in Processes /\ u \in Holders /\ u \notin Operators /\ u # 0 /\ u # Director
      /\ ProcInv(u) /\ UtInv(u) /\ pc[u] \in UtLabels /\ at[u] \in 0 .. NumSeats
      /\ UNCHANGED <<seats, opService>>
  BY Kinds DEF SearchInv, Types, UtNext, UtLook, UtTest, UtAttempt, UtTry, UtLate, UtFree
<1>1. CASE UtLook(u)
  <2>1. /\ pc[u] = "idle" /\ lock = 0 /\ lock' = u /\ pc' = [pc EXCEPT ![u] = "look"]
        /\ \E s \in Wanted : utService' = [utService EXCEPT ![u] = s]
        /\ UNCHANGED <<writes, at, place, valid_seats>>
    BY <1>1 DEF UtLook, At, Lock, Goto
  <2>2. Types'
    BY <1>0, <2>1, Bounds DEF Types, Watch, UtLabels, Labels
  <2>3. writes[u] = << >>
    BY <1>0, <2>1 DEF WriteInv
  <2>4. WriteInv' /\ ServiceInv'
    BY <1>0, <2>1, <2>3, Idle
  <2>5. ProcInv(u)' /\ UtInv(u)'
    <3>1. at[u] = 0 /\ valid_seats[u] = {} /\ pc'[u] = "look"
      BY <1>0, <2>1 DEF ProcInv, UtInv, Searching, Types
    <3>2. {i \in Seats : i < 0 /\ Valid(u, i)'} = {}
      BY Bounds DEF Seats
    <3> QED
      BY <1>0, <2>1, <3>1, <3>2 DEF ProcInv, UtInv, Searching
  <2> QED
    BY <1>0, <2>1, <2>2, <2>4, <2>5, ProcessStep DEF Types
<1>2. CASE UtTest(u) /\ at[u] \in Seats
  <2>1. /\ pc[u] = "look" /\ lock = u /\ lock' = lock /\ at' = [at EXCEPT ![u] = @ + 1]
        /\ valid_seats' = [valid_seats EXCEPT ![u] =
                              IF Valid(u, at[u]) THEN @ \cup {at[u]} ELSE @]
        /\ UNCHANGED <<writes, pc, place, utService>>
    BY <1>0, <1>2 DEF UtTest, Inside
  <2>2. Types'
    BY <1>0, <1>2, <2>1, Bounds DEF Types, Watch
  <2>3. writes[u] = << >>
    BY <1>0, <2>1 DEF WriteInv, Searching
  <2>4. WriteInv' /\ ServiceInv'
    BY <1>0, <2>1, <2>3, Idle
  <2>5. ProcInv(u)' /\ UtInv(u)'
    <3>1. at'[u] = at[u] + 1 /\ at[u] \in Nat
      BY <1>0, <2>1 DEF Types
    <3>2. \A i \in Seats : i < at'[u] <=> i < at[u] \/ i = at[u]
      BY <3>1 DEF Seats
    <3>3. \A i \in Seats : Valid(u, i)' <=> Valid(u, i)
      BY <1>0, <2>1 DEF Valid
    <3>4. valid_seats'[u] = IF Valid(u, at[u]) THEN valid_seats[u] \cup {at[u]} ELSE valid_seats[u]
      BY <1>0, <2>1 DEF Types
    <3>5. valid_seats[u] = {i \in Seats : i < at[u] /\ Valid(u, i)}
      BY <1>0, <2>1 DEF UtInv
    <3>6. valid_seats'[u] = {i \in Seats : i < at'[u] /\ Valid(u, i)'}
      BY <1>2, <3>2, <3>3, <3>4, <3>5
    <3> QED
      BY <1>0, <2>1, <3>6 DEF ProcInv, UtInv, Searching
  <2> QED
    BY <1>0, <2>1, <2>2, <2>4, <2>5, ProcessStep DEF Types
<1>3. CASE UtTest(u) /\ at[u] \notin Seats
  <2>1. /\ pc[u] = "look" /\ lock = u /\ lock' = lock /\ at' = [at EXCEPT ![u] = 0]
        /\ pc' = [pc EXCEPT ![u] = IF valid_seats[u] = {} THEN "idle" ELSE "listed"]
        /\ utService' = [utService EXCEPT ![u] = 0]
        /\ UNCHANGED <<writes, place, valid_seats>>
    BY <1>0, <1>3 DEF UtTest, Inside, SearchOver, Goto
  <2>2. Types'
    BY <1>0, <2>1, Bounds DEF Types, Watch, UtLabels, Labels
  <2>3. writes[u] = << >>
    BY <1>0, <2>1 DEF WriteInv, Searching
  <2>4. WriteInv' /\ ServiceInv'
    BY <1>0, <2>1, <2>3, Idle
  <2>5. ProcInv(u)' /\ UtInv(u)'
    BY <1>0, <2>1 DEF ProcInv, UtInv, Searching, Types
  <2> QED
    BY <1>0, <2>1, <2>2, <2>4, <2>5, ProcessStep DEF Types
<1>4. CASE UtAttempt(u)
  <2>1. /\ pc[u] = "listed" /\ lock = 0 /\ lock' = u /\ pc' = [pc EXCEPT ![u] = "attempt"]
        /\ UNCHANGED <<writes, at, place, valid_seats, utService>>
    BY <1>4 DEF UtAttempt, At, Lock, Goto
  <2>2. Types'
    BY <1>0, <2>1 DEF Types, Watch, UtLabels, Labels
  <2>3. writes[u] = << >>
    BY <1>0, <2>1 DEF WriteInv
  <2>4. WriteInv' /\ ServiceInv'
    BY <1>0, <2>1, <2>3, Idle
  <2>5. ProcInv(u)' /\ UtInv(u)'
    BY <1>0, <2>1, Bounds DEF ProcInv, UtInv, Searching, Types
  <2> QED
    BY <1>0, <2>1, <2>2, <2>4, <2>5, ProcessStep DEF Types
<1>5. CASE UtTry(u) /\ pc'[u] = "seated"
  <2>1. /\ pc[u] = "attempt" /\ lock = u /\ lock' = lock /\ pc' = [pc EXCEPT ![u] = "seated"]
        /\ at[u] \in valid_seats[u]
        /\ place' = [place EXCEPT ![u] = at[u]] /\ at' = [at EXCEPT ![u] = 0]
        /\ valid_seats' = [valid_seats EXCEPT ![u] = {}]
        /\ writes' = [writes EXCEPT ![u] = << Write(at[u], "user_status", "OCCUPIED") >>]
        /\ utService' = utService
    BY <1>0, <1>5 DEF UtTry, Inside, Decides, Goto, SearchOver, Types
  <2>2. at[u] \in Seats
    BY <2>1 DEF Types
  <2>3. Types'
    BY <1>0, <2>1, <2>2, Bounds DEF Types, Watch, UtLabels, Labels
  <2>4. writes[u] = << >> /\ ~Searching(u)'
    BY <1>0, <2>1 DEF WriteInv, Searching, Types
  <2> DEFINE ws == << Write(at[u], "user_status", "OCCUPIED") >>
  <2>5. Proper(ws) /\ FreedFirst(seats, ws)
    BY <2>2, OneWrite DEF Values, Fields
  <2>6. WriteInv' /\ ServiceInv'
    <3> HIDE DEF ws
    <3>1. writes' = [writes EXCEPT ![u] = ws]
      BY <2>1 DEF ws
    <3> QED
      BY <1>0, <2>1, <3>1, <2>4, <2>5, Decided
  <2>7. ProcInv(u)' /\ UtInv(u)'
    BY <1>0, <2>1, <2>2, Bounds DEF ProcInv, UtInv, Searching, Types
  <2> QED
    BY <1>0, <2>1, <2>3, <2>6, <2>7, ProcessStep DEF Types
<1>6. CASE UtTry(u) /\ pc'[u] = "attempt"
  <2>1. /\ pc[u] = "attempt" /\ lock = u /\ lock' = lock /\ at' = [at EXCEPT ![u] = @ + 1]
        /\ at[u] \in Seats /\ (at[u] \in valid_seats[u] => seats[at[u]].user_status # "FREE")
        /\ UNCHANGED <<writes, pc, place, valid_seats, utService>>
    BY <1>0, <1>6 DEF UtTry, Inside, Goto, Types
  <2>2. Types'
    BY <1>0, <2>1, Bounds DEF Types, Watch
  <2>3. writes[u] = << >>
    BY <1>0, <2>1 DEF WriteInv, Searching
  <2>4. WriteInv' /\ ServiceInv'
    BY <1>0, <2>1, <2>3, Idle
  <2>5. ProcInv(u)' /\ UtInv(u)'
    <3>1. at'[u] = at[u] + 1 /\ at[u] \in Nat /\ valid_seats[u] \subseteq Seats
      BY <1>0, <2>1 DEF Types
    <3>2. \A i \in valid_seats[u] : i < at'[u] => i < at[u] \/ i = at[u]
      BY <3>1 DEF Seats
    <3> QED
      BY <1>0, <2>1, <3>1, <3>2 DEF ProcInv, UtInv, Searching
  <2> QED
    BY <1>0, <2>1, <2>2, <2>4, <2>5, ProcessStep DEF Types
<1>7. CASE UtTry(u) /\ pc'[u] = "listed"
  <2>1. /\ pc[u] = "attempt" /\ lock = u /\ lock' = lock /\ at' = [at EXCEPT ![u] = 0]
        /\ pc' = [pc EXCEPT ![u] = "listed"]
        /\ UNCHANGED <<writes, place, valid_seats, utService>>
    BY <1>0, <1>7 DEF UtTry, Inside, Goto, SearchOver, Types
  <2>2. Types'
    BY <1>0, <2>1, Bounds DEF Types, Watch, UtLabels, Labels
  <2>3. writes[u] = << >>
    BY <1>0, <2>1 DEF WriteInv, Searching
  <2>4. WriteInv' /\ ServiceInv'
    BY <1>0, <2>1, <2>3, Idle
  <2>5. ProcInv(u)' /\ UtInv(u)'
    BY <1>0, <2>1 DEF ProcInv, UtInv, Searching, Types
  <2> QED
    BY <1>0, <2>1, <2>2, <2>4, <2>5, ProcessStep DEF Types
<1>8. CASE UtLate(u)
  <2>1. /\ pc[u] \in {"listed", "seated"} /\ lock # u /\ lock' = lock
        /\ pc' = [pc EXCEPT ![u] = "idle"]
        /\ valid_seats' = [valid_seats EXCEPT ![u] = {}]
        /\ place' = [place EXCEPT ![u] = NoSeat]
        /\ UNCHANGED <<writes, at, utService>>
    BY <1>8 DEF UtLate, At, Goto
  <2>2. Types'
    BY <1>0, <2>1, Bounds DEF Types, Watch, UtLabels, Labels
  <2>3. \A q \in Processes \ {u} : pc'[q] = pc[q]
    BY <2>1 DEF Types
  <2>4. WriteInv' /\ ServiceInv'
    BY <1>0, <2>1, <2>3, Aside
  <2>5. ProcInv(u)' /\ UtInv(u)'
    BY <1>0, <2>1, Bounds DEF ProcInv, UtInv, Searching, Types
  <2> QED
    BY <1>0, <2>1, <2>2, <2>4, <2>5, ProcessStep DEF Types
<1>9. CASE UtFree(u)
  <2>1. /\ pc[u] = "seated" /\ lock = 0 /\ lock' = u /\ pc' = [pc EXCEPT ![u] = "idle"]
        /\ place' = [place EXCEPT ![u] = NoSeat]
        /\ writes' = [writes EXCEPT ![u] = << Write(place[u], "user_status", "FREE") >>]
        /\ UNCHANGED <<at, utService, valid_seats>>
    BY <1>9 DEF UtFree, At, Lock, Decides, Goto
  <2>2. place[u] \in Seats
    BY <1>0, <2>1 DEF ProcInv
  <2>3. Types'
    BY <1>0, <2>1, <2>2, Bounds DEF Types, Watch, UtLabels, Labels
  <2>4. writes[u] = << >> /\ ~Searching(u)'
    BY <1>0, <2>1 DEF WriteInv, Searching, Types
  <2> DEFINE ws == << Write(place[u], "user_status", "FREE") >>
  <2>5. Proper(ws) /\ FreedFirst(seats, ws)
    BY <2>2, OneWrite DEF Values, Fields
  <2>6. WriteInv' /\ ServiceInv'
    <3> HIDE DEF ws
    <3>1. writes' = [writes EXCEPT ![u] = ws]
      BY <2>1 DEF ws
    <3> QED
      BY <1>0, <2>1, <3>1, <2>4, <2>5, Decided
  <2>7. ProcInv(u)' /\ UtInv(u)'
    BY <1>0, <2>1, <2>2, Bounds DEF ProcInv, UtInv, Searching, Types
  <2> QED
    BY <1>0, <2>1, <2>3, <2>6, <2>7, ProcessStep DEF Types
<1>10. UtTry(u) => pc'[u] \in {"seated", "attempt", "listed"}
  BY <1>0 DEF UtTry, Inside, Goto, Types
<1> QED
  BY <1>1, <1>2, <1>3, <1>4, <1>5, <1>6, <1>7, <1>8, <1>9, <1>10 DEF UtNext
-----------------------------------------------------------------------------
LEMMA InvNext == Inv /\ [Next]_vars => Inv'
<1> SUFFICES ASSUME Inv, [Next]_vars PROVE Inv'
  OBVIOUS
<1>1. ASSUME NEW p \in Processes \cup {Director}, MakeWrite(p) \/ Unlock(p), Watch PROVE Inv'
  BY <1>1, MakeStep, UnlockStep DEF Holders
<1>2. ASSUME NEW o \in Operators, OpNext(o), Watch PROVE Inv'
  BY <1>2, OpStep
<1>3. ASSUME NEW u \in Users, UtNext(u), Watch PROVE Inv'
  BY <1>3, UtStep
<1>4. ASSUME DirNewDay, Watch PROVE Inv'
  BY <1>4, DirStep
<1>5. CASE UNCHANGED vars
  <2>1. /\ UNCHANGED <<seats, lock, writes, pc, at, opService, utService, valid_seats, place>>
        /\ UNCHANGED suited
    BY <1>5 DEF vars, locals
  <2>2. Types'
    BY <2>1 DEF Inv, Types
  <2>3. WriteInv' /\ ServiceInv'
    BY <2>1 DEF Inv, WriteInv, ServiceInv, Searching
  <2>4. SearchInv'
    BY <2>1 DEF Inv, SearchInv, ProcInv, OpInv, UtInv, Searching, Suits, Valid
  <2> QED
    BY <2>2, <2>3, <2>4 DEF Inv
<1> QED
  BY <1>1, <1>2, <1>3, <1>4, <1>5 DEF Next

\* Every variable stays in its type; there is something to write only inside a critical
\* section, and nobody searches under the lock without holding it
\* (operatore.c:31-50, 236-258, utente.c:197-223, 307-309, direttore.c:167-176).
THEOREM TypesCorrect == Spec => []TypeOK
<1>1. Inv => TypeOK
  <2> SUFFICES ASSUME Inv PROVE TypeOK
    OBVIOUS
  <2>1. ASSUME NEW p \in Holders
        PROVE  /\ writes[p] # << >> => lock = p
               /\ \A n \in 1 .. Len(writes[p]) :
                     writes[p][n].seat \in Seats /\ writes[p][n].field \in Fields
    <3>1. writes[p] \in Seq(AnyWrite)
      BY DEF Inv, WriteInv, Proper
    <3>2. \A n \in 1 .. Len(writes[p]) : writes[p][n] \in AnyWrite
      BY <3>1
    <3> QED
      BY <3>2 DEF Inv, WriteInv, AnyWrite
  <2> QED
    BY <2>1 DEF Inv, Types, SearchInv, ProcInv, TypeOK, Holders
<1> QED
  BY <1>1, InvInit, InvNext, PTL DEF Spec

\* A counter that the search without the lock takes for free and of the operator's
\* service was so at one moment of the test, in whatever order the director and the
\* other operators write its fields (operatore.c:174-181, direttore.c:168-172).
THEOREM FindsAreMomentsCorrect == Spec => FindsAreMoments
<1>1. Inv /\ [Next]_vars =>
         [\A o \in Operators : pc[o] = "service" /\ pc'[o] = "found" => suited[o]]_vars
  <2> SUFFICES ASSUME Inv, Next, NEW o \in Operators, pc[o] = "service", pc'[o] = "found"
               PROVE  suited[o]
    OBVIOUS
  <2>1. o \in Processes
    BY Kinds
  <2>2. \A p \in Processes : \A l : pc' = [pc EXCEPT ![p] = l] => p = o
    BY <2>1 DEF Inv, Types
  <2>3. ASSUME NEW p \in Operators, OpNext(p) PROVE p = o /\ OpReadService(p)
    <3>1. \E l : pc' = [pc EXCEPT ![p] = l]
      <4>1. \A l : Goto(p, l) => \E k : pc' = [pc EXCEPT ![p] = k]
        BY DEF Goto
      <4>2. pc' # pc
        OBVIOUS
      <4> QED
        BY <2>3, <4>1, <4>2 DEF OpNext, OpSeek, OpTest, OpWaits, OpReadStatus, OpReadService,
           OpNextSeat, OpTake, OpLeave
    <3>2. p = o
      BY <3>1, <2>2, Kinds
    <3> QED
      BY <3>2, <2>3, Kinds DEF OpNext, OpSeek, OpTest, OpWaits, OpReadStatus, OpTake, OpLeave,
         At, Inside
  <2>4. ASSUME NEW u \in Users, UtNext(u) PROVE FALSE
    <3>1. \E l : pc' = [pc EXCEPT ![u] = l]
      <4>1. pc' # pc
        OBVIOUS
      <4> QED
        BY <2>4, <4>1 DEF UtNext, UtLook, UtTest, UtAttempt, UtTry, UtLate, UtFree, Goto
    <3> QED
      BY <3>1, <2>2, Kinds
  <2>5. ~DirNewDay /\ \A p \in Processes \cup {Director} : ~MakeWrite(p) /\ ~Unlock(p)
    BY DEF DirNewDay, MakeWrite, Unlock, locals
  <2>6. OpReadService(o)
    BY <2>3, <2>4, <2>5 DEF Next
  <2>7. seats[at[o]].service_id = opService[o]
    <3>1. ~OpNextSeat(o)
      BY <2>1 DEF OpNextSeat, Goto, Inv, Types
    <3> QED
      BY <2>6, <3>1 DEF OpReadService
  <2> QED
    BY <2>7 DEF Inv, SearchInv, OpInv
<1> QED
  BY <1>1, InvInit, InvNext, PTL DEF Spec, FindsAreMoments
-----------------------------------------------------------------------------
(* The table when its writes are made.                                      *)

\* The single write to a field settles it; a field without a write stays.
LEMMA SettledWrite ==
    \A t, ws, i, f : Proper(ws) =>
       \A n \in 1 .. Len(ws) :
          ws[n].seat = i /\ ws[n].field = f => Settled(t, ws, i, f) = ws[n].value
<1> SUFFICES ASSUME NEW t, NEW ws, NEW i, NEW f, Proper(ws), NEW n \in 1 .. Len(ws),
                    ws[n].seat = i, ws[n].field = f
             PROVE  Settled(t, ws, i, f) = ws[n].value
  OBVIOUS
<1> DEFINE onField == {m \in 1 .. Len(ws) : ws[m].seat = i /\ ws[m].field = f}
<1>1. n \in onField /\ \A m \in onField : m = n
  BY DEF Proper
<1>2. Max(onField) = n
  <2> HIDE DEF onField
  <2>1. \E x \in onField : \A y \in onField : x >= y
    BY <1>1
  <2>2. Max(onField) \in onField
    BY <2>1 DEF Max
  <2> QED
    BY <2>2, <1>1
<1> QED
  BY <1>1, <1>2 DEF Settled

LEMMA SettledNone ==
    \A t, ws, i, f :
       (\A n \in 1 .. Len(ws) : ~(ws[n].seat = i /\ ws[n].field = f))
          => Settled(t, ws, i, f) = t[i][f]
BY DEF Settled

LEMMA AfterFact ==
    ASSUME NEW t \in [Seats -> Seat], NEW ws, Proper(ws)
    PROVE  /\ After(t, ws) \in [Seats -> Seat]
           /\ \A i \in Seats, f \in Fields : After(t, ws)[i][f] = Settled(t, ws, i, f)
<1>1. ASSUME NEW i \in Seats, NEW f \in Fields PROVE Settled(t, ws, i, f) \in Values(f)
  <2>1. CASE \E n \in 1 .. Len(ws) : ws[n].seat = i /\ ws[n].field = f
    BY <2>1, SettledWrite, SettledNone DEF Proper
  <2>2. CASE \A n \in 1 .. Len(ws) : ~(ws[n].seat = i /\ ws[n].field = f)
    <3>1. Settled(t, ws, i, f) = t[i][f]
      BY <2>2, SettledWrite, SettledNone
    <3>2. t[i][f] \in Values(f)
      BY DEF Seat, Values, Fields
    <3> QED
      BY <3>1, <3>2
  <2> QED
    BY <2>1, <2>2
<1>2. {"operator_process", "operator_status", "user_status", "service_id"} = Fields
  BY DEF Fields
<1>3. ASSUME NEW i \in Seats
      PROVE  After(t, ws)[i] \in Seat /\ \A f \in Fields : After(t, ws)[i][f] = Settled(t, ws, i, f)
  <2>1. After(t, ws)[i] = [operator_process |-> Settled(t, ws, i, "operator_process"),
                           operator_status |-> Settled(t, ws, i, "operator_status"),
                           user_status |-> Settled(t, ws, i, "user_status"),
                           service_id |-> Settled(t, ws, i, "service_id")]
    BY DEF After
  <2>2. /\ Settled(t, ws, i, "operator_process") \in Operators \cup {0}
        /\ Settled(t, ws, i, "operator_status") \in {"FREE", "OCCUPIED"}
        /\ Settled(t, ws, i, "user_status") \in {"FREE", "OCCUPIED"}
        /\ Settled(t, ws, i, "service_id") \in Services
    BY <1>1, <1>2 DEF Values
  <2> QED
    BY <2>1, <2>2 DEF Seat, Fields
<1>4. After(t, ws) \in [Seats -> Seat]
  <2>1. DOMAIN After(t, ws) = Seats /\ After(t, ws) = [i \in Seats |-> After(t, ws)[i]]
    BY DEF After
  <2> QED
    BY <2>1, <1>3
<1> QED
  BY <1>3, <1>4

\* Two tables that agree in every field are one.
LEMMA SameTable ==
    ASSUME NEW t \in [Seats -> Seat], NEW q \in [Seats -> Seat],
           \A i \in Seats, f \in Fields : t[i][f] = q[i][f]
    PROVE  t = q
<1>1. ASSUME NEW i \in Seats PROVE t[i] = q[i]
  BY SameSeat
<1> QED
  BY <1>1

LEMMA AfterNone == ASSUME NEW t \in [Seats -> Seat] PROVE After(t, << >>) = t
<1>1. After(t, << >>) \in [Seats -> Seat]
  BY NoWrite, AfterFact
<1>2. \A i \in Seats, f \in Fields : After(t, << >>)[i][f] = t[i][f]
  BY NoWrite, AfterFact, SettledWrite, SettledNone
<1> QED
  BY <1>1, <1>2, SameTable

\* To make the first write does not change what all of them come to.
LEMMA AfterHead ==
    ASSUME NEW t \in [Seats -> Seat], NEW ws, Proper(ws), ws # << >>
    PROVE  After(Written(t, Head(ws)), Tail(ws)) = After(t, ws)
<1> DEFINE w == ws[1]
           q == Written(t, w)
           vs == Tail(ws)
<1>1. /\ ws \in Seq(AnyWrite) /\ Len(ws) \in Nat /\ Len(ws) >= 1 /\ Head(ws) = w
      /\ Len(vs) = Len(ws) - 1 /\ \A n \in 1 .. Len(vs) : vs[n] = ws[n + 1]
      /\ Proper(vs)
  BY TailFact, ProperTail DEF Proper
<1>2. w \in AnyWrite /\ w.value \in Values(w.field)
  BY <1>1 DEF Proper
<1>3. /\ q \in [Seats -> Seat]
      /\ \A i \in Seats, f \in Fields :
            q[i][f] = IF i = w.seat /\ f = w.field THEN w.value ELSE t[i][f]
  BY <1>2, WrittenFact
<1> HIDE DEF w, q, vs
<1>4. ASSUME NEW i \in Seats, NEW f \in Fields
      PROVE  After(q, vs)[i][f] = After(t, ws)[i][f]
  <2>0. After(q, vs)[i][f] = Settled(q, vs, i, f) /\ After(t, ws)[i][f] = Settled(t, ws, i, f)
    BY <1>1, <1>3, AfterFact
  <2>1. CASE w.seat = i /\ w.field = f
    <3>1. Settled(t, ws, i, f) = w.value
      BY <2>1, <1>1, SettledWrite, SettledNone DEF w
    <3>2. \A n \in 1 .. Len(vs) : ~(vs[n].seat = i /\ vs[n].field = f)
      BY <2>1, <1>1 DEF w, Proper
    <3>3. Settled(q, vs, i, f) = q[i][f]
      BY <3>2, <1>1, SettledWrite, SettledNone
    <3> QED
      BY <2>0, <2>1, <3>1, <3>3, <1>3
  <2>2. CASE \E n \in 2 .. Len(ws) : ws[n].seat = i /\ ws[n].field = f
    <3>1. PICK n \in 2 .. Len(ws) : ws[n].seat = i /\ ws[n].field = f
      BY <2>2
    <3>2. n - 1 \in 1 .. Len(vs) /\ vs[n - 1] = ws[n] /\ n \in 1 .. Len(ws)
      BY <1>1
    <3>3. Settled(t, ws, i, f) = ws[n].value
      BY <3>1, <3>2, SettledWrite, SettledNone
    <3>4. Settled(q, vs, i, f) = ws[n].value
      <4>1. n - 1 \in 1 .. Len(vs) /\ ws[n] = vs[n - 1] /\ Proper(vs)
        BY <3>2, <1>1
      <4>2. Settled(q, vs, ws[n].seat, ws[n].field) = ws[n].value
        BY <4>1, SettledWrite
      <4> QED
        BY <4>2, <3>1
    <3> QED
      BY <2>0, <3>3, <3>4
  <2>3. CASE \A n \in 1 .. Len(ws) : ~(ws[n].seat = i /\ ws[n].field = f)
    <3>1. Settled(t, ws, i, f) = t[i][f]
      BY <2>3, SettledWrite, SettledNone
    <3>2. \A n \in 1 .. Len(vs) : ~(vs[n].seat = i /\ vs[n].field = f)
      BY <2>3, <1>1
    <3>3. Settled(q, vs, i, f) = q[i][f]
      BY <3>2, <1>1, SettledWrite, SettledNone
    <3>4. ~(i = w.seat /\ f = w.field)
      BY <2>3, <1>1 DEF w
    <3> QED
      BY <2>0, <3>1, <3>3, <3>4, <1>3
  <2>4. \A n \in 1 .. Len(ws) : n = 1 \/ n \in 2 .. Len(ws)
    BY <1>1
  <2> QED
    BY <2>1, <2>2, <2>3, <2>4 DEF w
<1>5. After(q, vs) \in [Seats -> Seat] /\ After(t, ws) \in [Seats -> Seat]
  BY <1>1, <1>3, AfterFact
<1>6. After(q, vs) = After(t, ws)
  BY <1>4, <1>5, SameTable
<1> QED
  BY <1>1, <1>6 DEF q, vs

\* What an operator's claim or release, a user's, and midnight come to.
LEMMA AfterTwo ==
    ASSUME NEW t \in [Seats -> Seat], NEW i \in Seats, NEW o \in Operators \cup {0},
           NEW s \in {"FREE", "OCCUPIED"}, NEW ws,
           \/ ws = << Write(i, "operator_process", o), Write(i, "operator_status", s) >>
           \/ ws = << Write(i, "operator_status", s), Write(i, "operator_process", o) >>
    PROVE  /\ After(t, ws) \in [Seats -> Seat]
           /\ \A j \in Seats, f \in Fields :
                 After(t, ws)[j][f] = IF j = i /\ f = "operator_process" THEN o
                                      ELSE IF j = i /\ f = "operator_status" THEN s ELSE t[j][f]
<1>1. Proper(ws)
  BY TwoWrites DEF Values, Fields
<1>2. /\ \E n \in 1 .. Len(ws) : ws[n] = Write(i, "operator_process", o)
      /\ \E n \in 1 .. Len(ws) : ws[n] = Write(i, "operator_status", s)
      /\ \A n \in 1 .. Len(ws) :
            ws[n].seat = i /\ ws[n].field \in {"operator_process", "operator_status"}
  <2>1. Len(ws) = 2
    OBVIOUS
  <2> QED
    BY <2>1 DEF Write
<1>3. /\ Settled(t, ws, i, "operator_process") = o
      /\ Settled(t, ws, i, "operator_status") = s
      /\ \A j, f : ~(j = i /\ f \in {"operator_process", "operator_status"})
                      => Settled(t, ws, j, f) = t[j][f]
  BY <1>1, <1>2, SettledWrite, SettledNone DEF Write
<1> QED
  BY <1>1, <1>3, AfterFact

LEMMA AfterTake ==
    ASSUME NEW t \in [Seats -> Seat], NEW i \in Seats, NEW o \in Operators
    PROVE  After(t, TakeWrites(o, i))
              = [t EXCEPT ![i].operator_process = o, ![i].operator_status = "OCCUPIED"]
<1> DEFINE ws == TakeWrites(o, i)
           q == [t EXCEPT ![i].operator_process = o, ![i].operator_status = "OCCUPIED"]
<1>1. /\ q \in [Seats -> Seat]
      /\ \A j \in Seats, f \in Fields :
            q[j][f] = IF j = i /\ f = "operator_process" THEN o
                      ELSE IF j = i /\ f = "operator_status" THEN "OCCUPIED" ELSE t[j][f]
  BY DEF Seat, Fields
<1>2. ws = << Write(i, "operator_process", o), Write(i, "operator_status", "OCCUPIED") >>
  BY DEF TakeWrites
<1> HIDE DEF ws, q
<1>3. /\ After(t, ws) \in [Seats -> Seat]
      /\ \A j \in Seats, f \in Fields : After(t, ws)[j][f] = q[j][f]
  <2> DEFINE s == "OCCUPIED"
  <2>1. /\ ws = << Write(i, "operator_process", o), Write(i, "operator_status", s) >>
        /\ s \in {"FREE", "OCCUPIED"} /\ o \in Operators \cup {0}
    BY <1>2
  <2> HIDE DEF s
  <2>2. /\ After(t, ws) \in [Seats -> Seat]
        /\ \A j \in Seats, f \in Fields :
              After(t, ws)[j][f] = IF j = i /\ f = "operator_process" THEN o
                                   ELSE IF j = i /\ f = "operator_status" THEN s ELSE t[j][f]
    BY <2>1, AfterTwo
  <2> QED
    BY <1>1, <2>2 DEF s
<1>4. After(t, ws) = q
  BY <1>1, <1>3, SameTable
<1> QED
  BY <1>4 DEF ws, q

LEMMA AfterLeave ==
    ASSUME NEW t \in [Seats -> Seat], NEW i \in Seats
    PROVE  After(t, LeaveWrites(i))
              = [t EXCEPT ![i].operator_process = 0, ![i].operator_status = "FREE"]
<1> DEFINE ws == LeaveWrites(i)
           q == [t EXCEPT ![i].operator_process = 0, ![i].operator_status = "FREE"]
<1>1. /\ q \in [Seats -> Seat]
      /\ \A j \in Seats, f \in Fields :
            q[j][f] = IF j = i /\ f = "operator_process" THEN 0
                      ELSE IF j = i /\ f = "operator_status" THEN "FREE" ELSE t[j][f]
  BY DEF Seat, Fields
<1>2. ws = << Write(i, "operator_status", "FREE"), Write(i, "operator_process", 0) >>
  BY DEF LeaveWrites
<1> HIDE DEF ws, q
<1>3. /\ After(t, ws) \in [Seats -> Seat]
      /\ \A j \in Seats, f \in Fields : After(t, ws)[j][f] = q[j][f]
  <2> DEFINE s == "FREE"
             o == 0
  <2>1. /\ ws = << Write(i, "operator_status", s), Write(i, "operator_process", o) >>
        /\ s \in {"FREE", "OCCUPIED"} /\ o \in Operators \cup {0}
    BY <1>2
  <2> HIDE DEF s, o
  <2>2. /\ After(t, ws) \in [Seats -> Seat]
        /\ \A j \in Seats, f \in Fields :
              After(t, ws)[j][f] = IF j = i /\ f = "operator_process" THEN o
                                   ELSE IF j = i /\ f = "operator_status" THEN s ELSE t[j][f]
    BY <2>1, AfterTwo
  <2> QED
    BY <1>1, <2>2 DEF s, o
<1>4. After(t, ws) = q
  BY <1>1, <1>3, SameTable
<1> QED
  BY <1>4 DEF ws, q

LEMMA AfterOne ==
    ASSUME NEW t \in [Seats -> Seat], NEW i \in Seats, NEW s \in {"FREE", "OCCUPIED"}
    PROVE  After(t, << Write(i, "user_status", s) >>) = [t EXCEPT ![i].user_status = s]
<1> DEFINE q == [t EXCEPT ![i].user_status = s]
           ws == << Write(i, "user_status", s) >>
<1>1. /\ q \in [Seats -> Seat]
      /\ \A j \in Seats, f \in Fields :
            q[j][f] = IF j = i /\ f = "user_status" THEN s ELSE t[j][f]
  BY DEF Seat, Fields
<1>2. Proper(ws)
  BY OneWrite DEF Values, Fields
<1>3. Len(ws) = 1 /\ ws[1].seat = i /\ ws[1].field = "user_status" /\ ws[1].value = s
  BY DEF Write
<1> HIDE DEF ws, q
<1>4. /\ Settled(t, ws, i, "user_status") = s
      /\ \A j, f : ~(j = i /\ f = "user_status") => Settled(t, ws, j, f) = t[j][f]
  BY <1>2, <1>3, SettledWrite, SettledNone
<1>5. After(t, ws) \in [Seats -> Seat]
      /\ \A j \in Seats, f \in Fields : After(t, ws)[j][f] = Settled(t, ws, j, f)
  BY <1>2, AfterFact
<1>6. \A j \in Seats, f \in Fields : After(t, ws)[j][f] = q[j][f]
  BY <1>1, <1>4, <1>5
<1>7. After(t, ws) = q
  BY <1>1, <1>5, <1>6, SameTable
<1> QED
  BY <1>7 DEF q, ws

LEMMA AfterReset ==
    ASSUME NEW t \in [Seats -> Seat], NEW f \in [Seats -> Services]
    PROVE  After(t, ResetAll(f)) = [i \in Seats |-> Table!Cleared(f[i])]
<1> DEFINE ws == ResetAll(f)
           q == [i \in Seats |-> Table!Cleared(f[i])]
<1>1. /\ Proper(ws)
      /\ \A i \in Seats :
            /\ \E n \in 1 .. Len(ws) : ws[n] = Write(i, "operator_process", 0)
            /\ \E n \in 1 .. Len(ws) : ws[n] = Write(i, "operator_status", "FREE")
            /\ \E n \in 1 .. Len(ws) : ws[n] = Write(i, "user_status", "FREE")
            /\ \E n \in 1 .. Len(ws) : ws[n] = Write(i, "service_id", f[i])
  BY ResetFact
<1>2. /\ q \in [Seats -> Seat]
      /\ \A i \in Seats : /\ q[i]["operator_process"] = 0 /\ q[i]["operator_status"] = "FREE"
                          /\ q[i]["user_status"] = "FREE" /\ q[i]["service_id"] = f[i]
  BY DEF Table!Cleared, Seat
<1> HIDE DEF ws, q
<1>3. ASSUME NEW i \in Seats
      PROVE  /\ Settled(t, ws, i, "operator_process") = 0
             /\ Settled(t, ws, i, "operator_status") = "FREE"
             /\ Settled(t, ws, i, "user_status") = "FREE"
             /\ Settled(t, ws, i, "service_id") = f[i]
  <2>1. ASSUME NEW g, NEW v, \E n \in 1 .. Len(ws) : ws[n] = Write(i, g, v)
        PROVE  Settled(t, ws, i, g) = v
    <3>1. PICK n \in 1 .. Len(ws) : ws[n] = Write(i, g, v)
      BY <2>1
    <3>2. ws[n].seat = i /\ ws[n].field = g /\ ws[n].value = v
      BY <3>1 DEF Write
    <3>3. Settled(t, ws, ws[n].seat, ws[n].field) = ws[n].value
      BY <1>1, SettledWrite, SettledNone
    <3> QED
      BY <3>2, <3>3
  <2> QED
    BY <1>1, <2>1
<1>4. After(t, ws) \in [Seats -> Seat]
      /\ \A i \in Seats, g \in Fields : After(t, ws)[i][g] = Settled(t, ws, i, g)
  BY <1>1, AfterFact
<1>5. \A i \in Seats, g \in Fields : After(t, ws)[i][g] = q[i][g]
  BY <1>2, <1>3, <1>4 DEF Fields
<1>6. After(t, ws) = q
  BY <1>2, <1>4, <1>5, SameTable
<1> QED
  BY <1>6 DEF q, ws
-----------------------------------------------------------------------------
(* The steps of Tabella.  A critical section takes effect when it decides;  *)
(* a search that decides nothing takes effect when it ends.                 *)
T == After(seats, IF lock = 0 THEN << >> ELSE writes[lock])
St == [p \in Processes |-> Stage(p)]
Li == [u \in Users |-> IF pc[u] = "look" THEN {} ELSE valid_seats[u]]

LEMMA AbstractVars ==
    UNCHANGED <<T, opService, St, Li, place>> => UNCHANGED Table!vars
BY DEF T, St, Li, Table!vars

LEMMA MoveFact ==
    ASSUME NEW p \in Processes, NEW from, NEW to, St[p] = from, St' = [St EXCEPT ![p] = to]
    PROVE  Table!Moves(p, from, to)
BY DEF Table!Moves, St

LEMMA TakesFact ==
    ASSUME NEW o, NEW i,
           T' = [T EXCEPT ![i].operator_process = o, ![i].operator_status = "OCCUPIED"],
           place' = [place EXCEPT ![o] = i], UNCHANGED <<opService, Li>>
    PROVE  Table!Takes(o, i)
BY DEF Table!Takes, T, Li

LEMMA LeavesFact ==
    ASSUME NEW u \in Users, NEW from, St[u] = from, St' = [St EXCEPT ![u] = "idle"],
           Li' = [Li EXCEPT ![u] = {}], place' = [place EXCEPT ![u] = NoSeat],
           UNCHANGED opService
    PROVE  Table!Leaves(u, from)
<1>1. Table!Moves(u, from, "idle")
  BY MoveFact, Kinds
<1> QED
  BY <1>1 DEF Table!Leaves, Li

\* Between decisions the table is what is stored.
LEMMA NothingPending ==
    ASSUME Types, WriteInv, NEW p \in Holders, lock \in {0, p}, writes[p] = << >>
    PROVE  T = seats
<1>1. (IF lock = 0 THEN << >> ELSE writes[lock]) = << >>
  BY Kinds
<1> QED
  BY <1>1, AfterNone DEF T, Types

\* What p's decision makes of it.
LEMMA DecisionSeen ==
    ASSUME Types, WriteInv, NEW p \in Holders, NEW ws,
           lock' = p, writes' = [writes EXCEPT ![p] = ws], UNCHANGED seats
    PROVE  T' = After(seats, ws)
BY Kinds DEF T, WriteInv

\* A step that decides nothing.
LEMMA NoDecision ==
    ASSUME Types, WriteInv, NEW p \in Holders, lock \in {0, p}, lock' \in {0, p},
           writes[p] = << >>, UNCHANGED <<writes, seats>>
    PROVE  T' = T /\ T = seats
<1>1. (IF lock' = 0 THEN << >> ELSE writes'[lock']) = << >>
  BY Kinds
<1>2. T' = After(seats, << >>)
  BY <1>1 DEF T
<1> QED
  BY <1>2, AfterNone, NothingPending DEF Types

\* Steps of one process do not move the others.
LEMMA StageSteps ==
    ASSUME Types, NEW p \in Processes, NEW l \in Labels, pc' = [pc EXCEPT ![p] = l]
    PROVE  /\ l \in {"out", "seek"} => St' = [St EXCEPT ![p] = "out"]
           /\ l \in {"wait", "status", "service", "found"} => St' = [St EXCEPT ![p] = "wait"]
           /\ l = "duty" => St' = [St EXCEPT ![p] = "duty"]
           /\ l \in {"idle", "look"} => St' = [St EXCEPT ![p] = "idle"]
           /\ l \in {"listed", "attempt"} => St' = [St EXCEPT ![p] = "listed"]
           /\ l = "seated" => St' = [St EXCEPT ![p] = "seated"]
<1>1. \A q \in Processes : pc'[q] = IF q = p THEN l ELSE pc[q]
  BY DEF Types
<1>2. \A q \in Processes : Stage(q)' = IF q = p THEN Stage(p)' ELSE Stage(q)
  BY <1>1 DEF Stage
<1>3. St' = [St EXCEPT ![p] = Stage(p)']
  BY <1>2 DEF St
<1>4. /\ l \in {"out", "seek"} => Stage(p)' = "out"
      /\ l \in {"wait", "status", "service", "found"} => Stage(p)' = "wait"
      /\ l = "duty" => Stage(p)' = "duty"
      /\ l \in {"idle", "look"} => Stage(p)' = "idle"
      /\ l \in {"listed", "attempt"} => Stage(p)' = "listed"
      /\ l = "seated" => Stage(p)' = "seated"
  BY <1>1 DEF Stage
<1> QED
  BY <1>3, <1>4

LEMMA StageNow ==
    ASSUME Types, NEW p \in Processes
    PROVE  /\ DOMAIN St = Processes
           /\ pc[p] \in {"out", "seek"} => St[p] = "out"
           /\ pc[p] \in {"wait", "status", "service", "found"} => St[p] = "wait"
           /\ pc[p] = "duty" => St[p] = "duty"
           /\ pc[p] \in {"idle", "look"} => St[p] = "idle"
           /\ pc[p] \in {"listed", "attempt"} => St[p] = "listed"
           /\ pc[p] = "seated" => St[p] = "seated"
           /\ [St EXCEPT ![p] = St[p]] = St
BY DEF St, Stage

\* An operator's step leaves the users' lists alone.
LEMMA ListsKept ==
    ASSUME Types, NEW o \in Operators, NEW l, pc' = [pc EXCEPT ![o] = l], UNCHANGED valid_seats
    PROVE  Li' = Li
<1>1. \A u \in Users : pc'[u] = pc[u]
  BY Kinds DEF Types
<1> QED
  BY <1>1 DEF Li

\* A user's step changes at most its own list.
LEMMA ListChanged ==
    ASSUME Types, NEW u \in Users, NEW l, pc' = [pc EXCEPT ![u] = l],
           l # "look", NEW S, valid_seats' = [valid_seats EXCEPT ![u] = S]
    PROVE  Li' = [Li EXCEPT ![u] = S]
<1>1. \A v \in Users : pc'[v] = IF v = u THEN l ELSE pc[v]
  BY Kinds DEF Types
<1>2. \A v \in Users : valid_seats'[v] = IF v = u THEN S ELSE valid_seats[v]
  BY DEF Types
<1> QED
  BY <1>1, <1>2 DEF Li

LEMMA ListsSame ==
    ASSUME Types, NEW u \in Users, NEW l, pc[u] # "look", l # "look",
           pc' = [pc EXCEPT ![u] = l], UNCHANGED valid_seats
    PROVE  Li' = Li
<1>1. \A v \in Users : pc'[v] = IF v = u THEN l ELSE pc[v]
  BY Kinds DEF Types
<1> QED
  BY <1>1 DEF Li

LEMMA MakeMaps == ASSUME Inv, NEW p \in Holders, MakeWrite(p) PROVE UNCHANGED Table!vars
<1> DEFINE ws == writes[p]
<1>1. Types /\ WriteInv /\ lock = p /\ lock' = p /\ p # 0 /\ Proper(ws) /\ ws # << >>
  BY Kinds DEF Inv, WriteInv, MakeWrite
<1>2. seats' = Written(seats, Head(ws)) /\ writes'[p] = Tail(ws)
  BY <1>1 DEF MakeWrite, Decides, WriteInv
<1>3. T' = After(Written(seats, Head(ws)), Tail(ws)) /\ T = After(seats, ws)
  BY <1>1, <1>2 DEF T
<1>4. seats \in [Seats -> Seat]
  BY <1>1 DEF Types
<1> HIDE DEF ws
<1>5. T' = T
  BY <1>1, <1>3, <1>4, AfterHead
<1>6. UNCHANGED <<opService, St, Li, place>>
  BY DEF MakeWrite, locals, St, Stage, Li
<1> QED
  BY <1>5, <1>6, AbstractVars

LEMMA UnlockMaps == ASSUME Inv, NEW p \in Holders, Unlock(p) PROVE UNCHANGED Table!vars
<1>1. T' = T
  BY NoDecision DEF Inv, Unlock
<1>2. UNCHANGED <<opService, St, Li, place>>
  BY DEF Unlock, locals, St, Stage, Li
<1> QED
  BY <1>1, <1>2, AbstractVars

LEMMA DirMaps == ASSUME Inv, DirNewDay PROVE Table!NewDay
<1>1. PICK f \in [Seats -> Services] : Decides(Director, ResetAll(f))
  BY DEF DirNewDay
<1>2. T' = After(seats, ResetAll(f))
  BY <1>1, DecisionSeen, Kinds DEF Inv, DirNewDay, Lock, Decides
<1>3. T' = [i \in Seats |-> Table!Cleared(f[i])]
  BY <1>2, AfterReset DEF Inv, Types
<1>4. UNCHANGED <<opService, St, Li, place>>
  BY DEF DirNewDay, locals, St, Stage, Li
<1> QED
  BY <1>3, <1>4 DEF Table!NewDay, T, St, Li

\* A step of an operator or of a user that decides nothing and moves nobody.
LEMMA Stutters ==
    ASSUME Inv, NEW p \in Processes, lock \in {0, p}, lock' \in {0, p}, writes[p] = << >>,
           UNCHANGED <<seats, writes, opService, place>>, St' = St, Li' = Li
    PROVE  UNCHANGED Table!vars
<1>1. T' = T
  BY NoDecision, Kinds DEF Inv
<1> QED
  BY <1>1, AbstractVars

\* Without the lock the table stays what it was, whoever holds it.
LEMMA ApartKeeps == UNCHANGED <<seats, lock, writes>> => T' = T
BY DEF T

LEMMA OpMaps ==
    ASSUME Inv, Inv', NEW o \in Operators, OpNext(o)
    PROVE  \/ UNCHANGED Table!vars
           \/ Table!Seek(o) \/ Table!SeekInVain(o) \/ Table!Take(o)
           \/ Table!Leave(o) \/ Table!Resign(o)
<1>1. /\ Types /\ WriteInv /\ o \in Processes /\ o \in Holders /\ o # 0
      /\ ProcInv(o) /\ OpInv(o)
  BY Kinds DEF Inv, SearchInv
<1>2. lock # o => writes[o] = << >>
  BY <1>1 DEF WriteInv
<1>3. Searching(o) => writes[o] = << >> /\ lock = o
  BY <1>1 DEF WriteInv, ProcInv
<1>4. /\ DOMAIN pc = Processes /\ DOMAIN place = Processes /\ DOMAIN at = Processes
      /\ at[o] \in 0 .. NumSeats /\ seats \in [Seats -> Seat]
  BY <1>1 DEF Types
<1>5. /\ pc[o] \in {"out", "seek"} => St[o] = "out"
      /\ pc[o] \in {"wait", "status", "service", "found"} => St[o] = "wait"
      /\ pc[o] = "duty" => St[o] = "duty"
      /\ [St EXCEPT ![o] = St[o]] = St
  BY <1>1, StageNow
<1>6. ASSUME NEW l \in {"out", "seek", "wait", "status", "service", "found", "duty"}, Goto(o, l)
      PROVE  /\ l \in {"out", "seek"} => St' = [St EXCEPT ![o] = "out"]
             /\ l \in {"wait", "status", "service", "found"} => St' = [St EXCEPT ![o] = "wait"]
             /\ l = "duty" => St' = [St EXCEPT ![o] = "duty"]
  BY <1>1, <1>6, StageSteps DEF Goto, Labels
<1>7. CASE OpSeek(o)
  <2>1. St' = St
    BY <1>5, <1>6, <1>7 DEF OpSeek, At
  <2>2. Li' = Li
    BY <1>1, <1>7, ListsKept DEF OpSeek, Goto
  <2>3. lock = 0 /\ lock' = o /\ writes[o] = << >>
    BY <1>1, <1>2, <1>7 DEF OpSeek, Lock
  <2> QED
    BY <1>1, <1>7, <2>1, <2>2, <2>3, Stutters DEF OpSeek
<1>8. CASE OpTest(o)
  <2> DEFINE i == at[o]
  <2>1. /\ pc[o] = "seek" /\ lock = o /\ lock' = o /\ writes[o] = << >>
        /\ UNCHANGED <<seats, opService, valid_seats>>
    BY <1>3, <1>8, Kinds DEF OpTest, Inside, Searching
  <2>2. T = seats /\ St[o] = "out"
    BY <1>1, <1>5, <2>1, NothingPending
  <2>3. \A j \in Seats : Suits(o, j) <=> Table!Suits(o, j)
    BY <2>2 DEF Suits, Table!Suits, T
  <2>4. \A j \in Seats : j < i => ~Suits(o, j)
    BY <1>1, <2>1 DEF OpInv
  <2>5. CASE i \in Seats /\ Suits(o, i) /\ Goto(o, "duty")
             /\ place' = [place EXCEPT ![o] = i] /\ Decides(o, TakeWrites(o, i))
    <3>1. T' = After(seats, TakeWrites(o, i))
      BY <1>1, <2>1, <2>5, DecisionSeen DEF Decides
    <3>2. T' = [T EXCEPT ![i].operator_process = o, ![i].operator_status = "OCCUPIED"]
      BY <1>4, <2>2, <2>5, <3>1, AfterTake
    <3>3. Li' = Li
      BY <1>1, <2>1, <2>5, ListsKept DEF Goto
    <3>4. Table!Takes(o, i)
      BY <2>1, <2>5, <3>2, <3>3, TakesFact
    <3>5. Table!Moves(o, "out", "duty")
      BY <1>1, <1>6, <2>2, <2>5, MoveFact
    <3>6. Table!First({j \in Seats : Table!Suits(o, j)}, i)
      <4>1. Table!Suits(o, i)
        BY <2>3, <2>5
      <4>2. \A j \in Seats : Table!Suits(o, j) => i <= j
        <5>1. i \in Int /\ \A j \in Seats : j \in Int /\ (~(j < i) => i <= j)
          BY <1>4 DEF Seats
        <5> QED
          BY <2>3, <2>4, <5>1
      <4> QED
        BY <2>5, <4>1, <4>2 DEF Table!First
    <3> QED
      BY <2>5, <3>4, <3>5, <3>6 DEF Table!Seek
  <2>6. CASE i \in Seats /\ UNCHANGED <<writes, pc, place>>
    BY <1>1, <2>1, <2>6, Stutters DEF St, Stage, Li
  <2>7. CASE i \notin Seats /\ Goto(o, "wait") /\ UNCHANGED <<writes, place>>
    <3>1. T' = T
      BY <1>1, <2>1, <2>7, NoDecision
    <3>2. Li' = Li
      BY <1>1, <2>1, <2>7, ListsKept DEF Goto
    <3>3. Table!Moves(o, "out", "wait")
      BY <1>1, <1>6, <2>2, <2>7, MoveFact
    <3>4. \A j \in Seats : ~Table!Suits(o, j)
      BY <1>4, <2>3, <2>4, <2>7, Bounds DEF Seats
    <3> QED
      BY <2>1, <2>7, <3>1, <3>2, <3>3, <3>4 DEF Table!SeekInVain, T, Li
  <2> QED
    BY <1>8, <2>5, <2>6, <2>7 DEF OpTest
<1>9. CASE OpWaits(o)
  <2>1. /\ pc[o] = "wait" /\ UNCHANGED <<seats, lock, writes, opService, valid_seats, place>>
        /\ Goto(o, "status") \/ Goto(o, "out")
    BY <1>9 DEF OpWaits, At
  <2>2. T' = T /\ Li' = Li
    BY <1>1, <2>1, ApartKeeps, ListsKept DEF Goto
  <2>3. CASE Goto(o, "status")
    BY <1>5, <1>6, <2>1, <2>2, <2>3, AbstractVars
  <2>4. CASE Goto(o, "out")
    <3>1. Table!Moves(o, "wait", "out")
      BY <1>1, <1>5, <1>6, <2>1, <2>4, MoveFact
    <3> QED
      BY <2>1, <2>2, <3>1 DEF Table!Resign, T, Li
  <2> QED
    BY <2>1, <2>3, <2>4
<1>10. CASE OpReadStatus(o) \/ OpReadService(o)
  <2>1. /\ pc[o] \in {"status", "service"}
        /\ UNCHANGED <<seats, lock, writes, opService, valid_seats, place>>
        /\ \E l \in {"wait", "status", "service", "found"} : Goto(o, l)
    BY <1>10 DEF OpReadStatus, OpReadService, OpNextSeat, At
  <2>2. PICK l \in {"wait", "status", "service", "found"} : Goto(o, l)
    BY <2>1
  <2>3. T' = T /\ Li' = Li
    BY <1>1, <2>1, <2>2, ApartKeeps, ListsKept DEF Goto
  <2>4. St' = St
    BY <1>5, <1>6, <2>1, <2>2
  <2> QED
    BY <2>1, <2>3, <2>4, AbstractVars
<1>11. CASE OpTake(o)
  <2> DEFINE i == at[o]
  <2>1. /\ pc[o] = "found" /\ lock = 0 /\ lock' = o /\ writes[o] = << >>
        /\ UNCHANGED <<seats, opService, valid_seats>> /\ Goto(o, "duty")
        /\ place' = [place EXCEPT ![o] = i] /\ Decides(o, TakeWrites(o, i))
    BY <1>1, <1>2, <1>11 DEF OpTake, At, Lock
  <2>2. i \in Seats
    BY <1>1, <2>1 DEF OpInv
  <2>3. T = seats /\ T' = After(seats, TakeWrites(o, i))
    BY <1>1, <2>1, NothingPending, DecisionSeen DEF Decides
  <2>4. T' = [T EXCEPT ![i].operator_process = o, ![i].operator_status = "OCCUPIED"]
    BY <1>4, <2>2, <2>3, AfterTake
  <2>5. Li' = Li
    BY <1>1, <2>1, ListsKept DEF Goto
  <2>6. Table!Takes(o, i)
    BY <2>1, <2>4, <2>5, TakesFact
  <2>7. Table!Moves(o, "wait", "duty")
    BY <1>1, <1>5, <1>6, <2>1, MoveFact
  <2> QED
    BY <2>2, <2>6, <2>7 DEF Table!Take
<1>12. CASE OpLeave(o)
  <2> DEFINE i == place[o]
  <2>1. /\ pc[o] = "duty" /\ lock = 0 /\ lock' = o /\ writes[o] = << >>
        /\ UNCHANGED <<seats, opService, valid_seats>> /\ Goto(o, "out")
        /\ place' = [place EXCEPT ![o] = NoSeat] /\ Decides(o, LeaveWrites(i))
    BY <1>1, <1>2, <1>12 DEF OpLeave, At, Lock
  <2>2. i \in Seats
    BY <1>1, <2>1 DEF ProcInv
  <2>3. T = seats /\ T' = After(seats, LeaveWrites(i))
    BY <1>1, <2>1, NothingPending, DecisionSeen DEF Decides
  <2>4. T' = [T EXCEPT ![i].operator_process = 0, ![i].operator_status = "FREE"]
    BY <1>4, <2>2, <2>3, AfterLeave
  <2>5. Li' = Li
    BY <1>1, <2>1, ListsKept DEF Goto
  <2>6. Table!Moves(o, "duty", "out")
    BY <1>1, <1>5, <1>6, <2>1, MoveFact
  <2> QED
    BY <2>1, <2>4, <2>5, <2>6 DEF Table!Leave, T, Li
<1> QED
  BY <1>7, <1>8, <1>9, <1>10, <1>11, <1>12 DEF OpNext

LEMMA UtMaps ==
    ASSUME Inv, Inv', NEW u \in Users, UtNext(u)
    PROVE  \/ UNCHANGED Table!vars
           \/ Table!Look(u) \/ Table!Claim(u) \/ Table!GiveUp(u) \/ Table!Free(u)
<1>1. /\ Types /\ WriteInv /\ u \in Processes /\ u \in Holders /\ u # 0
      /\ ProcInv(u) /\ UtInv(u)
  BY Kinds DEF Inv, SearchInv
<1>2. lock # u => writes[u] = << >>
  BY <1>1 DEF WriteInv
<1>3. Searching(u) => writes[u] = << >> /\ lock = u
  BY <1>1 DEF WriteInv, ProcInv
<1>4. /\ DOMAIN pc = Processes /\ DOMAIN place = Processes /\ DOMAIN at = Processes
      /\ at[u] \in 0 .. NumSeats /\ seats \in [Seats -> Seat]
      /\ valid_seats \in [Users -> SUBSET Seats]
  BY <1>1 DEF Types
<1>5. /\ pc[u] \in {"idle", "look"} => St[u] = "idle"
      /\ pc[u] \in {"listed", "attempt"} => St[u] = "listed"
      /\ pc[u] = "seated" => St[u] = "seated"
      /\ [St EXCEPT ![u] = St[u]] = St
  BY <1>1, StageNow
<1>6. ASSUME NEW l \in {"idle", "look", "listed", "attempt", "seated"}, Goto(u, l)
      PROVE  /\ l \in {"idle", "look"} => St' = [St EXCEPT ![u] = "idle"]
             /\ l \in {"listed", "attempt"} => St' = [St EXCEPT ![u] = "listed"]
             /\ l = "seated" => St' = [St EXCEPT ![u] = "seated"]
  BY <1>1, <1>6, StageSteps DEF Goto, Labels
<1>7. /\ Li[u] = IF pc[u] = "look" THEN {} ELSE valid_seats[u]
      /\ [Li EXCEPT ![u] = Li[u]] = Li
  BY DEF Li
<1>8. CASE UtLook(u)
  <2>1. /\ pc[u] = "idle" /\ lock = 0 /\ lock' = u /\ writes[u] = << >> /\ Goto(u, "look")
        /\ UNCHANGED <<seats, writes, opService, valid_seats, place>>
    BY <1>1, <1>2, <1>8 DEF UtLook, At, Lock
  <2>2. St' = St
    BY <1>5, <1>6, <2>1
  <2>3. valid_seats[u] = {} /\ valid_seats' = valid_seats
    BY <1>1, <2>1 DEF UtInv
  <2>4. Li' = Li
    <3>1. \A v \in Users : pc'[v] = IF v = u THEN "look" ELSE pc[v]
      BY <1>4, <2>1, Kinds DEF Goto
    <3> QED
      BY <2>1, <2>3, <3>1 DEF Li
  <2> QED
    BY <1>1, <2>1, <2>2, <2>4, Stutters
<1>9. CASE UtTest(u)
  <2>1. /\ pc[u] = "look" /\ lock = u /\ lock' = u /\ writes[u] = << >>
        /\ UNCHANGED <<seats, writes, opService, place>>
    BY <1>3, <1>9, Kinds DEF UtTest, Inside, Searching
  <2>2. CASE UNCHANGED pc /\ \E S : valid_seats' = [valid_seats EXCEPT ![u] = S]
    <3>1. PICK S : valid_seats' = [valid_seats EXCEPT ![u] = S]
      BY <2>2
    <3>2. \A v \in Users : v # u => valid_seats'[v] = valid_seats[v]
      BY <1>4, <3>1
    <3>3. Li' = Li
      BY <2>1, <2>2, <3>2 DEF Li
    <3> QED
      BY <1>1, <2>1, <2>2, <3>3, Stutters DEF St, Stage
  <2>3. CASE /\ at[u] \notin Seats /\ UNCHANGED valid_seats
             /\ Goto(u, IF valid_seats[u] = {} THEN "idle" ELSE "listed")
    <3> DEFINE s == utService[u]
    <3>1. s \in Services
      BY <1>1 DEF Types
    <3>2. T' = T /\ T = seats
      BY <1>1, <2>1, NoDecision
    <3>3. valid_seats[u] = Table!Valid(s)
      <4>1. valid_seats[u] = {i \in Seats : i < at[u] /\ Valid(u, i)}
        BY <1>1, <2>1 DEF UtInv
      <4>2. \A i \in Seats : i < at[u]
        BY <1>4, <2>3, Bounds DEF Seats
      <4> QED
        BY <3>2, <4>1, <4>2 DEF Valid, Table!Valid, T
    <3>4. valid_seats' = [valid_seats EXCEPT ![u] = valid_seats[u]]
      BY <1>4, <2>3
    <3>5. CASE valid_seats[u] = {}
      <4>1. Li' = [Li EXCEPT ![u] = {}]
        BY <1>1, <2>3, <3>4, <3>5, ListChanged DEF Goto
      <4>2. Li' = Li
        BY <1>7, <2>1, <4>1
      <4>3. St' = St
        BY <1>5, <1>6, <2>1, <2>3, <3>5
      <4> QED
        BY <1>1, <2>1, <4>2, <4>3, Stutters
    <3>6. CASE valid_seats[u] # {}
      <4>1. Li' = [Li EXCEPT ![u] = valid_seats[u]]
        <5>1. \A v \in Users : pc'[v] = IF v = u THEN "listed" ELSE pc[v]
          BY <1>4, <2>3, <3>6, Kinds DEF Goto
        <5> QED
          BY <2>3, <5>1 DEF Li
      <4>2. Table!Moves(u, "idle", "listed")
        BY <1>1, <1>5, <1>6, <2>1, <2>3, <3>6, MoveFact
      <4>3. UNCHANGED <<T, opService, place>>
        BY <2>1, <3>2
      <4> HIDE DEF s
      <4> QED
        BY <3>1, <3>3, <3>6, <4>1, <4>2, <4>3 DEF Table!Look, T, Li
    <3> QED
      BY <3>5, <3>6
  <2> QED
    BY <1>9, <2>2, <2>3 DEF UtTest
<1>10. CASE UtAttempt(u)
  <2>1. /\ pc[u] = "listed" /\ lock = 0 /\ lock' = u /\ writes[u] = << >> /\ Goto(u, "attempt")
        /\ UNCHANGED <<seats, writes, opService, valid_seats, place>>
    BY <1>1, <1>2, <1>10 DEF UtAttempt, At, Lock
  <2>2. St' = St
    BY <1>5, <1>6, <2>1
  <2>3. Li' = Li
    BY <1>1, <2>1, ListsSame DEF Goto
  <2> QED
    BY <1>1, <2>1, <2>2, <2>3, Stutters
<1>11. CASE UtTry(u)
  <2> DEFINE i == at[u]
             ws == << Write(i, "user_status", "OCCUPIED") >>
  <2>1. /\ pc[u] = "attempt" /\ lock = u /\ lock' = u /\ writes[u] = << >>
        /\ UNCHANGED <<seats, opService>>
    BY <1>3, <1>11, Kinds DEF UtTry, Inside, Searching
  <2>2. T = seats /\ St[u] = "listed" /\ Li[u] = valid_seats[u]
    BY <1>1, <1>5, <1>7, <2>1, NothingPending
  <2>3. CASE /\ i \in valid_seats[u] /\ seats[i].user_status = "FREE"
             /\ place' = [place EXCEPT ![u] = i]
             /\ valid_seats' = [valid_seats EXCEPT ![u] = {}]
             /\ Decides(u, ws) /\ Goto(u, "seated")
    <3>1. i \in Seats
      BY <1>4, <2>3
    <3>2. T' = [T EXCEPT ![i].user_status = "OCCUPIED"]
      <4>1. T' = After(seats, ws)
        BY <1>1, <2>1, <2>3, DecisionSeen DEF Decides
      <4>2. After(seats, ws) = [seats EXCEPT ![i].user_status = "OCCUPIED"]
        BY <1>4, <3>1, AfterOne
      <4> QED
        BY <2>2, <4>1, <4>2
    <3>3. Li' = [Li EXCEPT ![u] = {}]
      BY <1>1, <2>3, ListChanged DEF Goto
    <3>4. Table!Moves(u, "listed", "seated")
      BY <1>1, <1>6, <2>2, <2>3, MoveFact
    <3>5. /\ T[i].user_status = "FREE" /\ i \in Li[u]
          /\ \A j \in Li[u] : T[j].user_status = "FREE" => i <= j
      <4>1. \A j \in valid_seats[u] : j < i => seats[j].user_status # "FREE"
        BY <1>1, <2>1 DEF UtInv
      <4>2. \A j \in valid_seats[u] : ~(j < i) => i <= j
        BY <1>4 DEF Seats
      <4> QED
        BY <2>2, <2>3, <4>1, <4>2
    <3> HIDE DEF i
    <3>6. Table!First({j \in Li[u] : T[j].user_status = "FREE"}, i)
      BY <3>5 DEF Table!First
    <3> QED
      BY <2>1, <2>3, <3>2, <3>3, <3>4, <3>5, <3>6 DEF Table!Claim, T, Li
  <2>4. CASE UNCHANGED <<writes, pc, valid_seats, place>>
    BY <1>1, <2>1, <2>4, Stutters DEF St, Stage, Li
  <2>5. CASE Goto(u, "listed") /\ UNCHANGED <<writes, valid_seats, place>>
    <3>1. St' = St
      BY <1>5, <1>6, <2>1, <2>5
    <3>2. Li' = Li
      BY <1>1, <2>1, <2>5, ListsSame DEF Goto
    <3> QED
      BY <1>1, <2>1, <2>5, <3>1, <3>2, Stutters
  <2> QED
    BY <1>11, <2>3, <2>4, <2>5 DEF UtTry
<1>12. CASE UtLate(u)
  <2>1. /\ pc[u] \in {"listed", "seated"} /\ UNCHANGED <<seats, lock, writes, opService>>
        /\ valid_seats' = [valid_seats EXCEPT ![u] = {}]
        /\ place' = [place EXCEPT ![u] = NoSeat] /\ Goto(u, "idle")
    BY <1>12 DEF UtLate, At
  <2>2. Li' = [Li EXCEPT ![u] = {}]
    BY <1>1, <2>1, ListChanged DEF Goto
  <2>3. T' = T
    BY <2>1, ApartKeeps
  <2>4. PICK from \in {"listed", "seated"} : pc[u] = from
    BY <2>1
  <2>5. Table!Leaves(u, from)
    BY <1>5, <1>6, <2>1, <2>2, <2>4, LeavesFact
  <2> QED
    BY <2>3, <2>5 DEF Table!GiveUp, T
<1>13. CASE UtFree(u)
  <2> DEFINE i == place[u]
             ws == << Write(i, "user_status", "FREE") >>
  <2>1. /\ pc[u] = "seated" /\ lock = 0 /\ lock' = u /\ writes[u] = << >> /\ Goto(u, "idle")
        /\ UNCHANGED <<seats, opService, valid_seats>>
        /\ place' = [place EXCEPT ![u] = NoSeat] /\ Decides(u, ws)
    BY <1>1, <1>2, <1>13 DEF UtFree, At, Lock
  <2>2. i \in Seats /\ valid_seats[u] = {}
    BY <1>1, <2>1 DEF ProcInv, UtInv
  <2>3. T = seats /\ T' = After(seats, ws)
    BY <1>1, <2>1, NothingPending, DecisionSeen DEF Decides
  <2>4. T' = [T EXCEPT ![i].user_status = "FREE"]
    <3>1. After(seats, ws) = [seats EXCEPT ![i].user_status = "FREE"]
      BY <1>4, <2>2, AfterOne
    <3> QED
      BY <2>3, <3>1
  <2>5. valid_seats' = [valid_seats EXCEPT ![u] = {}]
    BY <1>4, <2>1, <2>2
  <2>6. Li' = [Li EXCEPT ![u] = {}]
    BY <1>1, <2>1, <2>5, ListChanged DEF Goto
  <2>7. Table!Leaves(u, "seated")
    BY <1>5, <1>6, <2>1, <2>6, LeavesFact
  <2> QED
    BY <2>4, <2>7 DEF Table!Free, T
<1> QED
  BY <1>8, <1>9, <1>10, <1>11, <1>12, <1>13 DEF UtNext

\* Read and written field by field, the table acts as the one table of Tabella: searches
\* and changes under stations_lock are single steps to each other
\* (operatore.c:31-50, 236-258, utente.c:197-223, 307-309, direttore.c:167-176).
THEOREM ActsAsOneTableCorrect == Spec => ActsAsOneTable
<1>1. Init => Table!Init
  <2> SUFFICES ASSUME Init PROVE Table!Init
    OBVIOUS
  <2>1. seats \in [Seats -> Seat]
    BY InvInit DEF Inv, Types
  <2>2. T = seats
    BY <2>1, AfterNone DEF T, Init
  <2>3. T = [i \in Seats |-> Table!Cleared(0)]
    BY <2>2 DEF Init, Table!Cleared
  <2>4. St = [p \in Processes |-> IF p \in Operators THEN "out" ELSE "idle"]
    BY DEF St, Stage, Init
  <2>5. Li = [v \in Users |-> {}]
    BY DEF Li, Init
  <2>6. opService \in [Operators -> Services]
    BY InvInit DEF Inv, Types
  <2> QED
    BY <2>3, <2>4, <2>5, <2>6 DEF Init, Table!Init, Table!Processes, Processes, T, St, Li
<1>2. Inv /\ Inv' /\ [Next]_vars => [Table!Next]_(Table!vars)
  <2> SUFFICES ASSUME Inv, Inv', [Next]_vars PROVE [Table!Next]_(Table!vars)
    OBVIOUS
  <2>1. CASE UNCHANGED vars
    <3>1. UNCHANGED <<T, opService, St, Li, place>>
      BY <2>1 DEF vars, locals, T, St, Stage, Li
    <3> QED
      BY <3>1, AbstractVars
  <2>2. CASE \E p \in Holders : MakeWrite(p) \/ Unlock(p)
    BY <2>2, MakeMaps, UnlockMaps
  <2>3. CASE \E o \in Operators : OpNext(o)
    BY <2>3, OpMaps DEF Table!Next
  <2>4. CASE \E u \in Users : UtNext(u)
    BY <2>4, UtMaps DEF Table!Next
  <2>5. CASE DirNewDay
    BY <2>5, DirMaps DEF Table!Next
  <2> QED
    BY <2>1, <2>2, <2>3, <2>4, <2>5 DEF Next, Holders
<1> QED
  BY <1>1, <1>2, InvInit, InvNext, PTL DEF Spec, ActsAsOneTable, Table!Spec

==============================================================================
