------------------------- MODULE OrderServiceProofs -------------------------
(***************************************************************************)
(* Proofs of the safety of OrderService for any requests, items, pool and  *)
(* clock.                                                                  *)
(***************************************************************************)
EXTENDS OrderServiceProperties, FoldTheorems

-----------------------------------------------------------------------------
(* GET /orders: what the loop over the result set makes of its rows.       *)

(* The orders in v are those of the first n rows of s, each once and with  *)
(* the items of all of its rows.                                           *)
Grouped(v, s, n) ==
  /\ \A i \in 1..Len(v) : \E k \in 1..n : s[k].order = v[i].order
  /\ \A k \in 1..n : \E i \in 1..Len(v) : v[i].order = s[k].order
  /\ \A i \in 1..Len(v) :
       v[i].items = UNION {ItemIn(s[k]) : k \in {j \in 1..n : s[j].order = v[i].order}}
  /\ \A i, j \in 1..Len(v) : i # j => v[i].order # v[j].order

LEMMA AddRowType ==
  ASSUME NEW v \in Seq(Order), NEW w \in Row
  PROVE  AddRow(v, w) \in Seq(Order)
<1>1. ItemIn(w) \in SUBSET Nat /\ w.order \in Nat
  BY DEF Row, ItemIn
<1>2. [order |-> w.order, items |-> ItemIn(w)] \in Order
  BY <1>1 DEF Order
<1>3. \A o \in Order : [o EXCEPT !.items = @ \cup ItemIn(w)] \in Order
  BY <1>1 DEF Order
<1>4. \A i \in 1..Len(v) : v[i] \in Order
  OBVIOUS
<1>5. [i \in 1..Len(v) |->
         IF v[i].order = w.order THEN [v[i] EXCEPT !.items = @ \cup ItemIn(w)] ELSE v[i]]
        \in Seq(Order)
  BY <1>3, <1>4
<1> QED
  BY <1>2, <1>5 DEF AddRow

(* AddRow finds the order of its row or makes it. *)
LEMMA AddRowGroups ==
  ASSUME NEW s, NEW n \in Nat, s[n + 1] \in Row,
         NEW v \in Seq(Order), Grouped(v, s, n)
  PROVE  Grouped(AddRow(v, s[n + 1]), s, n + 1)
<1> DEFINE w == s[n + 1]
           u == AddRow(v, w)
           Ids(m, o) == UNION {ItemIn(s[k]) : k \in {j \in 1..m : s[j].order = o}}
<1>1. 1..(n + 1) = (1..n) \cup {n + 1}
  OBVIOUS
<1>2. \A o : Ids(n + 1, o) = IF w.order = o THEN Ids(n, o) \cup ItemIn(w) ELSE Ids(n, o)
  BY <1>1
<1> DEFINE D == 1..Len(v)
           E == 1..Len(u)
<1>3. /\ \A i \in D : \E k \in 1..n : s[k].order = v[i].order
      /\ \A k \in 1..n : \E i \in D : v[i].order = s[k].order
      /\ \A i \in D : v[i].items = Ids(n, v[i].order)
      /\ \A i, j \in D : i # j => v[i].order # v[j].order
  BY DEF Grouped
<1>4. SUFFICES /\ \A i \in E : \E k \in 1..(n + 1) : s[k].order = u[i].order
               /\ \A k \in 1..(n + 1) : \E i \in E : u[i].order = s[k].order
               /\ \A i \in E : u[i].items = Ids(n + 1, u[i].order)
               /\ \A i, j \in E : i # j => u[i].order # u[j].order
  BY DEF Grouped
<1>5. Len(v) \in Nat /\ \A i \in D : v[i] \in Order
  OBVIOUS
<1>6. CASE \E i \in D : v[i].order = w.order
  <2>1. u = [i \in D |->
               IF v[i].order = w.order THEN [v[i] EXCEPT !.items = @ \cup ItemIn(w)] ELSE v[i]]
    BY <1>6 DEF AddRow
  <2>2. E = D
    BY <1>5, <2>1
  <2>3. \A i \in D :
          u[i].items = IF v[i].order = w.order THEN v[i].items \cup ItemIn(w) ELSE v[i].items
    BY <1>5, <2>1 DEF Order
  <2>4. \A i \in E : i \in D /\ u[i].order = v[i].order
    BY <1>5, <2>1, <2>2 DEF Order
  <2> HIDE DEF u, Ids, D, E, w
  <2>5. \A i \in E : \E k \in 1..(n + 1) : s[k].order = u[i].order
    BY <1>1, <1>3, <2>4
  <2>6. \A k \in 1..(n + 1) : \E i \in E : u[i].order = s[k].order
    <3>1. \A i \in D : i \in E
      BY <2>2
    <3> QED
      BY <1>1, <1>3, <1>6, <2>4, <3>1 DEF w
  <2>7. ASSUME NEW i \in E PROVE u[i].items = Ids(n + 1, u[i].order)
    <3>1. u[i].order = v[i].order /\ v[i].items = Ids(n, v[i].order)
      BY <1>3, <2>4
    <3> QED
      BY <1>2, <2>2, <2>3, <3>1
  <2>8. \A i, j \in E : i # j => u[i].order # u[j].order
    BY <1>3, <2>4
  <2> QED
    BY <2>5, <2>6, <2>7, <2>8
<1>7. CASE ~\E i \in D : v[i].order = w.order
  <2> DEFINE l == Len(v) + 1
  <2>1. u = Append(v, [order |-> w.order, items |-> ItemIn(w)])
    BY <1>7 DEF AddRow
  <2>2. /\ E = D \cup {l}
        /\ \A i \in D : u[i] = v[i]
        /\ u[l].order = w.order
        /\ u[l].items = ItemIn(w)
    BY <1>5, <2>1
  <2>3. Ids(n, w.order) = {}
    BY <1>3, <1>7
  <2> HIDE DEF u, Ids, D, E, l, w
  <2>4. \A i \in E : \E k \in 1..(n + 1) : s[k].order = u[i].order
    BY <1>1, <1>3, <2>2 DEF w
  <2>5. \A k \in 1..(n + 1) : \E i \in E : u[i].order = s[k].order
    BY <1>1, <1>3, <2>2 DEF w
  <2>6. ASSUME NEW i \in E PROVE u[i].items = Ids(n + 1, u[i].order)
    <3>1. CASE i \in D
      <4>1. u[i] = v[i] /\ v[i].items = Ids(n, v[i].order) /\ v[i].order # w.order
        BY <1>3, <1>7, <2>2, <3>1
      <4> QED
        BY <1>2, <4>1
    <3>2. CASE i = l
      <4>1. Ids(n + 1, w.order) = Ids(n, w.order) \cup ItemIn(w)
        BY <1>2
      <4> QED
        BY <2>2, <2>3, <3>2, <4>1
    <3> QED
      BY <2>2, <3>1, <3>2
  <2>7. \A i, j \in E : i # j => u[i].order # u[j].order
    BY <1>3, <1>7, <2>2, SMTT(60)
  <2> QED
    BY <2>4, <2>5, <2>6, <2>7
<1> QED
  BY <1>6, <1>7

(* The loop of GetOrders, one row after the other. *)
LEMMA FoldGroups ==
  ASSUME NEW s \in Seq(Row)
  PROVE  /\ FoldLeft(AddRow, << >>, s) \in Seq(Order)
         /\ Grouped(FoldLeft(AddRow, << >>, s), s, Len(s))
<1> DEFINE S == 1..Len(s)
           pick == [t \in SUBSET S |-> Max(t)]
           step == [a \in S \X Seq(Order) |-> AddRow(a[2], s[a[1]])]
           Unfolded(g) == [t \in SUBSET S |->
                             IF t = {} THEN << >>
                             ELSE LET x == Max(t) IN AddRow(g[t \ {x}], s[x])]
<1>1. Len(s) \in Nat /\ IsFiniteSet(S) /\ S = DOMAIN s /\ \A i \in S : s[i] \in Row
  BY FS_Interval
<1>2. \A t \in SUBSET S : t # {} => pick[t] \in t
  BY <1>1, MaxOfInterval
<1>3. step \in [S \X Seq(Order) -> Seq(Order)]
  BY <1>1, AddRowType
<1>4. PICK g \in [SUBSET S -> Seq(Order)] : Solves(g, S, << >>, step, pick)
  <2>1. << >> \in Seq(Order)
    OBVIOUS
  <2> HIDE DEF pick, step, S
  <2> QED
    BY <1>1, <1>2, <1>3, <2>1, FoldExists
<1>5. ASSUME NEW t \in SUBSET S, t # {}
      PROVE  /\ Max(t) \in t
             /\ g[t \ {Max(t)}] \in Seq(Order)
             /\ step[<<pick[t], g[t \ {pick[t]}]>>] = AddRow(g[t \ {Max(t)}], s[Max(t)])
  <2>1. Max(t) \in t /\ pick[t] = Max(t)
    BY <1>2, <1>5
  <2> DEFINE m == Max(t)
  <2>2. m \in S /\ g[t \ {m}] \in Seq(Order)
    BY <2>1
  <2> HIDE DEF m
  <2>3. step[<<m, g[t \ {m}]>>] = AddRow(g[t \ {m}], s[m])
    BY <2>2
  <2> HIDE DEF step, pick
  <2> QED
    BY <2>1, <2>2, <2>3 DEF m
<1>6. g = Unfolded(g)
  <2>1. \A t \in SUBSET S : g[t] = Unfolded(g)[t]
    <3> HIDE DEF step, pick
    <3> QED
      BY <1>4, <1>5 DEF Solves
  <2> QED
    BY <2>1
<1>7. PICK h : h = Unfolded(h) /\ FoldLeft(AddRow, << >>, s) = h[S]
  <2> DEFINE k == CHOOSE k : k = Unfolded(k)
  <2>1. k = Unfolded(k)
    <3> HIDE DEF Unfolded
    <3> QED
      BY <1>6
  <2>2. FoldLeft(AddRow, << >>, s) = k[S]
    BY <1>1 DEF FoldLeft, MapThenFoldSet
  <2> HIDE DEF k
  <2> QED
    BY <2>1, <2>2
<1>8. /\ h[1..0] = << >>
      /\ \A n \in Nat : n < Len(s) => h[1..(n + 1)] = AddRow(h[1..n], s[n + 1])
  <2>1. h[1..0] = << >>
    BY <1>7
  <2>2. ASSUME NEW n \in Nat, n < Len(s) PROVE h[1..(n + 1)] = AddRow(h[1..n], s[n + 1])
    <3>1. Max(1..(n + 1)) = n + 1
      BY MaxOfInterval
    <3>2. (1..(n + 1)) \ {n + 1} = 1..n /\ n + 1 \in 1..(n + 1) /\ 1..(n + 1) \subseteq S
      BY <1>1, <2>2
    <3> DEFINE t == 1..(n + 1)
    <3> HIDE DEF t
    <3>3. h[t] = AddRow(h[t \ {Max(t)}], s[Max(t)])
      BY <1>7, <3>2 DEF t
    <3> QED
      BY <3>1, <3>2, <3>3 DEF t
  <2> QED
    BY <2>1, <2>2
<1> DEFINE G == {n \in Nat : n <= Len(s) => h[1..n] \in Seq(Order) /\ Grouped(h[1..n], s, n)}
<1>9. 0 \in G
  <2>1. << >> \in Seq(Order) /\ Grouped(<< >>, s, 0)
    BY DEF Grouped
  <2> QED
    BY <1>8, <2>1
<1>10. ASSUME NEW n \in Nat, n \in G PROVE n + 1 \in G
  <2> SUFFICES ASSUME n + 1 <= Len(s)
               PROVE  h[1..(n + 1)] \in Seq(Order) /\ Grouped(h[1..(n + 1)], s, n + 1)
    OBVIOUS
  <2>1. n < Len(s) /\ n <= Len(s) /\ s[n + 1] \in Row
    BY <1>1
  <2>2. PICK v \in Seq(Order) : v = h[1..n] /\ Grouped(v, s, n)
    BY <1>10, <2>1
  <2> QED
    BY <1>8, <2>1, <2>2, AddRowType, AddRowGroups
<1>11. Len(s) \in G
  <2> HIDE DEF G
  <2> QED
    BY <1>1, <1>9, <1>10, NatSetInduction
<1>12. h[S] \in Seq(Order) /\ Grouped(h[S], s, Len(s))
  BY <1>1, <1>11
<1> QED
  BY <1>7, <1>12

(* A result set of the join has every joined row. *)
LEMMA JoinedHasAll ==
  ASSUME TypeOK, NEW s \in Joined
  PROVE  /\ s \in Seq(Row)
         /\ \A k \in 1..Len(s) : s[k] \in JoinedRows
         /\ \A w \in JoinedRows : \E k \in 1..Len(s) : s[k] = w
<1> DEFINE T == JoinedRows
           n == Cardinality(T)
<1>1. T \subseteq Row /\ IsFiniteSet(T)
  <2>1. T \subseteq rows
    BY DEF JoinedRows, InTable
  <2> HIDE DEF T
  <2> QED
    BY <2>1, FS_Subset DEF TypeOK
<1>2. n \in Nat
  BY <1>1, FS_CardinalityType
<1>3. s \in [1..n -> T] /\ \A i, j \in 1..n : i # j => s[i] # s[j]
  BY DEF Joined, SetToSeqs
<1> HIDE DEF T
<1>4. s \in Seq(T) /\ Len(s) = n
  <2> HIDE DEF n
  <2> QED
    BY <1>2, <1>3
<1>5. s \in Injection(1..n, T)
  BY <1>3 DEF Injection, IsInjective
<1>6. Cardinality(1..n) = n
  <2> HIDE DEF n
  <2> QED
    BY <1>2, FS_Interval
<1>7. s \in Surjection(1..n, T)
  BY <1>1, <1>5, <1>6, FS_Injection
<1>8. \A w \in T : \E k \in 1..n : s[k] = w
  BY <1>7 DEF Surjection
<1> QED
  BY <1>1, <1>3, <1>4, <1>8 DEF T

-----------------------------------------------------------------------------
(* Types.                                                                  *)

LEMMA TypeInit == Init => TypeOK
<1> SUFFICES ASSUME Init PROVE TypeOK
  OBVIOUS
<1>1. << >> \in Seq(Order) /\ IsFiniteSet({})
  BY FS_EmptySet
<1>2. view \in [Readers -> Seq(Order)] /\ broken \in [Readers -> BOOLEAN]
  BY <1>1 DEF Init
<1>3. asked \in [Readers -> [id : Nat, padded : BOOLEAN]]
  BY DEF Init
<1>4. /\ written \in [Creators -> SUBSET Row]
      /\ \A r \in Creators : IsFiniteSet(written[r])
  BY <1>1 DEF Init
<1>5. /\ pc \in [Requests -> {"new", "begin", "tx", "items", "done"}]
      /\ answer \in [Requests -> {"ok", "error", None}]
      /\ \A r \in Creators : pc[r] # "items"
      /\ \A r \in Readers : pc[r] \notin {"begin", "tx"}
  BY DEF Init, Requests
<1>6. /\ held \in [Creators \cup {Relay} -> Nat]
      /\ orderId \in [Creators -> Nat]
      /\ waiting \in [Creators -> Nat]
  BY DEF Init
<1>7. sent \in BOOLEAN /\ alive \in BOOLEAN /\ signalled \in BOOLEAN
  BY DEF Init
<1>8. now \in Nat \ {0} /\ rows = {} /\ faults \in Nat
  BY DEF Init
<1> QED
  BY <1>1, <1>2, <1>3, <1>4, <1>5, <1>6, <1>7, <1>8 DEF TypeOK

LEMMA NextRowType ==
  ASSUME TypeOK, NEW r \in Creators
  PROVE  /\ NextRow(r) \in Row
         /\ NextRow(r).table = NextTable(r)
         /\ NextRow(r).order = orderId[r]
         /\ NextRow(r).by = r
         /\ NextTable(r) = "orders" => NextRow(r).id = orderId[r]
BY DEF TypeOK, NextRow, NextTable, Row

LEMMA TypeStep ==
  ASSUME ServiceInvariant, [Next]_vars
  PROVE  TypeOK'
<1> USE ServiceAssumption
    DEF ServiceInvariant, Requests, vars, dbVars, createVars, readVars, relayVars, processVars,
        Answer, Fault, EndTransaction, Refuse
<1>1. CASE UNCHANGED vars
  BY <1>1 DEF TypeOK
<1>2. CASE Tick
  BY <1>2 DEF TypeOK, Tick
<1>3. ASSUME NEW r \in Creators, Accept(r) PROVE TypeOK'
  BY <1>3 DEF TypeOK, Accept
<1>4. ASSUME NEW r \in Creators, Begin(r) PROVE TypeOK'
  BY <1>4 DEF TypeOK, Begin
<1>5. ASSUME NEW r \in Creators, Insert(r) PROVE TypeOK'
  <2>1. NextRow(r) \in Row
    BY NextRowType
  <2>2. /\ written' = [written EXCEPT ![r] = @ \cup {NextRow(r)}]
        /\ waiting' = [waiting EXCEPT ![r] = 0]
        /\ UNCHANGED <<now, rows, published, pc, answer, orderId, held, readVars, relayVars,
                       processVars, faults>>
    BY <1>5 DEF Insert, Execute
  <2>3. IsFiniteSet(written[r] \cup {NextRow(r)})
    BY FS_AddElement DEF TypeOK
  <2> QED
    BY <2>1, <2>2, <2>3 DEF TypeOK
<1>6. ASSUME NEW r \in Creators, InsertRefused(r) PROVE TypeOK'
  BY <1>6, FS_EmptySet DEF TypeOK, InsertRefused
<1>7. ASSUME NEW r \in Creators PROVE IsFiniteSet(rows \cup written[r])
  BY FS_Union DEF TypeOK
<1>8. ASSUME NEW r \in Creators, Commit(r) PROVE TypeOK'
  BY <1>7, <1>8, FS_EmptySet DEF TypeOK, Commit
<1>9. ASSUME NEW r \in Creators, CreateFails(r) PROVE TypeOK'
  <2>1. rows' = rows \/ rows' = rows \cup written[r]
    BY <1>9 DEF CreateFails
  <2>2. rows' \subseteq Row /\ IsFiniteSet(rows')
    BY <1>7, <2>1 DEF TypeOK
  <2> QED
    BY <1>9, <2>2, FS_EmptySet DEF TypeOK, CreateFails
<1>10. ASSUME NEW r \in Readers, NEW id \in 1..MaxNow, NEW padded \in BOOLEAN,
              GetOrder(r, id, padded)
       PROVE  TypeOK'
  <2>1. [id |-> id, padded |-> padded] \in [id : Nat, padded : BOOLEAN]
    OBVIOUS
  <2>2. asked' \in [Readers -> [id : Nat, padded : BOOLEAN]]
    BY <1>10, <2>1 DEF TypeOK, GetOrder
  <2>3. /\ pc' = [pc EXCEPT ![r] = "items"] \/ pc' = [pc EXCEPT ![r] = "done"]
        /\ answer' = answer \/ answer' = [answer EXCEPT ![r] = "error"]
    BY <1>10 DEF GetOrder
  <2>4. /\ pc' \in [Requests -> {"new", "begin", "tx", "items", "done"}]
        /\ answer' \in [Requests -> {"ok", "error", None}]
        /\ \A q \in Creators : pc'[q] # "items"
        /\ \A q \in Readers : pc'[q] \notin {"begin", "tx"}
    BY <2>3, ZenonT(60) DEF TypeOK
  <2>5. UNCHANGED <<now, rows, orderId, written, waiting, held, view, broken, sent, alive, signalled,
                    faults>>
    BY <1>10 DEF GetOrder
  <2> QED
    BY <2>2, <2>4, <2>5 DEF TypeOK
<1>11. ASSUME NEW r \in Readers, GetItems(r) PROVE TypeOK'
  <2>1. \A o : ItemsOf(o) \in SUBSET Nat
    BY DEF ItemsOf, InTable, TypeOK, Row
  <2>2. asked[r].id \in Nat
    BY DEF TypeOK
  <2>3. view'[r] \in Seq(Order) /\ view' = [view EXCEPT ![r] = view'[r]]
    BY <1>11, <2>1, <2>2 DEF TypeOK, GetItems, Order
  <2> QED
    BY <1>11, <2>3 DEF TypeOK, GetItems
<1>12. ASSUME NEW r \in Readers, ReadFails(r) PROVE TypeOK'
  BY <1>12 DEF TypeOK, ReadFails
<1>13. ASSUME NEW r \in Readers, GetOrders(r) PROVE TypeOK'
  <2>1. PICK s \in Joined :
          \/ /\ view' = [view EXCEPT ![r] = FoldLeft(AddRow, << >>, s)]
             /\ UNCHANGED <<broken, faults>>
          \/ \E n \in 0..(Len(s) - 1) :
               /\ Fault
               /\ view' = [view EXCEPT ![r] = FoldLeft(AddRow, << >>, SubSeq(s, 1, n))]
               /\ broken' = [broken EXCEPT ![r] = TRUE]
    BY <1>13 DEF GetOrders
  <2>2. s \in Seq(Row)
    BY JoinedHasAll
  <2>3. \A n \in 0..(Len(s) - 1) : SubSeq(s, 1, n) \in Seq(Row)
    BY <2>2
  <2>4. \A t \in Seq(Row) : FoldLeft(AddRow, << >>, t) \in Seq(Order)
    BY FoldGroups
  <2>5. /\ \E v \in Seq(Order) : view' = [view EXCEPT ![r] = v]
        /\ broken' = broken \/ broken' = [broken EXCEPT ![r] = TRUE]
        /\ faults' \in Nat
    <3>1. CASE /\ view' = [view EXCEPT ![r] = FoldLeft(AddRow, << >>, s)]
               /\ UNCHANGED <<broken, faults>>
      BY <2>2, <2>4, <3>1 DEF TypeOK
    <3>2. ASSUME NEW n \in 0..(Len(s) - 1), Fault,
                 view' = [view EXCEPT ![r] = FoldLeft(AddRow, << >>, SubSeq(s, 1, n))],
                 broken' = [broken EXCEPT ![r] = TRUE]
          PROVE  /\ \E v \in Seq(Order) : view' = [view EXCEPT ![r] = v]
                 /\ broken' = broken \/ broken' = [broken EXCEPT ![r] = TRUE]
                 /\ faults' \in Nat
      <4>1. faults' \in Nat
        BY <3>2 DEF TypeOK
      <4>2. FoldLeft(AddRow, << >>, SubSeq(s, 1, n)) \in Seq(Order)
        BY <2>3, <2>4
      <4> QED
        BY <3>2, <4>1, <4>2
    <3> QED
      BY <2>1, <3>1, <3>2
  <2>6. view' \in [Readers -> Seq(Order)]
    <3>1. PICK v \in Seq(Order) : view' = [view EXCEPT ![r] = v]
      BY <2>5
    <3> QED
      BY <3>1 DEF TypeOK
  <2>7. broken' \in [Readers -> BOOLEAN]
    BY <2>5 DEF TypeOK
  <2> QED
    BY <1>13, <2>5, <2>6, <2>7 DEF TypeOK, GetOrders
<1>14. CASE Select
  BY <1>14 DEF TypeOK, Select
<1>15. CASE Publish
  BY <1>15 DEF TypeOK, Publish
<1>16. CASE Mark
  <2>1. batch # {} /\ held[Relay] = 1
    BY <1>16 DEF Mark, ConnectionsAccounted
  <2>2. held' \in [Creators \cup {Relay} -> Nat]
    BY <1>16, <2>1 DEF TypeOK, Mark
  <2> QED
    BY <1>16, <2>2 DEF TypeOK, Mark
<1>17. CASE RelayFails \/ Terminate
  <2>1. batch # {} => held[Relay] = 1
    BY DEF ConnectionsAccounted
  <2>2. held' \in [Creators \cup {Relay} -> Nat]
    BY <1>17, <2>1 DEF TypeOK, RelayFails, Terminate, EndCycle
  <2>3. sent' = FALSE /\ (signalled' = signalled \/ signalled' = TRUE) /\ alive' = alive
    BY <1>17 DEF RelayFails, Terminate, EndCycle
  <2>4. sent' \in BOOLEAN /\ signalled' \in BOOLEAN /\ alive' \in BOOLEAN
    BY <2>3 DEF TypeOK
  <2>5. faults' \in Nat
    BY <1>17 DEF RelayFails, Terminate, TypeOK
  <2>6. UNCHANGED <<now, rows, pc, answer, orderId, written, waiting, asked, view, broken>>
    BY <1>17 DEF RelayFails, Terminate
  <2> QED
    BY <2>2, <2>4, <2>5, <2>6 DEF TypeOK
<1>18. CASE Kill
  <2>1. held' \in [Creators \cup {Relay} -> Nat]
    BY <1>18 DEF TypeOK, Kill
  <2>2. faults' \in Nat /\ signalled' = signalled /\ alive' = FALSE /\ sent' = FALSE
    BY <1>18 DEF TypeOK, Kill
  <2>3. /\ waiting' \in [Creators -> Nat]
        /\ written' \in [Creators -> SUBSET Row]
        /\ \A r \in Creators : IsFiniteSet(written'[r])
    BY <1>18, FS_EmptySet DEF Kill
  <2>4. /\ pc' \in [Requests -> {"new", "begin", "tx", "items", "done"}]
        /\ \A r \in Creators : pc'[r] # "items"
        /\ \A r \in Readers : pc'[r] \notin {"begin", "tx"}
    BY <1>18 DEF TypeOK, Kill
  <2>5. UNCHANGED <<now, rows, answer, orderId, asked, view, broken>>
    BY <1>18 DEF Kill
  <2> QED
    BY <2>1, <2>2, <2>3, <2>4, <2>5 DEF TypeOK
<1>19. CASE Restart
  BY <1>19 DEF TypeOK, Restart
<1>20. ASSUME NEW r \in Creators, Wait(r) PROVE TypeOK'
  <2>1. NextRow(r).id \in Nat
    BY NextRowType DEF Row
  <2> QED
    BY <1>20, <2>1 DEF TypeOK, Wait
<1> QED
  BY <1>1, <1>2, <1>3, <1>4, <1>5, <1>6, <1>8, <1>9, <1>10, <1>11, <1>12, <1>13, <1>14, <1>15,
     <1>16, <1>17, <1>18, <1>19, <1>20 DEF Next, Create, Cycle
-----------------------------------------------------------------------------
(* The tables.                                                             *)

TablesOK == OrdersAreKeyed /\ WrittenInTurn /\ KeysAreLocked /\ WholeOrders

(* A transaction is rolled back, or nothing happens to it.                 *)
LEMMA TablesForget ==
  ASSUME TypeOK, TablesOK, rows' = rows,
         \A r \in Creators :
           \/ written'[r] = {}
           \/ written'[r] = written[r] /\ pc'[r] = pc[r] /\ orderId'[r] = orderId[r]
  PROVE  TablesOK'
<1> USE DEF TablesOK
<1>1. \A r \in Creators : written'[r] \subseteq written[r]
  OBVIOUS
<1>2. OrdersAreKeyed'
  BY <1>1 DEF OrdersAreKeyed, InTable
<1>3. WrittenInTurn'
  <2> SUFFICES ASSUME NEW r \in Creators
               PROVE  LET W == written'[r]
                      IN  /\ W # {} => pc'[r] = "tx"
                          /\ \A w \in W : w.by = r /\ w.order = orderId'[r]
                          /\ W # {} => Cardinality(InTable(W, "orders")) = 1
                          /\ Cardinality(InTable(W, "order_items")) <= ItemCount[r]
                          /\ InTable(W, "outbox") # {} =>
                               /\ Cardinality(InTable(W, "order_items")) = ItemCount[r]
                               /\ Cardinality(InTable(W, "outbox")) = 1
    BY DEF WrittenInTurn
  <2>1. CASE written'[r] = {}
    <3>1. \A t : InTable({}, t) = {}
      BY DEF InTable
    <3>2. Cardinality({}) = 0 /\ ItemCount[r] \in Nat
      BY FS_EmptySet, ServiceAssumption
    <3> QED
      BY <2>1, <3>1, <3>2
  <2>2. CASE written'[r] = written[r] /\ pc'[r] = pc[r] /\ orderId'[r] = orderId[r]
    BY <2>2 DEF WrittenInTurn
  <2> QED
    BY <2>1, <2>2
<1>4. KeysAreLocked'
  BY <1>1 DEF KeysAreLocked
<1>5. WholeOrders'
  BY DEF WholeOrders, InTable
<1> QED
  BY <1>2, <1>3, <1>4, <1>5

(* Insert adds the row that is next, with a key that nobody has.           *)
LEMMA TablesInsert ==
  ASSUME TypeOK, TablesOK, NEW r \in Creators, Insert(r)
  PROVE  TablesOK'
<1> USE DEF TablesOK
<1> DEFINE n == NextRow(r)
           W == written[r]
<1>1. /\ n \in Row /\ n.table = NextTable(r) /\ n.order = orderId[r] /\ n.by = r
      /\ NextTable(r) = "orders" => n.id = orderId[r]
  BY NextRowType
<1>2. /\ written' = [written EXCEPT ![r] = @ \cup {NextRow(r)}]
      /\ rows' = rows /\ pc' = pc /\ orderId' = orderId /\ pc[r] = "tx"
      /\ ~AllWritten(r) /\ ~Duplicate(r) /\ ~WaitsForKey(r)
  BY DEF Insert, Execute
<1>3. /\ \A v \in rows \cup W : ~SameKey(v, n)
      /\ \A s \in Creators \ {r} : \A v \in written[s] : ~SameKey(v, n)
  BY <1>2 DEF Duplicate, WaitsForKey
<1>4. n \notin W
  BY <1>3 DEF SameKey
<1>5. /\ written'[r] = W \cup {n}
      /\ \A s \in Creators \ {r} : written'[s] = written[s]
      /\ InTable(W, "outbox") = {}
  BY <1>2 DEF TypeOK, AllWritten
<1>6. IsFiniteSet(W) /\ \A t : IsFiniteSet(InTable(W, t)) /\ Cardinality(InTable(W, t)) \in Nat
  <2>1. IsFiniteSet(W)
    BY DEF TypeOK
  <2>2. \A t : InTable(W, t) \in SUBSET W
    BY DEF InTable
  <2> QED
    BY <2>1, <2>2, FS_Subset, FS_CardinalityType
<1>7. \A t : InTable(W \cup {n}, t) = IF t = NextTable(r) THEN InTable(W, t) \cup {n}
                                      ELSE InTable(W, t)
  BY <1>1 DEF InTable
<1>8. \A t : n \notin InTable(W, t)
  BY <1>4 DEF InTable
<1>9. Cardinality(InTable(W \cup {n}, NextTable(r))) = Cardinality(InTable(W, NextTable(r))) + 1
  <2> DEFINE T == InTable(W, NextTable(r))
  <2>1. IsFiniteSet(T) /\ n \notin T /\ InTable(W \cup {n}, NextTable(r)) = T \cup {n}
    BY <1>6, <1>7, <1>8
  <2> HIDE DEF T, n
  <2>2. Cardinality(T \cup {n}) = Cardinality(T) + 1
    BY <2>1, FS_AddElement
  <2> QED
    BY <2>1, <2>2 DEF T
<1> HIDE DEF n, W
<1>10. OrdersAreKeyed'
  <2> SUFFICES ASSUME NEW w \in InTable(rows' \cup UNION {written'[s] : s \in Creators}, "orders")
               PROVE  w.id = w.order
    BY DEF OrdersAreKeyed
  <2>1. w.table = "orders" /\ (w \in rows \/ \E s \in Creators : w \in written'[s])
    BY <1>2 DEF InTable
  <2>2. CASE w = n
    BY <1>1, <2>1, <2>2
  <2>3. CASE w # n
    <3>1. w \in rows \/ \E s \in Creators : w \in written[s]
      BY <1>5, <2>1, <2>3 DEF W
    <3> QED
      BY <2>1, <3>1 DEF OrdersAreKeyed, InTable
  <2> QED
    BY <2>2, <2>3
<1>11. WrittenInTurn'
  <2>1. /\ \A w \in W : w.by = r /\ w.order = orderId[r]
        /\ W # {} => Cardinality(InTable(W, "orders")) = 1
        /\ Cardinality(InTable(W, "order_items")) <= ItemCount[r]
    BY DEF WrittenInTurn, W
  <2>2. ItemCount[r] \in Nat
    BY ServiceAssumption
  <2>3. InTable({}, "orders") = {} /\ Cardinality({}) = 0
    BY FS_EmptySet DEF InTable
  <2>4. Cardinality(InTable(W \cup {n}, "orders")) = 1
    <3>1. CASE InTable(W, "orders") = {}
      <4>1. NextTable(r) = "orders"
        BY <3>1 DEF NextTable, W
      <4> QED
        BY <1>9, <2>3, <3>1, <4>1
    <3>2. CASE InTable(W, "orders") # {}
      <4>1. NextTable(r) # "orders" /\ W # {}
        BY <2>3, <3>2 DEF NextTable, W
      <4> QED
        BY <1>7, <2>1, <4>1
    <3> QED
      BY <3>1, <3>2
  <2>5. Cardinality(InTable(W \cup {n}, "order_items")) <= ItemCount[r]
    <3>1. CASE NextTable(r) = "order_items"
      <4>1. Cardinality(InTable(W, "order_items")) < ItemCount[r]
        BY <3>1 DEF NextTable, W
      <4> QED
        BY <1>6, <1>9, <2>2, <3>1, <4>1
    <3>2. CASE NextTable(r) # "order_items"
      BY <1>7, <2>1, <3>2
    <3> QED
      BY <3>1, <3>2
  <2>6. ASSUME InTable(W \cup {n}, "outbox") # {}
        PROVE  /\ Cardinality(InTable(W \cup {n}, "order_items")) = ItemCount[r]
               /\ Cardinality(InTable(W \cup {n}, "outbox")) = 1
    <3>1. NextTable(r) = "outbox"
      BY <1>5, <1>7, <2>6
    <3>2. ~(Cardinality(InTable(W, "order_items")) < ItemCount[r])
      BY <3>1 DEF NextTable, W
    <3>3. Cardinality(InTable(W, "order_items")) = ItemCount[r]
      BY <1>6, <2>1, <2>2, <3>2
    <3>4. InTable(W \cup {n}, "order_items") = InTable(W, "order_items")
      BY <1>7, <3>1
    <3>5. Cardinality(InTable(W, "outbox")) = 0
      BY <1>5, <2>3
    <3> QED
      BY <1>9, <3>1, <3>3, <3>4, <3>5
  <2> HIDE DEF WrittenInTurn
  <2>7. ASSUME NEW s \in Creators
        PROVE  LET V == written'[s]
               IN  /\ V # {} => pc'[s] = "tx"
                   /\ \A w \in V : w.by = s /\ w.order = orderId'[s]
                   /\ V # {} => Cardinality(InTable(V, "orders")) = 1
                   /\ Cardinality(InTable(V, "order_items")) <= ItemCount[s]
                   /\ InTable(V, "outbox") # {} =>
                        /\ Cardinality(InTable(V, "order_items")) = ItemCount[s]
                        /\ Cardinality(InTable(V, "outbox")) = 1
    <3>1. CASE s = r
      <4>1. \A w \in W \cup {n} : w.by = r /\ w.order = orderId[r]
        BY <1>1, <2>1
      <4> QED
        BY <1>2, <1>5, <2>4, <2>5, <2>6, <3>1, <4>1
    <3>2. CASE s # r
      BY <1>2, <1>5, <3>2 DEF WrittenInTurn
    <3> QED
      BY <3>1, <3>2
  <2> QED
    BY <2>7 DEF WrittenInTurn
<1>12. KeysAreLocked'
  <2>1. ASSUME NEW s \in Creators, NEW w \in written'[s], NEW v \in rows PROVE ~SameKey(v, w)
    BY <1>3, <1>5, <2>1 DEF KeysAreLocked, W
  <2>2. ASSUME NEW s \in Creators, NEW w \in written'[s],
               NEW q \in Creators \ {s}, NEW v \in written'[q]
        PROVE  ~SameKey(v, w)
    <3>1. CASE s # r /\ q # r
      BY <1>5, <2>2, <3>1 DEF KeysAreLocked
    <3>2. CASE s = r
      BY <1>3, <1>5, <2>2, <3>2 DEF KeysAreLocked, W
    <3>3. CASE q = r
      BY <1>3, <1>5, <2>2, <3>3 DEF KeysAreLocked, W, SameKey
    <3> QED
      BY <3>1, <3>2, <3>3
  <2> QED
    BY <1>2, <2>1, <2>2 DEF KeysAreLocked, SameKey
<1>13. WholeOrders'
  BY <1>2 DEF WholeOrders, InTable
<1> QED
  BY <1>10, <1>11, <1>12, <1>13
(* The order of a transaction is nobody's yet: its row of orders has the   *)
(* key that an older order of this id would have.                          *)
LEMMA OrderIsNew ==
  ASSUME TypeOK, TablesOK, NEW r \in Creators, written[r] # {}, NEW w \in rows
  PROVE  w.order # orderId[r]
<1> USE DEF TablesOK
<1> SUFFICES ASSUME w.order = orderId[r] PROVE FALSE
  OBVIOUS
<1> DEFINE T == InTable({v \in rows : v.order = w.order}, "orders")
           V == InTable(written[r], "orders")
<1>1. Cardinality({}) = 0
  BY FS_EmptySet
<1>2. Cardinality(T) = 1
  BY DEF WholeOrders
<1>3. Cardinality(V) = 1
  BY DEF WrittenInTurn
<1> HIDE DEF T, V
<1>4. PICK u \in T : TRUE
  BY <1>1, <1>2
<1>5. PICK v \in V : TRUE
  BY <1>1, <1>3
<1>6. u \in rows /\ u.table = "orders" /\ u.order = w.order /\ u.id = u.order
  BY <1>4 DEF InTable, OrdersAreKeyed, T
<1>7. v \in written[r] /\ v.table = "orders" /\ v.order = orderId[r] /\ v.id = v.order
  BY <1>5, ZenonT(60) DEF InTable, OrdersAreKeyed, WrittenInTurn, V
<1>8. ~SameKey(u, v)
  BY <1>6, <1>7 DEF KeysAreLocked
<1> QED
  BY <1>6, <1>7, <1>8 DEF SameKey

(* A commit adds a whole order.                                            *)
LEMMA TablesCommit ==
  ASSUME TypeOK, TablesOK, NEW r \in Creators, AllWritten(r),
         rows' = rows \cup written[r], orderId' = orderId,
         written' = [written EXCEPT ![r] = {}],
         \A s \in Creators \ {r} : pc'[s] = pc[s]
  PROVE  TablesOK'
<1> USE DEF TablesOK
<1> DEFINE W == written[r]
<1>1. W # {} /\ InTable(W, "outbox") # {}
  BY DEF AllWritten, InTable
<1>2. /\ \A w \in W : w.by = r /\ w.order = orderId[r]
      /\ Cardinality(InTable(W, "orders")) = 1
      /\ Cardinality(InTable(W, "order_items")) = ItemCount[r]
      /\ Cardinality(InTable(W, "outbox")) = 1
  BY <1>1 DEF WrittenInTurn
<1>3. /\ written'[r] = {}
      /\ \A s \in Creators \ {r} : written'[s] = written[s]
  BY DEF TypeOK
<1>4. \A w \in rows : w.order # orderId[r]
  BY <1>1, OrderIsNew
<1>5. OrdersAreKeyed'
  BY <1>3 DEF OrdersAreKeyed, InTable
<1>6. WrittenInTurn'
  <2>1. ASSUME NEW s \in Creators
        PROVE  written'[s] = {} \/ (written'[s] = written[s] /\ pc'[s] = pc[s])
    <3>1. CASE s = r
      BY <1>3, <3>1
    <3>2. CASE s # r
      BY <1>3, <3>2
    <3> QED
      BY <3>1, <3>2
  <2>2. (\A t : InTable({}, t) = {}) /\ Cardinality({}) = 0
    BY FS_EmptySet DEF InTable
  <2>3. \A s \in Creators : 0 <= ItemCount[s]
    BY ServiceAssumption
  <2>4. ASSUME NEW s \in Creators
        PROVE  LET V == written'[s]
               IN  /\ V # {} => pc'[s] = "tx"
                   /\ \A w \in V : w.by = s /\ w.order = orderId'[s]
                   /\ V # {} => Cardinality(InTable(V, "orders")) = 1
                   /\ Cardinality(InTable(V, "order_items")) <= ItemCount[s]
                   /\ InTable(V, "outbox") # {} =>
                        /\ Cardinality(InTable(V, "order_items")) = ItemCount[s]
                        /\ Cardinality(InTable(V, "outbox")) = 1
    <3>1. CASE written'[s] = {}
      BY <2>2, <2>3, <3>1
    <3>2. CASE written'[s] = written[s] /\ pc'[s] = pc[s]
      BY <3>2 DEF WrittenInTurn
    <3> QED
      BY <2>1, <3>1, <3>2
  <2> QED
    BY <2>4 DEF WrittenInTurn
<1>7. KeysAreLocked'
  <2>1. ASSUME NEW s \in Creators, NEW w \in written'[s], NEW v \in rows \cup W
        PROVE  ~SameKey(v, w)
    <3>1. s # r /\ w \in written[s]
      BY <1>3, <2>1
    <3> QED
      BY <3>1 DEF KeysAreLocked
  <2>2. ASSUME NEW s \in Creators, NEW w \in written'[s],
               NEW q \in Creators \ {s}, NEW v \in written'[q]
        PROVE  ~SameKey(v, w)
    BY <1>3, <2>2 DEF KeysAreLocked
  <2> QED
    BY <2>1, <2>2 DEF KeysAreLocked, SameKey
<1>8. WholeOrders'
  <2> DEFINE Same(R, w) == {v \in R : v.order = w.order}
  <2> SUFFICES ASSUME NEW w \in rows \cup W
               PROVE  /\ \A v \in Same(rows \cup W, w) : v.by = w.by
                      /\ Cardinality(InTable(Same(rows \cup W, w), "orders")) = 1
                      /\ Cardinality(InTable(Same(rows \cup W, w), "order_items")) = ItemCount[w.by]
                      /\ Cardinality(InTable(Same(rows \cup W, w), "outbox")) = 1
    BY DEF WholeOrders, InTable
  <2>1. CASE w \in W
    <3>1. Same(rows \cup W, w) = W
      BY <1>2, <1>4, <2>1
    <3> QED
      BY <1>2, <2>1, <3>1
  <2>2. CASE w \in rows
    <3>1. Same(rows \cup W, w) = Same(rows, w)
      BY <1>2, <1>4, <2>2
    <3> QED
      BY <2>2, <3>1 DEF WholeOrders
  <2> QED
    BY <2>1, <2>2
<1> QED
  BY <1>5, <1>6, <1>7, <1>8

LEMMA TablesStep ==
  ASSUME ServiceInvariant, [Next]_vars
  PROVE  TablesOK'
<1>1. TypeOK /\ TablesOK /\ WrittenInTurn
  BY DEF ServiceInvariant, TablesOK
<1>2. ASSUME UNCHANGED <<rows, written, pc, orderId>> PROVE TablesOK'
  BY <1>1, <1>2, TablesForget
<1>3. ASSUME NEW r \in Creators, Accept(r) PROVE TablesOK'
  <2>1. written[r] = {} /\ written' = written /\ rows' = rows
    BY <1>1, <1>3 DEF Accept, WrittenInTurn, dbVars
  <2>2. \A s \in Creators \ {r} : pc'[s] = pc[s] /\ orderId'[s] = orderId[s]
    BY <1>1, <1>3 DEF Accept, TypeOK
  <2> QED
    BY <1>1, <2>1, <2>2, TablesForget
<1>4. ASSUME NEW r \in Creators, Begin(r) PROVE TablesOK'
  <2>1. written[r] = {} /\ written' = written /\ rows' = rows /\ orderId' = orderId
    BY <1>1, <1>4 DEF Begin, WrittenInTurn, dbVars, createVars
  <2>2. \A s \in Creators \ {r} : pc'[s] = pc[s]
    BY <1>1, <1>4 DEF Begin, TypeOK
  <2> QED
    BY <1>1, <2>1, <2>2, TablesForget
<1>5. ASSUME NEW r \in Creators, Refuse(r), orderId' = orderId PROVE
      /\ written' = [written EXCEPT ![r] = {}]
      /\ \A s \in Creators \ {r} : pc'[s] = pc[s]
      /\ rows' = rows => TablesOK'
  <2>1. written' = [written EXCEPT ![r] = {}] /\ pc' = [pc EXCEPT ![r] = "done"]
    BY <1>5 DEF Refuse, EndTransaction, Answer
  <2>2. \A s \in Creators \ {r} : pc'[s] = pc[s] /\ written'[s] = written[s]
    BY <1>1, <2>1 DEF TypeOK
  <2>3. written'[r] = {}
    BY <1>1, <2>1 DEF TypeOK
  <2> QED
    BY <1>1, <1>5, <2>1, <2>2, <2>3, TablesForget
<1>6. ASSUME NEW r \in Creators, InsertRefused(r) PROVE TablesOK'
  BY <1>5, <1>6 DEF InsertRefused, dbVars
<1>7. ASSUME NEW r \in Creators, Commit(r) PROVE TablesOK'
  <2>1. /\ written' = [written EXCEPT ![r] = {}] /\ pc' = [pc EXCEPT ![r] = "done"]
        /\ orderId' = orderId /\ AllWritten(r) /\ rows' = rows \cup written[r]
    BY <1>7 DEF Commit, EndTransaction, Answer
  <2>2. \A s \in Creators \ {r} : pc'[s] = pc[s]
    BY <1>1, <2>1 DEF TypeOK
  <2> QED
    BY <1>1, <2>1, <2>2, TablesCommit
<1>8. ASSUME NEW r \in Creators, CreateFails(r) PROVE TablesOK'
  <2>1. /\ Refuse(r) /\ orderId' = orderId
        /\ rows' = rows \/ (AllWritten(r) /\ rows' = rows \cup written[r])
    BY <1>8 DEF CreateFails
  <2> QED
    BY <1>1, <1>5, <2>1, TablesCommit
<1>9. ASSUME NEW r \in Readers, UNCHANGED <<rows, written, orderId>>,
             \E x : pc' = [pc EXCEPT ![r] = x]
      PROVE  TablesOK'
  <2>1. \A s \in Creators : pc'[s] = pc[s]
    BY <1>1, <1>9, ServiceAssumption DEF TypeOK, Requests
  <2> QED
    BY <1>1, <1>9, <2>1, TablesForget
<1>10. CASE Kill
  BY <1>1, <1>10, TablesForget DEF Kill, dbVars
<1>11. ASSUME NEW r \in Readers, NEW id \in 1..MaxNow, NEW padded \in BOOLEAN,
              GetOrder(r, id, padded)
       PROVE  TablesOK'
  BY <1>9, <1>11 DEF GetOrder, Answer, dbVars, createVars
<1>12. ASSUME NEW r \in Readers, GetItems(r) \/ ReadFails(r) \/ GetOrders(r) PROVE TablesOK'
  BY <1>9, <1>12 DEF GetItems, ReadFails, GetOrders, Answer, dbVars, createVars
<1>13. ASSUME Tick \/ Cycle \/ RelayFails \/ Terminate \/ Restart \/ UNCHANGED vars PROVE TablesOK'
  BY <1>2, <1>13
     DEF vars, Tick, Cycle, Select, Publish, Mark, RelayFails, Terminate, Restart, dbVars, createVars
<1>14. ASSUME NEW r \in Creators, Insert(r) PROVE TablesOK'
  BY <1>1, <1>14, TablesInsert
<1>15. ASSUME NEW r \in Creators, Wait(r) PROVE TablesOK'
  BY <1>2, <1>15 DEF Wait, dbVars
<1> QED
  BY <1>3, <1>4, <1>6, <1>7, <1>8, <1>10, <1>11, <1>12, <1>13, <1>14, <1>15 DEF Next, Create
-----------------------------------------------------------------------------
(* The pool.                                                               *)

(* Who gives a connection back, or takes one when there is one, leaves the *)
(* pool with a number of connections that it can have.                     *)
LEMMA FreeInBounds ==
  ASSUME TypeOK, TypeOK', Free \in 0..PoolSize, NEW a \in Creators \cup {Relay},
         \A x \in (Creators \cup {Relay}) \ {a} : held'[x] = held[x],
         held'[a] <= held[a] \/ (Free > 0 /\ held'[a] = held[a] + 1)
  PROVE  Free' \in 0..PoolSize
<1> DEFINE S == Creators \cup {Relay}
<1>1. IsFiniteSet(S)
  BY FS_AddElement, ServiceAssumption
<1>2. held \in [S -> Nat] /\ held' \in [S -> Nat]
  BY DEF TypeOK
<1>3. PICK f \in [S -> Nat], h \in [S -> Nat] : f = held /\ h = held'
  BY <1>2
<1>4. f \in [S -> Int] /\ h \in [S -> Int] /\ \A x \in S \ {a} : h[x] = f[x]
  BY <1>3
<1> HIDE DEF S
<1>5. SumFunction(h) = SumFunction(f) + h[a] - f[a]
  BY <1>1, <1>4, SumChange DEF S
<1>6. SumFunction(f) \in Nat /\ SumFunction(h) \in Nat
  BY <1>1, <1>3, SumIsNat
<1>7. Free = PoolSize - SumFunction(f) /\ Free' = PoolSize - SumFunction(h)
  BY <1>3 DEF Free
<1>8. h[a] \in Nat /\ f[a] \in Nat /\ PoolSize \in Nat
  BY <1>3, ServiceAssumption DEF S
<1>9. h[a] <= f[a] \/ (Free > 0 /\ h[a] = f[a] + 1)
  BY <1>3
<1> QED
  BY <1>5, <1>6, <1>7, <1>8, <1>9

LEMMA NobodyHolds ==
  held = [a \in Creators \cup {Relay} |-> 0] => Free = PoolSize
<1> SUFFICES ASSUME held = [a \in Creators \cup {Relay} |-> 0] PROVE Free = PoolSize
  OBVIOUS
<1> DEFINE S == Creators \cup {Relay}
<1>1. IsFiniteSet(S)
  BY FS_AddElement, ServiceAssumption
<1>2. PICK f \in [S -> Int] : f = held /\ \A x \in S : f[x] = 0
  OBVIOUS
<1> HIDE DEF S
<1>3. SumFunction(f) = 0
  BY <1>1, <1>2, SumOfZeros
<1> QED
  BY <1>2, <1>3, ServiceAssumption DEF Free

LEMMA PoolStep ==
  ASSUME ServiceInvariant, TypeOK', [Next]_vars
  PROVE  ConnectionsAccounted'
<1>1. TypeOK /\ ConnectionsAccounted
  BY DEF ServiceInvariant
<1>2. \A r \in Creators : r # Relay /\ r \in Creators \cup {Relay}
  BY ServiceAssumption DEF Relay
<1>3. ASSUME held' = held, batch' = batch, \A r \in Creators : pc'[r] = "tx" <=> pc[r] = "tx"
      PROVE  ConnectionsAccounted'
  BY <1>1, <1>3 DEF ConnectionsAccounted, Free
<1>4. ASSUME NEW r \in Creators, batch' = batch, NEW n \in Nat, NEW x,
             held' = [held EXCEPT ![r] = n], pc' = [pc EXCEPT ![r] = x],
             n = (IF x = "tx" THEN 1 ELSE 0), x = "tx" => pc[r] # "tx" /\ Free > 0
      PROVE  ConnectionsAccounted'
  <2>1. held[r] = (IF pc[r] = "tx" THEN 1 ELSE 0) /\ held'[r] = n
    BY <1>1, <1>4, <1>2 DEF ConnectionsAccounted, TypeOK
  <2>2. \A a \in (Creators \cup {Relay}) \ {r} : held'[a] = held[a]
    BY <1>1, <1>4 DEF TypeOK
  <2>3. Free' \in 0..PoolSize
    <3>1. held'[r] <= held[r] \/ (Free > 0 /\ held'[r] = held[r] + 1)
      BY <1>4, <2>1
    <3> QED
      BY <1>1, <1>2, <2>2, <3>1, FreeInBounds DEF ConnectionsAccounted
  <2>4. \A s \in Creators : held'[s] = IF pc'[s] = "tx" THEN 1 ELSE 0
    <3> SUFFICES ASSUME NEW s \in Creators PROVE held'[s] = IF pc'[s] = "tx" THEN 1 ELSE 0
      OBVIOUS
    <3>1. s \in Requests /\ r \in Requests
      BY DEF Requests
    <3>2. pc'[r] = x /\ (s # r => pc'[s] = pc[s])
      BY <1>1, <1>4, <3>1 DEF TypeOK
    <3> QED
      BY <1>1, <1>4, <2>1, <2>2, <3>2 DEF ConnectionsAccounted
  <2>5. held'[Relay] = IF batch' = {} THEN 0 ELSE 1
    BY <1>1, <1>2, <1>4, <2>2 DEF ConnectionsAccounted
  <2> QED
    BY <2>3, <2>4, <2>5 DEF ConnectionsAccounted
<1>5. ASSUME pc' = pc, NEW n \in Nat, held' = [held EXCEPT ![Relay] = n],
             n = (IF batch' = {} THEN 0 ELSE 1), n <= held[Relay] \/ (Free > 0 /\ held[Relay] = 0)
      PROVE  ConnectionsAccounted'
  <2>1. held'[Relay] = n
    BY <1>1, <1>5 DEF TypeOK
  <2>2. \A a \in (Creators \cup {Relay}) \ {Relay} : held'[a] = held[a]
    BY <1>1, <1>5 DEF TypeOK
  <2>3. held'[Relay] <= held[Relay] \/ (Free > 0 /\ held'[Relay] = held[Relay] + 1)
    BY <1>1, <1>5, <2>1 DEF TypeOK
  <2>4. Free' \in 0..PoolSize
    BY <1>1, <2>2, <2>3, FreeInBounds DEF ConnectionsAccounted
  <2>5. \A s \in Creators : held'[s] = IF pc'[s] = "tx" THEN 1 ELSE 0
    BY <1>1, <1>2, <1>5, <2>2 DEF ConnectionsAccounted
  <2> QED
    BY <1>5, <2>1, <2>4, <2>5 DEF ConnectionsAccounted
<1> USE DEF vars, dbVars, createVars, readVars, relayVars, processVars
<1>6. ASSUME NEW r \in Creators, Begin(r) PROVE ConnectionsAccounted'
  BY <1>4, <1>6 DEF Begin
<1>7. ASSUME NEW r \in Creators, InsertRefused(r) \/ Commit(r) \/ CreateFails(r)
      PROVE  ConnectionsAccounted'
  <2>1. held' = [held EXCEPT ![r] = 0] /\ pc' = [pc EXCEPT ![r] = "done"] /\ batch' = batch
    BY <1>7 DEF InsertRefused, Commit, CreateFails, Refuse, EndTransaction, Answer
  <2> QED
    BY <1>4, <2>1
<1>8. ASSUME NEW r \in Creators, Accept(r) PROVE ConnectionsAccounted'
  <2>1. pc' = [pc EXCEPT ![r] = "begin"] /\ pc[r] = "new" /\ held' = held /\ batch' = batch
    BY <1>8 DEF Accept
  <2>2. \A s \in Creators : s \in Requests
    BY DEF Requests
  <2> QED
    BY <1>1, <1>3, <2>1, <2>2 DEF TypeOK
<1>9. ASSUME NEW r \in Creators, Insert(r) \/ Wait(r) PROVE ConnectionsAccounted'
  BY <1>3, <1>9 DEF Insert, Wait
<1>10. CASE Tick \/ Publish \/ Restart \/ UNCHANGED vars
  BY <1>3, <1>10 DEF Tick, Publish, Restart
<1>11. ASSUME NEW r \in Readers, NEW x, pc' = pc \/ pc' = [pc EXCEPT ![r] = x],
              held' = held, batch' = batch
       PROVE  ConnectionsAccounted'
  <2>1. \A s \in Creators : s \in Requests /\ s # r
    BY ServiceAssumption DEF Requests
  <2> QED
    BY <1>1, <1>3, <1>11, <2>1 DEF TypeOK
<1>12. ASSUME NEW r \in Readers, GetItems(r) \/ ReadFails(r) \/ GetOrders(r)
       PROVE  ConnectionsAccounted'
  BY <1>11, <1>12 DEF GetItems, ReadFails, GetOrders, Answer
<1>13. ASSUME NEW r \in Readers, NEW id \in 1..MaxNow, NEW padded \in BOOLEAN,
              GetOrder(r, id, padded)
       PROVE  ConnectionsAccounted'
  BY <1>11, <1>13 DEF GetOrder, Answer
<1>14. CASE Select
  <2>1. held[Relay] = 0 /\ held' = [held EXCEPT ![Relay] = 1] /\ batch' # {} /\ pc' = pc /\ Free > 0
    BY <1>1, <1>14 DEF Select, ConnectionsAccounted
  <2> QED
    BY <1>5, <2>1
<1>15. CASE Mark
  <2>1. batch # {} /\ held[Relay] = 1 /\ pc' = pc
    BY <1>1, <1>15 DEF Mark, ConnectionsAccounted
  <2>2. held' = [held EXCEPT ![Relay] = IF batch' = {} THEN 0 ELSE 1]
    BY <1>15, <2>1 DEF Mark
  <2> QED
    BY <1>5, <2>1, <2>2
<1>16. CASE RelayFails \/ Terminate
  <2>1. pc' = pc /\ batch' = {} /\ held' = [held EXCEPT ![Relay] = IF batch = {} THEN @ ELSE @ - 1]
    BY <1>16 DEF RelayFails, Terminate, EndCycle
  <2>2. held[Relay] \in Nat /\ (IF batch = {} THEN held[Relay] ELSE held[Relay] - 1) = 0
    BY <1>1 DEF ConnectionsAccounted
  <2>3. held' = [held EXCEPT ![Relay] = 0]
    BY <2>1, <2>2
  <2> QED
    BY <1>5, <2>1, <2>2, <2>3
<1>17. CASE Kill
  <2>1. (held = [a \in Creators \cup {Relay} |-> 0])'
    BY <1>1, <1>17 DEF Kill, TypeOK
  <2>2. (Free = PoolSize)'
    BY <2>1, NobodyHolds, PTL
  <2>3. batch' = {} /\ \A r \in Creators : pc'[r] # "tx"
    BY <1>1, <1>17 DEF Kill, Running, Requests
  <2> QED
    BY <1>2, <2>1, <2>2, <2>3, ServiceAssumption DEF ConnectionsAccounted
<1> QED
  BY <1>6, <1>7, <1>8, <1>9, <1>10, <1>12, <1>13, <1>14, <1>15, <1>16, <1>17
     DEF Next, Create, Cycle
-----------------------------------------------------------------------------
(* The answers.                                                            *)

(* Rows come with a COMMIT, and with nothing else. *)
LEMMA RowsStay ==
  ASSUME [Next]_vars
  PROVE  \/ rows' = rows
         \/ \E r \in Creators : /\ AllWritten(r)
                                /\ rows' = rows \cup written[r]
                                /\ UNCHANGED <<orderId, asked, view, broken>>
<1> USE DEF vars, dbVars, createVars, readVars
<1>1. ASSUME NEW r \in Creators, Commit(r)
      PROVE  /\ AllWritten(r)
             /\ rows' = rows \cup written[r]
             /\ UNCHANGED <<orderId, asked, view, broken>>
  BY <1>1 DEF Commit
<1>2. ASSUME NEW r \in Creators, CreateFails(r)
      PROVE  \/ rows' = rows
             \/ /\ AllWritten(r)
                /\ rows' = rows \cup written[r]
                /\ UNCHANGED <<orderId, asked, view, broken>>
  BY <1>2 DEF CreateFails
<1>3. ASSUME NEW r \in Creators,
             Accept(r) \/ Begin(r) \/ Wait(r) \/ Insert(r) \/ InsertRefused(r)
      PROVE  rows' = rows
  BY <1>3 DEF Accept, Begin, Wait, Insert, Execute, InsertRefused
<1>4. ASSUME NEW r \in Readers, NEW id \in 1..MaxNow, NEW padded \in BOOLEAN,
             GetOrder(r, id, padded)
      PROVE  rows' = rows
  BY <1>4 DEF GetOrder
<1>5. ASSUME NEW r \in Readers, GetItems(r) \/ ReadFails(r) \/ GetOrders(r)
      PROVE  rows' = rows
  BY <1>5 DEF GetItems, ReadFails, GetOrders
<1>6. ASSUME Tick \/ Cycle \/ RelayFails \/ Terminate \/ Kill \/ Restart \/ UNCHANGED vars
      PROVE  rows' = rows
  BY <1>6 DEF Tick, Cycle, Select, Publish, Mark, RelayFails, Terminate, Kill, Restart
<1> QED
  BY <1>1, <1>2, <1>3, <1>4, <1>5, <1>6 DEF Next, Create

(* A request is answered once, when it is done. *)
LEMMA AnswerStep ==
  ASSUME ServiceInvariant, TypeOK', [Next]_vars
  PROVE  UnansweredWhileRunning' /\ CreatedMeansStored'
<1>1. TypeOK /\ UnansweredWhileRunning /\ CreatedMeansStored /\ OrdersAreKeyed /\ WrittenInTurn
  BY DEF ServiceInvariant
<1>2. \A w \in InTable(rows, "orders") : w \in InTable(rows', "orders")
  BY RowsStay DEF InTable
<1>3. /\ \A r \in Creators : r \in Requests /\ r \notin Readers
      /\ \A r \in Readers : r \in Requests /\ r \notin Creators
      /\ None # "ok" /\ None # "error"
  BY ServiceAssumption DEF Requests
<1> USE DEF vars, dbVars, createVars, readVars, relayVars, processVars
(* Who has been answered keeps its order; nobody else is told of one. *)
<1>4. ASSUME \A r \in Creators : answer'[r] = "ok" => answer[r] = "ok" /\ orderId'[r] = orderId[r]
      PROVE  CreatedMeansStored'
  BY <1>1, <1>2, <1>4 DEF CreatedMeansStored
<1>5. ASSUME \A r \in Requests :
               \/ pc'[r] = "done"
               \/ pc'[r] = pc[r] /\ answer'[r] = answer[r]
               \/ pc[r] # "done" /\ pc'[r] # "items" /\ answer'[r] = answer[r],
             \A r \in Readers : pc'[r] # "done" => view'[r] = view[r] /\ pc'[r] = pc[r]
                                                   /\ asked'[r] = asked[r]
      PROVE  UnansweredWhileRunning'
  BY <1>1, <1>2, <1>3, <1>5 DEF UnansweredWhileRunning
<1>6. ASSUME NEW r \in Creators, pc[r] # "done", NEW x \in {"begin", "tx", "done"},
             pc' = [pc EXCEPT ![r] = x], NEW a,
             answer' = answer \/ (x = "done" /\ answer' = [answer EXCEPT ![r] = a]),
             view' = view, asked' = asked
      PROVE  UnansweredWhileRunning'
  <2>1. \A q \in Requests \ {r} : pc'[q] = pc[q] /\ answer'[q] = answer[q]
    BY <1>1, <1>6 DEF TypeOK
  <2>2. pc'[r] = x /\ (x # "done" => answer'[r] = answer[r])
    BY <1>1, <1>3, <1>6 DEF TypeOK
  <2> QED
    BY <1>3, <1>5, <1>6, <2>1, <2>2
<1>7. ASSUME NEW r \in Creators,
             answer' = answer \/ answer' = [answer EXCEPT ![r] = "error"],
             orderId' = orderId
      PROVE  CreatedMeansStored'
  BY <1>1, <1>3, <1>4, <1>7 DEF TypeOK
<1>8. ASSUME NEW r \in Creators, Accept(r)
      PROVE  UnansweredWhileRunning' /\ CreatedMeansStored'
  <2>1. /\ pc[r] = "new" /\ pc' = [pc EXCEPT ![r] = "begin"] /\ answer' = answer
        /\ orderId' = [orderId EXCEPT ![r] = now] /\ view' = view /\ asked' = asked
    BY <1>8 DEF Accept
  <2>2. answer[r] # "ok"
    BY <1>1, <1>3, <2>1 DEF UnansweredWhileRunning
  <2>3. \A q \in Creators \ {r} : orderId'[q] = orderId[q]
    BY <1>1, <2>1 DEF TypeOK
  <2> QED
    BY <1>4, <1>6, <2>1, <2>2, <2>3
<1>9. ASSUME NEW r \in Creators, Begin(r)
      PROVE  UnansweredWhileRunning' /\ CreatedMeansStored'
  <2>1. /\ pc[r] = "begin" /\ pc' = [pc EXCEPT ![r] = "tx"]
        /\ UNCHANGED <<answer, orderId, view, asked>>
    BY <1>9 DEF Begin
  <2> QED
    BY <1>6, <1>7, <2>1
<1>10. ASSUME NEW r \in Creators, InsertRefused(r) \/ CreateFails(r)
       PROVE  UnansweredWhileRunning' /\ CreatedMeansStored'
  <2>1. /\ pc[r] \in {"begin", "tx"} /\ pc' = [pc EXCEPT ![r] = "done"]
        /\ answer' = [answer EXCEPT ![r] = "error"]
        /\ UNCHANGED <<orderId, view, asked>>
    BY <1>10 DEF InsertRefused, CreateFails, Refuse, EndTransaction, Answer
  <2> QED
    BY <1>6, <1>7, <2>1
<1>11. ASSUME NEW r \in Creators, Commit(r)
       PROVE  UnansweredWhileRunning' /\ CreatedMeansStored'
  <2>1. /\ pc[r] = "tx" /\ pc' = [pc EXCEPT ![r] = "done"]
        /\ answer' = [answer EXCEPT ![r] = "ok"]
        /\ UNCHANGED <<orderId, view, asked>>
        /\ AllWritten(r) /\ rows' = rows \cup written[r]
    BY <1>11 DEF Commit, EndTransaction, Answer
  <2>2. UnansweredWhileRunning'
    BY <1>6, <2>1
  <2>3. Cardinality({}) = 0 /\ written[r] # {}
    BY <2>1, FS_EmptySet DEF AllWritten, InTable
  <2>4. /\ Cardinality(InTable(written[r], "orders")) = 1
        /\ \A w \in written[r] : w.by = r /\ w.order = orderId[r]
    BY <1>1, <2>3 DEF WrittenInTurn
  <2> DEFINE T == InTable(written[r], "orders")
  <2>5. PICK w \in T : TRUE
    <3>1. Cardinality(T) = 1
      BY <2>4
    <3> HIDE DEF T
    <3> QED
      BY <2>3, <3>1
  <2>6. w \in written[r] /\ w.table = "orders"
    BY DEF InTable
  <2>7. w.id = w.order
    BY <1>1, <2>6 DEF OrdersAreKeyed, InTable
  <2>8. \E u \in InTable(written[r], "orders") : u.id = orderId[r] /\ u.by = r
    BY <2>4, <2>6, <2>7
  <2>9. \E u \in InTable(rows', "orders") : u.id = orderId[r] /\ u.by = r
    BY <2>1, <2>8 DEF InTable
  <2>10. \A q \in Creators \ {r} : answer'[q] = answer[q]
    BY <1>1, <1>3, <2>1 DEF TypeOK
  <2>11. ASSUME NEW q \in Creators, answer'[q] = "ok"
         PROVE  \E u \in InTable(rows', "orders") : u.id = orderId'[q] /\ u.by = q
    BY <1>1, <1>2, <2>1, <2>9, <2>10, <2>11 DEF CreatedMeansStored
  <2> QED
    BY <2>2, <2>11 DEF CreatedMeansStored
<1>12. ASSUME UNCHANGED <<pc, answer, view, asked, orderId>>
       PROVE  UnansweredWhileRunning' /\ CreatedMeansStored'
  BY <1>4, <1>5, <1>12
<1>13. ASSUME NEW r \in Readers, NEW a, pc' = [pc EXCEPT ![r] = "done"],
              answer' = [answer EXCEPT ![r] = a], orderId' = orderId,
              \A q \in Readers \ {r} : view'[q] = view[q] /\ asked'[q] = asked[q]
       PROVE  UnansweredWhileRunning' /\ CreatedMeansStored'
  <2>1. \A q \in Requests \ {r} : pc'[q] = pc[q] /\ answer'[q] = answer[q]
    BY <1>1, <1>13 DEF TypeOK
  <2>2. pc'[r] = "done"
    BY <1>1, <1>3, <1>13 DEF TypeOK
  <2> QED
    BY <1>3, <1>4, <1>5, <1>13, <2>1, <2>2
<1>14. ASSUME NEW r \in Readers, NEW id \in 1..MaxNow, NEW padded \in BOOLEAN,
              GetOrder(r, id, padded)
       PROVE  UnansweredWhileRunning' /\ CreatedMeansStored'
  <2>1. /\ pc[r] = "new" /\ view' = view /\ orderId' = orderId /\ rows' = rows
        /\ asked' = [asked EXCEPT ![r] = [id |-> id, padded |-> padded]]
    BY <1>14 DEF GetOrder
  <2>2. \A q \in Readers \ {r} : asked'[q] = asked[q]
    BY <1>1, <2>1 DEF TypeOK
  <2>3. CASE \E w \in InTable(rows, "orders") : w.id = id
    <3>1. pc' = [pc EXCEPT ![r] = "items"] /\ answer' = answer
      BY <1>14, <2>3 DEF GetOrder
    <3>2. asked'[r].id = id
      BY <1>1, <2>1 DEF TypeOK
    <3>3. /\ \A q \in Requests \ {r} : pc'[q] = pc[q]
          /\ pc'[r] = "items"
      BY <1>1, <1>3, <3>1 DEF TypeOK
    <3>4. \A q \in Readers :
            pc'[q] = "items" => \E w \in InTable(rows', "orders") : w.id = asked'[q].id
      BY <1>1, <1>3, <2>1, <2>2, <2>3, <3>2, <3>3 DEF UnansweredWhileRunning
    <3>5. UnansweredWhileRunning'
      BY <1>1, <1>3, <2>1, <3>1, <3>3, <3>4 DEF UnansweredWhileRunning
    <3> QED
      BY <1>4, <2>1, <3>1, <3>5
  <2>4. CASE ~\E w \in InTable(rows, "orders") : w.id = id
    <3>1. pc' = [pc EXCEPT ![r] = "done"] /\ answer' = [answer EXCEPT ![r] = "error"]
      BY <1>14, <2>4 DEF GetOrder, Answer
    <3> QED
      BY <1>13, <2>1, <2>2, <3>1
  <2> QED
    BY <2>3, <2>4
<1>15. ASSUME NEW r \in Readers, GetItems(r) \/ ReadFails(r) \/ GetOrders(r)
       PROVE  UnansweredWhileRunning' /\ CreatedMeansStored'
  <2>1. /\ pc' = [pc EXCEPT ![r] = "done"]
        /\ \E a : answer' = [answer EXCEPT ![r] = a]
        /\ orderId' = orderId /\ asked' = asked
        /\ view' = view \/ \E v : view' = [view EXCEPT ![r] = v]
    BY <1>15 DEF GetItems, ReadFails, GetOrders, Answer
  <2>2. \A q \in Readers \ {r} : view'[q] = view[q]
    BY <1>1, <2>1 DEF TypeOK
  <2> QED
    BY <1>13, <2>1, <2>2
<1>16. CASE Kill
  <2>1. /\ \A q \in Requests : pc'[q] = "done" \/ pc'[q] = pc[q]
        /\ UNCHANGED <<answer, view, asked, orderId>>
    BY <1>16 DEF Kill
  <2> QED
    BY <1>3, <1>4, <1>5, <2>1
<1>17. ASSUME NEW r \in Creators, Insert(r) \/ Wait(r)
       PROVE  UnansweredWhileRunning' /\ CreatedMeansStored'
  BY <1>12, <1>17 DEF Insert, Wait
<1>18. CASE Tick \/ Cycle \/ RelayFails \/ Terminate \/ Restart \/ UNCHANGED vars
  BY <1>12, <1>18 DEF Tick, Cycle, Select, Publish, Mark, RelayFails, Terminate, Restart
<1> QED
  BY <1>8, <1>9, <1>10, <1>11, <1>14, <1>15, <1>16, <1>17, <1>18 DEF Next, Create

-----------------------------------------------------------------------------
(* What is shown.                                                          *)

(* The items of an order that the tables hold never change. *)
LEMMA ItemsStay ==
  ASSUME ServiceInvariant, [Next]_vars, NEW o, ItemsOf(o) # {}
  PROVE  ItemsOf(o)' = ItemsOf(o)
<1>1. CASE rows' = rows
  BY <1>1 DEF ItemsOf, InTable
<1>2. ASSUME NEW r \in Creators, AllWritten(r), rows' = rows \cup written[r]
      PROVE  ItemsOf(o)' = ItemsOf(o)
  <2>1. written[r] # {}
    BY <1>2 DEF AllWritten, InTable
  <2>2. PICK w \in rows : w.order = o
    BY DEF ItemsOf, InTable
  <2>3. o # orderId[r]
    BY <2>1, <2>2, OrderIsNew DEF ServiceInvariant, TablesOK
  <2>4. \A v \in written[r] : v.order # o
    BY <2>3 DEF ServiceInvariant, WrittenInTurn
  <2> QED
    BY <1>2, <2>4 DEF ItemsOf, InTable
<1> QED
  BY <1>1, <1>2, RowsStay

(* An order of the tables has items. *)
LEMMA OrdersHaveItems ==
  ASSUME ServiceInvariant, NEW w \in InTable(rows, "orders")
  PROVE  ItemsOf(w.id) # {}
<1> DEFINE T == InTable({v \in rows : v.order = w.order}, "order_items")
<1>1. w \in rows /\ w.id = w.order /\ w.by \in Creators
  BY DEF ServiceInvariant, OrdersAreKeyed, InTable, TypeOK, Row
<1>2. Cardinality(T) = ItemCount[w.by]
  BY <1>1 DEF ServiceInvariant, WholeOrders
<1>3. ItemCount[w.by] # 0 /\ Cardinality({}) = 0
  BY <1>1, FS_EmptySet, ServiceAssumption
<1> HIDE DEF T
<1>4. PICK v \in T : TRUE
  BY <1>2, <1>3
<1> QED
  BY <1>1, <1>4 DEF ItemsOf, InTable, T

Whole(v) ==
  /\ \A i \in 1..Len(v) : v[i].items = ItemsOf(v[i].order) /\ v[i].items # {}
  /\ \A i, j \in 1..Len(v) : i # j => v[i].order # v[j].order

(* The LEFT JOIN adds nothing for an order without items: there is none.   *)
LEMMA JoinedRowsAreItems ==
  ASSUME ServiceInvariant
  PROVE  JoinedRows = InTable(rows, "order_items")
<1>1. ASSUME NEW w \in InTable(rows, "order_items")
      PROVE  \E o \in InTable(rows, "orders") : o.id = w.order
  <2> DEFINE T == InTable({v \in rows : v.order = w.order}, "orders")
  <2>1. w \in rows
    BY DEF InTable
  <2>2. Cardinality(T) = 1
    BY <2>1 DEF ServiceInvariant, WholeOrders
  <2> HIDE DEF T
  <2>3. PICK o \in T : TRUE
    BY <2>2, FS_EmptySet
  <2>4. o \in InTable(rows, "orders") /\ o.order = w.order
    BY <2>3 DEF InTable, T
  <2>5. o.id = o.order
    BY <2>4 DEF ServiceInvariant, OrdersAreKeyed, InTable
  <2> QED
    BY <2>4, <2>5
<1>2. \A o \in InTable(rows, "orders") : ItemsOf(o.id) # {}
  BY OrdersHaveItems
<1> QED
  BY <1>1, <1>2 DEF JoinedRows

LEMMA JoinIsWhole ==
  ASSUME ServiceInvariant, NEW s \in Joined
  PROVE  Whole(FoldLeft(AddRow, << >>, s))
<1> DEFINE v == FoldLeft(AddRow, << >>, s)
           T == InTable(rows, "order_items")
<1>1. /\ s \in Seq(Row)
      /\ \A k \in 1..Len(s) : s[k] \in T
      /\ \A w \in T : \E k \in 1..Len(s) : s[k] = w
  BY JoinedHasAll, JoinedRowsAreItems DEF ServiceInvariant
<1>2. Grouped(v, s, Len(s))
  BY <1>1, FoldGroups
<1> HIDE DEF v, T
<1> DEFINE D == 1..Len(v)
           N == 1..Len(s)
<1>3. /\ \A i \in D : \E k \in N : s[k].order = v[i].order
      /\ \A i \in D : v[i].items = UNION {ItemIn(s[k]) : k \in {j \in N : s[j].order = v[i].order}}
      /\ \A i, j \in D : i # j => v[i].order # v[j].order
  BY <1>2 DEF Grouped
<1>4. /\ \A k \in N : s[k] \in T
      /\ \A w \in T : \E k \in N : s[k] = w
  BY <1>1
<1>5. \A w \in T : ItemIn(w) = {w.id}
  BY DEF ItemIn, InTable, T
<1> HIDE DEF D, N
<1>6. ASSUME NEW i \in D PROVE v[i].items = ItemsOf(v[i].order) /\ v[i].items # {}
  <2>1. ItemsOf(v[i].order) = {w.id : w \in {x \in T : x.order = v[i].order}}
    BY DEF ItemsOf, T
  <2>2. v[i].items = {s[k].id : k \in {j \in N : s[j].order = v[i].order}}
    BY <1>3, <1>4, <1>5
  <2>3. PICK k \in N : s[k].order = v[i].order
    BY <1>3
  <2>4. s[k].id \in v[i].items
    BY <2>2, <2>3
  <2>5. ASSUME NEW x PROVE x \in v[i].items <=> x \in ItemsOf(v[i].order)
    BY <1>4, <2>1, <2>2
  <2> QED
    BY <2>4, <2>5
<1> QED
  BY <1>3, <1>6 DEF Whole, D, v

LEMMA ViewStep ==
  ASSUME ServiceInvariant, [Next]_vars
  PROVE  ShownWhole'
<1>1. /\ TypeOK /\ UnansweredWhileRunning
      /\ \A r \in Readers : ~broken[r] /\ ~asked[r].padded => Whole(view[r])
  BY DEF ServiceInvariant, ShownWhole, Whole
<1>2. SUFFICES \A r \in Readers : ~broken'[r] /\ ~asked'[r].padded => Whole(view[r])'
  BY DEF ShownWhole, Whole
<1>3. \A v : Whole(v) => Whole(v)'
  BY ItemsStay DEF Whole
<1>4. ASSUME NEW r \in Readers, view'[r] = view[r],
             broken'[r] = broken[r], asked'[r] = asked[r], ~broken'[r], ~asked'[r].padded
      PROVE  Whole(view[r])'
  <2>1. PICK v : v = view[r]
    OBVIOUS
  <2>2. ~broken[r] /\ ~asked[r].padded
    BY <1>4
  <2>3. Whole(v)
    BY <1>1, <2>1, <2>2
  <2>4. Whole(v)'
    BY <1>3, <2>3
  <2> QED
    BY <1>4, <2>1, <2>4 DEF Whole
<1> USE DEF vars, dbVars, createVars, readVars, relayVars, processVars
<1>5. ASSUME UNCHANGED readVars
      PROVE  \A r \in Readers : ~broken'[r] /\ ~asked'[r].padded => Whole(view[r])'
  BY <1>4, <1>5
<1>6. ASSUME NEW r \in Readers, NEW id \in 1..MaxNow, NEW padded \in BOOLEAN,
             GetOrder(r, id, padded)
      PROVE  \A q \in Readers : ~broken'[q] /\ ~asked'[q].padded => Whole(view[q])'
  <2>1. /\ pc[r] = "new" /\ view' = view /\ broken' = broken
        /\ asked' = [asked EXCEPT ![r] = [id |-> id, padded |-> padded]]
    BY <1>6 DEF GetOrder
  <2>2. view'[r] = << >>
    BY <1>1, <2>1 DEF UnansweredWhileRunning
  <2>3. Whole(view[r])'
    BY <2>2 DEF Whole
  <2>4. \A q \in Readers \ {r} : asked'[q] = asked[q]
    BY <1>1, <2>1 DEF TypeOK
  <2> QED
    BY <1>4, <2>1, <2>3, <2>4
<1>7. ASSUME NEW r \in Readers, GetItems(r)
      PROVE  \A q \in Readers : ~broken'[q] /\ ~asked'[q].padded => Whole(view[q])'
  <2> DEFINE id == asked[r].id
  <2>1. /\ pc[r] = "items" /\ asked' = asked /\ broken' = broken /\ rows' = rows
        /\ view' = [view EXCEPT ![r] =
                      <<[order |-> id, items |-> IF asked[r].padded THEN {} ELSE ItemsOf(id)]>>]
    BY <1>7 DEF GetItems
  <2>2. ASSUME ~asked[r].padded PROVE Whole(view[r])'
    <3>1. view'[r] = <<[order |-> id, items |-> ItemsOf(id)]>>
      BY <1>1, <2>1, <2>2 DEF TypeOK
    <3>2. ItemsOf(id) # {}
      BY <1>1, <2>1, OrdersHaveItems DEF UnansweredWhileRunning
    <3>3. \A o : ItemsOf(o)' = ItemsOf(o)
      BY <2>1 DEF ItemsOf, InTable
    <3> QED
      BY <3>1, <3>2, <3>3 DEF Whole
  <2>3. \A q \in Readers \ {r} : view'[q] = view[q]
    BY <1>1, <2>1 DEF TypeOK
  <2> QED
    BY <1>4, <2>1, <2>2, <2>3
<1>8. ASSUME NEW r \in Readers, GetOrders(r)
      PROVE  \A q \in Readers : ~broken'[q] /\ ~asked'[q].padded => Whole(view[q])'
  <2>1. rows' = rows /\ asked' = asked
    BY <1>8 DEF GetOrders
  <2>2. PICK s \in Joined :
          \/ /\ view' = [view EXCEPT ![r] = FoldLeft(AddRow, << >>, s)]
             /\ UNCHANGED <<broken, faults>>
          \/ \E n \in 0..(Len(s) - 1) :
               /\ Fault
               /\ view' = [view EXCEPT ![r] = FoldLeft(AddRow, << >>, SubSeq(s, 1, n))]
               /\ broken' = [broken EXCEPT ![r] = TRUE]
    BY <1>8 DEF GetOrders
  <2>3. \A q \in Readers \ {r} : view'[q] = view[q] /\ broken'[q] = broken[q]
    BY <1>1, <2>2 DEF TypeOK
  <2>4. CASE view' = [view EXCEPT ![r] = FoldLeft(AddRow, << >>, s)]
    <3>1. view'[r] = FoldLeft(AddRow, << >>, s)
      BY <1>1, <2>4 DEF TypeOK
    <3>2. Whole(FoldLeft(AddRow, << >>, s))
      BY JoinIsWhole
    <3>3. \A o : ItemsOf(o)' = ItemsOf(o)
      BY <2>1 DEF ItemsOf, InTable
    <3>4. Whole(view[r])'
      BY <3>1, <3>2, <3>3 DEF Whole
    <3> QED
      BY <1>4, <2>1, <2>3, <3>4
  <2>5. CASE broken' = [broken EXCEPT ![r] = TRUE]
    <3>1. broken'[r]
      BY <1>1, <2>5 DEF TypeOK
    <3> QED
      BY <1>4, <2>1, <2>3, <3>1
  <2> QED
    BY <2>2, <2>4, <2>5
<1>9. ASSUME NEW r \in Creators,
             \/ Accept(r) \/ Begin(r) \/ Wait(r) \/ Insert(r) \/ InsertRefused(r)
             \/ Commit(r) \/ CreateFails(r)
      PROVE  UNCHANGED readVars
  BY <1>9 DEF Accept, Begin, Wait, Insert, InsertRefused, Commit, CreateFails
<1>10. ASSUME \/ Tick \/ Cycle \/ RelayFails \/ Terminate \/ Kill \/ Restart \/ UNCHANGED vars
              \/ \E r \in Readers : ReadFails(r)
       PROVE  UNCHANGED readVars
  BY <1>10 DEF Tick, Cycle, Select, Publish, Mark, RelayFails, Terminate, Kill, Restart, ReadFails
<1> QED
  BY <1>5, <1>6, <1>7, <1>8, <1>9, <1>10 DEF Next, Create

-----------------------------------------------------------------------------
(* The invariant, and what it implies.                                     *)

LEMMA ServiceInit == Init => ServiceInvariant
<1> SUFFICES ASSUME Init PROVE ServiceInvariant
  OBVIOUS
<1>1. TypeOK
  BY TypeInit
<1>2. \A t : InTable({}, t) = {}
  BY DEF InTable
<1>3. Cardinality({}) = 0 /\ \A r \in Creators : 0 <= ItemCount[r]
  BY FS_EmptySet, ServiceAssumption
<1>4. OrdersAreKeyed /\ KeysAreLocked /\ WholeOrders
  <2>1. UNION {written[r] : r \in Creators} = {}
    BY DEF Init
  <2> QED
    BY <1>2, <2>1 DEF Init, OrdersAreKeyed, KeysAreLocked, WholeOrders
<1>5. WrittenInTurn
  BY <1>2, <1>3 DEF Init, WrittenInTurn
<1>6. ConnectionsAccounted
  <2>1. Free = PoolSize
    BY NobodyHolds DEF Init
  <2> QED
    BY <2>1, ServiceAssumption DEF Init, ConnectionsAccounted, Requests
<1>7. UnansweredWhileRunning /\ CreatedMeansStored
  BY ServiceAssumption DEF Init, UnansweredWhileRunning, CreatedMeansStored, Requests
<1>8. ShownWhole
  BY DEF Init, ShownWhole
<1> QED
  BY <1>1, <1>4, <1>5, <1>6, <1>7, <1>8 DEF ServiceInvariant

LEMMA ServiceInvariance == Spec => []ServiceInvariant
<1>1. ServiceInvariant /\ [Next]_vars => ServiceInvariant'
  BY TypeStep, TablesStep, PoolStep, AnswerStep, ViewStep DEF ServiceInvariant, TablesOK
<1> QED
  BY <1>1, ServiceInit, PTL DEF Spec

(* Repository.CreateOrder: an order, its items and its event are in the    *)
(* tables together or not at all.                                          *)
THEOREM OrdersAreWhole == Spec => []WholeOrders
BY ServiceInvariance, PTL DEF ServiceInvariant

(* Handler.CreateOrder: 201 stands for an order of the caller's own, even  *)
(* when two requests read the same id from the clock.                      *)
THEOREM CreatedOrdersAreStored == Spec => []CreatedMeansStored
BY ServiceInvariance, PTL DEF ServiceInvariant

(* GetOrder, GetOrders: what is shown of an order is all of it, however    *)
(* commits fall between the two queries and however the rows of the join   *)
(* are mixed.                                                              *)
THEOREM OrdersAreShownWhole == Spec => []ShownWhole
BY ServiceInvariance, PTL DEF ServiceInvariant

(* pgxpool: a transaction, and an unfinished result set of the relay,      *)
(* has one connection each, nothing else keeps one, and the pool never     *)
(* has to give out more than it has; so none leaks on any error path.      *)
THEOREM NoConnectionLeaks == Spec => []ConnectionsAccounted
BY ServiceInvariance, PTL DEF ServiceInvariant

(* GetOrder reads an order and its items in two statements: between them   *)
(* the items of a stored order cannot have changed.                        *)
THEOREM StoredOrdersNeverChange ==
  Spec => [][\A o \in Nat : ItemsOf(o) # {} => ItemsOf(o)' = ItemsOf(o)]_vars
<1>1. ServiceInvariant /\ [Next]_vars
        => [\A o \in Nat : ItemsOf(o) # {} => ItemsOf(o)' = ItemsOf(o)]_vars
  BY ItemsStay
<1> QED
  BY <1>1, ServiceInvariance, PTL DEF Spec
=============================================================================
