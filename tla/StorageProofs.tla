---------------------------- MODULE StorageProofs ----------------------------
(***************************************************************************)
(* Proofs about Storage, for any tables, texts and rows, any number of      *)
(* lines, copies and restarts, and a gateway that dies anywhere in a file:  *)
(* what is read from a file is what is left of the tables it was written    *)
(* from.                                                                    *)
(***************************************************************************)
EXTENDS Storage, FiniteSetTheorems, FunctionTheorems, SequenceTheorems, TLAPS

Row == Seq(Texts) \ {<<>>}

FieldText == Texts \cup {NoName} \cup {Number(k) : k \in Nat}

TableRecord ==
    [name : TableNames, fields : Seq(FieldText), rows : Seq(Row),
     receiving : BOOLEAN, temporary : BOOLEAN]

LineText == FieldText \cup TableNames \cup {Header(n) : n \in SectionNames}

Line == Seq(LineText) \ {<<>>}

-----------------------------------------------------------------------------
(* Numbers: induction from the pigeonhole principle, the least of a set,    *)
(* and what is done once for each of 1..n                                   *)

LEMMA Induction ==
    ASSUME NEW S, 0 \in S, \A n \in Nat : n \in S => n + 1 \in S
    PROVE  Nat \subseteq S
<1> SUFFICES ASSUME NEW n \in Nat, n \notin S PROVE FALSE
    OBVIOUS
<1> DEFINE A == S \cap (0..n)
           next == [k \in A |-> k + 1]
<1>1. IsFiniteSet(A)
    <2>1. IsFiniteSet(0..n)
        BY FS_Interval
    <2>2. A \in SUBSET (0..n)
        OBVIOUS
    <2>3. QED BY <2>1, <2>2, FS_Subset
<1>2. next \in Injection(A, A \ {0})
    <2>1. next \in [A -> A \ {0}]
        OBVIOUS
    <2>2. \A j, k \in A : next[j] = next[k] => j = k
        OBVIOUS
    <2>3. QED BY <2>1, <2>2 DEF Injection, IsInjective
<1>3. /\ IsFiniteSet(A \ {0})
      /\ Cardinality(A \ {0}) = Cardinality(A) - 1
    <2>1. 0 \in A
        OBVIOUS
    <2> HIDE DEF A
    <2>2. QED BY <1>1, <2>1, FS_RemoveElement
<1>4. Cardinality(A) <= Cardinality(A \ {0})
    BY <1>2, <1>3, FS_Injection
<1>5. Cardinality(A) \in Nat
    BY <1>1, FS_CardinalityType
<1>6. QED BY <1>3, <1>4, <1>5

LEMMA LeastElement ==
    ASSUME NEW T \in SUBSET Nat, T # {}
    PROVE  Min(T) \in T /\ \A k \in T : Min(T) <= k
<1>1. \E m \in T : \A k \in T : m <= k
    <2> SUFFICES ASSUME \A m \in T : \E k \in T : k < m PROVE FALSE
        OBVIOUS
    <2> DEFINE S == {n \in Nat : \A k \in T : k > n}
    <2>1. 0 \in S
        OBVIOUS
    <2>2. \A n \in Nat : n \in S => n + 1 \in S
        OBVIOUS
    <2>3. Nat \subseteq S
        BY <2>1, <2>2, Induction
    <2>4. PICK t \in T : TRUE
        OBVIOUS
    <2>5. t > t
        BY <2>3, <2>4
    <2>6. QED BY <2>4, <2>5
<1>2. QED BY <1>1 DEF Min

LEMMA LargerOfTwo ==
    ASSUME NEW a \in Nat, NEW b \in Nat
    PROVE  Max({a, b}) = IF a >= b THEN a ELSE b
BY DEF Max

(* What the k-th step makes of what there was before, for all k: a function *)
(* that satisfies the recursion exists.                                     *)
Steps(D, n) == [1..n -> [D -> D]]

Iterates(f, D, first, n, G) == f \in [0..n -> D] /\ f[0] = first /\ \A k \in 1..n : f[k] = G[k][f[k - 1]]

LEMMA Iterated ==
    ASSUME NEW D, NEW first \in D, NEW n \in Nat, NEW G \in Steps(D, n)
    PROVE  \E f : Iterates(f, D, first, n, G)
<1>0. G \in [1..n -> [D -> D]]
    BY DEF Steps
<1> DEFINE Is(f, m) == f[0] = first /\ \A k \in 1..m : f[k] = G[k][f[k - 1]]
           P(m) == m <= n => \E f \in [0..m -> D] : Is(f, m)
           S == {m \in Nat : P(m)}
<1>1. 0 \in S
    <2>1. [k \in 0..0 |-> first] \in [0..0 -> D]
        OBVIOUS
    <2>2. Is([k \in 0..0 |-> first], 0)
        OBVIOUS
    <2>3. QED BY <2>1, <2>2
<1>2. \A m \in Nat : P(m) => P(m + 1)
    <2> SUFFICES ASSUME NEW m \in Nat, P(m), m + 1 <= n PROVE \E f \in [0..(m + 1) -> D] : Is(f, m + 1)
        OBVIOUS
    <2>1. PICK f \in [0..m -> D] : Is(f, m)
        OBVIOUS
    <2> DEFINE new == G[m + 1][f[m]]
               g == [k \in 0..(m + 1) |-> IF k = m + 1 THEN new ELSE f[k]]
    <2>2. new \in D
        BY <1>0
    <2>3. g \in [0..(m + 1) -> D]
        BY <2>2
    <2>4. \A k \in 1..m : g[k] = f[k] /\ g[k - 1] = f[k - 1]
        OBVIOUS
    <2>5. g[m + 1] = G[m + 1][g[m]] /\ g[0] = first
        BY <2>1
    <2> HIDE DEF g, new
    <2>6. Is(g, m + 1)
        <3>1. \A k \in 1..(m + 1) : k \in 1..m \/ k = m + 1
            OBVIOUS
        <3>2. QED BY <2>1, <2>4, <2>5, <3>1
    <2>7. QED BY <2>3, <2>6
<1>3. Nat \subseteq S
    <2> HIDE DEF P
    <2>1. \A m \in Nat : m \in S => m + 1 \in S
        BY <1>2
    <2>2. QED BY <1>1, <2>1, Induction
<1>4. \E f \in [0..n -> D] : Is(f, n)
    BY <1>3
<1>5. QED BY <1>4 DEF Iterates

(* One more of b behind a. *)
LEMMA ConcatExtended ==
    ASSUME NEW X, NEW a \in Seq(X), NEW b \in Seq(X), NEW n \in Nat, n + 1 \in 1..Len(b)
    PROVE  Append(a \o SubSeq(b, 1, n), b[n + 1]) = a \o SubSeq(b, 1, n + 1)
<1>1. Len(b) \in Nat /\ b[n + 1] \in X /\ 1 \in 1..Len(b) /\ n + 1 \in 1..Len(b) /\ (n + 1) - 1 = n
    OBVIOUS
<1>2. SubSeq(b, 1, n + 1) = SubSeq(b, 1, n) \o <<b[n + 1]>>
    BY <1>1, SubSeqRecursiveSecond
<1> DEFINE c == SubSeq(b, 1, n)
           d == <<b[n + 1]>>
<1>3. c \in Seq(X) /\ d \in Seq(X)
    BY <1>1
<1>4. Append(a \o c, b[n + 1]) = (a \o c) \o d
    BY <1>1, <1>3, AppendIsConcat, ConcatProperties
<1> HIDE DEF c, d
<1>5. (a \o c) \o d = a \o (c \o d)
    BY <1>3, ConcatAssociative, SMTT(30)
<1>6. QED BY <1>2, <1>4, <1>5 DEF c, d

-----------------------------------------------------------------------------
(* Tables and their rows *)

Positional(t) == \A k \in DOMAIN t.fields : t.fields[k] \in Texts \cup {NoName, Number(k)}

Wide(t) == \A k \in DOMAIN t.rows : Len(t.rows[k]) <= Len(t.fields)

LEMMA TableIs == \A t : IsTable(t) <=> t \in TableRecord /\ Positional(t) /\ Wide(t)
<1> SUFFICES ASSUME NEW t PROVE IsTable(t) <=> t \in TableRecord /\ Positional(t) /\ Wide(t)
    OBVIOUS
<1>1. ASSUME IsTable(t) PROVE t \in TableRecord
    <2>1. t.fields \in Seq(Range(t.fields))
        BY <1>1 DEF IsTable
    <2>2. \A k \in 1..Len(t.fields) : t.fields[k] \in FieldText
        <3>1. DOMAIN t.fields = 1..Len(t.fields) /\ Len(t.fields) \in Nat
            BY <2>1, LenProperties
        <3>2. QED BY <1>1, <3>1 DEF IsTable, FieldText
    <2>3. t.fields \in Seq(FieldText)
        <3>1. DOMAIN t.fields = 1..Len(t.fields) /\ Len(t.fields) \in Nat
            BY <2>1, LenProperties
        <3>2. t.fields \in [1..Len(t.fields) -> FieldText]
            BY <2>1, <2>2, <3>1, LenProperties
        <3>3. QED BY <3>1, <3>2
    <2>4. QED BY <1>1, <2>3 DEF IsTable, TableRecord, Row
<1>2. ASSUME t \in TableRecord PROVE t.fields \in Seq(Range(t.fields))
    BY <1>2, SeqOfRange DEF TableRecord
<1>3. QED BY <1>1, <1>2 DEF IsTable, Positional, Wide, TableRecord, Row

LEMMA NewTableIs ==
    ASSUME NEW name \in TableNames
    PROVE  /\ NewTable(name) \in TableRecord /\ Positional(NewTable(name)) /\ Wide(NewTable(name))
           /\ NewTable(name).name = name /\ NewTable(name).rows = <<>>
           /\ NewTable(name).receiving = FALSE /\ NewTable(name).temporary = FALSE
<1>1. <<>> \in Seq(FieldText) /\ <<>> \in Seq(Row) /\ DOMAIN <<>> = {}
    OBVIOUS
<1>2. QED BY <1>1 DEF NewTable, TableRecord, Positional, Wide

(* A row is added at the end, and the table is as wide as the row. *)
LEMMA RowAddedIs ==
    ASSUME NEW t \in TableRecord, Positional(t), NEW row \in Row
    PROVE  LET r == RowAdded(t, row)
           IN  /\ r \in TableRecord /\ Positional(r)
               /\ r.name = t.name /\ r.receiving = t.receiving /\ r.temporary = t.temporary
               /\ r.rows = Append(t.rows, row)
               /\ Len(t.fields) <= Len(r.fields) /\ Len(row) <= Len(r.fields)
               /\ Len(row) <= Len(t.fields) => r.fields = t.fields
<1> DEFINE r == RowAdded(t, row)
           width == Max({Len(t.fields), Len(row)})
<1>1. /\ Len(t.fields) \in Nat /\ Len(row) \in Nat /\ t.fields \in Seq(FieldText)
      /\ DOMAIN t.fields = 1..Len(t.fields)
    BY DEF TableRecord, Row
<1>2. width \in Nat /\ Len(t.fields) <= width /\ Len(row) <= width
      /\ (Len(row) <= Len(t.fields) => width = Len(t.fields))
    BY <1>1, LargerOfTwo
<1> HIDE DEF width
<1> DEFINE wide == [k \in 1..width |-> IF k <= Len(t.fields) THEN t.fields[k] ELSE NoName]
<1>3. r = [t EXCEPT !.rows = Append(t.rows, row), !.fields = wide]
    BY DEF RowAdded, width
<1>4. wide \in [1..width -> FieldText]
    <2>1. NoName \in FieldText
        BY DEF FieldText
    <2>2. \A k \in 1..Len(t.fields) : t.fields[k] \in FieldText
        BY <1>1
    <2>3. QED BY <1>1, <1>2, <2>1, <2>2
<1>5. wide \in Seq(FieldText) /\ Len(wide) = width /\ DOMAIN wide = 1..width
    BY <1>2, <1>4
<1>6. \A k \in 1..width : wide[k] \in Texts \cup {NoName, Number(k)}
    BY <1>1 DEF Positional
<1>7. Len(row) <= Len(t.fields) => wide = t.fields
    BY <1>1, <1>2
<1>8. Append(t.rows, row) \in Seq(Row)
    BY DEF TableRecord
<1> HIDE DEF wide
<1>9. /\ r \in TableRecord /\ r.fields = wide /\ r.rows = Append(t.rows, row)
      /\ r.name = t.name /\ r.receiving = t.receiving /\ r.temporary = t.temporary
    BY <1>3, <1>5, <1>8 DEF TableRecord
<1>10. Positional(r)
    BY <1>5, <1>6, <1>9 DEF Positional
<1>11. QED BY <1>2, <1>5, <1>7, <1>9, <1>10

LEMMA RowAddedWide ==
    ASSUME NEW t \in TableRecord, Positional(t), Wide(t), NEW row \in Row
    PROVE  Wide(RowAdded(t, row))
<1> DEFINE r == RowAdded(t, row)
<1> SUFFICES ASSUME NEW k \in DOMAIN r.rows PROVE Len(r.rows[k]) <= Len(r.fields)
    BY DEF Wide
<1>1. /\ r \in TableRecord /\ r.rows = Append(t.rows, row)
      /\ Len(t.fields) <= Len(r.fields) /\ Len(row) <= Len(r.fields)
    BY RowAddedIs
<1> HIDE DEF r
<1>2. t.rows \in Seq(Row) /\ Len(t.fields) \in Nat /\ Len(r.fields) \in Nat
    BY <1>1 DEF TableRecord
<1>3. CASE k \in DOMAIN t.rows
    <2>1. r.rows[k] = t.rows[k]
        BY <1>1, <1>2, <1>3
    <2>2. Len(t.rows[k]) \in Nat
        BY <1>2, <1>3 DEF Row
    <2>3. QED BY <1>1, <1>2, <1>3, <2>1, <2>2 DEF Wide
<1>4. CASE k = Len(t.rows) + 1
    BY <1>1, <1>2, <1>4
<1>5. QED BY <1>1, <1>2, <1>3, <1>4

(* There is a function that satisfies the recursion of RowsAdded. *)
AddedUpto(h, t, rows) ==
    /\ h[0] = t
    /\ \A n \in 1..Len(rows) : h[n] = RowAdded(h[n - 1], rows[n])

LEMMA RowsAddedDefined ==
    ASSUME NEW t, NEW rows \in Seq(Row), t \in TableRecord, Positional(t)
    PROVE  \E h : AddedUpto(h, t, rows) /\ RowsAdded(t, rows) = h[Len(rows)]
<1> DEFINE D == {x \in TableRecord : Positional(x)}
           N == Len(rows)
           Next1(x, k) == RowAdded(x, rows[k])
           G == [k \in 1..N |-> [x \in D |-> Next1(x, k)]]
           Body(g) == [k \in 0..N |-> IF k = 0 THEN t ELSE Next1(g[k - 1], k)]
<1>0. N \in Nat
    OBVIOUS
<1>1. N \in Nat /\ \A k \in 1..N : rows[k] \in Row
    OBVIOUS
<1>2. \A k \in 1..N, x \in D : Next1(x, k) \in D
    BY <1>1, RowAddedIs
<1>3. G \in Steps(D, N)
    <2> HIDE DEF Next1, D, N
    <2>1. QED BY <1>2 DEF Steps
<1>4. t \in D
    OBVIOUS
<1> HIDE DEF Next1, D, N
<1>5. PICK f \in [0..N -> D] : f[0] = t /\ \A k \in 1..N : f[k] = G[k][f[k - 1]]
    <2> HIDE DEF G
    <2>1. \E f : Iterates(f, D, t, N, G)
        BY <1>0, <1>3, <1>4, Iterated
    <2>2. QED BY <2>1 DEF Iterates
<1>6. f = Body(f)
    <2>1. \A k \in 1..N : k - 1 \in 0..N
        BY <1>1
    <2>2. \A k \in 0..N : k = 0 \/ k \in 1..N
        BY <1>1
    <2>3. \A k \in 1..N : f[k] = Next1(f[k - 1], k)
        BY <1>5, <2>1
    <2>4. \A k \in 0..N : f[k] = IF k = 0 THEN t ELSE Next1(f[k - 1], k)
        <3>1. \A k \in 1..N : k # 0
            BY <1>1
        <3>2. QED BY <1>5, <2>2, <2>3, <3>1
    <2>5. QED BY <2>4
<1> DEFINE u == CHOOSE h : h = Body(h)
<1>7. u = Body(u)
    <2> HIDE DEF Body
    <2>1. QED BY <1>6
<1> HIDE DEF u
<1>8. RowsAdded(t, rows) = u[Len(rows)]
    BY DEF RowsAdded, u, Next1, N
<1>9. AddedUpto(u, t, rows)
    <2>1. u[0] = t
        <3>1. 0 \in 0..N
            BY <1>1
        <3>2. QED BY <1>7, <3>1
    <2>2. \A k \in 1..N : u[k] = Next1(u[k - 1], k)
        <3>1. \A k \in 1..N : k \in 0..N /\ k # 0
            BY <1>1
        <3> HIDE DEF Next1
        <3>2. QED BY <1>7, <3>1
    <2>3. QED BY <2>1, <2>2 DEF AddedUpto, Next1, N
<1>10. QED BY <1>8, <1>9

(* Rows are added in their order, and what was wide enough for them stays. *)
LEMMA RowsAddedIs ==
    ASSUME NEW t \in TableRecord, Positional(t), NEW rows \in Seq(Row)
    PROVE  LET r == RowsAdded(t, rows)
           IN  /\ r \in TableRecord /\ Positional(r)
               /\ r.name = t.name /\ r.receiving = t.receiving /\ r.temporary = t.temporary
               /\ r.rows = t.rows \o rows
               /\ Wide(t) => Wide(r)
               /\ (\A k \in DOMAIN rows : Len(rows[k]) <= Len(t.fields)) => r.fields = t.fields
<1>1. PICK h : AddedUpto(h, t, rows) /\ RowsAdded(t, rows) = h[Len(rows)]
    BY RowsAddedDefined
<1> DEFINE N == Len(rows)
           Good(x) == /\ x \in TableRecord /\ Positional(x)
                      /\ x.name = t.name /\ x.receiving = t.receiving /\ x.temporary = t.temporary
                      /\ Wide(t) => Wide(x)
                      /\ (\A k \in DOMAIN rows : Len(rows[k]) <= Len(t.fields)) => x.fields = t.fields
           P(n) == n <= N => Good(h[n]) /\ h[n].rows = t.rows \o SubSeq(rows, 1, n)
           S == {n \in Nat : P(n)}
<1>2. N \in Nat /\ t.rows \in Seq(Row) /\ DOMAIN rows = 1..N
    BY DEF TableRecord
<1>3. P(0)
    <2>1. SubSeq(rows, 1, 0) = <<>>
        BY SubSeqEmpty
    <2>2. t.rows \o <<>> = t.rows
        BY <1>2, ConcatEmptySeq
    <2>3. QED BY <1>1, <2>1, <2>2 DEF AddedUpto
<1>4. \A n \in Nat : P(n) => P(n + 1)
    <2> SUFFICES ASSUME NEW n \in Nat, P(n), n + 1 <= N
                 PROVE  Good(h[n + 1]) /\ h[n + 1].rows = t.rows \o SubSeq(rows, 1, n + 1)
        OBVIOUS
    <2>0. n + 1 \in 1..N /\ (n + 1) - 1 = n /\ n <= N
        BY <1>2
    <2>1. h[n + 1] = RowAdded(h[n], rows[n + 1])
        BY <1>1, <2>0 DEF AddedUpto
    <2>2. rows[n + 1] \in Row
        BY <2>0
    <2>3. h[n] \in TableRecord /\ Positional(h[n]) /\ Good(h[n]) /\ h[n].rows = t.rows \o SubSeq(rows, 1, n)
        BY <2>0
    <2> DEFINE x == h[n]
    <2> HIDE DEF x
    <2>4. /\ RowAdded(h[n], rows[n + 1]) \in TableRecord /\ Positional(RowAdded(h[n], rows[n + 1]))
          /\ RowAdded(h[n], rows[n + 1]).name = t.name
          /\ RowAdded(h[n], rows[n + 1]).receiving = t.receiving
          /\ RowAdded(h[n], rows[n + 1]).temporary = t.temporary
          /\ RowAdded(h[n], rows[n + 1]).rows = Append(h[n].rows, rows[n + 1])
          /\ Len(rows[n + 1]) <= Len(h[n].fields) => RowAdded(h[n], rows[n + 1]).fields = h[n].fields
        BY <2>2, <2>3, RowAddedIs
    <2>5. Wide(t) => Wide(RowAdded(h[n], rows[n + 1]))
        BY <2>2, <2>3, RowAddedWide
    <2>6. (\A k \in DOMAIN rows : Len(rows[k]) <= Len(t.fields)) => RowAdded(h[n], rows[n + 1]).fields = t.fields
        BY <1>2, <2>0, <2>3, <2>4
    <2>7. Append(t.rows \o SubSeq(rows, 1, n), rows[n + 1]) = t.rows \o SubSeq(rows, 1, n + 1)
        BY <1>2, <2>0, ConcatExtended
    <2>8. QED BY <2>1, <2>3, <2>4, <2>5, <2>6, <2>7
<1>5. Nat \subseteq S
    <2> HIDE DEF P
    <2>1. 0 \in S /\ \A n \in Nat : n \in S => n + 1 \in S
        BY <1>3, <1>4
    <2>2. QED BY <2>1, Induction
<1>6. P(N)
    <2> HIDE DEF P
    <2>1. QED BY <1>2, <1>5
<1>7. SubSeq(rows, 1, N) = rows
    BY SubSeqFull
<1>8. Good(h[N]) /\ h[N].rows = t.rows \o rows
    <2> HIDE DEF Good
    <2>1. N <= N
        BY <1>2
    <2> HIDE DEF N
    <2>2. QED BY <1>6, <1>7, <2>1
<1>9. QED BY <1>1, <1>8, Zenon

-----------------------------------------------------------------------------
(* Lists of tables *)

Distinct(list) == \A i, j \in DOMAIN list : list[i].name = list[j].name => i = j

LEMMA ListIs ==
    \A list : IsList(list) <=>
        list \in Seq(TableRecord) /\ (\A i \in DOMAIN list : IsTable(list[i])) /\ Distinct(list)
<1> SUFFICES ASSUME NEW list
             PROVE  IsList(list) <=>
                 list \in Seq(TableRecord) /\ (\A i \in DOMAIN list : IsTable(list[i])) /\ Distinct(list)
    OBVIOUS
<1>1. ASSUME IsList(list) PROVE list \in Seq(TableRecord)
    <2>1. list \in Seq(Range(list))
        BY <1>1 DEF IsList
    <2>2. DOMAIN list = 1..Len(list) /\ Len(list) \in Nat /\ list \in [1..Len(list) -> Range(list)]
        BY <2>1, LenProperties
    <2>3. \A i \in 1..Len(list) : list[i] \in TableRecord
        BY <1>1, <2>2, TableIs DEF IsList
    <2>4. list \in [1..Len(list) -> TableRecord]
        BY <2>2, <2>3
    <2>5. QED BY <2>2, <2>4
<1>2. ASSUME list \in Seq(TableRecord) PROVE list \in Seq(Range(list))
    BY <1>2, SeqOfRange
<1>3. QED BY <1>1, <1>2 DEF IsList, Distinct

LEMMA EmptyList == IsList(<<>>)
<1>1. <<>> \in Seq(TableRecord) /\ DOMAIN <<>> = {}
    OBVIOUS
<1>2. QED BY <1>1, ListIs DEF Distinct

LEMMA ElementIs ==
    ASSUME NEW list, IsList(list)
    PROVE  /\ list \in Seq(TableRecord) /\ Len(list) \in Nat /\ DOMAIN list = 1..Len(list)
           /\ \A i \in DOMAIN list : /\ list[i] \in TableRecord /\ IsTable(list[i])
                                     /\ Positional(list[i]) /\ Wide(list[i])
                                     /\ list[i].name \in TableNames
<1>1. list \in Seq(TableRecord) /\ \A i \in DOMAIN list : IsTable(list[i])
    BY ListIs
<1>2. \A i \in DOMAIN list : list[i] \in TableRecord /\ Positional(list[i]) /\ Wide(list[i])
    BY <1>1, TableIs
<1>3. \A i \in DOMAIN list : list[i].name \in TableNames
    BY <1>2 DEF TableRecord
<1>4. QED BY <1>1, <1>2, <1>3

LEMMA IndexIs ==
    ASSUME NEW list, NEW name, name \in Names(list)
    PROVE  Index(list, name) \in DOMAIN list /\ list[Index(list, name)].name = name
BY DEF Index, Names

LEMMA CreatedIs ==
    ASSUME NEW list, IsList(list), NEW name \in TableNames
    PROVE  /\ IsList(Created(list, name)) /\ name \in Names(Created(list, name))
           /\ name \in Names(list) => Created(list, name) = list
           /\ name \notin Names(list) =>
                 /\ Created(list, name) = Append(list, NewTable(name))
                 /\ Index(Created(list, name), name) = Len(list) + 1
                 /\ Created(list, name)[Len(list) + 1] = NewTable(name)
<1>1. list \in Seq(TableRecord) /\ Len(list) \in Nat /\ DOMAIN list = 1..Len(list) /\ Distinct(list)
    BY ElementIs, ListIs
<1>2. CASE name \in Names(list)
    BY <1>2 DEF Created
<1>3. CASE name \notin Names(list)
    <2> DEFINE new == NewTable(name)
               c == Append(list, new)
    <2>1. new \in TableRecord /\ IsTable(new) /\ new.name = name
        BY NewTableIs, TableIs
    <2> HIDE DEF new
    <2>2. /\ c \in Seq(TableRecord) /\ DOMAIN c = 1..(Len(list) + 1)
          /\ \A i \in DOMAIN list : c[i] = list[i]
          /\ c[Len(list) + 1] = new
        BY <1>1, <2>1
    <2> HIDE DEF c
    <2>3. \A i \in DOMAIN c : i \in DOMAIN list \/ i = Len(list) + 1
        BY <1>1, <2>2
    <2>4. \A i \in DOMAIN list : list[i].name # name /\ IsTable(list[i])
        BY <1>3, ElementIs DEF Names
    <2>5. Distinct(c)
        BY <1>1, <2>1, <2>2, <2>3, <2>4 DEF Distinct
    <2>6. \A i \in DOMAIN c : IsTable(c[i])
        BY <2>1, <2>2, <2>3, <2>4
    <2>7. IsList(c)
        BY <2>2, <2>5, <2>6, ListIs
    <2>8. Created(list, name) = c
        BY <1>3 DEF Created, c, new
    <2>9. Len(list) + 1 \in DOMAIN c /\ c[Len(list) + 1].name = name
        BY <1>1, <2>1, <2>2
    <2>10. name \in Names(c)
        BY <2>9 DEF Names
    <2>11. Index(c, name) = Len(list) + 1
        BY <2>5, <2>9, <2>10, IndexIs DEF Distinct
    <2>12. QED BY <1>3, <2>2, <2>7, <2>8, <2>10, <2>11 DEF c, new
<1>4. QED BY <1>2, <1>3

LEMMA TableOf ==
    ASSUME NEW list, IsList(list), NEW name \in TableNames
    PROVE  /\ IsTable(Table(list, name)) /\ Table(list, name).name = name
           /\ Table(list, name).rows = RowsOf(list, name)
           /\ name \notin Names(list) => Table(list, name) = NewTable(name)
<1>1. CASE name \in Names(list)
    <2>1. Table(list, name) = list[Index(list, name)]
        BY <1>1, CreatedIs DEF Table
    <2>2. QED BY <1>1, <2>1, IndexIs, ElementIs DEF RowsOf
<1>2. CASE name \notin Names(list)
    <2>1. Table(list, name) = NewTable(name)
        BY <1>2, CreatedIs DEF Table
    <2>2. QED BY <1>2, <2>1, NewTableIs, TableIs DEF RowsOf
<1>3. QED BY <1>1, <1>2

LEMMA ChangedIs ==
    ASSUME NEW list, IsList(list), NEW t, IsTable(t)
    PROVE  LET c == Changed(list, t)
           IN  /\ IsList(c)
               /\ t.name \notin Names(list) => c = Append(list, t)
               /\ RowsOf(c, t.name) = t.rows
               /\ \A n : n # t.name => RowsOf(c, n) = RowsOf(list, n)
<1>1. t \in TableRecord /\ t.name \in TableNames
    BY TableIs DEF TableRecord
<1> DEFINE base == Created(list, t.name)
           at == Index(base, t.name)
           c == Changed(list, t)
<1>2. IsList(base) /\ t.name \in Names(base)
    BY <1>1, CreatedIs
<1>3. at \in DOMAIN base /\ base[at].name = t.name
    BY <1>2, IndexIs
<1>4. /\ base \in Seq(TableRecord) /\ Len(base) \in Nat /\ DOMAIN base = 1..Len(base)
      /\ \A i \in DOMAIN base : IsTable(base[i])
      /\ Distinct(base)
    BY <1>2, ElementIs, ListIs
<1>5. c = [base EXCEPT ![at] = t]
    BY DEF Changed
<1>6. t.name \notin Names(list) => base = Append(list, NewTable(t.name)) /\ at = Len(list) + 1
    BY <1>1, CreatedIs
<1>7. t.name \in Names(list) => base = list
    BY <1>1, CreatedIs
<1> HIDE DEF base, at, c
<1>8. /\ c \in Seq(TableRecord) /\ DOMAIN c = DOMAIN base /\ c[at] = t
      /\ \A i \in DOMAIN base : i # at => c[i] = base[i]
    BY <1>1, <1>3, <1>4, <1>5
<1>9. \A i \in DOMAIN base : c[i].name = base[i].name /\ IsTable(c[i])
    BY <1>3, <1>4, <1>8
<1>10. Distinct(c)
    BY <1>4, <1>8, <1>9 DEF Distinct
<1>11. IsList(c)
    BY <1>8, <1>9, <1>10, ListIs
<1>12. Names(c) = Names(base) /\ \A n \in Names(base) : Index(c, n) = Index(base, n)
    <2>1. Names(c) = Names(base)
        BY <1>8, <1>9 DEF Names
    <2>2. ASSUME NEW n \in Names(base) PROVE Index(c, n) = Index(base, n)
        BY <1>8, <1>9, <1>10, <2>1, <2>2, IndexIs DEF Distinct
    <2>3. QED BY <2>1, <2>2
<1>13. RowsOf(c, t.name) = t.rows
    BY <1>2, <1>8, <1>12 DEF RowsOf, at
<1>14. ASSUME NEW n, n # t.name PROVE RowsOf(c, n) = RowsOf(base, n)
    <2>1. CASE n \in Names(base)
        <3>1. Index(base, n) \in DOMAIN base /\ Index(base, n) # at
            BY <1>3, <1>14, <2>1, IndexIs
        <3>2. QED BY <1>8, <1>12, <2>1, <3>1 DEF RowsOf
    <2>2. CASE n \notin Names(base)
        BY <1>12, <2>2 DEF RowsOf
    <2>3. QED BY <2>1, <2>2
<1>15. ASSUME NEW n, n # t.name PROVE RowsOf(base, n) = RowsOf(list, n)
    <2>1. CASE t.name \in Names(list)
        BY <1>7, <2>1
    <2>2. CASE t.name \notin Names(list)
        <3>1. /\ list \in Seq(TableRecord) /\ Len(list) \in Nat /\ DOMAIN list = 1..Len(list)
              /\ Distinct(list)
            BY ElementIs, ListIs
        <3>2. NewTable(t.name) \in TableRecord /\ NewTable(t.name).name = t.name
            BY <1>1, NewTableIs
        <3>3. /\ DOMAIN base = 1..(Len(list) + 1) /\ \A i \in DOMAIN list : base[i] = list[i]
              /\ base[Len(list) + 1].name = t.name
            BY <1>6, <2>2, <3>1, <3>2
        <3>4. \A i \in DOMAIN base : i \in DOMAIN list \/ i = Len(list) + 1
            BY <3>1, <3>3
        <3>5. n \in Names(base) <=> n \in Names(list)
            BY <1>15, <3>1, <3>3, <3>4 DEF Names
        <3>6. CASE n \in Names(list)
            <4>1. /\ Index(list, n) \in DOMAIN list /\ list[Index(list, n)].name = n
                  /\ Index(base, n) \in DOMAIN base /\ base[Index(base, n)].name = n
                BY <3>5, <3>6, IndexIs
            <4>2. Index(base, n) \in DOMAIN list
                BY <1>15, <3>3, <3>4, <4>1
            <4>3. Index(base, n) = Index(list, n)
                BY <3>1, <3>3, <4>1, <4>2 DEF Distinct
            <4>4. QED BY <3>3, <3>5, <3>6, <4>1, <4>3 DEF RowsOf
        <3>7. CASE n \notin Names(list)
            BY <3>5, <3>7 DEF RowsOf
        <3>8. QED BY <3>6, <3>7
    <2>3. QED BY <2>1, <2>2
<1>16. t.name \notin Names(list) => c = Append(list, t)
    <2> SUFFICES ASSUME t.name \notin Names(list) PROVE c = Append(list, t)
        OBVIOUS
    <2>1. list \in Seq(TableRecord) /\ Len(list) \in Nat /\ DOMAIN list = 1..Len(list)
        BY ElementIs
    <2>2. NewTable(t.name) \in TableRecord
        BY <1>1, NewTableIs
    <2>3. base = Append(list, NewTable(t.name)) /\ at = Len(list) + 1
        BY <1>6
    <2>4. Len(c) = Len(list) + 1 /\ \A i \in 1..Len(list) : c[i] = list[i]
        BY <1>8, <2>1, <2>2, <2>3
    <2>5. c[Len(list) + 1] = t
        BY <1>8, <2>3
    <2>6. Append(list, t) \in Seq(TableRecord) /\ Len(Append(list, t)) = Len(list) + 1
        BY <1>1, <2>1
    <2>7. \A i \in 1..(Len(list) + 1) : c[i] = Append(list, t)[i]
        BY <1>1, <2>1, <2>4, <2>5
    <2>8. QED BY <1>8, <2>4, <2>6, <2>7, SeqEqual
<1>17. QED BY <1>11, <1>13, <1>14, <1>15, <1>16 DEF c

(* A line of the feed and a copy leave a list of tables. *)
LEMMA ReceivedList ==
    ASSUME IsList(tables), NEW name \in Tables, NEW row \in Rows, NEW kind
    PROVE  IsList(Received(name, row, kind))
<1> DEFINE old == Table(tables, name)
           t == IF kind = "response" \/ ~old.receiving THEN Cleared(old) ELSE old
           r == [RowAdded(t, row) EXCEPT !.receiving = kind = "more"]
<1>1. name \in TableNames /\ row \in Row
    BY StorageAssumption DEF TableNames, Row
<1>2. IsTable(old)
    BY <1>1, TableOf
<1> HIDE DEF old
<1>3. old \in TableRecord /\ Positional(old) /\ Wide(old)
    BY <1>2, TableIs
<1>4. Cleared(old) \in TableRecord /\ Positional(Cleared(old)) /\ Wide(Cleared(old))
    <2>1. <<>> \in Seq(FieldText) /\ <<>> \in Seq(Row) /\ DOMAIN <<>> = {}
        OBVIOUS
    <2>2. QED BY <1>3, <2>1 DEF Cleared, TableRecord, Positional, Wide
<1>5. t \in TableRecord /\ Positional(t) /\ Wide(t)
    BY <1>3, <1>4
<1> HIDE DEF t
<1>6. RowAdded(t, row) \in TableRecord /\ Positional(RowAdded(t, row)) /\ Wide(RowAdded(t, row))
    BY <1>1, <1>5, RowAddedIs, RowAddedWide
<1>7. r \in TableRecord /\ Positional(r) /\ Wide(r)
    BY <1>6 DEF TableRecord, Positional, Wide
<1>8. IsTable(r)
    BY <1>7, TableIs
<1>9. Received(name, row, kind) = Changed(tables, r)
    BY DEF Received, r, t, old
<1> HIDE DEF r
<1>10. QED BY <1>8, <1>9, ChangedIs

LEMMA CopiedList ==
    ASSUME NEW list, IsList(list), NEW name \in Tables, NEW target \in Tables
    PROVE  IsList(Copied(list, name, target))
<1> DEFINE from == Table(list, name)
           to == Table(list, target)
           r == [to EXCEPT !.rows = from.rows, !.fields = from.fields, !.temporary = TRUE]
<1>1. IsTable(from) /\ IsTable(to)
    BY TableOf DEF TableNames
<1>2. Copied(list, name, target) = Changed(list, r)
    BY DEF Copied
<1> HIDE DEF from, to
<1>3. /\ from \in TableRecord /\ Positional(from) /\ Wide(from)
      /\ to \in TableRecord
    BY <1>1, TableIs
<1>4. r \in TableRecord /\ Positional(r) /\ Wide(r)
    BY <1>3 DEF TableRecord, Positional, Wide
<1>5. IsTable(r)
    BY <1>4, TableIs
<1> HIDE DEF r
<1>6. QED BY <1>2, <1>5, ChangedIs

-----------------------------------------------------------------------------
(* Sequences put behind each other: what FlattenSeq gives is the last of    *)
(* what it has after each of them.                                          *)

JoinedUpto(h, seqs) == h[0] = <<>> /\ \A k \in 1..Len(seqs) : h[k] = h[k - 1] \o seqs[k]

Joins(h, seqs, X) ==
    /\ seqs \in Seq(Seq(X)) /\ h \in [0..Len(seqs) -> Seq(X)]
    /\ JoinedUpto(h, seqs)

LEMMA Joined ==
    ASSUME NEW X, NEW seqs \in Seq(Seq(X))
    PROVE  \E h : Joins(h, seqs, X) /\ FlattenSeq(seqs) = h[Len(seqs)]
<1> DEFINE D == Seq(X)
           N == Len(seqs)
           With(s, k) == s \o seqs[k]
           G == [k \in 1..N |-> [s \in D |-> With(s, k)]]
<1>1. N \in Nat /\ \A k \in 1..N : seqs[k] \in D
    OBVIOUS
<1>2. \A k \in 1..N, s \in D : With(s, k) \in D
    BY <1>1, ConcatProperties
<1>3. G \in Steps(D, N)
    <2> HIDE DEF With, D, N
    <2>1. QED BY <1>2 DEF Steps
<1>4. <<>> \in D
    OBVIOUS
<1>5. N \in Nat
    OBVIOUS
<1>6. \A s \in D : <<>> \o s = s
    BY ConcatEmptySeq
<1> HIDE DEF With, D, N
<1>7. PICK f \in [0..N -> D] : f[0] = <<>> /\ \A k \in 1..N : f[k] = G[k][f[k - 1]]
    <2> HIDE DEF G
    <2> DEFINE first == <<>>
    <2>1. first \in D
        BY <1>4
    <2> HIDE DEF first
    <2>2. \E f : Iterates(f, D, first, N, G)
        BY <1>3, <1>5, <2>1, Iterated
    <2>3. QED BY <2>2 DEF first, Iterates
<1>8. \A k \in 1..N : f[k] = With(f[k - 1], k)
    <2>1. \A k \in 1..N : k - 1 \in 0..N
        BY <1>1
    <2>2. QED BY <1>7, <2>1
<1>9. JoinedUpto(f, seqs)
    BY <1>7, <1>8 DEF JoinedUpto, With, N
<1>10. FlattenSeq(seqs) = f[N]
    <2>1. CASE N = 0
        <3>1. seqs = <<>>
            BY <2>1 DEF N
        <3>2. FlattenSeq(seqs) = seqs
            BY <2>1 DEF FlattenSeq, N
        <3>3. QED BY <1>7, <2>1, <3>1, <3>2
    <2>2. CASE N # 0
        <3> DEFINE Body(g) == [i \in 1..N |-> IF i = 1 THEN seqs[i] ELSE With(g[i - 1], i)]
                   g0 == [i \in 1..N |-> f[i]]
                   u == CHOOSE g : g = Body(g)
        <3>1. FlattenSeq(seqs) = u[N]
            BY <2>2 DEF FlattenSeq, With, N
        <3>2. f[1] = seqs[1]
            <4>1. 1 \in 1..N /\ 1 - 1 = 0
                BY <1>1, <2>2
            <4>2. seqs[1] \in D
                BY <1>1, <4>1
            <4>3. f[1] = <<>> \o seqs[1]
                BY <1>7, <1>8, <4>1 DEF With
            <4>4. QED BY <1>6, <4>2, <4>3
        <3>3. g0 = Body(g0)
            <4>1. \A i \in 1..N : i # 1 => i - 1 \in 1..N
                BY <1>1
            <4>2. \A i \in 1..N : f[i] = IF i = 1 THEN seqs[i] ELSE With(g0[i - 1], i)
                BY <1>8, <3>2, <4>1
            <4>3. QED BY <4>2
        <3>4. u = Body(u)
            <4> HIDE DEF Body, g0
            <4>1. QED BY <3>3
        <3> HIDE DEF u
        <3> DEFINE P(k) == k + 1 <= N => u[k + 1] = f[k + 1]
                   S == {k \in Nat : P(k)}
        <3>5. P(0)
            <4>1. 1 \in 1..N
                BY <1>1, <2>2
            <4>2. u[1] = seqs[1]
                BY <3>4, <4>1
            <4>3. QED BY <3>2, <4>2
        <3>6. \A k \in Nat : P(k) => P(k + 1)
            <4> SUFFICES ASSUME NEW k \in Nat, P(k), (k + 1) + 1 <= N PROVE u[(k + 1) + 1] = f[(k + 1) + 1]
                OBVIOUS
            <4>1. /\ (k + 1) + 1 \in 1..N /\ (k + 1) + 1 # 1 /\ ((k + 1) + 1) - 1 = k + 1
                  /\ k + 1 <= N
                BY <1>1
            <4>2. u[(k + 1) + 1] = With(u[k + 1], (k + 1) + 1)
                BY <3>4, <4>1
            <4>3. f[(k + 1) + 1] = With(f[k + 1], (k + 1) + 1)
                BY <1>8, <4>1
            <4>4. QED BY <4>1, <4>2, <4>3
        <3>7. Nat \subseteq S
            <4> HIDE DEF P
            <4>1. 0 \in S /\ \A k \in Nat : k \in S => k + 1 \in S
                BY <3>5, <3>6
            <4>2. QED BY <4>1, Induction
        <3>8. P(N - 1)
            <4>1. N - 1 \in Nat
                BY <1>1, <2>2
            <4> HIDE DEF P
            <4>2. QED BY <3>7, <4>1
        <3>9. (N - 1) + 1 = N
            BY <1>1
        <3>10. QED BY <1>1, <3>1, <3>8, <3>9
    <2>3. QED BY <2>1, <2>2
<1>11. QED BY <1>7, <1>9, <1>10 DEF D, N, Joins

(* What is there once stays where it is. *)
LEMMA JoinedStays ==
    ASSUME NEW X, NEW seqs, NEW h, Joins(h, seqs, X),
           NEW m \in 0..Len(seqs), NEW n \in m..Len(seqs)
    PROVE  Len(h[m]) <= Len(h[n]) /\ \A k \in 1..Len(h[m]) : h[n][k] = h[m][k]
<1>0. seqs \in Seq(Seq(X)) /\ h \in [0..Len(seqs) -> Seq(X)] /\ JoinedUpto(h, seqs)
    BY DEF Joins
<1> DEFINE N == Len(seqs)
           P(d) == m + d <= N =>
                       Len(h[m]) <= Len(h[m + d]) /\ \A k \in 1..Len(h[m]) : h[m + d][k] = h[m][k]
           S == {d \in Nat : P(d)}
<1>1. N \in Nat /\ \A k \in 0..N : h[k] \in Seq(X) /\ Len(h[k]) \in Nat
    BY <1>0
<1>2. \A k \in 1..N : seqs[k] \in Seq(X) /\ Len(seqs[k]) \in Nat
    BY <1>0
<1>3. P(0)
    BY <1>1
<1>4. \A d \in Nat : P(d) => P(d + 1)
    <2> SUFFICES ASSUME NEW d \in Nat, P(d), m + (d + 1) <= N
                 PROVE  /\ Len(h[m]) <= Len(h[m + (d + 1)])
                        /\ \A k \in 1..Len(h[m]) : h[m + (d + 1)][k] = h[m][k]
        OBVIOUS
    <2> DEFINE e == m + d
    <2>1. e \in 0..N /\ e + 1 \in 1..N /\ (e + 1) - 1 = e /\ m + (d + 1) = e + 1
        BY <1>1
    <2>2. Len(h[m]) <= Len(h[e]) /\ \A k \in 1..Len(h[m]) : h[e][k] = h[m][k]
        BY <1>1
    <2> HIDE DEF e
    <2>3. h[e + 1] = h[e] \o seqs[e + 1]
        BY <1>0, <2>1 DEF JoinedUpto
    <2> DEFINE a == h[e]
               b == seqs[e + 1]
               c == h[e + 1]
               z == h[m]
    <2>4. a \in Seq(X) /\ b \in Seq(X) /\ c = a \o b /\ Len(z) \in Nat
        BY <1>1, <1>2, <2>1, <2>3
    <2>5. Len(z) <= Len(a) /\ \A k \in 1..Len(z) : a[k] = z[k]
        BY <2>2
    <2> HIDE DEF a, b, c, z
    <2>6. /\ Len(c) = Len(a) + Len(b) /\ Len(a) \in Nat /\ Len(b) \in Nat
          /\ \A k \in 1..Len(a) : c[k] = a[k]
        BY <2>4, ConcatProperties
    <2>7. Len(z) <= Len(c)
        BY <2>4, <2>5, <2>6
    <2>8. \A k \in 1..Len(z) : c[k] = z[k]
        BY <2>4, <2>5, <2>6
    <2>9. h[m + (d + 1)] = c
        BY <2>1 DEF c
    <2>10. QED BY <2>7, <2>8, <2>9 DEF z
<1>5. Nat \subseteq S
    <2> HIDE DEF P
    <2>1. 0 \in S /\ \A d \in Nat : d \in S => d + 1 \in S
        BY <1>3, <1>4
    <2>2. QED BY <2>1, Induction
<1>6. \A d \in Nat : P(d)
    BY <1>5
<1>7. n - m \in Nat /\ m + (n - m) = n /\ n <= N
    BY <1>1
<1> HIDE DEF S
<1>8. P(n - m)
    <2> HIDE DEF P
    <2>1. QED BY <1>6, <1>7
<1>9. QED BY <1>7, <1>8

(* Sequence j lies behind those before it. *)
LiesAt(h, seqs, j, n) ==
    /\ Len(h[j]) = Len(h[j - 1]) + Len(seqs[j])
    /\ Len(h[j]) <= Len(h[n])
    /\ \A m \in 1..Len(seqs[j]) : /\ Len(h[j - 1]) + m \in 1..Len(h[n])
                                  /\ h[n][Len(h[j - 1]) + m] = seqs[j][m]

LEMMA JoinedAt ==
    ASSUME NEW X, NEW seqs, NEW h, Joins(h, seqs, X),
           NEW j \in 1..Len(seqs), NEW n \in j..Len(seqs)
    PROVE  LiesAt(h, seqs, j, n)
<1>0. seqs \in Seq(Seq(X)) /\ h \in [0..Len(seqs) -> Seq(X)] /\ JoinedUpto(h, seqs)
    BY DEF Joins
<1>1. Len(seqs) \in Nat /\ \A k \in 0..Len(seqs) : h[k] \in Seq(X) /\ Len(h[k]) \in Nat
    BY <1>0, SMTT(30)
<1>2. /\ j - 1 \in 0..Len(seqs) /\ j \in 0..Len(seqs) /\ n \in 0..Len(seqs)
      /\ n \in j..Len(seqs)
    BY <1>1
<1>3. seqs[j] \in Seq(X) /\ Len(seqs[j]) \in Nat
    BY <1>0
<1> DEFINE a == h[j - 1]
           b == seqs[j]
<1>4. a \in Seq(X) /\ Len(a) \in Nat /\ b \in Seq(X) /\ Len(b) \in Nat /\ h[j] = a \o b /\ Len(h[n]) \in Nat
    BY <1>0, <1>1, <1>2, <1>3 DEF JoinedUpto
<1>5. Len(h[j]) <= Len(h[n]) /\ \A k \in 1..Len(h[j]) : h[n][k] = h[j][k]
    BY <1>2, JoinedStays
<1> HIDE DEF a, b
<1>6. /\ Len(h[j]) = Len(a) + Len(b)
      /\ \A k \in 1..(Len(a) + Len(b)) : h[j][k] = IF k <= Len(a) THEN a[k] ELSE b[k - Len(a)]
    BY <1>4, ConcatProperties
<1>7. ASSUME NEW m \in 1..Len(b)
      PROVE  Len(a) + m \in 1..Len(h[n]) /\ h[n][Len(a) + m] = b[m]
    <2> DEFINE k == Len(a) + m
    <2>1. /\ k \in 1..Len(h[j]) /\ ~(k <= Len(a)) /\ k - Len(a) = m /\ k \in 1..Len(h[n])
          /\ k \in 1..(Len(a) + Len(b))
        BY <1>4, <1>5, <1>6
    <2> HIDE DEF k
    <2>2. h[j][k] = b[m]
        BY <1>6, <2>1
    <2>3. h[n][k] = b[m]
        BY <1>5, <2>1, <2>2
    <2>4. QED BY <2>1, <2>3 DEF k
<1>8. QED BY <1>5, <1>6, <1>7 DEF a, b, LiesAt

(* Whatever is there belongs to one of them. *)
LiesIn(h, seqs, n, k) == \E j \in 1..n : \E m \in 1..Len(seqs[j]) : k = Len(h[j - 1]) + m

LEMMA JoinedFrom ==
    ASSUME NEW X, NEW seqs, NEW h, Joins(h, seqs, X),
           NEW n \in 0..Len(seqs), NEW k \in 1..Len(h[n])
    PROVE  LiesIn(h, seqs, n, k)
<1> DEFINE T == {j \in 0..n : k <= Len(h[j])}
<1>0. seqs \in Seq(Seq(X)) /\ h \in [0..Len(seqs) -> Seq(X)] /\ JoinedUpto(h, seqs)
    BY DEF Joins
<1>1. Len(seqs) \in Nat /\ \A i \in 0..Len(seqs) : h[i] \in Seq(X) /\ Len(h[i]) \in Nat
    BY <1>0
<1>2. T \in SUBSET Nat /\ n \in T
    BY <1>1
<1>3. PICK j \in T : \A i \in T : j <= i
    BY <1>2, LeastElement
<1>4. j # 0
    <2>1. Len(h[0]) = 0
        BY <1>0 DEF JoinedUpto
    <2>2. k \in Nat /\ k >= 1
        BY <1>1
    <2>3. QED BY <1>3, <2>1, <2>2
<1>5. j \in 1..n /\ j \in 1..Len(seqs) /\ j - 1 \in 0..n /\ j - 1 \in 0..Len(seqs)
    BY <1>1, <1>3, <1>4
<1>6. j - 1 \notin T
    BY <1>3, <1>5
<1>7. k > Len(h[j - 1]) /\ k <= Len(h[j])
    <2>1. k \in Nat /\ Len(h[j - 1]) \in Nat
        BY <1>1, <1>5
    <2>2. ~(k <= Len(h[j - 1]))
        BY <1>5, <1>6
    <2>3. QED BY <1>3, <2>1, <2>2
<1>8. Len(h[j]) = Len(h[j - 1]) + Len(seqs[j])
    <2> DEFINE a == h[j - 1]
               b == seqs[j]
    <2>0. a \in Seq(X) /\ b \in Seq(X)
        BY <1>0, <1>1, <1>5
    <2>1. h[j] = a \o b
        BY <1>0, <1>5 DEF JoinedUpto
    <2> HIDE DEF a, b
    <2>2. Len(h[j]) = Len(a) + Len(b)
        BY <2>0, <2>1, ConcatProperties
    <2>3. QED BY <2>2 DEF a, b
<1>9. Len(seqs[j]) \in Nat /\ Len(h[j - 1]) \in Nat /\ k \in Nat
    BY <1>0, <1>1, <1>5
<1> DEFINE a == Len(h[j - 1])
           b == Len(seqs[j])
<1>10. k - a \in 1..b /\ k = a + (k - a)
    <2>1. k > a /\ k <= a + b /\ a \in Nat /\ b \in Nat /\ k \in Nat
        BY <1>7, <1>8, <1>9
    <2> HIDE DEF a, b
    <2>2. QED BY <2>1
<1>11. QED BY <1>5, <1>10 DEF LiesIn

-----------------------------------------------------------------------------
(* Lines of the file *)

LEMMA TextsAre ==
    /\ Empty \in LineText /\ Torn \in LineText /\ Texts \subseteq LineText
    /\ TableNames \subseteq LineText /\ Empty \in Texts /\ Torn \in Texts
    /\ \A n \in SectionNames : Header(n) \in LineText
    /\ \A k \in Nat : Number(k) \in LineText
    /\ Row \subseteq Line /\ <<Empty>> \in Row
<1>1. Empty \in Texts /\ Torn \in Texts
    BY StorageAssumption
<1>2. Texts \subseteq LineText
    BY DEF LineText, FieldText
<1>3. Row \subseteq Line
    BY <1>2, SeqMonotonic DEF Row, Line
<1>4. <<Empty>> \in Row
    BY <1>1 DEF Row
<1>5. QED BY <1>1, <1>2, <1>3, <1>4 DEF LineText, FieldText

LEMMA DefinitionLineIs ==
    ASSUME NEW t, IsTable(t)
    PROVE  LET d == DefinitionLine(t)
           IN  /\ d \in Line /\ d[1] = t.name /\ Len(d) >= 2 /\ Len(d) \in Nat
               /\ \A k \in 2..Len(d) : d[k] \in Texts \cup {Number(k - 1)}
               /\ t.fields = <<>> => Len(d) = 2 /\ d[2] = Empty
               /\ t.fields # <<>> =>
                     /\ Len(d) = Len(t.fields) + 1
                     /\ \A k \in 1..Len(t.fields) :
                           d[k + 1] = IF t.fields[k] = NoName THEN Number(k) ELSE t.fields[k]
<1>1. t \in TableRecord /\ Positional(t)
    BY TableIs
<1>2. t.fields \in Seq(FieldText) /\ t.name \in TableNames
    BY <1>1 DEF TableRecord
<1> DEFINE name == <<t.name>>
           names == [k \in DOMAIN t.fields |-> IF t.fields[k] = NoName THEN Number(k) ELSE t.fields[k]]
           d == DefinitionLine(t)
<1>3. name \in Seq(LineText) /\ Len(name) = 1 /\ name[1] = t.name
    BY <1>2, TextsAre
<1>4. CASE t.fields = <<>>
    <2>1. d = <<t.name>> \o <<Empty>>
        BY <1>4, Zenon DEF DefinitionLine
    <2>2. d \in Line /\ d[1] = t.name /\ d[2] = Empty /\ Len(d) = 2
        <3> DEFINE e == <<Empty>>
        <3>1. e \in Seq(LineText) /\ Len(e) = 1 /\ e[1] = Empty
            BY TextsAre
        <3>2. d = name \o e
            BY <2>1
        <3> HIDE DEF name, e
        <3>3. /\ name \o e \in Seq(LineText) /\ Len(name \o e) = Len(name) + Len(e)
              /\ \A k \in 1..(Len(name) + Len(e)) :
                    (name \o e)[k] = IF k <= Len(name) THEN name[k] ELSE e[k - Len(name)]
            BY <1>3, <3>1, ConcatProperties
        <3>4. 1 \in 1..2 /\ 2 \in 1..2
            OBVIOUS
        <3>5. (name \o e)[1] = t.name /\ (name \o e)[2] = Empty /\ Len(name \o e) = 2
            BY <1>3, <3>1, <3>3, <3>4
        <3>6. QED BY <3>2, <3>3, <3>5 DEF Line
    <2>3. \A k \in 2..Len(d) : k = 2
        BY <2>2
    <2>4. \A k \in 2..Len(d) : d[k] \in Texts \cup {Number(k - 1)}
        BY <2>2, <2>3, TextsAre
    <2>5. Len(d) >= 2 /\ Len(d) \in Nat
        BY <2>2
    <2> HIDE DEF d
    <2>6. QED BY <1>4, <2>2, <2>4, <2>5 DEF d
<1>5. CASE t.fields # <<>>
    <2>1. Len(t.fields) \in Nat /\ DOMAIN t.fields = 1..Len(t.fields) /\ Len(t.fields) >= 1
        BY <1>2, <1>5
    <2>2. \A k \in 1..Len(t.fields) : names[k] \in LineText /\ names[k] \in Texts \cup {Number(k)}
        <3> SUFFICES ASSUME NEW k \in 1..Len(t.fields)
                     PROVE  names[k] \in LineText /\ names[k] \in Texts \cup {Number(k)}
            OBVIOUS
        <3>1. t.fields[k] \in Texts \cup {NoName, Number(k)} /\ k \in Nat
            BY <1>1, <2>1 DEF Positional
        <3>2. names[k] \in Texts \cup {Number(k)}
            BY <2>1, <3>1
        <3>3. QED BY <3>1, <3>2, TextsAre
    <2>3. names \in Seq(LineText) /\ Len(names) = Len(t.fields)
        <3>1. names \in [1..Len(t.fields) -> LineText]
            BY <2>1, <2>2
        <3> HIDE DEF names
        <3>2. QED BY <2>1, <3>1
    <2>4. \A k \in 1..Len(t.fields) : names[k] = IF t.fields[k] = NoName THEN Number(k) ELSE t.fields[k]
        BY <2>1
    <2>5. d = name \o names
        BY <1>5 DEF DefinitionLine
    <2> HIDE DEF name, names, d
    <2>6. /\ d \in Seq(LineText) /\ Len(d) = 1 + Len(t.fields) /\ d[1] = t.name
          /\ \A k \in 1..(1 + Len(t.fields)) : d[k] = IF k <= 1 THEN name[k] ELSE names[k - 1]
        <3>0. name \in Seq(LineText) /\ names \in Seq(LineText)
            BY <1>3, <2>3
        <3>1. /\ name \o names \in Seq(LineText) /\ Len(name \o names) = Len(name) + Len(names)
              /\ \A k \in 1..(Len(name) + Len(names)) :
                    (name \o names)[k] = IF k <= Len(name) THEN name[k] ELSE names[k - Len(name)]
            BY ONLY <3>0, ConcatProperties
        <3>2. 1 \in 1..(1 + Len(t.fields))
            BY <2>1
        <3>3. QED BY <1>3, <2>3, <2>5, <3>1, <3>2
    <2>7. \A k \in 1..Len(t.fields) : k + 1 \in 1..(1 + Len(t.fields)) /\ ~(k + 1 <= 1) /\ (k + 1) - 1 = k
        BY <2>1
    <2>8. \A k \in 1..Len(t.fields) : d[k + 1] = names[k]
        BY <2>6, <2>7
    <2>9. \A k \in 2..Len(d) : k - 1 \in 1..Len(t.fields) /\ (k - 1) + 1 = k
        BY <2>1, <2>6
    <2>10. \A k \in 2..Len(d) : d[k] \in Texts \cup {Number(k - 1)}
        BY <2>2, <2>8, <2>9
    <2>11. d \in Line /\ Len(d) >= 2 /\ Len(d) \in Nat
        BY <2>1, <2>6 DEF Line
    <2>12. QED BY <1>5, <2>4, <2>6, <2>8, <2>10, <2>11 DEF d
<1>6. QED BY <1>4, <1>5

(* A row whose texts hold no semicolon is its line. *)
LEMMA RowLineIs ==
    ASSUME NEW row \in Row
    PROVE  /\ RowLine(row) \in Row
           /\ (\A k \in DOMAIN row : Pieces(row[k]) = <<row[k]>>) => RowLine(row) = row
<1> DEFINE pieces == [k \in DOMAIN row |-> Pieces(row[k])]
           N == Len(row)
<1>1. N \in Nat /\ N >= 1 /\ DOMAIN row = 1..N /\ row \in Seq(Texts)
    BY DEF Row
<1>2. \A k \in 1..N : pieces[k] \in Seq(Texts) /\ pieces[k] # <<>>
    BY <1>1, StorageAssumption
<1>3. pieces \in Seq(Seq(Texts)) /\ Len(pieces) = N
    BY <1>1, <1>2
<1>4. \A k \in 1..N : pieces[k] = Pieces(row[k])
    BY <1>1
<1> HIDE DEF pieces
<1>5. PICK h : Joins(h, pieces, Texts) /\ FlattenSeq(pieces) = h[Len(pieces)]
    BY <1>3, Joined
<1>6. RowLine(row) = h[N]
    BY <1>3, <1>5 DEF RowLine, pieces
<1>7. h[N] \in Row
    <2>1. N \in 0..Len(pieces) /\ N \in 1..Len(pieces) /\ N \in N..Len(pieces) /\ N - 1 \in 0..Len(pieces)
        BY <1>1, <1>3
    <2> DEFINE a == h[N - 1]
               b == pieces[N]
    <2>2. h[N] = a \o b
        BY <1>5, <2>1 DEF JoinedUpto, Joins
    <2>3. a \in Seq(Texts) /\ b \in Seq(Texts) /\ b # <<>>
        BY <1>2, <1>3, <1>5, <2>1 DEF Joins
    <2> HIDE DEF a, b
    <2>4. h[N] \in Seq(Texts) /\ h[N] # <<>>
        BY <2>2, <2>3, ConcatProperties, ConcatEqualIffEmpty
    <2>5. QED BY <2>4 DEF Row
<1>8. ASSUME \A k \in DOMAIN row : Pieces(row[k]) = <<row[k]>>
      PROVE  h[N] = row
    <2> DEFINE P(k) == k <= N => h[k] = SubSeq(row, 1, k)
               S == {k \in Nat : P(k)}
    <2>1. P(0)
        <3>1. SubSeq(row, 1, 0) = <<>>
            BY SubSeqEmpty
        <3>2. QED BY <1>5, <3>1 DEF JoinedUpto, Joins
    <2>2. \A k \in Nat : P(k) => P(k + 1)
        <3> SUFFICES ASSUME NEW k \in Nat, P(k), k + 1 <= N PROVE h[k + 1] = SubSeq(row, 1, k + 1)
            OBVIOUS
        <3>1. k + 1 \in 1..N /\ (k + 1) - 1 = k /\ k <= N /\ 1 \in 1..N
            BY <1>1
        <3>2. h[k + 1] = h[k] \o pieces[k + 1]
            BY <1>3, <1>5, <3>1 DEF JoinedUpto, Joins
        <3>3. pieces[k + 1] = <<row[k + 1]>>
            BY <1>1, <1>4, <1>8, <3>1
        <3>4. k + 1 \in 1..(k + 1)
            OBVIOUS
        <3>5. SubSeq(row, 1, k + 1) = SubSeq(row, 1, k) \o <<row[k + 1]>>
            BY <1>1, <3>1, SubSeqRecursiveSecond
        <3>6. QED BY <3>1, <3>2, <3>3, <3>5
    <2>3. Nat \subseteq S
        <3> HIDE DEF P
        <3>1. 0 \in S /\ \A k \in Nat : k \in S => k + 1 \in S
            BY <2>1, <2>2
        <3>2. QED BY <3>1, Induction
    <2>4. P(N)
        <3> HIDE DEF P
        <3>1. QED BY <1>1, <2>3
    <2>5. SubSeq(row, 1, N) = row
        BY <1>1, SubSeqFull
    <2>6. QED BY <1>1, <2>4, <2>5
<1>9. QED BY <1>6, <1>7, <1>8

-----------------------------------------------------------------------------
(* What is left of a line, and of a file *)

(* Whole texts of the line, but for the last: it is whole, torn or empty.   *)
LEMMA TornLineIs ==
    ASSUME NEW X, Empty \in X, Torn \in X,
           NEW line \in Seq(X), line # <<>>, NEW x \in TornLines(line)
    PROVE  /\ x \in Seq(X) /\ x # <<>> /\ Len(x) \in 1..Len(line)
           /\ \A k \in 1..Len(x) : k < Len(x) => x[k] = line[k]
           /\ x[Len(x)] \in {line[Len(x)], Torn, Empty}
           /\ x[1] \in {line[1], Torn}
           /\ line = <<Empty>> => x = <<Empty>>
<1> DEFINE Cuts(k) == {SubSeq(line, 1, k)}
                        \cup (IF k > 1 THEN {Append(SubSeq(line, 1, k - 1), Empty)} ELSE {})
                        \cup (IF line[k] \in Blank \cup {Empty} THEN {}
                              ELSE {Append(SubSeq(line, 1, k - 1), Torn)})
<1>1. Len(line) \in Nat /\ DOMAIN line = 1..Len(line) /\ Len(line) >= 1
      /\ \A k \in 1..Len(line) : line[k] \in X
    BY EmptySeq
<1>2. PICK k \in 1..Len(line) : x \in Cuts(k)
    BY <1>1 DEF TornLines
<1>3. CASE x = SubSeq(line, 1, k)
    <2>1. \A i \in 1..k : line[i] \in X
        BY <1>1
    <2>2. /\ x \in Seq(X) /\ Len(x) = k
          /\ \A i \in 1..k : x[i] = line[1 + i - 1]
        BY <1>2, <1>3, <2>1, SubSeqProperties
    <2>3. \A i \in 1..k : x[i] = line[i]
        BY <2>2
    <2>4. k \in 1..k /\ 1 \in 1..k
        BY <1>2
    <2>5. line = <<Empty>> => x = <<Empty>>
        <3>1. SUFFICES ASSUME line = <<Empty>> PROVE x = <<Empty>>
            OBVIOUS
        <3>2. Len(line) = 1 /\ line[1] = Empty
            BY <3>1
        <3>3. k = 1
            BY <1>2, <3>2
        <3>4. QED BY <2>2, <2>3, <2>4, <3>2, <3>3
    <2>6. QED BY <1>2, <2>2, <2>3, <2>4, <2>5, EmptySeq
<1>4. ASSUME NEW e \in {Empty, Torn}, x = Append(SubSeq(line, 1, k - 1), e),
             k = 1 => e = Torn, line # <<Empty>>
      PROVE  /\ x \in Seq(X) /\ x # <<>> /\ Len(x) \in 1..Len(line)
             /\ \A i \in 1..Len(x) : i < Len(x) => x[i] = line[i]
             /\ x[Len(x)] \in {line[Len(x)], Torn, Empty}
             /\ x[1] \in {line[1], Torn}
    <2> DEFINE a == SubSeq(line, 1, k - 1)
    <2>1. \A i \in 1..(k - 1) : line[i] \in X
        BY <1>1
    <2>2. /\ a \in Seq(X) /\ Len(a) = IF 1 <= k - 1 THEN (k - 1) - 1 + 1 ELSE 0
          /\ \A i \in 1..((k - 1) - 1 + 1) : a[i] = line[1 + i - 1]
        BY <1>2, <2>1, SubSeqProperties
    <2>3. Len(a) = k - 1 /\ \A i \in 1..(k - 1) : a[i] = line[i]
        BY <1>2, <2>2
    <2>4. e \in X
        OBVIOUS
    <2>5. x = Append(a, e)
        BY <1>4
    <2> HIDE DEF a
    <2>6. /\ x \in Seq(X) /\ x # <<>> /\ Len(x) = Len(a) + 1
          /\ \A i \in 1..Len(a) : x[i] = a[i]
          /\ x[Len(a) + 1] = e
        BY <2>2, <2>4, <2>5, AppendProperties
    <2>7. Len(x) = k /\ x[k] = e /\ \A i \in 1..(k - 1) : x[i] = line[i]
        BY <1>2, <2>3, <2>6
    <2>8. x[1] \in {line[1], Torn}
        <3>1. CASE k = 1
            BY <1>4, <2>7, <3>1
        <3>2. CASE k # 1
            <4>1. 1 \in 1..(k - 1)
                BY <1>2, <3>2
            <4>2. QED BY <2>7, <4>1
        <3>3. QED BY <3>1, <3>2
    <2>9. QED BY <1>1, <1>2, <2>6, <2>7, <2>8
<1>5. CASE k > 1 /\ x = Append(SubSeq(line, 1, k - 1), Empty)
    <2>1. ASSUME line = <<Empty>> PROVE FALSE
        <3>1. Len(line) = 1
            BY <2>1
        <3>2. QED BY <1>2, <1>5, <3>1
    <2>2. QED BY <1>4, <1>5, <2>1
<1>6. CASE line[k] \notin Blank \cup {Empty} /\ x = Append(SubSeq(line, 1, k - 1), Torn)
    <2>1. line # <<Empty>>
        BY <1>2, <1>6
    <2>2. QED BY <1>4, <1>6, <2>1
<1>7. QED BY <1>2, <1>3, <1>5, <1>6

LEMMA WholeLine ==
    ASSUME NEW X, NEW line \in Seq(X), line # <<>>
    PROVE  line \in TornLines(line)
<1>1. Len(line) \in 1..Len(line) /\ DOMAIN line = 1..Len(line)
    BY EmptySeq
<1>2. SubSeq(line, 1, Len(line)) = line
    BY SubSeqFull
<1>3. QED BY <1>1, <1>2 DEF TornLines

(* A file of which no more than the end is lost. *)
Cut(lines, whole) ==
    /\ lines \in Seq(Line) /\ Len(lines) <= Len(whole)
    /\ \A k \in 1..Len(lines) :
          /\ lines[k] \in TornLines(whole[k])
          /\ k < Len(lines) => lines[k] = whole[k]

LEMMA WholeIsCut ==
    ASSUME NEW whole \in Seq(Line)
    PROVE  Cut(whole, whole) /\ Cut(<<>>, whole)
<1>1. \A k \in 1..Len(whole) : whole[k] \in TornLines(whole[k])
    <2> SUFFICES ASSUME NEW k \in 1..Len(whole) PROVE whole[k] \in TornLines(whole[k])
        OBVIOUS
    <2>1. whole[k] \in Seq(LineText) /\ whole[k] # <<>>
        BY ElementOfSeq DEF Line
    <2>2. QED BY <2>1, WholeLine
<1>2. Len(whole) \in Nat /\ Len(<<>>) = 0 /\ <<>> \in Seq(Line)
    OBVIOUS
<1>3. QED BY <1>1, <1>2 DEF Cut

LEMMA TornFileIsCut ==
    ASSUME NEW whole \in Seq(Line), NEW lines \in TornFiles(whole)
    PROVE  Cut(lines, whole)
<1> DEFINE Start(n) == SubSeq(whole, 1, n - 1)
<1>1. Len(whole) \in Nat /\ DOMAIN whole = 1..Len(whole)
      /\ \A k \in 1..Len(whole) : whole[k] \in Line /\ whole[k] \in TornLines(whole[k])
    <2>1. Cut(whole, whole)
        BY WholeIsCut
    <2>2. QED BY <2>1 DEF Cut
<1>2. PICK n \in 1..Len(whole) :
        \/ lines = Start(n)
        \/ \E line \in TornLines(whole[n]) : lines = Append(Start(n), line)
    BY <1>1 DEF TornFiles
<1> DEFINE a == Start(n)
<1>3. a \in Seq(Line) /\ Len(a) = n - 1 /\ \A k \in 1..(n - 1) : a[k] = whole[k]
    <2>1. \A i \in 1..(n - 1) : whole[i] \in Line
        BY <1>1
    <2>2. /\ a \in Seq(Line) /\ Len(a) = IF 1 <= n - 1 THEN (n - 1) - 1 + 1 ELSE 0
          /\ \A i \in 1..((n - 1) - 1 + 1) : a[i] = whole[1 + i - 1]
        BY <1>2, <2>1, SubSeqProperties
    <2>3. QED BY <1>2, <2>2
<1>4. CASE lines = a
    <2> HIDE DEF a
    <2>1. Len(lines) = n - 1 /\ \A k \in 1..Len(lines) : k \in 1..Len(whole) /\ lines[k] = whole[k]
        BY <1>1, <1>2, <1>3, <1>4
    <2>2. QED BY <1>1, <1>3, <1>4, <2>1 DEF Cut
<1>5. ASSUME NEW line \in TornLines(whole[n]), lines = Append(a, line)
      PROVE  Cut(lines, whole)
    <2>1. line \in Line
        <3>1. whole[n] \in Seq(LineText) /\ whole[n] # <<>>
            BY <1>1 DEF Line
        <3>2. QED BY <3>1, TextsAre, TornLineIs DEF Line
    <2> HIDE DEF a
    <2>2. /\ lines \in Seq(Line) /\ Len(lines) = n /\ lines[n] = line
          /\ \A k \in 1..(n - 1) : lines[k] = whole[k]
        BY <1>2, <1>3, <1>5, <2>1, AppendProperties
    <2>3. \A k \in 1..n : k = n \/ k \in 1..(n - 1)
        BY <1>2
    <2>4. \A k \in 1..n : k \in 1..Len(whole) /\ (k < n => k \in 1..(n - 1))
        BY <1>1, <1>2
    <2>5. QED BY <1>1, <1>2, <2>2, <2>3, <2>4 DEF Cut
<1>6. QED BY <1>2, <1>4, <1>5

-----------------------------------------------------------------------------
(* Where what is in a file that was written to its end *)

(* Table i has the lines from at[i] to before at[i + 1].                    *)
Layout(W, list, at) ==
    LET n == Len(list)
    IN  /\ W \in Seq(Line) /\ Len(W) >= n + 2 /\ at \in [1..(n + 1) -> Nat]
        /\ at[1] = n + 3 /\ at[n + 1] = Len(W) + 1
        /\ W[1] = <<Header(Definition)>> /\ W[n + 2] = <<Empty>>
        /\ \A i \in 1..n : W[i + 1] = DefinitionLine(list[i])
        /\ \A i \in 1..n : list[i].temporary => at[i + 1] = at[i]
        /\ \A i \in 1..n : ~list[i].temporary =>
              /\ at[i + 1] = at[i] + Len(list[i].rows) + 2
              /\ W[at[i]] = <<Header(list[i].name)>>
              /\ \A k \in 1..Len(list[i].rows) : W[at[i] + k] = RowLine(list[i].rows[k])
              /\ W[at[i] + Len(list[i].rows) + 1] = <<Empty>>
        /\ \A k \in (n + 3)..Len(W) : \E i \in 1..n : k >= at[i] /\ k < at[i + 1]

LEMMA SectionIs ==
    ASSUME NEW t, IsTable(t)
    PROVE  LET s == Section(t)
               n == Len(t.rows)
           IN  /\ s \in Seq(Line) /\ n \in Nat /\ t.temporary \in BOOLEAN
               /\ t.temporary => Len(s) = 0
               /\ ~t.temporary =>
                     /\ Len(s) = n + 2 /\ s[1] = <<Header(t.name)>> /\ s[n + 2] = <<Empty>>
                     /\ \A k \in 1..n : s[k + 1] = RowLine(t.rows[k])
<1>1. /\ t.rows \in Seq(Row) /\ t.name \in SectionNames /\ t.temporary \in BOOLEAN
    BY TableIs DEF TableRecord, SectionNames
<1> DEFINE n == Len(t.rows)
           head == <<<<Header(t.name)>>>>
           body == [k \in DOMAIN t.rows |-> RowLine(t.rows[k])]
           end == <<<<Empty>>>>
           s == Section(t)
<1>2. n \in Nat /\ DOMAIN t.rows = 1..n /\ \A k \in 1..n : t.rows[k] \in Row
    BY <1>1
<1>3. <<Header(t.name)>> \in Line /\ <<Empty>> \in Line
    BY <1>1, TextsAre DEF Line
<1>4. \A k \in 1..n : RowLine(t.rows[k]) \in Line
    BY <1>2, RowLineIs, TextsAre
<1>5. /\ body \in Seq(Line) /\ Len(body) = n
      /\ \A k \in 1..n : body[k] = RowLine(t.rows[k])
    BY <1>2, <1>4
<1>6. /\ head \in Seq(Line) /\ Len(head) = 1 /\ head[1] = <<Header(t.name)>>
      /\ end \in Seq(Line) /\ Len(end) = 1 /\ end[1] = <<Empty>>
    BY <1>3
<1>7. CASE t.temporary
    <2>1. s = <<>>
        BY <1>7 DEF Section
    <2>2. QED BY <1>1, <1>2, <1>7, <2>1
<1>8. CASE ~t.temporary
    <2> DEFINE rest == body \o end
    <2>1. s = (head \o body) \o end
        BY <1>8 DEF Section
    <2> HIDE DEF head, body, end, s, n
    <2>2. s = head \o rest
        BY <1>5, <1>6, <2>1, ConcatAssociative, SMTT(30)
    <2>3. /\ rest \in Seq(Line) /\ Len(rest) = n + 1
          /\ \A k \in 1..(n + 1) : rest[k] = IF k <= n THEN body[k] ELSE end[k - n]
        <3>1. body \in Seq(Line) /\ end \in Seq(Line)
            BY <1>5, <1>6
        <3>2. /\ rest \in Seq(Line) /\ Len(rest) = Len(body) + Len(end)
              /\ \A k \in 1..(Len(body) + Len(end)) :
                    rest[k] = IF k <= Len(body) THEN body[k] ELSE end[k - Len(body)]
            BY ONLY <3>1, ConcatProperties
        <3>3. Len(body) = n /\ Len(end) = 1
            BY <1>5, <1>6
        <3> HIDE DEF rest
        <3>4. QED BY ONLY <3>2, <3>3
    <2> HIDE DEF rest
    <2>4. /\ s \in Seq(Line) /\ Len(s) = n + 2
          /\ \A k \in 1..(n + 2) : s[k] = IF k <= 1 THEN head[k] ELSE rest[k - 1]
        <3>1. /\ s \in Seq(Line) /\ Len(s) = 1 + (n + 1)
              /\ \A k \in 1..(1 + (n + 1)) : s[k] = IF k <= 1 THEN head[k] ELSE rest[k - 1]
            <4>1. head \in Seq(Line) /\ rest \in Seq(Line)
                BY <1>6, <2>3
            <4>2. /\ s \in Seq(Line) /\ Len(s) = Len(head) + Len(rest)
                  /\ \A k \in 1..(Len(head) + Len(rest)) :
                        s[k] = IF k <= Len(head) THEN head[k] ELSE rest[k - Len(head)]
                BY ONLY <2>2, <4>1, ConcatProperties
            <4>3. Len(head) = 1 /\ Len(rest) = n + 1
                BY <1>6, <2>3
            <4>4. QED BY ONLY <4>2, <4>3
        <3>2. 1 + (n + 1) = n + 2
            BY <1>2
        <3>3. QED BY <3>1, <3>2
    <2>5. /\ 1 \in 1..(n + 2) /\ n + 2 \in 1..(n + 2) /\ ~(n + 2 <= 1) /\ (n + 2) - 1 = n + 1
          /\ n + 1 \in 1..(n + 1) /\ ~(n + 1 <= n) /\ (n + 1) - n = 1
        BY <1>2
    <2>6. s[1] = <<Header(t.name)>> /\ s[n + 2] = <<Empty>>
        BY <1>6, <2>3, <2>4, <2>5
    <2>7. ASSUME NEW k \in 1..n PROVE s[k + 1] = RowLine(t.rows[k])
        <3>1. k + 1 \in 1..(n + 2) /\ ~(k + 1 <= 1) /\ (k + 1) - 1 = k /\ k \in 1..(n + 1) /\ k <= n
            BY <1>2
        <3>2. QED BY <1>5, <2>3, <2>4, <3>1
    <2>8. QED BY <1>1, <1>2, <1>8, <2>4, <2>6, <2>7 DEF s, n
<1>9. QED BY <1>1, <1>7, <1>8

LEMMA DumpedIs ==
    ASSUME NEW list, IsList(list)
    PROVE  \E at : Layout(Dumped(list), list, at)
<1> DEFINE n == Len(list)
           W == Dumped(list)
           head == <<<<Header(Definition)>>>>
           defs == [i \in DOMAIN list |-> DefinitionLine(list[i])]
           end == <<<<Empty>>>>
           secs == [i \in DOMAIN list |-> Section(list[i])]
           F == FlattenSeq(secs)
<1>1. n \in Nat /\ DOMAIN list = 1..n /\ \A i \in 1..n : IsTable(list[i])
    BY ElementIs
<1>2. /\ head \in Seq(Line) /\ Len(head) = 1 /\ head[1] = <<Header(Definition)>>
      /\ end \in Seq(Line) /\ Len(end) = 1 /\ end[1] = <<Empty>>
    <2>1. <<Header(Definition)>> \in Line /\ <<Empty>> \in Line
        BY TextsAre DEF Line, SectionNames
    <2>2. QED BY <2>1
<1>3. defs \in Seq(Line) /\ Len(defs) = n /\ \A i \in 1..n : defs[i] = DefinitionLine(list[i])
    <2>1. \A i \in 1..n : DefinitionLine(list[i]) \in Line
        BY <1>1, DefinitionLineIs
    <2>2. QED BY <1>1, <2>1
<1>4. secs \in Seq(Seq(Line)) /\ Len(secs) = n /\ \A i \in 1..n : secs[i] = Section(list[i])
    <2>1. \A i \in 1..n : Section(list[i]) \in Seq(Line)
        BY <1>1, SectionIs
    <2>2. QED BY <1>1, <2>1
<1> HIDE DEF secs
<1>5. PICK h : Joins(h, secs, Line) /\ F = h[n]
    BY <1>4, Joined
<1>6. \A i \in 0..n : h[i] \in Seq(Line) /\ Len(h[i]) \in Nat
    BY <1>4, <1>5 DEF Joins
<1>7. F \in Seq(Line) /\ Len(F) \in Nat
    BY <1>1, <1>5, <1>6
<1>8. W = ((head \o defs) \o end) \o F
    BY DEF Dumped, secs
<1> HIDE DEF head, defs, end, F, W, n
<1>9. /\ W \in Seq(Line) /\ Len(W) = n + 2 + Len(F)
      /\ W[1] = <<Header(Definition)>> /\ W[n + 2] = <<Empty>>
      /\ \A i \in 1..n : W[i + 1] = DefinitionLine(list[i])
      /\ \A k \in 1..Len(F) : W[n + 2 + k] = F[k]
    <2> DEFINE a == head \o defs
               b == a \o end
    <2>1. /\ a \in Seq(Line) /\ Len(a) = 1 + n
          /\ \A k \in 1..(1 + n) : a[k] = IF k <= 1 THEN head[k] ELSE defs[k - 1]
        <3>1. head \in Seq(Line) /\ defs \in Seq(Line)
            BY <1>2, <1>3
        <3>2. /\ a \in Seq(Line) /\ Len(a) = Len(head) + Len(defs)
              /\ \A k \in 1..(Len(head) + Len(defs)) :
                    a[k] = IF k <= Len(head) THEN head[k] ELSE defs[k - Len(head)]
            BY ONLY <3>1, ConcatProperties
        <3>3. Len(head) = 1 /\ Len(defs) = n
            BY <1>2, <1>3
        <3> HIDE DEF a
        <3>4. QED BY ONLY <3>2, <3>3
    <2>2. W = b \o F
        BY <1>8
    <2> HIDE DEF a
    <2>3. /\ b \in Seq(Line) /\ Len(b) = (1 + n) + 1
          /\ \A k \in 1..((1 + n) + 1) : b[k] = IF k <= 1 + n THEN a[k] ELSE end[k - (1 + n)]
        <3>1. a \in Seq(Line) /\ end \in Seq(Line)
            BY <1>2, <2>1
        <3>2. /\ b \in Seq(Line) /\ Len(b) = Len(a) + Len(end)
              /\ \A k \in 1..(Len(a) + Len(end)) :
                    b[k] = IF k <= Len(a) THEN a[k] ELSE end[k - Len(a)]
            BY ONLY <3>1, ConcatProperties
        <3>3. Len(a) = 1 + n /\ Len(end) = 1
            BY <1>2, <2>1
        <3> HIDE DEF b
        <3>4. QED BY ONLY <3>2, <3>3
    <2> HIDE DEF b
    <2>4. /\ W \in Seq(Line) /\ Len(W) = Len(b) + Len(F)
          /\ \A k \in 1..(Len(b) + Len(F)) : W[k] = IF k <= Len(b) THEN b[k] ELSE F[k - Len(b)]
        BY <1>7, <2>2, <2>3, ConcatProperties
    <2>5. Len(b) = n + 2 /\ Len(W) = n + 2 + Len(F)
        BY <1>1, <1>7, <2>3, <2>4
    <2>6. \A k \in 1..(n + 2) : W[k] = b[k]
        BY <1>1, <1>7, <2>4, <2>5
    <2>7. /\ 1 \in 1..(n + 2) /\ 1 \in 1..(1 + n) /\ 1 \in 1..((1 + n) + 1) /\ 1 <= 1 + n
          /\ n + 2 \in 1..(n + 2) /\ n + 2 \in 1..((1 + n) + 1)
          /\ ~(n + 2 <= 1 + n) /\ (n + 2) - (1 + n) = 1
        BY <1>1
    <2>8. W[1] = <<Header(Definition)>>
        BY <1>2, <2>1, <2>3, <2>6, <2>7
    <2>9. W[n + 2] = <<Empty>>
        BY <1>2, <2>3, <2>6, <2>7
    <2>10. ASSUME NEW i \in 1..n PROVE W[i + 1] = DefinitionLine(list[i])
        <3>1. /\ i + 1 \in 1..(n + 2) /\ i + 1 \in 1..((1 + n) + 1) /\ i + 1 <= 1 + n
              /\ i + 1 \in 1..(1 + n) /\ ~(i + 1 <= 1) /\ (i + 1) - 1 = i
            BY <1>1
        <3>2. QED BY <1>3, <2>1, <2>3, <2>6, <3>1
    <2>11. ASSUME NEW k \in 1..Len(F) PROVE W[n + 2 + k] = F[k]
        <3>1. /\ n + 2 + k \in 1..(Len(b) + Len(F)) /\ ~(n + 2 + k <= Len(b))
              /\ (n + 2 + k) - Len(b) = k
            BY <1>1, <1>7, <2>5
        <3>2. QED BY <2>4, <3>1
    <2>12. QED BY <2>4, <2>5, <2>8, <2>9, <2>10, <2>11
<1> DEFINE len == [i \in 0..n |-> Len(h[i])]
           at == [i \in 1..(n + 1) |-> n + 3 + len[i - 1]]
<1>10. n \in Nat /\ \A i \in 1..(n + 1) : i - 1 \in 0..n
    BY <1>1
<1>20. len \in [0..n -> Nat] /\ \A i \in 0..n : len[i] = Len(h[i])
    BY <1>6
<1> HIDE DEF len
<1>11. at \in [1..(n + 1) -> Nat] /\ \A i \in 1..(n + 1) : at[i] = n + 3 + len[i - 1]
    BY <1>10, <1>20
<1> HIDE DEF at
<1>12. at[1] = n + 3
    <2>1. 1 \in 1..(n + 1) /\ 1 - 1 = 0 /\ 0 \in 0..n
        BY <1>10
    <2>2. h[0] = <<>>
        BY <1>5 DEF Joins, JoinedUpto
    <2>3. len[0] = 0
        BY <1>20, <2>1, <2>2
    <2>4. QED BY <1>10, <1>11, <2>1, <2>3
<1>13. at[n + 1] = Len(W) + 1
    <2>1. n + 1 \in 1..(n + 1) /\ (n + 1) - 1 = n /\ n \in 0..n
        BY <1>10
    <2>2. len[n] = Len(F)
        BY <1>5, <1>20, <2>1
    <2>3. Len(W) = n + 2 + Len(F)
        BY <1>9
    <2>4. at[n + 1] = n + 3 + Len(F)
        BY <1>11, <2>1, <2>2
    <2>5. QED BY <1>7, <1>10, <2>3, <2>4
<1>14. ASSUME NEW i \in 1..n
       PROVE  /\ at[i] = n + 3 + len[i - 1] /\ at[i + 1] = at[i] + Len(secs[i])
              /\ len[i - 1] \in Nat /\ Len(secs[i]) \in Nat /\ at[i] \in Nat
              /\ \A m \in 1..Len(secs[i]) : W[at[i] + m - 1] = secs[i][m]
    <2>1. /\ i \in 1..(n + 1) /\ i + 1 \in 1..(n + 1) /\ (i + 1) - 1 = i
          /\ i - 1 \in 0..n /\ i \in 0..n /\ i \in 1..n /\ n \in i..n /\ i \in i..n
        BY <1>10
    <2>2. len[i - 1] \in Nat /\ len[i] \in Nat /\ len[i - 1] = Len(h[i - 1]) /\ len[i] = Len(h[i])
        BY <1>20, <2>1
    <2>3. Len(secs[i]) \in Nat
        <3>1. secs[i] \in Seq(Line)
            BY <1>4
        <3>2. QED BY <3>1
    <2>4. Joins(h, secs, Line) /\ i \in 1..Len(secs) /\ n \in i..Len(secs)
        BY <1>4, <1>5, <2>1
    <2>5. /\ Len(h[i]) = Len(h[i - 1]) + Len(secs[i])
          /\ \A m \in 1..Len(secs[i]) : /\ Len(h[i - 1]) + m \in 1..Len(h[n])
                                        /\ h[n][Len(h[i - 1]) + m] = secs[i][m]
        <3>1. LiesAt(h, secs, i, n)
            BY <2>4, JoinedAt
        <3>2. QED BY <3>1 DEF LiesAt
    <2>6. at[i] = n + 3 + len[i - 1] /\ at[i + 1] = n + 3 + len[i]
        BY <1>11, <2>1
    <2> DEFINE x == Len(secs[i])
               y == len[i - 1]
    <2>7. x \in Nat /\ y \in Nat /\ at[i] = n + 3 + y /\ at[i + 1] = n + 3 + (y + x)
        BY <2>2, <2>3, <2>5, <2>6
    <2> HIDE DEF x, y
    <2>8. at[i + 1] = at[i] + x /\ at[i] \in Nat
        BY ONLY <2>7, <1>10
    <2>9. ASSUME NEW m \in 1..x PROVE W[at[i] + m - 1] = secs[i][m]
        <3> DEFINE k == y + m
        <3>1. k \in 1..Len(F) /\ F[k] = secs[i][m]
            BY <1>5, <2>2, <2>5 DEF x, y
        <3>2. at[i] + m - 1 = n + 2 + k
            BY ONLY <1>10, <2>7
        <3> HIDE DEF k
        <3>3. QED BY <1>9, <3>1, <3>2
    <2>10. QED BY <2>2, <2>3, <2>6, <2>8, <2>9 DEF x
<1>15. ASSUME NEW i \in 1..n, list[i].temporary PROVE at[i + 1] = at[i]
    <2>1. Len(secs[i]) = 0
        BY <1>1, <1>4, <1>15, SectionIs
    <2>2. at[i + 1] = at[i] + Len(secs[i]) /\ at[i] \in Nat
        BY <1>14
    <2>3. QED BY <2>1, <2>2
<1>16. ASSUME NEW i \in 1..n, ~list[i].temporary
       PROVE  /\ at[i + 1] = at[i] + Len(list[i].rows) + 2
              /\ W[at[i]] = <<Header(list[i].name)>>
              /\ \A k \in 1..Len(list[i].rows) : W[at[i] + k] = RowLine(list[i].rows[k])
              /\ W[at[i] + Len(list[i].rows) + 1] = <<Empty>>
    <2> DEFINE r == Len(list[i].rows)
               s == secs[i]
    <2>1. /\ r \in Nat /\ Len(s) = r + 2 /\ s[1] = <<Header(list[i].name)>> /\ s[r + 2] = <<Empty>>
          /\ \A k \in 1..r : s[k + 1] = RowLine(list[i].rows[k])
        BY <1>1, <1>4, <1>16, SectionIs
    <2>2. at[i] \in Nat /\ Len(s) = r + 2 /\ r \in Nat
        BY <1>14, <2>1
    <2>3. at[i + 1] = at[i] + Len(s) /\ \A m \in 1..Len(s) : W[at[i] + m - 1] = s[m]
        BY <1>14
    <2> HIDE DEF r, s
    <2>4. at[i + 1] = at[i] + r + 2
        <3>1. at[i + 1] = at[i] + Len(s)
            BY <2>3
        <3>2. QED BY ONLY <2>2, <3>1
    <2>5. 1 \in 1..Len(s) /\ r + 2 \in 1..Len(s) /\ \A k \in 1..r : k + 1 \in 1..Len(s)
        BY <2>1
    <2>6. /\ at[i] + 1 - 1 = at[i] /\ at[i] + (r + 2) - 1 = at[i] + r + 1
          /\ \A k \in 1..r : at[i] + (k + 1) - 1 = at[i] + k
        BY <2>1, <2>2
    <2>7. W[at[i]] = s[1] /\ W[at[i] + r + 1] = s[r + 2]
        <3>1. W[at[i] + 1 - 1] = s[1] /\ W[at[i] + (r + 2) - 1] = s[r + 2]
            BY <2>3, <2>5
        <3>2. QED BY <2>6, <3>1
    <2>8. ASSUME NEW k \in 1..r PROVE W[at[i] + k] = s[k + 1]
        <3>1. W[at[i] + (k + 1) - 1] = s[k + 1]
            BY <2>3, <2>5
        <3>2. QED BY <2>6, <3>1
    <2>9. QED BY <2>1, <2>4, <2>7, <2>8 DEF r
<1>17. ASSUME NEW k \in (n + 3)..Len(W) PROVE \E i \in 1..n : k >= at[i] /\ k < at[i + 1]
    <2> DEFINE f == k - (n + 2)
    <2>1. f \in 1..Len(F) /\ k = f + (n + 2) /\ f \in Nat
        <3>1. Len(W) = n + 2 + Len(F)
            BY <1>9
        <3>2. QED BY <1>7, <1>10, <3>1
    <2> HIDE DEF f
    <2>2. Joins(h, secs, Line) /\ n \in 0..Len(secs) /\ f \in 1..Len(h[n])
        BY <1>4, <1>5, <1>10, <2>1
    <2>3. \E j \in 1..n : \E m \in 1..Len(secs[j]) : f = Len(h[j - 1]) + m
        <3>1. LiesIn(h, secs, n, f)
            BY <2>2, JoinedFrom
        <3>2. QED BY <3>1 DEF LiesIn
    <2>4. PICK j \in 1..n : \E m \in 1..Len(secs[j]) : f = Len(h[j - 1]) + m
        BY <2>3
    <2>5. PICK m \in 1..Len(secs[j]) : f = Len(h[j - 1]) + m
        BY <2>4
    <2> DEFINE x == Len(secs[j])
               y == len[j - 1]
    <2>6. at[j] = n + 3 + y /\ at[j + 1] = at[j] + x /\ x \in Nat /\ y \in Nat
        BY <1>14
    <2>7. f = y + m /\ m \in 1..x
        <3>1. j - 1 \in 0..n
            BY <1>10
        <3>2. QED BY <1>20, <2>5, <3>1
    <2> HIDE DEF x, y
    <2>8. k >= at[j] /\ k < at[j + 1]
        BY ONLY <1>10, <2>1, <2>6, <2>7
    <2>9. QED BY <2>8
<1>18. Len(W) >= n + 2
    BY <1>1, <1>7, <1>9
<1>19. Layout(W, list, at)
    BY <1>9, <1>11, <1>12, <1>13, <1>15, <1>16, <1>17, <1>18 DEF Layout, n
<1>21. QED BY <1>19 DEF W

LEMMA Ascends ==
    ASSUME NEW list, IsList(list), NEW W, NEW at, Layout(W, list, at)
    PROVE  /\ \A i, j \in 1..(Len(list) + 1) : i <= j => at[i] <= at[j]
           /\ \A i \in 1..(Len(list) + 1) : W[at[i] - 1] = <<Empty>>
<1> DEFINE n == Len(list)
           rows(i) == Len(list[i].rows)
<1>1. n \in Nat /\ \A i \in 1..n : list[i].temporary \in BOOLEAN /\ rows(i) \in Nat
    BY ElementIs, SectionIs
<1>2. /\ at \in [1..(n + 1) -> Nat] /\ at[1] = n + 3 /\ W[n + 2] = <<Empty>>
      /\ \A i \in 1..n : list[i].temporary => at[i + 1] = at[i]
      /\ \A i \in 1..n : ~list[i].temporary =>
            at[i + 1] = at[i] + rows(i) + 2 /\ W[at[i] + rows(i) + 1] = <<Empty>>
    BY DEF Layout
<1> HIDE DEF n, rows
<1>3. ASSUME NEW i \in 1..n
      PROVE  /\ i \in 1..(n + 1) /\ i + 1 \in 1..(n + 1) /\ at[i] \in Nat /\ at[i + 1] \in Nat
             /\ at[i] <= at[i + 1]
             /\ W[at[i] - 1] = <<Empty>> => W[at[i + 1] - 1] = <<Empty>>
    <2>1. i \in 1..(n + 1) /\ i + 1 \in 1..(n + 1)
        BY <1>1
    <2>2. at[i] \in Nat /\ at[i + 1] \in Nat
        BY <1>2, <2>1
    <2>3. CASE list[i].temporary
        BY <1>2, <2>1, <2>2, <2>3
    <2>4. CASE ~list[i].temporary
        <3> DEFINE a == at[i]
                   b == at[i + 1]
                   r == rows(i)
        <3>1. a \in Nat /\ b \in Nat /\ r \in Nat /\ b = a + r + 2 /\ W[a + r + 1] = <<Empty>>
            BY <1>1, <1>2, <2>2, <2>4
        <3> HIDE DEF a, b, r
        <3>2. a <= b /\ b - 1 = a + r + 1
            BY <3>1
        <3>3. QED BY <2>1, <2>2, <3>1, <3>2 DEF a, b
    <2>5. QED BY <1>1, <2>3, <2>4
<1> DEFINE P(d) == \A i \in 1..(n + 1) : i + d \in 1..(n + 1) => at[i] <= at[i + d]
           E(d) == d + 1 \in 1..(n + 1) => W[at[d + 1] - 1] = <<Empty>>
           S == {d \in Nat : P(d) /\ E(d)}
<1>4. P(0) /\ E(0)
    <2>1. \A i \in 1..(n + 1) : i + 0 = i /\ at[i] \in Nat
        BY <1>1, <1>2
    <2>2. (n + 3) - 1 = n + 2 /\ 0 + 1 = 1
        BY <1>1
    <2>3. QED BY <1>2, <2>1, <2>2
<1>5. ASSUME NEW d \in Nat, P(d), E(d) PROVE P(d + 1) /\ E(d + 1)
    <2>1. ASSUME NEW i \in 1..(n + 1), i + (d + 1) \in 1..(n + 1) PROVE at[i] <= at[i + (d + 1)]
        <3> DEFINE j == i + d
        <3>1. j \in 1..n /\ j \in 1..(n + 1) /\ i + (d + 1) = j + 1
            BY <1>1, <2>1
        <3>2. at[i] <= at[j]
            BY <1>5, <3>1
        <3> HIDE DEF j
        <3>3. at[j] <= at[j + 1] /\ at[j] \in Nat /\ at[j + 1] \in Nat /\ at[i] \in Nat
            BY <1>2, <1>3, <3>1
        <3>4. QED BY <3>1, <3>2, <3>3
    <2>2. ASSUME (d + 1) + 1 \in 1..(n + 1) PROVE W[at[(d + 1) + 1] - 1] = <<Empty>>
        <3>1. d + 1 \in 1..n /\ d + 1 \in 1..(n + 1)
            BY <1>1, <2>2
        <3>2. QED BY <1>3, <1>5, <3>1
    <2>3. QED BY <2>1, <2>2
<1>6. Nat \subseteq S
    <2> HIDE DEF P, E
    <2>1. 0 \in S /\ \A d \in Nat : d \in S => d + 1 \in S
        BY <1>4, <1>5
    <2>2. QED BY <2>1, Induction
<1>7. \A d \in Nat : P(d) /\ E(d)
    BY <1>6
<1> HIDE DEF S
<1>8. ASSUME NEW i \in 1..(n + 1), NEW j \in 1..(n + 1), i <= j PROVE at[i] <= at[j]
    <2>1. j - i \in Nat /\ i + (j - i) = j
        BY <1>1, <1>8
    <2>2. P(j - i)
        <3> HIDE DEF P, E
        <3>1. QED BY <1>7, <2>1
    <2>3. QED BY <2>1, <2>2
<1>9. ASSUME NEW i \in 1..(n + 1) PROVE W[at[i] - 1] = <<Empty>>
    <2>1. i - 1 \in Nat /\ (i - 1) + 1 = i
        BY <1>1
    <2>2. E(i - 1)
        <3> HIDE DEF P, E
        <3>1. QED BY <1>7, <2>1
    <2>3. QED BY <2>1, <2>2
<1>10. QED BY <1>8, <1>9 DEF n

(* A line behind the definitions is the header of a table, or one of its    *)
(* rows, or empty.                                                           *)
PartOf(W, list, at, i, k) ==
    /\ ~list[i].temporary /\ at[i] <= k
    /\ \/ k = at[i] /\ W[k] = <<Header(list[i].name)>>
       \/ \E m \in 1..Len(list[i].rows) : k = at[i] + m /\ W[k] = RowLine(list[i].rows[m])
       \/ W[k] = <<Empty>>

LEMMA PartOfTable ==
    ASSUME NEW list, IsList(list), NEW W, NEW at, Layout(W, list, at),
           NEW k \in (Len(list) + 3)..Len(W)
    PROVE  \E i \in 1..Len(list) : PartOf(W, list, at, i, k)
<1> DEFINE n == Len(list)
           rows(i) == Len(list[i].rows)
<1>1. n \in Nat /\ \A i \in 1..n : list[i].temporary \in BOOLEAN /\ rows(i) \in Nat
    BY ElementIs, SectionIs
<1>2. PICK i \in 1..n : k >= at[i] /\ k < at[i + 1]
    BY DEF Layout
<1>3. at \in [1..(n + 1) -> Nat] /\ Len(W) \in Nat
    BY DEF Layout
<1>4. at[i] \in Nat /\ at[i + 1] \in Nat /\ k \in Nat
    <2> HIDE DEF n, rows
    <2>1. i \in 1..(n + 1) /\ i + 1 \in 1..(n + 1)
        BY <1>1
    <2>2. k \in Nat
        BY <1>1, <1>3 DEF n
    <2>3. QED BY <1>3, <2>1, <2>2
<1>5. ~list[i].temporary
    <2>1. list[i].temporary => at[i + 1] = at[i]
        BY DEF Layout
    <2>2. QED BY <1>1, <1>2, <1>4, <2>1
<1>6. /\ at[i + 1] = at[i] + rows(i) + 2
      /\ W[at[i]] = <<Header(list[i].name)>>
      /\ \A m \in 1..rows(i) : W[at[i] + m] = RowLine(list[i].rows[m])
      /\ W[at[i] + rows(i) + 1] = <<Empty>>
    BY <1>5 DEF Layout
<1> DEFINE a == at[i]
           r == rows(i)
           m == k - a
<1>7. a \in Nat /\ r \in Nat /\ k = a + m /\ m \in 0..(r + 1)
    <2>1. a \in Nat /\ r \in Nat /\ k \in Nat /\ k >= a /\ k < at[i + 1] /\ at[i + 1] = a + r + 2
        BY <1>1, <1>2, <1>4, <1>6
    <2> HIDE DEF a, r
    <2>2. QED BY <2>1
<1>8. CASE m = 0
    <2>1. k = a
        BY <1>7, <1>8
    <2>2. QED BY <1>2, <1>5, <1>6, <2>1 DEF PartOf
<1>9. CASE m \in 1..r
    BY <1>2, <1>5, <1>6, <1>7, <1>9 DEF PartOf
<1>10. CASE m = r + 1
    <2>1. k = a + r + 1
        BY <1>7, <1>10, SMTT(30)
    <2>2. QED BY <1>2, <1>5, <1>6, <2>1 DEF PartOf
<1> HIDE DEF m
<1>11. m = 0 \/ m \in 1..r \/ m = r + 1
    BY <1>7
<1>12. QED BY <1>8, <1>9, <1>10, <1>11

-----------------------------------------------------------------------------
(* Reading a section *)

(* The section that begins at line first goes to line m. *)
ReadAt(lines, name, first, m) ==
    /\ first \in 1..Len(lines) /\ lines[first][1] = Header(name)
    /\ \A k \in 1..Len(lines) : lines[k][1] = Header(name) => first <= k
    /\ m \in first..Len(lines)
    /\ \A k \in 1..Len(lines) : first < k /\ k <= m => ~Stops(lines[k])
    /\ m = Len(lines) \/ Stops(lines[m + 1])

Absent(lines, name) == \A k \in 1..Len(lines) : lines[k][1] # Header(name)

LEMMA AbsentIs ==
    ASSUME NEW lines \in Seq(Line), NEW name, Absent(lines, name)
    PROVE  ReadSection(lines, name) = <<>>
<1>1. DOMAIN lines = 1..Len(lines)
    OBVIOUS
<1>2. Found(lines, name) = {}
    BY <1>1 DEF Absent, Found
<1>3. QED BY <1>2 DEF ReadSection

LEMMA ReadIs ==
    ASSUME NEW lines \in Seq(Line), NEW name, ~Absent(lines, name)
    PROVE  \E first, m : /\ ReadAt(lines, name, first, m)
                         /\ ReadSection(lines, name) = SubSeq(lines, first + 1, m)
<1> DEFINE F == Found(lines, name)
           first == Min(F)
           T == {k \in (first + 1)..Len(lines) : Stops(lines[k])} \cup {Len(lines) + 1}
           m == Min(T) - 1
<1>1. Len(lines) \in Nat /\ DOMAIN lines = 1..Len(lines)
    OBVIOUS
<1>2. F \in SUBSET Nat /\ F # {} /\ \A k : k \in F <=> k \in 1..Len(lines) /\ lines[k][1] = Header(name)
    BY <1>1 DEF Found, Absent
<1>3. ReadSection(lines, name) = SubSeq(lines, first + 1, m)
    BY <1>2 DEF ReadSection
<1> HIDE DEF F
<1>4. first \in F /\ \A k \in F : first <= k
    BY <1>2, LeastElement
<1>5. first \in 1..Len(lines)
    BY <1>2, <1>4
<1> HIDE DEF first
<1>6. T \in SUBSET Nat /\ T # {}
    BY <1>1, <1>5
<1> DEFINE l == Min(T)
<1>7. l \in T /\ \A k \in T : l <= k
    <2> HIDE DEF T
    <2>1. QED BY <1>6, LeastElement
<1> HIDE DEF l
<1>8. m = l - 1
    BY DEF l
<1> HIDE DEF m
<1>9. l \in (first + 1)..(Len(lines) + 1) /\ (l = Len(lines) + 1 \/ Stops(lines[l]))
    BY <1>1, <1>5, <1>7
<1>10. m \in first..Len(lines) /\ m + 1 = l
    BY <1>1, <1>5, <1>8, <1>9
<1>11. m = Len(lines) \/ Stops(lines[m + 1])
    <2>1. CASE l = Len(lines) + 1
        BY <1>1, <1>8, <2>1
    <2>2. CASE Stops(lines[l])
        BY <1>10, <2>2
    <2>3. QED BY <1>9, <2>1, <2>2
<1>12. ASSUME NEW k \in 1..Len(lines), first < k, k <= m PROVE ~Stops(lines[k])
    <2>1. k \in (first + 1)..Len(lines) /\ ~(l <= k)
        BY <1>1, <1>5, <1>10, <1>12
    <2>2. QED BY <1>7, <2>1
<1>13. ReadAt(lines, name, first, m)
    BY <1>2, <1>4, <1>5, <1>10, <1>11, <1>12 DEF ReadAt
<1>14. QED BY <1>3, <1>13

LEMMA ReadOnce ==
    ASSUME NEW lines \in Seq(Line), NEW name, NEW first, NEW m, ReadAt(lines, name, first, m)
    PROVE  ReadSection(lines, name) = SubSeq(lines, first + 1, m)
<1>1. ~Absent(lines, name)
    BY DEF ReadAt, Absent
<1>2. PICK f, e : /\ ReadAt(lines, name, f, e)
                  /\ ReadSection(lines, name) = SubSeq(lines, f + 1, e)
    BY <1>1, ReadIs
<1> DEFINE len == Len(lines)
<1>3. len \in Nat
    OBVIOUS
<1>4. f = first
    BY <1>2, <1>3 DEF ReadAt
<1>5. /\ first \in 1..len /\ m \in first..len /\ e \in first..len
      /\ \A k \in 1..len : first < k /\ k <= m => ~Stops(lines[k])
      /\ \A k \in 1..len : first < k /\ k <= e => ~Stops(lines[k])
      /\ m = len \/ Stops(lines[m + 1])
      /\ e = len \/ Stops(lines[e + 1])
    BY <1>2, <1>4 DEF ReadAt
<1> HIDE DEF len
<1>6. ~(m < e)
    <2> SUFFICES ASSUME m < e PROVE FALSE
        OBVIOUS
    <2>1. m # len /\ m + 1 \in 1..len /\ first < m + 1 /\ m + 1 <= e
        BY <1>3, <1>5
    <2>2. QED BY <1>5, <2>1
<1>7. ~(e < m)
    <2> SUFFICES ASSUME e < m PROVE FALSE
        OBVIOUS
    <2>1. e # len /\ e + 1 \in 1..len /\ first < e + 1 /\ e + 1 <= m
        BY <1>3, <1>5
    <2>2. QED BY <1>5, <2>1
<1>8. m = e
    BY <1>3, <1>5, <1>6, <1>7
<1>9. QED BY <1>2, <1>4, <1>8

-----------------------------------------------------------------------------
(* What is read from the file of a gateway that may have died over it       *)

LEMMA CutLine ==
    ASSUME NEW W \in Seq(Line), NEW lines, Cut(lines, W), NEW k \in 1..Len(lines)
    PROVE  /\ k \in 1..Len(W) /\ lines[k] \in Line /\ W[k] \in Line
           /\ lines[k][1] \in {W[k][1], Torn}
           /\ W[k] = <<Empty>> => lines[k] = <<Empty>>
           /\ k < Len(lines) => lines[k] = W[k]
           /\ W[k] \in Row => lines[k] \in Row
           /\ lines[k] \in TornLines(W[k])
<1>1. /\ lines \in Seq(Line) /\ Len(lines) <= Len(W)
      /\ lines[k] \in TornLines(W[k]) /\ (k < Len(lines) => lines[k] = W[k])
    BY DEF Cut
<1>2. k \in 1..Len(W) /\ lines[k] \in Line /\ W[k] \in Line
    BY <1>1
<1> DEFINE line == W[k]
           x == lines[k]
<1>3. line \in Seq(LineText) /\ line # <<>> /\ x \in TornLines(line)
    BY <1>1, <1>2 DEF Line
<1> HIDE DEF line, x
<1>4. x[1] \in {line[1], Torn} /\ (line = <<Empty>> => x = <<Empty>>)
    BY <1>3, TextsAre, TornLineIs
<1>5. ASSUME line \in Row PROVE x \in Row
    <2>1. line \in Seq(Texts) /\ Empty \in Texts /\ Torn \in Texts
        BY <1>5, TextsAre DEF Row
    <2>2. x \in Seq(Texts) /\ x # <<>>
        BY <1>3, <2>1, TornLineIs
    <2>3. QED BY <2>2 DEF Row
<1>6. QED BY <1>1, <1>2, <1>4, <1>5 DEF line, x

LEMMA NamesAre ==
    /\ \A n \in SectionNames : Header(n) \notin TableNames /\ Header(n) # Empty /\ Header(n) # Torn
    /\ \A m, n \in SectionNames : Header(m) = Header(n) => m = n
    /\ TableNames \subseteq SectionNames /\ Definition \in SectionNames /\ Definition \notin TableNames
    /\ \A n \in TableNames : n # Empty /\ n \notin Blank
    /\ Torn \in TableNames
BY NamesAssumption DEF TableNames, SectionNames

(* The header of the definitions, the definitions and the empty line.       *)
LEMMA EarlyLine ==
    ASSUME NEW list, IsList(list), NEW W, NEW at, Layout(W, list, at),
           NEW lines, Cut(lines, W), NEW k \in 1..Len(lines), k <= Len(list) + 2
    PROVE  /\ \A name \in SectionNames : lines[k][1] = Header(name) => k = 1 /\ name = Definition
           /\ k \in 2..(Len(list) + 1) => ~Stops(lines[k])
           /\ k = Len(list) + 2 => Stops(lines[k])
<1> DEFINE n == Len(list)
<1>1. n \in Nat /\ \A i \in 1..n : IsTable(list[i]) /\ list[i].name \in TableNames
    BY ElementIs
<1>2. /\ W \in Seq(Line) /\ W[1] = <<Header(Definition)>> /\ W[n + 2] = <<Empty>>
      /\ \A i \in 1..n : W[i + 1] = DefinitionLine(list[i])
    BY DEF Layout
<1> HIDE DEF n
<1>3. lines[k][1] \in {W[k][1], Torn} /\ (W[k] = <<Empty>> => lines[k] = <<Empty>>) /\ k \in Nat
    BY <1>2, CutLine
<1>4. CASE k = 1
    <2>1. W[k][1] = Header(Definition)
        BY <1>2, <1>4
    <2>2. lines[k][1] = Header(Definition) \/ lines[k][1] = Torn
        BY <1>3, <2>1
    <2>3. \A name \in SectionNames : lines[k][1] = Header(name) => name = Definition
        BY <2>2, NamesAre
    <2>4. ~(k \in 2..(n + 1)) /\ k # n + 2
        BY <1>1, <1>4
    <2>5. QED BY <1>4, <2>3, <2>4 DEF n
<1>5. CASE k \in 2..(n + 1)
    <2>1. k - 1 \in 1..n /\ (k - 1) + 1 = k
        BY <1>1, <1>5
    <2>2. W[k] = DefinitionLine(list[k - 1]) /\ list[k - 1].name \in TableNames /\ IsTable(list[k - 1])
        BY <1>1, <1>2, <2>1
    <2>3. W[k][1] = list[k - 1].name
        BY <2>2, DefinitionLineIs
    <2>4. lines[k][1] \in TableNames
        BY <1>3, <2>2, <2>3, NamesAre
    <2>5. ~Stops(lines[k])
        <3>1. lines[k][1] # Empty /\ lines[k][1] \notin Blank
            BY <2>4, NamesAre
        <3>2. lines[k] = <<Empty>> => lines[k][1] = Empty
            OBVIOUS
        <3>3. QED BY <3>1, <3>2 DEF Stops
    <2>6. \A name \in SectionNames : lines[k][1] # Header(name)
        BY <2>4, NamesAre
    <2>7. k # n + 2
        BY <1>1, <1>5
    <2>8. QED BY <2>5, <2>6, <2>7 DEF n
<1>6. CASE k = n + 2
    <2>1. lines[k] = <<Empty>>
        BY <1>2, <1>3, <1>6
    <2>2. lines[k][1] = Empty /\ Stops(lines[k])
        BY <2>1 DEF Stops
    <2>3. ~(k \in 2..(n + 1))
        BY <1>1, <1>6
    <2>4. QED BY <2>2, <2>3, NamesAre DEF n
<1>7. k = 1 \/ k \in 2..(n + 1) \/ k = n + 2
    BY <1>1 DEF n
<1>8. QED BY <1>4, <1>5, <1>6, <1>7

LEMMA TornDefinition ==
    ASSUME NEW t, IsTable(t), NEW x \in TornLines(DefinitionLine(t))
    PROVE  IsDefinition(x)
<1> DEFINE d == DefinitionLine(t)
<1>1. /\ d \in Seq(LineText) /\ d # <<>> /\ d[1] = t.name /\ Len(d) \in Nat
      /\ \A k \in 2..Len(d) : d[k] \in Texts \cup {Number(k - 1)}
    BY DefinitionLineIs DEF Line
<1>2. t.name \in TableNames
    BY TableIs DEF TableRecord
<1>3. x \in TornLines(d)
    OBVIOUS
<1> HIDE DEF d
<1>4. /\ x \in Seq(LineText) /\ x # <<>> /\ Len(x) \in 1..Len(d)
      /\ \A k \in 1..Len(x) : k < Len(x) => x[k] = d[k]
      /\ x[Len(x)] \in {d[Len(x)], Torn, Empty}
      /\ x[1] \in {d[1], Torn}
    BY <1>1, <1>3, TextsAre, TornLineIs
<1>5. x[1] \in TableNames
    BY <1>1, <1>2, <1>4, NamesAre
<1>6. ASSUME NEW k \in 2..Len(x) PROVE x[k] \in Texts \cup {Number(k - 1)}
    <2>1. k \in 2..Len(d) /\ k \in 1..Len(x) /\ (k < Len(x) \/ k = Len(x))
        BY <1>1, <1>4
    <2>2. x[k] \in {d[k], Torn, Empty}
        BY <1>4, <2>1
    <2>3. QED BY <1>1, <2>1, <2>2, TextsAre
<1>7. x \in Seq(Range(x))
    BY <1>4, SeqOfRange
<1>8. QED BY <1>4, <1>5, <1>6, <1>7 DEF IsDefinition

(* The definitions that are left; all of them where rows may follow.        *)
DefinitionsOf(D, list) ==
    /\ D \in Seq(Line) /\ Len(D) = Len(list)
    /\ \A k \in 1..Len(D) : D[k] = DefinitionLine(list[k])

LEMMA DefinitionsRead ==
    ASSUME NEW list, IsList(list), NEW W, NEW at, Layout(W, list, at), NEW lines, Cut(lines, W)
    PROVE  LET D == ReadSection(lines, Definition)
           IN  /\ D \in Seq(Line) /\ \A k \in 1..Len(D) : IsDefinition(D[k])
               /\ Len(lines) >= Len(list) + 2 => DefinitionsOf(D, list)
<1> DEFINE n == Len(list)
           len == Len(lines)
           D == ReadSection(lines, Definition)
           e == IF len >= n + 2 THEN n + 1 ELSE len
<1>1. n \in Nat /\ \A i \in 1..n : IsTable(list[i])
    BY ElementIs
<1>2. /\ W \in Seq(Line) /\ W[1] = <<Header(Definition)>>
      /\ \A i \in 1..n : W[i + 1] = DefinitionLine(list[i])
    BY DEF Layout
<1>3. lines \in Seq(Line) /\ len \in Nat
    BY DEF Cut
<1>4. \A k \in 1..len : k <= n + 2 =>
         /\ \A name \in SectionNames : lines[k][1] = Header(name) => k = 1 /\ name = Definition
         /\ k \in 2..(n + 1) => ~Stops(lines[k])
         /\ k = n + 2 => Stops(lines[k])
    BY EarlyLine
<1>5. \A k \in 1..len : lines[k] \in Line /\ lines[k] \in TornLines(W[k]) /\ (k < len => lines[k] = W[k])
    BY <1>2, CutLine
<1> HIDE DEF n, len, D
<1>6. CASE len >= 1 /\ lines[1][1] = Header(Definition)
    <2>1. ReadAt(lines, Definition, 1, e)
        <3>1. 1 \in 1..len /\ e \in 1..len
            BY <1>1, <1>3, <1>6
        <3>2. \A k \in 1..len : 1 <= k
            BY <1>3
        <3>3. ASSUME NEW k \in 1..len, 1 < k, k <= e PROVE ~Stops(lines[k])
            <4>1. k \in 2..(n + 1) /\ k <= n + 2
                BY <1>1, <1>3, <3>3
            <4>2. QED BY <1>4, <4>1
        <3>4. e = len \/ Stops(lines[e + 1])
            <4>1. CASE len >= n + 2
                <5>1. e + 1 \in 1..len /\ e + 1 = n + 2 /\ e + 1 <= n + 2
                    BY <1>1, <1>3, <4>1
                <5>2. QED BY <1>4, <5>1
            <4>2. QED BY <4>1
        <3> HIDE DEF e
        <3>5. QED BY <1>6, <3>1, <3>2, <3>3, <3>4 DEF ReadAt, len
    <2>2. D = SubSeq(lines, 2, e)
        <3>1. D = SubSeq(lines, 1 + 1, e)
            BY <1>3, <2>1, ReadOnce DEF D
        <3>2. 1 + 1 = 2
            OBVIOUS
        <3>3. QED BY <3>1, <3>2
    <2>3. e \in 1..len /\ e <= n + 1 /\ (len >= n + 2 => e = n + 1 /\ e < len)
        BY <1>1, <1>3, <1>6
    <2> HIDE DEF e
    <2>4. /\ D \in Seq(Line) /\ Len(D) = e - 1
          /\ \A k \in 1..(e - 1) : D[k] = lines[k + 1]
        <3>1. \A k \in 2..e : lines[k] \in Line
            BY <1>3, <1>5, <2>3
        <3>2. /\ D \in Seq(Line) /\ Len(D) = IF 2 <= e THEN e - 2 + 1 ELSE 0
              /\ \A k \in 1..(e - 2 + 1) : D[k] = lines[2 + k - 1]
            BY <1>3, <2>2, <2>3, <3>1, SubSeqProperties
        <3>3. e - 2 + 1 = e - 1 /\ \A k \in 1..(e - 1) : 2 + k - 1 = k + 1
            BY <1>3, <2>3
        <3>4. Len(D) = e - 1
            BY <1>3, <2>3, <3>2
        <3>5. QED BY <3>2, <3>3, <3>4
    <2>5. ASSUME NEW k \in 1..Len(D)
          PROVE  /\ D[k] \in TornLines(DefinitionLine(list[k])) /\ k \in 1..n
                 /\ len >= n + 2 => D[k] = DefinitionLine(list[k])
        <3>1. k \in 1..(e - 1) /\ k + 1 \in 1..len /\ k \in 1..n /\ (len >= n + 2 => k + 1 < len)
            BY <1>1, <1>3, <2>3, <2>4
        <3>2. QED BY <1>2, <1>5, <2>4, <3>1
    <2>6. \A k \in 1..Len(D) : IsDefinition(D[k])
        BY <1>1, <2>5, TornDefinition
    <2>7. ASSUME len >= n + 2 PROVE DefinitionsOf(D, list)
        <3>1. Len(D) = n
            BY <1>1, <2>3, <2>4, <2>7
        <3>2. QED BY <2>4, <2>5, <2>7, <3>1 DEF DefinitionsOf, n
    <2>8. QED BY <2>4, <2>6, <2>7 DEF n, len, D
<1>7. CASE ~(len >= 1 /\ lines[1][1] = Header(Definition))
    <2>1. len < n + 2
        <3>1. SUFFICES ASSUME len >= n + 2 PROVE FALSE
            BY <1>1, <1>3
        <3>2. 1 \in 1..len /\ 1 < len /\ len >= 1
            BY <1>1, <1>3, <3>1
        <3>3. lines[1] = W[1]
            BY <1>5, <3>2
        <3>4. lines[1][1] = Header(Definition)
            BY <1>2, <3>3
        <3>5. QED BY <1>7, <3>2, <3>4
    <2>2. ASSUME NEW k \in 1..len PROVE lines[k][1] # Header(Definition)
        <3>1. k <= n + 2 /\ len >= 1
            BY <1>1, <1>3, <2>1
        <3>2. lines[k][1] = Header(Definition) => k = 1
            BY <1>4, <3>1, NamesAre
        <3>3. QED BY <1>7, <3>1, <3>2
    <2>3. D = <<>>
        <3>1. Absent(lines, Definition)
            BY <2>2 DEF Absent, len
        <3>2. QED BY <1>3, <3>1, AbsentIs DEF D
    <2>4. D \in Seq(Line) /\ Len(D) = 0
        BY <2>3
    <2>5. ~(len >= n + 2)
        BY <1>1, <1>3, <2>1
    <2>6. QED BY <2>4, <2>5 DEF n, len, D
<1>8. QED BY <1>6, <1>7

(* What is read for a table are rows; none where the file ends early.       *)
LEMMA RowsRead ==
    ASSUME NEW list, IsList(list), NEW W, NEW at, Layout(W, list, at), NEW lines, Cut(lines, W),
           NEW name \in TableNames
    PROVE  LET R == ReadSection(lines, name)
           IN  /\ R \in Seq(Row)
               /\ Len(lines) <= Len(list) + 2 => R = <<>>
<1> DEFINE n == Len(list)
           len == Len(lines)
           R == ReadSection(lines, name)
<1>1. n \in Nat /\ \A i \in 1..n : IsTable(list[i])
    BY ElementIs
<1>2. W \in Seq(Line) /\ lines \in Seq(Line) /\ len \in Nat
    BY DEF Layout, Cut
<1>3. \A k \in 1..len : k <= n + 2 => lines[k][1] # Header(name)
    <2>1. name \in SectionNames /\ name # Definition
        BY NamesAre
    <2>2. \A k \in 1..len : k <= n + 2 =>
             \A m \in SectionNames : lines[k][1] = Header(m) => k = 1 /\ m = Definition
        BY EarlyLine
    <2>3. QED BY <2>1, <2>2
<1>4. \A k \in 1..len :
         /\ k \in 1..Len(W) /\ (k < len => lines[k] = W[k])
         /\ W[k] \in Row => lines[k] \in Row
         /\ W[k] = <<Empty>> => lines[k] = <<Empty>>
    BY <1>2, CutLine
<1> HIDE DEF n, len, R
<1>5. CASE Absent(lines, name)
    <2>1. R = <<>>
        BY <1>2, <1>5, AbsentIs DEF R
    <2>2. QED BY <2>1 DEF R
<1>6. CASE ~Absent(lines, name)
    <2>1. PICK first, m : ReadAt(lines, name, first, m) /\ R = SubSeq(lines, first + 1, m)
        BY <1>2, <1>6, ReadIs DEF R
    <2>2. /\ first \in 1..len /\ lines[first][1] = Header(name) /\ m \in first..len
          /\ \A k \in 1..len : first < k /\ k <= m => ~Stops(lines[k])
        BY <2>1 DEF ReadAt, len
    <2>3. first > n + 2 /\ len > n + 2
        BY <1>1, <1>2, <1>3, <2>2
    <2>4. ASSUME NEW k \in (first + 1)..m PROVE lines[k] \in Row
        <3>1. k \in 1..len /\ k \in (n + 3)..Len(W) /\ k - 1 \in 1..len /\ k - 1 < len
              /\ k - 1 <= m /\ k - 1 >= first
            BY <1>1, <1>2, <1>4, <2>2, <2>3
        <3>2. PICK i \in 1..n : PartOf(W, list, at, i, k)
            BY <3>1, PartOfTable DEF n
        <3>3. CASE \E j \in 1..Len(list[i].rows) : W[k] = RowLine(list[i].rows[j])
            <4>1. PICK j \in 1..Len(list[i].rows) : W[k] = RowLine(list[i].rows[j])
                BY <3>3
            <4>2. list[i].rows[j] \in Row
                BY <1>1, TableIs DEF TableRecord
            <4>3. QED BY <1>4, <3>1, <4>1, <4>2, RowLineIs
        <3>4. CASE W[k] = <<Empty>>
            BY <1>4, <3>1, <3>4, TextsAre
        <3>5. CASE k = at[i]
            <4>1. i \in 1..(Len(list) + 1)
                BY <1>1 DEF n
            <4>2. W[k - 1] = <<Empty>>
                BY <3>5, <4>1, Ascends
            <4>3. lines[k - 1] = <<Empty>>
                BY <1>4, <3>1, <4>2
            <4>4. Stops(lines[k - 1]) /\ lines[k - 1][1] = Empty
                BY <4>3 DEF Stops
            <4>5. ~(first < k - 1)
                BY <2>2, <3>1, <4>4
            <4>6. k - 1 = first
                BY <1>1, <1>2, <2>2, <3>1, <4>5
            <4>7. FALSE
                BY <2>2, <4>4, <4>6, NamesAre
            <4>8. QED BY <4>7
        <3>6. QED BY <3>2, <3>3, <3>4, <3>5 DEF PartOf
    <2>5. R \in Seq(Row)
        <3>1. first + 1 \in Int /\ m \in Int
            BY <1>2, <2>2
        <3>2. QED BY <2>1, <2>4, <3>1, SubSeqProperties
    <2>6. ~(len <= n + 2)
        BY <1>1, <1>2, <2>3
    <2>7. QED BY <2>5, <2>6 DEF n, len, R
<1>7. QED BY <1>5, <1>6

(* No more than the end of a table of plain rows is lost.                   *)
RowsLeft(R, rows) ==
    /\ R \in Seq(Row) /\ Len(R) <= Len(rows)
    /\ \A k \in 1..Len(R) : R[k] \in TornLines(rows[k]) /\ (k < Len(R) => R[k] = rows[k])

LEMMA PlainNotBefore ==
    ASSUME NEW list, IsList(list), NEW W, NEW at, Layout(W, list, at), NEW lines, Cut(lines, W),
           NEW i \in 1..Len(list), Plain(list, i), NEW k \in 1..Len(lines), k < at[i]
    PROVE  lines[k][1] # Header(list[i].name)
<1> DEFINE n == Len(list)
           name == list[i].name
<1>1. /\ n \in Nat /\ Distinct(list) /\ DOMAIN list = 1..n
      /\ \A j \in 1..n : IsTable(list[j]) /\ list[j].name \in TableNames
    BY ElementIs, ListIs
<1>2. W \in Seq(Line) /\ at \in [1..(n + 1) -> Nat]
    BY DEF Layout
<1>3. k \in 1..Len(W) /\ lines[k][1] \in {W[k][1], Torn} /\ k \in Nat
    BY <1>2, CutLine
<1>4. name \in TableNames /\ name \in SectionNames /\ name # Definition
    BY <1>1, NamesAre
<1> HIDE DEF n, name
<1>5. CASE k <= n + 2
    <2>1. \A m \in SectionNames : lines[k][1] = Header(m) => m = Definition
        BY <1>5, EarlyLine DEF n
    <2>2. QED BY <1>4, <2>1 DEF name
<1>6. CASE ~(k <= n + 2)
    <2>1. k \in (n + 3)..Len(W)
        BY <1>1, <1>2, <1>3, <1>6
    <2>2. PICK j \in 1..n : PartOf(W, list, at, j, k)
        BY <2>1, PartOfTable DEF n
    <2>3. j < i
        <3>1. i \in 1..(n + 1) /\ j \in 1..(n + 1) /\ i \in 1..n
            BY <1>1 DEF n
        <3>2. i <= j => at[i] <= at[j]
            BY <3>1, Ascends DEF n
        <3>3. at[j] <= k /\ at[i] \in Nat /\ at[j] \in Nat
            BY <1>2, <2>2, <3>1 DEF PartOf
        <3>4. ~(i <= j)
            BY <1>3, <3>2, <3>3
        <3>5. QED BY <1>1, <3>1, <3>4
    <2>4. W[k][1] # Header(name)
        <3>1. CASE W[k] = <<Header(list[j].name)>>
            <4>1. W[k][1] = Header(list[j].name) /\ list[j].name \in SectionNames
                BY <1>1, <3>1, NamesAre
            <4>2. Header(list[j].name) = Header(name) => list[j].name = name
                BY <1>4, <4>1, NamesAre
            <4>3. list[j].name # name
                BY <1>1, <2>3 DEF Distinct, name, n
            <4>4. QED BY <4>1, <4>2, <4>3
        <3>2. CASE \E m \in 1..Len(list[j].rows) : W[k] = RowLine(list[j].rows[m])
            <4>1. PICK m \in 1..Len(list[j].rows) : W[k] = RowLine(list[j].rows[m])
                BY <3>2
            <4>2. ~list[j].temporary
                BY <2>2 DEF PartOf
            <4>3. DOMAIN list[j].rows = 1..Len(list[j].rows)
                <5>1. list[j].rows \in Seq(Row)
                    BY <1>1, TableIs DEF TableRecord
                <5>2. QED BY <5>1
            <4>4. j \in 1..i
                BY <1>1, <2>3 DEF n
            <4>5. RowLine(list[j].rows[m])[1] # Header(name)
                BY <4>2, <4>3, <4>4 DEF Plain, name
            <4>6. QED BY <4>1, <4>5
        <3>3. CASE W[k] = <<Empty>>
            <4>1. W[k][1] = Empty
                BY <3>3
            <4>2. QED BY <1>4, <4>1, NamesAre
        <3>4. QED BY <2>2, <3>1, <3>2, <3>3 DEF PartOf
    <2>5. QED BY <1>3, <1>4, <2>4, NamesAre DEF name
<1>7. QED BY <1>5, <1>6

LEMMA PlainRead ==
    ASSUME NEW list, IsList(list), NEW W, NEW at, Layout(W, list, at), NEW lines, Cut(lines, W),
           NEW i \in 1..Len(list), Plain(list, i)
    PROVE  LET R == ReadSection(lines, list[i].name)
           IN  /\ RowsLeft(R, list[i].rows)
               /\ lines = W => R = list[i].rows
<1> DEFINE n == Len(list)
           len == Len(lines)
           name == list[i].name
           rows == list[i].rows
           r == Len(rows)
           a == at[i]
           R == ReadSection(lines, name)
<1>1. n \in Nat /\ IsTable(list[i]) /\ name \in TableNames /\ i \in 1..(n + 1) /\ i + 1 \in 1..(n + 1)
    BY ElementIs
<1>2. rows \in Seq(Row) /\ r \in Nat /\ DOMAIN rows = 1..r
    BY <1>1, TableIs DEF TableRecord
<1>3. W \in Seq(Line) /\ lines \in Seq(Line) /\ len \in Nat /\ len <= Len(W) /\ Len(W) \in Nat
    BY DEF Layout, Cut
<1>4. ~list[i].temporary
    BY DEF Plain
<1>5. /\ at \in [1..(n + 1) -> Nat] /\ at[n + 1] = Len(W) + 1 /\ at[i + 1] = a + r + 2
      /\ W[a] = <<Header(name)>> /\ W[a + r + 1] = <<Empty>>
      /\ \A k \in 1..r : W[a + k] = RowLine(rows[k])
    BY <1>4 DEF Layout
<1>6. a \in Nat /\ a + r + 1 <= Len(W) /\ a >= 1
    <2>1. at[1] = n + 3
        BY DEF Layout
    <2>2. /\ \A j, k \in 1..(Len(list) + 1) : j <= k => at[j] <= at[k]
        BY Ascends
    <2> HIDE DEF r
    <2>3. 1 \in 1..(n + 1) /\ n + 1 \in 1..(n + 1) /\ 1 <= i /\ i + 1 <= n + 1 /\ a \in Nat
          /\ at[n + 1] \in Nat /\ at[i + 1] \in Nat
        BY <1>1, <1>5
    <2>4. at[1] <= at[i] /\ at[i + 1] <= at[n + 1]
        BY <1>1, <2>2, <2>3
    <2>5. QED BY <1>1, <1>2, <1>3, <1>5, <2>1, <2>3, <2>4, SMTT(30)
<1>7. \A k \in 1..len : k < a => lines[k][1] # Header(name)
    BY PlainNotBefore
<1>8. \A k \in 1..len :
         /\ lines[k] \in TornLines(W[k]) /\ (k < len => lines[k] = W[k])
         /\ W[k] = <<Empty>> => lines[k] = <<Empty>>
    BY <1>3, CutLine
<1>9. R \in Seq(Row)
    BY <1>1, RowsRead
<1>10. \A k \in 1..r : PlainRow(rows[k]) /\ RowLine(rows[k]) = rows[k] /\ rows[k] \in Row
    <2> SUFFICES ASSUME NEW k \in 1..r PROVE PlainRow(rows[k]) /\ RowLine(rows[k]) = rows[k] /\ rows[k] \in Row
        OBVIOUS
    <2>1. PlainRow(rows[k])
        BY <1>2 DEF Plain
    <2>2. rows[k] \in Row
        BY <1>2
    <2>3. \A m \in DOMAIN rows[k] : Pieces(rows[k][m]) = <<rows[k][m]>>
        BY <2>1 DEF PlainRow
    <2> HIDE DEF rows
    <2>4. RowLine(rows[k]) = rows[k]
        BY <2>2, <2>3, RowLineIs
    <2>5. QED BY <2>1, <2>2, <2>4
<1>11. \A k \in 1..r : W[a + k] = rows[k]
    BY <1>5, <1>10
<1> HIDE DEF n, len, name, rows, r, a, R
<1>12. CASE Absent(lines, name)
    <2>1. R = <<>>
        BY <1>3, <1>12, AbsentIs DEF R
    <2>2. lines # W
        <3> SUFFICES ASSUME lines = W PROVE FALSE
            OBVIOUS
        <3>1. a \in 1..Len(lines)
            BY <1>2, <1>3, <1>6
        <3>2. lines[a][1] = Header(name)
            BY <1>5
        <3>3. QED BY <1>12, <3>1, <3>2 DEF Absent
    <2>3. RowsLeft(R, rows)
        <3>1. Len(R) = 0
            BY <2>1
        <3>2. QED BY <1>2, <1>9, <3>1 DEF RowsLeft, r
    <2>4. QED BY <2>2, <2>3 DEF R, rows, name
<1>13. CASE ~Absent(lines, name)
    <2>1. PICK first, m : ReadAt(lines, name, first, m) /\ R = SubSeq(lines, first + 1, m)
        BY <1>3, <1>13, ReadIs DEF R
    <2>2. /\ first \in 1..len /\ lines[first][1] = Header(name) /\ m \in first..len
          /\ \A k \in 1..len : lines[k][1] = Header(name) => first <= k
          /\ \A k \in 1..len : first < k /\ k <= m => ~Stops(lines[k])
          /\ m = len \/ Stops(lines[m + 1])
        BY <2>1 DEF ReadAt, len
    <2>3. first = a
        <3>1. ~(first < a)
            BY <1>7, <2>2
        <3>2. first <= a
            <4>1. CASE len > a
                <5>1. a \in 1..len /\ lines[a] = W[a]
                    BY <1>3, <1>6, <1>8, <4>1
                <5>2. lines[a][1] = Header(name)
                    BY <1>5, <5>1
                <5>3. QED BY <2>2, <5>1, <5>2
            <4>2. CASE ~(len > a)
                BY <1>3, <1>6, <2>2, <4>2
            <4>3. QED BY <4>1, <4>2
        <3>3. QED BY <1>3, <1>6, <2>2, <3>1, <3>2
    <2>4. m \in a..len /\ m <= a + r
        <3>1. m \in a..len
            BY <2>2, <2>3
        <3>2. ASSUME ~(m <= a + r) PROVE FALSE
            <4> DEFINE k == a + r + 1
            <4>1. k \in 1..len /\ first < k /\ k <= m
                BY <1>2, <1>3, <1>6, <2>3, <3>1, <3>2
            <4> HIDE DEF k
            <4>2. W[k] = <<Empty>>
                BY <1>5 DEF k
            <4>3. Stops(lines[k])
                BY <1>8, <4>1, <4>2 DEF Stops
            <4>4. QED BY <2>2, <4>1, <4>3
        <3>3. QED BY <3>1, <3>2
    <2>5. /\ Len(R) = m - a /\ m - a \in 0..r
          /\ \A k \in 1..(m - a) : R[k] = lines[a + k] /\ a + k \in 1..len
        <3>1. a + 1 \in Int /\ m \in Int /\ m - a \in 0..r
            BY <1>2, <1>3, <1>6, <2>4
        <3>2. \A k \in (a + 1)..m : lines[k] \in Line
            BY <1>3, <1>6, <2>4 DEF len
        <3>3. R = SubSeq(lines, a + 1, m)
            BY <2>1, <2>3
        <3>4. /\ Len(R) = IF a + 1 <= m THEN m - (a + 1) + 1 ELSE 0
              /\ \A k \in 1..(m - (a + 1) + 1) : R[k] = lines[a + 1 + k - 1]
            BY <3>1, <3>2, <3>3, SubSeqProperties
        <3>5. m - (a + 1) + 1 = m - a /\ \A k \in 1..(m - a) : a + 1 + k - 1 = a + k
            BY <1>6, <3>1
        <3>6. Len(R) = m - a
            BY <1>6, <2>4, <3>4, <3>1
        <3>7. \A k \in 1..(m - a) : a + k \in 1..len
            BY <1>3, <1>6, <2>4
        <3>8. \A k \in 1..(m - a) : R[k] = lines[a + k]
            BY <3>4, <3>5
        <3>9. QED BY <3>1, <3>6, <3>7, <3>8
    <2>6. ASSUME NEW k \in 1..Len(R)
          PROVE  R[k] \in TornLines(rows[k]) /\ (k < Len(R) => R[k] = rows[k]) /\ (lines = W => R[k] = rows[k])
        <3>1. k \in 1..(m - a) /\ k \in 1..r /\ a + k \in 1..len /\ (k < Len(R) => a + k < len)
            BY <1>2, <1>3, <1>6, <2>4, <2>5
        <3>2. R[k] = lines[a + k] /\ W[a + k] = rows[k]
            BY <1>11, <2>5, <3>1
        <3>3. QED BY <1>8, <3>1, <3>2
    <2>7. RowsLeft(R, rows)
        <3>1. Len(R) <= Len(rows)
            BY <1>2, <2>5 DEF r
        <3>2. QED BY <1>9, <2>6, <3>1 DEF RowsLeft
    <2>8. ASSUME lines = W PROVE R = rows
        <3>1. m = a + r
            <4> SUFFICES ASSUME m # a + r PROVE FALSE
                OBVIOUS
            <4> DEFINE k == m + 1 - a
            <4>1. m + 1 \in 1..len /\ m # len /\ k \in 1..r /\ a + k = m + 1
                BY <1>2, <1>3, <1>6, <2>4, <2>8 DEF len
            <4> HIDE DEF k
            <4>2. Stops(lines[m + 1])
                BY <2>2, <4>1
            <4>3. lines[m + 1] = rows[k]
                BY <1>11, <2>8, <4>1
            <4>4. PlainRow(rows[k])
                BY <1>10, <4>1
            <4>5. QED BY <4>2, <4>3, <4>4 DEF Stops, PlainRow
        <3>2. Len(R) = r
            BY <1>2, <1>6, <2>5, <3>1
        <3>3. \A k \in 1..r : R[k] = rows[k]
            BY <2>6, <2>8, <3>2
        <3>4. QED BY <1>2, <1>9, <3>2, <3>3, SeqEqual DEF r
    <2>9. QED BY <2>7, <2>8 DEF R, rows, name
<1>14. QED BY <1>12, <1>13

-----------------------------------------------------------------------------
(* The tables that are loaded *)

LEMMA FieldsAre ==
    ASSUME NEW d, IsDefinition(d), NEW t \in TableRecord
    PROVE  LET u == [t EXCEPT !.fields = Tail(d)]
           IN  /\ u \in TableRecord /\ Positional(u)
               /\ u.name = t.name /\ u.rows = t.rows /\ u.temporary = t.temporary
               /\ Len(d) \in Nat /\ Len(d) >= 1 /\ Len(u.fields) = Len(d) - 1
               /\ \A k \in 1..(Len(d) - 1) : u.fields[k] = d[k + 1]
<1> DEFINE u == [t EXCEPT !.fields = Tail(d)]
           f == Tail(d)
           S == Range(d)
<1>1. d \in Seq(S) /\ d # <<>> /\ \A k \in 2..Len(d) : d[k] \in Texts \cup {Number(k - 1)}
    BY DEF IsDefinition
<1> HIDE DEF S
<1>2. Len(d) \in Nat /\ Len(d) >= 1
    BY <1>1, EmptySeq
<1>3. f \in Seq(S) /\ Len(f) = Len(d) - 1 /\ \A k \in 1..Len(f) : f[k] = d[k + 1]
    BY <1>1, HeadTailProperties
<1> HIDE DEF f
<1>4. \A k \in 1..Len(f) : f[k] \in Texts \cup {Number(k)} /\ k \in Nat
    <2> SUFFICES ASSUME NEW k \in 1..Len(f) PROVE f[k] \in Texts \cup {Number(k)} /\ k \in Nat
        OBVIOUS
    <2>1. k + 1 \in 2..Len(d) /\ (k + 1) - 1 = k
        BY <1>2, <1>3
    <2>2. d[k + 1] \in Texts \cup {Number((k + 1) - 1)}
        BY <1>1, <2>1
    <2>3. QED BY <1>3, <2>1, <2>2
<1>5. f \in Seq(FieldText)
    <2>1. \A k \in 1..Len(f) : f[k] \in FieldText
        BY <1>4 DEF FieldText
    <2>2. DOMAIN f = 1..Len(f) /\ Len(f) \in Nat /\ f \in [1..Len(f) -> S]
        BY <1>3, LenProperties
    <2>3. f \in [1..Len(f) -> FieldText]
        BY <2>1, <2>2
    <2>4. QED BY <2>2, <2>3
<1>6. u.fields = f /\ u.name = t.name /\ u.rows = t.rows /\ u.temporary = t.temporary
    BY DEF TableRecord, f
<1>7. u \in TableRecord
    BY <1>5 DEF TableRecord, f
<1>8. DOMAIN f = 1..Len(f)
    BY <1>5
<1> HIDE DEF u
<1>9. Positional(u)
    BY <1>4, <1>6, <1>8 DEF Positional
<1>10. QED BY <1>2, <1>3, <1>6, <1>7, <1>9 DEF u

LEMMA DefinedName ==
    ASSUME NEW d, IsDefinition(d)
    PROVE  d[1] \in TableNames /\ d[1] # Empty
BY NamesAre DEF IsDefinition

LEMMA RestoredRecords ==
    ASSUME NEW lines, NEW list \in Seq(TableRecord), NEW d, IsDefinition(d),
           ReadSection(lines, d[1]) \in Seq(Row)
    PROVE  Restored(lines, list, d) \in Seq(TableRecord)
<1> DEFINE name == d[1]
           base == Created(list, name)
           R == ReadSection(lines, name)
           t == [Table(list, name) EXCEPT !.fields = Tail(d)]
           r == RowsAdded(t, R)
<1>1. name \in TableNames /\ name # Empty
    BY DefinedName
<1>2. Restored(lines, list, d) = Changed(list, r)
    BY <1>1 DEF Restored
<1>3. base \in Seq(TableRecord) /\ name \in Names(base)
    <2>1. CASE name \in Names(list)
        BY <2>1 DEF Created
    <2>2. CASE name \notin Names(list)
        <3> DEFINE new == NewTable(name)
        <3>1. new \in TableRecord /\ new.name = name
            BY <1>1, NewTableIs
        <3> HIDE DEF new
        <3>2. /\ Append(list, new) \in Seq(TableRecord)
              /\ Len(list) + 1 \in DOMAIN Append(list, new)
              /\ Append(list, new)[Len(list) + 1] = new
            BY <3>1
        <3>3. name \in Names(Append(list, new))
            BY <3>1, <3>2 DEF Names
        <3>4. base = Append(list, new)
            BY <2>2 DEF Created, new
        <3>5. QED BY <3>2, <3>3, <3>4
    <2>3. QED BY <2>1, <2>2
<1> HIDE DEF base
<1>4. Index(base, name) \in DOMAIN base /\ base[Index(base, name)].name = name
    BY <1>3, IndexIs
<1>5. Table(list, name) = base[Index(base, name)]
    BY DEF Table, base
<1>6. Table(list, name) \in TableRecord /\ Table(list, name).name = name
    BY <1>3, <1>4, <1>5
<1>7. t \in TableRecord /\ Positional(t) /\ t.name = name
    BY <1>6, FieldsAre
<1> HIDE DEF t
<1>8. r \in TableRecord /\ r.name = name
    BY <1>7, RowsAddedIs
<1> HIDE DEF r, name
<1>9. Changed(list, r) = [base EXCEPT ![Index(base, name)] = r]
    BY <1>8 DEF Changed, base
<1>10. QED BY <1>2, <1>3, <1>4, <1>8, <1>9

LoadedUpto(h, lines, D) ==
    /\ h[0] = <<>>
    /\ \A n \in 1..Len(D) : h[n] = Restored(lines, h[n - 1], D[n])

LEMMA LoadDefined ==
    ASSUME NEW lines, NEW D \in Seq(Line), D = ReadSection(lines, Definition),
           \A k \in 1..Len(D) : IsDefinition(D[k]),
           \A name \in TableNames : ReadSection(lines, name) \in Seq(Row)
    PROVE  \E h : LoadedUpto(h, lines, D) /\ Load(lines) = h[Len(D)]
<1> DEFINE X == Seq(TableRecord)
           N == Len(D)
           Next1(x, k) == Restored(lines, x, D[k])
           G == [k \in 1..N |-> [x \in X |-> Next1(x, k)]]
           Body(g) == [k \in 0..N |-> IF k = 0 THEN <<>> ELSE Next1(g[k - 1], k)]
<1>1. N \in Nat
    OBVIOUS
<1>2. \A k \in 1..N, x \in X : Next1(x, k) \in X
    <2> SUFFICES ASSUME NEW k \in 1..N, NEW x \in X PROVE Next1(x, k) \in X
        OBVIOUS
    <2>1. IsDefinition(D[k])
        OBVIOUS
    <2>2. ReadSection(lines, D[k][1]) \in Seq(Row)
        BY <2>1, DefinedName
    <2>3. QED BY <2>1, <2>2, RestoredRecords
<1>3. G \in Steps(X, N)
    <2> HIDE DEF Next1, X, N
    <2>1. QED BY <1>2 DEF Steps
<1>4. <<>> \in X
    OBVIOUS
<1> HIDE DEF Next1, X, N
<1>5. PICK f \in [0..N -> X] : f[0] = <<>> /\ \A k \in 1..N : f[k] = G[k][f[k - 1]]
    <2> HIDE DEF G
    <2>1. \E f : Iterates(f, X, <<>>, N, G)
        BY <1>1, <1>3, <1>4, Iterated
    <2>2. QED BY <2>1 DEF Iterates
<1>6. f = Body(f)
    <2>1. \A k \in 1..N : k - 1 \in 0..N
        BY <1>1
    <2>2. \A k \in 0..N : k = 0 \/ k \in 1..N
        BY <1>1
    <2>3. \A k \in 1..N : f[k] = Next1(f[k - 1], k)
        BY <1>5, <2>1
    <2>4. \A k \in 0..N : f[k] = IF k = 0 THEN <<>> ELSE Next1(f[k - 1], k)
        <3>1. \A k \in 1..N : k # 0
            BY <1>1
        <3>2. QED BY <1>5, <2>2, <2>3, <3>1
    <2>5. QED BY <2>4
<1> DEFINE u == CHOOSE h : h = Body(h)
<1>7. u = Body(u)
    <2> HIDE DEF Body
    <2>1. QED BY <1>6
<1> HIDE DEF u
<1>8. Load(lines) = u[Len(D)]
    BY DEF Load, u, Next1, N
<1>9. LoadedUpto(u, lines, D)
    <2>1. u[0] = <<>>
        <3>1. 0 \in 0..N
            BY <1>1
        <3>2. QED BY <1>7, <3>1
    <2>2. \A k \in 1..N : u[k] = Next1(u[k - 1], k)
        <3>1. \A k \in 1..N : k \in 0..N /\ k # 0
            BY <1>1
        <3> HIDE DEF Next1
        <3>2. QED BY <1>7, <3>1
    <2>3. QED BY <2>1, <2>2 DEF LoadedUpto, Next1, N
<1>10. QED BY <1>8, <1>9

(* The table a definition and the rows of its section make. *)
Stored(d, rows) == RowsAdded([NewTable(d[1]) EXCEPT !.fields = Tail(d)], rows)

(* It has the fields of the definition if they are enough for the rows.     *)
FieldsStored(s, d, rows) ==
    (\A k \in DOMAIN rows : Len(rows[k]) <= Len(d) - 1) =>
        /\ Len(s.fields) = Len(d) - 1
        /\ \A k \in 1..(Len(d) - 1) : s.fields[k] = d[k + 1]

LEMMA StoredIs ==
    ASSUME NEW d, IsDefinition(d), NEW rows \in Seq(Row)
    PROVE  LET s == Stored(d, rows)
           IN  /\ IsTable(s) /\ s.name = d[1] /\ s.rows = rows /\ s.temporary = FALSE
               /\ FieldsStored(s, d, rows)
<1> DEFINE new == NewTable(d[1])
           u == [new EXCEPT !.fields = Tail(d)]
           s == Stored(d, rows)
<1>1. d[1] \in TableNames
    BY DefinedName
<1>2. new \in TableRecord /\ new.name = d[1] /\ new.rows = <<>> /\ new.temporary = FALSE
    BY <1>1, NewTableIs
<1> HIDE DEF new
<1>3. /\ u \in TableRecord /\ Positional(u)
      /\ u.name = d[1] /\ u.rows = <<>> /\ u.temporary = FALSE
      /\ Len(u.fields) = Len(d) - 1
      /\ \A k \in 1..(Len(d) - 1) : u.fields[k] = d[k + 1]
    BY <1>2, FieldsAre
<1>4. s = RowsAdded(u, rows)
    BY DEF Stored, new
<1> HIDE DEF u, s
<1>5. Wide(u)
    <2>1. DOMAIN u.rows = {}
        BY <1>3
    <2>2. QED BY <2>1 DEF Wide
<1>6. /\ s \in TableRecord /\ Positional(s) /\ Wide(s)
      /\ s.name = d[1] /\ s.temporary = FALSE
      /\ s.rows = <<>> \o rows
      /\ (\A k \in DOMAIN rows : Len(rows[k]) <= Len(u.fields)) => s.fields = u.fields
    BY <1>3, <1>4, <1>5, RowsAddedIs, ZenonT(30)
<1>7. s.rows = rows
    BY <1>6, ConcatEmptySeq
<1>8. IsTable(s)
    BY <1>6, TableIs
<1>9. QED BY <1>3, <1>6, <1>7, <1>8 DEF s, FieldsStored

LEMMA RestoredNew ==
    ASSUME NEW lines, NEW list, IsList(list), NEW d, IsDefinition(d), d[1] \notin Names(list),
           ReadSection(lines, d[1]) \in Seq(Row)
    PROVE  LET c == Restored(lines, list, d)
           IN  /\ IsList(c) /\ c = Append(list, Stored(d, ReadSection(lines, d[1])))
<1> DEFINE name == d[1]
           s == Stored(d, ReadSection(lines, name))
<1>1. name \in TableNames /\ name # Empty
    BY DefinedName
<1>2. Table(list, name) = NewTable(name)
    BY <1>1, TableOf
<1>3. Restored(lines, list, d) = Changed(list, s)
    BY <1>1, <1>2 DEF Restored, Stored
<1>4. IsTable(s) /\ s.name = name
    BY StoredIs
<1> HIDE DEF s
<1>5. IsList(Changed(list, s)) /\ Changed(list, s) = Append(list, s)
    BY <1>4, ChangedIs
<1>6. QED BY <1>3, <1>5 DEF s

Bare(list) == \A name : RowsOf(list, name) = <<>>

LEMMA RestoredBare ==
    ASSUME NEW lines, NEW list, IsList(list), Bare(list), NEW d, IsDefinition(d),
           ReadSection(lines, d[1]) = <<>>
    PROVE  IsList(Restored(lines, list, d)) /\ Bare(Restored(lines, list, d))
<1> DEFINE name == d[1]
           old == Table(list, name)
           u == [old EXCEPT !.fields = Tail(d)]
           r == RowsAdded(u, <<>>)
<1>1. name \in TableNames /\ name # Empty
    BY DefinedName
<1>2. IsTable(old) /\ old.name = name /\ old.rows = <<>>
    BY <1>1, TableOf DEF Bare
<1>3. Restored(lines, list, d) = Changed(list, r)
    BY <1>1 DEF Restored
<1>4. old \in TableRecord
    BY <1>2, TableIs
<1> HIDE DEF old
<1>5. u \in TableRecord /\ Positional(u) /\ u.name = name /\ u.rows = <<>>
    BY <1>2, <1>4, FieldsAre
<1> HIDE DEF u
<1>6. Wide(u)
    <2>1. DOMAIN u.rows = {}
        BY <1>5
    <2>2. QED BY <2>1 DEF Wide
<1>7. <<>> \in Seq(Row)
    OBVIOUS
<1>8. r \in TableRecord /\ Positional(r) /\ Wide(r) /\ r.name = name /\ r.rows = <<>> \o <<>>
    BY <1>5, <1>6, <1>7, RowsAddedIs
<1> HIDE DEF r
<1>9. r.rows = <<>>
    BY <1>7, <1>8, ConcatEmptySeq
<1>10. IsTable(r)
    BY <1>8, TableIs
<1>11. /\ IsList(Changed(list, r)) /\ RowsOf(Changed(list, r), name) = <<>>
       /\ \A n : n # name => RowsOf(Changed(list, r), n) = RowsOf(list, n)
    BY <1>8, <1>9, <1>10, ChangedIs
<1>12. Bare(Changed(list, r))
    BY <1>11 DEF Bare
<1>13. QED BY <1>3, <1>11, <1>12

LEMMA RowsOfElement ==
    ASSUME NEW list, IsList(list), NEW i \in 1..Len(list)
    PROVE  RowsOf(list, list[i].name) = list[i].rows
<1>1. DOMAIN list = 1..Len(list) /\ Distinct(list)
    BY ElementIs, ListIs
<1> DEFINE name == list[i].name
<1>2. name \in Names(list)
    BY <1>1 DEF Names
<1>3. Index(list, name) \in DOMAIN list /\ list[Index(list, name)].name = name
    BY <1>2, IndexIs
<1>4. Index(list, name) = i
    BY <1>1, <1>3 DEF Distinct
<1>5. QED BY <1>2, <1>4 DEF RowsOf

(* A file that ends before its sections makes tables without rows.          *)
LEMMA LoadShort ==
    ASSUME NEW list, IsList(list), NEW W, NEW at, Layout(W, list, at), NEW lines, Cut(lines, W),
           Len(lines) <= Len(list) + 2
    PROVE  IsList(Load(lines)) /\ Bare(Load(lines))
<1> DEFINE D == ReadSection(lines, Definition)
           N == Len(D)
<1>1. D \in Seq(Line) /\ \A k \in 1..N : IsDefinition(D[k])
    BY DefinitionsRead
<1>2. \A name \in TableNames : ReadSection(lines, name) \in Seq(Row) /\ ReadSection(lines, name) = <<>>
    BY RowsRead
<1> HIDE DEF D
<1>3. PICK h : LoadedUpto(h, lines, D) /\ Load(lines) = h[N]
    <2>1. D = ReadSection(lines, Definition)
        BY DEF D
    <2>2. \A name \in TableNames : ReadSection(lines, name) \in Seq(Row)
        BY <1>2
    <2>3. QED BY <1>1, <2>1, <2>2, LoadDefined
<1> DEFINE P(k) == k <= N => IsList(h[k]) /\ Bare(h[k])
           S == {k \in Nat : P(k)}
<1>4. N \in Nat
    BY <1>1
<1> HIDE DEF N
<1>5. P(0)
    <2>1. Bare(<<>>)
        BY DEF Bare, RowsOf, Names
    <2>2. h[0] = <<>>
        BY <1>3 DEF LoadedUpto
    <2>3. QED BY <2>1, <2>2, EmptyList
<1>6. ASSUME NEW k \in Nat, P(k) PROVE P(k + 1)
    <2> SUFFICES ASSUME k + 1 <= N PROVE IsList(h[k + 1]) /\ Bare(h[k + 1])
        OBVIOUS
    <2>1. k + 1 \in 1..N /\ (k + 1) - 1 = k /\ k <= N
        BY <1>4
    <2>2. h[k + 1] = Restored(lines, h[k], D[k + 1])
        BY <1>3, <2>1 DEF LoadedUpto, N
    <2>3. IsDefinition(D[k + 1])
        BY <1>1, <2>1 DEF N
    <2>4. ReadSection(lines, D[k + 1][1]) = <<>>
        BY <1>2, <2>3, DefinedName
    <2>5. IsList(h[k]) /\ Bare(h[k])
        BY <1>6, <2>1
    <2> DEFINE old == h[k]
               d == D[k + 1]
    <2> HIDE DEF old, d
    <2>6. IsList(Restored(lines, old, d)) /\ Bare(Restored(lines, old, d))
        BY <2>3, <2>4, <2>5, RestoredBare DEF old, d
    <2>7. QED BY <2>2, <2>6 DEF old, d
<1>7. Nat \subseteq S
    <2> HIDE DEF P
    <2>1. 0 \in S /\ \A k \in Nat : k \in S => k + 1 \in S
        BY <1>5, <1>6
    <2>2. QED BY <2>1, Induction
<1>8. P(N)
    <2> HIDE DEF P
    <2>1. QED BY <1>4, <1>7
<1>9. QED BY <1>3, <1>4, <1>8

(* Otherwise every table is there, with what is read of its section.        *)
LEMMA LoadWhole ==
    ASSUME NEW list, IsList(list), NEW W, NEW at, Layout(W, list, at), NEW lines, Cut(lines, W),
           Len(lines) >= Len(list) + 2
    PROVE  /\ IsList(Load(lines)) /\ Len(Load(lines)) = Len(list)
           /\ \A i \in 1..Len(list) :
                 Load(lines)[i] = Stored(DefinitionLine(list[i]), ReadSection(lines, list[i].name))
<1> DEFINE D == ReadSection(lines, Definition)
           N == Len(list)
           R(name) == ReadSection(lines, name)
<1>1. N \in Nat /\ DOMAIN list = 1..N /\ Distinct(list)
      /\ \A i \in 1..N : IsTable(list[i]) /\ list[i].name \in TableNames
    BY ElementIs, ListIs
<1>2. Len(lines) >= N + 2
    OBVIOUS
<1>3. /\ D \in Seq(Line) /\ \A k \in 1..Len(D) : IsDefinition(D[k])
      /\ DefinitionsOf(D, list)
    BY <1>2, DefinitionsRead
<1>4. \A name \in TableNames : R(name) \in Seq(Row)
    BY RowsRead
<1> HIDE DEF D
<1>5. Len(D) = N /\ \A k \in 1..N : D[k] = DefinitionLine(list[k]) /\ D[k][1] = list[k].name /\ IsDefinition(D[k])
    <2>1. Len(D) = N /\ \A k \in 1..N : D[k] = DefinitionLine(list[k]) /\ IsDefinition(D[k])
        BY <1>3 DEF DefinitionsOf
    <2>2. \A k \in 1..N : DefinitionLine(list[k])[1] = list[k].name
        BY <1>1, DefinitionLineIs
    <2>3. QED BY <2>1, <2>2
<1>6. PICK h : LoadedUpto(h, lines, D) /\ Load(lines) = h[N]
    <2>1. D = ReadSection(lines, Definition)
        BY DEF D
    <2>2. \A name \in TableNames : ReadSection(lines, name) \in Seq(Row)
        BY <1>4
    <2>3. \E h : LoadedUpto(h, lines, D) /\ Load(lines) = h[Len(D)]
        BY <1>3, <2>1, <2>2, LoadDefined
    <2>4. QED BY <1>5, <2>3
<1> DEFINE T(i) == Stored(D[i], R(list[i].name))
           P(k) == k <= N => /\ IsList(h[k]) /\ Len(h[k]) = k
                             /\ \A i \in 1..k : h[k][i] = T(i)
           S == {k \in Nat : P(k)}
<1>7. \A i \in 1..N : T(i).name = list[i].name
    BY <1>1, <1>4, <1>5, StoredIs
<1> HIDE DEF N, R, T
<1>8. P(0)
    <2>1. h[0] = <<>>
        BY <1>6 DEF LoadedUpto
    <2>2. QED BY <2>1, EmptyList
<1>9. ASSUME NEW k \in Nat, P(k) PROVE P(k + 1)
    <2> SUFFICES ASSUME k + 1 <= N
                 PROVE  /\ IsList(h[k + 1]) /\ Len(h[k + 1]) = k + 1
                        /\ \A i \in 1..(k + 1) : h[k + 1][i] = T(i)
        OBVIOUS
    <2>1. k + 1 \in 1..N /\ (k + 1) - 1 = k /\ k <= N /\ \A i \in 1..k : i \in 1..N /\ i # k + 1
        BY <1>1
    <2> DEFINE old == h[k]
               new == h[k + 1]
               d == D[k + 1]
               name == list[k + 1].name
    <2>2. IsList(old) /\ Len(old) = k /\ \A i \in 1..k : old[i] = T(i)
        BY <1>9, <2>1
    <2>3. new = Restored(lines, old, d)
        BY <1>5, <1>6, <2>1 DEF LoadedUpto
    <2>4. d[1] = name /\ IsDefinition(d) /\ name \in TableNames
        BY <1>1, <1>5, <2>1
    <2>5. R(name) \in Seq(Row) /\ T(k + 1) = Stored(d, R(name))
        BY <1>4, <2>4 DEF T
    <2>6. name \notin Names(old)
        <3>1. DOMAIN old = 1..k
            BY <2>2, ElementIs
        <3>2. \A i \in 1..k : old[i].name # name
            BY <1>1, <1>7, <2>1, <2>2 DEF Distinct
        <3> HIDE DEF old, name
        <3>3. QED BY <3>1, <3>2 DEF Names
    <2> HIDE DEF old, new, d, name
    <2>7. IsList(new) /\ new = Append(old, T(k + 1))
        <3>1. d[1] \notin Names(old) /\ ReadSection(lines, d[1]) \in Seq(Row)
            BY <2>4, <2>5, <2>6 DEF R
        <3>2. IsList(Restored(lines, old, d))
              /\ Restored(lines, old, d) = Append(old, Stored(d, ReadSection(lines, d[1])))
            BY <2>2, <2>4, <3>1, RestoredNew
        <3>3. QED BY <2>3, <2>4, <2>5, <3>2 DEF R
    <2>8. old \in Seq(TableRecord)
        BY <2>2, ElementIs
    <2>9. Len(new) = k + 1 /\ (\A i \in 1..k : new[i] = old[i]) /\ new[k + 1] = T(k + 1)
        <3> DEFINE s == T(k + 1)
        <3> HIDE DEF s
        <3>1. new = Append(old, s)
            BY <2>7 DEF s
        <3>2. QED BY <2>2, <2>8, <3>1 DEF s
    <2>10. \A i \in 1..(k + 1) : i \in 1..k \/ i = k + 1
        BY <2>1
    <2>11. \A i \in 1..(k + 1) : new[i] = T(i)
        BY <2>2, <2>9, <2>10
    <2>12. QED BY <2>7, <2>9, <2>11 DEF new
<1>10. Nat \subseteq S
    <2> HIDE DEF P
    <2>1. 0 \in S /\ \A k \in Nat : k \in S => k + 1 \in S
        BY <1>8, <1>9
    <2>2. QED BY <2>1, Induction
<1>11. P(N)
    <2> HIDE DEF P
    <2>1. QED BY <1>1, <1>10
<1>12. IsList(h[N]) /\ Len(h[N]) = N /\ \A i \in 1..N : h[N][i] = T(i)
    BY <1>1, <1>11
<1>13. \A i \in 1..N : T(i) = Stored(DefinitionLine(list[i]), R(list[i].name))
    BY <1>5 DEF T
<1>14. QED BY <1>6, <1>12, <1>13 DEF N, R

(* The rows a table has after the start are those of its section.           *)
LEMMA LoadedRows ==
    ASSUME NEW list, IsList(list), NEW W, NEW at, Layout(W, list, at), NEW lines, Cut(lines, W),
           NEW i \in 1..Len(list)
    PROVE  RowsOf(Load(lines), list[i].name) = ReadSection(lines, list[i].name)
<1> DEFINE name == list[i].name
           R == ReadSection(lines, name)
           L == Load(lines)
<1>1. IsTable(list[i]) /\ name \in TableNames /\ Len(list) \in Nat /\ Len(lines) \in Nat
    BY ElementIs DEF Cut
<1>2. R \in Seq(Row) /\ (Len(lines) <= Len(list) + 2 => R = <<>>)
    BY <1>1, RowsRead
<1>3. CASE Len(lines) <= Len(list) + 2
    BY <1>2, <1>3, LoadShort DEF Bare
<1>4. CASE Len(lines) > Len(list) + 2
    <2>1. IsList(L) /\ Len(L) = Len(list) /\ L[i] = Stored(DefinitionLine(list[i]), R)
        <3>1. Len(lines) >= Len(list) + 2
            BY <1>1, <1>4
        <3>2. QED BY <3>1, LoadWhole
    <2> DEFINE d == DefinitionLine(list[i])
    <2>2. IsDefinition(d) /\ d[1] = name
        <3>1. d \in Line /\ d[1] = name
            BY <1>1, DefinitionLineIs
        <3>2. d \in TornLines(d)
            BY <3>1, WholeLine DEF Line
        <3>3. QED BY <1>1, <3>1, <3>2, TornDefinition
    <2> HIDE DEF d, R, L, name
    <2>3. Stored(d, R).name = name /\ Stored(d, R).rows = R
        BY <1>2, <2>2, StoredIs
    <2>4. L[i] = Stored(d, R)
        BY <2>1 DEF d
    <2>5. RowsOf(L, L[i].name) = L[i].rows
        BY <2>1, RowsOfElement
    <2>6. QED BY <2>3, <2>4, <2>5 DEF L, R, name
<1>5. QED BY <1>1, <1>3, <1>4

-----------------------------------------------------------------------------
(* A file of the tables that were loaded *)

LEMMA DefinedAgain ==
    ASSUME NEW t, IsTable(t), ~t.temporary
    PROVE  LET s == Stored(DefinitionLine(t), t.rows)
           IN  DefinitionLine(s) = DefinitionLine(t) /\ Section(s) = Section(t)
<1> DEFINE d == DefinitionLine(t)
           s == Stored(d, t.rows)
           e == DefinitionLine(s)
           N == Len(d) - 1
<1>1. /\ d \in Line /\ d[1] = t.name /\ Len(d) >= 2 /\ Len(d) \in Nat
      /\ t.fields = <<>> => Len(d) = 2 /\ d[2] = Empty
      /\ t.fields # <<>> =>
            /\ Len(d) = Len(t.fields) + 1
            /\ \A k \in 1..Len(t.fields) :
                  d[k + 1] = IF t.fields[k] = NoName THEN Number(k) ELSE t.fields[k]
    BY DefinitionLineIs
<1>2. t.rows \in Seq(Row) /\ Wide(t) /\ t.fields \in Seq(FieldText) /\ Len(t.fields) \in Nat
    BY TableIs DEF TableRecord
<1>3. IsDefinition(d)
    <2>1. d \in TornLines(d)
        BY <1>1, WholeLine DEF Line
    <2>2. QED BY <2>1, TornDefinition
<1> HIDE DEF d
<1>4. N \in Nat /\ N >= 1 /\ Len(d) = N + 1 /\ Len(t.fields) <= N
      /\ (t.fields # <<>> => Len(t.fields) = N)
    <2>1. t.fields = <<>> => Len(t.fields) = 0
        OBVIOUS
    <2>2. QED BY <1>1, <1>2, <2>1
<1>5. \A k \in DOMAIN t.rows : Len(t.rows[k]) <= N
    <2> SUFFICES ASSUME NEW k \in DOMAIN t.rows PROVE Len(t.rows[k]) <= N
        OBVIOUS
    <2>1. Len(t.rows[k]) \in Nat
        BY <1>2 DEF Row
    <2>2. Len(t.rows[k]) <= Len(t.fields)
        BY <1>2 DEF Wide
    <2> DEFINE x == Len(t.rows[k])
               y == Len(t.fields)
    <2>3. x \in Nat /\ y \in Nat /\ x <= y /\ y <= N /\ N \in Nat
        BY <1>2, <1>4, <2>1, <2>2
    <2> HIDE DEF x, y, N
    <2>4. x <= N
        BY <2>3
    <2>5. QED BY <2>4 DEF x
<1>6. /\ IsTable(s) /\ s.name = t.name /\ s.rows = t.rows /\ s.temporary = FALSE
      /\ Len(s.fields) = N /\ \A k \in 1..N : s.fields[k] = d[k + 1]
    <2> DEFINE rows == t.rows
    <2>1. rows \in Seq(Row) /\ \A k \in DOMAIN rows : Len(rows[k]) <= Len(d) - 1
        BY <1>2, <1>5
    <2>2. s = Stored(d, rows)
        OBVIOUS
    <2> HIDE DEF rows, s
    <2>3. /\ IsTable(s) /\ s.name = d[1] /\ s.rows = rows /\ s.temporary = FALSE
          /\ FieldsStored(s, d, rows)
        BY <1>3, <2>1, <2>2, StoredIs
    <2>4. Len(s.fields) = N /\ \A k \in 1..N : s.fields[k] = d[k + 1]
        BY <2>1, <2>3 DEF FieldsStored
    <2>5. QED BY <1>1, <2>3, <2>4 DEF rows
<1> HIDE DEF s, N
<1>7. Section(s) = Section(t)
    BY <1>6 DEF Section
<1>8. s.fields # <<>>
    <2>1. s.fields = <<>> => Len(s.fields) = 0
        OBVIOUS
    <2>2. QED BY <1>4, <1>6, <2>1
<1>9. /\ e \in Line /\ e[1] = t.name /\ Len(e) = N + 1
      /\ \A k \in 1..N : e[k + 1] = IF s.fields[k] = NoName THEN Number(k) ELSE s.fields[k]
    BY <1>6, <1>8, DefinitionLineIs
<1> HIDE DEF e
<1>10. ASSUME NEW k \in 1..N PROVE e[k + 1] = d[k + 1]
    <2>1. s.fields[k] = d[k + 1]
        BY <1>6
    <2>2. CASE d[k + 1] # NoName
        BY <1>9, <2>1, <2>2
    <2>3. CASE d[k + 1] = NoName
        <3>1. t.fields # <<>>
            <4> SUFFICES ASSUME t.fields = <<>> PROVE FALSE
                OBVIOUS
            <4>1. N = 1 /\ k = 1 /\ k + 1 = 2
                BY <1>1, <1>4
            <4>2. d[2] = Empty
                BY <1>1
            <4>3. NoName # Empty
                BY StorageAssumption
            <4>4. QED BY <2>3, <4>1, <4>2, <4>3
        <3>2. d[k + 1] = IF t.fields[k] = NoName THEN Number(k) ELSE t.fields[k]
            BY <1>1, <1>4, <3>1
        <3>3. d[k + 1] = Number(k)
            BY <2>3, <3>2
        <3>4. QED BY <1>9, <2>1, <2>3, <3>3
    <2>4. QED BY <2>2, <2>3
<1>11. \A k \in 1..(N + 1) : e[k] = d[k]
    <2> SUFFICES ASSUME NEW k \in 1..(N + 1) PROVE e[k] = d[k]
        OBVIOUS
    <2>1. CASE k = 1
        BY <1>1, <1>9, <2>1
    <2>2. CASE k # 1
        <3>1. k - 1 \in 1..N /\ (k - 1) + 1 = k
            BY <1>4, <2>2
        <3>2. e[(k - 1) + 1] = d[(k - 1) + 1]
            BY <1>10, <3>1
        <3>3. QED BY <3>1, <3>2
    <2>3. QED BY <2>1, <2>2
<1>12. e = d
    <2>1. e \in Seq(LineText) /\ d \in Seq(LineText) /\ Len(e) = Len(d)
        BY <1>1, <1>4, <1>9 DEF Line
    <2>2. \A k \in 1..Len(e) : e[k] = d[k]
        BY <1>9, <1>11
    <2>3. QED BY <2>1, <2>2, SeqEqual
<1>13. QED BY <1>7, <1>12 DEF e, s, d

LEMMA DumpedAgain ==
    ASSUME NEW list, IsList(list), \A i \in DOMAIN list : Plain(list, i)
    PROVE  Dumped(Load(Dumped(list))) = Dumped(list)
<1> DEFINE W == Dumped(list)
           L == Load(W)
           n == Len(list)
<1>1. PICK at : Layout(W, list, at)
    BY DumpedIs
<1>2. W \in Seq(Line) /\ Len(W) >= n + 2
    BY <1>1 DEF Layout
<1>3. Cut(W, W)
    BY <1>2, WholeIsCut
<1>4. DOMAIN list = 1..n /\ n \in Nat /\ \A i \in 1..n : IsTable(list[i])
    BY ElementIs
<1> HIDE DEF W
<1>5. /\ IsList(L) /\ Len(L) = n
      /\ \A i \in 1..n : L[i] = Stored(DefinitionLine(list[i]), ReadSection(W, list[i].name))
    BY <1>1, <1>2, <1>3, LoadWhole
<1>6. \A i \in 1..n : ReadSection(W, list[i].name) = list[i].rows
    BY <1>1, <1>3, <1>4, PlainRead
<1>7. \A i \in 1..n : ~list[i].temporary
    BY <1>4 DEF Plain
<1>8. \A i \in 1..n : L[i] = Stored(DefinitionLine(list[i]), list[i].rows)
    BY <1>5, <1>6
<1>9. \A i \in 1..n : DefinitionLine(L[i]) = DefinitionLine(list[i]) /\ Section(L[i]) = Section(list[i])
    BY <1>4, <1>7, <1>8, DefinedAgain
<1>10. DOMAIN L = 1..n
    BY <1>5, ElementIs
<1> HIDE DEF L
<1>11. [i \in DOMAIN L |-> DefinitionLine(L[i])] = [i \in DOMAIN list |-> DefinitionLine(list[i])]
    BY <1>4, <1>9, <1>10
<1>12. [i \in DOMAIN L |-> Section(L[i])] = [i \in DOMAIN list |-> Section(list[i])]
    BY <1>4, <1>9, <1>10
<1>13. Dumped(L) = Dumped(list)
    BY <1>11, <1>12, Zenon DEF Dumped
<1>14. QED BY <1>13 DEF L, W

-----------------------------------------------------------------------------
(* The invariant: the file is what is left of the tables that were saved.   *)

FileOK ==
    /\ Cut(file, Dumped(saved))
    /\ ~torn => file = Dumped(saved) \/ (file = <<>> /\ saved = <<>>)

IInv ==
    /\ IsList(tables) /\ IsList(saved) /\ FileOK
    /\ running \in BOOLEAN /\ torn \in BOOLEAN
    /\ steps \in 0..MaxLines

LEMMA DumpedLines ==
    ASSUME NEW list, IsList(list)
    PROVE  Dumped(list) \in Seq(Line)
<1>1. PICK at : Layout(Dumped(list), list, at)
    BY DumpedIs
<1>2. QED BY <1>1 DEF Layout

LEMMA LoadedList ==
    ASSUME NEW list, IsList(list), NEW lines, Cut(lines, Dumped(list))
    PROVE  IsList(Load(lines))
<1>1. PICK at : Layout(Dumped(list), list, at)
    BY DumpedIs
<1>2. Len(lines) \in Nat /\ Len(list) \in Nat
    BY ElementIs DEF Cut
<1> DEFINE W == Dumped(list)
<1>3. Layout(W, list, at) /\ Cut(lines, W)
    BY <1>1
<1> HIDE DEF W
<1>4. CASE Len(lines) <= Len(list) + 2
    BY <1>3, <1>4, LoadShort
<1>5. CASE ~(Len(lines) <= Len(list) + 2)
    <2>1. Len(lines) >= Len(list) + 2
        BY <1>2, <1>5
    <2>2. QED BY <1>3, <2>1, LoadWhole
<1>6. QED BY <1>4, <1>5

LEMMA DumpKeeps ==
    ASSUME IInv, NEW list, IsList(list), Dump(list)
    PROVE  IsList(tables') /\ IsList(saved') /\ FileOK' /\ running' \in BOOLEAN /\ torn' \in BOOLEAN
<1>1. saved' = list /\ Dumped(list) \in Seq(Line)
    BY DumpedLines DEF Dump
<1>2. CASE file' = Dumped(list) /\ tables' = list /\ torn' = FALSE /\ running' = running
    <2>1. Cut(file', Dumped(saved'))
        BY <1>1, <1>2, WholeIsCut
    <2>2. QED BY <1>1, <1>2, <2>1 DEF FileOK, IInv
<1>3. CASE file' \in TornFiles(Dumped(list)) /\ tables' = <<>> /\ torn' = TRUE /\ running' = FALSE
    <2>1. Cut(file', Dumped(saved'))
        BY <1>1, <1>3, TornFileIsCut
    <2>2. QED BY <1>1, <1>3, <2>1, EmptyList DEF FileOK
<1>4. QED BY <1>2, <1>3 DEF Dump

LEMMA StepIs == ASSUME steps \in 0..MaxLines, Step PROVE steps' \in 0..MaxLines
BY StorageAssumption DEF Step

(* Before the first dump there is no file. *)
LEMMA InitIInv == Init => IInv
<1> SUFFICES ASSUME Init PROVE IInv
    OBVIOUS
<1>1. IsList(tables) /\ IsList(saved)
    BY EmptyList DEF Init
<1>2. Cut(file, Dumped(saved))
    <2>1. Dumped(saved) \in Seq(Line)
        BY <1>1, DumpedLines
    <2>2. QED BY <2>1, WholeIsCut DEF Init
<1>3. steps \in 0..MaxLines
    <2>1. MaxLines \in Nat
        BY StorageAssumption
    <2>2. steps = 0
        BY DEF Init
    <2>3. QED BY <2>1, <2>2
<1>4. file = <<>> /\ saved = <<>> /\ running \in BOOLEAN /\ torn \in BOOLEAN
    BY DEF Init
<1>5. QED BY <1>1, <1>2, <1>3, <1>4 DEF IInv, FileOK

(* Only a dump writes the file, and it saves what it writes. *)
LEMMA NextIInv == IInv /\ [Next]_vars => IInv'
<1> SUFFICES ASSUME IInv, [Next]_vars PROVE IInv'
    OBVIOUS
<1>1. CASE ReceiveMore
    <2>1. PICK name \in Tables, row \in Rows : tables' = Received(name, row, "more")
        BY <1>1 DEF ReceiveMore
    <2>2. IsList(tables')
        BY <2>1, ReceivedList DEF IInv
    <2>3. steps' \in 0..MaxLines
        BY <1>1, StepIs DEF ReceiveMore, IInv
    <2>4. QED BY <1>1, <2>2, <2>3 DEF ReceiveMore, IInv, FileOK
<1>2. CASE ReceiveComplete
    <2>1. PICK name \in Tables, row \in Rows, kind \in {"response", "last"} :
             \/ Dump(Received(name, row, kind))
             \/ \E target \in Copies \ {name} : Dump(Copied(Received(name, row, kind), name, target))
        BY <1>2 DEF ReceiveComplete
    <2>2. IsList(Received(name, row, kind))
        BY ReceivedList DEF IInv
    <2>3. steps' \in 0..MaxLines
        BY <1>2, StepIs DEF ReceiveComplete, IInv
    <2>4. CASE Dump(Received(name, row, kind))
        BY <2>2, <2>3, <2>4, DumpKeeps DEF IInv
    <2>5. ASSUME NEW target \in Copies, Dump(Copied(Received(name, row, kind), name, target))
          PROVE  IInv'
        <3>1. target \in Tables
            BY NamesAssumption
        <3>2. IsList(Copied(Received(name, row, kind), name, target))
            BY <2>2, <3>1, CopiedList
        <3>3. QED BY <2>3, <2>5, <3>2, DumpKeeps DEF IInv
    <2>6. QED BY <2>1, <2>4, <2>5
<1>3. CASE OperatorDump
    <2>1. IsList(tables) /\ Dump(tables) /\ steps' = steps
        BY <1>3 DEF OperatorDump, IInv
    <2>2. QED BY <2>1, DumpKeeps DEF IInv
<1>4. CASE Crash
    BY <1>4, EmptyList DEF Crash, IInv, FileOK
<1>5. CASE Restart
    <2>1. IsList(tables')
        BY <1>5, LoadedList DEF Restart, IInv, FileOK
    <2>2. steps' \in 0..MaxLines
        BY <1>5, StepIs DEF Restart, IInv
    <2>3. QED BY <1>5, <2>1, <2>2 DEF Restart, IInv, FileOK
<1>6. CASE UNCHANGED vars
    BY <1>6 DEF vars, IInv, FileOK
<1>7. QED BY <1>1, <1>2, <1>3, <1>4, <1>5, <1>6 DEF Next

(* The file always is what is left of the file of the tables saved last.    *)
LEMMA Invariance == Spec => []IInv
<1>1. QED BY InitIInv, NextIInv, PTL DEF Spec

-----------------------------------------------------------------------------
(* What follows from it *)

LEMMA LineKinds ==
    ASSUME NEW list, IsList(list), NEW lines, Cut(lines, Dumped(list)), NEW k \in 1..Len(lines)
    PROVE  \/ lines[k] \in Row
           \/ \E name \in SectionNames : lines[k] = <<Header(name)>>
           \/ IsDefinition(lines[k])
<1> DEFINE W == Dumped(list)
           n == Len(list)
           x == lines[k]
<1>1. PICK at : Layout(W, list, at)
    BY DumpedIs
<1>2. Cut(lines, W)
    OBVIOUS
<1> HIDE DEF W
<1>3. W \in Seq(Line) /\ Len(W) \in Nat
    BY <1>1 DEF Layout
<1>4. k \in 1..Len(W) /\ x \in TornLines(W[k]) /\ W[k] \in Line /\ (W[k] \in Row => x \in Row)
    BY <1>2, <1>3, CutLine
<1>5. n \in Nat /\ \A i \in 1..n : IsTable(list[i]) /\ list[i].name \in SectionNames
    BY ElementIs, NamesAre
<1>6. ASSUME NEW name \in SectionNames, W[k] = <<Header(name)>>
      PROVE  x \in Row \/ x = <<Header(name)>>
    <2> DEFINE line == <<Header(name)>>
    <2>1. line \in Seq(LineText) /\ line # <<>> /\ Len(line) = 1 /\ line[1] = Header(name)
        BY TextsAre
    <2>2. x \in TornLines(line)
        BY <1>4, <1>6
    <2> HIDE DEF line, x
    <2>3. x \in Seq(LineText) /\ Len(x) \in 1..Len(line) /\ x[1] \in {line[1], Torn}
        BY <2>1, <2>2, TextsAre, TornLineIs
    <2>4. Len(x) = 1 /\ x = <<x[1]>>
        BY <2>1, <2>3
    <2>5. CASE x[1] = Torn
        <3>1. x = <<Torn>>
            BY <2>4, <2>5
        <3>2. <<Torn>> \in Row
            BY TextsAre DEF Row
        <3>3. QED BY <3>1, <3>2
    <2>6. CASE x[1] = Header(name)
        BY <2>4, <2>6
    <2>7. QED BY <2>1, <2>3, <2>5, <2>6
<1>7. ASSUME NEW i \in 1..n, W[k] = DefinitionLine(list[i]) PROVE IsDefinition(x)
    BY <1>4, <1>5, <1>7, TornDefinition
<1> HIDE DEF n, x
<1>8. CASE k = 1
    <2>1. W[k] = <<Header(Definition)>> /\ Definition \in SectionNames
        BY <1>1, <1>8, NamesAre DEF Layout
    <2>2. QED BY <1>6, <2>1 DEF x
<1>9. CASE k \in 2..(n + 1)
    <2>1. k - 1 \in 1..n /\ (k - 1) + 1 = k
        BY <1>5, <1>9
    <2>2. W[(k - 1) + 1] = DefinitionLine(list[k - 1])
        BY <1>1, <2>1 DEF Layout, n
    <2>3. W[k] = DefinitionLine(list[k - 1])
        BY <2>1, <2>2
    <2>4. QED BY <1>7, <2>1, <2>3 DEF x
<1>10. CASE k = n + 2
    <2>1. W[k] = <<Empty>>
        BY <1>1, <1>10 DEF Layout, n
    <2>2. QED BY <1>4, <2>1, TextsAre DEF x
<1>11. CASE k \in (n + 3)..Len(W)
    <2>1. PICK i \in 1..n : PartOf(W, list, at, i, k)
        BY <1>1, <1>11, PartOfTable DEF n
    <2>2. CASE W[k] = <<Header(list[i].name)>>
        BY <1>5, <1>6, <2>2 DEF x
    <2>3. CASE \E m \in 1..Len(list[i].rows) : W[k] = RowLine(list[i].rows[m])
        <3>1. PICK m \in 1..Len(list[i].rows) : W[k] = RowLine(list[i].rows[m])
            BY <2>3
        <3>2. list[i].rows[m] \in Row
            BY <1>5, TableIs DEF TableRecord
        <3>3. W[k] \in Row
            BY <3>1, <3>2, RowLineIs
        <3>4. QED BY <1>4, <3>3 DEF x
    <2>4. CASE W[k] = <<Empty>>
        BY <1>4, <2>4, TextsAre DEF x
    <2>5. QED BY <2>1, <2>2, <2>3, <2>4 DEF PartOf
<1>12. k = 1 \/ k \in 2..(n + 1) \/ k = n + 2 \/ k \in (n + 3)..Len(W)
    BY <1>3, <1>4, <1>5
<1>13. QED BY <1>8, <1>9, <1>10, <1>11, <1>12

(* Every table has the shape of a table, no two have the same name, and a   *)
(* line of the file is a row, a header or a definition, however it is torn. *)
THEOREM TypeCorrect == Spec => []TypeOK
<1>1. IInv => TypeOK
    <2> SUFFICES ASSUME IInv PROVE TypeOK
        OBVIOUS
    <2>1. IsList(saved) /\ Cut(file, Dumped(saved))
        BY DEF IInv, FileOK
    <2>2. file \in Seq(Line)
        BY <2>1 DEF Cut
    <2>3. file \in Seq(Range(file)) /\ DOMAIN file = 1..Len(file)
        BY <2>2, SeqOfRange
    <2>4. ASSUME NEW k \in DOMAIN file
          PROVE  \/ file[k] \in Seq(Texts) \ {<<>>}
                 \/ file[k] \in {<<Header(name)>> : name \in SectionNames}
                 \/ IsDefinition(file[k])
        <3>1. k \in 1..Len(file)
            BY <2>3
        <3>2. \/ file[k] \in Row
              \/ \E name \in SectionNames : file[k] = <<Header(name)>>
              \/ IsDefinition(file[k])
            BY <2>1, <3>1, LineKinds
        <3>3. QED BY <3>2 DEF Row
    <2>5. QED BY <2>3, <2>4 DEF TypeOK, IInv
<1>2. QED BY <1>1, Invariance, PTL

LEMMA WholeFile ==
    ASSUME IInv, ~torn, NEW i \in DOMAIN saved, Plain(saved, i)
    PROVE  RowsOf(Load(file), saved[i].name) = saved[i].rows
<1>1. IsList(saved) /\ i \in 1..Len(saved) /\ file = Dumped(saved)
    <2>1. IsList(saved) /\ (file = Dumped(saved) \/ saved = <<>>)
        BY DEF IInv, FileOK
    <2>2. DOMAIN saved = 1..Len(saved)
        BY <2>1, ElementIs
    <2>3. saved # <<>>
        BY <2>2
    <2>4. QED BY <2>1, <2>2, <2>3
<1> DEFINE W == Dumped(saved)
<1>2. PICK at : Layout(W, saved, at)
    BY <1>1, DumpedIs
<1>3. W \in Seq(Line) /\ file = W
    BY <1>1, <1>2 DEF Layout
<1> HIDE DEF W
<1>4. Cut(W, W)
    BY <1>3, WholeIsCut
<1>5. RowsOf(Load(W), saved[i].name) = ReadSection(W, saved[i].name)
    BY <1>1, <1>2, <1>4, LoadedRows
<1>6. ReadSection(W, saved[i].name) = saved[i].rows
    BY <1>1, <1>2, <1>4, PlainRead
<1>7. QED BY <1>3, <1>5, <1>6

(* oris_tables_dump_to_file and oris_tables_load_from_file: a table of plain *)
(* rows survives any number of starts, whatever the other tables hold.       *)
THEOREM PlainTablesComeBack == Spec => []PlainRowsComeBack
<1>1. IInv => PlainRowsComeBack
    BY WholeFile DEF PlainRowsComeBack
<1>2. QED BY <1>1, Invariance, PTL

LEMMA SavedRows ==
    ASSUME IInv, NEW i \in DOMAIN saved
    PROVE  saved[i].rows \in Seq(Row) /\ i \in 1..Len(saved) /\ IsList(saved)
<1>1. IsList(saved)
    BY DEF IInv
<1>2. i \in 1..Len(saved) /\ IsTable(saved[i])
    BY <1>1, ElementIs
<1>3. QED BY <1>1, <1>2, TableIs DEF TableRecord

LEMMA PrefixIs ==
    ASSUME NEW X, NEW s \in Seq(X), NEW m \in Nat, NEW R \in Seq(X), m <= Len(R), m <= Len(s),
           \A k \in 1..m : R[k] = s[k]
    PROVE  IsPrefix(SubSeq(R, 1, m), s)
<1> DEFINE a == SubSeq(R, 1, m)
           b == SubSeq(s, 1, m)
<1>1. Len(R) \in Nat /\ Len(s) \in Nat
    OBVIOUS
<1>2. a \in Seq(X) /\ Len(a) = m /\ \A k \in 1..m : a[k] = R[k]
    <2>1. \A k \in 1..m : R[k] \in X
        BY <1>1
    <2>2. /\ a \in Seq(X) /\ Len(a) = IF 1 <= m THEN m - 1 + 1 ELSE 0
          /\ \A k \in 1..(m - 1 + 1) : a[k] = R[1 + k - 1]
        BY <2>1, SubSeqProperties
    <2>3. QED BY <2>2
<1>3. b \in Seq(X) /\ Len(b) = m /\ \A k \in 1..m : b[k] = s[k]
    <2>1. \A k \in 1..m : s[k] \in X
        BY <1>1
    <2>2. /\ b \in Seq(X) /\ Len(b) = IF 1 <= m THEN m - 1 + 1 ELSE 0
          /\ \A k \in 1..(m - 1 + 1) : b[k] = s[1 + k - 1]
        BY <2>1, SubSeqProperties
    <2>3. QED BY <2>2
<1> HIDE DEF a, b
<1>4. a = b
    BY <1>2, <1>3, SeqEqual
<1>5. SubSeq(a, 1, Len(a)) = a
    BY <1>2, SubSeqFull
<1>6. IsPrefix(a, s)
    BY <1>2, <1>4, <1>5 DEF IsPrefix, b
<1>7. QED BY <1>6 DEF a

LEMMA TornFile ==
    ASSUME IInv, torn, NEW i \in DOMAIN saved, Plain(saved, i)
    PROVE  LET rows == RowsOf(Load(file), saved[i].name)
           IN  \/ IsPrefix(rows, saved[i].rows)
               \/ /\ torn
                  /\ Len(rows) \in DOMAIN saved[i].rows
                  /\ IsPrefix(Front(rows), saved[i].rows)
                  /\ Last(rows) \in TornLines(saved[i].rows[Len(rows)])
<1> DEFINE R == RowsOf(Load(file), saved[i].name)
           old == saved[i].rows
           W == Dumped(saved)
<1>1. old \in Seq(Row) /\ i \in 1..Len(saved) /\ IsList(saved)
    BY SavedRows
<1>2. PICK at : Layout(W, saved, at)
    BY <1>1, DumpedIs
<1>3. Cut(file, W)
    BY DEF IInv, FileOK
<1> HIDE DEF W
<1>4. R = ReadSection(file, saved[i].name)
    BY <1>1, <1>2, <1>3, LoadedRows
<1>5. RowsLeft(R, old)
    BY <1>1, <1>2, <1>3, <1>4, PlainRead
<1> HIDE DEF R, old
<1>6. /\ R \in Seq(Row) /\ Len(R) <= Len(old) /\ Len(R) \in Nat /\ Len(old) \in Nat
      /\ \A k \in 1..Len(R) : R[k] \in TornLines(old[k]) /\ (k < Len(R) => R[k] = old[k])
    BY <1>1, <1>5 DEF RowsLeft
<1>7. CASE Len(R) = 0
    <2>1. SubSeq(R, 1, 0) = R
        BY <1>6, <1>7, SubSeqFull
    <2>2. IsPrefix(SubSeq(R, 1, 0), old)
        <3>1. 0 \in Nat /\ 0 <= Len(R) /\ 0 <= Len(old) /\ \A k \in 1..0 : R[k] = old[k]
            BY <1>6
        <3>2. QED BY <1>1, <1>6, <3>1, PrefixIs
    <2>3. QED BY <2>1, <2>2 DEF R, old
<1>8. CASE Len(R) # 0
    <2> DEFINE m == Len(R) - 1
    <2>1. m \in Nat /\ m <= Len(R) /\ m <= Len(old) /\ Len(R) \in 1..Len(R)
          /\ \A k \in 1..m : k \in 1..Len(R) /\ k < Len(R)
        BY <1>6, <1>8
    <2>2. \A k \in 1..m : R[k] = old[k]
        BY <1>6, <2>1
    <2>3. IsPrefix(Front(R), old)
        <3> HIDE DEF m
        <3>1. IsPrefix(SubSeq(R, 1, m), old)
            BY <1>1, <1>6, <2>1, <2>2, PrefixIs
        <3>2. QED BY <3>1 DEF Front, m
    <2>4. Last(R) \in TornLines(old[Len(R)])
        BY <1>6, <2>1 DEF Last
    <2>5. Len(R) \in DOMAIN old
        BY <1>1, <1>6, <2>1
    <2>6. QED BY <2>3, <2>4, <2>5 DEF R, old
<1>9. QED BY <1>7, <1>8

(* Killed anywhere in oris_tables_dump_to_file: a table of plain rows loses  *)
(* its end and no more, and only the last row there is may be torn.          *)
THEOREM TornFileLosesItsEnd == Spec => []TornFileIsPrefix
<1>1. IInv => TornFileIsPrefix
    <2> SUFFICES ASSUME IInv, NEW i \in DOMAIN saved, Plain(saved, i)
                 PROVE  LET rows == RowsOf(Load(file), saved[i].name)
                        IN  \/ IsPrefix(rows, saved[i].rows)
                            \/ /\ torn
                               /\ Len(rows) \in DOMAIN saved[i].rows
                               /\ IsPrefix(Front(rows), saved[i].rows)
                               /\ Last(rows) \in TornLines(saved[i].rows[Len(rows)])
        BY DEF TornFileIsPrefix
    <2>1. CASE torn
        BY <2>1, TornFile
    <2>2. CASE ~torn
        <3> DEFINE old == saved[i].rows
        <3>1. RowsOf(Load(file), saved[i].name) = old
            BY <2>2, WholeFile
        <3>2. old \in Seq(Row)
            BY SavedRows
        <3> HIDE DEF old
        <3>3. IsPrefix(old, old)
            <4>1. Len(old) \in Nat
                BY <3>2
            <4>2. QED BY <4>1 DEF IsPrefix
        <3>4. QED BY <3>1, <3>3 DEF old
    <2>3. QED BY <2>1, <2>2
<1>2. QED BY <1>1, Invariance, PTL

(* What is dumped after a start from a file of plain tables is that file:   *)
(* the names and numbers of fields that were filled in are read as names.    *)
THEOREM StoringIsStable == Spec => []StoredAgainIsTheSame
<1>1. IInv => StoredAgainIsTheSame
    <2> SUFFICES ASSUME IInv, ~torn, \A i \in DOMAIN saved : Plain(saved, i)
                 PROVE  file \in {<<>>, Dumped(Load(file))}
        BY DEF StoredAgainIsTheSame
    <2>1. IsList(saved) /\ (file = Dumped(saved) \/ file = <<>>)
        BY DEF IInv, FileOK
    <2>2. Dumped(Load(Dumped(saved))) = Dumped(saved)
        BY <2>1, DumpedAgain
    <2>3. QED BY <2>1, <2>2
<1>2. QED BY <1>1, Invariance, PTL

=============================================================================
