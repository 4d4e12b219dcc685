--------------------------- MODULE TableFeedProofs ---------------------------
(* Proofs about the reception of tables, for any tables, any number of lines *)
(* and any number of faults.                                                 *)
EXTENDS TableFeed, SequenceTheorems, TLAPS

(* No fault hit the transmission of t that is under way, or the one before. *)
Clean(t) == {version[t] - 1, version[t]} \cap faults[t] = {}

(* A transmission that follows one without a fault finds a complete table.  *)
Begins(t) == next[t] = 1 /\ version[t] - 1 \notin faults[t] => state[t] = "COMPLETE"

(* A clean transmission that is under way is what the table holds. *)
Grows(t) ==
    next[t] > 1 /\ Clean(t) =>
        state[t] = "RECEIVING" /\ rows[t] = FirstLines(version[t], next[t] - 1)

Forgotten(t) ==
    announced[t].version > 0
        /\ {announced[t].version - 1, announced[t].version} \cap faults[t] = {} =>
            announced[t].rows = Whole(t, announced[t].version)

ResponseWhole(t) ==
    t \in Bang /\ announced[t].version > 0 =>
        announced[t].rows = Whole(t, announced[t].version)

Good(t) == Begins(t) /\ Grows(t) /\ Forgotten(t) /\ ResponseWhole(t)

(* The inductive invariant. *)
IInv == TypeOK /\ \A t \in Tables : Good(t)

-----------------------------------------------------------------------------
(* One more line of a transmission. *)
LEMMA OneMoreLine ==
    ASSUME NEW v \in Nat, NEW n \in Nat
    PROVE  /\ FirstLines(v, n) \in Seq(Rows)
           /\ Append(FirstLines(v, n), Row(v, n + 1)) = FirstLines(v, n + 1)
<1> DEFINE s == FirstLines(v, n)
           x == Row(v, n + 1)
           r == FirstLines(v, n + 1)
<1>1. \A i \in Nat : Row(v, i) \in Rows
    BY DEF Row, Rows
<1>2. s \in Seq(Rows) /\ Len(s) = n
    BY <1>1 DEF FirstLines
<1>3. r \in Seq(Rows) /\ Len(r) = n + 1
    BY <1>1 DEF FirstLines
<1>4. x \in Rows
    BY <1>1
<1>5. /\ Append(s, x) \in Seq(Rows)
      /\ Len(Append(s, x)) = n + 1
      /\ \A i \in 1..n : Append(s, x)[i] = s[i]
      /\ Append(s, x)[n + 1] = x
    BY <1>2, <1>4, AppendProperties
<1>6. \A i \in 1..(n + 1) : Append(s, x)[i] = r[i]
    BY <1>5 DEF FirstLines
<1>7. QED BY <1>2, <1>3, <1>5, <1>6, SeqEqual

(* What TypeOK says of one table. *)
LEMMA TypeOfTable ==
    ASSUME TypeOK, NEW t \in Tables
    PROVE  /\ rows[t] \in Seq(Rows)
           /\ state[t] \in {"COMPLETE", "RECEIVING"}
           /\ version[t] \in Nat \ {0} /\ next[t] \in Nat \ {0}
           /\ Lines(t) \in Nat \ {0} /\ next[t] <= Lines(t)
           /\ faults[t] \subseteq Nat /\ \A v \in faults[t] : v <= version[t]
           /\ announced[t].version \in Nat /\ announced[t].version < version[t]
           /\ announced[t].rows \in Seq(Rows)
BY ConstantAssumption DEF TypeOK, Lines

(* The tables are empty and complete in the beginning. *)
LEMMA InitIInv == Init => IInv
<1> SUFFICES ASSUME Init PROVE IInv
    OBVIOUS
<1>1. <<>> \in Seq(Rows)
    BY EmptySeq
<1>2. TypeOK
    BY <1>1, ConstantAssumption DEF Init, TypeOK, Lines
<1>3. ASSUME NEW t \in Tables PROVE Good(t)
    BY <1>3 DEF Init, Good, Begins, Grows, Forgotten, ResponseWhole
<1>4. QED BY <1>2, <1>3 DEF IInv

(* Where the server stands after a line of table t. *)
LEMMA AdvanceType ==
    ASSUME TypeOK, NEW t \in Tables, Advance(t)
    PROVE  /\ version' \in [Tables -> Nat \ {0}]
           /\ next' \in [Tables -> Nat \ {0}]
           /\ \A u \in Tables : next'[u] <= Lines(u) /\ version[u] <= version'[u]
           /\ \A u \in Tables \ {t} : next'[u] = next[u] /\ version'[u] = version[u]
           /\ next[t] = Lines(t) => next'[t] = 1 /\ version'[t] = version[t] + 1
           /\ next[t] # Lines(t) => next'[t] = next[t] + 1 /\ version'[t] = version[t]
<1>1. next[t] \in Nat \ {0} /\ next[t] <= Lines(t) /\ Lines(t) \in Nat \ {0}
      /\ version[t] \in Nat \ {0}
    BY TypeOfTable
<1>2. \A u \in Tables : version[u] \in Nat \ {0} /\ next[u] <= Lines(u) /\ Lines(u) \in Nat \ {0}
    BY TypeOfTable
<1>3. version \in [Tables -> Nat \ {0}] /\ next \in [Tables -> Nat \ {0}]
    BY DEF TypeOK
<1>4. CASE next[t] = Lines(t)
    <2>1. /\ version' = [version EXCEPT ![t] = version[t] + 1]
          /\ next' = [next EXCEPT ![t] = 1]
        BY <1>4 DEF Advance
    <2>2. /\ version'[t] = version[t] + 1 /\ next'[t] = 1
          /\ \A u \in Tables \ {t} : next'[u] = next[u] /\ version'[u] = version[u]
        BY <1>3, <2>1
    <2>3. version[t] + 1 \in Nat \ {0} /\ 1 \in Nat \ {0} /\ 1 <= Lines(t)
          /\ version[t] <= version[t] + 1
        BY <1>1
    <2>4. version' \in [Tables -> Nat \ {0}] /\ next' \in [Tables -> Nat \ {0}]
        BY <1>3, <2>1, <2>3
    <2>5. ASSUME NEW u \in Tables
          PROVE  next'[u] <= Lines(u) /\ version[u] <= version'[u]
        BY <1>2, <2>2, <2>3
    <2>6. QED BY <1>4, <2>2, <2>4, <2>5
<1>5. CASE next[t] # Lines(t)
    <2>1. version' = version /\ next' = [next EXCEPT ![t] = next[t] + 1]
        BY <1>5 DEF Advance
    <2>2. /\ version' = version /\ next'[t] = next[t] + 1
          /\ \A u \in Tables \ {t} : next'[u] = next[u]
        BY <1>3, <2>1
    <2>3. next[t] + 1 \in Nat \ {0} /\ next[t] + 1 <= Lines(t)
        BY <1>1, <1>5
    <2>4. next' \in [Tables -> Nat \ {0}]
        BY <1>3, <2>1, <2>3
    <2>5. ASSUME NEW u \in Tables
          PROVE  next'[u] <= Lines(u) /\ version[u] <= version'[u]
        BY <1>2, <2>2, <2>3
    <2>6. QED BY <1>3, <1>5, <2>2, <2>4, <2>5
<1>6. QED BY <1>4, <1>5

(* A table about which nothing changed stays as good as it was. *)
LEMMA UntouchedGood ==
    ASSUME NEW u, Good(u),
           rows'[u] = rows[u], state'[u] = state[u], version'[u] = version[u],
           next'[u] = next[u], faults'[u] = faults[u], announced'[u] = announced[u]
    PROVE  Good(u)'
BY DEF Good, Begins, Grows, Clean, Forgotten, ResponseWhole

(* A line arrives. *)
LEMMA ReceiveIInv ==
    ASSUME IInv, NEW t \in Tables, ReceiveLine(t)
    PROVE  IInv'
<1> DEFINE v == version[t]
           n == next[t]
           row == Row(v, n)
<1>1. /\ rows' = [rows EXCEPT ![t] = Append(RowsBefore(t), row)]
      /\ state' = [state EXCEPT ![t] = StateAfter(t)]
      /\ announced' = IF n = Lines(t)
                      THEN [announced EXCEPT ![t] = [version |-> v, rows |-> rows'[t]]]
                      ELSE announced
      /\ Advance(t) /\ faults' = faults
    BY DEF ReceiveLine
<1>2. TypeOK
    BY DEF IInv
<1>3. /\ v \in Nat \ {0} /\ n \in Nat \ {0} /\ Lines(t) \in Nat \ {0} /\ n <= Lines(t)
      /\ rows[t] \in Seq(Rows) /\ announced[t].version < v /\ announced[t].version \in Nat
    BY <1>2, TypeOfTable
<1>4. RowsBefore(t) \in Seq(Rows) /\ row \in Rows
    BY <1>3, EmptySeq DEF RowsBefore, Row, Rows
<1>5. rows'[t] = Append(RowsBefore(t), row) /\ rows'[t] \in Seq(Rows)
    BY <1>1, <1>2, <1>4, AppendProperties DEF TypeOK
<1>6. TypeOK'
    <2>1. rows' \in [Tables -> Seq(Rows)] /\ state' \in [Tables -> {"COMPLETE", "RECEIVING"}]
        BY <1>1, <1>2, <1>5 DEF TypeOK, StateAfter
    <2>2. announced' \in [Tables -> [version : Nat, rows : Seq(Rows)]]
        BY <1>1, <1>2, <1>3, <1>5 DEF TypeOK
    <2>3. \A u \in Tables : announced'[u].version < version'[u]
        <3>1. TAKE u \in Tables
        <3>2. announced[u].version \in Nat /\ announced[u].version < version[u]
              /\ version[u] \in Nat
            BY <1>2, TypeOfTable
        <3>3. CASE u = t /\ n = Lines(t)
            <4>1. announced'[t].version = v /\ version'[t] = v + 1
                BY <1>1, <1>2, <3>3, AdvanceType DEF TypeOK
            <4>2. QED BY <3>3, <4>1, <1>3
        <3>4. CASE ~(u = t /\ n = Lines(t))
            <4>1. announced'[u] = announced[u]
                BY <1>1, <1>2, <3>4 DEF TypeOK
            <4>2. version[u] <= version'[u] /\ version'[u] \in Nat
                BY <1>1, <1>2, AdvanceType
            <4>3. QED BY <3>2, <4>1, <4>2
        <3>5. QED BY <3>3, <3>4
    <2>4. \A u \in Tables : \A w \in faults'[u] : w <= version'[u]
        <3>1. TAKE u \in Tables
        <3>2. TAKE w \in faults'[u]
        <3>3. w \in Nat /\ w <= version[u] /\ version[u] \in Nat
            BY <1>1, <1>2, <3>2, TypeOfTable
        <3>4. version[u] <= version'[u] /\ version'[u] \in Nat
            BY <1>1, <1>2, AdvanceType
        <3>5. QED BY <3>3, <3>4
    <2>5. QED BY <2>1, <2>2, <2>3, <2>4, <1>1, <1>2, AdvanceType DEF TypeOK
<1>7. Good(t)
    BY DEF IInv
<1>8. Clean(t) => rows'[t] = FirstLines(v, n)
    <2>1. SUFFICES ASSUME Clean(t) PROVE rows'[t] = FirstLines(v, n)
        OBVIOUS
    <2>2. CASE n = 1
        <3>1. state[t] = "COMPLETE"
            BY <2>1, <2>2, <1>7 DEF Good, Begins, Clean
        <3>2. FirstLines(v, 0) = <<>> /\ FirstLines(v, 0) \in Seq(Rows)
            BY <1>3, OneMoreLine DEF FirstLines
        <3>3. Append(FirstLines(v, 0), Row(v, 0 + 1)) = FirstLines(v, 0 + 1)
            BY <1>3, OneMoreLine
        <3>4. RowsBefore(t) = FirstLines(v, 0)
            BY <3>1, <3>2 DEF RowsBefore
        <3>5. 0 + 1 = n
            BY <2>2
        <3>6. QED BY <3>3, <3>4, <3>5, <1>5
    <2>3. CASE n # 1
        <3>1. state[t] = "RECEIVING" /\ rows[t] = FirstLines(v, n - 1)
            BY <2>1, <2>3, <1>3, <1>7 DEF Good, Grows
        <3>2. t \notin Bang
            BY <2>3, <1>3 DEF Lines
        <3>3. n - 1 \in Nat /\ (n - 1) + 1 = n
            BY <1>3
        <3>4. Append(FirstLines(v, n - 1), Row(v, n)) = FirstLines(v, n)
            BY <1>3, <3>3, OneMoreLine
        <3>5. QED BY <3>1, <3>2, <3>4, <1>5 DEF RowsBefore
    <2>4. QED BY <2>2, <2>3
<1>9. t \in Bang => rows'[t] = Whole(t, v)
    <2>1. SUFFICES ASSUME t \in Bang PROVE rows'[t] = Whole(t, v)
        OBVIOUS
    <2>2. n = 1 /\ Lines(t) = 1
        BY <1>3, <2>1 DEF Lines
    <2>3. FirstLines(v, 0) = <<>>
        BY DEF FirstLines
    <2>4. Append(FirstLines(v, 0), Row(v, 0 + 1)) = FirstLines(v, 0 + 1)
        BY <1>3, OneMoreLine
    <2>5. RowsBefore(t) = FirstLines(v, 0)
        BY <2>1, <2>3 DEF RowsBefore
    <2>6. 0 + 1 = n /\ n = Lines(t)
        BY <2>2
    <2>7. QED BY <2>4, <2>5, <2>6, <1>5 DEF Whole
<1>10. Good(t)'
    <2>1. CASE n = Lines(t)
        <3>1. /\ announced'[t] = [version |-> v, rows |-> rows'[t]]
              /\ next'[t] = 1 /\ version'[t] = v + 1 /\ state'[t] = "COMPLETE"
              /\ faults'[t] = faults[t]
            BY <1>1, <1>2, <2>1, AdvanceType DEF TypeOK, StateAfter
        <3>2. Begins(t)' /\ Grows(t)'
            BY <3>1 DEF Begins, Grows
        <3>3. Forgotten(t)'
            BY <3>1, <2>1, <1>8 DEF Forgotten, Clean, Whole
        <3>4. ResponseWhole(t)'
            BY <3>1, <1>9 DEF ResponseWhole, Whole, Lines
        <3>5. QED BY <3>2, <3>3, <3>4 DEF Good
    <2>2. CASE n # Lines(t)
        <3>1. /\ announced'[t] = announced[t]
              /\ next'[t] = n + 1 /\ version'[t] = v /\ state'[t] = "RECEIVING"
              /\ faults'[t] = faults[t]
            BY <1>1, <1>2, <2>2, AdvanceType DEF TypeOK, StateAfter
        <3>2. Begins(t)'
            BY <3>1, <1>3 DEF Begins
        <3>3. Grows(t)'
            BY <3>1, <1>3, <1>8 DEF Grows, Clean
        <3>4. Forgotten(t)' /\ ResponseWhole(t)'
            BY <3>1, <1>7 DEF Good, Forgotten, ResponseWhole, Whole, Lines
        <3>5. QED BY <3>2, <3>3, <3>4 DEF Good
    <2>3. QED BY <2>1, <2>2
<1>11. ASSUME NEW u \in Tables, u # t PROVE Good(u)'
    <2>1. /\ rows'[u] = rows[u] /\ state'[u] = state[u] /\ announced'[u] = announced[u]
          /\ faults'[u] = faults[u]
        BY <1>1, <1>2, <1>11 DEF TypeOK
    <2>2. version'[u] = version[u] /\ next'[u] = next[u]
        BY <1>1, <1>2, <1>11, AdvanceType
    <2>3. QED BY <2>1, <2>2, UntouchedGood DEF IInv
<1>12. QED BY <1>6, <1>10, <1>11 DEF IInv

(* Somebody else changes a table. *)
LEMMA DisturbIInv ==
    ASSUME IInv, NEW t \in Tables, NEW r \in Seq(Rows),
           rows' = [rows EXCEPT ![t] = r], Hit(t),
           UNCHANGED <<state, server, announced>>
    PROVE  IInv'
<1>1. TypeOK /\ version' = version /\ next' = next /\ state' = state /\ announced' = announced
    BY DEF IInv, server
<1>2. /\ version[t] \in Nat \ {0} /\ next[t] \in Nat \ {0} /\ faults[t] \subseteq Nat
      /\ announced[t].version \in Nat /\ announced[t].version < version[t]
    BY <1>1, TypeOfTable
<1>3. /\ faults' \in [Tables -> SUBSET Nat]
      /\ \A u \in Tables \ {t} : faults'[u] = faults[u]
      /\ next[t] = 1 => faults'[t] = faults[t]
      /\ next[t] # 1 => faults'[t] = faults[t] \cup {version[t]}
    BY <1>1, <1>2 DEF Hit, TypeOK
<1>4. /\ rows' \in [Tables -> Seq(Rows)]
      /\ \A u \in Tables \ {t} : rows'[u] = rows[u]
    BY <1>1 DEF TypeOK
<1>5. \A u \in Tables : \A w \in faults'[u] : w <= version'[u]
    <2>1. TAKE u \in Tables
    <2>2. TAKE w \in faults'[u]
    <2>3. \A x \in faults[u] : x <= version[u]
        BY <1>1, TypeOfTable
    <2>4. QED BY <1>1, <1>2, <1>3, <2>2, <2>3
<1>6. TypeOK'
    BY <1>1, <1>3, <1>4, <1>5 DEF TypeOK, Lines
<1>7. Good(t)
    BY DEF IInv
<1>8. Good(t)'
    <2>1. CASE next[t] = 1
        BY <1>1, <1>3, <1>7, <2>1
        DEF Good, Begins, Grows, Clean, Forgotten, ResponseWhole, Whole, Lines
    <2>2. CASE next[t] # 1
        <3>1. Begins(t)' /\ Grows(t)'
            BY <1>1, <1>3, <2>2 DEF Begins, Grows, Clean
        <3>2. Forgotten(t)' /\ ResponseWhole(t)'
            BY <1>1, <1>3, <1>7, <2>2 DEF Good, Forgotten, ResponseWhole, Whole, Lines
        <3>3. QED BY <3>1, <3>2 DEF Good
    <2>3. QED BY <2>1, <2>2
<1>9. ASSUME NEW u \in Tables, u # t PROVE Good(u)'
    BY <1>1, <1>3, <1>4, <1>9, UntouchedGood DEF IInv
<1>10. QED BY <1>6, <1>8, <1>9 DEF IInv

(* A line is lost. *)
LEMMA LoseIInv ==
    ASSUME IInv, NEW t \in Tables, LoseLine(t)
    PROVE  IInv'
<1>1. /\ TypeOK /\ Advance(t) /\ rows' = rows /\ state' = state /\ announced' = announced
      /\ faults' = [faults EXCEPT ![t] = faults[t] \cup {version[t]}]
    BY DEF IInv, LoseLine
<1>2. /\ version[t] \in Nat \ {0} /\ next[t] \in Nat \ {0} /\ faults[t] \subseteq Nat
      /\ announced[t].version \in Nat /\ announced[t].version < version[t]
    BY <1>1, TypeOfTable
<1>3. /\ faults' \in [Tables -> SUBSET Nat]
      /\ faults'[t] = faults[t] \cup {version[t]}
      /\ \A u \in Tables \ {t} : faults'[u] = faults[u]
    BY <1>1, <1>2 DEF TypeOK
<1>4. /\ version' \in [Tables -> Nat \ {0}] /\ next' \in [Tables -> Nat \ {0}]
      /\ \A u \in Tables : next'[u] <= Lines(u) /\ version[u] <= version'[u]
      /\ \A u \in Tables \ {t} : next'[u] = next[u] /\ version'[u] = version[u]
    BY <1>1, AdvanceType
<1>5. ASSUME NEW u \in Tables
      PROVE  /\ announced'[u].version < version'[u]
             /\ \A w \in faults'[u] : w <= version'[u]
    <2>1. /\ announced[u].version \in Nat /\ announced[u].version < version[u]
          /\ version[u] \in Nat /\ version'[u] \in Nat /\ version[u] <= version'[u]
          /\ faults[u] \subseteq Nat /\ \A w \in faults[u] : w <= version[u]
        BY <1>1, <1>4, TypeOfTable
    <2>2. \A w \in faults'[u] : w \in Nat /\ w <= version[u]
        BY <1>2, <1>3, <2>1
    <2>3. QED BY <1>1, <2>1, <2>2
<1>6. TypeOK'
    BY <1>1, <1>3, <1>4, <1>5 DEF TypeOK, Lines
<1>7. Good(t)
    BY DEF IInv
<1>8. Good(t)'
    <2>1. CASE next[t] = Lines(t)
        <3>1. next'[t] = 1 /\ version'[t] = version[t] + 1 /\ version'[t] - 1 = version[t]
            BY <1>1, <1>2, <2>1, AdvanceType
        <3>2. Begins(t)' /\ Grows(t)'
            BY <1>3, <3>1 DEF Begins, Grows
        <3>3. Forgotten(t)' /\ ResponseWhole(t)'
            BY <1>1, <1>3, <1>7 DEF Good, Forgotten, ResponseWhole, Whole, Lines
        <3>4. QED BY <3>2, <3>3 DEF Good
    <2>2. CASE next[t] # Lines(t)
        <3>1. next'[t] = next[t] + 1 /\ version'[t] = version[t]
            BY <1>1, <2>2, AdvanceType
        <3>2. Begins(t)' /\ Grows(t)'
            BY <1>2, <1>3, <3>1 DEF Begins, Grows, Clean
        <3>3. Forgotten(t)' /\ ResponseWhole(t)'
            BY <1>1, <1>3, <1>7 DEF Good, Forgotten, ResponseWhole, Whole, Lines
        <3>4. QED BY <3>2, <3>3 DEF Good
    <2>3. QED BY <2>1, <2>2
<1>9. ASSUME NEW u \in Tables, u # t PROVE Good(u)'
    BY <1>1, <1>3, <1>4, <1>9, UntouchedGood DEF IInv
<1>10. QED BY <1>6, <1>8, <1>9 DEF IInv

(* The connection breaks: every transmission that is under way is hit. *)
LEMMA ReconnectIInv ==
    ASSUME IInv, Reconnect
    PROVE  IInv'
<1> DEFINE cut == {t \in Tables : next[t] > 1}
<1>1. TypeOK /\ rows' = rows /\ state' = state /\ announced' = announced
    BY DEF IInv, Reconnect
<1>2. /\ version' = [t \in Tables |-> IF t \in cut THEN version[t] + 1 ELSE version[t]]
      /\ next' = [t \in Tables |-> 1]
      /\ faults' = [t \in Tables |-> IF t \in cut THEN faults[t] \cup {version[t]} ELSE faults[t]]
    BY DEF Reconnect
<1>3. ASSUME NEW t \in Tables
      PROVE  /\ version'[t] \in Nat \ {0} /\ next'[t] = 1 /\ 1 <= Lines(t)
             /\ faults'[t] \subseteq Nat /\ \A w \in faults'[t] : w <= version'[t]
             /\ announced'[t].version < version'[t]
             /\ Good(t)'
    <2>1. /\ version[t] \in Nat \ {0} /\ next[t] \in Nat \ {0} /\ faults[t] \subseteq Nat
          /\ announced[t].version \in Nat /\ announced[t].version < version[t]
          /\ Lines(t) \in Nat \ {0} /\ \A w \in faults[t] : w <= version[t]
        BY <1>1, TypeOfTable
    <2>2. Good(t)
        BY DEF IInv
    <2>3. CASE next[t] > 1
        <3>1. /\ version'[t] = version[t] + 1 /\ version'[t] - 1 = version[t] /\ next'[t] = 1
              /\ faults'[t] = faults[t] \cup {version[t]}
            BY <1>2, <2>1, <2>3
        <3>2. Begins(t)' /\ Grows(t)'
            BY <3>1 DEF Begins, Grows
        <3>3. Forgotten(t)' /\ ResponseWhole(t)'
            BY <1>1, <2>2, <3>1 DEF Good, Forgotten, ResponseWhole, Whole, Lines
        <3>4. \A w \in faults'[t] : w <= version'[t]
            BY <2>1, <3>1
        <3>5. QED BY <1>1, <2>1, <3>1, <3>2, <3>3, <3>4 DEF Good
    <2>4. CASE ~(next[t] > 1)
        <3>1. version'[t] = version[t] /\ next[t] = 1 /\ next'[t] = 1 /\ faults'[t] = faults[t]
            BY <1>2, <2>1, <2>4
        <3>2. Good(t)'
            BY <1>1, <2>2, <3>1, UntouchedGood
        <3>3. QED BY <1>1, <2>1, <3>1, <3>2
    <2>5. QED BY <2>3, <2>4
<1>4. TypeOK'
    BY <1>1, <1>2, <1>3 DEF TypeOK, Lines
<1>5. QED BY <1>3, <1>4 DEF IInv

(* Every step keeps the invariant. *)
LEMMA NextIInv == IInv /\ [Next]_vars => IInv'
<1> SUFFICES ASSUME IInv, [Next]_vars PROVE IInv'
    OBVIOUS
<1>1. \A t \in Tables : rows[t] \in Seq(Rows)
    BY DEF IInv, TypeOK
<1>2. <<>> \in Seq(Rows) /\ Foreign \in Rows
    BY EmptySeq DEF Rows
<1>3. ASSUME NEW t \in Tables, ReceiveLine(t) PROVE IInv'
    BY <1>3, ReceiveIInv
<1>4. ASSUME NEW t \in Tables, LoseLine(t) PROVE IInv'
    BY <1>4, LoseIInv
<1>5. ASSUME NEW t \in Tables, ClearTable(t) PROVE IInv'
    BY <1>2, <1>5, DisturbIInv DEF ClearTable
<1>6. ASSUME NEW t \in Tables, AddRow(t) PROVE IInv'
    <2>1. Append(rows[t], Foreign) \in Seq(Rows)
        BY <1>1, <1>2, AppendProperties
    <2>2. rows' = [rows EXCEPT ![t] = Append(rows[t], Foreign)]
        BY <1>6 DEF AddRow
    <2>3. QED BY <1>6, <2>1, <2>2, DisturbIInv DEF AddRow
<1>7. ASSUME NEW src \in Tables, NEW dst \in Tables, CopyTable(src, dst) PROVE IInv'
    <2> DEFINE r == IF src = dst THEN <<>> ELSE rows[src]
    <2>1. r \in Seq(Rows)
        BY <1>1, <1>2
    <2>2. rows' = [rows EXCEPT ![dst] = r] /\ Hit(dst) /\ UNCHANGED <<state, server, announced>>
        BY <1>7 DEF CopyTable
    <2> HIDE DEF r
    <2>3. QED BY <2>1, <2>2, DisturbIInv
<1>8. CASE Reconnect
    BY <1>8, ReconnectIInv
<1>9. CASE UNCHANGED vars
    BY <1>9, UntouchedGood DEF IInv, vars, server, TypeOK, Lines
<1>10. QED BY <1>3, <1>4, <1>5, <1>6, <1>7, <1>8, <1>9 DEF Next

(* The invariant holds in every reachable state. *)
THEOREM Invariance == Spec => []IInv
BY InitIInv, NextIInv, PTL DEF Spec

(* Type correctness. *)
THEOREM TypeCorrect == Spec => []TypeOK
<1>1. IInv => TypeOK
    BY DEF IInv
<1>2. QED BY <1>1, Invariance, PTL

(* However many lines are lost and however often the connection breaks: a   *)
(* table whose last two transmissions no fault hit is announced whole.      *)
THEOREM FaultsForgotten == Spec => []FaultsAreForgotten
<1>1. IInv => FaultsAreForgotten
    BY DEF IInv, Good, Forgotten, FaultsAreForgotten
<1>2. QED BY <1>1, Invariance, PTL

(* A response is announced whole, whatever happened before (process_line     *)
(* clears its table first).                                                 *)
THEOREM ResponsesWhole == Spec => []ResponsesAreWhole
<1>1. IInv => ResponsesAreWhole
    BY ConstantAssumption DEF IInv, Good, ResponseWhole, ResponsesAreWhole
<1>2. QED BY <1>1, Invariance, PTL

-----------------------------------------------------------------------------
(* What a step does to the credit of a table it is about. *)
LEMMA CreditOf ==
    ASSUME TypeOK, NEW t \in Tables
    PROVE  /\ Credit(t) = 0 <=> Clean(t)
           /\ version[t] \in faults[t] <=> Credit(t) = 2
           /\ Credit(t) \in {0, 1, 2}
BY TypeOfTable DEF Credit, Clean

(* The announcement of a table whose credit is used up shows it whole. *)
LEMMA ReceiveImplements ==
    ASSUME IInv, NEW t \in Tables, ReceiveLine(t)
    PROVE  [Abstract!Next]_(Abstract!vars)
<1> DEFINE v == version[t]
           n == next[t]
<1>1. TypeOK /\ TypeOK'
    BY ReceiveIInv DEF IInv
<1>2. /\ announced' = IF n = Lines(t)
                      THEN [announced EXCEPT ![t] = [version |-> v, rows |-> rows'[t]]]
                      ELSE announced
      /\ Advance(t) /\ faults' = faults
    BY DEF ReceiveLine
<1>3. v \in Nat \ {0} /\ n \in Nat \ {0} /\ \A w \in faults[t] : w \in Nat /\ w <= v
    BY <1>1, TypeOfTable
<1>4. CASE n # Lines(t)
    <2>1. version' = version /\ announced' = announced
        BY <1>2, <1>4 DEF Advance
    <2>2. \A u \in Tables : Credit(u)' = Credit(u)
        BY <1>2, <2>1 DEF Credit
    <2>3. QED BY <2>1, <2>2 DEF Abstract!vars
<1>5. CASE n = Lines(t)
    <2>1. /\ version' = [version EXCEPT ![t] = version[t] + 1]
          /\ announced' = [announced EXCEPT ![t] = [version |-> v, rows |-> rows'[t]]]
        BY <1>2, <1>5 DEF Advance
    <2>2. announced'[t].rows = rows'[t] /\ version'[t] = v + 1 /\ announced'[t].version = v
        BY <1>1, <2>1 DEF TypeOK
    <2>3. announced' = [announced EXCEPT ![t] = [version |-> version[t], rows |-> announced'[t].rows]]
        BY <2>1, <2>2
    <2>4. Credit(t) = 0 => announced'[t].rows = Whole(t, v)
        <3>1. SUFFICES ASSUME Credit(t) = 0 PROVE announced'[t].rows = Whole(t, v)
            OBVIOUS
        <3>2. {v - 1, v} \cap faults[t] = {}
            BY <1>1, <3>1, CreditOf DEF Clean
        <3>3. Forgotten(t)'
            BY ReceiveIInv DEF IInv, Good
        <3>4. {announced'[t].version - 1, announced'[t].version} \cap faults'[t] = {}
              /\ announced'[t].version > 0
            BY <1>2, <1>3, <2>2, <3>2
        <3>5. QED BY <2>2, <3>3, <3>4 DEF Forgotten, Whole, Lines
    <2>5. Credit(t)' = IF Credit(t) = 0 THEN 0 ELSE Credit(t) - 1
        BY <1>2, <1>3, <2>2 DEF Credit
    <2>6. \A u \in Tables \ {t} : Credit(u)' = Credit(u)
        BY <1>1, <1>2, <2>1 DEF Credit, TypeOK
    <2>7. [u \in Tables |-> Credit(u)]' =
            [[u \in Tables |-> Credit(u)] EXCEPT ![t] = IF @ = 0 THEN 0 ELSE @ - 1]
        BY <2>5, <2>6
    <2>8. Abstract!Announce(t)
        BY <2>1, <2>3, <2>4, <2>7 DEF Abstract!Announce
    <2>9. QED BY <2>8 DEF Abstract!Next
<1>6. QED BY <1>4, <1>5

(* A lost line is a fault; a lost last line cuts the transmission off. *)
LEMMA LoseImplements ==
    ASSUME IInv, NEW t \in Tables, LoseLine(t)
    PROVE  Abstract!Next
<1>1. /\ TypeOK /\ Advance(t) /\ announced' = announced
      /\ faults' = [faults EXCEPT ![t] = faults[t] \cup {version[t]}]
    BY DEF IInv, LoseLine
<1>2. /\ version[t] \in Nat \ {0} /\ \A w \in faults[t] : w \in Nat /\ w <= version[t]
      /\ faults'[t] = faults[t] \cup {version[t]}
    BY <1>1, TypeOfTable DEF TypeOK
<1>3. \A u \in Tables \ {t} : faults'[u] = faults[u]
    BY <1>1 DEF TypeOK
<1>4. CASE next[t] = Lines(t)
    <2>1. version' = [version EXCEPT ![t] = version[t] + 1]
        BY <1>1, <1>4 DEF Advance
    <2>2. version'[t] = version[t] + 1 /\ \A u \in Tables \ {t} : version'[u] = version[u]
        BY <1>1, <2>1 DEF TypeOK
    <2>3. Credit(t)' = 1 /\ \A u \in Tables \ {t} : Credit(u)' = Credit(u)
        BY <1>2, <1>3, <2>2 DEF Credit
    <2>4. version' = [u \in Tables |-> IF u \in {t} THEN version[u] + 1 ELSE version[u]]
        BY <1>1, <2>1, <2>2 DEF TypeOK
    <2>5. [u \in Tables |-> Credit(u)]' =
            [u \in Tables |-> IF u \in {t} THEN 1 ELSE [w \in Tables |-> Credit(w)][u]]
        BY <2>3
    <2>6. Abstract!CutOff({t})
        BY <1>1, <2>4, <2>5 DEF Abstract!CutOff
    <2>7. QED BY <2>6 DEF Abstract!Next
<1>5. CASE next[t] # Lines(t)
    <2>1. version' = version
        BY <1>1, <1>5 DEF Advance
    <2>2. Credit(t)' = 2 /\ \A u \in Tables \ {t} : Credit(u)' = Credit(u)
        BY <1>2, <1>3, <2>1 DEF Credit
    <2>3. [u \in Tables |-> Credit(u)]' = [[u \in Tables |-> Credit(u)] EXCEPT ![t] = 2]
        BY <2>2
    <2>4. Abstract!Fault(t)
        BY <1>1, <2>1, <2>3 DEF Abstract!Fault
    <2>5. QED BY <2>4 DEF Abstract!Next
<1>6. QED BY <1>4, <1>5

(* Rows that somebody else changes are a fault while a transmission is under way. *)
LEMMA HitImplements ==
    ASSUME IInv, NEW t \in Tables, Hit(t), UNCHANGED <<state, server, announced>>
    PROVE  [Abstract!Next]_(Abstract!vars)
<1>1. TypeOK /\ version' = version /\ next' = next /\ announced' = announced
    BY DEF IInv, server
<1>2. CASE next[t] = 1
    <2>1. faults' = faults
        BY <1>2 DEF Hit
    <2>2. \A u \in Tables : Credit(u)' = Credit(u)
        BY <1>1, <2>1 DEF Credit
    <2>3. QED BY <1>1, <2>2 DEF Abstract!vars
<1>3. CASE next[t] # 1
    <2>1. faults' = [faults EXCEPT ![t] = faults[t] \cup {version[t]}]
        BY <1>3 DEF Hit
    <2>2. Credit(t)' = 2 /\ \A u \in Tables \ {t} : Credit(u)' = Credit(u)
        BY <1>1, <2>1 DEF Credit, TypeOK
    <2>3. [u \in Tables |-> Credit(u)]' = [[u \in Tables |-> Credit(u)] EXCEPT ![t] = 2]
        BY <2>2
    <2>4. Abstract!Fault(t)
        BY <1>1, <2>3 DEF Abstract!Fault
    <2>5. QED BY <2>4 DEF Abstract!Next
<1>4. QED BY <1>2, <1>3

(* A broken connection cuts off what is under way. *)
LEMMA ReconnectImplements ==
    ASSUME IInv, Reconnect
    PROVE  Abstract!Next
<1> DEFINE cut == {t \in Tables : next[t] > 1}
<1>1. TypeOK /\ announced' = announced
    BY DEF IInv, Reconnect
<1>2. /\ version' = [t \in Tables |-> IF t \in cut THEN version[t] + 1 ELSE version[t]]
      /\ faults' = [t \in Tables |-> IF t \in cut THEN faults[t] \cup {version[t]} ELSE faults[t]]
    BY DEF Reconnect
<1>3. ASSUME NEW u \in Tables
      PROVE  Credit(u)' = IF u \in cut THEN 1 ELSE Credit(u)
    <2>1. version[u] \in Nat \ {0} /\ \A w \in faults[u] : w \in Nat /\ w <= version[u]
        BY <1>1, TypeOfTable
    <2>2. CASE u \in cut
        <3>1. version'[u] = version[u] + 1 /\ faults'[u] = faults[u] \cup {version[u]}
            BY <1>2, <2>2
        <3>2. QED BY <2>1, <2>2, <3>1 DEF Credit
    <2>3. CASE u \notin cut
        <3>1. version'[u] = version[u] /\ faults'[u] = faults[u]
            BY <1>2, <2>3
        <3>2. QED BY <2>3, <3>1 DEF Credit
    <2>4. QED BY <2>2, <2>3
<1>4. [u \in Tables |-> Credit(u)]' =
        [u \in Tables |-> IF u \in cut THEN 1 ELSE [w \in Tables |-> Credit(w)][u]]
    BY <1>3
<1>5. Abstract!CutOff(cut) /\ cut \in SUBSET Tables
    BY <1>1, <1>2, <1>4 DEF Abstract!CutOff
<1>6. QED BY <1>5 DEF Abstract!Next

(* The tables, as lines and faults make them, announce what TableSpec        *)
(* promises: after a fault at most two announcements that are not whole.    *)
THEOREM FeedImplementsTableSpec == Spec => ImplementsTableSpec
<1>1. Init => Abstract!Init
    BY DEF Init, Abstract!Init, Credit
<1>2. IInv /\ [Next]_vars => [Abstract!Next]_(Abstract!vars)
    <2> SUFFICES ASSUME IInv, [Next]_vars PROVE [Abstract!Next]_(Abstract!vars)
        OBVIOUS
    <2>1. ASSUME NEW t \in Tables, ReceiveLine(t) PROVE [Abstract!Next]_(Abstract!vars)
        BY <2>1, ReceiveImplements
    <2>2. ASSUME NEW t \in Tables, LoseLine(t) PROVE [Abstract!Next]_(Abstract!vars)
        BY <2>2, LoseImplements
    <2>3. ASSUME NEW t \in Tables, ClearTable(t) \/ AddRow(t)
          PROVE  [Abstract!Next]_(Abstract!vars)
        BY <2>3, HitImplements DEF ClearTable, AddRow
    <2>4. ASSUME NEW src \in Tables, NEW dst \in Tables, CopyTable(src, dst)
          PROVE  [Abstract!Next]_(Abstract!vars)
        BY <2>4, HitImplements DEF CopyTable
    <2>5. CASE Reconnect
        BY <2>5, ReconnectImplements
    <2>6. CASE UNCHANGED vars
        BY <2>6 DEF vars, server, Abstract!vars, Credit
    <2>7. QED BY <2>1, <2>2, <2>3, <2>4, <2>5, <2>6 DEF Next
<1>3. QED BY <1>1, <1>2, Invariance, PTL DEF Spec, ImplementsTableSpec, Abstract!Spec

=============================================================================
