----------------------------- MODULE TextProofs -----------------------------
(***************************************************************************)
(* Proofs about the two parts of the program that handle texts character by *)
(* character: the framing of lines, for every list of lines, every way to   *)
(* cut their bytes into chunks and any number of broken connections, and    *)
(* the interpreter of expressions, for every configuration, all tables and  *)
(* every size of an int and of the pool.                                    *)
(***************************************************************************)
EXTENDS LineReader, Expressions, FiniteSetTheorems, FunctionTheorems, SequenceTheorems, TLAPS

-----------------------------------------------------------------------------
(* Induction, from the pigeonhole principle *)

LEMMA Induction ==
    ASSUME NEW S, 0 \in S, \A n \in Nat : n \in S => n + 1 \in S
    PROVE  Nat \subseteq S
<1> SUFFICES ASSUME NEW n \in Nat, n \notin S PROVE FALSE
    OBVIOUS
<1> DEFINE A == S \cap (0..n)
           next == [k \in A |-> k + 1]
<1>1. IsFiniteSet(A)
    <2>1. IsFiniteSet(0..n)
        BY FS_Interval
    <2>2. A \in SUBSET (0..n)
        OBVIOUS
    <2>3. QED BY <2>1, <2>2, FS_Subset
<1>2. next \in Injection(A, A \ {0})
    <2>1. next \in [A -> A \ {0}]
        OBVIOUS
    <2>2. \A j, k \in A : next[j] = next[k] => j = k
        OBVIOUS
    <2>3. QED BY <2>1, <2>2 DEF Injection, IsInjective
<1>3. /\ IsFiniteSet(A \ {0})
      /\ Cardinality(A \ {0}) = Cardinality(A) - 1
    <2>1. 0 \in A
        OBVIOUS
    <2> HIDE DEF A
    <2>2. QED BY <1>1, <2>1, FS_RemoveElement
<1>4. Cardinality(A) <= Cardinality(A \ {0})
    BY <1>2, <1>3, FS_Injection
<1>5. Cardinality(A) \in Nat
    BY <1>1, FS_CardinalityType
<1>6. QED BY <1>3, <1>4, <1>5

LEMMA LeastElement ==
    ASSUME NEW T \in SUBSET Nat, T # {}
    PROVE  \E m \in T : \A k \in T : m <= k
<1> SUFFICES ASSUME \A m \in T : \E k \in T : k < m PROVE FALSE
    OBVIOUS
<1> DEFINE S == {n \in Nat : \A k \in T : k > n}
<1>1. 0 \in S
    OBVIOUS
<1>2. \A n \in Nat : n \in S => n + 1 \in S
    OBVIOUS
<1>3. Nat \subseteq S
    BY <1>1, <1>2, Induction
<1>4. PICK t \in T : TRUE
    OBVIOUS
<1>5. t > t
    BY <1>3, <1>4
<1>6. QED BY <1>4, <1>5

-----------------------------------------------------------------------------
(* Parts of sequences *)

LEMMA SubSeqBytes ==
    ASSUME NEW B, NEW s \in Seq(B), NEW m \in Nat \ {0}, NEW n \in Nat,
           n <= Len(s), m <= n + 1
    PROVE  /\ SubSeq(s, m, n) \in Seq(B)
           /\ Len(SubSeq(s, m, n)) = n + 1 - m
           /\ \A k \in 1..(n + 1 - m) : SubSeq(s, m, n)[k] = s[m + k - 1]
OBVIOUS

LEMMA BytesOf ==
    ASSUME NEW A, NEW B, NEW s \in Seq(A), \A k \in 1..Len(s) : s[k] \in B
    PROVE  s \in Seq(B)
OBVIOUS

LEMMA SuffixBytes ==
    ASSUME NEW B, NEW s \in Seq(B), NEW p \in 0..Len(s)
    PROVE  /\ SubSeq(s, p + 1, Len(s)) \in Seq(B)
           /\ Len(SubSeq(s, p + 1, Len(s))) = Len(s) - p
           /\ \A k \in 1..(Len(s) - p) : SubSeq(s, p + 1, Len(s))[k] = s[p + k]
OBVIOUS

LEMMA PrefixBytes ==
    ASSUME NEW B, NEW s \in Seq(B), NEW n \in 0..Len(s)
    PROVE  /\ SubSeq(s, 1, n) \in Seq(B)
           /\ Len(SubSeq(s, 1, n)) = n
           /\ \A k \in 1..n : SubSeq(s, 1, n)[k] = s[k]
OBVIOUS

LEMMA FrontBytes ==
    ASSUME NEW B, NEW s \in Seq(B), s # <<>>
    PROVE  /\ Front(s) \in Seq(B)
           /\ Len(Front(s)) = Len(s) - 1
           /\ \A k \in 1..(Len(s) - 1) : Front(s)[k] = s[k]
<1>1. PICK n \in Nat : n = Len(s) - 1 /\ n <= Len(s)
    <2>1. Len(s) \in Nat /\ Len(s) # 0
        OBVIOUS
    <2>2. Len(s) - 1 \in Nat /\ Len(s) - 1 <= Len(s)
        BY <2>1
    <2>3. QED BY <2>2
<1>2. /\ SubSeq(s, 1, n) \in Seq(B)
      /\ Len(SubSeq(s, 1, n)) = n
      /\ \A k \in 1..n : SubSeq(s, 1, n)[k] = s[k]
    BY <1>1
<1>3. QED BY <1>1, <1>2 DEF Front

LEMMA ElementOf ==
    ASSUME NEW B, NEW s \in Seq(B), NEW k \in DOMAIN s
    PROVE  s[k] \in B
OBVIOUS

LEMMA TwoElements ==
    ASSUME NEW B, NEW s \in Seq(B), Len(s) >= 2
    PROVE  s # <<>> /\ Tail(s) # <<>> /\ Head(s) = s[1] /\ Head(Tail(s)) = s[2]
<1>1. Tail(s) \in Seq(B) /\ Len(Tail(s)) = Len(s) - 1 /\ s # <<>>
    OBVIOUS
<1>2. Tail(s) # <<>>
    <2>1. \A n \in Nat : n >= 2 => n - 1 # 0
        OBVIOUS
    <2>2. Len(Tail(s)) # 0 /\ Len(<<>>) = 0
        BY <1>1, <2>1
    <2>3. SUFFICES ASSUME Tail(s) = <<>> PROVE FALSE
        OBVIOUS
    <2>4. Len(Tail(s)) = Len(<<>>)
        BY <2>3, Zenon
    <2>5. QED BY <2>2, <2>4
<1>3. QED BY <1>1, <1>2

-----------------------------------------------------------------------------
(* memchr finds the first such byte. *)
LEMMA MemchrFinds ==
    ASSUME NEW B, NEW s \in Seq(B), NEW byte
    PROVE  /\ Memchr(s, byte) \in 0..Len(s)
           /\ Memchr(s, byte) = 0 => \A k \in 1..Len(s) : s[k] # byte
           /\ Memchr(s, byte) > 0 =>
                /\ s[Memchr(s, byte)] = byte
                /\ \A k \in 1..(Memchr(s, byte) - 1) : s[k] # byte
<1> DEFINE I == {i \in 1..Len(s) : s[i] = byte}
<1>1. Len(s) \in Nat /\ I \in SUBSET Nat
    OBVIOUS
<1>2. CASE I = {}
    BY <1>2 DEF Memchr, SelectInSeq
<1>3. CASE I # {}
    <2>1. Memchr(s, byte) = Min(I)
        BY <1>3 DEF Memchr, SelectInSeq
    <2>2. \E m \in I : \A k \in I : m <= k
        BY <1>1, <1>3, LeastElement
    <2>3. Min(I) \in I /\ \A k \in I : Min(I) <= k
        BY <2>2 DEF Min
    <2>4. /\ Memchr(s, byte) \in 1..Len(s)
          /\ s[Memchr(s, byte)] = byte
        BY <2>1, <2>3
    <2>5. ASSUME NEW k \in 1..(Memchr(s, byte) - 1), s[k] = byte PROVE FALSE
        <3>1. k \in I
            BY <1>1, <2>4, <2>5
        <3>2. Memchr(s, byte) <= k
            BY <2>1, <2>3, <3>1
        <3>3. QED BY <1>1, <2>4, <3>2
    <2>6. QED BY <1>1, <2>4, <2>5
<1>4. QED BY <1>2, <1>3

-----------------------------------------------------------------------------
(* The stream *)

Lines == Len(Bodies)
Byte == {Stx, Etx, Nul, Outside} \cup DOMAIN Bodies

(* Bytes of lines, and bytes of lines that were glued together. *)
LineByte == {Stx} \cup DOMAIN Bodies

(* The number of bytes up to the end of line i. *)
End(i) == Len(Sent[i])

LEMMA LinesType == Lines \in Nat /\ DOMAIN Bodies = 1..Lines
BY BodiesAssumption DEF Lines

(* There is a function that satisfies the recursion of Sent. *)
LEMMA SentDefined ==
    /\ Sent[0] = <<>>
    /\ \A i \in 1..Lines : Sent[i] = Sent[i - 1] \o <<Stx>> \o Bodies[i] \o <<Etx>>
<1> DEFINE Next1(s, i) == s \o <<Stx>> \o Bodies[i] \o <<Etx>>
           Is(g, n) == g = [i \in 0..n |-> IF i = 0 THEN <<>> ELSE Next1(g[i - 1], i)]
           S == {n \in Nat : \E g : Is(g, n)}
<1> HIDE DEF Next1
<1>1. 0 \in S
    <2>1. Is([i \in 0..0 |-> <<>>], 0)
        OBVIOUS
    <2>2. QED BY <2>1
<1>2. \A n \in Nat : n \in S => n + 1 \in S
    <2> SUFFICES ASSUME NEW n \in Nat, n \in S PROVE n + 1 \in S
        OBVIOUS
    <2>1. PICK g : Is(g, n)
        OBVIOUS
    <2> DEFINE h == [i \in 0..(n + 1) |-> IF i = n + 1 THEN Next1(g[n], n + 1) ELSE g[i]]
    <2>2. \A i \in 0..(n + 1) : h[i] = IF i = 0 THEN <<>> ELSE Next1(h[i - 1], i)
        BY <2>1
    <2>3. Is(h, n + 1)
        BY <2>2
    <2> HIDE DEF h, Is
    <2>4. \E f : Is(f, n + 1)
        BY <2>3
    <2>5. QED BY <2>4
<1>3. Lines \in S
    BY <1>1, <1>2, Induction, LinesType
<1>4. PICK g : Is(g, Lines)
    BY <1>3
<1>5. Sent = CHOOSE f : Is(f, Lines)
    BY DEF Sent, Lines, Next1
<1>6. Is(Sent, Lines)
    BY <1>4, <1>5
<1>7. Sent[0] = <<>> /\ \A i \in 1..Lines : Sent[i] = Next1(Sent[i - 1], i)
    <2>1. \A i \in 1..Lines : i \in 0..Lines /\ i # 0
        BY LinesType
    <2>2. 0 \in 0..Lines
        BY LinesType
    <2>3. QED BY <1>6, <2>1, <2>2
<1>8. QED BY <1>7 DEF Next1

LEMMA SentStep ==
    ASSUME NEW i \in 1..Lines, Sent[i - 1] \in Seq(Byte)
    PROVE  /\ Sent[i] \in Seq(Byte)
           /\ End(i) = End(i - 1) + Len(Bodies[i]) + 2
           /\ \A k \in 1..End(i) :
                 Sent[i][k] = IF k <= End(i - 1) THEN Sent[i - 1][k]
                              ELSE IF k = End(i - 1) + 1 THEN Stx
                              ELSE IF k = End(i) THEN Etx
                              ELSE i
<1>1. /\ Bodies[i] \in Seq(Byte)
      /\ Len(Bodies[i]) \in Nat
      /\ \A k \in 1..Len(Bodies[i]) : Bodies[i][k] = i
    <2>1. i \in DOMAIN Bodies /\ Bodies[i] \in Seq(Nat)
        BY LinesType, BodiesAssumption
    <2>2. \A k \in 1..Len(Bodies[i]) : Bodies[i][k] = i /\ i \in Byte
        BY <2>1, BodiesAssumption DEF Byte
    <2>3. QED BY <2>1, <2>2
<1> DEFINE a == Sent[i - 1] \o <<Stx>>
           b == a \o Bodies[i]
<1>2. /\ <<Stx>> \in Seq(Byte) /\ Len(<<Stx>>) = 1 /\ <<Stx>>[1] = Stx
      /\ <<Etx>> \in Seq(Byte) /\ Len(<<Etx>>) = 1 /\ <<Etx>>[1] = Etx
    BY DEF Byte
<1>3. /\ a \in Seq(Byte) /\ Len(a) = End(i - 1) + 1
      /\ \A k \in 1..Len(a) : a[k] = IF k <= End(i - 1) THEN Sent[i - 1][k] ELSE Stx
    BY <1>2, ConcatProperties DEF End
<1>4. /\ b \in Seq(Byte) /\ Len(b) = Len(a) + Len(Bodies[i])
      /\ \A k \in 1..Len(b) : b[k] = IF k <= Len(a) THEN a[k] ELSE i
    <2> HIDE DEF a
    <2>1. /\ b \in Seq(Byte) /\ Len(b) = Len(a) + Len(Bodies[i]) /\ Len(a) \in Nat
          /\ \A k \in 1..(Len(a) + Len(Bodies[i])) :
                b[k] = IF k <= Len(a) THEN a[k] ELSE Bodies[i][k - Len(a)]
        <3>1. a \in Seq(Byte) /\ Bodies[i] \in Seq(Byte)
            BY <1>1, <1>3
        <3>2. QED BY <3>1, ConcatProperties
    <2> HIDE DEF b
    <2>2. ASSUME NEW k \in 1..Len(b), k > Len(a) PROVE b[k] = i
        <3>1. k - Len(a) \in 1..Len(Bodies[i])
            BY <1>1, <2>1, <2>2
        <3>2. b[k] = Bodies[i][k - Len(a)]
            BY <2>1, <2>2
        <3>3. QED BY <1>1, <3>1, <3>2
    <2>3. QED BY <2>1, <2>2
<1>5. Sent[i] = b \o <<Etx>>
    BY SentDefined
<1> HIDE DEF a, b
<1>6. /\ Sent[i] \in Seq(Byte) /\ End(i) = Len(b) + 1
      /\ \A k \in 1..End(i) : Sent[i][k] = IF k <= Len(b) THEN b[k] ELSE Etx
    BY <1>2, <1>4, <1>5, ConcatProperties DEF End
<1>7. End(i - 1) \in Nat
    BY DEF End
<1>8. End(i) = End(i - 1) + Len(Bodies[i]) + 2 /\ Len(a) \in Nat /\ Len(b) \in Nat
    <2>1. /\ Len(Bodies[i]) \in Nat
          /\ Len(a) = End(i - 1) + 1
          /\ Len(b) = Len(a) + Len(Bodies[i])
          /\ End(i) = Len(b) + 1
        BY <1>1, <1>3, <1>4, <1>6
    <2>2. QED BY <1>7, <2>1
<1>9. ASSUME NEW k \in 1..End(i)
      PROVE  Sent[i][k] = IF k <= End(i - 1) THEN Sent[i - 1][k]
                          ELSE IF k = End(i - 1) + 1 THEN Stx
                          ELSE IF k = End(i) THEN Etx
                          ELSE i
    <2>1. CASE k = End(i)
        BY <1>1, <1>3, <1>4, <1>6, <1>7, <2>1
    <2>2. CASE k # End(i)
        <3>1. k \in 1..Len(b) /\ Sent[i][k] = b[k]
            BY <1>6, <1>8, <2>2
        <3>2. b[k] = IF k <= Len(a) THEN a[k] ELSE i
            BY <1>4, <3>1
        <3>3. k <= Len(a) => a[k] = IF k <= End(i - 1) THEN Sent[i - 1][k] ELSE Stx
            BY <1>3, <1>7, <3>1
        <3>4. QED BY <1>3, <1>7, <2>2, <3>1, <3>2, <3>3
    <2>3. QED BY <2>1, <2>2
<1>10. QED BY <1>6, <1>8, <1>9

LEMMA SentType == \A i \in 0..Lines : Sent[i] \in Seq(Byte) /\ End(i) \in Nat
<1> DEFINE S == {n \in Nat : n <= Lines => Sent[n] \in Seq(Byte)}
<1>1. 0 \in S
    BY SentDefined, EmptySeq
<1>2. \A n \in Nat : n \in S => n + 1 \in S
    <2> SUFFICES ASSUME NEW n \in Nat, n \in S, n + 1 <= Lines PROVE Sent[n + 1] \in Seq(Byte)
        OBVIOUS
    <2>1. n + 1 \in 1..Lines /\ (n + 1) - 1 = n /\ Sent[n] \in Seq(Byte)
        BY LinesType
    <2>2. QED BY <2>1, SentStep
<1>3. \A i \in 0..Lines : Sent[i] \in Seq(Byte)
    <2>1. Nat \subseteq S
        BY <1>1, <1>2, Induction
    <2>2. QED BY <2>1, LinesType
<1>4. QED BY <1>3 DEF End

(* Each line has its delimiters and a byte between them at least. *)
LEMMA EndStep ==
    \A i \in 1..Lines : End(i) >= End(i - 1) + 3 /\ End(i) = End(i - 1) + Len(Bodies[i]) + 2
<1> SUFFICES ASSUME NEW i \in 1..Lines PROVE End(i) >= End(i - 1) + 3 /\ End(i) = End(i - 1) + Len(Bodies[i]) + 2
    OBVIOUS
<1>1. i \in DOMAIN Bodies /\ i - 1 \in 0..Lines
    BY LinesType
<1>2. Bodies[i] \in Seq(Nat) /\ Bodies[i] # <<>>
    BY <1>1, BodiesAssumption
<1>3. Len(Bodies[i]) \in Nat /\ Len(Bodies[i]) # 0
    BY <1>2
<1>4. QED BY <1>1, <1>3, SentType, SentStep

(* What was sent up to the end of a line begins all that is sent later.     *)
LEMMA SentPrefix ==
    \A i \in 0..Lines : \A j \in 0..i :
        /\ End(j) <= End(i)
        /\ j < i => End(j) + 3 <= End(i)
        /\ \A k \in 1..End(j) : Sent[i][k] = Sent[j][k]
<1> DEFINE P(i) ==
               \A j \in 0..i :
                   /\ End(j) <= End(i)
                   /\ j < i => End(j) + 3 <= End(i)
                   /\ \A k \in 1..End(j) : Sent[i][k] = Sent[j][k]
           S == {n \in Nat : n <= Lines => P(n)}
<1>1. 0 \in S
    BY SentType, LinesType
<1>2. \A n \in Nat : n \in S => n + 1 \in S
    <2> SUFFICES ASSUME NEW n \in Nat, n + 1 <= Lines, P(n) PROVE P(n + 1)
        BY LinesType
    <2>1. /\ n + 1 \in 1..Lines /\ (n + 1) - 1 = n
          /\ End(n) \in Nat /\ End(n + 1) \in Nat /\ Sent[n] \in Seq(Byte)
        BY LinesType, SentType
    <2>2. /\ End(n + 1) >= End(n) + 3
          /\ \A k \in 1..End(n) : Sent[n + 1][k] = Sent[n][k]
        <3>1. End(n + 1) >= End(n) + 3
            BY <2>1, EndStep
        <3>2. \A k \in 1..End(n + 1) : k <= End(n) => Sent[n + 1][k] = Sent[n][k]
            BY <2>1, SentStep
        <3>3. QED BY <2>1, <3>1, <3>2
    <2>3. \A j \in 0..n : End(j) \in Nat
        BY <2>1, LinesType, SentType
    <2>4. ASSUME NEW j \in 0..(n + 1)
          PROVE  /\ End(j) <= End(n + 1)
                 /\ j < n + 1 => End(j) + 3 <= End(n + 1)
                 /\ \A k \in 1..End(j) : Sent[n + 1][k] = Sent[j][k]
        <3>1. CASE j = n + 1
            BY <2>1, <3>1
        <3>2. CASE j \in 0..n
            <4>1. /\ End(j) <= End(n) /\ End(j) \in Nat
                  /\ \A k \in 1..End(j) : Sent[n][k] = Sent[j][k]
                BY <2>3, <3>2
            <4>2. \A k \in 1..End(j) : Sent[n + 1][k] = Sent[j][k]
                BY <2>1, <2>2, <4>1
            <4>3. QED BY <2>1, <2>2, <3>2, <4>1, <4>2
        <3>3. QED BY <3>1, <3>2
    <2>5. QED BY <2>4
<1> HIDE DEF P
<1>3. Nat \subseteq S
    BY <1>1, <1>2, Induction
<1>4. \A i \in 0..Lines : P(i)
    BY <1>3, LinesType
<1>5. QED BY <1>4 DEF P

(* The bytes of line i in the stream. *)
LEMMA StreamBytes ==
    /\ Stream \in Seq(Byte) /\ Len(Stream) = End(Lines) /\ Len(Stream) \in Nat
    /\ End(0) = 0
    /\ \A i \in 1..Lines :
          /\ End(i - 1) \in Nat /\ End(i) \in Nat /\ End(i) <= Len(Stream)
          /\ End(i) >= End(i - 1) + 3
          /\ End(i) = End(i - 1) + Len(Bodies[i]) + 2
          /\ Stream[End(i - 1) + 1] = Stx
          /\ Stream[End(i)] = Etx
          /\ \A k \in (End(i - 1) + 2)..(End(i) - 1) : Stream[k] = i
<1>1. /\ Stream \in Seq(Byte) /\ Len(Stream) = End(Lines) /\ Len(Stream) \in Nat
      /\ End(0) = 0
    BY SentType, SentDefined, LinesType DEF Stream, End, Lines
<1>2. ASSUME NEW i \in 1..Lines
      PROVE  /\ End(i - 1) \in Nat /\ End(i) \in Nat /\ End(i) <= Len(Stream)
             /\ \A k \in 1..End(i) : Stream[k] = Sent[i][k]
    <2>1. i \in 0..Lines /\ i - 1 \in 0..Lines /\ Lines \in 0..Lines
        BY LinesType
    <2>2. QED BY <1>1, <2>1, SentType, SentPrefix DEF Stream, Lines
<1>3. ASSUME NEW i \in 1..Lines
      PROVE  /\ End(i) >= End(i - 1) + 3
             /\ End(i) = End(i - 1) + Len(Bodies[i]) + 2
             /\ Stream[End(i - 1) + 1] = Stx
             /\ Stream[End(i)] = Etx
             /\ \A k \in (End(i - 1) + 2)..(End(i) - 1) : Stream[k] = i
    <2>1. i - 1 \in 0..Lines /\ Sent[i - 1] \in Seq(Byte)
        BY LinesType, SentType
    <2>2. /\ End(i) >= End(i - 1) + 3
          /\ End(i) = End(i - 1) + Len(Bodies[i]) + 2
        BY EndStep
    <2>3. \A k \in 1..End(i) :
             Sent[i][k] = IF k <= End(i - 1) THEN Sent[i - 1][k]
                          ELSE IF k = End(i - 1) + 1 THEN Stx
                          ELSE IF k = End(i) THEN Etx
                          ELSE i
        BY <2>1, SentStep
    <2>4. ASSUME NEW k \in (End(i - 1) + 1)..End(i)
          PROVE  Stream[k] = IF k = End(i - 1) + 1 THEN Stx ELSE IF k = End(i) THEN Etx ELSE i
        BY <1>2, <2>3
    <2>5. Stream[End(i - 1) + 1] = Stx /\ Stream[End(i)] = Etx
        <3>1. End(i - 1) + 1 \in (End(i - 1) + 1)..End(i) /\ End(i) \in (End(i - 1) + 1)..End(i)
            BY <1>2, <2>2
        <3>2. End(i) # End(i - 1) + 1
            BY <1>2, <2>2
        <3>3. QED BY <2>4, <3>1, <3>2
    <2>6. ASSUME NEW k \in (End(i - 1) + 2)..(End(i) - 1) PROVE Stream[k] = i
        <3>1. /\ k \in (End(i - 1) + 1)..End(i)
              /\ k # End(i - 1) + 1 /\ k # End(i)
            BY <1>2
        <3>2. QED BY <2>4, <3>1
    <2>7. QED BY <2>2, <2>5, <2>6
<1>4. QED BY <1>1, <1>2, <1>3

(* Every byte belongs to a line. *)
LEMMA LineOf == \A n \in 1..Len(Stream) : \E i \in 1..Lines : End(i - 1) < n /\ n <= End(i)
<1> DEFINE S == {m \in Nat : m <= Lines => \A n \in 1..End(m) : \E i \in 1..Lines : End(i - 1) < n /\ n <= End(i)}
<1>1. 0 \in S
    BY StreamBytes
<1>2. \A m \in Nat : m \in S => m + 1 \in S
    <2> SUFFICES ASSUME NEW m \in Nat, m \in S, m + 1 <= Lines, NEW n \in 1..End(m + 1)
                 PROVE  \E i \in 1..Lines : End(i - 1) < n /\ n <= End(i)
        OBVIOUS
    <2>1. /\ m + 1 \in 1..Lines /\ (m + 1) - 1 = m /\ End(m) \in Nat /\ End(m + 1) \in Nat
        BY LinesType, SentType
    <2>2. CASE n <= End(m)
        <3>1. n \in 1..End(m) /\ m <= Lines
            BY <2>1, <2>2, LinesType
        <3>2. QED BY <3>1
    <2>3. CASE End(m) < n
        BY <2>1, <2>3
    <2>4. QED BY <2>1, <2>2, <2>3
<1>3. Lines \in S
    BY <1>1, <1>2, Induction, LinesType
<1>4. QED BY <1>3, StreamBytes

-----------------------------------------------------------------------------
(* The inductive invariant.  i lines of the stream are dealt with, and the  *)
(* buffer is n other bytes followed by what was read behind the end of       *)
(* line i, the first byte of which is missing if it was dropped.             *)

Framed(i, n) ==
    /\ i \in 0..Lines /\ n \in 0..Len(buffer)
    /\ Len(buffer) = n + (IF read >= End(i) THEN read - End(i) ELSE 0)
    /\ \A k \in (n + 1)..Len(buffer) : buffer[k] = Stream[End(i) + k - n]

(* The other bytes are in front of any line, or after a broken connection   *)
(* they are the beginning of a line, and the next one is glued to it.        *)
Clean(n) == \A k \in 1..n : buffer[k] # Stx

Glued(i, n) ==
    /\ n >= 2 /\ buffer[1] = Stx /\ buffer[2] \in 1..i
    /\ \A k \in 1..n : buffer[k] \in LineByte
    /\ \A k \in DOMAIN delivered : Head(delivered[k]) < buffer[2]
    /\ read >= End(i)

Spoiled == {k \in DOMAIN delivered : delivered[k] \notin ToSet(Bodies)}

DealtWith(i, n) ==
    /\ Framed(i, n)
    /\ dangling \subseteq 1..i
    /\ \A k \in DOMAIN delivered : Head(delivered[k]) <= i
    /\ read >= End(i) \/ (i \in dangling /\ read > End(i - 1))
    /\ \/ Clean(n) /\ Cardinality(Spoiled) <= breaks
       \/ Glued(i, n) /\ Cardinality(Spoiled) + 1 <= breaks
    /\ breaks = 0 => ToSet(delivered) = {Bodies[j] : j \in (1..i) \ dangling}

(* Lines that were handed on are not empty, and in the order of the stream. *)
DeliveredInOrder ==
    /\ delivered \in Seq(Seq(LineByte))
    /\ \A k \in DOMAIN delivered : delivered[k] # <<>> /\ Head(delivered[k]) \in 1..Lines
    /\ \A j, k \in DOMAIN delivered : j < k => Head(delivered[j]) < Head(delivered[k])

(* What is kept from one callback to the next. *)
Kept ==
    /\ pc = "move" => \A k \in 1..Len(buffer) : buffer[k] # Stx
    /\ pc = "recv" =>
          \/ \A k \in 1..Len(buffer) : buffer[k] # Stx
          \/ /\ Len(buffer) >= 2 /\ buffer[1] = Stx
             /\ \A k \in 2..Len(buffer) : buffer[k] # Etx

StateType ==
    /\ pc \in {"recv", "scan", "move"}
    /\ read \in 0..Len(Stream)
    /\ buffer \in Seq(Byte)
    /\ before \in {Nul, Outside}
    /\ breaks \in 0..Breaks

IInv ==
    /\ StateType
    /\ DeliveredInOrder
    /\ Kept
    /\ \E i \in 0..Lines, n \in 0..Len(buffer) : DealtWith(i, n)

-----------------------------------------------------------------------------
(* Frames, seen from the byte in front of them. *)
LEMMA FrameBehind ==
    ASSUME NEW i \in 0..Lines
    PROVE  /\ End(i) \in Nat /\ End(i) <= Len(Stream)
           /\ i < Lines <=> End(i) < Len(Stream)
           /\ i < Lines =>
                /\ i + 1 \in 1..Lines
                /\ End(i + 1) \in Nat /\ End(i + 1) <= Len(Stream)
                /\ End(i + 1) >= End(i) + 3
                /\ End(i + 1) = End(i) + Len(Bodies[i + 1]) + 2
                /\ Stream[End(i) + 1] = Stx
                /\ Stream[End(i + 1)] = Etx
                /\ \A k \in (End(i) + 2)..(End(i + 1) - 1) : Stream[k] = i + 1
<1>1. i < Lines => i + 1 \in 1..Lines /\ (i + 1) - 1 = i
    BY LinesType
<1>2. CASE i < Lines
    <2>1. /\ End((i + 1) - 1) \in Nat /\ End(i + 1) \in Nat /\ End(i + 1) <= Len(Stream)
          /\ End(i + 1) >= End((i + 1) - 1) + 3
          /\ End(i + 1) = End((i + 1) - 1) + Len(Bodies[i + 1]) + 2
          /\ Stream[End((i + 1) - 1) + 1] = Stx
          /\ Stream[End(i + 1)] = Etx
          /\ \A k \in (End((i + 1) - 1) + 2)..(End(i + 1) - 1) : Stream[k] = i + 1
        BY <1>1, <1>2, StreamBytes
    <2>2. QED BY <1>1, <1>2, <2>1, StreamBytes
<1>3. CASE i = Lines
    BY <1>3, StreamBytes, LinesType
<1>4. QED BY <1>2, <1>3, LinesType

LEMMA Distinct ==
    /\ Stx # Etx /\ Stx \notin {Nul, Outside}
    /\ \A i \in 1..Lines : i \notin {Stx, Etx, Nul, Outside}
BY DelimiterAssumption, LinesType

(* The number of lines that were read to their end. *)
LEMMA LinesReadIs ==
    ASSUME NEW i \in 0..Lines, read \in Nat, End(i) <= read, i < Lines => read < End(i + 1)
    PROVE  LinesRead = i
<1>1. \A j \in 1..Lines : End(j) <= read <=> j <= i
    <2> SUFFICES ASSUME NEW j \in 1..Lines PROVE End(j) <= read <=> j <= i
        OBVIOUS
    <2>1. i \in Nat /\ j \in 0..Lines /\ End(i) \in Nat /\ End(j) \in Nat
        BY LinesType, SentType
    <2>2. CASE j <= i
        <3>1. End(j) <= End(i)
            BY <2>1, <2>2, SentPrefix
        <3>2. QED BY <2>1, <2>2, <3>1
    <2>3. CASE i < j
        <3>1. i + 1 \in 0..j /\ i < Lines
            BY <2>1, <2>3, LinesType
        <3>2. End(i + 1) <= End(j) /\ End(i + 1) \in Nat
            BY <2>1, <3>1, SentPrefix, SentType, LinesType
        <3>3. QED BY <2>1, <2>3, <3>1, <3>2
    <2>4. QED BY <2>1, <2>2, <2>3
<1>2. {j \in DOMAIN Bodies : Len(Sent[j]) <= read} = 1..i
    BY <1>1, LinesType DEF End
<1>3. Cardinality(1..i) = i
    BY FS_Interval, LinesType
<1>4. QED BY <1>2, <1>3 DEF LinesRead

LEMMA InitIInv == Init => IInv
<1> SUFFICES ASSUME Init PROVE IInv
    OBVIOUS
<1>1. /\ <<>> \in Seq(Byte) /\ <<>> \in Seq(Seq(LineByte))
      /\ Len(<<>>) = 0 /\ DOMAIN <<>> = {}
    BY EmptySeq
<1>2. StateType /\ DeliveredInOrder /\ Kept
    BY <1>1, StreamBytes, BoundsAssumption DEF Init, StateType, DeliveredInOrder, Kept
<1>3. 0 \in 0..Lines /\ 0 \in 0..Len(buffer)
    BY <1>1, LinesType DEF Init
<1>4. DealtWith(0, 0)
    <2>1. Framed(0, 0) /\ Clean(0)
        BY <1>1, <1>3, StreamBytes DEF Init, Framed, Clean
    <2>2. Spoiled = {}
        BY <1>1 DEF Init, Spoiled
    <2>3. ToSet(delivered) = {} /\ (1..0) \ dangling = {}
        BY <1>1 DEF Init, ToSet
    <2>4. QED BY <1>1, <2>1, <2>2, <2>3, FS_EmptySet, StreamBytes DEF Init, DealtWith
<1>5. QED BY <1>2, <1>3, <1>4 DEF IInv

(* As long as nothing is delivered and no line is lost. *)
LEMMA SameLines ==
    ASSUME DeliveredInOrder, UNCHANGED delivered
    PROVE  DeliveredInOrder' /\ Spoiled' = Spoiled
BY DEF DeliveredInOrder, Spoiled

(* A chunk is read: r bytes are read now. *)
LEMMA RecvIInv == IInv /\ Recv => IInv'
<1> SUFFICES ASSUME IInv, Recv PROVE IInv'
    OBVIOUS
<1>1. PICK i \in 0..Lines, n \in 0..Len(buffer) : DealtWith(i, n)
    BY DEF IInv
<1>2. PICK r \in Nat : r = read'
    BY StreamBytes, BoundsAssumption DEF IInv, StateType, Recv
<1>3. Len(buffer) \in Nat /\ read \in Nat /\ r > read /\ r <= Len(Stream) /\ Len(Stream) \in Nat
    BY <1>2, StreamBytes, BoundsAssumption DEF IInv, StateType, Recv
<1>a. /\ StateType /\ DeliveredInOrder /\ buffer \in Seq(Byte)
      /\ UNCHANGED <<delivered, dangling, breaks>>
      /\ buffer' = buffer \o SubSeq(Stream, read + 1, r)
    BY <1>2 DEF IInv, StateType, Recv
<1> DEFINE chunk == SubSeq(Stream, read + 1, r)
<1>4. /\ chunk \in Seq(Byte) /\ Len(chunk) = r - read
      /\ \A k \in 1..(r - read) : chunk[k] = Stream[read + k]
    <2>1. /\ Stream \in Seq(Byte) /\ read + 1 \in Nat \ {0} /\ read + 1 <= r + 1
        BY <1>3, StreamBytes
    <2>2. /\ SubSeq(Stream, read + 1, r) \in Seq(Byte)
          /\ Len(SubSeq(Stream, read + 1, r)) = r + 1 - (read + 1)
          /\ \A k \in 1..(r + 1 - (read + 1)) : SubSeq(Stream, read + 1, r)[k] = Stream[(read + 1) + k - 1]
        BY <1>3, <2>1, SubSeqBytes
    <2>3. r + 1 - (read + 1) = r - read
        BY <1>3
    <2>4. \A k \in 1..(r - read) : (read + 1) + k - 1 = read + k
        BY <1>3
    <2>5. QED BY <2>2, <2>3, <2>4
<1> HIDE DEF chunk
<1>5. PICK l \in Nat : l = Len(buffer') /\ l = Len(buffer) + (r - read)
    BY <1>3, <1>a, <1>4, ConcatProperties DEF chunk
<1>6. buffer' \in Seq(Byte) /\ \A k \in 1..Len(buffer) : buffer'[k] = buffer[k]
    <2>1. buffer \in Seq(Byte) /\ chunk \in Seq(Byte) /\ buffer' = buffer \o chunk
        BY <1>a, <1>4 DEF chunk
    <2>2. QED BY <2>1
<1>7. ASSUME NEW k \in 1..l, k > Len(buffer)
      PROVE  buffer'[k] = Stream[read + k - Len(buffer)]
    <2>1. buffer \in Seq(Byte) /\ chunk \in Seq(Byte) /\ buffer' = buffer \o chunk
        BY <1>a, <1>4 DEF chunk
    <2>2. k - Len(buffer) \in 1..(r - read)
        BY <1>3, <1>5, <1>7
    <2>3. buffer'[k] = chunk[k - Len(buffer)]
        BY <1>4, <1>7, <2>1, <2>2
    <2>4. chunk[k - Len(buffer)] = Stream[read + (k - Len(buffer))]
        BY <1>4, <2>2
    <2>5. read + (k - Len(buffer)) = read + k - Len(buffer)
        BY <1>3
    <2>6. QED BY <2>3, <2>4, <2>5
<1>8. StateType' /\ Kept'
    BY <1>2, <1>3, <1>a, <1>6, StreamBytes DEF StateType, Kept, Recv
<1>9. DeliveredInOrder' /\ Spoiled' = Spoiled
    BY <1>a, SameLines
<1>10. End(i) \in Nat /\ End(i) <= Len(Stream)
    BY FrameBehind
<1>n. PICK L \in Nat, e \in Nat :
        /\ L = Len(buffer) /\ e = End(i) /\ l = L + (r - read) /\ n <= L
        /\ n \in Nat /\ l \in Nat /\ r \in Nat /\ read \in Nat /\ r > read
    BY <1>3, <1>5, <1>10
<1>11. CASE read >= End(i)
    <2>1. n \in 0..Len(buffer') /\ Framed(i, n)'
        <3>a. Len(buffer) = n + (read - End(i))
            BY <1>1, <1>11 DEF DealtWith, Framed
        <3>b. /\ n <= l /\ l = n + (r - e) /\ r >= e /\ L = n + (read - e)
            <4>1. L = n + (read - e) /\ read >= e
                BY <1>n, <1>11, <3>a
            <4>2. r >= e
                BY <1>n, <4>1
            <4>3. l = n + (r - e)
                BY <1>n, <4>1
            <4>4. QED BY <1>n, <4>1, <4>2, <4>3
        <3>1. /\ n \in 0..l /\ l = n + (r - End(i)) /\ r >= End(i)
              /\ Len(buffer) = n + (read - End(i))
            BY <1>n, <3>a, <3>b
        <3>2. ASSUME NEW k \in (n + 1)..l PROVE buffer'[k] = Stream[End(i) + k - n]
            <4>1. k \in 1..l
                BY <3>1
            <4>2. CASE k <= Len(buffer)
                BY <1>1, <1>3, <1>6, <3>1, <4>1, <4>2 DEF DealtWith, Framed
            <4>3. CASE k > Len(buffer)
                <5>1. read + k - Len(buffer) = End(i) + k - n
                    <6>1. k \in Nat
                        BY <1>n
                    <6>2. read + k - L = e + k - n
                        BY <1>n, <3>b, <6>1
                    <6>3. QED BY <1>n, <6>2
                <5>2. QED BY <1>7, <4>1, <4>3, <5>1
            <4>4. QED BY <1>3, <4>1, <4>2, <4>3
        <3>3. QED BY <1>2, <1>5, <3>1, <3>2 DEF Framed
    <2>2. Clean(n) => Clean(n)'
        BY <1>3, <1>6 DEF Clean
    <2>3. ASSUME Glued(i, n) PROVE Glued(i, n)'
        <3>1. /\ n >= 2 /\ buffer[1] = Stx /\ buffer[2] \in 1..i /\ n \in Nat /\ n <= Len(buffer)
              /\ \A k \in 1..n : buffer[k] \in LineByte
              /\ \A k \in DOMAIN delivered : Head(delivered[k]) < buffer[2]
            BY <1>3, <2>3 DEF Glued
        <3>2. 1 \in 1..n /\ 2 \in 1..n /\ \A k \in 1..n : k \in 1..Len(buffer)
            BY <1>3, <3>1
        <3>3. \A k \in 1..n : buffer'[k] = buffer[k]
            BY <1>6, <3>2
        <3>4. r >= End(i)
            BY <1>3, <1>10, <1>11
        <3>5. QED BY <1>2, <1>a, <3>1, <3>2, <3>3, <3>4 DEF Glued
    <2>4. r >= End(i)
        BY <1>3, <1>10, <1>11
    <2>5. DealtWith(i, n)'
        BY <1>1, <1>2, <1>a, <1>9, <2>1, <2>2, <2>3, <2>4 DEF DealtWith
    <2>6. QED BY <1>8, <1>9, <2>1, <2>5 DEF IInv
<1>12. CASE read < End(i)
    <2>1. /\ i \in 1..Lines /\ i - 1 \in 0..Lines /\ read > End(i - 1) /\ End(i - 1) \in Nat
          /\ i \in dangling
          /\ Len(buffer) = n /\ Clean(n) /\ Cardinality(Spoiled) <= breaks
        <3>1. ~(read >= End(i))
            BY <1>3, <1>10, <1>12
        <3>2. i \in dangling /\ read > End(i - 1) /\ dangling \subseteq 1..i
            BY <1>1, <3>1 DEF DealtWith
        <3>3. i \in 1..Lines /\ i - 1 \in 0..Lines
            BY <3>2, LinesType
        <3>4. End(i - 1) \in Nat
            BY <3>3, StreamBytes
        <3>5. Len(buffer) = n
            BY <1>1, <3>1 DEF DealtWith, Framed
        <3>6. Clean(n) /\ Cardinality(Spoiled) <= breaks
            BY <1>1, <3>1 DEF DealtWith, Glued
        <3>7. QED BY <3>2, <3>3, <3>4, <3>5, <3>6
    <2>2. PICK m \in 0..l :
            /\ m >= Len(buffer)
            /\ l = m + (IF r >= End(i) THEN r - End(i) ELSE 0)
            /\ r >= End(i) => m = Len(buffer) + (End(i) - read)
            /\ r < End(i) => m = Len(buffer) + (r - read)
        <3>1. CASE r >= End(i)
            <4>1. Len(buffer) + (End(i) - read) \in 0..l
                BY <1>3, <1>5, <1>10, <1>12, <3>1
            <4>2. l = (Len(buffer) + (End(i) - read)) + (r - End(i))
                BY <1>3, <1>5, <1>10
            <4>3. Len(buffer) + (End(i) - read) >= Len(buffer)
                BY <1>3, <1>10, <1>12
            <4>4. QED BY <1>10, <3>1, <4>1, <4>2, <4>3
        <3>2. CASE r < End(i)
            BY <1>3, <1>5, <1>10, <1>12, <3>2
        <3>3. QED BY <1>10, <3>1, <3>2
    <2>3. Framed(i, m)'
        <3>1. ASSUME NEW k \in (m + 1)..l PROVE buffer'[k] = Stream[End(i) + k - m]
            <4>1. k \in 1..l /\ k > Len(buffer) /\ l > m
                BY <1>3, <2>2
            <4>2. r >= End(i)
                BY <1>3, <1>10, <2>2, <4>1
            <4>3. read + k - Len(buffer) = End(i) + k - m
                <5>1. m = L + (e - read)
                    BY <1>n, <2>2, <4>2
                <5>2. k \in Int /\ read \in Int /\ L \in Int /\ e \in Int
                    BY <1>n, <2>2
                <5>3. read + k - L = e + k - (L + (e - read))
                    BY <5>2
                <5>4. QED BY <1>n, <5>1, <5>3
            <4>4. QED BY <1>7, <4>1, <4>3
        <3>2. QED BY <1>2, <1>5, <2>2, <3>1 DEF Framed
    <2>4. Clean(m)'
        <3>1. ASSUME NEW k \in 1..m PROVE buffer'[k] # Stx
            <4>1. CASE k <= Len(buffer)
                <5>1. k \in 1..n /\ k \in 1..Len(buffer)
                    BY <1>3, <2>1, <4>1
                <5>2. QED BY <1>6, <2>1, <5>1 DEF Clean
            <4>2. CASE k > Len(buffer)
                <5>1. k \in 1..l
                    BY <2>2
                <5>2. read + k - Len(buffer) \in (End(i - 1) + 2)..End(i)
                    <6>1. PICK g \in Nat : g = End(i - 1) /\ read > g
                        BY <2>1
                    <6>2. k \in Nat /\ m \in Nat /\ k <= m /\ k > L
                        BY <1>n, <2>2, <4>2
                    <6>3. read + k - L \in Int /\ read + k - L >= g + 2
                        BY <1>n, <6>1, <6>2
                    <6>4. m <= L + (e - read)
                        <7>1. CASE r >= e
                            <8>1. m = L + (e - read)
                                BY <1>n, <2>2, <7>1
                            <8>2. QED BY <1>n, <6>2, <8>1
                        <7>2. CASE r < e
                            <8>1. m = L + (r - read)
                                BY <1>n, <2>2, <7>2
                            <8>2. L + (r - read) <= L + (e - read)
                                BY <1>n, <7>2
                            <8>3. QED BY <6>2, <8>1, <8>2
                        <7>3. QED BY <1>n, <7>1, <7>2
                    <6>5. read + k - L <= e
                        BY <1>n, <6>2, <6>4
                    <6>6. QED BY <1>n, <6>1, <6>3, <6>5
                <5>3. buffer'[k] = Stream[read + k - Len(buffer)]
                    BY <1>7, <4>2, <5>1
                <5>4. \A j \in (End(i - 1) + 2)..End(i) : Stream[j] \in {i, Etx}
                    BY <1>10, <2>1, StreamBytes
                <5>5. QED BY <2>1, <5>2, <5>3, <5>4, Distinct
            <4>3. QED BY <1>3, <4>1, <4>2
        <3>2. QED BY <3>1 DEF Clean
    <2>5. r >= End(i) \/ (i \in dangling /\ r > End(i - 1))
        BY <1>3, <1>10, <2>1
    <2>6. DealtWith(i, m)'
        BY <1>1, <1>2, <1>a, <1>9, <2>1, <2>3, <2>4, <2>5 DEF DealtWith
    <2>7. m \in 0..Len(buffer')
        BY <1>5
    <2>8. QED BY <1>8, <1>9, <2>6, <2>7 DEF IInv
<1>13. QED BY <1>3, <1>10, <1>11, <1>12

LEMMA ScanNothingIInv == IInv /\ ScanNothing => IInv'
<1> SUFFICES ASSUME IInv, ScanNothing PROVE IInv'
    OBVIOUS
<1>1. PICK i \in 0..Lines, n \in 0..Len(buffer) : DealtWith(i, n)
    BY DEF IInv
<1>2. StateType' /\ DeliveredInOrder' /\ Spoiled' = Spoiled
    BY SameLines DEF IInv, StateType, ScanNothing
<1>3. Kept'
    BY MemchrFinds DEF IInv, StateType, ScanNothing, Kept, Position
<1>4. n \in 0..Len(buffer') /\ DealtWith(i, n)'
    BY <1>1, <1>2 DEF ScanNothing, DealtWith, Framed, Clean, Glued
<1>5. QED BY <1>2, <1>3, <1>4 DEF IInv

(* The bytes moved are none of a line. *)
LEMMA MoveIInv == IInv /\ Move => IInv'
<1> SUFFICES ASSUME IInv, Move PROVE IInv'
    OBVIOUS
<1>1. PICK i \in 0..Lines, n \in 0..Len(buffer) : DealtWith(i, n)
    BY DEF IInv
<1>2. /\ buffer \in Seq(Byte) /\ Len(buffer) \in Nat /\ before \in {Nul, Outside}
      /\ read \in Nat /\ read <= Len(Stream)
      /\ \A k \in 1..Len(buffer) : buffer[k] # Stx
      /\ UNCHANGED <<read, before, delivered, dangling, breaks>> /\ pc' = "recv"
    BY StreamBytes DEF IInv, StateType, Kept, Move
<1>3. /\ buffer' \in Seq(Byte) /\ Len(buffer') = Len(buffer)
      /\ \A k \in 1..Len(buffer) : buffer'[k] # Stx
    <2>1. CASE buffer = <<>>
        BY <1>2, <2>1 DEF Move
    <2>2. CASE buffer # <<>>
        <3> DEFINE front == Front(buffer)
        <3>1. /\ front \in Seq(Byte) /\ Len(front) = Len(buffer) - 1
              /\ \A k \in 1..(Len(buffer) - 1) : front[k] = buffer[k]
            BY <1>2, <2>2, FrontBytes
        <3>2. /\ <<before>> \in Seq(Byte) /\ Len(<<before>>) = 1 /\ <<before>>[1] = before
            BY <1>2 DEF Byte
        <3>3. buffer' = <<before>> \o front
            BY <2>2 DEF Move
        <3> HIDE DEF front
        <3>4. /\ buffer' \in Seq(Byte) /\ Len(buffer') = 1 + Len(front)
              /\ \A k \in 1..(1 + Len(front)) : buffer'[k] = IF k <= 1 THEN before ELSE front[k - 1]
            BY <3>1, <3>2, <3>3, ConcatProperties
        <3>5. ASSUME NEW k \in 1..Len(buffer) PROVE buffer'[k] # Stx
            <4>1. CASE k = 1
                BY <1>2, <3>1, <3>4, <4>1, Distinct
            <4>2. CASE k > 1
                <5>1. k - 1 \in 1..(Len(buffer) - 1) /\ k \in 1..(1 + Len(front))
                    BY <1>2, <3>1, <4>2
                <5>2. buffer'[k] = buffer[k - 1]
                    BY <1>2, <3>1, <3>4, <4>2, <5>1
                <5>3. QED BY <1>2, <5>1, <5>2
            <4>3. QED BY <1>2, <4>1, <4>2
        <3>6. QED BY <1>2, <3>1, <3>4, <3>5
    <2>3. QED BY <2>1, <2>2
<1>4. StateType' /\ Kept'
    BY <1>2, <1>3 DEF IInv, StateType, Kept
<1>5. DeliveredInOrder' /\ Spoiled' = Spoiled
    BY <1>2, SameLines DEF IInv
<1>6. End(i) \in Nat
    BY FrameBehind
<1>7. n = Len(buffer) /\ read <= End(i)
    <2>1. CASE n < Len(buffer)
        <3>1. n + 1 \in (n + 1)..Len(buffer) /\ End(i) < Len(Stream)
            BY <1>1, <1>2, <1>6, <2>1, StreamBytes DEF DealtWith, Framed
        <3>2. buffer[n + 1] = Stream[End(i) + 1]
            BY <1>1, <1>2, <1>6, <3>1 DEF DealtWith, Framed
        <3>3. Stream[End(i) + 1] = Stx
            BY <3>1, FrameBehind
        <3>4. QED BY <1>2, <2>1, <3>2, <3>3
    <2>2. CASE n = Len(buffer)
        BY <1>1, <1>2, <1>6, <2>2 DEF DealtWith, Framed
    <2>3. QED BY <1>2, <2>1, <2>2
<1>8. n \in 0..Len(buffer') /\ Framed(i, n)'
    BY <1>1, <1>2, <1>3, <1>6, <1>7 DEF DealtWith, Framed
<1>9. Clean(n) /\ Clean(n)' /\ ~Glued(i, n)
    BY <1>2, <1>3, <1>7 DEF Clean, Glued
<1>10. DealtWith(i, n)'
    BY <1>1, <1>2, <1>5, <1>8, <1>9 DEF DealtWith
<1>11. QED BY <1>4, <1>5, <1>8, <1>10 DEF IInv

(* The first LINE_DELIM_START found starts the next line, or the line the   *)
(* next one is glued to.                                                     *)
LEMMA StartOfLine ==
    ASSUME StateType, NEW i \in 0..Lines, NEW n \in 0..Len(buffer), DealtWith(i, n), Position(Stx) > 0
    PROVE  /\ Position(Stx) \in 1..Len(buffer)
           /\ Clean(n) => /\ Position(Stx) = n + 1
                          /\ read > End(i) /\ i < Lines
                          /\ Len(buffer) = n + (read - End(i))
           /\ Glued(i, n) => Position(Stx) = 1 /\ Len(buffer) = n + (read - End(i))
<1>1. /\ Position(Stx) \in 1..Len(buffer) /\ Len(buffer) \in Nat
      /\ buffer[Position(Stx)] = Stx
      /\ \A k \in 1..(Position(Stx) - 1) : buffer[k] # Stx
    BY MemchrFinds DEF StateType, Position
<1>2. /\ End(i) \in Nat /\ read \in Nat /\ read <= Len(Stream)
      /\ Len(buffer) = n + (IF read >= End(i) THEN read - End(i) ELSE 0)
      /\ i < Lines <=> End(i) < Len(Stream)
    BY FrameBehind, StreamBytes DEF StateType, DealtWith, Framed
<1>3. ASSUME Clean(n)
      PROVE  Position(Stx) = n + 1 /\ read > End(i) /\ i < Lines /\ Len(buffer) = n + (read - End(i))
    <2>1. Position(Stx) > n
        BY <1>1, <1>3 DEF Clean
    <2>2. read > End(i) /\ Len(buffer) = n + (read - End(i))
        BY <1>1, <1>2, <2>1
    <2>3. i < Lines
        BY <1>2, <2>2, StreamBytes
    <2>4. buffer[n + 1] = Stx
        <3>1. n + 1 \in (n + 1)..Len(buffer)
            BY <1>1, <2>1
        <3>2. buffer[n + 1] = Stream[End(i) + (n + 1) - n]
            BY <3>1 DEF DealtWith, Framed
        <3>3. End(i) + (n + 1) - n = End(i) + 1
            BY <1>2
        <3>4. QED BY <2>3, <3>2, <3>3, FrameBehind
    <2>5. ~(n + 1 \in 1..(Position(Stx) - 1))
        BY <1>1, <2>4
    <2>6. QED BY <1>1, <2>1, <2>2, <2>3, <2>5
<1>4. ASSUME Glued(i, n) PROVE Position(Stx) = 1 /\ Len(buffer) = n + (read - End(i))
    <2>1. buffer[1] = Stx /\ read >= End(i)
        BY <1>4 DEF Glued
    <2>2. QED BY <1>1, <1>2, <2>1
<1>5. QED BY <1>1, <1>3, <1>4

(* A line that is not complete is kept; bytes in front of it are not. *)
LEMMA ScanPartialIInv == IInv /\ ScanPartial => IInv'
<1> SUFFICES ASSUME IInv, ScanPartial PROVE IInv'
    OBVIOUS
<1>1. PICK i \in 0..Lines, n \in 0..Len(buffer) : DealtWith(i, n)
    BY DEF IInv
<1>2. PICK p \in 1..(Len(buffer) - 1) : p = Position(Stx)
    BY DEF ScanPartial
<1> DEFINE rest == SubSeq(buffer, p + 1, Len(buffer))
<1>3. /\ Len(buffer) \in Nat /\ p \in Nat \ {0} /\ p < Len(buffer) /\ read \in Nat
      /\ End(i) \in Nat /\ n \in Nat
    BY FrameBehind, StreamBytes DEF IInv, StateType
<1>4. /\ rest \in Seq(Byte) /\ Len(rest) = Len(buffer) - p
      /\ \A k \in 1..(Len(buffer) - p) : rest[k] = buffer[p + k]
    <2>1. buffer \in Seq(Byte) /\ p \in 0..Len(buffer)
        BY <1>3 DEF IInv, StateType
    <2>2. QED BY <2>1, SuffixBytes
<1>5. /\ buffer' = <<Stx>> \o rest /\ Etx \notin ToSet(rest)
      /\ UNCHANGED <<read, before, delivered, dangling, breaks>> /\ pc' = "recv"
    BY <1>2 DEF ScanPartial
<1> HIDE DEF rest
<1>6. /\ buffer' \in Seq(Byte) /\ Len(buffer') = Len(buffer) + 1 - p
      /\ buffer'[1] = Stx
    <2>1. /\ <<Stx>> \in Seq(Byte) /\ Len(<<Stx>>) = 1 /\ <<Stx>>[1] = Stx
          /\ rest \in Seq(Byte) /\ Len(rest) \in Nat
        BY <1>4 DEF Byte
    <2>2. /\ buffer' \in Seq(Byte) /\ Len(buffer') = 1 + Len(rest)
          /\ \A k \in 1..(1 + Len(rest)) : buffer'[k] = IF k <= 1 THEN <<Stx>>[k] ELSE rest[k - 1]
        BY <1>5, <2>1, ConcatProperties
    <2>3. QED BY <1>3, <1>4, <2>1, <2>2
<1>7. \A k \in 2..(Len(buffer) + 1 - p) : buffer'[k] = rest[k - 1] /\ buffer'[k] # Etx
    <2> SUFFICES ASSUME NEW k \in 2..(Len(buffer) + 1 - p) PROVE buffer'[k] = rest[k - 1] /\ buffer'[k] # Etx
        OBVIOUS
    <2>1. k - 1 \in 1..Len(rest) /\ k - 1 \in DOMAIN rest
        BY <1>3, <1>4
    <2>2. buffer'[k] = rest[k - 1]
        BY <1>3, <1>4, <1>5, <2>1
    <2>3. rest[k - 1] \in ToSet(rest)
        BY <2>1 DEF ToSet
    <2>4. QED BY <1>5, <2>2, <2>3
<1>8. StateType' /\ Kept'
    <2>1. Kept'
        <3>1. Len(buffer') >= 2 /\ 2..Len(buffer') = 2..(Len(buffer) + 1 - p)
            BY <1>3, <1>6
        <3>2. \A k \in 2..Len(buffer') : buffer'[k] # Etx
            BY <1>7, <3>1
        <3>3. QED BY <1>5, <1>6, <3>1, <3>2 DEF Kept
    <2>2. QED BY <1>5, <1>6, <2>1 DEF IInv, StateType
<1>9. DeliveredInOrder' /\ Spoiled' = Spoiled
    BY <1>5, SameLines DEF IInv
<1>10. \A k \in 1..(Len(buffer) + 1 - p) : buffer'[k] = buffer[p + k - 1]
    <2> SUFFICES ASSUME NEW k \in 1..(Len(buffer) + 1 - p) PROVE buffer'[k] = buffer[p + k - 1]
        OBVIOUS
    <2>1. CASE k = 1
        <3>1. buffer[p] = Stx
            <4>1. buffer \in Seq(Byte) /\ Memchr(buffer, Stx) = p /\ p > 0
                BY <1>2, <1>3 DEF IInv, StateType, Position
            <4>2. QED BY <4>1, MemchrFinds
        <3>2. QED BY <1>3, <1>6, <2>1, <3>1
    <2>2. CASE k > 1
        <3>1. k - 1 \in 1..(Len(buffer) - p) /\ p + (k - 1) = p + k - 1
            BY <1>3, <2>2
        <3>2. buffer'[k] = rest[k - 1]
            BY <1>7, <2>2
        <3>3. rest[k - 1] = buffer[p + (k - 1)]
            BY <1>4, <3>1
        <3>4. QED BY <3>1, <3>2, <3>3
    <2>3. QED BY <1>3, <2>1, <2>2
<1>11. CASE Clean(n)
    <2>1. /\ p = n + 1 /\ read > End(i) /\ Len(buffer) = n + (read - End(i))
        BY <1>1, <1>2, <1>3, <1>11, StartOfLine DEF IInv
    <2>2. PICK l \in Nat : l = Len(buffer') /\ l = read - End(i)
        BY <1>3, <1>6, <2>1
    <2>3. Framed(i, 0)'
        <3>1. ASSUME NEW k \in 1..l PROVE buffer'[k] = Stream[End(i) + k - 0]
            <4>1. k \in 1..(Len(buffer) + 1 - p) /\ p + k - 1 \in (n + 1)..Len(buffer)
                <5>1. PICK L \in Nat, e \in Nat : L = Len(buffer) /\ e = End(i) /\ L = n + (read - e) /\ l = read - e
                    BY <1>3, <2>1, <2>2
                <5>2. k \in Nat /\ k >= 1 /\ k <= l /\ l \in Nat
                    BY <2>2
                <5>3. k <= L + 1 - p
                    BY <1>3, <2>1, <5>1, <5>2
                <5>4. p + k - 1 <= L /\ p + k - 1 >= n + 1 /\ p + k - 1 \in Int
                    BY <1>3, <2>1, <5>1, <5>2, <5>3
                <5>5. QED BY <1>3, <5>1, <5>2, <5>3, <5>4
            <4>2. buffer[p + k - 1] = Stream[End(i) + (p + k - 1) - n]
                BY <1>1, <4>1 DEF DealtWith, Framed
            <4>3. End(i) + (p + k - 1) - n = End(i) + k - 0
                BY <1>3, <2>1
            <4>4. QED BY <1>10, <4>1, <4>2, <4>3
        <3>2. l = 0 + (IF read >= End(i) THEN read - End(i) ELSE 0) /\ 0 \in 0..l
            BY <1>3, <2>1, <2>2
        <3>3. QED BY <1>5, <2>2, <3>1, <3>2 DEF Framed
    <2>4. Clean(0)' /\ Cardinality(Spoiled) <= breaks
        BY <1>1, <1>11 DEF Clean, DealtWith, Glued
    <2>5. DealtWith(i, 0)'
        BY <1>1, <1>5, <1>9, <2>3, <2>4 DEF DealtWith
    <2>6. QED BY <1>8, <1>9, <2>3, <2>5 DEF IInv, Framed
<1>12. CASE ~Clean(n)
    <2>1. p = 1
        <3>1. Glued(i, n)
            BY <1>1, <1>12 DEF DealtWith
        <3>2. StateType /\ Position(Stx) > 0
            BY <1>2, <1>3 DEF IInv
        <3>3. QED BY <1>1, <1>2, <3>1, <3>2, StartOfLine
    <2>2. buffer' = buffer
        <3>1. Len(buffer') = Len(buffer) /\ \A k \in 1..Len(buffer) : buffer'[k] = buffer[k]
            <4>1. Len(buffer') = Len(buffer)
                BY <1>3, <1>6, <2>1
            <4>2. ASSUME NEW k \in 1..Len(buffer) PROVE buffer'[k] = buffer[k]
                <5>1. k \in 1..(Len(buffer) + 1 - p) /\ p + k - 1 = k
                    BY <1>3, <2>1
                <5>2. QED BY <1>10, <5>1
            <4>3. QED BY <4>1, <4>2
        <3>2. buffer \in Seq(Byte)
            BY DEF IInv, StateType
        <3>3. QED BY <1>6, <3>1, <3>2, SeqEqual
    <2>3. DealtWith(i, n)' /\ n \in 0..Len(buffer')
        BY <1>1, <1>5, <1>9, <2>2 DEF DealtWith, Framed, Clean, Glued
    <2>4. QED BY <1>8, <1>9, <2>3 DEF IInv
<1>13. QED BY <1>11, <1>12

(* The lines handed on are among those dealt with. *)
LEMMA HeadsBehind ==
    ASSUME DeliveredInOrder, NEW i, NEW n, DealtWith(i, n)
    PROVE  \A k \in DOMAIN delivered : Head(delivered[k]) <= i /\ Head(delivered[k]) \in Nat
<1> TAKE k \in DOMAIN delivered
<1>1. Head(delivered[k]) <= i
    BY DEF DealtWith
<1>2. Head(delivered[k]) \in 1..Lines
    BY DEF DeliveredInOrder
<1>3. QED BY <1>1, <1>2, LinesType

(* A line whose first byte is the last one is lost: it is dangling. *)
LEMMA ScanDanglingIInv == IInv /\ ScanDangling => IInv'
<1> SUFFICES ASSUME IInv, ScanDangling PROVE IInv'
    OBVIOUS
<1>1. PICK i \in 0..Lines, n \in 0..Len(buffer) : DealtWith(i, n)
    BY DEF IInv
<1>2. /\ buffer \in Seq(Byte) /\ Len(buffer) \in Nat /\ Len(buffer) # 0 /\ Position(Stx) = Len(buffer)
      /\ read \in Nat /\ read <= Len(Stream) /\ StateType
      /\ buffer' = <<>> /\ dangling' = dangling \cup {LinesRead + 1} /\ pc' = "recv"
      /\ UNCHANGED <<read, before, delivered, breaks>>
    BY StreamBytes DEF IInv, StateType, ScanDangling
<1>3. Clean(n) /\ Cardinality(Spoiled) <= breaks
    <2>1. ASSUME Glued(i, n) PROVE FALSE
        <3>1. n >= 2 /\ n <= Len(buffer)
            BY <1>2, <2>1 DEF Glued
        <3>2. Position(Stx) = 1
            BY <1>1, <1>2, <2>1, StartOfLine
        <3>3. QED BY <1>2, <3>1, <3>2
    <2>2. QED BY <1>1, <2>1 DEF DealtWith
<1>4. Len(buffer) = n + 1 /\ read > End(i) /\ i < Lines /\ Len(buffer) = n + (read - End(i))
    BY <1>1, <1>2, <1>3, StartOfLine
<1>5. /\ End(i) \in Nat /\ i + 1 \in 1..Lines /\ End(i + 1) \in Nat /\ End(i + 1) >= End(i) + 3
      /\ (i + 1) - 1 = i
    BY <1>4, FrameBehind, LinesType
<1>6. read = End(i) + 1
    BY <1>2, <1>4, <1>5
<1>7. LinesRead = i
    BY <1>2, <1>5, <1>6, LinesReadIs
<1>8. StateType' /\ Kept'
    <2>1. <<>> \in Seq(Byte) /\ Len(<<>>) = 0
        BY EmptySeq
    <2>2. QED BY <1>2, <2>1 DEF StateType, Kept
<1>9. DeliveredInOrder' /\ Spoiled' = Spoiled
    BY <1>2, SameLines DEF IInv
<1>10. i + 1 \in 0..Lines /\ 0 \in 0..Len(buffer')
    BY <1>2, <1>5
<1>11. Framed(i + 1, 0)' /\ Clean(0)'
    BY <1>2, <1>5, <1>6, <1>10 DEF Framed, Clean
<1>12. DealtWith(i + 1, 0)'
    <2>1. dangling' \subseteq 1..(i + 1) /\ i + 1 \in dangling'
        BY <1>1, <1>2, <1>5, <1>7, LinesType DEF DealtWith
    <2>2. (1..(i + 1)) \ dangling' = (1..i) \ dangling
        BY <1>1, <1>2, <1>5, <1>7, LinesType DEF DealtWith
    <2>3. breaks' = 0 => ToSet(delivered') = {Bodies[j] : j \in (1..(i + 1)) \ dangling'}
        BY <1>1, <1>2, <2>2 DEF DealtWith
    <2>4. \A k \in DOMAIN delivered' : Head(delivered'[k]) <= i + 1
        <3>1. \A k \in DOMAIN delivered : Head(delivered[k]) <= i /\ Head(delivered[k]) \in Nat
            BY <1>1, HeadsBehind DEF IInv
        <3>2. i \in Nat
            BY LinesType
        <3>3. \A k \in DOMAIN delivered : Head(delivered[k]) <= i + 1
            BY <3>1, <3>2
        <3>4. QED BY <1>2, <3>3
    <2>5. read' > End((i + 1) - 1)
        BY <1>2, <1>5, <1>6
    <2>6. QED BY <1>2, <1>3, <1>9, <1>11, <2>1, <2>3, <2>4, <2>5 DEF DealtWith
<1>13. QED BY <1>8, <1>9, <1>10, <1>12 DEF IInv

(* Where the server goes on after a break is the end of a line. *)
LEMMA BreakAtLine ==
    ASSUME NEW r \in 0..Len(Stream), r = Len(Stream) \/ Stream[r + 1] = Stx
    PROVE  \E j \in 0..Lines : r = End(j)
<1>1. CASE r = Len(Stream)
    BY <1>1, StreamBytes, LinesType
<1>2. CASE r < Len(Stream)
    <2>1. r + 1 \in 1..Len(Stream) /\ Stream[r + 1] = Stx
        BY <1>2, StreamBytes
    <2>2. PICK j \in 1..Lines : End(j - 1) < r + 1 /\ r + 1 <= End(j)
        BY <2>1, LineOf
    <2>3. j - 1 \in 0..Lines /\ End(j - 1) \in Nat /\ End(j) \in Nat
        BY LinesType, StreamBytes
    <2>4. \A k \in (End(j - 1) + 2)..End(j) : Stream[k] # Stx
        <3>1. \A k \in (End(j - 1) + 2)..End(j) : Stream[k] \in {j, Etx}
            BY <2>3, StreamBytes
        <3>2. QED BY <3>1, Distinct
    <2>5. r + 1 = End(j - 1) + 1
        BY <2>1, <2>2, <2>3, <2>4
    <2>6. QED BY <2>3, <2>5
<1>3. QED BY <1>1, <1>2, StreamBytes

(* Ends of lines are in the order of the lines. *)
LEMMA EndsAscend ==
    ASSUME NEW i \in 0..Lines, NEW j \in 0..Lines, End(i) < End(j)
    PROVE  i < j
<1>1. i \in Nat /\ j \in Nat /\ End(i) \in Nat /\ End(j) \in Nat
    BY LinesType, SentType
<1>2. ASSUME j <= i PROVE FALSE
    <2>1. j \in 0..i
        BY <1>1, <1>2
    <2>2. End(j) <= End(i)
        BY <2>1, SentPrefix
    <2>3. QED BY <1>1, <2>2
<1>3. QED BY <1>1, <1>2

(* Kept bytes without a LINE_DELIM_END are of one line. *)
LEMMA OneLine ==
    ASSUME StateType, NEW i \in 0..Lines, NEW n \in 0..Len(buffer), Framed(i, n), read > End(i),
           \A k \in 2..Len(buffer) : buffer[k] # Etx
    PROVE  /\ i < Lines /\ read < End(i + 1)
           /\ n + 1 <= Len(buffer) /\ buffer[n + 1] = Stx
           /\ \A k \in (n + 2)..Len(buffer) : buffer[k] = i + 1
<1>1. /\ End(i) \in Nat /\ read \in Nat /\ read <= Len(Stream) /\ Len(buffer) \in Nat /\ n \in Nat
      /\ Len(buffer) = n + (read - End(i))
      /\ \A k \in (n + 1)..Len(buffer) : buffer[k] = Stream[End(i) + k - n]
    BY FrameBehind, StreamBytes DEF StateType, Framed
<1>2. i < Lines
    BY <1>1, FrameBehind, StreamBytes
<1>3. /\ End(i + 1) \in Nat /\ End(i + 1) >= End(i) + 3
      /\ Stream[End(i) + 1] = Stx /\ Stream[End(i + 1)] = Etx
      /\ \A k \in (End(i) + 2)..(End(i + 1) - 1) : Stream[k] = i + 1
    BY <1>2, FrameBehind
<1>n. PICK e \in Nat, f \in Nat, l \in Nat :
        /\ e = End(i) /\ f = End(i + 1) /\ l = Len(buffer)
        /\ l = n + (read - e) /\ f >= e + 3 /\ n \in Nat /\ read \in Nat /\ read > e
    BY <1>1, <1>3
<1>4. read < End(i + 1)
    <2>1. ASSUME read >= f PROVE FALSE
        <3>1. PICK k \in Nat : k = n + (f - e)
            BY <1>n
        <3>2. k >= n + 1 /\ k >= 2
            BY <1>n, <3>1
        <3>3. k <= l /\ e + k - n = f
            BY <1>n, <2>1, <3>1
        <3>4. k \in (n + 1)..Len(buffer) /\ k \in 2..Len(buffer) /\ End(i) + k - n = End(i + 1)
            BY <1>n, <3>2, <3>3
        <3>5. buffer[k] = Etx
            BY <1>1, <1>3, <3>4
        <3>6. QED BY <3>4, <3>5
    <2>2. QED BY <1>n, <2>1
<1>5. n + 1 <= Len(buffer) /\ buffer[n + 1] = Stx
    <2>1. n + 1 \in (n + 1)..Len(buffer) /\ End(i) + (n + 1) - n = End(i) + 1
        BY <1>1
    <2>2. QED BY <1>1, <1>3, <2>1
<1>6. ASSUME NEW k \in (n + 2)..Len(buffer) PROVE buffer[k] = i + 1
    <2>1. /\ k \in Nat /\ k >= n + 2 /\ k <= l /\ read < f
        BY <1>n, <1>4
    <2>2. e + k - n >= e + 2 /\ e + k - n <= f - 1 /\ e + k - n \in Int
        BY <1>n, <2>1
    <2>3. k \in (n + 1)..Len(buffer) /\ End(i) + k - n \in (End(i) + 2)..(End(i + 1) - 1)
        BY <1>n, <2>1, <2>2
    <2>4. QED BY <1>1, <1>3, <2>3
<1>7. QED BY <1>2, <1>4, <1>5, <1>6

(* The number of spoiled lines. *)
LEMMA SpoiledType ==
    ASSUME DeliveredInOrder
    PROVE  IsFiniteSet(Spoiled) /\ Cardinality(Spoiled) \in Nat
<1>1. IsFiniteSet(DOMAIN delivered)
    <2>1. DOMAIN delivered = 1..Len(delivered) /\ Len(delivered) \in Nat
        BY DEF DeliveredInOrder
    <2>2. QED BY <2>1, FS_Interval
<1>2. Spoiled \in SUBSET DOMAIN delivered
    BY DEF Spoiled
<1>3. QED BY <1>1, <1>2, FS_Subset, FS_CardinalityType

LEMMA BreakIInv == IInv /\ Break => IInv'
<1> SUFFICES ASSUME IInv, Break PROVE IInv'
    OBVIOUS
<1>1. PICK i \in 0..Lines, n \in 0..Len(buffer) : DealtWith(i, n)
    BY DEF IInv
<1>2. PICK r \in 0..Len(Stream) : r = read' /\ r >= read /\ (r = Len(Stream) \/ Stream[r + 1] = Stx)
    <2>1. read' \in read..Len(Stream) /\ (read' = Len(Stream) \/ Stream[read' + 1] = Stx)
        BY DEF Break
    <2>2. read \in Nat /\ Len(Stream) \in Nat
        BY StreamBytes DEF IInv, StateType
    <2>3. PICK r \in read..Len(Stream) : r = read' /\ (r = Len(Stream) \/ Stream[r + 1] = Stx)
        BY <2>1
    <2>4. r \in 0..Len(Stream) /\ r >= read
        BY <2>2
    <2>5. QED BY <2>3, <2>4
<1>3. PICK j \in 0..Lines : r = End(j)
    BY <1>2, BreakAtLine
<1>4. /\ buffer \in Seq(Byte) /\ Len(buffer) \in Nat /\ read \in Nat /\ breaks \in Nat
      /\ End(i) \in Nat /\ End(j) \in Nat /\ i \in Nat /\ j \in Nat /\ n \in Nat
      /\ r = End(j) /\ read <= End(j)
    BY <1>2, <1>3, FrameBehind, BoundsAssumption, LinesType DEF IInv, StateType
<1>5. /\ UNCHANGED <<pc, buffer, before, delivered, dangling>> /\ breaks' = breaks + 1
      /\ pc = "recv" /\ breaks < Breaks
    BY DEF Break
<1>6. StateType' /\ Kept'
    <2>1. breaks' \in 0..Breaks
        BY <1>4, <1>5, BoundsAssumption
    <2>2. QED BY <1>2, <1>5, <2>1 DEF IInv, StateType, Kept
<1>7. DeliveredInOrder' /\ Spoiled' = Spoiled
    BY <1>5, SameLines DEF IInv
<1>8. i <= j
    <2>1. CASE read >= End(i)
        <3>1. End(i) = End(j) \/ End(i) < End(j)
            BY <1>4, <2>1
        <3>2. ASSUME j < i PROVE FALSE
            <4>1. j \in 0..i /\ j < i
                BY <1>4, <3>2
            <4>2. End(j) + 3 <= End(i)
                BY <4>1, SentPrefix
            <4>3. QED BY <1>4, <3>1, <4>2
        <3>3. QED BY <1>4, <3>2
    <2>2. CASE read < End(i)
        <3>1. read > End(i - 1) /\ i \in 1..Lines
            <4>1. i \in dangling /\ read > End(i - 1) /\ dangling \subseteq 1..i
                BY <1>1, <1>4, <2>2 DEF DealtWith
            <4>2. i \in 1..i /\ i \in 0..Lines
                BY <4>1
            <4>3. QED BY <1>4, <4>1, <4>2, LinesType
        <3>2. i - 1 \in 0..Lines /\ End(i - 1) \in Nat
            <4>1. i - 1 \in 0..Lines
                BY <3>1, LinesType
            <4>2. QED BY <4>1, SentType
        <3>3. End(i - 1) < End(j)
            BY <1>4, <3>1, <3>2
        <3>4. i - 1 < j
            BY <3>2, <3>3, EndsAscend
        <3>5. QED BY <1>4, <3>4
    <2>3. QED BY <1>4, <2>1, <2>2
<1>9. Cardinality(Spoiled) \in Nat
    BY SpoiledType DEF IInv
<1>10. PICK m \in 0..Len(buffer) : m = Len(buffer)
    BY <1>4
<1>11. Framed(j, m)'
    BY <1>2, <1>4, <1>5, <1>10 DEF Framed
<1>12. \/ Clean(m)' /\ Cardinality(Spoiled) <= breaks'
       \/ Glued(j, m)' /\ Cardinality(Spoiled) + 1 <= breaks'
    <2>1. CASE \A k \in 1..Len(buffer) : buffer[k] # Stx
        <3>1. Cardinality(Spoiled) <= breaks'
            BY <1>1, <1>4, <1>5, <1>9 DEF DealtWith
        <3>2. QED BY <1>5, <1>10, <2>1, <3>1 DEF Clean
    <2>2. CASE /\ Len(buffer) >= 2 /\ buffer[1] = Stx
               /\ \A k \in 2..Len(buffer) : buffer[k] # Etx
        <3> DEFINE Ahead == /\ buffer[2] \in 1..j
                            /\ \A k \in 1..Len(buffer) : buffer[k] \in LineByte
                            /\ \A k \in DOMAIN delivered : Head(delivered[k]) < buffer[2]
        <3>1. Ahead /\ Cardinality(Spoiled) + 1 <= breaks'
            <4>1. CASE Glued(i, n)
                <5>1. /\ n >= 2 /\ n <= Len(buffer) /\ buffer[2] \in 1..i
                      /\ \A k \in 1..n : buffer[k] \in LineByte
                      /\ \A k \in DOMAIN delivered : Head(delivered[k]) < buffer[2]
                      /\ read >= End(i)
                    BY <4>1 DEF Glued
                <5>2. Cardinality(Spoiled) + 1 <= breaks
                    <6>1. 1 \in 1..n
                        BY <1>4, <5>1
                    <6>2. ~Clean(n)
                        BY <2>2, <6>1 DEF Clean
                    <6>3. QED BY <1>1, <6>2 DEF DealtWith
                <5>3. ASSUME NEW k \in 1..Len(buffer) PROVE buffer[k] \in LineByte
                    <6>1. CASE k <= n
                        <7>1. k \in 1..n
                            BY <1>4, <6>1
                        <7>2. QED BY <5>1, <7>1
                    <6>2. CASE k > n
                        <7>1. k \in (n + 1)..Len(buffer) /\ read > End(i)
                            BY <1>1, <1>4, <5>1, <6>2 DEF DealtWith, Framed
                        <7>2. buffer[k] \in {Stx, i + 1} /\ i < Lines
                            <8>1. /\ i < Lines /\ buffer[n + 1] = Stx
                                  /\ \A h \in (n + 2)..Len(buffer) : buffer[h] = i + 1
                                BY <1>1, <2>2, <7>1, OneLine DEF IInv, DealtWith
                            <8>2. k = n + 1 \/ k \in (n + 2)..Len(buffer)
                                BY <1>4, <7>1
                            <8>3. QED BY <8>1, <8>2
                        <7>3. i + 1 \in DOMAIN Bodies
                            BY <7>2, LinesType
                        <7>4. QED BY <7>2, <7>3 DEF LineByte
                    <6>3. QED BY <1>4, <6>1, <6>2
                <5>4. buffer[2] \in 1..j
                    BY <1>4, <1>8, <5>1
                <5>5. Cardinality(Spoiled) + 1 <= breaks'
                    BY <1>4, <1>5, <1>9, <5>2
                <5>6. QED BY <5>1, <5>3, <5>4, <5>5
            <4>2. CASE Clean(n) /\ Cardinality(Spoiled) <= breaks
                <5>1. n = 0
                    <6>1. ~(1 \in 1..n)
                        BY <2>2, <4>2 DEF Clean
                    <6>2. QED BY <1>4, <6>1
                <5>2. read > End(i)
                    BY <1>1, <1>4, <2>2, <5>1 DEF DealtWith, Framed
                <5>3. /\ i < Lines /\ buffer[1] = Stx
                      /\ \A h \in 2..Len(buffer) : buffer[h] = i + 1
                    <6>1. /\ i < Lines
                          /\ \A h \in (n + 2)..Len(buffer) : buffer[h] = i + 1
                        BY <1>1, <2>2, <5>2, OneLine DEF IInv, DealtWith
                    <6>2. n + 2 = 2
                        BY <5>1
                    <6>3. QED BY <2>2, <6>1, <6>2
                <5>4. buffer[2] = i + 1 /\ i + 1 \in DOMAIN Bodies
                    <6>1. 2 \in 2..Len(buffer)
                        BY <1>4, <2>2
                    <6>2. QED BY <5>3, <6>1, LinesType
                <5>5. \A k \in 1..Len(buffer) : buffer[k] \in LineByte
                    <6>1. \A k \in 1..Len(buffer) : k = 1 \/ k \in 2..Len(buffer)
                        BY <1>4
                    <6>2. QED BY <5>3, <5>4, <6>1 DEF LineByte
                <5>6. i < j
                    <6>1. End(i) < End(j)
                        BY <1>4, <5>2
                    <6>2. QED BY <6>1, EndsAscend
                <5>7. i + 1 \in 1..j
                    BY <1>4, <5>6
                <5>8. \A k \in DOMAIN delivered : Head(delivered[k]) < i + 1
                    <6>1. \A k \in DOMAIN delivered : Head(delivered[k]) <= i /\ Head(delivered[k]) \in Nat
                        BY <1>1, HeadsBehind DEF IInv
                    <6>2. QED BY <1>4, <6>1
                <5>9. Cardinality(Spoiled) + 1 <= breaks'
                    BY <1>4, <1>5, <1>9, <4>2
                <5>10. QED BY <5>4, <5>5, <5>7, <5>8, <5>9
            <4>3. QED BY <1>1, <4>1, <4>2 DEF DealtWith
        <3>2. Glued(j, m)'
            <4>1. read' >= End(j)
                BY <1>2, <1>4
            <4>2. QED BY <1>5, <1>10, <2>2, <3>1, <4>1 DEF Glued
        <3>3. QED BY <3>1, <3>2
    <2>3. QED BY <1>5, <2>1, <2>2 DEF IInv, Kept
<1>13. DealtWith(j, m)'
    <2>1. dangling' \subseteq 1..j
        BY <1>1, <1>4, <1>5, <1>8 DEF DealtWith
    <2>2. \A k \in DOMAIN delivered' : Head(delivered'[k]) <= j
        <3>1. \A k \in DOMAIN delivered : Head(delivered[k]) <= i /\ Head(delivered[k]) \in Nat
            BY <1>1, HeadsBehind DEF IInv
        <3>2. QED BY <1>4, <1>5, <1>8, <3>1
    <2>3. read' >= End(j) /\ breaks' # 0
        BY <1>2, <1>4, <1>5
    <2>4. QED BY <1>7, <1>11, <1>12, <2>1, <2>2, <2>3 DEF DealtWith
<1>14. m \in 0..Len(buffer')
    BY <1>5
<1>15. QED BY <1>6, <1>7, <1>13, <1>14 DEF IInv

-----------------------------------------------------------------------------
(* The LINE_DELIM_END found is the one of the line after the i dealt with.  *)
LEMMA EndOfLine ==
    ASSUME StateType, NEW i \in 0..Lines, NEW n \in 0..Len(buffer), DealtWith(i, n), Position(Stx) > 0,
           NEW q \in (Position(Stx) + 1)..Len(buffer), buffer[q] = Etx,
           \A k \in (Position(Stx) + 1)..(q - 1) : buffer[k] # Etx
    PROVE  i < Lines /\ End(i + 1) <= read /\ q = n + (End(i + 1) - End(i))
<1>1. PICK p \in 1..Len(buffer), e \in Nat, l \in Nat :
        /\ p = Position(Stx) /\ e = End(i) /\ l = Len(buffer)
        /\ p = 1 \/ p = n + 1
        /\ l = n + (read - e) /\ read >= e
    <2>1. Len(buffer) \in Nat /\ n \in Nat /\ read \in Nat /\ End(i) \in Nat
        BY StreamBytes, FrameBehind DEF StateType
    <2>2. Position(Stx) \in 1..Len(buffer)
        BY StartOfLine
    <2>3. CASE Clean(n)
        <3>1. Position(Stx) = n + 1 /\ read > End(i) /\ Len(buffer) = n + (read - End(i))
            BY <2>3, StartOfLine
        <3>2. read >= End(i)
            BY <2>1, <3>1
        <3>3. QED BY <2>1, <2>2, <3>1, <3>2
    <2>4. CASE Glued(i, n)
        <3>1. Position(Stx) = 1 /\ read >= End(i) /\ Len(buffer) = n + (read - End(i))
            BY <2>4, StartOfLine DEF Glued
        <3>2. QED BY <2>1, <2>2, <3>1
    <2>5. QED BY <2>3, <2>4 DEF DealtWith
<1>2. n \in Nat /\ read \in Nat /\ read <= Len(Stream) /\ q \in Nat /\ q <= l /\ q > p /\ p \in Nat
    <2>1. read \in Nat /\ read <= Len(Stream)
        BY StreamBytes DEF StateType
    <2>2. q \in (p + 1)..l /\ p \in 1..l /\ n \in 0..l
        BY <1>1
    <2>3. n \in Nat /\ p \in Nat /\ q \in Nat /\ q <= l /\ q > p
        BY <1>1, <2>2
    <2>4. QED BY <2>1, <2>3
<1>3. q > n
    <2>1. CASE Clean(n)
        BY <1>1, <1>2, <2>1, StartOfLine
    <2>2. CASE Glued(i, n)
        <3>1. q \in 1..n => buffer[q] \in LineByte
            BY <2>2 DEF Glued
        <3>2. Etx \notin LineByte
            BY DelimiterAssumption DEF LineByte
        <3>3. QED BY <1>1, <1>2, <3>1, <3>2
    <2>3. QED BY <2>1, <2>2 DEF DealtWith
<1>4. read > e /\ i < Lines
    <2>1. read > e
        BY <1>1, <1>2, <1>3
    <2>2. QED BY <1>1, <1>2, <2>1, FrameBehind, StreamBytes
<1>5. PICK f \in Nat : f = End(i + 1) /\ f >= e + 3
    BY <1>1, <1>4, FrameBehind
<1>n. /\ p \in Nat /\ e \in Nat /\ l \in Nat /\ n \in Nat /\ read \in Nat /\ q \in Nat /\ f \in Nat
      /\ p = 1 \/ p = n + 1
      /\ l = n + (read - e) /\ q <= l /\ q > p /\ q > n /\ f >= e + 3
    BY <1>1, <1>2, <1>3, <1>5
<1>6. /\ Stream[e + 1] = Stx /\ Stream[f] = Etx
      /\ \A k \in (e + 2)..(f - 1) : Stream[k] = i + 1
      /\ i + 1 \in 1..Lines
    BY <1>1, <1>4, <1>5, FrameBehind
<1>7. \A k \in (n + 1)..l : buffer[k] = Stream[e + k - n]
    BY <1>1 DEF DealtWith, Framed
<1>8. ASSUME e + q - n < f PROVE FALSE
    <2>1. e + q - n = e + 1 \/ e + q - n \in (e + 2)..(f - 1)
        BY <1>2, <1>3, <1>8
    <2>2. Stream[e + q - n] \in {Stx, i + 1}
        BY <1>6, <2>1
    <2>3. q \in (n + 1)..l
        BY <1>2, <1>3
    <2>4. QED BY <1>6, <1>7, <2>2, <2>3, Distinct
<1>9. ASSUME e + q - n > f PROVE FALSE
    <2>1. PICK k \in Nat : k = n + (f - e)
        BY <1>2, <1>5
    <2>2. k < q /\ k > n /\ k > p
        <3>1. k < q
            BY <1>n, <1>9, <2>1
        <3>2. k >= n + 3
            BY <1>n, <2>1
        <3>3. QED BY <1>n, <3>1, <3>2
    <2>3. e + k - n = f
        BY <1>2, <2>1
    <2>4. k \in (p + 1)..(q - 1) /\ k \in (n + 1)..l
        BY <1>2, <2>2
    <2>5. QED BY <1>1, <1>6, <1>7, <2>3, <2>4
<1>10. q = n + (f - e) /\ f <= read
    <2>1. e + q - n = f
        BY <1>n, <1>8, <1>9
    <2>2. q = n + (f - e)
        BY <1>n, <2>1
    <2>3. QED BY <1>n, <2>2
<1>11. QED BY <1>1, <1>4, <1>5, <1>10

(* What a turn of the loop with a line in it does: line i + 1 is handed on, *)
(* or the line it was glued to; what remains was sent behind it.             *)
FoundLine(i, l) ==
    /\ i < Lines /\ End(i + 1) <= read
    /\ l \in Seq(LineByte) /\ l # <<>>
    /\ delivered' = Append(delivered, l)
    /\ buffer' \in Seq(Byte)
    /\ \/ l = Bodies[i + 1] /\ Cardinality(Spoiled) <= breaks
       \/ /\ Head(l) \in 1..i /\ \A k \in DOMAIN delivered : Head(delivered[k]) < Head(l)
          /\ Cardinality(Spoiled) + 1 <= breaks

LEMMA ScanLineFinds ==
    ASSUME StateType, DeliveredInOrder, ScanLine,
           NEW i \in 0..Lines, NEW n \in 0..Len(buffer), DealtWith(i, n)
    PROVE  Framed(i + 1, 0)' /\ \E l : FoundLine(i, l)
<1>1. /\ buffer \in Seq(Byte) /\ Len(buffer) \in Nat /\ n \in Nat /\ read \in Nat /\ Position(Stx) > 0
      /\ i \in Nat /\ End(i) \in Nat
    BY StreamBytes, LinesType, FrameBehind DEF StateType, ScanLine
<1>2. PICK p \in 1..Len(buffer) : p = Position(Stx)
    BY StartOfLine, <1>1
<1> DEFINE rest == SubSeq(buffer, p + 1, Len(buffer))
           end == Memchr(rest, Etx)
           line == SubSeq(rest, 1, end - 1)
<1>3. /\ rest \in Seq(Byte) /\ Len(rest) = Len(buffer) - p
      /\ \A k \in 1..(Len(buffer) - p) : rest[k] = buffer[p + k]
    <2>1. p \in 0..Len(buffer)
        BY <1>1
    <2>2. QED BY <1>1, <2>1, SuffixBytes
<1>4. /\ end > 0 /\ delivered' = Append(delivered, line)
      /\ buffer' = SubSeq(rest, end + 1, Len(rest))
      /\ UNCHANGED <<pc, read, dangling, breaks>>
    BY <1>2 DEF ScanLine
<1> HIDE DEF rest
<1>5. PICK m \in 1..Len(rest) :
        /\ m = end /\ rest[m] = Etx
        /\ \A k \in 1..(m - 1) : rest[k] # Etx
    <2>1. /\ end \in 0..Len(rest)
          /\ end > 0 => rest[end] = Etx /\ \A k \in 1..(end - 1) : rest[k] # Etx
        BY <1>3, MemchrFinds
    <2> HIDE DEF end
    <2>2. end \in 1..Len(rest)
        BY <1>3, <1>4, <2>1
    <2>3. QED BY <1>4, <2>1, <2>2
<1> HIDE DEF end
<1>6. PICK q \in (p + 1)..Len(buffer) : q = p + m
    BY <1>1, <1>3, <1>5
<1>7. m \in Nat /\ q \in Nat /\ p \in Nat /\ m >= 1 /\ p >= 1 /\ q = p + m /\ m <= Len(buffer) - p
    BY <1>1, <1>3, <1>5, <1>6
<1>8. i < Lines /\ End(i + 1) <= read /\ q = n + (End(i + 1) - End(i))
    <2>1. buffer[q] = Etx
        BY <1>1, <1>3, <1>5, <1>6
    <2>2. ASSUME NEW k \in (p + 1)..(q - 1) PROVE buffer[k] # Etx
        <3>1. PICK h \in 1..(m - 1) : h = k - p
            BY <1>7
        <3>2. k = p + h /\ h \in 1..(Len(buffer) - p)
            BY <1>1, <1>7, <3>1
        <3>3. QED BY <1>3, <1>5, <3>2
    <2>3. QED BY <1>1, <1>2, <1>6, <2>1, <2>2, EndOfLine
<1>9. PICK e \in Nat, f \in Nat, b \in Nat :
        /\ e = End(i) /\ f = End(i + 1) /\ b = Len(Bodies[i + 1])
        /\ f = e + b + 2 /\ f <= read /\ q = n + (f - e) /\ f >= e + 3
    <2>1. i + 1 \in 1..Lines
        BY <1>8, FrameBehind
    <2>2. Bodies[i + 1] \in Seq(Nat)
        BY <2>1, LinesType, BodiesAssumption
    <2>3. Len(Bodies[i + 1]) \in Nat
        BY <2>2
    <2>4. /\ End(i + 1) \in Nat /\ End(i + 1) >= End(i) + 3
          /\ End(i + 1) = End(i) + Len(Bodies[i + 1]) + 2
        BY <1>8, FrameBehind
    <2>5. QED BY <1>1, <1>8, <2>3, <2>4
<1>10. /\ i + 1 \in 1..Lines /\ (i + 1) \in 0..Lines
       /\ Stream[e + 1] = Stx /\ Stream[f] = Etx
       /\ \A k \in (e + 2)..(f - 1) : Stream[k] = i + 1
    <2>1. /\ i + 1 \in 1..Lines
          /\ Stream[End(i) + 1] = Stx /\ Stream[End(i + 1)] = Etx
          /\ \A k \in (End(i) + 2)..(End(i + 1) - 1) : Stream[k] = i + 1
        BY <1>8, FrameBehind
    <2>2. QED BY <1>9, <2>1, LinesType
<1>f. /\ e \in Nat /\ f \in Nat /\ b \in Nat /\ n \in Nat /\ read \in Nat
      /\ m \in Nat /\ q \in Nat /\ p \in Nat
      /\ f = e + b + 2 /\ f <= read /\ q = n + (f - e) /\ f >= e + 3
      /\ m >= 1 /\ p >= 1 /\ q = p + m
    BY <1>1, <1>7, <1>9
<1>11. /\ Len(buffer) = n + (read - e)
       /\ \A k \in (n + 1)..Len(buffer) : buffer[k] = Stream[e + k - n]
    <2>1. /\ Len(buffer) = n + (IF read >= End(i) THEN read - End(i) ELSE 0)
          /\ \A k \in (n + 1)..Len(buffer) : buffer[k] = Stream[End(i) + k - n]
        BY DEF DealtWith, Framed
    <2>2. read >= e
        BY <1>f
    <2>3. e = End(i)
        BY <1>9
    <2>4. QED BY <2>1, <2>2, <2>3
<1>12. /\ buffer' \in Seq(Byte) /\ Len(buffer') = Len(rest) - m
       /\ \A k \in 1..(Len(rest) - m) : buffer'[k] = rest[m + k]
    <2>1. m \in 0..Len(rest) /\ rest \in Seq(Byte)
        BY <1>3, <1>5
    <2>2. buffer' = SubSeq(rest, m + 1, Len(rest))
        BY <1>4, <1>5
    <2>3. /\ SubSeq(rest, m + 1, Len(rest)) \in Seq(Byte)
          /\ Len(SubSeq(rest, m + 1, Len(rest))) = Len(rest) - m
          /\ \A k \in 1..(Len(rest) - m) : SubSeq(rest, m + 1, Len(rest))[k] = rest[m + k]
        BY <2>1, SuffixBytes
    <2>4. QED BY <2>2, <2>3, Zenon
<1>n. PICK L \in Nat, t \in Nat : L = Len(buffer) /\ L = n + (read - e) /\ q <= L /\ t = L - q
    <2>1. Len(buffer) \in Nat /\ q \in Nat /\ q <= Len(buffer)
        BY <1>1, <1>6
    <2>2. Len(buffer) - q \in Nat
        BY <2>1
    <2>3. QED BY <1>11, <2>1, <2>2
<1>13. Framed(i + 1, 0)'
    <2>1. t = read - f
        BY <1>f, <1>n
    <2>2. t = Len(rest) - m /\ t = Len(buffer')
        <3>1. t = (L - p) - m
            BY <1>7, <1>n
        <3>2. QED BY <1>3, <1>12, <1>n, <3>1
    <2>3. ASSUME NEW k \in 1..t PROVE buffer'[k] = Stream[f + k - 0]
        <3>1. m + k \in 1..(Len(buffer) - p) /\ k \in 1..(Len(rest) - m)
            <4>1. k \in Nat /\ k >= 1 /\ k <= t /\ m + k \in Nat /\ m + k >= 1
                BY <1>7
            <4>2. m + k <= L - p
                BY <1>f, <1>n, <4>1
            <4>3. k \in 1..t /\ 1..t = 1..(Len(rest) - m)
                BY <2>2
            <4>4. QED BY <1>f, <1>n, <4>1, <4>2, <4>3
        <3>2. buffer'[k] = buffer[p + (m + k)]
            BY <1>3, <1>12, <3>1
        <3>3. p + (m + k) = q + k /\ q + k \in (n + 1)..Len(buffer)
            <4>1. k \in Nat /\ k >= 1 /\ k <= t
                OBVIOUS
            <4>2. q + k <= L /\ p + (m + k) = q + k
                BY <1>7, <1>n, <4>1
            <4>3. q + k >= n + 1
                BY <1>f, <4>1
            <4>4. QED BY <1>1, <1>7, <1>n, <4>1, <4>2, <4>3
        <3>4. e + (q + k) - n = f + k - 0
            <4>1. k \in Nat /\ q - n = f - e
                BY <1>f
            <4>2. QED BY <1>f, <4>1
        <3>5. QED BY <1>11, <3>2, <3>3, <3>4
    <2>4. t = 0 + (IF read >= f THEN read - f ELSE 0) /\ 0 \in 0..t
        BY <1>1, <1>9, <1>n, <2>1
    <2>5. /\ read' = read /\ End(i + 1) = f
          /\ i + 1 \in 0..Lines
        BY <1>4, <1>9, <1>10
    <2>6. PICK u \in Nat : u = read' /\ u = read
        BY <1>1, <2>5
    <2>7. 0 \in 0..Len(buffer') /\ Len(buffer') = 0 + (IF u >= End(i + 1) THEN u - End(i + 1) ELSE 0)
        BY <2>2, <2>4, <2>5, <2>6
    <2>8. \A k \in (0 + 1)..Len(buffer') : buffer'[k] = Stream[End(i + 1) + k - 0]
        <3>1. (0 + 1)..Len(buffer') = 1..t
            BY <2>2
        <3>2. QED BY <2>3, <2>5, <3>1
    <2>9. QED BY <2>5, <2>6, <2>7, <2>8 DEF Framed
<1>14. /\ line \in Seq(Byte) /\ Len(line) = m - 1
       /\ \A k \in 1..(m - 1) : line[k] = buffer[p + k]
    <2>1. m - 1 \in 0..Len(rest)
        BY <1>3, <1>5, <1>7
    <2>2. /\ line \in Seq(Byte) /\ Len(line) = m - 1
          /\ \A k \in 1..(m - 1) : line[k] = rest[k]
        BY <1>3, <1>5, <2>1, PrefixBytes
    <2>3. \A k \in 1..(m - 1) : k \in 1..(Len(buffer) - p)
        BY <1>1, <1>7
    <2>4. QED BY <1>3, <2>2, <2>3
<1> HIDE DEF line
<1>15. CASE Clean(n)
    <2>1. p = n + 1 /\ Cardinality(Spoiled) <= breaks
        <3>1. p = n + 1
            BY <1>1, <1>2, <1>15, StartOfLine
        <3>2. ~Glued(i, n)
            <4>1. n >= 2 => 1 \in 1..n
                BY <1>1
            <4>2. QED BY <1>15, <4>1 DEF Clean, Glued
        <3>3. QED BY <3>1, <3>2 DEF DealtWith
    <2>2. m - 1 = b
        <3>1. n + 1 + m = n + (b + 2)
            BY <1>f, <2>1
        <3>2. QED BY <1>f, <3>1
    <2>3. ASSUME NEW k \in 1..b PROVE line[k] = i + 1
        <3>1. e + (p + k) - n \in (e + 2)..(f - 1)
            <4>1. k \in Nat /\ k >= 1 /\ k <= b
                BY <1>9
            <4>2. e + (p + k) - n = e + 1 + k
                BY <1>1, <1>7, <1>9, <2>1, <4>1
            <4>3. e + 1 + k >= e + 2 /\ e + 1 + k <= f - 1 /\ e + 1 + k \in Int
                BY <1>f, <4>1
            <4>4. QED BY <1>9, <4>2, <4>3
        <3>2. p + k \in (n + 1)..Len(buffer)
            <4>1. k \in Nat /\ k >= 1 /\ k <= m - 1
                BY <1>f, <2>2
            <4>2. p + k <= L /\ p + k >= n + 1
                BY <1>1, <1>7, <1>n, <2>1, <4>1
            <4>3. QED BY <1>1, <1>7, <1>n, <4>1, <4>2
        <3>3. QED BY <1>10, <1>11, <1>14, <2>2, <3>1, <3>2
    <2>4. /\ Bodies[i + 1] \in Seq(Nat) /\ Bodies[i + 1] # <<>>
          /\ \A k \in 1..b : Bodies[i + 1][k] = i + 1
        <3>1. i + 1 \in DOMAIN Bodies
            BY <1>10, LinesType
        <3>2. Bodies[i + 1] \in Seq(Nat)
            BY <3>1, BodiesAssumption
        <3>3. DOMAIN Bodies[i + 1] = 1..b
            <4>1. b = Len(Bodies[i + 1])
                BY <1>9
            <4>2. QED BY <3>2, <4>1
        <3>4. QED BY <3>1, <3>2, <3>3, BodiesAssumption
    <2>5. line = Bodies[i + 1]
        <3>1. Len(line) = Len(Bodies[i + 1]) /\ \A k \in 1..Len(line) : line[k] = Bodies[i + 1][k]
            BY <1>9, <1>14, <2>2, <2>3, <2>4
        <3>2. Bodies[i + 1] \in Seq(Byte)
            <4>1. i + 1 \in Byte
                BY <1>10, LinesType DEF Byte
            <4>2. b = Len(Bodies[i + 1])
                BY <1>9
            <4>3. \A k \in 1..Len(Bodies[i + 1]) : Bodies[i + 1][k] \in Byte
                BY <2>4, <4>1, <4>2
            <4>4. QED BY <2>4, <4>3, BytesOf
        <3>3. line \in Seq(Byte)
            BY <1>14
        <3>4. QED BY <3>1, <3>2, <3>3, SeqEqual
    <2>6. line \in Seq(LineByte)
        <3>1. i + 1 \in LineByte
            BY <1>10, LinesType DEF LineByte
        <3>2. \A k \in 1..Len(line) : line[k] \in LineByte
            BY <1>14, <2>2, <2>3, <3>1
        <3>3. QED BY <1>14, <3>2
    <2>7. FoundLine(i, line)
        BY <1>4, <1>8, <1>12, <2>1, <2>4, <2>5, <2>6 DEF FoundLine
    <2>8. QED BY <1>13, <2>7
<1>16. CASE Glued(i, n) /\ Cardinality(Spoiled) + 1 <= breaks
    <2>1. /\ p = 1 /\ n >= 2 /\ buffer[2] \in 1..i /\ \A k \in 1..n : buffer[k] \in LineByte
          /\ \A k \in DOMAIN delivered : Head(delivered[k]) < buffer[2]
        BY <1>1, <1>2, <1>16, StartOfLine DEF Glued
    <2>2. m - 1 >= 1 /\ m - 1 = n + (f - e) - 2
        <3>1. m = n + (f - e) - 1
            BY <1>f, <2>1
        <3>2. QED BY <1>f, <2>1, <3>1
    <2>3. ASSUME NEW k \in 1..(m - 1) PROVE line[k] \in LineByte
        <3>1. line[k] = buffer[p + k]
            BY <1>14
        <3>2. CASE p + k <= n
            BY <1>7, <2>1, <3>1, <3>2
        <3>3. CASE p + k > n
            <4>1. p + k \in (n + 1)..Len(buffer)
                BY <1>1, <1>7, <3>3
            <4>2. e + (p + k) - n = e + 1 \/ e + (p + k) - n \in (e + 2)..(f - 1)
                <5>1. PICK h \in Nat : h = (1 + k) - n /\ h >= 1
                    BY <1>1, <1>7, <2>1, <3>3
                <5>2. e + (p + k) - n = e + h
                    BY <1>1, <1>7, <1>9, <2>1, <5>1
                <5>3. k <= n + (f - e) - 2 /\ k \in Nat
                    BY <2>2
                <5>4. e + h <= f - 1
                    BY <1>f, <5>1, <5>3
                <5>5. e + h = e + 1 \/ e + h \in (e + 2)..(f - 1)
                    BY <1>f, <5>1, <5>4
                <5>6. QED BY <5>2, <5>5
            <4>3. line[k] \in {Stx, i + 1}
                BY <1>10, <1>11, <3>1, <4>1, <4>2
            <4>4. QED BY <1>10, <4>3, LinesType DEF LineByte
        <3>4. QED BY <1>1, <1>7, <3>2, <3>3
    <2>4. line \in Seq(LineByte)
        BY <1>14, <2>3
    <2>5. line # <<>> /\ Head(line) = buffer[2]
        <3>1. line # <<>>
            BY <1>14, <2>2
        <3>2. Head(line) = line[1]
            BY <1>14, <3>1
        <3>3. 1 \in 1..(m - 1) /\ p + 1 = 2
            BY <1>7, <2>1, <2>2
        <3>4. QED BY <1>14, <3>1, <3>2, <3>3
    <2>6. FoundLine(i, line)
        BY <1>4, <1>8, <1>12, <1>16, <2>1, <2>4, <2>5 DEF FoundLine
    <2>7. QED BY <1>13, <2>6
<1>17. QED BY <1>15, <1>16 DEF DealtWith

LEMMA AppendBytes ==
    ASSUME NEW S, NEW s \in Seq(S), NEW x \in S
    PROVE  /\ Append(s, x) \in Seq(S) /\ DOMAIN s = 1..Len(s) /\ Len(s) \in Nat
           /\ DOMAIN Append(s, x) = 1..(Len(s) + 1)
           /\ \A k \in 1..Len(s) : Append(s, x)[k] = s[k]
           /\ Append(s, x)[Len(s) + 1] = x
OBVIOUS

(* A line is handed on that begins later in the stream than all before it. *)
LEMMA LineHandedOn ==
    ASSUME DeliveredInOrder, NEW l \in Seq(LineByte), l # <<>>, Head(l) \in 1..Lines,
           \A k \in DOMAIN delivered : Head(delivered[k]) < Head(l),
           delivered' = Append(delivered, l)
    PROVE  /\ DeliveredInOrder'
           /\ ToSet(delivered') = ToSet(delivered) \cup {l}
           /\ \A k \in DOMAIN delivered' : (k \in DOMAIN delivered /\ delivered'[k] = delivered[k]) \/ delivered'[k] = l
           /\ l \in ToSet(Bodies) => Spoiled' = Spoiled
           /\ Spoiled' \subseteq Spoiled \cup {Len(delivered) + 1}
<1>1. /\ delivered \in Seq(Seq(LineByte)) /\ DOMAIN delivered = 1..Len(delivered) /\ Len(delivered) \in Nat
      /\ \A k \in DOMAIN delivered : delivered[k] # <<>> /\ Head(delivered[k]) \in 1..Lines
      /\ \A j, k \in DOMAIN delivered : j < k => Head(delivered[j]) < Head(delivered[k])
    BY DEF DeliveredInOrder
<1>2. PICK d : d = delivered'
    OBVIOUS
<1>3. /\ d \in Seq(Seq(LineByte)) /\ DOMAIN d = 1..(Len(delivered) + 1)
      /\ \A k \in 1..Len(delivered) : d[k] = delivered[k]
      /\ d[Len(delivered) + 1] = l
    <2>1. /\ Append(delivered, l) \in Seq(Seq(LineByte))
          /\ DOMAIN Append(delivered, l) = 1..(Len(delivered) + 1)
          /\ \A k \in 1..Len(delivered) : Append(delivered, l)[k] = delivered[k]
          /\ Append(delivered, l)[Len(delivered) + 1] = l
        BY <1>1, AppendBytes
    <2>2. d = Append(delivered, l)
        BY <1>2
    <2>3. QED BY <2>1, <2>2
<1>4. \A k \in DOMAIN d : (k \in DOMAIN delivered /\ d[k] = delivered[k]) \/ (k = Len(delivered) + 1 /\ d[k] = l)
    <2>1. \A k \in 1..(Len(delivered) + 1) : k \in 1..Len(delivered) \/ k = Len(delivered) + 1
        BY <1>1
    <2>2. QED BY <1>1, <1>3, <2>1
<1>5. DeliveredInOrder'
    <2>1. \A k \in DOMAIN d : d[k] # <<>> /\ Head(d[k]) \in 1..Lines
        BY <1>1, <1>4
    <2>2. ASSUME NEW j \in DOMAIN d, NEW k \in DOMAIN d, j < k PROVE Head(d[j]) < Head(d[k])
        <3>1. j \in DOMAIN delivered /\ d[j] = delivered[j]
            BY <1>1, <1>3, <2>2
        <3>2. QED BY <1>1, <1>4, <2>2, <3>1
    <2>3. QED BY <1>2, <1>3, <2>1, <2>2 DEF DeliveredInOrder
<1>6. ToSet(d) = ToSet(delivered) \cup {l}
    <2>1. \A k \in DOMAIN delivered : k \in DOMAIN d /\ d[k] = delivered[k]
        BY <1>1, <1>3
    <2>2. Len(delivered) + 1 \in DOMAIN d
        BY <1>1, <1>3
    <2>3. QED BY <1>3, <1>4, <2>1, <2>2, Zenon DEF ToSet
<1>7. \A k \in DOMAIN d : d[k] \notin ToSet(Bodies) => k \in Spoiled \/ (k = Len(delivered) + 1 /\ l \notin ToSet(Bodies))
    BY <1>4 DEF Spoiled
<1>8. \A k \in Spoiled : k \in DOMAIN d /\ d[k] \notin ToSet(Bodies)
    BY <1>1, <1>3 DEF Spoiled
<1>9. Spoiled' = {k \in DOMAIN d : d[k] \notin ToSet(Bodies)}
    BY <1>2 DEF Spoiled
<1>10. QED BY <1>2, <1>4, <1>5, <1>6, <1>7, <1>8, <1>9

LEMMA ScanLineIInv == IInv /\ ScanLine => IInv'
<1> SUFFICES ASSUME IInv, ScanLine PROVE IInv'
    OBVIOUS
<1>1. PICK i \in 0..Lines, n \in 0..Len(buffer) : DealtWith(i, n)
    BY DEF IInv
<1>2. /\ StateType /\ DeliveredInOrder
      /\ UNCHANGED <<pc, read, dangling, breaks>> /\ before' = Nul /\ pc = "scan"
    BY DEF IInv, ScanLine
<1>3. Framed(i + 1, 0)' /\ \E l : FoundLine(i, l)
    BY <1>1, <1>2, ScanLineFinds
<1>4. PICK l : FoundLine(i, l)
    BY <1>3
<1>5. /\ i < Lines /\ End(i + 1) <= read /\ End(i + 1) \in Nat
      /\ l \in Seq(LineByte) /\ l # <<>>
      /\ delivered' = Append(delivered, l) /\ buffer' \in Seq(Byte)
      /\ i + 1 \in 1..Lines /\ i + 1 \in 0..Lines /\ i \in Nat /\ breaks \in Nat /\ read \in Nat
    BY <1>2, <1>4, FrameBehind, LinesType, StreamBytes, BoundsAssumption DEF FoundLine, StateType
<1>6. \A k \in DOMAIN delivered : Head(delivered[k]) <= i /\ Head(delivered[k]) \in Nat
    BY <1>1, <1>2, HeadsBehind
<1>7. l = Bodies[i + 1] => Head(l) = i + 1 /\ l \in ToSet(Bodies)
    <2> SUFFICES ASSUME l = Bodies[i + 1] PROVE Head(l) = i + 1 /\ l \in ToSet(Bodies)
        OBVIOUS
    <2>1. i + 1 \in DOMAIN Bodies
        BY <1>5, LinesType
    <2>2. 1 \in DOMAIN l /\ Head(l) = l[1]
        BY <1>5
    <2>3. l[1] = i + 1
        BY <2>1, <2>2, BodiesAssumption
    <2>4. QED BY <2>1, <2>2, <2>3 DEF ToSet
<1>8. /\ Head(l) \in 1..(i + 1) /\ Head(l) \in 1..Lines
      /\ \A k \in DOMAIN delivered : Head(delivered[k]) < Head(l)
    <2>1. CASE l = Bodies[i + 1]
        BY <1>5, <1>6, <1>7, <2>1
    <2>2. CASE Head(l) \in 1..i /\ \A k \in DOMAIN delivered : Head(delivered[k]) < Head(l)
        BY <1>5, <2>2, LinesType
    <2>3. QED BY <1>4, <2>1, <2>2 DEF FoundLine
<1>9. /\ DeliveredInOrder'
      /\ ToSet(delivered') = ToSet(delivered) \cup {l}
      /\ \A k \in DOMAIN delivered' : (k \in DOMAIN delivered /\ delivered'[k] = delivered[k]) \/ delivered'[k] = l
      /\ l \in ToSet(Bodies) => Spoiled' = Spoiled
      /\ Spoiled' \subseteq Spoiled \cup {Len(delivered) + 1}
    BY <1>2, <1>5, <1>8, LineHandedOn
<1>10. StateType' /\ Kept'
    BY <1>2, <1>5 DEF StateType, Kept
<1>11. Cardinality(Spoiled') <= breaks
    <2>1. IsFiniteSet(Spoiled) /\ Cardinality(Spoiled) \in Nat
        BY <1>2, SpoiledType
    <2>2. CASE l = Bodies[i + 1] /\ Cardinality(Spoiled) <= breaks
        BY <1>7, <1>9, <2>2
    <2>3. CASE Cardinality(Spoiled) + 1 <= breaks
        <3> DEFINE more == Spoiled \cup {Len(delivered) + 1}
        <3>1. IsFiniteSet(more) /\ Cardinality(more) <= Cardinality(Spoiled) + 1 /\ Cardinality(more) \in Nat
            <4>1. /\ IsFiniteSet(more)
                  /\ Cardinality(more) = IF Len(delivered) + 1 \in Spoiled THEN Cardinality(Spoiled)
                                         ELSE Cardinality(Spoiled) + 1
                BY <2>1, FS_AddElement
            <4> HIDE DEF more
            <4>2. QED BY <2>1, <4>1
        <3>2. Cardinality(Spoiled') <= Cardinality(more) /\ Cardinality(Spoiled') \in Nat
            <4>1. Spoiled' \in SUBSET more
                BY <1>9
            <4> HIDE DEF more
            <4>2. QED BY <3>1, <4>1, FS_Subset, FS_CardinalityType
        <3> HIDE DEF more
        <3>3. QED BY <1>5, <2>1, <2>3, <3>1, <3>2
    <2>4. QED BY <1>4, <2>2, <2>3 DEF FoundLine
<1>12. breaks = 0 => ToSet(delivered') = {Bodies[j] : j \in (1..(i + 1)) \ dangling}
    <2> SUFFICES ASSUME breaks = 0 PROVE ToSet(delivered') = {Bodies[j] : j \in (1..(i + 1)) \ dangling}
        OBVIOUS
    <2>1. Cardinality(Spoiled) \in Nat
        BY <1>2, SpoiledType
    <2>2. l = Bodies[i + 1]
        BY <1>4, <2>1 DEF FoundLine
    <2>3. ToSet(delivered) = {Bodies[j] : j \in (1..i) \ dangling} /\ dangling \subseteq 1..i
        BY <1>1 DEF DealtWith
    <2>4. (1..(i + 1)) \ dangling = ((1..i) \ dangling) \cup {i + 1}
        BY <1>5, <2>3
    <2>5. QED BY <1>9, <2>2, <2>3, <2>4
<1>13. DealtWith(i + 1, 0)'
    <2>1. Clean(0)'
        BY DEF Clean
    <2>2. dangling' \subseteq 1..(i + 1)
        BY <1>1, <1>2, <1>5 DEF DealtWith
    <2>3. \A k \in DOMAIN delivered' : Head(delivered'[k]) <= i + 1
        <3> TAKE k \in DOMAIN delivered'
        <3>1. CASE k \in DOMAIN delivered /\ delivered'[k] = delivered[k]
            BY <1>5, <1>6, <3>1
        <3>2. CASE delivered'[k] = l
            BY <1>5, <1>8, <3>2
        <3>3. QED BY <1>9, <3>1, <3>2
    <2>4. read' >= End(i + 1)
        BY <1>2, <1>5
    <2>5. breaks' = 0 => ToSet(delivered') = {Bodies[j] : j \in (1..(i + 1)) \ dangling'}
        BY <1>2, <1>12
    <2>6. QED BY <1>2, <1>3, <1>11, <2>1, <2>2, <2>3, <2>4, <2>5 DEF DealtWith
<1>14. i + 1 \in 0..Lines /\ 0 \in 0..Len(buffer')
    BY <1>5
<1>15. QED BY <1>9, <1>10, <1>13, <1>14 DEF IInv

-----------------------------------------------------------------------------
LEMMA NextIInv == IInv /\ [Next]_vars => IInv'
<1>1. ASSUME IInv, UNCHANGED vars PROVE IInv'
    <2>1. PICK i \in 0..Lines, n \in 0..Len(buffer) : DealtWith(i, n)
        BY <1>1 DEF IInv
    <2>2. StateType' /\ DeliveredInOrder' /\ Spoiled' = Spoiled /\ Kept'
        BY <1>1, SameLines DEF vars, IInv, StateType, Kept
    <2>3. n \in 0..Len(buffer') /\ DealtWith(i, n)'
        BY <1>1, <2>1, <2>2 DEF vars, DealtWith, Framed, Clean, Glued
    <2>4. QED BY <2>2, <2>3 DEF IInv
<1>2. QED
    BY <1>1, RecvIInv, ScanLineIInv, ScanPartialIInv, ScanDanglingIInv, ScanNothingIInv, MoveIInv, BreakIInv
       DEF Next, Scan

(* The inductive invariant: the buffer is at most one line that was broken  *)
(* off or bytes no line begins in, followed by the stream from the end of    *)
(* the last line dealt with.                                                 *)
THEOREM Invariance == Spec => []IInv
BY InitIInv, NextIInv, PTL DEF Spec

-----------------------------------------------------------------------------
(* Every byte in the buffer is one of the stream or the one in front of the *)
(* buffer, no line contains a LINE_DELIM_END, and the lines recorded as      *)
(* dangling are lines.                                                       *)
THEOREM TypeCorrect == Spec => []TypeOK
<1>1. ASSUME IInv PROVE TypeOK
    <2>1. PICK i \in 0..Lines, n \in 0..Len(buffer) : DealtWith(i, n)
        BY <1>1 DEF IInv
    <2>2. dangling \subseteq DOMAIN Bodies
        BY <2>1, LinesType DEF DealtWith
    <2>3. ToSet(buffer) \subseteq Byte
        BY <1>1 DEF IInv, StateType, ToSet
    <2>4. \A k \in DOMAIN delivered : ToSet(delivered[k]) \cap {Etx, Nul, Outside} = {}
        <3> TAKE k \in DOMAIN delivered
        <3>1. delivered[k] \in Seq(LineByte)
            BY <1>1 DEF IInv, DeliveredInOrder
        <3>2. ToSet(delivered[k]) \subseteq LineByte
            BY <3>1 DEF ToSet
        <3>3. QED BY <3>2, DelimiterAssumption DEF LineByte
    <2>5. QED BY <1>1, <2>2, <2>3, <2>4 DEF IInv, StateType, TypeOK, Byte
<1>2. QED BY <1>1, Invariance, PTL

(* At the top of the callback the lines read to their end are those dealt   *)
(* with, but for a line that was lost when only its first byte was read.     *)
LEMMA AllRead ==
    ASSUME IInv, pc = "recv", NEW i \in 0..Lines, NEW n \in 0..Len(buffer), DealtWith(i, n), Clean(n)
    PROVE  (1..LinesRead) \ dangling = (1..i) \ dangling
<1>1. /\ StateType /\ End(i) \in Nat /\ read \in Nat /\ read <= Len(Stream) /\ i \in Nat
      /\ Len(buffer) \in Nat /\ n \in Nat
    BY FrameBehind, StreamBytes, LinesType DEF IInv, StateType
<1>2. CASE read < End(i)
    <2>1. i \in dangling /\ read > End(i - 1) /\ i \in 1..i
        BY <1>1, <1>2 DEF DealtWith
    <2>2. i - 1 \in 0..Lines /\ i - 1 < Lines /\ (i - 1) + 1 = i
        BY <2>1, LinesType
    <2>3. LinesRead = i - 1
        <3>1. End(i - 1) \in Nat
            BY <2>2, SentType
        <3>2. End(i - 1) <= read
            BY <1>1, <2>1, <3>1
        <3>3. QED BY <1>1, <1>2, <2>2, <3>2, LinesReadIs
    <2>4. 1..i = (1..(i - 1)) \cup {i}
        BY <1>1, <2>1
    <2>5. QED BY <2>1, <2>3, <2>4
<1>3. CASE read >= End(i)
    <2>1. i < Lines => read < End(i + 1)
        <3> SUFFICES ASSUME i < Lines PROVE read < End(i + 1)
            OBVIOUS
        <3>1. End(i + 1) \in Nat /\ End(i + 1) >= End(i) + 3 /\ Stream[End(i) + 1] = Stx
            BY FrameBehind
        <3>2. CASE read = End(i)
            BY <1>1, <3>1, <3>2
        <3>3. CASE read > End(i)
            <4>1. Len(buffer) = n + (read - End(i)) /\ \A k \in (n + 1)..Len(buffer) : buffer[k] = Stream[End(i) + k - n]
                BY <1>1, <3>3 DEF DealtWith, Framed
            <4>2. n + 1 \in (n + 1)..Len(buffer) /\ n + 1 \in 1..Len(buffer) /\ End(i) + (n + 1) - n = End(i) + 1
                BY <1>1, <3>3, <4>1
            <4>3. buffer[n + 1] = Stx
                BY <3>1, <4>1, <4>2
            <4>4. \A k \in 2..Len(buffer) : buffer[k] # Etx
                BY <4>2, <4>3 DEF IInv, Kept
            <4>5. QED BY <1>1, <3>3, <4>4, OneLine DEF DealtWith
        <3>4. QED BY <1>1, <1>3, <3>2, <3>3
    <2>2. QED BY <1>1, <1>3, <2>1, LinesReadIs
<1>4. QED BY <1>1, <1>2, <1>3

(* However the stream is cut into chunks, the lines handed on are those read *)
(* to their end, whole and in order, but for the dangling ones.              *)
THEOREM LosesOnlyDangling == Spec => []LostOnlyWhenDangling
<1>1. ASSUME IInv, pc = "recv", breaks = 0
      PROVE  /\ ToSet(delivered) = {Bodies[i] : i \in (1..LinesRead) \ dangling}
             /\ \A j, k \in DOMAIN delivered : j < k => Head(delivered[j]) < Head(delivered[k])
    <2>1. PICK i \in 0..Lines, n \in 0..Len(buffer) : DealtWith(i, n)
        BY <1>1 DEF IInv
    <2>2. Cardinality(Spoiled) \in Nat
        BY <1>1, SpoiledType DEF IInv
    <2>3. Clean(n) /\ ToSet(delivered) = {Bodies[j] : j \in (1..i) \ dangling}
        BY <1>1, <2>1, <2>2 DEF DealtWith
    <2>4. (1..LinesRead) \ dangling = (1..i) \ dangling
        BY <1>1, <2>1, <2>3, AllRead
    <2>5. \A j, k \in DOMAIN delivered : j < k => Head(delivered[j]) < Head(delivered[k])
        BY <1>1 DEF IInv, DeliveredInOrder
    <2>6. QED BY <2>3, <2>4, <2>5
<1>2. IInv => LostOnlyWhenDangling
    BY <1>1 DEF LostOnlyWhenDangling
<1>3. QED BY <1>2, Invariance, PTL

(* Kept bytes are the beginning of one line, or no line begins in them. *)
THEOREM KeepsOneLine == Spec => []KeepsAtMostOneLine
<1>1. ASSUME IInv, pc = "recv"
      PROVE  \/ /\ buffer # <<>> /\ Head(buffer) = Stx
                /\ Etx \notin ToSet(Tail(buffer))
             \/ Stx \notin ToSet(buffer)
    <2>1. buffer \in Seq(Byte) /\ DOMAIN buffer = 1..Len(buffer)
        BY <1>1 DEF IInv, StateType
    <2>2. CASE \A k \in 1..Len(buffer) : buffer[k] # Stx
        BY <2>1, <2>2 DEF ToSet
    <2>3. CASE /\ Len(buffer) >= 2 /\ buffer[1] = Stx
               /\ \A k \in 2..Len(buffer) : buffer[k] # Etx
        <3>1. buffer # <<>> /\ Head(buffer) = buffer[1]
            BY <2>1, <2>3
        <3>2. ASSUME Etx \in ToSet(Tail(buffer)) PROVE FALSE
            <4>1. PICK k \in DOMAIN Tail(buffer) : Tail(buffer)[k] = Etx
                BY <3>2 DEF ToSet
            <4>2. k + 1 \in 2..Len(buffer) /\ buffer[k + 1] = Tail(buffer)[k]
                BY <2>1, <3>1, <4>1
            <4>3. QED BY <2>3, <4>1, <4>2
        <3>3. QED BY <2>3, <3>1, <3>2
    <2>4. QED BY <1>1, <2>2, <2>3 DEF IInv, Kept
<1>2. IInv => KeepsAtMostOneLine
    BY <1>1 DEF KeepsAtMostOneLine
<1>3. QED BY <1>2, Invariance, PTL

(* No more lines are spoiled than connections broke. *)
THEOREM SpoilsOneLinePerBreak == Spec => []BreakSpoilsOneLine
<1>1. ASSUME IInv PROVE BreakSpoilsOneLine
    <2>1. PICK i \in 0..Lines, n \in 0..Len(buffer) : DealtWith(i, n)
        BY <1>1 DEF IInv
    <2>2. Cardinality(Spoiled) \in Nat /\ breaks \in Nat
        BY <1>1, SpoiledType, BoundsAssumption DEF IInv, StateType
    <2>3. Cardinality(Spoiled) <= breaks
        BY <2>1, <2>2 DEF DealtWith
    <2>4. QED BY <2>3 DEF BreakSpoilsOneLine, Spoiled
<1>2. QED BY <1>1, Invariance, PTL

-----------------------------------------------------------------------------
(* The reader implements the channel. *)
(* The channel's sequence: the lines that the lines handed on begin with.   *)
Heads(d) == [k \in DOMAIN d |-> Head(d[k])]

LEMMA HeadsOf ==
    ASSUME NEW d \in Seq(Seq(LineByte)), \A k \in DOMAIN d : Head(d[k]) \in Nat
    PROVE  Heads(d) \in Seq(Nat) /\ Len(Heads(d)) = Len(d) /\ \A k \in 1..Len(d) : Heads(d)[k] = Head(d[k])
<1>1. DOMAIN d = 1..Len(d) /\ Len(d) \in Nat
    OBVIOUS
<1>2. \A k \in 1..Len(d) : Head(d[k]) \in Nat
    BY <1>1
<1>3. Heads(d) = [k \in 1..Len(d) |-> Head(d[k])]
    BY <1>1 DEF Heads
<1>4. PICK n \in Nat : n = Len(d)
    BY <1>1
<1>5. QED BY <1>2, <1>3, <1>4

LEMMA HeadsAppend ==
    ASSUME NEW d \in Seq(Seq(LineByte)), \A k \in DOMAIN d : Head(d[k]) \in Nat,
           NEW l \in Seq(LineByte), Head(l) \in Nat
    PROVE  Heads(Append(d, l)) = Append(Heads(d), Head(l))
<1>1. /\ Append(d, l) \in Seq(Seq(LineByte)) /\ DOMAIN d = 1..Len(d) /\ Len(d) \in Nat
      /\ DOMAIN Append(d, l) = 1..(Len(d) + 1)
      /\ \A k \in 1..Len(d) : Append(d, l)[k] = d[k]
      /\ Append(d, l)[Len(d) + 1] = l
    BY AppendBytes
<1>2. Heads(d) \in Seq(Nat) /\ Len(Heads(d)) = Len(d) /\ \A k \in 1..Len(d) : Heads(d)[k] = Head(d[k])
    BY HeadsOf
<1>3. /\ DOMAIN Append(Heads(d), Head(l)) = 1..(Len(d) + 1)
      /\ \A k \in 1..Len(d) : Append(Heads(d), Head(l))[k] = Head(d[k])
      /\ Append(Heads(d), Head(l))[Len(d) + 1] = Head(l)
      /\ Append(Heads(d), Head(l)) \in Seq(Nat)
    <2>1. /\ Append(Heads(d), Head(l)) \in Seq(Nat)
          /\ DOMAIN Append(Heads(d), Head(l)) = 1..(Len(Heads(d)) + 1)
          /\ \A k \in 1..Len(Heads(d)) : Append(Heads(d), Head(l))[k] = Heads(d)[k]
          /\ Append(Heads(d), Head(l))[Len(Heads(d)) + 1] = Head(l)
        <3>1. Heads(d) \in Seq(Nat)
            BY <1>2
        <3> HIDE DEF Heads
        <3>2. QED BY <3>1, AppendBytes
    <2>2. QED BY <1>2, <2>1
<1>4. \A k \in 1..(Len(d) + 1) : k \in 1..Len(d) \/ k = Len(d) + 1
    BY <1>1
<1>5. PICK a : a = Append(Heads(d), Head(l))
    OBVIOUS
<1>6. PICK b : b = Append(d, l)
    OBVIOUS
<1>7. \A k \in 1..(Len(d) + 1) : a[k] = Head(b[k])
    <2> TAKE k \in 1..(Len(d) + 1)
    <2>1. CASE k \in 1..Len(d)
        BY <1>1, <1>3, <1>5, <1>6, <2>1
    <2>2. CASE k = Len(d) + 1
        BY <1>1, <1>3, <1>5, <1>6, <2>2
    <2>3. QED BY <1>4, <2>1, <2>2
<1>8. a \in Seq(Nat) /\ Len(a) = Len(d) + 1
    <2>1. a \in Seq(Nat) /\ DOMAIN a = 1..(Len(d) + 1)
        BY <1>3, <1>5
    <2>2. DOMAIN a = 1..Len(a) /\ Len(a) \in Nat
        BY <2>1
    <2>3. QED BY <1>1, <2>1, <2>2
<1>9. Heads(b) \in Seq(Nat) /\ Len(Heads(b)) = Len(d) + 1 /\ \A k \in 1..(Len(d) + 1) : Heads(b)[k] = Head(b[k])
    <2>1. b \in Seq(Seq(LineByte)) /\ Len(b) = Len(d) + 1
        BY <1>1, <1>6
    <2>2. \A k \in DOMAIN b : Head(b[k]) \in Nat
        BY <1>1, <1>4, <1>6
    <2>3. QED BY <2>1, <2>2, HeadsOf
<1>10. a = Heads(b)
    <2> HIDE DEF Heads
    <2>1. QED BY <1>7, <1>8, <1>9, SeqEqual
<1>11. QED BY <1>5, <1>6, <1>10

(* A line handed on is a later one for the channel. *)
LEMMA ScanLineDelivers == IInv /\ ScanLine => Channel!Deliver
<1> SUFFICES ASSUME IInv, ScanLine PROVE Channel!Deliver
    OBVIOUS
<1>1. DeliveredInOrder /\ DeliveredInOrder'
    BY ScanLineIInv DEF IInv
<1>2. PICK l : l \in Seq(LineByte) /\ delivered' = Append(delivered, l)
    <2>1. PICK i \in 0..Lines, n \in 0..Len(buffer) : DealtWith(i, n)
        BY DEF IInv
    <2>2. QED BY <1>1, <2>1, ScanLineFinds DEF IInv, FoundLine
<1>3. PICK d : d = delivered'
    OBVIOUS
<1>4. PICK n \in Nat : n = Len(delivered)
    BY <1>1 DEF DeliveredInOrder
<1>5. /\ delivered \in Seq(Seq(LineByte)) /\ DOMAIN delivered = 1..n
      /\ \A k \in DOMAIN delivered : Head(delivered[k]) \in Nat
      /\ \A k \in DOMAIN d : Head(d[k]) \in 1..Lines
      /\ \A j, k \in DOMAIN d : j < k => Head(d[j]) < Head(d[k])
    BY <1>1, <1>3, <1>4, LinesType DEF DeliveredInOrder
<1>6. /\ DOMAIN d = 1..(n + 1) /\ d[n + 1] = l
      /\ \A k \in 1..n : d[k] = delivered[k]
    <2>1. d = Append(delivered, l)
        BY <1>2, <1>3
    <2>2. QED BY <1>2, <1>4, <1>5, <2>1, AppendBytes
<1>7. n + 1 \in DOMAIN d /\ Head(l) \in 1..Lines /\ Head(l) \in Nat
    BY <1>5, <1>6, LinesType
<1>8. Heads(d) = Append(Heads(delivered), Head(l))
    BY <1>2, <1>3, <1>5, <1>7, HeadsAppend
<1>9. /\ Heads(delivered) \in Seq(Nat) /\ Len(Heads(delivered)) = n
      /\ \A k \in 1..n : Heads(delivered)[k] = Head(delivered[k])
    BY <1>4, <1>5, HeadsOf
<1>10. Channel!Newest \in Nat /\ Channel!Newest < Head(l)
    <2>1. Channel!Newest = IF n = 0 THEN 0 ELSE Heads(delivered)[n]
        <3>1. Channel!Newest = IF Heads(delivered) = <<>> THEN 0 ELSE Heads(delivered)[Len(Heads(delivered))]
            BY DEF Channel!Newest, Heads
        <3>2. Heads(delivered) = <<>> <=> n = 0
            <4> HIDE DEF Heads
            <4>1. QED BY <1>9, EmptySeq
        <3>3. QED BY <1>9, <3>1, <3>2
    <2>2. CASE n = 0
        BY <1>7, <2>1, <2>2, LinesType
    <2>3. CASE n # 0
        <3>1. n \in 1..n /\ n \in DOMAIN d /\ n < n + 1
            BY <1>6, <2>3
        <3>2. Head(d[n]) < Head(d[n + 1]) /\ d[n] = delivered[n]
            BY <1>5, <1>6, <1>7, <3>1
        <3>3. Channel!Newest = Head(delivered[n]) /\ Head(delivered[n]) \in Nat
            BY <1>5, <1>9, <2>1, <2>3, <3>1
        <3>4. QED BY <1>6, <3>2, <3>3
    <2>4. QED BY <2>2, <2>3
<1>11. Head(l) \in (Channel!Newest + 1)..Len(Bodies)
    BY <1>7, <1>10, LinesType DEF Lines
<1>12. Heads(delivered)' = Append(Heads(delivered), Head(l))
    BY <1>3, <1>8 DEF Heads
<1>13. QED BY <1>11, <1>12 DEF Channel!Deliver, Heads

(* The reader implements the channel: a turn of the loop with a line in it  *)
(* hands on a later line, every other step leaves what was handed on alone.  *)
THEOREM ReaderIsChannel == Spec => ImplementsChannel
<1>1. Init => Channel!Init
    <2> SUFFICES ASSUME Init PROVE Channel!Init
        OBVIOUS
    <2>1. delivered = <<>> /\ DOMAIN <<>> = {}
        BY DEF Init
    <2>2. QED BY <2>1 DEF Channel!Init
<1>2. IInv /\ [Next]_vars => [Channel!Deliver]_([k \in DOMAIN delivered |-> Head(delivered[k])])
    <2> SUFFICES ASSUME IInv, [Next]_vars
                 PROVE  \/ Channel!Deliver
                        \/ UNCHANGED delivered
        OBVIOUS
    <2>1. CASE ScanLine
        BY <2>1, ScanLineDelivers
    <2>2. CASE ~ScanLine
        BY <2>2 DEF Next, Scan, Recv, ScanPartial, ScanDangling, ScanNothing, Move, Break, vars
    <2>3. QED BY <2>1, <2>2
<1>3. QED BY <1>1, <1>2, Invariance, PTL DEF Spec, ImplementsChannel, Channel!Spec
(* Values of expressions *)

(* What a cell can hold, and what an expression can mean. *)
Ints == MinInt..MaxInt
Stored == {IntValue(n) : n \in Ints} \cup {TextValue(t) : t \in Texts}
AnyValue == [type : {"nothing", "unset", "none", "int", "string"}, num : Ints, text : Texts]

LEMMA IntsType ==
    /\ MinInt \in Int /\ MaxInt \in Int /\ Half \in Nat /\ Half > 1
    /\ MinInt = -Half /\ MaxInt = Half - 1 /\ NaN = Half
    /\ Ints \subseteq Int /\ 0 \in Ints /\ 1 \in Ints /\ NaN \notin Ints
BY IntAssumption DEF MinInt, MaxInt, NaN, Ints

LEMMA StoredType ==
    /\ \A n \in Ints : IntValue(n) \in Stored /\ IntValue(n) \in AnyValue
    /\ \A t \in Texts : TextValue(t) \in Stored /\ TextValue(t) \in AnyValue
    /\ \A x \in Stored : x \in AnyValue /\ x.type \in {"int", "string"} /\ x # Unset /\ x # Nothing
    /\ Unset \in AnyValue /\ Nothing \in AnyValue
<1>1. <<>> \in Texts
    BY DEF Texts
<1>2. 0 \in Ints
    BY IntsType
<1>3. \A n \in Ints : IntValue(n) \in AnyValue /\ IntValue(n).type = "int"
    BY <1>1 DEF IntValue, AnyValue
<1>4. \A t \in Texts : TextValue(t) \in AnyValue /\ TextValue(t).type = "string"
    BY <1>2 DEF TextValue, AnyValue
<1>5. Unset \in AnyValue /\ Unset.type = "unset" /\ Nothing \in AnyValue /\ Nothing.type = "nothing"
    BY <1>1, <1>2 DEF Unset, Nothing, AnyValue
<1>6. \A x \in Stored : x \in AnyValue /\ x.type \in {"int", "string"}
    BY <1>3, <1>4 DEF Stored
<1>7. QED BY <1>3, <1>4, <1>5, <1>6 DEF Stored

(* There is a function that satisfies the recursion of Numeral. *)
LEMMA NumeralDefined ==
    \A n \in Nat : Numeral[n] = IF n < 10 THEN <<48 + n>> ELSE Append(Numeral[n \div 10], 48 + (n % 10))
<1> DEFINE Short(n) == <<48 + n>>
           Longer(s, n) == Append(s, 48 + (n % 10))
           Tenth(n) == n \div 10
           Is(g, m) == \A n \in 0..m : g[n] = IF n < 10 THEN Short(n) ELSE Longer(g[Tenth(n)], n)
           S == {m \in Nat : \E g : Is(g, m)}
<1> HIDE DEF Short, Longer, Tenth
<1>0. \A n \in Nat : n >= 10 => Tenth(n) \in Nat /\ Tenth(n) < n
    BY DEF Tenth
<1>1. 0 \in S
    <2>1. Is([n \in 0..0 |-> Short(n)], 0)
        OBVIOUS
    <2>2. QED BY <2>1
<1>2. \A m \in Nat : m \in S => m + 1 \in S
    <2> SUFFICES ASSUME NEW m \in Nat, m \in S PROVE m + 1 \in S
        OBVIOUS
    <2>1. PICK g : Is(g, m)
        OBVIOUS
    <2> DEFINE new == IF m + 1 < 10 THEN Short(m + 1) ELSE Longer(g[Tenth(m + 1)], m + 1)
               h == [n \in 0..(m + 1) |-> IF n = m + 1 THEN new ELSE g[n]]
    <2> HIDE DEF new
    <2>2. \A n \in 0..m : h[n] = g[n]
        OBVIOUS
    <2>3. \A n \in 0..m : n >= 10 => Tenth(n) \in 0..m
        BY <1>0
    <2>4. \A n \in 0..m : h[n] = IF n < 10 THEN Short(n) ELSE Longer(h[Tenth(n)], n)
        BY <2>1, <2>2, <2>3
    <2>5. h[m + 1] = IF m + 1 < 10 THEN Short(m + 1) ELSE Longer(h[Tenth(m + 1)], m + 1)
        <3>1. h[m + 1] = new
            OBVIOUS
        <3>2. m + 1 >= 10 => Tenth(m + 1) \in 0..m
            BY <1>0
        <3>3. m + 1 >= 10 => h[Tenth(m + 1)] = g[Tenth(m + 1)]
            BY <2>2, <3>2
        <3>4. QED BY <3>1, <3>3 DEF new
    <2>6. \A n \in 0..(m + 1) : n \in 0..m \/ n = m + 1
        OBVIOUS
    <2> HIDE DEF h
    <2>7. Is(h, m + 1)
        BY <2>4, <2>5, <2>6
    <2>8. QED BY <2>7
<1>3. Nat \subseteq S
    BY <1>1, <1>2, Induction
<1> DEFINE G(m) == CHOOSE g : Is(g, m)
<1>4. \A m \in Nat : Is(G(m), m)
    BY <1>3
<1> HIDE DEF S
(* Two such functions agree where both are defined. *)
<1>5. ASSUME NEW g, NEW h, NEW m \in Nat, NEW l \in Nat, Is(g, m), Is(h, l), m <= l
      PROVE  \A n \in 0..m : g[n] = h[n]
    <2> DEFINE T == {n \in 0..m : g[n] # h[n]}
    <2> SUFFICES ASSUME T # {} PROVE FALSE
        OBVIOUS
    <2>1. PICK n \in T : \A k \in T : n <= k
        <3>1. T \in SUBSET Nat
            OBVIOUS
        <3>2. QED BY <3>1, LeastElement
    <2>2. n >= 10
        BY <1>5, <2>1
    <2>3. Tenth(n) \in 0..m /\ Tenth(n) < n /\ n \in 0..l
        BY <1>0, <1>5, <2>2
    <2>4. g[Tenth(n)] = h[Tenth(n)]
        BY <2>1, <2>3
    <2>5. g[n] = Longer(g[Tenth(n)], n) /\ h[n] = Longer(h[Tenth(n)], n)
        BY <1>5, <2>2, <2>3
    <2>6. QED BY <2>1, <2>4, <2>5
<1> DEFINE f == [n \in Nat |-> G(n)[n]]
           Body(g) == [n \in Nat |-> IF n < 10 THEN Short(n) ELSE Longer(g[Tenth(n)], n)]
<1> HIDE DEF G
<1>6. f = Body(f)
    <2> SUFFICES ASSUME NEW n \in Nat PROVE G(n)[n] = IF n < 10 THEN Short(n) ELSE Longer(f[Tenth(n)], n)
        OBVIOUS
    <2>1. Is(G(n), n)
        BY <1>4
    <2>2. CASE n < 10
        BY <2>1, <2>2
    <2>3. CASE n >= 10
        <3>1. Tenth(n) \in Nat /\ Tenth(n) <= n
            BY <1>0, <2>3
        <3>2. Is(G(Tenth(n)), Tenth(n))
            BY <1>4, <3>1
        <3>3. G(Tenth(n))[Tenth(n)] = G(n)[Tenth(n)]
            <4>1. \A k \in 0..(Tenth(n)) : G(Tenth(n))[k] = G(n)[k]
                BY <1>5, <2>1, <3>1, <3>2
            <4>2. QED BY <3>1, <4>1
        <3>4. G(n)[n] = Longer(G(n)[Tenth(n)], n)
            BY <2>1, <2>3
        <3>5. QED BY <2>3, <3>1, <3>3, <3>4
    <2>4. QED BY <2>2, <2>3
<1>7. Numeral = CHOOSE g : g = Body(g)
    BY DEF Numeral, Short, Longer, Tenth
<1>8. Numeral = Body(Numeral)
    <2> HIDE DEF Body, f
    <2>1. QED BY <1>6, <1>7
<1>9. QED BY <1>8 DEF Short, Longer, Tenth

LEMMA NumeralType == \A n \in Nat : Numeral[n] \in Texts /\ Numeral[n] # <<>>
<1> DEFINE T == {n \in Nat : ~(Numeral[n] \in Texts /\ Numeral[n] # <<>>)}
<1> SUFFICES ASSUME T # {} PROVE FALSE
    OBVIOUS
<1>1. PICK n \in T : \A k \in T : n <= k
    <2>1. T \in SUBSET Nat
        OBVIOUS
    <2>2. QED BY <2>1, LeastElement
<1>2. CASE n < 10
    <2>1. Numeral[n] = <<48 + n>>
        BY <1>1, <1>2, NumeralDefined
    <2>2. 48 + n \in Characters
        BY <1>2 DEF Characters
    <2>3. <<48 + n>> \in Seq(Characters) /\ <<48 + n>> # <<>>
        BY <2>2
    <2>4. QED BY <1>1, <2>1, <2>3 DEF Texts
<1>3. CASE n >= 10
    <2>1. n \div 10 \in Nat /\ n \div 10 < n
        BY <1>3
    <2>2. Numeral[n \div 10] \in Seq(Characters)
        BY <1>1, <2>1 DEF Texts
    <2>3. 48 + (n % 10) \in Characters
        BY DEF Characters
    <2>4. Numeral[n] = Append(Numeral[n \div 10], 48 + (n % 10))
        <3>1. n \in Nat /\ ~(n < 10)
            BY <1>3
        <3> HIDE DEF T
        <3>2. QED BY <3>1, NumeralDefined, Zenon
    <2>5. \A s \in Seq(Characters) : Append(s, 48 + (n % 10)) \in Seq(Characters) /\ Append(s, 48 + (n % 10)) # <<>>
        BY <2>3
    <2>6. QED BY <1>1, <2>2, <2>4, <2>5 DEF Texts
<1>4. QED BY <1>2, <1>3

LEMMA ParsedType == \A t \in Texts : Parsed(t) \in Ints \cup {NaN}
BY IntsType DEF Parsed, Ints

LEMMA NumberType == \A x \in AnyValue : Number(x) \in Ints \cup {NaN} /\ Number(x) \in Int
<1> SUFFICES ASSUME NEW x \in AnyValue PROVE Number(x) \in Ints \cup {NaN}
    <2>1. \A n \in Ints \cup {NaN} : n \in Int
        BY IntsType
    <2>2. QED BY <2>1
<1>1. x.num \in Ints /\ x.text \in Texts
    BY DEF AnyValue
<1>2. CASE x.type = "int"
    BY <1>1, <1>2 DEF Number
<1>3. CASE x.type = "string"
    BY <1>1, <1>3, ParsedType DEF Number
<1>4. CASE x.type \notin {"int", "string"}
    BY <1>4 DEF Number
<1>5. QED BY <1>2, <1>3, <1>4

LEMMA TextType == \A x \in AnyValue : Text(x) \in Texts /\ (x.type = "int" => Text(x) # <<>>)
<1> SUFFICES ASSUME NEW x \in AnyValue PROVE Text(x) \in Texts /\ (x.type = "int" => Text(x) # <<>>)
    OBVIOUS
<1>1. x.num \in Int /\ x.text \in Texts
    BY IntsType DEF AnyValue
<1>2. CASE x.type # "int"
    BY <1>1, <1>2 DEF Text
<1>3. CASE x.type = "int" /\ x.num < 0
    <2>1. Numeral[-x.num] \in Seq(Characters)
        BY <1>1, <1>3, NumeralType DEF Texts
    <2>2. Text(x) = <<Minus>> \o Numeral[-x.num]
        BY <1>3 DEF Text
    <2>3. <<Minus>> \in Seq(Characters) /\ Len(<<Minus>>) = 1
        BY DEF Minus, Characters
    <2>4. QED BY <2>1, <2>2, <2>3 DEF Texts
<1>4. CASE x.type = "int" /\ x.num >= 0
    BY <1>1, <1>4, NumeralType DEF Text
<1>5. QED BY <1>1, <1>2, <1>3, <1>4

LEMMA WrappedType == \A n \in Int : Wrapped(n) \in Ints
BY IntsType DEF Wrapped, Ints

LEMMA TruthType == \A b \in BOOLEAN : Truth(b) \in Ints
BY IntsType DEF Truth

LEMMA Quotients ==
    ASSUME NEW a \in Nat, NEW b \in Nat \ {0}
    PROVE  /\ a \div b \in Nat
           /\ b * (a \div b) <= a
           /\ a \div b <= a
           /\ b # 1 /\ a # 0 => a \div b < a
<1>1. a \div b \in Nat /\ b * (a \div b) <= a
    OBVIOUS
<1>2. PICK q \in Nat : q = a \div b
    BY <1>1
<1>3. b * q <= a
    BY <1>1, <1>2
<1>4. q <= b * q /\ (b # 1 => 2 * q <= b * q)
    OBVIOUS
<1>5. QED BY <1>1, <1>2, <1>3, <1>4

(* Division of C stays within the ints where it does not trap. *)
LEMMA QuotientType ==
    ASSUME NEW a \in Ints, NEW b \in Ints, b # 0, ~(a = MinInt /\ b = -1)
    PROVE  Quotient(a, b) \in Ints /\ a - b * Quotient(a, b) \in Ints
<1>1. a \in Int /\ b \in Int
    BY IntsType
<1>2. PICK m \in Nat : m = Absolute(a)
    BY <1>1 DEF Absolute
<1>3. PICK n \in Nat \ {0} : n = Absolute(b)
    BY <1>1 DEF Absolute
<1>4. PICK q \in Nat : q = m \div n
    BY Quotients
<1>5. n * q <= m /\ q <= m /\ (n # 1 /\ m # 0 => q < m)
    BY <1>4, Quotients
<1>6. Quotient(a, b) = IF (a < 0) = (b < 0) THEN q ELSE -q
    BY <1>2, <1>3, <1>4 DEF Quotient
<1>7. (a < 0 => m = -a) /\ (a >= 0 => m = a) /\ (b < 0 => n = -b) /\ (b >= 0 => n = b)
    BY <1>1, <1>2, <1>3 DEF Absolute
<1>8. m <= Half /\ (m = Half => a = MinInt)
    BY <1>1, <1>7, IntsType DEF Ints
<1>9. Quotient(a, b) \in Ints
    BY <1>1, <1>5, <1>6, <1>7, <1>8, IntsType DEF Ints
<1>10. PICK r \in Nat : r = n * q
    OBVIOUS
<1>11. b * Quotient(a, b) = IF a < 0 THEN -r ELSE r
    <2>1. CASE a < 0 /\ b < 0
        BY <1>1, <1>6, <1>7, <1>10, <2>1
    <2>2. CASE a < 0 /\ b > 0
        BY <1>1, <1>6, <1>7, <1>10, <2>2
    <2>3. CASE a >= 0 /\ b < 0
        BY <1>1, <1>6, <1>7, <1>10, <2>3
    <2>4. CASE a >= 0 /\ b > 0
        BY <1>1, <1>6, <1>7, <1>10, <2>4
    <2>5. QED BY <1>1, <2>1, <2>2, <2>3, <2>4
<1>12. r <= m
    BY <1>5, <1>10
<1>13. a - b * Quotient(a, b) \in Ints
    <2>1. PICK z : z = b * Quotient(a, b)
        OBVIOUS
    <2>2. z = IF a < 0 THEN -r ELSE r
        BY <1>11, <2>1
    <2>3. a - z \in Ints
        BY <1>1, <1>7, <1>12, <2>2, IntsType DEF Ints
    <2>4. QED BY <2>1, <2>3
<1>14. QED BY <1>9, <1>13

LEMMA ComputedType ==
    ASSUME NEW op \in Arithmetic, NEW a \in Ints, NEW b \in Ints, ~Traps(op, a, b)
    PROVE  Computed(op, a, b) \in Ints
<1>1. a \in Int /\ b \in Int
    BY IntsType
<1>2. CASE op = "MINUS"
    BY <1>1, <1>2, WrappedType DEF Computed
<1>3. CASE op = "MUL"
    BY <1>1, <1>3, WrappedType DEF Computed
<1>4. CASE op = "DIV"
    <2>1. b # 0 /\ ~(a = MinInt /\ b = -1)
        BY <1>4 DEF Traps
    <2>2. Quotient(a, b) \in Ints
        BY <2>1, QuotientType
    <2>3. QED BY <1>4, <2>2 DEF Computed
<1>5. CASE op = "MOD"
    <2>1. b # 0 /\ ~(a = MinInt /\ b = -1)
        BY <1>5 DEF Traps
    <2>2. a - b * Quotient(a, b) \in Ints
        BY <2>1, QuotientType
    <2>3. QED BY <1>5, <2>2 DEF Computed
<1>6. CASE op = "OR"
    <2>1. Computed(op, a, b) = Truth(a # 0 \/ b # 0)
        BY <1>6 DEF Computed
    <2>2. QED BY <2>1, TruthType
<1>7. CASE op = "AND"
    <2>1. Computed(op, a, b) = Truth(a # 0 /\ b # 0)
        BY <1>7 DEF Computed
    <2>2. QED BY <2>1, TruthType
<1>8. QED BY <1>2, <1>3, <1>4, <1>5, <1>6, <1>7 DEF Arithmetic

LEMMA SumType ==
    ASSUME NEW x \in AnyValue, NEW y \in AnyValue
    PROVE  Sum(x, y) \in Stored
<1>1. Text(x) \o Text(y) \in Texts
    BY TextType DEF Texts
<1>2. Numbers(x, y) => Wrapped(Number(x) + Number(y)) \in Ints
    <2>1. Number(x) \in Int /\ Number(y) \in Int
        BY NumberType
    <2>2. Number(x) + Number(y) \in Int
        BY <2>1
    <2>3. QED BY <2>2, WrappedType, Zenon
<1>3. QED BY <1>1, <1>2, StoredType DEF Sum

LEMMA ComparedType ==
    ASSUME NEW x \in AnyValue, NEW y \in AnyValue, NEW op \in Comparison
    PROVE  \E n \in Ints : Compared(op, x, y) = IntValue(n)
<1> DEFINE less == IF Numbers(x, y) THEN Number(x) < Number(y) ELSE Before(Text(x), Text(y))
           equal == IF Numbers(x, y) THEN Number(x) = Number(y) ELSE Text(x) = Text(y)
           holds == CASE op = "EQUAL" -> equal
                      [] op = "NOT_EQUAL" -> ~equal
                      [] op = "LTH" -> less
                      [] op = "LE" -> less \/ equal
                      [] op = "GE" -> ~less
                      [] op = "GT" -> ~less /\ ~equal
<1>1. Compared(op, x, y) = IntValue(Truth(holds))
    BY DEF Compared
<1> HIDE DEF holds
<1>2. Truth(holds) \in Ints
    BY IntsType DEF Truth
<1>3. QED BY <1>1, <1>2

(* A binary operator gives a value that fits into a cell, or none at all.   *)
LEMMA ResultType ==
    ASSUME NEW x \in AnyValue, NEW y \in AnyValue, NEW op \in {"PLUS"} \cup Arithmetic \cup Comparison,
           Unset \notin {x, y}
    PROVE  /\ Result(op, x, y) \in Stored \cup {Unset}
           /\ op = "PLUS" => Result(op, x, y) = Sum(x, y)
           /\ op \in Comparison => \E n \in Ints : Result(op, x, y) = IntValue(n)
           /\ op \in Arithmetic /\ Numbers(x, y) /\ ~Traps(op, Number(x), Number(y)) =>
                  \E n \in Ints : Result(op, x, y) = IntValue(n)
           /\ op \in Arithmetic /\ ~Numbers(x, y) => Result(op, x, y) = Unset
<1>1. CASE op = "PLUS"
    <2>1. Result(op, x, y) = Sum(x, y)
        BY <1>1 DEF Result
    <2>2. QED BY <1>1, <2>1, SumType DEF Arithmetic, Comparison
<1>2. CASE op \in Comparison
    <2>1. Result(op, x, y) = Compared(op, x, y) /\ op # "PLUS" /\ op \notin Arithmetic
        BY <1>2 DEF Result, Comparison, Arithmetic
    <2>2. PICK n \in Ints : Compared(op, x, y) = IntValue(n)
        BY <1>2, ComparedType
    <2>3. QED BY <2>1, <2>2, StoredType
<1>3. CASE op \in Arithmetic
    <2>1. op # "PLUS" /\ op \notin Comparison
        BY <1>3 DEF Comparison, Arithmetic
    <2>2. CASE Numbers(x, y) /\ ~Traps(op, Number(x), Number(y))
        <3>1. Result(op, x, y) = IntValue(Computed(op, Number(x), Number(y)))
            BY <2>1, <2>2 DEF Result
        <3>2. Number(x) \in Ints /\ Number(y) \in Ints
            BY <2>2, NumberType DEF Numbers
        <3>3. Computed(op, Number(x), Number(y)) \in Ints
            BY <1>3, <2>2, <3>2, ComputedType
        <3>4. QED BY <2>1, <2>2, <3>1, <3>3, StoredType
    <2>3. CASE ~(Numbers(x, y) /\ ~Traps(op, Number(x), Number(y)))
        <3>1. Result(op, x, y) = Unset
            BY <2>1, <2>3 DEF Result
        <3>2. QED BY <2>1, <2>3, <3>1
    <2>4. QED BY <2>2, <2>3
<1>4. QED BY <1>1, <1>2, <1>3

LEMMA MinIs ==
    ASSUME NEW S \in SUBSET Nat, S # {}
    PROVE  Min(S) \in S /\ \A k \in S : Min(S) <= k
<1>1. \E m \in S : \A k \in S : m <= k
    BY LeastElement
<1>2. QED BY <1>1 DEF Min

LEMMA TokenType ==
    ASSUME NEW t \in Texts, NEW n, NEW delimiter
    PROVE  TokenOf(t, n, delimiter) \in Texts
<1> DEFINE ends == {k \in DOMAIN t : t[k] = delimiter}
           late == {k \in ends : Cardinality({j \in ends : j <= k}) >= n - 1}
           start == IF n = 1 THEN 0 ELSE Min(late \cup {Len(t)})
           last == Min({k \in ends : k >= start + 2} \cup {Len(t) + 1})
<1>1. ends \subseteq 1..Len(t) /\ Len(t) \in Nat
    BY DEF Texts
<1>2. late \subseteq 1..Len(t)
    BY <1>1
<1> HIDE DEF late
<1>3. start \in 0..Len(t)
    <2>1. late \cup {Len(t)} \subseteq 0..Len(t)
        <3> HIDE DEF ends
        <3>1. \A l \in Nat : l \in 0..l /\ 1..l \subseteq 0..l
            OBVIOUS
        <3>2. Len(t) \in 0..Len(t) /\ 1..Len(t) \subseteq 0..Len(t)
            BY <1>1, <3>1
        <3>3. QED BY <1>2, <3>2
    <2>2. Min(late \cup {Len(t)}) \in late \cup {Len(t)}
        <3>1. late \cup {Len(t)} \in SUBSET Nat /\ late \cup {Len(t)} # {}
            BY <2>1
        <3>2. QED BY <3>1, MinIs
    <2>3. CASE n = 1
        BY <1>1, <2>3
    <2>4. CASE n # 1
        <3>1. start = Min(late \cup {Len(t)})
            BY <2>4
        <3>2. QED BY <2>1, <2>2, <3>1
    <2>5. QED BY <2>3, <2>4
<1> HIDE DEF start
<1>4. last \in 1..(Len(t) + 1) /\ last >= start + 1
    <2>1. {k \in ends : k >= start + 2} \cup {Len(t) + 1} \in SUBSET Nat
        BY <1>1
    <2>2. last \in {k \in ends : k >= start + 2} \cup {Len(t) + 1}
        BY <2>1, MinIs
    <2>3. QED BY <1>1, <1>3, <2>2
<1> HIDE DEF last
<1>5. TokenOf(t, n, delimiter) = SubSeq(t, start + 1, last - 1)
    BY DEF TokenOf, late, start, last
<1>6. SubSeq(t, start + 1, last - 1) \in Seq(Characters)
    <2>1. PICK i \in Nat \ {0} : i = start + 1
        BY <1>1, <1>3
    <2>2. PICK j \in Nat : j = last - 1
        BY <1>1, <1>4
    <2>3. j <= Len(t) /\ i <= j + 1
        BY <1>1, <1>3, <1>4, <2>1, <2>2
    <2>4. QED BY <2>1, <2>2, <2>3, SubSeqBytes DEF Texts
<1>7. QED BY <1>5, <1>6 DEF Texts

LEMMA FillingType ==
    ASSUME NEW t \in Texts, NEW n \in Int, NEW fill \in Texts, fill # <<>>
    PROVE  Filling(t, n, fill) \in Texts
<1>1. CASE n <= Len(t)
    <2>1. Filling(t, n, fill) = <<>>
        BY <1>1 DEF Filling
    <2>2. QED BY <2>1 DEF Texts
<1>2. CASE ~(n <= Len(t))
    <2>1. PICK l \in Nat \ {0} : l = Len(fill)
        BY DEF Texts
    <2>2. Len(t) \in Nat
        BY DEF Texts
    <2>3. PICK m \in Nat : m = n - Len(t) + l - 1
        <3>1. \A k \in Nat : ~(n <= k) => n - k + l - 1 \in Nat
            BY <2>1
        <3>2. n - Len(t) + l - 1 \in Nat
            BY <1>2, <2>2, <3>1
        <3>3. QED BY <3>2
    <2>4. PICK times \in Nat : times = m \div l
        BY Quotients
    <2>5. PICK total \in Nat : total = times * l
        OBVIOUS
    <2>6. Filling(t, n, fill) = [k \in 1..total |-> fill[((k - 1) % l) + 1]]
        BY <1>2, <2>1, <2>3, <2>4, <2>5 DEF Filling
    <2>7. \A k \in 1..total : ((k - 1) % l) + 1 \in 1..l
        BY <2>1
    <2>8. \A k \in 1..l : fill[k] \in Characters
        BY <2>1 DEF Texts
    <2>9. [k \in 1..total |-> fill[((k - 1) % l) + 1]] \in Seq(Characters)
        BY <2>7, <2>8
    <2>10. QED BY <2>6, <2>9 DEF Texts
<1>3. QED BY <1>1, <1>2

LEMMA LookedType ==
    ASSUME NEW v, NEW name, NEW f, NEW g, Text(name) \in DOMAIN Tables
    PROVE  Looked(v, name, f, g) \in Texts
<1> DEFINE t == Tables[Text(name)]
           hits == {k \in DOMAIN t.rows :
                       Field(t, f) \in DOMAIN t.rows[k] /\ t.rows[k][Field(t, f)] = Text(v)}
           first == t.rows[Min(hits)]
<1>1. t.rows \in Seq(Seq(Texts))
    BY TablesAssumption
<1>2. hits \subseteq DOMAIN t.rows /\ hits \subseteq Nat
    BY <1>1
<1>3. Looked(v, name, f, g) = IF hits = {} \/ Field(t, g) \notin DOMAIN first THEN <<>> ELSE first[Field(t, g)]
    BY DEF Looked
<1> HIDE DEF hits, t
<1>4. hits # {} => first \in Seq(Texts)
    <2>1. SUFFICES ASSUME hits # {} PROVE first \in Seq(Texts)
        OBVIOUS
    <2>2. PICK k : k = Min(hits) /\ k \in hits
        BY <1>2, <2>1, MinIs
    <2>3. t.rows[k] \in Seq(Texts)
        BY <1>1, <1>2, <2>2
    <2>4. QED BY <2>2, <2>3
<1>5. \A k \in DOMAIN first : hits # {} => first[k] \in Texts
    <2> HIDE DEF first
    <2>1. QED BY <1>4
<1>6. <<>> \in Texts
    BY DEF Texts
<1>7. QED BY <1>3, <1>5, <1>6

-----------------------------------------------------------------------------
(* The pool *)

CellValue == [type : {"none", "int", "string"}, num : Ints, text : Texts, string : 0..(Cells + 1)]

Pool == [cell : [Cell -> CellValue], free : Seq(Cell), strings : SUBSET (1..(Cells + 1)),
         broken : {"none"} \cup Broke]

Free(p) == ToSet(p.free)

(* No cell is free twice, and each live string is that of one cell, which is *)
(* not free.                                                                *)
PoolOK(p) ==
    /\ p \in Pool
    /\ \A i, j \in DOMAIN p.free : p.free[i] = p.free[j] => i = j
    /\ \A c \in Cell : p.cell[c].string = 0 <=> p.cell[c].type # "string"
    /\ \A c, d \in Cell : p.cell[c].string \in p.strings /\ p.cell[c].string = p.cell[d].string => c = d
    /\ \A s \in p.strings : \E c \in Cell : p.cell[c].string = s /\ c \notin Free(p)

(* Pool q differs from p in the cells of D at most. *)
Keeps(p, q, D) ==
    \A c \in Cell \ D : q.cell[c] = p.cell[c] /\ (p.cell[c].string \in p.strings <=> q.cell[c].string \in q.strings)

(* What could be read in p can be read in q. *)
Lives(p, q) == \A c \in Cell : ~Dead(p, c) => ~Dead(q, c)

LEMMA CellType == Cell \subseteq Nat /\ Null \notin Cell /\ Null = 0
BY PoolAssumption DEF Cell, Null

LEMMA KeepsTransitive ==
    ASSUME NEW p, NEW q, NEW r, NEW D, NEW E, Keeps(p, q, D), Keeps(q, r, E)
    PROVE  Keeps(p, r, D \cup E)
BY DEF Keeps

LEMMA LivesTransitive ==
    ASSUME NEW p, NEW q, NEW r, Lives(p, q), Lives(q, r)
    PROVE  Lives(p, r)
BY DEF Lives

LEMMA BrokenOK ==
    ASSUME NEW p, PoolOK(p), NEW how \in Broke
    PROVE  LET q == Broken(p, how)
           IN  /\ PoolOK(q) /\ q.free = p.free /\ q.broken # "none"
               /\ Keeps(p, q, {}) /\ Lives(p, q)
<1> DEFINE q == Broken(p, how)
<1>1. /\ q.cell = p.cell /\ q.free = p.free /\ q.strings = p.strings
      /\ q.broken = (IF p.broken = "none" THEN how ELSE p.broken)
      /\ q \in Pool
    BY DEF PoolOK, Pool, Broken
<1>2. how # "none"
    BY DEF Broke
<1> HIDE DEF q
<1>3. PoolOK(q)
    BY <1>1 DEF PoolOK, Free
<1>4. q.broken # "none"
    BY <1>1, <1>2
<1>5. Keeps(p, q, {}) /\ Lives(p, q)
    BY <1>1 DEF Keeps, Lives, Dead
<1>6. QED BY <1>1, <1>3, <1>4, <1>5 DEF q

LEMMA CheckedOK ==
    ASSUME NEW p, PoolOK(p), NEW cells
    PROVE  LET q == Checked(p, cells)
           IN  /\ PoolOK(q) /\ q.free = p.free
               /\ Keeps(p, q, {}) /\ Lives(p, q)
               /\ q.cell = p.cell
               /\ (q.broken = "none" => p.broken = "none")
               /\ ((\A c \in cells : c # Null => ~Dead(p, c)) => q.broken = p.broken)
<1> DEFINE q == Checked(p, cells)
<1>1. CASE \E c \in cells \ {Null} : Dead(p, c)
    <2>1. q = Broken(p, "stale") /\ "stale" \in Broke
        BY <1>1 DEF Checked, Broke
    <2>2. q.cell = p.cell
        BY <2>1 DEF Broken, PoolOK, Pool
    <2>3. QED BY <1>1, <2>1, <2>2, BrokenOK
<1>2. CASE ~\E c \in cells \ {Null} : Dead(p, c)
    <2>1. q = p
        BY <1>2 DEF Checked
    <2>2. QED BY <2>1 DEF Keeps, Lives
<1>3. QED BY <1>1, <1>2

LEMMA TakenOK ==
    ASSUME NEW p, PoolOK(p), p.free # <<>>
    PROVE  LET q == Taken(p)
               c == Head(p.free)
           IN  /\ PoolOK(q) /\ q.broken = p.broken /\ q.cell = p.cell
               /\ c \in Cell /\ c \in Free(p) /\ c \notin Free(q)
               /\ Free(p) = Free(q) \cup {c}
               /\ q.free = Tail(p.free)
               /\ p.cell[c].string \notin q.strings
               /\ Keeps(p, q, {}) /\ Lives(p, q)
<1> DEFINE q == Taken(p)
           c == Head(p.free)
<1>1. /\ q.cell = p.cell /\ q.free = Tail(p.free) /\ q.strings = p.strings /\ q.broken = p.broken
      /\ p.free \in Seq(Cell)
    BY DEF PoolOK, Pool, Taken
<1>2. PICK n \in Nat \ {0} : n = Len(p.free)
    BY <1>1
<1>3. /\ c = p.free[1] /\ q.free \in Seq(Cell) /\ Len(q.free) = n - 1
      /\ \A k \in 1..(n - 1) : q.free[k] = p.free[k + 1]
    BY <1>1, <1>2
<1>4. q \in Pool
    BY <1>1, <1>3 DEF PoolOK, Pool, Taken
<1>5. \A i, j \in 1..n : p.free[i] = p.free[j] => i = j
    BY <1>1, <1>2 DEF PoolOK
<1> HIDE DEF q, c
<1>6. \A i, j \in DOMAIN q.free : q.free[i] = q.free[j] => i = j
    <2>0. DOMAIN q.free = 1..(n - 1)
        BY <1>3
    <2>1. SUFFICES ASSUME NEW i \in 1..(n - 1), NEW j \in 1..(n - 1), q.free[i] = q.free[j] PROVE i = j
        BY <2>0
    <2>2. p.free[i + 1] = p.free[j + 1] /\ i + 1 \in 1..n /\ j + 1 \in 1..n
        BY <1>3, <2>1
    <2>3. i + 1 = j + 1
        BY <1>5, <2>2
    <2>4. QED BY <2>3
<1>7. Free(p) = {p.free[k] : k \in 1..n} /\ Free(q) = {q.free[k] : k \in 1..(n - 1)}
    <2>1. DOMAIN p.free = 1..n /\ DOMAIN q.free = 1..(n - 1)
        BY <1>1, <1>2, <1>3
    <2>2. QED BY <2>1 DEF Free, ToSet
<1>8. c \in Cell /\ c \in Free(p)
    BY <1>1, <1>2, <1>3, <1>7
<1>9. Free(p) = Free(q) \cup {c}
    <2>1. \A k \in 1..n : k = 1 \/ (k - 1 \in 1..(n - 1) /\ p.free[k] = q.free[k - 1])
        <3>1. \A k \in 1..n : k = 1 \/ (k - 1 \in 1..(n - 1) /\ (k - 1) + 1 = k)
            OBVIOUS
        <3>2. QED BY <1>3, <3>1
    <2>2. \A k \in 1..(n - 1) : k + 1 \in 1..n /\ q.free[k] = p.free[k + 1]
        <3>1. \A k \in 1..(n - 1) : k + 1 \in 1..n
            OBVIOUS
        <3>2. QED BY <1>3, <3>1
    <2>3. \A d \in Free(p) : d \in Free(q) \/ d = c
        BY <1>3, <1>7, <2>1
    <2>4. \A d \in Free(q) : d \in Free(p)
        BY <1>7, <2>2
    <2>5. QED BY <1>8, <2>3, <2>4
<1>10. c \notin Free(q)
    <2>1. SUFFICES ASSUME NEW k \in 1..(n - 1), q.free[k] = c PROVE FALSE
        BY <1>7
    <2>2. p.free[k + 1] = p.free[1] /\ k + 1 \in 1..n /\ 1 \in 1..n
        BY <1>2, <1>3, <2>1
    <2>3. k + 1 = 1
        BY <1>5, <2>2
    <2>4. QED BY <2>3
<1>11. PoolOK(q)
    BY <1>1, <1>4, <1>6, <1>9 DEF PoolOK
<1>12. p.cell[c].string \notin q.strings
    BY <1>1, <1>8 DEF PoolOK
<1>13. Keeps(p, q, {}) /\ Lives(p, q)
    BY <1>1 DEF Keeps, Lives, Dead
<1>14. QED BY <1>1, <1>8, <1>9, <1>10, <1>11, <1>12, <1>13 DEF q, c

(* There is a number for one more string. *)
LEMMA NewStringType ==
    ASSUME NEW p, PoolOK(p)
    PROVE  /\ NewString(p) \in 1..(Cells + 1) /\ NewString(p) \notin p.strings
           /\ \A c \in Cell : p.cell[c].string # NewString(p)
<1> DEFINE used == {p.cell[c].string : c \in Cell}
<1>1. IsFiniteSet(Cell) /\ Cardinality(Cell) = Cells
    BY PoolAssumption, FS_Interval DEF Cell
<1>2. IsFiniteSet(used) /\ Cardinality(used) <= Cells
    <2> DEFINE owner == [s \in used |-> CHOOSE c \in Cell : p.cell[c].string = s]
    <2>1. \A s \in used : owner[s] \in Cell /\ p.cell[owner[s]].string = s
        OBVIOUS
    <2>2. owner \in [used -> Cell] /\ \A s, r \in used : owner[s] = owner[r] => s = r
        BY <2>1
    <2>3. owner \in Injection(used, Cell)
        <3> HIDE DEF owner, used
        <3>1. QED BY <2>2 DEF Injection, IsInjective
    <2>4. IsFiniteSet(used)
        <3>1. used \subseteq 0..(Cells + 1)
            BY DEF PoolOK, Pool, CellValue
        <3>2. IsFiniteSet(0..(Cells + 1))
            BY FS_Interval, PoolAssumption
        <3>3. QED BY <3>1, <3>2, FS_Subset
    <2> HIDE DEF owner, used
    <2>5. Cardinality(used) <= Cardinality(Cell)
        BY <1>1, <2>3, <2>4, FS_Injection
    <2>6. QED BY <1>1, <2>4, <2>5
<1>3. Cardinality(1..(Cells + 1)) = Cells + 1 /\ IsFiniteSet(1..(Cells + 1))
    BY PoolAssumption, FS_Interval
<1>4. \E s \in 1..(Cells + 1) : s \notin used
    <2>1. SUFFICES ASSUME 1..(Cells + 1) \subseteq used PROVE FALSE
        OBVIOUS
    <2>2. Cardinality(1..(Cells + 1)) <= Cardinality(used)
        BY <1>2, <2>1, FS_Subset
    <2>3. Cardinality(used) \in Nat
        BY <1>2, FS_CardinalityType
    <2>4. QED BY <1>2, <1>3, <2>2, <2>3, PoolAssumption
<1>5. \A s \in p.strings : s \in used
    BY DEF PoolOK
<1>6. \E s \in 1..(Cells + 1) : s \notin p.strings /\ \A c \in Cell : p.cell[c].string # s
    BY <1>4, <1>5
<1>7. QED BY <1>6 DEF NewString

(* A value is put into a cell that has no live string of its own.           *)
LEMMA PutOK ==
    ASSUME NEW p, PoolOK(p), NEW c \in Cell, c \notin Free(p), p.cell[c].string \notin p.strings,
           NEW x \in Stored
    PROVE  LET q == Put(p, c, x)
           IN  /\ PoolOK(q) /\ q.free = p.free /\ q.broken = p.broken
               /\ Keeps(p, q, {c}) /\ Lives(p, q)
               /\ Value(q, c) = x /\ ~Dead(q, c)
<1> DEFINE q == Put(p, c, x)
           s == NewString(p)
<1>0. c # Null
    BY CellType
<1>1. CASE \E t \in Texts : x = TextValue(t)
    <2>1. PICK t \in Texts : x = TextValue(t)
        BY <1>1
    <2> DEFINE new == [type |-> "string", num |-> 0, text |-> t, string |-> s]
    <2>2. s \in 1..(Cells + 1) /\ s \notin p.strings /\ \A d \in Cell : p.cell[d].string # s
        BY NewStringType
    <2>3. q = [p EXCEPT !.cell[c] = new, !.strings = @ \cup {s}]
        BY <2>1 DEF Put, TextValue
    <2>4. new \in CellValue
        BY <2>2, IntsType, PoolAssumption DEF CellValue
    <2> HIDE DEF s, new
    <2>5. /\ q.cell = [p.cell EXCEPT ![c] = new] /\ q.free = p.free /\ q.strings = p.strings \cup {s}
          /\ q.broken = p.broken
        BY <2>3 DEF PoolOK, Pool
    <2>6. q \in Pool
        <3>1. p \in Pool /\ p.cell \in [Cell -> CellValue]
            BY DEF PoolOK, Pool
        <3>2. [p.cell EXCEPT ![c] = new] \in [Cell -> CellValue]
            BY <2>4, <3>1
        <3>3. p.strings \cup {s} \in SUBSET (1..(Cells + 1))
            BY <2>2, <3>1 DEF Pool
        <3>4. q = [p EXCEPT !.cell = [p.cell EXCEPT ![c] = new], !.strings = p.strings \cup {s}]
            BY <2>3, <3>1 DEF Pool
        <3> HIDE DEF q
        <3>5. QED BY <3>1, <3>2, <3>3, <3>4 DEF Pool
    <2>7. p.cell \in [Cell -> CellValue]
        BY DEF PoolOK, Pool
    <2>8. q.cell[c] = new /\ \A d \in Cell : d # c => q.cell[d] = p.cell[d]
        BY <2>5, <2>7
    <2>9. new.type = "string" /\ new.string = s /\ new.num = 0 /\ new.text = t /\ s # 0
        BY <2>2 DEF new
    <2> HIDE DEF q
    <2>10. PoolOK(q)
        <3>1. \A d \in Cell : q.cell[d].string = 0 <=> q.cell[d].type # "string"
            BY <2>8, <2>9 DEF PoolOK
        <3>2. ASSUME NEW d \in Cell, NEW e \in Cell, q.cell[d].string \in q.strings, q.cell[d].string = q.cell[e].string
              PROVE  d = e
            <4>1. CASE d = c \/ e = c
                BY <2>2, <2>8, <2>9, <3>2, <4>1
            <4>2. CASE d # c /\ e # c
                BY <2>2, <2>5, <2>8, <3>2, <4>2 DEF PoolOK
            <4>3. QED BY <4>1, <4>2
        <3>3. ASSUME NEW r \in q.strings PROVE \E d \in Cell : q.cell[d].string = r /\ d \notin Free(q)
            <4>1. CASE r = s
                BY <2>5, <2>8, <2>9, <4>1 DEF Free
            <4>2. CASE r # s
                <5>1. PICK d \in Cell : p.cell[d].string = r /\ d \notin Free(p)
                    BY <2>5, <3>3, <4>2 DEF PoolOK
                <5>2. d # c
                    BY <2>5, <3>3, <4>2, <5>1
                <5>3. QED BY <2>5, <2>8, <5>1, <5>2 DEF Free
            <4>3. QED BY <4>1, <4>2
        <3>4. QED BY <2>5, <2>6, <3>1, <3>2, <3>3 DEF PoolOK
    <2>11. Keeps(p, q, {c})
        BY <2>2, <2>5, <2>8 DEF Keeps
    <2>12. Lives(p, q) /\ ~Dead(q, c)
        BY <2>5, <2>8, <2>9 DEF Lives, Dead
    <2>13. Value(q, c) = x
        BY <1>0, <2>1, <2>8, <2>9 DEF Value, TextValue
    <2>14. QED BY <2>5, <2>10, <2>11, <2>12, <2>13 DEF q
<1>2. CASE \E n \in Ints : x = IntValue(n)
    <2>1. PICK n \in Ints : x = IntValue(n)
        BY <1>2
    <2> DEFINE new == [type |-> "int", num |-> n, text |-> <<>>, string |-> 0]
    <2>2. q = [p EXCEPT !.cell[c] = new]
        BY <2>1 DEF Put, IntValue
    <2>3. new \in CellValue
        BY PoolAssumption DEF CellValue, Texts
    <2>4. /\ q.cell = [p.cell EXCEPT ![c] = new] /\ q.free = p.free /\ q.strings = p.strings
          /\ q.broken = p.broken
        BY <2>2 DEF PoolOK, Pool
    <2>5. q \in Pool
        <3> HIDE DEF new
        <3>1. p \in Pool /\ p.cell \in [Cell -> CellValue]
            BY DEF PoolOK, Pool
        <3>2. [p.cell EXCEPT ![c] = new] \in [Cell -> CellValue]
            BY <2>3, <3>1
        <3>3. q = [p EXCEPT !.cell = [p.cell EXCEPT ![c] = new]]
            BY <2>2, <3>1 DEF Pool
        <3> HIDE DEF q
        <3>4. QED BY <3>1, <3>2, <3>3 DEF Pool
    <2>6. p.cell \in [Cell -> CellValue]
        BY DEF PoolOK, Pool
    <2>7. q.cell[c] = new /\ \A d \in Cell : d # c => q.cell[d] = p.cell[d]
        BY <2>4, <2>6
    <2>8. new.type = "int" /\ new.string = 0 /\ new.num = n /\ new.text = <<>>
        OBVIOUS
    <2>9. 0 \notin p.strings
        BY PoolAssumption DEF PoolOK, Pool
    <2> HIDE DEF new, q
    <2>10. PoolOK(q)
        <3>1. \A d \in Cell : q.cell[d].string = 0 <=> q.cell[d].type # "string"
            BY <2>7, <2>8 DEF PoolOK
        <3>2. ASSUME NEW d \in Cell, NEW e \in Cell, q.cell[d].string \in q.strings, q.cell[d].string = q.cell[e].string
              PROVE  d = e
            <4>1. d # c /\ e # c
                BY <2>4, <2>7, <2>8, <2>9, <3>2
            <4>2. QED BY <2>4, <2>7, <3>2, <4>1 DEF PoolOK
        <3>3. ASSUME NEW r \in q.strings PROVE \E d \in Cell : q.cell[d].string = r /\ d \notin Free(q)
            <4>1. PICK d \in Cell : p.cell[d].string = r /\ d \notin Free(p)
                BY <2>4, <3>3 DEF PoolOK
            <4>2. d # c
                BY <2>4, <3>3, <4>1
            <4>3. QED BY <2>4, <2>7, <4>1, <4>2 DEF Free
        <3>4. QED BY <2>4, <2>5, <3>1, <3>2, <3>3 DEF PoolOK
    <2>11. Keeps(p, q, {c})
        BY <2>4, <2>7 DEF Keeps
    <2>12. Lives(p, q) /\ ~Dead(q, c)
        BY <2>4, <2>7, <2>8 DEF Lives, Dead
    <2>13. Value(q, c) = x
        BY <1>0, <2>1, <2>7, <2>8 DEF Value, IntValue
    <2>14. QED BY <2>4, <2>10, <2>11, <2>12, <2>13 DEF q
<1>3. QED BY <1>1, <1>2 DEF Stored

LEMMA ValueType ==
    ASSUME NEW p, PoolOK(p), NEW c \in Cell \cup {Null}
    PROVE  Value(p, c) \in AnyValue /\ Value(p, c) # Unset /\ (c # Null => Value(p, c) # Nothing)
<1>1. CASE c = Null
    <2>1. Value(p, c) = Nothing
        BY <1>1 DEF Value
    <2>2. Nothing # Unset
        BY DEF Nothing, Unset
    <2>3. QED BY <1>1, <2>1, <2>2, StoredType
<1>2. CASE c # Null
    <2>1. p.cell[c] \in CellValue
        BY <1>2 DEF PoolOK, Pool
    <2>2. Value(p, c) = [type |-> p.cell[c].type, num |-> p.cell[c].num, text |-> p.cell[c].text]
        BY <1>2 DEF Value
    <2>3. p.cell[c].type \in {"none", "int", "string"} /\ p.cell[c].num \in Ints /\ p.cell[c].text \in Texts
        BY <2>1 DEF CellValue
    <2>4. Value(p, c) \in AnyValue
        BY <2>2, <2>3 DEF AnyValue
    <2>5. Value(p, c).type \in {"none", "int", "string"}
        BY <2>2, <2>3
    <2>6. QED BY <1>2, <2>4, <2>5 DEF Unset, Nothing
<1>3. QED BY <1>1, <1>2

LEMMA CastOK ==
    ASSUME NEW p, PoolOK(p), NEW c \in Cell \cup {Null}, c \notin Free(p)
    PROVE  LET q == Cast(p, c)
           IN  /\ PoolOK(q) /\ q.free = p.free
               /\ Keeps(p, q, {c}) /\ Lives(p, q)
               /\ q.broken = "none" => p.broken = "none" /\ c # Null
               /\ c # Null => q.broken = p.broken
<1>1. CASE c = Null
    <2>1. Cast(p, c) = Broken(p, "null") /\ "null" \in Broke
        BY <1>1 DEF Cast, Broke
    <2>2. QED BY <1>1, <2>1, BrokenOK DEF Keeps
<1>2. CASE c # Null /\ p.cell[c].type = "int"
    <2>1. Cast(p, c) = Put(p, c, TextValue(Text(Value(p, c))))
        BY <1>2 DEF Cast
    <2>2. TextValue(Text(Value(p, c))) \in Stored
        BY ValueType, TextType, StoredType
    <2>3. p.cell[c].string \notin p.strings
        <3>1. p.cell[c].string = 0
            BY <1>2 DEF PoolOK
        <3>2. 0 \notin p.strings
            BY PoolAssumption DEF PoolOK, Pool
        <3>3. QED BY <3>1, <3>2
    <2>4. QED BY <1>2, <2>1, <2>2, <2>3, PutOK
<1>3. CASE c # Null /\ p.cell[c].type # "int"
    <2>1. Cast(p, c) = p
        BY <1>3 DEF Cast
    <2>2. QED BY <1>3, <2>1 DEF Keeps, Lives
<1>4. QED BY <1>1, <1>2, <1>3

(* The two casts of a function that takes texts. *)
LEMMA TwoCastsOK ==
    ASSUME NEW p, PoolOK(p), NEW c \in Cell \cup {Null}, c \notin Free(p),
           NEW d \in Cell \cup {Null}, d \notin Free(p)
    PROVE  LET q == Cast(Cast(p, c), d)
           IN  /\ PoolOK(q) /\ q.free = p.free
               /\ Keeps(p, q, {c, d}) /\ Lives(p, q)
               /\ q.broken = "none" => p.broken = "none" /\ c # Null /\ d # Null
               /\ c # Null /\ d # Null => q.broken = p.broken
<1> DEFINE r == Cast(p, c)
           q == Cast(r, d)
<1>1. /\ PoolOK(r) /\ r.free = p.free /\ Keeps(p, r, {c}) /\ Lives(p, r)
      /\ (r.broken = "none" => p.broken = "none" /\ c # Null)
      /\ (c # Null => r.broken = p.broken)
    BY CastOK
<1>2. d \notin Free(r)
    BY <1>1 DEF Free
<1> HIDE DEF r
<1>3. /\ PoolOK(q) /\ q.free = r.free /\ Keeps(r, q, {d}) /\ Lives(r, q)
      /\ (q.broken = "none" => r.broken = "none" /\ d # Null)
      /\ (d # Null => q.broken = r.broken)
    BY <1>1, <1>2, CastOK
<1> HIDE DEF q
<1>4. Lives(p, q)
    BY <1>1, <1>3, LivesTransitive
<1>5. Keeps(p, q, {c, d})
    <2>1. {c} \cup {d} = {c, d}
        OBVIOUS
    <2>2. Keeps(p, q, {c} \cup {d})
        BY <1>1, <1>3, KeepsTransitive
    <2>3. QED BY <2>1, <2>2
<1>6. QED BY <1>1, <1>3, <1>4, <1>5 DEF q, r

LEMMA ReleasedOK ==
    ASSUME NEW p, PoolOK(p), NEW c \in Cell \cup {Null}, c \notin Free(p)
    PROVE  LET q == Released(p, c)
           IN  /\ PoolOK(q) /\ q.cell = p.cell
               /\ Free(q) \subseteq Free(p) \cup ({c} \ {Null})
               /\ q.strings \subseteq p.strings
               /\ Keeps(p, q, {c})
               /\ q.broken = "none" => p.broken = "none" /\ Free(q) = Free(p) \cup ({c} \ {Null})
               /\ (c # Null => ~Dead(p, c)) => q.broken = p.broken
<1> DEFINE q == Released(p, c)
<1>1. CASE c = Null
    <2>1. q = p
        BY <1>1 DEF Released
    <2>2. QED BY <1>1, <2>1 DEF Keeps
<1>2. CASE c # Null /\ p.cell[c].type = "string" /\ p.cell[c].string \notin p.strings
    <2>1. q = Broken(p, "freed twice") /\ "freed twice" \in Broke
        BY <1>2 DEF Released, Broke
    <2>2. q.cell = p.cell /\ q.strings = p.strings
        BY <2>1 DEF Broken, PoolOK, Pool
    <2>3. Dead(p, c)
        BY <1>2 DEF Dead
    <2>4. PoolOK(q) /\ q.free = p.free /\ q.broken # "none" /\ Keeps(p, q, {})
        BY <2>1, BrokenOK
    <2> HIDE DEF q
    <2>5. QED BY <1>2, <2>2, <2>3, <2>4 DEF Free, Keeps, q
<1>3. CASE c # Null /\ ~(p.cell[c].type = "string" /\ p.cell[c].string \notin p.strings)
    <2> DEFINE strings == IF p.cell[c].type = "string" THEN p.strings \ {p.cell[c].string} ELSE p.strings
    <2>1. q = [p EXCEPT !.strings = strings, !.free = <<c>> \o p.free]
        BY <1>3 DEF Released, PoolOK, Pool
    <2>2. c \in Cell /\ p.free \in Seq(Cell) /\ p \in Pool /\ p.strings \subseteq 1..(Cells + 1)
        BY <1>3 DEF PoolOK, Pool
    <2>3. strings = p.strings \ {p.cell[c].string}
        <3>1. p.cell[c].type # "string" => p.cell[c].string = 0
            BY <2>2 DEF PoolOK
        <3>2. 0 \notin p.strings
            BY <2>2, PoolAssumption
        <3>3. QED BY <3>1, <3>2
    <2> HIDE DEF strings
    <2>4. /\ q.cell = p.cell /\ q.free = <<c>> \o p.free /\ q.strings = strings /\ q.broken = p.broken
          /\ q \in Pool
        <3>1. <<c>> \o p.free \in Seq(Cell)
            BY <2>2
        <3>2. strings \in SUBSET (1..(Cells + 1))
            BY <2>2, <2>3
        <3> HIDE DEF q
        <3>3. QED BY <2>1, <2>2, <3>1, <3>2 DEF Pool
    <2> HIDE DEF q
    <2>5. PICK n \in Nat : n = Len(p.free)
        BY <2>2
    <2>6. DOMAIN q.free = 1..(n + 1) /\ q.free[1] = c /\ DOMAIN p.free = 1..n
        BY <2>2, <2>4, <2>5
    <2>7. \A k \in 1..n : q.free[k + 1] = p.free[k]
        BY <2>2, <2>4, <2>5
    <2>8. Free(q) = Free(p) \cup {c}
        <3>1. \A k \in 1..(n + 1) : k = 1 \/ (k - 1 \in 1..n /\ (k - 1) + 1 = k)
            OBVIOUS
        <3>2. \A k \in 1..n : k + 1 \in 1..(n + 1)
            OBVIOUS
        <3>3. 1 \in 1..(n + 1)
            OBVIOUS
        <3>4. Free(q) = {q.free[k] : k \in 1..(n + 1)} /\ Free(p) = {p.free[k] : k \in 1..n}
            BY <2>6 DEF Free, ToSet
        <3>5. \A d \in Free(q) : d \in Free(p) \/ d = c
            <4>1. SUFFICES ASSUME NEW k \in 1..(n + 1) PROVE q.free[k] \in Free(p) \/ q.free[k] = c
                BY <3>4
            <4>2. CASE k = 1
                BY <2>6, <4>2
            <4>3. CASE k # 1
                BY <2>7, <3>1, <3>4, <4>3
            <4>4. QED BY <4>2, <4>3
        <3>6. c \in Free(q)
            BY <2>6, <3>3, <3>4
        <3>7. \A d \in Free(p) : d \in Free(q)
            BY <2>7, <3>2, <3>4
        <3>8. QED BY <3>5, <3>6, <3>7
    <2>9. \A i, j \in DOMAIN q.free : q.free[i] = q.free[j] => i = j
        <3>1. \A k \in 1..(n + 1) : k = 1 \/ \E l \in 1..n : k = l + 1 /\ q.free[k] = p.free[l]
            <4>1. \A k \in 1..(n + 1) : k = 1 \/ (k - 1 \in 1..n /\ k = (k - 1) + 1)
                OBVIOUS
            <4>2. QED BY <2>7, <4>1
        <3>2. \A l \in 1..n : p.free[l] # c
            BY <2>6 DEF Free, ToSet
        <3>3. \A l, m \in 1..n : p.free[l] = p.free[m] => l = m
            BY <2>6 DEF PoolOK
        <3>4. SUFFICES ASSUME NEW i \in 1..(n + 1), NEW j \in 1..(n + 1), q.free[i] = q.free[j] PROVE i = j
            BY <2>6
        <3>5. CASE i = 1 \/ j = 1
            BY <2>6, <3>1, <3>2, <3>4, <3>5
        <3>6. CASE i # 1 /\ j # 1
            BY <3>1, <3>3, <3>4, <3>6
        <3>7. QED BY <3>5, <3>6
    <2>10. PoolOK(q)
        <3>1. \A s \in q.strings : \E d \in Cell : q.cell[d].string = s /\ d \notin Free(q)
            <4>1. SUFFICES ASSUME NEW s \in q.strings PROVE \E d \in Cell : q.cell[d].string = s /\ d \notin Free(q)
                OBVIOUS
            <4>2. PICK d \in Cell : p.cell[d].string = s /\ d \notin Free(p)
                BY <2>3, <2>4 DEF PoolOK
            <4>3. d # c
                BY <2>3, <2>4, <4>2
            <4>4. QED BY <2>4, <2>8, <4>2, <4>3
        <3>2. QED BY <2>3, <2>4, <2>9, <3>1 DEF PoolOK
    <2>11. Keeps(p, q, {c})
        <3>1. SUFFICES ASSUME NEW d \in Cell, d # c, p.cell[d].string \in p.strings
                       PROVE  p.cell[d].string # p.cell[c].string
            BY <2>3, <2>4 DEF Keeps
        <3>2. QED BY <2>2, <3>1 DEF PoolOK
    <2>12. q.strings \subseteq p.strings
        BY <2>3, <2>4
    <2>13. QED BY <1>3, <2>4, <2>8, <2>10, <2>11, <2>12 DEF q
<1>4. QED BY <1>1, <1>2, <1>3

GivenBack(u, p, list) ==
    u[0] = p /\ \A k \in 1..Len(list) : u[k] = Released(u[k - 1], list[k])

(* There is a function that satisfies the recursion of ReleasedAll. *)
LEMMA ReleasedAllDefined ==
    ASSUME NEW p, NEW list, Len(list) \in Nat
    PROVE  \E u : GivenBack(u, p, list) /\ ReleasedAll(p, list) = u[Len(list)]
<1>0. PICK n \in Nat : n = Len(list)
    OBVIOUS
<1> DEFINE Step(x, k) == Released(x, list[k])
           Upto(g, m) == g[0] = p /\ \A k \in 1..m : g[k] = Step(g[k - 1], k)
           S == {m \in Nat : \E g : Upto(g, m)}
           Body(g) == [k \in 0..n |-> IF k = 0 THEN p ELSE Step(g[k - 1], k)]
<1> HIDE DEF Step
<1>1. 0 \in S
    <2>1. Upto([k \in 0..0 |-> p], 0)
        OBVIOUS
    <2>2. QED BY <2>1
<1>2. \A m \in Nat : m \in S => m + 1 \in S
    <2> SUFFICES ASSUME NEW m \in Nat, m \in S PROVE m + 1 \in S
        OBVIOUS
    <2>1. PICK g : Upto(g, m)
        OBVIOUS
    <2> DEFINE h == [k \in 0..(m + 1) |-> IF k = m + 1 THEN Step(g[m], m + 1) ELSE g[k]]
    <2>2. h[m + 1] = Step(g[m], m + 1) /\ \A k \in 0..m : h[k] = g[k]
        OBVIOUS
    <2> HIDE DEF h
    <2>3. \A k \in 1..m : h[k] = Step(h[k - 1], k)
        <3>1. \A k \in 1..m : k \in 0..m /\ k - 1 \in 0..m
            OBVIOUS
        <3>2. QED BY <2>1, <2>2, <3>1
    <2>4. h[m + 1] = Step(h[(m + 1) - 1], m + 1)
        <3>1. (m + 1) - 1 = m /\ m \in 0..m
            OBVIOUS
        <3>2. QED BY <2>2, <3>1
    <2>5. \A k \in 1..(m + 1) : k \in 1..m \/ k = m + 1
        OBVIOUS
    <2>6. h[0] = p
        BY <2>1, <2>2
    <2>7. Upto(h, m + 1)
        BY <2>3, <2>4, <2>5, <2>6
    <2>8. QED BY <2>7
<1>3. PICK g : Upto(g, n)
    <2>1. Nat \subseteq S
        BY <1>1, <1>2, Induction
    <2>2. QED BY <2>1
<1> DEFINE f == [k \in 0..n |-> g[k]]
           u == CHOOSE h : h = Body(h)
<1>4. f = Body(f)
    <2>1. \A k \in 1..n : k - 1 \in 0..n
        OBVIOUS
    <2>2. \A k \in 0..n : k = 0 \/ k \in 1..n
        OBVIOUS
    <2>3. \A k \in 0..n : g[k] = IF k = 0 THEN p ELSE Step(f[k - 1], k)
        BY <1>3, <2>1, <2>2
    <2>4. QED BY <2>3
<1>5. u = Body(u)
    <2> HIDE DEF Body, f
    <2>1. QED BY <1>4
<1> HIDE DEF u
<1>6. u[0] = p /\ \A k \in 1..n : u[k] = Step(u[k - 1], k)
    <2>1. \A k \in 1..n : k \in 0..n /\ k # 0
        OBVIOUS
    <2>2. 0 \in 0..n
        OBVIOUS
    <2>3. QED BY <1>5, <2>1, <2>2
<1>7. ReleasedAll(p, list) = u[n]
    BY <1>0 DEF ReleasedAll, u, Step
<1>8. QED BY <1>0, <1>6, <1>7 DEF Step, GivenBack

(* All cells of a list are given back, once each.                           *)
LEMMA ReleasedAllOK ==
    ASSUME NEW p, PoolOK(p), NEW list \in Seq(Cell \cup {Null}),
           \A j, k \in DOMAIN list : list[j] = list[k] /\ list[j] # Null => j = k,
           \A k \in DOMAIN list : list[k] \notin Free(p)
    PROVE  LET q == ReleasedAll(p, list)
               given == ToSet(list) \ {Null}
           IN  /\ PoolOK(q) /\ q.cell = p.cell
               /\ Free(q) \subseteq Free(p) \cup given
               /\ Keeps(p, q, given)
               /\ q.broken = "none" => p.broken = "none" /\ Free(q) = Free(p) \cup given
               /\ (\A k \in DOMAIN list : list[k] # Null => ~Dead(p, list[k])) => q.broken = p.broken
<1>1. PICK n \in Nat : Len(list) = n
    OBVIOUS
<1>2. PICK u : /\ u[0] = p /\ \A k \in 1..n : u[k] = Released(u[k - 1], list[k])
               /\ ReleasedAll(p, list) = u[n]
    <2>1. PICK u : GivenBack(u, p, list) /\ ReleasedAll(p, list) = u[Len(list)]
        BY ReleasedAllDefined
    <2>2. QED BY <1>1, <2>1 DEF GivenBack
<1> DEFINE given(k) == {list[j] : j \in 1..k} \ {Null}
           Alive == \A k \in 1..n : list[k] # Null => ~Dead(p, list[k])
           OK(q, k) ==
               /\ PoolOK(q) /\ q.cell = p.cell
               /\ Free(q) \subseteq Free(p) \cup given(k)
               /\ Keeps(p, q, given(k))
               /\ q.broken = "none" => p.broken = "none" /\ Free(q) = Free(p) \cup given(k)
               /\ Alive => q.broken = p.broken
           S == {k \in Nat : k <= n => OK(u[k], k)}
<1>3. DOMAIN list = 1..n /\ \A k \in 1..n : list[k] \in Cell \cup {Null}
    BY <1>1
<1>4. 0 \in S
    <2>1. given(0) = {}
        OBVIOUS
    <2> HIDE DEF given
    <2>2. Keeps(p, p, {})
        BY DEF Keeps
    <2>3. OK(p, 0)
        BY <2>1, <2>2
    <2>4. QED BY <1>2, <2>3
<1>5. \A k \in Nat : k \in S => k + 1 \in S
    <2> SUFFICES ASSUME NEW k \in Nat, k <= n => OK(u[k], k), k + 1 <= n PROVE OK(u[k + 1], k + 1)
        <3> HIDE DEF OK
        <3>1. QED BY <1>1
    <2>0. k <= n
        BY <1>1
    <2>1. PICK q : q = u[k]
        OBVIOUS
    <2>2. PICK c \in Cell \cup {Null} : c = list[k + 1]
        BY <1>3
    <2>3. PICK r : r = u[k + 1]
        OBVIOUS
    <2>4. r = Released(q, c)
        <3>1. k + 1 \in 1..n /\ (k + 1) - 1 = k
            BY <1>1
        <3>2. QED BY <1>2, <2>1, <2>2, <2>3, <3>1
    <2>5. OK(q, k)
        BY <2>0, <2>1
    <2>6. given(k + 1) = given(k) \cup ({c} \ {Null})
        <3>1. \A j \in 1..(k + 1) : j \in 1..k \/ j = k + 1
            OBVIOUS
        <3>2. \A j \in 1..k : j \in 1..(k + 1)
            OBVIOUS
        <3>3. k + 1 \in 1..(k + 1)
            OBVIOUS
        <3>4. QED BY <2>2, <3>1, <3>2, <3>3
    <2>7. c \notin given(k) /\ c \notin Free(p)
        <3>1. \A j \in 1..k : j \in 1..n /\ j # k + 1
            BY <1>1
        <3>2. k + 1 \in 1..n
            BY <1>1
        <3>3. QED BY <1>3, <2>2, <3>1, <3>2
    <2> HIDE DEF given
    <2>8. c \notin Free(q)
        BY <2>5, <2>7
    <2>9. /\ PoolOK(r) /\ r.cell = q.cell
          /\ Free(r) \subseteq Free(q) \cup ({c} \ {Null})
          /\ r.strings \subseteq q.strings
          /\ Keeps(q, r, {c})
          /\ (r.broken = "none" => q.broken = "none" /\ Free(r) = Free(q) \cup ({c} \ {Null}))
          /\ ((c # Null => ~Dead(q, c)) => r.broken = q.broken)
        BY <2>4, <2>5, <2>8, ReleasedOK
    <2>10. Alive /\ c # Null => ~Dead(q, c)
        <3>1. SUFFICES ASSUME Alive, c # Null PROVE ~Dead(q, c)
            OBVIOUS
        <3>2. c \in Cell \ given(k) /\ ~Dead(p, c)
            <4>1. k + 1 \in 1..n
                BY <1>1
            <4>2. QED BY <2>2, <2>7, <3>1, <4>1
        <3>3. q.cell[c] = p.cell[c] /\ (p.cell[c].string \in p.strings => q.cell[c].string \in q.strings)
            BY <2>5, <3>2 DEF Keeps
        <3>4. QED BY <3>2, <3>3 DEF Dead
    <2>11. Alive => r.broken = p.broken
        BY <2>5, <2>9, <2>10
    <2>12. Keeps(p, r, given(k + 1))
        <3>1. Keeps(p, r, given(k) \cup {c})
            BY <2>5, <2>9, KeepsTransitive
        <3>2. \A d \in Cell : d \notin given(k + 1) => d \notin given(k) \cup {c}
            BY <2>6, CellType
        <3>3. QED BY <3>1, <3>2 DEF Keeps
    <2> HIDE DEF Alive
    <2>13. /\ PoolOK(r) /\ r.cell = p.cell /\ Free(r) \subseteq Free(p) \cup given(k + 1)
           /\ (r.broken = "none" => p.broken = "none" /\ Free(r) = Free(p) \cup given(k + 1))
        BY <2>5, <2>6, <2>9
    <2>14. QED BY <2>3, <2>11, <2>12, <2>13
<1> HIDE DEF OK
<1>6. OK(u[n], n)
    <2>1. Nat \subseteq S
        BY <1>4, <1>5, Induction
    <2>2. QED BY <2>1
<1>7. given(n) = ToSet(list) \ {Null}
    BY <1>3 DEF ToSet
<1>8. QED BY <1>2, <1>3, <1>6, <1>7 DEF OK

LEMMA NoneReleased == \A p : ReleasedAll(p, <<>>) = p
<1>1. SUFFICES ASSUME NEW p PROVE ReleasedAll(p, <<>>) = p
    OBVIOUS
<1>2. Len(<<>>) = 0 /\ Len(<<>>) \in Nat
    OBVIOUS
<1>3. PICK u : GivenBack(u, p, <<>>) /\ ReleasedAll(p, <<>>) = u[Len(<<>>)]
    BY <1>2, ReleasedAllDefined
<1>4. QED BY <1>2, <1>3 DEF GivenBack

-----------------------------------------------------------------------------
(* What is known of an expression *)

FactNames == {"set", "number", "positive", "filled", "never"}

(* The operands of a node, by what is known, and what is known of its result. *)
Top(known, n) == SubSeq(known, Len(known) - n + 1, Len(known))

LastFact(known, node) ==
    LET of == Top(known, Operands(node))
    IN  IF \E k \in DOMAIN of : "never" \in of[k] THEN {"never"} ELSE Known(node, of)

Told(f, nodes) ==
    f[0] = <<>> /\ \A k \in 1..Len(nodes) : f[k] = KnownAfter(f[k - 1], nodes[k])

(* There is a function that satisfies the recursion of Facts. *)
LEMMA FactsDefined ==
    ASSUME NEW nodes, Len(nodes) \in Nat
    PROVE  Told(Facts(nodes), nodes)
<1>0. PICK n \in Nat : n = Len(nodes)
    OBVIOUS
<1> DEFINE Step(x, k) == KnownAfter(x, nodes[k])
           Nought == <<>>
           Upto(g, m) == g[0] = Nought /\ \A k \in 1..m : g[k] = Step(g[k - 1], k)
           S == {m \in Nat : \E g : Upto(g, m)}
           Body(g) == [k \in 0..n |-> IF k = 0 THEN Nought ELSE Step(g[k - 1], k)]
<1> HIDE DEF Step, Nought
<1>1. 0 \in S
    <2>1. Upto([k \in 0..0 |-> Nought], 0)
        OBVIOUS
    <2>2. QED BY <2>1
<1>2. \A m \in Nat : m \in S => m + 1 \in S
    <2> SUFFICES ASSUME NEW m \in Nat, m \in S PROVE m + 1 \in S
        OBVIOUS
    <2>1. PICK g : Upto(g, m)
        OBVIOUS
    <2> DEFINE h == [k \in 0..(m + 1) |-> IF k = m + 1 THEN Step(g[m], m + 1) ELSE g[k]]
    <2>2. h[m + 1] = Step(g[m], m + 1) /\ \A k \in 0..m : h[k] = g[k]
        OBVIOUS
    <2> HIDE DEF h
    <2>3. \A k \in 1..m : h[k] = Step(h[k - 1], k)
        <3>1. \A k \in 1..m : k \in 0..m /\ k - 1 \in 0..m
            OBVIOUS
        <3>2. QED BY <2>1, <2>2, <3>1
    <2>4. h[m + 1] = Step(h[(m + 1) - 1], m + 1)
        <3>1. (m + 1) - 1 = m /\ m \in 0..m
            OBVIOUS
        <3>2. QED BY <2>2, <3>1
    <2>5. \A k \in 1..(m + 1) : k \in 1..m \/ k = m + 1
        OBVIOUS
    <2>6. h[0] = Nought
        BY <2>1, <2>2
    <2>7. Upto(h, m + 1)
        BY <2>3, <2>4, <2>5, <2>6
    <2>8. QED BY <2>7
<1>3. PICK g : Upto(g, n)
    <2>1. Nat \subseteq S
        BY <1>1, <1>2, Induction
    <2>2. QED BY <2>1
<1> DEFINE f == [k \in 0..n |-> g[k]]
           u == CHOOSE h : h = Body(h)
<1>4. f = Body(f)
    <2>1. \A k \in 1..n : k - 1 \in 0..n
        OBVIOUS
    <2>2. \A k \in 0..n : k = 0 \/ k \in 1..n
        OBVIOUS
    <2>3. \A k \in 0..n : g[k] = IF k = 0 THEN Nought ELSE Step(f[k - 1], k)
        BY <1>3, <2>1, <2>2
    <2>4. QED BY <2>3
<1>5. u = Body(u)
    <2> HIDE DEF Body, f
    <2>1. QED BY <1>4
<1> HIDE DEF u
<1>6. u[0] = Nought /\ \A k \in 1..n : u[k] = Step(u[k - 1], k)
    <2>1. \A k \in 1..n : k \in 0..n /\ k # 0
        OBVIOUS
    <2>2. 0 \in 0..n
        OBVIOUS
    <2>3. QED BY <1>5, <2>1, <2>2
<1>7. Facts(nodes) = u
    BY <1>0 DEF Facts, u, Step, Nought
<1>8. QED BY <1>0, <1>6, <1>7 DEF Step, Nought, Told

LEMMA KnownType == \A node, of : Known(node, of) \in SUBSET FactNames
<1> SUFFICES ASSUME NEW node, NEW of PROVE Known(node, of) \subseteq FactNames
    OBVIOUS
<1>1. QED BY DEF Known, AnInt, FactNames

LEMMA KnownInteger ==
    ASSUME NEW node, NEW of, node.op = "INTEGER", "never" \notin Known(node, of)
    PROVE  /\ node.num <= MaxInt
           /\ Known(node, of) = AnInt \cup (IF node.num > 0 THEN {"positive"} ELSE {})
BY DEF Known, Arithmetic, Comparison

LEMMA KnownText ==
    ASSUME NEW node, NEW of, node.op \in {"STRING", "RECORD"}
    PROVE  /\ "never" \notin Known(node, of)
           /\ "number" \in Known(node, of) => Parsed(node.text) # NaN
           /\ "positive" \notin Known(node, of)
           /\ "filled" \in Known(node, of) => node.text # <<>>
BY DEF Known, Arithmetic, Comparison

LEMMA KnownPlus ==
    ASSUME NEW node, NEW of, node.op = "PLUS", "never" \notin Known(node, of)
    PROVE  \/ Known(node, of) = AnInt /\ "number" \in of[1] /\ "number" \in of[2]
           \/ /\ Known(node, of) \subseteq {"set", "filled"}
              /\ "filled" \in Known(node, of) => "filled" \in of[1] \/ "filled" \in of[2]
BY DEF Known, Arithmetic, Comparison

LEMMA KnownArithmetic ==
    ASSUME NEW node, NEW of, node.op \in Arithmetic, "never" \notin Known(node, of)
    PROVE  /\ Known(node, of) = AnInt /\ "number" \in of[1] /\ "number" \in of[2]
           /\ node.op \in {"DIV", "MOD"} => "positive" \in of[2]
BY DEF Known, Arithmetic, Comparison

LEMMA KnownComparison ==
    ASSUME NEW node, NEW of, node.op \in Comparison, "never" \notin Known(node, of)
    PROVE  Known(node, of) = AnInt
BY DEF Known, Arithmetic, Comparison

LEMMA KnownFunction ==
    ASSUME NEW node, NEW of, node.op \in Functions, "never" \notin Known(node, of)
    PROVE  /\ node.op = "LENGTH" => Known(node, of) = AnInt /\ Len(of) >= 1
           /\ node.op = "TOKEN" => Known(node, of) = {"set"} /\ Len(of) >= 3 /\ "number" \in of[2]
           /\ node.op \in {"LPAD", "RPAD"} =>
                  /\ Known(node, of) \subseteq {"set", "filled"} /\ Len(of) >= 3 /\ "filled" \in of[3]
                  /\ "filled" \in Known(node, of) => "filled" \in of[1]
           /\ node.op = "LOOKUP" => Known(node, of) = {"set"} /\ Len(of) >= 4
           /\ node.op \notin {"QUOTE", "unknown"}
<1>1. CASE node.op = "LENGTH"
    BY <1>1 DEF Known, Arithmetic, Comparison
<1>2. CASE node.op = "TOKEN"
    BY <1>2 DEF Known, Arithmetic, Comparison
<1>3. CASE node.op \in {"LPAD", "RPAD"}
    <2>1. Len(of) >= 3 /\ "filled" \in of[3]
        BY <1>3 DEF Known, Arithmetic, Comparison
    <2>2. Known(node, of) \subseteq {"set", "filled"} /\ ("filled" \in Known(node, of) => "filled" \in of[1])
        BY <1>3 DEF Known, Arithmetic, Comparison
    <2>3. QED BY <1>3, <2>1, <2>2
<1>4. CASE node.op = "LOOKUP"
    BY <1>4 DEF Known, Arithmetic, Comparison
<1>5. CASE node.op \in {"QUOTE", "unknown"}
    BY <1>5 DEF Known, Arithmetic, Comparison
<1>6. QED BY <1>1, <1>2, <1>3, <1>4, <1>5 DEF Functions

LEMMA KnownNoRecord ==
    ASSUME NEW node, NEW of, node.op = "NORECORD"
    PROVE  "never" \in Known(node, of)
BY DEF Known, Arithmetic, Comparison

LEMMA OperandsType == \A node \in Node : Operands(node) \in Nat
<1>1. \A node \in Node : node.op \in Functions => node.args \in Nat
    BY DEF Node, Functions, Arithmetic, Comparison
<1>2. QED BY <1>1 DEF Operands

(* The last elements of a sequence. *)
LEMMA TopIs ==
    ASSUME NEW B, NEW s \in Seq(B), NEW n \in 0..Len(s)
    PROVE  /\ Top(s, n) \in Seq(B) /\ Len(Top(s, n)) = n
           /\ \A k \in 1..n : Top(s, n)[k] = s[Len(s) - n + k]
<1>1. PICK l \in Nat : l = Len(s)
    OBVIOUS
<1>2. PICK p \in 0..l : p = l - n
    BY <1>1
<1>3. Top(s, n) = SubSeq(s, p + 1, Len(s))
    BY <1>1, <1>2 DEF Top
<1>4. /\ SubSeq(s, p + 1, Len(s)) \in Seq(B) /\ Len(SubSeq(s, p + 1, Len(s))) = Len(s) - p
      /\ \A k \in 1..(Len(s) - p) : SubSeq(s, p + 1, Len(s))[k] = s[p + k]
    BY <1>1, <1>2, SuffixBytes
<1>5. n = l - p
    BY <1>1, <1>2
<1>6. QED BY <1>1, <1>2, <1>3, <1>4, <1>5

(* What a node of n operands does to a sequence of results.                 *)
Folded(s, n, x) == Append(SubSeq(s, 1, Len(s) - n), x)

IsFolded(t, s, n, x) ==
    /\ Len(t) = Len(s) - n + 1
    /\ \A k \in 1..(Len(s) - n) : t[k] = s[k]
    /\ t[Len(s) - n + 1] = x

LEMMA FoldedIs ==
    ASSUME NEW B, NEW s \in Seq(B), NEW n \in 0..Len(s), NEW x \in B
    PROVE  Folded(s, n, x) \in Seq(B) /\ IsFolded(Folded(s, n, x), s, n, x)
<1>1. PICK l \in Nat : l = Len(s)
    OBVIOUS
<1>2. PICK p \in 0..l : p = l - n
    BY <1>1
<1>3. SubSeq(s, 1, p) \in Seq(B) /\ Len(SubSeq(s, 1, p)) = p /\ \A k \in 1..p : SubSeq(s, 1, p)[k] = s[k]
    BY <1>1, <1>2, PrefixBytes
<1>4. \A t \in Seq(B) : /\ Append(t, x) \in Seq(B) /\ Len(Append(t, x)) = Len(t) + 1
                        /\ \A k \in 1..Len(t) : Append(t, x)[k] = t[k]
                        /\ Append(t, x)[Len(t) + 1] = x
    OBVIOUS
<1>5. Folded(s, n, x) = Append(SubSeq(s, 1, p), x)
    BY <1>1, <1>2 DEF Folded
<1>6. PICK t \in Seq(B) : t = SubSeq(s, 1, p)
    BY <1>3
<1>7. QED BY <1>1, <1>2, <1>3, <1>4, <1>5, <1>6 DEF IsFolded

(* The facts of an expression after its next node.                          *)
LEMMA NextFacts ==
    ASSUME NEW nodes \in Expressions, NEW k \in 0..(Len(nodes) - 1),
           NEW known, known = Facts(nodes)[k], known \in Seq(SUBSET FactNames)
    PROVE  /\ nodes[k + 1] \in Node
           /\ Operands(nodes[k + 1]) \in 0..Len(known)
           /\ LastFact(known, nodes[k + 1]) \in SUBSET FactNames
           /\ Facts(nodes)[k + 1] = Folded(known, Operands(nodes[k + 1]), LastFact(known, nodes[k + 1]))
           /\ Facts(nodes)[k + 1] \in Seq(SUBSET FactNames)
<1>1. nodes \in Seq(Node) /\ WellFormed(nodes)
    BY ExpressionsAssumption
<1>2. PICK n \in Nat : n = Len(nodes)
    BY <1>1
<1>3. k + 1 \in 1..n /\ (k + 1) - 1 = k
    BY <1>2
<1>4. DOMAIN nodes = 1..n
    BY <1>1, <1>2
<1>5. PICK node \in Node : node = nodes[k + 1]
    BY <1>1, <1>3, <1>4
<1>6. Told(Facts(nodes), nodes)
    BY <1>1, FactsDefined
<1>7. Facts(nodes)[k + 1] = KnownAfter(known, node)
    <2>1. Facts(nodes)[k + 1] = KnownAfter(Facts(nodes)[(k + 1) - 1], nodes[k + 1])
        BY <1>2, <1>3, <1>6 DEF Told
    <2>2. QED BY <1>3, <1>5, <2>1
<1>8. Operands(node) \in 0..Len(known)
    <2>1. Operands(nodes[k + 1]) <= Len(Facts(nodes)[(k + 1) - 1])
        BY <1>1, <1>3, <1>4 DEF WellFormed
    <2>2. Operands(node) \in Nat
        BY OperandsType
    <2>3. QED BY <1>3, <1>5, <2>1, <2>2
<1>9. KnownAfter(known, node) = Folded(known, Operands(node), LastFact(known, node))
    BY DEF KnownAfter, Folded, LastFact, Top
<1>10. LastFact(known, node) \in SUBSET FactNames
    BY KnownType DEF LastFact, FactNames
<1>11. Folded(known, Operands(node), LastFact(known, node)) \in Seq(SUBSET FactNames)
    BY <1>8, <1>10, FoldedIs
<1>12. QED BY <1>5, <1>7, <1>8, <1>9, <1>10, <1>11

LEMMA FactsType ==
    ASSUME NEW nodes \in Expressions
    PROVE  \A k \in 0..Len(nodes) : Facts(nodes)[k] \in Seq(SUBSET FactNames)
<1>1. nodes \in Seq(Node)
    BY ExpressionsAssumption
<1>2. PICK n \in Nat : n = Len(nodes)
    BY <1>1
<1> DEFINE S == {k \in Nat : k <= n => Facts(nodes)[k] \in Seq(SUBSET FactNames)}
<1>3. 0 \in S
    <2>1. Facts(nodes)[0] = <<>>
        BY <1>1, FactsDefined DEF Told
    <2>2. <<>> \in Seq(SUBSET FactNames)
        OBVIOUS
    <2>3. Facts(nodes)[0] \in Seq(SUBSET FactNames)
        BY <2>1, <2>2, Zenon
    <2>4. QED BY <2>3
<1>4. \A k \in Nat : k \in S => k + 1 \in S
    <2> SUFFICES ASSUME NEW k \in Nat, k <= n => Facts(nodes)[k] \in Seq(SUBSET FactNames), k + 1 <= n
                 PROVE  Facts(nodes)[k + 1] \in Seq(SUBSET FactNames)
        OBVIOUS
    <2>1. Facts(nodes)[k] \in Seq(SUBSET FactNames) /\ k \in 0..(Len(nodes) - 1)
        BY <1>2
    <2>2. QED BY <2>1, NextFacts
<1>5. Nat \subseteq S
    BY <1>3, <1>4, Induction
<1>6. QED BY <1>2, <1>5

(* An operand that cannot be relied on spoils the whole expression.         *)
LEMMA NeverLasts ==
    ASSUME NEW nodes \in Expressions, Sound(nodes), NEW k \in 0..Len(nodes)
    PROVE  \A i \in DOMAIN Facts(nodes)[k] : "never" \notin Facts(nodes)[k][i]
<1>1. nodes \in Seq(Node) /\ WellFormed(nodes)
    BY ExpressionsAssumption
<1>2. PICK n \in Nat : n = Len(nodes)
    BY <1>1
<1> DEFINE Bad(j) == \E i \in DOMAIN Facts(nodes)[j] : "never" \in Facts(nodes)[j][i]
           S == {j \in Nat : j <= n /\ k <= j => Bad(j)}
<1> SUFFICES ASSUME Bad(k) PROVE FALSE
    OBVIOUS
<1>3. ~Bad(n)
    <2>1. Len(Facts(nodes)[n]) = 1 /\ "never" \notin Facts(nodes)[n][1]
        BY <1>1, <1>2 DEF WellFormed, Sound
    <2>2. Facts(nodes)[n] \in Seq(SUBSET FactNames)
        BY <1>2, FactsType
    <2>3. QED BY <2>1, <2>2
<1>4. ASSUME NEW j \in 0..(n - 1), Bad(j) PROVE Bad(j + 1)
    <2>0. PICK B : B = SUBSET FactNames
        OBVIOUS
    <2>1. PICK known : known = Facts(nodes)[j] /\ known \in Seq(B)
        <3>1. Facts(nodes)[j] \in Seq(B)
            BY <1>2, <2>0, FactsType
        <3>2. QED BY <3>1
    <2>2. PICK node : node = nodes[j + 1]
        OBVIOUS
    <2>3. PICK m \in 0..Len(known) : m = Operands(node)
        BY <1>2, <2>0, <2>1, <2>2, NextFacts
    <2>4. PICK fact : fact = LastFact(known, node) /\ fact \in B
        <3>1. LastFact(known, node) \in B
            BY <1>2, <2>0, <2>1, <2>2, NextFacts
        <3>2. QED BY <3>1
    <2>5. Facts(nodes)[j + 1] = Folded(known, m, fact)
        BY <1>2, <2>0, <2>1, <2>2, <2>3, <2>4, NextFacts
    <2>6. PICK l \in Nat : l = Len(known)
        BY <2>1
    <2>7. PICK i \in 1..l : "never" \in known[i]
        BY <1>4, <2>1, <2>6
    <2>8. /\ Folded(known, m, fact) \in Seq(B) /\ Len(Folded(known, m, fact)) = l - m + 1
          /\ \A a \in 1..(l - m) : Folded(known, m, fact)[a] = known[a]
          /\ Folded(known, m, fact)[l - m + 1] = fact
        <3>1. known \in Seq(B)
            BY <2>1
        <3>2. fact \in B
            BY <2>4
        <3>3. Folded(known, m, fact) \in Seq(B) /\ IsFolded(Folded(known, m, fact), known, m, fact)
            BY <3>1, <3>2, FoldedIs
        <3>4. QED BY <2>6, <3>3 DEF IsFolded
    <2> DEFINE after == Folded(known, m, fact)
    <2> HIDE DEF after
    <2>9. DOMAIN after = 1..(l - m + 1)
        BY <2>3, <2>6, <2>8 DEF after
    <2>10. CASE i <= l - m
        <3>1. i \in 1..(l - m) /\ i \in 1..(l - m + 1)
            BY <2>3, <2>6, <2>10
        <3>2. QED BY <2>5, <2>7, <2>8, <2>9, <3>1 DEF after
    <2>11. CASE i > l - m
        <3>0. m \in Nat /\ i \in Nat /\ i <= l
            BY <2>3, <2>6
        <3>1. PICK p \in 1..m : p = i - (l - m)
            BY <2>6, <2>11, <3>0
        <3>2. /\ Top(known, m) \in Seq(B) /\ Len(Top(known, m)) = m
              /\ \A a \in 1..m : Top(known, m)[a] = known[l - m + a]
            BY <2>1, <2>3, <2>6, TopIs
        <3>3. l - m + p = i
            BY <2>6, <3>0, <3>1
        <3>4. Top(known, m)[p] = known[i] /\ p \in DOMAIN Top(known, m)
            BY <3>2, <3>3
        <3>5. "never" \in fact
            BY <2>3, <2>4, <2>7, <3>4 DEF LastFact
        <3>6. l - m + 1 \in 1..(l - m + 1)
            BY <2>3, <2>6
        <3>7. QED BY <2>5, <2>8, <2>9, <3>5, <3>6 DEF after
    <2>12. QED BY <2>3, <2>6, <2>10, <2>11
<1> HIDE DEF Bad
<1>5. 0 \in S
    BY <1>2
<1>6. \A j \in Nat : j \in S => j + 1 \in S
    <2> SUFFICES ASSUME NEW j \in Nat, j <= n /\ k <= j => Bad(j), j + 1 <= n, k <= j + 1 PROVE Bad(j + 1)
        OBVIOUS
    <2>1. CASE k = j + 1
        BY <2>1
    <2>2. CASE k # j + 1
        <3>1. k <= j /\ j \in 0..(n - 1)
            BY <1>2, <2>2
        <3>2. QED BY <1>4, <3>1
    <2>3. QED BY <2>1, <2>2
<1>7. n \in S
    <2>1. Nat \subseteq S
        BY <1>5, <1>6, Induction
    <2>2. QED BY <2>1
<1>8. QED BY <1>2, <1>3, <1>7

-----------------------------------------------------------------------------
(* The inductive invariant *)

(* What is known of a result is true of cell c. *)
Holds(fact, p, c) ==
    "never" \notin fact =>
        /\ c # Null /\ ~Dead(p, c)
        /\ "number" \in fact => Number(Value(p, c)) # NaN
        /\ "positive" \in fact => Number(Value(p, c)) > 0
        /\ "filled" \in fact => Text(Value(p, c)) # <<>>

FactsHold(known, p, s) ==
    Len(s) = Len(known) /\ \A k \in DOMAIN s : Holds(known[k], p, s[k])

(* A cell is that of one result, or lost, or free. *)
Parted(s, gone, p) ==
    /\ \A j, k \in DOMAIN s : s[j] = s[k] /\ s[j] # Null => j = k
    /\ \A k \in DOMAIN s : s[k] \notin gone /\ s[k] \notin Free(p)
    /\ gone \cap Free(p) = {}
    /\ \A c \in Cell : c \in Free(p) \cup gone \cup ToSet(s)

MeaningHolds(p, s, m) ==
    \A k \in DOMAIN s : m[k] # Unset => Value(p, s[k]) = m[k]

InterpreterStateType ==
    /\ expression \in Expressions \cup {<<>>} /\ done \in 0..Len(expression)
    /\ stack \in Seq(Cell \cup {Null}) /\ meaning \in Seq(AnyValue) /\ Len(stack) = Len(meaning)
    /\ sound \in BOOLEAN
    /\ lost \subseteq Cell /\ evaluated \in 0..MaxExpressions

InterpreterIInv ==
    /\ PoolOK(pool)
    /\ InterpreterStateType
    /\ Running => /\ FactsHold(Facts(expression)[done], pool, stack)
                  /\ Parted(stack, lost, pool)
                  /\ MeaningHolds(pool, stack, meaning)
    /\ sound => Running /\ (expression # <<>> => Sound(expression))

LEMMA KeptValue ==
    ASSUME NEW p, NEW q, NEW D, Keeps(p, q, D), NEW c \in Cell \cup {Null}, c \notin D
    PROVE  Value(q, c) = Value(p, c) /\ (c # Null /\ ~Dead(p, c) => ~Dead(q, c))
<1>1. CASE c = Null
    BY <1>1 DEF Value
<1>2. CASE c # Null
    <2>1. q.cell[c] = p.cell[c] /\ (p.cell[c].string \in p.strings => q.cell[c].string \in q.strings)
        BY <1>2 DEF Keeps
    <2>2. QED BY <1>2, <2>1 DEF Value, Dead
<1>3. QED BY <1>1, <1>2

LEMMA HoldsKept ==
    ASSUME NEW p, NEW q, NEW c, NEW fact, Holds(fact, p, c), Value(q, c) = Value(p, c),
           c # Null /\ ~Dead(p, c) => ~Dead(q, c)
    PROVE  Holds(fact, q, c)
BY DEF Holds

LEMMA FreeType == \A p : PoolOK(p) => Free(p) \subseteq Cell /\ Null \notin Free(p)
<1> SUFFICES ASSUME NEW p, PoolOK(p) PROVE Free(p) \subseteq Cell
    BY CellType
<1>1. p.free \in Seq(Cell)
    BY DEF PoolOK, Pool
<1>2. QED BY <1>1 DEF Free, ToSet

(* The operands of a node. *)
GoodOperands(t, s, n, gone, p) ==
    /\ t \in Seq(Cell \cup {Null}) /\ DOMAIN t = 1..n
    /\ \A k \in 1..n : t[k] = s[Len(s) - n + k] /\ Len(s) - n + k \in DOMAIN s
    /\ \A j, k \in DOMAIN t : t[j] = t[k] /\ t[j] # Null => j = k
    /\ \A k \in DOMAIN t : t[k] \notin Free(p) /\ t[k] \notin gone
    /\ ToSet(t) = {s[k] : k \in (Len(s) - n + 1)..Len(s)}

LEMMA OperandsAre ==
    ASSUME NEW p, NEW s \in Seq(Cell \cup {Null}), NEW gone, Parted(s, gone, p), NEW n \in 0..Len(s)
    PROVE  GoodOperands(Top(s, n), s, n, gone, p)
<1>1. PICK l \in Nat : l = Len(s)
    OBVIOUS
<1>2. PICK t : t = Top(s, n)
    OBVIOUS
<1>3. t \in Seq(Cell \cup {Null}) /\ Len(t) = n /\ \A k \in 1..n : t[k] = s[l - n + k]
    BY <1>1, <1>2, TopIs
<1>4. DOMAIN t = 1..n /\ DOMAIN s = 1..l /\ n \in 0..l
    BY <1>1, <1>3
<1>5. \A k \in 1..n : l - n + k \in 1..l
    BY <1>4
<1>6. \A j, k \in DOMAIN t : t[j] = t[k] /\ t[j] # Null => j = k
    <2>1. SUFFICES ASSUME NEW j \in 1..n, NEW k \in 1..n, t[j] = t[k], t[j] # Null PROVE j = k
        BY <1>4
    <2>2. s[l - n + j] = s[l - n + k] /\ s[l - n + j] # Null
        BY <1>3, <2>1
    <2>3. l - n + j = l - n + k
        BY <1>4, <1>5, <2>2 DEF Parted
    <2>4. QED BY <1>4, <2>3
<1>7. \A k \in DOMAIN t : t[k] \notin Free(p) /\ t[k] \notin gone
    BY <1>3, <1>4, <1>5 DEF Parted
<1>8. ToSet(t) = {s[k] : k \in (l - n + 1)..l}
    <2>1. \A k \in (l - n + 1)..l : k - (l - n) \in 1..n /\ (l - n) + (k - (l - n)) = k
        BY <1>4
    <2>2. \A k \in 1..n : l - n + k \in (l - n + 1)..l
        BY <1>4
    <2>3. ToSet(t) = {t[k] : k \in 1..n}
        BY <1>4 DEF ToSet
    <2>4. \A d \in ToSet(t) : d \in {s[k] : k \in (l - n + 1)..l}
        BY <1>3, <2>2, <2>3
    <2>5. \A k \in (l - n + 1)..l : s[k] \in ToSet(t)
        <3>1. SUFFICES ASSUME NEW k \in (l - n + 1)..l PROVE s[k] \in ToSet(t)
            OBVIOUS
        <3>2. PICK j \in 1..n : l - n + j = k
            BY <2>1
        <3>3. t[j] = s[k]
            BY <1>3, <3>2
        <3>4. QED BY <2>3, <3>3
    <2>6. QED BY <2>4, <2>5
<1>9. QED BY <1>1, <1>2, <1>3, <1>4, <1>5, <1>6, <1>7, <1>8 DEF GoodOperands

(* A node of n operands takes its cells from the free ones, puts its result  *)
(* into one of them, c, leaves those of gone to nobody, and gives its        *)
(* operands back.                                                           *)
Reduction(p, s, q, n, c, x, fact, more) ==
    /\ PoolOK(q) /\ Free(q) \subseteq Free(p)
    /\ Keeps(p, q, ToSet(Top(s, n)) \cup Free(p))
    /\ c \in Free(p) \cup {Null} /\ c \notin Free(q)
    /\ more \subseteq Free(p) /\ c \notin more /\ more \cap Free(q) = {}
    /\ q.broken = "none" =>
           /\ Free(p) \subseteq Free(q) \cup more \cup {c}
           /\ x # Unset => Value(q, c) = x
           /\ Holds(fact, q, c)
    /\ "never" \notin fact => q.broken = "none" /\ (n # 0 => Lives(p, q))

Reduced(p, s, q, n, c, r) ==
    /\ PoolOK(r)
    /\ Keeps(p, r, ToSet(Top(s, n)) \cup Free(p))
    /\ c \in Cell \cup {Null}
    /\ Value(r, c) = Value(q, c) /\ (c # Null /\ ~Dead(q, c) => ~Dead(r, c))
    /\ r.broken = "none" => q.broken = "none" /\ Free(r) = Free(q) \cup (ToSet(Top(s, n)) \ {Null})
    /\ (\A k \in 1..n : Top(s, n)[k] # Null => ~Dead(q, Top(s, n)[k])) => r.broken = q.broken

LEMMA ReductionOK ==
    ASSUME NEW p, PoolOK(p), NEW s \in Seq(Cell \cup {Null}), NEW gone \in SUBSET Cell, Parted(s, gone, p),
           NEW q, NEW n \in 0..Len(s), NEW c, NEW x, NEW fact, NEW more,
           Reduction(p, s, q, n, c, x, fact, more)
    PROVE  Reduced(p, s, q, n, c, ReleasedAll(q, Top(s, n)))
<1>0. GoodOperands(Top(s, n), s, n, gone, p)
    BY OperandsAre
<1>1. PICK t : t = Top(s, n) /\ t \in Seq(Cell \cup {Null})
    BY <1>0 DEF GoodOperands
<1>2. /\ DOMAIN t = 1..n
      /\ \A j, k \in DOMAIN t : t[j] = t[k] /\ t[j] # Null => j = k
      /\ \A k \in DOMAIN t : t[k] \notin Free(p)
    BY <1>0, <1>1 DEF GoodOperands
<1>3. /\ PoolOK(q) /\ Free(q) \subseteq Free(p) /\ Keeps(p, q, ToSet(t) \cup Free(p))
      /\ c \in Free(p) \cup {Null}
    BY <1>1 DEF Reduction
<1>4. \A k \in DOMAIN t : t[k] \notin Free(q)
    BY <1>2, <1>3
<1>5. PICK r : r = ReleasedAll(q, t)
    OBVIOUS
<1> DEFINE given == ToSet(t) \ {Null}
<1>6. /\ PoolOK(r) /\ Keeps(q, r, given)
      /\ (r.broken = "none" => q.broken = "none" /\ Free(r) = Free(q) \cup given)
      /\ ((\A k \in DOMAIN t : t[k] # Null => ~Dead(q, t[k])) => r.broken = q.broken)
    BY <1>1, <1>2, <1>3, <1>4, <1>5, ReleasedAllOK
<1>7. Keeps(p, r, ToSet(t) \cup Free(p))
    <2>1. Keeps(p, r, ToSet(t) \cup Free(p) \cup given)
        BY <1>3, <1>6, KeepsTransitive
    <2>2. ToSet(t) \cup Free(p) \cup given = ToSet(t) \cup Free(p)
        OBVIOUS
    <2>3. QED BY <2>1, <2>2
<1>8. c \in Cell \cup {Null}
    BY <1>3, FreeType
<1>9. c \notin given
    BY <1>2, <1>3 DEF ToSet
<1>10. Value(r, c) = Value(q, c) /\ (c # Null /\ ~Dead(q, c) => ~Dead(r, c))
    BY <1>6, <1>8, <1>9, KeptValue
<1>11. QED BY <1>1, <1>2, <1>5, <1>6, <1>7, <1>8, <1>10 DEF Reduced

(* The parts of the invariant afterwards. *)
LEMMA ReducedParts ==
    ASSUME NEW p, PoolOK(p), NEW s \in Seq(Cell \cup {Null}), NEW gone \in SUBSET Cell, Parted(s, gone, p),
           NEW q, NEW n \in 0..Len(s), NEW c, NEW x, NEW fact, NEW more,
           Reduction(p, s, q, n, c, x, fact, more),
           NEW r, r = ReleasedAll(q, Top(s, n)), r.broken = "none"
    PROVE  Parted(Folded(s, n, c), gone \cup more, r)
<1>1. PICK l \in Nat : l = Len(s) /\ DOMAIN s = 1..l
    OBVIOUS
<1>2. n \in 0..l
    BY <1>1
<1>3. PICK t : t = Folded(s, n, c)
    OBVIOUS
<1>4. c \in Cell \cup {Null} /\ Reduced(p, s, q, n, c, r)
    <2>1. Reduced(p, s, q, n, c, r)
        BY ReductionOK
    <2>2. QED BY <2>1 DEF Reduced
<1>5. /\ t \in Seq(Cell \cup {Null}) /\ Len(t) = l - n + 1
      /\ \A k \in 1..(l - n) : t[k] = s[k]
      /\ t[l - n + 1] = c
    <2>1. t \in Seq(Cell \cup {Null}) /\ IsFolded(t, s, n, c)
        BY <1>3, <1>4, FoldedIs
    <2>2. QED BY <1>1, <2>1 DEF IsFolded
<1>6. DOMAIN t = 1..(l - n + 1)
    BY <1>2, <1>5
<1>7. \A k \in 1..(l - n + 1) : k \in 1..(l - n) \/ k = l - n + 1
    BY <1>2
<1>8. \A k \in 1..(l - n) : k \in 1..l
    BY <1>2
<1> DEFINE given == ToSet(Top(s, n)) \ {Null}
<1>9. q.broken = "none" /\ Free(r) = Free(q) \cup given
    BY <1>4 DEF Reduced
<1>10. ToSet(Top(s, n)) = {s[k] : k \in (l - n + 1)..l}
    <2>1. GoodOperands(Top(s, n), s, n, gone, p)
        BY OperandsAre
    <2>2. QED BY <1>1, <2>1 DEF GoodOperands
<1>11. \A k \in (l - n + 1)..l : k \in 1..l /\ k \notin 1..(l - n)
    BY <1>2
<1>12. /\ PoolOK(q) /\ Free(q) \subseteq Free(p)
       /\ c \in Free(p) \cup {Null} /\ c \notin Free(q)
       /\ more \subseteq Free(p) /\ c \notin more /\ more \cap Free(q) = {}
       /\ Free(p) \subseteq Free(q) \cup more \cup {c}
    BY <1>9 DEF Reduction
<1>13. /\ \A j, k \in 1..l : s[j] = s[k] /\ s[j] # Null => j = k
       /\ \A k \in 1..l : s[k] \notin gone /\ s[k] \notin Free(p)
       /\ gone \cap Free(p) = {}
       /\ \A d \in Cell : d \in Free(p) \/ d \in gone \/ \E k \in 1..l : d = s[k]
    BY <1>1 DEF Parted, ToSet
<1>14. Free(p) \subseteq Cell /\ Null \notin Free(p) /\ Null \notin Cell
    BY FreeType, CellType
<1>15. \A d \in given : d \notin gone /\ d \notin Free(p) /\ d # c
    <2>1. SUFFICES ASSUME NEW d \in given PROVE d \notin gone /\ d \notin Free(p) /\ d # c
        OBVIOUS
    <2>2. PICK k \in (l - n + 1)..l : d = s[k]
        BY <1>10
    <2>3. d \notin gone /\ d \notin Free(p) /\ d # Null
        BY <1>11, <1>13, <2>2
    <2>4. QED BY <1>12, <2>3
<1> HIDE DEF given
<1>16. \A k \in 1..(l - n) : s[k] \notin given
    BY <1>8, <1>10, <1>11, <1>13 DEF given
<1>17. \A j, k \in DOMAIN t : t[j] = t[k] /\ t[j] # Null => j = k
    <2>1. SUFFICES ASSUME NEW j \in 1..(l - n + 1), NEW k \in 1..(l - n + 1), t[j] = t[k], t[j] # Null PROVE j = k
        BY <1>6
    <2>2. CASE j \in 1..(l - n) /\ k \in 1..(l - n)
        BY <1>5, <1>8, <1>13, <2>1, <2>2
    <2>3. CASE j = l - n + 1 /\ k \in 1..(l - n)
        BY <1>5, <1>8, <1>12, <1>13, <2>1, <2>3
    <2>4. CASE j \in 1..(l - n) /\ k = l - n + 1
        BY <1>5, <1>8, <1>12, <1>13, <2>1, <2>4
    <2>5. QED BY <1>7, <2>2, <2>3, <2>4
<1>18. \A k \in DOMAIN t : t[k] \notin gone \cup more /\ t[k] \notin Free(r)
    <2>1. SUFFICES ASSUME NEW k \in 1..(l - n + 1) PROVE t[k] \notin gone \cup more /\ t[k] \notin Free(r)
        BY <1>6
    <2>2. CASE k \in 1..(l - n)
        BY <1>5, <1>8, <1>9, <1>12, <1>13, <1>16, <2>2
    <2>3. CASE k = l - n + 1
        <3>1. t[k] = c
            BY <1>5, <2>3
        <3>2. c \notin gone
            BY <1>12, <1>13, <1>14
        <3>3. QED BY <1>9, <1>12, <1>15, <3>1, <3>2
    <2>4. QED BY <1>7, <2>2, <2>3
<1>19. (gone \cup more) \cap Free(r) = {}
    BY <1>9, <1>12, <1>13, <1>15
<1>20. \A d \in Cell : d \in Free(r) \cup (gone \cup more) \cup ToSet(t)
    <2>1. ToSet(t) = {t[k] : k \in 1..(l - n + 1)}
        BY <1>6 DEF ToSet
    <2>2. SUFFICES ASSUME NEW d \in Cell PROVE d \in Free(r) \/ d \in gone \/ d \in more \/ d \in ToSet(t)
        OBVIOUS
    <2>3. CASE d \in Free(p)
        <3>1. c \in ToSet(t)
            <4>1. l - n + 1 \in 1..(l - n + 1)
                BY <1>2
            <4>2. QED BY <1>5, <2>1, <4>1
        <3>2. QED BY <1>9, <1>12, <2>3, <3>1
    <2>4. CASE d \in gone
        BY <2>4
    <2>5. ASSUME NEW k \in 1..l, d = s[k] PROVE d \in Free(r) \/ d \in ToSet(t)
        <3>1. CASE k \in 1..(l - n)
            <4>1. k \in 1..(l - n + 1)
                BY <1>2, <3>1
            <4>2. QED BY <1>5, <2>1, <2>5, <3>1, <4>1
        <3>2. CASE k \notin 1..(l - n)
            <4>1. k \in (l - n + 1)..l
                BY <1>2, <3>2
            <4>2. d \in given
                BY <1>10, <1>14, <2>5, <4>1 DEF given
            <4>3. QED BY <1>9, <4>2
        <3>3. QED BY <3>1, <3>2
    <2>6. QED BY <1>13, <2>3, <2>4, <2>5
<1>21. Parted(t, gone \cup more, r)
    BY <1>17, <1>18, <1>19, <1>20 DEF Parted
<1>22. QED BY <1>3, <1>21

(* What the invariant says of a node to be visited. *)
AtNode ==
    /\ expression \in Expressions /\ done \in 0..(Len(expression) - 1)
    /\ Current \in Node /\ Operands(Current) \in 0..Len(stack)
    /\ FactsHold(Facts(expression)[done], pool, stack)
    /\ Parted(stack, lost, pool) /\ MeaningHolds(pool, stack, meaning)
    /\ Facts(expression)[done] \in Seq(SUBSET FactNames)

LEMMA NodeIs ==
    ASSUME InterpreterIInv, Running, done < Len(expression)
    PROVE  AtNode
<1>1. expression \in Expressions \cup {<<>>} /\ done \in 0..Len(expression)
    BY DEF InterpreterIInv, InterpreterStateType
<1>2. expression # <<>>
    BY <1>1
<1>3. expression \in Expressions
    BY <1>1, <1>2
<1>4. PICK l \in Nat : l = Len(expression)
    BY <1>3, ExpressionsAssumption
<1>5. done \in 0..(l - 1) /\ done \in 0..l
    BY <1>1, <1>4
<1>6. FactsHold(Facts(expression)[done], pool, stack) /\ Parted(stack, lost, pool) /\ MeaningHolds(pool, stack, meaning)
    BY DEF InterpreterIInv
<1>7. PICK known : known = Facts(expression)[done]
    OBVIOUS
<1>8. known \in Seq(SUBSET FactNames)
    BY <1>3, <1>4, <1>5, <1>7, FactsType
<1>9. Current \in Node /\ Operands(Current) \in 0..Len(known)
    BY <1>3, <1>4, <1>5, <1>7, <1>8, NextFacts DEF Current
<1>10. Len(known) = Len(stack)
    BY <1>6, <1>7 DEF FactsHold
<1>11. QED BY <1>3, <1>4, <1>5, <1>6, <1>7, <1>8, <1>9, <1>10 DEF AtNode

(* The facts of the operands of a sound node hold. *)
LEMMA OperandFacts ==
    ASSUME InterpreterIInv, AtNode, "never" \notin LastFact(Facts(expression)[done], Current),
           NEW k \in 1..Operands(Current)
    PROVE  LET n == Operands(Current)
               of == Top(Facts(expression)[done], n)
           IN  /\ Holds(of[k], pool, Args(n)[k]) /\ "never" \notin of[k]
               /\ Len(of) = n
               /\ LastFact(Facts(expression)[done], Current) = Known(Current, of)
<1>1. PICK n : n = Operands(Current) /\ n \in 0..Len(stack)
    BY DEF AtNode
<1>2. PICK known : known = Facts(expression)[done] /\ known \in Seq(SUBSET FactNames)
    BY DEF AtNode
<1>3. Len(stack) = Len(known) /\ \A j \in DOMAIN stack : Holds(known[j], pool, stack[j])
    BY <1>2 DEF AtNode, FactsHold
<1>4. PICK l \in Nat : l = Len(known)
    BY <1>2
<1>5. PICK of : of = Top(known, n)
    OBVIOUS
<1>6. Len(of) = n /\ of[k] = known[l - n + k] /\ DOMAIN of = 1..n
    <2>1. n \in 0..Len(known) /\ known \in Seq(SUBSET FactNames)
        BY <1>1, <1>2, <1>3
    <2>2. /\ Top(known, n) \in Seq(SUBSET FactNames) /\ Len(Top(known, n)) = n
          /\ \A j \in 1..n : Top(known, n)[j] = known[Len(known) - n + j]
        BY <2>1, TopIs
    <2>3. QED BY <1>1, <1>4, <1>5, <2>2
<1>7. Args(n)[k] = stack[l - n + k] /\ l - n + k \in DOMAIN stack
    <2>1. stack \in Seq(Cell \cup {Null}) /\ Parted(stack, lost, pool)
        BY DEF InterpreterIInv, InterpreterStateType, AtNode
    <2>2. GoodOperands(Top(stack, n), stack, n, lost, pool)
        BY <1>1, <2>1, OperandsAre
    <2>3. Args(n) = Top(stack, n)
        BY DEF Args, Top
    <2>4. QED BY <1>1, <1>3, <1>4, <2>2, <2>3 DEF GoodOperands
<1>8. Holds(of[k], pool, Args(n)[k])
    BY <1>3, <1>6, <1>7
<1>9. LastFact(known, Current) = (IF \E j \in DOMAIN of : "never" \in of[j] THEN {"never"} ELSE Known(Current, of))
    BY <1>1, <1>5 DEF LastFact
<1>10. "never" \notin of[k] /\ LastFact(known, Current) = Known(Current, of)
    BY <1>1, <1>2, <1>6, <1>9
<1>11. QED BY <1>1, <1>2, <1>5, <1>6, <1>8, <1>10

(* A node keeps the invariant. *)
LEMMA ReducePreserves ==
    ASSUME InterpreterIInv, Running, AtNode, NEW q, NEW c, NEW x \in AnyValue, NEW more,
           Reduction(pool, stack, q, Operands(Current), c, x, LastFact(Facts(expression)[done], Current), more),
           Reduce(Operands(Current), ReleasedAll(q, Args(Operands(Current))), c, x), lost' = lost \cup more
    PROVE  InterpreterIInv'
<1>1. PICK n : n = Operands(Current) /\ n \in 0..Len(stack)
    BY DEF AtNode
<1>2. PICK known : known = Facts(expression)[done] /\ known \in Seq(SUBSET FactNames)
    BY DEF AtNode
<1>3. PICK fact : fact = LastFact(known, Current)
    OBVIOUS
<1>4. Reduction(pool, stack, q, n, c, x, fact, more)
    BY <1>1, <1>2, <1>3
<1>5. /\ PoolOK(pool) /\ pool.broken = "none"
      /\ stack \in Seq(Cell \cup {Null}) /\ meaning \in Seq(AnyValue) /\ Len(stack) = Len(meaning)
      /\ lost \in SUBSET Cell /\ sound \in BOOLEAN /\ evaluated \in 0..MaxExpressions
    BY DEF InterpreterIInv, InterpreterStateType, Running
<1>6. /\ expression \in Expressions /\ done \in 0..(Len(expression) - 1)
      /\ FactsHold(known, pool, stack) /\ Parted(stack, lost, pool) /\ MeaningHolds(pool, stack, meaning)
    BY <1>2 DEF AtNode
<1>7. PICK r : r = ReleasedAll(q, Top(stack, n))
    OBVIOUS
<1>8. PICK s, m, facts : s = Folded(stack, n, c) /\ m = Folded(meaning, n, x) /\ facts = Folded(known, n, fact)
    OBVIOUS
<1>9. /\ pool' = r /\ done' = done + 1 /\ stack' = s /\ meaning' = m
      /\ expression' = expression /\ sound' = sound /\ evaluated' = evaluated /\ lost' = lost \cup more
    <2>1. Args(n) = Top(stack, n)
        BY DEF Args, Top
    <2>2. QED BY <1>1, <1>7, <1>8, <2>1 DEF Reduce, Folded
<1>10. Reduced(pool, stack, q, n, c, r)
    BY <1>1, <1>4, <1>5, <1>6, <1>7, ReductionOK
<1>11. PICK l \in Nat : l = Len(stack) /\ DOMAIN stack = 1..l /\ Len(known) = l
    BY <1>5, <1>6 DEF FactsHold
<1>12. c \in Cell \cup {Null} /\ PoolOK(r)
    BY <1>10 DEF Reduced
<1>13. s \in Seq(Cell \cup {Null}) /\ IsFolded(s, stack, n, c)
    BY <1>1, <1>5, <1>8, <1>12, FoldedIs
<1>14. m \in Seq(AnyValue) /\ IsFolded(m, meaning, n, x)
    <2>1. n \in 0..Len(meaning)
        BY <1>1, <1>5
    <2>2. QED BY <1>5, <1>8, <2>1, FoldedIs
<1>15. PICK B : B = SUBSET FactNames
    OBVIOUS
<1>16. fact \in B /\ facts = Facts(expression)[done + 1]
    BY <1>1, <1>2, <1>3, <1>6, <1>8, <1>15, NextFacts DEF Current
<1>17. facts \in Seq(B) /\ IsFolded(facts, known, n, fact)
    <2>1. n \in 0..Len(known) /\ known \in Seq(B)
        BY <1>1, <1>2, <1>11, <1>15
    <2>2. fact \in B
        BY <1>16
    <2>3. Folded(known, n, fact) \in Seq(B) /\ IsFolded(Folded(known, n, fact), known, n, fact)
        BY <2>1, <2>2, FoldedIs
    <2>4. QED BY <1>8, <2>3
<1>18. /\ Len(s) = l - n + 1 /\ Len(m) = l - n + 1 /\ Len(facts) = l - n + 1
       /\ s[l - n + 1] = c /\ m[l - n + 1] = x /\ facts[l - n + 1] = fact
       /\ \A k \in 1..(l - n) : s[k] = stack[k] /\ m[k] = meaning[k] /\ facts[k] = known[k]
    BY <1>5, <1>11, <1>13, <1>14, <1>17 DEF IsFolded
<1>19. DOMAIN s = 1..(l - n + 1) /\ n \in 0..l
    BY <1>1, <1>11, <1>13, <1>18
<1>20. \A k \in 1..(l - n + 1) : k \in 1..(l - n) \/ k = l - n + 1
    BY <1>19
<1>21. \A k \in 1..(l - n) : k \in 1..l
    BY <1>19
(* The results below are what they were. *)
<1>22. ASSUME NEW k \in 1..(l - n)
       PROVE  Value(r, stack[k]) = Value(pool, stack[k]) /\ (stack[k] # Null /\ ~Dead(pool, stack[k]) => ~Dead(r, stack[k]))
    <2>1. Keeps(pool, r, ToSet(Top(stack, n)) \cup Free(pool))
        BY <1>10 DEF Reduced
    <2>2. k \in 1..l /\ k \notin (l - n + 1)..l
        BY <1>19
    <2>3. stack[k] \in Cell \cup {Null}
        BY <1>5, <1>11, <2>2
    <2>4. CASE stack[k] = Null
        BY <2>4 DEF Value
    <2>5. CASE stack[k] # Null
        <3>1. stack[k] \notin Free(pool)
            BY <1>6, <1>11, <2>2 DEF Parted
        <3>2. stack[k] \notin ToSet(Top(stack, n))
            <4>1. GoodOperands(Top(stack, n), stack, n, lost, pool)
                BY <1>1, <1>5, <1>6, OperandsAre
            <4>2. ToSet(Top(stack, n)) = {stack[j] : j \in (l - n + 1)..l}
                BY <1>11, <4>1 DEF GoodOperands
            <4>3. \A j \in (l - n + 1)..l : j \in 1..l /\ j # k
                BY <1>19, <2>2
            <4>4. \A j \in (l - n + 1)..l : stack[j] # stack[k]
                BY <1>6, <1>11, <2>2, <2>5, <4>3 DEF Parted
            <4>5. QED BY <4>2, <4>4
        <3>3. QED BY <2>1, <2>3, <3>1, <3>2, KeptValue
    <2>6. QED BY <2>4, <2>5
<1>23. ASSUME r.broken = "none" PROVE FactsHold(facts, r, s) /\ MeaningHolds(r, s, m) /\ Parted(s, lost \cup more, r)
    <2>1. q.broken = "none" /\ Value(r, c) = Value(q, c) /\ (c # Null /\ ~Dead(q, c) => ~Dead(r, c))
        BY <1>10, <1>23 DEF Reduced
    <2>2. (x # Unset => Value(q, c) = x) /\ Holds(fact, q, c)
        BY <1>4, <2>1 DEF Reduction
    <2>3. ASSUME NEW k \in 1..(l - n + 1) PROVE Holds(facts[k], r, s[k]) /\ (m[k] # Unset => Value(r, s[k]) = m[k])
        <3>1. CASE k \in 1..(l - n)
            <4>1. Holds(known[k], pool, stack[k]) /\ (meaning[k] # Unset => Value(pool, stack[k]) = meaning[k])
                BY <1>6, <1>11, <1>21, <3>1 DEF FactsHold, MeaningHolds
            <4>2. Value(r, stack[k]) = Value(pool, stack[k]) /\ (stack[k] # Null /\ ~Dead(pool, stack[k]) => ~Dead(r, stack[k]))
                BY <1>22, <3>1
            <4>3. Holds(known[k], r, stack[k])
                BY <4>1, <4>2, HoldsKept
            <4>4. QED BY <1>18, <3>1, <4>1, <4>2, <4>3
        <3>2. CASE k = l - n + 1
            <4>1. Holds(fact, r, c)
                BY <2>1, <2>2, HoldsKept
            <4>2. QED BY <1>18, <2>1, <2>2, <3>2, <4>1
        <3>3. QED BY <1>20, <3>1, <3>2
    <2>4. FactsHold(facts, r, s) /\ MeaningHolds(r, s, m)
        BY <1>18, <1>19, <2>3 DEF FactsHold, MeaningHolds
    <2>5. Parted(s, lost \cup more, r)
        BY <1>1, <1>4, <1>5, <1>6, <1>7, <1>8, <1>23, ReducedParts
    <2>6. QED BY <2>4, <2>5
<1>24. ASSUME sound PROVE r.broken = "none" /\ Sound(expression)
    <2>1. expression # <<>>
        BY <1>6
    <2>2. Sound(expression)
        BY <1>24, <2>1 DEF InterpreterIInv
    <2>3. "never" \notin fact
        <3>1. done + 1 \in 0..Len(expression)
            BY <1>6
        <3>2. \A i \in DOMAIN Facts(expression)[done + 1] : "never" \notin Facts(expression)[done + 1][i]
            BY <1>6, <2>2, <3>1, NeverLasts
        <3>3. l - n + 1 \in DOMAIN facts
            BY <1>17, <1>18, <1>19
        <3>4. QED BY <1>16, <1>18, <3>2, <3>3
    <2>4. q.broken = "none" /\ (n # 0 => Lives(pool, q))
        BY <1>4, <2>3 DEF Reduction
    <2>5. ASSUME NEW k \in 1..n, Top(stack, n)[k] # Null PROVE ~Dead(q, Top(stack, n)[k])
        <3>1. Args(n) = Top(stack, n)
            BY DEF Args, Top
        <3>2. PICK of : Holds(of[k], pool, Args(n)[k]) /\ "never" \notin of[k]
            BY <1>1, <1>2, <1>3, <2>3, OperandFacts
        <3>3. ~Dead(pool, Top(stack, n)[k])
            BY <3>1, <3>2 DEF Holds
        <3>4. Top(stack, n)[k] \in Cell
            <4>1. GoodOperands(Top(stack, n), stack, n, lost, pool)
                BY <1>1, <1>5, <1>6, OperandsAre
            <4>2. PICK t : t = Top(stack, n)
                OBVIOUS
            <4>3. t \in Seq(Cell \cup {Null}) /\ DOMAIN t = 1..n
                BY <4>1, <4>2 DEF GoodOperands
            <4>4. t[k] \in Cell \cup {Null}
                BY <4>3, ElementOf
            <4>5. QED BY <2>5, <4>2, <4>4
        <3>5. n # 0
            BY <1>1
        <3>6. QED BY <2>4, <3>3, <3>4, <3>5 DEF Lives
    <2>6. r.broken = q.broken
        BY <1>10, <2>5 DEF Reduced
    <2>7. QED BY <2>2, <2>4, <2>6
<1>25. lost \cup more \in SUBSET Cell /\ done + 1 \in 0..Len(expression)
    <2>1. more \subseteq Cell
        BY <1>4, <1>5, FreeType DEF Reduction
    <2>2. QED BY <1>5, <1>6, <2>1
<1>26. InterpreterStateType'
    BY <1>5, <1>6, <1>9, <1>13, <1>14, <1>18, <1>25 DEF InterpreterStateType
<1>27. QED BY <1>9, <1>12, <1>16, <1>23, <1>24, <1>26 DEF InterpreterIInv, Running

-----------------------------------------------------------------------------
(* Nodes without operands *)

LEMMA KeepsMore ==
    ASSUME NEW p, NEW q, NEW D, NEW E, Keeps(p, q, D), D \subseteq E
    PROVE  Keeps(p, q, E)
BY DEF Keeps

LEMMA LastFactIs ==
    ASSUME NEW known, NEW node, "never" \notin LastFact(known, node)
    PROVE  LastFact(known, node) = Known(node, Top(known, Operands(node)))
BY DEF LastFact

(* What is known of numbers and of texts. *)
LEMMA IntHolds ==
    ASSUME NEW q, NEW c, NEW n \in Ints, Value(q, c) = IntValue(n), c # Null, ~Dead(q, c),
           NEW fact, "positive" \in fact => n > 0
    PROVE  Holds(fact, q, c)
<1>1. Number(IntValue(n)) = n /\ n # NaN
    BY IntsType DEF Number, IntValue
<1>2. Text(IntValue(n)) # <<>>
    <2>1. IntValue(n) \in AnyValue /\ IntValue(n).type = "int"
        BY StoredType DEF IntValue
    <2>2. QED BY <2>1, TextType
<1>3. QED BY <1>1, <1>2 DEF Holds

LEMMA TextHolds ==
    ASSUME NEW q, NEW c, NEW t, Value(q, c) = TextValue(t), c # Null, ~Dead(q, c),
           NEW fact, "positive" \notin fact,
           "number" \in fact => Parsed(t) # NaN, "filled" \in fact => t # <<>>
    PROVE  Holds(fact, q, c)
<1>1. Number(TextValue(t)) = Parsed(t) /\ Text(TextValue(t)) = t
    BY DEF Number, Text, TextValue
<1>2. QED BY <1>1 DEF Holds

(* A value in the first free cell. *)
Fresh(p, q, c, x) ==
    /\ PoolOK(q) /\ q.broken = p.broken /\ q.free = Tail(p.free)
    /\ c \in Cell /\ c \in Free(p) /\ c \notin Free(q) /\ Free(p) = Free(q) \cup {c}
    /\ Keeps(p, q, {c}) /\ Lives(p, q)
    /\ Value(q, c) = x /\ ~Dead(q, c)

LEMMA FreshOK ==
    ASSUME NEW p, PoolOK(p), p.free # <<>>, NEW x \in Stored
    PROVE  Fresh(p, Put(Taken(p), Head(p.free), x), Head(p.free), x)
<1>1. PICK t : t = Taken(p)
    OBVIOUS
<1>2. PICK c : c = Head(p.free)
    OBVIOUS
<1>3. /\ PoolOK(t) /\ t.broken = p.broken /\ t.cell = p.cell /\ c \in Cell /\ c \in Free(p) /\ c \notin Free(t)
      /\ Free(p) = Free(t) \cup {c} /\ t.free = Tail(p.free)
      /\ p.cell[c].string \notin t.strings /\ Keeps(p, t, {}) /\ Lives(p, t)
    BY <1>1, <1>2, TakenOK
<1>4. t.cell[c].string \notin t.strings
    BY <1>3
<1>5. PICK q : q = Put(t, c, x)
    OBVIOUS
<1>6. /\ PoolOK(q) /\ q.free = t.free /\ q.broken = t.broken
      /\ Keeps(t, q, {c}) /\ Lives(t, q) /\ Value(q, c) = x /\ ~Dead(q, c)
    BY <1>3, <1>4, <1>5, PutOK
<1>7. Free(q) = Free(t)
    BY <1>6 DEF Free
<1>8. Keeps(p, q, {c})
    <2>1. Keeps(p, q, {} \cup {c})
        BY <1>3, <1>6, KeepsTransitive
    <2>2. {} \cup {c} = {c}
        OBVIOUS
    <2>3. QED BY <2>1, <2>2
<1>9. Lives(p, q)
    BY <1>3, <1>6, LivesTransitive
<1>10. QED BY <1>1, <1>2, <1>3, <1>5, <1>6, <1>7, <1>8, <1>9 DEF Fresh

LEMMA AtGives ==
    ASSUME NEW ops, InterpreterIInv, At(ops)
    PROVE  /\ Running /\ done < Len(expression) /\ AtNode /\ PoolOK(pool) /\ pool.broken = "none"
           /\ pool.free # <<>> /\ Tail(pool.free) # <<>>
           /\ Current.op \in ops /\ New \in Free(pool)
<1>1. Running /\ done < Len(expression) /\ Current.op \in ops /\ Len(pool.free) >= 2 /\ pool.broken = "none"
    BY DEF At, Running
<1>2. PoolOK(pool)
    BY DEF InterpreterIInv
<1>3. pool.free \in Seq(Cell)
    BY <1>2 DEF PoolOK, Pool
<1>4. pool.free # <<>> /\ Tail(pool.free) # <<>>
    BY <1>1, <1>3, TwoElements
<1>5. New \in Free(pool)
    BY <1>2, <1>4, TakenOK DEF New
<1>6. QED BY <1>1, <1>2, <1>4, <1>5, NodeIs

LEMMA NoArgs ==
    ASSUME InterpreterIInv, NEW q
    PROVE  ReleasedAll(q, Args(0)) = q
<1>1. stack \in Seq(Cell \cup {Null})
    BY DEF InterpreterIInv, InterpreterStateType
<1>2. Args(0) = <<>>
    BY <1>1 DEF Args
<1>3. QED BY <1>2, NoneReleased

(* A number or a text of the configuration. *)
LEMMA ConstantPreserves ==
    ASSUME InterpreterIInv, NEW ops, At(ops), NEW x \in Stored, Operands(Current) = 0,
           Holds(LastFact(Facts(expression)[done], Current), Put(Taken(pool), New, x), New),
           Reduce(0, Put(Taken(pool), New, x), New, x), UNCHANGED lost
    PROVE  InterpreterIInv'
<1>1. Running /\ AtNode /\ PoolOK(pool) /\ pool.broken = "none" /\ pool.free # <<>>
    BY AtGives
<1>2. PICK q : q = Put(Taken(pool), New, x)
    OBVIOUS
<1>3. Fresh(pool, q, New, x)
    BY <1>1, <1>2, FreshOK DEF New
<1> DEFINE D == ToSet(Top(stack, Operands(Current))) \cup Free(pool)
<1>4. Keeps(pool, q, D)
    <2>1. {New} \subseteq D
        BY <1>3 DEF Fresh
    <2>2. Keeps(pool, q, {New})
        BY <1>3 DEF Fresh
    <2> HIDE DEF D
    <2>3. QED BY <2>1, <2>2, KeepsMore
<1>5. Reduction(pool, stack, q, Operands(Current), New, x, LastFact(Facts(expression)[done], Current), {})
    <2>1. Holds(LastFact(Facts(expression)[done], Current), q, New)
        BY <1>2
    <2>2. /\ PoolOK(q) /\ Free(q) \subseteq Free(pool) /\ New \in Free(pool) /\ New \notin Free(q)
          /\ Free(pool) \subseteq Free(q) \cup {New} /\ Value(q, New) = x /\ q.broken = "none"
        BY <1>1, <1>3 DEF Fresh
    <2>3. QED BY <1>4, <2>1, <2>2 DEF Reduction
<1>6. Reduce(Operands(Current), ReleasedAll(q, Args(Operands(Current))), New, x)
    BY <1>2, NoArgs
<1>7. x \in AnyValue /\ lost' = lost \cup {}
    BY StoredType
<1>8. QED BY <1>1, <1>5, <1>6, <1>7, ReducePreserves

LEMMA IntegerPreserves == ASSUME InterpreterIInv, Integer PROVE InterpreterIInv'
<1>1. /\ At({"INTEGER"}) /\ UNCHANGED lost
      /\ LET n == Current.num
         IN  IF n <= MaxInt
             THEN Reduce(0, Put(Taken(pool), New, IntValue(n)), New, IntValue(n))
             ELSE Reduce(0, Released(Put(Taken(pool), New, IntValue(0)), New), Null, Nothing)
    BY DEF Integer
<1>2. Running /\ AtNode /\ PoolOK(pool) /\ pool.broken = "none" /\ pool.free # <<>> /\ Current.op = "INTEGER"
    BY <1>1, AtGives
<1>3. Current.num \in Nat /\ Operands(Current) = 0
    <2>1. Current \in Node
        BY <1>2 DEF AtNode
    <2>2. \A node \in Node : node.op = "INTEGER" => node.num \in Nat
        BY DEF Node, Functions, Arithmetic, Comparison
    <2>3. QED BY <1>2, <2>1, <2>2 DEF Operands, Functions, Arithmetic, Comparison
<1>4. PICK fact : fact = LastFact(Facts(expression)[done], Current)
    OBVIOUS
<1>5. "never" \notin fact => Current.num <= MaxInt /\ ("positive" \in fact => Current.num > 0)
    <2>1. SUFFICES ASSUME "never" \notin fact PROVE Current.num <= MaxInt /\ ("positive" \in fact => Current.num > 0)
        OBVIOUS
    <2>2. PICK of : fact = Known(Current, of)
        BY <1>4, <2>1, LastFactIs
    <2>3. Current.num <= MaxInt /\ fact = AnInt \cup (IF Current.num > 0 THEN {"positive"} ELSE {})
        BY <1>2, <2>1, <2>2, KnownInteger
    <2>4. "positive" \notin AnInt
        BY DEF AnInt
    <2>5. QED BY <2>3, <2>4
<1>6. CASE Current.num <= MaxInt
    <2>1. PICK n \in Ints : n = Current.num
        BY <1>3, <1>6, IntsType DEF Ints
    <2>2. PICK q : q = Put(Taken(pool), New, IntValue(n))
        OBVIOUS
    <2>3. IntValue(n) \in Stored
        BY StoredType
    <2>4. Fresh(pool, q, New, IntValue(n))
        BY <1>2, <2>2, <2>3, FreshOK DEF New
    <2>5. Holds(fact, q, New)
        <3>1. New # Null /\ ~Dead(q, New) /\ Value(q, New) = IntValue(n)
            BY <2>4, CellType DEF Fresh
        <3>2. CASE "never" \in fact
            BY <3>2 DEF Holds
        <3>3. CASE "never" \notin fact
            BY <1>5, <2>1, <3>1, <3>3, IntHolds
        <3>4. QED BY <3>2, <3>3
    <2>6. Reduce(0, q, New, IntValue(n))
        BY <1>1, <1>6, <2>1, <2>2
    <2>7. QED BY <1>1, <1>3, <1>4, <2>2, <2>3, <2>5, <2>6, ConstantPreserves
<1>7. CASE ~(Current.num <= MaxInt)
    <2>1. PICK p : p = Put(Taken(pool), New, IntValue(0))
        OBVIOUS
    <2>2. IntValue(0) \in Stored
        BY IntsType, StoredType
    <2>3. Fresh(pool, p, New, IntValue(0))
        BY <1>2, <2>1, <2>2, FreshOK DEF New
    <2>4. PICK q : q = Released(p, New)
        OBVIOUS
    <2>5. New \in Cell /\ PoolOK(p) /\ New \notin Free(p) /\ ~Dead(p, New) /\ New # Null
        BY <2>3, CellType DEF Fresh
    <2>6. /\ PoolOK(q) /\ Keeps(p, q, {New}) /\ q.broken = p.broken
          /\ (q.broken = "none" => Free(q) = Free(p) \cup ({New} \ {Null}))
        BY <2>4, <2>5, ReleasedOK
    <2>7. q.broken = "none" /\ Free(q) = Free(pool)
        BY <1>2, <2>3, <2>5, <2>6 DEF Fresh
    <2>8. Keeps(pool, q, ToSet(Top(stack, Operands(Current))) \cup Free(pool))
        <3>1. Keeps(pool, q, {New} \cup {New})
            BY <2>3, <2>6, KeepsTransitive DEF Fresh
        <3>2. {New} \cup {New} \subseteq ToSet(Top(stack, Operands(Current))) \cup Free(pool)
            BY <2>3 DEF Fresh
        <3>3. QED BY <3>1, <3>2, KeepsMore
    <2>9. Null \notin Free(q) /\ Value(q, Null) = Nothing
        BY <2>6, FreeType DEF Value
    <2>10. "never" \in fact
        BY <1>5, <1>7
    <2>11. Reduction(pool, stack, q, Operands(Current), Null, Nothing, fact, {})
        BY <2>6, <2>7, <2>8, <2>9, <2>10 DEF Reduction, Holds
    <2>12. Reduce(Operands(Current), ReleasedAll(q, Args(Operands(Current))), Null, Nothing)
        BY <1>1, <1>3, <1>7, <2>1, <2>4, NoArgs
    <2>13. Nothing \in AnyValue /\ lost' = lost \cup {}
        BY <1>1, StoredType
    <2>14. QED BY <1>2, <1>4, <2>11, <2>12, <2>13, ReducePreserves
<1>8. QED BY <1>6, <1>7

LEMMA StringPreserves == ASSUME InterpreterIInv, String PROVE InterpreterIInv'
<1>1. PICK x : x = TextValue(Current.text)
    OBVIOUS
<1>2. At({"STRING", "RECORD"}) /\ UNCHANGED lost /\ Reduce(0, Put(Taken(pool), New, x), New, x)
    BY <1>1 DEF String
<1>3. Running /\ AtNode /\ PoolOK(pool) /\ pool.free # <<>> /\ Current.op \in {"STRING", "RECORD"}
    BY <1>2, AtGives
<1>4. Current.text \in Texts /\ Operands(Current) = 0
    <2>1. Current \in Node
        BY <1>3 DEF AtNode
    <2>2. \A node \in Node : node.op \in {"STRING", "RECORD"} => node.text \in Texts
        BY DEF Node, Functions, Arithmetic, Comparison
    <2>3. QED BY <1>3, <2>1, <2>2 DEF Operands, Functions, Arithmetic, Comparison
<1>5. x \in Stored
    BY <1>1, <1>4, StoredType
<1>6. PICK fact : fact = LastFact(Facts(expression)[done], Current)
    OBVIOUS
<1>7. PICK q : q = Put(Taken(pool), New, x)
    OBVIOUS
<1>8. Fresh(pool, q, New, x)
    BY <1>3, <1>5, <1>7, FreshOK DEF New
<1>9. Holds(fact, q, New)
    <2>1. CASE "never" \in fact
        BY <2>1 DEF Holds
    <2>2. CASE "never" \notin fact
        <3>1. PICK of : fact = Known(Current, of)
            BY <1>6, <2>2, LastFactIs
        <3>2. /\ "number" \in fact => Parsed(Current.text) # NaN
              /\ "positive" \notin fact
              /\ "filled" \in fact => Current.text # <<>>
            BY <1>3, <3>1, KnownText
        <3>3. New # Null /\ ~Dead(q, New) /\ Value(q, New) = TextValue(Current.text)
            BY <1>1, <1>8, CellType DEF Fresh
        <3>4. QED BY <3>2, <3>3, TextHolds
    <2>3. QED BY <2>1, <2>2
<1>10. QED BY <1>2, <1>4, <1>5, <1>6, <1>7, <1>9, ConstantPreserves

LEMMA NoRecordPreserves == ASSUME InterpreterIInv, NoRecord PROVE InterpreterIInv'
<1>1. At({"NORECORD"}) /\ UNCHANGED lost /\ Reduce(0, Broken(Taken(pool), "null"), Null, Nothing)
    BY DEF NoRecord
<1>2. Running /\ AtNode /\ PoolOK(pool) /\ pool.free # <<>> /\ Current.op = "NORECORD"
    BY <1>1, AtGives
<1>3. Operands(Current) = 0
    BY <1>2 DEF Operands, Functions, Arithmetic, Comparison
<1>4. PICK fact : fact = LastFact(Facts(expression)[done], Current)
    OBVIOUS
<1>5. "never" \in fact
    BY <1>2, <1>4, LastFactIs, KnownNoRecord
<1>6. PICK p : p = Taken(pool)
    OBVIOUS
<1>7. PoolOK(p) /\ Free(pool) = Free(p) \cup {New} /\ Keeps(pool, p, {})
    BY <1>2, <1>6, TakenOK DEF New
<1>8. PICK q : q = Broken(p, "null")
    OBVIOUS
<1>9. PoolOK(q) /\ q.free = p.free /\ q.broken # "none" /\ Keeps(p, q, {})
    <2>1. "null" \in Broke
        BY DEF Broke
    <2>2. QED BY <1>7, <1>8, <2>1, BrokenOK
<1>10. Keeps(pool, q, ToSet(Top(stack, Operands(Current))) \cup Free(pool))
    <2>1. Keeps(pool, q, {} \cup {})
        BY <1>7, <1>9, KeepsTransitive
    <2>2. QED BY <2>1, KeepsMore
<1>11. Free(q) \subseteq Free(pool) /\ Null \notin Free(q)
    <2>1. Free(q) = Free(p)
        BY <1>9 DEF Free
    <2>2. QED BY <1>7, <1>9, <2>1, FreeType
<1>12. Reduction(pool, stack, q, Operands(Current), Null, Nothing, fact, {})
    BY <1>5, <1>9, <1>10, <1>11 DEF Reduction
<1>13. Reduce(Operands(Current), ReleasedAll(q, Args(Operands(Current))), Null, Nothing)
    BY <1>1, <1>3, <1>6, <1>8, NoArgs
<1>14. Nothing \in AnyValue /\ lost' = lost \cup {}
    BY <1>1, StoredType
<1>15. QED BY <1>2, <1>4, <1>12, <1>13, <1>14, ReducePreserves

-----------------------------------------------------------------------------
(* The ends of an evaluation *)

LEMMA StartPreserves == ASSUME InterpreterIInv, Start PROVE InterpreterIInv'
<1>1. /\ Running /\ expression = <<>> /\ expression' \in Expressions
      /\ sound' = (sound /\ Sound(expression')) /\ evaluated < MaxExpressions /\ evaluated' = evaluated + 1
      /\ pool' = pool /\ done' = done /\ stack' = stack /\ meaning' = meaning /\ lost' = lost
    BY DEF Start
<1>2. /\ PoolOK(pool) /\ InterpreterStateType /\ FactsHold(Facts(expression)[done], pool, stack)
      /\ Parted(stack, lost, pool) /\ MeaningHolds(pool, stack, meaning)
    BY <1>1 DEF InterpreterIInv
<1>3. done = 0
    <2>1. done \in 0..Len(expression)
        BY <1>2 DEF InterpreterStateType
    <2>2. Len(<<>>) = 0
        OBVIOUS
    <2>3. done \in 0..0
        BY <1>1, <2>1, <2>2
    <2>4. QED BY <2>3
<1>4. Facts(<<>>)[0] = <<>>
    <2>1. Len(<<>>) \in Nat
        OBVIOUS
    <2>2. QED BY <2>1, FactsDefined DEF Told
<1>5. Facts(expression')[0] = <<>>
    <2>1. Len(expression') \in Nat
        BY <1>1, ExpressionsAssumption
    <2>2. QED BY <2>1, FactsDefined DEF Told
<1>6. FactsHold(Facts(expression')[done'], pool', stack')
    <2>1. FactsHold(<<>>, pool, stack)
        BY <1>1, <1>2, <1>3, <1>4
    <2>2. QED BY <1>1, <1>3, <1>5, <2>1
<1>7. InterpreterStateType'
    <2>1. done' \in 0..Len(expression')
        BY <1>1, <1>3, ExpressionsAssumption
    <2>2. sound' \in BOOLEAN
        BY <1>1
    <2>3. evaluated' \in 0..MaxExpressions
        BY <1>1, <1>2, PoolAssumption DEF InterpreterStateType
    <2>4. QED BY <1>1, <1>2, <2>1, <2>2, <2>3 DEF InterpreterStateType
<1>8. QED BY <1>1, <1>2, <1>6, <1>7 DEF InterpreterIInv, Running

(* The one result of an expression. *)
OneResult ==
    /\ PoolOK(pool) /\ pool.broken = "none" /\ InterpreterStateType
    /\ Len(stack) = 1 /\ DOMAIN stack = {1} /\ stack[1] \in Cell \cup {Null}
    /\ stack[1] \notin lost /\ stack[1] \notin Free(pool) /\ lost \cap Free(pool) = {}
    /\ \A c \in Cell : c \in Free(pool) \/ c \in lost \/ c = stack[1]
    /\ sound => stack[1] # Null /\ ~Dead(pool, stack[1])

LEMMA ResultIs ==
    ASSUME InterpreterIInv, Running, expression # <<>>, done = Len(expression)
    PROVE  OneResult
<1>1. /\ PoolOK(pool) /\ pool.broken = "none" /\ InterpreterStateType /\ Parted(stack, lost, pool)
      /\ FactsHold(Facts(expression)[done], pool, stack)
    BY DEF InterpreterIInv, Running
<1>2. expression \in Expressions /\ stack \in Seq(Cell \cup {Null})
    BY <1>1 DEF InterpreterStateType
<1>3. WellFormed(expression)
    BY <1>2, ExpressionsAssumption
<1>4. Len(Facts(expression)[done]) = 1
    BY <1>3 DEF WellFormed
<1>5. Len(stack) = 1
    BY <1>1, <1>4 DEF FactsHold
<1>6. DOMAIN stack = {1} /\ stack[1] \in Cell \cup {Null}
    <2>1. DOMAIN stack = 1..1
        BY <1>2, <1>5
    <2>2. 1..1 = {1}
        OBVIOUS
    <2>3. 1 \in DOMAIN stack
        BY <2>1, <2>2
    <2>4. QED BY <1>2, <2>1, <2>2, <2>3, ElementOf
<1>7. ToSet(stack) = {stack[1]}
    BY <1>6 DEF ToSet
<1>8. Holds(Facts(expression)[done][1], pool, stack[1])
    BY <1>1, <1>6 DEF FactsHold
<1>9. sound => "never" \notin Facts(expression)[done][1]
    BY DEF InterpreterIInv, Sound
<1>10. sound => stack[1] # Null /\ ~Dead(pool, stack[1])
    BY <1>8, <1>9 DEF Holds
<1>11. QED BY <1>1, <1>5, <1>6, <1>7, <1>10 DEF OneResult, Parted

LEMMA DonePreserves ==
    ASSUME InterpreterIInv, NEW p, PoolOK(p), Done(p), NEW more \in SUBSET Cell, lost' = lost \cup more,
           p.broken = "none" => (\A c \in Cell : c \in Free(p) <=> c \notin lost \cup more),
           sound => p.broken = "none"
    PROVE  InterpreterIInv'
<1>1. /\ pool' = p /\ expression' = <<>> /\ done' = 0 /\ stack' = <<>> /\ meaning' = <<>>
      /\ sound' = sound /\ evaluated' = evaluated
    BY DEF Done
<1>2. InterpreterStateType
    BY DEF InterpreterIInv
<1>3. Facts(<<>>)[0] = <<>>
    <2>1. Len(<<>>) \in Nat
        OBVIOUS
    <2>2. QED BY <2>1, FactsDefined DEF Told
<1>4. DOMAIN <<>> = {} /\ Len(<<>>) = 0
    OBVIOUS
<1>5. FactsHold(Facts(expression')[done'], pool', stack')
    BY <1>1, <1>3, <1>4 DEF FactsHold
<1>6. MeaningHolds(pool', stack', meaning')
    BY <1>1, <1>4 DEF MeaningHolds
<1>7. p.broken = "none" => Parted(<<>>, lost \cup more, p)
    <2>1. SUFFICES ASSUME p.broken = "none" PROVE Parted(<<>>, lost \cup more, p)
        OBVIOUS
    <2>2. Free(p) \subseteq Cell
        BY FreeType
    <2>3. (lost \cup more) \cap Free(p) = {}
        BY <2>1, <2>2
    <2>4. \A c \in Cell : c \in Free(p) \cup (lost \cup more)
        BY <2>1
    <2>5. QED BY <1>4, <2>3, <2>4 DEF Parted
<1>8. InterpreterStateType'
    <2>1. <<>> \in Seq(Cell \cup {Null}) /\ <<>> \in Seq(AnyValue)
        OBVIOUS
    <2>2. QED BY <1>1, <1>2, <1>4, <2>1 DEF InterpreterStateType
<1>9. QED BY <1>1, <1>5, <1>6, <1>7, <1>8 DEF InterpreterIInv, Running

LEMMA UsePreserves == ASSUME InterpreterIInv, Use \/ UseInTemplate PROVE InterpreterIInv'
<1>1. PICK c : c = stack[1]
    OBVIOUS
<1>2. PICK p : /\ Done(Released(p, c)) /\ UNCHANGED lost
               /\ p = Checked(pool, {c}) \/ (c = Null /\ p = Broken(pool, "null"))
    BY <1>1 DEF Use, UseInTemplate
<1>3. OneResult
    BY <1>2, ResultIs DEF Done
<1>4. /\ PoolOK(pool) /\ pool.broken = "none" /\ InterpreterStateType /\ c \in Cell \cup {Null}
      /\ c \notin lost /\ c \notin Free(pool) /\ lost \cap Free(pool) = {}
      /\ \A d \in Cell : d \in Free(pool) \/ d \in lost \/ d = c
      /\ (sound => c # Null /\ ~Dead(pool, c))
    BY <1>1, <1>3 DEF OneResult
<1>5. /\ PoolOK(p) /\ p.free = pool.free /\ Lives(pool, p) /\ (sound => p.broken = "none")
    <2>1. CASE p = Checked(pool, {c})
        BY <1>4, <2>1, CheckedOK
    <2>2. CASE c = Null /\ p = Broken(pool, "null")
        <3>1. "null" \in Broke
            BY DEF Broke
        <3>2. QED BY <1>4, <2>2, <3>1, BrokenOK
    <2>3. QED BY <1>2, <2>1, <2>2
<1>6. Free(p) = Free(pool)
    BY <1>5 DEF Free
<1>7. PICK q : q = Released(p, c)
    OBVIOUS
<1>8. /\ PoolOK(q) /\ (q.broken = "none" => Free(q) = Free(p) \cup ({c} \ {Null}))
      /\ ((c # Null => ~Dead(p, c)) => q.broken = p.broken)
    BY <1>4, <1>5, <1>6, <1>7, ReleasedOK
<1>9. sound => q.broken = "none"
    <2>1. sound => c \in Cell /\ ~Dead(p, c)
        BY <1>4, <1>5 DEF Lives
    <2>2. QED BY <1>5, <1>8, <2>1
<1>10. q.broken = "none" => \A d \in Cell : d \in Free(q) <=> d \notin lost \cup {}
    BY <1>4, <1>6, <1>8, CellType
<1>11. PICK more \in SUBSET Cell : more = {}
    OBVIOUS
<1>12. Done(q) /\ lost' = lost \cup more
    BY <1>2, <1>7, <1>11
<1>13. QED BY <1>8, <1>9, <1>10, <1>11, <1>12, DonePreserves

LEMMA KeptPreserves == ASSUME InterpreterIInv, UseInConfiguration \/ Abandon PROVE InterpreterIInv'
<1>1. PICK c : c = stack[1]
    OBVIOUS
<1>2. PICK p : /\ Done(p) /\ lost' = lost \cup ({c} \ {Null})
               /\ p = pool \/ p = Checked(pool, {c})
    BY <1>1 DEF UseInConfiguration, Abandon
<1>3. OneResult
    BY <1>2, ResultIs DEF Done
<1>4. PICK more : more = {c} \ {Null}
    OBVIOUS
<1>5. /\ PoolOK(pool) /\ pool.broken = "none" /\ c \in Cell \cup {Null} /\ more \in SUBSET Cell
      /\ \A d \in Cell : d \in Free(pool) <=> d \notin lost \cup more
      /\ (sound => c # Null /\ ~Dead(pool, c))
    BY <1>1, <1>3, <1>4, CellType DEF OneResult
<1>6. PoolOK(p) /\ p.free = pool.free /\ (sound => p.broken = "none")
    <2>1. CASE p = pool
        BY <1>5, <2>1
    <2>2. CASE p = Checked(pool, {c})
        BY <1>5, <2>2, CheckedOK
    <2>3. QED BY <1>2, <2>1, <2>2
<1>7. Free(p) = Free(pool)
    BY <1>6 DEF Free
<1>8. Done(p) /\ lost' = lost \cup more
    BY <1>2, <1>4
<1>9. QED BY <1>5, <1>6, <1>7, <1>8, DonePreserves

-----------------------------------------------------------------------------
(* Operators *)

(* An operand, and what it means. *)
GoodArg(n, k) ==
    /\ Args(n)[k] \in Cell \cup {Null} /\ Args(n)[k] \notin Free(pool)
    /\ Args(n)[k] \in ToSet(Top(stack, n))
    /\ Meanings(n)[k] \in AnyValue
    /\ Meanings(n)[k] # Unset => Value(pool, Args(n)[k]) = Meanings(n)[k]

LEMMA ArgIs ==
    ASSUME InterpreterIInv, AtNode, NEW n \in 0..Len(stack)
    PROVE  /\ Args(n) = Top(stack, n) /\ Len(Meanings(n)) = n /\ DOMAIN Meanings(n) = 1..n
           /\ \A k \in 1..n : GoodArg(n, k)
<1>1. /\ stack \in Seq(Cell \cup {Null}) /\ meaning \in Seq(AnyValue) /\ Len(stack) = Len(meaning)
      /\ Parted(stack, lost, pool) /\ MeaningHolds(pool, stack, meaning)
    BY DEF InterpreterIInv, InterpreterStateType, AtNode
<1>2. Args(n) = Top(stack, n) /\ Meanings(n) = Top(meaning, n)
    BY DEF Args, Meanings, Top
<1>3. GoodOperands(Top(stack, n), stack, n, lost, pool)
    BY <1>1, OperandsAre
<1>4. PICK l \in Nat : l = Len(stack)
    BY <1>1
<1>5. PICK t : t = Top(stack, n)
    OBVIOUS
<1>6. /\ t \in Seq(Cell \cup {Null}) /\ DOMAIN t = 1..n
      /\ \A k \in 1..n : t[k] = stack[l - n + k] /\ l - n + k \in DOMAIN stack /\ t[k] \notin Free(pool)
    BY <1>3, <1>4, <1>5 DEF GoodOperands
<1>7. PICK u : u = Top(meaning, n)
    OBVIOUS
<1>8. u \in Seq(AnyValue) /\ Len(u) = n /\ \A k \in 1..n : u[k] = meaning[l - n + k]
    <2>1. n \in 0..Len(meaning)
        BY <1>1
    <2>2. meaning \in Seq(AnyValue)
        BY <1>1
    <2>3. /\ Top(meaning, n) \in Seq(AnyValue) /\ Len(Top(meaning, n)) = n
          /\ \A k \in 1..n : Top(meaning, n)[k] = meaning[Len(meaning) - n + k]
        BY <2>1, <2>2, TopIs
    <2>4. QED BY <1>1, <1>4, <1>7, <2>3
<1>9. DOMAIN u = 1..n
    BY <1>8
<1>10. ASSUME NEW k \in 1..n PROVE GoodArg(n, k)
    <2>1. t[k] \in Cell \cup {Null} /\ u[k] \in AnyValue
        BY <1>6, <1>8, <1>9, ElementOf
    <2>2. t[k] \in ToSet(t)
        BY <1>6 DEF ToSet
    <2>3. u[k] # Unset => Value(pool, t[k]) = u[k]
        BY <1>1, <1>6, <1>8 DEF MeaningHolds
    <2>4. QED BY <1>2, <1>5, <1>6, <1>7, <2>1, <2>2, <2>3 DEF GoodArg
<1>11. QED BY <1>2, <1>7, <1>8, <1>9, <1>10

(* The pool when a binary operator has set its result, in cell c.           *)
BinaryPool(p, a, b, c, op, x, y) ==
    IF Numbers(x, y)
    THEN IF Traps(op, Number(x), Number(y)) THEN Broken(p, "division")
         ELSE Put(p, c, Result(op, x, y))
    ELSE IF op \in Arithmetic THEN p
    ELSE LET r == Cast(Cast(p, a), b)
         IN  IF r.broken = "none" THEN Put(r, c, Result(op, x, y)) ELSE r

Set(p0, q, a, b, c) ==
    /\ PoolOK(q) /\ c \notin Free(q) /\ Free(p0) = Free(q) \cup {c}
    /\ Keeps(p0, q, {a, b} \cup {c}) /\ Lives(p0, q)

(* The result is put into cell c. *)
LEMMA SetPut ==
    ASSUME NEW p0, NEW r, NEW a, NEW b, NEW c \in Cell, NEW v \in Stored,
           Set(p0, r, a, b, c), r.cell[c].string \notin r.strings,
           NEW q, q = Put(r, c, v)
    PROVE  Set(p0, q, a, b, c) /\ q.broken = r.broken /\ Value(q, c) = v /\ ~Dead(q, c)
<1>1. PoolOK(r) /\ c \notin Free(r) /\ Free(p0) = Free(r) \cup {c}
      /\ Keeps(p0, r, {a, b} \cup {c}) /\ Lives(p0, r)
    BY DEF Set
<1>2. /\ PoolOK(q) /\ q.free = r.free /\ q.broken = r.broken
      /\ Keeps(r, q, {c}) /\ Lives(r, q) /\ Value(q, c) = v /\ ~Dead(q, c)
    BY <1>1, PutOK
<1>3. Keeps(p0, q, {a, b} \cup {c})
    <2>1. Keeps(p0, q, {a, b} \cup {c} \cup {c})
        BY <1>1, <1>2, KeepsTransitive
    <2>2. QED BY <2>1, KeepsMore
<1>4. Lives(p0, q)
    BY <1>1, <1>2, LivesTransitive
<1>5. Free(q) = Free(r)
    BY <1>2 DEF Free
<1>6. QED BY <1>1, <1>2, <1>3, <1>4, <1>5 DEF Set

BinarySet(p0, q, a, b, c, op, x, y) ==
    /\ Set(p0, q, a, b, c)
    /\ (q.broken = "none" /\ ~(op \in Arithmetic /\ ~Numbers(x, y))) =>
           /\ Value(q, c) = Result(op, x, y) /\ ~Dead(q, c)
           /\ ~(op \in Arithmetic /\ Traps(op, Number(x), Number(y)))
    /\ (a # Null /\ b # Null /\ ~Dead(p0, a) /\ ~Dead(p0, b)
           /\ ~(Numbers(x, y) /\ Traps(op, Number(x), Number(y)))) => q.broken = "none"

LEMMA BinaryPoolOK ==
    ASSUME NEW p0, PoolOK(p0), p0.broken = "none", p0.free # <<>>,
           NEW c, c = Head(p0.free),
           NEW a \in Cell \cup {Null}, NEW b \in Cell \cup {Null}, a \notin Free(p0), b \notin Free(p0),
           NEW op \in {"PLUS"} \cup Arithmetic \cup Comparison,
           NEW x, NEW y, x = Value(p0, a), y = Value(p0, b),
           NEW p, p = Checked(Taken(p0), {a, b}),
           NEW q, q = BinaryPool(p, a, b, c, op, x, y)
    PROVE  BinarySet(p0, q, a, b, c, op, x, y)
<1>1. PICK t : t = Taken(p0)
    OBVIOUS
<1>2. /\ PoolOK(t) /\ t.broken = "none" /\ c \in Cell /\ c \in Free(p0) /\ c \notin Free(t)
      /\ Free(p0) = Free(t) \cup {c} /\ t.cell = p0.cell
      /\ p0.cell[c].string \notin t.strings /\ Keeps(p0, t, {}) /\ Lives(p0, t)
    BY <1>1, TakenOK
<1>3. /\ PoolOK(p) /\ p.free = t.free /\ Keeps(t, p, {}) /\ Lives(t, p) /\ p.cell = t.cell
      /\ ((\A d \in {a, b} : d # Null => ~Dead(t, d)) => p.broken = t.broken)
    BY <1>1, <1>2, CheckedOK
<1>4. Free(p) = Free(t) /\ c # Null
    BY <1>2, <1>3, CellType DEF Free
<1>5. Keeps(p0, p, {}) /\ Lives(p0, p)
    <2>1. Keeps(p0, p, {} \cup {})
        BY <1>2, <1>3, KeepsTransitive
    <2>2. QED BY <1>2, <1>3, <2>1, LivesTransitive
<1>6. p.cell[c].string \notin p.strings
    BY <1>2, <1>3 DEF Keeps
<1>7. x \in AnyValue /\ y \in AnyValue /\ Unset \notin {x, y}
    BY ValueType
<1>8. (a # Null /\ b # Null /\ ~Dead(p0, a) /\ ~Dead(p0, b)) => p.broken = "none"
    BY <1>2, <1>3 DEF Lives
<1>9. a \notin Free(p) /\ b \notin Free(p) /\ a # c /\ b # c
    BY <1>2, <1>4
<1>10. Set(p0, p, a, b, c)
    <2>1. Keeps(p0, p, {a, b} \cup {c})
        BY <1>5, KeepsMore
    <2>2. QED BY <1>2, <1>3, <1>4, <1>5, <2>1 DEF Set
<1>11. /\ Numbers(x, y) /\ ~Traps(op, Number(x), Number(y)) => Result(op, x, y) \in Stored
       /\ op \notin Arithmetic => Result(op, x, y) \in Stored /\ ~Traps(op, Number(x), Number(y))
    <2>1. \A n \in Ints : IntValue(n) \in Stored
        BY StoredType
    <2>2. op \in Comparison => Result(op, x, y) \in Stored
        BY <1>7, <2>1, ResultType
    <2>3. op = "PLUS" => Result(op, x, y) \in Stored
        BY <1>7, ResultType, SumType
    <2>4. op \in Arithmetic /\ Numbers(x, y) /\ ~Traps(op, Number(x), Number(y)) => Result(op, x, y) \in Stored
        BY <1>7, <2>1, ResultType
    <2>5. op \notin Arithmetic => ~Traps(op, Number(x), Number(y))
        BY DEF Traps, Arithmetic
    <2>6. QED BY <2>2, <2>3, <2>4, <2>5
(* A result put into cell c of pool r. *)
<1>12. ASSUME NEW r, Set(p0, r, a, b, c), r.cell[c].string \notin r.strings, Result(op, x, y) \in Stored,
              q = Put(r, c, Result(op, x, y))
       PROVE  Set(p0, q, a, b, c) /\ q.broken = r.broken /\ Value(q, c) = Result(op, x, y) /\ ~Dead(q, c)
    BY <1>2, <1>12, SetPut
<1>13. CASE Numbers(x, y) /\ Traps(op, Number(x), Number(y))
    <2>1. q = Broken(p, "division") /\ "division" \in Broke
        BY <1>13 DEF BinaryPool, Broke
    <2>2. PoolOK(q) /\ q.free = p.free /\ q.broken # "none" /\ Keeps(p, q, {}) /\ Lives(p, q)
        BY <1>3, <2>1, BrokenOK
    <2>3. Free(q) = Free(p)
        BY <2>2 DEF Free
    <2>4. Keeps(p0, q, {a, b} \cup {c})
        <3>1. Keeps(p0, q, {} \cup {})
            BY <1>5, <2>2, KeepsTransitive
        <3>2. QED BY <3>1, KeepsMore
    <2>5. Lives(p0, q)
        BY <1>5, <2>2, LivesTransitive
    <2>6. Set(p0, q, a, b, c)
        BY <1>2, <1>4, <2>2, <2>3, <2>4, <2>5 DEF Set
    <2>7. QED BY <1>13, <2>2, <2>6 DEF BinarySet
<1>14. CASE Numbers(x, y) /\ ~Traps(op, Number(x), Number(y))
    <2>1. q = Put(p, c, Result(op, x, y))
        BY <1>14 DEF BinaryPool
    <2>2. Set(p0, q, a, b, c) /\ q.broken = p.broken /\ Value(q, c) = Result(op, x, y) /\ ~Dead(q, c)
        BY <1>6, <1>10, <1>11, <1>12, <1>14, <2>1
    <2>3. QED BY <1>8, <1>14, <2>2 DEF BinarySet
<1>15. CASE ~Numbers(x, y) /\ op \in Arithmetic
    <2>1. q = p
        BY <1>15 DEF BinaryPool
    <2>2. QED BY <1>8, <1>10, <1>15, <2>1 DEF BinarySet
<1>16. CASE ~Numbers(x, y) /\ op \notin Arithmetic
    <2>1. PICK r : r = Cast(Cast(p, a), b)
        OBVIOUS
    <2>2. /\ PoolOK(r) /\ r.free = p.free /\ Keeps(p, r, {a, b}) /\ Lives(p, r)
          /\ (a # Null /\ b # Null => r.broken = p.broken)
        BY <1>3, <1>9, <2>1, TwoCastsOK
    <2>3. Free(r) = Free(p)
        BY <2>2 DEF Free
    <2>4. r.cell[c].string \notin r.strings
        BY <1>2, <1>6, <1>9, <2>2 DEF Keeps
    <2>5. Keeps(p0, r, {a, b} \cup {c})
        <3>1. Keeps(p0, r, {} \cup {a, b})
            BY <1>5, <2>2, KeepsTransitive
        <3>2. QED BY <3>1, KeepsMore
    <2>6. Lives(p0, r)
        BY <1>5, <2>2, LivesTransitive
    <2>7. Set(p0, r, a, b, c)
        BY <1>2, <1>4, <2>2, <2>3, <2>5, <2>6 DEF Set
    <2>8. CASE r.broken = "none"
        <3>1. q = Put(r, c, Result(op, x, y))
            BY <1>16, <2>1, <2>8 DEF BinaryPool
        <3>2. Set(p0, q, a, b, c) /\ q.broken = r.broken /\ Value(q, c) = Result(op, x, y) /\ ~Dead(q, c)
            BY <1>11, <1>12, <1>16, <2>4, <2>7, <3>1
        <3>3. QED BY <1>11, <1>16, <2>8, <3>2 DEF BinarySet
    <2>9. CASE r.broken # "none"
        <3>1. q = r
            BY <1>16, <2>1, <2>9 DEF BinaryPool
        <3>2. QED BY <1>8, <2>2, <2>7, <2>9, <3>1 DEF BinarySet
    <2>10. QED BY <2>8, <2>9
<1>17. QED BY <1>13, <1>14, <1>15, <1>16

LEMMA BinaryPreserves == ASSUME InterpreterIInv, Binary PROVE InterpreterIInv'
<1>1. PICK a, b : a = Args(2)[1] /\ b = Args(2)[2]
    OBVIOUS
<1>2. PICK x, y : x = Value(pool, a) /\ y = Value(pool, b)
    OBVIOUS
<1>3. PICK op : op = Current.op
    OBVIOUS
<1>4. PICK p : p = Checked(Taken(pool), {a, b})
    OBVIOUS
<1>5. PICK q : q = BinaryPool(p, a, b, New, op, x, y)
    OBVIOUS
<1>6. PICK mx, my : mx = Meanings(2)[1] /\ my = Meanings(2)[2]
    OBVIOUS
<1>7. /\ At({"PLUS"} \cup Arithmetic \cup Comparison) /\ UNCHANGED lost
      /\ Reduce(2, ReleasedAll(q, <<a, b>>), New, Result(op, mx, my))
    BY <1>1, <1>2, <1>3, <1>4, <1>5, <1>6 DEF Binary, BinaryPool
<1>8. /\ Running /\ AtNode /\ PoolOK(pool) /\ pool.broken = "none" /\ pool.free # <<>>
      /\ op \in {"PLUS"} \cup Arithmetic \cup Comparison /\ New \in Free(pool)
    BY <1>3, <1>7, AtGives
<1>9. Operands(Current) = 2
    BY <1>3, <1>8 DEF Operands
<1>10. 2 \in 0..Len(stack)
    BY <1>8, <1>9 DEF AtNode
<1>11. /\ Args(2) = Top(stack, 2) /\ GoodArg(2, 1) /\ GoodArg(2, 2)
    <2>1. 1 \in 1..2 /\ 2 \in 1..2
        OBVIOUS
    <2>2. QED BY <1>8, <1>10, <2>1, ArgIs
<1>12. /\ a \in Cell \cup {Null} /\ a \notin Free(pool) /\ a \in ToSet(Top(stack, 2)) /\ mx \in AnyValue
       /\ b \in Cell \cup {Null} /\ b \notin Free(pool) /\ b \in ToSet(Top(stack, 2)) /\ my \in AnyValue
       /\ (mx # Unset => x = mx) /\ (my # Unset => y = my)
    BY <1>1, <1>2, <1>6, <1>11 DEF GoodArg
<1>13. Args(2) = <<a, b>>
    <2>1. stack \in Seq(Cell \cup {Null})
        BY DEF InterpreterIInv, InterpreterStateType
    <2>2. Top(stack, 2) \in Seq(Cell \cup {Null}) /\ Len(Top(stack, 2)) = 2
        BY <1>10, <2>1, TopIs
    <2>3. \A t \in Seq(Cell \cup {Null}) : Len(t) = 2 => t = <<t[1], t[2]>>
        OBVIOUS
    <2>4. QED BY <1>1, <1>11, <2>2, <2>3
<1>14. BinarySet(pool, q, a, b, New, op, x, y)
    <2>1. PICK c : c = New /\ c = Head(pool.free)
        BY DEF New
    <2>2. PICK p0 : p0 = pool
        OBVIOUS
    <2>3. PoolOK(p0) /\ p0.broken = "none" /\ p0.free # <<>> /\ c = Head(p0.free)
        BY <1>8, <2>1, <2>2
    <2>4. a \in Cell \cup {Null} /\ b \in Cell \cup {Null} /\ a \notin Free(p0) /\ b \notin Free(p0)
        BY <1>12, <2>2
    <2>5. x = Value(p0, a) /\ y = Value(p0, b)
        BY <1>2, <2>2
    <2>6. p = Checked(Taken(p0), {a, b})
        BY <1>4, <2>2
    <2>7. q = BinaryPool(p, a, b, c, op, x, y)
        BY <1>5, <2>1
    <2>8. op \in {"PLUS"} \cup Arithmetic \cup Comparison
        BY <1>8
    <2>9. BinarySet(p0, q, a, b, c, op, x, y)
        BY <2>3, <2>4, <2>5, <2>6, <2>7, <2>8, BinaryPoolOK
    <2>10. QED BY <2>1, <2>2, <2>9
<1>15. /\ PoolOK(q) /\ New \notin Free(q) /\ Free(pool) = Free(q) \cup {New}
       /\ Keeps(pool, q, {a, b} \cup {New}) /\ Lives(pool, q)
    BY <1>14 DEF Set, BinarySet
<1>16. x \in AnyValue /\ y \in AnyValue /\ Unset \notin {x, y}
    BY <1>2, <1>8, <1>12, ValueType
<1>17. PICK fact : fact = LastFact(Facts(expression)[done], Current)
    OBVIOUS
(* What the facts of the operands say. *)
<1>18. ASSUME "never" \notin fact
       PROVE  \E of : /\ fact = Known(Current, of)
                      /\ Holds(of[1], pool, a) /\ Holds(of[2], pool, b)
                      /\ "never" \notin of[1] /\ "never" \notin of[2]
    <2>1. 1 \in 1..Operands(Current) /\ 2 \in 1..Operands(Current)
        BY <1>9
    <2>2. PICK of : of = Top(Facts(expression)[done], 2)
        OBVIOUS
    <2>3. Holds(of[1], pool, a) /\ "never" \notin of[1] /\ fact = Known(Current, of)
        BY <1>1, <1>8, <1>9, <1>17, <1>18, <2>1, <2>2, OperandFacts
    <2>4. Holds(of[2], pool, b) /\ "never" \notin of[2]
        BY <1>1, <1>8, <1>9, <1>17, <1>18, <2>1, <2>2, OperandFacts
    <2>5. QED BY <2>3, <2>4
<1>19. ASSUME "never" \notin fact
       PROVE  /\ a # Null /\ b # Null /\ ~Dead(pool, a) /\ ~Dead(pool, b)
              /\ op \in Arithmetic => Numbers(x, y) /\ ~Traps(op, Number(x), Number(y))
              /\ op \notin Arithmetic => ~Traps(op, Number(x), Number(y))
    <2>1. PICK of : /\ fact = Known(Current, of)
                    /\ Holds(of[1], pool, a) /\ Holds(of[2], pool, b)
                    /\ "never" \notin of[1] /\ "never" \notin of[2]
        BY <1>18, <1>19
    <2>2. a # Null /\ b # Null /\ ~Dead(pool, a) /\ ~Dead(pool, b)
        BY <2>1 DEF Holds
    <2>3. op \notin Arithmetic => ~Traps(op, Number(x), Number(y))
        BY DEF Traps, Arithmetic
    <2>4. ASSUME op \in Arithmetic PROVE Numbers(x, y) /\ ~Traps(op, Number(x), Number(y))
        <3>1. /\ "number" \in of[1] /\ "number" \in of[2]
              /\ (op \in {"DIV", "MOD"} => "positive" \in of[2])
            BY <1>3, <1>19, <2>1, <2>4, KnownArithmetic
        <3>2. Number(x) # NaN /\ Number(y) # NaN /\ (op \in {"DIV", "MOD"} => Number(y) > 0)
            BY <1>2, <2>1, <3>1 DEF Holds
        <3>3. Number(y) \in Int
            BY <1>16, NumberType
        <3>4. op \in {"DIV", "MOD"} => Number(y) # 0 /\ Number(y) # -1
            BY <3>2, <3>3
        <3>5. QED BY <3>2, <3>4 DEF Numbers, Traps
    <2>5. QED BY <2>2, <2>3, <2>4
<1>20. "never" \notin fact => q.broken = "none"
    BY <1>14, <1>19 DEF BinarySet
<1>21. ASSUME q.broken = "none" PROVE Holds(fact, q, New)
    <2>1. CASE "never" \in fact
        BY <2>1 DEF Holds
    <2>2. CASE "never" \notin fact
        <3>1. PICK of : /\ fact = Known(Current, of)
                        /\ Holds(of[1], pool, a) /\ Holds(of[2], pool, b)
                        /\ "never" \notin of[1] /\ "never" \notin of[2]
            BY <1>18, <2>2
        <3>2. Value(q, New) = Result(op, x, y) /\ ~Dead(q, New)
            BY <1>14, <1>19, <1>21, <2>2 DEF BinarySet
        <3>3. New # Null
            BY <1>8, FreeType
        <3>4. CASE op \in Arithmetic
            <4>1. fact = AnInt
                BY <1>3, <2>2, <3>1, <3>4, KnownArithmetic
            <4>2. PICK n \in Ints : Result(op, x, y) = IntValue(n)
                BY <1>8, <1>16, <1>19, <2>2, <3>4, ResultType
            <4>3. QED BY <3>2, <3>3, <4>1, <4>2, IntHolds DEF AnInt
        <3>5. CASE op \in Comparison
            <4>1. fact = AnInt
                BY <1>3, <2>2, <3>1, <3>5, KnownComparison
            <4>2. PICK n \in Ints : Result(op, x, y) = IntValue(n)
                BY <1>8, <1>16, <3>5, ResultType
            <4>3. QED BY <3>2, <3>3, <4>1, <4>2, IntHolds DEF AnInt
        <3>6. CASE op = "PLUS"
            <4>1. Result(op, x, y) = Sum(x, y)
                BY <1>8, <1>16, <3>6, ResultType
            <4>2. CASE Numbers(x, y)
                <5>1. PICK n \in Ints : n = Wrapped(Number(x) + Number(y))
                    <6>1. Number(x) \in Int /\ Number(y) \in Int
                        BY <1>16, NumberType
                    <6>2. Number(x) + Number(y) \in Int
                        BY <6>1
                    <6>3. QED BY <6>2, WrappedType
                <5>2. Value(q, New) = IntValue(n)
                    BY <3>2, <4>1, <4>2, <5>1 DEF Sum
                <5>3. "positive" \notin fact
                    <6>1. fact = AnInt \/ fact \subseteq {"set", "filled"}
                        BY <1>3, <2>2, <3>1, <3>6, KnownPlus
                    <6>2. QED BY <6>1 DEF AnInt
                <5>4. QED BY <3>2, <3>3, <5>2, <5>3, IntHolds
            <4>3. CASE ~Numbers(x, y)
                <5>1. PICK t : t = Text(x) \o Text(y)
                    OBVIOUS
                <5>2. Value(q, New) = TextValue(t)
                    BY <3>2, <4>1, <4>3, <5>1 DEF Sum
                <5>3. ~("number" \in of[1] /\ "number" \in of[2])
                    BY <1>2, <3>1, <4>3 DEF Holds, Numbers
                <5>4. fact \subseteq {"set", "filled"} /\ ("filled" \in fact => "filled" \in of[1] \/ "filled" \in of[2])
                    BY <1>3, <2>2, <3>1, <3>6, <5>3, KnownPlus
                <5>5. "filled" \in fact => Text(x) # <<>> \/ Text(y) # <<>>
                    BY <1>2, <3>1, <5>4 DEF Holds
                <5>6. "filled" \in fact => t # <<>>
                    <6>1. Text(x) \in Seq(Characters) /\ Text(y) \in Seq(Characters)
                        BY <1>16, TextType DEF Texts
                    <6>2. \A u, v \in Seq(Characters) : u \o v = <<>> => u = <<>> /\ v = <<>>
                        OBVIOUS
                    <6>3. QED BY <5>1, <5>5, <6>1, <6>2
                <5>7. "positive" \notin fact /\ "number" \notin fact
                    BY <5>4
                <5>8. QED BY <3>2, <3>3, <5>2, <5>6, <5>7, TextHolds
            <4>4. QED BY <4>2, <4>3
        <3>7. QED BY <1>8, <3>4, <3>5, <3>6
    <2>3. QED BY <2>1, <2>2
<1>22. PICK r : r = Result(op, mx, my)
    OBVIOUS
<1>23. r # Unset => r = Result(op, x, y)
    BY <1>12, <1>22 DEF Result
<1>24. r \in AnyValue
    <2>1. Result(op, x, y) \in Stored \cup {Unset}
        BY <1>8, <1>16, ResultType
    <2>2. QED BY <1>23, <2>1, StoredType
<1>25. q.broken = "none" /\ r # Unset => Value(q, New) = r
    <2>1. op \in Arithmetic /\ ~Numbers(x, y) => Result(op, x, y) = Unset
        BY <1>8, <1>16, ResultType
    <2>2. QED BY <1>14, <1>23, <2>1 DEF BinarySet
<1>26. Keeps(pool, q, ToSet(Top(stack, 2)) \cup Free(pool))
    <2>1. {a, b} \cup {New} \subseteq ToSet(Top(stack, 2)) \cup Free(pool)
        BY <1>8, <1>12
    <2>2. QED BY <1>15, <2>1, KeepsMore
<1>27. Reduction(pool, stack, q, 2, New, r, fact, {})
    BY <1>8, <1>15, <1>20, <1>21, <1>25, <1>26 DEF Reduction
<1>28. Reduce(2, ReleasedAll(q, Args(2)), New, r) /\ lost' = lost \cup {}
    BY <1>7, <1>13, <1>22
<1>29. QED BY <1>8, <1>9, <1>17, <1>24, <1>27, <1>28, ReducePreserves

-----------------------------------------------------------------------------
(* Functions *)

CurrentFact == LastFact(Facts(expression)[done], Current)

AtFunction ==
    /\ InterpreterIInv /\ Running /\ AtNode /\ PoolOK(pool) /\ pool.broken = "none"
    /\ pool.free # <<>> /\ Tail(pool.free) # <<>> /\ New \in Free(pool)
    /\ Current.op \in Functions /\ Operands(Current) = Current.args /\ Current.args \in 0..Len(stack)
    /\ Args(Current.args) = Top(stack, Current.args)

LEMMA FunctionIs ==
    ASSUME InterpreterIInv, NEW ops \in SUBSET Functions, At(ops)
    PROVE  AtFunction
<1>1. /\ Running /\ AtNode /\ PoolOK(pool) /\ pool.broken = "none" /\ pool.free # <<>> /\ Tail(pool.free) # <<>>
      /\ Current.op \in Functions /\ New \in Free(pool)
    BY AtGives
<1>2. Operands(Current) = Current.args
    BY <1>1 DEF Operands, Functions, Arithmetic, Comparison
<1>3. Current.args \in 0..Len(stack)
    BY <1>1, <1>2 DEF AtNode
<1>4. Args(Current.args) = Top(stack, Current.args)
    BY DEF Args, Top
<1>5. QED BY <1>1, <1>2, <1>3, <1>4 DEF AtFunction

(* An argument, or NULL where there is none, and what it means. *)
GoodArgument(k) ==
    /\ Argument(k) \in Cell \cup {Null} /\ Argument(k) \notin Free(pool)
    /\ Argument(k) # Null => Argument(k) \in ToSet(Top(stack, Current.args))
    /\ Value(pool, Argument(k)) \in AnyValue
    /\ Unset \notin ToSet(Meanings(Current.args)) => Meant(k) = Value(pool, Argument(k))

LEMMA ArgumentIs ==
    ASSUME AtFunction, NEW k \in Nat \ {0}
    PROVE  GoodArgument(k)
<1>1. PICK n : n = Current.args /\ n \in 0..Len(stack)
    BY DEF AtFunction
<1>2. PoolOK(pool) /\ InterpreterIInv /\ AtNode
    BY DEF AtFunction
<1>3. Null \notin Free(pool)
    BY <1>2, FreeType
<1>4. CASE k <= n
    <2>1. k \in 1..n
        BY <1>1, <1>4
    <2>2. GoodArg(n, k) /\ Args(n) = Top(stack, n) /\ DOMAIN Meanings(n) = 1..n
        BY <1>1, <1>2, <2>1, ArgIs
    <2>3. Argument(k) = Args(n)[k] /\ Meant(k) = Meanings(n)[k]
        BY <1>1, <1>4 DEF Argument, Meant
    <2>4. Value(pool, Argument(k)) \in AnyValue
        BY <1>2, <2>2, <2>3, ValueType DEF GoodArg
    <2>5. Meanings(n)[k] \in ToSet(Meanings(n))
        BY <2>1, <2>2 DEF ToSet
    <2>6. QED BY <1>1, <2>2, <2>3, <2>4, <2>5 DEF GoodArg, GoodArgument
<1>5. CASE ~(k <= n)
    <2>1. Argument(k) = Null /\ Meant(k) = Nothing
        BY <1>1, <1>5 DEF Argument, Meant
    <2>2. Value(pool, Null) = Nothing
        BY DEF Value
    <2>3. QED BY <1>3, <2>1, <2>2, StoredType DEF GoodArgument
<1>6. QED BY <1>4, <1>5

(* What is known of the arguments of a sound function holds. *)
LEMMA ArgumentFacts ==
    ASSUME AtFunction, "never" \notin CurrentFact
    PROVE  \E of : /\ CurrentFact = Known(Current, of) /\ "never" \notin Known(Current, of)
                   /\ Len(of) = Current.args
                   /\ \A k \in 1..Len(of) :
                          /\ Holds(of[k], pool, Argument(k)) /\ "never" \notin of[k]
                          /\ Argument(k) # Null /\ ~Dead(pool, Argument(k))
<1>1. PICK n : n = Operands(Current) /\ n = Current.args
    BY DEF AtFunction
<1>2. PICK of : of = Top(Facts(expression)[done], n)
    OBVIOUS
<1>3. InterpreterIInv /\ AtNode
    BY DEF AtFunction
<1>4. CurrentFact = Known(Current, of)
    BY <1>1, <1>2, LastFactIs DEF CurrentFact
<1>5. Len(of) = n
    <2>1. Facts(expression)[done] \in Seq(SUBSET FactNames) /\ Len(Facts(expression)[done]) = Len(stack)
          /\ n \in 0..Len(stack)
        BY <1>1, <1>3 DEF AtNode, FactsHold
    <2>2. PICK B : B = SUBSET FactNames
        OBVIOUS
    <2>3. PICK known \in Seq(B) : known = Facts(expression)[done]
        BY <2>1, <2>2
    <2>4. Len(Top(known, n)) = n
        BY <2>1, <2>3, TopIs
    <2>5. QED BY <1>2, <2>3, <2>4
<1>6. ASSUME NEW k \in 1..n
      PROVE  Holds(of[k], pool, Argument(k)) /\ "never" \notin of[k]
    <2>1. Holds(of[k], pool, Args(n)[k]) /\ "never" \notin of[k]
        BY <1>1, <1>2, <1>3, <1>6, OperandFacts DEF CurrentFact
    <2>2. n \in Nat
        BY <1>1 DEF AtFunction
    <2>3. Argument(k) = Args(n)[k]
        BY <1>1, <1>6, <2>2 DEF Argument
    <2>4. QED BY <2>1, <2>3
<1>7. \A k \in 1..n : Argument(k) # Null /\ ~Dead(pool, Argument(k))
    BY <1>6 DEF Holds
<1>8. QED BY <1>1, <1>4, <1>5, <1>6, <1>7

(* A function gives back its arguments when it has set its result. *)
LEMMA ReturnPreserves ==
    ASSUME AtFunction, NEW q, NEW c, NEW x \in AnyValue, NEW more,
           Reduction(pool, stack, q, Current.args, c,
                     IF Unset \in ToSet(Meanings(Current.args)) THEN Unset ELSE x, CurrentFact, more),
           Return(q, c, x), lost' = lost \cup more
    PROVE  InterpreterIInv'
<1>1. PICK y : y = IF Unset \in ToSet(Meanings(Current.args)) THEN Unset ELSE x
    OBVIOUS
<1>2. y \in AnyValue
    BY <1>1, StoredType
<1>3. Operands(Current) = Current.args /\ InterpreterIInv /\ Running /\ AtNode
    BY DEF AtFunction
<1>4. Reduce(Operands(Current), ReleasedAll(q, Args(Operands(Current))), c, y)
    BY <1>1, <1>3 DEF Return
<1>5. Reduction(pool, stack, q, Operands(Current), c, y, LastFact(Facts(expression)[done], Current), more)
    BY <1>1, <1>3 DEF CurrentFact
<1>6. QED BY <1>2, <1>3, <1>4, <1>5, ReducePreserves

(* What a function leaves before it takes the cell of its result. *)
Prepared(p) ==
    /\ PoolOK(p) /\ p.free = pool.free /\ Lives(pool, p)
    /\ Keeps(pool, p, ToSet(Top(stack, Current.args)) \cup Free(pool))
    /\ "never" \notin CurrentFact => p.broken = "none"

(* It gives nothing when it went wrong. *)
LEMMA FailurePreserves ==
    ASSUME AtFunction, NEW p, PoolOK(p), p.broken # "none", Free(p) \subseteq Free(pool),
           Keeps(pool, p, ToSet(Top(stack, Current.args)) \cup Free(pool)), "never" \in CurrentFact,
           Return(p, Null, Nothing), UNCHANGED lost
    PROVE  InterpreterIInv'
<1>1. Null \notin Free(p)
    BY FreeType
<1>2. PICK y : y = IF Unset \in ToSet(Meanings(Current.args)) THEN Unset ELSE Nothing
    OBVIOUS
<1>3. Reduction(pool, stack, p, Current.args, Null, y, CurrentFact, {})
    BY <1>1 DEF Reduction
<1>4. Nothing \in AnyValue /\ lost' = lost \cup {}
    BY StoredType
<1>5. QED BY <1>2, <1>3, <1>4, ReturnPreserves

(* Its result is NULL. *)
LEMMA NullPreserves ==
    ASSUME AtFunction, NEW p, Prepared(p), "never" \in CurrentFact, Return(p, Null, Nothing), UNCHANGED lost
    PROVE  InterpreterIInv'
<1>1. PoolOK(p) /\ Free(p) = Free(pool) /\ Keeps(pool, p, ToSet(Top(stack, Current.args)) \cup Free(pool))
    BY DEF Prepared, Free
<1>2. Null \notin Free(p) /\ Value(p, Null) = Nothing
    BY <1>1, FreeType DEF Value
<1>3. PICK y : y = IF Unset \in ToSet(Meanings(Current.args)) THEN Unset ELSE Nothing
    OBVIOUS
<1>4. y # Unset => Value(p, Null) = y
    BY <1>2, <1>3
<1>5. Holds(CurrentFact, p, Null)
    BY DEF Holds
<1>6. Reduction(pool, stack, p, Current.args, Null, y, CurrentFact, {})
    BY <1>1, <1>2, <1>4, <1>5 DEF Reduction
<1>7. Nothing \in AnyValue /\ lost' = lost \cup {}
    BY StoredType
<1>8. QED BY <1>3, <1>6, <1>7, ReturnPreserves

(* Its result is a value. *)
LEMMA GivenPreserves ==
    ASSUME AtFunction, NEW p, Prepared(p), NEW result \in Stored, NEW meant,
           Unset \notin ToSet(Meanings(Current.args)) => meant = result,
           \A r : Value(r, New) = result /\ ~Dead(r, New) => Holds(CurrentFact, r, New),
           Given(p, result, meant), UNCHANGED lost
    PROVE  InterpreterIInv'
<1> DEFINE D == ToSet(Top(stack, Current.args)) \cup Free(pool)
<1>1. PoolOK(p) /\ p.free = pool.free /\ Free(p) = Free(pool) /\ Keeps(pool, p, D) /\ Lives(pool, p)
      /\ ("never" \notin CurrentFact => p.broken = "none")
    BY DEF Prepared, Free
<1>2. CASE p.broken # "none"
    <2>1. Return(p, Null, Nothing)
        BY <1>2 DEF Given
    <2>2. "never" \in CurrentFact
        BY <1>1, <1>2
    <2>3. Free(p) \subseteq Free(pool)
        BY <1>1
    <2>4. QED BY <1>1, <1>2, <2>1, <2>2, <2>3, FailurePreserves
<1>3. CASE p.broken = "none"
    <2>1. PICK c : c = New /\ c = Head(p.free)
        BY <1>1 DEF New
    <2>2. PICK q : q = Put(Taken(p), c, result)
        OBVIOUS
    <2>3. Return(q, c, meant)
        BY <1>3, <2>1, <2>2 DEF Given
    <2>4. p.free # <<>>
        BY <1>1 DEF AtFunction
    <2>5. Fresh(p, q, c, result)
        BY <1>1, <2>1, <2>2, <2>4, FreshOK
    <2>6. Keeps(pool, q, D)
        <3>1. Keeps(pool, q, D \cup {c})
            <4>1. Keeps(p, q, {c})
                BY <2>5 DEF Fresh
            <4> HIDE DEF D
            <4>2. QED BY <1>1, <4>1, KeepsTransitive
        <3>2. c \in D
            BY <1>1, <2>5 DEF Fresh
        <3> HIDE DEF D
        <3>3. QED BY <3>1, <3>2, KeepsMore
    <2>7. Lives(pool, q)
        BY <1>1, <2>5, LivesTransitive DEF Fresh
    <2>8. PICK y : y = IF Unset \in ToSet(Meanings(Current.args)) THEN Unset ELSE meant
        OBVIOUS
    <2>9. y # Unset => y = result
        BY <2>8
    <2>10. Holds(CurrentFact, q, c)
        BY <2>1, <2>5 DEF Fresh
    <2>11. /\ PoolOK(q) /\ Free(q) \subseteq Free(pool) /\ c \in Free(pool) /\ c \notin Free(q)
           /\ Free(pool) \subseteq Free(q) \cup {c} /\ Value(q, c) = result /\ q.broken = "none"
        BY <1>1, <1>3, <2>5 DEF Fresh
    <2>12. Reduction(pool, stack, q, Current.args, c, y, CurrentFact, {})
        BY <2>6, <2>7, <2>9, <2>10, <2>11 DEF Reduction
    (* What is returned means the result, or nothing is known of it. *)
    <2>13. PICK x \in AnyValue : /\ Return(q, c, x)
                                 /\ y = IF Unset \in ToSet(Meanings(Current.args)) THEN Unset ELSE x
        <3>1. CASE Unset \in ToSet(Meanings(Current.args))
            <4>1. Return(q, c, Nothing)
                BY <2>3, <3>1 DEF Return
            <4>2. QED BY <2>8, <3>1, <4>1, StoredType
        <3>2. CASE Unset \notin ToSet(Meanings(Current.args))
            <4>1. meant = result /\ result \in AnyValue
                BY <3>2, StoredType
            <4>2. QED BY <2>3, <2>8, <3>2, <4>1
        <3>3. QED BY <3>1, <3>2
    <2>14. lost' = lost \cup {}
        OBVIOUS
    <2>15. QED BY <2>12, <2>13, <2>14, ReturnPreserves
<1>4. QED BY <1>2, <1>3

(* Arguments that were checked and cast in place. *)
CastPrepared(p, i, j, cells) ==
    /\ PoolOK(p) /\ p.free = pool.free /\ Lives(pool, p)
    /\ Keeps(pool, p, ToSet(Top(stack, Current.args)) \cup Free(pool))
    /\ (\A c \in cells : c # Null => ~Dead(pool, c)) /\ Argument(i) # Null /\ Argument(j) # Null =>
           p.broken = "none"

LEMMA CheckedPrepared ==
    ASSUME AtFunction, NEW i \in Nat \ {0}, NEW j \in Nat \ {0}, NEW cells, NEW p,
           p = Cast(Cast(Checked(pool, cells), Argument(i)), Argument(j))
    PROVE  CastPrepared(p, i, j, cells)
<1>1. PICK p0 : p0 = Checked(pool, cells)
    OBVIOUS
<1>2. /\ PoolOK(p0) /\ p0.free = pool.free /\ Keeps(pool, p0, {}) /\ Lives(pool, p0)
      /\ ((\A c \in cells : c # Null => ~Dead(pool, c)) => p0.broken = "none")
    BY <1>1, CheckedOK DEF AtFunction
<1>3. GoodArgument(i) /\ GoodArgument(j)
    BY ArgumentIs
<1>4. PICK a, b : a = Argument(i) /\ b = Argument(j)
    OBVIOUS
<1>5. a \in Cell \cup {Null} /\ b \in Cell \cup {Null} /\ a \notin Free(p0) /\ b \notin Free(p0)
    BY <1>2, <1>3, <1>4 DEF GoodArgument, Free
<1>6. p = Cast(Cast(p0, a), b)
    BY <1>1, <1>4
<1>7. /\ PoolOK(p) /\ p.free = p0.free /\ Keeps(p0, p, {a, b}) /\ Lives(p0, p)
      /\ (a # Null /\ b # Null => p.broken = p0.broken)
    <2>1. PoolOK(p0)
        BY <1>2
    <2>2. QED BY <1>5, <1>6, <2>1, TwoCastsOK
<1>8. Keeps(pool, p, ToSet(Top(stack, Current.args)) \cup Free(pool))
    <2>1. Keeps(pool, p, {} \cup {a, b})
        BY <1>2, <1>7, KeepsTransitive
    <2>2. \A c \in Cell \ (ToSet(Top(stack, Current.args)) \cup Free(pool)) : c \notin {} \cup {a, b}
        BY <1>3, <1>4, CellType DEF GoodArgument
    <2>3. QED BY <2>1, <2>2 DEF Keeps
<1>9. Lives(pool, p)
    BY <1>2, <1>7, LivesTransitive
<1>10. QED BY <1>2, <1>4, <1>7, <1>8, <1>9 DEF CastPrepared

(* All of the first n arguments can be read when something is known. *)
LEMMA ArgumentsReadable ==
    ASSUME AtFunction, "never" \notin CurrentFact, NEW n \in Nat, n <= Current.args
    PROVE  /\ \A k \in 1..n : Argument(k) # Null /\ ~Dead(pool, Argument(k))
           /\ \A c \in {Argument(k) : k \in 1..n} : c # Null => ~Dead(pool, c)
<1>1. PICK of : /\ Len(of) = Current.args
                /\ \A k \in 1..Len(of) : Argument(k) # Null /\ ~Dead(pool, Argument(k))
    BY ArgumentFacts
<1>2. Current.args \in Nat
    BY DEF AtFunction
<1>3. QED BY <1>1, <1>2

LEMMA LengthPreserves == ASSUME InterpreterIInv, Length PROVE InterpreterIInv'
<1>1. PICK a : a = Argument(1)
    OBVIOUS
<1>2. PICK p : p = Cast(Checked(pool, {a}), a)
    OBVIOUS
<1>3. PICK result, meant : /\ result = IntValue(Wrapped(Len(Text(Value(pool, a)))))
                           /\ meant = IntValue(Wrapped(Len(Text(Meant(1)))))
    OBVIOUS
<1>4. At({"LENGTH"}) /\ Given(p, result, meant) /\ UNCHANGED lost
    BY <1>1, <1>2, <1>3 DEF Length
<1>5. AtFunction /\ Current.op = "LENGTH"
    <2>1. {"LENGTH"} \in SUBSET Functions
        BY DEF Functions
    <2>2. QED BY <1>4, <2>1, FunctionIs DEF At
<1>6. GoodArgument(1)
    BY <1>5, ArgumentIs
<1>7. ASSUME "never" \notin CurrentFact PROVE a # Null /\ ~Dead(pool, a) /\ CurrentFact = AnInt
    <2>1. PICK of : /\ CurrentFact = Known(Current, of) /\ "never" \notin Known(Current, of)
                    /\ \A k \in 1..Len(of) : Argument(k) # Null /\ ~Dead(pool, Argument(k))
                    /\ Len(of) = Current.args
        BY <1>5, <1>7, ArgumentFacts
    <2>2. CurrentFact = AnInt /\ Len(of) >= 1
        BY <1>5, <2>1, KnownFunction DEF Functions
    <2>3. Len(of) \in Nat
        BY <1>5, <2>1 DEF AtFunction
    <2>4. QED BY <1>1, <2>1, <2>2, <2>3
<1>8. Prepared(p)
    <2>1. PICK p0 : p0 = Checked(pool, {a})
        OBVIOUS
    <2>2. PoolOK(p0) /\ p0.free = pool.free /\ Keeps(pool, p0, {}) /\ Lives(pool, p0)
          /\ (a # Null /\ ~Dead(pool, a) => p0.broken = "none")
        BY <1>5, <2>1, CheckedOK DEF AtFunction
    <2>3. a \in Cell \cup {Null} /\ a \notin Free(p0)
        BY <1>1, <1>6, <2>2 DEF GoodArgument, Free
    <2>4. p = Cast(p0, a)
        BY <1>2, <2>1
    <2>5. PoolOK(p) /\ p.free = p0.free /\ Keeps(p0, p, {a}) /\ Lives(p0, p) /\ (a # Null => p.broken = p0.broken)
        BY <2>2, <2>3, <2>4, CastOK
    <2>6. Keeps(pool, p, {} \cup {a}) /\ Lives(pool, p)
        BY <2>2, <2>5, KeepsTransitive, LivesTransitive
    <2>7. \A c \in Cell \ (ToSet(Top(stack, Current.args)) \cup Free(pool)) : c \notin {} \cup {a}
        BY <1>1, <1>6, CellType DEF GoodArgument
    <2>8. Keeps(pool, p, ToSet(Top(stack, Current.args)) \cup Free(pool))
        BY <2>6, <2>7 DEF Keeps
    <2>9. QED BY <1>7, <2>2, <2>5, <2>6, <2>8 DEF Prepared
<1>9. PICK n \in Ints : result = IntValue(n)
    <2>1. Value(pool, a) \in AnyValue
        BY <1>1, <1>6 DEF GoodArgument
    <2>2. PICK t \in Texts : t = Text(Value(pool, a))
        BY <2>1, TextType
    <2>3. Len(t) \in Int
        BY <2>2 DEF Texts
    <2>4. QED BY <1>3, <2>2, <2>3, WrappedType
<1>10. result \in Stored
    BY <1>9, StoredType
<1>11. Unset \notin ToSet(Meanings(Current.args)) => meant = result
    BY <1>1, <1>3, <1>6 DEF GoodArgument
<1>12. ASSUME NEW r, Value(r, New) = result, ~Dead(r, New) PROVE Holds(CurrentFact, r, New)
    <2>1. CASE "never" \in CurrentFact
        BY <2>1 DEF Holds
    <2>2. CASE "never" \notin CurrentFact
        <3>1. "positive" \notin CurrentFact
            BY <1>7, <2>2 DEF AnInt
        <3>2. New # Null
            BY <1>5, FreeType DEF AtFunction
        <3>3. QED BY <1>9, <1>12, <3>1, <3>2, IntHolds
    <2>3. QED BY <2>1, <2>2
<1>13. QED BY <1>4, <1>5, <1>8, <1>10, <1>11, <1>12, GivenPreserves

LEMMA UnknownPreserves == ASSUME InterpreterIInv, Unknown PROVE InterpreterIInv'
<1>1. At({"unknown"}) /\ Return(pool, Null, Nothing) /\ UNCHANGED lost
    BY DEF Unknown
<1>2. AtFunction /\ Current.op = "unknown"
    <2>1. {"unknown"} \in SUBSET Functions
        BY DEF Functions
    <2>2. QED BY <1>1, <2>1, FunctionIs DEF At
<1>3. "never" \in CurrentFact
    <2>1. SUFFICES ASSUME "never" \notin CurrentFact PROVE FALSE
        OBVIOUS
    <2>2. PICK of : CurrentFact = Known(Current, of) /\ "never" \notin Known(Current, of)
        BY <1>2, <2>1, ArgumentFacts
    <2>3. QED BY <1>2, <2>2, KnownFunction DEF Functions
<1>4. Prepared(pool)
    BY <1>2, <1>3 DEF Prepared, AtFunction, Keeps, Lives
<1>5. QED BY <1>1, <1>2, <1>3, <1>4, NullPreserves

LEMMA QuotePreserves == ASSUME InterpreterIInv, Quote PROVE InterpreterIInv'
<1>1. PICK t : t = <<34, 34>>
    OBVIOUS
<1>2. PICK p : p = IF Argument(1) = Null THEN pool ELSE Broken(Taken(pool), "no string")
    OBVIOUS
<1>3. At({"QUOTE"}) /\ Given(p, TextValue(t), TextValue(t)) /\ UNCHANGED lost
    BY <1>1, <1>2 DEF Quote
<1>4. AtFunction /\ Current.op = "QUOTE"
    <2>1. {"QUOTE"} \in SUBSET Functions
        BY DEF Functions
    <2>2. QED BY <1>3, <2>1, FunctionIs DEF At
<1>5. "never" \in CurrentFact
    <2>1. SUFFICES ASSUME "never" \notin CurrentFact PROVE FALSE
        OBVIOUS
    <2>2. PICK of : CurrentFact = Known(Current, of) /\ "never" \notin Known(Current, of)
        BY <1>4, <2>1, ArgumentFacts
    <2>3. QED BY <1>4, <2>2, KnownFunction DEF Functions
<1>6. CASE Argument(1) = Null
    <2>1. Prepared(p)
        BY <1>2, <1>4, <1>5, <1>6 DEF Prepared, AtFunction, Keeps, Lives
    <2>2. TextValue(t) \in Stored
        <3>1. t \in Texts
            BY <1>1 DEF Texts, Characters
        <3>2. QED BY <3>1, StoredType
    <2>3. \A r : Holds(CurrentFact, r, New)
        BY <1>5 DEF Holds
    <2>4. QED BY <1>3, <1>4, <2>1, <2>2, <2>3, GivenPreserves
<1>7. CASE Argument(1) # Null
    <2>1. PICK q : q = Taken(pool)
        OBVIOUS
    <2>2. PoolOK(q) /\ Keeps(pool, q, {}) /\ Free(q) \subseteq Free(pool)
        BY <1>4, <2>1, TakenOK DEF AtFunction
    <2>3. p = Broken(q, "no string") /\ "no string" \in Broke
        BY <1>2, <1>7, <2>1 DEF Broke
    <2>4. PoolOK(p) /\ p.free = q.free /\ p.broken # "none" /\ Keeps(q, p, {})
        BY <2>2, <2>3, BrokenOK
    <2>5. Free(p) \subseteq Free(pool)
        BY <2>2, <2>4 DEF Free
    <2>6. Keeps(pool, p, ToSet(Top(stack, Current.args)) \cup Free(pool))
        <3>1. Keeps(pool, p, {} \cup {})
            BY <2>2, <2>4, KeepsTransitive
        <3>2. QED BY <3>1, KeepsMore
    <2>7. Return(p, Null, Nothing)
        BY <1>3, <2>4 DEF Given
    <2>8. QED BY <1>3, <1>4, <1>5, <2>4, <2>5, <2>6, <2>7, FailurePreserves
<1>8. QED BY <1>6, <1>7

(* What the built-in functions on texts give. *)
Tokens(x, n, d) ==
    TextValue(IF n <= 0 THEN <<>>
              ELSE TokenOf(Text(x), n, IF Text(d) = <<>> THEN 0 ELSE Head(Text(d))))

Padded(op, x, n, f) ==
    LET fill == IF n = NaN \/ Text(f) = <<>> THEN <<>> ELSE Filling(Text(x), n, Text(f))
    IN  TextValue(IF op = "LPAD" THEN fill \o Text(x) ELSE Text(x) \o fill)

LEMMA TokensType ==
    ASSUME NEW x \in AnyValue, NEW n, NEW d
    PROVE  \E t \in Texts : Tokens(x, n, d) = TextValue(t)
<1>1. Text(x) \in Texts
    BY TextType
<1>2. CASE n <= 0
    <2>1. <<>> \in Texts
        BY DEF Texts
    <2>2. Tokens(x, n, d) = TextValue(<<>>)
        BY <1>2 DEF Tokens
    <2>3. QED BY <2>1, <2>2
<1>3. CASE ~(n <= 0)
    <2>1. PICK delimiter : delimiter = IF Text(d) = <<>> THEN 0 ELSE Head(Text(d))
        OBVIOUS
    <2>2. TokenOf(Text(x), n, delimiter) \in Texts
        BY <1>1, TokenType
    <2>3. Tokens(x, n, d) = TextValue(TokenOf(Text(x), n, delimiter))
        BY <1>3, <2>1 DEF Tokens
    <2>4. QED BY <2>2, <2>3
<1>4. QED BY <1>2, <1>3

LEMMA PaddedType ==
    ASSUME NEW x \in AnyValue, NEW n \in Int, NEW f \in AnyValue, NEW op
    PROVE  \E t \in Texts : Padded(op, x, n, f) = TextValue(t) /\ (Text(x) # <<>> => t # <<>>)
<1>1. Text(x) \in Texts /\ Text(f) \in Texts
    BY TextType
<1>2. PICK fill : fill = IF n = NaN \/ Text(f) = <<>> THEN <<>> ELSE Filling(Text(x), n, Text(f))
    OBVIOUS
<1>3. fill \in Texts
    <2>1. <<>> \in Texts
        BY DEF Texts
    <2>2. Text(f) # <<>> => Filling(Text(x), n, Text(f)) \in Texts
        BY <1>1, FillingType
    <2>3. QED BY <1>2, <2>1, <2>2
<1>4. \A s, t \in Texts : s \o t \in Texts /\ (s \o t = <<>> => s = <<>> /\ t = <<>>)
    BY DEF Texts
<1>5. PICK t : t = IF op = "LPAD" THEN fill \o Text(x) ELSE Text(x) \o fill
    OBVIOUS
<1>6. Padded(op, x, n, f) = TextValue(t)
    BY <1>2, <1>5 DEF Padded
<1>7. t \in Texts /\ (Text(x) # <<>> => t # <<>>)
    BY <1>1, <1>3, <1>4, <1>5
<1>8. QED BY <1>6, <1>7

LEMMA TokenPreserves == ASSUME InterpreterIInv, Token PROVE InterpreterIInv'
<1>1. PICK cells : cells = {Argument(k) : k \in 1..3}
    OBVIOUS
<1>2. PICK p : p = Cast(Cast(Checked(pool, cells), Argument(1)), Argument(3))
    OBVIOUS
<1>3. PICK x, y, d : x = Value(pool, Argument(1)) /\ y = Value(pool, Argument(2)) /\ d = Value(pool, Argument(3))
    OBVIOUS
<1>4. PICK result, meant : /\ result = Tokens(x, Number(y), d)
                           /\ meant = Tokens(Meant(1), Number(Meant(2)), Meant(3))
    OBVIOUS
<1>5. /\ At({"TOKEN"}) /\ UNCHANGED lost
      /\ IF Number(y) = NaN THEN Return(p, Null, Nothing) ELSE Given(p, result, meant)
    BY <1>1, <1>2, <1>3, <1>4 DEF Token, Tokens
<1>6. AtFunction /\ Current.op = "TOKEN"
    <2>1. {"TOKEN"} \in SUBSET Functions
        BY DEF Functions
    <2>2. QED BY <1>5, <2>1, FunctionIs DEF At
<1>7. GoodArgument(1) /\ GoodArgument(2) /\ GoodArgument(3)
    BY <1>6, ArgumentIs
<1>8. CastPrepared(p, 1, 3, cells)
    BY <1>2, <1>6, CheckedPrepared
<1>9. ASSUME "never" \notin CurrentFact
      PROVE  CurrentFact = {"set"} /\ Number(y) # NaN /\ p.broken = "none"
    <2>1. PICK of : /\ CurrentFact = Known(Current, of) /\ "never" \notin Known(Current, of)
                    /\ Len(of) = Current.args
                    /\ \A k \in 1..Len(of) : Holds(of[k], pool, Argument(k)) /\ "never" \notin of[k]
        BY <1>6, <1>9, ArgumentFacts
    <2>2. CurrentFact = {"set"} /\ Len(of) >= 3 /\ "number" \in of[2]
        BY <1>6, <2>1, KnownFunction DEF Functions
    <2>3. Len(of) \in Nat
        BY <1>6, <2>1 DEF AtFunction
    <2>4. Holds(of[2], pool, Argument(2)) /\ "never" \notin of[2]
        BY <2>1, <2>2, <2>3
    <2>5. Number(y) # NaN
        BY <1>3, <2>2, <2>4 DEF Holds
    <2>6. (\A k \in 1..3 : Argument(k) # Null) /\ (\A c \in cells : c # Null => ~Dead(pool, c))
        BY <1>1, <1>6, <1>9, <2>1, <2>2, <2>3, ArgumentsReadable
    <2>7. p.broken = "none"
        BY <1>8, <2>6 DEF CastPrepared
    <2>8. QED BY <2>2, <2>5, <2>7
<1>10. Prepared(p)
    BY <1>8, <1>9 DEF CastPrepared, Prepared
<1>11. CASE Number(y) = NaN
    <2>1. "never" \in CurrentFact
        BY <1>9, <1>11
    <2>2. QED BY <1>5, <1>6, <1>10, <1>11, <2>1, NullPreserves
<1>12. CASE Number(y) # NaN
    <2>1. PICK t \in Texts : result = TextValue(t)
        BY <1>3, <1>4, <1>7, TokensType DEF GoodArgument
    <2>2. result \in Stored
        BY <2>1, StoredType
    <2>3. Unset \notin ToSet(Meanings(Current.args)) => meant = result
        BY <1>3, <1>4, <1>7 DEF GoodArgument
    <2>4. ASSUME NEW r, Value(r, New) = result, ~Dead(r, New) PROVE Holds(CurrentFact, r, New)
        <3>1. CASE "never" \in CurrentFact
            BY <3>1 DEF Holds
        <3>2. CASE "never" \notin CurrentFact
            <4>1. CurrentFact = {"set"}
                BY <1>9, <3>2
            <4>2. "positive" \notin CurrentFact /\ "number" \notin CurrentFact /\ "filled" \notin CurrentFact
                BY <4>1
            <4>3. New # Null
                BY <1>6, FreeType DEF AtFunction
            <4>4. QED BY <2>1, <2>4, <4>2, <4>3, TextHolds
        <3>3. QED BY <3>1, <3>2
    <2>5. Given(p, result, meant) /\ UNCHANGED lost
        BY <1>5, <1>12
    <2>6. QED BY <1>6, <1>10, <2>2, <2>3, <2>4, <2>5, GivenPreserves
<1>13. QED BY <1>11, <1>12

LEMMA PadPreserves == ASSUME InterpreterIInv, Pad PROVE InterpreterIInv'
<1>1. PICK cells : cells = {Argument(k) : k \in 1..3}
    OBVIOUS
<1>2. PICK p0 : p0 = Cast(Cast(Checked(pool, cells), Argument(1)), Argument(3))
    OBVIOUS
<1>3. PICK x, y, f : x = Value(pool, Argument(1)) /\ y = Value(pool, Argument(2)) /\ f = Value(pool, Argument(3))
    OBVIOUS
<1>4. PICK n : n = Number(y)
    OBVIOUS
<1>5. PICK endless : endless = (n # NaN /\ Len(Text(x)) < n /\ Text(f) = <<>>)
    OBVIOUS
<1>6. PICK p : p = IF endless THEN Broken(p0, "endless") ELSE p0
    OBVIOUS
<1>7. PICK result, meant : /\ result = Padded(Current.op, x, n, f)
                           /\ meant = Padded(Current.op, Meant(1), Number(Meant(2)), Meant(3))
    OBVIOUS
<1>8. At({"LPAD", "RPAD"}) /\ UNCHANGED lost /\ Given(p, result, meant)
    BY <1>1, <1>2, <1>3, <1>4, <1>5, <1>6, <1>7 DEF Pad, Padded
<1>9. AtFunction /\ Current.op \in {"LPAD", "RPAD"}
    <2>1. {"LPAD", "RPAD"} \in SUBSET Functions
        BY DEF Functions
    <2>2. QED BY <1>8, <2>1, FunctionIs DEF At
<1>10. GoodArgument(1) /\ GoodArgument(2) /\ GoodArgument(3)
    BY <1>9, ArgumentIs
<1>11. CastPrepared(p0, 1, 3, cells)
    BY <1>2, <1>9, CheckedPrepared
<1>12. ASSUME "never" \notin CurrentFact
       PROVE  /\ CurrentFact \subseteq {"set", "filled"} /\ Text(f) # <<>> /\ p0.broken = "none"
              /\ "filled" \in CurrentFact => Text(x) # <<>>
    <2>1. PICK of : /\ CurrentFact = Known(Current, of) /\ "never" \notin Known(Current, of)
                    /\ Len(of) = Current.args
                    /\ \A k \in 1..Len(of) : Holds(of[k], pool, Argument(k)) /\ "never" \notin of[k]
        BY <1>9, <1>12, ArgumentFacts
    <2>2. /\ CurrentFact \subseteq {"set", "filled"} /\ Len(of) >= 3 /\ "filled" \in of[3]
          /\ "filled" \in CurrentFact => "filled" \in of[1]
        BY <1>9, <2>1, KnownFunction DEF Functions
    <2>3. Len(of) \in Nat
        BY <1>9, <2>1 DEF AtFunction
    <2>4. /\ Holds(of[1], pool, Argument(1)) /\ "never" \notin of[1]
          /\ Holds(of[3], pool, Argument(3)) /\ "never" \notin of[3]
        BY <2>1, <2>2, <2>3
    <2>5. Text(f) # <<>> /\ ("filled" \in CurrentFact => Text(x) # <<>>)
        BY <1>3, <2>2, <2>4 DEF Holds
    <2>6. (\A k \in 1..3 : Argument(k) # Null) /\ (\A c \in cells : c # Null => ~Dead(pool, c))
        BY <1>1, <1>9, <1>12, <2>1, <2>2, <2>3, ArgumentsReadable
    <2>7. p0.broken = "none"
        BY <1>11, <2>6 DEF CastPrepared
    <2>8. QED BY <2>2, <2>5, <2>7
<1>13. Prepared(p)
    <2>1. PoolOK(p0) /\ p0.free = pool.free /\ Lives(pool, p0)
          /\ Keeps(pool, p0, ToSet(Top(stack, Current.args)) \cup Free(pool))
        BY <1>11 DEF CastPrepared
    <2>2. CASE ~endless
        BY <1>6, <1>12, <2>1, <2>2 DEF Prepared
    <2>3. CASE endless
        <3>1. p = Broken(p0, "endless") /\ "endless" \in Broke
            BY <1>6, <2>3 DEF Broke
        <3>2. PoolOK(p) /\ p.free = p0.free /\ Keeps(p0, p, {}) /\ Lives(p0, p)
            BY <2>1, <3>1, BrokenOK
        <3>3. Keeps(pool, p, (ToSet(Top(stack, Current.args)) \cup Free(pool)) \cup {})
            BY <2>1, <3>2, KeepsTransitive
        <3>4. Keeps(pool, p, ToSet(Top(stack, Current.args)) \cup Free(pool))
            BY <3>3, KeepsMore
        <3>5. "never" \in CurrentFact
            BY <1>5, <1>12, <2>3
        <3>6. QED BY <2>1, <3>2, <3>4, <3>5, LivesTransitive DEF Prepared
    <2>4. QED BY <2>2, <2>3
<1>14. x \in AnyValue /\ f \in AnyValue /\ n \in Int
    BY <1>3, <1>4, <1>10, NumberType DEF GoodArgument
<1>15. PICK t \in Texts : result = TextValue(t) /\ (Text(x) # <<>> => t # <<>>)
    BY <1>7, <1>14, PaddedType
<1>16. result \in Stored
    BY <1>15, StoredType
<1>17. Unset \notin ToSet(Meanings(Current.args)) => meant = result
    BY <1>3, <1>4, <1>7, <1>10 DEF GoodArgument
<1>18. ASSUME NEW r, Value(r, New) = result, ~Dead(r, New) PROVE Holds(CurrentFact, r, New)
    <2>1. CASE "never" \in CurrentFact
        BY <2>1 DEF Holds
    <2>2. CASE "never" \notin CurrentFact
        <3>1. "positive" \notin CurrentFact /\ "number" \notin CurrentFact
            BY <1>12, <2>2
        <3>2. "filled" \in CurrentFact => t # <<>>
            BY <1>12, <1>15, <2>2
        <3>3. New # Null
            BY <1>9, FreeType DEF AtFunction
        <3>4. QED BY <1>15, <1>18, <3>1, <3>2, <3>3, TextHolds
    <2>3. QED BY <2>1, <2>2
<1>19. QED BY <1>8, <1>9, <1>13, <1>16, <1>17, <1>18, GivenPreserves

LEMMA EmptyText == TextValue(<<>>) \in Stored /\ TextValue(<<>>) \in AnyValue
<1>1. <<>> \in Texts
    BY DEF Texts
<1>2. QED BY <1>1, StoredType

(* The text of a cell's string is replaced. *)
WithText(p, c, t) == [p EXCEPT !.cell[c].text = t]

Rewritten(p, q, c, t) ==
    /\ PoolOK(q) /\ q.free = p.free /\ q.broken = p.broken
    /\ Keeps(p, q, {c}) /\ Lives(p, q)
    /\ Value(q, c) = TextValue(t) /\ ~Dead(q, c)

LEMMA RewrittenOK ==
    ASSUME NEW p, PoolOK(p), NEW c \in Cell, c \notin Free(p), NEW s, Value(p, c) = TextValue(s), ~Dead(p, c),
           NEW t \in Texts, NEW q, q = WithText(p, c, t)
    PROVE  Rewritten(p, q, c, t)
<1>1. p \in Pool /\ p.cell \in [Cell -> CellValue] /\ p.cell[c] \in CellValue
    BY DEF PoolOK, Pool
<1>2. PICK v : v = [p.cell[c] EXCEPT !.text = t]
    OBVIOUS
<1>3. /\ v \in CellValue /\ v.type = p.cell[c].type /\ v.num = p.cell[c].num
      /\ v.text = t /\ v.string = p.cell[c].string
    BY <1>1, <1>2 DEF CellValue
<1>4. /\ q.cell = [p.cell EXCEPT ![c] = v] /\ q.free = p.free /\ q.broken = p.broken /\ q.strings = p.strings
      /\ q \in Pool
    BY <1>1, <1>2, <1>3 DEF Pool, WithText
<1>5. q.cell[c] = v /\ \A d \in Cell : d # c => q.cell[d] = p.cell[d]
    BY <1>1, <1>4
<1>6. \A d \in Cell : q.cell[d].string = p.cell[d].string /\ q.cell[d].type = p.cell[d].type
    BY <1>3, <1>5
<1>7. PoolOK(q)
    BY <1>4, <1>6 DEF PoolOK, Free
<1>8. Keeps(p, q, {c})
    BY <1>4, <1>5 DEF Keeps
<1>9. Lives(p, q) /\ ~Dead(q, c)
    BY <1>4, <1>6 DEF Lives, Dead
<1>10. Value(q, c) = TextValue(t)
    <2>1. c # Null
        BY CellType
    <2>2. p.cell[c].type = "string" /\ p.cell[c].num = 0
        BY <2>1 DEF Value, TextValue
    <2>3. QED BY <1>3, <1>5, <2>1, <2>2 DEF Value, TextValue
<1>11. QED BY <1>4, <1>7, <1>8, <1>9, <1>10 DEF Rewritten

(* The pool when LOOKUP has taken its result and cast the names. *)
LookUpPrepared(p) ==
    /\ PoolOK(p) /\ p.free = Tail(pool.free) /\ Lives(pool, p)
    /\ New \in Cell /\ New \notin Free(p) /\ Free(pool) = Free(p) \cup {New}
    /\ Keeps(pool, p, ToSet(Top(stack, Current.args)) \cup Free(pool))
    /\ Value(p, New) = TextValue(<<>>) /\ ~Dead(p, New)
    /\ "never" \notin CurrentFact =>
           /\ p.broken = "none" /\ CurrentFact = {"set"}
           /\ \A k \in 1..4 : Argument(k) # Null

LEMMA LookUpIsPrepared ==
    ASSUME AtFunction, Current.op = "LOOKUP", NEW p,
           p = Cast(Cast(Put(Taken(Checked(pool, {Argument(k) : k \in 1..4})), New, TextValue(<<>>)),
                         Argument(1)), Argument(2))
    PROVE  LookUpPrepared(p)
<1>1. PICK cells : cells = {Argument(k) : k \in 1..4}
    OBVIOUS
<1>2. PICK p0 : p0 = Checked(pool, cells)
    OBVIOUS
<1>3. /\ PoolOK(p0) /\ p0.free = pool.free /\ Keeps(pool, p0, {}) /\ Lives(pool, p0)
      /\ ((\A c \in cells : c # Null => ~Dead(pool, c)) => p0.broken = "none")
    BY <1>2, CheckedOK DEF AtFunction
<1>4. PICK c : c = New /\ c = Head(p0.free)
    BY <1>3 DEF New
<1>5. PICK p1 : p1 = Put(Taken(p0), c, TextValue(<<>>))
    OBVIOUS
<1>6. Fresh(p0, p1, c, TextValue(<<>>))
    <2>1. TextValue(<<>>) \in Stored
        BY EmptyText
    <2>2. p0.free # <<>>
        BY <1>3 DEF AtFunction
    <2>3. QED BY <1>3, <1>4, <1>5, <2>1, <2>2, FreshOK
<1>7. PICK a, b : a = Argument(1) /\ b = Argument(2)
    OBVIOUS
<1>8. GoodArgument(1) /\ GoodArgument(2)
    BY ArgumentIs
<1>9. a \in Cell \cup {Null} /\ b \in Cell \cup {Null} /\ a \notin Free(pool) /\ b \notin Free(pool)
    BY <1>7, <1>8 DEF GoodArgument
<1>10. /\ PoolOK(p1) /\ p1.broken = p0.broken /\ p1.free = Tail(pool.free)
       /\ c \in Cell /\ c \notin Free(p1) /\ Free(pool) = Free(p1) \cup {c}
       /\ Keeps(p0, p1, {c}) /\ Lives(p0, p1) /\ Value(p1, c) = TextValue(<<>>) /\ ~Dead(p1, c)
    BY <1>3, <1>6 DEF Fresh, Free
<1>11. a \notin Free(p1) /\ b \notin Free(p1) /\ a # c /\ b # c
    BY <1>9, <1>10
<1>12. p = Cast(Cast(p1, a), b)
    BY <1>1, <1>2, <1>4, <1>5, <1>7
<1>13. /\ PoolOK(p) /\ p.free = p1.free /\ Keeps(p1, p, {a, b}) /\ Lives(p1, p)
       /\ (a # Null /\ b # Null => p.broken = p1.broken)
    BY <1>9, <1>10, <1>11, <1>12, TwoCastsOK
<1>14. Value(p, c) = TextValue(<<>>) /\ ~Dead(p, c)
    <2>1. c \notin {a, b} /\ c \in Cell \cup {Null} /\ c # Null
        BY <1>10, <1>11, CellType
    <2>2. QED BY <1>10, <1>13, <2>1, KeptValue
<1>15. Lives(pool, p)
    BY <1>3, <1>10, <1>13, LivesTransitive
<1>16. Keeps(pool, p, ToSet(Top(stack, Current.args)) \cup Free(pool))
    <2>1. Keeps(pool, p1, {} \cup {c})
        BY <1>3, <1>10, KeepsTransitive
    <2>2. Keeps(pool, p, {} \cup {c} \cup {a, b})
        BY <1>13, <2>1, KeepsTransitive
    <2>3. \A d \in Cell \ (ToSet(Top(stack, Current.args)) \cup Free(pool)) : d \notin {} \cup {c} \cup {a, b}
        BY <1>7, <1>8, <1>10, CellType DEF GoodArgument
    <2>4. QED BY <2>2, <2>3 DEF Keeps
<1>17. ASSUME "never" \notin CurrentFact
       PROVE  p.broken = "none" /\ CurrentFact = {"set"} /\ \A k \in 1..4 : Argument(k) # Null
    <2>1. PICK of : /\ CurrentFact = Known(Current, of) /\ "never" \notin Known(Current, of)
                    /\ Len(of) = Current.args
        BY <1>17, ArgumentFacts
    <2>2. CurrentFact = {"set"} /\ Len(of) >= 4
        BY <2>1, KnownFunction DEF Functions
    <2>3. Len(of) \in Nat
        BY <2>1 DEF AtFunction
    <2>4. (\A k \in 1..4 : Argument(k) # Null) /\ (\A d \in cells : d # Null => ~Dead(pool, d))
        BY <1>1, <1>17, <2>1, <2>2, <2>3, ArgumentsReadable
    <2>5. p.broken = "none"
        BY <1>3, <1>7, <1>10, <1>13, <2>4
    <2>6. QED BY <2>2, <2>4, <2>5
<1>18. Free(p) = Free(p1)
    BY <1>13 DEF Free
<1>19. QED BY <1>4, <1>10, <1>13, <1>14, <1>15, <1>16, <1>17, <1>18 DEF LookUpPrepared

KnownTable == Text(Value(pool, Argument(2))) \in DOMAIN Tables
KnownField(k) == Field(Tables[Text(Value(pool, Argument(2)))], Value(pool, Argument(k))) # NaN

LEMMA LookUpPreserves == ASSUME InterpreterIInv, LookUp PROVE InterpreterIInv'
<1>1. PICK p : p = Cast(Cast(Put(Taken(Checked(pool, {Argument(k) : k \in 1..4})), New, TextValue(<<>>)),
                             Argument(1)), Argument(2))
    OBVIOUS
<1>2. PICK invalid : invalid = (\/ ~KnownTable
                                \/ /\ Argument(3) # Null
                                   /\ ~KnownField(3) \/ (Argument(4) # Null /\ ~KnownField(4)))
    OBVIOUS
<1>3. PICK second : second = Head(p.free)
    OBVIOUS
<1>4. PICK t, m : /\ t = Looked(Value(pool, Argument(1)), Value(pool, Argument(2)),
                                Value(pool, Argument(3)), Value(pool, Argument(4)))
                  /\ m = Looked(Meant(1), Meant(2), Meant(3), Meant(4))
    OBVIOUS
<1>5. At({"LOOKUP"})
    BY DEF LookUp
<1>6. AtFunction /\ Current.op = "LOOKUP"
    <2>1. {"LOOKUP"} \in SUBSET Functions
        BY DEF Functions
    <2>2. QED BY <1>5, <2>1, FunctionIs DEF At
<1>7. LookUpPrepared(p)
    BY <1>1, <1>6, LookUpIsPrepared
<1>8. \/ p.broken # "none" /\ Return(p, Null, Nothing) /\ UNCHANGED lost
      \/ /\ p.broken = "none" /\ invalid
         /\ Return(Put(Taken(p), second, TextValue(<<>>)), second, TextValue(<<>>)) /\ lost' = lost \cup {New}
      \/ /\ p.broken = "none" /\ ~invalid /\ (Argument(3) = Null \/ Argument(4) = Null)
         /\ Return(Broken(p, "null"), Null, Nothing) /\ UNCHANGED lost
      \/ /\ p.broken = "none" /\ ~invalid
         /\ Return([p EXCEPT !.cell[New].text = t], New, TextValue(m)) /\ UNCHANGED lost
    BY <1>1, <1>2, <1>3, <1>4 DEF LookUp, KnownTable, KnownField
<1> DEFINE D == ToSet(Top(stack, Current.args)) \cup Free(pool)
<1>9. /\ PoolOK(p) /\ p.free = Tail(pool.free) /\ Lives(pool, p) /\ Keeps(pool, p, D)
      /\ New \in Cell /\ New \notin Free(p) /\ Free(pool) = Free(p) \cup {New}
      /\ Value(p, New) = TextValue(<<>>) /\ ~Dead(p, New)
    BY <1>7 DEF LookUpPrepared
<1>10. "never" \notin CurrentFact => p.broken = "none" /\ CurrentFact = {"set"} /\ \A k \in 1..4 : Argument(k) # Null
    BY <1>7 DEF LookUpPrepared
(* A text in a cell is all that is known of the result. *)
<1>11. ASSUME NEW q, NEW c, NEW u, Value(q, c) = TextValue(u), ~Dead(q, c), c \in Cell
       PROVE  Holds(CurrentFact, q, c)
    <2>1. CASE "never" \in CurrentFact
        BY <2>1 DEF Holds
    <2>2. CASE "never" \notin CurrentFact
        <3>1. "positive" \notin CurrentFact /\ "number" \notin CurrentFact /\ "filled" \notin CurrentFact
            BY <1>10, <2>2
        <3>2. c # Null
            BY <1>11, CellType
        <3>3. QED BY <1>11, <3>1, <3>2, TextHolds
    <2>3. QED BY <2>1, <2>2
<1> HIDE DEF D
<1>12. CASE p.broken # "none" /\ Return(p, Null, Nothing) /\ UNCHANGED lost
    <2>1. Free(p) \subseteq Free(pool) /\ "never" \in CurrentFact
        BY <1>9, <1>10, <1>12
    <2>2. QED BY <1>6, <1>9, <1>12, <2>1, FailurePreserves DEF D
<1>13. CASE /\ p.broken = "none" /\ invalid
            /\ Return(Put(Taken(p), second, TextValue(<<>>)), second, TextValue(<<>>)) /\ lost' = lost \cup {New}
    <2>1. PICK q : q = Put(Taken(p), second, TextValue(<<>>))
        OBVIOUS
    <2>2. TextValue(<<>>) \in Stored /\ TextValue(<<>>) \in AnyValue
        BY EmptyText
    <2>3. p.free # <<>>
        BY <1>6, <1>9 DEF AtFunction
    <2>4. Fresh(p, q, second, TextValue(<<>>))
        BY <1>3, <1>9, <2>1, <2>2, <2>3, FreshOK
    <2>5. Keeps(pool, q, D)
        <3>1. Keeps(p, q, {second}) /\ second \in D
            BY <1>9, <2>4 DEF Fresh, D
        <3>2. Keeps(pool, q, D \cup {second})
            BY <1>9, <3>1, KeepsTransitive
        <3>3. QED BY <3>1, <3>2, KeepsMore
    <2>6. Lives(pool, q)
        BY <1>9, <2>4, LivesTransitive DEF Fresh
    <2>7. Holds(CurrentFact, q, second)
        BY <1>11, <2>4 DEF Fresh
    <2>8. /\ PoolOK(q) /\ Free(q) \subseteq Free(pool) /\ second \in Free(pool) /\ second \notin Free(q)
          /\ Free(pool) \subseteq Free(q) \cup {New} \cup {second} /\ q.broken = "none"
          /\ {New} \subseteq Free(pool) /\ second \notin {New} /\ {New} \cap Free(q) = {}
          /\ Value(q, second) = TextValue(<<>>)
        BY <1>9, <1>13, <2>4 DEF Fresh
    <2>9. PICK y : y = IF Unset \in ToSet(Meanings(Current.args)) THEN Unset ELSE TextValue(<<>>)
        OBVIOUS
    <2>10. y # Unset => Value(q, second) = y
        BY <2>8, <2>9
    <2>11. Reduction(pool, stack, q, Current.args, second, y, CurrentFact, {New})
        BY <2>5, <2>6, <2>7, <2>8, <2>10 DEF Reduction, D
    <2>12. QED BY <1>6, <1>13, <2>1, <2>2, <2>9, <2>11, ReturnPreserves
<1>14. CASE /\ p.broken = "none" /\ ~invalid /\ (Argument(3) = Null \/ Argument(4) = Null)
            /\ Return(Broken(p, "null"), Null, Nothing) /\ UNCHANGED lost
    <2>1. PICK q : q = Broken(p, "null")
        OBVIOUS
    <2>2. PoolOK(q) /\ q.free = p.free /\ q.broken # "none" /\ Keeps(p, q, {})
        BY <1>9, <2>1, BrokenOK DEF Broke
    <2>3. Keeps(pool, q, D)
        <3>1. Keeps(pool, q, D \cup {})
            BY <1>9, <2>2, KeepsTransitive
        <3>2. QED BY <3>1, KeepsMore
    <2>4. Free(q) \subseteq Free(pool) /\ "never" \in CurrentFact
        BY <1>9, <1>10, <1>14, <2>2 DEF Free
    <2>5. QED BY <1>6, <1>14, <2>1, <2>2, <2>3, <2>4, FailurePreserves DEF D
<1>15. CASE /\ p.broken = "none" /\ ~invalid
            /\ Return([p EXCEPT !.cell[New].text = t], New, TextValue(m)) /\ UNCHANGED lost
    <2>1. PICK q : q = [p EXCEPT !.cell[New].text = t]
        OBVIOUS
    <2>2. t \in Texts
        BY <1>2, <1>4, <1>15, LookedType DEF KnownTable
    <2>3. /\ PoolOK(q) /\ q.free = p.free /\ q.broken = p.broken /\ Keeps(p, q, {New}) /\ Lives(p, q)
          /\ Value(q, New) = TextValue(t) /\ ~Dead(q, New)
        <3>1. PICK c : c = New
            OBVIOUS
        <3>2. PoolOK(p) /\ c \in Cell /\ c \notin Free(p) /\ Value(p, c) = TextValue(<<>>) /\ ~Dead(p, c)
            BY <1>9, <3>1
        <3>3. q = WithText(p, c, t)
            BY <2>1, <3>1 DEF WithText
        <3>4. Rewritten(p, q, c, t)
            BY <2>2, <3>2, <3>3, RewrittenOK
        <3>5. QED BY <3>1, <3>4 DEF Rewritten
    <2>4. Keeps(pool, q, D)
        <3>1. New \in D
            BY <1>9 DEF D
        <3>2. Keeps(pool, q, D \cup {New})
            BY <1>9, <2>3, KeepsTransitive
        <3>3. QED BY <3>1, <3>2, KeepsMore
    <2>5. Lives(pool, q)
        BY <1>9, <2>3, LivesTransitive
    <2>6. Holds(CurrentFact, q, New)
        BY <1>9, <1>11, <2>3
    <2>7. GoodArgument(1) /\ GoodArgument(2) /\ GoodArgument(3) /\ GoodArgument(4)
        BY <1>6, ArgumentIs
    <2>8. Unset \notin ToSet(Meanings(Current.args)) => m = t
        BY <1>4, <2>7 DEF GoodArgument
    <2>9. PICK y : y = IF Unset \in ToSet(Meanings(Current.args)) THEN Unset ELSE TextValue(t)
        OBVIOUS
    <2>10. y # Unset => Value(q, New) = y
        BY <2>3, <2>9
    <2>11. /\ Free(q) \subseteq Free(pool) /\ New \in Free(pool) /\ New \notin Free(q)
           /\ Free(pool) \subseteq Free(q) \cup {} \cup {New} /\ q.broken = "none"
        BY <1>9, <1>15, <2>3 DEF Free
    <2>12. Reduction(pool, stack, q, Current.args, New, y, CurrentFact, {})
        BY <2>3, <2>4, <2>5, <2>6, <2>10, <2>11 DEF Reduction, D
    <2>13. Return(q, New, TextValue(t))
        <3>1. CASE Unset \in ToSet(Meanings(Current.args))
            BY <1>15, <2>1, <3>1 DEF Return
        <3>2. CASE Unset \notin ToSet(Meanings(Current.args))
            BY <1>15, <2>1, <2>8, <3>2
        <3>3. QED BY <3>1, <3>2
    <2>14. TextValue(t) \in AnyValue /\ lost' = lost \cup {}
        BY <1>15, <2>2, StoredType
    <2>15. QED BY <1>6, <2>9, <2>12, <2>13, <2>14, ReturnPreserves
<1>16. QED BY <1>8, <1>12, <1>13, <1>14, <1>15

-----------------------------------------------------------------------------
(* InterpreterInvariance *)

LEMMA InterpreterInitIInv == InterpreterInit => InterpreterIInv
<1> SUFFICES ASSUME InterpreterInit PROVE InterpreterIInv
    OBVIOUS
<1>1. /\ pool = [cell |-> [c \in Cell |-> Garbage], free |-> [c \in Cell |-> c], strings |-> {}, broken |-> "none"]
      /\ expression = <<>> /\ done = 0 /\ stack = <<>> /\ meaning = <<>>
      /\ sound = TRUE /\ lost = {} /\ evaluated = 0
    BY DEF InterpreterInit
<1>2. PICK list : list = [c \in Cell |-> c]
    OBVIOUS
<1>3. list \in Seq(Cell) /\ DOMAIN list = Cell /\ \A c \in Cell : list[c] = c
    BY <1>2, PoolAssumption DEF Cell
<1>4. PICK cells : cells = [c \in Cell |-> Garbage]
    OBVIOUS
<1>5. cells \in [Cell -> CellValue] /\ \A c \in Cell : cells[c] = Garbage
    <2>1. Garbage \in CellValue
        <3>1. 0 \in Ints /\ 0 \in 0..(Cells + 1) /\ <<>> \in Texts
            BY IntsType, PoolAssumption DEF Texts
        <3>2. QED BY <3>1 DEF Garbage, CellValue
    <2>2. QED BY <1>4, <2>1
<1>6. pool.cell = cells /\ pool.free = list /\ pool.strings = {} /\ pool.broken = "none"
    BY <1>1, <1>2, <1>4
<1>7. PoolOK(pool)
    <2>1. pool \in Pool
        BY <1>1, <1>2, <1>3, <1>4, <1>5 DEF Pool
    <2>2. \A c \in Cell : pool.cell[c].string = 0 /\ pool.cell[c].type # "string"
        BY <1>5, <1>6 DEF Garbage
    <2>3. \A i, j \in DOMAIN pool.free : pool.free[i] = pool.free[j] => i = j
        BY <1>3, <1>6
    <2>4. QED BY <1>6, <2>1, <2>2, <2>3 DEF PoolOK
<1>8. InterpreterStateType
    <2>1. Len(<<>>) = 0 /\ <<>> \in Seq(Cell \cup {Null}) /\ <<>> \in Seq(AnyValue)
        OBVIOUS
    <2>2. 0 \in 0..MaxExpressions
        BY PoolAssumption
    <2>3. QED BY <1>1, <2>1, <2>2 DEF InterpreterStateType
<1>9. Facts(expression)[done] = <<>>
    <2>1. Len(<<>>) \in Nat
        OBVIOUS
    <2>2. QED BY <1>1, <2>1, FactsDefined DEF Told
<1>10. FactsHold(<<>>, pool, <<>>) /\ MeaningHolds(pool, <<>>, <<>>)
    BY DEF FactsHold, MeaningHolds
<1>11. Parted(<<>>, {}, pool)
    <2>1. \A c \in Cell : c \in Free(pool)
        BY <1>3, <1>6 DEF Free, ToSet
    <2>2. QED BY <2>1 DEF Parted
<1>12. QED BY <1>1, <1>7, <1>8, <1>9, <1>10, <1>11 DEF InterpreterIInv, Running

LEMMA InterpreterNextIInv == InterpreterIInv /\ [Interpret]_interpreter => InterpreterIInv'
<1> SUFFICES ASSUME InterpreterIInv, [Interpret]_interpreter PROVE InterpreterIInv'
    OBVIOUS
<1>1. CASE UNCHANGED interpreter
    BY <1>1 DEF interpreter, InterpreterIInv, InterpreterStateType, Running
<1>2. CASE Start
    BY <1>2, StartPreserves
<1>3. CASE Integer \/ String \/ NoRecord
    BY <1>3, IntegerPreserves, StringPreserves, NoRecordPreserves
<1>4. CASE Binary
    BY <1>4, BinaryPreserves
<1>5. CASE Length \/ Quote \/ Token
    BY <1>5, LengthPreserves, QuotePreserves, TokenPreserves
<1>6. CASE Pad \/ LookUp \/ Unknown
    BY <1>6, PadPreserves, LookUpPreserves, UnknownPreserves
<1>7. CASE Use \/ UseInTemplate
    BY <1>7, UsePreserves
<1>8. CASE UseInConfiguration \/ Abandon
    BY <1>8, KeptPreserves
<1>9. QED BY <1>1, <1>2, <1>3, <1>4, <1>5, <1>6, <1>7, <1>8 DEF Interpret

(* The inductive invariant: each cell is free, lost, or that of one result;  *)
(* each live string is that of one cell in use; what is known of a result    *)
(* before the evaluation is true of its cell.                                *)
THEOREM InterpreterInvariance == Interpreter => []InterpreterIInv
BY InterpreterInitIInv, InterpreterNextIInv, PTL DEF Interpreter

-----------------------------------------------------------------------------
(* Strings outside the cells: each is that of a TOKEN visited, so with the   *)
(* TOKENs still to come they are no more than all TOKENs so far.             *)

Leftovers ==
    /\ leftover \in Nat /\ tokens \in Nat
    /\ leftover + TokensIn(expression, done) <= tokens

LEMMA TokensCounted ==
    ASSUME NEW nodes \in Seq(Node), NEW n \in Nat
    PROVE  /\ TokensIn(nodes, n) \in Nat
           /\ TokensIn(nodes, n + 1) <= TokensIn(nodes, n)
           /\ n + 1 \in DOMAIN nodes /\ nodes[n + 1].op = "TOKEN" => TokensIn(nodes, n) = TokensIn(nodes, n + 1) + 1
<1>1. PICK more, fewer : /\ more = {k \in DOMAIN nodes : k > n /\ nodes[k].op = "TOKEN"}
                         /\ fewer = {k \in DOMAIN nodes : k > n + 1 /\ nodes[k].op = "TOKEN"}
    OBVIOUS
<1>2. TokensIn(nodes, n) = Cardinality(more) /\ TokensIn(nodes, n + 1) = Cardinality(fewer)
    BY <1>1 DEF TokensIn
<1>3. IsFiniteSet(DOMAIN nodes)
    <2>1. DOMAIN nodes = 1..Len(nodes) /\ Len(nodes) \in Nat
        OBVIOUS
    <2>2. QED BY <2>1, FS_Interval
<1>4. more \subseteq DOMAIN nodes /\ fewer \subseteq more /\ n + 1 \notin fewer
    BY <1>1
<1>5. IsFiniteSet(more) /\ IsFiniteSet(fewer)
    BY <1>3, <1>4, FS_Subset
<1>6. Cardinality(more) \in Nat /\ Cardinality(fewer) <= Cardinality(more)
    BY <1>4, <1>5, FS_Subset, FS_CardinalityType
<1>7. ASSUME n + 1 \in DOMAIN nodes, nodes[n + 1].op = "TOKEN" PROVE Cardinality(more) = Cardinality(fewer) + 1
    <2>1. more = fewer \cup {n + 1}
        BY <1>1, <1>7
    <2>2. QED BY <1>4, <1>5, <2>1, FS_AddElement
<1>8. QED BY <1>2, <1>6, <1>7

LEMMA NoTokens == TokensIn(<<>>, 0) = 0
<1>1. {k \in DOMAIN <<>> : k > 0 /\ <<>>[k].op = "TOKEN"} = {}
    OBVIOUS
<1>2. QED BY <1>1, FS_EmptySet DEF TokensIn

(* What a node changes of the count; a TOKEN may leave a string. *)
LEMMA NodesReduce ==
    ASSUME Integer \/ String \/ NoRecord \/ Binary \/ Length \/ Quote \/ Token \/ Pad \/ LookUp \/ Unknown
    PROVE  /\ expression' = expression /\ done' = done + 1 /\ tokens' = tokens /\ done < Len(expression)
           /\ leftover' = leftover \/ (leftover' = leftover + 1 /\ expression[done + 1].op = "TOKEN")
<1>1. ASSUME NEW n, NEW p, NEW c, NEW x, Reduce(n, p, c, x)
      PROVE  expression' = expression /\ done' = done + 1 /\ tokens' = tokens
    BY <1>1 DEF Reduce
<1>2. ASSUME NEW p, NEW c, NEW x, Return(p, c, x)
      PROVE  expression' = expression /\ done' = done + 1 /\ tokens' = tokens
    BY <1>1, <1>2 DEF Return
<1>3. ASSUME NEW p, NEW x, NEW y, Given(p, x, y)
      PROVE  expression' = expression /\ done' = done + 1 /\ tokens' = tokens
    BY <1>2, <1>3 DEF Given
<1>4. ASSUME NEW ops, At(ops) PROVE done < Len(expression) /\ expression[done + 1].op \in ops
    BY <1>4 DEF At, Current
<1>5. CASE Integer \/ String \/ NoRecord
    BY <1>1, <1>4, <1>5 DEF Integer, String, NoRecord
<1>6. CASE Binary
    BY <1>1, <1>4, <1>6 DEF Binary
<1>7. CASE Length \/ Quote \/ Pad
    BY <1>3, <1>4, <1>7 DEF Length, Quote, Pad
<1>8. CASE Token
    <2>1. At({"TOKEN"}) /\ (leftover' = leftover \/ leftover' = leftover + 1)
        BY <1>8 DEF Token
    <2>2. expression' = expression /\ done' = done + 1 /\ tokens' = tokens
        BY <1>2, <1>3, <1>8 DEF Token
    <2>3. QED BY <1>4, <2>1, <2>2
<1>9. CASE LookUp
    BY <1>2, <1>4, <1>9 DEF LookUp
<1>10. CASE Unknown
    BY <1>2, <1>4, <1>10 DEF Unknown
<1>11. QED BY <1>5, <1>6, <1>7, <1>8, <1>9, <1>10

LEMMA LeftoversInit == InterpreterInit => Leftovers
BY NoTokens DEF InterpreterInit, Leftovers

LEMMA LeftoversNext == InterpreterIInv /\ Leftovers /\ [Interpret]_interpreter => Leftovers'
<1> SUFFICES ASSUME InterpreterIInv, Leftovers, [Interpret]_interpreter PROVE Leftovers'
    OBVIOUS
<1>1. leftover \in Nat /\ tokens \in Nat /\ leftover + TokensIn(expression, done) <= tokens
    BY DEF Leftovers
<1>2. expression \in Seq(Node) /\ done \in Nat /\ done \in 0..Len(expression)
    <2>1. expression \in Expressions \cup {<<>>} /\ done \in 0..Len(expression)
        BY DEF InterpreterIInv, InterpreterStateType
    <2>2. <<>> \in Seq(Node)
        OBVIOUS
    <2>3. expression \in Seq(Node)
        <3>1. CASE expression = <<>>
            BY <2>2, <3>1
        <3>2. CASE expression \in Expressions
            BY <3>2, ExpressionsAssumption
        <3>. QED BY <2>1, <3>1, <3>2
    <2>4. Len(expression) \in Nat
        BY <2>3
    <2>5. done \in Nat
        BY <2>1, <2>4
    <2>. QED BY <2>1, <2>3, <2>5
<1>3. PICK now, next : now = TokensIn(expression, done) /\ next = TokensIn(expression, done + 1)
    OBVIOUS
<1>4. /\ now \in Nat /\ next \in Nat /\ next <= now
      /\ done < Len(expression) /\ expression[done + 1].op = "TOKEN" => now = next + 1
    <2>1. done + 1 \in Nat
        BY <1>2
    <2>2. done < Len(expression) => done + 1 \in DOMAIN expression
        BY <1>2
    <2>3. QED BY <1>2, <1>3, <2>1, <2>2, TokensCounted
<1>5. CASE UNCHANGED interpreter
    BY <1>5 DEF interpreter, Leftovers
<1>6. CASE Start
    <2>1. /\ expression = <<>> /\ expression' \in Expressions /\ done' = done /\ leftover' = leftover
          /\ tokens' = tokens + TokensIn(expression', 0)
        BY <1>6 DEF Start
    <2>2. done = 0
        <3>1. Len(<<>>) = 0
            OBVIOUS
        <3>2. done \in 0..0
            BY <1>2, <2>1, <3>1
        <3>3. QED BY <3>2
    <2>3. TokensIn(expression', 0) \in Nat /\ now = 0
        BY <1>3, <2>1, <2>2, ExpressionsAssumption, TokensCounted, NoTokens
    <2>4. QED BY <1>1, <1>3, <2>1, <2>2, <2>3 DEF Leftovers
<1>7. CASE Integer \/ String \/ NoRecord \/ Binary \/ Length \/ Quote \/ Token \/ Pad \/ LookUp \/ Unknown
    <2>1. /\ expression' = expression /\ done' = done + 1 /\ tokens' = tokens /\ done < Len(expression)
          /\ leftover' = leftover \/ (leftover' = leftover + 1 /\ expression[done + 1].op = "TOKEN")
        BY <1>7, NodesReduce
    <2>2. TokensIn(expression', done') = next
        BY <1>3, <2>1
    <2>3. leftover' \in Nat /\ leftover' + next <= tokens
        BY <1>1, <1>3, <1>4, <2>1
    <2>4. QED BY <1>1, <2>1, <2>2, <2>3 DEF Leftovers
<1>8. CASE Use \/ UseInTemplate \/ UseInConfiguration \/ Abandon
    <2>1. expression' = <<>> /\ done' = 0 /\ tokens' = tokens /\ leftover' = leftover
        BY <1>8 DEF Use, UseInTemplate, UseInConfiguration, Abandon, Done
    <2>2. QED BY <1>1, <1>3, <1>4, <2>1, NoTokens DEF Leftovers
<1>9. QED BY <1>5, <1>6, <1>7, <1>8 DEF Interpret

LEMMA LeftoversHold == Interpreter => [](InterpreterIInv /\ Leftovers)
<1>1. InterpreterInit => InterpreterIInv /\ Leftovers
    BY InterpreterInitIInv, LeftoversInit
<1>2. (InterpreterIInv /\ Leftovers) /\ [Interpret]_interpreter => (InterpreterIInv /\ Leftovers)'
    BY InterpreterNextIInv, LeftoversNext
<1>3. QED BY <1>1, <1>2, PTL DEF Interpreter

-----------------------------------------------------------------------------
(* The cells hold ints and texts, no cell is free twice, and of each result  *)
(* it is known what it means.                                                *)
THEOREM InterpreterTypeCorrect == Interpreter => []InterpreterTypeOK
<1>1. ASSUME InterpreterIInv, Leftovers PROVE InterpreterTypeOK
    <2>1. pool \in [cell : [Cell -> [type : {"none", "int", "string"}, num : MinInt..MaxInt, text : Texts,
                                     string : 0..(Cells + 1)]],
                    free : Seq(Cell), strings : SUBSET (1..(Cells + 1)), broken : {"none"} \cup Broke]
        BY <1>1 DEF InterpreterIInv, PoolOK, Pool, CellValue, Ints
    <2>2. \A i, j \in DOMAIN pool.free : pool.free[i] = pool.free[j] => i = j
        BY <1>1 DEF InterpreterIInv, PoolOK
    <2>3. /\ expression \in Expressions \cup {<<>>} /\ done \in 0..Len(expression)
          /\ stack \in Seq(Cell \cup {Null}) /\ Len(stack) = Len(meaning)
          /\ sound \in BOOLEAN /\ lost \subseteq Cell /\ evaluated \in 0..MaxExpressions
        BY <1>1 DEF InterpreterIInv, InterpreterStateType
    <2>4. leftover \in Nat /\ tokens \in Nat
        BY <1>1 DEF Leftovers
    <2>5. QED BY <2>1, <2>2, <2>3, <2>4 DEF InterpreterTypeOK
<1>2. QED BY <1>1, LeftoversHold, PTL

(* What an expression gives depends neither on what the cells of the pool    *)
(* held before nor on what became of its operands' cells.                    *)
THEOREM ResultsAreMeant == Interpreter => []ValueIsMeaning
<1>1. InterpreterIInv => ValueIsMeaning
    BY DEF InterpreterIInv, MeaningHolds, ValueIsMeaning
<1>2. QED BY <1>1, InterpreterInvariance, PTL

(* When no expression is evaluated every cell is free or one of those that   *)
(* nobody gives back, each string in a cell is in one of these, and there    *)
(* are no more strings outside the cells than TOKENs in the expressions.     *)
THEOREM NoOtherCellIsLost == Interpreter => []CellsComeBack
<1>1. ASSUME InterpreterIInv, Running, expression = <<>>
      PROVE  /\ ToSet(pool.free) = Cell \ lost
             /\ \A s \in pool.strings : \E c \in lost : pool.cell[c].string = s
    <2>1. /\ PoolOK(pool) /\ InterpreterStateType /\ FactsHold(Facts(expression)[done], pool, stack)
          /\ Parted(stack, lost, pool)
        BY <1>1 DEF InterpreterIInv
    <2>2. done = 0
        <3>1. done \in 0..Len(expression) /\ Len(<<>>) = 0
            BY <2>1 DEF InterpreterStateType
        <3>2. done \in 0..0
            BY <1>1, <3>1
        <3>3. QED BY <3>2
    <2>3. Facts(expression)[done] = <<>>
        <3>1. Len(<<>>) \in Nat
            OBVIOUS
        <3>2. QED BY <1>1, <2>2, <3>1, FactsDefined DEF Told
    <2>4. ToSet(stack) = {}
        <3>1. Len(stack) = 0 /\ stack \in Seq(Cell \cup {Null})
            BY <2>1, <2>3 DEF FactsHold, InterpreterStateType
        <3>2. QED BY <3>1 DEF ToSet
    <2>5. Free(pool) \subseteq Cell
        BY <2>1, FreeType
    <2>6. (\A c \in Cell : c \in Free(pool) \/ c \in lost) /\ lost \cap Free(pool) = {}
        BY <2>1, <2>4 DEF Parted
    <2>7. ToSet(pool.free) = Cell \ lost
        BY <2>5, <2>6 DEF Free
    <2>8. \A s \in pool.strings : \E c \in Cell : pool.cell[c].string = s /\ c \notin Free(pool)
        BY <2>1 DEF PoolOK
    <2>9. QED BY <2>6, <2>7, <2>8
<1>2. ASSUME InterpreterIInv, Leftovers, Running, expression = <<>> PROVE leftover <= tokens
    <2>1. /\ leftover \in Nat /\ tokens \in Nat /\ expression \in Seq(Node) /\ done \in Nat
          /\ leftover + TokensIn(expression, done) <= tokens
        BY <1>2 DEF Leftovers, InterpreterIInv, InterpreterStateType
    <2>2. TokensIn(expression, done) \in Nat
        BY <2>1, TokensCounted
    <2>3. QED BY <2>1, <2>2
<1>3. InterpreterIInv /\ Leftovers => CellsComeBack
    BY <1>1, <1>2 DEF CellsComeBack
<1>4. QED BY <1>3, LeftoversHold, PTL

(* As long as each expression gives its operators and functions what they    *)
(* rely on, no cell or string is used that is not there, nothing is given    *)
(* back twice, no division traps, and filling comes to an end.               *)
THEOREM SoundExpressionsAreSafe == Interpreter => []SoundIsSafe
<1>1. InterpreterIInv => SoundIsSafe
    BY DEF InterpreterIInv, SoundIsSafe
<1>2. QED BY <1>1, InterpreterInvariance, PTL

=============================================================================
