-------------------------- MODULE BodyViewProofs --------------------------
(***************************************************************************)
(* Proofs about BodyView, for any sessions and any number of unanswered    *)
(* commands: what the search of a body finds, over any bytes and with any  *)
(* sizes of buffers and steps, and what the viewer displays, in whatever   *)
(* order answers arrive.                                                   *)
(***************************************************************************)
EXTENDS BodyView, FiniteSetTheorems, SequenceTheorems, WellFoundedInduction, TLAPS

-----------------------------------------------------------------------------
(* Induction over numbers, stated for a set of good ones.                  *)

LEMMA LeastNumber ==
  ASSUME NEW M \in SUBSET Nat, M # {}
  PROVE  \E n \in M : \A m \in M : n <= m
  <1> DEFINE below == {0..(m - 1) : m \in M}
  <1>1. below \subseteq FiniteSubsetsOf(Nat) /\ below # {}
    <2>1. \A m \in M : 0..(m - 1) \in FiniteSubsetsOf(Nat)
      <3>1. \A m \in M : IsFiniteSet(0..(m - 1))
        BY FS_Interval
      <3> QED
        BY <3>1 DEF FiniteSubsetsOf
    <2> QED
      BY <2>1
  <1>2. PICK B \in below : \A C \in below : <<C, B>> \notin StrictSubsetOrdering(Nat)
    BY <1>1, FS_StrictSubsetOrderingWellFounded, WFMin
  <1>3. PICK n \in M : B = 0..(n - 1)
    OBVIOUS
  <1>4. ASSUME NEW m \in M, m < n PROVE FALSE
    <2>1. 0..(m - 1) \subseteq B /\ B \subseteq Nat /\ m \in B /\ m \notin 0..(m - 1)
      BY <1>3, <1>4
    <2>2. <<0..(m - 1), B>> \in StrictSubsetOrdering(Nat)
      BY <2>1 DEF StrictSubsetOrdering
    <2> QED
      BY <1>2, <2>2
  <1> QED
    BY <1>4

\* Strong induction, stated for a set of good numbers.
LEMMA NumbersInduction ==
  ASSUME NEW Good, \A n \in Nat : (\A m \in Nat : m < n => m \in Good) => n \in Good
  PROVE  \A n \in Nat : n \in Good
  <1> DEFINE bad == {n \in Nat : n \notin Good}
  <1> SUFFICES ASSUME bad # {} PROVE FALSE
    OBVIOUS
  <1>1. PICK n \in bad : \A m \in bad : n <= m
    BY LeastNumber
  <1>2. \A m \in Nat : m < n => m \in Good
    BY <1>1
  <1> QED
    BY <1>1, <1>2

\* The same along an interval.
LEMMA IntervalInduction ==
  ASSUME NEW a \in Nat, NEW b \in Nat, NEW Good, a \in Good,
         \A n \in a..(b - 1) : n \in Good => n + 1 \in Good
  PROVE  \A n \in a..b : n \in Good
  <1> DEFINE bad == {n \in a..b : n \notin Good}
  <1> SUFFICES ASSUME bad # {} PROVE FALSE
    OBVIOUS
  <1>1. PICK n \in bad : \A m \in bad : n <= m
    <2>1. bad \in SUBSET Nat
      OBVIOUS
    <2> HIDE DEF bad
    <2> QED
      BY <2>1, LeastNumber
  <1>2. n - 1 \in a..(b - 1) /\ n - 1 \notin bad /\ (n - 1) + 1 = n
    BY <1>1
  <1> QED
    BY <1>1, <1>2

-----------------------------------------------------------------------------
\* A byte, by a name that hides whether a text is a sequence.
At(text, i) == text[i]

IsKept(kept, word, prefix, n, byte) ==
  kept = [m \in 0..n |-> IF m > 0 /\ byte # At(word, m + 1) THEN kept[prefix[m]] ELSE m]

Kept(word, prefix, n, byte) == CHOOSE kept : IsKept(kept, word, prefix, n, byte)

LEMMA AdvanceIsOfKept ==
  ASSUME NEW word, NEW prefix, NEW n, NEW byte
  PROVE  LET k == Kept(word, prefix, n, byte)[n]
         IN  Advance(word, prefix, n, byte) = IF byte = At(word, k + 1) THEN k + 1 ELSE k
  BY Zenon DEF Advance, Kept, IsKept, At

LEMMA KeptExists ==
  ASSUME NEW word, NEW prefix, NEW n \in Nat, NEW byte,
         \A i \in 1..n : prefix[i] \in 0..(i - 1)
  PROVE  \E kept : IsKept(kept, word, prefix, n, byte)
  <1> DEFINE Good == {m \in 0..n : \E kept : IsKept(kept, word, prefix, m, byte)}
  <1>1. 0 \in Good
    <2>1. IsKept([m \in 0..0 |-> m], word, prefix, 0, byte)
      BY DEF IsKept
    <2> QED
      BY <2>1
  <1>2. ASSUME NEW m \in 0..(n - 1), m \in Good PROVE m + 1 \in Good
    <2>1. PICK kept : IsKept(kept, word, prefix, m, byte)
      BY <1>2
    <2> DEFINE next == [i \in 0..(m + 1) |->
                          IF i <= m THEN kept[i]
                          ELSE IF byte # At(word, i + 1) THEN kept[prefix[i]] ELSE i]
    <2>2. ASSUME NEW i \in 0..(m + 1)
          PROVE  next[i] = IF i > 0 /\ byte # At(word, i + 1) THEN next[prefix[i]] ELSE i
      <3>1. i > 0 => prefix[i] \in 0..m
        BY <1>2
      <3>2. CASE i <= m
        <4>1. i > 0 => prefix[i] \in 0..m
          BY <3>1
        <4> QED
          BY <2>1, <3>2, <4>1 DEF IsKept
      <3>3. CASE i = m + 1
        BY <3>1, <3>3
      <3> QED
        BY <3>2, <3>3
    <2>3. IsKept(next, word, prefix, m + 1, byte)
      BY <2>2 DEF IsKept
    <2> QED
      BY <1>2, <2>3
  <1>3. n \in Good
    <2> HIDE DEF Good
    <2>1. \A m \in 0..(n - 1) : m \in Good => m + 1 \in Good
      BY <1>2
    <2>2. \A m \in 0..n : m \in Good
      BY <1>1, <2>1, IntervalInduction
    <2> QED
      BY <2>2
  <1> QED
    BY <1>3

-----------------------------------------------------------------------------
(* What is matched: the longest beginning of the word that the bytes       *)
(* from..p-1 of a text end with.                                           *)

Ends(text, word, p, m) == \A i \in 1..m : At(text, p - m + i) = At(word, i)

Longest(text, word, from, p, m) ==
  /\ m \in 0..Len(word) /\ m <= p - from
  /\ Ends(text, word, p, m)
  /\ \A j \in (m + 1)..Len(word) : j <= p - from => ~Ends(text, word, p, j)

\* The first n entries of the table are the longest proper borders.
Borders(word, prefix, n) ==
  \A i \in 1..n : prefix[i] \in 0..(i - 1) /\ Longest(word, word, 1, i, prefix[i])

LEMMA EndsMore ==
  ASSUME NEW text, NEW word, NEW p \in Nat, NEW m \in Nat
  PROVE  Ends(text, word, p + 1, m + 1) <=>
           Ends(text, word, p, m) /\ At(text, p + 1) = At(word, m + 1)
  <1>1. \A i \in Int : (p + 1) - (m + 1) + i = p - m + i
    OBVIOUS
  <1>2. 1..(m + 1) = 1..m \cup {m + 1} /\ p - m + (m + 1) = p + 1
    OBVIOUS
  <1>3. Ends(text, word, p + 1, m + 1) <=> \A i \in 1..(m + 1) : At(text, p - m + i) = At(word, i)
    BY <1>1 DEF Ends
  <1> QED
    BY <1>2, <1>3 DEF Ends

\* A shorter end of the text is an end of the beginning it ends with.
LEMMA EndsWithin ==
  ASSUME NEW text, NEW word, NEW p \in Int, NEW m \in Nat, NEW j \in 0..m,
         Ends(text, word, p, m)
  PROVE  Ends(text, word, p, j) <=> Ends(word, word, m, j)
  <1>1. ASSUME NEW i \in 1..j PROVE At(text, p - j + i) = At(word, m - j + i)
    <2>1. m - j + i \in 1..m /\ p - m + (m - j + i) = p - j + i
      OBVIOUS
    <2> QED
      BY <2>1 DEF Ends
  <1> QED
    BY <1>1 DEF Ends

LEMMA AdvanceIsLongest ==
  ASSUME NEW text, NEW word \in Seq(Nat), NEW prefix, NEW from \in Nat, NEW p \in Nat,
         NEW m \in 0..(Len(word) - 1),
         Borders(word, prefix, m), Longest(text, word, from, p, m)
  PROVE  Longest(text, word, from, p + 1, Advance(word, prefix, m, At(text, p + 1)))
  <1> DEFINE byte == At(text, p + 1)
             L == Len(word)
             kept == Kept(word, prefix, m, byte)
             \* No longer end of the text goes on with the byte.
             Ending(n) == /\ Ends(text, word, p, n) /\ n <= p - from
                          /\ \A j \in (n + 1)..(L - 1) :
                               j <= p - from /\ Ends(text, word, p, j) => byte # At(word, j + 1)
             Good == {n \in Nat : n <= m /\ Ending(n) =>
                                    /\ kept[n] \in 0..n /\ Ending(kept[n])
                                    /\ kept[n] > 0 => byte = At(word, kept[n] + 1)}
  <1>1. L \in Nat /\ m \in 0..(L - 1)
    OBVIOUS
  <1>2. /\ \A i \in 1..m : prefix[i] \in 0..(i - 1) /\ Ends(word, word, i, prefix[i])
        /\ \A i \in 1..m : \A j \in (prefix[i] + 1)..(i - 1) : ~Ends(word, word, i, j)
    <2>1. ASSUME NEW i \in 1..m
          PROVE  /\ prefix[i] \in 0..(i - 1) /\ Ends(word, word, i, prefix[i])
                 /\ \A j \in (prefix[i] + 1)..(i - 1) : ~Ends(word, word, i, j)
      <3>1. prefix[i] \in 0..(i - 1) /\ Longest(word, word, 1, i, prefix[i])
        BY DEF Borders
      <3>2. ASSUME NEW j \in (prefix[i] + 1)..(i - 1) PROVE j \in (prefix[i] + 1)..L /\ j <= i - 1
        BY <1>1, <3>1
      <3> QED
        BY <3>1, <3>2 DEF Longest
    <2> QED
      BY <2>1
  <1>3. \A n \in 0..m : kept[n] = IF n > 0 /\ byte # At(word, n + 1) THEN kept[prefix[n]] ELSE n
    <2> HIDE DEF byte
    <2>1. \E f : IsKept(f, word, prefix, m, byte)
      <3>1. m \in Nat /\ \A i \in 1..m : prefix[i] \in 0..(i - 1)
        BY <1>1, <1>2
      <3> QED
        BY <3>1, KeptExists
    <2>2. IsKept(kept, word, prefix, m, byte)
      BY <2>1 DEF Kept
    <2> HIDE DEF kept, byte
    <2> QED
      BY <2>2 DEF IsKept
  <1>4. Ending(m)
    BY <1>1 DEF Longest
  <1> HIDE DEF kept, byte
  <1>5. ASSUME NEW n \in Nat, \A q \in Nat : q < n => q \in Good, n <= m, Ending(n)
        PROVE  /\ kept[n] \in 0..n /\ Ending(kept[n])
               /\ kept[n] > 0 => byte = At(word, kept[n] + 1)
    <2>1. CASE ~(n > 0 /\ byte # At(word, n + 1))
      <3>1. kept[n] = n
        BY <1>3, <1>5, <2>1
      <3> QED
        BY <1>5, <2>1, <3>1
    <2>2. CASE n > 0 /\ byte # At(word, n + 1)
      <3> DEFINE q == prefix[n]
      <3>1. /\ kept[n] = kept[q] /\ q \in 0..(n - 1) /\ Ends(word, word, n, q)
            /\ \A j \in (q + 1)..(n - 1) : ~Ends(word, word, n, j)
        <4>1. n \in 1..m
          BY <1>1, <1>5, <2>2
        <4> HIDE DEF Ending, Good
        <4> QED
          BY <1>2, <1>3, <2>2, <4>1
      <3> HIDE DEF q
      <3>2. Ends(text, word, p, q)
        BY <1>5, <3>1, EndsWithin
      <3>3. ASSUME NEW j \in (q + 1)..(L - 1), j <= p - from, Ends(text, word, p, j)
            PROVE  byte # At(word, j + 1)
        <4>1. CASE j < n
          <5>1. Ends(word, word, n, j)
            BY <1>5, <3>1, <3>3, <4>1, EndsWithin
          <5> QED
            BY <3>1, <4>1, <5>1
        <4>2. CASE j = n
          BY <2>2, <4>2
        <4>3. CASE j > n
          BY <1>5, <3>1, <3>3, <4>3
        <4> QED
          BY <1>5, <3>1, <4>1, <4>2, <4>3
      <3>4. Ending(q)
        BY <1>5, <3>1, <3>2, <3>3
      <3>5. q \in Good
        BY <1>5, <3>1
      <3> HIDE DEF Ending
      <3> QED
        BY <1>5, <3>1, <3>4, <3>5
    <2> QED
      BY <2>1, <2>2
  <1>6. m \in Good
    <2>1. \A n \in Nat : (\A q \in Nat : q < n => q \in Good) => n \in Good
      BY <1>5
    <2> HIDE DEF Good
    <2> QED
      BY <2>1, NumbersInduction
  <1> DEFINE k == kept[m]
  <1>7. k \in 0..m /\ Ending(k) /\ (k > 0 => byte = At(word, k + 1))
    BY <1>4, <1>6
  <1>8. Advance(word, prefix, m, byte) = IF byte = At(word, k + 1) THEN k + 1 ELSE k
    BY AdvanceIsOfKept DEF kept
  <1> HIDE DEF k, L
  <1> DEFINE One == \A q \in Nat : Ends(text, word, p + 1, q + 1) <=>
                                  Ends(text, word, p, q) /\ byte = At(word, q + 1)
  <1>11. One
    <2> SUFFICES ASSUME NEW q \in Nat
                 PROVE  Ends(text, word, p + 1, q + 1) <=>
                          Ends(text, word, p, q) /\ byte = At(word, q + 1)
      OBVIOUS
    <2> QED
      BY EndsMore DEF byte
  <1>9. CASE byte = At(word, k + 1)
    <2>1. Ends(text, word, p + 1, k + 1)
      <3>1. k \in Nat /\ Ends(text, word, p, k)
        BY <1>1, <1>7
      <3> QED
        BY <1>9, <3>1, <1>11
    <2>2. ASSUME NEW j \in (k + 2)..L, j <= p + 1 - from PROVE ~Ends(text, word, p + 1, j)
      <3>1. j - 1 \in (k + 1)..(L - 1) /\ j - 1 \in Nat /\ (j - 1) + 1 = j /\ j - 1 <= p - from
        BY <1>1, <1>7, <2>2
      <3>2. Ends(text, word, p, j - 1) => byte # At(word, j)
        BY <1>7, <3>1
      <3>3. Ends(text, word, p + 1, (j - 1) + 1) <=>
              Ends(text, word, p, j - 1) /\ byte = At(word, (j - 1) + 1)
        BY <3>1, <1>11
      <3> QED
        BY <3>1, <3>2, <3>3
    <2> QED
      BY <1>1, <1>7, <1>8, <1>9, <2>1, <2>2 DEF Longest, byte, L
  <1>10. CASE byte # At(word, k + 1)
    <2>1. k = 0 /\ Ends(text, word, p + 1, 0)
      BY <1>7, <1>10 DEF Ends
    <2>2. ASSUME NEW j \in 1..L, j <= p + 1 - from PROVE ~Ends(text, word, p + 1, j)
      <3>1. j - 1 \in Nat /\ (j - 1) + 1 = j /\ j - 1 <= p - from /\ j - 1 <= L - 1
        BY <1>1, <2>2
      <3>2. Ends(text, word, p, j - 1) => byte # At(word, j)
        <4>1. CASE j = 1
          BY <1>10, <2>1, <4>1
        <4>2. CASE j # 1
          BY <1>1, <1>7, <2>1, <3>1, <4>2
        <4> QED
          BY <4>1, <4>2
      <3>3. Ends(text, word, p + 1, (j - 1) + 1) <=>
              Ends(text, word, p, j - 1) /\ byte = At(word, (j - 1) + 1)
        BY <3>1, <1>11
      <3> QED
        BY <3>1, <3>2, <3>3
    <2> QED
      BY <1>1, <1>7, <1>8, <1>10, <2>1, <2>2 DEF Longest, byte, L
  <1> QED
    BY <1>9, <1>10

-----------------------------------------------------------------------------
(* The table: the scan of the word itself from its second byte on.       *)

NextTable(word, s, i) == Append(s, Advance(word, s, s[i - 1], word[i]))

IsTable(table, word, n) ==
  table = [i \in 1..n |-> IF i = 1 THEN <<0>> ELSE NextTable(word, table[i - 1], i)]

Table(word, n) == CHOOSE table : IsTable(table, word, n)

LEMMA PrefixIsOfTable ==
  ASSUME NEW word
  PROVE  Prefix(word) = Table(word, Len(word))[Len(word)]
  BY Zenon DEF Prefix, Table, IsTable, NextTable

LEMMA TableExists ==
  ASSUME NEW word, NEW n \in Nat, n > 0
  PROVE  \E table : IsTable(table, word, n)
  <1> DEFINE Good == {m \in 1..n : \E table : IsTable(table, word, m)}
  <1>1. 1 \in Good
    <2>1. IsTable([i \in 1..1 |-> <<0>>], word, 1)
      BY DEF IsTable
    <2> QED
      BY <2>1
  <1>2. ASSUME NEW m \in 1..(n - 1), m \in Good PROVE m + 1 \in Good
    <2>1. PICK table : IsTable(table, word, m)
      BY <1>2
    <2> DEFINE next == [i \in 1..(m + 1) |->
                          IF i <= m THEN table[i] ELSE NextTable(word, table[i - 1], i)]
    <2>2. ASSUME NEW i \in 1..(m + 1)
          PROVE  next[i] = IF i = 1 THEN <<0>> ELSE NextTable(word, next[i - 1], i)
      <3>1. i # 1 => i - 1 \in 1..m /\ next[i - 1] = table[i - 1]
        OBVIOUS
      <3>2. CASE i <= m
        BY <2>1, <3>1, <3>2 DEF IsTable
      <3>3. CASE i = m + 1
        BY <3>1, <3>3
      <3> QED
        BY <3>2, <3>3
    <2>3. IsTable(next, word, m + 1)
      BY <2>2 DEF IsTable
    <2> QED
      BY <1>2, <2>3
  <1>3. n \in Good
    <2> HIDE DEF Good
    <2>1. \A m \in 1..(n - 1) : m \in Good => m + 1 \in Good
      BY <1>2
    <2>2. \A m \in 1..n : m \in Good
      BY <1>1, <2>1, IntervalInduction
    <2> QED
      BY <2>2
  <1> QED
    BY <1>3

\* One more entry.
LEMMA NextTableIsRight ==
  ASSUME NEW word \in Seq(Nat), NEW i \in 1..(Len(word) - 1),
         NEW s \in Seq(Nat), Len(s) = i, Borders(word, s, i)
  PROVE  /\ NextTable(word, s, i + 1) \in Seq(Nat) /\ Len(NextTable(word, s, i + 1)) = i + 1
         /\ Borders(word, NextTable(word, s, i + 1), i + 1)
  <1> DEFINE m == s[i]
             new == Advance(word, s, m, At(word, i + 1))
             next == NextTable(word, s, i + 1)
  <1>1. i \in Nat /\ i + 1 <= Len(word) /\ Len(word) \in Nat
    OBVIOUS
  <1>2. m \in 0..(i - 1) /\ Longest(word, word, 1, i, m)
    BY DEF Borders
  <1>3. m \in 0..(Len(word) - 1) /\ Borders(word, s, m)
    <2> HIDE DEF m
    <2>1. m \in 0..(Len(word) - 1) /\ \A j \in 1..m : j \in 1..i
      BY <1>1, <1>2
    <2> QED
      BY <2>1 DEF Borders
  <1>4. Longest(word, word, 1, i + 1, new)
    <2> HIDE DEF m
    <2>1. 1 \in Nat /\ i \in Nat
      OBVIOUS
    <2> QED
      BY <1>2, <1>3, <2>1, AdvanceIsLongest
  <1>5. new \in 0..i
    <2> HIDE DEF new
    <2> QED
      BY <1>1, <1>4 DEF Longest
  <1>6. next = Append(s, new)
    <2>1. (i + 1) - 1 = i
      OBVIOUS
    <2> QED
      BY <2>1 DEF NextTable, At
  <1> HIDE DEF m, new, next
  <1>7. /\ next \in Seq(Nat) /\ Len(next) = i + 1 /\ next[i + 1] = new
        /\ \A j \in 1..i : next[j] = s[j]
    BY <1>5, <1>6
  <1>8. Borders(word, next, i + 1)
    <2> SUFFICES ASSUME NEW j \in 1..(i + 1)
                 PROVE  next[j] \in 0..(j - 1) /\ Longest(word, word, 1, j, next[j])
      BY DEF Borders
    <2>1. CASE j \in 1..i
      <3>1. next[j] = s[j]
        BY <1>7, <2>1
      <3>2. s[j] \in 0..(j - 1) /\ Longest(word, word, 1, j, s[j])
        BY <2>1 DEF Borders
      <3> QED
        BY <3>1, <3>2
    <2>2. CASE j = i + 1
      BY <1>4, <1>5, <1>7, <2>2
    <2> QED
      BY <2>1, <2>2
  <1> QED
    BY <1>7, <1>8 DEF next

\* prefix[i] is the longest proper border of the first i bytes.
LEMMA PrefixIsBorders ==
  ASSUME NEW word \in Seq(Nat), Len(word) > 0
  PROVE  Borders(word, Prefix(word), Len(word))
  <1> DEFINE L == Len(word)
             table == Table(word, L)
             IsRight(i) == /\ table[i] \in Seq(Nat) /\ Len(table[i]) = i
                           /\ Borders(word, table[i], i)
             Good == {i \in 1..L : IsRight(i)}
  <1>1. L \in Nat /\ L > 0
    OBVIOUS
  <1>2. IsTable(table, word, L)
    BY <1>1, TableExists DEF Table
  <1> HIDE DEF table
  <1>3. 1 \in Good
    <2>1. table[1] = <<0>>
      BY <1>1, <1>2 DEF IsTable
    <2>2. Longest(word, word, 1, 1, 0)
      BY DEF Longest, Ends
    <2>3. Borders(word, <<0>>, 1)
      BY <2>2 DEF Borders
    <2>4. IsRight(1)
      BY <2>1, <2>3
    <2> QED
      BY <1>1, <2>4
  <1>4. ASSUME NEW i \in 1..(L - 1), i \in Good PROVE i + 1 \in Good
    <2>1. i + 1 \in 1..L /\ i + 1 # 1 /\ (i + 1) - 1 = i
      BY <1>1
    <2>2. table[i + 1] = NextTable(word, table[i], i + 1)
      BY <1>2, <2>1 DEF IsTable
    <2>3. IsRight(i + 1)
      BY <1>4, <2>2, NextTableIsRight
    <2> QED
      BY <2>1, <2>3
  <1>5. L \in Good
    <2> HIDE DEF Good, L
    <2>1. \A i \in 1..(L - 1) : i \in Good => i + 1 \in Good
      BY <1>4
    <2>2. \A i \in 1..L : i \in Good
      BY <1>1, <1>3, <2>1, IntervalInduction
    <2> QED
      BY <1>1, <2>2
  <1> QED
    BY <1>5, PrefixIsOfTable DEF table

-----------------------------------------------------------------------------
(* One buffer.                                                             *)

NextRead(body, word, r, p) ==
  IF r.matched = Len(word) THEN r
  ELSE [position |-> p, matched |-> Advance(word, Prefix(word), r.matched, body[p])]

IsRead(reads, body, word, from, upto, matched) ==
  reads = [p \in from..upto |->
            IF p = from THEN [position |-> from, matched |-> matched]
            ELSE NextRead(body, word, reads[p - 1], p)]

ReadOf(body, word, from, upto, matched) ==
  CHOOSE reads : IsRead(reads, body, word, from, upto, matched)

LEMMA BufferIsOfRead ==
  ASSUME NEW body, NEW word, NEW from, NEW upto, NEW matched
  PROVE  Buffer(body, word, from, upto, matched) = ReadOf(body, word, from, upto, matched)[upto]
  BY Zenon DEF Buffer, ReadOf, IsRead, NextRead

LEMMA ReadExists ==
  ASSUME NEW body, NEW word, NEW from \in Nat, NEW upto \in Nat, from <= upto, NEW matched
  PROVE  \E reads : IsRead(reads, body, word, from, upto, matched)
  <1> DEFINE Good == {n \in from..upto : \E reads : IsRead(reads, body, word, from, n, matched)}
             begin == [position |-> from, matched |-> matched]
  <1>1. from \in Good
    <2>1. IsRead([p \in from..from |-> begin], body, word, from, from, matched)
      BY DEF IsRead
    <2> QED
      BY <2>1
  <1>2. ASSUME NEW n \in from..(upto - 1), n \in Good PROVE n + 1 \in Good
    <2>1. PICK reads : IsRead(reads, body, word, from, n, matched)
      BY <1>2
    <2> HIDE DEF begin
    <2> DEFINE next == [p \in from..(n + 1) |->
                          IF p <= n THEN reads[p] ELSE NextRead(body, word, reads[p - 1], p)]
    <2>2. ASSUME NEW p \in from..(n + 1)
          PROVE  next[p] = IF p = from THEN begin ELSE NextRead(body, word, next[p - 1], p)
      <3>1. p # from => p - 1 \in from..n /\ next[p - 1] = reads[p - 1]
        OBVIOUS
      <3>2. CASE p <= n
        BY <2>1, <3>1, <3>2 DEF IsRead, begin
      <3>3. CASE p = n + 1
        BY <3>1, <3>3
      <3> QED
        BY <3>2, <3>3
    <2>3. IsRead(next, body, word, from, n + 1, matched)
      BY <2>2 DEF IsRead, begin
    <2> QED
      BY <1>2, <2>3
  <1>3. upto \in Good
    <2> HIDE DEF Good
    <2>1. \A n \in from..(upto - 1) : n \in Good => n + 1 \in Good
      BY <1>2
    <2>2. \A n \in from..upto : n \in Good
      BY <1>1, <2>1, IntervalInduction
    <2> QED
      BY <2>2
  <1> QED
    BY <1>3

\* Where a scan that began at start may be: no match has ended before position,
\* and none at it unless the whole word is matched.
Passed(body, word, start, position, matched) ==
  /\ position \in start..Len(body)
  /\ Longest(body, word, start, position, matched)
  /\ \A p \in (start + Len(word))..(position - 1) : ~Ends(body, word, p, Len(word))

\* One byte.
LEMMA NextReadPasses ==
  ASSUME NEW body \in Seq(Nat), NEW word \in Seq(Nat), Len(word) > 0, NEW start \in Nat,
         NEW p \in Nat, p < Len(body),
         NEW r, r.position = p, r.matched # Len(word),
         Passed(body, word, start, r.position, r.matched)
  PROVE  LET next == NextRead(body, word, r, p + 1)
         IN  next.position = p + 1 /\ Passed(body, word, start, next.position, next.matched)
  <1> DEFINE m == r.matched
             L == Len(word)
             new == Advance(word, Prefix(word), m, At(body, p + 1))
  <1>1. L \in Nat /\ L > 0 /\ Len(body) \in Nat
    OBVIOUS
  <1>2. p \in start..Len(body) /\ m \in 0..(L - 1) /\ Longest(body, word, start, p, m)
    BY DEF Passed, Longest
  <1>3. Borders(word, Prefix(word), m)
    <2> HIDE DEF m
    <2>1. Borders(word, Prefix(word), L)
      BY PrefixIsBorders
    <2>2. \A i \in 1..m : i \in 1..L
      BY <1>1, <1>2
    <2> QED
      BY <2>1, <2>2 DEF Borders
  <1>4. Longest(body, word, start, p + 1, new)
    <2> HIDE DEF m
    <2> QED
      BY <1>2, <1>3, AdvanceIsLongest
  <1>5. NextRead(body, word, r, p + 1) = [position |-> p + 1, matched |-> new]
    BY DEF NextRead, At
  <1> HIDE DEF new, m
  <1>6. ASSUME NEW q \in (start + L)..p PROVE ~Ends(body, word, q, L)
    <2>1. CASE q = p
      BY <1>1, <1>2, <1>6, <2>1 DEF Longest, L
    <2>2. CASE q # p
      <3>1. q \in (start + L)..(p - 1)
        BY <1>1, <1>6, <2>2
      <3> QED
        BY <3>1 DEF Passed
    <2> QED
      BY <2>1, <2>2
  <1>7. p + 1 \in start..Len(body) /\ (p + 1) - 1 = p
    BY <1>1, <1>2
  <1> QED
    BY <1>4, <1>5, <1>6, <1>7 DEF Passed

LEMMA BufferPasses ==
  ASSUME NEW body \in Seq(Nat), NEW word \in Seq(Nat), Len(word) > 0, NEW start \in Nat,
         NEW from \in Nat, NEW upto \in Nat, from <= upto, upto <= Len(body),
         NEW matched, matched # Len(word), Passed(body, word, start, from, matched)
  PROVE  LET to == Buffer(body, word, from, upto, matched)
         IN  /\ Passed(body, word, start, to.position, to.matched)
             /\ to.position \in from..upto
             /\ to.matched = Len(word) \/ to.position = upto
  <1> DEFINE reads == ReadOf(body, word, from, upto, matched)
             IsRight(p) == /\ Passed(body, word, start, reads[p].position, reads[p].matched)
                           /\ reads[p].position \in from..p
                           /\ reads[p].matched = Len(word) \/ reads[p].position = p
             Good == {p \in from..upto : IsRight(p)}
  <1>1. IsRead(reads, body, word, from, upto, matched)
    BY ReadExists DEF ReadOf
  <1> HIDE DEF reads
  <1>2. from \in Good
    <2>1. reads[from] = [position |-> from, matched |-> matched]
      BY <1>1 DEF IsRead
    <2>2. IsRight(from)
      BY <2>1
    <2> QED
      BY <2>2
  <1>3. ASSUME NEW p \in from..(upto - 1), p \in Good PROVE p + 1 \in Good
    <2>1. p + 1 \in from..upto /\ p + 1 # from /\ (p + 1) - 1 = p
      BY <1>3
    <2>2. reads[p + 1] = NextRead(body, word, reads[p], p + 1)
      BY <1>1, <2>1 DEF IsRead
    <2>3. CASE reads[p].matched = Len(word)
      <3>1. reads[p + 1] = reads[p]
        BY <2>2, <2>3 DEF NextRead
      <3>2. Passed(body, word, start, reads[p].position, reads[p].matched)
            /\ reads[p].position \in from..p
        BY <1>3
      <3>3. reads[p].position \in from..(p + 1)
        BY <3>2
      <3>4. IsRight(p + 1)
        BY <2>3, <3>1, <3>2, <3>3
      <3> QED
        BY <2>1, <3>4
    <2>4. CASE reads[p].matched # Len(word)
      <3>1. reads[p].position = p /\ p \in Nat /\ p < Len(body)
        BY <1>3, <2>4
      <3>2. /\ reads[p + 1].position = p + 1
            /\ Passed(body, word, start, reads[p + 1].position, reads[p + 1].matched)
        BY <1>3, <2>2, <2>4, <3>1, NextReadPasses
      <3>3. IsRight(p + 1)
        BY <2>1, <3>2
      <3> QED
        BY <2>1, <3>3
    <2> QED
      BY <2>3, <2>4
  <1>4. upto \in Good
    <2> HIDE DEF Good
    <2>1. \A p \in from..(upto - 1) : p \in Good => p + 1 \in Good
      BY <1>3
    <2>2. \A p \in from..upto : p \in Good
      BY <1>2, <2>1, IntervalInduction
    <2> QED
      BY <2>2
  <1> QED
    BY <1>4, BufferIsOfRead DEF reads

-----------------------------------------------------------------------------
(* What a step answers.                                                    *)

LEMMA OccurrenceEnds ==
  ASSUME NEW body \in Seq(Nat), NEW word \in Seq(Nat), NEW o \in Nat,
         o + Len(word) <= Len(body)
  PROVE  SubSeq(body, o + 1, o + Len(word)) = word <=>
           Ends(body, word, o + Len(word), Len(word))
  <1> DEFINE L == Len(word)
             part == SubSeq(body, o + 1, o + L)
  <1>1. L \in Nat /\ Len(body) \in Nat /\ o + L <= Len(body)
    OBVIOUS
  <1>2. part \in Seq(Nat) /\ Len(part) = L /\ \A i \in 1..L : part[i] = body[o + i]
    <2>1. \A i \in (o + 1)..(o + L) : body[i] \in Nat
      BY <1>1
    <2>2. /\ part \in Seq(Nat)
          /\ Len(part) = IF o + 1 <= o + L THEN (o + L) - (o + 1) + 1 ELSE 0
          /\ \A i \in 1..((o + L) - (o + 1) + 1) : part[i] = body[(o + 1) + i - 1]
      BY <1>1, <2>1, SubSeqProperties
    <2> HIDE DEF part, L
    <2> QED
      BY <1>1, <2>2
  <1>3. part = word <=> \A i \in 1..L : part[i] = word[i]
    <2> HIDE DEF part
    <2>1. ASSUME \A i \in 1..L : part[i] = word[i] PROVE part = word
      BY <1>2, <2>1, SeqEqual
    <2> QED
      BY <2>1
  <1>4. \A i \in 1..L : (o + L) - L + i = o + i
    BY <1>1
  <1>5. Ends(body, word, o + L, L) <=> \A i \in 1..L : body[o + i] = word[i]
    BY <1>4 DEF Ends, At
  <1> HIDE DEF part, L
  <1>6. part = word <=> Ends(body, word, o + L, L)
    BY <1>2, <1>3, <1>5
  <1> QED
    BY <1>6 DEF part, L

\* No match that ends in the range starts before cursor.
Barren(body, word, start, cursor, end) ==
  \A o \in start..(cursor - 1) :
    o + Len(word) <= end => ~Ends(body, word, o + Len(word), Len(word))

LEMMA OccurrencesAre ==
  ASSUME NEW body \in Seq(Nat), NEW word \in Seq(Nat), NEW start \in Nat, NEW end \in 0..Len(body)
  PROVE  Occurrences(body, word, start, end) =
           {o \in start..(end - Len(word)) : Ends(body, word, o + Len(word), Len(word))}
  <1>1. ASSUME NEW o \in start..(end - Len(word))
        PROVE  o \in Nat /\ o + Len(word) <= Len(body)
    <2>1. Len(word) \in Nat /\ Len(body) \in Nat
      OBVIOUS
    <2> QED
      BY <2>1
  <1>2. ASSUME NEW o \in start..(end - Len(word))
        PROVE  SubSeq(body, o + 1, o + Len(word)) = word <=>
                 Ends(body, word, o + Len(word), Len(word))
    BY <1>1, OccurrenceEnds
  <1> QED
    BY <1>2 DEF Occurrences

LEMMA FoundIsFirst ==
  ASSUME NEW body \in Seq(Nat), NEW word \in Seq(Nat), Len(word) > 0,
         NEW start \in Nat, NEW cursor \in Nat, start <= cursor, NEW end \in 0..Len(body),
         Barren(body, word, start, cursor, end),
         NEW position \in Nat, position <= end,
         NEW matched, matched = Len(word), Passed(body, word, cursor, position, matched)
  PROVE  /\ position - Len(word) \in Occurrences(body, word, start, end)
         /\ \A o \in Occurrences(body, word, start, end) : o \in Int /\ position - Len(word) <= o
  <1> DEFINE L == Len(word)
             all == Occurrences(body, word, start, end)
             first == position - L
  <1>1. L \in Nat /\ L > 0 /\ Len(body) \in Nat
    OBVIOUS
  <1>2. /\ L <= position - cursor /\ Ends(body, word, position, L)
        /\ \A p \in (cursor + L)..(position - 1) : ~Ends(body, word, p, L)
    BY DEF Passed, Longest
  <1>3. all = {o \in start..(end - L) : Ends(body, word, o + L, L)}
    BY OccurrencesAre
  <1>4. \A o \in start..(cursor - 1) : o + L <= end => ~Ends(body, word, o + L, L)
    BY DEF Barren
  <1> HIDE DEF L, all
  <1>5. first \in all
    <2>1. first \in start..(end - L) /\ first + L = position
      BY <1>1, <1>2
    <2> QED
      BY <1>2, <1>3, <2>1
  <1>6. ASSUME NEW o \in all PROVE first <= o
    <2>1. o \in start..(end - L) /\ Ends(body, word, o + L, L)
      BY <1>3
    <2>2. o \notin start..(cursor - 1)
      BY <1>1, <1>4, <2>1
    <2>3. o + L \notin (cursor + L)..(position - 1)
      BY <1>2, <2>1
    <2> QED
      BY <1>1, <2>1, <2>2, <2>3
  <1>7. \A o \in all : o \in Int
    BY <1>3
  <1> QED
    BY <1>5, <1>6, <1>7 DEF all, L

LEMMA DoneIsNone ==
  ASSUME NEW body \in Seq(Nat), NEW word \in Seq(Nat),
         NEW start \in Nat, NEW cursor \in Nat, start <= cursor, NEW end \in 0..Len(body),
         Barren(body, word, start, cursor, end),
         NEW matched, matched # Len(word), Passed(body, word, cursor, end, matched)
  PROVE  FirstOccurrence(body, word, start, end) = None
  <1> DEFINE L == Len(word)
             all == Occurrences(body, word, start, end)
  <1>1. L \in Nat /\ Len(body) \in Nat
    OBVIOUS
  <1>2. all = {o \in start..(end - L) : Ends(body, word, o + L, L)}
    BY OccurrencesAre
  <1>3. \A o \in start..(cursor - 1) : o + L <= end => ~Ends(body, word, o + L, L)
    BY DEF Barren
  <1>4. /\ matched \in 0..(L - 1)
        /\ \A j \in (matched + 1)..L : j <= end - cursor => ~Ends(body, word, end, j)
        /\ \A p \in (cursor + L)..(end - 1) : ~Ends(body, word, p, L)
    BY DEF Passed, Longest
  <1> HIDE DEF L, all
  <1>5. ASSUME NEW o \in start..(end - L) PROVE ~Ends(body, word, o + L, L)
    <2>1. CASE o < cursor
      <3>1. o \in start..(cursor - 1) /\ o + L <= end
        BY <1>1, <2>1
      <3> QED
        BY <1>3, <3>1
    <2>2. CASE o >= cursor /\ o + L = end
      <3>1. L \in (matched + 1)..L /\ L <= end - cursor
        BY <1>1, <1>4, <2>2
      <3> QED
        BY <1>4, <2>2, <3>1
    <2>3. CASE o >= cursor /\ o + L # end
      <3>1. o + L \in (cursor + L)..(end - 1)
        BY <1>1, <2>3
      <3> QED
        BY <1>4, <3>1
    <2> QED
      BY <2>1, <2>2, <2>3
  <1> QED
    BY <1>2, <1>5 DEF FirstOccurrence, all

LEMMA ResumeMissesNone ==
  ASSUME NEW body \in Seq(Nat), NEW word \in Seq(Nat),
         NEW start \in Nat, NEW cursor \in Nat, start <= cursor, NEW end \in 0..Len(body),
         Barren(body, word, start, cursor, end),
         NEW position \in Nat, position <= end,
         NEW matched, matched # Len(word), Passed(body, word, cursor, position, matched)
  PROVE  /\ Resume(position, matched) \in cursor..end
         /\ Barren(body, word, start, Resume(position, matched), end)
  <1> DEFINE L == Len(word)
             next == position - matched
  <1>1. L \in Nat /\ Len(body) \in Nat
    OBVIOUS
  <1>2. \A o \in start..(cursor - 1) : o + L <= end => ~Ends(body, word, o + L, L)
    BY DEF Barren
  <1>3. /\ matched \in 0..(L - 1) /\ matched <= position - cursor /\ cursor <= position
        /\ \A j \in (matched + 1)..L : j <= position - cursor => ~Ends(body, word, position, j)
        /\ \A p \in (cursor + L)..(position - 1) : ~Ends(body, word, p, L)
    BY DEF Passed, Longest
  <1> HIDE DEF L
  <1>4. next \in cursor..end
    BY <1>1, <1>3
  <1>5. ASSUME NEW o \in start..(next - 1), o + L <= end PROVE ~Ends(body, word, o + L, L)
    <2>1. CASE o < cursor
      BY <1>1, <1>2, <1>5, <2>1
    <2>2. CASE o >= cursor /\ o + L < position
      BY <1>1, <1>3, <1>5, <2>2
    \* What is matched of it ends the bytes that were reads.
    <2>3. CASE o >= cursor /\ o + L >= position
      <3> DEFINE j == position - o
      <3>1. j \in (matched + 1)..L /\ j <= position - cursor /\ j \in Nat
        BY <1>1, <1>3, <1>4, <1>5, <2>3
      <3>2. ~Ends(body, word, position, j)
        BY <1>3, <3>1
      <3>3. PICK i \in 1..j : At(body, position - j + i) # At(word, i)
        BY <3>2 DEF Ends
      <3>4. i \in 1..L /\ position - j + i = (o + L) - L + i
        BY <1>1, <1>5, <3>1, <3>3
      <3> QED
        BY <3>3, <3>4 DEF Ends
    <2> QED
      BY <1>1, <1>3, <1>5, <2>1, <2>2, <2>3
  <1> QED
    BY <1>4, <1>5 DEF Resume, Barren, L

-----------------------------------------------------------------------------
(* The page on display.                                                    *)

Fields == {"at", "alive", "offset", "answer"}

\* Where a command may be while o is on display and the entry has n bytes.
Right(r, o, n) ==
  /\ DOMAIN r = Fields
  /\ r.alive \in BOOLEAN
  /\ r.alive /\ r.at # "idle" => r.offset = o
  /\ r.at = "answered" /\ r.answer # Nothing =>
       r.answer.offset = r.offset /\ r.answer.total \in Nat /\ r.answer.total <= n

\* A command whose effect is alive is about the offset on display; an answer is
\* about what was asked and no longer than the entry has become; one effect is
\* alive at a time, and a read that is due is its next one.
Course ==
  /\ session \in Sessions /\ total \in Nat
  /\ pending \in BOOLEAN /\ finished \in BOOLEAN /\ timer \in BOOLEAN
  /\ read = [q \in Reads |-> read[q]]
  /\ \A q \in Reads : Right(read[q], offset, total)
  /\ \A q, p \in Reads : read[q].alive /\ read[p].alive => q = p
  /\ timer => \E q \in Reads : read[q].alive /\ read[q].at = "idle"
  /\ page # Nothing => page.offset = offset /\ page.total \in Nat /\ page.total <= total

LEMMA AskedIsRight ==
  ASSUME NEW o, NEW n
  PROVE  Right(Asked(o), o, n) /\ Asked(o).alive
  <1>1. DOMAIN Asked(o) = Fields
    BY DEF Asked, NoRead, Fields
  <1>2. Asked(o).at = "asked" /\ Asked(o).alive = TRUE /\ Asked(o).offset = o
    BY DEF Asked, NoRead
  <1> QED
    BY <1>1, <1>2 DEF Right

LEMMA CleanedIsRight ==
  ASSUME NEW o, NEW n, NEW p, NEW r, Right(r, p, n)
  PROVE  Right(Cleaned(r), o, n) /\ ~Cleaned(r).alive /\ Cleaned(r).at = r.at
  <1>1. DOMAIN r = Fields
    BY DEF Right
  <1>2. DOMAIN Cleaned(r) = Fields
    BY <1>1 DEF Cleaned, Fields
  <1>3. /\ Cleaned(r).at = r.at /\ Cleaned(r).alive = FALSE
        /\ Cleaned(r).offset = r.offset /\ Cleaned(r).answer = r.answer
    BY <1>1 DEF Cleaned, Fields
  <1> QED
    BY <1>2, <1>3 DEF Right

LEMMA NoReadIsRight ==
  ASSUME NEW o, NEW n
  PROVE  Right(NoRead, o, n) /\ ~NoRead.alive
  BY DEF Right, NoRead, Fields

\* The entry grows.
LEMMA RightGrows ==
  ASSUME NEW o, NEW n \in Nat, NEW m \in Nat, n <= m, NEW r, Right(r, o, n)
  PROVE  Right(r, o, m)
  BY DEF Right

LEMMA CourseInit == Init => Course
  <1> SUFFICES ASSUME Init PROVE Course
    OBVIOUS
  <1>1. /\ session \in Sessions /\ total \in Nat
        /\ pending \in BOOLEAN /\ finished \in BOOLEAN
        /\ timer = FALSE /\ page = Nothing /\ offset = 0
    BY SessionsAssumption DEF Init
  <1>2. read = [q \in Reads |-> IF q = 1 THEN Asked(0) ELSE NoRead]
    BY DEF Init
  <1>3. \A q \in Reads : Right(read[q], offset, total) /\ (read[q].alive => q = 1)
    BY <1>1, <1>2, AskedIsRight, NoReadIsRight
  <1> QED
    BY <1>1, <1>2, <1>3 DEF Course

\* An effect is run again: whatever was under way is cleaned up.
LEMMA CourseEffect ==
  ASSUME Course, NEW o, offset' = o, Effect(o),
         UNCHANGED <<session, total, finished>>, pending' \in BOOLEAN
  PROVE  Course'
  <1> DEFINE first == Min(Idle)
  <1>1. /\ read' = [q \in Reads |-> IF q = first THEN Asked(o) ELSE Cleaned(read[q])]
        /\ timer' = FALSE /\ page' = Nothing
    BY DEF Effect
  <1> HIDE DEF first
  <1>2. \A q \in Reads : Right(read'[q], o, total) /\ (read'[q].alive => q = first)
    BY <1>1, AskedIsRight, CleanedIsRight DEF Course
  <1> QED
    BY <1>1, <1>2 DEF Course

LEMMA CourseStep == Course /\ [Next]_vars => Course'
  <1> SUFFICES ASSUME Course, [Next]_vars PROVE Course'
    OBVIOUS
  <1> USE DEF store, finder, pages
  \* Nothing the viewer displays or waits for changes.
  <1>1. ASSUME UNCHANGED <<session, total, finished, pending, offset, page, timer, read>>
        PROVE  Course'
    BY <1>1 DEF Course
  <1>2. CASE Record \/ End \/ Remove
    BY <1>1, <1>2 DEF Record, End, Remove
  <1>3. CASE Finish
    BY <1>3 DEF Finish, Course
  <1>4. CASE Write
    <2>1. total' \in Nat /\ total < total'
      BY <1>4, SessionsAssumption DEF Write, Course
    <2> QED
      BY <1>4, <2>1, RightGrows DEF Write, Course
  <1>5. CASE Navigate
    <2>1. PICK o \in session.jumps : o # offset /\ Go(o)
      BY <1>5 DEF Navigate
    <2> QED
      BY <1>5, <2>1, CourseEffect DEF Navigate, Go, Course
  <1>6. CASE Settled
    BY <1>6, CourseEffect DEF Settled, Course
  <1>7. CASE Type \/ FindFromStart \/ FindNext \/ CancelSearch
    BY <1>1, <1>7 DEF Type, FindFromStart, FindNext, Begin, CancelSearch
  <1>8. CASE Unmount
    <2>1. \A q \in Reads : Right(read'[q], 0, total) /\ ~read'[q].alive
      BY <1>8, CleanedIsRight DEF Unmount, Course
    <2> QED
      BY <1>8, <2>1 DEF Unmount, Course
  <1>9. ASSUME NEW q \in Reads, ServePage(q) PROVE Course'
    <2> DEFINE answer == IF Readable(read[q].offset) THEN PageOf(read[q].offset) ELSE Nothing
    <2>1. /\ UNCHANGED <<session, total, finished, pending, offset, page, timer>>
          /\ read[q].at = "asked"
          /\ read' = [read EXCEPT ![q].at = "answered", ![q].answer = answer]
      BY <1>9 DEF ServePage
    <2>2. answer # Nothing => answer.offset = read[q].offset /\ answer.total = total
      BY DEF PageOf
    <2> HIDE DEF answer
    <2>3. DOMAIN read[q] = Fields /\ Right(read[q], offset, total) /\ total \in Nat
      BY DEF Course, Right
    <2>4. /\ DOMAIN read'[q] = Fields /\ read'[q].at = "answered" /\ read'[q].answer = answer
          /\ read'[q].alive = read[q].alive /\ read'[q].offset = read[q].offset
          /\ \A p \in Reads \ {q} : read'[p] = read[p]
          /\ read' = [p \in Reads |-> read'[p]]
      BY <2>1, <2>3 DEF Course, Fields
    <2>5. Right(read'[q], offset, total)
      BY <2>1, <2>2, <2>3, <2>4 DEF Right
    <2> QED
      BY <2>1, <2>4, <2>5 DEF Course
  <1>10. ASSUME NEW q \in Reads, TakePage(q) PROVE Course'
    <2>1. /\ UNCHANGED <<session, total, finished, pending, offset>>
          /\ read[q].at = "answered"
          /\ read' = [read EXCEPT ![q] = [NoRead EXCEPT !.alive = read[q].alive]]
      BY <1>10 DEF TakePage
    <2>2. Right(read[q], offset, total) /\ read[q].alive \in BOOLEAN
      BY DEF Course, Right
    <2>3. /\ DOMAIN read'[q] = Fields /\ read'[q].at = "idle" /\ read'[q].alive = read[q].alive
          /\ \A p \in Reads \ {q} : read'[p] = read[p]
          /\ read' = [p \in Reads |-> read'[p]]
      BY <2>1 DEF Course, NoRead, Fields
    <2>4. \A p \in Reads : Right(read'[p], offset, total) /\ read'[p].alive = read[p].alive
      BY <2>2, <2>3 DEF Course, Right
    <2>5. CASE read[q].alive
      <3>1. /\ page' = IF read[q].answer = Nothing THEN page ELSE read[q].answer
            /\ timer' \in BOOLEAN
        BY <1>10, <2>5 DEF TakePage, Again, Course
      <3>2. page' # Nothing => page'.offset = offset /\ page'.total \in Nat /\ page'.total <= total
        BY <2>1, <2>2, <2>5, <3>1 DEF Course, Right
      <3> QED
        BY <2>1, <2>3, <2>4, <2>5, <3>1, <3>2 DEF Course
    <2>6. CASE ~read[q].alive
      <3>1. UNCHANGED <<page, timer>>
        BY <1>10, <2>6 DEF TakePage
      <3> QED
        BY <2>1, <2>3, <2>4, <2>6, <3>1 DEF Course
    <2> QED
      BY <2>5, <2>6
  <1>11. ASSUME NEW q \in Reads, Tick(q) PROVE Course'
    <2>1. /\ UNCHANGED <<session, total, finished, pending, offset, page>> /\ timer' = FALSE
          /\ read[q].alive
          /\ read' = [read EXCEPT ![q] = Asked(offset)]
      BY <1>11 DEF Tick
    <2>2. \A p \in Reads : Right(read'[p], offset, total) /\ (read'[p].alive => read[p].alive)
      BY <2>1, AskedIsRight DEF Course
    <2> QED
      BY <2>1, <2>2 DEF Course
  <1>12. ASSUME NEW k \in Searches,
                Freeze(k) \/ TakeFrozen(k) \/ StartScan(k) \/ ScanBuffer(k) \/ TakeError(k)
         PROVE  Course'
    BY <1>1, <1>12 DEF Freeze, TakeFrozen, StartScan, ScanBuffer, TakeError
  <1>13. ASSUME NEW k \in Searches, TakeAnswer(k) PROVE Course'
    <2>1. UNCHANGED <<session, total, finished, pending>>
          /\ \/ UNCHANGED <<offset, pages>>
             \/ Go(search[k].answer.found)
      BY <1>13 DEF TakeAnswer
    <2>2. CASE UNCHANGED <<offset, pages>>
      BY <1>1, <2>1, <2>2
    <2>3. CASE Go(search[k].answer.found)
      BY <1>1, <2>1, <2>3, CourseEffect DEF Go, Course
    <2> QED
      BY <2>1, <2>2, <2>3
  <1>14. CASE UNCHANGED vars
    BY <1>1, <1>14 DEF vars
  <1> QED
    BY <1>2, <1>3, <1>4, <1>5, <1>6, <1>7, <1>8, <1>9, <1>10, <1>11, <1>12, <1>13, <1>14 DEF Next

(* A page on display is the one of the offset, and at most one read is     *)
(* under way or due for it, however late the answers of earlier effects    *)
(* arrive and however often go, the end of the exchange or a match run the *)
(* effect again: its cleanup is what keeps their answers out.              *)
THEOREM PageIsOfOffsetAlways == Spec => []PageIsOfOffset
  <1>1. Course => PageIsOfOffset
    BY DEF Course, PageIsOfOffset
  <1> QED
    BY CourseInit, CourseStep, <1>1, PTL DEF Spec

-----------------------------------------------------------------------------
(* The searches of a session.                                              *)

Parts == {"at", "run", "needle", "start", "end", "cursor", "position", "matched", "answer"}

Active == {"freezing", "frozen", "asked", "scanning", "answered", "refused"}

\* What an answer says is so, of the range that was frozen.
Answers(s, text) ==
  LET first == FirstOccurrence(text, s.needle, s.start, s.end)
      a == s.answer
  IN \/ a.found # None /\ a.found = first /\ first \in Occurrences(text, s.needle, s.start, s.end)
     \/ a.found = None /\ a.done /\ first = None
     \/ /\ a.found = None /\ ~a.done
        /\ a.next \in Nat /\ s.start <= a.next /\ Barren(text, s.needle, s.start, a.next, s.end)

\* A search in a session with n bytes recorded: no match in its range starts
\* before its cursor, nor has one ended where its step is.
Sound(s, c, n) ==
  /\ DOMAIN s = Parts /\ s.run \in Nat
  /\ s.at \in Active =>
       /\ s.run # 0 /\ s.needle \in c.needles
       /\ s.start \in Nat /\ s.cursor \in Nat /\ s.start <= s.cursor
  /\ s.at = "freezing" => s.cursor = s.start
  /\ s.at \in {"frozen", "asked", "scanning", "answered"} =>
       s.end \in 0..n /\ Barren(c.content, s.needle, s.start, s.cursor, s.end)
  /\ s.at = "scanning" =>
       /\ s.cursor <= s.end /\ s.position \in Nat /\ s.position <= Stop(s.cursor, s.end)
       /\ s.matched # Len(s.needle)
       /\ Passed(c.content, s.needle, s.cursor, s.position, s.matched)
  /\ s.at = "answered" => Answers(s, c.content)

\* Searches are sound and no two have the same number.
Known ==
  /\ session \in Sessions /\ total \in 0..Len(content) /\ run \in Nat
  /\ search = [k \in Searches |-> search[k]]
  /\ \A k \in Searches : Sound(search[k], session, total) /\ search[k].run <= run
  /\ \A k, l \in Searches : search[k].run = search[l].run /\ search[k].run # 0 => k = l

\* The newest search is for what is typed while it is active, and what is said
\* of it once it is over is so; a found offset is a match of what is typed.
Told(said, shown, text, word, s) ==
  LET first == FirstOccurrence(text, word, s.start, s.end)
  IN IF said = "match" THEN first # None /\ shown = first ELSE first = None

Ours ==
  \A k \in Searches : Current(k) /\ search[k].at \in Active =>
    searching /\ needle = search[k].needle

Saying ==
  message \in {"match", "no match"} =>
    \E k \in Searches : /\ search[k].run = run /\ run # 0 /\ search[k].at = "over"
                        /\ Told(message, found, content, needle, search[k])

Shown ==
  /\ needle # Nothing => needle \in session.needles
  /\ found # None => needle \in session.needles /\ found \in Occurrences(content, needle, 0, total)
  /\ Ours /\ Saying

Seek == Known /\ (mounted => Shown)

LEMMA SeekInit == Init => Seek
  <1> SUFFICES ASSUME Init PROVE Seek
    OBVIOUS
  <1>1. Sound(NoSearch, session, total) /\ NoSearch.run = 0 /\ NoSearch.at = "none"
    BY DEF NoSearch, Sound, Parts, Active
  <1>2. /\ session \in Sessions /\ total = session.total /\ run = 0
        /\ search = [k \in Searches |-> NoSearch]
        /\ needle = Nothing /\ found = None /\ message = "none"
    BY DEF Init
  <1>3. total \in 0..Len(content)
    BY <1>2, SessionsAssumption DEF content
  <1>4. Known
    BY <1>1, <1>2, <1>3 DEF Known
  <1>5. Shown
    BY <1>1, <1>2 DEF Shown, Ours, Saying, Active
  <1> QED
    BY <1>4, <1>5 DEF Seek

LEMMA SeekIsRight == Seek => SearchIsRight
  <1> SUFFICES ASSUME Known, Shown PROVE SearchIsRight
    BY DEF Seek, SearchIsRight
  <1>1. ASSUME message \in {"match", "no match"} PROVE Told(message, found, content, needle, Newest)
    <2>1. PICK k \in Searches : /\ search[k].run = run /\ run # 0
                                /\ Told(message, found, content, needle, search[k])
      BY <1>1 DEF Shown, Saying
    <2>2. \A l \in Searches : search[l].run = run => l = k
      BY <2>1 DEF Known
    <2>3. (CHOOSE l \in Searches : search[l].run = run) = k
      BY <2>1, <2>2
    <2> QED
      BY <2>1, <2>3 DEF Newest
  <1> QED
    BY <1>1 DEF Shown, SearchIsRight, Told

\* What the assumption on sessions says of the one that is open.
LEMMA SessionIs ==
  ASSUME Known
  PROVE  /\ content \in Seq(Nat) /\ total \in 0..Len(content) /\ Len(content) \in Nat
         /\ \A n \in session.needles : n \in Seq(Nat) /\ Len(n) > 0
  BY SessionsAssumption, ScanAssumption DEF Known, content

\* The entry grows.
LEMMA SoundGrows ==
  ASSUME NEW c, NEW n \in Nat, NEW m \in Nat, n <= m, NEW s, Sound(s, c, n)
  PROVE  Sound(s, c, m)
  BY DEF Sound

\* One search changes and keeps its number, or loses it.
LEMMA KnownStep ==
  ASSUME Known, NEW k \in Searches, NEW new, Sound(new, session, total),
         new.run \in {0, search[k].run},
         search' = [search EXCEPT ![k] = new], UNCHANGED <<session, total, run>>
  PROVE  Known'
  <1>1. /\ search' = [l \in Searches |-> search'[l]] /\ search'[k] = new
        /\ \A l \in Searches \ {k} : search'[l] = search[l]
    BY DEF Known
  <1>2. \A l \in Searches :
          Sound(search'[l], session, total) /\ search'[l].run \in {0, search[l].run}
    BY <1>1 DEF Known
  <1>3. \A l \in Searches : search[l].run <= run /\ search[l].run \in Nat
    BY DEF Known, Sound
  <1>4. run \in Nat /\ \A l \in Searches : search'[l].run <= run
    BY <1>2, <1>3 DEF Known
  <1>5. \A l, j \in Searches : search'[l].run = search'[j].run /\ search'[l].run # 0 => l = j
    BY <1>2 DEF Known
  <1> QED
    BY <1>1, <1>2, <1>4, <1>5 DEF Known, content

\* What is said of a search is kept while others go on.
LEMMA ToldStays ==
  ASSUME Known, Shown, NEW k \in Searches, search[k].at \in Active,
         NEW new, search' = [search EXCEPT ![k] = new],
         UNCHANGED <<session, needle, found, message, run>>
  PROVE  Saying'
  <1> SUFFICES ASSUME message \in {"match", "no match"}
               PROVE  \E l \in Searches :
                        /\ search'[l].run = run' /\ run' # 0 /\ search'[l].at = "over"
                        /\ Told(message', found', content, needle, search'[l])
    BY DEF Saying, content
  <1>1. PICK l \in Searches : /\ search[l].run = run /\ run # 0 /\ search[l].at = "over"
                              /\ Told(message, found, content, needle, search[l])
    BY DEF Shown, Saying
  <1>2. l # k
    BY <1>1 DEF Active
  <1>3. search'[l] = search[l]
    BY <1>2 DEF Known
  <1>4. Told(message', found', content, needle, search[l])
    BY <1>1
  <1> QED
    BY <1>1, <1>3, <1>4

\* An active search goes on.
LEMMA Continues ==
  ASSUME Seek, NEW k \in Searches, search[k].at \in Active,
         NEW new, Sound(new, session, total),
         new.run = search[k].run, new.needle = search[k].needle,
         search' = [search EXCEPT ![k] = new],
         UNCHANGED <<session, total, mounted, needle, found, searching, run>>,
         message' = message \/ message' \notin {"match", "no match"}
  PROVE  Seek'
  <1>1. Known /\ Known'
    BY KnownStep DEF Seek
  <1> SUFFICES ASSUME mounted, Shown PROVE Shown'
    BY <1>1 DEF Seek
  <1>2. /\ search'[k] = new /\ \A l \in Searches \ {k} : search'[l] = search[l]
    BY <1>1 DEF Known
  <1>3. Ours'
    BY <1>2 DEF Shown, Ours, Current
  <1>4. Saying'
    <2>1. CASE message' = message
      BY <1>1, <2>1, ToldStays
    <2>2. CASE message' \notin {"match", "no match"}
      BY <2>2 DEF Saying
    <2> QED
      BY <2>1, <2>2
  <1> QED
    BY <1>3, <1>4 DEF Shown, content

\* What a search leaves when it is over.
LEMMA OverIs ==
  ASSUME Known, NEW k \in Searches, Over(k)
  PROVE  \E new : /\ search' = [search EXCEPT ![k] = new] /\ Sound(new, session, total)
                  /\ new.at = "over"
                  /\ Current(k) => /\ new.run = run /\ new.run = search[k].run
                                   /\ new.start = search[k].start /\ new.end = search[k].end
                  /\ ~Current(k) => new.run = 0
  <1>1. search[k].run = run <=> run = search[k].run
    OBVIOUS
  <1>2. CASE Current(k)
    <2> DEFINE new == [NoSearch EXCEPT !.at = "over", !.run = run,
                         !.start = search[k].start, !.end = search[k].end]
    <2>1. /\ DOMAIN new = Parts /\ new.at = "over" /\ new.run = run
          /\ new.start = search[k].start /\ new.end = search[k].end
      BY DEF NoSearch, Parts
    <2>2. search' = [search EXCEPT ![k] = new]
      BY <1>2 DEF Over
    <2> HIDE DEF new
    <2>3. Sound(new, session, total)
      BY <2>1 DEF Sound, Known, Active
    <2>4. run = search[k].run
      BY <1>2 DEF Current
    <2> QED
      BY <1>2, <2>1, <2>2, <2>3, <2>4
  <1>3. CASE ~Current(k)
    <2> DEFINE new == [NoSearch EXCEPT !.at = "over"]
    <2>1. DOMAIN new = Parts /\ new.at = "over" /\ new.run = 0
      BY DEF NoSearch, Parts
    <2>2. search' = [search EXCEPT ![k] = new]
      BY <1>3 DEF Over
    <2> HIDE DEF new
    <2>3. Sound(new, session, total)
      BY <2>1 DEF Sound, Active
    <2> QED
      BY <1>3, <2>1, <2>2, <2>3
  <1> QED
    BY <1>2, <1>3

\* A search that was cancelled changes nothing on display.
LEMMA OverUnseen ==
  ASSUME Seek, NEW k \in Searches, search[k].at \in Active, Over(k), ~Current(k),
         UNCHANGED <<session, total, mounted, needle, found, searching, message, run>>
  PROVE  Seek'
  <1>1. Known
    BY DEF Seek
  <1>2. PICK new : /\ search' = [search EXCEPT ![k] = new] /\ Sound(new, session, total)
                   /\ new.at = "over" /\ new.run = 0
    BY <1>1, OverIs
  <1>3. Known'
    BY <1>1, <1>2, KnownStep
  <1> SUFFICES ASSUME mounted, Shown PROVE Shown'
    BY <1>3 DEF Seek
  <1>4. /\ search'[k] = new /\ \A l \in Searches \ {k} : search'[l] = search[l]
    BY <1>1, <1>2 DEF Known
  <1>5. Ours'
    BY <1>2, <1>4 DEF Shown, Ours, Current, Active
  <1>6. Saying'
    BY <1>1, <1>2, ToldStays
  <1> QED
    BY <1>5, <1>6 DEF Shown, content

\* The newest search is over, and what is said of it is so.
LEMMA OverSeen ==
  ASSUME Seek, NEW k \in Searches, search[k].at \in Active, Over(k), Current(k),
         UNCHANGED <<session, total, mounted, needle, run>>,
         found' # None =>
           needle \in session.needles /\ found' \in Occurrences(content, needle, 0, total),
         message' \in {"match", "no match"} => Told(message', found', content, needle, search[k])
  PROVE  Seek'
  <1>1. Known /\ mounted /\ Shown
    BY DEF Seek, Current
  <1>2. PICK new : /\ search' = [search EXCEPT ![k] = new] /\ Sound(new, session, total)
                   /\ new.at = "over" /\ new.run = run /\ new.run = search[k].run
                   /\ new.start = search[k].start /\ new.end = search[k].end
    BY <1>1, OverIs
  <1>3. Known'
    BY <1>1, <1>2, KnownStep
  <1>4. /\ search'[k] = new /\ \A l \in Searches \ {k} : search'[l] = search[l]
    BY <1>1, <1>2 DEF Known
  <1>5. run # 0
    <2>1. Sound(search[k], session, total)
      BY <1>1 DEF Known
    <2>2. search[k].run # 0
      BY <2>1 DEF Sound
    <2>3. search[k].run = run
      BY <1>2
    <2> QED
      BY <2>2, <2>3
  <1>6. \A l \in Searches : search'[l].run = run => l = k
    BY <1>1, <1>2, <1>4, <1>5 DEF Known
  <1>7. Ours'
    BY <1>2, <1>4, <1>6 DEF Ours, Current, Active
  <1>8. Saying'
    BY <1>2, <1>4, <1>5 DEF Saying, Told, content
  <1>9. Shown'
    BY <1>1, <1>7, <1>8 DEF Shown, content
  <1> QED
    BY <1>3, <1>9 DEF Seek

LEMMA MinOfTwo ==
  ASSUME NEW a \in Int, NEW b \in Int
  PROVE  Min({a, b}) = IF a <= b THEN a ELSE b
  <1>1. CASE a <= b
    <2>1. \A x \in {a, b} : (\A y \in {a, b} : x <= y) <=> x = a
      BY <1>1
    <2> QED
      BY <1>1, <2>1 DEF Min
  <1>2. CASE ~(a <= b)
    <2>1. \A x \in {a, b} : (\A y \in {a, b} : x <= y) <=> x = b
      BY <1>2
    <2> QED
      BY <1>2, <2>1 DEF Min
  <1> QED
    BY <1>1, <1>2

LEMMA StopsInRange ==
  ASSUME NEW cursor \in Nat, NEW end \in Nat, cursor <= end
  PROVE  Stop(cursor, end) \in cursor..end
  BY MinOfTwo, ScanAssumption DEF Stop

LEMMA BufferEndsInStep ==
  ASSUME NEW position \in Nat, NEW stop \in Nat, position <= stop
  PROVE  BufferEnd(position, stop) \in position..stop
  BY MinOfTwo, ScanAssumption DEF BufferEnd

\* A step begins with nothing read.
LEMMA BeginsPassed ==
  ASSUME NEW body, NEW word \in Seq(Nat), Len(word) > 0, NEW cursor \in Nat, cursor <= Len(body),
         Len(body) \in Nat
  PROVE  0 # Len(word) /\ Passed(body, word, cursor, cursor, 0)
  <1>1. Len(word) \in Nat
    OBVIOUS
  <1>2. Longest(body, word, cursor, cursor, 0)
    BY <1>1 DEF Longest, Ends
  <1>3. (cursor + Len(word))..(cursor - 1) = {}
    BY <1>1
  <1> QED
    BY <1>1, <1>2, <1>3 DEF Passed

\* One buffer of a step, and the answer when it is the last one.
LEMMA ScanIsSound ==
  ASSUME Known, NEW s, Sound(s, session, total), s.at = "scanning",
         NEW new, DOMAIN new = Parts, new.run = s.run, new.needle = s.needle,
         new.start = s.start, new.end = s.end, new.cursor = s.cursor,
         LET stop == Stop(s.cursor, s.end)
             to == Buffer(content, s.needle, s.position, BufferEnd(s.position, stop), s.matched)
         IN \/ new.at = "refused"
            \/ /\ to.matched = Len(s.needle)
               /\ new.at = "answered" /\ new.answer = Found(s.needle, to.position)
            \/ /\ to.matched # Len(s.needle) /\ to.position = stop
               /\ new.at = "answered" /\ new.answer = NotFound(stop, to.matched, stop, s.end)
            \/ /\ to.matched # Len(s.needle)
               /\ new.at = "scanning" /\ new.position = to.position /\ new.matched = to.matched
  PROVE  Sound(new, session, total)
  <1> DEFINE stop == Stop(s.cursor, s.end)
             upto == BufferEnd(s.position, stop)
             to == Buffer(content, s.needle, s.position, upto, s.matched)
  <1>1. /\ s.run \in Nat /\ s.run # 0 /\ s.needle \in session.needles
        /\ s.start \in Nat /\ s.cursor \in Nat /\ s.start <= s.cursor
        /\ s.end \in 0..total /\ Barren(content, s.needle, s.start, s.cursor, s.end)
        /\ s.cursor <= s.end /\ s.position \in Nat /\ s.position <= stop
        /\ s.matched # Len(s.needle)
        /\ Passed(content, s.needle, s.cursor, s.position, s.matched)
    BY DEF Sound, Active, content
  <1>2. /\ content \in Seq(Nat) /\ Len(content) \in Nat /\ total \in 0..Len(content)
        /\ s.needle \in Seq(Nat) /\ Len(s.needle) > 0
    BY <1>1, SessionIs
  <1>3. s.end \in Nat /\ s.end \in 0..Len(content)
    BY <1>1, <1>2
  <1>4. stop \in s.cursor..s.end
    BY <1>1, <1>3, StopsInRange
  <1>5. upto \in s.position..stop
    <2>1. stop \in Nat
      BY <1>1, <1>3, <1>4
    <2>2. s.position \in Nat /\ s.position <= stop
      BY <1>1
    <2> HIDE DEF stop
    <2> QED
      BY <2>1, <2>2, BufferEndsInStep
  <1>6. /\ Passed(content, s.needle, s.cursor, to.position, to.matched)
        /\ to.position \in s.position..upto
    <2> HIDE DEF upto, stop
    <2>1. upto \in Nat /\ s.position <= upto /\ upto <= Len(content)
      BY <1>1, <1>3, <1>4, <1>5
    <2> QED
      BY <1>1, <1>2, <2>1, BufferPasses
  <1> HIDE DEF to, stop, upto
  <1>7. to.position \in Nat /\ to.position <= stop /\ to.position <= s.end
    BY <1>1, <1>3, <1>4, <1>5, <1>6
  <1>8. CASE new.at = "refused"
    BY <1>1, <1>8 DEF Sound, Active
  <1>9. CASE /\ to.matched = Len(s.needle)
             /\ new.at = "answered" /\ new.answer = Found(s.needle, to.position)
    <2> DEFINE first == to.position - Len(s.needle)
    <2>1. /\ first \in Occurrences(content, s.needle, s.start, s.end)
          /\ FirstOccurrence(content, s.needle, s.start, s.end) = first
      <3>1. /\ Passed(content, s.needle, s.cursor, to.position, to.matched)
            /\ to.matched = Len(s.needle)
        BY <1>6, <1>9
      <3>2. /\ s.start \in Nat /\ s.cursor \in Nat /\ s.start <= s.cursor
            /\ Barren(content, s.needle, s.start, s.cursor, s.end)
        BY <1>1
      <3>3. to.position \in Nat /\ to.position <= s.end
        BY <1>7
      <3>4. first = to.position - Len(s.needle)
        OBVIOUS
      <3> HIDE DEF first
      <3>5. first \in Occurrences(content, s.needle, s.start, s.end)
        BY <1>2, <1>3, <3>1, <3>2, <3>3, <3>4, FoundIsFirst
      <3>6. \A o \in Occurrences(content, s.needle, s.start, s.end) : first <= o /\ o \in Int
        BY <1>2, <1>3, <3>1, <3>2, <3>3, <3>4, FoundIsFirst
      <3> QED
        BY <3>5, <3>6 DEF FirstOccurrence, Min
    <2>2. first # None
      BY <1>1, <2>1 DEF Occurrences, None
    <2>3. new.answer.found = first
      BY <1>9 DEF Found
    <2> HIDE DEF first
    <2>4. Answers(new, content)
      BY <2>1, <2>2, <2>3 DEF Answers
    <2> QED
      BY <1>1, <1>9, <2>4 DEF Sound, Active, content
  <1>10. CASE /\ to.matched # Len(s.needle) /\ to.position = stop
              /\ new.at = "answered" /\ new.answer = NotFound(stop, to.matched, stop, s.end)
    <2>1. /\ new.answer.found = None /\ new.answer.done = (stop = s.end)
          /\ stop # s.end => new.answer.next = Resume(stop, to.matched)
      BY <1>10 DEF NotFound
    <2>2. CASE stop = s.end
      <3>1. FirstOccurrence(content, s.needle, s.start, s.end) = None
        BY <1>1, <1>2, <1>3, <1>6, <1>10, <2>2, DoneIsNone
      <3>2. Answers(new, content)
        BY <2>1, <2>2, <3>1 DEF Answers
      <3> QED
        BY <1>1, <1>10, <3>2 DEF Sound, Active, content
    <2>3. CASE stop # s.end
      <3>1. /\ Resume(stop, to.matched) \in s.cursor..s.end
            /\ Barren(content, s.needle, s.start, Resume(stop, to.matched), s.end)
        BY <1>1, <1>2, <1>3, <1>6, <1>7, <1>10, ResumeMissesNone
      <3>2. new.answer.next \in Nat /\ s.start <= new.answer.next
        BY <1>1, <1>3, <2>1, <2>3, <3>1
      <3>3. Answers(new, content)
        BY <2>1, <2>3, <3>1, <3>2 DEF Answers
      <3> QED
        BY <1>1, <1>10, <3>3 DEF Sound, Active, content
    <2> QED
      BY <2>2, <2>3
  <1>11. CASE /\ to.matched # Len(s.needle)
              /\ new.at = "scanning" /\ new.position = to.position /\ new.matched = to.matched
    BY <1>1, <1>6, <1>7, <1>11 DEF Sound, Active, content, stop
  <1> QED
    BY <1>8, <1>9, <1>10, <1>11 DEF to, upto, stop

\* Nothing of a search changes.
LEMMA SeekStays ==
  ASSUME Seek, UNCHANGED <<session, total, mounted, finder>>
  PROVE  Seek'
  <1>1. UNCHANGED <<session, total, mounted, needle, found, searching, message, run, search>>
    BY DEF finder
  <1>2. Known => Known'
    BY <1>1 DEF Known, content
  <1>3. Shown => Shown'
    <2>1. Ours => Ours'
      BY <1>1 DEF Ours, Current
    <2>2. Saying => Saying'
      BY <1>1 DEF Saying, content
    <2> QED
      BY <1>1, <2>1, <2>2 DEF Shown, content
  <1> QED
    BY <1>1, <1>2, <1>3 DEF Seek

LEMMA OccurrencesGrow ==
  ASSUME NEW text, NEW word, NEW start \in Nat, NEW end \in Nat, NEW n \in Nat, end <= n,
         Len(word) \in Nat
  PROVE  Occurrences(text, word, start, end) \subseteq Occurrences(text, word, 0, n)
  <1> DEFINE L == Len(word)
  <1>1. \A o \in start..(end - L) : o \in 0..(n - L)
    <2> HIDE DEF L
    <2>1. L \in Nat
      BY DEF L
    <2> QED
      BY <2>1
  <1> QED
    BY <1>1 DEF Occurrences

LEMMA SeekWrites ==
  ASSUME Seek, Write
  PROVE  Seek'
  <1>1. /\ total \in Nat /\ total' \in Nat /\ total <= total' /\ total' <= Len(content)
        /\ UNCHANGED <<session, mounted, finder>>
    BY SessionsAssumption, SessionIs DEF Write, Seek, Known
  <1>2. UNCHANGED <<needle, found, searching, message, run, search>>
    BY <1>1 DEF finder
  <1>3. \A k \in Searches : Sound(search[k], session, total')
    BY <1>1, SoundGrows DEF Seek, Known
  <1>4. Known'
    BY <1>1, <1>2, <1>3 DEF Seek, Known, content
  <1> SUFFICES ASSUME mounted, Known, Shown PROVE Shown'
    BY <1>1, <1>4 DEF Seek
  <1>5. found # None => found \in Occurrences(content, needle, 0, total')
    <2> SUFFICES ASSUME found # None PROVE found \in Occurrences(content, needle, 0, total')
      OBVIOUS
    <2>1. found \in Occurrences(content, needle, 0, total) /\ needle \in session.needles
      BY DEF Shown
    <2>2. needle \in Seq(Nat) /\ Len(needle) \in Nat
      BY <2>1, SessionIs
    <2> QED
      BY <1>1, <2>1, <2>2, OccurrencesGrow
  <1> QED
    BY <1>1, <1>2, <1>5 DEF Shown, Ours, Saying, Current, content

LEMMA SeekTypes ==
  ASSUME Seek, Type
  PROVE  Seek'
  <1>1. Known /\ mounted /\ Shown /\ ~searching
    BY DEF Seek, Type
  <1>2. /\ UNCHANGED <<session, total, mounted, searching, run, search>>
        /\ needle' \in session.needles /\ found' = None /\ message' = "none"
    BY DEF Type, store
  <1>3. Known'
    BY <1>1, <1>2 DEF Known, content
  <1>4. Shown'
    BY <1>1, <1>2 DEF Shown, Ours, Saying, Current
  <1> QED
    BY <1>3, <1>4 DEF Seek

LEMMA SeekCancels ==
  ASSUME Seek, CancelSearch
  PROVE  Seek'
  <1>1. Known /\ mounted /\ Shown
    BY DEF Seek, CancelSearch
  <1>2. /\ UNCHANGED <<session, total, mounted, needle, found, search>>
        /\ run' = run + 1 /\ message' = "cancelled"
    BY DEF CancelSearch, store
  <1>3. run \in Nat /\ \A k \in Searches : search[k].run \in Nat /\ search[k].run <= run
    BY <1>1 DEF Known, Sound
  <1>4. \A k \in Searches : search[k].run <= run' /\ search[k].run # run'
    BY <1>2, <1>3
  <1>5. Known'
    BY <1>1, <1>2, <1>3, <1>4 DEF Known, content
  <1>6. Shown'
    BY <1>1, <1>2, <1>4 DEF Shown, Ours, Saying, Current, content
  <1> QED
    BY <1>5, <1>6 DEF Seek

LEMMA SeekUnmounts ==
  ASSUME Seek, Unmount
  PROVE  Seek'
  <1>1. Known
    BY DEF Seek
  <1>2. UNCHANGED <<session, total, search>> /\ run' = run + 1 /\ ~mounted'
    BY DEF Unmount, store
  <1>3. run \in Nat /\ \A k \in Searches : search[k].run \in Nat /\ search[k].run <= run
    BY <1>1 DEF Known, Sound
  <1>4. \A k \in Searches : search[k].run <= run'
    BY <1>2, <1>3
  <1>5. Known'
    BY <1>1, <1>2, <1>3, <1>4 DEF Known, content
  <1> QED
    BY <1>2, <1>5 DEF Seek

\* The next search has a new number, whatever becomes of the earlier ones.
LEMMA SeekBegins ==
  ASSUME Seek, NEW start \in Nat, Begin(start)
  PROVE  Seek'
  <1> DEFINE first == Min(Unused)
             new == [NoSearch EXCEPT !.at = "freezing", !.run = run + 1, !.needle = needle,
                                     !.start = start, !.cursor = start]
  <1>1. Known /\ mounted /\ Shown /\ needle \in session.needles
    BY DEF Seek, Begin, Shown
  <1>2. /\ UNCHANGED <<session, total, mounted, needle, found>>
        /\ run' = run + 1 /\ searching' = TRUE /\ message' = "searching"
        /\ search' = [search EXCEPT ![first] = new]
    BY DEF Begin, store
  <1>3. run \in Nat /\ \A k \in Searches : search[k].run \in Nat /\ search[k].run <= run
    BY <1>1 DEF Known, Sound
  <1>4. /\ DOMAIN new = Parts /\ new.at = "freezing" /\ new.run = run + 1 /\ new.needle = needle
        /\ new.start = start /\ new.cursor = start
    BY DEF NoSearch, Parts
  <1> HIDE DEF first, new
  <1>5. Sound(new, session, total)
    BY <1>1, <1>3, <1>4 DEF Sound, Active
  <1>6. /\ search' = [k \in Searches |-> search'[k]]
        /\ \A k \in Searches : search'[k] = IF k = first THEN new ELSE search[k]
    BY <1>1, <1>2 DEF Known
  <1>7. \A k \in Searches : Sound(search'[k], session, total) /\ search'[k].run <= run'
    BY <1>1, <1>2, <1>3, <1>4, <1>5, <1>6 DEF Known
  <1>8. \A k, l \in Searches : search'[k].run = search'[l].run /\ search'[k].run # 0 => k = l
    <2>1. \A k \in Searches : k # first => search'[k].run # run + 1
      BY <1>3, <1>6
    <2> QED
      BY <1>1, <1>4, <1>6, <2>1 DEF Known
  <1>9. Known'
    BY <1>1, <1>2, <1>3, <1>6, <1>7, <1>8 DEF Known, content
  <1>10. \A k \in Searches : Current(k)' => k = first
    BY <1>2, <1>3, <1>6 DEF Current
  <1>11. Shown'
    BY <1>1, <1>2, <1>4, <1>6, <1>10 DEF Shown, Ours, Saying, content
  <1> QED
    BY <1>9, <1>11 DEF Seek

\* Asked for a step from a cursor before which no match starts.
LEMMA AskIsSound ==
  ASSUME Known, NEW k \in Searches, NEW cursor, Ask(k, cursor), search[k].at \in Active,
         cursor \in Nat, search[k].start <= cursor, search[k].end \in 0..total,
         Barren(content, search[k].needle, search[k].start, cursor, search[k].end)
  PROVE  \E new : /\ Sound(new, session, total) /\ search' = [search EXCEPT ![k] = new]
                  /\ new.run = search[k].run /\ new.needle = search[k].needle
  <1> DEFINE new == [search[k] EXCEPT !.at = "asked", !.cursor = cursor, !.answer = Nothing]
  <1>1. Sound(search[k], session, total) /\ DOMAIN search[k] = Parts
    BY DEF Known, Sound
  <1>2. /\ DOMAIN new = Parts /\ new.at = "asked" /\ new.run = search[k].run
        /\ new.needle = search[k].needle /\ new.start = search[k].start
        /\ new.end = search[k].end /\ new.cursor = cursor
    BY <1>1 DEF Parts
  <1>3. search' = [search EXCEPT ![k] = new]
    BY DEF Ask, Known
  <1> HIDE DEF new
  <1>4. Sound(new, session, total)
    BY <1>1, <1>2 DEF Sound, Active, content
  <1> QED
    BY <1>2, <1>3, <1>4

LEMMA SeekFreezes ==
  ASSUME Seek, NEW k \in Searches, Freeze(k)
  PROVE  Seek'
  <1> DEFINE new == IF Readable(0) THEN [search[k] EXCEPT !.at = "frozen", !.end = total]
                    ELSE [search[k] EXCEPT !.at = "refused"]
  <1>1. /\ Known /\ search[k].at = "freezing" /\ search[k].at \in Active
        /\ Sound(search[k], session, total) /\ DOMAIN search[k] = Parts
        /\ UNCHANGED <<session, total, mounted, needle, found, searching, message, run>>
    BY DEF Seek, Known, Sound, Freeze, Active, store
  <1>2. search' = [search EXCEPT ![k] = new]
    BY DEF Freeze, Seek, Known
  <1>3. /\ DOMAIN new = Parts /\ new.at \in {"frozen", "refused"} /\ new.run = search[k].run
        /\ new.needle = search[k].needle /\ new.start = search[k].start
        /\ new.cursor = search[k].cursor
        /\ new.at = "frozen" => new.end = total
    BY <1>1 DEF Parts
  <1> HIDE DEF new
  <1>4. total \in 0..total
    BY <1>1, SessionIs
  <1>5. Barren(content, search[k].needle, search[k].start, search[k].cursor, total)
    BY <1>1 DEF Sound, Barren, Active
  <1>6. Sound(new, session, total)
    BY <1>1, <1>3, <1>4, <1>5 DEF Sound, Active, content
  <1> QED
    BY <1>1, <1>2, <1>3, <1>6, Continues

LEMMA SeekAsks ==
  ASSUME Seek, NEW k \in Searches, TakeFrozen(k)
  PROVE  Seek'
  <1>1. /\ Known /\ search[k].at = "frozen" /\ search[k].at \in Active
        /\ Sound(search[k], session, total)
        /\ UNCHANGED <<session, total, mounted, needle, found, searching, message, run>>
    BY DEF Seek, Known, TakeFrozen, Active, store
  <1>2. CASE Current(k)
    <2>1. Ask(k, search[k].cursor)
      BY <1>2 DEF TakeFrozen
    <2>2. /\ search[k].cursor \in Nat /\ search[k].start <= search[k].cursor
          /\ search[k].end \in 0..total
          /\ Barren(content, search[k].needle, search[k].start, search[k].cursor, search[k].end)
      BY <1>1 DEF Sound, content
    <2>3. PICK new : /\ Sound(new, session, total) /\ search' = [search EXCEPT ![k] = new]
                     /\ new.run = search[k].run /\ new.needle = search[k].needle
      BY <1>1, <2>1, <2>2, AskIsSound
    <2> QED
      BY <1>1, <2>3, Continues
  <1>3. CASE ~Current(k)
    <2>1. Over(k)
      BY <1>3 DEF TakeFrozen
    <2> QED
      BY <1>1, <1>3, <2>1, OverUnseen
  <1> QED
    BY <1>2, <1>3

LEMMA SeekStarts ==
  ASSUME Seek, NEW k \in Searches, StartScan(k)
  PROVE  Seek'
  <1>1. /\ Known /\ search[k].at = "asked" /\ search[k].at \in Active
        /\ Sound(search[k], session, total) /\ DOMAIN search[k] = Parts
        /\ UNCHANGED <<session, total, mounted, needle, found, searching, message, run>>
    BY DEF Seek, Known, Sound, StartScan, Active, store
  <1>2. CASE search' = [search EXCEPT ![k].at = "refused"]
    <2> DEFINE new == [search[k] EXCEPT !.at = "refused"]
    <2>1. /\ DOMAIN new = Parts /\ new.at = "refused" /\ new.run = search[k].run
          /\ new.needle = search[k].needle /\ new.start = search[k].start
          /\ new.cursor = search[k].cursor
      BY <1>1 DEF Parts
    <2>2. search' = [search EXCEPT ![k] = new]
      BY <1>2 DEF Seek, Known
    <2> HIDE DEF new
    <2>3. Sound(new, session, total)
      BY <1>1, <2>1 DEF Sound, Active
    <2> QED
      BY <1>1, <2>1, <2>2, <2>3, Continues
  <1>3. CASE search[k].cursor <= search[k].end /\ search' = [search EXCEPT ![k] = Scanned(k)]
    <2> DEFINE new == Scanned(k)
    <2>1. /\ DOMAIN new = Parts /\ new.at = "scanning" /\ new.run = search[k].run
          /\ new.needle = search[k].needle /\ new.start = search[k].start
          /\ new.end = search[k].end /\ new.cursor = search[k].cursor
          /\ new.position = search[k].cursor /\ new.matched = 0
      BY <1>1 DEF Scanned, Parts
    <2>2. search' = [search EXCEPT ![k] = new]
      BY <1>3
    <2> HIDE DEF new
    <2>3. /\ search[k].run # 0 /\ search[k].needle \in session.needles
          /\ search[k].start \in Nat /\ search[k].cursor \in Nat
          /\ search[k].start <= search[k].cursor
          /\ search[k].end \in 0..total
          /\ Barren(content, search[k].needle, search[k].start, search[k].cursor, search[k].end)
      BY <1>1 DEF Sound, Active, content
    <2>4. /\ total \in 0..Len(content) /\ Len(content) \in Nat
          /\ search[k].needle \in Seq(Nat) /\ Len(search[k].needle) > 0
      BY <1>1, <2>3, SessionIs
    <2>5. search[k].end \in Nat /\ search[k].cursor <= Len(content)
      BY <1>3, <2>3, <2>4
    <2>6. /\ 0 # Len(search[k].needle)
          /\ Passed(content, search[k].needle, search[k].cursor, search[k].cursor, 0)
      BY <2>3, <2>4, <2>5, BeginsPassed
    <2>7. search[k].cursor <= Stop(search[k].cursor, search[k].end)
      <3>1. Stop(search[k].cursor, search[k].end) \in search[k].cursor..search[k].end
        BY <1>3, <2>3, <2>5, StopsInRange
      <3> QED
        BY <2>3, <2>5, <3>1
    <2>8. Sound(new, session, total)
      BY <1>1, <1>3, <2>1, <2>3, <2>6, <2>7 DEF Sound, Active, content
    <2> QED
      BY <1>1, <2>1, <2>2, <2>8, Continues
  <1> QED
    BY <1>2, <1>3 DEF StartScan

LEMMA SeekScans ==
  ASSUME Seek, NEW k \in Searches, ScanBuffer(k)
  PROVE  Seek'
  <1> DEFINE s == search[k]
             stop == Stop(s.cursor, s.end)
             to == Buffer(content, s.needle, s.position, BufferEnd(s.position, stop), s.matched)
             refused == [s EXCEPT !.at = "refused"]
             match == [s EXCEPT !.at = "answered", !.answer = Found(s.needle, to.position)]
             none == [s EXCEPT !.at = "answered",
                               !.answer = NotFound(stop, to.matched, stop, s.end)]
             further == [s EXCEPT !.position = to.position, !.matched = to.matched]
             new == IF s.position < stop /\ entry = "gone" THEN refused
                    ELSE IF to.matched = Len(s.needle) THEN match
                    ELSE IF to.position = stop THEN none
                    ELSE further
  <1>1. /\ Known /\ s.at = "scanning" /\ s.at \in Active
        /\ Sound(s, session, total) /\ DOMAIN s = Parts
        /\ UNCHANGED <<session, total, mounted, needle, found, searching, message, run>>
    BY DEF Seek, Known, Sound, ScanBuffer, Active, store
  <1>2. search' = [search EXCEPT ![k] = new]
    BY DEF ScanBuffer
  <1>3. new \in {refused, match, none, further}
    BY DEF new
  <1> HIDE DEF s
  <1>4. \A x \in {refused, match, none, further} :
          /\ DOMAIN x = Parts /\ x.run = s.run /\ x.needle = s.needle
          /\ x.start = s.start /\ x.end = s.end /\ x.cursor = s.cursor
    BY <1>1 DEF Parts
  <1>5. /\ refused.at = "refused" /\ match.at = "answered" /\ none.at = "answered"
        /\ further.at = "scanning"
        /\ match.answer = Found(s.needle, to.position)
        /\ none.answer = NotFound(stop, to.matched, stop, s.end)
        /\ further.position = to.position /\ further.matched = to.matched
    BY <1>1 DEF Parts
  <1>6. \/ new = refused
        \/ to.matched = Len(s.needle) /\ new = match
        \/ to.matched # Len(s.needle) /\ to.position = stop /\ new = none
        \/ to.matched # Len(s.needle) /\ new = further
    BY DEF new
  <1> HIDE DEF new, refused, match, none, further
  <1>7. Sound(new, session, total)
    <2>1. \/ new.at = "refused"
          \/ /\ to.matched = Len(s.needle)
             /\ new.at = "answered" /\ new.answer = Found(s.needle, to.position)
          \/ /\ to.matched # Len(s.needle) /\ to.position = stop
             /\ new.at = "answered" /\ new.answer = NotFound(stop, to.matched, stop, s.end)
          \/ /\ to.matched # Len(s.needle)
             /\ new.at = "scanning" /\ new.position = to.position /\ new.matched = to.matched
      <3> HIDE DEF to, stop
      <3> QED
        BY <1>5, <1>6
    <2>2. /\ DOMAIN new = Parts /\ new.run = s.run /\ new.needle = s.needle
          /\ new.start = s.start /\ new.end = s.end /\ new.cursor = s.cursor
      BY <1>3, <1>4
    <2> QED
      BY <1>1, <2>1, <2>2, ScanIsSound
  <1>8. new.run = s.run /\ new.needle = s.needle
    BY <1>3, <1>4
  <1> QED
    BY <1>1, <1>2, <1>7, <1>8, Continues DEF s

LEMMA SeekGivesUp ==
  ASSUME Seek, NEW k \in Searches, TakeError(k)
  PROVE  Seek'
  <1>1. /\ search[k].at \in Active /\ Over(k)
        /\ UNCHANGED <<session, total, mounted, needle, found, run>>
    BY DEF TakeError, Active, store
  <1>2. CASE Current(k)
    <2>1. message' = "error"
      BY <1>2 DEF TakeError, GiveUp
    <2>2. found' # None =>
            needle \in session.needles /\ found' \in Occurrences(content, needle, 0, total)
      BY <1>1, <1>2 DEF Seek, Shown, Current
    <2> QED
      BY <1>1, <1>2, <2>1, <2>2, OverSeen
  <1>3. CASE ~Current(k)
    <2>1. UNCHANGED <<message, searching>>
      BY <1>3 DEF TakeError
    <2> QED
      BY <1>1, <1>3, <2>1, OverUnseen
  <1> QED
    BY <1>2, <1>3

LEMMA SeekIsAnswered ==
  ASSUME Seek, NEW k \in Searches, TakeAnswer(k)
  PROVE  Seek'
  <1> DEFINE s == search[k]
  <1>1. /\ Known /\ s.at = "answered" /\ s.at \in Active /\ Sound(s, session, total)
        /\ UNCHANGED <<session, total, mounted, needle, run>>
    BY DEF Seek, Known, TakeAnswer, Active, store
  <1>2. /\ s.needle \in session.needles /\ s.start \in Nat /\ s.cursor \in Nat
        /\ s.end \in 0..total /\ Answers(s, content)
    BY <1>1 DEF Sound, Active, content
  <1>3. CASE ~Current(k)
    <2>1. Over(k) /\ UNCHANGED <<found, searching, message>>
      BY <1>3 DEF TakeAnswer
    <2> QED
      BY <1>1, <1>3, <2>1, OverUnseen
  <1>4. ASSUME Current(k) PROVE Shown /\ mounted /\ needle = s.needle
    BY <1>1, <1>4 DEF Seek, Shown, Ours, Current
  <1>5. CASE Current(k) /\ s.answer.found # None
    <2>1. Over(k) /\ found' = s.answer.found /\ message' = "match"
      BY <1>5 DEF TakeAnswer
    <2>2. /\ found' = FirstOccurrence(content, s.needle, s.start, s.end) /\ found' # None
          /\ found' \in Occurrences(content, s.needle, s.start, s.end)
      BY <1>2, <1>5, <2>1 DEF Answers
    <2>3. found' \in Occurrences(content, s.needle, 0, total)
      <3>1. total \in Nat /\ s.end \in Nat /\ s.end <= total
        BY <1>1, <1>2, SessionIs
      <3>2. Len(s.needle) \in Nat
        BY <1>1, <1>2, SessionIs
      <3> QED
        BY <1>2, <2>2, <3>1, <3>2, OccurrencesGrow
    <2>4. needle = s.needle /\ needle \in session.needles
      BY <1>1, <1>2, <1>4, <1>5
    <2>5. Told(message', found', content, needle, s)
      BY <2>1, <2>2, <2>4 DEF Told
    <2> QED
      BY <1>1, <1>5, <2>1, <2>3, <2>4, <2>5, OverSeen
  <1>6. CASE Current(k) /\ s.answer.found = None /\ s.answer.done
    <2>1. Over(k) /\ found' = found /\ message' = "no match"
      BY <1>6 DEF TakeAnswer
    <2>2. FirstOccurrence(content, s.needle, s.start, s.end) = None
      BY <1>2, <1>6 DEF Answers
    <2>3. Told(message', found', content, needle, s)
      BY <1>4, <1>6, <2>1, <2>2 DEF Told
    <2>4. found' # None =>
            needle \in session.needles /\ found' \in Occurrences(content, needle, 0, total)
      BY <1>4, <1>6, <2>1 DEF Shown
    <2> QED
      BY <1>1, <1>6, <2>1, <2>3, <2>4, OverSeen
  <1>7. CASE Current(k) /\ s.answer.found = None /\ ~s.answer.done
    <2>1. Ask(k, s.answer.next) /\ message' = "progress" /\ UNCHANGED <<found, searching>>
      BY <1>7 DEF TakeAnswer
    <2>2. /\ s.answer.next \in Nat /\ s.start <= s.answer.next
          /\ Barren(content, s.needle, s.start, s.answer.next, s.end)
      BY <1>2, <1>7 DEF Answers
    <2>3. PICK new : /\ Sound(new, session, total) /\ search' = [search EXCEPT ![k] = new]
                     /\ new.run = s.run /\ new.needle = s.needle
      BY <1>1, <1>2, <2>1, <2>2, AskIsSound
    <2> QED
      BY <1>1, <2>1, <2>3, Continues
  <1> QED
    BY <1>3, <1>5, <1>6, <1>7 DEF TakeAnswer

LEMMA SeekStep == Seek /\ [Next]_vars => Seek'
  <1> SUFFICES ASSUME Seek, [Next]_vars PROVE Seek'
    OBVIOUS
  <1>1. CASE Record \/ End \/ Finish \/ Remove \/ Navigate \/ Settled
    <2>1. UNCHANGED <<session, total, mounted, finder>>
      BY <1>1 DEF Record, End, Finish, Remove, Navigate, Settled, store
    <2> QED
      BY <2>1, SeekStays
  <1>2. ASSUME NEW q \in Reads, ServePage(q) \/ TakePage(q) \/ Tick(q) PROVE Seek'
    <2>1. UNCHANGED <<session, total, mounted, finder>>
      BY <1>2 DEF ServePage, TakePage, Tick, store
    <2> QED
      BY <2>1, SeekStays
  <1>3. CASE Write
    BY <1>3, SeekWrites
  <1>4. CASE Type
    BY <1>4, SeekTypes
  <1>5. CASE FindFromStart
    BY <1>5, SeekBegins DEF FindFromStart
  <1>6. CASE FindNext
    <2>1. found \in Nat
      <3>1. mounted /\ found # None
        BY <1>6 DEF FindNext, Begin
      <3>2. /\ Known /\ needle \in session.needles
            /\ found \in Occurrences(content, needle, 0, total)
        BY <3>1 DEF Seek, Shown
      <3>3. total \in Nat /\ Len(needle) \in Nat
        BY <3>2, SessionIs
      <3> QED
        BY <3>2, <3>3 DEF Occurrences
    <2> QED
      BY <1>6, <2>1, SeekBegins DEF FindNext
  <1>7. CASE CancelSearch
    BY <1>7, SeekCancels
  <1>8. CASE Unmount
    BY <1>8, SeekUnmounts
  <1>9. ASSUME NEW k \in Searches,
               \/ Freeze(k) \/ TakeFrozen(k) \/ StartScan(k) \/ ScanBuffer(k)
               \/ TakeAnswer(k) \/ TakeError(k)
        PROVE  Seek'
    BY <1>9, SeekFreezes, SeekAsks, SeekStarts, SeekScans, SeekIsAnswered, SeekGivesUp
  <1>10. CASE UNCHANGED vars
    BY <1>10, SeekStays DEF vars, store
  <1> QED
    BY <1>1, <1>2, <1>3, <1>4, <1>5, <1>6, <1>7, <1>8, <1>9, <1>10 DEF Next

(* The scan of bodies/inspect.rs finds the first match of any needle in    *)
(* any bytes, whatever its buffers and steps cut in two, and the search    *)
(* loop of ResponseBody.tsx puts its answers together: what the viewer     *)
(* says of the newest search is so, and a found offset is a match of what  *)
(* is typed, whatever searches were cancelled before or are under way.     *)
THEOREM SearchIsRightAlways == Spec => []SearchIsRight
  BY SeekInit, SeekStep, SeekIsRight, PTL DEF Spec
=============================================================================
