----------------------------- MODULE Pile_proofs -----------------------------
(***************************************************************************)
(* For all stores and records and any number of requests in flight: the    *)
(* piles are kept as the ledger of piles promises, the focus is never      *)
(* lost, and what the sheet says of a request is true.                     *)
(***************************************************************************)
EXTENDS Pile, SequenceTheorems, WellFoundedInduction, TLAPS

-----------------------------------------------------------------------------
(* The filter of a pile, by induction on its length.                        *)

\* Induction, as a least counterexample.
LEMMA LeastNat ==
    ASSUME NEW T \in SUBSET Nat, T # {}
    PROVE  \E x \in T : \A y \in T : x <= y
<1> DEFINE less == OpToRel(<, Nat)
<1>1. \A x, y \in Nat : <<y, x>> \in less <=> y < x
    BY DEF OpToRel
<1>2. IsWellFoundedOn(less, Nat)
    BY NatLessThanWellFounded
<1> HIDE DEF less
<1>3. \E x \in T : \A y \in T : ~(<<y, x>> \in less)
    <2>1. T \subseteq Nat
        OBVIOUS
    <2>2. QED
        BY <1>2, <2>1, WFMin, Zenon
<1>4. PICK x \in T : \A y \in T : ~(<<y, x>> \in less)
    BY <1>3
<1>5. ASSUME NEW y \in T PROVE x <= y
    <2>1. x \in Nat /\ y \in Nat /\ ~(<<y, x>> \in less)
        BY <1>4
    <2>2. ~(y < x)
        BY <1>1, <2>1
    <2>3. QED
        BY <2>1, <2>2
<1>6. QED
    BY <1>5

\* What the filter keeps of the first n records.
KeptStep(pile, r, f, n) ==
    IF n = 0 THEN <<>>
    ELSE IF pile[n] = r THEN f[n - 1] ELSE Append(f[n - 1], pile[n])

\* Any function with the filter's recursion says what the filter is.
LEMMA FilterIs ==
    ASSUME NEW pile \in Seq(Records), NEW r, NEW g,
           g = [n \in 0 .. Len(pile) |-> KeptStep(pile, r, g, n)]
    PROVE  WithoutRecord(pile, r) = g[Len(pile)]
<1> DEFINE N == Len(pile)
           kept == CHOOSE f : f = [n \in 0 .. N |-> KeptStep(pile, r, f, n)]
<1>1. WithoutRecord(pile, r) = kept[N]
    BY DEF WithoutRecord, KeptStep
<1>2. N \in Nat
    BY LenProperties
<1>3. kept = [n \in 0 .. N |-> KeptStep(pile, r, kept, n)]
    OBVIOUS
<1> HIDE DEF kept, N
<1>4. \A n \in 0 .. N : kept[n] = KeptStep(pile, r, kept, n)
    BY <1>3
<1>5. \A n \in 0 .. N : g[n] = KeptStep(pile, r, g, n)
    BY DEF N
<1> DEFINE wrong == { n \in 0 .. N : kept[n] # g[n] }
<1>6. ASSUME wrong # {} PROVE FALSE
    <2>1. wrong \in SUBSET Nat
        BY <1>2
    <2>2. PICK n \in wrong : \A m \in wrong : n <= m
        BY <1>6, <2>1, LeastNat
    <2>3. n \in 0 .. N /\ kept[n] # g[n]
        BY <2>2
    <2>4. n # 0
        BY <1>2, <1>4, <1>5, <2>3 DEF KeptStep
    <2>5. n - 1 \in 0 .. N /\ n - 1 \notin wrong
        BY <1>2, <2>2, <2>3, <2>4
    <2>6. kept[n - 1] = g[n - 1]
        BY <2>5
    <2>7. kept[n] = g[n]
        BY <1>4, <1>5, <2>3, <2>6 DEF KeptStep
    <2>8. QED
        BY <2>3, <2>7
<1>7. N \in 0 .. N
    BY <1>2
<1>8. kept[N] = g[N]
    BY <1>6, <1>7
<1>9. QED
    BY <1>1, <1>8 DEF N

\* The ledger's removal: everything but one place, in order.
LEMMA RemovalIs ==
    ASSUME NEW pile \in Seq(Records), NEW i \in 1 .. Len(pile)
    PROVE  /\ Ledger!Removal(pile, i) \in Seq(Records)
           /\ Len(Ledger!Removal(pile, i)) = Len(pile) - 1
           /\ \A j \in 1 .. Len(pile) - 1 :
                Ledger!Removal(pile, i)[j] = IF j < i THEN pile[j] ELSE pile[j + 1]
<1> DEFINE N == Len(pile)
           front == SubSeq(pile, 1, i - 1)
           back == SubSeq(pile, i + 1, N)
<1>1. N \in Nat /\ i \in Nat /\ \A j \in 1 .. N : pile[j] \in Records
    BY LenProperties, ElementOfSeq
<1>2. /\ front \in Seq(Records) /\ Len(front) = i - 1
      /\ \A j \in 1 .. i - 1 : front[j] = pile[j]
    <2>1. \A j \in 1 .. i - 1 : pile[j] \in Records
        BY <1>1
    <2>2. QED
        BY <1>1, <2>1, SubSeqProperties
<1>3. /\ back \in Seq(Records) /\ Len(back) = N - i
      /\ \A j \in 1 .. N - i : back[j] = pile[i + j]
    <2>1. \A j \in i + 1 .. N : pile[j] \in Records
        BY <1>1
    <2>2. /\ back \in Seq(Records) /\ Len(back) = IF i + 1 <= N THEN N - (i + 1) + 1 ELSE 0
          /\ \A j \in 1 .. N - (i + 1) + 1 : back[j] = pile[(i + 1) + j - 1]
        BY <1>1, <2>1, SubSeqProperties
    <2>3. QED
        BY <1>1, <2>2
<1>4. Ledger!Removal(pile, i) = front \o back
    BY DEF Ledger!Removal
<1> HIDE DEF front, back
<1>5. /\ front \o back \in Seq(Records) /\ Len(front \o back) = N - 1
      /\ \A j \in 1 .. N - 1 : (front \o back)[j] = IF j <= i - 1 THEN front[j]
                                                    ELSE back[j - (i - 1)]
    <2>1. /\ front \o back \in Seq(Records)
          /\ Len(front \o back) = Len(front) + Len(back)
          /\ \A j \in 1 .. Len(front) + Len(back) :
               (front \o back)[j] = IF j <= Len(front) THEN front[j]
                                    ELSE back[j - Len(front)]
        BY <1>2, <1>3, ConcatProperties
    <2>2. Len(front) + Len(back) = N - 1
        BY <1>1, <1>2, <1>3
    <2>3. QED
        BY <1>2, <2>1, <2>2
<1>6. \A j \in 1 .. N - 1 : (front \o back)[j] = IF j < i THEN pile[j] ELSE pile[j + 1]
    <2> SUFFICES ASSUME NEW j \in 1 .. N - 1
                 PROVE  (front \o back)[j] = IF j < i THEN pile[j] ELSE pile[j + 1]
        OBVIOUS
    <2>1. CASE j < i
        BY <1>1, <1>2, <1>5, <2>1
    <2>2. CASE ~(j < i)
        <3>1. j - (i - 1) \in 1 .. N - i /\ i + (j - (i - 1)) = j + 1
            BY <1>1, <2>2
        <3>2. back[j - (i - 1)] = pile[j + 1]
            BY <1>3, <3>1
        <3>3. QED
            BY <1>1, <1>5, <2>2, <3>2
    <2>3. QED
        BY <2>1, <2>2
<1>7. QED
    BY <1>4, <1>5, <1>6

\* A segment, by its last place.
LEMMA Extended ==
    ASSUME NEW pile \in Seq(Records), NEW m \in 1 .. Len(pile), NEW n \in m .. Len(pile)
    PROVE  /\ SubSeq(pile, m, n - 1) \in Seq(Records)
           /\ SubSeq(pile, m, n) = Append(SubSeq(pile, m, n - 1), pile[n])
<1>1. Len(pile) \in Nat /\ \A j \in 1 .. Len(pile) : pile[j] \in Records
    BY LenProperties, ElementOfSeq
<1>2. SubSeq(pile, m, n - 1) \in Seq(Records)
    <2>1. \A j \in m .. n - 1 : pile[j] \in Records
        BY <1>1
    <2>2. m \in Int /\ n - 1 \in Int
        BY <1>1
    <2>3. QED
        BY <2>1, <2>2, SubSeqProperties
<1>3. SubSeq(pile, m, n) = SubSeq(pile, m, n - 1) \o <<pile[n]>>
    BY SubSeqRecursiveSecond
<1>4. pile[n] \in Records
    BY <1>1
<1>5. QED
    BY <1>2, <1>3, <1>4, AppendIsConcat

\* A record put at the end of the second list is put at the end of both.
LEMMA AppendAfter ==
    ASSUME NEW s \in Seq(Records), NEW t \in Seq(Records), NEW e \in Records
    PROVE  s \o Append(t, e) = Append(s \o t, e)
<1> DEFINE u == <<e>>
<1>1. u \in Seq(Records)
    OBVIOUS
<1>2. s \o t \in Seq(Records)
    BY ConcatProperties
<1>3. Append(t, e) = t \o u /\ Append(s \o t, e) = (s \o t) \o u
    BY <1>2, AppendIsConcat
<1> HIDE DEF u
<1>4. (s \o t) \o u = s \o (t \o u)
    BY <1>1, ConcatAssociative
<1>5. QED
    BY <1>3, <1>4

\* In a pile without repetition the filter is the ledger's removal.
LEMMA FilterIsRemoval ==
    ASSUME NEW pile \in Seq(Records), NEW i \in 1 .. Len(pile),
           \A j \in 1 .. Len(pile) : pile[j] = pile[i] => j = i
    PROVE  WithoutRecord(pile, pile[i]) = Ledger!Removal(pile, i)
<1> DEFINE N == Len(pile)
           front == SubSeq(pile, 1, i - 1)
           g == [n \in 0 .. N |-> IF n < i THEN SubSeq(pile, 1, n)
                                  ELSE front \o SubSeq(pile, i + 1, n)]
<1>1. N \in Nat /\ i \in Nat /\ i # 0 /\ \A j \in 1 .. N : pile[j] \in Records
    BY LenProperties, ElementOfSeq
<1>2. front \in Seq(Records)
    BY <1>1, Extended
<1>3. ASSUME NEW n \in 0 .. N PROVE g[n] = KeptStep(pile, pile[i], g, n)
    <2>1. CASE n = 0
        <3>1. SubSeq(pile, 1, n) = <<>>
            BY <2>1, SubSeqEmpty
        <3>2. g[n] = <<>>
            BY <1>1, <2>1, <3>1
        <3>3. QED
            BY <2>1, <3>2 DEF KeptStep
    <2>2. CASE n # 0 /\ n < i
        <3>1. n \in 1 .. N /\ n - 1 \in 0 .. N /\ n - 1 < i
            BY <1>1, <2>2
        <3>2. g[n] = SubSeq(pile, 1, n) /\ g[n - 1] = SubSeq(pile, 1, n - 1)
            BY <2>2, <3>1
        <3>3. SubSeq(pile, 1, n) = Append(SubSeq(pile, 1, n - 1), pile[n])
            BY <1>1, <3>1, Extended
        <3>4. pile[n] # pile[i]
            BY <1>1, <2>2, <3>1
        <3>5. QED
            BY <2>2, <3>2, <3>3, <3>4 DEF KeptStep
    <2>3. CASE n = i
        <3>1. n - 1 \in 0 .. N /\ n - 1 < i /\ ~(n < i)
            BY <1>1, <2>3
        <3>2. g[n] = front \o SubSeq(pile, i + 1, n) /\ g[n - 1] = SubSeq(pile, 1, n - 1)
            BY <3>1
        <3>3. SubSeq(pile, i + 1, n) = <<>>
            BY <1>1, <2>3, SubSeqEmpty
        <3>4. front \o <<>> = front
            BY <1>2, ConcatEmptySeq
        <3>5. g[n] = g[n - 1]
            BY <2>3, <3>2, <3>3, <3>4
        <3>6. QED
            BY <1>1, <2>3, <3>5 DEF KeptStep
    <2>4. CASE n > i
        <3>1. n \in i + 1 .. N /\ i + 1 \in 1 .. N /\ n - 1 \in 0 .. N /\ ~(n - 1 < i) /\ n # 0
            BY <1>1, <2>4
        <3> DEFINE rest == SubSeq(pile, i + 1, n - 1)
        <3>2. g[n] = front \o SubSeq(pile, i + 1, n) /\ g[n - 1] = front \o rest
            BY <2>4, <3>1
        <3>3. rest \in Seq(Records) /\ SubSeq(pile, i + 1, n) = Append(rest, pile[n])
            BY <3>1, Extended
        <3> HIDE DEF rest
        <3>4. pile[n] # pile[i] /\ pile[n] \in Records
            BY <1>1, <2>4, <3>1
        <3>5. front \o Append(rest, pile[n]) = Append(front \o rest, pile[n])
            BY <1>2, <3>3, <3>4, AppendAfter
        <3>6. QED
            BY <3>1, <3>2, <3>3, <3>4, <3>5 DEF KeptStep
    <2>5. QED
        BY <1>1, <2>1, <2>2, <2>3, <2>4
<1>4. g[N] = Ledger!Removal(pile, i)
    <2>1. N \in 0 .. N /\ ~(N < i)
        BY <1>1
    <2>2. QED
        BY <2>1 DEF Ledger!Removal
<1>5. g = [n \in 0 .. N |-> KeptStep(pile, pile[i], g, n)]
    <2>1. g = [n \in 0 .. N |-> g[n]]
        OBVIOUS
    <2> HIDE DEF g
    <2>2. QED
        BY <1>3, <2>1
<1> HIDE DEF g
<1>6. WithoutRecord(pile, pile[i]) = g[N]
    BY <1>5, FilterIs
<1>7. QED
    BY <1>4, <1>6
-----------------------------------------------------------------------------
(* Piles of a store.                                                        *)

OwnPile(pile, s) ==
    /\ pile \in Seq(Records)
    /\ \A i \in DOMAIN pile : StoreOf[pile[i]] = s
    /\ \A i, j \in DOMAIN pile : pile[i] = pile[j] => i = j

\* The empty pile is a pile of every store.
LEMMA EmptyPile == ASSUME NEW s PROVE OwnPile(<<>>, s)
BY DEF OwnPile

\* The places of a pile and what is in them.
LEMMA PileDomain ==
    ASSUME NEW pile \in Seq(Records)
    PROVE  Len(pile) \in Nat /\ DOMAIN pile = 1 .. Len(pile)
           /\ \A i \in 1 .. Len(pile) : pile[i] \in Records
BY LenProperties, ElementOfSeq

\* A record of the store that is not in the pile goes to its end, and the
\* pile stays the store's, without repetition.
LEMMA WithRecordKept ==
    ASSUME NEW s, NEW pile, OwnPile(pile, s), NEW r \in Records, StoreOf[r] = s,
           r \notin Listed(pile)
    PROVE  /\ WithRecord(pile, r) = Append(pile, r)
           /\ OwnPile(WithRecord(pile, r), s)
<1> DEFINE new == Append(pile, r)
<1>1. pile \in Seq(Records) /\ Len(pile) \in Nat /\ DOMAIN pile = 1 .. Len(pile)
    BY PileDomain DEF OwnPile
<1>2. WithRecord(pile, r) = new
    BY DEF WithRecord
<1>3. /\ new \in Seq(Records) /\ Len(new) = Len(pile) + 1
      /\ \A i \in 1 .. Len(pile) : new[i] = pile[i]
      /\ new[Len(pile) + 1] = r
    BY <1>1, AppendProperties
<1> HIDE DEF new
<1>4. DOMAIN new = 1 .. Len(pile) + 1
    BY <1>3, PileDomain
<1>5. \A i \in 1 .. Len(pile) : new[i] # r
    BY <1>1, <1>3 DEF Listed
<1>6. \A i \in DOMAIN new : StoreOf[new[i]] = s
    <2> SUFFICES ASSUME NEW i \in DOMAIN new PROVE StoreOf[new[i]] = s
        OBVIOUS
    <2>1. CASE i = Len(pile) + 1
        BY <1>3, <2>1
    <2>2. CASE i \in 1 .. Len(pile)
        BY <1>1, <1>3, <2>2 DEF OwnPile
    <2>3. QED
        BY <1>1, <1>4, <2>1, <2>2
<1>7. \A i, j \in DOMAIN new : new[i] = new[j] => i = j
    <2> SUFFICES ASSUME NEW i \in DOMAIN new, NEW j \in DOMAIN new, new[i] = new[j]
                 PROVE  i = j
        OBVIOUS
    <2>1. CASE i \in 1 .. Len(pile) /\ j \in 1 .. Len(pile)
        BY <1>1, <1>3, <2>1 DEF OwnPile
    <2>2. CASE i = Len(pile) + 1 \/ j = Len(pile) + 1
        BY <1>1, <1>3, <1>4, <1>5, <2>2
    <2>3. QED
        BY <1>1, <1>4, <2>1, <2>2
<1>8. QED
    BY <1>2, <1>3, <1>6, <1>7 DEF OwnPile

\* Taking a record out is the ledger's removal at one place, and the pile
\* stays the store's, without repetition.
LEMMA WithoutRecordKept ==
    ASSUME NEW s, NEW pile, OwnPile(pile, s), NEW r \in Listed(pile)
    PROVE  /\ OwnPile(WithoutRecord(pile, r), s)
           /\ Len(WithoutRecord(pile, r)) = Len(pile) - 1
           /\ \E i \in DOMAIN pile : WithoutRecord(pile, r) = Ledger!Removal(pile, i)
<1>1. pile \in Seq(Records) /\ Len(pile) \in Nat /\ DOMAIN pile = 1 .. Len(pile)
    BY PileDomain DEF OwnPile
<1>2. PICK i \in 1 .. Len(pile) : pile[i] = r
    BY <1>1 DEF Listed
<1> DEFINE new == WithoutRecord(pile, r)
<1>3. new = Ledger!Removal(pile, i)
    <2>1. \A j \in 1 .. Len(pile) : pile[j] = pile[i] => j = i
        BY <1>1, <1>2 DEF OwnPile
    <2>2. QED
        BY <1>1, <1>2, <2>1, FilterIsRemoval
<1>4. /\ new \in Seq(Records) /\ Len(new) = Len(pile) - 1
      /\ \A j \in 1 .. Len(pile) - 1 : new[j] = IF j < i THEN pile[j] ELSE pile[j + 1]
    BY <1>1, <1>3, RemovalIs
<1> HIDE DEF new
<1>5. DOMAIN new = 1 .. Len(pile) - 1
    BY <1>4, PileDomain
<1> DEFINE from(j) == IF j < i THEN j ELSE j + 1
<1>6. \A j \in DOMAIN new : from(j) \in DOMAIN pile /\ new[j] = pile[from(j)]
    BY <1>1, <1>2, <1>4, <1>5
<1>7. \A j, k \in DOMAIN new : from(j) = from(k) => j = k
    BY <1>1, <1>2, <1>5
<1> HIDE DEF from
<1>8. OwnPile(new, s)
    BY <1>4, <1>6, <1>7 DEF OwnPile
<1>9. QED
    BY <1>1, <1>3, <1>4, <1>8 DEF new

-----------------------------------------------------------------------------
(* What is on screen.                                                       *)

\* Controls are elements, told apart by their kinds.
LEMMA KindsTyped ==
    /\ \A k \in { "body", "header", "pile", "title", "clear", "yes", "no", "close",
                  "disconnect", "send", "connect", "shop", "keep", "retry" } :
         Element(k) \in Elements /\ Element(k).kind = k
    /\ \A r \in Records :
         /\ Link(r) \in Elements /\ Link(r).kind = "link"
         /\ Remove(r) \in Elements /\ Remove(r).kind = "remove" /\ Remove(r).rec = r
         /\ Toggle(r) \in Elements
BY DEF Elements, Element, Link, Remove, Toggle

\* The elements that are not controls of the sheet.
LEMMA PartsTyped ==
    /\ Body \in Elements /\ Header \in Elements /\ PileButton \in Elements
    /\ Title \in Elements
BY KindsTyped DEF Body, Header, PileButton, Title

\* The items of two lists, one after the other.
LEMMA ListedConcat ==
    ASSUME NEW a \in Seq(Elements), NEW b \in Seq(Elements)
    PROVE  a \o b \in Seq(Elements) /\ Listed(a \o b) = Listed(a) \cup Listed(b)
<1>1. /\ Len(a) \in Nat /\ Len(b) \in Nat
      /\ DOMAIN a = 1 .. Len(a) /\ DOMAIN b = 1 .. Len(b)
    BY LenProperties
<1>2. /\ a \o b \in Seq(Elements) /\ Len(a \o b) = Len(a) + Len(b)
      /\ \A i \in 1 .. Len(a) + Len(b) :
           (a \o b)[i] = IF i <= Len(a) THEN a[i] ELSE b[i - Len(a)]
    BY ConcatProperties
<1> DEFINE c == a \o b
<1>3. DOMAIN c = 1 .. Len(a) + Len(b)
    BY <1>2, LenProperties
<1>4. \A i \in DOMAIN c : c[i] \in Listed(a) \cup Listed(b)
    BY <1>1, <1>2, <1>3 DEF Listed
<1>5. \A i \in DOMAIN a : i \in DOMAIN c /\ c[i] = a[i]
    BY <1>1, <1>2, <1>3
<1>6. \A i \in DOMAIN b : Len(a) + i \in DOMAIN c /\ c[Len(a) + i] = b[i]
    BY <1>1, <1>2, <1>3
<1> HIDE DEF c
<1>7. Listed(c) \subseteq Listed(a) \cup Listed(b)
    BY <1>4 DEF Listed
<1>8. Listed(a) \subseteq Listed(c) /\ Listed(b) \subseteq Listed(c)
    BY <1>5, <1>6 DEF Listed
<1>9. QED
    BY <1>2, <1>7, <1>8 DEF c

\* The items of the empty list, of one item and of two.
LEMMA ListedFew ==
    ASSUME NEW a \in Elements, NEW b \in Elements
    PROVE  /\ <<>> \in Seq(Elements) /\ Listed(<<>>) = {}
           /\ <<a>> \in Seq(Elements) /\ Listed(<<a>>) = { a }
           /\ <<a, b>> \in Seq(Elements) /\ Listed(<<a, b>>) = { a, b }
BY DEF Listed

\* The sheet's records: a link and a button for each.
LEMMA RecordsShown ==
    ASSUME NEW p, p.pile \in Seq(Records)
    PROVE  /\ RecordControls(p) \in Seq(Elements)
           /\ \A c \in Listed(RecordControls(p)) :
                \E r \in Listed(p.pile) : c = Link(r) \/ c = Remove(r)
<1> DEFINE N == Len(p.pile)
           C == RecordControls(p)
<1>1. N \in Nat /\ DOMAIN p.pile = 1 .. N /\ \A i \in 1 .. N : p.pile[i] \in Records
    BY PileDomain
<1>2. ASSUME NEW i \in 1 .. 2 * N
      PROVE  \E r \in Listed(p.pile) : r \in Records /\ (C[i] = Link(r) \/ C[i] = Remove(r))
    <2>1. C[i] = IF i % 2 = 1 THEN Link(p.pile[(i + 1) \div 2]) ELSE Remove(p.pile[i \div 2])
        BY DEF RecordControls
    <2>2. CASE i % 2 = 1
        <3>1. (i + 1) \div 2 \in 1 .. N
            BY <1>1, <2>2
        <3>2. QED
            BY <1>1, <2>1, <2>2, <3>1 DEF Listed
    <2>3. CASE i % 2 # 1
        <3>1. i \div 2 \in 1 .. N
            BY <1>1, <2>3
        <3>2. QED
            BY <1>1, <2>1, <2>3, <3>1 DEF Listed
    <2>4. QED
        BY <2>2, <2>3
<1>3. C = [i \in 1 .. 2 * N |-> C[i]] /\ DOMAIN C = 1 .. 2 * N
    BY DEF RecordControls
<1> HIDE DEF C
<1>4. \A i \in 1 .. 2 * N : C[i] \in Elements
    BY <1>2, KindsTyped
<1>5. C \in Seq(Elements)
    BY <1>1, <1>3, <1>4, IsASeq
<1>6. \A c \in Listed(C) : \E r \in Listed(p.pile) : c = Link(r) \/ c = Remove(r)
    BY <1>2, <1>3 DEF Listed
<1>7. QED
    BY <1>5, <1>6 DEF C
LEMMA ClearTyped ==
    ASSUME NEW p, p.confirm \in BOOLEAN
    PROVE  /\ ClearControls(p) \in Seq(Elements)
           /\ \A c \in Listed(ClearControls(p)) :
                /\ c.kind \in { "yes", "no", "clear" } /\ p.pile # <<>>
                /\ c.kind \in { "yes", "no" } => p.confirm
                /\ c.kind = "clear" => ~p.confirm
<1>1. /\ Element("yes") \in Elements /\ Element("no") \in Elements
      /\ Element("clear") \in Elements
      /\ Element("yes").kind = "yes" /\ Element("no").kind = "no"
      /\ Element("clear").kind = "clear"
    BY KindsTyped
<1>2. CASE p.pile = <<>>
    BY <1>1, <1>2, ListedFew DEF ClearControls
<1>3. CASE p.pile # <<>> /\ p.confirm
    <2>1. ClearControls(p) = <<Element("yes"), Element("no")>>
        BY <1>3 DEF ClearControls
    <2>2. Listed(ClearControls(p)) = { Element("yes"), Element("no") }
        BY <1>1, <2>1, ListedFew
    <2>3. QED
        BY <1>1, <1>3, <2>1, <2>2
<1>4. CASE p.pile # <<>> /\ ~p.confirm
    <2>1. ClearControls(p) = <<Element("clear")>>
        BY <1>4 DEF ClearControls
    <2>2. Listed(ClearControls(p)) = { Element("clear") }
        BY <1>1, <2>1, ListedFew
    <2>3. QED
        BY <1>1, <1>4, <2>1, <2>2
<1>5. QED
    BY <1>2, <1>3, <1>4

Footers == { "disconnect", "send", "connect", "shop", "keep", "retry" }

\* The footer's action, and the state of the request it needs.
LEMMA FooterTyped ==
    ASSUME NEW p, NEW s, p.wl \in { "idle", "creating", "success", "error" }
    PROVE  /\ FooterControls(p, s) \in Seq(Elements)
           /\ \A c \in Listed(FooterControls(p, s)) :
                /\ c.kind \in Footers
                /\ c.kind \in { "send", "connect" } => p.wl = "idle"
                /\ c.kind \in { "retry", "keep" } => p.wl \in { "error", "success" }
<1>1. \A k \in Footers : Element(k) \in Elements /\ Element(k).kind = k
    BY KindsTyped DEF Footers
<1>2. \A k \in Footers : <<Element(k)>> \in Seq(Elements) /\ Listed(<<Element(k)>>) = { Element(k) }
    BY <1>1, ListedFew
<1>3. <<>> \in Seq(Elements) /\ Listed(<<>>) = {}
    BY <1>1, ListedFew DEF Footers
<1> DEFINE A == ConnectedAccount
           P == PickAction(p, s)
<1>4. A \in Seq(Elements) /\ \A c \in Listed(A) : c.kind = "disconnect"
    BY <1>1, <1>2, <1>3 DEF ConnectedAccount, Footers
<1>5. /\ P \in Seq(Elements)
      /\ \A c \in Listed(P) : /\ c.kind \in Footers
                              /\ c.kind \in { "send", "connect" } => p.wl = "idle"
                              /\ c.kind \in { "retry", "keep" } => p.wl \in { "error", "success" }
    <2>1. CASE p.wl = "creating"
        <3>1. P = <<>>
            BY <2>1, Zenon DEF PickAction
        <3>2. QED
            BY <1>3, <3>1
    <2>2. CASE p.wl = "success"
        <3>1. P = <<Element("shop")>> \/ P = <<Element("keep")>>
            BY <2>2, Zenon DEF PickAction, ResultControls
        <3>2. QED
            BY <1>1, <1>2, <2>2, <3>1 DEF Footers
    <2>3. CASE p.wl = "error"
        <3>1. P = <<Element("retry")>>
            BY <2>3, Zenon DEF PickAction
        <3>2. QED
            BY <1>1, <1>2, <2>3, <3>1 DEF Footers
    <2>4. CASE p.wl = "idle"
        <3>1. P = <<>> \/ P = <<Element("send")>> \/ P = <<Element("connect")>>
            BY <2>4, Zenon DEF PickAction, HandoffControls
        <3>2. QED
            BY <1>1, <1>2, <1>3, <2>4, <3>1 DEF Footers
    <2>5. QED
        BY <2>1, <2>2, <2>3, <2>4
<1> HIDE DEF A, P
<1>6. A \o P \in Seq(Elements) /\ Listed(A \o P) = Listed(A) \cup Listed(P)
    BY <1>4, <1>5, ListedConcat
<1>7. FooterControls(p, s) = IF p.pile = <<>> THEN <<>> ELSE A \o P
    BY DEF FooterControls, A, P
<1>8. QED
    BY <1>3, <1>4, <1>5, <1>6, <1>7 DEF Footers
\* What a control of the sheet says of the page that shows it.
SheetPart(p, c) ==
    \/ c.kind \in { "yes", "no" } /\ p.confirm
    \/ c.kind = "clear" /\ ~p.confirm /\ p.pile # <<>>
    \/ c = Element("close")
    \/ \E r \in Listed(p.pile) : c = Link(r) \/ c = Remove(r)
    \/ /\ c.kind \in Footers
       /\ c.kind \in { "send", "connect" } => p.wl = "idle"
       /\ c.kind \in { "retry", "keep" } => p.wl \in { "error", "success" }

\* The sheet lists elements, always the close button, each of them for the
\* reason SheetPart names.
LEMMA SheetTyped ==
    ASSUME NEW p \in Page, NEW s
    PROVE  /\ SheetControls(p, s) \in Seq(Elements)
           /\ p.open => Element("close") \in Listed(SheetControls(p, s))
           /\ \A c \in Listed(SheetControls(p, s)) : p.open /\ SheetPart(p, c)
<1> DEFINE K == ClearControls(p)
           H == HeaderControls(p)
           R == RecordControls(p)
           F == FooterControls(p, s)
           e == Element("close")
           u == <<e>>
<1>1. /\ p.pile \in Seq(Records) /\ p.confirm \in BOOLEAN /\ p.open \in BOOLEAN
      /\ p.wl \in { "idle", "creating", "success", "error" }
    BY DEF Page
<1>2. e \in Elements /\ u \in Seq(Elements) /\ Listed(u) = { e }
    BY KindsTyped, ListedFew
<1>3. K \in Seq(Elements) /\ R \in Seq(Elements) /\ F \in Seq(Elements)
    BY <1>1, ClearTyped, RecordsShown, FooterTyped
<1>4. H = K \o u
    BY DEF HeaderControls
<1>5. \A c \in Listed(K) : SheetPart(p, c)
    BY <1>1, ClearTyped DEF SheetPart
<1>6. \A c \in Listed(R) : SheetPart(p, c)
    BY <1>1, RecordsShown DEF SheetPart
<1>7. \A c \in Listed(F) : SheetPart(p, c)
    BY <1>1, FooterTyped DEF SheetPart
<1>8. SheetPart(p, e)
    BY DEF SheetPart
<1>9. SheetControls(p, s) = IF p.open THEN H \o R \o F ELSE <<>>
    BY DEF SheetControls
<1> HIDE DEF K, R, F, e, u, H
<1>10. H \in Seq(Elements) /\ Listed(H) = Listed(K) \cup { e }
    BY <1>2, <1>3, <1>4, ListedConcat
<1>11. H \o R \in Seq(Elements) /\ Listed(H \o R) = Listed(H) \cup Listed(R)
    BY <1>3, <1>10, ListedConcat
<1>12. (H \o R) \o F \in Seq(Elements) /\ Listed((H \o R) \o F) = Listed(H \o R) \cup Listed(F)
    BY <1>3, <1>11, ListedConcat
<1>13. <<>> \in Seq(Elements) /\ Listed(<<>>) = {}
    BY <1>2, ListedFew
<1>14. e = Element("close")
    BY DEF e
<1>15. QED
    BY <1>1, <1>5, <1>6, <1>7, <1>8, <1>9, <1>10, <1>11, <1>12, <1>13, <1>14

\* The controls an action needs, read back from the screen.
LEMMA ShownControls ==
    ASSUME page \in Page
    PROVE  /\ \A c : Shows(c) => at # NoStore /\ page.open /\ SheetPart(page, c)
           /\ Shows(Element("clear")) => ~page.confirm
           /\ Shows(Element("yes")) => page.confirm
           /\ Shows(Element("no")) => page.confirm
           /\ Shows(Element("send")) => page.wl = "idle"
           /\ \A c \in { Element("retry"), Element("keep") } :
                Shows(c) => page.wl \in { "error", "success" }
           /\ \A r \in Records : Shows(Remove(r)) => r \in Listed(page.pile)
<1>1. ASSUME NEW c, Shows(c) PROVE at # NoStore /\ page.open /\ SheetPart(page, c)
    BY <1>1, SheetTyped DEF Shows
<1>2. \A k \in { "clear", "yes", "no", "send", "retry", "keep" } :
        /\ Element(k).kind = k /\ Element(k) # Element("close")
        /\ \A r : Element(k) # Link(r) /\ Element(k) # Remove(r)
    BY DEF Element, Link, Remove
<1>3. Shows(Element("clear")) => ~page.confirm
    BY <1>1, <1>2 DEF SheetPart, Footers
<1>4. Shows(Element("yes")) => page.confirm
    BY <1>1, <1>2 DEF SheetPart, Footers
<1>5. Shows(Element("no")) => page.confirm
    BY <1>1, <1>2 DEF SheetPart, Footers
<1>6. Shows(Element("send")) => page.wl = "idle"
    BY <1>1, <1>2 DEF SheetPart, Footers
<1>7. ASSUME NEW c \in { Element("retry"), Element("keep") }, Shows(c)
      PROVE  page.wl \in { "error", "success" }
    BY <1>1, <1>2, <1>7 DEF SheetPart, Footers
<1>8. ASSUME NEW r \in Records, Shows(Remove(r)) PROVE r \in Listed(page.pile)
    <2>1. Remove(r).kind = "remove" /\ Remove(r).rec = r
        BY KindsTyped
    <2>2. Remove(r) # Element("close")
        BY DEF Remove, Element
    <2>3. \A x : Remove(r) # Link(x) /\ (Remove(r) = Remove(x) => x = r)
        BY DEF Remove, Link
    <2>4. SheetPart(page, Remove(r))
        BY <1>1, <1>8
    <2>5. QED
        BY <2>1, <2>2, <2>3, <2>4 DEF SheetPart, Footers
<1>9. QED
    BY <1>1, <1>3, <1>4, <1>5, <1>6, <1>7, <1>8

\* The elements of the sheet and of the page behind it.
LEMMA ScreenTyped ==
    ASSUME NEW p \in Page, NEW s
    PROVE  /\ Sheet(p, s) \subseteq Elements /\ Behind(p, s) \subseteq Elements
           /\ p.open => Title \in Sheet(p, s) /\ Behind(p, s) = {}
           /\ ~p.open => Header \in Behind(p, s) /\ Sheet(p, s) = {}
<1>1. SheetControls(p, s) \in Seq(Elements) /\ Listed(SheetControls(p, s)) \subseteq Elements
    <2>1. SheetControls(p, s) \in Seq(Elements)
        BY SheetTyped
    <2> DEFINE C == SheetControls(p, s)
    <2> HIDE DEF C
    <2>2. C \in Seq(Elements) => \A i \in DOMAIN C : C[i] \in Elements
        BY LenProperties, ElementOfSeq
    <2>3. QED
        BY <2>1, <2>2 DEF Listed, C
<1>2. \A r \in Records : Toggle(r) \in Elements
    BY KindsTyped
<1>3. Sheet(p, s) \subseteq Elements /\ (p.open => Title \in Sheet(p, s))
        /\ (~p.open => Sheet(p, s) = {})
    BY <1>1, PartsTyped DEF Sheet
<1>4. Behind(p, s) \subseteq Elements /\ (p.open => Behind(p, s) = {})
        /\ (~p.open => Header \in Behind(p, s))
    BY <1>2, PartsTyped DEF Behind
<1>5. QED
    BY <1>3, <1>4

\* They depend on the pile, on what is open, confirmed and asked of the
\* server, and on nothing else of the page.
LEMMA ScreenOf ==
    ASSUME NEW p, NEW q, NEW s, p.pile = q.pile, p.open = q.open,
           p.confirm = q.confirm, p.wl = q.wl
    PROVE  /\ SheetControls(p, s) = SheetControls(q, s)
           /\ Sheet(p, s) = Sheet(q, s) /\ Behind(p, s) = Behind(q, s)
<1>1. ClearControls(p) = ClearControls(q)
    BY DEF ClearControls
<1>2. RecordControls(p) = RecordControls(q)
    BY DEF RecordControls
<1>3. FooterControls(p, s) = FooterControls(q, s)
    BY DEF FooterControls, PickAction
<1>4. SheetControls(p, s) = SheetControls(q, s)
    BY <1>1, <1>2, <1>3 DEF SheetControls, HeaderControls
<1>5. QED
    BY <1>4 DEF Sheet, Behind

-----------------------------------------------------------------------------
(* Where the focus is.                                                      *)

FocusPlaced(p, s) ==
    p.focus \in IF p.open THEN Sheet(p, s) ELSE { Body } \cup Behind(p, s)

Reset(old, p) ==
    \/ ~old.open \/ Len(p.pile) # Len(old.pile) \/ p.confirm # old.confirm
    \/ p.wl # old.wl

\* A render changes the focus only, and leaves it on an element that is there.
\* An open sheet must have changed in one of the ways its effect depends on,
\* or keep the element that had the focus.
SameButFocus(p, q) ==
    /\ q \in Page
    /\ q.pile = p.pile /\ q.toast = p.toast /\ q.open = p.open /\ q.auto = p.auto
    /\ q.confirm = p.confirm /\ q.wl = p.wl /\ q.opener = p.opener

\* Moving the focus changes nothing else of the page.
LEMMA Refocus ==
    ASSUME NEW p \in Page, NEW f \in Elements
    PROVE  SameButFocus(p, [p EXCEPT !.focus = f]) /\ [p EXCEPT !.focus = f].focus = f
BY DEF SameButFocus, Page

\* What a render does to the focus.
LEMMA RenderPlaces ==
    ASSUME NEW p \in Page, p.open => Reset(page, p) \/ p.focus \in Sheet(p, at)
    PROVE  SameButFocus(p, Rendered(p)) /\ FocusPlaced(Rendered(p), at)
<1> DEFINE b == Blurred(p, at)
           c == Rendered(p)
<1>1. c = Refocused(page, b, at)
    BY DEF Rendered
<1>2. p.focus \in Elements
    BY DEF Page
<1>3. SameButFocus(p, p)
    BY DEF SameButFocus
<1>4. b = p \/ b = [p EXCEPT !.focus = Body]
    BY DEF Blurred
<1>5. SameButFocus(p, b) /\ (b = p \/ b.focus = Body)
    BY <1>3, <1>4, PartsTyped, Refocus
<1>6. p.focus \in Sheet(p, at) \cup Behind(p, at) => b = p
    BY DEF Blurred
<1>7. p.focus \notin Sheet(p, at) \cup Behind(p, at) => b.focus = Body
    BY PartsTyped, Refocus DEF Blurred
<1> HIDE DEF b
<1>8. b \in Page /\ b.pile = p.pile /\ b.open = p.open /\ b.confirm = p.confirm /\ b.wl = p.wl
    BY <1>5 DEF SameButFocus
<1>9. Sheet(b, at) = Sheet(p, at) /\ Behind(b, at) = Behind(p, at)
    BY <1>8, ScreenOf
<1>10. c = IF b.open /\ Reset(page, b) /\ b.focus \notin Sheet(b, at)
           THEN [b EXCEPT !.focus = Title] ELSE b
    BY <1>1 DEF Refocused, Reset
<1> HIDE DEF c
<1>11. SameButFocus(b, c) /\ (c = b \/ c.focus = Title)
    BY <1>8, <1>10, PartsTyped, Refocus DEF SameButFocus
<1>12. SameButFocus(p, c)
    BY <1>5, <1>11 DEF SameButFocus
<1>13. c.open = p.open /\ Sheet(c, at) = Sheet(p, at) /\ Behind(c, at) = Behind(p, at)
    BY <1>12, ScreenOf DEF SameButFocus
<1>14. p.open \in BOOLEAN
    BY DEF Page
<1>15. CASE p.open
    <2>1. Title \in Sheet(p, at) /\ Behind(p, at) = {}
        BY <1>15, ScreenTyped
    <2>2. CASE p.focus \in Sheet(p, at)
        <3>1. b = p
            BY <1>6, <2>2
        <3>2. c.focus \in Sheet(p, at)
            BY <1>11, <2>1, <2>2, <3>1
        <3>3. QED
            BY <1>12, <1>13, <1>15, <3>2 DEF FocusPlaced, c
    <2>3. CASE p.focus \notin Sheet(p, at)
        <3>1. Reset(page, p)
            BY <1>15, <2>3
        <3>2. Reset(page, b)
            BY <1>8, <3>1 DEF Reset
        <3>3. c.focus \in Sheet(p, at)
            BY <1>8, <1>9, <1>10, <1>11, <1>15, <2>1, <3>2, PartsTyped, Refocus
        <3>4. QED
            BY <1>12, <1>13, <1>15, <3>3 DEF FocusPlaced, c
    <2>4. QED
        BY <2>2, <2>3
<1>16. CASE ~p.open
    <2>1. c = b /\ Sheet(p, at) = {}
        BY <1>8, <1>10, <1>16, ScreenTyped
    <2>2. b.focus \in { Body } \cup Behind(p, at)
        BY <1>6, <1>7, <2>1
    <2>3. QED
        BY <1>12, <1>13, <1>16, <2>1, <2>2 DEF FocusPlaced, c
<1>17. QED
    BY <1>14, <1>15, <1>16
-----------------------------------------------------------------------------
(* The invariant: the three the runs check, which need each other.  That an  *)
(* answer is real rests on the requests being of the mounted page, and that  *)
(* the focus has its place on a closed sheet asking nothing.                 *)

PileIInv == PileInv /\ FocusIsPlaced /\ AnswersAreReal

\* While the session stays the same, the screen after a step is a function of
\* the new page.
LEMMA FocusAfter ==
    ASSUME shopper' = shopper, at' # NoStore => FocusPlaced(page', at')
    PROVE  FocusIsPlaced'
BY DEF FocusIsPlaced, FocusPlaced, Sheet, Behind, SheetControls, HeaderControls,
       ClearControls, RecordControls, FooterControls, ConnectedAccount, PickAction,
       HandoffControls, ResultControls

\* The invariant about the focus, read for the mounted page.
LEMMA FocusBefore == ASSUME FocusIsPlaced, at # NoStore PROVE FocusPlaced(page, at)
BY DEF FocusIsPlaced, FocusPlaced

\* The mounted page shows a pile of its store.
LEMMA MountedIsOwn == ASSUME PileInv, at # NoStore PROVE OwnPile(page.pile, at)
<1>1. at \in Stores /\ page.pile \in Seq(Records) /\ stored[at] = page.pile
    BY DEF PileInv, TypeOK, Page, StoredIsShown
<1>2. page.pile # Unreadable
    BY <1>1, PileAssumption
<1>3. QED
    BY <1>1, <1>2 DEF PileInv, PilesAreOwn, OwnPile

\* Storing a pile of the store keeps the storage as it has to be.
LEMMA StoredKept ==
    ASSUME PileInv, NEW s \in Stores, NEW pile, OwnPile(pile, s),
           stored' = [stored EXCEPT ![s] = pile]
    PROVE  /\ stored' \in [Stores -> Seq(Records) \cup { Unreadable }]
           /\ stored'[s] = pile
           /\ PilesAreOwn'
<1>1. stored \in [Stores -> Seq(Records) \cup { Unreadable }]
    BY DEF PileInv, TypeOK
<1>2. pile \in Seq(Records)
    BY DEF OwnPile
<1>3. \A t \in Stores : stored'[t] = IF t = s THEN pile ELSE stored[t]
    BY <1>1
<1>4. ASSUME NEW t \in Stores, stored'[t] # Unreadable
      PROVE  /\ \A i \in DOMAIN stored'[t] : StoreOf[stored'[t][i]] = t
             /\ \A i, j \in DOMAIN stored'[t] : stored'[t][i] = stored'[t][j] => i = j
    <2>1. CASE t = s
        BY <1>3, <2>1 DEF OwnPile
    <2>2. CASE t # s
        <3>1. stored'[t] = stored[t]
            BY <1>3, <2>2
        <3>2. QED
            BY <1>4, <3>1 DEF PileInv, PilesAreOwn
    <2>3. QED
        BY <2>1, <2>2
<1>5. PilesAreOwn'
    BY <1>4 DEF PilesAreOwn
<1>6. QED
    BY <1>1, <1>2, <1>3, <1>5

\* A step that stays on the mounted page and leaves the server alone.
RequestsKept ==
    /\ requests' \in [1 .. MaxInFlight -> [busy : BOOLEAN, live : BOOLEAN, items : SUBSET Records]]
    /\ RequestsAreOfPage'
    /\ wantlist' \subseteq Records
    /\ AnswersAreReal'

\* The invariant after a step that stays on the mounted page.
LEMMA StayKeeps ==
    ASSUME PileIInv, at # NoStore, at' = at, shopper' = shopper,
           page' \in Page, OwnPile(page'.pile, at),
           stored' = [stored EXCEPT ![at] = page'.pile],
           ~page'.open => ~page'.confirm, FocusPlaced(page', at), RequestsKept
    PROVE  PileIInv'
<1>1. at \in Stores
    BY DEF PileIInv, PileInv, TypeOK
<1>2. /\ stored' \in [Stores -> Seq(Records) \cup { Unreadable }]
      /\ stored'[at] = page'.pile
      /\ PilesAreOwn'
    BY <1>1, StoredKept DEF PileIInv
<1>3. TypeOK'
    BY <1>1, <1>2 DEF PileIInv, PileInv, TypeOK, RequestsKept
<1>4. StoredIsShown'
    BY <1>2 DEF StoredIsShown
<1>5. ClosedIsReset'
    BY DEF ClosedIsReset
<1>6. PileInv'
    BY <1>2, <1>3, <1>4, <1>5 DEF PileInv, RequestsKept
<1>7. FocusIsPlaced'
    BY FocusAfter
<1>8. QED
    BY <1>6, <1>7 DEF PileIInv, RequestsKept

\* Without an answer, a request that is reset or as before is still true.
LEMMA ServerAlone ==
    ASSUME PileIInv, at' = at, requests' = requests, wantlist' = wantlist,
           page'.wl \in { page.wl, "idle" }
    PROVE  RequestsKept
<1>1. RequestsAreOfPage'
    BY DEF PileIInv, PileInv, RequestsAreOfPage
<1>2. AnswersAreReal'
    BY DEF PileIInv, AnswersAreReal
<1>3. QED
    BY <1>1, <1>2 DEF PileIInv, PileInv, TypeOK, RequestsKept

\* Storing what is stored already changes nothing.
LEMMA StoredStays ==
    ASSUME PileInv, at # NoStore
    PROVE  stored = [stored EXCEPT ![at] = page.pile]
<1>1. stored \in [Stores -> Seq(Records) \cup { Unreadable }] /\ stored[at] = page.pile
    BY DEF PileInv, TypeOK, StoredIsShown
<1>2. QED
    BY <1>1

\* A render of a page p, after which the storage holds its pile.
LEMMA RenderKeeps ==
    ASSUME PileIInv, at # NoStore, at' = at, shopper' = shopper,
           NEW p \in Page, page' = Rendered(p), OwnPile(p.pile, at),
           p.open => Reset(page, p) \/ p.focus \in Sheet(p, at),
           ~p.open => ~p.confirm,
           stored' = [stored EXCEPT ![at] = p.pile], RequestsKept
    PROVE  PileIInv' /\ page'.pile = p.pile
<1>1. SameButFocus(p, page') /\ FocusPlaced(page', at)
    BY RenderPlaces
<1>2. page' \in Page /\ page'.pile = p.pile /\ page'.open = p.open /\ page'.confirm = p.confirm
    BY <1>1 DEF SameButFocus
<1>3. QED
    BY <1>1, <1>2, StayKeeps

\* The common case: the server is left alone too.
LEMMA ClickKeeps ==
    ASSUME PileIInv, at # NoStore, at' = at, shopper' = shopper,
           requests' = requests, wantlist' = wantlist,
           NEW p \in Page, page' = Rendered(p), OwnPile(p.pile, at),
           p.open => Reset(page, p) \/ p.focus \in Sheet(p, at),
           ~p.open => ~p.confirm, p.wl \in { page.wl, "idle" },
           stored' = [stored EXCEPT ![at] = p.pile]
    PROVE  PileIInv' /\ page'.pile = p.pile
<1>1. page'.wl = p.wl
    BY RenderPlaces DEF SameButFocus
<1>2. RequestsKept
    BY <1>1, ServerAlone
<1>3. QED
    BY <1>2, RenderKeeps
\* The pages the shopper's clicks are rendered from.
LEMMA PageFields ==
    ASSUME NEW p \in Page
    PROVE  /\ p.pile \in Seq(Records) /\ p.toast \in Records \cup { NoRecord }
           /\ p.open \in BOOLEAN /\ p.auto \in BOOLEAN /\ p.confirm \in BOOLEAN
           /\ p.wl \in { "idle", "creating", "success", "error" }
           /\ p.focus \in Elements /\ p.opener \in Elements
BY DEF Page

\* A click may change the pile, the toast, what is open or confirmed, the
\* state of the request and the focus, within their types.
LEMMA Clicked ==
    ASSUME NEW p \in Page, NEW pile \in Seq(Records), NEW toast \in Records \cup { NoRecord },
           NEW open \in BOOLEAN, NEW confirm \in BOOLEAN,
           NEW wl \in { "idle", "creating", "success", "error" }, NEW f \in Elements
    PROVE  /\ [p EXCEPT !.pile = pile, !.toast = toast, !.focus = f] \in Page
           /\ [p EXCEPT !.pile = pile, !.focus = f] \in Page
           /\ [p EXCEPT !.toast = toast] \in Page
           /\ [p EXCEPT !.confirm = confirm, !.focus = f] \in Page
           /\ [p EXCEPT !.pile = pile, !.confirm = confirm, !.focus = f] \in Page
           /\ [p EXCEPT !.open = open, !.focus = f] \in Page
           /\ [p EXCEPT !.wl = wl, !.focus = f] \in Page
           /\ [p EXCEPT !.wl = wl] \in Page
           /\ [p EXCEPT !.open = open, !.confirm = confirm, !.wl = wl] \in Page
           /\ [p EXCEPT !.focus = f] \in Page
BY DEF Page

\* What the invariant says of the mounted page.
LEMMA PlaceKnown ==
    ASSUME PileInv
    PROVE  /\ page \in Page /\ at \in Stores \cup { NoStore }
           /\ at # NoStore => at \in Stores
           /\ \A r \in Records : StoreOf[r] \in Stores /\ StoreOf[r] # NoStore
           /\ page.open => at # NoStore
           /\ ~page.open => ~page.confirm
<1>1. page \in Page /\ at \in Stores \cup { NoStore }
    BY DEF PileInv, TypeOK
<1>2. \A r \in Records : StoreOf[r] \in Stores /\ StoreOf[r] # NoStore
    BY PileAssumption
<1>3. page.open => at # NoStore
    BY DEF PileInv, Blank
<1>4. ~page.open => ~page.confirm
    BY DEF PileInv, ClosedIsReset
<1>5. QED
    BY <1>1, <1>2, <1>3, <1>4

\* A record put on the pile.
LEMMA AddKeeps ==
    ASSUME PileIInv, NEW r \in Records, AddToPile(r)
    PROVE  PileIInv' /\ page'.pile = Append(page.pile, r) /\ r \notin Listed(page.pile)
<1> DEFINE p == [page EXCEPT !.pile = WithRecord(@, r), !.toast = r, !.focus = Toggle(r)]
<1>1. PileInv
    BY DEF PileIInv
<1>2. at = StoreOf[r] /\ at # NoStore /\ ~page.open /\ r \notin Listed(page.pile)
    BY <1>1, PlaceKnown DEF AddToPile, InPile
<1>3. WithRecord(page.pile, r) = Append(page.pile, r) /\ OwnPile(WithRecord(page.pile, r), at)
    BY <1>1, <1>2, MountedIsOwn, WithRecordKept
<1>4. page \in Page /\ WithRecord(page.pile, r) \in Seq(Records) /\ Toggle(r) \in Elements
    BY <1>1, <1>3, PlaceKnown, KindsTyped DEF OwnPile
<1>5. /\ p \in Page /\ p.pile = WithRecord(page.pile, r) /\ p.open = page.open
      /\ p.confirm = page.confirm /\ p.wl = page.wl
    <2>1. p \in Page
        BY <1>4, Clicked
    <2>2. QED
        BY <1>4, <2>1 DEF Page
<1>6. page' = Rendered(p) /\ stored' = [stored EXCEPT ![at] = page'.pile]
        /\ UNCHANGED <<at, shopper, requests, wantlist>>
    BY DEF AddToPile, Persist, StorageKey
<1> HIDE DEF p
<1>7. page'.pile = p.pile
    BY <1>2, <1>5, <1>6, RenderPlaces DEF SameButFocus
<1>8. ~p.confirm
    BY <1>1, <1>2, <1>5, PlaceKnown
<1>9. PileIInv'
    BY <1>2, <1>3, <1>5, <1>6, <1>7, <1>8, ClickKeeps
<1>10. QED
    BY <1>2, <1>3, <1>5, <1>7, <1>9

\* A record taken out by its own button.
LEMMA RemoveOnPageKeeps ==
    ASSUME PileIInv, NEW r \in Records, RemoveOnPage(r)
    PROVE  PileIInv' /\ page'.pile = WithoutRecord(page.pile, r)
           /\ r \in Listed(page.pile) /\ at # NoStore
<1> DEFINE p == [page EXCEPT !.pile = WithoutRecord(@, r), !.focus = Toggle(r)]
<1>1. PileInv
    BY DEF PileIInv
<1>2. at = StoreOf[r] /\ at # NoStore /\ ~page.open /\ r \in Listed(page.pile)
    BY <1>1, PlaceKnown DEF RemoveOnPage, InPile
<1>3. OwnPile(WithoutRecord(page.pile, r), at)
    BY <1>1, <1>2, MountedIsOwn, WithoutRecordKept
<1>4. page \in Page /\ WithoutRecord(page.pile, r) \in Seq(Records) /\ Toggle(r) \in Elements
    BY <1>1, <1>3, PlaceKnown, KindsTyped DEF OwnPile
<1>5. /\ p \in Page /\ p.pile = WithoutRecord(page.pile, r) /\ p.open = page.open
      /\ p.confirm = page.confirm /\ p.wl = page.wl
    <2>1. p \in Page
        BY <1>4, Clicked
    <2>2. QED
        BY <1>4, <2>1 DEF Page
<1>6. page' = Rendered(p) /\ stored' = [stored EXCEPT ![at] = page'.pile]
        /\ UNCHANGED <<at, shopper, requests, wantlist>>
    BY DEF RemoveOnPage, Persist, StorageKey
<1> HIDE DEF p
<1>7. page'.pile = p.pile
    BY <1>2, <1>5, <1>6, RenderPlaces DEF SameButFocus
<1>8. ~p.confirm
    BY <1>1, <1>2, <1>5, PlaceKnown
<1>9. PileIInv'
    BY <1>2, <1>3, <1>5, <1>6, <1>7, <1>8, ClickKeeps
<1>10. QED
    BY <1>2, <1>5, <1>7, <1>9

\* A record taken out in the sheet: its button is gone, so the focus moves.
LEMMA RemoveInSheetKeeps ==
    ASSUME PileIInv, NEW r \in Records, RemoveInSheet(r)
    PROVE  PileIInv' /\ page'.pile = WithoutRecord(page.pile, r)
           /\ r \in Listed(page.pile) /\ at # NoStore
<1> DEFINE p == [page EXCEPT !.pile = WithoutRecord(@, r), !.focus = Remove(r)]
<1>1. PileInv /\ page \in Page
    BY PlaceKnown DEF PileIInv
<1>2. at # NoStore /\ page.open /\ r \in Listed(page.pile)
    BY <1>1, ShownControls DEF RemoveInSheet
<1>3. OwnPile(page.pile, at)
    BY <1>1, <1>2, MountedIsOwn
<1>4. /\ OwnPile(WithoutRecord(page.pile, r), at)
      /\ Len(WithoutRecord(page.pile, r)) = Len(page.pile) - 1
    BY <1>2, <1>3, WithoutRecordKept
<1>5. WithoutRecord(page.pile, r) \in Seq(Records) /\ Remove(r) \in Elements
    BY <1>4, KindsTyped DEF OwnPile
<1>6. /\ p \in Page /\ p.pile = WithoutRecord(page.pile, r) /\ p.open = page.open
      /\ p.confirm = page.confirm /\ p.wl = page.wl
    <2>1. p \in Page
        BY <1>1, <1>5, Clicked
    <2>2. QED
        BY <1>1, <2>1 DEF Page
<1>7. page' = Rendered(p) /\ stored' = [stored EXCEPT ![at] = page'.pile]
        /\ UNCHANGED <<at, shopper, requests, wantlist>>
    BY DEF RemoveInSheet, Persist, StorageKey
<1> HIDE DEF p
<1>8. Len(p.pile) # Len(page.pile)
    <2>1. Len(page.pile) \in Nat
        BY <1>3, PileDomain DEF OwnPile
    <2>2. QED
        BY <1>4, <1>6, <2>1
<1>9. Reset(page, p)
    BY <1>8 DEF Reset
<1>10. page'.pile = p.pile
    BY <1>6, <1>7, <1>9, RenderPlaces DEF SameButFocus
<1>11. PileIInv'
    BY <1>2, <1>4, <1>6, <1>7, <1>9, <1>10, ClickKeeps
<1>12. QED
    BY <1>2, <1>6, <1>10, <1>11
\* The steps that leave the pile alone.
SamePile == page'.pile = page.pile

\* The toast that times out.
LEMMA ToastKeeps ==
    ASSUME PileIInv, ToastTimeout
    PROVE  PileIInv' /\ SamePile /\ at # NoStore
<1>1. PileInv /\ page \in Page
    BY PlaceKnown DEF PileIInv
<1>2. at # NoStore
    BY <1>1 DEF PileInv, Blank, ToastTimeout
<1>3. page' = [page EXCEPT !.toast = NoRecord] /\ UNCHANGED <<stored, at, shopper, requests, wantlist>>
    BY DEF ToastTimeout
<1>4. page' \in Page
    BY <1>1, <1>3, PageFields, Clicked
<1>5. /\ page'.pile = page.pile /\ page'.open = page.open /\ page'.confirm = page.confirm
      /\ page'.wl = page.wl /\ page'.focus = page.focus
    BY <1>1, <1>3 DEF Page
<1>6. FocusPlaced(page', at)
    <2>1. FocusPlaced(page, at)
        BY <1>2, FocusBefore DEF PileIInv
    <2>2. Sheet(page', at) = Sheet(page, at) /\ Behind(page', at) = Behind(page, at)
        BY <1>5, ScreenOf
    <2>3. QED
        BY <1>5, <2>1, <2>2 DEF FocusPlaced
<1>7. RequestsKept
    BY <1>3, <1>5, ServerAlone
<1>8. stored' = [stored EXCEPT ![at] = page'.pile]
    BY <1>1, <1>2, <1>3, <1>5, StoredStays
<1>9. OwnPile(page'.pile, at) /\ (~page'.open => ~page'.confirm)
    BY <1>1, <1>2, <1>5, MountedIsOwn, PlaceKnown
<1>10. PileIInv'
    BY <1>2, <1>3, <1>4, <1>6, <1>7, <1>8, <1>9, StayKeeps
<1>11. QED
    BY <1>2, <1>5, <1>10 DEF SamePile

\* A click that is rendered from a page p with the same pile.
LEMMA SamePileKeeps ==
    ASSUME PileIInv, at # NoStore, UNCHANGED <<stored, at, shopper, requests, wantlist>>,
           NEW p \in Page, page' = Rendered(p), p.pile = page.pile,
           p.open => Reset(page, p) \/ p.focus \in Sheet(p, at),
           ~p.open => ~p.confirm, p.wl \in { page.wl, "idle" }
    PROVE  PileIInv' /\ SamePile
<1>1. PileInv
    BY DEF PileIInv
<1>2. OwnPile(p.pile, at) /\ stored' = [stored EXCEPT ![at] = p.pile]
    BY <1>1, MountedIsOwn, StoredStays
<1>3. QED
    BY <1>2, ClickKeeps DEF SamePile

\* The sheet that opens.
LEMMA OpenKeeps ==
    ASSUME PileIInv, OpenPile
    PROVE  PileIInv' /\ SamePile /\ at # NoStore
<1> DEFINE o == [page EXCEPT !.open = TRUE, !.focus = PileButton]
           p == Engaged(o)
<1>1. PileInv /\ page \in Page /\ at # NoStore
    BY PlaceKnown DEF PileIInv, OpenPile
<1>2. ~page.open
    BY DEF OpenPile, Behind
<1>3. /\ o \in Page /\ o.pile = page.pile /\ o.open = TRUE /\ o.confirm = page.confirm
      /\ o.wl = page.wl
    <2>1. o \in Page
        BY <1>1, PageFields, PartsTyped, Clicked
    <2>2. QED
        BY <1>1, <2>1 DEF Page
<1> HIDE DEF o
<1>4. /\ p \in Page /\ p.pile = page.pile /\ p.open = TRUE /\ p.wl = page.wl
    BY <1>3, PartsTyped DEF Engaged, Page
<1>5. page' = Rendered(p) /\ UNCHANGED <<stored, at, shopper, requests, wantlist>>
    BY DEF OpenPile, o
<1> HIDE DEF p
<1>6. Reset(page, p)
    BY <1>2 DEF Reset
<1>7. QED
    BY <1>1, <1>4, <1>5, <1>6, SamePileKeeps

\* The sheet that closes and gives the focus back.
LEMMA CloseKeeps ==
    ASSUME PileIInv, ClosePile
    PROVE  PileIInv' /\ SamePile /\ at # NoStore
<1> DEFINE o == [page EXCEPT !.open = FALSE, !.confirm = FALSE, !.wl = "idle"]
<1>1. PileInv /\ page \in Page /\ at # NoStore
    BY PlaceKnown DEF PileIInv, ClosePile
<1>2. /\ o \in Page /\ o.pile = page.pile /\ o.open = FALSE /\ o.confirm = FALSE
      /\ o.wl = "idle"
    <2>1. o \in Page
        BY <1>1, PageFields, Clicked
    <2>2. QED
        BY <1>1, <2>1 DEF Page
<1>3. page' = Restored(o, at) /\ UNCHANGED <<stored, at, shopper, requests, wantlist>>
    BY DEF ClosePile
<1> HIDE DEF o
<1> DEFINE f == IF o.opener \in { Body } \cup Behind(o, at) THEN o.opener ELSE Header
<1>4. f \in { Body } \cup Behind(o, at) /\ f \in Elements
    BY <1>2, ScreenTyped, PartsTyped
<1>5. page' = [o EXCEPT !.focus = f]
    BY <1>3 DEF Restored
<1> HIDE DEF f
<1>6. SameButFocus(o, page') /\ page'.focus = f
    BY <1>2, <1>4, <1>5, Refocus
<1>7. /\ page' \in Page /\ page'.pile = page.pile /\ page'.open = FALSE
      /\ page'.confirm = FALSE /\ page'.wl = "idle"
    BY <1>2, <1>6 DEF SameButFocus
<1>8. Behind(page', at) = Behind(o, at)
    BY <1>6, ScreenOf DEF SameButFocus
<1>9. FocusPlaced(page', at)
    BY <1>4, <1>6, <1>7, <1>8 DEF FocusPlaced
<1>10. RequestsKept
    BY <1>3, <1>7, ServerAlone
<1>11. OwnPile(page'.pile, at) /\ stored' = [stored EXCEPT ![at] = page'.pile]
    BY <1>1, <1>3, <1>7, MountedIsOwn, StoredStays
<1>12. PileIInv'
    BY <1>1, <1>3, <1>7, <1>9, <1>10, <1>11, StayKeeps
<1>13. QED
    BY <1>1, <1>7, <1>12 DEF SamePile

\* Asking for a confirmation and withdrawing it.
LEMMA ConfirmKeeps ==
    ASSUME PileIInv, RequestClear \/ CancelClear
    PROVE  PileIInv' /\ SamePile /\ at # NoStore
<1>1. PileInv /\ page \in Page /\ page.confirm \in BOOLEAN
    BY PlaceKnown DEF PileIInv, Page
<1>2. \A k \in { "clear", "no" } : Element(k) \in Elements
    BY KindsTyped
<1>3. PICK b \in BOOLEAN, k \in { "clear", "no" } :
        /\ Shows(Element(k)) /\ b # page.confirm
        /\ page' = Rendered([page EXCEPT !.confirm = b, !.focus = Element(k)])
        /\ UNCHANGED <<stored, at, shopper, requests, wantlist>>
    <2>1. CASE RequestClear
        <3>1. Shows(Element("clear")) /\ TRUE # page.confirm
            BY <1>1, <2>1, ShownControls DEF RequestClear
        <3>2. QED
            BY <2>1, <3>1 DEF RequestClear
    <2>2. CASE CancelClear
        <3>1. Shows(Element("no")) /\ FALSE # page.confirm
            BY <1>1, <2>2, ShownControls DEF CancelClear
        <3>2. QED
            BY <2>2, <3>1 DEF CancelClear
    <2>3. QED
        BY <2>1, <2>2
<1> DEFINE p == [page EXCEPT !.confirm = b, !.focus = Element(k)]
<1>4. at # NoStore /\ page.open
    BY <1>1, <1>3, ShownControls
<1>5. /\ p \in Page /\ p.pile = page.pile /\ p.open = page.open /\ p.confirm = b
      /\ p.wl = page.wl
    <2>1. p \in Page
        BY <1>1, <1>2 DEF Page
    <2>2. QED
        BY <1>1, <2>1 DEF Page
<1>6. page' = Rendered(p)
    BY <1>3
<1> HIDE DEF p
<1>7. Reset(page, p)
    BY <1>3, <1>5 DEF Reset
<1>8. QED
    BY <1>3, <1>4, <1>5, <1>6, <1>7, SamePileKeeps

\* The pile that is emptied after the confirmation.
LEMMA ClearKeeps ==
    ASSUME PileIInv, ClearPile
    PROVE  PileIInv' /\ page'.pile = <<>> /\ at # NoStore
<1> DEFINE p == [page EXCEPT !.pile = <<>>, !.confirm = FALSE, !.focus = Element("yes")]
<1>1. PileInv /\ page \in Page
    BY PlaceKnown DEF PileIInv
<1>2. at # NoStore /\ page.open /\ page.confirm
    BY <1>1, ShownControls DEF ClearPile
<1>3. /\ p \in Page /\ p.pile = <<>> /\ p.open = page.open /\ p.confirm = FALSE
      /\ p.wl = page.wl
    <2>1. p \in Page
        <3>1. <<>> \in Seq(Records) /\ Element("yes") \in Elements
            BY KindsTyped
        <3>2. QED
            BY <1>1, <3>1, PageFields, Clicked
    <2>2. QED
        BY <1>1, <2>1 DEF Page
<1>4. page' = Rendered(p) /\ stored' = [stored EXCEPT ![at] = page'.pile]
        /\ UNCHANGED <<at, shopper, requests, wantlist>>
    BY DEF ClearPile, Persist, StorageKey
<1> HIDE DEF p
<1>5. Reset(page, p)
    BY <1>2, <1>3 DEF Reset
<1>6. page'.pile = p.pile
    BY <1>3, <1>4, <1>5, RenderPlaces DEF SameButFocus
<1>7. PileIInv'
    BY <1>2, <1>3, <1>4, <1>5, <1>6, EmptyPile, ClickKeeps
<1>8. QED
    BY <1>2, <1>3, <1>6, <1>7

\* The Tab key inside the trap.
LEMMA TabKeeps ==
    ASSUME PileIInv, NEW shift \in BOOLEAN, PressTab(shift)
    PROVE  PileIInv' /\ SamePile /\ at # NoStore
<1> DEFINE c == SheetControls(page, at)
           f == TabTarget(shift)
<1>1. PileInv /\ page \in Page /\ at # NoStore /\ page.open
    BY PlaceKnown DEF PileIInv, PressTab
<1>2. c \in Seq(Elements) /\ Listed(c) # {} /\ Listed(c) \subseteq Sheet(page, at)
    BY <1>1, SheetTyped DEF Sheet
<1>3. f \in { c[1], c[Len(c)] } \/ (f = page.focus /\ page.focus \in Sheet(page, at))
    BY DEF TabTarget
<1> HIDE DEF c, f
<1>4. c[1] \in Listed(c) /\ c[Len(c)] \in Listed(c)
    <2>1. Len(c) \in Nat /\ DOMAIN c = 1 .. Len(c)
        BY <1>2, LenProperties
    <2>2. PICK i \in DOMAIN c : TRUE
        BY <1>2 DEF Listed
    <2>3. 1 \in DOMAIN c /\ Len(c) \in DOMAIN c
        BY <2>1, <2>2
    <2>4. QED
        BY <2>3 DEF Listed
<1>5. f \in Sheet(page, at) /\ f \in Elements
    BY <1>1, <1>2, <1>3, <1>4, ScreenTyped
<1>6. page' = [page EXCEPT !.focus = f] /\ UNCHANGED <<stored, at, shopper, requests, wantlist>>
    BY DEF PressTab, f
<1>7. SameButFocus(page, page') /\ page'.focus = f
    BY <1>1, <1>5, <1>6, Refocus
<1>8. Sheet(page', at) = Sheet(page, at)
    BY <1>7, ScreenOf DEF SameButFocus
<1>9. FocusPlaced(page', at)
    BY <1>1, <1>5, <1>7, <1>8 DEF FocusPlaced, SameButFocus
<1>10. RequestsKept
    BY <1>6, <1>7, ServerAlone DEF SameButFocus
<1>11. /\ OwnPile(page'.pile, at) /\ stored' = [stored EXCEPT ![at] = page'.pile]
       /\ page' \in Page /\ page'.open /\ SamePile
    BY <1>1, <1>6, <1>7, MountedIsOwn, StoredStays DEF SameButFocus, SamePile
<1>12. PileIInv'
    BY <1>1, <1>6, <1>9, <1>10, <1>11, StayKeeps
<1>13. QED
    BY <1>1, <1>11, <1>12
-----------------------------------------------------------------------------
(* Requests and their answers.                                              *)

\* Requests, and what those of the mounted page carry.
LEMMA RequestTyped ==
    ASSUME PileInv
    PROVE  /\ DOMAIN requests = 1 .. MaxInFlight
           /\ requests \in [1 .. MaxInFlight -> [busy : BOOLEAN, live : BOOLEAN, items : SUBSET Records]]
           /\ \A q \in DOMAIN requests :
                /\ requests[q] \in [busy : BOOLEAN, live : BOOLEAN, items : SUBSET Records]
                /\ requests[q].items \subseteq Records
                /\ requests[q].live =>
                     at # NoStore /\ \A r \in requests[q].items : StoreOf[r] = at
           /\ Free \in [busy : BOOLEAN, live : BOOLEAN, items : SUBSET Records]
           /\ Free.live = FALSE
<1>1. requests \in [1 .. MaxInFlight -> [busy : BOOLEAN, live : BOOLEAN, items : SUBSET Records]]
    BY DEF PileInv, TypeOK
<1>2. \A q \in DOMAIN requests : requests[q].live =>
        at # NoStore /\ \A r \in requests[q].items : StoreOf[r] = at
    BY DEF PileInv, RequestsAreOfPage
<1>3. Free \in [busy : BOOLEAN, live : BOOLEAN, items : SUBSET Records] /\ Free.live = FALSE
    BY DEF Free
<1>4. QED
    BY <1>1, <1>2, <1>3

\* A request that is sent carries records of this store.
LEMMA SendKeeps ==
    ASSUME PileIInv, NEW q \in DOMAIN requests, SendToWantlist(q)
    PROVE  PileIInv' /\ SamePile /\ at # NoStore
<1> DEFINE p == [page EXCEPT !.wl = "creating", !.focus = Element("send")]
           sent == [busy |-> TRUE, live |-> TRUE, items |-> Listed(page.pile)]
<1>1. PileInv /\ page \in Page
    BY PlaceKnown DEF PileIInv
<1>2. at # NoStore /\ page.open /\ page.wl = "idle"
    BY <1>1, ShownControls DEF SendToWantlist
<1>3. /\ p \in Page /\ p.pile = page.pile /\ p.open = page.open /\ p.confirm = page.confirm
      /\ p.wl = "creating"
    <2>1. p \in Page
        BY <1>1, PageFields, KindsTyped, Clicked
    <2>2. QED
        BY <1>1, <2>1 DEF Page
<1>4. /\ page' = Rendered(p) /\ requests' = [requests EXCEPT ![q] = sent]
      /\ UNCHANGED <<stored, at, shopper, wantlist>>
    BY DEF SendToWantlist
<1> HIDE DEF p
<1>5. Reset(page, p)
    BY <1>2, <1>3 DEF Reset
<1>6. OwnPile(page.pile, at) /\ stored' = [stored EXCEPT ![at] = p.pile]
    BY <1>1, <1>2, <1>3, <1>4, MountedIsOwn, StoredStays
<1>7. \A r \in Listed(page.pile) : r \in Records /\ StoreOf[r] = at
    <2>1. page.pile \in Seq(Records)
        BY <1>6 DEF OwnPile
    <2>2. QED
        BY <1>6, <2>1, PileDomain DEF OwnPile, Listed
<1>8. /\ sent \in [busy : BOOLEAN, live : BOOLEAN, items : SUBSET Records]
      /\ sent.busy /\ sent.live /\ sent.items = Listed(page.pile)
    BY <1>7
<1> HIDE DEF sent
<1>9. /\ requests' \in [1 .. MaxInFlight -> [busy : BOOLEAN, live : BOOLEAN, items : SUBSET Records]]
      /\ DOMAIN requests' = DOMAIN requests
      /\ \A x \in DOMAIN requests : requests'[x] = IF x = q THEN sent ELSE requests[x]
    BY <1>1, <1>4, <1>8, RequestTyped
<1>10. RequestsAreOfPage'
    <2> SUFFICES ASSUME NEW x \in DOMAIN requests
                 PROVE  /\ ~requests'[x].busy => requests'[x] = Free
                        /\ requests'[x].live =>
                             at' # NoStore /\ \A r \in requests'[x].items : StoreOf[r] = at'
        BY <1>9 DEF RequestsAreOfPage, Free
    <2>1. CASE x = q
        BY <1>2, <1>4, <1>7, <1>8, <1>9, <2>1
    <2>2. CASE x # q
        <3>1. requests'[x] = requests[x]
            BY <1>9, <2>2
        <3>2. QED
            BY <1>1, <1>4, <3>1 DEF PileInv, RequestsAreOfPage
    <2>3. QED
        BY <2>1, <2>2
<1>11. page'.wl = "creating"
    BY <1>3, <1>4, <1>5, RenderPlaces DEF SameButFocus
<1>12. AnswersAreReal'
    BY <1>8, <1>9, <1>11 DEF AnswersAreReal
<1>13. RequestsKept
    BY <1>1, <1>4, <1>9, <1>10, <1>12 DEF RequestsKept, PileInv, TypeOK
<1>14. QED
    BY <1>2, <1>3, <1>4, <1>5, <1>6, <1>13, RenderKeeps DEF SamePile

\* An answer: a success comes with at least one of the request's records.
LEMMA AnswerKeeps ==
    ASSUME PileIInv, NEW q \in DOMAIN requests, NEW wl \in { "success", "error" },
           NEW added \in SUBSET requests[q].items, wl = "success" => added # {},
           Serve(added), Answer(q, wl)
    PROVE  PileIInv' /\ SamePile /\ (at # NoStore \/ page' = page) /\ at' = at
<1> DEFINE p == [page EXCEPT !.wl = wl]
<1>1. PileInv /\ page \in Page
    BY PlaceKnown DEF PileIInv
<1>2. /\ requests' = [requests EXCEPT ![q] = Free] /\ wantlist' = wantlist \cup added
      /\ page' = IF requests[q].live THEN Rendered(p) ELSE page
      /\ UNCHANGED <<stored, at, shopper>>
    BY DEF Answer, Serve
<1>3. /\ p \in Page /\ p.pile = page.pile /\ p.open = page.open /\ p.confirm = page.confirm
      /\ p.wl = wl /\ p.focus = page.focus
    <2>1. p \in Page
        BY <1>1 DEF Page
    <2>2. QED
        BY <1>1, <2>1 DEF Page
<1> HIDE DEF p
<1>4. /\ requests' \in [1 .. MaxInFlight -> [busy : BOOLEAN, live : BOOLEAN, items : SUBSET Records]]
      /\ DOMAIN requests' = DOMAIN requests
      /\ \A x \in DOMAIN requests : requests'[x] = IF x = q THEN Free ELSE requests[x]
    BY <1>1, <1>2, RequestTyped
<1>5. RequestsAreOfPage'
    <2> SUFFICES ASSUME NEW x \in DOMAIN requests
                 PROVE  /\ ~requests'[x].busy => requests'[x] = Free
                        /\ requests'[x].live =>
                             at' # NoStore /\ \A r \in requests'[x].items : StoreOf[r] = at'
        BY <1>4 DEF RequestsAreOfPage, Free
    <2>1. CASE x = q
        BY <1>1, <1>4, <2>1, RequestTyped
    <2>2. CASE x # q
        <3>1. requests'[x] = requests[x]
            BY <1>4, <2>2
        <3>2. QED
            BY <1>1, <1>2, <3>1 DEF PileInv, RequestsAreOfPage
    <2>3. QED
        BY <2>1, <2>2
<1>6. wantlist' \subseteq Records
    BY <1>1, <1>2, RequestTyped DEF PileInv, TypeOK
<1>7. CASE requests[q].live
    <2>1. at # NoStore /\ \A r \in requests[q].items : StoreOf[r] = at
        BY <1>1, <1>7, RequestTyped
    <2>2. page' = Rendered(p)
        BY <1>2, <1>7
    <2>3. p.open => Reset(page, p) \/ p.focus \in Sheet(p, at)
        <3>1. CASE wl = page.wl
            <4>1. Sheet(p, at) = Sheet(page, at)
                BY <1>3, <3>1, ScreenOf
            <4>2. FocusPlaced(page, at)
                BY <2>1, FocusBefore DEF PileIInv
            <4>3. QED
                BY <1>3, <4>1, <4>2 DEF FocusPlaced
        <3>2. CASE wl # page.wl
            BY <1>3, <3>2 DEF Reset
        <3>3. QED
            BY <3>1, <3>2
    <2>4. page'.wl = wl
        BY <1>3, <2>2, <2>3, RenderPlaces DEF SameButFocus
    <2>5. AnswersAreReal'
        BY <1>2, <2>1, <2>4 DEF AnswersAreReal
    <2>6. RequestsKept
        BY <1>4, <1>5, <1>6, <2>5 DEF RequestsKept
    <2>7. OwnPile(p.pile, at) /\ stored' = [stored EXCEPT ![at] = p.pile]
        BY <1>1, <1>2, <1>3, <2>1, MountedIsOwn, StoredStays
    <2>8. ~p.open => ~p.confirm
        BY <1>1, <1>3, PlaceKnown
    <2>9. QED
        BY <1>2, <1>3, <2>1, <2>2, <2>3, <2>6, <2>7, <2>8, RenderKeeps DEF SamePile
<1>8. CASE ~requests[q].live
    <2>1. page' = page
        BY <1>2, <1>8
    <2>2. AnswersAreReal'
        <3>1. page.wl = "creating" => \E x \in DOMAIN requests : requests'[x].live
            BY <1>4, <1>8 DEF PileIInv, AnswersAreReal
        <3>2. page.wl = "success" => \E r \in wantlist' : StoreOf[r] = at'
            BY <1>2 DEF PileIInv, AnswersAreReal
        <3>3. QED
            BY <1>4, <2>1, <3>1, <3>2 DEF AnswersAreReal
    <2>3. TypeOK'
        BY <1>1, <1>2, <1>4, <1>6, <2>1 DEF PileInv, TypeOK
    <2>4. PileInv'
        BY <1>1, <1>2, <1>5, <2>1, <2>3
           DEF PileInv, StoredIsShown, PilesAreOwn, ClosedIsReset
    <2>5. FocusIsPlaced'
        BY <1>2, <2>1, FocusBefore, FocusAfter DEF PileIInv
    <2>6. QED
        BY <1>2, <2>1, <2>2, <2>4, <2>5 DEF PileIInv, SamePile
<1>9. QED
    BY <1>7, <1>8

\* A result that is dismissed.
LEMMA ResetKeeps ==
    ASSUME PileIInv, NEW c \in { Element("retry"), Element("keep") }, ResetResult(c)
    PROVE  PileIInv' /\ SamePile /\ at # NoStore
<1> DEFINE p == [page EXCEPT !.wl = "idle", !.focus = c]
<1>1. PileInv /\ page \in Page
    BY PlaceKnown DEF PileIInv
<1>2. at # NoStore /\ page.open /\ page.wl \in { "error", "success" }
    BY <1>1, ShownControls DEF ResetResult
<1>3. /\ p \in Page /\ p.pile = page.pile /\ p.open = page.open /\ p.confirm = page.confirm
      /\ p.wl = "idle"
    <2>1. p \in Page
        <3>1. c \in Elements
            BY KindsTyped
        <3>2. QED
            BY <1>1, <3>1, PageFields, Clicked
    <2>2. QED
        BY <1>1, <2>1 DEF Page
<1>4. page' = Rendered(p) /\ UNCHANGED <<stored, at, shopper, requests, wantlist>>
    BY DEF ResetResult
<1> HIDE DEF p
<1>5. Reset(page, p)
    BY <1>2, <1>3 DEF Reset
<1>6. QED
    BY <1>2, <1>3, <1>4, <1>5, SamePileKeeps
-----------------------------------------------------------------------------
(* A page that is mounted and a page that is left.                          *)

\* The state of the components before a page is mounted.
LEMMA BlankTyped == Blank \in Page /\ Blank.wl = "idle" /\ ~Blank.open /\ ~Blank.confirm
BY PartsTyped DEF Blank, Page

\* What a load finds is a pile of the store.
LEMMA Loaded ==
    ASSUME PileInv, NEW s \in Stores
    PROVE  OwnPile(LoadStoredPile(s), s)
<1>1. stored[s] \in Seq(Records) \cup { Unreadable }
    BY DEF PileInv, TypeOK
<1>2. CASE stored[s] = Unreadable
    BY <1>2, EmptyPile DEF LoadStoredPile, StorageKey
<1>3. CASE stored[s] # Unreadable
    BY <1>1, <1>3 DEF LoadStoredPile, StorageKey, OwnPile, PileInv, PilesAreOwn
<1>4. QED
    BY <1>2, <1>3

\* The page as it is mounted, with or without the open sheet.
LEMMA MountedIs ==
    ASSUME PileInv, NEW s \in Stores, NEW auto \in BOOLEAN
    PROVE  /\ Mounted(s, auto) \in Page /\ Mounted(s, auto).pile = LoadStoredPile(s)
           /\ Mounted(s, auto).confirm = FALSE /\ Mounted(s, auto).wl = "idle"
           /\ Mounted(s, auto).open = auto
           /\ Mounted(s, auto).focus = IF auto THEN Title ELSE Body
<1> DEFINE n == NewPage(s, auto)
           o == [n EXCEPT !.open = TRUE]
<1>1. LoadStoredPile(s) \in Seq(Records)
    BY Loaded DEF OwnPile
<1>2. /\ n \in Page /\ n.pile = LoadStoredPile(s) /\ n.confirm = FALSE /\ n.wl = "idle"
      /\ n.open = FALSE /\ n.focus = Body
    BY <1>1, BlankTyped DEF NewPage, Page, Blank
<1>3. Mounted(s, auto) = IF auto THEN Engaged(o) ELSE n
    BY DEF Mounted
<1> HIDE DEF n
<1>4. /\ o \in Page /\ o.pile = LoadStoredPile(s) /\ o.confirm = FALSE /\ o.wl = "idle"
      /\ o.open = TRUE
    BY <1>2 DEF Page
<1> HIDE DEF o
<1>5. /\ Engaged(o) \in Page /\ Engaged(o).pile = LoadStoredPile(s)
      /\ Engaged(o).confirm = FALSE /\ Engaged(o).wl = "idle" /\ Engaged(o).open = TRUE
      /\ Engaged(o).focus = Title
    BY <1>4, PartsTyped DEF Engaged, Page
<1>6. QED
    BY <1>2, <1>3, <1>5

\* The requests of a page that is gone.
LEMMA ForgottenIs ==
    ASSUME PileInv, requests' = Forgotten
    PROVE  /\ requests' \in [1 .. MaxInFlight -> [busy : BOOLEAN, live : BOOLEAN, items : SUBSET Records]]
           /\ RequestsAreOfPage'
<1>1. /\ DOMAIN requests' = 1 .. MaxInFlight /\ DOMAIN requests = 1 .. MaxInFlight
      /\ requests' = [q \in 1 .. MaxInFlight |-> [requests[q] EXCEPT !.live = FALSE]]
    BY RequestTyped DEF Forgotten
<1>2. ASSUME NEW q \in 1 .. MaxInFlight
      PROVE  /\ requests'[q] \in [busy : BOOLEAN, live : BOOLEAN, items : SUBSET Records]
             /\ requests'[q].live = FALSE
             /\ ~requests'[q].busy => requests'[q] = Free
    <2>1. requests[q] \in [busy : BOOLEAN, live : BOOLEAN, items : SUBSET Records]
        BY RequestTyped
    <2>2. requests'[q] = [requests[q] EXCEPT !.live = FALSE]
        BY <1>1
    <2>3. requests'[q] \in [busy : BOOLEAN, live : BOOLEAN, items : SUBSET Records]
          /\ requests'[q].live = FALSE /\ requests'[q].busy = requests[q].busy
        BY <2>1, <2>2
    <2>4. ASSUME ~requests'[q].busy PROVE requests'[q] = Free
        <3>1. requests[q] = Free
            BY <1>1, <2>3, <2>4 DEF PileInv, RequestsAreOfPage
        <3>2. \A f \in [busy : BOOLEAN, live : BOOLEAN, items : SUBSET Records] :
                f.live = FALSE => [f EXCEPT !.live = FALSE] = f
            OBVIOUS
        <3>3. QED
            BY <2>1, <2>2, <3>1, <3>2, RequestTyped
    <2>5. QED
        BY <2>3, <2>4
<1>3. requests' \in [1 .. MaxInFlight -> [busy : BOOLEAN, live : BOOLEAN, items : SUBSET Records]]
    BY <1>1, <1>2
<1>4. RequestsAreOfPage'
    BY <1>1, <1>2 DEF RequestsAreOfPage, Free
<1>5. QED
    BY <1>3, <1>4

\* A page that is mounted loads its pile and stores it back.
LEMMA MountKeeps ==
    ASSUME PileIInv, NEW s \in Stores, NEW auto \in BOOLEAN, shopper' \in BOOLEAN,
           MountPage(s, auto)
    PROVE  /\ PileIInv'
           /\ at' = s /\ page'.pile = LoadStoredPile(s)
           /\ stored' = [stored EXCEPT ![s] = LoadStoredPile(s)]
<1>1. PileInv
    BY DEF PileIInv
<1>2. /\ at' = s /\ page' = Mounted(s, auto) /\ requests' = Forgotten /\ wantlist' = wantlist
      /\ stored' = [stored EXCEPT ![s] = LoadStoredPile(s)]
    BY DEF MountPage, StorageKey
<1>3. /\ page' \in Page /\ page'.pile = LoadStoredPile(s) /\ page'.confirm = FALSE
      /\ page'.wl = "idle" /\ page'.open = auto
      /\ page'.focus = IF auto THEN Title ELSE Body
    BY <1>1, <1>2, MountedIs
<1>4. s # NoStore
    BY PileAssumption
<1>5. /\ stored' \in [Stores -> Seq(Records) \cup { Unreadable }]
      /\ stored'[s] = page'.pile /\ PilesAreOwn'
    BY <1>1, <1>2, <1>3, Loaded, StoredKept
<1>6. /\ requests' \in [1 .. MaxInFlight -> [busy : BOOLEAN, live : BOOLEAN, items : SUBSET Records]]
      /\ RequestsAreOfPage'
    BY <1>1, <1>2, ForgottenIs
<1>7. TypeOK'
    BY <1>1, <1>2, <1>3, <1>5, <1>6 DEF PileInv, TypeOK
<1>8. PileInv'
    BY <1>2, <1>3, <1>4, <1>5, <1>6, <1>7 DEF PileInv, StoredIsShown, ClosedIsReset
<1>9. FocusIsPlaced'
    BY <1>3 DEF FocusIsPlaced, Sheet
<1>10. AnswersAreReal'
    BY <1>3 DEF AnswersAreReal
<1>11. QED
    BY <1>2, <1>3, <1>8, <1>9, <1>10 DEF PileIInv

\* A page that is left stays stored.
LEMMA LeaveKeeps ==
    ASSUME PileIInv, Leave
    PROVE  PileIInv'
<1>1. PileInv
    BY DEF PileIInv
<1>2. /\ at' = NoStore /\ page' = Blank /\ requests' = Forgotten
      /\ UNCHANGED <<stored, shopper, wantlist>>
    BY DEF Leave
<1>3. /\ requests' \in [1 .. MaxInFlight -> [busy : BOOLEAN, live : BOOLEAN, items : SUBSET Records]]
      /\ RequestsAreOfPage'
    BY <1>1, <1>2, ForgottenIs
<1>4. TypeOK'
    BY <1>1, <1>2, <1>3, BlankTyped DEF PileInv, TypeOK
<1>5. Blank.wl = "idle" /\ ~Blank.confirm
    BY BlankTyped
<1>6. PilesAreOwn'
    BY <1>1, <1>2 DEF PileInv, PilesAreOwn
<1>7. PileInv'
    BY <1>2, <1>3, <1>4, <1>5, <1>6 DEF PileInv, StoredIsShown, ClosedIsReset
<1>8. FocusIsPlaced' /\ AnswersAreReal'
    BY <1>2, <1>5 DEF FocusIsPlaced, AnswersAreReal
<1>9. QED
    BY <1>7, <1>8 DEF PileIInv

\* The invariant holds at the start.
LEMMA InitIsPlaced == Init => PileIInv
<1> SUFFICES ASSUME Init PROVE PileIInv
    OBVIOUS
<1>1. Blank \in Page /\ Blank.wl = "idle" /\ ~Blank.confirm
    BY BlankTyped
<1>2. TypeOK
    BY <1>1 DEF Init, TypeOK, Free
<1>3. StoredIsShown /\ PilesAreOwn /\ ClosedIsReset
    BY <1>1 DEF Init, StoredIsShown, PilesAreOwn, ClosedIsReset
<1>4. RequestsAreOfPage
    BY DEF Init, RequestsAreOfPage, Free
<1>5. FocusIsPlaced /\ AnswersAreReal
    BY <1>1 DEF Init, FocusIsPlaced, AnswersAreReal
<1>6. QED
    BY <1>2, <1>3, <1>4, <1>5 DEF Init, PileIInv, PileInv
-----------------------------------------------------------------------------
(* The ledger.  What is on screen and what is stored agree, so the shelf is  *)
(* what a load of every store's key would give.                              *)

Shelf == [s \in Stores |-> IF s = at THEN page.pile ELSE LoadStoredPile(s)]

LoadOf(st, s) == IF st[s] = Unreadable THEN <<>> ELSE st[s]

\* The shelf before a step.
LEMMA ShelfBefore == ASSUME PileInv PROVE Shelf = [s \in Stores |-> LoadOf(stored, s)]
<1>1. \A s \in Stores : s = at => page.pile = LoadOf(stored, s)
    <2>1. page.pile \in Seq(Records) /\ Unreadable \notin Seq(Records)
        BY PileAssumption, PlaceKnown DEF Page
    <2>2. NoStore \notin Stores
        BY PileAssumption
    <2>3. QED
        BY <2>1, <2>2 DEF PileInv, StoredIsShown, LoadOf
<1>2. \A s \in Stores : LoadStoredPile(s) = LoadOf(stored, s)
    BY DEF LoadStoredPile, LoadOf, StorageKey
<1>3. QED
    BY <1>1, <1>2 DEF Shelf

\* The shelf after a step.
LEMMA ShelfAfter == ASSUME PileInv' PROVE Shelf' = [s \in Stores |-> LoadOf(stored', s)]
<1>1. \A s \in Stores : s = at' => page'.pile = LoadOf(stored', s)
    <2>1. page'.pile \in Seq(Records) /\ Unreadable \notin Seq(Records)
        BY PileAssumption DEF PileInv, TypeOK, Page
    <2>2. NoStore \notin Stores
        BY PileAssumption
    <2>3. QED
        BY <2>1, <2>2 DEF PileInv, StoredIsShown, LoadOf
<1>2. \A s \in Stores : LoadStoredPile(s)' = LoadOf(stored', s)
    BY DEF LoadStoredPile, LoadOf, StorageKey
<1>3. QED
    BY <1>1, <1>2 DEF Shelf

\* A step that stores a pile of the mounted page changes its shelf only.
LEMMA ShelfStored ==
    ASSUME PileInv, PileInv', at \in Stores, at' = at,
           stored' = [stored EXCEPT ![at] = page'.pile]
    PROVE  /\ Shelf' = [Shelf EXCEPT ![at] = page'.pile]
           /\ Shelf[at] = page.pile
<1>1. stored \in [Stores -> Seq(Records) \cup { Unreadable }]
    BY DEF PileInv, TypeOK
<1>2. \A s \in Stores : s # at => LoadOf(stored', s) = LoadOf(stored, s)
    BY <1>1 DEF LoadOf
<1>3. Shelf = [s \in Stores |-> LoadOf(stored, s)] /\ Shelf' = [s \in Stores |-> LoadOf(stored', s)]
    BY ShelfBefore, ShelfAfter
<1>4. Shelf'[at] = page'.pile /\ Shelf[at] = page.pile
    BY DEF Shelf
<1>5. DOMAIN Shelf = Stores /\ DOMAIN Shelf' = Stores
    BY DEF Shelf
<1>6. \A s \in Stores : Shelf'[s] = IF s = at THEN page'.pile ELSE Shelf[s]
    BY <1>2, <1>3, <1>4
<1>7. Shelf' = [s \in Stores |-> Shelf'[s]] /\ Shelf = [s \in Stores |-> Shelf[s]]
    BY <1>3
<1>8. QED
    BY <1>4, <1>5, <1>6, <1>7

\* A step that stores nothing new changes no shelf.
LEMMA ShelfSame ==
    ASSUME PileInv, PileInv', \A s \in Stores : LoadOf(stored', s) = LoadOf(stored, s)
    PROVE  Shelf' = Shelf
BY ShelfBefore, ShelfAfter

\* Mounting a page changes no shelf.
LEMMA ShelfMounted ==
    ASSUME PileInv, PileInv', NEW s \in Stores,
           stored' = [stored EXCEPT ![s] = LoadStoredPile(s)]
    PROVE  Shelf' = Shelf
<1>1. stored \in [Stores -> Seq(Records) \cup { Unreadable }]
    BY DEF PileInv, TypeOK
<1>2. LoadStoredPile(s) = LoadOf(stored, s)
    BY DEF LoadStoredPile, LoadOf, StorageKey
<1>3. LoadStoredPile(s) # Unreadable
    BY Loaded, PileAssumption DEF OwnPile
<1>4. \A t \in Stores : LoadOf(stored', t) = LoadOf(stored, t)
    BY <1>1, <1>2, <1>3 DEF LoadOf
<1>5. QED
    BY <1>4, ShelfSame

\* Every step keeps the invariant and is a step of the ledger or changes none
\* of the piles.
Kept == PileIInv' /\ (Ledger!Next \/ Shelf' = Shelf)

\* Adding a record is the ledger's Put.
LEMMA AddIsPut ==
    ASSUME PileIInv, NEW r \in Records, AddToPile(r) PROVE Kept
<1>1. PileInv /\ PileIInv' /\ PileInv' /\ page'.pile = Append(page.pile, r)
      /\ r \notin Listed(page.pile)
    BY AddKeeps DEF PileIInv
<1>2. at \in Stores /\ at' = at /\ stored' = [stored EXCEPT ![at] = page'.pile]
    BY <1>1, PlaceKnown DEF AddToPile, Persist, StorageKey
<1>3. Shelf' = [Shelf EXCEPT ![at] = Append(@, r)] /\ r \notin Listed(Shelf[at])
    BY <1>1, <1>2, ShelfStored
<1>4. Ledger!Put(at, r)
    BY <1>3 DEF Ledger!Put, Ledger!Listed, Listed, Shelf
<1>5. QED
    BY <1>1, <1>2, <1>4 DEF Kept, Ledger!Next

\* Removing a record is the ledger's Take.
LEMMA RemoveIsTake ==
    ASSUME PileIInv, PileIInv', NEW r \in Listed(page.pile), at # NoStore, at' = at,
           page'.pile = WithoutRecord(page.pile, r),
           stored' = [stored EXCEPT ![at] = page'.pile]
    PROVE  Ledger!Next
<1>1. PileInv /\ PileInv' /\ at \in Stores
    BY PlaceKnown DEF PileIInv
<1>2. OwnPile(page.pile, at)
    BY <1>1, MountedIsOwn
<1>3. PICK i \in DOMAIN page.pile : page'.pile = Ledger!Removal(page.pile, i)
    BY <1>2, WithoutRecordKept
<1>4. Shelf' = [Shelf EXCEPT ![at] = Ledger!Removal(@, i)] /\ i \in DOMAIN Shelf[at]
    BY <1>1, <1>3, ShelfStored
<1>5. Ledger!Take(at, i)
    BY <1>4 DEF Ledger!Take, Shelf
<1>6. QED
    BY <1>1, <1>4, <1>5 DEF Ledger!Next, Shelf

\* Emptying the pile is the ledger's Empty.
LEMMA ClearIsEmpty ==
    ASSUME PileIInv, ClearPile PROVE Kept
<1>1. PileInv /\ PileIInv' /\ PileInv' /\ page'.pile = <<>> /\ at # NoStore
    BY ClearKeeps DEF PileIInv
<1>2. at \in Stores /\ at' = at /\ stored' = [stored EXCEPT ![at] = page'.pile]
    BY <1>1, PlaceKnown DEF ClearPile, Persist, StorageKey
<1>3. Shelf' = [Shelf EXCEPT ![at] = <<>>]
    BY <1>1, <1>2, ShelfStored
<1>4. Ledger!Next
    BY <1>2, <1>3 DEF Ledger!Next, Ledger!Empty, Shelf
<1>5. QED
    BY <1>1, <1>4 DEF Kept

\* Visits, reloads and the way to Discogs and back lose nothing.
LEMMA MountIsKept ==
    ASSUME PileIInv, NEW s \in Stores, NEW auto \in BOOLEAN, shopper' \in BOOLEAN,
           MountPage(s, auto)
    PROVE  Kept
<1>1. PileIInv' /\ stored' = [stored EXCEPT ![s] = LoadStoredPile(s)]
    BY MountKeeps
<1>2. QED
    BY <1>1, ShelfMounted DEF Kept, PileIInv

\* A step that stores nothing changes no shelf.
LEMMA NothingStored ==
    ASSUME PileIInv, PileIInv', stored' = stored PROVE Kept
BY ShelfSame DEF Kept, PileIInv

\* Every step, one case for each action.
LEMMA StepIsKept == PileIInv /\ [Next]_vars => Kept
<1> SUFFICES ASSUME PileIInv, [Next]_vars PROVE Kept
    OBVIOUS
<1>1. PileInv /\ page \in Page /\ shopper \in BOOLEAN /\ page.auto \in BOOLEAN
    BY DEF PileIInv, PileInv, TypeOK, Page
<1>2. ASSUME NEW s \in Stores, Visit(s) PROVE Kept
    BY <1>1, <1>2, MountIsKept DEF Visit
<1>3. ASSUME Reload PROVE Kept
    <2>1. at \in Stores
        BY <1>1, <1>3, PlaceKnown DEF Reload
    <2>2. QED
        BY <1>1, <1>3, <2>1, MountIsKept DEF Reload
<1>4. ASSUME Leave PROVE Kept
    BY <1>4, LeaveKeeps, NothingStored DEF Leave
<1>5. ASSUME NEW r \in Records, AddToPile(r) PROVE Kept
    BY <1>5, AddIsPut
<1>6. ASSUME NEW r \in Records, RemoveOnPage(r) PROVE Kept
    <2>1. /\ PileIInv' /\ page'.pile = WithoutRecord(page.pile, r)
          /\ r \in Listed(page.pile) /\ at # NoStore
        BY <1>6, RemoveOnPageKeeps
    <2>2. at' = at /\ stored' = [stored EXCEPT ![at] = page'.pile]
        BY <1>6 DEF RemoveOnPage, Persist, StorageKey
    <2>3. QED
        BY <2>1, <2>2, RemoveIsTake DEF Kept
<1>7. ASSUME NEW r \in Records, RemoveInSheet(r) PROVE Kept
    <2>1. /\ PileIInv' /\ page'.pile = WithoutRecord(page.pile, r)
          /\ r \in Listed(page.pile) /\ at # NoStore
        BY <1>7, RemoveInSheetKeeps
    <2>2. at' = at /\ stored' = [stored EXCEPT ![at] = page'.pile]
        BY <1>7 DEF RemoveInSheet, Persist, StorageKey
    <2>3. QED
        BY <2>1, <2>2, RemoveIsTake DEF Kept
<1>8. ASSUME ToastTimeout PROVE Kept
    BY <1>8, ToastKeeps, NothingStored DEF ToastTimeout
<1>9. ASSUME OpenPile PROVE Kept
    BY <1>9, OpenKeeps, NothingStored DEF OpenPile
<1>10. ASSUME ClosePile PROVE Kept
    BY <1>10, CloseKeeps, NothingStored DEF ClosePile
<1>11. ASSUME RequestClear \/ CancelClear PROVE Kept
    BY <1>11, ConfirmKeeps, NothingStored DEF RequestClear, CancelClear
<1>12. ASSUME ClearPile PROVE Kept
    BY <1>12, ClearIsEmpty
<1>13. ASSUME NEW shift \in BOOLEAN, PressTab(shift) PROVE Kept
    BY <1>13, TabKeeps, NothingStored DEF PressTab
<1>14. ASSUME NEW q \in DOMAIN requests, SendToWantlist(q) PROVE Kept
    BY <1>14, SendKeeps, NothingStored DEF SendToWantlist
<1>15. ASSUME NEW q \in DOMAIN requests, AnswerSuccess(q) \/ AnswerError(q) PROVE Kept
    <2>1. PICK wl \in { "success", "error" }, added \in SUBSET requests[q].items :
            /\ wl = "success" => added # {}
            /\ Serve(added) /\ Answer(q, wl)
        BY <1>15 DEF AnswerSuccess, AnswerError
    <2>2. PileIInv'
        BY <2>1, AnswerKeeps
    <2>3. QED
        BY <2>1, <2>2, NothingStored DEF Answer
<1>16. ASSUME NEW c \in { Element("retry"), Element("keep") }, ResetResult(c) PROVE Kept
    BY <1>16, ResetKeeps, NothingStored DEF ResetResult
<1>17. ASSUME Connect PROVE Kept
    <2>1. at \in Stores
        BY <1>1, <1>17, PlaceKnown, ShownControls DEF Connect
    <2>2. PICK ok \in BOOLEAN : shopper' = ok /\ MountPage(at, ok)
        BY <1>17 DEF Connect
    <2>3. QED
        BY <2>1, <2>2, MountIsKept
<1>18. ASSUME Disconnect PROVE Kept
    <2>1. at \in Stores /\ shopper' \in BOOLEAN
        BY <1>1, <1>18, PlaceKnown DEF Disconnect
    <2>2. QED
        BY <1>1, <1>18, <2>1, MountIsKept DEF Disconnect
<1>19. ASSUME UNCHANGED vars PROVE Kept
    <2>1. PileInv'
        BY <1>1, <1>19 DEF vars, PileInv, TypeOK, StoredIsShown, PilesAreOwn, ClosedIsReset,
           RequestsAreOfPage
    <2>2. FocusIsPlaced'
        BY <1>19, FocusBefore, FocusAfter DEF vars, PileIInv
    <2>3. AnswersAreReal'
        BY <1>19 DEF vars, PileIInv, AnswersAreReal
    <2>4. QED
        BY <1>19, <2>1, <2>2, <2>3, NothingStored DEF vars, PileIInv
<1>20. QED
    BY <1>2, <1>3, <1>4, <1>5, <1>6, <1>7, <1>8, <1>9, <1>10, <1>11, <1>12, <1>13, <1>14,
       <1>15, <1>16, <1>17, <1>18, <1>19 DEF Next

-----------------------------------------------------------------------------
(* The theorems.                                                            *)

\* The invariant holds always.
LEMMA PlacedAlways == Spec => []PileIInv
<1>1. PileIInv /\ [Next]_vars => PileIInv'
    BY StepIsKept DEF Kept
<1>2. QED
    BY <1>1, InitIsPlaced, PTL DEF Spec

\* The storage is in step with the mounted page, every pile lists records of
\* its own store once, a closed sheet asks nothing, and no request outlives
\* its page, for all stores, records and numbers of requests.
THEOREM PilesAreKept == Spec => []PileInv
<1>1. PileIInv => PileInv
    BY DEF PileIInv
<1>2. QED
    BY <1>1, PlacedAlways, PTL

\* The focus is on an element that is there: in the open sheet whatever a
\* removal, a confirmation or an answer took away, on the page otherwise.
THEOREM FocusIsNeverLost == Spec => []FocusIsPlaced
<1>1. PileIInv => FocusIsPlaced
    BY DEF PileIInv
<1>2. QED
    BY <1>1, PlacedAlways, PTL

\* A request shown in progress is in flight for this page, and a result shown
\* has a record of this store on the Wantlist.
THEOREM ResultsAreReal == Spec => []AnswersAreReal
<1>1. PileIInv => AnswersAreReal
    BY DEF PileIInv
<1>2. QED
    BY <1>1, PlacedAlways, PTL

\* Every step of the shopper's tab puts one record at the end of one pile,
\* takes one out, empties one, or leaves all of them as they are.
THEOREM PilesFollowTheLedger == Spec => ImplementsPiles
<1>1. Init => Ledger!Init
    <2> SUFFICES ASSUME Init PROVE Ledger!Init
        OBVIOUS
    <2>1. PileInv
        BY InitIsPlaced DEF PileIInv
    <2>2. Shelf = [s \in Stores |-> LoadOf(stored, s)]
        BY <2>1, ShelfBefore
    <2>3. \A s \in Stores : LoadOf(stored, s) \in Seq(Records)
        BY DEF Init, LoadOf
    <2>4. Shelf \in [Stores -> Seq(Records)]
        BY <2>2, <2>3
    <2>5. QED
        BY <2>4 DEF Ledger!Init, Shelf
<1>2. PileIInv /\ [Next]_vars => [Ledger!Next]_Shelf
    BY StepIsKept DEF Kept
<1>3. QED
    BY <1>1, <1>2, PlacedAlways, PTL DEF Spec, ImplementsPiles, Ledger!Spec, Shelf
=============================================================================
