------------------------- MODULE ChatMessageModelProofs -------------------------
(***************************************************************************)
(* Proofs about the rows of a conversation, for any conversations, sizes   *)
(* of pages and of the window and any number of visits: their types, their *)
(* marks, and their order.                                                 *)
(***************************************************************************)
EXTENDS ChatMessageModel, FiniteSetTheorems, SequenceTheorems, TLAPS

-----------------------------------------------------------------------------
(* The members of a finite set of numbers, by rank.                        *)
UpTo(T, m) == {o \in T : o <= m}

LEMMA RankType ==
  ASSUME NEW T \in SUBSET Nat, IsFiniteSet(T), NEW m \in T
  PROVE  /\ Cardinality(T) \in Nat /\ Cardinality(UpTo(T, m)) \in 1 .. Cardinality(T)
         /\ IsFiniteSet(UpTo(T, m))
<1>1. UpTo(T, m) \in SUBSET T /\ m \in UpTo(T, m)
  BY DEF UpTo
<1>2. /\ IsFiniteSet(UpTo(T, m)) /\ Cardinality(UpTo(T, m)) <= Cardinality(T)
      /\ Cardinality(T) \in Nat /\ Cardinality(UpTo(T, m)) \in Nat
  BY <1>1, FS_Subset, FS_CardinalityType
<1>3. Cardinality(UpTo(T, m)) # 0
  BY <1>1, <1>2, FS_EmptySet
<1> QED
  BY <1>2, <1>3

LEMMA RankGrows ==
  ASSUME NEW T \in SUBSET Nat, IsFiniteSet(T), NEW m \in T, NEW l \in T, m < l
  PROVE  Cardinality(UpTo(T, m)) < Cardinality(UpTo(T, l))
<1>1. l <= l /\ \A o \in T : o <= m => o <= l /\ o # l
  OBVIOUS
<1>2. UpTo(T, m) \in SUBSET UpTo(T, l) /\ l \in UpTo(T, l) /\ l \notin UpTo(T, m)
  BY <1>1, Zenon DEF UpTo
<1>3. /\ Cardinality(UpTo(T, m)) <= Cardinality(UpTo(T, l))
      /\ Cardinality(UpTo(T, m)) # Cardinality(UpTo(T, l))
  BY <1>2, RankType, FS_Subset
<1> QED
  BY <1>3, RankType

(* Ranks are distinct and as many as there are members, so all are taken.  *)
LEMMA RankOnto ==
  ASSUME NEW T \in SUBSET Nat, IsFiniteSet(T), NEW i \in 1 .. Cardinality(T)
  PROVE  \E m \in T : Cardinality(UpTo(T, m)) = i
<1> DEFINE n == Cardinality(T)
           f == [m \in T |-> Cardinality(UpTo(T, m))]
<1>1. n \in Nat /\ \A m \in T : f[m] \in 1 .. n
  BY RankType, FS_CardinalityType
<1>2. f \in Injection(T, 1 .. n)
  <2>1. \A m, l \in T : f[m] = f[l] => m = l
    <3> SUFFICES ASSUME NEW m \in T, NEW l \in T, m # l PROVE f[m] # f[l]
      OBVIOUS
    <3>1. m \in Nat /\ l \in Nat /\ f[m] \in Nat /\ f[l] \in Nat
      BY <1>1
    <3>2. CASE m < l
      BY <3>1, <3>2, RankGrows
    <3>3. CASE l < m
      BY <3>1, <3>3, RankGrows
    <3> QED
      BY <3>1, <3>2, <3>3
  <2>2. f \in [T -> 1 .. n]
    BY <1>1
  <2> QED
    BY <2>1, <2>2 DEF Injection, IsInjective
<1>3. IsFiniteSet(1 .. n) /\ Cardinality(1 .. n) = n
  BY <1>1, FS_Interval
<1> HIDE DEF f
<1>4. f \in Surjection(T, 1 .. n)
  BY <1>2, <1>3, FS_Injection
<1>5. \E m \in T : f[m] = i
  BY <1>4 DEF Surjection
<1> QED
  BY <1>5 DEF f

LEMMA NthReturns ==
  ASSUME NEW T \in SUBSET Nat, IsFiniteSet(T), NEW i \in 1 .. Cardinality(T)
  PROVE  Nth(T, i) \in T /\ Cardinality(UpTo(T, Nth(T, i))) = i
BY RankOnto DEF Nth, UpTo

LEMMA NthGrows ==
  ASSUME NEW T \in SUBSET Nat, IsFiniteSet(T),
         NEW i \in 1 .. Cardinality(T), NEW j \in 1 .. Cardinality(T), i < j
  PROVE  Nth(T, i) < Nth(T, j)
<1>1. /\ Nth(T, i) \in T /\ Nth(T, j) \in T /\ Nth(T, i) \in Nat /\ Nth(T, j) \in Nat
      /\ Cardinality(UpTo(T, Nth(T, i))) = i /\ Cardinality(UpTo(T, Nth(T, j))) = j
  BY NthReturns
<1>2. CASE Nth(T, i) = Nth(T, j)
  BY <1>1, <1>2
<1>3. CASE Nth(T, j) < Nth(T, i)
  <2>1. j < i
    BY <1>1, <1>3, RankGrows
  <2> QED
    BY <2>1
<1> QED
  BY <1>1, <1>2, <1>3

LEMMA LeastNumber ==
  ASSUME NEW T \in SUBSET Nat, IsFiniteSet(T), T # {}
  PROVE  Min(T) \in T
<1>1. 1 \in 1 .. Cardinality(T)
  BY FS_CardinalityType, FS_EmptySet
<1> DEFINE x == Nth(T, 1)
<1>2. x \in T /\ Cardinality(UpTo(T, x)) = 1
  BY <1>1, NthReturns
<1> HIDE DEF x
<1>3. ASSUME NEW y \in T, y < x PROVE FALSE
  <2>1. Cardinality(UpTo(T, y)) < 1 /\ Cardinality(UpTo(T, y)) \in 1 .. Cardinality(T)
    BY <1>2, <1>3, RankGrows, RankType
  <2> QED
    BY <2>1, FS_CardinalityType
<1>4. \A y \in T : x <= y
  BY <1>2, <1>3
<1> QED
  BY <1>2, <1>4 DEF Min

-----------------------------------------------------------------------------
(* Lists of rows: a part, a list without one row, a list with one more.    *)

LEMMA Sliced ==
  ASSUME NEW S, NEW list \in Seq(S), NEW a \in 1 .. Len(list) + 1, NEW b \in 0 .. Len(list),
         a <= b + 1
  PROVE  /\ SubSeq(list, a, b) \in Seq(S)
         /\ Len(SubSeq(list, a, b)) = b + 1 - a
         /\ \A i \in 1 .. b + 1 - a : SubSeq(list, a, b)[i] = list[a + i - 1]
<1>1. \A i \in a .. b : list[i] \in S
  OBVIOUS
<1>2. /\ SubSeq(list, a, b) \in Seq(S)
      /\ Len(SubSeq(list, a, b)) = IF a <= b THEN b - a + 1 ELSE 0
      /\ \A i \in 1 .. b - a + 1 : SubSeq(list, a, b)[i] = list[a + i - 1]
  BY <1>1, SubSeqProperties
<1>3. b - a + 1 = b + 1 - a /\ (~(a <= b) => b + 1 - a = 0)
  OBVIOUS
<1> QED
  BY <1>2, <1>3

LEMMA RemovedReturns ==
  ASSUME NEW S, NEW list \in Seq(S), NEW k \in 1 .. Len(list)
  PROVE  /\ RemoveAt(list, k) \in Seq(S) /\ Len(RemoveAt(list, k)) = Len(list) - 1
         /\ \A i \in 1 .. Len(list) - 1 :
              RemoveAt(list, k)[i] = list[IF i < k THEN i ELSE i + 1]
<1> DEFINE n == Len(list)
           less == SubSeq(list, 1, k - 1)
           more == SubSeq(list, k + 1, n)
<1>1. n \in Nat /\ n = Len(list) /\ k \in 1 .. n
  OBVIOUS
<1> HIDE DEF n
<1>2. less \in Seq(S) /\ Len(less) = k - 1 /\ \A i \in 1 .. k - 1 : less[i] = list[i]
  <2>1. /\ less \in Seq(S) /\ Len(less) = k - 1 + 1 - 1
        /\ \A i \in 1 .. k - 1 + 1 - 1 : less[i] = list[1 + i - 1]
    BY <1>1, Sliced
  <2> QED
    BY <1>1, <2>1
<1>3. more \in Seq(S) /\ Len(more) = n - k /\ \A i \in 1 .. n - k : more[i] = list[k + i]
  <2>1. /\ more \in Seq(S) /\ Len(more) = n + 1 - (k + 1)
        /\ \A i \in 1 .. n + 1 - (k + 1) : more[i] = list[k + 1 + i - 1]
    BY <1>1, Sliced
  <2>2. n + 1 - (k + 1) = n - k /\ \A i \in 1 .. n - k : k + 1 + i - 1 = k + i
    BY <1>1
  <2> QED
    BY <2>1, <2>2
<1> HIDE DEF less, more
<1>4. /\ less \o more \in Seq(S) /\ Len(less \o more) = n - 1
      /\ \A i \in 1 .. n - 1 :
           (less \o more)[i] = IF i <= k - 1 THEN less[i] ELSE more[i - (k - 1)]
  <2>1. /\ less \o more \in Seq(S) /\ Len(less \o more) = Len(less) + Len(more)
        /\ \A i \in 1 .. Len(less) + Len(more) :
             (less \o more)[i] = IF i <= Len(less) THEN less[i] ELSE more[i - Len(less)]
    BY <1>2, <1>3, ConcatProperties
  <2>2. Len(less) + Len(more) = n - 1
    BY <1>1, <1>2, <1>3
  <2> QED
    BY <1>2, <2>1, <2>2
<1>5. ASSUME NEW i \in 1 .. n - 1
      PROVE  (less \o more)[i] = list[IF i < k THEN i ELSE i + 1]
  <2>1. CASE i < k
    <3>1. i <= k - 1 /\ i \in 1 .. k - 1
      BY <1>1, <1>5, <2>1
    <3> QED
      BY <1>2, <1>4, <1>5, <2>1, <3>1
  <2>2. CASE ~(i < k)
    <3>1. ~(i <= k - 1) /\ i - (k - 1) \in 1 .. n - k /\ k + (i - (k - 1)) = i + 1
      BY <1>1, <1>5, <2>2
    <3>2. more[i - (k - 1)] = list[k + (i - (k - 1))]
      BY <1>3, <3>1
    <3> QED
      BY <1>4, <1>5, <2>2, <3>1, <3>2
  <2> QED
    BY <2>1, <2>2
<1>6. RemoveAt(list, k) = less \o more
  BY DEF RemoveAt, less, more, n
<1> QED
  BY <1>1, <1>4, <1>5, <1>6

LEMMA InsertedReturns ==
  ASSUME NEW list \in Seq(Row), NEW e \in Row, NEW p \in 1 .. Len(list) + 1
  PROVE  /\ InsertAt(list, p, e) \in Seq(Row)
         /\ Len(InsertAt(list, p, e)) = Len(list) + 1
         /\ \A i \in 1 .. Len(list) + 1 :
              InsertAt(list, p, e)[i] =
                IF i < p THEN list[i] ELSE IF i = p THEN e ELSE list[i - 1]
<1> DEFINE n == Len(list)
           k == p - 1
           less == SubSeq(list, 1, k)
           more == SubSeq(list, k + 1, n)
           new == (less \o <<e>>) \o more
<1>1. n \in Nat /\ n = Len(list) /\ k \in 0 .. n /\ p = k + 1 /\ p - 1 = k
  OBVIOUS
<1> HIDE DEF n, k
<1>2. less \in Seq(Row) /\ Len(less) = k /\ \A i \in 1 .. k : less[i] = list[i]
  <2>1. /\ less \in Seq(Row) /\ Len(less) = k + 1 - 1
        /\ \A i \in 1 .. k + 1 - 1 : less[i] = list[1 + i - 1]
    BY <1>1, Sliced
  <2> QED
    BY <1>1, <2>1
<1>3. more \in Seq(Row) /\ Len(more) = n - k /\ \A i \in 1 .. n - k : more[i] = list[k + i]
  <2>1. /\ more \in Seq(Row) /\ Len(more) = n + 1 - (k + 1)
        /\ \A i \in 1 .. n + 1 - (k + 1) : more[i] = list[k + 1 + i - 1]
    BY <1>1, Sliced
  <2>2. n + 1 - (k + 1) = n - k /\ \A i \in 1 .. n - k : k + 1 + i - 1 = k + i
    BY <1>1
  <2> QED
    BY <2>1, <2>2
<1> HIDE DEF less, more
<1>4. /\ less \o <<e>> \in Seq(Row) /\ Len(less \o <<e>>) = k + 1
      /\ \A i \in 1 .. k + 1 : (less \o <<e>>)[i] = IF i <= k THEN list[i] ELSE e
  <2>1. <<e>> \in Seq(Row) /\ Len(<<e>>) = 1 /\ <<e>>[1] = e
    OBVIOUS
  <2>2. /\ less \o <<e>> \in Seq(Row) /\ Len(less \o <<e>>) = k + 1
        /\ \A i \in 1 .. k + 1 : (less \o <<e>>)[i] = IF i <= k THEN less[i] ELSE <<e>>[i - k]
    BY <1>2, <2>1, ConcatProperties
  <2>3. \A i \in 1 .. k + 1 : (i <= k => i \in 1 .. k) /\ (~(i <= k) => i - k = 1)
    BY <1>1
  <2> QED
    BY <1>2, <2>1, <2>2, <2>3
<1>5. /\ new \in Seq(Row) /\ Len(new) = n + 1
      /\ \A i \in 1 .. n + 1 :
           new[i] = IF i <= k + 1 THEN (less \o <<e>>)[i] ELSE more[i - (k + 1)]
  <2>1. /\ new \in Seq(Row) /\ Len(new) = Len(less \o <<e>>) + Len(more)
        /\ \A i \in 1 .. Len(less \o <<e>>) + Len(more) :
             new[i] = IF i <= Len(less \o <<e>>) THEN (less \o <<e>>)[i]
                      ELSE more[i - Len(less \o <<e>>)]
    BY <1>3, <1>4, ConcatProperties
  <2>a. k + 1 + (n - k) = n + 1
    BY <1>1
  <2>2. Len(less \o <<e>>) + Len(more) = n + 1
    BY <1>3, <1>4, <2>a
  <2> QED
    BY <1>4, <2>1, <2>2
<1>6. ASSUME NEW i \in 1 .. n + 1
      PROVE  new[i] = IF i <= k THEN list[i] ELSE IF i = k + 1 THEN e ELSE list[i - 1]
  <2>1. CASE i <= k + 1
    <3>1. i \in 1 .. k + 1 /\ (i <= k \/ i = k + 1) /\ ~(k + 1 <= k)
      BY <1>1, <1>6, <2>1
    <3> QED
      BY <1>4, <1>5, <1>6, <2>1, <3>1
  <2>2. CASE ~(i <= k + 1)
    <3>1. /\ ~(i <= k) /\ i # k + 1
          /\ i - (k + 1) \in 1 .. n - k /\ k + (i - (k + 1)) = i - 1
      BY <1>1, <1>6, <2>2
    <3>2. more[i - (k + 1)] = list[k + (i - (k + 1))]
      BY <1>3, <3>1
    <3> QED
      BY <1>5, <1>6, <2>2, <3>1, <3>2
  <2> QED
    BY <2>1, <2>2
<1>7. InsertAt(list, p, e) = new
  <2>1. p - 1 = k
    BY <1>1
  <2>2. InsertAt(list, p, e) =
          (SubSeq(list, 1, p - 1) \o <<e>>) \o SubSeq(list, p, Len(list))
    BY DEF InsertAt
  <2> QED
    BY <1>1, <2>1, <2>2 DEF less, more
<1> HIDE DEF new
<1>8. \A i \in 1 .. n + 1 : (i <= k <=> i < p) /\ (i = k + 1 <=> i = p)
  BY <1>1
<1> QED
  BY <1>1, <1>5, <1>6, <1>7, <1>8

-----------------------------------------------------------------------------
(* Rows: what recalculateBlocks() and a page make of them.                 *)

(* The two halves of MarksAgree, and the order, of any list.               *)
Blocks(list) ==
  /\ list # <<>> => list[1].first /\ list[Len(list)].last
  /\ \A i \in 1 .. Len(list) - 1 : list[i].last = list[i + 1].first

OneLine(list) == \A i, j \in DOMAIN list : list[i].unread /\ list[j].unread => i = j

Ascending(list) == \A i, j \in DOMAIN list : i < j => list[i].m < list[j].m

LEMMA RecalculatedReturns ==
  ASSUME NEW list \in Seq(Row)
  PROVE  /\ Recalculated(list) \in Seq(Row) /\ Len(Recalculated(list)) = Len(list)
         /\ \A i \in 1 .. Len(list) : /\ Recalculated(list)[i].m = list[i].m
                                      /\ Recalculated(list)[i].unread = list[i].unread
         /\ Blocks(Recalculated(list))
<1> DEFINE n == Len(list)
           new == Recalculated(list)
           starts(i) == ~(i > 1 /\ <<list[i - 1].m, list[i].m>> \in Joined)
           ends(i) == ~(i < n /\ <<list[i].m, list[i + 1].m>> \in Joined)
<1>1. n \in Nat /\ DOMAIN list = 1 .. n /\ n = Len(list) /\ \A i \in 1 .. n : list[i] \in Row
  OBVIOUS
<1>2. new = [i \in 1 .. n |-> [list[i] EXCEPT !.first = starts(i), !.last = ends(i)]]
  BY <1>1 DEF Recalculated
<1> HIDE DEF n, new
<1>3. \A i \in 1 .. n : starts(i) \in BOOLEAN /\ ends(i) \in BOOLEAN
  OBVIOUS
<1>4. starts(1) /\ ends(n) /\ \A i \in 1 .. n - 1 : ends(i) = starts(i + 1)
  <2>1. ~(1 > 1) /\ ~(n < n) /\ \A i \in 1 .. n - 1 : i < n /\ i + 1 > 1 /\ i + 1 - 1 = i
    BY <1>1
  <2> QED
    BY <2>1
<1> HIDE DEF starts, ends
<1>5. \A i \in 1 .. n : /\ new[i] \in Row /\ new[i].m = list[i].m
                        /\ new[i].unread = list[i].unread
                        /\ new[i].first = starts(i) /\ new[i].last = ends(i)
  BY <1>1, <1>2, <1>3 DEF Row
<1>6. new \in Seq(Row) /\ Len(new) = n
  <2>1. new = [i \in 1 .. n |-> new[i]]
    BY <1>2
  <2> QED
    BY <1>1, <1>5, <2>1, IsASeq, LenProperties
<1>7. Blocks(new)
  <2>1. new # <<>> => 1 \in 1 .. n /\ n \in 1 .. n
    BY <1>1, <1>6
  <2>2. \A i \in 1 .. n - 1 : i \in 1 .. n /\ i + 1 \in 1 .. n
    BY <1>1
  <2> QED
    BY <1>4, <1>5, <1>6, <2>1, <2>2 DEF Blocks
<1> QED
  BY <1>1, <1>5, <1>6, <1>7 DEF new

(* A page becomes rows in order, none of them marked.                      *)
LEMMA RowsOfReturns ==
  ASSUME NEW T \in SUBSET Nat, IsFiniteSet(T), T \subseteq All
  PROVE  /\ RowsOf(T) \in Seq(Row) /\ Len(RowsOf(T)) = Cardinality(T)
         /\ \A i \in 1 .. Cardinality(T) : RowsOf(T)[i].m \in T /\ RowsOf(T)[i].unread = FALSE
         /\ Ascending(RowsOf(T))
<1> DEFINE n == Cardinality(T)
<1>1. n \in Nat /\ n = Cardinality(T)
  BY FS_CardinalityType
<1>2. \A i \in 1 .. n : Nth(T, i) \in T
  BY NthReturns
<1>3. \A i, j \in 1 .. n : i < j => Nth(T, i) < Nth(T, j)
  BY NthGrows
<1> HIDE DEF n
<1>4. RowsOf(T) = [i \in 1 .. n |-> NewRow(Nth(T, i))]
  BY <1>1 DEF RowsOf
<1>5. \A i \in 1 .. n : /\ RowsOf(T)[i] \in Row /\ RowsOf(T)[i].m = Nth(T, i)
                        /\ RowsOf(T)[i].unread = FALSE
  <2> SUFFICES ASSUME NEW i \in 1 .. n
               PROVE  /\ RowsOf(T)[i] \in Row /\ RowsOf(T)[i].m = Nth(T, i)
                      /\ RowsOf(T)[i].unread = FALSE
    OBVIOUS
  <2>1. Nth(T, i) \in All
    BY <1>2
  <2>2. RowsOf(T)[i] = NewRow(Nth(T, i))
    BY <1>4
  <2> QED
    BY <2>1, <2>2 DEF NewRow, Row
<1>6. RowsOf(T) \in Seq(Row) /\ Len(RowsOf(T)) = n /\ DOMAIN RowsOf(T) = 1 .. n
  BY <1>1, <1>4, <1>5, IsASeq, LenProperties
<1>7. Ascending(RowsOf(T))
  BY <1>3, <1>5, <1>6 DEF Ascending
<1> QED
  BY <1>1, <1>2, <1>5, <1>6, <1>7

-----------------------------------------------------------------------------
(* What is shown, queued and read belongs where it is: rows to the open    *)
(* conversation, pages to the one they were asked for.                     *)
Job   == [kind : {"load", "more", "save"}, conversation : Conversations, m : Nat]
Reply == [kind : {"load", "more"}, conversation : Conversations, page : SUBSET Nat]

IsPage(r) ==
  /\ r.page \subseteq MessagesOf[r.conversation] /\ r.page \subseteq arrived
  /\ IsFiniteSet(r.page)

RowsOK ==
  /\ rows \in Seq(Row)
  /\ activeId = Closed => rows = <<>>
  /\ \A i \in DOMAIN rows : rows[i].m \in MessagesOf[activeId] /\ rows[i].m \in arrived
  /\ MarksAgree

QueuesOK ==
  /\ activeId \in Conversations \union {Closed}
  /\ canFetch \in BOOLEAN /\ fetching \in BOOLEAN /\ disorder \in BOOLEAN
  /\ openings \in 0 .. MaxOpens
  /\ jobs \in Seq(Job) /\ replies \in Seq(Reply)
  /\ \A i \in DOMAIN jobs : jobs[i].kind = "save" => jobs[i].m \in arrived
  /\ \A i \in DOMAIN replies : IsPage(replies[i])
  /\ history \subseteq arrived /\ arrived \subseteq All /\ IsFiniteSet(history)

RowsInv == RowsOK /\ QueuesOK

LEMMA MessagesAreNumbers ==
  /\ All \subseteq Nat
  /\ \A c \in Conversations : MessagesOf[c] \subseteq Nat /\ MessagesOf[c] \subseteq All
  /\ \A r \in Row : r.m \in Nat
BY ChatAssumption DEF All, Row

(* The rows after recalculateBlocks().                                     *)
LEMMA Redrawn ==
  ASSUME NEW list \in Seq(Row), OneLine(list), rows' = Recalculated(list)
  PROVE  /\ rows' \in Seq(Row) /\ Len(rows') = Len(list) /\ DOMAIN rows' = 1 .. Len(list)
         /\ \A i \in 1 .. Len(list) : rows'[i].m = list[i].m
         /\ MarksAgree'
<1>1. /\ rows' \in Seq(Row) /\ Len(rows') = Len(list) /\ DOMAIN rows' = 1 .. Len(list)
      /\ DOMAIN list = 1 .. Len(list)
      /\ \A i \in 1 .. Len(list) : rows'[i].m = list[i].m /\ rows'[i].unread = list[i].unread
      /\ Blocks(rows')
  BY RecalculatedReturns
<1>2. OneLine(rows')
  BY <1>1 DEF OneLine
<1> QED
  BY <1>1, <1>2 DEF MarksAgree, Blocks, OneLine

LEMMA RowOfReturns ==
  ASSUME rows \in Seq(Row), NEW m, Shown(m)
  PROVE  RowOf(m) \in 1 .. Len(rows) /\ rows[RowOf(m)].m = m
<1> DEFINE T == {i \in DOMAIN rows : rows[i].m = m}
<1>1. T \in SUBSET (1 .. Len(rows)) /\ Len(rows) \in Nat
  OBVIOUS
<1>2. T # {}
  BY DEF Shown
<1>a. T \in SUBSET Nat
  BY <1>1
<1> HIDE DEF T
<1>b. IsFiniteSet(1 .. Len(rows))
  BY <1>1, FS_Interval
<1>3. IsFiniteSet(T) /\ T \in SUBSET Nat
  BY <1>1, <1>a, <1>b, FS_Subset
<1>4. Min(T) \in T
  BY <1>2, <1>3, LeastNumber
<1> QED
  BY <1>1, <1>4 DEF RowOf, T

-----------------------------------------------------------------------------
(* How each operation changes the rows.                                    *)
SameMessages == Len(rows') = Len(rows) /\ \A i \in 1 .. Len(rows) : rows'[i].m = rows[i].m

Marks == rows' \in Seq(Row) /\ MarksAgree'

LEMMA MarkChanges ==
  ASSUME RowsOK, NEW m, MarkMessage(m) \/ \E n \in 0 .. Len(rows) : MarkIndex(n)
  PROVE  Marks /\ SameMessages
<1>1. rows \in Seq(Row) /\ DOMAIN rows = 1 .. Len(rows) /\ Len(rows) \in Nat
  BY DEF RowsOK
<1>2. ASSUME NEW n, rows' = [i \in DOMAIN rows |-> [rows[i] EXCEPT !.unread = (i = n)]]
      PROVE  Marks /\ SameMessages
  <2>1. \A i \in 1 .. Len(rows) :
          /\ rows'[i] \in Row /\ rows'[i].m = rows[i].m
          /\ rows'[i].first = rows[i].first /\ rows'[i].last = rows[i].last
          /\ rows'[i].unread = (i = n)
    <3> SUFFICES ASSUME NEW i \in 1 .. Len(rows)
                 PROVE  /\ rows'[i] \in Row /\ rows'[i].m = rows[i].m
                        /\ rows'[i].first = rows[i].first /\ rows'[i].last = rows[i].last
                        /\ rows'[i].unread = (i = n)
      OBVIOUS
    <3> DEFINE row == rows[i]
               b == (i = n)
    <3>1. row \in Row /\ b \in BOOLEAN
      BY <1>1
    <3>2. rows'[i] = [row EXCEPT !.unread = b]
      BY <1>1, <1>2
    <3> HIDE DEF row, b
    <3>3. /\ rows'[i] \in Row /\ rows'[i].m = row.m
          /\ rows'[i].first = row.first /\ rows'[i].last = row.last
          /\ rows'[i].unread = b
      BY <3>1, <3>2 DEF Row
    <3> QED
      BY <3>3 DEF row, b
  <2>2. rows' = [i \in 1 .. Len(rows) |-> rows'[i]]
    BY <1>1, <1>2
  <2>3. rows' \in Seq(Row) /\ Len(rows') = Len(rows) /\ DOMAIN rows' = 1 .. Len(rows)
    BY <1>1, <2>1, <2>2, IsASeq, LenProperties
  <2>4. OneLine(rows')
    BY <2>1, <2>3 DEF OneLine
  <2>5. Blocks(rows')
    <3>1. Blocks(rows)
      BY DEF RowsOK, MarksAgree, Blocks
    <3>2. rows' # <<>> => rows # <<>> /\ 1 \in 1 .. Len(rows) /\ Len(rows) \in 1 .. Len(rows)
      BY <1>1, <2>3
    <3>3. \A i \in 1 .. Len(rows) - 1 : i \in 1 .. Len(rows) /\ i + 1 \in 1 .. Len(rows)
      BY <1>1
    <3> QED
      BY <2>1, <2>3, <3>1, <3>2, <3>3 DEF Blocks
  <2> QED
    BY <2>1, <2>3, <2>4, <2>5 DEF Marks, MarksAgree, SameMessages, Blocks, OneLine
<1>3. CASE rows' = rows
  BY <1>1, <1>3 DEF Marks, SameMessages, MarksAgree, RowsOK
<1>4. CASE MarkMessage(m)
  BY <1>2, <1>3, <1>4 DEF MarkMessage, Marked
<1>5. ASSUME NEW n, MarkIndex(n) PROVE Marks /\ SameMessages
  <2>1. rows' = [i \in DOMAIN rows |-> [rows[i] EXCEPT !.unread = (i = n)]]
    BY <1>5 DEF MarkIndex, Marked
  <2> QED
    BY <1>2, <2>1
<1> QED
  BY <1>4, <1>5

LEMMA ReplaceChanges ==
  ASSUME RowsOK, NEW m \in All, MessageReplaced(m)
  PROVE  Marks /\ SameMessages
<1> DEFINE k == RowOf(m)
           list == [rows EXCEPT ![k] = NewRow(m)]
<1>1. /\ rows \in Seq(Row) /\ DOMAIN rows = 1 .. Len(rows) /\ Len(rows) \in Nat
      /\ k \in 1 .. Len(rows) /\ rows[k].m = m
  BY RowOfReturns DEF RowsOK, MessageReplaced
<1> HIDE DEF k
<1>2. NewRow(m) \in Row /\ NewRow(m).m = m /\ NewRow(m).unread = FALSE
  BY DEF NewRow, Row
<1>3. /\ list \in Seq(Row) /\ Len(list) = Len(rows) /\ DOMAIN list = 1 .. Len(rows)
      /\ \A i \in 1 .. Len(rows) : list[i] = IF i = k THEN NewRow(m) ELSE rows[i]
  BY <1>1, <1>2, ExceptSeq
<1>4. rows' = Recalculated(list)
  BY DEF MessageReplaced, k
<1> HIDE DEF list
<1>5. OneLine(rows)
  BY DEF RowsOK, MarksAgree, OneLine
<1>6. OneLine(list)
  BY <1>1, <1>2, <1>3, <1>5 DEF OneLine
<1> QED
  BY <1>1, <1>2, <1>3, <1>4, <1>6, Redrawn DEF Marks, SameMessages

LEMMA RemoveChanges ==
  ASSUME RowsOK, NEW m, MessageRemoved(m)
  PROVE  /\ Marks /\ DOMAIN rows' = 1 .. Len(rows) - 1
         /\ \E k \in 1 .. Len(rows) : \A i \in 1 .. Len(rows) - 1 :
              rows'[i].m = rows[IF i < k THEN i ELSE i + 1].m
<1> DEFINE k == RowOf(m)
           list == RemoveAt(rows, k)
<1>1. /\ rows \in Seq(Row) /\ DOMAIN rows = 1 .. Len(rows) /\ Len(rows) \in Nat
      /\ k \in 1 .. Len(rows)
  BY RowOfReturns DEF RowsOK, MessageRemoved
<1> HIDE DEF k
<1>2. /\ list \in Seq(Row) /\ Len(list) = Len(rows) - 1 /\ DOMAIN list = 1 .. Len(rows) - 1
      /\ \A i \in 1 .. Len(rows) - 1 : list[i] = rows[IF i < k THEN i ELSE i + 1]
  <2>1. /\ list \in Seq(Row) /\ Len(list) = Len(rows) - 1
        /\ \A i \in 1 .. Len(rows) - 1 : list[i] = rows[IF i < k THEN i ELSE i + 1]
    BY <1>1, RemovedReturns
  <2> HIDE DEF list
  <2>2. DOMAIN list = 1 .. Len(list)
    BY <2>1, LenProperties
  <2> QED
    BY <2>1, <2>2
<1>3. rows' = Recalculated(list)
  BY DEF MessageRemoved, k
<1> HIDE DEF list
<1>4. OneLine(rows)
  BY DEF RowsOK, MarksAgree, OneLine
<1>5. OneLine(list)
  <2> SUFFICES ASSUME NEW i \in 1 .. Len(rows) - 1, NEW j \in 1 .. Len(rows) - 1,
                      list[i].unread, list[j].unread
               PROVE  i = j
    BY <1>2 DEF OneLine
  <2> DEFINE at(l) == IF l < k THEN l ELSE l + 1
  <2>1. at(i) \in 1 .. Len(rows) /\ at(j) \in 1 .. Len(rows)
    BY <1>1
  <2>2. rows[at(i)].unread /\ rows[at(j)].unread
    BY <1>2
  <2>3. at(i) = at(j)
    BY <1>1, <1>4, <2>1, <2>2 DEF OneLine
  <2> QED
    BY <1>1, <2>3
<1>6. /\ rows' \in Seq(Row) /\ DOMAIN rows' = 1 .. Len(list) /\ MarksAgree'
      /\ \A i \in 1 .. Len(list) : rows'[i].m = list[i].m
  BY <1>2, <1>3, <1>5, Redrawn
<1>7. Marks /\ DOMAIN rows' = 1 .. Len(rows) - 1
  BY <1>2, <1>6 DEF Marks
<1>8. \A i \in 1 .. Len(rows) - 1 : rows'[i].m = rows[IF i < k THEN i ELSE i + 1].m
  BY <1>2, <1>6
<1> QED
  BY <1>1, <1>7, <1>8

LEMMA InsertChanges ==
  ASSUME RowsOK, NEW m \in All, NEW k \in 0 .. Len(rows), Inserted(k, m)
  PROVE  /\ Marks /\ DOMAIN rows' = 1 .. Len(rows) + 1
         /\ \A i \in 1 .. Len(rows) + 1 :
              rows'[i].m = IF i <= k THEN rows[i].m ELSE IF i = k + 1 THEN m ELSE rows[i - 1].m
<1> DEFINE list == InsertAt(rows, k + 1, NewRow(m))
<1>1. /\ rows \in Seq(Row) /\ DOMAIN rows = 1 .. Len(rows) /\ Len(rows) \in Nat
      /\ k \in 0 .. Len(rows)
  BY DEF RowsOK
<1>2. NewRow(m) \in Row /\ NewRow(m).m = m /\ NewRow(m).unread = FALSE
  BY DEF NewRow, Row
<1>3. /\ list \in Seq(Row) /\ Len(list) = Len(rows) + 1 /\ DOMAIN list = 1 .. Len(rows) + 1
      /\ \A i \in 1 .. Len(rows) + 1 :
           list[i] = IF i <= k THEN rows[i] ELSE IF i = k + 1 THEN NewRow(m) ELSE rows[i - 1]
  <2>1. /\ list \in Seq(Row) /\ Len(list) = Len(rows) + 1
        /\ \A i \in 1 .. Len(rows) + 1 :
             list[i] = IF i <= k THEN rows[i] ELSE IF i = k + 1 THEN NewRow(m) ELSE rows[i - 1]
    <3> DEFINE e == NewRow(m)
               p == k + 1
    <3>1. /\ e \in Row /\ rows \in Seq(Row) /\ p \in 1 .. Len(rows) + 1
          /\ \A i \in 1 .. Len(rows) + 1 : i <= k <=> i < p
      BY <1>1, <1>2
    <3> HIDE DEF e, p
    <3>2. /\ InsertAt(rows, p, e) \in Seq(Row)
          /\ Len(InsertAt(rows, p, e)) = Len(rows) + 1
          /\ \A i \in 1 .. Len(rows) + 1 :
               InsertAt(rows, p, e)[i] =
                 IF i < p THEN rows[i] ELSE IF i = p THEN e ELSE rows[i - 1]
      BY <3>1, InsertedReturns
    <3> QED
      BY <3>1, <3>2 DEF e, p
  <2> HIDE DEF list
  <2>2. DOMAIN list = 1 .. Len(list)
    BY <2>1, LenProperties
  <2> QED
    BY <2>1, <2>2
<1>4. rows' = Recalculated(list)
  BY DEF Inserted
<1> HIDE DEF list
<1>5. OneLine(rows)
  BY DEF RowsOK, MarksAgree, OneLine
<1>6. OneLine(list)
  <2> SUFFICES ASSUME NEW i \in 1 .. Len(rows) + 1, NEW j \in 1 .. Len(rows) + 1,
                      list[i].unread, list[j].unread
               PROVE  i = j
    BY <1>3 DEF OneLine
  <2> DEFINE at(l) == IF l <= k THEN l ELSE l - 1
  <2>1. i # k + 1 /\ j # k + 1
    BY <1>1, <1>2, <1>3
  <2>2. at(i) \in 1 .. Len(rows) /\ at(j) \in 1 .. Len(rows)
    BY <1>1, <2>1
  <2>3. rows[at(i)].unread /\ rows[at(j)].unread
    BY <1>3, <2>1
  <2>4. at(i) = at(j)
    BY <1>1, <1>5, <2>2, <2>3 DEF OneLine
  <2> QED
    BY <1>1, <2>1, <2>4
<1>7. /\ rows' \in Seq(Row) /\ DOMAIN rows' = 1 .. Len(list) /\ MarksAgree'
      /\ \A i \in 1 .. Len(list) : rows'[i].m = list[i].m
  BY <1>3, <1>4, <1>6, Redrawn
<1>8. Marks /\ DOMAIN rows' = 1 .. Len(rows) + 1
  BY <1>3, <1>7 DEF Marks
<1>9. ASSUME NEW i \in 1 .. Len(rows) + 1
      PROVE  rows'[i].m = IF i <= k THEN rows[i].m ELSE IF i = k + 1 THEN m ELSE rows[i - 1].m
  BY <1>2, <1>3, <1>7
<1> QED
  BY <1>8, <1>9

LEMMA LoadedChanges ==
  ASSUME NEW T \in SUBSET Nat, IsFiniteSet(T), T \subseteq All, rows' = Recalculated(RowsOf(T))
  PROVE  Marks /\ Ascending(rows') /\ \A i \in DOMAIN rows' : rows'[i].m \in T
<1> DEFINE list == RowsOf(T)
<1>1. /\ list \in Seq(Row) /\ Len(list) = Cardinality(T)
      /\ \A i \in 1 .. Cardinality(T) : list[i].m \in T /\ list[i].unread = FALSE
      /\ Ascending(list) /\ rows' = Recalculated(list)
  BY RowsOfReturns
<1> HIDE DEF list
<1>2. DOMAIN list = 1 .. Len(list)
  BY <1>1, LenProperties
<1>3. OneLine(list)
  BY <1>1, <1>2 DEF OneLine
<1>4. /\ rows' \in Seq(Row) /\ DOMAIN rows' = 1 .. Len(list) /\ MarksAgree'
      /\ \A i \in 1 .. Len(list) : rows'[i].m = list[i].m
  BY <1>1, <1>3, Redrawn
<1> QED
  BY <1>1, <1>2, <1>4 DEF Marks, Ascending

(* Older rows come first, and what is shown keeps its order behind them.   *)
LEMMA MoreLoadedChanges ==
  ASSUME RowsOK, NEW T \in SUBSET Nat, IsFiniteSet(T), T \subseteq All, NEW b \in Nat,
         b <= Cardinality(T) + Len(rows),
         rows' = Recalculated(SubSeq(RowsOf(T) \o rows, 1, b))
  PROVE  /\ Marks /\ DOMAIN rows' = 1 .. b
         /\ \A i \in 1 .. b :
              rows'[i].m = IF i <= Cardinality(T) THEN RowsOf(T)[i].m
                           ELSE rows[i - Cardinality(T)].m
<1> DEFINE older == RowsOf(T)
           both == older \o rows
           list == SubSeq(both, 1, b)
           n == Cardinality(T)
<1>1. /\ older \in Seq(Row) /\ Len(older) = n
      /\ \A i \in 1 .. n : older[i].m \in T /\ older[i].unread = FALSE
  BY RowsOfReturns
<1>2. /\ rows \in Seq(Row) /\ DOMAIN rows = 1 .. Len(rows) /\ Len(rows) \in Nat
      /\ n \in Nat /\ n = Cardinality(T)
  BY FS_CardinalityType DEF RowsOK
<1> HIDE DEF n, older
<1>3. /\ both \in Seq(Row) /\ Len(both) = n + Len(rows)
      /\ \A i \in 1 .. n + Len(rows) : both[i] = IF i <= n THEN older[i] ELSE rows[i - n]
  <2>1. /\ both \in Seq(Row) /\ Len(both) = Len(older) + Len(rows)
        /\ \A i \in 1 .. Len(older) + Len(rows) :
             both[i] = IF i <= Len(older) THEN older[i] ELSE rows[i - Len(older)]
    BY <1>1, <1>2, ConcatProperties
  <2> HIDE DEF both
  <2> QED
    BY <1>1, <2>1
<1> HIDE DEF both
<1>4. list \in Seq(Row) /\ Len(list) = b /\ \A i \in 1 .. b : list[i] = both[i]
  <2>0. b \in 0 .. Len(both) /\ 1 \in 1 .. Len(both) + 1 /\ 1 <= b + 1
    BY <1>2, <1>3
  <2>1. /\ list \in Seq(Row) /\ Len(list) = b + 1 - 1
        /\ \A i \in 1 .. b + 1 - 1 : list[i] = both[1 + i - 1]
    BY <1>3, <2>0, Sliced
  <2> QED
    BY <2>1
<1>5. rows' = Recalculated(list)
  BY DEF list, both, older
<1> HIDE DEF list
<1>6. DOMAIN list = 1 .. b
  BY <1>4, LenProperties
<1>7. \A i \in 1 .. b : i \in 1 .. n + Len(rows) /\ list[i] = IF i <= n THEN older[i] ELSE rows[i - n]
  BY <1>2, <1>3, <1>4
<1>8. OneLine(rows)
  BY DEF RowsOK, MarksAgree, OneLine
<1>9. OneLine(list)
  <2> SUFFICES ASSUME NEW i \in 1 .. b, NEW j \in 1 .. b, list[i].unread, list[j].unread
               PROVE  i = j
    BY <1>6 DEF OneLine
  <2>1. i > n /\ j > n
    <3>1. i <= n => i \in 1 .. n /\ list[i] = older[i]
      BY <1>2, <1>7
    <3>2. j <= n => j \in 1 .. n /\ list[j] = older[j]
      BY <1>2, <1>7
    <3>3. ~(i <= n) /\ ~(j <= n)
      BY <1>1, <3>1, <3>2
    <3> QED
      BY <1>2, <3>3
  <2>2. i - n \in 1 .. Len(rows) /\ j - n \in 1 .. Len(rows) /\ ~(i <= n) /\ ~(j <= n)
    BY <1>2, <1>7, <2>1
  <2>3. rows[i - n].unread /\ rows[j - n].unread
    BY <1>7, <2>2
  <2>4. i - n = j - n
    BY <1>2, <1>8, <2>2, <2>3 DEF OneLine
  <2> QED
    BY <1>2, <2>4
<1>10. /\ rows' \in Seq(Row) /\ DOMAIN rows' = 1 .. b /\ MarksAgree'
       /\ \A i \in 1 .. b : rows'[i].m = list[i].m
  BY <1>4, <1>5, <1>9, Redrawn
<1>11. ASSUME NEW i \in 1 .. b
       PROVE  rows'[i].m = IF i <= n THEN older[i].m ELSE rows[i - n].m
  BY <1>7, <1>10
<1> QED
  BY <1>10, <1>11 DEF Marks, n, older

-----------------------------------------------------------------------------
(* The queues.                                                             *)

LEMMA Appended ==
  ASSUME NEW S, NEW q \in Seq(S), NEW e \in S, NEW new, new = Append(q, e)
  PROVE  /\ new \in Seq(S) /\ Len(new) = Len(q) + 1 /\ Len(q) \in Nat
         /\ DOMAIN q = 1 .. Len(q) /\ DOMAIN new = 1 .. Len(q) + 1
         /\ (\A i \in 1 .. Len(q) : new[i] = q[i]) /\ new[Len(q) + 1] = e
OBVIOUS

LEMMA Shortened ==
  ASSUME NEW S, NEW q \in Seq(S), q # <<>>, NEW new, new = Tail(q)
  PROVE  /\ new \in Seq(S) /\ Head(q) \in S /\ Head(q) = q[1] /\ Len(q) \in Nat \ {0}
         /\ DOMAIN q = 1 .. Len(q) /\ DOMAIN new = 1 .. Len(q) - 1
         /\ \A i \in 1 .. Len(q) - 1 : new[i] = q[i + 1]
OBVIOUS

(* What the worker reads for a job.                                        *)
LEMMA PageReturns ==
  ASSUME QueuesOK, NEW c \in Conversations, NEW n, NEW b,
         NEW T, T = Newest(n, history \intersect MessagesOf[c]) \/
                T = Newest(n, {m \in history \intersect MessagesOf[c] : m < b})
  PROVE  /\ T \subseteq MessagesOf[c] /\ T \subseteq history /\ IsFiniteSet(T) /\ T \subseteq Nat
         /\ T = Newest(n, {m \in history \intersect MessagesOf[c] : m < b}) =>
              \A m \in T : m < b
<1>1. T \subseteq MessagesOf[c] /\ T \subseteq history
  BY DEF Newest
<1>2. IsFiniteSet(T)
  BY <1>1, FS_Subset DEF QueuesOK
<1>3. T \subseteq Nat
  BY <1>1, MessagesAreNumbers
<1>4. T = Newest(n, {m \in history \intersect MessagesOf[c] : m < b}) => \A m \in T : m < b
  BY DEF Newest
<1> QED
  BY <1>1, <1>2, <1>3, <1>4

(* A page read for the open conversation.                                  *)
LEMMA HeadIsPage ==
  ASSUME QueuesOK, replies # <<>>
  PROVE  /\ Head(replies) \in Reply /\ Head(replies) = replies[1] /\ 1 \in DOMAIN replies
         /\ IsPage(Head(replies)) /\ Head(replies).page \in SUBSET Nat
         /\ IsFiniteSet(Head(replies).page) /\ Head(replies).page \subseteq All
         /\ Head(replies).page \subseteq MessagesOf[Head(replies).conversation]
         /\ Head(replies).page \subseteq arrived
<1>1. Head(replies) \in Reply /\ Head(replies) = replies[1] /\ 1 \in DOMAIN replies
  BY DEF QueuesOK
<1>2. IsPage(Head(replies))
  BY <1>1 DEF QueuesOK
<1>3. Head(replies).conversation \in Conversations /\ Head(replies).page \in SUBSET Nat
  BY <1>1 DEF Reply
<1> QED
  BY <1>1, <1>2, <1>3, MessagesAreNumbers DEF IsPage

LEMMA AskKeeps ==
  ASSUME QueuesOK, NEW kind \in {"load", "more", "save"}, NEW c \in Conversations,
         NEW m \in Nat, Ask(kind, c, m), arrived \subseteq arrived',
         kind = "save" => m \in arrived'
  PROVE  /\ jobs' \in Seq(Job)
         /\ \A i \in DOMAIN jobs' : jobs'[i].kind = "save" => jobs'[i].m \in arrived'
<1> DEFINE e == [kind |-> kind, conversation |-> c, m |-> m]
<1>1. e \in Job /\ e.kind = kind /\ e.m = m
  BY DEF Job
<1>2. jobs' = Append(jobs, e) /\ jobs \in Seq(Job)
  BY DEF Ask, QueuesOK
<1> HIDE DEF e
<1>3. /\ jobs' \in Seq(Job) /\ Len(jobs) \in Nat
      /\ DOMAIN jobs = 1 .. Len(jobs) /\ DOMAIN jobs' = 1 .. Len(jobs) + 1
      /\ (\A i \in 1 .. Len(jobs) : jobs'[i] = jobs[i]) /\ jobs'[Len(jobs) + 1] = e
  BY <1>1, <1>2, Appended
<1>4. \A i \in DOMAIN jobs' : i \in DOMAIN jobs \/ i = Len(jobs) + 1
  BY <1>3
<1> QED
  BY <1>1, <1>3, <1>4 DEF QueuesOK

LEMMA RepliesKeep ==
  ASSUME QueuesOK, replies # <<>>, replies' = Tail(replies), arrived' = arrived
  PROVE  replies' \in Seq(Reply) /\ (\A i \in DOMAIN replies : IsPage(replies[i]))'
<1>1. replies \in Seq(Reply)
  BY DEF QueuesOK
<1>2. /\ replies' \in Seq(Reply) /\ Len(replies) \in Nat \ {0}
      /\ DOMAIN replies = 1 .. Len(replies) /\ DOMAIN replies' = 1 .. Len(replies) - 1
      /\ \A i \in 1 .. Len(replies) - 1 : replies'[i] = replies[i + 1]
  BY <1>1, Shortened
<1>3. \A i \in DOMAIN replies' : i + 1 \in DOMAIN replies /\ replies'[i] = replies[i + 1]
  BY <1>2
<1> QED
  BY <1>2, <1>3 DEF QueuesOK, IsPage

LEMMA WorkKeeps ==
  ASSUME QueuesOK, Work
  PROVE  /\ jobs' \in Seq(Job) /\ replies' \in Seq(Reply)
         /\ \A i \in DOMAIN jobs' : jobs'[i].kind = "save" => jobs'[i].m \in arrived
         /\ \A i \in DOMAIN replies' : IsPage(replies'[i])
         /\ history' \subseteq arrived /\ IsFiniteSet(history')
<1> DEFINE j == Head(jobs)
           kept == history \intersect MessagesOf[j.conversation]
           page == IF j.kind = "load" THEN Newest(FirstPage, kept)
                   ELSE Newest(Page, {m \in kept : m < j.m})
           e == [kind |-> j.kind, conversation |-> j.conversation, page |-> page]
<1>1. /\ jobs \in Seq(Job) /\ jobs # <<>> /\ jobs' = Tail(jobs) /\ replies \in Seq(Reply)
      /\ history \subseteq arrived /\ IsFiniteSet(history)
      /\ \A i \in DOMAIN replies : IsPage(replies[i])
  BY DEF Work, QueuesOK
<1>2. /\ jobs' \in Seq(Job) /\ j \in Job /\ j = jobs[1] /\ Len(jobs) \in Nat \ {0}
      /\ DOMAIN jobs = 1 .. Len(jobs) /\ DOMAIN jobs' = 1 .. Len(jobs) - 1
      /\ \A i \in 1 .. Len(jobs) - 1 : jobs'[i] = jobs[i + 1]
  BY <1>1, Shortened
<1>3. \A i \in DOMAIN jobs' : i + 1 \in DOMAIN jobs /\ jobs'[i] = jobs[i + 1]
  BY <1>2
<1>4. \A i \in DOMAIN jobs' : jobs'[i].kind = "save" => jobs'[i].m \in arrived
  BY <1>3 DEF QueuesOK
<1>5. CASE j.kind = "save"
  <2>1. history' = history \union {j.m} /\ replies' = replies
    BY <1>5 DEF Work
  <2>2. 1 \in DOMAIN jobs
    BY <1>2
  <2>3. j.m \in arrived
    BY <1>2, <1>5, <2>2 DEF QueuesOK
  <2> QED
    BY <1>1, <1>2, <1>4, <2>1, <2>3, FS_AddElement
<1>6. CASE j.kind # "save"
  <2>1. replies' = Append(replies, e) /\ history' = history
    BY <1>6 DEF Work
  <2>2. j.kind \in {"load", "more"} /\ j.conversation \in Conversations
    BY <1>2, <1>6 DEF Job
  <2>3. /\ page \subseteq MessagesOf[j.conversation] /\ page \subseteq history
        /\ IsFiniteSet(page) /\ page \subseteq Nat
    <3>1. \/ page = Newest(FirstPage, history \intersect MessagesOf[j.conversation])
          \/ page = Newest(Page, {m \in history \intersect MessagesOf[j.conversation] : m < j.m})
      OBVIOUS
    <3> HIDE DEF page, j
    <3> QED
      BY <2>2, <3>1, PageReturns
  <2> HIDE DEF page
  <2>4. e \in Reply /\ e.conversation = j.conversation /\ e.page = page
    BY <2>2, <2>3 DEF Reply
  <2>5. IsPage(e)
    BY <1>1, <2>3, <2>4 DEF IsPage
  <2> HIDE DEF e
  <2>6. /\ replies' \in Seq(Reply) /\ Len(replies) \in Nat
        /\ DOMAIN replies = 1 .. Len(replies) /\ DOMAIN replies' = 1 .. Len(replies) + 1
        /\ (\A i \in 1 .. Len(replies) : replies'[i] = replies[i])
        /\ replies'[Len(replies) + 1] = e
    BY <1>1, <2>1, <2>4, Appended
  <2>7. \A i \in DOMAIN replies' : i \in DOMAIN replies \/ i = Len(replies) + 1
    BY <2>6
  <2> QED
    BY <1>1, <1>2, <1>4, <2>1, <2>5, <2>6, <2>7
<1> QED
  BY <1>5, <1>6

LEMMA QueuesStep ==
  ASSUME RowsInv, [ChatNext]_chatVars
  PROVE  QueuesOK'
<1> USE DEF RowsInv
<1>1. CASE UNCHANGED chatVars
  BY <1>1 DEF chatVars, QueuesOK, IsPage
<1>2. CASE Close
  BY <1>2 DEF Close, QueuesOK, IsPage
<1>3. CASE FetchMore
  <2>1. activeId \in Conversations /\ Head(rows).m \in Nat
    <3>1. rows # <<>> /\ rows \in Seq(Row) /\ activeId # Closed
      BY <1>3 DEF FetchMore, RowsOK
    <3>2. Head(rows) \in Row
      BY <3>1
    <3> QED
      BY <3>1, <3>2, MessagesAreNumbers DEF QueuesOK
  <2>2. Ask("more", activeId, Head(rows).m) /\ arrived' = arrived
    BY <1>3 DEF FetchMore
  <2>3. /\ jobs' \in Seq(Job)
        /\ \A i \in DOMAIN jobs' : jobs'[i].kind = "save" => jobs'[i].m \in arrived'
    BY <2>1, <2>2, AskKeeps
  <2>4. (disorder \/ UnderWay("load")) \in BOOLEAN
    OBVIOUS
  <2> QED
    BY <1>3, <2>3, <2>4 DEF FetchMore, QueuesOK, IsPage
<1>4. CASE Work
  <2>1. /\ jobs' \in Seq(Job) /\ replies' \in Seq(Reply)
        /\ \A i \in DOMAIN jobs' : jobs'[i].kind = "save" => jobs'[i].m \in arrived
        /\ \A i \in DOMAIN replies' : IsPage(replies'[i])
        /\ history' \subseteq arrived /\ IsFiniteSet(history')
    BY <1>4, WorkKeeps
  <2> QED
    BY <1>4, <2>1 DEF Work, QueuesOK, IsPage
<1>5. CASE Loaded
  <2>1. replies # <<>> /\ replies' = Tail(replies) /\ arrived' = arrived
    BY <1>5 DEF Loaded
  <2>2. replies' \in Seq(Reply) /\ (\A i \in DOMAIN replies : IsPage(replies[i]))'
    BY <2>1, RepliesKeep
  <2>3. canFetch' \in BOOLEAN /\ disorder' \in BOOLEAN
    <3>1. \/ canFetch' = canFetch /\ disorder' = disorder
          \/ /\ canFetch' = (Cardinality(Head(replies).page) >= FirstPage)
             /\ disorder' = (disorder /\ UnderWay("more"))
      BY <1>5 DEF Loaded
    <3>2. (Cardinality(Head(replies).page) >= FirstPage) \in BOOLEAN
      BY FS_CardinalityType, HeadIsPage, <2>1, ChatAssumption
    <3>3. (disorder /\ UnderWay("more")) \in BOOLEAN
      OBVIOUS
    <3> QED
      BY <3>1, <3>2, <3>3 DEF QueuesOK
  <2> QED
    BY <1>5, <2>2, <2>3 DEF Loaded, QueuesOK
<1>6. CASE MoreLoaded
  <2>1. replies # <<>> /\ replies' = Tail(replies) /\ arrived' = arrived
    BY <1>6 DEF MoreLoaded
  <2>2. replies' \in Seq(Reply) /\ (\A i \in DOMAIN replies : IsPage(replies[i]))'
    BY <2>1, RepliesKeep
  <2>3. canFetch' \in BOOLEAN
    <3>1. \/ canFetch' = canFetch
          \/ canFetch' = (Cardinality(Head(replies).page) >= Page)
      BY <1>6 DEF MoreLoaded
    <3>2. (Cardinality(Head(replies).page) >= Page) \in BOOLEAN
      BY FS_CardinalityType, HeadIsPage, <2>1, ChatAssumption
    <3> QED
      BY <3>1, <3>2 DEF QueuesOK
  <2> QED
    BY <1>6, <2>2, <2>3 DEF MoreLoaded, QueuesOK
<1>7. ASSUME NEW c \in Conversations, Open(c) PROVE QueuesOK'
  <2>1. Ask("load", c, 0) /\ arrived' = arrived
    BY <1>7 DEF Open
  <2>2. /\ jobs' \in Seq(Job)
        /\ \A i \in DOMAIN jobs' : jobs'[i].kind = "save" => jobs'[i].m \in arrived'
    BY <2>1, AskKeeps
  <2>3. openings' \in 0 .. MaxOpens
    BY <1>7, ChatAssumption DEF Open, QueuesOK
  <2> QED
    BY <1>7, <2>2, <2>3 DEF Open, QueuesOK, IsPage
<1>8. ASSUME NEW c \in Conversations, NEW m \in MessagesOf[c], MessageAdded(c, m)
      PROVE  QueuesOK'
  <2>1. /\ Ask("save", c, m) /\ arrived' = arrived \union {m} /\ m \in Nat /\ m \in All
    BY <1>8, MessagesAreNumbers DEF MessageAdded
  <2>2. /\ jobs' \in Seq(Job)
        /\ \A i \in DOMAIN jobs' : jobs'[i].kind = "save" => jobs'[i].m \in arrived'
    BY <2>1, AskKeeps
  <2>3. disorder' \in BOOLEAN
    BY <1>8 DEF MessageAdded
  <2> QED
    BY <1>8, <2>1, <2>2, <2>3 DEF MessageAdded, QueuesOK, IsPage
<1>9. ASSUME NEW m \in All, MessageReplaced(m) PROVE QueuesOK'
  BY <1>9 DEF MessageReplaced, QueuesOK, IsPage
<1>10. ASSUME NEW m \in All, MessageRemoved(m) PROVE QueuesOK'
  <2>1. IsFiniteSet(history \ {m})
    BY FS_Subset DEF QueuesOK
  <2> QED
    BY <1>10, <2>1 DEF MessageRemoved, QueuesOK, IsPage
<1>11. ASSUME NEW m \in All, MarkMessage(m) PROVE QueuesOK'
  BY <1>11 DEF MarkMessage, QueuesOK, IsPage
<1>12. ASSUME NEW n \in 0 .. Len(rows), MarkIndex(n) PROVE QueuesOK'
  BY <1>12 DEF MarkIndex, QueuesOK, IsPage
<1> QED
  BY <1>1, <1>2, <1>3, <1>4, <1>5, <1>6, <1>7, <1>8, <1>9, <1>10, <1>11, <1>12 DEF ChatNext

(* The rows after an older page: its messages, then a part of the old ones. *)
LEMMA OlderPage ==
  ASSUME RowsInv, MoreLoaded, Head(replies).conversation = activeId,
         NEW T, T = Head(replies).page
  PROVE  /\ Marks
         /\ \E b \in Nat :
              /\ DOMAIN rows' = 1 .. b /\ b <= Cardinality(T) + Len(rows)
              /\ \A i \in 1 .. b :
                   rows'[i].m = IF i <= Cardinality(T) THEN RowsOf(T)[i].m
                                ELSE rows[i - Cardinality(T)].m
<1> DEFINE list == RowsOf(T) \o rows
           n == Min({Len(list), Window})
<1>1. T \in SUBSET Nat /\ IsFiniteSet(T) /\ T \subseteq All
  BY HeadIsPage DEF RowsInv, MoreLoaded
<1>2. Cardinality(T) \in Nat /\ rows \in Seq(Row) /\ Len(rows) \in Nat /\ DOMAIN rows = 1 .. Len(rows)
  BY <1>1, FS_CardinalityType DEF RowsInv, RowsOK
<1>3. rows' = Recalculated(IF T = {} THEN rows ELSE SubSeq(list, 1, n))
  <2>1. rows' = LET all == RowsOf(Head(replies).page) \o rows
                IN  Recalculated(IF Head(replies).page = {} THEN rows
                                 ELSE SubSeq(all, 1, Min({Len(all), Window})))
    BY ZenonT(60) DEF MoreLoaded
  <2> QED
    BY <2>1
<1>4. CASE T = {}
  <2>1. Cardinality(T) = 0
    BY <1>4, FS_EmptySet
  <2>2. OneLine(rows)
    BY DEF RowsInv, RowsOK, MarksAgree, OneLine
  <2>3. rows' = Recalculated(rows)
    BY <1>3, <1>4
  <2>4. /\ rows' \in Seq(Row) /\ DOMAIN rows' = 1 .. Len(rows) /\ MarksAgree'
        /\ \A i \in 1 .. Len(rows) : rows'[i].m = rows[i].m
    BY <1>2, <2>2, <2>3, Redrawn
  <2>5. \A i \in 1 .. Len(rows) : ~(i <= 0) /\ i - 0 = i
    BY <1>2
  <2>6. \A i \in 1 .. Len(rows) :
          rows'[i].m = IF i <= Cardinality(T) THEN RowsOf(T)[i].m ELSE rows[i - Cardinality(T)].m
    BY <2>1, <2>4, <2>5
  <2>7. Len(rows) <= Cardinality(T) + Len(rows)
    BY <1>2
  <2> QED
    BY <1>2, <2>4, <2>6, <2>7 DEF Marks
<1>5. CASE T # {}
  <2>1. Len(list) = Cardinality(T) + Len(rows)
    <3>1. RowsOf(T) \in Seq(Row) /\ Len(RowsOf(T)) = Cardinality(T)
      BY <1>1, RowsOfReturns
    <3>2. Len(RowsOf(T) \o rows) = Len(RowsOf(T)) + Len(rows)
      BY <1>2, <3>1, ConcatProperties
    <3> QED
      BY <3>1, <3>2
  <2>2. Len(list) \in Nat /\ Window \in Nat
    BY <1>2, <2>1, ChatAssumption
  <2>3. n \in Nat /\ n <= Len(list)
    <3> DEFINE a == Len(list)
    <3> SUFFICES ASSUME a \in Nat PROVE Min({a, Window}) \in Nat /\ Min({a, Window}) <= a
      BY <2>2
    <3> HIDE DEF a
    <3>1. a <= Window \/ Window <= a
      BY <2>2
    <3>2. \E x \in {a, Window} : \A y \in {a, Window} : x <= y
      BY <2>2, <3>1
    <3> QED
      BY <2>2, <3>2 DEF Min
  <2>4. rows' = Recalculated(SubSeq(RowsOf(T) \o rows, 1, n))
    BY <1>3, <1>5
  <2>5. n <= Cardinality(T) + Len(rows) /\ RowsOK
    BY <2>1, <2>3 DEF RowsInv
  <2> HIDE DEF n
  <2>6. /\ Marks /\ DOMAIN rows' = 1 .. n
        /\ \A i \in 1 .. n :
             rows'[i].m = IF i <= Cardinality(T) THEN RowsOf(T)[i].m ELSE rows[i - Cardinality(T)].m
    BY <1>1, <2>3, <2>4, <2>5, MoreLoadedChanges
  <2> QED
    BY <2>3, <2>5, <2>6
<1> QED
  BY <1>4, <1>5

LEMMA RowsStep ==
  ASSUME RowsInv, [ChatNext]_chatVars
  PROVE  RowsOK'
<1>1. /\ rows \in Seq(Row) /\ Len(rows) \in Nat /\ DOMAIN rows = 1 .. Len(rows)
      /\ activeId = Closed => rows = <<>>
      /\ \A i \in DOMAIN rows : rows[i].m \in MessagesOf[activeId] /\ rows[i].m \in arrived
      /\ RowsOK /\ QueuesOK /\ MarksAgree
  BY DEF RowsInv, RowsOK
<1>2. ASSUME rows' = rows, activeId' = activeId, arrived \subseteq arrived' PROVE RowsOK'
  BY <1>1, <1>2 DEF RowsOK, MarksAgree
<1>3. ASSUME rows' = <<>>, activeId' \in Conversations \union {Closed} PROVE RowsOK'
  BY <1>3 DEF RowsOK, MarksAgree
<1>4. ASSUME Marks, activeId' = activeId, arrived \subseteq arrived', activeId # Closed,
             \A i \in DOMAIN rows' : rows'[i].m \in MessagesOf[activeId] \intersect arrived'
      PROVE  RowsOK'
  BY <1>4 DEF RowsOK, Marks
<1>5. ASSUME Marks, SameMessages, activeId' = activeId, arrived' = arrived PROVE RowsOK'
  <2>1. rows' \in Seq(Row) /\ DOMAIN rows' = 1 .. Len(rows')
    BY <1>5 DEF Marks
  <2>2. \A i \in DOMAIN rows' : rows'[i].m = rows[i].m /\ i \in DOMAIN rows
    BY <1>1, <1>5, <2>1 DEF SameMessages
  <2>3. rows = <<>> => rows' = <<>>
    BY <1>5, <2>1 DEF SameMessages
  <2> QED
    BY <1>1, <1>5, <2>2, <2>3 DEF RowsOK, Marks
<1>6. CASE UNCHANGED chatVars
  BY <1>2, <1>6 DEF chatVars
<1>7. CASE Close
  BY <1>3, <1>7 DEF Close
<1>8. CASE FetchMore
  BY <1>2, <1>8 DEF FetchMore
<1>9. CASE Work
  BY <1>2, <1>9 DEF Work
<1>10. CASE Loaded
  <2>1. replies # <<>> /\ activeId' = activeId /\ arrived' = arrived
    BY <1>10 DEF Loaded
  <2>2. CASE Head(replies).conversation = activeId
    <3> DEFINE T == Head(replies).page
    <3>1. /\ T \in SUBSET Nat /\ IsFiniteSet(T) /\ T \subseteq All
          /\ T \subseteq MessagesOf[activeId] /\ T \subseteq arrived
      BY <1>1, <2>1, <2>2, HeadIsPage
    <3>2. rows' = Recalculated(RowsOf(T))
      BY <1>10, <2>2 DEF Loaded
    <3>3. activeId # Closed
      <4>1. Head(replies).conversation \in Conversations
        BY <1>1, <2>1, HeadIsPage DEF Reply
      <4> QED
        BY <2>2, <4>1, ChatAssumption
    <3> HIDE DEF T
    <3>4. Marks /\ \A i \in DOMAIN rows' : rows'[i].m \in T
      BY <3>1, <3>2, LoadedChanges
    <3> QED
      BY <1>4, <2>1, <3>1, <3>3, <3>4
  <2>3. CASE Head(replies).conversation # activeId
    BY <1>2, <1>10, <2>3 DEF Loaded
  <2> QED
    BY <2>2, <2>3
<1>11. CASE MoreLoaded
  <2>1. replies # <<>> /\ activeId' = activeId /\ arrived' = arrived
    BY <1>11 DEF MoreLoaded
  <2>2. CASE Head(replies).conversation = activeId
    <3> DEFINE T == Head(replies).page
               n == Cardinality(T)
    <3>1. /\ T \in SUBSET Nat /\ IsFiniteSet(T) /\ T \subseteq All
          /\ T \subseteq MessagesOf[activeId] /\ T \subseteq arrived
      BY <1>1, <2>1, <2>2, HeadIsPage
    <3>2. activeId # Closed
      <4>1. Head(replies).conversation \in Conversations
        BY <1>1, <2>1, HeadIsPage DEF Reply
      <4> QED
        BY <2>2, <4>1, ChatAssumption
    <3>3. /\ Marks
          /\ \E b \in Nat :
               /\ DOMAIN rows' = 1 .. b /\ b <= n + Len(rows)
               /\ \A i \in 1 .. b :
                    rows'[i].m = IF i <= n THEN RowsOf(T)[i].m ELSE rows[i - n].m
      BY <1>11, <2>2, OlderPage DEF n
    <3>4. n \in Nat /\ n = Cardinality(T)
      BY <3>1, FS_CardinalityType
    <3>5. \A i \in 1 .. n : RowsOf(T)[i].m \in T
      BY <3>1, RowsOfReturns
    <3> HIDE DEF T, n
    <3>6. \A i \in DOMAIN rows' : rows'[i].m \in MessagesOf[activeId] \intersect arrived
      <4>1. PICK b \in Nat :
              /\ DOMAIN rows' = 1 .. b /\ b <= n + Len(rows)
              /\ \A i \in 1 .. b : rows'[i].m = IF i <= n THEN RowsOf(T)[i].m ELSE rows[i - n].m
        BY <3>3
      <4> SUFFICES ASSUME NEW i \in 1 .. b
                   PROVE  rows'[i].m \in MessagesOf[activeId] \intersect arrived
        BY <4>1
      <4>2. CASE i <= n
        <5>1. i \in 1 .. n /\ rows'[i].m = RowsOf(T)[i].m
          BY <3>4, <4>1, <4>2
        <5>2. rows'[i].m \in T
          BY <3>5, <5>1
        <5> QED
          BY <3>1, <5>2
      <4>3. CASE ~(i <= n)
        <5>1. i - n \in DOMAIN rows
          BY <1>1, <3>4, <4>1, <4>3
        <5> QED
          BY <1>1, <4>1, <4>3, <5>1
      <4> QED
        BY <4>2, <4>3
    <3> QED
      BY <1>4, <2>1, <3>2, <3>3, <3>6
  <2>3. CASE Head(replies).conversation # activeId
    BY <1>2, <1>11, <2>3 DEF MoreLoaded
  <2> QED
    BY <2>2, <2>3
<1>12. ASSUME NEW c \in Conversations, Open(c) PROVE RowsOK'
  BY <1>3, <1>12 DEF Open
<1>13. ASSUME NEW c \in Conversations, NEW m \in MessagesOf[c], MessageAdded(c, m)
       PROVE  RowsOK'
  <2>1. activeId' = activeId /\ arrived' = arrived \union {m} /\ m \in All
    BY <1>13, MessagesAreNumbers DEF MessageAdded
  <2>2. CASE c = activeId
    <3>1. PICK k \in 0 .. Len(rows) : Inserted(k, m)
      BY <1>13, <2>2 DEF MessageAdded
    <3>2. /\ Marks /\ DOMAIN rows' = 1 .. Len(rows) + 1
          /\ \A i \in 1 .. Len(rows) + 1 :
               rows'[i].m = IF i <= k THEN rows[i].m ELSE IF i = k + 1 THEN m ELSE rows[i - 1].m
      BY <1>1, <2>1, <3>1, InsertChanges
    <3>3. activeId # Closed
      BY <2>2, ChatAssumption
    <3>4. ASSUME NEW i \in DOMAIN rows'
          PROVE  rows'[i].m \in MessagesOf[activeId] \intersect arrived'
      <4>1. i \in 1 .. Len(rows) + 1
        BY <3>2
      <4>2. (i <= k => i \in DOMAIN rows) /\ (~(i <= k) /\ i # k + 1 => i - 1 \in DOMAIN rows)
        BY <1>1, <3>1, <4>1
      <4> QED
        BY <1>1, <1>13, <2>1, <2>2, <3>2, <4>1, <4>2
    <3> QED
      BY <1>4, <2>1, <3>2, <3>3, <3>4
  <2>3. CASE c # activeId
    BY <1>2, <1>13, <2>1, <2>3 DEF MessageAdded
  <2> QED
    BY <2>2, <2>3
<1>14. ASSUME NEW m \in All, MessageReplaced(m) PROVE RowsOK'
  BY <1>1, <1>5, <1>14, ReplaceChanges DEF MessageReplaced
<1>15. ASSUME NEW m \in All, MessageRemoved(m) PROVE RowsOK'
  <2>1. activeId' = activeId /\ arrived' = arrived /\ rows # <<>> /\ activeId # Closed
    BY <1>1, <1>15 DEF MessageRemoved, Shown
  <2>2. /\ Marks /\ DOMAIN rows' = 1 .. Len(rows) - 1
        /\ \E k \in 1 .. Len(rows) : \A i \in 1 .. Len(rows) - 1 :
             rows'[i].m = rows[IF i < k THEN i ELSE i + 1].m
    BY <1>1, <1>15, RemoveChanges
  <2>3. \A i \in 1 .. Len(rows) - 1 : i \in DOMAIN rows /\ i + 1 \in DOMAIN rows
    BY <1>1
  <2>4. \A i \in DOMAIN rows' : rows'[i].m \in MessagesOf[activeId] \intersect arrived'
    BY <1>1, <2>1, <2>2, <2>3
  <2> QED
    BY <1>4, <2>1, <2>2, <2>4
<1>16. ASSUME NEW m \in All, MarkMessage(m) PROVE RowsOK'
  BY <1>1, <1>5, <1>16, MarkChanges DEF MarkMessage
<1>17. ASSUME NEW n \in 0 .. Len(rows), MarkIndex(n) PROVE RowsOK'
  BY <1>1, <1>5, <1>17, MarkChanges DEF MarkIndex
<1> QED
  BY <1>6, <1>7, <1>8, <1>9, <1>10, <1>11, <1>12, <1>13, <1>14, <1>15, <1>16, <1>17 DEF ChatNext

LEMMA RowsStart == ChatInit => RowsInv
<1> SUFFICES ASSUME ChatInit PROVE RowsInv
  OBVIOUS
<1>1. PICK n \in All : history = UNION {{m \in MessagesOf[c] : m < n} : c \in Conversations}
  BY DEF ChatInit
<1>2. n \in Nat /\ history \subseteq All /\ history \subseteq 0 .. n
  BY <1>1, MessagesAreNumbers
<1>3. IsFiniteSet(history)
  <2>1. IsFiniteSet(0 .. n)
    BY <1>2, FS_Interval
  <2> QED
    BY <1>2, <2>1, FS_Subset
<1>4. RowsOK
  BY DEF ChatInit, RowsOK, MarksAgree
<1>5. QueuesOK
  <2>1. MaxOpens \in Nat /\ openings = 0 /\ jobs = <<>> /\ replies = <<>> /\ arrived = history
    BY ChatAssumption DEF ChatInit
  <2>2. jobs \in Seq(Job) /\ DOMAIN jobs = {} /\ replies \in Seq(Reply) /\ DOMAIN replies = {}
    BY <2>1
  <2>3. openings \in 0 .. MaxOpens
    BY <2>1
  <2> QED
    BY <1>2, <1>3, <2>1, <2>2, <2>3 DEF ChatInit, QueuesOK
<1> QED
  BY <1>4, <1>5 DEF RowsInv

LEMMA RowsInvHolds == ChatSpec => []RowsInv
<1>1. RowsInv /\ [ChatNext]_chatVars => RowsInv'
  BY RowsStep, QueuesStep DEF RowsInv
<1> QED
  BY <1>1, RowsStart, PTL DEF ChatSpec

(* The state has its type, in every reachable state and for any constants. *)
THEOREM TypeCorrect == ChatSpec => []ChatTypeOK
<1>1. RowsInv => ChatTypeOK
  <2> SUFFICES ASSUME RowsInv PROVE ChatTypeOK
    OBVIOUS
  <2>1. \A i \in DOMAIN replies : replies[i].conversation \in Conversations
    <3>1. replies \in Seq(Reply)
      BY DEF RowsInv, QueuesOK
    <3>2. \A i \in DOMAIN replies : replies[i] \in Reply
      BY <3>1
    <3> QED
      BY <3>2 DEF Reply
  <2> QED
    BY <2>1 DEF RowsInv, RowsOK, QueuesOK, ChatTypeOK
<1> QED
  BY <1>1, RowsInvHolds, PTL

(* onMessageAdded(), onMessageRemoved(), prependMessages() and the others   *)
(* keep the block marks of neighbours together, and one line at most.       *)
THEOREM MarksCorrect == ChatSpec => []MarksAgree
<1>1. RowsInv => MarksAgree
  BY DEF RowsInv, RowsOK
<1> QED
  BY <1>1, RowsInvHolds, PTL

-----------------------------------------------------------------------------
(* Order.  The answers come in the order of the questions, so a page asked *)
(* for before the open conversation was opened again is followed by the    *)
(* load of it (LoadsFollow).  When none is under way, at most one page is, *)
(* the flag fetching guards it, and all of it is older than what is shown. *)

MoreIn(q) == {i \in DOMAIN q : q[i].kind = "more"}

IsLoad(e) == e.kind = "load" /\ e.conversation = activeId

Follows(q, i) == \E k \in DOMAIN q : k > i /\ IsLoad(q[k])

Own(e) == e.conversation = activeId /\ (disorder \/ ~UnderWay("load"))

JobFollowed(i) == Follows(jobs, i) \/ Own(jobs[i])

ReplyFollowed(i) == Follows(replies, i) \/ Follows(jobs, 0) \/ Own(replies[i])

LoadsFollow ==
  activeId # Closed => /\ \A i \in MoreIn(jobs) : JobFollowed(i)
                       /\ \A i \in MoreIn(replies) : ReplyFollowed(i)

Settled == activeId # Closed /\ ~disorder /\ ~UnderWay("load")

JobFits(i) ==
  /\ fetching /\ MoreIn(replies) = {}
  /\ \A j \in MoreIn(jobs) : j = i
  /\ \A k \in DOMAIN rows : jobs[i].m <= rows[k].m

ReplyFits(i) ==
  /\ fetching
  /\ \A j \in MoreIn(replies) : j = i
  /\ \A k \in DOMAIN rows : \A m \in replies[i].page : m < rows[k].m

PageFits ==
  Settled => /\ Ascending(rows)
             /\ \A i \in MoreIn(jobs) : JobFits(i)
             /\ \A i \in MoreIn(replies) : ReplyFits(i)

OrderInv == RowsInv /\ LoadsFollow /\ PageFits

LEMMA LoadIsUnderWay ==
  /\ UnderWay("load") <=> (\E k \in DOMAIN jobs : IsLoad(jobs[k])) \/
                          (\E k \in DOMAIN replies : IsLoad(replies[k]))
  /\ UnderWay("load")' <=> (\E k \in DOMAIN jobs' : IsLoad(jobs[k])') \/
                           (\E k \in DOMAIN replies' : IsLoad(replies[k])')
  /\ \A e : IsLoad(e) <=> e.kind = "load" /\ e.conversation = activeId
BY DEF UnderWay, IsLoad

LEMMA AskReturns ==
  ASSUME QueuesOK, NEW kind \in {"load", "more", "save"}, NEW c \in Conversations,
         NEW m \in Nat, Ask(kind, c, m)
  PROVE  /\ DOMAIN jobs = 1 .. Len(jobs) /\ Len(jobs) \in Nat
         /\ DOMAIN jobs' = 1 .. Len(jobs) + 1
         /\ \A i \in DOMAIN jobs : i \in DOMAIN jobs' /\ jobs'[i] = jobs[i] /\ i < Len(jobs) + 1
         /\ jobs'[Len(jobs) + 1] = [kind |-> kind, conversation |-> c, m |-> m]
         /\ \A i \in DOMAIN jobs' : i \in DOMAIN jobs \/ i = Len(jobs) + 1
<1> DEFINE e == [kind |-> kind, conversation |-> c, m |-> m]
<1>1. e \in Job /\ jobs' = Append(jobs, e) /\ jobs \in Seq(Job)
  BY DEF Job, Ask, QueuesOK
<1> HIDE DEF e
<1>2. /\ Len(jobs) \in Nat
      /\ DOMAIN jobs = 1 .. Len(jobs) /\ DOMAIN jobs' = 1 .. Len(jobs) + 1
      /\ (\A i \in 1 .. Len(jobs) : jobs'[i] = jobs[i]) /\ jobs'[Len(jobs) + 1] = e
  BY <1>1, Appended
<1> QED
  BY <1>2 DEF e

LEMMA LoadsAsk ==
  ASSUME QueuesOK, LoadsFollow, NEW kind \in {"more", "save"}, NEW c \in Conversations,
         NEW m \in Nat, Ask(kind, c, m), replies' = replies, activeId' = activeId,
         disorder => disorder',
         kind = "more" => c = activeId /\ (UnderWay("load") => disorder')
  PROVE  LoadsFollow' /\ (UnderWay("load")' <=> UnderWay("load"))
<1> DEFINE n == Len(jobs) + 1
<1>1. /\ DOMAIN jobs' \subseteq Nat /\ DOMAIN jobs \subseteq DOMAIN jobs' /\ n \in DOMAIN jobs'
      /\ \A i \in DOMAIN jobs : i \in DOMAIN jobs' /\ jobs'[i] = jobs[i] /\ i < n
      /\ jobs'[n].kind = kind /\ jobs'[n].conversation = c
      /\ \A i \in DOMAIN jobs' : i \in DOMAIN jobs \/ i = n
  <2> DEFINE e == [kind |-> kind, conversation |-> c, m |-> m]
  <2>1. /\ DOMAIN jobs = 1 .. Len(jobs) /\ Len(jobs) \in Nat
        /\ DOMAIN jobs' = 1 .. Len(jobs) + 1
        /\ \A i \in DOMAIN jobs : i \in DOMAIN jobs' /\ jobs'[i] = jobs[i] /\ i < Len(jobs) + 1
        /\ jobs'[Len(jobs) + 1] = e
        /\ \A i \in DOMAIN jobs' : i \in DOMAIN jobs \/ i = Len(jobs) + 1
    BY AskReturns
  <2>2. e.kind = kind /\ e.conversation = c
    OBVIOUS
  <2> HIDE DEF e
  <2> QED
    BY <2>1, <2>2
<1> HIDE DEF n
<1>2. UnderWay("load")' <=> UnderWay("load")
  BY <1>1, LoadIsUnderWay DEF IsLoad
<1>3. \A i : Follows(jobs, i) => Follows(jobs, i)'
  BY <1>1 DEF Follows, IsLoad
<1>4. \A i : Follows(replies, i) => Follows(replies, i)'
  BY DEF Follows, IsLoad
<1>5. ASSUME activeId # Closed PROVE LoadsFollow'
  <2>1. ASSUME NEW i \in MoreIn(jobs)' PROVE JobFollowed(i)'
    <3>1. i \in DOMAIN jobs' /\ jobs'[i].kind = "more"
      BY DEF MoreIn
    <3>2. CASE i \in DOMAIN jobs
      <4>1. i \in MoreIn(jobs) /\ jobs'[i] = jobs[i]
        BY <1>1, <3>1, <3>2 DEF MoreIn
      <4>2. JobFollowed(i)
        BY <1>5, <4>1 DEF LoadsFollow
      <4> QED
        BY <1>2, <1>3, <4>1, <4>2 DEF JobFollowed, Own
    <3>3. CASE i = n
      BY <1>1, <1>2, <3>1, <3>3 DEF JobFollowed, Own
    <3> QED
      BY <1>1, <3>1, <3>2, <3>3
  <2>2. ASSUME NEW i \in MoreIn(replies)' PROVE ReplyFollowed(i)'
    <3>1. i \in MoreIn(replies)
      BY DEF MoreIn
    <3>2. ReplyFollowed(i)
      BY <1>5, <3>1 DEF LoadsFollow
    <3> QED
      BY <1>2, <1>3, <1>4, <3>2 DEF ReplyFollowed, Own
  <2> QED
    BY <2>1, <2>2 DEF LoadsFollow
<1> QED
  BY <1>2, <1>5 DEF LoadsFollow

(* The worker passes a job on: what followed still follows.                *)
LEMMA WorkReturns ==
  ASSUME QueuesOK, Work
  PROVE  /\ DOMAIN jobs \subseteq Nat \ {0} /\ DOMAIN jobs' \subseteq Nat \ {0}
         /\ 1 \in DOMAIN jobs /\ jobs[1] \in Job /\ jobs[1] = Head(jobs)
         /\ \A i \in DOMAIN jobs' : i + 1 \in DOMAIN jobs /\ jobs'[i] = jobs[i + 1]
         /\ \A i \in DOMAIN jobs : i # 1 => i - 1 \in DOMAIN jobs' /\ jobs'[i - 1] = jobs[i]
         /\ jobs[1].kind = "save" => replies' = replies
         /\ jobs[1].kind # "save" => \E n \in Nat :
              /\ DOMAIN replies = 1 .. n /\ DOMAIN replies' = 1 .. n + 1
              /\ \A i \in DOMAIN replies : replies'[i] = replies[i]
              /\ replies'[n + 1].kind = jobs[1].kind
              /\ replies'[n + 1].conversation = jobs[1].conversation
              /\ jobs[1].kind = "more" =>
                   \A m \in replies'[n + 1].page : m < jobs[1].m
<1> DEFINE j == Head(jobs)
           kept == history \intersect MessagesOf[j.conversation]
           page == IF j.kind = "load" THEN Newest(FirstPage, kept)
                   ELSE Newest(Page, {m \in kept : m < j.m})
           e == [kind |-> j.kind, conversation |-> j.conversation, page |-> page]
<1>1. jobs \in Seq(Job) /\ jobs # <<>> /\ jobs' = Tail(jobs) /\ replies \in Seq(Reply)
  BY DEF Work, QueuesOK
<1>2. /\ j \in Job /\ j = jobs[1] /\ Len(jobs) \in Nat \ {0}
      /\ DOMAIN jobs = 1 .. Len(jobs) /\ DOMAIN jobs' = 1 .. Len(jobs) - 1
      /\ \A i \in 1 .. Len(jobs) - 1 : jobs'[i] = jobs[i + 1]
  BY <1>1, Shortened
<1>3. \A i \in DOMAIN jobs' : i + 1 \in DOMAIN jobs /\ jobs'[i] = jobs[i + 1]
  BY <1>2
<1>4. \A i \in DOMAIN jobs : i # 1 => i - 1 \in DOMAIN jobs' /\ jobs'[i - 1] = jobs[i]
  <2> HIDE DEF j, page, e
  <2>1. ASSUME NEW i \in DOMAIN jobs, i # 1
        PROVE  i - 1 \in DOMAIN jobs' /\ jobs'[i - 1] = jobs[i]
    <3>1. i - 1 \in DOMAIN jobs' /\ (i - 1) + 1 = i
      BY <1>2, <2>1
    <3>2. jobs'[i - 1] = jobs[(i - 1) + 1]
      BY <1>3, <3>1
    <3> QED
      BY <3>1, <3>2
  <2> QED
    BY <2>1
<1>5. j.kind = "save" => replies' = replies
  <2>1. Head(jobs).kind = "save" => replies' = replies
    BY ZenonT(60) DEF Work
  <2> QED
    BY <2>1
<1>6. ASSUME j.kind # "save"
      PROVE  \E n \in Nat :
              /\ DOMAIN replies = 1 .. n /\ DOMAIN replies' = 1 .. n + 1
              /\ \A i \in DOMAIN replies : replies'[i] = replies[i]
              /\ replies'[n + 1].kind = j.kind
              /\ replies'[n + 1].conversation = j.conversation
              /\ j.kind = "more" => \A m \in replies'[n + 1].page : m < j.m
  <2>1. replies' = Append(replies, e)
    BY <1>6 DEF Work
  <2>2. j.kind = "more" => \A m \in page : m < j.m
    BY DEF Newest
  <2>3. e \in Reply
    <3>1. j.kind \in {"load", "more"} /\ j.conversation \in Conversations
      BY <1>2, <1>6 DEF Job
    <3>2. page \in SUBSET Nat
      BY <3>1, MessagesAreNumbers DEF Newest
    <3> QED
      BY <3>1, <3>2 DEF Reply
  <2>4. e.kind = j.kind /\ e.conversation = j.conversation /\ e.page = page
    OBVIOUS
  <2> HIDE DEF e, page, j
  <2>5. /\ Len(replies) \in Nat
        /\ DOMAIN replies = 1 .. Len(replies) /\ DOMAIN replies' = 1 .. Len(replies) + 1
        /\ (\A i \in 1 .. Len(replies) : replies'[i] = replies[i])
        /\ replies'[Len(replies) + 1] = e
    BY <1>1, <2>1, <2>3, Appended
  <2> QED
    BY <2>2, <2>4, <2>5
<1> HIDE DEF page, e
<1>7. DOMAIN jobs \subseteq Nat \ {0} /\ DOMAIN jobs' \subseteq Nat \ {0} /\ 1 \in DOMAIN jobs
  BY <1>2
<1> QED
  BY <1>2, <1>3, <1>4, <1>5, <1>6, <1>7

LEMMA LoadsWork ==
  ASSUME QueuesOK, LoadsFollow, Work
  PROVE  LoadsFollow' /\ (UnderWay("load")' <=> UnderWay("load"))
<1>1. /\ DOMAIN jobs \subseteq Nat \ {0} /\ DOMAIN jobs' \subseteq Nat \ {0}
      /\ 1 \in DOMAIN jobs /\ jobs[1] \in Job
      /\ \A i \in DOMAIN jobs' : i + 1 \in DOMAIN jobs /\ jobs'[i] = jobs[i + 1]
      /\ \A i \in DOMAIN jobs : i # 1 => i - 1 \in DOMAIN jobs' /\ jobs'[i - 1] = jobs[i]
  BY WorkReturns
<1>2. \A i \in DOMAIN replies : i \in DOMAIN replies' /\ replies'[i] = replies[i]
  <2>1. CASE jobs[1].kind = "save"
    BY <2>1, WorkReturns
  <2>2. CASE jobs[1].kind # "save"
    <3>1. PICK n \in Nat :
             /\ DOMAIN replies = 1 .. n /\ DOMAIN replies' = 1 .. n + 1
             /\ \A i \in DOMAIN replies : replies'[i] = replies[i]
      BY <2>2, WorkReturns
    <3> QED
      BY <3>1
  <2> QED
    BY <2>1, <2>2
(* The new answer, if there is one.                                        *)
<1>3. ASSUME jobs[1].kind # "save"
      PROVE  \E n \in DOMAIN replies' :
               /\ n \in Nat /\ \A i \in DOMAIN replies : i \in Nat /\ i < n
               /\ replies'[n].kind = jobs[1].kind
               /\ replies'[n].conversation = jobs[1].conversation
  <2>1. PICK n \in Nat :
          /\ DOMAIN replies = 1 .. n /\ DOMAIN replies' = 1 .. n + 1
          /\ replies'[n + 1].kind = jobs[1].kind
          /\ replies'[n + 1].conversation = jobs[1].conversation
    BY <1>3, WorkReturns
  <2>2. n + 1 \in DOMAIN replies' /\ \A i \in DOMAIN replies : i \in Nat /\ i < n + 1
    BY <2>1
  <2> QED
    BY <2>1, <2>2
<1>4. ASSUME NEW i \in DOMAIN replies'
      PROVE  \/ i \in DOMAIN replies
             \/ replies'[i].kind = jobs[1].kind /\ replies'[i].conversation = jobs[1].conversation
  <2>1. CASE jobs[1].kind = "save"
    BY <2>1, WorkReturns
  <2>2. CASE jobs[1].kind # "save"
    <3>1. PICK n \in Nat :
             /\ DOMAIN replies = 1 .. n /\ DOMAIN replies' = 1 .. n + 1
             /\ replies'[n + 1].kind = jobs[1].kind
             /\ replies'[n + 1].conversation = jobs[1].conversation
      BY <2>2, WorkReturns
    <3>2. i \in 1 .. n \/ i = n + 1
      BY <1>4, <3>1
    <3> QED
      BY <3>1, <3>2
  <2> QED
    BY <2>1, <2>2
<1>5. activeId' = activeId /\ disorder' = disorder
  BY DEF Work
<1>7. \A i : Follows(replies, i) => Follows(replies, i)'
  BY <1>2, <1>5 DEF Follows, IsLoad
<1>8. ASSUME NEW i \in Nat, Follows(jobs, i + 1) PROVE Follows(jobs, i)'
  <2>1. PICK k \in DOMAIN jobs : k > i + 1 /\ IsLoad(jobs[k])
    BY <1>8 DEF Follows
  <2>2. k # 1 /\ k - 1 > i
    BY <1>1, <2>1
  <2> QED
    BY <1>1, <1>5, <2>1, <2>2 DEF Follows, IsLoad
<1>9. ASSUME Follows(jobs, 0)
      PROVE  Follows(jobs, 0)' \/ \A i \in DOMAIN replies : Follows(replies, i)'
  <2>1. PICK k \in DOMAIN jobs : IsLoad(jobs[k])
    BY <1>9 DEF Follows
  <2>2. CASE k = 1
    <3>1. jobs[1].kind = "load"
      BY <2>1, <2>2 DEF IsLoad
    <3>2. PICK n \in DOMAIN replies' :
               /\ n \in Nat /\ \A i \in DOMAIN replies : i \in Nat /\ i < n
               /\ replies'[n].kind = jobs[1].kind
               /\ replies'[n].conversation = jobs[1].conversation
      BY <1>3, <3>1
    <3>3. ASSUME NEW i \in DOMAIN replies PROVE Follows(replies, i)'
      <4>1. n > i
        <5>1. i < n
          BY <3>2, <3>3
        <5>2. i \in Nat /\ n \in Nat
          BY <3>2, <3>3
        <5> QED
          BY <5>1, <5>2
      <4> QED
        BY <1>5, <2>1, <2>2, <3>2, <4>1 DEF Follows, IsLoad
    <3> QED
      BY <3>3
  <2>3. CASE k # 1
    <3>1. k - 1 \in DOMAIN jobs' /\ jobs'[k - 1] = jobs[k] /\ k - 1 > 0
      BY <1>1, <2>1, <2>3
    <3> QED
      BY <1>5, <2>1, <3>1 DEF Follows, IsLoad
  <2> QED
    BY <2>2, <2>3
<1>10. UnderWay("load")' => UnderWay("load")
  <2>1. ASSUME NEW k \in DOMAIN jobs', IsLoad(jobs[k])' PROVE UnderWay("load")
    BY <1>1, <1>5, <2>1, LoadIsUnderWay DEF IsLoad
  <2>2. ASSUME NEW k \in DOMAIN replies', IsLoad(replies[k])' PROVE UnderWay("load")
    BY <1>1, <1>2, <1>4, <1>5, <2>2, LoadIsUnderWay DEF IsLoad
  <2> QED
    BY <2>1, <2>2, LoadIsUnderWay
<1>11. UnderWay("load") => UnderWay("load")'
  <2>1. ASSUME NEW k \in DOMAIN replies, IsLoad(replies[k]) PROVE UnderWay("load")'
    BY <1>2, <1>5, <2>1, LoadIsUnderWay DEF IsLoad
  <2>2. ASSUME NEW k \in DOMAIN jobs, k # 1, IsLoad(jobs[k]) PROVE UnderWay("load")'
    BY <1>1, <1>5, <2>2, LoadIsUnderWay DEF IsLoad
  <2>3. ASSUME IsLoad(jobs[1]) PROVE UnderWay("load")'
    <3>1. jobs[1].kind = "load"
      BY <2>3 DEF IsLoad
    <3>2. PICK n \in DOMAIN replies' : /\ replies'[n].kind = jobs[1].kind
                                       /\ replies'[n].conversation = jobs[1].conversation
      BY <1>3, <3>1
    <3> QED
      BY <1>5, <2>3, <3>2, LoadIsUnderWay DEF IsLoad
  <2> QED
    BY <2>1, <2>2, <2>3, LoadIsUnderWay
<1>13. ASSUME activeId # Closed, NEW i \in MoreIn(jobs)' PROVE JobFollowed(i)'
  <2>1. i \in DOMAIN jobs' /\ jobs'[i].kind = "more"
    BY DEF MoreIn
  <2>2. i + 1 \in MoreIn(jobs) /\ jobs'[i] = jobs[i + 1] /\ i \in Nat
    BY <1>1, <2>1 DEF MoreIn
  <2>3. JobFollowed(i + 1)
    BY <1>13, <2>2 DEF LoadsFollow
  <2> QED
    BY <1>5, <1>8, <1>10, <2>2, <2>3 DEF JobFollowed, Own
<1>14. ASSUME activeId # Closed, NEW i \in MoreIn(replies)' PROVE ReplyFollowed(i)'
  <2>1. i \in DOMAIN replies' /\ replies'[i].kind = "more"
    BY DEF MoreIn
  <2>2. CASE i \in DOMAIN replies
    <3>1. i \in MoreIn(replies) /\ replies'[i] = replies[i]
      BY <1>2, <2>1, <2>2 DEF MoreIn
    <3>2. ReplyFollowed(i)
      BY <1>14, <3>1 DEF LoadsFollow
    <3> QED
      BY <1>5, <1>7, <1>9, <1>10, <2>2, <3>1, <3>2 DEF ReplyFollowed, Own
  <2>3. CASE i \notin DOMAIN replies
    <3>1. replies'[i].kind = jobs[1].kind /\ replies'[i].conversation = jobs[1].conversation
      BY <1>4, <2>1, <2>3
    <3>2. JobFollowed(1)
      BY <1>1, <1>14, <2>1, <3>1 DEF LoadsFollow, MoreIn
    <3>3. Follows(jobs, 1) => Follows(jobs, 0)'
      BY <1>8
    <3> QED
      BY <1>5, <1>10, <3>1, <3>2, <3>3 DEF ReplyFollowed, JobFollowed, Own
  <2> QED
    BY <2>2, <2>3
<1> QED
  BY <1>5, <1>10, <1>11, <1>13, <1>14 DEF LoadsFollow

(* An answer is taken.  If it is the load of the open conversation, every  *)
(* page that is left is one the model has seen to be late, or is followed. *)
LEMMA TakeReturns ==
  ASSUME QueuesOK, replies # <<>>, replies' = Tail(replies)
  PROVE  /\ DOMAIN replies \subseteq Nat \ {0} /\ DOMAIN replies' \subseteq Nat \ {0}
         /\ 1 \in DOMAIN replies /\ replies[1] = Head(replies)
         /\ \A i \in DOMAIN replies' : i + 1 \in DOMAIN replies /\ replies'[i] = replies[i + 1]
         /\ \A i \in DOMAIN replies :
              i # 1 => i - 1 \in DOMAIN replies' /\ replies'[i - 1] = replies[i]
<1>1. replies \in Seq(Reply)
  BY DEF QueuesOK
<1>2. /\ Head(replies) = replies[1] /\ Len(replies) \in Nat \ {0}
      /\ DOMAIN replies = 1 .. Len(replies) /\ DOMAIN replies' = 1 .. Len(replies) - 1
      /\ \A i \in 1 .. Len(replies) - 1 : replies'[i] = replies[i + 1]
  BY <1>1, Shortened
<1>3. \A i \in DOMAIN replies' : i + 1 \in DOMAIN replies /\ replies'[i] = replies[i + 1]
  BY <1>2
<1>4. ASSUME NEW i \in DOMAIN replies, i # 1
      PROVE  i - 1 \in DOMAIN replies' /\ replies'[i - 1] = replies[i]
  <2>1. i - 1 \in DOMAIN replies' /\ (i - 1) + 1 = i
    BY <1>2, <1>4
  <2>2. replies'[i - 1] = replies[(i - 1) + 1]
    BY <1>3, <2>1
  <2> QED
    BY <2>1, <2>2
<1> QED
  BY <1>2, <1>3, <1>4

LEMMA LoadsTake ==
  ASSUME QueuesOK, LoadsFollow, replies # <<>>, replies' = Tail(replies), jobs' = jobs,
         activeId' = activeId, NEW late, late = IsLoad(Head(replies)),
         ~late => disorder' = disorder,
         late => disorder' = (disorder /\ UnderWay("more"))
  PROVE  /\ LoadsFollow'
         /\ ~late => (UnderWay("load")' <=> UnderWay("load"))
         /\ late /\ Settled' => MoreIn(jobs) = {} /\ MoreIn(replies)' = {}
<1>1. /\ DOMAIN replies \subseteq Nat \ {0} /\ DOMAIN replies' \subseteq Nat \ {0}
      /\ 1 \in DOMAIN replies /\ replies[1] = Head(replies)
      /\ \A i \in DOMAIN replies' : i + 1 \in DOMAIN replies /\ replies'[i] = replies[i + 1]
      /\ \A i \in DOMAIN replies :
           i # 1 => i - 1 \in DOMAIN replies' /\ replies'[i - 1] = replies[i]
  BY TakeReturns
<1>2. late => UnderWay("load")
  BY <1>1, LoadIsUnderWay
<1>3. UnderWay("load")' => UnderWay("load")
  BY <1>1, LoadIsUnderWay DEF IsLoad
<1>4. ~late /\ UnderWay("load") => UnderWay("load")'
  <2>1. ASSUME NEW k \in DOMAIN jobs, IsLoad(jobs[k]) PROVE UnderWay("load")'
    BY <2>1, LoadIsUnderWay DEF IsLoad
  <2>2. ASSUME ~late, NEW k \in DOMAIN replies, IsLoad(replies[k]) PROVE UnderWay("load")'
    <3>1. k # 1
      BY <1>1, <2>2
    <3>2. k - 1 \in DOMAIN replies' /\ replies'[k - 1] = replies[k] /\ activeId' = activeId
      BY <1>1, <3>1
    <3>3. \E i \in DOMAIN replies' : IsLoad(replies[i])'
      BY <2>2, <3>2 DEF IsLoad
    <3> QED
      BY <3>3, LoadIsUnderWay
  <2> QED
    BY <2>1, <2>2, LoadIsUnderWay
<1>5. \A i : Follows(jobs, i) => Follows(jobs, i)'
  BY DEF Follows, IsLoad
<1>6. ASSUME NEW i \in Nat, Follows(replies, i + 1) PROVE Follows(replies, i)'
  <2>1. PICK k \in DOMAIN replies : k > i + 1 /\ IsLoad(replies[k])
    BY <1>6 DEF Follows
  <2>2. k # 1 /\ k - 1 > i
    BY <1>1, <2>1
  <2> QED
    BY <1>1, <2>1, <2>2 DEF Follows, IsLoad
<1>7. \A i : Follows(jobs, i)' \/ Follows(replies, i)' => UnderWay("load")'
  BY LoadIsUnderWay DEF Follows
(* A page of the open conversation that is out of order keeps it so.       *)
<1>8. ASSUME NEW e, e.kind = "more", Own(e),
             (\E i \in DOMAIN jobs : jobs[i] = e) \/ (\E i \in DOMAIN replies : replies[i] = e)
      PROVE  Own(e)' /\ (late => disorder')
  <2>1. UnderWay("more")
    BY <1>8 DEF UnderWay, Own
  <2>2. late => disorder'
    BY <1>2, <1>8, <2>1 DEF Own
  <2> QED
    BY <1>3, <1>8, <2>2 DEF Own
<1>9. ASSUME activeId # Closed, NEW i \in MoreIn(jobs)
      PROVE  JobFollowed(i)' /\ (late => disorder' \/ UnderWay("load")')
  <2>1. i \in DOMAIN jobs /\ jobs[i].kind = "more"
    BY DEF MoreIn
  <2>2. JobFollowed(i)
    BY <1>9 DEF LoadsFollow
  <2>3. CASE Follows(jobs, i)
    BY <1>5, <1>7, <2>3 DEF JobFollowed
  <2>4. CASE Own(jobs[i])
    BY <1>8, <2>1, <2>4 DEF JobFollowed, Own
  <2> QED
    BY <2>2, <2>3, <2>4 DEF JobFollowed
<1>10. ASSUME activeId # Closed, NEW i \in MoreIn(replies)'
       PROVE  ReplyFollowed(i)' /\ (late => disorder' \/ UnderWay("load")')
  <2>1. i \in DOMAIN replies' /\ replies'[i].kind = "more" /\ i \in Nat
    BY <1>1 DEF MoreIn
  <2>2. i + 1 \in MoreIn(replies) /\ replies'[i] = replies[i + 1] /\ i + 1 \in DOMAIN replies
    BY <1>1, <2>1 DEF MoreIn
  <2>3. ReplyFollowed(i + 1)
    BY <1>10, <2>2 DEF LoadsFollow
  <2>4. CASE Follows(replies, i + 1)
    BY <1>6, <1>7, <2>1, <2>4 DEF ReplyFollowed
  <2>5. CASE Follows(jobs, 0)
    BY <1>5, <1>7, <2>5 DEF ReplyFollowed
  <2>6. CASE Own(replies[i + 1])
    BY <1>8, <2>1, <2>2, <2>6 DEF ReplyFollowed, Own
  <2> QED
    BY <2>3, <2>4, <2>5, <2>6 DEF ReplyFollowed
<1>11. LoadsFollow'
  BY <1>9, <1>10 DEF LoadsFollow, MoreIn
<1>12. ASSUME late, Settled' PROVE MoreIn(jobs) = {} /\ MoreIn(replies)' = {}
  BY <1>9, <1>10, <1>12 DEF Settled
<1> QED
  BY <1>3, <1>4, <1>11, <1>12

LEMMA LoadsStep ==
  ASSUME RowsInv, LoadsFollow, [ChatNext]_chatVars
  PROVE  LoadsFollow'
<1>1. QueuesOK /\ RowsOK
  BY DEF RowsInv
<1>2. ASSUME activeId' = activeId, jobs' = jobs, replies' = replies, disorder' = disorder
      PROVE  LoadsFollow'
  BY <1>2 DEF LoadsFollow, MoreIn, JobFollowed, ReplyFollowed, Follows, IsLoad, Own, UnderWay
<1>3. CASE UNCHANGED chatVars
  BY <1>2, <1>3 DEF chatVars
<1>4. CASE Close
  BY <1>4 DEF Close, LoadsFollow
<1>5. CASE FetchMore
  <2>1. activeId \in Conversations /\ Head(rows).m \in Nat
    <3>1. rows # <<>> /\ rows \in Seq(Row) /\ activeId # Closed
      BY <1>5, <1>1 DEF FetchMore, RowsOK
    <3>2. Head(rows) \in Row
      BY <3>1
    <3> QED
      BY <1>1, <3>1, <3>2, MessagesAreNumbers DEF QueuesOK
  <2>2. /\ Ask("more", activeId, Head(rows).m) /\ replies' = replies /\ activeId' = activeId
        /\ disorder' = (disorder \/ UnderWay("load"))
    BY <1>5 DEF FetchMore
  <2> QED
    BY <1>1, <2>1, <2>2, LoadsAsk
<1>6. CASE Work
  BY <1>1, <1>6, LoadsWork
<1>7. CASE Loaded
  <2>1. /\ replies # <<>> /\ replies' = Tail(replies) /\ jobs' = jobs /\ activeId' = activeId
        /\ IsLoad(Head(replies)) => disorder' = (disorder /\ UnderWay("more"))
        /\ ~IsLoad(Head(replies)) => disorder' = disorder
    BY <1>7 DEF Loaded, IsLoad
  <2> QED
    BY <1>1, <2>1, LoadsTake
<1>8. CASE MoreLoaded
  <2>1. /\ replies # <<>> /\ replies' = Tail(replies) /\ jobs' = jobs /\ activeId' = activeId
        /\ ~IsLoad(Head(replies)) /\ disorder' = disorder
    BY <1>8 DEF MoreLoaded, IsLoad
  <2> QED
    BY <1>1, <2>1, LoadsTake
<1>9. ASSUME NEW c \in Conversations, Open(c) PROVE LoadsFollow'
  <2> DEFINE e == [kind |-> "load", conversation |-> c, m |-> 0]
  <2>1. Ask("load", c, 0) /\ activeId' = c /\ replies' = replies
    BY <1>9 DEF Open
  <2>2. /\ Len(jobs) \in Nat /\ DOMAIN jobs' = 1 .. Len(jobs) + 1
        /\ \A i \in DOMAIN jobs : i < Len(jobs) + 1
        /\ jobs'[Len(jobs) + 1] = e
        /\ \A i \in DOMAIN jobs' : i \in DOMAIN jobs \/ i = Len(jobs) + 1
    BY <1>1, <2>1, AskReturns
  <2>3. e.kind = "load" /\ e.conversation = c
    OBVIOUS
  <2> HIDE DEF e
  <2>4. \A i \in MoreIn(jobs)' : i < Len(jobs) + 1
    BY <2>2, <2>3 DEF MoreIn
  <2>5. Len(jobs) + 1 \in DOMAIN jobs' /\ Len(jobs) + 1 > 0
    BY <2>2
  <2>6. \A i \in MoreIn(jobs)' : Len(jobs) + 1 > i
    <3>1. \A i \in MoreIn(jobs)' : i \in Nat
      BY <2>2 DEF MoreIn
    <3> QED
      BY <2>2, <2>4, <3>1
  <2> QED
    BY <2>1, <2>2, <2>3, <2>5, <2>6
    DEF LoadsFollow, JobFollowed, ReplyFollowed, Follows, IsLoad
<1>10. ASSUME NEW c \in Conversations, NEW m \in MessagesOf[c], MessageAdded(c, m)
       PROVE  LoadsFollow'
  <2>1. /\ Ask("save", c, m) /\ replies' = replies /\ activeId' = activeId
        /\ (disorder => disorder') /\ m \in Nat
    BY <1>10, MessagesAreNumbers DEF MessageAdded
  <2> QED
    BY <1>1, <2>1, LoadsAsk
<1>11. ASSUME NEW m \in All, MessageReplaced(m) \/ MessageRemoved(m) \/ MarkMessage(m)
       PROVE  LoadsFollow'
  BY <1>2, <1>11 DEF MessageReplaced, MessageRemoved, MarkMessage
<1>12. ASSUME NEW n \in 0 .. Len(rows), MarkIndex(n) PROVE LoadsFollow'
  BY <1>2, <1>12 DEF MarkIndex
<1> QED
  BY <1>3, <1>4, <1>5, <1>6, <1>7, <1>8, <1>9, <1>10, <1>11, <1>12 DEF ChatNext

(* Numbers in order, of which one is taken out, or one put in its place.   *)
LEMMA OrderWithout ==
  ASSUME NEW n \in Nat, NEW f, NEW g, NEW k \in 1 .. n,
         \A i \in 1 .. n : f[i] \in Nat,
         \A i, j \in 1 .. n : i < j => f[i] < f[j],
         \A i \in 1 .. n - 1 : g[i] = f[IF i < k THEN i ELSE i + 1]
  PROVE  \A i, j \in 1 .. n - 1 : i < j => g[i] < g[j]
<1> SUFFICES ASSUME NEW i \in 1 .. n - 1, NEW j \in 1 .. n - 1, i < j
             PROVE  g[i] < g[j]
  OBVIOUS
<1> DEFINE at(l) == IF l < k THEN l ELSE l + 1
<1>1. at(i) \in 1 .. n /\ at(j) \in 1 .. n /\ at(i) < at(j)
  OBVIOUS
<1>2. g[i] = f[at(i)] /\ g[j] = f[at(j)]
  OBVIOUS
<1> HIDE DEF at
<1> QED
  BY <1>1, <1>2

LEMMA OrderWith ==
  ASSUME NEW n \in Nat, NEW f, NEW g, NEW k \in 0 .. n, NEW m \in Nat,
         \A i \in 1 .. n : f[i] \in Nat,
         \A i, j \in 1 .. n : i < j => f[i] < f[j],
         k > 0 => f[k] < m, k < n => m < f[k + 1],
         \A i \in 1 .. n + 1 : g[i] = IF i <= k THEN f[i] ELSE IF i = k + 1 THEN m ELSE f[i - 1]
  PROVE  \A i, j \in 1 .. n + 1 : i < j => g[i] < g[j]
<1> SUFFICES ASSUME NEW i \in 1 .. n + 1, NEW j \in 1 .. n + 1, i < j
             PROVE  g[i] < g[j]
  OBVIOUS
<1>1. ASSUME NEW l \in 1 .. n, l <= k PROVE f[l] < m
  <2>1. k \in 1 .. n /\ f[k] < m /\ f[k] \in Nat /\ f[l] \in Nat
    BY <1>1
  <2>2. l = k \/ f[l] < f[k]
    BY <1>1, <2>1
  <2> QED
    BY <2>1, <2>2
<1>2. ASSUME NEW l \in 1 .. n, ~(l <= k) PROVE m < f[l]
  <2>1. k + 1 \in 1 .. n /\ m < f[k + 1] /\ f[k + 1] \in Nat /\ f[l] \in Nat
    BY <1>2
  <2>2. l = k + 1 \/ f[k + 1] < f[l]
    BY <1>2, <2>1
  <2> QED
    BY <2>1, <2>2
<1>3. CASE j <= k
  <2>1. i <= k /\ i \in 1 .. n /\ j \in 1 .. n
    BY <1>3
  <2> QED
    BY <1>3, <2>1
<1>4. CASE i <= k /\ j = k + 1
  <2>1. i \in 1 .. n /\ ~(j <= k) /\ f[i] < m
    BY <1>1, <1>4
  <2> QED
    BY <1>4, <2>1
<1>5. CASE i <= k /\ ~(j <= k + 1)
  <2>1. i \in 1 .. n /\ ~(j <= k) /\ j # k + 1 /\ j - 1 \in 1 .. n /\ i < j - 1
    BY <1>5
  <2> QED
    BY <1>5, <2>1
<1>6. CASE i = k + 1
  <2>1. ~(i <= k) /\ ~(j <= k) /\ j # k + 1 /\ j - 1 \in 1 .. n /\ ~(j - 1 <= k)
    BY <1>6
  <2>2. m < f[j - 1]
    BY <1>2, <2>1
  <2> QED
    BY <1>6, <2>1, <2>2
<1>7. CASE ~(i <= k + 1)
  <2>1. /\ ~(i <= k) /\ i # k + 1 /\ ~(j <= k) /\ j # k + 1
        /\ i - 1 \in 1 .. n /\ j - 1 \in 1 .. n /\ i - 1 < j - 1
    BY <1>7
  <2> QED
    BY <2>1
<1> QED
  BY <1>3, <1>4, <1>5, <1>6, <1>7

LEMMA Numbers ==
  ASSUME RowsInv
  PROVE  /\ DOMAIN rows = 1 .. Len(rows) /\ Len(rows) \in Nat
         /\ \A k \in DOMAIN rows : rows[k].m \in Nat
         /\ \A i \in DOMAIN jobs : jobs[i].m \in Nat /\ i \in Nat /\ jobs[i] \in Job
         /\ \A i \in DOMAIN replies : replies[i].page \subseteq Nat /\ i \in Nat
<1>1. rows \in Seq(Row) /\ jobs \in Seq(Job) /\ replies \in Seq(Reply)
  BY DEF RowsInv, RowsOK, QueuesOK
<1>2. \A k \in DOMAIN rows : rows[k] \in Row
  BY <1>1
<1>3. \A i \in DOMAIN jobs : jobs[i] \in Job /\ i \in Nat
  BY <1>1
<1>4. \A i \in DOMAIN replies : replies[i] \in Reply /\ i \in Nat
  BY <1>1
<1>5. \A k \in DOMAIN rows : rows[k].m \in Nat
  BY <1>2, MessagesAreNumbers
<1>6. \A i \in DOMAIN jobs : jobs[i].m \in Nat
  BY <1>3 DEF Job
<1>7. \A i \in DOMAIN replies : replies[i].page \subseteq Nat
  BY <1>4 DEF Reply
<1> QED
  BY <1>1, <1>3, <1>4, <1>5, <1>6, <1>7

(* With no load under way, every page on its way is of what is shown.      *)
LEMMA PagesAreOwn ==
  ASSUME LoadsFollow, Settled
  PROVE  /\ \A i \in MoreIn(jobs) : jobs[i].conversation = activeId
         /\ \A i \in MoreIn(replies) : replies[i].conversation = activeId
         /\ MoreIn(jobs) # {} \/ MoreIn(replies) # {} => UnderWay("more")
<1>1. \A i : ~Follows(jobs, i) /\ ~Follows(replies, i)
  BY LoadIsUnderWay DEF Settled, Follows
<1>2. /\ \A i \in MoreIn(jobs) : jobs[i].conversation = activeId
      /\ \A i \in MoreIn(replies) : replies[i].conversation = activeId
  BY <1>1 DEF LoadsFollow, Settled, JobFollowed, ReplyFollowed, Own
<1>3. MoreIn(jobs) # {} => UnderWay("more")
  BY <1>2 DEF MoreIn, UnderWay
<1>4. MoreIn(replies) # {} => UnderWay("more")
  BY <1>2 DEF MoreIn, UnderWay
<1> QED
  BY <1>2, <1>3, <1>4

(* Rows that stay, go or are drawn again leave the pages older than them.  *)
LEMMA FitsKept ==
  ASSUME PageFits, jobs' = jobs, replies' = replies, fetching' = fetching,
         activeId' = activeId, disorder' = disorder,
         Ascending(rows) => Ascending(rows)',
         \A i \in DOMAIN rows' : \E k \in DOMAIN rows : rows'[i].m = rows[k].m
  PROVE  PageFits'
<1>1. Settled' => Settled
  BY DEF Settled, UnderWay
<1>2. MoreIn(jobs)' = MoreIn(jobs) /\ MoreIn(replies)' = MoreIn(replies)
  BY DEF MoreIn
<1>3. ASSUME NEW i \in MoreIn(jobs), JobFits(i) PROVE JobFits(i)'
  BY <1>2, <1>3 DEF JobFits
<1>4. ASSUME NEW i \in MoreIn(replies), ReplyFits(i) PROVE ReplyFits(i)'
  <2>1. \A k \in DOMAIN rows' : \A m \in replies[i].page : m < rows'[k].m
    BY <1>4 DEF ReplyFits
  <2> QED
    BY <1>2, <1>4, <2>1 DEF ReplyFits
<1> QED
  BY <1>1, <1>2, <1>3, <1>4 DEF PageFits

(* checkFetchMore(): the flag was down, so nothing else is under way.      *)
LEMMA FetchFits ==
  ASSUME OrderInv, FetchMore
  PROVE  PageFits'
<1> SUFFICES ASSUME Settled' PROVE PageFits'
  BY DEF PageFits
<1> DEFINE first == Head(rows).m
<1>1. /\ ~fetching /\ fetching' = TRUE /\ rows # <<>> /\ rows' = rows
      /\ replies' = replies /\ activeId' = activeId
      /\ disorder' = (disorder \/ UnderWay("load")) /\ Ask("more", activeId, first)
  BY DEF FetchMore
<1>2. RowsInv /\ QueuesOK /\ RowsOK /\ PageFits
  BY DEF OrderInv, RowsInv
<1>3. Settled
  BY <1>1 DEF Settled
<1>4. Ascending(rows) /\ MoreIn(jobs) = {} /\ MoreIn(replies) = {}
  BY <1>1, <1>2, <1>3 DEF PageFits, JobFits, ReplyFits
<1>5. /\ DOMAIN rows = 1 .. Len(rows) /\ Len(rows) \in Nat /\ \A k \in DOMAIN rows : rows[k].m \in Nat
  BY <1>2, Numbers
<1>6. 1 \in DOMAIN rows /\ first = rows[1].m
  BY <1>1, <1>2 DEF RowsOK
<1>7. first \in Nat /\ activeId \in Conversations
  BY <1>2, <1>3, <1>5, <1>6 DEF Settled, QueuesOK
<1>8. \A k \in DOMAIN rows : first <= rows[k].m
  <2> SUFFICES ASSUME NEW k \in DOMAIN rows PROVE first <= rows[k].m
    OBVIOUS
  <2>1. k = 1 \/ 1 < k
    BY <1>5
  <2> QED
    BY <1>4, <1>5, <1>6, <1>7, <2>1 DEF Ascending
<1> HIDE DEF first
<1> DEFINE e == [kind |-> "more", conversation |-> activeId, m |-> first]
           n == Len(jobs) + 1
<1>9. /\ \A i \in DOMAIN jobs : i \in DOMAIN jobs' /\ jobs'[i] = jobs[i]
      /\ jobs'[n] = e /\ \A i \in DOMAIN jobs' : i \in DOMAIN jobs \/ i = n
  <2>1. /\ \A i \in DOMAIN jobs : i \in DOMAIN jobs' /\ jobs'[i] = jobs[i] /\ i < Len(jobs) + 1
        /\ jobs'[Len(jobs) + 1] = e
        /\ \A i \in DOMAIN jobs' : i \in DOMAIN jobs \/ i = Len(jobs) + 1
    BY <1>1, <1>2, <1>7, AskReturns
  <2> QED
    BY <2>1
<1>10. e.m = first
  OBVIOUS
<1> HIDE DEF e, n
<1>11. \A i \in MoreIn(jobs)' : i = n
  BY <1>4, <1>9 DEF MoreIn
<1>12. MoreIn(replies)' = {}
  BY <1>1, <1>4 DEF MoreIn
<1>13. \A i \in MoreIn(jobs)' : JobFits(i)'
  BY <1>1, <1>8, <1>9, <1>10, <1>11, <1>12 DEF JobFits
<1> QED
  BY <1>1, <1>4, <1>12, <1>13 DEF PageFits

(* The page that is read is older than the row it was asked for.           *)
LEMMA WorkFits ==
  ASSUME OrderInv, Work
  PROVE  PageFits'
<1> SUFFICES ASSUME Settled' PROVE PageFits'
  BY DEF PageFits
<1>1. rows' = rows /\ fetching' = fetching /\ activeId' = activeId /\ disorder' = disorder
  BY DEF Work
<1>2. RowsInv /\ QueuesOK /\ LoadsFollow /\ PageFits
  BY DEF OrderInv, RowsInv
<1>3. Settled
  BY <1>1, <1>2, LoadsWork DEF Settled
<1>4. /\ Ascending(rows) /\ \A i \in MoreIn(jobs) : JobFits(i)
      /\ \A i \in MoreIn(replies) : ReplyFits(i)
  BY <1>2, <1>3 DEF PageFits
<1>5. /\ 1 \in DOMAIN jobs /\ DOMAIN jobs' \subseteq Nat \ {0}
      /\ \A i \in DOMAIN jobs' : i + 1 \in DOMAIN jobs /\ jobs'[i] = jobs[i + 1]
      /\ jobs[1] \in Job
  BY <1>2, WorkReturns
<1>6. \A i \in MoreIn(jobs)' : i \in Nat \ {0} /\ i + 1 \in MoreIn(jobs) /\ jobs'[i] = jobs[i + 1]
  BY <1>5 DEF MoreIn
<1>7. CASE jobs[1].kind = "save"
  <2>1. replies' = replies
    BY <1>2, <1>7, WorkReturns
  <2>2. ASSUME NEW i \in MoreIn(jobs)' PROVE JobFits(i)'
    <3>1. JobFits(i + 1) /\ jobs'[i] = jobs[i + 1]
      BY <1>4, <1>6
    <3>2. \A j \in MoreIn(jobs)' : j = i
      <4> SUFFICES ASSUME NEW j \in MoreIn(jobs)' PROVE j = i
        OBVIOUS
      <4>1. j + 1 = i + 1 /\ i \in Nat /\ j \in Nat
        BY <1>6, <3>1 DEF JobFits
      <4> QED
        BY <4>1
    <3> QED
      BY <1>1, <2>1, <3>1, <3>2 DEF JobFits, MoreIn
  <2>3. ASSUME NEW i \in MoreIn(replies)' PROVE ReplyFits(i)'
    BY <1>1, <1>4, <2>1 DEF ReplyFits, MoreIn
  <2> QED
    BY <1>1, <1>4, <2>2, <2>3 DEF PageFits
<1>8. CASE jobs[1].kind # "save"
  <2>1. PICK n \in Nat :
              /\ DOMAIN replies = 1 .. n /\ DOMAIN replies' = 1 .. n + 1
              /\ \A i \in DOMAIN replies : replies'[i] = replies[i]
              /\ replies'[n + 1].kind = jobs[1].kind
              /\ jobs[1].kind = "more" => \A m \in replies'[n + 1].page : m < jobs[1].m
    BY <1>2, <1>8, WorkReturns
  <2>2. CASE jobs[1].kind = "more"
    <3>1. JobFits(1)
      BY <1>4, <1>5, <2>2 DEF MoreIn
    <3>2. MoreIn(jobs)' = {}
      <4>1. ASSUME NEW i \in MoreIn(jobs)' PROVE FALSE
        <5>1. i + 1 = 1 /\ i \in Nat \ {0}
          BY <1>6, <3>1 DEF JobFits
        <5> QED
          BY <5>1
      <4> QED
        BY <4>1
    <3>3. \A i \in MoreIn(replies)' : i = n + 1
      <4> SUFFICES ASSUME NEW i \in MoreIn(replies)', i # n + 1 PROVE FALSE
        OBVIOUS
      <4>1. i \in DOMAIN replies' /\ replies'[i].kind = "more"
        BY DEF MoreIn
      <4>2. i \in DOMAIN replies
        BY <2>1, <4>1
      <4>3. i \in MoreIn(replies)
        BY <2>1, <4>1, <4>2 DEF MoreIn
      <4> QED
        BY <3>1, <4>3 DEF JobFits
    <3>4. \A k \in DOMAIN rows : \A m \in replies'[n + 1].page : m < rows[k].m
      <4> SUFFICES ASSUME NEW k \in DOMAIN rows, NEW m \in replies'[n + 1].page PROVE m < rows[k].m
        OBVIOUS
      <4>1. m < jobs[1].m /\ jobs[1].m <= rows[k].m /\ jobs[1].m \in Nat /\ rows[k].m \in Nat
        BY <1>2, <1>5, <2>1, <2>2, <3>1, Numbers DEF JobFits
      <4>2. m \in Nat
        <5>1. n + 1 \in DOMAIN replies' /\ replies' \in Seq(Reply)
          BY <1>2, <2>1, WorkKeeps
        <5>2. replies'[n + 1] \in Reply
          BY <5>1
        <5> QED
          BY <5>2 DEF Reply
      <4> QED
        BY <4>1, <4>2
    <3>5. ASSUME NEW i \in MoreIn(replies)' PROVE ReplyFits(i)'
      <4>1. i = n + 1
        BY <3>3
      <4> QED
        BY <1>1, <3>1, <3>3, <3>4, <4>1 DEF ReplyFits, JobFits
    <3> QED
      BY <1>1, <1>4, <3>2, <3>5 DEF PageFits
  <2>3. CASE jobs[1].kind # "more"
    <3>1. \A i \in MoreIn(replies)' : i \in MoreIn(replies) /\ replies'[i] = replies[i]
      <4> SUFFICES ASSUME NEW i \in MoreIn(replies)'
                   PROVE  i \in MoreIn(replies) /\ replies'[i] = replies[i]
        OBVIOUS
      <4>1. i \in DOMAIN replies' /\ replies'[i].kind = "more"
        BY DEF MoreIn
      <4>2. i # n + 1
        BY <2>1, <2>3, <4>1
      <4>3. i \in DOMAIN replies
        BY <2>1, <4>1, <4>2
      <4> QED
        BY <2>1, <4>1, <4>3 DEF MoreIn
    <3>2. ASSUME NEW i \in MoreIn(jobs)' PROVE JobFits(i)'
      <4>1. JobFits(i + 1) /\ jobs'[i] = jobs[i + 1]
        BY <1>4, <1>6
      <4>2. \A j \in MoreIn(jobs)' : j = i
        <5> SUFFICES ASSUME NEW j \in MoreIn(jobs)' PROVE j = i
          OBVIOUS
        <5>1. j + 1 = i + 1 /\ i \in Nat /\ j \in Nat
          BY <1>6, <4>1 DEF JobFits
        <5> QED
          BY <5>1
      <4>3. MoreIn(replies)' = {}
        BY <3>1, <4>1 DEF JobFits
      <4> QED
        BY <1>1, <4>1, <4>2, <4>3 DEF JobFits
    <3>3. ASSUME NEW i \in MoreIn(replies)' PROVE ReplyFits(i)'
      BY <1>1, <1>4, <3>1 DEF ReplyFits
    <3> QED
      BY <1>1, <1>4, <3>2, <3>3 DEF PageFits
  <2> QED
    BY <2>2, <2>3
<1> QED
  BY <1>7, <1>8

(* onConversationLoaded(): what is shown is the page, and none is left.    *)
LEMMA LoadedFits ==
  ASSUME OrderInv, Loaded
  PROVE  PageFits'
<1> SUFFICES ASSUME Settled' PROVE PageFits'
  BY DEF PageFits
<1> DEFINE T == Head(replies).page
           late == IsLoad(Head(replies))
<1>1. /\ replies # <<>> /\ replies' = Tail(replies) /\ jobs' = jobs
      /\ activeId' = activeId /\ fetching' = fetching
      /\ late => /\ rows' = Recalculated(RowsOf(T))
                 /\ disorder' = (disorder /\ UnderWay("more"))
      /\ ~late => disorder' = disorder /\ rows' = rows
  BY DEF Loaded, IsLoad
<1>2. QueuesOK /\ RowsOK /\ LoadsFollow /\ PageFits
  BY DEF OrderInv, RowsInv
<1>3. T \in SUBSET Nat /\ IsFiniteSet(T) /\ T \subseteq All
  BY <1>1, <1>2, HeadIsPage
<1> HIDE DEF T, late
<1>4. /\ ~late => (UnderWay("load")' <=> UnderWay("load"))
      /\ late => MoreIn(jobs) = {} /\ MoreIn(replies)' = {}
  BY <1>1, <1>2, LoadsTake DEF late
<1>5. CASE late
  <2>1. Ascending(rows')
    BY <1>1, <1>3, <1>5, LoadedChanges
  <2>2. MoreIn(jobs)' = {} /\ MoreIn(replies)' = {}
    BY <1>1, <1>4, <1>5 DEF MoreIn
  <2> QED
    BY <2>1, <2>2 DEF PageFits
<1>6. CASE ~late
  <2>1. Settled
    BY <1>1, <1>4, <1>6 DEF Settled
  <2>2. /\ Ascending(rows) /\ \A i \in MoreIn(jobs) : JobFits(i)
        /\ \A i \in MoreIn(replies) : ReplyFits(i)
    BY <1>2, <2>1 DEF PageFits
  <2>3. \A i \in DOMAIN replies' : i + 1 \in DOMAIN replies /\ replies'[i] = replies[i + 1] /\ i \in Nat
    BY <1>1, <1>2, TakeReturns
  <2>4. \A i \in MoreIn(replies)' : i \in Nat /\ i + 1 \in MoreIn(replies) /\ replies'[i] = replies[i + 1]
    BY <2>3 DEF MoreIn
  <2>5. ASSUME NEW i \in MoreIn(jobs)' PROVE JobFits(i)'
    <3>1. i \in MoreIn(jobs) /\ MoreIn(jobs)' = MoreIn(jobs)
      BY <1>1 DEF MoreIn
    <3>2. JobFits(i)
      BY <2>2, <3>1
    <3>3. MoreIn(replies)' = {}
      BY <2>4, <3>2 DEF JobFits
    <3> QED
      BY <1>1, <1>6, <3>1, <3>2, <3>3 DEF JobFits
  <2>6. ASSUME NEW i \in MoreIn(replies)' PROVE ReplyFits(i)'
    <3>1. ReplyFits(i + 1) /\ replies'[i] = replies[i + 1]
      BY <2>2, <2>4
    <3>2. \A j \in MoreIn(replies)' : j = i
      <4> SUFFICES ASSUME NEW j \in MoreIn(replies)' PROVE j = i
        OBVIOUS
      <4>1. j + 1 = i + 1 /\ i \in Nat /\ j \in Nat
        BY <2>4, <3>1 DEF ReplyFits
      <4> QED
        BY <4>1
    <3> QED
      BY <1>1, <1>6, <3>1, <3>2 DEF ReplyFits
  <2> QED
    BY <1>1, <1>6, <2>2, <2>5, <2>6 DEF PageFits
<1> QED
  BY <1>5, <1>6

(* prependMessages(): the page goes before rows that are all newer, and    *)
(* was the only one.                                                       *)
LEMMA MoreFits ==
  ASSUME OrderInv, MoreLoaded
  PROVE  PageFits'
<1> SUFFICES ASSUME Settled' PROVE PageFits'
  BY DEF PageFits
<1> DEFINE T == Head(replies).page
           n == Cardinality(T)
           late == IsLoad(Head(replies))
<1>1. /\ replies # <<>> /\ replies' = Tail(replies) /\ jobs' = jobs
      /\ activeId' = activeId /\ disorder' = disorder /\ Head(replies).kind = "more"
      /\ ~late
  BY DEF MoreLoaded, IsLoad
<1>2. RowsInv /\ QueuesOK /\ RowsOK /\ LoadsFollow /\ PageFits
  BY DEF OrderInv, RowsInv
<1> HIDE DEF late
<1>3. UnderWay("load")' <=> UnderWay("load")
  BY <1>1, <1>2, LoadsTake DEF late
<1>4. Settled
  BY <1>1, <1>3 DEF Settled
<1>5. /\ Ascending(rows) /\ \A i \in MoreIn(jobs) : JobFits(i)
      /\ \A i \in MoreIn(replies) : ReplyFits(i)
  BY <1>2, <1>4 DEF PageFits
<1>6. 1 \in MoreIn(replies) /\ replies[1] = Head(replies)
  BY <1>1, <1>2, TakeReturns DEF MoreIn
<1>7. ReplyFits(1) /\ Head(replies).conversation = activeId
  BY <1>2, <1>4, <1>5, <1>6, PagesAreOwn
<1>8. MoreIn(jobs)' = {}
  <2>1. MoreIn(jobs) = {}
    BY <1>5, <1>6 DEF JobFits
  <2> QED
    BY <1>1, <2>1 DEF MoreIn
<1>9. MoreIn(replies)' = {}
  <2>1. ASSUME NEW i \in MoreIn(replies)' PROVE FALSE
    <3>1. i \in DOMAIN replies' /\ replies'[i].kind = "more"
      BY DEF MoreIn
    <3>2. /\ i + 1 \in DOMAIN replies /\ replies'[i] = replies[i + 1] /\ i \in Nat \ {0}
      BY <1>1, <1>2, <3>1, TakeReturns
    <3>3. i + 1 = 1
      BY <1>7, <3>1, <3>2 DEF ReplyFits, MoreIn
    <3> QED
      BY <3>2, <3>3
  <2> QED
    BY <2>1
<1>10. T \in SUBSET Nat /\ IsFiniteSet(T) /\ T \subseteq All
  BY <1>1, <1>2, HeadIsPage
<1>11. \A k \in DOMAIN rows : \A m \in T : m < rows[k].m
  BY <1>6, <1>7 DEF ReplyFits
<1>12. \E b \in Nat :
         /\ DOMAIN rows' = 1 .. b /\ b <= n + Len(rows)
         /\ \A i \in 1 .. b : rows'[i].m = IF i <= n THEN RowsOf(T)[i].m ELSE rows[i - n].m
  BY <1>2, <1>7, OlderPage
<1>13. /\ n \in Nat /\ Ascending(RowsOf(T)) /\ DOMAIN RowsOf(T) = 1 .. n
       /\ \A i \in 1 .. n : RowsOf(T)[i].m \in T
  <2>1. /\ RowsOf(T) \in Seq(Row) /\ Len(RowsOf(T)) = n /\ Ascending(RowsOf(T))
        /\ \A i \in 1 .. n : RowsOf(T)[i].m \in T
    BY <1>10, RowsOfReturns
  <2> QED
    BY <1>10, <2>1, FS_CardinalityType, LenProperties
<1>14. /\ DOMAIN rows = 1 .. Len(rows) /\ Len(rows) \in Nat
  BY <1>2, Numbers
<1> HIDE DEF T, n
<1>15. Ascending(rows')
  <2>1. PICK b \in Nat :
         /\ DOMAIN rows' = 1 .. b /\ b <= n + Len(rows)
         /\ \A i \in 1 .. b : rows'[i].m = IF i <= n THEN RowsOf(T)[i].m ELSE rows[i - n].m
    BY <1>12
  <2> SUFFICES ASSUME NEW i \in 1 .. b, NEW j \in 1 .. b, i < j
               PROVE  rows'[i].m < rows'[j].m
    BY <2>1 DEF Ascending
  <2>2. CASE j <= n
    <3>1. i <= n /\ i \in DOMAIN RowsOf(T) /\ j \in DOMAIN RowsOf(T)
      BY <1>13, <2>2
    <3>2. RowsOf(T)[i].m < RowsOf(T)[j].m
      BY <1>13, <3>1 DEF Ascending
    <3> QED
      BY <2>1, <2>2, <3>1, <3>2
  <2>3. CASE i <= n /\ ~(j <= n)
    <3>1. i \in 1 .. n /\ j - n \in DOMAIN rows
      BY <1>13, <1>14, <2>1, <2>3
    <3>2. RowsOf(T)[i].m < rows[j - n].m
      BY <1>11, <1>13, <3>1
    <3> QED
      BY <2>1, <2>3, <3>2
  <2>4. CASE ~(i <= n)
    <3>1. ~(j <= n) /\ i - n \in DOMAIN rows /\ j - n \in DOMAIN rows /\ i - n < j - n
      BY <1>13, <1>14, <2>1, <2>4
    <3>2. rows[i - n].m < rows[j - n].m
      BY <1>5, <3>1 DEF Ascending
    <3> QED
      BY <2>1, <2>4, <3>1, <3>2
  <2> QED
    BY <2>2, <2>3, <2>4
<1> QED
  BY <1>8, <1>9, <1>15 DEF PageFits

(* onMessageAdded(): a message older than all that is shown, which a page  *)
(* under way might not hold, is the case that RowsInOrder excepts.         *)
LEMMA AddedFits ==
  ASSUME OrderInv, NEW c \in Conversations, NEW m \in MessagesOf[c], MessageAdded(c, m)
  PROVE  PageFits'
<1> SUFFICES ASSUME Settled' PROVE PageFits'
  BY DEF PageFits
<1>1. /\ replies' = replies /\ activeId' = activeId /\ fetching' = fetching
      /\ Ask("save", c, m) /\ m \notin arrived
      /\ disorder' = (disorder \/ (c = activeId /\ UnderWay("more")
                                   /\ \A i \in DOMAIN rows : m < rows[i].m))
      /\ m \in Nat /\ m \in All
  BY MessagesAreNumbers DEF MessageAdded
<1>2. RowsInv /\ QueuesOK /\ RowsOK /\ LoadsFollow /\ PageFits
  BY DEF OrderInv, RowsInv
<1>3. Settled
  <2>1. UnderWay("load")' <=> UnderWay("load")
    BY <1>1, <1>2, LoadsAsk
  <2> QED
    BY <1>1, <2>1 DEF Settled
<1>4. /\ Ascending(rows) /\ \A i \in MoreIn(jobs) : JobFits(i)
      /\ \A i \in MoreIn(replies) : ReplyFits(i)
  BY <1>2, <1>3 DEF PageFits
<1>5. /\ DOMAIN rows = 1 .. Len(rows) /\ Len(rows) \in Nat
      /\ \A k \in DOMAIN rows : rows[k].m \in Nat
      /\ \A i \in DOMAIN jobs : jobs[i].m \in Nat
      /\ \A i \in DOMAIN replies : replies[i].page \subseteq Nat
  BY <1>2, Numbers
<1>6. MoreIn(jobs)' = MoreIn(jobs) /\ \A i \in MoreIn(jobs) : jobs'[i] = jobs[i]
  <2> DEFINE e == [kind |-> "save", conversation |-> c, m |-> m]
             n == Len(jobs) + 1
  <2>1. /\ \A i \in DOMAIN jobs : i \in DOMAIN jobs' /\ jobs'[i] = jobs[i] /\ i < n
        /\ jobs'[n] = e /\ \A i \in DOMAIN jobs' : i \in DOMAIN jobs \/ i = n
    BY <1>1, <1>2, AskReturns
  <2>2. e.kind # "more"
    OBVIOUS
  <2> HIDE DEF e, n
  <2> QED
    BY <2>1, <2>2 DEF MoreIn
<1>7. MoreIn(replies)' = MoreIn(replies)
  BY <1>1 DEF MoreIn
<1>8. CASE c # activeId
  <2>1. rows' = rows
    BY <1>8 DEF MessageAdded
  <2> QED
    BY <1>1, <1>4, <1>6, <1>7, <2>1 DEF PageFits, JobFits, ReplyFits
<1>9. CASE c = activeId
  <2>1. PICK k \in 0 .. Len(rows) : Inserted(k, m)
    BY <1>9 DEF MessageAdded
  <2>2. /\ DOMAIN rows' = 1 .. Len(rows) + 1
        /\ \A i \in 1 .. Len(rows) + 1 :
             rows'[i].m = IF i <= k THEN rows[i].m ELSE IF i = k + 1 THEN m ELSE rows[i - 1].m
    BY <1>1, <1>2, <2>1, InsertChanges
  <2>3. Ascending(rows')
    <3> DEFINE n == Len(rows)
               f == [i \in 1 .. n |-> rows[i].m]
               g == [i \in 1 .. n + 1 |-> rows'[i].m]
    <3>1. n \in Nat /\ k \in 0 .. n /\ m \in Nat /\ \A i \in 1 .. n : f[i] \in Nat
      BY <1>1, <1>5
    <3>2. \A i, j \in 1 .. n : i < j => f[i] < f[j]
      BY <1>4, <1>5 DEF Ascending
    <3>3. (k > 0 => f[k] < m) /\ (k < n => m < f[k + 1])
      <4>1. k > 0 => k \in 1 .. n
        BY <3>1
      <4>2. k < n => k + 1 \in 1 .. n
        BY <3>1
      <4>3. k \in 1 .. n => rows[k].m # m /\ rows[k].m \in Nat
        BY <1>1, <1>2, <1>5 DEF RowsOK
      <4>4. k + 1 \in 1 .. n => rows[k + 1].m \in Nat
        BY <1>5
      <4>5. (k > 0 => rows[k].m <= m) /\ (k < n => rows[k + 1].m > m)
        BY <2>1 DEF Inserted
      <4> QED
        BY <1>1, <4>1, <4>2, <4>3, <4>4, <4>5
    <3>4. \A i \in 1 .. n + 1 :
            g[i] = IF i <= k THEN f[i] ELSE IF i = k + 1 THEN m ELSE f[i - 1]
      <4> SUFFICES ASSUME NEW i \in 1 .. n + 1
                   PROVE  g[i] = IF i <= k THEN f[i] ELSE IF i = k + 1 THEN m ELSE f[i - 1]
        OBVIOUS
      <4>1. /\ (i <= k => i \in 1 .. n)
            /\ (~(i <= k) /\ i # k + 1 => i - 1 \in 1 .. n)
        BY <3>1
      <4> QED
        BY <2>2, <4>1
    <3> HIDE DEF n, f, g
    <3>5. \A i, j \in 1 .. n + 1 : i < j => g[i] < g[j]
      BY <3>1, <3>2, <3>3, <3>4, OrderWith
    <3> QED
      BY <2>2, <3>5 DEF Ascending, g, n
  (* With a page under way, m is not the oldest.                           *)
  <2>4. ASSUME MoreIn(jobs) # {} \/ MoreIn(replies) # {}
        PROVE  \E l \in DOMAIN rows : rows[l].m <= m
    <3>1. UnderWay("more")
      BY <1>2, <1>3, <2>4, PagesAreOwn
    <3>2. ~(\A i \in DOMAIN rows : m < rows[i].m)
      BY <1>1, <1>9, <3>1 DEF Settled
    <3> QED
      BY <1>1, <1>5, <3>2
  <2>5. \A i \in DOMAIN rows' : rows'[i].m = m \/ \E l \in DOMAIN rows : rows'[i].m = rows[l].m
    <3> SUFFICES ASSUME NEW i \in 1 .. Len(rows) + 1
                 PROVE  rows'[i].m = m \/ \E l \in DOMAIN rows : rows'[i].m = rows[l].m
      BY <2>2
    <3>1. /\ (i <= k => i \in 1 .. Len(rows))
          /\ (~(i <= k) /\ i # k + 1 => i - 1 \in 1 .. Len(rows))
      BY <1>5, <2>1
    <3> QED
      BY <1>5, <2>2, <3>1
  <2>6. ASSUME NEW i \in MoreIn(jobs) PROVE JobFits(i)'
    <3>1. JobFits(i) /\ i \in DOMAIN jobs
      BY <1>4 DEF MoreIn
    <3>2. jobs[i].m \in Nat /\ jobs'[i].m = jobs[i].m
      BY <1>5, <1>6, <3>1
    <3>3. PICK l \in DOMAIN rows : rows[l].m <= m
      BY <2>4
    <3>4. jobs[i].m <= m
      BY <1>1, <1>5, <3>1, <3>2, <3>3 DEF JobFits
    <3>5. \A j \in DOMAIN rows' : jobs'[i].m <= rows'[j].m
      BY <2>5, <3>1, <3>2, <3>4 DEF JobFits
    <3> QED
      BY <1>1, <1>6, <1>7, <3>1, <3>5 DEF JobFits
  <2>7. ASSUME NEW i \in MoreIn(replies) PROVE ReplyFits(i)'
    <3>1. ReplyFits(i) /\ i \in DOMAIN replies
      BY <1>4 DEF MoreIn
    <3>2. replies[i].page \subseteq Nat /\ replies'[i].page = replies[i].page
      BY <1>1, <1>5, <3>1
    <3>3. PICK l \in DOMAIN rows : rows[l].m <= m
      BY <2>4
    <3>4. \A p \in replies[i].page : p < m
      <4> SUFFICES ASSUME NEW p \in replies[i].page PROVE p < m
        OBVIOUS
      <4>1. p < rows[l].m /\ p \in Nat /\ rows[l].m \in Nat
        BY <1>5, <3>1, <3>2, <3>3 DEF ReplyFits
      <4> QED
        BY <1>1, <3>3, <4>1
    <3>5. \A j \in DOMAIN rows' : \A p \in replies'[i].page : p < rows'[j].m
      BY <2>5, <3>1, <3>2, <3>4 DEF ReplyFits
    <3> QED
      BY <1>1, <1>7, <3>1, <3>5 DEF ReplyFits
  <2> QED
    BY <1>6, <1>7, <2>3, <2>6, <2>7 DEF PageFits
<1> QED
  BY <1>8, <1>9

LEMMA RemovedFits ==
  ASSUME OrderInv, NEW m \in All, MessageRemoved(m)
  PROVE  PageFits'
<1> DEFINE n == Len(rows)
<1>1. RowsOK /\ RowsInv /\ PageFits
  BY DEF OrderInv, RowsInv
<1>2. /\ DOMAIN rows = 1 .. n /\ n \in Nat /\ \A k \in DOMAIN rows : rows[k].m \in Nat
  BY <1>1, Numbers
<1>3. /\ DOMAIN rows' = 1 .. n - 1
      /\ \E k \in 1 .. n : \A i \in 1 .. n - 1 :
           rows'[i].m = rows[IF i < k THEN i ELSE i + 1].m
  BY <1>1, RemoveChanges
<1> HIDE DEF n
<1>4. PICK k \in 1 .. n : \A i \in 1 .. n - 1 : rows'[i].m = rows[IF i < k THEN i ELSE i + 1].m
  BY <1>3
<1>5. \A i \in DOMAIN rows' : \E l \in DOMAIN rows : rows'[i].m = rows[l].m
  <2>1. \A i \in 1 .. n - 1 : (IF i < k THEN i ELSE i + 1) \in 1 .. n
    BY <1>2
  <2> QED
    BY <1>2, <1>3, <1>4, <2>1
<1>6. ASSUME Ascending(rows) PROVE Ascending(rows)'
  <2> DEFINE f == [i \in 1 .. n |-> rows[i].m]
             g == [i \in 1 .. n - 1 |-> rows'[i].m]
  <2>1. (\A i \in 1 .. n : f[i] \in Nat) /\ \A i, j \in 1 .. n : i < j => f[i] < f[j]
    BY <1>2, <1>6 DEF Ascending
  <2>2. \A i \in 1 .. n - 1 : g[i] = f[IF i < k THEN i ELSE i + 1]
    <3>1. \A i \in 1 .. n - 1 : (IF i < k THEN i ELSE i + 1) \in 1 .. n
      BY <1>2
    <3> QED
      BY <1>4, <3>1
  <2> HIDE DEF f, g
  <2>3. \A i, j \in 1 .. n - 1 : i < j => g[i] < g[j]
    BY <1>2, <1>4, <2>1, <2>2, OrderWithout
  <2> QED
    BY <1>3, <2>3 DEF Ascending, g
<1>7. /\ jobs' = jobs /\ replies' = replies /\ fetching' = fetching
      /\ activeId' = activeId /\ disorder' = disorder
  BY DEF MessageRemoved
<1> QED
  BY <1>1, <1>5, <1>6, <1>7, FitsKept

LEMMA FitsStep ==
  ASSUME OrderInv, [ChatNext]_chatVars
  PROVE  PageFits'
<1>1. RowsOK /\ RowsInv /\ PageFits /\ rows \in Seq(Row)
  BY DEF OrderInv, RowsInv, RowsOK
<1>2. DOMAIN rows = 1 .. Len(rows) /\ Len(rows) \in Nat
  BY <1>1, Numbers
<1>3. ASSUME Marks, SameMessages, jobs' = jobs, replies' = replies, fetching' = fetching,
             activeId' = activeId, disorder' = disorder
      PROVE  PageFits'
  <2>1. rows' \in Seq(Row)
    BY <1>3 DEF Marks
  <2>2. DOMAIN rows' = DOMAIN rows /\ \A i \in DOMAIN rows : rows'[i].m = rows[i].m
    BY <1>2, <1>3, <2>1 DEF SameMessages
  <2>3. Ascending(rows) => Ascending(rows)'
    BY <2>2 DEF Ascending
  <2> QED
    BY <1>1, <1>3, <2>2, <2>3, FitsKept
<1>4. CASE UNCHANGED chatVars
  BY <1>1, <1>4, FitsKept DEF chatVars, Ascending
<1>5. CASE Close
  BY <1>5 DEF Close, PageFits, Settled
<1>6. CASE FetchMore
  BY <1>6, FetchFits
<1>7. CASE Work
  BY <1>7, WorkFits
<1>8. CASE Loaded
  BY <1>8, LoadedFits
<1>9. CASE MoreLoaded
  BY <1>9, MoreFits
<1>10. ASSUME NEW c \in Conversations, Open(c) PROVE PageFits'
  <2> DEFINE e == [kind |-> "load", conversation |-> c, m |-> 0]
  <2>1. Ask("load", c, 0) /\ activeId' = c /\ QueuesOK
    BY <1>10, <1>1 DEF Open, RowsInv
  <2>2. /\ Len(jobs) \in Nat /\ DOMAIN jobs' = 1 .. Len(jobs) + 1
        /\ jobs'[Len(jobs) + 1] = e
    BY <2>1, AskReturns
  <2>3. Len(jobs) + 1 \in DOMAIN jobs' /\ e.kind = "load" /\ e.conversation = c
    BY <2>2
  <2> HIDE DEF e
  <2>4. UnderWay("load")'
    BY <2>1, <2>2, <2>3, LoadIsUnderWay DEF IsLoad
  <2> QED
    BY <2>4 DEF PageFits, Settled
<1>11. ASSUME NEW c \in Conversations, NEW m \in MessagesOf[c], MessageAdded(c, m)
       PROVE  PageFits'
  BY <1>11, AddedFits
<1>12. ASSUME NEW m \in All, MessageReplaced(m) PROVE PageFits'
  BY <1>1, <1>3, <1>12, ReplaceChanges DEF MessageReplaced
<1>13. ASSUME NEW m \in All, MessageRemoved(m) PROVE PageFits'
  BY <1>13, RemovedFits
<1>14. ASSUME NEW m \in All, MarkMessage(m) PROVE PageFits'
  BY <1>1, <1>3, <1>14, MarkChanges DEF MarkMessage
<1>15. ASSUME NEW n \in 0 .. Len(rows), MarkIndex(n) PROVE PageFits'
  BY <1>1, <1>3, <1>15, MarkChanges DEF MarkIndex
<1> QED
  BY <1>4, <1>5, <1>6, <1>7, <1>8, <1>9, <1>10, <1>11, <1>12, <1>13, <1>14, <1>15 DEF ChatNext

(* onMessageAdded(), onConversationLoaded() and prependMessages() never     *)
(* show a message twice, out of its place or in another conversation,       *)
(* however visits, pages and messages race, save in the two excepted cases. *)
THEOREM OrderCorrect == ChatSpec => []RowsInOrder
<1>1. ChatInit => OrderInv
  <2> SUFFICES ASSUME ChatInit PROVE OrderInv
    OBVIOUS
  <2>1. activeId = Closed
    BY DEF ChatInit
  <2> QED
    BY <2>1, RowsStart DEF OrderInv, LoadsFollow, PageFits, Settled
<1>2. OrderInv /\ [ChatNext]_chatVars => OrderInv'
  BY RowsStep, QueuesStep, LoadsStep, FitsStep DEF OrderInv, RowsInv
<1>3. OrderInv => RowsInOrder
  <2> SUFFICES ASSUME OrderInv PROVE RowsInOrder
    OBVIOUS
  <2>1. \A i \in DOMAIN rows : rows[i].m \in MessagesOf[activeId]
    BY DEF OrderInv, RowsInv, RowsOK
  <2>2. CASE activeId = Closed
    <3>1. rows = <<>>
      BY <2>2 DEF OrderInv, RowsInv, RowsOK
    <3> QED
      BY <3>1 DEF RowsInOrder
  <2>3. CASE activeId # Closed
    BY <2>1, <2>3 DEF OrderInv, PageFits, Settled, Ascending, RowsInOrder
  <2> QED
    BY <2>2, <2>3
<1> QED
  BY <1>1, <1>2, <1>3, PTL DEF ChatSpec
================================================================================
