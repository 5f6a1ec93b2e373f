---------------------------- MODULE AuditLogProofs ----------------------------
(***************************************************************************)
(* Safety of AuditLog for any number of records, any retention and any     *)
(* limit of a List: whose line is where, and that the line of an           *)
(* acknowledged record is found again.                                     *)
(***************************************************************************)
EXTENDS AuditLog, FiniteSetTheorems, WellFoundedInduction, TLAPS

USE AuditAssumption
-----------------------------------------------------------------------------
(* The first elements of a finite set in a strict total order R.           *)

LEMMA LeastNat ==
    ASSUME NEW T, T \subseteq Nat, T # {}
    PROVE  \E n \in T : \A m \in T : n <= m
<1>. DEFINE R == OpToRel(<, Nat)
<1>1. IsWellFoundedOn(R, Nat) /\ \A m, n \in Nat : m < n => <<m, n>> \in R
  BY NatLessThanWellFounded DEF OpToRel
<1>. HIDE DEF R
<1>2. PICK n \in T : \A m \in T : ~(<<m, n>> \in R)
  BY <1>1, WFMin
<1>3. ASSUME NEW m \in T PROVE n <= m
  <2>1. n \in Nat /\ m \in Nat /\ ~(m < n)
    BY <1>1, <1>2
  <2>. QED
    BY <2>1
<1>. QED
  BY <1>3

IsOrder(R, S) ==
    /\ \A x, y \in S : <<x, y>> \in R => <<y, x>> \notin R
    /\ \A x, y, z \in S : <<x, y>> \in R /\ <<y, z>> \in R => <<x, z>> \in R
    /\ \A x, y \in S : x # y => <<x, y>> \in R \/ <<y, x>> \in R

Ahead(R, S, y) == {z \in S : <<z, y>> \in R}
First(R, S, n) == {y \in S : Cardinality(Ahead(R, S, y)) < n}

LEMMA AheadOK ==
    ASSUME NEW S, NEW R, IsFiniteSet(S), IsOrder(R, S)
    PROVE  /\ \A y \in S : IsFiniteSet(Ahead(R, S, y)) /\ Cardinality(Ahead(R, S, y)) \in Nat
           /\ \A x, y \in S : <<x, y>> \in R =>
                Cardinality(Ahead(R, S, x)) < Cardinality(Ahead(R, S, y))
<1>1. \A y \in S : Ahead(R, S, y) \in SUBSET S
  BY DEF Ahead
<1>2. \A y \in S : IsFiniteSet(Ahead(R, S, y)) /\ Cardinality(Ahead(R, S, y)) \in Nat
  BY <1>1, FS_Subset, FS_CardinalityType
<1>3. ASSUME NEW x \in S, NEW y \in S, <<x, y>> \in R
      PROVE  Cardinality(Ahead(R, S, x)) < Cardinality(Ahead(R, S, y))
  <2>1. Ahead(R, S, x) \cup {x} \in SUBSET Ahead(R, S, y) /\ x \notin Ahead(R, S, x)
    BY <1>3 DEF Ahead, IsOrder
  <2>2. Cardinality(Ahead(R, S, x) \cup {x}) = Cardinality(Ahead(R, S, x)) + 1
    BY <1>2, <2>1, FS_AddElement
  <2>3. Cardinality(Ahead(R, S, x) \cup {x}) <= Cardinality(Ahead(R, S, y))
    BY <1>2, <2>1, FS_Subset
  <2>. QED
    BY <1>2, <2>2, <2>3
<1>. QED
  BY <1>2, <1>3

(* If n or more are ahead of x, the first n are n, and are ahead of x.     *)
LEMMA FirstAhead ==
    ASSUME NEW S, NEW R, IsFiniteSet(S), IsOrder(R, S), NEW n \in Nat,
           NEW x \in S, n <= Cardinality(Ahead(R, S, x))
    PROVE  \A y \in First(R, S, n) : <<y, x>> \in R
<1>. SUFFICES ASSUME NEW y \in S, Cardinality(Ahead(R, S, y)) < n PROVE <<y, x>> \in R
  BY DEF First
<1>1. Cardinality(Ahead(R, S, y)) < Cardinality(Ahead(R, S, x))
  BY AheadOK
<1>2. y # x
  BY <1>1, AheadOK
<1>3. <<x, y>> \notin R
  BY <1>1, AheadOK
<1>. QED
  BY <1>2, <1>3 DEF IsOrder

LEMMA FirstOneMore ==
    ASSUME NEW S, NEW R, IsFiniteSet(S), IsOrder(R, S), NEW n \in Nat,
           NEW x \in S, n <= Cardinality(Ahead(R, S, x)),
           Cardinality(First(R, S, n)) = n
    PROVE  Cardinality(First(R, S, n + 1)) = n + 1
<1>. DEFINE a(y) == Cardinality(Ahead(R, S, y))
            F == First(R, S, n)
<1>1. /\ \A y \in S : a(y) \in Nat
      /\ \A y, z \in S : <<y, z>> \in R => a(y) < a(z)
  BY AheadOK
<1>2. /\ F = {y \in S : a(y) < n} /\ IsFiniteSet(F)
      /\ \A y \in S : Ahead(R, S, y) \in SUBSET S /\ IsFiniteSet(Ahead(R, S, y))
  BY FS_Subset, AheadOK DEF First, Ahead
<1>3. PICK y \in S \ F : \A z \in S \ F : a(y) <= a(z)
  <2>. DEFINE T == {a(z) : z \in S \ F}
  <2>1. T \subseteq Nat /\ T # {}
    BY <1>1, <1>2
  <2>. HIDE DEF T
  <2>2. PICK k \in T : \A m \in T : k <= m
    BY <2>1, LeastNat
  <2>. QED
    BY <2>2 DEF T
<1>4. a(y) = n
  <2>1. Ahead(R, S, y) \in SUBSET F
    <3>. SUFFICES ASSUME NEW z \in S, <<z, y>> \in R PROVE z \in F
      BY DEF Ahead
    <3>1. a(z) < a(y) /\ a(z) \in Nat /\ a(y) \in Nat
      BY <1>1, <1>3
    <3>2. z \notin F => a(y) <= a(z)
      BY <1>3
    <3>. HIDE DEF a, F
    <3>. QED
      BY <3>1, <3>2
  <2>2. a(y) <= n
    BY <1>2, <2>1, FS_Subset
  <2>. QED
    BY <1>1, <1>2, <1>3, <2>2
<1>5. First(R, S, n + 1) = F \cup {y}
  <2>1. \A z \in S : a(z) < n + 1 <=> a(z) < n \/ a(z) = n
    BY <1>1
  <2>2. \A z \in S : a(z) = n => z = y
    <3>. SUFFICES ASSUME NEW z \in S, a(z) = n, z # y PROVE FALSE
      OBVIOUS
    <3>1. <<z, y>> \in R \/ <<y, z>> \in R
      BY <1>3 DEF IsOrder
    <3>2. a(z) < a(y) \/ a(y) < a(z)
      BY <1>1, <1>3, <3>1
    <3>. HIDE DEF a
    <3>. QED
      BY <1>4, <3>2
  <2>. HIDE DEF a
  <2>3. {z \in S : a(z) < n + 1} = F \cup {y}
    BY <1>2, <1>3, <1>4, <2>1, <2>2
  <2>. QED
    BY <2>3 DEF First, a
<1>. QED
  BY <1>2, <1>3, <1>5, FS_AddElement

LEMMA FirstFull ==
    ASSUME NEW S, NEW R, IsFiniteSet(S), IsOrder(R, S), NEW n \in Nat,
           NEW x \in S, n <= Cardinality(Ahead(R, S, x))
    PROVE  Cardinality(First(R, S, n)) = n
<1>. DEFINE T == {m \in Nat : m <= n /\ Cardinality(First(R, S, m)) # m}
<1>. SUFFICES T = {}
  OBVIOUS
<1>1. ASSUME T # {} PROVE FALSE
  <2>1. PICK m \in T : \A k \in T : m <= k
    <3>. HIDE DEF T
    <3>1. T \subseteq Nat
      BY DEF T
    <3>. QED
      BY <1>1, <3>1, LeastNat
  <2>2. CASE m = 0
    <3>1. First(R, S, 0) = {}
      BY AheadOK DEF First
    <3>. QED
      BY <2>1, <2>2, <3>1, FS_EmptySet
  <2>3. CASE m # 0
    <3>1. m - 1 \in Nat /\ m - 1 <= n /\ m - 1 \notin T /\ m = (m - 1) + 1
      BY <2>1, <2>3
    <3>2. Cardinality(First(R, S, m - 1)) = m - 1
      BY <3>1
    <3>3. m - 1 <= Cardinality(Ahead(R, S, x))
      BY <3>1, AheadOK
    <3>4. Cardinality(First(R, S, (m - 1) + 1)) = (m - 1) + 1
      BY <3>1, <3>2, <3>3, FirstOneMore
    <3>. QED
      BY <2>1, <3>1, <3>4
  <2>. QED
    BY <2>2, <2>3
<1>. QED
  BY <1>1
-----------------------------------------------------------------------------
(* Picked lines: what a rewritten file consists of.                        *)

Increasing(g) == \A j, k \in DOMAIN g : j < k => g[j] < g[k]
Placings(I)    == {g \in [1..Cardinality(I) -> I] : Increasing(g)}

LEMMA OneMorePlace ==
    ASSUME NEW I, I \subseteq Nat, IsFiniteSet(I), NEW x \in I, \A i \in I : x <= i,
           NEW g \in Placings(I \ {x})
    PROVE  Placings(I) # {}
<1>. DEFINE n == Cardinality(I)
            h == [k \in 1..n |-> IF k = 1 THEN x ELSE g[k - 1]]
<1>1. n \in Nat /\ Cardinality(I \ {x}) = n - 1
  BY FS_CardinalityType, FS_RemoveElement
<1>2. g \in [1..(n - 1) -> I \ {x}] /\ Increasing(g) /\ DOMAIN g = 1..(n - 1)
  BY <1>1 DEF Placings
<1>. HIDE DEF n
<1>3. \A k \in 1..n : k # 1 => k - 1 \in DOMAIN g
  BY <1>1, <1>2
<1>4. h \in [1..n -> I]
  BY <1>2, <1>3
<1>5. ASSUME NEW j \in 1..n, NEW k \in 1..n, j < k PROVE h[j] < h[k]
  <2>1. k # 1 /\ k - 1 \in DOMAIN g /\ h[k] = g[k - 1] /\ g[k - 1] \in I \ {x}
    BY <1>1, <1>2, <1>3, <1>5
  <2>2. CASE j = 1
    <3>1. h[j] = x /\ x <= g[k - 1] /\ x # g[k - 1]
      BY <2>1, <2>2
    <3>2. x \in Nat /\ g[k - 1] \in Nat
      BY <2>1
    <3>. QED
      BY <2>1, <3>1, <3>2
  <2>3. CASE j # 1
    <3>1. j - 1 \in DOMAIN g /\ h[j] = g[j - 1] /\ j - 1 < k - 1
      BY <1>1, <1>3, <1>5, <2>3
    <3>. QED
      BY <1>2, <2>1, <3>1 DEF Increasing
  <2>. QED
    BY <2>2, <2>3
<1>. QED
  BY <1>4, <1>5 DEF Placings, Increasing, n

LEMMA PlacesExist ==
    ASSUME NEW J, J \subseteq Nat, IsFiniteSet(J)
    PROVE  Placings(J) # {}
<1>. DEFINE Bad == {I \in SUBSET J : Placings(I) = {}}
            T == {Cardinality(I) : I \in Bad}
<1>1. \A I \in SUBSET J : I \subseteq Nat /\ IsFiniteSet(I) /\ Cardinality(I) \in Nat
  BY FS_Subset, FS_CardinalityType
<1>. SUFFICES ASSUME Bad # {} PROVE FALSE
  OBVIOUS
<1>2. PICK I \in Bad : \A K \in Bad : Cardinality(I) <= Cardinality(K)
  <2>1. T \subseteq Nat /\ T # {}
    BY <1>1
  <2>. HIDE DEF T
  <2>2. PICK k \in T : \A m \in T : k <= m
    BY <2>1, LeastNat
  <2>. QED
    BY <2>2 DEF T
<1>3. CASE I = {}
  <2>1. Cardinality(I) = 0
    BY <1>3, FS_EmptySet
  <2>2. [k \in 1..0 |-> 0] \in [1..0 -> I] /\ Increasing([k \in 1..0 |-> 0])
    BY DEF Increasing
  <2>. QED
    BY <1>2, <2>1, <2>2 DEF Placings
<1>4. CASE I # {}
  <2>1. PICK x \in I : \A i \in I : x <= i
    BY <1>1, <1>2, <1>4, LeastNat
  <2>2. Cardinality(I \ {x}) = Cardinality(I) - 1 /\ Cardinality(I) \in Nat
    BY <1>1, <1>2, <2>1, FS_RemoveElement
  <2>3. I \ {x} \in SUBSET J /\ I \ {x} \notin Bad
    BY <1>1, <1>2, <2>2
  <2>4. PICK g : g \in Placings(I \ {x})
    BY <2>3
  <2>5. I \subseteq Nat /\ IsFiniteSet(I)
    BY <1>1, <1>2
  <2>6. Placings(I) # {}
    <3>. HIDE DEF Bad
    <3>. QED
      BY <2>1, <2>4, <2>5, OneMorePlace
  <2>. QED
    BY <1>2, <2>6
<1>. QED
  BY <1>3, <1>4

PickedFrom(s, I, place) ==
    /\ place \in [1..Cardinality(I) -> I]
    /\ \A k \in 1..Cardinality(I) : Picked(s, I)[k] = s[place[k]]
    /\ \A j, k \in 1..Cardinality(I) : place[j] = place[k] => j = k
    /\ \A i \in I : \E k \in 1..Cardinality(I) : place[k] = i

(* The picked elements are those at the places in I, each place once.      *)
LEMMA PickedOK ==
    ASSUME NEW L, NEW s \in Seq(L), NEW I \in SUBSET DOMAIN s
    PROVE  /\ Cardinality(I) \in Nat
           /\ Picked(s, I) \in Seq(L) /\ Len(Picked(s, I)) = Cardinality(I)
           /\ \E place : PickedFrom(s, I, place)
<1>. DEFINE n == Cardinality(I)
            place == CHOOSE g \in [1..n -> I] : Increasing(g)
<1>1. I \subseteq Nat /\ IsFiniteSet(I) /\ n \in Nat
  <2>1. DOMAIN s = 1..Len(s) /\ Len(s) \in Nat
    OBVIOUS
  <2>2. IsFiniteSet(1..Len(s)) /\ I \in SUBSET (1..Len(s))
    BY <2>1, FS_Interval
  <2>3. IsFiniteSet(I)
    BY <2>2, FS_Subset
  <2>. QED
    BY <2>2, <2>3, FS_CardinalityType
<1>2. Placings(I) # {}
  BY <1>1, PlacesExist
<1>3. place \in [1..n -> I] /\ Increasing(place)
  BY <1>2 DEF Placings
<1>4. Picked(s, I) = [k \in 1..n |-> s[place[k]]]
  BY DEF Picked, Increasing
<1>. HIDE DEF place
<1>5. ASSUME NEW j \in 1..n, NEW k \in 1..n, j # k PROVE place[j] # place[k]
  <2>1. place[j] \in Nat /\ place[k] \in Nat
    BY <1>1, <1>3
  <2>2. j < k \/ k < j
    BY <1>1, <1>5
  <2>3. place[j] < place[k] \/ place[k] < place[j]
    BY <1>3, <2>2 DEF Increasing
  <2>. QED
    BY <2>1, <2>3
<1>6. place \in Injection(1..n, I)
  BY <1>3, <1>5 DEF Injection, IsInjective
<1>7. Cardinality(1..n) = n
  BY <1>1, FS_Interval
<1>8. place \in Surjection(1..n, I)
  BY <1>1, <1>6, <1>7, FS_Injection
<1>9. \A k \in 1..n : s[place[k]] \in L
  BY <1>3
<1>10. Picked(s, I) \in Seq(L) /\ Len(Picked(s, I)) = n
  BY <1>1, <1>4, <1>9
<1>11. PickedFrom(s, I, place)
  BY <1>3, <1>4, <1>5, <1>8 DEF Surjection, PickedFrom
<1>. QED
  BY <1>1, <1>10, <1>11
-----------------------------------------------------------------------------
(* The invariant.                                                          *)

(* A whole line is that of a record, in the file of its day, and once.     *)
FileOK(f, d) ==
    /\ f \in File
    /\ f.open => f.lines # <<>>
    /\ \A i \in DOMAIN f.lines :
         f.lines[i].whole => f.lines[i].id \in Records /\ DayOf(f.lines[i].at) = d
    /\ \A i, j \in DOMAIN f.lines :
         f.lines[i].whole /\ f.lines[j].whole /\ f.lines[i].id = f.lines[j].id => i = j

FilesOK == \A d \in Days : FileOK(file[d], d)

(* What is in a file was written by an operation that has ended. *)
WrittenOK == \A d \in Days : \A l \in Entries(file[d]) : op[l.id].phase = "done"

OpsOK == /\ \A p \in Ops : op[p].at <= now
         /\ ~At(Ticker, "append")

(* An acknowledged record is in a file until it expires, unless its line   *)
(* was joined with another one.                                            *)
Found(a, f) == \E l \in Entries(f) : l.id = a.id /\ l.at = a.at
AckedOK == \A a \in acked : \/ a.id \in spoiled
                            \/ Expired(a, now)
                            \/ \E d \in Days : Found(a, file[d])

IInv == TypeOK /\ FilesOK /\ WrittenOK /\ OpsOK /\ AckedOK
-----------------------------------------------------------------------------
(* Files.                                                                  *)

LEMMA EntryPlaces ==
    \A f : \A l : l \in Entries(f) <=> \E i \in DOMAIN f.lines : f.lines[i] = l /\ l.whole
BY DEF Entries, ToSet

LEMMA DayOK ==
    ASSUME NEW t \in Nat, t <= MaxTime
    PROVE  DayOf(t) \in Days
<1>. DEFINE m == MaxTime \div DayLength
            k == t \div DayLength
<1>1. m \in Nat /\ k \in Nat
  BY SMTT(30)
<1>2. k <= m
  <2>1. k * DayLength <= t /\ MaxTime < (m + 1) * DayLength
    BY SMTT(30)
  <2>. HIDE DEF m, k
  <2>2. k * DayLength < (m + 1) * DayLength
    <3>1. k * DayLength \in Nat /\ (m + 1) * DayLength \in Nat
      BY <1>1, SMTT(30)
    <3>. QED
      BY <2>1, <3>1
  <2>3. CASE k >= m + 1
    <3>1. k * DayLength >= (m + 1) * DayLength
      BY <1>1, <2>3, SMTT(30)
    <3>2. k * DayLength \in Nat /\ (m + 1) * DayLength \in Nat
      BY <1>1, SMTT(30)
    <3>. QED
      BY <2>2, <3>1, <3>2
  <2>. QED
    BY <1>1, <2>3
<1>. QED
  BY <1>1, <1>2 DEF DayOf, Days

(* Cleaning a file loses what has expired and nothing else.                *)
LEMMA RewrittenOK ==
    ASSUME NEW f, NEW d, FileOK(f, d), NEW t \in Nat
    PROVE  /\ FileOK(Rewritten(f, t), d)
           /\ Entries(Rewritten(f, t)) = {l \in Entries(f) : ~Expired(l, t)}
<1>. DEFINE r == Rewritten(f, t)
            I == Kept(f, t)
            n == Cardinality(I)
<1>1. f \in File /\ f.lines \in Seq(Line) /\ I \in SUBSET DOMAIN f.lines
  BY DEF FileOK, File, Kept
<1>2. /\ n \in Nat
      /\ Picked(f.lines, I) \in Seq(Line) /\ Len(Picked(f.lines, I)) = n
      /\ \E place : PickedFrom(f.lines, I, place)
  <2>. DEFINE s == f.lines
  <2>1. s \in Seq(Line) /\ I \in SUBSET DOMAIN s
    BY <1>1
  <2>. HIDE DEF s, I
  <2>2. /\ n \in Nat
        /\ Picked(s, I) \in Seq(Line) /\ Len(Picked(s, I)) = n
        /\ \E place : PickedFrom(s, I, place)
    BY <2>1, PickedOK
  <2>. QED
    BY <2>2 DEF s
<1>3. PICK place : PickedFrom(f.lines, I, place)
  BY <1>2
<1>4. /\ r.lines = Picked(f.lines, I) /\ r.open = FALSE /\ r \in File
      /\ DOMAIN r.lines = 1..n
  <2>. HIDE DEF I
  <2>1. r = [lines |-> Picked(f.lines, I), open |-> FALSE]
    BY DEF Rewritten, I
  <2>. HIDE DEF r
  <2>. QED
    BY <1>2, <2>1 DEF File
<1>5. \A i \in I : f.lines[i].whole /\ ~Expired(f.lines[i], t) /\ i \in DOMAIN f.lines
  BY DEF Kept
<1>6. \A i \in DOMAIN f.lines : f.lines[i].whole /\ ~Expired(f.lines[i], t) => i \in I
  BY DEF Kept
<1>. HIDE DEF r, I
<1>7. \A k \in 1..n : r.lines[k] = f.lines[place[k]] /\ place[k] \in I
  BY <1>3, <1>4 DEF PickedFrom
<1>8. /\ \A j, k \in 1..n : place[j] = place[k] => j = k
      /\ \A i \in I : \E k \in 1..n : place[k] = i
  BY <1>3 DEF PickedFrom
<1>. HIDE DEF n
<1>9. FileOK(r, d)
  BY <1>2, <1>4, <1>5, <1>7, <1>8 DEF FileOK
<1>10. \A l : l \in Entries(r) <=> l \in Entries(f) /\ ~Expired(l, t)
  BY <1>2, <1>4, <1>5, <1>6, <1>7, <1>8, EntryPlaces
<1>. QED
  BY <1>9, <1>10 DEF r

(* What a write adds and what it spoils.                                   *)
LEMMA ExtendedOK ==
    ASSUME NEW f, NEW d, FileOK(f, d), NEW l \in Line, NEW open \in BOOLEAN, NEW k,
           l.whole => l.id \in Records /\ DayOf(l.at) = d /\ \A x \in Entries(f) : x.id # l.id
    PROVE  /\ FileOK(Extended(f, l, open), d)
           /\ \A x \in Entries(Extended(f, l, open)) : x \in Entries(f) \/ (x = l /\ l.whole)
           /\ \A x \in Entries(f) :
                x \in Entries(Extended(f, l, open)) \/ x.id \in JoinedBy(f, k)
           /\ JoinedBy(f, k) \subseteq {k.id} \cup Records \cup {0}
           /\ 0 \notin JoinedBy(f, k)
           /\ l.whole => l \in Entries(Extended(f, l, open)) \/ k.id \in JoinedBy(f, k) \cup {0}
<1>. DEFINE x == Extended(f, l, open)
            n == Len(f.lines)
<1>1. f.lines \in Seq(Line) /\ n \in Nat /\ DOMAIN f.lines = 1..n /\ f.open \in BOOLEAN
  BY DEF FileOK, File
<1>2. CASE ~f.open
  <2>1. x.lines = Append(f.lines, l) /\ x.open = open
    BY <1>2 DEF Extended
  <2>2. /\ x.lines \in Seq(Line) /\ DOMAIN x.lines = 1..(n + 1)
        /\ x.lines[n + 1] = l /\ \A i \in 1..n : x.lines[i] = f.lines[i]
    BY <1>1, <2>1
  <2>3. x \in File /\ x.lines # <<>>
    <3>1. x = [lines |-> Append(f.lines, l), open |-> open]
      BY <1>2 DEF Extended
    <3>. HIDE DEF x
    <3>2. x.lines # <<>>
      BY <1>1, <2>2
    <3>. QED
      BY <1>1, <3>1, <3>2 DEF File
  <2>. HIDE DEF x, n
  <2>4. \A i \in 1..n : l.whole /\ f.lines[i].whole => f.lines[i].id # l.id
    BY <1>1, EntryPlaces
  <2>5. \A i \in 1..(n + 1) : i \in 1..n \/ i = n + 1
    BY <1>1
  <2>6. FileOK(x, d)
    BY <1>1, <2>1, <2>2, <2>3, <2>4, <2>5 DEF FileOK
  <2>7. \A y : y \in Entries(x) <=> y \in Entries(f) \/ (y = l /\ l.whole)
    <3>1. n + 1 \in 1..(n + 1) /\ \A i \in 1..n : i \in 1..(n + 1)
      BY <1>1
    <3>. QED
      BY <1>1, <2>2, <2>5, <3>1, EntryPlaces
  <2>8. JoinedBy(f, k) = {}
    BY <1>2 DEF JoinedBy
  <2>. QED
    BY <2>6, <2>7, <2>8 DEF x
<1>3. CASE f.open
  <2>1. n > 0
    <3>1. f.lines # <<>>
      BY <1>3 DEF FileOK
    <3>. QED
      BY <1>1, <3>1
  <2>2. x.lines = Append(Front(f.lines), Damaged) /\ x.open = open
    BY <1>3 DEF Extended
  <2>3. /\ Front(f.lines) \in Seq(Line) /\ Len(Front(f.lines)) = n - 1
        /\ \A i \in 1..(n - 1) : Front(f.lines)[i] = f.lines[i]
        /\ Last(f.lines) = f.lines[n]
    BY <1>1, <2>1 DEF Front, Last
  <2>4. Damaged \in Line /\ Damaged.whole = FALSE
    BY DEF Damaged, Line
  <2>. DEFINE g == Front(f.lines)
  <2>5. Append(g, Damaged) \in Seq(Line) /\ Append(g, Damaged) # <<>>
    <3>. HIDE DEF g
    <3>. QED
      BY <2>3, <2>4 DEF g
  <2>6. x \in File /\ x.lines # <<>>
    <3>1. x = [lines |-> Append(Front(f.lines), Damaged), open |-> open]
      BY <1>3 DEF Extended
    <3>. HIDE DEF x
    <3>. QED
      BY <2>5, <3>1 DEF File
  <2>7. /\ DOMAIN x.lines = 1..n /\ x.lines[n] = Damaged
        /\ \A i \in 1..(n - 1) : x.lines[i] = f.lines[i]
    <3>1. Len(Append(g, Damaged)) = n /\ Append(g, Damaged)[n] = Damaged
      <4>. HIDE DEF g
      <4>. QED
        BY <1>1, <2>1, <2>3, <2>4 DEF g
    <3>2. \A i \in 1..(n - 1) : Append(g, Damaged)[i] = g[i]
      <4>. HIDE DEF g
      <4>. QED
        BY <1>1, <2>1, <2>3, <2>4 DEF g
    <3>. HIDE DEF x
    <3>. QED
      BY <2>2, <2>3, <2>5, <3>1, <3>2
  <2>. HIDE DEF x, n, g
  <2>8. \A i \in 1..n : i \in 1..(n - 1) \/ i = n
    BY <1>1
  <2>9. \A i \in 1..(n - 1) : i \in 1..n
    BY <1>1
  <2>10. FileOK(x, d)
    BY <1>1, <2>2, <2>4, <2>6, <2>7, <2>8, <2>9 DEF FileOK
  <2>11. \A y \in Entries(x) : y \in Entries(f)
    BY <1>1, <2>4, <2>7, <2>8, <2>9, EntryPlaces
  <2>12. JoinedBy(f, k) = {k.id, f.lines[n].id} \ {0}
    BY <1>3, <2>3 DEF JoinedBy
  <2>13. n \in DOMAIN f.lines /\ f.lines[n] \in Line
    BY <1>1, <2>1
  <2>14. \A y \in Entries(f) : y \in Entries(x) \/ y.id \in JoinedBy(f, k)
    <3>. SUFFICES ASSUME NEW y \in Entries(f), y \notin Entries(x)
                  PROVE  y.id \in JoinedBy(f, k)
      OBVIOUS
    <3>1. PICK i \in DOMAIN f.lines : f.lines[i] = y /\ y.whole
      BY EntryPlaces
    <3>2. i = n
      BY <1>1, <2>7, <2>8, <2>9, <3>1, EntryPlaces
    <3>3. y.id \in Records /\ y.id # 0
      BY <3>1 DEF FileOK, Records
    <3>. QED
      BY <2>12, <3>1, <3>2, <3>3
  <2>15. f.lines[n].id \in Records \cup {0}
    BY <2>13 DEF Line
  <2>. QED
    BY <2>10, <2>11, <2>12, <2>14, <2>15 DEF x
<1>. QED
  BY <1>1, <1>2, <1>3
-----------------------------------------------------------------------------
(* The operations.                                                         *)

Moved(p, phase, at) ==
    /\ op' \in [Ops -> OpState]
    /\ op'[p].phase = phase /\ op'[p].at = at
    /\ \A q \in Ops : q # p => op'[q] = op[q]

LEMMA OpsNumbers ==
    /\ Records \subseteq Ops /\ Ticker \in Ops /\ Ticker \notin Records
    /\ NoOne \notin Ops /\ 0 \notin Records /\ \A p \in Ops : p \in Nat
BY DEF Records, Ops, Ticker, NoOne

LEMMA GotoOK ==
    ASSUME TypeOK, NEW p \in Ops, NEW phase \in Phases, Goto(p, phase)
    PROVE  Moved(p, phase, op[p].at)
BY DEF TypeOK, Goto, Moved, OpState

LEMMA FinishOK ==
    ASSUME TypeOK, NEW p \in Ops, Finish(p)
    PROVE  /\ Moved(p, op'[p].phase, 0)
           /\ op'[p].phase = IF p \in Records THEN "done" ELSE "idle"
<1>. DEFINE t == IF p \in Records THEN Done ELSE Idle
<1>1. t \in OpState /\ t.at = 0 /\ t.phase = IF p \in Records THEN "done" ELSE "idle"
  BY DEF Done, Idle, OpState, Phases
<1>2. op' = [op EXCEPT ![p] = t]
  BY DEF Finish
<1>. HIDE DEF t
<1>3. op' \in [Ops -> OpState] /\ op'[p] = t /\ \A q \in Ops : q # p => op'[q] = op[q]
  BY <1>1, <1>2 DEF TypeOK
<1>. QED
  BY <1>1, <1>3 DEF Moved

(* The parts of TypeOK.                                                    *)
SimpleTypes ==
    /\ now \in 0..MaxTime
    /\ op \in [Ops -> OpState]
    /\ acked \subseteq [id : Records, at : 0..MaxTime] /\ spoiled \subseteq Records
    /\ store \in {"starting", "on", "off"}
    /\ starts \in 1..MaxStarts
MutexOK ==
    /\ mu \in Ops \cup {NoOne}
    /\ \A p \in Ops : (mu = p) <=> op[p].phase \in {"clean", "append"}
PlacesOK ==
    \A d, e \in Days : \A l \in Entries(file[d]), k \in Entries(file[e]) :
      l.id = k.id => d = e

LEMMA TypeParts ==
    /\ TypeOK => SimpleTypes /\ MutexOK /\ PlacesOK
    /\ (TypeOK => SimpleTypes /\ MutexOK /\ PlacesOK)'
BY DEF TypeOK, SimpleTypes, MutexOK, PlacesOK

LEMMA OneLine ==
    ASSUME NEW f, NEW d, FileOK(f, d)
    PROVE  /\ \A l, k \in Entries(f) : l.id = k.id => l = k
           /\ f \in File /\ (f.open => f.lines # <<>>)
<1>. SUFFICES ASSUME NEW l \in Entries(f), NEW k \in Entries(f), l.id = k.id PROVE l = k
  BY DEF FileOK
<1>1. PICK i \in DOMAIN f.lines : f.lines[i] = l /\ l.whole
  BY EntryPlaces
<1>2. PICK j \in DOMAIN f.lines : f.lines[j] = k /\ k.whole
  BY EntryPlaces
<1>3. i = j
  BY <1>1, <1>2 DEF FileOK
<1>. QED
  BY <1>1, <1>2, <1>3

LEMMA TypeFromParts ==
    ASSUME SimpleTypes', MutexOK', PlacesOK', FilesOK', file' = [d \in Days |-> file'[d]]
    PROVE  TypeOK'
<1>1. file' \in [Days -> File] /\ \A d \in Days : file'[d].open => file'[d].lines # <<>>
  BY OneLine DEF FilesOK
<1>2. \A d, e \in Days : \A l \in Entries(file'[d]), k \in Entries(file'[e]) :
        l.id = k.id => d = e /\ l = k
  BY OneLine DEF PlacesOK, FilesOK
<1>. QED
  BY <1>1, <1>2 DEF TypeOK, SimpleTypes, MutexOK

(* A step that leaves the files alone.                                     *)
LEMMA SameDisk ==
    ASSUME IInv, UNCHANGED disk, SimpleTypes', MutexOK', OpsOK', now <= now',
           \A p \in Records : op[p].phase = "done" => op'[p].phase = "done"
    PROVE  IInv'
<1>1. file' = file /\ acked' = acked /\ spoiled' = spoiled
  BY DEF disk
<1>2. FilesOK' /\ PlacesOK'
  BY <1>1, TypeParts DEF IInv, FilesOK, PlacesOK
<1>3. WrittenOK'
  <2>. SUFFICES ASSUME NEW d \in Days, NEW l \in Entries(file[d]) PROVE op'[l.id].phase = "done"
    BY <1>1 DEF WrittenOK
  <2>1. PICK i \in DOMAIN file[d].lines : file[d].lines[i] = l /\ l.whole
    BY EntryPlaces
  <2>2. l.id \in Records
    BY <2>1 DEF IInv, FilesOK, FileOK
  <2>. QED
    BY <2>2 DEF IInv, WrittenOK
<1>4. AckedOK'
  <2>1. \A a \in acked : Expired(a, now) => Expired(a, now')
    <3>. SUFFICES ASSUME NEW a \in acked, a.at + Retention < now PROVE a.at + Retention < now'
      BY DEF Expired
    <3>1. a.at \in Nat /\ now \in Nat /\ now' \in Nat
      BY TypeParts DEF IInv, SimpleTypes
    <3>. QED
      BY <3>1
  <2>. QED
    BY <1>1, <2>1 DEF IInv, AckedOK
<1>5. file' = [d \in Days |-> file'[d]]
  BY <1>1 DEF IInv, TypeOK
<1>6. TypeOK'
  BY <1>2, <1>5, TypeFromParts
<1>. QED
  BY <1>2, <1>3, <1>4, <1>6 DEF IInv

(* A step that replaces the file of one day, of which at most the line of  *)
(* an operation that ends is new.                                          *)
LEMMA NewFile ==
    ASSUME IInv, NEW d \in Days, NEW f, FileOK(f, d), file' = [file EXCEPT ![d] = f],
           SimpleTypes', MutexOK', OpsOK', now' = now,
           \A p \in Records : op[p].phase = "done" => op'[p].phase = "done",
           \A l \in Entries(f) : \/ l \in Entries(file[d])
                                 \/ op[l.id].phase # "done" /\ op'[l.id].phase = "done",
           spoiled \subseteq spoiled',
           \A a \in acked : \/ a.id \in spoiled'
                            \/ Expired(a, now)
                            \/ Found(a, file[d]) => Found(a, f),
           \A a \in acked' \ acked : a.id \in spoiled' \/ Found(a, f)
    PROVE  IInv'
<1>1. file' \in [Days -> File] /\ file'[d] = f /\ \A e \in Days : e # d => file'[e] = file[e]
  BY DEF IInv, TypeOK, FileOK
<1>2. FilesOK'
  BY <1>1 DEF IInv, FilesOK
<1>3. WrittenOK'
  <2>. SUFFICES ASSUME NEW e \in Days, NEW l \in Entries(file[e])
                PROVE  op'[l.id].phase = "done"
    BY <1>1 DEF WrittenOK
  <2>1. PICK i \in DOMAIN file[e].lines : file[e].lines[i] = l /\ l.whole
    BY EntryPlaces
  <2>2. l.id \in Records
    BY <2>1 DEF IInv, FilesOK, FileOK
  <2>. QED
    BY <2>2 DEF IInv, WrittenOK
<1>4. PlacesOK'
  <2>. SUFFICES ASSUME NEW a \in Days, NEW b \in Days, NEW l \in Entries(file'[a]),
                       NEW k \in Entries(file'[b]), l.id = k.id
                PROVE  a = b
    BY DEF PlacesOK
  <2>1. \A e \in Days : \A x \in Entries(file'[e]) :
          x \in Entries(file[e]) \/ (e = d /\ op[x.id].phase # "done")
    BY <1>1
  <2>2. \A e \in Days : \A x \in Entries(file[e]) : op[x.id].phase = "done"
    BY DEF IInv, WrittenOK
  <2>3. PlacesOK
    BY TypeParts DEF IInv
  <2>. QED
    BY <2>1, <2>2, <2>3 DEF PlacesOK
<1>5. AckedOK'
  <2>. SUFFICES ASSUME NEW a \in acked', a.id \notin spoiled', ~Expired(a, now')
                PROVE  \E e \in Days : Found(a, file'[e])
    BY DEF AckedOK, Found
  <2>1. CASE a \in acked
    <3>1. PICK e \in Days : Found(a, file[e])
      BY <2>1 DEF IInv, AckedOK
    <3>. QED
      BY <1>1, <2>1, <3>1
  <2>2. CASE a \notin acked
    BY <1>1, <2>2
  <2>. QED
    BY <2>1, <2>2
<1>6. file' = [e \in Days |-> file'[e]]
  BY <1>1
<1>7. TypeOK'
  BY <1>2, <1>4, <1>6, TypeFromParts
<1>. QED
  BY <1>2, <1>3, <1>5, <1>7 DEF IInv

(* Who holds the mutex after a step of one operation. *)
LEMMA MutexKept ==
    ASSUME TypeOK, NEW p \in Ops, NEW phase, NEW at, Moved(p, phase, at),
           \/ /\ mu' = mu
              /\ (phase \in {"clean", "append"} <=> op[p].phase \in {"clean", "append"})
           \/ mu' = NoOne /\ op[p].phase \in {"clean", "append"} /\ phase \notin {"clean", "append"}
           \/ mu' = p /\ mu = NoOne /\ phase \in {"clean", "append"}
    PROVE  MutexOK'
BY TypeParts, OpsNumbers DEF Moved, MutexOK

LEMMA MovedOps ==
    ASSUME IInv, NEW p \in Ops, NEW phase, NEW at \in Nat, Moved(p, phase, at),
           at <= now, now' = now, p = Ticker => phase # "append"
    PROVE  /\ OpsOK'
           /\ op[p].phase # "done" =>
                \A q \in Records : op[q].phase = "done" => op'[q].phase = "done"
BY OpsNumbers DEF IInv, OpsOK, Moved, At

LEMMA BeginKeeps ==
    ASSUME IInv, NEW p \in Ops, Begin(p)
    PROVE  IInv'
<1>. DEFINE t == [phase |-> "lock", at |-> now]
<1>1. SimpleTypes /\ now \in Nat
  BY TypeParts DEF IInv, SimpleTypes
<1>2. t \in OpState /\ t.phase = "lock" /\ t.at = now
  BY <1>1 DEF OpState, Phases
<1>3. op' = [op EXCEPT ![p] = t] /\ op[p].phase = "idle" /\ UNCHANGED <<now, mu, disk, store, starts>>
  BY DEF Begin, At
<1>. HIDE DEF t
<1>4. Moved(p, "lock", now)
  BY <1>1, <1>2, <1>3 DEF SimpleTypes, Moved
<1>5. SimpleTypes'
  BY <1>1, <1>3, <1>4 DEF SimpleTypes, Moved, disk
<1>6. MutexOK'
  BY <1>3, <1>4, MutexKept DEF IInv
<1>7. OpsOK' /\ \A q \in Records : op[q].phase = "done" => op'[q].phase = "done"
  BY <1>1, <1>3, <1>4, MovedOps
<1>. QED
  BY <1>1, <1>3, <1>5, <1>6, <1>7, SameDisk

LEMMA OpTyped ==
    ASSUME IInv, NEW p \in Ops
    PROVE  /\ SimpleTypes /\ now \in Nat /\ now <= MaxTime
           /\ op[p].at \in Nat /\ op[p].at <= now /\ op[p] \in OpState
BY TypeParts DEF IInv, OpsOK, SimpleTypes, OpState

LEMMA LockKeeps ==
    ASSUME IInv, NEW p \in Ops, Lock(p)
    PROVE  IInv'
<1>1. /\ op[p].phase = "lock" /\ mu = NoOne /\ mu' = p /\ Goto(p, "clean")
      /\ UNCHANGED <<now, disk, store, starts>>
  BY DEF Lock, At
<1>2. Moved(p, "clean", op[p].at)
  BY <1>1, GotoOK DEF IInv, Phases
<1>3. SimpleTypes'
  BY <1>1, <1>2, OpTyped DEF SimpleTypes, Moved, disk
<1>4. MutexOK'
  BY <1>1, <1>2, MutexKept DEF IInv
<1>5. OpsOK' /\ \A q \in Records : op[q].phase = "done" => op'[q].phase = "done"
  BY <1>1, <1>2, OpTyped, MovedOps
<1>. QED
  BY <1>1, <1>3, <1>4, <1>5, OpTyped, SameDisk

(* An operation with the mutex ends without having written.                *)
LEMMA EndsKeeps ==
    ASSUME IInv, NEW p \in Ops, op[p].phase \in {"clean", "append"},
           Finish(p), mu' = NoOne, UNCHANGED <<now, disk, starts>>,
           store' \in {"starting", "on", "off"}
    PROVE  IInv'
<1>1. Moved(p, op'[p].phase, 0) /\ op'[p].phase \in {"done", "idle"}
  BY FinishOK DEF IInv
<1>2. SimpleTypes'
  BY <1>1, OpTyped DEF SimpleTypes, Moved, disk
<1>3. MutexOK'
  BY <1>1, MutexKept DEF IInv
<1>4. OpsOK' /\ \A q \in Records : op[q].phase = "done" => op'[q].phase = "done"
  BY <1>1, OpTyped, MovedOps
<1>. QED
  BY <1>2, <1>3, <1>4, OpTyped, SameDisk

LEMMA CleanDoneKeeps ==
    ASSUME IInv, NEW p \in Ops, CleanDone(p)
    PROVE  IInv'
<1>1. /\ op[p].phase = "clean" /\ UNCHANGED <<now, disk, starts>>
      /\ store' \in {"starting", "on", "off"}
  BY OpTyped DEF CleanDone, At, SimpleTypes
<1>2. CASE p \in Records
  <2>1. Goto(p, "append") /\ mu' = mu
    BY <1>2 DEF CleanDone
  <2>2. Moved(p, "append", op[p].at)
    BY <2>1, GotoOK DEF IInv, Phases
  <2>3. SimpleTypes'
    BY <1>1, <2>2, OpTyped DEF SimpleTypes, Moved, disk
  <2>4. MutexOK'
    BY <1>1, <2>1, <2>2, MutexKept DEF IInv
  <2>5. OpsOK' /\ \A q \in Records : op[q].phase = "done" => op'[q].phase = "done"
    BY <1>1, <1>2, <2>2, OpTyped, OpsNumbers, MovedOps
  <2>. QED
    BY <1>1, <2>3, <2>4, <2>5, OpTyped, SameDisk
<1>3. CASE p \notin Records
  <2>1. Finish(p) /\ mu' = NoOne
    BY <1>3 DEF CleanDone
  <2>. QED
    BY <1>1, <2>1, EndsKeeps
<1>. QED
  BY <1>2, <1>3

LEMMA CleanFailsKeeps ==
    ASSUME IInv, NEW p \in Ops, CleanFails(p)
    PROVE  IInv'
<1>1. /\ op[p].phase = "clean" /\ UNCHANGED <<now, disk, starts>> /\ Finish(p) /\ mu' = NoOne
      /\ store' \in {"starting", "on", "off"}
  BY OpTyped DEF CleanFails, At, SimpleTypes
<1>. QED
  BY <1>1, EndsKeeps

LEMMA CleanFileKeeps ==
    ASSUME IInv, NEW p \in Ops, CleanFile(p)
    PROVE  IInv'
<1>. DEFINE t == op[p].at
            S == Stale(t)
            d == CHOOSE x \in S : \A e \in S : x <= e
<1>1. /\ S # {} /\ file' = [file EXCEPT ![d] = Rewritten(@, t)]
      /\ UNCHANGED <<now, mu, op, acked, spoiled, store, starts>>
  BY DEF CleanFile
<1>2. d \in Days
  <2>1. S \subseteq Nat /\ S \subseteq Days
    BY DEF Stale, Days
  <2>. HIDE DEF S
  <2>2. PICK n \in S : \A m \in S : n <= m
    BY <1>1, <2>1, LeastNat
  <2>. QED
    BY <2>1, <2>2
<1>. HIDE DEF d, S
<1>. DEFINE f == Rewritten(file[d], t)
<1>3. t \in Nat /\ t <= now /\ now \in Nat /\ FileOK(file[d], d)
  BY <1>2, OpTyped DEF IInv, FilesOK
<1>4. FileOK(f, d) /\ Entries(f) = {l \in Entries(file[d]) : ~Expired(l, t)}
  BY <1>3, RewrittenOK
<1>5. file' = [file EXCEPT ![d] = f]
  BY <1>1, <1>2 DEF IInv, TypeOK
<1>6. SimpleTypes' /\ MutexOK' /\ OpsOK'
  BY <1>1, TypeParts DEF IInv, SimpleTypes, MutexOK, OpsOK, At
<1>. HIDE DEF f
<1>7. ASSUME NEW a \in acked
      PROVE  \/ a.id \in spoiled'
             \/ Expired(a, now)
             \/ Found(a, file[d]) => Found(a, f)
  <2>. SUFFICES ASSUME NEW l \in Entries(file[d]), l.id = a.id, l.at = a.at, Expired(l, t)
                PROVE  Expired(a, now)
    BY <1>4 DEF Found
  <2>1. a.at \in Nat /\ a.at + Retention < t
    BY OpTyped DEF Expired, SimpleTypes
  <2>. QED
    BY <1>3, <2>1 DEF Expired
<1>. QED
  BY <1>1, <1>2, <1>4, <1>5, <1>6, <1>7, NewFile

(* An operation writes a line, whole or not, and ends. *)
LEMMA WriteKeeps ==
    ASSUME IInv, NEW p \in Ops, At(p, "append"), NEW l, NEW open \in BOOLEAN,
           l \in {LineOf(p), Damaged}, WriteLine(p, l, open),
           Finish(p), mu' = NoOne, UNCHANGED <<now, store, starts>>,
           \/ acked' = acked
           \/ acked' = acked \cup {[id |-> p, at |-> op[p].at]} /\ l = LineOf(p)
    PROVE  IInv'
<1>1. p \in Records /\ p # 0 /\ op[p].phase = "append"
  BY OpsNumbers DEF IInv, OpsOK, Ops, At, Ticker, Records
<1>2. Moved(p, "done", 0) /\ op'[p].phase = "done"
  BY <1>1, FinishOK DEF IInv, Moved
<1>. DEFINE t == op[p].at
            d == DayOf(t)
            j == JoinedBy(file[d], LineOf(p))
            f == Extended(file[d], l, open)
<1>3. /\ SimpleTypes /\ now \in Nat /\ now <= MaxTime /\ t \in Nat /\ t <= now /\ t \in 0..MaxTime
  BY OpTyped
<1>4. d \in Days /\ FileOK(file[d], d)
  BY <1>3, DayOK DEF IInv, FilesOK
<1>5. /\ file' = [file EXCEPT ![d] = f] /\ spoiled' = spoiled \cup j
  BY <1>4 DEF WriteLine, IInv, TypeOK
<1>6. LineOf(p).id = p /\ LineOf(p).at = t /\ LineOf(p).whole /\ LineOf(p) \in Line
  BY <1>1, <1>3 DEF LineOf, Line
<1>7. Damaged \in Line /\ Damaged.whole = FALSE
  BY DEF Damaged, Line
<1>8. \A x \in Entries(file[d]) : x.id # p
  BY <1>1, <1>4 DEF IInv, WrittenOK
<1>9. l \in Line /\ (l.whole => l = LineOf(p))
  BY <1>6, <1>7
<1>. HIDE DEF t
<1>10. /\ FileOK(f, d)
       /\ \A x \in Entries(f) : x \in Entries(file[d]) \/ (x = l /\ l.whole)
       /\ \A x \in Entries(file[d]) : x \in Entries(f) \/ x.id \in j
       /\ j \subseteq {p} \cup Records \cup {0} /\ 0 \notin j
       /\ l.whole => l \in Entries(f) \/ p \in j \cup {0}
  <2>. DEFINE g == file[d]
              k == LineOf(p)
  <2>1. l.whole => l.id \in Records /\ DayOf(l.at) = d /\ \A x \in Entries(g) : x.id # l.id
    BY <1>1, <1>6, <1>8, <1>9
  <2>2. FileOK(g, d)
    BY <1>4
  <2>. HIDE DEF g, d, k
  <2>3. /\ FileOK(Extended(g, l, open), d)
        /\ \A x \in Entries(Extended(g, l, open)) : x \in Entries(g) \/ (x = l /\ l.whole)
        /\ \A x \in Entries(g) : x \in Entries(Extended(g, l, open)) \/ x.id \in JoinedBy(g, k)
        /\ JoinedBy(g, k) \subseteq {k.id} \cup Records \cup {0}
        /\ 0 \notin JoinedBy(g, k)
        /\ l.whole => l \in Entries(Extended(g, l, open)) \/ k.id \in JoinedBy(g, k) \cup {0}
    BY <1>9, <2>1, <2>2, ExtendedOK
  <2>4. k.id = p
    BY <1>6 DEF k
  <2>. QED
    BY <2>3, <2>4 DEF g, k
<1>. HIDE DEF f, j, d
<1>11. SimpleTypes'
  <2>1. spoiled' \subseteq Records
    BY <1>1, <1>3, <1>5, <1>10 DEF SimpleTypes
  <2>2. [id |-> p, at |-> t] \in [id : Records, at : 0..MaxTime]
    BY <1>1, <1>3
  <2>3. acked' \subseteq [id : Records, at : 0..MaxTime]
    BY <1>3, <2>2 DEF SimpleTypes, t
  <2>. QED
    BY <1>2, <1>3, <2>1, <2>3 DEF SimpleTypes, Moved
<1>12. MutexOK'
  BY <1>1, <1>2, MutexKept DEF IInv
<1>13. OpsOK' /\ \A q \in Records : op[q].phase = "done" => op'[q].phase = "done"
  BY <1>1, <1>2, <1>3, OpsNumbers, MovedOps
<1>14. \A x \in Entries(f) : \/ x \in Entries(file[d])
                             \/ op[x.id].phase # "done" /\ op'[x.id].phase = "done"
  BY <1>1, <1>2, <1>6, <1>9, <1>10
<1>15. \A a \in acked : \/ a.id \in spoiled'
                        \/ Expired(a, now)
                        \/ Found(a, file[d]) => Found(a, f)
  BY <1>5, <1>10 DEF Found
<1>16. \A a \in acked' \ acked : a.id \in spoiled' \/ Found(a, f)
  <2>. SUFFICES ASSUME NEW a \in acked', a \notin acked, a.id \notin spoiled'
                PROVE  Found(a, f)
    OBVIOUS
  <2>1. a = [id |-> p, at |-> t] /\ l = LineOf(p)
    BY DEF t
  <2>2. a.id = p /\ a.at = t
    BY <2>1
  <2>3. l \in Entries(f) /\ l.id = p /\ l.at = t
    BY <1>1, <1>5, <1>6, <1>10, <2>1, <2>2
  <2>. QED
    BY <2>2, <2>3 DEF Found
<1>. QED
  BY <1>4, <1>5, <1>10, <1>11, <1>12, <1>13, <1>14, <1>15, <1>16, NewFile

LEMMA AppendLineKeeps ==
    ASSUME IInv, NEW p \in Ops, AppendLine(p)
    PROVE  IInv'
BY WriteKeeps DEF AppendLine

LEMMA AppendFailsKeeps ==
    ASSUME IInv, NEW p \in Ops, AppendFails(p)
    PROVE  IInv'
<1>1. /\ At(p, "append") /\ op[p].phase = "append" /\ Finish(p) /\ mu' = NoOne
      /\ UNCHANGED <<now, store, starts>> /\ store' \in {"starting", "on", "off"}
  BY OpTyped DEF AppendFails, At, SimpleTypes
<1>2. CASE UNCHANGED disk
  BY <1>1, <1>2, EndsKeeps
<1>3. ASSUME NEW l \in {LineOf(p), Damaged}, NEW open \in BOOLEAN,
             WriteLine(p, l, open) /\ UNCHANGED acked
      PROVE  IInv'
  BY <1>1, <1>3, WriteKeeps
<1>. QED
  BY <1>2, <1>3 DEF AppendFails

LEMMA RestartKeeps ==
    ASSUME IInv, Restart
    PROVE  IInv'
<1>1. /\ starts' \in 1..MaxStarts /\ mu' = NoOne /\ store' = "starting" /\ UNCHANGED <<now, disk>>
  BY TypeParts DEF IInv, Restart, SimpleTypes
<1>2. Idle \in OpState /\ Idle.at = 0 /\ Idle.phase = "idle"
  BY DEF Idle, OpState, Phases
<1>3. Done \in OpState /\ Done.at = 0 /\ Done.phase = "done"
  BY DEF Done, OpState, Phases
<1>4. op' = [p \in Ops |-> IF At(p, "idle") \/ p \notin Records THEN Idle ELSE Done]
  BY DEF Restart
<1>5. /\ op' \in [Ops -> OpState]
      /\ \A p \in Ops : op'[p].at = 0 /\ op'[p].phase \in {"idle", "done"}
      /\ \A p \in Records : op[p].phase = "done" => op'[p].phase = "done"
  BY <1>2, <1>3, <1>4, OpsNumbers DEF At
<1>6. SimpleTypes'
  BY <1>1, <1>5, TypeParts DEF IInv, SimpleTypes, disk
<1>7. MutexOK'
  BY <1>1, <1>5, OpsNumbers DEF MutexOK
<1>8. now \in Nat /\ now' = now
  BY <1>1, TypeParts DEF IInv, SimpleTypes
<1>9. OpsOK'
  BY <1>5, <1>8, OpsNumbers DEF OpsOK, At
<1>. QED
  BY <1>1, <1>5, <1>6, <1>7, <1>8, <1>9, SameDisk

LEMMA TickKeeps ==
    ASSUME IInv, Tick
    PROVE  IInv'
<1>1. SimpleTypes /\ now \in Nat /\ now' = now + 1 /\ now' \in 0..MaxTime
  BY TypeParts DEF IInv, SimpleTypes, Tick
<1>2. UNCHANGED <<mu, op, disk, store, starts>>
  BY DEF Tick
<1>3. SimpleTypes' /\ MutexOK'
  BY <1>1, <1>2, TypeParts DEF IInv, SimpleTypes, MutexOK, disk
<1>4. OpsOK'
  <2>1. \A p \in Ops : op[p].at \in Nat /\ op[p].at <= now
    BY OpTyped
  <2>. QED
    BY <1>1, <1>2, <2>1 DEF OpsOK, IInv, At
<1>. QED
  BY <1>1, <1>2, <1>3, <1>4, SameDisk

LEMMA InitOK == Init => IInv
<1>. SUFFICES ASSUME Init PROVE IInv
  OBVIOUS
<1>1. NoFile \in File /\ NoFile.open = FALSE /\ NoFile.lines = <<>>
  BY DEF NoFile, File
<1>2. Idle \in OpState /\ Idle.at = 0 /\ Idle.phase = "idle"
  BY DEF Idle, OpState, Phases
<1>3. file = [d \in Days |-> NoFile] /\ op = [p \in Ops |-> Idle] /\ acked = {} /\ now = 0
  BY DEF Init
<1>4. \A d \in Days : FileOK(file[d], d) /\ Entries(file[d]) = {}
  <2>1. DOMAIN NoFile.lines = {}
    BY <1>1
  <2>2. FileOK(NoFile, 0) /\ \A d : FileOK(NoFile, d)
    BY <1>1, <2>1 DEF FileOK
  <2>3. Entries(NoFile) = {}
    BY <2>1, EntryPlaces
  <2>. QED
    BY <1>3, <2>2, <2>3
<1>5. \A p \in Ops : op[p] = Idle
  BY <1>3
<1>6. TypeOK
  <2>1. file \in [Days -> File] /\ op \in [Ops -> OpState]
    BY <1>1, <1>2, <1>3
  <2>2. \A p \in Ops : (mu = p) <=> op[p].phase \in {"clean", "append"}
    BY <1>2, <1>5, OpsNumbers DEF Init
  <2>3. \A d \in Days : file[d].open => file[d].lines # <<>>
    BY <1>1, <1>3
  <2>. QED
    BY <1>4, <2>1, <2>2, <2>3 DEF TypeOK, Init
<1>7. FilesOK /\ WrittenOK /\ OpsOK /\ AckedOK
  BY <1>2, <1>3, <1>4, <1>5, OpsNumbers DEF FilesOK, WrittenOK, OpsOK, AckedOK, At
<1>. QED
  BY <1>6, <1>7 DEF IInv

LEMMA StepOK == IInv /\ [Next]_vars => IInv'
<1>. SUFFICES ASSUME IInv, [Next]_vars PROVE IInv'
  OBVIOUS
<1>1. ASSUME NEW p \in Ops, Step(p) PROVE IInv'
  BY <1>1, BeginKeeps, LockKeeps, CleanFileKeeps, CleanDoneKeeps, CleanFailsKeeps,
     AppendLineKeeps, AppendFailsKeeps DEF Step
<1>2. CASE Restart
  BY <1>2, RestartKeeps
<1>3. CASE Tick
  BY <1>3, TickKeeps
<1>4. CASE UNCHANGED vars
  <2>1. UNCHANGED <<now, disk, mu, op, store, starts>>
    BY <1>4 DEF vars, disk
  <2>2. SimpleTypes' /\ MutexOK' /\ OpsOK' /\ now \in Nat
    BY <2>1, TypeParts DEF IInv, SimpleTypes, MutexOK, OpsOK, At, disk
  <2>. QED
    BY <2>1, <2>2, SameDisk
<1>. QED
  BY <1>1, <1>2, <1>3, <1>4 DEF Next

(* The invariant holds in every state. *)
THEOREM Invariance == Spec => []IInv
BY InitOK, StepOK, PTL DEF Spec

(* Every variable keeps its type, the mutex is held by whom the phases     *)
(* say, and a record has one line at most.                                 *)
THEOREM TypeCorrect == Spec => []TypeOK
<1>1. IInv => TypeOK
  BY DEF IInv
<1>. QED
  BY <1>1, Invariance, PTL
-----------------------------------------------------------------------------
(* The listing.                                                            *)

LEMMA PlacesAre ==
    /\ \A x : x \in Places <=> \E d \in Days : \E i \in DOMAIN file[d].lines : x = <<d, i>>
    /\ TypeOK => IsFiniteSet(Places)
<1>1. \A x : x \in Places <=> \E d \in Days : \E i \in DOMAIN file[d].lines : x = <<d, i>>
  BY DEF Places
<1>2. ASSUME TypeOK PROVE IsFiniteSet(Places)
  <2>. DEFINE Of(d) == {d} \X DOMAIN file[d].lines
              T == {Of(d) : d \in Days}
              g == [d \in Days |-> Of(d)]
  <2>1. IsFiniteSet(Days)
    <3>1. 0 \in Int /\ DayOf(MaxTime) \in Int
      BY DayOK DEF Days
    <3>. QED
      BY <3>1, FS_Interval DEF Days
  <2>2. ASSUME NEW d \in Days PROVE IsFiniteSet(Of(d))
    <3>1. Len(file[d].lines) \in Nat /\ DOMAIN file[d].lines = 1..Len(file[d].lines)
      BY <1>2 DEF TypeOK, File
    <3>. DEFINE n == Len(file[d].lines)
    <3>2. 1 \in Int /\ n \in Int
      BY <3>1
    <3>. HIDE DEF n
    <3>3. IsFiniteSet(1..n)
      BY <3>2, FS_Interval
    <3>4. IsFiniteSet({d} \X (1..n))
      BY <3>3, FS_Singleton, FS_Product
    <3>. QED
      BY <3>1, <3>4 DEF n
  <2>3. g \in Surjection(Days, T)
    BY DEF Surjection
  <2>4. IsFiniteSet(T)
    <3>. HIDE DEF T, g
    <3>. QED
      BY <2>1, <2>3, FS_Surjection
  <2>5. \A t \in T : IsFiniteSet(t)
    BY <2>2
  <2>6. Places = UNION T
    BY DEF Places
  <2>. HIDE DEF T
  <2>. QED
    BY <2>4, <2>5, <2>6, FS_UNION
<1>. QED
  BY <1>1, <1>2

(* A place in the listing is the place of a line of its day. *)
LEMMA RetainedAre ==
    ASSUME IInv, NEW x \in Retained
    PROVE  \E d \in Days : \E i \in DOMAIN file[d].lines :
             /\ x = <<d, i>> /\ x[1] = d /\ x[2] = i /\ i \in Nat
             /\ LineAt(x) = file[d].lines[i] /\ LineAt(x) \in Line
             /\ LineAt(x).whole /\ LineAt(x).at \in Nat /\ DayOf(LineAt(x).at) = d
<1>1. PICK d \in Days : \E i \in DOMAIN file[d].lines : x = <<d, i>>
  BY PlacesAre DEF Retained
<1>2. PICK i \in DOMAIN file[d].lines : x = <<d, i>>
  BY <1>1
<1>3. FileOK(file[d], d) /\ file[d].lines \in Seq(Line)
  BY DEF IInv, FilesOK, FileOK, File
<1>4. x[1] = d /\ x[2] = i /\ i \in Nat /\ LineAt(x) = file[d].lines[i]
  BY <1>2, <1>3 DEF LineAt
<1>5. LineAt(x) \in Line /\ LineAt(x).whole
  BY <1>3, <1>4 DEF Retained
<1>6. LineAt(x).at \in Nat /\ DayOf(LineAt(x).at) = d
  BY <1>3, <1>4, <1>5 DEF FileOK, Line
<1>. QED
  BY <1>2, <1>4, <1>5, <1>6

(* No line is listed twice. *)
LEMMA LineOnce ==
    ASSUME IInv, NEW x \in Retained, NEW y \in Retained, LineAt(x) = LineAt(y)
    PROVE  x = y
<1>. DEFINE Holds(z, d) == \E i \in DOMAIN file[d].lines :
              z = <<d, i>> /\ LineAt(z) = file[d].lines[i] /\ LineAt(z).whole /\ DayOf(LineAt(z).at) = d
<1>1. PICK d \in Days : Holds(x, d)
  BY RetainedAre
<1>2. PICK e \in Days : Holds(y, e)
  BY RetainedAre
<1>3. d = e
  BY <1>1, <1>2
<1>4. PICK i \in DOMAIN file[d].lines : x = <<d, i>> /\ LineAt(x) = file[d].lines[i] /\ LineAt(x).whole
  BY <1>1
<1>5. PICK j \in DOMAIN file[d].lines : y = <<d, j>> /\ LineAt(y) = file[d].lines[j]
  BY <1>2, <1>3
<1>6. i = j
  BY <1>4, <1>5 DEF IInv, FilesOK, FileOK
<1>. QED
  BY <1>4, <1>5, <1>6

InOrder == {r \in Retained \X Retained : Before(r[1], r[2])}

LEMMA InOrderOK ==
    ASSUME IInv
    PROVE  /\ IsFiniteSet(Retained) /\ IsOrder(InOrder, Retained)
           /\ \A x, y \in Retained : <<x, y>> \in InOrder <=> Before(x, y)
<1>1. \A x, y \in Retained : <<x, y>> \in InOrder <=> Before(x, y)
  BY DEF InOrder
<1>2. IsFiniteSet(Retained)
  <2>1. Retained \in SUBSET Places
    BY DEF Retained
  <2>. QED
    BY <2>1, PlacesAre, FS_Subset DEF IInv
<1>3. \A x \in Retained : LineAt(x).at \in Nat /\ x[2] \in Nat
  BY RetainedAre
<1>4. ASSUME NEW x \in Retained, NEW y \in Retained, x # y PROVE Before(x, y) \/ Before(y, x)
  <2>1. \A z \in Retained : z = <<z[1], z[2]>> /\ DayOf(LineAt(z).at) = z[1]
    <3>. SUFFICES ASSUME NEW z \in Retained PROVE z = <<z[1], z[2]>> /\ DayOf(LineAt(z).at) = z[1]
      OBVIOUS
    <3>1. PICK d \in Days : \E i \in DOMAIN file[d].lines :
            z = <<d, i>> /\ z[1] = d /\ z[2] = i /\ DayOf(LineAt(z).at) = d
      BY RetainedAre
    <3>. QED
      BY <3>1
  <2>2. LineAt(x).at = LineAt(y).at => x[1] = y[1]
    BY <2>1
  <2>3. LineAt(x).at = LineAt(y).at => x[2] # y[2]
    BY <1>4, <2>1, <2>2
  <2>. QED
    BY <1>3, <2>3 DEF Before
<1>5. \A x, y \in Retained : Before(x, y) => ~Before(y, x)
  BY <1>3 DEF Before
<1>6. \A x, y, z \in Retained : Before(x, y) /\ Before(y, z) => Before(x, z)
  BY <1>3 DEF Before
<1>7. IsOrder(InOrder, Retained)
  BY <1>1, <1>4, <1>5, <1>6 DEF IsOrder
<1>. QED
  BY <1>1, <1>2, <1>7

LEMMA ListingIs ==
    ASSUME IInv
    PROVE  Listing = {LineAt(x) : x \in First(InOrder, Retained, Limit)}
<1>1. \A y \in Retained : {z \in Retained : Before(z, y)} = Ahead(InOrder, Retained, y)
  BY InOrderOK DEF Ahead
<1>2. {y \in Retained : Cardinality({z \in Retained : Before(z, y)}) < Limit}
        = First(InOrder, Retained, Limit)
  BY <1>1 DEF First
<1>. QED
  BY <1>2, Zenon DEF Listing

LEMMA AcknowledgedFound ==
    ASSUME IInv, NEW a \in acked, a.id \notin spoiled, ~Expired(a, now)
    PROVE  \/ \E l \in Listing : l.id = a.id /\ l.at = a.at
           \/ Cardinality({l \in Listing : l.at >= a.at}) = Limit
<1>1. PICK d \in Days : \E l \in Entries(file[d]) : l.id = a.id /\ l.at = a.at
  BY DEF IInv, AckedOK, Found
<1>2. PICK l \in Entries(file[d]) : l.id = a.id /\ l.at = a.at
  BY <1>1
<1>3. PICK i \in DOMAIN file[d].lines : file[d].lines[i] = l /\ l.whole
  BY EntryPlaces
<1>. DEFINE x == <<d, i>>
            F == First(InOrder, Retained, Limit)
<1>4. x \in Retained /\ LineAt(x) = l
  <2>1. x \in Places /\ LineAt(x) = l
    BY <1>3, PlacesAre DEF LineAt
  <2>. QED
    BY <1>2, <1>3, <2>1 DEF Retained, Expired
<1>. HIDE DEF x
<1>5. CASE x \in F
  BY <1>2, <1>4, <1>5, ListingIs
<1>6. CASE x \notin F
  <2>1. Limit <= Cardinality(Ahead(InOrder, Retained, x))
    BY <1>4, <1>6, InOrderOK, AheadOK DEF First
  <2>2. Cardinality(F) = Limit
    BY <1>4, <2>1, InOrderOK, FirstFull
  <2>3. \A y \in F : LineAt(y).at >= a.at
    <3>. SUFFICES ASSUME NEW y \in F PROVE LineAt(y).at >= a.at
      OBVIOUS
    <3>1. y \in Retained
      BY DEF First
    <3>2. <<y, x>> \in InOrder
      BY <1>4, <2>1, InOrderOK, FirstAhead
    <3>3. Before(y, x)
      BY <1>4, <3>1, <3>2, InOrderOK
    <3>4. LineAt(y).at \in Nat /\ LineAt(x).at \in Nat
      BY <1>4, <3>1, RetainedAre
    <3>. QED
      BY <1>2, <1>4, <3>3, <3>4 DEF Before
  <2>. DEFINE g == [y \in F |-> LineAt(y)]
  <2>4. IsFiniteSet(F) /\ F \subseteq Retained
    BY InOrderOK, FS_Subset DEF First
  <2>5. g \in Injection(F, Listing)
    <3>1. \A y \in F : LineAt(y) \in Listing
      BY ListingIs
    <3>2. \A y, z \in F : LineAt(y) = LineAt(z) => y = z
      BY <2>4, LineOnce
    <3>. HIDE DEF F
    <3>. QED
      BY <3>1, <3>2 DEF Injection, IsInjective
  <2>6. g \in Surjection(F, Listing)
    BY ListingIs DEF Surjection
  <2>7. g \in Bijection(F, Listing)
    BY <2>5, <2>6 DEF Bijection
  <2>8. Cardinality(Listing) = Limit
    <3>. HIDE DEF F, g
    <3>1. ExistsBijection(F, Listing)
      BY <2>7 DEF ExistsBijection
    <3>. QED
      BY <2>2, <2>4, <3>1, FS_Bijection
  <2>9. {k \in Listing : k.at >= a.at} = Listing
    BY <2>3, ListingIs
  <2>. QED
    BY <2>8, <2>9
<1>. QED
  BY <1>5, <1>6

(* An acknowledged record stays in the listing until it expires or as many *)
(* that are no older fill it, through torn writes, cleanings and restarts, *)
(* unless its own line was joined with another one.                        *)
THEOREM AcknowledgedStaysListed == Spec => []AcknowledgedListed
<1>1. IInv => AcknowledgedListed
  BY AcknowledgedFound DEF AcknowledgedListed
<1>. QED
  BY <1>1, Invariance, PTL
=============================================================================
