------------------------- MODULE MessageStoreProofs -------------------------
(***************************************************************************)
(* What the queries of MessageStore return, for every table of rows whose  *)
(* sequence numbers are naturals.                                          *)
(***************************************************************************)
EXTENDS MessageStore, FiniteSetTheorems, WellFoundedInduction,
        NaturalsInduction, TLAPS

(* A nonempty set of naturals has a least element. *)
LEMMA LeastNat ==
  ASSUME NEW S \in SUBSET Nat, S # {}
  PROVE  \E m \in S : \A x \in S : m <= x
<1>1. PICK m \in S : \A y \in S : ~ (<<y, m>> \in OpToRel(<, Nat))
  BY NatLessThanWellFounded, WFMin
<1>2. ASSUME NEW y \in S PROVE m <= y
  <2>1. ~ (y < m)
    BY <1>1 DEF OpToRel
  <2> QED
    BY <2>1
<1> QED
  BY <1>1, <1>2

(* A nonempty set of naturals with a bound has a greatest element. *)
LEMMA GreatestNat ==
  ASSUME NEW S \in SUBSET Nat, S # {}, NEW b \in Nat, \A x \in S : x <= b
  PROVE  \E m \in S : \A x \in S : x <= m
<1> DEFINE U == {n \in Nat : \A x \in S : x <= n}
<1>1. PICK m \in U : \A n \in U : m <= n
  <2>1. U \in SUBSET Nat /\ b \in U
    OBVIOUS
  <2> QED
    BY <2>1, LeastNat
<1>2. m \in S
  <2> SUFFICES ASSUME m \notin S PROVE FALSE
    OBVIOUS
  <2>1. \A x \in S : x \in Nat /\ x < m
    BY <1>1
  <2>2. m \in Nat /\ m - 1 \in Nat
    <3>1. PICK x \in S : TRUE
      OBVIOUS
    <3> QED
      BY <1>1, <2>1, <3>1
  <2>3. m - 1 \in U
    BY <2>1, <2>2
  <2> QED
    BY <1>1, <2>2, <2>3
<1> QED
  BY <1>1, <1>2

(* Saving a row leaves the table either as it was, holding a row the new one
   conflicts with, or with that one row more. *)
LEMMA InsertOrIgnoreCases ==
  ASSUME NEW db, NEW r
  PROVE  \/ InsertOrIgnore(db, r) = db \cup {r}
         \/ /\ InsertOrIgnore(db, r) = db
            /\ \E x \in db : Conflict(x, r)
  BY DEF InsertOrIgnore

(* The page is the beginning of what follows a: no row is skipped. *)
LEMMA PageIsPrefix ==
  ASSUME NEW db, IsFiniteSet(db), \A r \in db : r.seq \in Nat,
         NEW a \in Nat, NEW l \in Nat,
         NEW r \in GetSince(db, a, l),
         NEW x \in db, a < x.seq, x.seq < r.seq
  PROVE  x \in GetSince(db, a, l)
<1> DEFINE Below(y) == {z \in After(db, a) : z.seq < y.seq}
<1>0. r \in db
  BY DEF GetSince, After
<1>1. Below(x) \subseteq Below(r)
  BY <1>0 DEF After
<1>2. IsFiniteSet(Below(r))
  BY FS_Subset DEF After
<1>3. Cardinality(Below(x)) <= Cardinality(Below(r))
  BY <1>1, <1>2, FS_Subset
<1>4. Cardinality(Below(x)) \in Nat /\ Cardinality(Below(r)) \in Nat
  BY <1>1, <1>2, FS_Subset, FS_CardinalityType
<1>5. Cardinality(Below(r)) < l
  BY DEF GetSince
<1>6. Cardinality(Below(x)) < l
  BY <1>3, <1>4, <1>5
<1> QED
  BY <1>6 DEF GetSince, After

(* The rows below a row of the page. *)
LEMMA CountBelow ==
  ASSUME NEW db, IsFiniteSet(db), \A r \in db : r.seq \in Nat,
         NEW a \in Nat, NEW x \in After(db, a), NEW y \in After(db, a),
         x.seq < y.seq
  PROVE  LET Below(z) == {w \in After(db, a) : w.seq < z.seq} IN
         /\ Cardinality(Below(x)) \in Nat
         /\ Cardinality(Below(y)) \in Nat
         /\ Cardinality(Below(x)) < Cardinality(Below(y))
<1> DEFINE Below(z) == {w \in After(db, a) : w.seq < z.seq}
<1>1. IsFiniteSet(Below(x)) /\ IsFiniteSet(Below(y))
  BY FS_Subset DEF After
<1>2. x \notin Below(x) /\ Below(x) \cup {x} \subseteq Below(y)
  BY DEF After
<1>3. Cardinality(Below(x) \cup {x}) = Cardinality(Below(x)) + 1
  BY <1>1, <1>2, FS_AddElement
<1>4. Cardinality(Below(x) \cup {x}) <= Cardinality(Below(y))
  BY <1>1, <1>2, FS_Subset
<1>5. Cardinality(Below(x)) \in Nat /\ Cardinality(Below(y)) \in Nat
  BY <1>1, FS_CardinalityType
<1> QED
  BY <1>3, <1>4, <1>5

(* A page has no more rows than asked for. *)
LEMMA PageSize ==
  ASSUME NEW db, IsFiniteSet(db), \A r \in db : r.seq \in Nat,
         \A x, y \in db : x.seq = y.seq => x = y,
         NEW a \in Nat, NEW l \in Nat, l > 0
  PROVE  /\ IsFiniteSet(GetSince(db, a, l))
         /\ Cardinality(GetSince(db, a, l)) \in Nat
         /\ Cardinality(GetSince(db, a, l)) <= l
<1> DEFINE P == GetSince(db, a, l)
           Below(z) == {w \in After(db, a) : w.seq < z.seq}
           f == [z \in P |-> Cardinality(Below(z))]
<1>1. P \subseteq After(db, a) /\ After(db, a) \subseteq db
  BY DEF GetSince, After
<1>2. IsFiniteSet(P) /\ Cardinality(P) \in Nat
  BY <1>1, FS_Subset, FS_CardinalityType
<1>3. f \in [P -> 0..(l - 1)]
  <2> SUFFICES ASSUME NEW z \in P PROVE Cardinality(Below(z)) \in 0..(l - 1)
    OBVIOUS
  <2>1. Cardinality(Below(z)) < l
    BY DEF GetSince
  <2>2. Cardinality(Below(z)) \in Nat
    BY <1>1, FS_Subset, FS_CardinalityType
  <2> QED
    BY <2>1, <2>2
<1>4. ASSUME NEW x \in P, NEW y \in P, f[x] = f[y] PROVE x = y
  <2>1. x.seq \in Nat /\ y.seq \in Nat
    BY <1>1
  <2>2. ~ (x.seq < y.seq)
    <3> SUFFICES ASSUME x.seq < y.seq PROVE FALSE
      OBVIOUS
    <3>1. Cardinality(Below(x)) < Cardinality(Below(y))
          /\ Cardinality(Below(x)) \in Nat /\ Cardinality(Below(y)) \in Nat
      BY <1>1, CountBelow
    <3> QED
      BY <3>1, <1>4
  <2>3. ~ (y.seq < x.seq)
    <3> SUFFICES ASSUME y.seq < x.seq PROVE FALSE
      OBVIOUS
    <3>1. Cardinality(Below(y)) < Cardinality(Below(x))
          /\ Cardinality(Below(x)) \in Nat /\ Cardinality(Below(y)) \in Nat
      BY <1>1, CountBelow
    <3> QED
      BY <3>1, <1>4
  <2> QED
    BY <1>1, <2>1, <2>2, <2>3
<1>5. f \in Injection(P, 0..(l - 1))
  BY <1>3, <1>4 DEF Injection, IsInjective
<1>6. IsFiniteSet(0..(l - 1)) /\ Cardinality(0..(l - 1)) = l
  BY FS_Interval
<1>7. Cardinality(P) <= Cardinality(0..(l - 1))
  BY <1>5, <1>6, FS_Injection
<1> QED
  BY <1>2, <1>6, <1>7

(* A page with fewer rows than asked for is all that follows a. *)
LEMMA ShortPageIsLast ==
  ASSUME NEW db, IsFiniteSet(db), \A r \in db : r.seq \in Nat,
         \A x, y \in db : x.seq = y.seq => x = y,
         NEW a \in Nat, NEW l \in Nat, l > 0,
         Cardinality(GetSince(db, a, l)) # l
  PROVE  GetSince(db, a, l) = After(db, a)
<1> DEFINE P == GetSince(db, a, l)
           Rest == After(db, a) \ P
           Below(z) == {w \in After(db, a) : w.seq < z.seq}
<1>1. P \subseteq After(db, a) /\ After(db, a) \subseteq db
  BY DEF GetSince, After
<1>2. IsFiniteSet(P) /\ Cardinality(P) \in Nat /\ Cardinality(P) < l
  <2>1. IsFiniteSet(P) /\ Cardinality(P) \in Nat /\ Cardinality(P) <= l
    BY PageSize
  <2> HIDE DEF P
  <2>2. Cardinality(P) # l
    BY DEF P
  <2> QED
    BY <2>1, <2>2
<1>3. SUFFICES ASSUME Rest # {} PROVE FALSE
  BY <1>1
<1>4. PICK y \in Rest : \A x \in Rest : y.seq <= x.seq
  <2> DEFINE S == {x.seq : x \in Rest}
  <2>1. S \in SUBSET Nat /\ S # {}
    BY <1>1, <1>3
  <2>2. PICK m \in S : \A s \in S : m <= s
    BY <2>1, LeastNat
  <2> QED
    BY <2>2
<1>5. Below(y) \subseteq P
  BY <1>1, <1>4
<1>6. Cardinality(Below(y)) \in Nat /\ Cardinality(Below(y)) <= Cardinality(P)
  BY <1>2, <1>5, FS_Subset, FS_CardinalityType
<1>7. Cardinality(Below(y)) < l
  BY <1>2, <1>6
<1>8. y \in P
  BY <1>4, <1>7 DEF GetSince
<1> QED
  BY <1>4, <1>8

(* handleFetch's maximum is where it started or a row's sequence, and no row
   is above it. *)
LEMMA MaxSeqBounds ==
  ASSUME NEW a \in Nat, NEW b \in Nat, NEW rows, \A r \in rows : r.seq \in 0..b
  PROVE  /\ MaxSeq(a, rows) \in Nat
         /\ MaxSeq(a, rows) >= a
         /\ \A r \in rows : MaxSeq(a, rows) >= r.seq
         /\ MaxSeq(a, rows) = a \/ \E r \in rows : MaxSeq(a, rows) = r.seq
<1> DEFINE S == {a} \cup {r.seq : r \in rows}
<1>1. S \in SUBSET Nat /\ S # {} /\ a + b \in Nat /\ \A x \in S : x <= a + b
  OBVIOUS
<1>2. \E m \in S : \A x \in S : x <= m
  BY <1>1, GreatestNat
<1>3. \E m \in S : m >= a /\ \A r \in rows : m >= r.seq
  BY <1>1, <1>2
<1>4. /\ MaxSeq(a, rows) \in S
      /\ MaxSeq(a, rows) >= a /\ \A r \in rows : MaxSeq(a, rows) >= r.seq
  BY <1>3 DEF MaxSeq
<1> QED
  BY <1>1, <1>4

(* A device that asks for a page and then for what follows the maximum it was
   told gets every row once: the pages tile the table, and a page is empty
   only when nothing is left.  (A repeated sequence would break this: that
   row could be cut off at the end of a page.) *)
THEOREM PagesTile ==
  ASSUME NEW db, IsFiniteSet(db), NEW b \in Nat, \A r \in db : r.seq \in 0..b,
         \A x, y \in db : x.seq = y.seq => x = y,
         NEW a \in Nat, NEW l \in Nat, l > 0
  PROVE  LET page == GetSince(db, a, l)
             m == MaxSeq(a, page)
         IN  /\ After(db, a) = page \cup After(db, m)
             /\ page \cap After(db, m) = {}
             /\ After(db, a) # {} => page # {} /\ m > a
<1> DEFINE P == GetSince(db, a, l)
           m == MaxSeq(a, P)
<1>1. P \subseteq After(db, a) /\ After(db, a) \subseteq db
      /\ \A r \in db : r.seq \in Nat
  BY DEF GetSince, After
<1>2. /\ m \in Nat /\ m >= a /\ \A r \in P : m >= r.seq
      /\ m = a \/ \E r \in P : m = r.seq
  BY <1>1, MaxSeqBounds
<1>3. ASSUME NEW x \in After(db, a), ~ (x.seq > m) PROVE x \in P
  <2>1. x \in db /\ x.seq > a /\ x.seq \in Nat
    BY <1>1 DEF After
  <2>2. PICK r \in P : m = r.seq
    BY <1>2, <1>3, <2>1
  <2>3. CASE x.seq < r.seq
    BY <1>1, <2>1, <2>3, PageIsPrefix
  <2>4. CASE x.seq = r.seq
    BY <1>1, <2>1, <2>4
  <2> QED
    BY <1>2, <1>3, <2>1, <2>2, <2>3, <2>4
<1>4. After(db, m) \subseteq After(db, a) /\ P \cap After(db, m) = {}
  BY <1>1, <1>2 DEF After
<1>5. After(db, a) = P \cup After(db, m)
  BY <1>1, <1>3, <1>4 DEF After
<1>6. ASSUME After(db, a) # {} PROVE P # {}
  <2>1. Cardinality({}) = 0 /\ l # 0
    BY FS_EmptySet
  <2>2. P = {} => P = After(db, a)
    BY <1>1, <2>1, ShortPageIsLast
  <2> QED
    BY <1>6, <2>2
<1>7. ASSUME P # {} PROVE m > a
  BY <1>1, <1>2, <1>7 DEF After
<1> QED
  BY <1>4, <1>5, <1>6, <1>7
=============================================================================
