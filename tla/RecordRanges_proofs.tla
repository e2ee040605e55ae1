------------------------- MODULE RecordRanges_proofs -------------------------
(***************************************************************************)
(* Proof that iterating a RecordRangeLocation reads exactly the records    *)
(* asked for, and that the files partition the sequence numbers.           *)
(*                                                                         *)
(* StartOf, what walking the records yields, is a recursive function: that *)
(* it exists and what it is worth are proved by looking at the least       *)
(* sequence number at which a walk would fail.                             *)
(***************************************************************************)
EXTENDS RecordRanges, SequenceTheorems, WellFoundedInduction, TLAPS

-----------------------------------------------------------------------------
(* Numbers and files. *)

(* A nonempty set of natural numbers has a least element. *)
LEMMA LeastNat ==
  ASSUME NEW T \in SUBSET Nat, T # {}
  PROVE  \E x \in T : \A y \in T : x <= y
<1>1. PICK x \in T : \A y \in T : ~ (<<y, x>> \in OpToRel(<, Nat))
  BY WFMin, NatLessThanWellFounded, Zenon
<1>2. \A y \in T : ~ (y < x)
  BY <1>1 DEF OpToRel
<1>3. QED
  BY <1>2

LEMMA Product ==
  ASSUME NEW f \in Nat, NEW g \in Nat, NEW R \in Nat \ {0}
  PROVE  /\ f * R \in Nat
         /\ (f + 1) * R = f * R + R
         /\ f <= g => f * R <= g * R
         /\ f < g => f * R + R <= g * R
<1>1. f * R \in Nat /\ g * R \in Nat /\ (f + 1) * R = f * R + R
  OBVIOUS
<1>2. ASSUME NEW a \in Nat, NEW b \in Nat, a <= b PROVE a * R <= b * R
  <2>1. PICK c \in Nat : b = a + c
    BY <1>2
  <2>2. b * R = a * R + c * R /\ c * R \in Nat /\ a * R \in Nat
    BY <2>1
  <2>3. QED
    BY <2>2
<1>3. f < g => (f + 1) * R <= g * R
  BY <1>2
<1>4. QED
  BY <1>1, <1>2, <1>3

LEMMA Quotient ==
  ASSUME NEW s \in Nat, NEW R \in Nat \ {0}
  PROVE  /\ s \div R \in Nat /\ (s % R) \in 0 .. R - 1
         /\ s = (s \div R) * R + (s % R)
OBVIOUS

(* The file of a sequence number, and its place there. *)
LEMMA FileOf ==
  ASSUME NEW s \in Nat
  PROVE  /\ from_record_id(s) \in Nat
         /\ first_record_id(from_record_id(s)) <= s
         /\ s < first_record_id(from_record_id(s)) + RECORDS_PER_FILE
         /\ record_count_through(s) = s - first_record_id(from_record_id(s)) + 1
<1> DEFINE q == s \div RECORDS_PER_FILE
<1> DEFINE r == s % RECORDS_PER_FILE
<1>1. q \in Nat /\ r \in 0 .. RECORDS_PER_FILE - 1 /\ s = q * RECORDS_PER_FILE + r
  BY LocationAssumption, Quotient
<1>2. /\ from_record_id(s) = q /\ record_count_through(s) = r + 1
      /\ first_record_id(q) = q * RECORDS_PER_FILE
  BY DEF from_record_id, first_record_id, record_count_through
<1>3. q * RECORDS_PER_FILE \in Nat /\ RECORDS_PER_FILE \in Nat
  BY <1>1, LocationAssumption
<1> HIDE DEF q, r
<1>4. QED
  BY <1>1, <1>2, <1>3

LEMMA FirstOf ==
  ASSUME NEW f \in Nat, NEW g \in Nat
  PROVE  /\ first_record_id(f) \in Nat
         /\ first_record_id(f + 1) = first_record_id(f) + RECORDS_PER_FILE
         /\ f <= g => first_record_id(f) <= first_record_id(g)
         /\ f < g => first_record_id(f) + RECORDS_PER_FILE <= first_record_id(g)
         /\ first_record_id(0) = 0
BY LocationAssumption, Product DEF first_record_id

LEMMA FileUnique ==
  ASSUME NEW s \in Nat, NEW f \in Nat,
         first_record_id(f) <= s, s < first_record_id(f) + RECORDS_PER_FILE
  PROVE  from_record_id(s) = f
<1> DEFINE g == from_record_id(s)
<1>1. /\ g \in Nat /\ first_record_id(g) <= s
      /\ s < first_record_id(g) + RECORDS_PER_FILE
  BY FileOf
<1> HIDE DEF g
<1>2. /\ first_record_id(f) \in Nat /\ first_record_id(g) \in Nat
      /\ RECORDS_PER_FILE \in Nat
      /\ f < g => first_record_id(f) + RECORDS_PER_FILE <= first_record_id(g)
      /\ g < f => first_record_id(g) + RECORDS_PER_FILE <= first_record_id(f)
  BY <1>1, FirstOf, LocationAssumption
<1>3. ~ (f < g) /\ ~ (g < f)
  BY <1>1, <1>2
<1>4. f = g
  BY <1>1, <1>3
<1>5. QED
  BY <1>4 DEF g

(* The last file holds the last sequence number. *)
LEMMA FileDomain ==
  /\ MAX_FILE \in Nat /\ MAX_FILE = from_record_id(MAX_SEQUENCE)
  /\ \A s \in SequenceNumber : s \in Nat /\ s <= MAX_SEQUENCE /\ from_record_id(s) \in 0..MAX_FILE
  /\ \A s, t \in SequenceNumber : s <= t => from_record_id(s) <= from_record_id(t)
<1>1. MAX_SEQUENCE \in Nat /\ RECORDS_PER_FILE \in Nat
  BY LocationAssumption
<1>2. MAX_FILE = from_record_id(MAX_SEQUENCE)
  BY DEF MAX_FILE, from_record_id
<1>3. ASSUME NEW s \in Nat, NEW t \in Nat, s <= t
      PROVE  from_record_id(s) <= from_record_id(t)
  <2> DEFINE f == from_record_id(s)
             g == from_record_id(t)
  <2>1. /\ f \in Nat /\ first_record_id(f) <= s
        /\ g \in Nat /\ t < first_record_id(g) + RECORDS_PER_FILE
    BY FileOf
  <2> HIDE DEF f, g
  <2>2. /\ g < f => first_record_id(g) + RECORDS_PER_FILE <= first_record_id(f)
        /\ first_record_id(f) \in Nat /\ first_record_id(g) \in Nat
    BY <2>1, FirstOf
  <2>3. ~ (g < f)
    BY <1>1, <1>3, <2>1, <2>2
  <2>4. f <= g
    BY <2>1, <2>3
  <2>5. QED
    BY <2>4 DEF f, g
<1>4. \A s \in SequenceNumber : s \in Nat /\ s <= MAX_SEQUENCE
  BY <1>1 DEF SequenceNumber
<1>5. MAX_FILE \in Nat
  BY <1>1, <1>2, FileOf
<1>6. ASSUME NEW s \in SequenceNumber PROVE from_record_id(s) \in 0..MAX_FILE
  <2>1. from_record_id(s) \in Nat /\ from_record_id(s) <= from_record_id(MAX_SEQUENCE)
    BY <1>1, <1>3, <1>4, FileOf
  <2>2. QED
    BY <1>2, <1>5, <2>1
<1>7. QED
  BY <1>2, <1>3, <1>4, <1>5, <1>6

(* The records of a file of the domain. *)
LEMMA FileRecords ==
  ASSUME NEW f \in 0..MAX_FILE
  PROVE  /\ first_record_id(f) \in SequenceNumber /\ last_record_id(f) \in SequenceNumber
         /\ first_record_id(f) <= last_record_id(f)
         /\ \A s \in SequenceNumber :
              from_record_id(s) = f <=> first_record_id(f) <= s /\ s <= last_record_id(f)
<1>0. MAX_SEQUENCE \in Nat /\ RECORDS_PER_FILE \in Nat /\ RECORDS_PER_FILE >= 1
  BY LocationAssumption
<1>1. MAX_FILE \in Nat /\ MAX_FILE = from_record_id(MAX_SEQUENCE) /\ f \in Nat /\ f <= MAX_FILE
  BY FileDomain
<1>2. first_record_id(MAX_FILE) <= MAX_SEQUENCE
  BY <1>0, <1>1, FileOf
<1>3. first_record_id(f) \in Nat /\ first_record_id(MAX_FILE) \in Nat
  BY <1>1, FirstOf
<1>4. first_record_id(f) <= first_record_id(MAX_FILE)
  BY <1>1, FirstOf
<1>5. first_record_id(f) \in SequenceNumber
  BY <1>0, <1>2, <1>3, <1>4 DEF SequenceNumber
<1>6. /\ last_record_id(f) \in SequenceNumber /\ first_record_id(f) <= last_record_id(f)
      /\ \A s \in SequenceNumber :
           s <= last_record_id(f) <=> s < first_record_id(f) + RECORDS_PER_FILE
  BY <1>0, <1>2, <1>3, <1>4 DEF last_record_id, SequenceNumber
<1>7. ASSUME NEW s \in SequenceNumber
      PROVE  from_record_id(s) = f
               <=> first_record_id(f) <= s /\ s < first_record_id(f) + RECORDS_PER_FILE
  <2>1. s \in Nat
    BY FileDomain
  <2>2. QED
    BY <1>1, <2>1, FileOf, FileUnique
<1>8. QED
  BY <1>5, <1>6, <1>7

-----------------------------------------------------------------------------
(* The walk of the records. *)

Place == [seq: Nat, pos: Nat]
Layout == lens \in [SequenceNumber -> Lengths]
WalkStep(f, n) ==
  IF n = 0 THEN [seq |-> 0, pos |-> 0] ELSE to_next(f[n - 1], lens[n - 1])

(* One step of the walk goes from a record to the next. *)
LEMMA NextPlace ==
  ASSUME NEW p \in Place, NEW l \in Nat
  PROVE  /\ to_next(p, l) \in Place /\ to_next(p, l).seq = p.seq + 1
         /\ to_next(p, l).pos = IF from_record_id(p.seq + 1) = from_record_id(p.seq)
                                THEN p.pos + l ELSE 0
BY DEF Place, to_next, next_record_start, to_end

LEMMA LengthsPositive ==
  ASSUME Layout, NEW s \in SequenceNumber
  PROVE  lens[s] \in Nat /\ lens[s] >= 1
<1>1. lens[s] \in Lengths
  BY DEF Layout
<1>2. lens[s] \in Nat \ {0}
  BY <1>1, RangeAssumption
<1>3. QED
  BY <1>2

(* Records can be walked as far as the sequence numbers go. *)
LEMMA WalkExists ==
  ASSUME Layout
  PROVE  \E f \in [SequenceNumber -> Place] :
           \A n \in SequenceNumber : f[n] = WalkStep(f, n) /\ f[n].seq = n
<1>0. MAX_SEQUENCE \in Nat
  BY LocationAssumption
<1> DEFINE IsWalk(f, m) == \A n \in 0..m : f[n] = WalkStep(f, n) /\ f[n].seq = n
           T == {m \in 0..MAX_SEQUENCE : ~ \E f \in [0..m -> Place] : IsWalk(f, m)}
<1>1. T = {}
  <2>1. SUFFICES ASSUME T # {} PROVE FALSE
    OBVIOUS
  <2>2. T \in SUBSET Nat
    BY <1>0
  <2>3. PICK m \in T : \A y \in T : m <= y
    BY <2>1, <2>2, LeastNat
  <2>4. m \in 0..MAX_SEQUENCE /\ ~ \E f \in [0..m -> Place] : IsWalk(f, m)
    OBVIOUS
  <2>5. CASE m = 0
    <3> DEFINE g == [n \in 0..0 |-> [seq |-> 0, pos |-> 0]]
    <3>1. g \in [0..m -> Place]
      BY <2>5 DEF Place
    <3>2. ASSUME NEW n \in 0..m PROVE g[n] = WalkStep(g, n) /\ g[n].seq = n
      BY <2>5 DEF WalkStep
    <3>3. QED
      BY <2>4, <3>1, <3>2
  <2>6. CASE m # 0
    <3>1. m - 1 \in 0..MAX_SEQUENCE /\ ~ (m <= m - 1) /\ m \in Nat /\ m >= 1
      BY <1>0, <2>4, <2>6
    <3>2. m - 1 \notin T
      BY <2>3, <3>1
    <3>3. PICK f \in [0..m - 1 -> Place] : IsWalk(f, m - 1)
      BY <3>1, <3>2
    <3>4. lens[m - 1] \in Nat
      BY <3>1, LengthsPositive DEF SequenceNumber
    <3>5. m - 1 \in 0..m - 1
      BY <3>1
    <3>6. f[m - 1] \in Place /\ f[m - 1].seq = m - 1
      BY <3>3, <3>5
    <3>7. PICK p : p = to_next(f[m - 1], lens[m - 1])
      OBVIOUS
    <3>8. p \in Place /\ p.seq = m
      <4>1. p.seq = (m - 1) + 1 /\ p \in Place
        BY <3>4, <3>6, <3>7, NextPlace
      <4>2. QED
        BY <3>1, <4>1
    <3> DEFINE g == [n \in 0..m |-> IF n = m THEN p ELSE f[n]]
    <3>9. \A n \in 0..m : n # m => n \in 0..m - 1
      BY <3>1
    <3>10. g \in [0..m -> Place]
      BY <3>8, <3>9
    <3>11. ASSUME NEW n \in 0..m PROVE g[n] = WalkStep(g, n) /\ g[n].seq = n
      <4>1. CASE n = m
        <5>1. g[n] = p /\ g[n - 1] = f[m - 1]
          BY <3>1, <3>5, <4>1
        <5>2. QED
          BY <2>6, <3>7, <3>8, <4>1, <5>1 DEF WalkStep
      <4>2. CASE n # m
        <5>1. n \in 0..m - 1 /\ g[n] = f[n]
          BY <3>9, <4>2
        <5>2. f[n] = WalkStep(f, n) /\ f[n].seq = n
          BY <3>3, <5>1
        <5>3. n # 0 => n - 1 \in 0..m /\ n - 1 # m
          BY <3>1, <5>1
        <5>4. n # 0 => g[n - 1] = f[n - 1]
          BY <5>3
        <5>5. WalkStep(g, n) = WalkStep(f, n)
          BY <5>4 DEF WalkStep
        <5>6. QED
          BY <5>1, <5>2, <5>5
      <4>3. QED
        BY <4>1, <4>2
    <3>12. IsWalk(g, m)
      BY <3>11
    <3> HIDE DEF g
    <3>13. QED
      BY <2>4, <3>10, <3>12
  <2>7. QED
    BY <2>5, <2>6
<1>2. MAX_SEQUENCE \in 0..MAX_SEQUENCE
  BY <1>0
<1>3. QED
  BY <1>1, <1>2 DEF SequenceNumber

(* So StartOf is such a walk. *)
LEMMA StartOfWalks ==
  ASSUME Layout
  PROVE  StartOf = [n \in SequenceNumber |-> WalkStep(StartOf, n)]
<1>1. PICK f \in [SequenceNumber -> Place] :
        \A n \in SequenceNumber : f[n] = WalkStep(f, n) /\ f[n].seq = n
  BY WalkExists
<1>2. f = [n \in SequenceNumber |-> WalkStep(f, n)]
  BY <1>1
<1>3. QED
  BY <1>2, Zenon DEF StartOf, WalkStep

(* Where the records start and end. *)
LEMMA Walk ==
  ASSUME Layout
  PROVE  /\ ResolvedStart(0) = 0
         /\ \A s \in SequenceNumber :
              /\ ResolvedStart(s) \in Nat
              /\ ResolvedEnd(s) = ResolvedStart(s) + lens[s]
              /\ ResolvedEnd(s) \in Nat /\ ResolvedStart(s) < ResolvedEnd(s)
         /\ \A s \in SequenceNumber : s # 0 =>
              ResolvedStart(s) = IF from_record_id(s) = from_record_id(s - 1)
                                 THEN ResolvedEnd(s - 1) ELSE 0
<1>0. MAX_SEQUENCE \in Nat /\ 0 \in SequenceNumber
  BY LocationAssumption DEF SequenceNumber
<1>1. PICK f : f = StartOf
  OBVIOUS
<1>2. f = [n \in SequenceNumber |-> WalkStep(f, n)]
  BY <1>1, StartOfWalks
<1>3. \A n \in SequenceNumber : f[n] = WalkStep(f, n)
  BY <1>2
<1>4. ASSUME NEW s \in SequenceNumber, s # 0
      PROVE  s - 1 \in SequenceNumber /\ (s - 1) + 1 = s /\ s \in Nat
  BY <1>0, <1>4 DEF SequenceNumber
<1>5. \A n \in SequenceNumber : f[n] \in Place /\ f[n].seq = n
  <2> DEFINE T == {n \in SequenceNumber : ~ (f[n] \in Place /\ f[n].seq = n)}
  <2>1. SUFFICES ASSUME T # {} PROVE FALSE
    OBVIOUS
  <2>2. T \in SUBSET Nat
    BY <1>0 DEF SequenceNumber
  <2>3. PICK m \in T : \A y \in T : m <= y
    BY <2>1, <2>2, LeastNat
  <2>4. m \in SequenceNumber /\ ~ (f[m] \in Place /\ f[m].seq = m)
    OBVIOUS
  <2>5. CASE m = 0
    BY <1>3, <2>4, <2>5 DEF WalkStep, Place
  <2>6. CASE m # 0
    <3>1. m - 1 \in SequenceNumber /\ (m - 1) + 1 = m /\ m \in Nat
      BY <1>4, <2>4, <2>6
    <3>2. ~ (m <= m - 1)
      BY <3>1
    <3>3. f[m - 1] \in Place /\ f[m - 1].seq = m - 1
      BY <2>3, <3>1, <3>2
    <3>4. f[m] = to_next(f[m - 1], lens[m - 1])
      BY <1>3, <2>4, <2>6 DEF WalkStep
    <3>5. lens[m - 1] \in Nat
      BY <3>1, LengthsPositive
    <3>6. f[m] \in Place /\ f[m].seq = (m - 1) + 1
      BY <3>3, <3>4, <3>5, NextPlace
    <3>7. QED
      BY <2>4, <3>1, <3>6
  <2>7. QED
    BY <2>5, <2>6
<1>6. ASSUME NEW s \in SequenceNumber
      PROVE  /\ ResolvedStart(s) = f[s].pos /\ ResolvedStart(s) \in Nat
             /\ ResolvedEnd(s) = ResolvedStart(s) + lens[s]
             /\ ResolvedEnd(s) \in Nat /\ ResolvedStart(s) < ResolvedEnd(s)
  <2>1. ResolvedStart(s) = f[s].pos
    BY <1>1 DEF ResolvedStart
  <2>2. f[s].pos \in Nat
    BY <1>5 DEF Place
  <2>3. ResolvedEnd(s) = f[s].pos + lens[s]
    BY <1>1 DEF ResolvedEnd, to_end
  <2>4. lens[s] \in Nat /\ lens[s] >= 1
    BY LengthsPositive
  <2>5. QED
    BY <2>1, <2>2, <2>3, <2>4
<1>7. ResolvedStart(0) = 0
  BY <1>0, <1>3, <1>6 DEF WalkStep
<1>8. ASSUME NEW s \in SequenceNumber, s # 0
      PROVE  ResolvedStart(s) = IF from_record_id(s) = from_record_id(s - 1)
                                THEN ResolvedEnd(s - 1) ELSE 0
  <2>1. s - 1 \in SequenceNumber /\ (s - 1) + 1 = s
    BY <1>4, <1>8
  <2>2. f[s] = to_next(f[s - 1], lens[s - 1])
    BY <1>3, <1>8 DEF WalkStep
  <2>3. f[s - 1] \in Place /\ f[s - 1].seq = s - 1 /\ lens[s - 1] \in Nat
    BY <1>5, <2>1, LengthsPositive
  <2>4. f[s].pos = IF from_record_id((s - 1) + 1) = from_record_id(s - 1)
                   THEN f[s - 1].pos + lens[s - 1] ELSE 0
    BY <2>2, <2>3, NextPlace
  <2>5. QED
    BY <1>6, <2>1, <2>4
<1>9. QED
  BY <1>6, <1>7, <1>8

(* The first record of a file starts it. *)
LEMMA FirstStarts ==
  ASSUME Layout, NEW f \in 0..MAX_FILE
  PROVE  ResolvedStart(first_record_id(f)) = 0
<1>1. PICK s \in SequenceNumber : s = first_record_id(f)
  BY FileRecords
<1>2. CASE s = 0
  BY <1>1, <1>2, Walk
<1>3. CASE s # 0
  <2>1. s - 1 \in SequenceNumber /\ s - 1 < s /\ s \in Nat
    BY <1>3, LocationAssumption DEF SequenceNumber
  <2>2. from_record_id(s - 1) # f
    <3>1. ~ (s <= s - 1)
      BY <2>1
    <3>2. QED
      BY <1>1, <2>1, <3>1, FileRecords
  <2>3. from_record_id(s) = f
    <3>1. s <= s /\ s <= last_record_id(f)
      BY <1>1, <2>1, FileRecords
    <3>2. QED
      BY <1>1, <3>1, FileRecords
  <2>4. QED
    BY <1>1, <1>3, <2>2, <2>3, Walk
<1>4. QED
  BY <1>2, <1>3

(* The records of a file that follow a record follow it in its bytes. *)
LEMMA InFileOrder ==
  ASSUME Layout, NEW s \in SequenceNumber, NEW t \in SequenceNumber,
         s <= t, from_record_id(s) = from_record_id(t)
  PROVE  ResolvedStart(s) <= ResolvedStart(t) /\ ResolvedEnd(s) <= ResolvedEnd(t)
<1> DEFINE Ordered(x) == ResolvedStart(s) <= ResolvedStart(x) /\ ResolvedEnd(s) <= ResolvedEnd(x)
           T == {x \in s..t : ~ Ordered(x)}
<1>0. s \in Nat /\ t \in Nat /\ \A x \in s..t : x \in Nat /\ x \in SequenceNumber
  BY LocationAssumption DEF SequenceNumber
<1>1. \A x \in SequenceNumber : ResolvedStart(x) \in Nat /\ ResolvedEnd(x) \in Nat
                                /\ ResolvedStart(x) < ResolvedEnd(x)
  BY Walk
<1>2. ASSUME NEW x \in s..t PROVE from_record_id(x) = from_record_id(s)
  <2>1. from_record_id(s) <= from_record_id(x) /\ from_record_id(x) <= from_record_id(t)
    BY <1>0, FileDomain
  <2>2. from_record_id(s) \in Nat /\ from_record_id(x) \in Nat
    BY <1>0, FileOf
  <2>3. QED
    BY <2>1, <2>2
<1>3. T = {}
  <2>1. SUFFICES ASSUME T # {} PROVE FALSE
    OBVIOUS
  <2>2. T \in SUBSET Nat
    BY <1>0
  <2>3. PICK m \in T : \A y \in T : m <= y
    BY <2>1, <2>2, LeastNat
  <2>4. m \in s..t /\ ~ Ordered(m) /\ m \in Nat /\ m \in SequenceNumber
    BY <1>0
  <2>5. Ordered(s)
    BY <1>1
  <2>6. m # s
    BY <2>4, <2>5
  <2>7. m - 1 \in s..t /\ ~ (m <= m - 1) /\ m # 0
    BY <1>0, <2>4, <2>6
  <2>8. Ordered(m - 1)
    BY <2>3, <2>7
  <2>9. from_record_id(m) = from_record_id(m - 1)
    BY <1>2, <2>4, <2>7
  <2>10. ResolvedStart(m) = ResolvedEnd(m - 1)
    BY <2>4, <2>7, <2>9, Walk
  <2>11. Ordered(m)
    BY <1>0, <1>1, <2>4, <2>7, <2>8, <2>10
  <2>12. QED
    BY <2>4, <2>11
<1>4. t \in s..t
  BY <1>0
<1>5. QED
  BY <1>3, <1>4

(* The records from one to another of a file leave no byte between them. *)
LEMMA NoGap ==
  ASSUME Layout, NEW s \in SequenceNumber, NEW t \in SequenceNumber,
         s <= t, from_record_id(s) = from_record_id(t),
         NEW b \in Int, ResolvedStart(s) <= b, b < ResolvedEnd(t)
  PROVE  \E r \in s..t : /\ from_record_id(r) = from_record_id(s)
                         /\ ResolvedStart(r) <= b /\ b < ResolvedEnd(r)
<1> DEFINE T == {x \in s..t : b < ResolvedEnd(x)}
<1>0. s \in Nat /\ t \in Nat /\ \A x \in s..t : x \in Nat /\ x \in SequenceNumber
  BY LocationAssumption DEF SequenceNumber
<1>1. \A x \in SequenceNumber : ResolvedStart(x) \in Nat /\ ResolvedEnd(x) \in Nat
  BY Walk
<1>2. ASSUME NEW x \in s..t PROVE from_record_id(x) = from_record_id(s)
  <2>1. from_record_id(s) <= from_record_id(x) /\ from_record_id(x) <= from_record_id(t)
    BY <1>0, FileDomain
  <2>2. from_record_id(s) \in Nat /\ from_record_id(x) \in Nat
    BY <1>0, FileOf
  <2>3. QED
    BY <2>1, <2>2
<1>3. t \in T /\ T \in SUBSET Nat
  BY <1>0
<1>4. PICK r \in T : \A y \in T : r <= y
  BY <1>3, LeastNat
<1>5. r \in s..t /\ b < ResolvedEnd(r) /\ r \in Nat /\ r \in SequenceNumber
  BY <1>0
<1>6. ResolvedStart(r) <= b
  <2>1. CASE r = s
    BY <2>1
  <2>2. CASE r # s
    <3>1. r - 1 \in s..t /\ ~ (r <= r - 1) /\ r # 0
      BY <1>0, <1>5, <2>2
    <3>2. ~ (b < ResolvedEnd(r - 1))
      BY <1>4, <3>1
    <3>3. from_record_id(r) = from_record_id(r - 1)
      BY <1>2, <1>5, <3>1
    <3>4. ResolvedStart(r) = ResolvedEnd(r - 1)
      BY <1>5, <3>1, <3>3, Walk
    <3>5. QED
      BY <1>0, <1>1, <3>1, <3>2, <3>4
  <2>3. QED
    BY <2>1, <2>2
<1>7. QED
  BY <1>2, <1>5, <1>6

-----------------------------------------------------------------------------
(* Requests and their iteration. *)

Kinds == {"FileRange", "FilePostfix", "FilePrefix", "EntireFile"}
FileRange == [kind: Kinds, from: Int, to: Int]
Item == Int \X FileRange

(* What new was given and what it answered. *)
RequestInv ==
  /\ Layout
  /\ start.seq \in SequenceNumber /\ start.pos \in Nat
  /\ end.seq \in SequenceNumber /\ end.pos \in Nat
  /\ status \in {"idle", "iterating", "exhausted"} \cup Errors
  /\ status \in Errors => status = Validate(start, end)
  /\ status \in {"iterating", "exhausted"} => Validate(start, end) = "iterating"

(* The items are those of the files from the first to the one before         *)
(* next_file, to the last when the iterator is exhausted.                    *)
IterationInv ==
  /\ status = "idle" => next_file = 0 /\ items = <<>>
  /\ status \in Errors => next_file = first /\ items = <<>>
  /\ status = "iterating" => next_file \in first..last /\ Len(items) = next_file - first
  /\ status = "exhausted" => next_file = last /\ Len(items) = last - first + 1
  /\ items \in Seq(Item)
  /\ \A i \in 1..Len(items) : items[i] = <<first + i - 1, RangeOf(first + i - 1)>>

IInv == RequestInv /\ IterationInv

(* The files of the two endpoints. *)
LEMMA EndpointFiles ==
  ASSUME RequestInv
  PROVE  /\ first \in 0..MAX_FILE /\ last \in 0..MAX_FILE
         /\ first \in Nat /\ last \in Nat
         /\ start.seq <= end.seq => first <= last
         /\ Validate(start, end) = "iterating" => start.seq <= end.seq
<1>1. start.seq \in SequenceNumber /\ end.seq \in SequenceNumber
  BY DEF RequestInv
<1>2. first \in 0..MAX_FILE /\ last \in 0..MAX_FILE
  BY <1>1, FileDomain DEF first, last
<1>3. start.seq <= end.seq => first <= last
  BY <1>1, FileDomain DEF first, last
<1>4. start.seq \in Int /\ end.seq \in Int
  BY <1>1, FileDomain
<1>5. Validate(start, end) = "iterating" => start.seq <= end.seq
  BY <1>4 DEF Validate
<1>6. QED
  BY <1>2, <1>3, <1>5

(* An item is a file and a range of it. *)
LEMMA ItemType ==
  ASSUME RequestInv, NEW f \in Int
  PROVE  <<f, RangeOf(f)>> \in Item
<1>1. start.pos \in Int /\ end.pos \in Int
  BY DEF RequestInv
<1>2. RangeOf(f) \in FileRange
  BY <1>1 DEF RangeOf, FileRange, Kinds
<1>3. QED
  BY <1>2 DEF Item

LEMMA InitKeeps == Init => IInv
<1>1. SUFFICES ASSUME Init PROVE IInv
  OBVIOUS
<1>2. 0 \in SequenceNumber
  BY LocationAssumption DEF SequenceNumber
<1>3. RequestInv
  BY <1>1, <1>2 DEF Init, RequestInv, Layout, Errors
<1>4. IterationInv
  BY <1>1 DEF Init, IterationInv, Errors
<1>5. QED
  BY <1>3, <1>4 DEF IInv

(* A new request. *)
LEMMA NewKeeps ==
  ASSUME IInv, NEW s, NEW e, s.seq \in SequenceNumber, s.pos \in Nat,
         e.seq \in SequenceNumber, e.pos \in Nat, New(s, e)
  PROVE  IInv'
<1>1. /\ start' = s /\ end' = e /\ status' = Validate(s, e)
      /\ next_file' = from_record_id(s.seq) /\ lens' = lens /\ items' = items
      /\ items = <<>>
  BY DEF New, IInv, IterationInv
<1>2. Validate(s, e) \in Errors \cup {"iterating"}
  BY DEF Validate, Errors
<1>3. RequestInv'
  BY <1>1, <1>2 DEF IInv, RequestInv, Layout, Errors
<1>4. first' = from_record_id(s.seq) /\ last' = from_record_id(e.seq)
  BY <1>1 DEF first, last
<1>5. Validate(s, e) = "iterating" => from_record_id(s.seq) <= from_record_id(e.seq)
  <2>1. s.seq \in Int /\ e.seq \in Int
    BY FileDomain
  <2>2. Validate(s, e) = "iterating" => s.seq <= e.seq
    BY <2>1 DEF Validate
  <2>3. QED
    BY <2>2, FileDomain
<1>6. from_record_id(s.seq) \in Nat /\ from_record_id(e.seq) \in Nat
  BY FileDomain, FileOf
<1>7. status' = "iterating" => next_file' \in first'..last' /\ Len(items') = next_file' - first'
  BY <1>1, <1>4, <1>5, <1>6
<1>8. status' # "idle" /\ status' # "exhausted"
  BY <1>1, <1>2 DEF Errors
<1>9. IterationInv'
  BY <1>1, <1>4, <1>7, <1>8 DEF IterationInv
<1>10. QED
  BY <1>3, <1>9 DEF IInv

(* One more item. *)
LEMMA NextItemKeeps ==
  ASSUME IInv, NextItem
  PROVE  IInv'
<1>1. /\ status = "iterating" /\ lens' = lens /\ start' = start /\ end' = end
      /\ items' = Append(items, <<next_file, RangeOf(next_file)>>)
  BY DEF NextItem
<1>2. /\ next_file = last => status' = "exhausted" /\ next_file' = next_file
      /\ next_file # last => status' = "iterating" /\ next_file' = next_file + 1
  BY DEF NextItem
<1>3. RequestInv'
  BY <1>1, <1>2 DEF IInv, RequestInv, Layout, Errors
<1>4. PICK p \in Nat : p = first
  BY EndpointFiles DEF IInv
<1>5. PICK q \in Nat : q = last
  BY EndpointFiles DEF IInv
<1>6. PICK n \in Nat : n = next_file
  BY <1>1, <1>4, <1>5 DEF IInv, IterationInv
<1>7. first' = p /\ last' = q
  BY <1>1, <1>4, <1>5 DEF first, last
<1>8. p <= n /\ n <= q /\ Len(items) = n - p
  BY <1>1, <1>4, <1>5, <1>6 DEF IInv, IterationInv
<1>9. \A f : RangeOf(f)' = RangeOf(f)
  BY <1>1 DEF RangeOf, first, last
<1>10. PICK u \in Seq(Item) : u = items
  BY DEF IInv, IterationInv
<1>11. PICK x : x = <<n, RangeOf(n)>>
  OBVIOUS
<1>12. x \in Item
  BY <1>11, ItemType DEF IInv
<1>130. /\ Append(u, x) \in Seq(Item) /\ Len(Append(u, x)) = Len(u) + 1
        /\ \A i \in 1..Len(u) : Append(u, x)[i] = u[i]
        /\ Append(u, x)[Len(u) + 1] = x
  BY <1>12, AppendProperties
<1>13. PICK v \in Seq(Item) : v = Append(u, x)
  BY <1>130
<1>14. Len(v) = Len(u) + 1 /\ v[Len(u) + 1] = x /\ \A i \in 1..Len(u) : v[i] = u[i]
  BY <1>13, <1>130
<1>15. items' = v
  BY <1>1, <1>6, <1>10, <1>11, <1>13
<1>16. Len(u) = n - p /\ Len(u) \in Nat
  BY <1>8, <1>10
<1>17. ASSUME NEW i \in 1..Len(v) PROVE v[i] = <<p + i - 1, RangeOf(p + i - 1)>>
  <2>1. CASE i = Len(u) + 1
    <3>1. p + i - 1 = n
      BY <1>16, <2>1
    <3>2. QED
      BY <1>11, <1>14, <2>1, <3>1
  <2>2. CASE i # Len(u) + 1
    <3>1. i \in 1..Len(u)
      BY <1>14, <1>16, <2>2
    <3>2. u[i] = <<p + i - 1, RangeOf(p + i - 1)>>
      BY <1>4, <1>10, <3>1 DEF IInv, IterationInv
    <3>3. QED
      BY <1>14, <3>1, <3>2
  <2>3. QED
    BY <2>1, <2>2
<1>18. /\ items' \in Seq(Item)
       /\ \A i \in 1..Len(items') : items'[i] = <<first' + i - 1, RangeOf(first + i - 1)'>>
  <2>1. ASSUME NEW i \in 1..Len(v) PROVE v[i] = <<p + i - 1, RangeOf(first + i - 1)'>>
    <3>1. RangeOf(first + i - 1)' = RangeOf(p + i - 1)
      BY <1>1, <1>4, <1>7 DEF RangeOf, first, last
    <3>2. QED
      BY <1>17, <3>1
  <2>2. QED
    BY <1>7, <1>15, <2>1
<1>19. Len(items') = (n - p) + 1
  BY <1>14, <1>15, <1>16
<1>20. /\ status' = "iterating" => next_file' \in first'..last' /\ Len(items') = next_file' - first'
       /\ status' = "exhausted" => next_file' = last' /\ Len(items') = last' - first' + 1
  <2>1. CASE n = q
    BY <1>2, <1>5, <1>6, <1>7, <1>19, <2>1
  <2>2. CASE n # q
    <3>1. next_file' = n + 1 /\ status' = "iterating"
      BY <1>2, <1>5, <1>6, <2>2
    <3>2. n + 1 \in p..q /\ (n - p) + 1 = (n + 1) - p
      BY <1>8, <2>2
    <3>3. QED
      BY <1>7, <1>19, <3>1, <3>2
  <2>3. QED
    BY <2>1, <2>2
<1>21. status' \in {"iterating", "exhausted"}
  BY <1>2
<1>22. IterationInv'
  BY <1>18, <1>20, <1>21 DEF IterationInv, Errors
<1>23. QED
  BY <1>3, <1>22 DEF IInv

LEMMA DropKeeps ==
  ASSUME IInv, Drop
  PROVE  IInv'
<1>1. /\ status' = "idle" /\ lens' = lens /\ next_file' = 0 /\ items' = <<>>
      /\ start' = Resolved(0, 0) /\ end' = Resolved(0, 0)
  BY DEF Drop
<1>2. 0 \in SequenceNumber
  BY LocationAssumption DEF SequenceNumber
<1>3. RequestInv'
  BY <1>1, <1>2 DEF IInv, RequestInv, Layout, Errors, Resolved
<1>4. IterationInv'
  BY <1>1 DEF IterationInv, Errors
<1>5. QED
  BY <1>3, <1>4 DEF IInv

(* IInv is an invariant of RecordRangeLocation: the items it has yielded are *)
(* those of consecutive files from the first, each with its own range, and   *)
(* the iterator never asks for a file after the last.                        *)
THEOREM RangeInvariant == Spec => []IInv
<1>1. ASSUME IInv, [Next]_vars PROVE IInv'
  <2>1. CASE NewResolved
    <3>1. PICK s \in SequenceNumber, e \in SequenceNumber :
            New(Resolved(s, ResolvedStart(s)), Resolved(e, ResolvedEnd(e)))
      BY <2>1 DEF NewResolved
    <3>2. ResolvedStart(s) \in Nat /\ ResolvedEnd(e) \in Nat
      BY <1>1, Walk DEF IInv, RequestInv
    <3>3. /\ Resolved(s, ResolvedStart(s)).seq = s
          /\ Resolved(s, ResolvedStart(s)).pos = ResolvedStart(s)
          /\ Resolved(e, ResolvedEnd(e)).seq = e
          /\ Resolved(e, ResolvedEnd(e)).pos = ResolvedEnd(e)
      BY DEF Resolved
    <3>4. QED
      BY <1>1, <3>1, <3>2, <3>3, NewKeeps
  <2>2. CASE NewUnresolved
    <3>1. PICK s \in [stream: Streams, seq: SequenceNumber, pos: 0..MaxPosition],
               e \in [stream: Streams, seq: SequenceNumber, pos: 0..MaxPosition] : New(s, e)
      BY <2>2 DEF NewUnresolved
    <3>2. /\ s.seq \in SequenceNumber /\ s.pos \in Nat
          /\ e.seq \in SequenceNumber /\ e.pos \in Nat
      BY RangeAssumption
    <3>3. QED
      BY <1>1, <3>1, <3>2, NewKeeps
  <2>3. CASE NextItem
    BY <1>1, <2>3, NextItemKeeps
  <2>4. CASE Drop
    BY <1>1, <2>4, DropKeeps
  <2>5. CASE UNCHANGED vars
    <3>1. /\ lens' = lens /\ start' = start /\ end' = end /\ status' = status
          /\ next_file' = next_file /\ items' = items
      BY <2>5 DEF vars
    <3>2. RequestInv'
      BY <1>1, <3>1 DEF IInv, RequestInv, Layout
    <3>3. IterationInv'
      BY <1>1, <3>1, ZenonT(30) DEF IInv, IterationInv, RangeOf, first, last
    <3>4. QED
      BY <3>2, <3>3 DEF IInv
  <2>6. QED
    BY <1>1, <2>1, <2>2, <2>3, <2>4, <2>5 DEF Next
<1>2. QED
  BY <1>1, InitKeeps, PTL DEF Spec

-----------------------------------------------------------------------------
(* The bytes of a resolved request. *)

(* The records of the request in one of its files, and the bytes its item    *)
(* stands for.                                                               *)
FirstIn(f) == IF f = first THEN start.seq ELSE first_record_id(f)
LastIn(f) == IF f = last THEN end.seq ELSE last_record_id(f)

LEMMA RequestInFile ==
  ASSUME RequestInv, IsResolved, start.seq <= end.seq, NEW f \in first..last
  PROVE  /\ FirstIn(f) \in SequenceNumber /\ LastIn(f) \in SequenceNumber
         /\ FirstIn(f) <= LastIn(f)
         /\ from_record_id(FirstIn(f)) = f /\ from_record_id(LastIn(f)) = f
         /\ \A r \in SequenceNumber :
              r \in start.seq..end.seq /\ from_record_id(r) = f
                <=> FirstIn(f) <= r /\ r <= LastIn(f)
         /\ ResolvedStart(FirstIn(f)) = RangeOf(f).from
         /\ ResolvedEnd(LastIn(f)) = ReadTo(f, RangeOf(f))
<1>0. /\ Layout /\ start.seq \in SequenceNumber /\ end.seq \in SequenceNumber
      /\ start.pos \in Nat /\ end.pos \in Nat
  BY DEF RequestInv
<1>1. PICK p \in Nat : p = first
  BY EndpointFiles
<1>2. PICK q \in Nat : q = last
  BY EndpointFiles
<1>3. /\ p \in 0..MAX_FILE /\ q \in 0..MAX_FILE /\ p <= f /\ f <= q /\ f \in 0..MAX_FILE
      /\ f \in Nat /\ MAX_FILE \in Nat
  BY <1>1, <1>2, EndpointFiles, FileDomain
<1>4. PICK s \in SequenceNumber : s = start.seq
  BY <1>0
<1>5. PICK e \in SequenceNumber : e = end.seq
  BY <1>0
<1>6. s \in Nat /\ e \in Nat /\ s <= e /\ MAX_SEQUENCE \in Nat
  BY <1>4, <1>5, FileDomain, LocationAssumption
<1>7. from_record_id(s) = p /\ from_record_id(e) = q
  BY <1>1, <1>2, <1>4, <1>5 DEF first, last
<1>8. PICK a \in SequenceNumber : a = first_record_id(f)
  BY <1>3, FileRecords
<1>9. PICK z \in SequenceNumber : z = last_record_id(f)
  BY <1>3, FileRecords
<1>10. /\ a <= z
       /\ \A r \in SequenceNumber : from_record_id(r) = f <=> a <= r /\ r <= z
  BY <1>3, <1>8, <1>9, FileRecords
<1>11. PICK m \in SequenceNumber : m = FirstIn(f)
  BY <1>0, <1>8 DEF FirstIn
<1>12. PICK n \in SequenceNumber : n = LastIn(f)
  BY <1>0, <1>9 DEF LastIn
<1>13. m = IF f = p THEN s ELSE a
  BY <1>1, <1>4, <1>8, <1>11 DEF FirstIn
<1>14. n = IF f = q THEN e ELSE z
  BY <1>2, <1>5, <1>9, <1>12 DEF LastIn
<1>15. a \in Nat /\ z \in Nat /\ m \in Nat /\ n \in Nat
  BY FileDomain
<1>16. from_record_id(m) = f /\ from_record_id(n) = f
  <2>1. from_record_id(a) = f /\ from_record_id(z) = f
    BY <1>10, <1>15
  <2>2. QED
    BY <1>7, <1>13, <1>14, <2>1
<1>17. f # p => s < a
  <2>1. SUFFICES ASSUME f # p, a <= s PROVE FALSE
    BY <1>6, <1>15
  <2>2. from_record_id(a) = f
    BY <1>10, <1>15
  <2>3. f <= p
    BY <1>7, <2>1, <2>2, FileDomain
  <2>4. QED
    BY <1>3, <2>1, <2>3
<1>18. f # q => z < e
  <2>1. SUFFICES ASSUME f # q, e <= z PROVE FALSE
    BY <1>6, <1>15
  <2>2. from_record_id(z) = f
    BY <1>10, <1>15
  <2>3. q <= f
    BY <1>7, <2>1, <2>2, FileDomain
  <2>4. QED
    BY <1>3, <2>1, <2>3
<1>19. m <= n
  <2>1. f = p => a <= s /\ s <= z
    BY <1>7, <1>10
  <2>2. f = q => a <= e /\ e <= z
    BY <1>7, <1>10
  <2>3. QED
    BY <1>6, <1>10, <1>13, <1>14, <1>15, <2>1, <2>2
<1>20. ASSUME NEW r \in SequenceNumber
       PROVE  r \in s..e /\ from_record_id(r) = f <=> m <= r /\ r <= n
  <2>1. r \in Nat /\ (r \in s..e <=> s <= r /\ r <= e)
    BY <1>6, FileDomain
  <2>2. from_record_id(r) = f <=> a <= r /\ r <= z
    BY <1>10
  <2>3. f = p => a <= s /\ s <= z
    BY <1>7, <1>10
  <2>4. f = q => a <= e /\ e <= z
    BY <1>7, <1>10
  <2>5. QED
    BY <1>6, <1>13, <1>14, <1>15, <1>17, <1>18, <2>1, <2>2, <2>3, <2>4
<1>21. start.pos = ResolvedStart(s) /\ end.pos = ResolvedEnd(e)
  BY <1>4, <1>5 DEF IsResolved
<1>22. ResolvedStart(m) = RangeOf(f).from
  <2>1. CASE f = p
    <3>1. RangeOf(f).from = start.pos
      <4>1. CASE p = q
        BY <1>1, <1>2, <2>1, <4>1 DEF RangeOf
      <4>2. CASE p # q
        BY <1>1, <1>2, <2>1, <4>2 DEF RangeOf
      <4>3. QED
        BY <4>1, <4>2
    <3>2. QED
      BY <1>13, <1>21, <2>1, <3>1
  <2>2. CASE f # p
    <3>1. p # q
      BY <1>3, <2>2
    <3>2. RangeOf(f).from = 0
      BY <1>1, <1>2, <2>2, <3>1 DEF RangeOf
    <3>3. ResolvedStart(a) = 0
      BY <1>0, <1>3, <1>8, FirstStarts
    <3>4. QED
      BY <1>13, <2>2, <3>2, <3>3
  <2>3. QED
    BY <2>1, <2>2
<1>23. ResolvedEnd(n) = ReadTo(f, RangeOf(f))
  <2>1. CASE f = q
    <3>1. RangeOf(f).to = end.pos
      <4>1. CASE p = q
        BY <1>1, <1>2, <2>1, <4>1 DEF RangeOf
      <4>2. CASE p # q
        BY <1>1, <1>2, <2>1, <4>2 DEF RangeOf
      <4>3. QED
        BY <4>1, <4>2
    <3>2. end.pos # -1
      BY <1>0
    <3>3. QED
      BY <1>14, <1>21, <2>1, <3>1, <3>2 DEF ReadTo
  <2>2. CASE f # q
    <3>1. p # q
      BY <1>3, <2>2
    <3>2. RangeOf(f).to = -1
      BY <1>1, <1>2, <2>2, <3>1 DEF RangeOf
    <3>3. ReadTo(f, RangeOf(f)) = ResolvedEnd(z)
      BY <1>9, <3>2 DEF ReadTo, FileEnd
    <3>4. QED
      BY <1>14, <2>2, <3>3
  <2>3. QED
    BY <2>1, <2>2
<1>24. QED
  BY <1>4, <1>5, <1>11, <1>12, <1>16, <1>19, <1>20, <1>22, <1>23

(* Once exhausted, the iterator has read the bytes asked for and no others. *)
LEMMA ReadsWanted ==
  ASSUME IInv, IsResolved, status = "exhausted"
  PROVE  BytesRead = BytesWanted
<1>0. RequestInv /\ Layout
  BY DEF IInv, RequestInv
<1>1. start.seq <= end.seq /\ first <= last
  BY <1>0, EndpointFiles DEF RequestInv
<1>2. PICK p \in Nat : p = first
  BY <1>0, EndpointFiles
<1>3. PICK q \in Nat : q = last
  BY <1>0, EndpointFiles
<1>4. /\ p <= q /\ Len(items) = q - p + 1
      /\ \A i \in 1..Len(items) : items[i] = <<p + i - 1, RangeOf(p + i - 1)>>
  BY <1>1, <1>2, <1>3 DEF IInv, IterationInv
<1>5. \A x \in SequenceNumber : ResolvedStart(x) \in Nat /\ ResolvedEnd(x) \in Nat
  BY <1>0, Walk
<1>6. ASSUME NEW c \in BytesRead PROVE c \in BytesWanted
  <2>1. PICK i \in 1..Len(items) :
          c \in {<<items[i][1], b>> :
                   b \in items[i][2].from..(ReadTo(items[i][1], items[i][2]) - 1)}
    BY <1>6 DEF BytesRead
  <2>2. PICK f \in p..q : f = p + i - 1
    BY <1>4
  <2>3. items[i][1] = f /\ items[i][2] = RangeOf(f)
    BY <1>4, <2>2
  <2>4. PICK b \in RangeOf(f).from..(ReadTo(f, RangeOf(f)) - 1) : c = <<f, b>>
    BY <2>1, <2>3
  <2>5. PICK m \in SequenceNumber : m = FirstIn(f)
    BY <1>0, <1>1, <1>2, <1>3, RequestInFile
  <2>6. PICK n \in SequenceNumber : n = LastIn(f)
    BY <1>0, <1>1, <1>2, <1>3, RequestInFile
  <2>7. /\ m <= n /\ from_record_id(m) = f /\ from_record_id(n) = f
        /\ ResolvedStart(m) = RangeOf(f).from /\ ResolvedEnd(n) = ReadTo(f, RangeOf(f))
        /\ \A r \in SequenceNumber : m <= r /\ r <= n => r \in start.seq..end.seq
    BY <1>0, <1>1, <1>2, <1>3, <2>5, <2>6, RequestInFile
  <2>8. b \in Int /\ ResolvedStart(m) <= b /\ b < ResolvedEnd(n)
    BY <1>5, <2>7
  <2>9. PICK r \in m..n : /\ from_record_id(r) = from_record_id(m)
                          /\ ResolvedStart(r) <= b /\ b < ResolvedEnd(r)
    BY <1>0, <2>7, <2>8, NoGap
  <2>10. r \in SequenceNumber /\ m <= r /\ r <= n
    BY LocationAssumption DEF SequenceNumber
  <2>11. r \in start.seq..end.seq /\ from_record_id(r) = f
    BY <2>7, <2>9, <2>10
  <2>12. b \in ResolvedStart(r)..(ResolvedEnd(r) - 1)
    BY <1>5, <2>8, <2>9, <2>10
  <2>13. QED
    BY <2>4, <2>11, <2>12 DEF BytesWanted
<1>7. ASSUME NEW c \in BytesWanted PROVE c \in BytesRead
  <2>1. PICK r \in start.seq..end.seq :
          c \in {<<from_record_id(r), b>> : b \in ResolvedStart(r)..(ResolvedEnd(r) - 1)}
    BY <1>7 DEF BytesWanted
  <2>2. start.seq \in SequenceNumber /\ end.seq \in SequenceNumber
    BY <1>0 DEF RequestInv
  <2>3. r \in SequenceNumber /\ start.seq <= r /\ r <= end.seq
    BY <2>2, LocationAssumption DEF SequenceNumber
  <2>4. PICK f \in p..q : f = from_record_id(r)
    <3>1. p <= from_record_id(r) /\ from_record_id(r) <= q
      BY <1>2, <1>3, <2>2, <2>3, FileDomain DEF first, last
    <3>2. from_record_id(r) \in Nat
      BY <2>3, FileDomain, FileOf
    <3>3. QED
      BY <3>1, <3>2
  <2>5. PICK b \in ResolvedStart(r)..(ResolvedEnd(r) - 1) : c = <<f, b>>
    BY <2>1, <2>4
  <2>6. PICK m \in SequenceNumber : m = FirstIn(f)
    BY <1>0, <1>1, <1>2, <1>3, RequestInFile
  <2>7. PICK n \in SequenceNumber : n = LastIn(f)
    BY <1>0, <1>1, <1>2, <1>3, RequestInFile
  <2>8. /\ from_record_id(m) = f /\ from_record_id(n) = f
        /\ ResolvedStart(m) = RangeOf(f).from /\ ResolvedEnd(n) = ReadTo(f, RangeOf(f))
        /\ m <= r /\ r <= n
    BY <1>0, <1>1, <1>2, <1>3, <2>1, <2>3, <2>4, <2>6, <2>7, RequestInFile
  <2>9. ResolvedStart(m) <= ResolvedStart(r) /\ ResolvedEnd(r) <= ResolvedEnd(n)
    BY <1>0, <2>3, <2>4, <2>8, InFileOrder
  <2>10. b \in RangeOf(f).from..(ReadTo(f, RangeOf(f)) - 1)
    <3>1. b \in ResolvedStart(m)..(ResolvedEnd(n) - 1)
      BY <1>5, <2>3, <2>9
    <3>2. QED
      BY <2>8, <3>1
  <2>11. PICK i \in 1..Len(items) : f = p + i - 1
    <3>1. f - p + 1 \in 1..Len(items) /\ f = p + (f - p + 1) - 1
      BY <1>4
    <3>2. QED
      BY <3>1
  <2>12. items[i][1] = f /\ items[i][2] = RangeOf(f)
    BY <1>4, <2>11
  <2>13. QED
    BY <2>5, <2>10, <2>11, <2>12 DEF BytesRead
<1>8. QED
  BY <1>6, <1>7

(* A request between two resolved records in order is never refused by new.  *)
LEMMA ResolvedAccepted ==
  ASSUME RequestInv, IsResolved, start.seq <= end.seq
  PROVE  Validate(start, end) = "iterating"
<1>1. Layout /\ start.seq \in SequenceNumber /\ end.seq \in SequenceNumber
  BY DEF RequestInv
<1>2. PICK s \in SequenceNumber : s = start.seq
  BY <1>1
<1>3. PICK e \in SequenceNumber : e = end.seq
  BY <1>1
<1>4. /\ start.stream = end.stream
      /\ start.pos = ResolvedStart(s) /\ end.pos = ResolvedEnd(e) /\ s <= e
  BY <1>2, <1>3 DEF IsResolved
<1>5. /\ ResolvedStart(s) \in Nat /\ ResolvedStart(e) \in Nat /\ ResolvedEnd(e) \in Nat
      /\ ResolvedStart(e) < ResolvedEnd(e) /\ s \in Nat /\ e \in Nat
  BY <1>1, Walk, FileDomain
<1>6. from_record_id(s) = from_record_id(e) => ResolvedStart(s) <= ResolvedStart(e)
  BY <1>1, <1>4, InFileOrder
<1>7. ~ (end.pos <= (IF from_record_id(s) = from_record_id(e) THEN start.pos ELSE 0))
  BY <1>4, <1>5, <1>6
<1>8. ~ (s > e)
  BY <1>4, <1>5
<1>9. QED
  BY <1>2, <1>3, <1>4, <1>7, <1>8 DEF Validate

(* A RecordRangeLocation between two resolved records in order is never      *)
(* refused, and iterating it yields, file by file in order, exactly the      *)
(* bytes of the records asked for, whatever their lengths and however many   *)
(* files they span; the terminal file's successor is never asked for.        *)
THEOREM RangesAreExact == Spec => []RangeIsExact
<1>1. IInv => RangeIsExact
  <2>1. SUFFICES ASSUME IInv PROVE RangeIsExact
    OBVIOUS
  <2>2. RequestInv /\ IterationInv
    BY <2>1 DEF IInv
  <2>3. PICK p \in 0..MAX_FILE : p = first
    BY <2>2, EndpointFiles
  <2>4. PICK q \in 0..MAX_FILE : q = last
    BY <2>2, EndpointFiles
  <2>5. MAX_FILE \in Nat
    BY FileDomain
  <2>6. next_file <= MAX_FILE
    <3>1. status \in {"idle", "iterating", "exhausted"} \cup Errors
      BY <2>2 DEF RequestInv
    <3>2. next_file \in 0..MAX_FILE
      BY <2>2, <2>3, <2>4, <2>5, <3>1 DEF IterationInv
    <3>3. QED
      BY <2>5, <3>2
  <2>7. ASSUME IsResolved, start.seq <= end.seq PROVE status \notin Errors
    <3>1. Validate(start, end) = "iterating"
      BY <2>2, <2>7, ResolvedAccepted
    <3>2. "iterating" \notin Errors
      BY DEF Errors
    <3>3. QED
      BY <2>2, <3>1, <3>2 DEF RequestInv
  <2>8. ASSUME IsResolved, status = "exhausted"
        PROVE  BytesRead = BytesWanted
    BY <2>1, <2>8, ReadsWanted
  <2>9. ASSUME NEW i \in 1..Len(items) - 1 PROVE items[i][1] < items[i + 1][1]
    <3>1. Len(items) \in Nat
      BY <2>2 DEF IterationInv
    <3>2. i \in 1..Len(items) /\ i + 1 \in 1..Len(items)
      BY <3>1
    <3>3. items[i][1] = p + i - 1 /\ items[i + 1][1] = p + (i + 1) - 1
      BY <2>2, <2>3, <3>2 DEF IterationInv
    <3>4. QED
      BY <3>2, <3>3
  <2>10. QED
    BY <2>6, <2>7, <2>8, <2>9 DEF RangeIsExact
<1>2. QED
  BY <1>1, RangeInvariant, PTL

(* Every index of a file of the domain. *)
LEMMA IndexInFile ==
  ASSUME NEW f \in 0..MAX_FILE, NEW index \in 0..MAX_SEQUENCE, NEW seq,
         seq = record_id_at(f, index)
  PROVE  IF seq = -1 THEN first_record_id(f) + index > last_record_id(f)
         ELSE from_record_id(seq) = f /\ record_count_through(seq) = index + 1
<1>0. /\ MAX_SEQUENCE \in Nat /\ RECORDS_PER_FILE \in Nat /\ RECORDS_PER_FILE >= 1
      /\ f \in Nat /\ index \in Nat
  BY LocationAssumption, FileDomain
<1>1. PICK a \in Nat : a = first_record_id(f)
  BY <1>0, FirstOf
<1>2. CASE index > RECORDS_PER_FILE - 1 \/ a + index > MAX_SEQUENCE
  <2>1. seq = -1
    BY <1>1, <1>2 DEF record_id_at
  <2>2. a + index > last_record_id(f)
    BY <1>0, <1>1, <1>2 DEF last_record_id
  <2>3. QED
    BY <1>1, <2>1, <2>2
<1>3. CASE ~ (index > RECORDS_PER_FILE - 1 \/ a + index > MAX_SEQUENCE)
  <2>1. seq = a + index /\ seq \in Nat /\ seq # -1
    BY <1>0, <1>1, <1>3 DEF record_id_at
  <2>2. a <= seq /\ seq < a + RECORDS_PER_FILE
    BY <1>0, <1>3, <2>1
  <2>3. from_record_id(seq) = f
    BY <1>0, <1>1, <2>1, <2>2, FileUnique
  <2>4. record_count_through(seq) = seq - a + 1
    BY <1>1, <2>1, <2>3, FileOf
  <2>5. record_count_through(seq) = index + 1
    BY <1>0, <2>1, <2>4
  <2>6. QED
    BY <2>1, <2>3, <2>5
<1>4. QED
  BY <1>2, <1>3

(* Every sequence number is in the file from_record_id gives, at the index   *)
(* record_count_through gives, and record_id_at never reaches out of a file, *)
(* for every number of records per file and every largest sequence number.   *)
THEOREM FilesPartition == Spec => []FilesPartitionSequences
<1>1. IInv => FilesPartitionSequences
  <2>1. SUFFICES ASSUME IInv, status = "iterating" PROVE FilesPartitionSequences
    BY DEF FilesPartitionSequences
  <2>2. RequestInv /\ IterationInv
    BY <2>1 DEF IInv
  <2>3. ASSUME NEW seq \in SequenceNumber
        PROVE  /\ from_record_id(seq) \in 0..MAX_FILE
               /\ seq \in first_record_id(from_record_id(seq))..last_record_id(from_record_id(seq))
               /\ record_id_at(from_record_id(seq), record_count_through(seq) - 1) = seq
    <3>1. PICK f \in 0..MAX_FILE : f = from_record_id(seq)
      BY FileDomain
    <3>2. seq \in Nat /\ seq <= MAX_SEQUENCE /\ MAX_SEQUENCE \in Nat /\ RECORDS_PER_FILE \in Nat
      BY FileDomain, LocationAssumption
    <3>3. PICK a \in Nat : a = first_record_id(f)
      BY FileRecords, FileDomain
    <3>4. PICK z \in Nat : z = last_record_id(f)
      BY FileRecords, FileDomain
    <3>5. a <= seq /\ seq <= z
      BY <3>1, <3>3, <3>4, FileRecords
    <3>6. record_count_through(seq) = seq - a + 1 /\ seq < a + RECORDS_PER_FILE
      BY <3>1, <3>2, <3>3, FileOf
    <3>7. record_id_at(f, record_count_through(seq) - 1) = seq
      BY <3>2, <3>3, <3>5, <3>6 DEF record_id_at
    <3>8. seq \in a..z
      BY <3>2, <3>5
    <3>9. QED
      BY <3>1, <3>3, <3>4, <3>7, <3>8
  <2>4. start.seq \in SequenceNumber /\ end.seq \in SequenceNumber
    BY <2>2 DEF RequestInv
  <2>5. PICK f \in 0..MAX_FILE : f = next_file
    <3>1. first \in 0..MAX_FILE /\ last \in 0..MAX_FILE /\ MAX_FILE \in Nat
      BY <2>2, EndpointFiles, FileDomain
    <3>2. next_file \in first..last
      BY <2>1, <2>2 DEF IterationInv
    <3>3. QED
      BY <3>1, <3>2
  <2>6. \A index \in 0..MAX_SEQUENCE :
          LET seq == record_id_at(f, index)
          IN IF seq = -1 THEN first_record_id(f) + index > last_record_id(f)
             ELSE from_record_id(seq) = f /\ record_count_through(seq) = index + 1
    BY IndexInFile
  <2>7. QED
    BY <2>3, <2>4, <2>5, <2>6 DEF FilesPartitionSequences
<1>2. QED
  BY <1>1, RangeInvariant, PTL
=============================================================================
