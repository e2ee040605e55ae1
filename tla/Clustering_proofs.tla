------------------------- MODULE Clustering_proofs -------------------------
(***************************************************************************)
(* Proof that the stored clustering configuration always reads back.       *)
(*                                                                         *)
(* Validation is idempotent: what Hostname::parse keeps of an accepted     *)
(* domain is accepted again and kept as it is.  The write protocol leaves  *)
(* under the published name nothing but documents of validated parts.      *)
(***************************************************************************)
EXTENDS Clustering, SequenceTheorems, WellFoundedInduction, TLAPS

-----------------------------------------------------------------------------
(* Validation is idempotent. *)

(* A nonempty set of natural numbers has a least element. *)
LEMMA LeastNat ==
  ASSUME NEW T \in SUBSET Nat, T # {}
  PROVE  \E x \in T : \A y \in T : x <= y
<1>1. PICK x \in T : \A y \in T : ~ (<<y, x>> \in OpToRel(<, Nat))
  BY WFMin, NatLessThanWellFounded, Zenon
<1>2. \A y \in T : ~ (y < x)
  BY <1>1 DEF OpToRel
<1>3. QED
  BY <1>2

(* A nonempty set of positions has a greatest element. *)
LEMMA GreatestPosition ==
  ASSUME NEW n \in Nat, NEW T \in SUBSET (1..n), T # {}
  PROVE  \E x \in T : \A y \in T : x >= y
<1> DEFINE U == {n - x : x \in T}
<1>0. \A x \in T : x \in Int /\ n - x \in Nat
  OBVIOUS
<1>1. U \in SUBSET Nat /\ U # {}
  BY <1>0
<1>2. PICK u \in U : \A y \in U : u <= y
  BY <1>1, LeastNat
<1>3. PICK x \in T : u = n - x
  OBVIOUS
<1>4. ASSUME NEW y \in T PROVE x >= y
  <2>1. u <= n - y
    BY <1>2
  <2>2. x \in Int /\ y \in Int
    BY <1>0
  <2>3. QED
    BY <1>3, <2>1, <2>2
<1>5. QED
  BY <1>4

(* What is left of a name by trim begins and ends with something solid. *)
LEMMA TrimShape ==
  ASSUME NEW s \in Seq(Characters), Trim(s) # <<>>
  PROVE  /\ Trim(s) \in Seq(Characters)
         /\ Len(Trim(s)) >= 1
         /\ Trim(s)[1] # "space"
         /\ Trim(s)[Len(Trim(s))] # "space"
<1> DEFINE solid == {i \in 1..Len(s) : s[i] # "space"}
<1>0. Len(s) \in Nat
  OBVIOUS
<1>1. solid # {} /\ Trim(s) = SubSeq(s, Min(solid), Max(solid))
  BY DEF Trim
<1>2. solid \in SUBSET Nat /\ solid \in SUBSET (1..Len(s))
  BY <1>0
<1>3. PICK x \in solid : \A y \in solid : x <= y
  BY <1>1, <1>2, LeastNat
<1>4. PICK z \in solid : \A y \in solid : z >= y
  BY <1>0, <1>1, <1>2, GreatestPosition
<1>5. PICK m : m = Min(solid)
  OBVIOUS
<1>6. PICK n : n = Max(solid)
  OBVIOUS
<1>7. m \in solid
  BY <1>3, <1>5 DEF Min
<1>8. n \in solid /\ n >= m
  BY <1>4, <1>6, <1>7 DEF Max
<1>9. m \in 1..Len(s) /\ n \in 1..Len(s) /\ m <= n /\ s[m] # "space" /\ s[n] # "space"
  BY <1>7, <1>8
<1> HIDE DEF solid
<1>10. Trim(s) = SubSeq(s, m, n)
  BY <1>1, <1>5, <1>6
<1>11. /\ SubSeq(s, m, n) \in Seq(Characters)
       /\ Len(SubSeq(s, m, n)) = n - m + 1
       /\ \A i \in 1..n - m + 1 : SubSeq(s, m, n)[i] = s[m + i - 1]
  BY <1>0, <1>9, SubSeqProperties
<1>12. n - m + 1 \in Nat /\ n - m + 1 >= 1
  BY <1>0, <1>9
<1>13. /\ SubSeq(s, m, n)[1] = s[m + 1 - 1]
       /\ SubSeq(s, m, n)[n - m + 1] = s[m + (n - m + 1) - 1]
  BY <1>11, <1>12
<1>14. m + 1 - 1 = m /\ m + (n - m + 1) - 1 = n
  BY <1>0, <1>9
<1>15. QED
  BY <1>9, <1>10, <1>11, <1>12, <1>13, <1>14

(* Trimming such a name again changes nothing. *)
LEMMA TrimFixed ==
  ASSUME NEW S, NEW s \in Seq(S), Len(s) >= 1, s[1] # "space", s[Len(s)] # "space"
  PROVE  Trim(s) = s
<1> DEFINE solid == {i \in 1..Len(s) : s[i] # "space"}
<1>0. Len(s) \in Nat
  OBVIOUS
<1>1. 1 \in solid /\ Len(s) \in solid
  BY <1>0
<1>2. \A x \in solid : x \in Int /\ 1 <= x /\ x <= Len(s)
  BY <1>0
<1>3. Trim(s) = SubSeq(s, Min(solid), Max(solid))
  BY <1>1 DEF Trim
<1> HIDE DEF solid
<1>4. PICK m : m = Min(solid)
  OBVIOUS
<1>5. m \in solid /\ \A y \in solid : m <= y
  BY <1>1, <1>2, <1>4 DEF Min
<1>6. m = 1
  BY <1>1, <1>2, <1>5
<1>7. PICK n : n = Max(solid)
  OBVIOUS
<1>8. n \in solid /\ \A y \in solid : n >= y
  BY <1>0, <1>1, <1>2, <1>7 DEF Max
<1>9. n = Len(s)
  BY <1>0, <1>1, <1>2, <1>8
<1>10. SubSeq(s, 1, Len(s)) = s
  BY SubSeqFull
<1>11. QED
  BY <1>3, <1>4, <1>6, <1>7, <1>9, <1>10

(* to_ascii_lowercase keeps the length and every class but "upper". *)
LEMMA LowerShape ==
  ASSUME NEW s \in Seq(Characters)
  PROVE  /\ Lower(s) \in Seq(Characters)
         /\ Len(Lower(s)) = Len(s)
         /\ \A i \in 1..Len(s) :
              Lower(s)[i] = IF s[i] = "upper" THEN "lower" ELSE s[i]
         /\ \A i \in 1..Len(s), c \in {"space", "dot", "hyphen"} :
              Lower(s)[i] = c <=> s[i] = c
<1>0. Len(s) \in Nat /\ \A i \in 1..Len(s) : s[i] \in Characters
  OBVIOUS
<1>1. Lower(s) \in [1..Len(s) -> Characters]
  BY <1>0 DEF Lower, Characters
<1>2. Lower(s) \in Seq(Characters) /\ Len(Lower(s)) = Len(s)
  BY <1>0, <1>1
<1>3. \A i \in 1..Len(s) : Lower(s)[i] = IF s[i] = "upper" THEN "lower" ELSE s[i]
  BY DEF Lower
<1>4. QED
  BY <1>2, <1>3

(* Lowercasing twice is lowercasing once. *)
LEMMA LowerFixed ==
  ASSUME NEW s \in Seq(Characters)
  PROVE  Lower(Lower(s)) = Lower(s)
<1>1. /\ Lower(s) \in Seq(Characters) /\ Len(Lower(s)) = Len(s)
      /\ \A i \in 1..Len(s) : Lower(s)[i] # "upper"
  BY LowerShape
<1>2. PICK t \in Seq(Characters) : t = Lower(s)
  BY <1>1
<1>3. \A i \in 1..Len(t) : t[i] # "upper"
  BY <1>1, <1>2
<1>4. Lower(t) = [i \in 1..Len(t) |-> t[i]]
  BY <1>3 DEF Lower
<1>5. Lower(t) = t
  BY <1>4
<1>6. QED
  BY <1>2, <1>5

(* Removing the root dot and lowercasing commute. *)
LEMMA StripLower ==
  ASSUME NEW s \in Seq(Characters)
  PROVE  /\ strip_suffix(s) \in Seq(Characters)
         /\ strip_suffix(Lower(s)) = Lower(strip_suffix(s))
<1>0. Len(s) \in Nat
  OBVIOUS
<1>1. PICK t \in Seq(Characters) : t = Lower(s)
  BY LowerShape
<1>2. /\ Len(t) = Len(s)
      /\ \A i \in 1..Len(s) : t[i] = IF s[i] = "upper" THEN "lower" ELSE s[i]
      /\ \A i \in 1..Len(s) : t[i] = "dot" <=> s[i] = "dot"
  BY <1>1, LowerShape
<1>3. CASE s # <<>> /\ s[Len(s)] = "dot"
  <2>1. Len(s) >= 1 /\ Len(s) - 1 \in 0..Len(s)
    BY <1>0, <1>3
  <2>2. t # <<>> /\ t[Len(t)] = "dot"
    BY <1>0, <1>2, <1>3, <2>1
  <2>3. /\ strip_suffix(s) = SubSeq(s, 1, Len(s) - 1)
        /\ strip_suffix(t) = SubSeq(t, 1, Len(s) - 1)
    BY <1>2, <1>3, <2>2 DEF strip_suffix
  <2>4. PICK n \in Nat : n = Len(s) - 1
    BY <2>1, <1>0
  <2>5. n <= Len(s) /\ n <= Len(t)
    BY <1>0, <1>2, <2>4
  <2>50. \A i \in 1..n : s[i] \in Characters /\ t[i] \in Characters
    BY <1>0, <1>2, <2>5
  <2>51. 1 \in Int /\ n \in Int
    OBVIOUS
  <2>52. SubSeq(s, 1, n) \in Seq(Characters) /\ SubSeq(t, 1, n) \in Seq(Characters)
    BY <2>50, <2>51, SubSeqProperties, Zenon
  <2>6. PICK u \in Seq(Characters) : u = SubSeq(s, 1, n)
    BY <2>52
  <2>7. PICK v \in Seq(Characters) : v = SubSeq(t, 1, n)
    BY <2>52
  <2>8. Len(u) = n /\ \A i \in 1..n : u[i] = s[i]
    BY <2>5, <2>6
  <2>9. Len(v) = n /\ \A i \in 1..n : v[i] = t[i]
    BY <2>5, <2>7
  <2>10. PICK w \in Seq(Characters) : w = Lower(u)
    BY LowerShape
  <2>110. /\ Len(w) = Len(u)
          /\ \A i \in 1..Len(u) : w[i] = IF u[i] = "upper" THEN "lower" ELSE u[i]
    BY <2>10, LowerShape
  <2>11. /\ Len(w) = n
         /\ \A i \in 1..n : w[i] = IF u[i] = "upper" THEN "lower" ELSE u[i]
    BY <2>8, <2>110
  <2>12. \A i \in 1..n : v[i] = w[i]
    BY <1>0, <1>2, <2>5, <2>8, <2>9, <2>11
  <2>13. v = w
    BY <2>9, <2>11, <2>12, SeqEqual
  <2>14. QED
    BY <1>1, <2>3, <2>4, <2>6, <2>7, <2>10, <2>13
<1>4. CASE ~ (s # <<>> /\ s[Len(s)] = "dot")
  <2>1. strip_suffix(s) = s
    BY <1>4 DEF strip_suffix
  <2>2. ~ (t # <<>> /\ t[Len(t)] = "dot")
    <3>1. CASE s = <<>>
      BY <1>2, <3>1
    <3>2. CASE s # <<>>
      BY <1>0, <1>2, <1>4, <3>2
    <3>3. QED
      BY <3>1, <3>2
  <2>3. strip_suffix(t) = t
    BY <2>2 DEF strip_suffix
  <2>4. QED
    BY <1>1, <2>1, <2>3
<1>5. QED
  BY <1>3, <1>4

(* The labels of a name are where they were. *)
LEMMA LabelsLower ==
  ASSUME NEW s \in Seq(Characters)
  PROVE  Labels(Lower(s)) = Labels(s)
<1>0. Len(s) \in Nat
  OBVIOUS
<1>1. PICK t \in Seq(Characters) : t = Lower(s)
  BY LowerShape
<1>2. Len(t) = Len(s) /\ \A i \in 1..Len(s) : t[i] = "dot" <=> s[i] = "dot"
  BY <1>1, LowerShape
<1>3. ASSUME NEW a \in 1..Len(s) + 1, NEW b \in 0..Len(s)
      PROVE  <<a, b>> \in Labels(t) <=> <<a, b>> \in Labels(s)
  <2>1. a = 1 \/ a - 1 \in 1..Len(s)
    BY <1>0
  <2>2. b = Len(s) \/ b + 1 \in 1..Len(s)
    BY <1>0
  <2>3. \A i \in a..b : i \in 1..Len(s)
    BY <1>0
  <2>4. (a = 1 \/ t[a - 1] = "dot") <=> (a = 1 \/ s[a - 1] = "dot")
    BY <1>2, <2>1
  <2>5. (b = Len(t) \/ t[b + 1] = "dot") <=> (b = Len(s) \/ s[b + 1] = "dot")
    BY <1>2, <2>2
  <2>6. (\A i \in a..b : t[i] # "dot") <=> (\A i \in a..b : s[i] # "dot")
    BY <1>2, <2>3
  <2>7. QED
    BY <1>2, <2>4, <2>5, <2>6 DEF Labels
<1>4. Labels(t) \subseteq (1..Len(s) + 1) \X (0..Len(s))
  BY <1>2 DEF Labels
<1>5. Labels(s) \subseteq (1..Len(s) + 1) \X (0..Len(s))
  BY DEF Labels
<1>6. \A ab \in (1..Len(s) + 1) \X (0..Len(s)) : ab \in Labels(t) <=> ab \in Labels(s)
  <2>1. SUFFICES ASSUME NEW ab \in (1..Len(s) + 1) \X (0..Len(s))
                 PROVE  ab \in Labels(t) <=> ab \in Labels(s)
    OBVIOUS
  <2>2. ab = <<ab[1], ab[2]>> /\ ab[1] \in 1..Len(s) + 1 /\ ab[2] \in 0..Len(s)
    BY <2>1
  <2>3. <<ab[1], ab[2]>> \in Labels(t) <=> <<ab[1], ab[2]>> \in Labels(s)
    BY <1>3, <2>2
  <2>4. QED
    BY <2>2, <2>3
<1>7. Labels(t) = Labels(s)
  BY <1>4, <1>5, <1>6
<1>8. QED
  BY <1>1, <1>7

(* A label breaks a rule exactly if it does in lowercase. *)
LEMMA FailureLower ==
  ASSUME NEW s \in Seq(Characters)
  PROVE  LabelFailure(Lower(s)) = "none" <=> LabelFailure(s) = "none"
<1> DEFINE Fine(l) == /\ l # <<>> /\ ~ (Len(l) > MAX_LABEL_LENGTH)
                      /\ \A i \in 1..Len(l) : l[i] \in Alphanumeric \cup {"hyphen"}
                      /\ l[1] # "hyphen" /\ l[Len(l)] # "hyphen"
<1>0. Len(s) \in Nat
  OBVIOUS
<1>1. \A l : LabelFailure(l) = "none" <=> Fine(l)
  BY DEF LabelFailure
<1>2. PICK t \in Seq(Characters) : t = Lower(s)
  BY LowerShape
<1>3. /\ Len(t) = Len(s)
      /\ \A i \in 1..Len(s) : t[i] = IF s[i] = "upper" THEN "lower" ELSE s[i]
  BY <1>2, LowerShape
<1>4. t = <<>> <=> s = <<>>
  BY <1>3
<1>5. (\A i \in 1..Len(t) : t[i] \in Alphanumeric \cup {"hyphen"})
        <=> (\A i \in 1..Len(s) : s[i] \in Alphanumeric \cup {"hyphen"})
  BY <1>3 DEF Alphanumeric
<1>6. s # <<>> => /\ t[1] = "hyphen" <=> s[1] = "hyphen"
                  /\ t[Len(t)] = "hyphen" <=> s[Len(s)] = "hyphen"
  BY <1>0, <1>3
<1>7. Fine(t) <=> Fine(s)
  BY <1>3, <1>4, <1>5, <1>6
<1>8. QED
  BY <1>1, <1>2, <1>7

(* A part of a name in lowercase is that part, in lowercase. *)
LEMMA PartLower ==
  ASSUME NEW s \in Seq(Characters), NEW a \in 1..Len(s) + 1, NEW b \in 0..Len(s)
  PROVE  /\ SubSeq(s, a, b) \in Seq(Characters)
         /\ SubSeq(Lower(s), a, b) = Lower(SubSeq(s, a, b))
<1>0. Len(s) \in Nat /\ a \in Nat /\ b \in Nat
  OBVIOUS
<1>1. PICK t \in Seq(Characters) : t = Lower(s)
  BY LowerShape
<1>2. /\ Len(t) = Len(s)
      /\ \A i \in 1..Len(s) : t[i] = IF s[i] = "upper" THEN "lower" ELSE s[i]
  BY <1>1, LowerShape
<1>3. PICK u : u = SubSeq(s, a, b)
  OBVIOUS
<1>4. PICK v : v = SubSeq(t, a, b)
  OBVIOUS
<1>50. (IF a <= b THEN b - a + 1 ELSE 0) \in Nat
  BY <1>0
<1>5. PICK n \in Nat : n = IF a <= b THEN b - a + 1 ELSE 0
  BY <1>50
<1>6. /\ u \in Seq(Characters) /\ Len(u) = n
      /\ \A i \in 1..n : u[i] = s[a + i - 1]
  BY <1>0, <1>3, <1>5
<1>7. /\ v \in Seq(Characters) /\ Len(v) = n
      /\ \A i \in 1..n : v[i] = t[a + i - 1]
  BY <1>0, <1>2, <1>4, <1>5
<1>8. \A i \in 1..n : a + i - 1 \in 1..Len(s)
  BY <1>0, <1>5
<1>9. PICK w \in Seq(Characters) : w = Lower(u)
  BY <1>6, LowerShape
<1>100. /\ Len(w) = Len(u)
        /\ \A i \in 1..Len(u) : w[i] = IF u[i] = "upper" THEN "lower" ELSE u[i]
  <2>1. u \in Seq(Characters)
    BY <1>6
  <2>2. QED
    BY <1>9, <2>1, LowerShape
<1>10. /\ Len(w) = n
       /\ \A i \in 1..n : w[i] = IF u[i] = "upper" THEN "lower" ELSE u[i]
  BY <1>6, <1>100
<1>11. \A i \in 1..n : v[i] = w[i]
  BY <1>2, <1>6, <1>7, <1>8, <1>10
<1>12. v = w
  BY <1>7, <1>10, <1>11, SeqEqual
<1>13. QED
  BY <1>1, <1>3, <1>4, <1>6, <1>9, <1>12

(* What parse decides: the domain has something solid, and its labels are    *)
(* not too long together, no IP literal, and each of them fine.              *)
LabelsFine(l) == \A ab \in Labels(l) : LabelFailure(SubSeq(l, ab[1], ab[2])) = "none"
Accepted(d) ==
  LET l == strip_suffix(Trim(d))
  IN /\ Trim(d) # <<>> /\ ~ (Len(l) > MAX_NAME_LENGTH) /\ l \notin IpLiterals
     /\ LabelsFine(l)

LEMMA ParseDecides ==
  ASSUME NEW d
  PROVE  /\ parse(d).ok = TRUE \/ parse(d).ok = FALSE
         /\ parse(d).ok <=> Accepted(d)
         /\ parse(d).ok => parse(d) = Ok(Lower(Trim(d))) /\ parse(d).value = Lower(Trim(d))
<1> DEFINE t == Trim(d)
           l == strip_suffix(t)
           Failure(ab) == LabelFailure(SubSeq(l, ab[1], ab[2]))
           bad == {ab \in Labels(l) : Failure(ab) # "none"}
<1>1. \A k : Err(k).ok = FALSE
  BY Zenon DEF Err
<1>2. \A v : Ok(v).ok = TRUE /\ Ok(v).value = v
  BY Zenon DEF Ok
<1>3. parse(d) = IF t = <<>> THEN Err("Empty")
                 ELSE IF Len(l) > MAX_NAME_LENGTH THEN Err("TooLong")
                 ELSE IF l \in IpLiterals THEN Err("IpLiteral")
                 ELSE IF bad # {} THEN
                   Err(Failure(CHOOSE ab \in bad : \A cd \in bad : ab[1] <= cd[1]))
                 ELSE Ok(Lower(t))
  BY Zenon DEF parse
<1>4. bad = {} <=> LabelsFine(l)
  BY DEF LabelsFine
<1>5. Accepted(d) <=> /\ t # <<>> /\ ~ (Len(l) > MAX_NAME_LENGTH) /\ l \notin IpLiterals
                      /\ LabelsFine(l)
  BY Zenon DEF Accepted
<1> HIDE DEF t, l, Failure, bad
<1>6. /\ parse(d).ok = TRUE \/ parse(d).ok = FALSE
      /\ parse(d).ok <=> Accepted(d)
      /\ parse(d).ok => parse(d) = Ok(Lower(t)) /\ parse(d).value = Lower(t)
  <2>1. CASE t = <<>>
    BY <1>1, <1>3, <1>5, <2>1, Zenon
  <2>2. CASE t # <<>> /\ Len(l) > MAX_NAME_LENGTH
    BY <1>1, <1>3, <1>5, <2>2, Zenon
  <2>3. CASE t # <<>> /\ ~ (Len(l) > MAX_NAME_LENGTH) /\ l \in IpLiterals
    BY <1>1, <1>3, <1>5, <2>3, Zenon
  <2>4. CASE t # <<>> /\ ~ (Len(l) > MAX_NAME_LENGTH) /\ l \notin IpLiterals /\ bad # {}
    BY <1>1, <1>3, <1>4, <1>5, <2>4, Zenon
  <2>5. CASE t # <<>> /\ ~ (Len(l) > MAX_NAME_LENGTH) /\ l \notin IpLiterals /\ bad = {}
    <3>1. parse(d) = Ok(Lower(t))
      BY <1>3, <2>5, Zenon
    <3>2. QED
      BY <1>2, <1>4, <1>5, <2>5, <3>1, Zenon
  <2>6. QED
    BY <2>1, <2>2, <2>3, <2>4, <2>5, Zenon
<1>7. QED
  BY <1>6 DEF t

(* Lowercase does not change whether the labels are fine. *)
LEMMA FineLower ==
  ASSUME NEW l \in Seq(Characters)
  PROVE  LabelsFine(Lower(l)) <=> LabelsFine(l)
<1>1. PICK m \in Seq(Characters) : m = Lower(l)
  BY LowerShape
<1>2. Labels(m) = Labels(l)
  BY <1>1, LabelsLower
<1>3. ASSUME NEW ab \in Labels(l)
      PROVE  LabelFailure(SubSeq(m, ab[1], ab[2])) = "none"
               <=> LabelFailure(SubSeq(l, ab[1], ab[2])) = "none"
  <2>1. ab[1] \in 1..Len(l) + 1 /\ ab[2] \in 0..Len(l)
    BY DEF Labels
  <2>2. /\ SubSeq(l, ab[1], ab[2]) \in Seq(Characters)
        /\ SubSeq(m, ab[1], ab[2]) = Lower(SubSeq(l, ab[1], ab[2]))
    BY <1>1, <2>1, PartLower
  <2>3. QED
    BY <2>2, FailureLower
<1>4. LabelsFine(m) <=> LabelsFine(l)
  BY <1>2, <1>3 DEF LabelsFine
<1>5. QED
  BY <1>1, <1>4

(* Hostname::parse takes what it kept of a domain and keeps it as it is, so  *)
(* loading a stored domain gives the stored domain.                          *)
LEMMA ParseAgain ==
  ASSUME NEW d \in Seq(Characters), parse(d).ok,
         Lower(strip_suffix(Trim(d))) \in IpLiterals <=> strip_suffix(Trim(d)) \in IpLiterals
  PROVE  parse(parse(d).value) = Ok(parse(d).value)
<1> DEFINE t == Trim(d)
           l == strip_suffix(t)
<1>1. /\ t # <<>> /\ ~ (Len(l) > MAX_NAME_LENGTH) /\ l \notin IpLiterals
      /\ LabelsFine(l) /\ parse(d).value = Lower(t)
  BY ParseDecides, Zenon DEF Accepted
<1>2. /\ t \in Seq(Characters) /\ Len(t) >= 1
      /\ t[1] # "space" /\ t[Len(t)] # "space"
  BY <1>1, TrimShape
<1>3. l \in Seq(Characters)
  BY <1>2, StripLower
<1>4. PICK u \in Seq(Characters) : u = Lower(t)
  BY <1>2, LowerShape
<1>5. PICK m \in Seq(Characters) : m = Lower(l)
  BY <1>3, LowerShape
<1>6. parse(d).value = u
  BY <1>1, <1>4
<1>7. Trim(u) = u /\ u # <<>>
  <2>1. Len(u) = Len(t)
    BY <1>2, <1>4, LowerShape
  <2>2. 1 \in 1..Len(t) /\ Len(t) \in 1..Len(t)
    BY <1>2
  <2>3. u[1] # "space" /\ u[Len(t)] # "space"
    BY <1>2, <1>4, <2>2, LowerShape
  <2>4. Len(u) >= 1
    BY <1>2, <2>1
  <2>5. u # <<>>
    BY <2>4
  <2>6. QED
    BY <2>1, <2>3, <2>4, <2>5, TrimFixed
<1>8. strip_suffix(u) = m
  BY <1>2, <1>4, <1>5, StripLower
<1>9. ~ (Len(m) > MAX_NAME_LENGTH)
  BY <1>1, <1>3, <1>5, LowerShape
<1>10. m \notin IpLiterals
  BY <1>1, <1>5
<1>11. LabelsFine(m)
  BY <1>1, <1>3, <1>5, FineLower
<1>12. Lower(u) = u
  BY <1>2, <1>4, LowerFixed
<1>13. parse(u) = Ok(u)
  <2>1. Accepted(u)
    BY <1>7, <1>8, <1>9, <1>10, <1>11, Zenon DEF Accepted
  <2>2. parse(u) = Ok(Lower(Trim(u)))
    BY <2>1, ParseDecides, Zenon
  <2>3. QED
    BY <1>7, <1>12, <2>2
<1>14. QED
  BY <1>6, <1>13

(* So does NodeName::parse. *)
LEMMA NodeAgain ==
  ASSUME NEW w, NodeName(w).ok
  PROVE  /\ NodeName(w).value \in NodeNames
         /\ NodeName(NodeName(w).value) = Ok(NodeName(w).value)
<1>1. Err("InvalidNodeName").ok = FALSE
  BY Zenon DEF Err
<1>2. Trim(w) \in NodeNames
  BY <1>1, Zenon DEF NodeName
<1>3. NodeName(w).value = Trim(w)
  BY <1>2 DEF NodeName, Ok
<1>4. ASSUME NEW v \in NodeNames PROVE Trim(v) = v
  <2>1. PICK word \in {"master", "replica-1", "replica-2"} : v = <<word>>
    BY Zenon DEF NodeNames
  <2>2. word # "space"
    BY <2>1
  <2>3. v \in Seq({"master", "replica-1", "replica-2"}) /\ Len(v) = 1 /\ v[1] = word
    BY <2>1
  <2>4. Len(v) >= 1 /\ v[1] # "space" /\ v[Len(v)] # "space"
    BY <2>2, <2>3
  <2>5. QED
    BY <2>3, <2>4, TrimFixed, Zenon
<1>5. \A v \in NodeNames : NodeName(v) = Ok(v)
  BY <1>4, Zenon DEF NodeName
<1>6. QED
  BY <1>2, <1>3, <1>5, Zenon

(* The documents that a configuration accepted at startup is stored in. *)
Document(uuid, input) == [cluster_id |-> uuid, configuration |-> try_from(input).value]
Stored(input) ==
  {file \in {Document(uuid, input) : uuid \in Uuids} : try_from(input).ok}

(* A document read from the file validates to itself. *)
LEMMA ReadsBack ==
  ASSUME NEW input \in RawInputs, NEW file \in {Absent} \cup Stored(input)
  PROVE  read_json(file).ok /\ read_json(file).value = file
<1>0. \A v : Ok(v).ok = TRUE /\ Ok(v).value = v
  BY Zenon DEF Ok
<1>00. \A v : Err(v).ok = FALSE
  BY Zenon DEF Err
<1>1. CASE file = Absent
  BY <1>0, <1>1, Zenon DEF read_json
<1>2. CASE file # Absent
  <2>1. PICK uuid \in Uuids : file = Document(uuid, input)
    BY <1>2 DEF Stored
  <2>2. try_from(input).ok
    BY <1>2 DEF Stored
  <2>3. file # Torn
    BY <2>1, TornAssumption, Zenon DEF Document
  <2>4. /\ file = [cluster_id |-> uuid, configuration |-> try_from(input).value]
        /\ file.configuration = try_from(input).value
    BY <2>1 DEF Document
  <2>5. CASE file.configuration = Single
    BY <1>0, <1>2, <2>3, <2>5, Zenon DEF read_json
  <2>6. CASE file.configuration # Single
    <3>1. /\ input.cluster # NoCluster
          /\ try_from(input) = membership(input.cluster.node, input.cluster.domain)
      BY <1>0, <1>00, <2>2, <2>4, <2>6 DEF try_from
    <3> DEFINE node == input.cluster.node
               domain == input.cluster.domain
    <3>2. /\ NodeName(node).ok /\ parse(domain).ok
          /\ membership(node, domain)
               = Ok(ClusterMembership(NodeName(node).value, parse(domain).value))
      BY <1>0, <2>2, <3>1, Zenon DEF membership
    <3>3. PICK n : n = NodeName(node).value
      OBVIOUS
    <3>4. PICK d : d = parse(domain).value
      OBVIOUS
    <3>5. NodeName(n) = Ok(n)
      BY <3>2, <3>3, NodeAgain
    <3>6. domain \in Seq(Characters)
      BY <3>1, ClusteringAssumption
    <3>7. parse(d) = Ok(d)
      <4>1. Lower(strip_suffix(Trim(domain))) \in IpLiterals
              <=> strip_suffix(Trim(domain)) \in IpLiterals
        BY <3>1, IpAssumption, Zenon
      <4>2. QED
        BY <3>2, <3>4, <3>6, <4>1, ParseAgain
    <3>8. file.configuration = ClusterMembership(n, d)
      BY <1>0, <2>4, <3>1, <3>2, <3>3, <3>4, Zenon
    <3>9. ClusterMembership(n, d).node = n /\ ClusterMembership(n, d).domain = d
      BY Zenon DEF ClusterMembership
    <3>10. membership(n, d) = Ok(ClusterMembership(n, d))
      BY <1>0, <3>5, <3>7, Zenon DEF membership
    <3>11. read_json(file) = Ok([file EXCEPT !.configuration = ClusterMembership(n, d)])
      <4>1. PICK loaded : loaded = membership(file.configuration.node, file.configuration.domain)
        OBVIOUS
      <4>2. loaded = Ok(ClusterMembership(n, d))
        BY <3>8, <3>9, <3>10, <4>1
      <4>3. loaded.ok = TRUE /\ loaded.value = ClusterMembership(n, d)
        BY <1>0, <4>2, Zenon
      <4>4. read_json(file) = IF loaded.ok
                              THEN Ok([file EXCEPT !.configuration = loaded.value]) ELSE loaded
        BY <1>2, <2>3, <2>6, <4>1 DEF read_json
      <4>5. QED
        BY <4>3, <4>4
    <3>12. [file EXCEPT !.configuration = ClusterMembership(n, d)] = file
      <4>1. PICK c : c = ClusterMembership(n, d)
        OBVIOUS
      <4>2. file = [cluster_id |-> uuid, configuration |-> c]
        BY <2>4, <3>8, <4>1
      <4>3. [file EXCEPT !.configuration = c] = file
        BY <4>2
      <4>4. QED
        BY <4>1, <4>3
    <3>13. QED
      BY <1>0, <3>11, <3>12, Zenon
  <2>7. QED
    BY <2>5, <2>6
<1>3. QED
  BY <1>1, <1>2

-----------------------------------------------------------------------------
(* The labels against the grammar. *)

(* A label begins at the start and after every dot. *)
LEMMA LabelAfter ==
  ASSUME NEW s \in Seq(Characters), NEW i \in 0..Len(s), i = 0 \/ s[i] = "dot"
  PROVE  \E b \in 0..Len(s) : <<i + 1, b>> \in Labels(s)
<1>0. Len(s) \in Nat /\ i \in Nat
  OBVIOUS
<1> DEFINE T == {x \in i + 1..Len(s) + 1 : x = Len(s) + 1 \/ s[x] = "dot"}
<1>1. T \in SUBSET Nat /\ Len(s) + 1 \in T
  BY <1>0
<1>2. PICK x \in T : \A y \in T : x <= y
  BY <1>1, LeastNat
<1>3. x \in Nat /\ i + 1 <= x /\ x <= Len(s) + 1 /\ (x = Len(s) + 1 \/ s[x] = "dot")
  BY <1>0
<1>4. PICK b \in 0..Len(s) : b = x - 1
  BY <1>0, <1>3
<1>5. \A j \in i + 1..b : s[j] # "dot"
  <2>1. SUFFICES ASSUME NEW j \in i + 1..b, s[j] = "dot" PROVE FALSE
    OBVIOUS
  <2>2. j \in T
    BY <1>0, <1>3, <1>4, <2>1
  <2>3. x <= j
    BY <1>2, <2>2
  <2>4. QED
    BY <1>0, <1>3, <1>4, <2>3
<1>6. /\ i + 1 \in 1..Len(s) + 1 /\ i + 1 <= b + 1
      /\ i + 1 = 1 \/ s[i + 1 - 1] = "dot"
      /\ b = Len(s) \/ s[b + 1] = "dot"
  <2>1. i + 1 \in 1..Len(s) + 1 /\ i + 1 <= b + 1 /\ i + 1 - 1 = i /\ b + 1 = x
    BY <1>0, <1>3, <1>4
  <2>2. b = Len(s) \/ s[b + 1] = "dot"
    BY <1>0, <1>3, <1>4, <2>1
  <2>3. i + 1 = 1 \/ s[i + 1 - 1] = "dot"
    BY <1>0, <2>1
  <2>4. QED
    BY <2>1, <2>2, <2>3
<1>7. <<i + 1, b>> \in Labels(s)
  BY <1>5, <1>6 DEF Labels
<1>8. QED
  BY <1>7

(* A label ends at the end and before every dot. *)
LEMMA LabelBefore ==
  ASSUME NEW s \in Seq(Characters), NEW i \in 1..Len(s) + 1, i = Len(s) + 1 \/ s[i] = "dot"
  PROVE  \E a \in 1..Len(s) + 1 : <<a, i - 1>> \in Labels(s)
<1>0. Len(s) \in Nat /\ i \in Nat
  OBVIOUS
<1> DEFINE T == {x \in 1..i : x = 1 \/ s[x - 1] = "dot"}
<1>1. T \in SUBSET (1..i) /\ 1 \in T
  BY <1>0
<1>2. PICK a \in T : \A y \in T : a >= y
  BY <1>0, <1>1, GreatestPosition
<1>3. a \in Nat /\ 1 <= a /\ a <= i /\ (a = 1 \/ s[a - 1] = "dot")
  BY <1>0
<1>4. PICK b \in 0..Len(s) : b = i - 1
  BY <1>0
<1>5. \A j \in a..b : s[j] # "dot"
  <2>1. SUFFICES ASSUME NEW j \in a..b, s[j] = "dot" PROVE FALSE
    OBVIOUS
  <2>2. j \in Int /\ a <= j /\ j + 1 \in 1..i /\ (j + 1) - 1 = j
    BY <1>0, <1>3, <1>4
  <2>3. j + 1 \in T
    BY <2>1, <2>2
  <2>4. a >= j + 1
    BY <1>2, <2>3
  <2>5. QED
    BY <1>3, <2>2, <2>4
<1>6. /\ a \in 1..Len(s) + 1 /\ a <= b + 1
      /\ b = Len(s) \/ s[b + 1] = "dot"
  <2>1. a \in 1..Len(s) + 1 /\ a <= b + 1 /\ b + 1 = i
    BY <1>0, <1>3, <1>4
  <2>2. b = Len(s) \/ s[b + 1] = "dot"
    BY <1>0, <1>4, <2>1
  <2>3. QED
    BY <2>1, <2>2
<1>7. <<a, b>> \in Labels(s)
  BY <1>3, <1>5, <1>6 DEF Labels
<1>8. QED
  BY <1>4, <1>6, <1>7

(* Every character but a dot is in a label. *)
LEMMA LabelAround ==
  ASSUME NEW s \in Seq(Characters), NEW i \in 1..Len(s), s[i] # "dot"
  PROVE  \E a \in 1..Len(s) + 1, b \in 0..Len(s) : <<a, b>> \in Labels(s) /\ a <= i /\ i <= b
<1>0. Len(s) \in Nat /\ i \in Nat
  OBVIOUS
<1> DEFINE T == {x \in 1..i : x = 1 \/ s[x - 1] = "dot"}
<1>1. T \in SUBSET (1..i) /\ 1 \in T
  BY <1>0
<1>2. PICK a \in T : \A y \in T : a >= y
  BY <1>0, <1>1, GreatestPosition
<1>3. a \in Nat /\ 1 <= a /\ a <= i /\ (a = 1 \/ s[a - 1] = "dot")
  BY <1>0
<1>4. PICK k \in 0..Len(s) : k = a - 1
  BY <1>0, <1>3
<1>5. k = 0 \/ s[k] = "dot"
  BY <1>3, <1>4
<1>6. PICK b \in 0..Len(s) : <<k + 1, b>> \in Labels(s)
  BY <1>5, LabelAfter
<1>7. k + 1 = a
  BY <1>3, <1>4
<1>8. a <= b + 1 /\ (b = Len(s) \/ s[b + 1] = "dot")
  BY <1>6, <1>7 DEF Labels
<1>9. i <= b
  <2>1. SUFFICES ASSUME b < i PROVE FALSE
    BY <1>0
  <2>2. s[b + 1] = "dot" /\ b + 1 # i
    BY <1>0, <1>8, <2>1
  <2>3. (b + 1) + 1 \in 1..i /\ ((b + 1) + 1) - 1 = b + 1
    BY <1>0, <2>1, <2>2
  <2>4. (b + 1) + 1 \in T
    BY <2>2, <2>3
  <2>5. a >= (b + 1) + 1
    BY <1>2, <2>4
  <2>6. QED
    BY <1>3, <1>8, <2>5
<1>10. a \in 1..Len(s) + 1
  BY <1>0, <1>3
<1>11. QED
  BY <1>3, <1>6, <1>7, <1>9, <1>10

(* What the rules say of a label, in the positions of the name. *)
FineAt(s, a, b) ==
  /\ a <= b /\ b - a + 1 <= MAX_LABEL_LENGTH
  /\ \A i \in a..b : s[i] \in Alphanumeric \cup {"hyphen"}
  /\ s[a] # "hyphen" /\ s[b] # "hyphen"

LEMMA FailureAt ==
  ASSUME NEW s \in Seq(Characters), NEW a \in 1..Len(s) + 1, NEW b \in 0..Len(s)
  PROVE  LabelFailure(SubSeq(s, a, b)) = "none" <=> FineAt(s, a, b)
<1>0. Len(s) \in Nat /\ a \in Nat /\ b \in Nat /\ MAX_LABEL_LENGTH \in Nat
  BY ClusteringAssumption
<1>1. PICK u \in Seq(Characters) : u = SubSeq(s, a, b)
  BY PartLower
<1>2. Len(u) = IF a <= b THEN b - a + 1 ELSE 0
  BY <1>0, <1>1
<1>3. \A i \in 1..Len(u) : u[i] = s[a + i - 1]
  BY <1>0, <1>1, <1>2
<1>4. CASE a <= b
  <2>1. Len(u) = b - a + 1 /\ Len(u) >= 1 /\ Len(u) \in Nat
    BY <1>0, <1>2, <1>4
  <2>2. u[1] = s[a] /\ u[Len(u)] = s[b]
    <3>1. a + 1 - 1 = a /\ a + Len(u) - 1 = b /\ 1 \in 1..Len(u) /\ Len(u) \in 1..Len(u)
      BY <1>0, <2>1
    <3>2. QED
      BY <1>3, <3>1
  <2>3. (\A i \in 1..Len(u) : u[i] \in Alphanumeric \cup {"hyphen"})
          <=> (\A i \in a..b : s[i] \in Alphanumeric \cup {"hyphen"})
    <3>1. \A i \in 1..Len(u) : a + i - 1 \in a..b
      BY <1>0, <2>1
    <3>2. \A i \in a..b : i - a + 1 \in 1..Len(u) /\ a + (i - a + 1) - 1 = i
      BY <1>0, <2>1
    <3>3. \A i \in a..b : u[i - a + 1] = s[i]
      BY <1>3, <3>2
    <3>4. QED
      BY <1>3, <3>1, <3>2, <3>3
  <2>4. Len(u) > MAX_LABEL_LENGTH <=> ~ (b - a + 1 <= MAX_LABEL_LENGTH)
    BY <1>0, <2>1
  <2>5. u # <<>>
    BY <2>1
  <2>6. LabelFailure(u) = "none"
          <=> /\ ~ (Len(u) > MAX_LABEL_LENGTH)
              /\ \A i \in 1..Len(u) : u[i] \in Alphanumeric \cup {"hyphen"}
              /\ u[1] # "hyphen" /\ u[Len(u)] # "hyphen"
    BY <2>5 DEF LabelFailure
  <2>7. QED
    BY <1>1, <1>4, <2>2, <2>3, <2>4, <2>6 DEF FineAt
<1>5. CASE ~ (a <= b)
  <2>1. u = <<>>
    BY <1>2, <1>5
  <2>2. LabelFailure(u) # "none"
    BY <2>1 DEF LabelFailure
  <2>3. QED
    BY <1>1, <1>5, <2>2 DEF FineAt
<1>6. QED
  BY <1>4, <1>5

(* What IsHostname says of the characters of a name. *)
Grammar(name) ==
  /\ Len(name) >= 1
  /\ \A i \in 1..Len(name) : name[i] \in {"lower", "digit", "hyphen", "dot"}
  /\ \A i \in 1..Len(name) :
       i \in {1, Len(name)} \/ "dot" \in {name[i - 1], name[i + 1]} =>
         name[i] \in {"lower", "digit"}
  /\ \A i \in 1..Len(name) - MAX_LABEL_LENGTH :
       \E j \in i..i + MAX_LABEL_LENGTH : name[j] = "dot"

(* A name whose labels are fine, in lowercase, is of the grammar. *)
LEMMA FineIsGrammar ==
  ASSUME NEW s \in Seq(Characters), \A i \in 1..Len(s) : s[i] # "upper",
         LabelsFine(s)
  PROVE  Grammar(s)
<1>0. Len(s) \in Nat /\ MAX_LABEL_LENGTH \in Nat
  BY ClusteringAssumption
<1>1. ASSUME NEW a \in 1..Len(s) + 1, NEW b \in 0..Len(s), <<a, b>> \in Labels(s)
      PROVE  FineAt(s, a, b)
  <2>1. LabelFailure(SubSeq(s, a, b)) = "none"
    BY <1>1 DEF LabelsFine
  <2>2. QED
    BY <2>1, FailureAt
<1>2. \A i \in 1..Len(s) : s[i] \in {"lower", "digit", "hyphen", "dot"}
  <2>1. SUFFICES ASSUME NEW i \in 1..Len(s), s[i] # "dot"
                 PROVE  s[i] \in {"lower", "digit", "hyphen"}
    OBVIOUS
  <2>2. PICK a \in 1..Len(s) + 1, b \in 0..Len(s) : <<a, b>> \in Labels(s) /\ a <= i /\ i <= b
    BY <2>1, LabelAround
  <2>3. s[i] \in Alphanumeric \cup {"hyphen"}
    BY <1>0, <1>1, <2>2 DEF FineAt
  <2>4. QED
    BY <2>3 DEF Alphanumeric
<1>3. ASSUME NEW i \in 0..Len(s), i = 0 \/ s[i] = "dot"
      PROVE  i + 1 \in 1..Len(s) /\ s[i + 1] \in {"lower", "digit"}
  <2>1. PICK b \in 0..Len(s) : <<i + 1, b>> \in Labels(s)
    BY <1>3, LabelAfter
  <2>2. i + 1 \in 1..Len(s) + 1
    BY <1>0
  <2>3. FineAt(s, i + 1, b)
    BY <1>1, <2>1, <2>2
  <2>4. i + 1 <= b /\ s[i + 1] # "hyphen" /\ s[i + 1] \in Alphanumeric \cup {"hyphen"}
    BY <1>0, <2>3 DEF FineAt
  <2>5. i + 1 \in 1..Len(s)
    BY <1>0, <2>4
  <2>6. QED
    BY <2>4, <2>5 DEF Alphanumeric
<1>4. ASSUME NEW i \in 1..Len(s) + 1, i = Len(s) + 1 \/ s[i] = "dot"
      PROVE  i - 1 \in 1..Len(s) /\ s[i - 1] \in {"lower", "digit"}
  <2>1. PICK a \in 1..Len(s) + 1 : <<a, i - 1>> \in Labels(s)
    BY <1>4, LabelBefore
  <2>2. i - 1 \in 0..Len(s)
    BY <1>0
  <2>3. FineAt(s, a, i - 1)
    BY <1>1, <2>1, <2>2
  <2>4. a <= i - 1 /\ s[i - 1] # "hyphen" /\ s[i - 1] \in Alphanumeric \cup {"hyphen"}
    BY <1>0, <2>3 DEF FineAt
  <2>5. i - 1 \in 1..Len(s)
    BY <1>0, <2>4
  <2>6. QED
    BY <2>4, <2>5 DEF Alphanumeric
<1>5. Len(s) >= 1
  <2>1. 0 \in 0..Len(s)
    BY <1>0
  <2>2. 0 + 1 \in 1..Len(s)
    BY <1>3, <2>1
  <2>3. QED
    BY <1>0, <2>2
<1>6. ASSUME NEW i \in 1..Len(s), i \in {1, Len(s)} \/ "dot" \in {s[i - 1], s[i + 1]}
      PROVE  s[i] \in {"lower", "digit"}
  <2>1. CASE i = 1 \/ (i # 1 /\ s[i - 1] = "dot")
    <3>1. PICK k \in 0..Len(s) : k = i - 1
      BY <1>0
    <3>2. (k = 0 \/ s[k] = "dot") /\ k + 1 = i
      BY <1>0, <2>1, <3>1
    <3>3. QED
      BY <1>3, <3>1, <3>2
  <2>2. CASE i = Len(s) \/ (i # Len(s) /\ s[i + 1] = "dot")
    <3>1. PICK k \in 1..Len(s) + 1 : k = i + 1
      BY <1>0
    <3>2. (k = Len(s) + 1 \/ s[k] = "dot") /\ k - 1 = i
      BY <1>0, <2>2, <3>1
    <3>3. QED
      BY <1>4, <3>1, <3>2
  <2>3. QED
    BY <1>6, <2>1, <2>2
<1>7. ASSUME NEW i \in 1..Len(s) - MAX_LABEL_LENGTH
      PROVE  \E j \in i..i + MAX_LABEL_LENGTH : s[j] = "dot"
  <2>1. SUFFICES ASSUME \A j \in i..i + MAX_LABEL_LENGTH : s[j] # "dot" PROVE FALSE
    OBVIOUS
  <2>2. i \in 1..Len(s) /\ i + MAX_LABEL_LENGTH <= Len(s) /\ s[i] # "dot"
    BY <1>0, <2>1
  <2>3. PICK a \in 1..Len(s) + 1, b \in 0..Len(s) : <<a, b>> \in Labels(s) /\ a <= i /\ i <= b
    BY <2>2, LabelAround
  <2>4. b = Len(s) \/ s[b + 1] = "dot"
    BY <2>3 DEF Labels
  <2>5. b >= i + MAX_LABEL_LENGTH
    <3>1. CASE b = Len(s)
      BY <2>2, <3>1
    <3>2. CASE s[b + 1] = "dot"
      <4>1. b + 1 \notin i..i + MAX_LABEL_LENGTH
        BY <2>1, <3>2
      <4>2. QED
        BY <1>0, <2>2, <2>3, <4>1
    <3>3. QED
      BY <2>4, <3>1, <3>2
  <2>6. b - a + 1 <= MAX_LABEL_LENGTH
    BY <1>1, <2>3 DEF FineAt
  <2>7. QED
    BY <1>0, <2>2, <2>3, <2>5, <2>6
<1>8. QED
  BY <1>2, <1>5, <1>6, <1>7 DEF Grammar

(* The labels of a name of the grammar are fine. *)
LEMMA GrammarIsFine ==
  ASSUME NEW s \in Seq(Characters), Grammar(s)
  PROVE  LabelsFine(s)
<1>0. Len(s) \in Nat /\ MAX_LABEL_LENGTH \in Nat /\ Len(s) >= 1
  BY ClusteringAssumption DEF Grammar
<1>1. ASSUME NEW a \in 1..Len(s) + 1, NEW b \in 0..Len(s), <<a, b>> \in Labels(s)
      PROVE  FineAt(s, a, b)
  <2>1. /\ a <= b + 1
        /\ a = 1 \/ s[a - 1] = "dot"
        /\ b = Len(s) \/ s[b + 1] = "dot"
        /\ \A i \in a..b : s[i] # "dot"
    BY <1>1 DEF Labels
  <2>2. \A i \in 1..Len(s) :
          i \in {1, Len(s)} \/ "dot" \in {s[i - 1], s[i + 1]} => s[i] \in {"lower", "digit"}
    BY DEF Grammar
  <2>3. a <= b
    <3>1. SUFFICES ASSUME b = a - 1 PROVE FALSE
      BY <1>0, <2>1
    <3>2. CASE a = 1
      <4>1. s[b + 1] = "dot" /\ b + 1 = 1
        BY <1>0, <2>1, <3>1, <3>2
      <4>2. s[1] \in {"lower", "digit"}
        BY <1>0, <2>2
      <4>3. QED
        BY <4>1, <4>2
    <3>3. CASE a # 1
      <4>1. b \in 1..Len(s) /\ s[b] = "dot"
        BY <1>0, <2>1, <3>1, <3>3
      <4>2. s[b] \in {"lower", "digit"}
        <5>1. b = Len(s) \/ s[b + 1] = "dot"
          BY <2>1
        <5>2. QED
          BY <2>2, <4>1, <5>1
      <4>3. QED
        BY <4>1, <4>2
    <3>4. QED
      BY <3>2, <3>3
  <2>4. a \in 1..Len(s) /\ b \in 1..Len(s)
    BY <1>0, <2>3
  <2>5. s[a] \in {"lower", "digit"} /\ s[b] \in {"lower", "digit"}
    BY <2>1, <2>2, <2>4
  <2>6. \A i \in a..b : s[i] \in Alphanumeric \cup {"hyphen"}
    <3>1. SUFFICES ASSUME NEW i \in a..b PROVE s[i] \in Alphanumeric \cup {"hyphen"}
      OBVIOUS
    <3>2. i \in 1..Len(s) /\ s[i] # "dot"
      BY <1>0, <2>1, <2>4
    <3>3. s[i] \in {"lower", "digit", "hyphen", "dot"}
      BY <3>2 DEF Grammar
    <3>4. QED
      BY <3>2, <3>3 DEF Alphanumeric
  <2>7. b - a + 1 <= MAX_LABEL_LENGTH
    <3>1. SUFFICES ASSUME b - a + 1 > MAX_LABEL_LENGTH PROVE FALSE
      BY <1>0
    <3>2. a \in 1..Len(s) - MAX_LABEL_LENGTH
      BY <1>0, <2>4, <3>1
    <3>3. PICK j \in a..a + MAX_LABEL_LENGTH : s[j] = "dot"
      BY <3>2 DEF Grammar
    <3>4. j \in a..b
      BY <1>0, <2>4, <3>1
    <3>5. QED
      BY <2>1, <3>3, <3>4
  <2>8. s[a] # "hyphen" /\ s[b] # "hyphen"
    BY <2>5
  <2>9. QED
    BY <2>3, <2>6, <2>7, <2>8 DEF FineAt
<1>2. ASSUME NEW ab \in Labels(s) PROVE LabelFailure(SubSeq(s, ab[1], ab[2])) = "none"
  <2>1. ab = <<ab[1], ab[2]>> /\ ab[1] \in 1..Len(s) + 1 /\ ab[2] \in 0..Len(s)
    BY DEF Labels
  <2>2. FineAt(s, ab[1], ab[2])
    BY <1>1, <2>1
  <2>3. QED
    BY <2>1, <2>2, FailureAt
<1>3. QED
  BY <1>2 DEF LabelsFine

(* Hostname::parse accepts exactly the hostnames, a root dot aside. *)
LEMMA AcceptedIsHostname ==
  ASSUME NEW d \in Seq(Characters),
         Lower(strip_suffix(Trim(d))) \in IpLiterals <=> strip_suffix(Trim(d)) \in IpLiterals
  PROVE  Accepted(d) <=> IsHostname(Lower(Trim(d))) \/ IsAbsolute(Lower(Trim(d)))
<1>0. MAX_NAME_LENGTH \in Nat
  BY ClusteringAssumption
<1>1. \A x \in Seq(Characters) :
        IsHostname(x) <=> ~ (Len(x) > MAX_NAME_LENGTH) /\ x \notin IpLiterals /\ Grammar(x)
  <2>1. SUFFICES ASSUME NEW x \in Seq(Characters)
                 PROVE  IsHostname(x) <=> /\ ~ (Len(x) > MAX_NAME_LENGTH)
                                          /\ x \notin IpLiterals /\ Grammar(x)
    OBVIOUS
  <2>2. Len(x) \in 1..MAX_NAME_LENGTH <=> ~ (Len(x) > MAX_NAME_LENGTH) /\ Len(x) >= 1
    BY <1>0
  <2>3. QED
    BY <2>2, Zenon DEF IsHostname, Grammar
<1>2. CASE Trim(d) = <<>>
  <2>1. Lower(Trim(d)) = <<>>
    BY <1>2 DEF Lower
  <2>2. ~ IsHostname(<<>>)
    BY DEF IsHostname
  <2>3. ~ IsAbsolute(<<>>) /\ ~ Accepted(d)
    BY <1>2, Zenon DEF IsAbsolute, Accepted
  <2>4. QED
    BY <2>1, <2>2, <2>3, Zenon
<1>3. CASE Trim(d) # <<>>
  <2>1. PICK t \in Seq(Characters) : t = Trim(d)
    BY <1>3, TrimShape
  <2>2. PICK l \in Seq(Characters) : l = strip_suffix(t)
    BY StripLower
  <2>3. PICK u \in Seq(Characters) : u = Lower(t)
    BY LowerShape
  <2>4. PICK m \in Seq(Characters) : m = Lower(l)
    BY LowerShape
  <2>5. m = strip_suffix(u)
    BY <2>2, <2>3, <2>4, StripLower
  <2>60. /\ Len(m) = Len(l)
         /\ \A i \in 1..Len(l) : m[i] = IF l[i] = "upper" THEN "lower" ELSE l[i]
    BY <2>4, LowerShape
  <2>6. Len(m) = Len(l) /\ \A i \in 1..Len(m) : m[i] # "upper"
    BY <2>60
  <2>7. LabelsFine(l) <=> LabelsFine(m)
    BY <2>4, FineLower
  <2>8. LabelsFine(m) <=> Grammar(m)
    BY <2>6, FineIsGrammar, GrammarIsFine
  <2>9. m \in IpLiterals <=> l \in IpLiterals
    BY <2>1, <2>2, <2>4
  <2>10. Accepted(d) <=> /\ ~ (Len(l) > MAX_NAME_LENGTH) /\ l \notin IpLiterals
                         /\ LabelsFine(l)
    BY <1>3, <2>1, <2>2, Zenon DEF Accepted
  <2>11. Accepted(d) <=> IsHostname(m)
    BY <1>1, <2>6, <2>7, <2>8, <2>9, <2>10
  <2>12. CASE u # <<>> /\ u[Len(u)] = "dot"
    <3>1. m = SubSeq(u, 1, Len(u) - 1)
      BY <2>5, <2>12 DEF strip_suffix
    <3>2. IsAbsolute(u) <=> IsHostname(m)
      BY <2>12, <3>1 DEF IsAbsolute
    <3>3. ~ IsHostname(u)
      <4>1. Len(u) \in 1..Len(u)
        BY <2>12
      <4>2. QED
        BY <2>12, <4>1 DEF IsHostname
    <3>4. QED
      BY <2>1, <2>3, <2>11, <3>2, <3>3
  <2>13. CASE ~ (u # <<>> /\ u[Len(u)] = "dot")
    <3>1. m = u
      BY <2>5, <2>13 DEF strip_suffix
    <3>2. ~ IsAbsolute(u)
      BY <2>13 DEF IsAbsolute
    <3>3. QED
      BY <2>1, <2>3, <2>11, <3>1, <3>2
  <2>14. QED
    BY <2>12, <2>13
<1>4. QED
  BY <1>2, <1>3

-----------------------------------------------------------------------------
(* The write protocol. *)

InProgress == {"open", "written", "synced", "renamed"}

(* The process runs on what it accepted. *)
ConfigInv ==
  /\ raw \in RawInputs
  /\ phase \in {"off", "idle"} \cup InProgress
  /\ config # Unread => config = try_from(raw)
  /\ phase # "off" => config = try_from(raw) /\ config.ok

(* What is, or may be after a power loss, published is an expected document, *)
(* and what is about to be published is one.                                 *)
PublishedInv ==
  /\ expected \subseteq {Absent} \cup Stored(raw)
  /\ fallback \subseteq expected
  /\ published \in fallback
  /\ phase \in InProgress => document \in expected
  /\ phase \in {"written", "synced"} => pending = document
  /\ phase = "renamed" => published = document

IInv == ConfigInv /\ PublishedInv

(* Every step of the protocol keeps IInv. *)
LEMMA NextKeeps ==
  ASSUME IInv, [Next]_vars
  PROVE  IInv'
<1> USE DEF IInv, ConfigInv, PublishedInv, InProgress
<1>1. CASE Start
  BY <1>1 DEF Start, fileVars
<1>2. ASSUME NEW uuid \in Uuids, OpenPending(uuid) PROVE IInv'
  <2>1. ConfigInv'
    BY <1>2 DEF OpenPending
  <2>2. document' = Document(uuid, raw) /\ document' \in Stored(raw)
    BY <1>2 DEF OpenPending, Document, Stored
  <2>3. expected' = expected \cup {document'} /\ raw' = raw
    BY <1>2 DEF OpenPending
  <2>4. expected' \subseteq {Absent} \cup Stored(raw)'
    BY <2>2, <2>3 DEF Stored, Document
  <2>5. QED
    BY <1>2, <2>1, <2>3, <2>4 DEF OpenPending
<1>3. CASE WritePending
  BY <1>3 DEF WritePending
<1>4. CASE SyncPending
  BY <1>4 DEF SyncPending, fileVars
<1>5. CASE Rename
  BY <1>5 DEF Rename
<1>6. CASE SyncDirectory
  BY <1>6 DEF SyncDirectory
<1>7. CASE Interrupt
  BY <1>7 DEF Interrupt, fileVars
<1>8. CASE PowerLoss
  BY <1>8 DEF PowerLoss
<1>9. CASE UNCHANGED vars
  BY <1>9 DEF vars, fileVars
<1>10. QED
  BY <1>1, <1>2, <1>3, <1>4, <1>5, <1>6, <1>7, <1>8, <1>9 DEF Next

(* IInv is an invariant of the clustering configuration's storage: the       *)
(* process runs on the configuration try_from accepted, and write_json_atomic *)
(* never publishes anything but a complete document of it.                   *)
THEOREM ClusteringInvariant == Spec => []IInv
<1>1. Init => IInv
  BY DEF Init, IInv, ConfigInv, PublishedInv, InProgress
<1>2. QED
  BY <1>1, NextKeeps, PTL DEF Spec

(* Whatever interrupts write_json_atomic, and after a power loss at any of   *)
(* its steps, read_json finds a file it accepts, whose validation gives back *)
(* the very document that was stored: the last successful write's or that of *)
(* a later write that did not succeed.                                       *)
THEOREM StoredConfigurationReadsBack == Spec => []StoredReadsBack
<1>1. IInv => StoredReadsBack
  <2>1. SUFFICES ASSUME IInv, NEW file \in fallback \cup {published}
                 PROVE  read_json(file).ok /\ read_json(file).value \in expected
    BY DEF StoredReadsBack
  <2>2. file \in expected /\ file \in {Absent} \cup Stored(raw) /\ raw \in RawInputs
    BY <2>1 DEF IInv, ConfigInv, PublishedInv
  <2>3. read_json(file).ok /\ read_json(file).value = file
    BY <2>2, ReadsBack
  <2>4. QED
    BY <2>2, <2>3
<1>2. QED
  BY <1>1, ClusteringInvariant, PTL

(* A process started as a cluster node accepts its domain exactly when,      *)
(* trimmed and in lowercase, it is a hostname by the grammar, with or        *)
(* without the root dot, whatever its number of labels, and stores that form *)
(* (Hostname::parse through ClusteringConfiguration::try_from).              *)
THEOREM DomainsAcceptedExactly == Spec => []AcceptsExactly
<1>1. IInv => AcceptsExactly
  <2> DEFINE node == raw.cluster.node
             domain == raw.cluster.domain
             normal == Lower(Trim(domain))
  <2>1. SUFFICES ASSUME IInv, config # Unread, Trim(raw.mode) = <<"cluster">>,
                        raw.cluster # NoCluster, NodeName(node).ok
                 PROVE  /\ config.ok <=> IsHostname(normal) \/ IsAbsolute(normal)
                        /\ config.ok => config.value.domain = normal
    BY Zenon DEF AcceptsExactly
  <2>2. raw \in RawInputs /\ config = try_from(raw)
    BY <2>1 DEF IInv, ConfigInv
  <2>3. config = membership(node, domain)
    BY <2>1, <2>2 DEF try_from
  <2>4. domain \in Seq(Characters)
    BY <2>1, <2>2, ClusteringAssumption
  <2>5. Lower(strip_suffix(Trim(domain))) \in IpLiterals
          <=> strip_suffix(Trim(domain)) \in IpLiterals
    BY <2>1, <2>2, IpAssumption, Zenon
  <2>6. Accepted(domain) <=> IsHostname(normal) \/ IsAbsolute(normal)
    BY <2>4, <2>5, AcceptedIsHostname
  <2> HIDE DEF node, domain, normal
  <2>7. CASE parse(domain).ok
    <3>1. config = Ok(ClusterMembership(NodeName(node).value, parse(domain).value))
      BY <2>1, <2>3, <2>7, Zenon DEF membership
    <3>2. config.ok = TRUE /\ config.value.domain = parse(domain).value
      BY <3>1 DEF Ok, ClusterMembership
    <3>3. parse(domain).value = normal /\ Accepted(domain)
      BY <2>7, ParseDecides, Zenon DEF normal
    <3>4. QED
      BY <2>6, <3>2, <3>3, Zenon
  <2>8. CASE ~ parse(domain).ok
    <3>1. config = parse(domain)
      BY <2>1, <2>3, <2>8, Zenon DEF membership
    <3>2. ~ config.ok /\ ~ Accepted(domain)
      BY <2>8, <3>1, ParseDecides, Zenon
    <3>3. QED
      BY <2>6, <3>2, Zenon
  <2>9. QED
    BY <2>7, <2>8
<1>2. QED
  BY <1>1, ClusteringInvariant, PTL
=============================================================================
