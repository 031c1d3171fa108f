------------------------- MODULE WorkloadNamesProofs -------------------------
(***************************************************************************)
(* Proofs about WorkloadNames, for every alphabet, limit and set of names. *)
(***************************************************************************)
EXTENDS WorkloadNames, SequenceTheorems, FiniteSetTheorems, TLAPS

\* A set of subsets of 1..n has a minimal member.
LEMMA MinimalSubset ==
    ASSUME NEW n \in Nat
    PROVE  \A T \in SUBSET SUBSET (1..n) :
              T # {} => \E x \in T : \A y \in T : y \subseteq x => y = x
<1> TAKE T \in SUBSET SUBSET (1..n)
<1> HAVE T # {}
<1>1. FiniteSubsetsOf(1..n) = SUBSET (1..n)
  BY FS_Interval, FS_FiniteSubsetsOfFinite
<1>2. IsWellFoundedOn(StrictSubsetOrdering(1..n), SUBSET (1..n))
  BY <1>1, FS_StrictSubsetOrderingWellFounded
<1>3. PICK x \in T : \A y \in T : ~ (<<y, x>> \in StrictSubsetOrdering(1..n))
  BY <1>2, WFMin
<1> QED
  BY <1>3 DEF StrictSubsetOrdering

\* Positions in a name: there is a first one and a last one.
LEMMA FirstExists ==
    ASSUME NEW n \in Nat, NEW S \in SUBSET (1..n), S # {}
    PROVE  \E i \in S : \A j \in S : i <= j
<1> DEFINE T == {1..i : i \in S}
<1>1. T \in SUBSET SUBSET (1..n) /\ T # {}
  <2>1. \A i \in S : 1..i \in SUBSET (1..n)
    <3>1. \A i \in S : i \in 1..n
      OBVIOUS
    <3> QED
      BY <3>1
  <2> QED
    BY <2>1, Zenon
<1>2. PICK x \in T : \A y \in T : y \subseteq x => y = x
  <2>1. \A U \in SUBSET SUBSET (1..n) :
           U # {} => \E x \in U : \A y \in U : y \subseteq x => y = x
    BY MinimalSubset
  <2> HIDE DEF T
  <2> QED
    BY <1>1, <2>1, Zenon
<1>3. PICK i \in S : x = 1..i
  BY <1>2
<1>4. ASSUME NEW j \in S, j < i
      PROVE  FALSE
  <2>1. 1..j \in T /\ 1..j \subseteq 1..i
    BY <1>4
  <2>2. 1..j = 1..i
    BY <2>1, <1>2, <1>3
  <2>3. i \in 1..i
    OBVIOUS
  <2> QED
    BY <2>2, <2>3, <1>4
<1> QED
  BY <1>4

LEMMA LastExists ==
    ASSUME NEW n \in Nat, NEW S \in SUBSET (1..n), S # {}
    PROVE  \E i \in S : \A j \in S : j <= i
<1> DEFINE T == {i..n : i \in S}
<1>1. T \in SUBSET SUBSET (1..n) /\ T # {}
  <2>1. \A i \in S : i..n \in SUBSET (1..n)
    <3>1. \A i \in S : i \in 1..n
      OBVIOUS
    <3> QED
      BY <3>1
  <2> QED
    BY <2>1, Zenon
<1>2. PICK x \in T : \A y \in T : y \subseteq x => y = x
  <2>1. \A U \in SUBSET SUBSET (1..n) :
           U # {} => \E x \in U : \A y \in U : y \subseteq x => y = x
    BY MinimalSubset
  <2> HIDE DEF T
  <2> QED
    BY <1>1, <2>1, Zenon
<1>3. PICK i \in S : x = i..n
  BY <1>2
<1>4. ASSUME NEW j \in S, i < j
      PROVE  FALSE
  <2>1. j..n \in T /\ j..n \subseteq i..n
    BY <1>4
  <2>2. j..n = i..n
    BY <2>1, <1>2, <1>3
  <2>3. i \in i..n
    OBVIOUS
  <2> QED
    BY <2>2, <2>3, <1>4
<1> QED
  BY <1>4

-----------------------------------------------------------------------------
(* shortenName                                                             *)

\* The cut is at the last dash, or at the end.
LEMMA CutProperties ==
    ASSUME NEW name \in Seq(Char)
    PROVE  /\ Cut(name) \in 1..Len(name) + 1
           /\ Dashes(name) # {} => Cut(name) \in Dashes(name)
           /\ \A j \in Dashes(name) : j <= Cut(name)
<1>1. CASE Dashes(name) = {}
  BY <1>1 DEF Cut
<1>2. CASE Dashes(name) # {}
  <2>1. Dashes(name) \in SUBSET (1..Len(name)) /\ Len(name) \in Nat
    BY DEF Dashes
  <2>2. \E i \in Dashes(name) : \A j \in Dashes(name) : j <= i
    BY <2>1, <1>2, LastExists
  <2>3. Cut(name) = CHOOSE i \in Dashes(name) : \A j \in Dashes(name) : j <= i
    BY <1>2 DEF Cut
  <2>4. Cut(name) \in Dashes(name) /\ \A j \in Dashes(name) : j <= Cut(name)
    BY <2>2, <2>3
  <2> QED
    BY <2>1, <2>4
<1> QED
  BY <1>1, <1>2

\* The two pieces of a name that is shortened without a panic: what they are,
\* how long they are, and what the result is.
LEMMA Pieces ==
    ASSUME NEW name \in Seq(Char), ~Panics(name), Len(name) > Limit
    PROVE  /\ Keep(name) \in 0..Limit /\ Keep(name) < Cut(name)
           /\ Postfix(name) \in Seq(Char)
           /\ Len(Postfix(name)) = Limit - Keep(name)
           /\ \A i \in 1..Limit - Keep(name) : Postfix(name)[i] = name[Cut(name) + i - 1]
           /\ Shorten(name) \in Seq(Char)
           /\ Len(Shorten(name)) = Limit
           /\ \A i \in 1..Limit :
                 Shorten(name)[i] = IF i <= Keep(name) THEN name[i]
                                    ELSE name[Cut(name) + i - Keep(name) - 1]
<1> DEFINE c == Cut(name)
           k == Keep(name)
           front == SubSeq(name, 1, k)
           back == Postfix(name)
<1>1. Limit \in Nat /\ Len(name) \in Nat /\ c \in 1..Len(name) + 1
  BY CutProperties, NameAssumption
<1>2. k \in 0..Limit /\ k < c /\ k = c + Limit - Len(name) - 1
  BY <1>1 DEF Panics, Keep
<1>3. \A i \in 1..Len(name) : name[i] \in Char
  OBVIOUS
<1>4. /\ front \in Seq(Char)
      /\ Len(front) = k
      /\ \A i \in 1..k : front[i] = name[i]
  <2>1. \A i \in 1..k : name[i] \in Char
    BY <1>1, <1>2, <1>3
  <2> HIDE DEF k, c
  <2>2. /\ front \in Seq(Char)
        /\ Len(front) = IF 1 <= k THEN k - 1 + 1 ELSE 0
        /\ \A i \in 1..k - 1 + 1 : front[i] = name[1 + i - 1]
    <3>1. 1 \in Int /\ k \in Int
      BY <1>2, <1>1
    <3> QED
      BY <2>1, <3>1, SubSeqProperties
  <2> HIDE DEF front
  <2>3. Len(front) = k
    <3>1. Len(front) = IF 1 <= k THEN k - 1 + 1 ELSE 0
      BY <2>2
    <3> QED
      BY <3>1, <1>1, <1>2
  <2>4. k - 1 + 1 = k /\ \A i \in 1..k : 1 + i - 1 = i
    BY <1>1, <1>2
  <2> QED
    BY <2>2, <2>3, <2>4
<1>5. /\ back \in Seq(Char)
      /\ Len(back) = Limit - k
      /\ \A i \in 1..Limit - k : back[i] = name[c + i - 1]
  <2>1. \A i \in c..Len(name) : name[i] \in Char
    BY <1>1, <1>3
  <2>2. back = SubSeq(name, c, Len(name))
    BY DEF Postfix
  <2> HIDE DEF k, c, back
  <2>3. /\ back \in Seq(Char)
        /\ Len(back) = IF c <= Len(name) THEN Len(name) - c + 1 ELSE 0
        /\ \A i \in 1..Len(name) - c + 1 : back[i] = name[c + i - 1]
    BY <2>1, <2>2, <1>1, SubSeqProperties
  <2>4. Limit - k = Len(name) - c + 1
    BY <1>1, <1>2
  <2>5. Len(back) = Len(name) - c + 1
    <3>1. Len(back) = IF c <= Len(name) THEN Len(name) - c + 1 ELSE 0
      BY <2>3
    <3> QED
      BY <3>1, <1>1
  <2> QED
    BY <2>3, <2>4, <2>5
<1>6. Shorten(name) = front \o back
  <2>1. ~(Len(name) <= Limit)
    BY <1>1
  <2> QED
    BY <2>1, Zenon DEF Shorten
<1> HIDE DEF front, back, k, c
<1>7. /\ front \o back \in Seq(Char)
      /\ Len(front \o back) = Limit
      /\ \A i \in 1..Limit : (front \o back)[i] = IF i <= k THEN front[i] ELSE back[i - k]
  <2>1. /\ front \o back \in Seq(Char)
        /\ Len(front \o back) = Len(front) + Len(back)
        /\ \A i \in 1..Len(front) + Len(back) :
              (front \o back)[i] = IF i <= Len(front) THEN front[i] ELSE back[i - Len(front)]
    BY <1>4, <1>5, ConcatProperties, Zenon
  <2>2. Len(front) = k /\ Len(front) + Len(back) = Limit
    BY <1>1, <1>2, <1>4, <1>5
  <2> QED
    BY <2>1, <2>2
<1>8. \A i \in 1..Limit :
         Shorten(name)[i] = IF i <= k THEN name[i] ELSE name[c + i - k - 1]
  <2> TAKE i \in 1..Limit
  <2>1. CASE i <= k
    BY <2>1, <1>1, <1>2, <1>4, <1>6, <1>7
  <2>2. CASE ~(i <= k)
    <3>1. i - k \in 1..Limit - k /\ c + (i - k) - 1 = c + i - k - 1
      BY <2>2, <1>1, <1>2
    <3> QED
      BY <2>2, <3>1, <1>5, <1>6, <1>7
  <2> QED
    BY <2>1, <2>2
<1> QED
  BY <1>1, <1>2, <1>5, <1>6, <1>7, <1>8 DEF k, c, back

\* What is short already stays as it is, and so does what was shortened.
LEMMA Idempotent ==
    ASSUME NEW name \in Seq(Char), ~Panics(name)
    PROVE  /\ Shorten(name) \in Seq(Char)
           /\ Len(Shorten(name)) <= Limit
           /\ Shorten(Shorten(name)) = Shorten(name)
<1>1. CASE Len(name) <= Limit
  BY <1>1 DEF Shorten
<1>2. CASE Len(name) > Limit
  <2>1. Shorten(name) \in Seq(Char) /\ Len(Shorten(name)) = Limit
    BY <1>2, Pieces
  <2>2. Len(Shorten(name)) <= Limit
    BY <2>1, NameAssumption
  <2>3. ASSUME NEW s, Len(s) <= Limit
        PROVE  Shorten(s) = s
    BY <2>3 DEF Shorten
  <2> QED
    BY <2>1, <2>2, <2>3
<1> QED
  BY <1>1, <1>2, NameAssumption

\* Shortening keeps the last part of a name.
LEMMA PostfixKept ==
    ASSUME NEW name \in Seq(Char), ~Panics(name), Dashes(name) # {}
    PROVE  Postfix(Shorten(name)) = Postfix(name)
<1>1. CASE Len(name) <= Limit
  BY <1>1 DEF Shorten
<1>2. CASE Len(name) > Limit
  <2> DEFINE s == Shorten(name)
             c == Cut(name)
             k == Keep(name)
  <2>1. /\ Limit \in Nat /\ Len(name) \in Nat
        /\ c \in 1..Len(name) /\ name[c] = Dash
        /\ \A j \in 1..Len(name) : name[j] = Dash => j <= c
    BY CutProperties, NameAssumption DEF Dashes
  <2>2. k \in 0..Limit - 1 /\ Limit - k = Len(name) - c + 1
    <3>1. k \in 0..Limit
      BY <1>2, Pieces
    <3>2. k = c + Limit - Len(name) - 1
      BY DEF Keep
    <3> HIDE DEF k, c
    <3> QED
      BY <2>1, <3>1, <3>2
  <2>3. /\ s \in Seq(Char) /\ Len(s) = Limit
        /\ \A i \in 1..Limit : s[i] = IF i <= k THEN name[i] ELSE name[c + i - k - 1]
        /\ Postfix(name) \in Seq(Char) /\ Len(Postfix(name)) = Limit - k
        /\ \A i \in 1..Limit - k : Postfix(name)[i] = name[c + i - 1]
    BY <1>2, Pieces
  <2>4. /\ Cut(s) \in Dashes(s) \/ Dashes(s) = {}
        /\ \A j \in Dashes(s) : j <= Cut(s)
    BY <2>3, CutProperties
  <2> HIDE DEF s, c, k
  <2>5. k + 1 \in Dashes(s)
    <3>1. k + 1 \in 1..Limit /\ ~(k + 1 <= k) /\ c + (k + 1) - k - 1 = c
      BY <2>1, <2>2
    <3>2. s[k + 1] = name[c + (k + 1) - k - 1]
      BY <2>3, <3>1
    <3> QED
      BY <2>1, <2>3, <3>1, <3>2 DEF Dashes
  <2>6. ASSUME NEW j \in Dashes(s), j > k + 1
        PROVE  FALSE
    <3>1. j \in 1..Limit /\ s[j] = Dash
      BY <2>3 DEF Dashes
    <3>2. ~(j <= k) /\ c + j - k - 1 \in 1..Len(name) /\ ~(c + j - k - 1 <= c)
      BY <2>1, <2>2, <2>6, <3>1
    <3>3. s[j] = name[c + j - k - 1]
      BY <2>3, <3>1, <3>2
    <3> QED
      BY <2>1, <3>1, <3>2, <3>3
  <2>7. Cut(s) = k + 1
    <3>1. Cut(s) \in Dashes(s) /\ k + 1 <= Cut(s)
      BY <2>4, <2>5
    <3>2. Cut(s) \in Nat
      BY <3>1, <2>3 DEF Dashes
    <3>3. ~(Cut(s) > k + 1)
      BY <2>6, <3>1
    <3> QED
      BY <2>2, <3>1, <3>2, <3>3
  <2>8. Postfix(s) = SubSeq(s, k + 1, Limit)
    BY <2>3, <2>7 DEF Postfix
  <2>9. /\ Postfix(s) \in Seq(Char)
        /\ Len(Postfix(s)) = Limit - k
        /\ \A i \in 1..Limit - k : Postfix(s)[i] = s[k + i]
    <3>1. \A i \in k + 1..Limit : s[i] \in Char
      <4>1. \A i \in 1..Len(s) : s[i] \in Char
        BY <2>3
      <4> QED
        BY <4>1, <2>1, <2>2, <2>3
    <3>2. /\ SubSeq(s, k + 1, Limit) \in Seq(Char)
          /\ Len(SubSeq(s, k + 1, Limit)) = IF k + 1 <= Limit THEN Limit - (k + 1) + 1 ELSE 0
          /\ \A i \in 1..Limit - (k + 1) + 1 : SubSeq(s, k + 1, Limit)[i] = s[(k + 1) + i - 1]
      BY <2>1, <2>2, <3>1, SubSeqProperties
    <3>3. /\ Limit - (k + 1) + 1 = Limit - k /\ k + 1 <= Limit
          /\ \A i \in 1..Limit - k : (k + 1) + i - 1 = k + i
      BY <2>1, <2>2
    <3> QED
      BY <2>8, <3>2, <3>3
  <2>10. \A i \in 1..Limit - k : Postfix(s)[i] = Postfix(name)[i]
    <3> TAKE i \in 1..Limit - k
    <3>1. k + i \in 1..Limit /\ ~(k + i <= k) /\ c + (k + i) - k - 1 = c + i - 1
      BY <2>1, <2>2
    <3>2. s[k + i] = name[c + (k + i) - k - 1]
      BY <2>3, <3>1
    <3> QED
      BY <2>3, <2>9, <3>1, <3>2
  <2>11. Postfix(s) = Postfix(name)
    BY <2>3, <2>9, <2>10, SeqEqual
  <2> QED
    BY <2>11 DEF s
<1> QED
  BY <1>1, <1>2, NameAssumption

-----------------------------------------------------------------------------
(* The client.                                                             *)

\* The first workload under a name is one of the list; there is one if any
\* workload of the list has the name.
LEMMA FirstProperties ==
    ASSUME NEW name, TypeOK
    PROVE  /\ First(name) \in {0} \cup listed
           /\ First(name) # 0 => stored[First(name)] = name
           /\ \A i \in listed : stored[i] = name => First(name) # 0
<1> DEFINE Under == {i \in listed : stored[i] = name}
<1>1. Len(stored) \in Nat /\ listed \in SUBSET (1..Len(stored))
  BY DEF TypeOK
<1>2. First(name) = IF Under = {} THEN 0 ELSE CHOOSE i \in Under : \A j \in Under : i <= j
  BY DEF First
<1>3. CASE Under = {}
  BY <1>2, <1>3
<1>4. CASE Under # {}
  <2>1. \E i \in Under : \A j \in Under : i <= j
    BY <1>1, <1>4, FirstExists
  <2>2. First(name) \in Under
    BY <1>2, <1>4, <2>1
  <2>3. First(name) # 0
    BY <1>1, <2>2
  <2> QED
    BY <2>2, <2>3
<1> QED
  BY <1>3, <1>4

\* Updating a workload whose name fits changes nothing: its name stays.
LEMMA UpdateKeepsNames ==
    ASSUME TypeOK, NEW o \in Objects, Update(o)
    PROVE  UNCHANGED vars
<1>1. PICK w : w = GetWorkloadByName(stored[found[o]])
  OBVIOUS
<1>2. w # 0 /\ stored' = [stored EXCEPT ![w] = Shorten(@)]
  BY <1>1 DEF Update
<1>3. w \in 1..Len(stored)
  <2>1. w \in {0} \cup listed
    BY <1>1, FirstProperties DEF GetWorkloadByName
  <2> QED
    BY <1>2, <2>1 DEF TypeOK
<1>4. Shorten(stored[w]) = stored[w]
  BY <1>3 DEF TypeOK, Shorten
<1>5. stored' = stored
  <2>1. stored' = [stored EXCEPT ![w] = stored[w]]
    BY <1>2, <1>4
  <2> QED
    BY <2>1, <1>3 DEF TypeOK
<1> QED
  BY <1>5 DEF Update, vars

\* A lookup finds a workload with the shortened name, or none.
LEMMA LookUpKeepsInv ==
    ASSUME NamesInv, NEW o \in Objects, LookUp(o)
    PROVE  NamesInv'
<1> DEFINE w == GetWorkloadByName(fullName[o])
<1>1. /\ ~Panics(fullName[o])
      /\ found' = [found EXCEPT ![o] = w]
      /\ missing' = IF w = 0 THEN missing \cup {o} ELSE missing \ {o}
      /\ fullName' = fullName /\ stored' = stored /\ listed' = listed
  BY DEF LookUp
<1>2. /\ w \in {0} \cup listed
      /\ w # 0 => stored[w] = Shorten(fullName[o])
  BY FirstProperties DEF NamesInv, GetWorkloadByName
<1> HIDE DEF w
<1>3. TypeOK'
  <2>1. found' \in [Objects -> {0} \cup listed'] /\ missing' \in SUBSET Objects
    BY <1>1, <1>2 DEF NamesInv, TypeOK
  <2> QED
    BY <1>1, <2>1 DEF NamesInv, TypeOK
<1>4. \A p \in missing' : ~Panics(fullName[p])
  BY <1>1 DEF NamesInv
<1>5. ASSUME NEW p \in Objects, found'[p] # 0
      PROVE  ~Panics(fullName[p]) /\ stored[found'[p]] = Shorten(fullName[p])
  <2>1. found \in [Objects -> {0} \cup listed]
    BY DEF NamesInv, TypeOK
  <2>2. CASE p = o
    BY <1>1, <1>2, <1>5, <2>1, <2>2
  <2>3. CASE p # o
    BY <1>1, <1>5, <2>1, <2>3 DEF NamesInv
  <2> QED
    BY <2>2, <2>3
<1> QED
  BY <1>1, <1>3, <1>4, <1>5 DEF NamesInv

\* A new workload has a name that fits, whoever else has it, and takes
\* nobody's place in the list.
LEMMA CreateKeepsInv ==
    ASSUME NamesInv, NEW o \in Objects, CreateWorkload(o)
    PROVE  NamesInv'
<1> DEFINE name == Shorten(fullName[o])
<1>1. fullName[o] \in Seq(Char) /\ ~Panics(fullName[o])
  BY NameAssumption DEF NamesInv, TypeOK, CreateWorkload
<1>2. name \in Seq(Char) /\ Len(name) <= Limit
  BY <1>1, Idempotent
<1>3. /\ stored' = Append(stored, name)
      /\ missing' = missing \ {o}
      /\ fullName' = fullName /\ listed' = listed /\ found' = found
  BY DEF CreateWorkload
<1> HIDE DEF name
<1>4. stored \in Seq(Seq(Char)) /\ Len(stored) \in Nat
  BY DEF NamesInv, TypeOK
<1>5. /\ stored' \in Seq(Seq(Char))
      /\ Len(stored') = Len(stored) + 1
      /\ \A i \in 1..Len(stored) : stored'[i] = stored[i]
      /\ stored'[Len(stored) + 1] = name
  BY <1>2, <1>3, <1>4
<1>6. TypeOK'
  <2>1. \A i \in 1..Len(stored') : Len(stored'[i]) <= Limit
    <3>1. \A i \in 1..Len(stored) : Len(stored'[i]) <= Limit
      BY <1>5 DEF NamesInv, TypeOK
    <3>2. \A i \in 1..Len(stored') : i \in 1..Len(stored) \/ i = Len(stored) + 1
      BY <1>4, <1>5
    <3> QED
      BY <1>2, <1>5, <3>1, <3>2
  <2>2. listed' \in SUBSET (1..Len(stored'))
    <3>1. 1..Len(stored) \subseteq 1..Len(stored')
      BY <1>4, <1>5
    <3> QED
      BY <1>3, <3>1 DEF NamesInv, TypeOK
  <2> QED
    BY <1>3, <1>5, <2>1, <2>2 DEF NamesInv, TypeOK
<1>7. ASSUME NEW p \in Objects, found[p] # 0
      PROVE  ~Panics(fullName[p]) /\ stored'[found[p]] = Shorten(fullName[p])
  <2>1. found[p] \in 1..Len(stored)
    BY <1>7 DEF NamesInv, TypeOK
  <2> QED
    BY <1>5, <1>7, <2>1 DEF NamesInv
<1>8. \A p \in missing' : ~Panics(fullName[p])
  BY <1>3 DEF NamesInv
<1> QED
  BY <1>3, <1>6, <1>7, <1>8 DEF NamesInv

\* Whatever the list shows in addition, what was found stays in it.
LEMMA AppearKeepsInv ==
    ASSUME NamesInv, NEW w \in 1..Len(stored), Appear(w)
    PROVE  NamesInv'
<1>1. /\ listed' = listed \cup {w}
      /\ fullName' = fullName /\ stored' = stored
      /\ found' = found /\ missing' = missing
  BY DEF Appear
<1>2. TypeOK'
  BY <1>1 DEF NamesInv, TypeOK
<1> QED
  BY <1>1, <1>2 DEF NamesInv

LEMMA InvCorrect == Spec => []NamesInv
<1>1. Init => NamesInv
  BY DEF Init, NamesInv, TypeOK
<1>2. NamesInv /\ [Next]_vars => NamesInv'
  <2> SUFFICES ASSUME NamesInv, [Next]_vars
               PROVE  NamesInv'
    OBVIOUS
  <2>1. ASSUME NEW o \in Objects, LookUp(o)
        PROVE  NamesInv'
    BY <2>1, LookUpKeepsInv
  <2>2. ASSUME NEW o \in Objects, CreateWorkload(o)
        PROVE  NamesInv'
    BY <2>2, CreateKeepsInv
  <2>3. CASE UNCHANGED vars
    BY <2>3 DEF vars, NamesInv, TypeOK
  <2>4. ASSUME NEW o \in Objects, Update(o)
        PROVE  NamesInv'
    BY <2>3, <2>4, UpdateKeepsNames DEF NamesInv
  <2>5. ASSUME NEW w \in 1..Len(stored), Appear(w)
        PROVE  NamesInv'
    BY <2>5, AppearKeepsInv
  <2> QED
    BY <2>1, <2>2, <2>3, <2>4, <2>5 DEF Next
<1> QED
  BY <1>1, <1>2, PTL DEF Spec

-----------------------------------------------------------------------------

\* Every name that the client sends fits the limit of the service.
THEOREM TypeCorrect == Spec => []TypeOK
<1>1. NamesInv => TypeOK
  BY DEF NamesInv
<1> QED
  BY <1>1, InvCorrect, PTL

\* An object whose workload was found once is led to one by its name, and to
\* the same one by the shortened name, at all times, also where several
\* workloads have the name and the list lags behind.
THEOREM FoundByEitherNameCorrect == Spec => []FoundByEitherName
<1>1. NamesInv => FoundByEitherName
  <2> SUFFICES ASSUME NamesInv, NEW o \in Objects, found[o] # 0
               PROVE  /\ GetWorkloadByName(fullName[o]) # 0
                      /\ GetWorkloadByName(stored[found[o]]) = GetWorkloadByName(fullName[o])
    BY DEF FoundByEitherName
  <2> DEFINE name == stored[found[o]]
  <2>1. /\ TypeOK /\ found[o] \in listed
        /\ fullName[o] \in Seq(Char) /\ ~Panics(fullName[o])
        /\ name = Shorten(fullName[o])
    BY NameAssumption DEF NamesInv, TypeOK
  <2>2. Shorten(name) = name
    BY <2>1, Idempotent
  <2>3. First(name) # 0
    BY <2>1, FirstProperties
  <2> QED
    BY <2>1, <2>2, <2>3 DEF GetWorkloadByName
<1> QED
  BY <1>1, InvCorrect, PTL

\* However long the names and however low the limit: objects whose names end
\* in different parts never share a workload.
THEOREM PartsKeepApartCorrect == Spec => []PartsKeepApart
<1>1. NamesInv => PartsKeepApart
  <2> SUFFICES ASSUME NamesInv, NEW o \in Objects, NEW p \in Objects,
                      Dashes(fullName[o]) # {}, Dashes(fullName[p]) # {},
                      found[o] # 0, found[o] = found[p]
               PROVE  Postfix(fullName[o]) = Postfix(fullName[p])
    BY DEF PartsKeepApart
  <2>1. /\ fullName[o] \in Seq(Char) /\ ~Panics(fullName[o])
        /\ fullName[p] \in Seq(Char) /\ ~Panics(fullName[p])
        /\ Shorten(fullName[o]) = Shorten(fullName[p])
    BY NameAssumption DEF NamesInv, TypeOK
  <2> QED
    BY <2>1, PostfixKept
<1> QED
  BY <1>1, InvCorrect, PTL

=============================================================================
