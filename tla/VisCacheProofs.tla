---------------------------- MODULE VisCacheProofs ----------------------------
(***************************************************************************)
(* Proofs about VisCache and the list it stands on: for every number of    *)
(* entries, every set of keys and every limit, the index only leads to     *)
(* live entries and stays in its table until the limit is raised, and in a *)
(* cache that resets nothing on requests the pointers of the list are      *)
(* those of the entries it ought to hold.                                  *)
(***************************************************************************)
EXTENDS VisCache, FiniteSetTheorems, TLAPS

-----------------------------------------------------------------------------
(* The list *)

(* What is left without e: everything else, in the same order. *)
LEMMA WithoutIs ==
  ASSUME NEW s \in Seq(Entry), Distinct(s), NEW p \in DOMAIN s
  PROVE  /\ Without(s, s[p]) \in Seq(Entry)
         /\ Len(Without(s, s[p])) = Len(s) - 1
         /\ \A i \in 1 .. Len(s) - 1 :
              Without(s, s[p])[i] = IF i < p THEN s[i] ELSE s[i + 1]
<1>1. Place(s, s[p]) = p
  BY DEF Place, Distinct
<1>2. Without(s, s[p]) =
        [i \in 1 .. Len(s) - 1 |-> IF i < p THEN s[i] ELSE s[i + 1]]
  BY <1>1 DEF Without
<1>3. Len(s) - 1 \in Nat /\ \A i \in 1 .. Len(s) - 1 : s[i] \in Entry /\ s[i + 1] \in Entry
  OBVIOUS
<1>4. QED  BY <1>2, <1>3

LEMMA WithoutIsSeq ==
  ASSUME NEW s \in Seq(Entry), NEW e
  PROVE  Without(s, e) \in Seq(Entry)
<1>1. CASE \A i \in DOMAIN s : s[i] # e
  BY <1>1 DEF Without
<1>2. CASE ~ \A i \in DOMAIN s : s[i] # e
  <2>1. Len(s) - 1 \in Nat /\ \A i \in 1 .. Len(s) - 1 : s[i] \in Entry /\ s[i + 1] \in Entry
    BY <1>2
  <2>2. QED  BY <1>2, <2>1 DEF Without
<1>3. QED  BY <1>1, <1>2

LEMMA WithoutRange ==
  ASSUME NEW s \in Seq(Entry), Distinct(s), NEW p \in DOMAIN s
  PROVE  /\ Distinct(Without(s, s[p]))
         /\ Range(Without(s, s[p])) = Range(s) \ {s[p]}
<1> DEFINE t == Without(s, s[p])
<1>1. t \in Seq(Entry) /\ Len(t) = Len(s) - 1
      /\ \A i \in 1 .. Len(s) - 1 : t[i] = IF i < p THEN s[i] ELSE s[i + 1]
  BY WithoutIs
<1>2. Distinct(t)
  BY <1>1 DEF Distinct
<1>3. ASSUME NEW i \in DOMAIN t PROVE t[i] \in Range(s) \ {s[p]}
  BY <1>1 DEF Distinct, Range
<1>4. ASSUME NEW i \in DOMAIN s, i # p PROVE s[i] \in Range(t)
  <2>1. CASE i < p
    BY <1>1, <2>1 DEF Range
  <2>2. CASE i > p
    <3>1. i - 1 \in DOMAIN t /\ t[i - 1] = s[i]
      BY <1>1, <2>2
    <3>2. QED  BY <3>1 DEF Range
  <2>3. QED  BY <1>4, <2>1, <2>2
<1>5. QED  BY <1>2, <1>3, <1>4 DEF Range

LEMMA AddType ==
  ASSUME NEW l \in List, NEW e \in Entry
  PROVE  Add(l, e) \in List
<1>1. /\ l.head \in Pointer /\ l.tail \in Pointer /\ l.count \in Int
      /\ l.prev \in [Entry -> Pointer] /\ l.next \in [Entry -> Pointer]
      /\ e \in Pointer /\ Null \in Pointer
  BY DEF List, Pointer
<1>2. /\ [l.prev EXCEPT ![e] = IF l.head = Null THEN Null ELSE l.tail]
           \in [Entry -> Pointer]
      /\ [x \in Entry |-> IF x = e THEN Null
                          ELSE IF l.head # Null /\ x = l.tail THEN e
                          ELSE l.next[x]] \in [Entry -> Pointer]
  BY <1>1
<1>3. QED  BY <1>1, <1>2 DEF Add, List

(* visual_list_add keeps a list a list, with the new entry behind. *)
LEMMA AddLinks ==
  ASSUME NEW l \in List, NEW s \in Seq(Entry), Links(l, s),
         NEW e \in Entry, e \notin Range(s)
  PROVE  /\ Add(l, e) \in List
         /\ Links(Add(l, e), Append(s, e))
<1> DEFINE a == Add(l, e)
           t == Append(s, e)
<1>1. /\ l.head \in Pointer /\ l.tail \in Pointer /\ l.count \in Int
      /\ l.prev \in [Entry -> Pointer] /\ l.next \in [Entry -> Pointer]
  BY DEF List
<1>2. a = [head |-> IF l.head = Null THEN e ELSE l.head, tail |-> e,
           count |-> l.count + 1,
           prev |-> [l.prev EXCEPT ![e] = IF l.head = Null THEN Null ELSE l.tail],
           next |-> [x \in Entry |-> IF x = e THEN Null
                                     ELSE IF l.head # Null /\ x = l.tail THEN e
                                     ELSE l.next[x]]]
  BY DEF Add
<1>3. a \in List
  BY AddType
<1>4. Distinct(t)
  BY DEF Links, Distinct, Range
<1>5. /\ t \in Seq(Entry) /\ Len(t) = Len(s) + 1 /\ t[Len(t)] = e
      /\ \A i \in 1 .. Len(s) : t[i] = s[i] /\ s[i] \in Entry /\ s[i] # e
  BY DEF Range
<1>6. /\ l.head = Null <=> Len(s) = 0
      /\ Len(s) # 0 => l.head = s[1] /\ l.tail = s[Len(s)]
  BY VisListAssumption DEF Links
<1>7. a.count = Len(t) /\ a.head = t[1] /\ a.tail = t[Len(t)] /\ t # << >>
  <2>1. Len(s) \in Nat /\ l.count = Len(s)
    BY DEF Links
  <2>2. t[1] = IF Len(s) = 0 THEN e ELSE s[1]
    BY <1>5, <2>1
  <2>3. QED  BY <1>2, <1>5, <1>6, <2>1, <2>2
<1>8. ASSUME NEW i \in DOMAIN t
      PROVE  /\ a.prev[t[i]] = IF i = 1 THEN Null ELSE t[i - 1]
             /\ a.next[t[i]] = IF i = Len(t) THEN Null ELSE t[i + 1]
  <2>1. CASE i = Len(t)
    BY <1>1, <1>2, <1>5, <1>6, <2>1
  <2>2. CASE i # Len(t)
    <3>1. i \in 1 .. Len(s) /\ t[i] = s[i] /\ s[i] # e /\ s[i] \in Entry /\ Len(s) # 0
      BY <1>5, <2>2
    <3>2. a.prev[t[i]] = l.prev[s[i]]
      BY <1>1, <1>2, <3>1
    <3>3. l.prev[s[i]] = IF i = 1 THEN Null ELSE t[i - 1]
      BY <1>5, <3>1 DEF Links
    <3>4. CASE i = Len(s)
      BY <1>2, <1>5, <1>6, <3>1, <3>2, <3>3, <3>4
    <3>5. CASE i # Len(s)
      <4>1. s[i] # s[Len(s)]
        BY <3>1, <3>5 DEF Links, Distinct
      <4>2. a.next[t[i]] = l.next[s[i]]
        BY <1>2, <1>6, <3>1, <4>1
      <4>3. l.next[s[i]] = s[i + 1] /\ i + 1 \in 1 .. Len(s)
        BY <3>1, <3>5 DEF Links
      <4>4. QED  BY <1>5, <2>2, <3>2, <3>3, <4>2, <4>3
    <3>6. QED  BY <3>4, <3>5
  <2>3. QED  BY <2>1, <2>2
<1>9. QED  BY <1>3, <1>4, <1>7, <1>8 DEF Links

(* visual_list_unchain keeps a list a list, without the entry. *)
LEMMA UnchainType ==
  ASSUME NEW l \in List, NEW e \in Entry
  PROVE  Unchain(l, e) \in List
<1>1. /\ l.head \in Pointer /\ l.tail \in Pointer /\ l.count \in Int
      /\ l.prev \in [Entry -> Pointer] /\ l.next \in [Entry -> Pointer]
  BY DEF List
<1>2. JoinNext(l, e) \in [Entry -> Pointer] /\ JoinPrev(l, e) \in [Entry -> Pointer]
  BY <1>1 DEF JoinNext, JoinPrev
<1>3. QED  BY <1>1, <1>2 DEF Unchain, List

LEMMA UnchainLinks ==
  ASSUME NEW l \in List, NEW s \in Seq(Entry), Links(l, s), NEW p \in DOMAIN s
  PROVE  Links(Unchain(l, s[p]), Without(s, s[p]))
<1> DEFINE n == Len(s)
           t == Without(s, s[p])
           u == Unchain(l, s[p])
<1>1. n \in Nat /\ p \in 1 .. n /\ p \in Int /\ (n = 1 \/ n > 1)
  <2>1. \A x \in Nat : \A y \in 1 .. x : x = 1 \/ x > 1
    OBVIOUS
  <2>2. n \in Nat /\ p \in 1 .. n /\ p \in Int
    OBVIOUS
  <2>3. n = 1 \/ n > 1
    BY <2>1, <2>2, Zenon
  <2>4. QED  BY <2>2, <2>3
<1>2. \A i \in 1 .. n : s[i] \in Entry /\ s[i] # Null
  BY VisListAssumption
<1>3. \A i, j \in 1 .. n : s[i] = s[j] => i = j
  BY DEF Links, Distinct
<1>4. l.count = n /\ l.head = s[1] /\ l.tail = s[n]
  BY <1>1 DEF Links
<1>5. \A i \in 1 .. n :
        /\ l.prev[s[i]] = IF i = 1 THEN Null ELSE s[i - 1]
        /\ l.next[s[i]] = IF i = n THEN Null ELSE s[i + 1]
  BY DEF Links
<1>6. t \in Seq(Entry) /\ Len(t) = n - 1 /\ Distinct(t)
      /\ \A i \in 1 .. n - 1 : t[i] = IF i < p THEN s[i] ELSE s[i + 1]
  BY WithoutIs, WithoutRange DEF Links
\* The neighbours of s[p].
<1>7. l.prev[s[p]] = (IF p = 1 THEN Null ELSE s[p - 1])
      /\ l.next[s[p]] = (IF p = n THEN Null ELSE s[p + 1])
  BY <1>1, <1>5
<1>8. \A i \in 1 .. n : s[i] = l.prev[s[p]] <=> i = p - 1
  <2>1. CASE p = 1
    BY <1>2, <1>7, <2>1
  <2>2. CASE p # 1
    <3>1. p - 1 \in 1 .. n
      BY <1>1, <2>2
    <3>2. QED  BY <1>3, <1>7, <2>2, <3>1
  <2>3. QED  BY <2>1, <2>2
<1>9. \A i \in 1 .. n : s[i] = l.next[s[p]] <=> i = p + 1
  <2>1. CASE p = n
    BY <1>1, <1>2, <1>7, <2>1
  <2>2. CASE p # n
    <3>1. p + 1 \in 1 .. n
      BY <1>1, <2>2
    <3>2. QED  BY <1>3, <1>7, <2>2, <3>1
  <2>3. QED  BY <2>1, <2>2
\* The pointers of the others.
<1>10. \A i \in 1 .. n :
         /\ u.prev[s[i]] = IF i = p + 1 THEN l.prev[s[p]] ELSE l.prev[s[i]]
         /\ u.next[s[i]] = IF i = p - 1 THEN l.next[s[p]] ELSE l.next[s[i]]
  BY <1>2, <1>8, <1>9 DEF Unchain, JoinNext, JoinPrev
<1>11. /\ u.count = n - 1
       /\ u.head = IF p = 1 THEN l.next[s[p]] ELSE s[1]
       /\ u.tail = IF p = n THEN l.prev[s[p]] ELSE s[n]
  <2>1. l.prev[s[p]] = Null <=> p = 1
    BY <1>1, <1>2, <1>7
  <2>2. l.next[s[p]] = Null <=> p = n
    <3>1. p # n => p + 1 \in 1 .. n
      BY <1>1
    <3>2. QED  BY <1>2, <1>7, <3>1
  <2>3. QED  BY <1>4, <2>1, <2>2 DEF Unchain
<1>12. u.count = Len(t) /\ u.head = IF t = << >> THEN Null ELSE t[1]
  <2>1. t = << >> <=> n = 1
    BY <1>1, <1>6
  <2>2. CASE n = 1
    BY <1>1, <1>6, <1>7, <1>11, <2>1, <2>2
  <2>3. CASE n > 1
    <3>1. 1 \in 1 .. n - 1
      BY <1>1, <2>3
    <3>2. t[1] = IF p = 1 THEN s[2] ELSE s[1]
      BY <1>1, <1>6, <3>1
    <3>3. QED  BY <1>6, <1>7, <1>11, <2>1, <2>3, <3>2
  <2>4. QED  BY <1>1, <2>2, <2>3
<1>13. u.tail = IF t = << >> THEN Null ELSE t[Len(t)]
  <2>1. t = << >> <=> n = 1
    BY <1>1, <1>6
  <2>2. CASE n = 1
    BY <1>1, <1>7, <1>11, <2>1, <2>2
  <2>3. CASE n > 1
    <3>1. n - 1 \in 1 .. n - 1 /\ (n - 1 < p <=> p = n)
      BY <1>1, <2>3
    <3>2. t[n - 1] = IF p = n THEN s[n - 1] ELSE s[(n - 1) + 1]
      BY <1>6, <3>1
    <3>3. (n - 1) + 1 = n
      BY <1>1
    <3>4. QED  BY <1>6, <1>7, <1>11, <2>1, <2>3, <3>2, <3>3
  <2>4. QED  BY <1>1, <2>2, <2>3
<1>14. ASSUME NEW i \in DOMAIN t
       PROVE  /\ u.prev[t[i]] = IF i = 1 THEN Null ELSE t[i - 1]
              /\ u.next[t[i]] = IF i = Len(t) THEN Null ELSE t[i + 1]
  <2>1. i \in 1 .. n - 1 /\ i \in 1 .. n /\ i + 1 \in 1 .. n /\ i # n
    BY <1>1, <1>6
  <2>2. CASE i < p
    <3>1. t[i] = s[i] /\ i # p + 1
      BY <1>1, <1>6, <2>1, <2>2
    <3>2. i # 1 => t[i - 1] = s[i - 1]
      <4>1. SUFFICES ASSUME i # 1 PROVE t[i - 1] = s[i - 1]
        OBVIOUS
      <4>2. i - 1 \in 1 .. n - 1 /\ i - 1 < p
        BY <1>1, <2>1, <2>2, <4>1
      <4>3. QED  BY <1>6, <4>2
    <3>3. u.prev[t[i]] = IF i = 1 THEN Null ELSE t[i - 1]
      BY <1>5, <1>10, <2>1, <3>1, <3>2
    <3>4. CASE i = p - 1
      <4>1. u.next[t[i]] = l.next[s[p]]
        BY <1>10, <2>1, <3>1, <3>4
      <4>2. i = n - 1 <=> p = n
        BY <1>1, <2>1, <3>4
      <4>3. i # n - 1 => t[i + 1] = s[p + 1]
        <5>1. SUFFICES ASSUME i # n - 1 PROVE t[i + 1] = s[p + 1]
          OBVIOUS
        <5>2. i + 1 \in 1 .. n - 1 /\ i + 1 = p
          BY <1>1, <2>1, <3>4, <5>1
        <5>3. QED  BY <1>1, <1>6, <5>2
      <4>4. QED  BY <1>6, <1>7, <3>3, <4>1, <4>2, <4>3
    <3>5. CASE i # p - 1
      <4>1. u.next[t[i]] = s[i + 1]
        BY <1>5, <1>10, <2>1, <3>1, <3>5
      <4>2. i + 1 \in 1 .. n - 1 /\ i + 1 < p /\ i # n - 1
        BY <1>1, <2>1, <2>2, <3>5
      <4>3. t[i + 1] = s[i + 1]
        BY <1>6, <4>2
      <4>4. QED  BY <1>6, <3>3, <4>1, <4>2, <4>3
    <3>6. QED  BY <3>4, <3>5
  <2>3. CASE ~(i < p)
    <3>1. t[i] = s[i + 1] /\ i + 1 # p - 1 /\ i # 0
      BY <1>1, <1>6, <2>1, <2>3
    <3>2. u.next[t[i]] = IF i + 1 = n THEN Null ELSE s[(i + 1) + 1]
      BY <1>5, <1>10, <2>1, <3>1
    <3>3. i + 1 # n => t[i + 1] = s[(i + 1) + 1]
      <4>1. SUFFICES ASSUME i + 1 # n PROVE t[i + 1] = s[(i + 1) + 1]
        OBVIOUS
      <4>2. i + 1 \in 1 .. n - 1 /\ ~(i + 1 < p)
        BY <1>1, <2>1, <2>3, <4>1
      <4>3. QED  BY <1>6, <4>2
    <3>4. u.next[t[i]] = IF i = Len(t) THEN Null ELSE t[i + 1]
      <4>1. i = n - 1 <=> i + 1 = n
        BY <1>1, <2>1
      <4>2. QED  BY <1>6, <3>2, <3>3, <4>1
    <3>5. CASE i = p
      <4>1. u.prev[t[i]] = l.prev[s[p]]
        BY <1>10, <2>1, <3>1, <3>5
      <4>2. i # 1 => t[i - 1] = s[p - 1]
        <5>1. SUFFICES ASSUME i # 1 PROVE t[i - 1] = s[p - 1]
          OBVIOUS
        <5>2. i - 1 \in 1 .. n - 1 /\ i - 1 < p
          BY <1>1, <2>1, <3>5, <5>1
        <5>3. QED  BY <1>6, <3>5, <5>2
      <4>3. QED  BY <1>7, <3>4, <3>5, <4>1, <4>2
    <3>6. CASE i # p
      <4>1. i + 1 # p + 1 /\ i + 1 # 1 /\ (i + 1) - 1 = i
        BY <1>1, <2>1, <3>6
      <4>2. u.prev[t[i]] = s[i]
        BY <1>5, <1>10, <2>1, <3>1, <4>1
      <4>3. i - 1 \in 1 .. n - 1 /\ ~(i - 1 < p) /\ (i - 1) + 1 = i
        BY <1>1, <2>1, <2>3, <3>6
      <4>4. t[i - 1] = s[(i - 1) + 1]
        BY <1>6, <4>3
      <4>5. i # 1
        BY <4>3
      <4>6. QED  BY <3>4, <4>2, <4>3, <4>4, <4>5
    <3>7. QED  BY <3>5, <3>6
  <2>4. QED  BY <2>2, <2>3
<1>15. QED  BY <1>6, <1>12, <1>13, <1>14 DEF Links

(* The list does not mind what is forgotten of an entry it does not hold.  *)
LEMMA ForgetType ==
  ASSUME NEW l \in List, NEW e \in Entry
  PROVE  Forget(l, e) \in List /\ Forget(l, e).count = l.count
<1>1. /\ l.head \in Pointer /\ l.tail \in Pointer /\ l.count \in Int
      /\ l.prev \in [Entry -> Pointer] /\ l.next \in [Entry -> Pointer]
      /\ Null \in Pointer
  BY DEF List, Pointer
<1>2. /\ [l.prev EXCEPT ![e] = Null] \in [Entry -> Pointer]
      /\ [l.next EXCEPT ![e] = Null] \in [Entry -> Pointer]
  BY <1>1
<1>3. QED  BY <1>1, <1>2 DEF Forget, List

LEMMA ForgetLinks ==
  ASSUME NEW l \in List, NEW e \in Entry, NEW s \in Seq(Entry), Links(l, s),
         e \notin Range(s)
  PROVE  Links(Forget(l, e), s)
<1>1. /\ Forget(l, e).head = l.head /\ Forget(l, e).tail = l.tail
      /\ Forget(l, e).count = l.count
      /\ \A x \in Entry : x # e =>
           Forget(l, e).prev[x] = l.prev[x] /\ Forget(l, e).next[x] = l.next[x]
  BY DEF Forget, List
<1>2. \A i \in DOMAIN s : s[i] \in Entry /\ s[i] # e
  BY DEF Range
<1>3. QED  BY <1>1, <1>2 DEF Links

LEMMA ChainAtBeginType ==
  ASSUME NEW l \in List, NEW e \in Entry
  PROVE  ChainAtBegin(l, e) \in List
<1>1. /\ l.head \in Pointer /\ l.tail \in Pointer /\ l.count \in Int
      /\ l.prev \in [Entry -> Pointer] /\ l.next \in [Entry -> Pointer]
      /\ e \in Pointer /\ Null \in Pointer
  BY DEF List, Pointer
<1>2. /\ [l.prev EXCEPT ![e] = Null] \in [Entry -> Pointer]
      /\ [l.next EXCEPT ![e] = l.head] \in [Entry -> Pointer]
  BY <1>1
<1>3. QED  BY <1>1, <1>2 DEF ChainAtBegin, List

-----------------------------------------------------------------------------
(* The cache *)

(* An entry that is allocated has been put under a key. *)
KeysKnown == \A e \in live : key[e] \in Key

PutFits == call.op = "put" => size >= 1

(* The index knows every entry of the list. *)
Indexed == \A i \in DOMAIN order : index[key[order[i]]] = <<order[i]>>

Sound ==
  /\ "freed" \notin ub
  /\ Links(list, order)
  /\ live = Range(order)
  /\ call.op = "clear" => call.le \in live \cup {Null}
  /\ leftover \/ call.op = "clear" \/ Indexed

(* The entries that the index has under their key. *)
Named == {e \in live : index[key[e]] = <<e>>}

(* The counts of the list and of the index are right, torn or not, until   *)
(* something is touched that is not there; so is the table, until the      *)
(* limit is raised.                                                        *)
Counted ==
  ub = {} =>
    /\ IsFiniteSet(live)
    /\ list.count = Cardinality(live)
    /\ indexed = Cardinality(Named)
    /\ raised \/ (size <= slots /\ indexed <= slots)

Inv ==
  /\ TypeOK
  /\ AnswersAreLive
  /\ KeysKnown
  /\ PutFits
  /\ Counted
  /\ IndexStaysInTable
  /\ ~reqreset => Sound

LEMMA InvInit == Init => Inv
<1> SUFFICES ASSUME Init PROVE Inv
  OBVIOUS
<1>1. EmptyList \in List /\ EmptyList.count = 0
  BY DEF EmptyList, List, Pointer
<1>2. size \in Nat /\ slots \in Nat
  BY VisCacheAssumption DEF Init
<1>3. TypeOK
  <2>1. key \in [Entry -> Key \cup {Null}]
    BY DEF Init
  <2>2. index \in [Key -> Seq(Entry)] /\ order \in Seq(Entry)
    BY DEF Init
  <2>3. call \in Call
    BY DEF Init, Call
  <2>4. QED  BY <1>1, <1>2, <2>1, <2>2, <2>3 DEF Init, TypeOK
<1>4. AnswersAreLive /\ KeysKnown /\ PutFits /\ IndexStaysInTable
  BY DEF Init, AnswersAreLive, KeysKnown, PutFits, NoCall, IndexStaysInTable
<1>5. Counted
  <2>1. live = {} /\ Named = {}
    BY DEF Init, Named
  <2>2. IsFiniteSet({}) /\ Cardinality({}) = 0
    BY FS_EmptySet
  <2>3. QED  BY <1>1, <1>2, <2>1, <2>2 DEF Init, Counted
<1>6. Sound
  BY DEF Init, Sound, Links, EmptyList, Distinct, Range, Indexed, NoCall
<1>7. QED  BY <1>3, <1>4, <1>5, <1>6 DEF Inv

(* A call in its loop has the arguments of its operation. *)
LEMMA CallIs ==
  ASSUME TypeOK
  PROVE  /\ call.op = "put" => call.key \in Key
         /\ call.op = "clear" => call.le \in Pointer
BY DEF TypeOK, Call, NoCall, Put, Clear

(* The first entry under a key, if there is one, is the only one. *)
LEMMA AnswerIs ==
  ASSUME TypeOK, AnswersAreLive, NEW k \in Key, index[k] # << >>
  PROVE  /\ Head(index[k]) \in live
         /\ key[Head(index[k])] = k
         /\ index[k] = <<Head(index[k])>>
         /\ Tail(index[k]) = << >>
<1> DEFINE s == index[k]
<1>1. s \in Seq(Entry) /\ Len(s) = 1
  <2>1. s \in Seq(Entry)
    BY DEF TypeOK
  <2>2. Len(s) \in Nat /\ Len(s) <= 1 /\ Len(s) # 0
    BY <2>1 DEF AnswersAreLive
  <2>3. \A n \in Nat : n <= 1 /\ n # 0 => n = 1
    OBVIOUS
  <2>4. Len(s) = 1
    BY <2>2, <2>3, Zenon
  <2>5. QED  BY <2>1, <2>4
<1>2. Head(s) = s[1] /\ s = <<s[1]>> /\ 1 \in DOMAIN s
  BY <1>1
<1>3. Tail(s) = << >>
  <2>1. Tail(s) \in Seq(Entry) /\ Len(Tail(s)) = 0
    BY <1>1
  <2>2. \A t \in Seq(Entry) : Len(t) = 0 => t = << >>
    OBVIOUS
  <2>3. QED  BY <2>1, <2>2, Zenon
<1>4. QED  BY <1>2, <1>3 DEF AnswersAreLive

(* cache_remove_list_entry, whatever the state of the list. *)
LEMMA DestroyKeepsIndex ==
  ASSUME Inv, ub = {}, NEW e \in Entry, Destroy(e)
  PROVE  /\ list' \in List /\ order' \in Seq(Entry)
         /\ key' \in [Entry -> Key \cup {Null}]
         /\ live' \subseteq Entry /\ index' \in [Key -> Seq(Entry)]
         /\ indexed' \in Nat /\ slots' \in Nat /\ ub' \subseteq {"freed", "slot", "table"}
         /\ AnswersAreLive' /\ KeysKnown'
<1>1. list' \in List /\ order' \in Seq(Entry)
  BY UnchainType, ForgetType, WithoutIsSeq DEF Inv, TypeOK, Destroy
<1>2. live' = live \ {e} /\ ub' \subseteq {"freed", "slot", "table"} /\ slots' = slots
      /\ key' = [key EXCEPT ![e] = Null]
  BY DEF Inv, TypeOK, Destroy, Freed
<1>3. \A x \in Entry : x # e => key'[x] = key[x]
  BY <1>2 DEF Inv, TypeOK
<1>4. KeysKnown'
  BY <1>2, <1>3 DEF Inv, KeysKnown, TypeOK
<1>5. index' \in [Key -> Seq(Entry)] /\ indexed' \in Nat
      /\ \A k \in Key : index'[k] = IF k = key[e] THEN << >> ELSE index[k]
  <2>1. CASE key[e] \in Key /\ index[key[e]] # << >>
    <3>1. Tail(index[key[e]]) = << >> /\ index[key[e]] = <<Head(index[key[e]])>>
          /\ Head(index[key[e]]) \in live /\ key[Head(index[key[e]])] = key[e]
      BY <2>1, AnswerIs DEF Inv
    <3>2. Head(index[key[e]]) \in Named
      BY <3>1 DEF Named
    <3>3. indexed \in Nat /\ indexed # 0
      <4>1. IsFiniteSet(Named) /\ indexed = Cardinality(Named)
        <5>1. Named \subseteq live /\ IsFiniteSet(live)
          BY DEF Inv, Counted, Named
        <5>2. QED  BY <5>1, FS_Subset DEF Inv, Counted
      <4>2. QED  BY <3>2, <4>1, FS_EmptySet, FS_CardinalityType
    <3>4. indexed' = indexed - 1
      BY <2>1 DEF Destroy
    <3>5. index' = [index EXCEPT ![key[e]] = << >>] /\ index \in [Key -> Seq(Entry)]
      BY <2>1, <3>1 DEF Inv, TypeOK, Destroy
    <3>6. index' \in [Key -> Seq(Entry)]
          /\ \A k \in Key : index'[k] = IF k = key[e] THEN << >> ELSE index[k]
      BY <2>1, <3>5
    <3>7. QED  BY <3>3, <3>4, <3>6
  <2>2. CASE ~(key[e] \in Key /\ index[key[e]] # << >>)
    BY <2>2 DEF Inv, TypeOK, Destroy
  <2>3. QED  BY <2>1, <2>2
<1>6. AnswersAreLive'
  <2> SUFFICES ASSUME NEW k \in Key
               PROVE  /\ Len(index'[k]) <= 1
                      /\ \A i \in DOMAIN index'[k] :
                           index'[k][i] \in live' /\ key'[index'[k][i]] = k
    BY DEF AnswersAreLive
  <2>1. CASE k = key[e]
    BY <1>5, <2>1
  <2>2. CASE k # key[e]
    <3>1. index'[k] = index[k] /\ Len(index[k]) <= 1
      BY <1>5, <2>2 DEF Inv, AnswersAreLive
    <3>2. ASSUME NEW i \in DOMAIN index[k]
          PROVE  index[k][i] \in live' /\ key'[index[k][i]] = k
      <4>1. index[k][i] \in live /\ key[index[k][i]] = k
        BY <3>2 DEF Inv, AnswersAreLive
      <4>2. index[k][i] # e /\ index[k][i] \in Entry
        BY <2>2, <4>1 DEF Inv, TypeOK
      <4>3. QED  BY <1>2, <1>3, <4>1, <4>2
    <3>3. QED  BY <3>1, <3>2
  <2>3. QED  BY <2>1, <2>2
<1>7. key' \in [Entry -> Key \cup {Null}]
  BY <1>2 DEF Inv, TypeOK
<1>8. QED  BY <1>1, <1>2, <1>4, <1>5, <1>6, <1>7 DEF Inv, TypeOK

(* It takes one entry from the list and at most one from the index, and    *)
(* the counts follow.                                                      *)
LEMMA DestroyKeepsCounts ==
  ASSUME Inv, ub = {}, NEW e \in Entry, Destroy(e), UNCHANGED <<size, raised>>
  PROVE  Counted' /\ IndexStaysInTable'
<1>1. /\ IsFiniteSet(live) /\ list.count = Cardinality(live)
      /\ indexed = Cardinality(Named)
      /\ raised \/ (size <= slots /\ indexed <= slots)
  BY DEF Inv, Counted
<1>2. /\ live' = live \ {e} /\ slots' = slots
      /\ \A x \in Entry : x # e => key'[x] = key[x]
  BY DEF Destroy, Inv, TypeOK
<1>3. "table" \notin ub' /\ ("slot" \in ub' => key[e] \in Key /\ Outside(key[e]))
  BY DEF Destroy, Freed
<1>4. IndexStaysInTable'
  BY <1>2, <1>3 DEF IndexStaysInTable, Outside
<1>5. ASSUME ub' = {} PROVE Counted'
  <2>1. e \in live
    <3>1. Freed(UnchainTouches(list, e)) = {}
      BY <1>5 DEF Destroy
    <3>2. e \in UnchainTouches(list, e)
      BY VisListAssumption DEF UnchainTouches
    <3>3. QED  BY <3>1, <3>2 DEF Freed
  <2>2. /\ IsFiniteSet(live') /\ Cardinality(live') = Cardinality(live) - 1
    BY <1>1, <1>2, <2>1, FS_RemoveElement
  <2>3. list'.count = list.count - 1
    <3>1. list \in List /\ Unchain(list, e) \in List
      BY UnchainType DEF Inv, TypeOK
    <3>2. list'.count = Unchain(list, e).count
      BY <3>1, ForgetType DEF Destroy
    <3>3. QED  BY <3>2 DEF Unchain
  <2>4. IsFiniteSet(Named) /\ key[e] \in Key
    <3>1. Named \subseteq live
      BY DEF Named
    <3>2. QED  BY <1>1, <2>1, <3>1, FS_Subset DEF Inv, KeysKnown
  <2>5. indexed' = Cardinality(Named') /\ indexed' <= indexed
    <3>1. CASE index[key[e]] # << >>
      <4> DEFINE x == Head(index[key[e]])
      <4>1. /\ x \in live /\ key[x] = key[e] /\ index[key[e]] = <<x>>
            /\ Tail(index[key[e]]) = << >>
        BY <2>4, <3>1, AnswerIs DEF Inv
      <4>2. /\ \A k \in Key : index'[k] = IF k = key[e] THEN << >> ELSE index[k]
            /\ indexed' = indexed - 1
        BY <2>4, <3>1, <4>1 DEF Destroy, Inv, TypeOK
      <4>3. x \in Named
        BY <4>1 DEF Named
      <4> HIDE DEF x
      <4>4. Named' = Named \ {x}
        <5>1. ASSUME NEW y \in live PROVE y \in Named' <=> y \in Named \ {x}
          <6>1. y \in Entry /\ key[y] \in Key /\ <<y>> # << >>
            BY DEF Inv, TypeOK, KeysKnown
          <6>2. CASE y = e
            <7>1. y \in Named => y = x
              BY <4>1, <6>2 DEF Named
            <7>2. y \notin Named'
              BY <1>2, <6>2 DEF Named
            <7>3. QED  BY <7>1, <7>2
          <6>3. CASE y # e /\ key[y] = key[e]
            <7>1. y \in Named => y = x
              BY <4>1, <6>3 DEF Named
            <7>2. index'[key'[y]] = << >>
              BY <1>2, <4>2, <6>1, <6>3
            <7>3. QED  BY <6>1, <7>1, <7>2 DEF Named
          <6>4. CASE y # e /\ key[y] # key[e]
            <7>1. y \in live' /\ index'[key'[y]] = index[key[y]]
              BY <1>2, <4>2, <6>1, <6>4
            <7>2. y # x
              BY <4>1, <6>4
            <7>3. QED  BY <7>1, <7>2 DEF Named
          <6>5. QED  BY <6>2, <6>3, <6>4
        <5>2. Named' \subseteq live /\ Named \subseteq live
          BY <1>2 DEF Named
        <5>3. QED  BY <5>1, <5>2
      <4>5. Cardinality(Named') = Cardinality(Named) - 1
        BY <2>4, <4>3, <4>4, FS_RemoveElement
      <4>6. indexed \in Nat
        BY DEF Inv, TypeOK
      <4>7. QED  BY <1>1, <4>2, <4>5, <4>6
    <3>2. CASE index[key[e]] = << >>
      <4>1. index' = index /\ indexed' = indexed /\ indexed \in Nat
        BY <3>2 DEF Destroy, Inv, TypeOK
      <4>2. e \notin Named
        BY <3>2 DEF Named
      <4>3. ASSUME NEW y \in live, y # e PROVE y \in Named' <=> y \in Named
        <5>1. key'[y] = key[y] /\ y \in live'
          BY <1>2, <4>3 DEF Inv, TypeOK
        <5>2. QED  BY <4>1, <5>1 DEF Named
      <4>4. Named' \subseteq live \ {e} /\ Named \subseteq live
        BY <1>2 DEF Named
      <4>5. Named' = Named
        BY <4>2, <4>3, <4>4
      <4>6. QED  BY <1>1, <4>1, <4>5
    <3>3. QED  BY <3>1, <3>2
  <2>6. raised' \/ (size' <= slots' /\ indexed' <= slots')
    <3>1. indexed' \in Nat /\ indexed \in Nat /\ slots \in Nat
      BY DestroyKeepsIndex DEF Inv, TypeOK
    <3>2. QED  BY <1>1, <1>2, <2>5, <3>1
  <2>7. QED  BY <1>1, <2>2, <2>3, <2>5, <2>6 DEF Counted
<1>6. QED  BY <1>4, <1>5 DEF Counted

(* The same in a list that is sound. *)
LEMMA DestroyKeepsList ==
  ASSUME Inv, ~reqreset, ub = {}, NEW e \in live, Destroy(e)
  PROVE  /\ "freed" \notin ub' /\ Links(list', order') /\ live' = Range(order')
         /\ Indexed => Indexed'
<1>1. /\ list \in List /\ order \in Seq(Entry) /\ Distinct(order)
      /\ Links(list, order) /\ live = Range(order) /\ e \in Entry
      /\ key \in [Entry -> Key \cup {Null}] /\ key' = [key EXCEPT ![e] = Null]
  BY DEF Inv, TypeOK, Sound, Links, Destroy
<1>2. PICK p \in DOMAIN order : order[p] = e
  BY <1>1 DEF Range
<1>3. /\ order' \in Seq(Entry) /\ Range(order') = Range(order) \ {e}
  BY <1>1, <1>2, WithoutRange, WithoutIsSeq DEF Destroy
<1>4. Links(list', order')
  <2>1. Links(Unchain(list, e), order') /\ Unchain(list, e) \in List
    BY <1>1, <1>2, UnchainLinks, UnchainType DEF Destroy
  <2>2. e \notin Range(order')
    BY <1>3
  <2>3. QED  BY <1>1, <1>3, <2>1, <2>2, ForgetLinks DEF Destroy
<1>5. live' = Range(order')
  BY <1>1, <1>3 DEF Destroy
<1>6. UnchainTouches(list, e) \subseteq live
  <2>1. list.prev[e] = IF p = 1 THEN Null ELSE order[p - 1]
    BY <1>1, <1>2 DEF Links
  <2>2. list.next[e] = IF p = Len(order) THEN Null ELSE order[p + 1]
    BY <1>1, <1>2 DEF Links
  <2>3. list.prev[e] \in live \cup {Null}
    BY <1>1, <1>2, <2>1 DEF Range
  <2>4. list.next[e] \in live \cup {Null}
    BY <1>1, <1>2, <2>2 DEF Range
  <2>5. QED  BY <2>3, <2>4 DEF UnchainTouches
<1>7. "freed" \notin ub'
  BY <1>1, <1>6 DEF Destroy, Freed
<1>8. ASSUME Indexed PROVE Indexed'
  <2>1. ASSUME NEW i \in DOMAIN order' PROVE index'[key'[order'[i]]] = <<order'[i]>>
    <3>1. order'[i] \in Range(order) \ {e}
      <4>1. order'[i] \in Range(order')
        BY <2>1 DEF Range
      <4>2. QED  BY <1>3, <4>1
    <3>2. PICK j \in DOMAIN order : order[j] = order'[i]
      BY <3>1 DEF Range
    <3>3. /\ index[key[order'[i]]] = <<order'[i]>> /\ index[key[e]] = <<e>>
          /\ key[e] \in Key /\ key[order'[i]] \in Key
      BY <1>1, <1>2, <1>8, <3>1, <3>2 DEF Indexed, Inv, KeysKnown
    <3>4. key[order'[i]] # key[e]
      <4>1. <<order'[i]>> # <<e>>
        BY <3>1
      <4>2. QED  BY <3>3, <4>1
    <3>5. key'[order'[i]] = key[order'[i]]
      BY <1>1, <3>1 DEF Inv, TypeOK
    <3>6. index'[key[order'[i]]] = index[key[order'[i]]]
      BY <3>3, <3>4 DEF Destroy, Inv, TypeOK
    <3>7. QED  BY <3>3, <3>5, <3>6
  <2>2. QED  BY <2>1 DEF Indexed
<1>9. QED  BY <1>4, <1>5, <1>7, <1>8

(* handle_request_reset of an entry that is live. *)
LEMMA ResetKeeps ==
  ASSUME Inv, ub = {}, NEW e \in live, Reset(e),
         UNCHANGED <<key, map, size, raised, reqreset, live>>
  PROVE  /\ list' \in List /\ order' \in Seq(Entry)
         /\ ub' \subseteq {"freed", "slot", "table"}
         /\ Counted' /\ IndexStaysInTable'
         /\ ~reqreset => UNCHANGED <<list, order>> /\ ub' = {}
<1>1. e \in Entry /\ list \in List
  BY DEF Inv, TypeOK
<1>2. ub' \subseteq {"freed"}
  BY DEF Reset, Freed
<1>3. IndexStaysInTable'
  BY <1>2 DEF IndexStaysInTable
<1>4. /\ list' \in List /\ list'.count = list.count /\ order' \in Seq(Entry)
      /\ ~reqreset => UNCHANGED <<list, order>> /\ ub' = {}
  <2>1. CASE ~reqreset
    BY <2>1, <1>1 DEF Inv, TypeOK, Reset, Freed
  <2>2. CASE reqreset
    <3>1. /\ list' = ChainAtBegin(Unchain(list, e), e)
          /\ Unchain(list, e) \in List
      BY <1>1, <2>2, UnchainType DEF Reset
    <3>2. list' \in List
      BY <1>1, <3>1, ChainAtBeginType
    <3>3. list'.count = list.count
      <4>1. list'.count = Unchain(list, e).count + 1
        BY <3>1 DEF ChainAtBegin
      <4>2. Unchain(list, e).count = list.count - 1 /\ list.count \in Int
        BY <1>1 DEF Unchain, List
      <4>3. QED  BY <4>1, <4>2
    <3>4. order' \in Seq(Entry)
      <4>1. Without(order, e) \in Seq(Entry)
        BY WithoutIsSeq DEF Inv, TypeOK
      <4>2. QED  BY <1>1, <2>2, <4>1 DEF Reset
    <3>5. QED  BY <2>2, <3>2, <3>3, <3>4
  <2>3. QED  BY <2>1, <2>2
<1>5. Named' = Named
  BY DEF Named, map
<1>6. Counted'
  <2>1. /\ IsFiniteSet(live) /\ list.count = Cardinality(live)
        /\ indexed = Cardinality(Named)
        /\ raised \/ (size <= slots /\ indexed <= slots)
    BY DEF Inv, Counted
  <2>2. UNCHANGED <<indexed, slots, size, raised, live>>
    BY DEF map
  <2>3. Cardinality(Named') = Cardinality(Named)
    BY <1>5
  <2>4. QED  BY <1>4, <2>1, <2>2, <2>3 DEF Counted
<1>7. QED  BY <1>2, <1>3, <1>4, <1>6

-----------------------------------------------------------------------------
(* Every action keeps the invariant. *)

LEMMA KeepsGet ==
  ASSUME Inv, NEW k \in Key, Get(k) PROVE Inv'
<1> DEFINE e == Head(index[k])
<1>1. /\ index[k] # << >> /\ Reset(e) /\ call = NoCall /\ ub = {}
      /\ UNCHANGED <<key, map, size, raised, reqreset, live, call, leftover>>
  BY DEF Get, Idle
<1>2. e \in live
  BY <1>1, AnswerIs DEF Inv
<1>3. /\ list' \in List /\ order' \in Seq(Entry)
      /\ ub' \subseteq {"freed", "slot", "table"}
      /\ Counted' /\ IndexStaysInTable'
      /\ ~reqreset => UNCHANGED <<list, order>> /\ ub' = {}
  BY <1>1, <1>2, ResetKeeps
<1>4. TypeOK' /\ AnswersAreLive' /\ KeysKnown' /\ PutFits'
  BY <1>1, <1>3 DEF Inv, TypeOK, AnswersAreLive, KeysKnown, PutFits, map
<1>5. ~reqreset => Sound'
  BY <1>1, <1>3 DEF Inv, Sound, Indexed, map
<1>6. QED  BY <1>1, <1>3, <1>4, <1>5 DEF Inv

LEMMA KeepsRemove ==
  ASSUME Inv, NEW k \in Key, Remove(k) PROVE Inv'
<1> DEFINE e == Head(index[k])
<1>1. /\ index[k] # << >> /\ Destroy(e) /\ call = NoCall /\ ub = {}
      /\ UNCHANGED <<size, raised, reqreset, call, leftover>>
  BY DEF Remove, Idle
<1>2. e \in live /\ e \in Entry
  BY <1>1, AnswerIs DEF Inv, TypeOK
<1>3. TypeOK' /\ AnswersAreLive' /\ KeysKnown' /\ PutFits'
  BY <1>1, <1>2, DestroyKeepsIndex DEF Inv, TypeOK, PutFits
<1>4. Counted' /\ IndexStaysInTable'
  BY <1>1, <1>2, DestroyKeepsCounts
<1>5. ~reqreset => Sound'
  BY <1>1, <1>2, DestroyKeepsList DEF Inv, Sound, NoCall
<1>6. QED  BY <1>1, <1>3, <1>4, <1>5 DEF Inv

LEMMA KeepsLookOutside ==
  ASSUME Inv, NEW k \in Key, LookOutside(k) PROVE Inv'
<1>1. /\ Outside(k) /\ ub' = {"slot"} /\ ub = {}
      /\ UNCHANGED <<list, key, index, indexed, slots, size, raised, reqreset,
                     live, call, order, leftover>>
  BY DEF LookOutside, map
<1>2. Outside(k)'
  BY <1>1 DEF Outside
<1>3. Counted' /\ IndexStaysInTable'
  BY <1>1, <1>2 DEF Counted, IndexStaysInTable
<1>4. QED
  BY <1>1, <1>3 DEF Inv, TypeOK, AnswersAreLive, KeysKnown, PutFits, Sound, Indexed

LEMMA KeepsSetLimits ==
  ASSUME Inv, NEW n \in Limits[reqreset], SetLimits(n) PROVE Inv'
<1>1. /\ n \in Nat /\ call = NoCall /\ ub = {} /\ size' = n
      /\ raised' = (raised \/ n > slots)
      /\ UNCHANGED <<list, key, index, indexed, slots, reqreset, live, call, order,
                     leftover, ub>>
  BY VisCacheAssumption DEF SetLimits, Idle, map, Inv, TypeOK
<1>2. Counted'
  <2>1. Named' = Named
    BY <1>1 DEF Named
  <2>2. indexed \in Nat /\ slots \in Nat
    BY DEF Inv, TypeOK
  <2>3. /\ IsFiniteSet(live) /\ list.count = Cardinality(live)
        /\ indexed = Cardinality(Named)
        /\ raised \/ (size <= slots /\ indexed <= slots)
    BY <1>1 DEF Inv, Counted
  <2>4. raised' \/ (size' <= slots' /\ indexed' <= slots')
    <3>1. CASE n > slots
      BY <1>1, <3>1
    <3>2. CASE ~(n > slots)
      <4>1. size' <= slots' /\ slots' = slots /\ indexed' = indexed
        BY <1>1, <2>2, <3>2
      <4>2. raised => raised'
        BY <1>1, Zenon
      <4>3. QED  BY <2>3, <4>1, <4>2
    <3>3. QED  BY <3>1, <3>2
  <2>5. Cardinality(Named') = Cardinality(Named)
    BY <2>1
  <2>6. QED  BY <1>1, <2>3, <2>4, <2>5 DEF Counted
<1>3. IndexStaysInTable'
  BY <1>1 DEF IndexStaysInTable
<1>4. PutFits' /\ TypeOK' /\ AnswersAreLive' /\ KeysKnown'
  BY <1>1 DEF Inv, NoCall, TypeOK, AnswersAreLive, KeysKnown, PutFits
<1>5. ~reqreset => Sound'
  BY <1>1 DEF Inv, Sound, Indexed
<1>6. QED  BY <1>1, <1>2, <1>3, <1>4, <1>5 DEF Inv

(* A step that moves nothing but the call. *)
LEMMA KeepsWaiting ==
  ASSUME Inv, ub = {}, call' \in Call,
         UNCHANGED <<list, key, map, size, raised, reqreset, live, order, leftover, ub>>
  PROVE  /\ TypeOK' /\ AnswersAreLive' /\ KeysKnown'
         /\ Counted' /\ IndexStaysInTable'
<1>1. Named' = Named
  BY DEF Named, map
<1>2. Counted' /\ IndexStaysInTable'
  BY <1>1 DEF Inv, Counted, IndexStaysInTable, map
<1>3. QED  BY <1>2 DEF Inv, TypeOK, AnswersAreLive, KeysKnown, map

LEMMA KeepsStartPut ==
  ASSUME Inv, NEW k \in Key, StartPut(k) PROVE Inv'
<1>1. call' = Put(k) /\ call' \in Call /\ size >= 1 /\ call = NoCall /\ ub = {}
      /\ UNCHANGED <<list, key, map, size, raised, reqreset, live, order, leftover, ub>>
  BY DEF StartPut, Idle, Call
<1>2. call'.op = "put" /\ call.op = "none"
  BY <1>1 DEF Put, NoCall
<1>3. PutFits' /\ (~reqreset => Sound')
  BY <1>1, <1>2 DEF Inv, PutFits, Sound, Indexed, map
<1>4. QED  BY <1>1, <1>3, KeepsWaiting DEF Inv

LEMMA KeepsStartClear ==
  ASSUME Inv, StartClear PROVE Inv'
<1>1. call' = Clear(Null) /\ call' \in Call /\ ub = {}
      /\ UNCHANGED <<list, key, map, size, raised, reqreset, live, order, leftover, ub>>
  BY DEF StartClear, Idle, Call, Pointer
<1>2. call'.op = "clear" /\ call'.le = Null
  BY <1>1 DEF Clear
<1>3. PutFits' /\ (~reqreset => Sound')
  BY <1>1, <1>2 DEF Inv, PutFits, Sound, Indexed, map
<1>4. QED  BY <1>1, <1>3, KeepsWaiting DEF Inv

LEMMA KeepsEvict ==
  ASSUME Inv, Evict PROVE Inv'
<1>1. /\ call.op = "put" /\ list.tail # Null /\ Destroy(list.tail) /\ ub = {}
      /\ UNCHANGED <<size, raised, reqreset, call, leftover>>
  BY DEF Evict, Storing
<1>2. list.tail \in Entry
  BY <1>1 DEF Inv, TypeOK, List, Pointer
<1>3. TypeOK' /\ AnswersAreLive' /\ KeysKnown' /\ PutFits'
  BY <1>1, <1>2, DestroyKeepsIndex DEF Inv, TypeOK, PutFits
<1>4. Counted' /\ IndexStaysInTable'
  BY <1>1, <1>2, DestroyKeepsCounts
<1>5. ASSUME ~reqreset PROVE Sound'
  <2>1. list.tail \in live
    BY <1>1, <1>5 DEF Inv, Sound, Links, Range, TypeOK
  <2>2. QED  BY <1>1, <1>5, <2>1, DestroyKeepsList DEF Inv, Sound
<1>6. QED  BY <1>1, <1>3, <1>4, <1>5 DEF Inv

LEMMA KeepsGiveUp ==
  ASSUME Inv, GiveUp PROVE Inv'
<1>1. call' = NoCall /\ call' \in Call /\ call'.op = "none" /\ call.op = "put"
      /\ ub = {}
      /\ UNCHANGED <<list, key, map, size, raised, reqreset, live, order, leftover, ub>>
  BY DEF GiveUp, Storing, Call, NoCall
<1>2. PutFits' /\ (~reqreset => Sound')
  BY <1>1 DEF Inv, PutFits, Sound, Indexed, map
<1>3. QED  BY <1>1, <1>2, KeepsWaiting DEF Inv

LEMMA KeepsStoreAgain ==
  ASSUME Inv, StoreAgain PROVE Inv'
<1> DEFINE e == Head(index[call.key])
<1>1. /\ call.op = "put" /\ index[call.key] # << >> /\ Reset(e) /\ ub = {}
      /\ call' = NoCall
      /\ UNCHANGED <<key, map, size, raised, reqreset, live, leftover>>
  BY DEF StoreAgain, Storing
<1>2. call' \in Call /\ call'.op = "none"
  BY <1>1 DEF Call, NoCall
<1>3. e \in live
  BY <1>1, AnswerIs, CallIs DEF Inv
<1>4. /\ list' \in List /\ order' \in Seq(Entry)
      /\ ub' \subseteq {"freed", "slot", "table"}
      /\ Counted' /\ IndexStaysInTable'
      /\ ~reqreset => UNCHANGED <<list, order>> /\ ub' = {}
  BY <1>1, <1>3, ResetKeeps
<1>5. TypeOK' /\ AnswersAreLive' /\ KeysKnown' /\ PutFits'
  BY <1>1, <1>2, <1>4 DEF Inv, TypeOK, AnswersAreLive, KeysKnown, PutFits, map
<1>6. ~reqreset => Sound'
  BY <1>1, <1>2, <1>4 DEF Inv, Sound, Indexed, map
<1>7. QED  BY <1>1, <1>4, <1>5, <1>6 DEF Inv

LEMMA KeepsStoreNew ==
  ASSUME Inv, StoreNew PROVE Inv'
<1>1. /\ call.op = "put" /\ index[call.key] = << >> /\ call' = NoCall
      /\ ub = {} /\ ub' = Freed(AddTouches(list)) /\ indexed' = indexed + 1
      /\ ~(list.count > size - 1)
      /\ UNCHANGED <<slots, size, raised, reqreset, leftover>>
  BY DEF StoreNew, Storing, TooMany
<1>2. PICK e \in Entry \ live :
        /\ list' = Add(list, e)
        /\ order' = Append(order, e)
        /\ key' = [key EXCEPT ![e] = call.key]
        /\ index' = [index EXCEPT ![call.key] = Append(@, e)]
        /\ live' = live \cup {e}
  <2>1. Blocks[reqreset] \subseteq Entry
    BY VisCacheAssumption DEF Inv, TypeOK
  <2>2. QED  BY <2>1 DEF StoreNew
<1>3. call' \in Call /\ call'.op = "none" /\ call.key \in Key
  BY <1>1, CallIs DEF Inv, Call, NoCall
<1>4. \A k \in Key : index'[k] = IF k = call.key THEN <<e>> ELSE index[k]
  BY <1>1, <1>2, <1>3 DEF Inv, TypeOK
<1>5. \A x \in Entry : key'[x] = IF x = e THEN call.key ELSE key[x]
  BY <1>2 DEF Inv, TypeOK
<1>6. list' \in List
  <2>1. list \in List /\ e \in Entry
    BY DEF Inv, TypeOK
  <2>2. QED  BY <1>2, <2>1, AddType
<1>7. TypeOK'
  <2>1. order' \in Seq(Entry) /\ live' \subseteq Entry /\ indexed' \in Nat
        /\ ub' \subseteq {"freed", "slot", "table"}
    BY <1>1, <1>2 DEF Inv, TypeOK, Freed
  <2>2. key' \in [Entry -> Key \cup {Null}]
    BY <1>2, <1>3 DEF Inv, TypeOK
  <2>3. index' \in [Key -> Seq(Entry)]
    BY <1>1, <1>2, <1>3 DEF Inv, TypeOK
  <2>4. QED  BY <1>1, <1>3, <1>6, <2>1, <2>2, <2>3 DEF Inv, TypeOK
<1>8. KeysKnown'
  BY <1>2, <1>3, <1>5 DEF Inv, TypeOK, KeysKnown
<1>9. AnswersAreLive'
  <2> SUFFICES ASSUME NEW k \in Key
               PROVE  /\ Len(index'[k]) <= 1
                      /\ \A i \in DOMAIN index'[k] :
                           index'[k][i] \in live' /\ key'[index'[k][i]] = k
    BY DEF AnswersAreLive
  <2>1. CASE k = call.key
    <3>1. index'[k] = <<e>> /\ key'[e] = k /\ e \in live'
      BY <1>2, <1>4, <1>5, <2>1 DEF Inv, TypeOK
    <3>2. \A i \in DOMAIN <<e>> : <<e>>[i] = e
      OBVIOUS
    <3>3. QED  BY <3>1, <3>2
  <2>2. CASE k # call.key
    <3>1. index'[k] = index[k] /\ Len(index[k]) <= 1
          /\ \A i \in DOMAIN index[k] : index[k][i] \in live /\ key[index[k][i]] = k
      BY <1>4, <2>2 DEF Inv, AnswersAreLive
    <3>2. QED  BY <1>2, <1>5, <3>1 DEF Inv, TypeOK
  <2>3. QED  BY <2>1, <2>2
<1>10. ASSUME ~reqreset PROVE Sound'
  <2>1. /\ list \in List /\ order \in Seq(Entry) /\ Links(list, order)
        /\ live = Range(order) /\ e \notin Range(order)
        /\ leftover \/ Indexed
    BY <1>1, <1>10 DEF Inv, TypeOK, Sound
  <2>2. Links(list', order')
    BY <1>2, <2>1, AddLinks
  <2>3. live' = Range(order')
    <3>1. /\ Len(order') = Len(order) + 1 /\ order'[Len(order) + 1] = e
          /\ \A i \in 1 .. Len(order) : order'[i] = order[i]
          /\ Len(order) \in Nat /\ order' \in Seq(Entry)
      BY <1>2, <2>1
    <3>2. \A i \in DOMAIN order' : order'[i] \in Range(order) \cup {e}
      BY <2>1, <3>1 DEF Range
    <3>3. \A i \in DOMAIN order : i \in DOMAIN order' /\ order[i] = order'[i]
      BY <2>1, <3>1
    <3>4. QED  BY <1>2, <2>1, <3>1, <3>2, <3>3 DEF Range
  <2>4. "freed" \notin ub'
    <3>1. AddTouches(list) \subseteq live
      BY <2>1 DEF AddTouches, Links, Range
    <3>2. QED  BY <1>1, <3>1 DEF Freed
  <2>5. ASSUME Indexed PROVE Indexed'
    <3>1. ASSUME NEW i \in DOMAIN order'
          PROVE  index'[key'[order'[i]]] = <<order'[i]>>
      <4>1. CASE i = Len(order) + 1
        <5>1. order'[i] = e
          BY <1>2, <2>1, <4>1
        <5>2. key'[e] = call.key /\ index'[call.key] = <<e>>
          BY <1>3, <1>4, <1>5
        <5>3. QED  BY <5>1, <5>2
      <4>2. CASE i # Len(order) + 1
        <5>1. i \in DOMAIN order /\ order'[i] = order[i]
          BY <1>2, <2>1, <4>2
        <5>2. order[i] \in live /\ order[i] # e /\ order[i] \in Entry
          BY <2>1, <5>1 DEF Range
        <5>3. key[order[i]] \in Key /\ key'[order[i]] = key[order[i]]
          BY <1>5, <5>2 DEF Inv, KeysKnown
        <5>4. index[key[order[i]]] = <<order[i]>> /\ <<order[i]>> # << >>
          BY <2>5, <5>1 DEF Indexed
        <5>5. key[order[i]] # call.key
          BY <1>1, <5>4
        <5>6. QED  BY <1>4, <5>1, <5>3, <5>4, <5>5
      <4>3. QED  BY <4>1, <4>2
    <3>2. QED  BY <3>1 DEF Indexed
  <2>6. QED  BY <1>1, <1>3, <2>1, <2>2, <2>3, <2>4, <2>5 DEF Sound
<1>11. PutFits'
  BY <1>3 DEF PutFits
<1>12. Counted'
  <2>1. /\ IsFiniteSet(live) /\ list.count = Cardinality(live)
        /\ indexed = Cardinality(Named) /\ (raised \/ size <= slots)
    BY <1>1 DEF Inv, Counted
  <2>2. IsFiniteSet(live') /\ Cardinality(live') = Cardinality(live) + 1
    BY <1>2, <2>1, FS_AddElement
  <2>3. list'.count = list.count + 1
    BY <1>2 DEF Add
  <2>4. Named' = Named \cup {e}
    <3>1. e \in Named'
      BY <1>2, <1>3, <1>4, <1>5 DEF Named
    <3>2. ASSUME NEW y \in live PROVE y \in Named' <=> y \in Named
      <4>1. y # e /\ y \in live' /\ key'[y] = key[y] /\ key[y] \in Key
        BY <1>2, <1>5 DEF Inv, TypeOK, KeysKnown
      <4>2. CASE key[y] = call.key
        <5>1. << >> # <<y>> /\ <<e>> # <<y>>
          BY <4>1
        <5>2. QED  BY <1>1, <1>4, <4>1, <4>2, <5>1 DEF Named
      <4>3. CASE key[y] # call.key
        BY <1>4, <4>1, <4>3 DEF Named
      <4>4. QED  BY <4>2, <4>3
    <3>3. Named \subseteq live /\ Named' \subseteq live \cup {e}
      BY <1>2 DEF Named
    <3>4. QED  BY <3>1, <3>2, <3>3
  <2>5. indexed' = Cardinality(Named')
    <3>1. IsFiniteSet(Named) /\ e \notin Named
      <4>1. Named \subseteq live
        BY DEF Named
      <4>2. QED  BY <1>2, <2>1, <4>1, FS_Subset
    <3>2. QED  BY <1>1, <2>1, <2>4, <3>1, FS_AddElement
  <2>6. raised' \/ (size' <= slots' /\ indexed' <= slots')
    <3>1. Cardinality(Named') <= Cardinality(live')
      <4>1. Named' \subseteq live'
        BY DEF Named
      <4>2. QED  BY <2>2, <4>1, FS_Subset
    <3>2. Cardinality(live) \in Nat /\ size \in Nat /\ slots \in Nat /\ indexed \in Nat
      BY <2>1, FS_CardinalityType DEF Inv, TypeOK
    <3>3. QED  BY <1>1, <2>1, <2>2, <2>5, <3>1, <3>2
  <2>7. QED  BY <2>1, <2>2, <2>3, <2>5, <2>6 DEF Counted
<1>13. IndexStaysInTable'
  BY <1>1 DEF IndexStaysInTable, Freed
<1>14. QED  BY <1>1, <1>7, <1>8, <1>9, <1>10, <1>11, <1>12, <1>13 DEF Inv

LEMMA KeepsStoreNowhere ==
  ASSUME Inv, StoreNowhere PROVE Inv'
<1>1. /\ call.op = "put" /\ slots = 0 /\ ub' = {"slot"} /\ ub = {}
      /\ UNCHANGED <<list, key, index, indexed, slots, size, raised, reqreset,
                     live, call, order, leftover>>
  BY DEF StoreNowhere, Storing, map
<1>2. raised
  <2>1. size \in Nat /\ size >= 1 /\ (raised \/ size <= slots)
    BY <1>1 DEF Inv, TypeOK, PutFits, Counted
  <2>2. QED  BY <1>1, <2>1
<1>3. Counted' /\ IndexStaysInTable'
  BY <1>1, <1>2 DEF Counted, IndexStaysInTable
<1>4. QED
  BY <1>1, <1>3 DEF Inv, TypeOK, AnswersAreLive, KeysKnown, PutFits, Sound, Indexed

LEMMA KeepsClearEntry ==
  ASSUME Inv, ClearEntry PROVE Inv'
<1> DEFINE e == NextEntry(list, call.le)
<1>1. /\ call.op = "clear" /\ e # Null /\ Destroy(e) /\ ub = {}
      /\ call' = Clear(list.next[e])
      /\ UNCHANGED <<size, raised, reqreset, leftover>>
  BY DEF ClearEntry, Clearing
<1>2. e \in Entry
  BY <1>1, CallIs DEF Inv, TypeOK, NextEntry, List, Pointer
<1>3. call' \in Call /\ call'.op = "clear" /\ call'.le = list.next[e]
  <2>1. list.next[e] \in Pointer
    BY <1>2 DEF Inv, TypeOK, List
  <2>2. QED  BY <1>1, <2>1 DEF Call, Clear
<1>4. TypeOK' /\ AnswersAreLive' /\ KeysKnown' /\ PutFits'
  BY <1>1, <1>2, <1>3, DestroyKeepsIndex DEF Inv, TypeOK, PutFits
<1>5. ASSUME ~reqreset PROVE Sound'
  <2>1. /\ list \in List /\ order \in Seq(Entry) /\ Links(list, order)
        /\ live = Range(order) /\ call.le \in live \cup {Null}
        /\ Distinct(order)
    BY <1>1, <1>5 DEF Inv, TypeOK, Sound, Links
  <2>2. \A x \in live : list.next[x] \in (live \ {x}) \cup {Null}
    <3> SUFFICES ASSUME NEW x \in live
                 PROVE  list.next[x] \in (live \ {x}) \cup {Null}
      OBVIOUS
    <3>1. PICK i \in DOMAIN order : order[i] = x
      BY <2>1 DEF Range
    <3>2. list.next[x] = IF i = Len(order) THEN Null ELSE order[i + 1]
      BY <2>1, <3>1 DEF Links
    <3>3. i # Len(order) => i + 1 \in DOMAIN order /\ order[i + 1] # order[i]
      BY <2>1, <3>1 DEF Distinct
    <3>4. QED  BY <2>1, <3>1, <3>2, <3>3 DEF Range
  <2>3. list.head \in live \cup {Null}
    BY <2>1 DEF Links, Range
  <2>4. e \in live
    BY <1>1, <2>1, <2>2, <2>3 DEF NextEntry
  <2>5. /\ "freed" \notin ub' /\ Links(list', order') /\ live' = Range(order')
        /\ live' = live \ {e}
    BY <1>1, <1>5, <2>4, DestroyKeepsList DEF Destroy
  <2>6. call'.le \in live' \cup {Null}
    BY <1>3, <2>2, <2>4, <2>5
  <2>7. QED  BY <1>3, <2>5, <2>6 DEF Sound
<1>6. Counted' /\ IndexStaysInTable'
  BY <1>1, <1>2, DestroyKeepsCounts
<1>7. QED  BY <1>1, <1>4, <1>5, <1>6 DEF Inv

LEMMA KeepsEndClear ==
  ASSUME Inv, EndClear PROVE Inv'
<1>1. /\ index' = [k \in Key |-> << >>] /\ indexed' = 0 /\ call' = NoCall
      /\ leftover' = (leftover \/ order # << >>)
      /\ slots' = size /\ raised' = FALSE /\ ub = {}
      /\ UNCHANGED <<list, key, size, reqreset, live, order, ub>>
  BY DEF EndClear, Clearing
<1>2. call' \in Call /\ call'.op = "none"
  BY <1>1 DEF Call, NoCall
<1>3. /\ index' \in [Key -> Seq(Entry)] /\ \A k \in Key : index'[k] = << >>
      /\ 0 \in Nat /\ FALSE \in BOOLEAN
  BY <1>1
<1>4. TypeOK' /\ AnswersAreLive' /\ KeysKnown' /\ PutFits'
  <2>1. TypeOK'
    BY <1>1, <1>2, <1>3 DEF Inv, TypeOK
  <2>2. AnswersAreLive'
    BY <1>3 DEF AnswersAreLive
  <2>3. KeysKnown' /\ PutFits'
    BY <1>1, <1>2 DEF Inv, KeysKnown, PutFits
  <2>4. QED  BY <2>1, <2>2, <2>3
<1>5. ASSUME ~reqreset PROVE Sound'
  <2>1. leftover' \/ order' = << >>
    BY <1>1
  <2>2. order' = << >> => Indexed'
    BY DEF Indexed
  <2>3. QED  BY <1>1, <1>2, <1>5, <2>1, <2>2 DEF Inv, Sound
<1>6. Counted'
  <2>1. Named' = {}
    <3>1. \A e \in live : key[e] \in Key /\ index'[key[e]] = << >> /\ << >> # <<e>>
      BY <1>3 DEF Inv, KeysKnown
    <3>2. QED  BY <1>1, <3>1 DEF Named
  <2>2. size \in Nat
    BY DEF Inv, TypeOK
  <2>3. QED  BY <1>1, <2>1, <2>2, FS_EmptySet DEF Inv, Counted
<1>7. IndexStaysInTable'
  BY <1>1 DEF IndexStaysInTable
<1>8. QED  BY <1>1, <1>4, <1>5, <1>6, <1>7 DEF Inv

LEMMA KeepsDestroyPastTable ==
  ASSUME Inv, DestroyPastTable PROVE Inv'
<1>1. /\ indexed > slots /\ ub' = {"table"} /\ ub = {}
      /\ UNCHANGED <<list, key, index, indexed, slots, size, raised, reqreset,
                     live, call, order, leftover>>
  BY DEF DestroyPastTable, Clearing, map
<1>2. raised
  <2>1. indexed \in Nat /\ slots \in Nat /\ (raised \/ indexed <= slots)
    BY <1>1 DEF Inv, TypeOK, Counted
  <2>2. QED  BY <1>1, <2>1
<1>3. Counted' /\ IndexStaysInTable'
  BY <1>1, <1>2 DEF Counted, IndexStaysInTable
<1>4. QED
  BY <1>1, <1>3 DEF Inv, TypeOK, AnswersAreLive, KeysKnown, PutFits, Sound, Indexed

LEMMA InvNext == ASSUME Inv, [Next]_vars PROVE Inv'
<1>1. ASSUME NEW k \in Key, Get(k) \/ Remove(k) \/ LookOutside(k) \/ StartPut(k)
      PROVE  Inv'
  BY <1>1, KeepsGet, KeepsRemove, KeepsLookOutside, KeepsStartPut
<1>2. ASSUME NEW n \in Limits[reqreset], SetLimits(n) PROVE Inv'
  BY <1>2, KeepsSetLimits
<1>3. CASE StartClear
  BY <1>3, KeepsStartClear
<1>4. CASE Step
  BY <1>4, KeepsEvict, KeepsGiveUp, KeepsStoreAgain, KeepsStoreNew, KeepsStoreNowhere,
     KeepsClearEntry, KeepsEndClear, KeepsDestroyPastTable, KeepsLookOutside DEF Step
<1>5. CASE UNCHANGED vars
  <2>1. Named' = Named
    BY <1>5 DEF vars, map, Named
  <2>2. Counted' /\ IndexStaysInTable'
    BY <1>5, <2>1 DEF vars, map, Inv, Counted, IndexStaysInTable, Outside
  <2>3. QED
    BY <1>5, <2>2 DEF vars, map, Inv, TypeOK, AnswersAreLive, KeysKnown, PutFits,
       Sound, Indexed
<1>6. QED  BY <1>1, <1>2, <1>3, <1>4, <1>5 DEF Next, Crashed

(* The list, the index and the calls are as the invariant says, always. *)
THEOREM Invariance == Spec => []Inv
<1>1. Init => Inv
  BY InvInit
<1>2. Inv /\ [Next]_vars => Inv'
  BY InvNext
<1>3. QED  BY <1>1, <1>2, PTL DEF Spec

-----------------------------------------------------------------------------
(* The fields of the cache hold what C may put there, also when the list   *)
(* is torn.                                                                *)
THEOREM Typed == Spec => []TypeOK
<1>1. Inv => TypeOK
  BY DEF Inv
<1>2. QED  BY <1>1, Invariance, PTL

(* Whatever the state of the list, the index leads to entries that are     *)
(* live and were put under the key that was asked for.                     *)
THEOREM Answered == Spec => []AnswersAreLive
<1>1. Inv => AnswersAreLive
  BY DEF Inv
<1>2. QED  BY <1>1, Invariance, PTL

(* In a cache that resets nothing on requests no call touches an entry     *)
(* that is freed, the list holds the entries in the order of their puts,   *)
(* and the index knows them until a clear leaves some behind.              *)
THEOREM ListHolds == Spec => []ListIsSound
<1>1. Inv => ListIsSound
  BY DEF Inv, Sound, ListIsSound, Range, Indexed
<1>2. QED  BY <1>1, Invariance, PTL

(* For every hash: the index of a cache, torn or not, stays in its table   *)
(* until the limit is raised, but for keys with a negative hash.  The      *)
(* count of the list is the number of entries allocated, the size of the   *)
(* index the number of those it knows; visual_cache_put keeps the first    *)
(* below the limit, so that the second cannot exceed the slots.            *)
THEOREM IndexBounded == Spec => []IndexStaysInTable
<1>1. Inv => IndexStaysInTable
  BY DEF Inv
<1>2. QED  BY <1>1, Invariance, PTL

(* In such a cache a put that returns has stored its key.                  *)
THEOREM Stored == Spec => PutIsFound
<1>1. ASSUME Inv, [Next]_vars, call.op = "put", call' = NoCall, ~reqreset
      PROVE  index'[call.key] # << >> /\ list'.count <= size
  <2>1. call.key \in Key /\ size >= 1 /\ call # NoCall
        /\ list \in List /\ size \in Nat /\ index \in [Key -> Seq(Entry)]
    BY <1>1, CallIs DEF Inv, PutFits, TypeOK, NoCall
  <2>2. CASE GiveUp
    <3>1. list.tail = Null /\ list.count > size - 1
      BY <2>2 DEF GiveUp, TooMany
    <3>2. list.count = 0
      BY <1>1, <3>1, VisListAssumption DEF Inv, TypeOK, Sound, Links
    <3>3. QED  BY <2>1, <3>1, <3>2
  <2>3. CASE StoreAgain
    <3>1. /\ index' = index /\ index[call.key] # << >> /\ ~(list.count > size - 1)
          /\ list.count \in Int
      BY <2>1, <2>3 DEF StoreAgain, TooMany, List, map
    <3>2. list' = list
      BY <1>1, <2>3 DEF StoreAgain, Reset
    <3>3. QED  BY <2>1, <3>1, <3>2
  <2>4. CASE StoreNew
    <3>1. PICK e \in Entry :
            /\ list' = Add(list, e) /\ ~(list.count > size - 1)
            /\ index' = [index EXCEPT ![call.key] = Append(@, e)]
      <4>1. Blocks[reqreset] \subseteq Entry
        BY <1>1, VisCacheAssumption DEF Inv, TypeOK
      <4>2. QED  BY <2>4, <4>1 DEF StoreNew, TooMany
    <3>2. list'.count = list.count + 1 /\ list.count \in Int
      BY <2>1, <3>1 DEF Add, List
    <3>3. index'[call.key] = Append(index[call.key], e)
      BY <2>1, <3>1
    <3>4. Append(index[call.key], e) # << >>
      BY <2>1
    <3>5. QED  BY <2>1, <3>1, <3>2, <3>3, <3>4
  <2>5. CASE Evict \/ StoreNowhere \/ ClearEntry \/ EndClear \/ DestroyPastTable
    BY <1>1, <2>1, <2>5 DEF Evict, StoreNowhere, ClearEntry, EndClear, DestroyPastTable,
       Clearing, Clear, NoCall
  <2>6. CASE StartClear \/ UNCHANGED vars \/ (\E n \in Limits[reqreset] : SetLimits(n))
             \/ \E k \in Key : Get(k) \/ Remove(k) \/ LookOutside(k) \/ StartPut(k)
    BY <1>1, <2>1, <2>6 DEF StartClear, SetLimits, Get, Remove, LookOutside, StartPut,
       Idle, vars
  <2>7. QED  BY <1>1, <2>2, <2>3, <2>4, <2>5, <2>6 DEF Next, Step, Crashed
<1>2. Inv /\ [Next]_vars =>
        [ call.op = "put" /\ call' = NoCall /\ ~reqreset =>
            index'[call.key] # << >> /\ list'.count <= size ]_vars
  BY <1>1
<1>3. QED  BY <1>2, Invariance, PTL DEF Spec, PutIsFound

-----------------------------------------------------------------------------
(* What bounds the loops of put and clear, and what they take first *)

(* Every round of the loops of visual_cache_put and visual_cache_clear     *)
(* frees an entry that was allocated, or has touched memory that is not    *)
(* there: in a torn list too, neither loop has more rounds than there are  *)
(* entries.  This is the decreasing measure behind CallsReturn.            *)
RoundsFree ==
  [][ Evict \/ ClearEntry =>
        (live' \subseteq live /\ live' # live) \/ ub' # {} ]_vars

(* For all entries, keys and limits, in sound lists and torn ones: the     *)
(* loops of visual_cache_put and visual_cache_clear run out of entries.    *)
THEOREM LoopsEnd == Spec => RoundsFree
<1>1. ASSUME NEW e \in Pointer, e # Null, Destroy(e)
      PROVE  (live' \subseteq live /\ live' # live) \/ ub' # {}
  <2>1. CASE e \in live
    BY <1>1, <2>1 DEF Destroy
  <2>2. CASE e \notin live
    <3>1. e \in UnchainTouches(list, e)
      BY <1>1 DEF UnchainTouches
    <3>2. QED  BY <1>1, <2>2, <3>1 DEF Destroy, Freed
  <2>3. QED  BY <2>1, <2>2
<1>2. ASSUME Inv, Evict
      PROVE  (live' \subseteq live /\ live' # live) \/ ub' # {}
  <2>1. list.tail \in Pointer
    BY <1>2 DEF Inv, TypeOK, List
  <2>2. QED  BY <1>1, <1>2, <2>1 DEF Evict
<1>3. ASSUME Inv, ClearEntry
      PROVE  (live' \subseteq live /\ live' # live) \/ ub' # {}
  <2>1. call.op = "clear" /\ call.le \in Pointer
    BY <1>3, CallIs DEF Inv, ClearEntry, Clearing
  <2>2. NextEntry(list, call.le) \in Pointer
    BY <1>3, <2>1 DEF Inv, TypeOK, List, NextEntry, Pointer
  <2>3. QED  BY <1>1, <1>3, <2>2 DEF ClearEntry
<1>4. Inv => [ Evict \/ ClearEntry =>
                 (live' \subseteq live /\ live' # live) \/ ub' # {} ]_vars
  BY <1>2, <1>3
<1>5. QED  BY <1>4, Invariance, PTL DEF RoundsFree

(* For every limit: visual_cache_put in a full cache takes the newest entry. *)
THEOREM EvictsTheNewest == Spec => NewestGoesFirst
<1>. DEFINE n == Len(order)
<1>1. ASSUME Inv, Evict, ~reqreset
      PROVE  /\ n > 0
             /\ live' = live \ {order[n]}
             /\ Len(order') = n - 1
             /\ \A i \in 1 .. n - 1 : order'[i] = order[i]
  <2>1. /\ order \in Seq(Entry) /\ Distinct(order) /\ Links(list, order)
        /\ list.tail # Null /\ Destroy(list.tail)
    BY <1>1 DEF Inv, TypeOK, Sound, Links, Evict
  <2>2. order # << >> /\ list.tail = order[n]
    BY <2>1 DEF Links
  <2>3. n \in DOMAIN order /\ n > 0 /\ n \in Nat
    BY <2>1, <2>2
  <2>4. order' = Without(order, order[n]) /\ live' = live \ {order[n]}
    BY <2>1, <2>2 DEF Destroy
  <2>. HIDE DEF n
  <2>5. /\ Len(order') = Len(order) - 1
        /\ \A i \in 1 .. Len(order) - 1 :
             order'[i] = IF i < n THEN order[i] ELSE order[i + 1]
    BY <2>1, <2>3, <2>4, WithoutIs
  <2>6. QED  BY <2>3, <2>4, <2>5 DEF n
<1>2. Inv => [ Evict /\ ~reqreset =>
                 /\ n > 0
                 /\ live' = live \ {order[n]}
                 /\ Len(order') = n - 1
                 /\ \A i \in 1 .. n - 1 : order'[i] = order[i] ]_vars
  BY <1>1
<1>3. QED  BY <1>2, Invariance, PTL DEF NewestGoesFirst

=============================================================================
