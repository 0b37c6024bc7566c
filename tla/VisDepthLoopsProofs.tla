------------------------- MODULE VisDepthLoopsProofs -------------------------
(***************************************************************************)
(* The loops of lv_video.c compute what they should for every depthflag    *)
(* and every depth argument.  A loop is a recursive function over the six  *)
(* depths, so that what it computes follows from its equation, applied     *)
(* once for each depth: the first part shows that each function satisfies  *)
(* its equation (by a solution of it), the second what it computes.        *)
(***************************************************************************)
EXTENDS VisDepthLoops, TLAPS

Depths == DepthBit \cup {DepthNone}

LEMMA DepthsAre == DepthBit = {1, 2, 4, 8, 16} /\ Depths = {0, 1, 2, 4, 8, 16}
BY DEF Depths, DepthBit, DepthNone, Depth8, Depth16, Depth24, Depth32, DepthGL

LEMMA BitsAreIntegers ==
  ASSUME NEW f \in DepthFlag, NEW b \in f PROVE b \in {1, 2, 4, 8, 16} /\ b \in Int
<1>1. b \in {1, 2, 4, 8, 16}
  BY DepthsAre DEF DepthFlag
<1>2. QED  BY <1>1

(* The while loop of depth_get_next, bit by bit. *)
LEMMA NextLoop ==
  ASSUME NEW f, NEW stay
  PROVE  /\ GetNextLoop(f, stay)[16] = stay
         /\ GetNextLoop(f, stay)[8] =
              IF 16 \in f THEN 16 ELSE GetNextLoop(f, stay)[16]
         /\ GetNextLoop(f, stay)[4] =
              IF 8 \in f THEN 8 ELSE GetNextLoop(f, stay)[8]
         /\ GetNextLoop(f, stay)[2] =
              IF 4 \in f THEN 4 ELSE GetNextLoop(f, stay)[4]
         /\ GetNextLoop(f, stay)[1] =
              IF 2 \in f THEN 2 ELSE GetNextLoop(f, stay)[2]
<1> DEFINE Body(g) == [i \in DepthBit |->
              IF i >= DepthGL THEN stay
              ELSE IF 2 * i \in f THEN 2 * i ELSE g[2 * i]]
           from8 == IF 16 \in f THEN 16 ELSE stay
           from4 == IF 8 \in f THEN 8 ELSE from8
           from2 == IF 4 \in f THEN 4 ELSE from4
           from1 == IF 2 \in f THEN 2 ELSE from2
           solution == [i \in DepthBit |->
              IF i = 1 THEN from1 ELSE IF i = 2 THEN from2
              ELSE IF i = 4 THEN from4 ELSE IF i = 8 THEN from8 ELSE stay]
           up == GetNextLoop(f, stay)
<1>1. solution = Body(solution)
  BY DEF DepthBit, Depth8, Depth16, Depth24, Depth32, DepthGL
<1>2. up = CHOOSE g : g = Body(g)
  BY DEF GetNextLoop
<1>3. up = Body(up)
  <2> HIDE DEF Body, solution, up
  <2> QED  BY <1>1, <1>2
<1>4. /\ up[16] = stay
      /\ up[8] = IF 16 \in f THEN 16 ELSE up[16]
      /\ up[4] = IF 8 \in f THEN 8 ELSE up[8]
      /\ up[2] = IF 4 \in f THEN 4 ELSE up[4]
      /\ up[1] = IF 2 \in f THEN 2 ELSE up[2]
  <2> HIDE DEF up
  <2> QED  BY <1>3 DEF DepthBit, Depth8, Depth16, Depth24, Depth32, DepthGL
<1>5. QED  BY <1>4

(* The while loop of depth_get_prev, bit by bit.  Its last turn looks for  *)
(* the bit 0, which no flag has.                                           *)
LEMMA PrevLoop ==
  ASSUME NEW f \in DepthFlag, NEW stay
  PROVE  /\ GetPrevLoop(f, stay)[0] = stay
         /\ GetPrevLoop(f, stay)[1] = stay
         /\ GetPrevLoop(f, stay)[2] =
              IF 1 \in f THEN 1 ELSE GetPrevLoop(f, stay)[1]
         /\ GetPrevLoop(f, stay)[4] =
              IF 2 \in f THEN 2 ELSE GetPrevLoop(f, stay)[2]
         /\ GetPrevLoop(f, stay)[8] =
              IF 4 \in f THEN 4 ELSE GetPrevLoop(f, stay)[4]
         /\ GetPrevLoop(f, stay)[16] =
              IF 8 \in f THEN 8 ELSE GetPrevLoop(f, stay)[8]
<1> DEFINE Body(g) == [i \in DepthBit \cup {DepthNone} |->
              IF i = DepthNone THEN stay
              ELSE IF (i \div 2) \in f THEN i \div 2 ELSE g[i \div 2]]
           from2 == IF 1 \in f THEN 1 ELSE stay
           from4 == IF 2 \in f THEN 2 ELSE from2
           from8 == IF 4 \in f THEN 4 ELSE from4
           from16 == IF 8 \in f THEN 8 ELSE from8
           solution == [i \in DepthBit \cup {DepthNone} |->
              IF i = 16 THEN from16 ELSE IF i = 8 THEN from8
              ELSE IF i = 4 THEN from4 ELSE IF i = 2 THEN from2 ELSE stay]
           down == GetPrevLoop(f, stay)
<1> USE DEF DepthBit, DepthNone, Depth8, Depth16, Depth24, Depth32, DepthGL
<1>1. 0 \notin f
  BY DEF DepthFlag
<1>2. solution = Body(solution)
  <2>1. /\ 1 \div 2 = 0 /\ 2 \div 2 = 1 /\ 4 \div 2 = 2 /\ 8 \div 2 = 4
        /\ 16 \div 2 = 8
    OBVIOUS
  <2>2. QED  BY <1>1, <2>1
<1>3. down = CHOOSE g : g = Body(g)
  BY DEF GetPrevLoop
<1>4. down = Body(down)
  <2> HIDE DEF Body, solution, down
  <2> QED  BY <1>2, <1>3
<1>5. /\ down[0] = stay
      /\ down[1] = stay
      /\ down[2] = IF 1 \in f THEN 1 ELSE down[1]
      /\ down[4] = IF 2 \in f THEN 2 ELSE down[2]
      /\ down[8] = IF 4 \in f THEN 4 ELSE down[4]
      /\ down[16] = IF 8 \in f THEN 8 ELSE down[8]
  <2> HIDE DEF down
  <2>1. /\ 1 \div 2 = 0 /\ 2 \div 2 = 1 /\ 4 \div 2 = 2 /\ 8 \div 2 = 4
        /\ 16 \div 2 = 8
    OBVIOUS
  <2> QED  BY <1>1, <1>4, <2>1
<1>6. QED  BY <1>5

-----------------------------------------------------------------------------
(* A sane depth has at most one bit below ENDLIST set. *)
LEMMA SaneDepths ==
  ASSUME NEW d \in Nat, IsSane(d) PROVE d \in Depths
<1>1. CASE d = 0
  BY <1>1, DepthsAre
<1>2. CASE d # 0
  <2>1. d < 32
    BY <1>2 DEF IsSane, EndList, DepthNone
  <2>2. \A b, c \in {1, 2, 4, 8, 16} : BitSet(d, b) /\ BitSet(d, c) => b = c
    BY <1>2, DepthsAre DEF IsSane, DepthNone
  <2>3. /\ ~(BitSet(d, 1) /\ BitSet(d, 2)) /\ ~(BitSet(d, 1) /\ BitSet(d, 4))
        /\ ~(BitSet(d, 1) /\ BitSet(d, 8)) /\ ~(BitSet(d, 1) /\ BitSet(d, 16))
        /\ ~(BitSet(d, 2) /\ BitSet(d, 4)) /\ ~(BitSet(d, 2) /\ BitSet(d, 8))
        /\ ~(BitSet(d, 2) /\ BitSet(d, 16)) /\ ~(BitSet(d, 4) /\ BitSet(d, 8))
        /\ ~(BitSet(d, 4) /\ BitSet(d, 16)) /\ ~(BitSet(d, 8) /\ BitSet(d, 16))
    BY <2>2
  <2>4. d \in {1, 2, 4, 8, 16}
    BY <1>2, <2>1, <2>3 DEF BitSet
  <2>5. QED  BY <2>4, DepthsAre
<1>3. QED  BY <1>1, <1>2

LEMMA DepthsAreSane == ASSUME NEW d \in Depths PROVE IsSane(d)
<1>1. CASE d = 0
  BY <1>1 DEF IsSane, DepthNone
<1>2. CASE d \in {1, 2, 4, 8, 16}
  <2>1. ASSUME NEW b \in {1, 2, 4, 8, 16}, BitSet(d, b) PROVE b = d
    BY <1>2, <2>1 DEF BitSet
  <2>2. QED  BY <1>2, <2>1, DepthsAre DEF IsSane, EndList
<1>3. QED  BY <1>1, <1>2, DepthsAre

(* What next and prev are for: d's neighbours in the flag, d if there is   *)
(* none.                                                                   *)
IsNext(n, f, d) ==
  IF \E b \in f : b > d THEN n \in f /\ n > d /\ \A b \in f : b > d => n <= b
  ELSE n = d

IsPrev(p, f, d) ==
  IF \E b \in f : b < d THEN p \in f /\ p < d /\ \A b \in f : b < d => b <= p
  ELSE p = d

LEMMA NextIsNearest ==
  ASSUME NEW f \in DepthFlag, NEW d \in Depths
  PROVE  IsNext(GetNext(f, d), f, d)
<1>1. f \subseteq {1, 2, 4, 8, 16}
  BY DepthsAre DEF DepthFlag
<1>2. GetNext(f, d) = IF d = 0 THEN IF 1 \in f THEN 1 ELSE GetNextLoop(f, d)[1]
                      ELSE GetNextLoop(f, d)[d]
  BY DepthsAreSane DEF GetNext, DepthNone, Depth8
<1> USE <1>1, <1>2, NextLoop DEF IsNext
<1>3. CASE d = 0
  BY <1>3
<1>4. CASE d = 1
  BY <1>4
<1>5. CASE d = 2
  BY <1>5
<1>6. CASE d = 4
  BY <1>6
<1>7. CASE d = 8
  BY <1>7
<1>8. CASE d = 16
  BY <1>8
<1>9. QED  BY <1>3, <1>4, <1>5, <1>6, <1>7, <1>8, DepthsAre

LEMMA PrevIsNearest ==
  ASSUME NEW f \in DepthFlag, NEW d \in Depths
  PROVE  IsPrev(GetPrev(f, d), f, d)
<1>1. f \subseteq {1, 2, 4, 8, 16}
  BY DepthsAre DEF DepthFlag
<1>2. GetPrev(f, d) = GetPrevLoop(f, d)[d]
  BY DepthsAreSane DEF GetPrev
<1> USE <1>1, <1>2, PrevLoop DEF IsPrev
<1>3. CASE d = 0
  BY <1>3
<1>4. CASE d = 1
  BY <1>4
<1>5. CASE d = 2
  BY <1>5
<1>6. CASE d = 4
  BY <1>6
<1>7. CASE d = 8
  BY <1>7
<1>8. CASE d = 16
  BY <1>8
<1>9. QED  BY <1>3, <1>4, <1>5, <1>6, <1>7, <1>8, DepthsAre

-----------------------------------------------------------------------------
(* The closed forms of VisDepth, without CHOOSE. *)
LEMMA ClosedForms ==
  ASSUME NEW f \in DepthFlag, f # {}
  PROVE  /\ DepthGetHighest(f) \in f /\ \A e \in f : e <= DepthGetHighest(f)
         /\ DepthGetLowest(f) \in f /\ \A e \in f : DepthGetLowest(f) <= e
<1>1. f \subseteq {1, 2, 4, 8, 16}
  BY DepthsAre DEF DepthFlag
<1>2. \E d \in f : \A e \in f : e <= d
  <2>1. CASE 16 \in f
    BY <1>1, <2>1
  <2>2. CASE 16 \notin f /\ 8 \in f
    BY <1>1, <2>2
  <2>3. CASE f \subseteq {1, 2, 4} /\ 4 \in f
    BY <2>3
  <2>4. CASE f \subseteq {1, 2} /\ 2 \in f
    BY <2>4
  <2>5. CASE f \subseteq {1}
    <3>1. f = {1}
      BY <2>5
    <3>2. QED  BY <3>1
  <2>6. QED  BY <1>1, <2>1, <2>2, <2>3, <2>4, <2>5
<1>3. \E d \in f : \A e \in f : d <= e
  <2>1. CASE 1 \in f
    BY <1>1, <2>1
  <2>2. CASE 1 \notin f /\ 2 \in f
    BY <1>1, <2>2
  <2>3. CASE f \subseteq {4, 8, 16} /\ 4 \in f
    BY <2>3
  <2>4. CASE f \subseteq {8, 16} /\ 8 \in f
    BY <2>4
  <2>5. CASE f \subseteq {16}
    <3>1. f = {16}
      BY <2>5
    <3>2. QED  BY <3>1
  <2>6. QED  BY <1>1, <2>1, <2>2, <2>3, <2>4, <2>5
<1>4. DepthGetHighest(f) = CHOOSE d \in f : \A e \in f : e <= d
  BY DEF DepthGetHighest
<1>5. DepthGetLowest(f) = CHOOSE d \in f : \A e \in f : d <= e
  BY DEF DepthGetLowest
<1>6. QED  BY <1>2, <1>3, <1>4, <1>5

(* depth_get_lowest is the next of NONE. *)
LEMMA LowestIsLowest ==
  ASSUME NEW f \in DepthFlag PROVE GetLowest(f) = DepthGetLowest(f)
<1>1. f \subseteq {1, 2, 4, 8, 16}
  BY DepthsAre DEF DepthFlag
<1>2. IsNext(GetLowest(f), f, 0)
  BY NextIsNearest, DepthsAre DEF GetLowest, DepthNone
<1>3. CASE f = {}
  BY <1>2, <1>3 DEF IsNext, DepthGetLowest, DepthNone
<1>4. CASE f # {}
  <2>1. \A b \in f : b > 0
    BY <1>1
  <2>2. GetLowest(f) \in f /\ \A b \in f : GetLowest(f) <= b
    BY <1>2, <1>4, <2>1 DEF IsNext
  <2>3. DepthGetLowest(f) \in f /\ \A e \in f : DepthGetLowest(f) <= e
    BY <1>4, ClosedForms
  <2>4. GetLowest(f) <= DepthGetLowest(f) /\ DepthGetLowest(f) <= GetLowest(f)
    BY <2>2, <2>3
  <2>5. GetLowest(f) \in Int /\ DepthGetLowest(f) \in Int
    BY <2>2, <2>3, BitsAreIntegers
  <2>6. QED  BY <2>4, <2>5
<1>5. QED  BY <1>3, <1>4

(* Where the loop of depth_get_highest ends when it starts from d. *)
Top(f, d) == IF \E b \in f : b > d THEN DepthGetHighest(f) ELSE d

LEMMA HighestLoop ==
  ASSUME NEW f \in DepthFlag
  PROVE  \A d \in Depths :
           GetHighestLoop(f)[d] =
             IF GetNext(f, d) = d THEN d ELSE GetHighestLoop(f)[GetNext(f, d)]
<1> DEFINE Body(g) == [d \in DepthBit \cup {DepthNone} |->
                         IF GetNext(f, d) = d THEN d ELSE g[GetNext(f, d)]]
           solution == [d \in DepthBit \cup {DepthNone} |-> Top(f, d)]
           climb == GetHighestLoop(f)
<1>1. f \subseteq {1, 2, 4, 8, 16}
  BY DepthsAre DEF DepthFlag
<1>2. ASSUME NEW d \in Depths
      PROVE  Top(f, d) = IF GetNext(f, d) = d THEN d
                         ELSE solution[GetNext(f, d)]
  <2>1. IsNext(GetNext(f, d), f, d)
    BY NextIsNearest
  <2>2. CASE ~\E b \in f : b > d
    BY <2>1, <2>2 DEF IsNext, Top
  <2>3. CASE \E b \in f : b > d
    <3>1. GetNext(f, d) \in f /\ GetNext(f, d) > d
      BY <2>1, <2>3 DEF IsNext
    <3>2. DepthGetHighest(f) \in f /\ \A e \in f : e <= DepthGetHighest(f)
      BY <2>3, ClosedForms
    <3>3. GetNext(f, d) # d
      BY <3>1, <1>1, DepthsAre
    <3>4. Top(f, d) = DepthGetHighest(f)
      BY <2>3 DEF Top
    <3>5. Top(f, GetNext(f, d)) = DepthGetHighest(f)
      <4>1. CASE \E b \in f : b > GetNext(f, d)
        BY <4>1 DEF Top
      <4>2. CASE ~\E b \in f : b > GetNext(f, d)
        <5>1. GetNext(f, d) \in Int /\ DepthGetHighest(f) \in Int
          BY <3>1, <3>2, BitsAreIntegers
        <5>2. ~(DepthGetHighest(f) > GetNext(f, d))
          BY <4>2, <3>2
        <5>3. GetNext(f, d) <= DepthGetHighest(f)
          BY <3>1, <3>2
        <5>4. QED  BY <4>2, <5>1, <5>2, <5>3 DEF Top
      <4>3. QED  BY <4>1, <4>2
    <3>6. GetNext(f, d) \in DepthBit \cup {DepthNone}
      BY <3>1, <1>1, DepthsAre
    <3>7. QED  BY <3>3, <3>4, <3>5, <3>6
  <2>4. QED  BY <2>2, <2>3
<1>3. solution = Body(solution)
  BY <1>2 DEF Depths
<1>4. climb = CHOOSE g : g = Body(g)
  BY DEF GetHighestLoop
<1>5. climb = Body(climb)
  <2> HIDE DEF Body, solution, climb
  <2> QED  BY <1>3, <1>4
<1>6. QED
  <2> HIDE DEF climb
  <2>1. \A d \in Depths :
          climb[d] = IF GetNext(f, d) = d THEN d ELSE climb[GetNext(f, d)]
    BY <1>5 DEF Depths
  <2>2. QED  BY <2>1 DEF climb

(* From a depth that is no higher than any in the flag, next upon next     *)
(* ends at the highest.                                                    *)
LEMMA HighestIsHighest ==
  ASSUME NEW f \in DepthFlag PROVE GetHighest(f) = DepthGetHighest(f)
<1> DEFINE Ends(d) == GetHighestLoop(f)[d] = Top(f, d)
<1>1. f \subseteq {1, 2, 4, 8, 16}
  BY DepthsAre DEF DepthFlag
<1>2. ASSUME NEW d \in Depths, \A e \in f : e > d => Ends(e)
      PROVE  Ends(d)
  <2>1. IsNext(GetNext(f, d), f, d)
    BY NextIsNearest
  <2>2. CASE ~\E b \in f : b > d
    BY <2>1, <2>2, HighestLoop DEF IsNext, Top
  <2>3. CASE \E b \in f : b > d
    <3>1. GetNext(f, d) \in f /\ GetNext(f, d) > d
      BY <2>1, <2>3 DEF IsNext
    <3>2. GetNext(f, d) # d
      BY <3>1, <1>1, DepthsAre
    <3>3. GetHighestLoop(f)[d] = GetHighestLoop(f)[GetNext(f, d)]
      BY <3>2, HighestLoop
    <3>4. Ends(GetNext(f, d))
      BY <3>1, <1>2
    <3>5. DepthGetHighest(f) \in f /\ \A e \in f : e <= DepthGetHighest(f)
      BY <2>3, ClosedForms
    <3>6. Top(f, GetNext(f, d)) = DepthGetHighest(f)
      <4>1. CASE \E b \in f : b > GetNext(f, d)
        BY <4>1 DEF Top
      <4>2. CASE ~\E b \in f : b > GetNext(f, d)
        <5>1. GetNext(f, d) \in Int /\ DepthGetHighest(f) \in Int
          BY <3>1, <3>5, BitsAreIntegers
        <5>2. ~(DepthGetHighest(f) > GetNext(f, d))
          BY <4>2, <3>5
        <5>3. GetNext(f, d) <= DepthGetHighest(f)
          BY <3>1, <3>5
        <5>4. QED  BY <4>2, <5>1, <5>2, <5>3 DEF Top
      <4>3. QED  BY <4>1, <4>2
    <3>7. QED  BY <2>3, <3>3, <3>4, <3>6 DEF Top
  <2>4. QED  BY <2>2, <2>3
<1> HIDE DEF Ends
<1>3. Ends(16)
  BY <1>1, <1>2, DepthsAre
<1>4. Ends(8)
  BY <1>1, <1>2, <1>3, DepthsAre
<1>5. Ends(4)
  BY <1>1, <1>2, <1>3, <1>4, DepthsAre
<1>6. Ends(2)
  BY <1>1, <1>2, <1>3, <1>4, <1>5, DepthsAre
<1>7. Ends(1)
  BY <1>1, <1>2, <1>3, <1>4, <1>5, <1>6, DepthsAre
<1>8. Ends(0)
  BY <1>1, <1>2, <1>3, <1>4, <1>5, <1>6, <1>7, DepthsAre
<1>9. GetHighest(f) = Top(f, 0)
  BY <1>8 DEF Ends, GetHighest, DepthNone
<1>10. CASE f = {}
  BY <1>9, <1>10 DEF Top, DepthGetHighest, DepthNone
<1>11. CASE f # {}
  <2>1. \E b \in f : b > 0
    <3>1. PICK b \in f : TRUE
      BY <1>11
    <3>2. b > 0
      BY <1>1, <3>1
    <3>3. QED  BY <3>1, <3>2
  <2>2. QED  BY <1>9, <2>1 DEF Top
<1>12. QED  BY <1>10, <1>11

(* A flag with GL gives an error: the previous depth of GL alone is GL,    *)
(* and any other answer is dropped.                                        *)
LEMMA HighestNoGL ==
  ASSUME NEW f \in DepthFlag
  PROVE  GetHighestNoGL(f) = DepthGetHighestNoGL(f)
<1>1. f \subseteq {1, 2, 4, 8, 16}
  BY DepthsAre DEF DepthFlag
<1>2. GetHighest(f) = DepthGetHighest(f)
  BY HighestIsHighest
<1>3. CASE 16 \notin f
  <2>1. DepthGetHighest(f) # 16
    <3>1. CASE f = {}
      BY <3>1 DEF DepthGetHighest, DepthNone
    <3>2. CASE f # {}
      BY <1>3, <3>2, ClosedForms
    <3>3. QED  BY <3>1, <3>2
  <2>2. QED
    BY <1>2, <1>3, <2>1 DEF GetHighestNoGL, DepthGetHighestNoGL, DepthGL
<1>4. CASE 16 \in f
  <2>1. DepthGetHighest(f) \in f /\ \A e \in f : e <= DepthGetHighest(f)
    BY <1>4, ClosedForms
  <2>2. DepthGetHighest(f) = 16
    <3>1. DepthGetHighest(f) \in {1, 2, 4, 8, 16} /\ 16 <= DepthGetHighest(f)
      BY <1>1, <1>4, <2>1
    <3>2. QED  BY <3>1
  <2>3. IsPrev(GetPrev(f, 16), f, 16)
    BY PrevIsNearest, DepthsAre
  <2>4. CASE f = {16}
    <3>1. GetPrev(f, 16) = 16
      BY <2>3, <2>4 DEF IsPrev
    <3>2. QED
      BY <1>2, <2>2, <2>4, <3>1 DEF GetHighestNoGL, DepthGetHighestNoGL, DepthGL
  <2>5. CASE f # {16}
    <3>1. \E b \in f : b < 16
      <4>1. PICK b \in f : b # 16
        BY <1>4, <2>5
      <4>2. b < 16
        BY <1>1, <4>1
      <4>3. QED  BY <4>1, <4>2
    <3>2. GetPrev(f, 16) < 16
      BY <2>3, <3>1 DEF IsPrev
    <3>3. GetPrev(f, 16) \in f
      BY <2>3, <3>1 DEF IsPrev
    <3>4. GetPrev(f, 16) # 16
      BY <1>1, <3>2, <3>3
    <3>5. QED
      BY <1>2, <1>4, <2>2, <2>5, <3>4
         DEF GetHighestNoGL, DepthGetHighestNoGL, DepthGL
  <2>6. QED  BY <2>4, <2>5
<1>5. QED  BY <1>3, <1>4

-----------------------------------------------------------------------------
(* The state machine keeps each answer as it was given. *)
Question == {"next", "prev", "lowest", "highest", "nogl"}

Kept ==
  /\ flag \in DepthFlag
  /\ depth \in Nat
  /\ DOMAIN answer = Question
  /\ answer["next"] \in {Unasked, GetNext(flag, depth)}
  /\ answer["prev"] \in {Unasked, GetPrev(flag, depth)}
  /\ answer["lowest"] \in {Unasked, GetLowest(flag)}
  /\ answer["highest"] \in {Unasked, GetHighest(flag)}
  /\ answer["nogl"] \in {Unasked, GetHighestNoGL(flag)}

LEMMA AnswersKept == Spec => []Kept
<1>1. Init => Kept
  BY MaxDepthArgAssumption DEF Init, Kept, Question
<1>2. ASSUME Kept, [Next]_vars PROVE Kept'
  <2>1. CASE UNCHANGED vars
    BY <1>2, <2>1 DEF Kept, vars
  <2>2. CASE Ask("next", GetNext(flag, depth))
    BY <1>2, <2>2 DEF Kept, Ask, Question
  <2>3. CASE Ask("prev", GetPrev(flag, depth))
    BY <1>2, <2>3 DEF Kept, Ask, Question
  <2>4. CASE Ask("lowest", GetLowest(flag))
    BY <1>2, <2>4 DEF Kept, Ask, Question
  <2>5. CASE Ask("highest", GetHighest(flag))
    BY <1>2, <2>5 DEF Kept, Ask, Question
  <2>6. CASE Ask("nogl", GetHighestNoGL(flag))
    BY <1>2, <2>6 DEF Kept, Ask, Question
  <2>7. QED  BY <1>2, <2>1, <2>2, <2>3, <2>4, <2>5, <2>6 DEF Next
<1>3. QED  BY <1>1, <1>2, PTL DEF Spec

(* visual_video_depth_get_next and _prev answer the nearest supported      *)
(* depth above and below any sane depth, or that depth if there is none.   *)
THEOREM Nearest == Spec => []NeighbourIsNearest
<1>1. ASSUME Kept PROVE NeighbourIsNearest
  <2>1. SUFFICES ASSUME IsSane(depth)
        PROVE  /\ Answered("next") =>
                    IF {b \in flag : b > depth} = {} THEN answer["next"] = depth
                    ELSE /\ answer["next"] \in {b \in flag : b > depth}
                         /\ \A b \in {c \in flag : c > depth} :
                              answer["next"] <= b
               /\ Answered("prev") =>
                    IF {b \in flag : b < depth} = {} THEN answer["prev"] = depth
                    ELSE /\ answer["prev"] \in {b \in flag : b < depth}
                         /\ \A b \in {c \in flag : c < depth} :
                              b <= answer["prev"]
    BY DEF NeighbourIsNearest
  <2>2. depth \in Depths
    BY <1>1, <2>1, SaneDepths DEF Kept
  <2>3. /\ IsNext(GetNext(flag, depth), flag, depth)
        /\ IsPrev(GetPrev(flag, depth), flag, depth)
    BY <1>1, <2>2, NextIsNearest, PrevIsNearest DEF Kept
  <2>4. ASSUME Answered("next") PROVE answer["next"] = GetNext(flag, depth)
    BY <1>1, <2>4 DEF Kept, Answered
  <2>5. ASSUME Answered("prev") PROVE answer["prev"] = GetPrev(flag, depth)
    BY <1>1, <2>5 DEF Kept, Answered
  <2>6. QED  BY <2>3, <2>4, <2>5 DEF IsNext, IsPrev
<1>2. QED  BY <1>1, AnswersKept, PTL

(* The loops of depth_get_lowest, depth_get_highest and                    *)
(* depth_get_highest_nogl compute the closed forms that the modules of the *)
(* bin use, on every depthflag.                                            *)
THEOREM MeetClosedForms == Spec => []LoopsMeetClosedForms
<1>1. ASSUME Kept PROVE LoopsMeetClosedForms
  BY <1>1, LowestIsLowest, HighestIsHighest, HighestNoGL
     DEF Kept, Answered, LoopsMeetClosedForms
<1>2. QED  BY <1>1, AnswersKept, PTL

=============================================================================
