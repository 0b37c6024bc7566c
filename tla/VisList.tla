------------------------------- MODULE VisList -------------------------------
(***************************************************************************)
(* The doubly linked list of libvisual (lv_list.c), as operators on the    *)
(* memory it is made of: a list is its head, tail and count together with  *)
(* the prev and next pointers of every entry, chained or not.              *)
(*                                                                         *)
(* The operators do what the pointer code does, whatever the pointers are; *)
(* Links(l, s) says when they are those of a list that holds s.            *)
(***************************************************************************)
EXTENDS Integers, Sequences

CONSTANTS
  Entry,  \* blocks of the size of a VisListEntry
  Null

ASSUME VisListAssumption == Null \notin Entry

Pointer == Entry \cup {Null}

List == [head : Pointer, tail : Pointer, count : Int,
         prev : [Entry -> Pointer], next : [Entry -> Pointer]]

(* visual_list_init *)
EmptyList == [head |-> Null, tail |-> Null, count |-> 0,
              prev |-> [e \in Entry |-> Null], next |-> [e \in Entry |-> Null]]

(* visual_list_add, with visual_list_chain: a new entry, cleared by its    *)
(* allocation, goes to the tail.                                           *)
Add(l, e) ==
  [head |-> IF l.head = Null THEN e ELSE l.head,
   tail |-> e,
   count |-> l.count + 1,
   prev |-> [l.prev EXCEPT ![e] = IF l.head = Null THEN Null ELSE l.tail],
   next |-> [x \in Entry |-> IF x = e THEN Null
                             ELSE IF l.head # Null /\ x = l.tail THEN e
                             ELSE l.next[x]]]

AddTouches(l) == IF l.head = Null THEN {} ELSE {l.tail}

(* visual_list_chain_at_begin: the old head keeps its prev. *)
ChainAtBegin(l, e) ==
  [head |-> e,
   tail |-> IF l.head = Null THEN e ELSE l.tail,
   count |-> l.count + 1,
   prev |-> [l.prev EXCEPT ![e] = Null],
   next |-> [l.next EXCEPT ![e] = l.head]]

(* visual_list_unchain: the two neighbours that e names are joined, or the *)
(* head and the tail where it names none; e keeps its own pointers.        *)
JoinNext(l, e) == [x \in Entry |-> IF x = l.prev[e] THEN l.next[e] ELSE l.next[x]]
JoinPrev(l, e) == [x \in Entry |-> IF x = l.next[e] THEN l.prev[e] ELSE l.prev[x]]

UnchainKeepingTail(l, e) ==  \* slip: the tail is not moved back
  [head |-> IF l.prev[e] = Null THEN l.next[e] ELSE l.head,
   tail |-> l.tail,
   count |-> l.count - 1,
   prev |-> JoinPrev(l, e),
   next |-> JoinNext(l, e)]

UnchainUncounted(l, e) ==  \* slip: count keeps its value
  [head |-> IF l.prev[e] = Null THEN l.next[e] ELSE l.head,
   tail |-> IF l.next[e] = Null THEN l.prev[e] ELSE l.tail,
   count |-> l.count,
   prev |-> JoinPrev(l, e),
   next |-> JoinNext(l, e)]

Unchain(l, e) ==
  [head |-> IF l.prev[e] = Null THEN l.next[e] ELSE l.head,
   tail |-> IF l.next[e] = Null THEN l.prev[e] ELSE l.tail,
   count |-> l.count - 1,
   prev |-> JoinPrev(l, e),
   next |-> JoinNext(l, e)]

UnchainTouches(l, e) == {e, l.prev[e], l.next[e]} \ {Null}

(* visual_list_next: from nothing to the head. *)
NextEntry(l, e) == IF e = Null THEN l.head ELSE l.next[e]

-----------------------------------------------------------------------------
(* What a list is *)

Distinct(s) == \A i, j \in DOMAIN s : s[i] = s[j] => i = j

(* The pointers and the count of l are those of a list of the entries s. *)
Links(l, s) ==
  /\ Distinct(s)
  /\ l.count = Len(s)
  /\ l.head = IF s = << >> THEN Null ELSE s[1]
  /\ l.tail = IF s = << >> THEN Null ELSE s[Len(s)]
  /\ \A i \in DOMAIN s :
       /\ l.prev[s[i]] = IF i = 1 THEN Null ELSE s[i - 1]
       /\ l.next[s[i]] = IF i = Len(s) THEN Null ELSE s[i + 1]

(* The entries met from the head on, within n of them. *)
Forward(l, n) ==
  LET met[i \in 0 .. n] ==
        IF i = 0 THEN {l.head} \ {Null}
        ELSE met[i - 1] \cup ({l.next[e] : e \in met[i - 1]} \ {Null})
  IN met[n]

=============================================================================
