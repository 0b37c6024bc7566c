------------------------------ MODULE VisCache ------------------------------
(***************************************************************************)
(* The cache of libvisual (lv_cache.c): a list of the entries, from whose  *)
(* tail they are evicted, and a hash map that leads from a key to the      *)
(* entry.  The Fourier transform keeps its tables in two of them.          *)
(*                                                                         *)
(* The loops of put and clear take one step for each entry they destroy;   *)
(* everything else is one step.  A chain of the hash map is the sequence   *)
(* of the entries put under one key (lv_hashmap.c looks for no duplicate   *)
(* of a string); which keys share a chain is left out, which slot of the   *)
(* table a chain has is not: string_hash is a signed int, and C's          *)
(* remainder has its sign.  Once the code touches memory that is freed or  *)
(* not there nothing more is said of it: ub tells what memory it was, and  *)
(* the cache stops.                                                        *)
(*                                                                         *)
(* visual_cache_flush_outdated changes nothing: its loop goes on while     *)
(* visual_timer_elapsed returns true, and that returns VISUAL_OK, 0.       *)
(* The data, its destroyer and the timers of the entries are left out, and *)
(* so is cache_dtor: a cache is not used after it.                         *)
(***************************************************************************)
EXTENDS VisList, FiniteSets

CONSTANTS
  Key,
  Hash,    \* string_hash of a key
  Limits,  \* Limits[r], the sizes of a cache whose reqreset is r
  Blocks   \* Blocks[r], the memory its entries come from

ASSUME VisCacheAssumption ==
  /\ Hash \in [Key -> Int]
  /\ Limits \in [BOOLEAN -> SUBSET Nat]
  /\ Blocks \in [BOOLEAN -> SUBSET Entry]
  /\ Null \notin Key

VARIABLES
  list,      \* cache->list, with the pointers of all entries
  key,       \* centry->key of each allocated entry
  index,     \* cache->index: index[k], the entries put under k
  indexed,   \* cache->index->size
  slots,     \* cache->index->tablesize; the table is NULL when it is 0
  size,      \* cache->size
  raised,    \* the limit was above slots since this index was made
  reqreset,  \* cache->reqreset
  live,      \* entries allocated and not freed
  call,      \* the call that is in its loop
  order,     \* the entries in the list, in the order the calls ask for
  leftover,  \* a clear has left entries behind
  ub         \* what was touched that is not there: "freed" entries, a
             \* "slot" before the table, a "table" beyond its end

map == <<index, indexed, slots>>
vars == <<list, key, map, size, raised, reqreset, live, call, order, leftover, ub>>

NoCall == [op |-> "none"]
Put(k) == [op |-> "put", key |-> k]
Clear(e) == [op |-> "clear", le |-> e]
Call == {NoCall} \cup {Put(k) : k \in Key} \cup {Clear(e) : e \in Pointer}

(* visual_cache_init *)
Init ==
  /\ list = EmptyList
  /\ key = [e \in Entry |-> Null]
  /\ index = [k \in Key |-> << >>]
  /\ indexed = 0
  /\ reqreset \in BOOLEAN
  /\ size \in Limits[reqreset]
  /\ slots = size
  /\ raised = FALSE
  /\ live = {}
  /\ call = NoCall
  /\ order = << >>
  /\ leftover = FALSE
  /\ ub = {}

-----------------------------------------------------------------------------

(* s without its entry e, if it has one. *)
Place(s, e) == CHOOSE i \in DOMAIN s : s[i] = e

Without(s, e) ==
  IF \A i \in DOMAIN s : s[i] # e THEN s
  ELSE [i \in 1 .. Len(s) - 1 |-> IF i < Place(s, e) THEN s[i] ELSE s[i + 1]]

(* get_hash: the key's slot is before a table that is there. *)
Outside(k) == slots # 0 /\ Hash[k] < 0 /\ (-Hash[k]) % slots # 0

Freed(S) == IF S \subseteq live THEN {} ELSE {"freed"}

(* The pointers of memory that is freed say nothing. *)
Forget(l, e) ==
  [head |-> l.head, tail |-> l.tail, count |-> l.count,
   prev |-> [l.prev EXCEPT ![e] = Null],
   next |-> [l.next EXCEPT ![e] = Null]]

DestroyUnindexed(e) ==  \* slip: the index keeps the entry
  /\ list' = Forget(Unchain(list, e), e)
  /\ key' = [key EXCEPT ![e] = Null]
  /\ order' = Without(order, e)
  /\ live' = live \ {e}
  /\ UNCHANGED map
  /\ ub' = Freed(UnchainTouches(list, e))

(* cache_remove_list_entry: visual_hashmap_remove_string takes out the     *)
(* first entry under the key, whichever it is, and visual_list_destroy     *)
(* unchains and frees this one.  The key of an entry that an earlier clear *)
(* has left behind may be outside of today's table.                        *)
Destroy(e) ==
  /\ list' = Forget(Unchain(list, e), e)
  /\ key' = [key EXCEPT ![e] = Null]
  /\ order' = Without(order, e)
  /\ live' = live \ {e}
  /\ IF key[e] \in Key /\ index[key[e]] # << >>
     THEN /\ index' = [index EXCEPT ![key[e]] = Tail(@)]
          /\ indexed' = indexed - 1
     ELSE UNCHANGED <<index, indexed>>
  /\ ub' = Freed(UnchainTouches(list, e)) \cup
           (IF key[e] \in Key /\ Outside(key[e]) THEN {"slot"} ELSE {})
  /\ UNCHANGED slots

(* handle_request_reset *)
Reset(e) ==
  IF ~reqreset THEN
    /\ ub' = Freed({e})
    /\ UNCHANGED <<list, order>>
  ELSE
    /\ list' = ChainAtBegin(Unchain(list, e), e)
    /\ order' = <<e>> \o Without(order, e)
    /\ ub' = Freed(UnchainTouches(list, e))

-----------------------------------------------------------------------------
(* The calls *)

Idle == call = NoCall /\ ub = {}

TooMany == list.count > size - 1

(* visual_cache_get *)
Get(k) ==
  /\ Idle
  /\ index[k] # << >>
  /\ Reset(Head(index[k]))
  /\ UNCHANGED <<key, map, size, raised, reqreset, live, call, leftover>>

(* visual_cache_remove *)
Remove(k) ==
  /\ Idle
  /\ index[k] # << >>
  /\ Destroy(Head(index[k]))
  /\ UNCHANGED <<size, raised, reqreset, call, leftover>>

(* visual_hashmap_get with such a key, in get, in remove and, its loop      *)
(* done, in put.                                                           *)
LookOutside(k) ==
  /\ ub = {}
  /\ call = NoCall \/ (call = Put(k) /\ ~TooMany)
  /\ Outside(k)
  /\ ub' = {"slot"}
  /\ UNCHANGED <<list, key, map, size, raised, reqreset, live, call, order, leftover>>

SetLimitsToLast(n) ==  \* slip: the last place instead of the size
  /\ Idle
  /\ size' = n - 1
  /\ raised' = (raised \/ n - 1 > slots)
  /\ UNCHANGED <<list, key, map, reqreset, live, call, order, leftover, ub>>

(* visual_cache_set_limits: the table of the index stays as it is. *)
SetLimits(n) ==
  /\ Idle
  /\ size' = n
  /\ raised' = (raised \/ n > slots)
  /\ UNCHANGED <<list, key, map, reqreset, live, call, order, leftover, ub>>

(* visual_cache_put, its head *)
StartPut(k) ==
  /\ Idle
  /\ size >= 1
  /\ call' = Put(k)
  /\ UNCHANGED <<list, key, map, size, raised, reqreset, live, order, leftover, ub>>

Storing == call.op = "put" /\ ub = {}

EvictOldest ==  \* slip: the head instead of the tail
  /\ Storing
  /\ TooMany
  /\ list.tail # Null
  /\ Destroy(list.head)
  /\ UNCHANGED <<size, raised, reqreset, call, leftover>>

(* visual_cache_put: "Remove items that are no longer wished in the cache" *)
Evict ==
  /\ Storing
  /\ TooMany
  /\ list.tail # Null
  /\ Destroy(list.tail)
  /\ UNCHANGED <<size, raised, reqreset, call, leftover>>

KeepGoing ==  \* slip: the loop does not look whether there is a tail
  /\ Storing
  /\ TooMany
  /\ list.tail = Null
  /\ UNCHANGED vars

(* The same loop, out of entries before the count says so: nothing stored. *)
GiveUp ==
  /\ Storing
  /\ TooMany
  /\ list.tail = Null
  /\ call' = NoCall
  /\ UNCHANGED <<list, key, map, size, raised, reqreset, live, order, leftover, ub>>

(* visual_cache_put: "Add to cache", for a key that the index has ... *)
StoreAgain ==
  /\ Storing
  /\ ~TooMany
  /\ index[call.key] # << >>
  /\ Reset(Head(index[call.key]))
  /\ call' = NoCall
  /\ UNCHANGED <<key, map, size, raised, reqreset, live, leftover>>

(* ... and for one that it has not. *)
StoreNew ==
  /\ Storing
  /\ ~TooMany
  /\ index[call.key] = << >>
  /\ slots # 0 /\ ~Outside(call.key)
  /\ \E e \in Blocks[reqreset] \ live :
       /\ list' = Add(list, e)
       /\ order' = Append(order, e)
       /\ key' = [key EXCEPT ![e] = call.key]
       /\ index' = [index EXCEPT ![call.key] = Append(@, e)]
       /\ live' = live \cup {e}
  /\ indexed' = indexed + 1
  /\ ub' = Freed(AddTouches(list))
  /\ call' = NoCall
  /\ UNCHANGED <<slots, size, raised, reqreset, leftover>>

(* An index without a table has no entry of the key either; to put one,    *)
(* create_table finds no memory for 0 slots, and get_hash divides by 0.    *)
StoreNowhere ==
  /\ Storing
  /\ ~TooMany
  /\ slots = 0
  /\ ub' = {"slot"}
  /\ UNCHANGED <<list, key, map, size, raised, reqreset, live, call, order, leftover>>

(* visual_cache_clear *)
StartClear ==
  /\ Idle
  /\ call' = Clear(Null)
  /\ UNCHANGED <<list, key, map, size, raised, reqreset, live, order, leftover, ub>>

Clearing == call.op = "clear" /\ ub = {}

(* Its loop goes to the next entry, and visual_list_delete leaves it at    *)
(* the one after that.                                                     *)
ClearEntry ==
  /\ Clearing
  /\ LET e == NextEntry(list, call.le) IN
     /\ e # Null
     /\ Destroy(e)
     /\ call' = Clear(list.next[e])
  /\ UNCHANGED <<size, raised, reqreset, leftover>>

EndClearInOldTable ==  \* slip: the new index gets the size of the old one
  /\ Clearing
  /\ NextEntry(list, call.le) = Null
  /\ indexed <= slots
  /\ index' = [k \in Key |-> << >>]
  /\ indexed' = 0
  /\ raised' = FALSE
  /\ leftover' = (leftover \/ order # << >>)
  /\ call' = NoCall
  /\ UNCHANGED <<list, key, slots, size, reqreset, live, order, ub>>

(* The end of the loop: a new index, whatever is left in the list and in   *)
(* the old index, of which hashmap_destroy takes as many slots as it has   *)
(* entries ...                                                             *)
EndClear ==
  /\ Clearing
  /\ NextEntry(list, call.le) = Null
  /\ indexed <= slots
  /\ index' = [k \in Key |-> << >>]
  /\ indexed' = 0
  /\ slots' = size
  /\ raised' = FALSE
  /\ leftover' = (leftover \/ order # << >>)
  /\ call' = NoCall
  /\ UNCHANGED <<list, key, size, reqreset, live, order, ub>>

(* ... and there may be fewer slots. *)
DestroyPastTable ==
  /\ Clearing
  /\ NextEntry(list, call.le) = Null
  /\ indexed > slots
  /\ ub' = {"table"}
  /\ UNCHANGED <<list, key, map, size, raised, reqreset, live, call, order, leftover>>

Step ==
  \/ Evict \/ GiveUp \/ StoreAgain \/ StoreNew \/ StoreNowhere
  \/ ClearEntry \/ EndClear \/ DestroyPastTable
  \/ \E k \in Key : call = Put(k) /\ LookOutside(k)

Crashed == ub # {} /\ UNCHANGED vars

Next ==
  \/ \E k \in Key : Get(k) \/ Remove(k) \/ LookOutside(k) \/ StartPut(k)
  \/ \E n \in Limits[reqreset] : SetLimits(n)
  \/ StartClear
  \/ Step
  \/ Crashed

Spec == Init /\ [][Next]_vars
FairSpec == Spec /\ WF_vars(Step)

-----------------------------------------------------------------------------
(* Properties *)

(* The fields of the cache hold what C may put there. *)
TypeOK ==
  /\ list \in List
  /\ key \in [Entry -> Key \cup {Null}]
  /\ index \in [Key -> Seq(Entry)]
  /\ indexed \in Nat
  /\ slots \in Nat
  /\ size \in Nat
  /\ raised \in BOOLEAN
  /\ reqreset \in BOOLEAN
  /\ live \subseteq Entry
  /\ call \in Call
  /\ order \in Seq(Entry)
  /\ leftover \in BOOLEAN
  /\ ub \subseteq {"freed", "slot", "table"}

(* Whatever the state of the list, the index leads from a key to at most   *)
(* one entry, which was put under that key and is not freed: the list is   *)
(* walked and freed from one end and the index from the other, and a clear *)
(* leaves entries whose keys may be put again.                             *)
AnswersAreLive ==
  \A k \in Key :
    /\ Len(index[k]) <= 1
    /\ \A i \in DOMAIN index[k] : index[k][i] \in live /\ key[index[k][i]] = k

(* In a cache that resets nothing on requests no call touches an entry     *)
(* that is freed; the list holds exactly the allocated entries, in the     *)
(* order of their puts, and the index, until a clear leaves entries        *)
(* behind, knows every one of them.  Of the table of the index it says     *)
(* nothing.                                                                *)
ListIsSound ==
  ~reqreset =>
    /\ "freed" \notin ub
    /\ Links(list, order)
    /\ live = {order[i] : i \in DOMAIN order}
    /\ leftover \/ call.op = "clear" \/
       \A i \in DOMAIN order : index[key[order[i]]] = <<order[i]>>

(* As long as the limit was not raised since its table was made, the index *)
(* has a table whenever a key is put (get_hash divides by its size), no    *)
(* clear reads beyond its end, and no call before its front but for a key  *)
(* whose hash has a negative remainder.  In any cache: also with a torn    *)
(* list, with left-over entries and with limits that were lowered.         *)
IndexStaysInTable ==
  ~raised =>
    /\ "table" \notin ub
    /\ "slot" \in ub => \E k \in Key : Outside(k)

(* A full cache that resets nothing on requests makes room by freeing the  *)
(* entry that was put last, and keeps the ones before it in their order:   *)
(* visual_cache_put takes from the tail, where visual_list_add has put the *)
(* newest.  lv_cache.h:61-64 wants the opposite of the sorted list, "so we *)
(* can quickly identify old cache items that should be disposed when the   *)
(* cache reaches it's limit".                                              *)
NewestGoesFirst ==
  [][ Evict /\ ~reqreset =>
        LET n == Len(order) IN
        /\ n > 0
        /\ live' = live \ {order[n]}
        /\ Len(order') = n - 1
        /\ \A i \in 1 .. n - 1 : order'[i] = order[i] ]_vars

(* In such a cache a put that returns has stored its key, also when the    *)
(* limit was lowered below what the list holds.                            *)
PutIsFound ==
  [][ call.op = "put" /\ call' = NoCall /\ ~reqreset =>
        index'[call.key] # << >> /\ list'.count <= size ]_vars

(* Every put and every clear returns: no state of the list lets one of     *)
(* their loops go on forever.                                              *)
CallsReturn == (call # NoCall) ~> (call = NoCall \/ ub # {})

(* lv_list.h:77, "Number of entries that are in the list." *)
CountIsEntries ==
  call = NoCall => list.count = Cardinality(Forward(list, Cardinality(Entry)))

=============================================================================
