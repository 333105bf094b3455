--------------------------------- MODULE Dnl ---------------------------------
(***************************************************************************)
(* The domain name lists (dnl.c): names are read from the files of every   *)
(* tag into one pool, then put, tag by tag in order of priority, into a    *)
(* hash map of two levels.  A bucket of the first level that would get     *)
(* more than MaxCollision names hands all of them to the second level,     *)
(* which grows by doubling.  A query is given the tag of its longest       *)
(* suffix in the map.                                                      *)
(*                                                                         *)
(* A name is the sequence of its labels.  An address of the pool is a      *)
(* number; a name takes one unit of the pool, as does a bucket.            *)
(***************************************************************************)
EXTENDS Integers, Sequences, FiniteSets, SequencesExt, LinkedLists

CONSTANTS
  Tokens,        \* words in the files, split at the dots
  QueryNames,    \* names that are looked up
  Hash,          \* calc_hashv: name -> number
  TagMax,        \* TAG__MAX; 0 is chn, 1 is gfw, the others are the user's
  GfwlistFirst,  \* g.flags.gfwlist_first
  DefaultTag,    \* the tag of a name that is in no list
  MaxLevel,      \* MAX_NAME_LEVEL (8 in the code)
  MaxCollision,  \* MAX_COLLISION (4 in the code)
  DefaultLcap,   \* DEFAULT_LCAP (4 in the code)
  MaxNames       \* bound: names in the pool

LastLabels(n, level) == SubSeq(n, Len(n) - level + 1, Len(n))

ASSUME DnlAssumption ==
  /\ \A t \in Tokens \cup QueryNames :
       t \in Seq(STRING) /\ t # <<>> /\ \A l \in 1..Len(t) : Hash[LastLabels(t, l)] \in Nat
  /\ TagMax \in Nat \ {0} /\ GfwlistFirst \in BOOLEAN
  /\ MaxLevel \in Nat \ {0} /\ MaxCollision \in Nat \ {0}
  /\ DefaultLcap \in Nat /\ MaxNames \in Nat

Tags == 0..TagMax

VARIABLES
  pc,        \* "load": load_list; "add": add_list; "done"
  tag,       \* the tag whose files are being read
  pool,      \* the names in s_base, in order of their addresses
  count,     \* tag -> names read for it (tag_to_count)
  addr0,     \* tag -> address of the first of them (tag_to_addr0)
  interest,  \* s_level_interest: the set of levels whose bit is set
  maps,      \* [m1, m2, end]: s_map1, s_map2, s_end
  todo       \* [list, name]: the list (in OrderedTags) and its name that are next

vars == <<pc, tag, pool, count, addr0, interest, maps, todo>>

\* buckets[i + 1] is bucket i, a record [state, list]: list is the chain of a
\* bucket in the state HEAD
Null == [notnull |-> FALSE, at |-> 0, lcap |-> 0, nlists |-> 0, nitems |-> 0,
         shift |-> 0, buckets |-> <<>>]

-----------------------------------------------------------------------------
(* Names *)

Smaller(a, b) == IF a < b THEN a ELSE b

BadLabels == {"", "toolong"}

(* check_name refuses a leading dot, a leading '#', a trailing dot, and an  *)
(* empty or too long label among those it keeps.                            *)
NameOk(t) ==
  /\ t[1] \notin {"", "#"} /\ t[Len(t)] # ""
  /\ \A i \in 1..Len(t) : i > Len(t) - MaxLevel => t[i] \notin BadLabels

(* The name that is stored: its last MaxLevel labels. *)
check_name(t) == LastLabels(t, Smaller(Len(t), MaxLevel))

LevelMax == CHOOSE l \in interest : \A k \in interest : k <= l

(* mutant: the whole name is not among the suffixes *)
get_suffix_proper(n) ==
  LET top == Smaller(LevelMax, Len(n) - 1)
  IN {LastLabels(n, level) : level \in interest \cap 1..top}

(* The suffixes of n to look for: those cut off at one of the first         *)
(* s_level_max dots, counted from the end, whose level is of interest; then *)
(* n itself, if the bit after that is set.                                  *)
get_suffix(n) ==
  LET top == Smaller(LevelMax, Len(n) - 1)
  IN {LastLabels(n, level) : level \in interest \cap 1..top}
       \cup (IF top + 1 \in interest THEN {n} ELSE {})

-----------------------------------------------------------------------------
(* The map *)

calc_lcap(n) == CHOOSE l \in 0..n : 2 ^ l >= n /\ \A k \in 0..(l - 1) : 2 ^ k < n

cap(m) == 2 ^ m.lcap

maxload(m) == (cap(m) * 3) \div 4

NameAt(a) == pool[a].name

add_name(n, t) == Append(pool, [name |-> n, tag |-> t])

(* n units more of the pool; the memory may move, addresses stay. *)
alloc(ms, n) == [ms EXCEPT !.end = @ + n]

Idx(m, n) == ((Hash[n] \div 2 ^ m.shift) % cap(m)) + 1

FreeBuckets(n) == [i \in 1..n |-> [state |-> "FREE", list |-> <<>>]]

(* map_set_notnull *)
NewMap(lcap, shift, end) ==
  [Null EXCEPT !.notnull = TRUE, !.at = end, !.lcap = lcap, !.shift = shift,
               !.buckets = FreeBuckets(2 ^ lcap)]

Exists(b, n) == \E i \in DOMAIN b.list : NameAt(b.list[i]) = n

(* store_as_head or store_as_body *)
Stored(m, a) ==
  LET i == Idx(m, NameAt(a))
  IN [m EXCEPT !.buckets[i] = [state |-> "HEAD", list |-> <<a>> \o @.list],
               !.nitems = @ + 1,
               !.nlists = @ + (IF m.buckets[i].state = "FREE" THEN 1 ELSE 0)]

HeadOrFree(l) == [state |-> IF l = <<>> THEN "FREE" ELSE "HEAD", list |-> l]

HeadCount(bs) == Cardinality({i \in DOMAIN bs : bs[i].state = "HEAD"})

(* mutant: nothing moves into the new half *)
resize_map2_in_place(m) ==
  [m EXCEPT !.lcap = @ + 1, !.buckets = @ \o FreeBuckets(cap(m))]

(* Twice the buckets; a name that belongs into the second half goes to the  *)
(* head of its new list.                                                    *)
resize_map2(m) ==
  LET big == [m EXCEPT !.lcap = @ + 1]
      old == cap(m)
      Home(i) == {a \in DOMAIN pool : Idx(big, NameAt(a)) = i}
      bs == [i \in 1..(2 * old) |->
               IF i <= old THEN HeadOrFree(Within(m.buckets[i].list, Home(i)))
               ELSE HeadOrFree(Reverse(Within(m.buckets[i - old].list, Home(i))))]
  IN [big EXCEPT !.buckets = bs,
                 !.nlists = @ + HeadCount(bs) - HeadCount(m.buckets)]

(* The second level is made when it is first needed.  A name that is there  *)
(* already stays; otherwise the map grows first if it is at its load.       *)
add_to_map2(ms, a) ==
  LET made == IF ms.m2.notnull THEN ms
              ELSE [alloc(ms, 2 ^ DefaultLcap) EXCEPT
                      !.m2 = NewMap(DefaultLcap, ms.m1.lcap, ms.end)]
      m == made.m2
      full == m.nitems >= maxload(m)
  IN IF Exists(m.buckets[Idx(m, NameAt(a))], NameAt(a)) THEN made
     ELSE [alloc(made, IF full THEN cap(m) ELSE 0) EXCEPT
             !.m2 = Stored(IF full THEN resize_map2(m) ELSE m, a)]

(* Name by name.  Recursion over the list, so that proofs can follow it. *)
MoveList(ms, list) ==
  LET moved[k \in Nat] == IF k = 0 THEN ms ELSE add_to_map2(moved[k - 1], list[k])
  IN moved[Len(list)]

(* mutant: the count of the first level is not reduced *)
HandOverUncounted(m, i) ==
  [m EXCEPT !.buckets[i] = [state |-> "NEXT", list |-> <<>>], !.nlists = @ - 1]

(* A bucket of the first level refers to the second from now on. *)
HandOver(m, i) ==
  [m EXCEPT !.buckets[i] = [state |-> "NEXT", list |-> <<>>],
            !.nlists = @ - 1, !.nitems = @ - Len(m.buckets[i].list)]

add_to_dnl(ms, a) ==
  LET i == Idx(ms.m1, NameAt(a))
      b == ms.m1.buckets[i]
  IN CASE b.state = "FREE" -> [ms EXCEPT !.m1 = Stored(ms.m1, a)]
       [] b.state = "HEAD" ->
            IF Exists(b, NameAt(a)) THEN ms
            ELSE IF Len(b.list) < MaxCollision THEN [ms EXCEPT !.m1 = Stored(ms.m1, a)]
            ELSE MoveList([ms EXCEPT !.m1 = HandOver(ms.m1, i)], Append(b.list, a))
       [] b.state = "NEXT" -> add_to_map2(ms, a)

(* exists_in_dnl: the addresses (one or none) that the lookup of n ends at. *)
Found(ms, n) ==
  LET b1 == ms.m1.buckets[Idx(ms.m1, n)]
      b == IF b1.state = "NEXT" THEN ms.m2.buckets[Idx(ms.m2, n)] ELSE b1
      hits == {i \in DOMAIN b.list : NameAt(b.list[i]) = n}
  IN {b.list[i] : i \in {i \in hits : \A j \in hits : i <= j}}

(* dnl.get_tag and dnl_get_tag: the longest suffix that is found decides. *)
get_tag(n) ==
  LET hits == {s \in get_suffix(n) : Found(maps, s) # {}}
      longest == CHOOSE s \in hits : \A t \in hits : Len(t) <= Len(s)
  IN IF ~maps.m1.notnull \/ hits = {} THEN DefaultTag
     ELSE pool[CHOOSE a \in Found(maps, longest) : TRUE].tag

-----------------------------------------------------------------------------
(* dnl_init *)

Init ==
  /\ pc = "load" /\ tag = 0
  /\ pool = <<>>
  /\ count = [t \in Tags |-> 0] /\ addr0 = [t \in Tags |-> 0]
  /\ interest = {}
  /\ maps = [m1 |-> Null, m2 |-> Null, end |-> 0]
  /\ todo = [list |-> 1, name |-> 0]

(* load_list reads a word from a file of the tag, plain or compressed. *)
LoadName(t) ==
  /\ pc = "load" /\ Len(pool) < MaxNames
  /\ \/ /\ ~NameOk(t)
        /\ UNCHANGED vars
     \/ /\ NameOk(t)
        /\ pool' = add_name(check_name(t), tag)
        /\ count' = [count EXCEPT ![tag] = @ + 1]
        /\ addr0' = [addr0 EXCEPT ![tag] = IF count[tag] = 0 THEN Len(pool) + 1 ELSE @]
        /\ interest' = interest \cup {Len(check_name(t))}
        /\ maps' = alloc(maps, 1)
        /\ UNCHANGED <<pc, tag, todo>>

NextTag ==
  /\ pc = "load" /\ tag < TagMax
  /\ tag' = tag + 1
  /\ UNCHANGED <<pc, pool, count, addr0, interest, maps, todo>>

(* From the highest priority to the lowest. *)
OrderedTags ==
  [i \in 1..(TagMax + 1) |-> IF i < TagMax THEN TagMax + 1 - i
                             ELSE IF (i = TagMax) <=> GfwlistFirst THEN 1 ELSE 0]

(* All files are read.  The first level is made for as many names as there  *)
(* are; without names there is no map.                                      *)
EndLoad ==
  /\ pc = "load" /\ tag = TagMax
  /\ pc' = IF pool = <<>> THEN "done" ELSE "add"
  /\ maps' = IF pool = <<>> THEN maps
             ELSE LET lcap == calc_lcap(Len(pool))
                  IN [alloc(maps, 2 ^ lcap) EXCEPT !.m1 = NewMap(lcap, 0, maps.end)]
  /\ UNCHANGED <<tag, pool, count, addr0, interest, todo>>

(* add_list walks from name to name, count names from addr0. *)
AddNext ==
  LET t == OrderedTags[todo.list]
  IN /\ pc = "add" /\ todo.name < count[t]
     /\ maps' = add_to_dnl(maps, addr0[t] + todo.name)
     /\ todo' = [todo EXCEPT !.name = @ + 1]
     /\ UNCHANGED <<pc, tag, pool, count, addr0, interest>>

(* The next list, if any. *)
NextList ==
  /\ pc = "add" /\ todo.name = count[OrderedTags[todo.list]]
  /\ \/ /\ todo.list <= TagMax
        /\ todo' = [list |-> todo.list + 1, name |-> 0]
        /\ UNCHANGED pc
     \/ /\ todo.list = TagMax + 1
        /\ pc' = "done"
        /\ UNCHANGED todo
  /\ UNCHANGED <<tag, pool, count, addr0, interest, maps>>

Next ==
  \/ \E t \in Tokens : LoadName(t)
  \/ NextTag
  \/ EndLoad
  \/ AddNext
  \/ NextList

Spec == Init /\ [][Next]_vars

-----------------------------------------------------------------------------
(* Properties *)

\* places (bucket, position, level) where the map keeps a name n
Places(n) ==
  LET At(m, level) == UNION {{<<i, j, level>> : j \in {j \in DOMAIN m.buckets[i].list :
                                                        NameAt(m.buckets[i].list[j]) = n}} :
                               i \in DOMAIN m.buckets}
  IN At(maps.m1, 1) \cup At(maps.m2, 2)

\* the addresses that a map keeps
Kept(m) == UNION {ToSet(m.buckets[i].list) : i \in DOMAIN m.buckets}

Names == {pool[a].name : a \in DOMAIN pool}

\* the addresses that were added: the lists before the current one, and its first names
Added ==
  UNION {LET t == OrderedTags[i]
         IN addr0[t]..(addr0[t] + (IF i < todo.list THEN count[t] ELSE todo.name) - 1) :
           i \in 1..todo.list}

(* Every name that was added is kept in one place, and that is where the    *)
(* lookup of exists_in_dnl gets to, whatever list was handed to the second  *)
(* level or split by resize_map2; nitems and nlists count what is there, a  *)
(* list of the first level has at most MAX_COLLISION names, the second      *)
(* level keeps its load, and its buckets end the pool, so that it can grow  *)
(* in place (the assertion in resize_map2).                                 *)
NamesAreStoredOnce ==
  pc # "load" /\ maps.m1.notnull =>
    /\ \A n \in Names : /\ Cardinality(Places(n)) <= 1
                        /\ (Places(n) # {}) <=> (Found(maps, n) # {})
                        /\ (Places(n) # {}) <=> (\E a \in Added : NameAt(a) = n)
    /\ \A m \in {maps.m1, maps.m2} : /\ m.nitems = Cardinality(Kept(m))
                                     /\ m.nlists = HeadCount(m.buckets)
    /\ \A i \in DOMAIN maps.m1.buckets :
         Len(maps.m1.buckets[i].list) <= MaxCollision
    /\ maps.m2.notnull => /\ maps.m2.nitems <= maxload(maps.m2)
                          /\ maps.m2.at + cap(maps.m2) = maps.end

\* the tags of the lists that have the name n
ListedIn(n) == {pool[a].tag : a \in {a \in DOMAIN pool : pool[a].name = n}}

(* "Longest suffix match": once the lists are loaded, the tag of a query is *)
(* that of the longest suffix of its name in any list, and among the lists  *)
(* that have this suffix the one that is loaded first wins: the user's, the *)
(* one declared last first, then gfw and chn as configured.  Suffixes in    *)
(* the lists count with their last MaxLevel labels.                         *)
LookupIsLongestMatch ==
  pc = "done" =>
    \A n \in QueryNames :
      LET hits == {level \in 1..Len(n) : LastLabels(n, level) \in Names}
          level == CHOOSE l \in hits : \A k \in hits : k <= l
          tags == ListedIn(LastLabels(n, level))
      IN get_tag(n) = IF hits = {} THEN DefaultTag
                      ELSE IF tags \subseteq {0, 1}
                           THEN IF (GfwlistFirst /\ 1 \in tags) \/ 0 \notin tags
                                THEN 1 ELSE 0
                           ELSE CHOOSE t \in tags : \A u \in tags : u <= t

(* "Once a suffix is loaded its attributes are not modified": while names   *)
(* are added, also when lists are handed over or split, no name that could  *)
(* be found is lost and none changes its tag.                               *)
StoredNamesKeepTheirTag ==
  [][pc = "add" =>
       \A n \in Names : Found(maps, n) # {} => Found(maps', n) = Found(maps, n)]_vars

==============================================================================
