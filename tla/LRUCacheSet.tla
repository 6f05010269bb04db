---------------------------- MODULE LRUCacheSet ----------------------------
(***************************************************************************)
(* One set of a private L1 cache: class LRUCacheSet of the protocol        *)
(* headers.  The four copies of the class (MESI, MOESI, MESIF, Dragon) are *)
(* the same code; SmartCacheSet of mesi_smart.h shares find() and differs  *)
(* in allocate(), and is modelled in MESISmartProtocol.                    *)
(*                                                                         *)
(* A set is a record of the class's two members:                           *)
(*   lru_order  the std::list of tags, most recently used first            *)
(*   lines      the std::unordered_map from tag to line; the state of a    *)
(*              line is all the code keeps besides the tag                 *)
(*                                                                         *)
(* The two can drift apart: allocate() pushes the tag without looking      *)
(* whether an INVALID line for it is still resident, so lru_order may hold *)
(* a tag twice, and later a tag that lines no longer maps.                 *)
(***************************************************************************)
EXTENDS Integers, FiniteSets, Sequences, SequencesExt

CONSTANT Assoc    \* number of ways (command line argument ASSOC)

ASSUME AssocAssumption == Assoc \in Nat \ {0}

(***************************************************************************)
(* The constructor.                                                        *)
(***************************************************************************)
EmptySet == [lru_order |-> <<>>, lines |-> [t \in {} |-> "INVALID"]]

(***************************************************************************)
(* The state of the line with this tag; a missing line (find() returning   *)
(* nullptr) counts as INVALID, which is how every caller treats it:        *)
(* "line && line->state != INVALID".                                       *)
(***************************************************************************)
LineState(set, tag) ==
  IF tag \in DOMAIN set.lines THEN set.lines[tag] ELSE "INVALID"

(***************************************************************************)
(* std::list::remove(): the list without the occurrences of a tag.         *)
(***************************************************************************)
remove(list, tag) ==
  LET kept[i \in 0 .. Len(list)] ==
        IF i = 0 THEN <<>>
        ELSE IF list[i] = tag THEN kept[i - 1]
             ELSE Append(kept[i - 1], list[i])
  IN  kept[Len(list)]

(***************************************************************************)
(* find(): moves a resident tag to the front of the list - all its         *)
(* occurrences, std::list::remove - and leaves the set alone otherwise.    *)
(* Hits, misses on an INVALID line and snoops of other cores all do this.  *)
(***************************************************************************)
find(set, tag) ==
  IF tag \in DOMAIN set.lines
  THEN [lru_order |-> Cons(tag, remove(set.lru_order, tag)),
        lines     |-> set.lines]
  ELSE set

(***************************************************************************)
(* Assignment through the pointer find() or allocate() returned.           *)
(***************************************************************************)
SetLine(set, tag, state) ==
  [lru_order |-> set.lru_order,
   lines     |-> [set.lines EXCEPT ![tag] = state]]

(***************************************************************************)
(* The end of allocate(): push the tag in front and install its line.      *)
(***************************************************************************)
Install(set, tag) ==
  [lru_order |-> Cons(tag, set.lru_order),
   lines     |-> [t \in DOMAIN set.lines \cup {tag} |->
                    IF t = tag THEN "INVALID" ELSE set.lines[t]]]

(***************************************************************************)
(* The set without one occurrence (at position i of the list) of a victim  *)
(* and without the victim's line.                                          *)
(***************************************************************************)
Evict(set, i) ==
  [lru_order |-> RemoveAt(set.lru_order, i),
   lines     |-> Restrict(set.lines, DOMAIN set.lines \ {set.lru_order[i]})]

\* Mutant of allocate(): the victim is copied after it has been erased.
allocate_reports_erased(set, tag) ==
  LET full == Cardinality(DOMAIN set.lines) >= Assoc
  IN  [set     |-> Install(IF full THEN Evict(set, Len(set.lru_order))
                                   ELSE set, tag),
       evicted |-> "INVALID"]

(***************************************************************************)
(* allocate(): when the map is full the tag at the back of the list is the *)
(* victim.  A victim that is not in the map is created INVALID by          *)
(* lines[victim_tag] and erased again, so nothing leaves the map.          *)
(***************************************************************************)
allocate(set, tag) ==
  LET full   == Cardinality(DOMAIN set.lines) >= Assoc
      back   == Len(set.lru_order)
  IN  [set     |-> Install(IF full THEN Evict(set, back) ELSE set, tag),
       evicted |-> IF full THEN LineState(set, set.lru_order[back])
                           ELSE "INVALID"]

=============================================================================
