------------------------------- MODULE LocList -------------------------------
(***************************************************************************)
(* The list under the message queues and the subscribers of the GPS daemon *)
(* (gps/utils/linked_list.c), as operators on sequences: the first element *)
(* is p_head.  Elements are added at the head and removed at the tail.     *)
(***************************************************************************)
EXTENDS Integers, Sequences

linked_list_add(list, x) == <<x>> \o list
linked_list_remove(list) == IF list = << >> THEN << >> ELSE SubSeq(list, 1, Len(list) - 1)
linked_list_flush(list) == << >>
linked_list_empty(list) == list = << >>

\* The first match from the head, taken out when rm_if_found.  `equal` is
\* the set of data for which the caller's equal function is true.
linked_list_search(list, equal, rm_if_found) ==
  LET found == {i \in DOMAIN list : list[i] \in equal}
      first == CHOOSE i \in found : \A j \in found : i <= j IN
  IF ~rm_if_found \/ found = {} THEN list
  ELSE SubSeq(list, 1, first - 1) \o SubSeq(list, first + 1, Len(list))

==============================================================================
