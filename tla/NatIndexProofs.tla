---------------------------- MODULE NatIndexProofs ---------------------------
(***************************************************************************)
(* Proofs about the chains of the NAT tables (NatTable), continued from    *)
(* NatRuleProofs: the index table. With HandleInv and RuleInv, IndexInv    *)
(* is inductive.                                                           *)
(***************************************************************************)
EXTENDS NatRuleProofs

------------------------------------------------------------------------------
(* The index table. *)

\* The entry of the index table that is unlinked and not yet zeroed: the
\* deleted one, or the successor that was copied over a deleted head.
ICut == IF pc \in {"del_base", "del_fix"} /\ cipos # "ONLY_ONE"
        THEN {IF cipos = "HEAD" THEN ciprev ELSE cindx} ELSE {}

\* A deletion whose index commands were not yet written.
Pending == {"del_index", "del_base_first", "del_index_last"}

\* The chains of the index table.
IndexShape == Shape(indx_next, indx_prev, ICut)

\* The entries of the index table, each on its own: an entry in use points to
\* a live rule of its source hash that points back (or to the one the call in
\* progress adds or deletes). While a head is overwritten, its new rule points
\* to the entry it was copied from.
IndexEntries ==
  /\ \A i \in Idx : tbl_entry[i] = 0 => indx_next[i] = 0
  /\ \A i \in Idx : tbl_entry[i] # 0 => i \in Usable
  /\ \A i \in Idx \ ICut : tbl_entry[i] # 0 =>
       /\ rule[tbl_entry[i]] \in Rules /\ (i < T => SrcHash[rule[tbl_entry[i]]] = i)
       /\ \/ enable[tbl_entry[i]] /\ ~dead[tbl_entry[i]]
          \/ tbl_entry[i] = centry /\ pc \in {"ilink", "enable", "del_index_last"}
       /\ Deleting /\ tbl_entry[i] = centry => i = cindx /\ pc \in Pending
       /\ \/ indx_tbl_entry[tbl_entry[i]] = i
          \/ /\ pc \in {"del_index2", "del_index2_last", "del_base", "del_fix"} /\ cipos = "HEAD"
             /\ i = cindx /\ indx_tbl_entry[tbl_entry[i]] = ciprev

\* The entries of the index table along the links: a successor is in use, with
\* the same source hash; every expansion entry in use has a predecessor, but
\* for the one being linked; every live rule has an entry that points to it.
IndexLinks ==
  /\ \A x \in Idx \ ICut : indx_next[x] # 0 =>
        /\ tbl_entry[indx_next[x]] # 0
        /\ SrcHash[rule[tbl_entry[indx_next[x]]]] = SrcHash[rule[tbl_entry[x]]]
  /\ \A i \in Idx \ ICut : tbl_entry[i] # 0 /\ i >= T =>
        (pc = "ilink" /\ i = cindx) \/ \E x \in Idx \ ICut : indx_next[x] = i
  /\ \A e \in Idx : enable[e] /\ ~dead[e] /\ ~(Deleting /\ e = centry) =>
        \E i \in Idx \ ICut : tbl_entry[i] = e

\* Index entry i is in use, on the chain of the rule being added.
OnIndex(i) == tbl_entry[i] # 0 /\ SrcHash[rule[tbl_entry[i]]] = SrcHash[crule]

\* What an addition knows about the index table: the walk is on the rule's
\* chain; the entry it takes is free and stays unreferenced until it is linked
\* from the end of the chain.
AddIndexInv ==
  /\ pc = "iwalk" => OnIndex(ciprev)
  /\ pc = "iexpn" => OnIndex(ciprev) /\ indx_next[ciprev] = 0
  /\ pc \in {"copy", "link", "icopy", "ilink"} =>
       IF ciprev = 0 THEN cindx = SrcHash[crule]
       ELSE cindx \in ExpnUsable /\ OnIndex(ciprev) /\ ciprev # cindx /\ indx_next[ciprev] = 0
  /\ pc \in {"copy", "link", "icopy"} => tbl_entry[cindx] = 0
  /\ pc \in {"link", "icopy", "ilink"} /\ ciprev # 0 => indx_prev[cindx] = ciprev
  /\ pc \in {"link", "icopy"} => indx_tbl_entry[centry] = cindx
  /\ pc \in {"ilink", "enable"} => tbl_entry[cindx] = centry
  /\ pc = "ilink" => indx_next[cindx] = 0 /\ \A x \in Idx : indx_next[x] # cindx

\* What a deletion knows about the index table: before its commands, the entry
\* of its rule with its position and neighbours; between the two commands of a
\* head, the copy; after them, which entry is left over and what stood around
\* it.
DelIndexInv ==
  /\ pc \in Pending =>
        /\ tbl_entry[cindx] = centry /\ cipos = Position(cindx, indx_next[cindx])
        /\ cipos = "HEAD" => ciprev = indx_next[cindx]
        /\ cindx >= T => indx_next[ciprev] = cindx /\ indx_prev[cindx] = ciprev
  /\ pc \in {"del_index2", "del_index2_last"} =>
        /\ cipos = "HEAD" /\ cindx < T /\ ciprev = indx_next[cindx] /\ ciprev # 0
        /\ tbl_entry[cindx] = tbl_entry[ciprev]
  /\ pc \in {"del_base", "del_fix"} =>
        /\ cipos = "ONLY_ONE" => tbl_entry[cindx] = 0
        /\ cipos = "HEAD" => /\ cindx < T /\ ciprev \in ExpnUsable /\ tbl_entry[cindx] # 0
                             /\ indx_next[cindx] = indx_next[ciprev]
        /\ cipos \in {"MIDDLE", "LAST"} =>
              /\ cindx \in ExpnUsable /\ ciprev # cindx /\ (cipos = "LAST" <=> indx_next[cindx] = 0)
              /\ indx_next[ciprev] = indx_next[cindx] /\ indx_prev[cindx] = ciprev

\* The inductive invariant of the index table.
IndexInv == IndexShape /\ IndexEntries /\ IndexLinks /\ AddIndexInv /\ DelIndexInv

\* IndexShape in the next state.
LEMMA IndexShapeNow ==
  ASSUME Shape(indx_next', indx_prev', ICut') PROVE IndexShape'
BY Zenon DEF IndexShape, Shape, Acyclic, NoCycle, Back

\* A step that leaves the links leaves the shape.
LEMMA IndexShapeStays ==
  ASSUME IndexShape, indx_next' = indx_next, indx_prev' = indx_prev, ICut' = ICut
  PROVE  IndexShape'
BY Zenon, IndexShapeNow DEF IndexShape

\* The points of a call at which it owns no part of the index table.
Calm == {"idle", "walk", "expn", "index", "iwalk", "iexpn", "copy", "link", "icopy", "hdl"}

\* Between such points a step that writes neither table changes only what the
\* call itself knows.
LEMMA IndexCalm ==
  ASSUME IndexInv, UNCHANGED hwIndex, UNCHANGED <<enable, dead, rule, indx_tbl_entry>>,
         pc \in Calm, pc' \in Calm
  PROVE  IndexShape' /\ IndexEntries' /\ IndexLinks' /\ DelIndexInv'
<1>1. ICut = {} /\ ICut' = {} /\ ~Deleting /\ ~Deleting'
  BY Zenon DEF Calm, ICut, Deleting
<1>2. IndexShape'
  BY Zenon, <1>1, IndexShapeStays DEF IndexInv, hwIndex
<1>3. IndexEntries'
  BY <1>1 DEF IndexInv, IndexEntries, hwIndex, Calm
<1>4. IndexLinks'
  BY Zenon, <1>1 DEF IndexInv, IndexLinks, hwIndex, Calm
<1>5. DelIndexInv'
  BY Zenon DEF DelIndexInv, Pending, Calm
<1> QED BY Zenon, <1>2, <1>3, <1>4, <1>5

\* Steps that do not read the index table.
LEMMA IndexQuiet ==
  ASSUME HandleInv, IndexInv,
         (\E r \in Rules : AddRule(r)) \/ Walk \/ ExpnFreeEntry \/ MakeRuleHdl \/ LinkRule
  PROVE  IndexInv'
<1>1. /\ UNCHANGED hwIndex /\ UNCHANGED <<enable, dead, rule, indx_tbl_entry>>
      /\ pc \in {"idle", "walk", "expn", "hdl", "link"}
      /\ pc' \in {"idle", "walk", "expn", "index", "icopy"}
  BY Zenon DEF AddRule, Walk, ExpnFreeEntry, MakeRuleHdl, LinkRule, Return, hwRules
<1>2. IndexShape' /\ IndexEntries' /\ IndexLinks' /\ DelIndexInv'
  BY Zenon, <1>1, IndexCalm DEF Calm
<1>3. AddIndexInv'
  <2>1. CASE pc' = "icopy"
    <3>1. pc = "link" /\ UNCHANGED call
      BY Zenon, <2>1 DEF AddRule, Walk, ExpnFreeEntry, MakeRuleHdl, LinkRule, Return
    <3> QED BY Zenon, <3>1, <2>1, <1>1 DEF IndexInv, AddIndexInv, OnIndex, call, hwIndex
  <2>2. CASE pc' # "icopy"
    BY Zenon, <2>2, <1>1 DEF AddIndexInv
  <2> QED BY Zenon, <2>1, <2>2
<1> QED BY Zenon, <1>2, <1>3 DEF IndexInv

\* The search for an index entry stays on the rule's chain and ends at its
\* end, with a free entry.
LEMMA IndexFound ==
  ASSUME HandleInv, IndexInv, IndexRule \/ IndexWalk \/ IndexExpnFreeEntry PROVE IndexInv'
<1>1. /\ UNCHANGED hwIndex /\ UNCHANGED hwRules
      /\ pc \in {"index", "iwalk", "iexpn"} /\ pc' \in {"idle", "iwalk", "iexpn", "copy"}
      /\ pc' # "idle" => crule' = crule
  BY Zenon DEF IndexRule, IndexWalk, IndexExpnFreeEntry, Return, call
<1>2. IndexShape' /\ IndexEntries' /\ IndexLinks' /\ DelIndexInv'
  BY Zenon, <1>1, IndexCalm DEF Calm, hwRules
<1>3. /\ TypeOK /\ ICut = {} /\ crule \in Rules
  BY Zenon, <1>1 DEF HandleInv, ICut, CallInv, Deleting
<1>4. ASSUME NEW i \in Idx, OnIndex(i), indx_next[i] # 0 PROVE OnIndex(indx_next[i])
  BY Zenon, <1>3, <1>4 DEF IndexInv, IndexLinks, OnIndex
<1>5. OnIndex(0) => FALSE
  BY Zenon, IdxFacts DEF OnIndex, IndexInv, IndexEntries, Usable
<1>6. AddIndexInv'
  <2>1. CASE pc' = "idle"
    BY Zenon, <2>1 DEF AddIndexInv
  <2>2. CASE pc' # "idle" /\ IndexRule
    <3> DEFINE h == SrcHash[crule]
    <3>1. h \in Idx /\ h < T /\ h \in Usable
      BY Zenon, <1>3, HashAssumption, IdxFacts
    <3>2. CASE tbl_entry[h] = 0
      BY Zenon, <3>2, <2>2, <1>1 DEF IndexRule, AddIndexInv, hwIndex
    <3>3. CASE tbl_entry[h] # 0 /\ indx_next[h] = 0
      <4>1. OnIndex(h)
        BY Zenon, <3>1, <3>3, <1>3 DEF OnIndex, IndexInv, IndexEntries
      <4> QED BY <4>1, <3>3, <2>2, <1>1 DEF IndexRule, AddIndexInv, OnIndex, hwIndex, hwRules
    <3>4. CASE tbl_entry[h] # 0 /\ indx_next[h] # 0
      <4>1. OnIndex(h)
        BY Zenon, <3>1, <3>4, <1>3 DEF OnIndex, IndexInv, IndexEntries
      <4>2. OnIndex(indx_next[h])
        BY Zenon, <4>1, <3>1, <3>4, <1>4
      <4> QED BY Zenon, <4>2, <3>4, <2>2, <1>1 DEF IndexRule, AddIndexInv, OnIndex, hwIndex, hwRules
    <3> QED BY Zenon, <3>2, <3>3, <3>4
  <2>3. CASE pc' # "idle" /\ IndexWalk
    <3>1. OnIndex(ciprev) /\ ciprev \in Idx
      BY Zenon, <2>3, <1>3 DEF IndexWalk, IndexInv, AddIndexInv, TypeOK
    <3>2. CASE indx_next[ciprev] = 0
      <4>1. pc' = "iexpn" /\ ciprev' = ciprev
        BY Zenon, <3>2, <2>3 DEF IndexWalk, Return, call
      <4> QED BY Zenon, <4>1, <3>1, <3>2, <1>1, <2>3 DEF AddIndexInv, OnIndex, hwIndex, hwRules
    <3>3. CASE indx_next[ciprev] # 0
      <4>1. pc' = "iwalk" /\ ciprev' = indx_next[ciprev]
        BY Zenon, <3>3, <2>3, <1>1 DEF IndexWalk, Return
      <4>2. OnIndex(indx_next[ciprev])
        BY Zenon, <3>1, <3>3, <1>4
      <4> QED BY Zenon, <4>1, <4>2, <1>1, <2>3 DEF AddIndexInv, OnIndex, hwIndex, hwRules
    <3> QED BY Zenon, <3>2, <3>3
  <2>4. CASE pc' # "idle" /\ IndexExpnFreeEntry
    <3> DEFINE free == {i \in ExpnUsable : tbl_entry[i] = 0}
    <3>1. /\ free # {} /\ MinOf(free) # ciprev /\ cindx' = MinOf(free) /\ pc' = "copy" /\ ciprev' = ciprev
          /\ pc = "iexpn"
      BY Zenon, <2>4 DEF IndexExpnFreeEntry, Return
    <3>2. free \in SUBSET Nat
      BY Zenon, IdxFacts
    <3>3. cindx' \in ExpnUsable /\ tbl_entry[cindx'] = 0
      BY Zenon, <3>1, <3>2, MinOfProps
    <3>4. OnIndex(ciprev) /\ indx_next[ciprev] = 0 /\ ciprev # 0
      BY Zenon, <3>1, <1>5 DEF IndexInv, AddIndexInv
    <3> HIDE DEF free
    <3> QED BY Zenon, <3>1, <3>3, <3>4, <1>1, <2>4 DEF AddIndexInv, OnIndex, hwIndex, hwRules
  <2> QED BY Zenon, <2>1, <2>2, <2>3, <2>4
<1> QED BY Zenon, <1>2, <1>6 DEF IndexInv

\* The new rule is written: no index entry points to it yet.
LEMMA IndexCopied ==
  ASSUME HandleInv, IndexInv, CopyRule PROVE IndexInv'
<1>1. /\ TypeOK /\ pc = "copy" /\ pc' = "link" /\ UNCHANGED call /\ UNCHANGED <<tbl_entry, indx_next>>
      /\ centry \in Usable /\ ~enable[centry] /\ crule \in Rules
  BY Zenon DEF CopyRule, HandleInv, CallInv, Deleting
<1>2. ICut = {} /\ ICut' = {} /\ ~Deleting /\ ~Deleting' /\ cindx \in Idx /\ ciprev \in Idx /\ centry \in Idx
  BY Zenon, <1>1, IdxFacts DEF ICut, Deleting, TypeOK
<1>3. \A i \in Idx : tbl_entry[i] # 0 => tbl_entry[i] # centry /\ tbl_entry[i] \in Idx
  BY <1>1, <1>2 DEF IndexInv, IndexEntries, TypeOK
<1>4. /\ \A e \in Idx : e # centry => /\ enable'[e] = enable[e] /\ dead'[e] = dead[e] /\ rule'[e] = rule[e]
                                      /\ indx_tbl_entry'[e] = indx_tbl_entry[e]
      /\ \A e \in Idx : enable'[e] => enable[e] /\ e # centry
      /\ rule'[centry] = crule /\ indx_tbl_entry'[centry] = cindx
  BY Zenon, <1>1, <1>2 DEF CopyRule, TypeOK
<1>5. \A x \in Idx : indx_next[x] # 0 => tbl_entry[x] # 0 /\ tbl_entry[indx_next[x]] # 0 /\ indx_next[x] \in Idx
  BY <1>1, <1>2 DEF IndexInv, IndexEntries, IndexLinks, TypeOK
<1>6. tbl_entry[cindx] = 0 /\ (ciprev # 0 => cindx \in ExpnUsable)
  BY Zenon, <1>1 DEF IndexInv, AddIndexInv
<1>7. IndexShape'
  <2>1. Shape(indx_next, indx_prev, {}) /\ indx_next \in [Idx -> Idx] /\ indx_prev \in [Idx -> Idx]
    BY Zenon, <1>1, <1>2 DEF IndexInv, IndexShape, TypeOK
  <2>2. CASE cindx >= T
    <3>1. indx_prev' = [indx_prev EXCEPT ![cindx] = ciprev]
      BY Zenon, <2>2 DEF CopyRule
    <3>2. \A x \in Idx : indx_next[x] # cindx
      <4>1. cindx # 0
        BY <2>2, SizesAssumption
      <4> QED BY Zenon, <4>1, <1>5, <1>6
    <3>3. Shape(indx_next, indx_prev', {})
      BY ZenonT(30), <2>1, <3>1, <3>2, <1>2, ShapeBack
    <3> QED BY Zenon, <3>3, <1>1, <1>2, IndexShapeNow
  <2>3. CASE ~(cindx >= T)
    <3>1. indx_prev' = indx_prev
      BY Zenon, <2>3 DEF CopyRule
    <3> QED BY Zenon, <3>1, <1>1, <1>2, IndexShapeStays DEF IndexInv
  <2> QED BY Zenon, <2>2, <2>3
<1>8. IndexEntries'
  BY <1>1, <1>2, <1>3, <1>4 DEF IndexInv, IndexEntries
<1>9. IndexLinks'
  <2>1. ASSUME NEW x \in Idx, indx_next[x] # 0
        PROVE  /\ tbl_entry[indx_next[x]] # 0
               /\ SrcHash[rule'[tbl_entry[indx_next[x]]]] = SrcHash[rule'[tbl_entry[x]]]
    <3>1. /\ rule'[tbl_entry[indx_next[x]]] = rule[tbl_entry[indx_next[x]]]
          /\ rule'[tbl_entry[x]] = rule[tbl_entry[x]]
      BY Zenon, <2>1, <1>3, <1>4, <1>5
    <3> QED BY Zenon, <2>1, <3>1, <1>2 DEF IndexInv, IndexLinks
  <2>2. \A i \in Idx : tbl_entry[i] # 0 /\ i >= T => \E x \in Idx : indx_next[x] = i
    BY Zenon, <1>1, <1>2 DEF IndexInv, IndexLinks
  <2>3. \A e \in Idx : enable'[e] /\ ~dead'[e] => \E i \in Idx : tbl_entry[i] = e
    BY <1>2, <1>4 DEF IndexInv, IndexLinks
  <2> QED BY Zenon, <2>1, <2>2, <2>3, <1>1, <1>2 DEF IndexLinks
<1>10. AddIndexInv'
  <2>1. ciprev # 0 => OnIndex(ciprev) /\ ciprev # cindx /\ indx_next[ciprev] = 0
    BY Zenon, <1>1 DEF IndexInv, AddIndexInv
  <2>2. ciprev # 0 => rule'[tbl_entry[ciprev]] = rule[tbl_entry[ciprev]]
    BY Zenon, <2>1, <1>2, <1>3, <1>4 DEF OnIndex
  <2>3. ciprev = 0 => cindx = SrcHash[crule]
    BY Zenon, <1>1 DEF IndexInv, AddIndexInv
  <2>4. ciprev # 0 => indx_prev'[cindx] = ciprev
    BY Zenon, <1>1, <1>2, <1>6, IdxFacts DEF CopyRule, TypeOK
  <2> QED BY Zenon, <2>1, <2>2, <2>3, <2>4, <1>1, <1>4, <1>6 DEF AddIndexInv, OnIndex, call
<1>11. DelIndexInv'
  BY Zenon, <1>1 DEF DelIndexInv, Pending
<1> QED BY Zenon, <1>7, <1>8, <1>9, <1>10, <1>11 DEF IndexInv

\* The new index entry is written: nothing links to it yet.
LEMMA IndexWritten ==
  ASSUME HandleInv, IndexInv, CopyIndexRule PROVE IndexInv'
<1>1. /\ TypeOK /\ pc = "icopy" /\ pc' = "ilink" /\ UNCHANGED call /\ UNCHANGED hwRules /\ UNCHANGED indx_prev
      /\ centry \in Usable /\ rule[centry] = crule /\ crule \in Rules
  BY Zenon DEF CopyIndexRule, HandleInv, CallInv, Deleting
<1>2. /\ ICut = {} /\ ICut' = {} /\ ~Deleting /\ ~Deleting' /\ cindx \in Idx /\ ciprev \in Idx /\ centry \in Idx
      /\ centry # 0
  BY Zenon, <1>1, IdxFacts DEF ICut, Deleting, TypeOK, Usable
<1>3. tbl_entry[cindx] = 0 /\ indx_next[cindx] = 0 /\ indx_tbl_entry[centry] = cindx
      /\ IF ciprev = 0 THEN cindx = SrcHash[crule]
         ELSE cindx \in ExpnUsable /\ OnIndex(ciprev) /\ ciprev # cindx /\ indx_next[ciprev] = 0
  BY Zenon, <1>1, <1>2 DEF IndexInv, AddIndexInv, IndexEntries
<1>4. cindx \in Usable /\ cindx # 0 /\ (cindx < T => SrcHash[crule] = cindx)
  BY Zenon, <1>1, <1>3, HashAssumption, IdxFacts
<1>5. indx_next' = indx_next /\ \A i \in Idx : tbl_entry'[i] = IF i = cindx THEN centry ELSE tbl_entry[i]
  BY Zenon, <1>1, <1>2, <1>3 DEF CopyIndexRule, TypeOK
<1>6. \A x \in Idx : indx_next[x] # cindx
  BY <1>2, <1>3, <1>4 DEF IndexInv, IndexLinks
<1>7. IndexShape'
  BY Zenon, <1>1, <1>2, <1>5, IndexShapeStays DEF IndexInv
<1>8. IndexEntries'
  BY <1>1, <1>2, <1>3, <1>4, <1>5 DEF IndexInv, IndexEntries, hwRules, call
<1>9. IndexLinks'
  <2>1. ASSUME NEW x \in Idx, indx_next[x] # 0
        PROVE  /\ tbl_entry'[indx_next[x]] # 0
               /\ SrcHash[rule[tbl_entry'[indx_next[x]]]] = SrcHash[rule[tbl_entry'[x]]]
    <3>1. x # cindx /\ indx_next[x] \in Idx \ {cindx}
      BY Zenon, <2>1, <1>1, <1>3, <1>6 DEF TypeOK
    <3> QED BY Zenon, <2>1, <3>1, <1>2, <1>5 DEF IndexInv, IndexLinks
  <2>2. \A i \in Idx : tbl_entry'[i] # 0 /\ i >= T => i = cindx \/ \E x \in Idx : indx_next[x] = i
    BY Zenon, <1>1, <1>2, <1>5 DEF IndexInv, IndexLinks
  <2>3. ASSUME NEW e \in Idx, enable[e], ~dead[e] PROVE \E i \in Idx : tbl_entry'[i] = e
    <3>1. PICK i \in Idx : tbl_entry[i] = e
      BY Zenon, <2>3, <1>2 DEF IndexInv, IndexLinks
    <3>2. CASE e = 0
      <4>1. tbl_entry'[0] = 0
        BY Zenon, <1>2, <1>4, <1>5, IdxFacts DEF IndexInv, IndexEntries, Usable
      <4> QED BY Zenon, <4>1, <3>2, IdxFacts
    <3>3. CASE e # 0
      BY Zenon, <3>1, <3>3, <1>3, <1>5
    <3> QED BY Zenon, <3>2, <3>3
  <2> QED BY Zenon, <2>1, <2>2, <2>3, <1>1, <1>2, <1>5 DEF IndexLinks, hwRules, call
<1>10. AddIndexInv'
  <2>1. tbl_entry'[cindx] = centry /\ (ciprev # cindx => tbl_entry'[ciprev] = tbl_entry[ciprev])
    BY Zenon, <1>2, <1>5
  <2>2. ciprev # 0 => indx_prev[cindx] = ciprev
    BY Zenon, <1>1 DEF IndexInv, AddIndexInv
  <2> QED BY Zenon, <2>1, <2>2, <1>1, <1>3, <1>5, <1>6 DEF AddIndexInv, OnIndex, hwRules, call
<1>11. DelIndexInv'
  BY Zenon, <1>1 DEF DelIndexInv, Pending
<1> QED BY Zenon, <1>7, <1>8, <1>9, <1>10, <1>11 DEF IndexInv

\* The new index entry is linked from the end of its chain.
LEMMA IndexLinked ==
  ASSUME DmaMayFail = FALSE, HandleInv, IndexInv, LinkIndexRule PROVE IndexInv'
<1>1. /\ TypeOK /\ pc = "ilink" /\ pc' = "enable" /\ UNCHANGED call /\ UNCHANGED hwRules
      /\ UNCHANGED <<tbl_entry, indx_prev>> /\ centry \in Usable /\ rule[centry] = crule /\ crule \in Rules
  BY Zenon DEF LinkIndexRule, HandleInv, CallInv, Deleting
<1>2. /\ ICut = {} /\ ICut' = {} /\ ~Deleting /\ ~Deleting' /\ cindx \in Idx /\ ciprev \in Idx /\ centry \in Idx
      /\ centry # 0
  BY Zenon, <1>1, IdxFacts DEF ICut, Deleting, TypeOK, Usable
<1>3. indx_next' = IF ciprev = 0 THEN indx_next ELSE [indx_next EXCEPT ![ciprev] = cindx]
  BY Zenon DEF LinkIndexRule
<1>4. /\ tbl_entry[cindx] = centry /\ indx_next[cindx] = 0 /\ \A x \in Idx : indx_next[x] # cindx
      /\ IF ciprev = 0 THEN cindx = SrcHash[crule]
         ELSE /\ cindx \in ExpnUsable /\ OnIndex(ciprev) /\ ciprev # cindx /\ indx_next[ciprev] = 0
              /\ indx_prev[cindx] = ciprev
  BY Zenon, <1>1, <1>2 DEF IndexInv, AddIndexInv
<1>5. \A x \in Idx : indx_next'[x] = IF x = ciprev /\ x # 0 THEN cindx ELSE indx_next[x]
  BY Zenon, <1>1, <1>2, <1>3 DEF TypeOK
<1>6. IndexShape'
  <2>1. CASE ciprev = 0
    BY Zenon, <2>1, <1>1, <1>2, <1>3, IndexShapeStays DEF IndexInv
  <2>2. CASE ciprev # 0
    <3>1. Shape(indx_next, indx_prev, {}) /\ indx_next \in [Idx -> Idx] /\ indx_prev \in [Idx -> Idx]
      BY Zenon, <1>1, <1>2 DEF IndexInv, IndexShape, TypeOK
    <3>2. Shape(indx_next', indx_prev, {})
      BY ZenonT(30), <2>2, <3>1, <1>2, <1>3, <1>4, ShapeAppend
    <3> QED BY Zenon, <3>2, <1>1, <1>2, IndexShapeNow
  <2> QED BY Zenon, <2>1, <2>2
<1>7. IndexEntries'
  <2>1. \A i \in Idx : tbl_entry[i] = 0 => indx_next'[i] = 0
    BY Zenon, <1>4, <1>5 DEF IndexInv, IndexEntries, OnIndex
  <2> QED BY Zenon, <2>1, <1>1, <1>2 DEF IndexInv, IndexEntries, hwRules, call
<1>8. IndexLinks'
  <2>1. ASSUME NEW x \in Idx, indx_next'[x] # 0
        PROVE  /\ tbl_entry[indx_next'[x]] # 0
               /\ SrcHash[rule[tbl_entry[indx_next'[x]]]] = SrcHash[rule[tbl_entry[x]]]
    <3>1. CASE x = ciprev /\ x # 0
      BY Zenon, <3>1, <1>1, <1>2, <1>4, <1>5 DEF OnIndex
    <3>2. CASE ~(x = ciprev /\ x # 0)
      BY <3>2, <2>1, <1>2, <1>5 DEF IndexInv, IndexLinks
    <3> QED BY Zenon, <3>1, <3>2
  <2>2. ASSUME NEW i \in Idx, tbl_entry[i] # 0, i >= T PROVE \E x \in Idx : indx_next'[x] = i
    <3>1. CASE i = cindx
      <4>1. ciprev # 0
        BY Zenon, <3>1, <2>2, <1>1, <1>4, HashAssumption, IdxFacts
      <4> QED BY Zenon, <4>1, <3>1, <1>2, <1>5
    <3>2. CASE i # cindx
      <4>1. PICK x \in Idx : indx_next[x] = i
        BY Zenon, <3>2, <2>2, <1>2 DEF IndexInv, IndexLinks
      <4>2. i # 0
        BY <2>2, SizesAssumption
      <4> QED BY Zenon, <4>1, <4>2, <1>4, <1>5
    <3> QED BY Zenon, <3>1, <3>2
  <2>3. \A e \in Idx : enable[e] /\ ~dead[e] => \E i \in Idx : tbl_entry[i] = e
    BY Zenon, <1>2 DEF IndexInv, IndexLinks
  <2> QED BY Zenon, <2>1, <2>2, <2>3, <1>1, <1>2 DEF IndexLinks, hwRules
<1>9. AddIndexInv' /\ DelIndexInv'
  BY Zenon, <1>1, <1>4 DEF AddIndexInv, DelIndexInv, Pending, call
<1> QED BY Zenon, <1>6, <1>7, <1>8, <1>9 DEF IndexInv

\* The new rule is enabled: its index entry is in place.
LEMMA IndexEnabled ==
  ASSUME DmaMayFail = FALSE, HandleInv, IndexInv, PostDmaCmd PROVE IndexInv'
<1>1. /\ TypeOK /\ pc = "enable" /\ pc' = "hdl" /\ UNCHANGED call /\ UNCHANGED hwIndex
      /\ UNCHANGED <<dead, rule, indx_tbl_entry>> /\ centry \in Idx /\ ~dead[centry] /\ cindx \in Idx
      /\ enable' = [enable EXCEPT ![centry] = TRUE]
  BY Zenon DEF PostDmaCmd, HandleInv, CallInv, TypeOK
<1>2. /\ ICut = {} /\ ICut' = {} /\ ~Deleting /\ ~Deleting' /\ tbl_entry[cindx] = centry
  BY Zenon, <1>1 DEF ICut, Deleting, IndexInv, AddIndexInv
<1>3. \A e \in Idx : enable'[e] = IF e = centry THEN TRUE ELSE enable[e]
  BY Zenon, <1>1 DEF TypeOK
<1>4. IndexShape'
  BY Zenon, <1>1, <1>2, IndexShapeStays DEF IndexInv, hwIndex
<1>5. IndexEntries'
  BY <1>1, <1>2, <1>3 DEF IndexInv, IndexEntries, hwIndex, call, TypeOK
<1>6. IndexLinks'
  BY <1>1, <1>2, <1>3 DEF IndexInv, IndexLinks, hwIndex
<1>7. AddIndexInv' /\ DelIndexInv'
  BY Zenon, <1>1 DEF AddIndexInv, DelIndexInv, Pending
<1> QED BY Zenon, <1>4, <1>5, <1>6, <1>7 DEF IndexInv

\* A deletion starts: the index entry its rule names is the one that points to
\* it, and the back link names the predecessor.
LEMMA IndexDelStart ==
  ASSUME HandleInv, RuleInv, IndexInv, NEW h \in Handles, DelRule(h) PROVE IndexInv'
<1> DEFINE e == EntryOfHandle(h)
           i == indx_tbl_entry[e]
<1>1. /\ TypeOK /\ pc = "idle" /\ pc' \in {"del_index", "del_base_first"} /\ UNCHANGED hwRules /\ UNCHANGED hwIndex
      /\ Parses(h) /\ enable[e] /\ centry' = e /\ cindx' = i /\ cipos' = Position(i, indx_next[i])
      /\ ciprev' = IF Position(i, indx_next[i]) = "HEAD" THEN indx_next[i] ELSE indx_prev[i]
  BY Zenon DEF DelRule, HandleInv
<1>2. ICut = {} /\ ICut' = {} /\ ~Deleting
  BY Zenon, <1>1 DEF ICut, Deleting
<1>3. Used(h)
  BY <1>1 DEF Parses, Used, IdEntry, HandleInv, TypeOK
<1>4. e \in Usable /\ ~dead[e] /\ e \in Idx /\ e # 0
  <2>1. h \in LiveHandles
    BY Zenon, <1>2, <1>3 DEF LiveHandles, Used
  <2> QED BY Zenon, <2>1, <1>3, EntryOfUsed, IdxFacts DEF HandleInv, RulesInv, Usable
<1> HIDE DEF e
<1>5. \A j \in Idx : tbl_entry[j] # 0 => indx_tbl_entry[tbl_entry[j]] = j
  BY Zenon, <1>1, <1>2 DEF IndexInv, IndexEntries
<1>6. tbl_entry[i] = e /\ i \in Idx /\ i # 0
  <2>1. PICK j \in Idx : tbl_entry[j] = e
    BY Zenon, <1>1, <1>2, <1>4 DEF IndexInv, IndexLinks
  <2>2. i = j
    BY Zenon, <2>1, <1>4, <1>5
  <2> QED BY Zenon, <2>1, <2>2, <1>4 DEF IndexInv, IndexEntries, Usable
<1>7. \A j \in Idx : tbl_entry[j] = e => j = i
  BY Zenon, <1>4, <1>5
<1>8. i >= T => indx_next[indx_prev[i]] = i
  <2>1. SUFFICES ASSUME i >= T PROVE indx_next[indx_prev[i]] = i
    BY Zenon
  <2>2. PICK x \in Idx : indx_next[x] = i
    BY <2>1, <1>1, <1>2, <1>4, <1>6 DEF IndexInv, IndexLinks
  <2>3. indx_prev[i] = x
    BY Zenon, <2>2, <1>2, <1>6 DEF IndexInv, IndexShape, Shape
  <2> QED BY Zenon, <2>2, <2>3
<1> HIDE DEF i
<1>9. IndexShape'
  BY Zenon, <1>1, <1>2, IndexShapeStays DEF IndexInv, hwIndex
<1>10. IndexEntries'
  BY Zenon, <1>1, <1>2, <1>7 DEF IndexInv, IndexEntries, hwIndex, hwRules, Pending
<1>11. IndexLinks'
  BY Zenon, <1>1, <1>2 DEF IndexInv, IndexLinks, hwIndex, hwRules
<1>12. AddIndexInv'
  BY Zenon, <1>1 DEF AddIndexInv
<1>13. DelIndexInv'
  <2>1. i >= T => Position(i, indx_next[i]) # "HEAD"
    BY Zenon DEF Position
  <2> QED BY Zenon, <2>1, <1>1, <1>6, <1>8 DEF DelIndexInv, Pending, hwIndex
<1> QED BY Zenon, <1>9, <1>10, <1>11, <1>12, <1>13 DEF IndexInv

\* The index command for an only entry: it is cleared.
LEMMA IndexOnlyCleared ==
  ASSUME HandleInv, RuleInv, IndexInv, DelIndexDma, cipos = "ONLY_ONE" PROVE IndexInv'
<1>1. /\ TypeOK /\ pc \in {"del_index", "del_index_last"} /\ pc' \in {"del_base", "del_fix"} /\ UNCHANGED call
      /\ UNCHANGED hwRules /\ UNCHANGED <<indx_next, indx_prev>> /\ cindx \in Idx /\ centry \in Idx
      /\ tbl_entry' = [tbl_entry EXCEPT ![cindx] = 0]
  BY Zenon DEF DelIndexDma, HandleInv, TypeOK
<1>2. ICut = {} /\ ICut' = {} /\ Deleting /\ Deleting' /\ pc \in Pending
  BY Zenon, <1>1 DEF ICut, Deleting, call, Pending
<1>3. tbl_entry[cindx] = centry /\ cindx < T /\ indx_next[cindx] = 0
  BY Zenon, <1>1, <1>2, IdxFacts DEF IndexInv, DelIndexInv, Position
<1>4. \A i \in Idx : tbl_entry'[i] = IF i = cindx THEN 0 ELSE tbl_entry[i]
  BY Zenon, <1>1 DEF TypeOK
<1>5. \A i \in Idx \ {cindx} : tbl_entry[i] # 0 => tbl_entry[i] # centry
  BY Zenon, <1>2 DEF IndexInv, IndexEntries
<1>6. \A x \in Idx : indx_next[x] # 0 => indx_next[x] \in Idx \ {cindx} /\ x # cindx
  BY <1>2, <1>3, IdxFacts DEF IndexInv, IndexShape, Shape
<1>7. IndexShape'
  BY Zenon, <1>1, <1>2, IndexShapeStays DEF IndexInv
<1>8. IndexEntries'
  BY SMTT(30), <1>1, <1>2, <1>3, <1>4, <1>5 DEF IndexInv, IndexEntries, hwRules, call, Pending
<1>9. IndexLinks'
  <2>1. \A x \in Idx : indx_next[x] # 0 =>
          /\ tbl_entry'[indx_next[x]] # 0
          /\ SrcHash[rule[tbl_entry'[indx_next[x]]]] = SrcHash[rule[tbl_entry'[x]]]
    BY Zenon, <1>2, <1>4, <1>6 DEF IndexInv, IndexLinks
  <2>2. \A i \in Idx : tbl_entry'[i] # 0 /\ i >= T => \E x \in Idx : indx_next[x] = i
    BY <1>1, <1>2, <1>4 DEF IndexInv, IndexLinks
  <2>3. \A e \in Idx : enable[e] /\ ~dead[e] /\ e # centry => \E i \in Idx : tbl_entry'[i] = e
    BY <1>2, <1>3, <1>4 DEF IndexInv, IndexLinks
  <2> QED BY SMTT(30), <2>1, <2>2, <2>3, <1>1, <1>2 DEF IndexLinks, hwRules, call
<1>10. AddIndexInv'
  BY Zenon, <1>1 DEF AddIndexInv
<1>11. DelIndexInv'
  BY Zenon, <1>1, <1>4 DEF DelIndexInv, Pending, call
<1> QED BY Zenon, <1>7, <1>8, <1>9, <1>10, <1>11 DEF IndexInv

\* The first index command for a head: its successor's rule is copied over it.
LEMMA IndexHeadOverwritten ==
  ASSUME HandleInv, RuleInv, IndexInv, DelIndexDma, cipos = "HEAD" PROVE IndexInv'
<1>1. /\ TypeOK /\ pc \in {"del_index", "del_index_last"} /\ pc' \in {"del_index2", "del_index2_last"}
      /\ UNCHANGED call /\ UNCHANGED hwRules /\ UNCHANGED <<indx_next, indx_prev>>
      /\ cindx \in Idx /\ centry \in Idx /\ ciprev \in Idx
      /\ tbl_entry' = [tbl_entry EXCEPT ![cindx] = tbl_entry[ciprev]]
  BY Zenon DEF DelIndexDma, HandleInv, TypeOK
<1>2. ICut = {} /\ ICut' = {} /\ Deleting /\ Deleting' /\ pc \in Pending
  BY Zenon, <1>1 DEF ICut, Deleting, call, Pending
<1>3. tbl_entry[cindx] = centry /\ cindx < T /\ indx_next[cindx] = ciprev /\ ciprev # 0
  BY Zenon, <1>1, <1>2, IdxFacts DEF IndexInv, DelIndexInv, Position
<1>4. ciprev \in ExpnUsable /\ ciprev # cindx
  BY <1>1, <1>2, <1>3, IdxFacts DEF IndexInv, IndexShape, Shape
<1>5. \A i \in Idx \ {cindx} : tbl_entry[i] # 0 => tbl_entry[i] # centry
  BY Zenon, <1>2 DEF IndexInv, IndexEntries
<1>6. /\ tbl_entry[ciprev] # 0 /\ tbl_entry[ciprev] # centry /\ cindx \in Usable
      /\ SrcHash[rule[tbl_entry[ciprev]]] = SrcHash[rule[tbl_entry[cindx]]]
      /\ SrcHash[rule[tbl_entry[cindx]]] = cindx
  <2>1. centry # 0
    BY Zenon, <1>1, <1>2, IdxFacts, EntryOfUsed DEF HandleInv, CallInv, Usable
  <2> QED BY Zenon, <2>1, <1>1, <1>2, <1>3, <1>4, <1>5 DEF IndexInv, IndexEntries, IndexLinks
<1>7. \A i \in Idx : tbl_entry'[i] = IF i = cindx THEN tbl_entry[ciprev] ELSE tbl_entry[i]
  BY Zenon, <1>1 DEF TypeOK
<1>8. \A x \in Idx : indx_next[x] # 0 => indx_next[x] \in Idx \ {cindx}
  BY <1>2, <1>3, IdxFacts DEF IndexInv, IndexShape, Shape
<1>9. IndexShape'
  BY Zenon, <1>1, <1>2, IndexShapeStays DEF IndexInv
<1>10. IndexEntries'
  <2>1. /\ rule[tbl_entry[ciprev]] \in Rules /\ enable[tbl_entry[ciprev]] /\ ~dead[tbl_entry[ciprev]]
        /\ indx_tbl_entry[tbl_entry[ciprev]] = ciprev
    BY Zenon, <1>1, <1>2, <1>4, <1>6 DEF IndexInv, IndexEntries
  <2>2. \A i \in Idx \ {cindx} : tbl_entry[i] # 0 =>
          /\ rule[tbl_entry[i]] \in Rules /\ (i < T => SrcHash[rule[tbl_entry[i]]] = i)
          /\ enable[tbl_entry[i]] /\ ~dead[tbl_entry[i]]
          /\ indx_tbl_entry[tbl_entry[i]] = i /\ tbl_entry[i] # centry
    BY Zenon, <1>1, <1>2, <1>5 DEF IndexInv, IndexEntries
  <2>3. \A i \in Idx : (tbl_entry'[i] = 0 => indx_next[i] = 0) /\ (tbl_entry'[i] # 0 => i \in Usable)
    BY Zenon, <1>6, <1>7 DEF IndexInv, IndexEntries
  <2> QED BY <2>1, <2>2, <2>3, <1>1, <1>2, <1>6, <1>7 DEF IndexEntries, hwRules, call
<1>11. IndexLinks'
  <2>1. ASSUME NEW x \in Idx, indx_next[x] # 0
        PROVE  /\ tbl_entry'[indx_next[x]] # 0
               /\ SrcHash[rule[tbl_entry'[indx_next[x]]]] = SrcHash[rule[tbl_entry'[x]]]
    BY <2>1, <1>2, <1>3, <1>6, <1>7, <1>8 DEF IndexInv, IndexLinks
  <2>2. \A i \in Idx : tbl_entry'[i] # 0 /\ i >= T => \E x \in Idx : indx_next[x] = i
    BY <1>1, <1>2, <1>3, <1>7, IdxFacts DEF IndexInv, IndexLinks
  <2>3. \A e \in Idx : enable[e] /\ ~dead[e] /\ e # centry => \E i \in Idx : tbl_entry'[i] = e
    BY <1>2, <1>3, <1>7 DEF IndexInv, IndexLinks
  <2> QED BY <2>1, <2>2, <2>3, <1>1, <1>2 DEF IndexLinks, hwRules, call
<1>12. AddIndexInv'
  BY Zenon, <1>1 DEF AddIndexInv
<1>13. DelIndexInv'
  BY Zenon, <1>1, <1>3, <1>4, <1>7 DEF DelIndexInv, Pending, call
<1> QED BY Zenon, <1>9, <1>10, <1>11, <1>12, <1>13 DEF IndexInv

\* An index entry c is cut off from behind p: no live rule loses its entry,
\* because c's is the one being deleted or a copy of p's.
LEMMA IndexCutOff ==
  ASSUME HandleInv, IndexInv, ICut = {}, UNCHANGED hwRules, UNCHANGED call,
         UNCHANGED <<tbl_entry, indx_prev>>, NEW p \in Idx, NEW c \in Idx \ {0}, indx_next[p] = c,
         indx_next' = [indx_next EXCEPT ![p] = indx_next[c]], ICut' = {c},
         Deleting, Deleting', pc' \in {"del_base", "del_fix"}, pc \notin {"ilink", "enable"},
         \A i \in Idx \ {c} : tbl_entry[i] # 0 =>
            /\ tbl_entry[i] # centry
            /\ \/ indx_tbl_entry[tbl_entry[i]] = i
               \/ cipos = "HEAD" /\ i = cindx /\ indx_tbl_entry[tbl_entry[i]] = ciprev,
         tbl_entry[c] \in {centry, tbl_entry[p]}
  PROVE  /\ IndexShape' /\ IndexEntries' /\ IndexLinks'
         /\ p # c /\ indx_next'[p] = indx_next'[c] /\ c \in ExpnUsable
<1>1. TypeOK /\ indx_next \in [Idx -> Idx] /\ indx_prev \in [Idx -> Idx] /\ Shape(indx_next, indx_prev, {})
  BY Zenon DEF HandleInv, TypeOK, IndexInv, IndexShape
<1>2. Shape(indx_next', indx_prev, {c}) /\ p # c /\ indx_next'[p] = indx_next'[c]
  BY ZenonT(30), <1>1, ShapeUnlink
<1>3. c \in ExpnUsable /\ tbl_entry[p] # 0 /\ tbl_entry[c] # 0 /\ c # 0
  BY Zenon, <1>1 DEF Shape, IndexInv, IndexEntries, IndexLinks
<1>4. indx_next'[p] = indx_next[c] /\ \A x \in Idx : x # p => indx_next'[x] = indx_next[x]
  BY Zenon, <1>1
<1>5. IndexShape'
  BY Zenon, <1>2, IndexShapeNow
<1>6. IndexEntries'
  <2>1. \A i \in Idx : (tbl_entry[i] = 0 => indx_next'[i] = 0) /\ (tbl_entry[i] # 0 => i \in Usable)
    BY Zenon, <1>3, <1>4 DEF IndexInv, IndexEntries
  <2>2. \A i \in Idx \ {c} : tbl_entry[i] # 0 =>
          /\ rule[tbl_entry[i]] \in Rules /\ (i < T => SrcHash[rule[tbl_entry[i]]] = i)
          /\ enable[tbl_entry[i]] /\ ~dead[tbl_entry[i]]
    BY Zenon DEF IndexInv, IndexEntries
  <2> QED BY Zenon, <2>1, <2>2 DEF IndexEntries, hwRules, call
<1>7. IndexLinks'
  <2>1. ASSUME NEW x \in Idx \ {c}, indx_next'[x] # 0
        PROVE  /\ tbl_entry[indx_next'[x]] # 0
               /\ SrcHash[rule[tbl_entry[indx_next'[x]]]] = SrcHash[rule[tbl_entry[x]]]
    <3>1. CASE x = p
      <4>1. SrcHash[rule[tbl_entry[c]]] = SrcHash[rule[tbl_entry[p]]]
        BY Zenon DEF IndexInv, IndexLinks
      <4>2. tbl_entry[indx_next[c]] # 0 /\ SrcHash[rule[tbl_entry[indx_next[c]]]] = SrcHash[rule[tbl_entry[c]]]
        BY Zenon, <2>1, <3>1, <1>4 DEF IndexInv, IndexLinks
      <4> QED BY <4>1, <4>2, <3>1, <1>4
    <3>2. CASE x # p
      BY <2>1, <3>2, <1>4 DEF IndexInv, IndexLinks
    <3> QED BY ZenonT(30), <3>1, <3>2
  <2>2. ASSUME NEW i \in Idx \ {c}, tbl_entry[i] # 0, i >= T
        PROVE  \E x \in Idx \ {c} : indx_next'[x] = i
    <3>1. PICK x \in Idx : indx_next[x] = i
      BY Zenon, <2>2 DEF IndexInv, IndexLinks
    <3>2. CASE x = c
      BY Zenon, <3>1, <3>2, <1>2, <1>4
    <3>3. CASE x # c
      BY Zenon, <3>1, <3>3, <1>4
    <3> QED BY Zenon, <3>2, <3>3
  <2>3. ASSUME NEW e \in Idx, enable[e], ~dead[e], e # centry
        PROVE  \E i \in Idx \ {c} : tbl_entry[i] = e
    <3>1. PICK i \in Idx : tbl_entry[i] = e
      BY Zenon, <2>3 DEF IndexInv, IndexLinks
    <3>2. CASE i = c
      BY Zenon, <3>1, <3>2, <2>3, <1>2
    <3>3. CASE i # c
      BY Zenon, <3>1, <3>3
    <3> QED BY Zenon, <3>2, <3>3
  <2>4. rule' = rule /\ enable' = enable /\ dead' = dead /\ centry' = centry /\ tbl_entry' = tbl_entry
    BY Zenon DEF hwRules, call
  <2>5. \A x \in Idx \ ICut' : indx_next'[x] # 0 =>
          /\ tbl_entry'[indx_next'[x]] # 0
          /\ SrcHash[rule'[tbl_entry'[indx_next'[x]]]] = SrcHash[rule'[tbl_entry'[x]]]
    BY ZenonT(30), <2>1, <2>4
  <2>6. \A i \in Idx \ ICut' : tbl_entry'[i] # 0 /\ i >= T => \E x \in Idx \ ICut' : indx_next'[x] = i
    BY Zenon, <2>2, <2>4
  <2>7. \A e \in Idx : enable'[e] /\ ~dead'[e] /\ ~(Deleting' /\ e = centry') => \E i \in Idx \ ICut' : tbl_entry'[i] = e
    BY <2>3, <2>4
  <2> QED BY ZenonT(30), <2>5, <2>6, <2>7 DEF IndexLinks
<1> QED BY Zenon, <1>2, <1>3, <1>5, <1>6, <1>7

\* The index command for any other entry: it is cut off from its predecessor.
LEMMA IndexUnlinked ==
  ASSUME HandleInv, RuleInv, IndexInv, DelIndexDma, cipos \in {"MIDDLE", "LAST"} PROVE IndexInv'
<1>1. /\ TypeOK /\ pc \in {"del_index", "del_index_last"} /\ pc' \in {"del_base", "del_fix"}
      /\ UNCHANGED call /\ UNCHANGED hwRules /\ UNCHANGED <<tbl_entry, indx_prev>>
      /\ cindx \in Idx /\ centry \in Idx /\ ciprev \in Idx
  BY Zenon DEF DelIndexDma, HandleInv, TypeOK
<1>2. ICut = {} /\ ICut' = {cindx} /\ Deleting /\ Deleting' /\ pc \in Pending
  BY Zenon, <1>1 DEF ICut, Deleting, call, Pending
<1>3. /\ tbl_entry[cindx] = centry /\ cindx >= T /\ indx_next[ciprev] = cindx /\ indx_prev[cindx] = ciprev
      /\ cipos = "LAST" <=> indx_next[cindx] = 0
  BY Zenon, <1>1, <1>2 DEF IndexInv, DelIndexInv, Position
<1>4. indx_next' = [indx_next EXCEPT ![ciprev] = indx_next[cindx]]
  BY Zenon, <1>3 DEF DelIndexDma
<1>5. \A i \in Idx \ {cindx} : tbl_entry[i] # 0 => tbl_entry[i] # centry /\ indx_tbl_entry[tbl_entry[i]] = i
  BY Zenon, <1>1, <1>2 DEF IndexInv, IndexEntries
<1>6. cindx # 0
  BY <1>3, SizesAssumption
<1>7. /\ IndexShape' /\ IndexEntries' /\ IndexLinks'
      /\ ciprev # cindx /\ indx_next'[ciprev] = indx_next'[cindx] /\ cindx \in ExpnUsable
  <2>1. \A i \in Idx \ {cindx} : tbl_entry[i] # 0 =>
            /\ tbl_entry[i] # centry
            /\ \/ indx_tbl_entry[tbl_entry[i]] = i
               \/ cipos = "HEAD" /\ i = cindx /\ indx_tbl_entry[tbl_entry[i]] = ciprev
    BY Zenon, <1>5
  <2>2. cindx \in Idx \ {0} /\ tbl_entry[cindx] \in {centry, tbl_entry[ciprev]} /\ pc \notin {"ilink", "enable"}
    BY Zenon, <1>1, <1>3, <1>6
  <2> QED BY ZenonT(30), <1>1, <1>2, <1>3, <1>4, <2>1, <2>2, IndexCutOff
<1>8. indx_next'[cindx] = indx_next[cindx]
  BY Zenon, <1>1, <1>4, <1>7 DEF TypeOK
<1>9. DelIndexInv'
  BY Zenon, <1>1, <1>3, <1>7, <1>8 DEF DelIndexInv, Pending, call
<1>10. AddIndexInv'
  BY Zenon, <1>1 DEF AddIndexInv
<1> QED BY Zenon, <1>7, <1>9, <1>10 DEF IndexInv

\* The second index command for a head: its successor, copied before, is cut
\* off.
LEMMA IndexHeadNext ==
  ASSUME HandleInv, RuleInv, IndexInv, DelIndexHeadNext PROVE IndexInv'
<1>1. /\ TypeOK /\ pc \in {"del_index2", "del_index2_last"} /\ pc' \in {"del_base", "del_fix"}
      /\ UNCHANGED call /\ UNCHANGED hwRules /\ UNCHANGED <<tbl_entry, indx_prev>>
      /\ cindx \in Idx /\ centry \in Idx /\ ciprev \in Idx
      /\ indx_next' = [indx_next EXCEPT ![cindx] = indx_next[ciprev]]
  BY Zenon DEF DelIndexHeadNext, HandleInv, TypeOK
<1>2. /\ cipos = "HEAD" /\ cindx < T /\ indx_next[cindx] = ciprev /\ ciprev # 0
      /\ tbl_entry[cindx] = tbl_entry[ciprev]
  BY Zenon, <1>1 DEF IndexInv, DelIndexInv
<1>3. ICut = {} /\ ICut' = {ciprev} /\ Deleting /\ Deleting'
  BY Zenon, <1>1, <1>2 DEF ICut, Deleting, call
<1>4. \A i \in Idx : tbl_entry[i] # 0 =>
         /\ tbl_entry[i] # centry
         /\ indx_tbl_entry[tbl_entry[i]] = i \/ (i = cindx /\ indx_tbl_entry[tbl_entry[i]] = ciprev)
  BY Zenon, <1>1, <1>3 DEF IndexInv, IndexEntries, Pending
<1>5. /\ IndexShape' /\ IndexEntries' /\ IndexLinks'
      /\ cindx # ciprev /\ indx_next'[cindx] = indx_next'[ciprev] /\ ciprev \in ExpnUsable
  <2>1. \A i \in Idx \ {ciprev} : tbl_entry[i] # 0 =>
            /\ tbl_entry[i] # centry
            /\ \/ indx_tbl_entry[tbl_entry[i]] = i
               \/ cipos = "HEAD" /\ i = cindx /\ indx_tbl_entry[tbl_entry[i]] = ciprev
    BY Zenon, <1>2, <1>4
  <2>2. ciprev \in Idx \ {0} /\ tbl_entry[ciprev] \in {centry, tbl_entry[cindx]} /\ pc \notin {"ilink", "enable"}
    BY Zenon, <1>1, <1>2
  <2> QED BY ZenonT(30), <1>1, <1>2, <1>3, <2>1, <2>2, IndexCutOff
<1>6. tbl_entry[cindx] # 0
  BY Zenon, <1>1, <1>2 DEF IndexInv, IndexEntries
<1>7. DelIndexInv'
  BY Zenon, <1>1, <1>2, <1>5, <1>6 DEF DelIndexInv, Pending, call
<1>8. AddIndexInv'
  BY Zenon, <1>1 DEF AddIndexInv
<1> QED BY Zenon, <1>5, <1>7, <1>8 DEF IndexInv

\* The rule command of a deletion writes only the entry that is deleted.
LEMMA IndexBaseDma ==
  ASSUME HandleInv, RuleInv, IndexInv, DelBaseDma PROVE IndexInv'
<1>1. /\ TypeOK /\ UNCHANGED call /\ UNCHANGED hwIndex /\ UNCHANGED <<rule, indx_tbl_entry>> /\ centry \in Idx
      /\ \/ pc = "del_base" /\ pc' = "del_fix"
         \/ pc = "del_base_first" /\ pc' = "del_index_last"
  BY Zenon DEF DelBaseDma, HandleInv, TypeOK
<1>2. ICut' = ICut /\ Deleting /\ Deleting'
  BY Zenon, <1>1 DEF ICut, Deleting, call
<1>3. \A e \in Idx : e # centry => enable'[e] = enable[e] /\ dead'[e] = dead[e]
  BY Zenon, <1>1 DEF DelBaseDma, TypeOK
<1>4. IndexShape'
  BY Zenon, <1>1, <1>2, IndexShapeStays DEF IndexInv, hwIndex
<1>5. IndexEntries'
  <2>1. ASSUME NEW i \in Idx \ ICut, tbl_entry[i] # 0
        PROVE  /\ rule[tbl_entry[i]] \in Rules /\ (i < T => SrcHash[rule[tbl_entry[i]]] = i)
               /\ \/ enable'[tbl_entry[i]] /\ ~dead'[tbl_entry[i]]
                  \/ tbl_entry[i] = centry /\ pc' = "del_index_last"
               /\ tbl_entry[i] = centry => i = cindx /\ pc' \in Pending
               /\ \/ indx_tbl_entry[tbl_entry[i]] = i
                  \/ /\ pc' = "del_fix" /\ cipos = "HEAD"
                     /\ i = cindx /\ indx_tbl_entry[tbl_entry[i]] = ciprev
    <3>1. CASE tbl_entry[i] = centry
      BY Zenon, <2>1, <3>1, <1>1, <1>2 DEF IndexInv, IndexEntries, Pending
    <3>2. CASE tbl_entry[i] # centry
      <4>1. tbl_entry[i] \in Idx
        BY Zenon, <1>1 DEF TypeOK
      <4> QED BY Zenon, <2>1, <3>2, <4>1, <1>1, <1>2, <1>3 DEF IndexInv, IndexEntries
    <3> QED BY Zenon, <3>1, <3>2
  <2>2. \A i \in Idx : (tbl_entry[i] = 0 => indx_next[i] = 0) /\ (tbl_entry[i] # 0 => i \in Usable)
    BY Zenon DEF IndexInv, IndexEntries
  <2> QED BY Zenon, <2>1, <2>2, <1>1, <1>2 DEF IndexEntries, hwIndex, call
<1>6. IndexLinks'
  BY <1>1, <1>2, <1>3 DEF IndexInv, IndexLinks, hwIndex, call
<1>7. AddIndexInv'
  BY Zenon, <1>1 DEF AddIndexInv
<1>8. DelIndexInv'
  BY Zenon, <1>1 DEF IndexInv, DelIndexInv, Pending, hwIndex, call
<1> QED BY Zenon, <1>4, <1>5, <1>6, <1>7, <1>8 DEF IndexInv

\* The index entry cut off is zeroed, the back link behind it corrected, and
\* the rule that was moved to a head told its new entry.
LEMMA IndexFixed ==
  ASSUME HandleInv, RuleInv, IndexInv, DelFix PROVE IndexInv'
<1> DEFINE c == IF cipos = "HEAD" THEN ciprev ELSE cindx
           after == indx_next[c]
           pos == Position(centry, next_index[centry])
           zeroed == IF pos = "HEAD" THEN {} ELSE {centry}
           moved == IF cipos = "HEAD" THEN tbl_entry[cindx] ELSE 0
<1>1. /\ TypeOK /\ UNCHANGED call /\ pc = "del_fix" /\ pc' = "del_dead" /\ centry \in Idx /\ c \in Idx
      /\ cindx \in Idx /\ ciprev \in Idx /\ cipos \in {"ONLY_ONE", "HEAD", "MIDDLE", "LAST"}
      /\ indx_next \in [Idx -> Idx] /\ indx_prev \in [Idx -> Idx] /\ tbl_entry \in [Idx -> Idx] /\ after \in Idx
  BY Zenon DEF DelFix, HandleInv, TypeOK, CallInv, Deleting
<1>2. ICut = (IF cipos # "ONLY_ONE" THEN {c} ELSE {}) /\ ICut' = {} /\ Deleting /\ Deleting'
  BY Zenon, <1>1 DEF ICut, Deleting
<1>3. /\ ZeroRules(zeroed) /\ tbl_entry' = [tbl_entry EXCEPT ![c] = 0] /\ indx_next' = [indx_next EXCEPT ![c] = 0]
      /\ indx_tbl_entry' = [e \in Idx |-> IF cipos = "HEAD" /\ e = moved THEN cindx
                                          ELSE IF e \in zeroed THEN 0 ELSE indx_tbl_entry[e]]
  BY Zenon DEF DelFix
<1>4. indx_prev' = CASE cipos = "HEAD" /\ after >= T -> [indx_prev EXCEPT ![after] = cindx]
                     [] cipos = "MIDDLE" -> [indx_prev EXCEPT ![after] = indx_prev[cindx], ![cindx] = 0]
                     [] OTHER -> indx_prev
  BY Zenon DEF DelFix
<1>5. zeroed \subseteq {centry}
  BY Zenon
<1> HIDE DEF zeroed, pos
<1>6. \A e \in Idx \ {centry} : enable'[e] = enable[e] /\ dead'[e] = dead[e] /\ rule'[e] = rule[e]
  BY ZenonT(30), <1>3, <1>5 DEF ZeroRules
<1>7. \A e \in Idx \ {centry} : indx_tbl_entry'[e] = IF cipos = "HEAD" /\ e = tbl_entry[cindx] THEN cindx ELSE indx_tbl_entry[e]
  BY Zenon, <1>3, <1>5
<1>8. /\ \A i \in Idx : tbl_entry'[i] = IF i = c THEN 0 ELSE tbl_entry[i]
      /\ \A i \in Idx : indx_next'[i] = IF i = c THEN 0 ELSE indx_next[i]
      /\ indx_next' \in [Idx -> Idx] /\ tbl_entry' \in [Idx -> Idx]
  BY Zenon, <1>1, <1>3, IdxFacts
<1>9. cipos = "ONLY_ONE" => tbl_entry[c] = 0 /\ indx_next[c] = 0
  BY Zenon, <1>1 DEF IndexInv, DelIndexInv, IndexEntries
<1>10. /\ cipos = "HEAD" => /\ cindx < T /\ ciprev \in ExpnUsable /\ ciprev # cindx /\ tbl_entry[cindx] # 0
                            /\ indx_next[cindx] = indx_next[ciprev]
       /\ cipos \in {"MIDDLE", "LAST"} =>
             /\ cindx \in ExpnUsable /\ ciprev # cindx /\ (cipos = "LAST" <=> indx_next[cindx] = 0)
             /\ indx_next[ciprev] = indx_next[cindx] /\ indx_prev[cindx] = ciprev
  BY Zenon, <1>1, IdxFacts DEF IndexInv, DelIndexInv
<1>11. \A i \in Idx \ {c} : tbl_entry[i] # 0 =>
          /\ tbl_entry[i] \in Idx \ {centry}
          /\ rule[tbl_entry[i]] \in Rules /\ (i < T => SrcHash[rule[tbl_entry[i]]] = i)
          /\ enable[tbl_entry[i]] /\ ~dead[tbl_entry[i]]
          /\ \/ indx_tbl_entry[tbl_entry[i]] = i
             \/ cipos = "HEAD" /\ i = cindx /\ indx_tbl_entry[tbl_entry[i]] = ciprev
  BY Zenon, <1>1, <1>2 DEF IndexInv, IndexEntries, Pending
<1>12. \A x \in Idx \ {c} : indx_next[x] # 0 => indx_next[x] \in Idx \ {c}
  BY <1>1, <1>2, <1>9 DEF IndexInv, IndexShape, Shape, IndexLinks
<1>13. IndexShape'
  <2>1. CASE cipos = "ONLY_ONE"
    <3>1. indx_next' = indx_next /\ indx_prev' = indx_prev
      BY Zenon, <2>1, <1>1, <1>3, <1>4, <1>9
    <3> QED BY Zenon, <2>1, <3>1, <1>2, IndexShapeStays DEF IndexInv
  <2>2. CASE cipos # "ONLY_ONE"
    <3> DEFINE p == IF cipos = "HEAD" THEN cindx ELSE ciprev
    <3>1. Shape(indx_next, indx_prev, {c}) /\ p \in Idx \ {c} /\ indx_next[p] = indx_next[c]
      <4>1. Shape(indx_next, indx_prev, {c})
        BY Zenon, <2>2, <1>2 DEF IndexInv, IndexShape
      <4>2. CASE cipos = "HEAD"
        <5>1. p = cindx /\ c = ciprev
          BY Zenon, <4>2
        <5> HIDE DEF p, c
        <5> QED BY Zenon, <4>1, <4>2, <5>1, <1>1, <1>10
      <4>3. CASE cipos \in {"MIDDLE", "LAST"}
        <5>1. p = ciprev /\ c = cindx
          BY Zenon, <4>3
        <5> HIDE DEF p, c
        <5> QED BY Zenon, <4>1, <4>3, <5>1, <1>1, <1>10
      <4> QED BY Zenon, <4>2, <4>3, <2>2, <1>1
    <3>2. after = 0 \/ (after \in ExpnUsable /\ after # c)
      BY Zenon, <3>1 DEF Shape
    <3>3. /\ indx_prev' \in [Idx -> Idx]
          /\ \A y \in Idx \ {c} : y # 0 => indx_prev'[y] = IF y = indx_next[c] THEN p ELSE indx_prev[y]
      <4>1. CASE cipos = "HEAD" /\ after >= T
        BY Zenon, <4>1, <1>1, <1>4
      <4>2. CASE cipos = "HEAD" /\ ~(after >= T)
        <5>1. after = 0 /\ indx_prev' = indx_prev
          BY Zenon, <4>2, <3>2, <1>4, IdxFacts
        <5> QED BY Zenon, <5>1, <1>1
      <4>3. CASE cipos = "MIDDLE"
        <5>1. indx_prev' = [indx_prev EXCEPT ![after] = indx_prev[cindx], ![cindx] = 0]
          BY Zenon, <4>3, <1>4
        <5>2. c = cindx /\ p = ciprev /\ indx_prev[cindx] = ciprev
          BY Zenon, <4>3, <1>10
        <5> QED BY Zenon, <5>1, <5>2, <1>1, IdxFacts
      <4>4. CASE cipos = "LAST"
        <5>1. after = 0 /\ indx_prev' = indx_prev
          BY Zenon, <4>4, <1>4, <1>10
        <5> QED BY Zenon, <5>1, <1>1
      <4> QED BY Zenon, <4>1, <4>2, <4>3, <4>4, <2>2, <1>1
    <3> HIDE DEF p, c, after
    <3>4. Shape(indx_next', indx_prev', {})
      <4>1. /\ c \in Idx /\ indx_next \in [Idx -> Idx] /\ indx_prev \in [Idx -> Idx]
            /\ indx_next' \in [Idx -> Idx] /\ \A x \in Idx : indx_next'[x] = IF x = c THEN 0 ELSE indx_next[x]
        BY Zenon, <1>1, <1>8
      <4> QED BY SMTT(30), <4>1, <3>1, <3>3, ShapeZero
    <3> QED BY Zenon, <3>4, <1>2, IndexShapeNow
  <2> QED BY Zenon, <2>1, <2>2
<1>14. IndexEntries'
  <2>1. \A i \in Idx : (tbl_entry'[i] = 0 => indx_next'[i] = 0) /\ (tbl_entry'[i] # 0 => i \in Usable)
    BY Zenon, <1>8 DEF IndexInv, IndexEntries
  <2>2. ASSUME NEW i \in Idx, tbl_entry'[i] # 0
        PROVE  /\ rule'[tbl_entry'[i]] \in Rules /\ (i < T => SrcHash[rule'[tbl_entry'[i]]] = i)
               /\ enable'[tbl_entry'[i]] /\ ~dead'[tbl_entry'[i]]
               /\ tbl_entry'[i] # centry
               /\ indx_tbl_entry'[tbl_entry'[i]] = i
    <3>1. i \in Idx \ {c} /\ tbl_entry'[i] = tbl_entry[i] /\ tbl_entry[i] # 0
      BY Zenon, <2>2, <1>8
    <3>2. /\ tbl_entry[i] \in Idx \ {centry}
          /\ rule[tbl_entry[i]] \in Rules /\ (i < T => SrcHash[rule[tbl_entry[i]]] = i)
          /\ enable[tbl_entry[i]] /\ ~dead[tbl_entry[i]]
          /\ \/ indx_tbl_entry[tbl_entry[i]] = i
             \/ cipos = "HEAD" /\ i = cindx /\ indx_tbl_entry[tbl_entry[i]] = ciprev
      BY Zenon, <3>1, <1>11
    <3>3. indx_tbl_entry'[tbl_entry[i]] = i
      <4>1. CASE cipos = "HEAD" /\ tbl_entry[i] = tbl_entry[cindx]
        <5>1. cindx \in Idx \ {c}
          <6>1. c = ciprev /\ ciprev # cindx /\ cindx \in Idx
            BY Zenon, <4>1, <1>1, <1>10
          <6> HIDE DEF c
          <6> QED BY Zenon, <6>1
        <5>2. indx_tbl_entry[tbl_entry[cindx]] \in {cindx, ciprev} /\ i # ciprev
          BY Zenon, <5>1, <3>1, <4>1, <1>10, <1>11
        <5>3. i = cindx
          BY Zenon, <3>2, <4>1, <5>2
        <5> QED BY Zenon, <5>3, <3>2, <4>1, <1>7
      <4>2. CASE ~(cipos = "HEAD" /\ tbl_entry[i] = tbl_entry[cindx])
        BY Zenon, <4>2, <3>2, <1>7
      <4> QED BY Zenon, <4>1, <4>2
    <3> QED BY ZenonT(30), <3>1, <3>2, <3>3, <1>6
  <2> QED BY Zenon, <2>1, <2>2, <1>1, <1>2 DEF IndexEntries, call
<1>15. IndexLinks'
  <2>1. ASSUME NEW x \in Idx, indx_next'[x] # 0
        PROVE  /\ tbl_entry'[indx_next'[x]] # 0
               /\ SrcHash[rule'[tbl_entry'[indx_next'[x]]]] = SrcHash[rule'[tbl_entry'[x]]]
    <3>1. x \in Idx \ {c} /\ indx_next'[x] = indx_next[x] /\ indx_next[x] # 0 /\ tbl_entry'[x] = tbl_entry[x]
      BY Zenon, <2>1, <1>8
    <3>2. indx_next[x] \in Idx \ {c}
      BY Zenon, <3>1, <1>12
    <3>3. tbl_entry'[indx_next[x]] = tbl_entry[indx_next[x]]
      BY Zenon, <3>2, <1>8
    <3>4. /\ tbl_entry[indx_next[x]] # 0 /\ tbl_entry[x] # 0
          /\ SrcHash[rule[tbl_entry[indx_next[x]]]] = SrcHash[rule[tbl_entry[x]]]
      BY Zenon, <3>1, <1>2 DEF IndexInv, IndexLinks, IndexEntries
    <3>5. tbl_entry[indx_next[x]] \in Idx \ {centry} /\ tbl_entry[x] \in Idx \ {centry}
      BY ZenonT(30), <3>1, <3>2, <3>4, <1>11
    <3> HIDE DEF c
    <3> QED BY ZenonT(30), <3>1, <3>3, <3>4, <3>5, <1>6
  <2>2. ASSUME NEW i \in Idx, tbl_entry'[i] # 0, i >= T PROVE \E x \in Idx : indx_next'[x] = i
    <3>1. i \in Idx \ {c} /\ tbl_entry[i] # 0 /\ i # 0
      BY <2>2, <1>8, SizesAssumption
    <3>2. PICK x \in Idx \ ICut : indx_next[x] = i
      BY Zenon, <2>2, <3>1, <1>1, <1>2 DEF IndexInv, IndexLinks
    <3>3. x # c
      BY Zenon, <3>1, <3>2, <1>2, <1>9
    <3> QED BY Zenon, <3>2, <3>3, <1>8
  <2>3. ASSUME NEW e \in Idx, enable'[e], ~dead'[e], e # centry
        PROVE  \E i \in Idx : tbl_entry'[i] = e
    <3>1. enable[e] /\ ~dead[e]
      BY Zenon, <2>3, <1>6
    <3>2. PICK i \in Idx \ ICut : tbl_entry[i] = e
      BY Zenon, <2>3, <3>1 DEF IndexInv, IndexLinks
    <3>3. CASE i # c
      BY Zenon, <3>2, <3>3, <1>8
    <3>4. CASE i = c
      BY Zenon, <3>2, <3>4, <1>2, <1>8, <1>9
    <3> QED BY Zenon, <3>3, <3>4
  <2> HIDE DEF c
  <2> QED BY Zenon, <2>1, <2>2, <2>3, <1>1, <1>2 DEF IndexLinks, call
<1>16. AddIndexInv' /\ DelIndexInv'
  BY Zenon, <1>1 DEF AddIndexInv, DelIndexInv, Pending
<1> QED BY Zenon, <1>13, <1>14, <1>15, <1>16 DEF IndexInv

\* The dead heads that are zeroed are no rule of an index entry.
LEMMA IndexHeadsGone ==
  ASSUME HandleInv, RuleInv, IndexInv, DelDeadHeadNodes PROVE IndexInv'
<1> DEFINE gone == {e \in Base : dead[e] /\ next_index[e] = 0}
<1>1. TypeOK /\ pc = "del_dead" /\ pc' = "idle" /\ UNCHANGED hwIndex
      /\ (~enable[centry] \/ dead[centry])
  BY Zenon DEF DelDeadHeadNodes, HandleInv, CallInv, Return
<1>2. ICut = {} /\ ICut' = {} /\ Deleting /\ ~Deleting'
  BY Zenon, <1>1 DEF ICut, Deleting
<1>3. /\ ZeroRules(gone)
      /\ indx_tbl_entry' = [e \in Idx |-> IF e \in gone THEN 0 ELSE indx_tbl_entry[e]]
  BY Zenon DEF DelDeadHeadNodes
<1>4. \A e \in gone : dead[e]
  BY Zenon
<1> HIDE DEF gone
<1>5. /\ \A e \in Idx \ gone : /\ enable'[e] = enable[e] /\ dead'[e] = dead[e] /\ rule'[e] = rule[e]
                               /\ indx_tbl_entry'[e] = indx_tbl_entry[e]
      /\ \A e \in Idx : enable'[e] => e \notin gone
  BY Zenon, <1>3 DEF ZeroRules
<1>6. \A i \in Idx : tbl_entry[i] # 0 => tbl_entry[i] \in Idx \ gone
  BY <1>1, <1>2, <1>4 DEF IndexInv, IndexEntries, TypeOK
<1>7. IndexShape'
  BY Zenon, <1>1, <1>2, IndexShapeStays DEF IndexInv, hwIndex
<1>8. IndexEntries'
  BY SMTT(30), <1>1, <1>2, <1>5, <1>6 DEF IndexInv, IndexEntries, hwIndex, Pending
<1>9. IndexLinks'
  <2>1. ASSUME NEW x \in Idx, indx_next[x] # 0
        PROVE  /\ tbl_entry[indx_next[x]] # 0
               /\ SrcHash[rule'[tbl_entry[indx_next[x]]]] = SrcHash[rule'[tbl_entry[x]]]
    <3>1. tbl_entry[x] # 0 /\ tbl_entry[indx_next[x]] # 0 /\ indx_next[x] \in Idx
          /\ SrcHash[rule[tbl_entry[indx_next[x]]]] = SrcHash[rule[tbl_entry[x]]]
      BY <2>1, <1>1, <1>2 DEF IndexInv, IndexEntries, IndexLinks, TypeOK
    <3>2. tbl_entry[x] \in Idx \ gone /\ tbl_entry[indx_next[x]] \in Idx \ gone
      BY Zenon, <3>1, <1>6
    <3> QED BY Zenon, <3>1, <3>2, <1>5
  <2>2. \A i \in Idx : tbl_entry[i] # 0 /\ i >= T => \E x \in Idx : indx_next[x] = i
    BY ZenonT(30), <1>1, <1>2 DEF IndexInv, IndexLinks
  <2>3. \A e \in Idx : enable'[e] /\ ~dead'[e] => \E i \in Idx : tbl_entry[i] = e
    BY ZenonT(30), <1>1, <1>2, <1>5 DEF IndexInv, IndexLinks
  <2> QED BY ZenonT(30), <2>1, <2>2, <2>3, <1>1, <1>2 DEF IndexLinks, hwIndex
<1>10. AddIndexInv' /\ DelIndexInv'
  BY Zenon, <1>1 DEF AddIndexInv, DelIndexInv, Pending
<1> QED BY Zenon, <1>7, <1>8, <1>9, <1>10 DEF IndexInv

\* IndexInv is about the variables of the table only.
LEMMA IndexStutters ==
  ASSUME IndexInv, UNCHANGED vars PROVE IndexInv'
<1>1. ICut' = ICut /\ Deleting' = Deleting
  BY Zenon DEF vars, ICut, Deleting, call
<1>2. IndexShape'
  BY Zenon, <1>1, IndexShapeStays DEF IndexInv, vars, hwIndex
<1>3. IndexEntries'
  BY ZenonT(30), <1>1 DEF IndexInv, IndexEntries, vars, hwRules, hwIndex, call
<1>4. IndexLinks'
  BY ZenonT(30), <1>1 DEF IndexInv, IndexLinks, vars, hwRules, hwIndex, call
<1>5. AddIndexInv'
  BY Zenon DEF IndexInv, AddIndexInv, OnIndex, vars, hwRules, hwIndex, call
<1>6. DelIndexInv'
  BY Zenon DEF IndexInv, DelIndexInv, vars, hwIndex, call
<1> QED BY Zenon, <1>2, <1>3, <1>4, <1>5, <1>6 DEF IndexInv

\* IndexInv holds of the empty table.
LEMMA IndexInitially == Init => IndexInv
<1> SUFFICES ASSUME Init PROVE IndexInv
  BY Zenon
<1>1. ICut = {}
  BY Zenon DEF Init, ICut
<1>2. IndexShape
  BY Zenon, <1>1, ShapeEmpty DEF Init, IndexShape
<1>3. IndexEntries /\ IndexLinks
  BY Zenon DEF Init, IndexEntries, IndexLinks
<1>4. AddIndexInv /\ DelIndexInv
  BY Zenon DEF Init, AddIndexInv, DelIndexInv, Pending
<1> QED BY Zenon, <1>2, <1>3, <1>4 DEF IndexInv

\* Every step keeps IndexInv, if no DMA of an addition fails.
LEMMA IndexInvStep ==
  ASSUME DmaMayFail = FALSE, HandleInv, RuleInv, IndexInv, [Next]_vars PROVE IndexInv'
<1>1. CASE UNCHANGED vars
  BY Zenon, <1>1, IndexStutters
<1>2. CASE \E r \in Rules : AddRule(r)
  BY Zenon, <1>2, IndexQuiet
<1>3. CASE \E h \in Handles : DelRule(h)
  BY Zenon, <1>3, IndexDelStart
<1>4. CASE DelIndexDma
  <2>1. cipos \in {"ONLY_ONE", "HEAD", "MIDDLE", "LAST"}
    BY Zenon, <1>4 DEF DelIndexDma
  <2> QED BY Zenon, <1>4, <2>1, IndexOnlyCleared, IndexHeadOverwritten, IndexUnlinked
<1>5. CASE Step
  BY ZenonT(30), <1>4, <1>5, IndexQuiet, IndexFound, IndexCopied, IndexWritten, IndexLinked,
     IndexEnabled,
     IndexHeadNext,
     IndexBaseDma, IndexFixed, IndexHeadsGone, Zenon DEF Step
<1> QED BY Zenon, <1>1, <1>2, <1>3, <1>5 DEF Next
==============================================================================
