---------------------------- MODULE NatRuleProofs ----------------------------
(***************************************************************************)
(* Proofs about the chains of the NAT tables (NatTable), for tables of     *)
(* every size, every set of rules and every hash: what a write does to a   *)
(* chain, and the rule table. On top of HandleInv, and as long as no DMA   *)
(* of an add fails, RuleInv is inductive: the rule table keeps the shape   *)
(* of chains at every write.                                               *)
(***************************************************************************)
EXTENDS NatTable, WellFoundedInduction, TLAPS

(***************************************************************************)
(* The helpers.                                                            *)
(***************************************************************************)

\* A set of naturals that is not empty has a least element, so the searches for
\* the first free entry and the first free slot find one.
LEMMA MinOfProps ==
    ASSUME NEW S \in SUBSET Nat, S # {}
    PROVE  MinOf(S) \in S /\ \A y \in S : MinOf(S) <= y
<1> DEFINE less == {ss \in Nat \X Nat : ss[1] < ss[2]}
<1>1. IsWellFoundedOn(less, Nat)
    BY NatLessThanWellFounded, Zenon DEF OpToRel
<1>2. PICK x \in S : \A y \in S : ~(<<y, x>> \in less)
    BY <1>1, WFMin, Zenon
<1>3. ASSUME NEW y \in S PROVE x <= y
    <2>1. <<y, x>> \in Nat \X Nat /\ (y < x => <<y, x>> \in less)
        BY Zenon DEF less
    <2> QED BY <1>2, <2>1
<1> QED BY ZenonT(30), <1>3 DEF MinOf

\* A rule id names the entry it was made from, and the id 0 names none.
LEMMA RuleIdRoundTrip ==
    ASSUME NEW e \in Idx
    PROVE  /\ RuleId(e) \in 0 .. 2 * (T + E)
           /\ EntryOf(RuleId(e)) = e
           /\ e \in Usable => RuleId(e) # 0 /\ IdEntry(RuleId(e)) # 0
<1>1. CASE e >= T
    <2>1. RuleId(e) = 2 * (e - T) + 1 /\ e - T \in 0 .. E - 1
        BY <1>1, SizesAssumption DEF RuleId, Idx
    <2>2. RuleId(e) % 2 = 1 /\ RuleId(e) \div 2 = e - T
        BY <2>1, SizesAssumption
    <2> QED BY <1>1, <2>1, <2>2, SizesAssumption DEF EntryOf, IdEntry, Usable, Idx
<1>2. CASE e < T
    <2>1. RuleId(e) = 2 * e /\ e \in 0 .. T - 1
        BY <1>2, SizesAssumption DEF RuleId, Idx
    <2>2. RuleId(e) % 2 = 0 /\ RuleId(e) \div 2 = e
        BY <2>1, SizesAssumption
    <2> QED BY <1>2, <2>1, <2>2, SizesAssumption DEF EntryOf, IdEntry, Usable, Idx
<1> QED BY <1>1, <1>2, SizesAssumption DEF Idx

\* Where a used handle points.
LEMMA EntryOfUsed ==
    ASSUME IdsInv, NEW h \in Handles, Used(h)
    PROVE  /\ EntryOfHandle(h) \in Usable
           /\ rule_id_array[h] = RuleId(EntryOfHandle(h))
<1>1. PICK e \in Usable : rule_id_array[h] = RuleId(e)
    BY Zenon DEF IdsInv
<1> QED BY Zenon, <1>1, RuleIdRoundTrip DEF EntryOfHandle, Usable

------------------------------------------------------------------------------
(* Chains, and the rule table. *)

\* Every set of entries has one that no other of the set links to.
Back(next) == \A S \in SUBSET (Idx \ {0}) : S # {} => \E e \in S : \A x \in S : next[x] # e

\* The links form no cycle, read forwards or backwards.
Acyclic(next) == NoCycle(next) /\ Back(next)

\* How the entry numbers are divided: base entries below T, expansion entries
\* from T, entry 0 of each part unused.
LEMMA IdxFacts ==
  /\ 0 \in Idx /\ T \in Idx /\ 0 \notin ExpnUsable /\ Usable \subseteq Idx /\ ExpnUsable \subseteq Usable
  /\ \A e \in ExpnUsable : e \in Idx /\ e >= T /\ e # 0
  /\ \A e \in Usable : e >= T => e \in ExpnUsable
  /\ \A e \in Idx : e \in Nat /\ (e < T \/ e >= T) /\ ~(e < T /\ e >= T)
  /\ \A e \in 1 .. T - 1 : e \in Usable /\ e < T /\ e # 0
BY SizesAssumption DEF Idx, ExpnUsable, Usable

\* An entry without successor that is appended to a chain closes no cycle.
LEMMA AcyclicAppend ==
  ASSUME NEW f \in [Idx -> Idx], NEW p \in Idx, NEW c \in Idx \ {0}, Acyclic(f), p # c,
         f[c] = 0, NEW g, g = [f EXCEPT ![p] = c]
  PROVE  Acyclic(g)
<1>1. /\ g \in [Idx -> Idx] /\ g[p] = c /\ g[c] = 0
      /\ \A x \in Idx : x # p => g[x] = f[x]
  BY Zenon
<1>2. ASSUME NEW S \in SUBSET {e \in Idx : g[e] # 0}, S # {} PROVE \E e \in S : g[e] \notin S
  <2>1. c \notin S
    BY Zenon, <1>1
  <2>2. CASE p \in S
    BY <2>1, <2>2, <1>1
  <2>3. CASE p \notin S
    <3>1. S \in SUBSET {e \in Idx : f[e] # 0} /\ \A e \in S : g[e] = f[e]
      BY <2>3, <1>1
    <3>2. PICK e \in S : f[e] \notin S
      BY Zenon, <3>1, <1>2 DEF Acyclic, NoCycle
    <3> QED BY Zenon, <3>1, <3>2
  <2> QED BY Zenon, <2>2, <2>3
<1>3. ASSUME NEW S \in SUBSET (Idx \ {0}), S # {} PROVE \E e \in S : \A x \in S : g[x] # e
  <2>1. PICK e \in S : \A x \in S : f[x] # e
    BY Zenon, <1>3 DEF Acyclic, Back
  <2>2. CASE e # c \/ p \notin S
    <3>1. \A x \in S : g[x] # e
      BY Zenon, <2>1, <2>2, <1>1
    <3> QED BY Zenon, <3>1
  <2>3. CASE e = c /\ p \in S
    <3>1. S \ {c} \in SUBSET (Idx \ {0}) /\ S \ {c} # {}
      BY Zenon, <2>3
    <3>2. PICK d \in S \ {c} : \A x \in S \ {c} : f[x] # d
      BY Zenon, <3>1 DEF Acyclic, Back
    <3>3. \A x \in S : g[x] # d
      BY <3>1, <3>2, <1>1
    <3> QED BY Zenon, <3>3
  <2> QED BY Zenon, <2>2, <2>3
<1> QED BY Zenon, <1>2, <1>3 DEF Acyclic, NoCycle, Back

\* An entry that is taken out of a chain leaves no cycle, and is not its own
\* predecessor.
LEMMA AcyclicUnlink ==
  ASSUME NEW f \in [Idx -> Idx], NEW p \in Idx, NEW c \in Idx \ {0}, Acyclic(f), f[p] = c,
         NEW g, g = [f EXCEPT ![p] = f[c]]
  PROVE  Acyclic(g) /\ p # c
<1>1. p # c
  <2>1. p = c => {c} \in SUBSET {e \in Idx : f[e] # 0}
    BY Zenon
  <2> QED BY Zenon, <2>1 DEF Acyclic, NoCycle
<1>2. g \in [Idx -> Idx] /\ g[p] = f[c] /\ \A x \in Idx : x # p => g[x] = f[x]
  BY Zenon
<1>3. ASSUME NEW S \in SUBSET {e \in Idx : g[e] # 0}, S # {} PROVE \E e \in S : g[e] \notin S
  <2>1. CASE p \notin S
    <3>1. S \in SUBSET {e \in Idx : f[e] # 0} /\ \A e \in S : g[e] = f[e]
      BY <2>1, <1>2
    <3>2. PICK e \in S : f[e] \notin S
      BY Zenon, <3>1, <1>3 DEF Acyclic, NoCycle
    <3> QED BY Zenon, <3>1, <3>2
  <2>2. CASE p \in S
    <3>1. S \cup {c} \in SUBSET {e \in Idx : f[e] # 0} /\ S \cup {c} # {}
      BY <2>2, <1>2
    <3>2. PICK e \in S \cup {c} : f[e] \notin S \cup {c}
      BY Zenon, <3>1 DEF Acyclic, NoCycle
    <3>3. CASE e = c
      BY Zenon, <3>2, <3>3, <2>2, <1>2
    <3>4. CASE e # c
      BY Zenon, <3>2, <3>4, <1>2
    <3> QED BY Zenon, <3>3, <3>4
  <2> QED BY Zenon, <2>1, <2>2
<1>4. ASSUME NEW S \in SUBSET (Idx \ {0}), S # {} PROVE \E e \in S : \A x \in S : g[x] # e
  <2>1. PICK e \in S : \A x \in S : f[x] # e
    BY Zenon, <1>4 DEF Acyclic, Back
  <2>2. CASE e # f[c] \/ p \notin S
    <3>1. \A x \in S : g[x] # e
      BY Zenon, <2>1, <2>2, <1>2
    <3> QED BY Zenon, <3>1
  <2>3. CASE e = f[c] /\ p \in S
    <3>1. S \cup {c} \in SUBSET (Idx \ {0}) /\ S \cup {c} # {}
      BY Zenon
    <3>2. PICK d \in S \cup {c} : \A x \in S \cup {c} : f[x] # d
      BY Zenon, <3>1 DEF Acyclic, Back
    <3>3. d # c /\ d # f[c]
      BY Zenon, <3>2, <2>3
    <3>4. d \in S /\ \A x \in S : g[x] # d
      BY Zenon, <3>2, <3>3, <1>2
    <3> QED BY Zenon, <3>4
  <2> QED BY Zenon, <2>2, <2>3
<1> QED BY Zenon, <1>1, <1>3, <1>4 DEF Acyclic, NoCycle, Back

\* Links that are cleared leave no cycle.
LEMMA AcyclicZero ==
  ASSUME NEW f \in [Idx -> Idx], Acyclic(f), NEW g \in [Idx -> Idx],
         \A x \in Idx : g[x] \in {0, f[x]}
  PROVE  Acyclic(g)
<1>1. ASSUME NEW S \in SUBSET {e \in Idx : g[e] # 0}, S # {} PROVE \E e \in S : g[e] \notin S
  <2>1. S \in SUBSET {e \in Idx : f[e] # 0} /\ \A e \in S : g[e] = f[e]
    BY Zenon
  <2>2. PICK e \in S : f[e] \notin S
    BY Zenon, <2>1, <1>1 DEF Acyclic, NoCycle
  <2> QED BY Zenon, <2>1, <2>2
<1>2. ASSUME NEW S \in SUBSET (Idx \ {0}), S # {} PROVE \E e \in S : \A x \in S : g[x] # e
  <2>1. PICK e \in S : \A x \in S : f[x] # e
    BY Zenon, <1>2 DEF Acyclic, Back
  <2>2. \A x \in S : g[x] # e
    BY Zenon, <2>1
  <2> QED BY Zenon, <2>2
<1> QED BY Zenon, <1>1, <1>2 DEF Acyclic, NoCycle, Back

\* What the packet processor visits: a set of entries in which each entry is
\* the head or has a predecessor within the set is reached from the head.
LEMMA ReachChain ==
  ASSUME NEW next \in [Idx -> Idx], Acyclic(next), NEW C \in SUBSET (Idx \ {0}), NEW h,
         \A x \in C : x = h \/ \E p \in C : next[p] = x
  PROVE  C \subseteq Reach(h, next)
<1> DEFINE linked == {h} \cup ({next[x] : x \in Idx} \ {0})
<1>1. C \subseteq linked
  BY Zenon
<1>2. ASSUME NEW S \in SUBSET linked, h \in S, \A x \in S : next[x] # 0 => next[x] \in S
      PROVE  C \subseteq S
  <2> DEFINE B == C \ S
  <2> SUFFICES ASSUME B # {} PROVE FALSE
    BY Zenon
  <2>1. PICK e \in B : \A x \in B : next[x] # e
    BY Zenon DEF Acyclic, Back
  <2>2. PICK p \in C : next[p] = e
    BY Zenon, <1>2
  <2>3. p \in B
    BY Zenon, <2>2, <1>2
  <2> QED BY Zenon, <2>1, <2>2, <2>3
<1> QED BY Zenon, <1>1, <1>2 DEF Reach

\* The shape of a table's chains. cut holds the entry that a deletion has
\* unlinked and not yet zeroed, if there is one: nothing links to it, it still
\* has its successor. Every other entry is linked from at most one entry, and
\* its back link names that entry, or the unlinked one that stood there.
Shape(next, prev, cut) ==
  /\ Acyclic(next)
  /\ \A x \in Idx : next[x] # 0 => next[x] \in ExpnUsable \ cut
  /\ \A x, y \in Idx \ cut : next[x] = next[y] => x = y \/ next[x] = 0
  /\ \A x \in Idx \ cut : next[x] # 0 =>
        \/ prev[next[x]] = x
        \/ prev[next[x]] \in cut /\ next[prev[next[x]]] = next[x]

\* A back link may be written into an entry that nothing links to.
LEMMA ShapeBack ==
  ASSUME NEW f \in [Idx -> Idx], NEW g \in [Idx -> Idx], Shape(f, g, {}), NEW c \in Idx, NEW p \in Idx,
         \A x \in Idx : f[x] # c, NEW k, k = [g EXCEPT ![c] = p]
  PROVE  Shape(f, k, {})
<1>1. \A x \in Idx : f[x] # 0 => k[f[x]] = g[f[x]]
  BY Zenon
<1> QED BY Zenon, <1>1 DEF Shape

\* An entry whose back link is in place is appended to the end of a chain.
LEMMA ShapeAppend ==
  ASSUME NEW f \in [Idx -> Idx], NEW g \in [Idx -> Idx], Shape(f, g, {}),
         NEW p \in Idx, NEW c \in ExpnUsable, p # c, f[c] = 0, f[p] = 0, g[c] = p,
         \A x \in Idx : f[x] # c, NEW k, k = [f EXCEPT ![p] = c]
  PROVE  Shape(k, g, {})
<1>1. c \in Idx \ {0}
  BY Zenon, IdxFacts
<1>2. Acyclic(k)
  BY Zenon, <1>1, AcyclicAppend DEF Shape
<1>3. k[p] = c /\ \A x \in Idx : x # p => k[x] = f[x]
  BY Zenon
<1>4. \A x \in Idx : k[x] # 0 => k[x] \in ExpnUsable
  BY Zenon, <1>3 DEF Shape
<1>5. \A x, y \in Idx : k[x] = k[y] => x = y \/ k[x] = 0
  BY <1>3 DEF Shape
<1>6. \A x \in Idx : k[x] # 0 => g[k[x]] = x
  BY Zenon, <1>3 DEF Shape
<1> QED BY Zenon, <1>2, <1>4, <1>5, <1>6 DEF Shape

\* The predecessor takes over the link of its successor, which is cut off.
LEMMA ShapeUnlink ==
  ASSUME NEW f \in [Idx -> Idx], NEW g \in [Idx -> Idx], Shape(f, g, {}),
         NEW p \in Idx, NEW c \in Idx \ {0}, f[p] = c, NEW k, k = [f EXCEPT ![p] = f[c]]
  PROVE  Shape(k, g, {c}) /\ p # c /\ k[p] = k[c]
<1>1. Acyclic(k) /\ p # c
  BY Zenon, AcyclicUnlink DEF Shape
<1>2. k[p] = f[c] /\ k[c] = f[c] /\ \A x \in Idx : x # p => k[x] = f[x]
  BY Zenon, <1>1
<1>3. \A x \in Idx : f[x] = c => x = p
  BY Zenon DEF Shape
<1>4. f[c] # c
  BY Zenon, <1>1, <1>3
<1>5. \A x \in Idx : k[x] # 0 => k[x] \in ExpnUsable \ {c}
  BY <1>2, <1>3, <1>4 DEF Shape
<1>6. \A x, y \in Idx \ {c} : k[x] = k[y] => x = y \/ k[x] = 0
  BY Zenon, <1>2 DEF Shape
<1>7. ASSUME NEW x \in Idx \ {c}, k[x] # 0
      PROVE  g[k[x]] = x \/ (g[k[x]] = c /\ k[c] = k[x])
  BY <1>2, <1>7 DEF Shape
<1>8. \A x \in Idx \ {c} : k[x] # 0 => g[k[x]] = x \/ (g[k[x]] \in {c} /\ k[g[k[x]]] = k[x])
  BY <1>7
<1> QED BY Zenon, <1>1, <1>2, <1>5, <1>6, <1>8 DEF Shape

\* The entry cut off is zeroed, and the back link of its successor is
\* corrected.
LEMMA ShapeZero ==
  ASSUME NEW f \in [Idx -> Idx], NEW g \in [Idx -> Idx], NEW c \in Idx, Shape(f, g, {c}),
         NEW p \in Idx \ {c}, f[p] = f[c],
         NEW k \in [Idx -> Idx], \A x \in Idx : k[x] = IF x = c THEN 0 ELSE f[x],
         NEW m \in [Idx -> Idx],
         \A y \in Idx \ {c} : y # 0 => m[y] = IF y = f[c] THEN p ELSE g[y]
  PROVE  Shape(k, m, {})
<1>1. Acyclic(k)
  BY AcyclicZero DEF Shape
<1>2. \A x \in Idx : k[x] # 0 => x # c /\ k[x] = f[x] /\ k[x] \in ExpnUsable /\ k[x] \in Idx /\ k[x] # c
  BY IdxFacts DEF Shape
<1>3. \A x, y \in Idx : k[x] = k[y] => x = y \/ k[x] = 0
  BY <1>2 DEF Shape
<1>4. ASSUME NEW x \in Idx, k[x] # 0 PROVE m[k[x]] = x
  <2>1. x # c /\ k[x] = f[x] /\ k[x] \in Idx \ {c}
    BY Zenon, <1>2, <1>4
  <2>2. CASE f[x] = f[c]
    BY <2>1, <2>2, <1>4 DEF Shape
  <2>3. CASE f[x] # f[c]
    BY <2>1, <2>3, <1>4 DEF Shape
  <2> QED BY Zenon, <2>2, <2>3
<1> QED BY Zenon, <1>1, <1>2, <1>3, <1>4 DEF Shape

\* Back links of entries that nothing links to do not matter.
LEMMA ShapeZeroEnd ==
  ASSUME NEW f \in [Idx -> Idx], NEW g \in [Idx -> Idx], Shape(f, g, {}),
         NEW m \in [Idx -> Idx], \A y \in Idx : (\E x \in Idx : f[x] = y) /\ y # 0 => m[y] = g[y]
  PROVE  Shape(f, m, {})
BY Zenon DEF Shape

\* A deletion whose rule command was written and whose entry is not yet
\* zeroed.
After == {"del_fix", "del_index_last", "del_index2_last"}

\* A deletion whose rule command was not yet written.
Before == {"del_index", "del_index2", "del_base", "del_base_first"}

\* An addition whose entry was written and is not yet enabled.
Adding == {"link", "icopy", "ilink", "enable"}

\* The entry of the rule table that is unlinked and not yet zeroed.
RCut == IF pc \in After /\ centry >= T THEN {centry} ELSE {}

\* The entries of the rule table, each on its own: an enabled entry holds a
\* rule, a base entry one of its own hash; an entry that is not enabled has no
\* successor; dead entries are heads, and keep a successor but for the end of
\* a deletion; what is not enabled is empty unless the call in progress works
\* on it.
RuleEntries ==
  /\ \A e \in Idx : enable[e] => e \in Usable /\ rule[e] \in Rules /\ (e < T => DstHash[rule[e]] = e)
  /\ \A e \in Idx : ~enable[e] => next_index[e] = 0
  /\ \A e \in Idx : dead[e] => e < T /\ enable[e]
  /\ \A e \in Idx : dead[e] /\ next_index[e] = 0 => pc \in After \cup {"del_dead"}
  /\ \A e \in Idx : rule[e] # NoRule => enable[e] \/ (e = centry /\ pc \in Adding \cup After)

\* The entries of the rule table along the links: a successor holds an enabled
\* rule of the same destination hash (or the one being added), and every
\* enabled expansion entry has a predecessor.
RuleLinks ==
  /\ \A x \in Idx \ RCut : next_index[x] # 0 =>
        /\ rule[next_index[x]] \in Rules /\ DstHash[rule[next_index[x]]] = DstHash[rule[x]]
        /\ enable[next_index[x]] \/ (next_index[x] = centry /\ pc \in {"icopy", "ilink", "enable"})
  /\ \A e \in Idx \ RCut : enable[e] /\ e >= T => \E x \in Idx \ RCut : next_index[x] = e

\* Entry e is an enabled one on the chain of the rule being added.
OnChain(e) == enable[e] /\ DstHash[rule[e]] = DstHash[crule]

\* What an addition knows about the rule table: the walk is on the rule's
\* chain, its end stays the end until the new entry is linked.
AddRuleInv ==
  /\ pc = "walk" => OnChain(cprev)
  /\ pc = "expn" => OnChain(cprev) /\ next_index[cprev] = 0
  /\ pc \in {"index", "iwalk", "iexpn", "copy", "link", "icopy", "ilink", "enable"} =>
       IF cprev = 0 THEN centry = DstHash[crule] ELSE centry \in ExpnUsable /\ OnChain(cprev)
  /\ pc \in {"index", "iwalk", "iexpn", "copy", "link"} /\ cprev # 0 => next_index[cprev] = 0
  /\ pc = "link" => prev_index[centry] = cprev
  /\ pc \in {"icopy", "ilink", "enable"} /\ cprev # 0 => next_index[cprev] = centry

\* What a deletion knows about the rule table: before and after its command,
\* the entry and the predecessor it read when it started.
DelRuleInv ==
  /\ pc \in Before => enable[centry] /\ ~dead[centry] /\ (centry >= T => next_index[cprev] = centry)
  /\ pc \in Before \cup After => prev_index[centry] = cprev /\ rule[centry] \in Rules
  /\ pc \in After /\ centry >= T => enable[centry] /\ cprev # centry /\ next_index[cprev] = next_index[centry]
  /\ pc \in After /\ centry < T => (next_index[centry] = 0 /\ ~enable[centry])
                                      \/ (next_index[centry] # 0 /\ dead[centry])

\* The chains of the rule table.
RuleShape == Shape(next_index, prev_index, RCut)

\* The inductive invariant of the rule table.
RuleInv == RuleShape /\ RuleEntries /\ RuleLinks /\ AddRuleInv /\ DelRuleInv

\* RuleShape in the next state.
LEMMA RuleShapeNow ==
  ASSUME Shape(next_index', prev_index', RCut') PROVE RuleShape'
BY Zenon DEF RuleShape, Shape, Acyclic, NoCycle, Back

\* A step that leaves the links leaves the shape.
LEMMA RuleShapeStays ==
  ASSUME RuleShape, next_index' = next_index, prev_index' = prev_index, RCut' = RCut
  PROVE  RuleShape'
BY Zenon, RuleShapeNow DEF RuleShape

\* An addition starts: the head of the rule's chain, or the entry behind it.
LEMMA RuleStart ==
  ASSUME HandleInv, RuleInv, NEW r \in Rules, AddRule(r) PROVE RuleInv'
<1> DEFINE h == DstHash[r]
<1>1. h \in Usable /\ h < T /\ h \in Idx /\ h # 0
  BY Zenon, HashAssumption, IdxFacts
<1>2. UNCHANGED hwRules /\ pc = "idle" /\ crule' = r /\ pc' \in {"index", "expn", "walk"}
  BY Zenon DEF AddRule
<1>3. RCut = {} /\ RCut' = {}
  BY Zenon, <1>2 DEF RCut, After
<1>4. RuleShape'
  BY Zenon, <1>2, <1>3, RuleShapeStays DEF RuleInv, hwRules
<1>5. RuleEntries' /\ RuleLinks'
  BY Zenon, <1>2, <1>3 DEF RuleInv, RuleEntries, RuleLinks, hwRules, After, Adding
<1>6. DelRuleInv'
  BY Zenon, <1>2 DEF DelRuleInv, Before, After
<1>7. AddRuleInv'
  <2>1. CASE ~enable[h]
    BY Zenon, <2>1, <1>1, <1>2 DEF AddRule, AddRuleInv
  <2>2. CASE enable[h] /\ next_index[h] = 0
    BY Zenon, <2>2, <1>1, <1>2 DEF AddRule, AddRuleInv, OnChain, RuleInv, RuleEntries, hwRules
  <2>3. CASE enable[h] /\ next_index[h] # 0
    <3>1. pc' = "walk" /\ cprev' = next_index[h]
      BY Zenon, <2>3 DEF AddRule
    <3>2. enable[next_index[h]] /\ DstHash[rule[next_index[h]]] = DstHash[rule[h]] /\ DstHash[rule[h]] = h
      BY Zenon, <2>3, <1>1, <1>2, <1>3 DEF RuleInv, RuleEntries, RuleLinks
    <3> QED BY Zenon, <3>1, <3>2, <1>2 DEF AddRuleInv, OnChain, hwRules
  <2> QED BY Zenon, <2>1, <2>2, <2>3
<1> QED BY Zenon, <1>4, <1>5, <1>6, <1>7 DEF RuleInv

\* A deletion starts: the back link it reads names the predecessor.
LEMMA RuleDelStart ==
  ASSUME HandleInv, RuleInv, NEW h \in Handles, DelRule(h) PROVE RuleInv'
<1> DEFINE e == EntryOfHandle(h)
<1>1. UNCHANGED hwRules /\ pc = "idle" /\ centry' = e /\ cprev' = prev_index[e] /\ enable[e]
      /\ pc' \in {"del_index", "del_base_first"} /\ Parses(h)
  BY Zenon DEF DelRule
<1>2. RCut = {} /\ RCut' = {}
  BY Zenon, <1>1 DEF RCut, After
<1>3. RuleShape'
  BY Zenon, <1>1, <1>2, RuleShapeStays DEF RuleInv, hwRules
<1>4. RuleEntries' /\ RuleLinks'
  BY Zenon, <1>1, <1>2 DEF RuleInv, RuleEntries, RuleLinks, hwRules, After, Adding
<1>5. AddRuleInv'
  BY Zenon, <1>1 DEF AddRuleInv
<1>6. Used(h)
  BY <1>1 DEF Parses, Used, IdEntry, HandleInv, TypeOK
<1>7. e \in Usable /\ ~dead[e]
  <2>1. h \in LiveHandles
    BY Zenon, <1>1, <1>6 DEF LiveHandles, Used, Deleting
  <2> QED BY Zenon, <2>1, <1>6, EntryOfUsed DEF HandleInv, RulesInv
<1>8. e >= T => next_index[prev_index[e]] = e
  <2>1. SUFFICES ASSUME e >= T PROVE next_index[prev_index[e]] = e
    BY Zenon
  <2>2. PICK x \in Idx : next_index[x] = e
    BY Zenon, <1>1, <1>2, <1>7, <2>1, IdxFacts DEF RuleInv, RuleLinks
  <2>3. prev_index[e] = x
    BY Zenon, <1>2, <1>7, <2>2, IdxFacts DEF RuleInv, RuleShape, Shape, Usable
  <2> QED BY Zenon, <2>2, <2>3
<1>9. e \in Idx /\ rule[e] \in Rules
  BY Zenon, <1>1, <1>7, IdxFacts DEF RuleInv, RuleEntries
<1> HIDE DEF e
<1>10. DelRuleInv'
  BY Zenon, <1>1, <1>7, <1>8, <1>9 DEF DelRuleInv, Before, After, hwRules
<1> QED BY Zenon, <1>3, <1>4, <1>5, <1>10 DEF RuleInv

\* Steps of an addition that do not write the rule table: the walk stays on
\* the rule's chain.
LEMMA RuleQuietAdd ==
  ASSUME HandleInv, RuleInv,
         Walk \/ ExpnFreeEntry \/ IndexRule \/ IndexWalk \/ IndexExpnFreeEntry \/ CopyIndexRule
           \/ LinkIndexRule \/ MakeRuleHdl
  PROVE  RuleInv'
<1>1. UNCHANGED hwRules
  BY Zenon DEF Walk, ExpnFreeEntry, IndexRule, IndexWalk, IndexExpnFreeEntry, CopyIndexRule,
     LinkIndexRule, MakeRuleHdl
<1>2. pc \in {"walk", "expn", "index", "iwalk", "iexpn", "icopy", "ilink", "hdl"}
      /\ pc' \in {"idle", "walk", "expn", "index", "iwalk", "iexpn", "copy", "ilink", "enable"}
  BY Zenon DEF Walk, ExpnFreeEntry, IndexRule, IndexWalk, IndexExpnFreeEntry, CopyIndexRule,
     LinkIndexRule, MakeRuleHdl, Return
<1>3. RCut = {} /\ RCut' = {}
  BY Zenon, <1>2 DEF RCut, After
<1>4. RuleShape'
  BY Zenon, <1>1, <1>3, RuleShapeStays DEF RuleInv, hwRules
<1>5. CASE pc' = "idle"
  <2>1. pc \notin {"icopy", "ilink"}
    BY Zenon, <1>5 DEF Walk, ExpnFreeEntry, IndexRule, IndexWalk, IndexExpnFreeEntry, CopyIndexRule,
       LinkIndexRule, MakeRuleHdl
  <2>2. RuleEntries' /\ RuleLinks'
    BY Zenon, <1>1, <1>2, <1>3, <2>1 DEF RuleInv, RuleEntries, RuleLinks, hwRules, After, Adding
  <2>3. AddRuleInv' /\ DelRuleInv'
    BY Zenon, <1>5 DEF AddRuleInv, DelRuleInv, Before, After
  <2> QED BY Zenon, <1>4, <2>2, <2>3 DEF RuleInv
<1>6. CASE pc' # "idle"
  <2>1. RuleEntries' /\ RuleLinks'
    <3>1. CASE pc \in {"icopy", "ilink"}
      <4>1. centry' = centry /\ pc' \in {"ilink", "enable"}
        BY Zenon, <3>1 DEF Walk, ExpnFreeEntry, IndexRule, IndexWalk, IndexExpnFreeEntry, CopyIndexRule,
           LinkIndexRule, MakeRuleHdl, call
      <4> QED BY Zenon, <1>1, <1>3, <3>1, <4>1 DEF RuleInv, RuleEntries, RuleLinks, hwRules, After, Adding
    <3>2. CASE pc \notin {"icopy", "ilink"}
      BY Zenon, <1>1, <1>2, <1>3, <3>2 DEF RuleInv, RuleEntries, RuleLinks, hwRules, After, Adding
    <3> QED BY Zenon, <3>1, <3>2
  <2>2. DelRuleInv'
    BY Zenon, <1>2 DEF DelRuleInv, Before, After
  <2>3. AddRuleInv'
    <3>1. CASE Walk
      <4>1. OnChain(cprev) /\ cprev \in Idx /\ pc = "walk"
        BY Zenon, <3>1 DEF Walk, RuleInv, AddRuleInv, HandleInv, TypeOK
      <4>2. CASE next_index[cprev] = 0
        <5>1. pc' = "expn" /\ UNCHANGED call
          BY Zenon, <3>1, <4>2, <1>6 DEF Walk, Return
        <5> QED BY Zenon, <4>1, <4>2, <5>1, <1>1 DEF AddRuleInv, OnChain, hwRules, call
      <4>3. CASE next_index[cprev] # 0
        <5>1. pc' = "walk" /\ cprev' = next_index[cprev] /\ crule' = crule
          BY Zenon, <3>1, <4>3, <1>6 DEF Walk, Return
        <5>2. OnChain(next_index[cprev])
          BY Zenon, <4>1, <4>3, <1>3 DEF RuleInv, RuleLinks, OnChain
        <5> QED BY Zenon, <5>1, <5>2, <1>1 DEF AddRuleInv, OnChain, hwRules
      <4> QED BY Zenon, <4>2, <4>3
    <3>2. CASE ExpnFreeEntry
      <4> DEFINE free == {e \in ExpnUsable : ~enable[e]}
      <4>1. free # {} /\ centry' = MinOf(free) /\ pc' = "index" /\ crule' = crule /\ cprev' = cprev /\ pc = "expn"
        BY Zenon, <3>2, <1>6 DEF ExpnFreeEntry, Return
      <4>2. free \in SUBSET Nat
        BY Zenon, IdxFacts
      <4>3. centry' \in ExpnUsable
        BY Zenon, <4>1, <4>2, MinOfProps
      <4>4. OnChain(cprev) /\ next_index[cprev] = 0
        BY Zenon, <4>1 DEF RuleInv, AddRuleInv
      <4>5. cprev # 0
        BY <4>4, IdxFacts DEF OnChain, RuleInv, RuleEntries, Usable
      <4> QED BY Zenon, <4>1, <4>3, <4>4, <4>5, <1>1 DEF AddRuleInv, OnChain, hwRules
    <3>3. CASE IndexRule \/ IndexWalk \/ IndexExpnFreeEntry \/ CopyIndexRule \/ LinkIndexRule
      <4>1. crule' = crule /\ cprev' = cprev /\ centry' = centry
        BY Zenon, <3>3, <1>6 DEF IndexRule, IndexWalk, IndexExpnFreeEntry, CopyIndexRule, LinkIndexRule,
           Return, call
      <4>2. /\ pc \in {"index", "iwalk", "iexpn"} => pc' \in {"iwalk", "iexpn", "copy"}
            /\ pc \in {"icopy", "ilink"} => pc' \in {"ilink", "enable"}
            /\ pc \in {"index", "iwalk", "iexpn", "icopy", "ilink"}
        BY Zenon, <3>3, <1>6 DEF IndexRule, IndexWalk, IndexExpnFreeEntry, CopyIndexRule, LinkIndexRule,
           Return
      <4> QED BY Zenon, <4>1, <4>2, <1>1 DEF RuleInv, AddRuleInv, OnChain, hwRules
    <3>4. CASE MakeRuleHdl
      BY Zenon, <3>4, <1>6 DEF MakeRuleHdl, Return
    <3> QED BY Zenon, <3>1, <3>2, <3>3, <3>4
  <2> QED BY Zenon, <1>4, <2>1, <2>2, <2>3 DEF RuleInv
<1> QED BY Zenon, <1>5, <1>6

\* The index commands of a deletion do not write the rule table.
LEMMA RuleQuietDel ==
  ASSUME HandleInv, RuleInv, DelIndexDma \/ DelIndexHeadNext PROVE RuleInv'
<1>1. UNCHANGED hwRules /\ UNCHANGED call
  BY Zenon DEF DelIndexDma, DelIndexHeadNext
<1>2. \/ pc \in {"del_index", "del_index2"} /\ pc' \in {"del_index2", "del_base"}
      \/ pc \in {"del_index_last", "del_index2_last"} /\ pc' \in {"del_index2_last", "del_fix"}
  BY Zenon DEF DelIndexDma, DelIndexHeadNext
<1>3. RCut' = RCut
  BY Zenon, <1>1, <1>2 DEF RCut, After, call
<1>4. RuleShape'
  BY Zenon, <1>1, <1>3, RuleShapeStays DEF RuleInv, hwRules
<1>5. RuleEntries' /\ RuleLinks'
  BY Zenon, <1>1, <1>2, <1>3 DEF RuleInv, RuleEntries, RuleLinks, hwRules, call, After, Adding
<1>6. AddRuleInv'
  BY Zenon, <1>2 DEF AddRuleInv
<1>7. DelRuleInv'
  BY Zenon, <1>1, <1>2 DEF RuleInv, DelRuleInv, Before, After, hwRules, call
<1> QED BY Zenon, <1>4, <1>5, <1>6, <1>7 DEF RuleInv

\* The new rule is written, disabled, into an entry that nothing links to.
LEMMA RuleCopied ==
  ASSUME HandleInv, RuleInv, CopyRule PROVE RuleInv'
<1>1. TypeOK /\ pc = "copy" /\ centry \in Idx /\ cprev \in Idx /\ ~enable[centry] /\ crule \in Rules
      /\ centry \in Usable
  BY Zenon, IdxFacts DEF CopyRule, HandleInv, TypeOK, CallInv, Deleting
<1>2. RCut = {} /\ RCut' = {} /\ pc' = "link" /\ UNCHANGED call
  BY Zenon, <1>1 DEF CopyRule, RCut, After
<1>3. \A x \in Idx : next_index[x] # centry
  BY <1>1, <1>2, IdxFacts DEF RuleInv, RuleLinks, Usable
<1>4. next_index' = next_index
  <2>1. next_index[centry] = 0
    BY Zenon, <1>1 DEF RuleInv, RuleEntries
  <2> QED BY Zenon, <2>1, <1>1 DEF CopyRule, TypeOK
<1>5. RuleShape'
  <2>1. prev_index' = [prev_index EXCEPT ![centry] = cprev]
    BY Zenon DEF CopyRule
  <2>2. Shape(next_index, prev_index', {})
    BY ZenonT(30), <2>1, <1>1, <1>2, <1>3, ShapeBack DEF RuleInv, RuleShape, TypeOK
  <2> QED BY Zenon, <2>2, <1>2, <1>4, RuleShapeNow
<1>6. /\ enable' = enable /\ dead' \in [Idx -> BOOLEAN] /\ rule' \in [Idx -> Rules \cup {NoRule}]
      /\ \A e \in Idx : dead'[e] => dead[e]
      /\ rule'[centry] = crule /\ \A e \in Idx : e # centry => rule'[e] = rule[e]
  BY Zenon, <1>1 DEF CopyRule, TypeOK
<1>7. RuleEntries'
  BY Zenon, <1>1, <1>2, <1>4, <1>6 DEF RuleInv, RuleEntries, call, After, Adding
<1>8. RuleLinks'
  <2>1. ASSUME NEW x \in Idx, next_index[x] # 0
        PROVE  rule'[next_index[x]] = rule[next_index[x]] /\ rule'[x] = rule[x] /\ next_index[x] \in Idx
    BY Zenon, <2>1, <1>1, <1>3, <1>6 DEF RuleInv, RuleEntries, TypeOK
  <2>2. \A x \in Idx : next_index[x] # 0 =>
          /\ rule'[next_index[x]] \in Rules /\ DstHash[rule'[next_index[x]]] = DstHash[rule'[x]]
          /\ enable[next_index[x]]
    BY <2>1, <1>1, <1>2 DEF RuleInv, RuleLinks
  <2>3. \A e \in Idx : enable[e] /\ e >= T => \E x \in Idx : next_index[x] = e
    BY Zenon, <1>2 DEF RuleInv, RuleLinks
  <2> QED BY Zenon, <2>2, <2>3, <1>2, <1>4, <1>6 DEF RuleLinks
<1>9. AddRuleInv'
  <2>1. prev_index'[centry] = cprev
    BY Zenon, <1>1 DEF CopyRule, TypeOK
  <2>2. cprev # 0 => cprev # centry
    BY Zenon, <1>1 DEF RuleInv, AddRuleInv, OnChain
  <2> QED BY Zenon, <2>1, <2>2, <1>1, <1>2, <1>4, <1>6 DEF RuleInv, AddRuleInv, OnChain, call
<1>10. DelRuleInv'
  BY Zenon, <1>2 DEF DelRuleInv, Before, After
<1> QED BY Zenon, <1>5, <1>7, <1>8, <1>9, <1>10 DEF RuleInv

\* The new entry is linked from the end of its chain.
LEMMA RuleLinked ==
  ASSUME DmaMayFail = FALSE, HandleInv, RuleInv, LinkRule PROVE RuleInv'
<1>1. /\ TypeOK /\ pc = "link" /\ centry \in Usable /\ centry \in Idx /\ cprev \in Idx
      /\ ~enable[centry] /\ crule \in Rules /\ rule[centry] = crule
  BY Zenon, IdxFacts DEF LinkRule, HandleInv, TypeOK, CallInv, Deleting
<1>2. RCut = {} /\ RCut' = {} /\ pc' = "icopy" /\ UNCHANGED call
      /\ UNCHANGED <<enable, dead, rule, prev_index>>
  BY Zenon, <1>1 DEF LinkRule, RCut, After
<1>3. next_index' = IF cprev = 0 THEN next_index ELSE [next_index EXCEPT ![cprev] = centry]
  BY Zenon DEF LinkRule
<1>4. ASSUME NEW x \in Idx, next_index[x] = centry PROVE FALSE
  <2>1. next_index[x] # 0
    BY Zenon, <1>1, <1>4 DEF Usable
  <2>2. enable[next_index[x]] \/ pc \in {"icopy", "ilink", "enable"}
    BY Zenon, <2>1, <1>2, <1>4 DEF RuleInv, RuleLinks
  <2> QED BY Zenon, <1>1, <1>4, <2>2
<1>5. cprev # 0 => /\ centry \in ExpnUsable /\ next_index[cprev] = 0 /\ enable[cprev] /\ cprev # centry
                   /\ DstHash[rule[cprev]] = DstHash[crule]
  BY Zenon, <1>1 DEF RuleInv, AddRuleInv, OnChain
<1>6. next_index[centry] = 0 /\ prev_index[centry] = cprev
  BY Zenon, <1>1 DEF RuleInv, RuleEntries, AddRuleInv
<1>7. RuleShape'
  <2>1. CASE cprev = 0
    BY Zenon, <2>1, <1>2, <1>3, RuleShapeStays DEF RuleInv
  <2>2. CASE cprev # 0
    <3>1. Shape(next_index', prev_index, {})
      BY ZenonT(30), <2>2, <1>1, <1>2, <1>3, <1>4, <1>5, <1>6, ShapeAppend DEF RuleInv, RuleShape,
         TypeOK
    <3> QED BY Zenon, <3>1, <1>2, RuleShapeNow
  <2> QED BY Zenon, <2>1, <2>2
<1>8. \A x \in Idx : next_index'[x] = IF x = cprev /\ x # 0 THEN centry ELSE next_index[x]
  BY Zenon, <1>1, <1>3 DEF TypeOK
<1>9. RuleEntries'
  BY <1>1, <1>2, <1>5, <1>8, IdxFacts DEF RuleInv, RuleEntries, call, After, Adding, Usable
<1>10. RuleLinks'
  <2>1. ASSUME NEW x \in Idx, next_index'[x] # 0
        PROVE  /\ rule[next_index'[x]] \in Rules /\ DstHash[rule[next_index'[x]]] = DstHash[rule[x]]
               /\ enable[next_index'[x]] \/ next_index'[x] = centry
    <3>1. CASE x = cprev /\ x # 0
      BY Zenon, <3>1, <1>1, <1>5, <1>8
    <3>2. CASE ~(x = cprev /\ x # 0)
      BY <3>2, <2>1, <1>1, <1>2, <1>8 DEF RuleInv, RuleLinks
    <3> QED BY Zenon, <3>1, <3>2
  <2>2. ASSUME NEW e \in Idx, enable[e], e >= T PROVE \E x \in Idx : next_index'[x] = e
    <3>1. PICK x \in Idx : next_index[x] = e
      BY Zenon, <2>2, <1>2 DEF RuleInv, RuleLinks
    <3>2. e # 0
      BY Zenon, <2>2 DEF RuleInv, RuleEntries, Usable
    <3>3. next_index'[x] = e
      BY Zenon, <3>1, <3>2, <1>5, <1>8
    <3> QED BY Zenon, <3>3
  <2> QED BY Zenon, <2>1, <2>2, <1>2 DEF RuleLinks, call
<1>11. AddRuleInv'
  BY Zenon, <1>1, <1>2, <1>8 DEF RuleInv, AddRuleInv, OnChain, call
<1>12. DelRuleInv'
  BY Zenon, <1>2 DEF DelRuleInv, Before, After
<1> QED BY Zenon, <1>7, <1>9, <1>10, <1>11, <1>12 DEF RuleInv

\* The new entry is enabled.
LEMMA RuleEnabled ==
  ASSUME DmaMayFail = FALSE, HandleInv, RuleInv, PostDmaCmd PROVE RuleInv'
<1>1. /\ TypeOK /\ pc = "enable" /\ centry \in Usable /\ centry \in Idx /\ cprev \in Idx
      /\ ~enable[centry] /\ ~dead[centry] /\ crule \in Rules /\ rule[centry] = crule
  BY Zenon, IdxFacts DEF PostDmaCmd, HandleInv, TypeOK, CallInv, Deleting
<1>2. RCut = {} /\ RCut' = {} /\ pc' = "hdl" /\ UNCHANGED call
      /\ UNCHANGED <<dead, rule, next_index, prev_index>>
  BY Zenon, <1>1 DEF PostDmaCmd, RCut, After
<1>3. \A e \in Idx : enable'[e] = IF e = centry THEN TRUE ELSE enable[e]
  BY ZenonT(30), <1>1, <1>2 DEF PostDmaCmd, TypeOK, Return
<1>4. centry < T => DstHash[crule] = centry
  BY Zenon, <1>1, IdxFacts DEF RuleInv, AddRuleInv
<1>5. centry >= T => next_index[cprev] = centry
  BY Zenon, <1>1, HashAssumption, IdxFacts DEF RuleInv, AddRuleInv
<1>6. RuleShape'
  BY Zenon, <1>2, RuleShapeStays DEF RuleInv
<1>7. RuleEntries'
  BY ZenonT(30), <1>1, <1>2, <1>3, <1>4 DEF RuleInv, RuleEntries, call, After, Adding
<1>8. RuleLinks'
  BY ZenonT(30), <1>1, <1>2, <1>3, <1>5 DEF RuleInv, RuleLinks, call, TypeOK
<1>9. AddRuleInv' /\ DelRuleInv'
  BY Zenon, <1>2 DEF AddRuleInv, DelRuleInv, Before, After
<1> QED BY Zenon, <1>6, <1>7, <1>8, <1>9 DEF RuleInv

\* The rule command of a deletion: a base entry is disabled or dead, an
\* expansion entry is unlinked.
LEMMA RuleUnlinked ==
  ASSUME HandleInv, RuleInv, DelBaseDma PROVE RuleInv'
<1> DEFINE n == next_index[centry]
           pos == Position(centry, n)
<1>1. /\ TypeOK /\ pc \in {"del_base", "del_base_first"} /\ centry \in Idx /\ cprev \in Idx /\ n \in Idx
      /\ enable[centry] /\ ~dead[centry] /\ centry \in Usable
      /\ prev_index[centry] = cprev /\ rule[centry] \in Rules
      /\ centry >= T => next_index[cprev] = centry
  BY Zenon DEF DelBaseDma, HandleInv, TypeOK, RuleInv, DelRuleInv, Before, RuleEntries
<1>2. RCut = {} /\ pc' \in {"del_fix", "del_index_last"} /\ UNCHANGED call
      /\ UNCHANGED <<rule, prev_index>>
  BY Zenon, <1>1 DEF DelBaseDma, RCut, After
<1>3. AddRuleInv'
  BY Zenon, <1>2 DEF AddRuleInv
<1>4. CASE centry < T
  <2>1. RCut' = {} /\ next_index' = next_index
    BY Zenon, <1>1, <1>2, <1>4, IdxFacts DEF RCut, call, DelBaseDma, Position
  <2>2. RuleShape'
    BY Zenon, <2>1, <1>2, RuleShapeStays DEF RuleInv
  <2>3. /\ enable' = IF n = 0 THEN [enable EXCEPT ![centry] = FALSE] ELSE enable
        /\ dead' = IF n # 0 THEN [dead EXCEPT ![centry] = TRUE] ELSE dead
    BY Zenon, <1>1, <1>4, IdxFacts DEF DelBaseDma, Position
  <2>4. /\ \A e \in Idx : enable'[e] = IF e = centry /\ n = 0 THEN FALSE ELSE enable[e]
        /\ \A e \in Idx : dead'[e] = IF e = centry /\ n # 0 THEN TRUE ELSE dead[e]
    BY Zenon, <1>1, <2>3 DEF TypeOK
  <2>5. \A x \in Idx : next_index[x] # centry
    BY <1>1, <1>2, <1>4, IdxFacts DEF RuleInv, RuleShape, Shape, Usable
  <2>6. RuleEntries'
    BY ZenonT(30), <1>1, <1>2, <1>4, <2>1, <2>4 DEF RuleInv, RuleEntries, call, After, Adding
  <2>7. RuleLinks'
    <3>1. ASSUME NEW x \in Idx, next_index[x] # 0
          PROVE  /\ rule[next_index[x]] \in Rules /\ DstHash[rule[next_index[x]]] = DstHash[rule[x]]
                 /\ enable'[next_index[x]]
      <4>1. next_index[x] \in Idx /\ next_index[x] # centry
        BY Zenon, <1>1, <2>5 DEF TypeOK
      <4> QED BY ZenonT(30), <3>1, <4>1, <1>1, <1>2, <2>4 DEF RuleInv, RuleLinks
    <3>2. \A e \in Idx : enable'[e] /\ e >= T => \E x \in Idx : next_index[x] = e
      BY Zenon, <1>2, <2>4 DEF RuleInv, RuleLinks
    <3> QED BY Zenon, <3>1, <3>2, <1>2, <2>1 DEF RuleLinks
  <2>8. DelRuleInv'
    BY Zenon, <1>1, <1>2, <1>4, <2>1, <2>4, IdxFacts DEF DelRuleInv, Before, After, call
  <2> QED BY Zenon, <1>3, <2>2, <2>6, <2>7, <2>8 DEF RuleInv
<1>5. CASE centry >= T
  <2>1. RCut' = {centry} /\ enable' = enable /\ dead' = dead
    BY Zenon, <1>1, <1>2, <1>5 DEF RCut, After, call, DelBaseDma, Position
  <2>2. next_index' = [next_index EXCEPT ![cprev] = n]
    <3>1. CASE n = 0
      BY Zenon, <3>1, <1>5 DEF DelBaseDma, Position
    <3>2. CASE n # 0
      BY Zenon, <3>2, <1>5 DEF DelBaseDma, Position
    <3> QED BY Zenon, <3>1, <3>2
  <2>3. /\ Shape(next_index', prev_index, {centry}) /\ cprev # centry
        /\ next_index'[cprev] = next_index'[centry]
    <3>1. Shape(next_index, prev_index, {})
      BY Zenon, <1>2 DEF RuleInv, RuleShape
    <3>2. /\ next_index \in [Idx -> Idx] /\ prev_index \in [Idx -> Idx] /\ cprev \in Idx
          /\ centry \in Idx \ {0} /\ next_index[cprev] = centry
      BY Zenon, <1>1, <1>5 DEF TypeOK, Usable
    <3> QED BY ZenonT(30), <2>2, <3>1, <3>2, ShapeUnlink
  <2>4. RuleShape'
    BY Zenon, <2>1, <2>3, <1>2, RuleShapeNow
  <2>5. next_index'[cprev] = n /\ \A x \in Idx : x # cprev => next_index'[x] = next_index[x]
    BY Zenon, <1>1, <2>2 DEF TypeOK
  <2>6. enable[cprev] /\ DstHash[rule[cprev]] = DstHash[rule[centry]]
    BY <1>1, <1>2, <1>5 DEF RuleInv, RuleEntries, RuleLinks, Usable
  <2>7. RuleEntries'
    BY <1>1, <1>2, <2>1, <2>5, <2>6 DEF RuleInv, RuleEntries, call, After, Adding
  <2>8. RuleLinks'
    <3>1. ASSUME NEW x \in Idx \ {centry}, next_index'[x] # 0
          PROVE  /\ rule[next_index'[x]] \in Rules /\ DstHash[rule[next_index'[x]]] = DstHash[rule[x]]
                 /\ enable[next_index'[x]]
      <4>1. CASE x = cprev
        BY <3>1, <4>1, <1>1, <1>2, <2>5, <2>6 DEF RuleInv, RuleLinks
      <4>2. CASE x # cprev
        BY <3>1, <4>2, <1>1, <1>2, <2>5 DEF RuleInv, RuleLinks
      <4> QED BY Zenon, <4>1, <4>2
    <3>2. ASSUME NEW e \in Idx \ {centry}, enable[e], e >= T
          PROVE  \E x \in Idx \ {centry} : next_index'[x] = e
      <4>1. PICK x \in Idx : next_index[x] = e
        BY Zenon, <3>2, <1>2 DEF RuleInv, RuleLinks
      <4>2. CASE x = centry
        BY Zenon, <4>1, <4>2, <2>3, <2>5, <1>1
      <4>3. CASE x # centry
        BY Zenon, <4>1, <4>3, <2>5, <1>1, <1>5
      <4> QED BY Zenon, <4>2, <4>3
    <3> QED BY Zenon, <3>1, <3>2, <2>1, <1>2 DEF RuleLinks, call
  <2>9. DelRuleInv'
    BY Zenon, <1>1, <1>2, <1>5, <2>1, <2>3, IdxFacts DEF DelRuleInv, Before, After, call
  <2> QED BY Zenon, <1>3, <2>4, <2>7, <2>8, <2>9 DEF RuleInv
<1> QED BY Zenon, <1>1, <1>4, <1>5, IdxFacts

\* The deleted entry is zeroed and the back link behind it corrected.
LEMMA RuleFixed ==
  ASSUME HandleInv, RuleInv, DelFix PROVE RuleInv'
<1> DEFINE n == next_index[centry]
           pos == Position(centry, n)
           zeroed == IF pos = "HEAD" THEN {} ELSE {centry}
<1>1. /\ TypeOK /\ pc = "del_fix" /\ centry \in Idx /\ cprev \in Idx /\ n \in Idx
      /\ prev_index[centry] = cprev /\ rule[centry] \in Rules
      /\ centry >= T => cprev # centry /\ next_index[cprev] = n
      /\ centry < T => (n = 0 /\ ~enable[centry]) \/ (n # 0 /\ dead[centry])
  BY Zenon DEF DelFix, HandleInv, TypeOK, RuleInv, DelRuleInv, After
<1>2. RCut' = {} /\ pc' = "del_dead" /\ UNCHANGED call
  BY Zenon DEF DelFix, RCut, After
<1>3. AddRuleInv' /\ DelRuleInv'
  BY Zenon, <1>2 DEF AddRuleInv, DelRuleInv, Before, After
<1>4. /\ ZeroRules(zeroed) /\ zeroed = IF centry < T /\ n # 0 THEN {} ELSE {centry}
      /\ prev_index' = [e \in Idx |-> IF e \in zeroed THEN 0
                                      ELSE IF centry >= T /\ n # 0 /\ e = n THEN cprev ELSE prev_index[e]]
  <2>1. ZeroRules(zeroed)
    BY Zenon DEF DelFix
  <2>2. /\ prev_index' = [e \in Idx |-> IF e \in zeroed THEN 0
                                    ELSE IF pos = "MIDDLE" /\ e = n THEN prev_index[centry] ELSE prev_index[e]]
    BY Zenon DEF DelFix
  <2>3. pos = "MIDDLE" <=> centry >= T /\ n # 0
    BY Zenon DEF Position
  <2>4. pos = "HEAD" <=> centry < T /\ n # 0
    BY Zenon, <1>1, IdxFacts DEF Position
  <2> HIDE DEF pos
  <2> QED BY Zenon, <1>1, <2>1, <2>2, <2>3, <2>4
<1> HIDE DEF zeroed, pos
<1>5. /\ \A e \in Idx : enable'[e] = IF e \in zeroed THEN FALSE ELSE enable[e]
      /\ \A e \in Idx : dead'[e] = IF e \in zeroed THEN FALSE ELSE dead[e]
      /\ \A e \in Idx : rule'[e] = IF e \in zeroed THEN NoRule ELSE rule[e]
      /\ \A e \in Idx : next_index'[e] = IF e \in zeroed THEN 0 ELSE next_index[e]
      /\ next_index' \in [Idx -> Idx] /\ prev_index' \in [Idx -> Idx]
  BY <1>1, <1>4, IdxFacts DEF ZeroRules, TypeOK
<1>6. RuleShape'
  <2>1. CASE centry >= T
    <3>1. RCut = {centry} /\ zeroed = {centry}
      BY Zenon, <2>1, <1>1, <1>4, IdxFacts DEF RCut, After
    <3>2. Shape(next_index, prev_index, {centry}) /\ cprev \in Idx \ {centry} /\ next_index[cprev] = next_index[centry]
      BY Zenon, <2>1, <3>1, <1>1 DEF RuleInv, RuleShape
    <3>3. \A x \in Idx : next_index'[x] = IF x = centry THEN 0 ELSE next_index[x]
      BY Zenon, <3>1, <1>5
    <3>4. \A y \in Idx \ {centry} : y # 0 => prev_index'[y] = IF y = next_index[centry] THEN cprev ELSE prev_index[y]
      BY Zenon, <2>1, <3>1, <1>4
    <3>5. Shape(next_index', prev_index', {})
      <4>1. next_index \in [Idx -> Idx] /\ prev_index \in [Idx -> Idx] /\ centry \in Idx
        BY Zenon, <1>1 DEF TypeOK
      <4> HIDE DEF n
      <4> QED BY SMTT(30), <4>1, <3>2, <3>3, <3>4, <1>5, ShapeZero
    <3> QED BY Zenon, <3>5, <1>2, RuleShapeNow
  <2>2. CASE centry < T
    <3>1. RCut = {} /\ ~(centry >= T)
      BY Zenon, <2>2, <1>1, IdxFacts DEF RCut
    <3>2. Shape(next_index, prev_index, {})
      BY Zenon, <3>1 DEF RuleInv, RuleShape
    <3>3. \A x \in Idx : next_index[x] # 0 => next_index[x] # centry
      BY <2>2, <3>2, IdxFacts DEF Shape
    <3>4. next_index' = next_index
      <4>1. \A x \in Idx : next_index'[x] = next_index[x]
        BY ZenonT(30), <1>1, <1>4, <1>5, <2>2
      <4> QED BY SMTT(30), <4>1, <1>1, <1>5 DEF TypeOK
    <3>5. \A y \in Idx : y # centry => prev_index'[y] = prev_index[y]
      BY Zenon, <1>4, <2>2, <3>1
    <3>6. Shape(next_index, prev_index', {})
      <4>1. \A y \in Idx : (\E x \in Idx : next_index[x] = y) /\ y # 0 => prev_index'[y] = prev_index[y]
        BY Zenon, <3>3, <3>5
      <4>2. next_index \in [Idx -> Idx] /\ prev_index \in [Idx -> Idx]
        BY Zenon, <1>1 DEF TypeOK
      <4> QED BY Zenon, <4>1, <4>2, <3>2, <1>5, ShapeZeroEnd
    <3> QED BY Zenon, <3>4, <3>6, <1>2, RuleShapeNow
  <2> QED BY Zenon, <2>1, <2>2, <1>1, IdxFacts
<1>7. centry < T => RCut = {}
  BY Zenon, <1>1, IdxFacts DEF RCut
<1>8. centry >= T => RCut = {centry}
  BY Zenon, <1>1, IdxFacts DEF RCut, After
<1>9. \A x \in Idx \ RCut : next_index[x] # 0 => next_index[x] \in Idx \ {centry}
  BY <1>1, <1>7, <1>8, IdxFacts DEF RuleInv, RuleShape, Shape
<1>10. RuleEntries'
  <2>1. \A e \in Idx : /\ enable'[e] => e \in Usable /\ rule'[e] \in Rules /\ (e < T => DstHash[rule'[e]] = e)
                       /\ ~enable'[e] => next_index'[e] = 0
                       /\ dead'[e] => e < T /\ enable'[e]
    BY ZenonT(30), <1>5 DEF RuleInv, RuleEntries
  <2>2. ASSUME NEW e \in Idx, rule'[e] # NoRule PROVE enable'[e]
    <3>1. e \notin zeroed /\ rule[e] # NoRule
      BY Zenon, <2>2, <1>5
    <3>2. CASE e = centry
      BY ZenonT(30), <3>1, <3>2, <1>1, <1>4, <1>5 DEF RuleInv, RuleEntries
    <3>3. CASE e # centry
      BY Zenon, <3>1, <3>3, <1>5 DEF RuleInv, RuleEntries
    <3> QED BY Zenon, <3>2, <3>3
  <2> QED BY Zenon, <2>1, <2>2, <1>2 DEF RuleEntries
<1>11. RuleLinks'
  <2>1. ASSUME NEW x \in Idx, next_index'[x] # 0
        PROVE  /\ rule'[next_index'[x]] \in Rules /\ DstHash[rule'[next_index'[x]]] = DstHash[rule'[x]]
               /\ enable'[next_index'[x]]
    <3>1. x \notin zeroed /\ x \notin RCut /\ next_index'[x] = next_index[x]
      BY Zenon, <2>1, <1>1, <1>4, <1>5, <1>7, <1>8, IdxFacts
    <3>2. next_index[x] \in Idx \ {centry}
      BY Zenon, <3>1, <2>1, <1>9
    <3>3. rule'[next_index[x]] = rule[next_index[x]] /\ rule'[x] = rule[x] /\ enable'[next_index[x]] = enable[next_index[x]]
      BY Zenon, <3>1, <3>2, <1>4, <1>5
    <3> QED BY SMTT(30), <3>1, <3>2, <3>3, <2>1, <1>1 DEF RuleInv, RuleLinks
  <2>2. ASSUME NEW e \in Idx, enable'[e], e >= T PROVE \E x \in Idx : next_index'[x] = e
    <3>1. e \notin zeroed /\ enable[e] /\ e # 0
      BY ZenonT(30), <2>2, <1>5 DEF RuleInv, RuleEntries, Usable
    <3>2. e \notin RCut
      BY Zenon, <3>1, <2>2, <1>4, <1>7, <1>8, <1>1, IdxFacts
    <3>3. PICK x \in Idx \ RCut : next_index[x] = e
      BY Zenon, <3>1, <3>2, <2>2 DEF RuleInv, RuleLinks
    <3>4. x \notin zeroed
      BY Zenon, <3>1, <3>3, <1>1, <1>4, <1>8, IdxFacts
    <3> QED BY Zenon, <3>3, <3>4, <1>5
  <2> QED BY Zenon, <2>1, <2>2, <1>2 DEF RuleLinks
<1> QED BY Zenon, <1>3, <1>6, <1>10, <1>11 DEF RuleInv

\* Dead heads without successor are zeroed.
LEMMA RuleHeadsGone ==
  ASSUME HandleInv, RuleInv, DelDeadHeadNodes PROVE RuleInv'
<1> DEFINE gone == {e \in Base : dead[e] /\ next_index[e] = 0}
<1>1. TypeOK /\ pc = "del_dead" /\ RCut = {}
  BY Zenon DEF DelDeadHeadNodes, HandleInv, RCut, After
<1>2. RCut' = {} /\ pc' = "idle"
  BY Zenon DEF DelDeadHeadNodes, Return, RCut, After
<1>3. AddRuleInv' /\ DelRuleInv'
  BY Zenon, <1>2 DEF AddRuleInv, DelRuleInv, Before, After
<1>4. gone \subseteq Idx /\ \A e \in gone : e < T /\ e \in Nat
  BY SizesAssumption DEF Base, Idx
<1>5. ZeroRules(gone) /\ prev_index' = [e \in Idx |-> IF e \in gone THEN 0 ELSE prev_index[e]]
  BY Zenon DEF DelDeadHeadNodes
<1>6. \A e \in Idx : e \in gone <=> dead[e] /\ next_index[e] = 0
  BY SizesAssumption DEF RuleInv, RuleEntries, Base, Idx
<1> HIDE DEF gone
<1>7. /\ \A e \in Idx : enable'[e] = IF e \in gone THEN FALSE ELSE enable[e]
      /\ \A e \in Idx : dead'[e] = IF e \in gone THEN FALSE ELSE dead[e]
      /\ \A e \in Idx : rule'[e] = IF e \in gone THEN NoRule ELSE rule[e]
      /\ next_index' = next_index /\ prev_index' \in [Idx -> Idx]
      /\ \A e \in Idx : e \notin gone => prev_index'[e] = prev_index[e]
  BY <1>1, <1>5, <1>6, IdxFacts DEF ZeroRules, TypeOK
<1>8. \A x \in Idx : next_index[x] # 0 => next_index[x] \in Idx \ gone /\ x \notin gone
  BY <1>1, <1>4, <1>6, IdxFacts DEF RuleInv, RuleShape, Shape
<1>9. RuleShape'
  <2>1. Shape(next_index, prev_index', {})
    <3>1. next_index \in [Idx -> Idx] /\ prev_index \in [Idx -> Idx] /\ prev_index' \in [Idx -> Idx]
      BY Zenon, <1>1, <1>7 DEF TypeOK
    <3>2. Shape(next_index, prev_index, {})
      BY Zenon, <1>1 DEF RuleInv, RuleShape
    <3>3. \A y \in Idx : (\E x \in Idx : next_index[x] = y) /\ y # 0 => prev_index'[y] = prev_index[y]
      BY ZenonT(30), <1>7, <1>8
    <3> QED BY Zenon, <3>1, <3>2, <3>3, ShapeZeroEnd
  <2> QED BY Zenon, <2>1, <1>2, <1>7, RuleShapeNow
<1>10. RuleEntries'
  BY ZenonT(30), <1>1, <1>2, <1>6, <1>7, <1>8 DEF RuleInv, RuleEntries, After, Adding
<1>11. RuleLinks'
  <2>1. ASSUME NEW x \in Idx, next_index[x] # 0
        PROVE  /\ rule'[next_index[x]] \in Rules /\ DstHash[rule'[next_index[x]]] = DstHash[rule'[x]]
               /\ enable'[next_index[x]]
    <3>1. next_index[x] \in Idx \ gone /\ x \notin gone
      BY Zenon, <2>1, <1>8
    <3>2. rule'[next_index[x]] = rule[next_index[x]] /\ rule'[x] = rule[x] /\ enable'[next_index[x]] = enable[next_index[x]]
      BY Zenon, <3>1, <1>7
    <3> QED BY Zenon, <3>2, <2>1, <1>1 DEF RuleInv, RuleLinks
  <2>2. \A e \in Idx : enable'[e] /\ e >= T => \E x \in Idx : next_index[x] = e
    BY ZenonT(30), <1>1, <1>7 DEF RuleInv, RuleLinks
  <2> QED BY Zenon, <2>1, <2>2, <1>2, <1>7 DEF RuleLinks
<1> QED BY Zenon, <1>3, <1>9, <1>10, <1>11 DEF RuleInv

\* RuleInv is about the variables of the table only.
LEMMA RuleStutters ==
  ASSUME RuleInv, UNCHANGED vars PROVE RuleInv'
<1>1. RCut' = RCut
  BY Zenon DEF vars, RCut, call
<1>2. RuleShape'
  BY Zenon, <1>1, RuleShapeStays DEF RuleInv, vars, hwRules
<1>3. RuleEntries' /\ RuleLinks' /\ AddRuleInv' /\ DelRuleInv'
  BY ZenonT(30), <1>1 DEF RuleInv, RuleEntries, RuleLinks, AddRuleInv, DelRuleInv, OnChain, vars,
     hwRules, call
<1> QED BY Zenon, <1>2, <1>3 DEF RuleInv

\* The empty table has the shape.
LEMMA ShapeEmpty ==
  ASSUME NEW f, f = [e \in Idx |-> 0] PROVE Shape(f, f, {})
<1>1. NoCycle(f)
  BY Zenon DEF NoCycle
<1>2. Back(f)
  BY Zenon DEF Back
<1> QED BY Zenon, <1>1, <1>2 DEF Shape, Acyclic

\* RuleInv holds of the empty table.
LEMMA RuleInitially == Init => RuleInv
<1> SUFFICES ASSUME Init PROVE RuleInv
  BY Zenon
<1>1. RCut = {}
  BY Zenon DEF Init, RCut, After
<1>2. RuleShape
  BY Zenon, <1>1, ShapeEmpty DEF Init, RuleShape
<1>3. RuleEntries /\ RuleLinks /\ AddRuleInv /\ DelRuleInv
  BY Zenon DEF Init, RuleEntries, RuleLinks, AddRuleInv, DelRuleInv, Before, After
<1> QED BY Zenon, <1>2, <1>3 DEF RuleInv

\* Every step keeps RuleInv, if no DMA of an addition fails.
LEMMA RuleInvStep ==
  ASSUME DmaMayFail = FALSE, HandleInv, RuleInv, [Next]_vars PROVE RuleInv'
<1>1. CASE UNCHANGED vars
  BY Zenon, <1>1, RuleStutters
<1>2. CASE \E r \in Rules : AddRule(r)
  BY Zenon, <1>2, RuleStart
<1>3. CASE \E h \in Handles : DelRule(h)
  BY Zenon, <1>3, RuleDelStart
<1>4. CASE Step
  BY ZenonT(30), <1>4, RuleQuietAdd, RuleQuietDel, RuleCopied, RuleLinked, RuleEnabled,
     RuleUnlinked, RuleFixed,
     RuleHeadsGone, Zenon DEF Step
<1> QED BY Zenon, <1>1, <1>2, <1>3, <1>4 DEF Next
==============================================================================
