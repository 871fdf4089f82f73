--------------------------- MODULE NatTableProofs ---------------------------
(***************************************************************************)
(* Proofs about NatTable, for tables of every size, every set of rules and *)
(* every hash. First the handles, whether or not the DMA of an add may     *)
(* fail: HandleInv gives the types and what the handles name, and the      *)
(* driver implements the store of rules by handle. Then both tables, from  *)
(* RuleInv (NatRuleProofs) and IndexInv (NatIndexProofs): no cycle, no     *)
(* lost entry, every live rule on its chains.                              *)
(***************************************************************************)
EXTENDS NatIndexProofs, FiniteSetTheorems

(***************************************************************************)
(* Type correctness.                                                       *)
(***************************************************************************)
\* A table that was just reset (ipa_nati_reset_ipv4_table) is well typed.
LEMMA TypeInit == Init => TypeOK
BY SizesAssumption DEF Init, TypeOK, Idx, Handles, Pcs

\* No write of the driver leaves the types; HandleInv gives MakeRuleHdl its slot.
LEMMA TypeStep == HandleInv /\ [Next]_vars => TypeOK'
<1> SUFFICES ASSUME HandleInv, [Next]_vars PROVE TypeOK'
    BY Zenon
<1> USE SizesAssumption, HashAssumption
<1>a. TypeOK /\ CallInv /\ IdsInv
    BY Zenon DEF HandleInv
<1>b. 0 \in Idx /\ 1 .. T - 1 \subseteq Idx /\ ExpnUsable \subseteq Idx /\ Handles \subseteq Nat
      /\ Idx \subseteq Nat /\ ExpnUsable \subseteq Nat
    BY DEF Idx, ExpnUsable, Handles
<1>1. CASE vars' = vars
    BY Zenon, <1>1, <1>a DEF vars, hwRules, hwIndex, call, TypeOK
<1>2. ASSUME NEW r \in Rules, AddRule(r) PROVE TypeOK'
    BY <1>2, <1>a, <1>b DEF AddRule, TypeOK, hwRules, hwIndex, Pcs
<1>3. ASSUME NEW h \in Handles, DelRule(h) PROVE TypeOK'
    <2>1. Used(h)
        BY <1>3, <1>a DEF DelRule, Parses, Used, IdEntry, TypeOK
    <2>2. EntryOfHandle(h) \in Idx
        BY Zenon, <2>1, <1>a, EntryOfUsed DEF Usable
    <2>3. indx_tbl_entry[EntryOfHandle(h)] \in Idx
        BY Zenon, <2>2, <1>a DEF TypeOK
    <2> QED BY Zenon, <1>3, <1>a, <2>2, <2>3 DEF DelRule, TypeOK, hwRules, hwIndex, Pcs, Position
<1>4. CASE Walk
    BY <1>4, <1>a, <1>b DEF Walk, Return, TypeOK, hwRules, hwIndex, call, Pcs
<1>5. CASE ExpnFreeEntry
    <2> DEFINE free == {e \in ExpnUsable : ~enable[e]}
    <2>1. free # {} => MinOf(free) \in Idx
        BY Zenon, <1>b, MinOfProps
    <2> QED BY Zenon, <1>5, <2>1, <1>a, <1>b DEF ExpnFreeEntry, Return, TypeOK, hwRules, hwIndex, Pcs
<1>6. CASE IndexRule
    BY <1>6, <1>a, <1>b DEF IndexRule, TypeOK, hwRules, hwIndex, Pcs, CallInv, Deleting
<1>7. CASE IndexWalk
    BY Zenon, <1>7, <1>a, <1>b DEF IndexWalk, Return, TypeOK, hwRules, hwIndex, call, Pcs
<1>8. CASE IndexExpnFreeEntry
    <2> DEFINE free == {i \in ExpnUsable : tbl_entry[i] = 0}
    <2>1. free # {} => MinOf(free) \in Idx
        BY Zenon, <1>b, MinOfProps
    <2> QED BY Zenon, <1>8, <2>1, <1>a, <1>b DEF IndexExpnFreeEntry, Return, TypeOK, hwRules, hwIndex, Pcs
<1>9. CASE CopyRule
    BY Zenon, <1>9, <1>a, <1>b DEF CopyRule, TypeOK, call, Pcs
<1>10. CASE LinkRule
    BY <1>10, <1>a DEF LinkRule, TypeOK, hwIndex, call, Pcs
<1>11. CASE CopyIndexRule
    BY Zenon, <1>11, <1>a, <1>b DEF CopyIndexRule, TypeOK, hwRules, call, Pcs
<1>12. CASE LinkIndexRule
    BY <1>12, <1>a DEF LinkIndexRule, TypeOK, hwRules, call, Pcs
<1>13. CASE PostDmaCmd
    <2>1. enable' \in [Idx -> BOOLEAN]
        BY Zenon, <1>13, <1>a DEF PostDmaCmd, TypeOK
    <2>2. CASE pc' = "hdl" /\ UNCHANGED call
        BY Zenon, <2>1, <2>2, <1>13, <1>a DEF PostDmaCmd, TypeOK, hwIndex, call, Pcs
    <2>3. CASE Return
        BY Zenon, <2>1, <2>3, <1>13, <1>a, <1>b DEF PostDmaCmd, Return, TypeOK, hwIndex, Pcs
    <2> QED BY Zenon, <2>2, <2>3, <1>13 DEF PostDmaCmd
<1>14. CASE MakeRuleHdl
    <2>1. rule_id_array' \in [Handles -> 0 .. 2 * (T + E)]
        <3>1. RuleId(centry) \in 0 .. 2 * (T + E)
            BY Zenon, <1>a, RuleIdRoundTrip DEF TypeOK
        <3> QED BY ZenonT(30), <3>1, <1>14, <1>a DEF MakeRuleHdl, TypeOK
    <2> QED BY Zenon, <2>1, <1>14, <1>a, <1>b DEF MakeRuleHdl, Return, TypeOK, hwRules, hwIndex, Pcs
<1>15. CASE DelIndexDma
    <2>1. cipos \in {"ONLY_ONE", "HEAD", "MIDDLE", "LAST"}
        BY Zenon, <1>15, <1>a DEF DelIndexDma, TypeOK, CallInv, Deleting
    <2>2. tbl_entry' \in [Idx -> Idx] /\ indx_next' \in [Idx -> Idx]
        BY <2>1, <1>15, <1>a, <1>b DEF DelIndexDma, TypeOK
    <2> QED BY Zenon, <2>2, <1>15, <1>a DEF DelIndexDma, TypeOK, hwRules, call, Pcs
<1>16. CASE DelIndexHeadNext
    BY Zenon, <1>16, <1>a DEF DelIndexHeadNext, TypeOK, hwRules, call, Pcs
<1>17. CASE DelBaseDma
    BY Zenon, <1>17, <1>a, <1>b DEF DelBaseDma, TypeOK, hwIndex, call, Pcs, Position
<1>18. CASE DelFix
    <2> DEFINE freed == IF cipos = "HEAD" THEN ciprev ELSE cindx
    <2>1. freed \in Idx /\ indx_next[freed] \in Idx /\ cindx \in Idx
        BY Zenon, <1>a DEF TypeOK
    <2>2. indx_prev' \in [Idx -> Idx]
        <3>1. CASE cipos = "HEAD"
            BY Zenon, <3>1, <2>1, <1>18, <1>a DEF DelFix, TypeOK
        <3>2. CASE cipos = "MIDDLE"
            BY ZenonT(30), <3>2, <2>1, <1>18, <1>a, <1>b DEF DelFix, TypeOK
        <3>3. CASE cipos \notin {"HEAD", "MIDDLE"}
            BY Zenon, <3>3, <1>18, <1>a DEF DelFix, TypeOK
        <3> QED BY Zenon, <3>1, <3>2, <3>3
    <2>3. tbl_entry' \in [Idx -> Idx] /\ indx_next' \in [Idx -> Idx]
        BY Zenon, <2>1, <1>18, <1>a, <1>b DEF DelFix, TypeOK
    <2>4. prev_index' \in [Idx -> Idx] /\ indx_tbl_entry' \in [Idx -> Idx]
        BY <1>18, <1>a, <1>b DEF DelFix, TypeOK
    <2>5. /\ enable' \in [Idx -> BOOLEAN] /\ dead' \in [Idx -> BOOLEAN]
          /\ rule' \in [Idx -> Rules \cup {NoRule}] /\ next_index' \in [Idx -> Idx]
        BY ZenonT(30), <1>18, <1>a, <1>b DEF DelFix, ZeroRules, TypeOK
    <2> QED BY Zenon, <2>2, <2>3, <2>4, <2>5, <1>18, <1>a DEF DelFix, TypeOK, call, Pcs
<1>19. CASE DelDeadHeadNodes
    <2>1. prev_index' \in [Idx -> Idx] /\ indx_tbl_entry' \in [Idx -> Idx]
        BY Zenon, <1>19, <1>a, <1>b DEF DelDeadHeadNodes, TypeOK
    <2>2. /\ enable' \in [Idx -> BOOLEAN] /\ dead' \in [Idx -> BOOLEAN]
          /\ rule' \in [Idx -> Rules \cup {NoRule}] /\ next_index' \in [Idx -> Idx]
        BY Zenon, <1>19, <1>a, <1>b DEF DelDeadHeadNodes, ZeroRules, TypeOK
    <2>3. rule_id_array' \in [Handles -> 0 .. 2 * (T + E)]
        <3>1. 0 \in 0 .. 2 * (T + E)
            OBVIOUS
        <3> QED BY Zenon, <3>1, <1>19, <1>a DEF DelDeadHeadNodes, TypeOK
    <2> QED BY Zenon, <2>1, <2>2, <2>3, <1>19, <1>a, <1>b
            DEF DelDeadHeadNodes, Return, TypeOK, hwIndex, Pcs
<1> QED BY Zenon, <1>1, <1>2, <1>3, <1>4, <1>5, <1>6, <1>7, <1>8, <1>9, <1>10, <1>11, <1>12,
           <1>13, <1>14, <1>15, <1>16, <1>17, <1>18, <1>19 DEF Next, Step

(***************************************************************************)
(* Handles.  Only MakeRuleHdl and the end of a delete change the ids.      *)
(***************************************************************************)
\* The facts about ids survive every step that leaves rule_id_array alone.
LEMMA IdsUnchanged == IdsInv /\ UNCHANGED rule_id_array => IdsInv'
BY Zenon DEF IdsInv, Used, EntryOfHandle

\* The pigeonhole: a rule that is being added has an entry no handle names, and
\* there are two more slots than entries, so some slot below T + E is free.
LEMMA FreeSlot ==
    ASSUME HandleInv, pc = "hdl"
    PROVE  \E h \in Handles : ~Used(h) /\ h < T + E
<1> SUFFICES ASSUME \A h \in Handles : h < T + E => Used(h) PROVE FALSE
    BY Zenon
<1> USE SizesAssumption
<1> DEFINE S == 1 .. T + E - 1
           N == 1 .. T + E - 2
           f == [h \in S |-> IF EntryOfHandle(h) < T THEN EntryOfHandle(h)
                                                      ELSE EntryOfHandle(h) - 1]
<1>1. \A h \in S : h \in Handles /\ Used(h)
    BY DEF Handles
<1>2. \A h \in S : EntryOfHandle(h) \in Usable
    BY Zenon, <1>1, EntryOfUsed DEF HandleInv
<1>3. f \in [S -> N]
    BY <1>2 DEF Usable, Idx
<1>4. IsFiniteSet(S) /\ IsFiniteSet(N) /\ Cardinality(S) = T + E - 1 /\ Cardinality(N) = T + E - 2
    BY FS_Interval
<1>5. PICK h, k \in S : h # k /\ f[h] = f[k]
    <2> HIDE DEF f, S, N
    <2>1. Cardinality(N) < Cardinality(S)
        BY <1>4
    <2> QED BY Zenon, <1>3, <1>4, <2>1, FS_PigeonHole
<1>6. EntryOfHandle(h) = EntryOfHandle(k)
    BY <1>2, <1>5 DEF Usable, Idx
<1> QED BY Zenon, <1>1, <1>5, <1>6 DEF HandleInv, IdsInv

\* The inductive invariant holds of a table that was just reset.
LEMMA HandleInit == Init => HandleInv
<1> SUFFICES ASSUME Init PROVE HandleInv
    BY Zenon
<1>1. TypeOK
    BY Zenon, TypeInit
<1>2. CallInv
    BY Zenon DEF Init, CallInv, Deleting
<1>3. IdsInv
    BY Zenon DEF Init, IdsInv, Used
<1>4. RulesInv
    BY Zenon DEF Init, RulesInv, LiveHandles
<1> QED BY Zenon, <1>1, <1>2, <1>3, <1>4 DEF HandleInv

\* The steps that write neither rules nor ids.
Quiet == UNCHANGED <<enable, dead, rule, rule_id_array>>

\* ipa_nati_make_rule_hdl takes an id no handle has; a delete frees its own slot.
LEMMA IdsStep == HandleInv /\ [Next]_vars => IdsInv'
<1> SUFFICES ASSUME HandleInv, [Next]_vars PROVE IdsInv'
    BY Zenon
<1>a. TypeOK /\ CallInv /\ IdsInv
    BY Zenon DEF HandleInv
<1>1. CASE MakeRuleHdl
    <2> DEFINE free == {h \in Handles : rule_id_array[h] = 0}
               m == MinOf(free)
    <2>1. PICK k \in Handles : ~Used(k) /\ k < T + E
        BY Zenon, <1>1, FreeSlot DEF MakeRuleHdl
    <2>2. free \in SUBSET Nat /\ free # {} /\ k \in free
        BY <2>1, SizesAssumption DEF Used, Handles
    <2>3. m \in free /\ m <= k
        BY Zenon, <2>2, MinOfProps
    <2>4. m \in Handles /\ ~Used(m) /\ m < T + E
        BY <2>1, <2>3, SizesAssumption DEF Used, Handles
    <2>5. rule_id_array' = [rule_id_array EXCEPT ![m] = RuleId(centry)]
        BY Zenon, <1>1, <2>2 DEF MakeRuleHdl
    <2>6. /\ centry \in Usable
          /\ \A h \in Handles : Used(h) => EntryOfHandle(h) # centry
        BY Zenon, <1>1, <1>a DEF MakeRuleHdl, CallInv
    <2>7. EntryOf(RuleId(centry)) = centry
        BY Zenon, <2>6, RuleIdRoundTrip DEF Usable
    <2> HIDE DEF m
    <2>8. \A h \in Handles : rule_id_array'[h] = IF h = m THEN RuleId(centry) ELSE rule_id_array[h]
        BY Zenon, <2>4, <2>5, <1>a DEF TypeOK
    <2> QED BY <2>4, <2>6, <2>7, <2>8, <1>a DEF IdsInv, Used, EntryOfHandle
<1>2. CASE DelDeadHeadNodes
    <2>1. \A h \in Handles : rule_id_array'[h] = IF h = chdl THEN 0 ELSE rule_id_array[h]
        BY Zenon, <1>2, <1>a DEF DelDeadHeadNodes, TypeOK
    <2> QED BY Zenon, <2>1, <1>a DEF IdsInv, Used, EntryOfHandle
<1>3. CASE ~MakeRuleHdl /\ ~DelDeadHeadNodes
    <2>1. UNCHANGED rule_id_array
        BY Zenon, <1>3 DEF Next, Step, vars, AddRule, DelRule, Walk, ExpnFreeEntry, IndexRule,
           IndexWalk,
              IndexExpnFreeEntry, CopyRule, LinkRule, CopyIndexRule, LinkIndexRule, PostDmaCmd,
              DelIndexDma, DelIndexHeadNext, DelBaseDma, DelFix
    <2> QED BY Zenon, <2>1, <1>a, IdsUnchanged
<1> QED BY Zenon, <1>1, <1>2, <1>3

\* A step that writes neither rules nor ids keeps RulesInv, unless it stops being
\* a delete or turns to another handle.
LEMMA RulesQuiet ==
    ASSUME HandleInv, Quiet, pc # "hdl", LiveHandles' \subseteq LiveHandles
    PROVE  RulesInv'
BY Zenon DEF HandleInv, Quiet, RulesInv, Used, EntryOfHandle

\* Every enabled rule keeps its handle, and every handle its enabled rule, except
\* while the call that adds or deletes the rule is under way.
LEMMA RulesStep == HandleInv /\ [Next]_vars => RulesInv'
<1> SUFFICES ASSUME HandleInv, [Next]_vars PROVE RulesInv'
    BY Zenon
<1>a. TypeOK /\ CallInv /\ IdsInv /\ RulesInv
    BY Zenon DEF HandleInv
<1>b. \A h \in Handles : Used(h) => EntryOfHandle(h) \in Idx
    BY Zenon, <1>a, EntryOfUsed DEF Usable
<1>c. \A h \in LiveHandles : h \in Handles /\ Used(h)
    BY Zenon DEF LiveHandles, Used
<1>1. CASE vars' = vars
    BY Zenon, <1>1, <1>a DEF vars, hwRules, call, RulesInv, LiveHandles, Deleting, Used, EntryOfHandle
<1>2. ASSUME NEW r \in Rules, AddRule(r) PROVE RulesInv'
    <2>1. Quiet /\ pc # "hdl" /\ LiveHandles' \subseteq LiveHandles
        BY Zenon, <1>2 DEF AddRule, Quiet, hwRules, LiveHandles, Deleting
    <2> QED BY Zenon, <2>1, RulesQuiet
<1>3. ASSUME NEW h \in Handles, DelRule(h) PROVE RulesInv'
    <2>1. Quiet /\ pc # "hdl" /\ LiveHandles' \subseteq LiveHandles
        BY Zenon, <1>3 DEF DelRule, Quiet, hwRules, LiveHandles, Deleting
    <2> QED BY Zenon, <2>1, RulesQuiet
<1>4. CASE \/ Walk \/ ExpnFreeEntry \/ IndexRule \/ IndexWalk \/ IndexExpnFreeEntry
           \/ LinkRule \/ CopyIndexRule \/ LinkIndexRule
    <2>1. Quiet /\ pc # "hdl" /\ LiveHandles' \subseteq LiveHandles
        BY Zenon, <1>4 DEF Walk, ExpnFreeEntry, IndexRule, IndexWalk, IndexExpnFreeEntry, LinkRule,
              CopyIndexRule, LinkIndexRule, Return, Quiet, hwRules, call, LiveHandles, Deleting
    <2> QED BY Zenon, <2>1, RulesQuiet
<1>5. CASE DelIndexDma \/ DelIndexHeadNext
    <2>1. Quiet /\ pc # "hdl" /\ LiveHandles' \subseteq LiveHandles
        BY Zenon, <1>5 DEF DelIndexDma, DelIndexHeadNext, Quiet, hwRules, call, LiveHandles,
           Deleting
    <2> QED BY Zenon, <2>1, RulesQuiet
<1>6. CASE CopyRule
    <2>1. /\ centry \in Idx /\ ~enable[centry]
          /\ enable' = [enable EXCEPT ![centry] = FALSE]
          /\ dead' = [dead EXCEPT ![centry] = FALSE]
          /\ rule' = [rule EXCEPT ![centry] = crule]
        BY Zenon, <1>6, <1>a DEF CopyRule, CallInv, TypeOK
    <2>2. UNCHANGED rule_id_array /\ LiveHandles' = LiveHandles /\ pc # "hdl"
        BY Zenon, <1>6 DEF CopyRule, call, LiveHandles, Deleting
    <2>3. \A h \in LiveHandles : EntryOfHandle(h) # centry
        BY Zenon, <2>1, <1>a DEF RulesInv
    <2> QED BY Zenon, <2>1, <2>2, <2>3, <1>a, <1>b, <1>c DEF RulesInv, TypeOK, Used, EntryOfHandle
<1>7. CASE PostDmaCmd
    <2>1. /\ centry \in Idx /\ ~enable[centry]
          /\ UNCHANGED <<dead, rule, rule_id_array>> /\ pc # "hdl"
          /\ LiveHandles' = LiveHandles
        BY Zenon, <1>7, <1>a DEF PostDmaCmd, CallInv, TypeOK, Return, call, LiveHandles, Deleting
    <2>2. CASE enable' = enable
        BY Zenon, <2>1, <2>2, <1>a DEF RulesInv, Used, EntryOfHandle
    <2>3. CASE enable' = [enable EXCEPT ![centry] = TRUE] /\ pc' = "hdl" /\ centry' = centry
        BY Zenon, <2>1, <2>3, <1>a, <1>b, <1>c DEF RulesInv, Used, EntryOfHandle, TypeOK
    <2> QED BY Zenon, <2>2, <2>3, <1>7 DEF PostDmaCmd, call
<1>8. CASE MakeRuleHdl
    <2> DEFINE free == {h \in Handles : rule_id_array[h] = 0}
               m == MinOf(free)
    <2>1. free # {}
        BY Zenon, <1>8, FreeSlot DEF MakeRuleHdl, Used
    <2>2. m \in free
        BY <2>1, MinOfProps, SizesAssumption DEF Handles
    <2>3. UNCHANGED <<enable, dead, rule>>
        BY Zenon, <1>8 DEF MakeRuleHdl, hwRules
    <2>4. /\ centry \in Usable /\ enable[centry] /\ ~dead[centry]
          /\ rule[centry] = crule /\ crule \in Rules
        BY Zenon, <1>8, <1>a DEF MakeRuleHdl, CallInv, Deleting
    <2>5. EntryOf(RuleId(centry)) = centry /\ RuleId(centry) # 0
        BY Zenon, <2>4, RuleIdRoundTrip DEF Usable
    <2>6. rule_id_array' = [rule_id_array EXCEPT ![m] = RuleId(centry)]
        BY Zenon, <2>1, <1>8 DEF MakeRuleHdl
    <2> HIDE DEF m
    <2>7. \A h \in Handles : rule_id_array'[h] = IF h = m THEN RuleId(centry) ELSE rule_id_array[h]
        BY Zenon, <2>2, <2>6, <1>a DEF TypeOK
    <2>8. LiveHandles' = LiveHandles \cup {m}
        BY Zenon, <2>2, <2>5, <2>7, <1>8 DEF MakeRuleHdl, Return, LiveHandles, Deleting
    <2>9. \A h \in LiveHandles : h # m
        BY Zenon, <2>2, <1>c DEF Used
    <2> QED BY <2>2, <2>3, <2>4, <2>5, <2>7, <2>8, <2>9, <1>a, <1>b, <1>c
            DEF RulesInv, Used, EntryOfHandle
<1>9. CASE DelBaseDma
    <2>1. /\ UNCHANGED <<rule, rule_id_array>> /\ LiveHandles' = LiveHandles /\ pc # "hdl"
          /\ Deleting
        BY Zenon, <1>9 DEF DelBaseDma, call, LiveHandles, Deleting
    <2>2. \A h \in LiveHandles : EntryOfHandle(h) # centry
        BY Zenon, <2>1, <1>a DEF CallInv, IdsInv, LiveHandles, Used
    <2>3. \A e \in Idx : e # centry => enable'[e] = enable[e] /\ dead'[e] = dead[e]
        BY Zenon, <1>9, <1>a DEF DelBaseDma, TypeOK
    <2>4. centry \in Idx /\ Used(chdl) /\ EntryOfHandle(chdl) = centry /\ chdl \in Handles
        BY Zenon, <2>1, <1>a DEF CallInv, TypeOK
    <2> QED BY Zenon, <2>1, <2>2, <2>3, <2>4, <1>a, <1>b, <1>c DEF RulesInv, Used, EntryOfHandle
<1>10. CASE DelFix
    <2>1. /\ UNCHANGED rule_id_array /\ LiveHandles' = LiveHandles /\ pc # "hdl"
          /\ Deleting
        BY Zenon, <1>10 DEF DelFix, call, LiveHandles, Deleting
    <2>2. \A h \in LiveHandles : EntryOfHandle(h) # centry
        BY Zenon, <2>1, <1>a DEF CallInv, IdsInv, LiveHandles, Used
    <2>3. \A e \in Idx : e # centry => enable'[e] = enable[e] /\ dead'[e] = dead[e] /\ rule'[e] = rule[e]
        BY Zenon, <1>10, <1>a DEF DelFix, ZeroRules, TypeOK
    <2>4. centry \in Idx /\ Used(chdl) /\ EntryOfHandle(chdl) = centry /\ chdl \in Handles
        BY Zenon, <2>1, <1>a DEF CallInv, TypeOK
    <2> QED BY Zenon, <2>1, <2>2, <2>3, <2>4, <1>a, <1>b, <1>c DEF RulesInv, Used, EntryOfHandle
<1>11. CASE DelDeadHeadNodes
    <2>1. Deleting /\ pc = "del_dead" /\ pc' = "idle" /\ chdl \in Handles
          /\ centry = EntryOfHandle(chdl) /\ (~enable[centry] \/ dead[centry])
        BY Zenon, <1>11, <1>a DEF DelDeadHeadNodes, Return, Deleting, CallInv
    <2>2. \A h \in Handles : rule_id_array'[h] = IF h = chdl THEN 0 ELSE rule_id_array[h]
        BY Zenon, <1>11, <1>a DEF DelDeadHeadNodes, TypeOK
    <2>3. LiveHandles' = LiveHandles
        BY Zenon, <2>1, <2>2 DEF LiveHandles, Deleting
    <2>4. \A h \in LiveHandles : h # chdl
        BY Zenon, <2>1 DEF LiveHandles
    <2>5. \A e \in Idx : /\ enable'[e] => enable[e]
                         /\ dead[e] => ~enable'[e] \/ dead'[e]
                         /\ ~dead[e] => enable'[e] = enable[e] /\ ~dead'[e] /\ rule'[e] = rule[e]
        BY ZenonT(30), <1>11, <1>a DEF DelDeadHeadNodes, ZeroRules, TypeOK
    <2>6. \A h \in Handles : h # chdl => EntryOfHandle(h)' = EntryOfHandle(h) /\ Used(h)' = Used(h)
        BY Zenon, <2>2 DEF EntryOfHandle, Used
    <2>7. \A h \in LiveHandles' : enable'[EntryOfHandle(h)'] /\ ~dead'[EntryOfHandle(h)']
                                  /\ rule'[EntryOfHandle(h)'] \in Rules
        BY <2>3, <2>4, <2>5, <2>6, <1>a, <1>b, <1>c DEF RulesInv
    <2>8. ASSUME NEW e \in Idx, enable'[e], ~dead'[e]
          PROVE  \E h \in Handles : Used(h)' /\ EntryOfHandle(h)' = e
        <3>1. enable[e] /\ ~dead[e]
            BY Zenon, <2>5, <2>8
        <3>2. PICK h \in Handles : Used(h) /\ EntryOfHandle(h) = e
            BY Zenon, <3>1, <2>1, <1>a DEF RulesInv
        <3>3. h # chdl
            BY Zenon, <3>1, <3>2, <2>1
        <3> QED BY Zenon, <3>2, <3>3, <2>6
    <2> QED BY Zenon, <2>7, <2>8 DEF RulesInv
<1> QED BY Zenon, <1>1, <1>2, <1>3, <1>4, <1>5, <1>6, <1>7, <1>8, <1>9, <1>10, <1>11 DEF Next, Step

\* The locals of the call in progress stay consistent with the tables it works on.
LEMMA CallStep == HandleInv /\ [Next]_vars => CallInv'
<1> SUFFICES ASSUME HandleInv, [Next]_vars PROVE CallInv'
    BY Zenon
<1> USE SizesAssumption, HashAssumption
<1>a. TypeOK /\ CallInv /\ IdsInv /\ RulesInv
    BY Zenon DEF HandleInv
<1>b. 1 .. T - 1 \subseteq Usable /\ ExpnUsable \subseteq Usable /\ ExpnUsable \subseteq Nat
    BY DEF Usable, Idx, ExpnUsable
<1>1. CASE vars' = vars
    BY Zenon, <1>1, <1>a DEF vars, hwRules, hwIndex, call, CallInv, Deleting, Used, EntryOfHandle
<1>2. ASSUME NEW r \in Rules, AddRule(r) PROVE CallInv'
    BY Zenon, <1>2, <1>b DEF AddRule, hwRules, CallInv, Deleting
<1>3. ASSUME NEW h \in Handles, DelRule(h) PROVE CallInv'
    <2>1. Used(h)
        BY <1>3, <1>a DEF DelRule, Parses, Used, IdEntry, TypeOK
    <2>2. Used(h)' /\ EntryOfHandle(h)' = EntryOfHandle(h)
        BY Zenon, <2>1, <1>3 DEF DelRule, Used, EntryOfHandle
    <2>3. cipos' # "none"
        BY Zenon, <1>3 DEF DelRule, Position
    <2> QED BY Zenon, <2>2, <2>3, <1>3 DEF DelRule, CallInv, Deleting
<1>4. CASE Walk
    BY Zenon, <1>4, <1>a DEF Walk, Return, hwRules, call, CallInv, Deleting
<1>5. CASE ExpnFreeEntry
    <2> DEFINE free == {e \in ExpnUsable : ~enable[e]}
    <2>1. free # {} => MinOf(free) \in free
        BY Zenon, <1>b, MinOfProps
    <2> QED BY ZenonT(30), <1>5, <2>1, <1>a, <1>b DEF ExpnFreeEntry, Return, hwRules, CallInv, Deleting
<1>6. CASE IndexRule
    BY Zenon, <1>6, <1>a DEF IndexRule, hwRules, CallInv, Deleting
<1>7. CASE IndexWalk
    BY Zenon, <1>7, <1>a DEF IndexWalk, Return, hwRules, call, CallInv, Deleting
<1>8. CASE IndexExpnFreeEntry
    BY Zenon, <1>8, <1>a DEF IndexExpnFreeEntry, Return, hwRules, CallInv, Deleting
<1>9. CASE CopyRule
    BY Zenon, <1>9, <1>a DEF CopyRule, call, CallInv, Deleting, Usable, TypeOK
<1>10. CASE LinkRule
    BY ZenonT(30), <1>10, <1>a DEF LinkRule, call, CallInv, Deleting
<1>11. CASE CopyIndexRule \/ LinkIndexRule
    BY Zenon, <1>11, <1>a DEF CopyIndexRule, LinkIndexRule, hwRules, call, CallInv, Deleting
<1>12. CASE PostDmaCmd
    <2>1. \A h \in Handles : Used(h) => EntryOfHandle(h) # centry
        BY Zenon, <1>12, <1>a DEF PostDmaCmd, CallInv, RulesInv, LiveHandles, Deleting, Used
    <2>2. CASE pc' = "hdl" /\ UNCHANGED call /\ enable' = [enable EXCEPT ![centry] = TRUE]
        <3>1. centry \in Usable /\ centry \in Idx /\ crule \in Rules
            BY Zenon, <1>12, <1>a DEF PostDmaCmd, CallInv, Deleting, TypeOK
        <3>2. enable'[centry]
            BY Zenon, <3>1, <2>2, <1>a DEF TypeOK
        <3>3. \A h \in Handles : Used(h)' => EntryOfHandle(h)' # centry
            BY Zenon, <2>1, <1>12 DEF PostDmaCmd, Used, EntryOfHandle
        <3>4. ~dead[centry] /\ rule[centry] = crule
            BY Zenon, <1>12, <1>a DEF PostDmaCmd, CallInv
        <3> QED BY Zenon, <3>1, <3>2, <3>3, <3>4, <2>2, <1>12 DEF PostDmaCmd, call, CallInv, Deleting
    <2>3. CASE Return
        BY Zenon, <2>3 DEF Return, CallInv, Deleting
    <2> QED BY Zenon, <2>2, <2>3, <1>12 DEF PostDmaCmd
<1>13. CASE MakeRuleHdl \/ DelDeadHeadNodes
    BY Zenon, <1>13 DEF MakeRuleHdl, DelDeadHeadNodes, Return, CallInv, Deleting
<1>14. CASE DelIndexDma \/ DelIndexHeadNext
    BY Zenon, <1>14, <1>a DEF DelIndexDma, DelIndexHeadNext, hwRules, call, CallInv, Deleting,
       Used, EntryOfHandle
<1>15. CASE DelBaseDma
    <2>1. /\ pc \in {"del_base", "del_base_first"} /\ pc' \in {"del_fix", "del_index_last"}
          /\ UNCHANGED <<rule_id_array, chdl, centry, cipos, crule>>
        BY Zenon, <1>15 DEF DelBaseDma, call
    <2>2. centry < T => dead'[centry] \/ next_index'[centry] = 0
        <3>1. CASE next_index[centry] = 0
            BY Zenon, <3>1, <1>15, <1>a DEF DelBaseDma, Position, TypeOK, Idx
        <3>2. CASE next_index[centry] # 0
            BY <3>2, <1>15, <1>a DEF DelBaseDma, Position, TypeOK, Idx
        <3> QED BY Zenon, <3>1, <3>2
    <2> QED BY Zenon, <2>1, <2>2, <1>a DEF CallInv, Deleting, Used, EntryOfHandle
<1>16. CASE DelFix
    <2>1. /\ pc = "del_fix" /\ pc' = "del_dead"
          /\ UNCHANGED <<rule_id_array, chdl, centry, cipos, crule>>
        BY Zenon, <1>16 DEF DelFix, call
    <2>2. ~enable'[centry] \/ dead'[centry]
        BY <1>16, <1>a DEF DelFix, ZeroRules, Position, CallInv, TypeOK, Idx
    <2> QED BY Zenon, <2>1, <2>2, <1>a DEF CallInv, Deleting, Used, EntryOfHandle
<1> QED BY Zenon, <1>1, <1>2, <1>3, <1>4, <1>5, <1>6, <1>7, <1>8, <1>9, <1>10, <1>11, <1>12,
           <1>13, <1>14, <1>15, <1>16 DEF Next, Step

\* The invariant behind the theorems below holds in every reachable state.
THEOREM HandlesInvariant == Spec => []HandleInv
<1>1. HandleInv /\ [Next]_vars => HandleInv'
    BY TypeStep, CallStep, IdsStep, RulesStep DEF HandleInv
<1> QED BY HandleInit, <1>1, PTL DEF Spec

\* No step computes an entry number, a rule id or a handle outside the tables.
THEOREM TypeCorrect == Spec => []TypeOK
BY HandlesInvariant, PTL DEF HandleInv

\* Live handles name distinct, enabled rules, whatever DMA fails.
THEOREM HandlesAreDistinct == Spec => []HandlesDistinct
<1>1. HandleInv => HandlesDistinct
    BY DEF HandleInv, IdsInv, RulesInv, HandlesDistinct, LiveHandles, Used
<1> QED BY <1>1, HandlesInvariant, PTL

\* The driver accepts every handle it has given out.
THEOREM HandlesAlwaysParse == Spec => []HandlesParse
<1>1. ASSUME HandleInv, NEW h \in LiveHandles PROVE Parses(h)
    <2>1. h \in Handles /\ Used(h) /\ h < T + E
        BY Zenon, <1>1 DEF HandleInv, IdsInv, LiveHandles, Used
    <2>2. PICK e \in Usable : rule_id_array[h] = RuleId(e)
        BY Zenon, <1>1, <2>1 DEF HandleInv, IdsInv
    <2> QED BY Zenon, <2>1, <2>2, RuleIdRoundTrip DEF Parses, Usable
<1>2. HandleInv => HandlesParse
    BY <1>1 DEF HandlesParse
<1> QED BY <1>2, HandlesInvariant, PTL

\* Between calls no enabled rule is without a handle, whatever DMA fails.
THEOREM RulesHaveHandles == Spec => []EveryRuleHasHandle
<1>1. HandleInv => EveryRuleHasHandle
    BY DEF HandleInv, RulesInv, EveryRuleHasHandle, LiveHandles, Used, Deleting
<1> QED BY <1>1, HandlesInvariant, PTL

(***************************************************************************)
(* Refinement: each step changes the store at one handle or not at all.    *)
(***************************************************************************)
\* A step that writes neither rules nor ids does not change the store.
LEMMA StoreUnchanged ==
    ASSUME LiveHandles' = LiveHandles, UNCHANGED rule_id_array,
           \A h \in LiveHandles : rule'[EntryOfHandle(h)] = rule[EntryOfHandle(h)]
    PROVE  UNCHANGED Store
BY Zenon DEF Store, EntryOfHandle

\* Every write of the driver adds one rule to the store, removes one, or is
\* invisible there.
LEMMA StoreStep == HandleInv /\ [Next]_vars => [Abs!Next]_Store
<1> SUFFICES ASSUME HandleInv, [Next]_vars PROVE Abs!Next \/ UNCHANGED Store
    BY Zenon
<1>a. TypeOK /\ CallInv /\ IdsInv /\ RulesInv
    BY Zenon DEF HandleInv
<1>b. \A h \in LiveHandles : h \in Handles /\ Used(h) /\ EntryOfHandle(h) \in Idx
    BY Zenon, <1>a, EntryOfUsed DEF LiveHandles, Used, Usable
<1>1. CASE vars' = vars
    BY Zenon, <1>1 DEF vars, hwRules, call, Store, LiveHandles, Deleting, EntryOfHandle
<1>2. ASSUME NEW r \in Rules, AddRule(r) PROVE UNCHANGED Store
    BY Zenon, <1>2, StoreUnchanged DEF AddRule, hwRules, LiveHandles, Deleting
<1>3. ASSUME NEW k \in Handles, DelRule(k) PROVE Abs!Next
    <2>1. /\ ~Deleting /\ Deleting' /\ chdl' = k
          /\ UNCHANGED <<rule, rule_id_array>>
        BY Zenon, <1>3 DEF DelRule, Deleting, hwRules
    <2>2. Used(k)
        BY <1>3, <1>a DEF DelRule, Parses, Used, IdEntry, TypeOK
    <2>3. k \in LiveHandles /\ LiveHandles' = LiveHandles \ {k}
        BY Zenon, <2>1, <2>2 DEF LiveHandles, Used
    <2>4. Store[k] \in Rules
        BY Zenon, <2>3, <1>a DEF Store, RulesInv
    <2>5. Store' = [Store EXCEPT ![k] = NoRule]
        BY Zenon, <2>1, <2>3 DEF Store, EntryOfHandle
    <2> QED BY ZenonT(30), <2>4, <2>5, RulesAssumption DEF Abs!Next, Abs!Del
<1>4. CASE \/ Walk \/ ExpnFreeEntry \/ IndexRule \/ IndexWalk \/ IndexExpnFreeEntry
           \/ LinkRule \/ CopyIndexRule \/ LinkIndexRule \/ PostDmaCmd
    <2>1. LiveHandles' = LiveHandles /\ UNCHANGED <<rule, rule_id_array>>
        BY Zenon, <1>4 DEF Walk, ExpnFreeEntry, IndexRule, IndexWalk, IndexExpnFreeEntry, LinkRule,
              CopyIndexRule, LinkIndexRule, PostDmaCmd, Return, hwRules, call, LiveHandles, Deleting
    <2> QED BY Zenon, <2>1, StoreUnchanged
<1>5. CASE DelIndexDma \/ DelIndexHeadNext \/ DelBaseDma
    <2>1. LiveHandles' = LiveHandles /\ UNCHANGED <<rule, rule_id_array>>
        BY Zenon, <1>5 DEF DelIndexDma, DelIndexHeadNext, DelBaseDma, hwRules, call,
           LiveHandles, Deleting
    <2> QED BY Zenon, <2>1, StoreUnchanged
<1>6. CASE CopyRule
    <2>1. LiveHandles' = LiveHandles /\ UNCHANGED rule_id_array
          /\ ~enable[centry] /\ rule' = [rule EXCEPT ![centry] = crule]
        BY Zenon, <1>6, <1>a DEF CopyRule, call, LiveHandles, Deleting, CallInv
    <2> QED BY Zenon, <2>1, <1>a, <1>b, StoreUnchanged DEF RulesInv, TypeOK
<1>7. CASE DelFix
    <2>1. LiveHandles' = LiveHandles /\ UNCHANGED rule_id_array /\ Deleting
        BY Zenon, <1>7 DEF DelFix, call, LiveHandles, Deleting
    <2>2. \A h \in LiveHandles : EntryOfHandle(h) # centry
        BY Zenon, <2>1, <1>a DEF CallInv, IdsInv, LiveHandles, Used
    <2>3. \A e \in Idx : e # centry => rule'[e] = rule[e]
        BY Zenon, <1>7, <1>a DEF DelFix, ZeroRules, TypeOK
    <2> QED BY Zenon, <2>1, <2>2, <2>3, <1>b, StoreUnchanged
<1>8. CASE DelDeadHeadNodes
    <2>1. Deleting /\ ~Deleting' /\ chdl \in Handles
        BY Zenon, <1>8, <1>a DEF DelDeadHeadNodes, Return, Deleting, CallInv
    <2>2. \A h \in Handles : rule_id_array'[h] = IF h = chdl THEN 0 ELSE rule_id_array[h]
        BY Zenon, <1>8, <1>a DEF DelDeadHeadNodes, TypeOK
    <2>3. LiveHandles' = LiveHandles /\ \A h \in LiveHandles : h # chdl
        BY Zenon, <2>1, <2>2 DEF LiveHandles
    <2>4. \A e \in Idx : ~dead[e] => rule'[e] = rule[e]
        BY Zenon, <1>8, <1>a DEF DelDeadHeadNodes, ZeroRules, TypeOK
    <2>5. \A h \in LiveHandles : rule'[EntryOfHandle(h)'] = rule[EntryOfHandle(h)]
        BY Zenon, <2>2, <2>3, <2>4, <1>a, <1>b DEF RulesInv, EntryOfHandle
    <2> QED BY Zenon, <2>3, <2>5 DEF Store
<1>9. CASE MakeRuleHdl
    <2> DEFINE free == {h \in Handles : rule_id_array[h] = 0}
               m == MinOf(free)
    <2>1. free # {}
        BY Zenon, <1>9, FreeSlot DEF MakeRuleHdl, Used
    <2>2. m \in free
        BY <2>1, MinOfProps, SizesAssumption DEF Handles
    <2>3. centry \in Usable /\ rule[centry] = crule /\ crule \in Rules /\ UNCHANGED rule
        BY Zenon, <1>9, <1>a DEF MakeRuleHdl, CallInv, Deleting, hwRules
    <2>4. EntryOf(RuleId(centry)) = centry /\ RuleId(centry) # 0
        BY Zenon, <2>3, RuleIdRoundTrip DEF Usable
    <2>5. rule_id_array' = [rule_id_array EXCEPT ![m] = RuleId(centry)]
        BY Zenon, <2>1, <1>9 DEF MakeRuleHdl
    <2> HIDE DEF m
    <2>6. \A h \in Handles : rule_id_array'[h] = IF h = m THEN RuleId(centry) ELSE rule_id_array[h]
        BY Zenon, <2>2, <2>5, <1>a DEF TypeOK
    <2>7. LiveHandles' = LiveHandles \cup {m} /\ m \notin LiveHandles /\ m \in Handles
        BY Zenon, <2>2, <2>4, <2>6, <1>9 DEF MakeRuleHdl, Return, LiveHandles, Deleting
    <2>8. Store[m] = NoRule /\ Store' = [Store EXCEPT ![m] = crule]
        BY Zenon, <2>3, <2>4, <2>6, <2>7 DEF Store, EntryOfHandle
    <2> QED BY ZenonT(30), <2>3, <2>7, <2>8 DEF Abs!Next, Abs!Add
<1> QED BY Zenon, <1>1, <1>2, <1>3, <1>4, <1>5, <1>6, <1>7, <1>8, <1>9 DEF Next, Step

\* The NAT driver implements the store of rules by handle, whatever DMA fails.
THEOREM StoreRefinement == Spec => ImplementsStore
<1>1. Init => Abs!Init
    BY DEF Init, Abs!Init, Store, LiveHandles
<1> QED BY <1>1, StoreStep, HandlesInvariant, PTL DEF Spec, ImplementsStore, Abs!Spec


------------------------------------------------------------------------------
(* Both tables. *)

\* The inductive invariant of both tables.
ChainInv == RuleInv /\ IndexInv

\* Both tables keep their shape at every write of the driver, for all table
\* sizes, rules and hashes, as long as the DMA of an addition does not fail: a
\* failed link command is only logged, and a failed enable returns -EIO and
\* undoes nothing.
THEOREM ChainInvariant ==
  ASSUME DmaMayFail = FALSE
  PROVE  Spec => []ChainInv
<1>1. Init => ChainInv
  BY Zenon, RuleInitially, IndexInitially DEF ChainInv
<1>2. HandleInv /\ ChainInv /\ [Next]_vars => ChainInv'
  BY ZenonT(30), RuleInvStep, IndexInvStep DEF ChainInv
<1> QED BY <1>1, <1>2, HandlesInvariant, PTL DEF Spec

\* No chain of either table ever runs into itself: the loops over next_index
\* and over the index links end, and the errors the driver reports for an
\* entry linked to itself are unreachable.
THEOREM NoChainLoops ==
  ASSUME DmaMayFail = FALSE
  PROVE  Spec => []ChainsAcyclic
<1>1. ChainInv => ChainsAcyclic
  BY DEF ChainInv, ChainsAcyclic, RuleInv, IndexInv, RuleShape, IndexShape, Shape, Acyclic
<1> QED BY <1>1, ChainInvariant, PTL

\* Between calls every entry in use is a live rule or a dead head in front of
\* one, and index and rule entries point to each other: ipa_nati_del_ipv4_rule
\* gives back all that ipa_nati_add_ipv4_rule took.
THEOREM NothingLeaks ==
  ASSUME DmaMayFail = FALSE
  PROVE  Spec => []NoLeak
<1>1. ChainInv => NoLeak
  <2> SUFFICES ASSUME ChainInv, pc = "idle" PROVE NoLeak
    BY Zenon DEF NoLeak
  <2>1. ICut = {} /\ RuleInv /\ IndexInv
    BY Zenon DEF ICut, ChainInv
  <2>2. /\ \A e \in Idx : rule[e] # NoRule => enable[e]
        /\ \A e \in Idx : dead[e] => e < T /\ next_index[e] # 0
    BY Zenon, <2>1 DEF RuleInv, RuleEntries, After, Adding
  <2>3. \A i \in Idx : tbl_entry[i] # 0 =>
           enable[tbl_entry[i]] /\ ~dead[tbl_entry[i]] /\ indx_tbl_entry[tbl_entry[i]] = i
    BY Zenon, <2>1 DEF IndexInv, IndexEntries
  <2>4. \A i \in Idx : tbl_entry[i] = 0 => indx_next[i] = 0
    BY Zenon, <2>1 DEF IndexInv, IndexEntries
  <2> QED BY <2>2, <2>3, <2>4 DEF NoLeak
<1> QED BY <1>1, ChainInvariant, PTL

\* An enabled entry that is not cut off is reached from the base entry of its
\* destination hash.
LEMMA OnRuleChain ==
  ASSUME HandleInv, RuleInv, NEW e \in Idx \ RCut, enable[e]
  PROVE  e \in Reach(DstHash[rule[e]], next_index)
<1> DEFINE h == DstHash[rule[e]]
           C == {x \in Idx \ RCut : enable[x] /\ DstHash[rule[x]] = h}
<1>1. next_index \in [Idx -> Idx] /\ Acyclic(next_index)
  BY Zenon DEF HandleInv, TypeOK, RuleInv, RuleShape, Shape
<1>2. C \in SUBSET (Idx \ {0}) /\ e \in C
  BY Zenon DEF RuleInv, RuleEntries, Usable
<1>3. ASSUME NEW x \in C PROVE x = h \/ \E p \in C : next_index[p] = x
  <2>1. CASE x < T
    BY Zenon, <2>1, <1>3 DEF RuleInv, RuleEntries
  <2>2. CASE x >= T
    <3>1. PICK p \in Idx \ RCut : next_index[p] = x
      BY Zenon, <2>2, <1>3 DEF RuleInv, RuleLinks
    <3>2. x # 0
      BY Zenon, <1>2, <1>3
    <3>3. enable[p] /\ DstHash[rule[p]] = DstHash[rule[x]]
      BY Zenon, <3>1, <3>2 DEF RuleInv, RuleEntries, RuleLinks
    <3> QED BY Zenon, <3>1, <3>3, <1>3
  <2> QED BY Zenon, <2>1, <2>2, <1>2, <1>3, IdxFacts
<1> HIDE DEF C, h
<1>4. C \subseteq Reach(h, next_index)
  BY Zenon, <1>1, <1>2, <1>3, ReachChain
<1> QED BY Zenon, <1>2, <1>4 DEF h

\* An index entry in use that is linked and not cut off is reached from the
\* base entry of its source hash.
LEMMA OnIndexChain ==
  ASSUME HandleInv, IndexInv, NEW i \in Idx \ ICut, tbl_entry[i] # 0, ~(pc = "ilink" /\ i = cindx)
  PROVE  i \in Reach(SrcHash[rule[tbl_entry[i]]], indx_next)
<1> DEFINE h == SrcHash[rule[tbl_entry[i]]]
           C == {x \in Idx \ ICut : tbl_entry[x] # 0 /\ SrcHash[rule[tbl_entry[x]]] = h /\ ~(pc = "ilink" /\ x = cindx)}
<1>1. indx_next \in [Idx -> Idx] /\ Acyclic(indx_next)
  BY Zenon DEF HandleInv, TypeOK, IndexInv, IndexShape, Shape
<1>2. C \in SUBSET (Idx \ {0}) /\ i \in C
  BY Zenon DEF IndexInv, IndexEntries, Usable
<1>3. ASSUME NEW x \in C PROVE x = h \/ \E p \in C : indx_next[p] = x
  <2>1. CASE x < T
    BY ZenonT(30), <2>1, <1>3 DEF IndexInv, IndexEntries
  <2>2. CASE x >= T
    <3>1. PICK p \in Idx \ ICut : indx_next[p] = x
      BY Zenon, <2>2, <1>3 DEF IndexInv, IndexLinks
    <3>2. x # 0
      BY Zenon, <1>2, <1>3
    <3>3. tbl_entry[p] # 0 /\ SrcHash[rule[tbl_entry[p]]] = SrcHash[rule[tbl_entry[x]]]
      BY Zenon, <3>1, <3>2 DEF IndexInv, IndexEntries, IndexLinks
    <3>4. ~(pc = "ilink" /\ p = cindx)
      BY Zenon, <3>1, <3>2 DEF IndexInv, AddIndexInv
    <3> QED BY Zenon, <3>1, <3>3, <3>4, <1>3
  <2> QED BY Zenon, <2>1, <2>2, <1>2, <1>3, IdxFacts
<1> HIDE DEF C, h
<1>4. C \subseteq Reach(h, indx_next)
  BY Zenon, <1>1, <1>2, <1>3, ReachChain
<1> QED BY Zenon, <1>2, <1>4 DEF h

\* At every single write of the driver the packet processor finds every live
\* rule, along the chain of its destination hash and, through the index, along
\* that of its source hash: no addition or deletion of another rule hides it
\* even for a moment.
THEOREM EveryLiveRuleIsFound ==
  ASSUME DmaMayFail = FALSE
  PROVE  Spec => []LiveRulesReachable
<1>1. HandleInv /\ ChainInv => LiveRulesReachable
  <2> SUFFICES ASSUME HandleInv, RuleInv, IndexInv, NEW h \in LiveHandles
               PROVE  LET e == EntryOfHandle(h) IN
                      /\ enable[e] /\ ~dead[e] /\ rule[e] \in Rules
                      /\ e \in Reach(DstHash[rule[e]], next_index)
                      /\ \E i \in Reach(SrcHash[rule[e]], indx_next) : tbl_entry[i] = e
    BY Zenon DEF LiveRulesReachable, ChainInv
  <2> DEFINE e == EntryOfHandle(h)
  <2>1. h \in Handles /\ Used(h) /\ ~(Deleting /\ h = chdl)
    BY Zenon DEF LiveHandles, Used
  <2>2. enable[e] /\ ~dead[e] /\ rule[e] \in Rules /\ e \in Idx /\ e # 0
    BY Zenon, <2>1, EntryOfUsed, IdxFacts DEF HandleInv, RulesInv, Usable
  <2>3. ~(Deleting /\ e = centry)
    BY Zenon, <2>1 DEF HandleInv, CallInv, IdsInv
  <2> HIDE DEF e
  <2>4. e \notin RCut
    BY Zenon, <2>3 DEF RCut, After, Deleting
  <2>5. e \in Reach(DstHash[rule[e]], next_index)
    BY Zenon, <2>2, <2>4, OnRuleChain
  <2>6. PICK i \in Idx \ ICut : tbl_entry[i] = e
    BY Zenon, <2>2, <2>3 DEF IndexInv, IndexLinks
  <2>7. ~(pc = "ilink" /\ i = cindx)
    BY Zenon, <2>2, <2>6 DEF IndexInv, AddIndexInv, HandleInv, CallInv
  <2>8. i \in Reach(SrcHash[rule[e]], indx_next)
    BY Zenon, <2>2, <2>6, <2>7, OnIndexChain
  <2> QED BY <2>2, <2>5, <2>6, <2>8 DEF e
<1> QED BY <1>1, HandlesInvariant, ChainInvariant, PTL
==============================================================================
