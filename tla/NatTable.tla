------------------------------ MODULE NatTable ------------------------------
(***************************************************************************)
(* The IPv4 NAT table of the IPA driver library                            *)
(* (data-ipa-cfg-mgr/ipanat/src/ipa_nat_drvi.c): one table that is already *)
(* mapped, the rules in it and the rule handles given to clients.          *)
(*                                                                         *)
(* A rule sits in the base table, at the hash of its destination, or in    *)
(* the expansion table, chained behind the base entry.  A second (index)   *)
(* table, of the same shape, is keyed by the hash of the source and points *)
(* into the first.  Entry numbers 0..T-1 name base entries and T..T+E-1    *)
(* expansion entries; entry 0 of each part is never used (0 is "none").    *)
(*                                                                         *)
(* The packet processor reads both tables while the driver changes them,   *)
(* so every write it can see is a step of its own.  The driver itself runs *)
(* one call at a time (pc and the variables after it are that call).       *)
(***************************************************************************)
EXTENDS Integers, FiniteSets

CONSTANTS
    T,          \* table_entries: entries of the base table
    E,          \* expn_table_entries: entries of the expansion table
    Rules,      \* the rules clients may add
    NoRule,     \* the content of a zeroed entry
    DstHash,    \* dst_hash of a rule: the base entry it belongs to
    SrcHash,    \* src_hash of a rule: the index entry it belongs to
    DmaMayFail  \* may the DMA ioctls of an add fail?

ASSUME SizesAssumption == T \in Nat \ {0, 1} /\ E \in Nat \ {0, 1}
ASSUME RulesAssumption == NoRule \notin Rules
ASSUME HashAssumption == /\ DstHash \in [Rules -> 1 .. T - 1]
                         /\ SrcHash \in [Rules -> 1 .. T - 1]
ASSUME FailAssumption == DmaMayFail \in BOOLEAN

VARIABLES
    \* the fields of struct ipa_nat_rule, for base and expansion entries
    enable, dead, rule, next_index, prev_index, indx_tbl_entry,
    \* the fields of struct ipa_nat_indx_tbl_rule and of its meta table
    tbl_entry, indx_next, indx_prev,
    rule_id_array,
    \* the call in progress: its rule, its handle, the entries it works on
    pc, crule, chdl, centry, cprev, cindx, ciprev, cipos

hwRules == <<enable, dead, rule, next_index, prev_index, indx_tbl_entry>>
hwIndex == <<tbl_entry, indx_next, indx_prev>>
call == <<crule, chdl, centry, cprev, cindx, ciprev, cipos>>
vars == <<hwRules, hwIndex, rule_id_array, pc, call>>

Idx == 0 .. T + E - 1
Base == 0 .. T - 1
ExpnUsable == T + 1 .. T + E - 1    \* expansion entry 0 is never handed out
Handles == 1 .. T + E               \* slot cnt of rule_id_array is handle cnt + 1

MinOf(S) == CHOOSE x \in S : \A y \in S : x <= y

(***************************************************************************)
(* Rule ids: the table type in the low bit, the entry above it.            *)
(***************************************************************************)
RuleId(e) == IF e >= T THEN 2 * (e - T) + 1 ELSE 2 * e

\* The id's entry within its table, then the entry number used above.
IdEntry(id) == id \div 2
EntryOf(id) == IF id % 2 = 1 THEN T + IdEntry(id) ELSE IdEntry(id)

\* A handle the driver accepts: in range, and its slot holds an id.
Parses(h) == h < T + E /\ IdEntry(rule_id_array[h]) # 0
EntryOfHandle(h) == EntryOf(rule_id_array[h])

Init ==
    /\ enable = [e \in Idx |-> FALSE]
    /\ dead = [e \in Idx |-> FALSE]
    /\ rule = [e \in Idx |-> NoRule]
    /\ next_index = [e \in Idx |-> 0]
    /\ prev_index = [e \in Idx |-> 0]
    /\ indx_tbl_entry = [e \in Idx |-> 0]
    /\ tbl_entry = [i \in Idx |-> 0]
    /\ indx_next = [i \in Idx |-> 0]
    /\ indx_prev = [i \in Idx |-> 0]
    /\ rule_id_array = [h \in Handles |-> 0]
    /\ pc = "idle"
    /\ crule = NoRule /\ chdl = 0 /\ centry = 0 /\ cprev = 0
    /\ cindx = 0 /\ ciprev = 0 /\ cipos = "none"

\* The call returns; its local variables die with it.
Return ==
    /\ pc' = "idle"
    /\ crule' = NoRule /\ chdl' = 0 /\ centry' = 0 /\ cprev' = 0
    /\ cindx' = 0 /\ ciprev' = 0 /\ cipos' = "none"

(***************************************************************************)
(* ipa_nati_add_ipv4_rule.  First find an entry for the rule ...           *)
(***************************************************************************)
AddRule(r) ==
    LET h == DstHash[r] IN
    /\ pc = "idle"
    /\ crule' = r
    /\ IF ~enable[h]
       THEN pc' = "index" /\ centry' = h /\ cprev' = 0
       ELSE IF next_index[h] = 0
       THEN pc' = "expn" /\ centry' = 0 /\ cprev' = h
       ELSE pc' = "walk" /\ centry' = 0 /\ cprev' = next_index[h]
    /\ UNCHANGED <<hwRules, hwIndex, rule_id_array, chdl, cindx, ciprev, cipos>>

\* Mutant of Walk: the loop reads the head's link again instead of advancing.
Walk_RereadsHead ==
    /\ pc = "walk"
    /\ IF next_index[cprev] = 0
       THEN pc' = "expn" /\ UNCHANGED cprev
       ELSE cprev' = next_index[DstHash[crule]] /\ UNCHANGED pc
    /\ UNCHANGED <<hwRules, hwIndex, rule_id_array, crule, chdl, centry, cindx, ciprev, cipos>>

\* One turn of the loop that looks for the last entry of the chain.
Walk ==
    /\ pc = "walk"
    /\ \/ /\ next_index[cprev] = cprev      \* "should not be same": give up
          /\ Return
       \/ /\ next_index[cprev] = 0
          /\ pc' = "expn"
          /\ UNCHANGED call
       \/ /\ next_index[cprev] \notin {0, cprev}
          /\ cprev' = next_index[cprev]
          /\ UNCHANGED <<pc, crule, chdl, centry, cindx, ciprev, cipos>>
    /\ UNCHANGED <<hwRules, hwIndex, rule_id_array>>

\* Mutant of ExpnFreeEntry: takes the first entry without looking at its flag.
ExpnFreeEntry_AnyEntry ==
    /\ pc = "expn"
    /\ centry' = MinOf(ExpnUsable)
    /\ pc' = "index"
    /\ UNCHANGED <<hwRules, hwIndex, rule_id_array, crule, chdl, cprev, cindx, ciprev, cipos>>

\* Mutant of ExpnFreeEntry: looks at one entry more than the table has, and
\* finds it free.
ExpnFreeEntry_OneTooFar ==
    LET free == {e \in ExpnUsable : ~enable[e]} \cup {T + E} IN
    /\ pc = "expn"
    /\ centry' = MinOf(free)
    /\ pc' = "index"
    /\ UNCHANGED <<hwRules, hwIndex, rule_id_array, crule, chdl, cprev, cindx, ciprev, cipos>>

\* The lowest expansion entry that is not enabled, or "table is full".
ExpnFreeEntry ==
    LET free == {e \in ExpnUsable : ~enable[e]} IN
    /\ pc = "expn"
    /\ IF free = {}
       THEN Return
       ELSE /\ centry' = MinOf(free)
            /\ pc' = "index"
            /\ UNCHANGED <<crule, chdl, cprev, cindx, ciprev, cipos>>
    /\ UNCHANGED <<hwRules, hwIndex, rule_id_array>>

(***************************************************************************)
(* ... then an entry of the index table for it, in the same way.           *)
(***************************************************************************)
IndexRule ==
    LET h == SrcHash[crule] IN
    /\ pc = "index"
    /\ IF tbl_entry[h] = 0
       THEN pc' = "copy" /\ cindx' = h /\ ciprev' = 0
       ELSE IF indx_next[h] = 0
       THEN pc' = "iexpn" /\ ciprev' = h /\ UNCHANGED cindx
       ELSE pc' = "iwalk" /\ ciprev' = indx_next[h] /\ UNCHANGED cindx
    /\ UNCHANGED <<hwRules, hwIndex, rule_id_array, crule, chdl, centry, cprev, cipos>>

IndexWalk ==
    /\ pc = "iwalk"
    /\ \/ /\ indx_next[ciprev] = ciprev
          /\ Return
       \/ /\ indx_next[ciprev] = 0
          /\ pc' = "iexpn"
          /\ UNCHANGED call
       \/ /\ indx_next[ciprev] \notin {0, ciprev}
          /\ ciprev' = indx_next[ciprev]
          /\ UNCHANGED <<pc, crule, chdl, centry, cprev, cindx, cipos>>
    /\ UNCHANGED <<hwRules, hwIndex, rule_id_array>>

\* The lowest free index entry; unlike the rule table, a free entry that is
\* also the end of the chain is refused ("infinite loop detected").
IndexExpnFreeEntry ==
    LET free == {i \in ExpnUsable : tbl_entry[i] = 0} IN
    /\ pc = "iexpn"
    /\ IF free = {} \/ MinOf(free) = ciprev
       THEN Return
       ELSE /\ cindx' = MinOf(free)
            /\ pc' = "copy"
            /\ UNCHANGED <<crule, chdl, centry, cprev, ciprev, cipos>>
    /\ UNCHANGED <<hwRules, hwIndex, rule_id_array>>

(***************************************************************************)
(* The writes of an add, in the order they reach the memory shared with    *)
(* the packet processor.  The rule is written disabled ...                 *)
(***************************************************************************)
CopyRule ==
    /\ pc = "copy"
    /\ enable' = [enable EXCEPT ![centry] = FALSE]
    /\ dead' = [dead EXCEPT ![centry] = FALSE]
    /\ rule' = [rule EXCEPT ![centry] = crule]
    /\ next_index' = [next_index EXCEPT ![centry] = 0]
    /\ prev_index' = [prev_index EXCEPT ![centry] = cprev]
    /\ indx_tbl_entry' = [indx_tbl_entry EXCEPT ![centry] = cindx]
    /\ indx_prev' = IF cindx >= T THEN [indx_prev EXCEPT ![cindx] = ciprev]
                                  ELSE indx_prev
    /\ pc' = "link"
    /\ UNCHANGED <<tbl_entry, indx_next, rule_id_array, call>>

\* Mutant of LinkRule: the link from the previous entry is never written.
LinkRule_Unlinked ==
    /\ pc = "link"
    /\ pc' = "icopy"
    /\ UNCHANGED <<hwRules, hwIndex, rule_id_array, call>>

\* ... linked from the end of its chain (a failed DMA is only logged) ...
LinkRule ==
    /\ pc = "link"
    /\ \/ next_index' = IF cprev = 0 THEN next_index
                                     ELSE [next_index EXCEPT ![cprev] = centry]
       \/ DmaMayFail /\ UNCHANGED next_index
    /\ pc' = "icopy"
    /\ UNCHANGED <<enable, dead, rule, prev_index, indx_tbl_entry, hwIndex,
                   rule_id_array, call>>

\* ... then the same for its index entry ...
CopyIndexRule ==
    /\ pc = "icopy"
    /\ tbl_entry' = [tbl_entry EXCEPT ![cindx] = centry]
    /\ indx_next' = [indx_next EXCEPT ![cindx] = 0]
    /\ pc' = "ilink"
    /\ UNCHANGED <<hwRules, indx_prev, rule_id_array, call>>

LinkIndexRule ==
    /\ pc = "ilink"
    /\ \/ indx_next' = IF ciprev = 0 THEN indx_next
                                     ELSE [indx_next EXCEPT ![ciprev] = cindx]
       \/ DmaMayFail /\ UNCHANGED indx_next
    /\ pc' = "enable"
    /\ UNCHANGED <<hwRules, tbl_entry, indx_prev, rule_id_array, call>>

\* Mutant of PostDmaCmd: the rule is enabled although the call reports -EIO.
PostDmaCmd_EnabledOnError ==
    /\ pc = "enable"
    /\ enable' = [enable EXCEPT ![centry] = TRUE]
    /\ (pc' = "hdl" /\ UNCHANGED call) \/ (DmaMayFail /\ Return)
    /\ UNCHANGED <<dead, rule, next_index, prev_index, indx_tbl_entry, hwIndex,
                   rule_id_array>>

\* ... and last it is enabled.  A failure here returns -EIO and undoes nothing.
PostDmaCmd ==
    /\ pc = "enable"
    /\ \/ /\ enable' = [enable EXCEPT ![centry] = TRUE]
          /\ pc' = "hdl"
          /\ UNCHANGED call
       \/ /\ DmaMayFail
          /\ Return
          /\ UNCHANGED enable
    /\ UNCHANGED <<dead, rule, next_index, prev_index, indx_tbl_entry, hwIndex,
                   rule_id_array>>

\* Mutants of MakeRuleHdl: slot 0 whether or not it is free; the last free slot.
MakeRuleHdl_FirstSlot ==
    /\ pc = "hdl"
    /\ rule_id_array' = [rule_id_array EXCEPT ![1] = RuleId(centry)]
    /\ Return
    /\ UNCHANGED <<hwRules, hwIndex>>

MakeRuleHdl_LastSlot ==
    LET free == {h \in Handles : rule_id_array[h] = 0} IN
    /\ pc = "hdl"
    /\ \E h \in free : /\ \A k \in free : k <= h
                       /\ rule_id_array' = [rule_id_array EXCEPT ![h] = RuleId(centry)]
    /\ Return
    /\ UNCHANGED <<hwRules, hwIndex>>

\* The first free slot of rule_id_array becomes the handle.
MakeRuleHdl ==
    LET free == {h \in Handles : rule_id_array[h] = 0} IN
    /\ pc = "hdl"
    /\ rule_id_array' = IF free = {} THEN rule_id_array
                        ELSE [rule_id_array EXCEPT ![MinOf(free)] = RuleId(centry)]
    /\ Return
    /\ UNCHANGED <<hwRules, hwIndex>>

(***************************************************************************)
(* ipa_nati_del_ipv4_rule.  The position of an entry in its chain decides  *)
(* what is written.                                                        *)
(***************************************************************************)
Position(e, next) ==
    IF e >= T THEN (IF next = 0 THEN "LAST" ELSE "MIDDLE")
              ELSE (IF next = 0 THEN "ONLY_ONE" ELSE "HEAD")

\* ReorderCmds puts the index commands first, unless it has no memory for it.
\* A failed ioctl or allocation changes nothing and is no step.
DelRule(h) ==
    LET e == EntryOfHandle(h)
        i == indx_tbl_entry[e]
        pos == Position(i, indx_next[i]) IN
    /\ pc = "idle"
    /\ Parses(h)
    /\ enable[e]
    /\ chdl' = h
    /\ centry' = e
    /\ cprev' = prev_index[e]
    /\ cindx' = i
    /\ cipos' = pos
    /\ ciprev' = IF pos = "HEAD" THEN indx_next[i] ELSE indx_prev[i]
    /\ pc' \in {"del_index", "del_base_first"}
    /\ UNCHANGED <<hwRules, hwIndex, rule_id_array, crule>>

\* The index commands: clear the only entry, overwrite a head with its
\* successor (two commands), or unlink the entry from its predecessor.
\* ciprev is the successor of a head and the predecessor of any other entry.
DelIndexDma ==
    /\ pc \in {"del_index", "del_index_last"}
    /\ \/ /\ cipos = "ONLY_ONE"
          /\ tbl_entry' = [tbl_entry EXCEPT ![cindx] = 0]
          /\ UNCHANGED indx_next
       \/ /\ cipos = "HEAD"
          /\ tbl_entry' = [tbl_entry EXCEPT ![cindx] = tbl_entry[ciprev]]
          /\ UNCHANGED indx_next
       \/ /\ cipos = "MIDDLE"
          /\ indx_next' = [indx_next EXCEPT ![ciprev] = indx_next[cindx]]
          /\ UNCHANGED tbl_entry
       \/ /\ cipos = "LAST"
          /\ indx_next' = [indx_next EXCEPT ![ciprev] = 0]
          /\ UNCHANGED tbl_entry
    /\ pc' = IF cipos = "HEAD"
             THEN (IF pc = "del_index" THEN "del_index2" ELSE "del_index2_last")
             ELSE (IF pc = "del_index" THEN "del_base" ELSE "del_fix")
    /\ UNCHANGED <<hwRules, indx_prev, rule_id_array, call>>

DelIndexHeadNext ==
    /\ pc \in {"del_index2", "del_index2_last"}
    /\ indx_next' = [indx_next EXCEPT ![cindx] = indx_next[ciprev]]
    /\ pc' = IF pc = "del_index2" THEN "del_base" ELSE "del_fix"
    /\ UNCHANGED <<hwRules, tbl_entry, indx_prev, rule_id_array, call>>

\* The rule command: disable the only entry, invalidate the protocol of a
\* head (it stays as a dead head of its chain), or unlink the entry.
DelBaseDma ==
    LET pos == Position(centry, next_index[centry]) IN
    /\ pc \in {"del_base", "del_base_first"}
    /\ enable' = IF pos = "ONLY_ONE" THEN [enable EXCEPT ![centry] = FALSE] ELSE enable
    /\ dead' = IF pos = "HEAD" THEN [dead EXCEPT ![centry] = TRUE] ELSE dead
    /\ next_index' = CASE pos = "MIDDLE" -> [next_index EXCEPT ![cprev] = next_index[centry]]
                       [] pos = "LAST" -> [next_index EXCEPT ![cprev] = 0]
                       [] OTHER -> next_index
    /\ pc' = IF pc = "del_base" THEN "del_fix" ELSE "del_index_last"
    /\ UNCHANGED <<rule, prev_index, indx_tbl_entry, hwIndex, rule_id_array, call>>

\* memset to 0 of a set of rule entries.
ZeroRules(S) ==
    /\ enable' = [e \in Idx |-> IF e \in S THEN FALSE ELSE enable[e]]
    /\ dead' = [e \in Idx |-> IF e \in S THEN FALSE ELSE dead[e]]
    /\ rule' = [e \in Idx |-> IF e \in S THEN NoRule ELSE rule[e]]
    /\ next_index' = [e \in Idx |-> IF e \in S THEN 0 ELSE next_index[e]]

\* The back links and the resets that follow the DMA: the deleted entry is
\* zeroed unless it is a head; of the index, the entry that is no longer
\* used (a head's old successor, or the entry itself).
DelFix ==
    LET pos == Position(centry, next_index[centry])
        zeroed == IF pos = "HEAD" THEN {} ELSE {centry}
        freed == IF cipos = "HEAD" THEN ciprev ELSE cindx
        after == indx_next[freed]
        moved == IF cipos = "HEAD" THEN tbl_entry[cindx] ELSE 0 IN
    /\ pc = "del_fix"
    /\ ZeroRules(zeroed)
    /\ prev_index' = [e \in Idx |-> IF e \in zeroed THEN 0
                                    ELSE IF pos = "MIDDLE" /\ e = next_index[centry]
                                    THEN prev_index[centry] ELSE prev_index[e]]
    /\ indx_tbl_entry' = [e \in Idx |-> IF cipos = "HEAD" /\ e = moved THEN cindx
                                        ELSE IF e \in zeroed THEN 0
                                        ELSE indx_tbl_entry[e]]
    /\ tbl_entry' = [tbl_entry EXCEPT ![freed] = 0]
    /\ indx_next' = [indx_next EXCEPT ![freed] = 0]
    /\ indx_prev' = CASE cipos = "HEAD" /\ after >= T -> [indx_prev EXCEPT ![after] = cindx]
                      [] cipos = "MIDDLE" -> [indx_prev EXCEPT ![after] = indx_prev[cindx],
                                                               ![cindx] = 0]
                      [] OTHER -> indx_prev
    /\ pc' = "del_dead"
    /\ UNCHANGED <<rule_id_array, call>>

\* Mutants of DelDeadHeadNodes: dead heads are never reset; the handle is not
\* released.
DelDeadHeadNodes_KeepsHeads ==
    /\ pc = "del_dead"
    /\ rule_id_array' = [rule_id_array EXCEPT ![chdl] = 0]
    /\ Return
    /\ UNCHANGED <<hwRules, hwIndex>>

DelDeadHeadNodes_KeepsHandle ==
    LET gone == {e \in Base : dead[e] /\ next_index[e] = 0} IN
    /\ pc = "del_dead"
    /\ ZeroRules(gone)
    /\ Return
    /\ UNCHANGED <<prev_index, indx_tbl_entry, hwIndex, rule_id_array>>

\* Dead heads whose chain is empty are zeroed, then the handle is released.
DelDeadHeadNodes ==
    LET gone == {e \in Base : dead[e] /\ next_index[e] = 0} IN
    /\ pc = "del_dead"
    /\ ZeroRules(gone)
    /\ prev_index' = [e \in Idx |-> IF e \in gone THEN 0 ELSE prev_index[e]]
    /\ indx_tbl_entry' = [e \in Idx |-> IF e \in gone THEN 0 ELSE indx_tbl_entry[e]]
    /\ rule_id_array' = [rule_id_array EXCEPT ![chdl] = 0]
    /\ Return
    /\ UNCHANGED hwIndex

(***************************************************************************)
(* Clients add any rule and delete any handle; a call runs to its end.     *)
(***************************************************************************)
Step ==
    \/ Walk \/ ExpnFreeEntry \/ IndexRule \/ IndexWalk \/ IndexExpnFreeEntry
    \/ CopyRule \/ LinkRule \/ CopyIndexRule \/ LinkIndexRule
    \/ PostDmaCmd \/ MakeRuleHdl
    \/ DelIndexDma \/ DelIndexHeadNext \/ DelBaseDma \/ DelFix \/ DelDeadHeadNodes

Next == (\E r \in Rules : AddRule(r)) \/ (\E h \in Handles : DelRule(h)) \/ Step

Spec == Init /\ [][Next]_vars

\* The thread that makes the call keeps running it.
FairSpec == Spec /\ WF_vars(Step)

(***************************************************************************)
(* Properties.                                                             *)
(***************************************************************************)
Pcs == {"idle", "walk", "expn", "index", "iwalk", "iexpn", "copy", "link", "icopy",
        "ilink", "enable", "hdl", "del_index", "del_index_last", "del_index2",
        "del_index2_last", "del_base", "del_base_first", "del_fix", "del_dead"}
Deleting == pc \in {"del_index", "del_index_last", "del_index2", "del_index2_last",
                    "del_base", "del_base_first", "del_fix", "del_dead"}

\* Every field stays within its table: no step computes an entry number or a
\* rule id outside the mapped tables.
TypeOK ==
    /\ enable \in [Idx -> BOOLEAN] /\ dead \in [Idx -> BOOLEAN]
    /\ rule \in [Idx -> Rules \cup {NoRule}]
    /\ next_index \in [Idx -> Idx] /\ prev_index \in [Idx -> Idx]
    /\ indx_tbl_entry \in [Idx -> Idx]
    /\ tbl_entry \in [Idx -> Idx] /\ indx_next \in [Idx -> Idx]
    /\ indx_prev \in [Idx -> Idx]
    /\ rule_id_array \in [Handles -> 0 .. 2 * (T + E)]
    /\ pc \in Pcs /\ crule \in Rules \cup {NoRule} /\ chdl \in {0} \cup Handles
    /\ centry \in Idx /\ cprev \in Idx /\ cindx \in Idx /\ ciprev \in Idx
    /\ cipos \in {"none", "ONLY_ONE", "HEAD", "MIDDLE", "LAST"}

\* The entries the packet processor visits from entry h along next: the
\* smallest set that holds h and is closed under next.
Reach(h, next) ==
    LET linked == {h} \cup ({next[x] : x \in Idx} \ {0}) IN
    {e \in linked : \A S \in SUBSET linked :
        (h \in S /\ \A x \in S : next[x] # 0 => next[x] \in S) => e \in S}

\* Handles whose rule was added and is not being deleted.
LiveHandles == {h \in Handles : rule_id_array[h] # 0 /\ ~(Deleting /\ h = chdl)}

\* At every write, not only between calls, the packet processor finds every
\* live rule: it is enabled, not dead, on the chain of its destination hash,
\* and an index entry on the chain of its source hash points to it.  No add or
\* delete of another rule hides it even for a moment.
LiveRulesReachable ==
    \A h \in LiveHandles :
        LET e == EntryOfHandle(h) IN
        /\ enable[e] /\ ~dead[e] /\ rule[e] \in Rules
        /\ e \in Reach(DstHash[rule[e]], next_index)
        /\ \E i \in Reach(SrcHash[rule[e]], indx_next) : tbl_entry[i] = e

\* Two live handles never name the same entry, and the entry of each holds an
\* enabled rule: deleting through one handle can never hit another client's rule.
HandlesDistinct ==
    /\ \A h \in LiveHandles : enable[EntryOfHandle(h)] /\ ~dead[EntryOfHandle(h)]
    /\ \A h, k \in LiveHandles : EntryOfHandle(h) = EntryOfHandle(k) => h = k

\* The driver parses every handle it gave out: the range check of the parser is
\* one tighter than the number of slots, yet no live handle fails it.
HandlesParse == \A h \in LiveHandles : Parses(h)

\* Between calls every enabled rule has a handle: no rule is left in the table
\* that nobody can delete, not even by an add whose DMA failed.
EveryRuleHasHandle ==
    pc = "idle" => \A e \in Idx : enable[e] /\ ~dead[e] =>
                       \E h \in LiveHandles : EntryOfHandle(h) = e

\* Between calls nothing leaks: every entry that is not free holds a live rule
\* or is the dead head of a chain that is not empty; every index entry in use
\* points to a live rule that points back to it.
NoLeak ==
    pc = "idle" =>
        /\ \A e \in Idx : rule[e] # NoRule => enable[e]
        /\ \A e \in Idx : dead[e] => e < T /\ next_index[e] # 0
        /\ \A i \in Idx : tbl_entry[i] # 0 =>
              enable[tbl_entry[i]] /\ ~dead[tbl_entry[i]] /\ indx_tbl_entry[tbl_entry[i]] = i
        /\ \A i \in Idx : tbl_entry[i] = 0 => indx_next[i] = 0

\* No chain of the rule table or of the index table runs into itself ("Prev
\* index and next index should not be same", "infinite loop detected").
NoCycle(next) ==
    \A S \in SUBSET {e \in Idx : next[e] # 0} : S # {} => \E e \in S : next[e] \notin S
ChainsAcyclic == NoCycle(next_index) /\ NoCycle(indx_next)

\* An entry never links to itself: the condition the driver itself reports as
\* an error while it walks a chain.
NoSelfLink == \A e \in Idx : next_index[e] # 0 => next_index[e] # e

\* Every call returns: the walks along the chains end.
CallsReturn == (pc # "idle") ~> (pc = "idle")

\* The rule behind each live handle.
Store == [h \in Handles |-> IF h \in LiveHandles THEN rule[EntryOfHandle(h)] ELSE NoRule]
Abs == INSTANCE NatStore WITH store <- Store

\* The driver implements the store of rules by handle: whatever it writes to
\* the tables on the way, a call changes at most the one handle it is about.
ImplementsStore == Abs!Spec

(***************************************************************************)
(* The inductive invariant behind the properties of handles.               *)
(***************************************************************************)
Usable == Idx \ {0, T}
Used(h) == rule_id_array[h] # 0

\* What the call in progress knows about the entries it works on.
CallInv ==
    /\ pc # "idle" /\ ~Deleting => crule \in Rules
    /\ pc \in {"index", "iwalk", "iexpn", "copy", "link", "icopy", "ilink", "enable"}
          => centry \in Usable /\ ~enable[centry]
    /\ pc \in {"link", "icopy", "ilink", "enable", "hdl"}
          => ~dead[centry] /\ rule[centry] = crule
    /\ pc = "hdl" => /\ centry \in Usable /\ enable[centry]
                     /\ \A h \in Handles : Used(h) => EntryOfHandle(h) # centry
    /\ Deleting => /\ chdl \in Handles /\ Used(chdl)
                   /\ centry = EntryOfHandle(chdl)
                   /\ cipos # "none"
    /\ pc \in {"del_fix", "del_index_last", "del_index2_last"} /\ centry < T
          => dead[centry] \/ next_index[centry] = 0
    /\ pc = "del_dead" => ~enable[centry] \/ dead[centry]

\* Handles in use hold ids of distinct entries that can hold a rule.
IdsInv ==
    /\ \A h \in Handles : Used(h) => \E e \in Usable : rule_id_array[h] = RuleId(e)
    /\ \A h, k \in Handles :
          Used(h) /\ Used(k) /\ EntryOfHandle(h) = EntryOfHandle(k) => h = k
    /\ \A h \in Handles : Used(h) => h < T + E

\* The entries of live handles hold rules, and every rule has a handle or is
\* about to get one.
RulesInv ==
    /\ \A h \in LiveHandles : /\ enable[EntryOfHandle(h)] /\ ~dead[EntryOfHandle(h)]
                              /\ rule[EntryOfHandle(h)] \in Rules
    /\ \A e \in Idx : enable[e] /\ ~dead[e] =>
          \/ pc = "hdl" /\ e = centry
          \/ \E h \in Handles : Used(h) /\ EntryOfHandle(h) = e

HandleInv == TypeOK /\ CallInv /\ IdsInv /\ RulesInv

=============================================================================
