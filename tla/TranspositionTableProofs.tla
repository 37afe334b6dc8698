----------------------- MODULE TranspositionTableProofs -----------------------
(* Theorems about TranspositionTable, for any workers, keys, results,      *)
(* cluster size and number of generations.  Depths only come from saves:   *)
(* each depth in the table, and each depth a lowering has read, is at most *)
(* one that was saved, whatever the workers do between the read of a depth *)
(* and the write of a lower one.  And only a race tears an entry: what the *)
(* proofs follow, from the first store of a save to the last, is how far   *)
(* from whole a worker may leave the entry it alone is writing to.         *)
EXTENDS TranspositionTable, TLAPS

(* A worker is in a node whenever it is at work, and scans inside the      *)
(* cluster.                                                                *)
Placed ==
    \A w \in Workers : /\ at[w] # "out" => Len(open[w]) > 0
                       /\ at[w] = "scan" => scan[w] \in Slots

(* A worker that writes a result has numbered it.                          *)
Numbered ==
    \A w \in Workers : at[w] \in {"move", "decide", "store"} => op[w] \in 1 .. Len(saves)

Saved(n) == saves[n].result.depth - DEPTH_ENTRY_OFFSET
Seen(d) == d # 0 => \E n \in 1 .. Len(saves) : d <= Saved(n)

DepthsSaved == /\ \A i \in Slots : Seen(entry[i].depth)
               /\ \A w \in Workers : Seen(old[w])

TableInv == TypeOK /\ Placed /\ Numbered /\ DepthsSaved

-------------------------------------------------------------------------------
(* Facts about values *)

LEMMA GenerationsPositive == Generations \in Nat \ {0}
  BY SizeAssumption DEF Generations

LEMMA FirstSlot == 0 \in Slots
  BY SizeAssumption DEF Slots

(* A packed byte keeps to its eight bits. *)
LEMMA PackFits ==
    ASSUME NEW bound \in 0 .. 3, NEW pv \in BOOLEAN, generation \in 0 .. Generations - 1
    PROVE  Pack(bound, pv) \in 0 .. 8 * Generations - 1
  <1>1. CASE pv
      BY <1>1, GenerationsPositive DEF Pack, Bit
  <1>2. CASE ~pv
      BY <1>2, GenerationsPositive DEF Pack, Bit
  <1> QED
      BY <1>1, <1>2

LEMMA NextGenerationFits ==
    generation \in 0 .. Generations - 1 => NextGeneration \in 0 .. Generations - 1
  BY GenerationsPositive DEF NextGeneration

LEMMA NothingFits == NoData \in DataType
  BY GenerationsPositive, LimitAssumption
  DEF NoData, tt_entry_read, DataType, Cleared, NoValue, ValueType

(* The saturating subtraction never climbs above what it starts from, nor  *)
(* above what bounds it (the contract at tt.c:27-31).                      *)
LEMMA SaturatingSub ==
    ASSUME NEW d \in 0 .. 255
    PROVE  /\ depth_saturating_sub(d, 1) \in 0 .. 255
           /\ \A a \in 1 .. 255 : d <= a => depth_saturating_sub(d, 1) <= a
           /\ d = 0 => depth_saturating_sub(d, 1) = 0
  BY DEF depth_saturating_sub

(* The node a worker is in. *)
LEMMA NodeTyped ==
    ASSUME TypeOK, Placed, NEW w \in Workers, at[w] # "out"
    PROVE  /\ Node(w) \in NodeType /\ Node(w).writer \in Slots
           /\ Len(open[w]) \in 1 .. MaxOpen
           /\ Here(w) \in EntryType
  <1>1. open[w] \in Seq(NodeType) /\ Len(open[w]) \in 1 .. MaxOpen
      BY LimitAssumption DEF TypeOK, Placed
  <1>2. Node(w) \in NodeType
      BY <1>1, LimitAssumption DEF Node
  <1>3. Node(w).writer \in Slots
      BY <1>2 DEF NodeType
  <1> QED
      BY <1>1, <1>2, <1>3 DEF TypeOK, Here

(* Changing it leaves the nodes around it. *)
LEMMA NodeChanged ==
    ASSUME TypeOK, Placed, NEW w \in Workers, at[w] # "out",
           NEW node \in NodeType, SetNode(w, node)
    PROVE  /\ open' \in [Workers -> Seq(NodeType)]
           /\ \A v \in Workers : Len(open'[v]) = Len(open[v])
  <1>1. open[w] \in Seq(NodeType) /\ Len(open[w]) \in 1 .. Len(open[w])
    <2>1. Len(open[w]) \in 1 .. MaxOpen
        BY NodeTyped
    <2> QED
        BY <2>1, LimitAssumption DEF TypeOK
  <1> DEFINE changed == [open[w] EXCEPT ![Len(open[w])] = node]
  <1>2. changed \in Seq(NodeType) /\ Len(changed) = Len(open[w])
      BY <1>1
  <1>3. open' = [open EXCEPT ![w] = changed]
      BY DEF SetNode
  <1> HIDE DEF changed
  <1> QED
      BY <1>2, <1>3 DEF TypeOK

-------------------------------------------------------------------------------
(* The invariant holds at first, and every step keeps it *)

(* What the cluster may hold at first is an entry as a save leaves it. *)
LEMMA EarlierEntry ==
    ASSUME NEW s \in Earlier, generation = 0
    PROVE  /\ SavedEntry(1, key16[s.key], s.result) \in EntryType
           /\ s.key \in Keys /\ s.result \in Results /\ MaxSaves > 0
           /\ s.result.bound \in 0 .. 3 /\ s.result.pv \in BOOLEAN
           /\ s.result.depth - DEPTH_ENTRY_OFFSET \in 1 .. 255
  <1> DEFINE r == s.result
  <1>1. s.key \in Keys /\ r \in Results /\ MaxSaves > 0
      BY EarlierAssumption
  <1>2. /\ r.bound \in 0 .. 3 /\ r.pv \in BOOLEAN /\ r.decisive \in BOOLEAN
        /\ r.move \in Moves \union {MOVE_NONE}
        /\ r.depth \in DEPTH_ENTRY_OFFSET + 1 .. DEPTH_ENTRY_OFFSET + 255
      BY <1>1, ResultAssumption
  <1>3. r.depth - DEPTH_ENTRY_OFFSET \in 1 .. 255
      BY <1>2 DEF DEPTH_ENTRY_OFFSET
  <1>4. Pack(r.bound, r.pv) \in 0 .. 8 * Generations - 1
      BY <1>2, PackFits, GenerationsPositive
  <1>5. [save |-> 1, decisive |-> r.decisive] \in ValueType
      BY <1>1, <1>2, LimitAssumption DEF ValueType
  <1>6. key16[s.key] \in {key16[k] : k \in Keys}
      BY <1>1
  <1>7. SavedEntry(1, key16[s.key], r) \in EntryType
      BY <1>2, <1>3, <1>4, <1>5, <1>6 DEF SavedEntry, EntryType
  <1> QED
      BY <1>1, <1>2, <1>3, <1>7

LEMMA Initial == Init => TableInv
  <1> SUFFICES ASSUME Init PROVE TableInv
      OBVIOUS
  <1>1. Cleared \in EntryType
      BY GenerationsPositive, LimitAssumption DEF Cleared, NoValue, EntryType, ValueType
  <1>2. /\ saves \in Seq(SaveType) /\ Len(saves) <= MaxSaves
        /\ \A i \in Slots : entry[i] \in EntryType /\ Seen(entry[i].depth)
        /\ entry \in [Slots -> EntryType]
    <2>1. CASE saves = <<>> /\ entry = [i \in Slots |-> Cleared]
        BY <1>1, <2>1, LimitAssumption DEF Seen, Cleared
    <2>2. ASSUME NEW s \in Earlier,
                 saves = <<[key |-> s.key, search |-> 0, result |-> s.result]>>,
                 entry = [i \in Slots |-> IF i = 0 THEN SavedEntry(1, key16[s.key], s.result)
                                          ELSE Cleared]
          PROVE  <1>2
      <3>1. generation = 0
          BY DEF Init
      <3>2. /\ SavedEntry(1, key16[s.key], s.result) \in EntryType
            /\ s.key \in Keys /\ s.result \in Results /\ MaxSaves > 0
            /\ s.result.depth - DEPTH_ENTRY_OFFSET \in 1 .. 255
          BY <3>1, EarlierEntry
      <3>3. [key |-> s.key, search |-> 0, result |-> s.result] \in SaveType
          BY <3>2, LimitAssumption DEF SaveType
      <3>4. saves \in Seq(SaveType) /\ Len(saves) = 1
          BY <2>2, <3>3
      <3>5. entry \in [Slots -> EntryType]
          BY <1>1, <2>2, <3>2
      <3>6. Saved(1) = s.result.depth - DEPTH_ENTRY_OFFSET
          BY <2>2 DEF Saved
      <3>7. ASSUME NEW i \in Slots PROVE Seen(entry[i].depth)
        <4>1. CASE i = 0
          <5>1. entry[i].depth = Saved(1)
              BY <2>2, <3>6, <4>1 DEF SavedEntry
          <5>2. entry[i].depth <= Saved(1)
              BY <3>2, <3>6, <5>1
          <5> QED
              BY <3>4, <5>2 DEF Seen
        <4>2. CASE i # 0
            BY <2>2, <4>2 DEF Seen, Cleared
        <4> QED
            BY <4>1, <4>2
      <3> QED
          BY <3>2, <3>4, <3>5, <3>7, LimitAssumption
    <2> QED
        BY <2>1, <2>2 DEF Init
  <1>3. TypeOK
      BY <1>2, GenerationsPositive, LimitAssumption, SizeAssumption
      DEF Init, TypeOK, AtType, Slots
  <1>4. Placed /\ Numbered
      BY DEF Init, Placed, Numbered
  <1>5. DepthsSaved
      BY <1>2 DEF Init, DepthsSaved, Seen
  <1> QED
      BY <1>3, <1>4, <1>5 DEF TableInv

(* A step that changes no depth, and begins no save. *)
LEMMA DepthsUntouched ==
    DepthsSaved /\ UNCHANGED <<entry, old, saves>> => DepthsSaved'
  BY DEF DepthsSaved, Seen, Saved

LEMMA NumbersUntouched ==
    ASSUME TypeOK, Numbered, UNCHANGED <<op, saves>>, NEW w \in Workers, NEW place,
           Step(w, place),
           place \in {"move", "decide", "store"} => at[w] \in {"move", "decide", "store"}
    PROVE  Numbered'
  BY DEF TypeOK, Numbered, Step

(* A step inside the node the worker is in. *)
LEMMA PlacesUntouched ==
    ASSUME TypeOK, Placed, NEW w \in Workers, NEW place, Step(w, place), at[w] # "out",
           place # "scan", \A v \in Workers : Len(open'[v]) = Len(open[v]),
           \A v \in Workers \ {w} : scan'[v] = scan[v]
    PROVE  Placed'
  BY DEF TypeOK, Placed, Step

LEMMA NewSearchStep == TableInv /\ NewSearch => TableInv'
  <1> SUFFICES ASSUME TableInv, NewSearch PROVE TableInv'
      OBVIOUS
  <1>1. TypeOK'
    <2>1. generation' \in 0 .. Generations - 1
        BY NextGenerationFits DEF TableInv, TypeOK, NewSearch
    <2>2. searches' \in 0 .. MaxSearches
        BY LimitAssumption DEF TableInv, TypeOK, NewSearch
    <2>3. UNCHANGED <<entry, at, open, scan, todo, op, old, saves, probes, raced>>
        BY DEF NewSearch
    <2> QED
        BY <2>1, <2>2, <2>3 DEF TableInv, TypeOK
  <1>2. Placed' /\ Numbered'
      BY DEF TableInv, NewSearch, Placed, Numbered
  <1>3. DepthsSaved'
      BY DepthsUntouched DEF TableInv, NewSearch
  <1> QED
      BY <1>1, <1>2, <1>3 DEF TableInv

(* The steps of a probe, which write nothing to the table. *)
LEMMA ProbeStep ==
    ASSUME TableInv, NEW w \in Workers, NEW k \in Keys, Probe(w, k)
    PROVE  TableInv'
  <1> DEFINE node == [key |-> k, writer |-> 0, found |-> FALSE, data |-> NoData]
  <1>1. node \in NodeType
      BY NothingFits, FirstSlot DEF NodeType
  <1>2. open'[w] = Append(open[w], node) /\ open[w] \in Seq(NodeType)
      BY DEF TableInv, TypeOK, Probe
  <1>3. open'[w] \in Seq(NodeType) /\ Len(open'[w]) = Len(open[w]) + 1
      BY <1>1, <1>2
  <1>4. open' \in [Workers -> Seq(NodeType)] /\ \A v \in Workers : Len(open'[v]) <= MaxOpen
      BY <1>3, LimitAssumption DEF TableInv, TypeOK, Probe
  <1>5. TypeOK'
    <2>1. scan' \in [Workers -> 0 .. TT_CLUSTER_SIZE]
        BY SizeAssumption DEF TableInv, TypeOK, Probe
    <2>2. probes' \in 0 .. MaxProbes
        BY LimitAssumption DEF TableInv, TypeOK, Probe
    <2> QED
        BY <1>4, <2>1, <2>2 DEF TableInv, TypeOK, Probe, Step, AtType
  <1>6. Placed'
      BY <1>3, FirstSlot DEF TableInv, TypeOK, Placed, Probe, Step
  <1>7. Numbered'
      BY NumbersUntouched DEF TableInv, Probe
  <1>8. DepthsSaved'
      BY DepthsUntouched DEF TableInv, Probe
  <1> QED
      BY <1>5, <1>6, <1>7, <1>8 DEF TableInv

LEMMA ScanMatchesStep ==
    ASSUME TableInv, NEW w \in Workers, ScanMatches(w)
    PROVE  TableInv'
  <1> DEFINE node == [Node(w) EXCEPT !.writer = scan[w]]
  <1>1. at[w] = "scan" /\ scan[w] \in Slots /\ SetNode(w, node)
      BY DEF TableInv, Placed, ScanMatches
  <1>2. node \in NodeType
      BY <1>1, NodeTyped DEF TableInv, NodeType
  <1>3. /\ open' \in [Workers -> Seq(NodeType)]
        /\ \A v \in Workers : Len(open'[v]) = Len(open[v])
      BY <1>1, <1>2, NodeChanged DEF TableInv
  <1>4. TypeOK'
    <2>1. scan' \in [Workers -> 0 .. TT_CLUSTER_SIZE]
        BY SizeAssumption DEF TableInv, TypeOK, ScanMatches
    <2> QED
        BY <1>3, <2>1 DEF TableInv, TypeOK, ScanMatches, Step, AtType
  <1>5. Placed'
      BY <1>1, <1>3, PlacesUntouched DEF TableInv, TypeOK, ScanMatches
  <1>6. Numbered' /\ DepthsSaved'
      BY NumbersUntouched, DepthsUntouched DEF TableInv, ScanMatches
  <1> QED
      BY <1>4, <1>5, <1>6 DEF TableInv

LEMMA ScanPassesStep ==
    ASSUME TableInv, NEW w \in Workers, ScanPasses(w)
    PROVE  TableInv'
  <1>1. at[w] = "scan" /\ scan[w] \in Slots
      BY DEF TableInv, Placed, ScanPasses
  <1>2. CASE scan[w] + 1 \in Slots
    <2>1. scan' = [scan EXCEPT ![w] = @ + 1] /\ UNCHANGED at
        BY <1>2 DEF ScanPasses
    <2>2. TypeOK'
      <3>1. scan' \in [Workers -> 0 .. TT_CLUSTER_SIZE]
          BY <1>2, <2>1, SizeAssumption DEF TableInv, TypeOK, Slots
      <3> QED
          BY <2>1, <3>1 DEF TableInv, TypeOK, ScanPasses
    <2>3. Placed' /\ Numbered'
        BY <1>2, <2>1 DEF TableInv, TypeOK, Placed, Numbered, ScanPasses
    <2>4. DepthsSaved'
        BY DepthsUntouched DEF TableInv, ScanPasses
    <2> QED
        BY <2>2, <2>3, <2>4 DEF TableInv
  <1>3. CASE scan[w] + 1 \notin Slots
    <2>1. scan' = [scan EXCEPT ![w] = 1] /\ Step(w, "victim")
        BY <1>3 DEF ScanPasses
    <2>2. TypeOK'
      <3>1. scan' \in [Workers -> 0 .. TT_CLUSTER_SIZE]
          BY <2>1, SizeAssumption DEF TableInv, TypeOK
      <3> QED
          BY <2>1, <3>1 DEF TableInv, TypeOK, ScanPasses, Step, AtType
    <2>3. Placed'
        BY <1>1, <2>1, PlacesUntouched DEF TableInv, TypeOK, ScanPasses
    <2>4. Numbered' /\ DepthsSaved'
        BY <2>1, NumbersUntouched, DepthsUntouched DEF TableInv, ScanPasses
    <2> QED
        BY <2>2, <2>3, <2>4 DEF TableInv
  <1> QED
      BY <1>2, <1>3

LEMMA CopyEntryStep ==
    ASSUME TableInv, NEW w \in Workers, CopyEntry(w)
    PROVE  TableInv'
  <1> DEFINE node == [Node(w) EXCEPT !.found = Here(w).depth # 0,
                                     !.data = tt_entry_read(Here(w))]
  <1>1. at[w] = "copy" /\ SetNode(w, node)
      BY DEF CopyEntry
  <1>2. tt_entry_read(Here(w)) \in DataType
      BY <1>1, NodeTyped DEF TableInv, tt_entry_read, EntryType, DataType
  <1>3. node \in NodeType
      BY <1>1, <1>2, NodeTyped DEF TableInv, NodeType
  <1>4. /\ open' \in [Workers -> Seq(NodeType)]
        /\ \A v \in Workers : Len(open'[v]) = Len(open[v])
      BY <1>1, <1>3, NodeChanged DEF TableInv
  <1>5. TypeOK'
      BY <1>4 DEF TableInv, TypeOK, CopyEntry, Step, AtType, InNode
  <1>6. Placed'
      BY <1>1, <1>4, PlacesUntouched DEF TableInv, CopyEntry
  <1>7. Numbered' /\ DepthsSaved'
      BY NumbersUntouched, DepthsUntouched DEF TableInv, CopyEntry
  <1> QED
      BY <1>5, <1>6, <1>7 DEF TableInv

LEMMA CompareVictimStep ==
    ASSUME TableInv, NEW w \in Workers, CompareVictim(w)
    PROVE  TableInv'
  <1> DEFINE node == [Node(w) EXCEPT !.writer = IF Worth(Here(w)) > Worth(entry[scan[w]])
                                                THEN scan[w] ELSE @]
  <1>1. at[w] = "victim" /\ scan[w] \in Slots /\ SetNode(w, node)
      BY DEF CompareVictim
  <1>2. node \in NodeType
      BY <1>1, NodeTyped DEF TableInv, NodeType
  <1>3. /\ open' \in [Workers -> Seq(NodeType)]
        /\ \A v \in Workers : Len(open'[v]) = Len(open[v])
      BY <1>1, <1>2, NodeChanged DEF TableInv
  <1>4. TypeOK'
    <2>1. scan' \in [Workers -> 0 .. TT_CLUSTER_SIZE]
        BY <1>1, SizeAssumption DEF TableInv, TypeOK, CompareVictim, Slots
    <2> QED
        BY <1>3, <2>1 DEF TableInv, TypeOK, CompareVictim
  <1>5. Placed' /\ Numbered'
      BY <1>1, <1>3 DEF TableInv, TypeOK, Placed, Numbered, CompareVictim
  <1>6. DepthsSaved'
      BY DepthsUntouched DEF TableInv, CompareVictim
  <1> QED
      BY <1>4, <1>5, <1>6 DEF TableInv

LEMMA VictimChosenStep ==
    ASSUME TableInv, NEW w \in Workers, VictimChosen(w)
    PROVE  TableInv'
  <1>1. TypeOK'
    <2>1. at' \in [Workers -> AtType] /\ scan' \in [Workers -> 0 .. TT_CLUSTER_SIZE]
        BY SizeAssumption DEF TableInv, TypeOK, VictimChosen, Step, AtType, InNode
    <2>2. UNCHANGED <<entry, generation, open, todo, op, old, saves, searches, probes, raced>>
        BY DEF VictimChosen
    <2> QED
        BY <2>1, <2>2 DEF TableInv, TypeOK
  <1>2. Placed'
      BY PlacesUntouched DEF TableInv, TypeOK, VictimChosen
  <1>3. Numbered' /\ DepthsSaved'
      BY NumbersUntouched, DepthsUntouched DEF TableInv, VictimChosen
  <1> QED
      BY <1>1, <1>2, <1>3 DEF TableInv

LEMMA LeaveStep ==
    ASSUME TableInv, NEW w \in Workers, Leave(w)
    PROVE  TableInv'
  <1>1. at[w] # "out" /\ open[w] \in Seq(NodeType) /\ Len(open[w]) \in 1 .. MaxOpen
      BY NodeTyped DEF TableInv, TypeOK, Leave, InNode
  <1>2. open'[w] = SubSeq(open[w], 1, Len(open[w]) - 1)
      BY DEF TableInv, TypeOK, Leave
  <1>3. open'[w] \in Seq(NodeType) /\ Len(open'[w]) = Len(open[w]) - 1
      BY <1>1, <1>2, LimitAssumption
  <1>4. /\ open' \in [Workers -> Seq(NodeType)]
        /\ \A v \in Workers : Len(open'[v]) <= MaxOpen
      BY <1>1, <1>3, LimitAssumption DEF TableInv, TypeOK, Leave
  <1>5. TypeOK'
      BY <1>4 DEF TableInv, TypeOK, Leave, Step, AtType, InNode
  <1>6. Placed'
      BY <1>1, <1>3, LimitAssumption DEF TableInv, TypeOK, Placed, Leave, Step
  <1>7. Numbered'
      BY NumbersUntouched DEF TableInv, Leave
  <1>8. DepthsSaved'
      BY DepthsUntouched DEF TableInv, Leave
  <1> QED
      BY <1>5, <1>6, <1>7, <1>8 DEF TableInv

(* The steps of a save and of a penalty *)

LEMMA SavedTyped ==
    ASSUME TypeOK, NEW n \in 1 .. Len(saves)
    PROVE  Saved(n) \in 1 .. 255
  <1>1. saves[n] \in SaveType
      BY DEF TypeOK
  <1>2. saves[n].result \in Results
      BY <1>1 DEF SaveType
  <1>3. saves[n].result.depth \in DEPTH_ENTRY_OFFSET + 1 .. DEPTH_ENTRY_OFFSET + 255
      BY <1>2, ResultAssumption
  <1> QED
      BY <1>3 DEF Saved, DEPTH_ENTRY_OFFSET

(* What is seen stays seen while saves are only added. *)
LEMMA SeenStays ==
    ASSUME TypeOK, NEW save, saves' = Append(saves, save), DepthsSaved,
           UNCHANGED <<entry, old>>
    PROVE  DepthsSaved'
  <1>1. Len(saves') = Len(saves) + 1 /\ \A n \in 1 .. Len(saves) : saves'[n] = saves[n]
      BY DEF TypeOK
  <1>2. ASSUME NEW d, Seen(d) PROVE d # 0 => \E n \in 1 .. Len(saves') : d <= Saved(n)'
    <2>1. SUFFICES ASSUME d # 0 PROVE \E n \in 1 .. Len(saves') : d <= Saved(n)'
        OBVIOUS
    <2>2. PICK n \in 1 .. Len(saves) : d <= Saved(n)
        BY <1>2, <2>1 DEF Seen
    <2>3. n \in 1 .. Len(saves') /\ Saved(n)' = Saved(n)
        BY <1>1 DEF TypeOK, Saved
    <2> QED
        BY <2>2, <2>3
  <1> QED
      BY <1>2 DEF DepthsSaved, Seen

(* A worker writes to its node's entry: only the depth it writes matters.  *)
LEMMA EntryWritten ==
    ASSUME TableInv, NEW w \in Workers, at[w] # "out", NEW f \in SaveFields \union {"move"},
           NEW x, entry' = [entry EXCEPT ![Node(w).writer][f] = x],
           [Here(w) EXCEPT ![f] = x] \in EntryType,
           f = "depth" => Seen(x), UNCHANGED saves
    PROVE  /\ entry' \in [Slots -> EntryType]
           /\ \A i \in Slots : Seen(entry[i].depth)'
  <1>1. Node(w).writer \in Slots /\ entry \in [Slots -> EntryType]
      BY NodeTyped DEF TableInv, TypeOK
  <1>2. entry' \in [Slots -> EntryType]
      BY <1>1 DEF Here
  <1>3. ASSUME NEW i \in Slots PROVE Seen(entry'[i].depth)
    <2>1. CASE i = Node(w).writer /\ f = "depth"
        BY <1>1, <2>1 DEF EntryType
    <2>2. CASE ~(i = Node(w).writer /\ f = "depth")
      <3>1. entry'[i].depth = entry[i].depth
          BY <1>1, <2>2 DEF EntryType, SaveFields
      <3> QED
          BY <3>1 DEF TableInv, DepthsSaved
    <2> QED
        BY <2>1, <2>2
  <1> QED
      BY <1>2, <1>3 DEF Seen, Saved

(* A depth lowered is still at most one that was saved. *)
LEMMA LowerIsSeen ==
    ASSUME TypeOK, NEW d \in 0 .. 255, Seen(d)
    PROVE  Seen(depth_saturating_sub(d, 1))
  <1> DEFINE lower == depth_saturating_sub(d, 1)
  <1>1. d = 0 => lower = 0
      BY SaturatingSub
  <1>2. SUFFICES ASSUME lower # 0 PROVE \E n \in 1 .. Len(saves) : lower <= Saved(n)
      BY DEF Seen
  <1>3. PICK n \in 1 .. Len(saves) : d <= Saved(n)
      BY <1>1, <1>2 DEF Seen
  <1>4. Saved(n) \in 1 .. 255
      BY SavedTyped
  <1>5. lower <= Saved(n)
      BY <1>3, <1>4, SaturatingSub, Zenon
  <1> QED
      BY <1>5

LEMMA SaveStep ==
    ASSUME TableInv, NEW w \in Workers, NEW r \in Results, Save(w, r)
    PROVE  TableInv'
  <1> DEFINE save == [key |-> Node(w).key, search |-> searches, result |-> r]
  <1>1. at[w] # "out" /\ saves' = Append(saves, save) /\ Len(saves) < MaxSaves
      BY DEF Save, InNode
  <1>2. save \in SaveType
      BY <1>1, NodeTyped DEF TableInv, TypeOK, SaveType, NodeType
  <1>3. saves' \in Seq(SaveType) /\ Len(saves') = Len(saves) + 1
      BY <1>1, <1>2 DEF TableInv, TypeOK
  <1>4. op' = [op EXCEPT ![w] = Len(saves) + 1] /\ Len(saves) + 1 \in 1 .. MaxSaves
      BY <1>1, LimitAssumption DEF Save, TableInv, TypeOK
  <1>5. op' \in [Workers -> 0 .. MaxSaves]
      BY <1>4, LimitAssumption DEF TableInv, TypeOK
  <1>6. raced' \subseteq Slots
      BY <1>1, NodeTyped DEF TableInv, TypeOK, Save, NoteRace
  <1>7. TypeOK'
    <2>1. at' \in [Workers -> AtType]
        BY DEF TableInv, TypeOK, Save, Step, AtType, Writing
    <2>2. Len(saves') <= MaxSaves
        BY <1>3, <1>4, LimitAssumption
    <2> QED
        BY <1>3, <1>5, <1>6, <2>1, <2>2 DEF TableInv, TypeOK, Save
  <1>8. Placed'
      BY <1>1 DEF TableInv, TypeOK, Placed, Save, Step
  <1>9. Numbered'
      BY <1>3, <1>4 DEF TableInv, TypeOK, Numbered, Save, Step
  <1>10. DepthsSaved'
      BY <1>1, SeenStays DEF TableInv, Save
  <1> QED
      BY <1>7, <1>8, <1>9, <1>10 DEF TableInv

(* The result a worker is writing. *)
LEMMA ResultTyped ==
    ASSUME TableInv, NEW w \in Workers, at[w] \in {"move", "decide", "store"}
    PROVE  /\ op[w] \in 1 .. Len(saves) /\ Result(w) \in Results
           /\ Result(w).move \in Moves \union {MOVE_NONE}
           /\ Stored(w).key \in {0} \union {key16[k] : k \in Keys}
           /\ Stored(w).depth \in 0 .. 255
           /\ Stored(w).gen_bound \in 0 .. 8 * Generations - 1
           /\ Stored(w).value \in ValueType
           /\ Seen(Stored(w).depth)
  <1>1. op[w] \in 1 .. Len(saves) /\ saves[op[w]] \in SaveType
      BY DEF TableInv, TypeOK, Numbered
  <1>2. Result(w) \in Results
      BY <1>1 DEF Result, SaveType
  <1>3. /\ Result(w).depth \in DEPTH_ENTRY_OFFSET + 1 .. DEPTH_ENTRY_OFFSET + 255
        /\ Result(w).bound \in 0 .. 3 /\ Result(w).pv \in BOOLEAN
        /\ Result(w).move \in Moves \union {MOVE_NONE} /\ Result(w).decisive \in BOOLEAN
      BY <1>2, ResultAssumption
  <1>4. Stored(w).key \in {0} \union {key16[k] : k \in Keys}
      BY NodeTyped DEF TableInv, Stored, SavedEntry, Key16, NodeType
  <1>5. Stored(w).depth \in 0 .. 255
      BY <1>3 DEF Stored, SavedEntry, DEPTH_ENTRY_OFFSET
  <1>6. Stored(w).gen_bound \in 0 .. 8 * Generations - 1
      BY <1>3, PackFits DEF TableInv, TypeOK, Stored, SavedEntry
  <1>7. Stored(w).value \in ValueType
      BY <1>3 DEF TableInv, TypeOK, Stored, SavedEntry, ValueType
  <1>8. \E n \in 1 .. Len(saves) : Stored(w).depth = Saved(n)
      BY <1>1 DEF Stored, SavedEntry, Result, Saved
  <1>9. Seen(Stored(w).depth)
    <2>1. PICK n \in 1 .. Len(saves) : Stored(w).depth = Saved(n)
        BY <1>8
    <2>2. Saved(n) \in 1 .. 255
        BY SavedTyped DEF TableInv
    <2>3. \A a \in 1 .. 255 : a <= a
        OBVIOUS
    <2>4. Stored(w).depth <= Saved(n)
        BY <2>1, <2>2, <2>3, Zenon
    <2> QED
        BY <2>4 DEF Seen
  <1> QED
      BY <1>1, <1>2, <1>3, <1>4, <1>5, <1>6, <1>7, <1>9

LEMMA StoreMoveStep ==
    ASSUME TableInv, NEW w \in Workers, StoreMove(w)
    PROVE  TableInv'
  <1>1. at[w] = "move"
      BY DEF StoreMove
  <1>2. [Here(w) EXCEPT !["move"] = Result(w).move] \in EntryType
    <2>1. Here(w) \in EntryType /\ Result(w).move \in Moves \union {MOVE_NONE}
        BY <1>1, ResultTyped, NodeTyped DEF TableInv
    <2> QED
        BY <2>1 DEF EntryType
  <1>3. entry' = [entry EXCEPT ![Node(w).writer]["move"] = Result(w).move]
      BY DEF StoreMove
  <1>4. entry' \in [Slots -> EntryType] /\ \A i \in Slots : Seen(entry[i].depth)'
    <2>1. at[w] # "out" /\ UNCHANGED saves
        BY <1>1 DEF StoreMove
    <2>2. "move" \in SaveFields \union {"move"} /\ "move" # "depth"
        OBVIOUS
    <2> QED
        BY <1>2, <1>3, <2>1, <2>2, EntryWritten
  <1>5. TypeOK'
      BY <1>4 DEF TableInv, TypeOK, StoreMove, Step, AtType, Writing
  <1>6. Placed'
      BY <1>1, PlacesUntouched DEF TableInv, StoreMove
  <1>7. Numbered'
      BY <1>1, NumbersUntouched DEF TableInv, StoreMove
  <1>8. DepthsSaved'
      BY <1>4 DEF TableInv, DepthsSaved, Seen, Saved, StoreMove
  <1> QED
      BY <1>5, <1>6, <1>7, <1>8 DEF TableInv

LEMMA DecideStep ==
    ASSUME TableInv, NEW w \in Workers, Decide(w)
    PROVE  TableInv'
  <1>1. /\ at[w] = "decide"
        /\ \E place \in {"store", "load", "node"} : Step(w, place)
        /\ todo' = [todo EXCEPT ![w] = SaveFields] \/ todo' = todo
      BY DEF Decide
  <1>2. TypeOK'
    <2>1. at' \in [Workers -> AtType]
        BY <1>1 DEF TableInv, TypeOK, Step, AtType, InNode, Writing
    <2>2. todo' \in [Workers -> SUBSET SaveFields]
        BY <1>1 DEF TableInv, TypeOK
    <2>3. UNCHANGED <<entry, generation, open, scan, op, old, saves, searches, probes, raced>>
        BY DEF Decide
    <2> QED
        BY <2>1, <2>2, <2>3 DEF TableInv, TypeOK
  <1>3. Placed'
      BY <1>1, PlacesUntouched DEF TableInv, Decide
  <1>4. Numbered' /\ DepthsSaved'
      BY <1>1, NumbersUntouched, DepthsUntouched DEF TableInv, Decide
  <1> QED
      BY <1>2, <1>3, <1>4 DEF TableInv

LEMMA StoreStep ==
    ASSUME TableInv, NEW w \in Workers, NEW f \in SaveFields, Store(w, f)
    PROVE  TableInv'
  <1>1. at[w] = "store" /\ entry' = [entry EXCEPT ![Node(w).writer][f] = Stored(w)[f]]
      BY DEF Store
  <1>2. /\ Here(w) \in EntryType
        /\ Stored(w).key \in {0} \union {key16[k] : k \in Keys}
        /\ Stored(w).depth \in 0 .. 255 /\ Seen(Stored(w).depth)
        /\ Stored(w).gen_bound \in 0 .. 8 * Generations - 1
        /\ Stored(w).value \in ValueType
      BY <1>1, ResultTyped, NodeTyped DEF TableInv
  <1>3. /\ [Here(w) EXCEPT ![f] = Stored(w)[f]] \in EntryType
        /\ f = "depth" => Seen(Stored(w)[f])
    <2>1. CASE f = "key"
        BY <1>2, <2>1 DEF EntryType
    <2>2. CASE f = "depth"
        BY <1>2, <2>2 DEF EntryType
    <2>3. CASE f = "gen_bound"
        BY <1>2, <2>3 DEF EntryType
    <2>4. CASE f = "value"
        BY <1>2, <2>4 DEF EntryType
    <2> QED
        BY <2>1, <2>2, <2>3, <2>4 DEF SaveFields
  <1>4. entry' \in [Slots -> EntryType] /\ \A i \in Slots : Seen(entry[i].depth)'
    <2>1. at[w] # "out" /\ UNCHANGED saves
        BY <1>1 DEF Store
    <2> QED
        BY <1>1, <1>3, <2>1, EntryWritten
  <1>5. \E place \in {"node", "store"} : Step(w, place)
      BY DEF Store
  <1>6. TypeOK'
      BY <1>4, <1>5 DEF TableInv, TypeOK, Store, Step, AtType, InNode, Writing
  <1>7. Placed'
      BY <1>1, <1>5, PlacesUntouched DEF TableInv, Store
  <1>8. Numbered'
      BY <1>1, <1>5, NumbersUntouched DEF TableInv, Store
  <1>9. DepthsSaved'
      BY <1>4 DEF TableInv, DepthsSaved, Seen, Saved, Store
  <1> QED
      BY <1>6, <1>7, <1>8, <1>9 DEF TableInv

LEMMA PenalizeStep ==
    ASSUME TableInv, NEW w \in Workers, Penalize(w)
    PROVE  TableInv'
  <1>1. at[w] = "found"
      BY DEF Penalize
  <1>2. raced' \subseteq Slots
      BY <1>1, NodeTyped DEF TableInv, TypeOK, Penalize, NoteRace
  <1>3. TypeOK'
    <2>1. op' \in [Workers -> 0 .. MaxSaves]
        BY LimitAssumption DEF TableInv, TypeOK, Penalize
    <2> QED
        BY <1>2, <2>1 DEF TableInv, TypeOK, Penalize, Step, AtType, Writing
  <1>4. Placed'
      BY <1>1, PlacesUntouched DEF TableInv, Penalize
  <1>5. Numbered'
      BY DEF TableInv, TypeOK, Numbered, Penalize, Step
  <1>6. DepthsSaved'
      BY DepthsUntouched DEF TableInv, Penalize
  <1> QED
      BY <1>3, <1>4, <1>5, <1>6 DEF TableInv

LEMMA LoadDepthStep ==
    ASSUME TableInv, NEW w \in Workers, LoadDepth(w)
    PROVE  TableInv'
  <1>1. at[w] = "load" /\ old' = [old EXCEPT ![w] = Here(w).depth]
      BY DEF LoadDepth
  <1>2. Here(w).depth \in 0 .. 255 /\ Seen(Here(w).depth)
      BY <1>1, NodeTyped DEF TableInv, DepthsSaved, EntryType, Here
  <1>3. TypeOK'
      BY <1>1, <1>2 DEF TableInv, TypeOK, LoadDepth, Step, AtType, Writing
  <1>4. Placed'
      BY <1>1, PlacesUntouched DEF TableInv, LoadDepth
  <1>5. Numbered'
      BY NumbersUntouched DEF TableInv, LoadDepth
  <1>6. DepthsSaved'
      BY <1>1, <1>2 DEF TableInv, TypeOK, DepthsSaved, Seen, Saved, LoadDepth
  <1> QED
      BY <1>3, <1>4, <1>5, <1>6 DEF TableInv

(* The entry may have changed since its depth was read: what is written is *)
(* still no deeper than what was read, and that had been saved.            *)
LEMMA LowerDepthStep ==
    ASSUME TableInv, NEW w \in Workers, LowerDepth(w)
    PROVE  TableInv'
  <1> DEFINE lower == depth_saturating_sub(old[w], 1)
  <1>1. /\ at[w] = "lower" /\ old' = [old EXCEPT ![w] = 0]
        /\ entry' = [entry EXCEPT ![Node(w).writer]["depth"] = lower]
      BY DEF LowerDepth
  <1>2. old[w] \in 0 .. 255 /\ Seen(old[w])
      BY DEF TableInv, TypeOK, DepthsSaved
  <1>3. lower \in 0 .. 255
      BY <1>2, SaturatingSub
  <1>4. Seen(lower)
      BY <1>2, LowerIsSeen DEF TableInv
  <1>5. entry' \in [Slots -> EntryType] /\ \A i \in Slots : Seen(entry[i].depth)'
    <2>1. at[w] # "out" /\ UNCHANGED saves
        BY <1>1 DEF LowerDepth
    <2>2. [Here(w) EXCEPT !["depth"] = lower] \in EntryType
      <3>1. Here(w) \in EntryType
          BY <1>1, NodeTyped DEF TableInv
      <3> QED
          BY <1>3, <3>1 DEF EntryType
    <2>3. "depth" \in SaveFields \union {"move"}
        BY DEF SaveFields
    <2> QED
        BY <1>1, <1>4, <2>1, <2>2, <2>3, EntryWritten
  <1>6. TypeOK'
    <2>1. old' \in [Workers -> 0 .. 255]
        BY <1>1 DEF TableInv, TypeOK
    <2> QED
        BY <1>5, <2>1 DEF TableInv, TypeOK, LowerDepth, Step, AtType, InNode
  <1>7. Placed'
      BY <1>1, PlacesUntouched DEF TableInv, LowerDepth
  <1>8. Numbered'
      BY NumbersUntouched DEF TableInv, LowerDepth
  <1>9. DepthsSaved'
      BY <1>1, <1>5 DEF TableInv, TypeOK, DepthsSaved, Seen, Saved, LowerDepth
  <1> QED
      BY <1>6, <1>7, <1>8, <1>9 DEF TableInv

LEMMA Inductive == TableInv /\ [Next]_vars => TableInv'
  <1> SUFFICES ASSUME TableInv, [Next]_vars PROVE TableInv'
      OBVIOUS
  <1>1. CASE NewSearch
      BY <1>1, NewSearchStep
  <1>2. ASSUME NEW w \in Workers, Work(w) PROVE TableInv'
      BY <1>2, ProbeStep, ScanMatchesStep, ScanPassesStep, CopyEntryStep, CompareVictimStep,
         VictimChosenStep, LeaveStep, SaveStep, StoreMoveStep, DecideStep, StoreStep,
         PenalizeStep, LoadDepthStep, LowerDepthStep
      DEF Work
  <1>3. CASE UNCHANGED vars
      BY <1>3 DEF vars, TableInv, TypeOK, Placed, Numbered, DepthsSaved, Seen, Saved
  <1> QED
      BY <1>1, <1>2, <1>3 DEF Next

-------------------------------------------------------------------------------

LEMMA Invariant == Spec => []TableInv
  BY Initial, Inductive, PTL DEF Spec

(* Each entry, node and save keeps its type: the packed byte never spills, *)
(* the age never leaves its bits, and a stored depth fits in eight.        *)
THEOREM TypeCorrect == Spec => []TypeOK
  <1>1. TableInv => TypeOK
      BY DEF TableInv
  <1> QED
      BY <1>1, Invariant, PTL

(* Whatever races, no entry ever looks deeper than something that was      *)
(* saved (tt.c:22-24).                                                     *)
THEOREM NoDepthInvented == Spec => []DepthNeverInvented
  <1>1. TableInv => DepthNeverInvented
      BY DEF TableInv, DepthsSaved, Seen, Saved, DepthNeverInvented
  <1> QED
      BY <1>1, Invariant, PTL

-------------------------------------------------------------------------------
(* An entry nobody raced for is whole whenever no worker is at it, and     *)
(* while one is, it is as far from whole as that worker's place says.      *)

(* Everything but the move comes from one of the saves S.                  *)
Core(e, S) ==
    e.value.save # 0 =>
        /\ e.value.save \in 1 .. Len(S)
        /\ e.key = key16[S[e.value.save].key]
        /\ BoundOf(e.gen_bound) = S[e.value.save].result.bound
        /\ PvOf(e.gen_bound) = S[e.value.save].result.pv
        /\ e.gen_bound % Generations = S[e.value.save].search % Generations
        /\ e.value.decisive = S[e.value.save].result.decisive
        /\ e.depth <= S[e.value.save].result.depth - DEPTH_ENTRY_OFFSET

(* The move was saved for a position with these low bits.                  *)
Suits(m, low, S) ==
    m # MOVE_NONE =>
        \E n \in 1 .. Len(S) : key16[S[n].key] = low /\ S[n].result.move = m

Whole(e, S) == Core(e, S) /\ Suits(e.move, e.key, S)

Holds(w, i) == at[w] \in Writing /\ Node(w).writer = i

(* Two workers at one entry are a race.                                    *)
Alone ==
    \A i \in Slots \ raced : \A v, w \in Workers : Holds(v, i) /\ Holds(w, i) => v = w

Rested ==
    \A i \in Slots \ raced : (\A w \in Workers : ~Holds(w, i)) => Whole(entry[i], saves)

(* The generation counts the searches, and a save in progress is of this   *)
(* search and of the node.                                                 *)
Dated ==
    /\ generation = searches % Generations
    /\ \A w \in Workers : at[w] \in {"move", "decide", "store"} =>
          saves[op[w]].key = Node(w).key /\ saves[op[w]].search = searches

(* What the entry a worker is writing to looks like in between: the new    *)
(* move may stand beside an old key only until the key is stored, and what *)
(* a refused save lowers is deep and has its key.                          *)
Halfway(w) ==
    /\ at[w] \in {"move", "load", "lower"} => Whole(Here(w), saves)
    /\ at[w] \in {"decide", "store"} => Suits(Here(w).move, Key16(w), saves)
    /\ at[w] = "decide" => Core(Here(w), saves)
    /\ at[w] = "store" => \A f \in SaveFields \ todo[w] : Here(w)[f] = Stored(w)[f]
    /\ at[w] = "lower" => old[w] = Here(w).depth
    /\ at[w] \in {"load", "lower"} /\ op[w] # 0 => Here(w).key = Key16(w) /\ Here(w).depth > 1

UnderWay ==
    \A w \in Workers : at[w] \in Writing /\ Node(w).writer \notin raced => Halfway(w)

Races == Alone /\ Rested /\ Dated /\ UnderWay

RaceInv == TableInv /\ Races

(* Arithmetic of the packed byte *)

(* A number is its quotient and its remainder ... *)
LEMMA Division ==
    ASSUME NEW G \in Nat \ {0}, NEW x \in Int
    PROVE  /\ x \div G \in Int /\ x % G \in 0 .. G - 1
           /\ x = G * (x \div G) + (x % G)
  OBVIOUS

(* ... and nothing else is. *)
LEMMA Unique ==
    ASSUME NEW G \in Nat \ {0}, NEW q \in Int, NEW r \in 0 .. G - 1,
           NEW p \in Int, NEW s \in 0 .. G - 1, G * q + r = G * p + s
    PROVE  q = p /\ r = s
  <1>1. G * (q - p) = s - r
      OBVIOUS
  <1>2. q - p < 1
    <2>1. SUFFICES ASSUME q - p >= 1 PROVE FALSE
        OBVIOUS
    <2>2. G * (q - p) >= G
        BY <2>1
    <2> QED
        BY <1>1, <2>2
  <1>3. q - p > -1
    <2>1. SUFFICES ASSUME q - p <= -1 PROVE FALSE
        OBVIOUS
    <2>2. G * (q - p) <= -G
        BY <2>1
    <2> QED
        BY <1>1, <2>2
  <1>4. q = p
      BY <1>2, <1>3
  <1> QED
      BY <1>4

(* Reading the parts of a packed number. *)
LEMMA Divided ==
    ASSUME NEW G \in Nat \ {0}, NEW q \in Int, NEW r \in 0 .. G - 1
    PROVE  (r + G * q) \div G = q /\ (r + G * q) % G = r
  <1> DEFINE x == r + G * q
  <1>1. x \in Int /\ x = G * q + r
      OBVIOUS
  <1>2. x \div G \in Int /\ x % G \in 0 .. G - 1 /\ x = G * (x \div G) + (x % G)
      BY <1>1, Division
  <1> HIDE DEF x
  <1>3. G * (x \div G) + (x % G) = G * q + r
      BY <1>1, <1>2
  <1>4. x \div G = q /\ x % G = r
      BY <1>2, <1>3, Unique
  <1> QED
      BY <1>4 DEF x

(* Whole generations leave no trace. *)
LEMMA Shifted ==
    ASSUME NEW G \in Nat \ {0}, NEW x \in Int, NEW n \in Int
    PROVE  (x + G * n) % G = x % G
  <1> DEFINE q == x \div G  r == x % G
  <1>1. q \in Int /\ r \in 0 .. G - 1 /\ x = G * q + r
      BY Division
  <1> HIDE DEF q, r
  <1>2. x + G * n = r + G * (q + n) /\ q + n \in Int
      BY <1>1
  <1>3. (r + G * (q + n)) % G = r
      BY <1>1, <1>2, Divided
  <1> QED
      BY <1>2, <1>3 DEF r

(* The wrapped difference is the difference of what was wrapped. *)
LEMMA AgeOf ==
    ASSUME NEW G \in Nat \ {0}, NEW a \in Int, NEW s \in Int, NEW t \in Int, a % G = s % G
    PROVE  ((t % G) - a) % G = (t - s) % G
  <1> DEFINE r == a % G  u == t % G  qa == a \div G  qs == s \div G  qt == t \div G
  <1>1. qa \in Int /\ r \in Int /\ a = G * qa + r
      BY Division
  <1>2. qs \in Int /\ s = G * qs + r
      BY Division
  <1>3. qt \in Int /\ u \in Int /\ t = G * qt + u
      BY Division
  <1> HIDE DEF r, u, qa, qs, qt
  <1>4. G * (qs - qt - qa) = G * qs - G * qt - G * qa
      BY <1>1, <1>2, <1>3
  <1>5. u - a = (t - s) + G * (qs - qt - qa)
      BY <1>1, <1>2, <1>3, <1>4
  <1>6. t - s \in Int /\ qs - qt - qa \in Int
      BY <1>1, <1>2, <1>3
  <1>7. ((t - s) + G * (qs - qt - qa)) % G = (t - s) % G
      BY <1>6, Shifted
  <1>8. (u - a) % G = (t - s) % G
      BY <1>5, <1>7
  <1> QED
      BY <1>8 DEF u

(* One more, wrapped. *)
LEMMA NextOf ==
    ASSUME NEW G \in Nat \ {0}, NEW t \in Int
    PROVE  ((t % G) + 1) % G = (t + 1) % G
  <1> DEFINE r == t % G  q == t \div G
  <1>1. q \in Int /\ r \in Int /\ t = G * q + r
      BY Division
  <1> HIDE DEF r, q
  <1>2. t + 1 = (r + 1) + G * q /\ r + 1 \in Int
      BY <1>1
  <1>3. ((r + 1) + G * q) % G = (r + 1) % G
      BY <1>1, <1>2, Shifted
  <1> QED
      BY <1>2, <1>3 DEF r

(* What is packed can be read back: bound, PV flag and generation do not   *)
(* overlap.                                                                *)
LEMMA PackReads ==
    ASSUME NEW bound \in 0 .. 3, NEW pv \in BOOLEAN, generation \in 0 .. Generations - 1
    PROVE  /\ BoundOf(Pack(bound, pv)) = bound
           /\ PvOf(Pack(bound, pv)) = pv
           /\ Pack(bound, pv) % Generations = generation
  <1> DEFINE n == bound + 4 * Bit(pv)
  <1>1. n \in Int /\ n % 4 = bound
    <2>1. CASE pv
        BY <2>1 DEF Bit
    <2>2. CASE ~pv
        BY <2>2 DEF Bit
    <2> QED
        BY <2>1, <2>2
  <1>2. Pack(bound, pv) = generation + Generations * n
      BY DEF Pack
  <1> HIDE DEF n
  <1>3. /\ (generation + Generations * n) \div Generations = n
        /\ (generation + Generations * n) % Generations = generation
      BY <1>1, GenerationsPositive, Divided
  <1>4. PvOf(Pack(bound, pv)) = pv
    <2> DEFINE low == generation + Generations * bound  four == 4 * Generations
    <2>1. four \in Nat \ {0} /\ low \in 0 .. four - 1
      <3>1. Generations * bound <= 3 * Generations /\ Generations * bound >= 0
          BY GenerationsPositive
      <3>2. Generations * bound \in Int
          BY GenerationsPositive
      <3> QED
          BY <3>1, <3>2, GenerationsPositive
    <2>2. Pack(bound, pv) = low + four * Bit(pv) /\ Bit(pv) \in Int /\ (Bit(pv) = 1 <=> pv)
      <3>1. Generations * (bound + 4 * 1) = Generations * bound + 4 * Generations
          BY GenerationsPositive
      <3>2. CASE pv
          BY <3>1, <3>2, GenerationsPositive DEF Pack, Bit
      <3>3. CASE ~pv
          BY <3>3, GenerationsPositive DEF Pack, Bit
      <3> QED
          BY <3>2, <3>3
    <2> HIDE DEF low
    <2>3. (low + four * Bit(pv)) \div four = Bit(pv)
      <3> HIDE DEF four
      <3> QED
          BY <2>1, <2>2, Divided
    <2>4. Pack(bound, pv) \div (4 * Generations) = Bit(pv)
        BY <2>2, <2>3
    <2> QED
        BY <2>2, <2>4 DEF PvOf
  <1>5. BoundOf(Pack(bound, pv)) = bound
      BY <1>1, <1>2, <1>3 DEF BoundOf
  <1> QED
      BY <1>2, <1>3, <1>4, <1>5

LEMMA NextDated ==
    ASSUME TypeOK, generation = searches % Generations
    PROVE  NextGeneration = (searches + 1) % Generations
  <1>1. searches \in Int
      BY DEF TypeOK
  <1> QED
      BY <1>1, GenerationsPositive, NextOf DEF NextGeneration

-------------------------------------------------------------------------------
(* What a step does to the workers that do not take it *)

LEMMA CoreGrows ==
    ASSUME NEW S \in Seq(SaveType), NEW x \in SaveType, NEW e,
           e.value.save \in Nat, Core(e, S)
    PROVE  Core(e, Append(S, x))
  <1>1. /\ Len(Append(S, x)) = Len(S) + 1
        /\ \A n \in 1 .. Len(S) : Append(S, x)[n] = S[n]
      OBVIOUS
  <1> HIDE DEF Core
  <1>2. SUFFICES ASSUME e.value.save # 0 PROVE Core(e, Append(S, x))
      BY DEF Core
  <1>3. e.value.save \in 1 .. Len(S)
      BY <1>2 DEF Core
  <1>4. e.value.save \in 1 .. Len(Append(S, x)) /\ Append(S, x)[e.value.save] = S[e.value.save]
      BY <1>1, <1>3
  <1> QED
      BY <1>2, <1>4 DEF Core

LEMMA SuitsGrows ==
    ASSUME NEW S \in Seq(SaveType), NEW x \in SaveType, NEW m, NEW low, Suits(m, low, S)
    PROVE  Suits(m, low, Append(S, x))
  <1>1. /\ Len(Append(S, x)) = Len(S) + 1
        /\ \A n \in 1 .. Len(S) : Append(S, x)[n] = S[n]
      OBVIOUS
  <1>2. SUFFICES ASSUME m # MOVE_NONE PROVE Suits(m, low, Append(S, x))
      BY DEF Suits
  <1>3. PICK n \in 1 .. Len(S) : key16[S[n].key] = low /\ S[n].result.move = m
      BY <1>2 DEF Suits
  <1>4. n \in 1 .. Len(Append(S, x)) /\ Append(S, x)[n] = S[n]
      BY <1>1, <1>3
  <1> QED
      BY <1>3, <1>4 DEF Suits

(* A worker whose own variables, entry and result stay is as far as before. *)
LEMMA Halfways ==
    ASSUME TableInv, NEW v \in Workers, at[v] \in Writing, Halfway(v),
           at'[v] = at[v], open'[v] = open[v], todo'[v] = todo[v], op'[v] = op[v],
           old'[v] = old[v], generation' = generation,
           entry'[Node(v).writer] = entry[Node(v).writer],
           saves' = saves \/ \E x \in SaveType : saves' = Append(saves, x)
    PROVE  Halfway(v)'
  <1>1. Node(v)' = Node(v) /\ Here(v)' = Here(v) /\ Key16(v)' = Key16(v)
      BY DEF Node, Here, Key16
  <1>2. at[v] \in {"move", "decide", "store"} => Result(v)' = Result(v)
    <2>1. SUFFICES ASSUME at[v] \in {"move", "decide", "store"} PROVE saves'[op[v]] = saves[op[v]]
        BY DEF Result
    <2>2. op[v] \in 1 .. Len(saves) /\ saves \in Seq(SaveType)
        BY <2>1 DEF TableInv, Numbered, TypeOK
    <2> QED
        BY <2>2
  <1>3. at[v] = "store" => Stored(v)' = Stored(v)
      BY <1>1, <1>2 DEF Stored, SavedEntry, Pack
  <1>4. Here(v).value.save \in Nat /\ saves \in Seq(SaveType)
    <2>1. at[v] # "out"
        BY DEF Writing
    <2>2. Here(v) \in EntryType /\ saves \in Seq(SaveType)
        BY <2>1, NodeTyped DEF TableInv, TypeOK
    <2> QED
        BY <2>2, LimitAssumption DEF EntryType, ValueType
  <1>5. /\ Core(Here(v), saves) => Core(Here(v), saves')
        /\ Suits(Here(v).move, Key16(v), saves) => Suits(Here(v).move, Key16(v), saves')
        /\ Suits(Here(v).move, Here(v).key, saves) => Suits(Here(v).move, Here(v).key, saves')
    <2>1. CASE saves' = saves
        BY <2>1
    <2>2. ASSUME NEW x \in SaveType, saves' = Append(saves, x)
          PROVE  /\ Core(Here(v), saves) => Core(Here(v), saves')
                 /\ Suits(Here(v).move, Key16(v), saves) => Suits(Here(v).move, Key16(v), saves')
                 /\ Suits(Here(v).move, Here(v).key, saves) => Suits(Here(v).move, Here(v).key, saves')
        BY <1>4, <2>2, CoreGrows, SuitsGrows
    <2> QED
        BY <2>1, <2>2
  <1>6. Whole(Here(v), saves) => Whole(Here(v), saves')
      BY <1>5 DEF Whole
  <1> QED
      BY <1>1, <1>3, <1>5, <1>6 DEF Halfway

(* A step that writes nothing, of a worker that is not writing. *)
LEMMA Idle ==
    ASSUME RaceInv, NEW w \in Workers, at[w] \notin Writing, at'[w] \notin Writing,
           \A v \in Workers \ {w} : at'[v] = at[v] /\ open'[v] = open[v],
           UNCHANGED <<entry, generation, todo, op, old, saves, searches, raced>>
    PROVE  Races'
  <1>1. ASSUME NEW v \in Workers, at'[v] \in Writing
        PROVE  v # w /\ at[v] \in Writing /\ Node(v)' = Node(v) /\ at'[v] = at[v] /\ open'[v] = open[v]
      BY <1>1 DEF Node
  <1>2. ASSUME NEW v \in Workers, NEW i PROVE Holds(v, i)' <=> Holds(v, i)
    <2>1. CASE v = w
        BY <2>1 DEF Holds
    <2>2. CASE v # w
        BY <2>2 DEF Holds, Node
    <2> QED
        BY <2>1, <2>2
  <1>3. Alone'
      BY <1>2 DEF RaceInv, Races, Alone
  <1>4. Rested'
      BY <1>2 DEF RaceInv, Races, Rested
  <1>5. Dated'
    <2>1. ASSUME NEW v \in Workers, at'[v] \in {"move", "decide", "store"}
          PROVE  saves'[op'[v]].key = Node(v)'.key /\ saves'[op'[v]].search = searches'
      <3>1. Node(v)' = Node(v) /\ at'[v] = at[v]
          BY <1>1, <2>1 DEF Writing
      <3> QED
          BY <2>1, <3>1 DEF RaceInv, Races, Dated
    <2> QED
        BY <2>1 DEF RaceInv, Races, Dated
  <1>6. UnderWay'
    <2>1. ASSUME NEW v \in Workers, at'[v] \in Writing, Node(v)'.writer \notin raced'
          PROVE  Halfway(v)'
      <3>1. /\ at[v] \in Writing /\ Node(v)' = Node(v) /\ at'[v] = at[v] /\ open'[v] = open[v]
          BY <1>1, <2>1
      <3>2. Halfway(v)
          BY <2>1, <3>1 DEF RaceInv, Races, UnderWay
      <3> QED
          BY <3>1, <3>2, Halfways DEF RaceInv
    <2> QED
        BY <2>1 DEF UnderWay
  <1> QED
      BY <1>3, <1>4, <1>5, <1>6 DEF Races

(* A step of a worker that is writing, to its own entry and no other. *)
LEMMA Working ==
    ASSUME RaceInv, NEW w \in Workers, at[w] \in Writing,
           \A v \in Workers \ {w} : at'[v] = at[v] /\ todo'[v] = todo[v] /\ old'[v] = old[v],
           \A i \in Slots \ {Node(w).writer} : entry'[i] = entry[i],
           UNCHANGED <<open, generation, op, saves, searches, raced>>,
           at'[w] \in {"move", "decide", "store"} => at[w] \in {"move", "decide", "store"},
           at'[w] \in Writing /\ Node(w).writer \notin raced => Halfway(w)',
           at'[w] \notin Writing /\ Node(w).writer \notin raced => Whole(entry'[Node(w).writer], saves)
    PROVE  Races'
  <1> USE DEF RaceInv
  <1>1. \A v \in Workers : Node(v)' = Node(v)
      BY DEF Node
  <1>2. \A v \in Workers, i \in Slots : Holds(v, i)' => Holds(v, i)
      BY <1>1 DEF Holds
  <1>3. \A v \in Workers \ {w}, i \in Slots : Holds(v, i)' <=> Holds(v, i)
      BY <1>1 DEF Holds
  <1>4. Alone'
    <2>1. Alone
        BY DEF Races
    <2> QED
        BY <1>2, <2>1 DEF Alone
  <1>5. Rested'
    <2>1. ASSUME NEW i \in Slots \ raced', \A v \in Workers : ~Holds(v, i)'
          PROVE  Whole(entry'[i], saves')
      <3>1. CASE i = Node(w).writer
        <4>1. at'[w] \notin Writing
            BY <1>1, <2>1, <3>1 DEF Holds
        <4> QED
            BY <2>1, <3>1, <4>1
      <3>2. CASE i # Node(w).writer
        <4>1. \A v \in Workers : ~Holds(v, i)
            BY <1>3, <2>1, <3>2 DEF Holds
        <4>2. Whole(entry[i], saves)
            BY <2>1, <4>1 DEF Races, Rested
        <4> QED
            BY <2>1, <3>2, <4>2
      <3> QED
          BY <3>1, <3>2
    <2> QED
        BY <2>1 DEF Rested
  <1>6. Dated'
    <2>1. \A v \in Workers : at'[v] \in {"move", "decide", "store"} => at[v] \in {"move", "decide", "store"}
        OBVIOUS
    <2> QED
        BY <1>1, <2>1 DEF Races, Dated
  <1>7. UnderWay'
    <2>1. ASSUME NEW v \in Workers, at'[v] \in Writing, Node(v)'.writer \notin raced'
          PROVE  Halfway(v)'
      <3>1. CASE v = w
          BY <1>1, <2>1, <3>1
      <3>2. CASE v # w
        <4>1. at[v] \in Writing /\ Node(v).writer \notin raced
            BY <1>1, <2>1, <3>2
        <4>2. Node(v).writer \in Slots /\ Node(w).writer \in Slots
            BY <4>1, NodeTyped DEF TableInv, Writing
        <4>3. Node(v).writer # Node(w).writer
            BY <3>2, <4>1, <4>2 DEF Races, Alone, Holds
        <4>4. entry'[Node(v).writer] = entry[Node(v).writer]
            BY <4>2, <4>3
        <4>5. Halfway(v)
            BY <4>1 DEF Races, UnderWay
        <4> QED
            BY <3>2, <4>1, <4>4, <4>5, Halfways
      <3> QED
          BY <3>1, <3>2
    <2> QED
        BY <2>1 DEF UnderWay
  <1> QED
      BY <1>4, <1>5, <1>6, <1>7 DEF Races

(* A worker that begins to write, and is not racing, finds a whole entry *)
(* that is nobody else's.                                                *)
LEMMA FoundWhole ==
    ASSUME RaceInv, NEW w \in Workers, at[w] \in InNode, NoteRace(w), Node(w).writer \notin raced'
    PROVE  /\ \A v \in Workers : ~Holds(v, Node(w).writer)
           /\ Whole(Here(w), saves) /\ Node(w).writer \in Slots \ raced
  <1>1. Node(w).writer \in Slots
      BY NodeTyped DEF RaceInv, TableInv, InNode
  <1>2. \A v \in Workers \ {w} : ~(at[v] \in Writing /\ Node(v).writer = Node(w).writer)
      BY DEF NoteRace
  <1>3. Node(w).writer \notin raced
      BY <1>2 DEF NoteRace
  <1>4. \A v \in Workers : ~Holds(v, Node(w).writer)
      BY <1>2 DEF Holds, InNode, Writing
  <1> QED
      BY <1>1, <1>3, <1>4 DEF RaceInv, Races, Rested, Here

(* A step with which a worker begins to write. *)
LEMMA Starting ==
    ASSUME RaceInv, NEW w \in Workers, at[w] \in InNode, at'[w] \in Writing, NoteRace(w),
           \A v \in Workers \ {w} : at'[v] = at[v] /\ op'[v] = op[v],
           UNCHANGED <<entry, open, generation, todo, old, searches>>,
           saves' = saves \/ \E x \in SaveType : saves' = Append(saves, x),
           at'[w] \in {"move", "decide", "store"} =>
              saves'[op'[w]].key = Node(w).key /\ saves'[op'[w]].search = searches,
           Node(w).writer \notin raced' => Halfway(w)'
    PROVE  Races'
  <1> USE DEF RaceInv
  <1>1. \A v \in Workers : Node(v)' = Node(v)
      BY DEF Node
  <1>2. raced \subseteq raced'
      BY DEF NoteRace
  <1>3. \A v \in Workers \ {w}, i \in Slots : Holds(v, i)' <=> Holds(v, i)
      BY <1>1 DEF Holds
  <1>4. Alone'
    <2>1. ASSUME NEW i \in Slots \ raced', NEW v \in Workers, NEW u \in Workers, Holds(v, i)', Holds(u, i)'
          PROVE  v = u
      <3>1. CASE v = w \/ u = w
        <4>1. i = Node(w).writer
            BY <1>1, <2>1, <3>1 DEF Holds
        <4>2. \A x \in Workers : ~Holds(x, i)
            BY <2>1, <4>1, FoundWhole
        <4> QED
            BY <1>3, <2>1, <4>2
      <3>2. CASE v # w /\ u # w
          BY <1>2, <1>3, <2>1, <3>2 DEF Races, Alone
      <3> QED
          BY <3>1, <3>2
    <2> QED
        BY <2>1 DEF Alone
  <1>5. Rested'
    <2>1. ASSUME NEW i \in Slots \ raced', \A v \in Workers : ~Holds(v, i)'
          PROVE  Whole(entry'[i], saves')
      <3>1. i # Node(w).writer
          BY <1>1, <2>1 DEF Holds
      <3>2. \A v \in Workers : ~Holds(v, i)
          BY <1>3, <2>1, <3>1 DEF Holds
      <3>3. Core(entry[i], saves) /\ Suits(entry[i].move, entry[i].key, saves)
          BY <1>2, <2>1, <3>2 DEF Races, Rested, Whole
      <3>4. saves \in Seq(SaveType) /\ entry[i].value.save \in Nat
        <4>1. entry[i] \in EntryType /\ saves \in Seq(SaveType)
            BY DEF TableInv, TypeOK
        <4> QED
            BY <4>1, LimitAssumption DEF EntryType, ValueType
      <3>5. Core(entry[i], saves') /\ Suits(entry[i].move, entry[i].key, saves')
        <4>1. CASE saves' = saves
            BY <3>3, <4>1
        <4>2. ASSUME NEW x \in SaveType, saves' = Append(saves, x)
              PROVE  Core(entry[i], saves') /\ Suits(entry[i].move, entry[i].key, saves')
            BY <3>3, <3>4, <4>2, CoreGrows, SuitsGrows
        <4> QED
            BY <4>1, <4>2
      <3> QED
          BY <3>5 DEF Whole
    <2> QED
        BY <2>1 DEF Rested
  <1>6. Dated'
    <2>1. ASSUME NEW v \in Workers, at'[v] \in {"move", "decide", "store"}
          PROVE  saves'[op'[v]].key = Node(v)'.key /\ saves'[op'[v]].search = searches'
      <3>1. CASE v = w
          BY <1>1, <2>1, <3>1
      <3>2. CASE v # w
        <4>1. /\ at[v] \in {"move", "decide", "store"} /\ op'[v] = op[v]
              /\ saves[op[v]].key = Node(v).key /\ saves[op[v]].search = searches
            BY <2>1, <3>2 DEF Races, Dated
        <4>2. op[v] \in 1 .. Len(saves) /\ saves \in Seq(SaveType)
            BY <4>1 DEF TableInv, Numbered, TypeOK
        <4>3. saves'[op[v]] = saves[op[v]]
            BY <4>2
        <4> QED
            BY <1>1, <4>1, <4>3
      <3> QED
          BY <3>1, <3>2
    <2> QED
        BY <2>1 DEF Races, Dated
  <1>7. UnderWay'
    <2>1. ASSUME NEW v \in Workers, at'[v] \in Writing, Node(v)'.writer \notin raced'
          PROVE  Halfway(v)'
      <3>1. CASE v = w
          BY <1>1, <2>1, <3>1
      <3>2. CASE v # w
        <4>1. at[v] \in Writing /\ Node(v).writer \notin raced
            BY <1>1, <1>2, <2>1, <3>2
        <4>2. Halfway(v)
            BY <4>1 DEF Races, UnderWay
        <4> QED
            BY <3>2, <4>1, <4>2, Halfways
      <3> QED
          BY <3>1, <3>2
    <2> QED
        BY <2>1 DEF UnderWay
  <1> QED
      BY <1>4, <1>5, <1>6, <1>7 DEF Races

-------------------------------------------------------------------------------
(* Every step keeps the entries nobody raced for whole *)

LEMMA RacesAtFirst == Init => Races
  <1> SUFFICES ASSUME Init PROVE Races
      OBVIOUS
  <1>1. \A w \in Workers : at[w] \notin Writing /\ at[w] \notin {"move", "decide", "store"}
      BY DEF Init, Writing
  <1>2. Alone /\ UnderWay
      BY <1>1 DEF Alone, UnderWay, Holds
  <1>3. Rested
    <2>1. Whole(Cleared, saves)
        BY DEF Whole, Core, Suits, Cleared, NoValue
    <2>2. ASSUME NEW s \in Earlier,
                 saves = <<[key |-> s.key, search |-> 0, result |-> s.result]>>
          PROVE  Whole(SavedEntry(1, key16[s.key], s.result), saves)
      <3> DEFINE e == SavedEntry(1, key16[s.key], s.result)
      <3>1. generation = 0 /\ generation \in 0 .. Generations - 1 /\ 0 % Generations = 0
          BY GenerationsPositive, Divided DEF Init
      <3>2. s.result.bound \in 0 .. 3 /\ s.result.pv \in BOOLEAN
            /\ s.result.depth - DEPTH_ENTRY_OFFSET \in 1 .. 255
          BY <3>1, EarlierEntry
      <3>3. /\ BoundOf(e.gen_bound) = s.result.bound /\ PvOf(e.gen_bound) = s.result.pv
            /\ e.gen_bound % Generations = 0 % Generations
          BY <3>1, <3>2, PackReads DEF SavedEntry
      <3>4. /\ e.value.save = 1 /\ e.value.decisive = s.result.decisive /\ e.move = s.result.move
            /\ e.key = key16[s.key] /\ e.depth = s.result.depth - DEPTH_ENTRY_OFFSET
          BY DEF SavedEntry
      <3>5. /\ Len(saves) = 1 /\ saves[1].key = s.key /\ saves[1].search = 0
            /\ saves[1].result = s.result
          BY <2>2
      <3>6. e.depth <= s.result.depth - DEPTH_ENTRY_OFFSET
          BY <3>2, <3>4
      <3> HIDE DEF e
      <3>7. Core(e, saves)
          BY <3>3, <3>4, <3>5, <3>6 DEF Core
      <3>8. Suits(e.move, e.key, saves)
          BY <3>4, <3>5 DEF Suits
      <3> QED
          BY <3>7, <3>8 DEF Whole, e
    <2>3. \A i \in Slots : Whole(entry[i], saves)
      <3>1. CASE saves = <<>> /\ entry = [i \in Slots |-> Cleared]
          BY <2>1, <3>1
      <3>2. ASSUME NEW s \in Earlier,
                   saves = <<[key |-> s.key, search |-> 0, result |-> s.result]>>,
                   entry = [i \in Slots |-> IF i = 0 THEN SavedEntry(1, key16[s.key], s.result)
                                            ELSE Cleared]
            PROVE  <2>3
          BY <2>1, <2>2, <3>2
      <3> QED
          BY <3>1, <3>2 DEF Init
    <2> QED
        BY <2>3 DEF Rested
  <1>4. Dated
    <2>1. (0 + Generations * 0) % Generations = 0
        BY GenerationsPositive, Divided
    <2>2. 0 + Generations * 0 = 0
        BY GenerationsPositive
    <2> QED
        BY <1>1, <2>1, <2>2 DEF Init, Dated
  <1> QED
      BY <1>2, <1>3, <1>4 DEF Races

LEMMA NewSearchRaces == RaceInv /\ NewSearch => Races'
  <1> SUFFICES ASSUME RaceInv, NewSearch PROVE Races'
      OBVIOUS
  <1>1. \A w \in Workers : at'[w] = "out" /\ at[w] = "out"
      BY DEF NewSearch
  <1>2. Alone' /\ UnderWay'
      BY <1>1 DEF Alone, UnderWay, Holds, Writing
  <1>3. Rested'
      BY <1>1 DEF RaceInv, Races, NewSearch, Rested, Holds, Writing
  <1>4. generation' = searches' % Generations
      BY NextDated DEF RaceInv, TableInv, Races, Dated, NewSearch
  <1>5. Dated'
      BY <1>1, <1>4 DEF Dated
  <1> QED
      BY <1>2, <1>3, <1>5 DEF Races

(* Probing and leaving write nothing. *)
LEMMA ReadingRaces ==
    ASSUME RaceInv, NEW w \in Workers,
           \/ \E k \in Keys : Probe(w, k)
           \/ ScanMatches(w) \/ ScanPasses(w) \/ CompareVictim(w) \/ VictimChosen(w)
           \/ CopyEntry(w) \/ Leave(w)
    PROVE  Races'
  <1>1. at \in [Workers -> AtType] /\ open \in [Workers -> Seq(NodeType)]
      BY DEF RaceInv, TableInv, TypeOK
  <1> DEFINE Aside == /\ at[w] \notin Writing /\ at'[w] \notin Writing
                      /\ \A v \in Workers \ {w} : at'[v] = at[v] /\ open'[v] = open[v]
                      /\ UNCHANGED <<entry, generation, todo, op, old, saves, searches, raced>>
  <1>2. ASSUME NEW k \in Keys, Probe(w, k) PROVE Aside
      BY <1>1, <1>2 DEF Probe, Step, InNode, Writing
  <1>3. CASE ScanMatches(w)
      BY <1>1, <1>3, Idle DEF ScanMatches, SetNode, Step, Writing
  <1>4. CASE ScanPasses(w)
      BY <1>1, <1>4, Idle DEF ScanPasses, Step, Writing
  <1>5. CASE CompareVictim(w)
      BY <1>1, <1>5, Idle DEF CompareVictim, SetNode, Writing
  <1>6. CASE VictimChosen(w)
      BY <1>1, <1>6, Idle DEF VictimChosen, Step, Writing
  <1>7. CASE CopyEntry(w)
      BY <1>1, <1>7, Idle DEF CopyEntry, SetNode, Step, Writing
  <1>8. CASE Leave(w)
      BY <1>1, <1>8, Idle DEF Leave, Step, InNode, Writing
  <1> QED
      BY <1>2, <1>3, <1>4, <1>5, <1>6, <1>7, <1>8, Idle

LEMMA SaveRaces ==
    ASSUME RaceInv, NEW w \in Workers, NEW r \in Results, Save(w, r)
    PROVE  Races'
  <1> DEFINE save == [key |-> Node(w).key, search |-> searches, result |-> r]
  <1>1. /\ at[w] \in InNode /\ at[w] # "out" /\ NoteRace(w) /\ saves' = Append(saves, save)
        /\ op' = [op EXCEPT ![w] = Len(saves) + 1]
        /\ UNCHANGED <<entry, generation, open, todo, old, searches>>
        /\ at'[w] \in {"move", "decide"}
        /\ at'[w] = "decide" => r.move = MOVE_NONE /\ Here(w).key = Key16(w)
        /\ \A v \in Workers \ {w} : at'[v] = at[v] /\ op'[v] = op[v]
    <2>1. at \in [Workers -> AtType] /\ op \in [Workers -> 0 .. MaxSaves]
        BY DEF RaceInv, TableInv, TypeOK
    <2> QED
        BY <2>1 DEF Save, Step, InNode, Key16
  <1>2. save \in SaveType
      BY <1>1, NodeTyped DEF RaceInv, TableInv, TypeOK, SaveType, NodeType
  <1>3. saves' \in Seq(SaveType) /\ saves'[op'[w]] = save
      BY <1>1, <1>2 DEF RaceInv, TableInv, TypeOK
  <1>4. saves'[op'[w]].key = Node(w).key /\ saves'[op'[w]].search = searches
      BY <1>3
  <1>5. ASSUME Node(w).writer \notin raced' PROVE Halfway(w)'
    <2>1. Core(Here(w), saves) /\ Suits(Here(w).move, Here(w).key, saves)
        BY <1>1, <1>5, FoundWhole DEF Whole
    <2>2. Here(w).value.save \in Nat /\ saves \in Seq(SaveType)
      <3>1. Here(w) \in EntryType /\ saves \in Seq(SaveType)
          BY <1>1, NodeTyped DEF RaceInv, TableInv, TypeOK
      <3> QED
          BY <3>1, LimitAssumption DEF EntryType, ValueType
    <2>3. Core(Here(w), saves') /\ Suits(Here(w).move, Here(w).key, saves')
        BY <1>1, <1>2, <2>1, <2>2, CoreGrows, SuitsGrows
    <2>4. Here(w)' = Here(w) /\ Key16(w)' = Key16(w)
        BY <1>1 DEF Here, Node, Key16
    <2>5. CASE at'[w] = "move"
        BY <2>3, <2>4, <2>5 DEF Halfway, Whole
    <2>6. CASE at'[w] = "decide"
        BY <1>1, <2>3, <2>4, <2>6 DEF Halfway
    <2> QED
        BY <1>1, <2>5, <2>6
  <1>6. at'[w] \in Writing
      BY <1>1 DEF Writing
  <1> QED
      BY <1>1, <1>2, <1>4, <1>5, <1>6, Starting

LEMMA PenalizeRaces ==
    ASSUME RaceInv, NEW w \in Workers, Penalize(w)
    PROVE  Races'
  <1>1. /\ at[w] \in InNode /\ NoteRace(w) /\ op'[w] = 0 /\ at'[w] = "load"
        /\ UNCHANGED <<entry, generation, open, todo, old, searches, saves>>
        /\ \A v \in Workers \ {w} : at'[v] = at[v] /\ op'[v] = op[v]
    <2>1. at \in [Workers -> AtType] /\ op \in [Workers -> 0 .. MaxSaves]
        BY DEF RaceInv, TableInv, TypeOK
    <2> QED
        BY <2>1 DEF Penalize, Step, InNode
  <1>2. ASSUME Node(w).writer \notin raced' PROVE Halfway(w)'
    <2>1. Whole(Here(w), saves)
        BY <1>1, <1>2, FoundWhole
    <2>2. Here(w)' = Here(w)
        BY <1>1 DEF Here, Node
    <2> QED
        BY <1>1, <2>1, <2>2 DEF Halfway
  <1> QED
      BY <1>1, <1>2, Starting DEF Writing

(* What a step of a writing worker needs of the entry it had before. *)
LEMMA WasHalfway ==
    ASSUME RaceInv, NEW w \in Workers, at[w] \in Writing, Node(w).writer \notin raced
    PROVE  /\ Halfway(w) /\ Here(w) \in EntryType /\ Node(w).writer \in Slots
           /\ entry \in [Slots -> EntryType]
  <1>1. at[w] # "out"
      BY DEF Writing
  <1> QED
      BY <1>1, NodeTyped DEF RaceInv, TableInv, TypeOK, Races, UnderWay

LEMMA StoreMoveRaces ==
    ASSUME RaceInv, NEW w \in Workers, StoreMove(w)
    PROVE  Races'
  <1>1. /\ at[w] = "move" /\ at'[w] = "decide"
        /\ entry' = [entry EXCEPT ![Node(w).writer]["move"] = Result(w).move]
        /\ UNCHANGED <<open, generation, todo, op, old, saves, searches, raced>>
        /\ \A v \in Workers \ {w} : at'[v] = at[v]
    <2>1. at \in [Workers -> AtType]
        BY DEF RaceInv, TableInv, TypeOK
    <2> QED
        BY <2>1 DEF StoreMove, Step
  <1>2. \A i \in Slots \ {Node(w).writer} : entry'[i] = entry[i]
      BY <1>1 DEF RaceInv, TableInv, TypeOK
  <1>3. ASSUME Node(w).writer \notin raced PROVE Halfway(w)'
    <2> DEFINE e == Here(w)  f == [e EXCEPT !["move"] = Result(w).move]
    <2>1. Core(e, saves) /\ e \in EntryType
        BY <1>1, <1>3, WasHalfway DEF Halfway, Whole, Writing
    <2>2. Here(w)' = f /\ Key16(w)' = Key16(w)
      <3>1. entry'[Node(w).writer] = [entry[Node(w).writer] EXCEPT !["move"] = Result(w).move]
          BY <1>1, <1>3, WasHalfway DEF Writing
      <3> QED
          BY <1>1, <3>1 DEF Here, Node, Key16
    <2>3. /\ f.move = Result(w).move /\ f.value = e.value /\ f.key = e.key /\ f.depth = e.depth
          /\ f.gen_bound = e.gen_bound
        BY <2>1 DEF EntryType
    <2>4. Suits(Result(w).move, Key16(w), saves)
      <3>1. op[w] \in 1 .. Len(saves) /\ saves[op[w]].key = Node(w).key
          BY <1>1 DEF RaceInv, Races, Dated, TableInv, Numbered
      <3> QED
          BY <3>1 DEF Suits, Key16, Result
    <2> HIDE DEF e, f
    <2>5. Core(f, saves)
        BY <2>1, <2>3 DEF Core
    <2> QED
        BY <1>1, <2>2, <2>3, <2>4, <2>5 DEF Halfway
  <1> QED
      BY <1>1, <1>2, <1>3, Working DEF Writing

LEMMA DecideRaces ==
    ASSUME RaceInv, NEW w \in Workers, Decide(w)
    PROVE  Races'
  <1> DEFINE over == Overwrites(Here(w), Key16(w), Result(w))  loses == LosesPly(Here(w))
  <1>1. /\ at[w] = "decide"
        /\ over => at'[w] = "store" /\ todo'[w] = SaveFields
        /\ ~over /\ loses => at'[w] = "load"
        /\ ~over /\ ~loses => at'[w] = "node"
        /\ UNCHANGED <<entry, open, generation, op, old, saves, searches, raced>>
        /\ \A v \in Workers \ {w} : at'[v] = at[v] /\ todo'[v] = todo[v]
    <2>1. at \in [Workers -> AtType] /\ todo \in [Workers -> SUBSET SaveFields]
        BY DEF RaceInv, TableInv, TypeOK
    <2> HIDE DEF over, loses
    <2>2. IF over THEN Step(w, "store") /\ todo' = [todo EXCEPT ![w] = SaveFields]
                  ELSE Step(w, IF loses THEN "load" ELSE "node") /\ UNCHANGED todo
        BY DEF Decide, over, loses
    <2>3. at[w] = "decide" /\ UNCHANGED <<entry, open, generation, op, old, saves, searches, raced>>
        BY DEF Decide
    <2> QED
        BY <2>1, <2>2, <2>3 DEF Step
  <1>2. Here(w)' = Here(w) /\ Key16(w)' = Key16(w)
      BY <1>1 DEF Here, Node, Key16
  <1>3. ~over => Here(w).key = Key16(w)
      BY DEF Overwrites
  <1>4. loses => Here(w).depth > 1
    <2>1. at[w] # "out"
        BY <1>1
    <2>2. Here(w).depth \in 0 .. 255
        BY <2>1, NodeTyped DEF RaceInv, TableInv, EntryType
    <2> QED
        BY <2>2 DEF LosesPly, DEPTH_ENTRY_OFFSET
  <1> HIDE DEF over, loses
  <1>5. ASSUME Node(w).writer \notin raced
        PROVE  /\ Suits(Here(w).move, Key16(w), saves) /\ Core(Here(w), saves)
               /\ ~over => Whole(Here(w), saves)
      BY <1>1, <1>3, <1>5, WasHalfway DEF Halfway, Whole, Writing
  <1>6. ASSUME Node(w).writer \notin raced, at'[w] \in Writing PROVE Halfway(w)'
    <2>1. CASE over
        BY <1>1, <1>2, <1>5, <1>6, <2>1 DEF Halfway
    <2>2. CASE ~over /\ loses
        BY <1>1, <1>2, <1>3, <1>4, <1>5, <1>6, <2>2 DEF Halfway
    <2>3. CASE ~over /\ ~loses
        BY <1>1, <1>6, <2>3 DEF Writing
    <2> QED
        BY <2>1, <2>2, <2>3
  <1>7. ASSUME Node(w).writer \notin raced, at'[w] \notin Writing
        PROVE  Whole(entry'[Node(w).writer], saves)
    <2>1. ~over
        BY <1>1, <1>7 DEF Writing
    <2> QED
        BY <1>1, <1>5, <1>7, <2>1 DEF Here
  <1> QED
      BY <1>1, <1>6, <1>7, Working DEF Writing

(* All four fields of a save make a whole entry of its position. *)
LEMMA SaveIsWhole ==
    ASSUME RaceInv, NEW w \in Workers, at[w] = "store", NEW e \in EntryType,
           e.key = Stored(w).key, e.depth = Stored(w).depth,
           e.gen_bound = Stored(w).gen_bound, e.value = Stored(w).value,
           Suits(e.move, Key16(w), saves)
    PROVE  Whole(e, saves)
  <1> DEFINE n == op[w]  r == saves[n].result
  <1>1. /\ n \in 1 .. Len(saves) /\ saves[n].key = Node(w).key /\ saves[n].search = searches
        /\ generation = searches % Generations /\ generation \in 0 .. Generations - 1
      BY DEF RaceInv, Races, Dated, TableInv, Numbered, TypeOK
  <1>2. r.bound \in 0 .. 3 /\ r.pv \in BOOLEAN /\ Result(w) = r
    <2>1. saves[n] \in SaveType
        BY <1>1 DEF RaceInv, TableInv, TypeOK
    <2>2. r \in Results
        BY <2>1 DEF SaveType
    <2> QED
        BY <2>2, ResultAssumption DEF Result
  <1>3. /\ e.key = key16[saves[n].key] /\ e.value.save = n /\ e.value.decisive = r.decisive
        /\ e.depth = r.depth - DEPTH_ENTRY_OFFSET /\ e.gen_bound = Pack(r.bound, r.pv)
      BY <1>1, <1>2 DEF Stored, SavedEntry, Key16
  <1>4. /\ BoundOf(e.gen_bound) = r.bound /\ PvOf(e.gen_bound) = r.pv
        /\ e.gen_bound % Generations = saves[n].search % Generations
      BY <1>1, <1>2, <1>3, PackReads
  <1>5. e.depth <= r.depth - DEPTH_ENTRY_OFFSET
    <2>1. e.depth \in 0 .. 255
        BY DEF EntryType
    <2>2. \A d \in 0 .. 255 : d <= d
        OBVIOUS
    <2> QED
        BY <1>3, <2>1, <2>2
  <1>6. Core(e, saves)
      BY <1>1, <1>3, <1>4, <1>5 DEF Core
  <1>7. Suits(e.move, e.key, saves)
      BY <1>1, <1>3 DEF Key16
  <1> QED
      BY <1>6, <1>7 DEF Whole

LEMMA StoreRaces ==
    ASSUME RaceInv, NEW w \in Workers, NEW f \in SaveFields, Store(w, f)
    PROVE  Races'
  <1>1. /\ at[w] = "store" /\ f \in todo[w]
        /\ entry' = [entry EXCEPT ![Node(w).writer][f] = Stored(w)[f]]
        /\ todo'[w] = todo[w] \ {f}
        /\ at'[w] = IF todo[w] = {f} THEN "node" ELSE "store"
        /\ UNCHANGED <<open, generation, op, old, saves, searches, raced>>
        /\ \A v \in Workers \ {w} : at'[v] = at[v] /\ todo'[v] = todo[v]
    <2>1. at \in [Workers -> AtType] /\ todo \in [Workers -> SUBSET SaveFields]
        BY DEF RaceInv, TableInv, TypeOK
    <2> QED
        BY <2>1 DEF Store, Step
  <1>2. \A i \in Slots \ {Node(w).writer} : entry'[i] = entry[i]
      BY <1>1 DEF RaceInv, TableInv, TypeOK
  <1>3. at[w] \in Writing /\ at[w] # "out" /\ todo[w] \subseteq SaveFields
      BY <1>1 DEF RaceInv, TableInv, TypeOK, Writing
  <1>4. Key16(w)' = Key16(w) /\ Stored(w)' = Stored(w)
      BY <1>1 DEF Key16, Node, Stored, SavedEntry, Result, Pack
  <1> DEFINE e == Here(w)  s == Stored(w)  h == [e EXCEPT ![f] = s[f]]
  <1>5. ASSUME Node(w).writer \notin raced
        PROVE  /\ entry'[Node(w).writer] = h /\ Here(w)' = h /\ h.move = e.move
               /\ \A g \in SaveFields : h[g] = IF g = f THEN s[g] ELSE e[g]
               /\ Suits(h.move, Key16(w), saves)
               /\ \A g \in SaveFields \ todo'[w] : h[g] = s[g]
    <2>1. Halfway(w) /\ e \in EntryType /\ Node(w).writer \in Slots /\ entry \in [Slots -> EntryType]
        BY <1>3, <1>5, WasHalfway
    <2>2. entry'[Node(w).writer] = h
        BY <1>1, <2>1 DEF Here
    <2>3. Here(w)' = h
        BY <1>1, <2>2 DEF Here, Node
    <2>4. h.move = e.move /\ \A g \in SaveFields : h[g] = IF g = f THEN s[g] ELSE e[g]
        BY <2>1 DEF EntryType, SaveFields
    <2>5. Suits(e.move, Key16(w), saves) /\ \A g \in SaveFields \ todo[w] : e[g] = s[g]
        BY <1>1, <2>1 DEF Halfway
    <2> HIDE DEF e, s, h
    <2>6. \A g \in SaveFields \ todo'[w] : h[g] = s[g]
        BY <1>1, <2>4, <2>5
    <2> QED
        BY <2>2, <2>3, <2>4, <2>5, <2>6
  <1>6. ASSUME Node(w).writer \notin raced, at'[w] \in Writing PROVE Halfway(w)'
    <2>1. at'[w] = "store"
        BY <1>1, <1>6 DEF Writing
    <2>2. /\ Here(w)' = h /\ Suits(h.move, Key16(w), saves)
          /\ \A g \in SaveFields \ todo'[w] : h[g] = s[g]
        BY <1>5, <1>6
    <2> HIDE DEF h
    <2> QED
        BY <1>1, <1>4, <2>1, <2>2 DEF Halfway
  <1>7. ASSUME Node(w).writer \notin raced, at'[w] \notin Writing
        PROVE  Whole(entry'[Node(w).writer], saves)
    <2>1. todo'[w] = {}
        BY <1>1, <1>7 DEF Writing
    <2>2. /\ entry'[Node(w).writer] = h /\ Suits(h.move, Key16(w), saves)
          /\ \A g \in SaveFields : h[g] = s[g]
        BY <1>5, <1>7, <2>1
    <2>3. entry'[Node(w).writer] \in EntryType
      <3>1. Node(w).writer \in Slots
          BY <1>3, <1>7, WasHalfway
      <3>2. TypeOK'
          BY <1>1, StoreStep DEF RaceInv, Store, TableInv
      <3> QED
          BY <3>1, <3>2 DEF TypeOK
    <2>4. h["key"] = s["key"] /\ h["depth"] = s["depth"] /\ h["gen_bound"] = s["gen_bound"] /\ h["value"] = s["value"]
        BY <2>2 DEF SaveFields
    <2>5. h \in EntryType
        BY <2>2, <2>3
    <2> HIDE DEF h
    <2>6. Whole(h, saves)
        BY <1>1, <2>2, <2>4, <2>5, SaveIsWhole
    <2> QED
        BY <2>2, <2>6
  <1> QED
      BY <1>1, <1>2, <1>3, <1>6, <1>7, Working DEF Writing

LEMMA LoadDepthRaces ==
    ASSUME RaceInv, NEW w \in Workers, LoadDepth(w)
    PROVE  Races'
  <1>1. /\ at[w] = "load" /\ at'[w] = "lower" /\ old'[w] = Here(w).depth
        /\ UNCHANGED <<entry, open, generation, todo, op, saves, searches, raced>>
        /\ \A v \in Workers \ {w} : at'[v] = at[v] /\ old'[v] = old[v]
    <2>1. at \in [Workers -> AtType] /\ old \in [Workers -> 0 .. 255]
        BY DEF RaceInv, TableInv, TypeOK
    <2> QED
        BY <2>1 DEF LoadDepth, Step
  <1>2. Here(w)' = Here(w) /\ Key16(w)' = Key16(w)
      BY <1>1 DEF Here, Node, Key16
  <1>3. ASSUME Node(w).writer \notin raced PROVE Halfway(w)'
    <2>1. Halfway(w)
        BY <1>1, <1>3, WasHalfway DEF Writing
    <2> QED
        BY <1>1, <1>2, <2>1 DEF Halfway
  <1> QED
      BY <1>1, <1>3, Working DEF Writing

LEMMA LowerDepthRaces ==
    ASSUME RaceInv, NEW w \in Workers, LowerDepth(w)
    PROVE  Races'
  <1> DEFINE lower == depth_saturating_sub(old[w], 1)
  <1>1. /\ at[w] = "lower" /\ at'[w] = "node"
        /\ entry' = [entry EXCEPT ![Node(w).writer]["depth"] = lower]
        /\ UNCHANGED <<open, generation, todo, op, saves, searches, raced>>
        /\ \A v \in Workers \ {w} : at'[v] = at[v] /\ old'[v] = old[v]
    <2>1. at \in [Workers -> AtType] /\ old \in [Workers -> 0 .. 255]
        BY DEF RaceInv, TableInv, TypeOK
    <2> QED
        BY <2>1 DEF LowerDepth, Step
  <1>2. \A i \in Slots \ {Node(w).writer} : entry'[i] = entry[i]
      BY <1>1 DEF RaceInv, TableInv, TypeOK
  <1>3. ASSUME Node(w).writer \notin raced PROVE Whole(entry'[Node(w).writer], saves)
    <2> DEFINE e == Here(w)  f == [e EXCEPT !["depth"] = lower]
    <2>1. e \in EntryType /\ Whole(e, saves) /\ old[w] = e.depth
        BY <1>1, <1>3, WasHalfway DEF Halfway, Writing
    <2>2. entry'[Node(w).writer] = f
        BY <1>1, <1>3, WasHalfway DEF Writing, Here
    <2>3. /\ f.move = e.move /\ f.value = e.value /\ f.key = e.key /\ f.gen_bound = e.gen_bound
          /\ f.depth = lower
        BY <2>1 DEF EntryType
    <2>4. e.depth \in 0 .. 255 /\ e.value.save \in Nat
        BY <2>1, LimitAssumption DEF EntryType, ValueType
    <2>5. lower <= e.depth /\ lower \in 0 .. 255
        BY <2>1, <2>4 DEF depth_saturating_sub
    <2> HIDE DEF e, f, lower
    <2>6. ASSUME e.value.save # 0 PROVE f.depth <= saves[e.value.save].result.depth - DEPTH_ENTRY_OFFSET
      <3> DEFINE n == e.value.save
      <3>1. n \in 1 .. Len(saves) /\ e.depth <= Saved(n)
          BY <2>1, <2>6 DEF Whole, Core, Saved
      <3>2. Saved(n) \in 1 .. 255
          BY <3>1, SavedTyped DEF RaceInv, TableInv
      <3>3. \A x, y, z \in 0 .. 255 : x <= y /\ y <= z => x <= z
          OBVIOUS
      <3>4. Saved(n) \in 0 .. 255
          BY <3>2
      <3> HIDE DEF n
      <3>5. f.depth <= Saved(n)
          BY <2>3, <2>4, <2>5, <3>1, <3>3, <3>4, Zenon
      <3> QED
          BY <3>5 DEF Saved, n
    <2>7. Whole(f, saves)
        BY <2>1, <2>3, <2>6 DEF Whole, Core
    <2> QED
        BY <2>2, <2>7
  <1> QED
      BY <1>1, <1>2, <1>3, Working DEF Writing

LEMMA RacesInductive == RaceInv /\ [Next]_vars => RaceInv'
  <1> SUFFICES ASSUME RaceInv, [Next]_vars PROVE RaceInv'
      OBVIOUS
  <1>1. TableInv'
      BY Inductive DEF RaceInv
  <1>2. CASE NewSearch
      BY <1>1, <1>2, NewSearchRaces DEF RaceInv
  <1>3. ASSUME NEW w \in Workers, Work(w) PROVE Races'
      BY <1>3, ReadingRaces, SaveRaces, StoreMoveRaces, DecideRaces, StoreRaces, PenalizeRaces,
         LoadDepthRaces, LowerDepthRaces
      DEF Work
  <1>4. CASE UNCHANGED vars
    <2>1. UNCHANGED <<entry, generation, at, open, todo, op, old, saves, searches, raced>>
        BY <1>4 DEF vars
    <2>2. \A w \in Workers : Node(w)' = Node(w) /\ Here(w)' = Here(w) /\ Key16(w)' = Key16(w)
        BY <2>1 DEF Node, Here, Key16
    <2>3. \A w \in Workers : Stored(w)' = Stored(w)
        BY <2>1, <2>2 DEF Stored, SavedEntry, Result, Pack, Key16
    <2>4. \A w \in Workers, i \in Slots : Holds(w, i)' <=> Holds(w, i)
        BY <2>1, <2>2 DEF Holds
    <2>5. \A w \in Workers : Halfway(w) => Halfway(w)'
        BY <2>1, <2>2, <2>3 DEF Halfway
    <2>6. Alone' /\ Rested'
        BY <2>1, <2>4 DEF RaceInv, Races, Alone, Rested
    <2>7. Dated' /\ UnderWay'
        BY <2>1, <2>2, <2>5 DEF RaceInv, Races, Dated, UnderWay
    <2> QED
        BY <1>1, <2>6, <2>7 DEF RaceInv, Races
  <1> QED
      BY <1>1, <1>2, <1>3, <1>4 DEF Next, RaceInv

LEMMA RacesInvariant == Spec => []RaceInv
  <1>1. Init => RaceInv
      BY Initial, RacesAtFirst DEF RaceInv
  <1> QED
      BY <1>1, RacesInductive, PTL DEF Spec

-------------------------------------------------------------------------------

LEMMA QuietIsWhole ==
    ASSUME RaceInv, NEW i \in Slots, Quiet(i)
    PROVE  Whole(entry[i], saves)
  <1>1. i \in Slots \ raced /\ \A w \in Workers : ~Holds(w, i)
      BY DEF Quiet, Holds
  <1> QED
      BY <1>1 DEF RaceInv, Races, Rested

(* Only a race tears an entry: without one, all its fields belong to one   *)
(* save and its move to that position, for any number of workers, entries  *)
(* and saves and however long a worker holds on to an entry (tt.c:152-180). *)
THEOREM WholeWithoutRaces == Spec => []WholeUnlessRaced
  <1>1. ASSUME RaceInv PROVE WholeUnlessRaced
    <2>1. ASSUME NEW i \in Slots, Quiet(i) PROVE Whole(entry[i], saves)
        BY <1>1, <2>1, QuietIsWhole
    <2> QED
        BY <2>1 DEF WholeUnlessRaced, Whole, Core, Suits
  <1> QED
      BY <1>1, RacesInvariant, PTL

(* The age read from the packed byte is the number of searches since the   *)
(* save, modulo the number of generations, whatever that number (tt.c:104). *)
THEOREM AgesAreExact == Spec => []AgeIsExact
  <1>1. ASSUME RaceInv PROVE AgeIsExact
    <2>1. ASSUME NEW i \in Slots, Quiet(i), entry[i].value.save # 0
          PROVE  relative_age(entry[i].gen_bound)
                    = (searches - saves[entry[i].value.save].search) % Generations
      <3> DEFINE a == entry[i].gen_bound  n == entry[i].value.save  s == saves[n].search
      <3>1. n \in 1 .. Len(saves) /\ a % Generations = s % Generations
          BY <1>1, <2>1, QuietIsWhole DEF Whole, Core
      <3>2. a \in Int
        <4>1. entry[i] \in EntryType
            BY <1>1 DEF RaceInv, TableInv, TypeOK
        <4> QED
            BY <4>1, GenerationsPositive DEF EntryType
      <3>3. s \in Int /\ searches \in Int
        <4>1. saves[n] \in SaveType
            BY <1>1, <3>1 DEF RaceInv, TableInv, TypeOK
        <4> QED
            BY <1>1, <4>1, LimitAssumption DEF SaveType, RaceInv, TableInv, TypeOK
      <3>4. generation = searches % Generations
          BY <1>1 DEF RaceInv, Races, Dated
      <3> HIDE DEF a, s
      <3>5. ((searches % Generations) - a) % Generations = (searches - s) % Generations
          BY <3>1, <3>2, <3>3, GenerationsPositive, AgeOf
      <3> QED
          BY <3>4, <3>5 DEF relative_age, a, s
    <2> QED
        BY <2>1 DEF AgeIsExact
  <1> QED
      BY <1>1, RacesInvariant, PTL

(* A save that nobody raced with leaves an occupied entry of its own       *)
(* position: it was written, or the better entry that was there stayed     *)
(* (tt.c:152-185).                                                         *)
THEOREM SavesStick == Spec => SaveSticks
  <1>1. ASSUME RaceInv, [Next]_vars, NEW w \in Workers,
                at[w] \in Writing, op[w] # 0, at'[w] = "node", Node(w).writer \notin raced
         PROVE  entry'[Node(w).writer].key = Key16(w) /\ entry'[Node(w).writer].depth # 0
    <2>1. /\ Halfway(w) /\ Here(w) \in EntryType /\ Node(w).writer \in Slots
          /\ entry \in [Slots -> EntryType] /\ at \in [Workers -> AtType]
        BY <1>1, WasHalfway DEF RaceInv, TableInv, TypeOK
    <2>2. Decide(w) \/ (\E f \in SaveFields : Store(w, f)) \/ LowerDepth(w)
      <3>1. at'[w] # at[w]
          BY <1>1 DEF Writing
      <3>2. ~NewSearch /\ ~UNCHANGED vars
          BY <1>1, <3>1 DEF NewSearch, vars
      <3>3. PICK v \in Workers : Work(v)
          BY <1>1, <3>2 DEF Next
      <3>4. v = w
          BY <2>1, <3>1, <3>3
          DEF Work, Probe, ScanMatches, ScanPasses, CompareVictim, VictimChosen, CopyEntry, Leave,
              Save, StoreMove, Decide, Store, Penalize, LoadDepth, LowerDepth, Step
      <3>5. Work(w)
          BY <3>3, <3>4
      <3>6. /\ \A k \in Keys : ~Probe(w, k)
            /\ ~ScanMatches(w) /\ ~ScanPasses(w) /\ ~CompareVictim(w) /\ ~VictimChosen(w)
            /\ ~CopyEntry(w) /\ ~Leave(w) /\ \A r \in Results : ~Save(w, r)
            /\ ~Penalize(w)
          BY <1>1 DEF Probe, ScanMatches, ScanPasses, CompareVictim, VictimChosen, CopyEntry, Leave,
                      Save, Penalize, Writing, InNode
      <3>7. ~StoreMove(w) /\ ~LoadDepth(w)
          BY <1>1, <2>1 DEF StoreMove, LoadDepth, Step
      <3> QED
          BY <3>5, <3>6, <3>7 DEF Work
    <2>3. CASE Decide(w)
      <3>1. ~Overwrites(Here(w), Key16(w), Result(w)) /\ UNCHANGED entry /\ at[w] = "decide"
          BY <1>1, <2>1, <2>3 DEF Decide, Step
      <3>2. /\ Here(w).key = Key16(w)
            /\ ~(Result(w).depth - DEPTH_ENTRY_OFFSET + 2 * Bit(Result(w).pv) > Here(w).depth - 4)
          BY <3>1 DEF Overwrites
      <3>3. Result(w).depth - DEPTH_ENTRY_OFFSET \in 1 .. 255
        <4>1. Result(w) \in Results
            BY <1>1, <3>1, ResultTyped DEF RaceInv
        <4>2. Result(w).depth \in DEPTH_ENTRY_OFFSET + 1 .. DEPTH_ENTRY_OFFSET + 255
            BY <4>1, ResultAssumption
        <4> QED
            BY <4>2 DEF DEPTH_ENTRY_OFFSET
      <3>4. Bit(Result(w).pv) \in 0 .. 1 /\ Here(w).depth \in 0 .. 255
          BY <2>1 DEF Bit, EntryType
      <3>5. Here(w).depth # 0
          BY <3>2, <3>3, <3>4
      <3> QED
          BY <3>1, <3>2, <3>5 DEF Here
    <2>4. ASSUME NEW f \in SaveFields, Store(w, f)
          PROVE  /\ entry'[Node(w).writer].key = Key16(w)
                 /\ entry'[Node(w).writer].depth # 0
      <3> DEFINE e == Here(w)  s == Stored(w)  h == [e EXCEPT ![f] = s[f]]
      <3>1. todo[w] = {f} /\ entry'[Node(w).writer] = h /\ at[w] = "store"
          BY <1>1, <2>1, <2>4 DEF Store, Step, Here
      <3>2. \A g \in SaveFields \ {f} : e[g] = s[g]
          BY <2>1, <3>1 DEF Halfway
      <3>3. \A g \in SaveFields : h[g] = IF g = f THEN s[g] ELSE e[g]
          BY <2>1 DEF EntryType, SaveFields
      <3>4. s["key"] = Key16(w) /\ s["depth"] = Result(w).depth - DEPTH_ENTRY_OFFSET
          BY DEF Stored, SavedEntry
      <3>5. s["depth"] # 0
        <4>1. Result(w) \in Results
            BY <1>1, <3>1, ResultTyped DEF RaceInv
        <4>2. Result(w).depth \in DEPTH_ENTRY_OFFSET + 1 .. DEPTH_ENTRY_OFFSET + 255
            BY <4>1, ResultAssumption
        <4> QED
            BY <3>4, <4>2 DEF DEPTH_ENTRY_OFFSET
      <3> HIDE DEF e, s, h
      <3>6. h["key"] = s["key"] /\ h["depth"] = s["depth"]
          BY <3>2, <3>3 DEF SaveFields
      <3> QED
          BY <3>1, <3>4, <3>5, <3>6
    <2>5. CASE LowerDepth(w)
      <3> DEFINE lower == depth_saturating_sub(old[w], 1)
      <3>1. at[w] = "lower" /\ entry'[Node(w).writer] = [Here(w) EXCEPT !["depth"] = lower]
          BY <2>1, <2>5 DEF LowerDepth, Here
      <3>2. Here(w).key = Key16(w) /\ Here(w).depth > 1 /\ old[w] = Here(w).depth
          BY <1>1, <2>1, <3>1 DEF Halfway
      <3>3. lower # 0
        <4>1. Here(w).depth \in 0 .. 255
            BY <2>1 DEF EntryType
        <4> QED
            BY <3>2, <4>1 DEF depth_saturating_sub
      <3> HIDE DEF lower
      <3> QED
          BY <2>1, <3>1, <3>2, <3>3 DEF EntryType
    <2> QED
        BY <2>2, <2>3, <2>4, <2>5
  <1>2. RaceInv /\ [Next]_vars =>
          [\A w \in Workers :
             LET i == Node(w).writer IN
             at[w] \in Writing /\ op[w] # 0 /\ at'[w] = "node" /\ i \notin raced =>
                 entry'[i].key = Key16(w) /\ entry'[i].depth # 0]_vars
      BY <1>1
  <1> QED
      BY <1>2, RacesInvariant, PTL DEF Spec, SaveSticks

-------------------------------------------------------------------------------
(* One worker alone: nothing is torn, what it copied stays as it was saved, *)
(* and its choice among the entries is the least of those it has passed.    *)

Lone == \A v, w \in Workers : v = w

(* An entry that no save has reached is as it was cleared. *)
Empty(e) == e.value.save = 0 => e.depth = 0 /\ e.gen_bound = 0

Blank ==
    \A i \in Slots : (\A w \in Workers : ~(at[w] = "store" /\ Node(w).writer = i)) => Empty(entry[i])

(* A copy is of one save of a position with the node's key. *)
Copied(h, S) ==
    h.found =>
        /\ h.data.value.save \in 1 .. Len(S)
        /\ key16[S[h.data.value.save].key] = key16[h.key]
        /\ BoundOf(h.data.gen_bound) = S[h.data.value.save].result.bound
        /\ h.data.value.decisive = S[h.data.value.save].result.decisive
        /\ h.data.depth <= S[h.data.value.save].result.depth - DEPTH_ENTRY_OFFSET

Copies == \A w \in Workers : \A n \in 1 .. Len(open[w]) : Copied(open[w][n], saves)

Choosing ==
    \A w \in Workers :
        /\ at[w] = "scan" => Node(w).writer = 0
        /\ at[w] = "copy" => Here(w).key = Key16(w)
        /\ at[w] = "victim" => \A i \in Slots : i < scan[w] => Worth(Here(w)) <= Worth(entry[i])

Unspoilt == raced = {} /\ Blank /\ Copies /\ Choosing

LoneInv == RaceInv /\ Unspoilt

LEMMA CopiedIsOne ==
    ASSUME NEW S \in Seq(SaveType), NEW h, h.found, Copied(h, S)
    PROVE  /\ h.data.value.save # 0 /\ key16[S[h.data.value.save].key] = key16[h.key]
           /\ BoundOf(h.data.gen_bound) = S[h.data.value.save].result.bound
           /\ h.data.value.decisive = S[h.data.value.save].result.decisive
           /\ h.data.depth <= S[h.data.value.save].result.depth - DEPTH_ENTRY_OFFSET
  <1>1. h.data.value.save # 0
    <2>1. h.data.value.save \in 1 .. Len(S) /\ Len(S) \in Nat
        BY DEF Copied
    <2> QED
        BY <2>1
  <1> QED
      BY <1>1 DEF Copied

LEMMA CopiedAlike ==
    ASSUME NEW S, NEW g, NEW h, Copied(g, S), h.found = g.found, h.data = g.data, h.key = g.key
    PROVE  Copied(h, S)
  BY DEF Copied

LEMMA CopiedGrows ==
    ASSUME NEW S \in Seq(SaveType), NEW x \in SaveType, NEW h, Copied(h, S)
    PROVE  Copied(h, Append(S, x))
  <1>1. /\ Len(Append(S, x)) = Len(S) + 1
        /\ \A n \in 1 .. Len(S) : Append(S, x)[n] = S[n]
      OBVIOUS
  <1>2. SUFFICES ASSUME h.found PROVE Copied(h, Append(S, x))
      BY DEF Copied
  <1>3. h.data.value.save \in 1 .. Len(S)
      BY <1>2 DEF Copied
  <1>4. /\ h.data.value.save \in 1 .. Len(Append(S, x))
        /\ Append(S, x)[h.data.value.save] = S[h.data.value.save]
      BY <1>1, <1>3
  <1> QED
      BY <1>2, <1>4 DEF Copied

(* How much an entry is worth is a whole number. *)
LEMMA WorthTyped ==
    ASSUME TypeOK, NEW i \in Slots
    PROVE  Worth(entry[i]) \in Int
  <1>1. entry[i].depth \in 0 .. 255 /\ entry[i].gen_bound \in Int
    <2>1. entry[i] \in EntryType
        BY DEF TypeOK
    <2> QED
        BY <2>1, GenerationsPositive DEF EntryType
  <1>2. generation \in Int
      BY GenerationsPositive DEF TypeOK
  <1>3. relative_age(entry[i].gen_bound) \in Int
    <2>1. generation - entry[i].gen_bound \in Int
        BY <1>1, <1>2
    <2>2. (generation - entry[i].gen_bound) % Generations \in 0 .. Generations - 1
        BY <2>1, GenerationsPositive, Division
    <2> QED
        BY <2>2, GenerationsPositive DEF relative_age
  <1> QED
      BY <1>1, <1>3 DEF Worth

(* A worker that reads alone reads whole entries. *)
LEMMA ReadsWhole ==
    ASSUME Lone, LoneInv, NEW w \in Workers, at[w] \notin Writing, NEW i \in Slots
    PROVE  Whole(entry[i], saves) /\ Empty(entry[i])
  <1>1. \A v \in Workers : at[v] \notin Writing
      BY DEF Lone
  <1>2. Quiet(i)
      BY <1>1 DEF LoneInv, Unspoilt, Quiet
  <1> QED
      BY <1>1, <1>2, QuietIsWhole DEF LoneInv, Unspoilt, Blank, Writing

(* Changing the node a worker is in changes that node. *)
LEMMA NodeSet ==
    ASSUME TypeOK, Placed, NEW w \in Workers, at[w] # "out", NEW node \in NodeType, SetNode(w, node)
    PROVE  /\ Node(w)' = node /\ Len(open'[w]) = Len(open[w]) /\ Len(open[w]) \in 1 .. Len(open[w])
           /\ open'[w][Len(open[w])] = node
           /\ \A n \in 1 .. Len(open[w]) - 1 : open'[w][n] = open[w][n]
  <1>1. open[w] \in Seq(NodeType) /\ Len(open[w]) \in 1 .. Len(open[w]) /\ open \in [Workers -> Seq(NodeType)]
    <2>1. Len(open[w]) \in 1 .. MaxOpen
        BY NodeTyped
    <2> QED
        BY <2>1, LimitAssumption DEF TypeOK
  <1>2. open'[w] = [open[w] EXCEPT ![Len(open[w])] = node]
      BY <1>1 DEF SetNode
  <1>3. /\ Len(open'[w]) = Len(open[w]) /\ open'[w][Len(open[w])] = node
        /\ \A n \in 1 .. Len(open[w]) - 1 : open'[w][n] = open[w][n]
      BY <1>1, <1>2
  <1> QED
      BY <1>1, <1>3 DEF Node

LEMMA UnspoiltAtFirst == Init => Unspoilt
  <1> SUFFICES ASSUME Init PROVE Unspoilt
      OBVIOUS
  <1>1. raced = {} /\ Blank
      BY DEF Init, Blank, Empty, Cleared, NoValue, SavedEntry
  <1>2. Copies
    <2>1. \A w \in Workers : Len(open[w]) = 0
        BY DEF Init
    <2> QED
        BY <2>1 DEF Copies
  <1>3. Choosing
      BY DEF Init, Choosing
  <1> QED
      BY <1>1, <1>2, <1>3 DEF Unspoilt

(* What a step that writes nothing leaves as it is. *)
LEMMA BlankStays ==
    ASSUME Lone, LoneInv, NEW w \in Workers, at[w] \notin Writing, UNCHANGED entry
    PROVE  Blank'
  <1>1. \A i \in Slots : Empty(entry[i])
      BY ReadsWhole
  <1> QED
      BY <1>1 DEF Blank

LEMMA NewSearchAlone == Lone /\ LoneInv /\ NewSearch => Unspoilt'
  <1> SUFFICES ASSUME Lone, LoneInv, NewSearch PROVE Unspoilt'
      OBVIOUS
  <1>1. \A w \in Workers : at'[w] = "out" /\ at[w] = "out"
      BY DEF NewSearch
  <1>2. raced' = {} /\ Copies'
      BY DEF LoneInv, Unspoilt, Copies, NewSearch
  <1>3. Blank'
    <2>1. \A i \in Slots : Empty(entry[i])
        BY <1>1 DEF LoneInv, Unspoilt, Blank
    <2> QED
        BY <2>1 DEF Blank, NewSearch
  <1>4. Choosing'
      BY <1>1 DEF Choosing
  <1> QED
      BY <1>2, <1>3, <1>4 DEF Unspoilt

LEMMA ProbeAlone ==
    ASSUME Lone, LoneInv, NEW w \in Workers, NEW k \in Keys, Probe(w, k)
    PROVE  Unspoilt'
  <1> DEFINE node == [key |-> k, writer |-> 0, found |-> FALSE, data |-> NoData]
  <1>1. /\ at[w] \notin Writing /\ at'[w] = "scan" /\ open'[w] = Append(open[w], node)
        /\ open[w] \in Seq(NodeType) /\ UNCHANGED <<entry, raced, saves>>
      BY DEF LoneInv, RaceInv, TableInv, TypeOK, Probe, Step, Writing, InNode
  <1>2. node \in NodeType
      BY NothingFits, FirstSlot DEF NodeType
  <1>3. /\ Len(open'[w]) = Len(open[w]) + 1 /\ open'[w][Len(open[w]) + 1] = node
        /\ \A n \in 1 .. Len(open[w]) : open'[w][n] = open[w][n]
      BY <1>1, <1>2
  <1>4. Copies'
    <2>1. ASSUME NEW v \in Workers, NEW n \in 1 .. Len(open'[v]) PROVE Copied(open'[v][n], saves')
      <3>1. v = w
          BY DEF Lone
      <3>2. CASE n = Len(open[w]) + 1
        <4>1. ~node.found
            OBVIOUS
        <4> HIDE DEF node
        <4>2. open'[v][n] = node
            BY <1>3, <3>1, <3>2
        <4> QED
            BY <4>1, <4>2 DEF Copied
      <3>3. CASE n # Len(open[w]) + 1
        <4>1. n \in 1 .. Len(open[w])
            BY <1>1, <1>3, <2>1, <3>1, <3>3
        <4> QED
            BY <1>1, <1>3, <3>1, <4>1 DEF LoneInv, Unspoilt, Copies
      <3> QED
          BY <3>2, <3>3
    <2> QED
        BY <2>1 DEF Copies
  <1>5. Choosing'
    <2>1. Node(w)' = node
        BY <1>3 DEF Node
    <2>2. \A v \in Workers : at'[v] = "scan" /\ Node(v)'.writer = 0
        BY <1>1, <2>1 DEF Lone
    <2> QED
        BY <2>2 DEF Choosing
  <1> QED
      BY <1>1, <1>4, <1>5, BlankStays DEF LoneInv, Unspoilt

(* A step that changes the writer of the node and nothing else of it. *)
LEMMA CopiesStay ==
    ASSUME Lone, LoneInv, NEW w \in Workers, at[w] # "out", NEW i \in Slots,
           SetNode(w, [Node(w) EXCEPT !.writer = i]), UNCHANGED saves
    PROVE  Copies' /\ Node(w)'.writer = i /\ Node(w)'.key = Node(w).key
  <1> DEFINE node == [Node(w) EXCEPT !.writer = i]
  <1>1. Node(w) \in NodeType /\ node \in NodeType
      BY NodeTyped DEF LoneInv, RaceInv, TableInv, NodeType
  <1>2. /\ node.found = Node(w).found /\ node.data = Node(w).data /\ node.key = Node(w).key
        /\ node.writer = i
      BY <1>1 DEF NodeType
  <1>3. /\ Node(w)' = node /\ Len(open'[w]) = Len(open[w]) /\ Len(open[w]) \in 1 .. Len(open[w])
        /\ open'[w][Len(open[w])] = node
        /\ \A n \in 1 .. Len(open[w]) - 1 : open'[w][n] = open[w][n]
      BY <1>1, NodeSet DEF LoneInv, RaceInv, TableInv
  <1> HIDE DEF node
  <1>4. ASSUME NEW v \in Workers, NEW n \in 1 .. Len(open'[v]) PROVE Copied(open'[v][n], saves')
    <2>0. \A m \in 1 .. Len(open[w]) : Copied(open[w][m], saves)
        BY DEF LoneInv, Unspoilt, Copies
    <2>1. v = w /\ n \in 1 .. Len(open[w])
        BY <1>3, <1>4 DEF Lone
    <2>2. Copied(open[w][n], saves)
        BY <2>0, <2>1
    <2>3. CASE n = Len(open[w])
      <3>1. open'[v][n] = node /\ Copied(Node(w), saves)
          BY <1>3, <2>1, <2>2, <2>3 DEF Node
      <3> QED
          BY <1>2, <3>1, CopiedAlike
    <2>4. CASE n # Len(open[w])
      <3>1. n \in 1 .. Len(open[w]) - 1
          BY <1>3, <2>1, <2>4
      <3> QED
          BY <1>3, <2>1, <2>2, <3>1
    <2> QED
        BY <2>3, <2>4
  <1> QED
      BY <1>2, <1>3, <1>4 DEF Copies

LEMMA ScanMatchesAlone ==
    ASSUME Lone, LoneInv, NEW w \in Workers, ScanMatches(w)
    PROVE  Unspoilt'
  <1>1. /\ at[w] = "scan" /\ at'[w] = "copy" /\ scan[w] \in Slots
        /\ entry[scan[w]].key = Key16(w) /\ UNCHANGED <<entry, raced, saves>>
        /\ SetNode(w, [Node(w) EXCEPT !.writer = scan[w]])
      BY DEF LoneInv, RaceInv, TableInv, TypeOK, Placed, ScanMatches, Step, Key16
  <1>2. Copies' /\ Node(w)'.writer = scan[w] /\ Node(w)'.key = Node(w).key
      BY <1>1, CopiesStay
  <1>3. Here(w)'.key = Key16(w)'
      BY <1>1, <1>2 DEF Here, Key16
  <1>4. Choosing'
      BY <1>1, <1>3 DEF Choosing, Lone
  <1> QED
      BY <1>1, <1>2, <1>4, BlankStays DEF LoneInv, Unspoilt, Writing

LEMMA ScanPassesAlone ==
    ASSUME Lone, LoneInv, NEW w \in Workers, ScanPasses(w)
    PROVE  Unspoilt'
  <1>1. /\ at[w] = "scan" /\ at'[w] \in {"scan", "victim"}
        /\ at'[w] = "victim" => scan'[w] = 1
        /\ UNCHANGED <<entry, raced, saves, open, generation>>
    <2>1. at \in [Workers -> AtType] /\ scan \in [Workers -> 0 .. TT_CLUSTER_SIZE]
        BY DEF LoneInv, RaceInv, TableInv, TypeOK
    <2>2. CASE scan[w] + 1 \in Slots
        BY <2>1, <2>2 DEF ScanPasses
    <2>3. CASE scan[w] + 1 \notin Slots
        BY <2>1, <2>3 DEF ScanPasses, Step
    <2> QED
        BY <2>2, <2>3
  <1>2. Node(w)' = Node(w) /\ Node(w).writer = 0
      BY <1>1 DEF LoneInv, Unspoilt, Choosing, Node
  <1>3. ASSUME at'[w] = "victim", NEW i \in Slots, i < scan'[w] PROVE Worth(Here(w))' <= Worth(entry[i])'
    <2>1. i = 0 /\ scan'[w] = 1
        BY <1>1, <1>3 DEF Slots
    <2>2. Worth(Here(w))' = Worth(entry[0]) /\ Worth(entry[i])' = Worth(entry[0])
        BY <1>1, <1>2, <2>1 DEF Here, Worth, relative_age
    <2>3. Worth(entry[0]) \in Int
        BY FirstSlot, WorthTyped DEF LoneInv, RaceInv, TableInv
    <2> QED
        BY <2>2, <2>3
  <1>4. Choosing'
    <2>1. \A v \in Workers : v = w
        BY DEF Lone
    <2> QED
        BY <1>1, <1>2, <1>3, <2>1 DEF Choosing
  <1>5. Copies'
      BY <1>1 DEF LoneInv, Unspoilt, Copies
  <1> QED
      BY <1>1, <1>4, <1>5, BlankStays DEF LoneInv, Unspoilt, Writing

LEMMA CompareVictimAlone ==
    ASSUME Lone, LoneInv, NEW w \in Workers, CompareVictim(w)
    PROVE  Unspoilt'
  <1> DEFINE i == IF Worth(Here(w)) > Worth(entry[scan[w]]) THEN scan[w] ELSE Node(w).writer
  <1>1. /\ at[w] = "victim" /\ at'[w] = "victim" /\ scan[w] \in Slots /\ scan'[w] = scan[w] + 1
        /\ UNCHANGED <<entry, raced, saves, generation>>
      BY DEF LoneInv, RaceInv, TableInv, TypeOK, CompareVictim
  <1>2. Node(w).writer \in Slots /\ Node(w) \in NodeType
      BY <1>1, NodeTyped DEF LoneInv, RaceInv, TableInv
  <1>3. i \in Slots
      BY <1>1, <1>2
  <1>4. SetNode(w, [Node(w) EXCEPT !.writer = i])
      BY <1>2 DEF CompareVictim, NodeType
  <1>5. Worth(Here(w)) \in Int /\ Worth(entry[scan[w]]) \in Int /\ \A j \in Slots : Worth(entry[j]) \in Int
    <2>1. \A j \in Slots : Worth(entry[j]) \in Int
        BY WorthTyped DEF LoneInv, RaceInv, TableInv
    <2> QED
        BY <1>1, <1>2, <2>1 DEF Here
  <1>6. Worth(entry[i]) <= Worth(Here(w)) /\ Worth(entry[i]) <= Worth(entry[scan[w]])
    <2>1. CASE Worth(Here(w)) > Worth(entry[scan[w]])
        BY <1>5, <2>1
    <2>2. CASE ~(Worth(Here(w)) > Worth(entry[scan[w]]))
        BY <1>5, <2>2 DEF Here
    <2> QED
        BY <2>1, <2>2
  <1> HIDE DEF i
  <1>7. Copies' /\ Node(w)'.writer = i
      BY <1>1, <1>3, <1>4, CopiesStay
  <1>8. ASSUME NEW j \in Slots, j < scan'[w] PROVE Worth(Here(w))' <= Worth(entry[j])'
    <2>1. Worth(Here(w))' = Worth(entry[i]) /\ Worth(entry[j])' = Worth(entry[j])
        BY <1>1, <1>7 DEF Here, Worth, relative_age
    <2>2. Worth(entry[i]) <= Worth(entry[j])
      <3>1. CASE j = scan[w]
          BY <1>6, <3>1
      <3>2. CASE j # scan[w]
        <4>1. j < scan[w]
            BY <1>1, <1>8, <3>2 DEF Slots
        <4>2. Worth(Here(w)) <= Worth(entry[j])
            BY <1>1, <4>1 DEF LoneInv, Unspoilt, Choosing
        <4>3. Worth(entry[i]) \in Int /\ Worth(entry[j]) \in Int
            BY <1>3, <1>5
        <4> QED
            BY <1>5, <1>6, <4>2, <4>3
      <3> QED
          BY <3>1, <3>2
    <2> QED
        BY <2>1, <2>2
  <1>9. Choosing'
    <2>1. \A v \in Workers : v = w
        BY DEF Lone
    <2> QED
        BY <1>1, <1>8, <2>1 DEF Choosing
  <1> QED
      BY <1>1, <1>7, <1>9, BlankStays DEF LoneInv, Unspoilt, Writing

LEMMA VictimChosenAlone ==
    ASSUME Lone, LoneInv, NEW w \in Workers, VictimChosen(w)
    PROVE  Unspoilt'
  <1>1. at[w] = "victim" /\ at'[w] = "node" /\ UNCHANGED <<entry, raced, saves, open>>
      BY DEF LoneInv, RaceInv, TableInv, TypeOK, VictimChosen, Step
  <1>2. Choosing' /\ Copies'
      BY <1>1 DEF Choosing, Lone, LoneInv, Unspoilt, Copies
  <1> QED
      BY <1>1, <1>2, BlankStays DEF LoneInv, Unspoilt, Writing

LEMMA CopyEntryAlone ==
    ASSUME Lone, LoneInv, NEW w \in Workers, CopyEntry(w)
    PROVE  Unspoilt'
  <1> DEFINE e == Here(w)
             node == [Node(w) EXCEPT !.found = e.depth # 0, !.data = tt_entry_read(e)]
  <1>1. /\ at[w] = "copy" /\ at'[w] = "found" /\ SetNode(w, node)
        /\ UNCHANGED <<entry, raced, saves>>
      BY DEF LoneInv, RaceInv, TableInv, TypeOK, CopyEntry, Step
  <1>2. Node(w) \in NodeType /\ Node(w).writer \in Slots /\ e \in EntryType
      BY <1>1, NodeTyped DEF LoneInv, RaceInv, TableInv
  <1>3. /\ tt_entry_read(e) \in DataType /\ tt_entry_read(e).depth = e.depth
        /\ tt_entry_read(e).gen_bound = e.gen_bound /\ tt_entry_read(e).value = e.value
      BY <1>2 DEF tt_entry_read, EntryType, DataType
  <1>4. /\ node \in NodeType /\ node.key = Node(w).key /\ node.found = (e.depth # 0)
        /\ node.data = tt_entry_read(e)
      BY <1>2, <1>3 DEF NodeType
  <1>5. Core(e, saves) /\ Empty(e) /\ e.key = key16[Node(w).key]
      BY <1>1, <1>2, ReadsWhole DEF LoneInv, Unspoilt, Choosing, Writing, Whole, Here, Key16
  <1>6. Len(open'[w]) = Len(open[w]) /\ Len(open[w]) \in 1 .. Len(open[w])
      BY <1>1, <1>4, NodeSet DEF LoneInv, RaceInv, TableInv
  <1>7. /\ open'[w][Len(open[w])] = node
        /\ \A n \in 1 .. Len(open[w]) - 1 : open'[w][n] = open[w][n]
      BY <1>1, <1>4, NodeSet DEF LoneInv, RaceInv, TableInv
  <1> HIDE DEF e, node
  <1>8. Copied(node, saves)
    <2>1. SUFFICES ASSUME e.depth # 0 PROVE Copied(node, saves)
        BY <1>4 DEF Copied
    <2>2. e.value.save # 0
        BY <1>5, <2>1 DEF Empty
    <2> QED
        BY <1>3, <1>4, <1>5, <2>2 DEF Copied, Core
  <1>9. Copies'
    <2>1. ASSUME NEW v \in Workers, NEW n \in 1 .. Len(open'[v]) PROVE Copied(open'[v][n], saves')
      <3>1. v = w /\ n \in 1 .. Len(open[w])
          BY <1>6, <2>1 DEF Lone
      <3>2. CASE n = Len(open[w])
          BY <1>1, <1>7, <1>8, <3>1, <3>2
      <3>3. CASE n # Len(open[w])
        <4>1. n \in 1 .. Len(open[w]) - 1
            BY <1>6, <3>1, <3>3
        <4> QED
            BY <1>1, <1>7, <3>1, <4>1 DEF LoneInv, Unspoilt, Copies
      <3> QED
          BY <3>2, <3>3
    <2> QED
        BY <2>1 DEF Copies
  <1>10. Choosing'
      BY <1>1 DEF Choosing, Lone
  <1> QED
      BY <1>1, <1>9, <1>10, BlankStays DEF LoneInv, Unspoilt, Writing

LEMMA LeaveAlone ==
    ASSUME Lone, LoneInv, NEW w \in Workers, Leave(w)
    PROVE  Unspoilt'
  <1>1. /\ at[w] \notin Writing /\ at[w] # "out" /\ at'[w] \in {"out", "node"}
        /\ UNCHANGED <<entry, raced, saves>> /\ open'[w] = SubSeq(open[w], 1, Len(open[w]) - 1)
    <2>1. at \in [Workers -> AtType] /\ open \in [Workers -> Seq(NodeType)]
        BY DEF LoneInv, RaceInv, TableInv, TypeOK
    <2> QED
        BY <2>1 DEF Leave, Step, InNode, Writing
  <1>2. open[w] \in Seq(NodeType) /\ Len(open[w]) \in 1 .. MaxOpen
      BY <1>1, NodeTyped DEF LoneInv, RaceInv, TableInv, TypeOK
  <1>3. /\ Len(open'[w]) = Len(open[w]) - 1
        /\ \A n \in 1 .. Len(open[w]) - 1 : open'[w][n] = open[w][n]
      BY <1>1, <1>2, LimitAssumption
  <1>4. Copies'
    <2>1. ASSUME NEW v \in Workers, NEW n \in 1 .. Len(open'[v]) PROVE Copied(open'[v][n], saves')
      <3>1. v = w
          BY DEF Lone
      <3>2. n \in 1 .. Len(open[w]) - 1 /\ n \in 1 .. Len(open[w])
          BY <1>2, <1>3, <2>1, <3>1, LimitAssumption
      <3> QED
          BY <1>1, <1>3, <3>1, <3>2 DEF LoneInv, Unspoilt, Copies
    <2> QED
        BY <2>1 DEF Copies
  <1>5. Choosing'
      BY <1>1 DEF Choosing, Lone
  <1> QED
      BY <1>1, <1>4, <1>5, BlankStays DEF LoneInv, Unspoilt

LEMMA CopiesGrow ==
    ASSUME LoneInv, UNCHANGED open, saves' = saves \/ \E x \in SaveType : saves' = Append(saves, x)
    PROVE  Copies'
  <1>1. \A w \in Workers : \A n \in 1 .. Len(open[w]) : Copied(open[w][n], saves)
      BY DEF LoneInv, Unspoilt, Copies
  <1>2. CASE saves' = saves
      BY <1>1, <1>2 DEF Copies
  <1>3. ASSUME NEW x \in SaveType, saves' = Append(saves, x) PROVE Copies'
    <2>1. saves \in Seq(SaveType)
        BY DEF LoneInv, RaceInv, TableInv, TypeOK
    <2>2. ASSUME NEW w \in Workers, NEW n \in 1 .. Len(open[w]) PROVE Copied(open[w][n], saves')
        BY <1>1, <1>3, <2>1, <2>2, CopiedGrows
    <2> QED
        BY <2>2 DEF Copies
  <1> QED
      BY <1>2, <1>3

LEMMA NobodyElse ==
    ASSUME Lone, LoneInv, NEW w \in Workers, NoteRace(w)
    PROVE  raced' = {}
  BY DEF Lone, LoneInv, Unspoilt, NoteRace

(* Unless a worker is storing, every entry has been saved or is cleared. *)
LEMMA AllSaved ==
    ASSUME Lone, LoneInv, NEW w \in Workers, at[w] # "store", NEW i \in Slots
    PROVE  Empty(entry[i])
  BY DEF Lone, LoneInv, Unspoilt, Blank

(* A step of a save or a penalty that writes nothing. *)
LEMMA BetweenWrites ==
    ASSUME Lone, LoneInv, NEW w \in Workers, at[w] # "store",
           at'[w] \notin {"scan", "copy", "victim"}, UNCHANGED <<entry, open>>,
           raced' = {}, saves' = saves \/ \E x \in SaveType : saves' = Append(saves, x)
    PROVE  Unspoilt'
  <1>1. Blank'
      BY AllSaved DEF Blank
  <1>2. Choosing'
      BY DEF Choosing, Lone
  <1> QED
      BY <1>1, <1>2, CopiesGrow DEF Unspoilt

LEMMA BetweenAlone ==
    ASSUME Lone, LoneInv, NEW w \in Workers,
           (\E r \in Results : Save(w, r)) \/ Decide(w) \/ Penalize(w) \/ LoadDepth(w)
    PROVE  Unspoilt'
  <1>1. at \in [Workers -> AtType]
      BY DEF LoneInv, RaceInv, TableInv, TypeOK
  <1>2. ASSUME NEW r \in Results, Save(w, r) PROVE Unspoilt'
    <2> DEFINE save == [key |-> Node(w).key, search |-> searches, result |-> r]
    <2>1. /\ at[w] # "store" /\ at[w] # "out" /\ at'[w] \notin {"scan", "copy", "victim"}
          /\ UNCHANGED <<entry, open>> /\ NoteRace(w) /\ saves' = Append(saves, save)
        BY <1>1, <1>2 DEF Save, Step, InNode
    <2>2. save \in SaveType
        BY <2>1, NodeTyped DEF LoneInv, RaceInv, TableInv, TypeOK, SaveType, NodeType
    <2> QED
        BY <2>1, <2>2, NobodyElse, BetweenWrites
  <1>3. CASE Decide(w)
    <2>1. /\ at[w] # "store" /\ at'[w] \notin {"scan", "copy", "victim"}
          /\ UNCHANGED <<entry, open, saves, raced>>
        BY <1>1, <1>3 DEF Decide, Step
    <2> QED
        BY <2>1, BetweenWrites DEF LoneInv, Unspoilt
  <1>4. CASE Penalize(w)
    <2>1. /\ at[w] # "store" /\ at'[w] \notin {"scan", "copy", "victim"}
          /\ UNCHANGED <<entry, open, saves>> /\ NoteRace(w)
        BY <1>1, <1>4 DEF Penalize, Step
    <2> QED
        BY <2>1, NobodyElse, BetweenWrites
  <1>5. CASE LoadDepth(w)
    <2>1. /\ at[w] # "store" /\ at'[w] \notin {"scan", "copy", "victim"}
          /\ UNCHANGED <<entry, open, saves, raced>>
        BY <1>1, <1>5 DEF LoadDepth, Step
    <2> QED
        BY <2>1, BetweenWrites DEF LoneInv, Unspoilt
  <1> QED
      BY <1>2, <1>3, <1>4, <1>5

LEMMA StoreMoveAlone ==
    ASSUME Lone, LoneInv, NEW w \in Workers, StoreMove(w)
    PROVE  Unspoilt'
  <1>1. /\ at[w] = "move" /\ at'[w] = "decide" /\ UNCHANGED <<open, saves, raced>>
        /\ entry' = [entry EXCEPT ![Node(w).writer]["move"] = Result(w).move]
      BY DEF LoneInv, RaceInv, TableInv, TypeOK, StoreMove, Step
  <1>2. ASSUME NEW i \in Slots PROVE Empty(entry'[i])
    <2>1. entry[i] \in EntryType /\ entry \in [Slots -> EntryType]
        BY DEF LoneInv, RaceInv, TableInv, TypeOK
    <2>2. /\ entry'[i].value = entry[i].value /\ entry'[i].depth = entry[i].depth
          /\ entry'[i].gen_bound = entry[i].gen_bound
        BY <1>1, <2>1 DEF EntryType
    <2> QED
        BY <1>1, <2>2, AllSaved DEF Empty
  <1>3. Blank' /\ Choosing'
      BY <1>1, <1>2 DEF Blank, Choosing, Lone
  <1> QED
      BY <1>1, <1>3, CopiesGrow DEF LoneInv, Unspoilt

LEMMA StoreAlone ==
    ASSUME Lone, LoneInv, NEW w \in Workers, NEW f \in SaveFields, Store(w, f)
    PROVE  Unspoilt'
  <1>1. /\ at[w] = "store" /\ UNCHANGED <<open, saves, raced>>
        /\ entry' = [entry EXCEPT ![Node(w).writer][f] = Stored(w)[f]]
        /\ at'[w] = IF todo[w] = {f} THEN "node" ELSE "store"
      BY DEF LoneInv, RaceInv, TableInv, TypeOK, Store, Step
  <1>2. entry \in [Slots -> EntryType] /\ Node(w).writer \in Slots /\ Node(w)' = Node(w)
      BY <1>1, NodeTyped DEF LoneInv, RaceInv, TableInv, TypeOK, Node
  <1>3. ASSUME NEW i \in Slots, i # Node(w).writer PROVE Empty(entry'[i])
    <2>1. entry'[i] = entry[i] /\ Empty(entry[i])
        BY <1>1, <1>2, <1>3 DEF Lone, LoneInv, Unspoilt, Blank
    <2> QED
        BY <2>1
  <1>4. ASSUME todo[w] = {f} PROVE Empty(entry'[Node(w).writer])
    <2> DEFINE e == Here(w)  s == Stored(w)  h == [e EXCEPT ![f] = s[f]]
    <2>1. e \in EntryType /\ Halfway(w) /\ entry'[Node(w).writer] = h
        BY <1>1, <1>2, WasHalfway DEF LoneInv, Unspoilt, Writing, Here
    <2>2. "value" # f => e["value"] = s["value"]
        BY <1>1, <1>4, <2>1 DEF Halfway, SaveFields
    <2>3. h["value"] = s["value"]
        BY <2>1, <2>2 DEF EntryType
    <2>4. s["value"].save = op[w] /\ op[w] # 0
        BY <1>1 DEF Stored, SavedEntry, LoneInv, RaceInv, TableInv, Numbered
    <2> HIDE DEF h, s
    <2> QED
        BY <2>1, <2>3, <2>4 DEF Empty
  <1>5. Blank'
    <2>1. ASSUME NEW i \in Slots, \A v \in Workers : ~(at'[v] = "store" /\ Node(v)'.writer = i)
          PROVE  Empty(entry'[i])
      <3>1. i # Node(w).writer \/ todo[w] = {f}
          BY <1>1, <1>2, <2>1
      <3> QED
          BY <1>3, <1>4, <3>1
    <2> QED
        BY <2>1 DEF Blank
  <1>6. Choosing'
      BY <1>1 DEF Choosing, Lone
  <1> QED
      BY <1>1, <1>5, <1>6, CopiesGrow DEF LoneInv, Unspoilt

LEMMA LowerDepthAlone ==
    ASSUME Lone, LoneInv, NEW w \in Workers, LowerDepth(w)
    PROVE  Unspoilt'
  <1> DEFINE lower == depth_saturating_sub(old[w], 1)
  <1>1. /\ at[w] = "lower" /\ at'[w] = "node" /\ UNCHANGED <<open, saves, raced>>
        /\ entry' = [entry EXCEPT ![Node(w).writer]["depth"] = lower]
      BY DEF LoneInv, RaceInv, TableInv, TypeOK, LowerDepth, Step
  <1>2. entry \in [Slots -> EntryType] /\ Node(w).writer \in Slots /\ old[w] = Here(w).depth
      BY <1>1, WasHalfway DEF LoneInv, Unspoilt, Writing, Halfway
  <1>3. Here(w).depth = 0 => lower = 0
      BY <1>2 DEF depth_saturating_sub
  <1> HIDE DEF lower
  <1>4. ASSUME NEW i \in Slots PROVE Empty(entry'[i])
    <2>1. Empty(entry[i]) /\ entry[i] \in EntryType
        BY <1>1, <1>2, AllSaved
    <2>2. CASE i = Node(w).writer
      <3>1. entry'[i] = [entry[i] EXCEPT !["depth"] = lower] /\ Here(w) = entry[i]
          BY <1>1, <1>2, <2>2 DEF Here
      <3>2. /\ entry'[i].value = entry[i].value /\ entry'[i].depth = lower
            /\ entry'[i].gen_bound = entry[i].gen_bound
          BY <2>1, <3>1 DEF EntryType
      <3> QED
          BY <1>3, <2>1, <3>1, <3>2 DEF Empty
    <2>3. CASE i # Node(w).writer
      <3>1. entry'[i] = entry[i]
          BY <1>1, <1>2, <2>3
      <3> QED
          BY <2>1, <3>1
    <2> QED
        BY <2>2, <2>3
  <1>5. Blank' /\ Choosing'
      BY <1>1, <1>4 DEF Blank, Choosing, Lone
  <1> QED
      BY <1>1, <1>5, CopiesGrow DEF LoneInv, Unspoilt

LEMMA LoneInductive == Lone /\ LoneInv /\ [Next]_vars => LoneInv'
  <1> SUFFICES ASSUME Lone, LoneInv, [Next]_vars PROVE LoneInv'
      OBVIOUS
  <1>1. RaceInv'
      BY RacesInductive DEF LoneInv
  <1>2. ASSUME NewSearch PROVE Unspoilt'
      BY <1>2, NewSearchAlone
  <1>3. ASSUME NEW w \in Workers, Work(w) PROVE Unspoilt'
      BY <1>3, ProbeAlone, ScanMatchesAlone, ScanPassesAlone, CompareVictimAlone, VictimChosenAlone,
         CopyEntryAlone, LeaveAlone, BetweenAlone, StoreMoveAlone, StoreAlone, LowerDepthAlone
      DEF Work
  <1>4. ASSUME UNCHANGED vars PROVE Unspoilt'
    <2>1. UNCHANGED <<entry, generation, at, open, scan, saves, raced>>
        BY <1>4 DEF vars
    <2>2. \A w \in Workers : Node(w)' = Node(w) /\ Here(w)' = Here(w) /\ Key16(w)' = Key16(w)
        BY <2>1 DEF Node, Here, Key16
    <2>3. \A e : Worth(e)' = Worth(e)
        BY <2>1 DEF Worth, relative_age
    <2>4. raced' = {} /\ Blank' /\ Copies'
        BY <2>1, <2>2 DEF LoneInv, Unspoilt, Blank, Copies
    <2>5. Choosing'
        BY <2>1, <2>2 DEF LoneInv, Unspoilt, Choosing, Worth, relative_age
    <2> QED
        BY <2>4, <2>5 DEF Unspoilt
  <1> QED
      BY <1>1, <1>2, <1>3, <1>4 DEF Next, LoneInv

LEMMA LoneInvariant == ASSUME Lone PROVE Spec => []LoneInv
  <1>1. Init => LoneInv
      BY Initial, RacesAtFirst, UnspoiltAtFirst DEF LoneInv, RaceInv
  <1>2. LoneInv /\ [Next]_vars => LoneInv'
      BY LoneInductive
  <1> QED
      BY <1>1, <1>2, PTL DEF Spec

(* What a worker alone finds is one save of a position with its key, and   *)
(* its copy stays that, whatever it does to the entry later (tt.c:115-124). *)
THEOREM HitsAreSaves == ASSUME Lone PROVE Spec => []HitIsOneSave
  <1>1. ASSUME LoneInv, NEW w \in Workers, NEW n \in 1 .. Len(open[w]), open[w][n].found
        PROVE  LET h == open[w][n]  s == saves[h.data.value.save] IN
                 /\ h.data.value.save # 0 /\ key16[s.key] = key16[h.key]
                 /\ BoundOf(h.data.gen_bound) = s.result.bound
                 /\ h.data.value.decisive = s.result.decisive
                 /\ h.data.depth <= s.result.depth - DEPTH_ENTRY_OFFSET
    <2>1. Copied(open[w][n], saves) /\ saves \in Seq(SaveType)
        BY <1>1 DEF LoneInv, RaceInv, TableInv, TypeOK, Unspoilt, Copies
    <2> QED
        BY <1>1, <2>1, CopiedIsOne
  <1>2. LoneInv => HitIsOneSave
      BY <1>1 DEF HitIsOneSave
  <1> QED
      BY <1>2, LoneInvariant, PTL

(* The entry a worker alone gives up on a miss is the one worth least, by  *)
(* the searches that have passed since each was saved (tt.c:128-137).      *)
THEOREM VictimsAreWorthLeast == ASSUME Lone PROVE Spec => VictimIsWorthLeast
  <1>1. ASSUME LoneInv, NEW w \in Workers, at[w] = "victim", NEW i \in Slots
        PROVE  Worth(entry[i]) = entry[i].depth - 8 * (SearchesSince(entry[i]) % Generations)
    <2> DEFINE e == entry[i]  n == e.value.save  s == IF n = 0 THEN 0 ELSE saves[n].search
    <2>1. Whole(e, saves) /\ Empty(e) /\ e \in EntryType
        BY <1>1, ReadsWhole DEF Writing, LoneInv, RaceInv, TableInv, TypeOK
    <2>2. searches \in Int /\ generation = searches % Generations /\ e.gen_bound \in Int
        BY <1>1, <2>1, LimitAssumption, GenerationsPositive
        DEF LoneInv, RaceInv, TableInv, TypeOK, Races, Dated, EntryType
    <2>3. s \in Int /\ e.gen_bound % Generations = s % Generations
      <3>1. CASE n = 0
          BY <2>1, <3>1 DEF Empty
      <3>2. CASE n # 0
        <4>1. n \in 1 .. Len(saves) /\ e.gen_bound % Generations = saves[n].search % Generations
            BY <2>1, <3>2 DEF Whole, Core
        <4>2. saves[n].search \in Int
          <5>1. saves[n] \in SaveType
              BY <1>1, <4>1 DEF LoneInv, RaceInv, TableInv, TypeOK
          <5> QED
              BY <5>1, LimitAssumption DEF SaveType
        <4> QED
            BY <3>2, <4>1, <4>2
      <3> QED
          BY <3>1, <3>2
    <2>4. SearchesSince(e) = searches - s
        BY DEF SearchesSince
    <2> DEFINE a == e.gen_bound
    <2>5. a \in Int /\ a % Generations = s % Generations
        BY <2>2, <2>3
    <2> HIDE DEF s, a
    <2>6. ((searches % Generations) - a) % Generations = (searches - s) % Generations
      <3>1. s \in Int /\ searches \in Int
          BY <2>2, <2>3
      <3> QED
          BY <2>5, <3>1, GenerationsPositive, AgeOf, ZenonT(30)
    <2> QED
        BY <2>2, <2>4, <2>6 DEF Worth, relative_age, a
  <1>2. ASSUME LoneInv, [Next]_vars, NEW w \in Workers, at[w] = "victim", at'[w] = "node", NEW i \in Slots
        PROVE  Worth(Here(w)) <= Worth(entry[i])
    <2>1. VictimChosen(w)
      <3>1. ~NewSearch /\ ~UNCHANGED vars
          BY <1>2 DEF NewSearch, vars
      <3>2. Work(w)
          BY <1>2, <3>1 DEF Next, Lone
      <3> QED
          BY <1>2, <3>2
          DEF Work, Probe, ScanMatches, ScanPasses, CompareVictim, CopyEntry, Leave, Save, StoreMove,
              Decide, Store, Penalize, LoadDepth, LowerDepth, InNode
    <2>2. scan[w] \in 0 .. TT_CLUSTER_SIZE /\ scan[w] \notin Slots
        BY <1>2, <2>1 DEF VictimChosen, LoneInv, RaceInv, TableInv, TypeOK
    <2>3. i < scan[w]
        BY <2>2, SizeAssumption DEF Slots
    <2> QED
        BY <1>2, <2>3 DEF LoneInv, Unspoilt, Choosing
  <1>3. LoneInv /\ [Next]_vars =>
          [\A w \in Workers : at[w] = "victim" /\ at'[w] = "node" =>
             \A i \in Slots :
                LET worth(e) == e.depth - 8 * (SearchesSince(e) % Generations)
                IN  worth(Here(w)) <= worth(entry[i])]_vars
    <2>1. SUFFICES ASSUME LoneInv, [Next]_vars, NEW w \in Workers, at[w] = "victim", at'[w] = "node",
                          NEW i \in Slots
                   PROVE  Here(w).depth - 8 * (SearchesSince(Here(w)) % Generations)
                             <= entry[i].depth - 8 * (SearchesSince(entry[i]) % Generations)
        OBVIOUS
    <2>2. Node(w).writer \in Slots
        BY <2>1, NodeTyped DEF LoneInv, RaceInv, TableInv
    <2>3. /\ Worth(Here(w)) = Here(w).depth - 8 * (SearchesSince(Here(w)) % Generations)
          /\ Worth(entry[i]) = entry[i].depth - 8 * (SearchesSince(entry[i]) % Generations)
        BY <1>1, <2>1, <2>2 DEF Here
    <2> QED
        BY <1>2, <2>1, <2>3
  <1> QED
      BY <1>3, LoneInvariant, PTL DEF Spec, VictimIsWorthLeast
===============================================================================
