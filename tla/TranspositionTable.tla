-------------------------- MODULE TranspositionTable --------------------------
(***************************************************************************)
(* One cluster of the transposition table (engine/search/tt.c, tt.h) under *)
(* the workers that probe it and save to it with no lock.  Every field of  *)
(* an entry is a relaxed atomic: it is read and written whole, and the     *)
(* fields of a save in any order.  A worker keeps the entry its probe gave *)
(* it for as long as the node is open, and searches other nodes meanwhile. *)
(*                                                                         *)
(* A score is the number of the save it came from, and whether it is a     *)
(* proven result; the static evaluation travels with it.                   *)
(***************************************************************************)
EXTENDS Integers, Sequences, FiniteSets

CONSTANTS Workers,
          Keys, key16,         \* positions of this cluster, and their low 16 bits
          Moves, MOVE_NONE,
          Results,             \* what a node may save: [depth, bound, pv, move, decisive]
          Earlier,             \* saves the cluster may hold one of at first: [key, result]
          TT_CLUSTER_SIZE,
          TT_GENERATION_MASK,  \* one less than a power of two
          MaxOpen,             \* bound: nested nodes of one worker
          MaxProbes,           \* bound: nodes
          MaxSaves,            \* bound: saves
          MaxSearches          \* bound: searches after the first

DEPTH_ENTRY_OFFSET == -3
BOUND_EXACT == 3
Generations == TT_GENERATION_MASK + 1

ASSUME KeyAssumption == key16 \in [Keys -> Nat]
ASSUME MoveAssumption == MOVE_NONE \notin Moves
ASSUME ResultAssumption ==
    Results \subseteq [depth : DEPTH_ENTRY_OFFSET + 1 .. DEPTH_ENTRY_OFFSET + 255, bound : 0 .. 3,
                       pv : BOOLEAN, move : Moves \union {MOVE_NONE}, decisive : BOOLEAN]
ASSUME EarlierAssumption ==
    Earlier \subseteq [key : Keys, result : Results] /\ (Earlier # {} => MaxSaves > 0)
ASSUME SizeAssumption == TT_CLUSTER_SIZE \in Nat \ {0} /\ TT_GENERATION_MASK \in Nat \ {0}
ASSUME LimitAssumption == \A n \in {MaxOpen, MaxProbes, MaxSaves, MaxSearches} : n \in Nat

VARIABLES
    entry,      \* the cluster
    generation, \* TT.generation8
    at,         \* where each worker is in its probe or save
    open,       \* the nodes each worker has open, with what their probes gave
    scan,       \* the entry a probe has come to
    todo,       \* the fields of a save still to be written
    op,         \* the number of the save in progress, 0 for a penalty
    old,        \* the depth a lowering has read
    saves,      \* history: every save
    probes,     \* history: how many nodes were opened
    searches,   \* history: how many searches began
    raced       \* history: entries two workers wrote to at once

vars == <<entry, generation, at, open, scan, todo, op, old, saves, probes, searches, raced>>

Slots == 0 .. TT_CLUSTER_SIZE - 1
SaveFields == {"key", "depth", "gen_bound", "value"}
NoValue == [save |-> 0, decisive |-> FALSE]
Cleared == [key |-> 0, depth |-> 0, gen_bound |-> 0, move |-> MOVE_NONE, value |-> NoValue]

ValueType == [save : 0 .. MaxSaves, decisive : BOOLEAN]
DataType == [depth : 0 .. 255, gen_bound : 0 .. 8 * Generations - 1,
             move : Moves \union {MOVE_NONE}, value : ValueType]
EntryType == [key : {0} \union {key16[k] : k \in Keys}, depth : 0 .. 255,
              gen_bound : 0 .. 8 * Generations - 1, move : Moves \union {MOVE_NONE},
              value : ValueType]
NodeType == [key : Keys, writer : Slots, found : BOOLEAN, data : DataType]
SaveType == [key : Keys, search : 0 .. MaxSearches, result : Results]
Writing == {"move", "decide", "store", "load", "lower"}
InNode == {"found", "node"}
AtType == {"out", "scan", "copy", "victim"} \union InNode \union Writing

TypeOK ==
    /\ entry \in [Slots -> EntryType]
    /\ generation \in 0 .. Generations - 1
    /\ at \in [Workers -> AtType]
    /\ open \in [Workers -> Seq(NodeType)] /\ \A w \in Workers : Len(open[w]) <= MaxOpen
    /\ scan \in [Workers -> 0 .. TT_CLUSTER_SIZE]
    /\ todo \in [Workers -> SUBSET SaveFields]
    /\ op \in [Workers -> 0 .. MaxSaves] /\ old \in [Workers -> 0 .. 255]
    /\ saves \in Seq(SaveType) /\ Len(saves) <= MaxSaves
    /\ probes \in 0 .. MaxProbes /\ searches \in 0 .. MaxSearches /\ raced \subseteq Slots

\* What a reader copies out of an entry.
tt_entry_read(e) == [depth |-> e.depth, gen_bound |-> e.gen_bound, move |-> e.move,
                     value |-> e.value]
NoData == tt_entry_read(Cleared)

-------------------------------------------------------------------------------
(* The packed byte, ages and depths *)

Bit(b) == IF b THEN 1 ELSE 0

\* Fault: the PV flag one bit too low.
PackOverlapping(bound, pv) == generation + Generations * (bound + 2 * Bit(pv))

Pack(bound, pv) == generation + Generations * (bound + 4 * Bit(pv))

BoundOf(gen_bound) == (gen_bound \div Generations) % 4

PvOf(gen_bound) == gen_bound \div (4 * Generations) = 1

\* Fault: the subtraction does not borrow.
AgeUnborrowed(gen_bound) == generation - (gen_bound % Generations)

relative_age(gen_bound) == (generation - gen_bound) % Generations

\* Fault: the byte wraps around.
WrappingSub(depth8, n) == (depth8 - n) % 256

depth_saturating_sub(depth8, n) == IF depth8 > n THEN depth8 - n ELSE 0

Worth(e) == e.depth - 8 * relative_age(e.gen_bound)

\* What a save leaves in an entry it takes: the n-th, of result r under that key.
SavedEntry(n, key, r) ==
    [key |-> key, depth |-> r.depth - DEPTH_ENTRY_OFFSET, gen_bound |-> Pack(r.bound, r.pv),
     move |-> r.move, value |-> [save |-> n, decisive |-> r.decisive]]

\* A cleared table, or one in which an earlier node of this search took the first entry.
Init ==
    /\ generation = 0
    /\ \/ saves = <<>> /\ entry = [i \in Slots |-> Cleared]
       \/ \E s \in Earlier :
            /\ saves = <<[key |-> s.key, search |-> 0, result |-> s.result]>>
            /\ entry = [i \in Slots |-> IF i = 0 THEN SavedEntry(1, key16[s.key], s.result) ELSE Cleared]
    /\ at = [w \in Workers |-> "out"]
    /\ open = [w \in Workers |-> <<>>]
    /\ scan = [w \in Workers |-> 0]
    /\ todo = [w \in Workers |-> {}]
    /\ op = [w \in Workers |-> 0] /\ old = [w \in Workers |-> 0]
    /\ probes = 0 /\ searches = 0 /\ raced = {}

-------------------------------------------------------------------------------
(* Searches *)

NextGeneration == (generation + 1) % Generations

\* tt_new_search, between two searches.
NewSearch ==
    /\ searches < MaxSearches
    /\ \A w \in Workers : at[w] = "out"
    /\ generation' = NextGeneration
    /\ searches' = searches + 1
    /\ UNCHANGED <<entry, at, open, scan, todo, op, old, saves, probes, raced>>

Step(w, place) == at' = [at EXCEPT ![w] = place]
Node(w) == open[w][Len(open[w])]
SetNode(w, node) == open' = [open EXCEPT ![w][Len(open[w])] = node]
Here(w) == entry[Node(w).writer]

-------------------------------------------------------------------------------
(* tt_probe *)

Probe(w, k) ==
    /\ at[w] \in {"out"} \union InNode /\ Len(open[w]) < MaxOpen
    /\ probes < MaxProbes /\ probes' = probes + 1
    /\ open' = [open EXCEPT ![w] = Append(@, [key |-> k, writer |-> 0, found |-> FALSE,
                                              data |-> NoData])]
    /\ scan' = [scan EXCEPT ![w] = 0]
    /\ Step(w, "scan")
    /\ UNCHANGED <<entry, generation, todo, op, old, saves, searches, raced>>

ScanMatches(w) ==
    /\ at[w] = "scan"
    /\ entry[scan[w]].key = key16[Node(w).key]
    /\ SetNode(w, [Node(w) EXCEPT !.writer = scan[w]])
    /\ scan' = [scan EXCEPT ![w] = 0]
    /\ Step(w, "copy")
    /\ UNCHANGED <<entry, generation, todo, op, old, saves, searches, probes, raced>>

ScanPasses(w) ==
    /\ at[w] = "scan"
    /\ entry[scan[w]].key # key16[Node(w).key]
    /\ IF scan[w] + 1 \in Slots
       THEN scan' = [scan EXCEPT ![w] = @ + 1] /\ UNCHANGED at
       ELSE scan' = [scan EXCEPT ![w] = 1] /\ Step(w, "victim")
    /\ UNCHANGED <<entry, generation, open, todo, op, old, saves, searches, probes, raced>>

\* The copy's loads are one step: nothing here tells apart the ways in which it
\* may be torn.
CopyEntry(w) ==
    /\ at[w] = "copy"
    /\ SetNode(w, [Node(w) EXCEPT !.found = Here(w).depth # 0,
                                  !.data = tt_entry_read(Here(w))])
    /\ Step(w, "found")
    /\ UNCHANGED <<entry, generation, scan, todo, op, old, saves, searches, probes, raced>>

\* Fault: the running choice is not compared with, only the first entry.
CompareVictimWithFirst(w) ==
    /\ at[w] = "victim" /\ scan[w] \in Slots
    /\ SetNode(w, [Node(w) EXCEPT !.writer = IF Worth(entry[0]) > Worth(entry[scan[w]])
                                             THEN scan[w] ELSE @])
    /\ scan' = [scan EXCEPT ![w] = @ + 1]
    /\ UNCHANGED <<entry, generation, at, todo, op, old, saves, searches, probes, raced>>

CompareVictim(w) ==
    /\ at[w] = "victim" /\ scan[w] \in Slots
    /\ SetNode(w, [Node(w) EXCEPT !.writer = IF Worth(Here(w)) > Worth(entry[scan[w]])
                                             THEN scan[w] ELSE @])
    /\ scan' = [scan EXCEPT ![w] = @ + 1]
    /\ UNCHANGED <<entry, generation, at, todo, op, old, saves, searches, probes, raced>>

VictimChosen(w) ==
    /\ at[w] = "victim" /\ scan[w] \notin Slots
    /\ scan' = [scan EXCEPT ![w] = 0]
    /\ Step(w, "node")
    /\ UNCHANGED <<entry, generation, open, todo, op, old, saves, searches, probes, raced>>

\* The search leaves the node.
Leave(w) ==
    /\ at[w] \in InNode
    /\ open' = [open EXCEPT ![w] = SubSeq(@, 1, Len(@) - 1)]
    /\ Step(w, IF Len(open[w]) = 1 THEN "out" ELSE "node")
    /\ UNCHANGED <<entry, generation, scan, todo, op, old, saves, searches, probes, raced>>

-------------------------------------------------------------------------------
(* tt_save and tt_penalize *)

\* Two workers write to one entry at once from now on.
NoteRace(w) ==
    raced' = IF \E v \in Workers \ {w} : at[v] \in Writing /\ Node(v).writer = Node(w).writer
             THEN raced \union {Node(w).writer} ELSE raced

\* The move is kept when there is none to put in its place.
Save(w, r) ==
    /\ at[w] \in InNode /\ Len(saves) < MaxSaves
    /\ saves' = Append(saves, [key |-> Node(w).key, search |-> searches, result |-> r])
    /\ op' = [op EXCEPT ![w] = Len(saves) + 1]
    /\ NoteRace(w)
    /\ Step(w, IF r.move # MOVE_NONE \/ key16[Node(w).key] # Here(w).key THEN "move" ELSE "decide")
    /\ UNCHANGED <<entry, generation, open, scan, todo, old, searches, probes>>

Result(w) == saves[op[w]].result
Key16(w) == key16[Node(w).key]

StoreMove(w) ==
    /\ at[w] = "move"
    /\ entry' = [entry EXCEPT ![Node(w).writer].move = Result(w).move]
    /\ Step(w, "decide")
    /\ UNCHANGED <<generation, open, scan, todo, op, old, saves, searches, probes, raced>>

\* Fault: an entry of another position is kept if it is deeper.
OverwritesShallower(e, key, r) ==
    \/ r.bound = BOUND_EXACT
    \/ r.depth - DEPTH_ENTRY_OFFSET + 2 * Bit(r.pv) > e.depth - 4
    \/ relative_age(e.gen_bound) # 0

Overwrites(e, key, r) ==
    \/ r.bound = BOUND_EXACT
    \/ key # e.key
    \/ r.depth - DEPTH_ENTRY_OFFSET + 2 * Bit(r.pv) > e.depth - 4
    \/ relative_age(e.gen_bound) # 0

\* A deep, proven entry that is not exact loses a ply to a save it refuses.
LosesPly(e) ==
    /\ e.depth + DEPTH_ENTRY_OFFSET >= 5
    /\ BoundOf(e.gen_bound) # BOUND_EXACT
    /\ e.value.decisive

Decide(w) ==
    /\ at[w] = "decide"
    /\ IF Overwrites(Here(w), Key16(w), Result(w))
       THEN Step(w, "store") /\ todo' = [todo EXCEPT ![w] = SaveFields]
       ELSE Step(w, IF LosesPly(Here(w)) THEN "load" ELSE "node") /\ UNCHANGED todo
    /\ UNCHANGED <<entry, generation, open, scan, op, old, saves, searches, probes, raced>>

\* What the fields of a save are stored as.
Stored(w) == SavedEntry(op[w], Key16(w), Result(w))

Store(w, f) ==
    /\ at[w] = "store" /\ f \in todo[w]
    /\ entry' = [entry EXCEPT ![Node(w).writer][f] = Stored(w)[f]]
    /\ todo' = [todo EXCEPT ![w] = @ \ {f}]
    /\ Step(w, IF todo[w] = {f} THEN "node" ELSE "store")
    /\ UNCHANGED <<generation, open, scan, op, old, saves, searches, probes, raced>>

\* The search finds the entry deep enough and its bound useless, first thing after
\* the probe (search_main.c).
Penalize(w) ==
    /\ at[w] = "found" /\ Node(w).found
    /\ Node(w).data.depth + DEPTH_ENTRY_OFFSET >= 6
    /\ op' = [op EXCEPT ![w] = 0]
    /\ NoteRace(w)
    /\ Step(w, "load")
    /\ UNCHANGED <<entry, generation, open, scan, todo, old, saves, searches, probes>>

LoadDepth(w) ==
    /\ at[w] = "load"
    /\ old' = [old EXCEPT ![w] = Here(w).depth]
    /\ Step(w, "lower")
    /\ UNCHANGED <<entry, generation, open, scan, todo, op, saves, searches, probes, raced>>

LowerDepth(w) ==
    /\ at[w] = "lower"
    /\ entry' = [entry EXCEPT ![Node(w).writer].depth = depth_saturating_sub(old[w], 1)]
    /\ old' = [old EXCEPT ![w] = 0]
    /\ Step(w, "node")
    /\ UNCHANGED <<generation, open, scan, todo, op, saves, searches, probes, raced>>

-------------------------------------------------------------------------------

Work(w) ==
    \/ \E k \in Keys : Probe(w, k)
    \/ ScanMatches(w) \/ ScanPasses(w) \/ CompareVictim(w) \/ VictimChosen(w)
    \/ CopyEntry(w) \/ Leave(w)
    \/ \E r \in Results : Save(w, r)
    \/ StoreMove(w) \/ Decide(w)
    \/ \E f \in SaveFields : Store(w, f)
    \/ Penalize(w) \/ LoadDepth(w) \/ LowerDepth(w)

Next == NewSearch \/ \E w \in Workers : Work(w)

Spec == Init /\ [][Next]_vars

-------------------------------------------------------------------------------

Quiet(i) == i \notin raced /\ \A w \in Workers : ~(at[w] \in Writing /\ Node(w).writer = i)

(* Only a race can tear an entry: as long as no two workers wrote to it at *)
(* once, its key, bound, PV flag and score come from one save, its depth   *)
(* from that save with plies taken off, and its move from a save of a      *)
(* position with that key -- even though a worker may hold the entry for   *)
(* long, and write to it after it went to another position.                *)
WholeUnlessRaced ==
    \A i \in Slots : Quiet(i) /\ entry[i].value.save # 0 =>
        LET e == entry[i]  s == saves[e.value.save]  r == s.result
        IN  /\ e.key = key16[s.key]
            /\ BoundOf(e.gen_bound) = r.bound /\ PvOf(e.gen_bound) = r.pv
            /\ e.value.decisive = r.decisive
            /\ e.depth <= r.depth - DEPTH_ENTRY_OFFSET
            /\ e.move # MOVE_NONE =>
                  \E n \in 1 .. Len(saves) :
                      key16[saves[n].key] = e.key /\ saves[n].result.move = e.move

(* "Guard against racy underflows" (tt.c:22-24): whatever races, no entry  *)
(* ever looks deeper than the deepest save so far, not even when one       *)
(* worker stores the lowest depth there is between two others' decisions   *)
(* to lower the entry and their doing so.                                  *)
DepthNeverInvented ==
    \A i \in Slots : entry[i].depth # 0 =>
        \E n \in 1 .. Len(saves) : entry[i].depth <= saves[n].result.depth - DEPTH_ENTRY_OFFSET

(* The generation shares its byte with the bound and the PV flag and wraps *)
(* around: the age read from it is still the number of searches since the  *)
(* entry was saved, modulo the number of generations.                      *)
AgeIsExact ==
    \A i \in Slots : Quiet(i) /\ entry[i].value.save # 0 =>
        relative_age(entry[i].gen_bound)
            = (searches - saves[entry[i].value.save].search) % Generations

(* A save is refused only for an entry of the same position: when it is    *)
(* over, unless another writer came in between, the entry it went to is    *)
(* occupied and has its key.  Which of the two results was worth keeping   *)
(* it does not say.                                                        *)
SaveSticks ==
    [][\A w \in Workers :
         LET i == Node(w).writer IN
         at[w] \in Writing /\ op[w] # 0 /\ at'[w] = "node" /\ i \notin raced =>
             entry'[i].key = Key16(w) /\ entry'[i].depth # 0]_vars

(* What a worker alone finds is one save of a position with its key, and   *)
(* none deeper than was saved; a copy does not change afterwards.          *)
HitIsOneSave ==
    \A w \in Workers : \A n \in 1 .. Len(open[w]) :
        LET h == open[w][n]  s == saves[h.data.value.save] IN
        h.found /\ ~(n = Len(open[w]) /\ at[w] = "copy") =>
            /\ h.data.value.save # 0 /\ key16[s.key] = key16[h.key]
            /\ BoundOf(h.data.gen_bound) = s.result.bound
            /\ h.data.value.decisive = s.result.decisive
            /\ h.data.depth <= s.result.depth - DEPTH_ENTRY_OFFSET

SearchesSince(e) ==
    searches - (IF e.value.save = 0 THEN 0 ELSE saves[e.value.save].search)

(* The entry a worker alone gets on a miss is worth least: its depth less  *)
(* eight for every search since it was saved.                              *)
VictimIsWorthLeast ==
    [][\A w \in Workers : at[w] = "victim" /\ at'[w] = "node" =>
         \A i \in Slots :
            LET worth(e) == e.depth - 8 * (SearchesSince(e) % Generations)
            IN  worth(Here(w)) <= worth(entry[i])]_vars
===============================================================================
