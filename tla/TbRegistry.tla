----------------------------- MODULE TbRegistry -----------------------------
(* The tablebase registry (platform/syzygy/registry.c): a path is scanned  *)
(* while no search runs, and each table's two files are mapped and parsed  *)
(* the first time a thread asks for them -- the UCI thread while it ranks  *)
(* the root moves, worker 0 while it extends a line it reports, every      *)
(* worker inside the tree, and some at once.  A flag per file publishes    *)
(* it, a mutex per kind of file serialises the mapping, and every block    *)
(* and mapping is kept in one list, to be released with the path.          *)
EXTENDS Naturals, Sequences, FiniteSets

CONSTANTS Tables,    \* the material configurations with files
          Dirs,      \* the directories a path may name
          Siblings,  \* worker 0's siblings
          Disks,     \* what the files may be: [Tables \X Kinds \X Dirs -> FileStates]
          Paths,     \* the values of SyzygyPath, sequences of directories
          MaxPaths,  \* bound: how often the path is set
          MaxRefusals,  \* bound: how many allocations are refused
          NULL

Kinds      == {"wdl", "dtz"}                               \* .rtbw and .rtbz
FileStates == {"absent", "corrupt", "unparsable", "good"}  \* corrupt: its length or its magic
Threads    == {"uci", "main"} \union Siblings

\* A block or a mapping: of which path, table and kind, and what it is; and the two files of a
\* registered table.
Blocks   == Nat \X Tables \X (Kinds \union {"both"}) \X {"table", "mapping", "records"}
Base     == Blocks \union {NULL}
FileType == [ready : BOOLEAN, base : Base, parsed : BOOLEAN, parts : SUBSET Blocks,
             tries : Nat, said : SUBSET BOOLEAN]
Files    == [Kinds -> FileType]

ASSUME NullAssumption == NULL \notin Threads /\ NULL \notin Files
ASSUME DiskAssumption == Disks \subseteq [Tables \X Kinds \X Dirs -> FileStates]
ASSUME PathAssumption == Paths \subseteq Seq(Dirs)

VARIABLES
    disk, path,  \* the files; PathBuf
    phase,       \* "idle", "rank" (the UCI thread builds the root moves) or "search"
    inTree,      \* whether the tree is probed: tb_config.cardinality is not zero
    table,       \* HashTabs: the two files of a registered table, or NULL
    chunks,      \* the blocks that can be reached from Chunks, the head of the list
    live,        \* the blocks and mappings that exist
    mutex,       \* WdlMapMutex and DtzMapMutex: their holder, or NULL
    at, own,     \* where each thread is, and its locals
    refusals,    \* how many allocations were refused
    paths        \* how often the path was set
vars == <<disk, path, phase, inTree, table, chunks, live, mutex, at, own, refusals, paths>>

\* A file of a table: its flag, its mapping, whether its records are complete and the blocks
\* they point to; and, for the properties, how often it was mapped and what was answered.
NewFile == [ready |-> FALSE, base |-> NULL, parsed |-> FALSE, parts |-> {}, tries |-> 0, said |-> {}]

\* A thread's locals: the file it is after, the mapping and the block it makes, the head of
\* the list it read, the contents of the file and what it answers.
NoLocals == [table |-> NULL, kind |-> NULL, base |-> NULL, block |-> NULL, head |-> {},
             found |-> "absent", answer |-> FALSE]

Refuse(n) == refusals + n <= MaxRefusals /\ refusals' = refusals + n

Init ==
    /\ disk \in Disks /\ path = <<>> /\ paths = 0 /\ refusals = 0
    /\ phase = "idle" /\ inTree = FALSE
    /\ table = [t \in Tables |-> NULL]
    /\ chunks = {} /\ live = {}
    /\ mutex = [k \in Kinds |-> NULL]
    /\ at = [th \in Threads |-> "out"]
    /\ own = [th \in Threads |-> NoLocals]

---------------------------------------------------------------------------
\* registry_init, on the UCI thread: release what the list holds, then register each table
\* whose WDL file exists and whose block is granted.

Exists(p, t, k) == \E i \in DOMAIN p : disk[<<t, k, p[i]>>] # "absent"
Block(t, k, what) == <<paths', t, k, what>>

SetPath ==
    /\ phase = "idle" /\ paths < MaxPaths
    /\ paths' = paths + 1
    /\ path' \in Paths
    /\ \E refused \in SUBSET {t \in Tables : Exists(path', t, "wdl")} :
         LET added == {t \in Tables : Exists(path', t, "wdl")} \ refused
             new   == {Block(t, "both", "table") : t \in added}
         IN  /\ Refuse(Cardinality(refused))
             /\ table' = [t \in Tables |-> IF t \in added THEN [k \in Kinds |-> NewFile] ELSE NULL]
             /\ chunks' = new
             /\ live' = (live \ chunks) \union new
    /\ UNCHANGED <<disk, phase, inTree, mutex, at, own>>

\* The course of a `go`: the root is ranked when its men fit the tables, and the search
\* probes the tree unless every probe of the ranking was answered.
Go ==
    /\ phase = "idle" /\ \E t \in Tables : table[t] # NULL
    /\ \/ phase' = "rank" /\ inTree' = FALSE
       \/ phase' = "search" /\ inTree' = TRUE
    /\ UNCHANGED <<disk, path, table, chunks, live, mutex, at, own, refusals, paths>>

Dispatch ==
    /\ phase = "rank" /\ at["uci"] = "out"
    /\ phase' = "search"
    /\ UNCHANGED <<disk, path, inTree, table, chunks, live, mutex, at, own, refusals, paths>>

SearchEnds ==
    /\ phase = "search" /\ \A th \in Threads : at[th] = "out"
    /\ phase' = "idle" /\ inTree' = FALSE
    /\ UNCHANGED <<disk, path, table, chunks, live, mutex, at, own, refusals, paths>>

---------------------------------------------------------------------------
\* registry_map_wdl and registry_map_dtz.

File(th) == table[own[th].table][own[th].kind]
SetFile(th, f) == table' = [table EXCEPT ![own[th].table][own[th].kind] = f]
Become(th, place, locals) == at' = [at EXCEPT ![th] = place] /\ own' = [own EXCEPT ![th] = locals]

\* Who probes what: the UCI thread ranks the root; during the search worker 0 extends the lines
\* it reports, and a tree with tables in it is probed by all, for WDL only.  A DTZ probe
\* follows a WDL probe of the same position that was answered.
Asks(th, t, k) ==
    /\ \/ th = "uci" /\ phase = "rank"
       \/ th = "main" /\ phase = "search"
       \/ th \in Siblings /\ phase = "search" /\ inTree /\ k = "wdl"
    /\ k = "dtz" => table[t]["wdl"].ready /\ table[t]["wdl"].base # NULL

\* The way taken on every probe: the flag is up, and the mapping is there or not.
Ask(th) ==
    /\ at[th] = "out"
    /\ \E t \in Tables, k \in Kinds :
         LET locals == [NoLocals EXCEPT !.table = t, !.kind = k] IN
         /\ table[t] # NULL /\ Asks(th, t, k)
         /\ IF table[t][k].ready THEN Become(th, "use", [locals EXCEPT !.answer = table[t][k].base # NULL])
                                 ELSE Become(th, "lock", locals)
    /\ UNCHANGED <<disk, path, phase, inTree, table, chunks, live, mutex, refusals, paths>>

\* Slip: the flag is not read again under the mutex.
LockUnchecked(th) ==
    /\ at[th] = "lock" /\ mutex[own[th].kind] = NULL
    /\ mutex' = [mutex EXCEPT ![own[th].kind] = th] /\ Become(th, "map", own[th])
    /\ UNCHANGED <<disk, path, phase, inTree, table, chunks, live, refusals, paths>>

\* Slip: the flag goes up before the file is opened.
LockAndPublish(th) ==
    /\ at[th] = "lock" /\ mutex[own[th].kind] = NULL
    /\ IF File(th).ready
       THEN UNCHANGED <<mutex, table>> /\ Become(th, "use", [own[th] EXCEPT !.answer = File(th).base # NULL])
       ELSE /\ mutex' = [mutex EXCEPT ![own[th].kind] = th] /\ Become(th, "map", own[th])
            /\ SetFile(th, [File(th) EXCEPT !.ready = TRUE])
    /\ UNCHANGED <<disk, path, phase, inTree, chunks, live, refusals, paths>>

\* The mutex is taken and the flag read again: another thread may have mapped the file.
Lock(th) ==
    /\ at[th] = "lock" /\ mutex[own[th].kind] = NULL
    /\ IF File(th).ready
       THEN UNCHANGED mutex /\ Become(th, "use", [own[th] EXCEPT !.answer = File(th).base # NULL])
       ELSE mutex' = [mutex EXCEPT ![own[th].kind] = th] /\ Become(th, "map", own[th])
    /\ UNCHANGED <<disk, path, phase, inTree, table, chunks, live, refusals, paths>>

\* visit_map down the path: absent and corrupt files are passed over, and so is one whose entry
\* in the list is refused; the first that is left is mapped and `c->next = Chunks` is read.
Mappable(th, i) == disk[<<own[th].table, own[th].kind, path[i]>>] \in {"unparsable", "good"}

MapFile(th) ==
    /\ at[th] = "map"
    /\ \E refused \in SUBSET {i \in DOMAIN path : Mappable(th, i)} :
         LET left == {i \in DOMAIN path : Mappable(th, i)} \ refused
             file == [File(th) EXCEPT !.tries = @ + 1]
         IN  Refuse(Cardinality(refused)) /\
             IF left = {}
             THEN /\ SetFile(th, [file EXCEPT !.base = NULL])
                  /\ Become(th, "publish", own[th])
                  /\ UNCHANGED live
             ELSE /\ SetFile(th, file)
                  /\ \E i \in left :
                       LET map == <<paths, own[th].table, own[th].kind, "mapping">> IN
                       /\ \A j \in left : i <= j
                       /\ live' = live \union {map}
                       /\ Become(th, "record", [own[th] EXCEPT !.base = map, !.block = map, !.head = chunks,
                                                  !.found = disk[<<own[th].table, own[th].kind, path[i]>>]])
    /\ UNCHANGED <<disk, path, phase, inTree, chunks, mutex, paths>>

\* `Chunks = c`: the new block goes in front of the head that was read.
Link(th) ==
    /\ chunks' = own[th].head \union {own[th].block}
    /\ UNCHANGED <<disk, path, phase, inTree, live, mutex, refusals, paths>>

RecordMapping(th) ==
    /\ at[th] = "record" /\ Link(th)
    /\ Become(th, "set", own[th])
    /\ UNCHANGED table

\* set: the records are cleared and filled again; their blocks may be refused.  One block
\* stands for those of every side and file.
SetBegins(th) ==
    /\ at[th] = "set"
    /\ \/ /\ Refuse(1)
          /\ SetFile(th, [File(th) EXCEPT !.base = NULL, !.parsed = FALSE, !.parts = {}])
          /\ Become(th, "publish", own[th])
          /\ UNCHANGED live
       \/ LET block == <<paths, own[th].table, own[th].kind, "records">> IN
          /\ Refuse(0)
          /\ SetFile(th, [File(th) EXCEPT !.parsed = FALSE, !.parts = {}])
          /\ live' = live \union {block}
          /\ Become(th, "link", [own[th] EXCEPT !.block = block, !.head = chunks])
    /\ UNCHANGED <<disk, path, phase, inTree, chunks, mutex, paths>>

SetReturns(th) ==
    /\ at[th] = "link" /\ Link(th)
    /\ LET good == own[th].found = "good" IN
       SetFile(th, [File(th) EXCEPT !.base = IF good THEN own[th].base ELSE NULL,
                                    !.parsed = good, !.parts = {own[th].block}])
    /\ Become(th, "publish", own[th])

Publish(th) ==
    /\ at[th] = "publish"
    /\ SetFile(th, [File(th) EXCEPT !.ready = TRUE])
    /\ Become(th, "unlock", [own[th] EXCEPT !.answer = File(th).base # NULL])
    /\ UNCHANGED <<disk, path, phase, inTree, chunks, live, mutex, refusals, paths>>

Unlock(th) ==
    /\ at[th] = "unlock"
    /\ mutex' = [mutex EXCEPT ![own[th].kind] = NULL]
    /\ Become(th, "use", own[th])
    /\ UNCHANGED <<disk, path, phase, inTree, table, chunks, live, refusals, paths>>

\* probe_table goes on with the table, or fails.  A probe of the ranking that fails leaves the
\* tree to be probed.
Use(th) ==
    /\ at[th] = "use"
    /\ SetFile(th, [File(th) EXCEPT !.said = @ \union {own[th].answer}])
    /\ inTree' = (inTree \/ (th = "uci" /\ ~own[th].answer))
    /\ Become(th, "out", NoLocals)
    /\ UNCHANGED <<disk, path, phase, chunks, live, mutex, refusals, paths>>

Probe(th) ==
    \/ Ask(th) \/ Lock(th) \/ MapFile(th) \/ RecordMapping(th)
    \/ SetBegins(th) \/ SetReturns(th) \/ Publish(th) \/ Unlock(th) \/ Use(th)

Next == SetPath \/ Go \/ Dispatch \/ SearchEnds \/ \E th \in Threads : Probe(th)

Spec == Init /\ [][Next]_vars

---------------------------------------------------------------------------
(* "The flag is published LAST": a thread that was told a table is there,  *)
(* by whichever way, reads records that are complete, of a file that is    *)
(* mapped, in blocks nobody has released -- whatever the others are doing. *)
NothingHalfRead ==
    \A th \in Threads : at[th] = "use" /\ own[th].answer =>
        LET f == File(th) IN
        f.ready /\ f.parsed /\ f.base \in live /\ f.parts # {} /\ f.parts \subseteq live

(* Under one path a file is mapped at most once, and everyone who asks for *)
(* it gets the same answer: a table is not lost to one thread because      *)
(* another is busy with it.                                                *)
MappedOnce ==
    \A t \in Tables, k \in Kinds :
        table[t] # NULL => table[t][k].tries <= 1 /\ Cardinality(table[t][k].said) <= 1

=============================================================================
