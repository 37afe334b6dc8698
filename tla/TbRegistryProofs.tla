-------------------------- MODULE TbRegistryProofs --------------------------
(* Theorems about TbRegistry, for any tables, disks, paths and threads,    *)
(* whichever allocations are refused: no probe reads a table that is still *)
(* being set up, and no file is mapped twice under one path.               *)
EXTENDS TbRegistry, FiniteSetTheorems, TLAPS

---------------------------------------------------------------------------
(* The inductive invariant *)

Places == {"out", "lock", "map", "record", "set", "link", "publish", "unlock", "use"}
LocalsType == [table : Tables \union {NULL}, kind : Kinds \union {NULL}, base : Base, block : Base,
               head : SUBSET Base, found : FileStates, answer : BOOLEAN]

TypeOK ==
    /\ disk \in [Tables \X Kinds \X Dirs -> FileStates] /\ path \in Seq(Dirs)
    /\ phase \in {"idle", "rank", "search"} /\ inTree \in BOOLEAN
    /\ table \in [Tables -> Files \union {NULL}]
    /\ chunks \subseteq Base /\ live \subseteq Base
    /\ mutex \in [Kinds -> Threads \union {NULL}]
    /\ at \in [Threads -> Places] /\ own \in [Threads -> LocalsType]
    /\ paths \in Nat

\* A thread that probes is after a file of a registered table, and the path stays.
Busy == \A th \in Threads : at[th] # "out" =>
            /\ phase # "idle"
            /\ own[th].table \in Tables /\ own[th].kind \in Kinds
            /\ table[own[th].table] \in Files

\* A mutex is held by the thread that is between taking it and giving it back.
Holding == {"map", "record", "set", "link", "publish", "unlock"}
Locked == \A th \in Threads, k \in Kinds :
              mutex[k] = th <=> at[th] \in Holding /\ own[th].kind = k

\* What a mapping that is offered comes with.
Whole(f) == f.base # NULL => f.parsed /\ f.base \in live /\ f.parts # {} /\ f.parts \subseteq live

\* A published file is whole, was mapped once, and its answer never varied.  One that is
\* not yet has given none, and was not mapped unless the mutex is held for it.
FileKept(t, k) ==
    LET f == table[t][k] h == mutex[k] IN
    /\ f.tries <= 1
    /\ f.ready => Whole(f) /\ f.said \subseteq {f.base # NULL}
    /\ ~f.ready => /\ f.said = {}
                   /\ f.tries # 0 => /\ h \in Threads /\ own[h].table = t
                                     /\ at[h] \in {"record", "set", "link", "publish"}
FilesKept == \A t \in Tables, k \in Kinds : table[t] \in Files => FileKept(t, k)

\* What a thread at place p with locals l knows of its file f.
Knows(p, l, f) ==
    /\ p \in {"map", "record", "set", "link", "publish"} => ~f.ready
    /\ p \in {"record", "set", "link"} => l.base \in live
    /\ p = "link" => l.block \in live /\ l.block \in Blocks
    /\ p = "publish" => Whole(f)
    /\ p \in {"unlock", "use"} => f.ready /\ l.answer = (f.base # NULL)
AllKnow == \A th \in Threads : at[th] # "out" => Knows(at[th], own[th], File(th))

IInv == TypeOK /\ Busy /\ Locked /\ FilesKept /\ AllKnow

---------------------------------------------------------------------------
(* Steps of one thread, and of one file *)

LEMMA OwnSet ==
  ASSUME TypeOK, NEW th \in Threads, NEW p \in Places, NEW l \in LocalsType, Become(th, p, l)
  PROVE  /\ at' \in [Threads -> Places] /\ own' \in [Threads -> LocalsType]
         /\ at'[th] = p /\ own'[th] = l
         /\ \A o \in Threads \ {th} : at'[o] = at[o] /\ own'[o] = own[o]
  BY DEF TypeOK, Become

Put(t, k, g) == table' = [table EXCEPT ![t][k] = g]

LEMMA FileSet ==
  ASSUME TypeOK, NEW t \in Tables, NEW k \in Kinds, table[t] \in Files, NEW g \in FileType,
         Put(t, k, g)
  PROVE  /\ table' \in [Tables -> Files \union {NULL}]
         /\ \A u \in Tables : table'[u] \in Files <=> table[u] \in Files
         /\ \A u \in Tables, j \in Kinds : table[u] \in Files =>
                table'[u][j] = IF u = t /\ j = k THEN g ELSE table[u][j]
  <1> DEFINE G == [table[t] EXCEPT ![k] = g]
  <1>1. G \in Files /\ \A j \in Kinds : G[j] = IF j = k THEN g ELSE table[t][j]
    BY DEF Files
  <1>2. table' = [table EXCEPT ![t] = G]
    BY DEF Put
  <1> HIDE DEF G
  <1> QED BY <1>1, <1>2 DEF TypeOK

\* What a thread is after, while it is after something.
LEMMA FileTyped ==
  ASSUME IInv, NEW th \in Threads, at[th] # "out"
  PROVE  /\ own[th] \in LocalsType /\ own[th].table \in Tables /\ own[th].kind \in Kinds
         /\ table[own[th].table] \in Files /\ File(th) \in FileType
         /\ phase # "idle"
  BY DEF IInv, TypeOK, Busy, File, Files

\* A step that leaves the files as they are.
\* What a thread knows stays true while its place, its locals and the files do.
LEMMA StillKnown ==
  ASSUME IInv, UNCHANGED <<table, live>>, NEW o \in Threads, at'[o] = at[o], own'[o] = own[o],
         at'[o] # "out"
  PROVE  Knows(at[o], own[o], File(o))'
  <1>1. Knows(at[o], own[o], File(o))
    BY DEF IInv, AllKnow
  <1>2. File(o)' = File(o)
    BY DEF File
  <1> QED BY <1>1, <1>2 DEF Knows, Whole

LEMMA LocalStep ==
  ASSUME IInv, NEW th \in Threads, NEW p \in Places, NEW l \in LocalsType,
         Become(th, p, l), table' = table, live' = live, phase' = phase, phase # "idle",
         p # "out" => (/\ l.table \in Tables /\ l.kind \in Kinds /\ table[l.table] \in Files
                       /\ Knows(p, l, table[l.table][l.kind]))
  PROVE  Busy' /\ AllKnow'
  <1>1. \A o \in Threads \ {th} : at'[o] = at[o] /\ own'[o] = own[o]
    BY OwnSet DEF IInv
  <1>2. at'[th] = p /\ own'[th] = l
    BY OwnSet DEF IInv
  <1>3. Busy'
    BY <1>1, <1>2 DEF IInv, Busy
  <1>4. ASSUME NEW o \in Threads, at'[o] # "out"
        PROVE  Knows(at[o], own[o], File(o))'
    <2>1. CASE o = th
      BY <1>2, <1>4, <2>1 DEF Knows, File, Whole
    <2>2. CASE o # th
      BY <1>1, <1>4, <2>2, StillKnown
    <2> QED BY <2>1, <2>2
  <1> QED BY <1>3, <1>4 DEF AllKnow

\* A step of the thread that holds the mutex, on its file.
Mapping == {"map", "record", "set", "link", "publish"}
LEMMA HolderStep ==
  ASSUME IInv, NEW th \in Threads, at[th] \in Mapping,
         NEW p \in {"record", "set", "link", "publish", "unlock"},
         NEW l \in LocalsType, NEW g \in FileType,
         l.table = own[th].table, l.kind = own[th].kind,
         Become(th, p, l), SetFile(th, g), mutex' = mutex, phase' = phase, live \subseteq live',
         g.tries <= 1, g.said = {},
         p # "unlock" => ~g.ready,
         p = "unlock" => (g.ready /\ l.answer = (g.base # NULL)),
         p \in {"record", "set", "link"} => l.base \in live',
         p = "link" => (l.block \in live' /\ l.block \in Blocks),
         (p \in {"publish", "unlock"} /\ g.base # NULL) =>
             (g.parsed /\ g.base \in live' /\ g.parts # {} /\ g.parts \subseteq live')
  PROVE  /\ table' \in [Tables -> Files \union {NULL}]
         /\ at' \in [Threads -> Places] /\ own' \in [Threads -> LocalsType]
         /\ Busy' /\ Locked' /\ FilesKept' /\ AllKnow'
  <1> DEFINE t == own[th].table
             k == own[th].kind
  <1>1. t \in Tables /\ k \in Kinds /\ table[t] \in Files /\ phase # "idle"
    BY FileTyped DEF Mapping
  <1>2. TypeOK /\ p \in Places
    BY DEF IInv, Places
  <1>3. /\ at' \in [Threads -> Places] /\ own' \in [Threads -> LocalsType]
        /\ at'[th] = p /\ own'[th] = l
        /\ \A o \in Threads \ {th} : at'[o] = at[o] /\ own'[o] = own[o]
    BY <1>2, OwnSet
  <1>4. Put(t, k, g)
    BY DEF SetFile, Put
  <1>5. ~table[t][k].ready
    BY DEF IInv, AllKnow, Knows, Mapping, File
  <1>6. l.table = t /\ l.kind = k
    OBVIOUS
  <1>7. \A j \in Kinds : mutex[j] = th <=> j = k
    BY <1>1 DEF IInv, Locked, Holding, Mapping
  <1> HIDE DEF t, k
  <1>8. /\ table' \in [Tables -> Files \union {NULL}]
        /\ \A u \in Tables : table'[u] \in Files <=> table[u] \in Files
        /\ \A u \in Tables, j \in Kinds : table[u] \in Files =>
                table'[u][j] = IF u = t /\ j = k THEN g ELSE table[u][j]
    BY <1>1, <1>2, <1>4, FileSet
  <1>9. Busy'
    BY <1>1, <1>3, <1>8, <1>6 DEF IInv, Busy
  <1>10. Locked'
    <2> SUFFICES ASSUME NEW o \in Threads, NEW j \in Kinds
                 PROVE mutex[j] = o <=> at'[o] \in Holding /\ own'[o].kind = j
      BY DEF Locked
    <2>1. CASE o = th
      BY <1>3, <1>6, <1>7, <2>1 DEF Holding
    <2>2. CASE o # th
      BY <1>3, <2>2 DEF IInv, Locked
    <2> QED BY <2>1, <2>2
  <1>11. FilesKept'
    <2> SUFFICES ASSUME NEW u \in Tables, NEW j \in Kinds, table'[u] \in Files
                 PROVE FileKept(u, j)'
      BY DEF FilesKept
    <2>1. CASE u = t /\ j = k
      <3>1. table'[u][j] = g /\ mutex'[j] = th
        BY <1>8, <1>7, <2>1
      <3> QED BY <1>3, <1>6, <2>1, <3>1 DEF FileKept, Whole
    <2>2. CASE ~(u = t /\ j = k)
      <3> DEFINE f == table[u][j]
                 h == mutex[j]
      <3>1. table'[u][j] = f /\ FileKept(u, j) /\ mutex'[j] = h
        BY <1>8, <2>2 DEF IInv, FilesKept
      <3>2. ASSUME ~f.ready, f.tries # 0
            PROVE  h \in Threads \ {th}
        BY <1>7, <2>2, <3>1, <3>2 DEF FileKept, t
      <3> QED BY <1>3, <3>1, <3>2 DEF FileKept, Whole
    <2> QED BY <2>1, <2>2
  <1>12. ASSUME NEW o \in Threads, at'[o] # "out"
         PROVE  Knows(at[o], own[o], File(o))'
    <2>1. CASE o = th
      <3>1. File(o)' = g
        BY <1>1, <1>3, <1>8, <1>6, <2>1 DEF File
      <3> QED BY <1>3, <2>1, <3>1 DEF Knows, Whole
    <2>2. CASE o # th
      <3>1. at'[o] = at[o] /\ own'[o] = own[o]
        BY <1>3, <2>2
      <3>2. /\ own[o].table \in Tables /\ own[o].kind \in Kinds /\ table[own[o].table] \in Files
            /\ at[o] \in Places /\ Knows(at[o], own[o], File(o))
        BY <3>1, <1>12, FileTyped DEF TypeOK, IInv, AllKnow
      <3>3. CASE at[o] = "lock"
        BY <3>1, <3>3 DEF Knows
      <3>4. CASE at[o] # "lock"
        <4>1. ~(own[o].table = t /\ own[o].kind = k)
          <5> SUFFICES ASSUME own[o].table = t, own[o].kind = k PROVE FALSE
            OBVIOUS
          <5>1. at[o] \notin Holding
            BY <1>1, <1>7, <2>2 DEF IInv, Locked
          <5>2. at[o] = "use"
            BY <1>12, <3>1, <3>2, <3>4, <5>1 DEF Places, Holding
          <5> QED BY <1>5, <3>2, <5>2 DEF Knows, File
        <4>2. File(o)' = File(o)
          BY <1>8, <3>1, <3>2, <4>1 DEF File
        <4> QED BY <3>1, <3>2, <4>2 DEF Knows, Whole
      <3> QED BY <3>3, <3>4
    <2> QED BY <2>1, <2>2
  <1> QED BY <1>3, <1>8, <1>9, <1>10, <1>11, <1>12 DEF AllKnow

\* A step that leaves the files and the mutexes as they are, of a thread that holds none.
LEMMA FreeStep ==
  ASSUME IInv, NEW th \in Threads, NEW p \in Places, NEW l \in LocalsType,
         Become(th, p, l), table' = table, live' = live, mutex' = mutex,
         at[th] \notin Holding, p \notin Holding
  PROVE  Locked' /\ FilesKept'
  <1>1. \A o \in Threads \ {th} : at'[o] = at[o] /\ own'[o] = own[o]
    BY OwnSet DEF IInv
  <1>2. at'[th] = p /\ own'[th] = l
    BY OwnSet DEF IInv
  <1>3. Locked'
    <2> SUFFICES ASSUME NEW o \in Threads, NEW j \in Kinds
                 PROVE mutex[j] = o <=> at'[o] \in Holding /\ own'[o].kind = j
      BY DEF Locked
    <2>1. CASE o = th
      BY <1>2, <2>1 DEF IInv, Locked
    <2>2. CASE o # th
      BY <1>1, <2>2 DEF IInv, Locked
    <2> QED BY <2>1, <2>2
  <1>4. ASSUME NEW u \in Tables, NEW j \in Kinds, table[u] \in Files
        PROVE  FileKept(u, j)'
    <2>1. FileKept(u, j)
      BY <1>4 DEF IInv, FilesKept
    <2>2. mutex[j] # th
      BY DEF IInv, Locked
    <2> QED BY <1>1, <2>1, <2>2 DEF FileKept, Whole
  <1> QED BY <1>3, <1>4 DEF FilesKept

---------------------------------------------------------------------------
(* The actions *)

LEMMA SetPathKeeps == ASSUME IInv, SetPath PROVE IInv'
  <1>1. \A th \in Threads : at[th] = "out"
    BY DEF IInv, Busy, SetPath
  <1>2. path' \in Seq(Dirs)
    BY PathAssumption DEF SetPath
  <1>3. paths' \in Nat
    BY DEF IInv, TypeOK, SetPath
  <1>4. NewFile \in FileType
    BY DEF NewFile, FileType, Base
  <1>5. PICK A \in SUBSET Tables :
              /\ table' = [t \in Tables |-> IF t \in A THEN [k \in Kinds |-> NewFile] ELSE NULL]
              /\ chunks' = {Block(t, "both", "table") : t \in A}
              /\ live' = (live \ chunks) \union {Block(t, "both", "table") : t \in A}
    BY DEF SetPath
  <1>6. \A t \in Tables : <<paths', t, "both", "table">> \in Base
    BY <1>3 DEF Base, Blocks
  <1>7. chunks' \subseteq Base /\ live' \subseteq Base
    BY <1>5, <1>6 DEF Block, IInv, TypeOK
  <1>8. table' \in [Tables -> Files \union {NULL}]
    BY <1>4, <1>5 DEF Files
  <1>9. TypeOK'
    BY <1>2, <1>3, <1>7, <1>8 DEF IInv, TypeOK, SetPath
  <1>10. Busy' /\ AllKnow' /\ Locked'
    BY <1>1 DEF IInv, Busy, AllKnow, Locked, SetPath
  <1>11. ASSUME NEW t \in Tables, NEW k \in Kinds, table'[t] \in Files
         PROVE  FileKept(t, k)'
    BY <1>5, <1>11, NullAssumption DEF FileKept, NewFile
  <1> QED BY <1>9, <1>10, <1>11 DEF IInv, FilesKept

LEMMA CourseKeeps == ASSUME IInv, Go \/ Dispatch \/ SearchEnds PROVE IInv'
  <1>1. /\ UNCHANGED <<disk, path, table, chunks, live, mutex, at, own, refusals, paths>>
        /\ phase' \in {"idle", "rank", "search"} /\ inTree' \in BOOLEAN
        /\ phase' = "idle" => \A th \in Threads : at[th] = "out"
        /\ phase' # "idle" \/ \A th \in Threads : at[th] = "out"
    BY DEF IInv, TypeOK, Go, Dispatch, SearchEnds
  <1>2. TypeOK' /\ Busy'
    BY <1>1 DEF IInv, TypeOK, Busy
  <1>3. Locked'
    BY <1>1 DEF IInv, Locked
  <1>4. FilesKept'
    <2> SUFFICES ASSUME NEW t \in Tables, NEW k \in Kinds, table'[t] \in Files
                 PROVE  FileKept(t, k)'
      BY DEF FilesKept
    <2>1. FileKept(t, k)
      BY <1>1 DEF IInv, FilesKept
    <2> QED BY <1>1, <2>1 DEF FileKept, Whole
  <1>5. AllKnow'
    BY <1>1, StillKnown DEF AllKnow
  <1> QED BY <1>2, <1>3, <1>4, <1>5 DEF IInv

\* The locals of a thread that begins to ask.
LEMMA AskLocals ==
  ASSUME NEW t \in Tables, NEW k \in Kinds
  PROVE  LET l == [NoLocals EXCEPT !.table = t, !.kind = k] IN
         l \in LocalsType /\ l.table = t /\ l.kind = k
  BY DEF NoLocals, LocalsType, Base, FileStates

LEMMA AnswerSet ==
  ASSUME NEW l \in LocalsType, NEW v \in BOOLEAN
  PROVE  LET a == [l EXCEPT !.answer = v] IN
         a \in LocalsType /\ a.answer = v /\ a.table = l.table /\ a.kind = l.kind
  BY DEF LocalsType

LEMMA Answering ==
  ASSUME NEW l \in LocalsType, NEW b
  PROVE  LET a == [l EXCEPT !.answer = (b # NULL)] IN
         /\ a \in LocalsType /\ a.answer = (b # NULL)
         /\ a.table = l.table /\ a.kind = l.kind
  <1> DEFINE v == b # NULL
  <1>1. v \in BOOLEAN
    OBVIOUS
  <1>2. LET a == [l EXCEPT !.answer = v] IN
         a \in LocalsType /\ a.answer = v /\ a.table = l.table /\ a.kind = l.kind
    <2> HIDE DEF v
    <2> QED BY <1>1, AnswerSet
  <1> QED BY <1>2

LEMMA AskKeeps == ASSUME IInv, NEW th \in Threads, Ask(th) PROVE IInv'
  <1>1. PICK t \in Tables, k \in Kinds :
              /\ table[t] # NULL /\ Asks(th, t, k)
              /\ IF table[t][k].ready
                 THEN Become(th, "use", [[NoLocals EXCEPT !.table = t, !.kind = k]
                                            EXCEPT !.answer = table[t][k].base # NULL])
                 ELSE Become(th, "lock", [NoLocals EXCEPT !.table = t, !.kind = k])
    BY DEF Ask
  <1> DEFINE l == [NoLocals EXCEPT !.table = t, !.kind = k]
             f == table[t][k]
             a == [l EXCEPT !.answer = (f.base # NULL)]
  <1>2. table[t] \in Files /\ f \in FileType /\ f.base \in Base
    BY <1>1 DEF IInv, TypeOK, Files, FileType
  <1>3. l \in LocalsType /\ l.table = t /\ l.kind = k
    BY AskLocals
  <1>4. a \in LocalsType /\ a.answer = (f.base # NULL) /\ a.table = t /\ a.kind = k
    <2> HIDE DEF l, f
    <2>1. \A b : LET e == [l EXCEPT !.answer = (b # NULL)] IN
              /\ e \in LocalsType /\ e.answer = (b # NULL)
              /\ e.table = l.table /\ e.kind = l.kind
      BY <1>3, Answering
    <2> QED BY <1>3, <2>1, Zenon DEF a
  <1>5. phase # "idle" /\ at[th] = "out"
    BY <1>1 DEF Ask, Asks
  <1>6. UNCHANGED <<disk, path, phase, inTree, table, chunks, live, mutex, refusals, paths>>
    BY DEF Ask
  <1>7. PICK p \in {"use", "lock"}, m \in {l, a} :
              Become(th, p, m) /\ (p = "use" => f.ready /\ m = a)
    <2>1. CASE f.ready
      BY <1>1, <2>1
    <2>2. CASE ~f.ready
      BY <1>1, <2>2
    <2> QED BY <2>1, <2>2
  <1>8. m \in LocalsType /\ m.table = t /\ m.kind = k /\ (p = "use" => m.answer = (f.base # NULL))
    BY <1>3, <1>4, <1>7
  <1> HIDE DEF l, a, f
  <1>9. p \in Places /\ p # "out" /\ p \notin Holding /\ at[th] \notin Holding
    BY <1>5, <1>7 DEF Places, Holding
  <1>10. Knows(p, m, f)
    BY <1>7, <1>8 DEF Knows
  <1>11. Busy' /\ AllKnow'
    <2>1. Knows(p, m, table[m.table][m.kind]) /\ table[m.table] \in Files
      BY <1>2, <1>8, <1>10 DEF f
    <2>2. m.table \in Tables /\ m.kind \in Kinds
      BY <1>8
    <2>3. Become(th, p, m)
      BY <1>7
    <2> QED BY <1>5, <1>6, <1>8, <1>9, <2>1, <2>2, <2>3, LocalStep
  <1>12. Locked' /\ FilesKept'
    BY <1>6, <1>7, <1>8, <1>9, FreeStep
  <1>13. at' \in [Threads -> Places] /\ own' \in [Threads -> LocalsType]
    BY <1>7, <1>8, <1>9, OwnSet DEF IInv
  <1>14. TypeOK'
    BY <1>6, <1>13 DEF IInv, TypeOK
  <1> QED BY <1>11, <1>12, <1>14 DEF IInv

\* The mutex is free: nobody is between taking and giving it back, and no file it guards was
\* mapped and not published.
LEMMA LockKeeps == ASSUME IInv, NEW th \in Threads, Lock(th) PROVE IInv'
  <1> DEFINE l == own[th]
             k == own[th].kind
             f == File(th)
             a == [l EXCEPT !.answer = (f.base # NULL)]
  <1>1. /\ l \in LocalsType /\ l.table \in Tables /\ k \in Kinds
        /\ table[l.table] \in Files /\ f \in FileType /\ phase # "idle"
    BY FileTyped DEF Lock
  <1>2. /\ UNCHANGED <<disk, path, phase, inTree, table, chunks, live, refusals, paths>>
        /\ at[th] = "lock" /\ mutex[k] = NULL /\ at[th] \notin Holding
    BY DEF Lock, Holding
  <1>3. CASE f.ready
    <2>1. Become(th, "use", a) /\ mutex' = mutex
      BY <1>3 DEF Lock
    <2>2. a \in LocalsType /\ a.answer = (f.base # NULL) /\ a.table = l.table /\ a.kind = k
      <3> HIDE DEF f
      <3>1. \A b : LET e == [l EXCEPT !.answer = (b # NULL)] IN
                /\ e \in LocalsType /\ e.answer = (b # NULL)
                /\ e.table = l.table /\ e.kind = l.kind
        BY <1>1, Answering
      <3> QED BY <3>1, Zenon DEF a
    <2> HIDE DEF a
    <2>3. "use" \in Places /\ "use" \notin Holding
      BY DEF Places, Holding
    <2>4. Knows("use", a, f)
      BY <1>3, <2>2 DEF Knows
    <2>5. Busy' /\ AllKnow'
      BY <1>1, <1>2, <2>1, <2>2, <2>3, <2>4, LocalStep DEF File
    <2>6. Locked' /\ FilesKept'
      BY <1>2, <2>1, <2>2, <2>3, FreeStep
    <2>7. at' \in [Threads -> Places] /\ own' \in [Threads -> LocalsType]
      BY <2>1, <2>2, <2>3, OwnSet DEF IInv
    <2>8. TypeOK'
      BY <1>2, <2>1, <2>7 DEF IInv, TypeOK
    <2> QED BY <2>5, <2>6, <2>8 DEF IInv
  <1>4. CASE ~f.ready
    <2>1. Become(th, "map", l) /\ mutex' = [mutex EXCEPT ![k] = th]
      BY <1>4 DEF Lock
    <2>2. "map" \in Places /\ "map" \in Holding
      BY DEF Places, Holding
    <2>3. Knows("map", l, f)
      BY <1>4 DEF Knows
    <2>4. Busy' /\ AllKnow'
      BY <1>1, <1>2, <2>1, <2>2, <2>3, LocalStep DEF File
    <2>5. /\ at' \in [Threads -> Places] /\ own' \in [Threads -> LocalsType]
          /\ at'[th] = "map" /\ own'[th] = l
          /\ \A o \in Threads \ {th} : at'[o] = at[o] /\ own'[o] = own[o]
      BY <1>1, <2>1, <2>2, OwnSet DEF IInv
    <2>6. /\ mutex' \in [Kinds -> Threads \union {NULL}]
          /\ mutex'[k] = th /\ \A j \in Kinds \ {k} : mutex'[j] = mutex[j]
      BY <1>1, <2>1 DEF IInv, TypeOK
    <2>7. TypeOK'
      BY <1>2, <2>5, <2>6 DEF IInv, TypeOK
    <2>8. \A j \in Kinds : mutex[j] # th
      BY <1>2 DEF IInv, Locked
    <2>9. \A o \in Threads : ~(at[o] \in Holding /\ own[o].kind = k)
      BY <1>1, <1>2, NullAssumption DEF IInv, Locked
    <2> HIDE DEF l, k, f
    <2>10. Locked'
      <3> SUFFICES ASSUME NEW o \in Threads, NEW j \in Kinds
                   PROVE mutex'[j] = o <=> at'[o] \in Holding /\ own'[o].kind = j
        BY DEF Locked
      <3>1. CASE o = th
        BY <2>2, <2>5, <2>6, <2>8, <3>1 DEF l, k
      <3>2. CASE o # th
        <4>1. mutex[j] = o <=> at[o] \in Holding /\ own[o].kind = j
          BY DEF IInv, Locked
        <4> QED BY <2>5, <2>6, <2>9, <3>2, <4>1
      <3> QED BY <3>1, <3>2
    <2>11. ASSUME NEW u \in Tables, NEW j \in Kinds, table[u] \in Files
           PROVE  FileKept(u, j)'
      <3>1. FileKept(u, j)
        BY <2>11 DEF IInv, FilesKept
      <3>2. CASE j = k
        BY <1>2, <3>1, <3>2, NullAssumption DEF FileKept, Whole
      <3>3. CASE j # k
        BY <1>2, <2>5, <2>6, <2>8, <3>1, <3>3 DEF FileKept, Whole
      <3> QED BY <3>2, <3>3
    <2>12. FilesKept'
      BY <1>2, <2>11 DEF FilesKept
    <2> QED BY <2>4, <2>7, <2>10, <2>12 DEF IInv
  <1> QED BY <1>3, <1>4

\* The edits of a file and of the locals, field by field.
LEMMA TriesEdit ==
  ASSUME NEW f \in FileType
  PROVE  LET g == [f EXCEPT !.tries = @ + 1] IN
         /\ g \in FileType /\ g.tries = f.tries + 1 /\ g.base = f.base
         /\ g.ready = f.ready /\ g.said = f.said
  BY DEF FileType

LEMMA BaseEdit ==
  ASSUME NEW f \in FileType, NEW b \in Base
  PROVE  LET g == [f EXCEPT !.base = b] IN
         /\ g \in FileType /\ g.base = b /\ g.tries = f.tries
         /\ g.ready = f.ready /\ g.said = f.said
  BY Zenon DEF FileType

LEMMA RecordsEdit ==
  ASSUME NEW f \in FileType, NEW v \in BOOLEAN, NEW q \in SUBSET Blocks
  PROVE  /\ LET g == [f EXCEPT !.parsed = v, !.parts = q] IN
            g \in FileType /\ g.tries = f.tries /\ g.ready = f.ready /\ g.said = f.said
         /\ \A b \in Base :
            LET g == [f EXCEPT !.base = b, !.parsed = v, !.parts = q] IN
            /\ g \in FileType /\ g.base = b /\ g.parsed = v /\ g.parts = q
            /\ g.tries = f.tries /\ g.ready = f.ready /\ g.said = f.said
  <1>1. LET g == [f EXCEPT !.parsed = v, !.parts = q] IN
        g \in FileType /\ g.tries = f.tries /\ g.ready = f.ready /\ g.said = f.said
    BY Zenon DEF FileType
  <1>2. ASSUME NEW b \in Base
        PROVE LET g == [f EXCEPT !.base = b, !.parsed = v, !.parts = q] IN
              /\ g \in FileType /\ g.base = b /\ g.parsed = v /\ g.parts = q
              /\ g.tries = f.tries /\ g.ready = f.ready /\ g.said = f.said
    BY Zenon DEF FileType
  <1> QED BY <1>1, <1>2

LEMMA ReadyEdit ==
  ASSUME NEW f \in FileType
  PROVE  LET g == [f EXCEPT !.ready = TRUE] IN
         /\ g \in FileType /\ g.ready = TRUE /\ g.base = f.base /\ g.parsed = f.parsed
         /\ g.parts = f.parts /\ g.tries = f.tries /\ g.said = f.said
  BY Zenon DEF FileType

LEMMA SaidEdit ==
  ASSUME NEW f \in FileType, NEW said \in SUBSET BOOLEAN
  PROVE  LET g == [f EXCEPT !.said = said] IN
         /\ g \in FileType /\ g.said = said /\ g.ready = f.ready /\ g.base = f.base
         /\ g.parsed = f.parsed /\ g.parts = f.parts /\ g.tries = f.tries
  BY Zenon DEF FileType

LEMMA MappingEdit ==
  ASSUME NEW l \in LocalsType, NEW b \in Base, NEW h \in SUBSET Base, NEW s \in FileStates
  PROVE  LET m == [l EXCEPT !.base = b, !.block = b, !.head = h, !.found = s] IN
         /\ m \in LocalsType /\ m.table = l.table /\ m.kind = l.kind
         /\ m.base = b /\ m.block = b
  BY DEF LocalsType

LEMMA BlockEdit ==
  ASSUME NEW l \in LocalsType, NEW b \in Base, NEW h \in SUBSET Base
  PROVE  LET m == [l EXCEPT !.block = b, !.head = h] IN
         /\ m \in LocalsType /\ m.table = l.table /\ m.kind = l.kind
         /\ m.base = l.base /\ m.block = b
  BY DEF LocalsType

\* What the thread that maps a file knows of it.
LEMMA Mine ==
  ASSUME IInv, NEW th \in Threads, at[th] \in Mapping
  PROVE  /\ own[th] \in LocalsType /\ own[th].table \in Tables /\ own[th].kind \in Kinds
         /\ table[own[th].table] \in Files /\ File(th) \in FileType /\ phase # "idle"
         /\ FileKept(own[th].table, own[th].kind) /\ Knows(at[th], own[th], File(th))
         /\ mutex[own[th].kind] = th
         /\ ~File(th).ready /\ File(th).tries <= 1 /\ File(th).said = {}
         /\ at[th] = "map" => File(th).tries = 0
  <1>1. /\ own[th] \in LocalsType /\ own[th].table \in Tables /\ own[th].kind \in Kinds
        /\ table[own[th].table] \in Files /\ File(th) \in FileType /\ phase # "idle"
    BY FileTyped DEF Mapping
  <1>2. FileKept(own[th].table, own[th].kind) /\ Knows(at[th], own[th], File(th))
    <2>1. FileKept(own[th].table, own[th].kind)
      BY <1>1 DEF IInv, FilesKept
    <2>2. at[th] # "out"
      BY DEF Mapping
    <2>3. Knows(at[th], own[th], File(th))
      BY <2>2 DEF IInv, AllKnow
    <2> QED BY <2>1, <2>3
  <1>3. mutex[own[th].kind] = th
    BY <1>1 DEF IInv, Locked, Holding, Mapping
  <1>4. ~File(th).ready
    BY <1>2, Zenon DEF Knows, Mapping
  <1>5. File(th).tries <= 1 /\ File(th).said = {} /\ (at[th] = "map" => File(th).tries = 0)
    BY <1>2, <1>3, <1>4 DEF FileKept, File
  <1> QED BY <1>1, <1>2, <1>3, <1>4, <1>5

\* The mapping, or a block of the records.
LEMMA BlockTyped ==
  ASSUME IInv, NEW th \in Threads, at[th] \in Mapping, NEW what \in {"mapping", "records"}
  PROVE  <<paths, own[th].table, own[th].kind, what>> \in Blocks
  <1>1. own[th].table \in Tables /\ own[th].kind \in Kinds /\ paths \in Nat
    BY Mine DEF IInv, TypeOK
  <1> QED BY <1>1 DEF Blocks

LEMMA MapFileKeeps == ASSUME IInv, NEW th \in Threads, MapFile(th) PROVE IInv'
  <1> DEFINE f    == File(th)
             file == [f EXCEPT !.tries = @ + 1]
             none == [file EXCEPT !.base = NULL]
             map  == <<paths, own[th].table, own[th].kind, "mapping">>
  <1>1. /\ at[th] = "map" /\ at[th] \in Mapping
        /\ UNCHANGED <<disk, path, phase, inTree, chunks, mutex, paths>>
    BY DEF MapFile, Mapping
  <1>2. own[th] \in LocalsType /\ f \in FileType /\ ~f.ready /\ f.tries = 0 /\ f.said = {}
    BY <1>1, Mine
  <1>3. map \in Base
    BY <1>1, BlockTyped DEF Base
  <1> HIDE DEF f
  <1>4. /\ file \in FileType /\ file.tries = 1 /\ ~file.ready /\ file.said = {}
    BY <1>2, TriesEdit DEF FileType
  <1> HIDE DEF file
  <1>5. none \in FileType /\ none.base = NULL /\ none.tries = 1 /\ ~none.ready /\ none.said = {}
    <2>1. NULL \in Base
      BY DEF Base
    <2> QED BY <1>4, <2>1, BaseEdit
  <1> HIDE DEF none
  <1>6. CASE /\ SetFile(th, none) /\ Become(th, "publish", own[th]) /\ live' = live
    <2>1. /\ table' \in [Tables -> Files \union {NULL}]
          /\ at' \in [Threads -> Places] /\ own' \in [Threads -> LocalsType]
          /\ Busy' /\ Locked' /\ FilesKept' /\ AllKnow'
      BY <1>1, <1>2, <1>5, <1>6, HolderStep
    <2> QED BY <1>1, <1>6, <2>1 DEF IInv, TypeOK
  <1>7. ASSUME NEW i \in DOMAIN path,
               SetFile(th, file), live' = live \union {map},
               Become(th, "record", [own[th] EXCEPT !.base = map, !.block = map, !.head = chunks,
                                        !.found = disk[<<own[th].table, own[th].kind, path[i]>>]])
        PROVE  IInv'
    <2> DEFINE s == disk[<<own[th].table, own[th].kind, path[i]>>]
               l == [own[th] EXCEPT !.base = map, !.block = map, !.head = chunks, !.found = s]
    <2>1. s \in FileStates
      <3>1. path[i] \in Dirs /\ own[th].table \in Tables /\ own[th].kind \in Kinds
        BY <1>1, Mine DEF IInv, TypeOK
      <3> QED BY <3>1 DEF IInv, TypeOK
    <2> HIDE DEF s, map
    <2>2. /\ l \in LocalsType /\ l.table = own[th].table /\ l.kind = own[th].kind
          /\ l.base = map /\ l.block = map
      <3>1. map \in Base /\ chunks \in SUBSET Base
        BY <1>3 DEF map, IInv, TypeOK
      <3>2. own[th] \in LocalsType
        BY <1>2
      <3> QED BY <2>1, <3>1, <3>2 DEF LocalsType
    <2>3. Become(th, "record", l)
      BY <1>7 DEF s
    <2> HIDE DEF l
    <2>4. l.base \in live' /\ live \subseteq live'
      BY <1>7, <2>2
    <2>5. /\ table' \in [Tables -> Files \union {NULL}]
          /\ at' \in [Threads -> Places] /\ own' \in [Threads -> LocalsType]
          /\ Busy' /\ Locked' /\ FilesKept' /\ AllKnow'
      BY <1>1, <1>2, <1>4, <1>7, <2>2, <2>3, <2>4, HolderStep
    <2>6. live' \subseteq Base
      BY <1>3, <1>7 DEF IInv, TypeOK
    <2> QED BY <1>1, <2>5, <2>6 DEF IInv, TypeOK
  <1>8. \/ SetFile(th, none) /\ Become(th, "publish", own[th]) /\ live' = live
        \/ \E i \in DOMAIN path :
             /\ SetFile(th, file) /\ live' = live \union {map}
             /\ Become(th, "record", [own[th] EXCEPT !.base = map, !.block = map, !.head = chunks,
                                      !.found = disk[<<own[th].table, own[th].kind, path[i]>>]])
    BY DEF MapFile, f, file, none
  <1> QED BY <1>6, <1>7, <1>8

LEMMA RecordMappingKeeps == ASSUME IInv, NEW th \in Threads, RecordMapping(th) PROVE IInv'
  <1> DEFINE l == own[th]
             f == File(th)
  <1>1. /\ at[th] = "record" /\ at[th] \in Mapping
        /\ Become(th, "set", l) /\ table' = table
        /\ chunks' = l.head \union {l.block}
        /\ UNCHANGED <<disk, path, phase, inTree, live, mutex, refusals, paths>>
    BY DEF RecordMapping, Link, Mapping
  <1>2. /\ l \in LocalsType /\ l.table \in Tables /\ l.kind \in Kinds
        /\ table[l.table] \in Files /\ f \in FileType
        /\ ~f.ready /\ f.tries <= 1 /\ f.said = {} /\ Knows("record", l, f)
    BY <1>1, Mine
  <1>3. l.base \in live' /\ chunks' \subseteq Base
    BY <1>1, <1>2 DEF Knows, LocalsType
  <1>4. SetFile(th, f)
    <2>1. [table[l.table] EXCEPT ![l.kind] = table[l.table][l.kind]] = table[l.table]
      BY <1>2 DEF Files
    <2>2. [table EXCEPT ![l.table] = table[l.table]] = table
      BY DEF IInv, TypeOK
    <2> QED BY <1>1, <2>1, <2>2 DEF SetFile, File
  <1> HIDE DEF l, f
  <1>5. Become(th, "set", l) /\ l.table = own[th].table /\ l.kind = own[th].kind
    BY <1>1 DEF l
  <1>6. /\ table' \in [Tables -> Files \union {NULL}]
        /\ at' \in [Threads -> Places] /\ own' \in [Threads -> LocalsType]
        /\ Busy' /\ Locked' /\ FilesKept' /\ AllKnow'
    BY <1>1, <1>2, <1>3, <1>4, <1>5, HolderStep
  <1> QED BY <1>1, <1>3, <1>6 DEF IInv, TypeOK

LEMMA SetBeginsKeeps == ASSUME IInv, NEW th \in Threads, SetBegins(th) PROVE IInv'
  <1> DEFINE l == own[th]
             f == File(th)
             block == <<paths, l.table, l.kind, "records">>
             none == [f EXCEPT !.base = NULL, !.parsed = FALSE, !.parts = {}]
             bare == [f EXCEPT !.parsed = FALSE, !.parts = {}]
             m == [l EXCEPT !.block = block, !.head = chunks]
  <1>1. /\ at[th] = "set" /\ at[th] \in Mapping
        /\ UNCHANGED <<disk, path, phase, inTree, chunks, mutex, paths>>
    BY DEF SetBegins, Mapping
  <1>2. /\ l \in LocalsType /\ l.table \in Tables /\ l.kind \in Kinds
        /\ table[l.table] \in Files /\ f \in FileType
        /\ ~f.ready /\ f.tries <= 1 /\ f.said = {} /\ Knows("set", l, f)
    BY <1>1, Mine
  <1>3. block \in Blocks /\ block \in Base
    BY <1>1, BlockTyped DEF Base
  <1>4. \/ SetFile(th, none) /\ Become(th, "publish", l) /\ live' = live
        \/ SetFile(th, bare) /\ Become(th, "link", m) /\ live' = live \union {block}
    BY DEF SetBegins
  <1> HIDE DEF f, block
  <1>5. /\ none \in FileType /\ none.base = NULL /\ none.tries <= 1 /\ ~none.ready
        /\ none.said = {}
    <2>1. NULL \in Base /\ {} \in SUBSET Blocks /\ FALSE \in BOOLEAN
      BY DEF Base
    <2>2. none \in FileType /\ none.base = NULL /\ none.tries = f.tries /\ none.ready = f.ready
          /\ none.said = f.said
      BY <1>2, <2>1, Zenon DEF FileType
    <2> QED BY <1>2, <2>2
  <1>6. bare \in FileType /\ bare.tries <= 1 /\ ~bare.ready /\ bare.said = {}
    <2>1. {} \in SUBSET Blocks /\ FALSE \in BOOLEAN
      OBVIOUS
    <2>2. bare \in FileType /\ bare.tries = f.tries /\ bare.ready = f.ready
          /\ bare.said = f.said
      BY <1>2, <2>1, RecordsEdit, Zenon
    <2> QED BY <1>2, <2>2
  <1> HIDE DEF l, none, bare
  <1>7. /\ m \in LocalsType /\ m.table = own[th].table /\ m.kind = own[th].kind
        /\ m.base = l.base /\ m.block = block
    <2>1. chunks \in SUBSET Base /\ l.table = own[th].table /\ l.kind = own[th].kind
      BY DEF IInv, TypeOK, l
    <2> QED BY <1>2, <1>3, <2>1 DEF LocalsType
  <1> HIDE DEF m
  <1>8. l.table = own[th].table /\ l.kind = own[th].kind /\ l.base \in live
    BY <1>2 DEF l, Knows
  <1>9. CASE SetFile(th, none) /\ Become(th, "publish", l) /\ live' = live
    <2>1. /\ table' \in [Tables -> Files \union {NULL}]
          /\ at' \in [Threads -> Places] /\ own' \in [Threads -> LocalsType]
          /\ Busy' /\ Locked' /\ FilesKept' /\ AllKnow'
      BY <1>1, <1>2, <1>5, <1>8, <1>9, HolderStep
    <2> QED BY <1>1, <1>9, <2>1 DEF IInv, TypeOK
  <1>10. CASE SetFile(th, bare) /\ Become(th, "link", m) /\ live' = live \union {block}
    <2>1. /\ table' \in [Tables -> Files \union {NULL}]
          /\ at' \in [Threads -> Places] /\ own' \in [Threads -> LocalsType]
          /\ Busy' /\ Locked' /\ FilesKept' /\ AllKnow'
      <3>1. live \subseteq live' /\ m.base \in live' /\ m.block \in live' /\ m.block \in Blocks
        BY <1>3, <1>7, <1>8, <1>10
      <3> QED BY <1>1, <1>6, <1>7, <1>10, <3>1, HolderStep
    <2> QED BY <1>1, <1>3, <1>10, <2>1 DEF IInv, TypeOK
  <1> QED BY <1>4, <1>9, <1>10

\* What an IF answers is one of its branches.
LEMMA EitherOr ==
  ASSUME NEW p \in BOOLEAN, NEW x, NEW y
  PROVE  (IF p THEN x ELSE y) \in {x, y}
  OBVIOUS

LEMMA SetReturnsKeeps == ASSUME IInv, NEW th \in Threads, SetReturns(th) PROVE IInv'
  <1> DEFINE l == own[th]
             f == File(th)
             full == [f EXCEPT !.base = l.base, !.parsed = TRUE, !.parts = {l.block}]
             none == [f EXCEPT !.base = NULL, !.parsed = FALSE, !.parts = {l.block}]
  <1>1. /\ at[th] = "link" /\ at[th] \in Mapping /\ Become(th, "publish", l)
        /\ chunks' = l.head \union {l.block}
        /\ UNCHANGED <<disk, path, phase, inTree, live, mutex, refusals, paths>>
    BY DEF SetReturns, Link, Mapping
  <1>2. /\ l \in LocalsType /\ l.table \in Tables /\ l.kind \in Kinds
        /\ table[l.table] \in Files /\ f \in FileType
        /\ ~f.ready /\ f.tries <= 1 /\ f.said = {} /\ Knows("link", l, f)
    BY <1>1, Mine
  <1>3. /\ l.base \in live /\ l.block \in live /\ l.base \in Base /\ l.block \in Blocks
        /\ l.block \in Base /\ l.head \subseteq Base
    BY <1>2 DEF Knows, LocalsType
  <1>4. PICK v \in BOOLEAN, b \in {l.base, NULL} :
              /\ SetFile(th, [f EXCEPT !.base = b, !.parsed = v, !.parts = {l.block}])
              /\ b # NULL => v
    <2>1. (l.found = "good") \in BOOLEAN
      OBVIOUS
    <2>2. (IF l.found = "good" THEN l.base ELSE NULL) \in {l.base, NULL}
      BY EitherOr, Zenon
    <2> WITNESS (l.found = "good") \in BOOLEAN,
                (IF l.found = "good" THEN l.base ELSE NULL) \in {l.base, NULL}
    <2>3. SetFile(th, [f EXCEPT !.base = IF l.found = "good" THEN l.base ELSE NULL,
                                !.parsed = (l.found = "good"), !.parts = {l.block}])
      BY Zenon DEF SetReturns
    <2> QED BY <2>3
  <1> DEFINE g == [f EXCEPT !.base = b, !.parsed = v, !.parts = {l.block}]
  <1> HIDE DEF f, l
  <1>5. /\ g \in FileType /\ g.base = b /\ g.parsed = v /\ g.parts = {l.block}
        /\ g.tries <= 1 /\ ~g.ready /\ g.said = {}
    <2>1. b \in Base /\ {l.block} \in SUBSET Blocks
      BY <1>3 DEF Base
    <2>2. /\ g \in FileType /\ g.base = b /\ g.parsed = v /\ g.parts = {l.block}
          /\ g.tries = f.tries /\ g.ready = f.ready /\ g.said = f.said
      BY <1>2, <2>1, Zenon DEF FileType
    <2> QED BY <1>2, <2>2
  <1>6. SetFile(th, g)
    BY <1>4
  <1> HIDE DEF g
  <1>7. (g.base # NULL) =>
           (g.parsed /\ g.base \in live' /\ g.parts # {} /\ g.parts \subseteq live')
    BY <1>1, <1>3, <1>4, <1>5
  <1>8. l.table = own[th].table /\ l.kind = own[th].kind
    BY DEF l
  <1>9. /\ table' \in [Tables -> Files \union {NULL}]
        /\ at' \in [Threads -> Places] /\ own' \in [Threads -> LocalsType]
        /\ Busy' /\ Locked' /\ FilesKept' /\ AllKnow'
    BY <1>1, <1>2, <1>5, <1>6, <1>7, <1>8, HolderStep
  <1> QED BY <1>1, <1>3, <1>9 DEF IInv, TypeOK

\* The flag goes up last: what the thread knows of its file is what a reader of the flag gets.
LEMMA PublishKeeps == ASSUME IInv, NEW th \in Threads, Publish(th) PROVE IInv'
  <1> DEFINE l == own[th]
             f == File(th)
             g == [f EXCEPT !.ready = TRUE]
             m == [l EXCEPT !.answer = (f.base # NULL)]
  <1>1. /\ at[th] = "publish" /\ at[th] \in Mapping
        /\ SetFile(th, g) /\ Become(th, "unlock", m)
        /\ UNCHANGED <<disk, path, phase, inTree, chunks, live, mutex, refusals, paths>>
    BY DEF Publish, Mapping
  <1>2. /\ l \in LocalsType /\ f \in FileType
        /\ f.tries <= 1 /\ f.said = {} /\ Knows("publish", l, f)
    BY <1>1, Mine
  <1> HIDE DEF f
  <1>3. /\ m \in LocalsType /\ m.answer = (f.base # NULL)
        /\ m.table = own[th].table /\ m.kind = own[th].kind
    <2>1. \A b : LET e == [l EXCEPT !.answer = (b # NULL)] IN
              /\ e \in LocalsType /\ e.answer = (b # NULL)
              /\ e.table = l.table /\ e.kind = l.kind
      BY <1>2, Answering
    <2> QED BY <2>1, Zenon DEF m
  <1> HIDE DEF l, m
  <1>4. /\ g \in FileType /\ g.ready = TRUE /\ g.base = f.base /\ g.parsed = f.parsed
        /\ g.parts = f.parts /\ g.tries = f.tries /\ g.said = f.said
    BY <1>2, ReadyEdit
  <1> HIDE DEF g
  <1>5. (g.base # NULL) =>
           (g.parsed /\ g.base \in live' /\ g.parts # {} /\ g.parts \subseteq live')
    BY <1>1, <1>2, <1>4 DEF Knows, Whole
  <1>6. g.ready /\ m.answer = (g.base # NULL) /\ g.tries <= 1 /\ g.said = {}
    BY <1>2, <1>3, <1>4
  <1>7. /\ table' \in [Tables -> Files \union {NULL}]
        /\ at' \in [Threads -> Places] /\ own' \in [Threads -> LocalsType]
        /\ Busy' /\ Locked' /\ FilesKept' /\ AllKnow'
    BY <1>1, <1>3, <1>4, <1>5, <1>6, HolderStep
  <1> QED BY <1>1, <1>7 DEF IInv, TypeOK

LEMMA UnlockKeeps == ASSUME IInv, NEW th \in Threads, Unlock(th) PROVE IInv'
  <1> DEFINE l == own[th]
             k == own[th].kind
  <1>1. /\ at[th] = "unlock" /\ Become(th, "use", l) /\ mutex' = [mutex EXCEPT ![k] = NULL]
        /\ UNCHANGED <<disk, path, phase, inTree, table, chunks, live, refusals, paths>>
    BY DEF Unlock
  <1>2. /\ l \in LocalsType /\ l.table \in Tables /\ k \in Kinds /\ l.kind = k
        /\ table[l.table] \in Files /\ phase # "idle" /\ "use" \in Places
    BY <1>1, FileTyped DEF Places
  <1>3. Knows("use", l, File(th))
    BY <1>1, <1>2 DEF IInv, AllKnow, Knows
  <1>4. Busy' /\ AllKnow'
    BY <1>1, <1>2, <1>3, LocalStep DEF File
  <1>5. /\ at' \in [Threads -> Places] /\ own' \in [Threads -> LocalsType]
        /\ at'[th] = "use" /\ own'[th] = l
        /\ \A o \in Threads \ {th} : at'[o] = at[o] /\ own'[o] = own[o]
    BY <1>1, <1>2, OwnSet DEF IInv
  <1>6. /\ mutex' \in [Kinds -> Threads \union {NULL}]
        /\ mutex'[k] = NULL /\ \A j \in Kinds \ {k} : mutex'[j] = mutex[j]
    BY <1>1, <1>2 DEF IInv, TypeOK
  <1>7. TypeOK'
    BY <1>1, <1>5, <1>6 DEF IInv, TypeOK
  <1>8. \A j \in Kinds : mutex[j] = th <=> j = k
    BY <1>1, <1>2 DEF IInv, Locked, Holding
  <1> HIDE DEF l, k
  <1>9. Locked'
    <2> SUFFICES ASSUME NEW o \in Threads, NEW j \in Kinds
                 PROVE mutex'[j] = o <=> at'[o] \in Holding /\ own'[o].kind = j
      BY DEF Locked
    <2>1. CASE o = th
      BY <1>2, <1>5, <1>6, <1>8, <2>1, NullAssumption DEF Holding
    <2>2. CASE o # th
      <3>1. mutex[j] = o <=> at[o] \in Holding /\ own[o].kind = j
        BY DEF IInv, Locked
      <3>2. at'[o] = at[o] /\ own'[o] = own[o]
        BY <1>5, <2>2
      <3>3. CASE j = k
        BY <1>2, <1>6, <1>8, <2>2, <3>1, <3>2, <3>3, NullAssumption
      <3>4. CASE j # k
        BY <1>6, <3>1, <3>2, <3>4
      <3> QED BY <3>3, <3>4
    <2> QED BY <2>1, <2>2
  <1>10. ASSUME NEW u \in Tables, NEW j \in Kinds, table[u] \in Files
         PROVE  FileKept(u, j)'
    <2>1. FileKept(u, j)
      BY <1>10 DEF IInv, FilesKept
    <2>2. CASE j = k
      <3>1. mutex[j] = th
        BY <1>2, <1>8, <2>2
      <3> QED BY <1>1, <2>1, <3>1 DEF FileKept, Whole
    <2>3. CASE j # k
      BY <1>1, <1>5, <1>6, <1>8, <2>1, <2>3 DEF FileKept, Whole
    <2> QED BY <2>2, <2>3
  <1>11. FilesKept'
    BY <1>1, <1>10 DEF FilesKept
  <1> QED BY <1>4, <1>7, <1>9, <1>11 DEF IInv

LEMMA UseKeeps == ASSUME IInv, NEW th \in Threads, Use(th) PROVE IInv'
  <1> DEFINE t == own[th].table
             k == own[th].kind
             f == File(th)
             said == f.said \union {own[th].answer}
             g == [f EXCEPT !.said = said]
  <1>1. /\ at[th] = "use" /\ Become(th, "out", NoLocals)
        /\ inTree' = (inTree \/ (th = "uci" /\ ~own[th].answer))
        /\ UNCHANGED <<disk, path, phase, chunks, live, mutex, refusals, paths>>
    BY DEF Use
  <1>2. /\ own[th] \in LocalsType /\ t \in Tables /\ k \in Kinds
        /\ table[t] \in Files /\ f \in FileType
    BY <1>1, FileTyped
  <1>3. Knows("use", own[th], f)
    BY <1>1, <1>2 DEF IInv, AllKnow
  <1>4. /\ f.ready /\ FileKept(t, k) /\ table[t][k] = f
    BY <1>2, <1>3 DEF IInv, FilesKept, Knows, File
  <1>5. Put(t, k, g)
    BY DEF Use, SetFile, Put
  <1>6. own[th].answer = (f.base # NULL)
    BY <1>3 DEF Knows
  <1>7. said \in SUBSET BOOLEAN /\ said \subseteq {f.base # NULL}
    <2>1. f.said \subseteq {f.base # NULL}
      BY <1>4, Zenon DEF FileKept
    <2> QED BY <1>6, <2>1, Zenon
  <1> HIDE DEF f, said
  <1>8. /\ g \in FileType /\ g.said = said /\ g.ready = f.ready /\ g.base = f.base
        /\ g.parsed = f.parsed /\ g.parts = f.parts /\ g.tries = f.tries
    BY <1>2, <1>7, SaidEdit
  <1>9. g.said \subseteq {g.base # NULL}
    BY <1>7, <1>8, Zenon
  <1> HIDE DEF g, t, k
  <1>10. /\ table' \in [Tables -> Files \union {NULL}]
         /\ \A u \in Tables : table'[u] \in Files <=> table[u] \in Files
         /\ \A u \in Tables, j \in Kinds : table[u] \in Files =>
                table'[u][j] = IF u = t /\ j = k THEN g ELSE table[u][j]
    BY <1>2, <1>5, <1>8, FileSet DEF IInv
  <1>11. NoLocals \in LocalsType /\ "out" \in Places /\ "out" \notin Holding
    BY DEF NoLocals, LocalsType, Places, Holding, Base, FileStates
  <1>12. /\ at' \in [Threads -> Places] /\ own' \in [Threads -> LocalsType]
         /\ at'[th] = "out" /\ own'[th] = NoLocals
         /\ \A o \in Threads \ {th} : at'[o] = at[o] /\ own'[o] = own[o]
    BY <1>1, <1>11, OwnSet DEF IInv
  <1>13. TypeOK'
    BY <1>1, <1>10, <1>12 DEF IInv, TypeOK
  <1>14. Busy'
    BY <1>1, <1>10, <1>12 DEF IInv, Busy
  <1>15. \A j \in Kinds : mutex[j] # th
    BY <1>1 DEF IInv, Locked, Holding
  <1>16. Locked'
    <2> SUFFICES ASSUME NEW o \in Threads, NEW j \in Kinds
                 PROVE mutex[j] = o <=> at'[o] \in Holding /\ own'[o].kind = j
      BY <1>1 DEF Locked
    <2>1. CASE o = th
      BY <1>11, <1>12, <1>15, <2>1
    <2>2. CASE o # th
      BY <1>12, <2>2 DEF IInv, Locked
    <2> QED BY <2>1, <2>2
  <1>17. ASSUME NEW u \in Tables, NEW j \in Kinds, table[u] \in Files
         PROVE  FileKept(u, j)'
    <2>1. FileKept(u, j)
      BY <1>17 DEF IInv, FilesKept
    <2>2. CASE u = t /\ j = k
      <3>1. table'[u][j] = g
        BY <1>10, <1>17, <2>2
      <3>2. /\ g.tries <= 1 /\ g.ready
            /\ g.base # NULL =>
                 (g.parsed /\ g.base \in live' /\ g.parts # {} /\ g.parts \subseteq live')
        BY <1>1, <1>4, <1>8 DEF FileKept, Whole
      <3>3. table'[u][j].said \subseteq {table'[u][j].base # NULL}
        BY <1>9, <3>1, Zenon
      <3> QED BY <1>1, <3>1, <3>2, <3>3 DEF FileKept, Whole
    <2>3. CASE ~(u = t /\ j = k)
      <3>1. table'[u][j] = table[u][j]
        BY <1>10, <1>17, <2>3
      <3> QED BY <1>1, <1>12, <1>15, <2>1, <3>1 DEF FileKept, Whole
    <2> QED BY <2>2, <2>3
  <1>18. FilesKept'
    BY <1>10, <1>17 DEF FilesKept
  <1>19. ASSUME NEW o \in Threads, at'[o] # "out"
         PROVE  Knows(at[o], own[o], File(o))'
    <2>1. o # th
      BY <1>12, <1>19
    <2>2. at'[o] = at[o] /\ own'[o] = own[o]
      BY <1>12, <2>1
    <2>3. /\ own[o].table \in Tables /\ own[o].kind \in Kinds /\ table[own[o].table] \in Files
          /\ Knows(at[o], own[o], File(o))
      BY <1>19, <2>2, FileTyped DEF IInv, AllKnow
    <2>4. CASE own[o].table = t /\ own[o].kind = k
      <3>1. File(o)' = g /\ File(o) = f
        BY <1>4, <1>10, <2>2, <2>3, <2>4 DEF File
      <3> QED BY <1>1, <1>8, <2>2, <2>3, <3>1 DEF Knows, Whole
    <2>5. CASE ~(own[o].table = t /\ own[o].kind = k)
      <3>1. File(o)' = File(o)
        BY <1>10, <2>2, <2>3, <2>5 DEF File
      <3> QED BY <1>1, <2>2, <2>3, <3>1 DEF Knows, Whole
    <2> QED BY <2>4, <2>5
  <1> QED BY <1>13, <1>14, <1>16, <1>18, <1>19 DEF IInv, AllKnow

---------------------------------------------------------------------------
(* The theorems *)

LEMMA InitHolds == ASSUME Init PROVE IInv
  <1>1. NoLocals \in LocalsType /\ "out" \in Places
    BY DEF NoLocals, LocalsType, Places, Base, FileStates
  <1>2. TypeOK
    <2>1. disk \in [Tables \X Kinds \X Dirs -> FileStates]
      BY DiskAssumption DEF Init
    <2>2. path \in Seq(Dirs)
      BY DEF Init
    <2>3. table \in [Tables -> Files \union {NULL}]
      BY DEF Init
    <2>4. at \in [Threads -> Places] /\ own \in [Threads -> LocalsType]
      BY <1>1 DEF Init
    <2> QED BY <2>1, <2>2, <2>3, <2>4 DEF Init, TypeOK
  <1>3. Busy /\ AllKnow
    BY DEF Init, Busy, AllKnow
  <1>4. Locked
    BY NullAssumption DEF Init, Locked, Holding
  <1>5. FilesKept
    BY NullAssumption DEF Init, FilesKept
  <1> QED BY <1>2, <1>3, <1>4, <1>5 DEF IInv

LEMMA StepKeeps == ASSUME IInv, [Next]_vars PROVE IInv'
  <1>1. CASE UNCHANGED vars
    <2>1. TypeOK' /\ Busy' /\ Locked'
      BY <1>1 DEF IInv, TypeOK, Busy, Locked, vars
    <2>2. FilesKept'
      <3> SUFFICES ASSUME NEW t \in Tables, NEW k \in Kinds, table'[t] \in Files
                   PROVE  FileKept(t, k)'
        BY DEF FilesKept
      <3>1. FileKept(t, k)
        BY <1>1 DEF IInv, FilesKept, vars
      <3> QED BY <1>1, <3>1 DEF FileKept, Whole, vars
    <2>3. AllKnow'
      BY <1>1, StillKnown DEF AllKnow, vars
    <2> QED BY <2>1, <2>2, <2>3 DEF IInv
  <1>2. CASE SetPath
    BY <1>2, SetPathKeeps
  <1>3. CASE Go \/ Dispatch \/ SearchEnds
    BY <1>3, CourseKeeps
  <1>4. ASSUME NEW th \in Threads, Probe(th) PROVE IInv'
    BY <1>4, AskKeeps, LockKeeps, MapFileKeeps, RecordMappingKeeps, SetBeginsKeeps,
       SetReturnsKeeps, PublishKeeps, UnlockKeeps, UseKeeps DEF Probe
  <1> QED BY <1>1, <1>2, <1>3, <1>4 DEF Next

\* The inductive invariant holds: the mutex of a kind is held by the thread that is mapping a
\* file of that kind and by nobody else, and a file that is not published was mapped only by it.
THEOREM RegistryIsLocked == Spec => []IInv
  BY InitHolds, StepKeeps, PTL DEF Spec

\* "The flag is published LAST" (registry.c): whichever of the two ways a thread learns that a
\* table is there, the records it reads are complete and nothing of them was released.
THEOREM NoProbeReadsHalf == Spec => []NothingHalfRead
  <1>1. IInv => NothingHalfRead
    <2> SUFFICES ASSUME IInv, NEW th \in Threads, at[th] = "use", own[th].answer
                 PROVE  LET f == File(th) IN
                        f.ready /\ f.parsed /\ f.base \in live /\ f.parts # {} /\ f.parts \subseteq live
      BY DEF NothingHalfRead
    <2>1. own[th].table \in Tables /\ own[th].kind \in Kinds /\ table[own[th].table] \in Files
      BY FileTyped
    <2>2. Knows("use", own[th], File(th)) /\ FileKept(own[th].table, own[th].kind)
      BY <2>1 DEF IInv, AllKnow, FilesKept
    <2> QED BY <2>2 DEF Knows, FileKept, Whole, File
  <1> QED BY <1>1, RegistryIsLocked, PTL

\* A file is mapped at most once under a path, and nobody is refused a table another was given.
THEOREM FilesAreMappedOnce == Spec => []MappedOnce
  <1>1. IInv => MappedOnce
    <2> SUFFICES ASSUME IInv, NEW t \in Tables, NEW k \in Kinds, table[t] # NULL
                 PROVE  table[t][k].tries <= 1 /\ Cardinality(table[t][k].said) <= 1
      BY DEF MappedOnce
    <2>1. FileKept(t, k)
      BY DEF IInv, TypeOK, FilesKept
    <2>2. \E b : table[t][k].said \subseteq {b}
      <3>1. CASE table[t][k].ready
        BY <2>1, <3>1, Zenon DEF FileKept
      <3>2. CASE ~table[t][k].ready
        BY <2>1, <3>2 DEF FileKept
      <3> QED BY <3>1, <3>2
    <2>3. PICK b : table[t][k].said \subseteq {b}
      BY <2>2
    <2>4. IsFiniteSet({b}) /\ Cardinality({b}) = 1
      BY FS_Singleton
    <2>5. Cardinality(table[t][k].said) <= 1
      BY <2>3, <2>4, FS_Subset
    <2> QED BY <2>1, <2>5 DEF FileKept
  <1> QED BY <1>1, RegistryIsLocked, PTL

=============================================================================
