---------------------------- MODULE Trees_proofs ----------------------------
(***************************************************************************)
(* What holds of the trees for any number of instances, commands at a time *)
(* and mishaps: no name is ever a link to two inodes.  With one command at *)
(* a time, a deep copy is made only after something has failed.            *)
(***************************************************************************)
EXTENDS Trees, TLAPS

\* A set of inodes that a disk can be.
Sound(d) == d \subseteq Inodes /\ \A i, j \in d : i.links \cap j.links # {} => i = j

Named(d, n) == \E i \in d : n \in i.links

-----------------------------------------------------------------------------
(* The operations on inodes                                                *)

LEMMA WithoutSound ==
    ASSUME NEW d, Sound(d), NEW names
    PROVE  /\ Sound(Without(d, names))
           /\ \A n : Named(Without(d, names), n) <=> Named(d, n) /\ n \notin names
<1> DEFINE Kept(i) == [i EXCEPT !.links = @ \ names]
<1>1. ASSUME NEW i \in d
      PROVE  /\ Kept(i) = [links |-> i.links \ names, s |-> i.s, owner |-> i.owner]
             /\ i.links \in SUBSET (Names \cup Opened) /\ i.s \in States /\ i.owner \in Owners
  BY DEF Sound, Inodes
<1>2. ASSUME NEW k \in Without(d, names)
      PROVE  \E i \in d : ~(i.links \subseteq names) /\ k = Kept(i)
  BY DEF Without
<1>3. ASSUME NEW i \in d, ~(i.links \subseteq names) PROVE Kept(i) \in Without(d, names)
  BY <1>3 DEF Without
<1> HIDE DEF Kept
<1>4. Without(d, names) \subseteq Inodes
  BY <1>1, <1>2 DEF Inodes
<1>5. ASSUME NEW k \in Without(d, names), NEW l \in Without(d, names), k.links \cap l.links # {}
      PROVE  k = l
  <2>1. PICK i \in d : k = Kept(i)
    BY <1>2
  <2>2. PICK j \in d : l = Kept(j)
    BY <1>2
  <2>3. k.links = i.links \ names /\ l.links = j.links \ names
    BY <1>1, <2>1, <2>2
  <2>4. i.links \cap j.links # {}
    BY <1>5, <2>3
  <2> QED
    BY <2>1, <2>2, <2>4 DEF Sound
<1>6. ASSUME NEW n, Named(Without(d, names), n) PROVE Named(d, n) /\ n \notin names
  BY <1>1, <1>2, <1>6 DEF Named
<1>7. ASSUME NEW n, Named(d, n), n \notin names PROVE Named(Without(d, names), n)
  <2>1. PICK i \in d : n \in i.links
    BY <1>7 DEF Named
  <2>2. Kept(i) \in Without(d, names) /\ n \in Kept(i).links
    BY <1>1, <1>3, <1>7, <2>1
  <2> QED
    BY <2>2 DEF Named
<1> QED
  BY <1>4, <1>5, <1>6, <1>7 DEF Sound

LEMMA WrittenSound ==
    ASSUME NEW d, Sound(d), NEW name, NEW s \in States
    PROVE  Sound(Written(d, name, s)) /\ \A n : Named(Written(d, name, s), n) <=> Named(d, n)
<1> DEFINE W(i) == [i EXCEPT !.s = IF name \in i.links THEN s ELSE @]
<1>1. ASSUME NEW i \in d PROVE W(i) \in Inodes /\ W(i).links = i.links
  BY DEF Sound, Inodes
<1>2. Written(d, name, s) = {W(i) : i \in d}
  BY DEF Written
<1> HIDE DEF W
<1>3. Sound(Written(d, name, s))
  BY <1>1, <1>2 DEF Sound
<1>4. ASSUME NEW n PROVE Named(Written(d, name, s), n) <=> Named(d, n)
  BY <1>1, <1>2 DEF Named
<1> QED
  BY <1>3, <1>4

LEMMA LinkedSound ==
    ASSUME NEW d, Sound(d), NEW old, NEW new \in Names \cup Opened, ~Named(d, new)
    PROVE  /\ Sound(Linked(d, old, new))
           /\ \A n : Named(Linked(d, old, new), n) <=> Named(d, n) \/ (n = new /\ Named(d, old))
<1> DEFINE L(i) == [i EXCEPT !.links = IF old \in @ THEN @ \cup {new} ELSE @]
<1>1. ASSUME NEW i \in d
      PROVE  /\ L(i) \in Inodes
             /\ \A n : n \in L(i).links <=> n \in i.links \/ (n = new /\ old \in i.links)
  BY DEF Sound, Inodes
<1>2. Linked(d, old, new) = {L(i) : i \in d}
  BY DEF Linked
<1> HIDE DEF L
<1>3. ASSUME NEW i \in d, NEW j \in d, L(i).links \cap L(j).links # {} PROVE i = j
  <2>1. PICK n : n \in L(i).links /\ n \in L(j).links
    BY <1>3
  <2>2. CASE n = new
    <3>1. new \notin i.links /\ new \notin j.links
      BY DEF Named
    <3>2. old \in i.links /\ old \in j.links
      BY <1>1, <2>1, <2>2, <3>1
    <3> QED
      BY <3>2 DEF Sound
  <2>3. CASE n # new
    <3>1. n \in i.links /\ n \in j.links
      BY <1>1, <2>1, <2>3
    <3> QED
      BY <3>1 DEF Sound
  <2> QED
    BY <2>2, <2>3
<1>4. Sound(Linked(d, old, new))
  <2>1. \A k \in Linked(d, old, new) : \E i \in d : k = L(i)
    BY <1>2
  <2>2. Linked(d, old, new) \subseteq Inodes
    BY <1>1, <2>1
  <2> QED
    BY <1>3, <2>1, <2>2 DEF Sound
<1>5. ASSUME NEW n
      PROVE  Named(Linked(d, old, new), n) <=> Named(d, n) \/ (n = new /\ Named(d, old))
  <2>1. Named(Linked(d, old, new), n) <=> \E i \in d : n \in L(i).links
    BY <1>2 DEF Named
  <2> QED
    BY <1>1, <2>1 DEF Named
<1> QED
  BY <1>4, <1>5

LEMMA AddSound ==
    ASSUME NEW d, Sound(d), NEW names \in (SUBSET (Names \cup Opened)) \ {{}},
           NEW s \in States, NEW owner \in Owners,
           \A n \in names : ~Named(d, n)
    PROVE  /\ Sound(d \cup {File(names, s, owner)})
           /\ \A n : Named(d \cup {File(names, s, owner)}, n) <=> Named(d, n) \/ n \in names
<1> DEFINE f == File(names, s, owner)
           e == d \cup {f}
<1>1. f \in Inodes /\ f.links = names
  BY DEF File, Inodes
<1> HIDE DEF f
<1>2. Sound(e)
  <2>1. \A i \in d : i.links \cap f.links = {}
    BY <1>1 DEF Named
  <2> QED
    BY <1>1, <2>1 DEF Sound
<1>3. \A n : Named(e, n) <=> Named(d, n) \/ n \in names
  BY <1>1 DEF Named
<1> QED
  BY <1>2, <1>3 DEF f

LEMMA PairIn ==
    ASSUME NEW t \in Trees, NEW f \in Files
    PROVE  <<t, f>> \in Names
  BY DEF Names

LEMMA LinksSound ==
    ASSUME Sound(disk), NEW p \in Trees, NEW fs \in SUBSET Files, \A f \in fs : ~Has(p, f)
    PROVE  /\ Sound(Links(p, fs))
           /\ \A n : Named(Links(p, fs), n) => Named(disk, n) \/ n \in Names
<1> DEFINE new(i) == {<<p, f>> : f \in {x \in fs : <<Base, x>> \in i.links}}
           L(i) == [i EXCEPT !.links = @ \cup new(i)]
<1>0. Links(p, fs) = {L(i) : i \in disk}
  BY DEF Links
<1>1. ASSUME NEW i \in disk
      PROVE  /\ L(i) \in Inodes
             /\ \A n : n \in L(i).links <=>
                          n \in i.links \/ \E f \in fs : n = <<p, f>> /\ <<Base, f>> \in i.links
  <2>1. \A n : n \in new(i) <=> \E f \in fs : n = <<p, f>> /\ <<Base, f>> \in i.links
    OBVIOUS
  <2>2. new(i) \subseteq Names
    BY PairIn
  <2> HIDE DEF new
  <2>3. /\ i \in Inodes
        /\ i.links \in (SUBSET (Names \cup Opened)) \ {{}} /\ i.s \in States /\ i.owner \in Owners
    BY DEF Sound, Inodes
  <2>4. [links |-> i.links \cup new(i), s |-> i.s, owner |-> i.owner] \in Inodes
    BY <2>2, <2>3 DEF Inodes
  <2>5. L(i) = [links |-> i.links \cup new(i), s |-> i.s, owner |-> i.owner]
    BY <2>3 DEF Inodes
  <2> HIDE DEF L
  <2>6. L(i).links = i.links \cup new(i)
    BY <2>5
  <2>7. L(i) \in Inodes
    BY <2>4, <2>5
  <2>8. \A n : n \in L(i).links <=> n \in i.links \/ n \in new(i)
    BY <2>6
  <2> QED
    BY <2>1, <2>7, <2>8
<1>2. Links(p, fs) = {L(i) : i \in disk}
  BY <1>0
<1> HIDE DEF L
<1>3. ASSUME NEW i \in disk, NEW j \in disk, L(i).links \cap L(j).links # {} PROVE i = j
  <2>1. PICK n : n \in L(i).links /\ n \in L(j).links
    BY <1>3
  <2>2. CASE n \in i.links /\ n \in j.links
    BY <2>2 DEF Sound
  <2>3. CASE ~(n \in i.links /\ n \in j.links)
    <3>1. PICK f \in fs : n = <<p, f>>
      BY <1>1, <2>1, <2>3
    <3>2. n \notin i.links /\ n \notin j.links
      BY <3>1 DEF Has
    <3>3. <<Base, f>> \in i.links /\ <<Base, f>> \in j.links
      BY <1>1, <2>1, <3>1, <3>2
    <3> QED
      BY <3>3 DEF Sound
  <2> QED
    BY <2>2, <2>3
<1>4. Sound(Links(p, fs))
  <2>1. \A k \in Links(p, fs) : \E i \in disk : k = L(i)
    BY <1>2
  <2>2. Links(p, fs) \subseteq Inodes
    BY <1>1, <2>1
  <2> QED
    BY <1>3, <2>1, <2>2 DEF Sound
<1>5. ASSUME NEW n, Named(Links(p, fs), n) PROVE Named(disk, n) \/ n \in Names
  <2>1. PICK i \in disk : n \in L(i).links
    BY <1>2, <1>5 DEF Named
  <2>2. CASE n \in i.links
    BY <2>2 DEF Named
  <2>3. CASE \E f \in fs : n = <<p, f>>
    BY <2>3 DEF Names
  <2> QED
    BY <1>1, <2>1, <2>2, <2>3
<1> QED
  BY <1>4, <1>5

\* What a name leads to is an inode of the disk.
LEMMA InodeIn ==
    ASSUME NEW t, NEW f, Has(t, f)
    PROVE  Inode(t, f) \in disk /\ <<t, f>> \in Inode(t, f).links
  BY DEF Has, Inode

LEMMA CopiesSound ==
    ASSUME Sound(disk), NEW p \in Trees, NEW fs \in SUBSET Missing(p)
    PROVE  /\ Sound(Copies(p, fs))
           /\ \A n : Named(Copies(p, fs), n) => Named(disk, n) \/ n \in Names
<1> DEFINE New(f) == File({<<p, f>>}, Inode(Base, f).s, "agent")
<1>1. Copies(p, fs) = disk \cup {New(f) : f \in fs}
  BY DEF Copies
<1>2. ASSUME NEW f \in fs
      PROVE  New(f) \in Inodes /\ New(f).links = {<<p, f>>} /\ <<p, f>> \in Names /\ ~Has(p, f)
  <2>1. f \in Files /\ Has(Base, f) /\ ~Has(p, f)
    BY DEF Missing, Held
  <2>2. Inode(Base, f).s \in States
    <3>1. Inode(Base, f) \in disk
      BY <2>1, InodeIn
    <3> QED
      BY <3>1 DEF Sound, Inodes
  <2>3. <<p, f>> \in Names
    BY <2>1, PairIn
  <2>4. New(f) = [links |-> {<<p, f>>}, s |-> Inode(Base, f).s, owner |-> "agent"]
    BY DEF File
  <2>5. {<<p, f>>} \in (SUBSET (Names \cup Opened)) \ {{}}
    BY <2>3
  <2>6. New(f) \in Inodes
    BY <2>2, <2>4, <2>5 DEF Inodes, Owners
  <2> QED
    BY <2>1, <2>3, <2>4, <2>6
<1> HIDE DEF New
<1>3. \A k \in Copies(p, fs) : k \in disk \/ \E f \in fs : k = New(f)
  BY <1>1
<1>4. Copies(p, fs) \subseteq Inodes
  BY <1>2, <1>3 DEF Sound
<1>5. ASSUME NEW k \in Copies(p, fs), NEW l \in Copies(p, fs), k.links \cap l.links # {}
      PROVE  k = l
  <2>1. CASE k \in disk /\ l \in disk
    BY <1>5, <2>1 DEF Sound
  <2>2. CASE k \in disk /\ l \notin disk
    <3>1. PICK f \in fs : l = New(f)
      BY <1>3, <2>2
    <3> QED
      BY <1>2, <1>5, <2>2, <3>1 DEF Has
  <2>3. CASE k \notin disk /\ l \in disk
    <3>1. PICK f \in fs : k = New(f)
      BY <1>3, <2>3
    <3> QED
      BY <1>2, <1>5, <2>3, <3>1 DEF Has
  <2>4. CASE k \notin disk /\ l \notin disk
    <3>1. PICK f \in fs : k = New(f)
      BY <1>3, <2>4
    <3>2. PICK x \in fs : l = New(x)
      BY <1>3, <2>4
    <3>3. {<<p, f>>} \cap {<<p, x>>} # {}
      BY <1>2, <1>5, <3>1, <3>2
    <3>4. f = x
      BY <3>3
    <3> QED
      BY <3>1, <3>2, <3>4
  <2> QED
    BY <2>1, <2>2, <2>3, <2>4
<1>6. ASSUME NEW n, Named(Copies(p, fs), n) PROVE Named(disk, n) \/ n \in Names
  BY <1>2, <1>3, <1>6 DEF Named
<1> QED
  BY <1>4, <1>5, <1>6 DEF Sound

\* A chown changes no links.
LEMMA ChownSound ==
    ASSUME Sound(disk), ChownBase
    PROVE  Sound(disk') /\ \A n : Named(disk', n) <=> Named(disk, n)
<1> DEFINE ours(i) == \E f \in Files : <<Base, f>> \in i.links
           C(i) == [i EXCEPT !.owner = IF ours(i) THEN "agent" ELSE @]
<1>1. ASSUME NEW i \in disk PROVE C(i) \in Inodes /\ C(i).links = i.links
  BY DEF Sound, Inodes, Owners
<1>2. disk' = {C(i) : i \in disk}
  BY DEF ChownBase
<1> HIDE DEF C
<1>3. \A k \in disk' : \E i \in disk : k = C(i)
  BY <1>2
<1>4. Sound(disk')
  <2>1. disk' \subseteq Inodes
    BY <1>1, <1>3
  <2>2. ASSUME NEW k \in disk', NEW l \in disk', k.links \cap l.links # {} PROVE k = l
    <3>1. PICK i \in disk : k = C(i)
      BY <1>3
    <3>2. PICK j \in disk : l = C(j)
      BY <1>3
    <3> QED
      BY <1>1, <2>2, <3>1, <3>2 DEF Sound
  <2> QED
    BY <2>1, <2>2 DEF Sound
<1>5. ASSUME NEW n PROVE Named(disk', n) <=> Named(disk, n)
  BY <1>1, <1>2 DEF Named
<1> QED
  BY <1>4, <1>5

LEMMA ReplaceSound ==
    ASSUME Sound(disk), NEW t \in Trees, NEW f \in Files, NEW s \in States, NEW o \in Owners,
           Replace(t, f, s, o)
    PROVE  Sound(disk') /\ \A n : Named(disk', n) => Named(disk, n) \/ n = <<t, f>>
<1>1. /\ Sound(Without(disk, {<<t, f>>}))
      /\ \A n : Named(Without(disk, {<<t, f>>}), n) <=> Named(disk, n) /\ n # <<t, f>>
  BY WithoutSound
<1>2. {<<t, f>>} \in (SUBSET (Names \cup Opened)) \ {{}}
  BY DEF Names
<1> DEFINE d == Without(disk, {<<t, f>>})
           e == d \cup {File({<<t, f>>}, s, o)}
<1>3. Sound(e) /\ \A n : Named(e, n) <=> Named(d, n) \/ n \in {<<t, f>>}
  <2> HIDE DEF d
  <2>1. Sound(d) /\ \A n \in {<<t, f>>} : ~Named(d, n)
    BY <1>1 DEF d
  <2> QED
    BY <1>2, <2>1, AddSound
<1>4. disk' = e
  BY DEF Replace
<1> HIDE DEF e
<1> QED
  BY <1>1, <1>3, <1>4

-----------------------------------------------------------------------------
(* Where a command can be                                                  *)

CopyPcs == {"open", "create", "write", "rename"}
SyncPcs == {"wipe", "own", "link", "chown", "deep"}
Pcs == CopyPcs \cup SyncPcs \cup
       {"stop", "wipebase", "steam", "setup", "wait", "next", "down", "ensure", "fill", "up"}

\* Which kinds of command get where, ...
OpAt(op, pc) ==
    /\ pc # "idle" => op # "none"
    /\ pc \in {"stop", "wipebase"} => op \in {"update", "reinstall"}
    /\ pc = "down" => op = "deploy"
    /\ pc \in {"setup", "wait"} => op \in {"update", "reinstall", "setup"}
    /\ pc = "next" => op \in {"update", "reinstall"}
    /\ pc \in SyncPcs => op \in {"deploy", "update", "reinstall"}

\* ... on which trees they work, ...
PortAt(j) ==
    /\ j.todo \subseteq j.ports
    /\ j.op = "deploy" => j.port \in Instances
    /\ j.pc \in SyncPcs /\ j.op # "deploy" => j.port \in j.ports

\* ... and what comes after the copy of a file.
ThenAt(j) ==
    /\ j.pc \in CopyPcs => j.then # "none"
    /\ j.then # "none" => OpAt(j.op, j.then)

Shape(j) == OpAt(j.op, j.pc) /\ PortAt(j) /\ ThenAt(j)

JobsInv == job \in [Goroutines -> Jobs] /\ \A g \in Goroutines : Shape(job[g])

Moved(g) == \E j \in Jobs : Shape(j) /\ job' = [job EXCEPT ![g] = j]

LEMMA MovedKeeps ==
    ASSUME JobsInv, NEW g \in Goroutines, Moved(g)
    PROVE  JobsInv' /\ \A h \in Goroutines \ {g} : job'[h] = job[h]
  BY DEF JobsInv, Moved

\* A command goes to another place, and may have failed somewhere.
LEMMA GoesTo ==
    ASSUME JobsInv, NEW g \in Goroutines, NEW pc \in Pcs, NEW try \in {"link", "relink"},
           NEW fault \in BOOLEAN,
           job' = [job EXCEPT ![g] = [job[g] EXCEPT !.pc = pc, !.try = try, !.fault = fault]],
           OpAt(job[g].op, pc),
           pc \in CopyPcs => job[g].then # "none",
           pc \in SyncPcs => job[g].op = "deploy" \/ job[g].port \in job[g].ports
    PROVE  Moved(g)
<1> DEFINE j == [job[g] EXCEPT !.pc = pc, !.try = try, !.fault = fault]
<1>1. job[g] \in Jobs /\ Shape(job[g])
  BY DEF JobsInv
<1>2. j \in Jobs
  BY <1>1 DEF Jobs, Pcs, CopyPcs, SyncPcs
<1>3. /\ j.op = job[g].op /\ j.pc = pc /\ j.port = job[g].port /\ j.ports = job[g].ports
      /\ j.todo = job[g].todo /\ j.then = job[g].then
  BY <1>1 DEF Jobs
<1> HIDE DEF j
<1>4. PortAt(j) /\ ThenAt(j)
  BY <1>1, <1>3 DEF Shape, PortAt, ThenAt
<1> QED
  BY <1>2, <1>3, <1>4 DEF Moved, Shape, j

LEMMA GotoMoves ==
    ASSUME JobsInv, NEW g \in Goroutines, NEW pc \in Pcs, Goto(g, pc) \/ Fails(g, pc),
           OpAt(job[g].op, pc),
           pc \in CopyPcs => job[g].then # "none",
           pc \in SyncPcs => job[g].op = "deploy" \/ job[g].port \in job[g].ports
    PROVE  Moved(g)
<1>1. job[g] \in Jobs
  BY DEF JobsInv
<1>2. job[g].try \in {"link", "relink"} /\ job[g].fault \in BOOLEAN
  BY <1>1 DEF Jobs
<1>3. CASE Goto(g, pc)
  <2>1. job' = [job EXCEPT ![g] = [job[g] EXCEPT !.pc = pc, !.try = job[g].try,
                                              !.fault = job[g].fault]]
    BY <1>1, <1>3 DEF Goto, JobsInv, Jobs
  <2> QED
    BY <1>2, <2>1, GoesTo
<1>4. CASE Fails(g, pc)
  <2>1. job' = [job EXCEPT ![g] = [job[g] EXCEPT !.pc = pc, !.try = job[g].try, !.fault = TRUE]]
    BY <1>1, <1>4 DEF Fails, JobsInv, Jobs
  <2> QED
    BY <1>2, <2>1, GoesTo
<1> QED
  BY <1>3, <1>4

LEMMA IdleMoves ==
    ASSUME JobsInv, NEW g \in Goroutines, Return(g)
    PROVE  Moved(g)
<1>1. Idle \in Jobs
  BY DEF Idle, Jobs, Trees
<1>2. Shape(Idle)
  BY DEF Idle, Shape, OpAt, PortAt, ThenAt, CopyPcs, SyncPcs
<1> QED
  BY <1>1, <1>2 DEF Return, Moved

\* A copy of a file begins or ends.
LEMMA CopyMoves ==
    ASSUME JobsInv, NEW g \in Goroutines, NEW pc \in Pcs \ SyncPcs, NEW to \in Trees,
           NEW then \in {"none", "setup", "down", "fill", "up"},
           job' = [job EXCEPT ![g].pc = pc, ![g].to = to, ![g].then = then],
           OpAt(job[g].op, pc),
           pc \in CopyPcs => then # "none",
           then # "none" => OpAt(job[g].op, then)
    PROVE  Moved(g)
<1> DEFINE j == [job[g] EXCEPT !.pc = pc, !.to = to, !.then = then]
<1>1. job[g] \in Jobs /\ Shape(job[g])
  BY DEF JobsInv
<1>2. j \in Jobs
  BY <1>1 DEF Jobs, Pcs, CopyPcs, SyncPcs
<1>3. /\ j.op = job[g].op /\ j.pc = pc /\ j.port = job[g].port /\ j.ports = job[g].ports
      /\ j.todo = job[g].todo /\ j.then = then
  BY <1>1 DEF Jobs
<1>4. job' = [job EXCEPT ![g] = j]
  BY <1>1 DEF JobsInv, Jobs
<1> HIDE DEF j
<1>5. PortAt(j) /\ ThenAt(j)
  BY <1>1, <1>3 DEF Shape, PortAt, ThenAt
<1> QED
  BY <1>2, <1>3, <1>4, <1>5 DEF Moved, Shape

\* A sync ends, well or not.
LEMMA SyncedMoves ==
    ASSUME JobsInv, NEW g \in Goroutines, job[g].pc \in SyncPcs, NEW ok \in BOOLEAN,
           Synced(g, ok)
    PROVE  Moved(g)
<1>1. job[g] \in Jobs /\ OpAt(job[g].op, job[g].pc)
  BY DEF JobsInv, Shape
<1>2. job[g].op \in {"deploy", "update", "reinstall"}
  BY <1>1 DEF OpAt
<1>3. CASE job[g].op # "deploy"
  <2>1. job' = [job EXCEPT ![g].pc = "next", ![g].fault = @ \/ ~ok]
    BY <1>3 DEF Synced
  <2>2. job' = [job EXCEPT ![g] = [job[g] EXCEPT !.pc = "next", !.try = job[g].try,
                                              !.fault = job[g].fault \/ ~ok]]
    BY <1>1, <2>1 DEF JobsInv, Jobs
  <2>3. job[g].try \in {"link", "relink"} /\ (job[g].fault \/ ~ok) \in BOOLEAN
    BY <1>1 DEF Jobs
  <2>4. "next" \in Pcs \ (CopyPcs \cup SyncPcs) /\ OpAt(job[g].op, "next")
    BY <1>2, <1>3 DEF OpAt, Pcs, CopyPcs, SyncPcs
  <2> QED
    BY <2>2, <2>3, <2>4, GoesTo
<1>4. CASE job[g].op = "deploy" /\ ok
  <2>1. Goto(g, "ensure")
    BY <1>4 DEF Synced
  <2>2. "ensure" \in Pcs \ (CopyPcs \cup SyncPcs) /\ OpAt(job[g].op, "ensure")
    BY <1>4 DEF OpAt, Pcs, CopyPcs, SyncPcs
  <2> QED
    BY <2>1, <2>2, GotoMoves
<1>5. CASE job[g].op = "deploy" /\ ~ok
  <2>1. Return(g)
    BY <1>5 DEF Synced
  <2> QED
    BY <2>1, IdleMoves
<1> QED
  BY <1>3, <1>4, <1>5

LEMMA BeginMoves ==
    ASSUME JobsInv, NEW g \in Goroutines,
           StartDeploy(g) \/ StartUpdate(g) \/ StartReinstall(g) \/ StartSetup(g)
    PROVE  Moved(g)
<1>1. ASSUME NEW op \in {"deploy", "update", "reinstall", "setup"}, NEW pc \in Pcs,
             NEW p \in Trees, NEW ports \in SUBSET Instances, Begin(g, op, pc, p, ports),
             OpAt(op, pc), pc \notin SyncPcs \cup CopyPcs, op = "deploy" => p \in Instances
      PROVE  Moved(g)
  <2> DEFINE fault == at[Base] # "off"
             j == [Idle EXCEPT !.op = op, !.pc = pc, !.port = p, !.ports = ports,
                              !.todo = ports, !.fault = fault]
  <2>1. job' = [job EXCEPT ![g] = j] /\ op \in Ops
    BY <1>1 DEF Begin
  <2>2. Base \in Trees /\ fault \in BOOLEAN
    BY DEF Trees
  <2> HIDE DEF fault
  <2>3. Idle \in Jobs
    BY <2>2 DEF Idle, Jobs
  <2>4. /\ j \in Jobs
        /\ j.op = op /\ j.pc = pc /\ j.port = p /\ j.ports = ports /\ j.todo = ports
        /\ j.then = Idle.then
    BY <2>1, <2>2, <2>3 DEF Jobs, Pcs, CopyPcs, SyncPcs
  <2> HIDE DEF j
  <2>5. Shape(j)
    BY <1>1, <2>4 DEF Shape, PortAt, ThenAt, Idle
  <2> QED
    BY <2>1, <2>4, <2>5 DEF Moved
<1> USE DEF OpAt, Pcs, CopyPcs, SyncPcs, Trees
<1>2. CASE StartDeploy(g)
  <2>1. PICK p \in Instances :
           Begin(g, "deploy", IF Has(Base, "game") THEN "down" ELSE "steam", p, {})
    BY <1>2 DEF StartDeploy
  <2>2. CASE Has(Base, "game")
    <3>1. Begin(g, "deploy", "down", p, {})
      BY <2>1, <2>2
    <3> QED
      BY <1>1, <3>1
  <2>3. CASE ~Has(Base, "game")
    <3>1. Begin(g, "deploy", "steam", p, {})
      BY <2>1, <2>3
    <3> QED
      BY <1>1, <3>1
  <2> QED
    BY <2>2, <2>3
<1>3. CASE StartUpdate(g)
  BY <1>1, <1>3 DEF StartUpdate
<1>4. CASE StartReinstall(g)
  BY <1>1, <1>4 DEF StartReinstall
<1>5. CASE StartSetup(g)
  BY <1>1, <1>5 DEF StartSetup
<1> QED
  BY <1>2, <1>3, <1>4, <1>5

\* The steps up to the setup container ...
LEMMA BaseMoves ==
    ASSUME JobsInv, NEW g \in Goroutines,
           \/ Stop(g) \/ Down(g) \/ WipeBase(g) \/ SteamOk(g) \/ SteamFail(g)
           \/ OpenSource(g) \/ OpenTmp(g) \/ WriteTmp(g) \/ RenameTmp(g) \/ CopyFileFails(g)
           \/ Ensure(g) \/ Fill(g) \/ Setup(g) \/ SetupDone(g)
    PROVE  Moved(g)
<1>1. job[g] \in Jobs /\ OpAt(job[g].op, job[g].pc) /\ PortAt(job[g]) /\ ThenAt(job[g])
  BY DEF JobsInv, Shape
<1> DEFINE op == job[g].op
           pc == job[g].pc
<1>2. /\ op \in {"deploy", "update", "reinstall", "setup", "none"} /\ job[g].to \in Trees
      /\ job[g].then \in {"none", "setup", "down", "fill", "up"} /\ job[g].port \in Trees
      /\ job[g].try \in {"link", "relink"} /\ job[g].fault \in BOOLEAN /\ Base \in Trees
  BY <1>1, TreesAssumption DEF Jobs, Trees
<1>3. /\ {"wipebase", "steam", "up", "create", "write", "rename", "fill", "next", "wait",
           "wipe", "setup", "down"} \subseteq Pcs
      /\ {"wipebase", "steam", "up", "fill", "next", "wait", "open", "setup", "down"}
             \subseteq Pcs \ SyncPcs
      /\ {"wipebase", "steam", "up", "fill", "next", "wait", "setup", "down"} \cap CopyPcs = {}
      /\ "open" \in CopyPcs
  BY DEF Pcs, CopyPcs, SyncPcs
<1>4. \A x \in {"steam", "up", "open", "create", "write", "rename", "fill"} :
         op # "none" => OpAt(op, x)
  BY DEF OpAt, SyncPcs
<1>5. pc # "idle" => op # "none"
  BY <1>1 DEF OpAt
<1>6. CASE Stop(g)
  <2>1. PICK up \in SUBSET job[g].ports, next \in {"wipebase", "steam"} :
           job' = [job EXCEPT ![g].pc = next, ![g].fault = @ \/ up # {}]
    BY <1>6 DEF Stop
  <2>2. job' = [job EXCEPT ![g] = [job[g] EXCEPT !.pc = next, !.try = job[g].try,
                                              !.fault = job[g].fault \/ up # {}]]
    BY <1>1, <2>1 DEF JobsInv, Jobs
  <2>3. OpAt(op, next) /\ next \in Pcs \ SyncPcs /\ next \notin CopyPcs
    BY <1>1, <1>3, <1>6, <2>1 DEF Stop, At, OpAt, SyncPcs
  <2>4. (job[g].fault \/ up # {}) \in BOOLEAN
    OBVIOUS
  <2> QED
    BY <1>2, <2>2, <2>3, <2>4, GoesTo
<1>7. CASE Down(g)
  <2>1. op = "deploy"
    BY <1>1, <1>7 DEF Down, At, OpAt
  <2>2. OpAt(op, "wipe") /\ "wipe" \notin CopyPcs
    BY <2>1 DEF OpAt, SyncPcs, CopyPcs
  <2> QED
    BY <1>3, <1>7, <2>1, <2>2, GotoMoves DEF Down
<1>8. CASE WipeBase(g)
  <2>1. Goto(g, "steam") \/ Return(g)
    BY <1>8 DEF WipeBase
  <2>2. op # "none"
    BY <1>5, <1>8 DEF WipeBase, At
  <2> QED
    BY <1>3, <1>4, <2>1, <2>2, GotoMoves, IdleMoves
<1>9. CASE SteamOk(g)
  <2>1. job' = [job EXCEPT ![g].pc = "open", ![g].to = Base,
                         ![g].then = IF job[g].op = "deploy" THEN "down" ELSE "setup"]
    BY <1>9 DEF SteamOk
  <2>2. op # "none"
    BY <1>5, <1>9 DEF SteamOk, At
  <2>3. OpAt(op, "open")
    BY <1>4, <2>2
  <2>4. CASE op = "deploy"
    <3>1. job' = [job EXCEPT ![g].pc = "open", ![g].to = Base, ![g].then = "down"]
      BY <2>1, <2>4
    <3>2. OpAt(op, "down")
      BY <2>4 DEF OpAt, SyncPcs
    <3> QED
      BY <1>2, <1>3, <2>3, <3>1, <3>2, CopyMoves
  <2>5. CASE op # "deploy"
    <3>1. job' = [job EXCEPT ![g].pc = "open", ![g].to = Base, ![g].then = "setup"]
      BY <2>1, <2>5
    <3>2. OpAt(op, "setup")
      BY <1>2, <2>2, <2>5 DEF OpAt, SyncPcs
    <3> QED
      BY <1>2, <1>3, <2>3, <3>1, <3>2, CopyMoves
  <2> QED
    BY <2>4, <2>5
<1>10. CASE SteamFail(g)
  <2>1. Goto(g, "up") \/ Return(g)
    BY <1>10 DEF SteamFail
  <2>2. op # "none"
    BY <1>5, <1>10 DEF SteamFail, At
  <2> QED
    BY <1>3, <1>4, <2>1, <2>2, GotoMoves, IdleMoves
<1>11. CASE OpenSource(g) \/ OpenTmp(g) \/ WriteTmp(g)
  <2>1. pc \in {"open", "create", "write"}
    BY <1>11 DEF OpenSource, OpenTmp, WriteTmp, At
  <2>2. job[g].then # "none" /\ op # "none"
    BY <1>1, <1>5, <2>1 DEF ThenAt, CopyPcs
  <2>3. PICK x \in {"create", "write", "rename"} : Goto(g, x)
    BY <1>11 DEF OpenSource, OpenTmp, WriteTmp
  <2>4. x \in Pcs /\ x \notin SyncPcs /\ OpAt(op, x)
    BY <1>3, <1>4, <2>2 DEF SyncPcs
  <2> QED
    BY <2>2, <2>3, <2>4, GotoMoves
<1>12. CASE RenameTmp(g) \/ CopyFileFails(g)
  <2>1. pc \in CopyPcs /\ (Closed(g, job[g].then) \/ Return(g))
    BY <1>12 DEF RenameTmp, CopyFileFails, At, CopyPcs
  <2>2. job[g].then \in {"setup", "down", "fill", "up"} /\ OpAt(op, job[g].then)
    BY <1>1, <1>2, <2>1 DEF ThenAt
  <2>3. job[g].then \in Pcs \ SyncPcs /\ job[g].then \notin CopyPcs
    BY <1>3, <2>2
  <2>4. CASE Closed(g, job[g].then)
    <3>1. job' = [job EXCEPT ![g].pc = job[g].then, ![g].to = Base, ![g].then = "none"]
      BY <2>4 DEF Closed
    <3> QED
      BY <1>2, <2>2, <2>3, <3>1, CopyMoves
  <2> QED
    BY <2>1, <2>4, IdleMoves
<1>13. CASE Ensure(g)
  <2>1. op # "none"
    BY <1>5, <1>13 DEF Ensure, At
  <2>2. OpAt(op, "open") /\ OpAt(op, "fill")
    BY <1>4, <2>1
  <2>3. CASE Goto(g, "fill")
    BY <1>3, <2>2, <2>3, GotoMoves
  <2>4. CASE job' = [job EXCEPT ![g].pc = "open", ![g].to = Base, ![g].then = "fill"]
    BY <1>2, <1>3, <2>2, <2>4, CopyMoves
  <2> QED
    BY <1>13, <2>3, <2>4 DEF Ensure
<1>14. CASE Fill(g)
  <2>1. op # "none"
    BY <1>5, <1>14 DEF Fill, At
  <2>2. OpAt(op, "open") /\ OpAt(op, "up")
    BY <1>4, <2>1
  <2>3. CASE Goto(g, "up")
    BY <1>3, <2>2, <2>3, GotoMoves
  <2>4. CASE job' = [job EXCEPT ![g].pc = "open", ![g].to = job[g].port, ![g].then = "up"]
    BY <1>2, <1>3, <2>2, <2>4, CopyMoves
  <2> QED
    BY <1>14, <2>3, <2>4, IdleMoves DEF Fill
<1>15. CASE Setup(g) \/ SetupDone(g)
  <2>1. op \in {"update", "reinstall", "setup"}
    BY <1>1, <1>15 DEF Setup, SetupDone, At, OpAt
  <2>2. OpAt(op, "wait") /\ (op # "setup" => OpAt(op, "next"))
    BY <2>1 DEF OpAt, SyncPcs
  <2>3. CASE Goto(g, "wait") \/ Fails(g, "wait")
    BY <1>3, <2>2, <2>3, GotoMoves
  <2>4. CASE Goto(g, "next") /\ op # "setup"
    BY <1>3, <2>2, <2>4, GotoMoves
  <2> QED
    BY <1>15, <2>3, <2>4, IdleMoves DEF Setup, SetupDone
<1> QED
  BY <1>6, <1>7, <1>8, <1>9, <1>10, <1>11, <1>12, <1>13, <1>14, <1>15

\* ... and those of the syncs and after them.
LEMMA SyncMoves ==
    ASSUME JobsInv, NEW g \in Goroutines,
           \/ SyncNext(g) \/ Wipe(g) \/ Own(g) \/ LinkOk(g) \/ LinkFail(g) \/ Chown(g)
           \/ Deep(g) \/ Up(g)
    PROVE  Moved(g)
<1>1. job[g] \in Jobs /\ OpAt(job[g].op, job[g].pc) /\ PortAt(job[g]) /\ ThenAt(job[g])
  BY DEF JobsInv, Shape
<1> DEFINE op == job[g].op
           pc == job[g].pc
<1>2. /\ job[g].try \in {"link", "relink"} /\ job[g].fault \in BOOLEAN
      /\ job[g].ports \in SUBSET Instances /\ job[g].todo \in SUBSET Instances
  BY <1>1 DEF Jobs
<1>3. /\ SyncPcs \subseteq Pcs /\ SyncPcs \cap CopyPcs = {}
      /\ {"own", "link", "chown", "deep", "wipe"} \subseteq SyncPcs
  BY DEF Pcs, CopyPcs, SyncPcs
<1>4. ASSUME pc \in SyncPcs
      PROVE  /\ op = "deploy" \/ job[g].port \in job[g].ports
             /\ \A x \in SyncPcs : OpAt(op, x)
  <2>1. op \in {"deploy", "update", "reinstall"}
    BY <1>1, <1>4 DEF OpAt
  <2> QED
    BY <1>1, <1>4, <2>1 DEF PortAt, OpAt, SyncPcs
<1>5. ASSUME pc \in SyncPcs, NEW x \in {"own", "link", "chown", "deep", "wipe"},
             Goto(g, x) \/ Fails(g, x)
      PROVE  Moved(g)
  BY <1>3, <1>4, <1>5, GotoMoves
<1>6. CASE SyncNext(g)
  <2>1. op \in {"update", "reinstall"}
    BY <1>1, <1>6 DEF SyncNext, At, OpAt
  <2>2. ASSUME NEW p \in job[g].todo,
               job' = [job EXCEPT ![g].pc = "wipe", ![g].port = p, ![g].todo = @ \ {p},
                                 ![g].try = "link"]
        PROVE  Moved(g)
    <3> DEFINE j == [job[g] EXCEPT !.pc = "wipe", !.port = p, !.todo = job[g].todo \ {p},
                                  !.try = "link"]
    <3>1. job' = [job EXCEPT ![g] = j]
      BY <1>1, <2>2 DEF JobsInv, Jobs
    <3>2. p \in Trees
      BY <1>2 DEF Trees
    <3>3. j \in Jobs
      BY <1>1, <3>2 DEF Jobs
    <3>4. /\ j.op = op /\ j.pc = "wipe" /\ j.port = p /\ j.ports = job[g].ports
          /\ j.todo = job[g].todo \ {p} /\ j.then = job[g].then
      BY <1>1 DEF Jobs
    <3> HIDE DEF j
    <3>5. OpAt(j.op, j.pc)
      BY <2>1, <3>4 DEF OpAt, SyncPcs
    <3>6. PortAt(j)
      BY <1>1, <2>1, <3>4 DEF PortAt
    <3>7. ThenAt(j)
      BY <1>1, <3>4 DEF ThenAt, CopyPcs
    <3> QED
      BY <3>1, <3>3, <3>5, <3>6, <3>7 DEF Moved, Shape
  <2>3. CASE Goto(g, "up")
    <3>1. OpAt(op, "up") /\ "up" \in Pcs \ (CopyPcs \cup SyncPcs)
      BY <2>1 DEF OpAt, Pcs, CopyPcs, SyncPcs
    <3> QED
      BY <2>3, <3>1, GotoMoves
  <2> QED
    BY <1>6, <2>2, <2>3 DEF SyncNext
<1>7. CASE Wipe(g)
  <2>1. pc \in SyncPcs
    BY <1>7 DEF Wipe, At, SyncPcs
  <2>2. Goto(g, "link") \/ Goto(g, "own") \/ Synced(g, FALSE) \/ Fails(g, "link")
    BY <1>7 DEF Wipe
  <2> QED
    BY <1>5, <2>1, <2>2, SyncedMoves
<1>8. CASE Own(g)
  <2>1. pc \in SyncPcs
    BY <1>8 DEF Own, At, SyncPcs
  <2>2. Goto(g, "link") \/ Fails(g, "link")
    BY <1>8 DEF Own
  <2> QED
    BY <1>5, <2>1, <2>2
<1>9. CASE LinkOk(g) \/ Deep(g)
  <2>1. pc \in SyncPcs
    BY <1>9 DEF LinkOk, Deep, At, SyncPcs
  <2>2. \E ok \in BOOLEAN : Synced(g, ok)
    <3>1. CASE LinkOk(g)
      <4>1. Has(Base, "game") \in BOOLEAN /\ Synced(g, Has(Base, "game"))
        BY <3>1 DEF LinkOk, Has
      <4> QED
        BY <4>1
    <3>2. CASE Deep(g)
      <4> DEFINE all == Missing(job[g].port) = Held(Base) /\ Has(Base, "game")
      <4>1. all \in BOOLEAN /\ (Synced(g, all) \/ Synced(g, FALSE))
        BY <3>2 DEF Deep
      <4> HIDE DEF all
      <4> QED
        BY <4>1
    <3> QED
      BY <1>9, <3>1, <3>2
  <2> QED
    BY <2>1, <2>2, SyncedMoves
<1>10. CASE LinkFail(g)
  <2>1. pc \in SyncPcs
    BY <1>10 DEF LinkFail, At, SyncPcs
  <2>2. PICK x \in {"chown", "deep"} : Goto(g, x) \/ Fails(g, x)
    BY <1>10 DEF LinkFail
  <2> QED
    BY <1>5, <2>1, <2>2
<1>11. CASE Chown(g)
  <2>1. pc \in SyncPcs
    BY <1>11 DEF Chown, At, SyncPcs
  <2>2. CASE Fails(g, "deep")
    BY <1>5, <2>1, <2>2
  <2>3. CASE job' = [job EXCEPT ![g].pc = "wipe", ![g].try = "relink"]
    <3>1. job' = [job EXCEPT ![g] = [job[g] EXCEPT !.pc = "wipe", !.try = "relink",
                                                !.fault = job[g].fault]]
      BY <1>1, <2>3 DEF JobsInv, Jobs
    <3> QED
      BY <1>2, <1>3, <1>4, <2>1, <3>1, GoesTo
  <2> QED
    BY <1>11, <2>2, <2>3 DEF Chown
<1>12. CASE Up(g)
  BY <1>12, IdleMoves DEF Up
<1> QED
  BY <1>6, <1>7, <1>8, <1>9, <1>10, <1>11, <1>12

\* Each step of a command moves its own job alone.
LEMMA CommandMoves ==
    ASSUME JobsInv, NEW g \in Goroutines, Command(g)
    PROVE  Moved(g)
  BY BeginMoves, BaseMoves, SyncMoves DEF Command

-----------------------------------------------------------------------------
(* What the steps do to the disk                                           *)

\* d is a disk, and no file is open in it that is not open now.
Plain(d) == Sound(d) /\ \A n \in Opened : Named(d, n) => Named(disk, n)

LEMMA NamesApart == Names \cap Opened = {}
  BY DEF Names, Opened, Files

\* The base steps of most actions.
LEMMA RemovePlain ==
    ASSUME Sound(disk), NEW t, NEW fs, Remove(t, fs)
    PROVE  Plain(disk')
  BY WithoutSound DEF Remove, Left, Plain

LEMMA ReplacePlain ==
    ASSUME Sound(disk), NEW t \in Trees, NEW f \in Files, NEW s \in States, NEW o \in Owners,
           Replace(t, f, s, o)
    PROVE  Plain(disk')
<1>1. <<t, f>> \notin Opened
  BY PairIn, NamesApart
<1> QED
  BY <1>1, ReplaceSound DEF Plain

LEMMA OverwritePlain ==
    ASSUME Sound(disk), NEW t, NEW f, NEW s \in States, Overwrite(t, f, s)
    PROVE  Plain(disk')
  BY WrittenSound DEF Overwrite, Plain

LEMMA ChownPlain == ASSUME Sound(disk), ChownBase PROVE Plain(disk')
  BY ChownSound DEF Plain

LEMMA LinksPlain ==
    ASSUME Sound(disk), NEW p \in Trees, NEW fs \in SUBSET Linkable(p)
    PROVE  Plain(Links(p, fs))
<1>1. fs \in SUBSET Files /\ \A f \in fs : ~Has(p, f)
  BY DEF Linkable, Held
<1> QED
  BY <1>1, LinksSound, NamesApart DEF Plain

LEMMA CopiesPlain ==
    ASSUME Sound(disk), NEW p \in Trees, NEW fs \in SUBSET Missing(p)
    PROVE  Plain(Copies(p, fs))
  BY CopiesSound, NamesApart DEF Plain

LEMMA WipePartPlain == ASSUME Sound(disk), WipePart PROVE Plain(disk')
  BY RemovePlain DEF WipePart

LEMMA SamePlain == ASSUME Sound(disk), UNCHANGED disk PROVE Plain(disk')
  BY DEF Plain

\* What is read of an inode is of its type.
LEMMA InodeTyped ==
    ASSUME Sound(disk), NEW t, NEW f, Has(t, f)
    PROVE  Inode(t, f).s \in States /\ Inode(t, f).owner \in Owners
<1>1. Inode(t, f) \in disk
  BY InodeIn
<1> QED
  BY <1>1 DEF Sound, Inodes

\* SteamCMD may have wiped the base before.
LEMMA SteamPlain ==
    ASSUME Sound(disk), NEW g \in Goroutines, SteamOk(g)
    PROVE  Plain(disk')
<1>1. "raw" \in States /\ "agent" \in Owners /\ Base \in Trees /\ "game" \in Files
  BY DEF States, Owners, Trees, Files
<1>2. CASE UNCHANGED disk
  BY <1>2, SamePlain
<1>3. CASE Replace(Base, "game", "raw", "agent")
  BY <1>1, <1>3, ReplacePlain
<1>4. CASE disk' = Left(Base, Files) \cup {File({<<Base, "game">>}, "raw", "agent")}
  <2> DEFINE d == Without(disk, {Base} \X Files)
  <2>1. Sound(d) /\ \A n : Named(d, n) <=> Named(disk, n) /\ n \notin {Base} \X Files
    BY WithoutSound
  <2> HIDE DEF d
  <2>2. \A n \in {<<Base, "game">>} : ~Named(d, n)
    BY <1>1, <2>1
  <2>3. <<Base, "game">> \in Names
    BY <1>1, PairIn
  <2>4. {<<Base, "game">>} \in (SUBSET (Names \cup Opened)) \ {{}}
    BY <2>3
  <2> DEFINE e == d \cup {File({<<Base, "game">>}, "raw", "agent")}
  <2>5. Sound(e) /\ \A n : Named(e, n) <=> Named(d, n) \/ n \in {<<Base, "game">>}
    BY <1>1, <2>1, <2>2, <2>4, AddSound
  <2>6. disk' = e
    BY <1>4 DEF d, Left
  <2> HIDE DEF e
  <2> QED
    BY <2>1, <2>3, <2>5, <2>6, NamesApart DEF Plain
<1> QED
  BY <1>2, <1>3, <1>4 DEF SteamOk

LEMMA RenamePlain ==
    ASSUME Sound(disk), NEW g \in Goroutines, job[g].to \in Trees, RenameTmp(g)
    PROVE  Plain(disk') /\ ~Named(disk', <<g, "in">>) /\ ~Named(disk', <<g, "out">>)
<1> DEFINE so  == <<job[g].to, "so">>
           tmp == <<job[g].to, "tmp">>
           a   == Without(disk, {so})
           b   == Linked(a, tmp, so)
           c   == Without(b, {tmp, <<g, "in">>, <<g, "out">>})
<1>1. disk' = c
  BY DEF RenameTmp
<1>2. so \in Names /\ so \notin Opened
  BY PairIn, NamesApart DEF Files
<1>3. Sound(a) /\ \A n : Named(a, n) <=> Named(disk, n) /\ n \notin {so}
  BY WithoutSound
<1> HIDE DEF a, so, tmp
<1>4. Sound(b) /\ \A n : Named(b, n) <=> Named(a, n) \/ (n = so /\ Named(a, tmp))
  BY <1>2, <1>3, LinkedSound
<1> HIDE DEF b
<1>5. Sound(c) /\ \A n : Named(c, n) <=> Named(b, n) /\ n \notin {tmp, <<g, "in">>, <<g, "out">>}
  BY <1>4, WithoutSound
<1> HIDE DEF c
<1> QED
  BY <1>1, <1>2, <1>3, <1>4, <1>5 DEF Plain

LEMMA CloseFailedPlain ==
    ASSUME Sound(disk), NEW g \in Goroutines, CopyFileFails(g)
    PROVE  Plain(disk') /\ ~Named(disk', <<g, "in">>) /\ ~Named(disk', <<g, "out">>)
<1> DEFINE gone == {<<g, "in">>, <<g, "out">>} \cup
                   IF At(g, "write") THEN {<<job[g].to, "tmp">>} ELSE {}
<1>1. disk' = Without(disk, gone)
  BY DEF CopyFileFails
<1>2. <<g, "in">> \in gone /\ <<g, "out">> \in gone
  OBVIOUS
<1> HIDE DEF gone
<1> QED
  BY <1>1, <1>2, WithoutSound DEF Plain

\* All steps of a command but those that open a file.
LEMMA CommandPlain ==
    ASSUME Sound(disk), JobsInv, NEW g \in Goroutines, Command(g),
           ~OpenSource(g), ~OpenTmp(g)
    PROVE  Plain(disk')
<1>1. job[g] \in Jobs
  BY DEF JobsInv
<1>2. job[g].port \in Trees /\ job[g].to \in Trees
  BY <1>1 DEF Jobs
<1>3. CASE StartDeploy(g) \/ StartUpdate(g) \/ StartReinstall(g) \/ StartSetup(g)
  BY <1>3, SamePlain DEF StartDeploy, StartUpdate, StartReinstall, StartSetup, Begin
<1>4. CASE Stop(g) \/ Down(g) \/ Ensure(g) \/ Fill(g) \/ Setup(g) \/ SetupDone(g) \/ SyncNext(g)
           \/ Up(g)
  BY <1>4, SamePlain DEF Stop, Down, Ensure, Fill, Setup, SetupDone, SyncNext, Up
<1>5. CASE WipeBase(g)
  BY <1>5, WipePartPlain, RemovePlain DEF WipeBase, WipeAll
<1>6. CASE SteamOk(g)
  BY <1>6, SteamPlain
<1>7. CASE SteamFail(g)
  BY <1>7, WipePartPlain, SamePlain DEF SteamFail
<1>8. CASE WriteTmp(g)
  <2> DEFINE s == IF Has(g, "in") THEN Inode(g, "in").s ELSE "raw"
  <2>1. s \in States
    BY InodeTyped DEF States
  <2>2. Overwrite(g, "out", s)
    BY <1>8 DEF WriteTmp
  <2> QED
    BY <2>1, <2>2, OverwritePlain
<1>9. CASE RenameTmp(g)
  BY <1>2, <1>9, RenamePlain
<1>10. CASE CopyFileFails(g)
  BY <1>10, CloseFailedPlain
<1>11. CASE Wipe(g)
  BY <1>11, RemovePlain DEF Wipe
<1>12. CASE Own(g) \/ Chown(g)
  BY <1>12, ChownPlain, SamePlain DEF Own, Chown
<1>13. CASE LinkOk(g)
  <2>1. disk' = Links(job[g].port, Linkable(job[g].port))
    BY <1>13 DEF LinkOk
  <2> QED
    BY <1>2, <2>1, LinksPlain
<1>14. CASE LinkFail(g)
  <2>1. \E fs \in SUBSET Linkable(job[g].port) : disk' = Links(job[g].port, fs)
    BY <1>14 DEF LinkFail
  <2> QED
    BY <1>2, <2>1, LinksPlain
<1>15. CASE Deep(g)
  <2>1. \E fs \in SUBSET Missing(job[g].port) : disk' = Copies(job[g].port, fs)
    BY <1>15 DEF Deep
  <2> QED
    BY <1>2, <2>1, CopiesPlain
<1> QED
  BY <1>3, <1>4, <1>5, <1>6, <1>7, <1>8, <1>9, <1>10, <1>11, <1>12, <1>13, <1>14, <1>15
  DEF Command

\* A file is open only where the command copies it.
Opens(g) ==
    /\ Has(g, "in") => job[g].pc \in {"create", "write", "rename"}
    /\ Has(g, "out") => job[g].pc \in {"write", "rename"}

LEMMA HasNamed == ASSUME NEW t, NEW f PROVE Has(t, f) <=> Named(disk, <<t, f>>)
  BY DEF Has, Named

LEMMA OpenSourceSound ==
    ASSUME Sound(disk), NEW g \in Goroutines, Opens(g), OpenSource(g)
    PROVE  /\ Sound(disk')
           /\ \A n \in Opened : Named(disk', n) => Named(disk, n) \/ n = <<g, "in">>
<1>1. <<g, "in">> \in Opened /\ ~Named(disk, <<g, "in">>)
  BY HasNamed DEF OpenSource, Opens, Opened, At
<1>2. CASE UNCHANGED disk
  BY <1>2
<1>3. CASE disk' = Linked(disk, <<Base, "so">>, <<g, "in">>)
  BY <1>1, <1>3, LinkedSound
<1> QED
  BY <1>2, <1>3 DEF OpenSource

LEMMA OpenTmpSound ==
    ASSUME Sound(disk), NEW g \in Goroutines, Opens(g), job[g].to \in Trees, OpenTmp(g)
    PROVE  /\ Sound(disk')
           /\ \A n \in Opened : Named(disk', n) => Named(disk, n) \/ n = <<g, "out">>
<1> DEFINE tmp == <<job[g].to, "tmp">>
           out == <<g, "out">>
<1>1. out \in Opened /\ ~Named(disk, out) /\ At(g, "create")
  BY HasNamed DEF OpenTmp, Opens, Opened, At
<1>2. tmp \in Names /\ tmp \notin Opened
  BY PairIn, NamesApart DEF Files
<1>3. Has(job[g].to, "tmp") <=> Named(disk, tmp)
  BY HasNamed
<1>4. disk' = IF Has(job[g].to, "tmp") THEN Linked(Written(disk, tmp, "part"), tmp, out)
              ELSE disk \cup {File({tmp, out}, "part", "agent")}
  BY DEF OpenTmp
<1>5. "part" \in States /\ "agent" \in Owners
  BY DEF States, Owners
<1> HIDE DEF tmp, out
<1>6. CASE Has(job[g].to, "tmp")
  <2> DEFINE d == Written(disk, tmp, "part")
  <2>1. Sound(d) /\ \A n : Named(d, n) <=> Named(disk, n)
    BY <1>5, WrittenSound
  <2> HIDE DEF d
  <2>2. disk' = Linked(d, tmp, out)
    BY <1>4, <1>6 DEF d
  <2> QED
    BY <1>1, <2>1, <2>2, LinkedSound DEF out
<1>7. CASE ~Has(job[g].to, "tmp")
  <2>1. {tmp, out} \in (SUBSET (Names \cup Opened)) \ {{}}
    BY <1>1, <1>2
  <2>2. \A n \in {tmp, out} : ~Named(disk, n)
    BY <1>1, <1>3, <1>7
  <2> DEFINE e == disk \cup {File({tmp, out}, "part", "agent")}
  <2>3. Sound(e) /\ \A n : Named(e, n) <=> Named(disk, n) \/ n \in {tmp, out}
    BY <1>5, <2>1, <2>2, AddSound
  <2>4. disk' = e
    BY <1>4, <1>7
  <2> HIDE DEF e
  <2> QED
    BY <1>2, <2>3, <2>4 DEF out
<1> QED
  BY <1>6, <1>7

\* Entrypoints open no files for a copy.
LEMMA EntrypointPlain ==
    ASSUME Sound(disk), NEW t \in Trees, Entrypoint(t)
    PROVE  Plain(disk')
<1>1. /\ {"raw", "ours", "part"} \subseteq States /\ "root" \in Owners
      /\ {"game", "plugins", "log"} \subseteq Files
  BY DEF States, Owners, Files
<1>2. CASE EntryCheck(t) \/ UnpackFail(t) \/ GameEnds(t)
  BY <1>2, SamePlain DEF EntryCheck, UnpackFail, GameEnds
<1>3. CASE Unpack(t)
  BY <1>1, <1>3, ReplacePlain DEF Unpack
<1>4. CASE Patch(t)
  <2>1. CASE UNCHANGED disk
    BY <2>1, SamePlain
  <2>2. CASE Has(t, "game") /\ Replace(t, "game", "ours", Inode(t, "game").owner)
    BY <1>1, <2>2, InodeTyped, ReplacePlain
  <2> QED
    BY <1>4, <2>1, <2>2 DEF Patch
<1>5. CASE Configure(t)
  <2>1. CASE UNCHANGED disk
    BY <2>1, SamePlain
  <2>2. CASE Overwrite(t, "plugins", "ours")
    BY <1>1, <2>2, OverwritePlain
  <2>3. CASE Has(t, "plugins") /\ Replace(t, "plugins", "ours", Inode(t, "plugins").owner)
    BY <1>1, <2>3, InodeTyped, ReplacePlain
  <2> QED
    BY <1>5, <2>1, <2>2, <2>3 DEF Configure
<1>6. CASE TouchLog(t)
  <2>1. CASE UNCHANGED disk
    BY <2>1, SamePlain
  <2>2. CASE Overwrite(t, "log", "ours")
    BY <1>1, <2>2, OverwritePlain
  <2>3. CASE Replace(t, "log", "raw", "root")
    BY <1>1, <2>3, ReplacePlain
  <2> QED
    BY <1>6, <2>1, <2>2, <2>3 DEF TouchLog
<1>7. CASE Killed(t)
  <2>1. CASE UNCHANGED disk
    BY <2>1, SamePlain
  <2>2. CASE Has(t, "plugins") /\ Replace(t, "plugins", "part", Inode(t, "plugins").owner)
    BY <1>1, <2>2, InodeTyped, ReplacePlain
  <2> QED
    BY <1>7, <2>1, <2>2 DEF Killed
<1> QED
  BY <1>2, <1>3, <1>4, <1>5, <1>6, <1>7 DEF Entrypoint

LEMMA EntrypointAlone ==
    ASSUME NEW t \in Trees, Entrypoint(t)
    PROVE  UNCHANGED <<top, job, mishaps>>
  BY DEF Entrypoint, EntryCheck, Unpack, UnpackFail, Patch, Configure, TouchLog, GameEnds, Killed

LEMMA RestartSound ==
    ASSUME Sound(disk), JobsInv, AgentRestart
    PROVE  Sound(disk') /\ \A n \in Opened : ~Named(disk', n)
<1>1. PICK g \in Goroutines : \E d \in Interrupted(g) : disk' = Without(d, Opened)
  BY DEF AgentRestart
<1>2. PICK d \in Interrupted(g) : disk' = Without(d, Opened)
  BY <1>1
<1>3. job[g] \in Jobs
  BY DEF JobsInv
<1> DEFINE p == job[g].port
<1>4. p \in Trees
  BY <1>3 DEF Jobs
<1>5. Sound(d)
  <2>1. ASSUME NEW names, d = Without(disk, names) PROVE Sound(d)
    BY <2>1, WithoutSound
  <2>2. CASE d = disk
    BY <2>2
  <2>3. CASE At(g, "wipe") /\ ~Foreign(p)
    <3>1. PICK fs : d = Left(p, fs)
      BY <2>3 DEF Interrupted, At
    <3> QED
      BY <2>1, <3>1 DEF Left
  <2>4. CASE At(g, "wipebase") /\ ~Foreign(Base)
    <3>1. PICK fs : d = Left(Base, fs)
      BY <2>4 DEF Interrupted, At
    <3> QED
      BY <2>1, <3>1 DEF Left
  <2>5. CASE At(g, "steam")
    <3>1. d = disk \/ d = Without(disk, {<<Base, "game">>})
      BY <2>5 DEF Interrupted, At
    <3> QED
      BY <2>1, <2>2, <3>1
  <2>6. CASE At(g, "link")
    <3>1. PICK fs \in SUBSET Linkable(p) : d = Links(p, fs)
      BY <2>6 DEF Interrupted, At
    <3> QED
      BY <1>4, <3>1, LinksPlain DEF Plain
  <2>7. CASE At(g, "deep")
    <3>1. PICK fs \in SUBSET Missing(p) : d = Copies(p, fs)
      BY <2>7 DEF Interrupted, At
    <3> QED
      BY <1>4, <3>1, CopiesPlain DEF Plain
  <2>8. CASE /\ ~(At(g, "wipe") /\ ~Foreign(p)) /\ ~(At(g, "wipebase") /\ ~Foreign(Base))
             /\ ~At(g, "steam") /\ ~At(g, "link") /\ ~At(g, "deep")
    <3>1. d \in {disk}
      BY <2>8 DEF Interrupted
    <3> QED
      BY <2>2, <3>1
  <2> QED
    BY <2>3, <2>4, <2>5, <2>6, <2>7, <2>8
<1> QED
  BY <1>2, <1>5, WithoutSound

-----------------------------------------------------------------------------
(* Types                                                                   *)

Stages == {"off", "start", "plugins", "patch", "config", "log", "run"}

LEMMA MishapCounted ==
    ASSUME mishaps \in 0..Mishaps, Mishap \/ UNCHANGED mishaps
    PROVE  mishaps' \in 0..Mishaps
  BY TreesAssumption DEF Mishap

LEMMA CommandTyped ==
    ASSUME TypeOK, JobsInv, NEW g \in Goroutines, Command(g)
    PROVE  top' \in Owners /\ mishaps' \in 0..Mishaps /\ at' \in [Trees -> Stages]
<1>1. job[g] \in Jobs /\ at \in [Trees -> Stages] /\ Base \in Trees /\ top \in Owners
  BY DEF JobsInv, TypeOK, Stages, Trees
<1>2. top' \in Owners
  <2>1. top' = top \/ top' = "agent"
    BY DEF Command, StartDeploy, StartUpdate, StartReinstall, StartSetup, Begin, Stop, Down,
       WipeBase, SteamOk, SteamFail, OpenSource, OpenTmp, WriteTmp, RenameTmp, CopyFileFails,
       Ensure, Fill, Setup, SetupDone, SyncNext, Wipe, Own, LinkOk, LinkFail, Chown, Deep, Up,
       ChownBase
  <2> QED
    BY <1>1, <2>1 DEF Owners
<1>3. mishaps' \in 0..Mishaps
  <2>1. Mishap \/ UNCHANGED mishaps
    BY DEF Command, StartDeploy, StartUpdate, StartReinstall, StartSetup, Begin, Stop, Down,
       WipeBase, SteamOk, SteamFail, OpenSource, OpenTmp, WriteTmp, RenameTmp, CopyFileFails,
       Ensure, Fill, Setup, SetupDone, SyncNext, Wipe, Own, LinkOk, LinkFail, Chown, Deep, Up,
       Fails
  <2> QED
    BY <2>1, MishapCounted DEF TypeOK
<1>4. at' \in [Trees -> Stages]
  <2>1. CASE UNCHANGED at
    BY <1>1, <2>1
  <2>2. CASE Stop(g)
    <3>1. PICK up : at' = [t \in Trees |-> IF t \in job[g].ports \ up THEN "off" ELSE at[t]]
      BY <2>2 DEF Stop
    <3> QED
      BY <1>1, <3>1 DEF Stages
  <2>3. CASE \E t \in Trees, s \in {"off", "start"} : at' = [at EXCEPT ![t] = s]
    BY <1>1, <2>3 DEF Stages
  <2>4. CASE Up(g)
    <3>1. PICK ps : at' = [t \in Trees |->
                         IF t \in ps /\ (job[g].op = "deploy" \/ at[t] = "off") THEN "start"
                         ELSE at[t]]
      BY <2>4 DEF Up
    <3> QED
      BY <1>1, <3>1 DEF Stages
  <2>5. job[g].port \in Trees
    BY <1>1 DEF Jobs
  <2> QED
    BY <1>1, <2>1, <2>2, <2>3, <2>4, <2>5
    DEF Command, StartDeploy, StartUpdate, StartReinstall, StartSetup, Begin, Down,
        WipeBase, SteamOk, SteamFail, OpenSource, OpenTmp, WriteTmp, RenameTmp, CopyFileFails,
        Ensure, Fill, Setup, SetupDone, SyncNext, Wipe, Own, LinkOk, LinkFail, Chown, Deep
<1> QED
  BY <1>2, <1>3, <1>4

\* A step of an entrypoint is one of a container that is there, and concerns no other.
LEMMA EntrypointAt ==
    ASSUME NEW t \in Trees, Entrypoint(t), at \in [Trees -> Stages]
    PROVE  at[t] # "off" /\ \E s \in Stages : at' = [at EXCEPT ![t] = s]
  BY DEF Entrypoint, EntryCheck, Unpack, UnpackFail, Patch, Configure, TouchLog, GameEnds,
         Killed, Step, Exit, Stages

Inv == TypeOK /\ \A g \in Goroutines : Shape(job[g]) /\ Opens(g)

LEMMA InvInit == Init => Inv
<1> SUFFICES ASSUME Init PROVE Inv
  OBVIOUS
<1>1. PICK who \in Owners, held \in {{}, {"game"}, {"game", "so"}} :
           disk = {File({<<Base, f>>}, "raw", who) : f \in held}
  BY DEF Init
<1>2. Base \in Trees /\ "raw" \in States /\ held \subseteq Files
  BY DEF Trees, States, Files
<1>3. ASSUME NEW f \in held PROVE File({<<Base, f>>}, "raw", who) \in Inodes
  <2>1. <<Base, f>> \in Names
    BY <1>2, PairIn
  <2>2. {<<Base, f>>} \in (SUBSET (Names \cup Opened)) \ {{}}
    BY <2>1
  <2> QED
    BY <1>2, <2>2 DEF File, Inodes
<1>4. \A i \in disk : \E f \in held : i = File({<<Base, f>>}, "raw", who)
  BY <1>1
<1>5. Sound(disk)
  <2>1. disk \subseteq Inodes
    BY <1>3, <1>4
  <2>2. ASSUME NEW i \in disk, NEW j \in disk, i.links \cap j.links # {} PROVE i = j
    <3>1. PICK f \in held : i = File({<<Base, f>>}, "raw", who)
      BY <1>4
    <3>2. PICK x \in held : j = File({<<Base, x>>}, "raw", who)
      BY <1>4
    <3>3. {<<Base, f>>} \cap {<<Base, x>>} # {}
      BY <2>2, <3>1, <3>2 DEF File
    <3>4. f = x
      BY <3>3
    <3> QED
      BY <3>1, <3>2, <3>4
  <2> QED
    BY <2>1, <2>2 DEF Sound
<1>6. \A n \in Opened : ~Named(disk, n)
  <2>1. ASSUME NEW n, Named(disk, n) PROVE n \in Names
    <3>1. PICK i \in disk : n \in i.links
      BY <2>1 DEF Named
    <3>2. PICK f \in held : i = File({<<Base, f>>}, "raw", who)
      BY <1>4
    <3>3. n = <<Base, f>>
      BY <3>1, <3>2 DEF File
    <3> QED
      BY <1>2, <3>3, PairIn
  <2> QED
    BY <2>1, NamesApart
<1>7. Idle \in Jobs /\ Shape(Idle)
  BY DEF Idle, Jobs, Trees, Shape, OpAt, PortAt, ThenAt, CopyPcs, SyncPcs
<1>8. \A g \in Goroutines : Shape(job[g]) /\ Opens(g)
  BY <1>6, <1>7, HasNamed DEF Init, Opens, Opened
<1>9. TypeOK
  <2>1. job \in [Goroutines -> Jobs]
    BY <1>7 DEF Init
  <2>2. at \in [Trees -> Stages]
    BY DEF Init, Stages
  <2>3. mishaps \in 0..Mishaps /\ top \in Owners
    BY TreesAssumption DEF Init
  <2> QED
    BY <1>5, <2>1, <2>2, <2>3 DEF TypeOK, Sound, Stages
<1> QED
  BY <1>8, <1>9 DEF Inv

LEMMA InvNext == Inv /\ [Next]_vars => Inv'
<1> SUFFICES ASSUME Inv, [Next]_vars PROVE Inv'
  OBVIOUS
<1>1. Sound(disk) /\ JobsInv /\ TypeOK
  BY DEF Inv, TypeOK, Sound, JobsInv
<1>2. ASSUME Sound(disk'), JobsInv', top' \in Owners, mishaps' \in 0..Mishaps,
             at' \in [Trees -> Stages], \A g \in Goroutines : Opens(g)'
      PROVE  Inv'
  BY <1>2 DEF Inv, TypeOK, Sound, JobsInv, Stages
<1>3. ASSUME NEW g \in Goroutines, Command(g) PROVE Inv'
  <2>1. JobsInv' /\ \A h \in Goroutines \ {g} : job'[h] = job[h]
    BY <1>1, <1>3, CommandMoves, MovedKeeps
  <2>2. top' \in Owners /\ mishaps' \in 0..Mishaps /\ at' \in [Trees -> Stages]
    BY <1>1, <1>3, CommandTyped
  <2>3. job[g] \in Jobs /\ Opens(g)
    BY <1>1 DEF JobsInv, Inv
  <2>4. job[g].to \in Trees
    BY <2>3 DEF Jobs
  <2> DEFINE in(h) == <<h, "in">>
             out(h) == <<h, "out">>
  <2>5. \A h \in Goroutines : in(h) \in Opened /\ out(h) \in Opened
    BY DEF Opened
  <2>6. \A h \in Goroutines :
           /\ Opens(h) <=> /\ Named(disk, in(h)) => job[h].pc \in {"create", "write", "rename"}
                           /\ Named(disk, out(h)) => job[h].pc \in {"write", "rename"}
           /\ Opens(h)' <=> /\ Named(disk', in(h)) => job'[h].pc \in {"create", "write", "rename"}
                            /\ Named(disk', out(h)) => job'[h].pc \in {"write", "rename"}
    BY DEF Opens, Has, Named
  <2>7. \A h \in Goroutines \ {g} : in(h) # in(g) /\ out(h) # out(g) /\ in(h) # out(g)
                                    /\ out(h) # in(g)
    OBVIOUS
  <2>8. in(g) # out(g) /\ \A h \in Goroutines : Opens(h)
    BY DEF Inv
  <2> HIDE DEF in, out
  <2>9. CASE OpenSource(g)
    <3>1. Sound(disk') /\ \A n \in Opened : Named(disk', n) => Named(disk, n) \/ n = in(g)
      BY <1>1, <2>3, <2>9, OpenSourceSound DEF in
    <3>2. job[g].pc = "open" /\ job'[g].pc = "create"
      BY <1>1, <2>3, <2>9 DEF OpenSource, Goto, At, JobsInv, Jobs
    <3>3. \A h \in Goroutines : Opens(h)'
      BY <2>1, <2>5, <2>6, <2>7, <2>8, <3>1, <3>2
    <3> QED
      BY <1>2, <2>1, <2>2, <3>1, <3>3
  <2>10. CASE OpenTmp(g)
    <3>1. Sound(disk') /\ \A n \in Opened : Named(disk', n) => Named(disk, n) \/ n = out(g)
      BY <1>1, <2>3, <2>4, <2>10, OpenTmpSound DEF out
    <3>2. job[g].pc = "create" /\ job'[g].pc = "write"
      BY <1>1, <2>3, <2>10 DEF OpenTmp, Goto, At, JobsInv, Jobs
    <3>3. \A h \in Goroutines : Opens(h)'
      BY <2>1, <2>5, <2>6, <2>7, <2>8, <3>1, <3>2
    <3> QED
      BY <1>2, <2>1, <2>2, <3>1, <3>3
  <2>11. CASE ~OpenSource(g) /\ ~OpenTmp(g)
    <3>1. Sound(disk') /\ \A n \in Opened : Named(disk', n) => Named(disk, n)
      BY <1>1, <1>3, <2>11, CommandPlain DEF Plain
    <3>2. Opens(g)'
      <4>1. CASE job[g].pc \notin {"create", "write", "rename"}
        BY <2>5, <2>6, <2>8, <3>1, <4>1
      <4>2. CASE RenameTmp(g) \/ CopyFileFails(g)
        <5>1. ~Named(disk', in(g)) /\ ~Named(disk', out(g))
          BY <1>1, <2>4, <4>2, RenamePlain, CloseFailedPlain DEF in, out
        <5> QED
          BY <2>6, <5>1
      <4>3. CASE WriteTmp(g)
        <5>1. job'[g].pc = "rename"
          BY <1>1, <2>3, <4>3 DEF WriteTmp, Goto, At, JobsInv, Jobs
        <5> QED
          BY <2>6, <5>1
      <4>4. job[g].pc \in {"create", "write", "rename"} =>
               RenameTmp(g) \/ CopyFileFails(g) \/ WriteTmp(g)
        BY <1>3, <2>11 DEF Command, StartDeploy, StartUpdate, StartReinstall, StartSetup, Begin,
           Stop, Down, WipeBase, SteamOk, SteamFail, Ensure, Fill, Setup, SetupDone, SyncNext,
           Wipe, Own, LinkOk, LinkFail, Chown, Deep, Up, At
      <4> QED
        BY <4>1, <4>2, <4>3, <4>4
    <3>3. \A h \in Goroutines : Opens(h)'
      BY <2>1, <2>5, <2>6, <2>8, <3>1, <3>2
    <3> QED
      BY <1>2, <2>1, <2>2, <3>1, <3>3
  <2> QED
    BY <2>9, <2>10, <2>11
<1>4. ASSUME NEW t \in Trees, Entrypoint(t) PROVE Inv'
  <2>1. Plain(disk') /\ UNCHANGED <<top, job, mishaps>>
    BY <1>1, <1>4, EntrypointPlain, EntrypointAlone
  <2>2. at' \in [Trees -> Stages]
    BY <1>1, <1>4, EntrypointAt DEF TypeOK, Stages
  <2>3. \A g \in Goroutines : Opens(g)'
    BY <2>1 DEF Plain, Inv, Opens, Opened, Has, Named
  <2>4. JobsInv' /\ Sound(disk') /\ top' \in Owners /\ mishaps' \in 0..Mishaps
    BY <1>1, <2>1 DEF JobsInv, TypeOK, Plain
  <2> QED
    BY <1>2, <2>2, <2>3, <2>4
<1>5. CASE AgentRestart
  <2>1. Sound(disk') /\ \A n \in Opened : ~Named(disk', n)
    BY <1>1, <1>5, RestartSound
  <2>2. job' = [g \in Goroutines |-> Idle] /\ UNCHANGED <<top, at>>
    BY <1>5 DEF AgentRestart
  <2>3. Idle \in Jobs /\ Shape(Idle)
    BY DEF Idle, Jobs, Trees, Shape, OpAt, PortAt, ThenAt, CopyPcs, SyncPcs
  <2>4. JobsInv'
    BY <2>2, <2>3 DEF JobsInv
  <2>5. \A g \in Goroutines : Opens(g)'
    BY <2>1 DEF Opens, Opened, Has, Named
  <2>6. mishaps' \in 0..Mishaps
    BY <1>1, <1>5, MishapCounted DEF AgentRestart, TypeOK
  <2> QED
    BY <1>1, <1>2, <2>1, <2>2, <2>4, <2>5, <2>6 DEF TypeOK, Stages
<1>6. CASE UNCHANGED vars
  BY <1>6 DEF vars, Inv, TypeOK, Opens, Has
<1> QED
  BY <1>3, <1>4, <1>5, <1>6 DEF Next

THEOREM TreesInvariant == Spec => []Inv
  BY InvInit, InvNext, PTL DEF Spec

\* Every variable keeps its type; no name is a link to two inodes, however many commands
\* write, link, copy and remove at the same time, and wherever they are cut short.
THEOREM TypeCorrect == Spec => []TypeOK
<1>1. Inv => TypeOK
  BY DEF Inv
<1> QED
  BY <1>1, TreesInvariant, PTL

-----------------------------------------------------------------------------
(* Deep copies                                                             *)

\* What a deploy links for the first time, it links with its first try.
FirstTry(j) ==
    j.op = "deploy" /\ (j.pc \in {"steam", "down"} \/ (j.pc \in CopyPcs /\ j.then = "down"))
        => j.try = "link"

\* While nothing has failed, nobody but the command is where it works: the setup
\* container is there only when it waits for it, the containers of its copies are down.
QuietAt(g) ==
    ~job[g].fault /\ job[g].pc # "idle" =>
        /\ at[Base] # "off" => job[g].pc = "wait"
        /\ job[g].op \in {"update", "reinstall"} /\ job[g].pc # "stop" =>
               \A t \in job[g].ports : at[t] = "off"
        /\ job[g].op = "deploy" /\ job[g].pc \in SyncPcs => at[job[g].port] = "off"

\* Whatever the base has is the agent's.
AgentsBase == \A i \in disk : (\E f \in Files : <<Base, f>> \in i.links) => i.owner = "agent"

\* It links into a copy that is empty, and the second time from a base of its own.
QuietDisk(g) ==
    ~job[g].fault =>
        /\ job[g].pc \in {"own", "link"} => \A f \in Files : ~Has(job[g].port, f)
        /\ job[g].pc \in {"wipe", "link"} /\ job[g].try = "relink" => AgentsBase
        /\ job[g].pc # "deep"

Quiet(g) == FirstTry(job[g]) /\ QuietAt(g) /\ QuietDisk(g)

\* A command has ended, or goes on with what it was sent for.
Onward(j, k) ==
    \/ k = Idle
    \/ /\ k.op = j.op /\ k.ports = j.ports
       /\ j.op = "deploy" => k.port = j.port
       /\ j.fault => k.fault
       /\ k.pc \notin {"idle", "stop"}
       /\ k.pc \in SyncPcs => j.pc \in SyncPcs \cup {"down", "next"}
       /\ FirstTry(j) => FirstTry(k)

LEMMA Continues ==
    ASSUME JobsInv, NEW g \in Goroutines, Command(g), ~At(g, "idle")
    PROVE  Onward(job[g], job'[g])
<1>1. job[g] \in Jobs /\ Shape(job[g]) /\ job \in [Goroutines -> Jobs]
  BY DEF JobsInv
<1> DEFINE j == job[g]
<1>2. ASSUME NEW pc \in Pcs \ {"stop"}, Goto(g, pc) \/ Fails(g, pc),
             pc \in SyncPcs => j.pc \in SyncPcs \cup {"down", "next"},
             pc \in CopyPcs => j.pc \in CopyPcs,
             j.op = "deploy" => pc \notin {"steam", "down"}
      PROVE  Onward(j, job'[g])
  <2> DEFINE k == job'[g]
  <2>1. /\ k.op = j.op /\ k.ports = j.ports /\ k.port = j.port /\ k.pc = pc /\ k.try = j.try
        /\ k.then = j.then /\ (j.fault => k.fault)
    BY <1>1, <1>2 DEF Goto, Fails, Jobs
  <2>2. FirstTry(j) => FirstTry(k)
    BY <1>2, <2>1 DEF FirstTry
  <2>3. pc # "idle"
    BY DEF Pcs, CopyPcs, SyncPcs
  <2> HIDE DEF k
  <2> QED
    BY <1>2, <2>1, <2>2, <2>3 DEF Onward, k
<1>3. ASSUME Return(g) PROVE Onward(j, job'[g])
  BY <1>1, <1>3 DEF Return, Onward
<1>4. ASSUME NEW pc \in {"open", "setup", "down", "fill", "up"}, NEW to,
             NEW then \in {"none", "setup", "down", "fill", "up"},
             job' = [job EXCEPT ![g].pc = pc, ![g].to = to, ![g].then = then],
             pc = "down" => j.then = "down" /\ j.pc \in CopyPcs,
             then = "down" => j.pc = "steam"
      PROVE  Onward(j, job'[g])
  <2> DEFINE k == job'[g]
  <2>1. /\ k.op = j.op /\ k.ports = j.ports /\ k.port = j.port /\ k.pc = pc /\ k.try = j.try
        /\ k.then = then /\ k.fault = j.fault
    BY <1>1, <1>4 DEF Jobs
  <2> HIDE DEF j, k
  <2>2. FirstTry(j) => FirstTry(k)
    <3>1. pc \notin {"steam"}
      BY <1>4
    <3>2. CASE pc = "down"
      BY <1>4, <2>1, <3>2 DEF FirstTry, CopyPcs
    <3>3. CASE pc # "down"
      BY <1>4, <2>1, <3>1, <3>3 DEF FirstTry, CopyPcs
    <3> QED
      BY <3>2, <3>3
  <2> QED
    BY <1>4, <2>1, <2>2 DEF Onward, SyncPcs, k
<1>5. ASSUME NEW ok \in BOOLEAN, Synced(g, ok), j.pc \in SyncPcs PROVE Onward(j, job'[g])
  <2>1. CASE Return(g)
    BY <1>3, <2>1
  <2>2. CASE Goto(g, "ensure")
    BY <1>2, <2>2 DEF Pcs, CopyPcs, SyncPcs
  <2>3. CASE job' = [job EXCEPT ![g].pc = "next", ![g].fault = @ \/ ~ok] /\ j.op # "deploy"
    <3> DEFINE k == job'[g]
    <3>1. /\ k.op = j.op /\ k.ports = j.ports /\ k.port = j.port /\ k.pc = "next"
          /\ (j.fault => k.fault)
      BY <1>1, <2>3 DEF Jobs
    <3> HIDE DEF k
    <3> QED
      BY <2>3, <3>1 DEF Onward, FirstTry, SyncPcs, k
  <2> QED
    BY <1>5, <2>1, <2>2, <2>3 DEF Synced
<1> USE DEF Pcs, CopyPcs, SyncPcs
<1>6. CASE StartDeploy(g) \/ StartUpdate(g) \/ StartReinstall(g) \/ StartSetup(g)
  BY <1>6 DEF StartDeploy, StartUpdate, StartReinstall, StartSetup, Begin
<1>7. CASE Stop(g)
  <2> DEFINE next == IF j.op = "reinstall" THEN "wipebase" ELSE "steam"
  <2>1. PICK up : job' = [job EXCEPT ![g].pc = next, ![g].fault = @ \/ up # {}]
    BY <1>7 DEF Stop
  <2> DEFINE k == job'[g]
  <2>2. /\ k.op = j.op /\ k.ports = j.ports /\ k.port = j.port /\ k.pc = next /\ k.try = j.try
        /\ k.then = j.then /\ (j.fault => k.fault)
    BY <1>1, <2>1 DEF Jobs
  <2>3. j.op # "deploy"
    BY <1>1, <1>7 DEF Stop, At, Shape, OpAt
  <2> HIDE DEF k
  <2> QED
    BY <2>2, <2>3 DEF Onward, FirstTry, k
<1>8. CASE Down(g)
  BY <1>2, <1>8 DEF Down, At
<1>9. CASE WipeBase(g)
  <2>1. j.op # "deploy"
    BY <1>1, <1>9 DEF WipeBase, At, Shape, OpAt
  <2> QED
    BY <1>2, <1>3, <1>9, <2>1 DEF WipeBase, At
<1>10. CASE SteamOk(g)
  BY <1>4, <1>10 DEF SteamOk, At
<1>11. CASE SteamFail(g)
  BY <1>2, <1>3, <1>11 DEF SteamFail, At
<1>12. CASE OpenSource(g) \/ OpenTmp(g) \/ WriteTmp(g)
  BY <1>2, <1>12 DEF OpenSource, OpenTmp, WriteTmp, At
<1>13. CASE RenameTmp(g) \/ CopyFileFails(g)
  <2>1. j.pc \in CopyPcs /\ (Closed(g, j.then) \/ Return(g))
    BY <1>13 DEF RenameTmp, CopyFileFails, At
  <2>2. j.then \in {"setup", "down", "fill", "up"}
    BY <1>1, <2>1 DEF Shape, ThenAt, Jobs
  <2>3. CASE Closed(g, j.then)
    BY <1>4, <2>1, <2>2, <2>3 DEF Closed
  <2> QED
    BY <1>3, <2>1, <2>3
<1>14. CASE Ensure(g)
  BY <1>2, <1>4, <1>14 DEF Ensure
<1>15. CASE Fill(g)
  BY <1>2, <1>3, <1>4, <1>15 DEF Fill
<1>16. CASE Setup(g) \/ SetupDone(g)
  BY <1>2, <1>3, <1>16 DEF Setup, SetupDone
<1>17. CASE SyncNext(g)
  <2>1. j.op # "deploy" /\ j.pc = "next"
    BY <1>1, <1>17 DEF SyncNext, At, Shape, OpAt
  <2>2. CASE Goto(g, "up")
    BY <1>2, <2>2
  <2>3. ASSUME NEW p \in j.todo,
               job' = [job EXCEPT ![g].pc = "wipe", ![g].port = p, ![g].todo = @ \ {p},
                                 ![g].try = "link"]
        PROVE  Onward(j, job'[g])
    <3> DEFINE k == job'[g]
    <3>1. k.op = j.op /\ k.ports = j.ports /\ k.pc = "wipe" /\ k.fault = j.fault
      BY <1>1, <2>3 DEF Jobs
    <3> HIDE DEF k
    <3> QED
      BY <2>1, <3>1 DEF Onward, FirstTry, k
  <2> QED
    BY <1>17, <2>2, <2>3 DEF SyncNext
<1>18. CASE Wipe(g)
  BY <1>2, <1>5, <1>18 DEF Wipe, At
<1>19. CASE Own(g)
  BY <1>2, <1>19 DEF Own, At
<1>20. CASE LinkOk(g)
  <2>1. Has(Base, "game") \in BOOLEAN /\ Synced(g, Has(Base, "game")) /\ j.pc \in SyncPcs
    BY <1>20 DEF LinkOk, Has, At
  <2> QED
    BY <1>5, <2>1
<1>21. CASE LinkFail(g)
  <2>1. PICK x \in {"chown", "deep"} : Goto(g, x) \/ Fails(g, x)
    BY <1>21 DEF LinkFail
  <2> QED
    BY <1>2, <1>21, <2>1 DEF LinkFail, At
<1>22. CASE Chown(g)
  <2>1. CASE Fails(g, "deep")
    BY <1>2, <1>22, <2>1 DEF Chown, At
  <2>2. CASE job' = [job EXCEPT ![g].pc = "wipe", ![g].try = "relink"]
    <3> DEFINE k == job'[g]
    <3>1. /\ k.op = j.op /\ k.ports = j.ports /\ k.pc = "wipe" /\ k.fault = j.fault
          /\ k.port = j.port /\ k.then = j.then
      BY <1>1, <2>2 DEF Jobs
    <3>2. j.pc = "chown"
      BY <1>22 DEF Chown, At
    <3> HIDE DEF k
    <3> QED
      BY <3>1, <3>2 DEF Onward, FirstTry, k
  <2> QED
    BY <1>22, <2>1, <2>2 DEF Chown
<1>23. CASE Deep(g)
  <2> DEFINE all == Missing(j.port) = Held(Base) /\ Has(Base, "game")
  <2>1. all \in BOOLEAN /\ (Synced(g, all) \/ Synced(g, FALSE)) /\ j.pc \in SyncPcs
    BY <1>23 DEF Deep, At
  <2> HIDE DEF all
  <2> QED
    BY <1>5, <2>1
<1>24. CASE Up(g)
  BY <1>3, <1>24 DEF Up
<1> QED
  BY <1>6, <1>7, <1>8, <1>9, <1>10, <1>11, <1>12, <1>13, <1>14, <1>15, <1>16, <1>17, <1>18,
     <1>19, <1>20, <1>21, <1>22, <1>23, <1>24 DEF Command


\* What happens to tree t alone: files lose links, or new ones come that only t has.
Only(t) ==
    \A k \in disk' : \/ \E i \in disk : i.owner = k.owner /\ k.links \subseteq i.links
                     \/ \E f \in Files : k.links = {<<t, f>>}

LEMMA OnlyKeeps ==
    ASSUME NEW t, Only(t)
    PROVE  /\ \A u : u # t => \A f \in Files : Has(u, f)' => Has(u, f)
           /\ t # Base /\ AgentsBase => AgentsBase'
<1>1. ASSUME NEW u, u # t, NEW f \in Files, Has(u, f)' PROVE Has(u, f)
  <2>1. PICK k \in disk' : <<u, f>> \in k.links
    BY <1>1 DEF Has
  <2>2. PICK i \in disk : k.links \subseteq i.links
    BY <1>1, <2>1 DEF Only
  <2> QED
    BY <2>1, <2>2 DEF Has
<1>2. ASSUME t # Base, AgentsBase PROVE AgentsBase'
  <2>1. ASSUME NEW k \in disk', NEW f \in Files, <<Base, f>> \in k.links
        PROVE  k.owner = "agent"
    <3>1. PICK i \in disk : i.owner = k.owner /\ k.links \subseteq i.links
      BY <1>2, <2>1 DEF Only
    <3>2. <<Base, f>> \in i.links
      BY <2>1, <3>1
    <3> QED
      BY <1>2, <3>1, <3>2 DEF AgentsBase
  <2> QED
    BY <2>1 DEF AgentsBase
<1> QED
  BY <1>1, <1>2

LEMMA WithoutOnly ==
    ASSUME NEW d, Sound(d), NEW names, NEW k \in Without(d, names)
    PROVE  \E i \in d : i.owner = k.owner /\ k.links \subseteq i.links
<1>1. PICK i \in d : k = [i EXCEPT !.links = @ \ names]
  BY DEF Without
<1>2. i \in Inodes
  BY DEF Sound
<1>3. k.owner = i.owner /\ k.links = i.links \ names
  BY <1>1, <1>2 DEF Inodes
<1> QED
  BY <1>3

LEMMA ReplaceOnly ==
    ASSUME Sound(disk), NEW t, NEW f \in Files, NEW s, NEW o, Replace(t, f, s, o)
    PROVE  Only(t)
<1>1. \A k \in Without(disk, {<<t, f>>}) :
          \E i \in disk : i.owner = k.owner /\ k.links \subseteq i.links
  BY WithoutOnly
<1>2. File({<<t, f>>}, s, o).links = {<<t, f>>}
  BY DEF File
<1> QED
  BY <1>1, <1>2 DEF Replace, Only

LEMMA OverwriteOnly ==
    ASSUME Sound(disk), NEW t, NEW f, NEW s, Overwrite(t, f, s)
    PROVE  Only(t)
<1>1. ASSUME NEW k \in disk' PROVE \E i \in disk : i.owner = k.owner /\ k.links \subseteq i.links
  <2>1. PICK i \in disk : k = [i EXCEPT !.s = IF <<t, f>> \in i.links THEN s ELSE @]
    BY DEF Overwrite, Written
  <2>2. i \in Inodes
    BY DEF Sound
  <2>3. k.owner = i.owner /\ k.links = i.links
    BY <2>1, <2>2 DEF Inodes
  <2> QED
    BY <2>3
<1> QED
  BY <1>1 DEF Only

LEMMA RemoveOnly ==
    ASSUME Sound(disk), NEW t, NEW u, NEW fs, Remove(u, fs)
    PROVE  Only(t)
<1>1. \A k \in disk' : \E i \in disk : i.owner = k.owner /\ k.links \subseteq i.links
  BY WithoutOnly DEF Remove, Left
<1> QED
  BY <1>1 DEF Only

\* An entrypoint works on a container that is there, and on its tree.
LEMMA EntrypointOnly ==
    ASSUME Sound(disk), NEW t \in Trees, Entrypoint(t), at \in [Trees -> Stages]
    PROVE  /\ Only(t) /\ at[t] # "off"
           /\ \A u \in Trees \ {t} : at'[u] = at[u]
<1>0. disk' = disk => Only(t)
  BY DEF Only
<1>1. CASE EntryCheck(t)
  BY <1>0, <1>1 DEF EntryCheck, Exit, Step
<1>2. CASE Unpack(t)
  <2>1. Only(t)
    BY <1>2, ReplaceOnly DEF Unpack, Files
  <2> QED
    BY <1>2, <2>1 DEF Unpack, Step
<1>3. CASE UnpackFail(t)
  BY <1>0, <1>3 DEF UnpackFail, Exit
<1>4. CASE Patch(t)
  <2>1. Only(t)
    BY <1>0, <1>4, ReplaceOnly DEF Patch, Files
  <2> QED
    BY <1>4, <2>1 DEF Patch, Step
<1>5. CASE Configure(t)
  <2>1. Only(t)
    BY <1>0, <1>5, ReplaceOnly, OverwriteOnly DEF Configure, Files
  <2> QED
    BY <1>5, <2>1 DEF Configure, Step
<1>6. CASE TouchLog(t)
  <2>1. Only(t)
    BY <1>0, <1>6, ReplaceOnly, OverwriteOnly DEF TouchLog, Files
  <2> QED
    BY <1>6, <2>1 DEF TouchLog, Step
<1>7. CASE GameEnds(t)
  BY <1>0, <1>7 DEF GameEnds, Exit
<1>8. CASE Killed(t)
  <2>1. Only(t)
    BY <1>0, <1>8, ReplaceOnly DEF Killed, Files
  <2> QED
    BY <1>8, <2>1 DEF Killed, Exit
<1> QED
  BY <1>1, <1>2, <1>3, <1>4, <1>5, <1>6, <1>7, <1>8 DEF Entrypoint

LEMMA ChownsBase == ASSUME Sound(disk), ChownBase PROVE AgentsBase'
<1>1. ASSUME NEW k \in disk', NEW f \in Files, <<Base, f>> \in k.links
      PROVE  k.owner = "agent"
  <2> DEFINE ours(i) == \E x \in Files : <<Base, x>> \in i.links
  <2>1. PICK i \in disk : k = [i EXCEPT !.owner = IF ours(i) THEN "agent" ELSE @]
    BY DEF ChownBase
  <2>2. i \in Inodes
    BY DEF Sound
  <2>3. k.links = i.links /\ k.owner = IF ours(i) THEN "agent" ELSE i.owner
    BY <2>1, <2>2 DEF Inodes
  <2>4. ours(i)
    BY <1>1, <2>3
  <2> QED
    BY <2>3, <2>4
<1> QED
  BY <1>1 DEF AgentsBase

LEMMA WipedEmpty ==
    ASSUME Sound(disk), NEW p, Remove(p, Files)
    PROVE  \A f \in Files : ~Has(p, f)'
<1>1. ASSUME NEW f \in Files PROVE ~Has(p, f)'
  <2>1. <<p, f>> \in {p} \X Files
    OBVIOUS
  <2>2. ~Named(disk', <<p, f>>)
    <3> DEFINE names == {p} \X Files
    <3>1. disk' = Without(disk, names)
      BY DEF Remove, Left
    <3>2. <<p, f>> \in names
      BY <2>1
    <3> HIDE DEF names
    <3> QED
      BY <3>1, <3>2, WithoutSound
  <2> QED
    BY <2>2 DEF Named, Has
<1> QED
  BY <1>1


\* An empty copy of a base that is the agent's can be linked as a whole.
LEMMA AllLinkable ==
    ASSUME AgentsBase, NEW p, \A f \in Files : ~Has(p, f)
    PROVE  Linkable(p) = Held(Base)
<1>1. ASSUME NEW f \in Held(Base) PROVE Inode(Base, f).owner = "agent" /\ ~Has(p, f)
  <2>1. f \in Files /\ Inode(Base, f) \in disk /\ <<Base, f>> \in Inode(Base, f).links
    BY InodeIn DEF Held
  <2> QED
    BY <2>1 DEF AgentsBase
<1> QED
  BY <1>1 DEF Linkable

LEMMA IdleQuiet ==
    ASSUME NEW g, job'[g] = Idle
    PROVE  Quiet(g)'
<1>1. Idle.op = "none" /\ Idle.pc = "idle" /\ ~Idle.fault
  BY DEF Idle
<1>2. FirstTry(Idle)
  BY <1>1 DEF FirstTry
<1> HIDE DEF Idle
<1> QED
  BY <1>1, <1>2 DEF Quiet, QuietAt, QuietDisk

LEMMA BeginQuiet ==
    ASSUME JobsInv, NEW g \in Goroutines,
           StartDeploy(g) \/ StartUpdate(g) \/ StartReinstall(g) \/ StartSetup(g)
    PROVE  Quiet(g)'
<1>1. PICK op, pc, p, ports : /\ Begin(g, op, pc, p, ports)
                              /\ pc \in {"down", "steam", "stop"}
                              /\ op \in {"update", "reinstall"} => pc = "stop"
  BY DEF StartDeploy, StartUpdate, StartReinstall, StartSetup
<1> DEFINE k == [Idle EXCEPT !.op = op, !.pc = pc, !.port = p, !.ports = ports,
                             !.todo = ports, !.fault = at[Base] # "off"]
<1>2. job'[g] = k /\ at' = at
  BY <1>1 DEF Begin, JobsInv
<1>3. k.op = op /\ k.pc = pc /\ k.fault = (at[Base] # "off") /\ k.try = "link"
  BY DEF Idle
<1> HIDE DEF k
<1>4. FirstTry(job[g])'
  BY <1>2, <1>3 DEF FirstTry
<1>5. QuietAt(g)'
  BY <1>1, <1>2, <1>3 DEF QuietAt, SyncPcs
<1>6. QuietDisk(g)'
  BY <1>1, <1>2, <1>3 DEF QuietDisk
<1> QED
  BY <1>4, <1>5, <1>6 DEF Quiet

\* The containers, when the command stops them, starts them or waits for one ...
LEMMA AtQuiet ==
    ASSUME JobsInv, at \in [Trees -> Stages], NEW g \in Goroutines, QuietAt(g),
           Command(g), ~At(g, "idle"), Onward(job[g], job'[g]), job'[g] # Idle
    PROVE  QuietAt(g)'
<1> DEFINE j == job[g]
           k == job'[g]
<1>1. j \in Jobs /\ Shape(j) /\ job \in [Goroutines -> Jobs] /\ j.pc # "idle"
  BY DEF JobsInv, At
<1>2. /\ k.op = j.op /\ k.ports = j.ports /\ (j.fault => k.fault) /\ k.pc \notin {"idle", "stop"}
      /\ (j.op = "deploy" => k.port = j.port)
      /\ (k.pc \in SyncPcs => j.pc \in SyncPcs \cup {"down", "next"})
  BY DEF Onward
<1>3. j.ports \subseteq Instances /\ (j.op = "deploy" => j.port \in Instances)
  BY <1>1 DEF Jobs, Shape, PortAt
<1>4. Instances \subseteq Trees /\ Base \in Trees /\ Base \notin Instances
  BY TreesAssumption DEF Trees
<1>5. ASSUME UNCHANGED at, j.pc \notin {"stop", "down", "wait"} PROVE QuietAt(g)'
  <2>1. j.op = "deploy" => j.pc # "next"
    BY <1>1 DEF Shape, OpAt
  <2> HIDE DEF j, k
  <2>2. ~k.fault => at[Base] = "off"
    BY <1>1, <1>2, <1>5 DEF QuietAt, j
  <2>3. ~k.fault /\ k.op \in {"update", "reinstall"} => \A t \in k.ports : at[t] = "off"
    BY <1>1, <1>2, <1>5 DEF QuietAt, j
  <2>4. ~k.fault /\ k.op = "deploy" /\ k.pc \in SyncPcs => at[k.port] = "off"
    BY <1>1, <1>2, <1>5, <2>1 DEF QuietAt, j
  <2> QED
    BY <1>5, <2>2, <2>3, <2>4 DEF QuietAt, k
<1>6. CASE Stop(g)
  <2> DEFINE next == IF j.op = "reinstall" THEN "wipebase" ELSE "steam"
  <2>1. PICK up \in SUBSET j.ports :
           /\ at' = [t \in Trees |-> IF t \in j.ports \ up THEN "off" ELSE at[t]]
           /\ job' = [job EXCEPT ![g].pc = next, ![g].fault = @ \/ up # {}]
    BY <1>6 DEF Stop
  <2>2. k.fault <=> j.fault \/ up # {}
    BY <1>1, <2>1 DEF Jobs
  <2>3. j.op # "deploy" /\ j.pc = "stop"
    BY <1>1, <1>6 DEF Stop, At, Shape, OpAt
  <2> HIDE DEF j, k
  <2>4. ~k.fault => at'[Base] = "off"
    BY <1>1, <1>2, <1>3, <1>4, <2>1, <2>3 DEF QuietAt, j
  <2>5. ~k.fault => \A t \in k.ports : at'[t] = "off"
    BY <1>2, <1>3, <1>4, <2>1, <2>2
  <2> QED
    BY <1>2, <2>3, <2>4, <2>5 DEF QuietAt, k
<1>7. CASE Down(g)
  <2>1. j.op = "deploy" /\ j.pc = "down"
    BY <1>1, <1>7 DEF Down, At, Shape, OpAt
  <2>2. CASE at' = [at EXCEPT ![j.port] = "off"]
    <3>1. ~k.fault => at'[Base] = "off"
      BY <1>1, <1>2, <1>3, <1>4, <2>1, <2>2 DEF QuietAt
    <3>2. at'[k.port] = "off"
      BY <1>2, <1>3, <1>4, <2>1, <2>2
    <3> HIDE DEF j, k
    <3> QED
      BY <1>2, <2>1, <3>1, <3>2 DEF QuietAt, k
  <2>3. CASE Fails(g, "wipe")
    <3>1. k.fault
      BY <1>1, <2>3 DEF Fails, Jobs
    <3> QED
      BY <3>1 DEF QuietAt
  <2> QED
    BY <1>7, <2>2, <2>3 DEF Down
<1>8. CASE Setup(g)
  <2>1. j.pc = "setup" /\ j.op \in {"update", "reinstall", "setup"}
    BY <1>1, <1>8 DEF Setup, At, Shape, OpAt
  <2>2. CASE at' = [at EXCEPT ![Base] = "start"] /\ Goto(g, "wait")
    <3>1. k.pc = "wait"
      BY <1>1, <2>2 DEF Goto, Jobs
    <3>2. \A t \in Instances : at'[t] = at[t]
      BY <1>4, <2>2
    <3> HIDE DEF j, k
    <3>3. ~k.fault /\ k.op \in {"update", "reinstall"} => \A t \in k.ports : at[t] = "off"
      BY <1>1, <1>2, <2>1 DEF QuietAt, j
    <3> QED
      BY <1>2, <1>3, <2>1, <3>1, <3>2, <3>3 DEF QuietAt, SyncPcs, k
  <2>3. CASE Fails(g, "wait")
    <3>1. k.fault
      BY <1>1, <2>3 DEF Fails, Jobs
    <3> QED
      BY <3>1 DEF QuietAt
  <2> QED
    BY <1>8, <2>2, <2>3 DEF Setup
<1>9. CASE SetupDone(g)
  <2>1. at[Base] = "off" /\ j.pc = "wait" /\ at' = at
    BY <1>9 DEF SetupDone, At
  <2>2. j.op # "deploy"
    BY <1>1, <2>1 DEF Shape, OpAt
  <2> HIDE DEF j, k
  <2>3. ~k.fault /\ k.op \in {"update", "reinstall"} => \A t \in k.ports : at[t] = "off"
    BY <1>1, <1>2, <2>1 DEF QuietAt, j
  <2> QED
    BY <1>2, <2>1, <2>2, <2>3 DEF QuietAt, k
<1>10. CASE Up(g)
  BY <1>1, <1>10 DEF Up, Return
<1>11. CASE WipeBase(g) \/ SteamOk(g) \/ SteamFail(g) \/ OpenSource(g) \/ OpenTmp(g)
            \/ WriteTmp(g) \/ RenameTmp(g) \/ CopyFileFails(g)
  <2>1. at' = at /\ j.pc \notin {"stop", "down", "wait"}
    BY <1>11 DEF WipeBase, SteamOk, SteamFail, OpenSource, OpenTmp, WriteTmp, RenameTmp,
       CopyFileFails, At
  <2> QED
    BY <1>5, <2>1
<1>12. CASE Ensure(g) \/ Fill(g) \/ SyncNext(g) \/ Wipe(g) \/ Own(g) \/ LinkOk(g)
            \/ LinkFail(g) \/ Chown(g) \/ Deep(g)
  <2>1. at' = at /\ j.pc \notin {"stop", "down", "wait"}
    BY <1>12 DEF Ensure, Fill, SyncNext, Wipe, Own, LinkOk, LinkFail, Chown, Deep, At
  <2> QED
    BY <1>5, <2>1
<1>13. ~(StartDeploy(g) \/ StartUpdate(g) \/ StartReinstall(g) \/ StartSetup(g))
  BY DEF StartDeploy, StartUpdate, StartReinstall, StartSetup, Begin
<1> QED
  BY <1>6, <1>7, <1>8, <1>9, <1>10, <1>11, <1>12, <1>13 DEF Command

\* ... and the trees, when the command empties a copy and links it.
LEMMA DiskQuiet ==
    ASSUME JobsInv, Sound(disk), NEW g \in Goroutines, Quiet(g),
           Command(g), ~At(g, "idle"), Onward(job[g], job'[g]), job'[g] # Idle
    PROVE  QuietDisk(g)'
<1> DEFINE j == job[g]
           k == job'[g]
<1>1. j \in Jobs /\ Shape(j) /\ job \in [Goroutines -> Jobs] /\ j.pc # "idle"
  BY DEF JobsInv, At
<1>2. /\ (j.fault => k.fault)
      /\ (k.pc \in SyncPcs => j.pc \in SyncPcs \cup {"down", "next"})
  BY DEF Onward
<1>3. FirstTry(j) /\ QuietDisk(g)
  BY DEF Quiet
<1>0. PICK p : p = j.port
  OBVIOUS
<1>4. ASSUME k.fault \/ k.pc \notin SyncPcs PROVE QuietDisk(g)'
  BY <1>4 DEF QuietDisk, SyncPcs
<1>5. ASSUME NEW pc, Fails(g, pc) PROVE k.fault
  BY <1>1, <1>5 DEF Fails, Jobs
<1>6. ASSUME NEW ok \in BOOLEAN, Synced(g, ok) PROVE k.pc \notin SyncPcs
  BY <1>1, <1>6 DEF Synced, Goto, Return, SyncPcs, Jobs
<1>7. CASE j.pc \notin SyncPcs \cup {"down", "next"} \/ j.fault
  BY <1>2, <1>4, <1>7
<1>8. CASE Down(g)
  <2>1. j.op = "deploy" /\ j.pc = "down"
    BY <1>1, <1>8 DEF Down, At, Shape, OpAt
  <2>2. j.try = "link"
    BY <1>3, <2>1 DEF FirstTry
  <2>3. CASE Goto(g, "wipe")
    <3>1. k.pc = "wipe" /\ k.try = "link"
      BY <1>1, <2>2, <2>3 DEF Goto, Jobs
    <3> QED
      BY <3>1 DEF QuietDisk
  <2> QED
    BY <1>4, <1>5, <1>8, <2>3 DEF Down
<1>9. CASE SyncNext(g)
  <2>1. ASSUME NEW q, job' = [job EXCEPT ![g].pc = "wipe", ![g].port = q, ![g].todo = @ \ {q},
                                         ![g].try = "link"]
        PROVE  QuietDisk(g)'
    <3>1. k.pc = "wipe" /\ k.try = "link"
      BY <1>1, <2>1 DEF Jobs
    <3> QED
      BY <3>1 DEF QuietDisk
  <2>2. CASE Goto(g, "up")
    BY <1>1, <1>4, <2>2 DEF Goto, Jobs, SyncPcs
  <2> QED
    BY <1>9, <2>1, <2>2 DEF SyncNext
<1>10. CASE Wipe(g) /\ ~j.fault
  <2>1. CASE /\ Remove(j.port, Files)
             /\ Goto(g, IF top = "agent" \/ j.try # "link" THEN "link" ELSE "own")
    <3>1. k.port = p /\ k.try = j.try /\ k.pc \in {"link", "own"}
      BY <1>0, <1>1, <2>1 DEF Goto, Jobs
    <3>2. \A f \in Files : ~Has(p, f)'
      BY <1>0, <2>1, WipedEmpty
    <3>3. AgentsBase => AgentsBase'
      BY <2>1, RemoveOnly, OnlyKeeps DEF Base
    <3>4. j.try = "relink" => AgentsBase
      BY <1>3, <1>10 DEF QuietDisk, Wipe, At
    <3> HIDE DEF j, k
    <3> QED
      BY <3>1, <3>2, <3>3, <3>4 DEF QuietDisk, Has, k
  <2>2. CASE IF j.try = "link" THEN Mishap /\ Synced(g, FALSE) ELSE Fails(g, "link")
    BY <1>4, <1>5, <1>6, <2>2
  <2> QED
    BY <1>10, <2>1, <2>2 DEF Wipe
<1>11. CASE Own(g) /\ ~j.fault
  <2>1. CASE ChownBase /\ Goto(g, "link")
    <3>1. k.port = p /\ k.pc = "link"
      BY <1>0, <1>1, <2>1 DEF Goto, Jobs
    <3>2. \A f \in Files : ~Has(p, f)
      BY <1>0, <1>3, <1>11 DEF QuietDisk, Own, At
    <3>3. \A f \in Files : ~Has(p, f)'
      BY <2>1, <3>2, ChownSound DEF Named, Has
    <3>4. AgentsBase'
      BY <2>1, ChownsBase
    <3> HIDE DEF j, k
    <3> QED
      BY <3>1, <3>3, <3>4 DEF QuietDisk, Has, k
  <2> QED
    BY <1>4, <1>5, <1>11, <2>1 DEF Own
<1>12. CASE LinkOk(g)
  <2>1. Has(Base, "game") \in BOOLEAN /\ Synced(g, Has(Base, "game"))
    BY <1>12 DEF LinkOk, Has
  <2> QED
    BY <1>4, <1>6, <2>1
<1>13. CASE LinkFail(g) /\ ~j.fault
  <2>1. CASE Linkable(j.port) # Held(Base)
             /\ Goto(g, IF j.try = "link" THEN "chown" ELSE "deep")
    <3>1. \A f \in Files : ~Has(j.port, f)
      BY <1>3, <1>13 DEF QuietDisk, LinkFail, At
    <3>2. j.try # "relink"
      BY <1>3, <1>13, <2>1, <3>1, AllLinkable DEF QuietDisk, LinkFail, At
    <3>3. k.pc = "chown"
      BY <1>1, <2>1, <3>2 DEF Goto, Jobs
    <3> QED
      BY <3>3 DEF QuietDisk
  <2> QED
    BY <1>4, <1>5, <1>13, <2>1 DEF LinkFail
<1>14. CASE Chown(g) /\ ~j.fault
  <2>1. CASE ChownBase /\ job' = [job EXCEPT ![g].pc = "wipe", ![g].try = "relink"]
    <3>1. k.pc = "wipe"
      BY <1>1, <2>1 DEF Jobs
    <3>2. AgentsBase'
      BY <2>1, ChownsBase
    <3> QED
      BY <3>1, <3>2 DEF QuietDisk
  <2> QED
    BY <1>4, <1>5, <1>14, <2>1 DEF Chown
<1>15. CASE Deep(g)
  BY <1>2, <1>3, <1>4, <1>15 DEF QuietDisk, Deep, At
<1>16. j.pc \in SyncPcs \cup {"down", "next"} =>
          Down(g) \/ SyncNext(g) \/ Wipe(g) \/ Own(g) \/ LinkOk(g) \/ LinkFail(g) \/ Chown(g)
          \/ Deep(g)
  BY DEF Command, StartDeploy, StartUpdate, StartReinstall, StartSetup, Begin, Stop, WipeBase,
     SteamOk, SteamFail, OpenSource, OpenTmp, WriteTmp, RenameTmp, CopyFileFails, Ensure, Fill,
     Setup, SetupDone, Up, At, SyncPcs
<1> QED
  BY <1>7, <1>8, <1>9, <1>10, <1>11, <1>12, <1>13, <1>14, <1>15, <1>16


LEMMA EntrypointQuiet ==
    ASSUME JobsInv, Sound(disk), at \in [Trees -> Stages], NEW g \in Goroutines, Quiet(g),
           NEW t \in Trees, Entrypoint(t), job' = job
    PROVE  Quiet(g)'
<1> DEFINE j == job[g]
<1>1. /\ Only(t) /\ at[t] # "off"
      /\ \A u \in Trees \ {t} : at'[u] = at[u]
  BY EntrypointOnly
<1>2. j \in Jobs /\ Shape(j)
  BY DEF JobsInv
<1>3. Base \in Trees /\ Instances \subseteq Trees /\ j.ports \subseteq Instances
  BY <1>2 DEF Trees, Jobs
<1>4. j.pc \in SyncPcs => j.op \in {"deploy", "update", "reinstall"} /\ j.port \in Trees
                          /\ (j.op # "deploy" => j.port \in j.ports)
  BY <1>2 DEF Shape, OpAt, PortAt, Jobs
<1>5. FirstTry(j) /\ QuietAt(g) /\ QuietDisk(g)
  BY DEF Quiet
<1>6. \A u \in Trees : at[u] = "off" => at'[u] = "off"
  BY <1>1
<1>7. QuietAt(g)'
  BY <1>3, <1>4, <1>5, <1>6 DEF QuietAt, SyncPcs
<1>8. QuietDisk(g)'
  <2>1. ASSUME ~j.fault, j.pc \in {"own", "link"}, NEW f \in Files
        PROVE  ~Has(j.port, f)'
    <3>1. at[j.port] = "off"
      BY <1>4, <1>5, <2>1 DEF QuietAt, SyncPcs
    <3>2. j.port # t
      BY <1>1, <3>1
    <3>3. ~Has(j.port, f)
      BY <1>5, <2>1 DEF QuietDisk
    <3>4. PICK p : p = j.port
      OBVIOUS
    <3>5. ~Has(p, f)'
      BY <1>1, <3>2, <3>3, <3>4, OnlyKeeps
    <3> QED
      BY <3>4, <3>5 DEF Has
  <2>2. ASSUME ~j.fault, j.pc \in {"wipe", "link"}, j.try = "relink" PROVE AgentsBase'
    <3>1. at[Base] = "off" /\ AgentsBase
      BY <1>5, <2>2 DEF QuietAt, QuietDisk
    <3>2. t # Base
      BY <1>1, <3>1
    <3> QED
      BY <1>1, <3>1, <3>2, OnlyKeeps
  <2>3. ~j.fault => j.pc # "deep"
    BY <1>5 DEF QuietDisk
  <2> QED
    BY <2>1, <2>2, <2>3 DEF QuietDisk
<1> QED
  BY <1>5, <1>7, <1>8 DEF Quiet

LEMMA QuietInit == Init => \A g \in Goroutines : Quiet(g)
<1>1. Idle.op = "none" /\ Idle.pc = "idle"
  BY DEF Idle
<1>2. ASSUME Init, NEW g \in Goroutines PROVE Quiet(g)
  <2>1. job[g] = Idle
    BY <1>2 DEF Init
  <2> HIDE DEF Idle
  <2> QED
    BY <1>1, <2>1 DEF Quiet, FirstTry, QuietAt, QuietDisk
<1> QED
  BY <1>2

LEMMA QuietNext ==
    ASSUME NEW one, Goroutines = {one}, Inv, Quiet(one), [Next]_vars
    PROVE  Quiet(one)'
<1>1. one \in Goroutines /\ JobsInv /\ Sound(disk) /\ at \in [Trees -> Stages]
  BY DEF Inv, TypeOK, JobsInv, Sound, Stages
<1>2. CASE Command(one)
  <2>1. CASE At(one, "idle")
    <3>1. StartDeploy(one) \/ StartUpdate(one) \/ StartReinstall(one) \/ StartSetup(one)
      BY <1>2, <2>1 DEF Command, At, Stop, Down, WipeBase, SteamOk, SteamFail, OpenSource,
         OpenTmp, WriteTmp, RenameTmp, CopyFileFails, Ensure, Fill, Setup, SetupDone, SyncNext,
         Wipe, Own, LinkOk, LinkFail, Chown, Deep, Up
    <3> QED
      BY <1>1, <3>1, BeginQuiet
  <2>2. CASE job'[one] = Idle
    BY <2>2, IdleQuiet
  <2>3. CASE ~At(one, "idle") /\ job'[one] # Idle
    <3>1. Onward(job[one], job'[one])
      BY <1>1, <1>2, <2>3, Continues
    <3>2. FirstTry(job[one])'
      BY <2>3, <3>1 DEF Onward, Quiet
    <3>3. QuietAt(one)'
      BY <1>1, <1>2, <2>3, <3>1, AtQuiet DEF Quiet
    <3>4. QuietDisk(one)'
      BY <1>1, <1>2, <2>3, <3>1, DiskQuiet
    <3> QED
      BY <3>2, <3>3, <3>4 DEF Quiet
  <2> QED
    BY <2>1, <2>2, <2>3
<1>3. ASSUME NEW t \in Trees, Entrypoint(t) PROVE Quiet(one)'
  <2>1. job' = job
    BY <1>3 DEF Entrypoint, EntryCheck, Unpack, UnpackFail, Patch, Configure, TouchLog,
       GameEnds, Killed
  <2> QED
    BY <1>1, <1>3, <2>1, EntrypointQuiet
<1>4. CASE AgentRestart
  <2>1. job'[one] = Idle
    BY <1>1, <1>4 DEF AgentRestart
  <2> QED
    BY <2>1, IdleQuiet
<1>5. CASE UNCHANGED vars
  BY <1>5 DEF vars, Quiet, FirstTry, QuietAt, QuietDisk, AgentsBase, Has
<1> QED
  BY <1>2, <1>3, <1>4, <1>5 DEF Next

\* With one command at a time, a copy takes the space of the whole game only after
\* something failed, or while the setup container of an earlier command runs.
THEOREM DeepAfterFault ==
    ASSUME NEW one, Goroutines = {one}
    PROVE  Spec => []DeepOnlyAfterFault
<1>1. Init => Quiet(one)
  BY QuietInit
<1>2. Inv /\ Quiet(one) /\ [Next]_vars => Quiet(one)'
  BY QuietNext
<1>3. Quiet(one) => DeepOnlyAfterFault
  BY DEF Quiet, QuietDisk, DeepOnlyAfterFault, At
<1> QED
  BY <1>1, <1>2, <1>3, TreesInvariant, PTL DEF Spec

=============================================================================
