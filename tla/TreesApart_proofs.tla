-------------------------- MODULE TreesApart_proofs --------------------------
(***************************************************************************)
(* Why copies made of hard links behave like copies that share nothing:    *)
(* whoever writes to a file in place has it for himself, all others        *)
(* replace the file.  And why steamclient.so is always all there: what is  *)
(* renamed has been written, and what is left of a staging is never what a *)
(* copy has under the name itself.  With one command at a time.            *)
(***************************************************************************)
EXTENDS Trees_proofs

Reads == Files \ {"tmp", "log"}

\* The two names of steamclient.so.
Staged == {"so", "tmp"}

\* The links of a file go by one name, or by the two of steamclient.so.  What is open for
\* writing is a temporary file.  What goes by the name itself is all there, and is not what
\* the base has as its temporary file.  The configuration of the plugins is left half-written
\* only in a copy, in a file that the copy has for itself.
Solo(i) ==
    /\ \A t, u \in Trees, f, x \in Files :
          <<t, f>> \in i.links /\ <<u, x>> \in i.links => f = x \/ {f, x} \subseteq Staged
    /\ \A g \in Goroutines, t \in Trees, f \in Files :
          <<g, "out">> \in i.links /\ <<t, f>> \in i.links => f = "tmp"
    /\ \A t \in Trees : <<t, "so">> \in i.links => i.s = "raw" /\ <<Base, "tmp">> \notin i.links
    /\ \A t \in Trees : i.s = "part" /\ <<t, "plugins">> \in i.links =>
          t # Base /\ i.links = {<<t, "plugins">>}

Tidy(d) == \A i \in d : Solo(i)

\* Whoever reads another tree than t finds the same before and after.
Keeps(t, d, e) ==
    \A u \in Trees \ {t}, f \in Reads :
       /\ \A k \in e : <<u, f>> \in k.links => \E i \in d : <<u, f>> \in i.links /\ i.s = k.s
       /\ Named(d, <<u, f>>) => Named(e, <<u, f>>)

LEMMA KeepsSame == ASSUME NEW t, NEW d PROVE Keeps(t, d, d)
  BY DEF Keeps

LEMMA KeepsBoth ==
    ASSUME NEW t, NEW d, NEW e, NEW f, Keeps(t, d, e), Keeps(t, e, f)
    PROVE  Keeps(t, d, f)
<1>1. ASSUME NEW u \in Trees \ {t}, NEW x \in Reads, NEW l \in f, <<u, x>> \in l.links
      PROVE  \E i \in d : <<u, x>> \in i.links /\ i.s = l.s
  <2>1. PICK k \in e : <<u, x>> \in k.links /\ k.s = l.s
    BY <1>1 DEF Keeps
  <2> QED
    BY <2>1 DEF Keeps
<1> QED
  BY <1>1 DEF Keeps

\* A name of a file is not one of an open file.
LEMMA NotOut ==
    ASSUME NEW t, NEW f \in Files, NEW g
    PROVE  <<t, f>> # <<g, "out">> /\ <<t, f>> # <<g, "in">>
  BY DEF Files

-----------------------------------------------------------------------------
(* The operations on inodes                                                *)

\* An inode that has lost links is as solitary as before.
LEMMA FewerSolo ==
    ASSUME NEW i, Solo(i), NEW k, k.s = i.s, k.links \subseteq i.links
    PROVE  Solo(k)
  BY DEF Solo

LEMMA WithoutTidy ==
    ASSUME NEW d, Sound(d), Tidy(d), NEW t, NEW names,
           \A u \in Trees \ {t}, f \in Reads : <<u, f>> \notin names
    PROVE  Tidy(Without(d, names)) /\ Keeps(t, d, Without(d, names))
<1>1. ASSUME NEW k \in Without(d, names)
      PROVE  \E i \in d : k.s = i.s /\ k.links \subseteq i.links
  <2>1. PICK i \in d : k = [i EXCEPT !.links = @ \ names]
    BY <1>1 DEF Without
  <2>2. i \in Inodes
    BY DEF Sound
  <2>3. k.s = i.s /\ k.links = i.links \ names
    BY <2>1, <2>2 DEF Inodes
  <2> QED
    BY <2>3
<1>2. Tidy(Without(d, names))
  BY <1>1, FewerSolo DEF Tidy
<1>3. \A n : Named(Without(d, names), n) <=> Named(d, n) /\ n \notin names
  BY WithoutSound
<1> QED
  BY <1>1, <1>2, <1>3 DEF Keeps

LEMMA AddTidy ==
    ASSUME NEW d, Sound(d), Tidy(d), NEW t \in Trees, NEW f \in Files, NEW s, NEW o,
           f = "plugins" /\ s = "part" => t # Base, f = "so" => s = "raw"
    PROVE  LET e == d \cup {File({<<t, f>>}, s, o)} IN Tidy(e) /\ Keeps(t, d, e)
<1> DEFINE k == File({<<t, f>>}, s, o)
           e == d \cup {k}
<1>1. k.links = {<<t, f>>} /\ k.s = s
  BY DEF File
<1> HIDE DEF k
<1>2. Solo(k)
  BY <1>1, NotOut DEF Solo
<1>3. Tidy(e)
  BY <1>2 DEF Tidy
<1>4. Keeps(t, d, e)
  BY <1>1 DEF Keeps, Named
<1> QED
  BY <1>3, <1>4 DEF k

LEMMA ReplaceTidy ==
    ASSUME Sound(disk), Tidy(disk), NEW t \in Trees, NEW f \in Files, NEW s, NEW o,
           Replace(t, f, s, o), f = "plugins" /\ s = "part" => t # Base, f # "so"
    PROVE  Tidy(disk') /\ Keeps(t, disk, disk')
<1> DEFINE d == Without(disk, {<<t, f>>})
<1>1. Tidy(d) /\ Keeps(t, disk, d)
  BY WithoutTidy
<1>2. Sound(d)
  BY WithoutSound
<1> HIDE DEF d
<1>3. disk' = d \cup {File({<<t, f>>}, s, o)}
  BY DEF Replace, d
<1>4. Tidy(disk') /\ Keeps(t, d, disk')
  BY <1>1, <1>2, <1>3, AddTidy
<1> QED
  BY <1>1, <1>4, KeepsBoth

\* Written in place, by whoever has the file for himself.
LEMMA WrittenTidy ==
    ASSUME Sound(disk), Tidy(disk), NEW t, NEW n, NEW s,
           \A i \in disk : n \in i.links =>
              /\ \A u \in Trees \ {t}, f \in Reads : <<u, f>> \notin i.links
              /\ s # "part" \/ \A u \in Trees : <<u, "plugins">> \notin i.links
              /\ \A u \in Trees : <<u, "so">> \notin i.links
    PROVE  Tidy(Written(disk, n, s)) /\ Keeps(t, disk, Written(disk, n, s))
<1> DEFINE e == Written(disk, n, s)
           W(i) == [i EXCEPT !.s = IF n \in i.links THEN s ELSE @]
<1>1. ASSUME NEW i \in disk
      PROVE  W(i).links = i.links /\ W(i).s = IF n \in i.links THEN s ELSE i.s
  BY DEF Sound, Inodes
<1>2. e = {W(i) : i \in disk}
  BY DEF Written
<1> HIDE DEF W, e
<1>3. Tidy(e)
  <2>1. ASSUME NEW i \in disk PROVE Solo(W(i))
    BY <1>1 DEF Tidy, Solo
  <2> QED
    BY <1>2, <2>1 DEF Tidy
<1>4. Keeps(t, disk, e)
  <2>1. ASSUME NEW u \in Trees \ {t}, NEW f \in Reads, NEW k \in e, <<u, f>> \in k.links
        PROVE  \E i \in disk : <<u, f>> \in i.links /\ i.s = k.s
    BY <1>1, <1>2, <2>1
  <2>2. ASSUME NEW m, Named(disk, m) PROVE Named(e, m)
    BY <1>1, <1>2, <2>2 DEF Named
  <2> QED
    BY <2>1, <2>2 DEF Keeps
<1> QED
  BY <1>3, <1>4 DEF e

\* Opened for reading.
LEMMA OpenedTidy ==
    ASSUME Sound(disk), Tidy(disk), NEW t, NEW g
    PROVE  LET e == Linked(disk, <<Base, "so">>, <<g, "in">>) IN Tidy(e) /\ Keeps(t, disk, e)
<1> DEFINE e == Linked(disk, <<Base, "so">>, <<g, "in">>)
           L(i) == [i EXCEPT !.links = IF <<Base, "so">> \in @ THEN @ \cup {<<g, "in">>} ELSE @]
<1>1. ASSUME NEW i \in disk
      PROVE  /\ L(i).s = i.s
             /\ L(i).links = IF <<Base, "so">> \in i.links THEN i.links \cup {<<g, "in">>}
                             ELSE i.links
  BY DEF Sound, Inodes
<1>2. e = {L(i) : i \in disk}
  BY DEF Linked
<1> HIDE DEF L, e
<1>3. ASSUME NEW i \in disk, NEW u, NEW f \in Files
      PROVE  <<u, f>> \in L(i).links <=> <<u, f>> \in i.links
  BY <1>1, NotOut
<1>4. ASSUME NEW i \in disk PROVE Solo(L(i))
  <2>1. Solo(i)
    BY DEF Tidy
  <2>2. CASE <<Base, "so">> \notin i.links
    BY <1>1, <2>1, <2>2, FewerSolo
  <2>3. CASE <<Base, "so">> \in i.links
    <3>1. Base \in Trees /\ "so" \in Files /\ "plugins" \in Files
      BY DEF Trees, Files
    <3>2. \A u \in Trees : <<u, "plugins">> \notin i.links
      BY <2>1, <2>3, <3>1 DEF Solo, Staged
    <3>3. ASSUME NEW h \in Goroutines
          PROVE  <<h, "out">> \in L(i).links <=> <<h, "out">> \in i.links
      <4>1. <<h, "out">> # <<g, "in">>
        OBVIOUS
      <4> QED
        BY <1>1, <4>1
    <3>4. ASSUME NEW u \in Trees PROVE <<u, "plugins">> \notin L(i).links
      <4>1. <<u, "plugins">> \in L(i).links <=> <<u, "plugins">> \in i.links
        BY <1>3, <3>1
      <4> QED
        BY <3>2, <4>1
    <3>5. \A u, v \in Trees, f, x \in Files :
             <<u, f>> \in L(i).links /\ <<v, x>> \in L(i).links => f = x \/ {f, x} \subseteq Staged
      BY <1>3, <2>1 DEF Solo
    <3>7. \A u \in Trees : <<u, "so">> \in L(i).links =>
             L(i).s = "raw" /\ <<Base, "tmp">> \notin L(i).links
      <4>1. "so" \in Files /\ "tmp" \in Files
        BY DEF Files
      <4>2. L(i).s = i.s
        BY <1>1
      <4> HIDE DEF L
      <4> QED
        BY <1>3, <2>1, <4>1, <4>2 DEF Solo
    <3>6. \A h \in Goroutines, u \in Trees, f \in Files :
             <<h, "out">> \in L(i).links /\ <<u, f>> \in L(i).links => f = "tmp"
      BY <1>3, <2>1, <3>3 DEF Solo
    <3> QED
      BY <3>4, <3>5, <3>6, <3>7 DEF Solo
  <2> QED
    BY <2>2, <2>3
<1>5. Keeps(t, disk, e)
  <2>1. ASSUME NEW u \in Trees \ {t}, NEW f \in Reads, NEW k \in e, <<u, f>> \in k.links
        PROVE  \E i \in disk : <<u, f>> \in i.links /\ i.s = k.s
    <3>1. PICK i \in disk : k = L(i)
      BY <1>2
    <3>2. i.s = k.s /\ f \in Files
      BY <1>1, <3>1 DEF Reads
    <3>3. <<u, f>> \in i.links
      BY <1>3, <2>1, <3>1, <3>2
    <3> QED
      BY <3>2, <3>3
  <2>2. ASSUME NEW u, NEW f \in Reads, Named(disk, <<u, f>>) PROVE Named(e, <<u, f>>)
    BY <1>2, <1>3, <2>2 DEF Named, Reads
  <2> QED
    BY <2>1, <2>2 DEF Keeps
<1> QED
  BY <1>2, <1>4, <1>5 DEF Tidy, e

LEMMA ChownTidy ==
    ASSUME Sound(disk), Tidy(disk), ChownBase, NEW t
    PROVE  Tidy(disk') /\ Keeps(t, disk, disk')
<1> DEFINE ours(i) == \E f \in Files : <<Base, f>> \in i.links
           C(i) == [i EXCEPT !.owner = IF ours(i) THEN "agent" ELSE @]
<1>1. ASSUME NEW i \in disk PROVE C(i).links = i.links /\ C(i).s = i.s
  BY DEF Sound, Inodes
<1>2. disk' = {C(i) : i \in disk}
  BY DEF ChownBase
<1> HIDE DEF C
<1>3. ASSUME NEW k \in disk' PROVE \E i \in disk : k.links = i.links /\ k.s = i.s
  BY <1>1, <1>2
<1>4. Tidy(disk')
  BY <1>3, FewerSolo DEF Tidy
<1>5. \A n : Named(disk', n) <=> Named(disk, n)
  BY ChownSound
<1> QED
  BY <1>3, <1>4, <1>5 DEF Keeps

LEMMA LinksTidy ==
    ASSUME Sound(disk), Tidy(disk), NEW p \in Trees, NEW fs \in SUBSET Files,
           \A f \in fs : ~Has(p, f)
    PROVE  Tidy(Links(p, fs)) /\ Keeps(p, disk, Links(p, fs))
<1> DEFINE new(i) == {<<p, f>> : f \in {x \in fs : <<Base, x>> \in i.links}}
           L(i) == [i EXCEPT !.links = @ \cup new(i)]
           e == Links(p, fs)
<1>1. ASSUME NEW i \in disk PROVE L(i).s = i.s /\ L(i).links = i.links \cup new(i)
  BY DEF Sound, Inodes
<1>2. e = {L(i) : i \in disk}
  BY DEF Links
<1>3. ASSUME NEW i \in disk, NEW u, NEW f
      PROVE  <<u, f>> \in L(i).links =>
                <<u, f>> \in i.links \/ (u = p /\ f \in fs /\ <<Base, f>> \in i.links)
  <2>1. <<u, f>> \in new(i) => u = p /\ f \in fs /\ <<Base, f>> \in i.links
    OBVIOUS
  <2> QED
    BY <1>1, <2>1
<1>4. ASSUME NEW i \in disk PROVE i.links \subseteq L(i).links
  BY <1>1
<1>5. ASSUME NEW i \in disk, \A f \in fs : <<Base, f>> \notin i.links PROVE L(i).links = i.links
  <2>1. new(i) = {}
    BY <1>5
  <2> QED
    BY <1>1, <2>1
<1>6. \A i \in disk : L(i).s = i.s
  BY <1>1
<1> HIDE DEF new, L, e
<1>7. ASSUME NEW i \in disk PROVE Solo(L(i))
  <2>1. Solo(i)
    BY DEF Tidy
  <2>2. Base \in Trees
    BY DEF Trees
  <2>3. ASSUME NEW u \in Trees, NEW f \in Files, <<u, f>> \in L(i).links
        PROVE  \E v \in Trees : <<v, f>> \in i.links
    BY <1>3, <2>2, <2>3
  <2>4. ASSUME NEW u \in Trees, NEW v \in Trees, NEW f \in Files, NEW x \in Files,
               <<u, f>> \in L(i).links, <<v, x>> \in L(i).links
        PROVE  f = x \/ {f, x} \subseteq Staged
    <3>1. PICK w \in Trees : <<w, f>> \in i.links
      BY <2>3, <2>4
    <3>2. PICK y \in Trees : <<y, x>> \in i.links
      BY <2>3, <2>4
    <3> QED
      BY <2>1, <3>1, <3>2 DEF Solo
  <2>5. ASSUME NEW g \in Goroutines, NEW u \in Trees, NEW f \in Files,
               <<g, "out">> \in L(i).links, <<u, f>> \in L(i).links
        PROVE  f = "tmp"
    <3>0. "out" \notin fs
      BY DEF Files
    <3>1. <<g, "out">> \in i.links
      BY <1>3, <2>5, <3>0
    <3> QED
      BY <2>1, <2>3, <2>5, <3>1 DEF Solo
  <2>6. ASSUME NEW u \in Trees, L(i).s = "part", <<u, "plugins">> \in L(i).links
        PROVE  u # Base /\ L(i).links = {<<u, "plugins">>}
    <3>1. "plugins" \in Files
      BY DEF Files
    <3>2. PICK v \in Trees : <<v, "plugins">> \in i.links
      BY <2>3, <2>6, <3>1
    <3>3. v # Base /\ i.links = {<<v, "plugins">>}
      BY <1>6, <2>1, <2>6, <3>2 DEF Solo
    <3>4. L(i).links = i.links
      BY <1>5, <3>3
    <3> QED
      BY <2>6, <3>3, <3>4
  <2>7. ASSUME NEW u \in Trees, <<u, "so">> \in L(i).links
        PROVE  L(i).s = "raw" /\ <<Base, "tmp">> \notin L(i).links
    <3>1. "so" \in Files
      BY DEF Files
    <3>2. PICK v \in Trees : <<v, "so">> \in i.links
      BY <2>3, <2>7, <3>1
    <3>3. <<Base, "tmp">> \in L(i).links => <<Base, "tmp">> \in i.links
      BY <1>3
    <3> QED
      BY <1>6, <2>1, <3>2, <3>3 DEF Solo
  <2> QED
    BY <2>4, <2>5, <2>6, <2>7 DEF Solo
<1>8. Keeps(p, disk, e)
  <2>1. ASSUME NEW u \in Trees \ {p}, NEW f \in Reads, NEW k \in e, <<u, f>> \in k.links
        PROVE  \E i \in disk : <<u, f>> \in i.links /\ i.s = k.s
    <3>1. PICK i \in disk : k = L(i)
      BY <1>2
    <3>2. <<u, f>> \in i.links
      <4>1. <<u, f>> \in L(i).links
        BY <2>1, <3>1
      <4>2. <<u, f>> \in i.links \/ (u = p /\ f \in fs /\ <<Base, f>> \in i.links)
        BY <1>3, <4>1
      <4> QED
        BY <4>2
    <3> QED
      BY <1>6, <3>1, <3>2
  <2>2. ASSUME NEW n, Named(disk, n) PROVE Named(e, n)
    BY <1>2, <1>4, <2>2 DEF Named
  <2> QED
    BY <2>1, <2>2 DEF Keeps
<1> QED
  BY <1>2, <1>7, <1>8 DEF Tidy, e

LEMMA CopiesTidy ==
    ASSUME Sound(disk), Tidy(disk), NEW p \in Trees, NEW fs \in SUBSET Missing(p)
    PROVE  Tidy(Copies(p, fs)) /\ Keeps(p, disk, Copies(p, fs))
<1> DEFINE New(f) == File({<<p, f>>}, Inode(Base, f).s, "agent")
           e == Copies(p, fs)
<1>1. e = disk \cup {New(f) : f \in fs}
  BY DEF Copies
<1>2. ASSUME NEW f \in fs
      PROVE  New(f).links = {<<p, f>>} /\ Solo(New(f))
  <2>1. f \in Files /\ Has(Base, f) /\ Base \in Trees
    BY DEF Missing, Held, Trees
  <2>2. New(f).links = {<<p, f>>} /\ New(f).s = Inode(Base, f).s
    BY DEF File
  <2>3. Inode(Base, f) \in disk /\ <<Base, f>> \in Inode(Base, f).links
    BY <2>1, InodeIn
  <2>4. /\ f = "plugins" => Inode(Base, f).s # "part"
        /\ f = "so" => Inode(Base, f).s = "raw"
    BY <2>1, <2>3 DEF Tidy, Solo
  <2> HIDE DEF New
  <2> QED
    BY <2>1, <2>2, <2>4, NotOut DEF Solo
<1> HIDE DEF New, e
<1>3. Tidy(e)
  BY <1>1, <1>2 DEF Tidy
<1>4. Keeps(p, disk, e)
  BY <1>1, <1>2 DEF Keeps, Named
<1> QED
  BY <1>3, <1>4 DEF e

\* The file that is renamed is the one that was written.
Draft(g) ==
    \A i \in disk : <<job[g].to, "tmp">> \in i.links =>
        /\ <<g, "out">> \in i.links
        /\ job[g].to # Base => i.links \subseteq {<<g, "out">>, <<job[g].to, "tmp">>}
        /\ At(g, "rename") => i.s = "raw"

LEMMA RenameTidy ==
    ASSUME Sound(disk), Tidy(disk), NEW g \in Goroutines, job[g].to \in Trees, RenameTmp(g),
           Goroutines = {g}, Draft(g)
    PROVE  Tidy(disk') /\ Keeps(job[g].to, disk, disk')
<1> DEFINE t    == job[g].to
           so   == <<t, "so">>
           tmp  == <<t, "tmp">>
           gone == {tmp, <<g, "in">>, <<g, "out">>}
           a == Without(disk, {so})
           b == Linked(a, tmp, so)
           c == Without(b, gone)
<1>1. disk' = c /\ t \in Trees /\ {"so", "tmp", "plugins"} \subseteq Files /\ At(g, "rename")
  BY DEF RenameTmp, Files
<1>2. /\ Sound(a) /\ Tidy(a) /\ Keeps(t, disk, a)
      /\ \A k \in a : \E i \in disk : k.s = i.s /\ k.links = i.links \ {so}
  <2>1. ASSUME NEW k \in a PROVE \E i \in disk : k.s = i.s /\ k.links = i.links \ {so}
    <3>1. PICK i \in disk : k = [i EXCEPT !.links = @ \ {so}]
      BY DEF Without
    <3> QED
      BY <3>1 DEF Sound, Inodes
  <2> QED
    BY <1>1, <2>1, WithoutTidy, WithoutSound
<1>3. ~Named(a, so)
  BY WithoutSound
<1>4. Sound(b) /\ \A n : Named(b, n) <=> Named(a, n) \/ (n = so /\ Named(a, tmp))
  <2>1. so \in Names
    BY <1>1, PairIn
  <2> HIDE DEF a, so, tmp
  <2> QED
    BY <1>2, <1>3, <2>1, LinkedSound
<1>5. \A n : Named(c, n) <=> Named(b, n) /\ n \notin gone
  <2> HIDE DEF b, gone
  <2> QED
    BY <1>4, WithoutSound
<1>6. ASSUME NEW k \in c
      PROVE  \E i \in a : /\ k.s = i.s
                          /\ k.links = (IF tmp \in i.links THEN i.links \cup {so}
                                        ELSE i.links) \ gone
  <2>1. PICK j \in b : k = [j EXCEPT !.links = @ \ gone]
    BY <1>6 DEF Without
  <2>2. PICK i \in a : j = [i EXCEPT !.links = IF tmp \in @ THEN @ \cup {so} ELSE @]
    BY DEF Linked
  <2> HIDE DEF a, b, c, gone, so, tmp
  <2>3. i \in Inodes /\ j \in Inodes
    BY <1>2, <1>4 DEF Sound
  <2>4. k.s = j.s /\ k.links = j.links \ gone
    BY <2>1, <2>3 DEF Inodes
  <2>5. j.s = i.s /\ j.links = IF tmp \in i.links THEN i.links \cup {so} ELSE i.links
    BY <2>2, <2>3 DEF Inodes
  <2> QED
    BY <2>4, <2>5
<1> HIDE DEF a, b, c
<1>7. ASSUME NEW k \in c PROVE Solo(k)
  <2>1. PICK i \in a : /\ k.s = i.s
                       /\ k.links = (IF tmp \in i.links THEN i.links \cup {so}
                                     ELSE i.links) \ gone
    BY <1>6
  <2>2. Solo(i)
    BY <1>2 DEF Tidy
  <2>3. CASE tmp \notin i.links
    BY <2>1, <2>2, <2>3, FewerSolo
  <2>4. CASE tmp \in i.links
    <3>1. PICK w \in disk : i.s = w.s /\ i.links = w.links \ {so}
      BY <1>2
    <3>2. /\ <<g, "out">> \in w.links /\ w.s = "raw"
          /\ t # Base => w.links \subseteq {<<g, "out">>, tmp}
      BY <1>1, <2>4, <3>1 DEF Draft
    <3>3. <<g, "out">> # so
      BY NotOut, <1>1
    <3>4. ASSUME NEW u \in Trees, NEW f \in Files, <<u, f>> \in k.links
          PROVE  f = "tmp" \/ <<u, f>> = so
      <4>1. CASE <<u, f>> \in i.links
        BY <2>2, <3>1, <3>2, <3>3, <4>1 DEF Solo
      <4> QED
        BY <2>1, <2>4, <3>4, <4>1
    <3>5. \A h \in Goroutines : <<h, "out">> \notin k.links
      <4>1. <<g, "out">> \in gone
        OBVIOUS
      <4>2. <<g, "out">> \notin k.links
        BY <2>1, <4>1
      <4> QED
        BY <4>2
    <3>6. <<Base, "tmp">> \notin k.links
      <4>1. tmp \notin k.links
        BY <2>1
      <4>2. CASE t # Base
        <5>1. <<Base, "tmp">> # <<g, "out">> /\ <<Base, "tmp">> # tmp /\ <<Base, "tmp">> # so
          BY <1>1, <4>2, NotOut
        <5> HIDE DEF so, tmp
        <5> QED
          BY <2>1, <3>1, <3>2, <4>2, <5>1
      <4> QED
        BY <4>1, <4>2
    <3>7. k.s = "raw"
      BY <2>1, <3>1, <3>2
    <3>8. \A u, v \in Trees, f, x \in Files :
             <<u, f>> \in k.links /\ <<v, x>> \in k.links => f = x \/ {f, x} \subseteq Staged
      BY <3>4 DEF Staged
    <3>9. \A u \in Trees : <<u, "plugins">> \notin k.links
      BY <1>1, <3>4
    <3> QED
      BY <3>5, <3>6, <3>7, <3>8, <3>9 DEF Solo
  <2> QED
    BY <2>3, <2>4
<1>8. Keeps(t, a, c)
  <2>1. ASSUME NEW u \in Trees \ {t}, NEW f \in Reads, NEW k \in c, <<u, f>> \in k.links
        PROVE  \E i \in a : <<u, f>> \in i.links /\ i.s = k.s
    BY <1>6, <2>1
  <2>2. ASSUME NEW u \in Trees \ {t}, NEW f \in Reads, Named(a, <<u, f>>)
        PROVE  Named(c, <<u, f>>)
    <3>1. <<u, f>> \notin gone
      BY NotOut DEF Reads
    <3> QED
      BY <1>4, <1>5, <2>2, <3>1
  <2> QED
    BY <2>1, <2>2 DEF Keeps
<1>9. Keeps(t, disk, c)
  BY <1>2, <1>8, KeepsBoth
<1> QED
  BY <1>1, <1>7, <1>9 DEF Tidy

\* A new file is opened for writing, or what the base has left of an earlier attempt.
LEMMA OpenTmpTidy ==
    ASSUME Sound(disk), Tidy(disk), NEW g \in Goroutines, job[g].to \in Trees, OpenTmp(g),
           job[g].to # Base => ~Has(job[g].to, "tmp")
    PROVE  Tidy(disk') /\ Keeps(job[g].to, disk, disk')
<1> DEFINE t   == job[g].to
           tmp == <<t, "tmp">>
           out == <<g, "out">>
<1>0. {"so", "tmp", "plugins"} \subseteq Files
  BY DEF Files
<1>1. CASE ~Has(t, "tmp")
  <2> DEFINE k == File({tmp, out}, "part", "agent")
  <2>1. disk' = disk \cup {k}
    BY <1>1 DEF OpenTmp
  <2>2. k.links = {tmp, out}
    BY DEF File
  <2> HIDE DEF k
  <2>3. ASSUME NEW u, NEW f \in Files, <<u, f>> \in k.links PROVE u = t /\ f = "tmp"
    BY <2>2, <2>3, NotOut
  <2>4. Solo(k)
    BY <1>0, <2>3 DEF Solo
  <2>5. Tidy(disk')
    BY <2>1, <2>4 DEF Tidy
  <2>6. Keeps(t, disk, disk')
    <3>1. ASSUME NEW u \in Trees \ {t}, NEW f \in Reads PROVE <<u, f>> \notin k.links
      BY <2>3 DEF Reads
    <3> QED
      BY <2>1, <3>1 DEF Keeps, Named
  <2> QED
    BY <2>5, <2>6
<1>2. CASE Has(t, "tmp")
  <2> DEFINE d == Written(disk, tmp, "part")
  <2>1. t = Base /\ disk' = Linked(d, tmp, out)
    BY <1>2 DEF OpenTmp
  <2>2. ASSUME NEW i \in disk, tmp \in i.links
        PROVE  /\ \A u \in Trees, f \in Files : <<u, f>> \in i.links => f \in Staged
               /\ \A u \in Trees : <<u, "so">> \notin i.links
    BY <1>0, <2>1, <2>2 DEF Tidy, Solo, Staged
  <2>3. Sound(d) /\ Tidy(d) /\ Keeps(t, disk, d)
    <3>1. /\ "part" \in States /\ "plugins" \notin Staged
          /\ Reads \subseteq (Files \ Staged) \cup {"so"}
      BY DEF States, Reads, Staged, Files
    <3>2. \A i \in disk : tmp \in i.links =>
              /\ \A u \in Trees \ {t}, f \in Reads : <<u, f>> \notin i.links
              /\ "part" # "part" \/ \A u \in Trees : <<u, "plugins">> \notin i.links
              /\ \A u \in Trees : <<u, "so">> \notin i.links
      BY <1>0, <2>2, <3>1
    <3> HIDE DEF tmp
    <3> QED
      BY <3>1, <3>2, WrittenTidy, WrittenSound
  <2>4. ASSUME NEW k \in d, tmp \in k.links
        PROVE  \A u \in Trees, f \in Files : <<u, f>> \in k.links => f = "tmp"
    <3>1. PICK i \in disk : k = [i EXCEPT !.s = IF tmp \in i.links THEN "part" ELSE @]
      BY DEF Written
    <3>2. i.links = k.links
      BY <3>1 DEF Sound, Inodes
    <3> QED
      BY <2>2, <2>4, <3>2 DEF Staged
  <2> HIDE DEF d
  <2>5. ASSUME NEW k \in disk'
        PROVE  \E i \in d : k.s = i.s /\ k.links = IF tmp \in i.links THEN i.links \cup {out}
                                                   ELSE i.links
    <3>1. PICK i \in d : k = [i EXCEPT !.links = IF tmp \in @ THEN @ \cup {out} ELSE @]
      BY <2>1 DEF Linked
    <3> QED
      BY <2>3, <3>1 DEF Sound, Inodes
  <2>6. ASSUME NEW k \in disk' PROVE Solo(k)
    <3>1. PICK i \in d : k.s = i.s /\ k.links = IF tmp \in i.links THEN i.links \cup {out}
                                                ELSE i.links
      BY <2>5
    <3>2. Solo(i)
      BY <2>3 DEF Tidy
    <3>3. CASE tmp \notin i.links
      BY <3>1, <3>2, <3>3, FewerSolo
    <3>4. CASE tmp \in i.links
      <4>1. ASSUME NEW u \in Trees, NEW f \in Files, <<u, f>> \in k.links PROVE f = "tmp"
        BY <2>4, <3>1, <3>4, <4>1, NotOut
      <4> QED
        BY <1>0, <4>1 DEF Solo
    <3> QED
      BY <3>3, <3>4
  <2>7. Keeps(t, d, disk')
    <3>1. \A k \in disk' : \E i \in d :
             k.s = i.s /\ \A u \in Trees, f \in Reads : <<u, f>> \in k.links => <<u, f>> \in i.links
      BY <2>5, NotOut DEF Reads
    <3>2. ASSUME NEW n, Named(d, n) PROVE Named(disk', n)
      <4>1. PICK i \in d : n \in i.links
        BY <3>2 DEF Named
      <4> DEFINE k == [i EXCEPT !.links = IF tmp \in @ THEN @ \cup {out} ELSE @]
      <4>2. k \in disk'
        BY <2>1 DEF Linked
      <4>3. n \in k.links
        BY <2>3, <4>1 DEF Sound, Inodes
      <4> QED
        BY <4>2, <4>3 DEF Named
    <3> QED
      BY <3>1, <3>2 DEF Keeps
  <2> QED
    BY <2>3, <2>6, <2>7, KeepsBoth DEF Tidy
<1> QED
  BY <1>1, <1>2

LEMMA LeftTidy ==
    ASSUME Sound(disk), Tidy(disk), NEW t, NEW fs
    PROVE  Tidy(Left(t, fs)) /\ Keeps(t, disk, Left(t, fs))
<1> DEFINE names == {t} \X fs
<1>1. \A u \in Trees \ {t}, f \in Reads : <<u, f>> \notin names
  OBVIOUS
<1>2. Left(t, fs) = Without(disk, names)
  BY DEF Left
<1> HIDE DEF names
<1> QED
  BY <1>1, <1>2, WithoutTidy

LEMMA RemoveTidy ==
    ASSUME Sound(disk), Tidy(disk), NEW t, NEW fs, Remove(t, fs)
    PROVE  Tidy(disk') /\ Keeps(t, disk, disk')
  BY LeftTidy DEF Remove

LEMMA LinkableTidy ==
    ASSUME Sound(disk), Tidy(disk), NEW p \in Trees, NEW fs \in SUBSET Linkable(p)
    PROVE  Tidy(Links(p, fs)) /\ Keeps(p, disk, Links(p, fs))
<1>1. fs \in SUBSET Files /\ \A f \in fs : ~Has(p, f)
  BY DEF Linkable, Held
<1> QED
  BY <1>1, LinksTidy
-----------------------------------------------------------------------------
(* Which names of steamclient.so are there                                 *)

\* No step on the way gives or takes one of its names.
Still == \A u \in Trees, f \in Staged : Has(u, f)' <=> Has(u, f)

LEMMA SameStill == ASSUME UNCHANGED disk PROVE Still
  BY DEF Still, Has

LEMMA NamedStill == ASSUME \A n : Named(disk', n) <=> Named(disk, n) PROVE Still
  BY DEF Still, Has, Named

LEMMA WithoutHas ==
    ASSUME Sound(disk), NEW names, disk' = Without(disk, names)
    PROVE  \A u, f : Has(u, f)' <=> Has(u, f) /\ <<u, f>> \notin names
<1>1. \A n : Named(disk', n) <=> Named(disk, n) /\ n \notin names
  BY WithoutSound
<1> QED
  BY <1>1 DEF Has, Named

LEMMA RemoveHas ==
    ASSUME Sound(disk), NEW t, NEW fs, Remove(t, fs)
    PROVE  \A u, f : Has(u, f)' <=> Has(u, f) /\ ~(u = t /\ f \in fs)
<1>1. disk' = Without(disk, {t} \X fs)
  BY DEF Remove, Left
<1> QED
  BY <1>1, WithoutHas

LEMMA ReplaceStill ==
    ASSUME Sound(disk), NEW t, NEW f, NEW s, NEW o, Replace(t, f, s, o), f \notin Staged
    PROVE  Still
<1>1. \A n : Named(Without(disk, {<<t, f>>}), n) <=> Named(disk, n) /\ n # <<t, f>>
  BY WithoutSound
<1>2. \A n : Named(disk', n) <=> Named(Without(disk, {<<t, f>>}), n) \/ n = <<t, f>>
  <2> DEFINE k == File({<<t, f>>}, s, o)
  <2>1. disk' = Without(disk, {<<t, f>>}) \cup {k}
    BY DEF Replace
  <2>2. k.links = {<<t, f>>}
    BY DEF File
  <2> HIDE DEF k
  <2> QED
    BY <2>1, <2>2 DEF Named
<1>3. ASSUME NEW u \in Trees, NEW x \in Staged PROVE Has(u, x)' <=> Has(u, x)
  <2> DEFINE n == <<u, x>>
  <2>1. n # <<t, f>>
    OBVIOUS
  <2>2. (Has(u, x)' <=> Named(disk', n)) /\ (Has(u, x) <=> Named(disk, n))
    BY DEF Has, Named
  <2> HIDE DEF n
  <2> QED
    BY <1>1, <1>2, <2>1, <2>2
<1> QED
  BY <1>3 DEF Still

\* What the base has and is linked, the copy has.
LEMMA LinksHas ==
    ASSUME Sound(disk), NEW p, NEW fs, disk' = Links(p, fs)
    PROVE  \A u, f : Has(u, f)' <=> Has(u, f) \/ (u = p /\ f \in fs /\ Has(Base, f))
<1> DEFINE new(i) == {<<p, f>> : f \in {x \in fs : <<Base, x>> \in i.links}}
           L(i) == [i EXCEPT !.links = @ \cup new(i)]
<1>1. ASSUME NEW i \in disk PROVE L(i).links = i.links \cup new(i)
  BY DEF Sound, Inodes
<1>2. disk' = {L(i) : i \in disk}
  BY DEF Links
<1>3. ASSUME NEW i \in disk, NEW u, NEW f
      PROVE  <<u, f>> \in L(i).links <=>
                <<u, f>> \in i.links \/ (u = p /\ f \in fs /\ <<Base, f>> \in i.links)
  <2>1. <<u, f>> \in new(i) <=> u = p /\ f \in fs /\ <<Base, f>> \in i.links
    OBVIOUS
  <2> QED
    BY <1>1, <2>1
<1> HIDE DEF L
<1>4. ASSUME NEW u, NEW f
      PROVE  Has(u, f)' <=> Has(u, f) \/ (u = p /\ f \in fs /\ Has(Base, f))
  <2>1. Has(u, f)' <=> \E i \in disk : <<u, f>> \in L(i).links
    BY <1>2 DEF Has
  <2>2. Has(Base, f) <=> \E i \in disk : <<Base, f>> \in i.links
    BY DEF Has
  <2>3. Has(u, f) <=> \E i \in disk : <<u, f>> \in i.links
    BY DEF Has
  <2> QED
    BY <1>3, <2>1, <2>2, <2>3
<1> QED
  BY <1>4

LEMMA CopiesHas ==
    ASSUME NEW p, NEW fs, disk' = Copies(p, fs)
    PROVE  \A u, f : Has(u, f)' <=> Has(u, f) \/ (u = p /\ f \in fs)
<1> DEFINE New(f) == File({<<p, f>>}, Inode(Base, f).s, "agent")
<1>1. disk' = disk \cup {New(f) : f \in fs}
  BY DEF Copies
<1>2. \A f : New(f).links = {<<p, f>>}
  BY DEF File
<1> HIDE DEF New
<1>3. ASSUME NEW u, NEW f, Has(u, f)' PROVE Has(u, f) \/ (u = p /\ f \in fs)
  <2>1. PICK i \in disk' : <<u, f>> \in i.links
    BY <1>3 DEF Has
  <2>2. CASE i \in disk
    BY <2>1, <2>2 DEF Has
  <2>3. CASE i \notin disk
    <3>1. PICK x \in fs : i = New(x)
      BY <1>1, <2>3
    <3> QED
      BY <1>2, <2>1, <3>1
  <2> QED
    BY <2>2, <2>3
<1>4. ASSUME NEW u, NEW f, Has(u, f) \/ (u = p /\ f \in fs) PROVE Has(u, f)'
  BY <1>1, <1>2, <1>4 DEF Has
<1> QED
  BY <1>3, <1>4

LEMMA OpenTmpHas ==
    ASSUME Sound(disk), NEW g, OpenTmp(g)
    PROVE  \A u \in Trees, f \in Files : Has(u, f)' <=> Has(u, f) \/ (u = job[g].to /\ f = "tmp")
<1> DEFINE t   == job[g].to
           tmp == <<t, "tmp">>
           out == <<g, "out">>
<1>1. CASE ~Has(t, "tmp")
  <2> DEFINE k == File({tmp, out}, "part", "agent")
  <2>1. disk' = disk \cup {k}
    BY <1>1 DEF OpenTmp
  <2>2. k.links = {tmp, out}
    BY DEF File
  <2> HIDE DEF k
  <2>3. \A u \in Trees, f \in Files : <<u, f>> \in k.links <=> u = t /\ f = "tmp"
    BY <2>2, NotOut
  <2> QED
    BY <2>1, <2>3 DEF Has
<1>2. CASE Has(t, "tmp")
  <2> DEFINE W(i) == [i EXCEPT !.s = IF tmp \in i.links THEN "part" ELSE @]
             L(i) == [i EXCEPT !.links = IF tmp \in @ THEN @ \cup {out} ELSE @]
  <2>1. disk' = {L(k) : k \in {W(i) : i \in disk}}
    BY <1>2 DEF OpenTmp, Linked, Written
  <2>2. ASSUME NEW i \in disk
        PROVE  L(W(i)).links = IF tmp \in i.links THEN i.links \cup {out} ELSE i.links
    BY DEF Sound, Inodes
  <2> DEFINE M(i) == L(W(i))
  <2>3. disk' = {M(i) : i \in disk}
    BY <2>1
  <2>4. ASSUME NEW i \in disk, NEW u \in Trees, NEW f \in Files
        PROVE  <<u, f>> \in M(i).links <=> <<u, f>> \in i.links
    BY <2>2, NotOut
  <2> HIDE DEF M
  <2>5. \A u \in Trees, f \in Files : Has(u, f)' <=> Has(u, f)
    BY <2>3, <2>4 DEF Has
  <2> QED
    BY <1>2, <2>5
<1> QED
  BY <1>1, <1>2

LEMMA RenameHas ==
    ASSUME Sound(disk), NEW g \in Goroutines, job[g].to \in Trees, RenameTmp(g)
    PROVE  \A u \in Trees : /\ Has(u, "so")' <=> Has(u, "so") \/ u = job[g].to
                            /\ Has(u, "tmp")' <=> Has(u, "tmp") /\ u # job[g].to
<1> DEFINE t    == job[g].to
           so   == <<t, "so">>
           tmp  == <<t, "tmp">>
           gone == {tmp, <<g, "in">>, <<g, "out">>}
           a == Without(disk, {so})
           b == Linked(a, tmp, so)
<1>1. disk' = Without(b, gone) /\ so \in Names /\ Named(disk, tmp)
  BY PairIn, HasNamed DEF RenameTmp, Files
<1>2. \A u \in Trees : /\ <<u, "so">> \notin gone /\ (<<u, "so">> = so <=> u = t)
                       /\ <<u, "tmp">> \in gone <=> u = t
                       /\ <<u, "tmp">> # so
  <2>1. {"so", "tmp"} \subseteq Files
    BY DEF Files
  <2> QED
    BY <2>1, NotOut
<1>3. tmp # so
  OBVIOUS
<1>4. Sound(a) /\ \A n : Named(a, n) <=> Named(disk, n) /\ n # so
  BY WithoutSound
<1>5. Sound(b) /\ \A n : Named(b, n) <=> Named(a, n) \/ (n = so /\ Named(a, tmp))
  <2> HIDE DEF a, so, tmp
  <2> QED
    BY <1>1, <1>4, LinkedSound
<1>6. \A n : Named(disk', n) <=> Named(b, n) /\ n \notin gone
  <2> HIDE DEF b, gone
  <2> QED
    BY <1>1, <1>5, WithoutSound
<1>7. \A u, f : (Has(u, f)' <=> Named(disk', <<u, f>>)) /\ (Has(u, f) <=> Named(disk, <<u, f>>))
  BY DEF Has, Named
<1> HIDE DEF a, b, gone, so, tmp
<1> QED
  BY <1>1, <1>2, <1>3, <1>4, <1>5, <1>6, <1>7

-----------------------------------------------------------------------------
(* How far the staging of steamclient.so has come                          *)

\* Where the copies of a file lead, and what they are for.
Route(j) ==
    /\ j.then # "none" => j.pc \in CopyPcs
    /\ j.pc \in {"ensure", "fill"} \/ j.then \in {"fill", "up"} => j.op = "deploy"
    /\ j.then \in {"setup", "down", "fill"} => j.to = Base
    /\ j.then = "up" => j.to = j.port

\* The base is left with a temporary file only next to the file itself, and a copy has one
\* only from there: where a file is copied into a copy, and a server is started, there is
\* none, or the file is there too.
Shelf(j) ==
    /\ j.pc \in {"own", "link", "chown", "deep", "ensure"} \/ (j.pc = "wipe" /\ j.try = "relink")
          => (Has(j.port, "tmp") => Has(Base, "tmp"))
    /\ j.pc = "ensure" => (Has(Base, "so") => Has(j.port, "so"))
    /\ j.then = "fill" => ~Has(j.port, "tmp")
    /\ j.pc = "fill" => Has(j.port, "so") \/ ~Has(j.port, "tmp")
    /\ j.pc \in {"open", "create"} /\ j.to # Base => ~Has(j.to, "tmp")
    /\ j.pc = "up" /\ j.op = "deploy" => Has(j.port, "so")
    /\ Orphan => j.pc \in {"write", "rename"} /\ j.to = Base

Staging(g) == Route(job[g]) /\ Shelf(job[g])

LEMMA StagingIs ==
    ASSUME NEW g, NEW k, job'[g] = k, Route(k), Shelf(k)'
    PROVE  Staging(g)'
<1>1. Route(job[g])'
  BY DEF Route
<1>2. Shelf(job[g])'
  BY DEF Shelf, Has
<1> QED
  BY <1>1, <1>2 DEF Staging

\* A command that has ended.
LEMMA StagingEnds ==
    ASSUME NEW g, job'[g] = Idle, ~Orphan'
    PROVE  Staging(g)'
<1>1. Idle.pc = "idle" /\ Idle.then = "none"
  BY DEF Idle
<1>2. PICK k : k = Idle
  OBVIOUS
<1>3. Route(k)
  BY <1>1, <1>2 DEF Route
<1>4. Shelf(k)'
  BY <1>1, <1>2 DEF Shelf
<1> QED
  BY <1>2, <1>3, <1>4, StagingIs

\* A command begins.
LEMMA BeginStaging ==
    ASSUME JobsInv, NEW g \in Goroutines, Staging(g),
           StartDeploy(g) \/ StartUpdate(g) \/ StartReinstall(g) \/ StartSetup(g)
    PROVE  Staging(g)'
<1>1. ASSUME NEW op, NEW pc \in {"down", "steam", "stop"}, NEW p, NEW ports,
             Begin(g, op, pc, p, ports)
      PROVE  Staging(g)'
  <2>1. PICK k : k = job'[g]
    OBVIOUS
  <2>2. k.pc = pc /\ k.then = "none" /\ k.try = "link"
    BY <1>1, <2>1 DEF Begin, JobsInv, Jobs, Idle
  <2>3. Still /\ ~Orphan
    BY <1>1, SameStill DEF Begin, Staging, Shelf, At
  <2>4. ~Orphan'
    BY <2>3 DEF Still, Orphan, Staged, Trees
  <2>5. Route(k) /\ Shelf(k)'
    BY <2>2, <2>4 DEF Route, Shelf, CopyPcs
  <2> QED
    BY <2>1, <2>5, StagingIs
<1>2. CASE StartDeploy(g)
  BY <1>1, <1>2 DEF StartDeploy
<1> QED
  BY <1>1, <1>2 DEF StartUpdate, StartReinstall, StartSetup

\* The steps of a command that leave the disk as it is.
LEMMA SameStaging ==
    ASSUME JobsInv, NEW g \in Goroutines, Staging(g), FirstTry(job[g]),
           Stop(g) \/ Down(g) \/ Ensure(g) \/ Fill(g) \/ Setup(g) \/ SetupDone(g) \/ SyncNext(g)
           \/ Up(g)
    PROVE  Staging(g)'
<1> DEFINE j == job[g]
<1>1. PICK k : k = job'[g]
  OBVIOUS
<1>2. job \in [Goroutines -> Jobs] /\ j \in Jobs /\ Shape(j)
  BY DEF JobsInv
<1>3. j.pc \in {"stop", "down", "ensure", "fill", "setup", "wait", "next", "up"}
  BY DEF Stop, Down, Ensure, Fill, Setup, SetupDone, SyncNext, Up, At
<1>4. Still
  BY SameStill DEF Stop, Down, Ensure, Fill, Setup, SetupDone, SyncNext, Up
<1>5. Base \in Trees /\ j.port \in Trees /\ {"so", "tmp"} \subseteq Staged
  BY <1>2 DEF Jobs, Trees, Staged
<1>6. ~Orphan /\ ~Orphan'
  BY <1>3, <1>4, <1>5 DEF Staging, Shelf, Orphan, Still
<1>7. j.then = "none"
  BY <1>3 DEF Staging, Route, CopyPcs
<1>8. CASE k = Idle
  BY <1>1, <1>6, <1>8, StagingEnds
<1>9. ASSUME NEW pc, pc \notin CopyPcs \cup {"own", "link", "chown", "deep", "ensure"},
             k.pc = pc /\ k.op = j.op /\ k.port = j.port /\ k.then = j.then,
             pc = "wipe" => k.try = "link", pc = "fill" => j.pc = "ensure" /\ Has(Base, "so"),
             pc = "up" /\ j.op = "deploy" => Has(j.port, "so")
      PROVE  Staging(g)'
  <2>1. Route(k)
    BY <1>7, <1>9 DEF Staging, Route
  <2>2. PICK p : p = k.port
    OBVIOUS
  <2>3. pc = "fill" => Has(p, "so")'
    BY <1>4, <1>5, <1>9, <2>2 DEF Staging, Shelf, Still
  <2>4. pc = "up" /\ k.op = "deploy" => Has(p, "so")'
    BY <1>4, <1>5, <1>9, <2>2 DEF Still
  <2>5. Shelf(k)'
    BY <1>6, <1>7, <1>9, <2>2, <2>3, <2>4 DEF Shelf, CopyPcs
  <2> QED
    BY <1>1, <2>1, <2>5, StagingIs
<1>10. CASE Stop(g)
  <2>1. PICK up : job' = [job EXCEPT ![g].pc = IF j.op = "reinstall" THEN "wipebase" ELSE "steam",
                                    ![g].fault = @ \/ up # {}]
    BY <1>10 DEF Stop
  <2>2. k.pc \in {"wipebase", "steam"} /\ k.op = j.op /\ k.port = j.port /\ k.then = j.then
    BY <1>1, <1>2, <2>1 DEF Jobs
  <2> QED
    BY <1>9, <2>2 DEF CopyPcs
<1>11. CASE Down(g)
  <2>1. j.try = "link"
    BY <1>2, <1>11 DEF Down, At, Shape, OpAt, FirstTry
  <2> QED
    BY <1>1, <1>2, <1>9, <1>11, <2>1 DEF Down, Goto, Fails, Jobs, CopyPcs
<1>12. CASE Ensure(g)
  <2>1. CASE Has(Base, "so")
    BY <1>1, <1>2, <1>9, <1>12, <2>1 DEF Ensure, Goto, At, Jobs, CopyPcs
  <2>2. CASE ~Has(Base, "so")
    <3>1. /\ k.pc = "open" /\ k.to = Base /\ k.then = "fill" /\ k.op = j.op /\ k.port = j.port
      BY <1>1, <1>2, <1>12, <2>2 DEF Ensure, Jobs
    <3>2. j.op = "deploy"
      BY <1>12 DEF Ensure, At, Staging, Route
    <3>3. ~Has(j.port, "tmp")
      BY <1>6, <1>12, <2>2 DEF Ensure, At, Staging, Shelf, Orphan
    <3>4. PICK p : p = k.port
      OBVIOUS
    <3>5. ~Has(p, "tmp")'
      BY <1>4, <1>5, <3>1, <3>3, <3>4 DEF Still
    <3>6. Route(k)
      BY <3>1, <3>2 DEF Route, CopyPcs
    <3>7. Shelf(k)'
      BY <1>6, <3>1, <3>4, <3>5 DEF Shelf
    <3> QED
      BY <1>1, <3>6, <3>7, StagingIs
  <2> QED
    BY <2>1, <2>2
<1>13. CASE Fill(g)
  <2>1. CASE Has(j.port, "so")
    BY <1>1, <1>2, <1>9, <1>13, <2>1 DEF Fill, Goto, Jobs, CopyPcs
  <2>2. CASE ~Has(j.port, "so") /\ Has(Base, "so")
    <3>1. /\ k.pc = "open" /\ k.to = k.port /\ k.then = "up" /\ k.op = j.op /\ k.port = j.port
      BY <1>1, <1>2, <1>13, <2>2 DEF Fill, Jobs
    <3>2. j.op = "deploy"
      BY <1>13 DEF Fill, At, Staging, Route
    <3>3. ~Has(j.port, "tmp")
      BY <1>13, <2>2 DEF Fill, At, Staging, Shelf
    <3>4. PICK p : p = k.port
      OBVIOUS
    <3>5. ~Has(p, "tmp")'
      BY <1>4, <1>5, <3>1, <3>3, <3>4 DEF Still
    <3>6. Route(k)
      BY <3>1, <3>2 DEF Route, CopyPcs
    <3>7. Shelf(k)'
      BY <1>6, <3>1, <3>4, <3>5 DEF Shelf
    <3> QED
      BY <1>1, <3>6, <3>7, StagingIs
  <2>3. CASE ~Has(j.port, "so") /\ ~Has(Base, "so")
    BY <1>1, <1>2, <1>8, <1>13, <2>3 DEF Fill, Return
  <2> QED
    BY <2>1, <2>2, <2>3
<1>14. CASE Setup(g)
  BY <1>1, <1>2, <1>9, <1>14 DEF Setup, Goto, Fails, Jobs, CopyPcs
<1>15. CASE SetupDone(g)
  BY <1>1, <1>2, <1>8, <1>9, <1>15 DEF SetupDone, Goto, Return, Jobs, CopyPcs
<1>16. CASE SyncNext(g)
  <2>1. j.op # "deploy"
    BY <1>2, <1>16 DEF SyncNext, At, Shape, OpAt
  <2>2. CASE Goto(g, "up")
    BY <1>1, <1>2, <1>9, <2>1, <2>2 DEF Goto, Jobs, CopyPcs
  <2>3. CASE ~Goto(g, "up")
    <3>1. k.pc = "wipe" /\ k.try = "link" /\ k.then = j.then
      <4>1. PICK p : job' = [job EXCEPT ![g].pc = "wipe", ![g].port = p, ![g].todo = @ \ {p},
                                       ![g].try = "link"]
        BY <1>16, <2>3 DEF SyncNext
      <4> QED
        BY <1>1, <1>2, <4>1 DEF Jobs
    <3>2. Route(k) /\ Shelf(k)'
      BY <1>6, <1>7, <3>1 DEF Route, Shelf
    <3> QED
      BY <1>1, <3>2, StagingIs
  <2> QED
    BY <2>2, <2>3
<1>17. CASE Up(g)
  BY <1>1, <1>2, <1>8, <1>17 DEF Up, Return
<1> QED
  BY <1>10, <1>11, <1>12, <1>13, <1>14, <1>15, <1>16, <1>17

\* A sync ends, well or not.
LEMMA SyncedStaging ==
    ASSUME JobsInv, NEW g \in Goroutines, NEW ok, Synced(g, ok), job[g].then = "none", ~Orphan',
           NEW p, p = job[g].port,
           ok => /\ Has(p, "tmp")' => Has(Base, "tmp")'
                 /\ Has(Base, "so")' => Has(p, "so")'
    PROVE  Staging(g)'
<1> DEFINE j == job[g]
<1>1. PICK k : k = job'[g]
  OBVIOUS
<1>2. job \in [Goroutines -> Jobs] /\ j \in Jobs
  BY DEF JobsInv
<1>3. CASE j.op # "deploy"
  <2>1. k.pc = "next" /\ k.then = "none"
    BY <1>1, <1>2, <1>3 DEF Synced, Jobs
  <2>2. Route(k) /\ Shelf(k)'
    BY <2>1 DEF Route, Shelf
  <2> QED
    BY <1>1, <2>2, StagingIs
<1>4. CASE j.op = "deploy" /\ ok
  <2>1. k.pc = "ensure" /\ k.then = "none" /\ k.op = "deploy" /\ k.port = p
    BY <1>1, <1>2, <1>4 DEF Synced, Goto, Jobs
  <2>2. Route(k) /\ Shelf(k)'
    BY <1>4, <2>1 DEF Route, Shelf
  <2> QED
    BY <1>1, <2>2, StagingIs
<1>5. CASE j.op = "deploy" /\ ~ok
  <2>1. k = Idle
    BY <1>1, <1>2, <1>5 DEF Synced, Return
  <2> QED
    BY <1>1, <2>1, StagingEnds
<1> QED
  BY <1>3, <1>4, <1>5

\* A step within a sync.
LEMMA WithinStaging ==
    ASSUME JobsInv, NEW g \in Goroutines, job[g].then = "none", ~Orphan', NEW p, p = job[g].port,
           NEW pc \in {"wipe", "own", "link", "chown", "deep"},
           job'[g].pc = pc, job'[g].then = "none", job'[g].port = p,
           Has(p, "tmp")' => Has(Base, "tmp")'
    PROVE  Staging(g)'
<1>1. PICK k : k = job'[g]
  OBVIOUS
<1>2. Route(k) /\ Shelf(k)'
  BY <1>1 DEF Route, Shelf
<1> QED
  BY <1>1, <1>2, StagingIs

LEMMA SyncStaging ==
    ASSUME Sound(disk), JobsInv, NEW g \in Goroutines, Staging(g), Interrupt = FALSE,
           Wipe(g) \/ Own(g) \/ LinkOk(g) \/ LinkFail(g) \/ Chown(g) \/ Deep(g)
    PROVE  Staging(g)'
<1> DEFINE j == job[g]
<1>1. PICK p : p = j.port
  OBVIOUS
<1>2. job \in [Goroutines -> Jobs] /\ j \in Jobs /\ Shape(j)
  BY DEF JobsInv
<1>3. j.pc \in SyncPcs /\ j.pc \in {"wipe", "own", "link", "chown", "deep"}
  BY DEF Wipe, Own, LinkOk, LinkFail, Chown, Deep, At, SyncPcs
<1>4. p \in Instances /\ p # Base /\ p \in Trees /\ Base \in Trees
  BY <1>1, <1>2, <1>3, TreesAssumption DEF Shape, PortAt, Jobs, Trees
<1>5. {"so", "tmp"} \subseteq Staged /\ {"so", "tmp"} \subseteq Files
  BY DEF Staged, Files
<1>6. ~Orphan /\ j.then = "none"
  BY <1>3 DEF Staging, Shelf, Route, CopyPcs
<1>7. ASSUME \A f \in Staged : Has(Base, f)' <=> Has(Base, f)
      PROVE  ~Orphan'
  BY <1>5, <1>6, <1>7 DEF Orphan
<1>8. ASSUME NEW pc \in SyncPcs, Goto(g, pc) \/ Fails(g, pc)
      PROVE  job'[g].pc = pc /\ job'[g].then = "none" /\ job'[g].port = p
  BY <1>1, <1>2, <1>6, <1>8 DEF Goto, Fails, Jobs
<1>9. CASE Wipe(g)
  <2>1. CASE Remove(p, Files)
    <3>1. \A u, f : Has(u, f)' <=> Has(u, f) /\ ~(u = p /\ f \in Files)
      BY <2>1, RemoveHas
    <3>2. ~Has(p, "tmp")' /\ ~Orphan'
      BY <1>4, <1>5, <1>7, <3>1
    <3>3. CASE Synced(g, FALSE)
      BY <1>1, <1>6, <3>2, <3>3, SyncedStaging
    <3>4. CASE \E pc \in {"link", "own"} : Goto(g, pc) \/ Fails(g, pc)
      BY <1>1, <1>6, <1>8, <3>2, <3>4, WithinStaging DEF SyncPcs
    <3> QED
      BY <1>9, <3>3, <3>4 DEF Wipe
  <2>2. CASE ~Remove(p, Files)
    <3>1. \E fs : Remove(p, fs)
      BY <1>1, <1>9, <2>2 DEF Wipe
    <3>2. \A f \in Files : /\ Has(p, f)' => Has(p, f)
                           /\ Has(Base, f)' <=> Has(Base, f)
      BY <1>4, <3>1, RemoveHas
    <3>3. ~Orphan'
      BY <1>5, <1>7, <3>2 DEF Staged
    <3>4. CASE j.try = "link"
      <4>1. Synced(g, FALSE)
        BY <1>1, <1>9, <2>2, <3>4 DEF Wipe
      <4> QED
        BY <1>1, <1>6, <3>3, <4>1, SyncedStaging
    <3>5. CASE j.try # "link"
      <4>1. Fails(g, "link") /\ j.pc = "wipe"
        BY <1>1, <1>9, <2>2, <3>5 DEF Wipe, At
      <4>2. j.try = "relink"
        BY <1>2, <3>5 DEF Jobs
      <4>3. Has(p, "tmp") => Has(Base, "tmp")
        BY <1>1, <4>1, <4>2 DEF Staging, Shelf
      <4>4. Has(p, "tmp")' => Has(Base, "tmp")'
        BY <1>5, <3>2, <4>3
      <4> QED
        BY <1>1, <1>6, <1>8, <3>3, <4>1, <4>4, WithinStaging DEF SyncPcs
    <3> QED
      BY <3>4, <3>5
  <2> QED
    BY <2>1, <2>2
<1>10. CASE Own(g) \/ Chown(g)
  <2>1. Still
    BY <1>10, SameStill, ChownSound, NamedStill DEF Own, Chown
  <2>2. Has(p, "tmp") => Has(Base, "tmp")
    BY <1>1, <1>10 DEF Own, Chown, At, Staging, Shelf
  <2>3. (Has(p, "tmp")' => Has(Base, "tmp")') /\ ~Orphan'
    BY <1>4, <1>5, <1>7, <2>1, <2>2 DEF Still
  <2>4. CASE \E pc \in {"link", "deep"} : Goto(g, pc) \/ Fails(g, pc)
    BY <1>1, <1>6, <1>8, <2>3, <2>4, WithinStaging DEF SyncPcs
  <2>5. CASE job' = [job EXCEPT ![g].pc = "wipe", ![g].try = "relink"]
    <3>1. job'[g].pc = "wipe" /\ job'[g].then = "none" /\ job'[g].port = p
      BY <1>1, <1>2, <1>6, <2>5 DEF Jobs
    <3> QED
      BY <1>1, <1>6, <2>3, <3>1, WithinStaging
  <2> QED
    BY <1>10, <2>4, <2>5 DEF Own, Chown
<1>11. CASE LinkOk(g)
  <2>1. disk' = Links(p, Held(Base)) /\ j.pc = "link" /\ Synced(g, Has(Base, "game"))
    BY <1>1, <1>11 DEF LinkOk, At
  <2>2. \A u, f : Has(u, f)' <=> Has(u, f) \/ (u = p /\ f \in Held(Base) /\ Has(Base, f))
    BY <2>1, LinksHas
  <2>3. \A f \in Staged : /\ Has(Base, f)' <=> Has(Base, f)
                          /\ Has(p, f)' <=> Has(p, f) \/ Has(Base, f)
    BY <1>4, <2>2 DEF Held, Staged, Files
  <2>4. Has(p, "tmp") => Has(Base, "tmp")
    BY <1>1, <2>1 DEF Staging, Shelf
  <2>5. ~Orphan'
    BY <1>7, <2>3
  <2>6. (Has(p, "tmp")' => Has(Base, "tmp")') /\ (Has(Base, "so")' => Has(p, "so")')
    BY <1>5, <2>3, <2>4
  <2>7. PICK ok : ok = Has(Base, "game")
    OBVIOUS
  <2>8. Synced(g, ok)
    BY <2>1, <2>7 DEF Synced
  <2> QED
    BY <1>1, <1>6, <2>5, <2>6, <2>8, SyncedStaging
<1>12. CASE LinkFail(g)
  <2>1. PICK fs : disk' = Links(p, fs)
    BY <1>1, <1>12 DEF LinkFail
  <2>2. \A u, f : Has(u, f)' <=> Has(u, f) \/ (u = p /\ f \in fs /\ Has(Base, f))
    BY <2>1, LinksHas
  <2>3. Has(p, "tmp") => Has(Base, "tmp")
    BY <1>1, <1>12 DEF LinkFail, At, Staging, Shelf
  <2>4. ~Orphan'
    BY <1>4, <1>7, <2>2
  <2>5. Has(p, "tmp")' => Has(Base, "tmp")'
    BY <1>4, <2>2, <2>3
  <2>6. \E pc \in {"chown", "deep"} : Goto(g, pc) \/ Fails(g, pc)
    BY <1>12 DEF LinkFail
  <2> QED
    BY <1>1, <1>6, <1>8, <2>4, <2>5, <2>6, WithinStaging DEF SyncPcs
<1>13. CASE Deep(g)
  <2>1. PICK fs \in SUBSET Missing(p) : /\ disk' = Copies(p, fs)
                                        /\ Synced(g, FALSE) \/ fs = Missing(p)
    BY <1>1, <1>13 DEF Deep
  <2>2. \A u, f : Has(u, f)' <=> Has(u, f) \/ (u = p /\ f \in fs)
    BY <2>1, CopiesHas
  <2>3. \A f \in fs : Has(Base, f) /\ f \in Files
    BY <2>1 DEF Missing, Held
  <2>4. Has(p, "tmp") => Has(Base, "tmp")
    BY <1>1, <1>13 DEF Deep, At, Staging, Shelf
  <2>5. ~Orphan' /\ (Has(p, "tmp")' => Has(Base, "tmp")')
    BY <1>4, <1>7, <2>2, <2>3, <2>4
  <2>6. CASE Synced(g, FALSE)
    BY <1>1, <1>6, <2>5, <2>6, SyncedStaging
  <2>7. CASE ~Synced(g, FALSE)
    <3>1. fs = Missing(p) /\ Synced(g, Missing(p) = Held(Base) /\ Has(Base, "game"))
      BY <1>1, <1>13, <2>1, <2>7 DEF Deep
    <3>2. Has(Base, "so")' => Has(p, "so")'
      BY <1>4, <1>5, <2>2, <3>1 DEF Missing, Held
    <3>3. PICK ok : ok = (Missing(p) = Held(Base) /\ Has(Base, "game"))
      OBVIOUS
    <3>4. Synced(g, ok)
      BY <3>1, <3>3 DEF Synced
    <3> QED
      BY <1>1, <1>6, <2>5, <3>2, <3>4, SyncedStaging
  <2> QED
    BY <2>6, <2>7
<1> QED
  BY <1>9, <1>10, <1>11, <1>12, <1>13

\* SteamCMD replaces only the game, or begins with an empty base.
LEMMA SteamHas ==
    ASSUME Sound(disk), NEW g, SteamOk(g)
    PROVE  Still \/ \A f \in Staged : ~Has(Base, f)'
<1>1. "game" \notin Staged /\ Staged \subseteq Files
  BY DEF Staged, Files
<1>2. CASE UNCHANGED disk
  BY <1>2, SameStill
<1>3. CASE Replace(Base, "game", "raw", "agent")
  BY <1>1, <1>3, ReplaceStill
<1>4. CASE disk' = Left(Base, Files) \cup {File({<<Base, "game">>}, "raw", "agent")}
  <2> DEFINE k == File({<<Base, "game">>}, "raw", "agent")
             d == Without(disk, {Base} \X Files)
  <2>1. \A n : Named(d, n) => n \notin {Base} \X Files
    BY WithoutSound
  <2>2. disk' = d \cup {k}
    BY <1>4 DEF Left
  <2>3. k.links = {<<Base, "game">>}
    BY DEF File
  <2> HIDE DEF k, d
  <2>4. ASSUME NEW f \in Staged, Has(Base, f)' PROVE FALSE
    <3>1. PICK i \in disk' : <<Base, f>> \in i.links
      BY <2>4 DEF Has
    <3>2. <<Base, f>> \notin k.links
      BY <1>1, <2>3
    <3>3. Named(d, <<Base, f>>)
      BY <2>2, <3>1, <3>2 DEF Named
    <3> QED
      BY <1>1, <2>1, <3>3
  <2> QED
    BY <2>4
<1> QED
  BY <1>2, <1>3, <1>4 DEF SteamOk

\* The base is brought up to date, or wiped.
LEMMA BaseStaging ==
    ASSUME Sound(disk), JobsInv, NEW g \in Goroutines, Staging(g), Interrupt = FALSE,
           WipeBase(g) \/ SteamOk(g) \/ SteamFail(g)
    PROVE  Staging(g)'
<1> DEFINE j == job[g]
<1>1. PICK k : k = job'[g]
  OBVIOUS
<1>2. job \in [Goroutines -> Jobs] /\ j \in Jobs
  BY DEF JobsInv
<1>3. j.pc \in {"wipebase", "steam"}
  BY DEF WipeBase, SteamOk, SteamFail, At
<1>4. ~Orphan /\ j.then = "none"
  BY <1>3 DEF Staging, Shelf, Route, CopyPcs
<1>5. Base \in Trees /\ {"so", "tmp"} \subseteq Staged /\ "tmp" \in Files
  BY DEF Trees, Staged, Files
<1>6. ASSUME Still \/ WipePart PROVE ~Orphan'
  BY <1>4, <1>5, <1>6 DEF Still, Orphan, WipePart
<1>7. CASE WipeBase(g)
  <2>1. CASE WipeAll /\ Goto(g, "steam")
    <3>1. ~Has(Base, "tmp")'
      BY <1>5, <2>1, RemoveHas DEF WipeAll
    <3>2. k.pc = "steam" /\ k.then = "none"
      BY <1>1, <1>2, <1>4, <2>1 DEF Goto, Jobs
    <3>3. Route(k) /\ Shelf(k)'
      BY <3>1, <3>2 DEF Route, Shelf, Orphan
    <3> QED
      BY <1>1, <3>3, StagingIs
  <2>2. CASE WipePart /\ Return(g)
    BY <1>2, <1>6, <2>2, StagingEnds DEF Return
  <2> QED
    BY <1>7, <2>1, <2>2 DEF WipeBase
<1>8. CASE SteamOk(g)
  <2>1. ~Orphan'
    BY <1>5, <1>6, <1>8, SteamHas DEF Orphan
  <2>2. k.pc = "open" /\ k.to = Base /\ k.then \in {"down", "setup"}
    BY <1>1, <1>2, <1>8 DEF SteamOk, Jobs
  <2>3. Route(k) /\ Shelf(k)'
    BY <2>1, <2>2 DEF Route, Shelf, CopyPcs
  <2> QED
    BY <1>1, <2>3, StagingIs
<1>9. CASE SteamFail(g)
  <2>1. ~Orphan'
    BY <1>6, <1>9, SameStill DEF SteamFail
  <2>2. CASE j.op = "update"
    <3>1. k.pc = "up" /\ k.then = "none" /\ k.op = "update"
      BY <1>1, <1>2, <1>4, <1>9, <2>2 DEF SteamFail, Goto, Jobs
    <3>2. Route(k) /\ Shelf(k)'
      BY <2>1, <3>1 DEF Route, Shelf
    <3> QED
      BY <1>1, <3>2, StagingIs
  <2>3. CASE j.op # "update"
    BY <1>2, <1>9, <2>1, <2>3, StagingEnds DEF SteamFail, Return
  <2> QED
    BY <2>2, <2>3
<1> QED
  BY <1>7, <1>8, <1>9

LEMMA OpenSourceHas ==
    ASSUME Sound(disk), NEW g, OpenSource(g)
    PROVE  Still
<1>1. CASE UNCHANGED disk
  BY <1>1, SameStill
<1>2. CASE disk' = Linked(disk, <<Base, "so">>, <<g, "in">>)
  <2> DEFINE L(i) == [i EXCEPT !.links = IF <<Base, "so">> \in @ THEN @ \cup {<<g, "in">>} ELSE @]
  <2>1. disk' = {L(i) : i \in disk}
    BY <1>2 DEF Linked
  <2>2. ASSUME NEW i \in disk, NEW u \in Trees, NEW f \in Staged
        PROVE  <<u, f>> \in L(i).links <=> <<u, f>> \in i.links
    <3>1. <<u, f>> # <<g, "in">>
      BY NotOut DEF Staged, Files
    <3> QED
      BY <3>1 DEF Sound, Inodes
  <2> HIDE DEF L
  <2> QED
    BY <2>1, <2>2 DEF Still, Has
<1> QED
  BY <1>1, <1>2 DEF OpenSource

\* A file is copied.
LEMMA CopyStaging ==
    ASSUME Sound(disk), JobsInv, NEW g \in Goroutines, Staging(g), Interrupt = FALSE,
           OpenSource(g) \/ OpenTmp(g) \/ WriteTmp(g) \/ RenameTmp(g) \/ CopyFileFails(g)
    PROVE  Staging(g)'
<1> DEFINE j == job[g]
<1>1. PICK k : k = job'[g]
  OBVIOUS
<1>2. job \in [Goroutines -> Jobs] /\ j \in Jobs /\ Shape(j)
  BY DEF JobsInv
<1>3. PICK t, p : t = j.to /\ p = j.port
  OBVIOUS
<1>4. t \in Trees /\ p \in Trees /\ Base \in Trees
  BY <1>2, <1>3 DEF Jobs, Trees
<1>5. {"so", "tmp"} = Staged /\ Staged \subseteq Files
  BY DEF Staged, Files
<1>6. j.pc \in CopyPcs /\ j.then \in {"setup", "down", "fill", "up"}
  BY <1>2 DEF OpenSource, OpenTmp, WriteTmp, RenameTmp, CopyFileFails, At, CopyPcs, Shape,
     ThenAt, Jobs
<1>7. j.then \in {"fill", "up"} => j.op = "deploy" /\ p # Base
  <2>1. j.op = "deploy" => p # Base
    BY <1>2, <1>3, TreesAssumption DEF Shape, PortAt
  <2> QED
    BY <2>1 DEF Staging, Route
<1>8. /\ j.then # "up" => t = Base
      /\ j.then = "up" => t = p
      /\ j.then = "fill" => ~Has(p, "tmp")
  BY <1>3, <1>6 DEF Staging, Route, Shelf
<1>9. ASSUME NEW pc \in CopyPcs, Goto(g, pc)
      PROVE  /\ Route(k) /\ k.pc = pc /\ k.to = t /\ k.then = j.then
             /\ k.port = p /\ k.op = j.op
  <2>1. k.pc = pc /\ k.to = j.to /\ k.then = j.then /\ k.port = j.port /\ k.op = j.op
    BY <1>1, <1>2, <1>9 DEF Goto, Jobs
  <2>2. Route(k)
    BY <1>6, <2>1 DEF Staging, Route, CopyPcs
  <2> QED
    BY <1>3, <2>1, <2>2
<1>10. CASE OpenSource(g)
  <2>1. Still /\ Goto(g, "create") /\ j.pc = "open"
    BY <1>10, OpenSourceHas DEF OpenSource, At
  <2>2. Route(k) /\ k.pc = "create" /\ k.to = t /\ k.then = j.then /\ k.port = p
    BY <1>9, <2>1 DEF CopyPcs
  <2>3. ~Orphan'
    BY <1>4, <1>5, <2>1 DEF Still, Orphan, Staging, Shelf
  <2>4. t # Base => ~Has(t, "tmp")'
    BY <1>3, <1>4, <1>5, <2>1 DEF Still, Staging, Shelf
  <2>5. j.then = "fill" => ~Has(p, "tmp")'
    BY <1>4, <1>5, <1>8, <2>1 DEF Still
  <2>6. Shelf(k)'
    BY <2>2, <2>3, <2>4, <2>5 DEF Shelf
  <2> QED
    BY <1>1, <2>2, <2>6, StagingIs
<1>11. CASE OpenTmp(g)
  <2>1. Goto(g, "write") /\ j.pc = "create"
    BY <1>11 DEF OpenTmp, At
  <2>2. \A u \in Trees, f \in Files : Has(u, f)' <=> Has(u, f) \/ (u = t /\ f = "tmp")
    BY <1>3, <1>11, OpenTmpHas
  <2>3. Route(k) /\ k.pc = "write" /\ k.to = t /\ k.then = j.then /\ k.port = p
    BY <1>9, <2>1 DEF CopyPcs
  <2>4. ~Orphan
    BY <2>1 DEF Staging, Shelf
  <2>5. Orphan' => t = Base
    BY <1>4, <1>5, <2>2, <2>4 DEF Orphan
  <2>6. j.then = "fill" => ~Has(p, "tmp")'
    BY <1>4, <1>5, <1>7, <1>8, <2>2
  <2>7. Shelf(k)'
    BY <2>3, <2>5, <2>6 DEF Shelf
  <2> QED
    BY <1>1, <2>3, <2>7, StagingIs
<1>12. CASE WriteTmp(g)
  <2>1. Goto(g, "rename") /\ j.pc = "write"
    BY <1>12 DEF WriteTmp, At
  <2>2. Still
    <3>1. PICK s \in States : disk' = Written(disk, <<g, "out">>, s)
      <4>1. (IF Has(g, "in") THEN Inode(g, "in").s ELSE "raw") \in States
        BY InodeTyped DEF States
      <4> QED
        BY <1>12, <4>1 DEF WriteTmp, Overwrite
    <3> QED
      BY <3>1, WrittenSound, NamedStill
  <2>3. Route(k) /\ k.pc = "rename" /\ k.to = t /\ k.then = j.then /\ k.port = p
    BY <1>9, <2>1 DEF CopyPcs
  <2>4. Orphan' => t = Base
    BY <1>3, <1>4, <1>5, <2>2 DEF Still, Orphan, Staging, Shelf
  <2>5. j.then = "fill" => ~Has(p, "tmp")'
    BY <1>4, <1>5, <1>8, <2>2 DEF Still
  <2>6. Shelf(k)'
    BY <2>3, <2>4, <2>5 DEF Shelf
  <2> QED
    BY <1>1, <2>3, <2>6, StagingIs
<1>13. CASE RenameTmp(g)
  <2>1. \A u \in Trees : /\ Has(u, "so")' <=> Has(u, "so") \/ u = t
                         /\ Has(u, "tmp")' <=> Has(u, "tmp") /\ u # t
    BY <1>3, <1>4, <1>13, RenameHas
  <2>2. k.pc = j.then /\ k.to = Base /\ k.then = "none" /\ k.port = p /\ k.op = j.op
    BY <1>1, <1>2, <1>3, <1>13 DEF RenameTmp, Closed, Jobs
  <2>3. ~Orphan'
    BY <1>3, <1>4, <2>1 DEF Orphan, Staging, Shelf
  <2>4. j.then = "fill" => ~Has(p, "tmp")'
    BY <1>4, <1>8, <2>1
  <2>5. j.then = "up" => Has(p, "so")'
    BY <1>4, <1>8, <2>1
  <2>6. Route(k)
    BY <1>6, <1>7, <2>2 DEF Route
  <2>7. Shelf(k)'
    BY <1>6, <2>2, <2>3, <2>4, <2>5 DEF Shelf
  <2> QED
    BY <1>1, <2>6, <2>7, StagingIs
<1>14. CASE CopyFileFails(g)
  <2>1. ~Orphan'
    BY <1>14 DEF CopyFileFails
  <2>2. CASE j.then \in {"setup", "down"}
    <3>1. k.pc = j.then /\ k.then = "none"
      BY <1>1, <1>2, <1>14, <2>2 DEF CopyFileFails, Closed, Jobs
    <3>2. Route(k) /\ Shelf(k)'
      BY <2>1, <2>2, <3>1 DEF Route, Shelf
    <3> QED
      BY <1>1, <3>2, StagingIs
  <2>3. CASE j.then \notin {"setup", "down"}
    BY <1>2, <1>14, <2>1, <2>3, StagingEnds DEF CopyFileFails, Return
  <2> QED
    BY <2>2, <2>3
<1> QED
  BY <1>10, <1>11, <1>12, <1>13, <1>14

LEMMA CommandStaging ==
    ASSUME Sound(disk), JobsInv, NEW g \in Goroutines, Staging(g), FirstTry(job[g]),
           Interrupt = FALSE, Command(g)
    PROVE  Staging(g)'
  BY BeginStaging, SameStaging, SyncStaging, BaseStaging, CopyStaging DEF Command

-----------------------------------------------------------------------------
(* The file that is being copied                                           *)

\* What is read is what the base has under its own name, and what is written is what will
\* be renamed.
Writing(g) ==
    /\ \A i \in disk : <<g, "in">> \in i.links => <<Base, "so">> \in i.links
    /\ job[g].pc \in {"write", "rename"} => Draft(g)

\* Nothing is open where no file is copied.
LEMMA ClosedWriting ==
    ASSUME NEW g, Opens(g)', job'[g].pc \notin {"create", "write", "rename"}
    PROVE  Writing(g)'
<1>1. ~Has(g, "in")'
  BY DEF Opens
<1> QED
  BY <1>1 DEF Writing, Has

LEMMA ReplaceWriting ==
    ASSUME Sound(disk), NEW g \in Goroutines, Writing(g), job' = job,
           NEW t \in Trees, NEW f \in Files \ Staged, NEW s, NEW o, Replace(t, f, s, o)
    PROVE  Writing(g)'
<1> DEFINE n == <<t, f>>
           new == File({n}, s, o)
           tmp == <<job[g].to, "tmp">>
<1>1. new.links = {n} /\ disk' = Without(disk, {n}) \cup {new}
  BY DEF File, Replace
<1>2. n # <<g, "in">> /\ n # <<g, "out">> /\ n # tmp /\ n # <<Base, "so">>
  BY NotOut DEF Staged
<1> HIDE DEF n, new, tmp
<1>3. ASSUME NEW k \in disk', k # new
      PROVE  \E i \in disk : k.s = i.s /\ k.links = i.links \ {n}
  <2>1. PICK i \in disk : k = [i EXCEPT !.links = @ \ {n}]
    BY <1>1, <1>3 DEF Without
  <2> QED
    BY <2>1 DEF Sound, Inodes
<1>4. ASSUME NEW k \in disk', <<g, "in">> \in k.links PROVE <<Base, "so">> \in k.links
  <2>1. k # new
    BY <1>1, <1>2, <1>4
  <2> QED
    BY <1>2, <1>3, <1>4, <2>1 DEF Writing
<1>5. ASSUME job[g].pc \in {"write", "rename"} PROVE Draft(g)'
  <2>1. ASSUME NEW k \in disk', tmp \in k.links
        PROVE  /\ <<g, "out">> \in k.links
               /\ job[g].to # Base => k.links \subseteq {<<g, "out">>, tmp}
               /\ At(g, "rename") => k.s = "raw"
    <3>1. k # new
      BY <1>1, <1>2, <2>1
    <3>2. PICK i \in disk : k.s = i.s /\ k.links = i.links \ {n}
      BY <1>3, <3>1
    <3>3. /\ <<g, "out">> \in i.links
          /\ job[g].to # Base => i.links \subseteq {<<g, "out">>, tmp}
          /\ At(g, "rename") => i.s = "raw"
      BY <1>5, <2>1, <3>2 DEF Writing, Draft, tmp
    <3> QED
      BY <1>2, <3>2, <3>3
  <2> QED
    BY <2>1 DEF Draft, At, tmp
<1> QED
  BY <1>4, <1>5 DEF Writing

LEMMA OverwriteWriting ==
    ASSUME Sound(disk), Tidy(disk), NEW g \in Goroutines, Writing(g), job' = job,
           job[g].to \in Trees, NEW t \in Trees, NEW f \in Files \ Staged, NEW s, Overwrite(t, f, s)
    PROVE  Writing(g)'
<1> DEFINE n == <<t, f>>
           tmp == <<job[g].to, "tmp">>
<1>1. ASSUME NEW k \in disk'
      PROVE  \E i \in disk : k.links = i.links /\ (n \notin i.links => k.s = i.s)
  <2>1. PICK i \in disk : k = [i EXCEPT !.s = IF n \in i.links THEN s ELSE @]
    BY DEF Overwrite, Written
  <2> QED
    BY <2>1 DEF Sound, Inodes
<1>2. ASSUME NEW i \in disk, tmp \in i.links PROVE n \notin i.links
  <2>1. "tmp" \in Files /\ f \in Files /\ f # "tmp"
    BY DEF Files, Staged
  <2> QED
    BY <1>2, <2>1 DEF Tidy, Solo
<1> HIDE DEF n, tmp
<1>3. \A k \in disk' : <<g, "in">> \in k.links => <<Base, "so">> \in k.links
  BY <1>1 DEF Writing
<1>4. ASSUME job[g].pc \in {"write", "rename"} PROVE Draft(g)'
  <2>1. ASSUME NEW k \in disk', tmp \in k.links
        PROVE  /\ <<g, "out">> \in k.links
               /\ job[g].to # Base => k.links \subseteq {<<g, "out">>, tmp}
               /\ At(g, "rename") => k.s = "raw"
    BY <1>1, <1>2, <1>4, <2>1 DEF Writing, Draft, tmp
  <2> QED
    BY <2>1 DEF Draft, At, tmp
<1> QED
  BY <1>3, <1>4 DEF Writing

\* The entrypoints leave steamclient.so alone, under both of its names.
LEMMA ScriptAside ==
    ASSUME Sound(disk), Tidy(disk), JobsInv, NEW g \in Goroutines, Writing(g),
           NEW t \in Trees, Entrypoint(t)
    PROVE  Still /\ Writing(g)' /\ job' = job
<1>1. job' = job /\ job[g].to \in Trees
  BY EntrypointAlone DEF JobsInv, Jobs
<1>2. {"game", "plugins", "log"} \subseteq Files \ Staged
  BY DEF Files, Staged
<1>3. UNCHANGED disk => Still /\ Writing(g)'
  BY <1>1, SameStill DEF Writing, Draft, At
<1>4. ASSUME NEW f \in {"game", "plugins", "log"}, NEW s, NEW o, Replace(t, f, s, o)
      PROVE  Still /\ Writing(g)'
  BY <1>1, <1>2, <1>4, ReplaceStill, ReplaceWriting
<1>5. ASSUME NEW f \in {"plugins", "log"}, Overwrite(t, f, "ours")
      PROVE  Still /\ Writing(g)'
  <2>1. "ours" \in States
    BY DEF States
  <2> QED
    BY <1>1, <1>2, <1>5, <2>1, WrittenSound, NamedStill, OverwriteWriting DEF Overwrite
<1>6. CASE EntryCheck(t) \/ UnpackFail(t) \/ GameEnds(t)
  BY <1>1, <1>3, <1>6 DEF EntryCheck, UnpackFail, GameEnds
<1>7. CASE Unpack(t)
  BY <1>1, <1>4, <1>7 DEF Unpack
<1>8. CASE Patch(t)
  BY <1>1, <1>3, <1>4, <1>8 DEF Patch
<1>9. CASE Configure(t)
  BY <1>1, <1>3, <1>4, <1>5, <1>9 DEF Configure
<1>10. CASE TouchLog(t)
  BY <1>1, <1>3, <1>4, <1>5, <1>10 DEF TouchLog
<1>11. CASE Killed(t)
  BY <1>1, <1>3, <1>4, <1>11 DEF Killed
<1> QED
  BY <1>6, <1>7, <1>8, <1>9, <1>10, <1>11 DEF Entrypoint

\* The source is opened.
LEMMA OpenSourceWriting ==
    ASSUME Sound(disk), JobsInv, NEW g \in Goroutines, Opens(g), OpenSource(g)
    PROVE  Writing(g)'
<1>1. job'[g].pc = "create"
  BY DEF OpenSource, Goto, JobsInv, Jobs
<1>2. \A i \in disk : <<g, "in">> \notin i.links
  BY DEF OpenSource, At, Opens, Has
<1>3. ASSUME NEW k \in disk', <<g, "in">> \in k.links PROVE <<Base, "so">> \in k.links
  <2>1. disk' = Linked(disk, <<Base, "so">>, <<g, "in">>)
    BY <1>2, <1>3 DEF OpenSource
  <2>2. PICK i \in disk :
           k = [i EXCEPT !.links = IF <<Base, "so">> \in @ THEN @ \cup {<<g, "in">>} ELSE @]
    BY <2>1 DEF Linked
  <2>3. k.links = IF <<Base, "so">> \in i.links THEN i.links \cup {<<g, "in">>} ELSE i.links
    BY <2>2 DEF Sound, Inodes
  <2> QED
    BY <1>2, <1>3, <2>3
<1> QED
  BY <1>1, <1>3 DEF Writing

\* The temporary file is opened: a new one in a copy.
LEMMA OpenTmpWriting ==
    ASSUME Sound(disk), JobsInv, NEW g \in Goroutines, Writing(g), Shelf(job[g]), OpenTmp(g)
    PROVE  Writing(g)'
<1> DEFINE t   == job[g].to
           tmp == <<t, "tmp">>
           out == <<g, "out">>
           in  == <<g, "in">>
<1>1. job'[g].pc = "write" /\ job'[g].to = t /\ t \in Trees
  BY DEF OpenTmp, Goto, JobsInv, Jobs
<1>2. tmp # out /\ in # tmp /\ in # out
  BY NotOut DEF Files
<1>3. \A i \in disk : in \in i.links => <<Base, "so">> \in i.links
  BY DEF Writing
<1>4. (\A k \in disk' : in \in k.links => <<Base, "so">> \in k.links)
      /\ \A k \in disk' : tmp \in k.links =>
            out \in k.links /\ (t # Base => k.links \subseteq {out, tmp})
  <2>1. CASE ~Has(t, "tmp")
    <3> DEFINE new == File({tmp, out}, "part", "agent")
    <3>1. disk' = disk \cup {new}
      BY <2>1 DEF OpenTmp
    <3>2. new.links = {tmp, out}
      BY DEF File
    <3>3. \A i \in disk : tmp \notin i.links
      BY <2>1 DEF Has
    <3> HIDE DEF new, tmp, out, in
    <3> QED
      BY <1>2, <1>3, <3>1, <3>2, <3>3
  <2>2. CASE Has(t, "tmp")
    <3>1. t = Base
      BY <2>2 DEF Shelf, OpenTmp, At
    <3>2. disk' = Linked(Written(disk, tmp, "part"), tmp, out)
      BY <2>2 DEF OpenTmp
    <3>3. ASSUME NEW k \in disk'
          PROVE  \E i \in disk : k.links = IF tmp \in i.links THEN i.links \cup {out} ELSE i.links
      <4>1. PICK w \in Written(disk, tmp, "part") :
               k = [w EXCEPT !.links = IF tmp \in @ THEN @ \cup {out} ELSE @]
        BY <3>2 DEF Linked
      <4>2. PICK i \in disk : w = [i EXCEPT !.s = IF tmp \in i.links THEN "part" ELSE @]
        BY DEF Written
      <4> QED
        BY <4>1, <4>2 DEF Sound, Inodes
    <3> HIDE DEF tmp, out, in
    <3> QED
      BY <1>2, <1>3, <3>1, <3>3
  <2> QED
    BY <2>1, <2>2
<1>5. Draft(g)'
  BY <1>1, <1>4 DEF Draft, At
<1> QED
  BY <1>4, <1>5 DEF Writing

\* What is written is what the base has, or what SteamCMD has brought.
LEMMA WriteTmpWriting ==
    ASSUME Sound(disk), Tidy(disk), JobsInv, NEW g \in Goroutines, Writing(g), WriteTmp(g)
    PROVE  Writing(g)'
<1> DEFINE s   == IF Has(g, "in") THEN Inode(g, "in").s ELSE "raw"
           tmp == <<job[g].to, "tmp">>
<1>1. s = "raw"
  <2>1. CASE Has(g, "in")
    <3>1. Inode(g, "in") \in disk /\ <<g, "in">> \in Inode(g, "in").links
      BY <2>1, InodeIn
    <3>2. <<Base, "so">> \in Inode(g, "in").links
      BY <3>1 DEF Writing
    <3> QED
      BY <2>1, <3>1, <3>2 DEF Tidy, Solo, Trees
  <2> QED
    BY <2>1
<1>2. job'[g].pc = "rename" /\ job'[g].to = job[g].to
  BY DEF WriteTmp, Goto, JobsInv, Jobs
<1>3. disk' = Written(disk, <<g, "out">>, s) /\ job[g].pc = "write"
  BY DEF WriteTmp, Overwrite, At
<1> HIDE DEF s
<1>4. ASSUME NEW k \in disk'
      PROVE  \E i \in disk : k.links = i.links /\ (<<g, "out">> \in i.links => k.s = "raw")
  <2>1. PICK i \in disk : k = [i EXCEPT !.s = IF <<g, "out">> \in i.links THEN s ELSE @]
    BY <1>3 DEF Written
  <2> QED
    BY <1>1, <2>1 DEF Sound, Inodes
<1>5. \A k \in disk' : <<g, "in">> \in k.links => <<Base, "so">> \in k.links
  BY <1>4 DEF Writing
<1>6. Draft(g)
  BY <1>3 DEF Writing
<1>7. \A k \in disk' : tmp \in k.links =>
          /\ <<g, "out">> \in k.links /\ k.s = "raw"
          /\ job[g].to # Base => k.links \subseteq {<<g, "out">>, tmp}
  BY <1>4, <1>6 DEF Draft
<1>8. Draft(g)'
  BY <1>2, <1>7 DEF Draft
<1> QED
  BY <1>5, <1>8 DEF Writing
-----------------------------------------------------------------------------
(* The steps                                                               *)

\* A step that only one tree notices.
Alone == Tidy(disk') /\ \E t \in Trees : Keeps(t, disk, disk')

LEMMA SameAlone == ASSUME Tidy(disk), UNCHANGED disk PROVE Alone
<1>1. Base \in Trees
  BY DEF Trees
<1> QED
  BY <1>1, KeepsSame DEF Alone

LEMMA SteamAlone ==
    ASSUME Sound(disk), Tidy(disk), NEW g, SteamOk(g)
    PROVE  Alone
<1>1. Base \in Trees /\ "game" \in Files
  BY DEF Trees, Files
<1>2. CASE UNCHANGED disk
  BY <1>2, SameAlone
<1>3. CASE Replace(Base, "game", "raw", "agent")
  BY <1>1, <1>3, ReplaceTidy DEF Alone
<1>4. CASE disk' = Left(Base, Files) \cup {File({<<Base, "game">>}, "raw", "agent")}
  <2> DEFINE d == Left(Base, Files)
  <2>1. Sound(d)
    BY WithoutSound DEF Left
  <2>2. Tidy(d) /\ Keeps(Base, disk, d)
    BY LeftTidy
  <2> HIDE DEF d
  <2>3. disk' = d \cup {File({<<Base, "game">>}, "raw", "agent")}
    BY <1>4 DEF d
  <2>4. Tidy(disk') /\ Keeps(Base, d, disk')
    BY <1>1, <2>1, <2>2, <2>3, AddTidy
  <2>5. Keeps(Base, disk, disk')
    BY <2>2, <2>4, KeepsBoth
  <2> QED
    BY <1>1, <2>4, <2>5 DEF Alone
<1> QED
  BY <1>2, <1>3, <1>4 DEF SteamOk

LEMMA CloseFailedAlone ==
    ASSUME Sound(disk), Tidy(disk), NEW g, CopyFileFails(g)
    PROVE  Alone
<1> DEFINE names == {<<g, "in">>, <<g, "out">>} \cup
                    IF At(g, "write") THEN {<<job[g].to, "tmp">>} ELSE {}
<1>1. disk' = Without(disk, names) /\ Base \in Trees
  BY DEF CopyFileFails, Trees
<1>2. ASSUME NEW u, NEW f \in Reads PROVE <<u, f>> \notin names
  BY DEF Reads, Files
<1> HIDE DEF names
<1> QED
  BY <1>1, <1>2, WithoutTidy DEF Alone

LEMMA CommandAlone ==
    ASSUME Sound(disk), Tidy(disk), JobsInv, NEW g, Goroutines = {g}, Staging(g), Writing(g),
           Command(g)
    PROVE  Alone
<1>1. job[g] \in Jobs /\ g \in Goroutines
  BY DEF JobsInv
<1>2. job[g].port \in Trees /\ job[g].to \in Trees /\ Base \in Trees
  BY <1>1 DEF Jobs, Trees
<1>3. CASE StartDeploy(g) \/ StartUpdate(g) \/ StartReinstall(g) \/ StartSetup(g)
  BY <1>3, SameAlone DEF StartDeploy, StartUpdate, StartReinstall, StartSetup, Begin
<1>4. CASE Stop(g) \/ Down(g) \/ Ensure(g) \/ Fill(g) \/ Setup(g) \/ SetupDone(g) \/ SyncNext(g)
           \/ Up(g)
  BY <1>4, SameAlone DEF Stop, Down, Ensure, Fill, Setup, SetupDone, SyncNext, Up
<1>5. CASE WipeBase(g)
  BY <1>2, <1>5, RemoveTidy DEF WipeBase, WipeAll, WipePart, Alone
<1>6. CASE SteamOk(g)
  BY <1>6, SteamAlone
<1>7. CASE SteamFail(g)
  BY <1>2, <1>7, RemoveTidy, SameAlone DEF SteamFail, WipePart, Alone
<1>8. CASE OpenSource(g)
  <2>1. CASE disk' = Linked(disk, <<Base, "so">>, <<g, "in">>)
    BY <1>2, <2>1, OpenedTidy DEF Alone
  <2> QED
    BY <1>8, <2>1, SameAlone DEF OpenSource
<1>9. CASE OpenTmp(g)
  <2>1. job[g].to # Base => ~Has(job[g].to, "tmp")
    BY <1>9 DEF OpenTmp, At, Staging, Shelf
  <2> QED
    BY <1>1, <1>2, <1>9, <2>1, OpenTmpTidy DEF Alone
<1>10. CASE WriteTmp(g)
  <2> DEFINE s == IF Has(g, "in") THEN Inode(g, "in").s ELSE "raw"
             out == <<g, "out">>
  <2>1. disk' = Written(disk, out, s)
    BY <1>10 DEF WriteTmp, Overwrite
  <2>2. ASSUME NEW i \in disk, out \in i.links, NEW u \in Trees, NEW f \in Files, f # "tmp"
        PROVE  <<u, f>> \notin i.links
    BY <1>1, <2>2 DEF Tidy, Solo
  <2>3. "plugins" \in Files /\ "so" \in Files /\ Reads \subseteq Files /\ "tmp" \notin Reads
    BY DEF Files, Reads
  <2> HIDE DEF s, out
  <2>4. Tidy(disk') /\ Keeps(Base, disk, disk')
    BY <2>1, <2>2, <2>3, WrittenTidy
  <2> QED
    BY <1>2, <2>4 DEF Alone
<1>11. CASE RenameTmp(g)
  <2>1. Draft(g)
    BY <1>11 DEF RenameTmp, At, Writing
  <2> QED
    BY <1>1, <1>2, <1>11, <2>1, RenameTidy DEF Alone
<1>12. CASE CopyFileFails(g)
  BY <1>12, CloseFailedAlone
<1>13. CASE Wipe(g)
  BY <1>2, <1>13, RemoveTidy DEF Wipe, Alone
<1>14. CASE Own(g) \/ Chown(g)
  BY <1>2, <1>14, ChownTidy, SameAlone DEF Own, Chown, Alone
<1>15. CASE LinkOk(g)
  <2>1. disk' = Links(job[g].port, Linkable(job[g].port))
    BY <1>15 DEF LinkOk
  <2> QED
    BY <1>2, <2>1, LinkableTidy DEF Alone
<1>16. CASE LinkFail(g)
  <2>1. \E fs \in SUBSET Linkable(job[g].port) : disk' = Links(job[g].port, fs)
    BY <1>16 DEF LinkFail
  <2> QED
    BY <1>2, <2>1, LinkableTidy DEF Alone
<1>17. CASE Deep(g)
  <2>1. \E fs \in SUBSET Missing(job[g].port) : disk' = Copies(job[g].port, fs)
    BY <1>17 DEF Deep
  <2> QED
    BY <1>2, <2>1, CopiesTidy DEF Alone
<1> QED
  BY <1>3, <1>4, <1>5, <1>6, <1>7, <1>8, <1>9, <1>10, <1>11, <1>12, <1>13, <1>14, <1>15, <1>16,
     <1>17 DEF Command

\* sed -i and tar replace files; what is left is appended to where only one has the file.
LEMMA ScriptAlone ==
    ASSUME Sound(disk), Tidy(disk), Interrupt = FALSE, NEW t \in Trees, Entrypoint(t)
    PROVE  Alone
<1>0. /\ {"game", "plugins", "log", "so"} \subseteq Files
      /\ "log" \notin Reads /\ Reads \subseteq Files
  BY DEF Files, Reads
<1>1. CASE EntryCheck(t) \/ UnpackFail(t) \/ GameEnds(t)
  BY <1>1, SameAlone DEF EntryCheck, UnpackFail, GameEnds
<1>2. CASE Unpack(t)
  BY <1>0, <1>2, ReplaceTidy DEF Unpack, Alone
<1>3. CASE Patch(t)
  BY <1>0, <1>3, ReplaceTidy, SameAlone DEF Patch, Alone
<1>4. CASE Configure(t)
  <2> DEFINE i == Inode(t, "plugins")
             n == <<t, "plugins">>
  <2>1. CASE Has(t, "plugins") /\ i.s = "part" /\ Overwrite(t, "plugins", "ours")
    <3>1. i \in disk /\ n \in i.links
      BY <2>1, InodeIn
    <3>2. i.links = {n}
      BY <2>1, <3>1 DEF Tidy, Solo
    <3>3. \A j \in disk : n \in j.links => j = i
      BY <3>1 DEF Sound
    <3>4. ASSUME NEW j \in disk, n \in j.links
          PROVE  /\ \A u \in Trees \ {t}, f \in Reads : <<u, f>> \notin j.links
                 /\ \A u \in Trees : <<u, "so">> \notin j.links
      BY <3>2, <3>3, <3>4
    <3>5. disk' = Written(disk, n, "ours")
      BY <2>1 DEF Overwrite
    <3> HIDE DEF n
    <3>6. Tidy(disk') /\ Keeps(t, disk, disk')
      BY <3>4, <3>5, WrittenTidy
    <3> QED
      BY <3>6 DEF Alone
  <2>2. CASE Replace(t, "plugins", "ours", i.owner)
    BY <1>0, <2>2, ReplaceTidy DEF Alone
  <2> QED
    BY <1>4, <2>1, <2>2, SameAlone DEF Configure
<1>5. CASE TouchLog(t)
  <2>1. CASE Overwrite(t, "log", "ours")
    <3> DEFINE n == <<t, "log">>
    <3>1. ASSUME NEW j \in disk, n \in j.links, NEW u \in Trees, NEW f \in Reads
          PROVE  <<u, f>> \notin j.links
      BY <1>0, <3>1 DEF Tidy, Solo, Staged
    <3>2. "so" \in Reads
      BY DEF Reads, Files
    <3>3. disk' = Written(disk, n, "ours")
      BY <2>1 DEF Overwrite
    <3> HIDE DEF n
    <3>4. Tidy(disk') /\ Keeps(t, disk, disk')
      BY <3>1, <3>2, <3>3, WrittenTidy
    <3> QED
      BY <3>4 DEF Alone
  <2>2. CASE Replace(t, "log", "raw", "root")
    BY <1>0, <2>2, ReplaceTidy DEF Alone
  <2> QED
    BY <1>5, <2>1, <2>2, SameAlone DEF TouchLog
<1>6. CASE Killed(t)
  <2>1. t # Base
    BY <1>6 DEF Killed
  <2>2. CASE Replace(t, "plugins", "part", Inode(t, "plugins").owner)
    BY <1>0, <2>1, <2>2, ReplaceTidy DEF Alone
  <2> QED
    BY <1>6, <2>2, SameAlone DEF Killed
<1> QED
  BY <1>1, <1>2, <1>3, <1>4, <1>5, <1>6 DEF Entrypoint

LEMMA RestartAlone ==
    ASSUME Sound(disk), Tidy(disk), JobsInv, AgentRestart
    PROVE  Alone
<1>1. PICK g \in Goroutines : \E d \in Interrupted(g) : disk' = Without(d, Opened)
  BY DEF AgentRestart
<1>2. PICK d \in Interrupted(g) : disk' = Without(d, Opened)
  BY <1>1
<1>3. job[g] \in Jobs
  BY DEF JobsInv
<1> DEFINE p == job[g].port
<1>4. p \in Trees /\ Base \in Trees
  BY <1>3 DEF Jobs, Trees
<1>5. Sound(d) /\ Tidy(d) /\ \E t \in Trees : Keeps(t, disk, d)
  <2>1. ASSUME NEW t \in Trees, NEW fs, d = Left(t, fs)
        PROVE  Sound(d) /\ Tidy(d) /\ \E u \in Trees : Keeps(u, disk, d)
    <3>1. Sound(d)
      BY <2>1, WithoutSound DEF Left
    <3> QED
      BY <2>1, <3>1, LeftTidy
  <2>2. CASE d = disk
    BY <1>4, <2>2, KeepsSame
  <2>3. CASE At(g, "wipe") /\ ~Foreign(p)
    <3>1. PICK fs : d = Left(p, fs)
      BY <2>3 DEF Interrupted, At
    <3> QED
      BY <1>4, <2>1, <3>1
  <2>4. CASE At(g, "wipebase") /\ ~Foreign(Base)
    <3>1. PICK fs : d = Left(Base, fs)
      BY <2>4 DEF Interrupted, At
    <3> QED
      BY <1>4, <2>1, <3>1
  <2>5. CASE At(g, "steam")
    <3>1. d = disk \/ d = Without(disk, {<<Base, "game">>})
      BY <2>5 DEF Interrupted, At
    <3>2. CASE d = Without(disk, {<<Base, "game">>})
      <4>1. Tidy(d) /\ Keeps(Base, disk, d)
        BY <3>2, WithoutTidy
      <4>2. Sound(d)
        BY <3>2, WithoutSound
      <4> QED
        BY <1>4, <4>1, <4>2
    <3> QED
      BY <2>2, <3>1, <3>2
  <2>6. CASE At(g, "link")
    <3>1. PICK fs \in SUBSET Linkable(p) : d = Links(p, fs)
      BY <2>6 DEF Interrupted, At
    <3>2. Sound(d)
      BY <1>4, <3>1, LinksPlain DEF Plain
    <3> QED
      BY <1>4, <3>1, <3>2, LinkableTidy
  <2>7. CASE At(g, "deep")
    <3>1. PICK fs \in SUBSET Missing(p) : d = Copies(p, fs)
      BY <2>7 DEF Interrupted, At
    <3>2. Sound(d)
      BY <1>4, <3>1, CopiesPlain DEF Plain
    <3> QED
      BY <1>4, <3>1, <3>2, CopiesTidy
  <2>8. CASE /\ ~(At(g, "wipe") /\ ~Foreign(p)) /\ ~(At(g, "wipebase") /\ ~Foreign(Base))
             /\ ~At(g, "steam") /\ ~At(g, "link") /\ ~At(g, "deep")
    <3>1. d \in {disk}
      BY <2>8 DEF Interrupted
    <3> QED
      BY <2>2, <3>1
  <2> QED
    BY <2>3, <2>4, <2>5, <2>6, <2>7, <2>8
<1>6. PICK t \in Trees : Keeps(t, disk, d)
  BY <1>5
<1>7. \A u \in Trees \ {t}, f \in Reads : <<u, f>> \notin Opened
  BY PairIn, NamesApart DEF Reads
<1>8. Tidy(disk') /\ Keeps(t, d, disk')
  BY <1>2, <1>5, <1>7, WithoutTidy
<1> QED
  BY <1>6, <1>8, KeepsBoth DEF Alone

-----------------------------------------------------------------------------
(* The refinement of Apart                                                 *)

\* The inode behind a name is the one that has it.
LEMMA TheInode ==
    ASSUME NEW d, Sound(d), NEW n, NEW i \in d, n \in i.links
    PROVE  (CHOOSE k \in d : n \in k.links) = i
<1> DEFINE c == CHOOSE k \in d : n \in k.links
<1>1. c \in d /\ n \in c.links
  OBVIOUS
<1> HIDE DEF c
<1>2. c.links \cap i.links # {}
  BY <1>1
<1> QED
  BY <1>1, <1>2 DEF Sound, c

LEMMA SeenKept ==
    ASSUME Sound(disk), Sound(disk'), NEW t, Keeps(t, disk, disk'), NEW u \in Trees \ {t}
    PROVE  Seen(Reads)'[u] = Seen(Reads)[u]
<1> DEFINE S(f) == IF Has(u, f) THEN Inode(u, f).s ELSE "none"
<1>1. ASSUME NEW f \in Reads PROVE S(f)' = S(f)
  <2>1. Has(u, f)' <=> Has(u, f)
    BY DEF Keeps, Has, Named
  <2>2. ASSUME Has(u, f) PROVE Inode(u, f)'.s = Inode(u, f).s
    <3>1. PICK k \in disk' : <<u, f>> \in k.links
      BY <2>1, <2>2 DEF Has
    <3>2. PICK i \in disk : <<u, f>> \in i.links /\ i.s = k.s
      BY <3>1 DEF Keeps
    <3>3. Inode(u, f)' = k
      BY <3>1, TheInode DEF Inode
    <3>4. Inode(u, f) = i
      BY <3>2, TheInode DEF Inode
    <3> QED
      BY <3>2, <3>3, <3>4
  <2> QED
    BY <2>1, <2>2
<1>2. Seen(Reads)[u] = [f \in Reads |-> S(f)]
  BY DEF Seen
<1>3. Seen(Reads)'[u] = [f \in Reads |-> S(f)']
  BY DEF Seen
<1> HIDE DEF S
<1> QED
  BY <1>1, <1>2, <1>3

LEMMA SeenTyped ==
    ASSUME Sound(disk)
    PROVE  Seen(Reads) \in [Trees -> [Reads -> States \cup {"none"}]]
  BY InodeTyped DEF Seen

LEMMA InitTidy == Init => Tidy(disk)
<1> SUFFICES ASSUME Init PROVE Tidy(disk)
  OBVIOUS
<1>1. PICK who \in Owners, held \in {{}, {"game"}, {"game", "so"}} :
         disk = {File({<<Base, f>>}, "raw", who) : f \in held}
  BY DEF Init
<1>2. ASSUME NEW f \in held PROVE Solo(File({<<Base, f>>}, "raw", who))
  <2>1. f # "out"
    OBVIOUS
  <2> QED
    BY <2>1 DEF Solo, File
<1> QED
  BY <1>1, <1>2 DEF Tidy

\* Whatever has been staged, copied and linked so far.
Prepared(g) == Inv /\ Quiet(g) /\ Tidy(disk) /\ Staging(g) /\ Writing(g)

LEMMA PreparedInit == ASSUME NEW g \in Goroutines PROVE Init => Prepared(g)
<1> SUFFICES ASSUME Init PROVE Prepared(g)
  OBVIOUS
<1>1. PICK who \in Owners, held \in {{}, {"game"}, {"game", "so"}} :
         disk = {File({<<Base, f>>}, "raw", who) : f \in held}
  BY DEF Init
<1>2. \A i \in disk : \E f \in held : i.links = {<<Base, f>>}
  BY <1>1 DEF File
<1>3. ~Orphan /\ ~Has(g, "in")
  BY <1>2 DEF Orphan, Has
<1>4. job[g] = Idle /\ Idle.pc = "idle" /\ Idle.then = "none"
  BY DEF Init, Idle
<1>5. Staging(g) /\ Writing(g)
  <2> HIDE DEF Idle
  <2> QED
    BY <1>3, <1>4 DEF Staging, Route, Shelf, Writing, Has
<1> QED
  BY <1>5, InvInit, QuietInit, InitTidy DEF Prepared

LEMMA NextAlone ==
    ASSUME NEW one, Goroutines = {one}, Interrupt = FALSE, Prepared(one), [Next]_vars
    PROVE  Alone
<1>1. JobsInv /\ Sound(disk) /\ Tidy(disk) /\ Staging(one) /\ Writing(one)
  BY DEF Prepared, Inv, TypeOK, JobsInv, Sound
<1>2. CASE Command(one)
  BY <1>1, <1>2, CommandAlone
<1>3. CASE \E t \in Trees : Entrypoint(t)
  BY <1>1, <1>3, ScriptAlone
<1>4. CASE AgentRestart
  BY <1>1, <1>4, RestartAlone
<1>5. CASE UNCHANGED vars
  BY <1>1, <1>5, SameAlone DEF vars
<1> QED
  BY <1>2, <1>3, <1>4, <1>5 DEF Next

LEMMA StagingNext ==
    ASSUME NEW one, Goroutines = {one}, Interrupt = FALSE, Prepared(one), [Next]_vars
    PROVE  Staging(one)'
<1>1. /\ one \in Goroutines /\ JobsInv /\ Sound(disk) /\ Tidy(disk) /\ FirstTry(job[one])
      /\ Staging(one) /\ Writing(one)
  BY DEF Prepared, Inv, TypeOK, JobsInv, Sound, Quiet
<1>2. CASE Command(one)
  BY <1>1, <1>2, CommandStaging
<1>3. ASSUME Still, job' = job PROVE Staging(one)'
  <2>1. PICK k : k = job[one]
    OBVIOUS
  <2>2. Route(k) /\ Shelf(k)
    BY <1>1, <2>1 DEF Staging, Shelf, Route
  <2>3. {Base, k.port, k.to} \subseteq Trees /\ Staged = {"so", "tmp"}
    BY <1>1, <2>1 DEF JobsInv, Jobs, Trees, Staged
  <2>4. Shelf(k)'
    BY <1>3, <2>2, <2>3 DEF Shelf, Orphan, Still
  <2> QED
    BY <1>3, <2>1, <2>2, <2>4, StagingIs
<1>4. CASE \E t \in Trees : Entrypoint(t)
  BY <1>1, <1>3, <1>4, ScriptAside
<1>5. CASE AgentRestart
  <2>1. job'[one] = Idle /\ ~Orphan'
    BY <1>1, <1>5 DEF AgentRestart
  <2> QED
    BY <2>1, StagingEnds
<1>6. CASE UNCHANGED vars
  BY <1>3, <1>6, SameStill DEF vars
<1> QED
  BY <1>2, <1>4, <1>5, <1>6 DEF Next

\* All steps but three lead to a place where no file is open for a copy.
LEMMA CommandCloses ==
    ASSUME JobsInv, NEW g \in Goroutines, Command(g), ~OpenSource(g), ~OpenTmp(g), ~WriteTmp(g)
    PROVE  job'[g].pc \notin {"create", "write", "rename"}
<1> DEFINE j == job[g]
           away == {"create", "write", "rename"}
           Away == job'[g].pc \notin away
<1>1. job \in [Goroutines -> Jobs] /\ j \in Jobs
  BY DEF JobsInv
<1>2. ASSUME NEW pc \in Pcs \ away, Goto(g, pc) \/ Fails(g, pc) PROVE Away
  BY <1>1, <1>2 DEF Goto, Fails, Jobs
<1>3. ASSUME Return(g) PROVE Away
  BY <1>1, <1>3 DEF Return, Idle
<1>4. ASSUME NEW ok, Synced(g, ok) PROVE Away
  <2>1. "ensure" \in Pcs \ away
    BY DEF Pcs
  <2>2. CASE j.op # "deploy"
    BY <1>1, <1>4, <2>2 DEF Synced, Jobs
  <2>3. CASE j.op = "deploy"
    BY <1>2, <1>3, <1>4, <2>1, <2>3 DEF Synced
  <2> QED
    BY <2>2, <2>3
<1>5. ASSUME NEW next \in {"setup", "down", "fill", "up", "none"}, Closed(g, next) PROVE Away
  BY <1>1, <1>5 DEF Closed, Jobs
<1>6. ASSUME NEW op, NEW pc \in {"down", "steam", "stop"}, NEW p, NEW ports,
             Begin(g, op, pc, p, ports)
      PROVE  Away
  BY <1>1, <1>6 DEF Begin, Jobs, Idle
<1>7. {"steam", "setup", "wait", "next", "wipe", "own", "link", "chown", "deep", "fill", "up"}
         \subseteq Pcs \ away
  BY DEF Pcs, SyncPcs
<1> SUFFICES Away
  OBVIOUS
<1> HIDE DEF Away
<1>8. CASE StartDeploy(g) \/ StartUpdate(g) \/ StartReinstall(g) \/ StartSetup(g)
  <2>1. CASE StartDeploy(g)
    BY <1>6, <2>1 DEF StartDeploy
  <2> QED
    BY <1>6, <1>8, <2>1 DEF StartUpdate, StartReinstall, StartSetup
<1>9. CASE Stop(g)
  <2>1. PICK up : job' = [job EXCEPT ![g].pc = IF j.op = "reinstall" THEN "wipebase" ELSE "steam",
                                    ![g].fault = @ \/ up # {}]
    BY <1>9 DEF Stop
  <2> QED
    BY <1>1, <2>1 DEF Jobs, Away
<1>10. CASE Down(g) \/ WipeBase(g) \/ SteamFail(g) \/ Setup(g) \/ SetupDone(g) \/ Own(g)
  BY <1>2, <1>3, <1>7, <1>10 DEF Down, WipeBase, SteamFail, Setup, SetupDone, Own
<1>11. CASE SteamOk(g) \/ Ensure(g)
  <2>1. CASE \E to, then : job' = [job EXCEPT ![g].pc = "open", ![g].to = to, ![g].then = then]
    BY <1>1, <2>1 DEF Jobs, Away
  <2> QED
    BY <1>2, <1>7, <1>11, <2>1 DEF SteamOk, Ensure
<1>12. CASE Fill(g)
  <2>1. CASE job' = [job EXCEPT ![g].pc = "open", ![g].to = j.port, ![g].then = "up"]
    BY <1>1, <2>1 DEF Jobs, Away
  <2> QED
    BY <1>2, <1>3, <1>7, <1>12, <2>1 DEF Fill
<1>13. CASE RenameTmp(g) \/ CopyFileFails(g)
  BY <1>1, <1>3, <1>5, <1>13 DEF RenameTmp, CopyFileFails, Jobs
<1>14. CASE SyncNext(g)
  <2>1. CASE \E p : job' = [job EXCEPT ![g].pc = "wipe", ![g].port = p, ![g].todo = @ \ {p},
                                      ![g].try = "link"]
    BY <1>1, <2>1 DEF Jobs, Away
  <2> QED
    BY <1>2, <1>7, <1>14, <2>1 DEF SyncNext
<1>15. CASE Wipe(g)
  BY <1>2, <1>4, <1>7, <1>15 DEF Wipe
<1>16. CASE LinkOk(g) \/ Deep(g)
  <2>1. \E ok : Synced(g, ok)
    BY <1>16 DEF LinkOk, Deep
  <2> QED
    BY <1>4, <2>1
<1>17. CASE LinkFail(g)
  BY <1>2, <1>7, <1>17 DEF LinkFail
<1>18. CASE Chown(g)
  <2>1. CASE job' = [job EXCEPT ![g].pc = "wipe", ![g].try = "relink"]
    BY <1>1, <2>1 DEF Jobs, Away
  <2> QED
    BY <1>2, <1>7, <1>18, <2>1 DEF Chown
<1>19. CASE Up(g)
  BY <1>3, <1>19 DEF Up
<1> QED
  BY <1>8, <1>9, <1>10, <1>11, <1>12, <1>13, <1>14, <1>15, <1>16, <1>17, <1>18, <1>19 DEF Command

LEMMA WritingNext ==
    ASSUME NEW one, Goroutines = {one}, Prepared(one), [Next]_vars
    PROVE  Writing(one)'
<1>1. /\ one \in Goroutines /\ JobsInv /\ Sound(disk) /\ Tidy(disk) /\ Opens(one)
      /\ Shelf(job[one]) /\ Writing(one) /\ job \in [Goroutines -> Jobs]
  BY DEF Prepared, Inv, TypeOK, JobsInv, Sound, Staging
<1>2. Opens(one)'
  <2>1. Inv'
    BY InvNext DEF Prepared
  <2> QED
    BY <1>1, <2>1 DEF Inv
<1>3. CASE Command(one)
  <2>1. CASE OpenSource(one)
    BY <1>1, <2>1, OpenSourceWriting
  <2>2. CASE OpenTmp(one)
    BY <1>1, <2>2, OpenTmpWriting
  <2>3. CASE WriteTmp(one)
    BY <1>1, <2>3, WriteTmpWriting
  <2>4. CASE ~OpenSource(one) /\ ~OpenTmp(one) /\ ~WriteTmp(one)
    <3>1. job'[one].pc \notin {"create", "write", "rename"}
      BY <1>1, <1>3, <2>4, CommandCloses
    <3> QED
      BY <1>2, <3>1, ClosedWriting
  <2> QED
    BY <2>1, <2>2, <2>3, <2>4
<1>4. CASE \E t \in Trees : Entrypoint(t)
  BY <1>1, <1>4, ScriptAside
<1>5. CASE AgentRestart
  <2>1. job'[one].pc = "idle"
    BY <1>1, <1>5 DEF AgentRestart, Idle
  <2> QED
    BY <1>2, <2>1, ClosedWriting
<1>6. CASE UNCHANGED vars
  BY <1>1, <1>6 DEF vars, Writing, Draft, At
<1> QED
  BY <1>3, <1>4, <1>5, <1>6 DEF Next

LEMMA PreparedNext ==
    ASSUME NEW one, Goroutines = {one}, Interrupt = FALSE
    PROVE  Prepared(one) /\ [Next]_vars => Prepared(one)'
<1> SUFFICES ASSUME Prepared(one), [Next]_vars PROVE Prepared(one)'
  OBVIOUS
<1>1. Inv' /\ Quiet(one)'
  BY InvNext, QuietNext DEF Prepared
<1>2. Tidy(disk')
  BY NextAlone DEF Alone
<1> QED
  BY <1>1, <1>2, StagingNext, WritingNext DEF Prepared

\* What a command works on at each step, with one command at a time, when the setup container
\* is not killed and no staging that fails or is cut short, and no wipe of the base that is,
\* leaves a temporary file of steamclient.so without the file itself: between commands the
\* base has one only beside the file, a copy has none that copyFile could meet, what is
\* renamed is the file that was written, and a deploy starts only what has steamclient.so.
THEOREM StagingInvariant ==
    ASSUME NEW one, Goroutines = {one}, Interrupt = FALSE
    PROVE  Spec => []Prepared(one)
<1>1. Init => Prepared(one)
  BY PreparedInit
<1>2. Prepared(one) /\ [Next]_vars => Prepared(one)'
  BY PreparedNext
<1> QED
  BY <1>1, <1>2, PTL DEF Spec

\* With one command at a time: steamclient.so is all there wherever it has its name, and no
\* deploy starts a server without it, for any number of instances and mishaps, whatever
\* other staging, wipe or copy failed or was cut short before.  The conditions are those
\* above (Orphan, Killed); with
\* Interrupt = TRUE, MCTreesInterrupted.cfg shows it violated.
THEOREM SteamclientStaysWhole ==
    ASSUME NEW one, Goroutines = {one}, Interrupt = FALSE
    PROVE  Spec => []SteamclientWhole
<1>1. ASSUME Prepared(one), NEW t \in Trees, Has(t, "so") PROVE Inode(t, "so").s = "raw"
  <2>1. Inode(t, "so") \in disk /\ <<t, "so">> \in Inode(t, "so").links
    BY <1>1, InodeIn
  <2> QED
    BY <1>1, <2>1 DEF Prepared, Tidy, Solo
<1>2. ASSUME Prepared(one), At(one, "up"), job[one].op = "deploy" PROVE Has(job[one].port, "so")
  BY <1>2 DEF Prepared, Staging, Shelf, At
<1>3. Prepared(one) => SteamclientWhole
  BY <1>1, <1>2 DEF SteamclientWhole
<1> QED
  BY <1>3, StagingInvariant, PTL

\* The copies made of hard links behave like copies that share nothing: with one command
\* at a time, for any number of instances and mishaps, whatever fails or leaves a temporary
\* file beside steamclient.so.  The setup container is not killed, and no staging or wipe of
\* the base leaves such a file alone.
THEOREM TreesStayApart ==
    ASSUME NEW one, Goroutines = {one}, Interrupt = FALSE
    PROVE  Spec => LikeDeepCopies
<1>1. Init => Prepared(one)
  BY PreparedInit
<1>2. Prepared(one) /\ [Next]_vars => Prepared(one)'
  BY PreparedNext
<1>3. Prepared(one) => Seen(Reads) \in [Trees -> [Reads -> States \cup {"none"}]]
  <2>1. Prepared(one) => Sound(disk)
    BY DEF Prepared, Inv, TypeOK, Sound
  <2> QED
    BY <2>1, SeenTyped
<1>4. Prepared(one) => Independent!Init
  BY <1>3 DEF Independent!Init, Independent!Disks, Reads
<1>5. Prepared(one) /\ [Next]_vars => [Independent!Next]_(Seen(Files \ {"tmp", "log"}))
  <2> SUFFICES ASSUME Prepared(one), [Next]_vars PROVE Independent!Next
    OBVIOUS
  <2>1. Prepared(one)' /\ Alone
    BY <1>2, NextAlone
  <2>2. Sound(disk) /\ Sound(disk')
    BY <2>1 DEF Prepared, Inv, TypeOK, Sound
  <2>3. PICK t \in Trees : Keeps(t, disk, disk')
    BY <2>1 DEF Alone
  <2>4. \A u \in Trees \ {t} : Seen(Reads)'[u] = Seen(Reads)[u]
    BY <2>2, <2>3, SeenKept
  <2>5. Seen(Reads)' \in [Trees -> [Reads -> States \cup {"none"}]]
    <3>1. (Prepared(one) => Seen(Reads) \in [Trees -> [Reads -> States \cup {"none"}]])'
      BY <1>3, PTL
    <3> QED
      BY <2>1, <3>1
  <2>6. Independent!Change(t)
    <3> DEFINE seen == Seen(Reads)
    <3>1. seen' \in Independent!Disks
      BY <2>5 DEF Independent!Disks, Reads
    <3>2. \A u \in Trees \ {t} : seen'[u] = seen[u]
      BY <2>4
    <3> QED
      BY <3>1, <3>2 DEF Independent!Change, Reads
  <2> QED
    BY <2>6 DEF Independent!Next
<1> QED
  BY <1>1, <1>2, <1>4, <1>5, PTL DEF Spec, LikeDeepCopies, Independent!Spec
=============================================================================
