---------------------------- MODULE ArtifactProofs ----------------------------
(* Proofs about ArtifactStore, for every set of managers and contents.      *)
EXTENDS ArtifactStore, WellFoundedInduction, TLAPS

-----------------------------------------------------------------------------
(* Maps of artifacts *)

OriginalsOf(map) ==
  \A i, j \in Kept(map) :
    map[i].version = 1 /\ map[j].version = 1 /\ map[i].content = map[j].content
      => i = j

ChainsOf(map) ==
  \A i \in Kept(map) :
    map[i].version > 1 =>
      /\ map[i].parent \in Kept(map) /\ map[i].parent < i
      /\ map[i].version = map[map[i].parent].version + 1

\* A map after n artifacts were made.
MapOK(map, n) ==
  /\ map \in [Ids -> Artifacts \cup {Absent}]
  /\ \A i \in Kept(map) : i <= n /\ map[i].version <= i
  /\ OriginalsOf(map)
  /\ ChainsOf(map)

\* What no update of an artifact changes.
SameKind(a, b) ==
  a.version = b.version /\ a.parent = b.parent /\ a.content = b.content

LEMMA AbsentIsNoArtifact == Absent \notin Artifacts
<1>1. Absent.status = "none"
  BY DEF Absent, New
<1>2. \A a \in Artifacts : a.status \in ArtifactStatuses
  BY DEF Artifacts
<1> QED
  BY <1>1, <1>2 DEF ArtifactStatuses

LEMMA KeptAreArtifacts ==
  ASSUME NEW map \in [Ids -> Artifacts \cup {Absent}], NEW i \in Kept(map)
  PROVE  i \in Ids /\ map[i] \in Artifacts
BY DEF Kept

LEMMA EmptyMapOK == \A n : MapOK(Nothing, n) /\ Kept(Nothing) = {}
<1>1. Nothing \in [Ids -> Artifacts \cup {Absent}] /\ Kept(Nothing) = {}
  BY DEF Nothing, Kept
<1> QED
  BY <1>1 DEF MapOK, OriginalsOf, ChainsOf

\* A map stays in order while other artifacts are made.
LEMMA MapOKGrows ==
  ASSUME NEW map, NEW n \in Nat, MapOK(map, n)
  PROVE  MapOK(map, n + 1)
BY DEF MapOK, Kept, Ids

\* Updating an artifact keeps a map in order.
LEMMA UpdateMapOK ==
  ASSUME NEW map, NEW n \in Nat, MapOK(map, n), NEW i \in Kept(map),
         NEW artifact \in Artifacts, SameKind(artifact, map[i])
  PROVE  /\ MapOK([map EXCEPT ![i] = artifact], n)
         /\ Kept([map EXCEPT ![i] = artifact]) = Kept(map)
<1> DEFINE new == [map EXCEPT ![i] = artifact]
<1>1. map \in [Ids -> Artifacts \cup {Absent}] /\ i \in Ids
  BY DEF MapOK, Kept
<1>2. new \in [Ids -> Artifacts \cup {Absent}]
  BY <1>1
<1>3. \A j \in Ids : new[j] = IF j = i THEN artifact ELSE map[j]
  BY <1>1
<1>4. Kept(new) = Kept(map)
  BY <1>3, AbsentIsNoArtifact DEF Kept
<1>5. \A j \in Kept(map) : j \in Ids /\ SameKind(new[j], map[j])
  BY <1>3 DEF Kept, SameKind
<1> HIDE DEF new
<1>6. OriginalsOf(new) /\ \A j \in Kept(new) : j <= n /\ new[j].version <= j
  BY <1>4, <1>5 DEF MapOK, OriginalsOf, SameKind
<1>7. ChainsOf(new)
  BY <1>4, <1>5 DEF MapOK, ChainsOf, SameKind
<1> QED
  BY <1>2, <1>4, <1>6, <1>7 DEF MapOK, new

\* Adding the next artifact keeps a map in order, if it is the first version of
\* a content that no original has or the next version of one that is kept.
LEMMA AddMapOK ==
  ASSUME NEW map, NEW n \in Nat, MapOK(map, n), n + 1 \in Ids,
         NEW artifact \in Artifacts,
         \/ /\ artifact.version = 1
            /\ \A j \in Kept(map) : map[j].content # artifact.content
         \/ /\ artifact.parent \in Kept(map)
            /\ artifact.version = map[artifact.parent].version + 1
  PROVE  /\ MapOK([map EXCEPT ![n + 1] = artifact], n + 1)
         /\ Kept([map EXCEPT ![n + 1] = artifact]) = Kept(map) \cup {n + 1}
<1> DEFINE i == n + 1
           new == [map EXCEPT ![i] = artifact]
<1>1. /\ map \in [Ids -> Artifacts \cup {Absent}] /\ i \in Ids /\ i \in Nat
      /\ \A j \in Kept(map) : j \in Ids /\ j \in Nat /\ j < i /\ map[j] \in Artifacts
      /\ \A a \in Artifacts : a.version \in Nat \ {0}
  BY DEF MapOK, Kept, Ids, Artifacts
<1>2. new \in [Ids -> Artifacts \cup {Absent}]
  BY <1>1
<1>3. \A j \in Ids : new[j] = IF j = i THEN artifact ELSE map[j]
  BY <1>1
<1>4. Kept(new) = Kept(map) \cup {i}
  BY <1>1, <1>3, AbsentIsNoArtifact DEF Kept
<1>5. /\ \A j \in Kept(map) : new[j] = map[j] /\ j # i
      /\ new[i] = artifact
  BY <1>1, <1>3
<1> HIDE DEF new, i
<1>6. \A j \in Kept(map) : j <= n /\ map[j].version <= j
  BY DEF MapOK
<1>7. \A j \in Kept(new) : j <= i /\ new[j].version <= j
  <2>1. new[i].version <= i
    <3>1. CASE artifact.version = 1
      BY <3>1, <1>1, <1>5 DEF i
    <3>2. CASE artifact.parent \in Kept(map) /\ artifact.version = map[artifact.parent].version + 1
      BY <3>2, <1>1, <1>5, <1>6 DEF i
    <3> QED
      BY <3>1, <3>2
  <2> QED
    BY <2>1, <1>1, <1>4, <1>5, <1>6 DEF i
<1>8. OriginalsOf(new)
  <2> SUFFICES ASSUME NEW j \in Kept(new), NEW k \in Kept(new),
                      new[j].version = 1, new[k].version = 1,
                      new[j].content = new[k].content
               PROVE  j = k
    BY DEF OriginalsOf
  <2>1. CASE artifact.version = 1 /\ \A l \in Kept(map) : map[l].content # artifact.content
    BY <2>1, <1>4, <1>5 DEF MapOK, OriginalsOf
  <2>2. CASE artifact.parent \in Kept(map) /\ artifact.version = map[artifact.parent].version + 1
    <3>1. new[i].version # 1
      BY <2>2, <1>1, <1>5
    <3> QED
      BY <3>1, <1>4, <1>5 DEF MapOK, OriginalsOf
  <2> QED
    BY <2>1, <2>2
<1>9. ChainsOf(new)
  <2> SUFFICES ASSUME NEW j \in Kept(new), new[j].version > 1
               PROVE  /\ new[j].parent \in Kept(new) /\ new[j].parent < j
                      /\ new[j].version = new[new[j].parent].version + 1
    BY DEF ChainsOf
  <2>1. CASE j \in Kept(map)
    BY <2>1, <1>4, <1>5 DEF MapOK, ChainsOf
  <2>2. CASE j = i
    <3>1. artifact.parent \in Kept(map) /\ artifact.version = map[artifact.parent].version + 1
      BY <2>2, <1>5
    <3>2. /\ artifact.parent \in Kept(new) /\ artifact.parent < i
          /\ new[artifact.parent] = map[artifact.parent]
      BY <3>1, <1>1, <1>4, <1>5
    <3> QED
      BY <2>2, <3>1, <3>2, <1>5
  <2> QED
    BY <2>1, <2>2, <1>4
<1> QED
  BY <1>2, <1>4, <1>7, <1>8, <1>9 DEF MapOK, new, i
-----------------------------------------------------------------------------
(* The invariant *)

\* create() finds every content that a map has.
Found == \A m \in Managers : \A i \in Kept(store[m]) : holder[m][store[m][i].content] # 0

\* A manager that is alone has all that is on the disk, at least as far along.
Ahead(map) ==
  \A i \in Kept(disk) :
    /\ i \in Kept(map)
    /\ map[i].content = disk[i].content
    /\ Rank[map[i].status] >= Rank[disk[i].status]

AloneIsAhead == \A m \in Managers : open = {m} => Ahead(store[m])

MapsOK == MapOK(disk, made) /\ \A m \in Managers : MapOK(store[m], made)

\* What is on the disk went through serialize().
DiskDecoded == \A i \in Kept(disk) : disk[i].decoded = (disk[i].content \in Binary)

ArtifactInv ==
  ArtifactTypeOK /\ MapsOK /\ Found /\ AloneIsAhead /\ DiskDecoded

LEMMA RankType == \A s \in ArtifactStatuses : Rank[s] \in Nat
BY DEF Rank, ArtifactStatuses

\* The lifecycle has no way back.
LEMMA TransitionsAdvance ==
  ASSUME NEW from \in ArtifactStatuses, NEW to \in LegalTransitions[from]
  PROVE  to \in ArtifactStatuses /\ Rank[to] >= Rank[from]
BY DEF ArtifactStatuses, LegalTransitions, Rank

LEMMA ArtifactInitInv == ArtifactInit => ArtifactInv
<1> SUFFICES ASSUME ArtifactInit PROVE ArtifactInv
  OBVIOUS
<1>1. Nothing \in [Ids -> Artifacts \cup {Absent}] /\ Kept(Nothing) = {}
  BY DEF Nothing, Kept
<1>2. ArtifactTypeOK
  BY <1>1, ArtifactAssumption DEF ArtifactInit, ArtifactTypeOK, NoHolder
<1>3. MapsOK
  BY EmptyMapOK DEF ArtifactInit, MapsOK
<1>4. Found /\ AloneIsAhead /\ DiskDecoded
  BY <1>1 DEF ArtifactInit, Found, AloneIsAhead, Ahead, DiskDecoded
<1> QED
  BY <1>2, <1>3, <1>4 DEF ArtifactInv

-----------------------------------------------------------------------------
(* Every step keeps it *)

\* A bounded set of numbers has a greatest.
LEMMA MaxOfBounded ==
  ASSUME NEW N \in Nat, NEW S \in SUBSET (0..N), S # {}
  PROVE  Max(S) \in S /\ \A y \in S : y <= Max(S)
<1> DEFINE T == {N - x : x \in S}
<1>1. T \in SUBSET Nat /\ T # {}
  <2>1. \A x \in S : N - x \in Nat
    OBVIOUS
  <2>2. PICK x \in S : TRUE
    OBVIOUS
  <2>3. N - x \in T
    BY <2>2
  <2> QED
    BY <2>1, <2>3
<1> DEFINE Less == {ss \in Nat \X Nat : ss[1] < ss[2]}
<1>a. IsWellFoundedOn(Less, Nat)
  BY NatLessThanWellFounded DEF OpToRel
<1> HIDE DEF T, Less
<1>b. \E z \in T : \A y \in T : ~(<<y, z>> \in Less)
  BY <1>1, <1>a, WFMin
<1>2. PICK z \in T : \A y \in T : ~(<<y, z>> \in Less)
  BY <1>b
<1> USE DEF T
<1>3. PICK x \in S : z = N - x
  OBVIOUS
<1>4. \A y \in S : ~(N - y < N - x)
  BY <1>1, <1>2, <1>3 DEF Less
<1>5. \A y \in S : x >= y
  BY <1>4
<1> QED
  BY <1>5 DEF Max

\* The rebuilt content index finds every content of the map.
LEMMA HoldersFind ==
  ASSUME NEW map \in [Ids -> Artifacts \cup {Absent}]
  PROVE  /\ HoldersOf(map) \in [Contents -> 0..MaxArtifacts]
         /\ \A i \in Kept(map) : HoldersOf(map)[map[i].content] # 0
<1> DEFINE S(c) == {0} \cup {i \in Kept(map) : map[i].content = c}
<1>1. \A c \in Contents : S(c) \in SUBSET (0..MaxArtifacts) /\ S(c) # {}
  BY ArtifactAssumption DEF Kept, Ids
<1>2. \A c \in Contents : Max(S(c)) \in 0..MaxArtifacts /\ \A y \in S(c) : y <= Max(S(c))
  BY <1>1, MaxOfBounded, ArtifactAssumption
<1>3. HoldersOf(map) = [c \in Contents |-> Max(S(c))]
  BY DEF HoldersOf
<1>4. ASSUME NEW i \in Kept(map)
      PROVE  HoldersOf(map)[map[i].content] # 0
  <2>1. i \in Ids /\ map[i].content \in Contents
    BY KeptAreArtifacts DEF Artifacts
  <2>2. i \in S(map[i].content)
    OBVIOUS
  <2>3. i <= Max(S(map[i].content)) /\ Max(S(map[i].content)) \in Nat
    BY <1>2, <2>1, <2>2
  <2> QED
    BY <1>3, <2>1, <2>3 DEF Ids
<1> QED
  BY <1>2, <1>3, <1>4

LEMMA ConstructInv ==
  ASSUME ArtifactInv, NEW m \in Managers, Construct(m)
  PROVE  ArtifactInv'
<1>1. /\ store' = [store EXCEPT ![m] = disk] /\ holder' = [holder EXCEPT ![m] = HoldersOf(disk)]
      /\ disk \in [Ids -> Artifacts \cup {Absent}]
      /\ store \in [Managers -> [Ids -> Artifacts \cup {Absent}]]
      /\ holder \in [Managers -> [Contents -> 0..MaxArtifacts]]
      /\ m \notin open /\ open' = open \cup {m}
      /\ UNCHANGED <<saving, disk, made, updates>>
  BY DEF Construct, ArtifactInv, ArtifactTypeOK
<1>2. ArtifactTypeOK'
  <2>1. holder' \in [Managers -> [Contents -> 0..MaxArtifacts]]
    BY <1>1, HoldersFind
  <2>2. store' \in [Managers -> [Ids -> Artifacts \cup {Absent}]]
    BY <1>1
  <2> QED
    BY <1>1, <2>1, <2>2 DEF ArtifactInv, ArtifactTypeOK
<1>3. MapsOK'
  <2>1. \A w \in Managers : store'[w] = IF w = m THEN disk ELSE store[w]
    BY <1>1
  <2> QED
    BY <1>1, <2>1 DEF ArtifactInv, MapsOK
<1>4. Found'
  <2> SUFFICES ASSUME NEW w \in Managers, NEW i \in Kept(store'[w])
               PROVE  holder'[w][store'[w][i].content] # 0
    BY DEF Found
  <2>1. CASE w = m
    BY <1>1, <2>1, HoldersFind
  <2>2. CASE w # m
    BY <1>1, <2>2 DEF ArtifactInv, Found
  <2> QED
    BY <2>1, <2>2
<1>5. DiskDecoded'
  BY <1>1 DEF ArtifactInv, DiskDecoded
<1>7. AloneIsAhead'
  <2> SUFFICES ASSUME NEW w \in Managers, open' = {w} PROVE Ahead(store[w])'
    BY <1>1 DEF AloneIsAhead
  <2>1. w = m /\ store'[w] = disk /\ disk' = disk
    BY <1>1
  <2>2. \A i \in Kept(disk) : disk[i] \in Artifacts
    BY <1>1 DEF Kept
  <2>3. \A i \in Kept(disk) : Rank[disk[i].status] >= Rank[disk[i].status]
    BY <2>2, RankType DEF Artifacts
  <2> QED
    BY <2>1, <2>3 DEF Ahead
<1> QED
  BY <1>2, <1>3, <1>4, <1>5, <1>7 DEF ArtifactInv

\* What a step of one manager leaves to show, when it neither opens, closes nor
\* saves: the others keep their maps.
LEMMA OneManagerInv ==
  ASSUME ArtifactInv, NEW m \in open, open' = open, disk' = disk,
         saving' \in SUBSET open, made' \in 0..MaxArtifacts, updates' \in 0..MaxUpdates,
         NEW map \in [Ids -> Artifacts \cup {Absent}],
         store' = [store EXCEPT ![m] = map],
         holder' \in [Managers -> [Contents -> 0..MaxArtifacts]],
         \A w \in Managers \ {m} : holder'[w] = holder[w],
         \A i \in Kept(map) : holder'[m][map[i].content] # 0,
         made' = made \/ made' = made + 1,
         MapOK(map, made'),
         Ahead(store[m]) => Ahead(map)
  PROVE  ArtifactInv'
<1>1. /\ m \in Managers /\ made \in Nat
      /\ store \in [Managers -> [Ids -> Artifacts \cup {Absent}]]
  BY DEF ArtifactInv, ArtifactTypeOK
<1>2. ArtifactTypeOK'
  BY <1>1 DEF ArtifactInv, ArtifactTypeOK
<1>3. \A w \in Managers : store'[w] = IF w = m THEN map ELSE store[w]
  BY <1>1
<1>4. MapsOK'
  BY <1>1, <1>3, MapOKGrows DEF ArtifactInv, MapsOK
<1>5. Found'
  <2> SUFFICES ASSUME NEW w \in Managers, NEW i \in Kept(store'[w])
               PROVE  holder'[w][store'[w][i].content] # 0
    BY DEF Found
  <2>1. CASE w = m
    BY <1>3, <2>1
  <2>2. CASE w # m
    <3>1. store'[w] = store[w] /\ holder'[w] = holder[w]
      BY <1>3, <2>2
    <3>2. i \in Kept(store[w])
      BY <3>1
    <3> QED
      BY <3>1, <3>2 DEF ArtifactInv, Found
  <2> QED
    BY <2>1, <2>2
<1>6. DiskDecoded'
  BY DEF ArtifactInv, DiskDecoded
<1>7. AloneIsAhead'
  <2> SUFFICES ASSUME NEW w \in Managers, open = {w} PROVE Ahead(store[w])'
    BY DEF AloneIsAhead
  <2>1. w = m
    OBVIOUS
  <2>2. Ahead(map)
    BY <2>1 DEF ArtifactInv, AloneIsAhead
  <2>3. store'[w] = map
    BY <1>3, <2>1
  <2> QED
    BY <2>2, <2>3 DEF Ahead
<1> QED
  BY <1>2, <1>4, <1>5, <1>6, <1>7 DEF ArtifactInv

\* What SetArtifact() does to the two maps of a manager.
LEMMA SetArtifactEffect ==
  ASSUME ArtifactInv, NEW m \in open, NEW i \in Ids, NEW artifact \in Artifacts,
         SetArtifact(m, i, artifact)
  PROVE  LET map == [store[m] EXCEPT ![i] = artifact] IN
         /\ store' = [store EXCEPT ![m] = map]
         /\ store' \in [Managers -> [Ids -> Artifacts \cup {Absent}]]
         /\ map \in [Ids -> Artifacts \cup {Absent}]
         /\ holder' \in [Managers -> [Contents -> 0..MaxArtifacts]]
         /\ \A w \in Managers \ {m} : holder'[w] = holder[w]
         /\ \A j \in Kept(map) : holder'[m][map[j].content] # 0
         /\ saving' \in SUBSET open
<1> DEFINE map == [store[m] EXCEPT ![i] = artifact]
<1>1. /\ m \in Managers /\ saving \in SUBSET open
      /\ store \in [Managers -> [Ids -> Artifacts \cup {Absent}]]
      /\ holder \in [Managers -> [Contents -> 0..MaxArtifacts]]
      /\ artifact.content \in Contents
      /\ i \in 0..MaxArtifacts /\ i # 0
  BY DEF ArtifactInv, ArtifactTypeOK, Artifacts, Ids
<1>2. /\ store' = [store EXCEPT ![m] = map]
      /\ map \in [Ids -> Artifacts \cup {Absent}]
      /\ store' \in [Managers -> [Ids -> Artifacts \cup {Absent}]]
      /\ saving' \in SUBSET open
  BY <1>1 DEF SetArtifact
<1>3. holder' = [holder EXCEPT ![m][artifact.content] = i]
  BY DEF SetArtifact
<1>4. /\ holder' \in [Managers -> [Contents -> 0..MaxArtifacts]]
      /\ \A w \in Managers \ {m} : holder'[w] = holder[w]
      /\ holder'[m] = [holder[m] EXCEPT ![artifact.content] = i]
  BY <1>1, <1>3
<1>5. \A j \in Kept(map) : holder'[m][map[j].content] # 0
  <2> SUFFICES ASSUME NEW j \in Kept(map) PROVE holder'[m][map[j].content] # 0
    OBVIOUS
  <2>1. j \in Ids /\ map[j] \in Artifacts
    BY <1>2 DEF Kept
  <2>2. holder[m] \in [Contents -> 0..MaxArtifacts] /\ map[j].content \in Contents
    BY <1>1, <2>1 DEF Artifacts
  <2>3. CASE map[j].content = artifact.content
    BY <2>2, <2>3, <1>1, <1>4
  <2>4. CASE map[j].content # artifact.content
    <3>1. map[j] = store[m][j] /\ j \in Kept(store[m])
      BY <1>1, <2>1, <2>4 DEF Kept
    <3>2. holder'[m][map[j].content] = holder[m][map[j].content]
      BY <2>2, <2>4, <1>4
    <3> QED
      BY <1>1, <3>1, <3>2 DEF ArtifactInv, Found
  <2> QED
    BY <2>3, <2>4
<1> QED
  BY <1>2, <1>4, <1>5

\* Making the next artifact, by create() or createVersion().
LEMMA MakeInv ==
  ASSUME ArtifactInv, NEW m \in open, NEW artifact \in Artifacts,
         NEW i \in Ids, i = made + 1, made' = i,
         SetArtifact(m, i, artifact),
         UNCHANGED <<open, disk, updates>>,
         \/ /\ artifact.version = 1
            /\ holder[m][artifact.content] = 0
         \/ /\ artifact.parent \in Kept(store[m])
            /\ artifact.version = store[m][artifact.parent].version + 1
  PROVE  ArtifactInv'
<1>0. PICK map : map = [store[m] EXCEPT ![i] = artifact]
  OBVIOUS
<1>1. /\ m \in Managers /\ made \in Nat /\ i \in Ids
      /\ made' \in 0..MaxArtifacts /\ updates' \in 0..MaxUpdates
      /\ store \in [Managers -> [Ids -> Artifacts \cup {Absent}]]
      /\ MapOK(store[m], made)
  BY ArtifactAssumption DEF ArtifactInv, ArtifactTypeOK, MapsOK, Ids
<1>2. /\ store' = [store EXCEPT ![m] = map]
      /\ store' \in [Managers -> [Ids -> Artifacts \cup {Absent}]]
      /\ map \in [Ids -> Artifacts \cup {Absent}]
      /\ holder' \in [Managers -> [Contents -> 0..MaxArtifacts]]
      /\ \A w \in Managers \ {m} : holder'[w] = holder[w]
      /\ \A j \in Kept(map) : holder'[m][map[j].content] # 0
      /\ saving' \in SUBSET open
  <2> DEFINE new == [store[m] EXCEPT ![i] = artifact]
  <2>1. /\ store' = [store EXCEPT ![m] = new]
        /\ store' \in [Managers -> [Ids -> Artifacts \cup {Absent}]]
        /\ new \in [Ids -> Artifacts \cup {Absent}]
        /\ holder' \in [Managers -> [Contents -> 0..MaxArtifacts]]
        /\ \A w \in Managers \ {m} : holder'[w] = holder[w]
        /\ \A j \in Kept(new) : holder'[m][new[j].content] # 0
        /\ saving' \in SUBSET open
    BY <1>1, SetArtifactEffect
  <2> QED
    BY <1>0, <2>1
<1>3. MapOK(map, made') /\ Kept(map) = Kept(store[m]) \cup {i}
  <2>1. holder[m][artifact.content] = 0 =>
          \A j \in Kept(store[m]) : store[m][j].content # artifact.content
    BY <1>1 DEF ArtifactInv, Found
  <2> QED
    BY <1>0, <1>1, <2>1, AddMapOK
<1>6. Ahead(store[m]) => Ahead(map)
  <2>1. \A j \in Kept(store[m]) : j \in Kept(map) /\ map[j] = store[m][j]
    <3>1. \A j \in Kept(store[m]) : j \in Ids /\ j <= made
      BY <1>1 DEF MapOK, Kept
    <3>2. store[m] \in [Ids -> Artifacts \cup {Absent}]
      BY <1>1
    <3>3. \A j \in Kept(store[m]) : j # i
      BY <3>1, <1>1 DEF Ids
    <3> QED
      BY <3>1, <3>2, <3>3, <1>0, <1>3
  <2> QED
    BY <2>1 DEF Ahead
<1> QED
  BY <1>1, <1>2, <1>3, <1>6, OneManagerInv

LEMMA CreateInv ==
  ASSUME ArtifactInv, NEW m \in Managers, NEW content \in Contents,
         NEW parent \in 0..made, Create(m, content, parent)
  PROVE  ArtifactInv'
<1> DEFINE artifact == New("created", 1, parent, content)
<1>1. made \in 0..MaxArtifacts /\ made < MaxArtifacts /\ m \in open
  BY DEF Create, ArtifactInv, ArtifactTypeOK
<1>2. /\ artifact.version = 1 /\ artifact.status = "created"
      /\ artifact.content = content /\ artifact \in Artifacts
  <2>1. artifact = [status |-> "created", version |-> 1, parent |-> parent,
                    content |-> content, decoded |-> FALSE,
                    verification |-> "unverified", merge |-> "unmerged"]
    BY DEF New
  <2>2. 1 \in 1..MaxArtifacts /\ parent \in 0..MaxArtifacts /\ "created" \in ArtifactStatuses
    BY <1>1, ArtifactAssumption DEF ArtifactStatuses
  <2> HIDE DEF artifact
  <2> QED
    BY <2>1, <2>2 DEF Artifacts
<1>3. /\ made' = made + 1 /\ SetArtifact(m, made + 1, artifact)
      /\ UNCHANGED <<open, disk, updates>>
      /\ holder[m][content] = 0
  BY DEF Create
<1>4. made + 1 \in Ids
  BY <1>1, ArtifactAssumption DEF Ids
<1> HIDE DEF artifact
<1> QED
  BY <1>1, <1>2, <1>3, <1>4, MakeInv

LEMMA CreateVersionInv ==
  ASSUME ArtifactInv, NEW m \in Managers, NEW content \in Contents,
         NEW parent \in Ids, CreateVersion(m, parent, content)
  PROVE  ArtifactInv'
<1> DEFINE artifact == New("draft", store[m][parent].version + 1, parent, content)
<1>1. made \in 0..MaxArtifacts /\ made < MaxArtifacts /\ m \in open
  BY DEF CreateVersion, ArtifactInv, ArtifactTypeOK
<1>2. parent \in Kept(store[m]) /\ store[m][parent] \in Artifacts
      /\ store[m][parent].version \in Nat \ {0}
      /\ store[m][parent].version <= parent /\ parent <= made
  <2>1. parent \in Kept(store[m])
    BY DEF CreateVersion
  <2>2. MapOK(store[m], made)
    BY DEF ArtifactInv, MapsOK
  <2>3. store[m][parent] \in Artifacts
    BY <2>1, <2>2 DEF MapOK, Kept
  <2> QED
    BY <2>1, <2>2, <2>3, ArtifactAssumption DEF MapOK, Artifacts
<1>3. /\ artifact.version = store[m][parent].version + 1 /\ artifact.status = "draft"
      /\ artifact.content = content /\ artifact.parent = parent
      /\ artifact \in Artifacts
  <2>1. store[m][parent].version + 1 \in 1..MaxArtifacts /\ parent \in 0..MaxArtifacts
    BY <1>1, <1>2, ArtifactAssumption DEF Ids
  <2>2. artifact = [status |-> "draft", version |-> store[m][parent].version + 1,
                    parent |-> parent, content |-> content, decoded |-> FALSE,
                    verification |-> "unverified", merge |-> "unmerged"]
    BY DEF New
  <2>3. "draft" \in ArtifactStatuses
    BY DEF ArtifactStatuses
  <2> DEFINE v == store[m][parent].version + 1
  <2> HIDE DEF artifact, v
  <2>4. /\ artifact.version = v /\ artifact.status = "draft"
        /\ artifact.content = content /\ artifact.parent = parent
    BY <2>2 DEF v
  <2>5. artifact \in Artifacts
    BY <2>1, <2>2, <2>3 DEF Artifacts, v
  <2> QED
    BY <2>4, <2>5 DEF v
<1>4. /\ made' = made + 1 /\ SetArtifact(m, made + 1, artifact)
      /\ UNCHANGED <<open, disk, updates>>
  BY DEF CreateVersion
<1>5. made + 1 \in Ids
  BY <1>1, ArtifactAssumption DEF Ids
<1> HIDE DEF artifact
<1> QED
  BY <1>1, <1>2, <1>3, <1>4, <1>5, MakeInv

\* Setting an artifact again, with the version, parent and content it had and a
\* status at least as far along.
LEMMA UpdateInv ==
  ASSUME ArtifactInv, NEW m \in Managers, NEW i \in Ids, Updating(m, i),
         NEW artifact \in Artifacts, SameKind(artifact, store[m][i]),
         Rank[artifact.status] >= Rank[store[m][i].status],
         SetUnlessEmpty(m, i, artifact)
  PROVE  ArtifactInv'
<1> DEFINE map == IF artifact.content = EmptyContent THEN store[m]
                  ELSE [store[m] EXCEPT ![i] = artifact]
<1>1. /\ m \in open /\ i \in Kept(store[m]) /\ open' = open /\ disk' = disk /\ made' = made
      /\ made' \in 0..MaxArtifacts /\ updates' \in 0..MaxUpdates /\ made \in Nat
      /\ store \in [Managers -> [Ids -> Artifacts \cup {Absent}]]
      /\ holder \in [Managers -> [Contents -> 0..MaxArtifacts]]
      /\ saving \in SUBSET open
      /\ MapOK(store[m], made)
      /\ store[m][i] \in Artifacts
      /\ store[m][i].content = artifact.content
  <2>1. /\ m \in open /\ i \in Kept(store[m]) /\ open' = open /\ disk' = disk /\ made' = made
        /\ updates < MaxUpdates /\ updates' = updates + 1
    BY DEF Updating
  <2>2. /\ made \in 0..MaxArtifacts /\ updates \in 0..MaxUpdates
        /\ store \in [Managers -> [Ids -> Artifacts \cup {Absent}]]
          /\ holder \in [Managers -> [Contents -> 0..MaxArtifacts]]
        /\ saving \in SUBSET open
        /\ MapOK(store[m], made)
    BY DEF ArtifactInv, ArtifactTypeOK, MapsOK
  <2>3. store[m][i] \in Artifacts
    BY <2>1, <2>2 DEF Kept
  <2> QED
    BY <2>1, <2>2, <2>3, ArtifactAssumption DEF SameKind
<1>2. /\ store' = [store EXCEPT ![m] = map]
      /\ store' \in [Managers -> [Ids -> Artifacts \cup {Absent}]]
      /\ map \in [Ids -> Artifacts \cup {Absent}]
      /\ holder' \in [Managers -> [Contents -> 0..MaxArtifacts]]
      /\ \A w \in Managers \ {m} : holder'[w] = holder[w]
      /\ \A j \in Kept(map) : holder'[m][map[j].content] # 0
      /\ saving' \in SUBSET open
  <2>1. CASE artifact.content = EmptyContent
    <3>1. UNCHANGED <<store, holder, saving>> /\ map = store[m]
      BY <2>1 DEF SetUnlessEmpty
    <3>2. store' = [store EXCEPT ![m] = store[m]]
      BY <3>1, <1>1
    <3> HIDE DEF map
    <3>3. \A j \in Kept(store[m]) : holder[m][store[m][j].content] # 0
      BY DEF ArtifactInv, Found
    <3>4. store[m] \in [Ids -> Artifacts \cup {Absent}]
      BY <1>1
    <3> QED
      BY <3>1, <3>2, <3>3, <3>4, <1>1
  <2>2. CASE artifact.content # EmptyContent
    <3>1. SetArtifact(m, i, artifact) /\ map = [store[m] EXCEPT ![i] = artifact]
      BY <2>2 DEF SetUnlessEmpty
    <3> DEFINE new == [store[m] EXCEPT ![i] = artifact]
    <3>2. /\ store' = [store EXCEPT ![m] = new]
          /\ store' \in [Managers -> [Ids -> Artifacts \cup {Absent}]]
          /\ new \in [Ids -> Artifacts \cup {Absent}]
          /\ holder' \in [Managers -> [Contents -> 0..MaxArtifacts]]
          /\ \A w \in Managers \ {m} : holder'[w] = holder[w]
          /\ \A j \in Kept(new) : holder'[m][new[j].content] # 0
          /\ saving' \in SUBSET open
      <4> HIDE DEF map
      <4> QED
        BY <3>1, <1>1, SetArtifactEffect
    <3>3. map = new
      BY <3>1
    <3> HIDE DEF map, new
    <3> QED
      BY <3>2, <3>3
  <2> QED
    BY <2>1, <2>2
<1>3. MapOK(map, made') /\ Kept(map) = Kept(store[m])
  BY <1>1, UpdateMapOK
<1>4. /\ \A j \in Ids : j # i => map[j] = store[m][j]
      /\ artifact.content # EmptyContent => map[i] = artifact
      /\ artifact.content = EmptyContent => map[i].content = EmptyContent
      /\ store' = IF artifact.content = EmptyContent THEN store
                  ELSE [store EXCEPT ![m][i] = artifact]
  BY <1>1 DEF SetUnlessEmpty, SetArtifact
<1>5. map[i].content = artifact.content /\ map[i].status \in {artifact.status, store[m][i].status}
  BY <1>1, <1>4
<1> HIDE DEF map
<1>6. \A w \in Managers : store'[w] = IF w = m THEN map ELSE store[w]
  BY <1>1, <1>2
<1>8. Ahead(store[m]) => Ahead(map)
  <2>1. \A j \in Kept(disk) : j \in Ids /\ disk[j] \in Artifacts
    BY DEF Kept, ArtifactInv, ArtifactTypeOK
  <2>2. \A j \in Ids : j # i => map[j] = store[m][j]
    BY <1>4
  <2>3. /\ Rank[artifact.status] \in Nat /\ Rank[store[m][i].status] \in Nat
        /\ \A j \in Kept(disk) : Rank[disk[j].status] \in Nat
    BY <1>1, <2>1, RankType DEF Artifacts
  <2> SUFFICES ASSUME Ahead(store[m]), NEW j \in Kept(disk)
               PROVE  /\ j \in Kept(map) /\ map[j].content = disk[j].content
                      /\ Rank[map[j].status] >= Rank[disk[j].status]
    BY DEF Ahead
  <2>4. CASE j = i
    BY <1>1, <1>3, <1>5, <2>3, <2>4 DEF Ahead
  <2>5. CASE j # i
    BY <1>3, <2>1, <2>2, <2>5 DEF Ahead
  <2> QED
    BY <2>4, <2>5
<1> QED
  BY <1>1, <1>2, <1>3, <1>4, <1>8, OneManagerInv

LEMMA TransitionInv ==
  ASSUME ArtifactInv, NEW m \in Managers, NEW i \in Ids, NEW to \in ArtifactStatuses,
         TransitionArtifact(m, i, to)
  PROVE  ArtifactInv'
<1>1. PICK artifact : artifact = [store[m][i] EXCEPT !.status = to]
  OBVIOUS
<1>2. store[m][i] \in Artifacts
  BY DEF TransitionArtifact, Updating, ArtifactInv, ArtifactTypeOK, Kept
<1>3. /\ artifact \in Artifacts /\ SameKind(artifact, store[m][i]) /\ artifact.status = to
  BY <1>1, <1>2 DEF Artifacts, SameKind
<1>4. /\ Updating(m, i) /\ SetUnlessEmpty(m, i, artifact)
      /\ to \in LegalTransitions[store[m][i].status]
  BY <1>1, <1>3 DEF TransitionArtifact
<1>5. store[m][i].status \in ArtifactStatuses
  BY <1>2 DEF Artifacts
<1>6. Rank[to] >= Rank[store[m][i].status]
  BY <1>4, <1>5, TransitionsAdvance
<1> QED
  BY <1>3, <1>4, <1>6, UpdateInv

\* The updates of the verification and of the merge state keep the status.
LEMMA UpdateStateInv ==
  ASSUME ArtifactInv, NEW m \in Managers, NEW i \in Ids,
         \/ UpdateVerificationState(m, i, "passed")
         \/ \E to \in {"eligible", "merged"} : UpdateMergeState(m, i, to)
  PROVE  ArtifactInv'
<1>1. PICK artifact :
        /\ \/ artifact = [store[m][i] EXCEPT !.verification = "passed"]
           \/ \E to \in {"eligible", "merged"} : artifact = [store[m][i] EXCEPT !.merge = to]
        /\ Updating(m, i) /\ SetUnlessEmpty(m, i, artifact)
  BY DEF UpdateVerificationState, UpdateMergeState
<1>2. store[m][i] \in Artifacts
  BY <1>1 DEF Updating, ArtifactInv, ArtifactTypeOK, Kept
<1>3. /\ artifact \in Artifacts /\ SameKind(artifact, store[m][i])
      /\ artifact.status = store[m][i].status
  BY <1>1, <1>2 DEF Artifacts, SameKind
<1>4. Rank[artifact.status] >= Rank[store[m][i].status]
  BY <1>2, <1>3, RankType DEF Artifacts
<1> QED
  BY <1>1, <1>3, <1>4, UpdateInv

\* serialize() changes the form of a content and nothing else.
LEMMA DecodedEffect ==
  ASSUME NEW map \in [Ids -> Artifacts \cup {Absent}]
  PROVE  /\ Decoded(map) \in [Ids -> Artifacts \cup {Absent}]
         /\ Kept(Decoded(map)) = Kept(map)
         /\ \A i \in Kept(map) :
              /\ SameKind(Decoded(map)[i], map[i])
              /\ Decoded(map)[i].status = map[i].status
              /\ Decoded(map)[i].decoded = (map[i].content \in Binary)
<1> DEFINE new == Decoded(map)
<1>1. \A i \in Ids : new[i] = [map[i] EXCEPT !.decoded = map[i].content \in Binary]
  BY DEF Decoded
<1>2. [Absent EXCEPT !.decoded = Absent.content \in Binary] = Absent
  <2>1. (Absent.content \in Binary) = FALSE
    BY ArtifactAssumption DEF Absent, New
  <2>2. [Absent EXCEPT !.decoded = FALSE] = Absent
    <3> DEFINE Absents == [status : {"none"}, version : {0}, parent : {0},
                           content : {EmptyContent}, decoded : BOOLEAN,
                           verification : {"unverified"}, merge : {"unmerged"}]
    <3>1. Absent \in Absents /\ Absent.decoded = FALSE
      BY DEF Absent, New
    <3>2. \A a \in Absents : a.decoded = FALSE => [a EXCEPT !.decoded = FALSE] = a
      OBVIOUS
    <3> HIDE DEF Absents
    <3> QED
      BY <3>1, <3>2
  <2> QED
    BY <2>1, <2>2
<1>3. \A a \in Artifacts, b \in BOOLEAN :
        /\ [a EXCEPT !.decoded = b] \in Artifacts
        /\ [a EXCEPT !.decoded = b].decoded = b
        /\ [a EXCEPT !.decoded = b].status = a.status
        /\ SameKind([a EXCEPT !.decoded = b], a)
  BY DEF Artifacts, SameKind
<1>4. new = [i \in Ids |-> new[i]]
  BY DEF Decoded
<1> HIDE DEF new
<1>5. \A i \in Ids : map[i] = Absent => new[i] = Absent
  BY <1>1, <1>2
<1>6. \A i \in Ids : map[i] # Absent =>
        /\ map[i] \in Artifacts /\ new[i] \in Artifacts
        /\ SameKind(new[i], map[i]) /\ new[i].status = map[i].status
        /\ new[i].decoded = (map[i].content \in Binary)
  <2> SUFFICES ASSUME NEW i \in Ids, map[i] # Absent
               PROVE  /\ map[i] \in Artifacts /\ new[i] \in Artifacts
                      /\ SameKind(new[i], map[i]) /\ new[i].status = map[i].status
                      /\ new[i].decoded = (map[i].content \in Binary)
    OBVIOUS
  <2> DEFINE b == map[i].content \in Binary
  <2>1. map[i] \in Artifacts /\ b \in BOOLEAN /\ new[i] = [map[i] EXCEPT !.decoded = b]
    BY <1>1
  <2> HIDE DEF b
  <2>2. /\ new[i] \in Artifacts /\ SameKind(new[i], map[i])
        /\ new[i].status = map[i].status /\ new[i].decoded = b
    BY <2>1, <1>3
  <2> QED
    BY <2>1, <2>2 DEF b
<1>7. Kept(new) = Kept(map)
  BY <1>5, <1>6, AbsentIsNoArtifact DEF Kept
<1>8. new \in [Ids -> Artifacts \cup {Absent}]
  BY <1>4, <1>5, <1>6
<1> QED
  BY <1>6, <1>7, <1>8 DEF new, Kept

LEMMA DecodedMapOK ==
  ASSUME NEW map, NEW n \in Nat, MapOK(map, n)
  PROVE  MapOK(Decoded(map), n)
<1> DEFINE new == Decoded(map)
<1>1. /\ new \in [Ids -> Artifacts \cup {Absent}] /\ Kept(new) = Kept(map)
      /\ \A i \in Kept(map) : SameKind(new[i], map[i])
  BY DecodedEffect DEF MapOK
<1> HIDE DEF new
<1>2. OriginalsOf(new) /\ \A i \in Kept(new) : i <= n /\ new[i].version <= i
  BY <1>1 DEF MapOK, OriginalsOf, SameKind
<1>3. ChainsOf(new)
  BY <1>1 DEF MapOK, ChainsOf, SameKind
<1> QED
  BY <1>1, <1>2, <1>3 DEF MapOK, new

\* The form in which a manager keeps an artifact is its own or that of the disk.
LEMMA SaveInv ==
  ASSUME ArtifactInv, NEW m \in Managers, Save(m)
  PROVE  ArtifactInv'
<1> DEFINE new == Decoded(store[m])
<1>1. /\ m \in saving /\ saving' = saving \ {m} /\ (disk' = new \/ disk' = disk)
      /\ UNCHANGED <<open, store, holder, made, updates>>
  BY DEF Save
<1>2. /\ store[m] \in [Ids -> Artifacts \cup {Absent}] /\ MapOK(store[m], made)
      /\ made \in Nat
  BY DEF ArtifactInv, ArtifactTypeOK, MapsOK
<1>3. /\ new \in [Ids -> Artifacts \cup {Absent}] /\ Kept(new) = Kept(store[m])
      /\ MapOK(new, made)
  BY <1>2, DecodedEffect, DecodedMapOK
<1>4. \A i \in Kept(store[m]) :
        /\ new[i].content = store[m][i].content /\ new[i].status = store[m][i].status
        /\ new[i].decoded = (store[m][i].content \in Binary)
  BY <1>2, DecodedEffect DEF SameKind
<1> HIDE DEF new
<1>5. ArtifactTypeOK'
  BY <1>1, <1>3 DEF ArtifactInv, ArtifactTypeOK
<1>6. MapsOK' /\ Found'
  BY <1>1, <1>3 DEF ArtifactInv, MapsOK, Found
<1>7. AloneIsAhead'
  <2> SUFFICES ASSUME NEW w \in Managers, open = {w} PROVE Ahead(store[w])'
    BY <1>1 DEF AloneIsAhead
  <2>1. w = m
    BY <1>1 DEF ArtifactInv, ArtifactTypeOK
  <2>2. CASE disk' = disk
    BY <1>1, <2>2 DEF ArtifactInv, AloneIsAhead, Ahead
  <2>3. CASE disk' = new
    <3>1. \A i \in Kept(store[m]) : store[m][i] \in Artifacts
      BY <1>2 DEF Kept
    <3>2. \A i \in Kept(store[m]) : Rank[store[m][i].status] >= Rank[new[i].status]
      BY <3>1, <1>4, RankType DEF Artifacts
    <3> QED
      BY <1>1, <1>3, <1>4, <2>1, <2>3, <3>2 DEF Ahead
  <2> QED
    BY <1>1, <2>2, <2>3
<1>8. DiskDecoded'
  BY <1>1, <1>3, <1>4 DEF ArtifactInv, DiskDecoded
<1> QED
  BY <1>5, <1>6, <1>7, <1>8 DEF ArtifactInv

LEMMA ReloadInv ==
  ASSUME ArtifactInv, Reload
  PROVE  ArtifactInv'
<1>1. /\ open' = {} /\ saving' = {} /\ UNCHANGED <<disk, made, updates>>
      /\ store' = [m \in Managers |-> Nothing]
      /\ holder' = [m \in Managers |-> NoHolder]
  BY DEF Reload
<1>2. ArtifactTypeOK'
  <2>1. Nothing \in [Ids -> Artifacts \cup {Absent}] /\ NoHolder \in [Contents -> 0..MaxArtifacts]
    BY ArtifactAssumption DEF Nothing, NoHolder
  <2> QED
    BY <1>1, <2>1 DEF ArtifactInv, ArtifactTypeOK
<1>3. MapsOK'
  BY <1>1, EmptyMapOK DEF ArtifactInv, MapsOK
<1>4. Found' /\ AloneIsAhead' /\ DiskDecoded'
  BY <1>1, EmptyMapOK DEF ArtifactInv, Found, AloneIsAhead, DiskDecoded
<1> QED
  BY <1>2, <1>3, <1>4 DEF ArtifactInv

LEMMA ArtifactNextInv == ArtifactInv /\ [ArtifactNext]_artifactVars => ArtifactInv'
<1> SUFFICES ASSUME ArtifactInv, [ArtifactNext]_artifactVars PROVE ArtifactInv'
  OBVIOUS
<1>1. CASE Reload
  BY <1>1, ReloadInv
<1>2. ASSUME NEW m \in Managers, Construct(m) \/ Save(m) PROVE ArtifactInv'
  BY <1>2, ConstructInv, SaveInv
<1>3. ASSUME NEW m \in Managers, NEW content \in Contents,
             \/ \E parent \in 0..made : Create(m, content, parent)
             \/ \E parent \in Ids : CreateVersion(m, parent, content)
      PROVE  ArtifactInv'
  BY <1>3, CreateInv, CreateVersionInv
<1>4. ASSUME NEW m \in Managers, NEW i \in Ids,
             \/ \E to \in ArtifactStatuses : TransitionArtifact(m, i, to)
             \/ UpdateVerificationState(m, i, "passed")
             \/ \E to \in {"eligible", "merged"} : UpdateMergeState(m, i, to)
      PROVE  ArtifactInv'
  BY <1>4, TransitionInv, UpdateStateInv
<1>5. CASE UNCHANGED artifactVars
  <2> USE <1>5 DEF artifactVars
  <2>1. ArtifactTypeOK' /\ MapsOK' /\ Found' /\ DiskDecoded'
    BY DEF ArtifactInv, ArtifactTypeOK, MapsOK, Found, DiskDecoded
  <2>2. AloneIsAhead'
    BY DEF ArtifactInv, AloneIsAhead, Ahead
  <2> QED
    BY <2>1, <2>2 DEF ArtifactInv
<1> QED
  BY <1>1, <1>2, <1>3, <1>4, <1>5 DEF ArtifactNext

-----------------------------------------------------------------------------
(* Theorems *)

\* The invariant of the artifact managers, which the theorems below read.
THEOREM ArtifactInvariant == ArtifactSpec => []ArtifactInv
BY ArtifactInitInv, ArtifactNextInv, PTL DEF ArtifactSpec

\* The managers and what they save keep their types.
THEOREM ArtifactTypes == ArtifactSpec => []ArtifactTypeOK
<1>1. ArtifactInv => ArtifactTypeOK
  BY DEF ArtifactInv
<1> QED
  BY <1>1, ArtifactInvariant, PTL

\* No manager and no saved map ever has two first versions of one content.
THEOREM OriginalsAreUnique == ArtifactSpec => []OriginalsUnique
<1>1. ArtifactInv => OriginalsUnique
  BY DEF ArtifactInv, MapsOK, MapOK, OriginalsOf, OriginalsUnique, Maps
<1> QED
  BY <1>1, ArtifactInvariant, PTL

\* A version is never kept without the one it revises, in memory or on disk.
THEOREM ChainsAreWhole == ArtifactSpec => []ChainsWhole
<1>1. ArtifactInv => ChainsWhole
  BY DEF ArtifactInv, MapsOK, MapOK, ChainsOf, ChainsWhole, Maps
<1> QED
  BY <1>1, ArtifactInvariant, PTL

\* While one manager is open nothing that is on disk is lost or set back.
THEOREM AloneLosesNothing == ArtifactSpec => AloneNothingLost
<1>1. ArtifactInv /\ ArtifactInv' /\ [ArtifactNext]_artifactVars =>
        [(\E m \in Managers : open = {m}) =>
           \A i \in Kept(disk) :
             /\ i \in Kept(disk')
             /\ disk'[i].content = disk[i].content
             /\ disk'[i].decoded = disk[i].decoded
             /\ Rank[disk'[i].status] >= Rank[disk[i].status]]_artifactVars
  <2> SUFFICES ASSUME ArtifactInv, ArtifactInv', [ArtifactNext]_artifactVars,
                      NEW m \in Managers, open = {m}, NEW i \in Kept(disk)
               PROVE  /\ i \in Kept(disk')
                      /\ disk'[i].content = disk[i].content
                      /\ disk'[i].decoded = disk[i].decoded
                      /\ Rank[disk'[i].status] >= Rank[disk[i].status]
    OBVIOUS
  <2> DEFINE new == Decoded(store[m])
  <2>1. disk' = disk \/ \E w \in saving : disk' = Decoded(store[w])
    BY DEF ArtifactNext, artifactVars, Reload, Construct, Save, Create, CreateVersion,
           TransitionArtifact, UpdateVerificationState, UpdateMergeState, Updating
  <2>2. CASE disk' = disk
    <3>1. disk[i] \in Artifacts
      BY DEF Kept, ArtifactInv, ArtifactTypeOK
    <3>2. Rank[disk[i].status] \in Nat
      BY <3>1, RankType DEF Artifacts
    <3> QED
      BY <2>2, <3>2
  <2>3. CASE \E w \in saving : disk' = Decoded(store[w])
    <3>1. disk' = new
      BY <2>3 DEF ArtifactInv, ArtifactTypeOK
    <3>2. /\ i \in Kept(store[m]) /\ store[m][i].content = disk[i].content
          /\ Rank[store[m][i].status] >= Rank[disk[i].status]
      BY DEF ArtifactInv, AloneIsAhead, Ahead
    <3>3. store[m] \in [Ids -> Artifacts \cup {Absent}]
      BY DEF ArtifactInv, ArtifactTypeOK
    <3>4. /\ i \in Kept(new) /\ new[i].content = store[m][i].content
          /\ new[i].status = store[m][i].status
      BY <3>2, <3>3, DecodedEffect DEF SameKind
    <3> HIDE DEF new
    <3>5. /\ disk'[i].decoded = (disk'[i].content \in Binary)
          /\ disk[i].decoded = (disk[i].content \in Binary)
      BY <3>1, <3>4 DEF ArtifactInv, DiskDecoded
    <3> QED
      BY <3>1, <3>2, <3>4, <3>5
  <2> QED
    BY <2>1, <2>2, <2>3
<1> QED
  BY <1>1, ArtifactInvariant, PTL DEF ArtifactSpec, AloneNothingLost
=============================================================================
