---------------------------- MODULE HostTools_proof -----------------------------
(***************************************************************************)
(* The properties of HostTools, for every host: every set of callers,      *)
(* paths and texts, every tree of directories and files, every table of    *)
(* mounts, whatever tools it registers and whatever codes they answer with. *)
(*                                                                         *)
(* The inductive invariant has four parts: the registry a session meets is *)
(* the one its reports speak of (Setup); the host's directories stay and   *)
(* the files have their place in them (Tree); a tool that is under way     *)
(* holds the file its path still leads to (CallFacts); and what was        *)
(* written last is in its file (History).                                  *)
(***************************************************************************)
EXTENDS HostTools, FiniteSetTheorems, WellFoundedInduction, TLAPS

MountRecord == [root : Seq(STRING), host : Seq(STRING), writable : BOOLEAN]

(* A set of naturals has a least element, and a bounded one a greatest.    *)
LEMMA LeastNat ==
    ASSUME NEW T, T \subseteq Nat, T # {}
    PROVE  \E n \in T : \A m \in T : n <= m
<1>1. IsWellFoundedOn(OpToRel(<, Nat), Nat)
  BY NatLessThanWellFounded
<1>2. \E n \in T : \A m \in T : ~(<<m, n>> \in OpToRel(<, Nat))
  BY <1>1, WFMin
<1>3. \A n, m \in T : ~(<<m, n>> \in OpToRel(<, Nat)) => n <= m
  BY DEF OpToRel
<1>4. QED
  BY <1>2, <1>3

(***************************************************************************)
(* The names in a path                                                     *)
(***************************************************************************)
Kept(path) == {i \in DOMAIN path : path[i] \notin {NoName, "."}}
Under(path, i) == {j \in Kept(path) : j < i}
Before(path, i) == Cardinality(Under(path, i))
Place(path, n) == CHOOSE i \in Kept(path) : Before(path, i) = n - 1

LEMMA NamedBy ==
    ASSUME NEW path
    PROVE  Named(path) = [n \in 1..Cardinality(Kept(path)) |-> path[Place(path, n)]]
BY DEF Named, Kept, Under, Before, Place

LEMMA KeptFinite ==
    ASSUME NEW path \in Seq(STRING)
    PROVE  /\ Kept(path) \subseteq 1..Len(path)
           /\ IsFiniteSet(Kept(path)) /\ Cardinality(Kept(path)) \in Nat
           /\ \A i : IsFiniteSet(Under(path, i)) /\ Before(path, i) \in Nat
<1>1. IsFiniteSet(1..Len(path)) /\ Kept(path) \subseteq 1..Len(path)
  BY FS_Interval DEF Kept
<1>2. IsFiniteSet(Kept(path))
  BY <1>1, FS_Subset
<1>3. ASSUME NEW i
      PROVE  IsFiniteSet(Under(path, i))
  <2>1. Under(path, i) \in SUBSET Kept(path)
    BY DEF Under
  <2>2. QED
    BY <1>2, <2>1, FS_Subset
<1>4. QED
  BY <1>1, <1>2, <1>3, FS_CardinalityType DEF Before

(* Counting the places before a kept one and the one itself. *)
LEMMA BeforeNext ==
    ASSUME NEW path \in Seq(STRING), NEW i \in Kept(path)
    PROVE  /\ IsFiniteSet(Under(path, i) \cup {i})
           /\ Cardinality(Under(path, i) \cup {i}) = Before(path, i) + 1
<1>1. i \notin Under(path, i)
  BY KeptFinite DEF Under
<1>2. QED
  BY <1>1, KeptFinite, FS_AddElement DEF Before

(* Each kept place but the last has its successor: no rank is left out. *)
LEMMA KeptRanked ==
    ASSUME NEW path \in Seq(STRING), NEW n \in 1..Cardinality(Kept(path))
    PROVE  \E i \in Kept(path) : Before(path, i) = n - 1
<1> DEFINE Upto == {m \in Nat : Before(path, m + 1) >= n}
<1>1. PICK m \in Upto : \A k \in Upto : m <= k
  <2>1. Under(path, Len(path) + 1) = Kept(path)
    BY KeptFinite DEF Under
  <2>2. Before(path, Len(path) + 1) = Cardinality(Kept(path))
    BY <2>1 DEF Before
  <2>3. Len(path) \in Upto
    BY <2>2
  <2>4. Upto # {} /\ Upto \subseteq Nat
    BY <2>3
  <2>5. QED
    BY <2>4, LeastNat
<1>2. Before(path, m) < n
  <2>1. CASE m = 0
    <3>1. Under(path, m) = {}
      BY <2>1, KeptFinite DEF Under
    <3>2. Before(path, m) = 0
      BY <3>1, FS_EmptySet DEF Before
    <3>3. QED
      BY <3>2
  <2>2. CASE m # 0
    <3>1. m - 1 \in Nat /\ m - 1 \notin Upto /\ m - 1 + 1 = m
      BY <1>1, <2>2
    <3>2. ~(Before(path, m) >= n)
      BY <3>1
    <3>3. QED
      BY <3>2, KeptFinite
  <2>3. QED
    BY <2>1, <2>2
<1>3. m \in Kept(path)
  <2> SUFFICES ASSUME m \notin Kept(path) PROVE FALSE
    OBVIOUS
  <2>1. Under(path, m + 1) = Under(path, m)
    BY KeptFinite DEF Under
  <2>2. Before(path, m + 1) = Before(path, m)
    BY <2>1 DEF Before
  <2>3. Before(path, m + 1) >= n
    BY <1>1
  <2>4. QED
    BY <1>2, <2>2, <2>3, KeptFinite
<1>4. Before(path, m + 1) = Before(path, m) + 1
  <2>1. Under(path, m + 1) = Under(path, m) \cup {m}
    BY <1>3, KeptFinite DEF Under
  <2>2. QED
    BY <1>3, <2>1, BeforeNext DEF Before
<1>5. Before(path, m + 1) >= n
  BY <1>1
<1>6. Before(path, m) \in Nat
  BY KeptFinite
<1>7. QED
  BY <1>2, <1>3, <1>4, <1>5, <1>6

LEMMA PlaceIs ==
    ASSUME NEW path \in Seq(STRING), NEW i \in Kept(path), NEW n \in Nat,
           Before(path, i) = n - 1
    PROVE  Place(path, n) = i
<1>1. ASSUME NEW j \in Kept(path), NEW k \in Kept(path), j < k
      PROVE  Before(path, j) < Before(path, k)
  <2>1. Under(path, j) \cup {j} \in SUBSET Under(path, k)
    BY <1>1, KeptFinite DEF Under
  <2>2. Cardinality(Under(path, j) \cup {j}) <= Before(path, k)
    BY <2>1, KeptFinite, FS_Subset DEF Before
  <2>3. Cardinality(Under(path, j) \cup {j}) = Before(path, j) + 1
    BY BeforeNext
  <2>4. QED
    BY <2>2, <2>3, KeptFinite
<1>2. Kept(path) \subseteq Nat
  BY KeptFinite
<1>3. Place(path, n) \in Kept(path) /\ Before(path, Place(path, n)) = n - 1
  BY DEF Place
<1>4. QED
  BY <1>1, <1>2, <1>3, KeptFinite

(* What Named returns is a sequence of names, none empty or ".". *)
LEMMA NamedFacts ==
    ASSUME NEW path \in Seq(STRING)
    PROVE  /\ Named(path) \in Seq(STRING)
           /\ Len(Named(path)) = Cardinality(Kept(path))
           /\ \A n \in 1..Len(Named(path)) : Named(path)[n] \notin {NoName, "."}
<1>1. ASSUME NEW n \in 1..Cardinality(Kept(path))
      PROVE  path[Place(path, n)] \in STRING \ {NoName, "."}
  <2>1. Place(path, n) \in Kept(path)
    BY KeptRanked DEF Place
  <2>2. QED
    BY <2>1 DEF Kept
<1>2. QED
  BY <1>1, KeptFinite, NamedBy

LEMMA NamedSkips ==
    ASSUME NEW path \in Seq(STRING), NEW segment \in STRING, segment \in {NoName, "."}
    PROVE  Named(path \o <<segment>>) = Named(path)
<1> DEFINE longer == path \o <<segment>>
<1>1. longer \in Seq(STRING) /\ Kept(longer) = Kept(path)
  <2>1. longer \in Seq(STRING) /\ Len(longer) = Len(path) + 1
    OBVIOUS
  <2>2. \A i \in 1..Len(path) : longer[i] = path[i]
    OBVIOUS
  <2>3. longer[Len(path) + 1] = segment
    OBVIOUS
  <2> HIDE DEF longer
  <2>4. QED
    BY <2>1, <2>2, <2>3 DEF Kept
<1>2. \A i \in Kept(path) : longer[i] = path[i]
  BY DEF Kept
<1>3. ASSUME NEW n \in 1..Cardinality(Kept(path))
      PROVE  longer[Place(longer, n)] = path[Place(path, n)]
  <2>1. PICK i \in Kept(path) : Before(path, i) = n - 1
    BY KeptRanked
  <2>2. Before(longer, i) = n - 1
    BY <1>1, <2>1 DEF Before, Under
  <2>3. Place(path, n) = i
    BY <2>1, KeptFinite, PlaceIs
  <2>4. Place(longer, n) = i
    <3> HIDE DEF longer
    <3>1. i \in Kept(longer) /\ n \in Nat
      BY <1>1
    <3>2. QED
      BY <1>1, <2>2, <3>1, PlaceIs
  <2>5. QED
    BY <1>2, <2>3, <2>4
<1>4. QED
  BY <1>1, <1>3, NamedBy

LEMMA NamedAppends ==
    ASSUME NEW path \in Seq(STRING), NEW name \in STRING \ {NoName, "."}
    PROVE  Named(path \o <<name>>) = Named(path) \o <<name>>
<1> DEFINE longer == path \o <<name>>
<1> DEFINE end == Len(path) + 1
<1>1. longer \in Seq(STRING) /\ Kept(longer) = Kept(path) \cup {end} /\ end \notin Kept(path)
  BY DEF Kept
<1>2. Cardinality(Kept(longer)) = Cardinality(Kept(path)) + 1
  BY <1>1, KeptFinite, FS_AddElement
<1>3. ASSUME NEW n \in 1..Cardinality(Kept(path))
      PROVE  longer[Place(longer, n)] = path[Place(path, n)]
  <2>1. PICK i \in Kept(path) : Before(path, i) = n - 1
    BY KeptRanked
  <2>2. Under(longer, i) = Under(path, i)
    BY <1>1, KeptFinite DEF Under
  <2>3. Before(longer, i) = n - 1
    BY <2>1, <2>2 DEF Before
  <2>4. Place(path, n) = i
    BY <2>1, KeptFinite, PlaceIs
  <2>5. Place(longer, n) = i
    <3> HIDE DEF longer
    <3>1. i \in Kept(longer) /\ n \in Nat
      BY <1>1
    <3>2. QED
      BY <1>1, <2>3, <3>1, PlaceIs
  <2>6. QED
    BY <2>4, <2>5 DEF Kept
<1>4. longer[Place(longer, Cardinality(Kept(path)) + 1)] = name
  <2> DEFINE n == Cardinality(Kept(path)) + 1
  <2>1. Under(longer, end) = Kept(path)
    BY <1>1, KeptFinite DEF Under
  <2>2. Before(longer, end) = Cardinality(Kept(path))
    BY <2>1 DEF Before
  <2>3. Before(longer, end) = n - 1 /\ n \in Nat
    BY <2>2, KeptFinite
  <2>4. Place(longer, n) = end
    <3> HIDE DEF longer, end, n
    <3>1. QED
      BY <1>1, <2>3, PlaceIs
  <2>5. QED
    BY <2>4
<1>5. Named(longer) = [n \in 1..(Cardinality(Kept(path)) + 1) |->
                         IF n = Cardinality(Kept(path)) + 1 THEN name ELSE Named(path)[n]]
  <2>1. Named(longer) = [n \in 1..(Cardinality(Kept(path)) + 1) |-> longer[Place(longer, n)]]
    BY <1>2, NamedBy
  <2>2. \A n \in 1..Cardinality(Kept(path)) : Named(path)[n] = path[Place(path, n)]
    BY NamedBy
  <2> HIDE DEF longer
  <2>3. QED
    BY <1>3, <1>4, <2>1, <2>2, KeptFinite
<1>6. /\ Named(path) \in Seq(STRING)
      /\ Len(Named(path)) = Cardinality(Kept(path))
      /\ Cardinality(Kept(path)) \in Nat
  BY NamedFacts, KeptFinite
<1>7. Named(path) \o <<name>> = [n \in 1..(Cardinality(Kept(path)) + 1) |->
                         IF n = Cardinality(Kept(path)) + 1 THEN name ELSE Named(path)[n]]
  BY <1>6
<1>8. QED
  BY <1>5, <1>7

LEMMA GreatestNat ==
    ASSUME NEW n \in Nat, NEW T, T \subseteq 0..n, T # {}
    PROVE  \E m \in T : \A k \in T : k <= m
<1> DEFINE Rest == {m \in Nat : \E k \in T : m = n - k}
<1>1. Rest \subseteq Nat /\ Rest # {}
  <2>1. PICK k \in T : TRUE
    OBVIOUS
  <2>2. n - k \in Rest
    OBVIOUS
  <2>3. QED
    BY <2>2
<1>2. PICK r \in Rest : \A q \in Rest : r <= q
  BY <1>1, LeastNat
<1>3. PICK m \in T : r = n - m
  BY <1>2
<1>4. \A k \in T : n - k \in Rest
  OBVIOUS
<1>5. QED
  BY <1>2, <1>3, <1>4

--------------------------------------------------------------------------------
(***************************************************************************)
(* Mounts                                                                  *)
(***************************************************************************)

LEMMA PrefixOfLonger ==
    ASSUME NEW S, NEW s \in Seq(S), NEW t \in Seq(S), NEW x \in S
    PROVE  IsPrefix(s, t \o <<x>>) <=> IsPrefix(s, t) \/ s = t \o <<x>>
<1> DEFINE u == t \o <<x>>
<1>1. u \in Seq(S) /\ Len(u) = Len(t) + 1
  OBVIOUS
<1>a. \A i \in 1..Len(t) : u[i] = t[i]
  OBVIOUS
<1> SUFFICES IsPrefix(s, u) <=> IsPrefix(s, t) \/ s = u
  OBVIOUS
<1> HIDE DEF u
<1>2. CASE Len(s) <= Len(t)
  <2>1. SubSeq(u, 1, Len(s)) = SubSeq(t, 1, Len(s))
    BY <1>1, <1>a, <1>2
  <2>2. Len(s) # Len(u)
    BY <1>1, <1>2
  <2>3. QED
    BY <1>1, <1>2, <2>1, <2>2 DEF IsPrefix
<1>3. CASE Len(s) = Len(t) + 1
  <2>1. SubSeq(s, 1, Len(s)) = s /\ SubSeq(u, 1, Len(s)) = u
    BY <1>1, <1>3
  <2>2. QED
    BY <1>1, <1>3, <2>1 DEF IsPrefix
<1>4. CASE Len(s) > Len(t) + 1
  BY <1>1, <1>4 DEF IsPrefix
<1>5. QED
  BY <1>2, <1>3, <1>4

(* A root that FileMount has normalized is "/" or does not end in "/". *)
LEMMA NormalRoot ==
    ASSUME NEW root \in Seq(STRING), NormalizeVirtualRoot(root) = root
    PROVE  root # <<>> /\ (root = <<NoName, NoName>> \/ Last(root) # NoName)
<1> DEFINE named == {i \in DOMAIN root : root[i] # NoName}
<1> DEFINE k == CHOOSE i \in named : \A j \in named : j <= i
<1>1. CASE named = {}
  BY <1>1 DEF NormalizeVirtualRoot
<1>2. CASE named # {}
  <2>1. named \subseteq 0..Len(root)
    OBVIOUS
  <2>2. \E i \in named : \A j \in named : j <= i
    <3>1. Len(root) \in Nat
      OBVIOUS
    <3> HIDE DEF named
    <3>2. QED
      BY <1>2, <2>1, <3>1, GreatestNat
  <2>3. k \in named
    BY <2>2
  <2>4. k \in 1..Len(root) /\ root[k] # NoName
    BY <2>3
  <2> DEFINE trimmed == SubSeq(root, 1, k)
  <2>5. \/ root = trimmed
        \/ root = <<NoName>> \o trimmed
    <3>1. trimmed # <<>>
      <4> HIDE DEF k
      <4>1. Len(trimmed) = k
        BY <2>4
      <4>2. QED
        BY <2>4, <4>1
    <3>2. root = CASE trimmed = <<>> -> <<NoName, NoName>>
                   [] trimmed # <<>> /\ root[1] = NoName -> trimmed
                   [] OTHER -> <<NoName>> \o trimmed
      BY <1>2 DEF NormalizeVirtualRoot
    <3> HIDE DEF trimmed, k
    <3>3. QED
      BY <3>1, <3>2
  <2> HIDE DEF k, named
  <2>6. trimmed \in Seq(STRING) /\ Len(trimmed) = k /\ trimmed[k] = root[k]
    BY <2>4
  <2>7. CASE root = trimmed
    BY <2>4, <2>6, <2>7 DEF Last
  <2>8. CASE root = <<NoName>> \o trimmed
    <3> HIDE DEF trimmed
    <3>1. Len(root) = k + 1 /\ root[k + 1] = trimmed[k]
      BY <2>4, <2>6, <2>8
    <3>2. QED
      BY <2>4, <2>6, <3>1 DEF Last
  <2>9. QED
    BY <2>5, <2>7, <2>8
<1>3. QED
  BY <1>1, <1>2

(* The roots FileMount makes are those MountsAssumption asks for.          *)
Rooted(root) ==
    /\ Len(root) > 1 /\ root[1] = NoName
    /\ root = <<NoName, NoName>> \/ root[Len(root)] # NoName

LEMMA NormalizedRooted ==
    ASSUME NEW Segments, NoName \in Segments, NEW path \in Seq(Segments)
    PROVE  NormalizeVirtualRoot(path) \in Seq(Segments) /\ Rooted(NormalizeVirtualRoot(path))
<1> DEFINE named == {i \in DOMAIN path : path[i] # NoName}
<1> DEFINE k == CHOOSE i \in named : \A j \in named : j <= i
<1> DEFINE trimmed == SubSeq(path, 1, k)
<1>1. CASE named = {}
  <2>1. NormalizeVirtualRoot(path) = <<NoName, NoName>>
    BY <1>1 DEF NormalizeVirtualRoot
  <2>2. QED
    BY <2>1 DEF Rooted
<1>2. CASE named # {}
  <2>1. \E i \in named : \A j \in named : j <= i
    <3>1. Len(path) \in Nat
      OBVIOUS
    <3>2. named \subseteq 0..Len(path)
      OBVIOUS
    <3> HIDE DEF named
    <3>3. QED
      BY <1>2, <3>1, <3>2, GreatestNat
  <2>2. k \in named
    BY <2>1
  <2>3. k \in 1..Len(path) /\ path[k] # NoName
    BY <2>2
  <2>4. NormalizeVirtualRoot(path) =
          CASE trimmed = <<>> -> <<NoName, NoName>>
            [] trimmed # <<>> /\ path[1] = NoName -> trimmed
            [] OTHER -> <<NoName>> \o trimmed
    BY <1>2 DEF NormalizeVirtualRoot
  <2> HIDE DEF k, named
  <2>5. /\ trimmed \in Seq(Segments) /\ Len(trimmed) = k
        /\ trimmed[k] = path[k] /\ trimmed[1] = path[1]
    BY <2>3
  <2>6. trimmed # <<>>
    BY <2>3, <2>5
  <2> HIDE DEF trimmed
  <2>7. CASE path[1] = NoName
    <3>1. NormalizeVirtualRoot(path) = trimmed
      BY <2>4, <2>6, <2>7
    <3>2. k > 1
      BY <2>3, <2>7
    <3>3. QED
      BY <2>3, <2>5, <2>7, <3>1, <3>2 DEF Rooted
  <2>8. CASE path[1] # NoName
    <3> DEFINE root == <<NoName>> \o trimmed
    <3>1. NormalizeVirtualRoot(path) = root
      BY <2>4, <2>6, <2>8
    <3>2. /\ root \in Seq(Segments) /\ Len(root) = k + 1
          /\ root[1] = NoName /\ root[k + 1] = trimmed[k]
      BY <2>3, <2>5
    <3> HIDE DEF root
    <3>3. QED
      BY <2>3, <2>5, <3>1, <3>2 DEF Rooted
  <2>9. QED
    BY <2>7, <2>8
<1>3. QED
  BY <1>1, <1>2

LEMMA RootedKept ==
    ASSUME NEW Segments, NEW root \in Seq(Segments), Rooted(root)
    PROVE  NormalizeVirtualRoot(root) = root
<1> DEFINE named == {i \in DOMAIN root : root[i] # NoName}
<1> DEFINE k == CHOOSE i \in named : \A j \in named : j <= i
<1>1. Len(root) \in Nat /\ Len(root) > 1 /\ root[1] = NoName
  BY DEF Rooted
<1>2. CASE root = <<NoName, NoName>>
  <2>1. named = {}
    BY <1>2
  <2>2. QED
    BY <1>2, <2>1 DEF NormalizeVirtualRoot
<1>3. CASE root[Len(root)] # NoName
  <2>1. Len(root) \in named /\ \A j \in named : j \in Nat /\ j <= Len(root)
    BY <1>1, <1>3
  <2>2. k = Len(root)
    <3>1. k \in named /\ \A j \in named : j <= k
      BY <2>1
    <3> HIDE DEF k, named
    <3>2. k \in Nat /\ k <= Len(root) /\ Len(root) <= k
      BY <2>1, <3>1
    <3>3. QED
      BY <1>1, <3>2
  <2>3. SubSeq(root, 1, k) = root /\ root # <<>> /\ named # {}
    BY <1>1, <2>1, <2>2
  <2>4. NormalizeVirtualRoot(root) =
          CASE SubSeq(root, 1, k) = <<>> -> <<NoName, NoName>>
            [] SubSeq(root, 1, k) # <<>> /\ root[1] = NoName -> SubSeq(root, 1, k)
            [] OTHER -> <<NoName>> \o SubSeq(root, 1, k)
    BY <2>3 DEF NormalizeVirtualRoot
  <2> HIDE DEF k, named
  <2>5. QED
    BY <1>1, <2>3, <2>4
<1>4. QED
  BY <1>2, <1>3 DEF Rooted

(* What normalize_virtual_root makes of any path it leaves as it is, and   *)
(* it is absolute: "/", or a path that starts with "/" and does not end in *)
(* one.                                                                    *)
THEOREM NormalizedOnce ==
    ASSUME NEW Segments, NoName \in Segments, NEW path \in Seq(Segments)
    PROVE  /\ NormalizeVirtualRoot(path) \in Seq(Segments)
           /\ Rooted(NormalizeVirtualRoot(path))
           /\ NormalizeVirtualRoot(NormalizeVirtualRoot(path)) = NormalizeVirtualRoot(path)
BY NormalizedRooted, RootedKept

Covering(table, path) == {i \in DOMAIN table : Covers(table[i], path)}

Shorter(table, j, i) ==
    \/ Len(table[j].root) < Len(table[i].root)
    \/ Len(table[j].root) = Len(table[i].root) /\ j <= i

Best(table, C) ==
    IF C = {} THEN 0 ELSE CHOOSE i \in C : \A j \in C : Shorter(table, j, i)

LEMMA NearestBy ==
    ASSUME NEW table, NEW path, NEW write
    PROVE  Nearest(table, path, write) = Best(table, Covering(table, path))
BY DEF Nearest, Covering, Best, Shorter

(* The mount that is chosen covers the path. *)
LEMMA NearestCovers ==
    ASSUME NEW table \in Seq(MountRecord), NEW path \in Seq(STRING), NEW write,
           Nearest(table, path, write) # 0
    PROVE  /\ Nearest(table, path, write) \in DOMAIN table
           /\ Covers(table[Nearest(table, path, write)], path)
<1> DEFINE C == Covering(table, path)
<1>1. C # {}
  BY NearestBy DEF Best
<1>2. C \subseteq 1..Len(table) /\ \A i \in C : table[i] \in MountRecord
  BY DEF Covering
<1>3. \A i \in C : Len(table[i].root) \in 0..Len(path)
  BY <1>2 DEF Covering, Covers, IsPrefix, MountRecord
<1> DEFINE Lengths == {Len(table[i].root) : i \in C}
<1>4. PICK l \in Lengths : \A m \in Lengths : m <= l
  <2>1. Lengths \subseteq 0..Len(path) /\ Lengths # {} /\ Len(path) \in Nat
    <3>1. PICK i \in C : TRUE
      BY <1>1
    <3>2. Len(table[i].root) \in Lengths
      OBVIOUS
    <3> HIDE DEF C
    <3>3. Lengths \subseteq 0..Len(path)
      BY <1>3
    <3>4. Lengths # {}
      BY <3>2
    <3>5. Len(path) \in Nat
      OBVIOUS
    <3> HIDE DEF Lengths
    <3>6. QED
      BY <3>3, <3>4, <3>5
  <2> HIDE DEF Lengths
  <2>2. QED
    BY <2>1, GreatestNat
<1> DEFINE Longest == {i \in C : Len(table[i].root) = l}
<1>5. PICK i \in Longest : \A j \in Longest : j <= i
  <2>1. Longest \subseteq 0..Len(table) /\ Longest # {} /\ Len(table) \in Nat
    BY <1>2, <1>4
  <2> HIDE DEF Longest
  <2>2. QED
    BY <2>1, GreatestNat
<1>6. \A j \in C : Shorter(table, j, i)
  <2> SUFFICES ASSUME NEW j \in C PROVE Shorter(table, j, i)
    OBVIOUS
  <2>1. Len(table[j].root) \in Lengths /\ Len(table[i].root) = l /\ l \in Nat
    BY <1>3, <1>5
  <2>2. Len(table[j].root) <= l
    BY <1>4, <2>1
  <2>3. Len(table[j].root) = l => j <= i
    BY <1>5
  <2>4. Len(table[j].root) \in Nat
    BY <1>3
  <2>5. QED
    BY <2>1, <2>2, <2>3, <2>4 DEF Shorter
<1>7. i \in C
  BY <1>5
<1>8. Nearest(table, path, write) \in C
  <2>1. Nearest(table, path, write) =
           CHOOSE n \in C : \A j \in C : Shorter(table, j, n)
    BY <1>1, NearestBy DEF Best
  <2> HIDE DEF C
  <2>2. QED
    BY <1>6, <1>7, <2>1
<1>9. QED
  BY <1>8 DEF Covering

(* Reading and writing look for the same mount. *)
LEMMA NearestAny ==
    ASSUME NEW table, NEW path, NEW other, NEW write, NEW writes,
           Covering(table, path) = Covering(table, other)
    PROVE  Nearest(table, path, write) = Nearest(table, other, writes)
BY NearestBy

--------------------------------------------------------------------------------
(***************************************************************************)
(* Where paths lead                                                        *)
(***************************************************************************)
Suffix(i, path) == SubSeq(path, Len(mounts[i].root) + 1, Len(path))

(* What Resolve asks of a path, and the file it gives. *)
LeadsBy(i, path, write, file) ==
    /\ IsAbsolute(path) /\ i # 0
    /\ write => mounts[i].writable
    /\ ".." \notin ToSet(Named(Suffix(i, path)))
    /\ RootExists(mounts[i].host, Named(Suffix(i, path)))
    /\ file = mounts[i].host \o Named(Suffix(i, path))
    /\ Exists(file) \/ Exists(Front(file))

LeadsTo(path, write, file) == LeadsBy(Nearest(mounts, path, write), path, write, file)

NormalMounts ==
    /\ mounts \in Seq(MountRecord)
    /\ \A i \in DOMAIN mounts : NormalizeVirtualRoot(mounts[i].root) = mounts[i].root

LEMMA ResolveLeads ==
    ASSUME NEW path, NEW write
    PROVE  Resolve(mounts, path, write).ok =>
              LeadsTo(path, write, Resolve(mounts, path, write).file)
BY DEF Resolve, Denied, LeadsTo, LeadsBy, Suffix

LEMMA LeadsResolve ==
    ASSUME NEW path, NEW write, NEW file, LeadsTo(path, write, file)
    PROVE  Resolve(mounts, path, write) = [ok |-> TRUE, file |-> file]
BY DEF Resolve, Denied, LeadsTo, LeadsBy, Suffix

LEMMA LeadsAnswers ==
    ASSUME NEW path, NEW write, NEW file, NEW r, r = Resolve(mounts, path, write),
           LeadsTo(path, write, file)
    PROVE  r.ok /\ r.file = file
BY LeadsResolve

(* A path leads to one file, whether it is read or written. *)
LEMMA LeadsOne ==
    ASSUME NEW path, NEW write, NEW writes, NEW file, NEW other,
           LeadsTo(path, write, file), LeadsTo(path, writes, other)
    PROVE  file = other
<1>1. Nearest(mounts, path, write) = Nearest(mounts, path, writes)
  BY NearestAny
<1>2. QED
  BY <1>1 DEF LeadsTo, LeadsBy

(* It is the directory of a mount that covers the path, and names below. *)
LEMMA LeadsBelow ==
    ASSUME NEW path \in Seq(STRING), NEW write, NEW file, NormalMounts,
           LeadsTo(path, write, file)
    PROVE  \E i \in DOMAIN mounts :
              /\ LeadsBy(i, path, write, file) /\ i = Nearest(mounts, path, write)
              /\ Covers(mounts[i], path)
              /\ mounts[i] \in MountRecord
              /\ IsPrefix(mounts[i].host, file)
              /\ file \in Seq(STRING)
              /\ Suffix(i, path) \in Seq(STRING)
              /\ file \in dirs \/ (file # <<>> /\ Last(file) \notin {NoName, ".", ".."})
<1> DEFINE i == Nearest(mounts, path, write)
<1>1. LeadsBy(i, path, write, file) /\ i # 0
  BY DEF LeadsTo, LeadsBy
<1>2. i \in DOMAIN mounts /\ Covers(mounts[i], path)
  BY <1>1, NearestCovers DEF NormalMounts
<1> HIDE DEF i
<1>3. mounts[i] \in MountRecord
  BY <1>2 DEF NormalMounts
<1>4. Suffix(i, path) \in Seq(STRING)
  BY <1>3, <1>2 DEF Suffix, MountRecord
<1> DEFINE names == Named(Suffix(i, path))
<1> DEFINE host == mounts[i].host
<1>5. names \in Seq(STRING) /\ host \in Seq(STRING)
  BY <1>3, <1>4, NamedFacts DEF MountRecord
<1>6. \A n \in 1..Len(names) : names[n] \notin {NoName, ".", ".."}
  BY <1>1, <1>4, <1>5, NamedFacts DEF LeadsBy, ToSet
<1>7. file = host \o names /\ (host \in dirs \/ names # <<>>)
  BY <1>1 DEF LeadsBy, RootExists
<1> HIDE DEF names, host
<1>8. file \in Seq(STRING) /\ IsPrefix(host, file)
  BY <1>5, <1>7 DEF IsPrefix
<1>9. file \in dirs \/ (file # <<>> /\ Last(file) \notin {NoName, ".", ".."})
  <2>1. CASE names = <<>>
    BY <1>5, <1>7, <2>1
  <2>2. CASE names # <<>>
    <3>1. Len(names) \in Nat \ {0} /\ Len(file) = Len(host) + Len(names)
      BY <1>5, <1>7, <2>2
    <3>2. file[Len(file)] = names[Len(names)]
      BY <1>5, <1>7, <3>1
    <3>3. file # <<>>
      BY <1>5, <1>7, <3>1
    <3>4. QED
      BY <1>6, <3>1, <3>2, <3>3 DEF Last
  <2>3. QED
    BY <2>1, <2>2
<1>10. QED
  BY <1>1, <1>2, <1>3, <1>4, <1>8, <1>9 DEF host, i

LEMMA IsAppended ==
    ASSUME NEW S, NEW l \in Seq(S), NEW r \in Seq(S), NEW x \in S,
           Len(l) = Len(r) + 1, l[Len(r) + 1] = x, \A i \in 1..Len(r) : l[i] = r[i]
    PROVE  l = r \o <<x>>
OBVIOUS

LEMMA SuffixOfLonger ==
    ASSUME NEW S, NEW s \in Seq(S), NEW x \in S, NEW n \in 0..Len(s)
    PROVE  SubSeq(s \o <<x>>, n + 1, Len(s \o <<x>>)) = SubSeq(s, n + 1, Len(s)) \o <<x>>
<1> DEFINE u == s \o <<x>>
<1> DEFINE l == SubSeq(u, n + 1, Len(u))
<1> DEFINE r == SubSeq(s, n + 1, Len(s))
<1>1. u \in Seq(S) /\ Len(u) = Len(s) + 1
  OBVIOUS
<1>2. \A i \in 1..Len(s) : u[i] = s[i]
  OBVIOUS
<1>3. u[Len(s) + 1] = x
  OBVIOUS
<1>4. r \in Seq(S) /\ Len(r) = Len(s) - n /\ \A i \in 1..(Len(s) - n) : r[i] = s[n + i]
  OBVIOUS
<1> SUFFICES l = r \o <<x>>
  OBVIOUS
<1> HIDE DEF u
<1>5. l \in Seq(S) /\ Len(l) = Len(s) + 1 - n
      /\ \A i \in 1..(Len(s) + 1 - n) : l[i] = u[n + i]
  BY <1>1
<1> HIDE DEF l, r
<1>6. Len(l) = Len(r) + 1
  BY <1>4, <1>5
<1>7. l[Len(r) + 1] = x
  <2>1. l[Len(s) - n + 1] = u[n + (Len(s) - n + 1)]
    BY <1>5
  <2>2. QED
    BY <1>3, <1>4, <2>1
<1>8. \A i \in 1..Len(r) : l[i] = r[i]
  <2> SUFFICES ASSUME NEW i \in 1..Len(r) PROVE l[i] = r[i]
    OBVIOUS
  <2>1. i \in 1..(Len(s) - n) /\ i \in 1..(Len(s) + 1 - n) /\ n + i \in 1..Len(s)
    BY <1>4
  <2>2. QED
    BY <1>2, <1>4, <1>5, <2>1
<1>9. QED
  BY <1>4, <1>5, <1>6, <1>7, <1>8, IsAppended

(* The path of a name that a directory was listed with. *)
PathOf(dir, name) == (IF Last(dir) = NoName THEN Front(dir) ELSE dir) \o <<name>>

(* It lies below the same mounts as the directory's, and one name deeper, *)
(* unless it is a mount itself, or there is one at "/".                    *)
LEMMA ListedLeads ==
    ASSUME NEW dir \in Seq(STRING), NEW name \in STRING, name \notin {NoName, ".", ".."},
           NEW file, NormalMounts, LeadsTo(dir, FALSE, file),
           Exists(file \o <<name>>),
           \A i \in DOMAIN mounts :
              mounts[i].root # <<NoName, NoName>> /\ mounts[i].root # PathOf(dir, name)
    PROVE  LeadsTo(PathOf(dir, name), FALSE, file \o <<name>>)
<1> DEFINE base == IF Last(dir) = NoName THEN Front(dir) ELSE dir
<1> DEFINE path == PathOf(dir, name)
<1>1. PICK i \in DOMAIN mounts :
        /\ LeadsBy(i, dir, FALSE, file) /\ i = Nearest(mounts, dir, FALSE)
        /\ Covers(mounts[i], dir) /\ mounts[i] \in MountRecord
        /\ file \in Seq(STRING) /\ Suffix(i, dir) \in Seq(STRING)
  BY LeadsBelow
<1>2. Len(dir) > 1 /\ dir[1] = NoName
  BY <1>1 DEF LeadsBy, IsAbsolute
<1>3. /\ base \in Seq(STRING) /\ Len(base) >= 1 /\ base[1] = NoName
      /\ dir = base \/ (dir = base \o <<NoName>> /\ NoName \in STRING)
  <2>1. CASE Last(dir) = NoName
    <3>1. /\ Front(dir) \in Seq(STRING) /\ Len(Front(dir)) = Len(dir) - 1
          /\ \A j \in 1..(Len(dir) - 1) : Front(dir)[j] = dir[j]
      BY <1>2 DEF Front
    <3>2. dir = Front(dir) \o <<Last(dir)>> /\ Last(dir) \in STRING
      BY <1>2, <3>1 DEF Last
    <3>3. QED
      BY <1>2, <2>1, <3>1, <3>2
  <2>2. CASE Last(dir) # NoName
    BY <1>2, <2>2
  <2>3. QED
    BY <2>1, <2>2
<1>4. path = base \o <<name>>
  BY DEF PathOf
<1> HIDE DEF base, path
<1>5. path \in Seq(STRING) /\ IsAbsolute(path)
  BY <1>3, <1>4 DEF IsAbsolute
<1>6. ASSUME NEW j \in DOMAIN mounts
      PROVE  /\ Covers(mounts[j], path) <=> Covers(mounts[j], dir)
             /\ Covers(mounts[j], dir) => IsPrefix(mounts[j].root, base)
  <2> DEFINE root == mounts[j].root
  <2>1. root \in Seq(STRING) /\ NormalizeVirtualRoot(root) = root
    <3>1. mounts[j] \in MountRecord
      BY DEF NormalMounts
    <3>2. QED
      BY <3>1 DEF NormalMounts, MountRecord
  <2>2. root # <<NoName, NoName>> /\ root # path
    BY DEF path
  <2>3. root # <<>> /\ Last(root) # NoName
    BY <2>1, <2>2, NormalRoot
  <2> HIDE DEF root
  <2>4. IsPrefix(root, path) <=> IsPrefix(root, base)
    BY <1>3, <1>4, <2>1, <2>2, PrefixOfLonger
  <2>5. IsPrefix(root, dir) <=> IsPrefix(root, base)
    <3>1. CASE dir = base
      BY <3>1
    <3>2. CASE dir = base \o <<NoName>> /\ NoName \in STRING
      <4>1. root # dir
        <5>1. Last(dir) = NoName
          BY <1>3, <3>2 DEF Last
        <5>2. QED
          BY <2>3, <5>1
      <4>2. QED
        BY <1>3, <2>1, <3>2, <4>1, PrefixOfLonger
    <3>3. QED
      BY <1>3, <3>1, <3>2
  <2>6. QED
    BY <2>4, <2>5 DEF Covers, root
<1>7. Nearest(mounts, path, FALSE) = i
  <2>1. Covering(mounts, path) = Covering(mounts, dir)
    BY <1>6 DEF Covering
  <2>2. Nearest(mounts, path, FALSE) = Nearest(mounts, dir, FALSE)
    BY <2>1, NearestBy, Zenon
  <2>3. QED
    BY <1>1, <2>2
<1>8. Named(Suffix(i, path)) = Named(Suffix(i, dir)) \o <<name>>
  <2> DEFINE n == Len(mounts[i].root)
  <2> DEFINE below == SubSeq(base, n + 1, Len(base))
  <2>1. n \in Nat /\ n <= Len(base)
    <3>1. IsPrefix(mounts[i].root, base) /\ mounts[i].root \in Seq(STRING)
      BY <1>1, <1>6 DEF MountRecord
    <3>2. QED
      BY <3>1 DEF IsPrefix
  <2> HIDE DEF n
  <2>2. below \in Seq(STRING) /\ Len(below) = Len(base) - n
    BY <1>3, <2>1
  <2>3. \A x \in STRING : SubSeq(base \o <<x>>, n + 1, Len(base \o <<x>>)) = below \o <<x>>
    <3>1. n \in 0..Len(base)
      BY <2>1
    <3>2. QED
      BY <1>3, <3>1, SuffixOfLonger
  <2>4. Suffix(i, path) = below \o <<name>>
    BY <1>4, <2>3 DEF Suffix, n
  <2>5. Suffix(i, dir) = below \/ (Suffix(i, dir) = below \o <<NoName>> /\ NoName \in STRING)
    BY <1>3, <2>3 DEF Suffix, n
  <2> HIDE DEF below
  <2>6. Named(Suffix(i, path)) = Named(below) \o <<name>>
    BY <2>2, <2>4, NamedAppends
  <2>7. Named(Suffix(i, dir)) = Named(below)
    BY <2>2, <2>5, NamedSkips
  <2>8. QED
    BY <2>6, <2>7
<1>9. file \o <<name>> = mounts[i].host \o Named(Suffix(i, path))
  <2>1. file = mounts[i].host \o Named(Suffix(i, dir))
    BY <1>1 DEF LeadsBy
  <2> DEFINE names == Named(Suffix(i, dir))
  <2>2. mounts[i].host \in Seq(STRING) /\ names \in Seq(STRING)
    BY <1>1, NamedFacts DEF MountRecord
  <2> HIDE DEF names
  <2>3. (mounts[i].host \o names) \o <<name>> = mounts[i].host \o (names \o <<name>>)
    <3>1. \A h, m \in Seq(STRING) : (h \o m) \o <<name>> = h \o (m \o <<name>>)
      OBVIOUS
    <3>2. QED
      BY <2>2, <3>1, Zenon
  <2>4. QED
    BY <1>8, <2>1, <2>3 DEF names
<1>10. ".." \notin ToSet(Named(Suffix(i, path)))
  <2>1. ".." \notin ToSet(Named(Suffix(i, dir)))
    BY <1>1 DEF LeadsBy
  <2>2. Named(Suffix(i, dir)) \in Seq(STRING)
    BY <1>1, NamedFacts
  <2>3. QED
    BY <1>8, <2>1, <2>2 DEF ToSet
<1>11. RootExists(mounts[i].host, Named(Suffix(i, path)))
  <2>1. Named(Suffix(i, dir)) \o <<name>> # <<>>
    BY <1>1, NamedFacts
  <2>2. mounts[i].host \in dirs \cup DOMAIN files
    BY <1>1 DEF LeadsBy, RootExists
  <2>3. QED
    BY <1>8, <2>1, <2>2 DEF RootExists
<1>12. QED
  BY <1>1, <1>5, <1>7, <1>9, <1>10, <1>11 DEF LeadsTo, LeadsBy, path

--------------------------------------------------------------------------------
(***************************************************************************)
(* The inductive invariant                                                 *)
(***************************************************************************)
Setup ==
    /\ RegistryTypeOK
    /\ IsFiniteSet(DOMAIN hosted)
    /\ phase = "building" => tools = hosted
    /\ phase = "built" =>
         /\ DiscoveryTools \subseteq DOMAIN tools
         /\ \A tool \in DiscoveryTools : tools[tool] = Builtin
         /\ \A tool \in DiscoveryTools, n \in Names \ Overridden :
              Reported(reports[tool], n) = ToolNamed(n)
         /\ \A tool \in {"list_tools", "current_policy"}, n \in Names \ Overridden :
              n \notin Twice(reports[tool])

Tree ==
    /\ dirs = HostDirs
    /\ \A file \in DOMAIN files :
         /\ file \in Seq(STRING) \ {<<>>} /\ file \notin dirs
         /\ Front(file) \in dirs
         /\ Last(file) \notin {NoName, ".", ".."}
         /\ files[file] \in Seq(STRING)

Working == [at : {"resolved", "opened", "reading"}, tool : FileTools, path : Paths,
            text : Seq(STRING), file : Seq(STRING), alone : BOOLEAN]

(* A tool that works on a file holds the one its path leads to. *)
WorkFacts(c) ==
    op[c].at \in {"resolved", "opened", "reading"} =>
        /\ op[c] \in Working
        /\ ToolNamed(op[c].tool) = Builtin
        /\ LeadsTo(op[c].path, op[c].tool = "write_text", op[c].file)

OpenFacts(c) ==
    op[c].at = "opened" =>
        /\ op[c].tool = "write_text"
        /\ op[c].file \in DOMAIN files
        /\ op[c].alone => files[op[c].file] = <<>> /\ Writers(op[c].file) = {c}

(* What a read that met no writer has of its file so far. *)
ReadFacts(c) ==
    op[c].at = "reading" =>
        /\ op[c].tool = "read_text"
        /\ op[c].file \in DOMAIN files
        /\ op[c].alone =>
             /\ Writers(op[c].file) = {}
             /\ Len(op[c].text) <= Len(files[op[c].file])
             /\ op[c].text = SubSeq(files[op[c].file], 1, Len(op[c].text))

(* The names are those of entries of the directory the path leads to. *)
ListedFrom(path, names) ==
    \E dir \in dirs : LeadsTo(path, FALSE, dir) /\ names \subseteq Children(dir)

AnswerFacts(c) ==
    op[c].at = "answered" =>
        /\ ToolNamed(op[c].tool) = None => op[c].tag = "UNKNOWN_TOOL"
        /\ op[c].tool \in {"list_tools", "current_policy"} /\ op[c].tag = "ok" =>
             op[c].value = reports[op[c].tool]
        /\ op[c].tool = "describe_tool" /\ op[c].tag \in {"ok", "UNKNOWN_TOOL"} =>
             op[c].value.maker = Reported(reports["describe_tool"], op[c].value.name)
        /\ op[c].tool = "list_dir" /\ op[c].tag = "ok" /\ ToolNamed("list_dir") = Builtin =>
             op[c].path \in Paths /\ ListedFrom(op[c].path, op[c].value.names)

EndFacts(c) ==
    op[c].at = "ended" =>
        /\ op[c].lang \in {"python", "typescript"} /\ op[c].caught \in BOOLEAN
        /\ op[c].registered \in BOOLEAN
        /\ ~op[c].registered => op[c].tag = "UNKNOWN_TOOL"
        /\ op[c].result =
             RunEnds(op[c].lang, op[c].tag, op[c].registered, op[c].caught, op[c].thrown)

CallFacts ==
    /\ DOMAIN op = Callers
    /\ made \in 0..MaxCalls
    /\ \A c \in Callers :
         /\ op[c].at \in {"idle", "resolved", "opened", "reading", "answered", "ended"}
         /\ op[c].at # "idle" => phase = "built"
         /\ WorkFacts(c)
         /\ OpenFacts(c)
         /\ ReadFacts(c)
         /\ AnswerFacts(c)
         /\ EndFacts(c)

History ==
    \/ last = NoWrite
    \/ /\ phase = "built"
       /\ last.path \in Paths
       /\ LeadsTo(last.path, TRUE, last.file)
       /\ last.file \in DOMAIN files
       /\ files[last.file] = last.text
       /\ Writers(last.file) = {}

IInv == Setup /\ Tree /\ CallFacts /\ History

--------------------------------------------------------------------------------
(***************************************************************************)
(* The registry                                                            *)
(***************************************************************************)
LEMMA RegisteredTyped ==
    ASSUME NEW registry \in Registry, NEW names \in SUBSET Names, NEW maker \in Makers
    PROVE  Registered(registry, names, maker) \in Registry
<1>1. PICK held \in SUBSET Names : registry \in [held -> Makers]
  BY DEF Registry
<1>2. Registered(registry, names, maker) \in [held \cup names -> Makers]
  BY <1>1 DEF Registered
<1>3. held \cup names \in SUBSET Names
  OBVIOUS
<1>4. QED
  BY <1>2, <1>3 DEF Registry

LEMMA BuiltinNames ==
    /\ FileTools \in SUBSET Names /\ HttpTools \in SUBSET Names
    /\ DiscoveryTools \in SUBSET Names
    /\ \A n \in DiscoveryTools : n \notin FileTools \cup HttpTools
    /\ Builtin \in Makers
  BY RegistryAssumption DEF Names, FileTools, HttpTools, DiscoveryTools, Builtin, Makers

(* The tools of the library that come before those of discovery. *)
LEMMA ToolsBefore ==
    ASSUME NEW registry \in Registry, NEW table, NEW hosts,
           NEW before, before = WithHttpTools(WithFileTools(registry, table), hosts)
    PROVE  /\ before \in Registry
           /\ \A n \in DiscoveryTools : n \in DOMAIN before <=> n \in DOMAIN registry
<1>1. /\ WithFileTools(registry, table) \in Registry
      /\ \A n \in DiscoveryTools :
            n \in DOMAIN WithFileTools(registry, table) <=> n \in DOMAIN registry
  <2>1. Registered(registry, FileTools, Builtin) \in Registry
    BY RegisteredTyped, BuiltinNames
  <2>2. DOMAIN Registered(registry, FileTools, Builtin) = DOMAIN registry \cup FileTools
    BY DEF Registered
  <2>3. QED
    BY <2>1, <2>2, BuiltinNames DEF WithFileTools
<1>2. PICK withFiles \in Registry : withFiles = WithFileTools(registry, table)
  BY <1>1
<1>3. Registered(withFiles, HttpTools, Builtin) \in Registry
  BY RegisteredTyped, BuiltinNames
<1>4. DOMAIN Registered(withFiles, HttpTools, Builtin) = DOMAIN withFiles \cup HttpTools
  BY DEF Registered
<1>5. before = IF hosts = {} THEN withFiles ELSE Registered(withFiles, HttpTools, Builtin)
  BY <1>2 DEF WithHttpTools
<1>6. QED
  BY <1>1, <1>2, <1>3, <1>4, <1>5, BuiltinNames

(* What the tools of discovery are made with is what there will be. *)
LEMMA DiscoveryTold ==
    ASSUME NEW registry \in Registry, NEW build, build = WithDiscovery(registry)
    PROVE  /\ build.tools \in Registry /\ build.reports \in [DiscoveryTools -> Report]
           /\ DiscoveryTools \subseteq DOMAIN build.tools
           /\ \A tool \in DiscoveryTools : build.tools[tool] = Builtin
           /\ \A tool \in DiscoveryTools, n \in Names :
                 n \in DOMAIN registry \cap DiscoveryTools
                 \/ Reported(build.reports[tool], n) =
                       IF n \in DOMAIN build.tools THEN build.tools[n] ELSE None
           /\ \A tool \in {"list_tools", "current_policy"}, n \in Names :
                 n \in DOMAIN registry \cap DiscoveryTools
                 \/ n \notin Twice(build.reports[tool])
<1> DEFINE withList == Registered(registry, {"list_tools"}, Builtin)
<1> DEFINE withDescribe == Registered(withList, {"describe_tool"}, Builtin)
<1> DEFINE withPolicy == Registered(withDescribe, {"current_policy"}, Builtin)
<1>1. withList \in Registry /\ withDescribe \in Registry /\ withPolicy \in Registry
  <2>1. /\ {"list_tools"} \in SUBSET Names /\ {"describe_tool"} \in SUBSET Names
        /\ {"current_policy"} \in SUBSET Names /\ Builtin \in Makers
    BY BuiltinNames DEF DiscoveryTools
  <2>2. withList \in Registry
    BY <2>1, RegisteredTyped
  <2> HIDE DEF withList
  <2>3. withDescribe \in Registry
    BY <2>1, <2>2, RegisteredTyped
  <2> HIDE DEF withDescribe
  <2>4. withPolicy \in Registry
    BY <2>1, <2>3, RegisteredTyped
  <2>5. QED
    BY <2>2, <2>3, <2>4
<1>2. /\ withList = [n \in DOMAIN registry \cup {"list_tools"} |->
                        IF n \in {"list_tools"} THEN Builtin ELSE registry[n]]
      /\ withDescribe = [n \in DOMAIN withList \cup {"describe_tool"} |->
                        IF n \in {"describe_tool"} THEN Builtin ELSE withList[n]]
      /\ withPolicy = [n \in DOMAIN withDescribe \cup {"current_policy"} |->
                        IF n \in {"current_policy"} THEN Builtin ELSE withDescribe[n]]
  BY DEF Registered
<1>3. /\ build.tools = withPolicy
      /\ build.reports = [n \in DiscoveryTools |->
            CASE n = "list_tools" -> [held |-> registry, appended |-> DiscoveryTools]
              [] n = "describe_tool" ->
                   [held |-> withList, appended |-> {"describe_tool", "current_policy"}]
              [] n = "current_policy" ->
                   [held |-> withDescribe, appended |-> {"current_policy"}]]
  BY DEF WithDiscovery
<1>4. /\ build.reports["list_tools"] = [held |-> registry, appended |-> DiscoveryTools]
      /\ build.reports["describe_tool"] =
           [held |-> withList, appended |-> {"describe_tool", "current_policy"}]
      /\ build.reports["current_policy"] =
           [held |-> withDescribe, appended |-> {"current_policy"}]
  BY <1>3 DEF DiscoveryTools
<1>5. build.reports \in [DiscoveryTools -> Report]
  <2>1. \A n \in DiscoveryTools : build.reports[n] \in Report
    BY <1>1, <1>4 DEF Report, DiscoveryTools
  <2>2. build.reports = [n \in DiscoveryTools |-> build.reports[n]]
    BY <1>3
  <2>3. QED
    BY <2>1, <2>2
<1> HIDE DEF withList, withDescribe, withPolicy
<1>6. /\ DOMAIN withList = DOMAIN registry \cup {"list_tools"}
      /\ DOMAIN withDescribe = DOMAIN registry \cup {"list_tools", "describe_tool"}
      /\ DOMAIN withPolicy = DOMAIN registry \cup DiscoveryTools
  BY <1>2 DEF DiscoveryTools
<1>7. /\ withList["list_tools"] = Builtin
      /\ withDescribe["list_tools"] = Builtin /\ withDescribe["describe_tool"] = Builtin
      /\ \A n \in DiscoveryTools : withPolicy[n] = Builtin
      /\ \A n \in DOMAIN registry \ DiscoveryTools :
            /\ withList[n] = registry[n] /\ withDescribe[n] = registry[n]
            /\ withPolicy[n] = registry[n]
  BY <1>2, <1>6 DEF DiscoveryTools
<1>8. ASSUME NEW n \in Names, ~(n \in DOMAIN registry \cap DiscoveryTools)
      PROVE  /\ \A tool \in DiscoveryTools :
                   Reported(build.reports[tool], n) =
                      IF n \in DOMAIN build.tools THEN build.tools[n] ELSE None
             /\ \A tool \in {"list_tools", "current_policy"} :
                   n \notin Twice(build.reports[tool])
  <2>1. Reported(build.reports["list_tools"], n) =
           IF n \in DOMAIN withPolicy THEN withPolicy[n] ELSE None
    BY <1>4, <1>6, <1>7, <1>8 DEF Reported, DiscoveryTools
  <2>2. Reported(build.reports["describe_tool"], n) =
           IF n \in DOMAIN withPolicy THEN withPolicy[n] ELSE None
    BY <1>4, <1>6, <1>7, <1>8 DEF Reported, DiscoveryTools
  <2>3. Reported(build.reports["current_policy"], n) =
           IF n \in DOMAIN withPolicy THEN withPolicy[n] ELSE None
    BY <1>4, <1>6, <1>7, <1>8 DEF Reported, DiscoveryTools
  <2>4. /\ n \notin Twice(build.reports["list_tools"])
        /\ n \notin Twice(build.reports["current_policy"])
    BY <1>4, <1>6, <1>8 DEF Twice, DiscoveryTools
  <2>5. QED
    BY <1>3, <2>1, <2>2, <2>3, <2>4 DEF DiscoveryTools
<1>9. QED
  BY <1>1, <1>3, <1>5, <1>6, <1>7, <1>8

LEMMA SetupInit == RegistryInit => Setup
<1> SUFFICES ASSUME RegistryInit PROVE Setup
  OBVIOUS
<1>1. Empty \in Registry
  <2>1. Empty \in [{} -> Makers] /\ {} \in SUBSET Names
    BY DEF Empty
  <2>2. QED
    BY <2>1 DEF Registry
<1>2. NoReport \in Report
  BY <1>1 DEF NoReport, Report
<1>3. RegistryTypeOK
  BY <1>1, <1>2 DEF RegistryInit, RegistryTypeOK
<1>4. IsFiniteSet(DOMAIN hosted)
  <2>1. DOMAIN hosted = {}
    BY DEF RegistryInit, Empty
  <2>2. QED
    BY <2>1, FS_EmptySet
<1>5. QED
  BY <1>3, <1>4 DEF RegistryInit, Setup

LEMMA SetupRegister == Setup /\ RegisterHostTool => Setup'
<1> SUFFICES ASSUME Setup, RegisterHostTool PROVE Setup'
  OBVIOUS
<1>1. PICK n \in HostNames :
        IF n \in BadNames
        THEN phase' = "refused" /\ UNCHANGED <<tools, hosted>>
        ELSE /\ tools' = Registered(tools, {n}, Cardinality(DOMAIN hosted) + 1)
             /\ hosted' = Registered(hosted, {n}, Cardinality(DOMAIN hosted) + 1)
             /\ UNCHANGED phase
  BY DEF RegisterHostTool
<1>2. /\ phase = "building" /\ UNCHANGED <<reports, mounts, allowed>>
      /\ Cardinality(DOMAIN hosted) < MaxRegistered
  BY DEF RegisterHostTool
<1>3. tools = hosted /\ tools \in Registry /\ RegistryTypeOK
  BY <1>2 DEF Setup, RegistryTypeOK
<1>4. CASE n \in BadNames
  BY <1>1, <1>2, <1>3, <1>4 DEF Setup, RegistryTypeOK
<1>5. CASE n \notin BadNames
  <2>1. {n} \in SUBSET Names
    BY <1>5 DEF Names
  <2>2. Cardinality(DOMAIN hosted) \in Nat
    <3>1. IsFiniteSet(DOMAIN hosted)
      BY DEF Setup
    <3>2. QED
      BY <3>1, FS_CardinalityType
  <2>3. Cardinality(DOMAIN hosted) + 1 \in Makers
    BY <1>2, <2>2, RegistryAssumption DEF Makers, Builtin
  <2>4. tools' \in Registry /\ hosted' = tools'
    BY <1>1, <1>3, <1>5, <2>1, <2>3, RegisteredTyped
  <2>5. IsFiniteSet(DOMAIN hosted')
    <3>1. DOMAIN hosted' = DOMAIN hosted \cup {n}
      BY <1>1, <1>5 DEF Registered
    <3>2. IsFiniteSet(DOMAIN hosted)
      BY DEF Setup
    <3>3. QED
      BY <3>1, <3>2, FS_AddElement
  <2>6. QED
    BY <1>1, <1>2, <1>3, <1>5, <2>4, <2>5 DEF Setup, RegistryTypeOK
<1>6. QED
  BY <1>4, <1>5

LEMMA SetupBuild == Setup /\ BuildTools => Setup'
<1> SUFFICES ASSUME Setup, BuildTools PROVE Setup'
  OBVIOUS
<1>1. PICK table \in MountTables \cup {<<>>}, hosts \in SUBSET HttpHosts :
        /\ tools' = WithBuiltins(tools, table, hosts).tools
        /\ reports' = WithBuiltins(tools, table, hosts).reports
        /\ mounts' = table
        /\ allowed' = hosts
  BY DEF BuildTools
<1>2. phase = "building" /\ phase' = "built" /\ UNCHANGED hosted
  BY DEF BuildTools
<1>3. tools = hosted /\ tools \in Registry /\ RegistryTypeOK
  BY <1>2 DEF Setup, RegistryTypeOK
<1>4. PICK registry \in Registry : registry = tools
  BY <1>3
<1>5. PICK before : before = WithHttpTools(WithFileTools(registry, table), hosts)
  OBVIOUS
<1>6. /\ before \in Registry
      /\ \A n \in DiscoveryTools : n \in DOMAIN before <=> n \in DOMAIN registry
  BY <1>5, ToolsBefore
<1>7. PICK built : built = WithDiscovery(before)
  OBVIOUS
<1>8. WithBuiltins(tools, table, hosts) = built
  BY <1>4, <1>5, <1>7 DEF WithBuiltins
<1>9. tools' = built.tools /\ reports' = built.reports
  BY <1>1, <1>8
<1>10. RegistryTypeOK'
  BY <1>1, <1>2, <1>3, <1>6, <1>7, <1>9, DiscoveryTold DEF RegistryTypeOK
<1>11. DiscoveryTools \subseteq DOMAIN tools' /\ \A tool \in DiscoveryTools : tools'[tool] = Builtin
  BY <1>6, <1>7, <1>9, DiscoveryTold
<1>12. ASSUME NEW n \in Names, n \notin DOMAIN hosted' \cap DiscoveryTools
       PROVE  ~(n \in DOMAIN before \cap DiscoveryTools)
  BY <1>2, <1>3, <1>4, <1>6, <1>12
<1>13. ASSUME NEW tool \in DiscoveryTools, NEW n \in Names, n \notin DOMAIN hosted' \cap DiscoveryTools
       PROVE  Reported(built.reports[tool], n) =
                 IF n \in DOMAIN built.tools THEN built.tools[n] ELSE None
  BY <1>6, <1>7, <1>12, <1>13, DiscoveryTold
<1>14. ASSUME NEW tool \in {"list_tools", "current_policy"}, NEW n \in Names,
              n \notin DOMAIN hosted' \cap DiscoveryTools
       PROVE  n \notin Twice(built.reports[tool])
  BY <1>6, <1>7, <1>12, <1>14, DiscoveryTold
<1>15. (\A tool \in DiscoveryTools, n \in Names \ Overridden :
           Reported(reports[tool], n) = ToolNamed(n))'
  BY <1>9, <1>13 DEF Reported, ToolNamed, Overridden
<1>16. (\A tool \in {"list_tools", "current_policy"}, n \in Names \ Overridden :
           n \notin Twice(reports[tool]))'
  BY <1>9, <1>14 DEF Twice, Overridden
<1>17. IsFiniteSet(DOMAIN hosted')
  BY <1>2 DEF Setup
<1>18. QED
  BY <1>2, <1>10, <1>11, <1>15, <1>16, <1>17 DEF Setup

LEMMA SetupKept == Setup /\ UNCHANGED registryVars => Setup'
<1> SUFFICES ASSUME Setup, UNCHANGED registryVars PROVE Setup'
  OBVIOUS
<1>1. RegistryTypeOK'
  BY DEF registryVars, Setup, RegistryTypeOK
<1>2. (\A tool \in DiscoveryTools, n \in Names \ Overridden :
           Reported(reports[tool], n) = ToolNamed(n))' \/ phase' # "built"
  BY DEF Setup, registryVars, Reported, ToolNamed, Overridden
<1>3. (\A tool \in {"list_tools", "current_policy"}, n \in Names \ Overridden :
           n \notin Twice(reports[tool]))' \/ phase' # "built"
  BY DEF Setup, registryVars, Twice, Overridden
<1>4. QED
  BY <1>1, <1>2, <1>3 DEF Setup, registryVars

--------------------------------------------------------------------------------
(***************************************************************************)
(* The calls                                                               *)
(***************************************************************************)
LEMMA WorkKept ==
    ASSUME NEW d, op'[d] = op[d], UNCHANGED <<tools, mounts, dirs>>,
           DOMAIN files \subseteq DOMAIN files', WorkFacts(d)
    PROVE  WorkFacts(d)'
<1>1. CASE op[d].at \in {"resolved", "opened", "reading"}
  <2>1. op'[d].at \in {"resolved", "opened", "reading"} /\ op'[d] \in Working
    BY <1>1 DEF WorkFacts
  <2>2. (ToolNamed(op[d].tool) = Builtin)'
    BY <1>1 DEF WorkFacts, ToolNamed
  <2>3. LeadsTo(op[d].path, op[d].tool = "write_text", op[d].file)'
    BY <1>1 DEF WorkFacts, LeadsTo, LeadsBy, Suffix, RootExists, Exists
  <2>4. QED
    BY <2>1, <2>2, <2>3 DEF WorkFacts
<1>2. CASE op[d].at \notin {"resolved", "opened", "reading"}
  BY <1>2 DEF WorkFacts
<1>3. QED
  BY <1>1, <1>2

LEMMA ChildrenKept ==
    ASSUME UNCHANGED dirs, DOMAIN files \subseteq DOMAIN files', NEW dir
    PROVE  Children(dir) \subseteq Children(dir)'
BY DEF Children

LEMMA AnswerKept ==
    ASSUME NEW d, op'[d] = op[d], UNCHANGED <<tools, reports, mounts, dirs>>,
           DOMAIN files \subseteq DOMAIN files', AnswerFacts(d)
    PROVE  AnswerFacts(d)'
<1> SUFFICES ASSUME op[d].at = "answered" PROVE AnswerFacts(d)'
  BY DEF AnswerFacts
<1>1. (ToolNamed(op[d].tool) = None)' => op'[d].tag = "UNKNOWN_TOOL"
  BY DEF AnswerFacts, ToolNamed
<1>2. op'[d].tool \in {"list_tools", "current_policy"} /\ op'[d].tag = "ok" =>
         op'[d].value = reports'[op'[d].tool]
  BY DEF AnswerFacts
<1>3. op'[d].tool = "describe_tool" /\ op'[d].tag \in {"ok", "UNKNOWN_TOOL"} =>
         (op[d].value.maker = Reported(reports["describe_tool"], op[d].value.name))'
  BY DEF AnswerFacts, Reported
<1>4. ASSUME op[d].tool = "list_dir", op[d].tag = "ok", (ToolNamed("list_dir") = Builtin)'
      PROVE  op'[d].path \in Paths /\ ListedFrom(op[d].path, op[d].value.names)'
  <2>1. ToolNamed("list_dir") = Builtin
    BY <1>4 DEF ToolNamed
  <2>2. PICK dir \in dirs : /\ LeadsTo(op[d].path, FALSE, dir)
                            /\ op[d].value.names \subseteq Children(dir)
    BY <1>4, <2>1 DEF AnswerFacts, ListedFrom
  <2>3. LeadsTo(op[d].path, FALSE, dir)'
    BY <2>2 DEF LeadsTo, LeadsBy, Suffix, RootExists, Exists
  <2>4. (op[d].value.names \subseteq Children(dir))'
    BY <2>2, ChildrenKept
  <2>5. op'[d].path \in Paths
    BY <1>4, <2>1 DEF AnswerFacts
  <2>6. QED
    BY <2>2, <2>3, <2>4, <2>5 DEF ListedFrom
<1>5. QED
  BY <1>1, <1>2, <1>3, <1>4 DEF AnswerFacts

LEMMA EndKept ==
    ASSUME NEW d, op'[d] = op[d], EndFacts(d)
    PROVE  EndFacts(d)'
BY DEF EndFacts, RunEnds, PythonEnds, TypeScriptEnds, ErrorFromJs

LEMMA ReadKept ==
    ASSUME NEW d, op'[d] = op[d], ReadFacts(d), DOMAIN files \subseteq DOMAIN files',
           NEW f, f = op[d].file, Writers(f)' \subseteq Writers(f),
           op[d].at = "reading" /\ op[d].alone => files'[f] = files[f]
    PROVE  ReadFacts(d)'
<1> SUFFICES ASSUME op[d].at = "reading" PROVE ReadFacts(d)'
  BY DEF ReadFacts
<1>1. /\ op[d].tool = "read_text" /\ f \in DOMAIN files'
      /\ op[d].alone =>
           /\ Writers(f)' = {}
           /\ Len(op[d].text) <= Len(files'[f])
           /\ op[d].text = SubSeq(files'[f], 1, Len(op[d].text))
  BY DEF ReadFacts
<1>2. op[d].alone => (Writers(op[d].file) = {})'
  BY <1>1 DEF Writers
<1>3. QED
  BY <1>1, <1>2 DEF ReadFacts

LEMMA LastKept ==
    ASSUME History, UNCHANGED <<phase, mounts, dirs, last>>,
           DOMAIN files \subseteq DOMAIN files',
           last # NoWrite => files'[last.file] = files[last.file] /\ Writers(last.file)' = {}
    PROVE  History'
<1>1. CASE last = NoWrite
  BY <1>1 DEF History, NoWrite
<1>2. CASE last # NoWrite
  <2>1. LeadsTo(last.path, TRUE, last.file)'
    BY <1>2 DEF History, LeadsTo, LeadsBy, Suffix, RootExists, Exists
  <2>2. (Writers(last.file) = {})'
    BY <1>2 DEF Writers
  <2>3. QED
    BY <1>2, <2>1, <2>2 DEF History
<1>3. QED
  BY <1>1, <1>2

(* A session goes on to a state in which it writes no file: what the other *)
(* sessions do is not touched by it.                                       *)
LEMMA CallStep ==
    ASSUME IInv, UNCHANGED registryVars, UNCHANGED <<dirs, files, last>>,
           NEW c \in Callers, NEW r, op' = [op EXCEPT ![c] = r],
           r.at \in {"idle", "resolved", "reading", "answered", "ended"},
           phase = "built", made' \in 0..MaxCalls,
           WorkFacts(c)', ReadFacts(c)', AnswerFacts(c)', EndFacts(c)'
    PROVE  IInv'
<1>1. Setup'
  BY SetupKept DEF IInv
<1>2. Tree'
  BY DEF IInv, Tree
<1>3. /\ op'[c] = r /\ DOMAIN op' = Callers
      /\ \A d \in Callers \ {c} : op'[d] = op[d]
  BY DEF IInv, CallFacts
<1>4. \A file : Writers(file)' = Writers(file) \ {c}
  BY <1>3 DEF Writers
<1>5. ASSUME NEW d \in Callers \ {c}
      PROVE  /\ op'[d].at \in {"idle", "resolved", "opened", "reading", "answered", "ended"}
             /\ WorkFacts(d)' /\ OpenFacts(d)' /\ ReadFacts(d)' /\ AnswerFacts(d)' /\ EndFacts(d)'
  <2>1. /\ op[d].at \in {"idle", "resolved", "opened", "reading", "answered", "ended"}
        /\ WorkFacts(d) /\ OpenFacts(d) /\ ReadFacts(d) /\ AnswerFacts(d) /\ EndFacts(d)
    BY DEF IInv, CallFacts
  <2>2. op'[d] = op[d] /\ UNCHANGED <<tools, reports, mounts>>
    BY <1>3 DEF registryVars
  <2>3. WorkFacts(d)' /\ AnswerFacts(d)' /\ EndFacts(d)'
    BY <2>1, <2>2, WorkKept, AnswerKept, EndKept
  <2>4. OpenFacts(d)'
    <3> SUFFICES ASSUME op[d].at = "opened" PROVE OpenFacts(d)'
      BY <2>2 DEF OpenFacts
    <3>1. op[d].alone => (Writers(op[d].file) = {d})'
      <4>1. PICK file : file = op[d].file
        OBVIOUS
      <4>2. op[d].alone => Writers(file)' = {d}
        BY <1>4, <2>1, <4>1 DEF OpenFacts
      <4>3. QED
        BY <2>2, <4>1, <4>2 DEF Writers
    <3>2. QED
      BY <2>1, <2>2, <3>1 DEF OpenFacts
  <2>5. ReadFacts(d)'
    <3>1. PICK f : f = op[d].file
      OBVIOUS
    <3>2. Writers(f)' \subseteq Writers(f) /\ files'[f] = files[f]
      BY <1>4
    <3>3. QED
      BY <2>1, <2>2, <3>1, <3>2, ReadKept
  <2>6. QED
    BY <2>1, <2>2, <2>3, <2>4, <2>5
<1>6. CallFacts'
  <2>1. OpenFacts(c)'
    BY <1>3 DEF OpenFacts
  <2>2. phase' = "built"
    BY DEF registryVars
  <2>3. QED
    BY <1>3, <1>5, <2>1, <2>2 DEF CallFacts
<1>7. History'
  <2>1. last # NoWrite => Writers(last.file)' = {}
    BY <1>4 DEF IInv, History
  <2>2. QED
    BY <2>1, LastKept DEF IInv, registryVars
<1>8. QED
  BY <1>1, <1>2, <1>6, <1>7 DEF IInv

LEMMA MountsNormal == Setup => NormalMounts
<1> SUFFICES ASSUME Setup PROVE NormalMounts
  OBVIOUS
<1>1. mounts \in MountTables \cup {<<>>}
  BY DEF Setup, RegistryTypeOK
<1>2. CASE mounts = <<>>
  BY <1>2 DEF NormalMounts
<1>3. CASE mounts \in MountTables
  BY <1>3, MountsAssumption DEF NormalMounts, MountRecord
<1>4. QED
  BY <1>1, <1>2, <1>3

LEMMA PureStep ==
    ASSUME IInv, phase = "built", UNCHANGED registryVars,
           NEW c \in Callers, NEW n, NEW tag, NEW value, CallPureTool(c, n, tag, value),
           ToolNamed(n) = None => tag = "UNKNOWN_TOOL",
           n \in {"list_tools", "current_policy"} /\ tag = "ok" => value = reports[n],
           n = "describe_tool" /\ tag \in {"ok", "UNKNOWN_TOOL"} =>
              value.maker = Reported(reports["describe_tool"], value.name),
           ~(n = "list_dir" /\ tag = "ok" /\ ToolNamed("list_dir") = Builtin)
    PROVE  IInv'
<1> DEFINE r == [at |-> "answered", tool |-> n, path |-> <<>>, tag |-> tag, value |-> value]
<1>1. /\ op' = [op EXCEPT ![c] = r] /\ made' = made + 1 /\ made < MaxCalls
      /\ UNCHANGED <<dirs, files, last>>
  BY DEF CallPureTool
<1>2. /\ r.at = "answered" /\ r.tool = n /\ r.tag = tag /\ r.value = value
  OBVIOUS
<1> HIDE DEF r
<1>3. op'[c] = r
  BY <1>1 DEF IInv, CallFacts
<1>4. made' \in 0..MaxCalls
  BY <1>1, FilesAssumption DEF IInv, CallFacts
<1>5. WorkFacts(c)' /\ ReadFacts(c)' /\ EndFacts(c)'
  BY <1>2, <1>3 DEF WorkFacts, ReadFacts, EndFacts
<1>6. AnswerFacts(c)'
  <2>1. (ToolNamed(op[c].tool) = None)' => op'[c].tag = "UNKNOWN_TOOL"
    BY <1>2, <1>3 DEF ToolNamed, registryVars
  <2>2. op'[c].tool \in {"list_tools", "current_policy"} /\ op'[c].tag = "ok" =>
           op'[c].value = reports'[op'[c].tool]
    BY <1>2, <1>3 DEF registryVars
  <2>3. op'[c].tool = "describe_tool" /\ op'[c].tag \in {"ok", "UNKNOWN_TOOL"} =>
           (op[c].value.maker = Reported(reports["describe_tool"], op[c].value.name))'
    BY <1>2, <1>3 DEF Reported, registryVars
  <2>4. ~(op'[c].tool = "list_dir" /\ op'[c].tag = "ok" /\ (ToolNamed("list_dir") = Builtin)')
    BY <1>2, <1>3 DEF ToolNamed, registryVars
  <2>5. QED
    BY <2>1, <2>2, <2>3, <2>4 DEF AnswerFacts
<1>7. QED
  BY <1>1, <1>2, <1>4, <1>5, <1>6, CallStep

(* A discovery tool that a session can call is the library's. *)
LEMMA DiscoveryBuiltin ==
    ASSUME Setup, phase = "built", NEW n \in DiscoveryTools
    PROVE  ToolNamed(n) = Builtin /\ ToolNamed(n) # None
BY RegistryAssumption DEF Setup, ToolNamed, Builtin, Makers

LEMMA CallUnknownKeeps ==
    ASSUME IInv, phase = "built", UNCHANGED registryVars, NEW c \in Callers, NEW n,
           CallUnknown(c, n)
    PROVE  IInv'
<1>1. ToolNamed(n) = None /\ CallPureTool(c, n, "UNKNOWN_TOOL", Nothing)
  BY DEF CallUnknown
<1>2. n \notin DiscoveryTools
  BY <1>1, DiscoveryBuiltin DEF IInv
<1>3. QED
  BY <1>1, <1>2, PureStep DEF DiscoveryTools

LEMMA CallHostToolKeeps ==
    ASSUME IInv, phase = "built", UNCHANGED registryVars, NEW c \in Callers, NEW n,
           CallHostTool(c, n)
    PROVE  IInv'
<1>1. PICK tag \in HostCodes \cup {"ok"} : CallPureTool(c, n, tag, [made_by |-> ToolNamed(n)])
  BY DEF CallHostTool
<1>2. ToolNamed(n) # None /\ ToolNamed(n) # Builtin
  BY DEF CallHostTool
<1>3. n \notin DiscoveryTools
  BY <1>2, DiscoveryBuiltin DEF IInv
<1>4. PICK value : CallPureTool(c, n, tag, value)
  BY <1>1
<1>5. QED
  BY <1>2, <1>3, <1>4, PureStep DEF DiscoveryTools

LEMMA BadArgumentsKeeps ==
    ASSUME IInv, phase = "built", UNCHANGED registryVars, NEW c \in Callers, NEW n,
           BadArguments(c, n)
    PROVE  IInv'
<1>1. ToolNamed(n) = Builtin /\ CallPureTool(c, n, "TYPE_ERROR", Nothing)
  BY DEF BadArguments
<1>2. ToolNamed(n) # None
  BY <1>1, RegistryAssumption DEF Builtin, Makers
<1>3. PICK tag : tag = "TYPE_ERROR"
  OBVIOUS
<1>4. CallPureTool(c, n, tag, Nothing) /\ tag \notin {"ok", "UNKNOWN_TOOL"}
  BY <1>1, <1>3
<1>5. QED
  BY <1>2, <1>4, PureStep

LEMMA FetchKeeps ==
    ASSUME IInv, phase = "built", UNCHANGED registryVars, NEW c \in Callers, NEW n,
           Fetch(c, n)
    PROVE  IInv'
<1>1. PICK host \in HttpHosts :
        CallPureTool(c, n, IF host \in allowed THEN "TOOL_ERROR" ELSE "PERMISSION_DENIED", Nothing)
  BY DEF Fetch
<1>2. PICK tag \in {"TOOL_ERROR", "PERMISSION_DENIED"} : CallPureTool(c, n, tag, Nothing)
  BY <1>1
<1>3. n \notin DiscoveryTools /\ n # "list_dir" /\ ToolNamed(n) # None
  BY RegistryAssumption DEF Fetch, HttpTools, DiscoveryTools, Builtin, Makers
<1>4. QED
  BY <1>2, <1>3, PureStep DEF DiscoveryTools

LEMMA DiscoverKeeps ==
    ASSUME IInv, phase = "built", UNCHANGED registryVars, NEW c \in Callers, NEW n,
           Discover(c, n)
    PROVE  IInv'
<1>1. n \in DiscoveryTools /\ ToolNamed(n) = Builtin
  BY DEF Discover
<1>2. ToolNamed(n) # None /\ n # "list_dir"
  BY <1>1, DiscoveryBuiltin DEF IInv, DiscoveryTools
<1>3. CASE n = "describe_tool"
  <2>1. PICK name \in Names :
          CallPureTool(c, n, IF Reported(reports[n], name) = None THEN "UNKNOWN_TOOL" ELSE "ok",
                       [name |-> name, maker |-> Reported(reports[n], name)])
    BY <1>3 DEF Discover
  <2>2. PICK value : value = [name |-> name, maker |-> Reported(reports[n], name)]
    OBVIOUS
  <2>3. PICK tag : tag = IF Reported(reports[n], name) = None THEN "UNKNOWN_TOOL" ELSE "ok"
    OBVIOUS
  <2>4. CallPureTool(c, n, tag, value)
    BY <2>1, <2>2, <2>3
  <2>5. value.maker = Reported(reports["describe_tool"], value.name)
    BY <1>3, <2>2
  <2>6. QED
    BY <1>2, <1>3, <2>4, <2>5, PureStep
<1>4. CASE n # "describe_tool"
  <2>1. CallPureTool(c, n, "ok", reports[n])
    BY <1>4 DEF Discover
  <2>2. PICK value : value = reports[n]
    OBVIOUS
  <2>3. CallPureTool(c, n, "ok", value)
    BY <2>1, <2>2
  <2>4. QED
    BY <1>2, <1>4, <2>2, <2>3, PureStep
<1>5. QED
  BY <1>3, <1>4

LEMMA CallFileToolKeeps ==
    ASSUME IInv, phase = "built", UNCHANGED registryVars, NEW c \in Callers, NEW n,
           CallBuiltinFileTool(c, n)
    PROVE  IInv'
<1>1. n \in FileTools /\ ToolNamed(n) = Builtin /\ CallFileTool(c, n, mounts)
  BY DEF CallBuiltinFileTool
<1>2. /\ made < MaxCalls /\ made' = made + 1 /\ UNCHANGED <<dirs, files, last>>
  BY <1>1 DEF CallFileTool
<1>3. made' \in 0..MaxCalls
  BY <1>2, FilesAssumption DEF IInv, CallFacts
<1>4. PICK path \in Paths, text \in IF n = "write_text" THEN Texts ELSE {<<>>} :
        op' = [op EXCEPT ![c] =
            IF Resolve(mounts, path, n = "write_text").ok
            THEN [at |-> "resolved", tool |-> n, path |-> path, text |-> text,
                  file |-> Resolve(mounts, path, n = "write_text").file, alone |-> TRUE]
            ELSE [at |-> "answered", tool |-> n, path |-> path,
                  tag |-> "PERMISSION_DENIED", value |-> Nothing]]
  BY <1>1 DEF CallFileTool
<1>5. PICK write \in BOOLEAN : write = (n = "write_text")
  OBVIOUS
<1>6. text \in Seq(STRING) /\ path \in Seq(STRING)
  <2>1. \A t \in Texts : t \in Seq(STRING)
    BY FilesAssumption
  <2>2. \A p \in Paths : p \in Seq(STRING)
    BY FilesAssumption
  <2>3. <<>> \in Seq(STRING)
    OBVIOUS
  <2>4. text \in Texts \/ text = <<>>
    BY <1>4
  <2>5. QED
    BY <2>1, <2>2, <2>3, <2>4, Zenon
<1>7. CASE Resolve(mounts, path, write).ok
  <2>1. PICK file : file = Resolve(mounts, path, write).file
    OBVIOUS
  <2>2. LeadsTo(path, write, file)
    BY <1>7, <2>1, ResolveLeads
  <2>3. file \in Seq(STRING)
    BY <1>6, <2>2, LeadsBelow, MountsNormal DEF IInv
  <2> DEFINE r == [at |-> "resolved", tool |-> n, path |-> path, text |-> text,
                   file |-> file, alone |-> TRUE]
  <2>4. op' = [op EXCEPT ![c] = r]
    BY <1>4, <1>5, <1>7, <2>1
  <2>5. r \in Working
    BY <1>1, <1>6, <2>3 DEF Working
  <2>6. /\ r.at = "resolved" /\ r.tool = n /\ r.path = path /\ r.file = file
    OBVIOUS
  <2> HIDE DEF r
  <2>7. op'[c] = r
    BY <2>4 DEF IInv, CallFacts
  <2>8. LeadsTo(path, write, file)'
    BY <1>2, <2>2 DEF LeadsTo, LeadsBy, Suffix, RootExists, Exists, registryVars
  <2>9. (ToolNamed(op[c].tool) = Builtin)'
    BY <1>1, <2>6, <2>7 DEF ToolNamed, registryVars
  <2>10. LeadsTo(op[c].path, op[c].tool = "write_text", op[c].file)'
    BY <1>5, <2>6, <2>7, <2>8 DEF LeadsTo, LeadsBy, Suffix, RootExists, Exists
  <2>11. WorkFacts(c)'
    BY <2>5, <2>7, <2>9, <2>10 DEF WorkFacts
  <2>12. ReadFacts(c)' /\ AnswerFacts(c)' /\ EndFacts(c)'
    BY <2>6, <2>7 DEF ReadFacts, AnswerFacts, EndFacts
  <2>13. QED
    BY <1>2, <1>3, <2>4, <2>6, <2>11, <2>12, CallStep
<1>8. CASE ~Resolve(mounts, path, write).ok
  <2> DEFINE r == [at |-> "answered", tool |-> n, path |-> path,
                   tag |-> "PERMISSION_DENIED", value |-> Nothing]
  <2>1. op' = [op EXCEPT ![c] = r]
    BY <1>4, <1>5, <1>8
  <2>2. r.at = "answered" /\ r.tool = n /\ r.tag = "PERMISSION_DENIED"
    OBVIOUS
  <2> HIDE DEF r
  <2>3. op'[c] = r
    BY <2>1 DEF IInv, CallFacts
  <2>4. WorkFacts(c)' /\ ReadFacts(c)' /\ EndFacts(c)'
    BY <2>2, <2>3 DEF WorkFacts, ReadFacts, EndFacts
  <2>5. (ToolNamed(op[c].tool) # None)'
    BY <1>1, <2>2, <2>3, RegistryAssumption DEF ToolNamed, registryVars, Makers, Builtin
  <2>6. AnswerFacts(c)'
    BY <2>2, <2>3, <2>5 DEF AnswerFacts
  <2>7. QED
    BY <1>2, <1>3, <2>1, <2>2, <2>4, <2>6, CallStep
<1>9. QED
  BY <1>7, <1>8

(* A call in a file tool ends with an answer. *)
LEMMA FileAnswerStep ==
    ASSUME IInv, UNCHANGED registryVars, NEW c \in Callers, NEW tag, NEW value,
           op[c].at \in {"resolved", "opened", "reading"}, Answer(c, tag, value),
           UNCHANGED <<dirs, files, made, last>>,
           tag # "ok" \/ op[c].tool # "list_dir" \/ ListedFrom(op[c].path, value.names)
    PROVE  IInv'
<1>1. /\ op[c] \in Working /\ ToolNamed(op[c].tool) = Builtin /\ phase = "built"
      /\ made \in 0..MaxCalls
  BY DEF IInv, CallFacts, WorkFacts
<1> DEFINE r == [at |-> "answered", tool |-> op[c].tool, path |-> op[c].path,
                 tag |-> tag, value |-> value]
<1>2. op' = [op EXCEPT ![c] = r]
  BY DEF Answer
<1>3. /\ r.at = "answered" /\ r.tool = op[c].tool /\ r.path = op[c].path
      /\ r.tag = tag /\ r.value = value
  OBVIOUS
<1> HIDE DEF r
<1>4. op'[c] = r
  BY <1>2 DEF IInv, CallFacts
<1>5. op[c].tool \in FileTools /\ op[c].path \in Paths
  BY <1>1 DEF Working
<1>6. WorkFacts(c)' /\ ReadFacts(c)' /\ EndFacts(c)'
  BY <1>3, <1>4 DEF WorkFacts, ReadFacts, EndFacts
<1>7. AnswerFacts(c)'
  <2>1. (ToolNamed(op[c].tool) # None)'
    BY <1>1, <1>3, <1>4, RegistryAssumption DEF ToolNamed, registryVars, Makers, Builtin
  <2>2. op'[c].tool \notin {"list_tools", "current_policy", "describe_tool"}
    BY <1>3, <1>4, <1>5 DEF FileTools
  <2>3. ASSUME op[c].tool = "list_dir", tag = "ok"
        PROVE  ListedFrom(op[c].path, op[c].value.names)'
    <3>1. PICK dir \in dirs : /\ LeadsTo(op[c].path, FALSE, dir)
                              /\ value.names \subseteq Children(dir)
      BY <2>3 DEF ListedFrom
    <3>2. LeadsTo(op[c].path, FALSE, dir)'
      BY <1>3, <1>4, <3>1 DEF LeadsTo, LeadsBy, Suffix, RootExists, Exists, registryVars
    <3>3. (op[c].value.names \subseteq Children(dir))'
      BY <1>3, <1>4, <3>1 DEF Children
    <3>4. QED
      BY <3>1, <3>2, <3>3 DEF ListedFrom
  <2>4. op'[c].path \in Paths
    BY <1>3, <1>4, <1>5
  <2>5. QED
    BY <1>3, <1>4, <2>1, <2>2, <2>3, <2>4 DEF AnswerFacts
<1>8. QED
  BY <1>1, <1>2, <1>3, <1>6, <1>7, CallStep

(* A tool that goes on with its file holds what its path leads to. *)
LEMMA WorkGoesOn ==
    ASSUME NEW d, UNCHANGED <<tools, mounts, dirs>>, DOMAIN files \subseteq DOMAIN files',
           op[d].at \in {"resolved", "opened", "reading"}, WorkFacts(d), op'[d] \in Working,
           op'[d].tool = op[d].tool, op'[d].path = op[d].path, op'[d].file = op[d].file
    PROVE  WorkFacts(d)'
<1>1. (ToolNamed(op[d].tool) = Builtin)'
  BY DEF WorkFacts, ToolNamed
<1>2. LeadsTo(op[d].path, op[d].tool = "write_text", op[d].file)'
  BY DEF WorkFacts, LeadsTo, LeadsBy, Suffix, RootExists, Exists
<1>3. QED
  BY <1>1, <1>2 DEF WorkFacts

(* A read that has its file open goes on with it. *)
LEMMA ReadingStep ==
    ASSUME IInv, UNCHANGED registryVars, NEW c \in Callers,
           op[c].at \in {"resolved", "opened", "reading"}, op[c].tool = "read_text",
           UNCHANGED <<dirs, files, made, last>>,
           NEW alone \in BOOLEAN, NEW text \in Seq(STRING),
           op' = [op EXCEPT ![c] = [op[c] EXCEPT !.at = "reading", !.alone = alone, !.text = text]],
           NEW file, file = op[c].file, file \in DOMAIN files,
           alone => /\ Writers(file) = {}
                    /\ Len(text) <= Len(files[file])
                    /\ text = SubSeq(files[file], 1, Len(text))
    PROVE  IInv'
<1>1. /\ op[c] \in Working /\ WorkFacts(c) /\ phase = "built" /\ made \in 0..MaxCalls
  BY DEF IInv, CallFacts, WorkFacts
<1> DEFINE r == [op[c] EXCEPT !.at = "reading", !.alone = alone, !.text = text]
<1>2. /\ r \in Working /\ r.at = "reading" /\ r.alone = alone /\ r.text = text
      /\ r.tool = op[c].tool /\ r.path = op[c].path /\ r.file = file
  BY <1>1 DEF Working
<1>3. op' = [op EXCEPT ![c] = r]
  OBVIOUS
<1> HIDE DEF r
<1>4. op'[c] = r
  BY <1>3 DEF IInv, CallFacts
<1>5. WorkFacts(c)'
  <2>1. UNCHANGED <<tools, mounts, dirs>> /\ DOMAIN files \subseteq DOMAIN files'
    BY DEF registryVars
  <2>2. QED
    BY <1>1, <1>2, <1>4, <2>1, WorkGoesOn
<1>6. ReadFacts(c)'
  <2>1. alone => (Writers(op[c].file) = {})'
    <3>1. Writers(file)' \subseteq Writers(file)
      BY <1>2, <1>3, <1>4 DEF Writers, IInv, CallFacts
    <3>2. QED
      BY <1>2, <1>4, <3>1 DEF Writers
  <2>2. QED
    BY <1>2, <1>4, <2>1 DEF ReadFacts
<1>7. AnswerFacts(c)' /\ EndFacts(c)'
  BY <1>2, <1>4 DEF AnswerFacts, EndFacts
<1>8. QED
  BY <1>1, <1>2, <1>3, <1>5, <1>6, <1>7, CallStep

LEMMA OpenToReadKeeps ==
    ASSUME IInv, UNCHANGED registryVars, NEW c \in Callers, OpenToRead(c)
    PROVE  IInv'
<1>1. /\ op[c].at = "resolved" /\ op[c].tool = "read_text"
      /\ UNCHANGED <<dirs, files, made, last>>
  BY DEF OpenToRead, Resolved
<1>2. op[c].tool # "list_dir" /\ op[c].at \in {"resolved", "opened", "reading"}
  BY <1>1
<1>3. CASE Answer(c, "TOOL_ERROR", Nothing)
  BY <1>1, <1>2, <1>3, FileAnswerStep
<1>4. CASE /\ op[c].file \in DOMAIN files
           /\ op' = [op EXCEPT ![c] = [op[c] EXCEPT !.at = "reading", !.text = <<>>,
                                                    !.alone = Writers(op[c].file) = {}]]
  <2>1. PICK file : file = op[c].file
    OBVIOUS
  <2>2. PICK alone \in BOOLEAN : alone = (Writers(file) = {})
    OBVIOUS
  <2>3. <<>> \in Seq(STRING)
    OBVIOUS
  <2>4. PICK text \in Seq(STRING) : text = <<>>
    BY <2>3
  <2>5. op' = [op EXCEPT ![c] = [op[c] EXCEPT !.at = "reading", !.alone = alone, !.text = text]]
    <3>1. op' = [op EXCEPT ![c] = [op[c] EXCEPT !.at = "reading", !.text = text, !.alone = alone]]
      BY <1>4, <2>1, <2>2, <2>4
    <3>2. op[c] \in Working
      BY <1>1 DEF IInv, CallFacts, WorkFacts
    <3>3. [op[c] EXCEPT !.at = "reading", !.text = text, !.alone = alone]
            = [op[c] EXCEPT !.at = "reading", !.alone = alone, !.text = text]
      BY <3>2 DEF Working
    <3>4. QED
      BY <3>1, <3>3
  <2>6. /\ Len(text) <= Len(files[file])
        /\ text = SubSeq(files[file], 1, Len(text))
    <3>1. files[file] \in Seq(STRING)
      BY <1>4, <2>1 DEF IInv, Tree
    <3>2. QED
      BY <2>4, <3>1
  <2>7. QED
    BY <1>1, <1>2, <1>4, <2>1, <2>2, <2>5, <2>6, ReadingStep
<1>5. QED
  BY <1>3, <1>4 DEF OpenToRead

LEMMA ReadOnKeeps ==
    ASSUME IInv, UNCHANGED registryVars, NEW c \in Callers, ReadOn(c)
    PROVE  IInv'
<1>1. op[c].at = "reading" /\ UNCHANGED <<dirs, files, made, last>>
  BY DEF ReadOn
<1>2. PICK file : file = op[c].file
  OBVIOUS
<1>3. /\ op[c] \in Working /\ op[c].tool = "read_text"
      /\ file \in DOMAIN files /\ files[file] \in Seq(STRING)
  BY <1>1, <1>2 DEF IInv, CallFacts, WorkFacts, ReadFacts, Tree
<1>4. op[c].tool # "list_dir" /\ op[c].at \in {"resolved", "opened", "reading"}
  BY <1>1, <1>3
<1>5. CASE Answer(c, "ok", [text |-> op[c].text])
  <2>1. PICK value : value = [text |-> op[c].text]
    OBVIOUS
  <2>2. Answer(c, "ok", value)
    BY <1>5, <2>1
  <2>3. QED
    BY <1>1, <1>4, <2>2, FileAnswerStep
<1>6. CASE /\ Len(op[c].text) < Len(files[file])
           /\ op' = [op EXCEPT ![c] = [op[c] EXCEPT !.text =
                                        Append(op[c].text, files[file][Len(op[c].text) + 1])]]
  <2>1. PICK text \in Seq(STRING) : text = op[c].text
    BY <1>3 DEF Working
  <2>2. PICK longer : longer = Append(text, files[file][Len(text) + 1])
    OBVIOUS
  <2>3. Len(text) \in Nat /\ Len(text) + 1 \in 1..Len(files[file])
    BY <1>3, <1>6, <2>1
  <2>4. longer \in Seq(STRING) /\ Len(longer) = Len(text) + 1
    BY <1>3, <2>2, <2>3
  <2>5. ASSUME op[c].alone
        PROVE  /\ Writers(file) = {} /\ Len(longer) <= Len(files[file])
               /\ longer = SubSeq(files[file], 1, Len(longer))
    <3>1. Writers(file) = {} /\ text = SubSeq(files[file], 1, Len(text))
      BY <1>1, <1>2, <2>1, <2>5 DEF IInv, CallFacts, ReadFacts
    <3>2. PICK whole \in Seq(STRING) : whole = files[file]
      BY <1>3
    <3>3. \A n \in 1..Len(text) : text[n] = whole[n]
      BY <2>3, <3>1, <3>2
    <3>4. \A n \in 1..Len(longer) : longer[n] = whole[n]
      BY <2>1, <2>2, <2>3, <2>4, <3>2, <3>3
    <3>5. longer = SubSeq(whole, 1, Len(longer))
      BY <2>3, <2>4, <3>2, <3>4
    <3>6. QED
      BY <2>3, <2>4, <3>1, <3>2, <3>5
  <2>6. PICK alone \in BOOLEAN : alone = op[c].alone
    BY <1>3 DEF Working
  <2>7. op' = [op EXCEPT ![c] = [op[c] EXCEPT !.at = "reading", !.alone = alone, !.text = longer]]
    <3>1. [op[c] EXCEPT !.at = "reading", !.alone = alone, !.text = longer]
            = [op[c] EXCEPT !.text = longer]
      BY <1>1, <1>3, <2>6 DEF Working
    <3>2. QED
      BY <1>6, <2>1, <2>2, <3>1
  <2>8. QED
    BY <1>1, <1>2, <1>3, <1>4, <2>4, <2>5, <2>6, <2>7, ReadingStep
<1>7. QED
  BY <1>2, <1>5, <1>6 DEF ReadOn

LEMMA ListDirKeeps ==
    ASSUME IInv, UNCHANGED registryVars, NEW c \in Callers, ListDir(c)
    PROVE  IInv'
<1>1. op[c].at = "resolved" /\ op[c].tool = "list_dir" /\ UNCHANGED <<dirs, files, made, last>>
  BY DEF ListDir, Resolved
<1>2. LeadsTo(op[c].path, FALSE, op[c].file)
  <2>1. LeadsTo(op[c].path, op[c].tool = "write_text", op[c].file)
    BY <1>1 DEF IInv, CallFacts, WorkFacts
  <2>2. (op[c].tool = "write_text") = FALSE
    BY <1>1
  <2>3. QED
    BY <2>1, <2>2
<1>3. CASE op[c].file \in dirs
  <2>1. PICK value : value = [names |-> Children(op[c].file)]
    OBVIOUS
  <2>2. Answer(c, "ok", value)
    BY <1>3, <2>1 DEF ListDir
  <2>3. value.names \subseteq Children(op[c].file)
    BY <2>1
  <2>4. ListedFrom(op[c].path, value.names)
    BY <1>2, <1>3, <2>3 DEF ListedFrom
  <2>5. op[c].at \in {"resolved", "opened", "reading"}
    BY <1>1
  <2>6. QED
    BY <1>1, <2>2, <2>4, <2>5, FileAnswerStep
<1>4. CASE op[c].file \notin dirs
  <2>1. Answer(c, "TOOL_ERROR", Nothing)
    BY <1>4 DEF ListDir
  <2>2. op[c].at \in {"resolved", "opened", "reading"} /\ "TOOL_ERROR" # "ok"
    BY <1>1
  <2>3. QED
    BY <1>1, <2>1, <2>2, FileAnswerStep
<1>5. QED
  BY <1>3, <1>4

LEMMA EndRunKeeps ==
    ASSUME IInv, UNCHANGED registryVars, NEW c \in Callers, EndRun(c)
    PROVE  IInv'
<1>1. /\ op[c].at = "answered" /\ op[c].tag # "ok" /\ UNCHANGED <<dirs, files, made, last>>
  BY DEF EndRun
<1>2. phase = "built" /\ made \in 0..MaxCalls /\ AnswerFacts(c)
  BY <1>1 DEF IInv, CallFacts
<1>3. PICK registered \in BOOLEAN : registered = (ToolNamed(op[c].tool) # None)
  OBVIOUS
<1>4. PICK tag : tag = op[c].tag
  OBVIOUS
<1>5. PICK lang \in {"python", "typescript"}, caught \in BOOLEAN, thrown \in Thrown :
        op' = [op EXCEPT ![c] =
            [at |-> "ended", lang |-> lang, tag |-> tag, caught |-> caught, thrown |-> thrown,
             registered |-> registered,
             result |-> RunEnds(lang, tag, registered, caught, thrown)]]
  <2>1. PICK lang \in {"python", "typescript"}, caught \in BOOLEAN :
          \E thrown \in IF lang = "typescript" /\ ~caught THEN Thrown ELSE {"something else"} :
             op' = [op EXCEPT ![c] =
               [at |-> "ended", lang |-> lang, tag |-> tag, caught |-> caught, thrown |-> thrown,
                registered |-> registered,
                result |-> RunEnds(lang, tag, registered, caught, thrown)]]
    BY <1>3, <1>4 DEF EndRun
  <2>2. (IF lang = "typescript" /\ ~caught THEN Thrown ELSE {"something else"}) \subseteq Thrown
    BY DEF Thrown
  <2>3. QED
    BY <2>1, <2>2, Zenon
<1>6. PICK result : result = RunEnds(lang, tag, registered, caught, thrown)
  OBVIOUS
<1> DEFINE r == [at |-> "ended", lang |-> lang, tag |-> tag, caught |-> caught,
                 thrown |-> thrown, registered |-> registered, result |-> result]
<1>7. op' = [op EXCEPT ![c] = r]
  BY <1>5, <1>6
<1>8. /\ r.at = "ended" /\ r.lang = lang /\ r.tag = tag /\ r.caught = caught
      /\ r.thrown = thrown /\ r.registered = registered /\ r.result = result
  OBVIOUS
<1> HIDE DEF r
<1>9. op'[c] = r
  BY <1>7 DEF IInv, CallFacts
<1>10. ~registered => tag = "UNKNOWN_TOOL"
  BY <1>1, <1>2, <1>3, <1>4 DEF AnswerFacts
<1>11. EndFacts(c)'
  <2>1. (op[c].result =
           RunEnds(op[c].lang, op[c].tag, op[c].registered, op[c].caught, op[c].thrown))'
    BY <1>6, <1>8, <1>9 DEF RunEnds, PythonEnds, TypeScriptEnds, ErrorFromJs
  <2>2. QED
    BY <1>8, <1>9, <1>10, <2>1 DEF EndFacts
<1>12. WorkFacts(c)' /\ ReadFacts(c)' /\ AnswerFacts(c)'
  BY <1>8, <1>9 DEF WorkFacts, ReadFacts, AnswerFacts
<1>13. QED
  BY <1>1, <1>2, <1>7, <1>8, <1>11, <1>12, CallStep

LEMMA DoneKeeps ==
    ASSUME IInv, UNCHANGED registryVars, NEW c \in Callers, Done(c)
    PROVE  IInv'
<1>1. /\ op[c].at # "idle" /\ op' = [op EXCEPT ![c] = Idle]
      /\ UNCHANGED <<dirs, files, made, last>>
  BY DEF Done
<1>2. phase = "built" /\ made \in 0..MaxCalls
  BY <1>1 DEF IInv, CallFacts
<1>3. op'[c] = Idle /\ Idle.at = "idle"
  BY <1>1 DEF IInv, CallFacts, Idle
<1>4. WorkFacts(c)' /\ ReadFacts(c)' /\ AnswerFacts(c)' /\ EndFacts(c)'
  BY <1>3 DEF WorkFacts, ReadFacts, AnswerFacts, EndFacts
<1>5. QED
  BY <1>1, <1>2, <1>3, <1>4, CallStep

--------------------------------------------------------------------------------
(***************************************************************************)
(* write_text                                                              *)
(***************************************************************************)

(* A file that can be written to has all its directories: create_dir_all   *)
(* finds nothing to make.                                                  *)
LEMMA AboveExists ==
    ASSUME Tree, NEW file \in Seq(STRING) \ {<<>>}, file \notin dirs,
           Exists(file) \/ Exists(Front(file)),
           \A n \in 1..(Len(file) - 1) : SubSeq(file, 1, n) \notin DOMAIN files
    PROVE  Front(file) \in dirs /\ \A n \in 1..(Len(file) - 1) : SubSeq(file, 1, n) \in dirs
<1>1. Front(file) \in dirs
  <2>1. CASE file \in DOMAIN files
    BY <2>1 DEF Tree
  <2>2. CASE Front(file) \in DOMAIN files
    <3>1. Front(file) # <<>>
      BY <2>2 DEF Tree
    <3>2. Len(file) - 1 \in 1..(Len(file) - 1)
      BY <3>1 DEF Front
    <3>3. QED
      BY <2>2, <3>2 DEF Front
  <2>3. QED
    BY <2>1, <2>2 DEF Exists
<1>2. ASSUME NEW n \in 1..(Len(file) - 1)
      PROVE  SubSeq(file, 1, n) \in dirs
  <2>1. Front(file) \in Seq(STRING) /\ Len(Front(file)) = Len(file) - 1
    BY DEF Front
  <2>2. SubSeq(Front(file), 1, n) = SubSeq(file, 1, n)
    BY DEF Front
  <2>3. SubSeq(Front(file), 1, n) \in dirs
    BY <1>1, <2>1, FilesAssumption DEF Tree
  <2>4. QED
    BY <2>2, <2>3
<1>3. QED
  BY <1>1, <1>2

(* What write_text finds when it may open its file. *)
LEMMA OpenedFacts ==
    ASSUME IInv, NEW c \in Callers, op[c].at = "resolved", op[c].tool = "write_text",
           NEW file, file = op[c].file, file \notin dirs,
           \A n \in 1..(Len(file) - 1) : SubSeq(file, 1, n) \notin DOMAIN files
    PROVE  /\ file \in Seq(STRING) \ {<<>>} /\ Last(file) \notin {NoName, ".", ".."}
           /\ Front(file) \in dirs
           /\ \A n \in 1..(Len(file) - 1) : SubSeq(file, 1, n) \in dirs
           /\ \E i \in DOMAIN mounts : mounts[i].writable /\ IsPrefix(mounts[i].host, file)
<1>1. op[c] \in Working /\ LeadsTo(op[c].path, op[c].tool = "write_text", op[c].file)
  BY DEF IInv, CallFacts, WorkFacts
<1>2. PICK path \in Seq(STRING) : path = op[c].path
  BY <1>1, FilesAssumption DEF Working
<1>3. LeadsTo(path, TRUE, file)
  BY <1>1, <1>2
<1>4. PICK i \in DOMAIN mounts :
        /\ LeadsBy(i, path, TRUE, file)
        /\ IsPrefix(mounts[i].host, file)
        /\ file \in Seq(STRING)
        /\ file # <<>> /\ Last(file) \notin {NoName, ".", ".."}
  BY <1>2, <1>3, LeadsBelow, MountsNormal DEF IInv
<1>5. mounts[i].writable /\ (Exists(file) \/ Exists(Front(file)))
  BY <1>4 DEF LeadsBy
<1>6. Front(file) \in dirs /\ \A n \in 1..(Len(file) - 1) : SubSeq(file, 1, n) \in dirs
  BY <1>4, <1>5, AboveExists DEF IInv
<1>7. QED
  BY <1>4, <1>5, <1>6

(* What happens when it opens it. *)
Opens(c, file) ==
    /\ op[c].at = "resolved" /\ op[c].tool = "write_text" /\ file = op[c].file
    /\ file \notin dirs
    /\ \A n \in 1..(Len(file) - 1) : SubSeq(file, 1, n) \notin DOMAIN files
    /\ dirs' = dirs \cup {SubSeq(file, 1, n) : n \in 1..(Len(file) - 1)}
    /\ files' = [f \in DOMAIN files \cup {file} |-> IF f = file THEN <<>> ELSE files[f]]
    /\ op' = [d \in Callers |->
                CASE d = c -> [op[c] EXCEPT !.at = "opened", !.alone = Writers(file) = {}]
                  [] d # c /\ d \in Users(file) -> [op[d] EXCEPT !.alone = FALSE]
                  [] OTHER -> op[d]]
    /\ last' = IF last.file = file THEN NoWrite ELSE last
    /\ UNCHANGED made

LEMMA OpenCases ==
    ASSUME NEW c \in Callers, OpenToWrite(c)
    PROVE  \/ /\ op[c].at = "resolved" /\ op[c].tool = "write_text"
              /\ Answer(c, "TOOL_ERROR", Nothing)
              /\ UNCHANGED <<dirs, files, made, last>>
           \/ Opens(c, op[c].file)
<1> DEFINE file == op[c].file
<1> DEFINE above == {SubSeq(file, 1, n) : n \in 1..(Len(file) - 1)}
<1> DEFINE Refused == file \in dirs \/ ~NamesFile(op[c].path) \/ above \cap DOMAIN files # {}
<1> DEFINE Opened ==
      /\ dirs' = dirs \cup above
      /\ files' = [f \in DOMAIN files \cup {file} |-> IF f = file THEN <<>> ELSE files[f]]
      /\ op' = [d \in Callers |->
                CASE d = c -> [op[c] EXCEPT !.at = "opened", !.alone = Writers(file) = {}]
                  [] d # c /\ d \in Users(file) -> [op[d] EXCEPT !.alone = FALSE]
                  [] OTHER -> op[d]]
      /\ last' = IF last.file = file THEN NoWrite ELSE last
<1>1. op[c].at = "resolved" /\ op[c].tool = "write_text" /\ UNCHANGED made
  BY DEF OpenToWrite, Resolved
<1>2. IF Refused THEN Answer(c, "TOOL_ERROR", Nothing) /\ UNCHANGED <<dirs, files, last>>
      ELSE Opened
  BY Zenon DEF OpenToWrite
<1>3. ~Refused => file \notin dirs /\ \A n \in 1..(Len(file) - 1) : SubSeq(file, 1, n) \notin DOMAIN files
  OBVIOUS
<1>4. Opens(c, file) <=>
        /\ op[c].at = "resolved" /\ op[c].tool = "write_text" /\ file = op[c].file
        /\ file \notin dirs
        /\ \A n \in 1..(Len(file) - 1) : SubSeq(file, 1, n) \notin DOMAIN files
        /\ Opened
        /\ UNCHANGED made
  BY Zenon DEF Opens
<1> HIDE DEF Refused, Opened
<1>5. QED
  BY <1>1, <1>2, <1>3, <1>4

LEMMA OpensKeeps ==
    ASSUME IInv, UNCHANGED registryVars, NEW c \in Callers, NEW file, Opens(c, file)
    PROVE  IInv'
<1>1. /\ op[c].at = "resolved" /\ op[c].tool = "write_text" /\ file = op[c].file
      /\ file \notin dirs
      /\ \A n \in 1..(Len(file) - 1) : SubSeq(file, 1, n) \notin DOMAIN files
      /\ UNCHANGED made
  BY DEF Opens
<1>2. /\ file \in Seq(STRING) \ {<<>>} /\ Last(file) \notin {NoName, ".", ".."}
      /\ Front(file) \in dirs
      /\ \A n \in 1..(Len(file) - 1) : SubSeq(file, 1, n) \in dirs
  BY <1>1, OpenedFacts
<1>3. UNCHANGED dirs
  <2>1. dirs' = dirs \cup {SubSeq(file, 1, n) : n \in 1..(Len(file) - 1)}
    BY DEF Opens
  <2>2. QED
    BY <1>2, <2>1
<1>4. /\ DOMAIN files' = DOMAIN files \cup {file} /\ files'[file] = <<>>
      /\ \A f \in DOMAIN files : f # file => files'[f] = files[f]
  BY DEF Opens
<1>5. op[c] \in Working /\ WorkFacts(c) /\ phase = "built"
  BY <1>1 DEF IInv, CallFacts, WorkFacts
<1>6. PICK alone \in BOOLEAN : alone = (Writers(file) = {})
  OBVIOUS
<1>7. /\ DOMAIN op' = Callers
      /\ op'[c] = [[op[c] EXCEPT !.at = "opened"] EXCEPT !.alone = alone]
      /\ \A d \in Callers \ {c} :
            op'[d] = IF d \in Users(file) THEN [op[d] EXCEPT !.alone = FALSE] ELSE op[d]
  BY <1>6 DEF Opens
<1>8. /\ op'[c] \in Working /\ op'[c].at = "opened" /\ op'[c].alone = alone
      /\ op'[c].tool = op[c].tool /\ op'[c].path = op[c].path /\ op'[c].file = file
  BY <1>1, <1>5, <1>7 DEF Working
<1>9. UNCHANGED <<phase, tools, reports, mounts>>
  BY DEF registryVars
<1>10. DOMAIN files \subseteq DOMAIN files'
  BY <1>4
<1>11. ASSUME NEW d \in Callers \ {c}, d \in Users(file)
       PROVE  /\ op[d].at \in {"opened", "reading"} /\ op[d] \in Working /\ op[d].file = file
              /\ op'[d] \in Working /\ op'[d].at = op[d].at /\ op'[d].alone = FALSE
              /\ op'[d].tool = op[d].tool /\ op'[d].path = op[d].path /\ op'[d].file = file
  <2>1. op[d].at \in {"opened", "reading"} /\ op[d].file = file
    BY <1>11 DEF Users
  <2>2. op[d] \in Working
    BY <2>1 DEF IInv, CallFacts, WorkFacts
  <2>3. op'[d] = [op[d] EXCEPT !.alone = FALSE]
    BY <1>7, <1>11
  <2>4. QED
    BY <2>1, <2>2, <2>3 DEF Working
<1>12. ASSUME NEW f
       PROVE  Writers(f)' = IF f = file THEN Writers(f) \cup {c} ELSE Writers(f)
  <2>1. c \notin Writers(f)
    BY <1>1 DEF Writers
  <2>2. ASSUME NEW d \in Callers \ {c}
        PROVE  op'[d].at = "opened" /\ op'[d].file = f <=> op[d].at = "opened" /\ op[d].file = f
    BY <1>7, <1>11, <2>2
  <2>3. op'[c].at = "opened" /\ op'[c].file = f <=> f = file
    BY <1>8
  <2>4. QED
    BY <2>1, <2>2, <2>3 DEF Writers
<1>13. Setup'
  BY SetupKept DEF IInv
<1>14. Tree'
  <2>1. ASSUME NEW f \in DOMAIN files'
        PROVE  /\ f \in Seq(STRING) \ {<<>>} /\ f \notin dirs
               /\ Front(f) \in dirs /\ Last(f) \notin {NoName, ".", ".."}
               /\ files'[f] \in Seq(STRING)
    <3>1. CASE f = file
      <4>1. <<>> \in Seq(STRING)
        OBVIOUS
      <4>2. files'[f] = <<>>
        BY <1>4, <3>1
      <4>3. QED
        BY <1>1, <1>2, <3>1, <4>1, <4>2
    <3>2. CASE f # file
      BY <1>4, <3>2 DEF IInv, Tree
    <3>3. QED
      BY <3>1, <3>2
  <2>2. QED
    BY <1>3, <2>1 DEF IInv, Tree
<1>15. ASSUME NEW d \in Callers
       PROVE  /\ op'[d].at \in {"idle", "resolved", "opened", "reading", "answered", "ended"}
              /\ WorkFacts(d)' /\ OpenFacts(d)' /\ ReadFacts(d)' /\ AnswerFacts(d)' /\ EndFacts(d)'
  <2>1. /\ op[d].at \in {"idle", "resolved", "opened", "reading", "answered", "ended"}
        /\ WorkFacts(d) /\ OpenFacts(d) /\ ReadFacts(d) /\ AnswerFacts(d) /\ EndFacts(d)
    BY DEF IInv, CallFacts
  <2>2. CASE d = c
    <3>1. WorkFacts(c)'
      BY <1>1, <1>3, <1>5, <1>8, <1>9, <1>10, WorkGoesOn
    <3>2. alone => Writers(file)' = {c}
      BY <1>6, <1>12
    <3>3. OpenFacts(c)'
      <4>1. alone => (Writers(op[c].file) = {c})'
        BY <1>8, <3>2 DEF Writers
      <4>2. QED
        BY <1>1, <1>4, <1>8, <4>1 DEF OpenFacts
    <3>4. ReadFacts(c)' /\ AnswerFacts(c)' /\ EndFacts(c)'
      BY <1>8 DEF ReadFacts, AnswerFacts, EndFacts
    <3>5. QED
      BY <1>8, <2>2, <3>1, <3>3, <3>4
  <2>3. CASE d # c /\ d \in Users(file)
    <3>1. /\ op[d].at \in {"opened", "reading"} /\ op[d].file = file
          /\ op'[d] \in Working /\ op'[d].at = op[d].at /\ op'[d].alone = FALSE
          /\ op'[d].tool = op[d].tool /\ op'[d].path = op[d].path /\ op'[d].file = file
      BY <1>11, <2>3
    <3>2. WorkFacts(d)'
      BY <1>3, <1>9, <1>10, <2>1, <3>1, WorkGoesOn
    <3>3. OpenFacts(d)'
      BY <1>4, <2>1, <3>1 DEF OpenFacts
    <3>4. AnswerFacts(d)' /\ EndFacts(d)'
      BY <3>1 DEF AnswerFacts, EndFacts
    <3>5. ReadFacts(d)'
      BY <1>4, <2>1, <3>1 DEF ReadFacts
    <3>6. QED
      BY <3>1, <3>2, <3>3, <3>4, <3>5
  <2>4. CASE d # c /\ d \notin Users(file)
    <3>1. op'[d] = op[d]
      BY <1>7, <2>4
    <3>2. WorkFacts(d)' /\ AnswerFacts(d)' /\ EndFacts(d)'
      BY <1>3, <1>9, <1>10, <2>1, <3>1, WorkKept, AnswerKept, EndKept
    <3>3. OpenFacts(d)'
      <4> SUFFICES ASSUME op[d].at = "opened" PROVE OpenFacts(d)'
        BY <3>1 DEF OpenFacts
      <4>1. PICK f : f = op[d].file
        OBVIOUS
      <4>2. f # file /\ f \in DOMAIN files /\ op[d].tool = "write_text"
        BY <2>1, <2>4, <4>1 DEF Users, OpenFacts
      <4>3. Writers(f)' = Writers(f) /\ files'[f] = files[f]
        BY <1>4, <1>12, <4>2
      <4>4. op[d].alone => files[f] = <<>> /\ Writers(f) = {d}
        BY <2>1, <4>1 DEF OpenFacts
      <4>5. op[d].alone => (Writers(op[d].file) = {d})'
        BY <3>1, <4>1, <4>3, <4>4 DEF Writers
      <4>6. QED
        BY <1>10, <3>1, <4>1, <4>2, <4>3, <4>4, <4>5 DEF OpenFacts
    <3>4. ReadFacts(d)'
      <4> SUFFICES ASSUME op[d].at = "reading" PROVE ReadFacts(d)'
        BY <3>1 DEF ReadFacts
      <4>1. PICK f : f = op[d].file
        OBVIOUS
      <4>2. f # file /\ f \in DOMAIN files
        BY <2>1, <2>4, <4>1 DEF Users, ReadFacts
      <4>3. Writers(f)' = Writers(f) /\ files'[f] = files[f]
        BY <1>4, <1>12, <4>2
      <4>4. QED
        BY <1>10, <2>1, <3>1, <4>1, <4>3, ReadKept
    <3>5. QED
      BY <2>1, <3>1, <3>2, <3>3, <3>4
  <2>5. QED
    BY <2>2, <2>3, <2>4
<1>16. CallFacts'
  <2>1. phase' = "built" /\ made' \in 0..MaxCalls
    BY <1>1, <1>5, <1>9 DEF IInv, CallFacts
  <2>2. QED
    BY <1>7, <1>15, <2>1 DEF CallFacts
<1>17. History'
  <2>1. last' = IF last.file = file THEN NoWrite ELSE last
    BY DEF Opens
  <2>2. CASE last.file = file
    BY <2>1, <2>2 DEF History, NoWrite
  <2>3. CASE last.file # file
    <3>1. last # NoWrite => files'[last.file] = files[last.file]
      BY <1>4, <2>3 DEF IInv, History
    <3>2. last # NoWrite => Writers(last.file)' = {}
      <4>1. PICK f : f = last.file
        OBVIOUS
      <4>2. last # NoWrite => Writers(f) = {}
        BY <4>1 DEF IInv, History
      <4>3. Writers(f)' = Writers(f)
        BY <1>12, <2>3, <4>1
      <4>4. last' = last
        BY <2>1, <2>3
      <4>5. QED
        BY <4>1, <4>2, <4>3, <4>4 DEF Writers
    <3>3. last' = last
      BY <2>1, <2>3
    <3>4. QED
      BY <1>3, <1>9, <1>10, <3>1, <3>2, <3>3, LastKept DEF IInv
  <2>4. QED
    BY <2>2, <2>3
<1>18. QED
  BY <1>13, <1>14, <1>16, <1>17 DEF IInv

LEMMA OpenToWriteKeeps ==
    ASSUME IInv, UNCHANGED registryVars, NEW c \in Callers, OpenToWrite(c)
    PROVE  IInv'
<1>1. CASE /\ op[c].at = "resolved" /\ op[c].tool = "write_text"
           /\ Answer(c, "TOOL_ERROR", Nothing)
           /\ UNCHANGED <<dirs, files, made, last>>
  <2>1. op[c].at \in {"resolved", "opened", "reading"} /\ op[c].tool # "list_dir"
    BY <1>1
  <2>2. QED
    BY <1>1, <2>1, FileAnswerStep
<1>2. CASE Opens(c, op[c].file)
  <2>1. PICK file : file = op[c].file
    OBVIOUS
  <2>2. Opens(c, file)
    BY <1>2, <2>1
  <2>3. QED
    BY <2>2, OpensKeeps
<1>3. QED
  BY <1>1, <1>2, OpenCases

LEMMA WriteKeeps ==
    ASSUME IInv, UNCHANGED registryVars, NEW c \in Callers, Write(c)
    PROVE  IInv'
<1>1. op[c].at = "opened" /\ UNCHANGED <<dirs, made>>
  BY DEF Write
<1>2. /\ op[c] \in Working /\ WorkFacts(c) /\ OpenFacts(c) /\ op[c].tool = "write_text"
      /\ phase = "built" /\ made \in 0..MaxCalls
  BY <1>1 DEF IInv, CallFacts, WorkFacts, OpenFacts
<1>3. CASE Answer(c, "TOOL_ERROR", Nothing) /\ UNCHANGED <<files, last>>
  <2>1. op[c].at \in {"resolved", "opened", "reading"} /\ op[c].tool # "list_dir"
    BY <1>1, <1>2
  <2>2. UNCHANGED <<dirs, files, made, last>>
    BY <1>1, <1>3
  <2>3. QED
    BY <1>3, <2>1, <2>2, FileAnswerStep
<1>4. CASE /\ files' = [files EXCEPT ![op[c].file] = Overwritten(@, op[c].text)]
           /\ Answer(c, "ok", Nothing)
           /\ last' = IF op[c].alone
                      THEN [path |-> op[c].path, file |-> op[c].file, text |-> op[c].text]
                      ELSE last
  <2>1. PICK file, path, text : file = op[c].file /\ path = op[c].path /\ text = op[c].text
    OBVIOUS
  <2>2. /\ file \in DOMAIN files /\ path \in Paths /\ text \in Seq(STRING)
        /\ op[c].alone => files[file] = <<>> /\ Writers(file) = {c}
    BY <1>1, <1>2, <2>1 DEF OpenFacts, Working
  <2>3. /\ DOMAIN files' = DOMAIN files
        /\ files'[file] = Overwritten(files[file], text)
        /\ \A f \in DOMAIN files : f # file => files'[f] = files[f]
    BY <1>4, <2>1, <2>2
  <2>4. op[c].alone => files'[file] = text
    <3>1. text \o SubSeq(<<>>, Len(text) + 1, Len(<<>>)) = text
      BY <2>2
    <3>2. QED
      BY <2>2, <2>3, <3>1 DEF Overwritten
  <2> DEFINE r == [at |-> "answered", tool |-> op[c].tool, path |-> op[c].path,
                   tag |-> "ok", value |-> Nothing]
  <2>5. op' = [op EXCEPT ![c] = r]
    BY <1>4 DEF Answer
  <2>6. r.at = "answered" /\ r.tool = "write_text"
    BY <1>2
  <2> HIDE DEF r
  <2>7. /\ op'[c] = r /\ DOMAIN op' = Callers
        /\ \A d \in Callers \ {c} : op'[d] = op[d]
    BY <2>5 DEF IInv, CallFacts
  <2>8. UNCHANGED <<phase, tools, reports, mounts>> /\ DOMAIN files \subseteq DOMAIN files'
    BY <2>3 DEF registryVars
  <2>9. \A f : Writers(f)' = Writers(f) \ {c}
    BY <2>6, <2>7 DEF Writers
  <2>10. Setup'
    BY SetupKept DEF IInv
  <2>11. Tree'
    <3>1. files'[file] \in Seq(STRING)
      <4>1. PICK old \in Seq(STRING) : old = files[file]
        BY <2>2 DEF IInv, Tree
      <4>2. SubSeq(old, Len(text) + 1, Len(old)) \in Seq(STRING)
        <5>1. Len(text) \in Nat
          BY <2>2
        <5>2. QED
          BY <5>1
      <4>3. QED
        BY <2>2, <2>3, <4>1, <4>2 DEF Overwritten
    <3>2. \A f \in DOMAIN files : files'[f] \in Seq(STRING)
      BY <2>3, <3>1 DEF IInv, Tree
    <3>3. QED
      BY <1>1, <2>3, <3>2 DEF IInv, Tree
  <2>12. /\ WorkFacts(c)' /\ OpenFacts(c)' /\ ReadFacts(c)' /\ EndFacts(c)'
    BY <2>6, <2>7 DEF WorkFacts, OpenFacts, ReadFacts, EndFacts
  <2>13. AnswerFacts(c)'
    <3>1. (ToolNamed(op[c].tool) # None)'
      <4>1. ToolNamed(op[c].tool) = Builtin
        BY <1>1, <1>2 DEF WorkFacts
      <4>2. QED
        BY <1>2, <2>6, <2>7, <2>8, <4>1, RegistryAssumption DEF ToolNamed, Makers, Builtin
    <3>2. QED
      BY <2>6, <2>7, <3>1 DEF AnswerFacts
  <2>14. ASSUME NEW d \in Callers \ {c}
         PROVE  /\ op'[d].at \in {"idle", "resolved", "opened", "reading", "answered", "ended"}
                /\ WorkFacts(d)' /\ OpenFacts(d)' /\ ReadFacts(d)' /\ AnswerFacts(d)' /\ EndFacts(d)'
    <3>1. /\ op[d].at \in {"idle", "resolved", "opened", "reading", "answered", "ended"}
          /\ WorkFacts(d) /\ OpenFacts(d) /\ ReadFacts(d) /\ AnswerFacts(d) /\ EndFacts(d)
      BY DEF IInv, CallFacts
    <3>2. op'[d] = op[d]
      BY <2>7
    <3>3. WorkFacts(d)' /\ AnswerFacts(d)' /\ EndFacts(d)'
      BY <1>1, <2>8, <3>1, <3>2, WorkKept, AnswerKept, EndKept
    <3>4. OpenFacts(d)'
      <4> SUFFICES ASSUME op[d].at = "opened" PROVE OpenFacts(d)'
        BY <3>2 DEF OpenFacts
      <4>1. PICK f : f = op[d].file
        OBVIOUS
      <4>2. f \in DOMAIN files /\ op[d].tool = "write_text"
        BY <3>1, <4>1 DEF OpenFacts
      <4>3. ASSUME op[d].alone
            PROVE  files'[f] = <<>> /\ Writers(f)' = {d}
        <5>1. files[f] = <<>> /\ Writers(f) = {d}
          BY <3>1, <4>1, <4>3 DEF OpenFacts
        <5>2. c \in Writers(file)
          BY <1>1, <2>1 DEF Writers
        <5>3. f # file
          BY <5>1, <5>2
        <5>4. QED
          BY <2>3, <2>9, <4>2, <5>1, <5>3
      <4>4. op[d].alone => (Writers(op[d].file) = {d})'
        BY <3>2, <4>1, <4>3 DEF Writers
      <4>5. QED
        BY <2>8, <3>2, <4>1, <4>2, <4>3, <4>4 DEF OpenFacts
    <3>5. ReadFacts(d)'
      <4>1. PICK f : f = op[d].file
        OBVIOUS
      <4>2. Writers(f)' \subseteq Writers(f)
        BY <2>9
      <4>3. ASSUME op[d].at = "reading", op[d].alone
            PROVE  files'[f] = files[f]
        <5>1. f \in DOMAIN files /\ Writers(f) = {}
          BY <3>1, <4>1, <4>3 DEF ReadFacts
        <5>2. c \in Writers(file)
          BY <1>1, <2>1 DEF Writers
        <5>3. QED
          BY <2>3, <5>1, <5>2
      <4>4. QED
        BY <2>8, <3>1, <3>2, <4>1, <4>2, <4>3, ReadKept
    <3>6. QED
      BY <3>1, <3>2, <3>3, <3>4, <3>5
  <2>15. CallFacts'
    BY <1>1, <1>2, <2>6, <2>7, <2>8, <2>12, <2>13, <2>14 DEF CallFacts
  <2>16. History'
    <3>1. CASE op[c].alone
      <4>1. last' = [path |-> path, file |-> file, text |-> text]
        BY <1>4, <2>1, <3>1
      <4>2. last'.path = path /\ last'.file = file /\ last'.text = text
        BY <4>1
      <4>3. LeadsTo(path, TRUE, file)
        <5>1. LeadsTo(op[c].path, op[c].tool = "write_text", op[c].file)
          BY <1>1, <1>2 DEF WorkFacts
        <5>2. QED
          BY <1>2, <2>1, <5>1
      <4>4. LeadsTo(last.path, TRUE, last.file)'
        BY <1>1, <2>8, <4>2, <4>3 DEF LeadsTo, LeadsBy, Suffix, RootExists, Exists
      <4>5. Writers(file)' = {}
        BY <2>2, <2>9, <3>1
      <4>6. (Writers(last.file) = {})'
        BY <4>2, <4>5 DEF Writers
      <4>7. QED
        BY <1>2, <2>2, <2>3, <2>4, <2>8, <3>1, <4>2, <4>4, <4>6 DEF History
    <3>2. CASE ~op[c].alone
      <4>1. last' = last
        BY <1>4, <3>2
      <4>2. PICK f : f = last.file
        OBVIOUS
      <4>3. ASSUME last # NoWrite
            PROVE  files'[f] = files[f] /\ Writers(f)' = {}
        <5>1. f \in DOMAIN files /\ Writers(f) = {}
          BY <4>2, <4>3 DEF IInv, History
        <5>2. c \in Writers(file)
          BY <1>1, <2>1 DEF Writers
        <5>3. QED
          BY <2>3, <2>9, <5>1, <5>2
      <4>4. last # NoWrite => files'[last.file] = files[last.file] /\ Writers(last.file)' = {}
        BY <4>1, <4>2, <4>3 DEF Writers
      <4>5. QED
        BY <1>1, <2>8, <4>1, <4>4, LastKept DEF IInv
    <3>3. QED
      BY <3>1, <3>2
  <2>17. QED
    BY <2>10, <2>11, <2>15, <2>16 DEF IInv
<1>5. QED
  BY <1>3, <1>4 DEF Write

--------------------------------------------------------------------------------
LEMMA InitHolds == Init => IInv
<1> SUFFICES ASSUME Init PROVE IInv
  OBVIOUS
<1>1. Setup
  BY SetupInit DEF Init
<1>2. Tree
  <2>1. dirs = HostDirs /\ files = HostFiles
    BY DEF Init, FilesInit
  <2>2. ASSUME NEW file \in DOMAIN files
        PROVE  /\ file \in Seq(STRING) \ {<<>>} /\ file \notin dirs
               /\ Front(file) \in dirs /\ Last(file) \notin {NoName, ".", ".."}
               /\ files[file] \in Seq(STRING)
    <3>1. /\ file \in Seq(STRING) \ {<<>>} /\ file \notin HostDirs
          /\ files[file] \in Seq(STRING)
          /\ Front(file) \in HostDirs /\ ToSet(file) \cap {NoName, ".", ".."} = {}
      BY <2>1, FilesAssumption
    <3>2. Len(file) \in DOMAIN file
      BY <3>1
    <3>3. Last(file) \in ToSet(file)
      BY <3>2 DEF Last, ToSet
    <3>4. QED
      BY <2>1, <3>1, <3>3
  <2>3. QED
    BY <2>1, <2>2 DEF Tree
<1>3. CallFacts
  <2>1. DOMAIN op = Callers /\ \A c \in Callers : op[c].at = "idle"
    BY DEF Init, FilesInit, Idle
  <2>2. made \in 0..MaxCalls
    BY FilesAssumption DEF Init, FilesInit
  <2>3. QED
    BY <2>1, <2>2 DEF CallFacts, WorkFacts, OpenFacts, ReadFacts, AnswerFacts, EndFacts
<1>4. History
  BY DEF Init, FilesInit, History
<1>5. QED
  BY <1>1, <1>2, <1>3, <1>4 DEF IInv

(* While the registry is filled no session calls, and nothing was written. *)
LEMMA SettingUpKeeps ==
    ASSUME IInv, RegisterHostTool \/ BuildTools, UNCHANGED fileVars
    PROVE  IInv'
<1>1. phase = "building" /\ UNCHANGED <<dirs, files, op, made, last>>
  BY DEF RegisterHostTool, BuildTools, fileVars
<1>2. Setup'
  BY SetupRegister, SetupBuild DEF IInv
<1>3. Tree'
  BY <1>1 DEF IInv, Tree
<1>4. CallFacts'
  <2>1. \A c \in Callers : op[c].at = "idle"
    BY <1>1 DEF IInv, CallFacts
  <2>2. DOMAIN op' = Callers /\ made' \in 0..MaxCalls /\ \A c \in Callers : op'[c].at = "idle"
    BY <1>1, <2>1 DEF IInv, CallFacts
  <2>3. QED
    BY <2>2 DEF CallFacts, WorkFacts, OpenFacts, ReadFacts, AnswerFacts, EndFacts
<1>5. History'
  <2>1. last = NoWrite
    BY <1>1 DEF IInv, History
  <2>2. QED
    BY <1>1, <2>1 DEF History, NoWrite
<1>6. QED
  BY <1>2, <1>3, <1>4, <1>5 DEF IInv

LEMMA StutterKeeps ==
    ASSUME IInv, UNCHANGED vars
    PROVE  IInv'
<1>1. UNCHANGED registryVars /\ UNCHANGED <<dirs, files, op, made, last>>
  BY DEF vars, fileVars
<1>2. UNCHANGED <<phase, tools, reports, mounts>> /\ DOMAIN files \subseteq DOMAIN files'
  BY <1>1 DEF registryVars
<1>3. Setup'
  BY <1>1, SetupKept DEF IInv
<1>4. Tree'
  BY <1>1 DEF IInv, Tree
<1>5. ASSUME NEW c \in Callers
      PROVE  /\ op'[c].at \in {"idle", "resolved", "opened", "reading", "answered", "ended"}
             /\ op'[c].at # "idle" => phase' = "built"
             /\ WorkFacts(c)' /\ OpenFacts(c)' /\ ReadFacts(c)' /\ AnswerFacts(c)' /\ EndFacts(c)'
  <2>1. /\ op[c].at \in {"idle", "resolved", "opened", "reading", "answered", "ended"}
        /\ op[c].at # "idle" => phase = "built"
        /\ WorkFacts(c) /\ OpenFacts(c) /\ ReadFacts(c) /\ AnswerFacts(c) /\ EndFacts(c)
    BY DEF IInv, CallFacts
  <2>2. op'[c] = op[c]
    BY <1>1
  <2>3. WorkFacts(c)' /\ AnswerFacts(c)' /\ EndFacts(c)'
    BY <1>1, <1>2, <2>1, <2>2, WorkKept, AnswerKept, EndKept
  <2>4. OpenFacts(c)' /\ ReadFacts(c)'
    BY <1>1, <2>1 DEF OpenFacts, ReadFacts, Writers
  <2>5. QED
    BY <1>2, <2>1, <2>2, <2>3, <2>4
<1>6. CallFacts'
  BY <1>1, <1>5 DEF IInv, CallFacts
<1>7. History'
  <2>1. last # NoWrite => files'[last.file] = files[last.file] /\ Writers(last.file)' = {}
    BY <1>1 DEF IInv, History, Writers
  <2>2. QED
    BY <1>1, <1>2, <2>1, LastKept DEF IInv
<1>8. QED
  BY <1>3, <1>4, <1>6, <1>7 DEF IInv

LEMMA NextKeeps == IInv /\ [Next]_vars => IInv'
<1> SUFFICES ASSUME IInv, [Next]_vars PROVE IInv'
  OBVIOUS
<1>1. CASE (RegisterHostTool \/ BuildTools) /\ UNCHANGED fileVars
  BY <1>1, SettingUpKeeps
<1>2. ASSUME NEW c \in Callers, Call(c), UNCHANGED registryVars
      PROVE  IInv'
  <2>1. phase = "built"
    BY <1>2 DEF Call
  <2>2. PICK n \in Names :
          \/ CallUnknown(c, n)
          \/ CallHostTool(c, n)
          \/ BadArguments(c, n)
          \/ CallBuiltinFileTool(c, n)
          \/ Fetch(c, n)
          \/ Discover(c, n)
    BY <1>2 DEF Call
  <2>3. QED
    BY <1>2, <2>1, <2>2, CallUnknownKeeps, CallHostToolKeeps, BadArgumentsKeeps,
       CallFileToolKeeps, FetchKeeps, DiscoverKeeps
<1>3. ASSUME NEW c \in Callers, Continue(c), UNCHANGED registryVars
      PROVE  IInv'
  BY <1>3, EndRunKeeps, OpenToReadKeeps, ReadOnKeeps, ListDirKeeps, OpenToWriteKeeps, WriteKeeps, DoneKeeps
     DEF Continue
<1>4. CASE UNCHANGED vars
  BY <1>4, StutterKeeps
<1>5. QED
  BY <1>1, <1>2, <1>3, <1>4 DEF Next

(* The invariant: for every host, what the sessions hold is what the       *)
(* registry, the mounts and the host's tree say.                           *)
THEOREM InvariantHolds == Spec => []IInv
<1>1. Init => IInv
  BY InitHolds
<1>2. IInv /\ [Next]_vars => IInv'
  BY NextKeeps
<1>3. QED
  BY <1>1, <1>2, PTL DEF Spec

--------------------------------------------------------------------------------
(***************************************************************************)
(* The properties                                                          *)
(***************************************************************************)

(* What the discovery tools tell a session is what it gets when it calls,  *)
(* whatever the host has registered and in whichever order.                *)
THEOREM DiscoveryFaithfulHolds == Spec => []DiscoveryFaithful
<1>1. IInv => DiscoveryFaithful
  <2> SUFFICES ASSUME IInv, NEW c \in Callers, NEW n \in Names \ Overridden
               PROVE  /\ \A tool \in {"list_tools", "current_policy"} :
                           Answered(c, tool, "ok") =>
                              /\ Reported(op[c].value, n) = ToolNamed(n)
                              /\ n \notin Twice(op[c].value)
                      /\ Answered(c, "describe_tool", "ok")
                            \/ Answered(c, "describe_tool", "UNKNOWN_TOOL") =>
                           op[c].value.name # n \/ op[c].value.maker = ToolNamed(n)
    BY DEF DiscoveryFaithful
  <2>1. op[c].at = "answered" => phase = "built" /\ AnswerFacts(c)
    BY DEF IInv, CallFacts
  <2>2. phase = "built" =>
          /\ \A tool \in DiscoveryTools : Reported(reports[tool], n) = ToolNamed(n)
          /\ \A tool \in {"list_tools", "current_policy"} : n \notin Twice(reports[tool])
    BY DEF IInv, Setup
  <2>3. ASSUME NEW tool \in {"list_tools", "current_policy"}, Answered(c, tool, "ok")
        PROVE  Reported(op[c].value, n) = ToolNamed(n) /\ n \notin Twice(op[c].value)
    <3>1. op[c].value = reports[tool] /\ phase = "built"
      BY <2>1, <2>3 DEF Answered, AnswerFacts
    <3>2. tool \in DiscoveryTools
      BY DEF DiscoveryTools
    <3>3. QED
      BY <2>2, <3>1, <3>2
  <2>4. ASSUME Answered(c, "describe_tool", "ok") \/ Answered(c, "describe_tool", "UNKNOWN_TOOL"),
               op[c].value.name = n
        PROVE  op[c].value.maker = ToolNamed(n)
    <3>1. op[c].value.maker = Reported(reports["describe_tool"], n) /\ phase = "built"
      BY <2>1, <2>4 DEF Answered, AnswerFacts
    <3>2. "describe_tool" \in DiscoveryTools
      BY DEF DiscoveryTools
    <3>3. QED
      BY <2>2, <3>1, <3>2
  <2>5. QED
    BY <2>3, <2>4
<1>2. QED
  BY <1>1, InvariantHolds, PTL

(* No failure that a tool answers with and the code does not catch is lost, *)
(* and no run is told of a cause that neither a tool's code nor the text it *)
(* has thrown names, whichever codes the host's tools use.                 *)
THEOREM ErrorsToldHolds == Spec => []ErrorsTold
<1>1. IInv => ErrorsTold
  <2> SUFFICES ASSUME IInv, NEW c \in Callers, op[c].at = "ended"
               PROVE  LET run == op[c]
                          kept == {"PERMISSION_DENIED", "UNKNOWN_TOOL", "TIMEOUT_TOOL",
                                   "TIMEOUT_WALL"}
                      IN /\ run.result.status = "ok" => run.caught /\ run.lang = "python"
                         /\ run.lang = "python" /\ ~run.caught /\ run.tag \in kept =>
                              run.result.status = CodeToStatus(run.tag)
                         /\ run.result.status \notin {"ok", "runtime_error"} =>
                              \/ run.result.status = CodeToStatus(run.tag)
                              \/ /\ run.lang = "typescript" /\ ~run.caught
                                 /\ run.thrown # "something else"
    BY DEF ErrorsTold
  <2>1. EndFacts(c)
    BY DEF IInv, CallFacts
  <2>2. PICK lang, tag, caught, thrown, registered, result :
          /\ lang = op[c].lang /\ tag = op[c].tag /\ caught = op[c].caught
          /\ thrown = op[c].thrown
          /\ registered = op[c].registered /\ result = op[c].result
    OBVIOUS
  <2>3. /\ lang \in {"python", "typescript"} /\ caught \in BOOLEAN /\ registered \in BOOLEAN
        /\ ~registered => tag = "UNKNOWN_TOOL"
        /\ result = RunEnds(lang, tag, registered, caught, thrown)
    BY <2>1, <2>2 DEF EndFacts
  <2>4. CASE lang = "python" /\ ~registered
    <3>1. result.status = "validation_error" /\ CodeToStatus(tag) = "validation_error"
      BY <2>3, <2>4 DEF RunEnds, PythonEnds, Failed, CodeToStatus
    <3>2. QED
      BY <2>2, <2>4, <3>1
  <2>5. CASE lang = "python" /\ registered /\ caught
    <3>1. result.status = "ok"
      BY <2>3, <2>5 DEF RunEnds, PythonEnds
    <3>2. QED
      BY <2>2, <2>5, <3>1
  <2>6. CASE lang = "python" /\ registered /\ ~caught
    <3>1. result.status = CodeToStatus(ErrorFromException(ErrorObjectToException(tag)))
      BY <2>3, <2>6 DEF RunEnds, PythonEnds, Failed
    <3>2. \/ CodeToStatus(ErrorFromException(ErrorObjectToException(tag))) = CodeToStatus(tag)
          \/ /\ tag \notin {"PERMISSION_DENIED", "UNKNOWN_TOOL", "TIMEOUT_TOOL", "TIMEOUT_WALL"}
             /\ CodeToStatus(ErrorFromException(ErrorObjectToException(tag))) = "runtime_error"
      BY DEF CodeToStatus, ErrorFromException, ErrorObjectToException
    <3>3. CodeToStatus(tag) # "ok"
      BY DEF CodeToStatus
    <3>4. QED
      BY <2>2, <2>6, <3>1, <3>2, <3>3
  <2>7. CASE lang = "typescript"
    <3>1. result.status = CodeToStatus(IF caught THEN tag ELSE ErrorFromJs(thrown))
      BY <2>3, <2>7 DEF RunEnds, TypeScriptEnds, Failed
    <3>2. /\ CodeToStatus(tag) # "ok" /\ CodeToStatus(ErrorFromJs(thrown)) # "ok"
          /\ CodeToStatus(ErrorFromJs("something else")) = "runtime_error"
      BY DEF CodeToStatus, ErrorFromJs
    <3>3. QED
      BY <2>2, <2>3, <2>7, <3>1, <3>2
  <2>8. QED
    BY <2>3, <2>4, <2>5, <2>6, <2>7
<1>2. QED
  BY <1>1, InvariantHolds, PTL

(* The names list_dir gives lead somewhere, whatever the tree, the mounts  *)
(* and what is written meanwhile.                                          *)
THEOREM ListedReachableHolds == Spec => []ListedReachable
<1>1. IInv => TypeOK
  <2> SUFFICES ASSUME IInv PROVE TypeOK
    OBVIOUS
  <2>1. \A file \in dirs : \A n \in 1..Len(file) : SubSeq(file, 1, n) \in dirs
    BY FilesAssumption DEF IInv, Tree
  <2>2. \A file \in DOMAIN files : file \notin dirs /\ Front(file) \in dirs
    BY DEF IInv, Tree
  <2>3. last = NoWrite \/ last.file \in DOMAIN files
    BY DEF IInv, History
  <2>4. RegistryTypeOK /\ made \in 0..MaxCalls
    BY DEF IInv, Setup, CallFacts
  <2>5. \A c \in Callers : op[c].at \in {"idle", "resolved", "opened", "reading", "answered", "ended"}
    BY DEF IInv, CallFacts
  <2>6. QED
    BY <2>1, <2>2, <2>3, <2>4, <2>5 DEF TypeOK
<1>2. IInv => \A c \in Callers :
         Answered(c, "list_dir", "ok") /\ ToolNamed("list_dir") = Builtin =>
            \A name \in op[c].value.names :
               \/ \E i \in DOMAIN mounts :
                     mounts[i].root \in {<<NoName, NoName>>, PathOf(op[c].path, name)}
               \/ /\ Resolve(mounts, PathOf(op[c].path, name), FALSE).ok
                  /\ Exists(Resolve(mounts, PathOf(op[c].path, name), FALSE).file)
  <2> SUFFICES ASSUME IInv, NEW c \in Callers, Answered(c, "list_dir", "ok"),
                      ToolNamed("list_dir") = Builtin, NEW name \in op[c].value.names,
                      \A i \in DOMAIN mounts :
                         mounts[i].root \notin {<<NoName, NoName>>, PathOf(op[c].path, name)}
               PROVE  /\ Resolve(mounts, PathOf(op[c].path, name), FALSE).ok
                      /\ Exists(Resolve(mounts, PathOf(op[c].path, name), FALSE).file)
    OBVIOUS
  <2>1. op[c].path \in Paths /\ ListedFrom(op[c].path, op[c].value.names)
    BY DEF IInv, CallFacts, AnswerFacts, Answered
  <2>2. PICK path \in Seq(STRING) : path = op[c].path
    BY <2>1, FilesAssumption
  <2>3. PICK dir \in dirs : LeadsTo(path, FALSE, dir) /\ name \in Children(dir)
    BY <2>1, <2>2 DEF ListedFrom
  <2>4. PICK file \in dirs \cup DOMAIN files : file # <<>> /\ Front(file) = dir /\ Last(file) = name
    BY <2>3 DEF Children
  <2>5. file \in Seq(STRING) /\ name \notin {NoName, ".", ".."}
    <3>1. CASE file \in dirs
      <4>1. file \in Seq(STRING) /\ ToSet(file) \cap {NoName, ".", ".."} = {}
        BY <3>1, FilesAssumption DEF IInv, Tree
      <4>2. Len(file) \in DOMAIN file
        BY <2>4, <4>1
      <4>3. Last(file) \in ToSet(file)
        BY <4>2 DEF Last, ToSet
      <4>4. QED
        BY <2>4, <4>1, <4>3
    <3>2. CASE file \in DOMAIN files
      BY <2>4, <3>2 DEF IInv, Tree
    <3>3. QED
      BY <3>1, <3>2
  <2>6. file = dir \o <<name>> /\ name \in STRING
    <3>1. Len(file) \in Nat \ {0}
      BY <2>4, <2>5
    <3>2. Last(file) \in STRING
      BY <2>5, <3>1 DEF Last
    <3>3. file = Front(file) \o <<Last(file)>>
      BY <2>5, <3>1 DEF Front, Last
    <3>4. QED
      BY <2>4, <3>2, <3>3
  <2>7. Exists(dir \o <<name>>)
    BY <2>4, <2>6 DEF Exists
  <2>8. \A i \in DOMAIN mounts :
           mounts[i].root # <<NoName, NoName>> /\ mounts[i].root # PathOf(path, name)
    BY <2>2
  <2>9. LeadsTo(PathOf(path, name), FALSE, dir \o <<name>>)
    BY <2>3, <2>5, <2>6, <2>7, <2>8, ListedLeads, MountsNormal DEF IInv
  <2>10. PICK p, f, read : p = PathOf(path, name) /\ f = dir \o <<name>> /\ read = FALSE
    OBVIOUS
  <2>11. PICK r : r = Resolve(mounts, p, read)
    OBVIOUS
  <2>12. r.ok /\ r.file = f
    <3>1. LeadsTo(p, read, f)
      BY <2>9, <2>10, Zenon
    <3>2. QED
      BY <2>11, <3>1, LeadsAnswers
  <2>13. Exists(r.file)
    BY <2>7, <2>10, <2>12
  <2>14. PathOf(op[c].path, name) = p
    BY <2>2, <2>10
  <2>15. Resolve(mounts, PathOf(op[c].path, name), FALSE) = r
    BY <2>10, <2>11, <2>14, Zenon
  <2>16. QED
    BY <2>12, <2>13, <2>15
<1>3. IInv => ListedReachable
  BY <1>1, <1>2 DEF ListedReachable, PathOf
<1>4. QED
  BY <1>3, InvariantHolds, PTL

(* A tool that writes has its file below a mount that may be written to. *)
LEMMA WriterBelow ==
    ASSUME IInv, NEW c \in Callers, op[c].at \in {"resolved", "opened", "reading"},
           op[c].tool = "write_text", NEW file, file = op[c].file
    PROVE  \E i \in DOMAIN mounts : mounts[i].writable /\ IsPrefix(mounts[i].host, file)
<1>1. op[c] \in Working /\ LeadsTo(op[c].path, op[c].tool = "write_text", op[c].file)
  BY DEF IInv, CallFacts, WorkFacts
<1>2. PICK path \in Seq(STRING) : path = op[c].path
  BY <1>1, FilesAssumption DEF Working
<1>3. LeadsTo(path, TRUE, file)
  BY <1>1, <1>2
<1>4. PICK i \in DOMAIN mounts : LeadsBy(i, path, TRUE, file) /\ IsPrefix(mounts[i].host, file)
  BY <1>2, <1>3, LeadsBelow, MountsNormal DEF IInv
<1>5. QED
  BY <1>4 DEF LeadsBy

(* What a step may change of the host's tree: nothing, or one file. *)
Touched(file) ==
    /\ UNCHANGED dirs
    /\ DOMAIN files \subseteq DOMAIN files' /\ DOMAIN files' \subseteq DOMAIN files \cup {file}
    /\ \A f \in DOMAIN files : f # file => files'[f] = files[f]
    /\ \E i \in DOMAIN mounts : mounts[i].writable /\ IsPrefix(mounts[i].host, file)

LEMMA StepsTouch ==
    ASSUME IInv, Next
    PROVE  UNCHANGED <<dirs, files>> \/ \E file : Touched(file)
<1>1. CASE UNCHANGED fileVars
  BY <1>1 DEF fileVars
<1>2. ASSUME NEW c \in Callers, Call(c)
      PROVE  UNCHANGED <<dirs, files>>
  BY <1>2 DEF Call, CallUnknown, CallHostTool, BadArguments, CallBuiltinFileTool, CallFileTool,
     Fetch, Discover, CallPureTool
<1>3. ASSUME NEW c \in Callers, EndRun(c) \/ OpenToRead(c) \/ ReadOn(c) \/ ListDir(c) \/ Done(c)
      PROVE  UNCHANGED <<dirs, files>>
  BY <1>3 DEF EndRun, OpenToRead, ReadOn, ListDir, Done
<1>4. ASSUME NEW c \in Callers, OpenToWrite(c)
      PROVE  UNCHANGED <<dirs, files>> \/ \E file : Touched(file)
  <2>1. CASE UNCHANGED <<dirs, files, made, last>>
    BY <2>1
  <2>2. CASE Opens(c, op[c].file)
    <3>1. PICK file : file = op[c].file
      OBVIOUS
    <3>2. Opens(c, file)
      BY <2>2, <3>1
    <3>3. /\ op[c].at = "resolved" /\ op[c].tool = "write_text" /\ file \notin dirs
          /\ \A n \in 1..(Len(file) - 1) : SubSeq(file, 1, n) \notin DOMAIN files
          /\ dirs' = dirs \cup {SubSeq(file, 1, n) : n \in 1..(Len(file) - 1)}
          /\ files' = [f \in DOMAIN files \cup {file} |-> IF f = file THEN <<>> ELSE files[f]]
      BY <3>2 DEF Opens
    <3>4. /\ \A n \in 1..(Len(file) - 1) : SubSeq(file, 1, n) \in dirs
          /\ \E i \in DOMAIN mounts : mounts[i].writable /\ IsPrefix(mounts[i].host, file)
      BY <3>1, <3>3, OpenedFacts
    <3>5. UNCHANGED dirs
      BY <3>3, <3>4
    <3>6. Touched(file)
      BY <3>3, <3>4, <3>5 DEF Touched
    <3>7. QED
      BY <3>6
  <2>3. QED
    BY <1>4, <2>1, <2>2, OpenCases
<1>5. ASSUME NEW c \in Callers, Write(c)
      PROVE  UNCHANGED <<dirs, files>> \/ \E file : Touched(file)
  <2>1. op[c].at = "opened" /\ UNCHANGED dirs
    BY <1>5 DEF Write
  <2>2. PICK file : file = op[c].file
    OBVIOUS
  <2>3. op[c].tool = "write_text"
    BY <2>1 DEF IInv, CallFacts, OpenFacts
  <2>4. \E i \in DOMAIN mounts : mounts[i].writable /\ IsPrefix(mounts[i].host, file)
    BY <2>1, <2>2, <2>3, WriterBelow
  <2>5. UNCHANGED files \/ files' = [files EXCEPT ![file] = Overwritten(@, op[c].text)]
    BY <1>5, <2>2 DEF Write
  <2>6. UNCHANGED files \/ Touched(file)
    BY <2>1, <2>4, <2>5 DEF Touched
  <2>7. QED
    BY <2>1, <2>6
<1>6. QED
  BY <1>1, <1>2, <1>3, <1>4, <1>5 DEF Next, Continue

(* The host's tree changes in one file at a time, below a directory that    *)
(* is mounted for writing, and no directory appears.                       *)
THEOREM ConfinedHolds == Spec => Confined
<1> DEFINE Step ==
      /\ \A file \in DOMAIN files \cup DOMAIN files' :
            \/ file \in DOMAIN files \cap DOMAIN files' /\ files'[file] = files[file]
            \/ \E i \in DOMAIN mounts : mounts[i].writable /\ IsPrefix(mounts[i].host, file)
      /\ dirs' = dirs
<1>1. IInv /\ [Next]_vars => [Step]_vars
  <2> SUFFICES ASSUME IInv, Next PROVE Step
    OBVIOUS
  <2>1. CASE UNCHANGED <<dirs, files>>
    BY <2>1
  <2>2. ASSUME NEW touched, Touched(touched)
        PROVE  Step
    <3>1. ASSUME NEW file \in DOMAIN files \cup DOMAIN files', file # touched
          PROVE  file \in DOMAIN files \cap DOMAIN files' /\ files'[file] = files[file]
      BY <2>2, <3>1 DEF Touched
    <3>2. dirs' = dirs /\ \E i \in DOMAIN mounts :
                             mounts[i].writable /\ IsPrefix(mounts[i].host, touched)
      BY <2>2 DEF Touched
    <3>3. QED
      BY <3>1, <3>2
  <2>3. QED
    BY <2>1, <2>2, StepsTouch
<1>2. QED
  BY <1>1, InvariantHolds, PTL DEF Spec, Confined

(* What was written is what is read, whatever the path and the session, for *)
(* as long as nobody writes to the file.                                   *)
THEOREM ReadsLastHolds == Spec => ReadsLast
<1> DEFINE Step ==
      \A c \in Callers :
         /\ op[c].at \in {"resolved", "reading"} /\ op[c].tool = "read_text"
         /\ op'[c].at = "answered"
         /\ op[c].alone /\ NamesFile(op[c].path)
         /\ last # NoWrite /\ (op[c].path = last.path \/ op[c].file = last.file)
         => op'[c].tag = "ok" /\ op'[c].value.text = last.text
<1>1. IInv /\ [Next]_vars => [Step]_vars
  <2> SUFFICES ASSUME IInv, Next, NEW c \in Callers,
                      op[c].at \in {"resolved", "reading"}, op[c].tool = "read_text",
                      op'[c].at = "answered", op[c].alone, NamesFile(op[c].path),
                      last # NoWrite, op[c].path = last.path \/ op[c].file = last.file
               PROVE  op'[c].tag = "ok" /\ op'[c].value.text = last.text
    OBVIOUS
  <2>1. op[c] \in Working
    BY DEF IInv, CallFacts, WorkFacts
  <2>2. OpenToRead(c) \/ ReadOn(c)
    <3>1. ASSUME NEW d \in Callers, Call(d)
          PROVE  FALSE
      <4>1. op[d].at = "idle" /\ \E r : op' = [op EXCEPT ![d] = r]
        BY <3>1 DEF Call, CallUnknown, CallHostTool, BadArguments, CallBuiltinFileTool,
           CallFileTool, Fetch, Discover, CallPureTool
      <4>2. d # c /\ op'[c] = op[c]
        BY <4>1 DEF IInv, CallFacts
      <4>3. QED
        BY <4>2
    <3>2. ASSUME NEW d \in Callers, EndRun(d) \/ ListDir(d) \/ Write(d) \/ Done(d)
          PROVE  FALSE
      <4>1. \E r : op' = [op EXCEPT ![d] = r]
        BY <3>2 DEF EndRun, ListDir, Write, Done, Answer
      <4>2. ~(op[d].at \in {"resolved", "reading"} /\ op[d].tool = "read_text")
        BY <3>2 DEF EndRun, ListDir, Write, Done, Resolved
      <4>3. d # c /\ op'[c] = op[c]
        BY <4>1, <4>2
      <4>4. QED
        BY <4>3
    <3>3. ASSUME NEW d \in Callers, OpenToWrite(d)
          PROVE  FALSE
      <4>1. CASE Answer(d, "TOOL_ERROR", Nothing) /\ op[d].tool = "write_text"
        BY <4>1 DEF Answer
      <4>2. CASE Opens(d, op[d].file)
        <5>1. PICK file : file = op[d].file
          OBVIOUS
        <5>2. /\ op[d].tool = "write_text" /\ d # c
              /\ op' = [e \in Callers |->
                   CASE e = d -> [op[d] EXCEPT !.at = "opened", !.alone = Writers(file) = {}]
                     [] e # d /\ e \in Users(file) -> [op[e] EXCEPT !.alone = FALSE]
                     [] OTHER -> op[e]]
          BY <4>2, <5>1 DEF Opens
        <5>3. op'[c] = [op[c] EXCEPT !.alone = FALSE] \/ op'[c] = op[c]
          BY <5>2
        <5>4. op'[c].at = op[c].at
          BY <2>1, <5>3 DEF Working
        <5>5. QED
          BY <5>4
      <4>3. QED
        BY <3>3, <4>1, <4>2, OpenCases
    <3>4. ASSUME NEW d \in Callers, OpenToRead(d) \/ ReadOn(d)
          PROVE  d = c
      <4>1. \E r : op' = [op EXCEPT ![d] = r]
        BY <3>4 DEF OpenToRead, ReadOn, Answer
      <4>2. QED
        BY <4>1
    <3>5. CASE UNCHANGED fileVars
      BY <3>5 DEF fileVars
    <3>6. QED
      BY <3>1, <3>2, <3>3, <3>4, <3>5 DEF Next, Continue
  <2>3. PICK path, file : path = op[c].path /\ file = op[c].file
    OBVIOUS
  <2>4. LeadsTo(path, FALSE, file)
    <3>1. LeadsTo(op[c].path, op[c].tool = "write_text", op[c].file)
      BY DEF IInv, CallFacts, WorkFacts
    <3>2. (op[c].tool = "write_text") = FALSE
      OBVIOUS
    <3>3. QED
      BY <2>3, <3>1, <3>2
  <2>5. PICK written, place : written = last.path /\ place = last.file
    OBVIOUS
  <2>6. LeadsTo(written, TRUE, place) /\ place \in DOMAIN files /\ files[place] = last.text
    BY <2>5 DEF IInv, History
  <2>7. file = place
    <3>1. CASE path = written
      BY <2>4, <2>6, <3>1, LeadsOne
    <3>2. QED
      BY <2>3, <2>5, <3>1
  <2>8. ~OpenToRead(c)
    <3> SUFFICES ASSUME OpenToRead(c) PROVE FALSE
      OBVIOUS
    <3>1. op' = [op EXCEPT ![c] = [op[c] EXCEPT !.at = "reading", !.text = <<>>,
                                                 !.alone = Writers(op[c].file) = {}]]
      BY <2>3, <2>6, <2>7 DEF OpenToRead
    <3>2. op'[c] = [op[c] EXCEPT !.at = "reading", !.text = <<>>,
                                  !.alone = Writers(op[c].file) = {}]
      BY <3>1 DEF IInv, CallFacts
    <3>3. op'[c].at = "reading"
      BY <2>1, <3>2 DEF Working
    <3>4. QED
      BY <3>3
  <2>9. ReadOn(c) /\ op[c].at = "reading"
    BY <2>2, <2>8 DEF ReadOn
  <2>10. PICK text \in Seq(STRING) : text = op[c].text
    BY <2>1 DEF Working
  <2>11. PICK whole \in Seq(STRING) : whole = files[file]
    BY <2>6, <2>7 DEF IInv, Tree
  <2>12. Len(text) <= Len(whole) /\ text = SubSeq(whole, 1, Len(text))
    BY <2>3, <2>9, <2>10, <2>11 DEF IInv, CallFacts, ReadFacts
  <2>13. ~(Len(text) < Len(whole))
    <3> SUFFICES ASSUME Len(text) < Len(whole) PROVE FALSE
      OBVIOUS
    <3>1. op' = [op EXCEPT ![c] = [op[c] EXCEPT !.text =
                                    Append(op[c].text, whole[Len(op[c].text) + 1])]]
      BY <2>3, <2>9, <2>10, <2>11 DEF ReadOn
    <3>2. op'[c] = [op[c] EXCEPT !.text = Append(op[c].text, whole[Len(op[c].text) + 1])]
      BY <3>1 DEF IInv, CallFacts
    <3>3. op'[c].at = op[c].at
      BY <2>1, <3>2 DEF Working
    <3>4. QED
      BY <2>9, <3>3
  <2>14. text = whole
    BY <2>12, <2>13
  <2>15. Answer(c, "ok", [text |-> text])
    BY <2>3, <2>9, <2>10, <2>11, <2>13 DEF ReadOn
  <2>16. op'[c] = [at |-> "answered", tool |-> op[c].tool, path |-> op[c].path,
                   tag |-> "ok", value |-> [text |-> text]]
    BY <2>15 DEF Answer, IInv, CallFacts
  <2>17. op'[c].tag = "ok" /\ op'[c].value = [text |-> text]
    BY <2>16
  <2>18. text = last.text
    BY <2>6, <2>7, <2>11, <2>14
  <2>19. QED
    BY <2>17, <2>18
<1>2. QED
  BY <1>1, InvariantHolds, PTL DEF Spec, ReadsLast

================================================================================
