----------------------------- MODULE MuxerProofs -----------------------------
(***************************************************************************)
(* Proofs about Muxer, for every tick, cluster length, set of codec        *)
(* configs, access units and timestamps, and any number of blocks in any   *)
(* order: block offsets fit their 16 bits, the duration of a closed file   *)
(* is that of its newest block, the scan for start codes finds the units   *)
(* of Annex B in every buffer, and the file holds the block due for every  *)
(* call accepted, once and in order.                                       *)
(***************************************************************************)
EXTENDS Muxer, TLAPS, FiniteSetTheorems, WellFoundedInduction

Payload == {<<>>} \cup {LengthPrefixed(au) : au \in AccessUnits}
Block   == [track : {"video", "audio"}, rel : Nat, data : Payload]
Cluster == [base : Int, blocks : Seq(Block)]

(* Every block lies within MaxCluster of the base of its cluster.          *)
Fits(c) == \A i \in DOMAIN c.blocks : Distance(c.blocks[i].rel, c.base) <= MaxCluster

ClusterInv ==
  /\ start \in Int /\ lastRel \in Nat
  /\ cluster \in Cluster /\ Fits(cluster)
  /\ file \in Seq(Cluster) /\ \A i \in DOMAIN file : Fits(file[i])

(* lastRel is the time of the newest block, and ends up in the file.       *)
NewestInv ==
  /\ \A r \in Rels : r <= lastRel
  /\ lastRel > 0 => lastRel \in Rels
  /\ state = "closed" /\ lastRel > 0 => duration = lastRel

Inv == ClusterInv /\ NewestInv
------------------------------------------------------------------------------
(* Closing the current cluster keeps the file well-formed, and no block is *)
(* lost by it.                                                             *)
LEMMA FlushedFits ==
  ASSUME ClusterInv
  PROVE  /\ Flushed \in Seq(Cluster)
         /\ \A i \in DOMAIN Flushed : Fits(Flushed[i])
         /\ {Flushed[i] : i \in DOMAIN Flushed} \cup {NoCluster} =
              {file[i] : i \in DOMAIN file} \cup {cluster, NoCluster}
<1>1. CASE cluster = NoCluster
  BY <1>1 DEF ClusterInv, Flushed
<1>2. CASE cluster # NoCluster
  <2>1. Flushed = Append(file, cluster)
    BY <1>2 DEF Flushed
  <2>2. /\ Append(file, cluster) \in Seq(Cluster)
        /\ DOMAIN Append(file, cluster) = 1..(Len(file) + 1)
        /\ DOMAIN file = 1..Len(file) /\ Len(file) \in Nat
        /\ \A i \in 1..Len(file) : Append(file, cluster)[i] = file[i]
        /\ Append(file, cluster)[Len(file) + 1] = cluster
    BY DEF ClusterInv
  <2> QED
    BY <2>1, <2>2 DEF ClusterInv
<1> QED
  BY <1>1, <1>2

(* The times found in a set of clusters: nothing in the empty one, and one *)
(* cluster more adds its own.                                              *)
RelsIn(S) == UNION {RelsOf(c) : c \in S}

LEMMA NoClusterRels == RelsOf(NoCluster) = {}
  BY DEF RelsOf, NoCluster

LEMMA RelsInAdd ==
  ASSUME NEW S, NEW c
  PROVE  RelsIn(S \cup {c}) = RelsIn(S) \cup RelsOf(c)
  BY DEF RelsIn

LEMMA RelsAreIn == Rels = RelsIn(AllClusters)
  BY DEF Rels, RelsIn

(* Closing the current cluster leaves the times as they were.              *)
LEMMA FlushedRels ==
  ASSUME ClusterInv
  PROVE  RelsIn({Flushed[i] : i \in DOMAIN Flushed}) = Rels
<1> DEFINE F == {Flushed[i] : i \in DOMAIN Flushed}
           G == {file[i] : i \in DOMAIN file}
<1>1. F \cup {NoCluster} = (G \cup {cluster}) \cup {NoCluster}
  BY FlushedFits
<1>2. RelsIn(F \cup {NoCluster}) = RelsIn(F)
  BY RelsInAdd, NoClusterRels
<1>3. RelsIn((G \cup {cluster}) \cup {NoCluster}) = RelsIn(G \cup {cluster})
  BY RelsInAdd, NoClusterRels
<1>4. Rels = RelsIn(G \cup {cluster})
  BY RelsAreIn DEF AllClusters
<1> QED
  BY <1>1, <1>2, <1>3, <1>4

(* What a cluster and its blocks are.                                      *)
LEMMA ClusterTyped ==
  ASSUME NEW c \in Cluster, NEW i \in DOMAIN c.blocks
  PROVE  c.base \in Int /\ c.blocks[i].rel \in Nat
<1>1. c.base \in Int /\ c.blocks \in Seq(Block)
  BY DEF Cluster
<1>2. c.blocks[i] \in Block
  BY <1>1
<1> QED
  BY <1>1, <1>2 DEF Block

LEMMA AllClustersFit == ClusterInv => \A c \in AllClusters : c \in Cluster /\ Fits(c)
<1> SUFFICES ASSUME ClusterInv, NEW c \in AllClusters PROVE c \in Cluster /\ Fits(c)
  OBVIOUS
<1>1. CASE c = cluster
  BY <1>1 DEF ClusterInv
<1>2. CASE c # cluster
  <2>1. PICK i \in DOMAIN file : c = file[i]
    BY <1>2 DEF AllClusters
  <2>2. file \in Seq(Cluster) /\ Fits(file[i])
    BY DEF ClusterInv
  <2> QED
    BY <2>1, <2>2
<1> QED
  BY <1>1, <1>2

LEMMA RelsAreNat == ClusterInv => Rels \subseteq Nat
<1> SUFFICES ASSUME ClusterInv, NEW c \in AllClusters
             PROVE  RelsOf(c) \subseteq Nat
  BY DEF Rels
<1>1. c \in Cluster
  BY AllClustersFit
<1> QED
  BY <1>1, ClusterTyped DEF RelsOf

(* One block more, wherever it goes, keeps the clusters well-formed and    *)
(* adds its time and no other.                                             *)
LEMMA AddBlockFits ==
  ASSUME ClusterInv, NEW rel \in Nat, NEW key \in BOOLEAN, NEW block \in Block,
         block.rel = rel, AddBlock(rel, key, block)
  PROVE  /\ cluster' \in Cluster /\ Fits(cluster')
         /\ file' \in Seq(Cluster) /\ \A i \in DOMAIN file' : Fits(file'[i])
         /\ Rels' = Rels \cup {rel}
<1>1. CASE NeedsCluster(rel, key)
  <2>1. file' = Flushed /\ cluster' = [base |-> rel, blocks |-> <<block>>]
    BY <1>1 DEF AddBlock
  <2>2. cluster' \in Cluster
    BY <2>1 DEF Cluster
  <2>3. Fits(cluster')
    BY <2>1, MuxerAssumption DEF Fits, Distance
  <2>4. RelsOf(cluster') = {rel}
    BY <2>1 DEF RelsOf
  <2> DEFINE F == {Flushed[i] : i \in DOMAIN Flushed}
  <2>5. Rels' = RelsIn(F \cup {cluster'})
    BY <2>1 DEF Rels, RelsIn, AllClusters, RelsOf
  <2>6. RelsIn(F) = Rels
    BY FlushedRels
  <2> HIDE DEF F
  <2>7. Rels' = Rels \cup RelsOf(cluster')
    BY <2>5, <2>6, RelsInAdd
  <2> QED
    BY <2>1, <2>2, <2>3, <2>4, <2>7, FlushedFits
<1>2. CASE ~NeedsCluster(rel, key)
  <2>1. /\ file' = file
        /\ cluster' = [cluster EXCEPT !.blocks = Append(@, block)]
    BY <1>2 DEF AddBlock
  <2>2. Distance(rel, cluster.base) <= MaxCluster
    BY <1>2, MuxerAssumption DEF NeedsCluster, TooFar, ClusterInv, Cluster, Distance
  <2> DEFINE b == cluster.blocks
  <2>0. cluster \in [base : Int, blocks : Seq(Block)]
    BY DEF ClusterInv, Cluster
  <2>3. /\ cluster'.base = cluster.base /\ cluster'.blocks = Append(b, block)
        /\ cluster' \in Cluster
    <3>1. Append(b, block) \in Seq(Block)
      BY <2>0
    <3>2. cluster' = [base |-> cluster.base, blocks |-> Append(b, block)]
      BY <2>0, <2>1
    <3> QED
      BY <2>0, <3>1, <3>2 DEF Cluster
  <2>4. /\ DOMAIN Append(b, block) = 1..(Len(b) + 1)
        /\ DOMAIN b = 1..Len(b) /\ Len(b) \in Nat
        /\ \A i \in 1..Len(b) : Append(b, block)[i] = b[i]
        /\ Append(b, block)[Len(b) + 1] = block
    BY DEF ClusterInv, Cluster
  <2>5. Fits(cluster')
    BY <2>2, <2>3, <2>4 DEF Fits, ClusterInv
  <2>6. RelsOf(cluster') = RelsOf(cluster) \cup {rel}
    BY <2>3, <2>4 DEF RelsOf
  <2> DEFINE G == {file[i] : i \in DOMAIN file}
  <2>7. Rels' = Rels \cup {rel}
    <3>1. Rels' = RelsIn(G \cup {cluster'})
      BY <2>1 DEF Rels, RelsIn, AllClusters, RelsOf
    <3>2. Rels = RelsIn(G \cup {cluster})
      BY RelsAreIn DEF AllClusters
    <3> HIDE DEF G
    <3>3. /\ RelsIn(G \cup {cluster'}) = RelsIn(G) \cup RelsOf(cluster')
          /\ RelsIn(G \cup {cluster}) = RelsIn(G) \cup RelsOf(cluster)
      BY RelsInAdd
    <3> QED
      BY <2>6, <3>1, <3>2, <3>3
  <2> QED
    BY <2>1, <2>3, <2>5, <2>7 DEF ClusterInv
<1> QED
  BY <1>1, <1>2

(* A block offered at any time keeps both invariants: its time relative to *)
(* the origin is never negative.                                           *)
LEMMA WriteKeeps ==
  ASSUME Inv, NEW track \in {"video", "audio"}, NEW ts \in Times,
         NEW key \in BOOLEAN, NEW data \in Payload,
         Write(track, ts, key, data), state = "open", UNCHANGED <<state, duration>>
  PROVE  Inv'
<1> DEFINE origin == IF start < 0 THEN ts ELSE start
           rel    == IF ts < origin THEN 0 ELSE ts - origin
           block  == [track |-> track, rel |-> rel, data |-> data]
<1>1. ts \in Nat
  BY MuxerAssumption
<1>2. origin \in Int /\ rel \in Nat
  BY <1>1 DEF Inv, ClusterInv
<1>3. /\ start' = origin /\ lastRel' = Later(rel)
      /\ AddBlock(rel, key, block)
  BY DEF Write
<1>4. block \in Block /\ block.rel = rel
  BY <1>2 DEF Block
<1> HIDE DEF origin, rel, block
<1>5. /\ cluster' \in Cluster /\ Fits(cluster')
      /\ file' \in Seq(Cluster) /\ \A i \in DOMAIN file' : Fits(file'[i])
      /\ Rels' = Rels \cup {rel}
  BY <1>2, <1>3, <1>4, AddBlockFits DEF Inv
<1>6. /\ lastRel' \in Nat /\ lastRel <= lastRel' /\ rel <= lastRel'
      /\ lastRel' = lastRel \/ lastRel' = rel
  BY <1>2, <1>3 DEF Later, Inv, ClusterInv
<1>7. ClusterInv'
  BY <1>2, <1>3, <1>5, <1>6 DEF ClusterInv, Fits
<1>8. Rels \subseteq Nat
  BY RelsAreNat DEF Inv
<1>9. NewestInv'
  BY <1>2, <1>5, <1>6, <1>8 DEF Inv, ClusterInv, NewestInv
<1> QED
  BY <1>7, <1>9 DEF Inv
------------------------------------------------------------------------------
(* A new muxer holds no block.                                             *)
LEMMA InvInit == Init => Inv
<1> SUFFICES ASSUME Init PROVE Inv
  OBVIOUS
<1>1. ClusterInv
  BY DEF Init, ClusterInv, Cluster, NoCluster, Unset, Fits
<1>2. Rels = {}
  BY NoClusterRels DEF Init, Rels, AllClusters
<1> QED
  BY <1>1, <1>2 DEF Init, Inv, NewestInv

(* Every operation keeps both invariants.                                  *)
LEMMA InvStep == Inv /\ [Next]_vars => Inv'
<1> SUFFICES ASSUME Inv, [Next]_vars PROVE Inv'
  OBVIOUS
<1>0. ASSUME UNCHANGED <<start, lastRel, cluster, file, duration>>,
             state' # "closed" \/ state' = state
      PROVE  Inv'
  <2>1. Rels' = Rels
    BY <1>0 DEF Rels, AllClusters, RelsOf
  <2>2. ClusterInv'
    BY <1>0 DEF Inv, ClusterInv, Fits
  <2> QED
    BY <1>0, <2>1, <2>2 DEF Inv, NewestInv
<1>1. CASE Open
  BY <1>0, <1>1 DEF Open
<1>2. ASSUME NEW au \in AccessUnits, NEW ts \in Times, NEW key \in BOOLEAN,
             WriteVideo(au, ts, key)
      PROVE  Inv'
  <2>1. CASE LengthPrefixed(au) = <<>>
    BY <1>0, <1>2, <2>1 DEF WriteVideo, Offer
  <2>2. CASE LengthPrefixed(au) # <<>>
    <3>1. Write("video", ts, key, LengthPrefixed(au))
      BY <1>2, <2>2 DEF WriteVideo
    <3>2. LengthPrefixed(au) \in Payload
      BY DEF Payload
    <3>3. state = "open" /\ UNCHANGED <<state, duration>>
      BY <1>2 DEF WriteVideo, Offer
    <3> QED
      BY <3>1, <3>2, <3>3, <1>2, WriteKeeps
  <2> QED
    BY <2>1, <2>2
<1>3. ASSUME NEW ts \in Times, WriteAudio(ts)
      PROVE  Inv'
  <2>1. CASE "audio" \notin tracks
    BY <1>0, <1>3, <2>1 DEF WriteAudio, Offer
  <2>2. CASE "audio" \in tracks
    <3>1. Write("audio", ts, FALSE, <<>>)
      BY <1>3, <2>2 DEF WriteAudio
    <3>2. <<>> \in Payload
      BY DEF Payload
    <3>3. state = "open" /\ UNCHANGED <<state, duration>>
      BY <1>3 DEF WriteAudio, Offer
    <3> QED
      BY <3>1, <3>2, <3>3, <1>3, WriteKeeps
  <2> QED
    BY <2>1, <2>2
<1>4. CASE Close
  <2>1. /\ file' = Flushed /\ cluster' = NoCluster /\ start' = start
        /\ lastRel' = lastRel /\ state' = "closed"
        /\ duration' = IF lastRel > 0 THEN lastRel ELSE duration
    BY <1>4 DEF Close
  <2>2. NoCluster \in Cluster /\ Fits(NoCluster)
    BY DEF Cluster, NoCluster, Unset, Fits
  <2>3. ClusterInv'
    BY <2>1, <2>2, FlushedFits DEF Inv, ClusterInv
  <2>4. Rels' = RelsIn({Flushed[i] : i \in DOMAIN Flushed} \cup {NoCluster})
    BY <2>1 DEF Rels, RelsIn, AllClusters, RelsOf
  <2>5. Rels' = Rels
    BY <2>4, FlushedRels, RelsInAdd, NoClusterRels DEF Inv
  <2> QED
    BY <2>1, <2>3, <2>5 DEF Inv, NewestInv
<1>5. CASE UNCHANGED vars
  BY <1>0, <1>5 DEF vars
<1> QED
  BY <1>1, <1>2, <1>3, <1>4, <1>5 DEF Next

(* Both invariants hold throughout.                                        *)
THEOREM MuxerInv == Spec => []Inv
  BY InvInit, InvStep, PTL DEF Spec

(* Block offsets fit their 16 bits, late audio included (muxer.cc:227-233):*)
(* two blocks of a cluster are at most twice MaxCluster apart.             *)
THEOREM BlocksFitCorrect == Spec => []BlocksFit
<1>1. Inv => BlocksFit
  <2> SUFFICES ASSUME Inv, NEW c \in AllClusters,
                      NEW i \in DOMAIN c.blocks, NEW j \in DOMAIN c.blocks
               PROVE  Distance(c.blocks[i].rel, c.blocks[j].rel) <= MaxShort * TsScale
    BY DEF BlocksFit
  <2>1. c \in Cluster /\ Fits(c)
    BY AllClustersFit DEF Inv
  <2>2. c.blocks[i].rel \in Nat /\ c.blocks[j].rel \in Nat /\ c.base \in Int
    BY <2>1, ClusterTyped
  <2>3. /\ Distance(c.blocks[i].rel, c.base) <= MaxCluster
        /\ Distance(c.blocks[j].rel, c.base) <= MaxCluster
    BY <2>1 DEF Fits
  <2>4. Distance(c.blocks[i].rel, c.blocks[j].rel) <= 2 * MaxCluster
    <3>1. MaxCluster \in Nat
      BY MuxerAssumption
    <3> QED
      BY <2>2, <2>3, <3>1 DEF Distance
  <2>5. MaxShort * TsScale \in Int
    BY MuxerAssumption
  <2>6. Distance(c.blocks[i].rel, c.blocks[j].rel) \in Int
    BY <2>2 DEF Distance
  <2>7. MaxCluster \in Nat /\ 2 * MaxCluster <= MaxShort * TsScale
    BY MuxerAssumption
  <2> QED
    BY <2>4, <2>5, <2>6, <2>7
<1> QED
  BY <1>1, MuxerInv, PTL

(* The duration of a closed file is the time of its newest block, whatever *)
(* came last (muxer.cc:194-200).                                           *)
THEOREM DurationCorrect == Spec => []DurationIsNewest
<1>1. Inv => DurationIsNewest
  <2>1. Inv => Rels \subseteq Nat
    BY RelsAreNat DEF Inv
  <2> QED
    BY <2>1 DEF Inv, ClusterInv, NewestInv, DurationIsNewest
<1> QED
  BY <1>1, MuxerInv, PTL
------------------------------------------------------------------------------
(***************************************************************************)
(* The scan of hevc_bitstream.cc finds what Annex B says                   *)
(***************************************************************************)
(* A set of numbers has a least one, and Min is it.                        *)
LEMMA LeastOf ==
  ASSUME NEW S, S \subseteq Nat, S # {}
  PROVE  \E m \in S : \A n \in S : m <= n
<1> DEFINE Less == {q \in Nat \X Nat : q[1] < q[2]}
<1>1. IsWellFoundedOn(Less, Nat)
  BY NatLessThanWellFounded DEF OpToRel
<1>2. \E m \in S : \A n \in S : <<n, m>> \notin Less
  <2> HIDE DEF Less
  <2> QED BY <1>1, WFMin
<1>3. PICK m \in S : \A n \in S : <<n, m>> \notin Less
  BY <1>2
<1>4. ASSUME NEW n \in S PROVE m <= n
  <2>1. m \in Nat /\ n \in Nat
    OBVIOUS
  <2>2. ~(n < m)
    BY <1>3, <2>1
  <2> QED BY <2>1, <2>2
<1> QED BY <1>4

LEMMA MinIs ==
  ASSUME NEW S, S \subseteq Nat, S # {}
  PROVE  Min(S) \in S /\ \A n \in S : Min(S) <= n
BY LeastOf DEF Min

(* Two buffers with the same bytes are the same.                           *)
LEMMA SameBytes ==
  ASSUME NEW a \in Seq(Nat), NEW b \in Seq(Nat), Len(a) = Len(b),
         \A i \in 1..Len(a) : a[i] = b[i]
  PROVE  a = b
OBVIOUS

(* A start code, by its bytes.                                             *)
LEMMA ThreeBytes ==
  ASSUME NEW p \in Seq(Nat), NEW j \in Nat \ {0}, j + 2 <= Len(p)
  PROVE  SubSeq(p, j, j + 2) = <<0, 0, 1>> <=>
           p[j] = 0 /\ p[j + 1] = 0 /\ p[j + 2] = 1
<1> DEFINE s == SubSeq(p, j, j + 2)
           c == <<0, 0, 1>>
<1>1. s \in Seq(Nat) /\ Len(s) = 3
      /\ s[1] = p[j] /\ s[2] = p[j + 1] /\ s[3] = p[j + 2]
  OBVIOUS
<1>2. c \in Seq(Nat) /\ Len(c) = 3 /\ c[1] = 0 /\ c[2] = 0 /\ c[3] = 1
  OBVIOUS
<1> HIDE DEF s, c
<1>3. \A i \in 1..3 : i = 1 \/ i = 2 \/ i = 3
  OBVIOUS
<1>4. s = c <=> s[1] = 0 /\ s[2] = 0 /\ s[3] = 1
  BY <1>1, <1>2, <1>3, SameBytes
<1> QED BY <1>1, <1>4 DEF s, c

LEMMA FourBytes ==
  ASSUME NEW p \in Seq(Nat), NEW j \in Nat \ {0}, j + 3 <= Len(p)
  PROVE  SubSeq(p, j, j + 3) = <<0, 0, 0, 1>> <=>
           p[j] = 0 /\ p[j + 1] = 0 /\ p[j + 2] = 0 /\ p[j + 3] = 1
<1> DEFINE s == SubSeq(p, j, j + 3)
           c == <<0, 0, 0, 1>>
<1>1. s \in Seq(Nat) /\ Len(s) = 4 /\ s[1] = p[j] /\ s[2] = p[j + 1]
      /\ s[3] = p[j + 2] /\ s[4] = p[j + 3]
  OBVIOUS
<1>2. c \in Seq(Nat) /\ Len(c) = 4
      /\ c[1] = 0 /\ c[2] = 0 /\ c[3] = 0 /\ c[4] = 1
  OBVIOUS
<1> HIDE DEF s, c
<1>3. \A i \in 1..4 : i = 1 \/ i = 2 \/ i = 3 \/ i = 4
  OBVIOUS
<1>4. s = c <=> s[1] = 0 /\ s[2] = 0 /\ s[3] = 0 /\ s[4] = 1
  BY <1>1, <1>2, <1>3, SameBytes
<1> QED BY <1>1, <1>4 DEF s, c

(* What StartCode() says of the bytes at j.                                *)
LEMMA CodeBytes ==
  ASSUME NEW p \in Seq(Nat), NEW j \in Nat \ {0}
  PROVE  /\ StartCode(p, j) \in {0, 3, 4}
         /\ StartCode(p, j) = 4 <=>
              /\ j + 3 <= Len(p)
              /\ p[j] = 0 /\ p[j + 1] = 0 /\ p[j + 2] = 0 /\ p[j + 3] = 1
         /\ StartCode(p, j) = 3 <=>
              j + 2 <= Len(p) /\ p[j] = 0 /\ p[j + 1] = 0 /\ p[j + 2] = 1
<1> DEFINE four  == j + 3 <= Len(p) /\ SubSeq(p, j, j + 3) = <<0, 0, 0, 1>>
           three == j + 2 <= Len(p) /\ SubSeq(p, j, j + 2) = <<0, 0, 1>>
<1>1. four <=> /\ j + 3 <= Len(p)
               /\ p[j] = 0 /\ p[j + 1] = 0 /\ p[j + 2] = 0 /\ p[j + 3] = 1
  BY FourBytes
<1>2. three <=> j + 2 <= Len(p) /\ p[j] = 0 /\ p[j + 1] = 0 /\ p[j + 2] = 1
  BY ThreeBytes
<1>3. ~(four /\ three)
  <2> HIDE DEF four, three
  <2> QED BY <1>1, <1>2
<1>4. StartCode(p, j) = IF four THEN 4 ELSE IF three THEN 3 ELSE 0
  <2>1. CASE four
    BY <1>3, <2>1 DEF StartCode
  <2>2. CASE ~four /\ three
    BY <2>2 DEF StartCode
  <2>3. CASE ~four /\ ~three
    BY <2>3 DEF StartCode
  <2> QED BY <2>1, <2>2, <2>3
<1> HIDE DEF four, three
<1>5. /\ StartCode(p, j) \in {0, 3, 4}
      /\ StartCode(p, j) = 4 <=> four
      /\ StartCode(p, j) = 3 <=> three
  BY <1>3, <1>4
<1> QED BY <1>1, <1>2, <1>5

(* Where the bytes 00 00 01 end.                                           *)
LEMMA CodeEndsAre ==
  ASSUME NEW p \in Seq(Nat), NEW e \in Int
  PROVE  e \in CodeEnds(p) <=>
           /\ 3 <= e /\ e <= Len(p)
           /\ p[e - 2] = 0 /\ p[e - 1] = 0 /\ p[e] = 1
<1>1. CASE 3 <= e /\ e <= Len(p)
  <2>1. e - 2 \in Nat \ {0} /\ (e - 2) + 2 = e /\ (e - 2) + 1 = e - 1
    BY <1>1
  <2> QED BY <1>1, <2>1, ThreeBytes DEF CodeEnds
<1>2. CASE ~(3 <= e /\ e <= Len(p))
  BY <1>2 DEF CodeEnds
<1> QED BY <1>1, <1>2

(* Every start code has its end, and the other way round; and there is no  *)
(* end inside a start code.                                                *)
LEMMA CodeHasEnd ==
  ASSUME NEW p \in Seq(Nat), NEW j \in Nat \ {0}, StartCode(p, j) # 0
  PROVE  /\ j + StartCode(p, j) - 1 \in CodeEnds(p)
         /\ j + StartCode(p, j) - 1 <= Len(p)
         /\ \A e \in CodeEnds(p) : e > j => e >= j + StartCode(p, j) - 1
<1>1. CodeEnds(p) \subseteq Int
  BY DEF CodeEnds
<1>2. CASE StartCode(p, j) = 4
  <2>1. j + 3 <= Len(p) /\ p[j] = 0 /\ p[j + 1] = 0 /\ p[j + 2] = 0 /\ p[j + 3] = 1
    BY <1>2, CodeBytes
  <2>2. j + 3 \in CodeEnds(p)
    BY <2>1, CodeEndsAre
  <2>3. ASSUME NEW e \in CodeEnds(p), e > j PROVE e >= j + 3
    <3>1. p[e] = 1 /\ e \in Int
      BY <1>1, CodeEndsAre
    <3>2. e # j + 1 /\ e # j + 2
      BY <2>1, <3>1
    <3> QED BY <2>3, <3>1, <3>2
  <2> QED BY <1>2, <2>1, <2>2, <2>3
<1>3. CASE StartCode(p, j) = 3
  <2>1. j + 2 <= Len(p) /\ p[j] = 0 /\ p[j + 1] = 0 /\ p[j + 2] = 1
    BY <1>3, CodeBytes
  <2>2. j + 2 \in CodeEnds(p)
    BY <2>1, CodeEndsAre
  <2>3. ASSUME NEW e \in CodeEnds(p), e > j PROVE e >= j + 2
    <3>1. p[e] = 1 /\ e \in Int
      BY <1>1, CodeEndsAre
    <3>2. e # j + 1
      BY <2>1, <3>1
    <3> QED BY <2>3, <3>1, <3>2
  <2> QED BY <1>3, <2>1, <2>2, <2>3
<1> QED BY <1>2, <1>3, CodeBytes

(* Where a code ends, a three-byte start code is found.                    *)
LEMMA EndHasCode ==
  ASSUME NEW p \in Seq(Nat), NEW e \in CodeEnds(p)
  PROVE  e \in Int /\ 3 <= e /\ e <= Len(p) /\ StartCode(p, e - 2) = 3
<1>1. e \in Int
  BY DEF CodeEnds
<1>2. 3 <= e /\ e <= Len(p) /\ p[e - 2] = 0 /\ p[e - 1] = 0 /\ p[e] = 1
  BY <1>1, CodeEndsAre
<1>3. e - 2 \in Nat \ {0} /\ (e - 2) + 1 = e - 1 /\ (e - 2) + 2 = e
  BY <1>1, <1>2
<1> QED BY <1>1, <1>2, <1>3, CodeBytes

(* The next start code is there, and none is before it.                    *)
LEMMA NextStartIs ==
  ASSUME NEW p \in Seq(Nat), NEW i \in 1..(Len(p) + 1)
  PROVE  /\ NextStart(p, i) \in i..(Len(p) + 1)
         /\ NextStart(p, i) <= Len(p) => StartCode(p, NextStart(p, i)) # 0
         /\ \A j \in i..Len(p) : StartCode(p, j) # 0 => NextStart(p, i) <= j
<1> DEFINE S == {j \in i..Len(p) : StartCode(p, j) # 0} \cup {Len(p) + 1}
<1>1. S \subseteq Nat /\ S # {} /\ NextStart(p, i) = Min(S)
  BY DEF NextStart
<1>2. Min(S) \in S /\ \A n \in S : Min(S) <= n
  <2> HIDE DEF S
  <2> QED BY <1>1, MinIs
<1>3. \A n \in S : n \in i..(Len(p) + 1) /\ (n <= Len(p) => StartCode(p, n) # 0)
  OBVIOUS
<1>4. \A j \in i..Len(p) : StartCode(p, j) # 0 => j \in S
  OBVIOUS
<1> HIDE DEF S
<1> QED BY <1>1, <1>2, <1>3, <1>4

(***************************************************************************)
(* The scan, as a function of the place it is at                           *)
(***************************************************************************)
After(p, i) == i + StartCode(p, i)
Next1(p, i) == NextStart(p, After(p, i))

ScanBody(p, g, i) ==
  IF i > Len(p) THEN <<>>
  ELSE (IF Next1(p, i) > After(p, i)
          THEN <<SubSeq(p, After(p, i), Next1(p, i) - 1)>> ELSE <<>>)
       \o g[Next1(p, i)]

Scan(p) == CHOOSE f : f = [i \in 1..(Len(p) + 1) |-> ScanBody(p, f, i)]

(* What split_nals() returns is the scan from the first start code.        *)
LEMMA SplitIsScan ==
  ASSUME NEW p PROVE SplitNals(p) = Scan(p)[NextStart(p, 1)]
BY DEF SplitNals, Scan, ScanBody, After, Next1

(* The scan moves on.                                                      *)
LEMMA ScanAdvances ==
  ASSUME NEW p \in Seq(Nat), NEW i \in 1..Len(p)
  PROVE  After(p, i) \in i..(Len(p) + 1) /\ Next1(p, i) \in (i + 1)..(Len(p) + 1)
         /\ Next1(p, i) >= After(p, i)
<1>1. Len(p) \in Nat /\ StartCode(p, i) \in {0, 3, 4}
  BY CodeBytes
<1>2. CASE StartCode(p, i) # 0
  <2>1. i + StartCode(p, i) - 1 <= Len(p)
    <3>1. i \in Nat \ {0}
      OBVIOUS
    <3> QED BY <1>2, <3>1, CodeHasEnd
  <2>2. After(p, i) \in (i + 1)..(Len(p) + 1)
    <3>1. After(p, i) = i + StartCode(p, i)
      BY DEF After
    <3> DEFINE sc == StartCode(p, i)
               L  == Len(p)
    <3>2. i \in Int /\ sc \in Nat \ {0} /\ L \in Nat
      BY <1>1, <1>2
    <3>3. i + sc - 1 <= L /\ After(p, i) = i + sc
      BY <2>1, <3>1
    <3> HIDE DEF sc, L
    <3>4. i + sc \in (i + 1)..(L + 1)
      BY <3>2, <3>3
    <3> QED BY <3>3, <3>4 DEF L
  <2>3. Next1(p, i) \in After(p, i)..(Len(p) + 1)
    BY <1>1, <2>2, NextStartIs DEF Next1
  <2> QED BY <1>1, <2>2, <2>3
<1>3. CASE StartCode(p, i) = 0
  <2>1. After(p, i) = i
    BY <1>3 DEF After
  <2>2. /\ Next1(p, i) \in i..(Len(p) + 1)
        /\ Next1(p, i) <= Len(p) => StartCode(p, Next1(p, i)) # 0
    BY <1>1, <2>1, NextStartIs DEF Next1
  <2> QED BY <1>1, <1>3, <2>1, <2>2
<1> QED BY <1>2, <1>3

(* There is such a function: it can be built from the end of the buffer.   *)
LEMMA ScanIs ==
  ASSUME NEW p \in Seq(Nat)
  PROVE  Scan(p) = [i \in 1..(Len(p) + 1) |-> ScanBody(p, Scan(p), i)]
<1> DEFINE N == Len(p)
           Built(g, k) == /\ DOMAIN g = 1..(N + 1)
                          /\ g = [i \in DOMAIN g |-> g[i]]
                          /\ \A i \in (N + 1 - k)..(N + 1) : g[i] = ScanBody(p, g, i)
           Unbuilt == {k \in 0..N : ~\E g : Built(g, k)}
<1>1. N \in Nat
  OBVIOUS
<1>2. Unbuilt = {}
  <2> SUFFICES ASSUME Unbuilt # {} PROVE FALSE
    OBVIOUS
  <2>1. PICK k \in Unbuilt : \A j \in Unbuilt : k <= j
    <3>1. Unbuilt \subseteq Nat
      BY <1>1
    <3> HIDE DEF Unbuilt
    <3> QED BY <3>1, LeastOf
  <2>2. k \in 0..N /\ ~\E g : Built(g, k)
    OBVIOUS
  <2>3. k # 0
    <3> DEFINE g == [i \in 1..(N + 1) |-> <<>>]
    <3>1. /\ DOMAIN g = 1..(N + 1)
          /\ g = [i \in DOMAIN g |-> g[i]]
          /\ \A i \in 1..(N + 1) : g[i] = <<>>
      OBVIOUS
    <3> HIDE DEF g
    <3>2. \A i \in (N + 1 - 0)..(N + 1) : i \in 1..(N + 1) /\ i > Len(p)
      BY <1>1
    <3>3. Built(g, 0)
      BY <3>1, <3>2 DEF ScanBody
    <3> QED BY <2>2, <3>3
  <2>4. k - 1 \in 0..N /\ k - 1 \notin Unbuilt
    BY <1>1, <2>1, <2>2, <2>3
  <2>5. PICK g : Built(g, k - 1)
    BY <2>4
  <2> DEFINE at == N + 1 - k
             h == [g EXCEPT ![at] = ScanBody(p, g, at)]
  <2>6. at \in 1..N
    BY <1>1, <2>2, <2>3
  <2>7. /\ DOMAIN h = 1..(N + 1)
        /\ h = [i \in DOMAIN h |-> h[i]]
        /\ h[at] = ScanBody(p, g, at)
        /\ \A i \in 1..(N + 1) : i # at => h[i] = g[i]
    <3> DEFINE v == ScanBody(p, g, at)
               D == 1..(N + 1)
    <3>1. DOMAIN g = D /\ at \in D
      BY <1>1, <2>5, <2>6
    <3>2. h = [g EXCEPT ![at] = v]
      OBVIOUS
    <3> HIDE DEF v, D, h, at, N, Built
    <3>3. /\ DOMAIN h = D
          /\ h = [i \in DOMAIN h |-> h[i]]
          /\ h[at] = v
          /\ \A i \in D : i # at => h[i] = g[i]
      BY <3>1, <3>2
    <3> QED BY <3>3 DEF D, v
  <2>8. \A i \in at..(N + 1) : ScanBody(p, h, i) = ScanBody(p, g, i)
    <3> SUFFICES ASSUME NEW i \in at..(N + 1) PROVE ScanBody(p, h, i) = ScanBody(p, g, i)
      OBVIOUS
    <3>1. i \in 1..(N + 1)
      BY <1>1, <2>6
    <3>2. CASE i = N + 1
      BY <1>1, <3>2 DEF ScanBody
    <3>3. CASE i # N + 1
      <4>1. Next1(p, i) \in (i + 1)..(N + 1)
        BY <1>1, <3>1, <3>3, ScanAdvances
      <4>2. h[Next1(p, i)] = g[Next1(p, i)]
        BY <1>1, <2>6, <2>7, <3>1, <4>1
      <4> HIDE DEF h
      <4> QED BY <4>2 DEF ScanBody
    <3> QED BY <3>2, <3>3
  <2> HIDE DEF h
  <2>9. \A i \in at..(N + 1) : h[i] = ScanBody(p, h, i)
    <3> SUFFICES ASSUME NEW i \in at..(N + 1) PROVE h[i] = ScanBody(p, g, i)
      BY <2>8
    <3>1. CASE i = at
      BY <2>7, <3>1
    <3>2. CASE i # at
      <4>1. i \in (N + 1 - (k - 1))..(N + 1) /\ i \in 1..(N + 1)
        BY <1>1, <2>2, <2>6, <3>2
      <4> QED BY <2>5, <2>7, <3>2, <4>1
    <3> QED BY <3>1, <3>2
  <2>10. Built(h, k)
    BY <2>7, <2>9
  <2> QED BY <2>2, <2>10
<1>3. PICK g : Built(g, N)
  BY <1>1, <1>2
<1>4. g = [i \in 1..(N + 1) |-> ScanBody(p, g, i)]
  <2>1. N + 1 - N = 1
    BY <1>1
  <2>2. /\ g = [i \in 1..(N + 1) |-> g[i]]
        /\ \A i \in 1..(N + 1) : g[i] = ScanBody(p, g, i)
    BY <1>3, <2>1
  <2> QED BY <2>2
<1>5. \E f : f = [i \in 1..(Len(p) + 1) |-> ScanBody(p, f, i)]
  BY <1>4
<1> QED BY <1>5 DEF Scan
(***************************************************************************)
(* The units of a buffer, unit by unit                                     *)
(***************************************************************************)
Unit(p, e) == SubSeq(p, e + 1, UnitEnd(p, e))
UnitsAt(p, S) == [k \in 1..Cardinality(S) |-> Unit(p, Nth(S, k))]
Codes(p) == {e \in CodeEnds(p) : UnitEnd(p, e) > e}

LEMMA UnitsAreAt ==
  ASSUME NEW p PROVE AnnexBUnits(p) = UnitsAt(p, Codes(p))
BY DEF AnnexBUnits, UnitsAt, Codes, Unit

(* No code, no unit.                                                       *)
LEMMA NoUnits ==
  ASSUME NEW p PROVE UnitsAt(p, {}) = <<>>
<1>1. Cardinality({}) = 0
  BY FS_EmptySet
<1>2. 1..0 = {}
  OBVIOUS
<1> QED BY <1>1, <1>2 DEF UnitsAt

(* The first of a finite set of numbers.                                   *)
Least(m, S) == IsFiniteSet(S) /\ S \subseteq Nat /\ m \in S /\ \A e \in S : m <= e

(* The rank of an element, without the least one.                          *)
LEMMA RankStep ==
  ASSUME NEW S, NEW m, Least(m, S)
  PROVE  /\ Rank(S, m) = 1
         /\ \A e \in S \ {m} : /\ Rank(S \ {m}, e) \in Nat \ {0}
                              /\ Rank(S, e) = Rank(S \ {m}, e) + 1
<1> USE DEF Least
<1>1. Rank(S, m) = 1
  <2>1. \A f \in S : f <= m => f = m
    <3> SUFFICES ASSUME NEW f \in S, f <= m PROVE f = m
      OBVIOUS
    <3>1. f \in Nat /\ m \in Nat /\ m <= f
      OBVIOUS
    <3> QED BY <3>1
  <2>2. m <= m
    OBVIOUS
  <2>3. {f \in S : f <= m} = {m}
    BY <2>1, <2>2
  <2>4. Cardinality({m}) = 1
    BY FS_Singleton
  <2> QED BY <2>3, <2>4 DEF Rank
<1>2. ASSUME NEW e \in S \ {m}
      PROVE  Rank(S \ {m}, e) \in Nat \ {0} /\ Rank(S, e) = Rank(S \ {m}, e) + 1
  <2> DEFINE A == {f \in S \ {m} : f <= e}
  <2>1. IsFiniteSet(A)
    <3>1. A \subseteq S
      OBVIOUS
    <3> QED BY <3>1, FS_Subset
  <2>2. {f \in S : f <= e} = A \cup {m}
    OBVIOUS
  <2>3. m \notin A /\ e \in A
    OBVIOUS
  <2>4. Rank(S, e) = Cardinality(A \cup {m}) /\ Rank(S \ {m}, e) = Cardinality(A)
    BY <2>2 DEF Rank
  <2> HIDE DEF A
  <2>5. Cardinality(A \cup {m}) = Cardinality(A) + 1
    BY <2>1, <2>3, FS_AddElement
  <2>6. Cardinality(A) \in Nat
    BY <2>1, FS_CardinalityType
  <2>7. Cardinality(A) # 0
    BY <2>1, <2>3, FS_EmptySet
  <2> QED BY <2>4, <2>5, <2>6, <2>7
<1> QED BY <1>1, <1>2

(* The elements of a set, by rank: the least one comes first.              *)
LEMMA NthStep ==
  ASSUME NEW S, NEW m, Least(m, S)
  PROVE  /\ Nth(S, 1) = m
         /\ \A k \in Nat \ {0} : Nth(S, k + 1) = Nth(S \ {m}, k)
<1> DEFINE T == S \ {m}
<1>1. /\ Rank(S, m) = 1
      /\ \A e \in T : Rank(T, e) \in Nat \ {0} /\ Rank(S, e) = Rank(T, e) + 1
  BY RankStep
<1>0. m \in S /\ S \subseteq Nat
  BY DEF Least
<1>2. Nth(S, 1) = m
  <2>1. \A e \in T : Rank(S, e) # 1
    BY <1>1
  <2>2. {e \in S : Rank(S, e) = 1} = {m}
    BY <1>0, <1>1, <2>1
  <2>3. Min({m}) = m
    <3> DEFINE M == {m}
    <3>1. M \subseteq Nat /\ M # {} /\ \A n \in M : n = m
      BY <1>0
    <3> HIDE DEF M
    <3>2. Min(M) \in M
      BY <3>1, MinIs
    <3> QED BY <3>1, <3>2 DEF M
  <2> QED BY <2>2, <2>3 DEF Nth
<1>3. ASSUME NEW k \in Nat \ {0} PROVE Nth(S, k + 1) = Nth(T, k)
  <2>1. Rank(S, m) # k + 1 /\ \A e \in T : Rank(S, e) = k + 1 <=> Rank(T, e) = k
    <3> HIDE DEF T
    <3>1. Rank(S, m) # k + 1
      BY <1>1
    <3>2. \A e \in T : Rank(S, e) = k + 1 <=> Rank(T, e) = k
      BY <1>1
    <3> QED BY <3>1, <3>2
  <2>2. {e \in S : Rank(S, e) = k + 1} = {e \in T : Rank(T, e) = k}
    BY <1>0, <2>1
  <2> QED BY <2>2 DEF Nth
<1> QED BY <1>2, <1>3

(* A sequence begins with its first element.                               *)
LEMMA Prepend ==
  ASSUME NEW V, NEW n \in Nat, NEW a \in [1..(n + 1) -> V], NEW g \in [1..n -> V],
         \A k \in 1..n : a[k + 1] = g[k]
  PROVE  a = <<a[1]>> \o g
<1>1. g \in Seq(V) /\ Len(g) = n
  OBVIOUS
<1>2. a \in Seq(V) /\ Len(a) = n + 1
  OBVIOUS
<1>3. a[1] \in V
  OBVIOUS
<1> DEFINE b == <<a[1]>> \o g
<1>4. /\ b \in Seq(V) /\ Len(b) = n + 1 /\ b[1] = a[1]
      /\ \A i \in 2..(n + 1) : b[i] = g[i - 1]
  BY <1>1, <1>3
<1> HIDE DEF b
<1>5. \A i \in 1..(n + 1) : a[i] = b[i]
  <2> SUFFICES ASSUME NEW i \in 1..(n + 1) PROVE a[i] = b[i]
    OBVIOUS
  <2>1. CASE i = 1
    BY <1>4, <2>1
  <2>2. CASE i # 1
    <3>1. i - 1 \in 1..n /\ (i - 1) + 1 = i
      BY <2>2
    <3> QED BY <1>4, <2>2, <3>1
  <2> QED BY <2>1, <2>2
<1>6. a = b
  BY <1>2, <1>4, <1>5
<1> QED BY <1>6 DEF b

Begins(a, x, rest) == a = <<x>> \o rest

(* The unit of the first code, then those of the others.                   *)
LEMMA UnitsSplit ==
  ASSUME NEW p, NEW S, NEW m, Least(m, S)
  PROVE  Begins(UnitsAt(p, S), Unit(p, m), UnitsAt(p, S \ {m}))
<1> DEFINE n == Cardinality(S \ {m})
<1>1. n \in Nat /\ Cardinality(S) = n + 1
  <2>1. IsFiniteSet(S) /\ m \in S
    BY DEF Least
  <2>2. IsFiniteSet(S \ {m}) /\ n = Cardinality(S) - 1
    BY <2>1, FS_RemoveElement
  <2>3. n \in Nat /\ Cardinality(S) \in Nat
    BY <2>1, <2>2, FS_CardinalityType
  <2> HIDE DEF n
  <2> QED BY <2>2, <2>3
<1>2. Nth(S, 1) = m /\ \A k \in 1..n : Nth(S, k + 1) = Nth(S \ {m}, k)
  <2>1. \A k \in 1..n : k \in Nat \ {0}
    OBVIOUS
  <2> QED BY <2>1, NthStep
<1> HIDE DEF n
<1> DEFINE a == UnitsAt(p, S)
           g == UnitsAt(p, S \ {m})
           V == {Unit(p, Nth(S, k)) : k \in 1..(n + 1)} \cup
                {Unit(p, Nth(S \ {m}, k)) : k \in 1..n}
<1>3. a \in [1..(n + 1) -> V] /\ \A k \in 1..(n + 1) : a[k] = Unit(p, Nth(S, k))
  BY <1>1 DEF UnitsAt
<1>4. g \in [1..n -> V] /\ \A k \in 1..n : g[k] = Unit(p, Nth(S \ {m}, k))
  BY DEF UnitsAt, n
<1>5. \A k \in 1..n : k + 1 \in 1..(n + 1)
  BY <1>1
<1>6. \A k \in 1..n : a[k + 1] = g[k]
  BY <1>2, <1>3, <1>4, <1>5
<1>7. a[1] = Unit(p, m)
  BY <1>1, <1>2, <1>3
<1> HIDE DEF a, g, V
<1>8. a = <<a[1]>> \o g
  BY <1>1, <1>3, <1>4, <1>6, Prepend
<1> QED BY <1>7, <1>8 DEF a, g, Begins

(* Codes are finitely many numbers.                                        *)
LEMMA CodesAre ==
  ASSUME NEW p \in Seq(Nat), NEW S, S \subseteq CodeEnds(p)
  PROVE  IsFiniteSet(S) /\ S \subseteq Nat
<1>1. CodeEnds(p) \subseteq 3..Len(p)
  BY DEF CodeEnds
<1>2. IsFiniteSet(3..Len(p))
  BY FS_Interval
<1>3. S \subseteq 3..Len(p)
  BY <1>1
<1>4. IsFiniteSet(S)
  BY <1>2, <1>3, FS_Subset
<1>5. S \subseteq Nat
  BY <1>3
<1> QED BY <1>4, <1>5

(* The unit behind a start code at i is what the scan takes: the next code *)
(* found is the one Annex B looks at.                                      *)
LEMMA UnitBehind ==
  ASSUME NEW p \in Seq(Nat), NEW i \in 1..Len(p), StartCode(p, i) # 0
  PROVE  /\ After(p, i) - 1 \in CodeEnds(p)
         /\ \A f \in CodeEnds(p) : f > After(p, i) - 1 <=> f > Next1(p, i)
         /\ UnitEnd(p, After(p, i) - 1) = Next1(p, i) - 1
<1> DEFINE first == After(p, i)
           next  == Next1(p, i)
           e     == first - 1
<1>1. /\ Len(p) \in Nat /\ i \in Nat \ {0}
      /\ first \in i..(Len(p) + 1) /\ next \in (i + 1)..(Len(p) + 1) /\ next >= first
  BY ScanAdvances
<1>2. e \in CodeEnds(p)
  <2>1. i + StartCode(p, i) - 1 \in CodeEnds(p)
    BY <1>1, CodeHasEnd
  <2>2. After(p, i) = i + StartCode(p, i)
    BY DEF After
  <2>3. i \in Int /\ StartCode(p, i) \in Int
    BY <1>1, CodeBytes
  <2>4. e = i + StartCode(p, i) - 1
    BY <2>2, <2>3
  <2> QED BY <2>1, <2>4
<1>3. e \in Int /\ 3 <= e /\ e <= Len(p) /\ p[e] = 1
  BY <1>2, EndHasCode, CodeEndsAre
<1>4. /\ next = NextStart(p, first) /\ first \in 1..(Len(p) + 1)
      /\ next <= Len(p) => StartCode(p, next) # 0
      /\ \A j \in first..Len(p) : StartCode(p, j) # 0 => next <= j
  BY <1>1, NextStartIs DEF Next1
<1> HIDE DEF first, next
<1>5. \A f \in CodeEnds(p) : f > e <=> f > next
  <2>0. \A f \in CodeEnds(p) : f > next => f > e
    <3>1. \A f \in CodeEnds(p) : f \in Int
      BY EndHasCode
    <3>2. first \in Int /\ next \in Int /\ next >= first /\ e = first - 1
      BY <1>1
    <3> HIDE DEF e
    <3> QED BY <3>1, <3>2
  <2> SUFFICES ASSUME NEW f \in CodeEnds(p), f > e PROVE f > next
    BY <2>0
  <2>1. /\ f \in Int /\ 3 <= f /\ f <= Len(p) /\ StartCode(p, f - 2) = 3
        /\ p[f - 2] = 0 /\ p[f - 1] = 0
    <3>1. f \in Int /\ 3 <= f /\ f <= Len(p) /\ StartCode(p, f - 2) = 3
      BY EndHasCode
    <3> QED BY <3>1, CodeEndsAre
  <2>2. f - 1 # e /\ f - 2 # e
    <3>1. p[f - 1] # p[e] /\ p[f - 2] # p[e]
      BY <1>3, <2>1
    <3> HIDE DEF e
    <3> QED BY <3>1
  <2>3. f - 2 \in first..Len(p)
    <3>1. f \in Int /\ f > e /\ f <= Len(p) /\ f - 1 # e /\ f - 2 # e
      BY <2>1, <2>2
    <3>2. first \in Int /\ Len(p) \in Int /\ e = first - 1
      BY <1>1
    <3> HIDE DEF e
    <3> QED BY <3>1, <3>2
  <2>4. next <= f - 2
    <3>1. StartCode(p, f - 2) # 0
      BY <2>1
    <3> QED BY <1>4, <2>3, <3>1
  <2> QED BY <1>1, <2>1, <2>4
<1> DEFINE later == {f \in CodeEnds(p) : f > e}
<1>6. UnitEnd(p, e) = IF later = {} THEN Len(p)
                      ELSE IF Min(later) - 3 > e /\ p[Min(later) - 3] = 0
                             THEN (Min(later) - 3) - 1 ELSE Min(later) - 3
  BY DEF UnitEnd
<1>7. later = {f \in CodeEnds(p) : f > next}
  BY <1>5
<1>8. CASE next = Len(p) + 1
  <2>1. later = {}
    BY <1>1, <1>7, <1>8, EndHasCode
  <2> QED BY <1>1, <1>2, <1>5, <1>6, <1>8, <2>1 DEF first, next
<1>9. CASE next # Len(p) + 1
  <2> DEFINE g == next + StartCode(p, next) - 1
  <2>1. next \in Nat \ {0} /\ next <= Len(p) /\ StartCode(p, next) # 0
    BY <1>1, <1>4, <1>9
  <2>2. StartCode(p, next) \in {3, 4}
    BY <2>1, CodeBytes
  <2>3. g \in CodeEnds(p) /\ \A f \in CodeEnds(p) : f > next => f >= g
    BY <2>1, CodeHasEnd
  <2>4. g \in later /\ \A f \in later : f >= g
    BY <1>7, <2>1, <2>2, <2>3
  <2>5. Min(later) = g
    <3>1. later \subseteq Nat
      BY CodesAre
    <3> HIDE DEF later, g
    <3>2. Min(later) \in later /\ Min(later) <= g
      BY <2>4, <3>1, MinIs
    <3>3. Min(later) \in Nat /\ g \in Nat /\ Min(later) >= g
      BY <2>4, <3>1, <3>2
    <3> QED BY <3>2, <3>3
  <2>6. later # {}
    BY <2>4
  <2> HIDE DEF later
  <2>7. CASE StartCode(p, next) = 4
    <3>1. p[next] = 0 /\ g - 3 = next
      BY <2>1, <2>7, CodeBytes
    <3>2. next > e
      BY <1>1
    <3> QED BY <1>2, <1>5, <1>6, <2>5, <2>6, <3>1, <3>2 DEF first, next
  <2>8. CASE StartCode(p, next) = 3
    <3>1. /\ next + 2 <= Len(p) /\ g - 3 = next - 1
          /\ p[next] = 0 /\ p[next + 1] = 0 /\ p[next + 2] = 1
      BY <2>1, <2>8, CodeBytes
    <3>2. ~(next - 1 > e /\ p[next - 1] = 0)
      <4> SUFFICES ASSUME next - 1 > e, p[next - 1] = 0 PROVE FALSE
        OBVIOUS
      <4>1. next - 1 \in first..Len(p) /\ next - 1 \in Nat \ {0}
        BY <1>1, <2>1
      <4>2. StartCode(p, next - 1) = 4
        <5> DEFINE k == next - 1
        <5>1. k \in Nat \ {0} /\ k + 1 = next /\ k + 2 = next + 1 /\ k + 3 = next + 2
          BY <2>1, <4>1
        <5>2. p[k] = 0
          OBVIOUS
        <5> HIDE DEF k
        <5>3. /\ k + 3 <= Len(p)
              /\ p[k] = 0 /\ p[k + 1] = 0 /\ p[k + 2] = 0 /\ p[k + 3] = 1
          BY <3>1, <5>1, <5>2
        <5>4. StartCode(p, k) = 4
          BY <5>1, <5>3, CodeBytes
        <5> QED BY <5>4 DEF k
      <4>3. next <= next - 1
        BY <1>4, <4>1, <4>2
      <4> QED BY <2>1, <4>3
    <3>3. UnitEnd(p, e) = next - 1
      BY <1>6, <2>5, <2>6, <3>1, <3>2
    <3> QED BY <1>2, <1>5, <3>3 DEF first, next
  <2> QED BY <2>2, <2>7, <2>8
<1> QED BY <1>8, <1>9

(* From a start code on, the scan collects the units of Annex B.           *)
From(p, i) == UnitsAt(p, {e \in Codes(p) : e > i})

(* One pass of the scan takes one unit, or none when it is empty.          *)
LEMMA ScanStep ==
  ASSUME NEW p \in Seq(Nat), NEW i \in 1..Len(p), StartCode(p, i) # 0,
         Scan(p)[Next1(p, i)] = From(p, Next1(p, i))
  PROVE  Scan(p)[i] = From(p, i)
<1> DEFINE first == After(p, i)
           next  == Next1(p, i)
           e     == first - 1
           S     == {f \in Codes(p) : f > i}
           T     == {f \in Codes(p) : f > next}
<1>1. /\ i \in 1..(Len(p) + 1) /\ ~(i > Len(p)) /\ Len(p) \in Nat
      /\ first \in Int /\ next \in Int /\ next > i /\ next >= first
  BY ScanAdvances
<1>2. Scan(p)[i] = (IF next > first THEN <<SubSeq(p, first, next - 1)>> ELSE <<>>)
                   \o From(p, next)
  <2>1. Scan(p)[i] = ScanBody(p, Scan(p), i)
    BY <1>1, ScanIs
  <2>2. ScanBody(p, Scan(p), i) =
          (IF next > first THEN <<SubSeq(p, first, next - 1)>> ELSE <<>>)
          \o Scan(p)[next]
    BY <1>1 DEF ScanBody
  <2> QED BY <2>1, <2>2
<1>3. /\ e \in CodeEnds(p) /\ UnitEnd(p, e) = next - 1
      /\ \A f \in CodeEnds(p) : f > e <=> f > next
  BY UnitBehind
<1>4. \A f \in CodeEnds(p) : f \in Int /\ (f > i => f >= e)
  <2>1. \A f \in CodeEnds(p) : f \in Int
    BY EndHasCode
  <2>2. \A f \in CodeEnds(p) : f > i => f >= i + StartCode(p, i) - 1
    BY <1>1, CodeHasEnd
  <2>3. After(p, i) = i + StartCode(p, i)
    BY DEF After
  <2>4. i \in Int /\ StartCode(p, i) \in Int
    BY <1>1, CodeBytes
  <2>5. e = i + StartCode(p, i) - 1
    BY <2>3, <2>4
  <2> HIDE DEF e
  <2> QED BY <2>1, <2>2, <2>5
<1>5. e > i
  <2>1. StartCode(p, i) \in {3, 4}
    BY <1>1, CodeBytes
  <2> QED BY <1>1, <2>1 DEF After
<1> HIDE DEF first, next
<1>6. Codes(p) \subseteq CodeEnds(p)
  BY DEF Codes
<1>7. e \in Codes(p) <=> next > first
  BY <1>1, <1>3 DEF Codes
<1>8. T = S \ {e}
  <2>1. \A f \in CodeEnds(p) : f > next <=> f > i /\ f # e
    BY <1>1, <1>3, <1>4, <1>5
  <2> QED BY <1>6, <2>1
<1>9. IsFiniteSet(S) /\ S \subseteq Nat
  BY <1>6, CodesAre
<1>10. \A f \in S : e <= f
  BY <1>1, <1>4, <1>6
<1>11. CASE next > first
  <2>1. e \in S
    BY <1>5, <1>7, <1>11
  <2> HIDE DEF S, T
  <2>2. UnitsAt(p, S) = <<Unit(p, e)>> \o UnitsAt(p, T)
    <3>1. Least(e, S)
      BY <1>9, <1>10, <2>1 DEF Least
    <3>2. UnitsAt(p, S) = <<Unit(p, e)>> \o UnitsAt(p, S \ {e})
      <4> HIDE DEF e
      <4>1. Begins(UnitsAt(p, S), Unit(p, e), UnitsAt(p, S \ {e}))
        BY <3>1, UnitsSplit
      <4> QED BY <4>1 DEF Begins
    <3> QED BY <1>8, <3>2
  <2>3. Unit(p, e) = SubSeq(p, first, next - 1)
    <3>1. e + 1 = first
      BY <1>1
    <3>2. Unit(p, e) = SubSeq(p, e + 1, UnitEnd(p, e))
      BY DEF Unit
    <3> QED BY <1>3, <3>1, <3>2
  <2> QED BY <1>2, <1>11, <2>2, <2>3 DEF From, S, T, next
<1>12. CASE ~(next > first)
  <2>1. S = T
    BY <1>7, <1>8, <1>12
  <2> DEFINE s == UnitsAt(p, T)
             V == {Unit(p, Nth(T, k)) : k \in 1..Cardinality(T)}
  <2>2. s \in Seq(V)
    <3>1. IsFiniteSet(T)
      BY <1>8, <1>9, FS_Subset
    <3>2. Cardinality(T) \in Nat
      BY <3>1, FS_CardinalityType
    <3> DEFINE n == Cardinality(T)
    <3>3. s = [k \in 1..n |-> Unit(p, Nth(T, k))]
      BY DEF UnitsAt
    <3> HIDE DEF T, n, s
    <3>4. s \in [1..n -> V] /\ n \in Nat
      BY <3>2, <3>3 DEF n
    <3> HIDE DEF V
    <3> QED BY <3>4
  <2>3. s = <<>> \o s
    <3> HIDE DEF s, V
    <3> QED BY <2>2
  <2>4. From(p, i) = s /\ From(p, next) = s
    BY <2>1 DEF From
  <2> QED BY <1>2, <1>12, <2>3, <2>4
<1> QED BY <1>11, <1>12

LEMMA ScanFrom ==
  ASSUME NEW p \in Seq(Nat), NEW i \in 1..(Len(p) + 1),
         i <= Len(p) => StartCode(p, i) # 0
  PROVE  Scan(p)[i] = From(p, i)
<1> DEFINE N == Len(p)
           Good(j) == (j <= N => StartCode(p, j) # 0) => Scan(p)[j] = From(p, j)
           Bad == {d \in 0..N : ~Good(N + 1 - d)}
<1>1. N \in Nat
  OBVIOUS
<1>2. Bad = {}
  <2> SUFFICES ASSUME Bad # {} PROVE FALSE
    OBVIOUS
  <2>1. PICK d \in Bad : \A c \in Bad : d <= c
    <3>1. Bad \subseteq Nat
      BY <1>1
    <3> HIDE DEF Bad
    <3> QED BY <3>1, LeastOf
  <2> DEFINE j == N + 1 - d
  <2>2. d \in 0..N /\ ~Good(j) /\ j \in 1..(N + 1)
    BY <1>1
  <2>3. \A k \in 1..(N + 1) : k > j => Good(k)
    <3> SUFFICES ASSUME NEW k \in 1..(N + 1), k > j PROVE Good(k)
      OBVIOUS
    <3>1. N + 1 - k \in 0..N /\ N + 1 - (N + 1 - k) = k /\ ~(d <= N + 1 - k)
      BY <1>1, <2>2
    <3> HIDE DEF Good
    <3> QED BY <2>1, <3>1
  <2> HIDE DEF j
  <2>4. CASE j = N + 1
    <3>1. Scan(p)[j] = <<>>
      <4>1. j \in 1..(Len(p) + 1) /\ j > Len(p)
        BY <1>1, <2>2, <2>4
      <4>2. Scan(p)[j] = ScanBody(p, Scan(p), j)
        BY <4>1, ScanIs
      <4> QED BY <4>1, <4>2 DEF ScanBody
    <3>2. {e \in Codes(p) : e > j} = {}
      BY <1>1, <2>4, EndHasCode DEF Codes
    <3>3. From(p, j) = <<>>
      BY <3>2, NoUnits DEF From
    <3> QED BY <2>2, <3>1, <3>3
  <2>5. CASE j # N + 1
    <3>1. j \in 1..N /\ StartCode(p, j) # 0 /\ Scan(p)[j] # From(p, j)
      <4>1. j \in 1..N
        BY <1>1, <2>2, <2>5
      <4>2. ~Good(j)
        BY <2>2 DEF j
      <4> QED BY <1>1, <4>1, <4>2
    <3>2. Next1(p, j) \in 1..(N + 1) /\ Next1(p, j) > j
      BY <1>1, <3>1, ScanAdvances
    <3>3. Next1(p, j) <= N => StartCode(p, Next1(p, j)) # 0
      <4>1. After(p, j) \in 1..(N + 1)
        BY <1>1, <3>1, ScanAdvances
      <4> QED BY <4>1, NextStartIs DEF Next1
    <3>4. Scan(p)[Next1(p, j)] = From(p, Next1(p, j))
      BY <2>3, <3>2, <3>3
    <3> QED BY <3>1, <3>4, ScanStep
  <2> QED BY <2>4, <2>5
<1>3. N + 1 - i \in 0..N /\ N + 1 - (N + 1 - i) = i
  BY <1>1
<1>4. Good(i)
  <2> HIDE DEF Good
  <2> QED BY <1>2, <1>3
<1> QED BY <1>4

(* In every buffer split_nals() finds exactly the units of Annex B.        *)
LEMMA SplitExact ==
  ASSUME NEW p \in Seq(Nat) PROVE SplitNals(p) = AnnexBUnits(p)
<1> DEFINE i == NextStart(p, 1)
<1>1. 1 \in 1..(Len(p) + 1) /\ Len(p) \in Nat
  OBVIOUS
<1>2. /\ i \in 1..(Len(p) + 1)
      /\ i <= Len(p) => StartCode(p, i) # 0
      /\ \A j \in 1..Len(p) : StartCode(p, j) # 0 => i <= j
  BY <1>1, NextStartIs
<1> HIDE DEF i
<1>3. Scan(p)[i] = From(p, i)
  BY <1>2, ScanFrom
<1>4. \A e \in CodeEnds(p) : e > i
  <2> SUFFICES ASSUME NEW e \in CodeEnds(p) PROVE e > i
    OBVIOUS
  <2>1. e \in Int /\ 3 <= e /\ e <= Len(p) /\ StartCode(p, e - 2) = 3
    BY EndHasCode
  <2>2. e - 2 \in 1..Len(p)
    BY <1>1, <2>1
  <2>3. i <= e - 2
    <3>1. StartCode(p, e - 2) # 0
      BY <2>1
    <3> QED BY <1>2, <2>2, <3>1
  <2> QED BY <1>2, <2>1, <2>3
<1>5. {e \in Codes(p) : e > i} = Codes(p)
  BY <1>4 DEF Codes
<1> QED BY <1>3, <1>5, SplitIsScan, UnitsAreAt DEF From, i
------------------------------------------------------------------------------
(***************************************************************************)
(* Nothing is lost                                                         *)
(***************************************************************************)
Calls == [track : {"video", "audio"}, ts : Times, data : AccessUnits \cup {<<>>}]

(* Bytes are numbers.                                                      *)
LEMMA Wider ==
  ASSUME NEW A, NEW B, A \subseteq B, NEW s \in Seq(A)
  PROVE  s \in Seq(B)
<1>1. s \in [1..Len(s) -> B] /\ Len(s) \in Nat
  OBVIOUS
<1> QED BY <1>1

LEMMA BytesAreNumbers ==
  ASSUME NEW s \in Seq(0..255)
  PROVE  s \in Seq(Nat)
<1> DEFINE A == 0..255
<1>1. A \subseteq Nat
  OBVIOUS
<1>2. s \in Seq(A)
  OBVIOUS
<1> HIDE DEF A
<1> QED BY <1>1, <1>2, Wider

(* An access unit is framed as it is due, and dropped when nothing is due. *)
LEMMA FramedExactly ==
  ASSUME NEW au \in AccessUnits
  PROVE  /\ SplitNals(au) = AnnexBUnits(au)
         /\ LengthPrefixed(au) = <<>> <=> AnnexBUnits(au) = <<>>
<1>1. au \in Seq(Nat)
  <2>1. au \in Seq(0..255)
    BY MuxerAssumption
  <2> QED BY <2>1, BytesAreNumbers
<1>2. SplitNals(au) = AnnexBUnits(au)
  BY <1>1, SplitExact
<1> DEFINE u == AnnexBUnits(au)
           n == Cardinality(Codes(au))
<1>3. n \in Nat
  <2>1. IsFiniteSet(Codes(au))
    BY <1>1, CodesAre DEF Codes
  <2> QED BY <2>1, FS_CardinalityType
<1>4. u = [k \in 1..n |-> Unit(au, Nth(Codes(au), k))]
  BY UnitsAreAt DEF UnitsAt
<1>5. LengthPrefixed(au) = [i \in DOMAIN u |-> [length |-> Len(u[i]), data |-> u[i]]]
  BY <1>2 DEF LengthPrefixed
<1> HIDE DEF u, n
<1>6. DOMAIN u = 1..n
  BY <1>4
<1>7. LengthPrefixed(au) = <<>> <=> n = 0
  BY <1>3, <1>5, <1>6
<1>8. u = <<>> <=> n = 0
  BY <1>3, <1>4
<1> QED BY <1>2, <1>7, <1>8 DEF u

(* One more block, behind all the others.                                  *)
PlacesIn(C) == UNION {{c} \X DOMAIN C[c].blocks : c \in DOMAIN C}
At(C, p) == C[p[1]].blocks[p[2]]

LEMMA PlacesAre ==
  ASSUME NEW C, NEW p
  PROVE  p \in PlacesIn(C) <=>
           \E c \in DOMAIN C : \E i \in DOMAIN C[c].blocks : p = <<c, i>>
BY DEF PlacesIn

(* D holds what C does and one block more, the k-th of its n-th cluster.    *)
Grown(C, D, n, k) ==
  /\ n \in Nat /\ k \in Nat \ {0}
  /\ DOMAIN C \subseteq 1..n /\ DOMAIN D = DOMAIN C \cup {n}
  /\ \A c \in DOMAIN C : DOMAIN C[c].blocks \subseteq Nat
  /\ \A c \in DOMAIN C : c # n => D[c].blocks = C[c].blocks
  /\ DOMAIN D[n].blocks = 1..k
  /\ n \notin DOMAIN C => k = 1
  /\ n \in DOMAIN C => /\ DOMAIN C[n].blocks = 1..(k - 1)
                      /\ \A i \in 1..(k - 1) : D[n].blocks[i] = C[n].blocks[i]

LEMMA OneMore ==
  ASSUME NEW C, NEW D, NEW n, NEW k, Grown(C, D, n, k)
  PROVE  /\ PlacesIn(D) = PlacesIn(C) \cup {<<n, k>>}
         /\ \A p \in PlacesIn(C) : Before(p, <<n, k>>) /\ At(D, p) = At(C, p)
<1> USE DEF Grown
<1>1. ASSUME NEW p \in PlacesIn(C)
      PROVE  p \in PlacesIn(D) /\ Before(p, <<n, k>>) /\ At(D, p) = At(C, p)
  <2>1. PICK c \in DOMAIN C : \E i \in DOMAIN C[c].blocks : p = <<c, i>>
    BY PlacesAre
  <2>0. PICK i \in DOMAIN C[c].blocks : p = <<c, i>>
    BY <2>1
  <2>2. c \in 1..n /\ c \in DOMAIN D /\ p[1] = c /\ p[2] = i
    BY <2>0, <2>1
  <2>3. CASE c = n
    <3>1. i \in 1..(k - 1) /\ D[c].blocks[i] = C[c].blocks[i]
      BY <2>0, <2>1, <2>3
    <3>2. i \in DOMAIN D[c].blocks /\ i < k
      BY <2>3, <3>1
    <3>3. p \in PlacesIn(D)
      BY <2>0, <2>1, <2>2, <3>2, PlacesAre
    <3> QED BY <2>2, <2>3, <3>1, <3>2, <3>3 DEF Before, At
  <2>4. CASE c # n
    <3>1. D[c].blocks = C[c].blocks /\ c < n
      BY <2>0, <2>1, <2>2, <2>4
    <3>2. p \in PlacesIn(D)
      BY <2>0, <2>1, <2>2, <3>1, PlacesAre
    <3> QED BY <2>2, <3>1, <3>2 DEF Before, At
  <2> QED BY <2>3, <2>4
<1>2. <<n, k>> \in PlacesIn(D)
  <2>1. n \in DOMAIN D /\ k \in DOMAIN D[n].blocks
    OBVIOUS
  <2> QED BY <2>1, PlacesAre
<1>3. ASSUME NEW p \in PlacesIn(D), p # <<n, k>> PROVE p \in PlacesIn(C)
  <2>1. PICK c \in DOMAIN D : \E i \in DOMAIN D[c].blocks : p = <<c, i>>
    BY PlacesAre
  <2>0. PICK i \in DOMAIN D[c].blocks : p = <<c, i>>
    BY <2>1
  <2>2. CASE c = n
    <3>1. i \in 1..k /\ i # k
      BY <1>3, <2>0, <2>1, <2>2
    <3>2. n \in DOMAIN C /\ i \in DOMAIN C[n].blocks
      BY <3>1
    <3> QED BY <2>0, <2>1, <2>2, <3>2, PlacesAre
  <2>3. CASE c # n
    <3>1. c \in DOMAIN C /\ D[c].blocks = C[c].blocks
      BY <2>0, <2>1, <2>3
    <3> QED BY <2>0, <2>1, <3>1, PlacesAre
  <2> QED BY <2>2, <2>3
<1> QED BY <1>1, <1>2, <1>3

(* The clusters of the file and the open one behind them.                  *)
LEMMA ClustersTyped ==
  ASSUME ClusterInv
  PROVE  /\ file \in Seq(Cluster) /\ Len(file) \in Nat
         /\ DOMAIN Clusters = 1..(Len(file) + 1)
         /\ \A c \in 1..Len(file) : Clusters[c] = file[c]
         /\ Clusters[Len(file) + 1] = cluster
         /\ \A c \in DOMAIN Clusters :
              /\ Clusters[c].blocks \in Seq(Block)
              /\ DOMAIN Clusters[c].blocks = 1..Len(Clusters[c].blocks)
              /\ Len(Clusters[c].blocks) \in Nat
<1>1. cluster \in Cluster /\ file \in Seq(Cluster)
  BY DEF ClusterInv
<1>2. /\ Len(file) \in Nat
      /\ DOMAIN Clusters = 1..(Len(file) + 1)
      /\ \A c \in 1..Len(file) : Clusters[c] = file[c] /\ file[c] \in Cluster
      /\ Clusters[Len(file) + 1] = cluster
  <2> HIDE DEF Cluster
  <2> QED BY <1>1 DEF Clusters
<1>3. \A c \in DOMAIN Clusters : Clusters[c] \in Cluster
  BY <1>1, <1>2
<1>4. \A r \in Cluster : r.blocks \in Seq(Block)
  BY DEF Cluster
<1>5. \A s \in Seq(Block) : DOMAIN s = 1..Len(s) /\ Len(s) \in Nat
  OBVIOUS
<1> QED BY <1>1, <1>2, <1>3, <1>4, <1>5

(* A block goes behind all the others, whether a cluster begins or not.    *)
LEMMA AddPlace ==
  ASSUME ClusterInv, NEW rel, NEW key, NEW block \in Block,
         AddBlock(rel, key, block)
  PROVE  \E q : /\ PlacesIn(Clusters') = PlacesIn(Clusters) \cup {q}
                /\ At(Clusters', q) = block
                /\ \A p \in PlacesIn(Clusters) :
                     Before(p, q) /\ At(Clusters', p) = At(Clusters, p)
<1> DEFINE N == Len(file)
           b == cluster.blocks
           C == Clusters
           D == Clusters'
<1>1. /\ file \in Seq(Cluster) /\ N \in Nat
      /\ DOMAIN C = 1..(N + 1)
      /\ \A c \in 1..N : C[c] = file[c]
      /\ C[N + 1] = cluster
      /\ \A c \in DOMAIN C : DOMAIN C[c].blocks \subseteq Nat
      /\ b \in Seq(Block) /\ DOMAIN b = 1..Len(b) /\ Len(b) \in Nat
  BY ClustersTyped
<1>2. D = Append(file', cluster')
  BY DEF Clusters
<1>3. /\ Append(b, block) \in Seq(Block) /\ DOMAIN Append(b, block) = 1..(Len(b) + 1)
      /\ \A i \in 1..Len(b) : Append(b, block)[i] = b[i]
      /\ Append(b, block)[Len(b) + 1] = block
  <2> HIDE DEF b
  <2> QED BY <1>1
<1>4. CASE ~NeedsCluster(rel, key) \/ cluster = NoCluster
  <2>1. file' = file /\ cluster'.blocks = Append(b, block)
    <3>1. CASE ~NeedsCluster(rel, key)
      <4>1. cluster \in Cluster
        BY DEF ClusterInv
      <4>2. cluster' = [cluster EXCEPT !.blocks = Append(@, block)] /\ file' = file
        BY <3>1 DEF AddBlock
      <4> QED BY <4>1, <4>2 DEF Cluster
    <3>2. CASE cluster = NoCluster
      <4>1. cluster' = [base |-> rel, blocks |-> <<block>>] /\ file' = file
        BY <3>2 DEF AddBlock, NeedsCluster, Flushed
      <4>2. Append(<<>>, block) = <<block>>
        OBVIOUS
      <4> QED BY <3>2, <4>1, <4>2 DEF NoCluster
    <3> QED BY <1>4, <3>1, <3>2
  <2>2. /\ DOMAIN D = 1..(N + 1)
        /\ \A c \in 1..N : D[c] = file[c]
        /\ D[N + 1] = cluster'
    <3> HIDE DEF C, D, N
    <3>1. D = Append(file, cluster')
      BY <1>2, <2>1
    <3>2. Len(file) = N
      BY DEF N
    <3>3. file \in Seq({file[i] : i \in DOMAIN file} \cup {cluster'})
      BY <1>1
    <3> QED BY <1>1, <3>1, <3>2, <3>3
  <2> DEFINE n == N + 1
             k == Len(b) + 1
  <2>3. n \in Nat /\ k \in Nat \ {0} /\ k - 1 = Len(b) /\ n \in DOMAIN C
        /\ DOMAIN C = 1..n /\ DOMAIN D = DOMAIN C \cup {n}
        /\ \A c \in DOMAIN C : c # n => c \in 1..N
    BY <1>1, <2>2
  <2>4. DOMAIN D[n].blocks = 1..k /\ D[n].blocks[k] = block
        /\ DOMAIN C[n].blocks = 1..(k - 1)
        /\ \A i \in 1..(k - 1) : D[n].blocks[i] = C[n].blocks[i]
    BY <1>1, <1>3, <2>1, <2>2, <2>3
  <2>5. \A c \in DOMAIN C : c # n => D[c].blocks = C[c].blocks
    BY <1>1, <2>2, <2>3
  <2> HIDE DEF C, D, n, k
  <2>6. /\ PlacesIn(D) = PlacesIn(C) \cup {<<n, k>>}
        /\ \A p \in PlacesIn(C) : Before(p, <<n, k>>) /\ At(D, p) = At(C, p)
    <3>1. /\ DOMAIN C \subseteq 1..n
          /\ \A c \in DOMAIN C : DOMAIN C[c].blocks \subseteq Nat
      BY <1>1, <2>3 DEF C
    <3>2. Grown(C, D, n, k)
      BY <2>3, <2>4, <2>5, <3>1 DEF Grown
    <3> QED BY <3>2, OneMore
  <2>7. At(D, <<n, k>>) = block
    BY <2>4 DEF At
  <2> QED BY <2>6, <2>7 DEF C, D
<1>5. CASE NeedsCluster(rel, key) /\ cluster # NoCluster
  <2>1. file' = Append(file, cluster) /\ cluster' = [base |-> rel, blocks |-> <<block>>]
    BY <1>5 DEF AddBlock, Flushed
  <2>2. C = Append(file, cluster)
    BY DEF Clusters
  <2>3. /\ DOMAIN D = 1..(N + 2)
        /\ \A c \in 1..(N + 1) : D[c] = C[c]
        /\ D[N + 2] = cluster'
    <3>1. C \in Seq({C[i] : i \in 1..(N + 1)} \cup {cluster'}) /\ Len(C) = N + 1
      <4> DEFINE W == {file[i] : i \in DOMAIN file} \cup {cluster, cluster'}
      <4>1. file \in Seq(W)
        BY <1>1
      <4>2. cluster \in W /\ cluster' \in W
        OBVIOUS
      <4> HIDE DEF W
      <4>3. Append(file, cluster) \in Seq(W) /\ Len(Append(file, cluster)) = N + 1
        BY <1>1, <4>1, <4>2
      <4> HIDE DEF C, N
      <4> QED BY <1>1, <2>2, <4>3
    <3> HIDE DEF C, D, N
    <3>2. D = Append(C, cluster')
      BY <1>2, <2>1, <2>2
    <3>3. (N + 1) + 1 = N + 2
      BY <1>1
    <3> QED BY <1>1, <3>1, <3>2, <3>3
  <2> DEFINE n == N + 2
  <2>4. n \in Nat /\ n \notin DOMAIN C /\ DOMAIN C \subseteq 1..n
        /\ DOMAIN D = DOMAIN C \cup {n}
    BY <1>1, <2>3
  <2>5. DOMAIN D[n].blocks = 1..1 /\ D[n].blocks[1] = block
    <3>1. DOMAIN <<block>> = 1..1 /\ <<block>>[1] = block
      OBVIOUS
    <3> QED BY <2>1, <2>3, <3>1
  <2>6. \A c \in DOMAIN C : c # n => D[c].blocks = C[c].blocks
    BY <1>1, <2>3
  <2> HIDE DEF C, D, n
  <2>7. /\ PlacesIn(D) = PlacesIn(C) \cup {<<n, 1>>}
        /\ \A p \in PlacesIn(C) : Before(p, <<n, 1>>) /\ At(D, p) = At(C, p)
    <3>1. \A c \in DOMAIN C : DOMAIN C[c].blocks \subseteq Nat
      BY <1>1 DEF C
    <3>2. Grown(C, D, n, 1)
      BY <2>4, <2>5, <2>6, <3>1 DEF Grown
    <3> QED BY <3>2, OneMore
  <2>8. At(D, <<n, 1>>) = block
    BY <2>5 DEF At
  <2> QED BY <2>7, <2>8 DEF C, D
<1> QED BY <1>4, <1>5

(* An order-preserving way of putting places to numbers can be continued.  *)
Numbering(at, kept, places) ==
  /\ at \in [kept -> places]
  /\ \A m, n \in kept : m < n => Before(at[m], at[n])
  /\ \A p \in places : \E n \in kept : at[n] = p

Continues(at, kept, places, N, q) ==
  /\ Numbering(at, kept, places)
  /\ kept \subseteq Nat /\ N \in Nat
  /\ \A n \in kept : n < N
  /\ \A p \in places : Before(p, q)

Extends(b, at, kept, N, q) == b[N] = q /\ \A n \in kept : b[n] = at[n]

(* The next number goes with a place behind the others.                    *)
LEMMA OneMoreNumber ==
  ASSUME NEW kept, NEW places, NEW at, NEW N, NEW q,
         Continues(at, kept, places, N, q)
  PROVE  \E b : /\ Numbering(b, kept \cup {N}, places \cup {q})
                /\ Extends(b, at, kept, N, q)
<1> USE DEF Continues
<1> DEFINE b == [n \in kept \cup {N} |-> IF n = N THEN q ELSE at[n]]
<1>1. N \notin kept
  OBVIOUS
<1>2. \A n \in kept : at[n] \in places
  BY DEF Numbering
<1>3. /\ b \in [kept \cup {N} -> places \cup {q}]
      /\ b[N] = q /\ \A n \in kept : b[n] = at[n]
  BY <1>1, <1>2
<1> HIDE DEF b
<1>4. ASSUME NEW m \in kept \cup {N}, NEW n \in kept \cup {N}, m < n
      PROVE  Before(b[m], b[n])
  <2>1. m \in kept
    BY <1>4
  <2>2. CASE n = N
    BY <1>2, <1>3, <2>1, <2>2
  <2>3. CASE n # N
    BY <1>3, <1>4, <2>1, <2>3 DEF Numbering
  <2> QED BY <2>2, <2>3
<1>5. ASSUME NEW p \in places \cup {q} PROVE \E n \in kept \cup {N} : b[n] = p
  <2>1. CASE p = q
    BY <1>3, <2>1
  <2>2. CASE p # q
    <3>1. PICK n \in kept : at[n] = p
      BY <2>2 DEF Numbering
    <3> QED BY <1>3, <3>1
  <2> QED BY <2>1, <2>2
<1>6. Numbering(b, kept \cup {N}, places \cup {q})
  BY <1>3, <1>4, <1>5 DEF Numbering
<1>7. Extends(b, at, kept, N, q)
  BY <1>3 DEF Extends
<1> QED BY <1>6, <1>7

(* The invariant: the origin is the time of the first call kept, and the   *)
(* blocks are those due, seen from there.                                  *)
Filed ==
  \E at : /\ Numbering(at, Kept, PlacesIn(Clusters))
          /\ \A n \in Kept : At(Clusters, at[n]) = Due(calls[n], start)

LostInv ==
  /\ calls \in Seq(Calls)
  /\ \A n \in DOMAIN calls : calls[n].track = "video" => calls[n].data \in AccessUnits
  /\ state = "new" => calls = <<>> /\ csd \in Configs
  /\ state = "open" => "video" \in tracks
  /\ Kept = {} => start = Unset
  /\ \A n \in Kept : (\A m \in Kept : n <= m) => start = calls[n].ts
  /\ Filed

(* The calls kept are numbered, their times are natural numbers.           *)
LEMMA KeptTyped ==
  ASSUME calls \in Seq(Calls)
  PROVE  /\ Len(calls) \in Nat /\ DOMAIN calls = 1..Len(calls)
         /\ Kept \subseteq 1..Len(calls) /\ Kept \subseteq Nat
         /\ \A n \in Kept : calls[n].ts \in Nat
<1>1. Len(calls) \in Nat /\ DOMAIN calls = 1..Len(calls)
      /\ \A n \in DOMAIN calls : calls[n] \in Calls
  <2> HIDE DEF Calls
  <2> QED OBVIOUS
<1>2. Kept \subseteq DOMAIN calls
  BY DEF Kept
<1>3. \A c \in Calls : c.ts \in Nat
  BY MuxerAssumption DEF Calls
<1> HIDE DEF Calls
<1> QED BY <1>1, <1>2, <1>3

(* The invariant says what NothingLost does.                               *)
LEMMA LostInvIsNothingLost == LostInv => NothingLost
<1> SUFFICES ASSUME LostInv PROVE NothingLost
  OBVIOUS
<1>1. PICK at : /\ Numbering(at, Kept, PlacesIn(Clusters))
                /\ \A n \in Kept : At(Clusters, at[n]) = Due(calls[n], start)
  BY DEF LostInv, Filed
<1>2. Kept \subseteq Nat
  BY KeptTyped DEF LostInv
<1>3. Kept # {} => start = calls[Min(Kept)].ts
  BY <1>2, MinIs DEF LostInv
<1>4. Places = PlacesIn(Clusters)
  BY DEF Places, PlacesIn
<1>5. \A n \in Kept : BlockAt(at[n]) = Due(calls[n], calls[Min(Kept)].ts)
  BY <1>1, <1>3 DEF BlockAt, At
<1>6. /\ at \in [Kept -> Places]
      /\ \A m, n \in Kept : m < n => Before(at[m], at[n])
      /\ \A p \in Places : \E n \in Kept : at[n] = p
  BY <1>1, <1>4 DEF Numbering
<1> DEFINE due == [n \in Kept |-> Due(calls[n], calls[Min(Kept)].ts)]
<1>7. \A n \in Kept : BlockAt(at[n]) = due[n]
  BY <1>5
<1> HIDE DEF due
<1>8. \E f \in [Kept -> Places] :
        /\ \A m, n \in Kept : m < n => Before(f[m], f[n])
        /\ \A p \in Places : \E n \in Kept : f[n] = p
        /\ \A n \in Kept : BlockAt(f[n]) = due[n]
  BY <1>6, <1>7
<1> QED BY <1>8 DEF NothingLost, due
------------------------------------------------------------------------------
(* What a call leaves alone: the file, or only what does not count.        *)
LEMMA LostSame ==
  ASSUME LostInv, Kept' = Kept, \A n \in Kept : calls'[n] = calls[n],
         start' = start, PlacesIn(Clusters') = PlacesIn(Clusters),
         \A p \in PlacesIn(Clusters) : At(Clusters', p) = At(Clusters, p)
  PROVE  /\ Kept' = {} => start' = Unset
         /\ \A n \in Kept' : (\A m \in Kept' : n <= m) => start' = calls'[n].ts
         /\ Filed'
<1>1. PICK at : /\ Numbering(at, Kept, PlacesIn(Clusters))
                /\ \A n \in Kept : At(Clusters, at[n]) = Due(calls[n], start)
  BY DEF LostInv, Filed
<1>2. \A n \in Kept : at[n] \in PlacesIn(Clusters)
  BY <1>1 DEF Numbering
<1>3. \A n \in Kept : At(Clusters', at[n]) = Due(calls'[n], start')
  BY <1>1, <1>2
<1>4. Numbering(at, Kept', PlacesIn(Clusters'))
  BY <1>1
<1>5. Filed'
  BY <1>3, <1>4 DEF Filed
<1> QED BY <1>5 DEF LostInv

(* A call more, and whether it is kept.                                    *)
LEMMA Offered ==
  ASSUME LostInv, NEW track \in {"video", "audio"}, NEW ts \in Times, NEW data,
         data \in AccessUnits \cup {<<>>}, track = "video" => data \in AccessUnits,
         Offer(track, ts, data)
  PROVE  LET N == Len(calls) + 1
             c == [track |-> track, ts |-> ts, data |-> data]
         IN /\ calls' \in Seq(Calls) /\ calls'[N] = c /\ N \in Nat
            /\ \A n \in Kept : calls'[n] = calls[n] /\ n < N
            /\ Kept' = IF Accepted(c) THEN Kept \cup {N} ELSE Kept
            /\ \A n \in DOMAIN calls' :
                 calls'[n].track = "video" => calls'[n].data \in AccessUnits
<1> DEFINE c == [track |-> track, ts |-> ts, data |-> data]
           N == Len(calls) + 1
<1>1. c \in Calls /\ c.track = track /\ c.data = data
  BY DEF Calls
<1>2. calls \in Seq(Calls) /\ Len(calls) \in Nat /\ calls' = Append(calls, c)
  BY DEF LostInv, Offer
<1>3. tracks' = tracks
  BY DEF Offer
<1> HIDE DEF c
<1>4. /\ calls' \in Seq(Calls) /\ DOMAIN calls' = 1..N /\ calls'[N] = c
      /\ DOMAIN calls = 1..Len(calls)
      /\ \A n \in DOMAIN calls : calls'[n] = calls[n] /\ n < N
  <2> HIDE DEF Calls
  <2> QED BY <1>1, <1>2
<1>5. \A d : Accepted(d)' <=> Accepted(d)
  BY <1>3 DEF Accepted
<1>6. Kept' = {n \in DOMAIN calls' : Accepted(calls'[n])}
  BY <1>3 DEF Kept, Accepted
<1>7. N \in Nat /\ DOMAIN calls' = DOMAIN calls \cup {N} /\ N \notin DOMAIN calls
  BY <1>2, <1>4
<1> HIDE DEF N
<1>8. Kept' = IF Accepted(c) THEN Kept \cup {N} ELSE Kept
  BY <1>4, <1>6, <1>7 DEF Kept
<1>9. \A n \in DOMAIN calls' :
        calls'[n].track = "video" => calls'[n].data \in AccessUnits
  BY <1>1, <1>4, <1>7 DEF LostInv
<1>10. \A n \in Kept : calls'[n] = calls[n] /\ n < N
  BY <1>4 DEF Kept
<1> QED BY <1>4, <1>7, <1>8, <1>9, <1>10 DEF c, N

(* A call that is dropped leaves the file as it is.                        *)
LEMMA RejectedKeeps ==
  ASSUME LostInv, NEW track \in {"video", "audio"}, NEW ts \in Times, NEW data,
         data \in AccessUnits \cup {<<>>}, track = "video" => data \in AccessUnits,
         Offer(track, ts, data),
         ~Accepted([track |-> track, ts |-> ts, data |-> data]),
         UNCHANGED <<start, lastRel, cluster, file>>
  PROVE  LostInv'
<1>1. /\ calls' \in Seq(Calls) /\ Kept' = Kept
      /\ \A n \in Kept : calls'[n] = calls[n]
      /\ \A n \in DOMAIN calls' :
           calls'[n].track = "video" => calls'[n].data \in AccessUnits
  BY Offered
<1>2. Clusters' = Clusters
  BY DEF Clusters
<1>3. /\ Kept' = {} => start' = Unset
      /\ \A n \in Kept' : (\A m \in Kept' : n <= m) => start' = calls'[n].ts
      /\ Filed'
  BY <1>1, <1>2, LostSame
<1>4. state = "open" /\ state' = state /\ tracks' = tracks
  BY DEF Offer
<1> QED BY <1>1, <1>3, <1>4 DEF LostInv

(* A call that is kept brings the block due for it.                        *)
LEMMA KeptKeeps ==
  ASSUME LostInv, ClusterInv, NEW track \in {"video", "audio"}, NEW ts \in Times,
         NEW data, NEW key \in BOOLEAN, NEW payload \in Payload,
         data \in AccessUnits \cup {<<>>}, track = "video" => data \in AccessUnits,
         Offer(track, ts, data),
         Accepted([track |-> track, ts |-> ts, data |-> data]),
         Write(track, ts, key, payload),
         \A origin : payload = Due([track |-> track, ts |-> ts, data |-> data], origin).data
  PROVE  LostInv'
<1> DEFINE N == Len(calls) + 1
           c == [track |-> track, ts |-> ts, data |-> data]
           origin == IF start < 0 THEN ts ELSE start
           rel    == IF ts < origin THEN 0 ELSE ts - origin
           block  == [track |-> track, rel |-> rel, data |-> payload]
<1>1. /\ calls' \in Seq(Calls) /\ calls'[N] = c /\ N \in Nat
      /\ \A n \in Kept : calls'[n] = calls[n] /\ n < N
      /\ Kept' = Kept \cup {N}
      /\ \A n \in DOMAIN calls' :
           calls'[n].track = "video" => calls'[n].data \in AccessUnits
  BY Offered
<1>2. /\ Kept \subseteq Nat /\ \A n \in Kept : calls[n].ts \in Nat
  BY KeptTyped DEF LostInv
<1>3. ts \in Nat
  BY MuxerAssumption
<1>4. PICK at : /\ Numbering(at, Kept, PlacesIn(Clusters))
                /\ \A n \in Kept : At(Clusters, at[n]) = Due(calls[n], start)
  BY DEF LostInv, Filed
<1>5. /\ Kept = {} => origin = ts
      /\ Kept # {} => origin = start
  <2>1. CASE Kept = {}
    BY <2>1 DEF LostInv, Unset
  <2>2. CASE Kept # {}
    <3>1. PICK n \in Kept : \A m \in Kept : n <= m
      BY <1>2, <2>2, LeastOf
    <3>2. start = calls[n].ts
      BY <3>1 DEF LostInv
    <3> QED BY <1>2, <2>2, <3>2
  <2> QED BY <2>1, <2>2
<1>6. /\ start' = origin
      /\ AddBlock(rel, key, block)
  BY DEF Write
<1>7. rel \in Nat
  <2>1. origin \in Int
    BY <1>3 DEF ClusterInv
  <2> HIDE DEF origin
  <2> QED BY <1>3, <2>1
<1>8. block \in Block
  BY <1>7 DEF Block
<1>9. block = Due(c, origin)
  BY DEF Due
<1> HIDE DEF block, rel, c, origin, N
<1>10. PICK q : /\ PlacesIn(Clusters') = PlacesIn(Clusters) \cup {q}
                /\ At(Clusters', q) = block
                /\ \A p \in PlacesIn(Clusters) :
                     Before(p, q) /\ At(Clusters', p) = At(Clusters, p)
  BY <1>6, <1>8, AddPlace
<1>11. PICK b : /\ Numbering(b, Kept \cup {N}, PlacesIn(Clusters) \cup {q})
                /\ Extends(b, at, Kept, N, q)
  <2>1. \A n \in Kept : n < N
    BY <1>1
  <2>2. \A p \in PlacesIn(Clusters) : Before(p, q)
    BY <1>10
  <2>3. Numbering(at, Kept, PlacesIn(Clusters))
    BY <1>4
  <2>4. Kept \subseteq Nat /\ N \in Nat
    BY <1>1, <1>2
  <2>5. Continues(at, Kept, PlacesIn(Clusters), N, q)
    BY <2>1, <2>2, <2>3, <2>4 DEF Continues
  <2> QED BY <2>5, OneMoreNumber
<1>12. \A n \in Kept' : At(Clusters', b[n]) = Due(calls'[n], start')
  <2> SUFFICES ASSUME NEW n \in Kept' PROVE At(Clusters', b[n]) = Due(calls'[n], start')
    OBVIOUS
  <2>1. CASE n = N
    BY <1>1, <1>6, <1>9, <1>10, <1>11, <2>1 DEF Extends
  <2>2. CASE n # N
    <3>1. n \in Kept /\ Kept # {}
      BY <1>1, <2>2
    <3>2. b[n] = at[n] /\ at[n] \in PlacesIn(Clusters)
      BY <1>4, <1>11, <3>1 DEF Numbering, Extends
    <3>3. start' = start /\ calls'[n] = calls[n]
      BY <1>1, <1>5, <1>6, <3>1
    <3> QED BY <1>4, <1>10, <3>1, <3>2, <3>3
  <2> QED BY <2>1, <2>2
<1>13. Filed'
  <2>1. Numbering(b, Kept', PlacesIn(Clusters'))
    BY <1>1, <1>10, <1>11
  <2> QED BY <1>12, <2>1 DEF Filed
<1>14. \A n \in Kept' : (\A m \in Kept' : n <= m) => start' = calls'[n].ts
  <2> SUFFICES ASSUME NEW n \in Kept', \A m \in Kept' : n <= m
               PROVE  start' = calls'[n].ts
    OBVIOUS
  <2>1. CASE Kept = {}
    BY <1>1, <1>5, <1>6, <2>1 DEF c
  <2>2. CASE Kept # {}
    <3>1. n # N
      <4>1. PICK m \in Kept : TRUE
        BY <2>2
      <4>2. m \in Kept' /\ m \in Nat /\ m < N /\ N \in Nat /\ n <= m
        BY <1>1, <1>2, <4>1
      <4> QED BY <4>2
    <3>2. n \in Kept /\ \A m \in Kept : n <= m
      BY <1>1, <3>1
    <3> QED BY <1>1, <1>5, <1>6, <2>2, <3>2 DEF LostInv
  <2> QED BY <2>1, <2>2
<1>15. Kept' # {}
  BY <1>1
<1>16. state = "open" /\ state' = state /\ tracks' = tracks
  BY DEF Offer
<1> QED BY <1>1, <1>13, <1>14, <1>15, <1>16 DEF LostInv

(* Closing the file moves no block.                                        *)
LEMMA CloseKeeps ==
  ASSUME LostInv, ClusterInv, Close
  PROVE  LostInv'
<1>1. Clusters' = Append(Flushed, NoCluster)
  BY DEF Clusters, Close
<1>2. /\ PlacesIn(Clusters') = PlacesIn(Clusters)
      /\ \A p \in PlacesIn(Clusters) : At(Clusters', p) = At(Clusters, p)
  <2>1. CASE cluster = NoCluster
    <3>1. Clusters' = Clusters
      BY <1>1, <2>1 DEF Clusters, Flushed
    <3> QED BY <3>1
  <2>2. CASE cluster # NoCluster
    <3> DEFINE C == Clusters
               D == Clusters'
               N == Len(file)
    <3>1. /\ file \in Seq(Cluster) /\ N \in Nat
          /\ DOMAIN C = 1..(N + 1)
      BY ClustersTyped
    <3>2. D = Append(C, NoCluster)
      BY <1>1, <2>2 DEF Clusters, Flushed
    <3>3. C \in Seq(Cluster) /\ Len(C) = N + 1 /\ NoCluster \in Cluster
      <4>1. cluster \in Cluster
        BY DEF ClusterInv
      <4>2. NoCluster \in Cluster
        BY DEF NoCluster, Cluster, Unset
      <4> HIDE DEF Cluster
      <4> QED BY <3>1, <4>1, <4>2 DEF Clusters
    <3> HIDE DEF C, D, N, Cluster
    <3>4. /\ DOMAIN D = 1..(N + 2)
          /\ \A c \in 1..(N + 1) : D[c] = C[c]
          /\ D[N + 2] = NoCluster
      BY <3>1, <3>2, <3>3
    <3>5. DOMAIN D = DOMAIN C \cup {N + 2}
      BY <3>1, <3>4
    <3>6. DOMAIN D[N + 2].blocks = {}
      BY <3>4 DEF NoCluster
    <3>7. PlacesIn(D) = PlacesIn(C)
      <4>1. \A c \in DOMAIN C : c \in DOMAIN D /\ D[c] = C[c]
        BY <3>1, <3>4, <3>5
      <4>2. \A c \in DOMAIN D : DOMAIN D[c].blocks # {} => c \in DOMAIN C
        BY <3>5, <3>6
      <4>3. \A p : p \in PlacesIn(D) <=> p \in PlacesIn(C)
        BY <4>1, <4>2, PlacesAre
      <4> QED BY <4>3
    <3>8. ASSUME NEW p \in PlacesIn(C) PROVE At(D, p) = At(C, p)
      <4>1. PICK c \in DOMAIN C : \E i \in DOMAIN C[c].blocks : p = <<c, i>>
        BY PlacesAre
      <4>2. p[1] = c /\ D[c] = C[c]
        BY <3>1, <3>4, <4>1
      <4> QED BY <4>2 DEF At
    <3> QED BY <3>7, <3>8 DEF C, D
  <2> QED BY <2>1, <2>2
<1>3. calls' = calls /\ tracks' = tracks /\ start' = start /\ state' = "closed"
  BY DEF Close
<1>4. Kept' = Kept
  BY <1>3 DEF Kept, Accepted
<1>5. /\ Kept' = {} => start' = Unset
      /\ \A n \in Kept' : (\A m \in Kept' : n <= m) => start' = calls'[n].ts
      /\ Filed'
  BY <1>2, <1>3, <1>4, LostSame
<1> QED BY <1>3, <1>5 DEF LostInv

(* Opening it neither.                                                     *)
LEMMA OpenKeeps ==
  ASSUME LostInv, Open
  PROVE  LostInv'
<1>1. /\ state = "new" /\ state' \in {"open", "failed"}
      /\ state' = "open" => "video" \in tracks'
      /\ calls' = calls /\ start' = start /\ Clusters' = Clusters
  BY DEF Open, Clusters
<1>2. calls = <<>> /\ DOMAIN calls = {}
  BY <1>1 DEF LostInv
<1>3. Kept = {} /\ Kept' = {}
  BY <1>1, <1>2 DEF Kept
<1>4. /\ Kept' = {} => start' = Unset
      /\ \A n \in Kept' : (\A m \in Kept' : n <= m) => start' = calls'[n].ts
      /\ Filed'
  BY <1>1, <1>3, LostSame
<1> QED BY <1>1, <1>4 DEF LostInv

(* A new muxer has nothing to lose.                                        *)
LEMMA LostInit == Init => LostInv
<1> SUFFICES ASSUME Init PROVE LostInv
  OBVIOUS
<1>1. calls = <<>> /\ DOMAIN calls = {} /\ calls \in Seq(Calls)
  BY DEF Init
<1>2. Kept = {}
  BY <1>1 DEF Kept
<1>3. Clusters = <<NoCluster>>
  BY DEF Clusters, Init
<1>4. PlacesIn(Clusters) = {}
  <2>1. DOMAIN Clusters = {1} /\ Clusters[1] = NoCluster
    BY <1>3
  <2>2. DOMAIN NoCluster.blocks = {}
    BY DEF NoCluster
  <2> QED BY <2>1, <2>2 DEF PlacesIn
<1>5. Numbering(<<>>, {}, {})
  BY DEF Numbering
<1>6. Filed
  BY <1>2, <1>4, <1>5 DEF Filed
<1> QED BY <1>1, <1>2, <1>6 DEF Init, LostInv

(* Every operation keeps the invariant.                                    *)
LEMMA LostStep == Inv /\ LostInv /\ [Next]_vars => LostInv'
<1> SUFFICES ASSUME Inv, LostInv, [Next]_vars PROVE LostInv'
  OBVIOUS
<1>0. ClusterInv
  BY DEF Inv
<1>1. CASE Open
  BY <1>1, OpenKeeps
<1>2. ASSUME NEW au \in AccessUnits, NEW ts \in Times, NEW key \in BOOLEAN,
             WriteVideo(au, ts, key)
      PROVE  LostInv'
  <2> DEFINE c == [track |-> "video", ts |-> ts, data |-> au]
  <2>1. /\ SplitNals(au) = AnnexBUnits(au)
        /\ LengthPrefixed(au) = <<>> <=> AnnexBUnits(au) = <<>>
    BY FramedExactly
  <2>2. Offer("video", ts, au)
    BY <1>2 DEF WriteVideo
  <2>3. "video" \in tracks
    BY <2>2 DEF Offer, LostInv
  <2>4. Accepted(c) <=> LengthPrefixed(au) # <<>>
    BY <2>1, <2>3 DEF Accepted
  <2>5. CASE LengthPrefixed(au) = <<>>
    <3>1. UNCHANGED <<start, lastRel, cluster, file>>
      BY <1>2, <2>5 DEF WriteVideo
    <3> QED BY <2>2, <2>4, <2>5, <3>1, RejectedKeeps
  <2>6. CASE LengthPrefixed(au) # <<>>
    <3>1. Write("video", ts, key, LengthPrefixed(au))
      BY <1>2, <2>6 DEF WriteVideo
    <3>2. \A origin : LengthPrefixed(au) = Due(c, origin).data
      BY <2>1 DEF LengthPrefixed, Due
    <3>3. LengthPrefixed(au) \in Payload
      BY DEF Payload
    <3> QED BY <1>0, <2>2, <2>4, <2>6, <3>1, <3>2, <3>3, KeptKeeps
  <2> QED BY <2>5, <2>6
<1>3. ASSUME NEW ts \in Times, WriteAudio(ts)
      PROVE  LostInv'
  <2> DEFINE c == [track |-> "audio", ts |-> ts, data |-> <<>>]
  <2>1. Offer("audio", ts, <<>>)
    BY <1>3 DEF WriteAudio
  <2>2. Accepted(c) <=> "audio" \in tracks
    BY DEF Accepted
  <2>3. CASE "audio" \notin tracks
    <3>1. UNCHANGED <<start, lastRel, cluster, file>>
      BY <1>3, <2>3 DEF WriteAudio
    <3> QED BY <2>1, <2>2, <2>3, <3>1, RejectedKeeps
  <2>4. CASE "audio" \in tracks
    <3>1. Write("audio", ts, FALSE, <<>>)
      BY <1>3, <2>4 DEF WriteAudio
    <3>2. \A origin : <<>> = Due(c, origin).data
      BY DEF Due
    <3>3. <<>> \in Payload
      BY DEF Payload
    <3> QED BY <1>0, <2>1, <2>2, <2>4, <3>1, <3>2, <3>3, KeptKeeps
  <2> QED BY <2>3, <2>4
<1>4. CASE Close
  BY <1>0, <1>4, CloseKeeps
<1>5. CASE UNCHANGED vars
  <2>1. Kept' = Kept /\ Clusters' = Clusters
    BY <1>5 DEF vars, Kept, Accepted, Clusters
  <2>2. Filed'
    BY <1>5, <2>1 DEF vars, LostInv, Filed
  <2> QED BY <1>5, <2>1, <2>2 DEF vars, LostInv
<1> QED
  BY <1>1, <1>2, <1>3, <1>4, <1>5 DEF Next

(* Both invariants hold throughout.                                        *)
LEMMA LostInvHolds == Spec => [](Inv /\ LostInv)
<1>1. Init => Inv /\ LostInv
  BY InvInit, LostInit
<1>2. (Inv /\ LostInv) /\ [Next]_vars => (Inv /\ LostInv)'
  BY InvStep, LostStep
<1> QED
  BY <1>1, <1>2, PTL DEF Spec

(* Whatever the clusters and late blocks, the file holds the block due for *)
(* every call accepted, once and in order, and nothing else                *)
(* (muxer.cc:205-240, hevc_bitstream.cc:97-115).                           *)
THEOREM NothingLostCorrect == Spec => []NothingLost
  BY LostInvHolds, LostInvIsNothingLost, PTL

(* The codec config is read as Annex B has it, whatever bytes it is made   *)
(* of; without an SPS and a PPS no file is opened (recorder.cc:124-127).   *)
THEOREM ConfigExactCorrect == Spec => []ConfigExact
<1>1. LostInv => ConfigExact
  <2> SUFFICES ASSUME LostInv, state = "new" PROVE ConfigExact
    BY DEF ConfigExact
  <2>1. csd \in Seq(Nat)
    <3>1. csd \in Seq(0..255)
      BY MuxerAssumption DEF LostInv
    <3> QED BY <3>1, BytesAreNumbers
  <2>2. SplitNals(csd) = AnnexBUnits(csd)
    BY <2>1, SplitExact
  <2> QED BY <2>2 DEF ConfigExact, BuildHvcc, OfType
<1> QED
  BY <1>1, LostInvHolds, PTL
==============================================================================
