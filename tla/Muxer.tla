-------------------------------- MODULE Muxer --------------------------------
(***************************************************************************)
(* The Matroska file of one clip (mux::Muxer), from the codec config the   *)
(* encoder announces to the closed file, as the muxer-writer thread drives *)
(* it: times in any order (audio may come late), key frames anywhere.      *)
(* Time is counted in units of which TsScale make a Matroska tick.         *)
(***************************************************************************)
EXTENDS HevcBitstream

CONSTANTS
  TsScale,       \* TS_SCALE: time units per tick (1 ms)
  MaxCluster,    \* MAX_CLUSTER_NS
  MaxShort,      \* largest 16-bit offset, in ticks
  Configs,       \* codec configs the encoder may announce
  AccessUnits,   \* encoded frames
  Times,         \* timestamps
  MaxCalls       \* bound: blocks offered to the muxer

ASSUME MuxerAssumption ==
  /\ {TsScale, MaxCluster, MaxShort, MaxCalls} \subseteq Nat
  /\ TsScale > 0
  /\ 2 * MaxCluster <= MaxShort * TsScale    \* 2 s against 32.767 s
  /\ Times \subseteq Nat
  /\ Configs \cup AccessUnits \subseteq Seq(0..255)

Unset == -1                       \* start_ns before the first block
NoCluster == [base |-> Unset, blocks |-> <<>>]

VARIABLES
  state,      \* "new", "open", "failed" or "closed"
  csd,        \* the codec config announced
  tracks,     \* subset of {"video", "audio"}
  start,      \* start_ns
  lastRel,    \* last_rel_ns
  cluster,    \* the cluster being filled: its base and blocks
  file,       \* clusters written
  duration,   \* KaxDuration in the file, in time units
  calls       \* history: what was offered to an open muxer, in order

vars == <<state, csd, tracks, start, lastRel, cluster, file, duration, calls>>

Init ==
  /\ state = "new"
  /\ csd \in Configs
  /\ tracks = {}
  /\ start = Unset
  /\ lastRel = 0
  /\ cluster = NoCluster
  /\ file = <<>>
  /\ duration = TsScale            \* the placeholder 1.0
  /\ calls = <<>>

(* on_video_format(): no hvcC, no file.  The audio track is there when     *)
(* audio is live; the file may fail to open.                               *)
Open ==
  /\ state = "new"
  /\ csd' = <<>>
  /\ \/ /\ BuildHvcc(csd) # NoConfig
        /\ state' = "open"
        /\ tracks' \in {{"video"}, {"video", "audio"}}
     \/ /\ state' = "failed"
        /\ UNCHANGED tracks
  /\ UNCHANGED <<start, lastRel, cluster, file, duration, calls>>

Flushed == IF cluster = NoCluster THEN file ELSE Append(file, cluster)

Distance(a, b) == IF a < b THEN b - a ELSE a - b

\* Defect: only the forward direction is looked at.
TooFarAhead(rel) == rel - cluster.base > MaxCluster

TooFar(rel) == Distance(rel, cluster.base) > MaxCluster

(* The block goes into the current cluster unless there is none, a key     *)
(* frame begins one, or it lies more than MaxCluster away on either side.  *)
NeedsCluster(rel, key) ==
  cluster = NoCluster \/ (key /\ cluster.base # rel) \/ TooFar(rel)

\* Defect: a cluster is dropped by the next one.
AddBlockUnflushed(rel, key, block) ==
  /\ cluster' = IF NeedsCluster(rel, key)
                  THEN [base |-> rel, blocks |-> <<block>>]
                  ELSE [cluster EXCEPT !.blocks = Append(@, block)]
  /\ UNCHANGED file

AddBlock(rel, key, block) ==
  IF NeedsCluster(rel, key)
    THEN /\ file' = Flushed
         /\ cluster' = [base |-> rel, blocks |-> <<block>>]
    ELSE /\ cluster' = [cluster EXCEPT !.blocks = Append(@, block)]
         /\ UNCHANGED file

\* Defect: the last block, not the newest.
LaterLast(rel) == rel

Later(rel) == IF rel > lastRel THEN rel ELSE lastRel

(* What write_video() and write_audio() share: the first block sets the    *)
(* origin, blocks from before it are clamped to it.                        *)
Write(track, ts, key, data) ==
  LET origin == IF start < 0 THEN ts ELSE start
      rel    == IF ts < origin THEN 0 ELSE ts - origin
  IN /\ start' = origin
     /\ lastRel' = Later(rel)
     /\ AddBlock(rel, key, [track |-> track, rel |-> rel, data |-> data])

Offer(track, ts, data) ==
  /\ state = "open"
  /\ Len(calls) < MaxCalls
  /\ calls' = Append(calls, [track |-> track, ts |-> ts, data |-> data])
  /\ UNCHANGED <<state, csd, tracks, duration>>

(* An access unit without a start code frames to nothing and is dropped.   *)
WriteVideo(au, ts, key) ==
  /\ Offer("video", ts, au)
  /\ IF LengthPrefixed(au) = <<>>
       THEN UNCHANGED <<start, lastRel, cluster, file>>
       ELSE Write("video", ts, key, LengthPrefixed(au))

WriteAudio(ts) ==
  /\ Offer("audio", ts, <<>>)
  /\ IF "audio" \notin tracks
       THEN UNCHANGED <<start, lastRel, cluster, file>>
       ELSE Write("audio", ts, FALSE, <<>>)

(* The last cluster is written and the placeholder patched, unless no      *)
(* block lies past the first.                                              *)
Close ==
  /\ state = "open"
  /\ state' = "closed"
  /\ file' = Flushed
  /\ cluster' = NoCluster
  /\ duration' = IF lastRel > 0 THEN lastRel ELSE duration
  /\ UNCHANGED <<csd, tracks, start, lastRel, calls>>

Next ==
  \/ Open
  \/ \E au \in AccessUnits, ts \in Times, key \in BOOLEAN : WriteVideo(au, ts, key)
  \/ \E ts \in Times : WriteAudio(ts)
  \/ Close

Spec == Init /\ [][Next]_vars
------------------------------------------------------------------------------
AllClusters == {file[i] : i \in DOMAIN file} \cup {cluster}

(* The offset of a block from any other block of its cluster - whichever   *)
(* of them gives the cluster its own time - fits the 16 bits the format    *)
(* has for it, also when audio arrives late or starts before the video     *)
(* (muxer.cc:223-227: a libmatroska abort otherwise).                      *)
BlocksFit ==
  \A c \in AllClusters : \A i, j \in DOMAIN c.blocks :
    Distance(c.blocks[i].rel, c.blocks[j].rel) <= MaxShort * TsScale

Accepted(call) ==
  /\ call.track \in tracks
  /\ call.track = "video" => AnnexBUnits(call.data) # <<>>

(* Where blocks stand in the file and the open cluster, and in what order. *)
Clusters == Append(file, cluster)
Places == UNION {{c} \X DOMAIN Clusters[c].blocks : c \in DOMAIN Clusters}
Before(p, q) == p[1] < q[1] \/ (p[1] = q[1] /\ p[2] < q[2])
BlockAt(p) == Clusters[p[1]].blocks[p[2]]

Kept == {n \in DOMAIN calls : Accepted(calls[n])}

(* The block due for a call: its distance from the first one, and exactly  *)
(* the Annex B units of the access unit, each with its length.             *)
Due(call, origin) ==
  LET units == IF call.track = "video" THEN AnnexBUnits(call.data) ELSE <<>>
  IN [track |-> call.track,
      rel   |-> IF call.ts < origin THEN 0 ELSE call.ts - origin,
      data  |-> [k \in DOMAIN units |-> [length |-> Len(units[k]), data |-> units[k]]]]

(* Whatever the clusters and late blocks, the file holds the block due for *)
(* every call accepted, once and in order, and nothing else.               *)
NothingLost ==
  LET kept   == Kept
      places == Places
      due    == [n \in kept |-> Due(calls[n], calls[Min(kept)].ts)]
  IN \E at \in [kept -> places] :
       /\ \A m, n \in kept : m < n => Before(at[m], at[n])
       /\ \A p \in places : \E n \in kept : at[n] = p
       /\ \A n \in kept : BlockAt(at[n]) = due[n]

RelsOf(c) == {c.blocks[i].rel : i \in DOMAIN c.blocks}
Rels == UNION {RelsOf(c) : c \in AllClusters}

(* A closed file announces the time of its newest block, though the last   *)
(* block written may be late audio (muxer.cc:194-200).                     *)
DurationIsNewest ==
  state = "closed" /\ (\E r \in Rels : r > 0) =>
    duration \in Rels /\ \A r \in Rels : r <= duration

(* The codec config is read as Annex B has it, wherever its start codes of *)
(* either size, empty or one-byte units and stray bytes stand; without an  *)
(* SPS and a PPS no file is opened (recorder.cc:124-127).                  *)
ConfigExact ==
  LET units == AnnexBUnits(csd)
      Sets(t) == SelectSeq(units, LAMBDA u : Len(u) >= 2 /\ NalType(u) = t)
  IN state = "new" =>
       BuildHvcc(csd) = IF Sets(SPS) = <<>> \/ Sets(PPS) = <<>> THEN NoConfig
                        ELSE [vps |-> Sets(VPS), sps |-> Sets(SPS), pps |-> Sets(PPS)]
==============================================================================
