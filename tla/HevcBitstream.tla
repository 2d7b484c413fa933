---------------------------- MODULE HevcBitstream ----------------------------
(***************************************************************************)
(* The byte-level half of the muxer path (hevc_bitstream.cc): an Annex B   *)
(* buffer is cut at its start codes, the parameter sets go into the hvcC   *)
(* record of the track, an access unit is reframed with length prefixes.   *)
(* A buffer is a sequence of bytes; the code's index j is j + 1 here.      *)
(***************************************************************************)
EXTENDS Integers, Sequences, SequencesExt

VPS == 32
SPS == 33
PPS == 34
NoConfig == [vps |-> <<>>, sps |-> <<>>, pps |-> <<>>]

\* Defect: four-byte start codes are not recognised.
StartCodeShort(p, j) ==
  IF j + 2 <= Len(p) /\ SubSeq(p, j, j + 2) = <<0, 0, 1>> THEN 3 ELSE 0

(* Size of the start code at j, 0 when there is none.                      *)
StartCode(p, j) ==
  CASE j + 3 <= Len(p) /\ SubSeq(p, j, j + 3) = <<0, 0, 0, 1>> -> 4
    [] j + 2 <= Len(p) /\ SubSeq(p, j, j + 2) = <<0, 0, 1>>    -> 3
    [] OTHER -> 0

NextStart(p, i) ==
  Min({j \in i..Len(p) : StartCode(p, j) # 0} \cup {Len(p) + 1})

(* One pass: skip a start code, take what comes before the next one, drop  *)
(* it when empty.                                                          *)
SplitNals(p) ==
  LET from[i \in 1..(Len(p) + 1)] ==
        IF i > Len(p) THEN <<>>
        ELSE LET start == i + StartCode(p, i)
                 next  == NextStart(p, start)
             IN (IF next > start THEN <<SubSeq(p, start, next - 1)>> ELSE <<>>)
                \o from[next]
  IN from[NextStart(p, 1)]

NalType(n) == (n[1] \div 2) % 64
OfType(nals, t) == SelectSeq(nals, LAMBDA n : Len(n) >= 2 /\ NalType(n) = t)

(* NoConfig: build_hvcc() returned false.                                  *)
BuildHvcc(csd) ==
  LET nals == SplitNals(csd)
      hvcc == [vps |-> OfType(nals, VPS), sps |-> OfType(nals, SPS),
               pps |-> OfType(nals, PPS)]
  IN IF hvcc.sps = <<>> \/ hvcc.pps = <<>> THEN NoConfig ELSE hvcc

(* Each unit is preceded by its length (an int, so 32 bits hold it).       *)
LengthPrefixed(p) ==
  LET nals == SplitNals(p)
  IN [i \in DOMAIN nals |-> [length |-> Len(nals[i]), data |-> nals[i]]]
------------------------------------------------------------------------------
(***************************************************************************)
(* What Annex B says, without a scan: a unit is what lies between the end  *)
(* of a start code 00 00 01 and the beginning of the next one, less the    *)
(* zero byte that makes that one a four-byte code.                         *)
(***************************************************************************)
CodeEnds(p) == {e \in 3..Len(p) : SubSeq(p, e - 2, e) = <<0, 0, 1>>}

UnitEnd(p, e) ==
  LET later  == {f \in CodeEnds(p) : f > e}
      before == Min(later) - 3
  IN IF later = {} THEN Len(p)
     ELSE IF before > e /\ p[before] = 0 THEN before - 1 ELSE before

(* The elements of a finite set of numbers, the smallest first.            *)
Rank(S, e) == Cardinality({f \in S : f <= e})
Nth(S, k) == Min({e \in S : Rank(S, e) = k})

AnnexBUnits(p) ==
  LET codes == {e \in CodeEnds(p) : UnitEnd(p, e) > e}
  IN [k \in 1..Cardinality(codes) |->
        SubSeq(p, Nth(codes, k) + 1, UnitEnd(p, Nth(codes, k)))]
==============================================================================
