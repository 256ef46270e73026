---------------------- MODULE ReorderingConstraint ----------------------
(***************************************************************************)
(* Which phrases may be translated next: class ReorderingConstraint (walls *)
(* and zones a user or the punctuation sets) and the limits on distortion  *)
(* of SearchNormal::ProcessOneHypothesis.  A coverage (WordsBitmap) is the *)
(* set of the positions 0 .. size-1 that are translated.                   *)
(***************************************************************************)
EXTENDS Integers, Sequences, FiniteSets, FiniteSetsExt

NOT_A_ZONE == 0

Within(inner, outer) == outer.start <= inner.start /\ inner.end <= outer.end

Span(zone) == zone.start .. zone.end

(* The walls of "-monotone-at-punctuation". *)
SetMonotoneAtPunctuation(punctuation, size) ==
  { i \in punctuation : 0 < i /\ i < size - 1 } \cup { i - 1 : i \in punctuation \ {0, 1} }

(* FinalizeWalls, at one position: a wall in a zone becomes local to the   *)
(* first zone that has it, and then to the zones that are further inside.  *)
Finalized(pos, walls, zones) ==
  LET after[z \in 0 .. Len(zones)] ==
        IF z = 0
          THEN [wall |-> pos \in walls, localWall |-> NOT_A_ZONE]
        ELSE IF pos \notin zones[z].start .. zones[z].end - 1
          THEN after[z - 1]
        ELSE IF after[z - 1].wall
          THEN [wall |-> FALSE, localWall |-> z]
        ELSE IF after[z - 1].localWall # NOT_A_ZONE
             /\ ~Within(zones[after[z - 1].localWall], zones[z])
          THEN [after[z - 1] EXCEPT !.localWall = z]
        ELSE after[z - 1]
  IN  after[Len(zones)]

Constraint(source) ==
  LET walls == SetMonotoneAtPunctuation(source.punctuation, source.size)
                 \cup (source.walls \cap 0 .. source.size - 1)
  IN  [zones     |-> source.zones,
       active    |-> walls # {} \/ source.zones # << >>,
       wall      |-> { pos \in walls : Finalized(pos, walls, source.zones).wall },
       localWall |-> [pos \in 0 .. source.size - 1 |->
                        Finalized(pos, walls, source.zones).localWall]]

-------------------------------------------------------------------------
NOT_FOUND == -1

GetFirstGapPos(bitmap, size) == Min(0 .. size \ bitmap)

GetLastPos(bitmap) == IF bitmap = {} THEN NOT_FOUND ELSE Max(bitmap)

(* From the end of the last phrase (NOT_FOUND: none) to the next one. *)
ComputeDistortionDistance(prevEnd, startPos) ==
  LET dist == prevEnd - startPos + 1 IN IF dist < 0 THEN -dist ELSE dist

TooFar(distance, maxDistortion) == maxDistortion >= 0 /\ distance > maxDistortion

(* Is a phrase at home in zone number z? *)
CheckZone(c, z, bitmap, gap, startPos, endPos, maxDistortion) ==
  LET zone    == c.zones[z]
      done    == Span(zone) \cap bitmap
      outside == endPos < zone.start \/ startPos > zone.end
      hitsLocalWall ==
        \E pos \in zone.start .. Min({zone.end, endPos}) - 1 :
          /\ c.localWall[pos] = z
          /\ \E p \in zone.start .. pos : p \notin bitmap /\ p < startPos
  IN  \/ gap > zone.end
      \/ Span(zone) \subseteq bitmap
      \/ done = {} /\ outside
      \/ /\ ~outside
         /\ startPos = gap \/ maxDistortion < 0 \/ zone.end - gap < maxDistortion
         /\ \/ startPos <= zone.start
            \/ /\ endPos > zone.end
               /\ zone.end - startPos + 1 >= Cardinality(Span(zone)) - Cardinality(done)
            \/ startPos > zone.start /\ endPos <= zone.end /\ ~hitsLocalWall

(* Mutant of Check: walls are looked for up to the phrase only. *)
CheckBefore(c, bitmap, size, startPos, endPos, maxDistortion) ==
  LET gap     == GetFirstGapPos(bitmap, size)
      lastPos == GetLastPos(bitmap)
  IN  ~c.active
      \/ /\ gap = startPos \/ gap .. startPos - 1 \cap c.wall = {}
         /\ \/ gap > lastPos /\ gap = startPos
            \/ \A z \in DOMAIN c.zones :
                 CheckZone(c, z, bitmap, gap, startPos, endPos, maxDistortion)

Check(c, bitmap, size, startPos, endPos, maxDistortion) ==
  LET gap     == GetFirstGapPos(bitmap, size)
      lastPos == GetLastPos(bitmap)
  IN  ~c.active
      \/ /\ gap = startPos \/ gap .. endPos - 1 \cap c.wall = {}
         /\ \/ gap > lastPos /\ gap = startPos
            \/ \A z \in DOMAIN c.zones :
                 CheckZone(c, z, bitmap, gap, startPos, endPos, maxDistortion)

(* Mutant of Extends: how far it is back to the first gap is not asked. *)
ExtendsAnyway(c, bitmap, size, prevEnd, startPos, endPos, maxDistortion) ==
  /\ bitmap \cap startPos .. endPos = {}
  /\ Check(c, bitmap, size, startPos, endPos, maxDistortion)
  /\ ~TooFar(ComputeDistortionDistance(prevEnd, startPos), maxDistortion)

(* ProcessOneHypothesis: may the phrase startPos .. endPos come next? *)
Extends(c, bitmap, size, prevEnd, startPos, endPos, maxDistortion) ==
  LET gap == GetFirstGapPos(bitmap, size)
  IN  /\ bitmap \cap startPos .. endPos = {}
      /\ Check(c, bitmap, size, startPos, endPos, maxDistortion)
      /\ ~TooFar(ComputeDistortionDistance(prevEnd, startPos), maxDistortion)
      /\ gap = startPos \/ ~TooFar(ComputeDistortionDistance(endPos, gap), maxDistortion)
=========================================================================
