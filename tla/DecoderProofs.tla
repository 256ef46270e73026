-------------------------- MODULE DecoderProofs --------------------------
(***************************************************************************)
(* Proofs about the decoder, for every sentence with whatever walls and    *)
(* zones and for all settings.  Five properties, each on an invariant of   *)
(* its own, the later ones on top of the earlier.                          *)
(*                                                                         *)
(*   - Hypotheses meet the reordering constraints (ConstraintsHold), and   *)
(*     each can be extended until the sentence is translated (NoDeadEnd).  *)
(*     A phrase that Extends allows keeps what held before                 *)
(*     (ExtensionMeets); stacks gain nothing but such extensions, whatever *)
(*     is pruned, recombined or cut.  What Extends asks also keeps         *)
(*     everything within the distortion limit of the first gap             *)
(*     (ReachKept), which is why a word can follow (SomeWordMayFollow):    *)
(*     the first gap, or the first missing word of the innermost zone that *)
(*     is half done, where no wall is in the way since it would be local   *)
(*     to that zone.                                                       *)
(*   - The search graph is sound (GraphSound): what a hypothesis was made  *)
(*     from stays on its stack, which is done or at hand, and nothing is   *)
(*     made twice (Linked); on a stack no two hypotheses are recombinable, *)
(*     and an arc is recombinable with its winner and no better            *)
(*     (StackGood).                                                        *)
(*   - What is pruned may be pruned (PruningJust): the best score of a     *)
(*     stack is that of a hypothesis on it, and a worst score above the    *)
(*     beam is earned by as many hypotheses at least as good as the stack  *)
(*     may hold (Enough), those of diverse coverages counted apart.        *)
(*   - The best translation is found when no limit is reached (FindsBest): *)
(*     stacks then refuse nothing (Lenient), and every extension that has  *)
(*     been made is on its stack or one that can be recombined with it and *)
(*     is no worse (AllKept).  Such two have the same future (SameFuture), *)
(*     so by induction all ways to translate are represented in the end    *)
(*     (AllRepresented).                                                   *)
(***************************************************************************)
EXTENDS Decoder, Extremes, FiniteSetTheorems, SequenceTheorems

(* The options a hypothesis is made of; what it covers. *)
Hypotheses == Seq(DOMAIN source.options)

HalfDone(zone, B) == Span(zone) \cap B # {} /\ ~(Span(zone) \subseteq B)

(* What is covered, where the last phrase ended and what half done zones   *)
(* still lack is within reach of the first gap; no two zones that have     *)
(* nothing in common are half done.                                        *)
InReach(c, B, n, last, D) ==
  LET g == GetFirstGapPos(B, n)
  IN  /\ D >= 0 => g - last - 1 <= D /\ \A p \in B : p - g < D
      /\ \A y, z \in DOMAIN c.zones :
           HalfDone(c.zones[y], B) /\ g < c.zones[y].start /\ Within(c.zones[y], c.zones[z])
             => D < 0 \/ c.zones[z].end - g < D
      /\ \A y, z \in DOMAIN c.zones :
           HalfDone(c.zones[y], B) /\ HalfDone(c.zones[z], B)
             => Span(c.zones[y]) \cap Span(c.zones[z]) # {}

Reaches(h) ==
  InReach(m_reorderingConstraint, GetWordsBitmap(h), source.size, LastEnd(h),
          param.maxDistortion)

Sound(h) == h \in Hypotheses /\ MeetsConstraints(h) /\ Reaches(h)

InputsKept ==
  \E c \in Cases :
    /\ source = c.source /\ param = c.param
    /\ m_reorderingConstraint = Constraint(source)
    /\ m_futureScore = FutureScoreMatrix(source)

(* Stacks have the fields they begin with. *)
Fields == {"m_hypos", "m_bestScore", "m_worstScore", "m_diversityWorstScore"}

StacksSound ==
  /\ m_hypoStackColl = [k \in 0 .. source.size |-> m_hypoStackColl[k]]
  /\ \A k \in 0 .. source.size :
       /\ DOMAIN m_hypoStackColl[k] = Fields
       /\ \A h \in Hypos(m_hypoStackColl[k]) : Sound(h)

HypothesisSound ==
  /\ iterStack \in Nat
  /\ iterHypo # NoHypothesis \/ todo # {} => Sound(iterHypo)
  /\ todo \subseteq Extensions(iterHypo)

IInv == InputsKept /\ StacksSound /\ HypothesisSound

-------------------------------------------------------------------------
(* Coverages. *)

(* Up to the first gap everything is covered. *)
LEMMA FirstGap ==
  ASSUME NEW n \in Nat, NEW B, B \subseteq 0 .. n - 1
  PROVE  LET g == GetFirstGapPos(B, n)
         IN  g \in 0 .. n /\ g \notin B /\ \A p \in Nat : p < g => p \in B
<1> DEFINE g == GetFirstGapPos(B, n)
<1>1. n \in (0 .. n) \ B /\ (0 .. n) \ B \subseteq Nat
  OBVIOUS
<1>2. g \in (0 .. n) \ B /\ \A p \in (0 .. n) \ B : g <= p
  BY <1>1, MinIn DEF GetFirstGapPos
<1>3. QED
  BY <1>2

(* Beyond the last position nothing is. *)
LEMMA LastPos ==
  ASSUME NEW n \in Nat, NEW B, B \subseteq 0 .. n - 1
  PROVE  /\ GetLastPos(B) \in Int
         /\ \A p \in B : p <= GetLastPos(B)
<1>1. CASE B = {}
  BY <1>1 DEF GetLastPos, NOT_FOUND
<1>2. CASE B # {}
  <2>1. B \subseteq 0 .. n
    OBVIOUS
  <2>2. Max(B) \in B /\ \A p \in B : p <= Max(B)
    BY <1>2, <2>1, MaxIn
  <2>3. GetLastPos(B) = Max(B)
    BY <1>2 DEF GetLastPos
  <2>4. Max(B) \in Int
    <3>1. \A p \in B : p \in Int
      OBVIOUS
    <3>2. QED
      BY <2>2, <3>1
  <2>5. QED
    BY <2>2, <2>3, <2>4
<1>3. QED
  BY <1>1, <1>2

(* A wall with a word before it that is not covered: nothing beyond it is, *)
(* and the phrase ends before it or covers all that is missing.            *)
LEMMA WallKept ==
  ASSUME NEW n \in Nat, NEW B, B \subseteq 0 .. n - 1,
         NEW from \in Nat, NEW w \in Int, NEW to \in Int,
         NEW s \in Nat, NEW e \in s .. n - 1,
         KeepsWall(B, from, w, to),
         e <= w \/ \A p \in from .. w : p \in B \/ p \in s .. e
  PROVE  KeepsWall(B \cup s .. e, from, w, to)
BY DEF KeepsWall

(* A wall across the sentence. *)
LEMMA GlobalWallKept ==
  ASSUME NEW n \in Nat, NEW B, B \subseteq 0 .. n - 1, NEW w \in Nat,
         NEW s \in Nat, NEW e \in s .. n - 1, B \cap s .. e = {},
         KeepsWall(B, 0, w, n - 1),
         LET g == GetFirstGapPos(B, n) IN g = s \/ w \notin g .. e - 1
  PROVE  KeepsWall(B \cup s .. e, 0, w, n - 1)
<1> DEFINE g == GetFirstGapPos(B, n)
<1>1. g \in 0 .. n /\ g \notin B /\ \A p \in Nat : p < g => p \in B
  BY FirstGap
<1>2. CASE 0 .. w \subseteq B
  BY <1>2 DEF KeepsWall
<1>3. CASE ~ (0 .. w \subseteq B)
  <2>1. g <= w
    BY <1>1, <1>3
  <2>2. e <= w \/ g = s
    BY <1>1, <2>1
  <2>3. e <= w \/ \A p \in 0 .. w : p \in B \/ p \in s .. e
    BY <1>1, <2>2
  <2>4. QED
    BY <2>3 DEF KeepsWall
<1>4. QED
  BY <1>2, <1>3

(* A phrase that begins inside a zone, ends beyond it and is as long as    *)
(* what is left of the zone fills it.                                      *)
LEMMA RestCovered ==
  ASSUME NEW B, NEW from \in Nat, NEW to \in Nat,
         NEW s \in Nat, NEW e \in Nat, B \cap s .. e = {},
         from <= s, s <= to, to < e,
         to - s + 1 >= Cardinality(from .. to) - Cardinality((from .. to) \cap B)
  PROVE  \A p \in from .. to : p \in B \/ p \in s .. e
<1> SUFFICES ASSUME NEW p \in from .. to, p \notin B, p < s PROVE FALSE
  OBVIOUS
<1> DEFINE span == from .. to
           left == span \ B
           rest == s .. to
<1>1. IsFiniteSet(span) /\ IsFiniteSet(rest) /\ Cardinality(rest) = to - s + 1
  <2>1. s \in Int /\ to \in Int /\ from \in Int
    OBVIOUS
  <2>2. IsFiniteSet(span)
    BY <2>1, FS_Interval
  <2>3. IsFiniteSet(rest) /\ Cardinality(rest) = IF s > to THEN 0 ELSE to - s + 1
    BY <2>1, FS_Interval
  <2>4. QED
    BY <2>2, <2>3
<1>2. IsFiniteSet(left) /\ Cardinality(left) = Cardinality(span) - Cardinality(span \cap B)
  BY <1>1, FS_Difference
<1>3. p \notin rest
  OBVIOUS
<1>4. IsFiniteSet(rest \cup {p}) /\ Cardinality(rest \cup {p}) = to - s + 2
  <2> HIDE DEF rest
  <2>1. IsFiniteSet(rest \cup {p}) /\ Cardinality(rest \cup {p}) = Cardinality(rest) + 1
    BY <1>1, <1>3, FS_AddElement
  <2>2. QED
    BY <1>1, <2>1
<1>5. rest \cup {p} \subseteq left
  OBVIOUS
<1>6. Cardinality(rest \cup {p}) <= Cardinality(left)
  BY <1>2, <1>5, FS_Subset
<1>7. Cardinality(left) \in Nat /\ Cardinality(left) <= to - s + 1
  BY <1>2, FS_CardinalityType
<1>8. QED
  BY <1>4, <1>6, <1>7

(* What Check asks of a zone, or else grants to a phrase that goes on      *)
(* where everything before is translated and nothing beyond.               *)
ZoneAllows(c, z, B, n, s, e, maxDistortion) ==
  LET g == GetFirstGapPos(B, n)
  IN  \/ g > GetLastPos(B) /\ g = s
      \/ CheckZone(c, z, B, g, s, e, maxDistortion)

(* The ways in which a zone may allow a phrase. *)
ZoneWays(zone, local, B, s, e) ==
  \/ (\A p \in Nat : p < s => p \in B) /\ \A p \in B : p < s
  \/ Span(zone) \subseteq B
  \/ Span(zone) \cap B = {} /\ (e < zone.start \/ zone.end < s)
  \/ /\ zone.start <= e /\ s <= zone.end
     /\ \/ s <= zone.start
        \/ zone.start <= s /\ \A p \in zone.start .. zone.end : p \in B \/ p \in s .. e
        \/ /\ zone.start < s /\ e <= zone.end
           /\ \A w \in zone.start .. e - 1 : w \in local =>
                \A p \in zone.start .. w : p \in B \/ s <= p

LocalTo(c, z) == { w \in Int : c.localWall[w] = z }

LEMMA ZoneCases ==
  ASSUME NEW n \in Nat, NEW B, B \subseteq 0 .. n - 1,
         NEW s \in Nat, NEW e \in s .. n - 1, B \cap s .. e = {},
         NEW c, NEW z, NEW d, c.zones[z].start \in Nat, c.zones[z].end \in Nat,
         ZoneAllows(c, z, B, n, s, e, d)
  PROVE  ZoneWays(c.zones[z], LocalTo(c, z), B, s, e)
<1> DEFINE g    == GetFirstGapPos(B, n)
           zone == c.zones[z]
           from == zone.start
           to   == zone.end
           done == Span(zone) \cap B
           outside == e < zone.start \/ s > zone.end
           hits == \E pos \in zone.start .. Min({zone.end, e}) - 1 :
                     /\ c.localWall[pos] = z
                     /\ \E p \in zone.start .. pos : p \notin B /\ p < s
<1>1. g \in 0 .. n /\ g \notin B /\ \A p \in Nat : p < g => p \in B
  BY FirstGap
<1>2. CASE g > GetLastPos(B) /\ g = s
  <2>1. GetLastPos(B) \in Int /\ \A p \in B : p <= GetLastPos(B)
    BY LastPos
  <2>2. \A p \in B : p < s
    <3>1. \A p \in B : p \in Int
      OBVIOUS
    <3>2. QED
      BY <1>2, <2>1, <3>1
  <2>3. QED
    BY <1>1, <1>2, <2>2 DEF ZoneWays
<1>3. CASE CheckZone(c, z, B, g, s, e, d)
  <2>1. \/ g > zone.end
        \/ Span(zone) \subseteq B
        \/ done = {} /\ outside
        \/ /\ ~outside
           /\ \/ s <= zone.start
              \/ /\ e > zone.end
                 /\ zone.end - s + 1 >= Cardinality(Span(zone)) - Cardinality(done)
              \/ s > zone.start /\ e <= zone.end /\ ~hits
    BY <1>3 DEF CheckZone
  <2>2. CASE g > zone.end
    <3>1. \A p \in Span(zone) : p \in Nat /\ p < g
      BY <2>2, <1>1 DEF Span
    <3>2. QED
      BY <3>1, <1>1 DEF ZoneWays
  <2>3. CASE Span(zone) \subseteq B
    BY <2>3 DEF ZoneWays
  <2>4. CASE done = {} /\ outside
    BY <2>4 DEF ZoneWays
  <2>5. CASE ~outside /\ s <= zone.start
    BY <2>5 DEF ZoneWays
  <2>6. CASE /\ ~outside /\ s > zone.start
             /\ e > zone.end
             /\ zone.end - s + 1 >= Cardinality(Span(zone)) - Cardinality(done)
    <3>1. s <= to /\ to < e /\ from <= s
      BY <2>6
    <3>2. to - s + 1 >= Cardinality(from .. to) - Cardinality((from .. to) \cap B)
      BY <2>6 DEF Span
    <3> HIDE DEF from, to
    <3>3. from \in Nat /\ to \in Nat
      BY DEF from, to
    <3>4. s \in Nat /\ e \in Nat /\ B \cap s .. e = {}
      OBVIOUS
    <3>5. \A p \in from .. to : p \in B \/ p \in s .. e
      BY <3>1, <3>2, <3>3, <3>4, RestCovered
    <3>6. QED
      BY <2>6, <3>1, <3>5 DEF from, to, ZoneWays
  <2>7. CASE ~outside /\ s > zone.start /\ e <= zone.end /\ ~hits
    <3>1. Min({zone.end, e}) = e
      BY <2>7 DEF Min
    <3>2. \A w \in from .. e - 1 : w \in LocalTo(c, z) =>
            \A p \in from .. w : p \in B \/ s <= p
      BY <2>7, <3>1 DEF LocalTo
    <3>3. QED
      BY <2>7, <3>2 DEF ZoneWays
  <2> HIDE DEF outside, hits, done, g
  <2>8. QED
    BY <2>1, <2>2, <2>3, <2>4, <2>5, <2>6, <2>7
<1>4. QED
  BY <1>2, <1>3 DEF ZoneAllows

(* A wall inside a zone. *)
LEMMA LocalWallKept ==
  ASSUME NEW n \in Nat, NEW B, B \subseteq 0 .. n - 1, NEW w \in 0 .. n - 1,
         NEW s \in Nat, NEW e \in s .. n - 1, B \cap s .. e = {},
         NEW c, NEW z, NEW d, c.zones[z].start \in Nat, c.zones[z].end \in Nat,
         ZoneAllows(c, z, B, n, s, e, d), c.localWall[w] = z,
         KeepsWall(B, c.zones[z].start, w, c.zones[z].end)
  PROVE  KeepsWall(B \cup s .. e, c.zones[z].start, w, c.zones[z].end)
<1> DEFINE from == c.zones[z].start
           to   == c.zones[z].end
<1>1. CASE e <= w \/ w >= to \/ from .. w \subseteq B \/ w < from
  BY <1>1 DEF KeepsWall
<1>2. CASE from <= w /\ w < to /\ w < e /\ ~ (from .. w \subseteq B)
  <2>1. CASE (\A p \in Nat : p < s => p \in B) /\ \A p \in B : p < s
    BY <1>2, <2>1 DEF KeepsWall
  <2>2. CASE Span(c.zones[z]) \subseteq B
    BY <1>2, <2>2 DEF Span
  <2>3. CASE Span(c.zones[z]) \cap B = {} /\ (e < from \/ to < s)
    BY <1>2, <2>3 DEF Span, KeepsWall
  <2>4. CASE s <= from
    BY <1>2, <2>4 DEF KeepsWall
  <2>5. CASE \A p \in from .. to : p \in B \/ p \in s .. e
    BY <1>2, <2>5 DEF KeepsWall
  <2>6. CASE \A v \in from .. e - 1 : v \in LocalTo(c, z) =>
               \A p \in from .. v : p \in B \/ s <= p
    <3>1. w \in from .. e - 1 /\ w \in LocalTo(c, z)
      BY <1>2 DEF LocalTo
    <3>2. \A p \in from .. w : p \in B \/ s <= p
      BY <2>6, <3>1
    <3>3. QED
      BY <1>2, <3>2 DEF KeepsWall
  <2>7. ZoneWays(c.zones[z], LocalTo(c, z), B, s, e)
    BY ZoneCases
  <2> HIDE DEF from, to
  <2>8. QED
    BY <2>1, <2>2, <2>3, <2>4, <2>5, <2>6, <2>7 DEF ZoneWays, from, to
<1>3. QED
  BY <1>1, <1>2

(* A zone is not left half done. *)
LEMMA ZoneNotLeft ==
  ASSUME NEW n \in Nat, NEW B, B \subseteq 0 .. n - 1,
         NEW s \in Nat, NEW e \in s .. n - 1, B \cap s .. e = {},
         NEW c, NEW z, NEW d, c.zones[z].start \in Nat, c.zones[z].end \in Nat,
         ZoneAllows(c, z, B, n, s, e, d)
  PROVE  \/ Span(c.zones[z]) \cap (B \cup s .. e) = {}
         \/ Span(c.zones[z]) \subseteq B \cup s .. e
         \/ s .. e \cap Span(c.zones[z]) # {}
<1> DEFINE from == c.zones[z].start
           to   == c.zones[z].end
<1> SUFFICES ASSUME s .. e \cap Span(c.zones[z]) = {}
             PROVE  \/ Span(c.zones[z]) \cap (B \cup s .. e) = {}
                    \/ Span(c.zones[z]) \subseteq B
  OBVIOUS
<1>1. CASE (\A p \in Nat : p < s => p \in B) /\ \A p \in B : p < s
  <2>1. CASE to < s
    BY <1>1, <2>1 DEF Span
  <2>2. CASE e < from
    BY <1>1, <2>2 DEF Span
  <2>3. CASE s <= to /\ from <= e
    <3>1. CASE from <= s
      <4>1. s \in s .. e /\ s \in Span(c.zones[z])
        BY <2>3, <3>1 DEF Span
      <4>2. QED
        BY <4>1
    <3>2. CASE s < from
      <4>1. from \in s .. e
        BY <2>3, <3>2
      <4>2. QED
        BY <4>1, <3>2 DEF Span
    <3>3. QED
      BY <3>1, <3>2
  <2>4. QED
    BY <2>1, <2>2, <2>3
<1>2. CASE Span(c.zones[z]) \subseteq B
  BY <1>2
<1>3. CASE Span(c.zones[z]) \cap B = {} /\ (e < from \/ to < s)
  BY <1>3
<1>4. CASE from <= e /\ s <= to
  <2>1. CASE from <= s
    <3>1. s \in s .. e /\ s \in Span(c.zones[z])
      BY <1>4, <2>1 DEF Span
    <3>2. QED
      BY <3>1
  <2>2. CASE s < from
    <3>1. from \in s .. e
      BY <1>4, <2>2
    <3>2. CASE from <= to
      BY <3>1, <3>2 DEF Span
    <3>3. CASE to < from
      BY <3>3 DEF Span
    <3>4. QED
      BY <3>2, <3>3
  <2>3. QED
    BY <2>1, <2>2
<1>5. ZoneWays(c.zones[z], LocalTo(c, z), B, s, e)
  BY ZoneCases
<1>6. QED
  BY <1>1, <1>2, <1>3, <1>4, <1>5 DEF ZoneWays

-------------------------------------------------------------------------
(* Walls and zones. *)

LEMMA ElementsOf ==
  ASSUME NEW S, NEW q \in Seq(S), NEW i \in DOMAIN q PROVE q[i] \in S
OBVIOUS

Zones == Seq([start : Nat, end : Nat])

(* Where a wall is local to: zone number z has it. *)
Holds(zone, pos) == pos \in zone.start .. zone.end - 1

FinalizedStep(pos, walls, zones, after, z) ==
  IF z = 0
    THEN [wall |-> pos \in walls, localWall |-> NOT_A_ZONE]
  ELSE IF pos \notin zones[z].start .. zones[z].end - 1
    THEN after[z - 1]
  ELSE IF after[z - 1].wall
    THEN [wall |-> FALSE, localWall |-> z]
  ELSE IF after[z - 1].localWall # NOT_A_ZONE
       /\ ~Within(zones[after[z - 1].localWall], zones[z])
    THEN [after[z - 1] EXCEPT !.localWall = z]
  ELSE after[z - 1]

(* The recursion over the zones has a solution, and Finalized is it. *)
LEMMA FinalizedEquation ==
  ASSUME NEW pos \in Int, NEW walls, NEW zones \in Zones
  PROVE  \E f : /\ Finalized(pos, walls, zones) = f[Len(zones)]
                /\ \A z \in 0 .. Len(zones) : f[z] = FinalizedStep(pos, walls, zones, f, z)
<1> DEFINE I == 0 .. Len(zones)
           V == [wall : BOOLEAN, localWall : I]
           G == [f \in [I -> V] |-> [z \in I |-> FinalizedStep(pos, walls, zones, f, z)]]
           rank == [z \in I |-> z]
<1>1. Len(zones) \in Nat /\ \A z \in I : z # 0 => z - 1 \in I
  BY DEF Zones
<1>2. ASSUME NEW f \in [I -> V], NEW z \in I
      PROVE  G[f][z] = FinalizedStep(pos, walls, zones, f, z) /\ G[f][z] \in V
  <2>1. G[f][z] = FinalizedStep(pos, walls, zones, f, z)
    OBVIOUS
  <2>2. CASE z = 0
    <3>1. [wall |-> pos \in walls, localWall |-> 0] \in V
      BY <1>1
    <3>2. QED
      BY <2>1, <2>2, <3>1 DEF FinalizedStep, NOT_A_ZONE
  <2>3. CASE z # 0
    <3>1. f[z - 1] \in V
      BY <1>1, <2>3
    <3>2. [wall |-> FALSE, localWall |-> z] \in V /\ [f[z - 1] EXCEPT !.localWall = z] \in V
      BY <3>1
    <3> HIDE DEF V, G
    <3>3. QED
      BY <2>1, <2>3, <3>1, <3>2 DEF FinalizedStep
  <2>4. QED
    BY <2>2, <2>3
<1>3. ASSUME NEW f \in [I -> V], NEW g \in [I -> V], NEW z \in I,
             \A y \in I : rank[y] < rank[z] => f[y] = g[y]
      PROVE  G[f][z] = G[g][z]
  <2>1. z # 0 => z - 1 \in I /\ z - 1 < z
    BY <1>1
  <2>2. z # 0 => f[z - 1] = g[z - 1]
    BY <1>3, <2>1
  <2> HIDE DEF V, G, rank
  <2>3. FinalizedStep(pos, walls, zones, f, z) = FinalizedStep(pos, walls, zones, g, z)
    BY <2>2 DEF FinalizedStep
  <2>4. QED
    BY <1>2, <2>3
<1>4. rank \in [I -> 0 .. Len(zones)] /\ V # {}
  <2>1. [wall |-> FALSE, localWall |-> 0] \in V
    BY <1>1
  <2>2. QED
    BY <2>1
<1>5. PICK f \in [I -> V] : \A z \in I : f[z] = FinalizedStep(pos, walls, zones, f, z)
  <2> HIDE DEF G, rank, I, V
  <2>1. KeepsType(G, I, V)
    BY <1>2 DEF KeepsType
  <2>2. LooksBelow(G, I, V, rank)
    BY <1>3 DEF LooksBelow
  <2>3. \E f \in [I -> V] : Solution(f, G, I)
    BY <1>1, <1>4, <2>1, <2>2, Recursion
  <2>4. QED
    BY <1>2, <2>3 DEF Solution
<1> DEFINE after == CHOOSE g : g = [z \in I |-> FinalizedStep(pos, walls, zones, g, z)]
<1>6. Finalized(pos, walls, zones) = after[Len(zones)]
  BY DEF Finalized, FinalizedStep
<1>7. f = [z \in I |-> FinalizedStep(pos, walls, zones, f, z)]
  BY <1>5
<1> HIDE DEF V, G, rank
<1>8. after = [z \in I |-> FinalizedStep(pos, walls, zones, after, z)]
  BY <1>7
<1> HIDE DEF after
<1>9. \A z \in I : after[z] = FinalizedStep(pos, walls, zones, after, z)
  BY <1>8
<1>10. QED
  BY <1>6, <1>9

(* Zones of which two have a position in common lie one in the other. *)
Nested(zones) ==
  \A y, z \in DOMAIN zones :
    \/ Within(zones[y], zones[z]) \/ Within(zones[z], zones[y])
    \/ Span(zones[y]) \cap Span(zones[z]) = {}

(* What becomes of a wall, when the first k zones have been looked at: it  *)
(* is in none of them, or local to the innermost that has it. *)
WellFinalized(pos, zones, k, a) ==
  /\ a.wall => \A z \in 1 .. k : ~Holds(zones[z], pos)
  /\ a.localWall # NOT_A_ZONE =>
       /\ a.localWall \in 1 .. k /\ Holds(zones[a.localWall], pos)
       /\ \A y \in 1 .. k : Holds(zones[y], pos) => Within(zones[a.localWall], zones[y])

LEMMA FinalizedWell ==
  ASSUME NEW pos \in Int, NEW walls, NEW zones \in Zones, Nested(zones)
  PROVE  WellFinalized(pos, zones, Len(zones), Finalized(pos, walls, zones))
<1>1. Len(zones) \in Nat /\ DOMAIN zones = 1 .. Len(zones)
      /\ \A z \in 1 .. Len(zones) : zones[z].start \in Nat /\ zones[z].end \in Nat
  <2>1. zones \in Seq([start : Nat, end : Nat])
    BY DEF Zones
  <2>2. \A z \in DOMAIN zones : zones[z] \in [start : Nat, end : Nat]
    BY <2>1, ElementsOf
  <2>3. QED
    BY <2>1, <2>2
<1>2. PICK f : /\ Finalized(pos, walls, zones) = f[Len(zones)]
               /\ \A z \in 0 .. Len(zones) : f[z] = FinalizedStep(pos, walls, zones, f, z)
  BY FinalizedEquation
<1> DEFINE S == { k \in Nat : k <= Len(zones) => WellFinalized(pos, zones, k, f[k]) }
<1>3. 0 \in S
  <2>1. f[0] = [wall |-> pos \in walls, localWall |-> NOT_A_ZONE]
    <3>1. 0 \in 0 .. Len(zones)
      BY <1>1
    <3>2. f[0] = FinalizedStep(pos, walls, zones, f, 0)
      BY <1>2, <3>1
    <3>3. QED
      BY <3>2 DEF FinalizedStep
  <2>2. QED
    BY <2>1 DEF WellFinalized
<1>4. ASSUME NEW k \in Nat, k \in S PROVE k + 1 \in S
  <2>1. SUFFICES ASSUME k + 1 <= Len(zones) PROVE WellFinalized(pos, zones, k + 1, f[k + 1])
    BY <1>4
  <2> DEFINE z == k + 1
  <2>2. z \in 1 .. Len(zones) /\ z - 1 = k /\ z # 0 /\ 1 .. k = (1 .. z) \ {z} /\ k <= Len(zones)
    BY <1>1, <1>4, <2>1
  <2>3. f[z] = FinalizedStep(pos, walls, zones, f, z)
    BY <1>2, <2>2
  <2>4. WellFinalized(pos, zones, k, f[k])
    BY <1>4, <2>2
  <2>5. zones[z].start \in Nat /\ zones[z].end \in Nat
    BY <1>1, <2>2
  <2> HIDE DEF z
  <2>6. CASE ~Holds(zones[z], pos)
    <3>1. f[z] = f[k]
      BY <2>2, <2>3, <2>6 DEF FinalizedStep, Holds
    <3>2. QED
      BY <2>2, <2>4, <2>6, <3>1 DEF WellFinalized, z
  <2>7. CASE Holds(zones[z], pos) /\ f[k].wall
    <3>1. f[z] = [wall |-> FALSE, localWall |-> z]
      BY <2>2, <2>3, <2>7 DEF FinalizedStep, Holds
    <3>2. \A y \in 1 .. z : Holds(zones[y], pos) => y = z
      BY <2>2, <2>4, <2>7 DEF WellFinalized
    <3>3. Within(zones[z], zones[z])
      BY <2>5 DEF Within
    <3>4. z \in 1 .. z
      BY <2>2
    <3>5. QED
      BY <2>7, <3>1, <3>2, <3>3, <3>4 DEF WellFinalized, z
  <2>8. CASE /\ Holds(zones[z], pos) /\ ~f[k].wall
             /\ f[k].localWall # NOT_A_ZONE /\ ~Within(zones[f[k].localWall], zones[z])
    <3> DEFINE x == f[k].localWall
    <3>1. f[z] = [f[k] EXCEPT !.localWall = z]
      BY <2>2, <2>3, <2>8 DEF FinalizedStep, Holds
    <3>2. x \in 1 .. k /\ Holds(zones[x], pos)
          /\ \A y \in 1 .. k : Holds(zones[y], pos) => Within(zones[x], zones[y])
      BY <2>4, <2>8 DEF WellFinalized
    <3>3. f[z].localWall = z /\ ~f[z].wall
      BY <2>8, <3>1, <3>2
    <3> HIDE DEF x
    <3>4. x \in 1 .. Len(zones) /\ zones[x].start \in Nat /\ zones[x].end \in Nat
      BY <1>1, <2>2, <3>2
    <3>5. Within(zones[z], zones[x])
      <4>1. pos \in Span(zones[z]) /\ pos \in Span(zones[x])
        BY <2>5, <2>8, <3>2, <3>4 DEF Holds, Span
      <4>2. Within(zones[x], zones[z]) \/ Within(zones[z], zones[x])
        BY <1>1, <2>2, <3>4, <4>1 DEF Nested
      <4>3. QED
        BY <2>8, <4>2 DEF x
    <3>6. ASSUME NEW y \in 1 .. z, Holds(zones[y], pos) PROVE Within(zones[z], zones[y])
      <4>1. CASE y = z
        BY <2>5, <4>1 DEF Within
      <4>2. CASE y \in 1 .. k
        <5>1. Within(zones[x], zones[y])
          BY <3>2, <3>6, <4>2
        <5>2. zones[y].start \in Nat /\ zones[y].end \in Nat
          BY <1>1, <2>2, <4>2
        <5>3. QED
          BY <2>5, <3>4, <3>5, <5>1, <5>2 DEF Within
      <4>3. QED
        BY <2>2, <4>1, <4>2
    <3>7. z \in 1 .. z
      BY <2>2
    <3>8. QED
      BY <2>8, <3>3, <3>6, <3>7 DEF WellFinalized, z
  <2>9. CASE /\ Holds(zones[z], pos) /\ ~f[k].wall
             /\ f[k].localWall # NOT_A_ZONE /\ Within(zones[f[k].localWall], zones[z])
    <3>1. f[z] = f[k]
      BY <2>2, <2>3, <2>9 DEF FinalizedStep, Holds
    <3>2. QED
      BY <2>2, <2>4, <2>9, <3>1 DEF WellFinalized, z
  <2>10. CASE Holds(zones[z], pos) /\ ~f[k].wall /\ f[k].localWall = NOT_A_ZONE
    <3>1. f[z] = f[k]
      BY <2>2, <2>3, <2>10 DEF FinalizedStep, Holds
    <3>2. QED
      BY <2>10, <3>1 DEF WellFinalized, z
  <2>11. QED
    BY <2>6, <2>7, <2>8, <2>9, <2>10
<1>5. \A k \in Nat : k \in S
  <2> HIDE DEF S
  <2>1. QED
    BY <1>3, <1>4, Induction
<1>6. QED
  BY <1>1, <1>2, <1>5

-------------------------------------------------------------------------
(* The way on. *)

(* The first gap moves only when it is filled. *)
LEMMA GapMoves ==
  ASSUME NEW n \in Nat, NEW B, B \subseteq 0 .. n - 1,
         NEW s \in Nat, NEW e \in s .. n - 1, B \cap s .. e = {}
  PROVE  LET g == GetFirstGapPos(B, n)
             k == GetFirstGapPos(B \cup s .. e, n)
         IN  /\ g \in 0 .. n /\ k \in 0 .. n /\ g <= s
             /\ s # g => k = g
             /\ s = g => e < k /\ (k = e + 1 \/ k - 1 \in B)
<1> DEFINE C == B \cup s .. e
           g == GetFirstGapPos(B, n)
           k == GetFirstGapPos(C, n)
<1>1. g \in 0 .. n /\ g \notin B /\ \A p \in Nat : p < g => p \in B
  BY FirstGap
<1>2. k \in 0 .. n /\ k \notin C /\ \A p \in Nat : p < k => p \in C
  <2>1. C \subseteq 0 .. n - 1
    OBVIOUS
  <2> HIDE DEF C
  <2>2. QED
    BY <2>1, FirstGap
<1> HIDE DEF g, k
<1>3. g <= s
  BY <1>1
<1>4. g <= k
  BY <1>1, <1>2
<1>5. s # g => k = g
  BY <1>1, <1>2, <1>3, <1>4
<1>6. ASSUME s = g PROVE e < k /\ (k = e + 1 \/ k - 1 \in B)
  <2>1. e < k
    BY <1>2, <1>4, <1>6
  <2>2. k - 1 \in C
    BY <1>2, <2>1
  <2>3. QED
    BY <2>1, <2>2, <1>2
<1>7. QED
  BY <1>1, <1>2, <1>3, <1>5, <1>6 DEF g, k

(* A zone that is half done after a phrase was touched by the phrase. *)
LEMMA TouchedBy ==
  ASSUME NEW n \in Nat, NEW B, B \subseteq 0 .. n - 1,
         NEW s \in Nat, NEW e \in s .. n - 1, B \cap s .. e = {},
         NEW c, NEW z, NEW d, c.zones[z].start \in Nat, c.zones[z].end \in Nat,
         ZoneAllows(c, z, B, n, s, e, d), HalfDone(c.zones[z], B \cup s .. e)
  PROVE  c.zones[z].start <= e /\ s <= c.zones[z].end /\ c.zones[z].start <= c.zones[z].end
<1>1. s .. e \cap Span(c.zones[z]) # {}
  BY ZoneNotLeft DEF HalfDone
<1>2. QED
  BY <1>1 DEF Span

LEMMA ReachKept ==
  ASSUME NEW n \in Nat, NEW B, B \subseteq 0 .. n - 1,
         NEW s \in Nat, NEW e \in s .. n - 1, B \cap s .. e = {},
         NEW c, NEW D \in Int, NEW last, InReach(c, B, n, last, D),
         \A z \in DOMAIN c.zones : c.zones[z].start \in Nat /\ c.zones[z].end \in Nat,
         \A z \in DOMAIN c.zones : ZoneAllows(c, z, B, n, s, e, D),
         LET g == GetFirstGapPos(B, n)
         IN  g = s \/ ~TooFar(ComputeDistortionDistance(e, g), D)
  PROVE  InReach(c, B \cup s .. e, n, e, D)
<1> DEFINE C == B \cup s .. e
           g == GetFirstGapPos(B, n)
           k == GetFirstGapPos(C, n)
<1>1. /\ g \in 0 .. n /\ k \in 0 .. n /\ g <= s
      /\ s # g => k = g
      /\ s = g => e < k /\ (k = e + 1 \/ k - 1 \in B)
  BY GapMoves
<1>2. s # g /\ D >= 0 => e - g < D
  <2>1. s # g => ~TooFar(ComputeDistortionDistance(e, g), D)
    OBVIOUS
  <2> HIDE DEF g
  <2>2. QED
    BY <1>1, <2>1 DEF TooFar, ComputeDistortionDistance
<1>3. D >= 0 => \A p \in B : p - g < D
  BY DEF InReach
<1>4. \A z \in DOMAIN c.zones :
        HalfDone(c.zones[z], C)
          => c.zones[z].start <= e /\ s <= c.zones[z].end /\ c.zones[z].start <= c.zones[z].end
  BY TouchedBy
<1> HIDE DEF g, k
<1>5. ASSUME D >= 0 PROVE k - e - 1 <= D /\ \A p \in C : p - k < D
  <2>1. CASE s = g
    <3>1. k - e - 1 <= D
      <4>1. CASE k = e + 1
        BY <1>5, <4>1
      <4>2. CASE k - 1 \in B
        <5>1. (k - 1) - g < D
          BY <1>3, <1>5, <4>2
        <5>2. QED
          BY <1>1, <2>1, <5>1
      <4>3. QED
        BY <1>1, <2>1, <4>1, <4>2
    <3>2. ASSUME NEW p \in B PROVE p - k < D
      <4>1. p \in Int /\ p - g < D
        BY <1>3, <1>5
      <4>2. QED
        BY <1>1, <2>1, <4>1
    <3>3. ASSUME NEW p \in s .. e PROVE p - k < D
      BY <1>1, <1>5, <2>1
    <3>4. QED
      BY <3>1, <3>2, <3>3
  <2>2. CASE s # g
    <3>1. k = g
      BY <1>1, <2>2
    <3>2. k - e - 1 <= D
      BY <1>1, <1>5, <3>1
    <3>3. \A p \in s .. e : p - k < D
      BY <1>1, <1>2, <1>5, <2>2, <3>1
    <3>4. QED
      BY <1>3, <1>5, <3>1, <3>2, <3>3
  <2>3. QED
    BY <2>1, <2>2
<1>6. ASSUME NEW y \in DOMAIN c.zones, NEW z \in DOMAIN c.zones,
             HalfDone(c.zones[y], C), k < c.zones[y].start, Within(c.zones[y], c.zones[z]),
             ~(D < 0)
      PROVE  c.zones[z].end - k < D
  <2> DEFINE Y == c.zones[y]
             Z == c.zones[z]
  <2>1. Y.start <= e /\ s <= Y.end /\ Y.start <= Y.end
        /\ Y.start \in Nat /\ Y.end \in Nat /\ Z.start \in Nat /\ Z.end \in Nat
    BY <1>4, <1>6
  <2>2. Z.start <= Y.start /\ Y.end <= Z.end
    BY <1>6 DEF Within
  <2>3. s # g /\ k = g
    BY <1>1, <1>6, <2>1
  <2>4. CheckZone(c, z, B, g, s, e, D)
    BY <2>3 DEF ZoneAllows, g
  <2>5. ~(g > Z.end)
    BY <1>1, <1>6, <2>1, <2>2, <2>3
  <2>6. ~(Span(Z) \subseteq B)
    <3>1. Span(Y) \subseteq Span(Z)
      BY <2>1, <2>2 DEF Span
    <3>2. ~(Span(Y) \subseteq B)
      BY <1>6 DEF HalfDone
    <3>3. QED
      BY <3>1, <3>2
  <2>7. ~(e < Z.start \/ s > Z.end)
    BY <2>1, <2>2
  <2>8. s = g \/ D < 0 \/ Z.end - g < D
    BY <2>4, <2>5, <2>6, <2>7 DEF CheckZone
  <2>9. QED
    BY <1>6, <2>3, <2>8
<1>7. ASSUME NEW y \in DOMAIN c.zones, NEW z \in DOMAIN c.zones,
             HalfDone(c.zones[y], C), HalfDone(c.zones[z], C),
             c.zones[y].end < c.zones[z].start
      PROVE  FALSE
  <2> DEFINE Y == c.zones[y]
             Z == c.zones[z]
  <2>1. /\ Y.start <= e /\ s <= Y.end /\ Y.start <= Y.end /\ Z.start <= e /\ Y.end < Z.start
        /\ Y.start \in Nat /\ Y.end \in Nat /\ Z.start \in Nat /\ Z.end \in Nat
    BY <1>4, <1>7
  <2>2. ZoneWays(Y, LocalTo(c, y), B, s, e)
    BY <2>1, ZoneCases
  <2>3. ~(Span(Y) \subseteq B) /\ ~(Span(Y) \subseteq C)
    BY <1>7 DEF HalfDone
  <2> HIDE DEF Y, Z
  <2>4. CASE (\A p \in Nat : p < s => p \in B) /\ \A p \in B : p < s
    <3>1. \A p \in Span(Y) : p \in Nat /\ p <= e
      BY <2>1 DEF Span
    <3>2. Span(Y) \subseteq C
      BY <2>4, <3>1
    <3>3. QED
      BY <2>3, <3>2
  <2>5. CASE e < Y.start \/ Y.end < s
    BY <2>1, <2>5
  <2>6. CASE s <= Y.start
    <3>1. Span(Y) \subseteq C
      BY <2>1, <2>6 DEF Span
    <3>2. QED
      BY <2>3, <3>1
  <2>7. CASE \A p \in Y.start .. Y.end : p \in B \/ p \in s .. e
    BY <2>3, <2>7 DEF Span
  <2>8. CASE e <= Y.end
    BY <2>1, <2>8
  <2>9. QED
    BY <2>2, <2>3, <2>4, <2>5, <2>6, <2>7, <2>8 DEF ZoneWays
<1>8. ASSUME NEW y \in DOMAIN c.zones, NEW z \in DOMAIN c.zones,
             HalfDone(c.zones[y], C), HalfDone(c.zones[z], C)
      PROVE  Span(c.zones[y]) \cap Span(c.zones[z]) # {}
  <2>1. ~(c.zones[y].end < c.zones[z].start) /\ ~(c.zones[z].end < c.zones[y].start)
    BY <1>7, <1>8
  <2>2. /\ c.zones[y].start <= c.zones[y].end /\ c.zones[z].start <= c.zones[z].end
        /\ c.zones[y].start \in Nat /\ c.zones[y].end \in Nat
        /\ c.zones[z].start \in Nat /\ c.zones[z].end \in Nat
    BY <1>4, <1>8
  <2>3. \/ c.zones[y].start \in Span(c.zones[y]) \cap Span(c.zones[z])
        \/ c.zones[z].start \in Span(c.zones[y]) \cap Span(c.zones[z])
    BY <2>1, <2>2 DEF Span
  <2>4. QED
    BY <2>3
<1> HIDE DEF C
<1>9. QED
  BY <1>5, <1>6, <1>8 DEF InReach, k, C

(* Where a hypothesis stands between its constraints: what it has covered, *)
(* for which zones, and where walls are. *)
Orderly(c, B, n, last) ==
  /\ B \subseteq 0 .. n - 1 /\ B # 0 .. n - 1
  /\ last = NOT_FOUND \/ last \in B
  /\ Nested(c.zones)
  /\ \A z \in DOMAIN c.zones :
       /\ c.zones[z].start \in Nat /\ c.zones[z].end \in c.zones[z].start .. n - 1
       /\ HalfDone(c.zones[z], B) => c.zones[z].start <= last
       /\ \A w \in 0 .. n - 1 :
            c.localWall[w] = z =>
              /\ KeepsWall(B, c.zones[z].start, w, c.zones[z].end)
              /\ \A y \in DOMAIN c.zones :
                   Holds(c.zones[y], w) => Within(c.zones[z], c.zones[y])
  /\ \A w \in c.wall :
       /\ w \in Nat /\ KeepsWall(B, 0, w, n - 1)
       /\ \A z \in DOMAIN c.zones : ~Holds(c.zones[z], w)

(* The first gap may be filled, unless a zone beyond it is half done. *)
LEMMA GapMayBeFilled ==
  ASSUME NEW n \in Nat, NEW B, NEW c, NEW D \in Int, NEW last,
         Orderly(c, B, n, last), InReach(c, B, n, last, D),
         LET g == GetFirstGapPos(B, n)
         IN  \A z \in DOMAIN c.zones : g < c.zones[z].start => ~HalfDone(c.zones[z], B)
  PROVE  LET g == GetFirstGapPos(B, n)
         IN  g \in 0 .. n - 1 /\ Extends(c, B, n, last, g, g, D)
<1> DEFINE g == GetFirstGapPos(B, n)
<1>1. B \subseteq 0 .. n - 1 /\ B # 0 .. n - 1
  BY DEF Orderly
<1>2. g \in 0 .. n - 1 /\ g \notin B /\ \A p \in Nat : p < g => p \in B
  <2>1. g \in 0 .. n /\ g \notin B /\ \A p \in Nat : p < g => p \in B
    BY <1>1, FirstGap
  <2>2. PICK p \in 0 .. n - 1 : p \notin B
    BY <1>1
  <2>3. QED
    BY <2>1, <2>2
<1>3. B \cap g .. g = {}
  BY <1>2
<1>4. ~TooFar(ComputeDistortionDistance(last, g), D)
  <2>1. last = NOT_FOUND \/ last \in B
    BY DEF Orderly
  <2>2. D >= 0 => g - last - 1 <= D /\ \A p \in B : p - g < D
    BY DEF InReach
  <2> HIDE DEF g
  <2>3. CASE D >= 0 /\ last \in B
    <3>1. last \in Int /\ last - g < D /\ g - last - 1 <= D
      BY <1>1, <2>2, <2>3
    <3>2. QED
      BY <1>2, <3>1 DEF TooFar, ComputeDistortionDistance
  <2>4. CASE D >= 0 /\ last = NOT_FOUND
    <3>1. last = -1 /\ g - last - 1 <= D
      BY <2>2, <2>4 DEF NOT_FOUND
    <3>2. QED
      BY <1>2, <2>4, <3>1 DEF TooFar, ComputeDistortionDistance
  <2>5. CASE ~(D >= 0)
    BY <2>5 DEF TooFar
  <2>6. QED
    BY <2>1, <2>3, <2>4, <2>5
<1>5. ASSUME NEW z \in DOMAIN c.zones PROVE CheckZone(c, z, B, g, g, g, D)
  <2> DEFINE Z == c.zones[z]
  <2>1. Z.start \in Nat /\ Z.end \in Z.start .. n - 1
    BY DEF Orderly
  <2>2. CASE g > Z.end
    BY <2>2 DEF CheckZone
  <2>3. CASE g < Z.start
    <3>1. ~HalfDone(Z, B)
      BY <2>3
    <3> HIDE DEF g
    <3>2. QED
      BY <2>3, <3>1 DEF CheckZone, HalfDone
  <2>4. CASE Z.start <= g /\ g <= Z.end
    <3>1. ~ \E pos \in Z.start .. Min({Z.end, g}) - 1 :
              /\ c.localWall[pos] = z
              /\ \E p \in Z.start .. pos : p \notin B /\ p < g
      <4> HIDE DEF g
      <4>1. \A pos : ~ \E p \in Z.start .. pos : p \notin B /\ p < g
        BY <1>2, <2>1
      <4>2. QED
        BY <4>1
    <3>2. g = Z.start \/ g > Z.start
      BY <1>2, <2>1, <2>4
    <3> HIDE DEF g
    <3>3. ~(g < Z.start \/ g > Z.end) /\ (g <= Z.start \/ (g > Z.start /\ g <= Z.end))
      BY <1>2, <2>1, <2>4
    <3>4. QED
      BY <3>1, <3>3 DEF CheckZone
  <2>5. QED
    BY <1>2, <2>1, <2>2, <2>3, <2>4
<1>6. Check(c, B, n, g, g, D)
  BY <1>5 DEF Check
<1>7. QED
  BY <1>2, <1>3, <1>4, <1>6 DEF Extends

(* Otherwise the innermost zone that is half done goes on: its first word  *)
(* that is missing may be translated. *)
Innermost(c, B, g, i) ==
  /\ i \in DOMAIN c.zones /\ HalfDone(c.zones[i], B) /\ g < c.zones[i].start
  /\ \A z \in DOMAIN c.zones :
       HalfDone(c.zones[z], B) /\ g < c.zones[z].start
         => c.zones[i].end - c.zones[i].start <= c.zones[z].end - c.zones[z].start

(* No wall is in its way ... *)
LEMMA NoWallBefore ==
  ASSUME NEW n \in Nat, NEW B, NEW c, NEW last, Orderly(c, B, n, last),
         NEW i, NEW g \in Nat, g \notin B, Innermost(c, B, g, i),
         NEW p \in Span(c.zones[i]), p \notin B,
         \A x \in Span(c.zones[i]) : x < p => x \in B
  PROVE  g .. p - 1 \cap c.wall = {}
<1> DEFINE Z == c.zones[i]
<1>1. i \in DOMAIN c.zones /\ HalfDone(Z, B) /\ g < Z.start
  BY DEF Innermost
<1>2. Z.start \in Nat /\ Z.end \in Z.start .. n - 1
  BY <1>1 DEF Orderly
<1>3. PICK q \in Span(Z) : q \in B
  BY <1>1 DEF HalfDone
<1> SUFFICES ASSUME NEW w \in c.wall, w \in g .. p - 1 PROVE FALSE
  OBVIOUS
<1>4. w \in Nat /\ KeepsWall(B, 0, w, n - 1) /\ ~Holds(Z, w)
  BY <1>1 DEF Orderly
<1> HIDE DEF Z
<1>5. g <= w /\ w < p /\ p \in Z.start .. Z.end /\ q \in Z.start .. Z.end
  BY <1>2, <1>3 DEF Span, Z
<1>6. ~(w \in Z.start .. Z.end - 1)
  BY <1>4 DEF Holds
<1>7. q \in w + 1 .. n - 1
  BY <1>2, <1>4, <1>5, <1>6
<1>8. g \in 0 .. w
  BY <1>4, <1>5
<1>9. QED
  BY <1>3, <1>4, <1>7, <1>8 DEF KeepsWall

(* ... and every zone allows it. *)
LEMMA EveryZoneAllows ==
  ASSUME NEW n \in Nat, NEW B, NEW c, NEW D \in Int, NEW last,
         Orderly(c, B, n, last), InReach(c, B, n, last, D),
         NEW i, NEW g \in Nat, g = GetFirstGapPos(B, n), Innermost(c, B, g, i),
         NEW p \in Span(c.zones[i]), p \notin B,
         \A x \in Span(c.zones[i]) : x < p => x \in B,
         NEW z \in DOMAIN c.zones
  PROVE  CheckZone(c, z, B, g, p, p, D)
<1> DEFINE I == c.zones[i]
           Z == c.zones[z]
<1>1. i \in DOMAIN c.zones /\ HalfDone(I, B) /\ g < I.start
  BY DEF Innermost
<1>2. /\ I.start \in Nat /\ I.end \in I.start .. n - 1
      /\ Z.start \in Nat /\ Z.end \in Z.start .. n - 1
      /\ p \in I.start .. I.end
  BY <1>1 DEF Orderly, Span
<1>3. PICK q \in Span(I) : q \in B
  BY <1>1 DEF HalfDone
<1>4. Within(I, I)
  BY <1>2 DEF Within
<1>5. ASSUME Within(I, Z) PROVE CheckZone(c, z, B, g, p, p, D)
  <2>1. D < 0 \/ Z.end - g < D
    BY <1>1, <1>5 DEF InReach
  <2>2. Z.start <= I.start /\ I.end <= Z.end
    BY <1>5 DEF Within
  <2>3. ASSUME NEW pos \in Z.start .. Min({Z.end, p}) - 1, c.localWall[pos] = z,
               NEW x \in Z.start .. pos, x \notin B, x < p
        PROVE  FALSE
    <3>1. Min({Z.end, p}) = p
      BY <1>2, <2>2 DEF Min
    <3>2. pos \in Z.start .. p - 1 /\ pos \in 0 .. n - 1
      BY <1>2, <2>2, <3>1
    <3>3. KeepsWall(B, Z.start, pos, Z.end)
          /\ \A y \in DOMAIN c.zones : Holds(c.zones[y], pos) => Within(Z, c.zones[y])
      BY <2>3, <3>2 DEF Orderly
    <3> HIDE DEF I, Z
    <3>4. q \in I.start .. I.end
      BY <1>3 DEF Span
    <3>5. q <= pos
      BY <1>2, <1>3, <2>2, <2>3, <3>2, <3>3, <3>4 DEF KeepsWall
    <3>6. Holds(I, pos)
      BY <1>2, <3>2, <3>4, <3>5 DEF Holds
    <3>7. Within(Z, I)
      BY <1>1, <3>3, <3>6 DEF I
    <3>8. x \in Span(I)
      BY <1>2, <2>2, <3>2, <3>7 DEF Within, Span
    <3>9. QED
      BY <2>3, <3>8 DEF I
  <2>4. ~(p < Z.start \/ p > Z.end) /\ (p <= Z.start \/ (p > Z.start /\ p <= Z.end))
    BY <1>2, <2>2
  <2>5. QED
    BY <2>1, <2>3, <2>4 DEF CheckZone
<1>6. CASE Span(Z) \subseteq B
  BY <1>6 DEF CheckZone
<1>7. CASE Span(Z) \cap B = {} /\ Within(Z, I)
  <2>1. I.start <= Z.start /\ Z.end <= I.end
    BY <1>7 DEF Within
  <2>2. CASE p < Z.start \/ p > Z.end
    BY <1>7, <2>2 DEF CheckZone
  <2>3. CASE Z.start <= p /\ p <= Z.end
    <3>1. Z.start \in Span(Z) /\ Z.start \in Span(I)
      BY <1>2, <2>1 DEF Span
    <3>2. Z.start \notin B
      BY <1>7, <3>1
    <3>3. p = Z.start
      BY <1>2, <2>3, <3>1, <3>2
    <3>4. D < 0 \/ I.end - g < D
      BY <1>1, <1>4 DEF InReach
    <3>5. D < 0 \/ Z.end - g < D
      BY <1>2, <2>1, <3>4
    <3>6. ~(p < Z.start \/ p > Z.end) /\ p <= Z.start
      BY <1>2, <2>3, <3>3
    <3>7. QED
      BY <3>5, <3>6 DEF CheckZone
  <2>4. QED
    BY <1>2, <2>2, <2>3
<1>8. CASE HalfDone(Z, B) /\ Within(Z, I)
  <2>1. I.start <= Z.start /\ Z.end <= I.end
    BY <1>8 DEF Within
  <2>2. I.end - I.start <= Z.end - Z.start
    BY <1>1, <1>2, <1>8, <2>1 DEF Innermost
  <2>3. Within(I, Z)
    BY <1>2, <2>1, <2>2 DEF Within
  <2>4. QED
    BY <1>5, <2>3
<1>9. CASE Span(Z) \cap Span(I) = {}
  <2>1. ~HalfDone(Z, B)
    BY <1>1, <1>9 DEF InReach
  <2>2. p < Z.start \/ p > Z.end
    BY <1>2, <1>9 DEF Span
  <2>3. QED
    BY <1>6, <2>1, <2>2 DEF CheckZone, HalfDone
<1>10. Within(I, Z) \/ Within(Z, I) \/ Span(Z) \cap Span(I) = {}
  BY <1>1 DEF Orderly, Nested
<1>11. QED
  BY <1>5, <1>6, <1>7, <1>8, <1>9, <1>10 DEF HalfDone

LEMMA ZoneMayGoOn ==
  ASSUME NEW n \in Nat, NEW B, NEW c, NEW D \in Int, NEW last,
         Orderly(c, B, n, last), InReach(c, B, n, last, D),
         NEW i, Innermost(c, B, GetFirstGapPos(B, n), i)
  PROVE  \E p \in 0 .. n - 1 : Extends(c, B, n, last, p, p, D)
<1> DEFINE g == GetFirstGapPos(B, n)
           I == c.zones[i]
           missing == Span(I) \ B
           p == Min(missing)
<1>1. i \in DOMAIN c.zones /\ HalfDone(I, B) /\ g < I.start
  BY DEF Innermost
<1>2. I.start \in Nat /\ I.end \in I.start .. n - 1 /\ I.start <= last
  BY <1>1 DEF Orderly
<1>3. B \subseteq 0 .. n - 1 /\ (last = NOT_FOUND \/ last \in B)
  BY DEF Orderly
<1>4. g \in 0 .. n /\ g \notin B
  BY <1>3, FirstGap
<1>5. missing \subseteq Nat /\ missing # {}
  BY <1>1, <1>2 DEF HalfDone, Span
<1>6. p \in missing /\ \A x \in missing : p <= x
  BY <1>5, MinIn
<1>7. last \in B
  <2>1. last # NOT_FOUND
    BY <1>2 DEF NOT_FOUND
  <2>2. QED
    BY <1>3, <2>1
<1>8. D >= 0 => \A x \in B : x - g < D
  BY DEF InReach
<1>9. D < 0 \/ I.end - g < D
  <2>1. Within(I, I)
    BY <1>2 DEF Within
  <2>2. QED
    BY <1>1, <2>1 DEF InReach
<1> HIDE DEF g, p
<1>10. p \in I.start .. I.end /\ p \notin B
  BY <1>6 DEF Span
<1>11. \A x \in Span(I) : x < p => x \in B
  <2>1. \A x \in Span(I) : x \in Nat
    BY <1>2 DEF Span
  <2> HIDE DEF I
  <2>2. QED
    BY <1>2, <1>6, <1>10, <2>1
<1>12. p \in 0 .. n - 1 /\ g < p /\ last \in Int
  BY <1>1, <1>2, <1>3, <1>4, <1>7, <1>10
<1>13. ~TooFar(ComputeDistortionDistance(last, p), D)
  <2>1. D >= 0 => last - g < D /\ I.end - g < D
    BY <1>7, <1>8, <1>9
  <2> HIDE DEF I
  <2>2. QED
    BY <1>1, <1>2, <1>4, <1>10, <1>12, <2>1 DEF TooFar, ComputeDistortionDistance
<1>14. ~TooFar(ComputeDistortionDistance(p, g), D)
  <2> HIDE DEF I
  <2>1. QED
    BY <1>2, <1>4, <1>9, <1>10, <1>12 DEF TooFar, ComputeDistortionDistance
<1>15. Check(c, B, n, p, p, D)
  <2>1. g \in Nat /\ p \in Span(I)
    BY <1>4, <1>6
  <2>2. Innermost(c, B, g, i)
    BY DEF g
  <2>3. g .. p - 1 \cap c.wall = {}
    BY <1>4, <1>10, <1>11, <2>1, <2>2, NoWallBefore
  <2>4. \A z \in DOMAIN c.zones : CheckZone(c, z, B, g, p, p, D)
    BY <1>10, <1>11, <2>1, <2>2, EveryZoneAllows DEF g
  <2>5. QED
    BY <2>3, <2>4 DEF Check, g
<1>16. B \cap p .. p = {}
  BY <1>10, <1>12
<1>17. QED
  BY <1>12, <1>13, <1>14, <1>15, <1>16 DEF Extends, g

(* So there is always a word that may be translated next. *)
LEMMA SomeWordMayFollow ==
  ASSUME NEW n \in Nat, NEW B, NEW c, NEW D \in Int, NEW last,
         Orderly(c, B, n, last), InReach(c, B, n, last, D)
  PROVE  \E p \in 0 .. n - 1 : Extends(c, B, n, last, p, p, D)
<1> DEFINE g == GetFirstGapPos(B, n)
           ahead == { z \in DOMAIN c.zones : HalfDone(c.zones[z], B) /\ g < c.zones[z].start }
           lengths == { c.zones[z].end - c.zones[z].start : z \in ahead }
<1>1. CASE ahead = {}
  <2>1. \A z \in DOMAIN c.zones : g < c.zones[z].start => ~HalfDone(c.zones[z], B)
    BY <1>1
  <2>2. QED
    BY <2>1, GapMayBeFilled
<1>2. CASE ahead # {}
  <2>1. \A z \in ahead : c.zones[z].end - c.zones[z].start \in Nat
    BY DEF Orderly
  <2>2. lengths \subseteq Nat /\ lengths # {}
    BY <1>2, <2>1
  <2>3. PICK i \in ahead : Min(lengths) = c.zones[i].end - c.zones[i].start
    BY <2>2, MinIn
  <2>4. \A z \in ahead : c.zones[i].end - c.zones[i].start <= c.zones[z].end - c.zones[z].start
    BY <2>2, <2>3, MinIn
  <2>5. Innermost(c, B, g, i)
    BY <2>4 DEF Innermost
  <2>6. QED
    BY <2>5, ZoneMayGoOn
<1>3. QED
  BY <1>1, <1>2

-------------------------------------------------------------------------
(* Hypotheses. *)

(* What the inputs are. *)
LEMMA InputsTyped ==
  ASSUME InputsKept
  PROVE  /\ source.size \in Nat
         /\ DOMAIN source.options \subseteq Nat
         /\ \A i \in DOMAIN source.options :
              Option(i).from \in Nat /\ Option(i).to \in Option(i).from .. source.size - 1
         /\ m_reorderingConstraint.wall \subseteq Nat
         /\ \A z \in DOMAIN m_reorderingConstraint.zones :
              /\ m_reorderingConstraint.zones[z].start \in Nat
              /\ m_reorderingConstraint.zones[z].end \in Nat
         /\ ~m_reorderingConstraint.active =>
              m_reorderingConstraint.wall = {} /\ DOMAIN m_reorderingConstraint.zones = {}
         /\ param.maxDistortion \in Int /\ param.maxPhraseLength \in Nat \ {0}
<1>1. PICK c \in Cases :
        source = c.source /\ param = c.param /\ m_reorderingConstraint = Constraint(source)
  BY DEF InputsKept
<1>2. /\ source.size \in Nat
      /\ source.options \in Seq([from : Nat, to : Nat, out : Nat, score : Int])
      /\ \A i \in DOMAIN source.options :
           source.options[i].to \in source.options[i].from .. source.size - 1
      /\ source.punctuation \subseteq Nat
      /\ source.zones \in Seq([start : Nat, end : Nat])
  BY <1>1, CasesAssumption
<1>3. DOMAIN source.options \subseteq Nat
  BY <1>2
<1>4. \A i \in DOMAIN source.options : Option(i).from \in Nat
  <2>1. \A i \in DOMAIN source.options :
          source.options[i] \in [from : Nat, to : Nat, out : Nat, score : Int]
    BY <1>2, ElementsOf
  <2>2. QED
    BY <2>1 DEF Option
<1>5. \A z \in DOMAIN source.zones : source.zones[z].start \in Nat /\ source.zones[z].end \in Nat
  <2>1. \A z \in DOMAIN source.zones : source.zones[z] \in [start : Nat, end : Nat]
    BY <1>2, ElementsOf
  <2>2. QED
    BY <2>1
<1> DEFINE walls == SetMonotoneAtPunctuation(source.punctuation, source.size)
                      \cup (source.walls \cap 0 .. source.size - 1)
<1>6. walls \subseteq Nat
  BY <1>2 DEF SetMonotoneAtPunctuation
<1>7. /\ m_reorderingConstraint.zones = source.zones
      /\ m_reorderingConstraint.active = (walls # {} \/ source.zones # << >>)
      /\ m_reorderingConstraint.wall \subseteq walls
  BY <1>1 DEF Constraint
<1>8. QED
  <2> HIDE DEF walls
  <2>1. ~m_reorderingConstraint.active =>
          m_reorderingConstraint.wall = {} /\ DOMAIN m_reorderingConstraint.zones = {}
    <3>1. DOMAIN << >> = {}
      OBVIOUS
    <3>2. ASSUME ~m_reorderingConstraint.active PROVE walls = {} /\ source.zones = << >>
      BY <1>7, <3>2
    <3>3. QED
      BY <1>7, <3>1, <3>2
  <2>2. QED
    BY <1>1, <1>2, <1>3, <1>4, <1>5, <1>6, <1>7, <2>1, SettingsAssumption DEF Option

(* An extension covers what its predecessor covers and the new phrase. *)
LEMMA Coverage ==
  ASSUME InputsKept, NEW h \in Hypotheses, NEW i \in DOMAIN source.options
  PROVE  /\ Append(h, i) \in Hypotheses /\ Last(Append(h, i)) = i
         /\ GetWordsBitmap(Append(h, i))
              = GetWordsBitmap(h) \cup Option(i).from .. Option(i).to
         /\ GetWordsBitmap(h) \subseteq 0 .. source.size - 1
<1> DEFINE Phrase(k) == Option(k).from .. Option(k).to
<1>1. Append(h, i) \in Hypotheses /\ Last(Append(h, i)) = i
  BY DEF Hypotheses, Last
<1>2. /\ Len(h) \in Nat /\ DOMAIN h = 1 .. Len(h) /\ DOMAIN Append(h, i) = 1 .. Len(h) + 1
      /\ \A k \in 1 .. Len(h) : Append(h, i)[k] = h[k]
      /\ Append(h, i)[Len(h) + 1] = i
  BY DEF Hypotheses
<1>3. \A p : p \in GetWordsBitmap(Append(h, i))
               <=> \E k \in 1 .. Len(h) + 1 : p \in Phrase(Append(h, i)[k])
  BY <1>2 DEF GetWordsBitmap
<1>4. \A p : p \in GetWordsBitmap(h) <=> \E k \in 1 .. Len(h) : p \in Phrase(h[k])
  BY <1>2 DEF GetWordsBitmap
<1> HIDE DEF Phrase
<1>5. \A p : p \in GetWordsBitmap(Append(h, i)) <=> p \in GetWordsBitmap(h) \/ p \in Phrase(i)
  <2>1. ASSUME NEW p, p \in GetWordsBitmap(Append(h, i))
        PROVE  p \in GetWordsBitmap(h) \/ p \in Phrase(i)
    <3>1. PICK k \in 1 .. Len(h) + 1 : p \in Phrase(Append(h, i)[k])
      BY <1>3, <2>1
    <3>2. CASE k = Len(h) + 1
      BY <1>2, <3>1, <3>2
    <3>3. CASE k \in 1 .. Len(h)
      BY <1>2, <1>4, <3>1, <3>3
    <3>4. QED
      BY <1>2, <3>2, <3>3
  <2>2. ASSUME NEW p, p \in GetWordsBitmap(h) PROVE p \in GetWordsBitmap(Append(h, i))
    <3>1. PICK k \in 1 .. Len(h) : p \in Phrase(h[k])
      BY <1>4, <2>2
    <3>2. k \in 1 .. Len(h) + 1 /\ p \in Phrase(Append(h, i)[k])
      BY <1>2, <3>1
    <3>3. QED
      BY <1>3, <3>2
  <2>3. ASSUME NEW p, p \in Phrase(i) PROVE p \in GetWordsBitmap(Append(h, i))
    <3>1. Len(h) + 1 \in 1 .. Len(h) + 1 /\ p \in Phrase(Append(h, i)[Len(h) + 1])
      BY <1>2, <2>3
    <3>2. QED
      BY <1>3, <3>1
  <2>4. QED
    BY <2>1, <2>2, <2>3
<1>6. \A k \in 1 .. Len(h) : h[k] \in DOMAIN source.options
  BY <1>2 DEF Hypotheses
<1>7. \A k \in 1 .. Len(h) : Phrase(h[k]) \subseteq 0 .. source.size - 1
  BY <1>6, InputsTyped DEF Phrase
<1>8. GetWordsBitmap(h) \subseteq 0 .. source.size - 1
  BY <1>4, <1>7
<1>9. QED
  BY <1>1, <1>5, <1>8 DEF Phrase

(* The step of the argument: a phrase that may come next breaks no         *)
(* constraint. *)
LEMMA ExtensionMeets ==
  ASSUME InputsKept, NEW h, Sound(h), NEW i \in Extensions(h)
  PROVE  Sound(Append(h, i))
<1> DEFINE n == source.size
           B == GetWordsBitmap(h)
           s == Option(i).from
           e == Option(i).to
           c == m_reorderingConstraint
           d == param.maxDistortion
           g == GetFirstGapPos(B, n)
<1>1. i \in DOMAIN source.options /\ h \in Hypotheses
  BY DEF Extensions, Sound
<1>2. n \in Nat /\ s \in Nat /\ e \in s .. n - 1
  BY <1>1, InputsTyped
<1>3. /\ Append(h, i) \in Hypotheses /\ Last(Append(h, i)) = i
      /\ GetWordsBitmap(Append(h, i)) = B \cup s .. e
      /\ B \subseteq 0 .. n - 1
  BY <1>1, Coverage
<1>4. B \cap s .. e = {} /\ Check(c, B, n, s, e, d)
  BY DEF Extensions, MayExtend, Extends
<1>5. /\ \A w \in c.wall : w \in Nat /\ (g = s \/ w \notin g .. e - 1)
      /\ \A z \in DOMAIN c.zones : ZoneAllows(c, z, B, n, s, e, d)
  <2>1. CASE ~c.active
    BY <2>1, InputsTyped
  <2>2. CASE c.active
    <3>1. /\ g = s \/ g .. e - 1 \cap c.wall = {}
          /\ \/ g > GetLastPos(B) /\ g = s
             \/ \A z \in DOMAIN c.zones : CheckZone(c, z, B, g, s, e, d)
      BY <1>4, <2>2 DEF Check
    <3>2. QED
      BY <3>1, InputsTyped DEF ZoneAllows
  <2>3. QED
    BY <2>1, <2>2
<1>6. MeetsConstraints(h)
  BY DEF Sound
<1>7. ASSUME NEW w \in c.wall PROVE KeepsWall(B \cup s .. e, 0, w, n - 1)
  <2>1. KeepsWall(B, 0, w, n - 1)
    BY <1>6 DEF MeetsConstraints
  <2> HIDE DEF n, B, s, e, c
  <2>2. QED
    BY <1>2, <1>3, <1>4, <1>5, <2>1, GlobalWallKept DEF g
<1>8. ASSUME NEW z \in DOMAIN c.zones, NEW w \in 0 .. n - 1, c.localWall[w] = z
      PROVE  KeepsWall(B \cup s .. e, c.zones[z].start, w, c.zones[z].end)
  <2>1. KeepsWall(B, c.zones[z].start, w, c.zones[z].end)
    BY <1>6, <1>8 DEF MeetsConstraints, Positions
  <2>2. c.zones[z].start \in Nat /\ c.zones[z].end \in Nat
    BY InputsTyped
  <2>3. ZoneAllows(c, z, B, n, s, e, d)
    BY <1>5
  <2> HIDE DEF n, B, s, e, c, d
  <2>4. QED
    BY <1>2, <1>3, <1>4, <1>8, <2>1, <2>2, <2>3, LocalWallKept
<1>9. ASSUME NEW z \in DOMAIN c.zones
      PROVE  \/ Span(c.zones[z]) \cap (B \cup s .. e) = {}
             \/ Span(c.zones[z]) \subseteq B \cup s .. e
             \/ s .. e \cap Span(c.zones[z]) # {}
  <2>1. c.zones[z].start \in Nat /\ c.zones[z].end \in Nat
    BY InputsTyped
  <2>2. ZoneAllows(c, z, B, n, s, e, d)
    BY <1>5
  <2> HIDE DEF n, B, s, e, c, d
  <2>3. QED
    BY <1>2, <1>3, <1>4, <2>1, <2>2, ZoneNotLeft
<1>10. MeetsConstraints(Append(h, i))
  BY <1>3, <1>7, <1>8, <1>9 DEF MeetsConstraints, Positions
<1>11. InReach(c, B \cup s .. e, n, e, d)
  <2>1. \A z \in DOMAIN c.zones : c.zones[z].start \in Nat /\ c.zones[z].end \in Nat
    BY InputsTyped
  <2>2. \A z \in DOMAIN c.zones : ZoneAllows(c, z, B, n, s, e, d)
    BY <1>5
  <2>3. g = s \/ ~TooFar(ComputeDistortionDistance(e, g), d)
    BY DEF Extensions, MayExtend, Extends
  <2>4. InReach(c, B, n, LastEnd(h), d)
    BY DEF Sound, Reaches
  <2>5. d \in Int
    BY InputsTyped
  <2> HIDE DEF n, B, s, e, c, d
  <2>6. QED
    BY <1>2, <1>3, <1>4, <2>1, <2>2, <2>3, <2>4, <2>5, ReachKept DEF g
<1>12. Reaches(Append(h, i))
  <2>1. Append(h, i) # << >>
    BY <1>1 DEF Hypotheses
  <2>2. LastEnd(Append(h, i)) = e
    BY <1>3, <2>1 DEF LastEnd
  <2>3. QED
    BY <1>3, <1>11, <2>2 DEF Reaches
<1>13. QED
  BY <1>3, <1>10, <1>12 DEF Sound

(* What walls and zones are where zones are nested and in the sentence. *)
LEMMA WallsOrderly ==
  ASSUME InputsKept, WellNested(source.zones)
  PROVE  LET c == m_reorderingConstraint
             n == source.size
         IN  /\ Nested(c.zones)
             /\ \A z \in DOMAIN c.zones :
                  /\ c.zones[z].start \in Nat /\ c.zones[z].end \in c.zones[z].start .. n - 1
                  /\ \A w \in 0 .. n - 1 :
                       c.localWall[w] = z =>
                         \A y \in DOMAIN c.zones :
                           Holds(c.zones[y], w) => Within(c.zones[z], c.zones[y])
             /\ \A w \in c.wall : w \in Nat /\ \A z \in DOMAIN c.zones : ~Holds(c.zones[z], w)
<1> DEFINE c == m_reorderingConstraint
           n == source.size
           walls == SetMonotoneAtPunctuation(source.punctuation, n)
                      \cup (source.walls \cap 0 .. n - 1)
<1>1. PICK x \in Cases : source = x.source /\ c = Constraint(source)
  BY DEF InputsKept
<1>2. source.zones \in Zones
  BY <1>1, CasesAssumption DEF Zones
<1>3. /\ c.zones = source.zones
      /\ c.wall = { pos \in walls : Finalized(pos, walls, source.zones).wall }
      /\ \A w \in 0 .. n - 1 : c.localWall[w] = Finalized(w, walls, source.zones).localWall
  BY <1>1 DEF Constraint
<1>4. Nested(c.zones) /\ DOMAIN c.zones = 1 .. Len(c.zones)
  <2>1. source.zones \in Seq([start : Nat, end : Nat])
    BY <1>2 DEF Zones
  <2>2. Nested(source.zones)
    BY DEF WellNested, Nested
  <2> HIDE DEF c
  <2>3. QED
    BY <1>3, <2>1, <2>2
<1>5. \A w \in Int : WellFinalized(w, c.zones, Len(c.zones), Finalized(w, walls, c.zones))
  BY <1>2, <1>3, <1>4, FinalizedWell
<1>6. c.wall \subseteq Nat
  BY InputsTyped
<1>7. \A z \in DOMAIN c.zones :
        c.zones[z].start \in Nat /\ c.zones[z].end \in c.zones[z].start .. n - 1
  BY <1>3, InputsTyped DEF WellNested
<1> HIDE DEF walls, c, n
<1>8. ASSUME NEW z \in DOMAIN c.zones, NEW w \in 0 .. n - 1, c.localWall[w] = z,
             NEW y \in DOMAIN c.zones, Holds(c.zones[y], w)
      PROVE  Within(c.zones[z], c.zones[y])
  <2>1. z # NOT_A_ZONE
    BY <1>4 DEF NOT_A_ZONE
  <2>2. Finalized(w, walls, c.zones).localWall = z
    BY <1>3, <1>8
  <2>3. w \in Int
    OBVIOUS
  <2>4. QED
    BY <1>4, <1>5, <1>8, <2>1, <2>2, <2>3 DEF WellFinalized
<1>9. ASSUME NEW w \in c.wall, NEW z \in DOMAIN c.zones PROVE w \in Nat /\ ~Holds(c.zones[z], w)
  <2>1. w \in Nat /\ Finalized(w, walls, c.zones).wall
    BY <1>3, <1>6
  <2>2. QED
    BY <1>4, <1>5, <2>1 DEF WellFinalized
<1>10. QED
  BY <1>4, <1>6, <1>7, <1>8, <1>9 DEF c, n

(* The last phrase is covered; a zone that is half done was touched by it. *)
LEMMA LastCovered ==
  ASSUME InputsKept, NEW h \in Hypotheses, MeetsConstraints(h)
  PROVE  /\ GetWordsBitmap(h) \subseteq 0 .. source.size - 1
         /\ LastEnd(h) = NOT_FOUND \/ LastEnd(h) \in GetWordsBitmap(h)
         /\ \A z \in DOMAIN m_reorderingConstraint.zones :
              HalfDone(m_reorderingConstraint.zones[z], GetWordsBitmap(h))
                => m_reorderingConstraint.zones[z].start <= LastEnd(h)
<1> DEFINE Z(z) == m_reorderingConstraint.zones[z]
<1>1. /\ Len(h) \in Nat /\ DOMAIN h = 1 .. Len(h)
      /\ \A k \in 1 .. Len(h) : h[k] \in DOMAIN source.options
  BY DEF Hypotheses
<1>2. GetWordsBitmap(h) \subseteq 0 .. source.size - 1
  BY <1>1, InputsTyped DEF GetWordsBitmap
<1>3. CASE h = << >>
  <2>1. GetWordsBitmap(h) = {} /\ LastEnd(h) = NOT_FOUND
    BY <1>3 DEF GetWordsBitmap, LastEnd
  <2>2. QED
    BY <2>1 DEF HalfDone
<1>4. CASE h # << >>
  <2> DEFINE i == Last(h)
  <2>1. Len(h) \in 1 .. Len(h) /\ i = h[Len(h)]
    BY <1>1, <1>4 DEF Last
  <2>2. i \in DOMAIN source.options
    BY <1>1, <2>1
  <2>3. Option(i).from \in Nat /\ Option(i).to \in Option(i).from .. source.size - 1
    BY <2>2, InputsTyped
  <2>4. LastEnd(h) = Option(i).to
    BY <1>4 DEF LastEnd
  <2>5. Option(i).to \in GetWordsBitmap(h)
    <3>1. Option(i).to \in Option(h[Len(h)]).from .. Option(h[Len(h)]).to
      BY <2>1, <2>3
    <3>2. QED
      BY <1>1, <2>1, <3>1 DEF GetWordsBitmap
  <2>6. ASSUME NEW z \in DOMAIN m_reorderingConstraint.zones, HalfDone(Z(z), GetWordsBitmap(h))
        PROVE  Z(z).start <= Option(i).to
    <3>1. Option(i).from .. Option(i).to \cap Span(Z(z)) # {}
      BY <2>6 DEF MeetsConstraints, HalfDone
    <3>2. Z(z).start \in Nat /\ Z(z).end \in Nat
      BY InputsTyped
    <3> HIDE DEF Z, i
    <3>3. QED
      BY <2>3, <3>1, <3>2 DEF Span
  <2>7. QED
    BY <1>2, <2>4, <2>5, <2>6
<1>5. QED
  BY <1>3, <1>4

(* A hypothesis that is not complete has an extension. *)
LEMMA WayOn ==
  ASSUME InputsKept, WellNested(source.zones), EveryWordHasAnOption,
         NEW h, Sound(h), ~IsComplete(h)
  PROVE  \E i \in DOMAIN source.options : MayExtend(h, i)
<1> DEFINE c == m_reorderingConstraint
           n == source.size
           B == GetWordsBitmap(h)
           D == param.maxDistortion
<1>1. h \in Hypotheses /\ MeetsConstraints(h) /\ InReach(c, B, n, LastEnd(h), D)
  BY DEF Sound, Reaches
<1>2. n \in Nat /\ D \in Int /\ param.maxPhraseLength \in Nat \ {0}
  BY InputsTyped
<1>3. Orderly(c, B, n, LastEnd(h))
  <2>1. B \subseteq 0 .. n - 1 /\ B # 0 .. n - 1
    BY <1>1, LastCovered DEF IsComplete, Positions
  <2>2. /\ \A w \in c.wall : KeepsWall(B, 0, w, n - 1)
        /\ \A z \in DOMAIN c.zones : \A w \in 0 .. n - 1 :
             c.localWall[w] = z => KeepsWall(B, c.zones[z].start, w, c.zones[z].end)
    BY <1>1 DEF MeetsConstraints, Positions
  <2>3. /\ LastEnd(h) = NOT_FOUND \/ LastEnd(h) \in B
        /\ \A z \in DOMAIN c.zones : HalfDone(c.zones[z], B) => c.zones[z].start <= LastEnd(h)
    BY <1>1, LastCovered
  <2>4. /\ Nested(c.zones)
        /\ \A z \in DOMAIN c.zones :
             /\ c.zones[z].start \in Nat /\ c.zones[z].end \in c.zones[z].start .. n - 1
             /\ \A w \in 0 .. n - 1 :
                  c.localWall[w] = z =>
                    \A y \in DOMAIN c.zones :
                      Holds(c.zones[y], w) => Within(c.zones[z], c.zones[y])
        /\ \A w \in c.wall : w \in Nat /\ \A z \in DOMAIN c.zones : ~Holds(c.zones[z], w)
    BY WallsOrderly
  <2> HIDE DEF c, n, B
  <2>5. QED
    BY <2>1, <2>2, <2>3, <2>4 DEF Orderly
<1>4. PICK p \in 0 .. n - 1 : Extends(c, B, n, LastEnd(h), p, p, D)
  <2> HIDE DEF c, n, B, D
  <2>1. QED
    BY <1>1, <1>2, <1>3, SomeWordMayFollow
<1>5. PICK i \in DOMAIN source.options : Option(i).from = p /\ Option(i).to = p
  BY DEF EveryWordHasAnOption, Positions
<1>6. Option(i).to - Option(i).from < param.maxPhraseLength
  BY <1>2, <1>5
<1>7. QED
  BY <1>4, <1>5, <1>6 DEF MayExtend

-------------------------------------------------------------------------
(* Stacks. *)

(* Pruning and cutting arc lists only take hypotheses away. *)
LEMMA PruneTakesAway ==
  ASSUME NEW s, DOMAIN s = Fields, NEW size, NEW t \in PruneToSize(s, size)
  PROVE  DOMAIN t = Fields /\ Hypos(t) \subseteq Hypos(s)
<1>1. CASE t = s
  BY <1>1
<1>2. ASSUME NEW q, t = Cut(s, q, size)
      PROVE  DOMAIN t = Fields /\ Hypos(t) \subseteq Hypos(s)
  <2>1. PICK kept, f, score :
          /\ kept \subseteq Hypos(s)
          /\ t = [s EXCEPT !.m_hypos = [h \in kept |-> s.m_hypos[h]],
                           !.m_diversityWorstScore = f, !.m_worstScore = score]
    BY <1>2, Zenon DEF Cut
  <2>2. DOMAIN t = Fields /\ t.m_hypos = [h \in kept |-> s.m_hypos[h]]
    BY <2>1 DEF Fields
  <2>3. QED
    BY <2>1, <2>2 DEF Hypos
<1>3. t = s \/ \E q : t = Cut(s, q, size)
  BY Zenon DEF PruneToSize
<1>4. QED
  BY <1>1, <1>2, <1>3

LEMMA CleanupKeeps ==
  ASSUME NEW s, DOMAIN s = Fields, NEW t \in CleanupArcList(s)
  PROVE  DOMAIN t = Fields /\ Hypos(t) = Hypos(s)
<1>1. PICK arcs : t = [s EXCEPT !.m_hypos = [h \in Hypos(s) |-> arcs[h]]]
  <2> DEFINE cut ==
               { h \in Hypos(s) :
                   param.nBestIsEnabled /\ BestArcs(s.m_hypos[h]) # {s.m_hypos[h]} }
  <2>1. PICK f :
          t = [s EXCEPT !.m_hypos =
                 [h \in Hypos(s) |-> IF h \in cut THEN f[h] ELSE s.m_hypos[h]]]
    BY Zenon DEF CleanupArcList
  <2> DEFINE arcs == [h \in Hypos(s) |-> IF h \in cut THEN f[h] ELSE s.m_hypos[h]]
  <2>2. [h \in Hypos(s) |-> arcs[h]] = arcs
    OBVIOUS
  <2>3. QED
    BY <2>1, <2>2
<1>2. DOMAIN t = Fields /\ t.m_hypos = [h \in Hypos(s) |-> arcs[h]]
  BY <1>1 DEF Fields
<1>3. QED
  BY <1>2 DEF Hypos

(* Adding a hypothesis adds no other. *)
LEMMA AddAddsOne ==
  ASSUME NEW s, DOMAIN s = Fields, NEW h, NEW arcs, NEW t \in Add(s, h, arcs)
  PROVE  DOMAIN t = Fields /\ Hypos(t) \subseteq Hypos(s) \cup {h}
<1> DEFINE i == Inserted(s, h, arcs)
<1>1. DOMAIN i = Fields
  BY DEF Inserted, Fields
<1>2. Hypos(i) = Hypos(s) \cup {h}
  BY DEF Inserted, Hypos, With
<1>3. t = i \/ t \in PruneToSize(i, param.maxHypoStackSize)
  BY Zenon DEF Add
<1> HIDE DEF i
<1>4. QED
  BY <1>1, <1>2, <1>3, PruneTakesAway

LEMMA AddPruneAddsOne ==
  ASSUME NEW s, DOMAIN s = Fields, NEW h, NEW t \in AddPrune(s, h)
  PROVE  DOMAIN t = Fields /\ Hypos(t) \subseteq Hypos(s) \cup {h}
<1> DEFINE existing == CHOOSE g \in Hypos(s) : Recombine(g, h)
           rest     == [s EXCEPT !.m_hypos = Without(@, {existing})]
<1>1. \/ t = s
      \/ \E arcs : t \in Add(s, h, arcs)
      \/ \E arcs : t \in Add(rest, h, arcs)
      \/ \E arcs : t = [s EXCEPT !.m_hypos[existing] = arcs]
  BY Zenon DEF AddPrune
<1> HIDE DEF existing
<1>2. CASE t = s
  BY <1>2
<1>3. CASE \E arcs : t \in Add(s, h, arcs)
  BY <1>3, AddAddsOne
<1>4. CASE \E arcs : t \in Add(rest, h, arcs)
  <2>1. DOMAIN rest = Fields /\ rest.m_hypos = Without(s.m_hypos, {existing})
    BY DEF Fields
  <2>2. Hypos(rest) \subseteq Hypos(s)
    BY <2>1 DEF Hypos, Without
  <2> HIDE DEF rest
  <2>3. QED
    BY <1>4, <2>1, <2>2, AddAddsOne
<1>5. CASE \E arcs : t = [s EXCEPT !.m_hypos[existing] = arcs]
  <2>1. PICK arcs : t = [s EXCEPT !.m_hypos[existing] = arcs]
    BY <1>5
  <2>2. DOMAIN t = Fields /\ t.m_hypos = [s.m_hypos EXCEPT ![existing] = arcs]
    BY <2>1 DEF Fields
  <2>3. QED
    BY <2>2 DEF Hypos
<1>6. QED
  BY <1>1, <1>2, <1>3, <1>4, <1>5

-------------------------------------------------------------------------
(* The search. *)

(* As long as the inputs stay, what holds of a hypothesis does. *)
LEMMA InputsStay ==
  ASSUME UNCHANGED inputVars
  PROVE  /\ InputsKept => InputsKept'
         /\ source' = source
         /\ \A h : Sound(h)' = Sound(h) /\ Extensions(h)' = Extensions(h)
<1>1. /\ source' = source /\ param' = param
      /\ m_reorderingConstraint' = m_reorderingConstraint /\ m_futureScore' = m_futureScore
  BY DEF inputVars
<1>2. InputsKept => InputsKept'
  BY <1>1 DEF InputsKept
<1>3. \A h : Sound(h)' = Sound(h)
  BY <1>1 DEF Sound, Hypotheses, MeetsConstraints, Reaches, GetWordsBitmap, LastEnd, Option,
            Positions
<1>4. \A h : Extensions(h)' = Extensions(h)
  BY <1>1 DEF Extensions, MayExtend, IsComplete, Positions, GetWordsBitmap, LastEnd, Option
<1>5. QED
  BY <1>1, <1>2, <1>3, <1>4

LEMMA InitSound == ASSUME Init PROVE IInv
<1>1. PICK c \in Cases :
        /\ source = c.source /\ param = c.param
        /\ m_reorderingConstraint = Constraint(source)
        /\ m_futureScore = FutureScoreMatrix(source)
        /\ m_hypoStackColl = [k \in 0 .. source.size |->
                                IF k = 0 THEN Inserted(EmptyStack, EmptyHypothesis, {})
                                         ELSE EmptyStack]
        /\ iterStack = 0 /\ iterHypo = NoHypothesis /\ todo = {}
  BY DEF Init, SearchInit
<1>2. InputsKept
  BY <1>1 DEF InputsKept
<1>3. Sound(EmptyHypothesis)
  <2>1. EmptyHypothesis \in Hypotheses
    BY DEF EmptyHypothesis, Hypotheses
  <2>2. GetWordsBitmap(EmptyHypothesis) = {}
    BY DEF EmptyHypothesis, GetWordsBitmap
  <2>3. Reaches(EmptyHypothesis)
    <3>1. source.size \in Nat
      BY <1>2, InputsTyped
    <3>2. 0 \in 0 .. source.size
      BY <3>1
    <3>3. GetFirstGapPos({}, source.size) = 0
      BY <3>1, <3>2, FirstGap
    <3>4. LastEnd(EmptyHypothesis) = -1
      BY DEF LastEnd, EmptyHypothesis, NOT_FOUND
    <3>5. QED
      BY <2>2, <3>3, <3>4 DEF Reaches, InReach, HalfDone
  <2>4. QED
    BY <2>1, <2>2, <2>3 DEF Sound, MeetsConstraints, KeepsWall
<1>4. DOMAIN EmptyStack = Fields /\ Hypos(EmptyStack) = {}
  BY DEF EmptyStack, Fields, Hypos, None
<1>5. /\ DOMAIN Inserted(EmptyStack, EmptyHypothesis, {}) = Fields
      /\ Hypos(Inserted(EmptyStack, EmptyHypothesis, {})) = {EmptyHypothesis}
  <2>1. DOMAIN Inserted(EmptyStack, EmptyHypothesis, {}) = Fields
    BY DEF Inserted, Fields
  <2>2. Hypos(Inserted(EmptyStack, EmptyHypothesis, {})) = Hypos(EmptyStack) \cup {EmptyHypothesis}
    BY DEF Inserted, Hypos, With
  <2>3. QED
    BY <2>1, <2>2, <1>4
<1>6. StacksSound
  <2>1. source.size \in Nat
    BY <1>2, InputsTyped
  <2>2. m_hypoStackColl = [k \in 0 .. source.size |-> m_hypoStackColl[k]]
    BY <1>1
  <2>3. ASSUME NEW k \in 0 .. source.size
        PROVE  /\ DOMAIN m_hypoStackColl[k] = Fields
               /\ \A h \in Hypos(m_hypoStackColl[k]) : Sound(h)
    <3>1. m_hypoStackColl[k] = EmptyStack
            \/ m_hypoStackColl[k] = Inserted(EmptyStack, EmptyHypothesis, {})
      BY <1>1
    <3>2. QED
      BY <3>1, <1>3, <1>4, <1>5
  <2>4. QED
    BY <2>2, <2>3 DEF StacksSound
<1>7. HypothesisSound
  BY <1>1 DEF HypothesisSound
<1>8. QED
  BY <1>2, <1>6, <1>7 DEF IInv

(* A stack that is replaced by one with sound hypotheses. *)
LEMMA StackReplaced ==
  ASSUME StacksSound, UNCHANGED inputVars, NEW k, NEW s,
         m_hypoStackColl' = [m_hypoStackColl EXCEPT ![k] = s],
         k \in 0 .. source.size => DOMAIN s = Fields /\ \A h \in Hypos(s) : Sound(h)
  PROVE  StacksSound'
<1>1. DOMAIN m_hypoStackColl = 0 .. source.size
  BY DEF StacksSound
<1>2. m_hypoStackColl' = [j \in 0 .. source.size |-> IF j = k THEN s ELSE m_hypoStackColl[j]]
  BY <1>1
<1>3. ASSUME NEW j \in 0 .. source.size
      PROVE  /\ DOMAIN m_hypoStackColl'[j] = Fields
             /\ \A h \in Hypos(m_hypoStackColl'[j]) : Sound(h)
  <2>1. m_hypoStackColl'[j] = IF j = k THEN s ELSE m_hypoStackColl[j]
    BY <1>2
  <2>2. CASE j = k
    BY <2>1, <2>2
  <2>3. CASE j # k
    BY <2>1, <2>3 DEF StacksSound
  <2>4. QED
    BY <2>2, <2>3
<1>4. m_hypoStackColl' = [j \in 0 .. source.size |-> m_hypoStackColl'[j]]
  BY <1>2
<1>5. source' = source /\ \A h : Sound(h)' = Sound(h)
  BY InputsStay
<1>6. \A j \in 0 .. source.size : \A h \in Hypos(m_hypoStackColl'[j]) : Sound(h)'
  BY <1>3, <1>5
<1>7. QED
  BY <1>3, <1>4, <1>5, <1>6 DEF StacksSound, Hypos

LEMMA StacksStay ==
  ASSUME StacksSound, UNCHANGED << inputVars, m_hypoStackColl >>
  PROVE  StacksSound'
<1>1. source' = source /\ m_hypoStackColl' = m_hypoStackColl /\ \A h : Sound(h)' = Sound(h)
  BY InputsStay
<1>2. \A k \in 0 .. source.size : \A h \in Hypos(m_hypoStackColl[k]) : Sound(h)'
  BY <1>1 DEF StacksSound
<1>3. QED
  BY <1>1, <1>2 DEF StacksSound, Hypos

LEMMA HypothesisStays ==
  ASSUME UNCHANGED << inputVars, iterHypo >>
  PROVE  Sound(iterHypo)' = Sound(iterHypo) /\ Extensions(iterHypo)' = Extensions(iterHypo)
<1>1. source' = source /\ param' = param /\ iterHypo' = iterHypo
      /\ m_reorderingConstraint' = m_reorderingConstraint
  BY DEF inputVars
<1>2. Sound(iterHypo)' = Sound(iterHypo)
  BY <1>1 DEF Sound, Hypotheses, MeetsConstraints, Reaches, GetWordsBitmap, LastEnd, Option,
            Positions
<1>3. Extensions(iterHypo)' = Extensions(iterHypo)
  BY <1>1 DEF Extensions, MayExtend, IsComplete, Positions, GetWordsBitmap, LastEnd, Option
<1>4. QED
  BY <1>2, <1>3

(* The hypothesis that is taken up next is one of those it is taken from. *)
LEMMA VisitSound ==
  ASSUME HypothesisSound, UNCHANGED inputVars, NEW hypos, Visit(hypos),
         \A h \in hypos : Sound(h)
  PROVE  HypothesisSound'
<1>1. \A h : Sound(h)' = Sound(h) /\ Extensions(h)' = Extensions(h)
  BY InputsStay
<1>2. CASE hypos = {}
  <2>1. iterHypo' = NoHypothesis /\ todo' = {} /\ iterStack' = iterStack + 1
    BY <1>2 DEF Visit
  <2>2. iterStack' \in Nat
    BY <2>1 DEF HypothesisSound
  <2>3. QED
    BY <2>1, <2>2 DEF HypothesisSound
<1>3. CASE hypos # {}
  <2>1. PICK h \in hypos : iterHypo' = h /\ todo' = Extensions(h) /\ iterStack' = iterStack
    BY <1>3 DEF Visit
  <2>2. Sound(h)' /\ Extensions(h)' = Extensions(h)
    BY <1>1
  <2>3. Sound(iterHypo)' /\ todo' = Extensions(iterHypo)'
    BY <2>1, <2>2 DEF Sound, Hypotheses, MeetsConstraints, Reaches, Extensions, MayExtend,
              IsComplete, Positions, GetWordsBitmap, LastEnd, Option
  <2>4. QED
    BY <2>1, <2>3 DEF HypothesisSound
<1>4. QED
  BY <1>2, <1>3

LEMMA StartStackSound == ASSUME IInv, StartStack PROVE IInv'
<1>1. PICK s \in PruneToSize(m_hypoStackColl[iterStack], param.maxHypoStackSize) :
        \E t \in CleanupArcList(s) :
          /\ m_hypoStackColl' = [m_hypoStackColl EXCEPT ![iterStack] = t]
          /\ Visit(Hypos(t))
  BY Zenon DEF StartStack
<1>2. PICK t \in CleanupArcList(s) :
        /\ m_hypoStackColl' = [m_hypoStackColl EXCEPT ![iterStack] = t]
        /\ Visit(Hypos(t))
  BY <1>1
<1>3. UNCHANGED inputVars
  BY DEF StartStack
<1>4. iterStack \in 0 .. source.size
  BY InputsTyped DEF StartStack, Over, IInv, HypothesisSound
<1>5. DOMAIN s = Fields /\ Hypos(s) \subseteq Hypos(m_hypoStackColl[iterStack])
  BY <1>1, <1>4, PruneTakesAway DEF IInv, StacksSound
<1>6. DOMAIN t = Fields /\ Hypos(t) = Hypos(s)
  BY <1>2, <1>5, CleanupKeeps
<1>7. \A h \in Hypos(t) : Sound(h)
  BY <1>4, <1>5, <1>6 DEF IInv, StacksSound
<1>8. StacksSound'
  BY <1>2, <1>3, <1>6, <1>7, StackReplaced DEF IInv
<1>9. HypothesisSound'
  BY <1>2, <1>3, <1>7, VisitSound DEF IInv
<1>10. QED
  BY <1>3, <1>8, <1>9, InputsStay DEF IInv

LEMMA ExpandSound == ASSUME IInv, ExpandHypothesis PROVE IInv'
<1> DEFINE i == Min(todo)
           h == Append(iterHypo, i)
           k == Cardinality(GetWordsBitmap(h))
<1>1. /\ todo # {} /\ todo' = todo \ {i}
      /\ UNCHANGED << inputVars, iterStack, iterHypo >>
      /\ \/ UNCHANGED m_hypoStackColl
         \/ \E s \in AddPrune(m_hypoStackColl[k], h) :
              m_hypoStackColl' = [m_hypoStackColl EXCEPT ![k] = s]
  BY Zenon DEF ExpandHypothesis
<1>2. Sound(iterHypo) /\ todo \subseteq Extensions(iterHypo)
  BY <1>1 DEF IInv, HypothesisSound
<1>3. todo \subseteq Nat
  BY <1>2, InputsTyped DEF Extensions, IInv
<1>4. i \in Extensions(iterHypo)
  BY <1>1, <1>2, <1>3, MinIn
<1> HIDE DEF i
<1>5. Sound(h)
  BY <1>2, <1>4, ExtensionMeets DEF IInv
<1> HIDE DEF h, k
<1>6. StacksSound'
  <2>1. CASE UNCHANGED m_hypoStackColl
    BY <1>1, <2>1, StacksStay DEF IInv
  <2>2. ASSUME NEW s \in AddPrune(m_hypoStackColl[k], h),
               m_hypoStackColl' = [m_hypoStackColl EXCEPT ![k] = s]
        PROVE  StacksSound'
    <3>1. ASSUME k \in 0 .. source.size
          PROVE  DOMAIN s = Fields /\ \A g \in Hypos(s) : Sound(g)
      <4>1. /\ DOMAIN m_hypoStackColl[k] = Fields
            /\ \A g \in Hypos(m_hypoStackColl[k]) : Sound(g)
        BY <3>1 DEF IInv, StacksSound
      <4>2. DOMAIN s = Fields /\ Hypos(s) \subseteq Hypos(m_hypoStackColl[k]) \cup {h}
        BY <2>2, <4>1, AddPruneAddsOne
      <4>3. QED
        BY <1>5, <4>1, <4>2
    <3>2. QED
      BY <1>1, <2>2, <3>1, StackReplaced DEF IInv
  <2>3. QED
    BY <1>1, <2>1, <2>2
<1>7. HypothesisSound'
  <2>1. Sound(iterHypo)'
    BY <1>1, <1>2, HypothesisStays
  <2>2. Extensions(iterHypo)' = Extensions(iterHypo)
    BY <1>1, HypothesisStays
  <2>3. QED
    BY <1>1, <1>2, <2>1, <2>2 DEF IInv, HypothesisSound
<1>8. QED
  BY <1>1, <1>6, <1>7, InputsStay DEF IInv

LEMMA NextHypothesisSound == ASSUME IInv, NextHypothesis PROVE IInv'
<1>1. PICK hypos : /\ hypos = { h \in Hypos(m_hypoStackColl[iterStack]) : RecombineLess(iterHypo, h) }
                   /\ Visit(hypos)
  BY Zenon DEF NextHypothesis
<1>2. UNCHANGED << inputVars, m_hypoStackColl >>
  BY DEF NextHypothesis
<1>3. iterStack \in 0 .. source.size
  BY InputsTyped DEF NextHypothesis, Over, IInv, HypothesisSound
<1>4. \A h \in hypos : Sound(h)
  BY <1>1, <1>3 DEF IInv, StacksSound
<1>5. HypothesisSound'
  BY <1>1, <1>2, <1>4, VisitSound DEF IInv
<1>6. StacksSound'
  BY <1>2, StacksStay DEF IInv
<1>7. QED
  BY <1>2, <1>5, <1>6, InputsStay DEF IInv

(* Steps that leave the search as it is. *)
LEMMA SearchStays ==
  ASSUME IInv, UNCHANGED << inputVars, m_hypoStackColl, iterStack, iterHypo, todo >>
  PROVE  IInv'
<1>1. InputsKept' /\ StacksSound'
  BY InputsStay, StacksStay DEF IInv
<1>2. Sound(iterHypo)' = Sound(iterHypo) /\ Extensions(iterHypo)' = Extensions(iterHypo)
  BY HypothesisStays
<1>3. HypothesisSound'
  BY <1>2 DEF IInv, HypothesisSound
<1>4. QED
  BY <1>1, <1>3 DEF IInv

-------------------------------------------------------------------------
(* All hypotheses on all stacks are made of phrases each of which was      *)
(* allowed, and meet the constraints.                                      *)
THEOREM Invariance == Spec => []IInv
<1>1. Init => IInv
  BY InitSound
<1>2. IInv /\ [Next]_vars => IInv'
  <2> SUFFICES ASSUME IInv, [Next]_vars PROVE IInv'
    OBVIOUS
  <2>1. CASE StartStack
    BY <2>1, StartStackSound
  <2>2. CASE TimeOut
    BY <2>2, SearchStays DEF TimeOut
  <2>3. CASE NextHypothesis
    BY <2>3, NextHypothesisSound
  <2>4. CASE ExpandHypothesis
    BY <2>4, ExpandSound
  <2>5. CASE ListNext
    BY <2>5, SearchStays DEF ListNext, StartList, NextBest, EndList, searchVars
  <2>6. CASE UNCHANGED vars
    BY <2>6, SearchStays DEF vars, searchVars
  <2>7. QED
    BY <2>1, <2>2, <2>3, <2>4, <2>5, <2>6 DEF Next, SearchNext, Ended
<1>3. QED
  BY <1>1, <1>2, PTL DEF Spec

(* ConstraintsHold, whatever the walls and zones and however stacks are    *)
(* pruned: what is translated never crosses a wall, and no zone is left    *)
(* half done.                                                              *)
THEOREM ConstraintsAlwaysHold == Spec => []ConstraintsHold
<1>1. IInv => ConstraintsHold
  BY DEF IInv, HypothesisSound, Sound, ConstraintsHold
<1>2. QED
  BY <1>1, Invariance, PTL

(* NoDeadEnd, whatever is pruned: where every word has an option of its    *)
(* own and zones are nested, the limits on distortion, walls and zones     *)
(* leave every hypothesis that is taken up a way on. *)
THEOREM NeverADeadEnd == Spec => []NoDeadEnd
<1>1. IInv => NoDeadEnd
  BY WayOn DEF IInv, HypothesisSound, NoDeadEnd
<1>2. QED
  BY <1>1, Invariance, PTL


-------------------------------------------------------------------------
(* Scores. *)

Spans(s) == { x \in (0 .. s.size - 1) \X (0 .. s.size - 1) : x[1] <= x[2] }

OwnScores(s, x) ==
  { s.options[i].score :
      i \in { j \in DOMAIN s.options : s.options[j].from = x[1] /\ s.options[j].to = x[2] } }

SplitScores(best, x) ==
  { best[<< x[1], j >>] + best[<< j + 1, x[2] >>] : j \in x[1] .. x[2] - 1 }

FutureStep(s, best, x) == Max(OwnScores(s, x) \cup SplitScores(best, x))

(* For every span there is a score to come, and it is a number. *)
LEMMA FutureScoresTyped ==
  ASSUME NEW c \in Cases
  PROVE  LET F == FutureScoreMatrix(c.source)
         IN  DOMAIN F = Spans(c.source) /\ \A x \in DOMAIN F : F[x] \in Int
<1> DEFINE s == c.source
           I == Spans(s)
           G == [f \in [I -> Int] |-> [x \in I |-> FutureStep(s, f, x)]]
           rank == [x \in I |-> x[2] - x[1]]
<1>1. /\ s.size \in Nat
      /\ s.options \in Seq([from : Nat, to : Nat, out : Nat, score : Int])
      /\ \A p \in 0 .. s.size - 1 : \E i \in DOMAIN s.options :
           s.options[i].from = p /\ s.options[i].to = p
  BY CasesAssumption
<1>2. /\ IsFiniteSet(DOMAIN s.options)
      /\ \A i \in DOMAIN s.options : s.options[i].score \in Int
  <2>1. DOMAIN s.options = 1 .. Len(s.options) /\ Len(s.options) \in Nat
    BY <1>1
  <2>2. IsFiniteSet(DOMAIN s.options)
    BY <2>1, FS_Interval
  <2>3. \A i \in DOMAIN s.options :
          s.options[i] \in [from : Nat, to : Nat, out : Nat, score : Int]
    BY <1>1, ElementsOf
  <2>4. QED
    BY <2>2, <2>3
<1>3. ASSUME NEW x \in I
      PROVE  x[1] \in 0 .. s.size - 1 /\ x[2] \in 0 .. s.size - 1 /\ x[1] <= x[2]
  BY DEF Spans
<1>4. ASSUME NEW x \in I, NEW j \in x[1] .. x[2] - 1
      PROVE  /\ << x[1], j >> \in I /\ << j + 1, x[2] >> \in I
             /\ j - x[1] < x[2] - x[1] /\ x[2] - (j + 1) < x[2] - x[1]
  <2> DEFINE a == x[1]
             b == x[2]
  <2>1. a \in 0 .. s.size - 1 /\ b \in 0 .. s.size - 1 /\ a <= b /\ j \in a .. b - 1
    BY <1>3
  <2> DEFINE N == s.size
  <2>0. N \in Nat /\ I = { y \in (0 .. N - 1) \X (0 .. N - 1) : y[1] <= y[2] }
    BY <1>1 DEF Spans
  <2> HIDE DEF a, b, N, I
  <2>2. a \in Int /\ b \in Int /\ j \in 0 .. N - 1 /\ j + 1 \in 0 .. N - 1
        /\ a <= j /\ j + 1 <= b
    BY <2>0, <2>1 DEF N
  <2>3. << a, j >> \in I /\ << j + 1, b >> \in I
    BY <2>0, <2>1, <2>2 DEF N
  <2>4. j - a < b - a /\ b - (j + 1) < b - a
    BY <2>2
  <2>5. QED
    BY <2>3, <2>4 DEF a, b
<1>5. ASSUME NEW f \in [I -> Int], NEW x \in I
      PROVE  G[f][x] = FutureStep(s, f, x) /\ G[f][x] \in Int
  <2> DEFINE mine == { j \in DOMAIN s.options : s.options[j].from = x[1] /\ s.options[j].to = x[2] }
             own == OwnScores(s, x)
             sums == SplitScores(f, x)
  <2>1. G[f][x] = FutureStep(s, f, x)
    OBVIOUS
  <2>2. IsFiniteSet(own)
    <3>1. IsFiniteSet(mine)
      BY <1>2, FS_Subset
    <3> HIDE DEF mine
    <3> DEFINE f2 == [i \in mine |-> s.options[i].score]
    <3>2. IsFiniteSet({ f2[i] : i \in mine })
      BY <3>1, ImageFinite
    <3>3. { f2[i] : i \in mine } = { s.options[i].score : i \in mine }
      OBVIOUS
    <3>4. QED
      BY <3>2, <3>3 DEF OwnScores, mine
  <2>3. IsFiniteSet(sums)
    <3>1. IsFiniteSet(x[1] .. x[2] - 1)
      BY <1>3, FS_Interval, SMTT(30)
    <3> DEFINE J == x[1] .. x[2] - 1
               f2 == [j \in J |-> f[<< x[1], j >>] + f[<< j + 1, x[2] >>]]
    <3>2. IsFiniteSet({ f2[j] : j \in J })
      BY <3>1, ImageFinite
    <3>3. { f2[j] : j \in J } = { f[<< x[1], j >>] + f[<< j + 1, x[2] >>] : j \in J }
      OBVIOUS
    <3>4. QED
      BY <3>2, <3>3 DEF SplitScores
  <2>4. own \subseteq Int
    BY <1>2 DEF OwnScores
  <2>5. sums \subseteq Int
    <3>1. ASSUME NEW j \in x[1] .. x[2] - 1
          PROVE  f[<< x[1], j >>] + f[<< j + 1, x[2] >>] \in Int
      <4>1. << x[1], j >> \in I /\ << j + 1, x[2] >> \in I
        BY <1>4
      <4> HIDE DEF I
      <4>2. QED
        BY <4>1
    <3>2. QED
      BY <3>1 DEF SplitScores
  <2>6. own \cup sums # {}
    <3>1. CASE x[1] = x[2]
      <4>1. PICK i \in DOMAIN s.options : s.options[i].from = x[1] /\ s.options[i].to = x[1]
        BY <1>1, <1>3
      <4>2. s.options[i].score \in own
        BY <3>1, <4>1 DEF OwnScores
      <4>3. QED
        BY <4>2
    <3>2. CASE x[1] < x[2]
      <4>1. x[1] \in x[1] .. x[2] - 1
        BY <1>3, <3>2
      <4>2. f[<< x[1], x[1] >>] + f[<< x[1] + 1, x[2] >>] \in sums
        BY <4>1 DEF SplitScores
      <4>3. QED
        BY <4>2
    <3>3. QED
      BY <1>3, <3>1, <3>2
  <2> HIDE DEF own, sums
  <2>7. IsFiniteSet(own \cup sums)
    BY <2>2, <2>3, FS_Union
  <2>8. Max(own \cup sums) \in Int
    BY <2>4, <2>5, <2>6, <2>7, MaxOfSet
  <2>9. QED
    BY <2>1, <2>8 DEF FutureStep, own, sums
<1>6. ASSUME NEW f \in [I -> Int], NEW g \in [I -> Int], NEW x \in I,
             \A y \in I : rank[y] < rank[x] => f[y] = g[y]
      PROVE  G[f][x] = G[g][x]
  <2>1. ASSUME NEW j \in x[1] .. x[2] - 1
        PROVE  f[<< x[1], j >>] = g[<< x[1], j >>] /\ f[<< j + 1, x[2] >>] = g[<< j + 1, x[2] >>]
    <3>1. /\ << x[1], j >> \in I /\ << j + 1, x[2] >> \in I
          /\ j - x[1] < x[2] - x[1] /\ x[2] - (j + 1) < x[2] - x[1]
      BY <1>4
    <3>2. rank[<< x[1], j >>] = j - x[1] /\ rank[<< j + 1, x[2] >>] = x[2] - (j + 1)
          /\ rank[x] = x[2] - x[1]
      BY <3>1
    <3> HIDE DEF rank, I
    <3>3. QED
      BY <1>6, <3>1, <3>2
  <2>2. SplitScores(f, x) = SplitScores(g, x)
    BY <2>1 DEF SplitScores
  <2>3. QED
    BY <1>5, <2>2 DEF FutureStep
<1>7. rank \in [I -> 0 .. s.size]
  <2>1. ASSUME NEW x \in I PROVE x[2] - x[1] \in 0 .. s.size
    <3> DEFINE a == x[1]
               b == x[2]
    <3>1. a \in 0 .. s.size - 1 /\ b \in 0 .. s.size - 1 /\ a <= b
      BY <1>3
    <3> HIDE DEF a, b, s
    <3>2. b - a \in 0 .. s.size
      BY <1>1, <3>1
    <3>3. QED
      BY <3>2 DEF a, b
  <2>2. QED
    BY <2>1
<1>8. PICK f \in [I -> Int] : \A x \in I : f[x] = FutureStep(s, f, x)
  <2> HIDE DEF G, rank, I, s
  <2>1. KeepsType(G, I, Int)
    BY <1>5 DEF KeepsType
  <2>2. LooksBelow(G, I, Int, rank)
    BY <1>6 DEF LooksBelow
  <2> DEFINE N == s.size
  <2>a. N \in Nat /\ rank \in [I -> 0 .. N] /\ Int # {}
    BY <1>1, <1>7
  <2> HIDE DEF N
  <2>3. \E sol \in [I -> Int] : Solution(sol, G, I)
    BY <2>a, <2>1, <2>2, Recursion
  <2>4. QED
    BY <1>5, <2>3 DEF Solution
<1> DEFINE best == CHOOSE b : b = [x \in I |-> FutureStep(s, b, x)]
<1>9. FutureScoreMatrix(s) = best
  BY DEF FutureScoreMatrix, FutureStep, OwnScores, SplitScores, Spans
<1>10. f = [x \in I |-> FutureStep(s, f, x)]
  BY <1>8
<1> HIDE DEF G, rank, I, s
<1>11. best = [x \in I |-> FutureStep(s, best, x)]
  BY <1>10
<1> HIDE DEF best
<1> DEFINE Good == { n \in Nat : \A x \in I : x[2] - x[1] < n => best[x] \in Int }
<1>12. 0 \in Good
  <2>1. \A x \in I : x[1] <= x[2] /\ x[1] \in Int /\ x[2] \in Int
    BY <1>3
  <2>2. QED
    BY <2>1
<1>13. ASSUME NEW n \in Nat, n \in Good PROVE n + 1 \in Good
  <2> DEFINE h == [x \in I |-> IF x[2] - x[1] < n THEN best[x] ELSE 0]
  <2>1. h \in [I -> Int]
    BY <1>13
  <2>2. ASSUME NEW x \in I, x[2] - x[1] < n + 1 PROVE best[x] \in Int
    <3>1. ASSUME NEW j \in x[1] .. x[2] - 1
          PROVE  h[<< x[1], j >>] = best[<< x[1], j >>]
                 /\ h[<< j + 1, x[2] >>] = best[<< j + 1, x[2] >>]
      <4>1. /\ << x[1], j >> \in I /\ << j + 1, x[2] >> \in I
            /\ j - x[1] < x[2] - x[1] /\ x[2] - (j + 1) < x[2] - x[1]
        BY <1>4
      <4>2. x[1] \in Int /\ x[2] \in Int /\ j \in Int
        BY <1>3
      <4>3. j - x[1] < n /\ x[2] - (j + 1) < n
        BY <2>2, <4>1, <4>2
      <4>4. QED
        BY <4>1, <4>3
    <3> HIDE DEF h
    <3>2. SplitScores(h, x) = SplitScores(best, x)
      BY <3>1 DEF SplitScores
    <3>3. FutureStep(s, h, x) = FutureStep(s, best, x)
      BY <3>2 DEF FutureStep
    <3>4. FutureStep(s, h, x) \in Int
      BY <1>5, <2>1
    <3>5. best[x] = FutureStep(s, best, x)
      BY <1>11
    <3>6. QED
      BY <3>3, <3>4, <3>5
  <2> HIDE DEF h
  <2>3. QED
    BY <2>2
<1>14. ASSUME NEW x \in I PROVE best[x] \in Int
  <2>1. \A n \in Nat : n \in Good
    <3> HIDE DEF Good
    <3>1. QED
      BY <1>12, <1>13, Induction
  <2>2. x[2] - x[1] + 1 \in Nat
    BY <1>3
  <2>3. x[2] - x[1] + 1 \in Good
    BY <2>1, <2>2
  <2>4. x[2] - x[1] < x[2] - x[1] + 1
    BY <1>3
  <2>5. QED
    BY <2>3, <2>4
<1>15. DOMAIN best = I
  BY <1>11
<1>16. QED
  BY <1>9, <1>14, <1>15 DEF I, s

(* The words of the options of a sentence, and none. *)
LEMMA WordsTyped ==
  ASSUME InputsKept
  PROVE  LET words == { Option(i).out : i \in DOMAIN source.options }
         IN  \A v \in words \cup {0}, w \in words \ {0} : LanguageModel[<< v, w >>] \in Int
<1>1. PICK c \in Cases : source = c.source
  BY DEF InputsKept
<1>2. LET words == { c.source.options[i].out : i \in DOMAIN c.source.options }
      IN  \A v \in words \cup {0}, w \in words \ {0} : LanguageModel[<< v, w >>] \in Int
  BY LanguageModelAssumption
<1>3. { Option(i).out : i \in DOMAIN source.options }
        = { c.source.options[i].out : i \in DOMAIN c.source.options }
  BY <1>1 DEF Option
<1>4. QED
  BY ONLY <1>2, <1>3

LEMMA SettingsTyped ==
  ASSUME InputsKept
  PROVE  /\ param.weightDistortion \in Int /\ param.beamWidth \in Int
         /\ param.maxHypoStackSize \in Nat \ {0} /\ param.minHypoStackDiversity \in Nat
         /\ param.nBestSize \in Nat /\ param.earlyDiscardingThreshold \in Int
         /\ \A i \in DOMAIN source.options : Option(i).out \in Nat /\ Option(i).score \in Int
<1>1. PICK c \in Cases : source = c.source /\ param = c.param
  BY DEF InputsKept
<1>2. source.options \in Seq([from : Nat, to : Nat, out : Nat, score : Int])
  BY <1>1, CasesAssumption
<1>3. \A i \in DOMAIN source.options :
        source.options[i] \in [from : Nat, to : Nat, out : Nat, score : Int]
  BY <1>2, ElementsOf
<1>4. QED
  BY <1>1, <1>3, SettingsAssumption DEF Option

(* The beginnings of a hypothesis are hypotheses. *)
LEMMA Beginning ==
  ASSUME NEW h \in Hypotheses, NEW i \in DOMAIN h
  PROVE  /\ SubSeq(h, 1, i) \in Hypotheses /\ Len(SubSeq(h, 1, i)) = i /\ SubSeq(h, 1, i) # << >>
         /\ Front(SubSeq(h, 1, i)) \in Hypotheses
         /\ Last(SubSeq(h, 1, i)) \in DOMAIN source.options
<1>1. i \in 1 .. Len(h) /\ Len(h) \in Nat
  BY DEF Hypotheses
<1> DEFINE q == SubSeq(h, 1, i)
<1>2. q \in Hypotheses /\ Len(q) = i
  <2> DEFINE S == DOMAIN source.options
  <2>1. \A k \in 1 .. i : h[k] \in S
    BY <1>1 DEF Hypotheses
  <2>2. h \in Seq(S) /\ i \in Nat /\ i <= Len(h)
    BY <1>1 DEF Hypotheses
  <2> HIDE DEF S
  <2>3. q \in Seq(S) /\ Len(q) = i
    BY <2>1, <2>2
  <2>4. QED
    BY <2>3 DEF Hypotheses, S
<1> HIDE DEF q
<1>3. q # << >> /\ Last(q) = q[Len(q)] /\ Front(q) = SubSeq(q, 1, Len(q) - 1)
  BY <1>1, <1>2 DEF Last, Front
<1>4. q[Len(q)] \in DOMAIN source.options
  BY <1>1, <1>2 DEF Hypotheses
<1>5. Front(q) \in Hypotheses
  <2> DEFINE S == DOMAIN source.options
  <2>1. \A k \in 1 .. Len(q) - 1 : q[k] \in S
    BY <1>1, <1>2 DEF Hypotheses
  <2>2. Len(q) \in Nat /\ Len(q) >= 1 /\ q \in Seq(S)
    BY <1>1, <1>2 DEF Hypotheses
  <2> HIDE DEF S
  <2>3. SubSeq(q, 1, Len(q) - 1) \in Seq(S)
    BY <2>1, <2>2
  <2>4. QED
    BY <1>3, <2>3 DEF Hypotheses, S
<1>6. QED
  BY <1>2, <1>3, <1>4, <1>5 DEF q

(* What a hypothesis is last said to have been. *)
LEMMA LastTyped ==
  ASSUME InputsKept, NEW h \in Hypotheses
  PROVE  /\ LastEnd(h) \in Int
         /\ LastWord(h) \in { Option(i).out : i \in DOMAIN source.options } \cup {0}
         /\ LastWord(h) \in Nat
<1>1. /\ Len(h) \in Nat /\ DOMAIN h = 1 .. Len(h)
      /\ \A k \in 1 .. Len(h) : h[k] \in DOMAIN source.options
  BY DEF Hypotheses
<1>2. LastEnd(h) \in Int
  <2>1. CASE h = << >>
    BY <2>1 DEF LastEnd, NOT_FOUND
  <2>2. CASE h # << >>
    <3>1. Last(h) \in DOMAIN source.options
      BY <1>1, <2>2 DEF Last
    <3>2. Option(Last(h)).to \in Int
      BY <3>1, InputsTyped
    <3>3. QED
      BY <2>2, <3>2 DEF LastEnd
  <2>3. QED
    BY <2>1, <2>2
<1> DEFINE spoken == { i \in DOMAIN h : Option(h[i]).out # 0 }
<1>3. LastWord(h) \in { Option(i).out : i \in DOMAIN source.options } \cup {0}
  <2>1. CASE spoken = {}
    BY <2>1 DEF LastWord
  <2>2. CASE spoken # {}
    <3>1. spoken \subseteq 0 .. Len(h)
      BY <1>1
    <3>2. Max(spoken) \in spoken
      BY <1>1, <2>2, <3>1, MaxIn
    <3>3. h[Max(spoken)] \in DOMAIN source.options
      BY <1>1, <3>2
    <3>4. LastWord(h) = Option(h[Max(spoken)]).out
      BY <2>2 DEF LastWord
    <3>5. QED
      BY <3>3, <3>4
  <2>3. QED
    BY <2>1, <2>2
<1>4. QED
  BY <1>2, <1>3, SettingsTyped

(* What may come to a hypothesis is a number. *)
LEMMA FutureTyped ==
  ASSUME InputsKept, NEW B PROVE CalcFutureScore(B) \in Int
<1>1. PICK c \in Cases : source = c.source /\ m_futureScore = FutureScoreMatrix(source)
  BY DEF InputsKept
<1>2. DOMAIN m_futureScore = Spans(source) /\ \A x \in DOMAIN m_futureScore : m_futureScore[x] \in Int
  BY <1>1, FutureScoresTyped
<1>3. IsFiniteSet(Gaps(B))
  <2>1. source.size \in Nat
    BY InputsTyped
  <2>2. IsFiniteSet(0 .. source.size - 1)
    BY <2>1, FS_Interval
  <2>3. IsFiniteSet((0 .. source.size - 1) \X (0 .. source.size - 1))
    BY <2>2, FS_Product
  <2>4. Gaps(B) \subseteq (0 .. source.size - 1) \X (0 .. source.size - 1)
    BY <1>2 DEF Gaps, Spans
  <2>5. QED
    BY <2>3, <2>4, FS_Subset
<1>4. \A x \in Gaps(B) : m_futureScore[x] \in Int
  BY <1>2 DEF Gaps
<1>5. QED
  BY <1>3, <1>4, SumType DEF CalcFutureScore

(* What is gained is a number. *)
LEMMA GainTyped ==
  ASSUME InputsKept, NEW h \in Hypotheses, NEW i \in DOMAIN h
  PROVE  Gain(SubSeq(h, 1, i)) \in Int
<1> DEFINE q == SubSeq(h, 1, i)
           o == Option(Last(q))
           prev == GetPrevHypo(q)
<1>1. prev \in Hypotheses /\ Last(q) \in DOMAIN source.options
  BY Beginning DEF GetPrevHypo
<1> HIDE DEF q
<1>2. o.score \in Int /\ o.out \in Nat /\ o.from \in Nat
  BY <1>1, SettingsTyped, InputsTyped
<1>3. LastEnd(prev) \in Int
      /\ LastWord(prev) \in { Option(k).out : k \in DOMAIN source.options } \cup {0}
  BY <1>1, LastTyped
<1>4. o.out # 0 => LanguageModel[<< LastWord(prev), o.out >>] \in Int
  <2>1. o.out \in { Option(k).out : k \in DOMAIN source.options }
    BY <1>1
  <2>2. QED
    BY <1>3, <2>1, WordsTyped
<1>5. ComputeDistortionDistance(LastEnd(prev), o.from) \in Int
  BY <1>2, <1>3 DEF ComputeDistortionDistance
<1>6. param.weightDistortion \in Int
  BY SettingsTyped
<1> HIDE DEF o, prev
<1>7. param.weightDistortion * ComputeDistortionDistance(LastEnd(prev), o.from) \in Int
  BY <1>5, <1>6
<1>8. Gain(q) = o.score
                  - param.weightDistortion * ComputeDistortionDistance(LastEnd(prev), o.from)
                  + IF o.out = 0 THEN 0 ELSE LanguageModel[<< LastWord(prev), o.out >>]
  BY DEF Gain, o, prev
<1>9. Gain(q) \in Int
  <2> DEFINE a == param.weightDistortion * ComputeDistortionDistance(LastEnd(prev), o.from)
             b == IF o.out = 0 THEN 0 ELSE LanguageModel[<< LastWord(prev), o.out >>]
  <2>1. a \in Int /\ b \in Int /\ o.score \in Int /\ Gain(q) = o.score - a + b
    BY <1>2, <1>4, <1>7, <1>8
  <2> HIDE DEF a, b
  <2>2. QED
    BY <2>1
<1>10. QED
  BY <1>9 DEF q

(* All scores are numbers. *)
LEMMA ScoresTyped ==
  ASSUME InputsKept, NEW h \in Hypotheses
  PROVE  GetTotalScore(h) \in Int /\ GetScore(h) \in Int /\ Score(h) \in Int
<1>1. \A i \in DOMAIN h : Gain(SubSeq(h, 1, i)) \in Int
  BY GainTyped
<1>2. Score(h) \in Int
  <2> DEFINE f == [i \in DOMAIN h |-> Gain(SubSeq(h, 1, i))]
  <2>1. IsFiniteSet(DOMAIN h)
    <3>1. Len(h) \in Nat /\ DOMAIN h = 1 .. Len(h)
      BY DEF Hypotheses
    <3>2. QED
      BY <3>1, FS_Interval
  <2>2. DOMAIN f = DOMAIN h /\ \A i \in DOMAIN h : f[i] \in Int
    BY <1>1
  <2> HIDE DEF f
  <2>3. SumFunctionOnSet(f, DOMAIN f) \in Int
    BY <2>1, <2>2, SumType
  <2>4. QED
    BY <2>3 DEF Score, SumFunction, f
<1>3. QED
  BY <1>2, FutureTyped DEF GetTotalScore, GetScore

-------------------------------------------------------------------------
(* Sorted lists. *)

InOrder(q, T) ==
  /\ q \in Seq(T) /\ Len(q) = Cardinality(T)
  /\ \A x \in T : \E i \in DOMAIN q : q[i] = x
  /\ \A i, j \in DOMAIN q : i < j => GetTotalScore(q[j]) <= GetTotalScore(q[i])

SortStep(lists, T) ==
  IF T = {}
    THEN {<< >>}
    ELSE UNION { { Append(q, x) : q \in lists[T \ {x}] } :
                 x \in { y \in T : \A z \in T : GetTotalScore(y) <= GetTotalScore(z) } }

(* One of the worst comes last. *)
LEMMA WorstLast ==
  ASSUME NEW T, IsFiniteSet(T), NEW x \in T, \A z \in T : GetTotalScore(x) <= GetTotalScore(z),
         NEW q, InOrder(q, T \ {x})
  PROVE  InOrder(Append(q, x), T)
<1> DEFINE r == Append(q, x)
<1>1. q \in Seq(T \ {x}) /\ Len(q) = Cardinality(T) - 1
  <2>1. Cardinality(T \ {x}) = Cardinality(T) - 1
    BY FS_RemoveElement
  <2>2. QED
    BY <2>1 DEF InOrder
<1>2. /\ Len(q) \in Nat /\ DOMAIN q = 1 .. Len(q)
      /\ \A i \in 1 .. Len(q) : q[i] \in T \ {x}
  BY <1>1, ElementsOf
<1>3. /\ Len(r) = Len(q) + 1 /\ DOMAIN r = 1 .. Len(q) + 1
      /\ \A i \in 1 .. Len(q) : r[i] = q[i]
      /\ r[Len(q) + 1] = x
  BY <1>1
<1>4. r \in Seq(T)
  <2>1. q \in Seq(T)
    BY <1>1
  <2>2. QED
    BY <2>1
<1>5. Len(r) = Cardinality(T)
  BY <1>1, <1>3, FS_CardinalityType
<1> HIDE DEF r
<1>6. ASSUME NEW y \in T PROVE \E i \in DOMAIN r : r[i] = y
  <2>1. CASE y = x
    <3>1. Len(q) + 1 \in DOMAIN r
      BY <1>2, <1>3
    <3>2. QED
      BY <1>3, <2>1, <3>1
  <2>2. CASE y # x
    <3>1. PICK i \in DOMAIN q : q[i] = y
      BY <2>2 DEF InOrder
    <3>2. i \in DOMAIN r /\ r[i] = y
      BY <1>2, <1>3, <3>1
    <3>3. QED
      BY <3>2
  <2>3. QED
    BY <2>1, <2>2
<1>7. ASSUME NEW i \in DOMAIN r, NEW j \in DOMAIN r, i < j
      PROVE  GetTotalScore(r[j]) <= GetTotalScore(r[i])
  <2>1. i \in 1 .. Len(q) /\ r[i] = q[i] /\ r[i] \in T
    BY <1>2, <1>3, <1>7
  <2>2. CASE j = Len(q) + 1
    BY <1>3, <2>1, <2>2
  <2>3. CASE j # Len(q) + 1
    <3>1. j \in 1 .. Len(q) /\ r[j] = q[j]
      BY <1>2, <1>3, <2>3
    <3>2. QED
      BY <1>2, <1>7, <2>1, <3>1 DEF InOrder
  <2>4. QED
    BY <2>2, <2>3
<1>8. QED
  BY <1>4, <1>5, <1>6, <1>7 DEF InOrder, r

(* Whatever comes out of sorting is in order. *)
LEMMA BestFirstInOrder ==
  ASSUME NEW S, IsFiniteSet(S), NEW q \in BestFirst(S)
  PROVE  InOrder(q, S)
<1> DEFINE D == SUBSET S
           V == SUBSET Seq(S)
           G == [f \in [D -> V] |-> [T \in D |-> SortStep(f, T)]]
           rank == [T \in D |-> Cardinality(T)]
<1>1. ASSUME NEW T \in D
      PROVE  /\ IsFiniteSet(T) /\ Cardinality(T) \in Nat /\ Cardinality(T) <= Cardinality(S)
             /\ \A x \in T : T \ {x} \in D /\ Cardinality(T \ {x}) = Cardinality(T) - 1
  <2>1. IsFiniteSet(T) /\ Cardinality(T) <= Cardinality(S)
    BY FS_Subset
  <2>2. \A x \in T : Cardinality(T \ {x}) = Cardinality(T) - 1
    BY <2>1, FS_RemoveElement
  <2>3. QED
    BY <2>1, <2>2, FS_CardinalityType
<1>2. Cardinality(S) \in Nat /\ Cardinality({}) = 0
  BY FS_CardinalityType, FS_EmptySet
<1>3. rank \in [D -> 0 .. Cardinality(S)]
  <2>1. \A T \in D : Cardinality(T) \in 0 .. Cardinality(S)
    BY <1>1, <1>2
  <2>2. QED
    BY <2>1
<1>4. ASSUME NEW f \in [D -> V], NEW T \in D
      PROVE  G[f][T] = SortStep(f, T) /\ G[f][T] \in V
  <2>1. G[f][T] = SortStep(f, T)
    OBVIOUS
  <2>2. ASSUME NEW p \in SortStep(f, T) PROVE p \in Seq(S)
    <3>1. CASE T = {}
      <4>1. p = << >>
        BY <2>2, <3>1 DEF SortStep
      <4>2. QED
        BY <4>1
    <3>2. CASE T # {}
      <4>1. PICK x \in T : p \in { Append(r, x) : r \in f[T \ {x}] }
        BY <2>2, <3>2 DEF SortStep
      <4>2. PICK r \in f[T \ {x}] : p = Append(r, x)
        BY <4>1
      <4>3. T \ {x} \in D
        OBVIOUS
      <4>4. f[T \ {x}] \in V
        BY <4>3
      <4>5. r \in Seq(S) /\ x \in S
        BY <4>4
      <4>6. QED
        BY <4>2, <4>5
    <3>3. QED
      BY <3>1, <3>2
  <2>3. QED
    BY <2>1, <2>2
<1>5. ASSUME NEW f, NEW g, NEW T \in D,
             \A U \in D : Cardinality(U) < Cardinality(T) => f[U] = g[U]
      PROVE  SortStep(f, T) = SortStep(g, T)
  <2>1. \A x \in T : f[T \ {x}] = g[T \ {x}]
    <3>1. ASSUME NEW x \in T PROVE f[T \ {x}] = g[T \ {x}]
      <4>1. T \ {x} \in D /\ Cardinality(T \ {x}) = Cardinality(T) - 1 /\ Cardinality(T) \in Nat
        BY <1>1
      <4>2. Cardinality(T \ {x}) < Cardinality(T)
        BY <4>1
      <4>3. QED
        BY <1>5, <4>1, <4>2
    <3>2. QED
      BY <3>1
  <2>2. QED
    BY <2>1, ZenonT(30) DEF SortStep
<1>6. PICK sol \in [D -> V] : \A T \in D : sol[T] = SortStep(sol, T)
  <2>1. KeepsType(G, D, V)
    <3> HIDE DEF G, D, V
    <3>1. QED
      BY <1>4 DEF KeepsType
  <2>2. LooksBelow(G, D, V, rank)
    <3>1. ASSUME NEW f \in [D -> V], NEW g \in [D -> V], NEW T \in D,
                 \A U \in D : rank[U] < rank[T] => f[U] = g[U]
          PROVE  G[f][T] = G[g][T]
      <4>1. \A U \in D : Cardinality(U) < Cardinality(T) => f[U] = g[U]
        BY <3>1
      <4>2. SortStep(f, T) = SortStep(g, T)
        BY <1>5, <4>1
      <4>3. QED
        BY <1>4, <4>2
    <3> HIDE DEF G, D, V, rank
    <3>2. QED
      BY <3>1 DEF LooksBelow
  <2>3. V # {}
    OBVIOUS
  <2> HIDE DEF G, D, V, rank
  <2>4. \E f \in [D -> V] : Solution(f, G, D)
    BY <1>2, <1>3, <2>1, <2>2, <2>3, Recursion
  <2>5. QED
    BY <1>4, <2>4 DEF Solution
<1> DEFINE lists == CHOOSE f : f = [T \in D |-> SortStep(f, T)]
<1>7. BestFirst(S) = lists[S]
  BY DEF BestFirst, SortedLists, SortStep
<1>8. sol = [T \in D |-> SortStep(sol, T)]
  BY <1>6
<1> HIDE DEF G, rank, V
<1>9. lists = [T \in D |-> SortStep(lists, T)]
  BY <1>8
<1> HIDE DEF lists
<1> DEFINE Good == { n \in Nat : \A T \in D : Cardinality(T) < n =>
                                   \A p \in lists[T] : InOrder(p, T) }
<1>10. 0 \in Good
  BY <1>1
<1>11. ASSUME NEW n \in Nat, n \in Good PROVE n + 1 \in Good
  <2>1. ASSUME NEW T \in D, Cardinality(T) < n + 1, NEW p \in lists[T]
        PROVE  InOrder(p, T)
    <3>1. p \in SortStep(lists, T)
      BY <1>9
    <3>2. CASE T = {}
      <4>1. p = << >>
        BY <3>1, <3>2 DEF SortStep
      <4>2. QED
        BY <1>2, <3>2, <4>1 DEF InOrder
    <3>3. CASE T # {}
      <4>1. PICK x \in T : /\ \A z \in T : GetTotalScore(x) <= GetTotalScore(z)
                           /\ p \in { Append(r, x) : r \in lists[T \ {x}] }
        BY <3>1, <3>3 DEF SortStep
      <4>2. PICK r \in lists[T \ {x}] : p = Append(r, x)
        BY <4>1
      <4>3. T \ {x} \in D /\ Cardinality(T \ {x}) < n
        BY <1>1, <1>11, <2>1
      <4>4. InOrder(r, T \ {x})
        BY <1>11, <4>3
      <4>5. QED
        BY <1>1, <4>1, <4>2, <4>4, WorstLast
    <3>4. QED
      BY <3>2, <3>3
  <2>2. QED
    BY <2>1
<1>12. Cardinality(S) + 1 \in Good
  <2> HIDE DEF Good
  <2>1. \A n \in Nat : n \in Good
    BY <1>10, <1>11, Induction
  <2>2. QED
    BY <1>2, <2>1
<1>13. S \in D /\ Cardinality(S) < Cardinality(S) + 1
  BY <1>2
<1>14. QED
  BY <1>7, <1>12, <1>13

-------------------------------------------------------------------------
(* Stacks as part of the search graph. *)

Covered(h) == Cardinality(GetWordsBitmap(h))

Members(s) == Hypos(s) \cup UNION { s.m_hypos[h] : h \in Hypos(s) }

ArcsGood(arcs, h) ==
  /\ IsFiniteSet(arcs) /\ h \notin arcs
  /\ \A a \in arcs : Recombine(a, h) /\ GetTotalScore(a) <= GetTotalScore(h)

(* A stack for k words: no two hypotheses on it could be recombined, and   *)
(* arcs could be exchanged for the hypotheses they belong to.              *)
StackGood(s, k) ==
  /\ IsFiniteSet(Hypos(s))
  /\ \A x \in Members(s) : x \in Hypotheses /\ Covered(x) = k
  /\ \A g, h \in Hypos(s) : Recombine(g, h) => g = h
  /\ \A h \in Hypos(s) : ArcsGood(s.m_hypos[h], h)

(* A stack that has lost hypotheses or arcs. *)
Shrunk(t, s) == Hypos(t) \subseteq Hypos(s) /\ \A h \in Hypos(t) : t.m_hypos[h] \subseteq s.m_hypos[h]

LEMMA ShrunkGood ==
  ASSUME NEW s, NEW k, StackGood(s, k), NEW t, Shrunk(t, s)
  PROVE  StackGood(t, k) /\ Members(t) \subseteq Members(s)
<1>1. Members(t) \subseteq Members(s)
  <2>1. ASSUME NEW x \in Members(t) PROVE x \in Members(s)
    <3>1. CASE x \in Hypos(t)
      BY <3>1 DEF Shrunk, Members
    <3>2. ASSUME NEW h \in Hypos(t), x \in t.m_hypos[h] PROVE x \in Members(s)
      <4>1. h \in Hypos(s) /\ x \in s.m_hypos[h]
        BY <3>2 DEF Shrunk
      <4>2. QED
        BY <4>1 DEF Members
    <3>3. QED
      BY <3>1, <3>2 DEF Members
  <2>2. QED
    BY <2>1
<1>2. IsFiniteSet(Hypos(t))
  BY FS_Subset DEF Shrunk, StackGood
<1>3. ASSUME NEW h \in Hypos(t) PROVE ArcsGood(t.m_hypos[h], h)
  <2>1. h \in Hypos(s) /\ t.m_hypos[h] \subseteq s.m_hypos[h]
    BY DEF Shrunk
  <2>2. ArcsGood(s.m_hypos[h], h)
    BY <2>1 DEF StackGood
  <2>3. QED
    BY <2>1, <2>2, FS_Subset DEF ArcsGood
<1>4. QED
  BY <1>1, <1>2, <1>3 DEF StackGood, Shrunk

LEMMA PruneShrinks ==
  ASSUME NEW s, DOMAIN s = Fields, NEW size, NEW t \in PruneToSize(s, size)
  PROVE  DOMAIN t = Fields /\ Shrunk(t, s)
<1>1. CASE t = s
  BY <1>1 DEF Shrunk
<1>2. ASSUME NEW q, t = Cut(s, q, size)
      PROVE  DOMAIN t = Fields /\ Shrunk(t, s)
  <2>1. PICK kept, f, score :
          /\ kept \subseteq Hypos(s)
          /\ t = [s EXCEPT !.m_hypos = [h \in kept |-> s.m_hypos[h]],
                           !.m_diversityWorstScore = f, !.m_worstScore = score]
    BY <1>2, Zenon DEF Cut
  <2>2. DOMAIN t = Fields /\ t.m_hypos = [h \in kept |-> s.m_hypos[h]]
    BY <2>1 DEF Fields
  <2>3. QED
    BY <2>1, <2>2 DEF Hypos, Shrunk
<1>3. t = s \/ \E q : t = Cut(s, q, size)
  BY Zenon DEF PruneToSize
<1>4. QED
  BY <1>1, <1>2, <1>3

(* Of the arcs the best are kept. *)
LEMMA BestArcsShrink ==
  ASSUME InputsKept, NEW arcs, IsFiniteSet(arcs), NEW some \in BestArcs(arcs)
  PROVE  some \subseteq arcs
<1>1. CASE some = arcs
  BY <1>1
<1>2. CASE some # arcs
  <2>1. ~(Cardinality(arcs) <= param.nBestSize * 5)
    BY <1>2 DEF BestArcs
  <2>2. PICK q \in BestFirst(arcs) : some = { q[i] : i \in 1 .. param.nBestSize }
    BY <1>2 DEF BestArcs
  <2>3. q \in Seq(arcs) /\ Len(q) = Cardinality(arcs)
    BY BestFirstInOrder DEF InOrder
  <2>4. param.nBestSize \in Nat
    BY SettingsTyped
  <2>5. param.nBestSize <= Len(q)
    <3>1. Cardinality(arcs) \in Nat
      BY FS_CardinalityType
    <3>2. param.nBestSize < Cardinality(arcs)
      BY <2>1, <2>4, <3>1
    <3>3. QED
      BY <2>3, <2>4, <3>1, <3>2
  <2>6. \A i \in 1 .. param.nBestSize : q[i] \in arcs
    BY <2>3, <2>4, <2>5
  <2>7. QED
    BY <2>2, <2>6
<1>3. QED
  BY <1>1, <1>2

LEMMA CleanupShrinks ==
  ASSUME InputsKept, NEW s, DOMAIN s = Fields, NEW k, StackGood(s, k),
         NEW t \in CleanupArcList(s)
  PROVE  DOMAIN t = Fields /\ Shrunk(t, s) /\ Hypos(t) = Hypos(s)
<1> DEFINE cut == { h \in Hypos(s) :
                      param.nBestIsEnabled /\ BestArcs(s.m_hypos[h]) # {s.m_hypos[h]} }
<1>1. PICK f :
        /\ \A h \in cut : f[h] \in BestArcs(s.m_hypos[h])
        /\ t = [s EXCEPT !.m_hypos =
                  [h \in Hypos(s) |-> IF h \in cut THEN f[h] ELSE s.m_hypos[h]]]
  BY Zenon DEF CleanupArcList
<1>2. DOMAIN t = Fields
      /\ t.m_hypos = [h \in Hypos(s) |-> IF h \in cut THEN f[h] ELSE s.m_hypos[h]]
  BY <1>1 DEF Fields
<1>3. \A h \in cut : f[h] \subseteq s.m_hypos[h]
  BY <1>1, BestArcsShrink DEF StackGood, ArcsGood
<1> HIDE DEF cut
<1>4. QED
  BY <1>2, <1>3 DEF Hypos, Shrunk

(* A hypothesis that none on the stack can be recombined with, with its    *)
(* arcs. *)
LEMMA AddGood ==
  ASSUME NEW s, DOMAIN s = Fields, NEW k, StackGood(s, k),
         NEW h \in Hypotheses, Covered(h) = k,
         \A g \in Hypos(s) : ~Recombine(g, h),
         NEW arcs, ArcsGood(arcs, h), \A a \in arcs : a \in Hypotheses /\ Covered(a) = k,
         NEW t \in Add(s, h, arcs)
  PROVE  /\ DOMAIN t = Fields /\ StackGood(t, k)
         /\ Members(t) \subseteq Members(s) \cup arcs \cup {h}
<1> DEFINE i == Inserted(s, h, arcs)
<1>1. DOMAIN i = Fields /\ i.m_hypos = With(s.m_hypos, h, arcs)
  BY DEF Inserted, Fields
<1>2. t = i \/ t \in PruneToSize(i, param.maxHypoStackSize)
  BY Zenon DEF Add
<1> HIDE DEF i
<1>3. /\ Hypos(i) = Hypos(s) \cup {h}
      /\ h \notin Hypos(s)
      /\ \A g \in Hypos(s) : i.m_hypos[g] = s.m_hypos[g]
      /\ i.m_hypos[h] = arcs
  <2>1. Hypos(i) = Hypos(s) \cup {h}
    BY <1>1 DEF Hypos, With
  <2>2. h \notin Hypos(s)
    BY DEF Recombine
  <2>3. QED
    BY <1>1, <2>1, <2>2 DEF Hypos, With
<1>4. Members(i) \subseteq Members(s) \cup arcs \cup {h}
  <2>1. ASSUME NEW x \in Members(i) PROVE x \in Members(s) \cup arcs \cup {h}
    <3>1. CASE x \in Hypos(i)
      BY <1>3, <3>1 DEF Members
    <3>2. ASSUME NEW g \in Hypos(i), x \in i.m_hypos[g]
          PROVE  x \in Members(s) \cup arcs \cup {h}
      BY <1>3, <3>2 DEF Members
    <3>3. QED
      BY <3>1, <3>2 DEF Members
  <2>2. QED
    BY <2>1
<1>5. StackGood(i, k)
  <2>1. IsFiniteSet(Hypos(i))
    BY <1>3, FS_AddElement DEF StackGood
  <2>2. \A x \in Members(i) : x \in Hypotheses /\ Covered(x) = k
    BY <1>4 DEF StackGood
  <2>3. \A f, g \in Hypos(i) : Recombine(f, g) => f = g
    BY <1>3 DEF StackGood, Recombine
  <2>4. \A g \in Hypos(i) : ArcsGood(i.m_hypos[g], g)
    BY <1>3 DEF StackGood
  <2>5. QED
    BY <2>1, <2>2, <2>3, <2>4 DEF StackGood
<1>6. DOMAIN t = Fields /\ Shrunk(t, i)
  <2>1. Shrunk(i, i)
    BY DEF Shrunk
  <2>2. QED
    BY <1>1, <1>2, <2>1, PruneShrinks
<1>7. QED
  BY <1>4, <1>5, <1>6, ShrunkGood

(* A new hypothesis comes to a stack. *)
LEMMA AddPruneGood ==
  ASSUME InputsKept, NEW s, DOMAIN s = Fields, NEW k, StackGood(s, k),
         NEW h \in Hypotheses, Covered(h) = k, h \notin Members(s),
         NEW t \in AddPrune(s, h)
  PROVE  /\ DOMAIN t = Fields /\ StackGood(t, k)
         /\ Members(t) \subseteq Members(s) \cup {h}
<1> DEFINE existing == CHOOSE g \in Hypos(s) : Recombine(g, h)
           rest     == [s EXCEPT !.m_hypos = Without(@, {existing})]
<1>1. CASE t = s
  BY <1>1
<1>2. CASE (\A g \in Hypos(s) : ~Recombine(g, h)) /\ t \in Add(s, h, {})
  <2>1. ArcsGood({}, h)
    BY FS_EmptySet DEF ArcsGood
  <2>2. QED
    BY <1>2, <2>1, AddGood
<1>3. CASE ~ \A g \in Hypos(s) : ~Recombine(g, h)
  <2> DEFINE arcs == s.m_hypos[existing]
  <2>1. existing \in Hypos(s) /\ Recombine(existing, h)
    BY <1>3
  <2>2. ArcsGood(arcs, existing)
    BY <2>1 DEF StackGood
  <2>3. existing # h /\ h \notin arcs
    BY <2>1 DEF Members
  <2>4. /\ \A a \in arcs \cup {existing} : a \in Members(s) /\ a \in Hypotheses /\ Covered(a) = k
        /\ \A a \in arcs : Recombine(a, existing)
    BY <2>1, <2>2 DEF Members, StackGood, ArcsGood
  <2>5. \A a \in arcs \cup {existing} : Recombine(a, h)
    BY <2>1, <2>4 DEF Recombine
  <2>6. \/ \E losers : /\ losers = {} \/ losers = arcs \cup {existing}
                       /\ GetTotalScore(h) > GetTotalScore(existing)
                       /\ t \in Add(rest, h, losers)
        \/ \E some : /\ some = arcs \/ some = arcs \cup {h}
                     /\ ~(GetTotalScore(h) > GetTotalScore(existing))
                     /\ t = [s EXCEPT !.m_hypos[existing] = some]
        \/ t = s
    <3>1. t \in IF TooBad(s, h) THEN {s}
                ELSE IF GetTotalScore(h) > GetTotalScore(existing)
                  THEN Add(rest, h,
                           IF param.nBestIsEnabled THEN AddArc({}, existing, arcs) ELSE {})
                  ELSE {[s EXCEPT !.m_hypos[existing] =
                            IF param.nBestIsEnabled THEN AddArc(@, h, {}) ELSE @]}
      BY <1>3, Zenon DEF AddPrune
    <3>2. AddArc({}, existing, arcs) = arcs \cup {existing}
      BY DEF AddArc
    <3>3. AddArc(arcs, h, {}) = arcs \cup {h}
      BY DEF AddArc
    <3> HIDE DEF rest, existing
    <3>4. CASE TooBad(s, h)
      BY <3>1, <3>4
    <3>5. CASE ~TooBad(s, h) /\ GetTotalScore(h) > GetTotalScore(existing)
      BY <3>1, <3>2, <3>5
    <3>6. CASE ~TooBad(s, h) /\ ~(GetTotalScore(h) > GetTotalScore(existing))
      <4> DEFINE some == IF param.nBestIsEnabled THEN AddArc(arcs, h, {}) ELSE arcs
      <4>1. t = [s EXCEPT !.m_hypos[existing] =
                   IF param.nBestIsEnabled THEN AddArc(@, h, {}) ELSE @]
        BY <3>1, <3>6
      <4>2. t = [s EXCEPT !.m_hypos[existing] = some]
        BY <4>1, <2>1 DEF Fields, Hypos
      <4>3. some = arcs \/ some = arcs \cup {h}
        BY <3>3
      <4> HIDE DEF some
      <4>4. QED
        BY <3>6, <4>2, <4>3
    <3>7. QED
      BY <3>4, <3>5, <3>6
  <2>7. ASSUME NEW losers, losers = {} \/ losers = arcs \cup {existing},
               GetTotalScore(h) > GetTotalScore(existing), t \in Add(rest, h, losers)
        PROVE  DOMAIN t = Fields /\ StackGood(t, k) /\ Members(t) \subseteq Members(s) \cup {h}
    <3>1. DOMAIN rest = Fields /\ rest.m_hypos = Without(s.m_hypos, {existing})
      BY DEF Fields
    <3> HIDE DEF existing, rest
    <3>2. Shrunk(rest, s) /\ Hypos(rest) = Hypos(s) \ {existing}
      BY <3>1 DEF Hypos, Without, Shrunk
    <3>3. StackGood(rest, k) /\ Members(rest) \subseteq Members(s)
      BY <3>2, ShrunkGood
    <3>4. \A g \in Hypos(rest) : ~Recombine(g, h)
      BY <2>1, <3>2 DEF StackGood, Recombine
    <3>5. ArcsGood(losers, h)
      <4>1. IsFiniteSet(losers)
        BY <2>2, <2>7, FS_EmptySet, FS_AddElement DEF ArcsGood
      <4>2. ASSUME NEW a \in losers PROVE GetTotalScore(a) <= GetTotalScore(h)
        <5>1. a \in arcs \cup {existing}
          BY <2>7
        <5>2. GetTotalScore(a) <= GetTotalScore(existing)
          <6>1. CASE a = existing
            BY <2>4, <6>1, ScoresTyped
          <6>2. CASE a \in arcs
            BY <2>2, <6>2 DEF ArcsGood
          <6>3. QED
            BY <5>1, <6>1, <6>2
        <5>3. /\ GetTotalScore(a) \in Int /\ GetTotalScore(existing) \in Int
              /\ GetTotalScore(h) \in Int
          BY <2>4, <5>1, ScoresTyped
        <5>4. QED
          BY <2>7, <5>2, <5>3
      <4>3. QED
        BY <2>3, <2>5, <2>7, <4>1, <4>2 DEF ArcsGood
    <3>6. \A a \in losers : a \in Hypotheses /\ Covered(a) = k /\ a \in Members(s)
      BY <2>4, <2>7
    <3>7. /\ DOMAIN t = Fields /\ StackGood(t, k)
          /\ Members(t) \subseteq Members(rest) \cup losers \cup {h}
      BY <2>7, <3>1, <3>3, <3>4, <3>5, <3>6, AddGood
    <3>8. QED
      BY <3>3, <3>6, <3>7
  <2>8. ASSUME NEW some, some = arcs \/ some = arcs \cup {h},
               ~(GetTotalScore(h) > GetTotalScore(existing)),
               t = [s EXCEPT !.m_hypos[existing] = some]
        PROVE  DOMAIN t = Fields /\ StackGood(t, k) /\ Members(t) \subseteq Members(s) \cup {h}
    <3>1. DOMAIN t = Fields /\ t.m_hypos = [s.m_hypos EXCEPT ![existing] = some]
      BY <2>8 DEF Fields
    <3> HIDE DEF existing
    <3>2. /\ Hypos(t) = Hypos(s)
          /\ \A g \in Hypos(s) : t.m_hypos[g] = IF g = existing THEN some ELSE s.m_hypos[g]
      BY <3>1 DEF Hypos
    <3>3. Members(t) \subseteq Members(s) \cup {h}
      <4>1. ASSUME NEW x \in Members(t) PROVE x \in Members(s) \cup {h}
        <5>1. CASE x \in Hypos(t)
          BY <3>2, <5>1 DEF Members
        <5>2. ASSUME NEW g \in Hypos(s), x \in t.m_hypos[g] PROVE x \in Members(s) \cup {h}
          <6>1. CASE g = existing
            BY <2>4, <2>8, <3>2, <5>2, <6>1
          <6>2. CASE g # existing
            BY <3>2, <5>2, <6>2 DEF Members
          <6>3. QED
            BY <6>1, <6>2
        <5>3. QED
          BY <3>2, <5>1, <5>2 DEF Members
      <4>2. QED
        BY <4>1
    <3>4. ArcsGood(some, existing)
      <4>1. IsFiniteSet(some)
        BY <2>2, <2>8, FS_AddElement DEF ArcsGood
      <4>2. GetTotalScore(h) <= GetTotalScore(existing)
        BY <2>4, <2>8, ScoresTyped
      <4>3. Recombine(h, existing)
        BY <2>1 DEF Recombine
      <4>4. QED
        BY <2>2, <2>3, <2>8, <4>1, <4>2, <4>3 DEF ArcsGood
    <3>5. \A g \in Hypos(t) : ArcsGood(t.m_hypos[g], g)
      BY <3>2, <3>4 DEF StackGood
    <3>6. QED
      BY <3>1, <3>2, <3>3, <3>5 DEF StackGood
  <2> HIDE DEF existing, rest, arcs
  <2>9. QED
    BY <1>1, <2>6, <2>7, <2>8
<1>4. \/ t = s
      \/ (\A g \in Hypos(s) : ~Recombine(g, h)) /\ t \in Add(s, h, {})
      \/ ~ \A g \in Hypos(s) : ~Recombine(g, h)
  BY Zenon DEF AddPrune
<1>5. QED
  BY <1>1, <1>2, <1>3, <1>4

-------------------------------------------------------------------------
(* The order of a stack. *)

FullKey(h) == RecombineKey(h)[1] \o RecombineKey(h)[2]

LEMMA KeyTyped ==
  ASSUME InputsKept, NEW h \in Hypotheses
  PROVE  /\ FullKey(h) \in Seq(Int)
         /\ Len(FullKey(h)) = source.size + IF Evaluated(h) THEN 2 ELSE 0
<1> DEFINE bits == [p \in 1 .. source.size |-> IF p - 1 \in GetWordsBitmap(h) THEN 1 ELSE 0]
           states == FFStates(h)
           n == source.size
<1>1. n \in Nat
  BY InputsTyped
<1>2. bits \in Seq(Int) /\ Len(bits) = n
  <2>1. bits \in [1 .. n -> Int]
    OBVIOUS
  <2> HIDE DEF bits
  <2>2. QED
    BY <1>1, <2>1
<1>3. states \in Seq(Int) /\ Len(states) = IF Evaluated(h) THEN 2 ELSE 0
  <2>1. LastEnd(h) \in Int /\ LastWord(h) \in Int
    BY LastTyped
  <2>2. QED
    BY <2>1 DEF FFStates
<1>4. FullKey(h) = bits \o states
  BY DEF FullKey, RecombineKey
<1> HIDE DEF bits, states
<1>5. FullKey(h) \in Seq(Int) /\ Len(FullKey(h)) = Len(bits) + Len(states)
  BY <1>2, <1>3, <1>4, ConcatProperties
<1>6. QED
  BY <1>2, <1>3, <1>5

Lex(a, b) == \E i \in DOMAIN a : a[i] < b[i] /\ \A j \in 1 .. i - 1 : a[j] = b[j]

LEMMA LexOrder ==
  ASSUME NEW a \in Seq(Int), NEW b \in Seq(Int), NEW c \in Seq(Int),
         Len(a) = Len(b), Len(b) = Len(c)
  PROVE  ~Lex(a, a) /\ (Lex(a, b) /\ Lex(b, c) => Lex(a, c))
<1>1. /\ Len(a) \in Nat /\ DOMAIN a = 1 .. Len(a) /\ DOMAIN b = 1 .. Len(a)
      /\ \A i \in 1 .. Len(a) : a[i] \in Int /\ b[i] \in Int /\ c[i] \in Int
  OBVIOUS
<1>2. ~Lex(a, a)
  BY <1>1 DEF Lex
<1>3. ASSUME Lex(a, b), Lex(b, c) PROVE Lex(a, c)
  <2>1. PICK i \in 1 .. Len(a) : a[i] < b[i] /\ \A m \in 1 .. i - 1 : a[m] = b[m]
    BY <1>1, <1>3 DEF Lex
  <2>2. PICK j \in 1 .. Len(a) : b[j] < c[j] /\ \A m \in 1 .. j - 1 : b[m] = c[m]
    BY <1>1, <1>3 DEF Lex
  <2>3. CASE i <= j
    <3>1. a[i] < c[i]
      <4>1. CASE i = j
        BY <1>1, <2>1, <2>2, <4>1
      <4>2. CASE i # j
        <5>1. b[i] = c[i]
          BY <2>2, <2>3, <4>2
        <5>2. QED
          BY <2>1, <5>1
      <4>3. QED
        BY <4>1, <4>2
    <3>2. \A m \in 1 .. i - 1 : a[m] = c[m]
      BY <2>1, <2>2, <2>3
    <3>3. QED
      BY <1>1, <3>1, <3>2 DEF Lex
  <2>4. CASE j < i
    <3>1. a[j] = b[j]
      BY <2>1, <2>4
    <3>2. \A m \in 1 .. j - 1 : a[m] = c[m]
      BY <2>1, <2>2, <2>4
    <3>3. QED
      BY <1>1, <2>2, <3>1, <3>2 DEF Lex
  <2>5. QED
    BY <2>3, <2>4
<1>4. QED
  BY <1>2, <1>3

(* Only the empty hypothesis covers nothing; none covers more than there   *)
(* is. *)
LEMMA CoveredTyped ==
  ASSUME InputsKept, NEW h \in Hypotheses
  PROVE  /\ IsFiniteSet(GetWordsBitmap(h)) /\ GetWordsBitmap(h) \subseteq 0 .. source.size - 1
         /\ Covered(h) \in 0 .. source.size
         /\ Covered(h) = 0 <=> h = << >>
<1>1. /\ Len(h) \in Nat /\ DOMAIN h = 1 .. Len(h)
      /\ \A k \in 1 .. Len(h) : h[k] \in DOMAIN source.options
  BY DEF Hypotheses
<1>2. source.size \in Nat
  BY InputsTyped
<1>3. GetWordsBitmap(h) \subseteq 0 .. source.size - 1
  BY <1>1, InputsTyped DEF GetWordsBitmap
<1>4. IsFiniteSet(0 .. source.size - 1) /\ Cardinality(0 .. source.size - 1) = source.size
  <2>1. 0 \in Int /\ source.size - 1 \in Int
    BY <1>2
  <2>2. /\ IsFiniteSet(0 .. source.size - 1)
        /\ Cardinality(0 .. source.size - 1)
             = IF 0 > source.size - 1 THEN 0 ELSE source.size - 1 - 0 + 1
    BY <2>1, FS_Interval
  <2>3. QED
    BY <1>2, <2>2
<1>5. /\ IsFiniteSet(GetWordsBitmap(h))
      /\ Cardinality(GetWordsBitmap(h)) <= source.size
  BY <1>3, <1>4, FS_Subset
<1>6. Covered(h) \in 0 .. source.size
  BY <1>2, <1>5, FS_CardinalityType DEF Covered
<1>7. CASE h = << >>
  <2>1. GetWordsBitmap(h) = {}
    BY <1>7 DEF GetWordsBitmap
  <2>2. QED
    BY <1>3, <1>5, <1>6, <1>7, <2>1, FS_EmptySet DEF Covered
<1>8. CASE h # << >>
  <2>1. 1 \in DOMAIN h /\ h[1] \in DOMAIN source.options
    BY <1>1, <1>8
  <2>2. Option(h[1]).from \in Option(h[1]).from .. Option(h[1]).to
    BY <2>1, InputsTyped
  <2>3. GetWordsBitmap(h) # {}
    BY <2>1, <2>2 DEF GetWordsBitmap
  <2>4. Covered(h) # 0
    BY <1>5, <2>3, FS_EmptySet DEF Covered
  <2>5. QED
    BY <1>3, <1>5, <1>6, <1>8, <2>4
<1>9. QED
  BY <1>7, <1>8

(* Among hypotheses that cover equally many words it is an order. *)
LEMMA LessOrder ==
  ASSUME InputsKept, NEW f \in Hypotheses, NEW g \in Hypotheses, NEW h \in Hypotheses,
         Covered(f) = Covered(g), Covered(g) = Covered(h)
  PROVE  /\ ~RecombineLess(f, f)
         /\ RecombineLess(f, g) /\ RecombineLess(g, h) => RecombineLess(f, h)
<1>1. \A x, y : RecombineLess(x, y) <=> Lex(FullKey(x), FullKey(y))
  BY DEF RecombineLess, Lex, FullKey
<1>2. (Evaluated(f) <=> Evaluated(g)) /\ (Evaluated(g) <=> Evaluated(h))
  BY CoveredTyped DEF Evaluated, EmptyHypothesis
<1>3. /\ FullKey(f) \in Seq(Int) /\ FullKey(g) \in Seq(Int) /\ FullKey(h) \in Seq(Int)
      /\ Len(FullKey(f)) = Len(FullKey(g)) /\ Len(FullKey(g)) = Len(FullKey(h))
  BY <1>2, KeyTyped
<1>4. QED
  BY <1>1, <1>3, LexOrder

(* An extension covers more; its predecessor is what it was made from. *)
LEMMA ExtensionOf ==
  ASSUME InputsKept, NEW h \in Hypotheses, NEW i \in Extensions(h)
  PROVE  /\ Append(h, i) \in Hypotheses /\ Append(h, i) # << >>
         /\ Front(Append(h, i)) = h /\ Last(Append(h, i)) = i
         /\ Covered(h) < Covered(Append(h, i)) /\ Covered(Append(h, i)) \in 0 .. source.size
<1> DEFINE S == DOMAIN source.options
           r == Append(h, i)
<1>1. i \in S /\ GetWordsBitmap(h) \cap Option(i).from .. Option(i).to = {}
  BY DEF Extensions, MayExtend, Extends
<1>2. /\ r \in Hypotheses /\ Last(r) = i
      /\ GetWordsBitmap(r) = GetWordsBitmap(h) \cup Option(i).from .. Option(i).to
  BY <1>1, Coverage
<1>3. r # << >> /\ Front(r) = h
  <2>1. h \in Seq(S)
    BY DEF Hypotheses
  <2> HIDE DEF S
  <2>2. /\ Len(r) = Len(h) + 1 /\ Len(h) \in Nat
        /\ \A k \in 1 .. Len(h) : r[k] = h[k]
    BY <2>1
  <2>3. r \in Seq(S)
    BY <1>1, <2>1
  <2>4. SubSeq(r, 1, Len(r) - 1) = h
    BY <1>1, <2>1
  <2>5. QED
    BY <2>2, <2>4 DEF Front
<1>4. Option(i).from \in GetWordsBitmap(r) \ GetWordsBitmap(h)
  <2>1. Option(i).from \in Option(i).from .. Option(i).to
    BY <1>1, InputsTyped
  <2>2. QED
    BY <1>1, <1>2, <2>1
<1>5. Covered(h) < Covered(r)
  <2>1. IsFiniteSet(GetWordsBitmap(r)) /\ IsFiniteSet(GetWordsBitmap(h))
    BY <1>2, CoveredTyped
  <2>2. GetWordsBitmap(h) \subseteq GetWordsBitmap(r) /\ GetWordsBitmap(h) # GetWordsBitmap(r)
    BY <1>2, <1>4
  <2>3. /\ Cardinality(GetWordsBitmap(h)) <= Cardinality(GetWordsBitmap(r))
        /\ Cardinality(GetWordsBitmap(h)) # Cardinality(GetWordsBitmap(r))
    BY <2>1, <2>2, FS_Subset
  <2>4. Covered(h) \in Int /\ Covered(r) \in Int
    BY <1>2, CoveredTyped
  <2>5. QED
    BY <2>3, <2>4 DEF Covered
<1>6. QED
  BY <1>2, <1>3, <1>5, CoveredTyped

(* The predecessor of a hypothesis is one. *)
LEMMA FrontTyped ==
  ASSUME NEW h \in Hypotheses
  PROVE  Front(h) \in Hypotheses
         /\ (h # << >> => Last(h) \in DOMAIN source.options /\ h = Append(Front(h), Last(h))
                          /\ Len(h) = Len(Front(h)) + 1 /\ Len(Front(h)) \in Nat)
<1> DEFINE S == DOMAIN source.options
<1>1. h \in Seq(S) /\ Len(h) \in Nat
  BY DEF Hypotheses
<1> HIDE DEF S
<1>2. CASE h = << >>
  <2>1. Front(h) = << >>
    BY <1>2 DEF Front
  <2>2. QED
    BY <1>2, <2>1 DEF Hypotheses
<1>3. CASE h # << >>
  <2>1. Front(h) = SubSeq(h, 1, Len(h) - 1) /\ Last(h) = h[Len(h)]
    BY DEF Front, Last
  <2>2. SubSeq(h, 1, Len(h) - 1) \in Seq(S) /\ Len(SubSeq(h, 1, Len(h) - 1)) = Len(h) - 1
    BY <1>1, <1>3
  <2>3. h[Len(h)] \in S
    BY <1>1, <1>3
  <2>4. h = Append(SubSeq(h, 1, Len(h) - 1), h[Len(h)])
    BY <1>1, <1>3
  <2>5. Len(h) - 1 \in Nat
    BY <1>1, <1>3
  <2>6. QED
    BY <1>1, <2>1, <2>2, <2>3, <2>4, <2>5 DEF Hypotheses, S
<1>4. QED
  BY <1>2, <1>3

-------------------------------------------------------------------------
(* The stacks and arcs as a graph. *)

(* What x was made from is on its stack, which is done or at hand; and x   *)
(* is not made a second time: it is not among what is still to be done.    *)
Linked(x, coll, stack, hypo, rest) ==
  x # EmptyHypothesis =>
    /\ Covered(Front(x)) <= stack /\ Covered(Front(x)) < Covered(x)
    /\ Front(x) \in Hypos(coll[Covered(Front(x))])
    /\ Covered(Front(x)) = stack =>
         /\ hypo # NoHypothesis
         /\ \/ Front(x) = hypo /\ Last(x) \notin rest
            \/ RecombineLess(Front(x), hypo)

GraphGood(coll, stack, hypo, rest) ==
  /\ coll = [k \in 0 .. source.size |-> coll[k]]
  /\ \A k \in 0 .. source.size :
       /\ DOMAIN coll[k] = Fields /\ StackGood(coll[k], k)
       /\ \A x \in Members(coll[k]) : Linked(x, coll, stack, hypo, rest)
  /\ coll[0].m_hypos = [x \in {EmptyHypothesis} |-> {}]
  /\ stack \in Nat
  /\ hypo # NoHypothesis => stack \in 0 .. source.size /\ hypo \in Hypos(coll[stack])
  /\ hypo = NoHypothesis => rest = {}

(* Linked through a change of the stacks that leaves alone those that      *)
(* something has been made from. *)
LEMMA LinkedStill ==
  ASSUME NEW x, NEW coll, NEW stack, NEW hypo, NEW rest, Linked(x, coll, stack, hypo, rest),
         NEW coll2, NEW rest2, rest2 \subseteq rest,
         x # EmptyHypothesis =>
           coll2[Covered(Front(x))] = coll[Covered(Front(x))]
  PROVE  Linked(x, coll2, stack, hypo, rest2)
BY DEF Linked

(* A stack is cut back when nothing has been made from it. *)
LEMMA CutGood ==
  ASSUME InputsKept, NEW coll, NEW k \in 0 .. source.size, GraphGood(coll, k, NoHypothesis, {}),
         NEW t, DOMAIN t = Fields, Shrunk(t, coll[k]),
         k = 0 => t.m_hypos = coll[k].m_hypos
  PROVE  GraphGood([coll EXCEPT ![k] = t], k, NoHypothesis, {})
<1> DEFINE new == [coll EXCEPT ![k] = t]
<1>1. /\ coll = [j \in 0 .. source.size |-> coll[j]]
      /\ source.size \in Nat
      /\ \A j \in 0 .. source.size :
           /\ DOMAIN coll[j] = Fields /\ StackGood(coll[j], j)
           /\ \A x \in Members(coll[j]) : Linked(x, coll, k, NoHypothesis, {})
      /\ coll[0].m_hypos = [x \in {EmptyHypothesis} |-> {}]
  BY InputsTyped DEF GraphGood
<1>2. /\ new = [j \in 0 .. source.size |-> new[j]]
      /\ \A j \in 0 .. source.size : new[j] = IF j = k THEN t ELSE coll[j]
  BY <1>1
<1> HIDE DEF new
<1>3. StackGood(t, k) /\ Members(t) \subseteq Members(coll[k])
  BY <1>1, ShrunkGood
<1>4. ASSUME NEW j \in 0 .. source.size
      PROVE  /\ DOMAIN new[j] = Fields /\ StackGood(new[j], j)
             /\ \A x \in Members(new[j]) : Linked(x, new, k, NoHypothesis, {})
  <2>1. DOMAIN new[j] = Fields /\ StackGood(new[j], j) /\ Members(new[j]) \subseteq Members(coll[j])
    BY <1>1, <1>2, <1>3
  <2>2. ASSUME NEW x \in Members(new[j]) PROVE Linked(x, new, k, NoHypothesis, {})
    <3>1. Linked(x, coll, k, NoHypothesis, {}) /\ x \in Hypotheses
      BY <1>1, <2>1 DEF StackGood
    <3>2. ASSUME x # EmptyHypothesis
          PROVE  new[Covered(Front(x))] = coll[Covered(Front(x))]
      <4>1. Covered(Front(x)) <= k /\ Covered(Front(x)) # k
        BY <3>1, <3>2 DEF Linked
      <4>2. Front(x) \in Hypotheses
        BY <3>1, <3>2, FrontTyped
      <4>3. Covered(Front(x)) \in 0 .. source.size
        BY <4>2, CoveredTyped
      <4>4. QED
        BY <1>2, <4>1, <4>3
    <3>3. QED
      BY <3>1, <3>2, LinkedStill
  <2>3. QED
    BY <2>1, <2>2
<1>5. new[0].m_hypos = [x \in {EmptyHypothesis} |-> {}]
  <2>1. 0 \in 0 .. source.size
    BY <1>1
  <2>2. QED
    BY <1>1, <1>2, <2>1
<1>6. QED
  BY <1>2, <1>4, <1>5 DEF GraphGood, new

(* The next hypothesis comes later in the order. *)
LEMMA TakenUpGood ==
  ASSUME InputsKept, NEW coll, NEW k \in 0 .. source.size, NEW hypo,
         GraphGood(coll, k, hypo, {}),
         NEW h \in Hypos(coll[k]), hypo # NoHypothesis => RecombineLess(hypo, h),
         NEW rest
  PROVE  GraphGood(coll, k, h, rest)
<1>1. h \in Hypotheses /\ h # NoHypothesis /\ Covered(h) = k
  <2>1. h \in Hypotheses /\ Covered(h) = k
    BY DEF GraphGood, StackGood, Members
  <2>2. DOMAIN source.options \subseteq Nat
    BY InputsTyped
  <2>3. h \in Seq(Nat)
    BY <2>1, <2>2 DEF Hypotheses
  <2>4. QED
    BY <2>1, <2>3, NoHypothesisAssumption
<1>2. ASSUME NEW j \in 0 .. source.size, NEW x \in Members(coll[j])
      PROVE  Linked(x, coll, k, h, rest)
  <2>1. Linked(x, coll, k, hypo, {}) /\ x \in Hypotheses
    BY DEF GraphGood, StackGood
  <2>2. ASSUME x # EmptyHypothesis, Covered(Front(x)) = k
        PROVE  RecombineLess(Front(x), h)
    <3>1. /\ hypo # NoHypothesis
          /\ Front(x) = hypo \/ RecombineLess(Front(x), hypo)
          /\ Front(x) \in Hypos(coll[k])
      BY <2>1, <2>2 DEF Linked
    <3>2. hypo \in Hypos(coll[k]) /\ RecombineLess(hypo, h)
      BY <3>1 DEF GraphGood
    <3>3. /\ hypo \in Hypotheses /\ Covered(hypo) = k
          /\ Front(x) \in Hypotheses /\ Covered(Front(x)) = k
      BY <3>1, <3>2 DEF GraphGood, StackGood, Members
    <3>4. QED
      BY <1>1, <3>1, <3>2, <3>3, LessOrder
  <2>3. QED
    BY <1>1, <2>1, <2>2 DEF Linked
<1>3. QED
  BY <1>1, <1>2 DEF GraphGood

(* No more hypotheses on this stack. *)
LEMMA StackDoneGood ==
  ASSUME InputsKept, NEW coll, NEW k \in Nat, NEW hypo, GraphGood(coll, k, hypo, {})
  PROVE  GraphGood(coll, k + 1, NoHypothesis, {})
<1>1. ASSUME NEW j \in 0 .. source.size, NEW x \in Members(coll[j])
      PROVE  Linked(x, coll, k + 1, NoHypothesis, {})
  <2>1. Linked(x, coll, k, hypo, {}) /\ x \in Hypotheses
    BY DEF GraphGood, StackGood
  <2>2. x # EmptyHypothesis => Covered(Front(x)) \in Int
    BY <2>1, FrontTyped, CoveredTyped
  <2>3. QED
    BY <2>1, <2>2 DEF Linked
<1>2. QED
  BY <1>1 DEF GraphGood

(* An extension was not made before. *)
LEMMA ExtensionIsNew ==
  ASSUME InputsKept, NEW coll, NEW k, NEW hypo, NEW rest, GraphGood(coll, k, hypo, rest),
         hypo # NoHypothesis, NEW i \in rest, i \in Extensions(hypo)
  PROVE  LET h == Append(hypo, i)
         IN  /\ h \in Hypotheses /\ h # << >> /\ Front(h) = hypo /\ Last(h) = i
             /\ Covered(hypo) = k /\ k < Covered(h) /\ Covered(h) \in 0 .. source.size
             /\ h \notin Members(coll[Covered(h)])
<1> DEFINE h == Append(hypo, i)
<1>1. /\ \A j \in 0 .. source.size :
           /\ StackGood(coll[j], j)
           /\ \A x \in Members(coll[j]) : Linked(x, coll, k, hypo, rest)
      /\ k \in 0 .. source.size /\ hypo \in Hypos(coll[k])
  BY DEF GraphGood
<1>2. hypo \in Hypotheses /\ Covered(hypo) = k
  BY <1>1 DEF StackGood, Members
<1>3. /\ h \in Hypotheses /\ h # << >> /\ Front(h) = hypo /\ Last(h) = i
      /\ k < Covered(h) /\ Covered(h) \in 0 .. source.size
  BY <1>2, ExtensionOf
<1> HIDE DEF h
<1>4. h \notin Members(coll[Covered(h)])
  <2>1. SUFFICES ASSUME h \in Members(coll[Covered(h)]) PROVE FALSE
    OBVIOUS
  <2>2. Linked(h, coll, k, hypo, rest)
    BY <1>1, <1>3, <2>1
  <2>3. RecombineLess(hypo, hypo)
    BY <1>2, <1>3, <2>2 DEF Linked, EmptyHypothesis
  <2>4. QED
    BY <1>2, <2>3, LessOrder
<1>5. QED
  BY <1>2, <1>3, <1>4 DEF h

(* It may come to its stack. *)
LEMMA ExtendedGood ==
  ASSUME InputsKept, NEW coll, NEW k, NEW hypo, NEW rest, GraphGood(coll, k, hypo, rest),
         hypo # NoHypothesis, NEW i \in rest, i \in Extensions(hypo),
         NEW t, t \in AddPrune(coll[Covered(Append(hypo, i))], Append(hypo, i))
  PROVE  GraphGood([coll EXCEPT ![Covered(Append(hypo, i))] = t], k, hypo, rest \ {i})
<1> DEFINE h == Append(hypo, i)
           n == Covered(h)
           new == [coll EXCEPT ![n] = t]
<1>1. /\ coll = [j \in 0 .. source.size |-> coll[j]]
      /\ \A j \in 0 .. source.size :
           /\ DOMAIN coll[j] = Fields /\ StackGood(coll[j], j)
           /\ \A x \in Members(coll[j]) : Linked(x, coll, k, hypo, rest)
      /\ coll[0].m_hypos = [x \in {EmptyHypothesis} |-> {}]
      /\ k \in 0 .. source.size /\ hypo \in Hypos(coll[k])
      /\ source.size \in Nat
  BY InputsTyped DEF GraphGood
<1>2. hypo \in Hypotheses /\ Covered(hypo) = k
  BY <1>1 DEF StackGood, Members
<1>3. /\ h \in Hypotheses /\ h # << >> /\ Front(h) = hypo /\ Last(h) = i
      /\ k < n /\ n \in 0 .. source.size
  BY ExtensionIsNew
<1>6. h \notin Members(coll[n])
  BY ExtensionIsNew
<1>4. t \in AddPrune(coll[n], h)
  OBVIOUS
<1>5. /\ new = [j \in 0 .. source.size |-> new[j]]
      /\ \A j \in 0 .. source.size : new[j] = IF j = n THEN t ELSE coll[j]
  BY <1>1, <1>3
<1> HIDE DEF new, h, n
<1>a. /\ k \in 0 .. source.size /\ 0 \in 0 .. source.size
      /\ k # n /\ n # 0
      /\ \A m \in 0 .. source.size : m <= k => m # n
  BY <1>1, <1>3
<1>b. new[k] = coll[k] /\ new[0] = coll[0]
  BY <1>a, <1>5
<1>7. DOMAIN t = Fields /\ StackGood(t, n) /\ Members(t) \subseteq Members(coll[n]) \cup {h}
  <2>1. DOMAIN coll[n] = Fields /\ StackGood(coll[n], n) /\ Covered(h) = n
    BY <1>1, <1>3 DEF n
  <2>2. QED
    BY <1>3, <1>4, <1>6, <2>1, AddPruneGood
<1>8. ASSUME NEW j \in 0 .. source.size
      PROVE  /\ DOMAIN new[j] = Fields /\ StackGood(new[j], j)
             /\ \A x \in Members(new[j]) : Linked(x, new, k, hypo, rest \ {i})
  <2>1. /\ DOMAIN new[j] = Fields /\ StackGood(new[j], j)
        /\ Members(new[j]) \subseteq Members(coll[j]) \cup {h}
    BY <1>1, <1>5, <1>7
  <2>2. ASSUME NEW x \in Members(coll[j]) PROVE Linked(x, new, k, hypo, rest \ {i})
    <3>1. Linked(x, coll, k, hypo, rest) /\ x \in Hypotheses
      BY <1>1 DEF StackGood
    <3>2. ASSUME x # EmptyHypothesis
          PROVE  new[Covered(Front(x))] = coll[Covered(Front(x))]
      <4>1. Covered(Front(x)) <= k
        BY <3>1, <3>2 DEF Linked
      <4>2. Front(x) \in Hypotheses
        BY <3>1, <3>2, FrontTyped
      <4>3. Covered(Front(x)) \in 0 .. source.size
        BY <4>2, CoveredTyped
      <4>4. QED
        BY <1>a, <1>5, <4>1, <4>3
    <3>3. QED
      BY <3>1, <3>2, LinkedStill
  <2>3. Linked(h, new, k, hypo, rest \ {i})
    <3>2. Front(h) = hypo /\ Last(h) = i /\ Covered(Front(h)) = k /\ k < Covered(h)
      BY <1>2, <1>3 DEF n
    <3>3. hypo \in Hypos(new[k]) /\ k <= k
      BY <1>1, <1>b
    <3>4. QED
      BY <3>2, <3>3 DEF Linked
  <2>4. QED
    BY <2>1, <2>2, <2>3
<1>9. new[0].m_hypos = [x \in {EmptyHypothesis} |-> {}]
  BY <1>1, <1>b
<1>10. hypo \in Hypos(new[k])
  BY <1>1, <1>b
<1>11. QED
  BY <1>1, <1>5, <1>8, <1>9, <1>10 DEF GraphGood, new, n, h

(* One extension less to be made. *)
LEMMA NotExtendedGood ==
  ASSUME NEW coll, NEW k, NEW hypo, NEW rest, GraphGood(coll, k, hypo, rest), NEW rest2,
         rest2 \subseteq rest
  PROVE  GraphGood(coll, k, hypo, rest2)
<1>1. ASSUME NEW j \in 0 .. source.size, NEW x \in Members(coll[j])
      PROVE  Linked(x, coll, k, hypo, rest2)
  <2>1. Linked(x, coll, k, hypo, rest)
    BY DEF GraphGood
  <2>2. QED
    BY <2>1, LinkedStill
<1>2. QED
  BY <1>1 DEF GraphGood

-------------------------------------------------------------------------
(* Through the search. *)

LinksSound == GraphGood(m_hypoStackColl, iterStack, iterHypo, todo)

(* As long as the inputs stay, nothing about a hypothesis changes. *)
LEMMA WorthStays ==
  ASSUME UNCHANGED inputVars
  PROVE  /\ source' = source /\ Hypotheses' = Hypotheses
         /\ \A h : GetTotalScore(h)' = GetTotalScore(h) /\ Covered(h)' = Covered(h)
         /\ \A g, h : (Recombine(g, h) <=> Recombine(g, h)')
         /\ \A g : RecombineLess(g, iterHypo)' <=> RecombineLess(g, iterHypo')
<1>1. source' = source /\ param' = param /\ m_futureScore' = m_futureScore
  BY DEF inputVars
<1>2. Hypotheses' = Hypotheses
  BY <1>1 DEF Hypotheses
<1>3. \A h : Covered(h)' = Covered(h)
  BY <1>1 DEF Covered, GetWordsBitmap, Option
<1>4. \A h : GetTotalScore(h)' = GetTotalScore(h)
  BY <1>1 DEF GetTotalScore, Score, Gain, CalcFutureScore, Gaps, Positions, GetWordsBitmap,
     Option, LastEnd, LastWord, Evaluated, EarlyDiscarding
<1>5. \A g, h : (Recombine(g, h) <=> Recombine(g, h)')
  BY <1>1 DEF Recombine, RecombineKey, FFStates, Evaluated, EarlyDiscarding, LastEnd,
     LastWord, GetWordsBitmap, Option
<1>6. \A g : RecombineLess(g, iterHypo)' <=> RecombineLess(g, iterHypo')
  BY <1>1 DEF RecombineLess, RecombineKey, FFStates, Evaluated, EarlyDiscarding, LastEnd,
     LastWord, GetWordsBitmap, Option
<1>7. QED
  BY <1>1, <1>2, <1>3, <1>4, <1>5, <1>6

LEMMA LinksNext ==
  ASSUME UNCHANGED inputVars, GraphGood(m_hypoStackColl', iterStack', iterHypo', todo')
  PROVE  LinksSound'
<1>1. /\ source' = source /\ Hypotheses' = Hypotheses
      /\ \A h : GetTotalScore(h)' = GetTotalScore(h) /\ Covered(h)' = Covered(h)
      /\ \A g, h : (Recombine(g, h) <=> Recombine(g, h)')
      /\ \A g : RecombineLess(g, iterHypo)' <=> RecombineLess(g, iterHypo')
  BY WorthStays
<1>2. \A k \in 0 .. source.size : StackGood(m_hypoStackColl[k], k)'
  <2>1. \A k \in 0 .. source.size : StackGood(m_hypoStackColl'[k], k)
    BY DEF GraphGood
  <2>2. QED
    BY <1>1, <2>1 DEF StackGood, Members, Hypos, ArcsGood
<1>3. ASSUME NEW x
      PROVE  Linked(x, m_hypoStackColl', iterStack', iterHypo', todo')
               => Linked(x, m_hypoStackColl, iterStack, iterHypo, todo)'
  BY <1>1 DEF Linked, Hypos
<1>4. \A k \in 0 .. source.size : \A x \in Members(m_hypoStackColl'[k]) :
        Linked(x, m_hypoStackColl, iterStack, iterHypo, todo)'
  BY <1>3 DEF GraphGood
<1>5. QED
  BY <1>1, <1>2, <1>4 DEF LinksSound, GraphGood, Members, Hypos

(* A hypothesis is taken up, or the stack is done. *)
LEMMA VisitGood ==
  ASSUME InputsKept, iterStack \in 0 .. source.size, NEW coll, NEW hypo,
         GraphGood(coll, iterStack, hypo, {}),
         NEW hypos, hypos \subseteq Hypos(coll[iterStack]),
         hypo # NoHypothesis => \A h \in hypos : RecombineLess(hypo, h),
         Visit(hypos), m_hypoStackColl' = coll
  PROVE  GraphGood(m_hypoStackColl', iterStack', iterHypo', todo')
<1>1. CASE hypos = {}
  <2>1. iterHypo' = NoHypothesis /\ todo' = {} /\ iterStack' = iterStack + 1
    BY <1>1 DEF Visit
  <2>2. iterStack \in Nat
    BY InputsTyped
  <2>3. GraphGood(coll, iterStack + 1, NoHypothesis, {})
    BY <2>2, StackDoneGood
  <2>4. QED
    BY <2>1, <2>3
<1>2. CASE hypos # {}
  <2>1. PICK h \in hypos : iterHypo' = h /\ iterStack' = iterStack
    BY <1>2 DEF Visit
  <2>2. GraphGood(coll, iterStack, h, todo')
    BY <2>1, TakenUpGood
  <2>3. QED
    BY <2>1, <2>2
<1>3. QED
  BY <1>1, <1>2

LEMMA InitLinks == ASSUME Init PROVE LinksSound
<1>1. PICK c \in Cases :
        /\ source = c.source /\ param = c.param
        /\ m_reorderingConstraint = Constraint(source)
        /\ m_futureScore = FutureScoreMatrix(source)
        /\ m_hypoStackColl = [k \in 0 .. source.size |->
                                IF k = 0 THEN Inserted(EmptyStack, EmptyHypothesis, {})
                                         ELSE EmptyStack]
        /\ iterStack = 0 /\ iterHypo = NoHypothesis /\ todo = {}
  BY DEF Init, SearchInit
<1>2. InputsKept
  BY <1>1 DEF InputsKept
<1> DEFINE first == Inserted(EmptyStack, EmptyHypothesis, {})
           only == [x \in {EmptyHypothesis} |-> {}]
<1>3. /\ DOMAIN EmptyStack = Fields /\ Hypos(EmptyStack) = {} /\ Members(EmptyStack) = {}
      /\ EmptyStack.m_hypos = [x \in {} |-> 0]
  BY DEF EmptyStack, Fields, Hypos, None, Members
<1>4. DOMAIN first = Fields /\ first.m_hypos = only
  <2>1. first.m_hypos = With(EmptyStack.m_hypos, EmptyHypothesis, {})
    BY DEF Inserted
  <2>2. With([x \in {} |-> 0], EmptyHypothesis, {}) = only
    BY DEF With
  <2>3. QED
    BY <1>3, <2>1, <2>2 DEF Inserted, Fields
<1> HIDE DEF first
<1>5. Hypos(first) = {EmptyHypothesis} /\ Members(first) = {EmptyHypothesis}
  BY <1>4 DEF Hypos, Members
<1>6. EmptyHypothesis \in Hypotheses /\ Covered(EmptyHypothesis) = 0
  <2>1. EmptyHypothesis \in Hypotheses
    BY DEF EmptyHypothesis, Hypotheses
  <2>2. QED
    BY <1>2, <2>1, CoveredTyped DEF EmptyHypothesis
<1>7. StackGood(first, 0)
  <2>1. IsFiniteSet(Hypos(first))
    BY <1>5, FS_Singleton
  <2>2. ArcsGood(first.m_hypos[EmptyHypothesis], EmptyHypothesis)
    BY <1>4, FS_EmptySet DEF ArcsGood
  <2>3. QED
    BY <1>5, <1>6, <2>1, <2>2 DEF StackGood
<1>8. \A k : StackGood(EmptyStack, k)
  BY <1>3, FS_EmptySet DEF StackGood
<1>9. source.size \in Nat
  BY <1>2, InputsTyped
<1>10. m_hypoStackColl = [k \in 0 .. source.size |-> IF k = 0 THEN first ELSE EmptyStack]
  BY <1>1 DEF first
<1>11. ASSUME NEW k \in 0 .. source.size
       PROVE  /\ DOMAIN m_hypoStackColl[k] = Fields /\ StackGood(m_hypoStackColl[k], k)
              /\ \A x \in Members(m_hypoStackColl[k]) :
                   Linked(x, m_hypoStackColl, iterStack, iterHypo, todo)
  <2>1. CASE k = 0
    <3>1. m_hypoStackColl[k] = first
      BY <1>10, <2>1
    <3>2. QED
      BY <1>4, <1>5, <1>7, <2>1, <3>1 DEF Linked
  <2>2. CASE k # 0
    <3>1. m_hypoStackColl[k] = EmptyStack
      BY <1>10, <2>2
    <3>2. QED
      BY <1>3, <1>8, <3>1
  <2>3. QED
    BY <2>1, <2>2
<1>12. m_hypoStackColl[0].m_hypos = only
  <2>1. 0 \in 0 .. source.size
    BY <1>9
  <2>2. QED
    BY <1>4, <1>10, <2>1
<1>13. QED
  BY <1>1, <1>10, <1>11, <1>12 DEF LinksSound, GraphGood

LEMMA StartStackLinks == ASSUME IInv, LinksSound, StartStack PROVE LinksSound'
<1>1. PICK s \in PruneToSize(m_hypoStackColl[iterStack], param.maxHypoStackSize) :
        \E t \in CleanupArcList(s) :
          /\ m_hypoStackColl' = [m_hypoStackColl EXCEPT ![iterStack] = t]
          /\ Visit(Hypos(t))
  BY Zenon DEF StartStack
<1>2. PICK t \in CleanupArcList(s) :
        /\ m_hypoStackColl' = [m_hypoStackColl EXCEPT ![iterStack] = t]
        /\ Visit(Hypos(t))
  BY <1>1
<1>3. UNCHANGED inputVars /\ iterHypo = NoHypothesis
  BY DEF StartStack
<1>4. InputsKept /\ iterStack \in 0 .. source.size
  BY InputsTyped DEF StartStack, Over, IInv, HypothesisSound
<1> DEFINE k == iterStack
           old == m_hypoStackColl[k]
<1>5. GraphGood(m_hypoStackColl, k, NoHypothesis, {})
  BY <1>3 DEF LinksSound, GraphGood
<1>6. DOMAIN old = Fields /\ StackGood(old, k)
  BY <1>4, <1>5 DEF GraphGood
<1> HIDE DEF old
<1>7. DOMAIN s = Fields /\ Shrunk(s, old) /\ StackGood(s, k)
  BY <1>1, <1>6, PruneShrinks, ShrunkGood DEF old
<1>8. DOMAIN t = Fields /\ Shrunk(t, s)
  BY <1>2, <1>4, <1>7, CleanupShrinks
<1>9. Shrunk(t, old)
  BY <1>7, <1>8 DEF Shrunk
<1>10. k = 0 => t.m_hypos = old.m_hypos
  <2>1. SUFFICES ASSUME k = 0 PROVE t.m_hypos = old.m_hypos
    OBVIOUS
  <2>2. old.m_hypos = [x \in {EmptyHypothesis} |-> {}]
    BY <1>5, <2>1 DEF GraphGood, old
  <2>3. Hypos(old) = {EmptyHypothesis} /\ Cardinality(Hypos(old)) = 1
    BY <2>2, FS_Singleton DEF Hypos
  <2>4. s = old
    <3>1. param.maxHypoStackSize \in Nat \ {0}
      BY <1>4, SettingsTyped
    <3>2. Cardinality(Hypos(old)) <= param.maxHypoStackSize
      BY <2>3, <3>1
    <3>3. QED
      BY <1>1, <3>2 DEF PruneToSize, old
  <2>5. BestArcs({}) = {{}}
    <3>1. param.nBestSize \in Nat /\ Cardinality({}) = 0
      BY <1>4, SettingsTyped, FS_EmptySet
    <3>2. QED
      BY <3>1 DEF BestArcs
  <2>6. PICK arcs : t = [s EXCEPT !.m_hypos = [h \in Hypos(s) |-> arcs[h]]]
                    /\ \A h \in Hypos(s) : s.m_hypos[h] = {} => arcs[h] = {}
    <3> DEFINE cut == { h \in Hypos(s) :
                          param.nBestIsEnabled /\ BestArcs(s.m_hypos[h]) # {s.m_hypos[h]} }
    <3>1. PICK f :
            t = [s EXCEPT !.m_hypos =
                   [h \in Hypos(s) |-> IF h \in cut THEN f[h] ELSE s.m_hypos[h]]]
      BY <1>2, Zenon DEF CleanupArcList
    <3>2. \A h \in Hypos(s) : s.m_hypos[h] = {} => h \notin cut
      BY <2>5
    <3> HIDE DEF cut
    <3> DEFINE arcs == [h \in Hypos(s) |-> IF h \in cut THEN f[h] ELSE s.m_hypos[h]]
    <3>3. [h \in Hypos(s) |-> arcs[h]] = arcs
      OBVIOUS
    <3>4. \A h \in Hypos(s) : s.m_hypos[h] = {} => arcs[h] = {}
      BY <3>2
    <3>5. t = [s EXCEPT !.m_hypos = [h \in Hypos(s) |-> arcs[h]]]
      BY <3>1, <3>3
    <3> HIDE DEF arcs
    <3>6. QED
      BY <3>4, <3>5
  <2>7. t.m_hypos = [h \in Hypos(s) |-> arcs[h]]
    BY <1>7, <2>6 DEF Fields
  <2>8. \A h \in Hypos(s) : arcs[h] = {}
    BY <2>2, <2>3, <2>4, <2>6
  <2>9. QED
    BY <2>2, <2>3, <2>4, <2>7, <2>8
<1>11. GraphGood([m_hypoStackColl EXCEPT ![k] = t], k, NoHypothesis, {})
  BY <1>4, <1>5, <1>8, <1>9, <1>10, CutGood DEF old
<1>12. Hypos(t) \subseteq Hypos(m_hypoStackColl'[iterStack])
  <2>1. m_hypoStackColl'[iterStack] = t
    BY <1>2, <1>4, <1>5 DEF GraphGood
  <2>2. QED
    BY <2>1
<1>13. GraphGood(m_hypoStackColl', iterStack', iterHypo', todo')
  <2>1. GraphGood(m_hypoStackColl', iterStack, NoHypothesis, {})
    BY <1>2, <1>11
  <2>2. QED
    BY <1>2, <1>4, <1>12, <2>1, VisitGood
<1>14. QED
  BY <1>3, <1>13, LinksNext

LEMMA NextHypothesisLinks == ASSUME IInv, LinksSound, NextHypothesis PROVE LinksSound'
<1>1. PICK hypos : /\ hypos = { h \in Hypos(m_hypoStackColl[iterStack]) : RecombineLess(iterHypo, h) }
                   /\ Visit(hypos)
  BY Zenon DEF NextHypothesis
<1>2. /\ UNCHANGED << inputVars, m_hypoStackColl >>
      /\ iterHypo # NoHypothesis /\ todo = {}
  BY DEF NextHypothesis
<1>3. InputsKept /\ iterStack \in 0 .. source.size
  BY InputsTyped DEF NextHypothesis, Over, IInv, HypothesisSound
<1>4. GraphGood(m_hypoStackColl, iterStack, iterHypo, {})
  BY <1>2 DEF LinksSound
<1>5. GraphGood(m_hypoStackColl', iterStack', iterHypo', todo')
  <2>1. /\ hypos \subseteq Hypos(m_hypoStackColl[iterStack])
        /\ \A h \in hypos : RecombineLess(iterHypo, h)
    BY <1>1
  <2>2. m_hypoStackColl' = m_hypoStackColl
    BY <1>2
  <2>3. QED
    BY <1>1, <1>3, <1>4, <2>1, <2>2, VisitGood
<1>6. QED
  BY <1>2, <1>5, LinksNext

LEMMA ExpandLinks == ASSUME IInv, LinksSound, ExpandHypothesis PROVE LinksSound'
<1> DEFINE i == Min(todo)
           h == Append(iterHypo, i)
<1>1. /\ todo # {} /\ todo' = todo \ {i}
      /\ UNCHANGED << inputVars, iterStack, iterHypo >>
      /\ \/ UNCHANGED m_hypoStackColl
         \/ \E s \in AddPrune(m_hypoStackColl[Covered(h)], h) :
              m_hypoStackColl' = [m_hypoStackColl EXCEPT ![Covered(h)] = s]
  BY Zenon DEF ExpandHypothesis, Covered
<1>2. InputsKept /\ todo \subseteq Extensions(iterHypo)
  BY DEF IInv, HypothesisSound
<1>3. i \in todo /\ i \in Extensions(iterHypo)
  <2>1. todo \subseteq Nat
    BY <1>2, InputsTyped DEF Extensions
  <2>2. QED
    BY <1>1, <1>2, <2>1, MinIn
<1> HIDE DEF i
<1>4. iterHypo # NoHypothesis /\ GraphGood(m_hypoStackColl, iterStack, iterHypo, todo)
  BY <1>1 DEF LinksSound, GraphGood
<1>5. GraphGood(m_hypoStackColl', iterStack, iterHypo, todo \ {i})
  <2>1. CASE UNCHANGED m_hypoStackColl
    BY <1>4, <2>1, NotExtendedGood
  <2>2. CASE \E s \in AddPrune(m_hypoStackColl[Covered(h)], h) :
               m_hypoStackColl' = [m_hypoStackColl EXCEPT ![Covered(h)] = s]
    <3>1. PICK s \in AddPrune(m_hypoStackColl[Covered(h)], h) :
            m_hypoStackColl' = [m_hypoStackColl EXCEPT ![Covered(h)] = s]
      BY <2>2
    <3>2. GraphGood([m_hypoStackColl EXCEPT ![Covered(h)] = s], iterStack, iterHypo, todo \ {i})
      BY <1>2, <1>3, <1>4, ExtendedGood
    <3>3. QED
      BY <3>1, <3>2
  <2>3. QED
    BY <1>1, <2>1, <2>2
<1>6. GraphGood(m_hypoStackColl', iterStack', iterHypo', todo')
  BY <1>1, <1>5
<1>7. UNCHANGED inputVars
  BY <1>1
<1>8. QED
  BY <1>6, <1>7, LinksNext

LEMMA LinksStay ==
  ASSUME LinksSound, UNCHANGED << inputVars, m_hypoStackColl, iterStack, iterHypo, todo >>
  PROVE  LinksSound'
<1>1. GraphGood(m_hypoStackColl', iterStack', iterHypo', todo')
  BY DEF LinksSound
<1>2. QED
  BY <1>1, LinksNext

(* All the time the stacks and arcs are a graph. *)
THEOREM LinksInvariance == Spec => [](IInv /\ LinksSound)
<1>1. Init => LinksSound
  BY InitLinks
<1>2. IInv /\ LinksSound /\ [Next]_vars => LinksSound'
  <2> SUFFICES ASSUME IInv, LinksSound, [Next]_vars PROVE LinksSound'
    OBVIOUS
  <2>1. CASE StartStack
    BY <2>1, StartStackLinks
  <2>2. CASE TimeOut
    BY <2>2, LinksStay DEF TimeOut
  <2>3. CASE NextHypothesis
    BY <2>3, NextHypothesisLinks
  <2>4. CASE ExpandHypothesis
    BY <2>4, ExpandLinks
  <2>5. CASE ListNext
    BY <2>5, LinksStay DEF ListNext, StartList, NextBest, EndList, searchVars
  <2>6. CASE UNCHANGED vars
    BY <2>6, LinksStay DEF vars, searchVars
  <2>7. QED
    BY <2>1, <2>2, <2>3, <2>4, <2>5, <2>6 DEF Next, SearchNext, Ended
<1>3. QED
  BY <1>1, <1>2, Invariance, PTL DEF Spec

-------------------------------------------------------------------------
(* The numbers of hypotheses. *)

NumberStep(number, h, n) ==
  IF n = 0 THEN 0 ELSE number[n - 1] * (Len(source.options) + 1) + h[n]

LEMMA OptionNumbers ==
  ASSUME InputsKept
  PROVE  Len(source.options) \in Nat /\ DOMAIN source.options = 1 .. Len(source.options)
<1>1. PICK c \in Cases : source = c.source
  BY DEF InputsKept
<1>2. source.options \in Seq([from : Nat, to : Nat, out : Nat, score : Int])
  BY <1>1, CasesAssumption
<1>3. QED
  BY <1>2

LEMMA NumberEquation ==
  ASSUME InputsKept, NEW h \in Hypotheses
  PROVE  \E f : /\ Number(h) = f[Len(h)]
                /\ \A n \in 0 .. Len(h) : f[n] = NumberStep(f, h, n) /\ f[n] \in Nat
<1> DEFINE D == 0 .. Len(h)
           G == [f \in [D -> Nat] |-> [n \in D |-> NumberStep(f, h, n)]]
           rank == [n \in D |-> n]
           L == Len(source.options)
<1>1. /\ Len(h) \in Nat /\ L \in Nat
      /\ \A n \in 1 .. Len(h) : h[n] \in 1 .. L
  BY OptionNumbers DEF Hypotheses
<1>2. ASSUME NEW f \in [D -> Nat], NEW n \in D
      PROVE  G[f][n] = NumberStep(f, h, n) /\ G[f][n] \in Nat
  <2>1. G[f][n] = NumberStep(f, h, n)
    OBVIOUS
  <2>2. CASE n = 0
    BY <2>1, <2>2 DEF NumberStep
  <2>3. CASE n # 0
    <3>1. n - 1 \in D /\ h[n] \in Nat
      BY <1>1, <2>3
    <3>2. f[n - 1] \in Nat
      BY <3>1
    <3>3. f[n - 1] * (L + 1) \in Nat
      BY <1>1, <3>2
    <3>4. NumberStep(f, h, n) = f[n - 1] * (L + 1) + h[n]
      BY <2>3 DEF NumberStep
    <3> HIDE DEF L
    <3>5. QED
      BY <2>1, <3>1, <3>3, <3>4
  <2>4. QED
    BY <2>2, <2>3
<1>3. PICK sol \in [D -> Nat] : \A n \in D : sol[n] = NumberStep(sol, h, n)
  <2>1. KeepsType(G, D, Nat)
    <3> HIDE DEF G, D
    <3>1. QED
      BY <1>2 DEF KeepsType
  <2>2. LooksBelow(G, D, Nat, rank)
    <3>1. ASSUME NEW f \in [D -> Nat], NEW g \in [D -> Nat], NEW n \in D,
                 \A m \in D : rank[m] < rank[n] => f[m] = g[m]
          PROVE  G[f][n] = G[g][n]
      <4>1. n # 0 => f[n - 1] = g[n - 1]
        <5>1. SUFFICES ASSUME n # 0 PROVE f[n - 1] = g[n - 1]
          OBVIOUS
        <5>2. n - 1 \in D /\ n - 1 < n
          BY <1>1, <5>1
        <5>3. rank[n - 1] < rank[n]
          BY <5>2
        <5> HIDE DEF D, rank
        <5>4. QED
          BY <3>1, <5>2, <5>3
      <4>2. NumberStep(f, h, n) = NumberStep(g, h, n)
        BY <4>1 DEF NumberStep
      <4>3. QED
        BY <1>2, <4>2
    <3> HIDE DEF G, D, rank
    <3>2. QED
      BY <3>1 DEF LooksBelow
  <2> DEFINE N == Len(h)
  <2>3. N \in Nat /\ rank \in [D -> 0 .. N] /\ Nat # {}
    BY <1>1
  <2> HIDE DEF G, D, rank, N
  <2>4. \E f \in [D -> Nat] : Solution(f, G, D)
    BY <2>1, <2>2, <2>3, Recursion
  <2>5. QED
    BY <1>2, <2>4 DEF Solution
<1> DEFINE number == CHOOSE f : f = [n \in D |-> NumberStep(f, h, n)]
<1>4. Number(h) = number[Len(h)]
  BY DEF Number, NumberStep
<1>5. sol = [n \in D |-> NumberStep(sol, h, n)]
  BY <1>3
<1> HIDE DEF G, rank
<1>6. number = [n \in D |-> NumberStep(number, h, n)]
  BY <1>5
<1> HIDE DEF number
<1>7. \A n \in D : number[n] = NumberStep(number, h, n)
  BY <1>6
<1> DEFINE Good == { n \in Nat : n <= Len(h) => number[n] \in Nat }
<1>8. 0 \in Good
  <2>1. 0 \in D
    BY <1>1
  <2>2. number[0] = 0
    BY <1>7, <2>1 DEF NumberStep
  <2>3. QED
    BY <2>2
<1>9. ASSUME NEW n \in Nat, n \in Good PROVE n + 1 \in Good
  <2>1. SUFFICES ASSUME n + 1 <= Len(h) PROVE number[n + 1] \in Nat
    OBVIOUS
  <2>2. number[n] \in Nat /\ n + 1 \in D /\ n + 1 # 0 /\ n + 1 - 1 = n
    BY <1>1, <1>9, <2>1
  <2>3. number[n + 1] = number[n] * (L + 1) + h[n + 1]
    BY <1>7, <2>2 DEF NumberStep
  <2>4. h[n + 1] \in Nat
    BY <1>1, <2>1
  <2>5. number[n] * (L + 1) \in Nat
    BY <1>1, <2>2
  <2> HIDE DEF L
  <2>6. QED
    BY <2>3, <2>4, <2>5
<1>10. \A n \in D : number[n] \in Nat
  <2> HIDE DEF Good
  <2>1. \A n \in Nat : n \in Good
    BY <1>8, <1>9, Induction
  <2>2. QED
    BY <1>1, <2>1 DEF Good
<1>11. QED
  BY <1>4, <1>7, <1>10

(* The number of a hypothesis from that of its predecessor. *)
LEMMA NumberFromFront ==
  ASSUME InputsKept, NEW h \in Hypotheses
  PROVE  /\ Number(h) \in Nat
         /\ h = << >> => Number(h) = 0
         /\ h # << >> => Number(h) = Number(Front(h)) * (Len(source.options) + 1) + Last(h)
<1>1. PICK f : /\ Number(h) = f[Len(h)]
               /\ \A n \in 0 .. Len(h) : f[n] = NumberStep(f, h, n) /\ f[n] \in Nat
  BY NumberEquation
<1>2. Len(h) \in Nat
  BY DEF Hypotheses
<1>3. Number(h) \in Nat
  BY <1>1, <1>2
<1>4. CASE h = << >>
  <2>1. Len(h) = 0
    BY <1>4
  <2>2. f[0] = NumberStep(f, h, 0)
    BY <1>1, <2>1
  <2>3. QED
    BY <1>1, <1>3, <1>4, <2>1, <2>2 DEF NumberStep
<1>5. CASE h # << >>
  <2> DEFINE q == Front(h)
  <2>1. /\ q \in Hypotheses /\ Len(h) = Len(q) + 1 /\ Len(q) \in Nat
        /\ h = Append(q, Last(h))
    BY <1>5, FrontTyped
  <2>2. \A n \in 1 .. Len(q) : q[n] = h[n]
    <3>1. q \in Seq(DOMAIN source.options)
      BY <2>1 DEF Hypotheses
    <3> HIDE DEF q
    <3>2. QED
      BY <2>1, <3>1
  <2> HIDE DEF q
  <2>3. PICK g : /\ Number(q) = g[Len(q)]
                 /\ \A n \in 0 .. Len(q) : g[n] = NumberStep(g, q, n) /\ g[n] \in Nat
    BY <2>1, NumberEquation
  <2> DEFINE Good == { n \in Nat : n <= Len(q) => g[n] = f[n] }
  <2>4. 0 \in Good
    <3>1. 0 \in 0 .. Len(q) /\ 0 \in 0 .. Len(h)
      BY <1>2, <2>1
    <3>2. g[0] = 0 /\ f[0] = 0
      BY <1>1, <2>3, <3>1 DEF NumberStep
    <3>3. QED
      BY <3>2
  <2>5. ASSUME NEW n \in Nat, n \in Good PROVE n + 1 \in Good
    <3>1. SUFFICES ASSUME n + 1 <= Len(q) PROVE g[n + 1] = f[n + 1]
      OBVIOUS
    <3>2. /\ g[n] = f[n] /\ n + 1 # 0 /\ n + 1 - 1 = n
          /\ n + 1 \in 0 .. Len(q) /\ n + 1 \in 0 .. Len(h) /\ q[n + 1] = h[n + 1]
      BY <2>1, <2>2, <2>5, <3>1
    <3>3. g[n + 1] = NumberStep(g, q, n + 1) /\ f[n + 1] = NumberStep(f, h, n + 1)
      BY <1>1, <2>3, <3>2
    <3>4. QED
      BY <3>2, <3>3 DEF NumberStep
  <2>6. g[Len(q)] = f[Len(q)]
    <3> HIDE DEF Good
    <3>1. \A n \in Nat : n \in Good
      BY <2>4, <2>5, Induction
    <3>2. QED
      BY <2>1, <3>1 DEF Good
  <2>7. /\ Len(h) # 0 /\ Len(h) - 1 = Len(q) /\ Len(h) \in 0 .. Len(h)
        /\ h[Len(h)] = Last(h)
    BY <1>2, <2>1 DEF Last
  <2>8. f[Len(h)] = f[Len(q)] * (Len(source.options) + 1) + Last(h)
    BY <1>1, <2>7 DEF NumberStep
  <2>9. QED
    BY <1>1, <1>3, <1>5, <2>3, <2>6, <2>8 DEF q
<1>6. QED
  BY <1>4, <1>5

(* Division with remainder. *)
LEMMA Digits ==
  ASSUME NEW L \in Nat, NEW a \in Nat, NEW b \in Nat, NEW x \in 1 .. L, NEW y \in 1 .. L,
         a * (L + 1) + x = b * (L + 1) + y
  PROVE  a = b /\ x = y
<1>1. ASSUME NEW m \in Nat, NEW n \in Nat, m < n
      PROVE  n * (L + 1) >= m * (L + 1) + L + 1
  <2> DEFINE d == n - m - 1
  <2>1. d \in Nat /\ n = m + 1 + d
    BY <1>1
  <2> HIDE DEF d
  <2>2. n * (L + 1) = m * (L + 1) + (L + 1) + d * (L + 1)
    BY <2>1
  <2>3. d * (L + 1) \in Nat /\ m * (L + 1) \in Nat
    BY <2>1
  <2>4. QED
    BY <2>2, <2>3
<1> DEFINE p == a * (L + 1)
           q == b * (L + 1)
<1>2. p \in Nat /\ q \in Nat /\ p + x = q + y
  OBVIOUS
<1>3. (a < b => q >= p + L + 1) /\ (b < a => p >= q + L + 1) /\ (a = b => p = q)
  BY <1>1
<1> HIDE DEF p, q
<1>4. QED
  BY <1>2, <1>3

(* It tells hypotheses apart, and is higher than the predecessor's. *)
LEMMA NumberTells ==
  ASSUME InputsKept
  PROVE  /\ \A g, h \in Hypotheses : Number(g) = Number(h) => g = h
         /\ \A h \in Hypotheses : h # << >> => Number(Front(h)) < Number(h)
<1> DEFINE L == Len(source.options)
<1>1. L \in Nat /\ DOMAIN source.options = 1 .. L
  BY OptionNumbers
<1>2. ASSUME NEW h \in Hypotheses, h # << >>
      PROVE  /\ Front(h) \in Hypotheses /\ Last(h) \in 1 .. L /\ h = Append(Front(h), Last(h))
             /\ Number(h) \in Nat /\ Number(Front(h)) \in Nat
             /\ Number(h) = Number(Front(h)) * (L + 1) + Last(h)
             /\ Len(h) = Len(Front(h)) + 1 /\ Len(Front(h)) \in Nat
  BY <1>1, <1>2, FrontTyped, NumberFromFront
<1> HIDE DEF L
<1>3. ASSUME NEW h \in Hypotheses, h # << >> PROVE Number(Front(h)) < Number(h)
  <2> DEFINE a == Number(Front(h))
             x == Last(h)
             b == Number(h)
  <2>1. a \in Nat /\ x \in 1 .. L /\ b = a * (L + 1) + x
    BY <1>2, <1>3
  <2> HIDE DEF a, x, b
  <2>2. a * (L + 1) = a * L + a /\ a * L \in Nat
    BY <1>1, <2>1
  <2>3. a < b
    <3> DEFINE p == a * L
    <3>1. p \in Nat /\ b = p + a + x
      BY <2>1, <2>2
    <3> HIDE DEF p
    <3>2. QED
      BY <1>1, <2>1, <3>1
  <2>4. QED
    BY <2>3 DEF a, b
<1> DEFINE Good == { n \in Nat : \A g, h \in Hypotheses : Len(g) = n /\ Number(g) = Number(h) => g = h }
<1>4. ASSUME NEW h \in Hypotheses, Number(h) = 0 PROVE h = << >>
  <2>1. SUFFICES ASSUME h # << >> PROVE FALSE
    OBVIOUS
  <2>2. Number(Front(h)) < 0 /\ Number(Front(h)) \in Nat
    BY <1>2, <1>3, <1>4, <2>1
  <2>3. QED
    BY <2>2
<1>5. 0 \in Good
  <2>1. ASSUME NEW g \in Hypotheses, NEW h \in Hypotheses, Len(g) = 0, Number(g) = Number(h)
        PROVE  g = h
    <3>1. g = << >>
      BY <2>1 DEF Hypotheses
    <3>2. Number(g) = 0
      BY <3>1, NumberFromFront
    <3>3. QED
      BY <1>4, <2>1, <3>1, <3>2
  <2>2. QED
    BY <2>1
<1>6. ASSUME NEW n \in Nat, n \in Good PROVE n + 1 \in Good
  <2>1. ASSUME NEW g \in Hypotheses, NEW h \in Hypotheses, Len(g) = n + 1, Number(g) = Number(h)
        PROVE  g = h
    <3>1. g # << >>
      BY <2>1
    <3>2. h # << >>
      <4>1. SUFFICES ASSUME h = << >> PROVE FALSE
        OBVIOUS
      <4>2. Number(g) = 0
        BY <2>1, <4>1, NumberFromFront
      <4>3. QED
        BY <1>4, <3>1, <4>2
    <3> DEFINE a == Number(Front(g))
               b == Number(Front(h))
               x == Last(g)
               y == Last(h)
    <3>3. /\ a \in Nat /\ b \in Nat /\ x \in 1 .. L /\ y \in 1 .. L
          /\ a * (L + 1) + x = b * (L + 1) + y
      BY <1>2, <2>1, <3>1, <3>2
    <3> HIDE DEF a, b, x, y
    <3>4. a = b /\ x = y
      BY <1>1, <3>3, Digits
    <3>5. Front(g) \in Hypotheses /\ Front(h) \in Hypotheses /\ Len(Front(g)) = n
      BY <1>2, <2>1, <3>1, <3>2
    <3>6. Front(g) = Front(h)
      BY <1>6, <3>4, <3>5 DEF a, b
    <3>7. QED
      BY <1>2, <3>1, <3>2, <3>4, <3>6 DEF x, y
  <2>2. QED
    BY <2>1
<1>7. ASSUME NEW g \in Hypotheses, NEW h \in Hypotheses, Number(g) = Number(h) PROVE g = h
  <2>1. \A n \in Nat : n \in Good
    <3> HIDE DEF Good
    <3>1. QED
      BY <1>5, <1>6, Induction
  <2>2. Len(g) \in Nat
    BY DEF Hypotheses
  <2>3. QED
    BY <1>7, <2>1, <2>2
<1>8. QED
  BY <1>3, <1>7

-------------------------------------------------------------------------
(* The connected graph. *)

AllMembers == UNION { Members(m_hypoStackColl[k]) : k \in 0 .. source.size }

WinnersAt(covering, k) ==
  IF k = source.size
    THEN Hypos(m_hypoStackColl[k])
    ELSE { h \in { GetPrevHypo(g) : g \in UNION { covering[j] : j \in k + 1 .. source.size } } :
             Cardinality(GetWordsBitmap(h)) = k }

CoveringStep(covering, k) ==
  WinnersAt(covering, k) \cup UNION { GetArcList(w) : w \in WinnersAt(covering, k) }

(* Everything is on its stack or an arc of what is there, and so is its    *)
(* predecessor. *)
LEMMA MembersLinked ==
  ASSUME InputsKept, LinksSound, NEW x \in AllMembers
  PROVE  /\ x \in Hypotheses /\ Covered(x) \in 0 .. source.size
         /\ StackOf(x) = m_hypoStackColl[Covered(x)] /\ StackGood(StackOf(x), Covered(x))
         /\ x \in Members(StackOf(x))
         /\ Front(x) \in Hypotheses /\ Front(x) \in AllMembers /\ Front(x) \in Hypos(StackOf(Front(x)))
         /\ x # << >> => Covered(Front(x)) < Covered(x)
<1>1. PICK k \in 0 .. source.size : x \in Members(m_hypoStackColl[k])
  BY DEF AllMembers
<1>2. /\ StackGood(m_hypoStackColl[k], k)
      /\ Linked(x, m_hypoStackColl, iterStack, iterHypo, todo)
      /\ m_hypoStackColl[0].m_hypos = [h \in {EmptyHypothesis} |-> {}]
  BY <1>1 DEF LinksSound, GraphGood
<1>3. x \in Hypotheses /\ Covered(x) = k
  BY <1>1, <1>2 DEF StackGood
<1>4. \A h : StackOf(h) = m_hypoStackColl[Covered(h)]
  BY DEF StackOf, Covered
<1>5. Front(x) \in Hypotheses /\ Covered(Front(x)) \in 0 .. source.size
  BY <1>3, FrontTyped, CoveredTyped
<1>6. Front(x) \in Hypos(StackOf(Front(x)))
  <2>1. CASE x = << >>
    <3>1. Front(x) = << >> /\ Covered(Front(x)) = 0
      <4>1. Front(x) = << >>
        BY <2>1 DEF Front
      <4>2. << >> \in Hypotheses
        BY <1>5, <4>1
      <4>3. QED
        BY <4>1, <4>2, CoveredTyped
    <3>2. Hypos(m_hypoStackColl[0]) = {<< >>}
      BY <1>2 DEF Hypos, EmptyHypothesis
    <3>3. QED
      BY <1>4, <3>1, <3>2
  <2>2. CASE x # << >>
    BY <1>2, <1>4, <2>2 DEF Linked, EmptyHypothesis
  <2>3. QED
    BY <2>1, <2>2
<1>7. Front(x) \in AllMembers
  BY <1>4, <1>5, <1>6 DEF AllMembers, Members
<1>8. x # << >> => Covered(Front(x)) < Covered(x)
  BY <1>2 DEF Linked, EmptyHypothesis
<1>9. QED
  BY <1>1, <1>2, <1>3, <1>4, <1>5, <1>6, <1>7, <1>8

LEMMA StackMembers ==
  ASSUME InputsKept, LinksSound, NEW k \in 0 .. source.size, NEW w \in Hypos(m_hypoStackColl[k])
  PROVE  /\ w \in AllMembers /\ Covered(w) = k
         /\ GetArcList(w) = m_hypoStackColl[k].m_hypos[w]
         /\ GetArcList(w) \subseteq Members(m_hypoStackColl[k])
         /\ \A a \in GetArcList(w) : a \in AllMembers /\ Covered(a) = k /\ Recombine(a, w)
<1>1. StackGood(m_hypoStackColl[k], k)
  BY DEF LinksSound, GraphGood
<1>2. w \in Members(m_hypoStackColl[k]) /\ Covered(w) = k
  BY <1>1 DEF StackGood, Members
<1>3. StackOf(w) = m_hypoStackColl[k]
  BY <1>2 DEF StackOf, Covered
<1>4. GetArcList(w) = m_hypoStackColl[k].m_hypos[w]
  BY <1>3 DEF GetArcList
<1>5. GetArcList(w) \subseteq Members(m_hypoStackColl[k])
  BY <1>4 DEF Members
<1>6. \A a \in GetArcList(w) : Recombine(a, w)
  BY <1>1, <1>4 DEF StackGood, ArcsGood
<1>7. \A a \in Members(m_hypoStackColl[k]) : a \in AllMembers /\ Covered(a) = k
  BY <1>1 DEF AllMembers, StackGood
<1>8. QED
  BY <1>2, <1>4, <1>5, <1>6, <1>7

LEMMA StepTyped ==
  ASSUME InputsKept, LinksSound, NEW f, NEW k \in 0 .. source.size,
         \A j \in k + 1 .. source.size : f[j] \subseteq AllMembers
  PROVE  /\ WinnersAt(f, k) \subseteq Hypos(m_hypoStackColl[k])
         /\ CoveringStep(f, k) \subseteq Members(m_hypoStackColl[k])
         /\ CoveringStep(f, k) \subseteq AllMembers
<1>1. WinnersAt(f, k) \subseteq Hypos(m_hypoStackColl[k])
  <2>1. CASE k = source.size
    BY <2>1 DEF WinnersAt
  <2>2. CASE k # source.size
    <3>1. ASSUME NEW h \in WinnersAt(f, k) PROVE h \in Hypos(m_hypoStackColl[k])
      <4>1. PICK g \in UNION { f[j] : j \in k + 1 .. source.size } :
              h = GetPrevHypo(g) /\ Covered(h) = k
        BY <2>2, <3>1 DEF WinnersAt, Covered
      <4>2. g \in AllMembers
        BY <4>1
      <4>3. h \in Hypos(StackOf(h)) /\ StackOf(h) = m_hypoStackColl[k]
        BY <4>1, <4>2, MembersLinked DEF GetPrevHypo
      <4>4. QED
        BY <4>3
    <3>2. QED
      BY <3>1
  <2>3. QED
    BY <2>1, <2>2
<1>2. CoveringStep(f, k) \subseteq Members(m_hypoStackColl[k])
  <2>1. ASSUME NEW x \in CoveringStep(f, k) PROVE x \in Members(m_hypoStackColl[k])
    <3>1. CASE x \in WinnersAt(f, k)
      BY <1>1, <3>1 DEF Members
    <3>2. ASSUME NEW w \in WinnersAt(f, k), x \in GetArcList(w)
          PROVE  x \in Members(m_hypoStackColl[k])
      BY <1>1, <3>2, StackMembers
    <3>3. QED
      BY <3>1, <3>2 DEF CoveringStep
  <2>2. QED
    BY <2>1
<1>3. QED
  BY <1>1, <1>2 DEF AllMembers

LEMMA ConnectedEquation ==
  ASSUME InputsKept, LinksSound
  PROVE  \E f : /\ Connected = UNION { f[k] : k \in 0 .. source.size }
                /\ \A k \in 0 .. source.size :
                     f[k] = CoveringStep(f, k) /\ f[k] \subseteq AllMembers
<1> DEFINE n == source.size
           D == 0 .. n
           V == SUBSET AllMembers
           G == [f \in [D -> V] |-> [k \in D |-> CoveringStep(f, k)]]
           rank == [k \in D |-> n - k]
<1>1. n \in Nat
  BY InputsTyped
<1>2. ASSUME NEW f \in [D -> V], NEW k \in D
      PROVE  G[f][k] = CoveringStep(f, k) /\ G[f][k] \in V
  <2>1. G[f][k] = CoveringStep(f, k)
    OBVIOUS
  <2>2. \A j \in k + 1 .. n : f[j] \subseteq AllMembers
    BY <1>1
  <2>3. QED
    BY <2>1, <2>2, StepTyped
<1>3. ASSUME NEW f, NEW g, NEW k \in D, \A j \in k + 1 .. n : f[j] = g[j]
      PROVE  CoveringStep(f, k) = CoveringStep(g, k)
  <2>1. { f[j] : j \in k + 1 .. n } = { g[j] : j \in k + 1 .. n }
    BY <1>3
  <2>2. WinnersAt(f, k) = WinnersAt(g, k)
    BY <2>1 DEF WinnersAt
  <2>3. QED
    BY <2>2 DEF CoveringStep
<1>4. PICK sol \in [D -> V] : \A k \in D : sol[k] = CoveringStep(sol, k)
  <2>1. KeepsType(G, D, V)
    <3> HIDE DEF G, D, V
    <3>1. QED
      BY <1>2 DEF KeepsType
  <2>2. LooksBelow(G, D, V, rank)
    <3>1. ASSUME NEW f \in [D -> V], NEW g \in [D -> V], NEW k \in D,
                 \A j \in D : rank[j] < rank[k] => f[j] = g[j]
          PROVE  G[f][k] = G[g][k]
      <4>1. \A j \in k + 1 .. n : j \in D /\ rank[j] < rank[k]
        BY <1>1
      <4>2. CoveringStep(f, k) = CoveringStep(g, k)
        BY <1>3, <3>1, <4>1
      <4>3. QED
        BY <1>2, <4>2
    <3> HIDE DEF G, D, V, rank
    <3>2. QED
      BY <3>1 DEF LooksBelow
  <2>3. rank \in [D -> 0 .. n] /\ V # {}
    BY <1>1
  <2> HIDE DEF G, D, V, rank, n
  <2>4. \E f \in [D -> V] : Solution(f, G, D)
    BY <1>1, <2>1, <2>2, <2>3, Recursion
  <2>5. QED
    BY <1>2, <2>4 DEF Solution
<1> DEFINE covering == CHOOSE f : f = [k \in D |-> CoveringStep(f, k)]
<1>5. Connected = UNION { covering[k] : k \in D }
  BY DEF Connected, CoveringStep, WinnersAt
<1>6. sol = [k \in D |-> CoveringStep(sol, k)]
  BY <1>4
<1> HIDE DEF G, rank
<1>7. covering = [k \in D |-> CoveringStep(covering, k)]
  BY <1>6
<1> HIDE DEF covering
<1>8. \A k \in D : covering[k] = CoveringStep(covering, k)
  BY <1>7
<1> DEFINE Good == { m \in Nat : \A k \in D : n - k < m => covering[k] \subseteq AllMembers }
<1>9. 0 \in Good
  BY <1>1
<1>10. ASSUME NEW m \in Nat, m \in Good PROVE m + 1 \in Good
  <2>1. ASSUME NEW k \in D, n - k < m + 1 PROVE covering[k] \subseteq AllMembers
    <3>1. \A j \in k + 1 .. n : j \in D /\ n - j < m
      BY <1>1, <1>10, <2>1
    <3>2. \A j \in k + 1 .. n : covering[j] \subseteq AllMembers
      BY <1>10, <3>1
    <3>3. CoveringStep(covering, k) \subseteq AllMembers
      BY <3>2, StepTyped
    <3>4. QED
      BY <1>8, <3>3
  <2>2. QED
    BY <2>1
<1>11. \A k \in D : covering[k] \subseteq AllMembers
  <2>1. \A m \in Nat : m \in Good
    <3> HIDE DEF Good
    <3>1. QED
      BY <1>9, <1>10, Induction
  <2>2. n + 1 \in Good /\ \A k \in D : n - k < n + 1
    BY <1>1, <2>1
  <2>3. QED
    BY <2>2
<1>12. QED
  BY <1>5, <1>8, <1>11

(* The hypothesis that took the place of x. *)
LEMMA WinnerOf ==
  ASSUME InputsKept, LinksSound, NEW x \in AllMembers
  PROVE  LET w == GetWinningHypo(x)
         IN  /\ w \in Hypos(StackOf(x)) /\ w \in AllMembers /\ Covered(w) = Covered(x)
             /\ Recombine(x, w) /\ GetTotalScore(x) <= GetTotalScore(w)
             /\ \A v \in Hypos(StackOf(x)) : Recombine(x, v) => v = w
<1> DEFINE s == StackOf(x)
           w == GetWinningHypo(x)
<1>1. /\ x \in Hypotheses /\ Covered(x) \in 0 .. source.size
      /\ s = m_hypoStackColl[Covered(x)] /\ StackGood(s, Covered(x)) /\ x \in Members(s)
  BY MembersLinked
<1>2. \E v \in Hypos(s) : x = v \/ x \in s.m_hypos[v]
  BY <1>1 DEF Members
<1>3. w \in Hypos(s) /\ (x = w \/ x \in s.m_hypos[w])
  BY <1>2 DEF GetWinningHypo
<1> HIDE DEF w, s
<1>4. w \in AllMembers /\ Covered(w) = Covered(x)
  BY <1>1, <1>3, StackMembers
<1>5. Recombine(x, w) /\ GetTotalScore(x) <= GetTotalScore(w)
  <2>1. CASE x = w
    BY <1>1, <2>1, ScoresTyped DEF Recombine
  <2>2. CASE x \in s.m_hypos[w]
    BY <1>1, <1>3, <2>2 DEF StackGood, ArcsGood
  <2>3. QED
    BY <1>3, <2>1, <2>2
<1>6. \A v \in Hypos(s) : Recombine(x, v) => v = w
  BY <1>1, <1>3, <1>5 DEF StackGood, Recombine
<1>7. QED
  BY <1>3, <1>4, <1>5, <1>6 DEF w, s

(* What is connected: winners and predecessors are, and whatever has taken *)
(* a place, but at the end, was extended. *)
Listed == Connected \cup {EmptyHypothesis}

LEMMA ListedClosed ==
  ASSUME InputsKept, LinksSound
  PROVE  /\ Listed \subseteq AllMembers
         /\ \A x \in Listed :
              /\ GetWinningHypo(x) \in Listed
              /\ x # << >> => Front(x) \in Listed
              /\ x # << >> /\ Covered(x) < source.size =>
                   \E g \in Listed : g # << >> /\ Front(g) = GetWinningHypo(x)
<1> DEFINE n == source.size
<1>1. PICK f : /\ Connected = UNION { f[k] : k \in 0 .. n }
               /\ \A k \in 0 .. n : f[k] = CoveringStep(f, k) /\ f[k] \subseteq AllMembers
  BY ConnectedEquation
<1>2. n \in Nat
  BY InputsTyped
<1>3. << >> \in AllMembers /\ Covered(<< >>) = 0 /\ << >> \in Hypos(m_hypoStackColl[0])
  <2>1. << >> \in Hypos(m_hypoStackColl[0])
    BY DEF LinksSound, GraphGood, EmptyHypothesis, Hypos
  <2>2. 0 \in 0 .. n
    BY <1>2
  <2>3. QED
    BY <2>1, <2>2, StackMembers
<1>4. Listed \subseteq AllMembers
  BY <1>1, <1>3 DEF Listed, EmptyHypothesis
<1>5. ASSUME NEW k \in 0 .. n
      PROVE  /\ WinnersAt(f, k) \subseteq Hypos(m_hypoStackColl[k])
             /\ WinnersAt(f, k) \subseteq f[k]
             /\ f[k] \subseteq Connected /\ f[k] \subseteq Members(m_hypoStackColl[k])
             /\ \A x \in f[k] : x \in WinnersAt(f, k) \/ \E w \in WinnersAt(f, k) : x \in GetArcList(w)
  <2>1. \A j \in k + 1 .. n : f[j] \subseteq AllMembers
    BY <1>1, <1>2
  <2>2. /\ WinnersAt(f, k) \subseteq Hypos(m_hypoStackColl[k])
        /\ f[k] \subseteq Members(m_hypoStackColl[k])
    BY <1>1, <2>1, StepTyped
  <2>3. f[k] = CoveringStep(f, k) /\ f[k] \subseteq Connected
    BY <1>1
  <2>4. QED
    BY <2>2, <2>3 DEF CoveringStep
<1>6. ASSUME NEW k \in 0 .. n, NEW x \in f[k]
      PROVE  x \in AllMembers /\ Covered(x) = k /\ GetWinningHypo(x) \in WinnersAt(f, k)
  <2>1. x \in AllMembers /\ Covered(x) = k
    <3>1. StackGood(m_hypoStackColl[k], k)
      BY DEF LinksSound, GraphGood
    <3>2. QED
      BY <1>1, <1>5, <3>1 DEF StackGood
  <2>2. StackOf(x) = m_hypoStackColl[k]
    BY <2>1, MembersLinked
  <2>3. \A v \in WinnersAt(f, k) : Recombine(x, v) => v = GetWinningHypo(x)
    BY <1>5, <2>1, <2>2, WinnerOf
  <2>4. CASE x \in WinnersAt(f, k)
    BY <2>1, <2>3, <2>4 DEF Recombine
  <2>5. ASSUME NEW w \in WinnersAt(f, k), x \in GetArcList(w)
        PROVE  GetWinningHypo(x) \in WinnersAt(f, k)
    <3>1. Recombine(x, w)
      BY <1>5, <2>5, StackMembers
    <3>2. QED
      BY <2>3, <3>1
  <2>6. QED
    BY <1>5, <2>1, <2>4, <2>5
<1>7. ASSUME NEW x \in Connected
      PROVE  /\ GetWinningHypo(x) \in Connected
             /\ x # << >> => Front(x) \in Connected
             /\ Covered(x) < n => \E g \in Connected : Front(g) = GetWinningHypo(x) /\ Covered(g) > Covered(x)
  <2>1. PICK k \in 0 .. n : x \in f[k]
    BY <1>1
  <2>2. x \in AllMembers /\ Covered(x) = k /\ GetWinningHypo(x) \in WinnersAt(f, k)
    BY <1>6, <2>1
  <2>3. GetWinningHypo(x) \in Connected
    BY <1>5, <2>2
  <2>4. ASSUME x # << >> PROVE Front(x) \in Connected
    <3> DEFINE j == Covered(Front(x))
    <3>1. Front(x) \in Hypotheses /\ j < k /\ j \in 0 .. n
      <4>1. Front(x) \in Hypotheses /\ j < k
        BY <2>2, <2>4, MembersLinked
      <4>2. QED
        BY <4>1, CoveredTyped
    <3> HIDE DEF j
    <3>2. k \in j + 1 .. n /\ j # n
      BY <1>2, <3>1
    <3>3. Front(x) \in WinnersAt(f, j)
      BY <2>1, <3>2 DEF WinnersAt, GetPrevHypo, j, Covered
    <3>4. QED
      BY <1>5, <3>1, <3>3
  <2>5. ASSUME Covered(x) < n
        PROVE  \E g \in Connected : Front(g) = GetWinningHypo(x) /\ Covered(g) > Covered(x)
    <3>1. k # n
      BY <1>2, <2>2, <2>5
    <3>2. PICK g \in UNION { f[j] : j \in k + 1 .. n } : GetWinningHypo(x) = GetPrevHypo(g)
      BY <2>2, <3>1 DEF WinnersAt
    <3>3. PICK j \in k + 1 .. n : g \in f[j]
      BY <3>2
    <3>4. j \in 0 .. n /\ k < j
      BY <1>2
    <3>5. g \in Connected /\ Covered(g) = j
      BY <1>5, <1>6, <3>3, <3>4
    <3>6. QED
      BY <2>2, <3>2, <3>4, <3>5 DEF GetPrevHypo
  <2>6. QED
    BY <2>3, <2>4, <2>5
<1>8. GetWinningHypo(<< >>) = << >>
  <2>1. StackOf(<< >>) = m_hypoStackColl[0]
    BY <1>3, MembersLinked
  <2>2. QED
    BY <1>3, <2>1, WinnerOf DEF Recombine
<1>9. ASSUME NEW x \in Listed
      PROVE  /\ GetWinningHypo(x) \in Listed
             /\ x # << >> => Front(x) \in Listed
             /\ x # << >> /\ Covered(x) < n =>
                  \E g \in Listed : g # << >> /\ Front(g) = GetWinningHypo(x)
  <2>1. CASE x = << >>
    BY <1>8, <2>1
  <2>2. CASE x # << >>
    <3>1. x \in Connected
      BY <2>2 DEF Listed, EmptyHypothesis
    <3>2. ASSUME Covered(x) < n
          PROVE  \E g \in Listed : g # << >> /\ Front(g) = GetWinningHypo(x)
      <4>1. PICK g \in Connected : Front(g) = GetWinningHypo(x) /\ Covered(g) > Covered(x)
        BY <1>7, <3>1, <3>2
      <4>2. Covered(x) \in 0 .. n
        BY <1>4, MembersLinked
      <4>3. g # << >>
        BY <1>3, <4>1, <4>2
      <4>4. QED
        BY <4>1, <4>3 DEF Listed
    <3>3. QED
      BY <1>7, <2>2, <3>1, <3>2 DEF Listed
  <2>3. QED
    BY <2>1, <2>2
<1>10. QED
  BY <1>4, <1>9

-------------------------------------------------------------------------
(* The search graph as a lattice. *)

PrevOf(h) == IF h = EmptyHypothesis THEN h ELSE GetPrevHypo(h)

Numbers == { Number(h) : h \in Listed }

LEMMA ListedTyped ==
  ASSUME InputsKept, LinksSound
  PROVE  /\ << >> \in Listed /\ IsFiniteSet(Listed) /\ Listed \subseteq Hypotheses
         /\ \A h \in Listed : PrevOf(h) \in Listed /\ PrevOf(h) \in Hypotheses
<1>1. Listed \subseteq AllMembers /\ << >> \in Listed
  BY ListedClosed DEF Listed, EmptyHypothesis
<1>2. Listed \subseteq Hypotheses
  BY <1>1, MembersLinked
<1>3. IsFiniteSet(AllMembers)
  <2>1. IsFiniteSet(0 .. source.size)
    <3>1. source.size \in Int /\ 0 \in Int
      BY InputsTyped
    <3>2. QED
      BY <3>1, FS_Interval
  <2>2. ASSUME NEW k \in 0 .. source.size PROVE IsFiniteSet(Members(m_hypoStackColl[k]))
    <3> DEFINE s == m_hypoStackColl[k]
               arcs == [h \in Hypos(s) |-> s.m_hypos[h]]
               sets == { arcs[h] : h \in Hypos(s) }
    <3>1. IsFiniteSet(Hypos(s)) /\ \A h \in Hypos(s) : IsFiniteSet(s.m_hypos[h])
      BY DEF LinksSound, GraphGood, StackGood, ArcsGood
    <3> HIDE DEF s
    <3>2. IsFiniteSet(sets)
      BY <3>1, ImageFinite
    <3>3. \A T \in sets : IsFiniteSet(T)
      BY <3>1
    <3>4. UNION sets = UNION { s.m_hypos[h] : h \in Hypos(s) }
      OBVIOUS
    <3> HIDE DEF sets
    <3>5. IsFiniteSet(UNION sets)
      BY <3>2, <3>3, FS_UNION
    <3>6. QED
      BY <3>1, <3>4, <3>5, FS_Union DEF Members, s
  <2> DEFINE K == 0 .. source.size
             at == [k \in K |-> Members(m_hypoStackColl[k])]
             all == { at[k] : k \in K }
  <2>3. IsFiniteSet(all)
    <3> HIDE DEF K, at
    <3>1. QED
      BY <2>1, ImageFinite DEF K
  <2>4. \A T \in all : IsFiniteSet(T)
    BY <2>2
  <2>5. UNION all = AllMembers
    BY DEF AllMembers
  <2> HIDE DEF all
  <2>6. QED
    BY <2>3, <2>4, <2>5, FS_UNION
<1>4. \A h \in Listed : PrevOf(h) \in Listed
  BY ListedClosed DEF PrevOf, GetPrevHypo, EmptyHypothesis
<1>5. QED
  BY <1>1, <1>2, <1>3, <1>4, FS_Subset

(* What the lattice says of the hypothesis with a number. *)
LEMMA LatticeSays ==
  ASSUME InputsKept, LinksSound
  PROVE  LET l == SearchGraph
         IN  /\ DOMAIN l.prev = Numbers /\ DOMAIN l.cover = Numbers
             /\ DOMAIN l.gain = Numbers /\ DOMAIN l.win = Numbers
             /\ l.prev = [n \in Numbers |-> l.prev[n]] /\ l.cover = [n \in Numbers |-> l.cover[n]]
             /\ l.gain = [n \in Numbers |-> l.gain[n]] /\ l.win = [n \in Numbers |-> l.win[n]]
             /\ \A h \in Listed :
                  /\ l.prev[Number(h)] = Number(PrevOf(h)) /\ l.cover[Number(h)] = Covered(h)
                  /\ l.gain[Number(h)] = GetScore(h) - GetScore(PrevOf(h))
                  /\ l.win[Number(h)] = Number(GetWinningHypo(h))
<1> DEFINE named(n) == CHOOSE h \in Listed : Number(h) = n
           l == SearchGraph
<1>1. l = [prev  |-> [n \in Numbers |-> Number(PrevOf(named(n)))],
           cover |-> [n \in Numbers |-> Covered(named(n))],
           gain  |-> [n \in Numbers |-> GetScore(named(n)) - GetScore(PrevOf(named(n)))],
           win   |-> [n \in Numbers |-> Number(GetWinningHypo(named(n)))]]
  BY DEF SearchGraph, Numbers, Listed, PrevOf, Covered
<1>2. ASSUME NEW h \in Listed PROVE named(Number(h)) = h /\ Number(h) \in Numbers
  <2>1. named(Number(h)) \in Listed /\ Number(named(Number(h))) = Number(h)
    OBVIOUS
  <2> HIDE DEF named
  <2>2. named(Number(h)) = h
    BY <2>1, ListedTyped, NumberTells
  <2>3. QED
    BY <2>2 DEF Numbers
<1> HIDE DEF named, l
<1>3. /\ l.prev = [n \in Numbers |-> Number(PrevOf(named(n)))]
      /\ l.cover = [n \in Numbers |-> Covered(named(n))]
      /\ l.gain = [n \in Numbers |-> GetScore(named(n)) - GetScore(PrevOf(named(n)))]
      /\ l.win = [n \in Numbers |-> Number(GetWinningHypo(named(n)))]
  BY <1>1
<1>4. ASSUME NEW h \in Listed
      PROVE  /\ l.prev[Number(h)] = Number(PrevOf(h)) /\ l.cover[Number(h)] = Covered(h)
             /\ l.gain[Number(h)] = GetScore(h) - GetScore(PrevOf(h))
             /\ l.win[Number(h)] = Number(GetWinningHypo(h))
  BY <1>2, <1>3
<1>5. QED
  BY <1>3, <1>4 DEF l

LEMMA SearchGraphTyped ==
  ASSUME InputsKept, LinksSound
  PROVE  Lattice!LatticeType(SearchGraph)
<1> DEFINE l == SearchGraph
<1>1. /\ DOMAIN l.prev = Numbers
      /\ l.prev = [n \in Numbers |-> l.prev[n]] /\ l.cover = [n \in Numbers |-> l.cover[n]]
      /\ l.gain = [n \in Numbers |-> l.gain[n]] /\ l.win = [n \in Numbers |-> l.win[n]]
      /\ \A h \in Listed :
           /\ l.prev[Number(h)] = Number(PrevOf(h)) /\ l.cover[Number(h)] = Covered(h)
           /\ l.gain[Number(h)] = GetScore(h) - GetScore(PrevOf(h))
           /\ l.win[Number(h)] = Number(GetWinningHypo(h))
  BY LatticeSays
<1> HIDE DEF l
<1>2. Numbers \subseteq Nat /\ IsFiniteSet(Numbers) /\ 0 \in Numbers
  <2>1. Numbers \subseteq Nat
    BY ListedTyped, NumberFromFront DEF Numbers
  <2>2. IsFiniteSet(Numbers)
    <3> DEFINE f == [h \in Listed |-> Number(h)]
    <3>1. { f[h] : h \in Listed } = Numbers
      BY DEF Numbers
    <3> HIDE DEF f
    <3>2. QED
      BY <3>1, ListedTyped, ImageFinite
  <2>3. Number(<< >>) = 0 /\ << >> \in Listed
    BY ListedTyped, NumberFromFront
  <2>4. QED
    BY <2>1, <2>2, <2>3 DEF Numbers
<1>3. ASSUME NEW n \in Numbers
      PROVE  l.prev[n] \in Numbers /\ l.win[n] \in Numbers /\ l.cover[n] \in Nat /\ l.gain[n] \in Int
  <2>1. PICK h \in Listed : n = Number(h)
    BY DEF Numbers
  <2>2. h \in AllMembers /\ PrevOf(h) \in Listed /\ GetWinningHypo(h) \in Listed
    BY ListedClosed, ListedTyped
  <2>3. l.prev[n] \in Numbers /\ l.win[n] \in Numbers
    BY <1>1, <2>1, <2>2 DEF Numbers
  <2>4. l.cover[n] \in Nat
    <3>1. Covered(h) \in 0 .. source.size /\ source.size \in Nat
      BY <2>2, MembersLinked, InputsTyped
    <3>2. l.cover[n] = Covered(h)
      BY <1>1, <2>1
    <3> HIDE DEF l
    <3>3. QED
      BY <3>1, <3>2
  <2>5. l.gain[n] \in Int
    <3> DEFINE a == GetScore(h)
               b == GetScore(PrevOf(h))
    <3>1. a \in Int /\ b \in Int
      BY ListedTyped, ScoresTyped
    <3>2. l.gain[n] = a - b
      BY <1>1, <2>1
    <3> HIDE DEF a, b
    <3>3. QED
      BY <3>1, <3>2
  <2>6. QED
    BY <2>3, <2>4, <2>5
<1>4. Lattice!IsFiniteSet(Numbers)
  BY <1>2, Zenon DEF IsFiniteSet, Lattice!IsFiniteSet
<1>5. /\ l.prev \in [Numbers -> Numbers] /\ l.win \in [Numbers -> Numbers]
      /\ l.cover \in [Numbers -> Nat] /\ l.gain \in [Numbers -> Int]
  BY <1>1, <1>3
<1>6. Lattice!Hyps(l) = Numbers
  BY <1>1 DEF Lattice!Hyps
<1>7. QED
  BY <1>2, <1>4, <1>5, <1>6 DEF Lattice!LatticeType, l

(* Gains add up to scores. *)
LEMMA ScoreOfSearchGraph ==
  ASSUME InputsKept, LinksSound
  PROVE  \A h \in Listed : Lattice!ScoreOf(SearchGraph)[Number(h)] = GetScore(h)
<1> DEFINE l == SearchGraph
<1>1. /\ DOMAIN l.prev = Numbers
      /\ \A h \in Listed :
           /\ l.prev[Number(h)] = Number(PrevOf(h))
           /\ l.gain[Number(h)] = GetScore(h) - GetScore(PrevOf(h))
  BY LatticeSays
<1> HIDE DEF l
<1> DEFINE Step(f, n) == IF n = 0 THEN 0 ELSE f[l.prev[n]] + l.gain[n]
           named(n) == CHOOSE h \in Listed : Number(h) = n
           sol == [n \in Numbers |-> GetScore(named(n))]
<1>2. ASSUME NEW h \in Listed
      PROVE  /\ Number(h) \in Numbers /\ sol[Number(h)] = GetScore(h)
             /\ Number(h) \in Nat /\ h \in Hypotheses
             /\ Number(h) = 0 <=> h = << >>
             /\ PrevOf(h) \in Listed
             /\ h # << >> => Number(PrevOf(h)) < Number(h)
  <2>1. named(Number(h)) \in Listed /\ Number(named(Number(h))) = Number(h)
    OBVIOUS
  <2>2. Number(h) \in Numbers
    BY DEF Numbers
  <2>3. sol[Number(h)] = GetScore(named(Number(h)))
    BY <2>2
  <2> HIDE DEF named, sol
  <2>4. named(Number(h)) = h
    BY <2>1, ListedTyped, NumberTells
  <2>5. /\ h \in Hypotheses /\ PrevOf(h) \in Listed /\ << >> \in Hypotheses
        /\ h # << >> => PrevOf(h) = Front(h)
    BY ListedTyped DEF PrevOf, GetPrevHypo, EmptyHypothesis
  <2>6. Number(h) \in Nat /\ Number(<< >>) = 0
    BY <2>5, NumberFromFront
  <2>7. Number(h) = 0 => h = << >>
    BY <2>5, <2>6, NumberTells
  <2>8. h # << >> => Number(PrevOf(h)) < Number(h)
    BY <2>5, NumberTells
  <2>9. QED
    BY <2>2, <2>3, <2>4, <2>5, <2>6, <2>7, <2>8
<1>3. sol = [n \in Numbers |-> Step(sol, n)]
  <2>1. ASSUME NEW n \in Numbers PROVE sol[n] = Step(sol, n)
    <3>1. PICK h \in Listed : n = Number(h)
      BY DEF Numbers
    <3> HIDE DEF sol
    <3>2. CASE h = << >>
      <4>1. GetScore(h) = 0
        BY <3>2 DEF GetScore, EmptyHypothesis
      <4>2. QED
        BY <1>2, <3>1, <3>2, <4>1
    <3>3. CASE h # << >>
      <4>1. n # 0 /\ sol[n] = GetScore(h) /\ sol[l.prev[n]] = GetScore(PrevOf(h))
            /\ l.gain[n] = GetScore(h) - GetScore(PrevOf(h))
        BY <1>1, <1>2, <3>1, <3>3
      <4>2. GetScore(h) \in Int /\ GetScore(PrevOf(h)) \in Int
        BY <1>2, ScoresTyped
      <4>3. QED
        BY <4>1, <4>2
    <3>4. QED
      BY <3>2, <3>3
  <2>2. DOMAIN sol = Numbers /\ sol = [n \in Numbers |-> sol[n]]
    OBVIOUS
  <2> HIDE DEF sol, Step
  <2>3. QED
    BY <2>1, <2>2
<1> DEFINE score == CHOOSE f : f = [n \in Numbers |-> Step(f, n)]
<1>4. Lattice!ScoreOf(l) = score
  BY <1>1 DEF Lattice!ScoreOf, Lattice!Hyps
<1>5. score = [n \in Numbers |-> Step(score, n)]
  <2> HIDE DEF Step, sol
  <2>1. QED
    BY <1>3
<1> HIDE DEF score
<1>6. \A n \in Numbers : score[n] = Step(score, n)
  BY <1>5
<1> DEFINE Good == { n \in Nat : \A h \in Listed : Number(h) = n => score[n] = GetScore(h) }
<1>7. ASSUME NEW n \in Nat, \A k \in 0 .. n - 1 : k \in Good PROVE n \in Good
  <2>1. ASSUME NEW h \in Listed, Number(h) = n PROVE score[n] = GetScore(h)
    <3>1. n \in Numbers /\ score[n] = Step(score, n)
      BY <1>2, <1>6, <2>1
    <3>2. CASE h = << >>
      <4>1. GetScore(h) = 0 /\ n = 0
        BY <1>2, <2>1, <3>2 DEF GetScore, EmptyHypothesis
      <4>2. QED
        BY <3>1, <4>1
    <3>3. CASE h # << >>
      <4> DEFINE p == PrevOf(h)
      <4>0. p \in Listed /\ Number(p) < Number(h) /\ Number(h) # 0
        BY <1>2, <3>3
      <4>5. l.prev[n] = Number(p) /\ l.gain[n] = GetScore(h) - GetScore(p)
        BY <1>1, <2>1
      <4> HIDE DEF p
      <4>6. Number(p) \in Nat
        BY <1>2, <4>0
      <4>7. Number(p) \in 0 .. n - 1
        BY <2>1, <4>0, <4>6
      <4>1. /\ n # 0 /\ p \in Listed /\ Number(p) \in 0 .. n - 1
            /\ l.prev[n] = Number(p) /\ l.gain[n] = GetScore(h) - GetScore(p)
        BY <2>1, <4>0, <4>5, <4>7
      <4>2. score[Number(p)] = GetScore(p)
        BY <1>7, <4>1
      <4>3. GetScore(h) \in Int /\ GetScore(p) \in Int
        BY <1>2, <4>1, ScoresTyped
      <4>4. QED
        BY <3>1, <4>1, <4>2, <4>3
    <3>4. QED
      BY <3>2, <3>3
  <2>2. QED
    BY <2>1
<1>8. \A n \in Nat : n \in Good
  <2> HIDE DEF Good
  <2>1. QED
    BY <1>7, StrongInduction
<1>9. QED
  BY <1>2, <1>4, <1>8 DEF l

(* What can be recombined covers the same. *)
LEMMA SameCoverage ==
  ASSUME InputsKept, NEW h \in Hypotheses, NEW w \in Hypotheses, Recombine(h, w)
  PROVE  GetWordsBitmap(h) = GetWordsBitmap(w)
<1> DEFINE bits(x) == [p \in 1 .. source.size |-> IF p - 1 \in GetWordsBitmap(x) THEN 1 ELSE 0]
<1>1. bits(h) = bits(w)
  BY DEF Recombine, RecombineKey
<1>2. source.size \in Nat
  BY InputsTyped
<1>3. ASSUME NEW p \in 0 .. source.size - 1
      PROVE  p \in GetWordsBitmap(h) <=> p \in GetWordsBitmap(w)
  <2>1. p + 1 \in 1 .. source.size /\ p + 1 - 1 = p
    BY <1>2
  <2>2. bits(h)[p + 1] = bits(w)[p + 1]
    BY <1>1
  <2>3. (IF p \in GetWordsBitmap(h) THEN 1 ELSE 0) = (IF p \in GetWordsBitmap(w) THEN 1 ELSE 0)
    BY <2>1, <2>2
  <2>4. QED
    BY <2>3
<1>4. GetWordsBitmap(h) \subseteq 0 .. source.size - 1
      /\ GetWordsBitmap(w) \subseteq 0 .. source.size - 1
  BY CoveredTyped
<1>5. QED
  BY <1>3, <1>4

(* Of hypotheses that can be recombined the better has the better score:   *)
(* to both the same may come. *)
LEMMA ScoreNotWorse ==
  ASSUME InputsKept, NEW h \in Hypotheses, NEW w \in Hypotheses, Recombine(h, w),
         GetTotalScore(h) <= GetTotalScore(w), Covered(h) = Covered(w)
  PROVE  GetScore(h) <= GetScore(w)
<1>1. h = << >> <=> w = << >>
  BY CoveredTyped
<1>2. CASE ~(Evaluated(h) /\ h # EmptyHypothesis)
  <2>1. GetScore(h) = 0
    BY <1>2 DEF GetScore
  <2>2. GetScore(w) = 0
    BY <1>1, <1>2 DEF GetScore, Evaluated, EmptyHypothesis
  <2>3. QED
    BY <2>1, <2>2
<1>3. CASE Evaluated(h) /\ h # EmptyHypothesis
  <2>1. Evaluated(w) /\ w # EmptyHypothesis
    BY <1>1, <1>3 DEF Evaluated, EmptyHypothesis
  <2>2. GetWordsBitmap(h) = GetWordsBitmap(w)
    BY SameCoverage
  <2> DEFINE F == CalcFutureScore(GetWordsBitmap(h))
  <2>3. /\ GetTotalScore(h) = Score(h) + F /\ GetTotalScore(w) = Score(w) + F
        /\ GetScore(h) = Score(h) /\ GetScore(w) = Score(w)
    BY <1>3, <2>1, <2>2 DEF GetTotalScore, GetScore
  <2>4. Score(h) \in Int /\ Score(w) \in Int /\ F \in Int
    <3>1. GetScore(h) \in Int /\ GetScore(w) \in Int
      BY ScoresTyped
    <3>2. F \in Int
      BY FutureTyped
    <3>3. QED
      BY <2>3, <3>1, <3>2
  <2> HIDE DEF F
  <2>5. QED
    BY <2>3, <2>4
<1>4. QED
  BY <1>2, <1>3

LEMMA SearchGraphOK ==
  ASSUME InputsKept, LinksSound
  PROVE  Lattice!LatticeOK(SearchGraph)
<1> DEFINE l == SearchGraph
<1>1. /\ DOMAIN l.prev = Numbers
      /\ \A h \in Listed :
           /\ l.prev[Number(h)] = Number(PrevOf(h)) /\ l.cover[Number(h)] = Covered(h)
           /\ l.win[Number(h)] = Number(GetWinningHypo(h))
  BY LatticeSays
<1>2. \A h \in Listed : Lattice!ScoreOf(l)[Number(h)] = GetScore(h)
  BY ScoreOfSearchGraph
<1> HIDE DEF l
<1>3. Lattice!Hyps(l) = Numbers
  BY <1>1 DEF Lattice!Hyps
<1>4. ASSUME NEW h \in Listed
      PROVE  /\ h \in AllMembers /\ h \in Hypotheses /\ Number(h) \in Numbers
             /\ GetWinningHypo(h) \in Listed /\ PrevOf(h) \in Listed
             /\ GetWinningHypo(h) \in AllMembers /\ GetWinningHypo(h) \in Hypotheses
             /\ h # << >> => /\ PrevOf(h) = Front(h) /\ Number(Front(h)) < Number(h)
                             /\ Front(h) \in Hypos(StackOf(Front(h))) /\ Front(h) \in AllMembers
  <2>1. h \in AllMembers /\ GetWinningHypo(h) \in Listed /\ PrevOf(h) \in Listed
    BY ListedClosed, ListedTyped
  <2>2. GetWinningHypo(h) \in AllMembers
    BY <2>1, ListedClosed
  <2>3. h \in Hypotheses /\ GetWinningHypo(h) \in Hypotheses
    BY <2>1, <2>2, MembersLinked
  <2>4. h # << >> => PrevOf(h) = Front(h)
    BY DEF PrevOf, GetPrevHypo, EmptyHypothesis
  <2>5. h # << >> => Number(Front(h)) < Number(h)
    BY <2>3, NumberTells
  <2>6. Front(h) \in Hypos(StackOf(Front(h))) /\ Front(h) \in AllMembers
    BY <2>1, MembersLinked
  <2>7. QED
    BY <2>1, <2>2, <2>3, <2>4, <2>5, <2>6 DEF Numbers
<1>5. ASSUME NEW h \in AllMembers, h \in Hypos(StackOf(h))
      PROVE  GetWinningHypo(h) = h
  BY <1>5, WinnerOf DEF Recombine
<1>6. ASSUME NEW h \in Listed
      PROVE  /\ GetWinningHypo(GetWinningHypo(h)) = GetWinningHypo(h)
             /\ h # << >> => GetWinningHypo(Front(h)) = Front(h)
  <2> DEFINE w == GetWinningHypo(h)
  <2>1. w \in Hypos(StackOf(h)) /\ w \in AllMembers /\ Covered(w) = Covered(h)
    BY <1>4, WinnerOf
  <2> HIDE DEF w
  <2>2. StackOf(w) = StackOf(h)
    BY <2>1 DEF StackOf, Covered
  <2>3. GetWinningHypo(w) = w
    BY <1>5, <2>1, <2>2
  <2>4. h # << >> => GetWinningHypo(Front(h)) = Front(h)
    BY <1>4, <1>5
  <2>5. QED
    BY <2>3, <2>4 DEF w
<1>7. << >> \in Listed /\ Number(<< >>) = 0 /\ Covered(<< >>) = 0 /\ GetWinningHypo(<< >>) = << >>
  <2>1. << >> \in Listed /\ << >> \in AllMembers /\ << >> \in Hypotheses
    BY <1>4, ListedTyped
  <2>2. Number(<< >>) = 0 /\ Covered(<< >>) = 0
    BY <2>1, NumberFromFront, CoveredTyped
  <2>3. << >> \in Hypos(StackOf(<< >>))
    <3>1. StackOf(<< >>) = m_hypoStackColl[0]
      BY <2>2 DEF StackOf, Covered
    <3>2. QED
      BY <3>1 DEF LinksSound, GraphGood, Hypos, EmptyHypothesis
  <2>4. QED
    BY <1>5, <2>1, <2>2, <2>3
<1>8. l.cover[0] = 0 /\ l.win[0] = 0
  BY <1>1, <1>7
<1>9. Lattice!Length(l) \in Int /\ Lattice!Length(l) <= source.size
  <2> DEFINE S == { l.cover[n] : n \in Numbers }
  <2>1. S \subseteq 0 .. source.size /\ 0 \in S
    <3>1. ASSUME NEW n \in Numbers PROVE l.cover[n] \in 0 .. source.size
      <4>1. PICK h \in Listed : n = Number(h)
        BY DEF Numbers
      <4>2. Covered(h) \in 0 .. source.size
        BY <1>4, MembersLinked
      <4>3. QED
        BY <1>1, <4>1, <4>2
    <3>2. 0 \in Numbers
      BY <1>7 DEF Numbers
    <3>3. QED
      BY <1>8, <3>1, <3>2
  <2>2. source.size \in Nat
    BY InputsTyped
  <2>3. Lattice!Length(l) = Max(S)
    BY <1>3, Zenon DEF Lattice!Length, Lattice!Max, Max
  <2> HIDE DEF S
  <2>4. Max(S) \in S
    BY <2>1, <2>2, MaxIn
  <2> DEFINE m == Max(S)
             length == Lattice!Length(l)
  <2>5. m \in 0 .. source.size /\ length = m
    BY <2>1, <2>3, <2>4
  <2> HIDE DEF m, length
  <2>6. length \in Int /\ length <= source.size
    BY <2>2, <2>5
  <2>7. QED
    BY <2>6 DEF length
<1>10. ASSUME NEW n \in Numbers \ {0}
       PROVE  /\ l.prev[n] < n /\ l.prev[n] \in Lattice!Winners(l)
              /\ l.cover[l.prev[n]] < l.cover[n]
              /\ l.win[n] \in Lattice!Winners(l) /\ l.cover[l.win[n]] = l.cover[n]
              /\ l.cover[n] < Lattice!Length(l) => \E k \in Numbers \ {0} : l.prev[k] = l.win[n]
              /\ Lattice!ScoreOf(l)[n] <= Lattice!ScoreOf(l)[l.win[n]]
  <2>1. PICK h \in Listed : n = Number(h)
    BY DEF Numbers
  <2>2. h # << >>
    BY <1>7, <2>1
  <2> DEFINE w == GetWinningHypo(h)
             p == Front(h)
  <2>3. /\ w \in Listed /\ p \in Listed /\ w \in Hypotheses /\ h \in AllMembers
        /\ l.prev[n] = Number(p) /\ l.win[n] = Number(w) /\ Number(p) < Number(h)
        /\ Number(w) \in Numbers /\ Number(p) \in Numbers /\ h \in Hypotheses
    BY <1>1, <1>4, <2>1, <2>2
  <2>4. GetWinningHypo(w) = w /\ GetWinningHypo(p) = p
    BY <1>6, <2>2
  <2>5. Covered(p) < Covered(h) /\ Covered(w) = Covered(h) /\ Recombine(h, w)
        /\ GetTotalScore(h) <= GetTotalScore(w)
    BY <2>2, <2>3, MembersLinked, WinnerOf
  <2>6. Covered(h) < source.size => \E g \in Listed : g # << >> /\ Front(g) = w
    BY <2>2, ListedClosed
  <2> HIDE DEF w, p
  <2>7. Number(p) \in Lattice!Winners(l) /\ Number(w) \in Lattice!Winners(l)
    BY <1>1, <1>3, <2>3, <2>4 DEF Lattice!Winners
  <2>8. l.cover[n] = Covered(h) /\ l.cover[Number(w)] = Covered(w) /\ l.cover[Number(p)] = Covered(p)
    BY <1>1, <2>1, <2>3
  <2>9. ASSUME l.cover[n] < Lattice!Length(l) PROVE \E k \in Numbers \ {0} : l.prev[k] = l.win[n]
    <3>1. Covered(h) \in 0 .. source.size /\ source.size \in Nat
      BY <2>3, MembersLinked, InputsTyped
    <3>2. Covered(h) < source.size
      BY <1>9, <2>8, <2>9, <3>1
    <3>3. PICK g \in Listed : g # << >> /\ Front(g) = w
      BY <2>6, <3>2
    <3>4. l.prev[Number(g)] = Number(w) /\ Number(g) \in Numbers
      BY <1>1, <1>4, <3>3
    <3>5. Number(g) # 0
      BY <1>4, <1>7, <3>3, ListedTyped, NumberTells
    <3>6. QED
      BY <2>3, <3>4, <3>5
  <2>10. Lattice!ScoreOf(l)[n] <= Lattice!ScoreOf(l)[l.win[n]]
    <3>1. GetScore(h) <= GetScore(w)
      BY <2>3, <2>5, ScoreNotWorse
    <3>2. QED
      BY <1>2, <2>1, <2>3, <3>1
  <2>11. QED
    BY <2>1, <2>3, <2>5, <2>7, <2>8, <2>9, <2>10
<1>11. QED
  BY <1>3, <1>8, <1>10 DEF Lattice!LatticeOK, l

(* The stacks and arcs are a graph all the time, and in the end the graph  *)
(* is one that states and transitions can be made for: whatever is pruned, *)
(* recombined, cut or given up, CreateGraph gets what it takes for         *)
(* granted. *)
THEOREM GraphAlwaysSound == Spec => []GraphSound
<1>1. IInv /\ LinksSound => GraphSound
  <2> SUFFICES ASSUME IInv, LinksSound PROVE GraphSound
    OBVIOUS
  <2>1. InputsKept
    BY DEF IInv
  <2>2. DOMAIN m_hypoStackColl = 0 .. source.size
    BY DEF LinksSound, GraphGood
  <2>3. ASSUME NEW k \in 0 .. source.size, NEW x \in Members(m_hypoStackColl[k])
        PROVE  x = EmptyHypothesis \/ GetPrevHypo(x) \in Hypos(StackOf(GetPrevHypo(x)))
    <3>1. x \in AllMembers
      BY DEF AllMembers
    <3>2. QED
      BY <2>1, <3>1, MembersLinked DEF GetPrevHypo
  <2>4. ASSUME NEW k \in 0 .. source.size, NEW h \in Hypos(m_hypoStackColl[k]),
               NEW a \in m_hypoStackColl[k].m_hypos[h]
        PROVE  /\ Recombine(a, h) /\ GetTotalScore(a) <= GetTotalScore(h)
               /\ \A g \in Hypos(m_hypoStackColl[k]) :
                    g = a \/ a \in m_hypoStackColl[k].m_hypos[g] => g = h /\ g # a
    <3> DEFINE s == m_hypoStackColl[k]
    <3>1. StackGood(s, k)
      BY DEF LinksSound, GraphGood
    <3> HIDE DEF s
    <3>2. h \in Hypos(s) /\ a \in s.m_hypos[h]
      BY DEF s
    <3>3. Recombine(a, h) /\ GetTotalScore(a) <= GetTotalScore(h) /\ a # h
      BY <3>1, <3>2 DEF StackGood, ArcsGood
    <3>4. ASSUME NEW g \in Hypos(s), g = a \/ a \in s.m_hypos[g] PROVE g = h /\ g # a
      <4>1. Recombine(a, g)
        BY <3>1, <3>4 DEF StackGood, ArcsGood, Recombine
      <4>2. Recombine(g, h)
        BY <3>3, <4>1 DEF Recombine
      <4>3. g = h
        BY <3>1, <3>2, <4>2 DEF StackGood
      <4>4. QED
        BY <3>3, <4>3
    <3>5. QED
      BY <3>3, <3>4 DEF s
  <2>5. Lattice!LatticeType(SearchGraph) /\ Lattice!LatticeOK(SearchGraph)
    BY <2>1, SearchGraphTyped, SearchGraphOK
  <2>6. \A k \in 0 .. source.size : \A h \in Hypos(m_hypoStackColl[k]) :
          h \in Members(m_hypoStackColl[k])
          /\ m_hypoStackColl[k].m_hypos[h] \subseteq Members(m_hypoStackColl[k])
    BY DEF Members
  <2>7. QED
    BY <2>2, <2>3, <2>4, <2>5, <2>6 DEF GraphSound
<1>2. QED
  BY <1>1, LinksInvariance, PTL

-------------------------------------------------------------------------
(* What is left of a stack that is cut. *)

(* A list in order holds everything once. *)
LEMMA ListedOnce ==
  ASSUME NEW T, IsFiniteSet(T), NEW q, InOrder(q, T)
  PROVE  /\ Len(q) \in Nat /\ DOMAIN q = 1 .. Len(q) /\ \A i \in DOMAIN q : q[i] \in T
         /\ \A i, j \in DOMAIN q : q[i] = q[j] => i = j
         /\ \A I \in SUBSET DOMAIN q :
              IsFiniteSet(I) /\ Cardinality({ q[i] : i \in I }) = Cardinality(I)
<1>1. q \in Seq(T) /\ Len(q) = Cardinality(T) /\ \A x \in T : \E i \in DOMAIN q : q[i] = x
  BY DEF InOrder
<1>2. Len(q) \in Nat /\ DOMAIN q = 1 .. Len(q) /\ \A i \in DOMAIN q : q[i] \in T
  BY <1>1, ElementsOf
<1>3. IsFiniteSet(DOMAIN q) /\ Cardinality(DOMAIN q) = Cardinality(T)
  <2>1. IsFiniteSet(1 .. Len(q)) /\ Cardinality(1 .. Len(q)) = Len(q)
    BY <1>2, FS_Interval
  <2>2. QED
    BY <1>1, <1>2, <2>1
<1>4. q \in Surjection(DOMAIN q, T)
  <2>1. q \in [DOMAIN q -> T]
    BY <1>1, <1>2
  <2>2. QED
    BY <1>1, <2>1 DEF Surjection
<1>5. q \in Injection(DOMAIN q, T)
  BY <1>3, <1>4, FS_SurjSameCardinalityImpliesInj
<1>6. \A i, j \in DOMAIN q : q[i] = q[j] => i = j
  BY <1>5 DEF Injection, IsInjective
<1>7. ASSUME NEW I \in SUBSET DOMAIN q
      PROVE  IsFiniteSet(I) /\ Cardinality({ q[i] : i \in I }) = Cardinality(I)
  <2> DEFINE f == [i \in I |-> q[i]]
             U == { q[i] : i \in I }
  <2>1. IsFiniteSet(I)
    BY <1>3, FS_Subset
  <2>2. f \in Bijection(I, U)
    <3>1. f \in [I -> U] /\ \A u \in U : \E i \in I : f[i] = u
      OBVIOUS
    <3>2. \A i, j \in I : f[i] = f[j] => i = j
      BY <1>6
    <3>4. DOMAIN f = I
      OBVIOUS
    <3> HIDE DEF f, U
    <3>3. QED
      BY <3>1, <3>2, <3>4 DEF Bijection, Surjection, Injection, IsInjective
  <2>3. ExistsBijection(I, U)
    BY <2>2 DEF ExistsBijection
  <2>4. QED
    BY <2>1, <2>3, FS_Bijection
<1>8. QED
  BY <1>2, <1>6, <1>7

Alike(S, B) == { h \in S : GetWordsBitmap(h) = B }

(* A set of hypotheses, D, holds the best of each coverage: as many as are *)
(* to be kept, or all. *)
DiverseOnes(D, S) ==
  /\ D \subseteq S
  /\ \A B : /\ Cardinality(Alike(D, B)) <= param.minHypoStackDiversity
            /\ \/ Alike(S, B) \subseteq D
               \/ Cardinality(Alike(D, B)) = param.minHypoStackDiversity
            /\ \A g \in Alike(D, B) : \A h \in Alike(S, B) \ D :
                 GetTotalScore(h) <= GetTotalScore(g)

Beam(s) == s.m_bestScore + param.beamWidth

WithinBeam(s, D) == { h \in Hypos(s) \ D : GetTotalScore(h) > Beam(s) }

(* ... and A the best of the rest, as many as there is room for. *)
AddedOnes(A, D, s, newSize) ==
  /\ A \subseteq WithinBeam(s, D)
  /\ \/ Cardinality(D) >= newSize
     \/ A = WithinBeam(s, D)
     \/ Cardinality(D) + Cardinality(A) = newSize
  /\ \A g \in A : \A h \in WithinBeam(s, D) \ A : GetTotalScore(h) <= GetTotalScore(g)

WorstAdded(t, s, D, A, newSize) ==
  \/ /\ t.m_worstScore = s.m_worstScore
     /\ Cardinality(D) >= newSize \/ A = WithinBeam(s, D)
  \/ /\ Cardinality(D) + Cardinality(A) = newSize
     /\ \E g \in A : t.m_worstScore = GetTotalScore(g)
     /\ \A h \in A : t.m_worstScore <= GetTotalScore(h)

(* The worst score of a coverage. *)
DiverseScore(t, s, D, id) ==
  \/ \E B : /\ GetID(B) = id /\ Cardinality(Alike(D, B)) = param.minHypoStackDiversity
            /\ \A h \in Alike(D, B) : t.m_diversityWorstScore[id] <= GetTotalScore(h)
            /\ \E h \in Alike(D, B) : t.m_diversityWorstScore[id] = GetTotalScore(h)
  \/ /\ id \in DOMAIN s.m_diversityWorstScore
     /\ t.m_diversityWorstScore[id] = s.m_diversityWorstScore[id]
     /\ \/ param.minHypoStackDiversity = 0
        \/ \A B : GetID(B) = id => Alike(Hypos(s), B) \subseteq D

CutTo(t, s, D, A, newSize) ==
  /\ Hypos(t) = D \cup A /\ t.m_bestScore = s.m_bestScore
  /\ DiverseOnes(D, Hypos(s)) /\ AddedOnes(A, D, s, newSize)
  /\ WorstAdded(t, s, D, A, newSize)
  /\ \A id \in DOMAIN t.m_diversityWorstScore : DiverseScore(t, s, D, id)

(* What the places in a sorted list hold. *)
At(q, I) == { q[i] : i \in I }

(* The places of a coverage. *)
Places(q, B) == { i \in DOMAIN q : GetWordsBitmap(q[i]) = B }

LEMMA DiversePlaces ==
  ASSUME InputsKept, NEW S, IsFiniteSet(S), NEW q, InOrder(q, S), NEW B
  PROVE  /\ Places(q, B) \subseteq Nat /\ IsFiniteSet(Places(q, B))
         /\ Diverse(q) \cap Places(q, B) = First(Places(q, B), param.minHypoStackDiversity)
         /\ At(q, Diverse(q) \cap Places(q, B)) = Alike(At(q, Diverse(q)), B)
         /\ At(q, Places(q, B)) = Alike(S, B)
<1> DEFINE C == Places(q, B)
           m == param.minHypoStackDiversity
<1>1. Len(q) \in Nat /\ DOMAIN q = 1 .. Len(q) /\ \A i \in DOMAIN q : q[i] \in S
  BY ListedOnce
<1>2. C \subseteq Nat /\ C \subseteq DOMAIN q
  BY <1>1 DEF Places
<1>3. IsFiniteSet(C)
  BY <1>2, ListedOnce
<1>4. ASSUME NEW i \in C
      PROVE  { j \in 1 .. i - 1 : GetWordsBitmap(q[j]) = GetWordsBitmap(q[i]) } = { j \in C : j < i }
  <2>1. i \in 1 .. Len(q) /\ GetWordsBitmap(q[i]) = B
    BY <1>1 DEF Places
  <2>2. ASSUME NEW j
        PROVE  j \in 1 .. i - 1 <=> j \in 1 .. Len(q) /\ j < i
    BY <1>1, <2>1
  <2>3. QED
    BY <1>1, <2>1, <2>2 DEF Places
<1>5. Diverse(q) \cap C = First(C, m)
  BY <1>2, <1>4 DEF Diverse, First
<1>6. At(q, Diverse(q) \cap C) = Alike(At(q, Diverse(q)), B)
  BY DEF At, Alike, Places, Diverse
<1>7. At(q, C) = Alike(S, B)
  BY <1>1 DEF At, Alike, Places, InOrder
<1>8. QED
  BY <1>2, <1>3, <1>5, <1>6, <1>7

LEMMA DiverseAreDiverse ==
  ASSUME InputsKept, NEW S, IsFiniteSet(S), NEW q, InOrder(q, S)
  PROVE  DiverseOnes(At(q, Diverse(q)), S)
<1> DEFINE D == At(q, Diverse(q))
           m == param.minHypoStackDiversity
<1>1. DOMAIN q = 1 .. Len(q) /\ Len(q) \in Nat /\ \A i \in DOMAIN q : q[i] \in S
  BY ListedOnce
<1>2. D \subseteq S
  BY <1>1 DEF At, Diverse
<1>3. m \in Nat
  BY SettingsTyped
<1>4. ASSUME NEW B
      PROVE  /\ Cardinality(Alike(D, B)) <= m
             /\ Alike(S, B) \subseteq D \/ Cardinality(Alike(D, B)) = m
             /\ \A g \in Alike(D, B) : \A h \in Alike(S, B) \ D :
                  GetTotalScore(h) <= GetTotalScore(g)
  <2> DEFINE C == Places(q, B)
             F == First(C, m)
  <2>1. /\ C \subseteq Nat /\ IsFiniteSet(C) /\ Diverse(q) \cap C = F
        /\ At(q, F) = Alike(D, B) /\ At(q, C) = Alike(S, B)
    <3>1. /\ C \subseteq Nat /\ IsFiniteSet(C) /\ Diverse(q) \cap C = F
          /\ At(q, Diverse(q) \cap C) = Alike(D, B) /\ At(q, C) = Alike(S, B)
      BY DiversePlaces
    <3> HIDE DEF C, F, D
    <3>2. QED
      BY <3>1
  <2>2. C \subseteq DOMAIN q /\ F \subseteq C
    BY DEF Places, First
  <2>3. Cardinality(Alike(D, B)) = Cardinality(F)
    <3>1. F \in SUBSET DOMAIN q
      BY <2>2
    <3>2. Cardinality({ q[i] : i \in F }) = Cardinality(F)
      BY <3>1, ListedOnce
    <3>3. QED
      BY <2>1, <3>2 DEF At
  <2>4. Cardinality(F) <= m /\ (F = C \/ Cardinality(F) = m)
    BY <1>3, <2>1, FirstOnes
  <2>5. F = C => Alike(S, B) \subseteq D
    BY <2>1 DEF Alike
  <2>6. ASSUME NEW g \in Alike(D, B), NEW h \in Alike(S, B) \ D
        PROVE  GetTotalScore(h) <= GetTotalScore(g)
    <3>1. PICK i \in F : q[i] = g
      BY <2>1 DEF At
    <3>2. PICK j \in C : q[j] = h
      BY <2>1 DEF At
    <3>3. j \notin F
      BY <2>1, <2>6, <3>2 DEF At
    <3>4. i < j
      BY <1>3, <2>1, <3>3, FirstComeFirst
    <3>5. i \in DOMAIN q /\ j \in DOMAIN q
      BY <2>2
    <3>6. QED
      BY <3>1, <3>2, <3>4, <3>5 DEF InOrder
  <2> HIDE DEF C, F
  <2>7. QED
    BY <2>3, <2>4, <2>5, <2>6
<1> HIDE DEF D
<1>5. QED
  BY <1>2, <1>4 DEF DiverseOnes, D

(* How many of a coverage come up to a place. *)
UpTo(q, i) == { j \in 1 .. i : GetWordsBitmap(q[j]) = GetWordsBitmap(q[i]) }

LastOnes(q) ==
  { i \in Diverse(q) : Cardinality(UpTo(q, i)) = param.minHypoStackDiversity }

(* The last of the diverse ones of a coverage that has enough. *)
LEMMA LastOfEnough ==
  ASSUME InputsKept, NEW S, IsFiniteSet(S), S \subseteq Hypotheses, NEW q, InOrder(q, S), NEW B
  PROVE  LET D == At(q, Diverse(q))
             m == param.minHypoStackDiversity
         IN  /\ \A i \in LastOnes(q) : GetWordsBitmap(q[i]) = B =>
                  /\ Cardinality(Alike(D, B)) = m
                  /\ q[i] \in Alike(D, B)
                  /\ \A h \in Alike(D, B) : GetTotalScore(q[i]) <= GetTotalScore(h)
             /\ m # 0 /\ (\A i \in LastOnes(q) : GetWordsBitmap(q[i]) # B) =>
                  Alike(S, B) \subseteq D
<1> DEFINE C == Places(q, B)
           m == param.minHypoStackDiversity
           F == First(C, m)
           D == At(q, Diverse(q))
<1>1. Len(q) \in Nat /\ DOMAIN q = 1 .. Len(q) /\ \A i \in DOMAIN q : q[i] \in S
  BY ListedOnce
<1>2. m \in Nat
  BY SettingsTyped
<1>3. /\ C \subseteq Nat /\ IsFiniteSet(C) /\ Diverse(q) \cap C = F
      /\ At(q, F) = Alike(D, B) /\ At(q, C) = Alike(S, B)
  <2>1. /\ C \subseteq Nat /\ IsFiniteSet(C) /\ Diverse(q) \cap C = F
        /\ At(q, Diverse(q) \cap C) = Alike(D, B) /\ At(q, C) = Alike(S, B)
    BY DiversePlaces
  <2> HIDE DEF C, F, D
  <2>2. QED
    BY <2>1
<1>4. C \subseteq DOMAIN q /\ F \subseteq C
  BY DEF Places, First
<1>5. Cardinality(Alike(D, B)) = Cardinality(F) /\ IsFiniteSet(F)
  <2>1. F \in SUBSET DOMAIN q
    BY <1>4
  <2>2. IsFiniteSet(F) /\ Cardinality({ q[i] : i \in F }) = Cardinality(F)
    BY <2>1, ListedOnce
  <2>3. QED
    BY <1>3, <2>2 DEF At
<1>6. Cardinality(F) <= m /\ (F = C \/ Cardinality(F) = m)
  BY <1>2, <1>3, FirstOnes
<1>7. ASSUME NEW i \in C
      PROVE  UpTo(q, i) = { j \in C : j <= i }
  <2>1. i \in 1 .. Len(q) /\ GetWordsBitmap(q[i]) = B
    BY <1>1 DEF Places
  <2>2. ASSUME NEW j PROVE j \in 1 .. i <=> j \in 1 .. Len(q) /\ j <= i
    BY <1>1, <2>1
  <2>3. QED
    BY <1>1, <2>1, <2>2 DEF Places, UpTo
<1>8. \A i \in F : \A j \in C : j <= i => j \in F
  <2>1. ASSUME NEW i \in F, NEW j \in C, j <= i, j \notin F PROVE FALSE
    <3>1. i < j
      BY <1>2, <1>3, <2>1, FirstComeFirst
    <3>2. i \in Nat /\ j \in Nat
      BY <1>3, <1>4
    <3>3. QED
      BY <2>1, <3>1, <3>2
  <2>2. QED
    BY <2>1
<1>9. ASSUME NEW i \in LastOnes(q), GetWordsBitmap(q[i]) = B
      PROVE  /\ Cardinality(Alike(D, B)) = m /\ q[i] \in Alike(D, B)
             /\ \A h \in Alike(D, B) : GetTotalScore(q[i]) <= GetTotalScore(h)
  <2>1. i \in F /\ Cardinality(UpTo(q, i)) = m
    <3>1. i \in Diverse(q) /\ Cardinality(UpTo(q, i)) = m
      BY DEF LastOnes
    <3>2. i \in C
      BY <1>9, <3>1 DEF Diverse, Places
    <3>3. QED
      BY <1>3, <3>1, <3>2
  <2>2. UpTo(q, i) \subseteq F
    BY <1>4, <1>7, <1>8, <2>1
  <2>3. F = UpTo(q, i)
    <3>1. Cardinality(UpTo(q, i)) <= Cardinality(F)
      BY <1>5, <2>2, FS_Subset
    <3>2. Cardinality(F) \in Nat
      BY <1>5, FS_CardinalityType
    <3>3. Cardinality(F) = Cardinality(UpTo(q, i))
      BY <1>2, <1>6, <2>1, <3>1, <3>2
    <3>4. QED
      BY <1>5, <2>2, <3>3, FS_Subset
  <2>4. Cardinality(Alike(D, B)) = m
    BY <1>5, <2>1, <2>3
  <2>5. q[i] \in Alike(D, B)
    BY <1>3, <2>1 DEF At
  <2>6. ASSUME NEW h \in Alike(D, B) PROVE GetTotalScore(q[i]) <= GetTotalScore(h)
    <3>1. PICK j \in F : h = q[j]
      BY <1>3 DEF At
    <3>2. i \in DOMAIN q /\ j \in DOMAIN q /\ j <= i
      BY <1>4, <1>7, <2>1, <2>3, <3>1
    <3>3. CASE j = i
      <4>1. GetTotalScore(q[i]) \in Int
        BY <1>1, <3>2, ScoresTyped
      <4>2. QED
        BY <3>1, <3>3, <4>1
    <3>4. CASE j # i
      <4>1. j < i
        BY <1>1, <3>2, <3>4
      <4>2. QED
        BY <3>1, <3>2, <4>1 DEF InOrder
    <3>5. QED
      BY <3>3, <3>4
  <2>7. QED
    BY <2>4, <2>5, <2>6
<1>10. ASSUME m # 0, \A i \in LastOnes(q) : GetWordsBitmap(q[i]) # B
       PROVE  Alike(S, B) \subseteq D
  <2>1. CASE F = C
    BY <1>3, <2>1 DEF Alike
  <2>2. CASE F # C
    <3>1. Cardinality(F) = m
      BY <1>6, <2>2
    <3>2. F # {}
      BY <1>10, <3>1, FS_EmptySet
    <3> DEFINE i == Max(F)
    <3>3. F \subseteq 0 .. Len(q)
      BY <1>1, <1>4
    <3>4. i \in F /\ \A j \in F : j <= i
      BY <1>1, <3>2, <3>3, MaxIn
    <3> HIDE DEF i
    <3>5. UpTo(q, i) = F
      BY <1>4, <1>7, <1>8, <3>4
    <3>6. i \in LastOnes(q) /\ GetWordsBitmap(q[i]) = B
      BY <1>3, <1>4, <3>1, <3>4, <3>5 DEF LastOnes, Places
    <3>7. QED
      BY <1>10, <3>6
  <2>3. QED
    BY <2>1, <2>2
<1>11. QED
  BY <1>9, <1>10

LEMMA DiverseScoresKept ==
  ASSUME InputsKept, NEW s, IsFiniteSet(Hypos(s)), Hypos(s) \subseteq Hypotheses,
         NEW q, InOrder(q, Hypos(s)), NEW t,
         t.m_diversityWorstScore = DiversityScores(s, q),
         NEW id \in DOMAIN t.m_diversityWorstScore
  PROVE  DiverseScore(t, s, At(q, Diverse(q)), id)
<1> DEFINE D == At(q, Diverse(q))
           m == param.minHypoStackDiversity
           ID(i) == GetID(GetWordsBitmap(q[i]))
           known == DOMAIN s.m_diversityWorstScore
           last == LastOnes(q)
           dws == [x \in known \cup { ID(i) : i \in last } |->
                     IF \E i \in last : ID(i) = x
                       THEN GetTotalScore(q[CHOOSE i \in last : ID(i) = x])
                       ELSE s.m_diversityWorstScore[x]]
<1>1. t.m_diversityWorstScore = dws
  BY DEF DiversityScores, LastOnes, UpTo
<1>2. CASE \E i \in last : ID(i) = id
  <2> DEFINE i == CHOOSE i \in last : ID(i) = id
             B == GetWordsBitmap(q[i])
  <2>1. i \in last /\ ID(i) = id
    BY <1>2
  <2>2. dws[id] = GetTotalScore(q[i])
    BY <1>1, <1>2
  <2> HIDE DEF dws, last, i
  <2>3. /\ Cardinality(Alike(D, B)) = m /\ q[i] \in Alike(D, B)
        /\ \A h \in Alike(D, B) : GetTotalScore(q[i]) <= GetTotalScore(h)
    BY <2>1, LastOfEnough DEF last
  <2>4. GetID(B) = id
    BY <2>1
  <2> HIDE DEF D, B
  <2>5. \E b : /\ GetID(b) = id /\ Cardinality(Alike(D, b)) = m
               /\ \A h \in Alike(D, b) : t.m_diversityWorstScore[id] <= GetTotalScore(h)
               /\ \E h \in Alike(D, b) : t.m_diversityWorstScore[id] = GetTotalScore(h)
    BY <1>1, <2>2, <2>3, <2>4
  <2>6. QED
    BY <2>5 DEF DiverseScore, D
<1>3. CASE ~ \E i \in last : ID(i) = id
  <2>1. id \in known /\ dws[id] = s.m_diversityWorstScore[id]
    BY <1>1, <1>3
  <2> HIDE DEF dws
  <2>2. ASSUME m # 0, NEW B, GetID(B) = id PROVE Alike(Hypos(s), B) \subseteq D
    <3>1. \A i \in last : GetWordsBitmap(q[i]) # B
      BY <1>3, <2>2
    <3>2. QED
      BY <2>2, <3>1, LastOfEnough
  <2> HIDE DEF last, D
  <2>3. QED
    BY <1>1, <2>1, <2>2 DEF DiverseScore, D
<1>4. QED
  BY <1>2, <1>3

LEMMA CutIs ==
  ASSUME InputsKept, NEW s, DOMAIN s = Fields, IsFiniteSet(Hypos(s)),
         Hypos(s) \subseteq Hypotheses, NEW newSize \in Nat,
         NEW q \in BestFirst(Hypos(s)), NEW t, t = Cut(s, q, newSize)
  PROVE  \E D, A : CutTo(t, s, D, A, newSize)
<1> DEFINE S == Hypos(s)
           room == newSize - Cardinality(Diverse(q))
           within == { i \in DOMAIN q \ Diverse(q) :
                         GetTotalScore(q[i]) > s.m_bestScore + param.beamWidth }
           added == { i \in within : Cardinality({ j \in within : j <= i }) <= room }
           kept == { h \in Hypos(s) : \E i \in Diverse(q) \cup added : q[i] = h }
           D == At(q, Diverse(q))
           A == At(q, added)
<1>1. InOrder(q, S)
  BY BestFirstInOrder
<1>2. /\ Len(q) \in Nat /\ DOMAIN q = 1 .. Len(q) /\ \A i \in DOMAIN q : q[i] \in S
      /\ \A i, j \in DOMAIN q : q[i] = q[j] => i = j
      /\ \A I \in SUBSET DOMAIN q :
              IsFiniteSet(I) /\ Cardinality({ q[i] : i \in I }) = Cardinality(I)
  BY <1>1, ListedOnce
<1>3. /\ t.m_hypos = [h \in kept |-> s.m_hypos[h]] /\ t.m_bestScore = s.m_bestScore
      /\ t.m_diversityWorstScore = DiversityScores(s, q)
      /\ t.m_worstScore = IF added # {} /\ Cardinality(added) = room
                            THEN GetTotalScore(q[Max(added)]) ELSE s.m_worstScore
  <2>1. t = [s EXCEPT
              !.m_hypos = [h \in kept |-> s.m_hypos[h]],
              !.m_diversityWorstScore = DiversityScores(s, q),
              !.m_worstScore =
                IF added # {} /\ Cardinality(added) = room THEN GetTotalScore(q[Max(added)]) ELSE @]
    BY DEF Cut
  <2> HIDE DEF kept, added, room
  <2>2. QED
    BY <2>1 DEF Fields
<1>4. Diverse(q) \subseteq DOMAIN q /\ within \subseteq DOMAIN q /\ added \subseteq within
  BY DEF Diverse
<1> DEFINE first == First(within, room)
<1>5. Cardinality(Diverse(q)) \in Nat /\ Cardinality(D) = Cardinality(Diverse(q))
      /\ Cardinality(added) \in Nat /\ Cardinality(A) = Cardinality(added) /\ room \in Int
  <2>1. Diverse(q) \in SUBSET DOMAIN q /\ added \in SUBSET DOMAIN q
    BY <1>4
  <2> HIDE DEF added
  <2>2. /\ IsFiniteSet(Diverse(q)) /\ Cardinality({ q[i] : i \in Diverse(q) }) = Cardinality(Diverse(q))
        /\ IsFiniteSet(added) /\ Cardinality({ q[i] : i \in added }) = Cardinality(added)
    BY <1>2, <2>1
  <2>3. Cardinality(Diverse(q)) \in Nat /\ Cardinality(added) \in Nat
    BY <2>2, FS_CardinalityType
  <2>4. QED
    BY <2>2, <2>3 DEF At
<1>6. within \subseteq Nat /\ IsFiniteSet(within)
  <2>1. within \in SUBSET DOMAIN q
    BY <1>4
  <2>2. \A I \in SUBSET DOMAIN q : IsFiniteSet(I)
    BY <1>2
  <2> HIDE DEF within
  <2>3. IsFiniteSet(within)
    BY <2>1, <2>2, Zenon
  <2>4. within \subseteq 1 .. Len(q)
    BY <1>2, <2>1
  <2>5. QED
    BY <1>2, <2>3, <2>4
<1>7. /\ room \in Nat => added = First(within, room)
      /\ room \notin Nat => added = {}
  <2>1. ASSUME NEW i \in within
        PROVE  LET below == { j \in within : j < i }
                   upTo == { j \in within : j <= i }
               IN  /\ Cardinality(below) \in Nat
                   /\ Cardinality(upTo) = Cardinality(below) + 1
    <3> DEFINE below == { j \in within : j < i }
               upTo == { j \in within : j <= i }
    <3>1. below \subseteq within /\ i \notin below
      BY <1>6
    <3>2. IsFiniteSet(below)
      BY <1>6, <3>1, FS_Subset
    <3>3. upTo = below \cup {i}
      BY <1>6
    <3> HIDE DEF below, upTo
    <3>4. QED
      BY <3>1, <3>2, <3>3, FS_AddElement, FS_CardinalityType DEF below, upTo
  <2> DEFINE upTo(i) == Cardinality({ j \in within : j <= i })
             below(i) == Cardinality({ j \in within : j < i })
  <2>2. \A i \in within : below(i) \in Nat /\ upTo(i) = below(i) + 1
    BY <2>1
  <2>3. added = { i \in within : upTo(i) <= room } /\ First(within, room) = { i \in within : below(i) < room }
    BY DEF First
  <2> HIDE DEF upTo, below, within, added, room
  <2>4. \A i \in within : upTo(i) <= room <=> below(i) < room
    BY <1>5, <2>2
  <2>5. room \notin Nat => \A i \in within : ~(upTo(i) <= room)
    BY <1>5, <2>2
  <2>6. QED
    BY <2>3, <2>4, <2>5
<1>8. DiverseOnes(D, S)
  BY <1>1, DiverseAreDiverse
<1>9. At(q, within) = WithinBeam(s, D) /\ A \subseteq WithinBeam(s, D)
  <2>1. ASSUME NEW i \in DOMAIN q PROVE i \in Diverse(q) <=> q[i] \in D
    BY <1>2, <1>4 DEF At
  <2>2. ASSUME NEW h \in WithinBeam(s, D) PROVE h \in At(q, within)
    <3>1. PICK i \in DOMAIN q : q[i] = h
      BY <1>1 DEF InOrder, WithinBeam
    <3>2. i \in within
      BY <2>1, <3>1 DEF WithinBeam, Beam
    <3>3. QED
      BY <3>1, <3>2 DEF At
  <2>3. ASSUME NEW i \in within PROVE q[i] \in WithinBeam(s, D)
    BY <1>2, <2>1 DEF WithinBeam, Beam
  <2>4. At(q, within) = WithinBeam(s, D)
    <3> HIDE DEF within, D
    <3>1. QED
      BY <2>2, <2>3 DEF At
  <2>5. A \subseteq At(q, within)
    BY <1>4 DEF At
  <2>6. QED
    BY <2>4, <2>5
<1>10. Hypos(t) = D \cup A
  <2>1. Hypos(t) = kept
    BY <1>3 DEF Hypos
  <2>2. kept = D \cup A
    <3>1. Diverse(q) \cup added \subseteq DOMAIN q
      BY <1>4
    <3> HIDE DEF added
    <3>2. QED
      BY <1>2, <3>1 DEF At
  <2>3. QED
    BY <2>1, <2>2
<1>11. ASSUME NEW g \in A, NEW h \in WithinBeam(s, D) \ A
       PROVE  GetTotalScore(h) <= GetTotalScore(g)
  <2>1. PICK i \in added : g = q[i]
    BY DEF At
  <2>2. PICK j \in within : h = q[j] /\ j \notin added
    BY <1>9, <1>11 DEF At
  <2> HIDE DEF within, added, room
  <2>3. i < j
    BY <1>6, <1>7, <2>1, <2>2, FirstComeFirst
  <2>4. i \in DOMAIN q /\ j \in DOMAIN q
    BY <1>4, <2>1, <2>2
  <2>5. QED
    BY <1>1, <2>1, <2>2, <2>3, <2>4 DEF InOrder
<1>12. \/ Cardinality(D) > newSize /\ added = {}
       \/ room \in Nat /\ (added = within \/ Cardinality(added) = room)
  <2>1. CASE room \in Nat
    <3> HIDE DEF within, added, room
    <3>1. QED
      BY <1>6, <1>7, <2>1, FirstOnes
  <2>2. CASE room \notin Nat
    BY <1>5, <1>7, <2>2
  <2>3. QED
    BY <2>1, <2>2
<1>13. AddedOnes(A, D, s, newSize)
  <2>1. \/ Cardinality(D) >= newSize
        \/ A = WithinBeam(s, D)
        \/ Cardinality(D) + Cardinality(A) = newSize
    <3>1. CASE Cardinality(D) > newSize /\ added = {}
      BY <1>5, <3>1
    <3>2. CASE added = within
      BY <1>9, <3>2
    <3>3. CASE Cardinality(added) = room
      <4>1. Cardinality(D) + Cardinality(A) = newSize
        BY <1>5, <3>3
      <4>2. QED
        BY <4>1
    <3>4. QED
      BY <1>12, <3>1, <3>2, <3>3
  <2> HIDE DEF A, D
  <2>2. QED
    BY <1>9, <1>11, <2>1 DEF AddedOnes
<1>14. WorstAdded(t, s, D, A, newSize)
  <2>1. CASE added # {} /\ Cardinality(added) = room
    <3> DEFINE i == Max(added)
    <3>1. t.m_worstScore = GetTotalScore(q[i])
      BY <1>3, <2>1
    <3>2. Cardinality(D) + Cardinality(A) = newSize
      BY <1>5, <2>1
    <3>3. added \subseteq 0 .. Len(q)
      BY <1>2, <1>4
    <3> HIDE DEF added
    <3>4. i \in added /\ \A j \in added : j <= i
      BY <1>2, <2>1, <3>3, MaxIn
    <3> HIDE DEF i
    <3>5. ASSUME NEW h \in A PROVE GetTotalScore(q[i]) <= GetTotalScore(h)
      <4>1. PICK j \in added : h = q[j]
        BY DEF At
      <4>2. i \in DOMAIN q /\ j \in DOMAIN q /\ j <= i
        BY <1>4, <3>4, <4>1
      <4>3. CASE j = i
        <5>1. GetTotalScore(q[i]) \in Int
          BY <1>2, <4>2, ScoresTyped
        <5>2. QED
          BY <4>1, <4>3, <5>1
      <4>4. CASE j # i
        <5>1. j < i
          BY <1>2, <4>2, <4>4
        <5>2. QED
          BY <1>1, <4>1, <4>2, <5>1 DEF InOrder
      <4>5. QED
        BY <4>3, <4>4
    <3>6. q[i] \in A
      BY <3>4 DEF At
    <3> HIDE DEF A, D
    <3>7. QED
      BY <3>1, <3>2, <3>5, <3>6 DEF WorstAdded
  <2>2. CASE ~(added # {} /\ Cardinality(added) = room)
    <3>1. t.m_worstScore = s.m_worstScore
      BY <1>3, <2>2
    <3>2. Cardinality(D) >= newSize \/ A = WithinBeam(s, D)
      <4>1. CASE Cardinality(D) > newSize
        BY <1>5, <4>1
      <4>2. CASE added = within
        BY <1>9, <4>2
      <4>3. CASE added = {} /\ Cardinality(added) = room
        <5>1. room = 0
          BY <4>3, FS_EmptySet
        <5>2. QED
          BY <1>5, <5>1
      <4> HIDE DEF added, within, room, D, A
      <4>4. QED
        BY <1>12, <2>2, <4>1, <4>2, <4>3
    <3> HIDE DEF A, D
    <3>3. QED
      BY <3>1, <3>2 DEF WorstAdded
  <2>3. QED
    BY <2>1, <2>2
<1>15. \A id \in DOMAIN t.m_diversityWorstScore : DiverseScore(t, s, D, id)
  BY <1>1, <1>3, DiverseScoresKept
<1> HIDE DEF A, D
<1>16. CutTo(t, s, D, A, newSize)
  BY <1>3, <1>8, <1>10, <1>13, <1>14, <1>15 DEF CutTo
<1>17. QED
  BY <1>16

-------------------------------------------------------------------------
(* What a stack refuses it may refuse. *)

(* K: as many as the stack is to hold that are as good as the worst score, *)
(* or of a coverage of which no more are among them than are to be kept.   *)
Enough(s, K) ==
  /\ K \subseteq Hypos(s) /\ Cardinality(K) >= param.maxHypoStackSize
  /\ \A h \in K : \/ GetTotalScore(h) >= s.m_worstScore
                  \/ Cardinality(Alike(K, GetWordsBitmap(h))) <= param.minHypoStackDiversity

BetterOfID(s, score, id) ==
  { h \in Hypos(s) : GetTotalScore(h) >= score /\ GetID(GetWordsBitmap(h)) = id }

BestThere(s) == s.m_bestScore > -Infinity => \E h \in Hypos(s) : GetTotalScore(h) >= s.m_bestScore

WorstEarned(s) ==
  s.m_worstScore <= -Infinity \/ s.m_worstScore <= Beam(s) \/ \E K : Enough(s, K)

DiversityEarned(s) ==
  \A id \in DOMAIN s.m_diversityWorstScore :
    Cardinality(BetterOfID(s, s.m_diversityWorstScore[id], id)) >= param.minHypoStackDiversity

JustStack(s) ==
  /\ s.m_bestScore \in Int /\ s.m_worstScore \in Int
  /\ \A id \in DOMAIN s.m_diversityWorstScore : s.m_diversityWorstScore[id] \in Int
  /\ BestThere(s) /\ WorstEarned(s) /\ DiversityEarned(s)

LEMMA BeamTyped ==
  ASSUME InputsKept
  PROVE  /\ param.beamWidth \in Int /\ param.beamWidth < 0
         /\ param.minHypoStackDiversity \in Nat /\ param.maxHypoStackSize \in Nat \ {0}
         /\ Infinity \in Nat
BY SettingsTyped, InfinityAssumption, BeamAssumption DEF InputsKept

(* A hypothesis comes, perhaps in place of one it is better than. *)
LEMMA InsertedJust ==
  ASSUME InputsKept, NEW s, JustStack(s), IsFiniteSet(Hypos(s)), Hypos(s) \subseteq Hypotheses,
         NEW h \in Hypotheses, h \notin Hypos(s), NEW e,
         e \in Hypos(s) => /\ GetWordsBitmap(e) = GetWordsBitmap(h)
                           /\ GetTotalScore(h) > GetTotalScore(e),
         NEW r, Hypos(r) = Hypos(s) \ {e}, r.m_bestScore = s.m_bestScore,
         r.m_worstScore = s.m_worstScore, r.m_diversityWorstScore = s.m_diversityWorstScore,
         NEW arcs, NEW t, t = Inserted(r, h, arcs)
  PROVE  JustStack(t) /\ Hypos(t) = (Hypos(s) \ {e}) \cup {h}
<1> DEFINE Swap(S) == IF e \in S THEN (S \ {e}) \cup {h} ELSE S
           total == GetTotalScore(h)
           best == Max({s.m_bestScore, total})
           m == param.minHypoStackDiversity
           id0 == GetID(GetWordsBitmap(h))
<1>1. /\ total \in Int /\ s.m_bestScore \in Int /\ s.m_worstScore \in Int /\ m \in Nat
      /\ Infinity \in Nat /\ param.beamWidth \in Int /\ param.beamWidth < 0
      /\ \A g \in Hypos(s) : GetTotalScore(g) \in Int
  BY ScoresTyped, BeamTyped DEF JustStack
<1>2. /\ best \in Int /\ best >= s.m_bestScore /\ best >= total
      /\ best = s.m_bestScore \/ best = total
  <2> HIDE DEF total
  <2>1. QED
    BY <1>1, MaxOfTwo
<1>3. /\ t.m_hypos = With(r.m_hypos, h, arcs) /\ t.m_bestScore = best
      /\ t.m_worstScore = IF total > s.m_bestScore
                            THEN Max({s.m_worstScore, best + param.beamWidth})
                            ELSE s.m_worstScore
      /\ t.m_diversityWorstScore =
           IF m = 1 /\ total > GetWorstScoreForBitmap(r, id0)
             THEN With(s.m_diversityWorstScore, id0, total) ELSE s.m_diversityWorstScore
  BY DEF Inserted
<1>4. Hypos(t) = (Hypos(s) \ {e}) \cup {h}
  BY <1>3 DEF Hypos, With
<1>5. IsFiniteSet(Hypos(t)) /\ h \in Hypos(t)
  BY <1>4, FS_RemoveElement, FS_AddElement
<1>6. ASSUME NEW S \in SUBSET Hypos(s)
      PROVE  /\ Swap(S) \subseteq Hypos(t) /\ IsFiniteSet(S) /\ IsFiniteSet(Swap(S))
             /\ Cardinality(Swap(S)) = Cardinality(S)
             /\ \A B : Alike(Swap(S), B) = Swap(Alike(S, B))
  <2>1. Swap(S) \subseteq Hypos(t)
    BY <1>4
  <2>2. IsFiniteSet(S) /\ h \notin S
    BY FS_Subset
  <2>3. IsFiniteSet(Swap(S)) /\ Cardinality(Swap(S)) = Cardinality(S)
    BY <2>2, Exchanged
  <2>4. e \in S => GetWordsBitmap(e) = GetWordsBitmap(h)
    OBVIOUS
  <2>5. \A B : Alike(Swap(S), B) = Swap(Alike(S, B))
    BY <2>2, <2>4 DEF Alike
  <2>6. QED
    BY <2>1, <2>2, <2>3, <2>5
<1>7. ASSUME NEW K, Enough(s, K), t.m_worstScore = s.m_worstScore
      PROVE  Enough(t, Swap(K))
  <2>1. K \in SUBSET Hypos(s)
    BY <1>7 DEF Enough
  <2>2. ASSUME NEW B PROVE Cardinality(Alike(Swap(K), B)) = Cardinality(Alike(K, B))
    <3>1. Alike(K, B) \in SUBSET Hypos(s)
      BY <2>1 DEF Alike
    <3>2. Cardinality(Swap(Alike(K, B))) = Cardinality(Alike(K, B))
      BY <1>6, <3>1
    <3>3. Alike(Swap(K), B) = Swap(Alike(K, B))
      BY <1>6, <2>1
    <3> HIDE DEF Swap
    <3>4. QED
      BY <3>2, <3>3
  <2>3. ASSUME NEW x \in Swap(K)
        PROVE  \/ GetTotalScore(x) >= t.m_worstScore
               \/ Cardinality(Alike(Swap(K), GetWordsBitmap(x))) <= m
    <3>1. CASE x \in K
      BY <1>7, <2>2, <3>1 DEF Enough
    <3>2. CASE x \notin K
      <4>1. e \in K /\ x = h
        BY <3>2
      <4>2. e \in Hypos(s) /\ GetWordsBitmap(e) = GetWordsBitmap(h) /\ total > GetTotalScore(e)
        BY <2>1, <4>1
      <4>3. CASE GetTotalScore(e) >= s.m_worstScore
        <5> DEFINE te == GetTotalScore(e)
        <5>1. te \in Int /\ te >= s.m_worstScore /\ total > te
          BY <1>1, <4>2, <4>3
        <5> HIDE DEF te, total
        <5>2. total >= s.m_worstScore
          BY <1>1, <5>1
        <5>3. QED
          BY <1>7, <4>1, <5>2 DEF total
      <4>4. CASE Cardinality(Alike(K, GetWordsBitmap(e))) <= m
        <5>1. Cardinality(Alike(Swap(K), GetWordsBitmap(e))) <= m
          BY <2>2, <4>4
        <5> HIDE DEF Swap
        <5>2. QED
          BY <4>1, <4>2, <5>1
      <4>5. QED
        BY <1>7, <4>1, <4>3, <4>4 DEF Enough
    <3>3. QED
      BY <3>1, <3>2
  <2>4. Swap(K) \subseteq Hypos(t) /\ Cardinality(Swap(K)) = Cardinality(K)
    BY <1>6, <2>1
  <2> HIDE DEF Swap
  <2>5. QED
    BY <1>7, <2>3, <2>4 DEF Enough
<1>8. BestThere(t)
  <2>1. SUFFICES ASSUME best > -Infinity PROVE \E g \in Hypos(t) : GetTotalScore(g) >= best
    BY <1>3 DEF BestThere
  <2>2. CASE best = total
    BY <1>1, <1>5, <2>2
  <2>3. CASE best = s.m_bestScore
    <3>1. PICK g \in Hypos(s) : GetTotalScore(g) >= s.m_bestScore
      BY <2>1, <2>3 DEF JustStack, BestThere
    <3>2. CASE g = e
      <4> DEFINE te == GetTotalScore(e)
      <4>1. te \in Int /\ te >= s.m_bestScore /\ total > te
        BY <1>1, <3>1, <3>2
      <4> HIDE DEF te, total, best
      <4>2. total >= best
        BY <1>1, <2>3, <4>1
      <4>3. QED
        BY <1>5, <4>2 DEF total
    <3>3. CASE g # e
      BY <1>4, <2>3, <3>1, <3>3
    <3>4. QED
      BY <3>2, <3>3
  <2>4. QED
    BY <1>2, <2>2, <2>3
<1>9. WorstEarned(t) /\ t.m_worstScore \in Int
  <2> DEFINE worst == t.m_worstScore
             beam == best + param.beamWidth
  <2>1. beam \in Int /\ Beam(t) = beam /\ s.m_bestScore + param.beamWidth <= beam
    <3>1. Beam(t) = beam
      BY <1>3 DEF Beam
    <3> HIDE DEF best
    <3>2. QED
      BY <1>1, <1>2, <3>1
  <2>2. worst \in Int /\ (worst = s.m_worstScore \/ worst = beam)
    <3>1. worst = Max({s.m_worstScore, beam}) \/ worst = s.m_worstScore
      BY <1>3
    <3> HIDE DEF worst, beam
    <3>2. QED
      BY <1>1, <2>1, <3>1, MaxOfTwo
  <2>3. CASE worst = beam
    <3> HIDE DEF beam
    <3>1. QED
      BY <2>1, <2>2, <2>3 DEF WorstEarned
  <2>4. CASE worst = s.m_worstScore
    <3>1. CASE s.m_worstScore <= -Infinity
      BY <2>2, <2>4, <3>1 DEF WorstEarned
    <3>2. CASE s.m_worstScore <= Beam(s)
      <4> HIDE DEF beam, worst
      <4>1. s.m_worstScore <= s.m_bestScore + param.beamWidth
        BY <3>2 DEF Beam
      <4>2. worst <= beam
        BY <1>1, <2>1, <2>2, <2>4, <4>1
      <4>3. QED
        BY <2>1, <2>2, <4>2 DEF WorstEarned, worst
    <3>3. CASE \E K : Enough(s, K)
      <4>1. PICK K : Enough(s, K)
        BY <3>3
      <4>2. Enough(t, Swap(K))
        BY <1>7, <2>4, <4>1
      <4> HIDE DEF Swap
      <4>3. QED
        BY <2>2, <4>2 DEF WorstEarned
    <3>4. QED
      BY <3>1, <3>2, <3>3 DEF JustStack, WorstEarned
  <2>5. QED
    BY <2>2, <2>3, <2>4
<1>10. ASSUME NEW id \in DOMAIN t.m_diversityWorstScore
       PROVE  /\ t.m_diversityWorstScore[id] \in Int
              /\ Cardinality(BetterOfID(t, t.m_diversityWorstScore[id], id)) >= m
  <2> DEFINE score == t.m_diversityWorstScore[id]
             new == BetterOfID(t, score, id)
  <2>1. IsFiniteSet(new) /\ Cardinality(new) \in Nat
    BY <1>5, FS_Subset, FS_CardinalityType DEF BetterOfID
  <2>2. \/ m = 1 /\ id = id0 /\ score = total
        \/ id \in DOMAIN s.m_diversityWorstScore /\ score = s.m_diversityWorstScore[id]
    <3> HIDE DEF total, id0
    <3>1. QED
      BY <1>3 DEF With
  <2>3. CASE m = 1 /\ id = id0 /\ score = total
    <3>1. h \in new
      BY <1>1, <1>5, <2>3 DEF BetterOfID
    <3> HIDE DEF new
    <3>2. Cardinality(new) # 0
      BY <2>1, <3>1, FS_EmptySet
    <3>3. Cardinality(new) >= m
      BY <2>1, <2>3, <3>2
    <3>4. QED
      BY <1>1, <2>3, <3>3 DEF new
  <2>4. CASE id \in DOMAIN s.m_diversityWorstScore /\ score = s.m_diversityWorstScore[id]
    <3> DEFINE old == BetterOfID(s, score, id)
    <3>1. score \in Int /\ Cardinality(old) >= m
      BY <2>4 DEF JustStack, DiversityEarned
    <3>2. old \in SUBSET Hypos(s)
      BY DEF BetterOfID
    <3>3. Swap(old) \subseteq new
      <4>1. ASSUME NEW x \in Swap(old) PROVE x \in new
        <5>1. x \in Hypos(t)
          BY <1>6, <3>2
        <5>2. CASE x \in old
          BY <5>1, <5>2 DEF BetterOfID
        <5>3. CASE x \notin old
          <6>1. e \in old /\ x = h
            BY <5>3
          <6> DEFINE te == GetTotalScore(e)
          <6>2. /\ te \in Int /\ te >= score /\ total > te
                /\ GetID(GetWordsBitmap(h)) = id
            BY <1>1, <6>1 DEF BetterOfID
          <6> HIDE DEF te, total, score
          <6>3. total >= score
            BY <1>1, <3>1, <6>2
          <6>4. QED
            BY <5>1, <6>1, <6>2, <6>3 DEF BetterOfID, total
        <5>4. QED
          BY <5>2, <5>3
      <4> HIDE DEF Swap, old, new
      <4>2. QED
        BY <4>1
    <3>4. Cardinality(Swap(old)) = Cardinality(old) /\ IsFiniteSet(old)
      BY <1>6, <3>2
    <3> HIDE DEF Swap, old, new
    <3>5. Cardinality(Swap(old)) <= Cardinality(new) /\ Cardinality(old) \in Nat
      BY <2>1, <3>3, <3>4, FS_Subset, FS_CardinalityType
    <3>6. Cardinality(new) >= m
      BY <1>1, <2>1, <3>1, <3>4, <3>5
    <3>7. QED
      BY <3>1, <3>6 DEF new
  <2>5. QED
    BY <2>2, <2>3, <2>4
<1>11. JustStack(t)
  BY <1>2, <1>3, <1>8, <1>9, <1>10 DEF JustStack, DiversityEarned
<1>12. QED
  BY <1>4, <1>11

LEMMA CutJust ==
  ASSUME InputsKept, NEW s, JustStack(s), IsFiniteSet(Hypos(s)), Hypos(s) \subseteq Hypotheses,
         NEW t, NEW D, NEW A, CutTo(t, s, D, A, param.maxHypoStackSize)
  PROVE  JustStack(t)
<1> DEFINE m == param.minHypoStackDiversity
           size == param.maxHypoStackSize
           S == Hypos(s)
           beam == Beam(s)
<1>1. /\ m \in Nat /\ size \in Nat \ {0} /\ Infinity \in Nat
      /\ s.m_bestScore \in Int /\ s.m_worstScore \in Int
      /\ beam \in Int /\ beam < s.m_bestScore
      /\ \A g \in S : GetTotalScore(g) \in Int
  BY ScoresTyped, BeamTyped DEF JustStack, Beam
<1>2. /\ Hypos(t) = D \cup A /\ t.m_bestScore = s.m_bestScore
      /\ DiverseOnes(D, S) /\ AddedOnes(A, D, s, size) /\ WorstAdded(t, s, D, A, size)
      /\ \A id \in DOMAIN t.m_diversityWorstScore : DiverseScore(t, s, D, id)
  BY DEF CutTo
<1>3. /\ D \subseteq S /\ A \subseteq S \ D /\ A \subseteq WithinBeam(s, D) /\ Beam(t) = beam
      /\ \A B : /\ Cardinality(Alike(D, B)) <= m
                /\ Alike(S, B) \subseteq D \/ Cardinality(Alike(D, B)) = m
                /\ \A g \in Alike(D, B) : \A h \in Alike(S, B) \ D :
                     GetTotalScore(h) <= GetTotalScore(g)
  BY <1>2 DEF DiverseOnes, AddedOnes, WithinBeam, Beam
<1> HIDE DEF beam
<1>4. ASSUME NEW U \in SUBSET S PROVE IsFiniteSet(U) /\ Cardinality(U) \in Nat
  BY FS_Subset, FS_CardinalityType
<1>5. ASSUME NEW U \in SUBSET S, NEW B
      PROVE  /\ Alike(U, B) \in SUBSET S /\ IsFiniteSet(Alike(U, B))
             /\ Cardinality(Alike(U, B)) \in Nat
  <2>1. Alike(U, B) \in SUBSET S
    BY DEF Alike
  <2>2. QED
    BY <1>4, <2>1
<1>6. BestThere(t)
  <2>1. SUFFICES ASSUME s.m_bestScore > -Infinity
                 PROVE  \E h \in Hypos(t) : GetTotalScore(h) >= s.m_bestScore
    BY <1>2 DEF BestThere
  <2>2. PICK g \in S : GetTotalScore(g) >= s.m_bestScore
    BY <2>1 DEF JustStack, BestThere
  <2>3. CASE g \in Hypos(t)
    BY <2>2, <2>3
  <2>4. CASE g \notin Hypos(t)
    <3>1. GetTotalScore(g) > beam /\ g \in S \ D
      <4> DEFINE total == GetTotalScore(g)
      <4>1. total \in Int /\ total >= s.m_bestScore
        BY <1>1, <2>2
      <4> HIDE DEF total
      <4>2. total > beam
        BY <1>1, <4>1
      <4>3. QED
        BY <1>2, <2>4, <4>2 DEF total
    <3>2. g \in WithinBeam(s, D) \ A
      BY <1>2, <2>4, <3>1 DEF WithinBeam, beam
    <3>3. CASE Cardinality(D) >= size
      <4> DEFINE B == GetWordsBitmap(g)
      <4>1. D # {}
        BY <1>1, <3>3, FS_EmptySet
      <4>2. PICK d \in D : TRUE
        BY <4>1
      <4>3. Cardinality(Alike(D, GetWordsBitmap(d))) # 0
        <5>1. d \in Alike(D, GetWordsBitmap(d))
          BY DEF Alike
        <5>2. IsFiniteSet(Alike(D, GetWordsBitmap(d)))
          BY <1>3, <1>5
        <5>3. QED
          BY <5>1, <5>2, FS_EmptySet
      <4>4. m # 0
        <5>1. Cardinality(Alike(D, GetWordsBitmap(d))) <= m
          BY <1>3
        <5>2. Cardinality(Alike(D, GetWordsBitmap(d))) \in Nat
          BY <1>3, <1>5
        <5>3. QED
          BY <1>1, <4>3, <5>1, <5>2
      <4>5. g \in Alike(S, B) \ D
        BY <3>1 DEF Alike
      <4>6. Cardinality(Alike(D, B)) = m
        BY <1>3, <4>5
      <4>7. Alike(D, B) # {}
        BY <4>4, <4>6, FS_EmptySet
      <4>8. PICK f \in Alike(D, B) : TRUE
        BY <4>7
      <4>9. GetTotalScore(g) <= GetTotalScore(f) /\ f \in D
        BY <1>3, <4>5 DEF Alike
      <4>10. GetTotalScore(f) >= s.m_bestScore
        <5> DEFINE tf == GetTotalScore(f)
                   tg == GetTotalScore(g)
        <5>1. tf \in Int /\ tg \in Int /\ tg <= tf /\ tg >= s.m_bestScore
          BY <1>1, <1>3, <2>2, <4>9
        <5> HIDE DEF tf, tg
        <5>2. tf >= s.m_bestScore
          BY <1>1, <5>1
        <5>3. QED
          BY <5>2 DEF tf
      <4>11. QED
        BY <1>2, <4>9, <4>10
    <3>4. CASE ~(Cardinality(D) >= size)
      <4>1. Cardinality(D) + Cardinality(A) = size
        BY <1>2, <3>2, <3>4 DEF AddedOnes
      <4>2. A # {}
        <5>1. Cardinality(D) \in Nat
          BY <1>3, <1>4
        <5>2. Cardinality(A) # 0
          BY <1>1, <3>4, <4>1, <5>1
        <5>3. QED
          BY <5>2, FS_EmptySet
      <4>3. PICK f \in A : TRUE
        BY <4>2
      <4>4. GetTotalScore(g) <= GetTotalScore(f)
        BY <1>2, <3>2 DEF AddedOnes
      <4>5. GetTotalScore(f) >= s.m_bestScore
        <5> DEFINE tf == GetTotalScore(f)
                   tg == GetTotalScore(g)
        <5>1. tf \in Int /\ tg \in Int /\ tg <= tf /\ tg >= s.m_bestScore
          BY <1>1, <1>3, <2>2, <4>4
        <5> HIDE DEF tf, tg
        <5>2. tf >= s.m_bestScore
          BY <1>1, <5>1
        <5>3. QED
          BY <5>2 DEF tf
      <4>6. QED
        BY <1>2, <4>5
    <3>5. QED
      BY <3>3, <3>4
  <2>5. QED
    BY <2>3, <2>4
<1>7. ASSUME t.m_worstScore = s.m_worstScore,
             Cardinality(D) >= size \/ A = WithinBeam(s, D)
      PROVE  WorstEarned(t) /\ t.m_worstScore \in Int
  <2>1. CASE Cardinality(D) >= size
    <3>1. ASSUME NEW h \in D PROVE Cardinality(Alike(D, GetWordsBitmap(h))) <= m
      BY <1>3
    <3>2. Enough(t, D)
      BY <1>2, <2>1, <3>1 DEF Enough
    <3>3. QED
      BY <1>1, <1>7, <3>2 DEF WorstEarned
  <2>2. CASE s.m_worstScore <= -Infinity \/ s.m_worstScore <= beam
    BY <1>1, <1>3, <1>7, <2>2 DEF WorstEarned
  <2>3. CASE /\ ~(Cardinality(D) >= size) /\ A = WithinBeam(s, D)
             /\ ~(s.m_worstScore <= beam) /\ \E K : Enough(s, K)
    <3> DEFINE Lost(K) == Cardinality(K \ Hypos(t))
               losses == { n \in Nat : \E K : Enough(s, K) /\ Lost(K) = n }
    <3>1. ASSUME NEW K, Enough(s, K)
          PROVE  K \in SUBSET S /\ Lost(K) \in Nat /\ IsFiniteSet(K \ Hypos(t)) /\ IsFiniteSet(K)
      <4>1. K \in SUBSET S
        BY <3>1 DEF Enough
      <4>2. K \ Hypos(t) \in SUBSET S
        BY <4>1
      <4>3. QED
        BY <1>4, <4>1, <4>2
    <3>2. losses # {} /\ losses \subseteq Nat
      BY <2>3, <3>1
    <3>3. Min(losses) \in losses /\ \A n \in losses : Min(losses) <= n
      BY <3>2, MinIn
    <3>4. PICK K : Enough(s, K) /\ Lost(K) = Min(losses)
      BY <3>3
    <3>5. ASSUME NEW J, Enough(s, J) PROVE Lost(K) <= Lost(J)
      BY <3>1, <3>3, <3>4, <3>5
    <3> HIDE DEF losses
    <3>6. ASSUME NEW h \in K \ Hypos(t) PROVE FALSE
      <4> DEFINE B == GetWordsBitmap(h)
      <4>1. h \in S \ D /\ h \notin WithinBeam(s, D)
        BY <1>2, <2>3, <3>1, <3>4
      <4>2. ~(GetTotalScore(h) >= s.m_worstScore)
        <5> DEFINE total == GetTotalScore(h)
        <5>1. total \in Int /\ ~(total > beam)
          BY <1>1, <4>1 DEF WithinBeam, beam
        <5> HIDE DEF total
        <5>2. ~(total >= s.m_worstScore)
          BY <1>1, <2>3, <5>1
        <5>3. QED
          BY <5>2 DEF total
      <4>3. Cardinality(Alike(K, B)) <= m
        BY <3>4, <4>2 DEF Enough
      <4>4. Cardinality(Alike(D, B)) = m
        BY <1>3, <4>1 DEF Alike
      <4>5. PICK d \in Alike(D, B) : d \notin K
        <5>1. SUFFICES ASSUME Alike(D, B) \subseteq K PROVE FALSE
          OBVIOUS
        <5>2. Alike(D, B) \cup {h} \subseteq Alike(K, B)
          BY <5>1 DEF Alike
        <5>3. IsFiniteSet(Alike(K, B)) /\ IsFiniteSet(Alike(D, B)) /\ Cardinality(Alike(K, B)) \in Nat
          BY <1>3, <1>5, <3>1, <3>4
        <5>4. h \notin Alike(D, B)
          BY <4>1 DEF Alike
        <5>5. Cardinality(Alike(D, B) \cup {h}) = m + 1
          BY <4>4, <5>3, <5>4, FS_AddElement
        <5>6. m + 1 <= Cardinality(Alike(K, B))
          BY <5>2, <5>3, <5>5, FS_Subset
        <5> HIDE DEF B
        <5>7. QED
          BY <1>1, <4>3, <5>3, <5>6
      <4>6. d \in D /\ d \in S /\ d \in Hypos(t) /\ GetWordsBitmap(d) = B /\ d # h
        BY <1>2, <1>3, <4>1 DEF Alike
      <4> DEFINE J == (K \ {h}) \cup {d}
      <4>7. IsFiniteSet(J) /\ Cardinality(J) = Cardinality(K) /\ J \subseteq S
        BY <3>1, <3>4, <4>5, <4>6, Exchanged
      <4>8. ASSUME NEW x \in J
            PROVE  \/ GetTotalScore(x) >= s.m_worstScore
                   \/ Cardinality(Alike(J, GetWordsBitmap(x))) <= m
        <5>1. CASE GetWordsBitmap(x) = B
          <6>1. Alike(J, B) = (Alike(K, B) \ {h}) \cup {d}
            BY <4>6 DEF Alike
          <6>2. h \in Alike(K, B) /\ d \notin Alike(K, B) /\ IsFiniteSet(Alike(K, B))
            BY <1>5, <3>1, <3>4, <4>5 DEF Alike
          <6> HIDE DEF B, J
          <6>3. Cardinality((Alike(K, B) \ {h}) \cup {d}) = Cardinality(Alike(K, B))
            BY <6>2, Exchanged
          <6>5. Cardinality(Alike(J, B)) = Cardinality(Alike(K, B))
            BY <6>1, <6>3
          <6>4. QED
            BY <4>3, <5>1, <6>5
        <5>2. CASE GetWordsBitmap(x) # B
          <6>1. x \in K
            BY <4>6, <5>2
          <6>2. Alike(J, GetWordsBitmap(x)) = Alike(K, GetWordsBitmap(x))
            BY <4>6, <5>2 DEF Alike
          <6>3. QED
            BY <3>4, <6>1, <6>2 DEF Enough
        <5>3. QED
          BY <5>1, <5>2
      <4>9. Enough(s, J)
        BY <3>4, <4>7, <4>8 DEF Enough
      <4>10. J \ Hypos(t) = (K \ Hypos(t)) \ {h}
        BY <4>6
      <4>11. Lost(J) = Lost(K) - 1
        <5> DEFINE rest == K \ Hypos(t)
        <5>1. IsFiniteSet(rest) /\ h \in rest
          BY <3>1, <3>4, <3>6
        <5> HIDE DEF rest
        <5>2. Cardinality(rest \ {h}) = Cardinality(rest) - 1
          BY <5>1, FS_RemoveElement
        <5>3. QED
          BY <4>10, <5>2 DEF rest
      <4>12. Lost(K) \in Nat /\ Lost(K) <= Lost(J)
        BY <3>1, <3>4, <3>5, <4>9
      <4> HIDE DEF Lost
      <4>13. QED
        BY <4>11, <4>12
    <3>7. K \subseteq Hypos(t)
      BY <3>6
    <3>8. Enough(t, K)
      BY <1>7, <3>4, <3>7 DEF Enough
    <3>9. QED
      BY <1>1, <1>7, <3>8 DEF WorstEarned
  <2>4. s.m_worstScore <= -Infinity \/ s.m_worstScore <= beam \/ \E K : Enough(s, K)
    BY DEF JustStack, WorstEarned, beam
  <2>5. WorstEarned(t)
    BY <1>7, <2>1, <2>2, <2>3, <2>4
  <2>6. QED
    BY <1>1, <1>7, <2>5
<1>8. ASSUME Cardinality(D) + Cardinality(A) = size,
             \E g \in A : t.m_worstScore = GetTotalScore(g),
             \A h \in A : t.m_worstScore <= GetTotalScore(h)
      PROVE  WorstEarned(t) /\ t.m_worstScore \in Int
  <2> DEFINE worst == t.m_worstScore
  <2>1. worst \in Int
    BY <1>1, <1>3, <1>8
  <2>2. Cardinality(D \cup A) = size
    <3>1. IsFiniteSet(D) /\ IsFiniteSet(A) /\ D \cap A = {} /\ Cardinality(D) \in Nat
          /\ Cardinality(A) \in Nat
      BY <1>3, <1>4
    <3>2. Cardinality(D \cup A) = Cardinality(D) + Cardinality(A) - Cardinality(D \cap A)
      BY <3>1, FS_Union
    <3>3. Cardinality(D \cap A) = 0
      BY <3>1, FS_EmptySet
    <3> HIDE DEF size
    <3>4. QED
      BY <1>8, <3>1, <3>2, <3>3
  <2>3. ASSUME NEW h \in D \cup A, ~(GetTotalScore(h) >= worst)
        PROVE  Cardinality(Alike(D \cup A, GetWordsBitmap(h))) <= m
    <3> DEFINE B == GetWordsBitmap(h)
               th == GetTotalScore(h)
    <3>1. th \in Int /\ th < worst
      <4>1. th \in Int /\ ~(th >= worst)
        BY <1>1, <1>3, <2>3
      <4> HIDE DEF th, worst
      <4>2. QED
        BY <2>1, <4>1
    <3>2. h \in D
      <4>1. h \in A => worst <= th
        BY <1>8
      <4> HIDE DEF th, worst
      <4>2. QED
        BY <2>1, <3>1, <4>1
    <3>3. ASSUME NEW g \in A PROVE GetWordsBitmap(g) # B
      <4>1. SUFFICES ASSUME GetWordsBitmap(g) = B PROVE FALSE
        OBVIOUS
      <4> DEFINE tg == GetTotalScore(g)
      <4>2. tg <= th
        BY <1>3, <3>2, <4>1 DEF Alike
      <4>3. worst <= tg /\ tg \in Int
        BY <1>1, <1>3, <1>8
      <4> HIDE DEF tg, th, worst
      <4>4. QED
        BY <2>1, <3>1, <4>2, <4>3
    <3>4. Alike(D \cup A, B) = Alike(D, B)
      BY <3>3 DEF Alike
    <3>5. QED
      BY <1>3, <3>4
  <2>4. Enough(t, D \cup A)
    BY <1>1, <1>2, <2>2, <2>3 DEF Enough
  <2>5. QED
    BY <2>1, <2>4 DEF WorstEarned
<1>9. WorstEarned(t) /\ t.m_worstScore \in Int
  BY <1>2, <1>7, <1>8, Zenon DEF WorstAdded
<1>10. ASSUME NEW id \in DOMAIN t.m_diversityWorstScore
       PROVE  /\ t.m_diversityWorstScore[id] \in Int
              /\ Cardinality(BetterOfID(t, t.m_diversityWorstScore[id], id)) >= m
  <2> DEFINE score == t.m_diversityWorstScore[id]
             new == BetterOfID(t, score, id)
  <2>1. new \in SUBSET S /\ IsFiniteSet(new) /\ Cardinality(new) \in Nat
    <3>1. new \in SUBSET S
      BY <1>2, <1>3 DEF BetterOfID
    <3>2. QED
      BY <1>4, <3>1
  <2>2. DiverseScore(t, s, D, id)
    BY <1>2
  <2>3. CASE \E B : /\ GetID(B) = id /\ Cardinality(Alike(D, B)) = m
                    /\ \A h \in Alike(D, B) : score <= GetTotalScore(h)
                    /\ \E h \in Alike(D, B) : score = GetTotalScore(h)
    <3>1. PICK B : /\ GetID(B) = id /\ Cardinality(Alike(D, B)) = m
                   /\ \A h \in Alike(D, B) : score <= GetTotalScore(h)
                   /\ \E h \in Alike(D, B) : score = GetTotalScore(h)
      BY <2>3
    <3>2. \A h \in Alike(D, B) : GetTotalScore(h) \in Int
      BY <1>1, <1>3 DEF Alike
    <3>3. score \in Int
      BY <3>1, <3>2
    <3> HIDE DEF score
    <3>4. \A h \in Alike(D, B) : GetTotalScore(h) >= score
      BY <3>1, <3>2, <3>3
    <3>5. Alike(D, B) \subseteq new
      BY <1>2, <3>1, <3>4 DEF BetterOfID, Alike
    <3> HIDE DEF new
    <3>6. Cardinality(new) >= m
      <4>1. Cardinality(Alike(D, B)) <= Cardinality(new)
        BY <2>1, <3>5, FS_Subset
      <4>2. QED
        BY <1>1, <2>1, <3>1, <4>1
    <3>7. QED
      BY <3>3, <3>6 DEF new, score
  <2>4. CASE /\ id \in DOMAIN s.m_diversityWorstScore /\ score = s.m_diversityWorstScore[id]
             /\ \/ m = 0
                \/ \A B : GetID(B) = id => Alike(S, B) \subseteq D
    <3> DEFINE old == BetterOfID(s, score, id)
    <3>1. score \in Int /\ Cardinality(old) >= m
      BY <2>4 DEF JustStack, DiversityEarned
    <3>2. CASE m = 0
      <4> HIDE DEF new
      <4>1. Cardinality(new) >= m
        BY <2>1, <3>2
      <4>2. QED
        BY <3>1, <4>1 DEF new
    <3>3. CASE \A B : GetID(B) = id => Alike(S, B) \subseteq D
      <4>1. old \subseteq new
        <5>1. ASSUME NEW h \in old PROVE h \in new
          <6>1. h \in Alike(S, GetWordsBitmap(h)) /\ GetID(GetWordsBitmap(h)) = id
            BY DEF BetterOfID, Alike
          <6>2. h \in D
            BY <3>3, <6>1
          <6>3. QED
            BY <1>2, <6>2 DEF BetterOfID
        <5>2. QED
          BY <5>1
      <4>2. old \in SUBSET S
        BY DEF BetterOfID
      <4> HIDE DEF old, new
      <4>3. Cardinality(old) <= Cardinality(new) /\ Cardinality(old) \in Nat
        BY <1>4, <2>1, <4>1, <4>2, FS_Subset
      <4>4. Cardinality(new) >= m
        BY <1>1, <2>1, <3>1, <4>3
      <4>5. QED
        BY <3>1, <4>4 DEF new
    <3>4. QED
      BY <2>4, <3>2, <3>3
  <2> HIDE DEF new
  <2>5. QED
    BY <2>2, <2>3, <2>4, Zenon DEF DiverseScore, new, score, m, S
<1>11. QED
  BY <1>1, <1>2, <1>6, <1>9, <1>10 DEF JustStack, DiversityEarned

LEMMA JustSame ==
  ASSUME NEW s, JustStack(s), NEW t, Hypos(t) = Hypos(s), t.m_bestScore = s.m_bestScore,
         t.m_worstScore = s.m_worstScore, t.m_diversityWorstScore = s.m_diversityWorstScore
  PROVE  JustStack(t)
BY DEF JustStack, BestThere, WorstEarned, DiversityEarned, BetterOfID, Enough, Beam

LEMMA PruneJust ==
  ASSUME InputsKept, NEW s, DOMAIN s = Fields, JustStack(s), IsFiniteSet(Hypos(s)),
         Hypos(s) \subseteq Hypotheses, NEW t \in PruneToSize(s, param.maxHypoStackSize)
  PROVE  JustStack(t)
<1>1. CASE t = s
  BY <1>1
<1>2. ASSUME NEW q \in BestFirst(Hypos(s)), t = Cut(s, q, param.maxHypoStackSize)
      PROVE  JustStack(t)
  <2>1. param.maxHypoStackSize \in Nat
    BY BeamTyped
  <2>2. PICK D, A : CutTo(t, s, D, A, param.maxHypoStackSize)
    BY <1>2, <2>1, CutIs
  <2>3. QED
    BY <2>2, CutJust
<1>3. t = s \/ \E q \in BestFirst(Hypos(s)) : t = Cut(s, q, param.maxHypoStackSize)
  BY Zenon DEF PruneToSize
<1>4. QED
  BY <1>1, <1>2, <1>3

LEMMA CleanupJust ==
  ASSUME InputsKept, NEW s, DOMAIN s = Fields, NEW k, StackGood(s, k), JustStack(s),
         NEW t \in CleanupArcList(s)
  PROVE  JustStack(t)
<1>1. PICK f : t = [s EXCEPT !.m_hypos = f]
  BY Zenon DEF CleanupArcList
<1>2. /\ t.m_bestScore = s.m_bestScore /\ t.m_worstScore = s.m_worstScore
      /\ t.m_diversityWorstScore = s.m_diversityWorstScore
  BY <1>1 DEF Fields
<1>3. Hypos(t) = Hypos(s)
  BY CleanupShrinks
<1>4. QED
  BY <1>2, <1>3, JustSame

LEMMA AddJust ==
  ASSUME InputsKept, NEW s, DOMAIN s = Fields, JustStack(s), IsFiniteSet(Hypos(s)),
         Hypos(s) \subseteq Hypotheses, NEW h \in Hypotheses, h \notin Hypos(s), NEW e,
         e \in Hypos(s) => /\ GetWordsBitmap(e) = GetWordsBitmap(h)
                           /\ GetTotalScore(h) > GetTotalScore(e),
         NEW r, Hypos(r) = Hypos(s) \ {e}, r.m_bestScore = s.m_bestScore,
         r.m_worstScore = s.m_worstScore, r.m_diversityWorstScore = s.m_diversityWorstScore,
         NEW arcs, NEW t \in Add(r, h, arcs)
  PROVE  JustStack(t)
<1> DEFINE i == Inserted(r, h, arcs)
<1>1. DOMAIN i = Fields
  BY DEF Inserted, Fields
<1>2. t = i \/ t \in PruneToSize(i, param.maxHypoStackSize)
  BY Zenon DEF Add
<1>3. JustStack(i) /\ Hypos(i) = (Hypos(s) \ {e}) \cup {h}
  BY InsertedJust
<1> HIDE DEF i
<1>4. IsFiniteSet(Hypos(i)) /\ Hypos(i) \subseteq Hypotheses
  BY <1>3, FS_RemoveElement, FS_AddElement
<1>5. QED
  BY <1>1, <1>2, <1>3, <1>4, PruneJust

LEMMA AddPruneJust ==
  ASSUME InputsKept, NEW s, DOMAIN s = Fields, NEW k, StackGood(s, k), JustStack(s),
         NEW h \in Hypotheses, h \notin Members(s), NEW t \in AddPrune(s, h)
  PROVE  JustStack(t)
<1> DEFINE existing == CHOOSE g \in Hypos(s) : Recombine(g, h)
           rest     == [s EXCEPT !.m_hypos = Without(@, {existing})]
<1>1. IsFiniteSet(Hypos(s)) /\ Hypos(s) \subseteq Hypotheses /\ h \notin Hypos(s)
  BY DEF StackGood, Members
<1>2. CASE (\A g \in Hypos(s) : ~Recombine(g, h)) /\ t \in Add(s, h, {})
  <2>1. h \notin Hypos(s) /\ Hypos(s) = Hypos(s) \ {h}
    BY <1>1
  <2>2. QED
    BY <1>1, <1>2, <2>1, AddJust
<1>3. CASE (\E g \in Hypos(s) : Recombine(g, h))
           /\ GetTotalScore(h) > GetTotalScore(existing)
           /\ \E losers : t \in Add(rest, h, losers)
  <2>1. existing \in Hypos(s) /\ Recombine(existing, h)
    BY <1>3
  <2>2. /\ rest.m_hypos = Without(s.m_hypos, {existing})
        /\ rest.m_bestScore = s.m_bestScore /\ rest.m_worstScore = s.m_worstScore
        /\ rest.m_diversityWorstScore = s.m_diversityWorstScore
    BY DEF Fields
  <2> HIDE DEF existing, rest
  <2>3. Hypos(rest) = Hypos(s) \ {existing}
    BY <2>2 DEF Hypos, Without
  <2>4. GetWordsBitmap(existing) = GetWordsBitmap(h)
    BY <1>1, <2>1, SameCoverage
  <2>5. QED
    BY <1>1, <1>3, <2>2, <2>3, <2>4, AddJust
<1>4. CASE (\E g \in Hypos(s) : Recombine(g, h))
           /\ \E some : t = [s EXCEPT !.m_hypos[existing] = some]
  <2>1. PICK some : t = [s EXCEPT !.m_hypos[existing] = some]
    BY <1>4
  <2> HIDE DEF existing
  <2>2. /\ t.m_bestScore = s.m_bestScore /\ t.m_worstScore = s.m_worstScore
        /\ t.m_diversityWorstScore = s.m_diversityWorstScore
        /\ t.m_hypos = [s.m_hypos EXCEPT ![existing] = some]
    BY <2>1 DEF Fields
  <2>3. Hypos(t) = Hypos(s)
    BY <2>2 DEF Hypos
  <2>4. QED
    BY <2>2, <2>3, JustSame
<1>5. \/ t = s
      \/ (\A g \in Hypos(s) : ~Recombine(g, h)) /\ t \in Add(s, h, {})
      \/ /\ ~ \A g \in Hypos(s) : ~Recombine(g, h)
         /\ t \in IF GetTotalScore(h) > GetTotalScore(existing)
                    THEN Add(rest, h,
                             IF param.nBestIsEnabled
                               THEN AddArc({}, existing, s.m_hypos[existing]) ELSE {})
                    ELSE {[s EXCEPT !.m_hypos[existing] =
                              IF param.nBestIsEnabled THEN AddArc(@, h, {}) ELSE @]}
  BY Zenon DEF AddPrune
<1>6. ASSUME ~ \A g \in Hypos(s) : ~Recombine(g, h),
             t \in IF GetTotalScore(h) > GetTotalScore(existing)
                     THEN Add(rest, h,
                              IF param.nBestIsEnabled
                                THEN AddArc({}, existing, s.m_hypos[existing]) ELSE {})
                     ELSE {[s EXCEPT !.m_hypos[existing] =
                              IF param.nBestIsEnabled THEN AddArc(@, h, {}) ELSE @]}
      PROVE  JustStack(t)
  <2>1. CASE GetTotalScore(h) > GetTotalScore(existing)
    <3> DEFINE losers == IF param.nBestIsEnabled
                           THEN AddArc({}, existing, s.m_hypos[existing]) ELSE {}
    <3>1. t \in Add(rest, h, losers)
      BY <1>6, <2>1
    <3> HIDE DEF rest, existing, losers
    <3>2. \E l : t \in Add(rest, h, l)
      BY <3>1
    <3>3. QED
      BY <1>3, <1>6, <2>1, <3>2 DEF rest, existing
  <2>2. CASE ~(GetTotalScore(h) > GetTotalScore(existing))
    <3>1. t = [s EXCEPT !.m_hypos[existing] =
                 IF param.nBestIsEnabled THEN AddArc(@, h, {}) ELSE @]
      BY <1>6, <2>2
    <3>2. existing \in Hypos(s)
      BY <1>6
    <3> HIDE DEF existing, rest
    <3>3. \E some : t = [s EXCEPT !.m_hypos[existing] = some]
      <4> DEFINE some == IF param.nBestIsEnabled THEN AddArc(s.m_hypos[existing], h, {})
                                                 ELSE s.m_hypos[existing]
      <4>1. t = [s EXCEPT !.m_hypos[existing] = some]
        BY <3>1, <3>2 DEF Fields, Hypos
      <4> HIDE DEF some
      <4>2. QED
        BY <4>1
    <3>4. QED
      BY <1>4, <1>6, <3>3 DEF existing
  <2>3. QED
    BY <2>1, <2>2
<1> HIDE DEF existing, rest
<1>7. QED
  BY <1>2, <1>5, <1>6, Zenon

StacksJust == \A k \in 0 .. source.size : JustStack(m_hypoStackColl[k])

LEMMA JustNext ==
  ASSUME UNCHANGED inputVars, \A k \in 0 .. source.size : JustStack(m_hypoStackColl'[k])
  PROVE  StacksJust'
<1>1. source' = source /\ param' = param
  BY DEF inputVars
<1>2. \A h : GetTotalScore(h)' = GetTotalScore(h)
  BY WorthStays
<1>3. \A h : GetWordsBitmap(h)' = GetWordsBitmap(h)
  BY <1>1 DEF GetWordsBitmap, Option
<1>4. \A B : GetID(B)' = GetID(B)
  BY <1>1 DEF GetID
<1>5. ASSUME NEW s PROVE JustStack(s) => JustStack(s)'
  BY <1>1, <1>2, <1>3, <1>4 DEF JustStack, BestThere, WorstEarned, DiversityEarned,
     BetterOfID, Enough, Beam, Alike
<1>6. \A k \in 0 .. source.size : JustStack(m_hypoStackColl[k])'
  BY <1>5 DEF JustStack
<1>7. QED
  BY <1>1, <1>6 DEF StacksJust

LEMMA InitJust == ASSUME Init PROVE StacksJust
<1>1. PICK c \in Cases :
        /\ source = c.source /\ param = c.param
        /\ m_reorderingConstraint = Constraint(source)
        /\ m_futureScore = FutureScoreMatrix(source)
        /\ m_hypoStackColl = [k \in 0 .. source.size |->
                                IF k = 0 THEN Inserted(EmptyStack, EmptyHypothesis, {})
                                         ELSE EmptyStack]
  BY DEF Init, SearchInit
<1>2. InputsKept
  BY <1>1 DEF InputsKept
<1>3. /\ Hypos(EmptyStack) = {} /\ EmptyStack.m_bestScore = -Infinity
      /\ EmptyStack.m_worstScore = -Infinity /\ DOMAIN EmptyStack.m_diversityWorstScore = {}
  BY DEF EmptyStack, Hypos, None
<1>4. JustStack(EmptyStack)
  <2>1. -Infinity \in Int /\ -Infinity <= -Infinity /\ ~(-Infinity > -Infinity)
    BY InfinityAssumption
  <2>2. QED
    BY <1>3, <2>1 DEF JustStack, BestThere, WorstEarned, DiversityEarned
<1>5. JustStack(Inserted(EmptyStack, EmptyHypothesis, {}))
  <2>1. EmptyHypothesis \in Hypotheses
    BY DEF EmptyHypothesis, Hypotheses
  <2> DEFINE t == Inserted(EmptyStack, EmptyHypothesis, {})
  <2>2. IsFiniteSet(Hypos(EmptyStack)) /\ Hypos(EmptyStack) \subseteq Hypotheses
        /\ EmptyHypothesis \notin Hypos(EmptyStack)
        /\ Hypos(EmptyStack) = Hypos(EmptyStack) \ {EmptyHypothesis}
    BY <1>3, FS_EmptySet
  <2>3. JustStack(t)
    BY <1>2, <1>4, <2>1, <2>2, InsertedJust
  <2>4. QED
    BY <2>3
<1>6. QED
  BY <1>1, <1>4, <1>5 DEF StacksJust

(* One stack changes. *)
LEMMA JustReplaced ==
  ASSUME LinksSound, StacksJust, UNCHANGED inputVars, NEW k, NEW t, JustStack(t),
         m_hypoStackColl' = [m_hypoStackColl EXCEPT ![k] = t]
  PROVE  StacksJust'
<1>1. DOMAIN m_hypoStackColl = 0 .. source.size
  BY DEF LinksSound, GraphGood
<1>2. \A j \in 0 .. source.size :
        m_hypoStackColl'[j] = t \/ m_hypoStackColl'[j] = m_hypoStackColl[j]
  BY <1>1
<1>3. \A j \in 0 .. source.size : JustStack(m_hypoStackColl'[j])
  BY <1>2 DEF StacksJust
<1>4. QED
  BY <1>3, JustNext

LEMMA StartStackJust == ASSUME IInv, LinksSound, StacksJust, StartStack PROVE StacksJust'
<1>1. PICK s \in PruneToSize(m_hypoStackColl[iterStack], param.maxHypoStackSize) :
        \E t \in CleanupArcList(s) :
          m_hypoStackColl' = [m_hypoStackColl EXCEPT ![iterStack] = t]
  BY Zenon DEF StartStack
<1>2. PICK t \in CleanupArcList(s) :
        m_hypoStackColl' = [m_hypoStackColl EXCEPT ![iterStack] = t]
  BY <1>1
<1>3. UNCHANGED inputVars
  BY DEF StartStack
<1>4. InputsKept /\ iterStack \in 0 .. source.size
  BY InputsTyped DEF StartStack, Over, IInv, HypothesisSound
<1> DEFINE k == iterStack
           old == m_hypoStackColl[k]
<1>5. DOMAIN old = Fields /\ StackGood(old, k) /\ JustStack(old)
  BY <1>4 DEF LinksSound, GraphGood, StacksJust
<1> HIDE DEF old
<1>6. DOMAIN s = Fields /\ StackGood(s, k)
  BY <1>1, <1>5, PruneShrinks, ShrunkGood DEF old
<1>7. JustStack(s)
  <2>1. IsFiniteSet(Hypos(old)) /\ Hypos(old) \subseteq Hypotheses
    BY <1>5 DEF StackGood, Members
  <2>2. QED
    BY <1>1, <1>4, <1>5, <2>1, PruneJust DEF old
<1>8. JustStack(t)
  BY <1>2, <1>4, <1>6, <1>7, CleanupJust
<1>9. QED
  BY <1>2, <1>3, <1>8, JustReplaced

LEMMA ExpandJust == ASSUME IInv, LinksSound, StacksJust, ExpandHypothesis PROVE StacksJust'
<1> DEFINE i == Min(todo)
           h == Append(iterHypo, i)
<1>1. /\ iterHypo # NoHypothesis
      /\ UNCHANGED inputVars
      /\ \/ UNCHANGED m_hypoStackColl
         \/ \E s \in AddPrune(m_hypoStackColl[Covered(h)], h) :
              m_hypoStackColl' = [m_hypoStackColl EXCEPT ![Covered(h)] = s]
  <2>1. iterHypo # NoHypothesis
    BY DEF LinksSound, GraphGood, ExpandHypothesis
  <2>2. QED
    BY <2>1, Zenon DEF ExpandHypothesis, Covered
<1>2. InputsKept /\ todo \subseteq Extensions(iterHypo) /\ todo # {}
  BY DEF IInv, HypothesisSound, ExpandHypothesis
<1>3. i \in todo /\ i \in Extensions(iterHypo)
  <2>1. todo \subseteq Nat
    BY <1>2, InputsTyped DEF Extensions
  <2>2. QED
    BY <1>2, <2>1, MinIn
<1> HIDE DEF i
<1>4. CASE UNCHANGED m_hypoStackColl
  BY <1>1, <1>4, JustNext DEF StacksJust
<1>5. CASE \E s \in AddPrune(m_hypoStackColl[Covered(h)], h) :
             m_hypoStackColl' = [m_hypoStackColl EXCEPT ![Covered(h)] = s]
  <2>1. PICK s \in AddPrune(m_hypoStackColl[Covered(h)], h) :
          m_hypoStackColl' = [m_hypoStackColl EXCEPT ![Covered(h)] = s]
    BY <1>5
  <2> DEFINE k == Covered(h)
             old == m_hypoStackColl[k]
  <2>2. /\ h \in Hypotheses /\ k \in 0 .. source.size /\ h \notin Members(old)
    BY <1>1, <1>2, <1>3, ExtensionIsNew DEF LinksSound
  <2>3. s \in AddPrune(old, h) /\ m_hypoStackColl' = [m_hypoStackColl EXCEPT ![k] = s]
    BY <2>1
  <2> HIDE DEF h, k
  <2>4. DOMAIN old = Fields /\ StackGood(old, k) /\ JustStack(old)
    BY <2>2 DEF LinksSound, GraphGood, StacksJust
  <2> HIDE DEF old
  <2>5. JustStack(s)
    BY <1>2, <2>2, <2>3, <2>4, AddPruneJust
  <2>6. QED
    BY <1>1, <2>3, <2>5, JustReplaced
<1> HIDE DEF h
<1>6. QED
  BY <1>1, <1>4, <1>5

(* What a stack refuses it may refuse: the best hypothesis that came, or   *)
(* one as good, stays; the worst score that is accepted and the worst for  *)
(* a coverage are earned by as many hypotheses as are to be kept. *)
THEOREM PruningAlwaysJust == Spec => []PruningJust
<1>1. IInv /\ LinksSound /\ StacksJust => PruningJust
  <2> SUFFICES ASSUME IInv, LinksSound, StacksJust, NEW k \in DOMAIN m_hypoStackColl
               PROVE  LET s == m_hypoStackColl[k]
                          better(score) == { h \in Hypos(s) : GetTotalScore(h) >= score }
                          enough == IF param.minHypoStackDiversity = 0
                                      THEN better(s.m_worstScore) ELSE Hypos(s)
                      IN  /\ s.m_bestScore > -Infinity => better(s.m_bestScore) # {}
                          /\ \/ s.m_worstScore <= Max({-Infinity, s.m_bestScore + param.beamWidth})
                             \/ Cardinality(enough) >= param.maxHypoStackSize
                          /\ \A id \in DOMAIN s.m_diversityWorstScore :
                               Cardinality({ h \in better(s.m_diversityWorstScore[id]) :
                                               GetID(GetWordsBitmap(h)) = id })
                                 >= param.minHypoStackDiversity
    BY DEF PruningJust
  <2> DEFINE s == m_hypoStackColl[k]
             better(score) == { h \in Hypos(s) : GetTotalScore(h) >= score }
             enough == IF param.minHypoStackDiversity = 0
                         THEN better(s.m_worstScore) ELSE Hypos(s)
             m == param.minHypoStackDiversity
             beam == Max({-Infinity, s.m_bestScore + param.beamWidth})
  <2>1. InputsKept /\ k \in 0 .. source.size
    BY DEF IInv, LinksSound, GraphGood
  <2>2. StackGood(s, k) /\ JustStack(s)
    BY <2>1 DEF LinksSound, GraphGood, StacksJust
  <2> HIDE DEF s
  <2>3. IsFiniteSet(Hypos(s)) /\ Hypos(s) \subseteq Hypotheses
    BY <2>2 DEF StackGood, Members
  <2>4. s.m_bestScore > -Infinity => better(s.m_bestScore) # {}
    BY <2>2 DEF JustStack, BestThere
  <2>5. \A id \in DOMAIN s.m_diversityWorstScore :
          Cardinality({ h \in better(s.m_diversityWorstScore[id]) :
                          GetID(GetWordsBitmap(h)) = id }) >= m
    <3>1. \A score, id : { h \in better(score) : GetID(GetWordsBitmap(h)) = id }
                           = BetterOfID(s, score, id)
      BY DEF BetterOfID
    <3>2. QED
      BY <2>2, <3>1 DEF JustStack, DiversityEarned
  <2>6. /\ -Infinity \in Int /\ s.m_bestScore + param.beamWidth \in Int
        /\ s.m_worstScore \in Int /\ m \in Nat /\ param.maxHypoStackSize \in Nat
    BY <2>1, <2>2, BeamTyped DEF JustStack
  <2>7. beam \in Int /\ beam >= -Infinity /\ beam >= Beam(s)
    BY <2>6, MaxOfTwo DEF Beam
  <2>8. s.m_worstScore <= beam \/ Cardinality(enough) >= param.maxHypoStackSize
    <3>1. CASE s.m_worstScore <= -Infinity \/ s.m_worstScore <= Beam(s)
      <4> HIDE DEF beam
      <4>1. QED
        BY <2>6, <2>7, <3>1 DEF Beam
    <3>2. ASSUME NEW K, Enough(s, K)
          PROVE  Cardinality(enough) >= param.maxHypoStackSize
      <4>1. K \subseteq enough /\ IsFiniteSet(enough)
        <5>1. CASE m = 0
          <6>1. ASSUME NEW h \in K PROVE GetTotalScore(h) >= s.m_worstScore
            <7>1. h \in Alike(K, GetWordsBitmap(h))
              BY DEF Alike
            <7>2. IsFiniteSet(Alike(K, GetWordsBitmap(h)))
              BY <2>3, <3>2, FS_Subset DEF Enough, Alike
            <7>3. Cardinality(Alike(K, GetWordsBitmap(h))) # 0
              BY <7>1, <7>2, FS_EmptySet
            <7>4. Cardinality(Alike(K, GetWordsBitmap(h))) \in Nat
              BY <7>2, FS_CardinalityType
            <7>5. QED
              BY <3>2, <5>1, <7>3, <7>4 DEF Enough
          <6>2. K \subseteq enough
            BY <3>2, <5>1, <6>1 DEF Enough
          <6>3. enough \in SUBSET Hypos(s)
            OBVIOUS
          <6>4. QED
            BY <2>3, <6>2, <6>3, FS_Subset
        <5>2. CASE m # 0
          BY <2>3, <3>2, <5>2 DEF Enough
        <5>3. QED
          BY <5>1, <5>2
      <4> HIDE DEF enough
      <4>2. Cardinality(K) <= Cardinality(enough) /\ Cardinality(enough) \in Nat
            /\ IsFiniteSet(K)
        BY <4>1, FS_Subset, FS_CardinalityType
      <4>3. Cardinality(K) >= param.maxHypoStackSize /\ Cardinality(K) \in Nat
        BY <3>2, <4>2, FS_CardinalityType DEF Enough
      <4>4. QED
        BY <2>6, <4>2, <4>3
    <3> HIDE DEF enough, beam
    <3>3. QED
      BY <2>2, <3>1, <3>2 DEF JustStack, WorstEarned
  <2> HIDE DEF better, enough
  <2>9. QED
    BY <2>4, <2>5, <2>8 DEF better, enough, beam, s, m
<1>2. Init => StacksJust
  BY InitJust
<1>3. IInv /\ LinksSound /\ StacksJust /\ [Next]_vars => StacksJust'
  <2> SUFFICES ASSUME IInv, LinksSound, StacksJust, [Next]_vars PROVE StacksJust'
    OBVIOUS
  <2>1. CASE StartStack
    BY <2>1, StartStackJust
  <2>2. CASE ExpandHypothesis
    BY <2>2, ExpandJust
  <2>3. ASSUME UNCHANGED << inputVars, m_hypoStackColl >> PROVE StacksJust'
    BY <2>3, JustNext DEF StacksJust
  <2>4. CASE TimeOut
    BY <2>3, <2>4 DEF TimeOut
  <2>5. CASE NextHypothesis
    BY <2>3, <2>5 DEF NextHypothesis
  <2>6. CASE ListNext
    BY <2>3, <2>6 DEF ListNext, StartList, NextBest, EndList, searchVars
  <2>7. CASE UNCHANGED vars
    BY <2>3, <2>7 DEF vars, searchVars
  <2>8. QED
    BY <2>1, <2>2, <2>4, <2>5, <2>6, <2>7 DEF Next, SearchNext, Ended
<1>4. QED
  BY <1>1, <1>2, <1>3, LinksInvariance, PTL DEF Spec

-------------------------------------------------------------------------
(* The search without pruning: what hypotheses that can be recombined     *)
(* have in common. *)

(* Nothing has been gained at first. *)
LEMMA NoScoreYet == Score(<< >>) = 0
<1> DEFINE f == [i \in DOMAIN << >> |-> Gain(SubSeq(<< >>, 1, i))]
<1>1. DOMAIN << >> = {} /\ DOMAIN f = DOMAIN << >>
  OBVIOUS
<1> HIDE DEF f
<1>2. DOMAIN f = {}
  BY <1>1
<1>3. IsFiniteSet({}) /\ \A x \in {} : f[x] \in Int
  BY FS_EmptySet
<1>4. PICK sum : SumFunctionOnSet(f, {}) = sum[{}] /\ Sums(f, sum, {})
  BY <1>3, SumBySubsets
<1>5. sum[{}] = 0
  BY <1>4 DEF Sums, SumStep
<1>6. Score(<< >>) = SumFunctionOnSet(f, DOMAIN f)
  BY DEF Score, SumFunction, f
<1>7. QED
  BY <1>2, <1>4, <1>5, <1>6

(* What a hypothesis has gained before stays. *)
LEMMA ScoreOfExtension ==
  ASSUME InputsKept, NEW h \in Hypotheses, NEW i \in DOMAIN source.options
  PROVE  Score(Append(h, i)) = Score(h) + Gain(Append(h, i)) /\ Gain(Append(h, i)) \in Int
<1> DEFINE S == DOMAIN source.options
           r == Append(h, i)
           n == Len(h)
           f == [k \in DOMAIN r |-> Gain(SubSeq(r, 1, k))]
           g == [k \in DOMAIN h |-> Gain(SubSeq(h, 1, k))]
<1>1. r \in Hypotheses
  BY DEF Hypotheses
<1>2. n \in Nat /\ DOMAIN h = 1 .. n /\ DOMAIN r = 1 .. n + 1
  BY DEF Hypotheses
<1>3. SubSeq(r, 1, n + 1) = r /\ \A k \in 1 .. n : SubSeq(r, 1, k) = SubSeq(h, 1, k)
  <2>1. h \in Seq(S)
    BY DEF Hypotheses
  <2> HIDE DEF S
  <2>2. i \in S
    BY DEF S
  <2>3. QED
    BY <2>1, <2>2
<1>4. \A k \in 1 .. n + 1 : Gain(SubSeq(r, 1, k)) \in Int
  BY <1>1, <1>2, GainTyped
<1> HIDE DEF r, n
<1>a. /\ DOMAIN f = 1 .. n + 1 /\ DOMAIN g = 1 .. n
      /\ \A k \in 1 .. n + 1 : f[k] = Gain(SubSeq(r, 1, k))
      /\ \A k \in 1 .. n : g[k] = Gain(SubSeq(h, 1, k))
  BY <1>2
<1> HIDE DEF f, g
<1>b. n + 1 \in 1 .. n + 1 /\ 1 .. n \subseteq 1 .. n + 1
  BY <1>2
<1>5. /\ f[n + 1] = Gain(r)
      /\ \A k \in 1 .. n + 1 : f[k] \in Int
      /\ \A k \in 1 .. n : f[k] = g[k]
  <2>1. f[n + 1] = Gain(r)
    BY <1>3, <1>a, <1>b, Zenon
  <2>2. \A k \in 1 .. n + 1 : f[k] \in Int
    BY <1>4, <1>a
  <2>3. ASSUME NEW k \in 1 .. n PROVE f[k] = g[k]
    BY <1>3, <1>a, <1>b, Zenon
  <2>4. QED
    BY <2>1, <2>2, <2>3
<1>6. Score(r) = SumFunctionOnSet(f, DOMAIN f) /\ Score(h) = SumFunctionOnSet(g, DOMAIN g)
  BY DEF Score, SumFunction, f, g
<1>7. IsFiniteSet(1 .. n + 1) /\ IsFiniteSet(1 .. n)
  BY <1>2, FS_Interval
<1>8. n + 1 \in 1 .. n + 1 /\ (1 .. n + 1) \ {n + 1} = 1 .. n
  BY <1>2
<1>9. SumFunctionOnSet(f, 1 .. n + 1) = f[n + 1] + SumFunctionOnSet(f, (1 .. n + 1) \ {n + 1})
  BY <1>5, <1>7, <1>8, SumTakesOut
<1>10. \A k \in 1 .. n : f[k] \in Int /\ f[k] = g[k]
  BY <1>2, <1>5
<1>11. SumFunctionOnSet(f, 1 .. n) = SumFunctionOnSet(g, 1 .. n)
       /\ SumFunctionOnSet(f, 1 .. n) \in Int
  BY <1>7, <1>10, SumSame, SumType
<1>12. Gain(r) \in Int
  BY <1>2, <1>5
<1>13. Score(r) = Score(h) + Gain(r)
  <2>1. Score(r) = Gain(r) + SumFunctionOnSet(g, 1 .. n)
    BY <1>5, <1>6, <1>8, <1>9, <1>11, <1>a
  <2>2. Score(h) = SumFunctionOnSet(g, 1 .. n)
    BY <1>6, <1>a
  <2>3. QED
    BY <1>11, <1>12, <2>1, <2>2
<1>14. QED
  BY <1>12, <1>13 DEF r

(* The predecessor and the option of an extension. *)
LEMMA AppendedParts ==
  ASSUME NEW h \in Hypotheses, NEW i \in DOMAIN source.options
  PROVE  Front(Append(h, i)) = h /\ Last(Append(h, i)) = i /\ Append(h, i) # << >>
<1> DEFINE S == DOMAIN source.options
           r == Append(h, i)
<1>1. h \in Seq(S) /\ i \in S
  BY DEF Hypotheses
<1> HIDE DEF S
<1>2. r \in Seq(S) /\ Len(r) = Len(h) + 1 /\ Len(h) \in Nat /\ r[Len(h) + 1] = i
  BY <1>1
<1>3. SubSeq(r, 1, Len(r) - 1) = h
  BY <1>1
<1>4. QED
  BY <1>2, <1>3 DEF Front, Last

(* An extension ends where its phrase does, and with its word if it has    *)
(* one. *)
LEMMA StatesOfExtension ==
  ASSUME InputsKept, NEW h \in Hypotheses, NEW i \in DOMAIN source.options
  PROVE  /\ LastEnd(Append(h, i)) = Option(i).to
         /\ LastWord(Append(h, i)) = IF Option(i).out = 0 THEN LastWord(h) ELSE Option(i).out
<1> DEFINE r == Append(h, i)
           n == Len(h)
           Spoken(q) == { k \in DOMAIN q : Option(q[k]).out # 0 }
<1>1. /\ n \in Nat /\ DOMAIN h = 1 .. n /\ DOMAIN r = 1 .. n + 1
      /\ r[n + 1] = i /\ \A k \in 1 .. n : r[k] = h[k]
  BY DEF Hypotheses
<1>2. LastEnd(r) = Option(i).to
  <2>1. Last(r) = i /\ r # << >>
    BY AppendedParts
  <2>2. QED
    BY <2>1 DEF LastEnd
<1> HIDE DEF r, n
<1>3. Spoken(r) = IF Option(i).out = 0 THEN Spoken(h) ELSE Spoken(h) \cup {n + 1}
  BY <1>1
<1>4. \A q : LastWord(q) = IF Spoken(q) = {} THEN 0 ELSE Option(q[Max(Spoken(q))]).out
  BY DEF LastWord
<1>5. Spoken(h) \subseteq 1 .. n
  BY <1>1
<1> HIDE DEF Spoken
<1>6. CASE Option(i).out = 0
  <2>1. Spoken(r) = Spoken(h)
    BY <1>3, <1>6
  <2>2. CASE Spoken(h) = {}
    BY <1>4, <1>6, <2>1, <2>2, <1>2 DEF r
  <2>3. CASE Spoken(h) # {}
    <3>1. Max(Spoken(h)) \in Spoken(h)
      <4>1. Spoken(h) \subseteq 0 .. n
        BY <1>1, <1>5
      <4>2. QED
        BY <1>1, <2>3, <4>1, MaxIn
    <3>2. r[Max(Spoken(h))] = h[Max(Spoken(h))]
      BY <1>1, <1>5, <3>1
    <3>3. LastWord(r) = LastWord(h)
      BY <1>4, <2>1, <2>3, <3>2
    <3>4. QED
      BY <1>2, <1>6, <3>3 DEF r
  <2>4. QED
    BY <2>2, <2>3
<1>7. CASE Option(i).out # 0
  <2>1. Spoken(r) = Spoken(h) \cup {n + 1}
    BY <1>3, <1>7
  <2>2. Spoken(r) \subseteq 0 .. n + 1 /\ Spoken(r) # {} /\ n + 1 \in Spoken(r)
    BY <1>1, <1>5, <2>1
  <2>3. Max(Spoken(r)) \in Spoken(r) /\ \A x \in Spoken(r) : x <= Max(Spoken(r))
    BY <1>1, <2>2, MaxIn
  <2>4. Max(Spoken(r)) = n + 1
    BY <1>1, <2>2, <2>3
  <2>5. LastWord(r) = Option(i).out
    BY <1>1, <1>4, <2>2, <2>4
  <2>6. QED
    BY <1>2, <1>7, <2>5 DEF r
<1>8. QED
  BY <1>6, <1>7

(* Without early discarding: what is compared. *)
LEMMA RecombineSays ==
  ASSUME InputsKept, ~EarlyDiscarding, NEW g \in Hypotheses, NEW h \in Hypotheses
  PROVE  Recombine(g, h) <=> /\ GetWordsBitmap(g) = GetWordsBitmap(h)
                             /\ LastEnd(g) = LastEnd(h) /\ LastWord(g) = LastWord(h)
<1>1. \A x : FFStates(x) = << LastEnd(x), LastWord(x) >>
  BY DEF FFStates, Evaluated
<1>2. ASSUME Recombine(g, h)
      PROVE  /\ GetWordsBitmap(g) = GetWordsBitmap(h)
             /\ LastEnd(g) = LastEnd(h) /\ LastWord(g) = LastWord(h)
  <2>1. GetWordsBitmap(g) = GetWordsBitmap(h)
    BY <1>2, SameCoverage
  <2>2. FFStates(g) = FFStates(h)
    BY <1>2 DEF Recombine, RecombineKey
  <2>3. << LastEnd(g), LastWord(g) >> = << LastEnd(h), LastWord(h) >>
    BY <1>1, <2>2
  <2>4. QED
    BY <2>1, <2>3
<1>3. ASSUME GetWordsBitmap(g) = GetWordsBitmap(h),
             LastEnd(g) = LastEnd(h), LastWord(g) = LastWord(h)
      PROVE  Recombine(g, h)
  BY <1>1, <1>3 DEF Recombine, RecombineKey
<1>4. QED
  BY <1>2, <1>3

(* Hypotheses that can be recombined have the same extensions, which can   *)
(* be recombined and gain the same. *)
LEMMA SameFuture ==
  ASSUME InputsKept, ~EarlyDiscarding, NEW g \in Hypotheses, NEW h \in Hypotheses,
         Recombine(g, h)
  PROVE  /\ Extensions(g) = Extensions(h)
         /\ \A i \in DOMAIN source.options :
              /\ Recombine(Append(g, i), Append(h, i))
              /\ Gain(Append(g, i)) = Gain(Append(h, i))
<1>1. /\ GetWordsBitmap(g) = GetWordsBitmap(h)
      /\ LastEnd(g) = LastEnd(h) /\ LastWord(g) = LastWord(h)
  BY RecombineSays
<1>2. Extensions(g) = Extensions(h)
  <2>1. ASSUME NEW i PROVE MayExtend(g, i) <=> MayExtend(h, i)
    BY <1>1 DEF MayExtend, IsComplete
  <2>2. QED
    BY <2>1 DEF Extensions
<1>3. ASSUME NEW i \in DOMAIN source.options
      PROVE  /\ Recombine(Append(g, i), Append(h, i))
             /\ Gain(Append(g, i)) = Gain(Append(h, i))
  <2>1. Append(g, i) \in Hypotheses /\ Append(h, i) \in Hypotheses
        /\ GetWordsBitmap(Append(g, i)) = GetWordsBitmap(Append(h, i))
    <3>1. /\ Append(g, i) \in Hypotheses
          /\ GetWordsBitmap(Append(g, i)) = GetWordsBitmap(g) \cup Option(i).from .. Option(i).to
      BY Coverage
    <3>2. /\ Append(h, i) \in Hypotheses
          /\ GetWordsBitmap(Append(h, i)) = GetWordsBitmap(h) \cup Option(i).from .. Option(i).to
      BY Coverage
    <3>3. QED
      BY <1>1, <3>1, <3>2
  <2>2. /\ LastEnd(Append(g, i)) = LastEnd(Append(h, i))
        /\ LastWord(Append(g, i)) = LastWord(Append(h, i))
    BY <1>1, StatesOfExtension
  <2>3. /\ Last(Append(g, i)) = i /\ GetPrevHypo(Append(g, i)) = g
        /\ Last(Append(h, i)) = i /\ GetPrevHypo(Append(h, i)) = h
    BY AppendedParts DEF GetPrevHypo
  <2>4. Gain(Append(g, i)) = Gain(Append(h, i))
    BY <1>1, <2>3 DEF Gain
  <2>5. QED
    BY <2>1, <2>2, <2>4, RecombineSays
<1>4. QED
  BY <1>2, <1>3

(* Of the same coverage the better in total is the better. *)
LEMMA TotalsCompare ==
  ASSUME InputsKept, ~EarlyDiscarding, NEW g \in Hypotheses, NEW h \in Hypotheses,
         GetWordsBitmap(g) = GetWordsBitmap(h)
  PROVE  GetTotalScore(g) <= GetTotalScore(h) <=> Score(g) <= Score(h)
<1>1. g = << >> <=> h = << >>
  BY CoveredTyped DEF Covered
<1>2. CASE g = << >>
  <2>1. GetTotalScore(g) \in Int /\ Score(g) \in Int
    BY ScoresTyped
  <2>2. QED
    BY <1>1, <1>2, <2>1
<1>3. CASE g # << >>
  <2> DEFINE F == CalcFutureScore(GetWordsBitmap(g))
  <2>1. GetTotalScore(g) = Score(g) + F /\ GetTotalScore(h) = Score(h) + F
    BY <1>1, <1>3 DEF GetTotalScore, Evaluated, EmptyHypothesis
  <2>2. F \in Int /\ Score(g) \in Int /\ Score(h) \in Int
    BY FutureTyped, ScoresTyped
  <2> HIDE DEF F
  <2>3. QED
    BY <2>1, <2>2
<1>4. QED
  BY <1>2, <1>3

-------------------------------------------------------------------------
(* All ways to translate. *)

PartialStep(step, n) ==
  IF n = 0 THEN {EmptyHypothesis}
           ELSE UNION { { Append(h, i) : i \in Extensions(h) } : h \in step[n - 1] }

(* They are made step by step, and none has more steps than there are      *)
(* words. *)
LEMMA PartialsEquation ==
  ASSUME InputsKept
  PROVE  \E step : /\ Partials = UNION { step[n] : n \in 0 .. source.size }
                   /\ \A n \in 0 .. source.size :
                        step[n] = PartialStep(step, n) /\ step[n] \subseteq Hypotheses
<1> DEFINE D == 0 .. source.size
           V == SUBSET Hypotheses
           G == [f \in [D -> V] |-> [n \in D |-> PartialStep(f, n)]]
           rank == [n \in D |-> n]
<1>1. source.size \in Nat /\ EmptyHypothesis \in Hypotheses
  BY InputsTyped DEF EmptyHypothesis, Hypotheses
<1>2. ASSUME NEW h \in Hypotheses, NEW i \in Extensions(h) PROVE Append(h, i) \in Hypotheses
  BY DEF Extensions, Hypotheses
<1>3. ASSUME NEW f, NEW n \in D, n # 0 => f[n - 1] \subseteq Hypotheses
      PROVE  PartialStep(f, n) \subseteq Hypotheses
  <2>1. CASE n = 0
    BY <1>1, <2>1 DEF PartialStep
  <2>2. CASE n # 0
    <3>1. ASSUME NEW x \in PartialStep(f, n) PROVE x \in Hypotheses
      <4>1. PICK h \in f[n - 1] : x \in { Append(h, i) : i \in Extensions(h) }
        BY <2>2 DEF PartialStep
      <4>2. PICK i \in Extensions(h) : x = Append(h, i)
        BY <4>1
      <4>3. h \in Hypotheses
        BY <1>3, <2>2
      <4>4. QED
        BY <1>2, <4>2, <4>3
    <3>2. QED
      BY <3>1
  <2>3. QED
    BY <2>1, <2>2
<1>4. ASSUME NEW n \in D, n # 0 PROVE n - 1 \in D /\ n - 1 < n
  BY <1>1, <1>4
<1>5. ASSUME NEW f \in [D -> V], NEW n \in D
      PROVE  G[f][n] = PartialStep(f, n) /\ G[f][n] \in V
  <2>1. G[f][n] = PartialStep(f, n)
    OBVIOUS
  <2>2. n # 0 => f[n - 1] \subseteq Hypotheses
    BY <1>4
  <2>3. QED
    BY <1>3, <2>1, <2>2
<1>6. PICK sol \in [D -> V] : \A n \in D : sol[n] = PartialStep(sol, n)
  <2>1. KeepsType(G, D, V)
    <3> HIDE DEF G, D, V
    <3>1. QED
      BY <1>5 DEF KeepsType
  <2>2. LooksBelow(G, D, V, rank)
    <3>1. ASSUME NEW f \in [D -> V], NEW g \in [D -> V], NEW n \in D,
                 \A m \in D : rank[m] < rank[n] => f[m] = g[m]
          PROVE  G[f][n] = G[g][n]
      <4>1. n # 0 => f[n - 1] = g[n - 1]
        <5>1. SUFFICES ASSUME n # 0 PROVE f[n - 1] = g[n - 1]
          OBVIOUS
        <5>2. n - 1 \in D /\ n - 1 < n
          BY <1>4, <5>1
        <5>3. rank[n - 1] < rank[n]
          BY <5>2
        <5> HIDE DEF D, rank, V
        <5>4. QED
          BY <3>1, <5>2, <5>3
      <4>2. PartialStep(f, n) = PartialStep(g, n)
        BY <4>1 DEF PartialStep
      <4>3. QED
        BY <1>5, <4>2
    <3> HIDE DEF G, D, rank, V
    <3>2. QED
      BY <3>1 DEF LooksBelow
  <2> DEFINE N == source.size
  <2>3. N \in Nat /\ rank \in [D -> 0 .. N] /\ V # {}
    BY <1>1
  <2> HIDE DEF G, D, rank, N, V
  <2>4. \E f \in [D -> V] : Solution(f, G, D)
    BY <2>1, <2>2, <2>3, Recursion
  <2>5. QED
    BY <1>5, <2>4 DEF Solution
<1> DEFINE step == CHOOSE f : f = [n \in D |-> PartialStep(f, n)]
<1>7. Partials = UNION { step[n] : n \in D }
  BY DEF Partials, PartialStep
<1>8. sol = [n \in D |-> PartialStep(sol, n)]
  BY <1>6
<1> HIDE DEF G, rank
<1>9. step = [n \in D |-> PartialStep(step, n)]
  BY <1>8
<1> HIDE DEF step
<1>10. \A n \in D : step[n] = PartialStep(step, n)
  BY <1>9
<1> DEFINE Good == { n \in Nat : n \in D => step[n] \subseteq Hypotheses }
<1>11. 0 \in Good
  <2>1. 0 \in D
    BY <1>1
  <2>2. step[0] = {EmptyHypothesis}
    BY <1>10, <2>1 DEF PartialStep
  <2>3. QED
    BY <1>1, <2>2
<1>12. ASSUME NEW n \in Nat, n \in Good PROVE n + 1 \in Good
  <2>1. SUFFICES ASSUME n + 1 \in D PROVE step[n + 1] \subseteq Hypotheses
    BY <1>12
  <2>2. n \in D /\ n + 1 - 1 = n
    BY <1>1, <1>12, <2>1
  <2>3. step[n] \subseteq Hypotheses
    BY <1>12, <2>2
  <2>4. PartialStep(step, n + 1) \subseteq Hypotheses
    BY <1>3, <2>1, <2>2, <2>3
  <2>5. QED
    BY <1>10, <2>1, <2>4
<1>13. \A n \in Nat : n \in Good
  <2> HIDE DEF Good
  <2>1. QED
    BY <1>11, <1>12, Induction
<1>14. \A n \in D : step[n] \subseteq Hypotheses
  BY <1>1, <1>13
<1>15. QED
  BY <1>7, <1>10, <1>14

(* Every extension of one is one. *)
LEMMA PartialsClosed ==
  ASSUME InputsKept
  PROVE  /\ Partials \subseteq Hypotheses /\ EmptyHypothesis \in Partials
         /\ \A h \in Partials : \A i \in Extensions(h) : Append(h, i) \in Partials
<1>1. PICK step : /\ Partials = UNION { step[n] : n \in 0 .. source.size }
                  /\ \A n \in 0 .. source.size :
                       step[n] = PartialStep(step, n) /\ step[n] \subseteq Hypotheses
  BY PartialsEquation
<1>2. source.size \in Nat
  BY InputsTyped
<1>3. Partials \subseteq Hypotheses
  BY <1>1
<1>4. EmptyHypothesis \in Partials
  <2>1. 0 \in 0 .. source.size
    BY <1>2
  <2>2. step[0] = {EmptyHypothesis}
    BY <1>1, <2>1 DEF PartialStep
  <2>3. QED
    BY <1>1, <2>1, <2>2
<1> DEFINE Deep(n) == \A h \in step[n] : n <= Covered(h)
           Good == { n \in Nat : n \in 0 .. source.size => Deep(n) }
<1>5. ASSUME NEW n \in Nat, n + 1 \in 0 .. source.size
      PROVE  /\ n \in 0 .. source.size
             /\ step[n + 1] = UNION { { Append(h, i) : i \in Extensions(h) } : h \in step[n] }
  <2>1. n \in 0 .. source.size /\ n + 1 # 0 /\ n + 1 - 1 = n
    BY <1>2, <1>5
  <2>2. step[n + 1] = PartialStep(step, n + 1)
    BY <1>1, <1>5
  <2>3. QED
    BY <2>1, <2>2 DEF PartialStep
<1>6. 0 \in Good
  <2>1. 0 \in 0 .. source.size
    BY <1>2
  <2>2. \A h \in step[0] : Covered(h) \in 0 .. source.size
    BY <1>1, <2>1, CoveredTyped
  <2>3. QED
    BY <2>2
<1>7. ASSUME NEW n \in Nat, n \in Good PROVE n + 1 \in Good
  <2>1. SUFFICES ASSUME n + 1 \in 0 .. source.size, NEW d \in step[n + 1]
                 PROVE  n + 1 <= Covered(d)
    BY <1>7
  <2>2. n \in 0 .. source.size
        /\ step[n + 1] = UNION { { Append(h, i) : i \in Extensions(h) } : h \in step[n] }
    BY <1>5, <1>7, <2>1
  <2>3. PICK h \in step[n] : \E i \in Extensions(h) : d = Append(h, i)
    BY <2>1, <2>2
  <2>a. PICK i \in Extensions(h) : d = Append(h, i)
    BY <2>3
  <2>4. h \in Hypotheses /\ n <= Covered(h)
    BY <1>1, <1>7, <2>2
  <2>5. Covered(h) < Covered(d) /\ Covered(h) \in Int /\ Covered(d) \in Int
    BY <2>a, <2>4, ExtensionOf, CoveredTyped
  <2>6. QED
    BY <1>7, <2>4, <2>5
<1>8. \A n \in Nat : n \in Good
  <2> HIDE DEF Good
  <2>1. QED
    BY <1>6, <1>7, Induction
<1>9. ASSUME NEW h \in Partials, NEW i \in Extensions(h) PROVE Append(h, i) \in Partials
  <2>1. PICK n \in 0 .. source.size : h \in step[n]
    BY <1>1
  <2>2. n \in Nat /\ n <= Covered(h) /\ h \in Hypotheses
    BY <1>1, <1>2, <1>8, <2>1
  <2>3. Covered(h) < Covered(Append(h, i)) /\ Covered(Append(h, i)) \in 0 .. source.size
    BY <2>2, ExtensionOf
  <2>4. Covered(h) \in Int
    BY <2>2, CoveredTyped
  <2>5. n + 1 \in 0 .. source.size
    BY <1>2, <2>2, <2>3, <2>4
  <2>6. Append(h, i) \in step[n + 1]
    <3>1. step[n + 1] = UNION { { Append(g, j) : j \in Extensions(g) } : g \in step[n] }
      BY <1>5, <2>2, <2>5
    <3>2. Append(h, i) \in { Append(h, j) : j \in Extensions(h) }
      OBVIOUS
    <3>3. QED
      BY <2>1, <3>1, <3>2
  <2>7. QED
    BY <1>1, <2>5, <2>6
<1>10. QED
  BY <1>3, <1>4, <1>9

(* What holds of the empty hypothesis, and of every extension of one it    *)
(* holds of, holds of all. *)
LEMMA PartialsInduction ==
  ASSUME InputsKept, NEW S, EmptyHypothesis \in S,
         \A h \in S \cap Partials : \A i \in Extensions(h) : Append(h, i) \in S
  PROVE  Partials \subseteq S
<1>1. PICK step : /\ Partials = UNION { step[n] : n \in 0 .. source.size }
                  /\ \A n \in 0 .. source.size :
                       step[n] = PartialStep(step, n) /\ step[n] \subseteq Hypotheses
  BY PartialsEquation
<1>2. source.size \in Nat
  BY InputsTyped
<1> DEFINE Good == { n \in Nat : n \in 0 .. source.size => step[n] \subseteq S }
<1>3. 0 \in Good
  <2>1. 0 \in 0 .. source.size
    BY <1>2
  <2>2. step[0] = {EmptyHypothesis}
    BY <1>1, <2>1 DEF PartialStep
  <2>3. QED
    BY <2>2
<1>4. ASSUME NEW n \in Nat, n \in Good PROVE n + 1 \in Good
  <2>1. SUFFICES ASSUME n + 1 \in 0 .. source.size, NEW d \in step[n + 1]
                 PROVE  d \in S
    BY <1>4
  <2>2. n \in 0 .. source.size /\ n + 1 # 0 /\ n + 1 - 1 = n
    BY <1>2, <1>4, <2>1
  <2>3. step[n + 1] = UNION { { Append(h, i) : i \in Extensions(h) } : h \in step[n] }
    <3>1. step[n + 1] = PartialStep(step, n + 1)
      BY <1>1, <2>1
    <3>2. QED
      BY <2>2, <3>1 DEF PartialStep
  <2>4. PICK h \in step[n] : \E i \in Extensions(h) : d = Append(h, i)
    BY <2>1, <2>3
  <2>5. h \in S \cap Partials
    BY <1>1, <1>4, <2>2
  <2>6. QED
    BY <2>4, <2>5
<1>5. \A n \in Nat : n \in Good
  <2> HIDE DEF Good
  <2>1. QED
    BY <1>3, <1>4, Induction
<1>6. QED
  BY <1>1, <1>2, <1>5

(* There are finitely many. *)
LEMMA PartialsFinite ==
  ASSUME InputsKept PROVE IsFiniteSet(Partials)
<1>1. PICK step : /\ Partials = UNION { step[n] : n \in 0 .. source.size }
                  /\ \A n \in 0 .. source.size :
                       step[n] = PartialStep(step, n) /\ step[n] \subseteq Hypotheses
  BY PartialsEquation
<1>2. source.size \in Nat
  BY InputsTyped
<1>3. IsFiniteSet(DOMAIN source.options)
  BY OptionNumbers, FS_Interval
<1> DEFINE New(h) == { Append(h, i) : i \in Extensions(h) }
<1>4. ASSUME NEW h PROVE IsFiniteSet(New(h))
  <2> DEFINE f == [i \in Extensions(h) |-> Append(h, i)]
  <2>1. IsFiniteSet(Extensions(h))
    BY <1>3, FS_Subset DEF Extensions
  <2>2. { f[i] : i \in Extensions(h) } = New(h)
    OBVIOUS
  <2> HIDE DEF f, New
  <2>3. IsFiniteSet({ f[i] : i \in Extensions(h) })
    BY <2>1, ImageFinite
  <2>4. QED
    BY <2>2, <2>3
<1>5. ASSUME NEW T, IsFiniteSet(T) PROVE IsFiniteSet(UNION { New(h) : h \in T })
  <2> DEFINE f == [h \in T |-> New(h)]
  <2>1. { f[h] : h \in T } = { New(h) : h \in T }
    OBVIOUS
  <2> HIDE DEF f, New
  <2>2. IsFiniteSet({ f[h] : h \in T })
    BY <1>5, ImageFinite
  <2>3. \A U \in { New(h) : h \in T } : IsFiniteSet(U)
    BY <1>4
  <2>4. QED
    BY <2>1, <2>2, <2>3, FS_UNION
<1> DEFINE Good == { n \in Nat : n \in 0 .. source.size => IsFiniteSet(step[n]) }
<1>6. 0 \in Good
  <2>1. 0 \in 0 .. source.size
    BY <1>2
  <2>2. step[0] = {EmptyHypothesis}
    BY <1>1, <2>1 DEF PartialStep
  <2>3. QED
    BY <2>2, FS_Singleton
<1>7. ASSUME NEW n \in Nat, n \in Good PROVE n + 1 \in Good
  <2>1. SUFFICES ASSUME n + 1 \in 0 .. source.size PROVE IsFiniteSet(step[n + 1])
    BY <1>7
  <2>2. n \in 0 .. source.size /\ n + 1 # 0 /\ n + 1 - 1 = n
    BY <1>2, <1>7, <2>1
  <2>3. step[n + 1] = UNION { New(h) : h \in step[n] }
    <3>1. step[n + 1] = PartialStep(step, n + 1)
      BY <1>1, <2>1
    <3>2. QED
      BY <2>2, <3>1 DEF PartialStep
  <2> HIDE DEF New
  <2>4. QED
    BY <1>5, <1>7, <2>2, <2>3
<1>8. \A n \in Nat : n \in Good
  <2> HIDE DEF Good
  <2>1. QED
    BY <1>6, <1>7, Induction
<1>9. \A n \in 0 .. source.size : IsFiniteSet(step[n])
  BY <1>2, <1>8
<1> DEFINE levels == { step[n] : n \in 0 .. source.size }
<1>10. IsFiniteSet(levels)
  <2> DEFINE f == [n \in 0 .. source.size |-> step[n]]
  <2>1. { f[n] : n \in 0 .. source.size } = levels
    OBVIOUS
  <2>2. IsFiniteSet(0 .. source.size)
    BY <1>2, FS_Interval
  <2> HIDE DEF f, levels
  <2>3. IsFiniteSet({ f[n] : n \in 0 .. source.size })
    BY <2>2, ImageFinite
  <2>4. QED
    BY <2>1, <2>3
<1>11. \A U \in levels : IsFiniteSet(U)
  BY <1>9
<1> HIDE DEF levels
<1>12. IsFiniteSet(UNION levels)
  BY <1>10, <1>11, FS_UNION
<1>13. QED
  BY <1>1, <1>12 DEF levels

(* Word by word from left to right, each by its own option: the sentence   *)
(* can be translated. *)
LEMMA SomeTranslation ==
  ASSUME InputsKept PROVE \E d \in Partials : IsComplete(d)
<1> DEFINE c == m_reorderingConstraint
           D == param.maxDistortion
           Made(n) == \E h \in Partials : GetWordsBitmap(h) = 0 .. n - 1 /\ LastEnd(h) = n - 1
           Good == { n \in Nat : n <= source.size => Made(n) }
<1>1. /\ source.size \in Nat /\ D \in Int /\ param.maxPhraseLength \in Nat \ {0}
      /\ \A p \in 0 .. source.size - 1 :
           \E i \in DOMAIN source.options : Option(i).from = p /\ Option(i).to = p
  <2>1. PICK k \in Cases : source = k.source
    BY DEF InputsKept
  <2>2. \A p \in 0 .. k.source.size - 1 : \E i \in DOMAIN k.source.options :
          k.source.options[i].from = p /\ k.source.options[i].to = p
    BY CasesAssumption
  <2>3. QED
    BY <2>1, <2>2, InputsTyped DEF Option
<1>2. 0 \in Good
  <2>1. EmptyHypothesis \in Partials
    BY PartialsClosed
  <2>2. GetWordsBitmap(EmptyHypothesis) = 0 .. 0 - 1 /\ LastEnd(EmptyHypothesis) = 0 - 1
    BY DEF GetWordsBitmap, LastEnd, EmptyHypothesis, NOT_FOUND
  <2>3. QED
    BY <2>1, <2>2
<1>3. ASSUME NEW n \in Nat, n \in Good PROVE n + 1 \in Good
  <2>1. SUFFICES ASSUME n + 1 <= source.size PROVE Made(n + 1)
    BY <1>3
  <2>2. PICK h \in Partials : GetWordsBitmap(h) = 0 .. n - 1 /\ LastEnd(h) = n - 1
    BY <1>1, <1>3, <2>1
  <2>3. PICK i \in DOMAIN source.options : Option(i).from = n /\ Option(i).to = n
    BY <1>1, <1>3, <2>1
  <2> DEFINE B == 0 .. n - 1
  <2>4. GetFirstGapPos(B, source.size) = n
    <3> DEFINE T == 0 .. source.size \ B
    <3>1. T \subseteq Nat /\ n \in T /\ \A x \in T : n <= x
      BY <1>1, <1>3, <2>1
    <3> HIDE DEF T
    <3>2. Min(T) \in T /\ \A x \in T : Min(T) <= x
      BY <3>1, MinIn
    <3>3. Min(T) = n
      <4>1. Min(T) \in Nat /\ Min(T) <= n /\ n <= Min(T)
        BY <3>1, <3>2
      <4>2. QED
        BY <1>3, <4>1
    <3>4. QED
      BY <3>3 DEF GetFirstGapPos, T
  <2>5. GetLastPos(B) = n - 1
    <3>1. CASE n = 0
      BY <3>1 DEF GetLastPos, NOT_FOUND
    <3>2. CASE n # 0
      <4>1. B \subseteq 0 .. n - 1 /\ B # {} /\ n - 1 \in B /\ n - 1 \in Nat
        BY <1>3, <3>2
      <4> HIDE DEF B
      <4>2. Max(B) \in B /\ \A x \in B : x <= Max(B)
        BY <4>1, MaxIn
      <4>3. Max(B) = n - 1
        <5>1. Max(B) \in 0 .. n - 1 /\ n - 1 <= Max(B)
          BY <4>1, <4>2
        <5>2. QED
          BY <1>3, <5>1
      <4>4. QED
        BY <4>1, <4>3 DEF GetLastPos
    <3>3. QED
      BY <3>1, <3>2
  <2>6. B \cap n .. n = {}
    BY <1>3
  <2> HIDE DEF B, c, D
  <2>7. Check(c, B, source.size, n, n, D)
    <3>1. n > n - 1
      BY <1>3
    <3>2. QED
      BY <2>4, <2>5, <3>1 DEF Check
  <2>8. ~TooFar(ComputeDistortionDistance(n - 1, n), D)
    <3>1. ComputeDistortionDistance(n - 1, n) = 0
      BY <1>3 DEF ComputeDistortionDistance
    <3>2. QED
      BY <1>1, <3>1 DEF TooFar
  <2>9. Extends(c, B, source.size, n - 1, n, n, D)
    BY <2>4, <2>6, <2>7, <2>8 DEF Extends
  <2>10. ~IsComplete(h)
    <3>1. n \in Positions /\ n \notin 0 .. n - 1
      BY <1>1, <1>3, <2>1 DEF Positions
    <3>2. QED
      BY <2>2, <3>1 DEF IsComplete
  <2>11. i \in Extensions(h)
    <3>1. n - n < param.maxPhraseLength
      BY <1>1, <1>3
    <3>2. QED
      BY <2>2, <2>3, <2>9, <2>10, <3>1 DEF Extensions, MayExtend, B, c, D
  <2>12. Append(h, i) \in Partials /\ h \in Hypotheses
    BY <2>11, PartialsClosed
  <2>13. /\ GetWordsBitmap(Append(h, i)) = (0 .. n - 1) \cup (n .. n)
         /\ LastEnd(Append(h, i)) = n
    BY <2>2, <2>3, <2>12, Coverage, StatesOfExtension
  <2>14. (0 .. n - 1) \cup (n .. n) = 0 .. (n + 1) - 1 /\ n = (n + 1) - 1
    BY <1>3
  <2>15. QED
    BY <2>12, <2>13, <2>14
<1>4. \A n \in Nat : n \in Good
  <2> HIDE DEF Good
  <2>1. QED
    BY <1>2, <1>3, Induction
<1>5. Made(source.size)
  BY <1>1, <1>4
<1>6. QED
  BY <1>5 DEF IsComplete, Positions

-------------------------------------------------------------------------
(* Stacks that reach no limit. *)

PartialsOf(k) == { h \in Partials : Covered(h) = k }

(* A stack that refuses nothing there is. *)
Lenient(s, k) ==
  /\ s.m_bestScore \in Int /\ s.m_worstScore \in Int
  /\ \A h \in PartialsOf(k) :
       s.m_worstScore <= GetTotalScore(h) /\ s.m_bestScore + param.beamWidth <= GetTotalScore(h)

(* d itself or one that can be recombined with it and is no worse. *)
Represented(s, d) ==
  \E g \in Hypos(s) : Recombine(g, d) /\ GetTotalScore(d) <= GetTotalScore(g)

(* What WithinLimits says of one stack. *)
LEMMA LimitsSay ==
  ASSUME InputsKept, WithinLimits, NEW k \in 0 .. source.size
  PROVE  /\ IsFiniteSet(PartialsOf(k)) /\ PartialsOf(k) \subseteq Hypotheses
         /\ Cardinality(PartialsOf(k)) <= param.maxHypoStackSize
         /\ \A g, h \in PartialsOf(k) :
              /\ GetTotalScore(h) \in Int /\ -Infinity <= GetTotalScore(h)
              /\ GetTotalScore(g) + param.beamWidth <= GetTotalScore(h)
<1>1. PartialsOf(k) \subseteq Hypotheses
  BY PartialsClosed DEF PartialsOf
<1>2. IsFiniteSet(PartialsOf(k))
  BY PartialsFinite, FS_Subset DEF PartialsOf
<1> DEFINE totals == { GetTotalScore(h) : h \in PartialsOf(k) }
<1>3. /\ Cardinality(PartialsOf(k)) <= param.maxHypoStackSize
      /\ \A x, y \in totals : -Infinity <= x /\ y + param.beamWidth <= x
  BY DEF WithinLimits, PartialsOf, Covered
<1>4. \A h \in PartialsOf(k) : GetTotalScore(h) \in totals
  OBVIOUS
<1>5. \A h \in PartialsOf(k) : GetTotalScore(h) \in Int
  BY <1>1, ScoresTyped
<1> HIDE DEF totals
<1>6. QED
  BY <1>1, <1>2, <1>3, <1>4, <1>5

(* It is never cut. *)
LEMMA NothingCut ==
  ASSUME InputsKept, WithinLimits, NEW k \in 0 .. source.size,
         NEW s, Hypos(s) \subseteq PartialsOf(k)
  PROVE  PruneToSize(s, param.maxHypoStackSize) = {s}
<1>1. IsFiniteSet(PartialsOf(k)) /\ Cardinality(PartialsOf(k)) <= param.maxHypoStackSize
  BY LimitsSay
<1>2. IsFiniteSet(Hypos(s)) /\ Cardinality(Hypos(s)) <= Cardinality(PartialsOf(k))
  BY <1>1, FS_Subset
<1>3. Cardinality(Hypos(s)) \in Nat /\ Cardinality(PartialsOf(k)) \in Nat
      /\ param.maxHypoStackSize \in Nat
  BY <1>1, <1>2, FS_CardinalityType, BeamTyped
<1>4. Cardinality(Hypos(s)) <= param.maxHypoStackSize
  BY <1>1, <1>2, <1>3
<1>5. QED
  BY <1>4 DEF PruneToSize

(* To take one in makes a stack no stricter than those there are allow. *)
LEMMA InsertedLenient ==
  ASSUME InputsKept, WithinLimits, NEW k \in 0 .. source.size, NEW s, Lenient(s, k),
         NEW h \in PartialsOf(k), NEW arcs
  PROVE  LET t == Inserted(s, h, arcs)
         IN  Lenient(t, k) /\ Hypos(t) = Hypos(s) \cup {h}
<1> DEFINE t == Inserted(s, h, arcs)
           total == GetTotalScore(h)
           best == Max({s.m_bestScore, total})
           floor == Max({s.m_worstScore, best + param.beamWidth})
<1>1. total \in Int /\ \A g \in PartialsOf(k) : total + param.beamWidth <= GetTotalScore(g)
                                                /\ GetTotalScore(g) \in Int
  BY LimitsSay
<1>2. /\ s.m_bestScore \in Int /\ s.m_worstScore \in Int /\ param.beamWidth \in Int
      /\ \A g \in PartialsOf(k) :
           /\ s.m_worstScore <= GetTotalScore(g)
           /\ s.m_bestScore + param.beamWidth <= GetTotalScore(g)
  BY BeamTyped DEF Lenient
<1>3. t.m_hypos = With(s.m_hypos, h, arcs) /\ t.m_bestScore = best
      /\ t.m_worstScore = IF total > s.m_bestScore THEN floor ELSE s.m_worstScore
  BY DEF Inserted
<1> HIDE DEF t, total
<1>4. best \in Int /\ (best = s.m_bestScore \/ best = total)
  BY <1>1, <1>2, MaxOfTwo
<1>5. \A g \in PartialsOf(k) : best + param.beamWidth <= GetTotalScore(g)
  BY <1>1, <1>2, <1>4
<1> HIDE DEF best
<1>6. floor \in Int /\ (floor = s.m_worstScore \/ floor = best + param.beamWidth)
  <2>1. best + param.beamWidth \in Int
    BY <1>2, <1>4
  <2>2. QED
    BY <1>2, <2>1, MaxOfTwo
<1>7. \A g \in PartialsOf(k) : floor <= GetTotalScore(g)
  BY <1>2, <1>5, <1>6
<1> HIDE DEF floor
<1>8. Lenient(t, k)
  BY <1>2, <1>3, <1>4, <1>5, <1>6, <1>7 DEF Lenient
<1>9. Hypos(t) = Hypos(s) \cup {h}
  BY <1>3 DEF Hypos, With
<1>10. QED
  BY <1>8, <1>9 DEF t

(* ... and drops none. *)
LEMMA AddKeeps ==
  ASSUME InputsKept, WithinLimits, NEW k \in 0 .. source.size, NEW s, Lenient(s, k),
         Hypos(s) \subseteq PartialsOf(k), NEW h \in PartialsOf(k), NEW arcs,
         NEW t \in Add(s, h, arcs)
  PROVE  Lenient(t, k) /\ Hypos(t) = Hypos(s) \cup {h}
<1> DEFINE i == Inserted(s, h, arcs)
<1>1. t = i \/ t \in PruneToSize(i, param.maxHypoStackSize)
  BY Zenon DEF Add
<1>2. Lenient(i, k) /\ Hypos(i) = Hypos(s) \cup {h}
  BY InsertedLenient
<1> HIDE DEF i
<1>3. PruneToSize(i, param.maxHypoStackSize) = {i}
  BY <1>2, NothingCut
<1>4. QED
  BY <1>1, <1>2, <1>3

(* The hypothesis that comes is represented from now on, and those that    *)
(* were still are. *)
LEMMA AddPruneKeeps ==
  ASSUME InputsKept, WithinLimits, NEW k \in 0 .. source.size, NEW s, DOMAIN s = Fields,
         Lenient(s, k), Hypos(s) \subseteq PartialsOf(k), NEW h \in PartialsOf(k),
         NEW t \in AddPrune(s, h)
  PROVE  /\ Lenient(t, k) /\ Hypos(t) \subseteq PartialsOf(k)
         /\ Represented(t, h)
         /\ \A d \in Hypotheses : Represented(s, d) => Represented(t, d)
<1> DEFINE existing == CHOOSE g \in Hypos(s) : Recombine(g, h)
           rest     == [s EXCEPT !.m_hypos = Without(@, {existing})]
<1>1. /\ Hypos(s) \subseteq Hypotheses /\ h \in Hypotheses
      /\ \A g \in Hypotheses : GetTotalScore(g) \in Int
      /\ Recombine(h, h) /\ GetTotalScore(h) <= GetTotalScore(h)
  <2>1. Hypos(s) \subseteq Hypotheses /\ h \in Hypotheses
    BY LimitsSay
  <2>2. \A g \in Hypotheses : GetTotalScore(g) \in Int
    BY ScoresTyped
  <2>3. QED
    BY <2>1, <2>2 DEF Recombine
<1>2. ~TooBad(s, h)
  <2>1. s.m_worstScore <= GetTotalScore(h) /\ s.m_worstScore \in Int
    BY DEF Lenient
  <2>2. ~(GetTotalScore(h) < s.m_worstScore)
    BY <1>1, <2>1
  <2>3. QED
    BY <2>2 DEF TooBad
<1>3. CASE (\A g \in Hypos(s) : ~Recombine(g, h)) /\ t \in Add(s, h, {})
  <2>1. Lenient(t, k) /\ Hypos(t) = Hypos(s) \cup {h}
    BY <1>3, AddKeeps
  <2>2. QED
    BY <1>1, <2>1 DEF Represented
<1>4. ASSUME NEW losers, \E g \in Hypos(s) : Recombine(g, h),
             GetTotalScore(h) > GetTotalScore(existing), t \in Add(rest, h, losers)
      PROVE  /\ Lenient(t, k) /\ Hypos(t) \subseteq PartialsOf(k)
             /\ Represented(t, h)
             /\ \A d \in Hypotheses : Represented(s, d) => Represented(t, d)
  <2>1. existing \in Hypos(s) /\ Recombine(existing, h)
    BY <1>4
  <2>2. /\ rest.m_hypos = Without(s.m_hypos, {existing})
        /\ rest.m_bestScore = s.m_bestScore /\ rest.m_worstScore = s.m_worstScore
    BY DEF Fields
  <2> HIDE DEF existing, rest
  <2>3. Hypos(rest) = Hypos(s) \ {existing}
    BY <2>2 DEF Hypos, Without
  <2>4. Lenient(rest, k)
    BY <2>2 DEF Lenient
  <2>5. Lenient(t, k) /\ Hypos(t) = (Hypos(s) \ {existing}) \cup {h}
    BY <1>4, <2>3, <2>4, AddKeeps
  <2>6. ASSUME NEW d \in Hypotheses, Represented(s, d) PROVE Represented(t, d)
    <3>1. PICK g \in Hypos(s) : Recombine(g, d) /\ GetTotalScore(d) <= GetTotalScore(g)
      BY <2>6 DEF Represented
    <3>2. CASE g = existing
      <4>1. Recombine(h, d)
        BY <2>1, <3>1, <3>2 DEF Recombine
      <4>2. /\ GetTotalScore(d) \in Int /\ GetTotalScore(h) \in Int
            /\ GetTotalScore(existing) \in Int
        BY <1>1, <2>1
      <4>3. GetTotalScore(d) <= GetTotalScore(h)
        BY <1>4, <3>1, <3>2, <4>2
      <4>4. QED
        BY <2>5, <4>1, <4>3 DEF Represented
    <3>3. CASE g # existing
      BY <2>5, <3>1, <3>3 DEF Represented
    <3>4. QED
      BY <3>2, <3>3
  <2>7. Represented(t, h)
    BY <1>1, <2>5 DEF Represented
  <2>8. QED
    BY <2>5, <2>6, <2>7
<1>5. ASSUME NEW some, \E g \in Hypos(s) : Recombine(g, h),
             ~(GetTotalScore(h) > GetTotalScore(existing)),
             t = [s EXCEPT !.m_hypos[existing] = some]
      PROVE  /\ Lenient(t, k) /\ Hypos(t) \subseteq PartialsOf(k)
             /\ Represented(t, h)
             /\ \A d \in Hypotheses : Represented(s, d) => Represented(t, d)
  <2>1. existing \in Hypos(s) /\ Recombine(existing, h)
    BY <1>5
  <2> HIDE DEF existing
  <2>2. /\ t.m_hypos = [s.m_hypos EXCEPT ![existing] = some]
        /\ t.m_bestScore = s.m_bestScore /\ t.m_worstScore = s.m_worstScore
    BY <1>5 DEF Fields
  <2>3. Hypos(t) = Hypos(s)
    BY <2>2 DEF Hypos
  <2>4. Lenient(t, k)
    BY <2>2 DEF Lenient
  <2>5. GetTotalScore(h) <= GetTotalScore(existing)
    <3>1. GetTotalScore(h) \in Int /\ GetTotalScore(existing) \in Int
      BY <1>1, <2>1
    <3>2. QED
      BY <1>5, <3>1
  <2>6. QED
    BY <2>1, <2>3, <2>4, <2>5 DEF Represented
<1>6. \/ (\A g \in Hypos(s) : ~Recombine(g, h)) /\ t \in Add(s, h, {})
      \/ /\ \E g \in Hypos(s) : Recombine(g, h)
         /\ t \in IF GetTotalScore(h) > GetTotalScore(existing)
                    THEN Add(rest, h,
                             IF param.nBestIsEnabled
                               THEN AddArc({}, existing, s.m_hypos[existing]) ELSE {})
                    ELSE {[s EXCEPT !.m_hypos[existing] =
                              IF param.nBestIsEnabled THEN AddArc(@, h, {}) ELSE @]}
  BY <1>2, Zenon DEF AddPrune
<1>7. ASSUME \E g \in Hypos(s) : Recombine(g, h),
             t \in IF GetTotalScore(h) > GetTotalScore(existing)
                     THEN Add(rest, h,
                              IF param.nBestIsEnabled
                                THEN AddArc({}, existing, s.m_hypos[existing]) ELSE {})
                     ELSE {[s EXCEPT !.m_hypos[existing] =
                               IF param.nBestIsEnabled THEN AddArc(@, h, {}) ELSE @]}
      PROVE  /\ Lenient(t, k) /\ Hypos(t) \subseteq PartialsOf(k)
             /\ Represented(t, h)
             /\ \A d \in Hypotheses : Represented(s, d) => Represented(t, d)
  <2>1. CASE GetTotalScore(h) > GetTotalScore(existing)
    <3>1. \E losers : t \in Add(rest, h, losers)
      <4> DEFINE losers == IF param.nBestIsEnabled
                             THEN AddArc({}, existing, s.m_hypos[existing]) ELSE {}
      <4>1. t \in Add(rest, h, losers)
        BY <1>7, <2>1
      <4> HIDE DEF rest, existing, losers
      <4>2. QED
        BY <4>1
    <3> HIDE DEF rest, existing
    <3>2. QED
      BY <1>4, <1>7, <2>1, <3>1
  <2>2. CASE ~(GetTotalScore(h) > GetTotalScore(existing))
    <3>1. t = [s EXCEPT !.m_hypos[existing] =
                 IF param.nBestIsEnabled THEN AddArc(@, h, {}) ELSE @]
      BY <1>7, <2>2
    <3>2. existing \in Hypos(s)
      BY <1>7
    <3> HIDE DEF existing, rest
    <3>3. \E some : t = [s EXCEPT !.m_hypos[existing] = some]
      <4> DEFINE some == IF param.nBestIsEnabled THEN AddArc(s.m_hypos[existing], h, {})
                                                 ELSE s.m_hypos[existing]
      <4>1. t = [s EXCEPT !.m_hypos[existing] = some]
        BY <3>1, <3>2 DEF Fields, Hypos
      <4> HIDE DEF some
      <4>2. QED
        BY <4>1
    <3>4. QED
      BY <1>5, <1>7, <2>2, <3>3
  <2>3. QED
    BY <2>1, <2>2
<1> HIDE DEF existing, rest
<1>8. QED
  BY <1>3, <1>6, <1>7, Zenon

(* The order leaves nothing undecided. *)
LEMMA LexTotal ==
  ASSUME NEW a \in Seq(Int), NEW b \in Seq(Int), Len(a) = Len(b)
  PROVE  a = b \/ Lex(a, b) \/ Lex(b, a)
<1>1. /\ Len(a) \in Nat /\ DOMAIN a = 1 .. Len(a) /\ DOMAIN b = 1 .. Len(a)
      /\ \A i \in 1 .. Len(a) : a[i] \in Int /\ b[i] \in Int
  OBVIOUS
<1> DEFINE differ == { i \in 1 .. Len(a) : a[i] # b[i] }
<1>2. CASE differ = {}
  <2>1. \A i \in 1 .. Len(a) : a[i] = b[i]
    BY <1>2
  <2>2. a = b
    BY <2>1, SeqEqual
  <2>3. QED
    BY <2>2
<1>3. CASE differ # {}
  <2>1. differ \subseteq Nat
    BY <1>1
  <2>2. PICK i \in differ : \A j \in differ : i <= j
    <3> HIDE DEF differ
    <3>1. QED
      BY <1>3, <2>1, MinIn
  <2>3. /\ i \in 1 .. Len(a) /\ a[i] # b[i] /\ \A j \in 1 .. i - 1 : a[j] = b[j]
    BY <1>1, <2>2
  <2>4. a[i] < b[i] \/ b[i] < a[i]
    BY <1>1, <2>3
  <2>5. QED
    BY <1>1, <2>3, <2>4 DEF Lex
<1>4. QED
  BY <1>2, <1>3

(* Two sequences that are put together can be told apart. *)
LEMMA SameParts ==
  ASSUME NEW S, NEW a \in Seq(S), NEW b \in Seq(S), NEW s \in Seq(S), NEW t \in Seq(S),
         Len(a) = Len(b), a \o s = b \o t
  PROVE  a = b /\ s = t
<1> DEFINE x == a \o s
           n == Len(a)
<1>1. /\ Len(x) = n + Len(s) /\ Len(x) = n + Len(t)
      /\ \A i \in 1 .. n + Len(s) : x[i] = IF i <= n THEN a[i] ELSE s[i - n]
      /\ \A i \in 1 .. n + Len(t) : x[i] = IF i <= n THEN b[i] ELSE t[i - n]
  BY ConcatProperties
<1>2. n \in Nat /\ Len(s) \in Nat /\ Len(t) \in Nat
  OBVIOUS
<1> HIDE DEF x, n
<1>3. Len(s) = Len(t)
  BY <1>1, <1>2
<1>4. ASSUME NEW i \in 1 .. n PROVE a[i] = b[i]
  <2>1. i \in 1 .. n + Len(s) /\ i <= n
    BY <1>2
  <2>2. QED
    BY <1>1, <1>3, <2>1
<1>5. ASSUME NEW i \in 1 .. Len(s) PROVE s[i] = t[i]
  <2> DEFINE j == n + i
  <2>1. j \in 1 .. n + Len(s) /\ ~(j <= n) /\ j - n = i
    BY <1>2
  <2> HIDE DEF j
  <2>2. x[j] = s[j - n] /\ x[j] = t[j - n]
    BY <1>1, <1>3, <2>1
  <2>3. QED
    BY <2>1, <2>2
<1>6. a = b
  BY <1>4, SeqEqual DEF n
<1>7. s = t
  BY <1>3, <1>5, SeqEqual
<1>8. QED
  BY <1>6, <1>7

(* Those it does not put in order can be recombined. *)
LEMMA LessTotal ==
  ASSUME InputsKept, NEW g \in Hypotheses, NEW h \in Hypotheses, Covered(g) = Covered(h)
  PROVE  Recombine(g, h) \/ RecombineLess(g, h) \/ RecombineLess(h, g)
<1> DEFINE bits(x) == [p \in 1 .. source.size |-> IF p - 1 \in GetWordsBitmap(x) THEN 1 ELSE 0]
           n == source.size
<1>1. \A x, y : RecombineLess(x, y) <=> Lex(FullKey(x), FullKey(y))
  BY DEF RecombineLess, Lex, FullKey
<1>2. Evaluated(g) <=> Evaluated(h)
  BY CoveredTyped DEF Evaluated, EmptyHypothesis
<1>3. /\ FullKey(g) \in Seq(Int) /\ FullKey(h) \in Seq(Int)
      /\ Len(FullKey(g)) = Len(FullKey(h))
  BY <1>2, KeyTyped
<1>4. n \in Nat
  BY InputsTyped
<1>5. ASSUME NEW x \in {g, h}
      PROVE  /\ RecombineKey(x) = << bits(x), FFStates(x) >>
             /\ FullKey(x) = bits(x) \o FFStates(x)
             /\ bits(x) \in Seq(Int) /\ Len(bits(x)) = n
             /\ FFStates(x) \in Seq(Int)
  <2>1. RecombineKey(x) = << bits(x), FFStates(x) >>
    BY DEF RecombineKey
  <2>2. FullKey(x) = bits(x) \o FFStates(x)
    <3> DEFINE b == bits(x)
    <3>1. RecombineKey(x) = << b, FFStates(x) >>
      BY <2>1
    <3> HIDE DEF b
    <3>2. FullKey(x) = b \o FFStates(x)
      BY <3>1 DEF FullKey
    <3>3. QED
      BY <3>2 DEF b
  <2>3. bits(x) \in Seq(Int) /\ Len(bits(x)) = n
    <3> DEFINE b == bits(x)
    <3>1. b \in [1 .. n -> Int]
      OBVIOUS
    <3> HIDE DEF b
    <3>2. b \in Seq(Int) /\ Len(b) = n
      BY <1>4, <3>1
    <3>3. QED
      BY <3>2 DEF b
  <2>4. FFStates(x) \in Seq(Int)
    <3>1. LastEnd(x) \in Int /\ LastWord(x) \in Int
      BY LastTyped
    <3>2. QED
      BY <3>1 DEF FFStates
  <2> HIDE DEF bits
  <2>5. QED
    BY <2>1, <2>2, <2>3, <2>4
<1>6. ASSUME FullKey(g) = FullKey(h) PROVE Recombine(g, h)
  <2> DEFINE a == bits(g)
             b == bits(h)
             s == FFStates(g)
             t == FFStates(h)
  <2>1. /\ a \in Seq(Int) /\ b \in Seq(Int) /\ Len(a) = Len(b)
        /\ s \in Seq(Int) /\ t \in Seq(Int) /\ a \o s = b \o t
    BY <1>5, <1>6
  <2>2. RecombineKey(g) = << a, s >> /\ RecombineKey(h) = << b, t >>
    BY <1>5
  <2> HIDE DEF a, b, s, t
  <2>3. a = b /\ s = t
    BY <2>1, SameParts
  <2>4. QED
    BY <2>2, <2>3 DEF Recombine
<1>7. QED
  BY <1>1, <1>3, <1>6, LexTotal

-------------------------------------------------------------------------
(* Nothing is lost. *)

(* The extension of g, a hypothesis for k words, by option i is no longer  *)
(* to come. *)
Due(g, i, k, stack, hypo, rest) ==
  \/ k < stack
  \/ /\ k = stack /\ hypo # NoHypothesis
     /\ RecombineLess(g, hypo) \/ (g = hypo /\ i \notin rest)

Kept(coll, d) == Represented(coll[Covered(d)], d)

(* Stacks have refused nothing, and what is due is there. *)
AllKept(coll, stack, hypo, rest) ==
  \A k \in 0 .. source.size :
    /\ Hypos(coll[k]) \subseteq PartialsOf(k) /\ Lenient(coll[k], k)
    /\ \A g \in Hypos(coll[k]) : \A i \in Extensions(g) :
         Due(g, i, k, stack, hypo, rest) => Kept(coll, Append(g, i))

(* A stack changes and still represents what it did. *)
LEMMA StillKept ==
  ASSUME InputsKept, NEW coll, coll = [k \in 0 .. source.size |-> coll[k]],
         NEW stack \in Nat, NEW hypo, NEW rest, AllKept(coll, stack, hypo, rest),
         NEW n \in 0 .. source.size, stack <= n, n = stack => hypo = NoHypothesis,
         NEW t, Lenient(t, n), Hypos(t) \subseteq PartialsOf(n),
         \A d \in Hypotheses : Represented(coll[n], d) => Represented(t, d)
  PROVE  AllKept([coll EXCEPT ![n] = t], stack, hypo, rest)
<1> DEFINE new == [coll EXCEPT ![n] = t]
<1>1. \A k \in 0 .. source.size : new[k] = IF k = n THEN t ELSE coll[k]
  OBVIOUS
<1> HIDE DEF new
<1>2. source.size \in Nat
  BY InputsTyped
<1>3. ASSUME NEW d \in Hypotheses, Kept(coll, d) PROVE Kept(new, d)
  <2>1. Covered(d) \in 0 .. source.size
    BY CoveredTyped
  <2>2. QED
    BY <1>1, <1>3, <2>1 DEF Kept
<1>4. ASSUME NEW k \in 0 .. source.size
      PROVE  /\ Hypos(new[k]) \subseteq PartialsOf(k) /\ Lenient(new[k], k)
             /\ \A g \in Hypos(new[k]) : \A i \in Extensions(g) :
                  Due(g, i, k, stack, hypo, rest) => Kept(new, Append(g, i))
  <2>1. CASE k = n
    <3>1. \A g, i : ~Due(g, i, k, stack, hypo, rest)
      BY <1>2, <2>1 DEF Due
    <3>2. QED
      BY <1>1, <2>1, <3>1
  <2>2. CASE k # n
    <3>1. new[k] = coll[k]
      BY <1>1, <2>2
    <3>2. ASSUME NEW g \in Hypos(coll[k]), NEW i \in Extensions(g),
                 Due(g, i, k, stack, hypo, rest)
          PROVE  Kept(new, Append(g, i))
      <4>1. Kept(coll, Append(g, i))
        BY <3>2 DEF AllKept
      <4>2. g \in Hypotheses
        BY PartialsClosed DEF AllKept, PartialsOf
      <4>3. Append(g, i) \in Hypotheses
        BY <4>2, ExtensionOf
      <4>4. QED
        BY <1>3, <4>1, <4>3
    <3>3. QED
      BY <3>1, <3>2 DEF AllKept
  <2>3. QED
    BY <2>1, <2>2
<1>5. QED
  BY <1>4 DEF AllKept, new

(* One more extension is done. *)
LEMMA OneLess ==
  ASSUME InputsKept, NEW coll, NEW stack, NEW hypo, NEW rest, AllKept(coll, stack, hypo, rest),
         NEW i, Kept(coll, Append(hypo, i))
  PROVE  AllKept(coll, stack, hypo, rest \ {i})
<1>1. ASSUME NEW k \in 0 .. source.size, NEW g \in Hypos(coll[k]), NEW j \in Extensions(g),
             Due(g, j, k, stack, hypo, rest \ {i})
      PROVE  Kept(coll, Append(g, j))
  <2>1. CASE g = hypo /\ j = i
    BY <2>1
  <2>2. CASE ~(g = hypo /\ j = i)
    <3>1. Due(g, j, k, stack, hypo, rest)
      BY <1>1, <2>2 DEF Due
    <3>2. QED
      BY <3>1 DEF AllKept
  <2>3. QED
    BY <2>1, <2>2
<1>2. QED
  BY <1>1 DEF AllKept

(* All that has been left out of the hypotheses to come is done. *)
Passed(hypos, S, hypo) ==
  \A g \in S \ hypos : hypo # NoHypothesis /\ (g = hypo \/ RecombineLess(g, hypo))

(* The first of the hypotheses to come is taken up. *)
LEMMA FirstTakenUp ==
  ASSUME InputsKept, NEW coll, NEW k \in 0 .. source.size, NEW hypo,
         AllKept(coll, k, hypo, {}),
         NEW hypos, hypos \subseteq Hypos(coll[k]), Passed(hypos, Hypos(coll[k]), hypo),
         NEW h \in hypos, \A g \in hypos \ {h} : RecombineLess(h, g)
  PROVE  AllKept(coll, k, h, Extensions(h))
<1>1. ASSUME NEW g \in Hypos(coll[k]) PROVE g \in Hypotheses /\ Covered(g) = k
  BY PartialsClosed DEF AllKept, PartialsOf
<1>2. ASSUME NEW j \in 0 .. source.size, NEW g \in Hypos(coll[j]), NEW i \in Extensions(g),
             Due(g, i, j, k, h, Extensions(h))
      PROVE  Kept(coll, Append(g, i))
  <2>1. CASE j < k
    BY <2>1 DEF AllKept, Due
  <2>2. CASE ~(j < k)
    <3>1. j = k /\ RecombineLess(g, h)
      BY <1>2, <2>2 DEF Due
    <3>2. g \notin hypos
      <4>1. SUFFICES ASSUME g \in hypos PROVE FALSE
        OBVIOUS
      <4>2. g \in Hypotheses /\ h \in Hypotheses /\ Covered(g) = k /\ Covered(h) = k
        BY <1>1, <4>1
      <4>3. ~RecombineLess(g, g)
        BY <4>2, LessOrder
      <4>4. g # h /\ RecombineLess(h, g)
        BY <3>1, <4>1, <4>3
      <4>5. QED
        BY <3>1, <4>2, <4>3, <4>4, LessOrder
    <3>3. hypo # NoHypothesis /\ (g = hypo \/ RecombineLess(g, hypo))
      BY <3>1, <3>2 DEF Passed
    <3>4. Due(g, i, j, k, hypo, {})
      BY <3>1, <3>3 DEF Due
    <3>5. QED
      BY <3>4 DEF AllKept
  <2>3. QED
    BY <2>1, <2>2
<1>3. QED
  BY <1>2 DEF AllKept

(* None is to come: the stack is done. *)
LEMMA NoneToCome ==
  ASSUME InputsKept, NEW coll, NEW k \in 0 .. source.size, NEW hypo,
         AllKept(coll, k, hypo, {}), Passed({}, Hypos(coll[k]), hypo)
  PROVE  AllKept(coll, k + 1, NoHypothesis, {})
<1>1. source.size \in Nat
  BY InputsTyped
<1>2. ASSUME NEW j \in 0 .. source.size, NEW g \in Hypos(coll[j]), NEW i \in Extensions(g),
             Due(g, i, j, k + 1, NoHypothesis, {})
      PROVE  Kept(coll, Append(g, i))
  <2>1. j < k \/ j = k
    BY <1>1, <1>2 DEF Due
  <2>2. Due(g, i, j, k, hypo, {})
    BY <2>1 DEF Due, Passed
  <2>3. QED
    BY <2>2 DEF AllKept
<1>3. QED
  BY <1>2 DEF AllKept

(* As long as the inputs stay, what there is to translate does. *)
LEMMA PartialsStay ==
  ASSUME UNCHANGED inputVars
  PROVE  /\ source' = source /\ param' = param /\ Partials' = Partials
         /\ EarlyDiscarding' <=> EarlyDiscarding
         /\ WithinLimits' <=> WithinLimits
<1>1. source' = source /\ param' = param /\ m_reorderingConstraint' = m_reorderingConstraint
  BY DEF inputVars
<1>2. Partials' = Partials
  BY <1>1 DEF Partials, Extensions, MayExtend, IsComplete, Positions, GetWordsBitmap, LastEnd,
     Option
<1>3. EarlyDiscarding' <=> EarlyDiscarding
  BY <1>1 DEF EarlyDiscarding
<1>4. WithinLimits' <=> WithinLimits
  <2>1. \A h : GetTotalScore(h)' = GetTotalScore(h)
    BY WorthStays
  <2>2. \A h : GetWordsBitmap(h)' = GetWordsBitmap(h)
    BY <1>1 DEF GetWordsBitmap, Option
  <2> DEFINE totals(k) == { GetTotalScore(h) : h \in PartialsOf(k) }
  <2>3. ASSUME NEW k PROVE PartialsOf(k)' = PartialsOf(k)
    BY <1>2, <2>2 DEF PartialsOf, Covered
  <2>4. ASSUME NEW k PROVE totals(k)' = totals(k)
    BY <2>1, <2>3
  <2>5. WithinLimits <=> \A k \in 0 .. source.size :
                           /\ Cardinality(PartialsOf(k)) <= param.maxHypoStackSize
                           /\ \A x, y \in totals(k) : -Infinity <= x /\ y + param.beamWidth <= x
    BY DEF WithinLimits, PartialsOf, Covered
  <2>6. WithinLimits' <=> \A k \in 0 .. source'.size :
                            /\ Cardinality(PartialsOf(k)') <= param'.maxHypoStackSize
                            /\ \A x, y \in totals(k)' :
                                 -Infinity <= x /\ y + param'.beamWidth <= x
    BY DEF WithinLimits, PartialsOf, Covered
  <2> HIDE DEF totals
  <2>7. QED
    BY <1>1, <2>3, <2>4, <2>5, <2>6
<1>5. QED
  BY <1>1, <1>2, <1>3, <1>4

(* While no limit is reached, nothing is lost. *)
BestKept ==
  ~EarlyDiscarding /\ WithinLimits => AllKept(m_hypoStackColl, iterStack, iterHypo, todo)

(* From the next values to the next state. *)
LEMMA KeptNext ==
  ASSUME UNCHANGED inputVars,
         ~EarlyDiscarding /\ WithinLimits =>
           AllKept(m_hypoStackColl', iterStack', iterHypo', todo')
  PROVE  BestKept'
<1>1. /\ source' = source /\ param' = param /\ Partials' = Partials
      /\ EarlyDiscarding' <=> EarlyDiscarding
      /\ WithinLimits' <=> WithinLimits
  BY PartialsStay
<1>2. SUFFICES ASSUME ~EarlyDiscarding, WithinLimits
               PROVE  AllKept(m_hypoStackColl, iterStack, iterHypo, todo)'
  BY <1>1 DEF BestKept
<1>3. /\ \A h : GetTotalScore(h)' = GetTotalScore(h) /\ Covered(h)' = Covered(h)
      /\ \A g, h : (Recombine(g, h) <=> Recombine(g, h)')
      /\ \A g : RecombineLess(g, iterHypo)' <=> RecombineLess(g, iterHypo')
      /\ \A h : Extensions(h)' = Extensions(h)
  BY WorthStays, InputsStay
<1>4. \A k : PartialsOf(k)' = PartialsOf(k)
  BY <1>1, <1>3 DEF PartialsOf
<1>5. \A k : Lenient(m_hypoStackColl'[k], k) => Lenient(m_hypoStackColl[k], k)'
  BY <1>1, <1>3, <1>4 DEF Lenient
<1>6. \A g, i, k : Due(g, i, k, iterStack, iterHypo, todo)'
                     => Due(g, i, k, iterStack', iterHypo', todo')
  BY <1>3 DEF Due
<1>7. \A d : Kept(m_hypoStackColl', d) => Kept(m_hypoStackColl, d)'
  BY <1>3 DEF Kept, Represented, Hypos
<1>8. AllKept(m_hypoStackColl', iterStack', iterHypo', todo')
  BY <1>2
<1>9. ASSUME NEW k \in 0 .. source.size
      PROVE  /\ Hypos(m_hypoStackColl[k])' \subseteq PartialsOf(k)'
             /\ Lenient(m_hypoStackColl[k], k)'
             /\ \A g \in Hypos(m_hypoStackColl[k])' : \A i \in Extensions(g)' :
                  Due(g, i, k, iterStack, iterHypo, todo)'
                    => Kept(m_hypoStackColl, Append(g, i))'
  <2>1. Hypos(m_hypoStackColl[k])' = Hypos(m_hypoStackColl'[k])
    BY DEF Hypos
  <2>2. QED
    BY <1>3, <1>4, <1>5, <1>6, <1>7, <1>8, <2>1 DEF AllKept
<1>10. QED
  BY <1>1, <1>9 DEF AllKept

(* The steps of the search keep it. *)
LEMMA InitKept == ASSUME Init PROVE BestKept
<1>1. PICK c \in Cases :
        /\ source = c.source /\ param = c.param
        /\ m_reorderingConstraint = Constraint(source)
        /\ m_futureScore = FutureScoreMatrix(source)
        /\ m_hypoStackColl = [k \in 0 .. source.size |->
                                IF k = 0 THEN Inserted(EmptyStack, EmptyHypothesis, {})
                                         ELSE EmptyStack]
        /\ iterStack = 0 /\ iterHypo = NoHypothesis /\ todo = {}
  BY DEF Init, SearchInit
<1>2. InputsKept
  BY <1>1 DEF InputsKept
<1>3. SUFFICES ASSUME ~EarlyDiscarding, WithinLimits
               PROVE  AllKept(m_hypoStackColl, iterStack, iterHypo, todo)
  BY DEF BestKept
<1>4. source.size \in Nat /\ 0 \in 0 .. source.size
  <2>1. source.size \in Nat
    BY <1>2, InputsTyped
  <2>2. QED
    BY <2>1
<1>5. ASSUME NEW k \in 0 .. source.size PROVE Lenient(EmptyStack, k)
  <2>1. EmptyStack.m_bestScore = -Infinity /\ EmptyStack.m_worstScore = -Infinity
    BY DEF EmptyStack
  <2>2. -Infinity \in Int /\ param.beamWidth \in Int /\ param.beamWidth < 0
    BY <1>1, InfinityAssumption, BeamAssumption, SettingsAssumption
  <2>3. \A h \in PartialsOf(k) : GetTotalScore(h) \in Int /\ -Infinity <= GetTotalScore(h)
    BY <1>2, <1>3, LimitsSay
  <2>4. \A h \in PartialsOf(k) : -Infinity + param.beamWidth <= GetTotalScore(h)
    BY <2>2, <2>3
  <2>5. QED
    BY <2>1, <2>2, <2>3, <2>4 DEF Lenient
<1>6. EmptyHypothesis \in PartialsOf(0)
  <2>1. EmptyHypothesis \in Hypotheses
    BY DEF EmptyHypothesis, Hypotheses
  <2>2. Covered(EmptyHypothesis) = 0
    BY <1>2, <2>1, CoveredTyped DEF EmptyHypothesis
  <2>3. QED
    BY <1>2, <2>2, PartialsClosed DEF PartialsOf
<1> DEFINE first == Inserted(EmptyStack, EmptyHypothesis, {})
<1>7. Hypos(EmptyStack) = {}
  BY DEF EmptyStack, Hypos, None
<1>8. Lenient(first, 0) /\ Hypos(first) = {EmptyHypothesis}
  <2>1. Lenient(EmptyStack, 0)
    BY <1>4, <1>5
  <2>2. Lenient(first, 0) /\ Hypos(first) = Hypos(EmptyStack) \cup {EmptyHypothesis}
    BY <1>2, <1>3, <1>4, <1>6, <2>1, InsertedLenient
  <2>3. QED
    BY <1>7, <2>2
<1> HIDE DEF first
<1>9. ASSUME NEW k \in 0 .. source.size
      PROVE  /\ Hypos(m_hypoStackColl[k]) \subseteq PartialsOf(k) /\ Lenient(m_hypoStackColl[k], k)
             /\ \A g, i : ~Due(g, i, k, iterStack, iterHypo, todo)
  <2>1. m_hypoStackColl[k] = IF k = 0 THEN first ELSE EmptyStack
    BY <1>1 DEF first
  <2>2. \A g, i : ~Due(g, i, k, iterStack, iterHypo, todo)
    BY <1>1 DEF Due
  <2>3. QED
    BY <1>5, <1>6, <1>7, <1>8, <2>1, <2>2
<1>10. QED
  BY <1>9 DEF AllKept

(* A hypothesis is taken up, or the stack is done. *)
LEMMA VisitKeeps ==
  ASSUME InputsKept, iterStack \in 0 .. source.size, NEW coll, NEW hypo,
         AllKept(coll, iterStack, hypo, {}),
         NEW hypos, hypos \subseteq Hypos(coll[iterStack]),
         Passed(hypos, Hypos(coll[iterStack]), hypo),
         Visit(hypos), m_hypoStackColl' = coll
  PROVE  AllKept(m_hypoStackColl', iterStack', iterHypo', todo')
<1>1. CASE hypos = {}
  <2>1. iterHypo' = NoHypothesis /\ todo' = {} /\ iterStack' = iterStack + 1
    BY <1>1 DEF Visit
  <2>2. AllKept(coll, iterStack + 1, NoHypothesis, {})
    BY <1>1, NoneToCome
  <2>3. QED
    BY <2>1, <2>2
<1>2. CASE hypos # {}
  <2>1. PICK h \in hypos : /\ \A g \in hypos \ {h} : RecombineLess(h, g)
                           /\ iterHypo' = h /\ todo' = Extensions(h) /\ iterStack' = iterStack
    BY <1>2 DEF Visit
  <2>2. AllKept(coll, iterStack, h, Extensions(h))
    BY <2>1, FirstTakenUp
  <2>3. QED
    BY <2>1, <2>2
<1>3. QED
  BY <1>1, <1>2

LEMMA StartStackKeeps == ASSUME IInv, LinksSound, BestKept, StartStack PROVE BestKept'
<1>1. PICK s \in PruneToSize(m_hypoStackColl[iterStack], param.maxHypoStackSize) :
        \E t \in CleanupArcList(s) :
          /\ m_hypoStackColl' = [m_hypoStackColl EXCEPT ![iterStack] = t]
          /\ Visit(Hypos(t))
  BY Zenon DEF StartStack
<1>2. PICK t \in CleanupArcList(s) :
        /\ m_hypoStackColl' = [m_hypoStackColl EXCEPT ![iterStack] = t]
        /\ Visit(Hypos(t))
  BY <1>1
<1>3. UNCHANGED inputVars /\ iterHypo = NoHypothesis
  BY DEF StartStack
<1>4. InputsKept /\ iterStack \in 0 .. source.size /\ iterStack \in Nat
  BY InputsTyped DEF StartStack, Over, IInv, HypothesisSound
<1>5. SUFFICES ASSUME ~EarlyDiscarding, WithinLimits
               PROVE  AllKept(m_hypoStackColl', iterStack', iterHypo', todo')
  BY <1>3, KeptNext
<1> DEFINE k == iterStack
           old == m_hypoStackColl[k]
<1>6. /\ m_hypoStackColl = [j \in 0 .. source.size |-> m_hypoStackColl[j]]
      /\ DOMAIN old = Fields /\ todo = {}
  BY <1>3, <1>4 DEF LinksSound, GraphGood
<1>7. AllKept(m_hypoStackColl, k, NoHypothesis, {})
  BY <1>3, <1>5, <1>6 DEF BestKept
<1>8. Hypos(old) \subseteq PartialsOf(k) /\ Lenient(old, k)
  BY <1>4, <1>7 DEF AllKept
<1> HIDE DEF old
<1>9. s = old
  <2>1. PruneToSize(old, param.maxHypoStackSize) = {old}
    BY <1>4, <1>5, <1>8, NothingCut
  <2>2. QED
    BY <1>1, <2>1 DEF old
<1>10. Hypos(t) = Hypos(old)
  BY <1>2, <1>6, <1>9, CleanupKeeps DEF old
<1>11. t.m_bestScore = old.m_bestScore /\ t.m_worstScore = old.m_worstScore
  <2>1. PICK f : t = [old EXCEPT !.m_hypos = f]
    BY <1>2, <1>9, Zenon DEF CleanupArcList
  <2>2. QED
    BY <1>6, <2>1 DEF Fields
<1>12. AllKept([m_hypoStackColl EXCEPT ![k] = t], k, NoHypothesis, {})
  <2>1. Lenient(t, k)
    BY <1>8, <1>11 DEF Lenient
  <2>2. \A d \in Hypotheses : Represented(old, d) => Represented(t, d)
    BY <1>10 DEF Represented
  <2>3. /\ k \in Nat /\ k \in 0 .. source.size /\ k <= k /\ Hypos(t) \subseteq PartialsOf(k)
        /\ \A d \in Hypotheses : Represented(m_hypoStackColl[k], d) => Represented(t, d)
    BY <1>4, <1>8, <1>10, <2>2 DEF old
  <2> HIDE DEF k
  <2>4. QED
    BY <1>4, <1>6, <1>7, <2>1, <2>3, StillKept
<1>13. AllKept(m_hypoStackColl', iterStack, NoHypothesis, {})
  BY <1>2, <1>12
<1>14. m_hypoStackColl'[iterStack] = t
  BY <1>2, <1>4, <1>6
<1>15. Passed(Hypos(t), Hypos(m_hypoStackColl'[iterStack]), NoHypothesis)
  BY <1>14 DEF Passed
<1>16. QED
  BY <1>2, <1>4, <1>13, <1>14, <1>15, VisitKeeps

LEMMA NextHypothesisKeeps ==
  ASSUME IInv, LinksSound, BestKept, NextHypothesis PROVE BestKept'
<1>1. PICK hypos : /\ hypos = { h \in Hypos(m_hypoStackColl[iterStack]) : RecombineLess(iterHypo, h) }
                   /\ Visit(hypos)
  BY Zenon DEF NextHypothesis
<1>2. /\ UNCHANGED << inputVars, m_hypoStackColl >>
      /\ iterHypo # NoHypothesis /\ todo = {}
  BY DEF NextHypothesis
<1>3. InputsKept /\ iterStack \in 0 .. source.size
  BY InputsTyped DEF NextHypothesis, Over, IInv, HypothesisSound
<1>4. SUFFICES ASSUME ~EarlyDiscarding, WithinLimits
               PROVE  AllKept(m_hypoStackColl', iterStack', iterHypo', todo')
  BY <1>2, KeptNext
<1>5. AllKept(m_hypoStackColl, iterStack, iterHypo, {})
  BY <1>2, <1>4 DEF BestKept
<1> DEFINE s == m_hypoStackColl[iterStack]
<1>6. StackGood(s, iterStack) /\ iterHypo \in Hypos(s)
  BY <1>2, <1>3 DEF LinksSound, GraphGood
<1> HIDE DEF s
<1>7. Passed(hypos, Hypos(s), iterHypo)
  <2>1. ASSUME NEW g \in Hypos(s) \ hypos PROVE g = iterHypo \/ RecombineLess(g, iterHypo)
    <3>1. ~RecombineLess(iterHypo, g)
      BY <1>1 DEF s
    <3>2. /\ g \in Hypotheses /\ iterHypo \in Hypotheses /\ Covered(g) = Covered(iterHypo)
          /\ Recombine(g, iterHypo) => g = iterHypo
      BY <1>6 DEF StackGood, Members
    <3>3. QED
      BY <1>3, <3>1, <3>2, LessTotal
  <2>2. QED
    BY <1>2, <2>1 DEF Passed
<1>8. hypos \subseteq Hypos(s) /\ m_hypoStackColl' = m_hypoStackColl
  BY <1>1, <1>2 DEF s
<1>9. QED
  BY <1>1, <1>3, <1>5, <1>7, <1>8, VisitKeeps DEF s

LEMMA ExpandKeeps == ASSUME IInv, LinksSound, BestKept, ExpandHypothesis PROVE BestKept'
<1> DEFINE i == Min(todo)
           h == Append(iterHypo, i)
<1>1. /\ iterHypo # NoHypothesis /\ todo' = todo \ {i}
      /\ UNCHANGED << inputVars, iterStack, iterHypo >>
      /\ ~EarlyDiscarding =>
           \E s \in AddPrune(m_hypoStackColl[Covered(h)], h) :
             m_hypoStackColl' = [m_hypoStackColl EXCEPT ![Covered(h)] = s]
  <2>1. iterHypo # NoHypothesis
    BY DEF LinksSound, GraphGood, ExpandHypothesis
  <2>2. ~EarlyDiscarding => ~NotBuilt(iterHypo, i)
    BY DEF NotBuilt
  <2>3. QED
    BY <2>1, <2>2, Zenon DEF ExpandHypothesis, Covered
<1>2. InputsKept /\ todo \subseteq Extensions(iterHypo) /\ todo # {} /\ iterStack \in Nat
  BY DEF IInv, HypothesisSound, ExpandHypothesis
<1>3. i \in todo /\ i \in Extensions(iterHypo)
  <2>1. todo \subseteq Nat
    BY <1>2, InputsTyped DEF Extensions
  <2>2. QED
    BY <1>2, <2>1, MinIn
<1> HIDE DEF i
<1>4. UNCHANGED inputVars
  BY <1>1
<1>5. SUFFICES ASSUME ~EarlyDiscarding, WithinLimits
               PROVE  AllKept(m_hypoStackColl', iterStack', iterHypo', todo')
  BY <1>4, KeptNext
<1> DEFINE n == Covered(h)
           old == m_hypoStackColl[n]
<1>6. PICK t \in AddPrune(old, h) : m_hypoStackColl' = [m_hypoStackColl EXCEPT ![n] = t]
  BY <1>1, <1>5
<1>7. /\ h \in Hypotheses /\ h # << >> /\ iterStack < n /\ n \in 0 .. source.size
      /\ Covered(iterHypo) = iterStack /\ iterStack \in 0 .. source.size
  <2>1. GraphGood(m_hypoStackColl, iterStack, iterHypo, todo)
    BY DEF LinksSound
  <2>2. iterStack \in 0 .. source.size
    BY <1>1, <2>1 DEF GraphGood
  <2>3. QED
    BY <1>1, <1>2, <1>3, <2>1, <2>2, ExtensionIsNew
<1>8. AllKept(m_hypoStackColl, iterStack, iterHypo, todo)
  BY <1>5 DEF BestKept
<1>9. h \in PartialsOf(n)
  <2>1. iterHypo \in Partials
    BY <1>1, <1>7, <1>8 DEF AllKept, PartialsOf, LinksSound, GraphGood
  <2>2. QED
    BY <1>2, <1>3, <2>1, PartialsClosed DEF PartialsOf
<1>10. /\ DOMAIN old = Fields /\ Lenient(old, n) /\ Hypos(old) \subseteq PartialsOf(n)
       /\ m_hypoStackColl = [j \in 0 .. source.size |-> m_hypoStackColl[j]]
  BY <1>7, <1>8 DEF AllKept, LinksSound, GraphGood
<1> HIDE DEF old, n, h
<1>11. /\ Lenient(t, n) /\ Hypos(t) \subseteq PartialsOf(n) /\ Represented(t, h)
       /\ \A d \in Hypotheses : Represented(old, d) => Represented(t, d)
  BY <1>2, <1>5, <1>6, <1>7, <1>9, <1>10, AddPruneKeeps
<1>12. AllKept(m_hypoStackColl', iterStack, iterHypo, todo)
  <2>1. iterStack <= n /\ n # iterStack
    BY <1>2, <1>7
  <2>2. AllKept([m_hypoStackColl EXCEPT ![n] = t], iterStack, iterHypo, todo)
    BY <1>2, <1>7, <1>8, <1>10, <1>11, <2>1, StillKept DEF old
  <2>3. QED
    BY <1>6, <2>2
<1>13. Kept(m_hypoStackColl', h)
  <2>1. m_hypoStackColl'[n] = t
    BY <1>6, <1>7, <1>10
  <2>2. QED
    BY <1>11, <2>1 DEF Kept, n
<1>14. AllKept(m_hypoStackColl', iterStack, iterHypo, todo \ {i})
  BY <1>2, <1>12, <1>13, OneLess DEF h
<1>15. QED
  BY <1>1, <1>14

LEMMA KeptStays ==
  ASSUME BestKept, UNCHANGED << inputVars, m_hypoStackColl, iterStack, iterHypo, todo >>
  PROVE  BestKept'
<1>1. UNCHANGED inputVars
  OBVIOUS
<1>2. ~EarlyDiscarding /\ WithinLimits =>
        AllKept(m_hypoStackColl', iterStack', iterHypo', todo')
  BY DEF BestKept
<1>3. QED
  BY <1>1, <1>2, KeptNext

(* When all stacks are done, every way to translate is represented: what   *)
(* it was made from is, and the best that is interchangeable with that was *)
(* extended in the same way. *)
LEMMA AllRepresented ==
  ASSUME InputsKept, ~EarlyDiscarding, NEW coll, NEW stack \in Nat, NEW hypo, NEW rest,
         AllKept(coll, stack, hypo, rest), stack > source.size,
         EmptyHypothesis \in Hypos(coll[0])
  PROVE  \A d \in Partials : Kept(coll, d)
<1> DEFINE S == { d \in Partials : Kept(coll, d) }
<1>1. source.size \in Nat /\ Partials \subseteq Hypotheses /\ EmptyHypothesis \in Partials
  BY InputsTyped, PartialsClosed
<1>2. EmptyHypothesis \in S
  <2>1. Covered(EmptyHypothesis) = 0 /\ GetTotalScore(EmptyHypothesis) \in Int
    BY <1>1, CoveredTyped, ScoresTyped DEF EmptyHypothesis
  <2>2. Recombine(EmptyHypothesis, EmptyHypothesis)
    BY DEF Recombine
  <2>3. GetTotalScore(EmptyHypothesis) <= GetTotalScore(EmptyHypothesis)
    BY <2>1
  <2>4. QED
    BY <1>1, <2>1, <2>2, <2>3 DEF Kept, Represented
<1>3. ASSUME NEW h \in S \cap Partials, NEW i \in Extensions(h) PROVE Append(h, i) \in S
  <2>1. h \in Hypotheses /\ Covered(h) \in 0 .. source.size
    BY <1>1, CoveredTyped
  <2>2. PICK g \in Hypos(coll[Covered(h)]) :
          Recombine(g, h) /\ GetTotalScore(h) <= GetTotalScore(g)
    BY DEF Kept, Represented
  <2>3. g \in Hypotheses
    BY <1>1, <2>1 DEF AllKept, PartialsOf
  <2>4. i \in DOMAIN source.options /\ i \in Extensions(g)
    <3>1. Extensions(g) = Extensions(h)
      BY <2>1, <2>2, <2>3, SameFuture
    <3>2. QED
      BY <3>1 DEF Extensions
  <2> DEFINE x == Append(g, i)
             y == Append(h, i)
  <2>5. x \in Hypotheses /\ y \in Hypotheses /\ y \in Partials
    BY <2>1, <2>3, <2>4, ExtensionOf, PartialsClosed
  <2>6. /\ Recombine(x, y) /\ Gain(x) = Gain(y)
        /\ GetWordsBitmap(x) = GetWordsBitmap(y) /\ GetWordsBitmap(g) = GetWordsBitmap(h)
    <3>1. Recombine(x, y) /\ Gain(x) = Gain(y)
      BY <2>1, <2>2, <2>3, <2>4, SameFuture
    <3>2. QED
      BY <2>1, <2>2, <2>3, <2>5, <3>1, RecombineSays
  <2>7. GetTotalScore(y) <= GetTotalScore(x)
    <3>1. Score(h) <= Score(g)
      BY <2>1, <2>2, <2>3, <2>6, TotalsCompare
    <3>2. /\ Score(x) = Score(g) + Gain(x) /\ Gain(x) \in Int
          /\ Score(y) = Score(h) + Gain(y)
      BY <2>1, <2>3, <2>4, ScoreOfExtension
    <3>3. Score(g) \in Int /\ Score(h) \in Int
      BY <2>1, <2>3, ScoresTyped
    <3>4. Score(y) <= Score(x)
      <4> HIDE DEF x, y
      <4>1. QED
        BY <2>6, <3>1, <3>2, <3>3
    <3>5. QED
      BY <2>5, <2>6, <3>4, TotalsCompare
  <2>8. Kept(coll, x)
    <3>1. Due(g, i, Covered(h), stack, hypo, rest)
      BY <1>1, <2>1 DEF Due
    <3>2. QED
      BY <2>1, <2>4, <3>1 DEF AllKept
  <2> HIDE DEF x, y
  <2>9. PICK z \in Hypos(coll[Covered(x)]) :
          Recombine(z, x) /\ GetTotalScore(x) <= GetTotalScore(z)
    BY <2>8 DEF Kept, Represented
  <2>10. Covered(x) = Covered(y)
    BY <2>6 DEF Covered
  <2>11. Recombine(z, y)
    BY <2>6, <2>9 DEF Recombine
  <2>12. GetTotalScore(y) <= GetTotalScore(z)
    <3>1. Covered(x) \in 0 .. source.size
      BY <2>5, CoveredTyped
    <3>2. z \in Hypotheses
      BY <1>1, <3>1 DEF AllKept, PartialsOf
    <3>3. GetTotalScore(x) \in Int /\ GetTotalScore(y) \in Int /\ GetTotalScore(z) \in Int
      BY <2>5, <3>2, ScoresTyped
    <3>4. QED
      BY <2>7, <2>9, <3>3
  <2>13. Kept(coll, y)
    BY <2>10, <2>11, <2>12 DEF Kept, Represented
  <2>14. QED
    BY <2>5, <2>13 DEF y
<1>4. Partials \subseteq S
  <2> HIDE DEF S
  <2>1. QED
    BY <1>2, <1>3, PartialsInduction
<1>5. QED
  BY <1>4

(* Those that cover all words are the complete ones. *)
LEMMA CompleteCovers ==
  ASSUME InputsKept, NEW h \in Hypotheses
  PROVE  IsComplete(h) <=> Covered(h) = source.size
<1> DEFINE P == 0 .. source.size - 1
<1>1. source.size \in Nat
  BY InputsTyped
<1>2. IsFiniteSet(P) /\ Cardinality(P) = source.size
  <2>1. 0 \in Int /\ source.size - 1 \in Int
    BY <1>1
  <2>2. /\ IsFiniteSet(P)
        /\ Cardinality(P) = IF 0 > source.size - 1 THEN 0 ELSE source.size - 1 - 0 + 1
    BY <2>1, FS_Interval
  <2>3. QED
    BY <1>1, <2>2
<1>3. GetWordsBitmap(h) \subseteq P
  BY CoveredTyped
<1> HIDE DEF P
<1>4. Cardinality(GetWordsBitmap(h)) = Cardinality(P) => GetWordsBitmap(h) = P
  BY <1>2, <1>3, FS_Subset
<1>5. QED
  BY <1>2, <1>4 DEF IsComplete, Positions, Covered, P

-------------------------------------------------------------------------
(* The search finds the best translation there is whenever no limit is     *)
(* reached: to keep one of those that can be recombined loses nothing,     *)
(* whatever the order in which they come, since what is compared is all    *)
(* that what follows depends on. *)
THEOREM BestAlwaysFound == Spec => []FindsBest
<1>1. IInv /\ LinksSound /\ BestKept => FindsBest
  <2> SUFFICES ASSUME IInv, LinksSound, BestKept, Over, Unpruned
               PROVE  LET best == Max({ Score(d) : d \in Derivations })
                          found == GetBestHypothesis(m_hypoStackColl[source.size])
                      IN  found # {} /\ \A h \in found : Score(h) = best
    BY Zenon DEF FindsBest
  <2> DEFINE n == source.size
             last == m_hypoStackColl[n]
             found == GetBestHypothesis(last)
             best == Max({ Score(d) : d \in Derivations })
  <2>1. InputsKept /\ iterStack \in Nat /\ n \in Nat /\ n \in 0 .. n /\ 0 \in 0 .. n
    <3>1. InputsKept /\ iterStack \in Nat
      BY DEF IInv, HypothesisSound
    <3>2. n \in Nat
      BY <3>1, InputsTyped
    <3>3. QED
      BY <3>1, <3>2
  <2>2. iterStack > n /\ ~EarlyDiscarding /\ WithinLimits
    BY DEF Over, Unpruned
  <2>3. AllKept(m_hypoStackColl, iterStack, iterHypo, todo)
    BY <2>2 DEF BestKept
  <2>4. EmptyHypothesis \in Hypos(m_hypoStackColl[0])
    BY DEF LinksSound, GraphGood, Hypos
  <2>5. \A d \in Partials : Kept(m_hypoStackColl, d)
    BY <2>1, <2>2, <2>3, <2>4, AllRepresented
  <2>6. Hypos(last) \subseteq PartialsOf(n) /\ IsFiniteSet(PartialsOf(n))
    BY <2>1, <2>2, <2>3, LimitsSay DEF AllKept
  <2>7. Partials \subseteq Hypotheses /\ \A h \in Hypotheses : IsComplete(h) <=> Covered(h) = n
    BY <2>1, PartialsClosed, CompleteCovers
  <2>8. Derivations = PartialsOf(n)
    BY <2>7 DEF Derivations, PartialsOf
  <2>9. \A d \in Derivations : Represented(last, d)
    BY <2>5, <2>8 DEF Kept, PartialsOf
  <2>10. ASSUME NEW g \in Derivations, NEW h \in Derivations
         PROVE  GetTotalScore(g) <= GetTotalScore(h) <=> Score(g) <= Score(h)
    <3>1. g \in Hypotheses /\ h \in Hypotheses /\ GetWordsBitmap(g) = GetWordsBitmap(h)
      BY <2>7 DEF Derivations, IsComplete
    <3>2. QED
      BY <2>1, <2>2, <3>1, TotalsCompare
  <2>11. \A d \in Derivations : Score(d) \in Int /\ GetTotalScore(d) \in Int
    BY <2>1, <2>7, ScoresTyped DEF Derivations
  <2>12. Derivations # {}
    BY <2>1, SomeTranslation DEF Derivations
  <2>13. PICK m \in Derivations : best = Score(m) /\ \A d \in Derivations : Score(d) <= best
    <3> DEFINE f == [d \in Derivations |-> Score(d)]
    <3>1. f \in [Derivations -> Int] /\ { f[d] : d \in Derivations } = { Score(d) : d \in Derivations }
          /\ \A d \in Derivations : f[d] = Score(d)
      BY <2>11
    <3> HIDE DEF f
    <3>2. /\ \E m \in Derivations : Max({ f[d] : d \in Derivations }) = f[m]
          /\ \A d \in Derivations : f[d] <= Max({ f[x] : x \in Derivations })
      BY <2>6, <2>8, <2>12, <3>1, MaxOfValues
    <3>3. Max({ f[d] : d \in Derivations }) = best
      BY <3>1
    <3>4. QED
      BY <3>1, <3>2, <3>3
  <2> HIDE DEF best, last, n
  <2>14. Hypos(last) \subseteq Derivations /\ IsFiniteSet(Hypos(last)) /\ Hypos(last) # {}
    BY <2>6, <2>8, <2>9, <2>12, FS_Subset DEF Represented
  <2>15. found # {}
    <3> DEFINE f == [h \in Hypos(last) |-> GetTotalScore(h)]
    <3>1. f \in [Hypos(last) -> Int] /\ \A h \in Hypos(last) : f[h] = GetTotalScore(h)
      BY <2>11, <2>14
    <3> HIDE DEF f
    <3>2. PICK h \in Hypos(last) : \A g \in Hypos(last) : f[g] <= f[h]
      BY <2>14, <3>1, GreatestValue
    <3>3. QED
      BY <3>1, <3>2 DEF GetBestHypothesis
  <2>16. ASSUME NEW h \in found PROVE Score(h) = best
    <3>1. h \in Hypos(last) /\ \A g \in Hypos(last) : GetTotalScore(g) <= GetTotalScore(h)
      BY DEF GetBestHypothesis
    <3>2. PICK x \in Hypos(last) : GetTotalScore(m) <= GetTotalScore(x)
      BY <2>9 DEF Represented
    <3>3. h \in Derivations /\ x \in Derivations
      BY <2>14, <3>1
    <3>4. GetTotalScore(m) <= GetTotalScore(h)
      <4>1. GetTotalScore(x) <= GetTotalScore(h)
        BY <3>1
      <4>2. GetTotalScore(m) \in Int /\ GetTotalScore(x) \in Int /\ GetTotalScore(h) \in Int
        BY <2>11, <3>3
      <4>3. QED
        BY <3>2, <4>1, <4>2
    <3>5. Score(m) <= Score(h) /\ Score(h) <= best
      BY <2>10, <2>13, <3>3, <3>4
    <3>6. Score(m) \in Int /\ Score(h) \in Int
      BY <2>11, <3>3
    <3>7. QED
      BY <2>13, <3>5, <3>6
  <2>17. QED
    BY <2>15, <2>16 DEF best, last, n
<1>2. Init => BestKept
  BY InitKept
<1>3. IInv /\ LinksSound /\ BestKept /\ [Next]_vars => BestKept'
  <2> SUFFICES ASSUME IInv, LinksSound, BestKept, [Next]_vars PROVE BestKept'
    OBVIOUS
  <2>1. CASE StartStack
    BY <2>1, StartStackKeeps
  <2>2. CASE TimeOut
    BY <2>2, KeptStays DEF TimeOut
  <2>3. CASE NextHypothesis
    BY <2>3, NextHypothesisKeeps
  <2>4. CASE ExpandHypothesis
    BY <2>4, ExpandKeeps
  <2>5. CASE ListNext
    <3>1. UNCHANGED << inputVars, m_hypoStackColl, iterStack, iterHypo, todo >>
      BY <2>5 DEF ListNext, StartList, NextBest, EndList, searchVars
    <3>2. QED
      BY <3>1, KeptStays
  <2>6. CASE UNCHANGED vars
    <3>1. UNCHANGED << inputVars, m_hypoStackColl, iterStack, iterHypo, todo >>
      BY <2>6 DEF vars, searchVars
    <3>2. QED
      BY <3>1, KeptStays
  <2>7. QED
    BY <2>1, <2>2, <2>3, <2>4, <2>5, <2>6 DEF Next, SearchNext, Ended
<1>4. QED
  BY <1>1, <1>2, <1>3, LinksInvariance, PTL DEF Spec
=========================================================================
