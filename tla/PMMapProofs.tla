---------------------------- MODULE PMMapProofs ----------------------------
(***************************************************************************)
(* For a map of any size and elements of any width: accesses stay inside   *)
(* the map, a shift register has one bit set, no element ever decreases,   *)
(* reads and writes keep to their halves with ENABLE_PM_PATH, and the map  *)
(* implements saturating counters of hits.                                 *)
(***************************************************************************)
EXTENDS PMMap, TLAPS

-----------------------------------------------------------------------------
(* Shift registers.                                                        *)

(* The register of a count has its last set bit at count - 1.              *)
LEMMA LastSetOfRegister ==
  ASSUME NEW c \in 0..RegBits
  PROVE  Reg!LastSet(Reg!Register(c)) = c - 1
<1> DEFINE P(it) == /\ it # -1 => Reg!Register(c)[it]
                    /\ \A b \in Reg!Positions : b > it => ~Reg!Register(c)[b]
<1>a. \A b \in Reg!Positions : Reg!Register(c)[b] <=> b = c - 1
  BY DEF Reg!Register
<1>b. Reg!Positions = 0..(RegBits - 1) /\ RegBits \in Nat \ {0}
  BY MapAssumption DEF Reg!Positions
<1>1. c - 1 \in -1..(RegBits - 1) /\ P(c - 1)
  <2>1. c - 1 # -1 => c - 1 \in Reg!Positions
    BY <1>b
  <2>2. c - 1 # -1 => Reg!Register(c)[c - 1]
    BY <1>a, <2>1
  <2>3. ASSUME NEW b \in Reg!Positions, b > c - 1
        PROVE  ~Reg!Register(c)[b]
    <3>1. b # c - 1
      BY <1>b, <2>3
    <3> QED BY <1>a, <3>1
  <2>4. c - 1 \in -1..(RegBits - 1)
    BY <1>b
  <2> QED BY <2>2, <2>3, <2>4
<1>2. ASSUME NEW it \in -1..(RegBits - 1), P(it) PROVE it = c - 1
  <2>1. CASE it # -1
    <3>1. it \in Reg!Positions
      BY <1>b, <2>1
    <3> QED BY <1>a, <1>2, <2>1, <3>1
  <2>2. CASE it = -1 /\ c # 0
    <3>1. c - 1 \in Reg!Positions /\ c - 1 > it
      BY <1>b, <2>2
    <3> QED BY <1>a, <1>2, <3>1
  <2> QED BY <2>1, <2>2
<1>3. Reg!LastSet(Reg!Register(c)) = CHOOSE it \in -1..(RegBits - 1) : P(it)
  BY DEF Reg!LastSet
<1> HIDE DEF P
<1> QED BY <1>1, <1>2, <1>3

(* sra_push_back counts one more, and stops at the width of the register.  *)
LEMMA PushCounts ==
  ASSUME NEW c \in 0..RegBits
  PROVE  Reg!PushBack(Reg!Register(c))
           = Reg!Register(IF c < RegBits THEN c + 1 ELSE c)
<1>1. Reg!LastSet(Reg!Register(c)) = c - 1
  BY LastSetOfRegister
<1>2. CASE c = RegBits
  BY <1>1, <1>2, MapAssumption DEF Reg!PushBack
<1>3. CASE c < RegBits
  <2>1. Reg!PushBack(Reg!Register(c))
          = [b \in Reg!Positions |-> IF b = c THEN TRUE
               ELSE IF b = c - 1 THEN FALSE ELSE Reg!Register(c)[b]]
    BY <1>1, <1>3, MapAssumption DEF Reg!PushBack
  <2>2. \A b \in Reg!Positions :
          (IF b = c THEN TRUE
           ELSE IF b = c - 1 THEN FALSE ELSE Reg!Register(c)[b]) = (b = c)
    BY DEF Reg!Register
  <2>3. Reg!Register(c + 1) = [b \in Reg!Positions |-> b = c]
    BY MapAssumption DEF Reg!Register, Reg!Positions
  <2> QED BY <1>3, <2>1, <2>2, <2>3
<1> QED BY <1>2, <1>3, MapAssumption
-----------------------------------------------------------------------------
(* Elements: what one access makes of them.                                *)

Cap == IF mode = "path" THEN CounterCap ELSE RegBits

(* The elements that occur: bytes, or registers of a count.                *)
Good(elem) == IF mode = "path" THEN elem \in 0..CounterCap
              ELSE \E c \in 0..RegBits : elem = Reg!Register(c)

(* Bumping an element (a shift register or a byte) counts one hit more,    *)
(* until it is full.                                                       *)
LEMMA BumpGood ==
  ASSUME NEW elem, Good(elem)
  PROVE  /\ Good(Bump(elem))
         /\ Value(elem) \in Nat
         /\ Value(Bump(elem)) = IF Value(elem) < Cap THEN Value(elem) + 1
                                ELSE Value(elem)
<1>1. CASE mode = "path"
  BY <1>1, MapAssumption DEF Good, Bump, Value, Cap
<1>2. CASE mode # "path"
  <2>1. PICK c \in 0..RegBits : elem = Reg!Register(c)
    BY <1>2 DEF Good
  <2> DEFINE d == IF c < RegBits THEN c + 1 ELSE c
  <2>2. d \in 0..RegBits
    BY MapAssumption
  <2>3. Bump(elem) = Reg!Register(d)
    BY <1>2, <2>1, PushCounts DEF Bump
  <2>4. Value(elem) = c /\ Value(Bump(elem)) = d
    <3>1. Reg!LastSet(elem) = c - 1 /\ Reg!LastSet(Bump(elem)) = d - 1
      BY <2>1, <2>2, <2>3, LastSetOfRegister
    <3> QED BY <1>2, <2>2, <3>1 DEF Value, Reg!Count
  <2> QED BY <1>2, <2>2, <2>3, <2>4, MapAssumption DEF Good, Cap
<1> QED BY <1>1, <1>2
-----------------------------------------------------------------------------
(* Locations.                                                              *)

(* The number of bits of an index is positive.                             *)
LEMMA BitsNat == BitsOf(mode) \in Nat \ {0}
  BY MapAssumption DEF BitsOf

(* XOR with a location of the lower half stays inside the map and inside   *)
(* the half of the other location.                                         *)
LEMMA XorHalves ==
  ASSUME NEW loc \in LocsOf(mode), NEW pr \in Lower(mode)
  PROVE  /\ Xor(loc, pr) \in LocsOf(mode)
         /\ Xor(loc, pr) \in Upper(mode) <=> loc \in Upper(mode)
  BY DEF Xor, LocsOf, Lower, Upper

(* A location without its highest bit lies in the lower half.              *)
LEMMA HalfLower ==
  ASSUME NEW loc \in LocsOf(mode)
  PROVE  HalfOf(loc) \in Lower(mode)
<1>1. \A b \in loc \ {0} : /\ b - 1 \in 0..(BitsOf(mode) - 1)
                           /\ b - 1 # BitsOf(mode) - 1
  BY BitsNat DEF LocsOf
<1> QED BY <1>1 DEF HalfOf, LocsOf, Lower, Upper

(* In path mode reads have the lower half of the locations and writes the  *)
(* upper one.                                                              *)
LEMMA ReadsWrites ==
  /\ Reads \subseteq LocsOf(mode) /\ Writes \subseteq LocsOf(mode)
  /\ mode = "path" => Reads = Lower(mode) /\ Writes = Upper(mode)
  BY DEF Reads, Writes, Lower, Upper

(* One call of update_loc.                                                 *)
GoodMap(mp) ==
  /\ mp = [l \in LocsOf(mode) |-> mp[l]]
  /\ \A l \in LocsOf(mode) : Good(mp[l])

(* One call of update_loc bumps one element and no other.                  *)
LEMMA UpdateGood ==
  ASSUME NEW mp, GoodMap(mp), NEW pr \in Lower(mode),
         NEW loc \in LocsOf(mode)
  PROVE  /\ GoodMap(UpdatedMap(mp, pr, loc))
         /\ \A l \in LocsOf(mode) :
              UpdatedMap(mp, pr, loc)[l] =
                IF l = Xor(loc, pr) THEN Bump(mp[l]) ELSE mp[l]
<1>1. \A l \in LocsOf(mode) :
        UpdatedMap(mp, pr, loc)[l] =
          IF l = Xor(loc, pr) THEN Bump(mp[l]) ELSE mp[l]
  BY DEF UpdatedMap, GoodMap
<1>2. UpdatedMap(mp, pr, loc)
        = [l \in LocsOf(mode) |-> UpdatedMap(mp, pr, loc)[l]]
  BY DEF UpdatedMap, GoodMap
<1>3. \A l \in LocsOf(mode) : Good(UpdatedMap(mp, pr, loc)[l])
  BY <1>1, BumpGood DEF GoodMap
<1> QED BY <1>1, <1>2, <1>3 DEF GoodMap
-----------------------------------------------------------------------------
(* The inductive invariant, and what a step does to the map.               *)

IndInv ==
  /\ mode \in {"path", "base"}
  /\ GoodMap(map)
  /\ prev \in Lower(mode)

(* The steps are one or two calls of update_loc.                           *)
OneUpdate(loc) ==
  /\ map' = UpdatedMap(map, prev, loc)
  /\ prev' = HalfOf(loc)
  /\ mode' = mode

TwoUpdates(loc, up) ==
  /\ map' = UpdatedMap(UpdatedMap(map, prev, loc), HalfOf(loc), up)
  /\ prev' = HalfOf(up)
  /\ mode' = mode

(* Every entry point makes one update or two.                              *)
LEMMA StepCases ==
  ASSUME Next
  PROVE  \/ \E loc \in LocsOf(mode) : OneUpdate(loc)
         \/ \E loc, up \in LocsOf(mode) : TwoUpdates(loc, up)
  BY ReadsWrites
  DEF Next, pmfuzz_ro, pmfuzz_wo, pmfuzz_rw, OneUpdate, TwoUpdates

(* The map as pmfuzz_init leaves it.                                       *)
LEMMA InitInv == Init => IndInv
<1> SUFFICES ASSUME Init PROVE IndInv
  OBVIOUS
<1>1. Good(EmptyElem(mode))
  BY MapAssumption DEF Good, EmptyElem
<1>2. GoodMap(map)
  BY <1>1 DEF Init, GoodMap
<1>3. prev \in Lower(mode)
  BY DEF Init, Lower, Upper, LocsOf
<1> QED BY <1>2, <1>3 DEF Init, IndInv

(* Every access keeps the inductive invariant.                             *)
LEMMA IndStep == IndInv /\ [Next]_vars => IndInv'
<1> SUFFICES ASSUME IndInv, [Next]_vars PROVE IndInv'
  OBVIOUS
<1>1. ASSUME mode' = mode, GoodMap(map'), prev' \in Lower(mode)
      PROVE  IndInv'
  BY <1>1 DEF IndInv, GoodMap, Good, Lower, Upper, LocsOf, BitsOf
<1>2. ASSUME NEW loc \in LocsOf(mode), OneUpdate(loc) PROVE IndInv'
  BY <1>1, <1>2, UpdateGood, HalfLower DEF OneUpdate, IndInv
<1>3. ASSUME NEW loc \in LocsOf(mode), NEW up \in LocsOf(mode),
             TwoUpdates(loc, up)
      PROVE  IndInv'
  <2>1. GoodMap(UpdatedMap(map, prev, loc))
    BY UpdateGood DEF IndInv
  <2>2. GoodMap(map')
    BY <1>3, <2>1, UpdateGood, HalfLower DEF TwoUpdates
  <2> QED BY <1>1, <1>3, <2>2, HalfLower DEF TwoUpdates
<1>4. CASE UNCHANGED vars
  BY <1>1, <1>4 DEF vars, IndInv
<1> QED BY <1>2, <1>3, <1>4, StepCases

(* The inductive invariant behind the theorems on the map.                 *)
THEOREM Invariance == Spec => []IndInv
<1> QED BY InitInv, IndStep, PTL DEF Spec

(* Accesses stay inside the map, and elements keep their type.             *)
THEOREM TypeCorrect == Spec => []TypeOK
<1>1. IndInv => TypeOK
  <2> SUFFICES ASSUME IndInv PROVE TypeOK
    OBVIOUS
  <2>1. \A l \in LocsOf(mode) : map[l] \in ElemsOf(mode)
    BY DEF IndInv, GoodMap, Good, ElemsOf, Reg!Registers, Reg!Register
  <2> QED BY <2>1 DEF IndInv, GoodMap, TypeOK
<1> QED BY <1>1, Invariance, PTL

(* No shift register ever has two bits set.                                *)
THEOREM RegistersOneHot == Spec => []OneBitSet
<1>1. IndInv => OneBitSet
  BY DEF IndInv, GoodMap, Good, OneBitSet
<1> QED BY <1>1, Invariance, PTL
-----------------------------------------------------------------------------
(* What is read as the value of an element.                                *)

(* What one update does to the hit counts: one of them grows by one,       *)
(* unless it is full.                                                      *)
LEMMA ValueStep ==
  ASSUME NEW mp, GoodMap(mp), NEW pr \in Lower(mode),
         NEW loc \in LocsOf(mode), NEW l \in LocsOf(mode)
  PROVE  /\ Value(mp[l]) \in Nat
         /\ Value(UpdatedMap(mp, pr, loc)[l]) =
              IF l = Xor(loc, pr) /\ Value(mp[l]) < Cap
                THEN Value(mp[l]) + 1 ELSE Value(mp[l])
         /\ Value(mp[l]) <= Value(UpdatedMap(mp, pr, loc)[l])
<1>1. Good(mp[l])
  BY DEF GoodMap
<1>2. UpdatedMap(mp, pr, loc)[l] =
        IF l = Xor(loc, pr) THEN Bump(mp[l]) ELSE mp[l]
  BY UpdateGood
<1> QED BY <1>1, <1>2, BumpGood

(* No element of the map ever decreases.                                   *)
THEOREM MapNeverShrinks == Spec => MapGrows
<1>1. IndInv /\ [Next]_vars
        => [\A l \in LocsOf(mode) : Value(map[l]) <= Value(map[l])']_vars
  <2> SUFFICES ASSUME IndInv, Next, NEW l \in LocsOf(mode)
               PROVE  Value(map[l]) <= Value(map[l])'
    OBVIOUS
  <2>a. mode' = mode
    BY DEF Next, pmfuzz_ro, pmfuzz_wo, pmfuzz_rw
  <2>b. Value(map[l])' = Value(map'[l])
    BY <2>a DEF Value
  <2>1. ASSUME NEW loc \in LocsOf(mode), OneUpdate(loc)
        PROVE  Value(map[l]) <= Value(map'[l])
    BY <2>1, ValueStep DEF OneUpdate, IndInv
  <2>2. ASSUME NEW loc \in LocsOf(mode), NEW up \in LocsOf(mode),
               TwoUpdates(loc, up)
        PROVE  Value(map[l]) <= Value(map'[l])
    <3> DEFINE mid == UpdatedMap(map, prev, loc)
    <3>1. GoodMap(mid) /\ HalfOf(loc) \in Lower(mode)
      BY UpdateGood, HalfLower DEF IndInv
    <3>2. Value(map[l]) \in Nat /\ Value(map[l]) <= Value(mid[l])
      BY ValueStep DEF IndInv
    <3>3. map' = UpdatedMap(mid, HalfOf(loc), up)
      BY <2>2 DEF TwoUpdates
    <3> HIDE DEF mid
    <3>4. /\ Value(mid[l]) \in Nat
          /\ Value(map'[l]) = IF l = Xor(up, HalfOf(loc)) /\ Value(mid[l]) < Cap
                               THEN Value(mid[l]) + 1 ELSE Value(mid[l])
      BY <3>1, <3>3, ValueStep
    <3> QED BY <3>2, <3>4
  <2> QED BY <2>b, <2>1, <2>2, StepCases
<1> QED BY <1>1, Invariance, PTL DEF Spec, MapGrows

(* With ENABLE_PM_PATH a read changes the lower half of the map only, and  *)
(* a write the upper half only.                                            *)
THEOREM ReadsAndWritesApart == Spec => HalvesKept
<1> DEFINE Apart == mode = "path" =>
             /\ pmfuzz_ro => \A l \in Upper(mode) : map'[l] = map[l]
             /\ pmfuzz_wo => \A l \in Lower(mode) : map'[l] = map[l]
<1>1. IndInv /\ [Next]_vars => [Apart]_vars
  <2> SUFFICES ASSUME IndInv, mode = "path" PROVE Apart
    OBVIOUS
  <2>1. ASSUME NEW loc \in Reads, map' = UpdatedMap(map, prev, loc),
               NEW l \in Upper(mode)
        PROVE  map'[l] = map[l]
    <3>1. Xor(loc, prev) # l /\ loc \in LocsOf(mode) /\ l \in LocsOf(mode)
      BY ReadsWrites, XorHalves DEF Lower, Upper, IndInv
    <3> QED BY <2>1, <3>1, UpdateGood DEF IndInv
  <2>2. ASSUME NEW loc \in Writes, map' = UpdatedMap(map, prev, loc),
               NEW l \in Lower(mode)
        PROVE  map'[l] = map[l]
    <3>1. Xor(loc, prev) # l /\ loc \in LocsOf(mode) /\ l \in LocsOf(mode)
      BY ReadsWrites, XorHalves DEF Lower, Upper, IndInv
    <3> QED BY <2>2, <3>1, UpdateGood DEF IndInv
  <2> QED BY <2>1, <2>2 DEF pmfuzz_ro, pmfuzz_wo
<1> QED BY <1>1, Invariance, PTL DEF Spec, HalvesKept
-----------------------------------------------------------------------------
(* The map implements counters of hits.                                    *)

Counts(mp) == [l \in LocsOf(mode) |-> Value(mp[l])]

(* One update is one hit of the abstract counters.                         *)
LEMMA UpdateHits ==
  ASSUME NEW mp, GoodMap(mp), NEW pr \in Lower(mode),
         NEW loc \in LocsOf(mode)
  PROVE  Counts(UpdatedMap(mp, pr, loc)) = Hits!Hit(Counts(mp), Xor(loc, pr))
<1>1. ASSUME NEW l \in LocsOf(mode)
      PROVE  Counts(UpdatedMap(mp, pr, loc))[l]
               = IF l = Xor(loc, pr) /\ Counts(mp)[l] < Cap
                   THEN Counts(mp)[l] + 1 ELSE Counts(mp)[l]
  BY ValueStep DEF Counts
<1>2. Hits!Hit(Counts(mp), Xor(loc, pr))
        = [Counts(mp) EXCEPT ![Xor(loc, pr)] =
             IF Counts(mp)[Xor(loc, pr)] < Cap
               THEN Counts(mp)[Xor(loc, pr)] + 1
               ELSE Counts(mp)[Xor(loc, pr)]]
  BY DEF Hits!Hit, Cap
<1>3. DOMAIN Counts(mp) = LocsOf(mode)
  BY DEF Counts
<1>4. Counts(mp) = [l \in LocsOf(mode) |-> Counts(mp)[l]]
  BY DEF Counts
<1>5. Counts(UpdatedMap(mp, pr, loc))
        = [l \in LocsOf(mode) |-> Counts(UpdatedMap(mp, pr, loc))[l]]
  BY DEF Counts
<1> QED BY <1>1, <1>2, <1>3, <1>4, <1>5

(* The map of any size, in either mode, is a family of saturating counters *)
(* to which every access adds one.                                         *)
THEOREM MapCountsHits == Spec => HitsSpec
<1>1. Init => Hits!Init
  <2> SUFFICES ASSUME Init PROVE Hits!Init
    OBVIOUS
  <2>1. \A l \in LocsOf(mode) : Value(map[l]) = 0
    <3>1. 0 \in 0..RegBits
      BY MapAssumption
    <3>2. Reg!LastSet(Reg!Register(0)) = 0 - 1
      BY <3>1, LastSetOfRegister
    <3> QED BY <3>2 DEF Init, Value, EmptyElem, Reg!Count
  <2> QED BY <2>1, MapAssumption DEF Hits!Init
<1>2. IndInv /\ [Next]_vars => [Hits!Next]_(Hits!vars)
  <2> SUFFICES ASSUME IndInv, [Next]_vars
               PROVE  Hits!Next \/ UNCHANGED Hits!vars
    OBVIOUS
  <2>a. ASSUME mode' = mode
        PROVE  /\ [l \in LocsOf(mode) |-> Value(map[l])]' = Counts(map')
               /\ (IF mode = "path" THEN CounterCap ELSE RegBits)'
                    = (IF mode = "path" THEN CounterCap ELSE RegBits)
    BY <2>a DEF Counts, Value, LocsOf, BitsOf
  <2>b. DOMAIN Counts(map) = LocsOf(mode)
    BY DEF Counts
  <2>1. ASSUME NEW loc \in LocsOf(mode), OneUpdate(loc) PROVE Hits!Next
    <3>1. Counts(map') = Hits!Hit(Counts(map), Xor(loc, prev))
      BY <2>1, UpdateHits DEF OneUpdate, IndInv
    <3>2. Xor(loc, prev) \in LocsOf(mode)
      BY XorHalves DEF IndInv
    <3> QED BY <2>a, <2>b, <2>1, <3>1, <3>2
            DEF OneUpdate, Counts, Hits!Next, Hits!Access
  <2>2. ASSUME NEW loc \in LocsOf(mode), NEW up \in LocsOf(mode),
               TwoUpdates(loc, up)
        PROVE  Hits!Next
    <3> DEFINE mid == UpdatedMap(map, prev, loc)
    <3>1. GoodMap(mid) /\ HalfOf(loc) \in Lower(mode)
      BY UpdateGood, HalfLower DEF IndInv
    <3>2. Counts(mid) = Hits!Hit(Counts(map), Xor(loc, prev))
      BY UpdateHits DEF IndInv
    <3>3. map' = UpdatedMap(mid, HalfOf(loc), up)
      BY <2>2 DEF TwoUpdates
    <3> HIDE DEF mid
    <3>4. Counts(map') = Hits!Hit(Counts(mid), Xor(up, HalfOf(loc)))
      BY <3>1, <3>3, UpdateHits
    <3>5. /\ Xor(loc, prev) \in LocsOf(mode)
          /\ Xor(up, HalfOf(loc)) \in LocsOf(mode)
      BY <3>1, XorHalves DEF IndInv
    <3>6. Counts(map')
            = Hits!Hit(Hits!Hit(Counts(map), Xor(loc, prev)),
                       Xor(up, HalfOf(loc)))
      BY <3>2, <3>4
    <3>7. PICK l \in LocsOf(mode), m \in LocsOf(mode) :
            Counts(map') = Hits!Hit(Hits!Hit(Counts(map), l), m)
      BY <3>5, <3>6
    <3>8. mode' = mode
      BY <2>2 DEF TwoUpdates
    <3>9. Hits!TwoAccesses
      <4>1. [l2 \in LocsOf(mode) |-> Value(map[l2])] = Counts(map)
        BY DEF Counts
      <4> QED BY <2>a, <2>b, <3>7, <3>8, <4>1 DEF Hits!TwoAccesses
    <3> QED BY <2>a, <3>8, <3>9 DEF Hits!Next
  <2>3. CASE UNCHANGED vars
    BY <2>3, <2>a DEF vars, Hits!vars, Counts
  <2> QED BY <2>1, <2>2, <2>3, StepCases
<1> QED BY <1>1, <1>2, Invariance, PTL DEF Spec, HitsSpec, Hits!Spec
=============================================================================
