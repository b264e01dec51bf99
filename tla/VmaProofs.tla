------------------------------ MODULE VmaProofs ------------------------------
(***************************************************************************)
(* Proof about the areas of address spaces (module Vma) for any number of   *)
(* address spaces, pages and shared memories.                               *)
(***************************************************************************)
EXTENDS Vma, WellFoundedInduction, TLAPS

ConstantsOK == N \in Nat /\ BrkStart \in USERBASE .. USERTOP

Back == Kinds \cup Shm \cup {"rw", "null"}
AreaRec == [lo : Int, hi : Int, back : Back, off : Int]
MmRec == [live : BOOLEAN, areas : SUBSET AreaRec, cache : AreaRec \cup {None},
          brk : USERBASE .. USERTOP]

InUserSpace(x) == USERBASE <= x.lo /\ x.lo < x.hi /\ x.hi <= USERTOP
Apart(x, y) == x.hi <= y.lo \/ y.hi <= x.lo

\* What AreasDisjoint says of one mm.
Sound(r) ==
  /\ r \in MmRec
  /\ \A x \in r.areas : InUserSpace(x)
  /\ \A x, y \in r.areas : x = y \/ Apart(x, y)
  /\ r.cache \in r.areas \cup {None}

\* AreasDisjoint with the types.
IInv == mm \in [Mm -> MmRec] /\ \A m \in Mm : Sound(mm[m])
-----------------------------------------------------------------------------
\* A set of areas has a lowest one.
LEMMA LowestArea ==
  ASSUME NEW S, S # {}, \A x \in S : x \in AreaRec /\ x.lo \in Nat
  PROVE  \E x \in S : \A y \in S : x.lo <= y.lo
<1> DEFINE T == {x.lo : x \in S}
           less == {n \in Nat \X Nat : n[1] < n[2]}
<1>1. T \subseteq Nat /\ T # {} OBVIOUS
<1>2. less = OpToRel(<, Nat) BY DEF OpToRel
<1>3. IsWellFoundedOn(less, Nat) BY Zenon, <1>2, NatLessThanWellFounded
<1>4. PICK n \in T : \A i \in T : ~(<<i, n>> \in less)
  <2> HIDE DEF T, less
  <2> QED BY Zenon, <1>1, <1>3, WFMin
<1>5. ASSUME NEW i \in T PROVE n <= i
  <2>1. i \in Nat /\ n \in Nat BY <1>1
  <2>2. i < n => <<i, n>> \in less BY <2>1
  <2> QED BY <1>4, <2>1, <2>2
<1> QED BY <1>5

\* find_vma: the first area that ends above a, from the cache or from the list.
LEMMA LookupIsFirst ==
  ASSUME NEW r, Sound(r), NEW a \in Int
  PROVE  /\ Lookup(r, a) # None => Lookup(r, a) \in r.areas /\ a < Lookup(r, a).hi
         /\ \A y \in r.areas : a < y.hi => Lookup(r, a) # None /\ Lookup(r, a).lo <= y.lo
<1> DEFINE later == {x \in r.areas : a < x.hi}
<1>1. \A x \in r.areas : x \in AreaRec /\ InUserSpace(x) /\ x.lo \in Nat /\ x # None
  BY DEF Sound, MmRec, AreaRec, InUserSpace, USERBASE, None
<1>2. CASE r.cache # None /\ r.cache.lo <= a /\ a < r.cache.hi
  <2>1. Lookup(r, a) = r.cache /\ r.cache \in r.areas BY <1>2 DEF Lookup, Sound
  <2>2. ASSUME NEW y \in r.areas, a < y.hi PROVE r.cache.lo <= y.lo
    <3>1. r.cache = y \/ Apart(r.cache, y) BY <2>1 DEF Sound
    <3> QED BY <1>1, <1>2, <2>1, <2>2, <3>1 DEF Apart, InUserSpace, AreaRec
  <2> QED BY <1>2, <2>1, <2>2
<1>3. CASE ~(r.cache # None /\ r.cache.lo <= a /\ a < r.cache.hi) /\ later = {}
  BY <1>3 DEF Lookup
<1>4. CASE ~(r.cache # None /\ r.cache.lo <= a /\ a < r.cache.hi) /\ later # {}
  <2>1. \E x \in later : \A y \in later : x.lo <= y.lo BY Zenon, <1>1, <1>4, LowestArea
  <2>2. Lookup(r, a) = CHOOSE x \in later : \A y \in later : x.lo <= y.lo BY Zenon, <1>4 DEF Lookup
  <2>3. Lookup(r, a) \in later /\ \A y \in later : Lookup(r, a).lo <= y.lo BY <2>1, <2>2
  <2> QED BY <1>1, <2>3
<1> QED BY <1>2, <1>3, <1>4

\* A range that mm_map takes is apart from every area.
LEMMA VacantRange ==
  ASSUME NEW r, Sound(r), NEW lo \in Int, NEW hi \in Int, ~Intersects(r, lo, hi)
  PROVE  \A y \in r.areas : y.hi <= lo \/ hi <= y.lo
<1> SUFFICES ASSUME NEW y \in r.areas, lo < y.hi PROVE hi <= y.lo
  BY DEF Sound, MmRec, AreaRec
<1>1. Lookup(r, lo) # None /\ Lookup(r, lo) \in r.areas /\ Lookup(r, lo).lo <= y.lo BY LookupIsFirst
<1>2. ~(Lookup(r, lo).lo < hi) BY <1>1 DEF Intersects
<1> QED BY <1>1, <1>2 DEF Sound, MmRec, AreaRec

LEMMA FindSound ==
  ASSUME NEW r, Sound(r), NEW a \in Int
  PROVE  /\ Sound(find_vma(r, a))
         /\ find_vma(r, a).areas = r.areas /\ find_vma(r, a).live = r.live
         /\ find_vma(r, a).brk = r.brk
         /\ Lookup(r, a) # None => find_vma(r, a).cache = Lookup(r, a)
<1>1. Lookup(r, a) # None => Lookup(r, a) \in r.areas BY LookupIsFirst
<1> DEFINE c == IF Lookup(r, a) = None THEN r.cache ELSE Lookup(r, a)
<1>2. c \in r.areas \cup {None} /\ c \in AreaRec \cup {None} BY <1>1 DEF Sound, MmRec
<1>3. find_vma(r, a) = [r EXCEPT !.cache = c] BY DEF find_vma
<1>4. Lookup(r, a) # None => c = Lookup(r, a) OBVIOUS
<1> HIDE DEF c
<1> QED BY <1>2, <1>3, <1>4 DEF Sound, MmRec

\* insert_vma_struct: a new area that is apart from the others.
LEMMA InsertSound ==
  ASSUME NEW r, Sound(r), NEW z \in AreaRec, InUserSpace(z), \A y \in r.areas : Apart(y, z)
  PROVE  Sound([r EXCEPT !.areas = r.areas \cup {z}])
<1>1. [r EXCEPT !.areas = r.areas \cup {z}] \in MmRec BY DEF Sound, MmRec
<1> QED BY <1>1 DEF Sound, MmRec, Apart

\* mm_unmap: areas only shrink, and what the cache points to is kept or replaced.
LEMMA UnmapSound ==
  ASSUME ConstantsOK, NEW r, Sound(r), NEW lo \in Int, NEW hi \in Int, lo < hi
  PROVE  /\ Sound(mm_unmap(r, lo, hi))
         /\ mm_unmap(r, lo, hi).live = r.live /\ mm_unmap(r, lo, hi).brk = r.brk
<1> DEFINE x == Lookup(r, lo)
           upper == vma_resize(x, hi, x.hi)
           nvma == Area(x.lo, lo, IF x.back \in Shm THEN "null" ELSE x.back, 0)
           gone == Hit(r, lo, hi)
           cut == {vma_resize(y, y.lo, lo) : y \in {y \in gone : y.lo < lo}}
                  \cup {vma_resize(y, hi, y.hi) : y \in {y \in gone : lo <= y.lo /\ hi < y.hi}}
           f == find_vma(r, lo)
<1>0. USERTOP \in Int BY DEF ConstantsOK, USERTOP
<1>1. /\ x # None => x \in r.areas /\ lo < x.hi
      /\ \A y \in r.areas : lo < y.hi => x # None /\ x.lo <= y.lo
  BY LookupIsFirst
<1>2. Sound(f) /\ f.areas = r.areas /\ f.live = r.live /\ f.brk = r.brk
  BY FindSound
<1>3. mm_unmap(r, lo, hi) =
        IF x = None \/ hi <= x.lo THEN f
        ELSE IF Holed(r, lo, hi)
        THEN [r EXCEPT !.areas = (r.areas \ {x}) \cup {upper, nvma}, !.cache = upper]
        ELSE [remove_vma_struct(f, gone) EXCEPT !.areas = @ \cup cut]
  BY DEF mm_unmap
<1>4. \A y \in r.areas : /\ y \in AreaRec /\ InUserSpace(y)
                         /\ \A z \in r.areas : y = z \/ Apart(y, z)
  BY DEF Sound, MmRec
<1>5. ASSUME NEW y \in AreaRec, NEW a \in Int, NEW b \in Int
      PROVE  /\ vma_resize(y, a, b) \in AreaRec
             /\ vma_resize(y, a, b).lo = a /\ vma_resize(y, a, b).hi = b
  <2> DEFINE o == IF y.back \in Shm THEN y.off + a - y.lo ELSE y.off
  <2>1. o \in Int BY DEF AreaRec
  <2>2. vma_resize(y, a, b) = [y EXCEPT !.lo = a, !.hi = b, !.off = o] BY DEF vma_resize
  <2> HIDE DEF o
  <2> QED BY Zenon, <2>1, <2>2 DEF AreaRec
<1>6. CASE x = None \/ hi <= x.lo
  BY <1>2, <1>3, <1>6
<1>7. CASE ~(x = None \/ hi <= x.lo) /\ Holed(r, lo, hi)
  <2> DEFINE u == [r EXCEPT !.areas = (r.areas \ {x}) \cup {upper, nvma}, !.cache = upper]
  <2>1. x \in r.areas /\ x \in AreaRec /\ InUserSpace(x) /\ x.lo < lo /\ hi < x.hi
    BY <1>1, <1>4, <1>7 DEF Holed
  <2>2. upper \in AreaRec /\ upper.lo = hi /\ upper.hi = x.hi
    BY <1>5, <2>1 DEF AreaRec
  <2>3. nvma \in AreaRec /\ nvma.lo = x.lo /\ nvma.hi = lo
    BY <2>1 DEF AreaRec, Area, Back
  <2> HIDE DEF x, upper, nvma
  <2>4. InUserSpace(upper) /\ InUserSpace(nvma) /\ Apart(upper, nvma) /\ Apart(nvma, upper)
    BY <1>0, <2>1, <2>2, <2>3 DEF InUserSpace, Apart, AreaRec, USERBASE
  <2>5. ASSUME NEW y \in r.areas \ {x}
        PROVE  Apart(y, upper) /\ Apart(upper, y) /\ Apart(y, nvma) /\ Apart(nvma, y)
    <3>1. Apart(y, x) /\ y \in AreaRec BY <1>4, <2>1
    <3> QED BY <2>1, <2>2, <2>3, <3>1 DEF Apart, AreaRec
  <2>6. u \in MmRec /\ u.areas = (r.areas \ {x}) \cup {upper, nvma} /\ u.cache = upper
        /\ u.live = r.live /\ u.brk = r.brk
    BY Zenon, <2>2, <2>3 DEF Sound, MmRec
  <2> HIDE DEF u
  <2>7. Sound(u)
    <3>1. \A y \in u.areas : InUserSpace(y) BY <1>4, <2>4, <2>6
    <3>2. \A y, z \in u.areas : y = z \/ Apart(y, z) BY <1>4, <2>4, <2>5, <2>6
    <3> QED BY <2>6, <3>1, <3>2 DEF Sound
  <2>8. mm_unmap(r, lo, hi) = u BY <1>3, <1>7 DEF u
  <2> QED BY <2>6, <2>7, <2>8
<1>8. CASE ~(x = None \/ hi <= x.lo) /\ ~Holed(r, lo, hi)
  <2> DEFINE u == [remove_vma_struct(f, gone) EXCEPT !.areas = @ \cup cut]
  <2>1. x \in r.areas /\ x \in AreaRec /\ InUserSpace(x) /\ lo < x.hi /\ x.lo < hi
    BY <1>1, <1>4, <1>8 DEF AreaRec
  <2>2. gone = {y \in r.areas : x.lo <= y.lo /\ y.lo < hi}
    BY <1>8 DEF Hit
  \* Only x can begin below lo, and then it ends within the range.
  <2>3. ASSUME NEW y \in gone, y.lo < lo PROVE y = x /\ lo < y.hi /\ y.hi <= hi
    <3>1. y \in r.areas /\ y \in AreaRec /\ InUserSpace(y) /\ x.lo <= y.lo BY <1>4, <2>2
    <3>2. y = x BY <1>4, <2>1, <2>3, <3>1 DEF Apart, InUserSpace, AreaRec
    <3> QED BY <1>8, <2>1, <2>3, <3>1, <3>2 DEF Holed, AreaRec
  \* Each piece lies in the area it was cut from and outside of the range.
  <2>4. ASSUME NEW z \in cut
        PROVE  /\ z \in AreaRec /\ InUserSpace(z)
               /\ \E y \in gone : /\ y.lo <= z.lo /\ z.hi <= y.hi
                                  /\ \/ z.hi <= lo /\ z = vma_resize(y, y.lo, lo) /\ y.lo < lo
                                     \/ hi <= z.lo /\ z = vma_resize(y, hi, y.hi) /\ lo <= y.lo
    <3>1. CASE \E y \in gone : y.lo < lo /\ z = vma_resize(y, y.lo, lo)
      <4>1. PICK y \in gone : y.lo < lo /\ z = vma_resize(y, y.lo, lo) BY <3>1
      <4>2. y \in AreaRec /\ InUserSpace(y) BY <1>4, <2>2
      <4>3. z \in AreaRec /\ z.lo = y.lo /\ z.hi = lo BY <1>5, <4>1, <4>2 DEF AreaRec
      <4>4. lo < y.hi BY <2>3, <4>1
      <4> QED BY <1>0, <4>1, <4>2, <4>3, <4>4 DEF InUserSpace, AreaRec, USERBASE
    <3>2. CASE \E y \in gone : lo <= y.lo /\ hi < y.hi /\ z = vma_resize(y, hi, y.hi)
      <4>1. PICK y \in gone : lo <= y.lo /\ hi < y.hi /\ z = vma_resize(y, hi, y.hi) BY <3>2
      <4>2. y \in AreaRec /\ InUserSpace(y) /\ y.lo < hi BY <1>4, <2>2
      <4>3. z \in AreaRec /\ z.lo = hi /\ z.hi = y.hi BY <1>5, <4>1, <4>2 DEF AreaRec
      <4> QED BY <4>1, <4>2, <4>3 DEF InUserSpace, AreaRec, USERBASE
    <3> QED BY <3>1, <3>2
  <2> HIDE DEF x, gone, cut, f
  <2>5. ASSUME NEW y \in r.areas \ gone, NEW z \in cut PROVE Apart(y, z) /\ Apart(z, y)
    <3>1. PICK w \in gone : w.lo <= z.lo /\ z.hi <= w.hi BY <2>4
    <3>2. w \in r.areas /\ w # y BY <2>2
    <3>3. Apart(y, w) BY <1>4, <3>2
    <3>4. y \in AreaRec /\ w \in AreaRec /\ z \in AreaRec BY <1>4, <2>4, <3>2
    <3> QED BY <3>1, <3>3, <3>4 DEF Apart, AreaRec
  <2>6. ASSUME NEW z1 \in cut, NEW z2 \in cut PROVE z1 = z2 \/ Apart(z1, z2)
    <3>1. PICK y1 \in gone : /\ y1.lo <= z1.lo /\ z1.hi <= y1.hi
                             /\ \/ z1.hi <= lo /\ z1 = vma_resize(y1, y1.lo, lo) /\ y1.lo < lo
                                \/ hi <= z1.lo /\ z1 = vma_resize(y1, hi, y1.hi) /\ lo <= y1.lo
      BY <2>4
    <3>2. PICK y2 \in gone : /\ y2.lo <= z2.lo /\ z2.hi <= y2.hi
                             /\ \/ z2.hi <= lo /\ z2 = vma_resize(y2, y2.lo, lo) /\ y2.lo < lo
                                \/ hi <= z2.lo /\ z2 = vma_resize(y2, hi, y2.hi) /\ lo <= y2.lo
      BY <2>4
    <3>3. y1 \in r.areas /\ y2 \in r.areas BY <2>2
    <3>4. y1 \in AreaRec /\ y2 \in AreaRec /\ z1 \in AreaRec /\ z2 \in AreaRec
      BY <1>4, <2>4, <3>3
    <3>5. CASE y1 = y2
      <4>1. y1.lo < lo => z1 = z2 BY <3>1, <3>2, <3>4, <3>5 DEF AreaRec
      <4>2. lo <= y1.lo => z1 = z2 BY <3>1, <3>2, <3>4, <3>5 DEF AreaRec
      <4> QED BY <4>1, <4>2, <3>4 DEF AreaRec
    <3>6. CASE y1 # y2
      <4>1. Apart(y1, y2) BY <1>4, <3>3, <3>6
      <4> QED BY <3>1, <3>2, <3>4, <4>1 DEF Apart, AreaRec
    <3> QED BY <3>5, <3>6
  <2>7. /\ u \in MmRec /\ u.areas = (r.areas \ gone) \cup cut
        /\ u.cache = (IF f.cache \in gone THEN None ELSE f.cache)
        /\ u.live = r.live /\ u.brk = r.brk
    <3>1. f \in MmRec /\ cut \subseteq AreaRec BY <1>2, <2>4 DEF Sound
    <3> QED BY Zenon, <1>2, <3>1 DEF remove_vma_struct, MmRec
  <2>8. f.cache \in r.areas \cup {None} BY <1>2 DEF Sound
  <2> HIDE DEF u
  <2>9. Sound(u)
    <3>1. \A y \in u.areas : InUserSpace(y) BY <1>4, <2>4, <2>7
    <3>2. \A y, z \in u.areas : y = z \/ Apart(y, z) BY <1>4, <2>5, <2>6, <2>7
    <3>3. u.cache \in u.areas \cup {None} BY <2>7, <2>8
    <3> QED BY <2>7, <3>1, <3>2, <3>3 DEF Sound
  <2>10. mm_unmap(r, lo, hi) = u BY <1>3, <1>8 DEF u
  <2> QED BY <2>7, <2>9, <2>10
<1> QED BY <1>6, <1>7, <1>8

\* mm_brk: the area that ends at lo grows up to hi, or a new one is inserted.
LEMMA BrkSound ==
  ASSUME ConstantsOK, NEW r, Sound(r), NEW lo \in Int, NEW hi \in Int,
         USERBASE <= lo, lo < hi, hi <= USERTOP, ~Intersects(r, lo, hi + 1)
  PROVE  Sound(mm_brk(r, lo, hi)) /\ mm_brk(r, lo, hi).live = r.live
<1> DEFINE u == mm_unmap(r, lo, hi)
           x == Lookup(u, lo - 1)
           f == find_vma(u, lo - 1)
           z == [x EXCEPT !.hi = hi]
           new == Area(lo, hi, "rw", 0)
<1>1. Sound(u) /\ u.live = r.live /\ u.areas = r.areas
  <2>1. Lookup(r, lo) # None => hi + 1 <= Lookup(r, lo).lo
    <3>1. Lookup(r, lo) # None => Lookup(r, lo) \in AreaRec
      BY LookupIsFirst DEF Sound, MmRec
    <3> QED BY <3>1 DEF Intersects, AreaRec
  <2>2. Lookup(r, lo) # None => hi <= Lookup(r, lo).lo
    <3>1. Lookup(r, lo) # None => Lookup(r, lo) \in AreaRec
      BY LookupIsFirst DEF Sound, MmRec
    <3> QED BY <2>1, <3>1 DEF AreaRec
  <2>3. u = find_vma(r, lo) BY <2>2 DEF mm_unmap
  <2> QED BY <2>3, FindSound
<1>2. \A y \in u.areas : y.hi <= lo \/ hi + 1 <= y.lo
  BY <1>1, VacantRange
<1> HIDE DEF u
<1>3. /\ Sound(f) /\ f.areas = u.areas /\ f.live = u.live
      /\ x # None => x \in u.areas
  <2>1. lo - 1 \in Int OBVIOUS
  <2> QED BY Zenon, <1>1, <2>1, FindSound, LookupIsFirst
<1>4. \A y \in u.areas : /\ y \in AreaRec /\ InUserSpace(y)
                         /\ \A w \in u.areas : y = w \/ Apart(y, w)
  BY <1>1 DEF Sound, MmRec
<1>5. CASE x # None /\ x.hi = lo /\ x.back = "rw"
  <2> DEFINE v == [f EXCEPT !.areas = (f.areas \ {x}) \cup {z}, !.cache = z]
  <2>1. mm_brk(r, lo, hi) = v BY <1>5 DEF mm_brk, u
  <2>2. x \in u.areas /\ x \in AreaRec /\ InUserSpace(x) BY <1>3, <1>4, <1>5
  <2>3. z \in AreaRec /\ z.lo = x.lo /\ z.hi = hi BY <2>2 DEF AreaRec
  <2> HIDE DEF x, z
  <2>4. InUserSpace(z) BY <1>5, <2>2, <2>3 DEF InUserSpace, AreaRec
  <2>5. ASSUME NEW y \in u.areas \ {x} PROVE Apart(y, z) /\ Apart(z, y)
    <3>1. y \in AreaRec /\ InUserSpace(y) /\ Apart(y, x) /\ (y.hi <= lo \/ hi + 1 <= y.lo)
      BY <1>2, <1>4, <2>2
    <3> QED BY <1>5, <2>2, <2>3, <3>1 DEF Apart, InUserSpace, AreaRec
  <2>6. v \in MmRec /\ v.areas = (u.areas \ {x}) \cup {z} /\ v.cache = z /\ v.live = u.live
    BY Zenon, <1>3, <2>3 DEF Sound, MmRec
  <2> HIDE DEF v
  <2>7. \A y \in v.areas : InUserSpace(y) BY <1>4, <2>4, <2>6
  <2>8. \A y, w \in v.areas : y = w \/ Apart(y, w) BY <1>4, <2>5, <2>6
  <2> QED BY <1>1, <2>1, <2>6, <2>7, <2>8 DEF Sound
<1>6. CASE ~(x # None /\ x.hi = lo /\ x.back = "rw")
  <2>1. mm_brk(r, lo, hi) = [f EXCEPT !.areas = f.areas \cup {new}] BY <1>6 DEF mm_brk, u
  <2>2. new \in AreaRec /\ new.lo = lo /\ new.hi = hi BY DEF Area, AreaRec, Back
  <2> HIDE DEF f, new
  <2>3. InUserSpace(new) BY <2>2 DEF InUserSpace
  <2>4. \A y \in f.areas : Apart(y, new)
    BY <1>2, <1>3, <1>4, <2>2 DEF Apart, AreaRec
  <2>5. Sound([f EXCEPT !.areas = f.areas \cup {new}]) BY <1>3, <2>2, <2>3, <2>4, InsertSound
  <2>6. [f EXCEPT !.areas = f.areas \cup {new}].live = f.live BY <1>3 DEF Sound, MmRec
  <2> QED BY <1>1, <1>3, <2>1, <2>5, <2>6
<1> QED BY <1>5, <1>6

\* mm_map in a vacant range.
LEMMA MapSound ==
  ASSUME ConstantsOK, NEW r, Sound(r), NEW lo, NEW hi, <<lo, hi>> \in Ranges,
         ~Intersects(r, lo, hi), NEW b \in Back
  PROVE  Sound([find_vma(r, lo) EXCEPT !.areas = @ \cup {Area(lo, hi, b, 0)}])
<1> DEFINE f == find_vma(r, lo)
           z == Area(lo, hi, b, 0)
<1>1. lo \in Int /\ hi \in Int /\ USERBASE <= lo /\ lo < hi /\ hi <= USERTOP
  BY DEF Ranges, ConstantsOK, USERBASE, USERTOP
<1>2. Sound(f) /\ f.areas = r.areas BY <1>1, FindSound
<1>3. z \in AreaRec /\ z.lo = lo /\ z.hi = hi BY <1>1 DEF Area, AreaRec
<1>4. \A y \in r.areas : y.hi <= lo \/ hi <= y.lo BY <1>1, VacantRange
<1> HIDE DEF f, z
<1>5. InUserSpace(z) BY <1>1, <1>3 DEF InUserSpace
<1>6. \A y \in f.areas : Apart(y, z) BY <1>2, <1>3, <1>4 DEF Apart
<1>7. Sound([f EXCEPT !.areas = f.areas \cup {z}]) BY <1>2, <1>3, <1>5, <1>6, InsertSound
<1> QED BY <1>7 DEF f, z
-----------------------------------------------------------------------------
LEMMA NewMmSound ==
  ASSUME ConstantsOK, NEW l \in BOOLEAN
  PROVE  Sound([NewMm EXCEPT !.live = l])
BY DEF ConstantsOK, NewMm, Sound, MmRec

LEMMA InitIInv == ASSUME ConstantsOK, Init PROVE IInv
<1>1. PICK m \in Mm : mm = [n \in Mm |-> [NewMm EXCEPT !.live = (n = m)]] BY DEF Init
<1>2. \A n \in Mm : Sound(mm[n]) BY Zenon, <1>1, NewMmSound
<1> QED BY Zenon, <1>1, <1>2 DEF IInv, Sound

\* A call changes one mm.
LEMMA ChangeOne ==
  ASSUME IInv, NEW m \in Mm, NEW r, Sound(r), mm' = [mm EXCEPT ![m] = r]
  PROVE  IInv'
BY DEF IInv, Sound

LEMMA StopIInv == ASSUME IInv, Stop PROVE IInv'
BY DEF Stop, IInv, Sound

LEMMA NextIInv == ASSUME ConstantsOK, IInv, [Next]_vars PROVE IInv'
<1>1. ASSUME NEW m \in Mm, NEW x \in Ranges, do_munmap(m, x[1], x[2]) PROVE IInv'
  <2>1. x[1] \in Int /\ x[2] \in Int /\ x[1] < x[2]
    BY DEF Ranges, ConstantsOK, USERBASE, USERTOP
  <2>2. Sound(mm_unmap(mm[m], x[1], x[2])) BY <2>1, UnmapSound DEF IInv
  <2> QED BY Zenon, <1>1, <2>2, ChangeOne, StopIInv DEF do_munmap, Unmap
<1>2. ASSUME NEW m \in Mm, NEW x \in Ranges, NEW b \in Back, CanMap(m, x[1], x[2]),
             mm' = [mm EXCEPT ![m] =
                      [find_vma(mm[m], x[1]) EXCEPT !.areas = @ \cup {Area(x[1], x[2], b, 0)}]]
      PROVE IInv'
  <2> DEFINE r == [find_vma(mm[m], x[1]) EXCEPT !.areas = @ \cup {Area(x[1], x[2], b, 0)}]
  <2>1. <<x[1], x[2]>> \in Ranges BY DEF Ranges
  <2>2. Sound(r) BY <1>2, <2>1, MapSound DEF CanMap, IInv
  <2>3. mm' = [mm EXCEPT ![m] = r] BY <1>2
  <2> HIDE DEF r
  <2> QED BY Zenon, <2>2, <2>3, ChangeOne
<1>3. ASSUME NEW m \in Mm, NEW x \in Ranges, NEW kind \in Kinds, do_mmap(m, x[1], x[2], kind)
      PROVE  IInv'
  BY Zenon, <1>2, <1>3 DEF do_mmap, Back
<1>4. ASSUME NEW m \in Mm, NEW x \in Ranges, NEW s \in Shm, do_shmem(m, x[1], x[2], s)
      PROVE  IInv'
  BY Zenon, <1>2, <1>4 DEF do_shmem, Back
<1>5. ASSUME NEW m \in Mm, NEW b \in BrkStart .. USERTOP, do_brk(m, b) PROVE IInv'
  <2> DEFINE r == mm[m]
  <2>1. Sound(r) /\ r.brk \in USERBASE .. USERTOP BY DEF IInv, Sound, MmRec
  <2>2. /\ b \in USERBASE .. USERTOP /\ b \in Int /\ r.brk \in Int
        /\ USERBASE <= r.brk /\ b <= USERTOP
    BY <2>1 DEF ConstantsOK, USERBASE, USERTOP
  <2>3. ASSUME NEW q, Sound(q) PROVE Sound([q EXCEPT !.brk = b])
    BY <2>2, <2>3 DEF Sound, MmRec
  <2>4. CASE b < r.brk /\ mm' = [mm EXCEPT ![m] = [mm_unmap(r, b, r.brk) EXCEPT !.brk = b]]
    <3>1. Sound(mm_unmap(r, b, r.brk)) BY <2>1, <2>2, <2>4, UnmapSound
    <3>2. Sound([mm_unmap(r, b, r.brk) EXCEPT !.brk = b]) BY <3>1, <2>3
    <3> QED BY Zenon, <2>4, <3>2, ChangeOne
  <2>5. CASE /\ b > r.brk /\ ~Intersects(r, r.brk, b + 1)
             /\ mm' = [mm EXCEPT ![m] = [mm_brk(r, r.brk, b) EXCEPT !.brk = b]]
    <3>1. Sound(mm_brk(r, r.brk, b)) BY <2>1, <2>2, <2>5, BrkSound
    <3>2. Sound([mm_brk(r, r.brk, b) EXCEPT !.brk = b]) BY <3>1, <2>3
    <3> QED BY Zenon, <2>5, <3>2, ChangeOne
  <2> QED BY <1>5, <2>4, <2>5, StopIInv DEF do_brk, Unmap
<1>6. ASSUME NEW m \in Mm, NEW a \in USERBASE .. N, Touch(m, a) \/ TouchNull(m, a)
      PROVE  IInv'
  <2>1. a \in Int BY DEF ConstantsOK, USERBASE
  <2>2. Sound(find_vma(mm[m], a)) BY <2>1, FindSound DEF IInv
  <2> QED BY Zenon, <1>6, <2>2, ChangeOne, StopIInv DEF Touch, TouchNull
<1>7. ASSUME NEW m \in Mm, NEW n \in Mm, dup_mmap(m, n) PROVE IInv'
  <2> DEFINE r == [NewMm EXCEPT !.live = TRUE, !.areas = mm[m].areas, !.brk = mm[m].brk]
  <2>1. Sound(mm[m]) BY DEF IInv
  <2>2. r \in MmRec /\ r.areas = mm[m].areas /\ r.cache = None
    BY Zenon, <2>1 DEF NewMm, Sound, MmRec
  <2> HIDE DEF r
  <2>3. Sound(r) BY <2>1, <2>2 DEF Sound
  <2>4. Stop \/ mm' = [mm EXCEPT ![n] = r] BY <1>7 DEF dup_mmap, r
  <2> QED BY Zenon, <2>3, <2>4, ChangeOne, StopIInv
<1>8. ASSUME NEW m \in Mm, mm_destroy(m) PROVE IInv'
  <2>1. Sound(NewMm) BY DEF ConstantsOK, NewMm, Sound, MmRec
  <2> QED BY Zenon, <1>8, <2>1, ChangeOne, StopIInv DEF mm_destroy
<1>9. CASE UNCHANGED vars BY <1>9 DEF vars, IInv, Sound
<1> QED BY <1>1, <1>3, <1>4, <1>5, <1>6, <1>7, <1>8, <1>9 DEF Next

\* mmap, munmap, brk, shmem, fork and exit keep the areas of every address space in
\* user space and apart, and mmap_cache one of them, whatever they cut and join.
THEOREM AreasStayDisjoint ==
  ASSUME ConstantsOK
  PROVE  Spec => []AreasDisjoint
<1>1. Init => IInv BY InitIInv
<1>2. IInv /\ [Next]_vars => IInv' BY NextIInv
<1>3. IInv => AreasDisjoint BY DEF IInv, Sound, InUserSpace, Apart, AreasDisjoint
<1> QED BY <1>1, <1>2, <1>3, PTL DEF Spec
=============================================================================
