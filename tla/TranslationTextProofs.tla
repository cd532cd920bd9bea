------------------------- MODULE TranslationTextProofs -------------------------
(***************************************************************************)
(* Theorems about the list algorithms of TranslationText, for lists of any *)
(* length: how split_subtitle_content cuts a file and how                  *)
(* merge_translated_chunks sorts one.                                      *)
(*                                                                         *)
(* Packed is a recursive function. That there is a function with these     *)
(* equations, and what it computes, follows from every set of numbers      *)
(* having a least member.                                                  *)
(***************************************************************************)
EXTENDS TranslationText, FiniteSetTheorems, SequenceTheorems, TLAPS

-----------------------------------------------------------------------------
(* Numbers *)

\* A set of natural numbers has a least member: among the intervals that start
\* at 0 and end in the set, one contains no other.
LEMMA LeastNumber ==
    ASSUME NEW T \in SUBSET Nat, T # {}
    PROVE  \E m \in T : \A n \in T : m <= n
<1> DEFINE R == StrictSubsetOrdering(Nat)
           U == {0..m : m \in T}
<1>1. IsWellFoundedOn(R, FiniteSubsetsOf(Nat))
    BY FS_StrictSubsetOrderingWellFounded
<1>2. U \subseteq FiniteSubsetsOf(Nat)
    <2>1. \A m \in Nat : 0..m \in SUBSET Nat /\ IsFiniteSet(0..m)
        BY FS_Interval
    <2> QED BY <2>1 DEF FiniteSubsetsOf
<1>3. U # {}
    OBVIOUS
<1>4. PICK x \in U : \A y \in U : <<y, x>> \notin R
    <2> HIDE DEF R, U
    <2> QED BY <1>1, <1>2, <1>3, WFMin
<1>5. PICK m \in T : x = 0..m
    BY <1>4
<1>6. ASSUME NEW n \in T, n < m
      PROVE  FALSE
    <2>1. /\ 0..n \in SUBSET (0..m) /\ 0..n # 0..m
          /\ 0..n \in SUBSET Nat /\ 0..m \in SUBSET Nat
        BY <1>6
    <2>2. <<0..n, x>> \in R
        BY <2>1, <1>5 DEF StrictSubsetOrdering
    <2> QED BY <2>2, <1>4
<1> QED BY <1>6

\* So what holds of 0 and of the next number whenever of a number holds of all.
LEMMA UpTo ==
    ASSUME NEW n \in Nat, NEW T, 0 \in T, \A i \in 1..n : i - 1 \in T => i \in T
    PROVE  \A i \in 0..n : i \in T
<1> DEFINE F == {i \in 0..n : i \notin T}
<1> SUFFICES ASSUME F # {}
             PROVE  FALSE
    OBVIOUS
<1>1. F \in SUBSET Nat
    OBVIOUS
<1>2. PICK m \in F : \A i \in F : m <= i
    BY <1>1, LeastNumber
<1>3. m \in 1..n /\ m - 1 \in 0..n /\ ~(m <= m - 1)
    BY <1>2
<1>4. m - 1 \in T
    BY <1>2, <1>3
<1> QED BY <1>2, <1>3, <1>4

-----------------------------------------------------------------------------
(* Cutting a file into chunks *)

Limit == [tokens : Nat, segments : Nat \ {0}]

\* pack says what is packed after each of the first n segments.
Packs(pack, tokens, limit, n) ==
    pack = [i \in 0..n |-> IF i = 0 THEN NoSegment
                           ELSE WithSegment(pack[i - 1], tokens, limit, i)]

LEMMA PackingExists ==
    ASSUME NEW tokens, NEW limit, NEW n \in Nat
    PROVE  \E pack : Packs(pack, tokens, limit, n)
<1> DEFINE T == {m \in 0..n : \E pack : Packs(pack, tokens, limit, m)}
<1>1. 0 \in T
    <2> DEFINE pack == [i \in 0..0 |-> NoSegment]
    <2>1. \A i \in 0..0 : i = 0
        OBVIOUS
    <2>2. Packs(pack, tokens, limit, 0)
        BY <2>1 DEF Packs
    <2> QED BY <2>2
<1>2. ASSUME NEW m \in 1..n, m - 1 \in T
      PROVE  m \in T
    <2>1. PICK g : Packs(g, tokens, limit, m - 1)
        BY <1>2
    <2> DEFINE h == [i \in 0..m |-> IF i < m THEN g[i]
                                    ELSE WithSegment(g[m - 1], tokens, limit, m)]
    <2>2. /\ m - 1 \in 0..m /\ m - 1 < m
          /\ \A i \in 0..m : /\ i < m => i \in 0..(m - 1)
                             /\ ~(i < m) => i = m /\ i # 0
                             /\ i < m /\ i # 0 => i - 1 \in 0..m /\ i - 1 < m
        OBVIOUS
    <2>3. \A i \in 0..(m - 1) : g[i] = IF i = 0 THEN NoSegment
                                      ELSE WithSegment(g[i - 1], tokens, limit, i)
        BY <2>1 DEF Packs
    <2>4. ASSUME NEW i \in 0..m
          PROVE  h[i] = IF i = 0 THEN NoSegment
                        ELSE WithSegment(h[i - 1], tokens, limit, i)
        <3>1. CASE i < m
            BY <3>1, <2>2, <2>3
        <3>2. CASE ~(i < m)
            BY <3>2, <2>2
        <3> QED BY <3>1, <3>2
    <2>5. h = [i \in 0..m |-> h[i]]
        OBVIOUS
    <2> HIDE DEF h
    <2>6. Packs(h, tokens, limit, m)
        BY <2>4, <2>5 DEF Packs
    <2>7. m \in 0..n
        OBVIOUS
    <2> QED BY <2>6, <2>7
<1> HIDE DEF T
<1>3. n \in T
    BY <1>1, <1>2, UpTo
<1> QED BY <1>3 DEF T

LEMMA PackedFacts ==
    ASSUME NEW tokens, Len(tokens) \in Nat, NEW limit
    PROVE  \E pack : /\ Packed(tokens, limit) = pack[Len(tokens)]
                     /\ pack[0] = NoSegment
                     /\ \A i \in 1..Len(tokens) :
                            pack[i] = WithSegment(pack[i - 1], tokens, limit, i)
<1> DEFINE pack == CHOOSE pack : Packs(pack, tokens, limit, Len(tokens))
<1>1. Packs(pack, tokens, limit, Len(tokens))
    BY PackingExists
<1>2. Packed(tokens, limit) = pack[Len(tokens)]
    BY DEF Packed, Packs
<1> HIDE DEF pack
<1>3. /\ 0 \in 0..Len(tokens)
      /\ \A i \in 1..Len(tokens) : i \in 0..Len(tokens) /\ i # 0
    OBVIOUS
<1>4. \A i \in 0..Len(tokens) :
        pack[i] = IF i = 0 THEN NoSegment
                  ELSE WithSegment(pack[i - 1], tokens, limit, i)
    BY <1>1 DEF Packs
<1> QED BY <1>2, <1>3, <1>4

\* The tokens of the first i segments, for each i.
IsTotal(total, tokens) ==
    /\ total \in [0..Len(tokens) -> Nat]
    /\ total[0] = 0
    /\ \A i \in 1..Len(tokens) : total[i] = total[i - 1] + tokens[i]

\* A chunk from one segment to another keeps to the limits: it has no more segments
\* than allowed, and no more tokens, unless it is a single segment.
Fits(first, last, total, limit) ==
    /\ last - first < limit.segments
    /\ last = first \/ total[last] - total[first - 1] <= limit.tokens

Ordered(cut) == \A c \in 1..Len(cut) : FirstOf(cut, c) <= LastOf(cut, c)

\* Each chunk fits, and would not if it had the next segment as well.
Filled(cut, total, limit) ==
    \A c \in 1..Len(cut) :
        /\ Fits(FirstOf(cut, c), LastOf(cut, c), total, limit)
        /\ ~Fits(FirstOf(cut, c), LastOf(cut, c) + 1, total, limit)

EndOf(cut) == IF Len(cut) = 0 THEN 0 ELSE cut[Len(cut)]

\* What is packed after i segments: the closed chunks, full and one after the
\* other, and behind them an open one that fits.
PackInv(open, i, tokens, total, limit) ==
    /\ open \in [ends : Seq(1..Len(tokens)), load : Nat, size : 0..limit.segments]
    /\ EndOf(open.ends) + open.size = i
    /\ i > 0 => open.size > 0
    /\ open.load = total[i] - total[i - open.size]
    /\ open.size > 1 => open.load <= limit.tokens
    /\ Ordered(open.ends)
    /\ Filled(open.ends, total, limit)

\* Another chunk behind others.
LEMMA AppendChunk ==
    ASSUME NEW n \in Nat, NEW cut \in Seq(1..n), NEW last \in 1..n,
           Ordered(cut), EndOf(cut) < last
    PROVE  /\ Append(cut, last) \in Seq(1..n)
           /\ Len(Append(cut, last)) = Len(cut) + 1
           /\ Len(cut) \in Nat /\ EndOf(cut) \in 0..n
           /\ Ordered(Append(cut, last))
           /\ EndOf(Append(cut, last)) = last
           /\ FirstOf(Append(cut, last), Len(cut) + 1) = EndOf(cut) + 1
           /\ LastOf(Append(cut, last), Len(cut) + 1) = last
           /\ \A c \in 1..Len(cut) :
                /\ FirstOf(Append(cut, last), c) = FirstOf(cut, c)
                /\ LastOf(Append(cut, last), c) = LastOf(cut, c)
<1> DEFINE new == Append(cut, last)
<1>1. /\ new \in Seq(1..n) /\ Len(new) = Len(cut) + 1 /\ Len(cut) \in Nat
      /\ new[Len(cut) + 1] = last
      /\ \A c \in 1..Len(cut) : new[c] = cut[c] /\ cut[c] \in 1..n
    BY AppendProperties, ElementOfSeq, LenProperties
<1> HIDE DEF new
<1>2. EndOf(cut) \in 0..n
    BY <1>1 DEF EndOf
<1>3. \A c \in 1..Len(cut) :
        /\ FirstOf(new, c) = FirstOf(cut, c)
        /\ LastOf(new, c) = LastOf(cut, c)
    <2>1. \A c \in 1..Len(cut) : c # 1 => c - 1 \in 1..Len(cut)
        BY <1>1
    <2> QED BY <2>1, <1>1 DEF FirstOf, LastOf
<1>4. /\ FirstOf(new, Len(cut) + 1) = EndOf(cut) + 1
      /\ LastOf(new, Len(cut) + 1) = last
      /\ EndOf(new) = last
    <2>1. /\ (Len(cut) + 1) - 1 = Len(cut) /\ Len(cut) + 1 # 0
          /\ Len(cut) + 1 = 1 <=> Len(cut) = 0
          /\ Len(cut) # 0 => Len(cut) \in 1..Len(cut)
        BY <1>1
    <2>2. LastOf(new, Len(cut) + 1) = last /\ EndOf(new) = last
        BY <2>1, <1>1, Zenon DEF LastOf, EndOf
    <2>3. CASE Len(cut) = 0
        <3>1. FirstOf(new, Len(cut) + 1) = 1 /\ EndOf(cut) = 0
            BY <2>1, <2>3, Zenon DEF FirstOf, EndOf
        <3>2. EndOf(cut) + 1 = 1
            BY <3>1
        <3> QED BY <3>1, <3>2, <2>2, Zenon
    <2>4. CASE Len(cut) # 0
        <3>1. FirstOf(new, Len(cut) + 1) = new[Len(cut)] + 1
            BY <2>1, <2>4, Zenon DEF FirstOf
        <3>2. new[Len(cut)] = cut[Len(cut)] /\ EndOf(cut) = cut[Len(cut)]
            BY <1>1, <2>1, <2>4, Zenon DEF EndOf
        <3> QED BY <3>1, <3>2, <2>2, Zenon
    <2> QED BY <2>3, <2>4
<1>5. Ordered(new)
    <2> SUFFICES ASSUME NEW c \in 1..Len(new)
                 PROVE  FirstOf(new, c) <= LastOf(new, c)
        BY DEF Ordered
    <2>1. c \in 1..Len(cut) \/ c = Len(cut) + 1
        BY <1>1
    <2>2. EndOf(cut) + 1 <= last
        BY <1>2
    <2> QED BY <2>1, <2>2, <1>3, <1>4 DEF Ordered
<1> QED BY <1>1, <1>2, <1>3, <1>4, <1>5 DEF new

\* The numbers of a packing before segment i comes: e segments are in closed chunks
\* and z in the open one, which has l tokens; segment i has t. The limits are m tokens
\* and s segments; a, b and d are the tokens up to segment i, up to the one before it,
\* and in closed chunks.
Packing(i, e, z, l, t, m, s, a, b, d) ==
    /\ i \in Nat \ {0} /\ e \in Nat /\ z \in Nat /\ l \in Nat /\ t \in Nat
    /\ m \in Nat /\ s \in Nat \ {0} /\ a \in Nat /\ b \in Nat /\ d \in Nat
    /\ z <= s /\ e + z = i - 1
    /\ i - 1 > 0 => z > 0
    /\ l = b - d /\ a = b + t
    /\ z > 1 => l <= m

Full(z, l, t, m, s) == \/ l + t > m /\ z > 0
                       \/ z >= s

\* The arithmetic of a chunk that closes, and of one that stays open.
LEMMA ClosingArithmetic ==
    ASSUME NEW i, NEW e, NEW z, NEW l, NEW t, NEW m, NEW s, NEW a, NEW b, NEW d,
           Packing(i, e, z, l, t, m, s, a, b, d), Full(z, l, t, m, s)
    PROVE  /\ z > 0 /\ i - 1 > 0 /\ e < i - 1
           /\ (e + 1) - 1 = i - 1 - z
           /\ i - 1 + 1 = i /\ i # e + 1
           /\ i - 1 - (e + 1) < s
           /\ i - 1 = e + 1 \/ b - d <= m
           /\ ~(i - (e + 1) < s) \/ ~(a - d <= m)
           /\ t = a - b
           /\ 1 \in 0..s /\ 1 > 0 /\ ~(1 > 1)
BY DEF Packing, Full

LEMMA OpenArithmetic ==
    ASSUME NEW i, NEW e, NEW z, NEW l, NEW t, NEW m, NEW s, NEW a, NEW b, NEW d,
           Packing(i, e, z, l, t, m, s, a, b, d), ~Full(z, l, t, m, s)
    PROVE  /\ z + 1 \in 0..s /\ l + t \in Nat
           /\ e + (z + 1) = i /\ z + 1 > 0
           /\ i - (z + 1) = i - 1 - z
           /\ l + t = a - d
           /\ z + 1 > 1 => l + t <= m
BY DEF Packing, Full

\* One more segment.
LEMMA PackStep ==
    ASSUME NEW tokens \in Seq(Nat), NEW limit \in Limit, NEW total, IsTotal(total, tokens),
           NEW i \in 1..Len(tokens), NEW open, PackInv(open, i - 1, tokens, total, limit)
    PROVE  PackInv(WithSegment(open, tokens, limit, i), i, tokens, total, limit)
<1> DEFINE n == Len(tokens)
           new == WithSegment(open, tokens, limit, i)
           e == EndOf(open.ends)
           d == total[i - 1 - open.size]
<1>1. /\ n \in Nat /\ tokens[i] \in Nat
      /\ limit.tokens \in Nat /\ limit.segments \in Nat \ {0}
      /\ i - 1 \in 0..n /\ i \in Nat \ {0}
      /\ i - 1 > 0 => i - 1 \in 1..n
    BY LenProperties, ElementOfSeq DEF Limit
<1>2. /\ open \in [ends : Seq(1..n), load : Nat, size : 0..limit.segments]
      /\ open.ends \in Seq(1..n) /\ open.load \in Nat /\ open.size \in Nat
      /\ open.size <= limit.segments
      /\ e + open.size = i - 1
      /\ i - 1 > 0 => open.size > 0
      /\ open.load = total[i - 1] - d
      /\ open.size > 1 => open.load <= limit.tokens
      /\ Ordered(open.ends) /\ Filled(open.ends, total, limit)
    BY <1>1 DEF PackInv
<1>3. e \in 0..n
    <2>1. Len(open.ends) \in Nat /\ \A c \in 1..Len(open.ends) : open.ends[c] \in 1..n
        BY <1>2, LenProperties, ElementOfSeq
    <2> QED BY <2>1, <1>1 DEF EndOf
<1>4. /\ total[i] \in Nat /\ total[i - 1] \in Nat /\ d \in Nat
      /\ total[i] = total[i - 1] + tokens[i]
    <2>1. i - 1 - open.size \in 0..n /\ i - 1 \in 0..n /\ i \in 0..n
        BY <1>1, <1>2, <1>3
    <2> QED BY <2>1 DEF IsTotal
<1> HIDE DEF e, d, n
<1>5. Packing(i, e, open.size, open.load, tokens[i], limit.tokens, limit.segments,
              total[i], total[i - 1], d)
    <2>1. e \in Nat
        BY <1>1, <1>3
    <2> QED BY <2>1, <1>1, <1>2, <1>4 DEF Packing
<1>6. Closes(open, tokens, limit, i)
      <=> Full(open.size, open.load, tokens[i], limit.tokens, limit.segments)
    BY Zenon DEF Closes, Full
<1>7. CASE Closes(open, tokens, limit, i)
    <2> DEFINE cut == Append(open.ends, i - 1)
               k == Len(open.ends)
    <2>1. new = [ends |-> cut, load |-> tokens[i], size |-> 1]
        BY <1>7 DEF WithSegment
    <2> HIDE DEF new
    <2>2. /\ open.size > 0 /\ i - 1 > 0 /\ e < i - 1
          /\ (e + 1) - 1 = i - 1 - open.size
          /\ i - 1 + 1 = i /\ i # e + 1
          /\ i - 1 - (e + 1) < limit.segments
          /\ i - 1 = e + 1 \/ total[i - 1] - d <= limit.tokens
          /\ ~(i - (e + 1) < limit.segments) \/ ~(total[i] - d <= limit.tokens)
          /\ tokens[i] = total[i] - total[i - 1]
          /\ 1 \in 0..limit.segments /\ 1 > 0 /\ ~(1 > 1)
        BY <1>5, <1>6, <1>7, ClosingArithmetic
    <2>3. /\ cut \in Seq(1..n) /\ Len(cut) = k + 1 /\ k \in Nat
          /\ Ordered(cut) /\ EndOf(cut) = i - 1
          /\ FirstOf(cut, k + 1) = e + 1 /\ LastOf(cut, k + 1) = i - 1
          /\ \A c \in 1..k : /\ FirstOf(cut, c) = FirstOf(open.ends, c)
                             /\ LastOf(cut, c) = LastOf(open.ends, c)
        <3>1. n \in Nat /\ open.ends \in Seq(1..n) /\ i - 1 \in 1..n
            BY <1>1, <1>2, <2>2, Zenon
        <3>2. Ordered(open.ends) /\ EndOf(open.ends) < i - 1
            BY <1>2, <2>2, Zenon DEF e
        <3>3. /\ cut \in Seq(1..n) /\ Len(cut) = k + 1 /\ k \in Nat
              /\ Ordered(cut) /\ EndOf(cut) = i - 1
              /\ FirstOf(cut, k + 1) = EndOf(open.ends) + 1 /\ LastOf(cut, k + 1) = i - 1
              /\ \A c \in 1..k : /\ FirstOf(cut, c) = FirstOf(open.ends, c)
                                 /\ LastOf(cut, c) = LastOf(open.ends, c)
            BY <3>1, <3>2, AppendChunk, ZenonT(60)
        <3> QED BY <3>3, Zenon DEF e
    <2> HIDE DEF cut, k
    <2>4. total[(e + 1) - 1] = d
        <3>1. \A x : x = i - 1 - open.size => total[x] = d
            BY Zenon DEF d
        <3> QED BY <2>2, <3>1, Zenon
    <2>5. Fits(e + 1, i - 1, total, limit)
        <3>1. total[i - 1] - total[(e + 1) - 1] = total[i - 1] - d
            BY <2>4, Zenon
        <3> QED BY <2>2, <3>1, Zenon DEF Fits
    <2>6. ~Fits(e + 1, i - 1 + 1, total, limit)
        BY <2>2, <2>4, Zenon DEF Fits
    <2>7. Filled(cut, total, limit)
        <3> SUFFICES ASSUME NEW c \in 1..(k + 1)
                     PROVE  /\ Fits(FirstOf(cut, c), LastOf(cut, c), total, limit)
                            /\ ~Fits(FirstOf(cut, c), LastOf(cut, c) + 1, total, limit)
            BY <2>3, Zenon DEF Filled
        <3>1. c \in 1..k \/ c = k + 1
            BY <2>3
        <3>2. CASE c \in 1..k
            <4>1. /\ FirstOf(cut, c) = FirstOf(open.ends, c)
                  /\ LastOf(cut, c) = LastOf(open.ends, c)
                BY <2>3, <3>2, Zenon
            <4> QED BY <4>1, <3>2, <1>2, Zenon DEF Filled, k
        <3>3. CASE c = k + 1
            BY <3>3, <2>3, <2>5, <2>6, Zenon
        <3> QED BY <3>1, <3>2, <3>3
    <2>8. /\ new.ends = cut /\ new.load = tokens[i] /\ new.size = 1
          /\ new \in [ends : Seq(1..n), load : Nat, size : 0..limit.segments]
        <3> HIDE DEF n
        <3> QED BY <2>1, <2>2, <2>3, <1>1
    <2>9. /\ EndOf(new.ends) + new.size = i /\ new.size > 0
          /\ new.load = total[i] - total[i - new.size]
          /\ ~(new.size > 1) /\ Ordered(new.ends) /\ Filled(new.ends, total, limit)
        BY <2>2, <2>3, <2>7, <2>8, Zenon
    <2>10. PackInv(new, i, tokens, total, limit)
        BY <2>8, <2>9, Zenon DEF PackInv, n
    <2> QED BY <2>10 DEF new
<1>8. CASE ~Closes(open, tokens, limit, i)
    <2>1. new = [open EXCEPT !.load = @ + tokens[i], !.size = @ + 1]
        BY <1>8 DEF WithSegment
    <2> HIDE DEF new
    <2>2. /\ open.size + 1 \in 0..limit.segments /\ open.load + tokens[i] \in Nat
          /\ e + (open.size + 1) = i /\ open.size + 1 > 0
          /\ i - (open.size + 1) = i - 1 - open.size
          /\ open.load + tokens[i] = total[i] - d
          /\ open.size + 1 > 1 => open.load + tokens[i] <= limit.tokens
        BY <1>5, <1>6, <1>8, OpenArithmetic
    <2>3. /\ new.ends = open.ends /\ new.load = open.load + tokens[i]
          /\ new.size = open.size + 1
          /\ new \in [ends : Seq(1..n), load : Nat, size : 0..limit.segments]
        <3>1. open = [ends |-> open.ends, load |-> open.load, size |-> open.size]
            BY <1>2
        <3>2. new = [ends |-> open.ends, load |-> open.load + tokens[i],
                     size |-> open.size + 1]
            BY <2>1, <3>1
        <3> QED BY <2>2, <3>2, <1>2
    <2>4. /\ EndOf(new.ends) + new.size = i
          /\ new.load = total[i] - total[i - new.size]
          /\ new.size > 0
          /\ new.size > 1 => new.load <= limit.tokens
        BY <2>2, <2>3, Zenon DEF e, d
    <2>5. PackInv(new, i, tokens, total, limit)
        BY <2>3, <2>4, <1>2, Zenon DEF PackInv, n
    <2> QED BY <2>5 DEF new
<1> QED BY <1>7, <1>8

\* After all segments.
LEMMA PackedInv ==
    ASSUME NEW tokens \in Seq(Nat), NEW limit \in Limit, NEW total, IsTotal(total, tokens)
    PROVE  PackInv(Packed(tokens, limit), Len(tokens), tokens, total, limit)
<1> DEFINE n == Len(tokens)
<1>1. n \in Nat /\ limit.segments \in Nat \ {0} /\ limit.tokens \in Nat
    BY LenProperties DEF Limit
<1>2. PICK pack : /\ Packed(tokens, limit) = pack[n]
                  /\ pack[0] = NoSegment
                  /\ \A i \in 1..n : pack[i] = WithSegment(pack[i - 1], tokens, limit, i)
    BY <1>1, PackedFacts
<1> DEFINE T == {i \in 0..n : PackInv(pack[i], i, tokens, total, limit)}
<1>3. 0 \in T
    <2>1. NoSegment.ends = <<>> /\ NoSegment.load = 0 /\ NoSegment.size = 0
        BY DEF NoSegment
    <2>2. <<>> \in Seq(1..n) /\ Len(<<>>) = 0
        OBVIOUS
    <2>3. Ordered(<<>>) /\ Filled(<<>>, total, limit) /\ EndOf(<<>>) = 0
        BY <2>2 DEF Ordered, Filled, EndOf
    <2>4. NoSegment \in [ends : Seq(1..n), load : Nat, size : 0..limit.segments]
        BY <1>1, <2>2 DEF NoSegment
    <2>5. total[0] - total[0] = 0 /\ 0 - 0 = 0
        BY <1>1 DEF IsTotal
    <2>6. PackInv(NoSegment, 0, tokens, total, limit)
        BY <2>1, <2>3, <2>4, <2>5 DEF PackInv
    <2> QED BY <2>6, <1>1, <1>2
<1>4. ASSUME NEW i \in 1..n, i - 1 \in T
      PROVE  i \in T
    <2>1. PackInv(pack[i - 1], i - 1, tokens, total, limit)
        BY <1>4
    <2>2. PackInv(WithSegment(pack[i - 1], tokens, limit, i), i, tokens, total, limit)
        BY <2>1, PackStep
    <2> QED BY <2>2, <1>1, <1>2
<1> HIDE DEF T, n
<1>5. n \in T
    <2>1. \A i \in 0..n : i \in T
        BY <1>1, <1>3, <1>4, UpTo, Zenon
    <2> QED BY <2>1, <1>1
<1> QED BY <1>2, <1>5 DEF T, n

\* Every list of numbers has running totals.
LEMMA TotalExists ==
    ASSUME NEW tokens \in Seq(Nat)
    PROVE  \E total : IsTotal(total, tokens)
<1> DEFINE n == Len(tokens)
           Totals(total, m) == /\ total \in [0..m -> Nat]
                               /\ total[0] = 0
                               /\ \A i \in 1..m : total[i] = total[i - 1] + tokens[i]
           T == {m \in 0..n : \E total : Totals(total, m)}
<1>1. n \in Nat /\ \A i \in 1..n : tokens[i] \in Nat
    BY LenProperties, ElementOfSeq
<1>2. 0 \in T
    <2> DEFINE total == [i \in 0..0 |-> 0]
    <2>1. Totals(total, 0)
        OBVIOUS
    <2>2. 0 \in 0..n
        BY <1>1
    <2> HIDE DEF total, Totals
    <2> QED BY <2>1, <2>2
<1>3. ASSUME NEW m \in 1..n, m - 1 \in T
      PROVE  m \in T
    <2>1. PICK old : Totals(old, m - 1)
        BY <1>3
    <2> DEFINE total == [i \in 0..m |-> IF i < m THEN old[i] ELSE old[m - 1] + tokens[m]]
    <2>2. /\ m - 1 \in 0..(m - 1) /\ m - 1 \in 0..m /\ m - 1 < m /\ 0 \in 0..m /\ 0 < m
          /\ \A i \in 0..m : i < m => i \in 0..(m - 1)
          /\ \A i \in 1..m : /\ i \in 0..m /\ i - 1 \in 0..m /\ i - 1 < m
                             /\ i < m => i \in 1..(m - 1)
                             /\ ~(i < m) => i = m
        BY <1>1
    <2>3. total \in [0..m -> Nat]
        BY <2>1, <2>2, <1>1
    <2>4. total[0] = 0
        BY <2>1, <2>2
    <2>5. ASSUME NEW i \in 1..m
          PROVE  total[i] = total[i - 1] + tokens[i]
        <3>1. CASE i < m
            BY <3>1, <2>1, <2>2
        <3>2. CASE ~(i < m)
            BY <3>2, <2>2
        <3> QED BY <3>1, <3>2
    <2> HIDE DEF total
    <2>6. Totals(total, m)
        BY <2>3, <2>4, <2>5
    <2>7. m \in 0..n
        BY <1>1
    <2> HIDE DEF Totals
    <2> QED BY <2>6, <2>7
<1> HIDE DEF T, n, Totals
<1>4. n \in T
    <2>1. \A m \in 0..n : m \in T
        BY <1>1, <1>2, <1>3, UpTo, Zenon
    <2> QED BY <2>1, <1>1
<1> QED BY <1>4 DEF T, n, Totals, IsTotal

\* The numbers when all n segments are packed.
Settled(n, e, z, l, m, s, a, d) ==
    /\ n \in Nat \ {0} /\ e \in Nat /\ z \in Nat /\ l \in Nat
    /\ m \in Nat /\ s \in Nat \ {0} /\ a \in Nat /\ d \in Nat
    /\ z <= s /\ e + z = n
    /\ n > 0 => z > 0
    /\ l = a - d
    /\ z > 1 => l <= m

LEMMA LastArithmetic ==
    ASSUME NEW n, NEW e, NEW z, NEW l, NEW m, NEW s, NEW a, NEW d,
           Settled(n, e, z, l, m, s, a, d)
    PROVE  /\ z > 0 /\ e < n /\ n \in 1..n
           /\ (e + 1) - 1 = n - z
           /\ n - (e + 1) < s
           /\ n = e + 1 \/ a - d <= m
BY DEF Settled

\* What split_subtitle_content returns: full chunks and a last one that fits.
LEMMA SplitFacts ==
    ASSUME NEW tokens \in Seq(Nat) \ {<<>>}, NEW limit \in Limit, NEW total,
           IsTotal(total, tokens)
    PROVE  LET cut == Split(tokens, limit)
           IN  /\ cut \in Seq(1..Len(tokens)) /\ Len(cut) \in Nat \ {0}
               /\ LastOf(cut, Len(cut)) = Len(tokens)
               /\ Ordered(cut)
               /\ \A c \in 1..Len(cut) :
                    /\ Fits(FirstOf(cut, c), LastOf(cut, c), total, limit)
                    /\ \/ c = Len(cut)
                       \/ ~Fits(FirstOf(cut, c), LastOf(cut, c) + 1, total, limit)
<1> DEFINE n == Len(tokens)
           open == Packed(tokens, limit)
           e == EndOf(open.ends)
           d == total[n - open.size]
           cut == Append(open.ends, n)
           k == Len(open.ends)
<1>1. /\ n \in Nat \ {0} /\ n > 0
      /\ limit.tokens \in Nat /\ limit.segments \in Nat \ {0}
    <2>1. tokens \in Seq(Nat) /\ tokens # <<>>
        OBVIOUS
    <2>2. n \in Nat /\ n # 0
        BY <2>1, EmptySeq, LenProperties
    <2> QED BY <2>2 DEF Limit
<1>2. PackInv(open, n, tokens, total, limit)
    BY PackedInv
<1>3. /\ open.ends \in Seq(1..n) /\ open.load \in Nat /\ open.size \in Nat
      /\ open.size <= limit.segments
      /\ e + open.size = n
      /\ n > 0 => open.size > 0
      /\ open.load = total[n] - d
      /\ open.size > 1 => open.load <= limit.tokens
      /\ Ordered(open.ends) /\ Filled(open.ends, total, limit)
    BY <1>1, <1>2 DEF PackInv
<1>4. e \in 0..n
    <2>1. Len(open.ends) \in Nat /\ \A c \in 1..Len(open.ends) : open.ends[c] \in 1..n
        BY <1>3, LenProperties, ElementOfSeq
    <2> QED BY <2>1, <1>1 DEF EndOf
<1>5. e \in Nat /\ total[n] \in Nat /\ d \in Nat
    <2>1. n - open.size \in 0..n /\ n \in 0..n
        BY <1>1, <1>3, <1>4
    <2>2. total[n] \in Nat /\ d \in Nat
        BY <2>1, Zenon DEF IsTotal
    <2> HIDE DEF e, d
    <2> QED BY <2>2, <1>1, <1>4
<1> HIDE DEF e, d, n, open
<1>6. Settled(n, e, open.size, open.load, limit.tokens, limit.segments, total[n], d)
    BY <1>1, <1>3, <1>5 DEF Settled
<1>7. /\ open.size > 0 /\ e < n /\ n \in 1..n
      /\ (e + 1) - 1 = n - open.size
      /\ n - (e + 1) < limit.segments
      /\ n = e + 1 \/ total[n] - d <= limit.tokens
    BY <1>6, LastArithmetic
<1>8. Split(tokens, limit) = cut
    BY <1>7 DEF Split, open, n
<1>9. /\ cut \in Seq(1..n) /\ Len(cut) = k + 1 /\ k \in Nat
      /\ Ordered(cut) /\ EndOf(cut) = n
      /\ FirstOf(cut, k + 1) = e + 1 /\ LastOf(cut, k + 1) = n
      /\ \A c \in 1..k : /\ FirstOf(cut, c) = FirstOf(open.ends, c)
                         /\ LastOf(cut, c) = LastOf(open.ends, c)
    <2>1. n \in Nat /\ Ordered(open.ends) /\ EndOf(open.ends) < n
        BY <1>1, <1>3, <1>7, Zenon DEF e
    <2>2. open.ends \in Seq(1..n) /\ n \in 1..n
        BY <1>3, <1>7
    <2>3. /\ cut \in Seq(1..n) /\ Len(cut) = k + 1 /\ k \in Nat
          /\ Ordered(cut) /\ EndOf(cut) = n
          /\ FirstOf(cut, k + 1) = EndOf(open.ends) + 1 /\ LastOf(cut, k + 1) = n
          /\ \A c \in 1..k : /\ FirstOf(cut, c) = FirstOf(open.ends, c)
                             /\ LastOf(cut, c) = LastOf(open.ends, c)
        BY <2>1, <2>2, AppendChunk
    <2> QED BY <2>3, Zenon DEF e
<1> HIDE DEF cut, k
<1>10. Fits(e + 1, n, total, limit)
    <2>1. \A x : x = n - open.size => total[x] = d
        BY Zenon DEF d
    <2>2. total[n] - total[(e + 1) - 1] = total[n] - d
        BY <1>7, <2>1, Zenon
    <2> QED BY <1>7, <2>2, Zenon DEF Fits
<1>11. ASSUME NEW c \in 1..Len(cut)
       PROVE  /\ Fits(FirstOf(cut, c), LastOf(cut, c), total, limit)
              /\ c = Len(cut) \/ ~Fits(FirstOf(cut, c), LastOf(cut, c) + 1, total, limit)
    <2>1. c \in 1..k \/ c = k + 1
        BY <1>9
    <2>2. CASE c \in 1..k
        <3>1. /\ FirstOf(cut, c) = FirstOf(open.ends, c)
              /\ LastOf(cut, c) = LastOf(open.ends, c)
            BY <1>9, <2>2, Zenon
        <3> QED BY <3>1, <2>2, <1>3, Zenon DEF Filled, k
    <2>3. CASE c = k + 1
        BY <2>3, <1>9, <1>10, Zenon
    <2> QED BY <2>1, <2>2, <2>3
<1>12. Len(cut) \in Nat \ {0} /\ LastOf(cut, Len(cut)) = n
    BY <1>9
<1> QED BY <1>8, <1>9, <1>11, <1>12, Zenon DEF n

\* The chunks that split_subtitle_content returns for a file with segments are not
\* empty, follow each other, and cover the file: no segment is lost or in two chunks.
THEOREM SplitTiles ==
    ASSUME NEW tokens \in Seq(Nat) \ {<<>>}, NEW limit \in Limit
    PROVE  LET cut == Split(tokens, limit)
           IN  /\ cut \in Seq(1..Len(tokens)) /\ Len(cut) \in Nat \ {0}
               /\ \A c \in 1..Len(cut) : FirstOf(cut, c) \in 1..LastOf(cut, c)
               /\ LastOf(cut, Len(cut)) = Len(tokens)
               /\ \A i \in 1..Len(tokens) :
                    \E c \in 1..Len(cut) : i \in FirstOf(cut, c)..LastOf(cut, c)
<1> DEFINE n == Len(tokens)
           cut == Split(tokens, limit)
<1>1. PICK total : IsTotal(total, tokens)
    BY TotalExists
<1>2. /\ cut \in Seq(1..n) /\ Len(cut) \in Nat \ {0}
      /\ LastOf(cut, Len(cut)) = n
      /\ Ordered(cut)
    BY <1>1, SplitFacts
<1>3. n \in Nat
    BY LenProperties
<1> HIDE DEF cut, n
<1>4. \A c \in 1..Len(cut) :
        /\ cut[c] \in 1..n
        /\ c = 1 \/ (c - 1 \in 1..Len(cut) /\ c - 1 < c)
    <2>1. \A c \in 1..Len(cut) : cut[c] \in 1..n
        BY <1>2, ElementOfSeq
    <2>2. \A c \in 1..Len(cut) : c = 1 \/ (c - 1 \in 1..Len(cut) /\ c - 1 < c)
        BY <1>2
    <2> QED BY <2>1, <2>2
<1>5. \A c \in 1..Len(cut) : FirstOf(cut, c) \in 1..LastOf(cut, c)
    <2> SUFFICES ASSUME NEW c \in 1..Len(cut)
                 PROVE  FirstOf(cut, c) \in 1..LastOf(cut, c)
        OBVIOUS
    <2>1. FirstOf(cut, c) \in Nat \ {0}
        <3>1. CASE c = 1
            BY <3>1 DEF FirstOf
        <3>2. CASE c # 1
            <4>1. c - 1 \in 1..Len(cut)
                BY <3>2, <1>4
            <4>2. cut[c - 1] \in 1..n
                BY <4>1, <1>4
            <4> QED BY <4>2, <3>2, <1>3 DEF FirstOf
        <3> QED BY <3>1, <3>2
    <2>2. LastOf(cut, c) \in Nat
        BY <1>3, <1>4 DEF LastOf
    <2>3. FirstOf(cut, c) <= LastOf(cut, c)
        BY <1>2 DEF Ordered
    <2> QED BY <2>1, <2>2, <2>3
<1>6. ASSUME NEW i \in 1..n
      PROVE  \E c \in 1..Len(cut) : i \in FirstOf(cut, c)..LastOf(cut, c)
    <2> DEFINE T == {c \in 1..Len(cut) : i <= cut[c]}
    <2>1. Len(cut) \in T
        BY <1>2, <1>3 DEF LastOf
    <2>2. T \in SUBSET Nat /\ T # {}
        BY <2>1
    <2>3. PICK c \in T : \A b \in T : c <= b
        BY <2>2, LeastNumber
    <2>4. FirstOf(cut, c) <= i
        <3>1. CASE c = 1
            BY <3>1 DEF FirstOf
        <3>2. CASE c # 1
            <4>1. c - 1 \in 1..Len(cut) /\ ~(c <= c - 1)
                BY <3>2, <2>3, <1>4
            <4>2. ~(i <= cut[c - 1])
                BY <4>1, <2>3
            <4>3. cut[c - 1] \in 1..n
                BY <4>1, <1>4
            <4>4. cut[c - 1] + 1 <= i
                BY <4>2, <4>3, <1>3
            <4> QED BY <4>4, <3>2 DEF FirstOf
        <3> QED BY <3>1, <3>2
    <2>5. FirstOf(cut, c) \in 1..LastOf(cut, c) /\ LastOf(cut, c) \in Nat
        BY <1>3, <1>4, <1>5, <2>3 DEF LastOf
    <2>6. i <= LastOf(cut, c)
        BY <2>3 DEF LastOf
    <2>7. i \in FirstOf(cut, c)..LastOf(cut, c)
        BY <2>4, <2>5, <2>6
    <2> QED BY <2>3, <2>7
<1> QED BY <1>2, <1>5, <1>6 DEF cut, n

\* split_subtitle_content closes a chunk only when it must: each chunk keeps to the
\* limits, unless it is one segment that is too long itself, and no chunk but the last
\* would keep to them with the segment that follows it.
THEOREM ChunksFill ==
    ASSUME NEW tokens \in Seq(Nat) \ {<<>>}, NEW limit \in Limit, NEW total,
           IsTotal(total, tokens), NEW c \in 1..Len(Split(tokens, limit))
    PROVE  LET cut == Split(tokens, limit)
           IN  /\ Fits(FirstOf(cut, c), LastOf(cut, c), total, limit)
               /\ \/ c = Len(cut)
                  \/ ~Fits(FirstOf(cut, c), LastOf(cut, c) + 1, total, limit)
BY SplitFacts

-----------------------------------------------------------------------------
(* One file from all the chunks *)

\* The order of the merged file: by index, and as they came if that is the same.
Precedes(segments, j, k) ==
    \/ segments[j].index < segments[k].index
    \/ segments[j].index = segments[k].index /\ j < k

Predecessors(segments, k) == {j \in 1..Len(segments) : Precedes(segments, j, k)}

LEMMA NumbersAreOrdered ==
    ASSUME NEW x \in Nat, NEW y \in Nat
    PROVE  /\ ~(x < x)
           /\ x = y \/ x < y \/ y < x
OBVIOUS

LEMMA LessIsTransitive ==
    ASSUME NEW x \in Nat, NEW y \in Nat, NEW z \in Nat, x < y, y < z
    PROVE  x < z
OBVIOUS

LEMMA PrecedesIsOrder ==
    ASSUME NEW segments, Len(segments) \in Nat,
           \A k \in 1..Len(segments) : segments[k].index \in Nat
    PROVE  \A i, j, k \in 1..Len(segments) :
            /\ ~Precedes(segments, i, i)
            /\ Precedes(segments, i, j) /\ Precedes(segments, j, k)
                => Precedes(segments, i, k)
            /\ i = j \/ Precedes(segments, i, j) \/ Precedes(segments, j, i)
<1> SUFFICES ASSUME NEW i \in 1..Len(segments), NEW j \in 1..Len(segments),
                    NEW k \in 1..Len(segments)
             PROVE  /\ ~Precedes(segments, i, i)
                    /\ Precedes(segments, i, j) /\ Precedes(segments, j, k)
                        => Precedes(segments, i, k)
                    /\ i = j \/ Precedes(segments, i, j) \/ Precedes(segments, j, i)
    OBVIOUS
<1>1. /\ segments[i].index \in Nat /\ segments[j].index \in Nat
      /\ segments[k].index \in Nat /\ i \in Nat /\ j \in Nat /\ k \in Nat
    OBVIOUS
<1>2. ~Precedes(segments, i, i)
    <2>1. ~(segments[i].index < segments[i].index) /\ ~(i < i)
        BY <1>1, NumbersAreOrdered, Zenon
    <2> QED BY <2>1, Zenon DEF Precedes
<1>3. Precedes(segments, i, j) /\ Precedes(segments, j, k) => Precedes(segments, i, k)
    <2>1. /\ segments[i].index < segments[j].index
          /\ segments[j].index < segments[k].index
          => segments[i].index < segments[k].index
        BY <1>1, LessIsTransitive, Zenon
    <2>2. i < j /\ j < k => i < k
        BY <1>1, LessIsTransitive, Zenon
    <2> QED BY <2>1, <2>2, Zenon DEF Precedes
<1>4. i = j \/ Precedes(segments, i, j) \/ Precedes(segments, j, i)
    <2>1. \/ segments[i].index = segments[j].index
          \/ segments[i].index < segments[j].index
          \/ segments[j].index < segments[i].index
        BY <1>1, NumbersAreOrdered, Zenon
    <2>2. i = j \/ i < j \/ j < i
        BY <1>1, NumbersAreOrdered, Zenon
    <2> QED BY <2>1, <2>2, Zenon DEF Precedes
<1> QED BY <1>2, <1>3, <1>4

\* A segment gets a place of the file, and a later one than those before it.
LEMMA RankFollowsOrder ==
    ASSUME NEW segments, Len(segments) \in Nat,
           \A k \in 1..Len(segments) : segments[k].index \in Nat
    PROVE  \A k \in 1..Len(segments) :
            /\ Rank(segments, k) \in 1..Len(segments)
            /\ \A j \in 1..Len(segments) :
                Precedes(segments, j, k) => Rank(segments, j) < Rank(segments, k)
<1> DEFINE n == Len(segments)
<1>1. IsFiniteSet(1..n) /\ Cardinality(1..n) = n
    <2>1. 1 \in Int /\ n \in Int /\ (IF 1 > n THEN 0 ELSE n - 1 + 1) = n
        OBVIOUS
    <2> HIDE DEF n
    <2> QED BY <2>1, FS_Interval
<1>2. \A k \in 1..n : /\ Predecessors(segments, k) \in SUBSET (1..n)
                      /\ IsFiniteSet(Predecessors(segments, k))
                      /\ Cardinality(Predecessors(segments, k)) \in Nat
                      /\ k \notin Predecessors(segments, k)
                      /\ Rank(segments, k) = 1 + Cardinality(Predecessors(segments, k))
    <2> SUFFICES ASSUME NEW k \in 1..n
                 PROVE  /\ Predecessors(segments, k) \in SUBSET (1..n)
                        /\ IsFiniteSet(Predecessors(segments, k))
                        /\ Cardinality(Predecessors(segments, k)) \in Nat
                        /\ k \notin Predecessors(segments, k)
                        /\ Rank(segments, k) = 1 + Cardinality(Predecessors(segments, k))
        OBVIOUS
    <2>1. Predecessors(segments, k) \in SUBSET (1..n)
        BY DEF Predecessors
    <2>2. IsFiniteSet(Predecessors(segments, k))
        BY <1>1, <2>1, FS_Subset
    <2>3. k \notin Predecessors(segments, k)
        BY PrecedesIsOrder DEF Predecessors
    <2>4. Rank(segments, k) = 1 + Cardinality(Predecessors(segments, k))
        BY Zenon DEF Rank, Predecessors, Precedes
    <2> QED BY <2>1, <2>2, <2>3, <2>4, FS_CardinalityType
<1> SUFFICES ASSUME NEW k \in 1..n
             PROVE  /\ Rank(segments, k) \in 1..n
                    /\ \A j \in 1..n :
                        Precedes(segments, j, k) => Rank(segments, j) < Rank(segments, k)
    OBVIOUS
<1> DEFINE P == Predecessors(segments, k)
<1>3. Cardinality(P \cup {k}) = Cardinality(P) + 1
    BY <1>2, FS_AddElement
<1>4. Cardinality(P \cup {k}) <= n
    <2>1. P \cup {k} \in SUBSET (1..n)
        BY <1>2
    <2> QED BY <2>1, <1>1, FS_Subset
<1>5. Rank(segments, k) \in 1..n
    BY <1>2, <1>3, <1>4
<1>6. ASSUME NEW j \in 1..n, Precedes(segments, j, k)
      PROVE  Rank(segments, j) < Rank(segments, k)
    <2> DEFINE Q == Predecessors(segments, j)
    <2>1. Q \cup {j} \in SUBSET P
        BY <1>6, PrecedesIsOrder DEF Predecessors
    <2>2. Cardinality(Q \cup {j}) = Cardinality(Q) + 1
        BY <1>2, FS_AddElement
    <2>3. Cardinality(Q \cup {j}) <= Cardinality(P)
        BY <1>2, <2>1, FS_Subset
    <2>4. /\ Cardinality(Q) \in Nat /\ Cardinality(P) \in Nat
          /\ Rank(segments, j) = 1 + Cardinality(Q)
          /\ Rank(segments, k) = 1 + Cardinality(P)
        BY <1>2
    <2> HIDE DEF P, Q
    <2> QED BY <2>2, <2>3, <2>4
<1> QED BY <1>5, <1>6

\* merge_translated_chunks loses no segment and gives none twice: each segment has a
\* place of its own in the merged file, which is also the number it gets there, and
\* keeps its time codes and text. The places follow the numbers the segments came
\* with; those that came with the same number stay in the order they had.
THEOREM MergeSorts ==
    ASSUME NEW segments, Len(segments) \in Nat,
           \A k \in 1..Len(segments) : segments[k].index \in Nat
    PROVE  \E place \in Bijection(1..Len(segments), 1..Len(segments)) :
            /\ \A k \in 1..Len(segments) :
                MergeTranslatedChunks(segments)[place[k]] =
                    [segments[k] EXCEPT !.index = place[k]]
            /\ \A j, k \in 1..Len(segments) :
                Precedes(segments, j, k) => place[j] < place[k]
<1> DEFINE n == Len(segments)
           place == [k \in 1..n |-> Rank(segments, k)]
<1>1. place \in [1..n -> 1..n]
    BY RankFollowsOrder
<1>2. \A j, k \in 1..n : Precedes(segments, j, k) => place[j] < place[k]
    BY RankFollowsOrder
<1>3. \A j, k \in 1..n : place[j] = place[k] => j = k
    <2> SUFFICES ASSUME NEW j \in 1..n, NEW k \in 1..n, place[j] = place[k]
                 PROVE  j = k
        OBVIOUS
    <2>1. place[j] \in Nat /\ place[k] \in Nat
        BY <1>1
    <2>2. ~(place[j] < place[k]) /\ ~(place[k] < place[j])
        BY <2>1
    <2>3. ~Precedes(segments, j, k) /\ ~Precedes(segments, k, j)
        BY <1>2, <2>2
    <2> QED BY <2>3, PrecedesIsOrder
<1>4. \A k \in 1..n : Rank(segments, k) = place[k]
    OBVIOUS
<1> HIDE DEF place
<1>5. place \in Injection(1..n, 1..n)
    BY <1>1, <1>3 DEF Injection, IsInjective
<1>6. place \in Bijection(1..n, 1..n)
    <2>1. IsFiniteSet(1..n)
        BY FS_Interval
    <2>2. place \in Surjection(1..n, 1..n)
        BY <1>5, <2>1, FS_Injection
    <2> QED BY <1>5, <2>2 DEF Bijection
<1>7. ASSUME NEW k \in 1..n
      PROVE  MergeTranslatedChunks(segments)[place[k]] =
                [segments[k] EXCEPT !.index = place[k]]
    <2> DEFINE m == place[k]
               c == CHOOSE j \in 1..n : Rank(segments, j) = m
    <2>1. m \in 1..n
        BY <1>1
    <2>2. c \in 1..n /\ Rank(segments, c) = m
        BY <1>4, <1>7
    <2>3. c = k
        BY <2>2, <1>3, <1>4, <1>7
    <2> HIDE DEF m, c
    <2>4. MergeTranslatedChunks(segments)[m] = [segments[c] EXCEPT !.index = m]
        BY <2>1 DEF MergeTranslatedChunks, c
    <2> QED BY <2>3, <2>4 DEF m
<1> QED BY <1>2, <1>6, <1>7
=================================================================================
