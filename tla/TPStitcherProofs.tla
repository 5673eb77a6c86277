-------------------------- MODULE TPStitcherProofs --------------------------
(***************************************************************************)
(* Proofs about TPStitcher, for any channels, times, runs and bounds.      *)
(*                                                                         *)
(* Every iteration of the loop of tp_stitch does the same thing: the hits  *)
(* of the TP that was kept for the channel, and the current hit, are dealt *)
(* out to the TPs handed over and to the one kept from now on, in order.   *)
(* Lemma DealStep shows that such a step keeps the invariant SInv; the     *)
(* five cases of the code are instances of it.  The second part, from      *)
(* Quotient on, is about what the times decide: TimeInv and LastInv say    *)
(* how the kept TP and m_T are related to the last hit of a channel.       *)
(***************************************************************************)
EXTENDS TPStitcher, SequenceTheorems, TLAPS

Entry == [tp : TP, channel : Channels, run : Nat]

(* Whose the hits of a TP are.                                             *)
Owned(parts, c) == \A p \in parts : p \in DOMAIN hits /\ hits[p].channel = c

(* Every hit is somewhere, and only TPs of its channel have it.            *)
PlaceInv ==
  /\ \A c \in Channels : Owned(m_A[c].parts, c)
  /\ \A i \in DOMAIN handed : Owned(handed[i].tp.parts, handed[i].channel)
  /\ \A p \in DOMAIN hits :
       \/ p \in m_A[hits[p].channel].parts
       \/ \E i \in DOMAIN handed : p \in handed[i].tp.parts

SInv == TypeOK /\ PlaceInv /\ HandedInOrder

----------------------------------------------------------------------------
(* TimeStart of a hit is a natural number.                                 *)
LEMMA RoundType == ASSUME NEW t \in Nat PROVE Round(t) \in Nat
<1> DEFINE q == t \div Ulp
<1>1. Ulp \in Nat /\ Ulp > 0
  BY StitcherAssumption
<1>2. q \in Nat
  BY <1>1
<1>3. q * Ulp \in Nat /\ (q + 1) * Ulp \in Nat
  BY <1>1, <1>2
<1> HIDE DEF q
<1>4. Round(t) = q * Ulp \/ Round(t) = (q + 1) * Ulp
  BY DEF Round, q
<1> QED
  BY <1>3, <1>4

LEMMA TimeStartType == ASSUME NEW hit \in Hit PROVE TimeStart(hit) \in Nat
<1>1. hit.timestamp \in Nat /\ hit.start \in Nat
  <2>1. hit.timestamp \in Timestamps /\ hit.start \in Ticks
    BY DEF Hit
  <2>2. hit.timestamp \in Nat
    BY <2>1, StitcherAssumption
  <2>3. hit.start \in Nat
    BY <2>1 DEF Ticks
  <2> QED
    BY <2>2, <2>3
<1>2. Round(hit.timestamp) \in Nat
  BY <1>1, RoundType
<1>3. hit.start * TickLength \in Nat
  BY <1>1, StitcherAssumption
<1>4. Round(hit.timestamp) + hit.start * TickLength \in Nat
  BY <1>2, <1>3
<1> QED
  BY <1>4, RoundType DEF TimeStart

(* The hits a frame may hold are hits.                                     *)
LEMMA HitsOfFrameType ==
  ASSUME TypeOK, frame.tick <= LastTick, NEW hit \in HitsOfFrame
  PROVE  hit \in Hit /\ hit.run = run
<1>1. frame # NoFrame
  BY StitcherAssumption DEF NoFrame
<1>2. frame \in [channel : Channels, timestamp : Timestamps, tick : Nat]
  BY <1>1 DEF TypeOK
<1>3. /\ frame.channel \in Channels /\ frame.timestamp \in Timestamps
      /\ frame.tick .. LastTick \subseteq Ticks
      /\ run \in Nat
  BY <1>2, StitcherAssumption DEF Ticks, TypeOK
<1>4. hit \in [channel : {frame.channel}, timestamp : {frame.timestamp},
               start : frame.tick .. LastTick, end : frame.tick .. LastTick,
               continue : BOOLEAN, peak : Peaks, run : {run}]
  BY DEF HitsOfFrame
<1> QED
  BY <1>3, <1>4 DEF Hit

(* What the loop makes of the hit: a TP of its own, or the kept TP with it *)
(* added.                                                                  *)
LEMMA SingleFacts ==
  ASSUME TypeOK, NEW hit \in Hit
  PROVE  Single(hit) \in TP /\ Single(hit).parts = {Len(hits) + 1}
<1>1. Len(hits) + 1 \in Nat
  BY DEF TypeOK
<1>2. hit.peak \in Peaks /\ TimeStart(hit) \in Nat
  BY TimeStartType DEF Hit
<1> QED
  BY <1>1, <1>2 DEF Single, TP

LEMMA MergedFacts ==
  ASSUME TypeOK, NEW hit \in Hit, m_A[hit.channel] # NoTP
  PROVE  /\ Merged(hit) \in TP
         /\ Merged(hit).parts = m_A[hit.channel].parts \cup {Len(hits) + 1}
<1>1. Len(hits) + 1 \in Nat
  BY DEF TypeOK
<1>2. hit.channel \in Channels /\ hit.peak \in Peaks
  BY DEF Hit
<1>3. m_A[hit.channel] \in TP
  BY <1>2 DEF TypeOK
<1> QED
  BY <1>1, <1>2, <1>3 DEF Merged, TP

LEMMA HandedType == ASSUME TypeOK PROVE handed \in Seq(Entry)
BY DEF TypeOK, Entry

(* The TPs that are handed over come after those handed over before.       *)
LEMMA HandFacts ==
  ASSUME TypeOK, NEW c \in Channels, NEW tps \in Seq(TP), Hand(c, tps)
  PROVE  /\ handed' \in Seq(Entry)
         /\ Len(handed) \in Nat /\ Len(tps) \in Nat
         /\ DOMAIN handed = 1 .. Len(handed) /\ DOMAIN tps = 1 .. Len(tps)
         /\ DOMAIN handed' = 1 .. Len(handed) + Len(tps)
         /\ \A i \in DOMAIN handed : handed'[i] = handed[i]
         /\ \A k \in DOMAIN tps :
              /\ handed'[Len(handed) + k].tp = tps[k]
              /\ handed'[Len(handed) + k].channel = c
              /\ handed'[Len(handed) + k].run = run
<1> DEFINE new == [i \in DOMAIN tps |-> [tp |-> tps[i], channel |-> c, run |-> run]]
<1>1. run \in Nat
  BY StitcherAssumption DEF TypeOK
<1>2. /\ Len(tps) \in Nat /\ DOMAIN tps = 1 .. Len(tps)
      /\ \A k \in DOMAIN tps : tps[k] \in TP
  OBVIOUS
<1>3. \A k \in DOMAIN tps : [tp |-> tps[k], channel |-> c, run |-> run] \in Entry
  BY <1>1, <1>2 DEF Entry
<1>4. new \in Seq(Entry) /\ Len(new) = Len(tps)
  BY <1>2, <1>3
<1>5. handed \in Seq(Entry)
  BY HandedType
<1>6. handed' = handed \o new
  BY DEF Hand
<1>7. \A k \in DOMAIN tps : new[k] = [tp |-> tps[k], channel |-> c, run |-> run]
  OBVIOUS
<1> HIDE DEF new
<1>8. /\ handed' \in Seq(Entry) /\ Len(handed) \in Nat
      /\ DOMAIN handed = 1 .. Len(handed)
      /\ Len(handed') = Len(handed) + Len(tps)
  <2>1. Len(handed) \in Nat /\ DOMAIN handed = 1 .. Len(handed)
    BY <1>5
  <2>2. handed \o new \in Seq(Entry)
    BY <1>4, <1>5
  <2>3. Len(handed \o new) = Len(handed) + Len(new)
    BY <1>4, <1>5
  <2> QED
    BY <1>4, <1>6, <2>1, <2>2, <2>3
<1>9. DOMAIN handed' = 1 .. Len(handed) + Len(tps)
  BY <1>8
<1>10. \A i \in DOMAIN handed : handed'[i] = handed[i]
  BY <1>4, <1>5, <1>6
<1>11. \A k \in DOMAIN tps : handed'[Len(handed) + k] = new[k]
  <2> SUFFICES ASSUME NEW k \in 1 .. Len(tps)
               PROVE  handed'[Len(handed) + k] = new[k]
    BY <1>2
  <2>1. /\ Len(handed) + k \in 1 .. Len(handed) + Len(new)
        /\ Len(handed) + k > Len(handed)
        /\ Len(handed) + k - Len(handed) = k
    BY <1>2, <1>4, <1>8
  <2> QED
    BY <1>4, <1>5, <1>6, <2>1
<1>12. \A k \in DOMAIN tps :
         handed'[Len(handed) + k] = [tp |-> tps[k], channel |-> c, run |-> run]
  BY <1>7, <1>11
<1>13. \A k \in DOMAIN tps :
         /\ handed'[Len(handed) + k].tp = tps[k]
         /\ handed'[Len(handed) + k].channel = c
         /\ handed'[Len(handed) + k].run = run
  <2> SUFFICES ASSUME NEW k \in DOMAIN tps
               PROVE  /\ handed'[Len(handed) + k].tp = tps[k]
                      /\ handed'[Len(handed) + k].channel = c
                      /\ handed'[Len(handed) + k].run = run
    OBVIOUS
  <2> DEFINE e == handed'[Len(handed) + k]
  <2>1. e = [tp |-> tps[k], channel |-> c, run |-> run]
    BY <1>12
  <2> HIDE DEF e
  <2>2. e.tp = tps[k] /\ e.channel = c /\ e.run = run
    BY <2>1
  <2> QED
    BY <2>2 DEF e
<1> QED
  BY <1>2, <1>8, <1>9, <1>10, <1>13

(* The current hit becomes the last one.                                   *)
LEMMA HitFacts ==
  ASSUME TypeOK, NEW hit \in Hit, NextHit(hit)
  PROVE  /\ hits' \in Seq(Hit)
         /\ Len(hits) \in Nat /\ DOMAIN hits = 1 .. Len(hits)
         /\ DOMAIN hits' = 1 .. Len(hits) + 1
         /\ \A i \in DOMAIN hits : hits'[i] = hits[i]
         /\ hits'[Len(hits) + 1] = hit
<1>1. hits \in Seq(Hit)
  BY DEF TypeOK
<1>2. hits' = Append(hits, hit)
  BY DEF NextHit
<1> QED
  BY <1>1, <1>2

(* How an iteration deals out the hits of the kept TP and the current hit: *)
(* to the TPs it hands over, tps, and the one it keeps, in order.          *)
Deal(hit, tps, kept) ==
  LET old == m_A[hit.channel].parts
      n   == Len(hits) + 1
  IN  /\ Hand(hit.channel, tps)
      /\ m_A' = [m_A EXCEPT ![hit.channel] = kept]
      /\ NextHit(hit)
      /\ \A k \in DOMAIN tps : tps[k].parts \subseteq old \cup {n}
      /\ kept.parts \subseteq old \cup {n}
      /\ \A p \in old \cup {n} :
           p \in kept.parts \/ \E k \in DOMAIN tps : p \in tps[k].parts
      /\ \A i, j \in DOMAIN tps :
           i < j => \A p \in tps[i].parts, q \in tps[j].parts : p < q
      /\ \A i \in DOMAIN tps : \A p \in tps[i].parts, q \in kept.parts : p < q
      /\ \A k \in DOMAIN tps :
           kept.parts \subseteq {n} /\ (k # 1 => tps[k].parts \subseteq {n})

LEMMA DealStep ==
  ASSUME SInv, NEW hit \in Hit, NEW tps \in Seq(TP),
         NEW kept, Deal(hit, tps, kept)
  PROVE  PlaceInv' /\ HandedInOrder'
<1> DEFINE c == hit.channel
           n == Len(hits) + 1
           m == Len(handed)
<1>1. c \in Channels /\ TypeOK
  BY DEF Hit, SInv
<1>2. /\ handed' \in Seq(Entry)
      /\ m \in Nat /\ Len(tps) \in Nat
      /\ DOMAIN handed = 1 .. m /\ DOMAIN tps = 1 .. Len(tps)
      /\ DOMAIN handed' = 1 .. m + Len(tps)
      /\ \A i \in DOMAIN handed : handed'[i] = handed[i]
      /\ \A k \in DOMAIN tps :
           /\ handed'[m + k].tp = tps[k]
           /\ handed'[m + k].channel = c
  BY <1>1, HandFacts DEF Deal
<1>3. /\ n \in Nat /\ DOMAIN hits = 1 .. n - 1 /\ DOMAIN hits' = 1 .. n
      /\ \A i \in DOMAIN hits : hits'[i] = hits[i]
      /\ hits'[n] = hit
  BY <1>1, HitFacts DEF Deal
<1>4. /\ \A d \in Channels : d # c => m_A'[d] = m_A[d]
      /\ m_A'[c] = kept
  BY <1>1 DEF Deal, TypeOK
<1> DEFINE old == m_A[c].parts
<1>5. /\ \A k \in DOMAIN tps : tps[k].parts \subseteq old \cup {n}
      /\ kept.parts \subseteq old \cup {n}
      /\ \A p \in old \cup {n} :
           p \in kept.parts \/ \E k \in DOMAIN tps : p \in tps[k].parts
      /\ \A i, j \in DOMAIN tps :
           i < j => \A p \in tps[i].parts, q \in tps[j].parts : p < q
      /\ \A i \in DOMAIN tps : \A p \in tps[i].parts, q \in kept.parts : p < q
  BY DEF Deal
<1>6. \A p \in old \cup {n} : p \in DOMAIN hits' /\ hits'[p].channel = c
  BY <1>1, <1>3 DEF SInv, PlaceInv, Owned
<1> HIDE DEF c, n, m, old
(* An entry of handed is an old one or one of tps.                         *)
<1>7. ASSUME NEW i \in DOMAIN handed'
      PROVE  \/ i \in DOMAIN handed /\ handed'[i] = handed[i]
             \/ \E k \in DOMAIN tps :
                  /\ i = m + k /\ i \notin DOMAIN handed
                  /\ handed'[i].tp = tps[k] /\ handed'[i].channel = c
  <2>1. CASE i <= m
    BY <1>2, <2>1
  <2>2. CASE i > m
    <3>1. i - m \in DOMAIN tps /\ i = m + (i - m)
      BY <1>2, <2>2
    <3> QED
      BY <1>2, <2>2, <3>1
  <2> QED
    BY <1>2, <2>1, <2>2
<1>8. PlaceInv'
  <2>1. ASSUME NEW d \in Channels
        PROVE  \A p \in m_A'[d].parts : p \in DOMAIN hits' /\ hits'[p].channel = d
    <3>1. CASE d = c
      BY <1>4, <1>5, <1>6, <3>1
    <3>2. CASE d # c
      BY <1>3, <1>4, <3>2 DEF SInv, PlaceInv, Owned
    <3> QED
      BY <3>1, <3>2
  <2>2. ASSUME NEW i \in DOMAIN handed'
        PROVE  \A p \in handed'[i].tp.parts :
                 p \in DOMAIN hits' /\ hits'[p].channel = handed'[i].channel
    <3>1. CASE i \in DOMAIN handed /\ handed'[i] = handed[i]
      BY <1>3, <3>1 DEF SInv, PlaceInv, Owned
    <3>2. ASSUME NEW k \in DOMAIN tps,
                 handed'[i].tp = tps[k], handed'[i].channel = c
          PROVE  \A p \in handed'[i].tp.parts :
                   p \in DOMAIN hits' /\ hits'[p].channel = handed'[i].channel
      BY <1>5, <1>6, <3>2
    <3> QED
      BY <1>7, <3>1, <3>2
  <2>3. ASSUME NEW p \in DOMAIN hits'
        PROVE  \/ p \in m_A'[hits'[p].channel].parts
               \/ \E i \in DOMAIN handed' : p \in handed'[i].tp.parts
    <3>1. CASE p \in old \cup {n}
      <4>1. CASE p \in kept.parts
        BY <1>4, <1>6, <3>1, <4>1
      <4>2. ASSUME NEW k \in DOMAIN tps, p \in tps[k].parts
            PROVE  \E i \in DOMAIN handed' : p \in handed'[i].tp.parts
        <5>1. m + k \in DOMAIN handed'
          BY <1>2
        <5> QED
          BY <1>2, <4>2, <5>1
      <4> QED
        BY <1>5, <3>1, <4>1, <4>2
    <3>2. CASE p \notin old \cup {n}
      <4>1. p \in DOMAIN hits /\ hits'[p] = hits[p]
        BY <1>3, <3>2
      <4>2. hits[p].channel \in Channels
        <5>1. hits[p] \in Hit
          BY <1>1, <4>1 DEF TypeOK
        <5> QED
          BY <5>1 DEF Hit
      <4>3. CASE p \in m_A[hits[p].channel].parts
        BY <1>4, <3>2, <4>1, <4>2, <4>3 DEF old
      <4>4. ASSUME NEW i \in DOMAIN handed, p \in handed[i].tp.parts
            PROVE  \E k \in DOMAIN handed' : p \in handed'[k].tp.parts
        <5>1. i \in DOMAIN handed'
          BY <1>2
        <5> QED
          BY <1>2, <4>4, <5>1
      <4> QED
        BY <4>1, <4>3, <4>4 DEF SInv, PlaceInv
    <3> QED
      BY <3>1, <3>2
  <2> QED
    BY <2>1, <2>2, <2>3 DEF PlaceInv, Owned
(* What was handed over before precedes the kept TP and the current hit.   *)
<1>9. \A i \in DOMAIN handed : handed[i].channel = c =>
        \A p \in handed[i].tp.parts, q \in old \cup {n} : p < q
  BY <1>1, <1>3 DEF SInv, PlaceInv, Owned, HandedInOrder, old
<1>10. HandedInOrder'
  <2>1. ASSUME NEW i \in DOMAIN handed', NEW j \in DOMAIN handed', i < j,
               handed'[i].channel = handed'[j].channel
        PROVE  \A p \in handed'[i].tp.parts, q \in handed'[j].tp.parts : p < q
    <3>1. CASE j \in DOMAIN handed
      <4>1. i \in DOMAIN handed
        BY <1>2, <2>1, <3>1
      <4> QED
        BY <1>2, <2>1, <3>1, <4>1 DEF SInv, HandedInOrder
    <3>2. ASSUME NEW k \in DOMAIN tps, j = m + k,
                 handed'[j].tp = tps[k], handed'[j].channel = c
          PROVE  \A p \in handed'[i].tp.parts, q \in handed'[j].tp.parts : p < q
      <4>1. CASE i \in DOMAIN handed
        BY <1>2, <1>5, <1>9, <2>1, <3>2, <4>1
      <4>2. ASSUME NEW l \in DOMAIN tps, i = m + l, handed'[i].tp = tps[l]
            PROVE  \A p \in handed'[i].tp.parts, q \in handed'[j].tp.parts : p < q
        <5>1. l < k
          BY <1>2, <2>1, <3>2, <4>2
        <5> QED
          BY <1>5, <3>2, <4>2, <5>1
      <4> QED
        BY <1>7, <4>1, <4>2
    <3> QED
      BY <1>7, <3>1, <3>2
  <2>2. ASSUME NEW i \in DOMAIN handed'
        PROVE  \A p \in handed'[i].tp.parts, q \in m_A'[handed'[i].channel].parts :
                 p < q
    <3>1. CASE i \in DOMAIN handed /\ handed'[i] = handed[i]
      <4>1. handed[i].channel \in Channels
        <5>1. handed[i] \in Entry
          BY <1>1, <3>1, HandedType
        <5> QED
          BY <5>1 DEF Entry
      <4>2. CASE handed[i].channel = c
        BY <1>4, <1>5, <1>9, <3>1, <4>2
      <4>3. CASE handed[i].channel # c
        BY <1>4, <3>1, <4>1, <4>3 DEF SInv, HandedInOrder
      <4> QED
        BY <4>2, <4>3
    <3>2. ASSUME NEW k \in DOMAIN tps,
                 handed'[i].tp = tps[k], handed'[i].channel = c
          PROVE  \A p \in handed'[i].tp.parts,
                    q \in m_A'[handed'[i].channel].parts : p < q
      BY <1>4, <1>5, <3>2
    <3> QED
      BY <1>7, <3>1, <3>2
  <2> QED
    BY <2>1, <2>2 DEF HandedInOrder
<1> QED
  BY <1>8, <1>10

----------------------------------------------------------------------------
(* The cases of the loop body are dealings.                                *)
LEMMA KeptFacts ==
  ASSUME TypeOK, NEW c \in Channels
  PROVE  /\ m_A[c] = NoTP => Kept(c) = <<>> /\ m_A[c].parts = {}
         /\ m_A[c] # NoTP => m_A[c] \in TP /\ Kept(c) = <<m_A[c]>>
BY DEF TypeOK, Kept, NoTP

(* Hits of the kept TP came before the current one.                        *)
LEMMA KeptBefore ==
  ASSUME SInv, NEW c \in Channels
  PROVE  Len(hits) \in Nat /\ \A p \in m_A[c].parts : p \in Nat /\ p < Len(hits) + 1
<1>1. Len(hits) \in Nat /\ DOMAIN hits = 1 .. Len(hits)
  BY DEF SInv, TypeOK
<1>2. \A p \in m_A[c].parts : p \in DOMAIN hits
  BY DEF SInv, PlaceInv, Owned
<1> QED
  BY <1>1, <1>2

LEMMA CompletesDeal ==
  ASSUME SInv, NEW hit \in Hit, CompletesTP(hit) \/ EndsBadly(hit)
  PROVE  <<Merged(hit)>> \in Seq(TP) /\ Deal(hit, <<Merged(hit)>>, NoTP)
<1> DEFINE c == hit.channel
           n == Len(hits) + 1
           tps == <<Merged(hit)>>
<1>1. /\ m_A[c] # NoTP /\ Hand(c, tps) /\ NextHit(hit)
      /\ m_A' = [m_A EXCEPT ![c] = NoTP]
  BY DEF CompletesTP, EndsBadly, Continues, Clear
<1>2. Merged(hit) \in TP /\ Merged(hit).parts = m_A[c].parts \cup {n}
  BY <1>1, MergedFacts DEF SInv
<1>3. /\ tps \in Seq(TP) /\ DOMAIN tps = {1}
      /\ tps[1].parts = m_A[c].parts \cup {n}
  BY <1>2
<1>4. NoTP.parts = {}
  BY DEF NoTP
<1> HIDE DEF c, n, tps
<1>5. Deal(hit, tps, NoTP)
  BY <1>1, <1>3, <1>4 DEF Deal, c, n
<1> QED
  BY <1>3, <1>5 DEF tps

LEMMA ExtendsDeal ==
  ASSUME SInv, NEW hit \in Hit, ExtendsTP(hit)
  PROVE  Deal(hit, <<>>, Merged(hit))
<1> DEFINE c == hit.channel
           n == Len(hits) + 1
<1>1. /\ m_A[c] # NoTP /\ handed' = handed /\ NextHit(hit)
      /\ m_A' = [m_A EXCEPT ![c] = Merged(hit)]
  BY DEF ExtendsTP, Continues, Keep
<1>2. Merged(hit).parts = m_A[c].parts \cup {n}
  BY <1>1, MergedFacts DEF SInv
<1>3. Hand(c, <<>>)
  <2>1. [i \in DOMAIN <<>> |-> [tp |-> <<>>[i], channel |-> c, run |-> run]] = <<>>
    OBVIOUS
  <2>2. handed \in Seq(Entry)
    BY HandedType DEF SInv
  <2>3. handed \o <<>> = handed
    BY <2>2
  <2> QED
    BY <1>1, <2>1, <2>3 DEF Hand
<1>4. DOMAIN <<>> = {}
  OBVIOUS
<1> HIDE DEF c, n
<1> QED
  BY <1>1, <1>2, <1>3, <1>4 DEF Deal, c, n

LEMMA Concatenate ==
  ASSUME NEW S, NEW a \in S, NEW b \in S
  PROVE  /\ <<>> \o <<b>> = <<b>>
         /\ <<b>> \in Seq(S) /\ DOMAIN <<b>> = {1} /\ <<b>>[1] = b
         /\ <<a>> \o <<b>> \in Seq(S) /\ DOMAIN (<<a>> \o <<b>>) = 1 .. 2
         /\ (<<a>> \o <<b>>)[1] = a /\ (<<a>> \o <<b>>)[2] = b
<1> DEFINE s == <<a>>
           t == <<b>>
<1>1. /\ s \in Seq(S) /\ Len(s) = 1 /\ s[1] = a
      /\ t \in Seq(S) /\ Len(t) = 1 /\ t[1] = b /\ DOMAIN t = {1}
  OBVIOUS
<1>2. <<>> \o <<b>> = <<b>>
  OBVIOUS
<1> HIDE DEF s, t
<1>3. /\ s \o t \in Seq(S) /\ DOMAIN (s \o t) = 1 .. 2
      /\ (s \o t)[1] = s[1] /\ (s \o t)[2] = t[1]
  <2>1. /\ s \o t \in Seq(S)
        /\ Len(s \o t) = Len(s) + Len(t)
        /\ \A i \in 1 .. Len(s) + Len(t) :
             (s \o t)[i] = IF i <= Len(s) THEN s[i] ELSE t[i - Len(s)]
    BY <1>1, ConcatProperties
  <2> QED
    BY <1>1, <2>1
<1> QED
  BY <1>1, <1>2, <1>3 DEF s, t

LEMMA SingleDeal ==
  ASSUME SInv, NEW hit \in Hit, SingleTP(hit)
  PROVE  /\ Kept(hit.channel) \o <<Single(hit)>> \in Seq(TP)
         /\ Deal(hit, Kept(hit.channel) \o <<Single(hit)>>, NoTP)
<1> DEFINE c == hit.channel
           n == Len(hits) + 1
           tps == Kept(c) \o <<Single(hit)>>
<1>1. /\ Hand(c, tps) /\ NextHit(hit)
      /\ m_A' = [m_A EXCEPT ![c] = NoTP]
  BY DEF SingleTP, Clear
<1>2. Single(hit) \in TP /\ Single(hit).parts = {n}
  BY SingleFacts DEF SInv
<1>3. c \in Channels /\ TypeOK
  BY DEF Hit, SInv
<1>4. NoTP.parts = {}
  BY DEF NoTP
<1>5. \A p \in m_A[c].parts : p < n
  BY <1>3, KeptBefore
<1>6. CASE m_A[c] = NoTP
  <2>1. Kept(c) = <<>> /\ m_A[c].parts = {}
    BY <1>3, <1>6, KeptFacts
  <2>2. tps \in Seq(TP) /\ DOMAIN tps = {1} /\ tps[1] = Single(hit)
    BY <1>2, <2>1, Concatenate
  <2> HIDE DEF c, n, tps
  <2>3. Deal(hit, tps, NoTP)
    BY <1>1, <1>2, <1>4, <2>1, <2>2 DEF Deal, c, n
  <2> QED
    BY <2>2, <2>3 DEF tps, c
<1>7. CASE m_A[c] # NoTP
  <2>1. m_A[c] \in TP /\ tps = <<m_A[c]>> \o <<Single(hit)>>
    BY <1>3, <1>7, KeptFacts
  <2>2. /\ tps \in Seq(TP) /\ DOMAIN tps = 1 .. 2
        /\ tps[1] = m_A[c] /\ tps[2] = Single(hit)
    <3> DEFINE a == m_A[c]
               b == Single(hit)
    <3>1. a \in TP /\ b \in TP /\ tps = <<a>> \o <<b>>
      BY <1>2, <2>1
    <3> HIDE DEF a, b, tps
    <3>2. /\ <<a>> \o <<b>> \in Seq(TP) /\ DOMAIN (<<a>> \o <<b>>) = 1 .. 2
          /\ (<<a>> \o <<b>>)[1] = a /\ (<<a>> \o <<b>>)[2] = b
      BY <3>1, Concatenate
    <3>3. /\ tps \in Seq(TP) /\ DOMAIN tps = 1 .. 2
          /\ tps[1] = a /\ tps[2] = b
      BY <3>1, <3>2
    <3> QED
      BY <3>3 DEF a, b
  <2> HIDE DEF c, n, tps
  <2>3. \A i, j \in DOMAIN tps : i < j => i = 1 /\ j = 2
    BY <2>2
  <2>4. \A i \in DOMAIN tps : i = 1 \/ i = 2
    BY <2>2
  <2>5. /\ \A k \in DOMAIN tps : tps[k].parts \subseteq m_A[c].parts \cup {n}
        /\ \A p \in m_A[c].parts \cup {n} :
             \E k \in DOMAIN tps : p \in tps[k].parts
        /\ \A i, j \in DOMAIN tps :
             i < j => \A p \in tps[i].parts, q \in tps[j].parts : p < q
        /\ \A k \in DOMAIN tps : k # 1 => tps[k].parts \subseteq {n}
    BY <1>2, <1>5, <2>2, <2>3, <2>4
  <2>6. Deal(hit, tps, NoTP)
    BY <1>1, <1>4, <2>5 DEF Deal, c, n
  <2> QED
    BY <2>2, <2>6 DEF tps, c
<1> QED
  BY <1>6, <1>7

LEMMA StartsDeal ==
  ASSUME SInv, NEW hit \in Hit, StartsTP(hit)
  PROVE  /\ Kept(hit.channel) \in Seq(TP)
         /\ Deal(hit, Kept(hit.channel), Single(hit))
<1> DEFINE c == hit.channel
           n == Len(hits) + 1
           tps == Kept(c)
<1>1. /\ Hand(c, tps) /\ NextHit(hit)
      /\ m_A' = [m_A EXCEPT ![c] = Single(hit)]
  BY DEF StartsTP, Keep
<1>2. Single(hit).parts = {n}
  BY SingleFacts DEF SInv
<1>3. c \in Channels /\ TypeOK
  BY DEF Hit, SInv
<1>4. \A p \in m_A[c].parts : p < n
  BY <1>3, KeptBefore
<1>5. CASE m_A[c] = NoTP
  <2>1. tps = <<>> /\ m_A[c].parts = {}
    BY <1>3, <1>5, KeptFacts
  <2>2. tps \in Seq(TP) /\ DOMAIN tps = {}
    BY <2>1
  <2> HIDE DEF c, n, tps
  <2>3. Deal(hit, tps, Single(hit))
    BY <1>1, <1>2, <2>1, <2>2 DEF Deal, c, n
  <2> QED
    BY <2>2, <2>3 DEF tps, c
<1>6. CASE m_A[c] # NoTP
  <2>1. m_A[c] \in TP /\ tps = <<m_A[c]>>
    BY <1>3, <1>6, KeptFacts
  <2>2. tps \in Seq(TP) /\ DOMAIN tps = {1} /\ tps[1].parts = m_A[c].parts
    BY <2>1
  <2> HIDE DEF c, n, tps
  <2>3. Deal(hit, tps, Single(hit))
    BY <1>1, <1>2, <1>4, <2>2 DEF Deal, c, n
  <2> QED
    BY <2>2, <2>3 DEF tps, c
<1> QED
  BY <1>5, <1>6

(* An iteration deals out the hits, and what it keeps is a TP or nothing.  *)
LEMMA StitchDeal ==
  ASSUME SInv, NEW hit \in Hit, StitchHit(hit)
  PROVE  \E tps \in Seq(TP), kept \in TP \cup {NoTP} :
           /\ Deal(hit, tps, kept)
           /\ \/ kept = NoTP /\ Clear(hit.channel)
              \/ kept \in TP /\ Keep(hit, kept)
<1>1. CASE CompletesTP(hit) \/ EndsBadly(hit)
  BY <1>1, CompletesDeal DEF CompletesTP, EndsBadly
<1>2. CASE ExtendsTP(hit)
  <2>1. Merged(hit) \in TP
    BY <1>2, MergedFacts DEF ExtendsTP, Continues, SInv
  <2>2. <<>> \in Seq(TP)
    OBVIOUS
  <2> QED
    BY <1>2, <2>1, <2>2, ExtendsDeal DEF ExtendsTP
<1>3. CASE SingleTP(hit)
  BY <1>3, SingleDeal DEF SingleTP
<1>4. CASE StartsTP(hit)
  <2>1. Single(hit) \in TP
    BY SingleFacts DEF SInv
  <2> QED
    BY <1>4, <2>1, StartsDeal DEF StartsTP
<1> QED
  BY <1>1, <1>2, <1>3, <1>4 DEF StitchHit

(* A hit has no TP exactly when it has no time.                            *)
LEMMA CoupledStep ==
  ASSUME TypeOK, NEW hit \in Hit,
         Clear(hit.channel) \/ \E tp \in TP : Keep(hit, tp)
  PROVE  /\ m_A' \in [Channels -> TP \cup {NoTP}]
         /\ m_T' \in [Channels -> Nat \cup {NoTime}]
         /\ \A c \in Channels : m_A'[c] = NoTP <=> m_T'[c] = NoTime
<1>1. hit.channel \in Channels /\ TimeStart(hit) \in Nat
  BY TimeStartType DEF Hit
<1>2. /\ m_A \in [Channels -> TP \cup {NoTP}]
      /\ m_T \in [Channels -> Nat \cup {NoTime}]
      /\ \A c \in Channels : m_A[c] = NoTP <=> m_T[c] = NoTime
  BY DEF TypeOK
<1>3. \A tp \in TP : tp # NoTP
  <2> SUFFICES ASSUME NEW tp \in TP, tp = NoTP PROVE FALSE
    OBVIOUS
  <2>1. "time_start" \in DOMAIN tp
    BY DEF TP
  <2>2. "time_start" \notin DOMAIN NoTP
    BY DEF NoTP
  <2> QED
    BY <2>1, <2>2
<1>4. \A t \in Nat : t # NoTime
  BY DEF NoTime
<1>5. CASE Clear(hit.channel)
  <2>1. /\ m_A' = [m_A EXCEPT ![hit.channel] = NoTP]
        /\ m_T' = [m_T EXCEPT ![hit.channel] = NoTime]
    BY <1>5 DEF Clear
  <2> QED
    BY <1>1, <1>2, <2>1
<1>6. ASSUME NEW tp \in TP, Keep(hit, tp)
      PROVE  /\ m_A' \in [Channels -> TP \cup {NoTP}]
             /\ m_T' \in [Channels -> Nat \cup {NoTime}]
             /\ \A c \in Channels : m_A'[c] = NoTP <=> m_T'[c] = NoTime
  <2>1. /\ m_A' = [m_A EXCEPT ![hit.channel] = tp]
        /\ m_T' = [m_T EXCEPT ![hit.channel] = TimeStart(hit)]
    BY <1>6 DEF Keep
  <2>2. tp # NoTP /\ TimeStart(hit) # NoTime
    BY <1>1, <1>3, <1>4
  <2> QED
    BY <1>1, <1>2, <2>1, <2>2
<1> QED
  BY <1>5, <1>6

LEMMA StitchStep == ASSUME SInv, Stitch PROVE SInv'
<1>1. PICK hit \in HitsOfFrame : StitchHit(hit)
  BY DEF Stitch
<1>2. hit \in Hit /\ TypeOK
  BY HitsOfFrameType DEF Stitch, SInv
<1>3. PICK tps \in Seq(TP), kept \in TP \cup {NoTP} :
        /\ Deal(hit, tps, kept)
        /\ \/ kept = NoTP /\ Clear(hit.channel)
           \/ kept \in TP /\ Keep(hit, kept)
  BY <1>1, <1>2, StitchDeal
<1>4. PlaceInv' /\ HandedInOrder'
  BY <1>2, <1>3, DealStep
<1>5. hits' \in Seq(Hit)
  BY <1>2, <1>3, HitFacts DEF Deal
<1>6. handed' \in Seq([tp : TP, channel : Channels, run : Nat])
  BY <1>2, <1>3, HandFacts DEF Deal, Hit, Entry
<1>7. /\ m_A' \in [Channels -> TP \cup {NoTP}]
      /\ m_T' \in [Channels -> Nat \cup {NoTime}]
      /\ \A c \in Channels : m_A'[c] = NoTP <=> m_T'[c] = NoTime
  BY <1>2, <1>3, CoupledStep
<1>8. frame' \in [channel : Channels, timestamp : Timestamps, tick : Nat]
                   \cup {NoFrame}
  <2>1. frame # NoFrame
    BY StitcherAssumption DEF Stitch, NoFrame
  <2>2. frame \in [channel : Channels, timestamp : Timestamps, tick : Nat]
    BY <1>2, <2>1 DEF TypeOK
  <2>3. hit.end + 1 \in Nat
    <3>1. hit.end \in Ticks
      BY <1>2 DEF Hit
    <3> QED
      BY <3>1, StitcherAssumption DEF Ticks
  <2>4. frame' = [frame EXCEPT !.tick = hit.end + 1]
    BY <1>3 DEF Deal, NextHit
  <2> QED
    BY <2>2, <2>3, <2>4
<1>9. run' \in 0 .. MaxRuns
  BY <1>2, <1>3 DEF Deal, NextHit, TypeOK
<1> QED
  BY <1>4, <1>5, <1>6, <1>7, <1>8, <1>9 DEF SInv, TypeOK

(* The other steps leave the TPs and the hits alone.                       *)
LEMMA OtherStep ==
  ASSUME SInv, UNCHANGED <<m_A, m_T, hits, handed>>,
         frame' \in [channel : Channels, timestamp : Timestamps, tick : Nat]
                      \cup {NoFrame},
         run' \in 0 .. MaxRuns
  PROVE  SInv'
<1>1. TypeOK'
  BY DEF SInv, TypeOK
<1>2. PlaceInv'
  BY DEF SInv, PlaceInv, Owned
<1>3. HandedInOrder'
  BY DEF SInv, HandedInOrder
<1> QED
  BY <1>1, <1>2, <1>3 DEF SInv

(* Runs only go up, and once a TP has left with hits of an earlier run,    *)
(* what its channel keeps is of the current run.                           *)
RunInv ==
  /\ \A p \in DOMAIN hits : hits[p].run <= run
  /\ \A i \in DOMAIN handed : handed[i].run <= run
  /\ \A i \in DOMAIN handed :
       Stale(i) /\ handed[i].run = run
         => \A p \in m_A[handed[i].channel].parts : hits[p].run = run
  /\ StaleOncePerRun

LEMMA RunStep == ASSUME SInv, RunInv, Stitch PROVE RunInv'
<1>1. PICK hit \in HitsOfFrame : StitchHit(hit)
  BY DEF Stitch
<1>2. hit \in Hit /\ hit.run = run /\ TypeOK
  BY HitsOfFrameType DEF Stitch, SInv
<1> DEFINE c == hit.channel
           n == Len(hits) + 1
           m == Len(handed)
           old == m_A[c].parts
<1>3. PICK tps \in Seq(TP), kept \in TP \cup {NoTP} : Deal(hit, tps, kept)
  BY <1>1, <1>2, StitchDeal
<1>4. /\ m \in Nat /\ Len(tps) \in Nat
      /\ DOMAIN handed = 1 .. m /\ DOMAIN tps = 1 .. Len(tps)
      /\ DOMAIN handed' = 1 .. m + Len(tps)
      /\ \A i \in DOMAIN handed : handed'[i] = handed[i]
      /\ \A k \in DOMAIN tps :
           /\ handed'[m + k].tp = tps[k]
           /\ handed'[m + k].channel = c
           /\ handed'[m + k].run = run
  BY <1>2, <1>3, HandFacts DEF Deal, Hit
<1>5. /\ n \in Nat /\ DOMAIN hits = 1 .. n - 1 /\ DOMAIN hits' = 1 .. n
      /\ \A i \in DOMAIN hits : hits'[i] = hits[i]
      /\ hits'[n].run = run
  BY <1>2, <1>3, HitFacts DEF Deal
<1>6. /\ c \in Channels
      /\ \A d \in Channels : d # c => m_A'[d] = m_A[d]
      /\ m_A'[c] = kept
  BY <1>2, <1>3 DEF Deal, TypeOK, Hit
<1>7. /\ \A k \in DOMAIN tps : tps[k].parts \subseteq old \cup {n}
      /\ kept.parts \subseteq old \cup {n}
      /\ \A k \in DOMAIN tps :
           kept.parts \subseteq {n} /\ (k # 1 => tps[k].parts \subseteq {n})
  BY <1>3 DEF Deal
<1>8. /\ \A p \in old : p \in DOMAIN hits
      /\ \A i \in DOMAIN handed : \A p \in handed[i].tp.parts : p \in DOMAIN hits
      /\ \A d \in Channels : \A p \in m_A[d].parts : p \in DOMAIN hits
  BY <1>6 DEF SInv, PlaceInv, Owned
<1>9. run \in Nat /\ run' = run
  BY <1>2, <1>3, StitcherAssumption DEF TypeOK, Deal, NextHit
<1>10. \A i \in DOMAIN handed : handed[i].channel \in Channels /\ handed[i].run \in Nat
  <2> SUFFICES ASSUME NEW i \in DOMAIN handed
               PROVE  handed[i].channel \in Channels /\ handed[i].run \in Nat
    OBVIOUS
  <2>1. handed[i] \in Entry
    BY <1>2, HandedType
  <2> QED
    BY <2>1 DEF Entry
<1> HIDE DEF c, n, m, old
(* An entry of handed is an old one or one of tps.  An old one is stale if *)
(* it was; a new one can be stale only if it is the first, and there are   *)
(* kept hits of an earlier run.                                            *)
<1>11. ASSUME NEW i \in DOMAIN handed
       PROVE  /\ i \in DOMAIN handed' /\ handed'[i] = handed[i]
              /\ Stale(i)' <=> Stale(i)
  BY <1>4, <1>5, <1>8 DEF Stale
<1>12. ASSUME NEW i \in DOMAIN handed', i \notin DOMAIN handed
       PROVE  /\ handed'[i].channel = c /\ handed'[i].run = run
              /\ kept.parts \subseteq {n}
              /\ Stale(i)' => i = m + 1 /\ \E p \in old : hits[p].run < run
  <2>1. PICK k \in DOMAIN tps : i = m + k
    <3>1. i - m \in DOMAIN tps /\ i = m + (i - m)
      BY <1>4, <1>12
    <3> QED
      BY <3>1
  <2>2. /\ handed'[i].tp = tps[k] /\ handed'[i].channel = c
        /\ handed'[i].run = run
    BY <1>4, <2>1
  <2>3. ASSUME NEW p \in tps[k].parts, hits'[p].run < run
        PROVE  k = 1 /\ p \in old /\ hits[p].run < run
    BY <1>5, <1>7, <1>8, <1>9, <2>3
  <2>4. Stale(i)' => \E p \in tps[k].parts : hits'[p].run < run
    BY <2>2 DEF Stale
  <2> QED
    BY <1>7, <2>1, <2>2, <2>3, <2>4
<1>13. \A p \in DOMAIN hits' : hits'[p].run <= run'
  BY <1>5, <1>9 DEF RunInv
<1>14. \A i \in DOMAIN handed' : handed'[i].run <= run'
  BY <1>9, <1>11, <1>12 DEF RunInv
<1>15. ASSUME NEW i \in DOMAIN handed', Stale(i)', handed'[i].run = run'
       PROVE  \A p \in m_A'[handed'[i].channel].parts : hits'[p].run = run'
  <2>1. CASE i \in DOMAIN handed
    <3>1. Stale(i) /\ handed[i].run = run /\ handed'[i] = handed[i]
      BY <1>9, <1>11, <1>15, <2>1
    <3>2. \A p \in m_A[handed[i].channel].parts : hits[p].run = run
      BY <2>1, <3>1 DEF RunInv
    <3>3. CASE handed[i].channel = c
      BY <1>5, <1>6, <1>7, <1>8, <1>9, <3>1, <3>2, <3>3 DEF old
    <3>4. CASE handed[i].channel # c
      BY <1>5, <1>6, <1>8, <1>9, <1>10, <2>1, <3>1, <3>2, <3>4
    <3> QED
      BY <3>3, <3>4
  <2>2. CASE i \notin DOMAIN handed
    BY <1>5, <1>6, <1>9, <1>12, <2>2
  <2> QED
    BY <2>1, <2>2
<1>16. StaleOncePerRun'
  (* A stale entry before a new one, of the same channel and run, would    *)
  (* have left only hits of this run behind.                               *)
  <2>1. ASSUME NEW i \in DOMAIN handed, NEW j \in DOMAIN handed', j \notin DOMAIN handed,
               Stale(i)', Stale(j)',
               handed'[i].channel = handed'[j].channel,
               handed'[i].run = handed'[j].run
        PROVE  FALSE
    <3>1. Stale(i) /\ handed[i].channel = c /\ handed[i].run = run
      BY <1>11, <1>12, <2>1
    <3>2. PICK p \in old : hits[p].run < run
      BY <1>12, <2>1
    <3>3. hits[p].run = run
      BY <3>1 DEF RunInv, old
    <3> QED
      BY <1>9, <3>2, <3>3
  <2> SUFFICES ASSUME NEW i \in DOMAIN handed', NEW j \in DOMAIN handed',
                      Stale(i)', Stale(j)',
                      handed'[i].channel = handed'[j].channel,
                      handed'[i].run = handed'[j].run
               PROVE  i = j
    BY DEF StaleOncePerRun
  <2>2. CASE i \in DOMAIN handed /\ j \in DOMAIN handed
    <3>1. /\ Stale(i) /\ Stale(j)
          /\ handed[i].channel = handed[j].channel /\ handed[i].run = handed[j].run
      BY <1>11, <2>2
    <3> QED
      BY <2>2, <3>1 DEF RunInv, StaleOncePerRun
  <2>3. CASE i \notin DOMAIN handed /\ j \notin DOMAIN handed
    BY <1>12, <2>3
  <2>4. CASE i \in DOMAIN handed /\ j \notin DOMAIN handed
    BY <2>1, <2>4
  <2>5. CASE i \notin DOMAIN handed /\ j \in DOMAIN handed
    BY <2>1, <2>5
  <2> QED
    BY <2>2, <2>3, <2>4, <2>5
<1> QED
  BY <1>13, <1>14, <1>15, <1>16 DEF RunInv

(* With start, no TP of the new run has left yet.                          *)
LEMMA RunStart == ASSUME SInv, RunInv, Start PROVE RunInv'
<1>1. /\ run \in Nat /\ run' = run + 1
      /\ m_A' = m_A /\ hits' = hits /\ handed' = handed
  BY StitcherAssumption DEF Start, SInv, TypeOK
<1>2. \A i \in DOMAIN handed : handed[i].run \in Nat
  <2> SUFFICES ASSUME NEW i \in DOMAIN handed PROVE handed[i].run \in Nat
    OBVIOUS
  <2>1. handed[i] \in Entry
    BY HandedType DEF SInv
  <2> QED
    BY <2>1 DEF Entry
<1>3. \A p \in DOMAIN hits : hits[p].run \in Nat
  <2> SUFFICES ASSUME NEW p \in DOMAIN hits PROVE hits[p].run \in Nat
    OBVIOUS
  <2>1. hits[p] \in Hit
    BY DEF SInv, TypeOK
  <2> QED
    BY <2>1 DEF Hit
<1>4. \A p \in DOMAIN hits' : hits'[p].run <= run'
  BY <1>1, <1>3 DEF RunInv
<1>5. \A i \in DOMAIN handed' : handed'[i].run < run'
  BY <1>1, <1>2 DEF RunInv
<1>6. \A i \in DOMAIN handed' : handed'[i].run <= run' /\ handed'[i].run # run'
  BY <1>1, <1>2, <1>5
<1>7. StaleOncePerRun'
  BY <1>1 DEF RunInv, StaleOncePerRun, Stale
<1> QED
  BY <1>4, <1>6, <1>7 DEF RunInv

LEMMA RunInvSteps == SInv /\ RunInv /\ [Next]_vars => RunInv'
<1> SUFFICES ASSUME SInv, RunInv, [Next]_vars PROVE RunInv'
  OBVIOUS
<1>1. ASSUME UNCHANGED <<m_A, run, hits, handed>> PROVE RunInv'
  BY <1>1 DEF RunInv, StaleOncePerRun, Stale
<1>2. ASSUME NEW ch \in Channels, NEW ts \in Timestamps, NextFrame(ch, ts)
      PROVE  RunInv'
  BY <1>1, <1>2 DEF NextFrame
<1>3. CASE UNCHANGED vars
  BY <1>1, <1>3 DEF vars
<1> QED
  BY <1>2, <1>3, RunStep, RunStart DEF Next

LEMMA InitInv == Init => SInv
<1> SUFFICES ASSUME Init PROVE SInv
  OBVIOUS
<1>1. TypeOK
  BY StitcherAssumption DEF Init, TypeOK
<1>2. PlaceInv
  BY DEF Init, PlaceInv, Owned, NoTP
<1>3. HandedInOrder
  BY DEF Init, HandedInOrder
<1> QED
  BY <1>1, <1>2, <1>3 DEF SInv

LEMMA NextInv == SInv /\ [Next]_vars => SInv'
<1> SUFFICES ASSUME SInv, [Next]_vars PROVE SInv'
  OBVIOUS
<1>1. frame \in [channel : Channels, timestamp : Timestamps, tick : Nat]
                  \cup {NoFrame}
  BY DEF SInv, TypeOK
<1>2. run \in 0 .. MaxRuns
  BY DEF SInv, TypeOK
<1>3. ASSUME NEW c \in Channels, NEW ts \in Timestamps, NextFrame(c, ts)
      PROVE  SInv'
  BY <1>2, <1>3, OtherStep DEF NextFrame
<1>4. CASE Stitch
  BY <1>4, StitchStep
<1>5. CASE Start
  <2>1. run' \in 0 .. MaxRuns
    BY <1>2, <1>5, StitcherAssumption DEF Start
  <2> QED
    BY <1>5, <2>1, OtherStep DEF Start
<1>6. CASE UNCHANGED vars
  BY <1>1, <1>2, <1>6, OtherStep DEF vars
<1> QED
  BY <1>3, <1>4, <1>5, <1>6 DEF Next

THEOREM Invariance == Spec => []SInv
<1> QED
  BY InitInv, NextInv, PTL DEF Spec

(* The state of the stitcher has its type: a channel has a start time in   *)
(* m_T exactly while it has a TP in m_A, which tp_stitch takes for granted *)
(* when it reads m_T after testing m_A.                                    *)
THEOREM TypeCorrect == Spec => []TypeOK
<1>1. SInv => TypeOK
  BY DEF SInv
<1> QED
  BY <1>1, Invariance, PTL

(* The TPs of a channel leave in the order of their hits.                  *)
THEOREM HandedInOrderTheorem == Spec => []HandedInOrder
<1>1. SInv => HandedInOrder
  BY DEF SInv
<1> QED
  BY <1>1, Invariance, PTL

(* TPs that have a hit in common would have a channel in common, and not   *)
(* be in order.                                                            *)
LEMMA InvEveryHitOnce == SInv => EveryHitOnce
<1> SUFFICES ASSUME SInv PROVE EveryHitOnce
  OBVIOUS
<1>1. DOMAIN handed \subseteq Nat /\ DOMAIN hits \subseteq Nat
  BY DEF SInv, TypeOK
<1>2. \A i \in DOMAIN handed : handed[i].channel \in Channels
  <2> SUFFICES ASSUME NEW i \in DOMAIN handed PROVE handed[i].channel \in Channels
    OBVIOUS
  <2>1. handed[i] \in Entry
    BY HandedType DEF SInv
  <2> QED
    BY <2>1 DEF Entry
<1>3. /\ \A c \in Channels : \A p \in m_A[c].parts :
           p \in DOMAIN hits /\ hits[p].channel = c
      /\ \A i \in DOMAIN handed : \A p \in handed[i].tp.parts :
           p \in DOMAIN hits /\ hits[p].channel = handed[i].channel
      /\ \A p \in DOMAIN hits :
           \/ p \in m_A[hits[p].channel].parts
           \/ \E i \in DOMAIN handed : p \in handed[i].tp.parts
  BY DEF SInv, PlaceInv, Owned
<1>4. ASSUME NEW c \in Channels
      PROVE  UNION {tp.parts : tp \in TPs(c)}
               = {i \in DOMAIN hits : hits[i].channel = c}
  <2>1. ASSUME NEW tp \in TPs(c), NEW p \in tp.parts
        PROVE  p \in DOMAIN hits /\ hits[p].channel = c
    BY <1>3, <2>1 DEF TPs, HandedTPs
  <2>2. ASSUME NEW p \in DOMAIN hits, hits[p].channel = c
        PROVE  \E tp \in TPs(c) : p \in tp.parts
    <3>1. CASE p \in m_A[c].parts
      <4>1. m_A[c] # NoTP
        BY <3>1 DEF NoTP
      <4> QED
        BY <3>1, <4>1 DEF TPs
    <3>2. ASSUME NEW i \in DOMAIN handed, p \in handed[i].tp.parts
          PROVE  \E tp \in TPs(c) : p \in tp.parts
      <4>1. handed[i].channel = c
        BY <1>3, <2>2, <3>2
      <4> QED
        BY <3>2, <4>1 DEF TPs, HandedTPs
    <3> QED
      BY <1>3, <2>2, <3>1, <3>2
  <2> QED
    BY <2>1, <2>2
<1>5. ASSUME NEW i \in DOMAIN handed, NEW j \in DOMAIN handed, i # j
      PROVE  handed[i].tp.parts \cap handed[j].tp.parts = {}
  <2> SUFFICES ASSUME NEW p \in handed[i].tp.parts, p \in handed[j].tp.parts
               PROVE  FALSE
    OBVIOUS
  <2>1. p \in Nat /\ handed[i].channel = handed[j].channel
    BY <1>1, <1>3
  <2>2. i < j \/ j < i
    BY <1>1, <1>5
  <2>3. p < p
    BY <2>1, <2>2 DEF SInv, HandedInOrder
  <2> QED
    BY <2>1, <2>3
<1>6. ASSUME NEW i \in DOMAIN handed, NEW c \in Channels
      PROVE  handed[i].tp.parts \cap m_A[c].parts = {}
  <2> SUFFICES ASSUME NEW p \in handed[i].tp.parts, p \in m_A[c].parts
               PROVE  FALSE
    OBVIOUS
  <2>1. p \in Nat /\ handed[i].channel = c
    BY <1>1, <1>3
  <2>2. p < p
    BY <2>1 DEF SInv, HandedInOrder
  <2> QED
    BY <2>1, <2>2
<1> QED
  BY <1>4, <1>5, <1>6 DEF EveryHitOnce

(* No hit is lost or counted twice, however its TPs are stitched.          *)
THEOREM EveryHitOnceTheorem == Spec => []EveryHitOnce
BY Invariance, InvEveryHitOnce, PTL

(* What an earlier run left behind leaves in at most one TP of each        *)
(* channel and run, although start does not clear it.                      *)
THEOREM StaleOncePerRunTheorem == Spec => []StaleOncePerRun
<1>1. Init => RunInv
  BY DEF Init, RunInv, StaleOncePerRun
<1>2. RunInv => StaleOncePerRun
  BY DEF RunInv
<1> QED
  BY <1>1, <1>2, RunInvSteps, Invariance, PTL DEF Spec

----------------------------------------------------------------------------
(* What the times decide: which hits tp_stitch puts together, and what it  *)
(* makes of their times and peaks.                                         *)

(* A time between two doubles is the lower one and a rest.                 *)
LEMMA Quotient ==
  ASSUME NEW t \in Nat
  PROVE  /\ Ulp \in Nat /\ Ulp > 0
         /\ t \div Ulp \in Nat /\ t % Ulp \in 0 .. Ulp - 1
         /\ (t \div Ulp) * Ulp \in Nat
         /\ t = (t \div Ulp) * Ulp + (t % Ulp)
<1>1. Ulp \in Nat /\ Ulp > 0
  BY StitcherAssumption
<1> QED
  BY <1>1

LEMMA QuotientUnique ==
  ASSUME NEW q \in Nat, NEW r \in 0 .. Ulp - 1
  PROVE  (q * Ulp + r) \div Ulp = q /\ (q * Ulp + r) % Ulp = r
<1>1. Ulp \in Nat /\ Ulp > 0
  BY StitcherAssumption
<1> QED
  BY <1>1

LEMMA QuotientOrder ==
  ASSUME NEW q \in Nat, NEW p \in Nat, q < p
  PROVE  (q + 1) * Ulp <= p * Ulp /\ q * Ulp + Ulp = (q + 1) * Ulp
<1>1. Ulp \in Nat /\ Ulp > 0
  BY StitcherAssumption
<1> QED
  BY <1>1

(* Rounding a time up or down goes to one of the two doubles around it.    *)
LEMMA RoundCases ==
  ASSUME NEW q \in Nat, NEW r \in 0 .. Ulp - 1
  PROVE  LET up == ~(2 * r < Ulp \/ (2 * r = Ulp /\ q % 2 = 0))
         IN  Round(q * Ulp + r) = IF up THEN q * Ulp + Ulp ELSE q * Ulp
<1>1. q * Ulp + Ulp = (q + 1) * Ulp
  BY QuotientOrder, StitcherAssumption
<1> QED
  BY <1>1, QuotientUnique DEF Round

(* Later times do not come out earlier.                                    *)
LEMMA RoundMonotone ==
  ASSUME NEW t \in Nat, NEW u \in Nat, t <= u
  PROVE  Round(t) <= Round(u)
<1> DEFINE q == t \div Ulp
           r == t % Ulp
           p == u \div Ulp
           s == u % Ulp
<1>1. /\ Ulp \in Nat /\ Ulp > 0
      /\ q \in Nat /\ r \in 0 .. Ulp - 1 /\ q * Ulp \in Nat
      /\ p \in Nat /\ s \in 0 .. Ulp - 1 /\ p * Ulp \in Nat
      /\ t = q * Ulp + r /\ u = p * Ulp + s
  BY Quotient
<1> HIDE DEF q, r, p, s
<1>2. /\ \/ Round(t) = q * Ulp
         \/ /\ Round(t) = q * Ulp + Ulp
            /\ 2 * r > Ulp \/ (2 * r = Ulp /\ q % 2 # 0)
      /\ \/ /\ Round(u) = p * Ulp
            /\ 2 * s < Ulp \/ (2 * s = Ulp /\ p % 2 = 0)
         \/ Round(u) = p * Ulp + Ulp
  <2> DEFINE upT == ~(2 * r < Ulp \/ (2 * r = Ulp /\ q % 2 = 0))
             upU == ~(2 * s < Ulp \/ (2 * s = Ulp /\ p % 2 = 0))
  <2>1. /\ Round(t) = IF upT THEN q * Ulp + Ulp ELSE q * Ulp
        /\ Round(u) = IF upU THEN p * Ulp + Ulp ELSE p * Ulp
    BY <1>1, RoundCases
  <2>2. upT => 2 * r > Ulp \/ (2 * r = Ulp /\ q % 2 # 0)
    BY <1>1
  <2>3. ~upU => 2 * s < Ulp \/ (2 * s = Ulp /\ p % 2 = 0)
    OBVIOUS
  <2> HIDE DEF upT, upU
  <2> QED
    BY <2>1, <2>2, <2>3
<1>3. CASE p < q
  <2>1. p * Ulp + Ulp <= q * Ulp
    BY <1>1, <1>3, QuotientOrder
  <2> QED
    BY <1>1, <2>1
<1>4. CASE p = q
  BY <1>1, <1>2, <1>4
<1>5. CASE q < p
  <2>1. q * Ulp + Ulp <= p * Ulp
    BY <1>1, <1>5, QuotientOrder
  <2> QED
    BY <1>1, <1>2, <2>1
<1> QED
  BY <1>1, <1>3, <1>4, <1>5

(* A double stays what it is.                                              *)
LEMMA RoundTwice ==
  ASSUME NEW t \in Nat
  PROVE  Round(Round(t)) = Round(t)
<1>1. Ulp \in Nat /\ Ulp > 0
  BY StitcherAssumption
<1>2. t \div Ulp \in Nat /\ t \div Ulp + 1 \in Nat
  BY Quotient
<1>3. PICK q \in Nat : Round(t) = q * Ulp
  BY <1>2 DEF Round
<1>4. q * Ulp \in Nat /\ 0 \in 0 .. Ulp - 1 /\ q * Ulp + 0 = q * Ulp
  BY <1>1
<1>5. Round(q * Ulp + 0) = q * Ulp
  BY <1>1, <1>4, RoundCases
<1> QED
  BY <1>3, <1>4, <1>5

(* Times that lie two doubles apart, or a multiple of that, are rounded    *)
(* alike: so are those of two frames, for the length of a frame is one.    *)
LEMMA RoundFrameLater ==
  ASSUME NEW t \in Nat
  PROVE  Round(t + StitchConstant) = Round(t) + StitchConstant
<1> DEFINE q == t \div Ulp
           r == t % Ulp
           k == StitchConstant \div (2 * Ulp)
<1>1. /\ Ulp \in Nat /\ Ulp > 0
      /\ q \in Nat /\ r \in 0 .. Ulp - 1 /\ t = q * Ulp + r
  BY Quotient
<1>2. k \in Nat /\ StitchConstant = k * (2 * Ulp) /\ StitchConstant \in Nat
  <2>1. 2 * Ulp \in Nat /\ 2 * Ulp > 0 /\ StitchConstant \in Nat
    BY <1>1, StitcherAssumption
  <2>2. StitchConstant = (2 * Ulp) * k + (StitchConstant % (2 * Ulp)) /\ k \in Nat
    BY <2>1
  <2> QED
    BY <2>1, <2>2, FrameAssumption
<1> HIDE DEF q, r, k
<1>3. q + 2 * k \in Nat /\ (q + 2 * k) * Ulp = q * Ulp + StitchConstant
  BY <1>1, <1>2
<1>4. (q + 2 * k) % 2 = q % 2
  BY <1>1, <1>2
<1>5. t + StitchConstant = (q + 2 * k) * Ulp + r
  BY <1>1, <1>2, <1>3
<1>6. q * Ulp \in Nat
  BY <1>1
<1> QED
  BY SMTT(30), <1>1, <1>2, <1>3, <1>4, <1>5, <1>6, RoundCases

----------------------------------------------------------------------------
(* hit starts before the tick of the frame at ts.                          *)
Before(hit, ts, tick) ==
  \/ hit.timestamp + StitchConstant <= ts
  \/ hit.timestamp = ts /\ hit.start < tick

LEMMA HitTimes ==
  ASSUME NEW hit \in Hit
  PROVE  /\ hit.timestamp \in Nat /\ hit.start \in Nat /\ hit.end \in Nat
         /\ hit.run \in Nat /\ hit.channel \in Channels
         /\ hit.start * TickLength \in 0 .. StitchConstant
         /\ Round(hit.timestamp) \in Nat /\ TimeStart(hit) \in Nat
<1>1. hit.timestamp \in Timestamps /\ hit.start \in Ticks /\ hit.end \in Ticks
  BY DEF Hit
<1>2. /\ hit.timestamp \in Nat /\ hit.start \in Nat /\ hit.end \in Nat
      /\ hit.start <= LastTick
  <2>1. Timestamps \subseteq Nat /\ Ticks \subseteq Nat
    BY StitcherAssumption DEF Ticks
  <2>2. hit.start <= LastTick
    BY <1>1, StitcherAssumption DEF Ticks
  <2> QED
    BY <1>1, <2>1, <2>2
<1>3. /\ LastTick \in Nat /\ TickLength \in Nat
      /\ LastTick * TickLength <= StitchConstant
  BY StitcherAssumption, FrameAssumption
<1>4. hit.start * TickLength \in Nat /\ hit.start * TickLength <= LastTick * TickLength
  BY <1>2, <1>3
<1> QED
  BY <1>2, <1>3, <1>4, RoundType, TimeStartType, StitcherAssumption DEF Hit

(* The hits of a channel have start times in their order, however they are *)
(* rounded.                                                                *)
LEMMA TimeStartMonotone ==
  ASSUME NEW g \in Hit, NEW h \in Hit, Before(g, h.timestamp, h.start)
  PROVE  TimeStart(g) <= TimeStart(h)
<1>1. /\ g.timestamp \in Nat /\ g.start \in Nat
      /\ g.start * TickLength \in Nat /\ g.start * TickLength <= StitchConstant
      /\ h.timestamp \in Nat /\ h.start \in Nat /\ h.start * TickLength \in Nat
      /\ Round(g.timestamp) \in Nat /\ Round(h.timestamp) \in Nat
      /\ TickLength \in Nat /\ StitchConstant \in Nat
  BY HitTimes, StitcherAssumption
<1>2. Round(g.timestamp) + g.start * TickLength
        <= Round(h.timestamp) + h.start * TickLength
  <2>1. CASE g.timestamp + StitchConstant <= h.timestamp
    <3>1. Round(g.timestamp) + StitchConstant <= Round(h.timestamp)
      BY <1>1, <2>1, RoundFrameLater, RoundMonotone
    <3> QED
      BY <1>1, <3>1
  <2>2. CASE g.timestamp = h.timestamp /\ g.start < h.start
    <3>1. g.start * TickLength <= h.start * TickLength
      BY <1>1, <2>2
    <3> QED
      BY <1>1, <2>2, <3>1
  <2> QED
    BY <2>1, <2>2 DEF Before
<1> QED
  BY <1>1, <1>2, RoundMonotone DEF TimeStart

(* A hit at the start of the next frame begins at most a frame's length    *)
(* after any hit of this one.                                              *)
LEMMA NextFrameTime ==
  ASSUME NEW g \in Hit, NEW h \in Hit,
         h.timestamp = g.timestamp + StitchConstant, h.start = 0
  PROVE  TimeStart(h) - TimeStart(g) \in 0 .. StitchConstant
<1> DEFINE r == Round(g.timestamp)
<1>1. /\ g.timestamp \in Nat /\ r \in Nat /\ StitchConstant \in Nat
      /\ g.start * TickLength \in 0 .. StitchConstant
      /\ TimeStart(g) \in Nat /\ TimeStart(h) \in Nat
  BY HitTimes, StitcherAssumption
<1>2. TimeStart(h) = r + StitchConstant
  <2>1. Round(h.timestamp) = r + StitchConstant
    BY <1>1, RoundFrameLater
  <2>2. h.start * TickLength = 0
    BY StitcherAssumption
  <2>3. TimeStart(h) = Round(r + StitchConstant)
    BY <1>1, <2>1, <2>2 DEF TimeStart
  <2>4. Round(r + StitchConstant) = Round(r) + StitchConstant
    BY <1>1, RoundFrameLater
  <2> QED
    BY <1>1, <2>3, <2>4, RoundTwice
<1>3. Round(r) <= TimeStart(g)
  BY <1>1, RoundMonotone DEF TimeStart
<1>4. TimeStart(g) <= Round(r + StitchConstant)
  BY <1>1, RoundMonotone DEF TimeStart
<1>5. Round(r) = r /\ Round(r + StitchConstant) = r + StitchConstant
  BY <1>1, RoundTwice, RoundFrameLater
<1> HIDE DEF r
<1> QED
  BY <1>1, <1>2, <1>3, <1>4, <1>5

(* int holds the difference of two times that are close enough.            *)
LEMMA DiffExact ==
  ASSUME NEW t \in Nat, NEW u \in Nat, u <= t, t - u < IntHalf
  PROVE  Diff(t, u) = t - u
<1>1. IntHalf \in Nat /\ IntHalf > 0
  BY StitcherAssumption
<1>2. t - u + IntHalf \in 0 .. (2 * IntHalf) - 1
  BY <1>1
<1>3. (t - u + IntHalf) % (2 * IntHalf) = t - u + IntHalf
  BY <1>1, <1>2
<1> QED
  BY <1>1, <1>3 DEF Diff

----------------------------------------------------------------------------
(* The TPs of a channel after some of them were handed over.               *)
LEMMA HandTPs ==
  ASSUME TypeOK, NEW c \in Channels, NEW tps \in Seq(TP), Hand(c, tps)
  PROVE  /\ HandedTPs(c)' = HandedTPs(c) \cup {tps[k] : k \in DOMAIN tps}
         /\ \A d \in Channels : d # c => HandedTPs(d)' = HandedTPs(d)
<1> DEFINE m == Len(handed)
<1>1. /\ m \in Nat /\ Len(tps) \in Nat
      /\ DOMAIN handed = 1 .. m /\ DOMAIN tps = 1 .. Len(tps)
      /\ DOMAIN handed' = 1 .. m + Len(tps)
      /\ \A i \in DOMAIN handed : handed'[i] = handed[i]
      /\ \A k \in DOMAIN tps :
           handed'[m + k].tp = tps[k] /\ handed'[m + k].channel = c
  BY HandFacts
<1> HIDE DEF m
<1>2. ASSUME NEW i \in DOMAIN handed'
      PROVE  \/ i \in DOMAIN handed /\ handed'[i] = handed[i]
             \/ \E k \in DOMAIN tps :
                  handed'[i].tp = tps[k] /\ handed'[i].channel = c
  <2>1. CASE i <= m
    BY <1>1, <2>1
  <2>2. CASE i > m
    <3>1. i - m \in DOMAIN tps /\ i = m + (i - m)
      BY <1>1, <2>2
    <3> QED
      BY <1>1, <3>1
  <2> QED
    BY <1>1, <2>1, <2>2
<1>3. ASSUME NEW i \in DOMAIN handed
      PROVE  i \in DOMAIN handed' /\ handed'[i] = handed[i]
  BY <1>1
<1>4. ASSUME NEW k \in DOMAIN tps
      PROVE  \E i \in DOMAIN handed' :
               handed'[i].tp = tps[k] /\ handed'[i].channel = c
  BY <1>1
<1>5. ASSUME NEW d
      PROVE  HandedTPs(d)' = {handed'[i].tp : i \in {k \in DOMAIN handed' :
                                                       handed'[k].channel = d}}
  BY DEF HandedTPs
<1>6. HandedTPs(c)' = HandedTPs(c) \cup {tps[k] : k \in DOMAIN tps}
  BY <1>2, <1>3, <1>4, <1>5 DEF HandedTPs
<1>7. ASSUME NEW d \in Channels, d # c PROVE HandedTPs(d)' = HandedTPs(d)
  BY <1>2, <1>3, <1>5, <1>7 DEF HandedTPs
<1> QED
  BY <1>6, <1>7

(* The TPs of a list that begins with the kept one, if there is one.       *)
LEMMA KeptAndAfter ==
  ASSUME TypeOK, NEW c \in Channels, NEW tp \in TP
  PROVE  /\ {Kept(c)[k] : k \in DOMAIN Kept(c)} = {m_A[c]} \ {NoTP}
         /\ LET tps == Kept(c) \o <<tp>>
            IN  {tps[k] : k \in DOMAIN tps} = ({m_A[c]} \ {NoTP}) \cup {tp}
<1>1. CASE m_A[c] = NoTP
  <2>1. Kept(c) = <<>>
    BY <1>1, KeptFacts
  <2>2. <<>> \o <<tp>> = <<tp>> /\ DOMAIN <<tp>> = {1} /\ <<tp>>[1] = tp
    BY Concatenate
  <2> QED
    BY <1>1, <2>1, <2>2
<1>2. CASE m_A[c] # NoTP
  <2> DEFINE a == m_A[c]
  <2>1. a \in TP /\ Kept(c) = <<a>> /\ a # NoTP
    BY <1>2, KeptFacts
  <2> HIDE DEF a
  <2>2. /\ DOMAIN <<a>> = 1 .. 1 /\ <<a>>[1] = a
        /\ DOMAIN (<<a>> \o <<tp>>) = 1 .. 2
        /\ (<<a>> \o <<tp>>)[1] = a /\ (<<a>> \o <<tp>>)[2] = tp
    BY <2>1, Concatenate
  <2>3. {Kept(c)[k] : k \in DOMAIN Kept(c)} = {a}
    BY <2>1, <2>2
  <2> DEFINE tps == <<a>> \o <<tp>>
  <2>4. {tps[k] : k \in DOMAIN tps} = {a} \cup {tp}
    <3>1. DOMAIN tps = {1, 2} /\ tps[1] = a /\ tps[2] = tp
      BY <2>2
    <3> HIDE DEF tps
    <3> QED
      BY <3>1
  <2> QED
    BY <2>1, <2>3, <2>4 DEF a
<1> QED
  BY <1>1, <1>2

(* What an iteration makes of the TPs of the channel: it adds the hit to   *)
(* the TP that was kept, or makes a TP of it, and leaves the others alone. *)
LEMMA StitchTPs ==
  ASSUME SInv, NEW hit \in Hit, StitchHit(hit)
  PROVE  LET c == hit.channel
         IN  /\ \A d \in Channels : d # c => TPs(d)' = TPs(d)
             /\ Continues(hit) =>
                  TPs(c)' = HandedTPs(c) \cup {Merged(hit)}
             /\ ~Continues(hit) =>
                  TPs(c)' = TPs(c) \cup {Single(hit)}
<1> DEFINE c == hit.channel
<1>1. c \in Channels /\ TypeOK /\ Single(hit) \in TP
  BY SingleFacts DEF Hit, SInv
<1>2. ASSUME NEW tps \in Seq(TP), NEW kept, Deal(hit, tps, kept)
      PROVE  /\ \A d \in Channels : d # c => TPs(d)' = TPs(d)
             /\ TPs(c)' = HandedTPs(c) \cup {tps[k] : k \in DOMAIN tps}
                            \cup ({kept} \ {NoTP})
  <2>1. Hand(c, tps) /\ m_A' = [m_A EXCEPT ![c] = kept]
    BY <1>2 DEF Deal
  <2>2. /\ m_A'[c] = kept
        /\ \A d \in Channels : d # c => m_A'[d] = m_A[d]
    BY <1>1, <2>1 DEF TypeOK
  <2>3. /\ HandedTPs(c)' = HandedTPs(c) \cup {tps[k] : k \in DOMAIN tps}
        /\ \A d \in Channels : d # c => HandedTPs(d)' = HandedTPs(d)
    BY <1>1, <2>1, HandTPs
  <2>4. ASSUME NEW d PROVE TPs(d)' = HandedTPs(d)' \cup ({m_A'[d]} \ {NoTP})
    BY DEF TPs
  <2> QED
    BY <2>2, <2>3, <2>4 DEF TPs
<1>3. CASE CompletesTP(hit) \/ EndsBadly(hit)
  <2>1. Continues(hit)
    BY <1>3 DEF CompletesTP, EndsBadly
  <2> DEFINE tps == <<Merged(hit)>>
  <2>2. tps \in Seq(TP) /\ Deal(hit, tps, NoTP)
    BY <1>3, CompletesDeal
  <2>3. {tps[k] : k \in DOMAIN tps} = {Merged(hit)}
    OBVIOUS
  <2> HIDE DEF tps
  <2> QED
    BY <1>2, <2>1, <2>2, <2>3
<1>4. CASE ExtendsTP(hit)
  <2>1. Continues(hit)
    BY <1>4 DEF ExtendsTP
  <2>2. Merged(hit) \in TP /\ Merged(hit) # NoTP
    <3>1. m_A[c] # NoTP
      BY <2>1 DEF Continues
    <3>2. Merged(hit) \in TP /\ Merged(hit).parts # {}
      BY <1>1, <3>1, MergedFacts
    <3> QED
      BY <3>2 DEF NoTP
  <2> DEFINE tps == <<>>
  <2>3. tps \in Seq(TP) /\ Deal(hit, tps, Merged(hit))
    BY <1>4, ExtendsDeal
  <2>4. {tps[k] : k \in DOMAIN tps} = {}
    OBVIOUS
  <2> HIDE DEF tps, c
  <2>5. {Merged(hit)} \ {NoTP} = {Merged(hit)}
    BY <2>2
  <2>6. /\ \A d \in Channels : d # c => TPs(d)' = TPs(d)
        /\ TPs(c)' = HandedTPs(c) \cup {Merged(hit)}
    BY <1>2, <2>3, <2>4, <2>5
  <2> QED
    BY <2>1, <2>6 DEF c
<1>5. CASE SingleTP(hit)
  <2>1. ~Continues(hit)
    BY <1>5 DEF SingleTP
  <2> DEFINE tps == Kept(c) \o <<Single(hit)>>
  <2>2. tps \in Seq(TP) /\ Deal(hit, tps, NoTP)
    BY <1>5, SingleDeal
  <2>3. {tps[k] : k \in DOMAIN tps} = ({m_A[c]} \ {NoTP}) \cup {Single(hit)}
    BY <1>1, KeptAndAfter
  <2> HIDE DEF tps
  <2> QED
    BY <1>2, <2>1, <2>2, <2>3 DEF TPs
<1>6. CASE StartsTP(hit)
  <2>1. ~Continues(hit)
    BY <1>6 DEF StartsTP
  <2> DEFINE tps == Kept(c)
  <2>2. tps \in Seq(TP) /\ Deal(hit, tps, Single(hit))
    BY <1>6, StartsDeal
  <2>3. {tps[k] : k \in DOMAIN tps} = {m_A[c]} \ {NoTP}
    BY <1>1, KeptAndAfter
  <2>4. Single(hit) # NoTP
    <3>1. Single(hit).parts # {}
      BY <1>1, SingleFacts
    <3> QED
      BY <3>1 DEF NoTP
  <2> HIDE DEF tps, c
  <2>5. {Single(hit)} \ {NoTP} = {Single(hit)}
    BY <2>4
  <2>6. /\ \A d \in Channels : d # c => TPs(d)' = TPs(d)
        /\ TPs(c)' = HandedTPs(c) \cup ({m_A[c]} \ {NoTP}) \cup {Single(hit)}
    BY <1>2, <2>2, <2>3, <2>5
  <2>7. TPs(c) = HandedTPs(c) \cup ({m_A[c]} \ {NoTP})
    BY DEF TPs
  <2> QED
    BY <2>1, <2>6, <2>7 DEF c
<1> QED
  BY <1>3, <1>4, <1>5, <1>6 DEF StitchHit

----------------------------------------------------------------------------
(* The fields of a TP are those of its parts.                              *)
Fields(tp) ==
  /\ \E i \in tp.parts :
       /\ \A p \in tp.parts : i <= p
       /\ tp.time_start = TimeStart(hits[i])
  /\ tp.time_peak \in tp.parts
  /\ hits[tp.time_peak].peak = tp.adc_peak
  /\ \A p \in tp.parts :
       IF p < tp.time_peak THEN hits[p].peak < tp.adc_peak
       ELSE hits[p].peak <= tp.adc_peak

LEMMA TPsOwned ==
  ASSUME SInv, NEW c \in Channels, NEW tp \in TPs(c)
  PROVE  tp \in TP /\ Owned(tp.parts, c)
<1>1. CASE tp \in HandedTPs(c)
  <2>1. PICK i \in DOMAIN handed : handed[i].channel = c /\ handed[i].tp = tp
    BY <1>1 DEF HandedTPs
  <2>2. handed[i] \in Entry
    BY HandedType DEF SInv
  <2> QED
    BY <2>1, <2>2 DEF SInv, PlaceInv, Entry
<1>2. CASE tp = m_A[c] /\ tp # NoTP
  BY <1>2 DEF SInv, TypeOK, PlaceInv
<1> QED
  BY <1>1, <1>2 DEF TPs

(* Hits do not change once they have arrived.                              *)
LEMMA FieldsStay ==
  ASSUME NEW c \in Channels, NEW tp, Owned(tp.parts, c), Fields(tp),
         \A p \in DOMAIN hits : hits'[p] = hits[p]
  PROVE  Fields(tp)'
<1>1. \A p \in tp.parts : p \in DOMAIN hits /\ hits'[p] = hits[p]
  BY DEF Owned
<1> QED
  BY <1>1 DEF Fields

LEMMA FieldsOfSingle ==
  ASSUME TypeOK, NEW hit \in Hit, NextHit(hit), NEW tp, tp = Single(hit)
  PROVE  Fields(tp)'
<1> DEFINE n == Len(hits) + 1
<1>1. hits'[n] = hit /\ n \in Nat
  BY HitFacts
<1>2. /\ tp.parts = {n} /\ tp.time_start = TimeStart(hit)
      /\ tp.time_peak = n /\ tp.adc_peak = hit.peak
  BY DEF Single
<1>3. hit.peak \in Nat
  BY StitcherAssumption DEF Hit
<1> HIDE DEF n
<1> QED
  BY <1>1, <1>2, <1>3 DEF Fields

(* With a part added at the end, the first part is the same, and the peak  *)
(* moves only to a higher one.                                             *)
LEMMA FieldsOfMerged ==
  ASSUME SInv, NEW hit \in Hit, NextHit(hit), m_A[hit.channel] # NoTP,
         Fields(m_A[hit.channel]), NEW tp, tp = Merged(hit)
  PROVE  Fields(tp)'
<1> DEFINE c == hit.channel
           old == m_A[c]
           n == Len(hits) + 1
<1>1. /\ n \in Nat /\ DOMAIN hits = 1 .. n - 1
      /\ \A i \in DOMAIN hits : hits'[i] = hits[i]
      /\ hits'[n] = hit
  BY HitFacts DEF SInv
<1>2. c \in Channels /\ old \in TP /\ Owned(old.parts, c)
  BY DEF Hit, SInv, TypeOK, PlaceInv
<1>3. /\ tp.parts = old.parts \cup {n} /\ tp.time_start = old.time_start
      /\ tp.adc_peak = IF hit.peak > old.adc_peak THEN hit.peak ELSE old.adc_peak
      /\ tp.time_peak = IF hit.peak > old.adc_peak THEN n ELSE old.time_peak
  BY <1>2 DEF Merged, TP
<1>4. \A p \in old.parts : p \in Nat /\ p < n /\ hits'[p] = hits[p]
                             /\ hits[p].peak \in Nat
  <2>1. \A p \in DOMAIN hits : hits[p] \in Hit
    BY DEF SInv, TypeOK
  <2>2. \A p \in DOMAIN hits : hits[p].peak \in Nat
    BY <2>1, StitcherAssumption DEF Hit
  <2> QED
    BY <1>1, <1>2, <2>2 DEF Owned
<1>5. hit.peak \in Nat /\ old.adc_peak \in Nat
  BY <1>2, StitcherAssumption DEF Hit, TP
<1>6. Fields(old)
  OBVIOUS
<1> HIDE DEF c, n, old
<1>7. \E i \in tp.parts :
        /\ \A p \in tp.parts : i <= p
        /\ tp.time_start = TimeStart(hits'[i])
  BY <1>1, <1>3, <1>4, <1>6 DEF Fields
<1>8. /\ tp.time_peak \in tp.parts
      /\ hits'[tp.time_peak].peak = tp.adc_peak
  BY <1>1, <1>3, <1>4, <1>6 DEF Fields
<1>9. ASSUME NEW p \in tp.parts
      PROVE  IF p < tp.time_peak THEN hits'[p].peak < tp.adc_peak
             ELSE hits'[p].peak <= tp.adc_peak
  <2>1. CASE p = n
    BY <1>1, <1>3, <1>4, <1>5, <1>6, <2>1 DEF Fields
  <2>2. CASE p \in old.parts
    BY <1>1, <1>3, <1>4, <1>5, <1>6, <2>2 DEF Fields
  <2> QED
    BY <1>3, <2>1, <2>2
<1> QED
  BY <1>7, <1>8, <1>9 DEF Fields

LEMMA FieldsStep == ASSUME SInv, FieldsOfParts, Stitch PROVE FieldsOfParts'
<1>1. PICK hit \in HitsOfFrame : StitchHit(hit)
  BY DEF Stitch
<1>2. hit \in Hit /\ hit.channel \in Channels /\ TypeOK
  BY HitsOfFrameType DEF Stitch, SInv, Hit
<1>3. NextHit(hit)
  BY <1>1 DEF StitchHit, CompletesTP, EndsBadly, ExtendsTP, SingleTP, StartsTP
<1>4. \A p \in DOMAIN hits : hits'[p] = hits[p]
  BY <1>2, <1>3, HitFacts
<1>5. ASSUME NEW d \in Channels, NEW tp \in TPs(d)' PROVE Fields(tp)'
  <2>1. CASE tp \in TPs(d)
    BY <1>4, <2>1, TPsOwned, FieldsStay DEF FieldsOfParts, Fields
  <2>2. CASE Continues(hit) /\ tp = Merged(hit)
    <3>1. m_A[hit.channel] # NoTP
      BY <2>2 DEF Continues
    <3>2. m_A[hit.channel] \in TPs(hit.channel)
      BY <3>1 DEF TPs
    <3>3. Fields(m_A[hit.channel])
      BY <1>2, <3>2 DEF FieldsOfParts, Fields
    <3> QED
      BY <1>2, <1>3, <2>2, <3>1, <3>3, FieldsOfMerged
  <2>3. CASE tp = Single(hit)
    BY <1>2, <1>3, <2>3, FieldsOfSingle
  <2>4. \/ tp \in TPs(d)
        \/ Continues(hit) /\ tp = Merged(hit)
        \/ tp = Single(hit)
    BY <1>1, <1>2, <1>5, StitchTPs DEF TPs
  <2> QED
    BY <2>1, <2>2, <2>3, <2>4
<1> QED
  BY <1>5 DEF FieldsOfParts, Fields

(* start and the header of a frame do not touch TPs or hits.               *)
LEMMA OnlyStitch ==
  [Next]_vars => Stitch \/ UNCHANGED <<m_A, m_T, hits, handed>>
BY DEF Next, NextFrame, Start, vars

LEMMA FieldsSteps == SInv /\ FieldsOfParts /\ [Next]_vars => FieldsOfParts'
<1>1. FieldsOfParts /\ UNCHANGED <<m_A, m_T, hits, handed>> => FieldsOfParts'
  BY DEF FieldsOfParts, TPs, HandedTPs
<1> QED
  BY <1>1, OnlyStitch, FieldsStep

LEMMA InitFields == Init => FieldsOfParts
<1> SUFFICES ASSUME Init, NEW c \in Channels PROVE TPs(c) = {}
  BY DEF FieldsOfParts
<1> QED
  BY DEF Init, TPs, HandedTPs

(* A TP starts where its first part does, and has the first highest of its *)
(* parts' peaks, in whatever order and number tp_stitch added the parts.   *)
THEOREM FieldsOfPartsTheorem == Spec => []FieldsOfParts
BY InitFields, FieldsSteps, Invariance, PTL DEF Spec

----------------------------------------------------------------------------
(* What tp_stitch relies on: the hits of a channel arrive in their order,  *)
(* those of a run, and so the next hit of the frame under way will.        *)
TimeInv ==
  /\ \A i, j \in DOMAIN hits :
       i < j /\ hits[i].channel = hits[j].channel /\ hits[i].run = hits[j].run
         => Before(hits[i], hits[j].timestamp, hits[j].start)
  /\ frame # NoFrame => \A i \in DOMAIN hits :
       hits[i].channel = frame.channel /\ hits[i].run = run
         => Before(hits[i], frame.timestamp, frame.tick)

LEMMA TimeStitch == ASSUME SInv, TimeInv, Stitch PROVE TimeInv'
<1>1. PICK hit \in HitsOfFrame : StitchHit(hit)
  BY DEF Stitch
<1>2. hit \in Hit /\ hit.run = run /\ TypeOK
  BY HitsOfFrameType DEF Stitch, SInv
<1>3. NextHit(hit)
  BY <1>1 DEF StitchHit, CompletesTP, EndsBadly, ExtendsTP, SingleTP, StartsTP
<1> DEFINE n == Len(hits) + 1
<1>4. /\ n \in Nat /\ DOMAIN hits = 1 .. n - 1 /\ DOMAIN hits' = 1 .. n
      /\ \A i \in DOMAIN hits : hits'[i] = hits[i]
      /\ hits'[n] = hit
  BY <1>2, <1>3, HitFacts
<1>5. frame # NoFrame
  BY StitcherAssumption DEF Stitch, NoFrame
<1>6. frame \in [channel : Channels, timestamp : Timestamps, tick : Nat]
  BY <1>2, <1>5 DEF TypeOK
<1>7. /\ frame' = [frame EXCEPT !.tick = hit.end + 1] /\ run' = run
      /\ frame.tick \in Nat
  BY <1>3, <1>6 DEF NextHit
<1>8. /\ frame'.channel = hit.channel /\ frame'.timestamp = hit.timestamp
      /\ frame'.tick = hit.end + 1
      /\ hit.channel = frame.channel /\ hit.timestamp = frame.timestamp
      /\ frame.tick <= hit.start /\ hit.start <= hit.end
      /\ hit.start \in Nat /\ hit.end \in Nat
  <2>1. /\ hit.channel = frame.channel /\ hit.timestamp = frame.timestamp
        /\ hit.start \in frame.tick .. LastTick /\ hit.start <= hit.end
    BY DEF HitsOfFrame
  <2>2. hit.start \in Nat /\ hit.end \in Nat
    BY <1>2, HitTimes
  <2>3. frame.tick <= hit.start
    BY <1>7, <2>1, StitcherAssumption
  <2> QED
    BY <1>6, <1>7, <2>1, <2>2, <2>3
<1>9. ASSUME NEW i \in DOMAIN hits
      PROVE  hits[i].start \in Nat
  <2>1. hits[i] \in Hit
    BY <1>2 DEF TypeOK
  <2> QED
    BY <2>1, HitTimes
<1> HIDE DEF n
<1>10. ASSUME NEW i \in DOMAIN hits, hits[i].channel = hit.channel, hits[i].run = run
       PROVE  /\ Before(hits[i], hit.timestamp, hit.start)
              /\ Before(hits[i], hit.timestamp, hit.end + 1)
  <2>1. Before(hits[i], frame.timestamp, frame.tick)
    BY <1>5, <1>8, <1>10 DEF TimeInv
  <2> QED
    BY <1>7, <1>8, <1>9, <2>1 DEF Before
<1>11. ASSUME NEW i \in DOMAIN hits', NEW j \in DOMAIN hits', i < j,
              hits'[i].channel = hits'[j].channel, hits'[i].run = hits'[j].run
       PROVE  Before(hits'[i], hits'[j].timestamp, hits'[j].start)
  <2>1. i \in DOMAIN hits
    BY <1>4, <1>11
  <2>2. CASE j \in DOMAIN hits
    BY <1>4, <1>11, <2>1, <2>2 DEF TimeInv
  <2>3. CASE j = n
    BY <1>2, <1>4, <1>10, <1>11, <2>1, <2>3
  <2> QED
    BY <1>4, <2>2, <2>3
<1>12. ASSUME NEW i \in DOMAIN hits',
              hits'[i].channel = frame'.channel, hits'[i].run = run'
       PROVE  Before(hits'[i], frame'.timestamp, frame'.tick)
  <2>1. CASE i \in DOMAIN hits
    BY <1>4, <1>7, <1>8, <1>10, <1>12, <2>1
  <2>2. CASE i = n
    BY <1>4, <1>8, <2>2 DEF Before
  <2> QED
    BY <1>4, <2>1, <2>2
<1> QED
  BY <1>11, <1>12 DEF TimeInv, Before

LEMMA TimeSteps == SInv /\ TimeInv /\ [Next]_vars => TimeInv'
<1> SUFFICES ASSUME SInv, TimeInv, [Next]_vars PROVE TimeInv'
  OBVIOUS
<1>1. CASE Stitch
  BY <1>1, TimeStitch
<1>2. ASSUME NEW c \in Channels, NEW ts \in Timestamps, NextFrame(c, ts)
      PROVE  TimeInv'
  <2>1. /\ hits' = hits /\ run' = run
        /\ frame'.channel = c /\ frame'.timestamp = ts
        /\ \A i \in DOMAIN hits :
             hits[i].channel = c /\ hits[i].run = run
               => hits[i].timestamp + StitchConstant <= ts
    BY <1>2 DEF NextFrame
  <2> QED
    BY <2>1 DEF TimeInv, Before
<1>3. CASE Start
  BY <1>3 DEF Start, TimeInv, Before
<1>4. CASE UNCHANGED vars
  BY <1>4 DEF vars, TimeInv, Before
<1> QED
  BY <1>1, <1>2, <1>3, <1>4 DEF Next

LEMMA InitTimes == Init => TimeInv
BY DEF Init, TimeInv

----------------------------------------------------------------------------
(* The last hit of a channel so far.                                       *)
Last(l, c) ==
  /\ l \in DOMAIN hits /\ hits[l].channel = c
  /\ \A k \in DOMAIN hits : l < k => hits[k].channel # c

(* The TP that is kept ends with the channel's last hit, m_T is the start  *)
(* time of that one, and a last hit that goes on is kept.                  *)
LastInv ==
  \A c \in Channels :
    /\ m_A[c] # NoTP =>
         \E l \in m_A[c].parts : Last(l, c) /\ m_T[c] = TimeStart(hits[l])
    /\ \A l \in DOMAIN hits :
         Last(l, c) /\ hits[l].continue => l \in m_A[c].parts

LEMMA LastStitch == ASSUME SInv, LastInv, Stitch PROVE LastInv'
<1>1. PICK hit \in HitsOfFrame : StitchHit(hit)
  BY DEF Stitch
<1> DEFINE c == hit.channel
<1>n. PICK n : n = Len(hits) + 1
  OBVIOUS
<1>2. hit \in Hit /\ c \in Channels /\ TypeOK
  BY HitsOfFrameType DEF Stitch, SInv, Hit
<1>3. NextHit(hit)
  BY <1>1 DEF StitchHit, CompletesTP, EndsBadly, ExtendsTP, SingleTP, StartsTP
<1>4. /\ n \in Nat /\ n > 0 /\ DOMAIN hits = 1 .. n - 1 /\ DOMAIN hits' = 1 .. n
      /\ \A i \in DOMAIN hits : hits'[i] = hits[i]
      /\ hits'[n] = hit
  BY <1>2, <1>3, <1>n, HitFacts
<1>5. /\ m_A \in [Channels -> TP \cup {NoTP}]
      /\ m_T \in [Channels -> Nat \cup {NoTime}]
  BY <1>2 DEF TypeOK
<1>6. \/ /\ m_A' = [m_A EXCEPT ![c] = NoTP] /\ m_T' = [m_T EXCEPT ![c] = NoTime]
         /\ ~hit.continue
      \/ \E tp : /\ m_A' = [m_A EXCEPT ![c] = tp]
                 /\ m_T' = [m_T EXCEPT ![c] = TimeStart(hit)]
                 /\ n \in tp.parts
  <2>1. CASE CompletesTP(hit) \/ EndsBadly(hit) \/ SingleTP(hit)
    BY <2>1 DEF CompletesTP, EndsBadly, SingleTP, Clear
  <2>2. CASE ExtendsTP(hit)
    <3>1. n \in Merged(hit).parts
      BY <1>2, <1>n, <2>2, MergedFacts DEF ExtendsTP, Continues
    <3> QED
      BY <2>2, <3>1 DEF ExtendsTP, Keep
  <2>3. CASE StartsTP(hit)
    <3>1. n \in Single(hit).parts
      BY <1>2, <1>n, SingleFacts
    <3> QED
      BY <2>3, <3>1 DEF StartsTP, Keep
  <2> QED
    BY <1>1, <2>1, <2>2, <2>3 DEF StitchHit
<1> HIDE DEF c
(* The last hit of the channel is the new one, those of the others stay.   *)
<1>7. /\ Last(n, c)'
      /\ \A l \in DOMAIN hits' : Last(l, c)' => l = n
  <2>1. \A l : Last(l, c)' <=>
          /\ l \in DOMAIN hits' /\ hits'[l].channel = c
          /\ \A k \in DOMAIN hits' : l < k => hits'[k].channel # c
    BY DEF Last, c
  <2>2. hit.channel = c
    BY DEF c
  <2> QED
    BY <1>4, <2>1, <2>2
<1>8. \A d \in Channels \ {c} :
        /\ m_A'[d] = m_A[d] /\ m_T'[d] = m_T[d]
        /\ \A l \in DOMAIN hits' : Last(l, d)' <=> Last(l, d)
  BY <1>4, <1>5, <1>6 DEF Last, c
<1>9. ASSUME NEW d \in Channels
      PROVE  /\ m_A'[d] # NoTP =>
                  \E l \in m_A'[d].parts : Last(l, d)' /\ m_T'[d] = TimeStart(hits'[l])
             /\ \A l \in DOMAIN hits' :
                  Last(l, d)' /\ hits'[l].continue => l \in m_A'[d].parts
  <2>1. CASE d = c
    <3>1. /\ Last(n, d)' /\ hits'[n] = hit
          /\ \A l \in DOMAIN hits' : Last(l, d)' => l = n
      BY <1>4, <1>7, <2>1
    <3>2. CASE /\ m_A' = [m_A EXCEPT ![c] = NoTP] /\ ~hit.continue
      <4>1. m_A'[d] = NoTP
        BY <1>2, <1>5, <2>1, <3>2
      <4> QED
        BY <3>1, <3>2, <4>1
    <3>3. ASSUME NEW tp, m_A' = [m_A EXCEPT ![c] = tp],
                 m_T' = [m_T EXCEPT ![c] = TimeStart(hit)], n \in tp.parts
          PROVE  /\ n \in m_A'[d].parts
                 /\ m_T'[d] = TimeStart(hits'[n])
      BY <1>2, <1>5, <2>1, <3>1, <3>3
    <3> QED
      BY <1>6, <3>1, <3>2, <3>3
  <2>2. CASE d # c
    <3>1. /\ m_A'[d] = m_A[d] /\ m_T'[d] = m_T[d]
          /\ \A l \in DOMAIN hits' : Last(l, d)' <=> Last(l, d)
      BY <1>8, <2>2
    <3>2. \A l : Last(l, d) => l \in DOMAIN hits /\ l \in DOMAIN hits' /\ hits'[l] = hits[l]
      BY <1>4 DEF Last
    <3> QED
      BY <3>1, <3>2 DEF LastInv
  <2> QED
    BY <2>1, <2>2
<1> QED
  BY <1>9 DEF LastInv

LEMMA LastSteps == SInv /\ LastInv /\ [Next]_vars => LastInv'
<1>1. LastInv /\ UNCHANGED <<m_A, m_T, hits, handed>> => LastInv'
  BY DEF LastInv, Last
<1> QED
  BY <1>1, OnlyStitch, LastStitch

LEMMA InitLast == Init => LastInv
BY DEF Init, LastInv

----------------------------------------------------------------------------
(* What StitchedNeighbours says of one TP.                                 *)
Neighbours(tp) ==
  \A i, j \in tp.parts :
    Follows(j, i) =>
      /\ hits[j].start = 0
      /\ OneRun(tp) /\ TimeStart(hits[j]) - tp.time_start < IntHalf
           => TimeStart(hits[j]) - TimeStart(hits[i]) <= StitchConstant

LEMMA NeighboursStay ==
  ASSUME NEW c \in Channels, NEW tp, Owned(tp.parts, c), Neighbours(tp),
         NEW hit \in Hit, TypeOK, NextHit(hit)
  PROVE  Neighbours(tp)'
<1>1. /\ Len(hits) \in Nat /\ DOMAIN hits = 1 .. Len(hits)
      /\ DOMAIN hits' = 1 .. Len(hits) + 1
      /\ \A i \in DOMAIN hits : hits'[i] = hits[i]
  BY HitFacts
<1>2. \A p \in tp.parts : p \in DOMAIN hits /\ hits'[p] = hits[p]
  BY <1>1 DEF Owned
<1>3. ASSUME NEW i \in tp.parts, NEW j \in tp.parts, Follows(j, i)'
      PROVE  Follows(j, i)
  BY <1>1, <1>2, <1>3 DEF Follows
<1>4. OneRun(tp)' => OneRun(tp)
  BY <1>2 DEF OneRun
<1> QED
  BY <1>2, <1>3, <1>4 DEF Neighbours

(* The hit that is added follows the last part, which starts at m_T; as    *)
(* long as int holds the time since the TP started, it holds the time      *)
(* since m_T, and neither test can be true by an overflow.                 *)
LEMMA NeighboursOfMerged ==
  ASSUME SInv, FieldsOfParts, TimeInv', LastInv,
         NEW hit \in Hit, hit.run = run, NextHit(hit), Continues(hit),
         Neighbours(m_A[hit.channel]), NEW tp, tp = Merged(hit)
  PROVE  Neighbours(tp)'
<1> DEFINE c == hit.channel
           old == m_A[c]
<1>n. PICK n : n = Len(hits) + 1
  OBVIOUS
<1>1. /\ n \in Nat /\ n > 0 /\ DOMAIN hits = 1 .. n - 1 /\ DOMAIN hits' = 1 .. n
      /\ \A i \in DOMAIN hits : hits'[i] = hits[i]
      /\ hits'[n] = hit
  BY <1>n, HitFacts DEF SInv
<1>2. /\ c \in Channels /\ old # NoTP /\ old \in TP /\ Owned(old.parts, c)
      /\ old \in TPs(c) /\ TimeStart(hit) \in Nat
  BY TimeStartType DEF Hit, SInv, TypeOK, PlaceInv, Continues, TPs
<1>3. tp.parts = old.parts \cup {n} /\ tp.time_start = old.time_start
  BY <1>2, <1>n DEF Merged, TP
<1>4. PICK l \in old.parts : Last(l, c) /\ m_T[c] = TimeStart(hits[l])
  BY <1>2 DEF LastInv
<1>5. PICK f \in old.parts : /\ \A p \in old.parts : f <= p
                             /\ old.time_start = TimeStart(hits[f])
  BY <1>2 DEF FieldsOfParts
<1>6. \A p \in old.parts : /\ p \in DOMAIN hits /\ p \in Nat /\ p < n
                           /\ hits[p].channel = c /\ hits'[p] = hits[p]
                           /\ hits[p] \in Hit /\ TimeStart(hits[p]) \in Nat
  <2>1. \A p \in old.parts : p \in DOMAIN hits /\ hits[p].channel = c
    BY <1>2 DEF Owned
  <2>2. \A p \in DOMAIN hits : hits[p] \in Hit
    BY DEF SInv, TypeOK
  <2>3. \A p \in DOMAIN hits : TimeStart(hits[p]) \in Nat
    BY <2>2, TimeStartType
  <2> QED
    BY <1>1, <2>1, <2>2, <2>3
<1>7. hit.start = 0
  BY DEF Continues
(* Parts of one run have start times in their order.                       *)
<1>8. ASSUME NEW p \in old.parts, NEW q \in tp.parts, p < q,
             hits'[p].run = hits'[q].run
      PROVE  TimeStart(hits'[p]) <= TimeStart(hits'[q])
  <2>1. /\ p \in DOMAIN hits' /\ q \in DOMAIN hits'
        /\ hits'[p] \in Hit /\ hits'[q] \in Hit
        /\ hits'[p].channel = c /\ hits'[q].channel = c
    BY <1>1, <1>3, <1>6
  <2>2. Before(hits'[p], hits'[q].timestamp, hits'[q].start)
    BY <1>8, <2>1 DEF TimeInv, Before
  <2> QED
    BY <2>1, <2>2, TimeStartMonotone
<1>9. ASSUME NEW i \in tp.parts, Follows(n, i)' PROVE i = l
  <2>1. i < n /\ i \in old.parts
    BY <1>1, <1>3, <1>6, <1>9 DEF Follows
  <2>2. ~ i < l
    <3>1. ~(l \in DOMAIN hits' /\ i < l /\ l < n /\ hits'[l].channel = hits'[n].channel)
      BY <1>9 DEF Follows
    <3> QED
      BY <1>1, <1>4, <1>6, <3>1
  <2>3. ~ l < i
    BY <1>4, <1>6, <2>1 DEF Last
  <2> QED
    BY <1>4, <1>6, <2>1, <2>2, <2>3
<1>10. ASSUME OneRun(tp)', TimeStart(hit) - old.time_start < IntHalf
       PROVE  TimeStart(hit) - TimeStart(hits[l]) <= StitchConstant
  <2>1. /\ TimeStart(hits[f]) \in Nat /\ TimeStart(hits[l]) \in Nat
        /\ TimeStart(hit) \in Nat
    BY <1>2, <1>4, <1>5, <1>6
  <2>2. \A p, q \in tp.parts : hits'[p].run = hits'[q].run
    BY <1>10 DEF OneRun
  <2>3. TimeStart(hits[f]) <= TimeStart(hits[l])
    <3>1. CASE f = l
      BY <2>1, <3>1
    <3>2. CASE f # l
      <4>1. f < l /\ l \in tp.parts /\ f \in tp.parts
        BY <1>3, <1>5, <1>6, <3>2
      <4> QED
        BY <1>6, <1>8, <2>2, <4>1
    <3> QED
      BY <3>1, <3>2
  <2>4. TimeStart(hits[l]) <= TimeStart(hit)
    <3>1. n \in tp.parts /\ l \in tp.parts /\ l < n
      BY <1>3, <1>6
    <3> QED
      BY <1>1, <1>6, <1>8, <2>2, <3>1
  <2>5. /\ Diff(TimeStart(hit), old.time_start) = TimeStart(hit) - old.time_start
        /\ Diff(TimeStart(hit), m_T[c]) = TimeStart(hit) - TimeStart(hits[l])
    <3>1. TimeStart(hit) - TimeStart(hits[l]) < IntHalf
      BY <1>5, <1>10, <2>1, <2>3, StitcherAssumption
    <3> HIDE DEF c, old
    <3> QED
      BY <1>4, <1>5, <1>10, <2>1, <2>3, <2>4, <3>1, DiffExact
  <2>6. \/ Diff(TimeStart(hit), old.time_start) <= StitchConstant
        \/ Diff(TimeStart(hit), m_T[c]) <= StitchConstant
    BY DEF Continues
  <2> HIDE DEF c, old
  <2> QED
    BY <1>5, <2>1, <2>3, <2>5, <2>6, StitcherAssumption
<1>11. Neighbours(old) /\ Owned(old.parts, c) /\ TypeOK
  BY <1>2 DEF SInv
<1> HIDE DEF c, old
<1>12. ASSUME NEW i \in tp.parts, NEW j \in tp.parts, Follows(j, i)'
       PROVE  /\ hits'[j].start = 0
              /\ OneRun(tp)' /\ TimeStart(hits'[j]) - tp.time_start < IntHalf
                   => TimeStart(hits'[j]) - TimeStart(hits'[i]) <= StitchConstant
  <2>1. CASE j = n
    BY <1>1, <1>3, <1>4, <1>6, <1>7, <1>9, <1>10, <1>12, <2>1
  <2>2. CASE j # n
    <3>1. j \in old.parts /\ i \in old.parts /\ Follows(j, i)
      BY <1>1, <1>3, <1>6, <1>12, <2>2 DEF Follows
    <3>2. OneRun(tp)' => OneRun(old)
      BY <1>3, <1>6 DEF OneRun
    <3> QED
      BY <1>3, <1>6, <1>11, <3>1, <3>2 DEF Neighbours
  <2> QED
    BY <2>1, <2>2
<1> QED
  BY <1>12 DEF Neighbours

LEMMA NeighboursStep ==
  ASSUME SInv, FieldsOfParts, TimeInv, LastInv, StitchedNeighbours, Stitch
  PROVE  StitchedNeighbours'
<1>1. PICK hit \in HitsOfFrame : StitchHit(hit)
  BY DEF Stitch
<1>2. hit \in Hit /\ hit.run = run /\ hit.channel \in Channels /\ TypeOK
  BY HitsOfFrameType DEF Stitch, SInv, Hit
<1>3. NextHit(hit)
  BY <1>1 DEF StitchHit, CompletesTP, EndsBadly, ExtendsTP, SingleTP, StartsTP
<1>4. TimeInv'
  BY TimeStitch
<1>5. ASSUME NEW d \in Channels, NEW tp \in TPs(d)' PROVE Neighbours(tp)'
  <2>1. CASE tp \in TPs(d)
    BY <1>2, <1>3, <2>1, TPsOwned, NeighboursStay DEF StitchedNeighbours, Neighbours
  <2>2. CASE Continues(hit) /\ tp = Merged(hit)
    <3>1. m_A[hit.channel] \in TPs(hit.channel)
      BY <2>2 DEF Continues, TPs
    <3>2. Neighbours(m_A[hit.channel])
      BY <1>2, <3>1 DEF StitchedNeighbours, Neighbours
    <3> QED
      BY <1>2, <1>3, <1>4, <2>2, <3>2, NeighboursOfMerged
  <2>3. CASE tp = Single(hit)
    <3>1. tp.parts = {Len(hits) + 1} /\ Len(hits) + 1 \in Nat
      BY <1>2, <2>3, SingleFacts DEF TypeOK
    <3> QED
      BY <3>1 DEF Neighbours, Follows
  <2>4. \/ tp \in TPs(d)
        \/ Continues(hit) /\ tp = Merged(hit)
        \/ tp = Single(hit)
    BY <1>1, <1>2, <1>5, StitchTPs DEF TPs
  <2> QED
    BY <2>1, <2>2, <2>3, <2>4
<1> QED
  BY <1>5 DEF StitchedNeighbours, Neighbours

LEMMA InitNeighbours == Init => StitchedNeighbours
<1> SUFFICES ASSUME Init, NEW c \in Channels PROVE TPs(c) = {}
  BY DEF StitchedNeighbours
<1> QED
  BY DEF Init, TPs, HandedTPs

LEMMA NeighboursSteps ==
  SInv /\ FieldsOfParts /\ TimeInv /\ LastInv /\ StitchedNeighbours /\ [Next]_vars
    => StitchedNeighbours'
<1>1. StitchedNeighbours /\ UNCHANGED <<m_A, m_T, hits, handed>> => StitchedNeighbours'
  BY DEF StitchedNeighbours, TPs, HandedTPs, Follows, OneRun
<1> QED
  BY <1>1, OnlyStitch, NeighboursStep

(* The hits of a channel arrive in time order, and m_A and m_T are about   *)
(* the channel's last hit.                                                 *)
THEOREM TimesInvariant == Spec => [](TimeInv /\ LastInv)
BY InitTimes, TimeSteps, InitLast, LastSteps, Invariance, PTL DEF Spec

(* tp_stitch puts no hits together that are further apart than the length  *)
(* of a frame, as far as the int differences it computes can tell.         *)
THEOREM StitchedNeighboursTheorem == Spec => []StitchedNeighbours
BY InitNeighbours, NeighboursSteps, TimesInvariant, FieldsOfPartsTheorem,
   Invariance, PTL DEF Spec

----------------------------------------------------------------------------
(* A hit that goes on is kept, and if the next one of the channel starts   *)
(* the next frame, the second of the two tests finds it: the difference is *)
(* between 0 and the length of a frame whatever the rounding.              *)
LEMMA CutContinues ==
  ASSUME SInv, LastInv, NEW hit \in Hit, NEW i \in DOMAIN hits,
         Last(i, hit.channel), hits[i].continue,
         hit.start = 0, hit.timestamp = hits[i].timestamp + StitchConstant
  PROVE  Continues(hit) /\ i \in m_A[hit.channel].parts
<1> DEFINE c == hit.channel
<1>1. /\ c \in Channels /\ hits[i] \in Hit
      /\ TimeStart(hit) \in Nat /\ TimeStart(hits[i]) \in Nat
  <2>1. hits[i] \in Hit
    BY DEF SInv, TypeOK
  <2>2. c \in Channels
    BY DEF Hit
  <2> QED
    BY <2>1, <2>2, TimeStartType
<1>2. i \in m_A[c].parts
  BY <1>1 DEF LastInv
<1>3. m_A[c] # NoTP
  BY <1>2 DEF NoTP
<1>4. PICK l \in m_A[c].parts : Last(l, c) /\ m_T[c] = TimeStart(hits[l])
  BY <1>1, <1>3 DEF LastInv
<1>5. l = i
  <2>1. l \in Nat /\ i \in Nat /\ l \in DOMAIN hits
    BY <1>4 DEF Last, SInv, TypeOK
  <2> QED
    BY <1>4, <2>1 DEF Last
<1>6. TimeStart(hit) - TimeStart(hits[i]) \in 0 .. StitchConstant
  BY <1>1, NextFrameTime
<1>7. Diff(TimeStart(hit), TimeStart(hits[i])) = TimeStart(hit) - TimeStart(hits[i])
  <2>1. /\ TimeStart(hits[i]) <= TimeStart(hit)
        /\ TimeStart(hit) - TimeStart(hits[i]) < IntHalf
    BY <1>1, <1>6, StitcherAssumption, FrameAssumption
  <2> QED
    BY <1>1, <2>1, DiffExact
<1>8. Diff(TimeStart(hit), m_T[c]) <= StitchConstant
  BY <1>4, <1>5, <1>6, <1>7, StitcherAssumption
<1> QED
  BY <1>2, <1>3, <1>8 DEF Continues

LEMMA RejoinedStep ==
  ASSUME SInv, LastInv, HitsRejoined, Stitch
  PROVE  HitsRejoined'
<1>1. PICK hit \in HitsOfFrame : StitchHit(hit)
  BY DEF Stitch
<1> DEFINE c == hit.channel
<1>n. PICK n : n = Len(hits) + 1
  OBVIOUS
<1>2. hit \in Hit /\ c \in Channels /\ TypeOK
  BY HitsOfFrameType DEF Stitch, SInv, Hit
<1>3. NextHit(hit)
  BY <1>1 DEF StitchHit, CompletesTP, EndsBadly, ExtendsTP, SingleTP, StartsTP
<1>4. /\ n \in Nat /\ n > 0 /\ DOMAIN hits = 1 .. n - 1 /\ DOMAIN hits' = 1 .. n
      /\ \A k \in DOMAIN hits : hits'[k] = hits[k]
      /\ hits'[n] = hit
  BY <1>2, <1>3, <1>n, HitFacts
<1>5. \A k \in DOMAIN hits : hits[k].channel \in Channels
  <2>1. \A k \in DOMAIN hits : hits[k] \in Hit
    BY <1>2 DEF TypeOK
  <2> QED
    BY <2>1 DEF Hit
(* No TP loses a part.                                                     *)
<1>6. ASSUME NEW d \in Channels, NEW tp \in TPs(d)
      PROVE  \E new \in TPs(d)' : tp.parts \subseteq new.parts
  <2>1. CASE d # c \/ ~Continues(hit)
    <3>1. TPs(d) \subseteq TPs(d)'
      BY <1>1, <1>2, <2>1, StitchTPs
    <3> QED
      BY <3>1
  <2>2. CASE d = c /\ Continues(hit)
    <3>1. TPs(c)' = HandedTPs(c) \cup {Merged(hit)}
      BY <1>1, <1>2, <2>2, StitchTPs
    <3>2. m_A[c].parts \subseteq Merged(hit).parts
      BY <1>2, <2>2, MergedFacts DEF Continues
    <3> QED
      BY <1>6, <2>2, <3>1, <3>2 DEF TPs
  <2> QED
    BY <2>1, <2>2
<1>7. ASSUME NEW i \in DOMAIN hits', NEW j \in DOMAIN hits', Cut(i, j)',
             NEW d \in Channels, d = hits'[j].channel
      PROVE  \E tp \in TPs(d)' : {i, j} \subseteq tp.parts
  <2>1. /\ i < j /\ hits'[i].channel = hits'[j].channel
        /\ \A k \in DOMAIN hits' :
             i < k /\ k < j => hits'[k].channel # hits'[j].channel
        /\ hits'[i].run = hits'[j].run /\ hits'[i].continue
        /\ hits'[j].start = 0
        /\ hits'[j].timestamp = hits'[i].timestamp + StitchConstant
    BY <1>7 DEF Cut, Follows
  <2>2. i \in DOMAIN hits /\ hits'[i] = hits[i]
    BY <1>4, <2>1
  <2>3. CASE j \in DOMAIN hits
    <3>1. Cut(i, j)
      BY <1>4, <2>1, <2>2, <2>3 DEF Cut, Follows
    <3>2. PICK tp \in TPs(hits[j].channel) : {i, j} \subseteq tp.parts
      BY <2>2, <2>3, <3>1 DEF HitsRejoined
    <3>3. d = hits[j].channel
      BY <1>4, <1>7, <2>3
    <3> QED
      BY <1>6, <3>2, <3>3
  <2>4. CASE j = n
    <3>1. Last(i, c)
      BY <1>4, <2>1, <2>2, <2>4 DEF Last
    <3>2. Continues(hit) /\ i \in m_A[c].parts
      BY <1>2, <1>4, <2>1, <2>2, <2>4, <3>1, CutContinues
    <3>3. {i, n} \subseteq Merged(hit).parts
      BY <1>2, <1>n, <3>2, MergedFacts DEF Continues
    <3>4. d = c
      BY <1>4, <1>7, <2>4
    <3>5. Merged(hit) \in TPs(d)'
      <4>1. TPs(c)' = HandedTPs(c) \cup {Merged(hit)}
        BY <1>1, <1>2, <3>2, StitchTPs
      <4>2. TPs(d)' = TPs(c)'
        BY <3>4 DEF TPs, HandedTPs
      <4> QED
        BY <4>1, <4>2
    <3> QED
      BY <2>4, <3>3, <3>5
  <2> QED
    BY <1>4, <2>3, <2>4
<1>8. \A j \in DOMAIN hits' : hits'[j].channel \in Channels
  BY <1>2, <1>4, <1>5
<1> QED
  BY <1>7, <1>8 DEF HitsRejoined, TPs, HandedTPs

LEMMA RejoinedSteps ==
  SInv /\ LastInv /\ HitsRejoined /\ [Next]_vars => HitsRejoined'
<1>1. HitsRejoined /\ UNCHANGED <<m_A, m_T, hits, handed>> => HitsRejoined'
  BY DEF HitsRejoined, TPs, HandedTPs, Cut, Follows
<1> QED
  BY <1>1, OnlyStitch, RejoinedStep

(* A hit the firmware cut at the end of a frame comes out in one piece,    *)
(* with times rounded to doubles and differences cut to int.               *)
THEOREM HitsRejoinedTheorem == Spec => []HitsRejoined
<1>1. Init => HitsRejoined
  BY DEF Init, HitsRejoined
<1> QED
  BY <1>1, RejoinedSteps, TimesInvariant, Invariance, PTL DEF Spec
=============================================================================
